SPECIFICATION FairSpec
CONSTANTS
  Fields = {conf, iou}
  MaxRequests = 1
PROPERTIES
  AppliedAtFrameBoundary
