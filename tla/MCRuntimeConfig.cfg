SPECIFICATION FairSpec
CONSTANTS
  Fields = {conf, iou, tlost}
  MaxRequests = 3
INVARIANTS
  FramesUseLatest
  ReportsWhole
PROPERTIES
  ReportsNeverOlder
  InfoAnswered
