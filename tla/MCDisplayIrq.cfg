SPECIFICATION FairSpec
PROPERTIES
  CameraInterruptsReturn
