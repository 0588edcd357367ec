SPECIFICATION Spec
CONSTANTS
  Volume = {1, 2}
  VolumeIds = {"vol1", "vol2"}
  Contents <- SomeDisks
  Options <- SomeOptions
  Installations <- SomeInstallations
INVARIANTS OfferedIsPlannable OfferedIsFound EveryLoaderIsOffered
  RightDisk NeverStartsItself
CHECK_DEADLOCK FALSE
