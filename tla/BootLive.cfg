CONSTANTS
  Erased = Erased
  Garbage = Garbage
  Firmware <- MCFirmware
  RawSize <- MCRawSize
  Supported = {"small", "full", "big", "wrap"}
  HdrLen = 1
  AppLen = 8
  DownLen = 12
  BufLen = 4
  PageLen = 2
  SectorLen = 4
  Word = 16
  Deliveries <- MCDeliveries
  RawImages <- MCRawImages
  MaxFaults = 2
SPECIFICATION Unattended
PROPERTIES AlwaysStarts PackageEventuallyRuns
CHECK_DEADLOCK FALSE
