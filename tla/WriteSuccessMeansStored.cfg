SPECIFICATION Spec
CONSTANTS
  FlashEnd = 16
  SectorMax = 6
  Retries = 2
  RetryLimit = 4
  Addresses <- MCAddresses
  Sizes = {1, 2}
  Blank = Blank
  Data = Data
  Corrupt = Corrupt
PROPERTIES
  WriteSuccessMeansStored
