SPECIFICATION ScreenSpec
CONSTANTS
  Ids = {1, 2, 3}
  MaxPages = 5
  MaxDisplay = 1
  Effects = {"Preserve", "Populate", "EvictAdvisory"}
  Lens = {1, 10}
  PageSize = 2
  Samples <- SomeSamples
  Threads = 2
  Interval = 2
  MaxQueue = 1
  MaxWidth = 3
  WordBits = 4
  ByteBits = 2
INVARIANTS
  EventsMeetTheirFiles
  MapsAreTrue
  IndexIsSound
  RightFilesAreKept
  ScreenIsUseful
  SummaryIsTrue
  BucketsAreFair
