SPECIFICATION StoreFairSpec
CONSTANTS
  Names = {x, y}
  Slots = {h1, h2}
  QueueCapacity = 1
  MaxOverflow = 1
  MaxTombstones = 1
  MaxMemory = 3
  MaxNamed = 2
  External = {1, 3}
  MaxInt = 31
  Slice = Slice
  Failed = Failed
  Null = Null
  Stray = Stray
  Types <- GoTypes
  SliceLengths = {0, 1, 2}
  Numbers = {1, 2}
  Widths = {1, 2}
  Ranks = {1, 2}
  Dims <- DimChoices
  StrideBytes <- StrideChoices
  Offsets <- OffsetChoices
  Counts = {0, 1, 3, 4}
  MaxItems = 10
  MaxNulls = 2
INVARIANT BooksBalance
INVARIANT TablesAreExact
INVARIANT CapturesAreRead
PROPERTY BorrowsAreReturned
CHECK_DEADLOCK FALSE
