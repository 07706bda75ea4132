SPECIFICATION Spec
CONSTANTS
  Ann = Ann
  Bob = Bob
  Uploaders = {u1, u2}
  Files = {Ann, Bob}
  FolderOf <- OneDeeper
  SizeOf <- Sizes
  Lengths <- SomeLengths
  Space = 4
  Reserve = 1
  MaxUploads = 2
  MaxFaults = 1
INVARIANT ReserveKept
PROPERTY StoredIsIndexed
CHECK_DEADLOCK FALSE
