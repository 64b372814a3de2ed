SPECIFICATION FairAttach
CONSTANTS
  note = note
  video = video
  Files <- MCFiles
  Chunks <- MCChunks
  MaxEntries = 2
  MaxBytes = 4
  MaxEntry = 2
  MaxUploads = 2
  MaxFetches = 2
  MaxFaults = 1
  None = None
CHECK_DEADLOCK FALSE
INVARIANTS Reachable CacheSound
PROPERTIES NeverStuck
