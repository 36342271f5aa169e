\* One chip with a ring of two operations, two bios of up to two pages.
SPECIFICATION FairSpec
CONSTANTS
  NumChips = 1
  MaxEntries = 2
  W = 4
  MaxLag = 1
  OpTime <- MCOpTime
  FtlOps = {"PROG"}
  Bio = {b1, b2}
  MaxReq = 2
  NoBio = NoBio
  NoEntry = NoEntry
INVARIANTS CountsRequests BioLifetime
PROPERTIES Progress
