\* Two chips with rings of two operations, one bio of up to two pages.
SPECIFICATION Spec
CONSTANTS
  NumChips = 2
  MaxEntries = 2
  W = 2
  MaxLag = 1
  OpTime <- MCReadTime
  FtlOps = {"READ"}
  Bio = {b1}
  MaxReq = 2
  NoBio = NoBio
  NoEntry = NoEntry
INVARIANTS TypeOK Ring NeverEmpty CountsRequests BioLifetime
PROPERTIES InOrder
