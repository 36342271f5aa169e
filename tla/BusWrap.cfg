\* A wake-up time that wraps to zero: a violation.
SPECIFICATION FairSpec
CONSTANTS
  NumChips = 1
  MaxEntries = 2
  W = 4
  MaxLag = 1
  OpTime <- MCOpTime
  FtlOps = {"PROG"}
  Bio = {b1}
  MaxReq = 1
  NoBio = NoBio
  NoEntry = NoEntry
PROPERTIES ChipsReleased
