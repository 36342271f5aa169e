SPECIFICATION FbSpec
CONSTANTS
  NumChips = 1
  Block = {a1, a2, a3}
  ChipOf <- MCChipOf
  NumPages = 1
  NumLps = 1
  Lpa = {0, 1, 2}
  Data = {d1, d2}
  BgcTh = 1
  Null = Null
  Wild = Wild
  Unmapped = Unmapped
  WbPage = {e1, e2}
  Bio <- MCBio
  NoRequest = NoRequest
  MaxLpasDiscard = 1
  Missing = Missing
  MCPlain = d1
INVARIANTS WbInv WritingInFlush
 
SYMMETRY MCSymmetry
CHECK_DEADLOCK FALSE
