\* Two chips of two blocks of two pages, two LPAs.
SPECIFICATION Spec
CONSTANTS
  NumChips = 2
  BlocksOf0 = {a1, a2}
  BlocksOf1 = {b1, b2}
  Block <- MCBlock
  ChipOf <- MCChipOf
  NumPages = 2
  NumLps = 1
  Lpa = {l1, l2}
  Data = {d1}
  BgcTh = 1
  Null = Null
  Wild = Wild
  Unmapped = Unmapped
SYMMETRY MCSymmetry
INVARIANTS Places
PROPERTIES GcAfterCollect
CHECK_DEADLOCK FALSE
