\* Discarded data comes back: a violation.
SPECIFICATION Spec
CONSTANTS
  NumChips = 1
  BlocksOf0 = {a1, a2, a3}
  BlocksOf1 = {}
  Block <- MCBlock
  ChipOf <- MCChipOf
  NumPages = 2
  NumLps = 1
  Lpa = {l1, l2, l3}
  Data = {d1}
  BgcTh = 1
  Null = Null
  Wild = Wild
  Unmapped = Unmapped
SYMMETRY MCSymmetry
INVARIANTS DiscardsStay
CHECK_DEADLOCK FALSE
