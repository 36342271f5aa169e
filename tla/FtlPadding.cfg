\* Two logical pages to a page: copies are padded; foreground collection only.
SPECIFICATION FgSpec
CONSTANTS
  NumChips = 1
  BlocksOf0 = {a1, a2, a3}
  BlocksOf1 = {}
  Block <- MCBlock
  ChipOf <- MCChipOf
  NumPages = 1
  NumLps = 2
  Lpa = {l1, l2, l3}
  Data = {d1, d2}
  BgcTh = 1
  Null = Null
  Wild = Wild
  Unmapped = Unmapped
SYMMETRY MCSymmetry
INVARIANTS DataInv NothingLost CountersMatch
CHECK_DEADLOCK FALSE
