------------------------------- MODULE MCFtl -------------------------------
EXTENDS Ftl, TLC
CONSTANTS BlocksOf0, BlocksOf1
MCBlock == BlocksOf0 \union BlocksOf1
MCChipOf == [b \in MCBlock |-> IF b \in BlocksOf0 THEN 0 ELSE 1]
MCSymmetry == Permutations(BlocksOf0) \union Permutations(BlocksOf1) 
       \union Permutations(Lpa) \union Permutations(Data)
=============================================================================
