---------------------------- MODULE MCFlashbench ----------------------------
(* Writes and discards of one page or of two neighbours, reads of one.     *)
(* Page 1 is written with any content, the others always with the same.    *)
EXTENDS Flashbench, TLC
CONSTANT MCPlain
MCRanges == {<<l>> : l \in Lpa} \union {<<l, m>> \in Lpa \X Lpa : m = l + 1}
MCData(r) == {d \in [DOMAIN r -> Data] : \A x \in DOMAIN r : r[x] # 1 => d[x] = MCPlain}
MCBio == [kind : {"read"}, lpas : {<<l>> : l \in Lpa}, datas : {<<>>}]
    \union UNION {[kind : {"write"}, lpas : {r}, datas : MCData(r)] : r \in MCRanges}
    \union {[kind |-> "discard", lpas |-> r, datas |-> [x \in DOMAIN r |-> Unmapped]] : r \in MCRanges}
    \union {[kind |-> "flush", lpas |-> <<>>, datas |-> <<>>]}
MCChipOf == [b \in Block |-> 0]
MCSymmetry == Permutations(Block) \union Permutations(WbPage)
=============================================================================
