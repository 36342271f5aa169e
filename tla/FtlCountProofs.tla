--------------------------- MODULE FtlCountProofs ---------------------------
(***************************************************************************)
(* The counters of a block, for any number of chips, blocks, pages and     *)
(* logical pages: what greedy victim selection and retirement go by is the *)
(* number of slots and pages they stand for.  Then, from those counters,   *)
(* what a foreground collection leaves: a GC block for every chip.         *)
(***************************************************************************)
EXTENDS FtlDataProofs, FunctionTheorems

----------------------------------------------------------------------------
(* Slots of a block with a status, in any assignment of statuses.          *)

With(f, b, st) == {s \in Slot : s[1] = b /\ f[s] = st}

LEMMA WithFinite ==
  ASSUME NEW f, NEW b \in Block, NEW st
  PROVE  IsFiniteSet(With(f, b, st))
<1> DEFINE S == With(f, b, st)
           g == [s \in S |-> <<s[2], s[3]>>]
<1>1. g \in [S -> Page \X Ofs]
  BY DEF With, Slot
<1>2. \A s, t \in S : g[s] = g[t] => s = t
  BY DEF With, Slot
<1>3. IsFiniteSet(Page \X Ofs)
  BY Sizes, FS_Product
<1> HIDE DEF g, S
<1>4. g \in Injection(S, Page \X Ofs)
  BY <1>1, <1>2, Fun_IsInj
<1>5. IsFiniteSet(S)
  BY <1>3, <1>4, FS_Injection
<1> QED BY <1>5 DEF S

(* Programming or invalidating a slot moves it from one set to another.    *)
Moved(f, g, s, to) ==
  f \in [Slot -> Status] /\ s \in Slot /\ f[s] # to /\ g = [f EXCEPT ![s] = to]

LEMMA SlotCounts ==
  ASSUME NEW f, NEW g, NEW s, NEW to, Moved(f, g, s, to), NEW b \in Block, NEW st
  PROVE  /\ s[1] # b \/ st \notin {f[s], to} =>
              Cardinality(With(g, b, st)) = Cardinality(With(f, b, st))
         /\ s[1] = b /\ st = to =>
              Cardinality(With(g, b, st)) = Cardinality(With(f, b, st)) + 1
         /\ s[1] = b /\ st = f[s] =>
              Cardinality(With(g, b, st)) = Cardinality(With(f, b, st)) - 1
<1>1. IsFiniteSet(With(f, b, st))
  BY WithFinite
<1>2. ASSUME s[1] # b \/ st \notin {f[s], to}
      PROVE  Cardinality(With(g, b, st)) = Cardinality(With(f, b, st))
  <2>1. With(g, b, st) = With(f, b, st)
    BY <1>2 DEF With, Moved
  <2> QED BY <2>1
<1>3. ASSUME s[1] = b /\ st = to
      PROVE  Cardinality(With(g, b, st)) = Cardinality(With(f, b, st)) + 1
  <2>1. s \notin With(f, b, st) /\ With(g, b, st) = With(f, b, st) \union {s}
    BY <1>3 DEF With, Moved
  <2>2. Cardinality(With(f, b, st) \union {s}) = Cardinality(With(f, b, st)) + 1
    BY <1>1, <2>1, FS_AddElement
  <2> QED BY <2>1, <2>2
<1>4. ASSUME s[1] = b /\ st = f[s]
      PROVE  Cardinality(With(g, b, st)) = Cardinality(With(f, b, st)) - 1
  <2>1. s \in With(f, b, st) /\ With(g, b, st) = With(f, b, st) \ {s}
    BY <1>4 DEF With, Moved
  <2>2. Cardinality(With(f, b, st) \ {s}) = Cardinality(With(f, b, st)) - 1
    BY <1>1, <2>1, FS_RemoveElement
  <2> QED BY <2>1, <2>2
<1> QED BY <1>2, <1>3, <1>4

(* Between operations the free slots are those of the pages not yet        *)
(* programmed, all of them.                                                *)
LEMMA FreeCount ==
  ASSUME IInv, FullInv, pc = "idle", NEW b \in Block
  PROVE  nrFree[b] * NumLps = Cardinality(SlotsOf(b, "FREE"))
<1>1. PICK n \in 0 .. NumPages : n = nrFree[b]
  BY DEF IInv, Core, FreeAhead
<1> DEFINE A == NumPages - n .. NumPages - 1
           S == A \X Ofs
           T == SlotsOf(b, "FREE")
           f == [x \in S |-> <<b, x[1], x[2]>>]
<1>2. A = {p \in Page : p >= NumPages - n}
  BY FtlAssumption DEF Page
<1>3. \A p \in Page, o \in Ofs : status[<<b, p, o>>] = "FREE" <=> p \in A
  <2>1. \A p \in Page, o \in Ofs : p >= NumPages - n => status[<<b, p, o>>] = "FREE"
    BY <1>1 DEF IInv, Core, FreeAhead
  <2>2. \A p \in Page, o \in Ofs : p < NumPages - n => status[<<b, p, o>>] # "FREE"
    BY <1>1 DEF FullInv, FreeBehind
  <2>3. \A p \in Page : p < NumPages - n \/ p >= NumPages - n
    BY FtlAssumption DEF Page
  <2> QED BY <1>2, <2>1, <2>2, <2>3
<1>4. Cardinality(A) = n /\ IsFiniteSet(A)
  BY FtlAssumption, FS_Interval
<1> HIDE DEF A
<1>5. IsFiniteSet(S) /\ Cardinality(S) = n * NumLps
  BY <1>4, Sizes, FS_Product
<1>6. f \in [S -> T]
  BY <1>2, <1>3 DEF SlotsOf, Slot
<1>7. \A x, y \in S : f[x] = f[y] => x = y
  OBVIOUS
<1>8. \A t \in T : \E x \in S : f[x] = t
  <2> SUFFICES ASSUME NEW t \in T PROVE \E x \in S : f[x] = t
    OBVIOUS
  <2>1. PICK p \in Page, o \in Ofs : t = <<b, p, o>> /\ status[<<b, p, o>>] = "FREE"
    BY DEF SlotsOf, Slot
  <2>2. <<p, o>> \in S
    BY <1>3, <2>1
  <2> QED BY <2>1, <2>2
<1> HIDE DEF S, T, f
<1>9. ExistsBijection(S, T)
  BY <1>6, <1>7, <1>8, Fun_IsBij DEF ExistsBijection
<1> QED BY <1>1, <1>5, <1>9, FS_Bijection DEF T

----------------------------------------------------------------------------
(* The invariant.  Padding counts as invalid but retires no page, so that  *)
(* the page being programmed must hold something that is not padding.      *)

SlotTotals ==
  \A b \in Block : /\ nrValLps[b] = Cardinality(With(status, b, "VALID"))
                   /\ nrInvLps[b] = Cardinality(With(status, b, "INVALID"))
PageTotals == \A b \in Block : nrInvPgs[b] = Cardinality(InvalidPages(b))

(* Collections program from whole multiples of a page on, and no padding   *)
(* is ever found there: it begins behind an address that was counted.      *)
HeadsNamed == \A k \in CopyIdx, m \in Nat : k = m * NumLps => lpas[k] # Unmapped
AtHead == \E m \in Nat : pos = m * NumLps
Alive ==
  pc = "map" /\ ~Bad =>
    NewLpa # Unmapped \/ \E o \in Ofs : o < ofs /\ status[<<blk, pg, o>>] = "VALID"

CountInv == SlotTotals /\ PageTotals /\ HeadsNamed /\ AtHead /\ Alive

(* A slot that is not invalid keeps its page from being.                   *)
LiveSlots ==
  \A b \in Block, p \in Page, o \in Ofs :
    status[<<b, p, o>>] # "INVALID" => ~FullyInvalid(b, p)

LEMMA NotInvalid == IInv => LiveSlots
<1> SUFFICES ASSUME IInv, NEW b \in Block, NEW p \in Page, NEW o \in Ofs,
                    status[<<b, p, o>>] # "INVALID", FullyInvalid(b, p)
             PROVE  FALSE
  BY DEF LiveSlots
<1>1. Cardinality(InvalidOfs(b, p)) = Cardinality(Ofs)
  BY Sizes DEF IInv, Core, PageCounts, FullyInvalid
<1>2. InvalidOfs(b, p) = Ofs
  BY <1>1, Sizes, FS_Subset DEF InvalidOfs
<1> QED BY <1>2 DEF InvalidOfs

LEMMA NotInvalidNext == IInv' => LiveSlots'
BY NotInvalid, PTL

LEMMA PagesFinite == \A b \in Block : IsFiniteSet(InvalidPages(b))
BY Sizes, FS_Subset DEF InvalidPages

LEMMA EraseTotals ==
  ASSUME IInv, SlotTotals, PageTotals, NEW b \in Block, Erase(b)
  PROVE  SlotTotals' /\ PageTotals'
<1>1. ASSUME NEW x \in Block, x # b, NEW st
      PROVE  With(status', x, st) = With(status, x, st) /\ InvalidPages(x)' = InvalidPages(x)
  BY <1>1 DEF Erase, With, InvalidPages, FullyInvalid
<1>2. /\ With(status', b, "VALID") = {} /\ With(status', b, "INVALID") = {}
      /\ InvalidPages(b)' = {}
  BY FtlAssumption DEF Erase, With, InvalidPages, FullyInvalid
<1>3. /\ nrValLps' = [nrValLps EXCEPT ![b] = 0] /\ nrInvLps' = [nrInvLps EXCEPT ![b] = 0]
      /\ nrInvPgs' = [nrInvPgs EXCEPT ![b] = 0]
      /\ nrValLps \in [Block -> Int] /\ nrInvLps \in [Block -> Int] /\ nrInvPgs \in [Block -> Int]
  BY DEF Erase, IInv, TypeOK, FlashType
<1> QED BY <1>1, <1>2, <1>3, FS_EmptySet DEF SlotTotals, PageTotals

LEMMA InvalidateTotals ==
  ASSUME IInv, SlotTotals, PageTotals, NEW l \in Lpa, l2p[l] # Unmapped, invalidate_lpg(l)
  PROVE  SlotTotals' /\ PageTotals'
<1>1. PICK b \in Block, p \in Page, o \in Ofs : l2p[l] = <<b, p, o>>
  BY DEF IInv, TypeOK, ListType, Slot
<1> DEFINE s == <<b, p, o>>
<1>2. /\ status' = [status EXCEPT ![s] = "INVALID"]
      /\ nrInvLps' = [nrInvLps EXCEPT ![b] = @ + 1] /\ nrValLps' = [nrValLps EXCEPT ![b] = @ - 1]
      /\ pgInv' = [pgInv EXCEPT ![<<b, p>>] = @ + 1]
      /\ nrInvPgs' = IF pgInv[<<b, p>>] + 1 = NumLps
                     THEN [nrInvPgs EXCEPT ![b] = @ + 1] ELSE nrInvPgs
  BY <1>1 DEF invalidate_lpg
<1>3. /\ s \in Slot /\ s[1] = b /\ status[s] = "VALID"
      /\ status \in [Slot -> Status] /\ pgInv \in [Block \X Page -> Int]
      /\ nrValLps \in [Block -> Int] /\ nrInvLps \in [Block -> Int] /\ nrInvPgs \in [Block -> Int]
  BY <1>1 DEF IInv, Core, MapInv, TypeOK, FlashType, Slot
<1>0. Moved(status, status', s, "INVALID")
  BY <1>2, <1>3 DEF Moved
<1>4. SlotTotals'
  <2> HIDE DEF s
  <2> SUFFICES ASSUME NEW x \in Block
               PROVE  /\ nrValLps'[x] = Cardinality(With(status', x, "VALID"))
                      /\ nrInvLps'[x] = Cardinality(With(status', x, "INVALID"))
    BY DEF SlotTotals
  <2>1. Cardinality(With(status', x, "VALID")) =
          IF x = b THEN Cardinality(With(status, x, "VALID")) - 1 ELSE Cardinality(With(status, x, "VALID"))
    BY <1>0, <1>3, SlotCounts
  <2>2. Cardinality(With(status', x, "INVALID")) =
          IF x = b THEN Cardinality(With(status, x, "INVALID")) + 1 ELSE Cardinality(With(status, x, "INVALID"))
    BY <1>0, <1>3, SlotCounts
  <2> QED BY <1>2, <1>3, <2>1, <2>2 DEF SlotTotals
<1>5. PageTotals'
  <2>1. pgInv[<<b, p>>] # NumLps
    BY <1>3, NotInvalid DEF LiveSlots, FullyInvalid
  <2>2. \A x \in Block \ {b} : InvalidPages(x)' = InvalidPages(x)
    BY <1>2, <1>3 DEF InvalidPages, FullyInvalid
  <2>3. CASE pgInv[<<b, p>>] + 1 = NumLps
    <3>1. InvalidPages(b)' = InvalidPages(b) \union {p} /\ p \notin InvalidPages(b)
      BY <1>2, <1>3, <2>1, <2>3 DEF InvalidPages, FullyInvalid
    <3>2. Cardinality(InvalidPages(b)') = Cardinality(InvalidPages(b)) + 1
      BY <3>1, PagesFinite, FS_AddElement
    <3> QED BY <1>2, <1>3, <2>2, <2>3, <3>2 DEF PageTotals
  <2>4. CASE pgInv[<<b, p>>] + 1 # NumLps
    <3>1. InvalidPages(b)' = InvalidPages(b)
      BY <1>2, <1>3, <2>1, <2>4 DEF InvalidPages, FullyInvalid
    <3> QED BY <1>2, <2>2, <2>4, <3>1 DEF PageTotals
  <2> QED BY <2>3, <2>4
<1> QED BY <1>4, <1>5

LEMMA MapLpTotals ==
  ASSUME IInv, IInv', CountInv, MapLp
  PROVE  SlotTotals' /\ PageTotals'
<1> DEFINE s == <<blk, pg, ofs>>
<1>1. /\ pc = "map" /\ blk \in Block /\ pg \in Page /\ ofs \in Ofs
      /\ s \in Slot /\ s[1] = blk /\ s[2] = pg /\ status[s] = "FREE"
      /\ \A t \in Slot : t # s => status'[t] = status[t]
  BY Mapping1
<1>2. /\ status \in [Slot -> Status] /\ pgInv \in [Block \X Page -> Int]
      /\ nrValLps \in [Block -> Int] /\ nrInvLps \in [Block -> Int] /\ nrInvPgs \in [Block -> Int]
      /\ nrInvPgs' = nrInvPgs
  BY DEF MapLp, IInv, TypeOK, FlashType
<1>3. CASE Fill(s)
  <2>1. /\ status' = [status EXCEPT ![s] = "VALID"]
        /\ nrValLps' = [nrValLps EXCEPT ![blk] = @ + 1]
        /\ UNCHANGED <<pgInv, nrInvLps>>
    BY <1>1, <1>3 DEF Fill
  <2>0. Moved(status, status', s, "VALID")
    BY <1>1, <1>2, <2>1 DEF Moved
  <2>2. SlotTotals'
    <3> HIDE DEF s
    <3> SUFFICES ASSUME NEW x \in Block
                 PROVE  /\ nrValLps'[x] = Cardinality(With(status', x, "VALID"))
                        /\ nrInvLps'[x] = Cardinality(With(status', x, "INVALID"))
      BY DEF SlotTotals
    <3>1. Cardinality(With(status', x, "VALID")) =
            IF x = blk THEN Cardinality(With(status, x, "VALID")) + 1 ELSE Cardinality(With(status, x, "VALID"))
      BY <1>1, <2>0, SlotCounts
    <3>2. Cardinality(With(status', x, "INVALID")) = Cardinality(With(status, x, "INVALID"))
      BY <1>1, <2>0, SlotCounts
    <3> QED BY <1>2, <2>1, <3>1, <3>2 DEF CountInv, SlotTotals
  <2>3. PageTotals'
    BY <1>2, <2>1 DEF CountInv, PageTotals, InvalidPages, FullyInvalid
  <2> QED BY <2>2, <2>3
<1>4. CASE NewLpa = Unmapped /\ Pad(s)
  <2>1. /\ status' = [status EXCEPT ![s] = "INVALID"]
        /\ nrInvLps' = [nrInvLps EXCEPT ![blk] = @ + 1]
        /\ pgInv' = [pgInv EXCEPT ![<<blk, pg>>] = @ + 1]
        /\ UNCHANGED <<nrValLps>>
    BY <1>1, <1>4 DEF Pad
  <2>0. Moved(status, status', s, "INVALID")
    BY <1>1, <1>2, <2>1 DEF Moved
  <2>2. SlotTotals'
    <3> HIDE DEF s
    <3> SUFFICES ASSUME NEW x \in Block
                 PROVE  /\ nrValLps'[x] = Cardinality(With(status', x, "VALID"))
                        /\ nrInvLps'[x] = Cardinality(With(status', x, "INVALID"))
      BY DEF SlotTotals
    <3>1. Cardinality(With(status', x, "INVALID")) =
            IF x = blk THEN Cardinality(With(status, x, "INVALID")) + 1 ELSE Cardinality(With(status, x, "INVALID"))
      BY <1>1, <2>0, SlotCounts
    <3>2. Cardinality(With(status', x, "VALID")) = Cardinality(With(status, x, "VALID"))
      BY <1>1, <2>0, SlotCounts
    <3> QED BY <1>2, <2>1, <3>1, <3>2 DEF CountInv, SlotTotals
  <2>3. pgInv[<<blk, pg>>] # NumLps
    BY <1>1, NotInvalid DEF LiveSlots, FullyInvalid
  <2>4. pgInv'[<<blk, pg>>] # NumLps
    <3>1. PICK o \in Ofs : o < ofs /\ status[<<blk, pg, o>>] = "VALID"
      BY <1>1, <1>4 DEF CountInv, Alive, MapLp
    <3>2. <<blk, pg, o>> # s
      BY <1>1, <3>1, FtlAssumption DEF Ofs
    <3>3. status'[<<blk, pg, o>>] # "INVALID"
      BY <1>1, <3>1, <3>2 DEF Slot
    <3> QED BY <1>1, <3>3, NotInvalidNext DEF LiveSlots, FullyInvalid
  <2>5. \A x \in Block : InvalidPages(x)' = InvalidPages(x)
    BY <1>1, <1>2, <2>1, <2>3, <2>4 DEF InvalidPages, FullyInvalid
  <2>6. PageTotals'
    BY <1>2, <2>5 DEF CountInv, PageTotals
  <2> QED BY <2>2, <2>6
<1> QED BY <1>3, <1>4 DEF MapLp

----------------------------------------------------------------------------
(* Positions in the copy buffers.                                          *)

(* No multiple lies strictly between two consecutive ones.                 *)
LEMMA NoneBetween ==
  ASSUME NEW n \in Nat, NEW j \in Nat, NEW m \in Nat, j * n > m * n
  PROVE  j * n >= m * n + n
<1>1. j > m
  <2>1. SUFFICES ASSUME j <= m PROVE FALSE
    OBVIOUS
  <2>2. PICK d \in Nat : m = j + d
    BY <2>1
  <2>3. m * n = j * n + d * n /\ d * n >= 0
    BY <2>2
  <2> QED BY <2>3
<1>2. PICK d \in Nat : j = m + 1 + d
  BY <1>1
<1>3. j * n = m * n + n + d * n /\ d * n >= 0
  BY <1>2
<1> QED BY <1>3

LEMMA ReadPageHeads ==
  ASSUME IInv, HeadsNamed, NEW b \in Block, NEW p \in Page, ReadPage(b, p)
  PROVE  HeadsNamed'
<1> DEFINE n == Cardinality(ValidOfs(b, p))
<1>1. PICK pick \in [0 .. n - 1 -> ValidOfs(b, p)] :
        lpas' = [x \in CopyIdx |->
          IF x - lpos \in 0 .. n - 1 THEN owner[<<b, p, pick[x - lpos]>>] ELSE lpas[x]]
  BY DEF ReadPage
<1> HIDE DEF n
<1>2. \A o \in ValidOfs(b, p) : owner[<<b, p, o>>] # Unmapped
  BY FtlAssumption DEF ValidOfs, IInv, Core, MapInv, Slot
<1>3. \A k \in CopyIdx : lpas'[k] = lpas[k] \/ lpas'[k] # Unmapped
  BY <1>1, <1>2
<1> QED BY <1>3 DEF HeadsNamed

(* Steps that leave slots, addresses and counters alone.                   *)
LEMMA StillCounted ==
  ASSUME CountInv, UNCHANGED <<flash, lpas>>, pos' \in {pos, 0}, pc' # "map"
  PROVE  CountInv'
<1>1. 0 \in Nat /\ 0 = 0 * NumLps
  BY FtlAssumption
<1>2. AtHead'
  BY <1>1 DEF CountInv, AtHead
<1> QED BY <1>2 DEF CountInv, SlotTotals, PageTotals, InvalidPages, FullyInvalid, HeadsNamed,
       Alive, flash

LEMMA EraseCounted ==
  ASSUME IInv, CountInv, NEW c \in Chip, gc[c] # Null, Erase(gc[c]),
         lpas' = lpas, pos' \in {pos, 0}, pc' # "map"
  PROVE  CountInv'
<1>1. gc[c] \in Block
  BY DEF IInv, TypeOK, ListType, BlockOrNull
<1>2. SlotTotals' /\ PageTotals'
  BY <1>1, EraseTotals DEF CountInv
<1>3. AtHead'
  <2>1. 0 \in Nat /\ 0 = 0 * NumLps
    BY FtlAssumption
  <2> QED BY <2>1 DEF CountInv, AtHead
<1> QED BY <1>2, <1>3 DEF CountInv, HeadsNamed, Alive

(* A host page begins with an LPA, a page of copies with a counted one.    *)
LEMMA AllocHostCounted ==
  ASSUME Calls, CountInv, op = "write", UNCHANGED <<flash, lpas, pos, wl>>,
         alloc_new_page(get_next_bus_chip, "host")
  PROVE  CountInv'
<1>1. 0 \in Ofs
  BY FtlAssumption DEF Ofs
<1>2. ofs' = 0 /\ job' = "host"
  BY DEF alloc_new_page
<1>3. NewLpa' # Unmapped
  BY <1>1, <1>2, FtlAssumption DEF NewLpa, Calls
<1> QED BY <1>3 DEF CountInv, SlotTotals, PageTotals, InvalidPages, FullyInvalid, HeadsNamed,
       AtHead, Alive, flash

LEMMA ProgCounted == IInv /\ CountInv /\ prog_valid_pgs_to_gc_blks => CountInv'
<1> SUFFICES ASSUME IInv, CountInv, prog_valid_pgs_to_gc_blks PROVE CountInv'
  OBVIOUS
<1>1. CASE UNCHANGED lpas /\ pc' # "map" /\ pos' \in {pos, 0}
  BY <1>1, StillCounted DEF prog_valid_pgs_to_gc_blks
<1>2. CASE /\ nrToCopy > pos /\ alloc_new_page(get_next_bus_chip, "copy")
           /\ lpas' = [k \in CopyIdx |-> IF k >= nrToCopy /\ k < pos + NumLps
                                         THEN Unmapped ELSE lpas[k]]
           /\ pos' = pos
  <2>1. HeadsNamed'
    <3> SUFFICES ASSUME NEW k \in CopyIdx, NEW m \in Nat, k = m * NumLps PROVE lpas'[k] # Unmapped
      BY DEF HeadsNamed
    <3>1. lpas[k] # Unmapped
      BY DEF CountInv, HeadsNamed
    <3>2. PICK h \in Nat : pos = h * NumLps
      BY DEF CountInv, AtHead
    <3>3. k \in Int /\ nrToCopy \in Int /\ pos \in Int /\ NumLps \in Nat
      BY FtlAssumption DEF CopyIdx, IInv, TypeOK, GcmType, CallType
    <3>4. k > pos => k >= pos + NumLps
      BY <3>2, <3>3, NoneBetween
    <3>5. ~(k >= nrToCopy /\ k < pos + NumLps)
      BY <1>2, <3>3, <3>4
    <3> QED BY <1>2, <3>1, <3>5
  <2>2. Alive'
    <3>1. ofs' = 0 /\ job' = "copy" /\ pos' + 0 = pos'
      BY <1>2 DEF alloc_new_page, IInv, TypeOK, CallType
    <3>2. ~Bad' => pos' \in CopyIdx /\ NewLpa' = lpas'[pos']
      BY <3>1 DEF Bad, NewLpa
    <3> QED BY <1>2, <2>1, <3>2 DEF Alive, HeadsNamed, CountInv, AtHead
  <2> QED BY <1>2, <2>1, <2>2 DEF prog_valid_pgs_to_gc_blks, CountInv, SlotTotals, PageTotals,
       InvalidPages, FullyInvalid, AtHead, flash
<1>3. \/ UNCHANGED lpas /\ pc' # "map" /\ pos' \in {pos, 0}
      \/ /\ nrToCopy > pos /\ alloc_new_page(get_next_bus_chip, "copy")
         /\ lpas' = [k \in CopyIdx |-> IF k >= nrToCopy /\ k < pos + NumLps
                                       THEN Unmapped ELSE lpas[k]]
         /\ pos' = pos
  BY DEF prog_valid_pgs_to_gc_blks, Fail, ResetLocals, loops
<1> QED BY <1>1, <1>2, <1>3

LEMMA MapInvalidateCounted == IInv /\ CountInv /\ MapInvalidate => CountInv'
<1> SUFFICES ASSUME IInv, CountInv, MapInvalidate PROVE CountInv'
  OBVIOUS
<1>1. /\ pc = "map" /\ ~Bad /\ invalidate_lpg(NewLpa)
      /\ UNCHANGED <<job, ofs, pos, lpas, wl>>
  BY DEF MapInvalidate, gcm, loops, target, call
<1>2. NewLpa \in Lpa /\ l2p[NewLpa] # Unmapped /\ NewLpa # Unmapped
  BY NewLpaType DEF IInv, Core, MapInvalidate, Mapped
<1>3. SlotTotals' /\ PageTotals'
  BY <1>1, <1>2, InvalidateTotals DEF CountInv
<1>4. NewLpa' = NewLpa
  BY <1>1 DEF NewLpa
<1> QED BY <1>1, <1>2, <1>3, <1>4 DEF CountInv, HeadsNamed, AtHead, Alive

LEMMA MapLpCounted == IInv /\ IInv' /\ CountInv /\ MapLp => CountInv'
<1> SUFFICES ASSUME IInv, IInv', CountInv, MapLp PROVE CountInv'
  OBVIOUS
<1> DEFINE s == <<blk, pg, ofs>>
<1>1. /\ pc = "map" /\ blk \in Block /\ pg \in Page /\ ofs \in Ofs
      /\ status'[s] = IF NewLpa = Unmapped THEN "INVALID" ELSE "VALID"
      /\ \A t \in Slot : t # s => status'[t] = status[t]
      /\ pc' = "map" => ofs' = ofs + 1
      /\ UNCHANGED <<blk, pg, pos, lpas>>
  BY Mapping1
<1>2. SlotTotals' /\ PageTotals'
  BY MapLpTotals
<1>3. ASSUME pc' = "map"
      PROVE  \E o \in Ofs : o < ofs' /\ status'[<<blk, pg, o>>] = "VALID"
  <2>1. \A o \in Ofs : o <= ofs => o < ofs'
    BY <1>1, <1>3, FtlAssumption DEF Ofs
  <2>2. CASE NewLpa # Unmapped
    <3>1. ofs <= ofs
      BY <1>1, FtlAssumption DEF Ofs
    <3> QED BY <1>1, <2>1, <2>2, <3>1
  <2>3. CASE NewLpa = Unmapped
    <3>1. PICK o \in Ofs : o < ofs /\ status[<<blk, pg, o>>] = "VALID"
      BY <1>1, <2>3 DEF CountInv, Alive, MapLp
    <3>2. o <= ofs /\ o # ofs
      BY <1>1, <3>1, FtlAssumption DEF Ofs
    <3>3. <<blk, pg, o>> \in Slot /\ <<blk, pg, o>> # s
      BY <1>1, <3>2 DEF Slot
    <3> QED BY <1>1, <2>1, <3>1, <3>2, <3>3
  <2> QED BY <2>2, <2>3
<1>4. Alive'
  BY <1>1, <1>3 DEF Alive
<1> QED BY <1>1, <1>2, <1>4 DEF CountInv, HeadsNamed, AtHead

LEMMA UpdateActCounted == IInv /\ CountInv /\ UpdateActBlk => CountInv'
<1> SUFFICES ASSUME IInv, CountInv, UpdateActBlk PROVE CountInv'
  OBVIOUS
<1>1. UNCHANGED <<flash, lpas>> /\ pc' # "map"
  BY DEF UpdateActBlk, gcm, Return
<1>2. CASE Return
  BY <1>1, <1>2, StillCounted DEF Return, ResetLocals
<1>3. CASE pos' = pos + NumLps
  <2>1. PICK m \in Nat : pos = m * NumLps
    BY DEF CountInv, AtHead
  <2>2. pos' = (m + 1) * NumLps /\ m + 1 \in Nat
    BY <1>3, <2>1, FtlAssumption
  <2>3. AtHead'
    BY <2>2 DEF AtHead
  <2> QED BY <1>1, <2>3 DEF CountInv, SlotTotals, PageTotals, InvalidPages, FullyInvalid, HeadsNamed,
       Alive, flash
<1> QED BY <1>2, <1>3 DEF UpdateActBlk

LEMMA ReadCounted ==
  IInv /\ CountInv /\ (get_valid_pgs_in_vic_blks \/ fb_bgc_read_valid_pgs) => CountInv'
<1> SUFFICES ASSUME IInv, CountInv, get_valid_pgs_in_vic_blks \/ fb_bgc_read_valid_pgs
             PROVE  CountInv'
  OBVIOUS
<1> DEFINE c == get_next_bus_chip
<1>1. UNCHANGED flash /\ pc' # "map" /\ pos' \in {pos, 0}
  BY DEF get_valid_pgs_in_vic_blks, fb_bgc_read_valid_pgs, ForEachChip, Fail, ResetLocals
<1>2. HeadsNamed'
  <2>1. CASE UNCHANGED lpas
    BY <2>1 DEF CountInv, HeadsNamed
  <2>2. CASE get_valid_pgs_in_vic_blks /\ Readable(i, rp) /\ ReadPage(vic[i], rp)
    <3>1. vic[i] \in Block /\ rp \in Page
      BY <2>2 DEF get_valid_pgs_in_vic_blks, IInv, Victims, Readable, TypeOK, GcmType, CallType,
         BlockOrNull
    <3> QED BY <2>2, <3>1, ReadPageHeads DEF CountInv
  <2>3. CASE fb_bgc_read_valid_pgs /\ Readable(c, fvp[c]) /\ ReadPage(vic[c], fvp[c])
    <3>1. c \in Chip /\ vic[c] \in Block
      BY <2>3, NextChip DEF fb_bgc_read_valid_pgs, IInv, Victims, Readable, TypeOK, GcmType,
         BlockOrNull
    <3>2. fvp[c] \in Page
      BY <2>3, <3>1, FtlAssumption
         DEF fb_bgc_read_valid_pgs, WildVictim, Readable, IInv, TypeOK, GcmType, Page
    <3> QED BY <2>3, <3>1, <3>2, ReadPageHeads DEF CountInv
  <2> QED BY <2>1, <2>2, <2>3 DEF get_valid_pgs_in_vic_blks, fb_bgc_read_valid_pgs
<1>3. AtHead'
  <2>1. 0 \in Nat /\ 0 = 0 * NumLps
    BY FtlAssumption
  <2> QED BY <1>1, <2>1 DEF CountInv, AtHead
<1> QED BY <1>1, <1>2, <1>3 DEF CountInv, SlotTotals, PageTotals, InvalidPages, FullyInvalid,
       Alive, flash

----------------------------------------------------------------------------
(* Every behaviour.                                                        *)

LEMMA InitCount == Init => CountInv
<1> SUFFICES ASSUME Init PROVE CountInv
  OBVIOUS
<1>1. \A b \in Block : With(status, b, "VALID") = {} /\ With(status, b, "INVALID") = {}
  BY DEF Init, InitFlash, With
<1>2. \A b \in Block : InvalidPages(b) = {}
  BY FtlAssumption DEF Init, InitFlash, InvalidPages, FullyInvalid
<1>3. SlotTotals /\ PageTotals
  BY <1>1, <1>2, FS_EmptySet DEF Init, InitFlash, SlotTotals, PageTotals
<1>4. HeadsNamed
  BY FtlAssumption DEF Init, InitGcm, HeadsNamed
<1>5. AtHead
  <2>1. 0 \in Nat /\ 0 = 0 * NumLps
    BY FtlAssumption
  <2> QED BY <2>1 DEF Init, InitCall, AtHead
<1> QED BY <1>3, <1>4, <1>5 DEF Init, InitCall, CountInv, Alive

LEMMA StutterCounted == CountInv /\ UNCHANGED vars => CountInv'
<1> SUFFICES ASSUME CountInv, UNCHANGED vars PROVE CountInv'
  OBVIOUS
<1>1. UNCHANGED <<flash, lpas, datas, pos, pc, job, ofs, blk, pg, wl>>
  BY DEF vars, gcm, loops, target, call
<1> QED BY <1>1 DEF CountInv, SlotTotals, PageTotals, InvalidPages, FullyInvalid, HeadsNamed,
       AtHead, Alive, Bad, NewLpa, flash

LEMMA NextCount == IInv /\ IInv' /\ Calls /\ CountInv /\ [Next]_vars => CountInv'
<1> SUFFICES ASSUME IInv, IInv', Calls, CountInv, [Next]_vars PROVE CountInv'
  OBVIOUS
<1>1. i \in Chip /\ get_next_bus_chip \in Chip
  BY NextChip DEF IInv, TypeOK, CallType
<1>2. CASE Request
  <2>1. ASSUME NEW l \in Lpa, Invalidate(l) PROVE CountInv'
    <3>1. pc' # "map" /\ UNCHANGED <<lpas, pos>>
      BY <2>1 DEF Invalidate, gcm, loops
    <3>2. CASE l2p[l] # Unmapped /\ invalidate_lpg(l)
      BY <3>1, <3>2, InvalidateTotals DEF CountInv, HeadsNamed, AtHead, Alive
    <3>3. CASE UNCHANGED flash
      BY <3>1, <3>3, StillCounted
    <3> QED BY <2>1, <3>2, <3>3 DEF Invalidate
  <2>2. ASSUME NEW l \in [Ofs -> Lpa], NEW d \in [Ofs -> Data], WriteStart(l, d) PROVE CountInv'
    BY <2>2, StillCounted DEF WriteStart, trigger_gc_page_mapping, init_gcm, gcm, loops
  <2> QED BY <1>2, <2>1, <2>2 DEF Request
<1>3. CASE trigger_bg_gc
  BY <1>3, StillCounted DEF trigger_bg_gc, init_gcm, gcm, loops
<1>4. CASE WriteAlloc
  <2>1. CASE alloc_new_page(get_next_bus_chip, "host") /\ UNCHANGED <<gcm, loops, call, env>>
    <3>1. op = "write" /\ UNCHANGED <<flash, lpas, pos, wl>>
      BY <1>4, <2>1 DEF WriteAlloc, Calls, Fg, gcm, loops, call
    <3> QED BY <2>1, <3>1, AllocHostCounted
  <2>2. CASE trigger_gc_page_mapping \/ (Fail /\ UNCHANGED gcm)
    <3>1. UNCHANGED <<flash, lpas>> /\ pos' \in {pos, 0} /\ pc' # "map"
      BY <1>4, <2>2 DEF WriteAlloc, trigger_gc_page_mapping, init_gcm, Fail, ResetLocals, gcm
    <3> QED BY <3>1, StillCounted
  <2> QED BY <1>4, <2>1, <2>2 DEF WriteAlloc
<1>5. CASE MapWild \/ BgcWild
  BY <1>5, StillCounted DEF MapWild, BgcWild, Crash, gcm, loops
<1>6. CASE MapInvalidate \/ MapLp \/ UpdateActBlk
  BY <1>6, MapInvalidateCounted, MapLpCounted, UpdateActCounted
<1>7. CASE prepare_act_blks
  <2>1. UNCHANGED lpas /\ pos' \in {pos, 0} /\ pc' # "map"
    BY <1>7 DEF prepare_act_blks, ForEachChip, Fail, ResetLocals, gcm
  <2> QED BY <1>1, <1>7, <2>1, StillCounted, EraseCounted DEF prepare_act_blks
<1>8. CASE fb_bgc_prepare_act_blks
  <2>1. UNCHANGED lpas /\ pos' \in {pos, 0} /\ pc' # "map"
    BY <1>8 DEF fb_bgc_prepare_act_blks, Return, Fail, ResetLocals, gcm
  <2> QED BY <1>1, <1>8, <2>1, StillCounted, EraseCounted DEF fb_bgc_prepare_act_blks
<1>9. CASE set_vic_blks \/ ReadFirst \/ fb_bgc_set_vic_blks \/ BgcProg \/ update_gc_blks
  <2>1. UNCHANGED <<flash, lpas>> /\ pos' \in {pos, 0} /\ pc' # "map"
    BY <1>9 DEF set_vic_blks, ReadFirst, fb_bgc_set_vic_blks, BgcProg, update_gc_blks,
       ForEachChip, Return, Fail, ResetLocals, gcm, loops
  <2> QED BY <2>1, StillCounted
<1>10. CASE get_valid_pgs_in_vic_blks \/ fb_bgc_read_valid_pgs
  BY <1>10, ReadCounted
<1>11. CASE prog_valid_pgs_to_gc_blks
  BY <1>11, ProgCounted
<1>12. CASE UNCHANGED vars
  BY <1>12, StutterCounted
<1> QED BY <1>2, <1>3, <1>4, <1>5, <1>6, <1>7, <1>8, <1>9, <1>10, <1>11, <1>12
     DEF Next, Step, Write, Collect, BgcRound

(* The counters that choose victims and retire blocks (ssd_info.h:23-28)   *)
(* are exact at every step: those of valid and invalid slots, of the       *)
(* invalid slots of a page, of the pages that hold nothing else, and,      *)
(* between operations, that of the free pages.                             *)
THEOREM Counting == Spec => []CountersMatch
<1>1. IInv /\ FullInv /\ CountInv => CountersMatch
  <2> SUFFICES ASSUME IInv, FullInv, CountInv PROVE CountersMatch
    OBVIOUS
  <2>1. \A b \in Block, p \in Page :
          pgInv[<<b, p>>] = Cardinality({o \in Ofs : status[<<b, p, o>>] = "INVALID"})
    BY DEF IInv, Core, PageCounts, InvalidOfs
  <2>2. \A b \in Block : /\ nrValLps[b] = Cardinality(SlotsOf(b, "VALID"))
                         /\ nrInvLps[b] = Cardinality(SlotsOf(b, "INVALID"))
    BY DEF CountInv, SlotTotals, With, SlotsOf
  <2>3. \A b \in Block : nrInvPgs[b] = Cardinality({p \in Page : FullyInvalid(b, p)})
    BY DEF CountInv, PageTotals, InvalidPages
  <2>4. \A b \in Block : pc = "idle" => nrFree[b] * NumLps = Cardinality(SlotsOf(b, "FREE"))
    BY FreeCount
  <2> QED BY <2>1, <2>2, <2>3, <2>4 DEF CountersMatch
<1>2. IInv /\ KeptInv /\ FullInv /\ CountInv /\ [Next]_vars
        => (IInv /\ KeptInv /\ FullInv /\ CountInv)'
  BY NextStep, NextKept, NextFull, NextCount DEF KeptInv
<1>3. Init => IInv /\ KeptInv /\ FullInv /\ CountInv
  BY InitType, InitCore, InitKept, InitFull, InitCount DEF IInv
<1> QED BY <1>1, <1>2, <1>3, PTL DEF Spec

----------------------------------------------------------------------------
(* What a foreground collection leaves.  A chip that lacks a block gets a  *)
(* victim; its valid slots are counted, read and programmed elsewhere,     *)
(* each at a position of its own in the copy buffers, and once none is     *)
(* left the victim has been retired: it is the GC block of its chip, or    *)
(* dirt.                                                                   *)

(* The valid slots of the victims, those of the chips before c, and those  *)
(* that were read before page r of chip c.                                 *)
Live == {s \in Slot : status[s] = "VALID" /\ vic[ChipOf[s[1]]] = s[1]}
Counted(c) == {s \in Live : ChipOf[s[1]] < c}
Done(r, c) == {s \in Live : s[2] < r \/ (s[2] = r /\ ChipOf[s[1]] < c)}

(* The LPA of a slot waits in the copy buffers between two positions.      *)
Held(lo, hi, s) == \E k \in lo .. hi - 1 : k \in CopyIdx => lpas[k] = owner[s]
Upto == IF pc = "prog" THEN pos ELSE IF pc = "map" THEN pos + ofs ELSE pos + NumLps

(* A chip has a block to erase, or a victim that will become one.          *)
Room(c) == gc[c] # Null \/ On(dirtB, c) # {}
Secured(c) == Room(c) \/ (vic[c] \in usedB /\ ChipOf[vic[c]] = c)
Picked(c) == vic[c] = Null \/ (vic[c] \in usedB \union dirtB /\ ChipOf[vic[c]] = c)
Aside(c) ==
  vic[c] = Null \/ (ChipOf[vic[c]] = c /\ (vic[c] \in usedB \union dirtB \/ vic[c] = gc[c]))

(* A block on the used list is not invalid as a whole.                     *)
UsedLive == /\ \A b \in usedB : nrInvPgs[b] < NumPages
            /\ pc = "update_act_blk" => nrInvPgs[blk] < NumPages

(* What a foreground collection has at the head of each of its loops: for  *)
(* the chips passed, and, of what it copies, for the positions passed.     *)
Begun == pc = "prepare_act_blks" => nrToCopy = 0 /\ lpos = 0 /\ dpos = 0 /\ pos = 0
ChosenFg ==
  pc = "set_vic_blks" =>
    /\ \A c \in Chip : c < i => Picked(c) /\ Secured(c)
    /\ nrToCopy = Cardinality(Counted(i))
    /\ lpos = 0 /\ dpos = 0 /\ pos = 0
ReadFg ==
  pc \in {"read_first", "read"} =>
    /\ \A c \in Chip : Picked(c) /\ Secured(c)
    /\ nrToCopy = Cardinality(Live) /\ lpos = dpos /\ pos = 0
    /\ pc = "read" => lpos = Cardinality(Done(rp, i)) /\ \A s \in Done(rp, i) : Held(0, lpos, s)
    /\ pc = "read_first" => lpos = 0 \/ (lpos = nrToCopy /\ \A s \in Live : Held(0, lpos, s))
ProgFg ==
  op = "write" /\ (pc = "prog" \/ InCopy) =>
    /\ \A c \in Chip : Aside(c) /\ Secured(c)
    /\ \A s \in Live : Held(Upto, nrToCopy, s)
GiveFg ==
  op = "write" /\ pc = "update_gc_blks" =>
    \A c \in Chip : /\ c < i => gc[c] # Null
                    /\ c >= i => Room(c)
EvacInv == Begun /\ ChosenFg /\ ReadFg /\ ProgFg /\ GiveFg

----------------------------------------------------------------------------
(* Used blocks.                                                            *)

LEMMA UsedValid ==
  ASSUME IInv, FullInv, PageTotals, UsedLive, NEW b \in usedB
  PROVE  \E s \in Slot : s[1] = b /\ status[s] = "VALID"
<1>1. b \in Block /\ nrInvPgs[b] < NumPages /\ FullBlk(b)
  BY DEF IInv, TypeOK, ListType, UsedLive, FullInv, FullLists
<1>2. SUFFICES ASSUME \A p \in Page, o \in Ofs : status[<<b, p, o>>] # "VALID" PROVE FALSE
  BY <1>1 DEF Slot
<1>3. \A p \in Page, o \in Ofs : status[<<b, p, o>>] = "INVALID"
  BY <1>1, <1>2 DEF FullBlk, IInv, TypeOK, FlashType, Status, Slot
<1>4. ASSUME NEW p \in Page PROVE FullyInvalid(b, p)
  <2>1. InvalidOfs(b, p) = Ofs
    BY <1>3 DEF InvalidOfs
  <2>2. pgInv[<<b, p>>] = Cardinality(InvalidOfs(b, p))
    BY <1>1 DEF IInv, Core, PageCounts
  <2> QED BY <2>1, <2>2, Sizes DEF FullyInvalid
<1>5. InvalidPages(b) = Page
  BY <1>4 DEF InvalidPages
<1>6. nrInvPgs[b] = NumPages
  BY <1>1, <1>5, Sizes DEF PageTotals
<1> QED BY <1>1, <1>6, FtlAssumption

LEMMA StillUsed ==
  ASSUME UsedLive, nrInvPgs' = nrInvPgs, usedB' \subseteq usedB, pc' # "update_act_blk"
  PROVE  UsedLive'
BY DEF UsedLive

LEMMA EraseUsed ==
  ASSUME IInv, UsedLive, NEW c \in Chip, gc[c] # Null, Erase(gc[c]), usedB' = usedB,
         pc' # "update_act_blk"
  PROVE  UsedLive'
<1>1. gc[c] \notin usedB
  BY DEF IInv, Core, GcBlocks, Listed
<1>2. \A b \in usedB : nrInvPgs'[b] = nrInvPgs[b]
  BY <1>1 DEF Erase, IInv, TypeOK, FlashType, ListType
<1> QED BY <1>2 DEF UsedLive

(* The last page of a block to become invalid takes it from the list.      *)
LEMMA InvalidateUsed ==
  ASSUME IInv, UsedLive, NEW l \in Lpa, l2p[l] # Unmapped, invalidate_lpg(l),
         pc' # "update_act_blk"
  PROVE  UsedLive'
<1>1. PICK b \in Block : b = l2p[l][1]
  BY DEF IInv, TypeOK, ListType, Slot
<1>2. /\ nrInvPgs \in [Block -> Int] /\ usedB \subseteq Block
      /\ \/ nrInvPgs' = nrInvPgs /\ usedB' \subseteq usedB
         \/ /\ nrInvPgs' = [nrInvPgs EXCEPT ![b] = @ + 1]
            /\ usedB' \subseteq usedB
            /\ nrInvPgs[b] + 1 = NumPages => b \notin usedB'
  BY <1>1 DEF invalidate_lpg, RetireBlock, LastPageOf, lists, IInv, TypeOK, FlashType, ListType
<1>3. \A x \in usedB' : nrInvPgs[x] \in Int /\ nrInvPgs[x] < NumPages
  BY <1>2 DEF UsedLive
<1>4. b \in usedB' => nrInvPgs[b] + 1 < NumPages \/ nrInvPgs' = nrInvPgs
  BY <1>2, <1>3, FtlAssumption
<1>5. \A x \in usedB' : nrInvPgs'[x] < NumPages
  BY <1>2, <1>3, <1>4
<1> QED BY <1>5 DEF UsedLive

LEMMA MapLpUsed == IInv /\ IInv' /\ CountInv /\ CountInv' /\ UsedLive /\ MapLp => UsedLive'
<1> SUFFICES ASSUME IInv, IInv', CountInv, CountInv', UsedLive, MapLp PROVE UsedLive'
  OBVIOUS
<1> DEFINE s == <<blk, pg, ofs>>
<1>1. /\ pc = "map" /\ blk \in Block /\ pg \in Page /\ ofs \in Ofs
      /\ status'[s] = IF NewLpa = Unmapped THEN "INVALID" ELSE "VALID"
      /\ \A t \in Slot : t # s => status'[t] = status[t]
      /\ UNCHANGED blk
  BY Mapping1
<1>2. UNCHANGED <<nrInvPgs, usedB>>
  BY DEF MapLp, lists
<1>3. \E o \in Ofs : status'[<<blk, pg, o>>] = "VALID"
  <2>1. CASE NewLpa # Unmapped
    BY <1>1, <2>1
  <2>2. CASE NewLpa = Unmapped
    <3>1. PICK o \in Ofs : o < ofs /\ status[<<blk, pg, o>>] = "VALID"
      BY <1>1, <2>2 DEF CountInv, Alive, MapLp
    <3>2. o # ofs
      BY <1>1, <3>1, FtlAssumption DEF Ofs
    <3>3. <<blk, pg, o>> \in Slot /\ <<blk, pg, o>> # s
      BY <1>1, <3>2 DEF Slot
    <3> QED BY <1>1, <3>1, <3>3
  <2> QED BY <2>1, <2>2
<1>4. ~FullyInvalid(blk, pg)'
  <2>1. blk' = blk
    BY <1>1
  <2>2. \A b \in Block, p \in Page, o \in Ofs :
          status'[<<b, p, o>>] # "INVALID" => pgInv'[<<b, p>>] # NumLps
    BY NotInvalidNext DEF LiveSlots, FullyInvalid
  <2> QED BY <1>1, <1>3, <2>2 DEF FullyInvalid, MapLp
<1>5. nrInvPgs'[blk] < NumPages
  <2>1. InvalidPages(blk)' \subseteq Page /\ pg \notin InvalidPages(blk)'
    BY <1>1, <1>4 DEF InvalidPages, FullyInvalid, MapLp
  <2>2. PICK n \in Nat : n = Cardinality(InvalidPages(blk)') /\ n <= NumPages
    BY <2>1, Sizes, FS_Subset, FS_CardinalityType
  <2>3. n # NumPages
    BY <1>1, <2>1, <2>2, Sizes, FS_Subset
  <2>4. nrInvPgs'[blk] = n
    <3>1. \A b \in Block : nrInvPgs'[b] = Cardinality(InvalidPages(b)')
      BY DEF CountInv, PageTotals
    <3> QED BY <1>1, <2>2, <3>1
  <2> QED BY <2>2, <2>3, <2>4, FtlAssumption
<1> QED BY <1>1, <1>2, <1>5 DEF UsedLive

LEMMA UpdateActUsed == IInv /\ UsedLive /\ UpdateActBlk => UsedLive'
<1> SUFFICES ASSUME IInv, UsedLive, UpdateActBlk PROVE UsedLive'
  OBVIOUS
<1>1. pc = "update_act_blk" /\ pc' # "update_act_blk" /\ nrInvPgs' = nrInvPgs
      /\ usedB' \subseteq usedB \union {blk}
  BY DEF UpdateActBlk, Return, flash
<1> QED BY <1>1 DEF UsedLive

LEMMA NextUsed == IInv /\ IInv' /\ CountInv /\ CountInv' /\ UsedLive /\ [Next]_vars => UsedLive'
<1> SUFFICES ASSUME IInv, IInv', CountInv, CountInv', UsedLive, [Next]_vars PROVE UsedLive'
  OBVIOUS
<1>1. i \in Chip /\ get_next_bus_chip \in Chip
  BY NextChip DEF IInv, TypeOK, CallType
<1>2. CASE Request
  <2>1. ASSUME NEW l \in Lpa, Invalidate(l) PROVE UsedLive'
    <3>1. pc' # "update_act_blk"
      BY <2>1 DEF Invalidate
    <3> QED BY <2>1, <3>1, StillUsed, InvalidateUsed DEF Invalidate, flash, lists
  <2>2. ASSUME NEW l \in [Ofs -> Lpa], NEW d \in [Ofs -> Data], WriteStart(l, d) PROVE UsedLive'
    BY <2>2, StillUsed DEF WriteStart, trigger_gc_page_mapping, flash, lists
  <2> QED BY <1>2, <2>1, <2>2 DEF Request
<1>3. CASE trigger_bg_gc
  BY <1>3, StillUsed DEF trigger_bg_gc, flash, lists
<1>4. CASE WriteAlloc
  BY <1>4, StillUsed DEF WriteAlloc, alloc_new_page, trigger_gc_page_mapping, Fail, flash
<1>5. CASE MapWild \/ BgcWild
  BY <1>5, StillUsed DEF MapWild, BgcWild, Crash, flash, lists
<1>6. CASE MapInvalidate
  <2>1. NewLpa \in Lpa /\ l2p[NewLpa] # Unmapped /\ invalidate_lpg(NewLpa) /\ pc' # "update_act_blk"
    BY <1>6, NewLpaType DEF IInv, Core, MapInvalidate, Mapped
  <2> QED BY <2>1, InvalidateUsed
<1>7. CASE MapLp \/ UpdateActBlk
  BY <1>7, MapLpUsed, UpdateActUsed
<1>8. CASE prepare_act_blks
  <2>1. pc' # "update_act_blk" /\ usedB' = usedB
    BY <1>8 DEF prepare_act_blks, ForEachChip, Fail, lists
  <2> QED BY <1>1, <1>8, <2>1, StillUsed, EraseUsed DEF prepare_act_blks, flash
<1>9. CASE fb_bgc_prepare_act_blks
  <2>1. pc' # "update_act_blk" /\ usedB' = usedB
    BY <1>9 DEF fb_bgc_prepare_act_blks, Return, Fail, lists
  <2> QED BY <1>1, <1>9, <2>1, StillUsed, EraseUsed DEF fb_bgc_prepare_act_blks, flash
<1>10. CASE set_vic_blks \/ ReadFirst \/ fb_bgc_set_vic_blks \/ BgcProg \/ update_gc_blks
  <2>1. nrInvPgs' = nrInvPgs /\ usedB' = usedB /\ pc' # "update_act_blk"
    BY <1>10 DEF set_vic_blks, ReadFirst, fb_bgc_set_vic_blks, BgcProg, update_gc_blks,
       ForEachChip, Return, Fail, flash, lists
  <2> QED BY <2>1, StillUsed
<1>11. CASE get_valid_pgs_in_vic_blks \/ fb_bgc_read_valid_pgs \/ prog_valid_pgs_to_gc_blks
  <2>1. nrInvPgs' = nrInvPgs /\ usedB' = usedB /\ pc' # "update_act_blk"
    BY <1>11 DEF get_valid_pgs_in_vic_blks, fb_bgc_read_valid_pgs, prog_valid_pgs_to_gc_blks,
       alloc_new_page, ForEachChip, Fail, flash, lists
  <2> QED BY <2>1, StillUsed
<1>12. CASE UNCHANGED vars
  BY <1>12 DEF vars, flash, lists, target, UsedLive
<1> QED BY <1>2, <1>3, <1>4, <1>5, <1>6, <1>7, <1>8, <1>9, <1>10, <1>11, <1>12
     DEF Next, Step, Write, Collect, BgcRound

----------------------------------------------------------------------------
(* Valid slots of the victims.                                             *)

FgLoops == {"prepare_act_blks", "set_vic_blks", "read_first", "read"}
Elsewhere ==
  pc \notin FgLoops /\ (op = "write" => pc \notin {"prog", "update_gc_blks"} /\ ~InCopy)

LEMMA ElsewhereEvac == Elsewhere => EvacInv
BY DEF Elsewhere, FgLoops, EvacInv, Begun, ChosenFg, ReadFg, ProgFg, GiveFg

LEMMA ElsewhereEvacNext == Elsewhere' => EvacInv'
BY ElsewhereEvac, PTL

LEMMA LiveFinite == IsFiniteSet(Live)
<1>1. IsFiniteSet(Slot)
  <2>1. IsFiniteSet(Page \X Ofs)
    BY Sizes, FS_Product
  <2>2. IsFiniteSet(Block \X (Page \X Ofs))
    BY <2>1, FtlAssumption, FS_Product
  <2> DEFINE S == Block \X (Page \X Ofs)
             f == [x \in S |-> <<x[1], x[2][1], x[2][2]>>]
  <2>3. f \in [S -> Slot]
    BY DEF Slot
  <2>4. \A t \in Slot : \E x \in S : f[x] = t
    <3> SUFFICES ASSUME NEW t \in Slot PROVE \E x \in S : f[x] = t
      OBVIOUS
    <3>0. PICK b \in Block, p \in Page, o \in Ofs : t = <<b, p, o>>
      BY DEF Slot
    <3>1. <<b, <<p, o>>>> \in S
      OBVIOUS
    <3>2. f[<<b, <<p, o>>>>] = <<b, p, o>>
      BY <3>1
    <3> QED BY <3>0, <3>1, <3>2
  <2> HIDE DEF S, f
  <2>5. f \in Surjection(S, Slot)
    BY <2>3, <2>4, Fun_IsSurj
  <2> QED BY <2>2, <2>5, FS_Surjection DEF S
<1> QED BY <1>1, FS_Subset DEF Live

(* The valid slots of one page.                                            *)
LEMMA PageSlots ==
  ASSUME NEW b \in Block, NEW p \in Page
  PROVE  /\ IsFiniteSet({<<b, p, o>> : o \in ValidOfs(b, p)})
         /\ Cardinality({<<b, p, o>> : o \in ValidOfs(b, p)}) = Cardinality(ValidOfs(b, p))
<1> DEFINE S == ValidOfs(b, p)
           T == {<<b, p, o>> : o \in S}
           f == [o \in S |-> <<b, p, o>>]
<1>1. IsFiniteSet(S)
  BY Sizes, FS_Subset DEF ValidOfs
<1>2. f \in [S -> T] /\ (\A x, y \in S : f[x] = f[y] => x = y) /\ \A t \in T : \E x \in S : f[x] = t
  OBVIOUS
<1> HIDE DEF S, T, f
<1>3. ExistsBijection(S, T)
  BY <1>2, Fun_IsBij DEF ExistsBijection
<1> QED BY <1>1, <1>3, FS_Bijection DEF S, T

LEMMA Union2 ==
  ASSUME NEW S, NEW T, IsFiniteSet(S), IsFiniteSet(T), S \intersect T = {}
  PROVE  Cardinality(S \union T) = Cardinality(S) + Cardinality(T)
<1>1. Cardinality(S \intersect T) = 0 /\ Cardinality(S) \in Nat /\ Cardinality(T) \in Nat
  BY FS_EmptySet, FS_CardinalityType
<1>2. Cardinality(S \union T) = Cardinality(S) + Cardinality(T) - Cardinality(S \intersect T)
  BY FS_Union
<1> QED BY <1>1, <1>2

(* One more chip chosen for.                                               *)
LEMMA CountOn ==
  ASSUME IInv, SlotTotals, NEW c \in Chip, NEW v \in BlockOrNull,
         vic' = [vic EXCEPT ![c] = v], status' = status, v # Null => ChipOf[v] = c
  PROVE  Cardinality(Counted(c + 1)') = Cardinality(Counted(c)) + (IF v = Null THEN 0 ELSE nrValLps[v])
<1> DEFINE New == {s \in Slot : status[s] = "VALID" /\ ChipOf[s[1]] = c /\ v = s[1]}
<1>1. /\ \A x \in Chip : vic'[x] = IF x = c THEN v ELSE vic[x]
      /\ \A x \in Chip : x < c + 1 <=> x < c \/ x = c
      /\ \A x \in Chip : ~(x < c) \/ x # c
      /\ \A s \in Slot : ChipOf[s[1]] \in Chip
  BY FtlAssumption DEF Chip, Slot, IInv, TypeOK, GcmType
<1>2. Counted(c + 1)' = Counted(c) \union New
  BY <1>1 DEF Counted, Live
<1>3. Counted(c) \intersect New = {}
  BY <1>1 DEF Counted, Live
<1>4. IsFiniteSet(Counted(c))
  BY LiveFinite, FS_Subset DEF Counted
<1>5. /\ IsFiniteSet(New)
      /\ Cardinality(New) = IF v = Null THEN 0 ELSE nrValLps[v]
  <2>1. CASE v = Null
    <3>1. New = {}
      BY <2>1, FtlAssumption DEF Slot
    <3> QED BY <2>1, <3>1, FS_EmptySet
  <2>2. CASE v # Null
    <3>1. v \in Block /\ ChipOf[v] = c
      BY <2>2 DEF BlockOrNull
    <3>2. New = With(status, v, "VALID")
      BY <3>1 DEF With
    <3>3. IsFiniteSet(With(status, v, "VALID"))
      BY <3>1, WithFinite
    <3>4. nrValLps[v] = Cardinality(With(status, v, "VALID"))
      BY <3>1 DEF SlotTotals
    <3> QED BY <2>2, <3>2, <3>3, <3>4
  <2> QED BY <2>1, <2>2
<1> HIDE DEF New
<1> QED BY <1>2, <1>3, <1>4, <1>5, Union2

(* One more page read.                                                     *)
PageRead(c, r) ==
  IF vic[c] = Null THEN {} ELSE {<<vic[c], r, o>> : o \in ValidOfs(vic[c], r)}

LEMMA ReadOn ==
  ASSUME IInv, NEW c \in Chip, NEW r \in Page, Picked(c)
  PROVE  /\ Done(r, c + 1) = Done(r, c) \union PageRead(c, r)
         /\ Done(r, c) \intersect PageRead(c, r) = {}
         /\ IsFiniteSet(Done(r, c))
<1>1. /\ \A x \in Chip : x < c + 1 <=> x < c \/ x = c
      /\ \A x \in Chip : ~(x < c) \/ x # c
      /\ \A s \in Slot : ChipOf[s[1]] \in Chip
      /\ ~(r < r)
      /\ vic[c] \in Block \union {Null} /\ Null \notin Block
  BY FtlAssumption DEF Chip, Page, Slot, Picked, IInv, TypeOK, ListType
<1>2. IsFiniteSet(Done(r, c))
  BY LiveFinite, FS_Subset DEF Done
<1>3. PageRead(c, r) = {s \in Live : s[2] = r /\ ChipOf[s[1]] = c}
  <2>1. CASE vic[c] = Null
    BY <1>1, <2>1 DEF PageRead, Live, Slot
  <2>2. CASE vic[c] # Null
    <3>1. vic[c] \in Block /\ ChipOf[vic[c]] = c
      BY <1>1, <2>2 DEF Picked
    <3>2. PageRead(c, r) = {<<vic[c], r, o>> : o \in ValidOfs(vic[c], r)}
      BY <2>2 DEF PageRead
    <3>3. ASSUME NEW s \in Live, s[2] = r, ChipOf[s[1]] = c PROVE s \in PageRead(c, r)
      <4>1. PICK b \in Block, p \in Page, o \in Ofs : s = <<b, p, o>>
        BY DEF Live, Slot
      <4>2. b = vic[c] /\ p = r /\ o \in ValidOfs(b, r)
        BY <3>3, <4>1 DEF Live, ValidOfs
      <4> QED BY <3>2, <4>1, <4>2
    <3>4. ASSUME NEW o \in ValidOfs(vic[c], r)
          PROVE  <<vic[c], r, o>> \in {s \in Live : s[2] = r /\ ChipOf[s[1]] = c}
      BY <3>1 DEF Live, Slot, ValidOfs
    <3> QED BY <3>2, <3>3, <3>4
  <2> QED BY <2>1, <2>2
<1>4. Done(r, c + 1) = Done(r, c) \union {s \in Live : s[2] = r /\ ChipOf[s[1]] = c}
  BY <1>1 DEF Done, Live
<1>5. Done(r, c) \intersect {s \in Live : s[2] = r /\ ChipOf[s[1]] = c} = {}
  BY <1>1 DEF Done, Live
<1> QED BY <1>2, <1>3, <1>4, <1>5

(* The last chip of a page, and the last page.                             *)
LEMMA ReadAll ==
  IInv => /\ \A r \in Page : Done(r, NumChips) = Done(r + 1, 0)
          /\ Done(NumPages, 0) = Live /\ Done(0, 0) = {}
          /\ Counted(NumChips) = Live /\ Counted(0) = {}
<1>1. \A s \in Slot : ChipOf[s[1]] \in Chip /\ s[2] \in Page
  BY FtlAssumption DEF Slot
<1>2. \A c \in Chip : c < NumChips /\ ~(c < 0)
  BY FtlAssumption DEF Chip
<1>3. \A p \in Page : p < NumPages /\ ~(p < 0)
  BY FtlAssumption DEF Page
<1>4. \A r \in Page, p \in Page : p < r + 1 <=> p < r \/ p = r
  BY FtlAssumption DEF Page
<1> QED BY <1>1, <1>2, <1>3, <1>4 DEF Done, Counted, Live

----------------------------------------------------------------------------
(* Programming the copies.                                                 *)

LEMMA ProgOnly == pc \in {"prog", "map", "update_act_blk"} /\ ProgFg => EvacInv
BY DEF EvacInv, Begun, ChosenFg, ReadFg, GiveFg

LEMMA ProgOnlyNext == (pc \in {"prog", "map", "update_act_blk"} /\ ProgFg)' => EvacInv'
BY ProgOnly, PTL

(* A block that is retired is the GC block of its chip, or dirt.           *)
LEMMA InvalidateSecured ==
  ASSUME IInv, NEW l \in Lpa, l2p[l] # Unmapped, invalidate_lpg(l), vic' = vic, NEW c \in Chip
  PROVE  /\ Secured(c) => Secured(c)'
         /\ Aside(c) => Aside(c)'
<1>1. PICK b \in Block : b = l2p[l][1]
  BY DEF IInv, TypeOK, ListType, Slot
<1>2. CASE UNCHANGED <<lists, gc>>
  BY <1>2 DEF Secured, Room, Aside, On, lists
<1>3. CASE RetireBlock(b)
  <2>1. /\ usedB' = usedB \ {b} /\ dirtB \subseteq dirtB'
        /\ gc[c] # Null => gc'[c] = gc[c]
        /\ ChipOf[b] = c => gc'[c] = b \/ b \in dirtB'
        /\ b # Null
    BY <1>3, FtlAssumption DEF RetireBlock, IInv, TypeOK, ListType
  <2>2. Room(c) => Room(c)'
    BY <2>1 DEF Room, On
  <2>3. ChipOf[b] = c => Room(c)'
    BY <2>1 DEF Room, On
  <2>4. Secured(c) => Secured(c)'
    BY <2>1, <2>2, <2>3 DEF Secured
  <2>5. Aside(c) => Aside(c)'
    BY <2>1 DEF Aside
  <2> QED BY <2>4, <2>5
<1> QED BY <1>1, <1>2, <1>3 DEF invalidate_lpg

LEMMA MapInvalidateEvac == IInv /\ EvacInv /\ MapInvalidate => EvacInv'
<1> SUFFICES ASSUME IInv, EvacInv, MapInvalidate PROVE EvacInv'
  OBVIOUS
<1>1. /\ pc = "map" /\ pc' = pc /\ invalidate_lpg(NewLpa) /\ owner' = owner
      /\ UNCHANGED <<op, job, ofs, pos, lpas, nrToCopy, vic>>
  BY DEF MapInvalidate, invalidate_lpg, gcm, loops, target, call
<1>2. NewLpa \in Lpa /\ l2p[NewLpa] # Unmapped
  BY NewLpaType DEF IInv, Core, MapInvalidate, Mapped
<1>3. CASE op = "write" /\ job = "copy"
  <2>1. (\A c \in Chip : Aside(c) /\ Secured(c)) /\ \A s \in Live : Held(Upto, nrToCopy, s)
    BY <1>1, <1>3 DEF EvacInv, ProgFg, InCopy, InMap
  <2>2. \A c \in Chip : (Aside(c) /\ Secured(c))'
    BY <1>1, <1>2, <2>1, InvalidateSecured
  <2>3. Live' \subseteq Live
    BY <1>1, <1>2 DEF Live, invalidate_lpg, IInv, TypeOK, FlashType
  <2>4. Upto' = Upto
    BY <1>1 DEF Upto
  <2>5. \A s : Held(Upto, nrToCopy, s)' = Held(Upto, nrToCopy, s)
    BY <1>1, <2>4 DEF Held
  <2>6. ProgFg'
    BY <2>1, <2>2, <2>3, <2>5 DEF ProgFg
  <2> QED BY <1>1, <2>6, ProgOnlyNext
<1>4. CASE ~(op = "write" /\ job = "copy")
  <2>1. Elsewhere'
    BY <1>1, <1>4 DEF Elsewhere, FgLoops, InCopy
  <2> QED BY <2>1, ElsewhereEvacNext
<1> QED BY <1>3, <1>4

LEMMA MapLpEvac == IInv /\ EvacInv /\ MapLp => EvacInv'
<1> SUFFICES ASSUME IInv, EvacInv, MapLp PROVE EvacInv'
  OBVIOUS
<1> DEFINE n == <<blk, pg, ofs>>
<1>1. /\ pc = "map" /\ blk \in Block /\ ofs \in Ofs /\ n \in Slot
      /\ \A s \in Slot : s # n => status'[s] = status[s]
      /\ NewLpa # Unmapped => l2p[NewLpa] = Unmapped
      /\ \/ ofs + 1 < NumLps /\ ofs' = ofs + 1 /\ pc' = "map"
         \/ ofs + 1 = NumLps /\ ofs' = ofs /\ pc' = "update_act_blk"
      /\ UNCHANGED <<op, job, pos, nrToCopy, lpas>>
  BY Mapping1
<1>2. ~Bad /\ owner' = [owner EXCEPT ![n] = NewLpa] /\ UNCHANGED <<lists, gc, vic>>
  BY DEF MapLp, gcm
<1>3. CASE op = "write" /\ job = "copy"
  <2>1. (\A c \in Chip : Aside(c) /\ Secured(c)) /\ \A s \in Live : Held(Upto, nrToCopy, s)
    BY <1>1, <1>3 DEF EvacInv, ProgFg, InCopy, InMap
  <2>2. \A c \in Chip : (Aside(c) /\ Secured(c))'
    BY <1>2, <2>1 DEF Aside, Secured, Room, On, lists
  <2>3. vic[ChipOf[blk]] # blk
    <3>1. ChipOf[blk] \in Chip /\ act[ChipOf[blk]] = blk /\ blk # Null
      BY <1>1, FtlAssumption DEF IInv, Core, Target
    <3>2. blk \notin usedB \union dirtB /\ blk # gc[ChipOf[blk]]
      BY <3>1 DEF IInv, Core, ActiveBlocks, Listed
    <3> QED BY <2>1, <3>1, <3>2 DEF Aside
  <2>4. ASSUME NEW s \in Live' PROVE s \in Live /\ s # n /\ owner'[s] = owner[s]
    <3>1. s \in Slot /\ s # n /\ status'[s] = "VALID" /\ vic[ChipOf[s[1]]] = s[1]
      BY <1>2, <2>3, <2>4 DEF Live
    <3>2. status[s] = "VALID"
      BY <1>1, <3>1
    <3> HIDE DEF n
    <3> QED BY <1>1, <1>2, <3>1, <3>2 DEF Live, IInv, TypeOK, FlashType
  <2>5. ASSUME NEW s \in Live' PROVE Held(Upto, nrToCopy, s)'
    <3>1. /\ s \in Live /\ owner'[s] = owner[s] /\ status[s] = "VALID" /\ s \in Slot
      BY <2>4, <2>5 DEF Live
    <3>2. PICK k \in pos + ofs .. nrToCopy - 1 : k \in CopyIdx => lpas[k] = owner[s]
      BY <1>1, <2>1, <3>1 DEF Held, Upto
    <3>3. l2p[owner[s]] # Unmapped /\ owner[s] # Unmapped
      BY <3>1, FtlAssumption DEF IInv, Core, MapInv
    <3>4. k # pos + ofs
      BY <1>1, <1>2, <1>3, <3>2, <3>3 DEF Bad, NewLpa
    <3>5. ofs \in Int /\ pos \in Int /\ nrToCopy \in Int
      BY <1>1, FtlAssumption DEF Ofs, IInv, TypeOK, CallType, GcmType
    <3>6. k \in pos + ofs + 1 .. nrToCopy - 1
      BY <3>2, <3>4, <3>5
    <3>7. Upto' = pos + ofs + 1
      BY <1>1, <3>5, FtlAssumption DEF Upto
    <3> QED BY <1>1, <3>1, <3>2, <3>6, <3>7 DEF Held
  <2>6. ProgFg'
    BY <2>2, <2>5 DEF ProgFg
  <2> QED BY <1>1, <2>6, ProgOnlyNext
<1>4. CASE ~(op = "write" /\ job = "copy")
  <2>1. Elsewhere'
    BY <1>1, <1>4 DEF Elsewhere, FgLoops, InCopy
  <2> QED BY <2>1, ElsewhereEvacNext
<1> QED BY <1>3, <1>4

LEMMA UpdateActEvac == IInv /\ EvacInv /\ UpdateActBlk => EvacInv'
<1> SUFFICES ASSUME IInv, EvacInv, UpdateActBlk PROVE EvacInv'
  OBVIOUS
<1>1. CASE Return
  <2>1. Elsewhere'
    BY <1>1 DEF Return, Elsewhere, FgLoops, InCopy, InMap
  <2> QED BY <2>1, ElsewhereEvacNext
<1>2. CASE job = "copy" /\ pc' = "prog" /\ pos' = pos + NumLps /\ UNCHANGED call
  <2>1. /\ pc = "update_act_blk" /\ UNCHANGED <<status, owner, dirtB, gc, vic, lpas, nrToCopy, op>>
        /\ usedB \subseteq usedB'
    BY <1>2 DEF UpdateActBlk, flash, gcm, call
  <2>2. CASE op = "write"
    <3>1. (\A c \in Chip : Aside(c) /\ Secured(c)) /\ \A s \in Live : Held(pos + NumLps, nrToCopy, s)
      BY <1>2, <2>1, <2>2 DEF EvacInv, ProgFg, InCopy, InMap, Upto
    <3>2. \A c \in Chip : (Aside(c) /\ Secured(c))'
      BY <2>1, <3>1 DEF Aside, Secured, Room, On
    <3>3. Live' = Live /\ Upto' = pos + NumLps
      BY <1>2, <2>1 DEF Live, Upto
    <3>4. \A s : Held(Upto, nrToCopy, s)' = Held(pos + NumLps, nrToCopy, s)
      BY <2>1, <3>3 DEF Held
    <3>5. ProgFg'
      BY <3>1, <3>2, <3>3, <3>4 DEF ProgFg
    <3> QED BY <1>2, <3>5, ProgOnlyNext
  <2>3. CASE op # "write"
    <3>1. Elsewhere'
      BY <1>2, <2>1, <2>3 DEF Elsewhere, FgLoops
    <3> QED BY <3>1, ElsewhereEvacNext
  <2> QED BY <2>2, <2>3
<1> QED BY <1>1, <1>2 DEF UpdateActBlk

(* Once all is programmed, a victim has no valid slot, and so it is no     *)
(* longer used.                                                            *)
LEMMA ProgEvac ==
  IInv /\ FullInv /\ PageTotals /\ UsedLive /\ EvacInv /\ prog_valid_pgs_to_gc_blks => EvacInv'
<1> SUFFICES ASSUME IInv, FullInv, PageTotals, UsedLive, EvacInv, prog_valid_pgs_to_gc_blks
             PROVE  EvacInv'
  OBVIOUS
<1>1. pc = "prog" /\ UNCHANGED <<status, owner, usedB, dirtB, gc, vic, nrToCopy>>
  BY DEF prog_valid_pgs_to_gc_blks, flash
<1>2. CASE Fail \/ (op # "write" /\ UNCHANGED op /\ pc' \in {"map", "update_gc_blks"})
  <2>1. Elsewhere'
    BY <1>2 DEF Fail, Elsewhere, FgLoops, InCopy, InMap
  <2> QED BY <2>1, ElsewhereEvacNext
<1>3. ASSUME op = "write"
      PROVE (\A c \in Chip : Aside(c) /\ Secured(c)) /\ \A s \in Live : Held(pos, nrToCopy, s)
  BY <1>1, <1>3 DEF EvacInv, ProgFg, Upto
<1>4. CASE op = "write" /\ nrToCopy <= pos /\ pc' = "update_gc_blks" /\ i' = 0
  <2>1. Live = {}
    <3>1. nrToCopy \in Int /\ pos \in Int
      BY DEF IInv, TypeOK, CallType, GcmType
    <3>2. pos .. nrToCopy - 1 = {}
      BY <1>4, <3>1
    <3> QED BY <1>3, <1>4, <3>2 DEF Held
  <2>2. ASSUME NEW c \in Chip PROVE Room(c)
    <3>1. CASE vic[c] \in usedB /\ ChipOf[vic[c]] = c
      <4>1. PICK s \in Slot : s[1] = vic[c] /\ status[s] = "VALID"
        BY <3>1, UsedValid
      <4>2. s \in Live
        BY <3>1, <4>1 DEF Live
      <4> QED BY <2>1, <4>2
    <3> QED BY <1>3, <1>4, <2>2, <3>1 DEF Secured
  <2>3. \A c \in Chip : ~(c < 0)
    BY FtlAssumption DEF Chip
  <2>4. GiveFg'
    BY <1>1, <1>4, <2>2, <2>3 DEF GiveFg, Room, On
  <2> QED BY <1>4, <2>4 DEF EvacInv, Begun, ChosenFg, ReadFg, ProgFg, InCopy, InMap
<1>5. CASE /\ op = "write" /\ pc' = "map" /\ ofs' = 0 /\ UNCHANGED <<op, pos>>
           /\ lpas' = [k \in CopyIdx |-> IF k >= nrToCopy /\ k < pos + NumLps
                                         THEN Unmapped ELSE lpas[k]]
  <2>1. \A c \in Chip : (Aside(c) /\ Secured(c))'
    BY <1>1, <1>3, <1>5 DEF Aside, Secured, Room, On
  <2>2. Live' = Live /\ Upto' = pos
    <3>1. pos + 0 = pos
      BY DEF IInv, TypeOK, CallType
    <3> QED BY <1>1, <1>5, <3>1 DEF Live, Upto
  <2>3. ASSUME NEW s \in Live PROVE Held(Upto, nrToCopy, s)'
    <3>1. PICK k \in pos .. nrToCopy - 1 : k \in CopyIdx => lpas[k] = owner[s]
      BY <1>3, <1>5, <2>3 DEF Held
    <3>2. ~(k >= nrToCopy)
      BY <3>1 DEF IInv, TypeOK, CallType, GcmType
    <3>3. k \in CopyIdx => lpas'[k] = lpas[k]
      BY <1>5, <3>2
    <3> QED BY <1>1, <1>5, <2>2, <3>1, <3>3 DEF Held
  <2>4. ProgFg'
    BY <2>1, <2>2, <2>3 DEF ProgFg
  <2> QED BY <1>5, <2>4, ProgOnlyNext
<1>6. \/ Fail
      \/ UNCHANGED op /\ nrToCopy <= pos /\ pc' = "update_gc_blks" /\ i' = 0
      \/ /\ pc' = "map" /\ ofs' = 0 /\ UNCHANGED <<op, pos>>
         /\ lpas' = [k \in CopyIdx |-> IF k >= nrToCopy /\ k < pos + NumLps
                                       THEN Unmapped ELSE lpas[k]]
  BY DEF prog_valid_pgs_to_gc_blks, alloc_new_page, Rest, call, loops
<1> QED BY <1>2, <1>4, <1>5, <1>6

----------------------------------------------------------------------------
(* Choosing and reading.                                                   *)

LEMMA UpdateGcEvac == IInv /\ EvacInv /\ update_gc_blks => EvacInv'
<1> SUFFICES ASSUME IInv, EvacInv, update_gc_blks PROVE EvacInv'
  OBVIOUS
<1>1. pc = "update_gc_blks" /\ i \in Chip
  BY DEF update_gc_blks, IInv, TypeOK, CallType
<1>2. CASE pc' \in {"idle", "alloc"} \/ (op # "write" /\ op' = op /\ pc' = pc)
  <2>1. Elsewhere'
    BY <1>1, <1>2, Zenon DEF Elsewhere, FgLoops, InCopy, InMap, update_gc_blks, Return, ResetLocals, Fail
  <2> QED BY <2>1, ElsewhereEvacNext
<1>3. CASE op = "write" /\ pc' = "update_gc_blks"
  <2>1. i' = i + 1 /\ \A c \in Chip : (c < i => gc[c] # Null) /\ (c >= i => Room(c))
    BY <1>1, <1>3 DEF update_gc_blks, ForEachChip, Return, Fail, EvacInv, GiveFg
  <2>2. \A c \in Chip : (c < i + 1 <=> c < i \/ c = i) /\ (c >= i + 1 => c >= i /\ c # i) /\ i >= i
    BY <1>1, FtlAssumption DEF Chip
  <2>3. /\ \A c \in Chip : c # i => gc'[c] = gc[c] /\ On(dirtB', c) = On(dirtB, c)
        /\ \/ gc' = gc /\ gc[i] # Null
           \/ gc' = gc /\ gc[i] = Null /\ On(dirtB, i) = {}
           \/ gc'[i] # Null
    BY <1>1, <1>3, FtlAssumption DEF update_gc_blks, On, Fail, IInv, TypeOK, ListType
  <2>4. gc'[i] # Null
    BY <1>1, <2>1, <2>2, <2>3 DEF Room
  <2>5. GiveFg'
    BY <2>1, <2>2, <2>3, <2>4 DEF GiveFg, Room
  <2> QED BY <1>3, <2>5 DEF EvacInv, Begun, ChosenFg, ReadFg, ProgFg, InCopy, InMap
<1>4. pc' \in {"idle", "alloc"} \/ (pc' = pc /\ op' = op)
  BY <1>1 DEF update_gc_blks, ForEachChip, Return, Fail, Rest, call
<1> QED BY <1>1, <1>2, <1>3, <1>4

LEMMA TriggerEvac == trigger_gc_page_mapping => EvacInv'
BY DEF trigger_gc_page_mapping, init_gcm, EvacInv, Begun, ChosenFg, ReadFg, ProgFg, GiveFg, InCopy,
       InMap

LEMMA PrepareEvac == IInv /\ IInv' /\ EvacInv /\ prepare_act_blks => EvacInv'
<1> SUFFICES ASSUME IInv, IInv', EvacInv, prepare_act_blks PROVE EvacInv'
  OBVIOUS
<1>1. CASE Fail
  <2>1. Elsewhere'
    BY <1>1 DEF Fail, Elsewhere, FgLoops, InCopy, InMap
  <2> QED BY <2>1, ElsewhereEvacNext
<1>2. CASE ForEachChip("set_vic_blks") /\ UNCHANGED <<lpos, dpos, pos>>
  <2>1. /\ pc = "prepare_act_blks" /\ nrToCopy' = nrToCopy
        /\ nrToCopy = 0 /\ lpos = 0 /\ dpos = 0 /\ pos = 0
    BY DEF prepare_act_blks, gcm, EvacInv, Begun
  <2>2. CASE pc' = pc
    BY <1>2, <2>1, <2>2 DEF EvacInv, Begun, ChosenFg, ReadFg, ProgFg, GiveFg, InCopy, InMap
  <2>3. CASE i' = 0 /\ pc' = "set_vic_blks"
    <3>1. \A c \in Chip : ~(c < 0)
      BY FtlAssumption DEF Chip
    <3>2. Counted(i)' = {}
      <4>1. \A s \in Slot : ChipOf[s[1]] \in Chip
        BY FtlAssumption DEF Slot
      <4> QED BY <2>3, <3>1, <4>1 DEF Counted, Live
    <3>3. Cardinality(Counted(i)') = 0
      BY <3>2, FS_EmptySet
    <3>4. ChosenFg'
      BY <1>2, <2>1, <2>3, <3>1, <3>3 DEF ChosenFg
    <3> QED BY <2>3, <3>4 DEF EvacInv, Begun, ReadFg, ProgFg, GiveFg, InCopy, InMap
  <2> QED BY <1>2, <2>2, <2>3 DEF ForEachChip
<1> QED BY <1>1, <1>2 DEF prepare_act_blks

(* The victim of one chip, if it needs one: a dirt block without valid     *)
(* slots, or a used one with some.                                         *)
LEMMA VictimOf ==
  ASSUME IInv, FullInv, SlotTotals, PageTotals, UsedLive, set_vic_blks, ~Fail
  PROVE  \E v \in BlockOrNull :
           /\ vic' = [vic EXCEPT ![i] = v]
           /\ nrToCopy' = nrToCopy + (IF v = Null THEN 0 ELSE nrValLps[v])
           /\ v = Null \/ (v \in usedB \union dirtB /\ ChipOf[v] = i)
           /\ Room(i) \/ v \in usedB
<1>1. /\ \A b \in select_vic_blk_greedy(i) : ChipOf[b] = i /\ b \in usedB \union dirtB /\ b \in Block
      /\ Null \notin Block /\ Null \in BlockOrNull /\ nrToCopy \in Int
  BY FtlAssumption DEF select_vic_blk_greedy, select_vic_blk_from_used, On, IInv, TypeOK, ListType,
     GcmType, BlockOrNull
<1>2. CASE HasBlks(i) /\ vic' = [vic EXCEPT ![i] = Null] /\ UNCHANGED nrToCopy
  <2>1. Room(i) /\ nrToCopy' = nrToCopy + 0
    BY <1>1, <1>2 DEF HasBlks, Room
  <2> QED BY <1>1, <1>2, <2>1
<1>3. ASSUME NEW b \in select_vic_blk_greedy(i), nrValLps[b] = 0,
             vic' = [vic EXCEPT ![i] = Null], UNCHANGED nrToCopy
      PROVE  \E v \in BlockOrNull :
               /\ vic' = [vic EXCEPT ![i] = v]
               /\ nrToCopy' = nrToCopy + (IF v = Null THEN 0 ELSE nrValLps[v])
               /\ v = Null \/ (v \in usedB \union dirtB /\ ChipOf[v] = i)
               /\ Room(i) \/ v \in usedB
  <2>1. b \notin usedB
    <3>1. SUFFICES ASSUME b \in usedB PROVE FALSE
      OBVIOUS
    <3>2. PICK s \in Slot : s[1] = b /\ status[s] = "VALID"
      BY <3>1, UsedValid
    <3>3. s \in With(status, b, "VALID")
      BY <3>2 DEF With
    <3>5. IsFiniteSet(With(status, b, "VALID"))
      BY <1>1, WithFinite
    <3>4. Cardinality(With(status, b, "VALID")) = 0
      BY <1>1, <1>3 DEF SlotTotals
    <3> QED BY <3>3, <3>4, <3>5, FS_EmptySet
  <2>2. Room(i)
    BY <1>1, <2>1 DEF Room, On
  <2>3. nrToCopy' = nrToCopy + 0
    BY <1>1, <1>3
  <2> QED BY <1>1, <1>3, <2>2, <2>3
<1>4. ASSUME NEW b \in select_vic_blk_greedy(i), vic' = [vic EXCEPT ![i] = b],
             nrToCopy' = nrToCopy + nrValLps[b]
      PROVE  \E v \in BlockOrNull :
               /\ vic' = [vic EXCEPT ![i] = v]
               /\ nrToCopy' = nrToCopy + (IF v = Null THEN 0 ELSE nrValLps[v])
               /\ v = Null \/ (v \in usedB \union dirtB /\ ChipOf[v] = i)
               /\ Room(i) \/ v \in usedB
  <2>1. b \in BlockOrNull /\ b # Null /\ (Room(i) \/ b \in usedB)
    BY <1>1 DEF Room, On, BlockOrNull
  <2> QED BY <1>1, <1>4, <2>1
<1> QED BY <1>2, <1>3, <1>4 DEF set_vic_blks

LEMMA SetVicEvac ==
  IInv /\ IInv' /\ FullInv /\ CountInv /\ UsedLive /\ EvacInv /\ set_vic_blks => EvacInv'
<1> SUFFICES ASSUME IInv, IInv', FullInv, CountInv, UsedLive, EvacInv, set_vic_blks PROVE EvacInv'
  OBVIOUS
<1>1. CASE Fail
  <2>1. Elsewhere'
    BY <1>1 DEF Fail, Elsewhere, FgLoops, InCopy, InMap
  <2> QED BY <2>1, ElsewhereEvacNext
<1>2. CASE ~Fail
  <2>0. PICK j \in Chip : j = i
    BY DEF IInv, TypeOK, CallType
  <2>1. /\ ForEachChip("read_first") /\ UNCHANGED <<lpos, dpos, pos, status, usedB, dirtB, gc>>
        /\ pc = "set_vic_blks"
    BY <1>2 DEF set_vic_blks, flash, lists
  <2>2. PICK v \in BlockOrNull :
           /\ vic' = [vic EXCEPT ![j] = v]
           /\ nrToCopy' = nrToCopy + (IF v = Null THEN 0 ELSE nrValLps[v])
           /\ v = Null \/ (v \in usedB \union dirtB /\ ChipOf[v] = j)
           /\ Room(j) \/ v \in usedB
    BY <1>2, <2>0, VictimOf DEF CountInv
  <2>3. /\ \A c \in Chip : c < j => Picked(c) /\ Secured(c)
        /\ nrToCopy = Cardinality(Counted(j)) /\ lpos = 0 /\ dpos = 0 /\ pos = 0
    BY <2>0, <2>1 DEF EvacInv, ChosenFg
  <2>4. nrToCopy' = Cardinality(Counted(j + 1)')
    BY <2>1, <2>2, <2>3, CountOn DEF CountInv
  <2>5. \A c \in Chip : vic'[c] = IF c = j THEN v ELSE vic[c]
    BY <2>2 DEF IInv, TypeOK, GcmType
  <2>6. \A c \in Chip : (c < j + 1 <=> c < j \/ c = j) /\ ~(j < j)
    BY FtlAssumption DEF Chip
  <2>7. ASSUME NEW c \in Chip, c < j + 1 PROVE Picked(c)' /\ Secured(c)'
    <3>1. CASE c = j
      <4>1. v \in usedB => v # Null
        BY FtlAssumption DEF IInv, TypeOK, ListType
      <4> QED BY <2>1, <2>2, <2>5, <3>1, <4>1 DEF Picked, Secured, Room, On
    <3>2. CASE c < j
      <4>1. vic'[c] = vic[c] /\ Picked(c) /\ Secured(c)
        BY <2>3, <2>5, <2>6, <3>2
      <4> QED BY <2>1, <4>1 DEF Picked, Secured, Room, On
    <3> QED BY <2>6, <2>7, <3>1, <3>2
  <2>8. CASE j + 1 < NumChips /\ i' = j + 1 /\ pc' = pc
    <3>1. Counted(i)' = Counted(j + 1)'
      BY <2>8 DEF Counted
    <3>2. ChosenFg'
      BY <2>1, <2>3, <2>4, <2>7, <2>8, <3>1 DEF ChosenFg
    <3> QED BY <2>1, <2>8, <3>2 DEF EvacInv, Begun, ReadFg, ProgFg, GiveFg, InCopy, InMap
  <2>9. CASE j + 1 = NumChips /\ i' = 0 /\ pc' = "read_first"
    <3>1. \A c \in Chip : c < j + 1
      BY <2>9, FtlAssumption DEF Chip
    <3>2. Counted(j + 1)' = Live'
      <4>1. \A s \in Slot : ChipOf[s[1]] \in Chip
        BY FtlAssumption DEF Slot
      <4> QED BY <3>1, <4>1 DEF Counted, Live
    <3>3. ReadFg'
      BY <2>1, <2>3, <2>4, <2>7, <2>9, <3>1, <3>2 DEF ReadFg
    <3> QED BY <2>9, <3>3 DEF EvacInv, Begun, ChosenFg, ProgFg, GiveFg, InCopy, InMap
  <2> QED BY <2>0, <2>1, <2>8, <2>9 DEF ForEachChip
<1> QED BY <1>1, <1>2

LEMMA ReadFirstEvac == IInv /\ EvacInv /\ ReadFirst => EvacInv'
<1> SUFFICES ASSUME IInv, EvacInv, ReadFirst PROVE EvacInv'
  OBVIOUS
<1>1. /\ pc = "read_first" /\ i' = 0 /\ rp' = 0
      /\ pc' = IF nrToCopy > dpos THEN "read" ELSE "prog"
      /\ UNCHANGED <<status, owner, usedB, dirtB, gc, vic, nrToCopy, lpas, lpos, dpos, pos>>
      /\ nrToCopy \in Int /\ dpos \in Int
  BY DEF ReadFirst, flash, lists, gcm, IInv, TypeOK, CallType, GcmType
<1>2. /\ \A c \in Chip : Picked(c) /\ Secured(c)
      /\ nrToCopy = Cardinality(Live) /\ lpos = dpos /\ pos = 0
      /\ lpos = 0 \/ (lpos = nrToCopy /\ \A s \in Live : Held(0, lpos, s))
  BY <1>1 DEF EvacInv, ReadFg
<1>3. Live' = Live /\ \A c \in Chip : Picked(c)' /\ Secured(c)'
  BY <1>1, <1>2 DEF Live, Picked, Secured, Room, On
<1>4. CASE nrToCopy > dpos
  <2>1. lpos = 0
    BY <1>1, <1>2, <1>4
  <2>2. Done(rp, i)' = {}
    <3>1. Done(0, 0)' = {}
      <4>1. \A s \in Slot : ChipOf[s[1]] \in Chip /\ s[2] \in Page
        BY FtlAssumption DEF Slot
      <4>2. (\A c \in Chip : ~(c < 0)) /\ \A p \in Page : ~(p < 0)
        BY FtlAssumption DEF Chip, Page
      <4> QED BY <4>1, <4>2 DEF Done, Live
    <3> QED BY <1>1, <3>1 DEF Done
  <2>3. lpos' = Cardinality(Done(rp, i)')
    BY <1>1, <2>1, <2>2, FS_EmptySet
  <2>4. ReadFg'
    BY <1>1, <1>2, <1>3, <1>4, <2>2, <2>3 DEF ReadFg
  <2> QED BY <1>1, <1>4, <2>4 DEF EvacInv, Begun, ChosenFg, ProgFg, GiveFg, InCopy, InMap
<1>5. CASE ~(nrToCopy > dpos)
  <2>1. \A s \in Live : Held(0, nrToCopy, s)
    <3>1. CASE lpos = 0
      <4>1. Cardinality(Live) = 0
        BY <1>1, <1>2, <1>5, <3>1, LiveFinite, FS_CardinalityType
      <4>2. Live = {}
        BY <4>1, LiveFinite, FS_EmptySet
      <4> QED BY <4>2
    <3>2. CASE lpos = nrToCopy /\ \A s \in Live : Held(0, lpos, s)
      BY <3>2
    <3> QED BY <1>2, <3>1, <3>2
  <2>2. Upto' = 0 /\ pc' = "prog"
    BY <1>1, <1>2, <1>5 DEF Upto
  <2>3. \A s \in Live : Held(Upto, nrToCopy, s)'
    BY <1>1, <2>1, <2>2 DEF Held
  <2>4. \A c \in Chip : Aside(c)'
    BY <1>3 DEF Picked, Aside
  <2>5. ProgFg'
    BY <1>3, <2>3, <2>4 DEF ProgFg
  <2> QED BY <2>2, <2>5, ProgOnlyNext
<1> QED BY <1>4, <1>5

(* Every valid slot of a page gets a position of its own, behind those that *)
(* were read before.                                                       *)
LEMMA ReadPageHolds ==
  ASSUME NEW b \in Block, NEW p \in Page, ReadPage(b, p), lpos \in Nat
  PROVE  /\ lpos' = lpos + Cardinality(ValidOfs(b, p))
         /\ \A k \in CopyIdx : k < lpos => lpas'[k] = lpas[k]
         /\ \A o \in ValidOfs(b, p) :
              \E k \in 0 .. lpos' - 1 : k \in CopyIdx => lpas'[k] = owner[<<b, p, o>>]
<1>0. IsFiniteSet(ValidOfs(b, p))
  BY Sizes, FS_Subset DEF ValidOfs
<1>1. PICK n \in Nat : n = Cardinality(ValidOfs(b, p))
  BY <1>0, FS_CardinalityType
<1>2. PICK pick \in [0 .. n - 1 -> ValidOfs(b, p)] :
        /\ \A k, m \in 0 .. n - 1 : k < m => pick[k] < pick[m]
        /\ lpas' = [x \in CopyIdx |->
             IF x - lpos \in 0 .. n - 1 THEN owner[<<b, p, pick[x - lpos]>>] ELSE lpas[x]]
  BY <1>1 DEF ReadPage
<1>3. lpos' = lpos + n
  BY <1>1 DEF ReadPage
<1>4. \A k \in CopyIdx : k < lpos => lpas'[k] = lpas[k]
  <2>1. \A k \in CopyIdx : k < lpos => ~(k - lpos \in 0 .. n - 1)
    BY FtlAssumption DEF CopyIdx
  <2> QED BY <1>2, <2>1
<1>5. \A o \in ValidOfs(b, p) : \E m \in 0 .. n - 1 : pick[m] = o
  <2>1. \A k, m \in 0 .. n - 1 : pick[k] = pick[m] => k = m
    <3>0. \A o \in ValidOfs(b, p) : o \in Int
      BY FtlAssumption DEF ValidOfs, Ofs
    <3>1. \A k \in 0 .. n - 1 : pick[k] \in Int
      BY <1>2, <3>0
    <3>2. \A k, m \in 0 .. n - 1 : k < m \/ m < k \/ k = m
      OBVIOUS
    <3>3. \A k, m \in 0 .. n - 1 : (k < m \/ m < k) => pick[k] # pick[m]
      BY <1>2, <3>1
    <3> QED BY <3>2, <3>3
  <2>2. pick \in Injection(0 .. n - 1, ValidOfs(b, p))
    BY <1>2, <2>1, Fun_IsInj
  <2>3. Cardinality(0 .. n - 1) = n
    BY FS_Interval
  <2>4. pick \in Surjection(0 .. n - 1, ValidOfs(b, p))
    BY <1>0, <1>1, <2>2, <2>3, FS_Injection
  <2> QED BY <2>4 DEF Surjection
<1>6. ASSUME NEW o \in ValidOfs(b, p)
      PROVE  \E k \in 0 .. lpos' - 1 : k \in CopyIdx => lpas'[k] = owner[<<b, p, o>>]
  <2>1. PICK m \in 0 .. n - 1 : pick[m] = o
    BY <1>5
  <2>2. PICK k \in Int : k = lpos + m
    OBVIOUS
  <2>3. k \in 0 .. lpos' - 1 /\ k - lpos = m
    BY <1>3, <2>2
  <2>4. k \in CopyIdx => lpas'[k] = owner[<<b, p, o>>]
    BY <1>2, <2>1, <2>3
  <2> QED BY <2>3, <2>4
<1> QED BY <1>1, <1>3, <1>4, <1>6

LEMMA ReadEvac ==
  IInv /\ FullInv /\ EvacInv /\ get_valid_pgs_in_vic_blks => EvacInv'
<1> SUFFICES ASSUME IInv, FullInv, EvacInv, get_valid_pgs_in_vic_blks PROVE EvacInv'
  OBVIOUS
<1>1. PICK j \in Chip, r \in Page : j = i /\ r = rp
  BY DEF IInv, TypeOK, CallType
<1>2. /\ pc = "read"
      /\ UNCHANGED <<status, owner, usedB, dirtB, gc, vic, nrToCopy, pos>>
      /\ \/ j + 1 < NumChips /\ i' = j + 1 /\ rp' = r /\ pc' = "read"
         \/ j + 1 = NumChips /\ r + 1 < NumPages /\ i' = 0 /\ rp' = r + 1 /\ pc' = "read"
         \/ j + 1 = NumChips /\ r + 1 = NumPages /\ pc' = "read_first"
  BY <1>1 DEF get_valid_pgs_in_vic_blks, flash, lists
<1>3. /\ \A c \in Chip : Picked(c) /\ Secured(c)
      /\ nrToCopy = Cardinality(Live) /\ lpos = dpos /\ pos = 0
      /\ lpos = Cardinality(Done(r, j)) /\ \A s \in Done(r, j) : Held(0, lpos, s)
  BY <1>1, <1>2 DEF EvacInv, ReadFg
<1>4. /\ Done(r, j + 1) = Done(r, j) \union PageRead(j, r)
      /\ Done(r, j) \intersect PageRead(j, r) = {}
      /\ IsFiniteSet(Done(r, j))
  BY <1>3, ReadOn
<1>5. lpos \in Nat
  BY <1>3, <1>4, FS_CardinalityType
<1>6. Live' = Live /\ \A c \in Chip : Picked(c)' /\ Secured(c)'
  BY <1>2, <1>3 DEF Live, Picked, Secured, Room, On
<1>7. /\ lpos' = dpos' /\ lpos' = Cardinality(Done(r, j + 1))
      /\ \A s \in Done(r, j + 1) :
           \E k \in 0 .. lpos' - 1 : k \in CopyIdx => lpas'[k] = owner[s]
  <2>1. CASE Readable(j, r) /\ ReadPage(vic[j], r)
    <3>1. PICK b \in Block : b = vic[j] /\ b \in usedB \union dirtB /\ vic[j] # Null
      BY <1>3, <2>1 DEF Picked, Readable, IInv, TypeOK, ListType
    <3>2. \A o \in Ofs : status[<<b, r, o>>] # "FREE"
      BY <3>1 DEF FullInv, FullLists, FullBlk
    <3>3. PageRead(j, r) = {<<b, r, o>> : o \in ValidOfs(b, r)}
      BY <3>1 DEF PageRead
    <3>4. PICK n \in Nat : n = Cardinality(ValidOfs(b, r)) /\ n = NumLps - pgInv[<<b, r>>]
      BY <3>2, PageSplit
    <3>5. /\ lpos' = lpos + n
          /\ \A k \in CopyIdx : k < lpos => lpas'[k] = lpas[k]
          /\ \A o \in ValidOfs(b, r) :
               \E k \in 0 .. lpos' - 1 : k \in CopyIdx => lpas'[k] = owner[<<b, r, o>>]
      BY <1>5, <2>1, <3>1, <3>4, ReadPageHolds
    <3>6. dpos' = dpos + NumLps - pgInv[<<b, r>>]
      BY <2>1, <3>1 DEF ReadPage
    <3>7. lpos' = dpos'
      <4>1. NumLps \in Int /\ pgInv[<<b, r>>] \in Int
        BY FtlAssumption DEF IInv, TypeOK, FlashType
      <4> QED BY <1>3, <1>5, <3>4, <3>5, <3>6, <4>1
    <3>8. lpos' = Cardinality(Done(r, j + 1))
      <4>1. IsFiniteSet(PageRead(j, r)) /\ Cardinality(PageRead(j, r)) = n
        BY <3>3, <3>4, PageSlots
      <4>2. Cardinality(Done(r, j) \union PageRead(j, r))
              = Cardinality(Done(r, j)) + Cardinality(PageRead(j, r))
        BY <1>4, <4>1, Union2
      <4> QED BY <1>3, <1>4, <3>5, <4>1, <4>2
    <3>9. ASSUME NEW s \in Done(r, j)
          PROVE  \E k \in 0 .. lpos' - 1 : k \in CopyIdx => lpas'[k] = owner[s]
      <4>1. PICK k \in 0 .. lpos - 1 : k \in CopyIdx => lpas[k] = owner[s]
        BY <1>3 DEF Held
      <4>2. k \in 0 .. lpos' - 1 /\ k < lpos
        BY <1>5, <3>5
      <4> QED BY <3>5, <4>1, <4>2
    <3> QED BY <1>4, <3>3, <3>5, <3>7, <3>8, <3>9
  <2>2. CASE ~Readable(j, r) /\ UNCHANGED <<lpas, lpos, dpos>>
    <3>1. PageRead(j, r) = {}
      <4>1. CASE vic[j] = Null
        BY <4>1 DEF PageRead
      <4>2. CASE vic[j] # Null
        <5>1. PICK b \in Block : b = vic[j] /\ FullyInvalid(b, r)
          BY <1>3, <2>2, <4>2 DEF Picked, Readable, IInv, TypeOK, ListType
        <5>2. ValidOfs(b, r) = {}
          BY <5>1, NotInvalid DEF ValidOfs, LiveSlots
        <5> QED BY <4>2, <5>1, <5>2 DEF PageRead
      <4> QED BY <4>1, <4>2
    <3> QED BY <1>3, <1>4, <2>2, <3>1 DEF Held
  <2> QED BY <1>1, <2>1, <2>2 DEF get_valid_pgs_in_vic_blks
<1>8. CASE rp' \in Int /\ i' \in Int /\ Done(rp, i)' = Done(r, j + 1) /\ pc' = "read"
  <2>1. \A s \in Done(r, j + 1) : Held(0, lpos, s)'
    BY <1>2, <1>7 DEF Held
  <2>2. ReadFg'
    BY <1>2, <1>3, <1>6, <1>7, <1>8, <2>1 DEF ReadFg
  <2> QED BY <1>8, <2>2 DEF EvacInv, Begun, ChosenFg, ProgFg, GiveFg, InCopy, InMap
<1>9. CASE j + 1 < NumChips /\ i' = j + 1 /\ rp' = r /\ pc' = "read"
  <2>1. Done(rp, i)' = Done(r, j + 1)
    BY <1>6, <1>9 DEF Done
  <2>2. i' \in Int /\ rp' \in Int
    BY <1>9, FtlAssumption DEF Chip, Page
  <2> QED BY <1>8, <1>9, <2>1, <2>2
<1>10. CASE j + 1 = NumChips /\ i' = 0 /\ rp' = r + 1 /\ pc' = "read"
  <2>1. Done(rp, i)' = Done(r + 1, 0)
    BY <1>6, <1>10 DEF Done
  <2>2. i' \in Int /\ rp' \in Int
    BY <1>10, FtlAssumption DEF Chip, Page
  <2> QED BY <1>8, <1>10, <2>1, <2>2, ReadAll
<1>11. CASE j + 1 = NumChips /\ r + 1 = NumPages /\ pc' = "read_first"
  <2>1. Done(r, j + 1) = Live
    BY <1>11, ReadAll
  <2>2. \A s \in Live : Held(0, lpos, s)'
    BY <1>2, <1>7, <2>1 DEF Held
  <2>3. ReadFg'
    BY <1>2, <1>3, <1>6, <1>7, <1>11, <2>1, <2>2 DEF ReadFg
  <2> QED BY <1>11, <2>3 DEF EvacInv, Begun, ChosenFg, ProgFg, GiveFg, InCopy, InMap
<1> QED BY <1>2, <1>9, <1>10, <1>11

(* All other steps lead to places where nothing is claimed.                *)
LEMMA NextEvac ==
  /\ IInv /\ IInv' /\ FullInv /\ CountInv /\ Calls /\ UsedLive /\ EvacInv /\ [Next]_vars
  => EvacInv'
<1> SUFFICES ASSUME IInv, IInv', FullInv, CountInv, Calls, UsedLive, EvacInv, [Next]_vars
             PROVE  EvacInv'
  OBVIOUS
<1>1. CASE Request
  <2>1. ASSUME NEW l \in Lpa, Invalidate(l) PROVE EvacInv'
    <3>1. Elsewhere'
      BY <2>1 DEF Invalidate, Elsewhere, FgLoops, InCopy, InMap
    <3> QED BY <3>1, ElsewhereEvacNext
  <2>2. ASSUME NEW l \in [Ofs -> Lpa], NEW d \in [Ofs -> Data], WriteStart(l, d) PROVE EvacInv'
    <3>1. CASE pc' = "alloc"
      <4>1. Elsewhere'
        BY <3>1 DEF Elsewhere, FgLoops, InCopy, InMap
      <4> QED BY <4>1, ElsewhereEvacNext
    <3> QED BY <2>2, <3>1, TriggerEvac DEF WriteStart
  <2> QED BY <1>1, <2>1, <2>2 DEF Request
<1>2. CASE trigger_bg_gc
  <2>1. Elsewhere'
    BY <1>2 DEF trigger_bg_gc, Elsewhere, FgLoops
  <2> QED BY <2>1, ElsewhereEvacNext
<1>3. CASE WriteAlloc
  <2>1. CASE alloc_new_page(get_next_bus_chip, "host") \/ Fail
    <3>1. Elsewhere'
      BY <2>1 DEF alloc_new_page, Fail, Elsewhere, FgLoops, InCopy, InMap
    <3> QED BY <3>1, ElsewhereEvacNext
  <2> QED BY <1>3, <2>1, TriggerEvac DEF WriteAlloc
<1>4. CASE MapWild \/ BgcWild
  <2>1. Elsewhere'
    BY <1>4 DEF MapWild, BgcWild, Crash, Elsewhere, FgLoops, InCopy, InMap
  <2> QED BY <2>1, ElsewhereEvacNext
<1>5. CASE MapInvalidate \/ MapLp \/ UpdateActBlk
  BY <1>5, MapInvalidateEvac, MapLpEvac, UpdateActEvac
<1>6. CASE prepare_act_blks \/ set_vic_blks \/ ReadFirst \/ get_valid_pgs_in_vic_blks
  BY <1>6, PrepareEvac, SetVicEvac, ReadFirstEvac, ReadEvac
<1>7. CASE prog_valid_pgs_to_gc_blks \/ update_gc_blks
  BY <1>7, ProgEvac, UpdateGcEvac DEF CountInv
<1>8. CASE fb_bgc_prepare_act_blks \/ fb_bgc_set_vic_blks \/ fb_bgc_read_valid_pgs \/ BgcProg
  <2>1. pc \in Bgc /\ op = "bgc"
    BY <1>8 DEF fb_bgc_prepare_act_blks, fb_bgc_set_vic_blks, fb_bgc_read_valid_pgs, BgcProg,
       Calls, Bgc
  <2>2. \/ pc' = "idle"
        \/ op' = op /\ pc' \in {"bgc_prepare", "bgc_set_vic", "bgc_read", "bgc_prog", "prog"}
    BY <1>8 DEF fb_bgc_prepare_act_blks, fb_bgc_set_vic_blks, fb_bgc_read_valid_pgs, BgcProg,
       ForEachChip, Return, Fail, Rest, call
  <2>3. Elsewhere'
    BY <2>1, <2>2 DEF Elsewhere, FgLoops, InCopy, InMap
  <2> QED BY <2>3, ElsewhereEvacNext
<1>9. CASE UNCHANGED vars
  <2>1. /\ UNCHANGED <<flash, lists, gcm, loops, target, call, env, l2p, act, gc, mru, pc>>
    BY <1>9 DEF vars
  <2> QED BY <2>1 DEF flash, lists, gcm, loops, target, call, EvacInv, Begun, ChosenFg, ReadFg,
         ProgFg, GiveFg, Picked, Secured, Aside, Room, On, Counted, Done, Live, Held, Upto,
         InCopy, InMap
<1> QED BY <1>1, <1>2, <1>3, <1>4, <1>5, <1>6, <1>7, <1>8, <1>9
     DEF Next, Step, Write, Collect, BgcRound

LEMMA InitEvac == Init => UsedLive /\ EvacInv
BY DEF Init, InitLists, InitCall, UsedLive, EvacInv, Begun, ChosenFg, ReadFg, ProgFg, GiveFg,
   InCopy, InMap

(* The last chip of update_gc_blks: those before it were given a GC block,  *)
(* and it has one or a block to make it from.                              *)
LEMMA Given ==
  ASSUME IInv, EvacInv, Next, pc = "update_gc_blks", pc' = "alloc", NEW c \in Chip
  PROVE  gc'[c] # Null
<1>1. update_gc_blks
  <2>1. ~Request /\ ~trigger_bg_gc
    BY DEF Request, Invalidate, WriteStart, trigger_bg_gc
  <2>2. ~Write
    BY DEF Write, WriteAlloc, MapWild, MapInvalidate, MapLp, UpdateActBlk
  <2>3. ~BgcRound
    BY DEF BgcRound, fb_bgc_prepare_act_blks, BgcWild, Crash, fb_bgc_set_vic_blks,
       fb_bgc_read_valid_pgs, BgcProg
  <2> QED BY <2>1, <2>2, <2>3 DEF Next, Step, Collect, prepare_act_blks, set_vic_blks, ReadFirst,
         get_valid_pgs_in_vic_blks, prog_valid_pgs_to_gc_blks
<1>2. op = "write" /\ i \in Chip /\ i + 1 = NumChips
  <2>1. i + 1 = NumChips /\ (op = "write" \/ i + 1 < NumChips) /\ i \in Chip
    BY <1>1 DEF update_gc_blks, ForEachChip, Return, Fail, IInv, TypeOK, CallType
  <2> QED BY <2>1, FtlAssumption
<1>3. \A x \in Chip : (x < i => gc[x] # Null) /\ (x >= i => Room(x))
  BY <1>2 DEF EvacInv, GiveFg
<1>4. c < i \/ c = i
  BY <1>2, FtlAssumption DEF Chip
<1>5. CASE c < i
  <2>1. gc[c] # Null /\ c # i
    BY <1>2, <1>3, <1>5, FtlAssumption DEF Chip
  <2>2. gc'[c] = gc[c]
    BY <1>1, <2>1 DEF update_gc_blks, Fail, IInv, TypeOK, ListType
  <2> QED BY <2>1, <2>2
<1>6. CASE c = i
  <2>1. Room(i)
    BY <1>2, <1>3, FtlAssumption DEF Chip
  <2>2. \A b \in Block : b # Null
    BY FtlAssumption
  <2> QED BY <1>1, <1>2, <1>6, <2>1, <2>2 DEF update_gc_blks, Fail, Room, On, IInv, TypeOK, ListType
<1> QED BY <1>4, <1>5, <1>6

(* update_gc_blks (gc_page_mapping.rs:353-363) goes on when a chip has an   *)
(* active block and neither a GC block nor dirt, so that the next           *)
(* collection could find it without room.  It never comes to that: a        *)
(* foreground collection that succeeds leaves every chip a GC block.       *)
THEOREM Collecting == Spec => GcAfterCollect
<1> DEFINE Inv == IInv /\ KeptInv /\ FullInv /\ CountInv /\ UsedLive /\ EvacInv
<1>1. Init => Inv
  BY InitType, InitCore, InitKept, InitFull, InitCount, InitEvac DEF IInv
<1>2. Inv /\ [Next]_vars => Inv'
  BY NextStep, NextKept, NextFull, NextCount, NextUsed, NextEvac DEF KeptInv
<1>3. Inv /\ [Next]_vars
        => [pc = "update_gc_blks" /\ pc' = "alloc" => \A c \in Chip : gc'[c] # Null]_vars
  <2> SUFFICES ASSUME Inv, Next, pc = "update_gc_blks", pc' = "alloc", NEW c \in Chip
               PROVE  gc'[c] # Null
    OBVIOUS
  <2> QED BY Given
<1> QED BY <1>1, <1>2, <1>3, PTL DEF Spec, GcAfterCollect
=============================================================================
