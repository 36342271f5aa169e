----------------------------- MODULE FtlProofs -----------------------------
(***************************************************************************)
(* What every behaviour of Ftl preserves, for any number of chips, blocks, *)
(* pages and logical pages: types, the agreement of the mapping table with *)
(* the slots, and that no block with valid data is ever erased.            *)
(***************************************************************************)
EXTENDS Ftl, TLAPS, FiniteSetTheorems, WellFoundedInduction

InvalidOfs(b, p) == {o \in Ofs : status[<<b, p, o>>] = "INVALID"}
InvalidPages(b) == {p \in Page : FullyInvalid(b, p)}
Listed == freeB \union usedB \union dirtB

(* nr_invalid_log_pages of a page is exact, nr_invalid_pages of a block     *)
(* counts no page that is not: a block that is retired is invalid.          *)
PageCounts ==
  \A b \in Block, p \in Page : pgInv[<<b, p>>] = Cardinality(InvalidOfs(b, p))
BlockCounts ==
  \A b \in Block : nrInvPgs[b] <= Cardinality(InvalidPages(b))

(* Pages are programmed in order: from the first free page of a block on,   *)
(* every slot is free, but for the page being programmed.                   *)
FreeAhead ==
  \A b \in Block :
    /\ nrFree[b] \in 0 .. NumPages
    /\ \A p \in Page, o \in Ofs :
         p >= NumPages - nrFree[b] =>
           \/ status[<<b, p, o>>] = "FREE"
           \/ pc \in {"map", "crashed"} /\ b = blk /\ p = pg /\ o < ofs

(* The page being programmed is the first free one of an active block.      *)
Target ==
  pc \in {"map", "update_act_blk"} =>
    /\ blk \in Block
    /\ act[ChipOf[blk]] = blk
    /\ job \in {"host", "copy"}
    /\ pc = "map" => nrFree[blk] > 0 /\ pg = NumPages - nrFree[blk]

(* An active block has room, except between the last page of it and the     *)
(* choice of the next one; free blocks are empty.                           *)
ActiveBlocks ==
  \A c \in Chip : act[c] # Null =>
    /\ ChipOf[act[c]] = c
    /\ act[c] \notin Listed /\ act[c] # gc[c]
    /\ nrFree[act[c]] > 0 \/ (pc = "update_act_blk" /\ act[c] = blk)
GcBlocks ==
  \A c \in Chip : gc[c] # Null => ChipOf[gc[c]] = c /\ gc[c] \notin Listed
Lists ==
  /\ freeB \intersect usedB = {}
  /\ freeB \intersect dirtB = {}
  /\ usedB \intersect dirtB = {}
  /\ \A b \in freeB : nrFree[b] = NumPages
  /\ \A b \in Block : b \in Listed \/ b = act[ChipOf[b]] \/ b = gc[ChipOf[b]]

(* A victim that was read from uninitialised memory is never copied.        *)
Victims ==
  /\ pc \in {"set_vic_blks", "bgc_set_vic"} => \A c \in Chip : c < i => vic[c] # Wild
  /\ pc \in {"read_first", "read", "bgc_read"} => \A c \in Chip : vic[c] # Wild

Core ==
  /\ MapInv /\ EraseSafe
  /\ PageCounts /\ BlockCounts /\ FreeAhead
  /\ Target /\ ActiveBlocks /\ GcBlocks /\ Lists

IInv == TypeOK /\ Core /\ Victims
----------------------------------------------------------------------------
(* Sets and numbers.                                                       *)

(* A set of naturals has a least element.                                  *)
LEMMA MinExists ==
  ASSUME NEW S \in SUBSET Nat, S # {}
  PROVE  \E x \in S : \A y \in S : x <= y
<1> DEFINE R == {ss \in Nat \X Nat : ss[1] < ss[2]}
<1>1. R = OpToRel(<, Nat)
  BY DEF OpToRel
<1>2. IsWellFoundedOn(R, Nat)
  BY <1>1, NatLessThanWellFounded
<1>3. \A x, y \in Nat : y < x => <<y, x>> \in R
  OBVIOUS
<1> HIDE DEF R
<1>4. PICK x \in S : \A y \in S : ~ (<<y, x>> \in R)
  BY <1>2, WFMin
<1>5. \A y \in S : ~ (y < x)
  BY <1>3, <1>4
<1>6. QED
  BY <1>5

(* find_first_valid_pg returns a page, or NUM_PAGES_PER_BLOCK for none.     *)
LEMMA FirstPage ==
  ASSUME NEW b, NEW start
  PROVE  find_first_valid_pg(b, start) \in 0 .. NumPages
<1> DEFINE rest == {p \in Page : p >= start /\ ~FullyInvalid(b, p)}
<1>1. CASE rest = {}
  BY <1>1, FtlAssumption DEF find_first_valid_pg
<1>2. CASE rest # {}
  <2>1. rest \in SUBSET Nat
    BY FtlAssumption DEF Page
  <2>2. \E p \in rest : \A q \in rest : p <= q
    BY <1>2, <2>1, MinExists
  <2>3. find_first_valid_pg(b, start) \in rest
    BY <1>2, <2>2 DEF find_first_valid_pg
  <2>4. QED
    BY <2>3, FtlAssumption DEF Page
<1>3. QED
  BY <1>1, <1>2

(* The pages of a block and the offsets of a page are finitely many.        *)
LEMMA Sizes ==
  /\ IsFiniteSet(Page) /\ Cardinality(Page) = NumPages
  /\ IsFiniteSet(Ofs) /\ Cardinality(Ofs) = NumLps
<1>1. NumPages \in Nat \ {0} /\ NumLps \in Nat \ {0}
  BY FtlAssumption
<1>2. IsFiniteSet(0 .. NumPages - 1) /\ Cardinality(0 .. NumPages - 1) = NumPages
  BY <1>1, FS_Interval
<1>3. IsFiniteSet(0 .. NumLps - 1) /\ Cardinality(0 .. NumLps - 1) = NumLps
  BY <1>1, FS_Interval
<1>4. QED
  BY <1>2, <1>3 DEF Page, Ofs

----------------------------------------------------------------------------
(* The initial states.                                                     *)

LEMMA InitType == Init => TypeOK
<1> SUFFICES ASSUME Init PROVE TypeOK
  OBVIOUS
<1> USE FtlAssumption DEF Init, InitFlash, InitTable, InitLists, InitGcm, InitCall, InitEnv
<1>1. 0 \in Chip /\ NumChips - 1 \in Chip /\ 0 \in Page /\ 0 \in Ofs /\ 0 \in 0 .. NumPages
  BY DEF Chip, Page, Ofs
<1>2. FlashType
  BY DEF FlashType, Status, Content
<1>3. ListType
  BY <1>1 DEF ListType, BlockOrNull
<1>4. GcmType
  BY <1>1 DEF GcmType, BlockOrNull, Content
<1>5. CallType
  BY <1>1 DEF CallType, BlockOrNull, NoLpas, Pc
<1>6. EnvType
  <2>1. disk \in [Lpa -> Data \union {Unmapped}]
    OBVIOUS
  <2>2. QED
    BY <2>1, Zenon DEF EnvType
<1>7. QED
  BY <1>2, <1>3, <1>4, <1>5, <1>6 DEF TypeOK

LEMMA InitCore == Init => Core /\ Victims
<1> SUFFICES ASSUME Init PROVE Core /\ Victims
  OBVIOUS
<1> USE FtlAssumption DEF Init, InitFlash, InitTable, InitLists, InitGcm, InitCall, InitEnv
<1>1. MapInv /\ EraseSafe
  BY DEF MapInv, EraseSafe
<1>2. PageCounts
  <2>1. \A b \in Block, p \in Page : InvalidOfs(b, p) = {}
    BY DEF InvalidOfs, Slot
  <2>2. QED
    BY <2>1, FS_EmptySet DEF PageCounts
<1>3. BlockCounts
  <2>1. \A b \in Block : Cardinality(InvalidPages(b)) \in Nat
    BY Sizes, FS_Subset, FS_CardinalityType DEF InvalidPages
  <2>2. QED
    BY <2>1 DEF BlockCounts
<1>4. FreeAhead
  <2>1. \A b \in Block, p \in Page, o \in Ofs : status[<<b, p, o>>] = "FREE"
    BY DEF Slot
  <2>2. \A b \in Block : nrFree[b] \in 0 .. NumPages
    OBVIOUS
  <2> HIDE DEF Init, InitFlash, InitTable, InitLists, InitGcm, InitCall, InitEnv
  <2>3. QED
    BY <2>1, <2>2, Zenon DEF FreeAhead
<1>5. Target /\ Victims
  BY DEF Target, Victims
<1>6. ActiveBlocks /\ GcBlocks /\ Lists
  BY DEF ActiveBlocks, GcBlocks, Lists, Listed
<1>7. QED
  BY <1>1, <1>2, <1>3, <1>4, <1>5, <1>6 DEF Core
----------------------------------------------------------------------------
(* Steps that leave the blocks alone.                                      *)

InMap == pc \in {"map", "update_act_blk"}
Quiet == /\ UNCHANGED <<flash, lists, l2p, act, gc>>
         /\ ~InMap /\ ~InMap' /\ pc # "crashed"

LEMMA QuietCore == Core /\ Quiet => Core'
<1> SUFFICES ASSUME Core, Quiet PROVE Core'
  OBVIOUS
<1> USE DEF Core, Quiet, InMap, flash, lists
<1>1. MapInv' /\ EraseSafe'
  BY DEF MapInv, EraseSafe
<1>2. PageCounts' /\ BlockCounts'
  BY DEF PageCounts, BlockCounts, InvalidOfs, InvalidPages, FullyInvalid
<1>3. FreeAhead'
  BY DEF FreeAhead
<1>4. Target' /\ ActiveBlocks' /\ GcBlocks' /\ Lists'
  BY DEF Target, ActiveBlocks, GcBlocks, Lists, Listed
<1>5. QED
  BY <1>1, <1>2, <1>3, <1>4

LEMMA QuietType ==
  TypeOK /\ Quiet /\ mru' \in Chip => FlashType' /\ ListType'
BY DEF TypeOK, FlashType, ListType, Quiet, flash, lists

(* The control operators keep the types of what they assign.                *)
LEMMA ResetType == ResetLocals /\ pc' = "idle" => CallType' /\ retried' \in BOOLEAN
<1> SUFFICES ASSUME ResetLocals, pc' = "idle" PROVE CallType' /\ retried' \in BOOLEAN
  OBVIOUS
<1>1. 0 \in Chip /\ 0 \in Page /\ 0 \in Ofs
  BY FtlAssumption DEF Chip, Page, Ofs
<1>2. CallType'
  BY <1>1 DEF ResetLocals, CallType, NoLpas, BlockOrNull, Pc
<1>3. retried' \in BOOLEAN
  BY Zenon DEF ResetLocals
<1>4. QED
  BY <1>2, <1>3

LEMMA ReturnType == TypeOK /\ Return => CallType' /\ EnvType' /\ pc' = "idle"
<1> SUFFICES ASSUME TypeOK, Return PROVE CallType' /\ EnvType' /\ pc' = "idle"
  OBVIOUS
<1>1. CallType' /\ retried' \in BOOLEAN /\ pc' = "idle"
  BY ResetType DEF Return
<1>2. EnvType'
  BY <1>1, Zenon DEF TypeOK, EnvType, Return, env
<1>3. QED
  BY <1>1, <1>2

LEMMA FailType == TypeOK /\ Fail => CallType' /\ EnvType' /\ pc' = "idle"
<1> SUFFICES ASSUME TypeOK, Fail PROVE CallType' /\ EnvType' /\ pc' = "idle"
  OBVIOUS
<1>1. CallType' /\ retried' \in BOOLEAN /\ pc' = "idle"
  BY ResetType DEF Fail
<1>2. err' \in BOOLEAN /\ bgcAlive' \in BOOLEAN
  BY Zenon DEF Fail
<1>3. EnvType'
  BY <1>1, <1>2, Zenon DEF TypeOK, EnvType, Fail
<1>4. QED
  BY <1>1, <1>3

LEMMA RestEnv == TypeOK /\ UNCHANGED Rest => EnvType'
BY Zenon DEF TypeOK, EnvType, Rest, env, call
LEMMA LoopTyped ==
  ASSUME TypeOK, i' \in Chip, pc' \in Pc, UNCHANGED <<rp, lpos, dpos, pos, Rest>>
  PROVE  CallType' /\ EnvType'
<1>1. CallType'
  BY DEF TypeOK, CallType, Rest, target, call
<1>2. EnvType'
  BY RestEnv
<1>3. QED
  BY <1>1, <1>2

----------------------------------------------------------------------------
(* Requests and collections that only look and count.                      *)

(* What a quiet step still has to show.                                     *)
LEMMA QuietStep ==
  ASSUME IInv, Quiet, mru' \in Chip, GcmType', CallType', EnvType', Victims'
  PROVE  IInv'
BY QuietCore, QuietType DEF IInv, TypeOK

LEMMA TriggerType ==
  ASSUME TypeOK, trigger_gc_page_mapping, UNCHANGED target,
         op' \in {"none", "write", "bgc"},
         wl' \in [Ofs -> Lpa \union {Unmapped}], wd' \in [Ofs -> Data \union {Unmapped}]
  PROVE  GcmType' /\ CallType'
<1>1. 0 \in Chip /\ 0 \in Page
  BY FtlAssumption DEF Chip, Page
<1>2. GcmType'
  BY DEF TypeOK, GcmType, trigger_gc_page_mapping, init_gcm
<1>3. CallType'
  BY <1>1 DEF TypeOK, CallType, trigger_gc_page_mapping, init_gcm, target, Pc
<1>4. QED
  BY <1>2, <1>3

LEMMA WriteStartStep ==
  ASSUME IInv, NEW l \in [Ofs -> Lpa], NEW d \in [Ofs -> Data], WriteStart(l, d)
  PROVE  IInv'
<1>1. TypeOK
  BY DEF IInv
<1>2. pc' \in {"prepare_act_blks", "alloc"}
  BY DEF WriteStart, trigger_gc_page_mapping
<1>3. Quiet /\ mru' \in Chip
  BY <1>1, <1>2 DEF WriteStart, Quiet, InMap, TypeOK, ListType
<1>4. Victims'
  BY <1>2 DEF Victims
<1>5. EnvType'
  <2>1. disk' \in [Lpa -> Data \union {Unmapped}]
    <3>1. \A x \in Lpa : (\E o \in Ofs : l[o] = x) =>
                             d[CHOOSE o \in Ofs : l[o] = x] \in Data
      OBVIOUS
    <3>2. \A x \in Lpa : (IF \E o \in Ofs : l[o] = x
                          THEN d[CHOOSE o \in Ofs : l[o] = x] ELSE disk[x])
                           \in Data \union {Unmapped}
      BY <1>1, <3>1 DEF TypeOK, EnvType
    <3>3. QED
      BY <3>2 DEF WriteStart
  <2>2. QED
    BY <1>1, <2>1, Zenon DEF WriteStart, TypeOK, EnvType
<1>6. GcmType' /\ CallType'
  <2>1. /\ op' = "write" /\ UNCHANGED target
        /\ wl' \in [Ofs -> Lpa \union {Unmapped}] /\ wd' \in [Ofs -> Data \union {Unmapped}]
    BY DEF WriteStart
  <2>2. CASE trigger_gc_page_mapping
    BY <1>1, <2>1, <2>2, TriggerType
  <2>3. CASE pc' = "alloc" /\ UNCHANGED <<gcm, loops>>
    BY <1>1, <2>1, <2>3 DEF TypeOK, GcmType, CallType, gcm, loops, target, Pc
  <2>4. QED
    BY <2>2, <2>3 DEF WriteStart
<1>7. QED
  BY <1>3, <1>4, <1>5, <1>6, QuietStep

LEMMA CrashType == TypeOK /\ Crash => TypeOK'
<1> SUFFICES ASSUME TypeOK, Crash PROVE TypeOK'
  OBVIOUS
<1>1. FlashType' /\ ListType' /\ GcmType' /\ CallType'
  BY DEF TypeOK, FlashType, ListType, GcmType, CallType, Crash, Pc,
         flash, lists, gcm, loops, target, call
<1>2. EnvType'
  BY Zenon DEF TypeOK, EnvType, Crash, env, call
<1>3. QED
  BY <1>1, <1>2 DEF TypeOK

LEMMA BgcWildStep == IInv /\ BgcWild => IInv'
<1> SUFFICES ASSUME IInv, BgcWild PROVE IInv'
  OBVIOUS
<1>1. Quiet
  BY DEF BgcWild, WildVictim, Crash, Quiet, InMap
<1>2. TypeOK' /\ Victims'
  BY CrashType DEF IInv, BgcWild, Crash, Victims
<1>3. QED
  BY <1>1, <1>2, QuietCore DEF IInv

LEMMA MapWildStep == IInv /\ MapWild => IInv'
<1> SUFFICES ASSUME IInv, MapWild PROVE IInv'
  OBVIOUS
<1> USE DEF MapWild, Crash, flash, lists, target
<1>1. TypeOK' /\ Victims'
  BY CrashType DEF IInv, Victims
<1>2. MapInv' /\ EraseSafe'
  BY DEF IInv, Core, MapInv, EraseSafe
<1>3. PageCounts' /\ BlockCounts'
  BY DEF IInv, Core, PageCounts, BlockCounts, InvalidOfs, InvalidPages, FullyInvalid
<1>4. FreeAhead'
  BY DEF IInv, Core, FreeAhead
<1>5. Target' /\ ActiveBlocks' /\ GcBlocks' /\ Lists'
  BY DEF IInv, Core, Target, ActiveBlocks, GcBlocks, Lists, Listed
<1>6. QED
  BY <1>1, <1>2, <1>3, <1>4, <1>5 DEF IInv, Core
LEMMA SetVicStep == IInv /\ set_vic_blks => IInv'
<1> SUFFICES ASSUME IInv, set_vic_blks PROVE IInv'
  OBVIOUS
<1>1. TypeOK /\ pc = "set_vic_blks" /\ i \in Chip
  BY DEF IInv, TypeOK, CallType, set_vic_blks
<1>2. Block # Block \union {Wild} /\ Wild # Null /\ Wild \notin Block
  BY FtlAssumption
<1>3. \A b \in select_vic_blk_greedy(i) : b \in Block /\ nrValLps[b] \in Int
  BY <1>1 DEF select_vic_blk_greedy, select_vic_blk_from_used, On, TypeOK, ListType, FlashType
<1> DEFINE Uncopied == vic' = [vic EXCEPT ![i] = Null] /\ UNCHANGED <<fvp, nrToCopy>>
           Copied(b) == /\ vic' = [vic EXCEPT ![i] = b]
                        /\ fvp' = [fvp EXCEPT ![i] = find_first_valid_pg(b, 0)]
                        /\ nrToCopy' = nrToCopy + nrValLps[b]
<1>4. CASE /\ ForEachChip("read_first") /\ UNCHANGED <<rp, lpos, dpos, pos, Rest>>
           /\ Uncopied \/ \E b \in select_vic_blk_greedy(i) : Copied(b)
  <2>1. /\ i' \in Chip
        /\ \/ i' = i + 1 /\ pc' = pc
           \/ i' = 0 /\ pc' = "read_first" /\ i = NumChips - 1
    BY <1>1, <1>4, FtlAssumption DEF ForEachChip, Chip
  <2>2. CallType' /\ EnvType'
    BY <1>1, <1>4, <2>1, LoopTyped DEF Pc
  <2>3. Quiet /\ mru' \in Chip
    BY <1>1, <2>1 DEF set_vic_blks, Quiet, InMap, TypeOK, ListType
  <2>4. \E b \in BlockOrNull, f \in 0 .. NumPages, n \in Int :
          vic' = [vic EXCEPT ![i] = b] /\ fvp' = [fvp EXCEPT ![i] = f] /\ nrToCopy' = n
    <3>1. CASE Uncopied
      <4>1. fvp' = [fvp EXCEPT ![i] = fvp[i]] /\ fvp[i] \in 0 .. NumPages /\ nrToCopy \in Int
        BY <1>1, <3>1 DEF TypeOK, GcmType
      <4>2. QED
        BY <3>1, <4>1 DEF BlockOrNull
    <3>2. CASE \E b \in select_vic_blk_greedy(i) : Copied(b)
      <4>1. PICK b \in select_vic_blk_greedy(i) : Copied(b)
        BY <3>2
      <4>2. b \in BlockOrNull /\ nrToCopy + nrValLps[b] \in Int
        BY <1>1, <1>3 DEF TypeOK, GcmType, BlockOrNull
      <4>3. find_first_valid_pg(b, 0) \in 0 .. NumPages
        BY FirstPage
      <4>4. QED
        BY <4>1, <4>2, <4>3
    <3>3. QED
      BY <1>4, <3>1, <3>2
  <2>5. GcmType'
    BY <1>1, <2>4 DEF set_vic_blks, TypeOK, GcmType
  <2>6. Victims'
    BY <1>1, <1>2, <2>1, <2>4 DEF IInv, Victims, TypeOK, GcmType, Chip, BlockOrNull
  <2>7. QED
    BY <2>2, <2>3, <2>5, <2>6, QuietStep
<1>5. CASE Fail /\ UNCHANGED <<vic, fvp, nrToCopy>>
  <2>1. CallType' /\ EnvType' /\ pc' = "idle"
    BY <1>1, <1>5, FailType
  <2>2. Quiet /\ mru' \in Chip
    BY <1>1, <2>1 DEF set_vic_blks, Quiet, InMap, TypeOK, ListType
  <2>3. GcmType' /\ Victims'
    BY <1>1, <1>5, <2>1 DEF set_vic_blks, TypeOK, GcmType, Victims
  <2>4. QED
    BY <2>1, <2>2, <2>3, QuietStep
<1>6. QED
  BY <1>4, <1>5 DEF set_vic_blks

LEMMA ReadFirstStep == IInv /\ ReadFirst => IInv'
<1> SUFFICES ASSUME IInv, ReadFirst PROVE IInv'
  OBVIOUS
<1>1. TypeOK /\ 0 \in Chip /\ 0 \in Page
  BY FtlAssumption DEF IInv, Chip, Page
<1>2. pc = "read_first" /\ pc' \in {"read", "prog"}
  BY DEF ReadFirst
<1>3. Quiet /\ mru' \in Chip
  BY <1>1, <1>2 DEF ReadFirst, Quiet, InMap, TypeOK, ListType
<1>4. GcmType' /\ CallType'
  BY <1>1, <1>2 DEF ReadFirst, TypeOK, GcmType, CallType, gcm, Rest, target, call, Pc
<1>5. EnvType'
  BY <1>1, RestEnv DEF ReadFirst
<1>6. Victims'
  BY <1>2 DEF IInv, Victims, ReadFirst, gcm
<1>7. QED
  BY <1>3, <1>4, <1>5, <1>6, QuietStep

(* What is read from a page are its LPAs and contents, or nothing.          *)
LEMMA ReadPageType ==
  ASSUME TypeOK, NEW b \in Block, NEW p \in Page, ReadPage(b, p)
  PROVE  /\ lpas' \in [CopyIdx -> Lpa \union {Unmapped, Wild}]
         /\ datas' \in [CopyIdx -> Content]
         /\ lpos' \in Int /\ dpos' \in Int
<1> DEFINE n == Cardinality(ValidOfs(b, p))
<1>1. n \in Nat
  BY Sizes, FS_Subset, FS_CardinalityType DEF ValidOfs
<1>2. PICK pick \in [0 .. n - 1 -> ValidOfs(b, p)] :
        /\ lpas' = [k \in CopyIdx |->
             IF k - lpos \in 0 .. n - 1 THEN owner[<<b, p, pick[k - lpos]>>] ELSE lpas[k]]
        /\ datas' = [k \in CopyIdx |->
             IF k - dpos \in 0 .. n - 1 THEN store[<<b, p, pick[k - dpos]>>] ELSE datas[k]]
        /\ lpos' = lpos + n
        /\ dpos' = dpos + NumLps - pgInv[<<b, p>>]
  BY DEF ReadPage
<1> HIDE DEF n
<1>3. \A k \in 0 .. n - 1 : <<b, p, pick[k]>> \in Slot
  BY DEF ValidOfs, Slot
<1>4. lpas' \in [CopyIdx -> Lpa \union {Unmapped, Wild}]
  BY <1>2, <1>3 DEF TypeOK, FlashType, GcmType
<1>5. datas' \in [CopyIdx -> Content]
  BY <1>2, <1>3 DEF TypeOK, FlashType, GcmType
<1>6. lpos' \in Int /\ dpos' \in Int
  BY <1>1, <1>2, FtlAssumption DEF TypeOK, FlashType, CallType
<1>7. QED
  BY <1>4, <1>5, <1>6

LEMMA ReadStep == IInv /\ get_valid_pgs_in_vic_blks => IInv'
<1> SUFFICES ASSUME IInv, get_valid_pgs_in_vic_blks PROVE IInv'
  OBVIOUS
<1>1. TypeOK /\ pc = "read" /\ i \in Chip /\ rp \in Page
  BY DEF IInv, TypeOK, CallType, get_valid_pgs_in_vic_blks
<1>2. /\ lpas' \in [CopyIdx -> Lpa \union {Unmapped, Wild}]
      /\ datas' \in [CopyIdx -> Content]
      /\ lpos' \in Int /\ dpos' \in Int
  <2>1. CASE Readable(i, rp) /\ ReadPage(vic[i], rp)
    <3>1. vic[i] \in Block
      BY <1>1, <2>1 DEF IInv, Victims, Readable, TypeOK, GcmType, BlockOrNull
    <3>2. QED
      BY <1>1, <2>1, <3>1, ReadPageType
  <2>2. CASE UNCHANGED <<lpas, datas, lpos, dpos>>
    BY <1>1, <2>2 DEF TypeOK, GcmType, CallType
  <2>3. QED
    BY <2>1, <2>2 DEF get_valid_pgs_in_vic_blks
<1>3. i' \in Chip /\ rp' \in Page /\ pc' \in {"read", "read_first"}
  BY <1>1, FtlAssumption DEF get_valid_pgs_in_vic_blks, Chip, Page
<1>4. Quiet /\ mru' \in Chip
  BY <1>1, <1>3 DEF get_valid_pgs_in_vic_blks, Quiet, InMap, TypeOK, ListType
<1>5. GcmType'
  BY <1>1, <1>2 DEF get_valid_pgs_in_vic_blks, TypeOK, GcmType
<1>6. CallType'
  BY <1>1, <1>2, <1>3 DEF get_valid_pgs_in_vic_blks, TypeOK, CallType, Rest, target, call, Pc
<1>7. EnvType'
  BY <1>1, RestEnv DEF get_valid_pgs_in_vic_blks
<1>8. Victims'
  BY <1>1, <1>3 DEF IInv, Victims, get_valid_pgs_in_vic_blks
<1>9. QED
  BY <1>4, <1>5, <1>6, <1>7, <1>8, QuietStep
LEMMA TriggerBgStep == IInv /\ trigger_bg_gc => IInv'
<1> SUFFICES ASSUME IInv, trigger_bg_gc PROVE IInv'
  OBVIOUS
<1>1. TypeOK /\ pc = "idle" /\ 0 \in Chip /\ 0 \in Page
  BY FtlAssumption DEF IInv, trigger_bg_gc, Chip, Page
<1>2. \/ pc' = "bgc_prepare" /\ UNCHANGED loops
      \/ pc' = "bgc_set_vic" /\ init_gcm
  BY DEF trigger_bg_gc
<1>3. Quiet /\ mru' \in Chip
  BY <1>1, <1>2 DEF trigger_bg_gc, Quiet, InMap, TypeOK, ListType
<1>4. GcmType'
  BY <1>1 DEF trigger_bg_gc, init_gcm, TypeOK, GcmType, gcm
<1>5. CallType'
  BY <1>1, <1>2 DEF trigger_bg_gc, init_gcm, TypeOK, CallType, loops, target, Pc
<1>6. EnvType'
  BY <1>1, Zenon DEF trigger_bg_gc, TypeOK, EnvType, env
<1>7. Victims'
  BY <1>2 DEF Victims, init_gcm, Chip
<1>8. QED
  BY <1>3, <1>4, <1>5, <1>6, <1>7, QuietStep

LEMMA BgcSetVicStep == IInv /\ fb_bgc_set_vic_blks => IInv'
<1> SUFFICES ASSUME IInv, fb_bgc_set_vic_blks PROVE IInv'
  OBVIOUS
<1>1. /\ TypeOK /\ pc = "bgc_set_vic" /\ i \in Chip
      /\ vic[i] \in BlockOrNull \union {Wild} /\ fvp[i] \in 0 .. NumPages
  BY DEF IInv, TypeOK, CallType, GcmType, fb_bgc_set_vic_blks
<1>2. Wild # Null /\ Wild \notin Block
  BY FtlAssumption
<1>3. Short => vic[i] \in BlockOrNull
  BY <1>1 DEF fb_bgc_set_vic_blks, WildVictim
<1>4. \E b \in BlockOrNull, f \in 0 .. NumPages :
        vic' = [vic EXCEPT ![i] = b] /\ fvp' = [fvp EXCEPT ![i] = f]
  <2>1. CASE Short /\ KeepsVictim /\ UNCHANGED vic
             /\ fvp' = [fvp EXCEPT ![i] = find_first_valid_pg(vic[i], fvp[i])]
    <3>1. vic' = [vic EXCEPT ![i] = vic[i]]
      BY <1>1, <2>1 DEF TypeOK, GcmType
    <3>2. QED
      BY <1>3, <2>1, <3>1, FirstPage
  <2>2. CASE \E b \in select_vic_blk_from_used(i) :
               /\ vic' = [vic EXCEPT ![i] = b]
               /\ fvp' = [fvp EXCEPT ![i] = find_first_valid_pg(b, 0)]
    <3>1. PICK b \in select_vic_blk_from_used(i) :
               /\ vic' = [vic EXCEPT ![i] = b]
               /\ fvp' = [fvp EXCEPT ![i] = find_first_valid_pg(b, 0)]
      BY <2>2
    <3>2. b \in BlockOrNull
      BY <1>1 DEF select_vic_blk_from_used, On, TypeOK, ListType, BlockOrNull
    <3>3. QED
      BY <3>1, <3>2, FirstPage
  <2>3. CASE /\ vic' = [vic EXCEPT ![i] = Null]
             /\ \/ fvp' = fvp
                \/ fvp' = [fvp EXCEPT ![i] = NumPages]
                \/ fvp' = [fvp EXCEPT ![i] = 0]
    <3>1. fvp = [fvp EXCEPT ![i] = fvp[i]]
      BY <1>1 DEF TypeOK, GcmType
    <3>2. Null \in BlockOrNull /\ 0 \in 0 .. NumPages /\ NumPages \in 0 .. NumPages
      BY FtlAssumption DEF BlockOrNull
    <3>3. QED
      BY <1>1, <2>3, <3>1, <3>2
  <2>4. QED
    BY <2>1, <2>2, <2>3 DEF fb_bgc_set_vic_blks
<1>5. GcmType'
  BY <1>1, <1>4 DEF fb_bgc_set_vic_blks, TypeOK, GcmType
<1>6. CASE ForEachChip("bgc_read") /\ UNCHANGED <<rp, lpos, dpos, pos, Rest>>
  <2>1. /\ i' \in Chip
        /\ \/ i' = i + 1 /\ pc' = pc
           \/ i' = 0 /\ pc' = "bgc_read" /\ i = NumChips - 1
    BY <1>1, <1>6, FtlAssumption DEF ForEachChip, Chip
  <2>2. CallType' /\ EnvType'
    BY <1>1, <1>6, <2>1, LoopTyped DEF Pc
  <2>3. Quiet /\ mru' \in Chip
    BY <1>1, <2>1 DEF fb_bgc_set_vic_blks, Quiet, InMap, TypeOK, ListType
  <2>4. Victims'
    BY <1>1, <1>2, <1>4, <2>1 DEF IInv, Victims, TypeOK, GcmType, Chip, BlockOrNull
  <2>5. QED
    BY <1>5, <2>2, <2>3, <2>4, QuietStep
<1>7. CASE Fail
  <2>1. CallType' /\ EnvType' /\ pc' = "idle"
    BY <1>1, <1>7, FailType
  <2>2. Quiet /\ mru' \in Chip
    BY <1>1, <2>1 DEF fb_bgc_set_vic_blks, Quiet, InMap, TypeOK, ListType
  <2>3. Victims'
    BY <2>1 DEF Victims
  <2>4. QED
    BY <1>5, <2>1, <2>2, <2>3, QuietStep
<1>8. QED
  BY <1>6, <1>7 DEF fb_bgc_set_vic_blks

LEMMA NextChip == TypeOK => get_next_bus_chip \in Chip
BY FtlAssumption DEF TypeOK, ListType, get_next_bus_chip, Chip

LEMMA BgcReadStep == IInv /\ fb_bgc_read_valid_pgs => IInv'
<1> SUFFICES ASSUME IInv, fb_bgc_read_valid_pgs PROVE IInv'
  OBVIOUS
<1> DEFINE c == get_next_bus_chip
<1>1. TypeOK /\ pc = "bgc_read" /\ i \in Chip /\ mru \in Chip /\ c \in Chip
  BY NextChip DEF IInv, TypeOK, CallType, ListType, fb_bgc_read_valid_pgs
<1>2. CASE Fail /\ UNCHANGED <<mru, nrToCopy, lpas, datas>>
  <2>1. CallType' /\ EnvType' /\ pc' = "idle"
    BY <1>1, <1>2, FailType
  <2>2. Quiet /\ mru' \in Chip
    BY <1>1, <1>2, <2>1 DEF fb_bgc_read_valid_pgs, Quiet, InMap
  <2>3. GcmType' /\ Victims'
    BY <1>1, <1>2, <2>1 DEF fb_bgc_read_valid_pgs, TypeOK, GcmType, Victims
  <2>4. QED
    BY <2>1, <2>2, <2>3, QuietStep
<1>3. CASE /\ \/ /\ Readable(c, fvp[c])
                 /\ ReadPage(vic[c], fvp[c])
                 /\ nrToCopy' = nrToCopy + NumLps - pgInv[<<vic[c], fvp[c]>>]
              \/ UNCHANGED <<lpas, datas, lpos, dpos, nrToCopy>>
           /\ mru' = c
           /\ ForEachChip("bgc_prog")
           /\ UNCHANGED <<rp, pos, Rest>>
  <2>1. /\ i' \in Chip
        /\ pc' \in {"bgc_read", "bgc_prog"}
    BY <1>1, <1>3, FtlAssumption DEF ForEachChip, Chip
  <2>2. /\ lpas' \in [CopyIdx -> Lpa \union {Unmapped, Wild}]
        /\ datas' \in [CopyIdx -> Content]
        /\ lpos' \in Int /\ dpos' \in Int /\ nrToCopy' \in Int
    <3>1. CASE /\ Readable(c, fvp[c])
               /\ ReadPage(vic[c], fvp[c])
               /\ nrToCopy' = nrToCopy + NumLps - pgInv[<<vic[c], fvp[c]>>]
      <4>1. vic[c] \in Block /\ fvp[c] \in 0 .. NumPages /\ fvp[c] # NumPages
        BY <1>1, <3>1 DEF fb_bgc_read_valid_pgs, WildVictim, Readable, IInv, Victims,
                          TypeOK, GcmType, BlockOrNull
      <4>2. fvp[c] \in Page
        BY <4>1, FtlAssumption DEF Page
      <4>3. nrToCopy' \in Int
        BY <1>1, <3>1, <4>1, <4>2, FtlAssumption DEF TypeOK, FlashType, GcmType
      <4>4. QED
        BY <1>1, <3>1, <4>1, <4>2, <4>3, ReadPageType
    <3>2. CASE UNCHANGED <<lpas, datas, lpos, dpos, nrToCopy>>
      BY <1>1, <3>2 DEF TypeOK, GcmType, CallType
    <3>3. QED
      BY <1>3, <3>1, <3>2
  <2>3. Quiet
    BY <1>1, <2>1 DEF fb_bgc_read_valid_pgs, Quiet, InMap
  <2>4. GcmType'
    BY <1>1, <2>2 DEF fb_bgc_read_valid_pgs, TypeOK, GcmType
  <2>5. CallType'
    BY <1>1, <1>3, <2>1, <2>2 DEF TypeOK, CallType, Rest, target, call, Pc
  <2>6. EnvType'
    BY <1>1, <1>3, RestEnv
  <2>7. Victims'
    BY <1>1, <2>1 DEF fb_bgc_read_valid_pgs, IInv, Victims
  <2>8. QED
    BY <1>1, <1>3, <2>3, <2>4, <2>5, <2>6, <2>7, QuietStep
<1>4. QED
  BY <1>2, <1>3 DEF fb_bgc_read_valid_pgs

LEMMA BgcProgStep == IInv /\ BgcProg => IInv'
<1> SUFFICES ASSUME IInv, BgcProg PROVE IInv'
  OBVIOUS
<1>1. TypeOK /\ pc = "bgc_prog"
  BY DEF IInv, BgcProg
<1>2. CallType' /\ EnvType' /\ pc' \in {"idle", "prog"}
  <2>1. CASE Return
    BY <1>1, <2>1, ReturnType
  <2>2. CASE pc' = "prog" /\ UNCHANGED <<loops, Rest>>
    <3>1. CallType'
      BY <1>1, <2>2 DEF TypeOK, CallType, Rest, loops, target, call, Pc
    <3>2. QED
      BY <1>1, <2>2, <3>1, RestEnv
  <2>3. QED
    BY <2>1, <2>2 DEF BgcProg
<1>3. Quiet /\ mru' \in Chip
  BY <1>1, <1>2 DEF BgcProg, Quiet, InMap, TypeOK, ListType
<1>4. GcmType' /\ Victims'
  BY <1>1, <1>2 DEF BgcProg, TypeOK, GcmType, gcm, Victims
<1>5. QED
  BY <1>2, <1>3, <1>4, QuietStep
----------------------------------------------------------------------------
(* Invalidation.  The slot that is invalidated was valid, so its block is   *)
(* neither free nor the GC block nor dirt; if it retires, all its slots are *)
(* invalid, so it is not active either: it comes from the used list.        *)

LEMMA InvalidateType ==
  ASSUME TypeOK, NEW l \in Lpa, l2p[l] # Unmapped, invalidate_lpg(l), UNCHANGED <<act, mru>>
  PROVE  FlashType' /\ ListType'
<1> DEFINE s == l2p[l]
<1>1. s \in Slot /\ s[1] \in Block /\ <<s[1], s[2]>> \in Block \X Page
  BY DEF TypeOK, ListType, Slot
<1>2. FlashType'
  BY <1>1 DEF TypeOK, FlashType, invalidate_lpg, Status
<1>3. usedB' \in SUBSET Block /\ freeB' \in SUBSET Block /\ dirtB' \in SUBSET Block
  BY <1>1 DEF TypeOK, ListType, invalidate_lpg, RetireBlock, lists
<1>4. gc' \in [Chip -> BlockOrNull]
  BY <1>1 DEF TypeOK, ListType, invalidate_lpg, RetireBlock, BlockOrNull
<1>5. l2p' \in [Lpa -> Slot \union {Unmapped}]
  BY DEF TypeOK, ListType, invalidate_lpg
<1>6. QED
  BY <1>2, <1>3, <1>4, <1>5 DEF TypeOK, ListType

LEMMA InvalidateCore ==
  ASSUME TypeOK, Core, NEW l \in Lpa, l2p[l] # Unmapped, invalidate_lpg(l),
         UNCHANGED <<act, mru, pc, job, blk, pg, ofs>>, pc \notin {"update_act_blk", "crashed"}
  PROVE  Core'
<1> DEFINE s == l2p[l]
<1>1. PICK b \in Block, p \in Page, o \in Ofs : s = <<b, p, o>>
  BY DEF TypeOK, ListType, Slot
<1>2. s \in Slot /\ status[s] = "VALID" /\ owner[s] = l /\ b \in Block /\ p \in Page /\ o \in Ofs
  BY <1>1 DEF TypeOK, ListType, Core, MapInv
<1> DEFINE done == pgInv[<<b, p>>] + 1 = NumLps
<1>a. s[1] = b /\ s[2] = p
  BY <1>1
<1> HIDE DEF s
<1>3. /\ status' = [status EXCEPT ![s] = "INVALID"]
      /\ pgInv' = [pgInv EXCEPT ![<<b, p>>] = @ + 1]
      /\ l2p' = [l2p EXCEPT ![l] = Unmapped]
      /\ UNCHANGED <<owner, nrFree>>
      /\ nrInvPgs' = IF done THEN [nrInvPgs EXCEPT ![b] = @ + 1] ELSE nrInvPgs
  BY <1>a DEF invalidate_lpg, s
<1>4. \/ done /\ nrInvPgs[b] + 1 = NumPages /\ RetireBlock(b)
      \/ UNCHANGED <<lists, gc>>
  BY <1>a DEF invalidate_lpg, LastPageOf, s
<1>5. /\ status \in [Slot -> Status] /\ pgInv \in [Block \X Page -> Int]
      /\ nrInvPgs \in [Block -> Int] /\ nrFree \in [Block -> Int]
      /\ l2p \in [Lpa -> Slot \union {Unmapped}] /\ <<b, p>> \in Block \X Page
  BY <1>2 DEF TypeOK, FlashType, ListType
<1>6. MapInv'
  <2>1. \A x \in Lpa : l2p'[x] # Unmapped => status'[l2p'[x]] = "VALID" /\ owner'[l2p'[x]] = x
    BY <1>2, <1>3, <1>5 DEF Core, MapInv, s
  <2>2. \A t \in Slot : status'[t] = "VALID" => owner'[t] \in Lpa /\ l2p'[owner'[t]] = t
    <3> SUFFICES ASSUME NEW t \in Slot, status'[t] = "VALID"
                 PROVE  owner'[t] \in Lpa /\ l2p'[owner'[t]] = t
      OBVIOUS
    <3>1. t # s /\ status[t] = "VALID"
      BY <1>2, <1>3, <1>5
    <3>2. owner[t] \in Lpa /\ l2p[owner[t]] = t
      BY <3>1 DEF Core, MapInv
    <3>3. owner[t] # l
      BY <3>1, <3>2 DEF s
    <3>4. QED
      BY <1>3, <1>5, <3>2, <3>3
  <2>3. QED
    BY <2>1, <2>2 DEF MapInv
<1>7. PageCounts'
  <2>1. \A x \in Block, y \in Page : <<x, y>> # <<b, p>> => InvalidOfs(x, y)' = InvalidOfs(x, y)
    BY <1>1, <1>3, <1>5 DEF InvalidOfs, Slot
  <2>2. InvalidOfs(b, p)' = InvalidOfs(b, p) \union {o} /\ o \notin InvalidOfs(b, p)
    BY <1>1, <1>2, <1>3, <1>5 DEF InvalidOfs, Slot
  <2>3. Cardinality(InvalidOfs(b, p)') = Cardinality(InvalidOfs(b, p)) + 1
    <3>1. IsFiniteSet(InvalidOfs(b, p))
      BY Sizes, FS_Subset DEF InvalidOfs
    <3>2. QED
      BY <2>2, <3>1, FS_AddElement
  <2>4. \A x \in Block, y \in Page : pgInv'[<<x, y>>] = Cardinality(InvalidOfs(x, y)')
    <3> TAKE x \in Block, y \in Page
    <3>1. pgInv[<<x, y>>] = Cardinality(InvalidOfs(x, y))
      BY DEF Core, PageCounts
    <3>2. CASE <<x, y>> = <<b, p>>
      BY <1>3, <1>5, <2>3, <3>1, <3>2
    <3>3. CASE <<x, y>> # <<b, p>>
      BY <1>3, <1>5, <2>1, <3>1, <3>3
    <3>4. QED
      BY <3>2, <3>3
  <2>5. QED
    BY <2>4 DEF PageCounts
<1>8. ~FullyInvalid(b, p)
  <2>1. InvalidOfs(b, p) # Ofs
    BY <1>1, <1>2 DEF InvalidOfs
  <2>2. Cardinality(InvalidOfs(b, p)) # NumLps
    BY <2>1, Sizes, FS_Subset DEF InvalidOfs
  <2>3. QED
    BY <1>2, <2>2 DEF Core, PageCounts, FullyInvalid
<1>9. BlockCounts'
  <2>1. \A x \in Block : x # b => InvalidPages(x)' = InvalidPages(x)
    BY <1>3, <1>5 DEF InvalidPages, FullyInvalid
  <2>2. IsFiniteSet(InvalidPages(b))
    BY Sizes, FS_Subset DEF InvalidPages
  <2>3. InvalidPages(b)' = IF done THEN InvalidPages(b) \union {p} ELSE InvalidPages(b)
    BY <1>2, <1>3, <1>5, <1>8 DEF InvalidPages, FullyInvalid
  <2>4. p \notin InvalidPages(b)
    BY <1>8 DEF InvalidPages
  <2>5. Cardinality(InvalidPages(b)') =
          IF done THEN Cardinality(InvalidPages(b)) + 1 ELSE Cardinality(InvalidPages(b))
    BY <2>2, <2>3, <2>4, FS_AddElement
  <2>6. \A x \in Block : nrInvPgs'[x] <= Cardinality(InvalidPages(x)')
    <3> TAKE x \in Block
    <3>1. nrInvPgs[x] <= Cardinality(InvalidPages(x)) /\ nrInvPgs[x] \in Int
      BY <1>5 DEF Core, BlockCounts
    <3>2. Cardinality(InvalidPages(b)) \in Nat
      BY <2>2, FS_CardinalityType
    <3>3. CASE x = b /\ done
      BY <1>2, <1>3, <1>5, <2>5, <3>1, <3>2, <3>3
    <3>4. CASE x = b /\ ~done
      BY <1>3, <1>5, <2>5, <3>1, <3>2, <3>4
    <3>5. CASE x # b
      BY <1>3, <1>5, <2>1, <3>1, <3>5
    <3>6. QED
      BY <3>3, <3>4, <3>5
  <2>7. QED
    BY <2>6 DEF BlockCounts

<1>10. FreeAhead'
  <2>1. \A x \in Block, y \in Page, z \in Ofs :
          status[<<x, y, z>>] = "FREE" => status'[<<x, y, z>>] = "FREE"
    BY <1>2, <1>3, <1>5 DEF Slot
  <2>2. QED
    BY <1>3, <2>1 DEF Core, FreeAhead
<1>11. Target'
  BY <1>3 DEF Core, Target
<1>12. b \notin freeB /\ b \notin dirtB /\ b # gc[ChipOf[b]]
  <2>1. b \notin dirtB /\ b # gc[ChipOf[b]]
    BY <1>1, <1>2 DEF Core, EraseSafe
  <2>2. ASSUME b \in freeB PROVE FALSE
    <3>1. nrFree[b] = NumPages
      BY <2>2 DEF Core, Lists
    <3>2. p >= NumPages - nrFree[b]
      BY <1>2, <3>1, FtlAssumption DEF Page
    <3>3. status[<<b, p, o>>] # "FREE"
      BY <1>1, <1>2
    <3>4. pc = "map" /\ b = blk
      BY <1>2, <3>1, <3>2, <3>3, FtlAssumption DEF Core, FreeAhead
    <3>5. act[ChipOf[b]] = b /\ ChipOf[b] \in Chip /\ b # Null
      BY <1>2, <3>4, FtlAssumption DEF Core, Target
    <3>6. QED
      BY <2>2, <3>5 DEF Core, ActiveBlocks, Listed
  <2>3. QED
    BY <2>1, <2>2
<1>13. CASE UNCHANGED <<lists, gc>>
  <2>1. EraseSafe'
    BY <1>3, <1>5, <1>13 DEF Core, EraseSafe, lists
  <2>2. ActiveBlocks' /\ GcBlocks' /\ Lists'
    BY <1>3, <1>13 DEF Core, ActiveBlocks, GcBlocks, Lists, Listed, lists
  <2>3. QED
    BY <1>6, <1>7, <1>9, <1>10, <1>11, <2>1, <2>2 DEF Core
<1>14. CASE done /\ nrInvPgs[b] + 1 = NumPages /\ RetireBlock(b)
  <2>1. \A y \in Page, z \in Ofs : status'[<<b, y, z>>] = "INVALID"
    <3>1. Cardinality(InvalidPages(b)') <= NumPages
      BY Sizes, FS_Subset DEF InvalidPages
    <3>2. nrInvPgs'[b] = NumPages
      BY <1>2, <1>3, <1>5, <1>14
    <3>3. NumPages <= Cardinality(InvalidPages(b)')
      BY <1>2, <1>9, <3>2 DEF BlockCounts
    <3>4. Cardinality(InvalidPages(b)') \in Nat
      <4>1. IsFiniteSet(InvalidPages(b)')
        BY Sizes, FS_Subset DEF InvalidPages
      <4>2. QED
        BY <4>1, FS_CardinalityType
    <3>5. InvalidPages(b)' = Page
      BY <3>1, <3>3, <3>4, Sizes, FS_Subset, FtlAssumption DEF InvalidPages
    <3>6. \A y \in Page : Cardinality(InvalidOfs(b, y)') = NumLps
      BY <1>2, <1>7, <3>5 DEF PageCounts, InvalidPages, FullyInvalid
    <3>7. \A y \in Page : InvalidOfs(b, y)' = Ofs
      BY <3>6, Sizes, FS_Subset DEF InvalidOfs
    <3>8. QED
      BY <3>7 DEF InvalidOfs
  <2>2. \A c \in Chip : act[c] # b
    <3> SUFFICES ASSUME NEW c \in Chip, act[c] = b PROVE FALSE
      OBVIOUS
    <3>1. nrFree[b] > 0 /\ nrFree[b] \in 0 .. NumPages
      BY <1>2, FtlAssumption DEF Core, ActiveBlocks, FreeAhead
    <3> DEFINE first == NumPages - nrFree[b]
               last == NumLps - 1
    <3>2. first \in Page /\ last \in Ofs
      BY <3>1, FtlAssumption DEF Page, Ofs
    <3>3. ~(last < ofs)
      BY FtlAssumption DEF TypeOK, CallType, Ofs
    <3>4. status[<<b, first, last>>] = "FREE"
      <4>1. first >= NumPages - nrFree[b]
        BY <3>1, FtlAssumption
      <4> HIDE DEF first, last
      <4>2. QED
        BY <1>2, <3>2, <3>3, <4>1 DEF Core, FreeAhead
    <3>5. status'[<<b, first, last>>] = "FREE"
      BY <1>2, <1>3, <1>5, <3>2, <3>4 DEF Slot
    <3>6. QED
      BY <2>1, <3>2, <3>5
  <2>3. b \in usedB
    BY <1>2, <1>12, <2>2, FtlAssumption DEF Core, Lists, Listed
  <2>4. ChipOf[b] \in Chip /\ b # Null /\ gc \in [Chip -> BlockOrNull]
    BY <1>2, FtlAssumption DEF TypeOK, ListType
  <2>5. EraseSafe'
    <3> SUFFICES ASSUME NEW t \in Slot, t[1] \in dirtB' \/ t[1] = gc'[ChipOf[t[1]]]
                 PROVE  status'[t] # "VALID"
      BY DEF EraseSafe
    <3>1. t[1] \in Block /\ t[2] \in Page /\ t[3] \in Ofs /\ t = <<t[1], t[2], t[3]>>
      BY DEF Slot
    <3>2. CASE t[1] = b
      BY <2>1, <3>1, <3>2
    <3>3. CASE t[1] # b
      <4>1. t[1] \in dirtB \/ t[1] = gc[ChipOf[t[1]]]
        BY <1>14, <2>4, <3>1, <3>3, FtlAssumption DEF RetireBlock
      <4>2. QED
        BY <1>3, <1>5, <4>1 DEF Core, EraseSafe
    <3>4. QED
      BY <3>2, <3>3
  <2>6. ActiveBlocks'
    BY <1>3, <1>12, <1>14, <2>2, <2>3, <2>4 DEF Core, ActiveBlocks, Listed, RetireBlock
  <2>7. GcBlocks'
    BY <1>12, <1>14, <2>3, <2>4 DEF Core, GcBlocks, Lists, Listed, RetireBlock
  <2>8. Lists'
    BY <1>3, <1>12, <1>14, <2>3, <2>4, FtlAssumption DEF Core, Lists, Listed, RetireBlock
  <2>9. QED
    BY <1>6, <1>7, <1>9, <1>10, <1>11, <2>5, <2>6, <2>7, <2>8 DEF Core
<1>15. QED
  BY <1>4, <1>13, <1>14
LEMMA InvalidateStep ==
  ASSUME IInv, NEW l \in Lpa, Invalidate(l)
  PROVE  IInv'
<1>1. TypeOK /\ Core /\ pc = "idle" /\ pc' = "idle"
  BY DEF IInv, Invalidate
<1>2. GcmType' /\ CallType'
  BY <1>1 DEF Invalidate, TypeOK, GcmType, CallType, gcm, loops, target, call
<1>3. EnvType'
  <2>1. disk' \in [Lpa -> Data \union {Unmapped}]
    BY <1>1 DEF Invalidate, TypeOK, EnvType
  <2>2. QED
    BY <1>1, <2>1, Zenon DEF Invalidate, TypeOK, EnvType, call
<1>4. Victims'
  BY <1>1 DEF Victims
<1>5. CASE UNCHANGED <<flash, lists, gc, l2p>>
  <2>1. Quiet /\ mru' \in Chip
    BY <1>1, <1>5 DEF Invalidate, Quiet, InMap, TypeOK, ListType
  <2>2. QED
    BY <1>2, <1>3, <1>4, <2>1, QuietStep
<1>6. CASE l2p[l] # Unmapped /\ invalidate_lpg(l)
  <2>1. UNCHANGED <<act, mru, pc, job, blk, pg, ofs>>
    BY DEF Invalidate, target
  <2>2. FlashType' /\ ListType'
    BY <1>1, <1>6, <2>1, InvalidateType
  <2>3. Core'
    BY <1>1, <1>6, <2>1, InvalidateCore
  <2>4. QED
    BY <1>2, <1>3, <1>4, <2>2, <2>3 DEF IInv, TypeOK
<1>7. QED
  BY <1>5, <1>6 DEF Invalidate

LEMMA NewLpaType ==
  ASSUME TypeOK, Target, pc = "map", ~Bad
  PROVE  /\ NewLpa \in Lpa \union {Unmapped}
         /\ NewData \in Content
<1>1. CASE job = "host"
  BY <1>1 DEF TypeOK, CallType, NewLpa, NewData, Content
<1>2. CASE job = "copy"
  BY <1>2 DEF TypeOK, GcmType, NewLpa, NewData, Bad, Content
<1>3. QED
  BY <1>1, <1>2 DEF Target

LEMMA MapInvalidateStep == IInv /\ MapInvalidate => IInv'
<1> SUFFICES ASSUME IInv, MapInvalidate PROVE IInv'
  OBVIOUS
<1>1. TypeOK /\ Core /\ pc = "map" /\ UNCHANGED <<act, mru, pc, job, blk, pg, ofs>>
  BY DEF IInv, MapInvalidate, target
<1>2. NewLpa \in Lpa /\ l2p[NewLpa] # Unmapped /\ invalidate_lpg(NewLpa)
  BY <1>1, NewLpaType DEF MapInvalidate, Mapped, Core
<1>3. FlashType' /\ ListType'
  BY <1>1, <1>2, InvalidateType
<1>4. Core'
  BY <1>1, <1>2, InvalidateCore
<1>5. GcmType' /\ CallType'
  BY <1>1 DEF MapInvalidate, TypeOK, GcmType, CallType, gcm, loops, target, call
<1>6. EnvType'
  BY <1>1, Zenon DEF MapInvalidate, TypeOK, EnvType, call, env
<1>7. Victims'
  BY <1>1 DEF Victims
<1>8. QED
  BY <1>3, <1>4, <1>5, <1>6, <1>7 DEF IInv, TypeOK

----------------------------------------------------------------------------
(* Programming.                                                            *)

(* The page alloc_new_page hands out is the first free one of a block that *)
(* is active from then on.                                                 *)
LEMMA AllocCore ==
  ASSUME TypeOK, Core, NEW c \in Chip, NEW j \in {"host", "copy"}, alloc_new_page(c, j),
         UNCHANGED <<flash, usedB, dirtB, l2p, gc, mru>>, pc \notin {"map", "update_act_blk", "crashed"}
  PROVE  /\ Core' /\ FlashType' /\ ListType'
         /\ pc' = "map" /\ job' = j /\ blk' \in Block /\ pg' \in Page /\ ofs' \in Ofs
<1>1. PICK b \in Block :
        /\ \/ act[c] = b /\ UNCHANGED <<act, freeB>>
           \/ /\ act[c] = Null /\ b \in On(freeB, c)
              /\ act' = [act EXCEPT ![c] = b] /\ freeB' = freeB \ {b}
        /\ job' = j /\ blk' = b /\ pg' = NumPages - nrFree[b] /\ ofs' = 0
        /\ pc' = "map"
  BY DEF alloc_new_page
<1>2. nrFree[b] \in 0 .. NumPages /\ nrFree[b] > 0 /\ ChipOf[b] = c
  <2>1. CASE act[c] = b
    BY <2>1, FtlAssumption DEF Core, FreeAhead, ActiveBlocks
  <2>2. CASE b \in On(freeB, c)
    <3>1. nrFree[b] = NumPages /\ ChipOf[b] = c
      BY <2>2 DEF Core, Lists, On
    <3>2. QED
      BY <3>1, FtlAssumption
  <2>3. QED
    BY <1>1, <2>1, <2>2
<1>3. pg' \in Page /\ ofs' \in Ofs
  BY <1>1, <1>2, FtlAssumption DEF Page, Ofs
<1>4. FlashType' /\ ListType'
  BY <1>1 DEF TypeOK, FlashType, ListType, flash, BlockOrNull
<1> USE DEF flash
<1>5. MapInv' /\ EraseSafe'
  BY DEF Core, MapInv, EraseSafe
<1>6. PageCounts' /\ BlockCounts'
  BY DEF Core, PageCounts, BlockCounts, InvalidOfs, InvalidPages, FullyInvalid
<1>7. FreeAhead'
  BY DEF Core, FreeAhead
<1>8. act' \in [Chip -> BlockOrNull] /\ act'[c] = b
  BY <1>1, <1>4 DEF TypeOK, ListType
<1>9. Target'
  BY <1>1, <1>2, <1>8 DEF Target
<1>10. ActiveBlocks' /\ GcBlocks' /\ Lists'
  <2>1. CASE act[c] = b /\ UNCHANGED <<act, freeB>>
    BY <1>1, <2>1 DEF Core, ActiveBlocks, GcBlocks, Lists, Listed
  <2>2. CASE /\ act[c] = Null /\ b \in On(freeB, c)
             /\ act' = [act EXCEPT ![c] = b] /\ freeB' = freeB \ {b}
    <3>1. b \in freeB /\ b \notin usedB /\ b \notin dirtB /\ b # gc[c] /\ b # Null
      BY <2>2, FtlAssumption DEF Core, Lists, GcBlocks, Listed, On
    <3>2. ActiveBlocks'
      BY <1>1, <1>2, <2>2, <3>1 DEF Core, ActiveBlocks, Listed, TypeOK, ListType
    <3>3. GcBlocks'
      BY <2>2 DEF Core, GcBlocks, Listed
    <3>4. Lists'
      BY <1>2, <2>2, <3>1, FtlAssumption DEF Core, Lists, Listed, TypeOK, ListType
    <3>5. QED
      BY <3>2, <3>3, <3>4
  <2>3. QED
    BY <1>1, <2>1, <2>2
<1>11. QED
  BY <1>1, <1>3, <1>4, <1>5, <1>6, <1>7, <1>9, <1>10 DEF Core

LEMMA WriteAllocStep == IInv /\ WriteAlloc => IInv'
<1> SUFFICES ASSUME IInv, WriteAlloc PROVE IInv'
  OBVIOUS
<1> DEFINE c == get_next_bus_chip
<1>1. TypeOK /\ Core /\ pc = "alloc" /\ c \in Chip
  BY NextChip DEF IInv, WriteAlloc
<1>2. CASE alloc_new_page(c, "host") /\ UNCHANGED <<gcm, loops, call, env>>
  <2>1. /\ Core' /\ FlashType' /\ ListType'
        /\ pc' = "map" /\ job' = "host" /\ blk' \in Block /\ pg' \in Page /\ ofs' \in Ofs
    BY <1>1, <1>2, AllocCore DEF WriteAlloc
  <2>2. GcmType' /\ CallType'
    BY <1>1, <1>2, <2>1 DEF TypeOK, GcmType, CallType, gcm, loops, call, Pc, BlockOrNull
  <2>3. EnvType'
    BY <1>1, <1>2, Zenon DEF TypeOK, EnvType, call, env
  <2>4. QED
    BY <2>1, <2>2, <2>3 DEF IInv, TypeOK, Victims
<1>3. CASE /\ retried' = TRUE /\ trigger_gc_page_mapping
           /\ UNCHANGED <<act, freeB, target, op, wl, wd, env>>
  <2>1. pc' = "prepare_act_blks"
    BY <1>3 DEF trigger_gc_page_mapping
  <2>2. GcmType' /\ CallType'
    BY <1>1, <1>3, TriggerType DEF TypeOK, CallType
  <2>3. EnvType'
    BY <1>1, <1>3, Zenon DEF TypeOK, EnvType, env
  <2>4. Quiet /\ mru' \in Chip
    BY <1>1, <1>3, <2>1 DEF WriteAlloc, Quiet, InMap, lists, TypeOK, ListType
  <2>5. QED
    BY <2>1, <2>2, <2>3, <2>4, QuietStep DEF Victims
<1>4. CASE Fail /\ UNCHANGED <<act, freeB, gcm>>
  <2>1. CallType' /\ EnvType' /\ pc' = "idle"
    BY <1>1, <1>4, FailType
  <2>2. Quiet /\ mru' \in Chip
    BY <1>1, <1>4, <2>1 DEF WriteAlloc, Quiet, InMap, lists, TypeOK, ListType
  <2>3. GcmType'
    BY <1>1, <1>4 DEF TypeOK, GcmType, gcm
  <2>4. QED
    BY <2>1, <2>2, <2>3, QuietStep DEF Victims
<1>5. QED
  BY <1>2, <1>3, <1>4 DEF WriteAlloc
LEMMA ProgStep == IInv /\ prog_valid_pgs_to_gc_blks => IInv'
<1> SUFFICES ASSUME IInv, prog_valid_pgs_to_gc_blks PROVE IInv'
  OBVIOUS
<1> DEFINE c == get_next_bus_chip
<1>1. TypeOK /\ Core /\ pc = "prog" /\ c \in Chip /\ 0 \in Chip
  BY NextChip, FtlAssumption DEF IInv, prog_valid_pgs_to_gc_blks, Chip
<1>2. CASE /\ pc' = "update_gc_blks" /\ i' = 0
           /\ UNCHANGED <<act, freeB, lpas, rp, lpos, dpos, pos, Rest>>
  <2>1. CallType' /\ EnvType'
    BY <1>1, <1>2, LoopTyped DEF Pc
  <2>2. Quiet /\ mru' \in Chip
    BY <1>1, <1>2 DEF prog_valid_pgs_to_gc_blks, Quiet, InMap, lists, TypeOK, ListType
  <2>3. GcmType'
    BY <1>1, <1>2 DEF prog_valid_pgs_to_gc_blks, TypeOK, GcmType
  <2>4. QED
    BY <1>2, <2>1, <2>2, <2>3, QuietStep DEF Victims
<1>3. CASE /\ alloc_new_page(c, "copy")
           /\ lpas' = [k \in CopyIdx |-> IF k >= nrToCopy /\ k < pos + NumLps
                                         THEN Unmapped ELSE lpas[k]]
           /\ UNCHANGED <<loops, call, env>>
  <2>1. /\ Core' /\ FlashType' /\ ListType'
        /\ pc' = "map" /\ job' = "copy" /\ blk' \in Block /\ pg' \in Page /\ ofs' \in Ofs
    BY <1>1, <1>3, AllocCore DEF prog_valid_pgs_to_gc_blks
  <2>2. GcmType'
    BY <1>1, <1>3 DEF prog_valid_pgs_to_gc_blks, TypeOK, GcmType
  <2>3. CallType'
    BY <1>1, <1>3, <2>1 DEF TypeOK, CallType, loops, call, Pc, BlockOrNull
  <2>4. EnvType'
    BY <1>1, <1>3, Zenon DEF TypeOK, EnvType, call, env
  <2>5. QED
    BY <2>1, <2>2, <2>3, <2>4 DEF IInv, TypeOK, Victims
<1>4. CASE Fail /\ UNCHANGED <<act, freeB, lpas>>
  <2>1. CallType' /\ EnvType' /\ pc' = "idle"
    BY <1>1, <1>4, FailType
  <2>2. Quiet /\ mru' \in Chip
    BY <1>1, <1>4, <2>1 DEF prog_valid_pgs_to_gc_blks, Quiet, InMap, lists, TypeOK, ListType
  <2>3. GcmType'
    BY <1>1, <1>4 DEF prog_valid_pgs_to_gc_blks, TypeOK, GcmType
  <2>4. QED
    BY <2>1, <2>2, <2>3, QuietStep DEF Victims
<1>5. QED
  BY <1>2, <1>3, <1>4 DEF prog_valid_pgs_to_gc_blks

(* Mapping an offset: a free slot becomes valid, for an LPA that was not    *)
(* mapped, or invalid.                                                      *)
LEMMA MapLpStep == IInv /\ MapLp => IInv'
<1> SUFFICES ASSUME IInv, MapLp PROVE IInv'
  OBVIOUS
<1> DEFINE s == <<blk, pg, ofs>>
<1>1. TypeOK /\ Core /\ pc = "map"
  BY DEF IInv, MapLp
<1>2. /\ blk \in Block /\ pg \in Page /\ ofs \in Ofs /\ act[ChipOf[blk]] = blk
      /\ ChipOf[blk] \in Chip /\ blk # Null
      /\ nrFree[blk] \in 0 .. NumPages /\ nrFree[blk] > 0 /\ pg = NumPages - nrFree[blk]
      /\ job \in {"host", "copy"}
  BY <1>1, FtlAssumption DEF Core, Target, FreeAhead, TypeOK, CallType
<1>3. NewLpa \in Lpa \union {Unmapped} /\ NewData \in Content
  BY <1>1, NewLpaType DEF MapLp, Core
<1>4. s \in Slot /\ status[s] = "FREE"
  <2>1. ~(ofs < ofs) /\ pg >= NumPages - nrFree[blk]
    BY <1>2, FtlAssumption DEF Ofs
  <2>2. QED
    BY <1>1, <1>2, <2>1 DEF Core, FreeAhead, Slot
<1>5. /\ owner' = [owner EXCEPT ![s] = NewLpa]
      /\ store' = [store EXCEPT ![s] = NewData]
      /\ \/ /\ NewLpa # Unmapped /\ l2p[NewLpa] = Unmapped
            /\ status' = [status EXCEPT ![s] = "VALID"]
            /\ nrValLps' = [nrValLps EXCEPT ![blk] = @ + 1]
            /\ l2p' = [l2p EXCEPT ![NewLpa] = s]
            /\ UNCHANGED <<pgInv, nrInvLps>>
         \/ /\ NewLpa = Unmapped
            /\ status' = [status EXCEPT ![s] = "INVALID"]
            /\ nrInvLps' = [nrInvLps EXCEPT ![blk] = @ + 1]
            /\ pgInv' = [pgInv EXCEPT ![<<blk, pg>>] = @ + 1]
            /\ UNCHANGED <<nrValLps, l2p>>
  BY DEF MapLp, Mapped, Fill, Pad
<1>6. \/ ofs + 1 < NumLps /\ ofs' = ofs + 1 /\ UNCHANGED <<pc, nrFree>>
      \/ /\ ofs + 1 = NumLps /\ nrFree' = [nrFree EXCEPT ![blk] = @ - 1]
         /\ pc' = "update_act_blk" /\ ofs' = ofs
  BY DEF MapLp
<1>7. UNCHANGED <<nrInvPgs, lists, act, gc, mru, gcm, loops, job, blk, pg, call, env>>
  BY DEF MapLp
<1>8. /\ status \in [Slot -> Status] /\ owner \in [Slot -> Lpa \union {Unmapped, Wild}]
      /\ store \in [Slot -> Content] /\ pgInv \in [Block \X Page -> Int]
      /\ nrFree \in [Block -> Int] /\ nrInvPgs \in [Block -> Int]
      /\ nrValLps \in [Block -> Int] /\ nrInvLps \in [Block -> Int]
      /\ l2p \in [Lpa -> Slot \union {Unmapped}] /\ <<blk, pg>> \in Block \X Page
  BY <1>1, <1>2 DEF TypeOK, FlashType, ListType
<1> HIDE DEF s
<1>9. FlashType'
  <2>1. status' \in [Slot -> Status] /\ owner' \in [Slot -> Lpa \union {Unmapped, Wild}]
    BY <1>3, <1>4, <1>5, <1>8 DEF Status
  <2>2. store' \in [Slot -> Content] /\ pgInv' \in [Block \X Page -> Int]
    BY <1>3, <1>4, <1>5, <1>8
  <2>3. nrFree' \in [Block -> Int] /\ nrInvPgs' \in [Block -> Int]
    BY <1>2, <1>6, <1>7, <1>8
  <2>4. nrValLps' \in [Block -> Int] /\ nrInvLps' \in [Block -> Int]
    BY <1>2, <1>5, <1>8
  <2>5. QED
    BY <2>1, <2>2, <2>3, <2>4 DEF FlashType
<1>10. ListType'
  <2>1. l2p' \in [Lpa -> Slot \union {Unmapped}]
    BY <1>3, <1>4, <1>5, <1>8
  <2>2. QED
    BY <1>1, <1>7, <2>1 DEF TypeOK, ListType, lists
<1>11. GcmType' /\ CallType' /\ EnvType'
  <2>1. ofs' \in Ofs /\ pc' \in {"map", "update_act_blk"}
    BY <1>1, <1>2, <1>6, FtlAssumption DEF Ofs
  <2>2. GcmType' /\ CallType'
    BY <1>1, <1>7, <2>1 DEF TypeOK, GcmType, CallType, gcm, loops, call, Pc
  <2>3. EnvType'
    BY <1>1, <1>7, Zenon DEF TypeOK, EnvType, call, env
  <2>4. QED
    BY <2>2, <2>3
<1>12. MapInv'
  <2>1. ASSUME NEW x \in Lpa, l2p'[x] # Unmapped
        PROVE  status'[l2p'[x]] = "VALID" /\ owner'[l2p'[x]] = x
    <3>1. CASE l2p'[x] = s
      <4>1. s # Unmapped /\ l2p[x] # s
        BY <1>1, <1>4, FtlAssumption DEF Core, MapInv
      <4>2. x = NewLpa /\ NewLpa # Unmapped
        BY <1>3, <1>5, <1>8, <2>1, <3>1, <4>1
      <4>3. QED
        BY <1>4, <1>5, <1>8, <3>1, <4>2
    <3>2. CASE l2p'[x] # s
      <4>1. l2p[x] = l2p'[x] /\ l2p[x] \in Slot
        BY <1>3, <1>5, <1>8, <2>1, <3>2
      <4>2. QED
        BY <1>1, <1>5, <1>8, <2>1, <3>2, <4>1 DEF Core, MapInv
    <3>3. QED
      BY <3>1, <3>2
  <2>2. ASSUME NEW t \in Slot, status'[t] = "VALID"
        PROVE  owner'[t] \in Lpa /\ l2p'[owner'[t]] = t
    <3>1. CASE t = s
      BY <1>3, <1>4, <1>5, <1>8, <2>2, <3>1
    <3>2. CASE t # s
      <4>1. status[t] = "VALID" /\ owner'[t] = owner[t]
        BY <1>4, <1>5, <1>8, <2>2, <3>2
      <4>2. owner[t] \in Lpa /\ l2p[owner[t]] = t
        BY <1>1, <4>1 DEF Core, MapInv
      <4>3. t # Unmapped
        BY FtlAssumption
      <4>4. NewLpa # Unmapped /\ l2p[NewLpa] = Unmapped => owner[t] # NewLpa
        BY <4>2, <4>3
      <4>5. l2p'[owner[t]] = t
        BY <1>3, <1>5, <1>8, <4>2, <4>4
      <4>6. QED
        BY <4>1, <4>2, <4>5
    <3>3. QED
      BY <3>1, <3>2
  <2>3. QED
    BY <2>1, <2>2 DEF MapInv
<1>13. blk \notin Listed /\ blk # gc[ChipOf[blk]]
  BY <1>1, <1>2 DEF Core, ActiveBlocks
<1>14. EraseSafe'
  <2> SUFFICES ASSUME NEW t \in Slot, t[1] \in dirtB' \/ t[1] = gc'[ChipOf[t[1]]]
               PROVE  status'[t] # "VALID"
    BY DEF EraseSafe
  <2>1. t[1] \in dirtB \/ t[1] = gc[ChipOf[t[1]]]
    BY <1>7 DEF lists
  <2>2. t # s
    BY <1>13, <2>1 DEF Listed, s
  <2>3. status[t] # "VALID"
    BY <1>1, <2>1 DEF Core, EraseSafe
  <2>4. QED
    BY <1>5, <1>8, <2>2, <2>3
<1>15. ofs \notin InvalidOfs(blk, pg)
  BY <1>4 DEF InvalidOfs, s
<1>16. PageCounts'
  <2>1. \A x \in Block, y \in Page : pgInv[<<x, y>>] = Cardinality(InvalidOfs(x, y))
    BY <1>1 DEF Core, PageCounts
  <2>2. CASE NewLpa # Unmapped
    <3>1. \A t \in Slot : status'[t] = "INVALID" <=> status[t] = "INVALID"
      BY <1>4, <1>5, <1>8, <2>2
    <3>2. \A x \in Block, y \in Page : InvalidOfs(x, y)' = InvalidOfs(x, y)
      BY <3>1 DEF InvalidOfs, Slot
    <3>3. pgInv' = pgInv
      BY <1>5, <2>2
    <3>4. QED
      BY <2>1, <3>2, <3>3 DEF PageCounts
  <2>3. CASE NewLpa = Unmapped
    <3>1. \A t \in Slot : status'[t] = "INVALID" <=> t = s \/ status[t] = "INVALID"
      BY <1>4, <1>5, <1>8, <2>3
    <3>2. \A x \in Block, y \in Page : <<x, y>> # <<blk, pg>> => InvalidOfs(x, y)' = InvalidOfs(x, y)
      BY <3>1 DEF InvalidOfs, Slot, s
    <3>3. InvalidOfs(blk, pg)' = InvalidOfs(blk, pg) \union {ofs}
      BY <1>2, <1>7, <3>1 DEF InvalidOfs, Slot, s
    <3>4. IsFiniteSet(InvalidOfs(blk, pg))
      BY Sizes, FS_Subset DEF InvalidOfs
    <3>5. Cardinality(InvalidOfs(blk, pg)') = Cardinality(InvalidOfs(blk, pg)) + 1
      BY <1>15, <3>3, <3>4, FS_AddElement
    <3>6. pgInv' = [pgInv EXCEPT ![<<blk, pg>>] = @ + 1]
      BY <1>5, <2>3
    <3>7. \A x \in Block, y \in Page : pgInv'[<<x, y>>] = Cardinality(InvalidOfs(x, y)')
      <4> TAKE x \in Block, y \in Page
      <4>1. CASE <<x, y>> = <<blk, pg>>
        BY <1>2, <1>7, <1>8, <2>1, <3>5, <3>6, <4>1
      <4>2. CASE <<x, y>> # <<blk, pg>>
        BY <1>8, <2>1, <3>2, <3>6, <4>2
      <4>3. QED
        BY <4>1, <4>2
    <3>8. QED
      BY <3>7 DEF PageCounts
  <2>4. QED
    BY <2>2, <2>3
<1>17. BlockCounts'
  <2>1. ~FullyInvalid(blk, pg)
    <3>1. InvalidOfs(blk, pg) # Ofs
      BY <1>2, <1>15
    <3>2. Cardinality(InvalidOfs(blk, pg)) # NumLps
      BY <3>1, Sizes, FS_Subset DEF InvalidOfs
    <3>3. QED
      BY <1>1, <1>2, <3>2 DEF Core, PageCounts, FullyInvalid
  <2>2. ASSUME NEW x \in Block
        PROVE  nrInvPgs'[x] <= Cardinality(InvalidPages(x)')
    <3>1. \A y \in Page : FullyInvalid(x, y) => FullyInvalid(x, y)'
      BY <1>5, <1>8, <2>1 DEF FullyInvalid
    <3>2. InvalidPages(x) \subseteq InvalidPages(x)'
      BY <3>1 DEF InvalidPages
    <3>3. IsFiniteSet(InvalidPages(x)')
      BY Sizes, FS_Subset DEF InvalidPages
    <3>4. Cardinality(InvalidPages(x)) <= Cardinality(InvalidPages(x)')
      BY <3>2, <3>3, FS_Subset
    <3>5. Cardinality(InvalidPages(x)) \in Nat /\ Cardinality(InvalidPages(x)') \in Nat
      BY <3>2, <3>3, FS_Subset, FS_CardinalityType
    <3>6. nrInvPgs'[x] = nrInvPgs[x] /\ nrInvPgs[x] \in Int
      BY <1>7, <1>8
    <3>7. nrInvPgs[x] <= Cardinality(InvalidPages(x))
      BY <1>1 DEF Core, BlockCounts
    <3>8. QED
      BY <3>4, <3>5, <3>6, <3>7
  <2>3. QED
    BY <2>2 DEF BlockCounts
<1>18. FreeAhead'
  <2>1. \A t \in Slot : t # s => status'[t] = status[t]
    BY <1>5, <1>8
  <2>2. CASE ofs' = ofs + 1 /\ UNCHANGED <<pc, nrFree>>
    <3>1. ASSUME NEW x \in Block, NEW y \in Page, NEW z \in Ofs, y >= NumPages - nrFree'[x]
          PROVE  status'[<<x, y, z>>] = "FREE" \/ (x = blk /\ y = pg /\ z < ofs')
      <4>1. status[<<x, y, z>>] = "FREE" \/ (x = blk /\ y = pg /\ z < ofs)
        BY <1>1, <2>2, <3>1 DEF Core, FreeAhead
      <4>2. CASE <<x, y, z>> = s
        <5>1. x = blk /\ y = pg /\ z = ofs /\ ofs \in Int
          BY <1>2, <4>2, FtlAssumption DEF s, Ofs
        <5>2. ofs < ofs'
          BY <2>2, <5>1
        <5>3. QED
          BY <5>1, <5>2
      <4>3. CASE <<x, y, z>> # s
        <5>1. status'[<<x, y, z>>] = status[<<x, y, z>>]
          BY <2>1, <4>3 DEF Slot
        <5>2. z < ofs => z < ofs'
          BY <1>2, <2>2, FtlAssumption DEF Ofs
        <5>3. QED
          BY <4>1, <5>1, <5>2
      <4>4. QED
        BY <4>2, <4>3
    <3>2. QED
      BY <1>1, <1>7, <2>2, <3>1 DEF Core, FreeAhead
  <2>3. CASE pc' = "update_act_blk" /\ nrFree' = [nrFree EXCEPT ![blk] = @ - 1]
    <3>1. ASSUME NEW x \in Block, NEW y \in Page, NEW z \in Ofs, y >= NumPages - nrFree'[x]
          PROVE  status'[<<x, y, z>>] = "FREE"
      <4>1. nrFree[x] \in 0 .. NumPages
        BY <1>1 DEF Core, FreeAhead
      <4>2. y >= NumPages - nrFree[x] /\ (x = blk => y # pg)
        BY <1>2, <1>8, <2>3, <3>1, <4>1, FtlAssumption DEF Page
      <4>3. status[<<x, y, z>>] = "FREE"
        BY <1>1, <4>2 DEF Core, FreeAhead
      <4>4. <<x, y, z>> # s
        BY <4>2 DEF s
      <4>5. QED
        BY <2>1, <4>3, <4>4 DEF Slot
    <3>2. \A x \in Block : nrFree'[x] \in 0 .. NumPages
      <4> TAKE x \in Block
      <4>1. nrFree[x] \in 0 .. NumPages
        BY <1>1 DEF Core, FreeAhead
      <4>2. nrFree'[x] = IF x = blk THEN nrFree[x] - 1 ELSE nrFree[x]
        BY <1>8, <2>3
      <4>3. QED
        BY <1>2, <4>1, <4>2, FtlAssumption
    <3>3. QED
      BY <3>1, <3>2 DEF FreeAhead
  <2>4. QED
    BY <1>6, <2>2, <2>3
<1>19. Target' /\ Victims'
  BY <1>1, <1>2, <1>6, <1>7 DEF Target, Victims
<1>20. ActiveBlocks'
  <2> SUFFICES ASSUME NEW c \in Chip, act[c] # Null
               PROVE  /\ ChipOf[act[c]] = c
                      /\ act[c] \notin Listed /\ act[c] # gc[c]
                      /\ nrFree'[act[c]] > 0 \/ (pc' = "update_act_blk" /\ act[c] = blk)
    BY <1>7 DEF ActiveBlocks, Listed, lists
  <2>1. /\ ChipOf[act[c]] = c /\ act[c] \notin Listed /\ act[c] # gc[c] /\ nrFree[act[c]] > 0
    BY <1>1 DEF Core, ActiveBlocks
  <2>2. act[c] \in Block
    BY <1>1 DEF TypeOK, ListType, BlockOrNull
  <2>3. QED
    BY <1>6, <1>8, <2>1, <2>2
<1>21. GcBlocks' /\ Lists'
  <2>1. \A b \in freeB : nrFree'[b] = NumPages
    <3>1. \A b \in freeB : b # blk /\ b \in Block /\ nrFree[b] = NumPages
      BY <1>1, <1>13 DEF Core, Lists, Listed, TypeOK, ListType
    <3>2. QED
      BY <1>6, <1>8, <3>1
  <2>2. QED
    BY <1>1, <1>7, <2>1 DEF Core, GcBlocks, Lists, Listed, lists
<1>22. QED
  BY <1>9, <1>10, <1>11, <1>12, <1>14, <1>16, <1>17, <1>18, <1>19, <1>20, <1>21
     DEF IInv, Core, TypeOK

----------------------------------------------------------------------------
(* Erasing.                                                                *)

(* An erased block that held no valid page leaves the table and the        *)
(* counters right.                                                         *)
LEMMA EraseFlash ==
  ASSUME TypeOK, Core, NEW b \in Block, Erase(b), UNCHANGED l2p,
         \A t \in Slot : t[1] = b => status[t] # "VALID",
         pc \notin {"map", "update_act_blk", "crashed"}
  PROVE  /\ FlashType' /\ MapInv' /\ PageCounts' /\ BlockCounts' /\ FreeAhead'
         /\ \A t \in Slot : status'[t] = IF t[1] = b THEN "FREE" ELSE status[t]
         /\ \A x \in Block : nrFree'[x] = IF x = b THEN NumPages ELSE nrFree[x]
<1>1. /\ \A t \in Slot : status'[t] = IF t[1] = b THEN "FREE" ELSE status[t]
      /\ \A t \in Slot : t[1] # b => owner'[t] = owner[t]
      /\ \A x \in Block, y \in Page : pgInv'[<<x, y>>] = IF x = b THEN 0 ELSE pgInv[<<x, y>>]
  BY DEF Erase
<1>2. \A x \in Block, y \in Page, z \in Ofs :
        status'[<<x, y, z>>] = IF x = b THEN "FREE" ELSE status[<<x, y, z>>]
  BY DEF Erase, Slot
<1>3. /\ \A x \in Block : nrFree'[x] = IF x = b THEN NumPages ELSE nrFree[x]
      /\ \A x \in Block : nrInvPgs'[x] = IF x = b THEN 0 ELSE nrInvPgs[x]
  BY DEF Erase, TypeOK, FlashType
<1>4. FlashType'
  BY FtlAssumption DEF Erase, TypeOK, FlashType, Status, Content
<1>5. MapInv'
  <2>1. ASSUME NEW x \in Lpa, l2p[x] # Unmapped
        PROVE  status'[l2p[x]] = "VALID" /\ owner'[l2p[x]] = x
    <3>1. l2p[x] \in Slot
      BY <2>1 DEF TypeOK, ListType
    <3>2. status[l2p[x]] = "VALID" /\ owner[l2p[x]] = x
      BY <2>1 DEF Core, MapInv
    <3>3. QED
      BY <1>1, <3>1, <3>2
  <2>2. ASSUME NEW t \in Slot, status'[t] = "VALID"
        PROVE  owner'[t] \in Lpa /\ l2p[owner'[t]] = t
    BY <1>1, <2>2 DEF Core, MapInv
  <2>3. QED
    BY <2>1, <2>2 DEF MapInv
<1>6. PageCounts'
  <2> SUFFICES ASSUME NEW x \in Block, NEW y \in Page
               PROVE  pgInv'[<<x, y>>] = Cardinality(InvalidOfs(x, y)')
    BY DEF PageCounts
  <2>1. CASE x = b
    <3>1. InvalidOfs(x, y)' = {}
      BY <1>2, <2>1 DEF InvalidOfs
    <3>2. QED
      BY <1>1, <2>1, <3>1, FS_EmptySet
  <2>2. CASE x # b
    <3>1. InvalidOfs(x, y)' = InvalidOfs(x, y)
      BY <1>2, <2>2 DEF InvalidOfs
    <3>2. QED
      BY <1>1, <2>2, <3>1 DEF Core, PageCounts
  <2>3. QED
    BY <2>1, <2>2
<1>7. BlockCounts'
  <2> SUFFICES ASSUME NEW x \in Block
               PROVE  nrInvPgs'[x] <= Cardinality(InvalidPages(x)')
    BY DEF BlockCounts
  <2>1. CASE x = b
    <3>1. Cardinality(InvalidPages(x)') \in Nat
      BY Sizes, FS_Subset, FS_CardinalityType DEF InvalidPages
    <3>2. QED
      BY <1>3, <2>1, <3>1
  <2>2. CASE x # b
    <3>1. InvalidPages(x)' = InvalidPages(x)
      BY <1>1, <2>2 DEF InvalidPages, FullyInvalid
    <3>2. QED
      BY <1>3, <2>2, <3>1 DEF Core, BlockCounts
  <2>3. QED
    BY <2>1, <2>2
<1>8. FreeAhead'
  <2> SUFFICES ASSUME NEW x \in Block
               PROVE  /\ nrFree'[x] \in 0 .. NumPages
                      /\ \A y \in Page, z \in Ofs :
                           y >= NumPages - nrFree'[x] => status'[<<x, y, z>>] = "FREE"
    BY DEF FreeAhead
  <2>1. CASE x = b
    <3>1. nrFree'[x] \in 0 .. NumPages
      <4>1. nrFree'[x] = NumPages /\ NumPages \in Nat
        BY <1>3, <2>1, FtlAssumption
      <4>2. QED
        BY <4>1
    <3>2. \A y \in Page, z \in Ofs : status'[<<x, y, z>>] = "FREE"
      BY <1>2, <2>1
    <3>3. QED
      BY <3>1, <3>2
  <2>2. CASE x # b
    <3>1. /\ nrFree[x] \in 0 .. NumPages
          /\ \A y \in Page, z \in Ofs :
               y >= NumPages - nrFree[x] => status[<<x, y, z>>] = "FREE"
      BY DEF Core, FreeAhead
    <3>2. nrFree'[x] = nrFree[x] /\ \A y \in Page, z \in Ofs : status'[<<x, y, z>>] = status[<<x, y, z>>]
      BY <1>2, <1>3, <2>2
    <3>3. QED
      BY <3>1, <3>2
  <2>3. QED
    BY <2>1, <2>2
<1>9. QED
  BY <1>1, <1>3, <1>4, <1>5, <1>6, <1>7, <1>8

(* The GC block of a chip goes to the active block or to the free list, and *)
(* a dirt block, or none, takes its place.                                  *)
Replaced(c) ==
  \/ gc' = [gc EXCEPT ![c] = Null] /\ dirtB' = dirtB
  \/ \E d \in On(dirtB, c) : gc' = [gc EXCEPT ![c] = d] /\ dirtB' = dirtB \ {d}

LEMMA EraseCore ==
  ASSUME TypeOK, Core, NEW c \in Chip, gc[c] # Null, Erase(gc[c]), UNCHANGED <<l2p, usedB>>,
         pc \notin {"map", "update_act_blk", "crashed"},
         pc' \notin {"map", "update_act_blk", "crashed"},
         mru' \in Chip,
         \/ act[c] = Null /\ act' = [act EXCEPT ![c] = gc[c]] /\ freeB' = freeB
         \/ act[c] # Null /\ freeB' = freeB \union {gc[c]} /\ act' = act,
         Replaced(c)
  PROVE  Core' /\ FlashType' /\ ListType'
<1> DEFINE b == gc[c]
<1>1. /\ act \in [Chip -> BlockOrNull] /\ gc \in [Chip -> BlockOrNull]
      /\ freeB \in SUBSET Block /\ usedB \in SUBSET Block /\ dirtB \in SUBSET Block
  BY DEF TypeOK, ListType
<1>2. b \in Block /\ ChipOf[b] = c /\ b \notin Listed /\ b # Null
  BY <1>1 DEF BlockOrNull, Core, GcBlocks
<1>3. \A t \in Slot : t[1] = b => status[t] # "VALID"
  BY <1>2 DEF Core, EraseSafe
<1>4. /\ FlashType' /\ MapInv' /\ PageCounts' /\ BlockCounts' /\ FreeAhead'
      /\ \A t \in Slot : status'[t] = IF t[1] = b THEN "FREE" ELSE status[t]
      /\ \A x \in Block : nrFree'[x] = IF x = b THEN NumPages ELSE nrFree[x]
  BY <1>2, <1>3, EraseFlash
<1>5. \/ act[c] = Null /\ act' = [act EXCEPT ![c] = b] /\ freeB' = freeB
      \/ act[c] # Null /\ freeB' = freeB \union {b} /\ act' = act
  OBVIOUS
<1> HIDE DEF b
<1>6. PICK d \in BlockOrNull :
        /\ gc' = [gc EXCEPT ![c] = d]
        /\ \/ d = Null /\ dirtB' = dirtB
           \/ d \in dirtB /\ ChipOf[d] = c /\ d # Null /\ dirtB' = dirtB \ {d}
  BY <1>1, FtlAssumption DEF Replaced, On, BlockOrNull
<1>7. ListType'
  BY <1>1, <1>2, <1>5, <1>6 DEF TypeOK, ListType, BlockOrNull
<1>8. EraseSafe'
  <2> SUFFICES ASSUME NEW t \in Slot, t[1] \in dirtB' \/ t[1] = gc'[ChipOf[t[1]]]
               PROVE  status'[t] # "VALID"
    BY DEF EraseSafe
  <2>1. t[1] \in Block /\ ChipOf[t[1]] \in Chip
    BY FtlAssumption DEF Slot
  <2>2. t[1] \in dirtB \/ t[1] = gc[ChipOf[t[1]]]
    BY <1>1, <1>6, <2>1, FtlAssumption
  <2>3. status[t] # "VALID"
    BY <2>2 DEF Core, EraseSafe
  <2>4. QED
    BY <1>4, <2>3
<1>9. ActiveBlocks'
  <2> SUFFICES ASSUME NEW x \in Chip, act'[x] # Null
               PROVE  /\ ChipOf[act'[x]] = x
                      /\ act'[x] \notin Listed' /\ act'[x] # gc'[x]
                      /\ nrFree'[act'[x]] > 0
    BY DEF ActiveBlocks
  <2>1. CASE act'[x] = act[x]
    <3>1. /\ act[x] \in Block /\ ChipOf[act[x]] = x /\ act[x] \notin Listed
          /\ act[x] # gc[x] /\ nrFree[act[x]] > 0
      BY <1>1, <2>1 DEF BlockOrNull, Core, ActiveBlocks
    <3>2. act[x] # b
      BY <1>2, <3>1 DEF b
    <3>3. act[x] \notin Listed'
      BY <1>5, <1>6, <3>1, <3>2 DEF Listed
    <3>4. act[x] # gc'[x]
      BY <1>1, <1>6, <2>1, <3>1 DEF Listed
    <3>5. QED
      BY <1>4, <2>1, <3>1, <3>2, <3>3, <3>4
  <2>2. CASE act'[x] # act[x]
    <3>1. x = c /\ act'[x] = b /\ freeB' = freeB
      BY <1>1, <1>5, <2>2
    <3>2. b \notin Listed' /\ b # gc'[c]
      BY <1>1, <1>2, <1>6, <3>1 DEF Listed
    <3>3. QED
      BY <1>2, <1>4, <3>1, <3>2, FtlAssumption
  <2>3. QED
    BY <2>1, <2>2
<1>10. GcBlocks'
  <2> SUFFICES ASSUME NEW x \in Chip, gc'[x] # Null
               PROVE  ChipOf[gc'[x]] = x /\ gc'[x] \notin Listed'
    BY DEF GcBlocks
  <2>1. CASE x = c
    <3>1. d = gc'[x] /\ d \in dirtB /\ ChipOf[d] = c /\ dirtB' = dirtB \ {d}
      BY <1>1, <1>6, <2>1
    <3>2. d \notin freeB /\ d \notin usedB /\ d # b
      BY <1>2, <3>1 DEF Core, Lists, Listed
    <3>3. QED
      BY <1>5, <2>1, <3>1, <3>2 DEF Listed
  <2>2. CASE x # c
    <3>1. gc'[x] = gc[x] /\ ChipOf[gc[x]] = x /\ gc[x] \notin Listed
      BY <1>1, <1>6, <2>2 DEF Core, GcBlocks
    <3>2. gc[x] # b
      BY <1>2, <2>2, <3>1
    <3>3. QED
      BY <1>5, <1>6, <3>1, <3>2 DEF Listed
  <2>3. QED
    BY <2>1, <2>2
<1>11. Lists'
  <2>1. /\ freeB \intersect usedB = {} /\ freeB \intersect dirtB = {}
        /\ usedB \intersect dirtB = {}
        /\ \A x \in freeB : nrFree[x] = NumPages
        /\ \A x \in Block : x \in Listed \/ x = act[ChipOf[x]] \/ x = gc[ChipOf[x]]
    BY DEF Core, Lists
  <2>2. /\ freeB' \intersect usedB' = {} /\ freeB' \intersect dirtB' = {}
        /\ usedB' \intersect dirtB' = {}
    BY <1>2, <1>5, <1>6, <2>1 DEF Listed
  <2>3. \A x \in freeB' : nrFree'[x] = NumPages
    BY <1>1, <1>2, <1>4, <1>5, <2>1
  <2>4. ASSUME NEW x \in Block
        PROVE  x \in Listed' \/ x = act'[ChipOf[x]] \/ x = gc'[ChipOf[x]]
    <3>1. ChipOf[x] \in Chip
      BY FtlAssumption
    <3>2. CASE x = b
      <4>1. x \in freeB' \/ act'[c] = x
        BY <1>1, <1>5, <3>2
      <4>2. QED
        BY <1>2, <3>2, <4>1 DEF Listed
    <3>3. CASE x # b
      <4>1. CASE x \in dirtB
        BY <1>1, <1>6, <4>1 DEF Listed
      <4>2. CASE x \in freeB \union usedB
        BY <1>5, <4>2 DEF Listed
      <4>3. CASE x = act[ChipOf[x]]
        <5>1. x # Null
          BY FtlAssumption
        <5>2. QED
          BY <1>1, <1>5, <3>1, <4>3, <5>1
      <4>4. CASE x = gc[ChipOf[x]]
        <5>1. ChipOf[x] # c
          BY <3>3, <4>4 DEF b
        <5>2. QED
          BY <1>1, <1>6, <3>1, <4>4, <5>1
      <4>5. QED
        BY <2>1, <4>1, <4>2, <4>3, <4>4 DEF Listed
    <3>4. QED
      BY <3>2, <3>3
  <2>5. QED
    BY <2>2, <2>3, <2>4 DEF Lists
<1>12. Target'
  BY DEF Target
<1>13. QED
  BY <1>4, <1>7, <1>8, <1>9, <1>10, <1>11, <1>12 DEF Core

LEMMA PrepareStep == IInv /\ prepare_act_blks => IInv'
<1> SUFFICES ASSUME IInv, prepare_act_blks PROVE IInv'
  OBVIOUS
<1>1. TypeOK /\ Core /\ pc = "prepare_act_blks" /\ i \in Chip /\ mru' \in Chip
  BY DEF IInv, prepare_act_blks, TypeOK, CallType, ListType
<1>2. GcmType'
  BY <1>1 DEF prepare_act_blks, TypeOK, GcmType, gcm
<1>3. ASSUME ForEachChip("set_vic_blks"), UNCHANGED <<rp, lpos, dpos, pos, Rest>>
      PROVE  CallType' /\ EnvType' /\ Victims' /\ pc' \in {"prepare_act_blks", "set_vic_blks"}
  <2>1. /\ i' \in Chip
        /\ \/ i' = i + 1 /\ pc' = pc
           \/ i' = 0 /\ pc' = "set_vic_blks"
    BY <1>1, <1>3, FtlAssumption DEF ForEachChip, Chip
  <2>2. CallType' /\ EnvType'
    BY <1>1, <1>3, <2>1, LoopTyped DEF Pc
  <2>3. Victims'
    BY <1>1, <2>1, FtlAssumption DEF Victims, Chip
  <2>4. QED
    BY <1>1, <2>1, <2>2, <2>3
<1>4. CASE /\ ForEachChip("set_vic_blks")
           /\ UNCHANGED <<flash, act, gc, rp, lpos, dpos, pos, Rest>>
  <2>1. CallType' /\ EnvType' /\ Victims' /\ pc' \in {"prepare_act_blks", "set_vic_blks"}
    BY <1>3, <1>4
  <2>2. Quiet
    BY <1>1, <1>4, <2>1 DEF prepare_act_blks, Quiet, InMap
  <2>3. QED
    BY <1>1, <1>2, <2>1, <2>2, QuietStep
<1>5. CASE /\ act[i] = Null /\ gc[i] # Null /\ ForEachChip("set_vic_blks")
           /\ Erase(gc[i])
           /\ act' = [act EXCEPT ![i] = gc[i]]
           /\ gc' = [gc EXCEPT ![i] = Null]
           /\ UNCHANGED <<rp, lpos, dpos, pos, Rest>>
  <2>1. CallType' /\ EnvType' /\ Victims' /\ pc' \in {"prepare_act_blks", "set_vic_blks"}
    BY <1>3, <1>5
  <2>2. UNCHANGED <<l2p, usedB, freeB>> /\ Replaced(i)
    BY <1>5 DEF prepare_act_blks, lists, Replaced
  <2>3. Core' /\ FlashType' /\ ListType'
    BY <1>1, <1>5, <2>1, <2>2, EraseCore
  <2>4. QED
    BY <1>2, <2>1, <2>3 DEF IInv, TypeOK
<1>6. CASE Fail /\ UNCHANGED <<flash, act, gc>>
  <2>1. CallType' /\ EnvType' /\ pc' = "idle"
    BY <1>1, <1>6, FailType
  <2>2. Quiet
    BY <1>1, <1>6, <2>1 DEF prepare_act_blks, Quiet, InMap
  <2>3. QED
    BY <1>1, <1>2, <2>1, <2>2, QuietStep DEF Victims
<1>7. QED
  BY <1>4, <1>5, <1>6 DEF prepare_act_blks

LEMMA BgcPrepareStep == IInv /\ fb_bgc_prepare_act_blks => IInv'
<1> SUFFICES ASSUME IInv, fb_bgc_prepare_act_blks PROVE IInv'
  OBVIOUS
<1> DEFINE c == get_next_bus_chip
<1>1. TypeOK /\ Core /\ pc = "bgc_prepare" /\ c \in Chip /\ mru \in Chip
  BY NextChip DEF IInv, fb_bgc_prepare_act_blks, TypeOK, ListType
<1>2. GcmType' /\ UNCHANGED l2p
  BY <1>1 DEF fb_bgc_prepare_act_blks, TypeOK, GcmType, gcm
<1>3. CASE Fail /\ UNCHANGED <<flash, lists, act, gc, mru>>
  <2>1. CallType' /\ EnvType' /\ pc' = "idle"
    BY <1>1, <1>3, FailType
  <2>2. Quiet
    BY <1>1, <1>2, <1>3, <2>1 DEF Quiet, InMap
  <2>3. QED
    BY <1>1, <1>2, <1>3, <2>1, <2>2, QuietStep DEF Victims
<1>4. CASE /\ gc[c] # Null
           /\ Erase(gc[c])
           /\ \/ act[c] = Null /\ act' = [act EXCEPT ![c] = gc[c]] /\ freeB' = freeB
              \/ act[c] # Null /\ freeB' = freeB \union {gc[c]} /\ act' = act
           /\ Replaced(c)
           /\ mru' = c
           /\ \/ i + 1 = NumChips /\ Return
              \/ /\ i + 1 < NumChips /\ i' = i + 1
                 /\ UNCHANGED <<pc, rp, lpos, dpos, pos, Rest>>
           /\ UNCHANGED usedB
  <2>1. CallType' /\ EnvType' /\ pc' \in {"idle", "bgc_prepare"}
    <3>1. CASE Return
      BY <1>1, <3>1, ReturnType
    <3>2. CASE /\ i + 1 < NumChips /\ i' = i + 1
               /\ UNCHANGED <<pc, rp, lpos, dpos, pos, Rest>>
      <4>1. i' \in Chip /\ pc' \in Pc
        BY <1>1, <3>2, FtlAssumption DEF TypeOK, CallType, Chip, Pc
      <4>2. QED
        BY <1>1, <3>2, <4>1, LoopTyped
    <3>3. QED
      BY <1>4, <3>1, <3>2
  <2>2. Core' /\ FlashType' /\ ListType'
    BY <1>1, <1>2, <1>4, <2>1, EraseCore
  <2>3. QED
    BY <1>2, <2>1, <2>2 DEF IInv, TypeOK, Victims
<1>5. QED
  BY <1>3, <1>4 DEF fb_bgc_prepare_act_blks, Replaced

----------------------------------------------------------------------------
(* Changing the active and the GC block.                                   *)

LEMMA UpdateActBlkStep == IInv /\ UpdateActBlk => IInv'
<1> SUFFICES ASSUME IInv, UpdateActBlk PROVE IInv'
  OBVIOUS
<1> DEFINE c == ChipOf[blk]
<1>1. TypeOK /\ Core /\ pc = "update_act_blk"
  BY DEF IInv, UpdateActBlk
<1>2. /\ act \in [Chip -> BlockOrNull] /\ gc \in [Chip -> BlockOrNull]
      /\ freeB \in SUBSET Block /\ usedB \in SUBSET Block /\ dirtB \in SUBSET Block
  BY <1>1 DEF TypeOK, ListType
<1>3. /\ blk \in Block /\ c \in Chip /\ act[c] = blk /\ job \in {"host", "copy"}
      /\ blk # Null /\ blk \notin Listed /\ blk # gc[c]
  BY <1>1, FtlAssumption DEF Core, Target, ActiveBlocks
<1>4. UNCHANGED <<flash, dirtB, l2p, gc, gcm>> /\ mru' \in Chip
  BY <1>3 DEF UpdateActBlk
<1>5. CallType' /\ EnvType' /\ pc' \in {"idle", "prog"}
  <2>1. CASE Return
    BY <1>1, <2>1, ReturnType
  <2>2. CASE /\ pc' = "prog" /\ pos' = pos + NumLps
             /\ job' = "none" /\ blk' = Null /\ pg' = 0 /\ ofs' = 0
             /\ UNCHANGED <<i, rp, lpos, dpos, call, env>>
    <3>1. 0 \in Page /\ 0 \in Ofs /\ NumLps \in Int
      BY FtlAssumption DEF Page, Ofs
    <3>2. CallType'
      BY <1>1, <2>2, <3>1 DEF TypeOK, CallType, call, Pc, BlockOrNull
    <3>3. EnvType'
      BY <1>1, <2>2, Zenon DEF TypeOK, EnvType, call, env
    <3>4. QED
      BY <2>2, <3>2, <3>3
  <2>3. QED
    BY <1>3, <2>1, <2>2 DEF UpdateActBlk
<1>6. \/ nrFree[blk] > 0 /\ UNCHANGED <<act, freeB, usedB>>
      \/ /\ nrFree[blk] = 0 /\ usedB' = usedB \union {blk}
         /\ \/ On(freeB, c) = {} /\ act' = [act EXCEPT ![c] = Null] /\ freeB' = freeB
            \/ \E b \in On(freeB, c) : /\ act' = [act EXCEPT ![c] = b]
                                       /\ freeB' = freeB \ {b}
  BY DEF UpdateActBlk
<1> HIDE DEF c
<1>7. PICK n \in BlockOrNull :
        \/ n = blk /\ nrFree[blk] > 0 /\ UNCHANGED <<act, freeB, usedB>>
        \/ /\ usedB' = usedB \union {blk} /\ act' = [act EXCEPT ![c] = n]
           /\ \/ n = Null /\ freeB' = freeB
              \/ n \in freeB /\ ChipOf[n] = c /\ freeB' = freeB \ {n}
  BY <1>2, <1>3, <1>6 DEF On, BlockOrNull
<1>8. FlashType' /\ ListType' /\ GcmType'
  BY <1>1, <1>2, <1>3, <1>4, <1>7
     DEF TypeOK, FlashType, ListType, GcmType, flash, gcm, BlockOrNull
<1>9. \A x \in Chip : act'[x] = IF x = c THEN n ELSE act[x]
  BY <1>2, <1>3, <1>7
<1>10. MapInv' /\ EraseSafe'
  BY <1>1, <1>4 DEF Core, MapInv, EraseSafe, flash
<1>11. PageCounts' /\ BlockCounts'
  BY <1>1, <1>4 DEF Core, PageCounts, BlockCounts, InvalidOfs, InvalidPages, FullyInvalid, flash
<1>12. FreeAhead'
  BY <1>1, <1>4 DEF Core, FreeAhead, flash
<1>13. Target' /\ Victims'
  BY <1>5 DEF Target, Victims
<1>14. /\ freeB \intersect usedB = {} /\ freeB \intersect dirtB = {}
       /\ usedB \intersect dirtB = {}
       /\ \A b \in freeB : nrFree[b] = NumPages
       /\ \A b \in Block : b \in Listed \/ b = act[ChipOf[b]] \/ b = gc[ChipOf[b]]
  BY <1>1 DEF Core, Lists
<1>15. ASSUME n \in freeB
       PROVE  n \notin usedB /\ n \notin dirtB /\ n # gc[c] /\ n # blk /\ n # Null
  <2>1. n # Null
    BY <1>2, <1>15, FtlAssumption
  <2>2. n # gc[c]
    BY <1>1, <1>3, <1>15, <2>1 DEF Core, GcBlocks, Listed
  <2>3. QED
    BY <1>3, <1>14, <1>15, <2>1, <2>2 DEF Listed
<1>16. ActiveBlocks'
  <2> SUFFICES ASSUME NEW x \in Chip, act'[x] # Null
               PROVE  /\ ChipOf[act'[x]] = x
                      /\ act'[x] \notin Listed' /\ act'[x] # gc[x]
                      /\ nrFree[act'[x]] > 0
    BY <1>4 DEF ActiveBlocks, flash
  <2>1. CASE x = c /\ n = blk /\ nrFree[blk] > 0 /\ UNCHANGED <<act, freeB, usedB>>
    BY <1>3, <1>4, <1>9, <2>1 DEF Listed, c
  <2>2. CASE x = c /\ n \in freeB /\ ChipOf[n] = c /\ freeB' = freeB \ {n}
             /\ usedB' = usedB \union {blk}
    <3>1. nrFree[n] > 0
      BY <1>14, <2>2, FtlAssumption
    <3>2. QED
      BY <1>4, <1>9, <1>15, <2>2, <3>1 DEF Listed
  <2>3. CASE x # c
    <3>1. act'[x] = act[x]
      BY <1>9, <2>3
    <3>2. ChipOf[act[x]] = x /\ act[x] \notin Listed /\ act[x] # gc[x]
      BY <1>1, <3>1 DEF Core, ActiveBlocks
    <3>3. act[x] # blk
      BY <2>3, <3>2 DEF c
    <3>4. nrFree[act[x]] > 0
      BY <1>1, <3>1, <3>3 DEF Core, ActiveBlocks
    <3>5. act[x] \notin Listed'
      BY <1>4, <1>7, <3>2, <3>3 DEF Listed
    <3>6. QED
      BY <3>1, <3>2, <3>4, <3>5
  <2>4. QED
    BY <1>7, <1>9, <2>1, <2>2, <2>3
<1>17. GcBlocks'
  <2> SUFFICES ASSUME NEW x \in Chip, gc[x] # Null
               PROVE  ChipOf[gc[x]] = x /\ gc[x] \notin Listed'
    BY <1>4 DEF GcBlocks
  <2>1. ChipOf[gc[x]] = x /\ gc[x] \notin Listed
    BY <1>1 DEF Core, GcBlocks
  <2>2. gc[x] # blk
    BY <1>3, <2>1 DEF c
  <2>3. QED
    BY <1>4, <1>7, <2>1, <2>2 DEF Listed
<1>18. Lists'
  <2>1. /\ freeB' \intersect usedB' = {} /\ freeB' \intersect dirtB' = {}
        /\ usedB' \intersect dirtB' = {}
    BY <1>3, <1>4, <1>7, <1>14 DEF Listed
  <2>2. \A b \in freeB' : nrFree'[b] = NumPages
    BY <1>4, <1>7, <1>14 DEF flash
  <2>3. ASSUME NEW x \in Block
        PROVE  x \in Listed' \/ x = act'[ChipOf[x]] \/ x = gc'[ChipOf[x]]
    <3>1. ChipOf[x] \in Chip
      BY FtlAssumption
    <3>2. CASE x = n
      <4>1. x # Null
        BY FtlAssumption
      <4>2. ChipOf[x] = c
        BY <1>7, <3>2, <4>1 DEF c
      <4>3. QED
        BY <1>9, <3>1, <3>2, <4>2
    <3>3. CASE x = blk /\ x # n
      BY <1>7, <3>3 DEF Listed
    <3>4. CASE x \in Listed /\ x # n
      BY <1>4, <1>7, <3>4 DEF Listed
    <3>5. CASE x = act[ChipOf[x]] /\ x # blk
      <4>1. ChipOf[x] # c
        BY <1>3, <3>5
      <4>2. QED
        BY <1>9, <3>1, <3>5, <4>1
    <3>6. CASE x = gc[ChipOf[x]]
      BY <1>4, <3>6
    <3>7. QED
      BY <1>14, <3>2, <3>3, <3>4, <3>5, <3>6
  <2>4. QED
    BY <2>1, <2>2, <2>3 DEF Lists
<1>19. QED
  BY <1>5, <1>8, <1>10, <1>11, <1>12, <1>13, <1>16, <1>17, <1>18 DEF IInv, Core, TypeOK

LEMMA UpdateGcBlksStep == IInv /\ update_gc_blks => IInv'
<1> SUFFICES ASSUME IInv, update_gc_blks PROVE IInv'
  OBVIOUS
<1>1. TypeOK /\ Core /\ pc = "update_gc_blks" /\ i \in Chip /\ mru' \in Chip
  BY DEF IInv, update_gc_blks, TypeOK, CallType, ListType
<1>2. UNCHANGED <<flash, freeB, usedB, l2p, act, mru, gcm>>
  BY DEF update_gc_blks
<1>3. GcmType'
  BY <1>1, <1>2 DEF TypeOK, GcmType, gcm
<1>4. /\ \/ Fail
         \/ Return
         \/ ForEachChip("alloc") /\ UNCHANGED <<rp, lpos, dpos, pos, Rest>>
      /\ \/ UNCHANGED <<gc, dirtB>>
         \/ gc[i] = Null /\ \E b \in On(dirtB, i) : /\ gc' = [gc EXCEPT ![i] = b]
                                                    /\ dirtB' = dirtB \ {b}
  BY DEF update_gc_blks
<1>5. CallType' /\ EnvType' /\ pc' \in {"idle", "alloc", "update_gc_blks"}
  <2>1. CASE Fail
    BY <1>1, <2>1, FailType
  <2>2. CASE Return
    BY <1>1, <2>2, ReturnType
  <2>3. CASE ForEachChip("alloc") /\ UNCHANGED <<rp, lpos, dpos, pos, Rest>>
    <3>1. /\ i' \in Chip
          /\ \/ i' = i + 1 /\ pc' = pc
             \/ i' = 0 /\ pc' = "alloc"
      BY <1>1, <2>3, FtlAssumption DEF ForEachChip, Chip
    <3>2. CallType' /\ EnvType'
      BY <1>1, <2>3, <3>1, LoopTyped DEF Pc
    <3>3. QED
      BY <1>1, <3>1, <3>2
  <2>4. QED
    BY <1>4, <2>1, <2>2, <2>3
<1>6. Victims'
  BY <1>5 DEF Victims
<1>7. CASE UNCHANGED <<gc, dirtB>>
  <2>1. Quiet
    BY <1>1, <1>2, <1>5, <1>7 DEF Quiet, InMap, lists
  <2>2. QED
    BY <1>1, <1>3, <1>5, <1>6, <2>1, QuietStep
<1>8. CASE gc[i] = Null /\ \E b \in On(dirtB, i) : /\ gc' = [gc EXCEPT ![i] = b]
                                                   /\ dirtB' = dirtB \ {b}
  <2>1. PICK b \in On(dirtB, i) : gc' = [gc EXCEPT ![i] = b] /\ dirtB' = dirtB \ {b}
    BY <1>8
  <2>2. /\ act \in [Chip -> BlockOrNull] /\ gc \in [Chip -> BlockOrNull]
        /\ freeB \in SUBSET Block /\ usedB \in SUBSET Block /\ dirtB \in SUBSET Block
    BY <1>1 DEF TypeOK, ListType
  <2>3. b \in dirtB /\ ChipOf[b] = i /\ b \in Block /\ b \notin freeB /\ b \notin usedB
    BY <1>1, <2>2 DEF On, Core, Lists
  <2>4. \A x \in Chip : gc'[x] = IF x = i THEN b ELSE gc[x]
    BY <1>1, <2>1, <2>2
  <2>5. FlashType' /\ ListType'
    BY <1>1, <1>2, <2>1, <2>2, <2>3 DEF TypeOK, FlashType, ListType, flash, BlockOrNull
  <2> USE DEF flash
  <2>6. MapInv' /\ PageCounts' /\ BlockCounts' /\ FreeAhead'
    <3>1. MapInv'
      BY <1>1, <1>2 DEF Core, MapInv
    <3>2. PageCounts' /\ BlockCounts'
      BY <1>1, <1>2 DEF Core, PageCounts, BlockCounts, InvalidOfs, InvalidPages, FullyInvalid
    <3>3. FreeAhead'
      BY <1>1, <1>2, <1>5 DEF Core, FreeAhead
    <3>4. QED
      BY <3>1, <3>2, <3>3
  <2>7. EraseSafe'
    <3> SUFFICES ASSUME NEW t \in Slot, t[1] \in dirtB' \/ t[1] = gc'[ChipOf[t[1]]]
                 PROVE  status[t] # "VALID"
      BY <1>2 DEF EraseSafe
    <3>1. t[1] \in Block /\ ChipOf[t[1]] \in Chip
      BY FtlAssumption DEF Slot
    <3>2. t[1] \in dirtB \/ t[1] = gc[ChipOf[t[1]]]
      BY <2>1, <2>3, <2>4, <3>1
    <3>3. QED
      BY <1>1, <3>2 DEF Core, EraseSafe
  <2>8. Target'
    BY <1>5 DEF Target
  <2>9. ActiveBlocks'
    <3> SUFFICES ASSUME NEW x \in Chip, act[x] # Null
                 PROVE  /\ ChipOf[act[x]] = x
                        /\ act[x] \notin Listed' /\ act[x] # gc'[x]
                        /\ nrFree[act[x]] > 0
      BY <1>2 DEF ActiveBlocks
    <3>1. /\ ChipOf[act[x]] = x /\ act[x] \notin Listed /\ act[x] # gc[x]
          /\ nrFree[act[x]] > 0
      BY <1>1 DEF Core, ActiveBlocks
    <3>2. QED
      BY <1>2, <2>1, <2>3, <2>4, <3>1 DEF Listed
  <2>10. GcBlocks'
    <3> SUFFICES ASSUME NEW x \in Chip, gc'[x] # Null
                 PROVE  ChipOf[gc'[x]] = x /\ gc'[x] \notin Listed'
      BY DEF GcBlocks
    <3>1. CASE x = i
      BY <1>2, <2>1, <2>3, <2>4, <3>1 DEF Listed
    <3>2. CASE x # i
      <4>1. gc'[x] = gc[x] /\ ChipOf[gc[x]] = x /\ gc[x] \notin Listed
        BY <1>1, <2>4, <3>2 DEF Core, GcBlocks
      <4>2. QED
        BY <1>2, <2>1, <4>1 DEF Listed
    <3>3. QED
      BY <3>1, <3>2
  <2>11. Lists'
    <3>1. /\ freeB' \intersect usedB' = {} /\ freeB' \intersect dirtB' = {}
          /\ usedB' \intersect dirtB' = {} /\ \A x \in freeB' : nrFree'[x] = NumPages
      BY <1>1, <1>2, <2>1 DEF Core, Lists
    <3>2. ASSUME NEW x \in Block
          PROVE  x \in Listed' \/ x = act'[ChipOf[x]] \/ x = gc'[ChipOf[x]]
      <4>1. ChipOf[x] \in Chip /\ x # Null
        BY FtlAssumption
      <4>2. x \in Listed \/ x = act[ChipOf[x]] \/ x = gc[ChipOf[x]]
        BY <1>1 DEF Core, Lists
      <4>3. QED
        BY <1>2, <1>8, <2>1, <2>3, <2>4, <4>1, <4>2 DEF Listed
    <3>3. QED
      BY <3>1, <3>2 DEF Lists
  <2>12. QED
    BY <1>3, <1>5, <1>6, <2>5, <2>6, <2>7, <2>8, <2>9, <2>10, <2>11 DEF IInv, Core, TypeOK
<1>9. QED
  BY <1>4, <1>7, <1>8

----------------------------------------------------------------------------
(* The specification.                                                      *)

LEMMA StutterStep == IInv /\ UNCHANGED vars => IInv'
<1> SUFFICES ASSUME IInv, UNCHANGED vars PROVE IInv'
  OBVIOUS
<1>1. TypeOK /\ Core /\ Victims
  BY DEF IInv
<1> USE DEF vars, flash, lists, gcm, loops, target, call, env
<1>2. FlashType' /\ ListType' /\ GcmType' /\ CallType'
  BY <1>1 DEF TypeOK, FlashType, ListType, GcmType, CallType
<1>3. EnvType'
  BY <1>1, Zenon DEF TypeOK, EnvType
<1>4. MapInv' /\ EraseSafe'
  BY <1>1 DEF Core, MapInv, EraseSafe
<1>5. PageCounts' /\ BlockCounts'
  BY <1>1 DEF Core, PageCounts, BlockCounts, InvalidOfs, InvalidPages, FullyInvalid
<1>6. FreeAhead'
  BY <1>1 DEF Core, FreeAhead
<1>7. Target' /\ ActiveBlocks' /\ GcBlocks' /\ Lists' /\ Victims'
  BY <1>1 DEF Core, Target, ActiveBlocks, GcBlocks, Lists, Listed, Victims
<1>8. QED
  BY <1>2, <1>3, <1>4, <1>5, <1>6, <1>7 DEF IInv, TypeOK, Core

(* Every action keeps the inductive invariant.                             *)
LEMMA NextStep == IInv /\ [Next]_vars => IInv'
<1> SUFFICES ASSUME IInv, [Next]_vars PROVE IInv'
  OBVIOUS
<1>1. CASE Request
  <2>1. CASE \E l \in Lpa : Invalidate(l)
    BY <2>1, InvalidateStep
  <2>2. CASE \E l \in [Ofs -> Lpa], d \in [Ofs -> Data] : WriteStart(l, d)
    BY <2>2, WriteStartStep
  <2>3. QED
    BY <1>1, <2>1, <2>2 DEF Request
<1>2. CASE Write
  BY <1>2, WriteAllocStep, MapWildStep, MapInvalidateStep, MapLpStep, UpdateActBlkStep
     DEF Write
<1>3. CASE Collect
  BY <1>3, PrepareStep, SetVicStep, ReadFirstStep, ReadStep, ProgStep, UpdateGcBlksStep
     DEF Collect
<1>4. CASE BgcRound
  BY <1>4, BgcPrepareStep, BgcWildStep, BgcSetVicStep, BgcReadStep, BgcProgStep
     DEF BgcRound
<1>5. CASE trigger_bg_gc
  BY <1>5, TriggerBgStep
<1>6. CASE UNCHANGED vars
  BY <1>6, StutterStep
<1>7. QED
  BY <1>1, <1>2, <1>3, <1>4, <1>5, <1>6 DEF Next, Step

LEMMA Inductive == Spec => []IInv
<1>1. Init => IInv
  BY InitType, InitCore DEF IInv
<1>2. QED
  BY <1>1, NextStep, PTL DEF Spec

(* Every variable keeps its type, the chip, page and offset pointers their  *)
(* range, however the host and the collector interleave.                    *)
THEOREM Typing == Spec => []TypeOK
<1>1. IInv => TypeOK
  BY DEF IInv
<1>2. QED
  BY <1>1, Inductive, PTL

(* The mapping table and the slots agree after any sequence of writes,      *)
(* discards and collections, stale victims included: no LPA maps to a slot  *)
(* that is not its own, and no valid slot is orphaned.                      *)
THEOREM Mapping == Spec => []MapInv
<1>1. IInv => MapInv
  BY DEF IInv, Core
<1>2. QED
  BY <1>1, Inductive, PTL

(* prepare_act_blks and fb_bgc_prepare_act_blks erase the GC block of a     *)
(* chip without a look at its contents: it never holds a valid page.        *)
THEOREM Erasing == Spec => []EraseSafe
<1>1. IInv => EraseSafe
  BY DEF IInv, Core
<1>2. QED
  BY <1>1, Inductive, PTL

(* alloc_new_page takes the page from the count of free pages of a block:   *)
(* the page it hands out was not programmed since the last erase.           *)
THEOREM Programming == Spec => []ProgramsFreeOnly
<1>1. IInv => ProgramsFreeOnly
  <2> SUFFICES ASSUME IInv, pc = "map", NEW o \in ofs .. NumLps - 1
               PROVE  status[<<blk, pg, o>>] = "FREE"
    BY DEF ProgramsFreeOnly
  <2>1. ofs \in Nat /\ o \in Ofs /\ o >= ofs
    BY FtlAssumption DEF IInv, TypeOK, CallType, Ofs
  <2>2. blk \in Block /\ pg \in Page /\ pg = NumPages - nrFree[blk]
    BY DEF IInv, Core, Target, TypeOK, CallType
  <2>3. nrFree[blk] \in 0 .. NumPages
    BY <2>2 DEF IInv, Core, FreeAhead
  <2>4. pg >= NumPages - nrFree[blk] /\ ~(o < ofs)
    BY <2>1, <2>2, <2>3, FtlAssumption
  <2>5. QED
    BY <2>1, <2>2, <2>4 DEF IInv, Core, FreeAhead
<1>2. QED
  BY <1>1, Inductive, PTL

(* No list macro is ever applied to a block that is not on the list: every  *)
(* block is active, the GC block or on one of the lists of its chip, and    *)
(* never two of these.                                                      *)
THEOREM Placing == Spec => []Places
<1>1. IInv => Places
  <2> SUFFICES ASSUME IInv, NEW b \in Block
               PROVE  LET c == ChipOf[b]
                          here == {p \in {"act", "gc", "free", "used", "dirt"} :
                                     \/ p = "act" /\ act[c] = b
                                     \/ p = "gc" /\ gc[c] = b
                                     \/ p = "free" /\ b \in freeB
                                     \/ p = "used" /\ b \in usedB
                                     \/ p = "dirt" /\ b \in dirtB}
                      IN  Cardinality(here) = 1
    BY DEF Places
  <2> DEFINE c == ChipOf[b]
  <2> DEFINE here == {p \in {"act", "gc", "free", "used", "dirt"} :
                        \/ p = "act" /\ act[c] = b
                        \/ p = "gc" /\ gc[c] = b
                        \/ p = "free" /\ b \in freeB
                        \/ p = "used" /\ b \in usedB
                        \/ p = "dirt" /\ b \in dirtB}
  <2>1. c \in Chip /\ b # Null
    BY FtlAssumption
  <2>2. /\ act[c] = b => b \notin Listed /\ gc[c] # b
        /\ gc[c] = b => b \notin Listed
        /\ freeB \intersect usedB = {} /\ freeB \intersect dirtB = {} /\ usedB \intersect dirtB = {}
        /\ b \in Listed \/ b = act[c] \/ b = gc[c]
    BY <2>1 DEF IInv, Core, ActiveBlocks, GcBlocks, Lists
  <2>3. \/ here = {"act"} \/ here = {"gc"} \/ here = {"free"}
        \/ here = {"used"} \/ here = {"dirt"}
    BY <2>2 DEF Listed
  <2>4. PICK p : here = {p}
    BY <2>3
  <2>5. Cardinality(here) = 1
    BY <2>4, FS_Singleton
  <2>6. QED
    BY <2>5
<1>2. QED
  BY <1>1, Inductive, PTL

(* Only these steps touch the active blocks or a free list.                *)
LEMMA ActBeforeFreeStep == IInv /\ ActBeforeFree /\ [Next]_vars => ActBeforeFree'
<1> SUFFICES ASSUME IInv, ActBeforeFree, [Next]_vars PROVE ActBeforeFree'
  OBVIOUS
<1>1. /\ TypeOK /\ act \in [Chip -> BlockOrNull] /\ gc \in [Chip -> BlockOrNull]
      /\ freeB \in SUBSET Block /\ get_next_bus_chip \in Chip
  BY NextChip DEF IInv, TypeOK, ListType
<1>2. CASE UNCHANGED <<act, freeB>>
  BY <1>2 DEF ActBeforeFree, On
<1>3. ASSUME NEW c \in Chip, NEW b \in BlockOrNull,
             act' = [act EXCEPT ![c] = b], freeB' \subseteq freeB,
             b = Null => On(freeB, c) = {}
      PROVE  ActBeforeFree'
  BY <1>1, <1>3 DEF ActBeforeFree, On
<1>4. ASSUME NEW c \in Chip, NEW j, alloc_new_page(c, j) PROVE ActBeforeFree'
  <2>1. PICK b \in Block :
          \/ act[c] = b /\ UNCHANGED <<act, freeB>>
          \/ act' = [act EXCEPT ![c] = b] /\ freeB' = freeB \ {b}
    BY <1>4 DEF alloc_new_page
  <2>2. b # Null /\ b \in BlockOrNull
    BY FtlAssumption DEF BlockOrNull
  <2>3. QED
    BY <1>2, <1>3, <2>1, <2>2
<1>5. CASE UpdateActBlk
  <2>1. ChipOf[blk] \in Chip
    BY <1>5, FtlAssumption DEF UpdateActBlk, IInv, Core, Target
  <2>2. \/ UNCHANGED <<act, freeB>>
        \/ \E b \in BlockOrNull :
             /\ act' = [act EXCEPT ![ChipOf[blk]] = b] /\ freeB' \subseteq freeB
             /\ b = Null => On(freeB, ChipOf[blk]) = {}
    BY <1>1, <1>5, FtlAssumption DEF UpdateActBlk, On, BlockOrNull
  <2>3. QED
    BY <1>2, <1>3, <2>1, <2>2
<1>6. CASE prepare_act_blks
  <2>1. i \in Chip /\ freeB' = freeB
    BY <1>1, <1>6 DEF prepare_act_blks, TypeOK, CallType, lists
  <2>2. UNCHANGED act \/ (gc[i] # Null /\ act' = [act EXCEPT ![i] = gc[i]])
    BY <1>6 DEF prepare_act_blks
  <2>3. gc[i] \in BlockOrNull
    BY <1>1, <2>1
  <2>4. QED
    BY <1>2, <1>3, <2>1, <2>2, <2>3
<1>7. CASE fb_bgc_prepare_act_blks
  <2> DEFINE c == get_next_bus_chip
  <2>1. \/ UNCHANGED <<act, freeB>>
        \/ gc[c] # Null /\ act' = [act EXCEPT ![c] = gc[c]] /\ freeB' = freeB
        \/ gc[c] # Null /\ act[c] # Null /\ freeB' = freeB \union {gc[c]} /\ act' = act
    BY <1>7 DEF fb_bgc_prepare_act_blks, lists
  <2>2. gc[c] \in BlockOrNull /\ c \in Chip
    BY <1>1
  <2>3. CASE gc[c] # Null /\ act[c] # Null /\ freeB' = freeB \union {gc[c]} /\ act' = act
    <3>1. ChipOf[gc[c]] = c
      BY <2>2, <2>3 DEF IInv, Core, GcBlocks
    <3>2. QED
      BY <2>3, <3>1 DEF ActBeforeFree, On
  <2>4. QED
    BY <1>2, <1>3, <2>1, <2>2, <2>3
<1>8. CASE WriteAlloc
  <2>1. UNCHANGED <<act, freeB>> \/ alloc_new_page(get_next_bus_chip, "host")
    BY <1>8 DEF WriteAlloc
  <2>2. QED
    BY <1>1, <1>2, <1>4, <2>1
<1>9. CASE prog_valid_pgs_to_gc_blks
  <2>1. UNCHANGED <<act, freeB>> \/ alloc_new_page(get_next_bus_chip, "copy")
    BY <1>9 DEF prog_valid_pgs_to_gc_blks
  <2>2. QED
    BY <1>1, <1>2, <1>4, <2>1
<1>10. ASSUME NEW l, invalidate_lpg(l) PROVE freeB' = freeB
  BY <1>10 DEF invalidate_lpg, RetireBlock, lists
<1>11. CASE Request \/ MapInvalidate
  <2>1. UNCHANGED <<act, freeB>>
    BY <1>10, <1>11 DEF Request, Invalidate, WriteStart, MapInvalidate, lists
  <2>2. QED
    BY <1>2, <2>1
<1>12. CASE MapWild \/ MapLp \/ BgcWild
  BY <1>2, <1>12 DEF MapWild, MapLp, BgcWild, Crash, lists
<1>13. CASE set_vic_blks \/ ReadFirst \/ get_valid_pgs_in_vic_blks \/ update_gc_blks
  BY <1>2, <1>13 DEF set_vic_blks, ReadFirst, get_valid_pgs_in_vic_blks, update_gc_blks, lists
<1>14. CASE trigger_bg_gc \/ fb_bgc_set_vic_blks \/ fb_bgc_read_valid_pgs \/ BgcProg
  BY <1>2, <1>14 DEF trigger_bg_gc, fb_bgc_set_vic_blks, fb_bgc_read_valid_pgs, BgcProg, lists
<1>15. CASE UNCHANGED vars
  BY <1>2, <1>15 DEF vars, lists
<1>16. QED
  BY <1>5, <1>6, <1>7, <1>8, <1>9, <1>11, <1>12, <1>13, <1>14, <1>15
     DEF Next, Step, Write, Collect, BgcRound

(* A chip gets its next active block from the free list as soon as the last *)
(* one is full, and its erased GC block as the active one first: when it    *)
(* has none, its free list is empty (gc_page_mapping.c:20).                 *)
THEOREM Activating == Spec => []ActBeforeFree
<1>1. Init => ActBeforeFree
  BY FtlAssumption DEF Init, InitLists, InitEnv, ActBeforeFree
<1>2. QED
  BY <1>1, Inductive, ActBeforeFreeStep, PTL DEF Spec
=============================================================================
