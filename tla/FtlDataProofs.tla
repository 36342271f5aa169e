--------------------------- MODULE FtlDataProofs ---------------------------
(***************************************************************************)
(* The data the host wrote, for any number of chips, blocks, pages and     *)
(* logical pages: none is lost in any behaviour of Ftl, whatever victims   *)
(* background rounds keep, and what a read finds is what was written last  *)
(* as long as no round keeps a victim that left the used list.             *)
(***************************************************************************)
EXTENDS FtlProofs

(* Which operation a step belongs to, and what the host handed down for it. *)
Fg  == {"alloc", "prepare_act_blks", "set_vic_blks", "read_first", "read"}
Bgc == {"bgc_prepare", "bgc_set_vic", "bgc_read", "bgc_prog"}
Calls ==
  /\ pc = "idle" => op = "none"
  /\ pc \in Fg => op = "write"
  /\ pc \in Bgc => op = "bgc"
  /\ InMap /\ job = "host" => op = "write"
  /\ op # "write" => wl = NoLpas
  /\ op = "write" => /\ wl \in [Ofs -> Lpa] /\ wd \in [Ofs -> Data]
                     /\ \A o, q \in Ofs : wl[o] = wl[q] => o = q
                     /\ \A o \in Ofs : disk[wl[o]] = wd[o]

(* The offsets of a host page that were mapped stay mapped to what was     *)
(* programmed.                                                             *)
HostDone ==
  InMap /\ job = "host" =>
    \A o \in Ofs : o < ofs \/ pc = "update_act_blk" =>
      l2p[wl[o]] # Unmapped /\ store[l2p[wl[o]]] = wd[o]

(* What was handed down is mapped, about to be written, or the copy that is *)
(* about to be mapped again.                                               *)
Kept ==
  \A l \in Lpa : disk[l] # Unmapped =>
    \/ l2p[l] # Unmapped \/ err
    \/ op = "write" /\ \E o \in Ofs : wl[o] = l
    \/ pc = "map" /\ ~Bad /\ l = NewLpa

KeptInv == Calls /\ HostDone /\ Kept

----------------------------------------------------------------------------
(* Steps that neither map nor unmap a logical page.                        *)

Same == UNCHANGED <<op, wl, wd, disk, err>>
Over == /\ pc' = "idle" /\ op' = "none" /\ wl' = NoLpas /\ wd' = NoLpas /\ disk' = disk
        /\ err => err'
        /\ op = "write" => err' \/ (pc = "update_act_blk" /\ job = "host")
Calm == /\ l2p' = l2p
        /\ pc # "map" /\ pc' # "update_act_blk" /\ (pc' = "map" => ofs' = 0)
        /\ \A s \in Slot : status[s] = "VALID" => status'[s] = "VALID" /\ store'[s] = store[s]
        /\ Same \/ Over

(* A failing write sets fb->err.                                           *)
LEMMA FailOver == Fail => Over
<1> SUFFICES ASSUME Fail PROVE Over
  OBVIOUS
<1>1. (err => err') /\ (op = "write" => err')
  BY Zenon DEF Fail
<1> QED BY <1>1 DEF Fail, ResetLocals, Over

(* Background rounds return without a write in progress, and a write after *)
(* its page was mapped.                                                    *)
LEMMA ReturnOver ==
  Return /\ (op # "write" \/ (pc = "update_act_blk" /\ job = "host")) => Over
<1> SUFFICES ASSUME Return, op # "write" \/ (pc = "update_act_blk" /\ job = "host") PROVE Over
  OBVIOUS
<1>1. (err => err') /\ disk' = disk
  BY Zenon DEF Return, env
<1> QED BY <1>1 DEF Return, ResetLocals, Over

LEMMA SameCall == UNCHANGED <<op, wl, wd, env>> \/ UNCHANGED Rest \/ UNCHANGED <<call, env>> => Same
BY DEF Rest, call, env, Same

(* The GC block that is erased holds no valid page.                        *)
LEMMA WipesNothing ==
  ASSUME IInv, NEW c \in Chip, gc[c] # Null, Erase(gc[c])
  PROVE  \A s \in Slot : status[s] = "VALID" => status'[s] = "VALID" /\ store'[s] = store[s]
<1>1. gc[c] \in Block /\ ChipOf[gc[c]] = c
  BY DEF IInv, TypeOK, ListType, BlockOrNull, Core, GcBlocks
<1>2. \A s \in Slot : status[s] = "VALID" => s[1] # gc[c]
  BY <1>1 DEF IInv, Core, EraseSafe
<1> QED BY <1>2 DEF Erase

LEMMA CalmFlash == UNCHANGED flash =>
  \A s \in Slot : status[s] = "VALID" => status'[s] = "VALID" /\ store'[s] = store[s]
BY DEF flash

LEMMA CalmAlloc == IInv /\ WriteAlloc => Calm
<1> SUFFICES ASSUME IInv, WriteAlloc PROVE Calm
  OBVIOUS
<1>1. pc = "alloc" /\ l2p' = l2p /\ UNCHANGED flash
  BY DEF WriteAlloc
<1>2. \/ pc' = "map" /\ ofs' = 0 /\ Same
      \/ pc' = "prepare_act_blks" /\ Same
      \/ pc' = "idle" /\ Over
  BY SameCall, FailOver DEF WriteAlloc, alloc_new_page, trigger_gc_page_mapping, Over
<1> QED BY <1>1, <1>2, CalmFlash DEF Calm

LEMMA CalmUpdateAct == IInv /\ UpdateActBlk => Calm
<1> SUFFICES ASSUME IInv, UpdateActBlk PROVE Calm
  OBVIOUS
<1>1. pc = "update_act_blk" /\ l2p' = l2p /\ UNCHANGED flash
  BY DEF UpdateActBlk
<1>2. \/ pc' = "prog" /\ Same
      \/ pc' = "idle" /\ Over
  BY SameCall, ReturnOver DEF UpdateActBlk, Over
<1> QED BY <1>1, <1>2, CalmFlash DEF Calm

LEMMA CalmCollect == IInv /\ Calls /\ Collect => Calm
<1> SUFFICES ASSUME IInv, Calls, Collect PROVE Calm
  OBVIOUS
<1>1. CASE prepare_act_blks
  <2>1. /\ pc = "prepare_act_blks" /\ l2p' = l2p /\ i \in Chip
        /\ pc' \notin {"map", "update_act_blk"} /\ (Same \/ Over)
    BY <1>1, SameCall, FailOver
       DEF prepare_act_blks, ForEachChip, Over, IInv, TypeOK, CallType
  <2>2. \A s \in Slot : status[s] = "VALID" => status'[s] = "VALID" /\ store'[s] = store[s]
    BY <1>1, <2>1, CalmFlash, WipesNothing DEF prepare_act_blks
  <2> QED BY <2>1, <2>2 DEF Calm
<1>2. CASE set_vic_blks
  <2>1. /\ pc = "set_vic_blks" /\ l2p' = l2p /\ UNCHANGED flash
        /\ pc' \notin {"map", "update_act_blk"} /\ (Same \/ Over)
    BY <1>2, SameCall, FailOver DEF set_vic_blks, ForEachChip, Over
  <2> QED BY <2>1, CalmFlash DEF Calm
<1>3. CASE ReadFirst
  <2>1. /\ pc = "read_first" /\ l2p' = l2p /\ UNCHANGED flash
        /\ pc' \notin {"map", "update_act_blk"} /\ Same
    BY <1>3, SameCall DEF ReadFirst
  <2> QED BY <2>1, CalmFlash DEF Calm
<1>4. CASE get_valid_pgs_in_vic_blks
  <2>1. /\ pc = "read" /\ l2p' = l2p /\ UNCHANGED flash
        /\ pc' \notin {"map", "update_act_blk"} /\ Same
    BY <1>4, SameCall DEF get_valid_pgs_in_vic_blks
  <2> QED BY <2>1, CalmFlash DEF Calm
<1>5. CASE prog_valid_pgs_to_gc_blks
  <2>1. pc = "prog" /\ l2p' = l2p /\ UNCHANGED flash
    BY <1>5 DEF prog_valid_pgs_to_gc_blks
  <2>2. \/ pc' = "map" /\ ofs' = 0 /\ Same
        \/ pc' = "update_gc_blks" /\ Same
        \/ pc' = "idle" /\ Over
    BY <1>5, SameCall, FailOver DEF prog_valid_pgs_to_gc_blks, alloc_new_page, Over
  <2> QED BY <2>1, <2>2, CalmFlash DEF Calm
<1>6. CASE update_gc_blks
  <2>1. pc = "update_gc_blks" /\ l2p' = l2p /\ UNCHANGED flash
    BY <1>6 DEF update_gc_blks
  <2>2. \/ pc' \in {"update_gc_blks", "alloc"} /\ Same
        \/ pc' = "idle" /\ Over
    BY <1>6, SameCall, FailOver, ReturnOver DEF update_gc_blks, ForEachChip, Over
  <2> QED BY <2>1, <2>2, CalmFlash DEF Calm
<1> QED BY <1>1, <1>2, <1>3, <1>4, <1>5, <1>6 DEF Collect

LEMMA CalmRound == IInv /\ Calls /\ BgcRound => Calm
<1> SUFFICES ASSUME IInv, Calls, BgcRound PROVE Calm
  OBVIOUS
<1>1. CASE fb_bgc_prepare_act_blks
  <2>1. pc = "bgc_prepare" /\ l2p' = l2p /\ get_next_bus_chip \in Chip /\ op = "bgc"
    BY <1>1, NextChip DEF fb_bgc_prepare_act_blks, IInv, Calls, Bgc
  <2>2. \/ pc' = "bgc_prepare" /\ Same
        \/ pc' = "idle" /\ Over
    BY <1>1, <2>1, SameCall, FailOver, ReturnOver DEF fb_bgc_prepare_act_blks, Over
  <2>3. \A s \in Slot : status[s] = "VALID" => status'[s] = "VALID" /\ store'[s] = store[s]
    BY <1>1, <2>1, CalmFlash, WipesNothing DEF fb_bgc_prepare_act_blks
  <2> QED BY <2>1, <2>2, <2>3 DEF Calm
<1>2. CASE BgcWild
  <2>1. /\ pc \in {"bgc_set_vic", "bgc_read"} /\ pc' = "crashed" /\ l2p' = l2p /\ UNCHANGED flash
        /\ Same
    BY <1>2, SameCall DEF BgcWild, WildVictim, Crash
  <2> QED BY <2>1, CalmFlash DEF Calm
<1>3. CASE fb_bgc_set_vic_blks
  <2>1. /\ pc = "bgc_set_vic" /\ l2p' = l2p /\ UNCHANGED flash
        /\ pc' \notin {"map", "update_act_blk"} /\ (Same \/ Over)
    BY <1>3, SameCall, FailOver DEF fb_bgc_set_vic_blks, ForEachChip, Over
  <2> QED BY <2>1, CalmFlash DEF Calm
<1>4. CASE fb_bgc_read_valid_pgs
  <2>1. /\ pc = "bgc_read" /\ l2p' = l2p /\ UNCHANGED flash
        /\ pc' \notin {"map", "update_act_blk"} /\ (Same \/ Over)
    BY <1>4, SameCall, FailOver DEF fb_bgc_read_valid_pgs, ForEachChip, Over
  <2> QED BY <2>1, CalmFlash DEF Calm
<1>5. CASE BgcProg
  <2>1. pc = "bgc_prog" /\ op = "bgc" /\ l2p' = l2p /\ UNCHANGED flash
    BY <1>5 DEF BgcProg, Calls, Bgc
  <2>2. \/ pc' = "prog" /\ Same
        \/ pc' = "idle" /\ Over
    BY <1>5, <2>1, SameCall, ReturnOver DEF BgcProg, Over
  <2> QED BY <2>1, <2>2, CalmFlash DEF Calm
<1> QED BY <1>1, <1>2, <1>3, <1>4, <1>5 DEF BgcRound

(* Where an operation goes on, it goes on with steps of its own.           *)
Flow == /\ pc' # "idle"
        /\ pc' \in Fg => op = "write"
        /\ pc' \in Bgc => op = "bgc"
        /\ pc' = "map" /\ job' = "host" => op = "write"

LEMMA FlowStep ==
  Calls /\ (WriteAlloc \/ UpdateActBlk \/ Collect \/ BgcRound) => Flow \/ Over
<1> SUFFICES ASSUME Calls, WriteAlloc \/ UpdateActBlk \/ Collect \/ BgcRound, ~Over PROVE Flow
  OBVIOUS
<1> USE DEF Flow, Fg, Bgc, Calls
<1>1. CASE WriteAlloc
  BY <1>1, FailOver DEF WriteAlloc, alloc_new_page, trigger_gc_page_mapping
<1>2. CASE UpdateActBlk
  BY <1>2, ReturnOver DEF UpdateActBlk
<1>3. CASE prepare_act_blks
  BY <1>3, FailOver DEF prepare_act_blks, ForEachChip
<1>4. CASE set_vic_blks
  BY <1>4, FailOver DEF set_vic_blks, ForEachChip
<1>5. CASE ReadFirst \/ get_valid_pgs_in_vic_blks
  BY <1>5 DEF ReadFirst, get_valid_pgs_in_vic_blks
<1>6. CASE prog_valid_pgs_to_gc_blks
  BY <1>6, FailOver DEF prog_valid_pgs_to_gc_blks, alloc_new_page
<1>7. CASE update_gc_blks
  <2>1. \/ op = "bgc" /\ Return
        \/ Fail
        \/ (op = "write" \/ i + 1 < NumChips) /\ ForEachChip("alloc")
    BY <1>7 DEF update_gc_blks
  <2>2. pc = "update_gc_blks" /\ ~(NumChips < NumChips)
    BY <1>7, FtlAssumption DEF update_gc_blks
  <2> QED BY <2>1, <2>2, FailOver, ReturnOver DEF ForEachChip
<1>8. CASE fb_bgc_prepare_act_blks
  BY <1>8, FailOver, ReturnOver DEF fb_bgc_prepare_act_blks
<1>9. CASE BgcWild
  BY <1>9 DEF BgcWild, WildVictim, Crash
<1>10. CASE fb_bgc_set_vic_blks
  BY <1>10, FailOver DEF fb_bgc_set_vic_blks, ForEachChip
<1>11. CASE fb_bgc_read_valid_pgs
  BY <1>11, FailOver DEF fb_bgc_read_valid_pgs, ForEachChip
<1>12. CASE BgcProg
  BY <1>12, ReturnOver DEF BgcProg
<1> QED BY <1>1, <1>2, <1>3, <1>4, <1>5, <1>6, <1>7, <1>8, <1>9, <1>10, <1>11, <1>12
     DEF Collect, BgcRound

LEMMA CalmKept ==
  ASSUME IInv, KeptInv, Calm, Flow \/ Over
  PROVE  KeptInv'
<1>1. Calls /\ HostDone /\ Kept
  BY DEF KeptInv
<1>2. CASE Over
  <2>1. Calls' /\ HostDone'
    BY <1>2 DEF Over, Calls, HostDone, InMap, Fg, Bgc
  <2>2. Kept'
    <3> SUFFICES ASSUME NEW l \in Lpa, disk[l] # Unmapped, ~err' PROVE l2p[l] # Unmapped
      BY <1>2 DEF Kept, Calm, Over
    <3>1. /\ l2p[l] # Unmapped \/ (op = "write" /\ \E o \in Ofs : wl[o] = l)
          /\ op = "write" => pc = "update_act_blk" /\ job = "host"
      BY <1>1, <1>2 DEF Kept, Calm, Over
    <3> QED BY <1>1, <3>1 DEF HostDone, InMap
  <2> QED BY <2>1, <2>2 DEF KeptInv
<1>3. CASE Same /\ Flow
  <2>1. Calls'
    BY <1>1, <1>3 DEF Calm, Same, Flow, Calls, InMap
  <2>2. HostDone'
    <3>1. ofs' = 0 => \A o \in Ofs : ~(o < ofs')
      BY FtlAssumption DEF Ofs
    <3> QED BY <3>1 DEF Calm, HostDone, InMap
  <2>3. Kept'
    BY <1>1, <1>3 DEF Calm, Same, Kept
  <2> QED BY <2>1, <2>2, <2>3 DEF KeptInv
<1> QED BY <1>2, <1>3 DEF Calm

----------------------------------------------------------------------------
(* Requests, rounds that begin, and the mapping of a page.                 *)

LEMMA WriteStartKept ==
  ASSUME KeptInv, NEW l \in [Ofs -> Lpa], NEW d \in [Ofs -> Data], WriteStart(l, d)
  PROVE  KeptInv'
<1>1. Calls /\ HostDone /\ Kept
  BY DEF KeptInv
<1>2. /\ op' = "write" /\ wl' = l /\ wd' = d /\ l2p' = l2p /\ err' = err
      /\ pc = "idle" /\ pc' \in {"prepare_act_blks", "alloc"}
      /\ \A o, q \in Ofs : l[o] = l[q] => o = q
      /\ disk' = [x \in Lpa |-> IF \E o \in Ofs : l[o] = x
                                THEN d[CHOOSE o \in Ofs : l[o] = x] ELSE disk[x]]
  BY DEF WriteStart, trigger_gc_page_mapping
<1>3. ASSUME NEW o \in Ofs PROVE disk'[l[o]] = d[o]
  BY <1>2
<1>4. Calls'
  BY <1>2, <1>3 DEF Calls, Fg, Bgc, InMap
<1>5. Kept'
  <2>1. \A x \in Lpa : (\E o \in Ofs : l[o] = x) \/ disk'[x] = disk[x]
    BY <1>2
  <2> QED BY <1>1, <1>2, <2>1 DEF Kept, Calls
<1> QED BY <1>2, <1>4, <1>5 DEF KeptInv, HostDone, InMap

LEMMA InvalidateKept ==
  ASSUME IInv, KeptInv, NEW l \in Lpa, Invalidate(l)
  PROVE  KeptInv'
<1>1. Calls /\ HostDone /\ Kept
  BY DEF KeptInv
<1>2. /\ pc = "idle" /\ pc' = "idle" /\ UNCHANGED <<op, wl, wd, err>>
      /\ disk' = [disk EXCEPT ![l] = Unmapped]
  BY DEF Invalidate, call
<1>3. \A x \in Lpa \ {l} : l2p'[x] = l2p[x] /\ disk'[x] = disk[x]
  BY <1>2 DEF Invalidate, invalidate_lpg, IInv, TypeOK, ListType, EnvType
<1>4. disk'[l] = Unmapped
  BY <1>2 DEF IInv, TypeOK, EnvType
<1> QED BY <1>1, <1>2, <1>3, <1>4 DEF KeptInv, Calls, HostDone, Kept, InMap, Fg, Bgc

LEMMA TriggerBgKept == KeptInv /\ trigger_bg_gc => KeptInv'
<1> SUFFICES ASSUME KeptInv, trigger_bg_gc PROVE KeptInv'
  OBVIOUS
<1>1. /\ op' = "bgc" /\ pc = "idle" /\ pc' \in {"bgc_prepare", "bgc_set_vic"}
      /\ UNCHANGED <<l2p, wl, wd, disk, err>>
  BY DEF trigger_bg_gc, env
<1> QED BY <1>1 DEF KeptInv, Calls, HostDone, Kept, InMap, Fg, Bgc

(* A copy that is mapped first loses its old place, the host's page too.   *)
LEMMA MapInvalidateKept == IInv /\ KeptInv /\ MapInvalidate => KeptInv'
<1> SUFFICES ASSUME IInv, KeptInv, MapInvalidate PROVE KeptInv'
  OBVIOUS
<1>1. Calls /\ HostDone /\ Kept
  BY DEF KeptInv
<1>2. /\ pc = "map" /\ pc' = "map" /\ ~Bad /\ invalidate_lpg(NewLpa)
      /\ UNCHANGED <<op, wl, wd, disk, err, job, ofs, pos, lpas, store>>
  BY DEF MapInvalidate, invalidate_lpg, gcm, loops, target, call, env
<1>3. NewLpa \in Lpa /\ l2p[NewLpa] # Unmapped
  BY NewLpaType DEF IInv, Core, MapInvalidate, Mapped
<1>4. \A x \in Lpa \ {NewLpa} : l2p'[x] = l2p[x]
  BY <1>2, <1>3 DEF invalidate_lpg, IInv, TypeOK, ListType
<1>5. ~Bad' /\ NewLpa' = NewLpa
  BY <1>2 DEF Bad, NewLpa
<1>6. Calls'
  BY <1>1, <1>2 DEF Calls, InMap, Fg, Bgc
<1>7. HostDone'
  <2> SUFFICES ASSUME job = "host", NEW o \in Ofs, o < ofs
               PROVE  l2p'[wl[o]] # Unmapped /\ store[l2p'[wl[o]]] = wd[o]
    BY <1>2 DEF HostDone, InMap
  <2>1. ofs \in Ofs /\ o # ofs /\ op = "write"
    BY <1>1, <1>2, FtlAssumption DEF IInv, TypeOK, CallType, Ofs, Calls, InMap
  <2>2. wl[o] # NewLpa /\ wl[o] \in Lpa
    BY <1>1, <2>1 DEF Calls, NewLpa
  <2> QED BY <1>1, <1>2, <1>4, <2>2 DEF HostDone, InMap
<1>8. Kept'
  BY <1>1, <1>2, <1>4, <1>5 DEF Kept
<1> QED BY <1>6, <1>7, <1>8 DEF KeptInv

(* What mapping an offset does, slot by slot.                              *)
LEMMA Mapping1 ==
  ASSUME IInv, MapLp
  PROVE  /\ pc = "map" /\ blk \in Block /\ pg \in Page /\ ofs \in Ofs /\ job \in {"host", "copy"}
         /\ <<blk, pg, ofs>> \in Slot /\ status[<<blk, pg, ofs>>] = "FREE"
         /\ NewLpa \in Lpa \union {Unmapped}
         /\ store'[<<blk, pg, ofs>>] = NewData
         /\ status'[<<blk, pg, ofs>>] = IF NewLpa = Unmapped THEN "INVALID" ELSE "VALID"
         /\ \A s \in Slot : s # <<blk, pg, ofs>> => store'[s] = store[s] /\ status'[s] = status[s]
         /\ l2p' = IF NewLpa = Unmapped THEN l2p ELSE [l2p EXCEPT ![NewLpa] = <<blk, pg, ofs>>]
         /\ NewLpa # Unmapped => l2p[NewLpa] = Unmapped
         /\ \/ ofs + 1 < NumLps /\ ofs' = ofs + 1 /\ pc' = "map"
            \/ ofs + 1 = NumLps /\ ofs' = ofs /\ pc' = "update_act_blk"
         /\ UNCHANGED <<op, wl, wd, disk, err, job, blk, pg, pos, nrToCopy, lpas, datas>>
         /\ \A l \in Lpa : l2p[l] # <<blk, pg, ofs>>
<1> DEFINE s == <<blk, pg, ofs>>
<1>1. TypeOK /\ Core /\ pc = "map"
  BY DEF IInv, MapLp
<1>2. /\ blk \in Block /\ pg \in Page /\ ofs \in Ofs /\ job \in {"host", "copy"}
      /\ nrFree[blk] \in 0 .. NumPages /\ pg = NumPages - nrFree[blk]
  BY <1>1 DEF Core, Target, FreeAhead, TypeOK, CallType
<1>3. s \in Slot /\ status[s] = "FREE"
  <2>1. ~(ofs < ofs) /\ pg >= NumPages - nrFree[blk]
    BY <1>2, FtlAssumption DEF Ofs
  <2>2. status[<<blk, pg, ofs>>] = "FREE"
    BY <1>1, <1>2, <2>1 DEF Core, FreeAhead
  <2> QED BY <1>2, <2>2 DEF Slot
<1>4. NewLpa \in Lpa \union {Unmapped}
  BY <1>1, NewLpaType DEF MapLp, Core
<1>5. /\ status \in [Slot -> Status] /\ store \in [Slot -> Content]
  BY <1>1 DEF TypeOK, FlashType
<1>6. /\ store' = [store EXCEPT ![s] = NewData]
      /\ \/ /\ NewLpa # Unmapped /\ l2p[NewLpa] = Unmapped
            /\ status' = [status EXCEPT ![s] = "VALID"] /\ l2p' = [l2p EXCEPT ![NewLpa] = s]
         \/ /\ NewLpa = Unmapped
            /\ status' = [status EXCEPT ![s] = "INVALID"] /\ l2p' = l2p
  BY DEF MapLp, Mapped, Fill, Pad
<1>7. /\ \/ ofs + 1 < NumLps /\ ofs' = ofs + 1 /\ pc' = "map"
         \/ ofs + 1 = NumLps /\ ofs' = ofs /\ pc' = "update_act_blk"
      /\ UNCHANGED <<op, wl, wd, disk, err, job, blk, pg, pos, nrToCopy, lpas, datas>>
  BY <1>1 DEF MapLp, gcm, loops, call, env
<1>8. \A l \in Lpa : l2p[l] # s
  BY <1>1, <1>3, FtlAssumption DEF Core, MapInv
<1> HIDE DEF s
<1>9. /\ store'[s] = NewData
      /\ status'[s] = IF NewLpa = Unmapped THEN "INVALID" ELSE "VALID"
      /\ \A t \in Slot : t # s => store'[t] = store[t] /\ status'[t] = status[t]
  BY <1>3, <1>5, <1>6
<1> QED BY <1>1, <1>2, <1>3, <1>4, <1>6, <1>7, <1>8, <1>9 DEF s

LEMMA MapLpKept == IInv /\ KeptInv /\ MapLp => KeptInv'
<1> SUFFICES ASSUME IInv, KeptInv, MapLp PROVE KeptInv'
  OBVIOUS
<1> DEFINE s == <<blk, pg, ofs>>
<1>1. Calls /\ HostDone /\ Kept /\ l2p \in [Lpa -> Slot \union {Unmapped}]
  BY DEF KeptInv, IInv, TypeOK, ListType
<1>2. /\ s \in Slot /\ s # Unmapped /\ store'[s] = NewData
      /\ \A t \in Slot : t # s => store'[t] = store[t]
      /\ \A l \in Lpa : l2p[l] # s
  BY Mapping1, FtlAssumption
<1>3. /\ pc = "map" /\ ofs \in Ofs /\ NewLpa \in Lpa \union {Unmapped}
      /\ l2p' = IF NewLpa = Unmapped THEN l2p ELSE [l2p EXCEPT ![NewLpa] = s]
      /\ \/ ofs + 1 < NumLps /\ ofs' = ofs + 1 /\ pc' = "map"
         \/ ofs + 1 = NumLps /\ ofs' = ofs /\ pc' = "update_act_blk"
      /\ UNCHANGED <<op, wl, wd, disk, err, job>>
  BY Mapping1
<1> HIDE DEF s
<1>4. Calls'
  BY <1>1, <1>3 DEF Calls, InMap, Fg, Bgc
<1>5. HostDone'
  <2> SUFFICES ASSUME job = "host", NEW o \in Ofs, o < ofs' \/ pc' = "update_act_blk"
               PROVE  l2p'[wl[o]] # Unmapped /\ store'[l2p'[wl[o]]] = wd[o]
    BY <1>3 DEF HostDone, InMap
  <2>1. o = ofs \/ o < ofs
    BY <1>3, FtlAssumption DEF Ofs
  <2>2. op = "write" /\ wl \in [Ofs -> Lpa] /\ NewLpa = wl[ofs] /\ NewData = wd[ofs]
    BY <1>1, <1>3 DEF Calls, InMap, NewLpa, NewData
  <2>3. NewLpa # Unmapped /\ l2p' = [l2p EXCEPT ![NewLpa] = s]
    BY <1>3, <2>2, FtlAssumption
  <2>4. CASE o = ofs
    BY <1>1, <1>2, <2>2, <2>3, <2>4
  <2>5. CASE o < ofs /\ o # ofs
    <3>1. l2p[wl[o]] # Unmapped /\ store[l2p[wl[o]]] = wd[o]
      BY <1>1, <1>3, <2>5 DEF HostDone, InMap
    <3>2. wl[o] # wl[ofs] /\ wl[o] \in Lpa
      BY <1>1, <1>3, <2>2, <2>5 DEF Calls
    <3>3. l2p'[wl[o]] = l2p[wl[o]] /\ l2p[wl[o]] \in Slot /\ l2p[wl[o]] # s
      BY <1>1, <1>2, <2>2, <2>3, <3>1, <3>2
    <3> QED BY <1>2, <3>1, <3>3
  <2> QED BY <1>3, <2>1, <2>4, <2>5, FtlAssumption DEF Ofs
<1>6. Kept'
  <2>1. \A l \in Lpa : l2p[l] # Unmapped \/ l = NewLpa => l2p'[l] # Unmapped
    BY <1>1, <1>2, <1>3, FtlAssumption
  <2> QED BY <1>1, <1>3, <2>1 DEF Kept
<1> QED BY <1>4, <1>5, <1>6 DEF KeptInv

(* A page whose address is wild is not one that is being kept.             *)
LEMMA WildKept == KeptInv /\ MapWild => KeptInv'
<1> SUFFICES ASSUME KeptInv, MapWild PROVE KeptInv'
  OBVIOUS
<1>1. Bad /\ pc = "map" /\ pc' = "crashed" /\ UNCHANGED <<l2p, op, wl, wd, disk, err>>
  BY DEF MapWild, Crash, call, env
<1> QED BY <1>1 DEF KeptInv, Calls, HostDone, Kept, InMap, Fg, Bgc

LEMMA InitKept == Init => KeptInv
BY DEF Init, InitCall, InitEnv, KeptInv, Calls, HostDone, Kept, InMap, Fg, Bgc

LEMMA StutterKept == KeptInv /\ UNCHANGED vars => KeptInv'
<1> SUFFICES ASSUME KeptInv, UNCHANGED vars PROVE KeptInv'
  OBVIOUS
<1>1. UNCHANGED <<l2p, op, wl, wd, disk, err, pc, job, ofs, pos, lpas, store>>
  BY DEF vars, flash, gcm, loops, target, call, env
<1> QED BY <1>1 DEF KeptInv, Calls, HostDone, Kept, InMap, Bad, NewLpa

LEMMA NextKept == IInv /\ KeptInv /\ [Next]_vars => KeptInv'
<1> SUFFICES ASSUME IInv, KeptInv, [Next]_vars PROVE KeptInv'
  OBVIOUS
<1>1. Calls
  BY DEF KeptInv
<1>2. CASE Request
  BY <1>2, WriteStartKept, InvalidateKept DEF Request
<1>3. CASE WriteAlloc \/ UpdateActBlk \/ Collect \/ BgcRound
  BY <1>1, <1>3, CalmAlloc, CalmUpdateAct, CalmCollect, CalmRound, FlowStep, CalmKept
<1>4. CASE MapWild \/ MapInvalidate \/ MapLp
  BY <1>4, WildKept, MapInvalidateKept, MapLpKept
<1>5. CASE trigger_bg_gc \/ UNCHANGED vars
  BY <1>5, TriggerBgKept, StutterKept
<1> QED BY <1>2, <1>3, <1>4, <1>5 DEF Next, Step, Write

(* Nothing that was written is lost, in any interleaving of requests and   *)
(* rounds and although rounds may copy from a victim that has left the     *)
(* used list (gc_page_mapping.rs:430-437): a page is unmapped only by a    *)
(* discard, or right before its copy or its new content is mapped.         *)
THEOREM NothingIsLost == Spec => []NothingLost
<1>1. KeptInv => NothingLost
  BY DEF KeptInv, Calls, Kept, NothingLost
<1> QED BY <1>1, Inductive, InitKept, NextKept, PTL DEF Spec

----------------------------------------------------------------------------
(* Blocks are programmed without gaps, and those on the used and the dirt  *)
(* list have no page left: a victim taken from them has no free slot.      *)

FullBlk(b) == \A p \in Page, o \in Ofs : status[<<b, p, o>>] # "FREE"
FreeBehind ==
  \A b \in Block, p \in Page, o \in Ofs : p < NumPages - nrFree[b] => status[<<b, p, o>>] # "FREE"
PartDone == pc = "map" => \A o \in Ofs : o < ofs => status[<<blk, pg, o>>] # "FREE"
FullLists == \A b \in usedB \union dirtB : FullBlk(b)
FullInv == FreeBehind /\ PartDone /\ FullLists

LEMMA InitFull == Init => FullInv
<1> SUFFICES ASSUME Init PROVE FullInv
  OBVIOUS
<1>1. \A b \in Block : nrFree[b] = NumPages
  BY DEF Init, InitFlash
<1>2. \A p \in Page : ~(p < NumPages - NumPages)
  BY FtlAssumption DEF Page
<1>3. usedB \union dirtB = {} /\ pc = "idle"
  BY DEF Init, InitLists, InitCall
<1> QED BY <1>1, <1>2, <1>3 DEF FullInv, FreeBehind, PartDone, FullLists

(* Most steps program nothing and put no block on either list.             *)
LEMMA StillFull ==
  ASSUME FullInv, UNCHANGED <<status, nrFree>>, usedB' \union dirtB' \subseteq usedB \union dirtB,
         UNCHANGED <<pc, blk, pg, ofs>> \/ pc' # "map" \/ ofs' = 0
  PROVE  FullInv'
<1>1. ofs' = 0 => \A o \in Ofs : ~(o < ofs')
  BY FtlAssumption DEF Ofs
<1> QED BY <1>1 DEF FullInv, FreeBehind, PartDone, FullLists, FullBlk

(* A GC block is on neither list, so that its erase leaves them full.      *)
LEMMA EraseFull ==
  ASSUME IInv, FullInv, NEW c \in Chip, gc[c] # Null, Erase(gc[c]), pc' # "map",
         usedB' = usedB, dirtB' \subseteq dirtB
  PROVE  FullInv'
<1>1. gc[c] \in Block /\ gc[c] \notin Listed
  BY DEF IInv, TypeOK, ListType, BlockOrNull, Core, GcBlocks
<1>2. PICK b \in Block : b = gc[c]
  BY <1>1
<1>3. \A x \in Block \ {b}, p \in Page, o \in Ofs : status'[<<x, p, o>>] = status[<<x, p, o>>]
  BY <1>2 DEF Erase, Slot
<1>4. nrFree'[b] = NumPages /\ \A x \in Block \ {b} : nrFree'[x] = nrFree[x]
  BY <1>2 DEF Erase, IInv, TypeOK, FlashType
<1>5. \A p \in Page : ~(p < NumPages - NumPages)
  BY FtlAssumption DEF Page
<1>6. usedB' \union dirtB' \subseteq Block \ {b}
  BY <1>1, <1>2 DEF IInv, TypeOK, ListType, Listed
<1>7. FreeBehind'
  BY <1>3, <1>4, <1>5 DEF FullInv, FreeBehind
<1>8. \A x \in Block \ {b} : FullBlk(x) => FullBlk(x)'
  BY <1>3 DEF FullBlk
<1>9. FullLists'
  BY <1>6, <1>8 DEF FullInv, FullLists
<1> QED BY <1>7, <1>9 DEF FullInv, PartDone

(* A block that counts all its pages as invalid is invalid.                *)
LEMMA RetiredFull ==
  ASSUME IInv', NEW b \in Block, nrInvPgs'[b] >= NumPages
  PROVE  \A p \in Page, o \in Ofs : status'[<<b, p, o>>] = "INVALID"
<1>1. InvalidPages(b)' \subseteq Page /\ IsFiniteSet(Page) /\ Cardinality(Page) = NumPages
  BY Sizes DEF InvalidPages
<1>2. InvalidPages(b)' = Page
  <2>1. nrInvPgs'[b] <= Cardinality(InvalidPages(b)') /\ nrInvPgs'[b] \in Int
    BY DEF IInv, Core, BlockCounts, TypeOK, FlashType
  <2>2. PICK n \in Nat : n = Cardinality(InvalidPages(b)') /\ n <= NumPages
    BY <1>1, FS_Subset, FS_CardinalityType
  <2>3. n = NumPages
    BY <2>1, <2>2, FtlAssumption
  <2> QED BY <1>1, <2>2, <2>3, FS_Subset
<1>3. ASSUME NEW p \in Page PROVE InvalidOfs(b, p)' = Ofs
  <2>1. pgInv'[<<b, p>>] = NumLps
    BY <1>2 DEF InvalidPages, FullyInvalid
  <2>2. pgInv'[<<b, p>>] = Cardinality(InvalidOfs(b, p)')
    BY DEF IInv, Core, PageCounts
  <2>3. Cardinality(InvalidOfs(b, p)') = Cardinality(Ofs)
    BY <2>1, <2>2, Sizes
  <2> QED BY <2>3, Sizes, FS_Subset DEF InvalidOfs
<1> QED BY <1>3 DEF InvalidOfs

(* A block that is retired has no free slot.                               *)
LEMMA InvalidateFull ==
  ASSUME IInv, IInv', FullInv, NEW l \in Lpa, l2p[l] # Unmapped, invalidate_lpg(l),
         UNCHANGED <<pc, blk, pg, ofs>>
  PROVE  FullInv'
<1>1. PICK b \in Block, p \in Page, o \in Ofs : l2p[l] = <<b, p, o>>
  BY DEF IInv, TypeOK, ListType, Slot
<1>2. /\ status' = [status EXCEPT ![<<b, p, o>>] = "INVALID"] /\ nrFree' = nrFree
      /\ \/ usedB' \union dirtB' \subseteq (usedB \union dirtB) \union {b}
              /\ nrInvPgs' = [nrInvPgs EXCEPT ![b] = @ + 1] /\ nrInvPgs[b] + 1 = NumPages
         \/ usedB' \union dirtB' = usedB \union dirtB
  BY <1>1 DEF invalidate_lpg, RetireBlock, LastPageOf, lists
<1>3. \A x \in Block, y \in Page, z \in Ofs : status'[<<x, y, z>>] = "FREE" => status[<<x, y, z>>] = "FREE"
  BY <1>2 DEF IInv, TypeOK, FlashType, Slot
<1>4. FreeBehind' /\ PartDone'
  <2>1. pc = "map" => blk \in Block /\ pg \in Page
    BY DEF IInv, TypeOK, CallType, Core, Target
  <2>2. FreeBehind'
    BY <1>2, <1>3 DEF FullInv, FreeBehind
  <2>3. PartDone'
    BY <1>3, <2>1 DEF FullInv, PartDone
  <2> QED BY <2>2, <2>3
<1>5. \A x \in usedB \union dirtB : FullBlk(x)'
  BY <1>3 DEF FullInv, FullLists, FullBlk, IInv, TypeOK, ListType
<1>6. b \in usedB' \union dirtB' => FullBlk(b)'
  <2>1. CASE nrInvPgs' = [nrInvPgs EXCEPT ![b] = @ + 1] /\ nrInvPgs[b] + 1 = NumPages
    <3>1. nrInvPgs'[b] = NumPages /\ NumPages >= NumPages
      BY <2>1, FtlAssumption DEF IInv, TypeOK, FlashType
    <3> QED BY <3>1, RetiredFull DEF FullBlk
  <2>2. CASE usedB' \union dirtB' = usedB \union dirtB
    BY <2>2, <1>5
  <2> QED BY <1>2, <2>1, <2>2
<1> QED BY <1>2, <1>4, <1>5, <1>6 DEF FullInv, FullLists

(* The last offset of a page makes it count as programmed.                 *)
LEMMA MapLpFull == IInv /\ FullInv /\ MapLp => FullInv'
<1> SUFFICES ASSUME IInv, FullInv, MapLp PROVE FullInv'
  OBVIOUS
<1>1. /\ pc = "map" /\ blk \in Block /\ pg \in Page /\ ofs \in Ofs
      /\ \A x \in Block, y \in Page, z \in Ofs :
           status'[<<x, y, z>>] = "FREE" => status[<<x, y, z>>] = "FREE" /\ <<x, y, z>> # <<blk, pg, ofs>>
      /\ UNCHANGED <<blk, pg>>
      /\ status'[<<blk, pg, ofs>>] # "FREE"
  BY Mapping1 DEF Slot
<1>2. /\ UNCHANGED <<usedB, dirtB>>
      /\ \/ ofs + 1 < NumLps /\ ofs' = ofs + 1 /\ nrFree' = nrFree
         \/ ofs + 1 = NumLps /\ pc' = "update_act_blk" /\ nrFree' = [nrFree EXCEPT ![blk] = @ - 1]
  BY DEF MapLp, lists
<1>3. pg = NumPages - nrFree[blk] /\ nrFree \in [Block -> Int] /\ nrFree[blk] \in 0 .. NumPages
  BY <1>1 DEF IInv, Core, Target, FreeAhead, TypeOK, FlashType
<1>0. ofs \in Ofs
  BY <1>1
<1>4. \A o \in Ofs : o < ofs \/ o = ofs => status'[<<blk, pg, o>>] # "FREE"
  <2>1. \A o \in Ofs : o < ofs => status[<<blk, pg, o>>] # "FREE"
    BY <1>1 DEF FullInv, PartDone
  <2>2. \A o \in Ofs : status'[<<blk, pg, o>>] = "FREE" => status[<<blk, pg, o>>] = "FREE"
    BY <1>1
  <2> QED BY <1>1, <2>1, <2>2
<1>5. PartDone'
  <2>1. \A o \in Ofs : o < ofs + 1 => o < ofs \/ o = ofs
    BY <1>0, FtlAssumption DEF Ofs
  <2>2. pc' = "map" => ofs' = ofs + 1
    BY <1>2
  <2> SUFFICES ASSUME pc' = "map", NEW o \in Ofs, o < ofs' PROVE status'[<<blk, pg, o>>] # "FREE"
    BY <1>1 DEF PartDone
  <2>3. o < ofs + 1
    BY <2>2
  <2> QED BY <1>4, <2>1, <2>3
<1>6. FreeBehind'
  <2> SUFFICES ASSUME NEW b \in Block, NEW p \in Page, NEW o \in Ofs, p < NumPages - nrFree'[b]
               PROVE  status'[<<b, p, o>>] # "FREE"
    BY DEF FreeBehind
  <2>1. CASE p < NumPages - nrFree[b]
    BY <1>1, <2>1 DEF FullInv, FreeBehind
  <2>2. CASE ~(p < NumPages - nrFree[b])
    <3>1. b = blk /\ ofs + 1 = NumLps /\ nrFree'[b] = nrFree[b] - 1
      BY <1>1, <1>2, <1>3, <2>2
    <3>2. p = pg
      <4>1. PICK n \in Int : n = nrFree[blk]
        BY <1>3
      <4>2. nrFree'[b] = n - 1 /\ nrFree[b] = n
        BY <3>1, <4>1
      <4>3. p < NumPages - (n - 1) /\ ~(p < NumPages - n) /\ pg = NumPages - n
        BY <1>3, <2>2, <4>1, <4>2
      <4> QED BY <4>1, <4>3, FtlAssumption DEF Page
    <3>3. o < ofs \/ o = ofs
      BY <1>0, <3>1, FtlAssumption DEF Ofs
    <3> QED BY <1>4, <3>1, <3>2, <3>3
  <2> QED BY <2>1, <2>2
<1>7. FullLists'
  <2>1. \A x \in Block : FullBlk(x) => FullBlk(x)'
    BY <1>1 DEF FullBlk
  <2> QED BY <1>2, <2>1 DEF FullInv, FullLists, IInv, TypeOK, ListType
<1> QED BY <1>5, <1>6, <1>7 DEF FullInv

LEMMA UpdateActFull == IInv /\ FullInv /\ UpdateActBlk => FullInv'
<1> SUFFICES ASSUME IInv, FullInv, UpdateActBlk PROVE FullInv'
  OBVIOUS
<1>1. /\ pc = "update_act_blk" /\ blk \in Block /\ nrFree[blk] \in 0 .. NumPages
      /\ pc' # "map" /\ UNCHANGED <<status, nrFree, dirtB>>
      /\ usedB' = usedB \/ (usedB' = usedB \union {blk} /\ nrFree[blk] = 0)
  BY DEF UpdateActBlk, Return, IInv, Core, Target, FreeAhead, flash
<1>2. nrFree[blk] = 0 => FullBlk(blk)
  <2>1. nrFree[blk] = 0 => \A p \in Page : p < NumPages - nrFree[blk]
    BY FtlAssumption DEF Page
  <2> QED BY <1>1, <2>1 DEF FullInv, FreeBehind, FullBlk
<1> QED BY <1>1, <1>2 DEF FullInv, FreeBehind, PartDone, FullLists, FullBlk

LEMMA NextFull == IInv /\ FullInv /\ [Next]_vars => FullInv'
<1> SUFFICES ASSUME IInv, FullInv, [Next]_vars PROVE FullInv'
  OBVIOUS
<1>1. IInv' /\ i \in Chip /\ get_next_bus_chip \in Chip
  BY NextStep, NextChip DEF IInv, TypeOK, CallType
<1>2. CASE Request
  <2>1. ASSUME NEW l \in Lpa, Invalidate(l) PROVE FullInv'
    BY <1>1, <2>1, InvalidateFull, StillFull DEF Invalidate, target, flash, lists
  <2>2. ASSUME NEW l \in [Ofs -> Lpa], NEW d \in [Ofs -> Data], WriteStart(l, d) PROVE FullInv'
    BY <2>2, StillFull DEF WriteStart, trigger_gc_page_mapping, flash, lists
  <2> QED BY <1>2, <2>1, <2>2 DEF Request
<1>3. CASE WriteAlloc
  BY <1>3, StillFull DEF WriteAlloc, alloc_new_page, trigger_gc_page_mapping, Fail, flash
<1>4. CASE MapWild \/ BgcWild
  BY <1>4, StillFull DEF MapWild, BgcWild, Crash, flash, lists
<1>5. CASE MapInvalidate
  <2>1. NewLpa \in Lpa /\ l2p[NewLpa] # Unmapped
    BY <1>5, NewLpaType DEF IInv, Core, MapInvalidate, Mapped
  <2> QED BY <1>1, <1>5, <2>1, InvalidateFull DEF MapInvalidate, target
<1>6. CASE MapLp \/ UpdateActBlk
  BY <1>6, MapLpFull, UpdateActFull
<1>7. CASE prepare_act_blks
  <2>1. CASE act[i] = Null /\ gc[i] # Null /\ Erase(gc[i]) /\ ForEachChip("set_vic_blks")
    BY <1>1, <1>7, <2>1, EraseFull DEF prepare_act_blks, ForEachChip, lists
  <2>2. CASE UNCHANGED flash /\ pc' # "map"
    BY <1>7, <2>2, StillFull DEF prepare_act_blks, flash, lists
  <2> QED BY <1>7, <2>1, <2>2 DEF prepare_act_blks, ForEachChip, Fail
<1>8. CASE fb_bgc_prepare_act_blks
  <2>1. pc = "bgc_prepare" /\ pc' # "map"
    BY <1>8 DEF fb_bgc_prepare_act_blks, Fail, Return
  <2>2. CASE gc[get_next_bus_chip] # Null /\ Erase(gc[get_next_bus_chip])
    <3>1. usedB' = usedB /\ dirtB' \subseteq dirtB
      BY <1>8, <2>2 DEF fb_bgc_prepare_act_blks, lists
    <3> QED BY <1>1, <2>1, <2>2, <3>1, EraseFull
  <2>3. CASE UNCHANGED <<flash, lists>>
    BY <2>1, <2>3, StillFull DEF flash, lists
  <2> QED BY <1>8, <2>2, <2>3 DEF fb_bgc_prepare_act_blks
<1>9. CASE set_vic_blks \/ ReadFirst \/ get_valid_pgs_in_vic_blks \/ fb_bgc_set_vic_blks
           \/ fb_bgc_read_valid_pgs \/ BgcProg \/ trigger_bg_gc
  <2>1. UNCHANGED <<flash, lists>> /\ pc' # "map"
    BY <1>9 DEF set_vic_blks, ReadFirst, get_valid_pgs_in_vic_blks, fb_bgc_set_vic_blks,
       fb_bgc_read_valid_pgs, BgcProg, trigger_bg_gc, ForEachChip, Fail, Return
  <2> QED BY <2>1, StillFull DEF flash, lists
<1>10. CASE prog_valid_pgs_to_gc_blks
  BY <1>10, StillFull DEF prog_valid_pgs_to_gc_blks, alloc_new_page, Fail, flash
<1>11. CASE update_gc_blks
  <2>1. UNCHANGED <<flash, usedB>> /\ dirtB' \subseteq dirtB /\ pc' # "map"
    BY <1>11 DEF update_gc_blks, ForEachChip, Fail, Return
  <2> QED BY <2>1, StillFull DEF flash
<1>12. CASE UNCHANGED vars
  BY <1>12, StillFull DEF vars, flash, lists, target
<1> QED BY <1>2, <1>3, <1>4, <1>5, <1>6, <1>7, <1>8, <1>9, <1>10, <1>11, <1>12
     DEF Next, Step, Write, Collect, BgcRound

----------------------------------------------------------------------------
(* What a read finds.  A collection copies the right data as long as what  *)
(* it gathers in its buffers is what the host wrote last, and that rests   *)
(* on victims without a free slot: the two buffers, filled by two pointers *)
(* that move by different counts, stay aligned.                            *)

(* Where the victims are, once they are chosen.                            *)
Choosing == {"set_vic_blks", "bgc_set_vic"}
Reading  == {"read_first", "read", "bgc_read"}
InFull == usedB \union dirtB \union {Null}
Chosen ==
  /\ pc \in Choosing => \A c \in Chip : c < i => vic[c] \in InFull
  /\ pc \in Reading => \A c \in Chip : vic[c] \in InFull

(* An LPA and the content it is copied with: what the host wrote last, or  *)
(* what the write in progress is about to replace.                         *)
Good(l, d) ==
  /\ l \in Lpa /\ disk[l] # Unmapped
  /\ err \/ d = disk[l] \/ \E o \in Ofs : wl[o] = l
GoodUpTo(n) == \A k \in CopyIdx : k < n => Good(lpas[k], datas[k])

(* While pages are read, all that was gathered is good; while they are     *)
(* programmed, all that was counted, and the rest of a page is padding.    *)
Gathering == {"prepare_act_blks", "bgc_prog"} \union Choosing \union Reading
Gathered ==
  pc \in Gathering => /\ lpos = dpos /\ GoodUpTo(lpos)
                      /\ pc \in Bgc => nrToCopy = lpos
InCopy == InMap /\ job = "copy"
Copied == pc = "prog" \/ InCopy => GoodUpTo(nrToCopy)
Padded ==
  InCopy => \A k \in CopyIdx : k >= nrToCopy /\ k < pos + NumLps => lpas[k] = Unmapped
CopyInv == Chosen /\ Gathered /\ Copied /\ Padded

(* No round keeps a victim that has left the used list, whatever the host  *)
(* writes.                                                                 *)
VictimSpec == Init /\ [][Next /\ FreshVictim]_vars

LEMMA InitData == Init => CopyInv /\ DataInv
BY DEF Init, InitCall, InitTable, CopyInv, Chosen, Gathered, Copied, Padded, InMap, InCopy,
       Choosing, Reading, Gathering, DataInv, DiscardsStay

(* A page none of whose slots is free.                                     *)
LEMMA PageSplit ==
  ASSUME IInv, NEW b \in Block, NEW p \in Page, \A o \in Ofs : status[<<b, p, o>>] # "FREE"
  PROVE  Cardinality(ValidOfs(b, p)) = NumLps - pgInv[<<b, p>>] /\ Cardinality(ValidOfs(b, p)) \in Nat
<1>1. ValidOfs(b, p) = Ofs \ InvalidOfs(b, p) /\ InvalidOfs(b, p) = Ofs \intersect InvalidOfs(b, p)
  <2>1. \A o \in Ofs : status[<<b, p, o>>] \in {"VALID", "INVALID"}
    BY DEF IInv, TypeOK, FlashType, Status, Slot
  <2> QED BY <2>1 DEF ValidOfs, InvalidOfs
<1>2. Cardinality(InvalidOfs(b, p)) = pgInv[<<b, p>>]
  BY DEF IInv, Core, PageCounts
<1>3. Cardinality(Ofs \ InvalidOfs(b, p)) = Cardinality(Ofs) - Cardinality(InvalidOfs(b, p))
  BY <1>1, Sizes, FS_Difference
<1>4. Cardinality(ValidOfs(b, p)) \in Nat
  BY <1>1, Sizes, FS_Difference, FS_CardinalityType
<1> QED BY <1>1, <1>2, <1>3, <1>4, Sizes

(* A valid slot holds what the host wrote last.                            *)
LEMMA ValidGood ==
  ASSUME IInv, DataInv, NEW s \in Slot, status[s] = "VALID"
  PROVE  Good(owner[s], store[s])
<1>1. owner[s] \in Lpa /\ l2p[owner[s]] = s /\ s # Unmapped
  BY FtlAssumption DEF IInv, Core, MapInv
<1> QED BY <1>1 DEF DataInv, DiscardsStay, Good

(* With the two pointers aligned, an LPA is read with its own content.     *)
LEMMA ReadPagePick ==
  ASSUME NEW b \in Block, NEW p \in Page, ReadPage(b, p), lpos = dpos,
         NEW k \in CopyIdx, lpas'[k] # lpas[k] \/ datas'[k] # datas[k]
                            \/ k - lpos \in 0 .. Cardinality(ValidOfs(b, p)) - 1
  PROVE  \E o \in ValidOfs(b, p) :
           lpas'[k] = owner[<<b, p, o>>] /\ datas'[k] = store[<<b, p, o>>]
<1> DEFINE n == Cardinality(ValidOfs(b, p))
<1>1. PICK pick \in [0 .. n - 1 -> ValidOfs(b, p)] :
        /\ lpas' = [x \in CopyIdx |->
             IF x - lpos \in 0 .. n - 1 THEN owner[<<b, p, pick[x - lpos]>>] ELSE lpas[x]]
        /\ datas' = [x \in CopyIdx |->
             IF x - dpos \in 0 .. n - 1 THEN store[<<b, p, pick[x - dpos]>>] ELSE datas[x]]
  BY DEF ReadPage
<1> HIDE DEF n
<1>2. k - lpos \in 0 .. n - 1
  BY <1>1 DEF n
<1>3. pick[k - lpos] \in ValidOfs(b, p)
  BY <1>1, <1>2
<1> QED BY <1>1, <1>2, <1>3

LEMMA ReadPageGood ==
  ASSUME IInv, DataInv, NEW b \in Block, NEW p \in Page, \A o \in Ofs : status[<<b, p, o>>] # "FREE",
         ReadPage(b, p), Same, lpos = dpos, GoodUpTo(lpos)
  PROVE  lpos' = dpos' /\ lpos' = lpos + NumLps - pgInv[<<b, p>>] /\ GoodUpTo(lpos)'
<1>1. /\ Cardinality(ValidOfs(b, p)) = NumLps - pgInv[<<b, p>>]
      /\ Cardinality(ValidOfs(b, p)) \in Nat
  BY PageSplit
<1>2. lpos' = lpos + Cardinality(ValidOfs(b, p)) /\ dpos' = dpos + NumLps - pgInv[<<b, p>>]
  BY DEF ReadPage
<1>3. lpos \in Int /\ NumLps \in Int /\ pgInv[<<b, p>>] \in Int
  BY FtlAssumption DEF IInv, TypeOK, CallType, FlashType
<1>4. ASSUME NEW k \in CopyIdx, k < lpos' PROVE Good(lpas'[k], datas'[k])
  <2>1. CASE \E o \in ValidOfs(b, p) :
               lpas'[k] = owner[<<b, p, o>>] /\ datas'[k] = store[<<b, p, o>>]
    <3>1. PICK s \in Slot : /\ status[s] = "VALID"
                            /\ lpas'[k] = owner[s] /\ datas'[k] = store[s]
      BY <2>1 DEF ValidOfs, Slot
    <3> QED BY <3>1, ValidGood
  <2>2. CASE /\ lpas'[k] = lpas[k] /\ datas'[k] = datas[k]
             /\ ~(k - lpos \in 0 .. Cardinality(ValidOfs(b, p)) - 1)
    <3>1. k \in Int
      BY FtlAssumption DEF CopyIdx
    <3>2. PICK n \in Nat : n = Cardinality(ValidOfs(b, p))
      BY <1>1
    <3>3. k < lpos + n /\ ~(k - lpos \in 0 .. n - 1)
      BY <1>2, <1>4, <2>2, <3>2
    <3>4. k < lpos
      BY <1>3, <3>1, <3>3
    <3> QED BY <2>2, <3>4 DEF GoodUpTo
  <2> QED BY <2>1, <2>2, ReadPagePick
<1>5. GoodUpTo(lpos)'
  BY <1>4 DEF Same, Good, GoodUpTo
<1> QED BY <1>1, <1>2, <1>3, <1>5

(* The table and the slots it points to while nothing is mapped.           *)
LEMMA CalmData == IInv /\ Calls /\ HostDone /\ DataInv /\ Calm => DataInv'
<1> SUFFICES ASSUME IInv, Calls, HostDone, DataInv, Calm PROVE DataInv'
  OBVIOUS
<1>1. \A l \in Lpa : l2p[l] # Unmapped => store'[l2p[l]] = store[l2p[l]]
  BY DEF Calm, IInv, Core, MapInv, TypeOK, ListType
<1>2. l2p' = l2p /\ disk' = disk
  BY DEF Calm, Same, Over
<1>3. DiscardsStay'
  BY <1>2 DEF DataInv, DiscardsStay
<1>4. ASSUME NEW l \in Lpa, ~err', l2p[l] # Unmapped
      PROVE  (\E o \in Ofs : wl'[o] = l) \/ store[l2p[l]] = disk[l]
  <2>1. CASE Same
    BY <1>4, <2>1 DEF Same, DataInv
  <2>2. CASE Over
    <3>1. /\ (\E o \in Ofs : wl[o] = l) \/ store[l2p[l]] = disk[l]
          /\ op = "write" => pc = "update_act_blk" /\ job = "host"
      BY <1>4, <2>2 DEF Over, DataInv
    <3>2. ASSUME NEW o \in Ofs, wl[o] = l PROVE store[l2p[l]] = disk[l]
      <4>1. op = "write"
        BY <3>2, FtlAssumption DEF Calls, NoLpas
      <4> QED BY <3>1, <3>2, <4>1 DEF HostDone, InMap, Calls
    <3> QED BY <3>1, <3>2
  <2> QED BY <2>1, <2>2 DEF Calm
<1> QED BY <1>1, <1>2, <1>3, <1>4 DEF DataInv

(* A collection that begins has gathered nothing, an operation that ends    *)
(* and one that writes for the host needs nothing.                         *)
LEMMA NothingGathered ==
  ASSUME \/ pc' \in {"idle", "crashed", "alloc", "update_gc_blks", "bgc_prepare"}
         \/ pc' = "map" /\ job' = "host"
         \/ pc' = "prepare_act_blks" /\ lpos' = 0 /\ dpos' = 0
         \/ pc' = "bgc_set_vic" /\ lpos' = 0 /\ dpos' = 0 /\ nrToCopy' = 0 /\ i' = 0
  PROVE  CopyInv'
<1>1. \A k \in CopyIdx : ~(k < 0)
  BY FtlAssumption DEF CopyIdx
<1>2. \A c \in Chip : ~(c < 0)
  BY FtlAssumption DEF Chip
<1> QED BY <1>1, <1>2 DEF CopyInv, Chosen, Gathered, Copied, Padded, InMap, InCopy,
       Choosing, Reading, Gathering, GoodUpTo, Bgc

(* The buffers are as good in the next state, if nothing is added to them. *)
LEMMA StillGood ==
  ASSUME Same, UNCHANGED <<lpas, datas>>, NEW n, GoodUpTo(n)
  PROVE  \A k \in CopyIdx : k < n => Good(lpas[k], datas[k])'
BY DEF GoodUpTo, Good, Same

LEMMA PrepareCopy == CopyInv /\ prepare_act_blks => CopyInv'
<1> SUFFICES ASSUME CopyInv, prepare_act_blks PROVE CopyInv'
  OBVIOUS
<1>1. CASE Fail
  BY <1>1, NothingGathered DEF Fail
<1>2. CASE ForEachChip("set_vic_blks") /\ UNCHANGED <<rp, lpos, dpos, pos, Rest>>
  <2>1. /\ pc = "prepare_act_blks" /\ UNCHANGED <<lpos, dpos, lpas, datas>> /\ Same
        /\ pc' = "prepare_act_blks" \/ (pc' = "set_vic_blks" /\ i' = 0)
    BY <1>2, SameCall DEF prepare_act_blks, ForEachChip, gcm
  <2>2. lpos = dpos /\ GoodUpTo(lpos)
    BY <2>1 DEF CopyInv, Gathered, Gathering
  <2>3. GoodUpTo(lpos)'
    BY <2>1, <2>2, StillGood DEF GoodUpTo
  <2>4. \A c \in Chip : ~(c < 0)
    BY FtlAssumption DEF Chip
  <2> QED BY <2>1, <2>2, <2>3, <2>4 DEF CopyInv, Chosen, Gathered, Copied, Padded, InMap, InCopy,
       Choosing, Reading, Bgc
<1> QED BY <1>1, <1>2 DEF prepare_act_blks

(* A victim comes from the used or the dirt list.                          *)
LEMMA GreedyListed ==
  ASSUME NEW c, NEW b \in select_vic_blk_greedy(c)
  PROVE  b \in usedB \union dirtB
BY DEF select_vic_blk_greedy, select_vic_blk_from_used, On

(* The victims chosen so far, and one more.                                *)
LEMMA OneMoreChosen ==
  ASSUME i \in Chip, NEW next, pc \in Choosing, next \in Reading, ForEachChip(next),
         Chosen, UNCHANGED lists, vic'[i] \in InFull,
         \A c \in Chip \ {i} : vic'[c] = vic[c]
  PROVE  Chosen'
<1>1. InFull' = InFull
  BY DEF lists, InFull
<1>2. \A c \in Chip : c < i + 1 => c < i \/ c = i
  BY FtlAssumption DEF Chip
<1>3. \A c \in Chip : c < NumChips
  BY FtlAssumption DEF Chip
<1>4. \A c \in Chip : c < i + 1 => vic'[c] \in InFull
  BY <1>2 DEF Chosen
<1>5. CASE i + 1 < NumChips /\ i' = i + 1 /\ pc' = pc
  BY <1>1, <1>4, <1>5 DEF Chosen, Choosing, Reading
<1>6. CASE i + 1 = NumChips /\ pc' = next
  BY <1>1, <1>3, <1>4, <1>6 DEF Chosen, Choosing, Reading
<1> QED BY <1>5, <1>6 DEF ForEachChip

LEMMA SetVicCopy == IInv /\ CopyInv /\ set_vic_blks => CopyInv'
<1> SUFFICES ASSUME IInv, CopyInv, set_vic_blks PROVE CopyInv'
  OBVIOUS
<1>1. CASE Fail
  BY <1>1, NothingGathered DEF Fail
<1>2. CASE /\ ForEachChip("read_first") /\ UNCHANGED <<rp, lpos, dpos, pos, Rest>>
           /\ \E v \in InFull : vic' = [vic EXCEPT ![i] = v]
  <2>1. /\ pc = "set_vic_blks" /\ UNCHANGED <<lpos, dpos, lpas, datas, lists>> /\ Same
        /\ pc' \in {"set_vic_blks", "read_first"}
    BY <1>2, SameCall DEF set_vic_blks, ForEachChip
  <2>2. lpos = dpos /\ GoodUpTo(lpos) /\ Chosen
    BY <2>1 DEF CopyInv, Gathered, Gathering, Choosing
  <2>3. GoodUpTo(lpos)'
    BY <2>1, <2>2, StillGood DEF GoodUpTo
  <2>4. /\ i \in Chip /\ vic'[i] \in InFull
        /\ \A c \in Chip \ {i} : vic'[c] = vic[c]
    BY <1>2 DEF IInv, TypeOK, GcmType, CallType
  <2>5. Chosen'
    BY <1>2, <2>1, <2>2, <2>4, OneMoreChosen DEF Choosing, Reading
  <2> QED BY <2>1, <2>2, <2>3, <2>5 DEF CopyInv, Gathered, Copied, Padded, InMap, InCopy, Bgc
<1>3. ASSUME ~Fail
      PROVE  /\ ForEachChip("read_first") /\ UNCHANGED <<rp, lpos, dpos, pos, Rest>>
             /\ \E v \in InFull : vic' = [vic EXCEPT ![i] = v]
  <2>1. \A b \in select_vic_blk_greedy(i) : b \in InFull
    BY GreedyListed DEF InFull
  <2> QED BY <1>3, <2>1 DEF set_vic_blks, InFull
<1> QED BY <1>1, <1>2, <1>3

LEMMA ReadFirstCopy == IInv /\ CopyInv /\ ReadFirst => CopyInv'
<1> SUFFICES ASSUME IInv, CopyInv, ReadFirst PROVE CopyInv'
  OBVIOUS
<1>1. /\ pc = "read_first" /\ Same
      /\ UNCHANGED <<lists, vic, lpos, dpos, lpas, datas, nrToCopy>>
      /\ pc' = IF nrToCopy > dpos THEN "read" ELSE "prog"
  BY SameCall DEF ReadFirst, gcm
<1>2. lpos = dpos /\ GoodUpTo(lpos) /\ (\A c \in Chip : vic[c] \in InFull)
  BY <1>1 DEF CopyInv, Gathered, Gathering, Chosen, Reading
<1>3. GoodUpTo(lpos)'
  BY <1>1, <1>2, StillGood DEF GoodUpTo
<1>4. CASE pc' = "read"
  BY <1>1, <1>2, <1>3, <1>4 DEF CopyInv, Chosen, Gathered, Copied, Padded, InMap, InCopy,
       Choosing, Reading, Bgc, InFull, lists
<1>5. CASE pc' = "prog" /\ ~(nrToCopy > lpos)
  <2>1. nrToCopy' = nrToCopy /\ lpos' = lpos
    BY <1>1
  <2>2. \A k \in CopyIdx : k < nrToCopy => k < lpos
    BY <1>5, FtlAssumption DEF CopyIdx, IInv, TypeOK, GcmType, CallType
  <2>3. GoodUpTo(nrToCopy)'
    BY <1>3, <2>1, <2>2 DEF GoodUpTo
  <2> QED BY <1>5, <2>3 DEF CopyInv, Chosen, Gathered, Gathering, Copied, Padded, InMap, InCopy,
       Choosing, Reading
<1> QED BY <1>1, <1>2, <1>4, <1>5

(* A victim has no free slot, and one that is read is a block.             *)
LEMMA VictimFull ==
  ASSUME IInv, FullInv, NEW v \in InFull, v # Null, NEW p \in Page
  PROVE  v \in Block /\ \A o \in Ofs : status[<<v, p, o>>] # "FREE"
BY DEF InFull, FullInv, FullLists, FullBlk, IInv, TypeOK, ListType

LEMMA ReadCopy == IInv /\ FullInv /\ DataInv /\ CopyInv /\ get_valid_pgs_in_vic_blks => CopyInv'
<1> SUFFICES ASSUME IInv, FullInv, DataInv, CopyInv, get_valid_pgs_in_vic_blks PROVE CopyInv'
  OBVIOUS
<1>1. /\ pc = "read" /\ Same /\ UNCHANGED <<lists, vic>>
      /\ pc' \in {"read", "read_first"}
  BY SameCall DEF get_valid_pgs_in_vic_blks
<1>2. lpos = dpos /\ GoodUpTo(lpos) /\ (\A c \in Chip : vic[c] \in InFull) /\ i \in Chip /\ rp \in Page
  BY <1>1 DEF CopyInv, Gathered, Gathering, Chosen, Reading, IInv, TypeOK, CallType
<1>3. lpos' = dpos' /\ GoodUpTo(lpos)'
  <2>1. CASE Readable(i, rp) /\ ReadPage(vic[i], rp)
    <3>1. PICK b \in Block : b = vic[i] /\ \A o \in Ofs : status[<<b, rp, o>>] # "FREE"
      BY <1>2, <2>1, VictimFull DEF Readable
    <3> QED BY <1>1, <1>2, <2>1, <3>1, ReadPageGood
  <2>2. CASE UNCHANGED <<lpas, datas, lpos, dpos>>
    BY <1>1, <1>2, <2>2, StillGood DEF GoodUpTo
  <2> QED BY <2>1, <2>2 DEF get_valid_pgs_in_vic_blks
<1> QED BY <1>1, <1>2, <1>3 DEF CopyInv, Chosen, Gathered, Copied, Padded, InMap, InCopy,
       Choosing, Reading, Bgc, InFull, lists

LEMMA ProgCopy == IInv /\ CopyInv /\ prog_valid_pgs_to_gc_blks => CopyInv'
<1> SUFFICES ASSUME IInv, CopyInv, prog_valid_pgs_to_gc_blks PROVE CopyInv'
  OBVIOUS
<1>1. CASE Fail \/ pc' = "update_gc_blks"
  BY <1>1, NothingGathered DEF Fail
<1>2. CASE /\ alloc_new_page(get_next_bus_chip, "copy")
           /\ lpas' = [k \in CopyIdx |-> IF k >= nrToCopy /\ k < pos + NumLps
                                         THEN Unmapped ELSE lpas[k]]
           /\ UNCHANGED <<loops, call, env>>
  <2>1. /\ pc = "prog" /\ pc' = "map" /\ job' = "copy" /\ Same
        /\ UNCHANGED <<pos, nrToCopy, datas>>
    BY <1>2, SameCall DEF prog_valid_pgs_to_gc_blks, alloc_new_page, loops
  <2>2. GoodUpTo(nrToCopy) /\ nrToCopy \in Int /\ (\A k \in CopyIdx : k \in Int)
    BY <2>1, FtlAssumption DEF CopyInv, Copied, CopyIdx, IInv, TypeOK, GcmType
  <2>3. ASSUME NEW k \in CopyIdx, k < nrToCopy PROVE Good(lpas[k], datas[k])'
    <3>1. ~(k >= nrToCopy)
      BY <2>2, <2>3
    <3>2. lpas'[k] = lpas[k] /\ datas'[k] = datas[k]
      BY <1>2, <2>1, <3>1
    <3> QED BY <2>1, <2>2, <2>3, <3>2 DEF GoodUpTo, Good, Same
  <2>4. GoodUpTo(nrToCopy)'
    BY <2>1, <2>3 DEF GoodUpTo
  <2>5. \A k \in CopyIdx : k >= nrToCopy' /\ k < pos' + NumLps => lpas'[k] = Unmapped
    BY <1>2, <2>1
  <2> QED BY <2>1, <2>4, <2>5 DEF CopyInv, Chosen, Gathered, Gathering, Copied, Padded,
       Choosing, Reading
<1> QED BY <1>1, <1>2 DEF prog_valid_pgs_to_gc_blks

(* The steps that map a page leave the buffers alone.                      *)
LEMMA MapCopy ==
  ASSUME CopyInv, InMap, InMap' \/ pc' = "crashed", Same,
         UNCHANGED <<job, pos, nrToCopy, lpas, datas>>
  PROVE  CopyInv'
<1>1. CASE ~(InMap' /\ job' = "copy")
  BY <1>1 DEF CopyInv, Chosen, Gathered, Gathering, Copied, Padded, InMap, InCopy,
       Choosing, Reading
<1>2. CASE InMap' /\ job = "copy"
  <2>1. GoodUpTo(nrToCopy) /\ \A k \in CopyIdx : k >= nrToCopy /\ k < pos + NumLps => lpas[k] = Unmapped
    BY <1>2 DEF CopyInv, Copied, Padded, InCopy
  <2>2. GoodUpTo(nrToCopy)'
    BY <2>1, StillGood DEF GoodUpTo
  <2> QED BY <1>2, <2>1, <2>2 DEF CopyInv, Chosen, Gathered, Gathering, Copied, Padded, InMap, InCopy,
       Choosing, Reading
<1> QED BY <1>1, <1>2

LEMMA UpdateActCopy == IInv /\ CopyInv /\ UpdateActBlk => CopyInv'
<1> SUFFICES ASSUME IInv, CopyInv, UpdateActBlk PROVE CopyInv'
  OBVIOUS
<1>1. CASE Return
  BY <1>1, NothingGathered DEF Return
<1>2. CASE job = "copy" /\ pc' = "prog" /\ UNCHANGED <<i, rp, lpos, dpos, call, env>>
  <2>1. Same /\ UNCHANGED <<nrToCopy, lpas, datas>> /\ pc = "update_act_blk"
    BY <1>2, SameCall DEF UpdateActBlk, gcm
  <2>2. GoodUpTo(nrToCopy)
    BY <1>2, <2>1 DEF CopyInv, Copied, InCopy, InMap
  <2>3. GoodUpTo(nrToCopy)'
    BY <2>1, <2>2, StillGood DEF GoodUpTo
  <2> QED BY <1>2, <2>3 DEF CopyInv, Chosen, Gathered, Gathering, Copied, Padded, InMap, InCopy,
       Choosing, Reading
<1> QED BY <1>1, <1>2 DEF UpdateActBlk

(* A round keeps no victim but a used one, or chooses it.                  *)
LEMMA BgcSetVicCopy == IInv /\ CopyInv /\ FreshVictim /\ fb_bgc_set_vic_blks => CopyInv'
<1> SUFFICES ASSUME IInv, CopyInv, FreshVictim, fb_bgc_set_vic_blks PROVE CopyInv'
  OBVIOUS
<1>1. CASE Fail
  BY <1>1, NothingGathered DEF Fail
<1>2. CASE /\ ForEachChip("bgc_read") /\ UNCHANGED <<rp, lpos, dpos, pos, Rest>>
           /\ \E v \in InFull : vic' = [vic EXCEPT ![i] = v]
  <2>1. /\ pc = "bgc_set_vic" /\ UNCHANGED <<lpos, dpos, lpas, datas, lists, nrToCopy>> /\ Same
        /\ pc' \in {"bgc_set_vic", "bgc_read"}
    BY <1>2, SameCall DEF fb_bgc_set_vic_blks, ForEachChip
  <2>2. lpos = dpos /\ GoodUpTo(lpos) /\ Chosen /\ nrToCopy = lpos
    BY <2>1 DEF CopyInv, Gathered, Gathering, Choosing, Bgc
  <2>3. GoodUpTo(lpos)'
    BY <2>1, <2>2, StillGood DEF GoodUpTo
  <2>4. /\ i \in Chip /\ vic'[i] \in InFull
        /\ \A c \in Chip \ {i} : vic'[c] = vic[c]
    BY <1>2 DEF IInv, TypeOK, GcmType, CallType
  <2>5. Chosen'
    BY <1>2, <2>1, <2>2, <2>4, OneMoreChosen DEF Choosing, Reading
  <2> QED BY <2>1, <2>2, <2>3, <2>5 DEF CopyInv, Gathered, Copied, Padded, InMap, InCopy
<1>3. CASE Short /\ KeepsVictim /\ ForEachChip("bgc_read") /\ UNCHANGED <<vic, rp, lpos, dpos, pos, Rest>>
  <2>1. vic[i] \in InFull
    BY <1>3 DEF FreshVictim, fb_bgc_set_vic_blks, InFull
  <2>2. vic' = [vic EXCEPT ![i] = vic[i]]
    BY <1>3 DEF IInv, TypeOK, GcmType
  <2> QED BY <1>2, <1>3, <2>1, <2>2
<1>4. ASSUME ~Fail, ~(Short /\ KeepsVictim)
      PROVE  /\ ForEachChip("bgc_read") /\ UNCHANGED <<rp, lpos, dpos, pos, Rest>>
             /\ \E v \in InFull : vic' = [vic EXCEPT ![i] = v]
  <2>1. \A b \in select_vic_blk_from_used(i) : b \in InFull
    BY DEF select_vic_blk_from_used, On, InFull
  <2>2. Null \in InFull
    BY DEF InFull
  <2> QED BY <1>4, <2>1, <2>2 DEF fb_bgc_set_vic_blks
<1> QED BY <1>1, <1>2, <1>3, <1>4 DEF fb_bgc_set_vic_blks

LEMMA BgcReadCopy == IInv /\ FullInv /\ DataInv /\ CopyInv /\ fb_bgc_read_valid_pgs => CopyInv'
<1> SUFFICES ASSUME IInv, FullInv, DataInv, CopyInv, fb_bgc_read_valid_pgs PROVE CopyInv'
  OBVIOUS
<1> DEFINE c == get_next_bus_chip
<1>1. CASE Fail
  BY <1>1, NothingGathered DEF Fail
<1>2. CASE /\ \/ /\ Readable(c, fvp[c])
                 /\ ReadPage(vic[c], fvp[c])
                 /\ nrToCopy' = nrToCopy + NumLps - pgInv[<<vic[c], fvp[c]>>]
              \/ vic[c] = Null /\ UNCHANGED <<lpas, datas, lpos, dpos, nrToCopy>>
           /\ ForEachChip("bgc_prog") /\ UNCHANGED <<rp, pos, Rest>>
  <2>1. /\ pc = "bgc_read" /\ UNCHANGED <<lists, vic>> /\ Same
        /\ pc' \in {"bgc_read", "bgc_prog"} /\ c \in Chip
    BY <1>2, SameCall, NextChip DEF fb_bgc_read_valid_pgs, ForEachChip, IInv
  <2>2. /\ lpos = dpos /\ GoodUpTo(lpos) /\ nrToCopy = lpos
        /\ \A x \in Chip : vic[x] \in InFull
    BY <2>1 DEF CopyInv, Gathered, Gathering, Chosen, Reading, Bgc
  <2>3. lpos' = dpos' /\ GoodUpTo(lpos)' /\ nrToCopy' = lpos'
    <3>1. CASE /\ Readable(c, fvp[c])
               /\ ReadPage(vic[c], fvp[c])
               /\ nrToCopy' = nrToCopy + NumLps - pgInv[<<vic[c], fvp[c]>>]
      <4>1. fvp[c] \in Page
        BY <2>1, <3>1, FtlAssumption
           DEF fb_bgc_read_valid_pgs, WildVictim, Readable, IInv, TypeOK, GcmType, Page
      <4>2. PICK b \in Block : b = vic[c] /\ \A o \in Ofs : status[<<b, fvp[c], o>>] # "FREE"
        BY <2>1, <2>2, <3>1, <4>1, VictimFull DEF Readable
      <4> QED BY <2>1, <2>2, <3>1, <4>1, <4>2, ReadPageGood
    <3>2. CASE UNCHANGED <<lpas, datas, lpos, dpos, nrToCopy>>
      BY <2>1, <2>2, <3>2, StillGood DEF GoodUpTo
    <3> QED BY <1>2, <3>1, <3>2
  <2> QED BY <2>1, <2>2, <2>3 DEF CopyInv, Chosen, Gathered, Copied, Padded, InMap, InCopy,
       Choosing, Reading, InFull, lists
<1> QED BY <1>1, <1>2 DEF fb_bgc_read_valid_pgs

LEMMA BgcProgCopy == CopyInv /\ BgcProg => CopyInv'
<1> SUFFICES ASSUME CopyInv, BgcProg PROVE CopyInv'
  OBVIOUS
<1>1. CASE Return
  BY <1>1, NothingGathered DEF Return
<1>2. CASE pc' = "prog" /\ UNCHANGED <<loops, Rest>>
  <2>1. /\ pc = "bgc_prog" /\ UNCHANGED <<lpas, datas, nrToCopy>> /\ Same
    BY <1>2, SameCall DEF BgcProg, gcm
  <2>2. GoodUpTo(nrToCopy)
    BY <2>1 DEF CopyInv, Gathered, Gathering, Bgc
  <2>3. GoodUpTo(nrToCopy)'
    BY <2>1, <2>2, StillGood DEF GoodUpTo
  <2> QED BY <1>2, <2>3 DEF CopyInv, Chosen, Gathered, Gathering, Copied, Padded, InMap, InCopy,
       Choosing, Reading
<1> QED BY <1>1, <1>2 DEF BgcProg

LEMMA StutterCopy == CopyInv /\ UNCHANGED vars => CopyInv'
<1> SUFFICES ASSUME CopyInv, UNCHANGED vars PROVE CopyInv'
  OBVIOUS
<1>1. UNCHANGED <<pc, i, lpos, dpos, pos, job, nrToCopy, lpas, datas, vic, lists, disk, err, wl>>
  BY DEF vars, gcm, loops, target, call, env
<1>2. \A k \in CopyIdx : Good(lpas[k], datas[k]) => Good(lpas[k], datas[k])'
  BY <1>1 DEF Good
<1> QED BY <1>1, <1>2 DEF CopyInv, Chosen, Gathered, Copied, Padded, GoodUpTo, InFull, InMap, InCopy,
       lists

(* Every step of a collection, and of what it collects for.                *)
LEMMA NextCopy ==
  IInv /\ FullInv /\ DataInv /\ CopyInv /\ [Next /\ FreshVictim]_vars => CopyInv'
<1> SUFFICES ASSUME IInv, FullInv, DataInv, CopyInv, [Next /\ FreshVictim]_vars PROVE CopyInv'
  OBVIOUS
<1>1. CASE Request
  <2>1. pc' = "idle" \/ pc' = "alloc" \/ trigger_gc_page_mapping
    BY <1>1 DEF Request, Invalidate, WriteStart
  <2> QED BY <2>1, NothingGathered DEF trigger_gc_page_mapping, init_gcm
<1>2. CASE trigger_bg_gc
  BY <1>2, NothingGathered DEF trigger_bg_gc, init_gcm
<1>3. CASE WriteAlloc
  BY <1>3, NothingGathered DEF WriteAlloc, alloc_new_page, trigger_gc_page_mapping, init_gcm, Fail
<1>4. CASE MapWild \/ BgcWild
  BY <1>4, NothingGathered DEF MapWild, BgcWild, Crash
<1>5. CASE MapInvalidate
  <2>1. InMap /\ InMap' /\ Same /\ UNCHANGED <<job, pos, nrToCopy, lpas, datas>>
    BY <1>5 DEF MapInvalidate, InMap, Same, gcm, loops, target, call, env
  <2> QED BY <2>1, MapCopy
<1>6. CASE MapLp
  <2>1. InMap /\ InMap' /\ Same /\ UNCHANGED <<job, pos, nrToCopy, lpas, datas>>
    BY <1>6, Mapping1 DEF InMap, Same
  <2> QED BY <2>1, MapCopy
<1>7. CASE UpdateActBlk \/ prepare_act_blks \/ set_vic_blks \/ ReadFirst
           \/ get_valid_pgs_in_vic_blks \/ prog_valid_pgs_to_gc_blks
  BY <1>7, UpdateActCopy, PrepareCopy, SetVicCopy, ReadFirstCopy, ReadCopy, ProgCopy
<1>8. CASE update_gc_blks
  BY <1>8, NothingGathered DEF update_gc_blks, ForEachChip, Return, Fail
<1>9. CASE fb_bgc_prepare_act_blks
  BY <1>9, NothingGathered DEF fb_bgc_prepare_act_blks, Return, Fail
<1>10. CASE fb_bgc_set_vic_blks /\ FreshVictim
  BY <1>10, BgcSetVicCopy
<1>11. CASE fb_bgc_read_valid_pgs \/ BgcProg
  BY <1>11, BgcReadCopy, BgcProgCopy
<1>12. CASE UNCHANGED vars
  BY <1>12, StutterCopy
<1> QED BY <1>1, <1>2, <1>3, <1>4, <1>5, <1>6, <1>7, <1>8, <1>9, <1>10, <1>11, <1>12
     DEF Next, Step, Write, Collect, BgcRound

(* A mapped LPA has a slot whose content no discard touches.               *)
LEMMA InvalidateData ==
  ASSUME IInv, Calls, DataInv, NEW l \in Lpa, Invalidate(l)
  PROVE  DataInv'
<1>1. /\ disk' = [disk EXCEPT ![l] = Unmapped] /\ UNCHANGED <<wl, err, store>>
      /\ disk \in [Lpa -> Data \union {Unmapped}] /\ l2p \in [Lpa -> Slot \union {Unmapped}]
  BY DEF Invalidate, invalidate_lpg, flash, call, IInv, TypeOK, EnvType, ListType
<1>2. l2p'[l] = Unmapped /\ \A x \in Lpa \ {l} : l2p'[x] = l2p[x]
  BY <1>1 DEF Invalidate, invalidate_lpg
<1>3. ~err'
  BY <1>1 DEF Invalidate
<1> QED BY <1>1, <1>2, <1>3 DEF DataInv, DiscardsStay

LEMMA WriteStartData ==
  ASSUME DataInv, Calls, NEW l \in [Ofs -> Lpa], NEW d \in [Ofs -> Data], WriteStart(l, d)
  PROVE  DataInv'
<1>1. /\ wl' = l /\ UNCHANGED <<l2p, store, err>> /\ pc = "idle"
      /\ disk' = [x \in Lpa |-> IF \E o \in Ofs : l[o] = x
                                THEN d[CHOOSE o \in Ofs : l[o] = x] ELSE disk[x]]
  BY DEF WriteStart, flash
<1>2. \A x \in Lpa : (\E o \in Ofs : l[o] = x) => disk'[x] # Unmapped
  BY <1>1, FtlAssumption
<1>3. \A x \in Lpa : (\E o \in Ofs : l[o] = x) \/ disk'[x] = disk[x]
  BY <1>1
<1>4. \A x \in Lpa, o \in Ofs : wl[o] # x
  BY <1>1, FtlAssumption DEF Calls, NoLpas
<1> QED BY <1>1, <1>2, <1>3, <1>4 DEF DataInv, DiscardsStay

LEMMA MapInvalidateData == IInv /\ DataInv /\ MapInvalidate => DataInv'
<1> SUFFICES ASSUME IInv, DataInv, MapInvalidate PROVE DataInv'
  OBVIOUS
<1>1. UNCHANGED <<wl, disk, err, store>> /\ l2p' = [l2p EXCEPT ![NewLpa] = Unmapped]
  BY DEF MapInvalidate, invalidate_lpg, call, env
<1>2. \A x \in Lpa : l2p'[x] = l2p[x] \/ l2p'[x] = Unmapped
  BY <1>1 DEF IInv, TypeOK, ListType
<1> QED BY <1>1, <1>2 DEF DataInv, DiscardsStay

(* What is mapped is what the host writes, or a good copy.                 *)
LEMMA NewGood ==
  ASSUME IInv, Calls, CopyInv, MapLp, NewLpa # Unmapped
  PROVE  Good(NewLpa, NewData)
<1>1. pc = "map" /\ ~Bad /\ job \in {"host", "copy"} /\ ofs \in Ofs
  BY Mapping1 DEF MapLp
<1>2. CASE job = "host"
  <2>1. op = "write" /\ NewLpa = wl[ofs] /\ NewData = wd[ofs]
    BY <1>1, <1>2 DEF Calls, InMap, NewLpa, NewData
  <2> QED BY <1>1, <2>1, FtlAssumption DEF Calls, Good
<1>3. CASE job = "copy"
  <2>1. PICK k \in CopyIdx : k = pos + ofs /\ NewLpa = lpas[k] /\ NewData = datas[k]
    BY <1>1, <1>3 DEF Bad, NewLpa, NewData
  <2>2. k < pos + NumLps /\ k \in Int /\ nrToCopy \in Int
    BY <1>1, <2>1, FtlAssumption DEF Ofs, CopyIdx, IInv, TypeOK, CallType, GcmType
  <2>3. k < nrToCopy
    <3>1. k >= nrToCopy => lpas[k] = Unmapped
      BY <1>1, <1>3, <2>2 DEF CopyInv, Padded, InCopy, InMap
    <3> QED BY <2>1, <2>2, <3>1
  <2> QED BY <1>1, <1>3, <2>1, <2>3 DEF CopyInv, Copied, InCopy, InMap, GoodUpTo
<1> QED BY <1>1, <1>2, <1>3

LEMMA MapLpData == IInv /\ Calls /\ CopyInv /\ DataInv /\ MapLp => DataInv'
<1> SUFFICES ASSUME IInv, Calls, CopyInv, DataInv, MapLp PROVE DataInv'
  OBVIOUS
<1> DEFINE s == <<blk, pg, ofs>>
<1>1. /\ NewLpa \in Lpa \union {Unmapped} /\ store'[s] = NewData
      /\ \A t \in Slot : t # s => store'[t] = store[t]
      /\ l2p' = IF NewLpa = Unmapped THEN l2p ELSE [l2p EXCEPT ![NewLpa] = s]
      /\ \A x \in Lpa : l2p[x] # s
      /\ UNCHANGED <<wl, disk, err>>
  BY Mapping1
<1>2. l2p \in [Lpa -> Slot \union {Unmapped}]
  BY DEF IInv, TypeOK, ListType
<1> HIDE DEF s
<1>3. ASSUME NEW x \in Lpa, x # NewLpa
      PROVE  l2p'[x] = l2p[x] /\ (l2p[x] # Unmapped => store'[l2p[x]] = store[l2p[x]])
  BY <1>1, <1>2, <1>3
<1>4. CASE NewLpa # Unmapped
  <2>1. l2p'[NewLpa] = s /\ store'[s] = NewData /\ Good(NewLpa, NewData)
    BY <1>1, <1>2, <1>4, NewGood
  <2> QED BY <1>1, <1>3, <2>1 DEF DataInv, DiscardsStay, Good
<1>5. CASE NewLpa = Unmapped
  <2>1. \A x \in Lpa : x # NewLpa
    BY <1>5, FtlAssumption
  <2> QED BY <1>1, <1>3, <2>1 DEF DataInv, DiscardsStay
<1> QED BY <1>4, <1>5

LEMMA NextData ==
  IInv /\ KeptInv /\ CopyInv /\ DataInv /\ [Next]_vars => DataInv'
<1> SUFFICES ASSUME IInv, KeptInv, CopyInv, DataInv, [Next]_vars PROVE DataInv'
  OBVIOUS
<1>1. Calls /\ HostDone
  BY DEF KeptInv
<1>2. CASE Request
  BY <1>1, <1>2, InvalidateData, WriteStartData DEF Request
<1>3. CASE WriteAlloc \/ UpdateActBlk \/ Collect \/ BgcRound
  BY <1>1, <1>3, CalmAlloc, CalmUpdateAct, CalmCollect, CalmRound, CalmData
<1>4. CASE MapInvalidate \/ MapLp
  BY <1>1, <1>4, MapInvalidateData, MapLpData
<1>5. CASE MapWild \/ trigger_bg_gc \/ UNCHANGED vars
  <2>1. UNCHANGED <<l2p, store, wl, disk, err>>
    BY <1>5 DEF MapWild, trigger_bg_gc, Crash, vars, flash, call, env
  <2> QED BY <2>1 DEF DataInv, DiscardsStay
<1> QED BY <1>2, <1>3, <1>4, <1>5 DEF Next, Step, Write

(* A read finds what the host wrote last, and a discard is never undone, in *)
(* any interleaving of requests and collections in which no round keeps a   *)
(* victim that has left the used list (gc_page_mapping.rs:430-437).         *)
THEOREM ReadsBack == VictimSpec => []DataInv
<1>1. IInv /\ KeptInv /\ FullInv /\ CopyInv /\ DataInv /\ [Next /\ FreshVictim]_vars
        => (IInv /\ KeptInv /\ FullInv /\ CopyInv /\ DataInv)'
  BY NextStep, NextKept, NextFull, NextCopy, NextData
<1>2. Init => IInv /\ KeptInv /\ FullInv /\ CopyInv /\ DataInv
  BY InitType, InitCore, InitKept, InitFull, InitData DEF IInv
<1> QED BY <1>1, <1>2, PTL DEF VictimSpec

(* The same of a host that never hands down an LPA that is still mapped, as *)
(* one whose request does not overlap with the pages it flushes.           *)
THEOREM ReadsBackFresh == FreshSpec => []DataInv
<1>1. [Next /\ FreshVictim /\ FreshWrite]_vars => [Next /\ FreshVictim]_vars
  OBVIOUS
<1> QED BY <1>1, ReadsBack, PTL DEF FreshSpec, VictimSpec

(* With foreground collections only, the same needs no assumption: the     *)
(* victim of set_vic_blks is chosen and copied in one operation.           *)
THEOREM ReadsBackFg == FgSpec => []DataInv
<1> DEFINE Fore == pc \notin Bgc
<1>1. Init => Fore
  BY DEF Init, InitCall, Bgc
<1>2. Fore /\ [Request \/ Write \/ Collect]_vars => Fore' /\ [Next /\ FreshVictim]_vars
  <2> SUFFICES ASSUME Fore, [Request \/ Write \/ Collect]_vars
               PROVE  Fore' /\ [Next /\ FreshVictim]_vars
    OBVIOUS
  <2>1. [Next /\ FreshVictim]_vars
    BY DEF Next, Step, FreshVictim, Bgc
  <2> USE DEF Bgc
  <2>2. CASE Request
    BY <2>1, <2>2 DEF Request, Invalidate, WriteStart, trigger_gc_page_mapping
  <2>3. CASE Write
    BY <2>1, <2>3 DEF Write, WriteAlloc, MapWild, MapInvalidate, MapLp, UpdateActBlk, alloc_new_page,
       trigger_gc_page_mapping, Fail, Return, Crash
  <2>4. CASE prepare_act_blks \/ set_vic_blks \/ update_gc_blks
    BY <2>1, <2>4 DEF prepare_act_blks, set_vic_blks, update_gc_blks, ForEachChip, Fail, Return
  <2>5. CASE ReadFirst \/ get_valid_pgs_in_vic_blks \/ prog_valid_pgs_to_gc_blks
    BY <2>1, <2>5 DEF ReadFirst, get_valid_pgs_in_vic_blks, prog_valid_pgs_to_gc_blks, alloc_new_page, Fail
  <2>6. CASE UNCHANGED vars
    BY <2>1, <2>6 DEF vars
  <2> QED BY <2>1, <2>2, <2>3, <2>4, <2>5, <2>6 DEF Collect
<1> HIDE DEF Fore
<1> QED BY <1>1, <1>2, ReadsBack, PTL DEF FgSpec, VictimSpec
=============================================================================
