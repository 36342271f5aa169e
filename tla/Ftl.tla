-------------------------------- MODULE Ftl --------------------------------
(***************************************************************************)
(* The page-mapping flash translation layer of flashbench: the L2P table,  *)
(* the per-chip block lists, host page programs, discards, foreground      *)
(* garbage collection and one-step-at-a-time background collection.        *)
(*                                                                         *)
(* Every operation runs under mapping_context_lock from its first to its   *)
(* last step, so at most one is in flight: op says which and pc where it   *)
(* stands.  A step is one iteration of one of the code's loops.  Locals    *)
(* are reset when the operation returns; what the code keeps between calls *)
(* (victims, their first valid page, the copy buffers) is kept here too.   *)
(*                                                                         *)
(* Abstractions.  The (bus, chip) pairs are numbered in the round-robin    *)
(* order of get_next_bus_chip and every loop over them takes that order    *)
(* (some loops of the code nest the two the other way round: only what an  *)
(* operation that fails half-way leaves behind could tell).  A chip's      *)
(* free, used and dirt list is the set of its blocks on it, "the head of   *)
(* the list" is any of them and, of several blocks with the most invalid   *)
(* pages, any may be the victim.  The flags of a block (is_active,         *)
(* is_reserved), nr_valid_pages and nr_erase_cnt are left out: the code    *)
(* writes them and decides nothing by them.                                *)
(***************************************************************************)
EXTENDS Integers, FiniteSets

CONSTANTS
  NumChips,     \* NUM_CHIPS
  Block,        \* all the blocks of all the chips
  ChipOf,       \* the chip a block lies on
  NumPages,     \* NUM_PAGES_PER_BLOCK
  NumLps,       \* NR_LP_IN_PP
  Lpa,          \* the logical pages
  Data,         \* the contents of a logical page
  BgcTh,        \* BGC_TH_NR_BLKS
  Null,         \* no block
  Wild,         \* an uninitialised pointer, address or page content
  Unmapped      \* PAGE_UNMAPPED, and the content of an unwritten page

Chip == 0 .. NumChips - 1
Page == 0 .. NumPages - 1
Ofs  == 0 .. NumLps - 1
Slot == Block \X Page \X Ofs
CopyIdx == 0 .. NumChips * NumPages * NumLps - 1

ASSUME FtlAssumption ==
  /\ NumChips \in Nat \ {0}
  /\ NumPages \in Nat \ {0}
  /\ NumLps \in Nat \ {0}
  /\ BgcTh \in Nat
  /\ IsFiniteSet(Block)
  /\ ChipOf \in [Block -> Chip]
  /\ Null \notin Block
  /\ Wild \notin Block \union Lpa \union {Null, Unmapped}
  /\ Unmapped \notin Lpa \union Data \union Slot

VARIABLES
  status, owner, store,   \* of a slot: its status, its LPA, its content
  pgInv,                  \* of a page: nr_invalid_log_pages
  nrFree, nrInvPgs,       \* of a block: nr_free_pages, nr_invalid_pages
  nrValLps, nrInvLps,     \* and nr_valid_log_pages, nr_invalid_log_pages
  l2p,                    \* the mapping table
  freeB, usedB, dirtB,    \* the blocks on the three lists
  act, gc,                \* of a chip: its active and its GC block
  mru,                    \* the chip programmed last
  vic, fvp,               \* of a chip: vic_blks and first_valid_pg
  nrToCopy, lpas, datas,  \* the GC manager's copy buffers
  op, pc,                 \* the operation in flight and its next step
  i, rp, lpos, dpos,      \* chip, page and buffer pointers of its loops
  pos,                    \* pages of the copy buffers already programmed
  job, blk, pg, ofs,      \* the page being programmed, for the host or a copy
  wl, wd,                 \* the LPAs and contents of a host page program
  retried,                \* the program already collected for lack of a page
  err, bgcAlive,          \* fb->err; the collector thread still runs
  disk                    \* what the host last handed down for an LPA

flash  == <<status, owner, store, pgInv, nrFree, nrInvPgs, nrValLps, nrInvLps>>
lists  == <<freeB, usedB, dirtB>>
gcm    == <<vic, fvp, nrToCopy, lpas, datas>>
loops  == <<i, rp, lpos, dpos, pos>>
target == <<job, blk, pg, ofs>>
call   == <<op, wl, wd, retried>>
env    == <<err, bgcAlive, disk>>
vars   == <<flash, lists, gcm, loops, target, call, env, l2p, act, gc, mru, pc>>

NoLpas == [o \in Ofs |-> Unmapped]

(* Every page is erased in the tables and every logical page unmapped; what *)
(* the pages of the device hold is not set.                                *)
InitFlash ==
  /\ status = [s \in Slot |-> "FREE"]
  /\ owner = [s \in Slot |-> Unmapped]
  /\ store = [s \in Slot |-> Wild]
  /\ pgInv = [q \in Block \X Page |-> 0]
  /\ nrFree = [b \in Block |-> NumPages]
  /\ nrInvPgs = [b \in Block |-> 0]
  /\ nrValLps = [b \in Block |-> 0]
  /\ nrInvLps = [b \in Block |-> 0]

InitTable == l2p = [l \in Lpa |-> Unmapped]

(* Every chip gets an active and a GC block.                               *)
InitLists ==
  /\ act \in [Chip -> Block] /\ gc \in [Chip -> Block]
  /\ \A c \in Chip : ChipOf[act[c]] = c /\ ChipOf[gc[c]] = c /\ act[c] # gc[c]
  /\ freeB = Block \ {b \in Block : \E c \in Chip : b \in {act[c], gc[c]}}
  /\ usedB = {} /\ dirtB = {}
  /\ mru = NumChips - 1

(* What vmalloc returns is not cleared.  first_valid_pg is read only once   *)
(* there is a victim, which sets it or is itself wild.                     *)
InitGcm ==
  /\ vic \in [Chip -> {Null, Wild}]
  /\ fvp = [c \in Chip |-> 0]
  /\ nrToCopy = 0
  /\ lpas = [k \in CopyIdx |-> Wild] /\ datas = [k \in CopyIdx |-> Wild]

InitCall ==
  /\ op = "none" /\ pc = "idle"
  /\ i = 0 /\ rp = 0 /\ lpos = 0 /\ dpos = 0 /\ pos = 0
  /\ job = "none" /\ blk = Null /\ pg = 0 /\ ofs = 0
  /\ wl = NoLpas /\ wd = NoLpas /\ retried = FALSE

(* kmalloc leaves fb->err as it finds it.                                  *)
InitEnv ==
  /\ err \in BOOLEAN /\ bgcAlive = TRUE
  /\ disk = [l \in Lpa |-> Unmapped]

Init == InitFlash /\ InitTable /\ InitLists /\ InitGcm /\ InitCall /\ InitEnv

----------------------------------------------------------------------------
(* Block lists, round robin and the page counters.                         *)

On(S, c) == {b \in S : ChipOf[b] = c}
get_next_bus_chip == (mru + 1) % NumChips
is_fgc_needed(c) == gc[c] = Null /\ On(freeB, c) = {}
FullyInvalid(b, p) == pgInv[<<b, p>>] = NumLps
ValidOfs(b, p) == {o \in Ofs : status[<<b, p, o>>] = "VALID"}

find_first_valid_pg(b, start) ==
  LET rest == {p \in Page : p >= start /\ ~FullyInvalid(b, p)}
  IN  IF rest = {} THEN NumPages ELSE CHOOSE p \in rest : \A q \in rest : p <= q

(* Used blocks of c with an invalid page, and no other with more.          *)
select_vic_blk_from_used(c) ==
  {b \in On(usedB, c) : /\ nrInvLps[b] > 0
                        /\ \A u \in On(usedB, c) : nrInvLps[u] <= nrInvLps[b]}

select_vic_blk_greedy(c) ==
  IF On(dirtB, c) # {} THEN On(dirtB, c) ELSE select_vic_blk_from_used(c)

(* Mutant: nr_invalid_log_pages survives the erase. *)
EraseKeepsInvLps(b) ==
  /\ status' = [s \in Slot |-> IF s[1] = b THEN "FREE" ELSE status[s]]
  /\ owner' = [s \in Slot |-> IF s[1] = b THEN Unmapped ELSE owner[s]]
  /\ store' = [s \in Slot |-> IF s[1] = b THEN Unmapped ELSE store[s]]
  /\ pgInv' = [q \in Block \X Page |-> IF q[1] = b THEN 0 ELSE pgInv[q]]
  /\ nrFree' = [nrFree EXCEPT ![b] = NumPages]
  /\ nrInvPgs' = [nrInvPgs EXCEPT ![b] = 0]
  /\ nrValLps' = [nrValLps EXCEPT ![b] = 0]
  /\ nrInvLps' = nrInvLps

(* Mutant: the pages of the block are not reset. *)
EraseKeepsPages(b) ==
  /\ status' = status
  /\ owner' = [s \in Slot |-> IF s[1] = b THEN Unmapped ELSE owner[s]]
  /\ store' = [s \in Slot |-> IF s[1] = b THEN Unmapped ELSE store[s]]
  /\ pgInv' = [q \in Block \X Page |-> IF q[1] = b THEN 0 ELSE pgInv[q]]
  /\ nrFree' = [nrFree EXCEPT ![b] = NumPages]
  /\ nrInvPgs' = [nrInvPgs EXCEPT ![b] = 0]
  /\ nrValLps' = [nrValLps EXCEPT ![b] = 0]
  /\ nrInvLps' = [nrInvLps EXCEPT ![b] = 0]

(* vdevice_erase and init_blk_inf.                                         *)
Erase(b) ==
  /\ status' = [s \in Slot |-> IF s[1] = b THEN "FREE" ELSE status[s]]
  /\ owner' = [s \in Slot |-> IF s[1] = b THEN Unmapped ELSE owner[s]]
  /\ store' = [s \in Slot |-> IF s[1] = b THEN Unmapped ELSE store[s]]
  /\ pgInv' = [q \in Block \X Page |-> IF q[1] = b THEN 0 ELSE pgInv[q]]
  /\ nrFree' = [nrFree EXCEPT ![b] = NumPages]
  /\ nrInvPgs' = [nrInvPgs EXCEPT ![b] = 0]
  /\ nrValLps' = [nrValLps EXCEPT ![b] = 0]
  /\ nrInvLps' = [nrInvLps EXCEPT ![b] = 0]

(* Mutants: the block stays on the used list; a chip is given a block that  *)
(* is not its own.                                                         *)
RetireBlockStays(b) ==
  LET c == ChipOf[b] IN
  /\ \/ gc[c] = Null /\ gc' = [gc EXCEPT ![c] = b] /\ dirtB' = dirtB
     \/ gc[c] # Null /\ dirtB' = dirtB \union {b} /\ gc' = gc
  /\ UNCHANGED <<usedB, freeB>>

RetireBlockMru(b) ==
  LET c == mru IN
  /\ usedB' = usedB \ {b}
  /\ \/ gc[c] = Null /\ gc' = [gc EXCEPT ![c] = b] /\ dirtB' = dirtB
     \/ gc[c] # Null /\ dirtB' = dirtB \union {b} /\ gc' = gc
  /\ freeB' = freeB

(* A block whose last page was invalidated leaves the used list and becomes *)
(* the GC block of its chip, or dirt if the chip has one.                   *)
RetireBlock(b) ==
  LET c == ChipOf[b] IN
  /\ usedB' = usedB \ {b}
  /\ \/ gc[c] = Null /\ gc' = [gc EXCEPT ![c] = b] /\ dirtB' = dirtB
     \/ gc[c] # Null /\ dirtB' = dirtB \union {b} /\ gc' = gc
  /\ freeB' = freeB

(* Mutant: one page early.                                                 *)
LastPageOfEarly(b) == nrInvPgs[b] + 2 = NumPages
(* Mutant: compared before it is counted.                                  *)
LastPageOfLate(b) == nrInvPgs[b] = NumPages
LastPageOf(b) == nrInvPgs[b] + 1 = NumPages

invalidate_lpg(l) ==
  LET s == l2p[l]
      b == s[1]
      q == <<s[1], s[2]>>
      pageDone == pgInv[q] + 1 = NumLps
      blockDone == pageDone /\ LastPageOf(b)
  IN /\ status' = [status EXCEPT ![s] = "INVALID"]
     /\ nrInvLps' = [nrInvLps EXCEPT ![b] = @ + 1]
     /\ nrValLps' = [nrValLps EXCEPT ![b] = @ - 1]
     /\ pgInv' = [pgInv EXCEPT ![q] = @ + 1]
     /\ nrInvPgs' = IF pageDone THEN [nrInvPgs EXCEPT ![b] = @ + 1] ELSE nrInvPgs
     /\ \/ blockDone /\ RetireBlock(b)
        \/ ~blockDone /\ UNCHANGED <<lists, gc>>
     /\ l2p' = [l2p EXCEPT ![l] = Unmapped]
     /\ UNCHANGED <<owner, store, nrFree>>

----------------------------------------------------------------------------
(* Control: loops over the chips, entry to a collection, and return.       *)

ForEachChip(next) ==
  \/ i + 1 < NumChips /\ i' = i + 1 /\ pc' = pc
  \/ i + 1 = NumChips /\ i' = 0 /\ pc' = next

(* init_gcm and the locals of the functions it is followed by.             *)
init_gcm == /\ nrToCopy' = 0
            /\ i' = 0 /\ rp' = 0 /\ lpos' = 0 /\ dpos' = 0 /\ pos' = 0

trigger_gc_page_mapping ==
  /\ init_gcm /\ pc' = "prepare_act_blks"
  /\ UNCHANGED <<vic, fvp, lpas, datas>>

ResetLocals ==
  /\ i' = 0 /\ rp' = 0 /\ lpos' = 0 /\ dpos' = 0 /\ pos' = 0
  /\ job' = "none" /\ blk' = Null /\ pg' = 0 /\ ofs' = 0
  /\ op' = "none" /\ wl' = NoLpas /\ wd' = NoLpas /\ retried' = FALSE

Return == pc' = "idle" /\ ResetLocals /\ UNCHANGED env

(* Mutant: the failure is not remembered.                                  *)
FailSilently == /\ pc' = "idle" /\ ResetLocals
                /\ bgcAlive' = (bgcAlive /\ op # "bgc")
                /\ UNCHANGED <<err, disk>>

(* -1: the request fails and sets fb->err, the collector thread ends.      *)
Fail == /\ pc' = "idle" /\ ResetLocals
        /\ err' = (err \/ op = "write")
        /\ bgcAlive' = (bgcAlive /\ op # "bgc")
        /\ disk' = disk

(* A wild pointer or index is dereferenced: nothing is promised after it.  *)
Crash == /\ pc' = "crashed"
         /\ UNCHANGED <<flash, lists, gcm, loops, target, call, env, l2p, act, gc, mru>>

----------------------------------------------------------------------------
(* Requests of the host.                                                   *)

(* One turn of _fb_del_invalidate_pgs: a discard, or a write that will be  *)
(* buffered.                                                               *)
Invalidate(l) ==
  /\ pc = "idle" /\ ~err
  /\ disk' = [disk EXCEPT ![l] = Unmapped]
  /\ \/ l2p[l] = Unmapped /\ UNCHANGED <<flash, lists, gc, l2p>>
     \/ l2p[l] # Unmapped /\ invalidate_lpg(l)
  /\ UNCHANGED <<act, mru, pc, gcm, loops, target, call, err, bgcAlive>>

(* make_write_request_page_mapping, up to the check for a foreground       *)
(* collection.  The LPAs come from the write buffer, which is hashed by    *)
(* LPA: they are distinct.  They may be mapped: a request that makes the   *)
(* buffer flush may hand down an old page it has just invalidated, before  *)
(* it buffers the new one (Flashbench).                                    *)
WriteStart(l, d) ==
  /\ pc = "idle" /\ ~err
  /\ \A o, q \in Ofs : l[o] = l[q] => o = q
  /\ op' = "write" /\ wl' = l /\ wd' = d /\ retried' = FALSE
  /\ disk' = [x \in Lpa |-> IF \E o \in Ofs : l[o] = x
                            THEN d[CHOOSE o \in Ofs : l[o] = x] ELSE disk[x]]
  /\ \/ is_fgc_needed(get_next_bus_chip) /\ trigger_gc_page_mapping
     \/ /\ ~is_fgc_needed(get_next_bus_chip)
        /\ pc' = "alloc"
        /\ UNCHANGED <<gcm, loops>>
  /\ UNCHANGED <<flash, lists, l2p, act, gc, mru, target, err, bgcAlive>>

(* Mutant: a page of an active block is taken without looking for room.    *)
alloc_new_page_first(c, j) ==
  \E b \in Block :
    /\ \/ act[c] = b /\ UNCHANGED <<act, freeB>>
       \/ /\ act[c] = Null /\ b \in On(freeB, c)
          /\ act' = [act EXCEPT ![c] = b] /\ freeB' = freeB \ {b}
    /\ job' = j /\ blk' = b /\ pg' = NumPages - nrFree[b] + 1 /\ ofs' = 0
    /\ pc' = "map"

(* alloc_new_page: the next page of the active block of chip c, which may  *)
(* have to be taken from the free list first.                              *)
alloc_new_page(c, j) ==
  \E b \in Block :
    /\ \/ act[c] = b /\ UNCHANGED <<act, freeB>>
       \/ /\ act[c] = Null /\ b \in On(freeB, c)
          /\ act' = [act EXCEPT ![c] = b] /\ freeB' = freeB \ {b}
    /\ job' = j /\ blk' = b /\ pg' = NumPages - nrFree[b] /\ ofs' = 0
    /\ pc' = "map"

NoPage(c) == act[c] = Null /\ On(freeB, c) = {}

(* A page for the host; for lack of one, collect and try once more.        *)
WriteAlloc ==
  /\ pc = "alloc"
  /\ LET c == get_next_bus_chip IN
     \/ /\ ~NoPage(c) /\ alloc_new_page(c, "host")
        /\ UNCHANGED <<gcm, loops, call, env>>
     \/ /\ NoPage(c) /\ ~retried
        /\ retried' = TRUE /\ trigger_gc_page_mapping
        /\ UNCHANGED <<act, freeB, target, op, wl, wd, env>>
     \/ /\ NoPage(c) /\ retried /\ Fail
        /\ UNCHANGED <<act, freeB, gcm>>
  /\ UNCHANGED <<flash, usedB, dirtB, l2p, gc, mru>>

----------------------------------------------------------------------------
(* map_logical_to_physical, one offset of the page at a time.              *)

(* For the host the addresses are the ones handed down, for a collection   *)
(* those in lpas_to_copy at its position.                                  *)
Bad == job = "copy" /\ (pos + ofs \notin CopyIdx \/ lpas[pos + ofs] = Wild)
NewLpa == IF job = "host" THEN wl[ofs] ELSE lpas[pos + ofs]
NewData == IF job = "host" THEN wd[ofs] ELSE datas[pos + ofs]

(* Mutant: only what the host writes is unmapped first.                    *)
MappedHost(l) == job = "host" /\ l # Unmapped /\ l2p[l] # Unmapped
Mapped(l) == l # Unmapped /\ l2p[l] # Unmapped

MapWild == pc = "map" /\ Bad /\ Crash

(* Mutant: the page is not told of its padding.                            *)
PadUncounted(s) == /\ status' = [status EXCEPT ![s] = "INVALID"]
                   /\ nrInvLps' = [nrInvLps EXCEPT ![s[1]] = @ + 1]
                   /\ UNCHANGED <<pgInv, nrValLps, l2p>>

(* An offset that holds data, and one of the padding.                      *)
Fill(s) == /\ status' = [status EXCEPT ![s] = "VALID"]
           /\ nrValLps' = [nrValLps EXCEPT ![s[1]] = @ + 1]
           /\ l2p' = [l2p EXCEPT ![NewLpa] = s]
           /\ UNCHANGED <<pgInv, nrInvLps>>

Pad(s) == /\ status' = [status EXCEPT ![s] = "INVALID"]
          /\ nrInvLps' = [nrInvLps EXCEPT ![s[1]] = @ + 1]
          /\ pgInv' = [pgInv EXCEPT ![<<s[1], s[2]>>] = @ + 1]
          /\ UNCHANGED <<nrValLps, l2p>>

(* The old copy of the LPA goes first.                                     *)
MapInvalidate ==
  /\ pc = "map" /\ ~Bad
  /\ Mapped(NewLpa)
  /\ invalidate_lpg(NewLpa)
  /\ UNCHANGED <<act, mru, pc, gcm, loops, target, call, env>>

MapLp ==
  /\ pc = "map" /\ ~Bad
  /\ ~Mapped(NewLpa)
  /\ LET s == <<blk, pg, ofs>> IN
     /\ owner' = [owner EXCEPT ![s] = NewLpa]
     /\ store' = [store EXCEPT ![s] = NewData]
     /\ \/ NewLpa # Unmapped /\ Fill(s)
        \/ NewLpa = Unmapped /\ Pad(s)
  /\ \/ /\ ofs + 1 < NumLps
        /\ ofs' = ofs + 1 /\ UNCHANGED <<pc, nrFree>>
     \/ /\ ofs + 1 = NumLps
        /\ nrFree' = [nrFree EXCEPT ![blk] = @ - 1]
        /\ pc' = "update_act_blk" /\ ofs' = ofs
  /\ UNCHANGED <<nrInvPgs, lists, act, gc, mru, gcm, loops, job, blk, pg, call, env>>

(* Mutant: the next active block is left to the next write.                *)
UpdateActBlkLazy ==
  /\ pc = "update_act_blk"
  /\ mru' = ChipOf[blk]
  /\ LET c == ChipOf[blk] IN
     \/ nrFree[blk] > 0 /\ UNCHANGED <<act, freeB, usedB>>
     \/ /\ nrFree[blk] = 0
        /\ usedB' = usedB \union {blk}
        /\ act' = [act EXCEPT ![c] = Null] /\ freeB' = freeB
  /\ \/ job = "host" /\ Return
     \/ /\ job = "copy"
        /\ pc' = "prog" /\ pos' = pos + NumLps
        /\ job' = "none" /\ blk' = Null /\ pg' = 0 /\ ofs' = 0
        /\ UNCHANGED <<i, rp, lpos, dpos, call, env>>
  /\ UNCHANGED <<flash, dirtB, l2p, gc, gcm>>

(* set_prev_bus_chip and update_act_blk after the last offset: a full      *)
(* block is used, and the head of the free list, if any, replaces it.      *)
UpdateActBlk ==
  /\ pc = "update_act_blk"
  /\ mru' = ChipOf[blk]
  /\ LET c == ChipOf[blk] IN
     \/ nrFree[blk] > 0 /\ UNCHANGED <<act, freeB, usedB>>
     \/ /\ nrFree[blk] = 0
        /\ usedB' = usedB \union {blk}
        /\ \/ On(freeB, c) = {} /\ act' = [act EXCEPT ![c] = Null] /\ freeB' = freeB
           \/ \E b \in On(freeB, c) : /\ act' = [act EXCEPT ![c] = b]
                                      /\ freeB' = freeB \ {b}
  /\ \/ job = "host" /\ Return
     \/ /\ job = "copy"
        /\ pc' = "prog" /\ pos' = pos + NumLps
        /\ job' = "none" /\ blk' = Null /\ pg' = 0 /\ ofs' = 0
        /\ UNCHANGED <<i, rp, lpos, dpos, call, env>>
  /\ UNCHANGED <<flash, dirtB, l2p, gc, gcm>>

----------------------------------------------------------------------------
(* Foreground collection.                                                  *)

Rest == <<target, call, env>>

(* Every chip without an active block erases its GC block and uses it.     *)
prepare_act_blks ==
  /\ pc = "prepare_act_blks"
  /\ \/ /\ act[i] # Null /\ ForEachChip("set_vic_blks")
        /\ UNCHANGED <<flash, act, gc, rp, lpos, dpos, pos, Rest>>
     \/ /\ act[i] = Null /\ gc[i] # Null /\ ForEachChip("set_vic_blks")
        /\ Erase(gc[i])
        /\ act' = [act EXCEPT ![i] = gc[i]]
        /\ gc' = [gc EXCEPT ![i] = Null]
        /\ UNCHANGED <<rp, lpos, dpos, pos, Rest>>
     \/ /\ act[i] = Null /\ gc[i] = Null /\ Fail
        /\ UNCHANGED <<flash, act, gc>>
  /\ UNCHANGED <<lists, gcm, l2p, mru>>

(* Mutant: a victim only for a chip without an active block.               *)
HasActBlk(c) == act[c] # Null
HasBlks(c) == gc[c] # Null /\ act[c] # Null

(* Every chip that lacks an active or a GC block needs a victim; one       *)
(* without valid pages is not copied.                                      *)
set_vic_blks ==
  LET victims == select_vic_blk_greedy(i) IN
  /\ pc = "set_vic_blks"
  /\ \/ /\ HasBlks(i) /\ ForEachChip("read_first")
        /\ vic' = [vic EXCEPT ![i] = Null]
        /\ UNCHANGED <<fvp, nrToCopy, rp, lpos, dpos, pos, Rest>>
     \/ /\ ~HasBlks(i) /\ victims # {} /\ ForEachChip("read_first")
        /\ \E b \in victims :
             \/ /\ nrValLps[b] = 0
                /\ vic' = [vic EXCEPT ![i] = Null]
                /\ UNCHANGED <<fvp, nrToCopy>>
             \/ /\ nrValLps[b] # 0
                /\ vic' = [vic EXCEPT ![i] = b]
                /\ fvp' = [fvp EXCEPT ![i] = find_first_valid_pg(b, 0)]
                /\ nrToCopy' = nrToCopy + nrValLps[b]
        /\ UNCHANGED <<rp, lpos, dpos, pos, Rest>>
     \/ /\ ~HasBlks(i) /\ victims = {} /\ Fail
        /\ UNCHANGED <<vic, fvp, nrToCopy>>
  /\ UNCHANGED <<flash, lists, l2p, act, gc, mru, lpas, datas>>

(* Mutants: the data pointer stays where it is; the offsets to read are    *)
(* taken for consecutive ones.                                             *)
ReadPageOver(b, p) ==
  LET n == Cardinality(ValidOfs(b, p)) IN
  \E pick \in [0 .. n - 1 -> ValidOfs(b, p)] :
    /\ \A k, m \in 0 .. n - 1 : k < m => pick[k] < pick[m]
    /\ lpas' = [k \in CopyIdx |->
         IF k - lpos \in 0 .. n - 1 THEN owner[<<b, p, pick[k - lpos]>>] ELSE lpas[k]]
    /\ datas' = [k \in CopyIdx |->
         IF k - dpos \in 0 .. n - 1 THEN store[<<b, p, pick[k - dpos]>>] ELSE datas[k]]
    /\ lpos' = lpos + n
    /\ dpos' = dpos

ReadPagePacked(b, p) ==
  LET n == Cardinality(ValidOfs(b, p)) IN
  \E pick \in [0 .. n - 1 -> ValidOfs(b, p)] :
    /\ \A k, m \in 0 .. n - 1 : k < m => pick[k] < pick[m]
    /\ lpas' = [k \in CopyIdx |->
         IF k - lpos \in 0 .. n - 1 THEN owner[<<b, p, pick[k - lpos]>>] ELSE lpas[k]]
    /\ datas' = [k \in CopyIdx |->
         IF k - dpos \in 0 .. n - 1 THEN store[<<b, p, k - dpos>>] ELSE datas[k]]
    /\ lpos' = lpos + n
    /\ dpos' = dpos + NumLps - pgInv[<<b, p>>]

(* The valid logical pages of a page go to the copy buffers in the order   *)
(* of their offsets.  The page counts for its not-invalid offsets, which   *)
(* is also how far the data pointer moves; the LPA pointer moves past what *)
(* was stored.                                                             *)
ReadPage(b, p) ==
  LET n == Cardinality(ValidOfs(b, p)) IN
  \E pick \in [0 .. n - 1 -> ValidOfs(b, p)] :
    /\ \A k, m \in 0 .. n - 1 : k < m => pick[k] < pick[m]
    /\ lpas' = [k \in CopyIdx |->
         IF k - lpos \in 0 .. n - 1 THEN owner[<<b, p, pick[k - lpos]>>] ELSE lpas[k]]
    /\ datas' = [k \in CopyIdx |->
         IF k - dpos \in 0 .. n - 1 THEN store[<<b, p, pick[k - dpos]>>] ELSE datas[k]]
    /\ lpos' = lpos + n
    /\ dpos' = dpos + NumLps - pgInv[<<b, p>>]

(* The loop head of get_valid_pgs_in_vic_blks: until as many pages were    *)
(* read as the victims counted.                                            *)
ReadFirst ==
  /\ pc = "read_first"
  /\ pc' = IF nrToCopy > dpos THEN "read" ELSE "prog"
  /\ i' = 0 /\ rp' = 0
  /\ UNCHANGED <<flash, lists, gcm, lpos, dpos, pos, Rest, l2p, act, gc, mru>>

(* Mutant: reading starts behind the first valid page.                     *)
ReadableAfter(c, p) == vic[c] # Null /\ p > fvp[c] /\ ~FullyInvalid(vic[c], p)
Readable(c, p) == vic[c] # Null /\ ~FullyInvalid(vic[c], p)

get_valid_pgs_in_vic_blks ==
  /\ pc = "read"
  /\ \/ Readable(i, rp) /\ ReadPage(vic[i], rp)
     \/ /\ ~Readable(i, rp)
        /\ UNCHANGED <<lpas, datas, lpos, dpos>>
  /\ \/ i + 1 < NumChips /\ i' = i + 1 /\ UNCHANGED <<rp, pc>>
     \/ i + 1 = NumChips /\ rp + 1 < NumPages /\ i' = 0 /\ rp' = rp + 1 /\ pc' = pc
     \/ i + 1 = NumChips /\ rp + 1 = NumPages /\ i' = 0 /\ rp' = 0 /\ pc' = "read_first"
  /\ UNCHANGED <<flash, lists, vic, fvp, nrToCopy, pos, Rest, l2p, act, gc, mru>>

(* One page of copies; the last one is padded with unmapped addresses.     *)
prog_valid_pgs_to_gc_blks ==
  /\ pc = "prog"
  /\ LET c == get_next_bus_chip IN
     \/ /\ nrToCopy <= pos
        /\ pc' = "update_gc_blks" /\ i' = 0
        /\ UNCHANGED <<act, freeB, lpas, rp, lpos, dpos, pos, Rest>>
     \/ /\ nrToCopy > pos /\ ~NoPage(c)
        /\ alloc_new_page(c, "copy")
        /\ lpas' = [k \in CopyIdx |-> IF k >= nrToCopy /\ k < pos + NumLps
                                      THEN Unmapped ELSE lpas[k]]
        /\ UNCHANGED <<loops, call, env>>
     \/ /\ nrToCopy > pos /\ NoPage(c) /\ Fail
        /\ UNCHANGED <<act, freeB, lpas>>
  /\ UNCHANGED <<flash, usedB, dirtB, l2p, gc, mru, vic, fvp, nrToCopy, datas>>

(* A chip without a GC block takes a dirt block for it; then the operation *)
(* that collected goes on.                                                 *)
update_gc_blks ==
  /\ pc = "update_gc_blks"
  /\ \/ /\ gc[i] = Null /\ On(dirtB, i) = {} /\ act[i] = Null /\ Fail
        /\ UNCHANGED <<gc, dirtB>>
     \/ /\ \/ /\ gc[i] # Null \/ (On(dirtB, i) = {} /\ act[i] # Null)
              /\ UNCHANGED <<gc, dirtB>>
           \/ /\ gc[i] = Null
              /\ \E b \in On(dirtB, i) : /\ gc' = [gc EXCEPT ![i] = b]
                                         /\ dirtB' = dirtB \ {b}
        /\ \/ op = "bgc" /\ i + 1 = NumChips /\ Return
           \/ /\ op = "write" \/ i + 1 < NumChips
              /\ ForEachChip("alloc")
              /\ UNCHANGED <<rp, lpos, dpos, pos, Rest>>
  /\ UNCHANGED <<flash, freeB, usedB, l2p, act, mru, gcm>>

----------------------------------------------------------------------------
(* Background collection: one round of trigger_bg_gc, run whenever the     *)
(* device was idle, or a request lasted, longer than BGC_TH_INTV.          *)

trigger_bg_gc ==
  /\ pc = "idle" /\ bgcAlive
  /\ op' = "bgc"
  /\ \/ act[mru] = Null /\ pc' = "bgc_prepare" /\ UNCHANGED <<gcm, loops>>
     \/ /\ act[mru] # Null /\ pc' = "bgc_set_vic" /\ init_gcm
        /\ UNCHANGED <<vic, fvp, lpas, datas>>
  /\ UNCHANGED <<flash, lists, l2p, act, gc, mru, target, wl, wd, retried, env>>

(* Every chip, from the next one on, erases its GC block, as its active    *)
(* block if it has none and as a free block otherwise.                     *)
fb_bgc_prepare_act_blks ==
  LET c == get_next_bus_chip IN
  /\ pc = "bgc_prepare"
  /\ \/ /\ gc[c] = Null /\ Fail
        /\ UNCHANGED <<flash, lists, act, gc, mru>>
     \/ /\ gc[c] # Null
        /\ Erase(gc[c])
        /\ \/ act[c] = Null /\ act' = [act EXCEPT ![c] = gc[c]] /\ freeB' = freeB
           \/ act[c] # Null /\ freeB' = freeB \union {gc[c]} /\ act' = act
        /\ \/ /\ On(dirtB, c) = {}
              /\ gc' = [gc EXCEPT ![c] = Null] /\ dirtB' = dirtB
           \/ \E b \in On(dirtB, c) : /\ gc' = [gc EXCEPT ![c] = b]
                                      /\ dirtB' = dirtB \ {b}
        /\ mru' = c
        /\ \/ i + 1 = NumChips /\ Return
           \/ /\ i + 1 < NumChips /\ i' = i + 1
              /\ UNCHANGED <<pc, rp, lpos, dpos, pos, Rest>>
        /\ UNCHANGED usedB
  /\ UNCHANGED <<l2p, gcm>>

(* A chip short of dirt and free blocks keeps the victim it has, while a   *)
(* page from its first valid one on is not fully invalid, or gets another. *)
KeepsVictim ==
  vic[i] # Null /\ find_first_valid_pg(vic[i], fvp[i]) < NumPages

Short == Cardinality(On(dirtB, i)) + Cardinality(On(freeB, i)) < BgcTh

(* A victim nobody chose is looked at, or a page behind the last one.      *)
WildVictim ==
  \/ pc = "bgc_set_vic" /\ Short /\ vic[i] = Wild
  \/ pc = "bgc_read" /\ LET c == get_next_bus_chip
                       IN  vic[c] # Null /\ fvp[c] = NumPages

BgcWild == WildVictim /\ Crash

fb_bgc_set_vic_blks ==
  LET victims == select_vic_blk_from_used(i) IN
  /\ pc = "bgc_set_vic" /\ ~WildVictim
  /\ \/ /\ Short /\ KeepsVictim
        /\ fvp' = [fvp EXCEPT ![i] = find_first_valid_pg(vic[i], fvp[i])]
        /\ ForEachChip("bgc_read")
        /\ UNCHANGED <<vic, rp, lpos, dpos, pos, Rest>>
     \/ /\ Short /\ ~KeepsVictim /\ victims # {}
        /\ \E b \in victims :
             /\ vic' = [vic EXCEPT ![i] = b]
             /\ fvp' = [fvp EXCEPT ![i] = find_first_valid_pg(b, 0)]
        /\ ForEachChip("bgc_read")
        /\ UNCHANGED <<rp, lpos, dpos, pos, Rest>>
     \/ /\ Short /\ ~KeepsVictim /\ victims = {}
        /\ Fail
        /\ vic' = [vic EXCEPT ![i] = Null]
        /\ fvp' = IF vic[i] = Null THEN fvp ELSE [fvp EXCEPT ![i] = NumPages]
     \/ /\ ~Short
        /\ vic' = [vic EXCEPT ![i] = Null] /\ fvp' = [fvp EXCEPT ![i] = 0]
        /\ ForEachChip("bgc_read")
        /\ UNCHANGED <<rp, lpos, dpos, pos, Rest>>
  /\ UNCHANGED <<flash, lists, l2p, act, gc, mru, nrToCopy, lpas, datas>>

(* The first valid page of every victim, from the next chip on.            *)
fb_bgc_read_valid_pgs ==
  LET c == get_next_bus_chip IN
  /\ pc = "bgc_read" /\ ~WildVictim
  /\ \/ /\ vic[c] # Null /\ FullyInvalid(vic[c], fvp[c]) /\ Fail
        /\ UNCHANGED <<mru, nrToCopy, lpas, datas>>
     \/ /\ \/ /\ Readable(c, fvp[c])
              /\ ReadPage(vic[c], fvp[c])
              /\ nrToCopy' = nrToCopy + NumLps - pgInv[<<vic[c], fvp[c]>>]
           \/ vic[c] = Null /\ UNCHANGED <<lpas, datas, lpos, dpos, nrToCopy>>
        /\ mru' = c
        /\ ForEachChip("bgc_prog")
        /\ UNCHANGED <<rp, pos, Rest>>
  /\ UNCHANGED <<flash, lists, l2p, act, gc, vic, fvp>>

(* Nothing to copy ends the round.                                         *)
BgcProg ==
  /\ pc = "bgc_prog"
  /\ \/ nrToCopy = 0 /\ Return
     \/ nrToCopy # 0 /\ pc' = "prog" /\ UNCHANGED <<loops, Rest>>
  /\ UNCHANGED <<flash, lists, gcm, l2p, act, gc, mru>>

----------------------------------------------------------------------------
Request ==
  \/ \E l \in Lpa : Invalidate(l)
  \/ \E l \in [Ofs -> Lpa], d \in [Ofs -> Data] : WriteStart(l, d)

(* The steps of an operation once it holds the lock.                       *)
Write == WriteAlloc \/ MapWild \/ MapInvalidate \/ MapLp \/ UpdateActBlk

Collect ==
  \/ prepare_act_blks \/ set_vic_blks \/ ReadFirst \/ get_valid_pgs_in_vic_blks
  \/ prog_valid_pgs_to_gc_blks \/ update_gc_blks

BgcRound ==
  \/ fb_bgc_prepare_act_blks \/ BgcWild \/ fb_bgc_set_vic_blks
  \/ fb_bgc_read_valid_pgs \/ BgcProg

Step == Write \/ Collect \/ BgcRound
Next == Request \/ trigger_bg_gc \/ Step

Spec == Init /\ [][Next]_vars

(* No round keeps a victim that has left the used list since the round     *)
(* that chose it.                                                          *)
FreshVictim == pc = "bgc_set_vic" /\ Short => vic[i] \in usedB \union {Null}

(* Nor does the host write what is still mapped, as a request does that    *)
(* overlaps with the pages it makes the write buffer flush.                *)
FreshWrite == op = "none" /\ op' = "write" => \A o \in Ofs : disk[wl'[o]] = Unmapped
FreshSpec == Init /\ [][Next /\ FreshVictim /\ FreshWrite]_vars

(* A device whose collector thread never gets to run.                      *)
FgSpec == Init /\ [][Request \/ Write \/ Collect]_vars

(* An operation that holds the lock runs on: nothing it waits for here can *)
(* be withheld.                                                            *)
FairSpec == Spec /\ WF_vars(Step)
----------------------------------------------------------------------------
(* Properties.                                                             *)

BlockOrNull == Block \union {Null}
Status == {"FREE", "VALID", "INVALID"}
Content == Data \union {Unmapped, Wild}
Pc == {"idle", "alloc", "map", "update_act_blk", "prepare_act_blks", "set_vic_blks",
       "read_first", "read", "prog", "update_gc_blks", "bgc_prepare", "bgc_set_vic",
       "bgc_read", "bgc_prog", "crashed"}

FlashType ==
  /\ status \in [Slot -> Status]
  /\ owner \in [Slot -> Lpa \union {Unmapped, Wild}]
  /\ store \in [Slot -> Content]
  /\ pgInv \in [Block \X Page -> Int]
  /\ nrFree \in [Block -> Int] /\ nrInvPgs \in [Block -> Int]
  /\ nrValLps \in [Block -> Int] /\ nrInvLps \in [Block -> Int]
ListType ==
  /\ l2p \in [Lpa -> Slot \union {Unmapped}]
  /\ freeB \in SUBSET Block /\ usedB \in SUBSET Block /\ dirtB \in SUBSET Block
  /\ act \in [Chip -> BlockOrNull] /\ gc \in [Chip -> BlockOrNull]
  /\ mru \in Chip
GcmType ==
  /\ vic \in [Chip -> BlockOrNull \union {Wild}] /\ fvp \in [Chip -> 0 .. NumPages]
  /\ nrToCopy \in Int
  /\ lpas \in [CopyIdx -> Lpa \union {Unmapped, Wild}]
  /\ datas \in [CopyIdx -> Content]
CallType ==
  /\ op \in {"none", "write", "bgc"} /\ pc \in Pc
  /\ i \in Chip /\ rp \in Page /\ lpos \in Int /\ dpos \in Int /\ pos \in Int
  /\ job \in {"none", "host", "copy"}
  /\ blk \in BlockOrNull /\ pg \in Page /\ ofs \in Ofs
  /\ wl \in [Ofs -> Lpa \union {Unmapped}] /\ wd \in [Ofs -> Data \union {Unmapped}]
EnvType ==
  /\ retried \in BOOLEAN /\ err \in BOOLEAN /\ bgcAlive \in BOOLEAN
  /\ disk \in [Lpa -> Data \union {Unmapped}]

(* Type invariant.  Counters the code keeps in u32 are integers: that none *)
(* goes below zero is part of CountersMatch.                               *)
TypeOK == FlashType /\ ListType /\ GcmType /\ CallType /\ EnvType

(* The mapping table and the status of the slots say the same: a mapped    *)
(* LPA has a valid slot that names it, and every valid slot is the one its *)
(* LPA is mapped to.                                                       *)
MapInv ==
  /\ \A l \in Lpa : l2p[l] # Unmapped => status[l2p[l]] = "VALID" /\ owner[l2p[l]] = l
  /\ \A s \in Slot : status[s] = "VALID" => owner[s] \in Lpa /\ l2p[owner[s]] = s

(* A block that may be erased next, the GC block of a chip, and one that   *)
(* may become it hold no valid page.                                       *)
EraseSafe ==
  \A s \in Slot : s[1] \in dirtB \/ s[1] = gc[ChipOf[s[1]]] => status[s] # "VALID"

(* Every block is in exactly one of the places the code keeps it: active,  *)
(* GC, or on one of the three lists.  The block being programmed is active.*)
Places ==
  \A b \in Block :
    LET c == ChipOf[b]
        here == {p \in {"act", "gc", "free", "used", "dirt"} :
                   \/ p = "act" /\ act[c] = b
                   \/ p = "gc" /\ gc[c] = b
                   \/ p = "free" /\ b \in freeB
                   \/ p = "used" /\ b \in usedB
                   \/ p = "dirt" /\ b \in dirtB}
    IN  Cardinality(here) = 1

SlotsOf(b, st) == {s \in Slot : s[1] = b /\ status[s] = st}

(* The counters greedy victim selection and retirement rely on are the     *)
(* numbers of slots and pages with the status they count.                  *)
CountersMatch ==
  /\ \A b \in Block, p \in Page :
       pgInv[<<b, p>>] = Cardinality({o \in Ofs : status[<<b, p, o>>] = "INVALID"})
  /\ \A b \in Block :
       /\ nrValLps[b] = Cardinality(SlotsOf(b, "VALID"))
       /\ nrInvLps[b] = Cardinality(SlotsOf(b, "INVALID"))
       /\ nrInvPgs[b] = Cardinality({p \in Page : FullyInvalid(b, p)})
       /\ pc = "idle" => nrFree[b] * NumLps = Cardinality(SlotsOf(b, "FREE"))

(* No page is programmed twice without an erase: the offsets to be mapped  *)
(* next are free.                                                          *)
ProgramsFreeOnly ==
  pc = "map" => \A o \in ofs .. NumLps - 1 : status[<<blk, pg, o>>] = "FREE"

(* A read of discarded data does not return the stale data (main.c:218):   *)
(* an LPA discarded, or rewritten and still in the buffer, is not mapped.  *)
DiscardsStay == \A l \in Lpa : disk[l] = Unmapped => l2p[l] = Unmapped

(* What a read finds is what the host wrote last, as long as requests are   *)
(* served; a page being written is not read before it is mapped.           *)
DataInv ==
  /\ DiscardsStay
  /\ ~err => \A l \in Lpa : l2p[l] = Unmapped \/ (\E o \in Ofs : wl[o] = l) \/ store[l2p[l]] = disk[l]

(* Nothing written is lost: between operations, every LPA handed down      *)
(* since its last discard is mapped, unless a write failed.                *)
NothingLost ==
  pc = "idle" /\ ~err => \A l \in Lpa : disk[l] # Unmapped => l2p[l] # Unmapped

(* As long as a free block exists, it is used for active block             *)
(* (gc_page_mapping.c:20): outside UpdateActBlk a chip with a free block   *)
(* has an active one.                                                      *)
ActBeforeFree == \A c \in Chip : act[c] = Null => On(freeB, c) = {}

(* A foreground collection that succeeds leaves every chip a GC block, so  *)
(* that the next one can start.                                            *)
GcAfterCollect ==
  [][pc = "update_gc_blks" /\ pc' = "alloc" => \A c \in Chip : gc'[c] # Null]_vars

(* The collector makes room in time: no write request of the host fails.   *)
WritesSucceed == [][err' => err]_vars

(* An operation ends.                                                      *)
Terminates == pc # "idle" ~> pc \in {"idle", "crashed"}
=============================================================================
