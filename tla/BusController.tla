---------------------------- MODULE BusController ----------------------------
(***************************************************************************)
(* The bus controller of one bus: a ring buffer of operations and a busy   *)
(* time per chip, the thread that releases chips and starts operations,    *)
(* and the bios of reads, which end when their last operation is done.     *)
(* Buses share nothing but bios, so one stands for all.                    *)
(*                                                                         *)
(* Who calls: make_request, which issues the pages of a read one by one    *)
(* and counts down those that are not mapped, and FTL operations (flushes, *)
(* collections), whose operations belong to no bio.  Both hold the mapping *)
(* lock while they issue and spin as long as the queue is full.            *)
(*                                                                         *)
(* queue_lock and bio_lock are leaf locks (CompletionLock): what is done   *)
(* under one of them is one step here.  Time is a clock of W microseconds, *)
(* W = 2^32 in the code.                                                   *)
(***************************************************************************)
EXTENDS Integers, Sequences, FiniteSets

CONSTANTS
  NumChips,    \* NUM_CHIPS_PER_BUS
  MaxEntries,  \* NUM_MAX_ENTRIES_OPR_QUEUE
  W,           \* the clock counts modulo W
  MaxLag,      \* the thread looks at the clock at least every MaxLag ticks
  OpTime,      \* operation_time: how long an operation keeps its chip busy
  FtlOps,      \* the operations FTL operations issue
  Bio,         \* the memory of fb_bio_t structures
  MaxReq,      \* pages of a read, at most
  NoBio,       \* no bio
  NoEntry      \* a slot of the ring that holds nothing that waits

Chip == 0 .. NumChips - 1
Index == 0 .. MaxEntries - 1
Time == 0 .. W - 1
Op == DOMAIN OpTime
Entry == [op : Op, bio : Bio \union {NoBio}]

ASSUME BusAssumption ==
  /\ NumChips \in Nat \ {0} /\ MaxEntries \in Nat \ {0}
  /\ W \in Nat \ {0} /\ MaxLag \in Nat /\ MaxReq \in Nat
  /\ "READ" \in Op /\ FtlOps \subseteq Op
  /\ OpTime \in [Op -> 1 .. W - 1]
  /\ NoBio \notin Bio /\ NoEntry \notin Bio \union {NoBio}

VARIABLES
  list, num, head, tail,     \* of a chip: opr_list, num_entries, queue_head, queue_tail
  wakeup, issued, chipBio,   \* of a chip: fb_chip_busy_t
  clock, lag,                \* the time, and the ticks since the thread read it
  pc, now, k,                \* the bus thread: current_time_in_us, loop_chip
  live, reqCount, ended,     \* of a bio: allocated, req_count, times bio_endio was called
  hpc, hbio, left, hchip,    \* make_request: its bio and the pages of it still to do
  fpc, fchip, fop,           \* an FTL operation and what it is about to issue
  mapLock                    \* who holds mapping_context_lock

queue  == <<list, num, head, tail>>
busy   == <<wakeup, issued, chipBio>>
time   == <<clock, lag>>
thread == <<pc, now, k>>
bios   == <<live, reqCount, ended>>
host   == <<hpc, hbio, left, hchip>>
ftl    == <<fpc, fchip, fop>>
vars   == <<queue, busy, time, thread, bios, host, ftl, mapLock>>

(* create_bus_controller and create_opr_queue.                             *)
Init ==
  /\ list = [c \in Chip |-> [x \in Index |-> NoEntry]]
  /\ num = [c \in Chip |-> 0]
  /\ head = [c \in Chip |-> 0] /\ tail = [c \in Chip |-> 0]
  /\ wakeup = [c \in Chip |-> 0] /\ issued = [c \in Chip |-> 0]
  /\ chipBio = [c \in Chip |-> NoBio]
  /\ clock = 0 /\ lag = 0
  /\ pc = "sample" /\ now = 0 /\ k = 0
  /\ live = {} /\ reqCount = [b \in Bio |-> 0] /\ ended = [b \in Bio |-> 0]
  /\ hpc = "idle" /\ hbio = NoBio /\ left = 0 /\ hchip = 0
  /\ fpc = "idle" /\ fchip = 0 /\ fop = "READ"
  /\ mapLock = "free"

----------------------------------------------------------------------------
(* The ring buffer.                                                        *)

March(x) == IF x + 1 = MaxEntries THEN 0 ELSE x + 1

(* Mutant: the entry is stored where the oldest one is. *)
PutAtTail(c, e) ==
  /\ num[c] # MaxEntries
  /\ list' = [list EXCEPT ![c][tail[c]] = e]
  /\ head' = [head EXCEPT ![c] = March(@)]
  /\ num' = [num EXCEPT ![c] = @ + 1]
  /\ tail' = tail

(* Mutant: the queue is taken to have room. *)
PutIntoFull(c, e) ==
  /\ list' = [list EXCEPT ![c][head[c]] = e]
  /\ head' = [head EXCEPT ![c] = March(@)]
  /\ num' = [num EXCEPT ![c] = @ + 1]
  /\ tail' = tail

opr_queue_put_entry(c, e) ==
  /\ num[c] # MaxEntries
  /\ list' = [list EXCEPT ![c][head[c]] = e]
  /\ head' = [head EXCEPT ![c] = March(@)]
  /\ num' = [num EXCEPT ![c] = @ + 1]
  /\ tail' = tail

(* Mutant: the entry is forgotten but its slot stays taken. *)
RemoveKeepsCount(c) ==
  /\ tail' = [tail EXCEPT ![c] = March(@)]
  /\ UNCHANGED <<list, num, head>>

(* What the slot still holds is forgotten here: the next put overwrites it. *)
opr_queue_remove_first(c) ==
  /\ list' = [list EXCEPT ![c][tail[c]] = NoEntry]
  /\ tail' = [tail EXCEPT ![c] = March(@)]
  /\ num' = [num EXCEPT ![c] = @ - 1]
  /\ head' = head

First(c) == list[c][tail[c]]

----------------------------------------------------------------------------
(* Bios.                                                                   *)

dec_bio_req_count(b) == reqCount' = [reqCount EXCEPT ![b] = @ - 1]

(* bio_endio and vfree. *)
EndBio(b) ==
  /\ ended' = [ended EXCEPT ![b] = @ + 1]
  /\ live' = live \ {b}
  /\ reqCount' = reqCount

----------------------------------------------------------------------------
(* make_request, for a read.                                               *)

(* fb_build_bio: n pages are not in the write buffer.                      *)
Build(b, n) ==
  /\ hpc = "idle" /\ b \notin live
  /\ reqCount' = [reqCount EXCEPT ![b] = n]
  /\ \/ /\ n = 0 /\ ended' = [ended EXCEPT ![b] = 1]
        /\ UNCHANGED <<live, host>>
     \/ /\ n > 0 /\ ended' = [ended EXCEPT ![b] = 0] /\ live' = live \union {b}
        /\ hpc' = "loop" /\ hbio' = b /\ left' = n /\ hchip' = hchip
  /\ UNCHANGED <<queue, busy, time, thread, ftl, mapLock>>

(* make_read_request_page_mapping: the page is on a chip or not mapped.    *)
Lookup ==
  /\ hpc = "loop" /\ left > 0 /\ mapLock = "free"
  /\ \/ hpc' = "dec" /\ UNCHANGED <<hchip, mapLock>>
     \/ hpc' = "issue" /\ hchip' \in Chip /\ mapLock' = "host"
  /\ UNCHANGED <<queue, busy, time, thread, bios, hbio, left, ftl>>

HostIssue ==
  /\ hpc = "issue"
  /\ opr_queue_put_entry(hchip, [op |-> "READ", bio |-> hbio])
  /\ mapLock' = "free" /\ hpc' = "loop" /\ left' = left - 1 /\ hchip' = 0
  /\ UNCHANGED <<busy, time, thread, bios, hbio, ftl>>

HostDec ==
  /\ hpc = "dec"
  /\ dec_bio_req_count(hbio)
  /\ hpc' = IF reqCount'[hbio] = 0 THEN "end" ELSE "loop"
  /\ left' = left - 1
  /\ UNCHANGED <<queue, busy, time, thread, live, ended, hbio, hchip, ftl, mapLock>>

HostEnd ==
  /\ hpc = "end"
  /\ EndBio(hbio)
  /\ hpc' = "loop"
  /\ UNCHANGED <<queue, busy, time, thread, hbio, left, hchip, ftl, mapLock>>

HostReturn ==
  /\ hpc = "loop" /\ left = 0
  /\ hpc' = "idle" /\ hbio' = NoBio
  /\ UNCHANGED <<queue, busy, time, thread, bios, left, hchip, ftl, mapLock>>

HostStep == Lookup \/ HostIssue \/ HostDec \/ HostEnd \/ HostReturn

----------------------------------------------------------------------------
(* An FTL operation issues as many operations as it likes before it gives  *)
(* the mapping lock back.                                                  *)

FtlLock ==
  /\ fpc = "idle" /\ mapLock = "free"
  /\ mapLock' = "ftl" /\ fpc' = "issue"
  /\ fchip' \in Chip /\ fop' \in FtlOps
  /\ UNCHANGED <<queue, busy, time, thread, bios, host>>

FtlIssue ==
  /\ fpc = "issue"
  /\ opr_queue_put_entry(fchip, [op |-> fop, bio |-> NoBio])
  /\ \/ fchip' \in Chip /\ fop' \in FtlOps /\ UNCHANGED <<fpc, mapLock>>
     \/ fpc' = "idle" /\ mapLock' = "free" /\ fchip' = 0 /\ fop' = "READ"
  /\ UNCHANGED <<busy, time, thread, bios, host>>

----------------------------------------------------------------------------
(* fb_bus_ctrl_thread.                                                     *)

(* After chip k: the next one, or the next loop.                           *)
NextChip(here, after) ==
  \/ k + 1 < NumChips /\ k' = k + 1 /\ pc' = here
  \/ k + 1 = NumChips /\ k' = 0 /\ pc' = after

Sample ==
  /\ pc = "sample"
  /\ now' = clock /\ lag' = 0 /\ pc' = "release" /\ k' = k
  /\ UNCHANGED <<queue, busy, clock, bios, host, ftl, mapLock>>

(* Mutant: the clock must have passed the wake-up time. *)
DueLate == wakeup[k] > 0 /\ wakeup[k] < now
Due == wakeup[k] > 0 /\ wakeup[k] <= now

(* Mutant: the bio is left with the chip. *)
ReleaseKeepsBio ==
  /\ wakeup' = [wakeup EXCEPT ![k] = 0] /\ issued' = [issued EXCEPT ![k] = 0]
  /\ \/ /\ chipBio[k] = NoBio /\ UNCHANGED <<chipBio, reqCount>>
        /\ NextChip("release", "check")
     \/ /\ chipBio[k] # NoBio /\ dec_bio_req_count(chipBio[k])
        /\ chipBio' = chipBio
        /\ \/ reqCount'[chipBio[k]] = 0 /\ pc' = "end" /\ k' = k
           \/ reqCount'[chipBio[k]] # 0 /\ NextChip("release", "check")

release_busy_lock ==
  /\ wakeup' = [wakeup EXCEPT ![k] = 0] /\ issued' = [issued EXCEPT ![k] = 0]
  /\ \/ /\ chipBio[k] = NoBio /\ UNCHANGED <<chipBio, reqCount>>
        /\ NextChip("release", "check")
     \/ /\ chipBio[k] # NoBio /\ dec_bio_req_count(chipBio[k])
        /\ \/ reqCount'[chipBio[k]] = 0 /\ chipBio' = chipBio /\ pc' = "end" /\ k' = k
           \/ /\ reqCount'[chipBio[k]] # 0 /\ chipBio' = [chipBio EXCEPT ![k] = NoBio]
              /\ NextChip("release", "check")

Release ==
  /\ pc = "release"
  /\ \/ Due /\ release_busy_lock
     \/ ~Due /\ NextChip("release", "check") /\ UNCHANGED <<busy, reqCount>>
  /\ UNCHANGED <<queue, time, now, live, ended, host, ftl, mapLock>>

End ==
  /\ pc = "end"
  /\ EndBio(chipBio[k])
  /\ chipBio' = [chipBio EXCEPT ![k] = NoBio]
  /\ NextChip("release", "check")
  /\ UNCHANGED <<queue, wakeup, issued, time, now, host, ftl, mapLock>>

is_acquired(c) == wakeup[c] # 0 \/ issued[c] # 0

(* Mutant: a free chip is taken to have an operation that waits. *)
CheckBusyOnly ==
  /\ pc = "check"
  /\ \/ is_acquired(k) /\ NextChip("check", "sample")
     \/ ~is_acquired(k) /\ pc' = "first" /\ k' = k
  /\ now' = 0
  /\ UNCHANGED <<queue, busy, time, bios, host, ftl, mapLock>>

(* An operation waits and the chip is free; num_entries is read without    *)
(* the lock.                                                               *)
Check ==
  /\ pc = "check"
  /\ \/ /\ num[k] = 0 \/ is_acquired(k)
        /\ NextChip("check", "sample")
     \/ /\ num[k] # 0 /\ ~is_acquired(k)
        /\ pc' = "first" /\ k' = k
  /\ now' = 0
  /\ UNCHANGED <<queue, busy, time, bios, host, ftl, mapLock>>

(* Mutant: the operation is not handed to the chip. *)
AcquireNoBio ==
  /\ issued' = [issued EXCEPT ![k] = clock]
  /\ wakeup' = [wakeup EXCEPT ![k] = (clock + OpTime[First(k).op]) % W]
  /\ chipBio' = chipBio

acquire_busy_lock ==
  /\ issued' = [issued EXCEPT ![k] = clock]
  /\ wakeup' = [wakeup EXCEPT ![k] = (clock + OpTime[First(k).op]) % W]
  /\ chipBio' = [chipBio EXCEPT ![k] = First(k).bio]

(* That opr_queue_get_first finds the queue empty, which would end the     *)
(* thread, is what NeverEmpty excludes.                                    *)
Acquire ==
  /\ pc = "first"
  /\ acquire_busy_lock
  /\ pc' = "remove"
  /\ UNCHANGED <<queue, time, now, k, bios, host, ftl, mapLock>>

Remove ==
  /\ pc = "remove"
  /\ opr_queue_remove_first(k)
  /\ NextChip("check", "sample")
  /\ UNCHANGED <<busy, time, now, bios, host, ftl, mapLock>>

BusThread == Sample \/ Release \/ End \/ Check \/ Acquire \/ Remove

(* Time passes, but never MaxLag microseconds without the thread, which    *)
(* polls at the highest priority, reading the clock.                       *)
Tick ==
  /\ lag < MaxLag
  /\ clock' = (clock + 1) % W /\ lag' = lag + 1
  /\ UNCHANGED <<queue, busy, thread, bios, host, ftl, mapLock>>

----------------------------------------------------------------------------
NewRead == \E b \in Bio, n \in 0 .. MaxReq : Build(b, n)

Next == \/ NewRead \/ HostStep \/ FtlLock \/ FtlIssue
        \/ BusThread \/ Tick

Spec == Init /\ [][Next]_vars

(* The bus thread never waits for long, and time passes.                   *)
FairSpec == Spec /\ WF_vars(BusThread) /\ WF_vars(Tick)
----------------------------------------------------------------------------
(* Properties.                                                             *)

(* Type invariant. *)
TypeOK ==
  /\ list \in [Chip -> [Index -> Entry \union {NoEntry}]]
  /\ num \in [Chip -> 0 .. MaxEntries]
  /\ head \in [Chip -> Index] /\ tail \in [Chip -> Index]
  /\ wakeup \in [Chip -> Time] /\ issued \in [Chip -> Time]
  /\ chipBio \in [Chip -> Bio \union {NoBio}]
  /\ clock \in Time /\ lag \in 0 .. MaxLag /\ now \in Time /\ k \in Chip
  /\ pc \in {"sample", "release", "end", "check", "first", "remove"}
  /\ live \subseteq Bio /\ reqCount \in [Bio -> 0 .. MaxReq] /\ ended \in [Bio -> 0 .. 1]
  /\ hpc \in {"idle", "loop", "issue", "dec", "end"}
  /\ hbio \in Bio \union {NoBio} /\ left \in 0 .. MaxReq /\ hchip \in Chip
  /\ fpc \in {"idle", "issue"} /\ fchip \in Chip /\ fop \in Op
  /\ mapLock \in {"free", "host", "ftl"}

(* Head and tail of a ring are as far apart as it has entries, so that a   *)
(* put never overwrites an operation that waits.  Slot is where the x-th   *)
(* of them is.                                                             *)
Slot(c, x) == IF tail[c] + x < MaxEntries THEN tail[c] + x ELSE tail[c] + x - MaxEntries
Ring == \A c \in Chip : head[c] = Slot(c, num[c])

(* "Operation queue should not be empty" (bus_controller.c:348): an        *)
(* operation seen without the queue lock is still there when it is fetched *)
(* and removed.                                                            *)
NeverEmpty == pc \in {"first", "remove"} => num[k] > 0

(* The operations of a chip that wait: those in its ring, without the one  *)
(* that was started and is about to be removed.                            *)
Started(c) == IF pc = "remove" /\ k = c THEN 1 ELSE 0
At(c, x) == list[c][Slot(c, x)]
Waiting(c) == [x \in 1 .. num[c] - Started(c) |-> At(c, x - 1 + Started(c))]

Queued(b) == {q \in Chip \X Index : /\ q[2] \in Started(q[1]) .. num[q[1]] - 1
                                   /\ At(q[1], q[2]).bio = b}
Running(b) == {c \in Chip : chipBio[c] = b /\ ~(pc = "end" /\ k = c)}

(* req_count is the number of pages of a read that are still to be looked  *)
(* up, waiting or being read: whoever counts the last one down ends the    *)
(* bio, and nobody does before.                                            *)
CountsRequests ==
  \A b \in live : reqCount[b] = Cardinality(Queued(b)) + Cardinality(Running(b))
                                + IF hbio = b THEN left ELSE 0

(* A bio is ended once, when its memory is freed, and nothing refers to    *)
(* that memory afterwards: no operation, no chip, no page still to do.     *)
BioLifetime ==
  /\ \A b \in live : ended[b] = 0
  /\ \A b \in Bio \ live : /\ Queued(b) = {} /\ \A c \in Chip : chipBio[c] # b
                           /\ hbio = b => left = 0 /\ hpc = "loop"

(* The chips see the operations in the order they were issued, one at a    *)
(* time, none lost or twice, whatever the clock does.                      *)
Pipeline == INSTANCE ChipPipeline WITH
  Idle <- NoEntry,
  pending <- [c \in Chip |-> Waiting(c)],
  running <- [c \in Chip |-> IF is_acquired(c) THEN chipBio[c] ELSE NoEntry]
InOrder == Pipeline!Spec

(* While no wake-up time falls on the turn of the clock or right before    *)
(* it, the thread makes room in every queue and ends every read.           *)
NoWrap == \A c \in Chip : is_acquired(c) => wakeup[c] \in 1 .. W - MaxLag
ReadsEnd == \A b \in Bio : b \in live /\ hbio # b ~> b \notin live
QueuesDrain == \A c \in Chip : num[c] = MaxEntries ~> num[c] < MaxEntries
Progress == []NoWrap => ReadsEnd /\ QueuesDrain

(* "Release bus locks whose conditions are satisfied" (bus_controller.c:271 *)
(* and :317): the thread releases every chip some time after its operation *)
(* began.                                                                  *)
ChipsReleased == \A c \in Chip : is_acquired(c) ~> ~is_acquired(c)
=============================================================================
