------------------------ MODULE BusControllerProofs ------------------------
(***************************************************************************)
(* For any number of chips, any ring size, any operation times and any     *)
(* clock width: the rings are never corrupted, the bus thread never finds  *)
(* one empty, and every chip sees its operations in order (ChipPipeline).  *)
(***************************************************************************)
EXTENDS BusController, TLAPS, SequenceTheorems

(* The part of the type invariant the queues and the thread depend on.     *)
Typed ==
  /\ list \in [Chip -> [Index -> Entry \union {NoEntry}]]
  /\ num \in [Chip -> 0 .. MaxEntries]
  /\ head \in [Chip -> Index] /\ tail \in [Chip -> Index]
  /\ wakeup \in [Chip -> Time] /\ issued \in [Chip -> Time]
  /\ chipBio \in [Chip -> Bio \union {NoBio}]
  /\ clock \in Time /\ k \in Chip
  /\ pc \in {"sample", "release", "end", "check", "first", "remove"}
  /\ hbio \in Bio \union {NoBio} /\ hchip \in Chip
  /\ fchip \in Chip /\ fop \in Op

(* What a ring counts is operations. *)
Slots == \A c \in Chip : \A x \in 0 .. num[c] - 1 : At(c, x) \in Entry

(* The chip whose bio is being ended or which is about to be given an      *)
(* operation is free, and the one that was just given the operation about  *)
(* to be removed is not.                                                   *)
Granted == /\ pc \in {"first", "end"} => ~is_acquired(k)
           /\ pc = "remove" => is_acquired(k)

(* The inductive invariant. *)
IInv == Typed /\ Ring /\ Slots /\ NeverEmpty /\ Granted

----------------------------------------------------------------------------
(* The ring buffer.                                                        *)

(* An index stays in the ring. *)
LEMMA Marched == ASSUME NEW x \in Index PROVE March(x) \in Index
BY BusAssumption DEF March, Index

(* A put adds its entry behind those that wait, in a ring with room. *)
LEMMA Put ==
  ASSUME Typed, Ring, NEW c \in Chip, NEW e \in Entry, opr_queue_put_entry(c, e)
  PROVE  /\ list' \in [Chip -> [Index -> Entry \union {NoEntry}]]
         /\ num[c] < MaxEntries /\ num' = [num EXCEPT ![c] = @ + 1]
         /\ num' \in [Chip -> 0 .. MaxEntries]
         /\ head' \in [Chip -> Index] /\ tail' = tail
         /\ Ring'
         /\ list'[c][Slot(c, num[c])] = e
         /\ \A x \in 0 .. num[c] - 1 : list'[c][Slot(c, x)] = list[c][Slot(c, x)]
         /\ \A d \in Chip \ {c} : list'[d] = list[d]
<1>1. MaxEntries \in Nat \ {0}
  BY BusAssumption
<1>2. /\ num[c] \in 0 .. MaxEntries - 1 /\ head[c] \in Index /\ tail[c] \in Index
      /\ head[c] = Slot(c, num[c])
  BY <1>1 DEF Typed, Ring, opr_queue_put_entry
<1>3. /\ list' \in [Chip -> [Index -> Entry \union {NoEntry}]]
      /\ list'[c] = [list[c] EXCEPT ![head[c]] = e]
      /\ \A d \in Chip \ {c} : list'[d] = list[d]
  BY <1>2 DEF Typed, opr_queue_put_entry
<1>4. /\ num' = [num EXCEPT ![c] = @ + 1] /\ num' \in [Chip -> 0 .. MaxEntries]
      /\ num'[c] = num[c] + 1 /\ tail' = tail
  BY <1>1, <1>2 DEF Typed, opr_queue_put_entry
<1>a. /\ head' \in [Chip -> Index] /\ head'[c] = March(head[c])
      /\ \A d \in Chip \ {c} : head'[d] = head[d]
  BY <1>2, Marched DEF Typed, opr_queue_put_entry
<1>5. Ring'
  <2>1. March(head[c]) = Slot(c, num[c] + 1)
    BY <1>1, <1>2 DEF March, Slot, Index
  <2>2. head'[c] = Slot(c, num[c])'
    BY <2>1, <1>4, <1>a DEF Slot
  <2>3. ASSUME NEW d \in Chip \ {c} PROVE head'[d] = Slot(d, num[d])'
    BY <1>4, <1>a DEF Slot, Ring, Typed
  <2> QED BY <2>2, <2>3 DEF Ring
<1>6. list'[c][Slot(c, num[c])] = e
  BY <1>2, <1>3 DEF Typed
<1>7. ASSUME NEW x \in 0 .. num[c] - 1 PROVE list'[c][Slot(c, x)] = list[c][Slot(c, x)]
  <2>1. Slot(c, x) # head[c] /\ Slot(c, x) \in Index
    BY <1>1, <1>2 DEF Slot, Index
  <2> QED BY <2>1, <1>2, <1>3 DEF Typed
<1>8. num[c] < MaxEntries
  BY <1>1, <1>2
<1> QED BY <1>3, <1>4, <1>a, <1>5, <1>6, <1>7, <1>8

(* A removal moves every entry of a ring that is not empty one up. *)
LEMMA Removed ==
  ASSUME Typed, Ring, NEW c \in Chip, num[c] > 0, opr_queue_remove_first(c)
  PROVE  /\ list' \in [Chip -> [Index -> Entry \union {NoEntry}]]
         /\ num' = [num EXCEPT ![c] = @ - 1] /\ num' \in [Chip -> 0 .. MaxEntries]
         /\ head' = head /\ tail' \in [Chip -> Index]
         /\ \A d \in Chip \ {c} : tail'[d] = tail[d] /\ list'[d] = list[d]
         /\ Ring'
         /\ \A x \in 0 .. num[c] - 2 : At(c, x)' = At(c, x + 1)
<1>1. MaxEntries \in Nat \ {0}
  BY BusAssumption
<1>2. num[c] \in 1 .. MaxEntries /\ tail[c] \in Index /\ head[c] = Slot(c, num[c])
  BY <1>1 DEF Typed, Ring
<1>3. /\ list' \in [Chip -> [Index -> Entry \union {NoEntry}]]
      /\ list'[c] = [list[c] EXCEPT ![tail[c]] = NoEntry]
      /\ \A d \in Chip \ {c} : list'[d] = list[d]
  BY <1>2 DEF Typed, opr_queue_remove_first
<1>4. /\ num' = [num EXCEPT ![c] = @ - 1] /\ num' \in [Chip -> 0 .. MaxEntries]
  BY <1>1, <1>2 DEF Typed, opr_queue_remove_first
<1>5. /\ tail' \in [Chip -> Index] /\ head' = head
      /\ tail'[c] = March(tail[c]) /\ num'[c] = num[c] - 1
      /\ \A d \in Chip \ {c} : tail'[d] = tail[d] /\ num'[d] = num[d]
  BY <1>2, <1>4, Marched DEF Typed, opr_queue_remove_first
<1>6. Ring'
  <2>1. head'[c] = Slot(c, num[c])'
    BY <1>1, <1>2, <1>5 DEF Slot, March, Index
  <2>2. ASSUME NEW d \in Chip \ {c} PROVE head'[d] = Slot(d, num[d])'
    BY <1>5 DEF Ring, Slot
  <2> QED BY <2>1, <2>2 DEF Ring
<1>7. ASSUME NEW x \in 0 .. num[c] - 2 PROVE At(c, x)' = At(c, x + 1)
  <2>1. Slot(c, x)' = Slot(c, x + 1) /\ Slot(c, x + 1) # tail[c] /\ Slot(c, x + 1) \in Index
    BY <1>1, <1>2, <1>5 DEF Slot, March, Index
  <2> QED BY <2>1, <1>3 DEF At, Typed
<1> QED BY <1>3, <1>4, <1>5, <1>6, <1>7

(* Where nothing happens to the queues, they stay sound. *)
LEMMA SameQueues ==
  ASSUME IInv, UNCHANGED queue, Typed', NeverEmpty', Granted'
  PROVE  IInv'
BY DEF IInv, queue, Ring, Slots, Slot, At

(* An operation put into a queue, with the thread elsewhere, leaves them sound. *)
LEMMA PutIInv ==
  ASSUME IInv, NEW c \in Chip, NEW e \in Entry, opr_queue_put_entry(c, e),
         UNCHANGED <<wakeup, issued, chipBio, clock, k, pc>>,
         hbio' \in Bio \union {NoBio}, hchip' \in Chip, fchip' \in Chip, fop' \in Op
  PROVE  IInv'
<1>1. Typed /\ Ring /\ Slots /\ NeverEmpty /\ Granted
  BY DEF IInv
<1>2. Typed'
  BY <1>1, Put DEF Typed
<1>3. Slots'
  <2>1. ASSUME NEW x \in 0 .. num[c] PROVE list'[c][Slot(c, x)] \in Entry
    <3>1. CASE x = num[c]
      BY <1>1, <3>1, Put
    <3>2. CASE x # num[c]
      <4>1. x \in 0 .. num[c] - 1
        <5>1. num[c] \in Nat
          BY <1>1, BusAssumption DEF Typed
        <5> QED BY <5>1, <3>2
      <4> QED BY <4>1, <1>1, Put DEF Slots, At
    <3> QED BY <3>1, <3>2
  <2>2. tail' = tail /\ num' = [num EXCEPT ![c] = @ + 1]
    BY <1>1, Put
  <2>3. num[c] \in Nat /\ num'[c] = num[c] + 1 /\ \A d \in Chip \ {c} : num'[d] = num[d]
    BY <1>1, <2>2, BusAssumption DEF Typed
  <2>4. ASSUME NEW x \in 0 .. num'[c] - 1 PROVE At(c, x)' \in Entry
    BY <2>1, <2>2, <2>3 DEF At, Slot
  <2>5. ASSUME NEW d \in Chip \ {c}, NEW x \in 0 .. num'[d] - 1 PROVE At(d, x)' \in Entry
    BY <1>1, <2>2, <2>3, Put DEF At, Slot, Slots
  <2> QED BY <2>4, <2>5 DEF Slots
<1>4. NeverEmpty'
  <2>1. k \in Chip /\ num' = [num EXCEPT ![c] = @ + 1] /\ num \in [Chip -> 0 .. MaxEntries]
    BY <1>1, Put DEF Typed
  <2> QED BY <1>1, <2>1, BusAssumption DEF NeverEmpty
<1>5. Granted'
  BY <1>1 DEF Granted, is_acquired
<1> QED BY <1>1, <1>2, <1>3, <1>4, <1>5, Put DEF IInv

(* The operation the thread has just started leaves its queue. *)
LEMMA RemoveIInv ==
  ASSUME IInv, Remove
  PROVE  IInv'
<1>1. Typed /\ Ring /\ Slots /\ NeverEmpty /\ Granted
  BY DEF IInv
<1>2. PICK c \in Chip : c = k
  BY <1>1 DEF Typed
<1>3. /\ opr_queue_remove_first(c) /\ num[c] > 0
      /\ k' \in Chip /\ pc' \in {"check", "sample"}
      /\ UNCHANGED <<wakeup, issued, chipBio, clock, hbio, hchip, fchip, fop>>
  BY <1>1, <1>2, BusAssumption DEF Remove, NextChip, Typed, NeverEmpty, Chip, busy, time, host, ftl
<1>4. /\ list' \in [Chip -> [Index -> Entry \union {NoEntry}]]
      /\ num' = [num EXCEPT ![c] = @ - 1] /\ num' \in [Chip -> 0 .. MaxEntries]
      /\ head' = head /\ tail' \in [Chip -> Index]
      /\ \A d \in Chip \ {c} : tail'[d] = tail[d] /\ list'[d] = list[d]
      /\ Ring'
      /\ \A x \in 0 .. num[c] - 2 : At(c, x)' = At(c, x + 1)
  BY <1>1, <1>3, Removed
<1>5. Typed'
  BY <1>1, <1>3, <1>4 DEF Typed
<1>6. Slots'
  <2>1. num[c] \in Nat /\ num'[c] = num[c] - 1 /\ \A d \in Chip \ {c} : num'[d] = num[d]
    BY <1>1, <1>4, BusAssumption DEF Typed
  <2>2. ASSUME NEW x \in 0 .. num'[c] - 1 PROVE At(c, x)' \in Entry
    <3>1. x \in 0 .. num[c] - 2 /\ x + 1 \in 0 .. num[c] - 1
      BY <2>1
    <3> QED BY <1>1, <1>4, <3>1 DEF Slots
  <2>3. ASSUME NEW d \in Chip \ {c}, NEW x \in 0 .. num'[d] - 1 PROVE At(d, x)' \in Entry
    BY <1>1, <1>4, <2>1 DEF At, Slot, Slots
  <2> QED BY <2>2, <2>3 DEF Slots
<1> QED BY <1>3, <1>4, <1>5, <1>6 DEF IInv, NeverEmpty, Granted

(* The thread gives the oldest waiting operation to a chip that was free:  *)
(* whatever the clock, the chip counts as acquired from then on.           *)
LEMMA AcquireIInv ==
  ASSUME IInv, Acquire
  PROVE  /\ IInv'
         /\ First(k) = At(k, 0) /\ First(k) \in Entry
         /\ ~is_acquired(k) /\ is_acquired(k)'
         /\ chipBio' = [chipBio EXCEPT ![k] = First(k).bio]
         /\ \A d \in Chip \ {k} : is_acquired(d)' <=> is_acquired(d)
<1>1. Typed /\ Ring /\ Slots /\ NeverEmpty /\ Granted
  BY DEF IInv
<1>2. /\ pc = "first" /\ pc' = "remove" /\ k' = k /\ k \in Chip /\ num[k] > 0
      /\ ~is_acquired(k) /\ acquire_busy_lock /\ UNCHANGED <<queue, clock, hbio, hchip, fchip, fop>>
  BY <1>1 DEF Acquire, Typed, NeverEmpty, Granted, time, host, ftl
<1>3. First(k) = At(k, 0) /\ First(k) \in Entry
  <2>1. tail[k] \in Index /\ num[k] \in Nat
    BY <1>1, <1>2, BusAssumption DEF Typed
  <2>2. Slot(k, 0) = tail[k]
    BY <2>1, BusAssumption DEF Slot, Index
  <2> QED BY <1>1, <1>2, <2>1, <2>2 DEF Slots, At, First
<1>4. (clock + OpTime[First(k).op]) % W \in Time /\ (clock = 0 => OpTime[First(k).op] % W # 0)
  <2> DEFINE t == OpTime[First(k).op]
  <2>1. t \in 1 .. W - 1
    BY <1>3, BusAssumption DEF Entry
  <2> HIDE DEF t
  <2>2. W \in Nat \ {0} /\ clock \in 0 .. W - 1
    BY <1>1, BusAssumption DEF Typed, Time
  <2>3. (clock + t) % W \in 0 .. W - 1
    BY <2>1, <2>2
  <2>4. t % W = t
    BY <2>1, <2>2
  <2> QED BY <2>1, <2>3, <2>4 DEF Time, t
<1>5. /\ wakeup' \in [Chip -> Time] /\ issued' \in [Chip -> Time]
      /\ chipBio' \in [Chip -> Bio \union {NoBio}]
      /\ wakeup'[k] = (clock + OpTime[First(k).op]) % W /\ issued'[k] = clock
      /\ \A d \in Chip \ {k} : wakeup'[d] = wakeup[d] /\ issued'[d] = issued[d]
      /\ chipBio' = [chipBio EXCEPT ![k] = First(k).bio]
  BY <1>1, <1>2, <1>3, <1>4 DEF acquire_busy_lock, Typed, Entry
<1>6. is_acquired(k)' /\ \A d \in Chip \ {k} : is_acquired(d)' <=> is_acquired(d)
  <2>1. CASE clock = 0
    <3>1. OpTime[First(k).op] \in Nat
      BY <1>3, BusAssumption DEF Entry
    <3> QED BY <2>1, <3>1, <1>2, <1>4, <1>5 DEF is_acquired
  <2>2. CASE clock # 0
    BY <2>2, <1>2, <1>5 DEF is_acquired
  <2> QED BY <2>1, <2>2
<1>7. Typed' /\ NeverEmpty' /\ Granted'
  BY <1>1, <1>2, <1>5, <1>6 DEF Typed, queue, NeverEmpty, Granted
<1> QED BY <1>2, <1>3, <1>5, <1>6, <1>7, SameQueues

(* create_bus_controller. *)
LEMMA InitIInv == Init => IInv
<1> SUFFICES ASSUME Init PROVE IInv
  OBVIOUS
<1>1. Typed
  BY BusAssumption DEF Init, Typed, Index, Chip, Time
<1>2. Ring /\ Slots
  BY BusAssumption DEF Init, Ring, Slots, Slot
<1> QED BY <1>1, <1>2 DEF IInv, Init, NeverEmpty, Granted

(* Every step keeps the queues sound. *)
LEMMA NextIInv == IInv /\ [Next]_vars => IInv'
<1> SUFFICES ASSUME IInv, [Next]_vars PROVE IInv'
  OBVIOUS
<1>1. Typed /\ Ring /\ Slots /\ NeverEmpty /\ Granted
  BY DEF IInv
<1>2. CASE UNCHANGED vars
  BY <1>1, <1>2, SameQueues DEF vars, queue, busy, time, thread, host, ftl, Typed, NeverEmpty, Granted, is_acquired
<1>3. CASE NewRead
  <2>1. PICK b \in Bio, n \in 0 .. MaxReq : Build(b, n)
    BY <1>3 DEF NewRead
  <2> QED BY <1>1, <2>1, SameQueues DEF Build, queue, busy, time, thread, host, ftl, Typed, NeverEmpty, Granted, is_acquired
<1>4. CASE Lookup \/ HostDec \/ HostEnd \/ HostReturn
  BY <1>1, <1>4, SameQueues DEF Lookup, HostDec, HostEnd, HostReturn, queue, busy, time, thread, ftl, Typed, NeverEmpty, Granted, is_acquired
<1>5. CASE HostIssue
  <2>1. [op |-> "READ", bio |-> hbio] \in Entry /\ hchip \in Chip /\ hchip' \in Chip
    BY <1>1, <1>5, BusAssumption DEF HostIssue, Typed, Entry, Chip
  <2>2. PICK c \in Chip, e \in Entry : c = hchip /\ e = [op |-> "READ", bio |-> hbio]
    BY <2>1
  <2>3. opr_queue_put_entry(c, e) /\ UNCHANGED <<wakeup, issued, chipBio, clock, k, pc, hbio, fchip, fop>>
    BY <1>5, <2>2 DEF HostIssue, busy, time, thread, ftl
  <2>4. hbio' \in Bio \union {NoBio} /\ hchip' \in Chip /\ fchip' \in Chip /\ fop' \in Op
    BY <1>1, <2>1, <2>3 DEF Typed
  <2> QED BY <2>3, <2>4, PutIInv
<1>6. CASE FtlLock
  BY <1>1, <1>6, SameQueues, BusAssumption DEF FtlLock, queue, busy, time, thread, host, Typed, NeverEmpty, Granted, is_acquired
<1>7. CASE FtlIssue
  <2>1. [op |-> fop, bio |-> NoBio] \in Entry /\ fchip \in Chip /\ fchip' \in Chip /\ fop' \in Op
    BY <1>1, <1>7, BusAssumption DEF FtlIssue, Typed, Entry, Chip
  <2>2. PICK c \in Chip, e \in Entry : c = fchip /\ e = [op |-> fop, bio |-> NoBio]
    BY <2>1
  <2>3. opr_queue_put_entry(c, e) /\ UNCHANGED <<wakeup, issued, chipBio, clock, k, pc, hbio, hchip>>
    BY <1>7, <2>2 DEF FtlIssue, busy, time, thread, host
  <2>4. hbio' \in Bio \union {NoBio} /\ hchip' \in Chip
    BY <1>1, <2>3 DEF Typed
  <2> QED BY <2>1, <2>3, <2>4, PutIInv
<1>8. CASE Sample \/ Tick
  BY <1>1, <1>8, SameQueues, BusAssumption DEF Sample, Tick, queue, busy, thread, host, ftl, Typed, NeverEmpty, Granted, is_acquired, Time
<1>9. CASE Release \/ End
  <2>1. /\ queue' = queue /\ UNCHANGED <<clock, hbio, hchip, fchip, fop>>
        /\ k' \in Chip /\ pc' \in {"release", "check", "end"}
    <3>1. ASSUME NextChip("release", "check") PROVE k' \in Chip /\ pc' \in {"release", "check", "end"}
      BY <1>1, <3>1, BusAssumption DEF NextChip, Typed, Chip
    <3>2. k \in Chip
      BY <1>1 DEF Typed
    <3> QED BY <1>9, <3>1, <3>2 DEF Release, End, release_busy_lock, time, host, ftl
  <2>2. wakeup' \in [Chip -> Time] /\ issued' \in [Chip -> Time] /\ chipBio' \in [Chip -> Bio \union {NoBio}]
    <3>1. 0 \in Time
      BY BusAssumption DEF Time
    <3>2. CASE Release
      <4>1. /\ wakeup' = wakeup \/ wakeup' = [wakeup EXCEPT ![k] = 0]
            /\ issued' = issued \/ issued' = [issued EXCEPT ![k] = 0]
            /\ chipBio' = chipBio \/ chipBio' = [chipBio EXCEPT ![k] = NoBio]
        BY <3>2 DEF Release, release_busy_lock, busy
      <4> QED BY <1>1, <3>1, <4>1 DEF Typed
    <3>3. CASE End
      BY <1>1, <3>3 DEF End, Typed
    <3> QED BY <1>9, <3>2, <3>3
  <2>3. pc' = "end" => ~is_acquired(k)'
    BY <1>1, <1>9 DEF Release, End, release_busy_lock, NextChip, Typed, is_acquired
  <2>4. Typed' /\ NeverEmpty' /\ Granted'
    BY <1>1, <2>1, <2>2, <2>3 DEF Typed, NeverEmpty, Granted, queue
  <2> QED BY <2>1, <2>4, SameQueues
<1>10. CASE Check
  <2>1. UNCHANGED <<queue, wakeup, issued, chipBio, clock, hbio, hchip, fchip, fop>> /\ k' \in Chip
    BY <1>1, <1>10, BusAssumption DEF Check, NextChip, Typed, Chip, busy, time, host, ftl
  <2>2. \/ pc' \in {"check", "sample"}
        \/ pc' = "first" /\ k' = k /\ num[k] # 0 /\ ~is_acquired(k)
    BY <1>10 DEF Check, NextChip
  <2>3. num[k] \in Nat /\ num' = num
    BY <1>1, <2>1, BusAssumption DEF Typed, queue
  <2>4. Typed' /\ NeverEmpty' /\ Granted'
    BY <1>1, <2>1, <2>2, <2>3 DEF Typed, NeverEmpty, Granted, is_acquired, queue
  <2> QED BY <2>1, <2>4, SameQueues
<1>11. CASE Acquire
  BY <1>11, AcquireIInv
<1>12. CASE Remove
  BY <1>12, RemoveIInv
<1> QED BY <1>2, <1>3, <1>4, <1>5, <1>6, <1>7, <1>8, <1>9, <1>10, <1>11, <1>12 DEF Next, HostStep, BusThread

(* In every execution. *)
LEMMA Sound == Spec => []IInv
BY InitIInv, NextIInv, PTL DEF Spec

(* A put never overwrites an operation that waits: no operation is lost to *)
(* a wrong head or tail (bus_controller.c:453-491).                        *)
THEOREM RingSound == Spec => []Ring
BY Sound, PTL DEF IInv

(* The thread never meets the empty queue that would end it                *)
(* (bus_controller.c:348), although it reads num_entries without the lock. *)
THEOREM ThreadNeverEnds == Spec => []NeverEmpty
BY Sound, PTL DEF IInv

----------------------------------------------------------------------------
(* The queues and busy times implement ChipPipeline.                       *)

(* A function on an initial segment of the integers is a sequence. *)
LEMMA IsSeq ==
  ASSUME NEW S, NEW n \in Nat, NEW f \in [1 .. n -> S]
  PROVE  f \in Seq(S) /\ Len(f) = n
<1>1. f \in Seq(S)
  BY SeqDef
<1> QED BY <1>1

(* What waits for a chip is a sequence of operations, one shorter than the *)
(* ring counts while the thread is removing the one it started.            *)
LEMMA WaitingSeq ==
  ASSUME IInv, NEW c \in Chip
  PROVE  /\ num[c] \in 0 .. MaxEntries /\ num[c] - Started(c) \in Nat
         /\ Waiting(c) \in Seq(Entry)
         /\ Len(Waiting(c)) = num[c] - Started(c)
         /\ \A x \in 1 .. num[c] - Started(c) : Waiting(c)[x] = At(c, x - 1 + Started(c))
<1>1. /\ MaxEntries \in Nat /\ num[c] \in 0 .. MaxEntries /\ Started(c) \in {0, 1}
      /\ num[c] - Started(c) \in Nat
  BY BusAssumption DEF IInv, Typed, NeverEmpty, Started
<1>2. PICK n \in Nat : n = num[c] - Started(c)
  BY <1>1
<1>3. ASSUME NEW x \in 1 .. n PROVE At(c, x - 1 + Started(c)) \in Entry
  <2>1. x - 1 + Started(c) \in 0 .. num[c] - 1
    BY <1>1, <1>2
  <2> QED BY <2>1 DEF IInv, Slots
<1>4. Waiting(c) \in [1 .. n -> Entry]
  BY <1>2, <1>3 DEF Waiting
<1>5. Waiting(c) \in Seq(Entry) /\ Len(Waiting(c)) = n
  BY <1>4, IsSeq
<1>6. \A x \in 1 .. num[c] - Started(c) : Waiting(c)[x] = At(c, x - 1 + Started(c))
  BY DEF Waiting
<1> QED BY <1>1, <1>2, <1>5, <1>6

(* A put is an Issue. *)
LEMMA PutIsIssue ==
  ASSUME IInv, NEW c \in Chip, NEW e \in Entry, opr_queue_put_entry(c, e),
         UNCHANGED <<wakeup, issued, chipBio, k, pc>>
  PROVE  Pipeline!Issue(c, e)
<1>1. Typed /\ Ring /\ Slots /\ NeverEmpty /\ Granted
  BY DEF IInv
<1>2. /\ num[c] \in Nat /\ num[c] < MaxEntries /\ Started(c) \in {0, 1} /\ num[c] - Started(c) \in Nat
      /\ Len(Waiting(c)) = num[c] - Started(c) /\ Waiting(c) \in Seq(Entry)
      /\ MaxEntries \in Nat
  BY <1>1, Put, WaitingSeq, BusAssumption DEF Started
<1>3. /\ tail' = tail /\ num'[c] = num[c] + 1
      /\ \A d \in Chip \ {c} : num'[d] = num[d] /\ list'[d] = list[d]
      /\ \A d \in Chip : Started(d)' = Started(d)
  BY <1>1, <1>2, Put DEF Typed, Started
<1>4. ASSUME NEW d \in Chip \ {c} PROVE Waiting(d)' = Waiting(d)
  BY <1>3 DEF Waiting, At, Slot
<1>5. Waiting(c)' = Append(Waiting(c), e)
  <2> DEFINE n == num[c] - Started(c)
             new == [x \in 1 .. n + 1 |-> list'[c][Slot(c, x - 1 + Started(c))]]
  <2>1. Waiting(c)' = new
    BY <1>2, <1>3 DEF Waiting, At, Slot
  <2>2. ASSUME NEW x \in 1 .. n PROVE new[x] = Waiting(c)[x]
    <3>1. x - 1 + Started(c) \in 0 .. num[c] - 1
      BY <1>2
    <3> QED BY <3>1, <1>1, <1>2, Put DEF Waiting, At
  <2>3. new[n + 1] = e
    <3>1. n + 1 - 1 + Started(c) = num[c] /\ n + 1 \in 1 .. n + 1
      BY <1>2
    <3>2. \A x \in 1 .. n + 1 : new[x] = list'[c][Slot(c, x - 1 + Started(c))]
      OBVIOUS
    <3>3. PICK m \in 1 .. n + 1 : m = n + 1 /\ m - 1 + Started(c) = num[c]
      BY <1>2, <3>1
    <3> HIDE DEF n, new
    <3>4. new[m] = list'[c][Slot(c, num[c])]
      BY <3>2, <3>3
    <3>5. new[m] = e
      BY <3>4, <1>1, Put
    <3> QED BY <3>3, <3>5
  <2>4. /\ n \in Nat /\ Len(Waiting(c)) = n /\ DOMAIN new = 1 .. n + 1
        /\ \A x \in 1 .. n : Waiting(c)[x] \in Entry
    BY <1>2
  <2> HIDE DEF n, new
  <2>5. new \in Seq(Entry) /\ Len(new) = n + 1
    <3>1. new = [x \in 1 .. n + 1 |-> new[x]]
      BY <2>4 DEF new
    <3>2. \A x \in 1 .. n + 1 : new[x] \in Entry
      BY <2>2, <2>3, <2>4
    <3>3. new \in [1 .. n + 1 -> Entry] /\ n + 1 \in Nat
      BY <3>1, <3>2, <2>4
    <3> QED BY <3>3, IsSeq
  <2>6. /\ Append(Waiting(c), e) \in Seq(Entry) /\ Len(Append(Waiting(c), e)) = n + 1
        /\ \A x \in 1 .. n : Append(Waiting(c), e)[x] = Waiting(c)[x]
        /\ Append(Waiting(c), e)[n + 1] = e
    BY <1>2, <2>4, AppendProperties
  <2>7. \A x \in 1 .. Len(new) : new[x] = Append(Waiting(c), e)[x]
    BY <2>2, <2>3, <2>4, <2>5, <2>6
  <2>8. new = Append(Waiting(c), e)
    BY <2>5, <2>6, <2>7, SeqEqual
  <2> QED BY <2>1, <2>8
<1>6. Len([d \in Chip |-> Waiting(d)][c]) < MaxEntries
  BY <1>2
<1>7. [d \in Chip |-> Waiting(d)]' = [[d \in Chip |-> Waiting(d)] EXCEPT ![c] = Append(@, e)]
  BY <1>4, <1>5
<1> QED BY <1>6, <1>7 DEF Pipeline!Issue, is_acquired

(* Giving a chip its oldest operation is a Start. *)
LEMMA AcquireIsStart ==
  ASSUME IInv, Acquire, NEW c \in Chip, c = k
  PROVE  Pipeline!Start(c)
<1>1. Typed /\ Slots /\ NeverEmpty
  BY DEF IInv
<1>2. pc = "first" /\ pc' = "remove" /\ k' = k /\ queue' = queue /\ num[c] > 0
  BY <1>1 DEF Acquire, NeverEmpty
<1>3. /\ ~is_acquired(c) /\ is_acquired(c)' /\ First(k) = At(c, 0)
      /\ chipBio'[c] = First(k).bio
      /\ \A d \in Chip \ {c} : chipBio'[d] = chipBio[d] /\ (is_acquired(d)' <=> is_acquired(d))
  BY <1>1, <1>2, AcquireIInv DEF Typed, is_acquired
<1>4. Started(c) = 0 /\ Started(c)' = 1 /\ \A d \in Chip \ {c} : Started(d) = 0 /\ Started(d)' = 0
  BY <1>2 DEF Started
<1>5. /\ Waiting(c) \in Seq(Entry) /\ Len(Waiting(c)) = num[c] /\ num[c] \in Nat
      /\ \A x \in 1 .. num[c] : Waiting(c)[x] = At(c, x - 1)
  <2>1. num[c] - 0 = num[c] /\ num[c] \in Nat
    BY <1>4, WaitingSeq
  <2> QED BY <1>4, <2>1, WaitingSeq
<1>6. Waiting(c) # <<>> /\ Head(Waiting(c)) = First(k)
  BY <1>2, <1>3, <1>5
<1>7. ASSUME NEW d \in Chip \ {c} PROVE Waiting(d)' = Waiting(d)
  BY <1>2, <1>4 DEF Waiting, At, Slot, queue
<1>8. Waiting(c)' = Tail(Waiting(c))
  <2> DEFINE n == num[c]
             new == [x \in 1 .. n - 1 |-> At(c, x)]
  <2>1. Waiting(c)' = new
    BY <1>2, <1>4 DEF Waiting, At, Slot, queue
  <2>2. n \in Nat /\ n > 0 /\ Len(Waiting(c)) = n
    BY <1>2, <1>5
  <2>3. \A x \in 1 .. n - 1 : new[x] = Waiting(c)[x + 1] /\ Waiting(c)[x + 1] \in Entry
    BY <2>2, <1>5
  <2>4. new \in [1 .. n - 1 -> Entry]
    BY <2>3
  <2> HIDE DEF n, new
  <2>5. new \in Seq(Entry) /\ Len(new) = n - 1
    BY <2>2, <2>4, IsSeq
  <2>6. /\ Tail(Waiting(c)) \in Seq(Entry) /\ Len(Tail(Waiting(c))) = n - 1
        /\ \A x \in 1 .. n - 1 : Tail(Waiting(c))[x] = Waiting(c)[x + 1]
    BY <1>5, <1>6, <2>2, HeadTailProperties
  <2> QED BY <2>1, <2>3, <2>5, <2>6, SeqEqual
<1> DEFINE run == [d \in Chip |-> IF is_acquired(d) THEN chipBio[d] ELSE NoEntry]
<1>9. [d \in Chip |-> Waiting(d)]' = [[d \in Chip |-> Waiting(d)] EXCEPT ![c] = Tail(@)]
  BY <1>7, <1>8
<1>10. run' = [run EXCEPT ![c] = First(k).bio]
  BY <1>3
<1> QED BY <1>3, <1>6, <1>9, <1>10 DEF Pipeline!Start

(* What the thread removes from a ring no longer waited. *)
LEMMA RemoveIsStutter ==
  ASSUME IInv, Remove
  PROVE  UNCHANGED Pipeline!vars
<1>1. Typed /\ Ring /\ Slots /\ NeverEmpty
  BY DEF IInv
<1>2. PICK c \in Chip : c = k
  BY <1>1 DEF Typed
<1>3. /\ opr_queue_remove_first(c) /\ num[c] > 0 /\ num[c] \in Nat /\ pc = "remove" /\ pc' # "remove"
      /\ UNCHANGED <<wakeup, issued, chipBio>>
  BY <1>1, <1>2, BusAssumption DEF Remove, NextChip, Typed, NeverEmpty, busy
<1>4. /\ num' = [num EXCEPT ![c] = @ - 1]
      /\ \A d \in Chip \ {c} : tail'[d] = tail[d] /\ list'[d] = list[d]
      /\ \A x \in 0 .. num[c] - 2 : At(c, x)' = At(c, x + 1)
  BY <1>1, <1>3, Removed
<1>5. /\ num'[c] = num[c] - 1 /\ \A d \in Chip \ {c} : num'[d] = num[d] /\ Started(d) = 0
      /\ Started(c) = 1 /\ \A d \in Chip : Started(d)' = 0
  BY <1>1, <1>2, <1>3, <1>4 DEF Typed, Started
<1>6. ASSUME NEW d \in Chip \ {c} PROVE Waiting(d)' = Waiting(d)
  BY <1>4, <1>5 DEF Waiting, At, Slot
<1>7. Waiting(c)' = Waiting(c)
  <2>1. Waiting(c)' = [x \in 1 .. num[c] - 1 |-> At(c, x - 1)']
    BY <1>3, <1>5 DEF Waiting, At
  <2>2. \A x \in 1 .. num[c] - 1 : At(c, x - 1)' = At(c, x - 1 + 1)
    BY <1>3, <1>4
  <2>3. Waiting(c) = [x \in 1 .. num[c] - 1 |-> At(c, x - 1 + 1)]
    BY <1>5 DEF Waiting
  <2> QED BY <2>1, <2>2, <2>3
<1>8. [d \in Chip |-> Waiting(d)]' = [d \in Chip |-> Waiting(d)]
  BY <1>6, <1>7
<1> QED BY <1>3, <1>8 DEF Pipeline!vars, is_acquired

(* Releasing a chip is a Finish. *)
LEMMA ReleaseIsFinish ==
  ASSUME IInv, Release, Due, NEW c \in Chip, c = k
  PROVE  Pipeline!Finish(c)
<1>1. /\ queue' = queue /\ pc = "release" /\ pc' # "remove"
      /\ wakeup' = [wakeup EXCEPT ![c] = 0] /\ issued' = [issued EXCEPT ![c] = 0]
      /\ chipBio' = chipBio \/ chipBio' = [chipBio EXCEPT ![c] = NoBio]
  BY DEF Release, release_busy_lock, NextChip
<1>2. is_acquired(c) /\ ~is_acquired(c)' /\ chipBio[c] # NoEntry
  BY <1>1, BusAssumption DEF Due, IInv, Typed, Time, is_acquired
<1>3. \A d \in Chip \ {c} : chipBio'[d] = chipBio[d] /\ (is_acquired(d)' <=> is_acquired(d))
  BY <1>1 DEF IInv, Typed, is_acquired
<1>4. [d \in Chip |-> Waiting(d)]' = [d \in Chip |-> Waiting(d)]
  BY <1>1 DEF Waiting, At, Slot, Started, queue
<1> DEFINE run == [d \in Chip |-> IF is_acquired(d) THEN chipBio[d] ELSE NoEntry]
<1>5. run' = [run EXCEPT ![c] = NoEntry]
  BY <1>2, <1>3
<1>6. run[c] # NoEntry
  BY <1>2
<1> QED BY <1>4, <1>5, <1>6 DEF Pipeline!Finish

(* Every step is a step of ChipPipeline or leaves its variables alone. *)
LEMMA StepSimulation == IInv /\ [Next]_vars => [Pipeline!Next]_(Pipeline!vars)
<1> SUFFICES ASSUME IInv, [Next]_vars PROVE [Pipeline!Next]_(Pipeline!vars)
  OBVIOUS
<1>1. Typed /\ k \in Chip /\ Granted
  BY DEF IInv, Typed
<1>2. ASSUME queue' = queue, UNCHANGED <<wakeup, issued, chipBio>>, pc # "remove", pc' # "remove"
      PROVE  UNCHANGED Pipeline!vars
  BY <1>2 DEF Pipeline!vars, Waiting, At, Slot, Started, queue, is_acquired
<1>3. ASSUME queue' = queue, UNCHANGED <<wakeup, issued, chipBio, pc, k>>
      PROVE  UNCHANGED Pipeline!vars
  BY <1>3 DEF Pipeline!vars, Waiting, At, Slot, Started, queue, is_acquired
<1>4. CASE UNCHANGED vars \/ NewRead \/ Lookup \/ HostDec \/ HostEnd \/ HostReturn \/ FtlLock \/ Tick
  BY <1>3, <1>4 DEF vars, NewRead, Build, Lookup, HostDec, HostEnd, HostReturn, FtlLock, Tick, busy, thread
<1>5. CASE HostIssue
  <2>1. PICK c \in Chip, e \in Entry : c = hchip /\ e = [op |-> "READ", bio |-> hbio]
    BY <1>1, BusAssumption DEF Typed, Entry
  <2> QED BY <1>5, <2>1, PutIsIssue DEF HostIssue, busy, thread, Pipeline!Next
<1>6. CASE FtlIssue
  <2>1. PICK c \in Chip, e \in Entry : c = fchip /\ e = [op |-> fop, bio |-> NoBio]
    BY <1>1, BusAssumption DEF Typed, Entry
  <2> QED BY <1>6, <2>1, PutIsIssue DEF FtlIssue, busy, thread, Pipeline!Next
<1>7. CASE Sample \/ Check \/ (Release /\ ~Due)
  <2>1. CASE Sample
    BY <1>2, <2>1 DEF Sample, busy
  <2>2. CASE Check
    BY <1>2, <2>2 DEF Check, NextChip, busy
  <2>3. CASE Release /\ ~Due
    BY <1>2, <2>3 DEF Release, NextChip, busy
  <2> QED BY <1>7, <2>1, <2>2, <2>3
<1>8. CASE Release /\ Due
  <2>1. PICK c \in Chip : c = k
    BY <1>1
  <2> QED BY <1>8, <2>1, ReleaseIsFinish DEF Pipeline!Next
<1>9. CASE End
  <2>1. /\ queue' = queue /\ UNCHANGED <<wakeup, issued>> /\ pc = "end" /\ pc' # "remove"
        /\ chipBio' = [chipBio EXCEPT ![k] = NoBio]
    BY <1>9 DEF End, NextChip
  <2>2. ~is_acquired(k)
    BY <1>1, <2>1 DEF Granted
  <2>3. [d \in Chip |-> Waiting(d)]' = [d \in Chip |-> Waiting(d)]
    BY <2>1 DEF Waiting, At, Slot, Started, queue
  <2>4. ASSUME NEW d \in Chip
        PROVE  /\ is_acquired(d)' <=> is_acquired(d)
               /\ is_acquired(d) => chipBio'[d] = chipBio[d]
    BY <1>1, <2>1, <2>2 DEF is_acquired, Typed
  <2> QED BY <2>3, <2>4 DEF Pipeline!vars
<1>10. CASE Acquire
  <2>1. PICK c \in Chip : c = k
    BY <1>1
  <2> QED BY <1>10, <2>1, AcquireIsStart DEF Pipeline!Next
<1>11. CASE Remove
  BY <1>11, RemoveIsStutter
<1> QED BY <1>4, <1>5, <1>6, <1>7, <1>8, <1>9, <1>10, <1>11 DEF Next, HostStep, BusThread

(* Empty rings and free chips are an empty pipeline. *)
LEMMA InitSimulation == Init => Pipeline!Init
<1> SUFFICES ASSUME Init PROVE Pipeline!Init
  OBVIOUS
<1>1. ASSUME NEW c \in Chip PROVE Waiting(c) = <<>> /\ ~is_acquired(c)
  BY <1>1 DEF Init, Waiting, Started, is_acquired
<1> QED BY <1>1 DEF Pipeline!Init

(* The chips see the operations in the order they were put into their      *)
(* queues, one at a time, none lost or twice (bus_controller.c:317-395).   *)
THEOREM ImplementsPipeline == Spec => InOrder
BY Sound, InitSimulation, StepSimulation, PTL DEF Spec, InOrder, Pipeline!Spec
=============================================================================
