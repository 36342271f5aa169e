---------------------------- MODULE BusBioProofs ----------------------------
(***************************************************************************)
(* The bios of reads, for any number of chips, any rings and any number of *)
(* requests in progress: req_count counts what is still to be done, every  *)
(* bio is ended once, and nothing refers to its memory afterwards.         *)
(***************************************************************************)
EXTENDS BusControllerProofs, FiniteSetTheorems, FunctionTheorems

(* make_request has pages to do while it issues or counts one down, and a  *)
(* bio whose last request it counted down before it ends it.               *)
HostPc ==
  /\ hpc = "idle" => hbio = NoBio /\ left = 0
  /\ hpc # "idle" => hbio \in Bio
  /\ hpc \in {"issue", "dec"} => left > 0
  /\ hpc = "end" => hbio \in live /\ reqCount[hbio] = 0

(* The thread ends a bio whose last request it counted down, and which     *)
(* make_request does not end as well.                                      *)
ThreadPc ==
  pc = "end" => /\ chipBio[k] \in live /\ reqCount[chipBio[k]] = 0
                /\ ~(hpc = "end" /\ hbio = chipBio[k])

(* A chip that is free belongs to no bio, once that bio has been ended.    *)
FreeChips == \A c \in Chip : ~is_acquired(c) /\ ~(pc = "end" /\ k = c) => chipBio[c] = NoBio

BioInv == TypeOK /\ CountsRequests /\ BioLifetime /\ HostPc /\ ThreadPc /\ FreeChips

----------------------------------------------------------------------------
(* The operations of a bio that wait, and the chips that work for it.      *)

(* There are finitely many slots.                                          *)
LEMMA FiniteRings == IsFiniteSet(Chip) /\ IsFiniteSet(Chip \X Index)
<1>1. IsFiniteSet(Chip) /\ IsFiniteSet(Index)
  BY BusAssumption, FS_Interval DEF Chip, Index
<1> QED BY <1>1, FS_Product

(* Both are finitely many.                                                 *)
LEMMA Finite ==
  ASSUME NEW b
  PROVE  /\ IsFiniteSet(Queued(b)) /\ Cardinality(Queued(b)) \in Nat
         /\ IsFiniteSet(Running(b)) /\ Cardinality(Running(b)) \in Nat
<1>1. Queued(b) \in SUBSET (Chip \X Index) /\ Running(b) \in SUBSET Chip
  BY DEF Queued, Running
<1> QED BY <1>1, FiniteRings, FS_Subset, FS_CardinalityType

(* A put adds one operation to those of its bio, and none to the others.   *)
LEMMA PutQueued ==
  ASSUME IInv, NEW c \in Chip, NEW e \in Entry, opr_queue_put_entry(c, e),
         UNCHANGED <<pc, k>>, NEW b
  PROVE  /\ <<c, num[c]>> \notin Queued(b)
         /\ Queued(b)' = IF e.bio = b THEN Queued(b) \union {<<c, num[c]>>} ELSE Queued(b)
<1>1. Typed /\ Ring /\ NeverEmpty
  BY DEF IInv
<1>2. PICK n \in Nat : n = num[c]
  BY <1>1, BusAssumption DEF Typed
<1>3. /\ n \in Index /\ num'[c] = n + 1 /\ tail' = tail
      /\ \A d \in Chip : num[d] \in Nat
      /\ \A d \in Chip \ {c} : num'[d] = num[d] /\ list'[d] = list[d]
  <2>1. num' = [num EXCEPT ![c] = @ + 1] /\ n < MaxEntries /\ tail' = tail
    BY <1>1, <1>2, Put
  <2>2. \A d \in Chip \ {c} : list'[d] = list[d]
    BY <1>1, Put
  <2>3. num \in [Chip -> 0 .. MaxEntries] /\ MaxEntries \in Nat
    BY <1>1, BusAssumption DEF Typed
  <2> QED BY <1>2, <2>1, <2>2, <2>3 DEF Index
<1>4. \A d \in Chip : Started(d)' = Started(d) /\ Started(d) \in {0, 1} /\ Started(d) <= num[d]
  BY <1>1, BusAssumption DEF Typed, Started, NeverEmpty
<1>5. At(c, n)' = e /\ \A x \in 0 .. n - 1 : At(c, x)' = At(c, x)
  BY <1>1, <1>2, <1>3, Put DEF At, Slot
<1>6. \A d \in Chip \ {c} : \A x : At(d, x)' = At(d, x)
  BY <1>3 DEF At, Slot
<1>7. <<c, n>> \notin Queued(b)
  BY <1>2 DEF Queued
<1>8. ASSUME NEW q \in Chip \X Index
      PROVE  q \in Queued(b)' <=> q \in Queued(b) \/ (e.bio = b /\ q = <<c, n>>)
  <2>1. CASE q[1] # c
    BY <2>1, <1>3, <1>4, <1>6 DEF Queued
  <2>2. CASE q[1] = c /\ q[2] # n
    <3>1. q[2] \in Nat /\ (q[2] \in Started(c) .. n <=> q[2] \in Started(c) .. n - 1)
      BY <2>2, <1>4, BusAssumption DEF Index
    <3>2. q[2] \in Started(c) .. n - 1 => At(c, q[2])' = At(c, q[2])
      BY <1>4, <1>5
    <3>3. num'[q[1]] - 1 = n /\ num[q[1]] - 1 = n - 1
      BY <2>2, <1>2, <1>3
    <3> QED BY <2>2, <1>4, <3>1, <3>2, <3>3 DEF Queued
  <2>3. CASE q = <<c, n>>
    <3>1. n \in Started(c) .. num'[c] - 1
      BY <1>2, <1>3, <1>4
    <3> QED BY <2>3, <1>4, <1>5, <1>7, <3>1 DEF Queued
  <2> QED BY <2>1, <2>2, <2>3
<1>9. Queued(b) \subseteq Chip \X Index /\ Queued(b)' \subseteq Chip \X Index /\ <<c, n>> \in Chip \X Index
  BY <1>3 DEF Queued
<1> QED BY <1>2, <1>7, <1>8, <1>9

(* The operation that is started is the first of those that wait.          *)
LEMMA AcquireQueued ==
  ASSUME IInv, Acquire, NEW b
  PROVE  /\ <<k, 0>> \in Queued(b) <=> First(k).bio = b
         /\ Queued(b)' = Queued(b) \ {<<k, 0>>}
<1>1. Typed /\ NeverEmpty /\ First(k) = At(k, 0)
  BY AcquireIInv DEF IInv
<1>2. /\ pc = "first" /\ pc' = "remove" /\ k' = k /\ k \in Chip /\ queue' = queue
      /\ num[k] > 0 /\ \A d \in Chip : num[d] \in Nat
  BY <1>1, BusAssumption DEF Acquire, Typed, NeverEmpty
<1>3. \A d \in Chip : Started(d) = 0 /\ Started(d)' = IF d = k THEN 1 ELSE 0
  BY <1>2 DEF Started
<1>4. \A d, x : At(d, x)' = At(d, x)
  BY <1>2 DEF queue, At, Slot
<1>5. <<k, 0>> \in Queued(b) <=> First(k).bio = b
  BY <1>1, <1>2, <1>3, BusAssumption DEF Queued, Index
<1>6. ASSUME NEW q \in Chip \X Index PROVE q \in Queued(b)' <=> q \in Queued(b) /\ q # <<k, 0>>
  <2>1. q[2] \in Nat /\ num'[q[1]] = num[q[1]]
    BY <1>2, BusAssumption DEF Index, queue
  <2>2. q[2] \in Started(q[1])' .. num[q[1]] - 1 <=> q[2] \in 0 .. num[q[1]] - 1 /\ q # <<k, 0>>
    BY <1>2, <1>3, <2>1
  <2> QED BY <1>3, <1>4, <2>1, <2>2 DEF Queued
<1> QED BY <1>5, <1>6 DEF Queued

(* What is removed was started before: the operations that wait only move  *)
(* up.                                                                     *)
LEMMA RemoveQueued ==
  ASSUME IInv, Remove, NEW b
  PROVE  Cardinality(Queued(b)') = Cardinality(Queued(b))
<1>1. Typed /\ Ring /\ NeverEmpty
  BY DEF IInv
<1>2. PICK c \in Chip : c = k
  BY <1>1 DEF Typed
<1>3. /\ opr_queue_remove_first(c) /\ num[c] > 0 /\ num[c] \in Nat /\ pc = "remove" /\ pc' # "remove"
      /\ \A d \in Chip : num[d] \in Nat /\ num[d] <= MaxEntries
  BY <1>1, <1>2, BusAssumption DEF Remove, NextChip, Typed, NeverEmpty
<1>4. PICK n \in Nat : n = num[c] - 1
  BY <1>3
<1>5. /\ num'[c] = n
      /\ \A d \in Chip \ {c} : num'[d] = num[d] /\ tail'[d] = tail[d] /\ list'[d] = list[d]
      /\ \A x \in 0 .. n - 1 : At(c, x)' = At(c, x + 1)
  <2>1. num' = [num EXCEPT ![c] = @ - 1] /\ \A x \in 0 .. num[c] - 2 : At(c, x)' = At(c, x + 1)
    BY <1>1, <1>3, Removed
  <2>2. \A d \in Chip \ {c} : tail'[d] = tail[d] /\ list'[d] = list[d]
    BY <1>1, <1>3, Removed
  <2>3. num[c] - 2 = n - 1
    BY <1>3, <1>4
  <2> QED BY <1>1, <1>4, <2>1, <2>2, <2>3 DEF Typed
<1>6. \A d \in Chip : Started(d) = (IF d = c THEN 1 ELSE 0) /\ Started(d)' = 0
  BY <1>2, <1>3 DEF Started
<1>7. \A d \in Chip \ {c} : \A x : At(d, x)' = At(d, x)
  BY <1>5 DEF At, Slot
<1> DEFINE up == [q \in Queued(b)' |-> IF q[1] = c THEN <<c, q[2] + 1>> ELSE q]
<1>8. ASSUME NEW q \in Chip \X Index
      PROVE  q \in Queued(b)' <=> IF q[1] = c THEN <<c, q[2] + 1>> \in Queued(b) ELSE q \in Queued(b)
  <2>1. CASE q[1] # c
    BY <2>1, <1>5, <1>6, <1>7 DEF Queued
  <2>2. CASE q[1] = c
    <3>1. PICK x \in Nat : x = q[2] /\ q = <<c, x>> /\ x \in Index
      BY <2>2, BusAssumption DEF Index
    <3>2. x \in 0 .. n - 1 <=> x + 1 \in 1 .. num[c] - 1
      BY <1>3, <1>4, <3>1
    <3>3. x \in 0 .. n - 1 => x + 1 \in Index /\ At(c, x)' = At(c, x + 1)
      BY <1>3, <1>4, <1>5, <3>1, BusAssumption DEF Index
    <3>4. q \in Queued(b)' <=> x \in 0 .. n - 1 /\ At(c, x)'.bio = b
      BY <1>5, <1>6, <2>2, <3>1 DEF Queued
    <3>5. <<c, x + 1>> \in Queued(b) <=> x \in 0 .. n - 1 /\ At(c, x + 1).bio = b
      BY <1>6, <3>2, <3>3 DEF Queued
    <3> QED BY <2>2, <3>1, <3>3, <3>4, <3>5
  <2> QED BY <2>1, <2>2
<1>9. Queued(b) \subseteq Chip \X Index /\ Queued(b)' \subseteq Chip \X Index
  BY DEF Queued
<1>10. up \in [Queued(b)' -> Queued(b)]
  BY <1>8, <1>9
<1>11. \A q, r \in Queued(b)' : up[q] = up[r] => q = r
  <2> SUFFICES ASSUME NEW q \in Queued(b)', NEW r \in Queued(b)', up[q] = up[r] PROVE q = r
    OBVIOUS
  <2>1. PICK d \in Chip, x \in Nat : q = <<d, x>>
    BY <1>9, BusAssumption DEF Index
  <2>2. PICK f \in Chip, y \in Nat : r = <<f, y>>
    BY <1>9, BusAssumption DEF Index
  <2>3. up[q] = <<d, IF d = c THEN x + 1 ELSE x>> /\ up[r] = <<f, IF f = c THEN y + 1 ELSE y>>
    BY <2>1, <2>2
  <2> HIDE DEF up
  <2> QED BY <2>1, <2>2, <2>3
<1>12. \A q \in Queued(b) : \E r \in Queued(b)' : up[r] = q
  <2> SUFFICES ASSUME NEW q \in Queued(b) PROVE \E r \in Queued(b)' : up[r] = q
    OBVIOUS
  <2>1. PICK d \in Chip, x \in Nat : q = <<d, x>> /\ x \in Index
    BY <1>9, BusAssumption DEF Index
  <2>2. CASE d # c
    <3>1. q \in Queued(b)' /\ up[q] = q
      BY <1>8, <2>1, <2>2
    <3> QED BY <3>1
  <2>3. CASE d = c
    <3>1. x \in 1 .. num[c] - 1
      BY <1>6, <2>1, <2>3 DEF Queued
    <3>2. x - 1 \in Nat /\ x - 1 \in Index /\ <<c, (x - 1) + 1>> = q
      BY <2>1, <2>3, <3>1, BusAssumption DEF Index
    <3>3. <<c, x - 1>> \in Queued(b)'
      BY <1>8, <3>2
    <3>4. up[<<c, x - 1>>] = q
      BY <3>2, <3>3
    <3> QED BY <3>3, <3>4
  <2> QED BY <2>2, <2>3
<1>13. up \in Bijection(Queued(b)', Queued(b))
  <2> HIDE DEF up
  <2> QED BY <1>10, <1>11, <1>12, Fun_IsBij
<1>14. IsFiniteSet(Queued(b))
  BY Finite
<1>15. ExistsBijection(Queued(b)', Queued(b))
  BY <1>13 DEF ExistsBijection
<1>16. ExistsBijection(Queued(b), Queued(b)')
  BY <1>15, Fun_ExistsBijSymmetric
<1> QED BY <1>14, <1>16, FS_Bijection

(* Where queues and chips are left alone, so is the work of every bio.     *)
LEMMA SameWork ==
  ASSUME UNCHANGED <<queue, chipBio>>,
         UNCHANGED <<pc, k>> \/ (pc \notin {"remove", "end"} /\ pc' \notin {"remove", "end"}),
         NEW b
  PROVE  Queued(b)' = Queued(b) /\ Running(b)' = Running(b)
<1>1. \A d : Started(d)' = Started(d)
  BY DEF Started
<1>2. \A d, x : At(d, x)' = At(d, x)
  BY DEF queue, At, Slot
<1>3. num' = num
  BY DEF queue
<1>4. \A q \in Chip \X Index : q \in Queued(b)' <=> q \in Queued(b)
  BY <1>1, <1>2, <1>3 DEF Queued
<1> QED BY <1>4 DEF Queued, Running

----------------------------------------------------------------------------
(* make_request.                                                           *)

(* A bio that is built has all its requests before it; memory that is used *)
(* again is memory nothing refers to.                                      *)
LEMMA BuildBio ==
  ASSUME BioInv, NEW b \in Bio, NEW n \in 0 .. MaxReq, Build(b, n)
  PROVE  BioInv'
<1>1. /\ TypeOK /\ CountsRequests /\ BioLifetime /\ HostPc /\ ThreadPc /\ FreeChips
  BY DEF BioInv
<1>2. /\ hpc = "idle" /\ b \notin live /\ hbio = NoBio /\ left = 0
      /\ UNCHANGED <<queue, busy, time, thread, ftl, mapLock>>
      /\ reqCount' = [reqCount EXCEPT ![b] = n] /\ n \in Nat /\ MaxReq \in Nat
  BY <1>1, BusAssumption DEF Build, HostPc
<1>3. \A x : Queued(x)' = Queued(x) /\ Running(x)' = Running(x)
  BY <1>2, SameWork DEF busy, thread
<1>4. Queued(b) = {} /\ Running(b) = {} /\ \A c \in Chip : chipBio[c] # b
  BY <1>1, <1>2 DEF BioLifetime, Running
<1>5. CASE n = 0
  <2>1. UNCHANGED <<live, host>> /\ ended' = [ended EXCEPT ![b] = 1]
    BY <1>2, <1>5 DEF Build
  <2>2. TypeOK'
    BY <1>1, <1>2, <1>5, <2>1 DEF TypeOK, queue, busy, time, thread, host, ftl
  <2>3. CountsRequests'
    BY <1>1, <1>2, <1>3, <2>1 DEF CountsRequests, TypeOK, host
  <2>4. BioLifetime'
    BY <1>1, <1>2, <1>3, <2>1 DEF BioLifetime, TypeOK, host, busy
  <2>5. HostPc' /\ ThreadPc' /\ FreeChips'
    BY <1>1, <1>2, <2>1 DEF HostPc, ThreadPc, FreeChips, TypeOK, host, busy, thread, is_acquired
  <2> QED BY <2>2, <2>3, <2>4, <2>5 DEF BioInv
<1>6. CASE n # 0
  <2>1. /\ live' = live \union {b} /\ ended' = [ended EXCEPT ![b] = 0]
        /\ hpc' = "loop" /\ hbio' = b /\ left' = n /\ hchip' = hchip
    BY <1>2, <1>6 DEF Build
  <2>2. TypeOK'
    BY <1>1, <1>2, <2>1 DEF TypeOK, queue, busy, time, thread, ftl
  <2>3. CountsRequests'
    <3> SUFFICES ASSUME NEW x \in live'
                 PROVE  reqCount'[x] = Cardinality(Queued(x)) + Cardinality(Running(x))
                                       + IF b = x THEN n ELSE 0
      BY <1>3, <2>1 DEF CountsRequests
    <3>1. CASE x = b
      BY <3>1, <1>1, <1>2, <1>4, FS_EmptySet DEF TypeOK
    <3>2. CASE x # b
      BY <3>2, <1>1, <1>2, <2>1, BusAssumption DEF CountsRequests, TypeOK
    <3> QED BY <3>1, <3>2
  <2>4. BioLifetime'
    BY <1>1, <1>2, <1>3, <2>1 DEF BioLifetime, TypeOK, busy
  <2>5. HostPc' /\ ThreadPc' /\ FreeChips'
    BY <1>1, <1>2, <1>4, <2>1 DEF HostPc, ThreadPc, FreeChips, TypeOK, busy, thread, is_acquired
  <2> QED BY <2>2, <2>3, <2>4, <2>5 DEF BioInv
<1> QED BY <1>5, <1>6

(* Looking up a page and returning change no count.                        *)
LEMMA LookupBio == BioInv /\ (Lookup \/ HostReturn) => BioInv'
<1> SUFFICES ASSUME BioInv, Lookup \/ HostReturn PROVE BioInv'
  OBVIOUS
<1>1. /\ TypeOK /\ CountsRequests /\ BioLifetime /\ HostPc /\ ThreadPc /\ FreeChips
  BY DEF BioInv
<1>2. /\ UNCHANGED <<queue, busy, time, thread, bios, left, ftl>> /\ hpc = "loop"
      /\ \/ left > 0 /\ hbio' = hbio /\ hpc' \in {"dec", "issue"}
         \/ left = 0 /\ hbio' = NoBio /\ hpc' = "idle"
      /\ hchip' \in Chip /\ mapLock' \in {"free", "host", "ftl"}
  BY <1>1 DEF Lookup, HostReturn, TypeOK
<1>3. \A x : Queued(x)' = Queued(x) /\ Running(x)' = Running(x)
  BY <1>2, SameWork DEF busy, thread
<1>4. TypeOK'
  BY <1>1, <1>2 DEF TypeOK, queue, busy, time, thread, bios, ftl
<1>5. CountsRequests'
  BY <1>1, <1>2, <1>3, BusAssumption DEF CountsRequests, TypeOK, bios
<1>6. BioLifetime'
  BY <1>1, <1>2, <1>3, BusAssumption DEF BioLifetime, TypeOK, busy, bios
<1>7. HostPc' /\ ThreadPc' /\ FreeChips'
  BY <1>1, <1>2 DEF HostPc, ThreadPc, FreeChips, TypeOK, busy, thread, bios, is_acquired
<1> QED BY <1>4, <1>5, <1>6, <1>7 DEF BioInv

(* A request that was still to be looked up becomes one that waits.        *)
LEMMA IssueBio == IInv /\ BioInv /\ HostIssue => BioInv'
<1> SUFFICES ASSUME IInv, BioInv, HostIssue PROVE BioInv'
  OBVIOUS
<1>1. /\ TypeOK /\ CountsRequests /\ BioLifetime /\ HostPc /\ ThreadPc /\ FreeChips
  BY DEF BioInv
<1>2. PICK c \in Chip, e \in Entry : c = hchip /\ e = [op |-> "READ", bio |-> hbio]
  BY <1>1, BusAssumption DEF TypeOK, Entry
<1>3. /\ opr_queue_put_entry(c, e) /\ UNCHANGED <<busy, time, thread, bios, hbio, ftl>>
      /\ hpc = "issue" /\ hpc' = "loop" /\ left' = left - 1 /\ hchip' = 0 /\ mapLock' = "free"
  BY <1>2 DEF HostIssue
<1>4. /\ hbio \in live /\ left \in 1 .. MaxReq /\ left' \in 0 .. MaxReq /\ e.bio = hbio
  BY <1>1, <1>2, <1>3, BusAssumption DEF HostPc, BioLifetime, TypeOK
<1>5. ASSUME NEW b
      PROVE  /\ <<c, num[c]>> \notin Queued(b)
             /\ Queued(b)' = IF hbio = b THEN Queued(b) \union {<<c, num[c]>>} ELSE Queued(b)
             /\ Running(b)' = Running(b)
  BY <1>3, <1>4, PutQueued DEF thread, busy, Running
<1>6. TypeOK'
  <2>1. queue' = <<list', num', head', tail'>> /\ IInv'
    BY <1>2, <1>3, NextIInv DEF Next, HostStep, queue
  <2> QED BY <1>1, <1>3, <1>4, <2>1, BusAssumption
       DEF TypeOK, IInv, Typed, busy, time, thread, bios, ftl, Chip
<1>7. CountsRequests'
  <2> SUFFICES ASSUME NEW b \in live
               PROVE  reqCount[b] = Cardinality(Queued(b)') + Cardinality(Running(b))
                                    + IF hbio = b THEN left - 1 ELSE 0
    BY <1>3, <1>5 DEF CountsRequests, bios
  <2>1. reqCount[b] = Cardinality(Queued(b)) + Cardinality(Running(b)) + IF hbio = b THEN left ELSE 0
    BY <1>1 DEF CountsRequests
  <2>2. Cardinality(Queued(b)') = IF hbio = b THEN Cardinality(Queued(b)) + 1 ELSE Cardinality(Queued(b))
    BY <1>5, Finite, FS_AddElement
  <2> QED BY <1>4, <2>1, <2>2, Finite
<1>8. BioLifetime'
  BY <1>1, <1>3, <1>4, <1>5 DEF BioLifetime, bios, busy
<1>9. HostPc' /\ ThreadPc' /\ FreeChips'
  BY <1>1, <1>3, <1>4 DEF HostPc, ThreadPc, FreeChips, busy, thread, bios, is_acquired
<1> QED BY <1>6, <1>7, <1>8, <1>9 DEF BioInv

(* A bio with a request still to do has a count of at least as many.       *)
LEMMA CountOf ==
  ASSUME BioInv, NEW b \in live
  PROVE  /\ reqCount[b] \in Nat
         /\ reqCount[b] = Cardinality(Queued(b)) + Cardinality(Running(b)) + IF hbio = b THEN left ELSE 0
         /\ hbio = b => reqCount[b] >= left
         /\ Queued(b) # {} => reqCount[b] > 0
         /\ Running(b) # {} => reqCount[b] > 0
         /\ reqCount[b] = 0 => /\ Queued(b) = {} /\ Running(b) = {}
                               /\ hbio = b => left = 0
<1>1. /\ reqCount[b] = Cardinality(Queued(b)) + Cardinality(Running(b)) + IF hbio = b THEN left ELSE 0
      /\ left \in Nat
  BY BusAssumption DEF BioInv, CountsRequests, TypeOK
<1>2. /\ Cardinality(Queued(b)) \in Nat /\ Cardinality(Running(b)) \in Nat
      /\ Queued(b) # {} => Cardinality(Queued(b)) # 0
      /\ Running(b) # {} => Cardinality(Running(b)) # 0
  BY Finite, FS_EmptySet
<1>3. PICK q \in Nat, r \in Nat : q = Cardinality(Queued(b)) /\ r = Cardinality(Running(b))
  BY <1>2
<1>4. /\ reqCount[b] = q + r + IF hbio = b THEN left ELSE 0
      /\ Queued(b) # {} => q # 0
      /\ Running(b) # {} => r # 0
  BY <1>1, <1>2, <1>3
<1>5. PICK l \in Nat : l = (IF hbio = b THEN left ELSE 0) /\ reqCount[b] = q + r + l
  BY <1>1, <1>4
<1>6. /\ reqCount[b] \in Nat /\ reqCount[b] >= l
      /\ q # 0 \/ r # 0 => reqCount[b] > 0
      /\ reqCount[b] = 0 => q = 0 /\ r = 0 /\ l = 0
  BY <1>5
<1> QED BY <1>1, <1>4, <1>5, <1>6

(* A page that is not mapped is counted down, to zero only by the last.    *)
LEMMA DecBio == BioInv /\ HostDec => BioInv'
<1> SUFFICES ASSUME BioInv, HostDec PROVE BioInv'
  OBVIOUS
<1>1. /\ TypeOK /\ CountsRequests /\ BioLifetime /\ HostPc /\ ThreadPc /\ FreeChips
  BY DEF BioInv
<1>2. /\ hpc = "dec" /\ UNCHANGED <<queue, busy, time, thread, live, ended, hbio, hchip, ftl, mapLock>>
      /\ reqCount' = [reqCount EXCEPT ![hbio] = @ - 1] /\ left' = left - 1
      /\ hpc' = IF reqCount'[hbio] = 0 THEN "end" ELSE "loop"
  BY DEF HostDec, dec_bio_req_count
<1>3. /\ hbio \in live /\ hbio \in Bio /\ left \in 1 .. MaxReq /\ left' \in 0 .. MaxReq
  BY <1>1, <1>2, BusAssumption DEF HostPc, BioLifetime, TypeOK
<1>4. reqCount[hbio] \in 1 .. MaxReq /\ MaxReq \in Nat
  BY <1>1, <1>3, CountOf, BusAssumption DEF TypeOK
<1>5. /\ reqCount' \in [Bio -> 0 .. MaxReq] /\ reqCount'[hbio] = reqCount[hbio] - 1
      /\ \A b \in Bio \ {hbio} : reqCount'[b] = reqCount[b]
  BY <1>1, <1>2, <1>3, <1>4 DEF TypeOK
<1>6. \A x : Queued(x)' = Queued(x) /\ Running(x)' = Running(x)
  BY <1>2, SameWork DEF busy, thread
<1>7. TypeOK'
  BY <1>1, <1>2, <1>3, <1>5 DEF TypeOK, queue, busy, time, thread, ftl
<1>8. CountsRequests'
  <2> SUFFICES ASSUME NEW b \in live
               PROVE  reqCount'[b] = Cardinality(Queued(b)) + Cardinality(Running(b))
                                     + IF hbio = b THEN left - 1 ELSE 0
    BY <1>2, <1>6 DEF CountsRequests
  <2>1. reqCount[b] = Cardinality(Queued(b)) + Cardinality(Running(b)) + IF hbio = b THEN left ELSE 0
    BY <1>1 DEF CountsRequests
  <2>2. b \in Bio /\ Cardinality(Queued(b)) \in Nat /\ Cardinality(Running(b)) \in Nat
    BY <1>1, Finite DEF TypeOK
  <2> QED BY <1>3, <1>5, <2>1, <2>2
<1>9. BioLifetime'
  BY <1>1, <1>2, <1>3, <1>6 DEF BioLifetime, busy
<1>10. HostPc' /\ FreeChips'
  BY <1>1, <1>2, <1>3 DEF HostPc, FreeChips, busy, thread, is_acquired
<1>11. ThreadPc'
  BY <1>1, <1>2, <1>3, <1>4, <1>5 DEF ThreadPc, TypeOK, busy, thread
<1> QED BY <1>7, <1>8, <1>9, <1>10, <1>11 DEF BioInv

(* make_request ends a bio nothing is waiting or running for.              *)
LEMMA HostEndBio == BioInv /\ HostEnd => BioInv'
<1> SUFFICES ASSUME BioInv, HostEnd PROVE BioInv'
  OBVIOUS
<1>1. /\ TypeOK /\ CountsRequests /\ BioLifetime /\ HostPc /\ ThreadPc /\ FreeChips
  BY DEF BioInv
<1>2. /\ hpc = "end" /\ hpc' = "loop" /\ live' = live \ {hbio} /\ reqCount' = reqCount
      /\ ended' = [ended EXCEPT ![hbio] = @ + 1]
      /\ UNCHANGED <<queue, busy, time, thread, hbio, left, hchip, ftl, mapLock>>
  BY DEF HostEnd, EndBio
<1>3. hbio \in live /\ hbio \in Bio /\ reqCount[hbio] = 0 /\ ended[hbio] = 0
  BY <1>1, <1>2 DEF HostPc, TypeOK, BioLifetime
<1>4. Queued(hbio) = {} /\ Running(hbio) = {} /\ left = 0
  BY <1>3, CountOf
<1>5. \A x : Queued(x)' = Queued(x) /\ Running(x)' = Running(x)
  BY <1>2, SameWork DEF busy, thread
<1>6. \A c \in Chip : chipBio[c] # hbio
  BY <1>1, <1>2, <1>4 DEF Running, ThreadPc
<1>7. TypeOK'
  BY <1>1, <1>2, <1>3 DEF TypeOK, queue, busy, time, thread, ftl
<1>8. CountsRequests'
  BY <1>1, <1>2, <1>5 DEF CountsRequests
<1>9. BioLifetime'
  BY <1>1, <1>2, <1>3, <1>4, <1>5, <1>6 DEF BioLifetime, TypeOK, busy
<1>10. HostPc' /\ FreeChips'
  BY <1>1, <1>2, <1>3 DEF HostPc, FreeChips, TypeOK, busy, thread, is_acquired
<1>11. ThreadPc'
  BY <1>1, <1>2, <1>6 DEF ThreadPc, TypeOK, busy, thread
<1> QED BY <1>7, <1>8, <1>9, <1>10, <1>11 DEF BioInv

----------------------------------------------------------------------------
(* FTL operations and the bus thread.                                      *)

(* What an FTL operation issues belongs to no bio.                         *)
LEMMA FtlBio == IInv /\ BioInv /\ (FtlLock \/ FtlIssue) => BioInv'
<1> SUFFICES ASSUME IInv, BioInv, FtlLock \/ FtlIssue PROVE BioInv'
  OBVIOUS
<1>1. /\ TypeOK /\ CountsRequests /\ BioLifetime /\ HostPc /\ ThreadPc /\ FreeChips
  BY DEF BioInv
<1>2. /\ UNCHANGED <<busy, time, thread, bios, host>>
      /\ fpc' \in {"idle", "issue"} /\ fchip' \in Chip /\ fop' \in Op
      /\ mapLock' \in {"free", "host", "ftl"}
  BY <1>1, BusAssumption DEF FtlLock, FtlIssue, TypeOK, Chip
<1>3. /\ queue' = <<list', num', head', tail'>> /\ IInv'
  BY NextIInv DEF Next, queue
<1>4. TypeOK'
  BY <1>1, <1>2, <1>3 DEF TypeOK, IInv, Typed, busy, time, thread, bios, host
<1>5. ASSUME NEW b \in Bio PROVE Queued(b)' = Queued(b) /\ Running(b)' = Running(b)
  <2>1. CASE FtlLock
    BY <1>2, <2>1, SameWork DEF FtlLock, busy, thread
  <2>2. CASE FtlIssue
    <3>1. PICK c \in Chip, e \in Entry : c = fchip /\ e = [op |-> fop, bio |-> NoBio]
      BY <1>1, BusAssumption DEF TypeOK, Entry
    <3>2. opr_queue_put_entry(c, e) /\ UNCHANGED <<pc, k, chipBio>> /\ e.bio # b
      BY <1>2, <2>2, <3>1, BusAssumption DEF FtlIssue, thread, busy
    <3> QED BY <3>2, PutQueued DEF Running
  <2> QED BY <2>1, <2>2
<1>6. CountsRequests'
  BY <1>1, <1>2, <1>5 DEF CountsRequests, TypeOK, bios, host
<1>7. BioLifetime'
  BY <1>1, <1>2, <1>5 DEF BioLifetime, bios, host, busy
<1>8. HostPc' /\ ThreadPc' /\ FreeChips'
  BY <1>1, <1>2 DEF HostPc, ThreadPc, FreeChips, busy, thread, bios, host, is_acquired
<1> QED BY <1>4, <1>6, <1>7, <1>8 DEF BioInv

(* Reading the clock, looking at a chip and the passing of time.           *)
LEMMA IdleBio == IInv /\ BioInv /\ (Sample \/ Check \/ Tick \/ (Release /\ ~Due)) => BioInv'
<1> SUFFICES ASSUME IInv, BioInv, Sample \/ Check \/ Tick \/ (Release /\ ~Due) PROVE BioInv'
  OBVIOUS
<1>1. /\ TypeOK /\ CountsRequests /\ BioLifetime /\ HostPc /\ ThreadPc /\ FreeChips
  BY DEF BioInv
<1>2. /\ UNCHANGED <<queue, busy, bios, host, ftl, mapLock>>
      /\ \/ UNCHANGED <<pc, k>> \/ (pc \notin {"remove", "end"} /\ pc' \notin {"remove", "end"})
  BY DEF Sample, Check, Tick, Release, NextChip, bios, thread
<1>3. clock' \in Time /\ lag' \in 0 .. MaxLag /\ now' \in Time
  BY <1>1, BusAssumption DEF Sample, Check, Tick, Release, TypeOK, Time, time, thread
<1>4. IInv'
  BY NextIInv DEF Next, BusThread
<1>5. TypeOK'
  BY <1>1, <1>2, <1>3, <1>4 DEF TypeOK, IInv, Typed, queue, busy, bios, host, ftl
<1>6. \A x : Queued(x)' = Queued(x) /\ Running(x)' = Running(x)
  BY <1>2, SameWork DEF busy
<1>7. CountsRequests'
  BY <1>1, <1>2, <1>6 DEF CountsRequests, bios, host
<1>8. BioLifetime'
  BY <1>1, <1>2, <1>6 DEF BioLifetime, bios, host, busy
<1>9. HostPc' /\ ThreadPc' /\ FreeChips'
  BY <1>1, <1>2 DEF HostPc, ThreadPc, FreeChips, bios, host, busy, is_acquired
<1> QED BY <1>5, <1>7, <1>8, <1>9 DEF BioInv

(* A chip that is released counts one request of its bio down; the last    *)
(* one makes the thread end the bio, which make_request then does not.     *)
LEMMA ReleaseBio == IInv /\ BioInv /\ Release /\ Due => BioInv'
<1> SUFFICES ASSUME IInv, BioInv, Release, Due PROVE BioInv'
  OBVIOUS
<1>1. /\ TypeOK /\ CountsRequests /\ BioLifetime /\ HostPc /\ ThreadPc /\ FreeChips
  BY DEF BioInv
<1>2. PICK c \in Chip, b \in Bio \union {NoBio} : c = k /\ b = chipBio[c]
  BY <1>1 DEF TypeOK
<1>3. /\ pc = "release" /\ pc' \in {"release", "check", "end"}
      /\ wakeup' = [wakeup EXCEPT ![c] = 0] /\ issued' = [issued EXCEPT ![c] = 0]
      /\ UNCHANGED <<queue, time, now, live, ended, host, ftl, mapLock>>
      /\ pc' = "end" => k' = k /\ b # NoBio
  BY <1>2 DEF Release, release_busy_lock, NextChip
<1>4. \A d \in Chip \ {c} : is_acquired(d)' <=> is_acquired(d)
  BY <1>1, <1>3 DEF TypeOK, is_acquired
<1>5. IInv'
  BY NextIInv DEF Next, BusThread
<1>6. \A x : Queued(x)' = Queued(x)
  <2>1. \A d : Started(d)' = Started(d)
    BY <1>3 DEF Started
  <2>2. \A d, x : At(d, x)' = At(d, x)
    BY <1>3 DEF queue, At, Slot
  <2>3. num' = num
    BY <1>3 DEF queue
  <2> QED BY <2>1, <2>2, <2>3 DEF Queued
<1>7. HostPc'
  <2>1. CASE b = NoBio
    BY <1>1, <1>2, <1>3, <2>1 DEF HostPc, host, Release, release_busy_lock
  <2>2. CASE b # NoBio
    <3>1. b \in live /\ c \in Running(b)
      BY <1>1, <1>2, <1>3, <2>2 DEF BioLifetime, Running
    <3>2. reqCount[b] # 0 /\ hbio \in Bio \union {NoBio}
      BY <1>1, <3>1, CountOf DEF TypeOK
    <3>3. reqCount' = [reqCount EXCEPT ![b] = @ - 1]
      BY <1>2, <2>2 DEF Release, release_busy_lock, dec_bio_req_count
    <3> QED BY <1>1, <1>3, <3>2, <3>3 DEF HostPc, TypeOK, host
  <2> QED BY <2>1, <2>2
<1>8. CASE b = NoBio
  <2>1. UNCHANGED <<chipBio, reqCount>> /\ pc' # "end"
    BY <1>2, <1>8 DEF Release, release_busy_lock, NextChip
  <2>2. \A x : Running(x)' = Running(x)
    BY <1>3, <2>1 DEF Running
  <2>3. TypeOK'
    BY <1>1, <1>3, <1>5, <2>1 DEF TypeOK, IInv, Typed, queue, time, host, ftl
  <2>4. CountsRequests' /\ BioLifetime'
    BY <1>1, <1>3, <1>6, <2>1, <2>2 DEF CountsRequests, BioLifetime, host
  <2>5. ThreadPc'
    BY <2>1 DEF ThreadPc
  <2>6. FreeChips'
    BY <1>1, <1>2, <1>3, <1>4, <1>8, <2>1 DEF FreeChips
  <2> QED BY <1>7, <2>3, <2>4, <2>5, <2>6 DEF BioInv
<1>9. CASE b # NoBio
  <2>1. /\ reqCount' = [reqCount EXCEPT ![b] = @ - 1]
        /\ \/ reqCount'[b] = 0 /\ chipBio' = chipBio /\ pc' = "end" /\ k' = k
           \/ reqCount'[b] # 0 /\ chipBio' = [chipBio EXCEPT ![c] = NoBio] /\ pc' # "end"
    BY <1>2, <1>9 DEF Release, release_busy_lock, dec_bio_req_count, NextChip
  <2>2. b \in Bio /\ b \in live /\ c \in Running(b)
    BY <1>1, <1>2, <1>3, <1>9 DEF BioLifetime, Running
  <2>3. reqCount[b] \in 1 .. MaxReq /\ MaxReq \in Nat
    BY <1>1, <2>2, CountOf, BusAssumption DEF TypeOK
  <2>4. /\ reqCount' \in [Bio -> 0 .. MaxReq] /\ reqCount'[b] = reqCount[b] - 1
        /\ \A x \in Bio \ {b} : reqCount'[x] = reqCount[x]
    BY <1>1, <2>1, <2>2, <2>3 DEF TypeOK
  <2>5. \A x \in Bio : Running(x)' = Running(x) \ {c}
    BY <1>1, <1>2, <1>3, <1>9, <2>1, BusAssumption DEF Running, TypeOK
  <2>6. \A x \in Bio \ {b} : Running(x)' = Running(x)
    BY <1>2, <2>5 DEF Running
  <2>7. TypeOK'
    BY <1>1, <1>3, <1>5, <2>4 DEF TypeOK, IInv, Typed, queue, time, host, ftl
  <2>8. CountsRequests'
    <3> SUFFICES ASSUME NEW x \in live
                 PROVE  reqCount'[x] = Cardinality(Queued(x)) + Cardinality(Running(x)')
                                       + IF hbio = x THEN left ELSE 0
      BY <1>3, <1>6 DEF CountsRequests, host
    <3>1. reqCount[x] = Cardinality(Queued(x)) + Cardinality(Running(x)) + IF hbio = x THEN left ELSE 0
      BY <1>1 DEF CountsRequests
    <3>2. x \in Bio /\ left \in Nat
      BY <1>1, BusAssumption DEF TypeOK
    <3>3. CASE x # b
      BY <3>1, <3>2, <3>3, <2>4, <2>6
    <3>4. CASE x = b
      <4>1. Cardinality(Running(b)') = Cardinality(Running(b)) - 1
        BY <2>2, <2>5, Finite, FS_RemoveElement
      <4> QED BY <3>1, <3>2, <3>4, <4>1, <2>3, <2>4, Finite
    <3> QED BY <3>3, <3>4
  <2>9. BioLifetime'
    <3>1. \A d \in Chip : chipBio'[d] \in {chipBio[d], NoBio}
      BY <1>1, <2>1 DEF TypeOK
    <3> QED BY <1>1, <1>3, <1>6, <3>1, BusAssumption DEF BioLifetime, host
  <2>10. ThreadPc'
    <3>1. ~(hpc = "end" /\ hbio = b)
      BY <1>1, <2>3 DEF HostPc
    <3> QED BY <1>2, <1>3, <2>1, <2>2, <3>1 DEF ThreadPc, host
  <2>11. FreeChips'
    BY <1>1, <1>2, <1>3, <1>4, <2>1 DEF FreeChips, TypeOK
  <2> QED BY <1>7, <2>7, <2>8, <2>9, <2>10, <2>11 DEF BioInv
<1> QED BY <1>8, <1>9

(* The thread ends a bio nothing else refers to any more.                  *)
LEMMA EndIsLast == IInv /\ BioInv /\ End => BioInv'
<1> SUFFICES ASSUME IInv, BioInv, End PROVE BioInv'
  OBVIOUS
<1>1. /\ TypeOK /\ CountsRequests /\ BioLifetime /\ HostPc /\ ThreadPc /\ FreeChips
  BY DEF BioInv
<1>2. /\ pc = "end" /\ pc' \in {"release", "check"}
      /\ UNCHANGED <<queue, wakeup, issued, time, now, host, ftl, mapLock, reqCount>>
      /\ chipBio' = [chipBio EXCEPT ![k] = NoBio]
      /\ ended' = [ended EXCEPT ![chipBio[k]] = @ + 1] /\ live' = live \ {chipBio[k]}
  BY DEF End, EndBio, NextChip
<1>3. PICK c \in Chip, b \in live : c = k /\ b = chipBio[c]
  BY <1>1, <1>2 DEF TypeOK, ThreadPc
<1>4. b \in Bio /\ b # NoBio /\ ended[b] = 0
  BY <1>1, <1>3, BusAssumption DEF TypeOK, BioLifetime
<1>5. Queued(b) = {} /\ Running(b) = {} /\ (hbio = b => left = 0)
  <2>1. reqCount[b] = 0
    BY <1>1, <1>2, <1>3 DEF ThreadPc
  <2> QED BY <1>3, <2>1, CountOf
<1>6. hbio = b => left = 0 /\ hpc = "loop"
  <2>1. hbio = b => hpc # "end"
    BY <1>1, <1>2, <1>3 DEF ThreadPc
  <2>2. hbio = b => hpc # "idle"
    BY <1>1, <1>4, BusAssumption DEF HostPc
  <2> QED BY <1>1, <1>5, <2>1, <2>2 DEF HostPc, TypeOK
<1>7. IInv'
  BY NextIInv DEF Next, BusThread
<1>8. \A x : Queued(x)' = Queued(x)
  <2>1. \A d : Started(d)' = Started(d)
    BY <1>2 DEF Started
  <2>2. \A d, x : At(d, x)' = At(d, x)
    BY <1>2 DEF queue, At, Slot
  <2>3. num' = num
    BY <1>2 DEF queue
  <2> QED BY <2>1, <2>2, <2>3 DEF Queued
<1>9. \A d \in Chip : chipBio'[d] = IF d = c THEN NoBio ELSE chipBio[d]
  BY <1>1, <1>2, <1>3 DEF TypeOK
<1>10. \A x \in Bio \ {b} : Running(x)' = Running(x)
  <2>1. \A x \in Bio \ {b} : x # NoBio
    BY BusAssumption
  <2> QED BY <1>2, <1>3, <1>9, <2>1 DEF Running
<1>11. TypeOK'
  <2>1. ended' \in [Bio -> 0 .. 1]
    BY <1>1, <1>2, <1>3 DEF TypeOK, BioLifetime
  <2> QED BY <1>1, <1>2, <1>7, <2>1 DEF TypeOK, IInv, Typed, queue, time, host, ftl
<1>12. CountsRequests'
  BY <1>1, <1>2, <1>3, <1>8, <1>10 DEF CountsRequests, TypeOK, host
<1>13. BioLifetime'
  <2>1. ASSUME NEW x \in live' PROVE ended'[x] = 0
    BY <1>1, <1>2, <1>3, <2>1 DEF BioLifetime, TypeOK
  <2>2. \A d \in Chip : chipBio[d] = b => d = c
    BY <1>2, <1>3, <1>5 DEF Running
  <2>3. ASSUME NEW x \in Bio \ live'
        PROVE  /\ Queued(x)' = {} /\ \A d \in Chip : chipBio'[d] # x
               /\ hbio' = x => left' = 0 /\ hpc' = "loop"
    <3>1. CASE x = b
      BY <3>1, <1>2, <1>4, <1>5, <1>6, <1>8, <1>9, <2>2, BusAssumption DEF host
    <3>2. CASE x # b
      BY <3>2, <1>1, <1>2, <1>3, <1>8, <1>9, BusAssumption DEF BioLifetime, host
    <3> QED BY <3>1, <3>2
  <2> QED BY <2>1, <2>3 DEF BioLifetime
<1>14. HostPc' /\ ThreadPc' /\ FreeChips'
  <2>1. HostPc'
    BY <1>1, <1>2, <1>3, <1>6 DEF HostPc, host
  <2>2. FreeChips'
    BY <1>1, <1>2, <1>3, <1>9 DEF FreeChips, is_acquired
  <2> QED BY <1>2, <2>1, <2>2 DEF ThreadPc
<1> QED BY <1>11, <1>12, <1>13, <1>14 DEF BioInv

(* The operation that is started no longer waits: its chip works for it.   *)
LEMMA AcquireBio == IInv /\ BioInv /\ Acquire => BioInv'
<1> SUFFICES ASSUME IInv, BioInv, Acquire PROVE BioInv'
  OBVIOUS
<1>1. /\ TypeOK /\ CountsRequests /\ BioLifetime /\ HostPc /\ ThreadPc /\ FreeChips
  BY DEF BioInv
<1>2. PICK c \in Chip, b \in Bio \union {NoBio} : c = k /\ b = First(k).bio
  <2>1. First(k) \in Entry /\ k \in Chip
    BY <1>1, AcquireIInv DEF TypeOK
  <2>2. First(k).bio \in Bio \union {NoBio}
    BY <2>1 DEF Entry
  <2> QED BY <2>1, <2>2
<1>3. /\ pc = "first" /\ pc' = "remove" /\ k' = k
      /\ UNCHANGED <<queue, time, now, bios, host, ftl, mapLock>>
      /\ chipBio' = [chipBio EXCEPT ![c] = b]
      /\ ~is_acquired(c) /\ is_acquired(c)'
      /\ \A d \in Chip \ {c} : is_acquired(d)' <=> is_acquired(d)
      /\ IInv'
  BY <1>2, AcquireIInv DEF Acquire
<1>4. \A d \in Chip : chipBio'[d] = IF d = c THEN b ELSE chipBio[d]
  BY <1>1, <1>3 DEF TypeOK
<1>5. chipBio[c] = NoBio
  BY <1>1, <1>3 DEF FreeChips
<1>6. \A x : /\ <<c, 0>> \in Queued(x) <=> x = b
             /\ Queued(x)' = Queued(x) \ {<<c, 0>>}
  BY <1>2, AcquireQueued
<1>7. \A x \in Bio : /\ c \notin Running(x)
                     /\ Running(x)' = IF x = b THEN Running(x) \union {c} ELSE Running(x)
  <2>1. \A x \in Bio : x # NoBio
    BY BusAssumption
  <2> QED BY <1>3, <1>4, <1>5, <2>1 DEF Running
<1>8. TypeOK'
  BY <1>1, <1>3 DEF TypeOK, IInv, Typed, queue, time, bios, host, ftl
<1>9. CountsRequests'
  <2> SUFFICES ASSUME NEW x \in live
               PROVE  reqCount[x] = Cardinality(Queued(x)') + Cardinality(Running(x)')
                                    + IF hbio = x THEN left ELSE 0
    BY <1>3 DEF CountsRequests, bios, host
  <2>1. reqCount[x] = Cardinality(Queued(x)) + Cardinality(Running(x)) + IF hbio = x THEN left ELSE 0
    BY <1>1 DEF CountsRequests
  <2>2. x \in Bio /\ left \in Nat
    BY <1>1, BusAssumption DEF TypeOK
  <2>3. CASE x = b
    <3>1. Cardinality(Queued(x)') = Cardinality(Queued(x)) - 1
      BY <2>3, <1>6, Finite, FS_RemoveElement
    <3>2. Cardinality(Running(x)') = Cardinality(Running(x)) + 1
      BY <2>2, <2>3, <1>7, Finite, FS_AddElement
    <3> QED BY <2>1, <2>2, <3>1, <3>2, Finite
  <2>4. CASE x # b
    <3>1. Queued(x)' = Queued(x) /\ Running(x)' = Running(x)
      BY <2>2, <2>4, <1>6, <1>7
    <3> QED BY <2>1, <3>1
  <2> QED BY <2>3, <2>4
<1>10. BioLifetime'
  BY <1>1, <1>3, <1>4, <1>6 DEF BioLifetime, bios, host
<1>11. HostPc' /\ ThreadPc' /\ FreeChips'
  BY <1>1, <1>3, <1>4 DEF HostPc, ThreadPc, FreeChips, bios, host
<1> QED BY <1>8, <1>9, <1>10, <1>11 DEF BioInv

(* Removing it changes no count.                                           *)
LEMMA RemoveBio == IInv /\ BioInv /\ Remove => BioInv'
<1> SUFFICES ASSUME IInv, BioInv, Remove PROVE BioInv'
  OBVIOUS
<1>1. /\ TypeOK /\ CountsRequests /\ BioLifetime /\ HostPc /\ ThreadPc /\ FreeChips
  BY DEF BioInv
<1>2. /\ pc = "remove" /\ pc' \in {"check", "sample"} /\ queue' = <<list', num', head', tail'>>
      /\ UNCHANGED <<busy, time, now, bios, host, ftl, mapLock>>
  BY DEF Remove, NextChip, queue
<1>3. IInv'
  BY NextIInv DEF Next, BusThread
<1>4. \A x : Cardinality(Queued(x)') = Cardinality(Queued(x)) /\ Running(x)' = Running(x)
  BY <1>2, RemoveQueued DEF Running, busy
<1>5. \A x : Queued(x) = {} => Queued(x)' = {}
  <2>1. ASSUME NEW x PROVE IsFiniteSet(Queued(x)')
    <3>1. Queued(x)' \subseteq Chip \X Index
      BY DEF Queued
    <3> QED BY <3>1, FiniteRings, FS_Subset
  <2> QED BY <1>4, <2>1, FS_EmptySet
<1>6. TypeOK'
  BY <1>1, <1>2, <1>3 DEF TypeOK, IInv, Typed, busy, time, bios, host, ftl
<1>7. CountsRequests'
  BY <1>1, <1>2, <1>4 DEF CountsRequests, bios, host
<1>8. BioLifetime'
  BY <1>1, <1>2, <1>5 DEF BioLifetime, bios, host, busy
<1>9. HostPc' /\ ThreadPc' /\ FreeChips'
  BY <1>1, <1>2 DEF HostPc, ThreadPc, FreeChips, bios, host, busy, is_acquired
<1> QED BY <1>6, <1>7, <1>8, <1>9 DEF BioInv

----------------------------------------------------------------------------
(* No bio, free chips and empty rings.                                     *)
LEMMA InitBio == Init => BioInv
<1> SUFFICES ASSUME Init PROVE BioInv
  OBVIOUS
<1>1. /\ MaxEntries \in Nat \ {0} /\ 0 \in Index /\ 0 \in Chip /\ 0 \in Time
      /\ 0 \in 0 .. MaxLag /\ 0 \in 0 .. MaxReq /\ 0 \in 0 .. MaxEntries /\ 0 \in 0 .. 1
      /\ "READ" \in Op /\ NoBio \notin Bio
  BY BusAssumption DEF Index, Chip, Time
<1>2. TypeOK
  BY <1>1 DEF Init, TypeOK
<1>3. \A b : Queued(b) = {}
  <2>1. \A q \in Chip \X Index : Started(q[1]) = 0 /\ num[q[1]] = 0
    BY DEF Init, Started
  <2> QED BY <2>1 DEF Queued
<1> QED BY <1>1, <1>2, <1>3
     DEF BioInv, Init, CountsRequests, BioLifetime, HostPc, ThreadPc, FreeChips

(* Every step keeps the counts of the bios right.                          *)
LEMMA NextBio == IInv /\ BioInv /\ [Next]_vars => BioInv'
<1> SUFFICES ASSUME IInv, BioInv, [Next]_vars PROVE BioInv'
  OBVIOUS
<1>1. CASE UNCHANGED vars
  <2>1. \A x : Queued(x)' = Queued(x) /\ Running(x)' = Running(x)
    BY <1>1, SameWork DEF vars, busy, thread
  <2> QED BY <1>1, <2>1 DEF BioInv, TypeOK, CountsRequests, BioLifetime, HostPc, ThreadPc, FreeChips,
             vars, queue, busy, time, thread, bios, host, ftl, is_acquired
<1>2. CASE NewRead
  BY <1>2, BuildBio DEF NewRead
<1>3. CASE HostStep
  BY <1>3, LookupBio, IssueBio, DecBio, HostEndBio DEF HostStep
<1>4. CASE FtlLock \/ FtlIssue
  BY <1>4, FtlBio
<1>5. CASE BusThread \/ Tick
  BY <1>5, IdleBio, ReleaseBio, EndIsLast, AcquireBio, RemoveBio DEF BusThread
<1> QED BY <1>1, <1>2, <1>3, <1>4, <1>5 DEF Next

(* In every execution.                                                     *)
LEMMA BioSound == Spec => []BioInv
BY Sound, InitBio, NextBio, PTL DEF Spec

(* Every index stays in its ring, and no count, neither num_entries of a   *)
(* ring nor req_count of a bio, drops below zero, where it would wrap      *)
(* (bus_controller.c:544, main.c:406).                                     *)
THEOREM BusTyping == Spec => []TypeOK
BY BioSound, PTL DEF BioInv

(* req_count is, whatever make_request and the bus thread are in the       *)
(* middle of, the number of pages still to be looked up, waiting or being  *)
(* read, so that a read does not end before its last page was read and     *)
(* does end with it (bus_controller.c:565, main.c:93, 406).                *)
THEOREM RequestsCounted == Spec => []CountsRequests
BY BioSound, PTL DEF BioInv

(* Of make_request and the bus thread, which count down the same bio, one  *)
(* ends it, once, and no queue, chip or page still to do refers to the     *)
(* memory it frees (bus_controller.c:565-569, main.c:89-98).               *)
THEOREM BiosEndOnce == Spec => []BioLifetime
BY BioSound, PTL DEF BioInv
=============================================================================
