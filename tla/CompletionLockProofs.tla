------------------------ MODULE CompletionLockProofs ------------------------
(***************************************************************************)
(* The completions of flashbench are locks: for any set of threads and     *)
(* locks, exclusive, never completed twice, and free of deadlock as long   *)
(* as inner locks rank above outer ones.                                   *)
(***************************************************************************)
EXTENDS CompletionLock, TLAPS, WellFoundedInduction

(* Where a thread stands and what it is taking agree. *)
Phases ==
  \A t \in Thread :
    /\ pc[t] = "run" => want[t] = None
    /\ pc[t] = "wait" => want[t] \in Lock /\ <<held[t], want[t]>> \in Nesting[t]
    /\ pc[t] = "reinit" => want[t] \in held[t]

(* The inductive invariant. *)
IInv == TypeOK /\ Phases /\ Mutex /\ Token

(* Every lock starts completed once, with nobody inside. *)
LEMMA InitIInv == Init => IInv
BY LockAssumption DEF Init, IInv, TypeOK, Phases, Mutex, Token

(* Asking for a lock changes nobody's locks. *)
LEMMA AskIInv == ASSUME IInv, NEW t \in Thread, NEW l \in Lock, Ask(t, l) PROVE IInv'
BY LockAssumption DEF Ask, IInv, TypeOK, Phases, Mutex, Token

(* A thread gets past the wait only when nobody holds the lock. *)
LEMMA WaitIInv == ASSUME IInv, NEW t \in Thread, wait_for_completion(t) PROVE IInv'
<1> DEFINE l == want[t]
<1>0. pc[t] = "wait" /\ done[l] > 0
  BY DEF wait_for_completion
<1>a. l \in Lock
  BY <1>0 DEF IInv, Phases
<1>1. l \in Lock /\ done[l] = 1 /\ \A u \in Thread : l \notin held[u]
  BY <1>0, <1>a DEF IInv, Token
<1>2. /\ done' = [done EXCEPT ![l] = 0]
      /\ held' = [held EXCEPT ![t] = @ \union {l}]
      /\ pc' = [pc EXCEPT ![t] = "reinit"] /\ want' = want
  BY <1>1 DEF wait_for_completion, IInv, TypeOK
<1> HIDE DEF l
<1>3. TypeOK'
  BY <1>1, <1>2 DEF IInv, TypeOK
<1>4. Phases'
  BY <1>2 DEF IInv, TypeOK, Phases, l
<1>5. Mutex'
  BY <1>1, <1>2 DEF IInv, TypeOK, Mutex
<1>6. Token'
  BY <1>1, <1>2 DEF IInv, TypeOK, Token
<1> QED BY <1>3, <1>4, <1>5, <1>6 DEF IInv

(* The second half of taking a lock finds the counter at zero already. *)
LEMMA ReinitIInv == ASSUME IInv, NEW t \in Thread, reinit_completion(t) PROVE IInv'
<1>1. want[t] \in held[t] /\ want[t] \in Lock /\ done[want[t]] = 0
  BY DEF reinit_completion, IInv, TypeOK, Phases, Token
<1>2. done' = done
  BY <1>1 DEF reinit_completion, IInv, TypeOK
<1> QED BY <1>1, <1>2 DEF reinit_completion, IInv, TypeOK, Phases, Mutex, Token

(* Only the holder completes, so the counter goes from zero to one. *)
LEMMA CompleteIInv == ASSUME IInv, NEW t \in Thread, NEW l \in Lock, complete(t, l) PROVE IInv'
<1>1. done[l] = 0 /\ \A u \in Thread : u # t => l \notin held[u]
  BY DEF complete, IInv, TypeOK, Mutex, Token
<1>2. /\ done' = [done EXCEPT ![l] = 1]
      /\ held' = [held EXCEPT ![t] = @ \ {l}]
      /\ pc' = pc /\ want' = want /\ pc[t] = "run"
  BY <1>1 DEF complete, IInv, TypeOK
<1>3. TypeOK' /\ Phases'
  BY <1>2 DEF IInv, TypeOK, Phases
<1>4. Mutex'
  BY <1>2 DEF IInv, TypeOK, Mutex
<1>5. Token'
  BY <1>1, <1>2 DEF IInv, TypeOK, Token
<1> QED BY <1>3, <1>4, <1>5 DEF IInv

LEMMA NextIInv == IInv /\ [Next]_vars => IInv'
<1> SUFFICES ASSUME IInv, [Next]_vars PROVE IInv'
  OBVIOUS
<1>1. CASE UNCHANGED vars
  BY <1>1 DEF vars, IInv, TypeOK, Phases, Mutex, Token, Blocked
<1>2. ASSUME NEW t \in Thread, Proceed(t) PROVE IInv'
  BY <1>2, WaitIInv, ReinitIInv, CompleteIInv DEF Proceed
<1>3. ASSUME NEW t \in Thread, NEW l \in Lock, Ask(t, l) PROVE IInv'
  BY <1>3, AskIInv
<1> QED BY <1>1, <1>2, <1>3 DEF Next

LEMMA Invariance == Spec => []IInv
BY InitIInv, NextIInv, PTL DEF Spec

(* Of the locks somebody holds, one is innermost. *)
LEMMA Innermost ==
  ASSUME NEW S, S \subseteq Lock, S # {}
  PROVE  \E l \in S : \A m \in S : Rank[m] <= Rank[l]
<1> DEFINE T == {MaxRank - Rank[l] : l \in S}
<1>1. T \subseteq Nat /\ T # {}
  BY LockAssumption
<1>2. PICK x \in T : \A y \in T : ~(<<y, x>> \in OpToRel(<, Nat))
  BY <1>1, NatLessThanWellFounded, WFMin
<1>3. \A y \in T : x <= y
  <2> TAKE y \in T
  <2>1. x \in Nat /\ y \in Nat
    BY <1>1
  <2>2. <<y, x>> \in Nat \X Nat /\ ~(y < x)
    BY <1>2, <2>1 DEF OpToRel
  <2> HIDE DEF T
  <2> QED BY <2>1, <2>2
<1>4. PICK l \in S : x = MaxRank - Rank[l]
  OBVIOUS
<1>5. ASSUME NEW m \in S PROVE Rank[m] <= Rank[l]
  <2>1. MaxRank - Rank[m] \in T
    OBVIOUS
  <2>2. x <= MaxRank - Rank[m]
    BY <1>3, <2>1
  <2>3. Rank[m] \in Nat /\ Rank[l] \in Nat /\ MaxRank \in Nat
    BY LockAssumption
  <2> QED BY <1>4, <2>2, <2>3
<1> QED BY <1>5

(* The holder of the innermost lock held waits for nobody: it could only   *)
(* ask for one that ranks higher, and those are free.                      *)
LEMMA NoCircle == IInv => NoDeadlock
<1> SUFFICES ASSUME IInv, NEW t \in Thread, Blocked(t)
             PROVE  \E u \in Thread : held[u] # {} /\ ~Blocked(u)
  BY DEF NoDeadlock
<1> DEFINE S == {l \in Lock : done[l] = 0}
<1>1. S # {}
  BY DEF Blocked, IInv, Phases
<1>2. PICK l \in S : \A m \in S : Rank[m] <= Rank[l]
  BY <1>1, Innermost
<1>3. PICK u \in Thread : l \in held[u]
  BY <1>2 DEF IInv, Token
<1>4. ASSUME Blocked(u) PROVE FALSE
  <2> DEFINE n == <<held[u], want[u]>>
  <2>1. n \in Nesting[u] /\ want[u] \in S
    BY <1>4 DEF Blocked, IInv, Phases
  <2>2. Rank[l] < Rank[want[u]]
    BY <1>3, <2>1, LockAssumption
  <2>3. Rank[want[u]] <= Rank[l]
    BY <1>2, <2>1
  <2> QED BY <2>1, <2>2, <2>3, LockAssumption
<1> QED BY <1>3, <1>4

(* A completion is never negative, and a thread holds and wants only locks *)
(* it may, wherever it stands between wait_for_completion and complete.    *)
THEOREM LockTyping == Spec => []TypeOK
BY Invariance, PTL DEF IInv

(* Nobody is ever inside a lock that another holds, for any number of      *)
(* requests, collectors and bus threads: the two halves of taking a lock   *)
(* (main.c:54, 403; ftl_algorithm_page_mapping.c:271) need no atomicity.   *)
THEOREM Exclusion == Spec => []Mutex
BY Invariance, PTL DEF IInv

(* The completion of a lock is one when it is free and zero when it is     *)
(* held: reinit_completion loses no complete.                              *)
THEOREM NoLostComplete == Spec => []Token
BY Invariance, PTL DEF IInv

(* As every thread of the driver takes its locks in the order of the       *)
(* ranks, threads never block each other in a circle.                      *)
THEOREM DeadlockFreedom == Spec => []NoDeadlock
<1>1. IInv => NoDeadlock
  BY NoCircle
<1> QED BY <1>1, Invariance, PTL
=============================================================================
