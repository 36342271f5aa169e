--------------------------- MODULE CompletionLock ---------------------------
(***************************************************************************)
(* The locks of flashbench: dev_lock, mapping_context_lock, wb_lock, the   *)
(* bio_lock of a read and the queue_lock of a chip.  Each is a completion  *)
(* of the kernel (a counter that is waited for until it is positive, and   *)
(* then decremented) that starts at one, is taken by wait_for_completion   *)
(* followed by reinit_completion and given back by complete.  The TODO at  *)
(* main.c:52 doubts the first two, which are two steps here.               *)
(*                                                                         *)
(* What a thread does under its locks is left out.  Nesting says which     *)
(* lock it may ask for while it holds which others; a lock is given back   *)
(* before those it was taken inside of.                                    *)
(***************************************************************************)
EXTENDS Integers

CONSTANTS
  Thread,     \* make_request's callers, the collector, the bus threads
  Lock,
  Nesting,    \* of a thread: pairs of the locks held and the one asked for
  Rank,       \* a number for each lock, larger for the inner ones
  MaxRank,
  None        \* no lock

ASSUME LockAssumption ==
  /\ None \notin Lock
  /\ MaxRank \in Nat
  /\ Rank \in [Lock -> 0 .. MaxRank]
  /\ \A t \in Thread : \A n \in Nesting[t] :
       n[2] \in Lock /\ \A h \in n[1] : Rank[h] < Rank[n[2]]

VARIABLES
  done,    \* of a lock: the counter of its completion
  held,    \* of a thread: the locks whose wait it has got past
  want,    \* of a thread: the lock it is taking, or None
  pc       \* of a thread: "run", "wait" or "reinit"

vars == <<done, held, want, pc>>

(* init_completion and complete, wherever a lock is created.               *)
Init ==
  /\ done = [l \in Lock |-> 1]
  /\ held = [t \in Thread |-> {}]
  /\ want = [t \in Thread |-> None]
  /\ pc = [t \in Thread |-> "run"]

Ask(t, l) ==
  /\ pc[t] = "run" /\ <<held[t], l>> \in Nesting[t]
  /\ want' = [want EXCEPT ![t] = l] /\ pc' = [pc EXCEPT ![t] = "wait"]
  /\ UNCHANGED <<done, held>>

(* Mutant: like complete_all, the wait lets everybody pass. *)
WaitLetsAllPass(t) ==
  /\ pc[t] = "wait" /\ done[want[t]] > 0
  /\ done' = done
  /\ held' = [held EXCEPT ![t] = @ \union {want[t]}]
  /\ pc' = [pc EXCEPT ![t] = "reinit"] /\ want' = want

(* Mutant: the counter is not looked at. *)
NoWait(t) ==
  /\ pc[t] = "wait"
  /\ done' = [done EXCEPT ![want[t]] = @ - 1]
  /\ held' = [held EXCEPT ![t] = @ \union {want[t]}]
  /\ pc' = [pc EXCEPT ![t] = "reinit"] /\ want' = want

wait_for_completion(t) ==
  /\ pc[t] = "wait" /\ done[want[t]] > 0
  /\ done' = [done EXCEPT ![want[t]] = @ - 1]
  /\ held' = [held EXCEPT ![t] = @ \union {want[t]}]
  /\ pc' = [pc EXCEPT ![t] = "reinit"] /\ want' = want

reinit_completion(t) ==
  /\ pc[t] = "reinit"
  /\ done' = [done EXCEPT ![want[t]] = 0]
  /\ want' = [want EXCEPT ![t] = None] /\ pc' = [pc EXCEPT ![t] = "run"]
  /\ held' = held

(* Mutant: an early return that forgets the lock.  *)
ReturnWithoutComplete(t, l) ==
  /\ pc[t] = "run" /\ l \in held[t] /\ <<held[t] \ {l}, l>> \in Nesting[t]
  /\ done' = done
  /\ held' = [held EXCEPT ![t] = @ \ {l}]
  /\ UNCHANGED <<want, pc>>

(* Mutant: the lock is completed by somebody who does not hold it. *)
CompleteTwice(t, l) ==
  /\ pc[t] = "run" /\ l \in held[t] /\ <<held[t] \ {l}, l>> \in Nesting[t]
  /\ done' = [done EXCEPT ![l] = @ + 2]
  /\ held' = [held EXCEPT ![t] = @ \ {l}]
  /\ UNCHANGED <<want, pc>>

complete(t, l) ==
  /\ pc[t] = "run" /\ l \in held[t] /\ <<held[t] \ {l}, l>> \in Nesting[t]
  /\ done' = [done EXCEPT ![l] = @ + 1]
  /\ held' = [held EXCEPT ![t] = @ \ {l}]
  /\ UNCHANGED <<want, pc>>

(* What a thread does once it has asked for a lock.                        *)
Proceed(t) ==
  wait_for_completion(t) \/ reinit_completion(t) \/ \E l \in Lock : complete(t, l)

Next == \E t \in Thread : Proceed(t) \/ \E l \in Lock : Ask(t, l)

Spec == Init /\ [][Next]_vars

----------------------------------------------------------------------------
(* Properties.                                                             *)

(* Type invariant. *)
TypeOK ==
  /\ done \in [Lock -> Nat]
  /\ held \in [Thread -> SUBSET Lock]
  /\ want \in [Thread -> Lock \union {None}]
  /\ pc \in [Thread -> {"run", "wait", "reinit"}]

(* A lock has at most one holder, although taking it is two steps (the     *)
(* TODO at main.c:52, main.c:401 and ftl_algorithm_page_mapping.c:269).    *)
Mutex == \A t, u \in Thread : t # u => held[t] \intersect held[u] = {}

(* A lock is free exactly when its completion stands at one: reinit never  *)
(* wipes out a complete, and no complete adds to another.                  *)
Token ==
  \A l \in Lock : \/ done[l] = 1 /\ \A t \in Thread : l \notin held[t]
                  \/ done[l] = 0 /\ \E t \in Thread : l \in held[t]

Blocked(t) == pc[t] = "wait" /\ done[want[t]] = 0

(* Threads never wait for each other in a circle: as long as one is        *)
(* blocked, some thread that holds a lock is not.                          *)
NoDeadlock ==
  (\E t \in Thread : Blocked(t)) => \E u \in Thread : held[u] # {} /\ ~Blocked(u)
=============================================================================
