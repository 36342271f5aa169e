---------------------------- MODULE ChipPipeline ----------------------------
(***************************************************************************)
(* What the bus controller promises for the chips of a bus: the operations *)
(* issued for a chip start in the order they were issued, one at a time,   *)
(* and none is lost or started twice.                                      *)
(***************************************************************************)
EXTENDS Sequences, Naturals

CONSTANTS Chip, Entry, MaxEntries, Idle

VARIABLES
  pending,   \* of a chip: the operations issued and not yet started
  running    \* of a chip: the bio of the operation in progress, or Idle

vars == <<pending, running>>

Init ==
  /\ pending = [c \in Chip |-> <<>>]
  /\ running = [c \in Chip |-> Idle]

Issue(c, e) ==
  /\ Len(pending[c]) < MaxEntries
  /\ pending' = [pending EXCEPT ![c] = Append(@, e)]
  /\ running' = running

Start(c) ==
  /\ running[c] = Idle /\ pending[c] # <<>>
  /\ running' = [running EXCEPT ![c] = Head(pending[c]).bio]
  /\ pending' = [pending EXCEPT ![c] = Tail(@)]

Finish(c) ==
  /\ running[c] # Idle
  /\ running' = [running EXCEPT ![c] = Idle]
  /\ pending' = pending

Next == \E c \in Chip : Start(c) \/ Finish(c) \/ \E e \in Entry : Issue(c, e)

Spec == Init /\ [][Next]_vars
=============================================================================
