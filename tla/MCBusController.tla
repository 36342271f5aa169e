-------------------------- MODULE MCBusController --------------------------
(* Reads of one microsecond; programs of two.                              *)
EXTENDS BusController
MCOpTime == [o \in {"READ", "PROG"} |-> IF o = "READ" THEN 1 ELSE 2]
MCReadTime == [o \in {"READ"} |-> 1]
=============================================================================
