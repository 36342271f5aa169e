-------------------------- MODULE MCCompletionLock --------------------------
(* Two requests, the collector and a bus thread on the five locks they     *)
(* share.                                                                  *)
EXTENDS CompletionLock
CONSTANTS host1, host2, bgc, bus, dev, map, wb, bio, queue

(* make_request holds dev_lock throughout (main.c:54, 137); inside it      *)
(* looks in the write buffer, runs FTL operations that hand operations to  *)
(* the bus controller, and counts down the requests of its read.           *)
Request == {<<{}, dev>>, <<{dev}, wb>>, <<{dev}, map>>, <<{dev, map}, queue>>, <<{dev}, bio>>}

(* A background round is one FTL operation; the bus thread takes one lock  *)
(* at a time.                                                              *)
MCNesting ==
  [t \in {host1, host2, bgc, bus} |->
     CASE t = bgc -> {<<{}, map>>, <<{map}, queue>>}
       [] t = bus -> {<<{}, queue>>, <<{}, bio>>}
       [] OTHER -> Request]

MCRank == [l \in {dev, map, wb, bio, queue} |->
             CASE l = dev -> 0 [] l = map -> 1 [] OTHER -> 2]
=============================================================================
