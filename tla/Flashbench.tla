---------------------------- MODULE Flashbench ----------------------------
(***************************************************************************)
(* make_request with everything below it: the write buffer, the FTL (Ftl)  *)
(* and the collector thread.                                               *)
(*                                                                         *)
(* dev_lock lets one request in at a time (CompletionLock), the collector  *)
(* runs in between and competes for mapping_context_lock.  The pages of a  *)
(* read are copied when they are looked up; that its bio ends later, when  *)
(* the chips are done, is the subject of BusController.                    *)
(***************************************************************************)
EXTENDS Ftl, Sequences

CONSTANTS
  WbPage,           \* NR_LP_IN_PP * NUM_CHIPS pages
  Bio,              \* the requests: [kind, lpas, datas]
  NoRequest,
  MaxLpasDiscard,   \* NR_MAX_LPAS_DISCARD
  Missing           \* a page of a read that is not in the write buffer

(* A request other than a flush covers at least one page, a write brings   *)
(* the contents of its pages and a discard takes them away.                *)
ASSUME FbAssumption ==
  /\ NoRequest \notin Bio
  /\ Missing \notin Data \union {Unmapped}
  /\ \A r \in Bio :
       /\ r.kind \in {"read", "write", "discard", "flush"}
       /\ r.kind # "flush" => r.lpas \in Seq(Lpa) /\ Len(r.lpas) > 0
       /\ r.kind = "write" => r.datas \in Seq(Data) /\ Len(r.datas) = Len(r.lpas)
       /\ r.kind = "discard" => r.datas = [x \in DOMAIN r.lpas |-> Unmapped]

VARIABLES
  wlpa, wdata, wflag, free, buf, writing, hash, nrEntries,
  hpc,      \* where make_request stands
  req, n,   \* its bio, and its loop counter
  got,      \* the pages of a read
  ans,      \* what the host was told last
  before    \* what the disk held when the request came in

INSTANCE WriteBuffer

buffer == <<wlpa, wdata, wflag, free, buf, writing, hash, nrEntries>>

host   == <<hpc, req, n, got, ans, before>>
fbvars == <<vars, buffer, host>>

FbInit ==
  /\ Init /\ fb_create_write_buffer
  /\ hpc = "idle" /\ req = NoRequest /\ n = 1 /\ got = <<>> /\ ans = <<>>
  /\ before = [l \in Lpa |-> Unmapped]

(* What the host may expect of the disk: the write buffer, and below it    *)
(* what was handed to the FTL.                                             *)
Contents == [l \in Lpa |-> IF Buffered(l) THEN fb_get_pg_data(l) ELSE disk[l]]

At == req.lpas[n]

(* The next turn of a loop over the pages of the request.                  *)
NextPage(after) ==
  \/ n < Len(req.lpas) /\ n' = n + 1 /\ hpc' = hpc
  \/ n = Len(req.lpas) /\ n' = 1 /\ hpc' = after

(* _fb_del_invalidate_pgs holds the mapping lock for all the pages of a    *)
(* write, or for MaxLpasDiscard pages of a discard.                        *)
HoldsMapping ==
  /\ hpc = "invalidate"
  /\ IF req.kind = "write" THEN n > 1 ELSE (n - 1) % MaxLpasDiscard # 0

----------------------------------------------------------------------------
(* make_request.                                                           *)

make_request(r) ==
  /\ hpc = "idle"
  /\ req' = r /\ ans' = <<>> /\ n' = n /\ got' = got
  /\ \/ err /\ hpc' = "fail" /\ before' = before
     \/ /\ ~err /\ before' = Contents
        /\ \/ r.kind = "flush" /\ hpc' = "finish"
           \/ r.kind = "discard" /\ hpc' = "rm_buf"
           \/ r.kind \in {"read", "write"} /\ hpc' = "build"
  /\ UNCHANGED <<vars, buffer>>

Ended == hpc' = "idle" /\ req' = NoRequest /\ n' = 1 /\ got' = <<>> /\ before' = before

(* A read takes the pages that are in the write buffer at once.            *)
fb_build_bio ==
  /\ hpc = "build"
  /\ \/ /\ req.kind = "read" /\ hpc' = "read"
        /\ got' = [x \in DOMAIN req.lpas |->
                     IF Buffered(req.lpas[x]) THEN fb_get_pg_data(req.lpas[x]) ELSE Missing]
     \/ req.kind = "write" /\ hpc' = "invalidate" /\ got' = got
     \/ hpc' = "no_memory" /\ got' = got
  /\ UNCHANGED <<vars, buffer, req, n, ans, before>>

(* No memory for the bio: reported, unlike any other failure, but it sets  *)
(* fb->err too.                                                            *)
NoMemory ==
  /\ hpc = "no_memory"
  /\ err' = TRUE /\ ans' = <<"error">>
  /\ Ended
  /\ UNCHANGED <<flash, lists, gcm, loops, target, call, bgcAlive, disk, l2p, act, gc, mru, pc, buffer>>

(* A page of a read that was not in the buffer.  One that is not mapped is *)
(* left as it is.                                                          *)
make_read_request_page_mapping ==
  /\ hpc = "read"
  /\ \/ /\ got[n] = Missing /\ pc = "idle"
        /\ got' = [got EXCEPT ![n] = IF l2p[At] = Unmapped THEN Unmapped ELSE store[l2p[At]]]
     \/ got[n] # Missing /\ got' = got
  /\ NextPage("finish")
  /\ UNCHANGED <<vars, buffer, req, ans, before>>

(* fb_del_invalid_data and the second loop of a discard.                   *)
fb_del_invalidate_pgs ==
  /\ hpc = "invalidate"
  /\ Invalidate(At)
  /\ NextPage(IF req.kind = "write" THEN "put" ELSE "finish")
  /\ UNCHANGED <<buffer, req, got, ans, before>>

(* The first loop of a discard.                                            *)
DiscardBuffered ==
  /\ hpc = "rm_buf"
  /\ fb_rm_buf_pg(At)
  /\ NextPage("invalidate")
  /\ UNCHANGED <<vars, req, got, ans, before>>

(* A page of a write is buffered, or waits for the buffer to be flushed.   *)
Put ==
  /\ hpc = "put"
  /\ \/ fb_put_pg(At, req.datas[n]) /\ NextPage("finish")
     \/ NoRoom(At) /\ hpc' = "flush" /\ n' = n /\ UNCHANGED buffer
  /\ UNCHANGED <<vars, req, got, ans, before>>

(* fb_wb_flush: as long as there is enough to fill a page, hand it down.   *)
Flush ==
  /\ hpc = "flush"
  /\ \/ fb_get_pgs_to_write /\ hpc' = "program"
     \/ ~EnoughToWrite /\ hpc' = "put" /\ UNCHANGED buffer
  /\ UNCHANGED <<vars, req, n, got, ans, before>>

(* The pages handed down: those being written, in their order.             *)
Program ==
  /\ hpc = "program"
  /\ WriteStart([o \in Ofs |-> wlpa[writing[o + 1]]], [o \in Ofs |-> wdata[writing[o + 1]]])
  /\ hpc' = "wait"
  /\ UNCHANGED <<buffer, req, n, got, ans, before>>

(* Mutant: the written pages are not released.                             *)
ProgrammedKeeps ==
  /\ hpc = "wait" /\ op # "write"
  /\ \/ err /\ hpc' = "fail"
     \/ ~err /\ hpc' = "flush"
  /\ UNCHANGED <<vars, buffer, req, n, got, ans, before>>

(* make_write_request_page_mapping has returned.                           *)
Programmed ==
  /\ hpc = "wait" /\ op # "write"
  /\ \/ err /\ hpc' = "fail" /\ UNCHANGED buffer
     \/ ~err /\ fb_rm_written_pgs /\ hpc' = "flush"
  /\ UNCHANGED <<vars, req, n, got, ans, before>>

Finish ==
  /\ hpc = "finish"
  /\ ans' = IF req.kind = "read" THEN got ELSE <<"ok">>
  /\ Ended /\ UNCHANGED <<vars, buffer>>

(* The FAIL label: the error is reported as 0 (main.c:144), and a read     *)
(* copied nothing.                                                         *)
FailRequest ==
  /\ hpc = "fail"
  /\ ans' = IF req.kind = "read" THEN [x \in DOMAIN req.lpas |-> Unmapped] ELSE <<"ok">>
  /\ Ended /\ UNCHANGED <<vars, buffer>>

RequestStep ==
  \/ fb_build_bio \/ NoMemory \/ make_read_request_page_mapping \/ fb_del_invalidate_pgs
  \/ DiscardBuffered \/ Put \/ Flush \/ Program \/ Programmed \/ Finish \/ FailRequest

----------------------------------------------------------------------------
(* As in FreshSpec, no round keeps a victim that is not a used block any   *)
(* more.                                                                   *)
FtlStep == Step /\ FreshVictim /\ UNCHANGED <<buffer, host>>
Collector == trigger_bg_gc /\ ~HoldsMapping /\ UNCHANGED <<buffer, host>>

FbNext == (\E r \in Bio : make_request(r)) \/ RequestStep \/ FtlStep \/ Collector

FbSpec == FbInit /\ [][FbNext]_fbvars

----------------------------------------------------------------------------
(* Properties.                                                             *)

(* Pages are being written only during a flush, unless one has failed: no  *)
(* put and no discard meets one.                                           *)
WritingInFlush == writing # <<>> => hpc \in {"program", "wait"} \/ err

(* To the host, buffer, flushes, collections and discards are one disk     *)
(* that serves its requests one after the other.                           *)
Disk == INSTANCE LogicalDisk WITH
  Request <- Bio,
  disk <- IF hpc = "idle" /\ ~err THEN Contents ELSE before,
  dead <- err
ActsAsDisk == Disk!Spec
=============================================================================
