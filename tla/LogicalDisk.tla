---------------------------- MODULE LogicalDisk ----------------------------
(***************************************************************************)
(* What flashbench promises its host: a disk of logical pages that serves  *)
(* one request at a time.  A read returns what was written last, or leaves *)
(* a page as it is that was never written or was discarded.  A write may   *)
(* break the disk, and so may a request that is refused for lack of        *)
(* memory; from then on every request is answered as if it had succeeded,  *)
(* but has no effect.                                                      *)
(***************************************************************************)
EXTENDS Integers, Sequences

CONSTANTS Lpa, Data, Unmapped,
          Request,   \* [kind, lpas, datas], the contents of a discard being Unmapped
          NoRequest

VARIABLES
  disk,   \* the contents of a page, or Unmapped
  dead,   \* a write has failed
  req,    \* the request in progress
  ans     \* what the last one returned

vars == <<disk, dead, req, ans>>

Init == /\ disk = [l \in Lpa |-> Unmapped] /\ dead \in BOOLEAN
        /\ req = NoRequest /\ ans = <<>>

Submit(r) == /\ req = NoRequest /\ req' = r
             /\ ans' = <<>> /\ UNCHANGED <<disk, dead>>

(* The last of several contents for the same page counts.                  *)
Overwrite(r) ==
  [l \in Lpa |->
     LET at == {x \in DOMAIN r.lpas : r.lpas[x] = l}
     IN  IF at = {} THEN disk[l] ELSE r.datas[CHOOSE x \in at : \A y \in at : y <= x]]

Serve ==
  /\ req # NoRequest /\ ~dead /\ req' = NoRequest /\ dead' = dead
  /\ \/ /\ req.kind = "read" /\ disk' = disk
        /\ ans' = [x \in DOMAIN req.lpas |-> disk[req.lpas[x]]]
     \/ /\ req.kind \in {"write", "discard"}
        /\ disk' = Overwrite(req) /\ ans' = <<"ok">>
     \/ req.kind = "flush" /\ disk' = disk /\ ans' = <<"ok">>

Break == /\ req # NoRequest /\ req.kind = "write" /\ ~dead /\ dead' = TRUE
         /\ UNCHANGED <<disk, req, ans>>

(* The one failure that is reported.                                       *)
Refuse == /\ req # NoRequest /\ req.kind \in {"read", "write"} /\ ~dead
          /\ dead' = TRUE /\ req' = NoRequest /\ ans' = <<"error">>
          /\ disk' = disk

Ignore == /\ req # NoRequest /\ dead /\ req' = NoRequest
          /\ ans' = IF req.kind = "read" THEN [x \in DOMAIN req.lpas |-> Unmapped] ELSE <<"ok">>
          /\ UNCHANGED <<disk, dead>>

Next == Serve \/ Break \/ Refuse \/ Ignore \/ \E r \in Request : Submit(r)

Spec == Init /\ [][Next]_vars
=============================================================================
