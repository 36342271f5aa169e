---------------------------- MODULE WriteBuffer ----------------------------
(***************************************************************************)
(* The write buffer: pages on a free list, a list of buffered pages in the *)
(* order they were written, and a list of pages being written, with a hash *)
(* table from LPA to the page that holds it.  make_request uses it under   *)
(* dev_lock, so a call is one step.  The order of the free list decides    *)
(* nothing and is left out.                                                *)
(***************************************************************************)
EXTENDS Integers, Sequences, FiniteSets

CONSTANTS
  WbPage,     \* the pages of the buffer
  NumLps,     \* NR_LP_IN_PP, the pages written at once
  Lpa, Data,  \* addresses and contents
  Unmapped    \* what a page holds that holds nothing that matters

VARIABLES
  wlpa, wdata, wflag,   \* of a page: fb_wb_pg_t
  free, buf, writing,   \* the lists
  hash,                 \* the pages in the hash table
  nrEntries             \* nr_entries

fb_create_write_buffer ==
  /\ wlpa = [e \in WbPage |-> Unmapped] /\ wdata = [e \in WbPage |-> Unmapped]
  /\ wflag = [e \in WbPage |-> FALSE]
  /\ free = WbPage /\ buf = <<>> /\ writing = <<>> /\ hash = {}
  /\ nrEntries = 0

(* fb_wb_get_buf_pg: the page that holds an LPA, if any.                   *)
fb_wb_get_buf_pg(l) == {e \in hash : wlpa[e] = l}
Buffered(l) == fb_wb_get_buf_pg(l) # {}
fb_get_pg_data(l) == wdata[CHOOSE e \in fb_wb_get_buf_pg(l) : TRUE]

(* DL_DELETE of a page that is on the list.                                *)
Without(list, e) ==
  LET at == CHOOSE x \in DOMAIN list : list[x] = e
  IN  [x \in 1 .. Len(list) - 1 |-> list[IF x < at THEN x ELSE x + 1]]

(* A page leaves the list it is on: writing if it carries the flag.        *)
Unlink(e) ==
  /\ writing' = IF wflag[e] THEN Without(writing, e) ELSE writing
  /\ buf' = IF wflag[e] THEN buf ELSE Without(buf, e)
  /\ nrEntries' = IF wflag[e] THEN nrEntries ELSE nrEntries - 1

(* Mutant: a page that is buffered already keeps its old contents. *)
PutKeepsOld(l, d) ==
  /\ UNCHANGED <<wlpa, free, hash, writing, wflag, wdata, nrEntries>>
  /\ \E e \in fb_wb_get_buf_pg(l) :
       buf' = Append(IF wflag[e] THEN buf ELSE Without(buf, e), e)

(* The page of an LPA that is buffered takes the new contents and becomes  *)
(* the youngest; a page being written becomes a buffered one.              *)
PutAgain(l, d) ==
  \E e \in fb_wb_get_buf_pg(l) :
    /\ writing' = IF wflag[e] THEN Without(writing, e) ELSE writing
    /\ nrEntries' = IF wflag[e] THEN nrEntries + 1 ELSE nrEntries
    /\ buf' = Append(IF wflag[e] THEN buf ELSE Without(buf, e), e)
    /\ wflag' = [wflag EXCEPT ![e] = FALSE]
    /\ wdata' = [wdata EXCEPT ![e] = d]
    /\ UNCHANGED <<wlpa, free, hash>>

PutNew(l, d) ==
  /\ ~Buffered(l)
  /\ \E e \in free :
       /\ free' = free \ {e} /\ hash' = hash \union {e}
       /\ wlpa' = [wlpa EXCEPT ![e] = l] /\ wdata' = [wdata EXCEPT ![e] = d]
       /\ buf' = Append(buf, e) /\ nrEntries' = nrEntries + 1
       /\ UNCHANGED <<writing, wflag>>

(* fb_put_pg, and when it returns -1.                                      *)
fb_put_pg(l, d) == PutAgain(l, d) \/ PutNew(l, d)
NoRoom(l) == ~Buffered(l) /\ free = {}

(* fb_get_pgs_to_write: the oldest NumLps pages are being written.         *)
EnoughToWrite == nrEntries >= NumLps
Oldest == SubSeq(buf, 1, NumLps)
PagesOf(list) == {list[x] : x \in DOMAIN list}

fb_get_pgs_to_write ==
  /\ EnoughToWrite
  /\ buf' = SubSeq(buf, NumLps + 1, Len(buf)) /\ nrEntries' = nrEntries - NumLps
  /\ writing' = writing \o Oldest
  /\ wflag' = [e \in WbPage |-> wflag[e] \/ e \in PagesOf(Oldest)]
  /\ UNCHANGED <<wlpa, wdata, free, hash>>

(* What a page that becomes free still holds is forgotten here.            *)
Forget(S) ==
  /\ wlpa' = [e \in WbPage |-> IF e \in S THEN Unmapped ELSE wlpa[e]]
  /\ wdata' = [e \in WbPage |-> IF e \in S THEN Unmapped ELSE wdata[e]]
  /\ wflag' = [e \in WbPage |-> wflag[e] /\ e \notin S]

(* Mutant: the written pages stay in the hash table. *)
WrittenStayHashed ==
  /\ writing' = <<>> /\ free' = free \union PagesOf(writing)
  /\ wflag' = [e \in WbPage |-> FALSE]
  /\ UNCHANGED <<wlpa, wdata, buf, hash, nrEntries>>

fb_rm_written_pgs ==
  /\ writing' = <<>>
  /\ free' = free \union PagesOf(writing) /\ hash' = hash \ PagesOf(writing)
  /\ Forget(PagesOf(writing))
  /\ UNCHANGED <<buf, nrEntries>>

fb_rm_buf_pg(l) ==
  \/ ~Buffered(l) /\ UNCHANGED <<wlpa, wdata, wflag, free, buf, writing, hash, nrEntries>>
  \/ \E e \in fb_wb_get_buf_pg(l) :
       /\ Unlink(e)
       /\ hash' = hash \ {e} /\ free' = free \union {e}
       /\ Forget({e})

----------------------------------------------------------------------------
(* Properties.                                                             *)

OnceEach(list) == \A x, y \in DOMAIN list : list[x] = list[y] => x = y

(* Lists, flags, counter and hash table agree: a page is on exactly one    *)
(* list, in the hash table unless it is free, flagged while it is being    *)
(* written, and no two pages hold the same LPA.                            *)
ListsOf(e) == {list \in {"free", "buf", "writing"} :
            \/ list = "free" /\ e \in free
            \/ list = "buf" /\ e \in PagesOf(buf)
            \/ list = "writing" /\ e \in PagesOf(writing)}
WbInv ==
  /\ \A e \in WbPage : Cardinality(ListsOf(e)) = 1 /\ (wflag[e] <=> ListsOf(e) = {"writing"})
  /\ Len(buf) = nrEntries
  /\ OnceEach(buf) /\ OnceEach(writing)
  /\ hash = PagesOf(buf) \union PagesOf(writing)
  /\ \A e \in hash : wlpa[e] \in Lpa /\ wdata[e] \in Data
  /\ \A e, f \in hash : wlpa[e] = wlpa[f] => e = f
=============================================================================
