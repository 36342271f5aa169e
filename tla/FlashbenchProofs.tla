-------------------------- MODULE FlashbenchProofs --------------------------
(***************************************************************************)
(* Proofs about make_request: the write buffer stays consistent, and to    *)
(* the host, buffer, flushes, collections and discards are one disk.       *)
(***************************************************************************)
EXTENDS Flashbench, FtlDataProofs

----------------------------------------------------------------------------
(* Lists.                                                                  *)

LEMMA PagesRange == ASSUME NEW S, NEW s \in Seq(S) PROVE PagesOf(s) \subseteq S
BY DEF PagesOf

(* Deleting an entry that occurs once.                                     *)
LEMMA Deleted ==
  ASSUME NEW S, NEW s \in Seq(S), OnceEach(s), NEW e \in PagesOf(s)
  PROVE  /\ Without(s, e) \in Seq(S) /\ Len(Without(s, e)) = Len(s) - 1
         /\ OnceEach(Without(s, e))
         /\ PagesOf(Without(s, e)) = PagesOf(s) \ {e}
<1> DEFINE at == CHOOSE x \in DOMAIN s : s[x] = e
<1>1. at \in 1 .. Len(s) /\ s[at] = e
  BY DEF PagesOf
<1> HIDE DEF at
<1> DEFINE len == Len(s) - 1
           next(x) == IF x < at THEN x ELSE x + 1
           w == [x \in 1 .. len |-> s[next(x)]]
<1>2. Without(s, e) = w
  BY DEF Without, at
<1>3. len \in Nat /\ \A x \in 1 .. len : next(x) \in 1 .. Len(s) /\ next(x) # at
  BY <1>1
<1>4. \A x, y \in 1 .. len : next(x) = next(y) => x = y
  BY <1>1
<1>5. \A y \in 1 .. Len(s) : y # at => \E x \in 1 .. len : next(x) = y
  <2> SUFFICES ASSUME NEW y \in 1 .. Len(s), y # at PROVE \E x \in 1 .. len : next(x) = y
    OBVIOUS
  <2>1. CASE y < at
    <3>1. y \in 1 .. len /\ next(y) = y
      BY <1>1, <2>1
    <3> QED BY <3>1
  <2>2. CASE y > at
    <3>1. y - 1 \in 1 .. len /\ next(y - 1) = y
      BY <1>1, <2>2
    <3> QED BY <3>1
  <2> QED BY <1>1, <2>1, <2>2
<1> HIDE DEF next
<1>6. w \in Seq(S) /\ Len(w) = len /\ DOMAIN w = 1 .. len
  <2>1. \A x \in 1 .. len : s[next(x)] \in S
    BY <1>3
  <2> QED BY <1>3, <2>1
<1>7. OnceEach(w)
  <2> SUFFICES ASSUME NEW x \in 1 .. len, NEW y \in 1 .. len, w[x] = w[y] PROVE x = y
    BY <1>6 DEF OnceEach
  <2>1. s[next(x)] = s[next(y)]
    OBVIOUS
  <2> QED BY <2>1, <1>3, <1>4 DEF OnceEach
<1>8. PagesOf(w) = PagesOf(s) \ {e}
  <2>1. ASSUME NEW x \in 1 .. len PROVE w[x] \in PagesOf(s) \ {e}
    BY <1>1, <1>3 DEF PagesOf, OnceEach
  <2>2. ASSUME NEW y \in 1 .. Len(s), s[y] # e PROVE s[y] \in PagesOf(w)
    <3>1. PICK x \in 1 .. len : next(x) = y
      BY <1>1, <1>5, <2>2
    <3>2. w[x] = s[y]
      BY <3>1
    <3> QED BY <3>2, <1>6 DEF PagesOf
  <2> HIDE DEF w
  <2> QED BY <2>1, <2>2, <1>6 DEF PagesOf
<1> QED BY <1>2, <1>6, <1>7, <1>8

(* Appending an entry that does not occur yet.                             *)
LEMMA Appended ==
  ASSUME NEW S, NEW s \in Seq(S), OnceEach(s), NEW e \in S \ PagesOf(s)
  PROVE  /\ Append(s, e) \in Seq(S) /\ Len(Append(s, e)) = Len(s) + 1
         /\ OnceEach(Append(s, e))
         /\ PagesOf(Append(s, e)) = PagesOf(s) \union {e}
<1>1. /\ Append(s, e) \in Seq(S) /\ Len(Append(s, e)) = Len(s) + 1
      /\ DOMAIN Append(s, e) = 1 .. Len(s) + 1
      /\ \A x \in 1 .. Len(s) : Append(s, e)[x] = s[x]
      /\ Append(s, e)[Len(s) + 1] = e
  OBVIOUS
<1>2. \A x \in 1 .. Len(s) : s[x] \in PagesOf(s)
  BY DEF PagesOf
<1>3. Len(s) + 1 \in DOMAIN Append(s, e) /\ 1 .. Len(s) \subseteq DOMAIN Append(s, e)
      /\ \A x \in DOMAIN Append(s, e) : x \in 1 .. Len(s) \/ x = Len(s) + 1
  BY <1>1
<1>4. OnceEach(Append(s, e))
  BY <1>1, <1>2, <1>3 DEF OnceEach
<1>5. PagesOf(Append(s, e)) = PagesOf(s) \union {e}
  BY <1>1, <1>2, <1>3 DEF PagesOf
<1> QED BY <1>1, <1>4, <1>5

(* Moving the first entries of one list behind another.                    *)
LEMMA Cut ==
  ASSUME NEW S, NEW s \in Seq(S), NEW t \in Seq(S), OnceEach(s), OnceEach(t),
         PagesOf(s) \intersect PagesOf(t) = {}, NEW k \in 0 .. Len(s)
  PROVE  LET a == SubSeq(s, 1, k)
             z == SubSeq(s, k + 1, Len(s))
         IN  /\ a \in Seq(S) /\ z \in Seq(S) /\ t \o a \in Seq(S)
             /\ Len(a) = k /\ Len(z) = Len(s) - k /\ Len(t \o a) = Len(t) + k
             /\ OnceEach(z) /\ OnceEach(t \o a)
             /\ PagesOf(t \o a) = PagesOf(t) \union PagesOf(a)
             /\ PagesOf(z) = PagesOf(s) \ PagesOf(a) /\ PagesOf(a) \subseteq PagesOf(s)
<1> DEFINE a == SubSeq(s, 1, k)
           z == SubSeq(s, k + 1, Len(s))
           u == t \o a
<1>1. /\ a \in Seq(S) /\ Len(a) = k /\ DOMAIN a = 1 .. k
      /\ \A x \in 1 .. k : a[x] = s[x]
  OBVIOUS
<1>2. /\ z \in Seq(S) /\ Len(z) = Len(s) - k /\ DOMAIN z = 1 .. Len(s) - k
      /\ \A x \in 1 .. Len(s) - k : z[x] = s[x + k]
  OBVIOUS
<1> HIDE DEF a, z
<1>3. /\ u \in Seq(S) /\ Len(u) = Len(t) + k /\ DOMAIN u = 1 .. Len(t) + k
      /\ \A x \in 1 .. Len(t) : u[x] = t[x]
      /\ \A x \in Len(t) + 1 .. Len(t) + k : u[x] = a[x - Len(t)]
  BY <1>1
<1> HIDE DEF u
<1>4. PagesOf(a) \subseteq PagesOf(s)
  BY <1>1 DEF PagesOf
<1>5. PagesOf(z) = PagesOf(s) \ PagesOf(a)
  <2>1. ASSUME NEW x \in 1 .. Len(s) - k PROVE z[x] \in PagesOf(s) \ PagesOf(a)
    <3>1. x + k \in 1 .. Len(s) /\ z[x] = s[x + k]
      BY <1>2
    <3>2. \A y \in 1 .. k : s[x + k] # s[y]
      BY <3>1 DEF OnceEach
    <3> QED BY <3>1, <3>2, <1>1 DEF PagesOf
  <2>2. ASSUME NEW y \in 1 .. Len(s), s[y] \notin PagesOf(a) PROVE s[y] \in PagesOf(z)
    <3>1. y \notin 1 .. k
      BY <2>2, <1>1 DEF PagesOf
    <3>2. y - k \in 1 .. Len(s) - k /\ z[y - k] = s[y]
      BY <3>1, <1>2
    <3> QED BY <3>2, <1>2 DEF PagesOf
  <2> QED BY <2>1, <2>2, <1>2 DEF PagesOf
<1>6. OnceEach(z)
  <2> SUFFICES ASSUME NEW x \in 1 .. Len(s) - k, NEW y \in 1 .. Len(s) - k, z[x] = z[y] PROVE x = y
    BY <1>2 DEF OnceEach
  <2>1. x + k \in DOMAIN s /\ y + k \in DOMAIN s /\ s[x + k] = s[y + k]
    BY <1>2
  <2> QED BY <2>1 DEF OnceEach
<1>7. PagesOf(u) = PagesOf(t) \union PagesOf(a)
  <2>1. ASSUME NEW x \in DOMAIN u PROVE u[x] \in PagesOf(t) \union PagesOf(a)
    <3>1. CASE x \in 1 .. Len(t)
      BY <3>1, <1>3 DEF PagesOf
    <3>2. CASE x \in Len(t) + 1 .. Len(t) + k
      <4>1. x - Len(t) \in DOMAIN a
        BY <3>2, <1>1
      <4> QED BY <4>1, <3>2, <1>3 DEF PagesOf
    <3> QED BY <3>1, <3>2, <1>3
  <2>2. ASSUME NEW x \in DOMAIN t PROVE t[x] \in PagesOf(u)
    BY <1>3 DEF PagesOf
  <2>3. ASSUME NEW x \in 1 .. k PROVE a[x] \in PagesOf(u)
    <3>1. Len(t) \in Nat /\ x + Len(t) \in Len(t) + 1 .. Len(t) + k /\ (x + Len(t)) - Len(t) = x
      OBVIOUS
    <3>2. u[x + Len(t)] = a[x]
      BY <3>1, <1>3
    <3>3. x + Len(t) \in DOMAIN u
      BY <3>1, <1>3
    <3> QED BY <3>2, <3>3 DEF PagesOf
  <2> QED BY <1>1, <2>1, <2>2, <2>3 DEF PagesOf
<1>8. OnceEach(u)
  <2> SUFFICES ASSUME NEW x \in DOMAIN u, NEW y \in DOMAIN u, u[x] = u[y] PROVE x = y
    BY DEF OnceEach
  <2>0. Len(t) \in Nat /\ DOMAIN t = 1 .. Len(t) /\ DOMAIN s = 1 .. Len(s) /\ x \in Int /\ y \in Int
    BY <1>3
  <2>1. ASSUME NEW w \in DOMAIN u
        PROVE  \/ w \in DOMAIN t /\ u[w] = t[w]
               \/ w - Len(t) \in DOMAIN s /\ u[w] = s[w - Len(t)]
    <3>1. CASE w \in 1 .. Len(t)
      BY <3>1, <2>0, <1>3
    <3>2. CASE w \in Len(t) + 1 .. Len(t) + k
      <4>1. w - Len(t) \in 1 .. k /\ w - Len(t) \in DOMAIN s
        BY <3>2, <2>0
      <4> QED BY <4>1, <3>2, <1>1, <1>3
    <3> QED BY <3>1, <3>2, <1>3
  <2>2. \A v \in DOMAIN t, w \in DOMAIN s : t[v] # s[w]
    BY DEF PagesOf
  <2>3. CASE u[x] = t[x] /\ u[y] = t[y] /\ x \in DOMAIN t /\ y \in DOMAIN t
    BY <2>3 DEF OnceEach
  <2>4. CASE /\ x - Len(t) \in DOMAIN s /\ u[x] = s[x - Len(t)]
             /\ y - Len(t) \in DOMAIN s /\ u[y] = s[y - Len(t)]
    <3>1. x - Len(t) = y - Len(t)
      BY <2>4 DEF OnceEach
    <3> QED BY <3>1, <2>0
  <2> QED BY <2>1, <2>2, <2>3, <2>4
<1> QED BY <1>1, <1>2, <1>3, <1>4, <1>5, <1>6, <1>7, <1>8 DEF a, z, u

----------------------------------------------------------------------------
(* The write buffer.                                                       *)

BufType ==
  /\ wlpa \in [WbPage -> Lpa \union {Unmapped}] /\ wdata \in [WbPage -> Data \union {Unmapped}]
  /\ wflag \in [WbPage -> BOOLEAN]
  /\ buf \in Seq(WbPage) /\ writing \in Seq(WbPage)
Listing ==
  /\ Len(buf) = nrEntries
  /\ OnceEach(buf) /\ OnceEach(writing)
  /\ PagesOf(buf) \intersect PagesOf(writing) = {}
  /\ hash = PagesOf(buf) \union PagesOf(writing)
  /\ free = WbPage \ hash
Flagged == \A e \in WbPage : wflag[e] <=> e \in PagesOf(writing)
Hashed ==
  /\ \A e \in hash : wlpa[e] \in Lpa /\ wdata[e] \in Data
  /\ \A e, f \in hash : wlpa[e] = wlpa[f] => e = f

BufInv == BufType /\ Listing /\ Flagged /\ Hashed

LEMMA HashPages == BufInv => hash \subseteq WbPage
<1> SUFFICES ASSUME BufInv PROVE hash \subseteq WbPage
  OBVIOUS
<1>1. PagesOf(buf) \subseteq WbPage /\ PagesOf(writing) \subseteq WbPage
  BY PagesRange DEF BufInv, BufType
<1> QED BY <1>1 DEF BufInv, Listing

LEMMA BufConsistent == BufInv => WbInv
<1> SUFFICES ASSUME BufInv PROVE WbInv
  OBVIOUS
<1>1. ASSUME NEW e \in WbPage
      PROVE  Cardinality(ListsOf(e)) = 1 /\ (wflag[e] <=> ListsOf(e) = {"writing"})
  <2>1. CASE e \in PagesOf(writing)
    <3>1. ListsOf(e) = {"writing"}
      BY <2>1 DEF ListsOf, BufInv, Listing
    <3> QED BY <2>1, <3>1, FS_Singleton DEF BufInv, Flagged
  <2>2. CASE e \in PagesOf(buf)
    <3>1. ListsOf(e) = {"buf"} /\ e \notin PagesOf(writing)
      BY <2>2 DEF ListsOf, BufInv, Listing
    <3>2. ListsOf(e) # {"writing"}
      BY <3>1
    <3> QED BY <3>1, <3>2, FS_Singleton DEF BufInv, Flagged
  <2>3. CASE e \notin PagesOf(buf) /\ e \notin PagesOf(writing)
    <3>1. ListsOf(e) = {"free"}
      BY <2>3 DEF ListsOf, BufInv, Listing
    <3>2. ListsOf(e) # {"writing"}
      BY <3>1
    <3> QED BY <2>3, <3>1, <3>2, FS_Singleton DEF BufInv, Flagged
  <2> QED BY <2>1, <2>2, <2>3
<1> QED BY <1>1 DEF WbInv, BufInv, Listing, Hashed

LEMMA InitBuf == fb_create_write_buffer => BufInv
<1> SUFFICES ASSUME fb_create_write_buffer PROVE BufInv
  OBVIOUS
<1> USE DEF fb_create_write_buffer
<1>1. PagesOf(buf) = {} /\ PagesOf(writing) = {} /\ OnceEach(buf) /\ OnceEach(writing)
  BY DEF PagesOf, OnceEach
<1>2. BufType
  BY DEF BufType
<1>3. Listing /\ Hashed
  BY <1>1 DEF Listing, Hashed
<1>4. Flagged
  BY <1>1 DEF Flagged
<1> QED BY <1>2, <1>3, <1>4 DEF BufInv

LEMMA PutAgainBuf ==
  ASSUME BufInv, NEW l \in Lpa, NEW d \in Data, PutAgain(l, d)
  PROVE  BufInv' /\ \E e \in hash : /\ wlpa[e] = l /\ hash' = hash /\ wlpa' = wlpa
                                    /\ wdata' = [wdata EXCEPT ![e] = d]
<1>1. PICK e \in hash :
        /\ wlpa[e] = l
        /\ writing' = IF wflag[e] THEN Without(writing, e) ELSE writing
        /\ nrEntries' = IF wflag[e] THEN nrEntries + 1 ELSE nrEntries
        /\ buf' = Append(IF wflag[e] THEN buf ELSE Without(buf, e), e)
        /\ wflag' = [wflag EXCEPT ![e] = FALSE]
        /\ wdata' = [wdata EXCEPT ![e] = d]
        /\ UNCHANGED <<wlpa, free, hash>>
  BY Zenon DEF PutAgain, fb_wb_get_buf_pg
<1>2. e \in WbPage
  BY HashPages
<1> DEFINE rest == IF wflag[e] THEN buf ELSE Without(buf, e)
<1>3. /\ rest \in Seq(WbPage) /\ OnceEach(rest) /\ e \notin PagesOf(rest)
      /\ PagesOf(rest) = PagesOf(buf) \ {e} /\ Len(rest) + 1 = nrEntries'
      /\ writing' \in Seq(WbPage) /\ OnceEach(writing') /\ PagesOf(writing') = PagesOf(writing) \ {e}
  <2>1. CASE wflag[e]
    <3>1. e \in PagesOf(writing) /\ e \notin PagesOf(buf)
      BY <2>1, <1>2 DEF BufInv, Flagged, Listing
    <3>2. writing' = Without(writing, e) /\ rest = buf /\ nrEntries' = nrEntries + 1
      BY <1>1, <2>1
    <3> HIDE DEF rest
    <3> QED BY <3>1, <3>2, Deleted DEF BufInv, BufType, Listing
  <2>2. CASE ~wflag[e]
    <3>1. e \notin PagesOf(writing) /\ e \in PagesOf(buf)
      BY <2>2, <1>2 DEF BufInv, Flagged, Listing
    <3>2. writing' = writing /\ rest = Without(buf, e) /\ nrEntries' = nrEntries
      BY <1>1, <2>2
    <3>3. /\ Without(buf, e) \in Seq(WbPage) /\ Len(Without(buf, e)) = Len(buf) - 1
          /\ OnceEach(Without(buf, e)) /\ PagesOf(Without(buf, e)) = PagesOf(buf) \ {e}
      BY <3>1, Deleted DEF BufInv, BufType, Listing
    <3> HIDE DEF rest
    <3> QED BY <3>1, <3>2, <3>3 DEF BufInv, BufType, Listing
  <2> QED BY <2>1, <2>2
<1> HIDE DEF rest
<1>4. buf' = Append(rest, e)
  BY <1>1 DEF rest
<1>5. /\ buf' \in Seq(WbPage) /\ Len(buf') = Len(rest) + 1 /\ OnceEach(buf')
      /\ PagesOf(buf') = PagesOf(rest) \union {e}
  BY <1>2, <1>3, <1>4, Appended
<1>6. BufType'
  BY <1>1, <1>2, <1>3, <1>5 DEF BufInv, BufType
<1>7. Listing'
  <2>1. PagesOf(buf') \union PagesOf(writing') = hash
    BY <1>1, <1>3, <1>5 DEF BufInv, Listing
  <2>2. PagesOf(buf') \intersect PagesOf(writing') = {}
    BY <1>3, <1>5 DEF BufInv, Listing
  <2>3. Len(buf') = nrEntries' /\ hash' = hash /\ free' = free /\ free = WbPage \ hash
    BY <1>1, <1>3, <1>5 DEF BufInv, Listing
  <2> QED BY <1>3, <1>5, <2>1, <2>2, <2>3 DEF Listing, PagesOf, OnceEach
<1>8. Flagged'
  <2>1. ASSUME NEW x \in WbPage PROVE wflag'[x] <=> x \in PagesOf(writing')
    <3>1. CASE x = e
      BY <1>1, <1>2, <1>3, <3>1 DEF BufInv, BufType
    <3>2. CASE x # e
      <4>1. wflag'[x] = wflag[x]
        BY <1>1, <3>2 DEF BufInv, BufType
      <4> QED BY <3>2, <4>1, <1>3 DEF BufInv, Flagged
    <3> QED BY <3>1, <3>2
  <2> QED BY <2>1 DEF Flagged, PagesOf
<1>9. Hashed'
  BY <1>1, <1>2 DEF BufInv, BufType, Hashed
<1> QED BY <1>1, <1>6, <1>7, <1>8, <1>9 DEF BufInv

LEMMA PutNewBuf ==
  ASSUME BufInv, NEW l \in Lpa, NEW d \in Data, PutNew(l, d)
  PROVE  BufInv' /\ \E e \in WbPage \ hash : /\ hash' = hash \union {e}
                                             /\ wlpa' = [wlpa EXCEPT ![e] = l]
                                             /\ wdata' = [wdata EXCEPT ![e] = d]
<1>1. PICK e \in free :
        /\ free' = free \ {e} /\ hash' = hash \union {e}
        /\ wlpa' = [wlpa EXCEPT ![e] = l] /\ wdata' = [wdata EXCEPT ![e] = d]
        /\ buf' = Append(buf, e) /\ nrEntries' = nrEntries + 1
        /\ UNCHANGED <<writing, wflag>>
  BY DEF PutNew
<1>2. e \in WbPage /\ e \notin hash /\ e \notin PagesOf(buf) /\ e \notin PagesOf(writing)
  BY DEF BufInv, Listing
<1>3. \A f \in hash : wlpa[f] # l
  BY DEF PutNew, Buffered, fb_wb_get_buf_pg
<1>4. /\ buf' \in Seq(WbPage) /\ Len(buf') = Len(buf) + 1 /\ OnceEach(buf')
      /\ PagesOf(buf') = PagesOf(buf) \union {e}
  BY <1>1, <1>2, Appended DEF BufInv, BufType, Listing
<1>5. BufType'
  BY <1>1, <1>2, <1>4 DEF BufInv, BufType
<1>6. Listing'
  <2>1. PagesOf(writing') = PagesOf(writing) /\ OnceEach(writing')
    BY <1>1 DEF BufInv, Listing
  <2>2. PagesOf(buf') \union PagesOf(writing') = hash' /\ PagesOf(buf') \intersect PagesOf(writing') = {}
    BY <1>1, <1>2, <1>4, <2>1 DEF BufInv, Listing
  <2>3. Len(buf') = nrEntries' /\ free' = WbPage \ hash'
    BY <1>1, <1>4 DEF BufInv, Listing
  <2> QED BY <1>4, <2>1, <2>2, <2>3 DEF Listing, PagesOf, OnceEach
<1>7. Flagged'
  <2>1. PagesOf(writing') = PagesOf(writing) /\ wflag' = wflag
    BY <1>1
  <2> QED BY <2>1 DEF BufInv, Flagged, PagesOf
<1>8. Hashed'
  <2>1. \A f \in hash : wlpa'[f] = wlpa[f] /\ wdata'[f] = wdata[f]
    BY <1>1, <1>2, HashPages DEF BufInv, BufType
  <2>2. wlpa'[e] = l /\ wdata'[e] = d
    BY <1>1, <1>2 DEF BufInv, BufType
  <2> QED BY <1>1, <1>3, <2>1, <2>2 DEF BufInv, Hashed
<1> QED BY <1>1, <1>2, <1>5, <1>6, <1>7, <1>8 DEF BufInv

LEMMA GetPgsBuf ==
  ASSUME BufInv, fb_get_pgs_to_write
  PROVE  BufInv' /\ UNCHANGED <<hash, wlpa, wdata>> /\ Len(writing') = Len(writing) + NumLps
<1> USE DEF fb_get_pgs_to_write
<1>1. NumLps \in 0 .. Len(buf)
  BY FtlAssumption DEF BufInv, BufType, Listing, EnoughToWrite
<1>2. /\ buf' = SubSeq(buf, NumLps + 1, Len(buf)) /\ nrEntries' = nrEntries - NumLps
      /\ writing' = writing \o Oldest /\ Oldest = SubSeq(buf, 1, NumLps)
      /\ wflag' = [e \in WbPage |-> wflag[e] \/ e \in PagesOf(Oldest)]
      /\ UNCHANGED <<wlpa, wdata, free, hash>>
  BY DEF Oldest
<1>3. /\ buf' \in Seq(WbPage) /\ writing' \in Seq(WbPage)
      /\ Len(buf') = Len(buf) - NumLps /\ Len(writing') = Len(writing) + NumLps
      /\ OnceEach(buf') /\ OnceEach(writing')
      /\ PagesOf(writing') = PagesOf(writing) \union PagesOf(Oldest)
      /\ PagesOf(buf') = PagesOf(buf) \ PagesOf(Oldest) /\ PagesOf(Oldest) \subseteq PagesOf(buf)
  <2> HIDE DEF fb_get_pgs_to_write
  <2>1. buf \in Seq(WbPage) /\ writing \in Seq(WbPage) /\ OnceEach(buf) /\ OnceEach(writing)
        /\ PagesOf(buf) \intersect PagesOf(writing) = {}
    BY DEF BufInv, BufType, Listing
  <2> QED BY <1>1, <1>2, <2>1, Cut
<1> HIDE DEF fb_get_pgs_to_write
<1>4. BufType'
  BY <1>2, <1>3 DEF BufInv, BufType
<1>5. Listing'
  <2>1. PagesOf(buf') \union PagesOf(writing') = hash' /\ PagesOf(buf') \intersect PagesOf(writing') = {}
    BY <1>2, <1>3 DEF BufInv, Listing
  <2>2. Len(buf') = nrEntries' /\ free' = WbPage \ hash'
    BY <1>2, <1>3 DEF BufInv, Listing
  <2> QED BY <1>3, <2>1, <2>2 DEF Listing, PagesOf, OnceEach
<1>6. Flagged'
  <2>1. ASSUME NEW e \in WbPage PROVE wflag'[e] <=> e \in PagesOf(writing')
    <3>1. wflag'[e] <=> wflag[e] \/ e \in PagesOf(Oldest)
      BY <1>2
    <3> QED BY <1>3, <3>1 DEF BufInv, Flagged
  <2> QED BY <2>1 DEF Flagged, PagesOf
<1>7. Hashed'
  BY <1>2 DEF BufInv, Hashed
<1> QED BY <1>2, <1>3, <1>4, <1>5, <1>6, <1>7 DEF BufInv

LEMMA ForgetBuf ==
  ASSUME BufInv, NEW S \in SUBSET WbPage, Forget(S)
  PROVE  /\ wlpa' \in [WbPage -> Lpa \union {Unmapped}] /\ wdata' \in [WbPage -> Data \union {Unmapped}]
         /\ wflag' \in [WbPage -> BOOLEAN]
         /\ \A e \in WbPage \ S : wlpa'[e] = wlpa[e] /\ wdata'[e] = wdata[e] /\ wflag'[e] = wflag[e]
         /\ \A e \in S : ~wflag'[e]
<1>1. wlpa' \in [WbPage -> Lpa \union {Unmapped}] /\ wdata' \in [WbPage -> Data \union {Unmapped}]
  BY DEF Forget, BufInv, BufType
<1>2. \A e \in WbPage \ S : wlpa'[e] = wlpa[e] /\ wdata'[e] = wdata[e]
  BY DEF Forget
<1>3. wflag' = [e \in WbPage |-> wflag[e] /\ e \notin S] /\ wflag \in [WbPage -> BOOLEAN]
  BY DEF Forget, BufInv, BufType
<1>4. wflag' \in [WbPage -> BOOLEAN] /\ \A e \in S : ~wflag'[e]
  BY <1>3
<1>5. \A e \in WbPage \ S : wflag'[e] = wflag[e]
  BY <1>3
<1> QED BY <1>1, <1>2, <1>4, <1>5

LEMMA RmWrittenBuf ==
  ASSUME BufInv, fb_rm_written_pgs
  PROVE  /\ BufInv' /\ writing' = <<>> /\ hash' = hash \ PagesOf(writing)
         /\ \A e \in hash' : wlpa'[e] = wlpa[e] /\ wdata'[e] = wdata[e]
<1>1. /\ writing' = <<>> /\ free' = free \union PagesOf(writing) /\ hash' = hash \ PagesOf(writing)
      /\ Forget(PagesOf(writing)) /\ UNCHANGED <<buf, nrEntries>>
  BY DEF fb_rm_written_pgs
<1>2. PagesOf(writing) \subseteq WbPage
  BY PagesRange DEF BufInv, BufType
<1>3. /\ wlpa' \in [WbPage -> Lpa \union {Unmapped}] /\ wdata' \in [WbPage -> Data \union {Unmapped}]
      /\ wflag' \in [WbPage -> BOOLEAN]
      /\ \A e \in WbPage \ PagesOf(writing) :
           wlpa'[e] = wlpa[e] /\ wdata'[e] = wdata[e] /\ wflag'[e] = wflag[e]
      /\ \A e \in PagesOf(writing) : ~wflag'[e]
  BY <1>1, <1>2, ForgetBuf
<1>4. PagesOf(writing') = {} /\ OnceEach(writing') /\ writing' \in Seq(WbPage)
  BY <1>1 DEF PagesOf, OnceEach
<1>5. BufType'
  BY <1>1, <1>3, <1>4 DEF BufInv, BufType
<1>6. Listing'
  <2>1. PagesOf(buf') \union PagesOf(writing') = hash' /\ PagesOf(buf') \intersect PagesOf(writing') = {}
    BY <1>1, <1>4 DEF BufInv, Listing
  <2>2. Len(buf') = nrEntries' /\ OnceEach(buf')
    BY <1>1 DEF BufInv, Listing
  <2>3. free' = WbPage \ hash'
    BY <1>1, <1>2 DEF BufInv, Listing
  <2> QED BY <1>4, <2>1, <2>2, <2>3 DEF Listing, PagesOf, OnceEach
<1>7. Flagged'
  <2>1. ASSUME NEW e \in WbPage PROVE wflag'[e] <=> e \in PagesOf(writing')
    <3>1. CASE e \in PagesOf(writing)
      BY <1>3, <1>4, <3>1
    <3>2. CASE e \notin PagesOf(writing)
      <4>1. ~wflag[e]
        BY <3>2 DEF BufInv, Flagged
      <4> QED BY <1>3, <1>4, <3>2, <4>1
    <3> QED BY <3>1, <3>2
  <2> QED BY <2>1 DEF Flagged, PagesOf
<1>8. \A e \in hash' : e \in hash /\ wlpa'[e] = wlpa[e] /\ wdata'[e] = wdata[e]
  BY <1>1, <1>3, HashPages
<1>9. Hashed'
  BY <1>8 DEF BufInv, Hashed
<1> QED BY <1>1, <1>5, <1>6, <1>7, <1>8, <1>9 DEF BufInv

LEMMA RmBuf ==
  ASSUME BufInv, NEW l \in Lpa, fb_rm_buf_pg(l)
  PROVE  /\ BufInv' /\ hash' = {e \in hash : wlpa[e] # l}
         /\ \A e \in hash' : wlpa'[e] = wlpa[e] /\ wdata'[e] = wdata[e]
<1>1. CASE ~Buffered(l) /\ UNCHANGED <<wlpa, wdata, wflag, free, buf, writing, hash, nrEntries>>
  <2>1. BufInv'
    <3>1. BufType'
      BY <1>1 DEF BufInv, BufType
    <3>2. Listing'
      BY <1>1 DEF BufInv, Listing, PagesOf, OnceEach
    <3>3. Flagged'
      BY <1>1 DEF BufInv, Flagged, PagesOf
    <3>4. Hashed'
      BY <1>1 DEF BufInv, Hashed
    <3> QED BY <3>1, <3>2, <3>3, <3>4 DEF BufInv
  <2> QED BY <1>1, <2>1 DEF Buffered, fb_wb_get_buf_pg
<1>2. ASSUME NEW e \in hash, wlpa[e] = l, Unlink(e),
             hash' = hash \ {e}, free' = free \union {e}, Forget({e})
      PROVE  /\ BufInv' /\ hash' = {f \in hash : wlpa[f] # l}
             /\ \A f \in hash' : wlpa'[f] = wlpa[f] /\ wdata'[f] = wdata[f]
  <2>1. e \in WbPage
    BY HashPages
  <2>2. /\ wlpa' \in [WbPage -> Lpa \union {Unmapped}] /\ wdata' \in [WbPage -> Data \union {Unmapped}]
        /\ wflag' \in [WbPage -> BOOLEAN]
        /\ \A f \in WbPage \ {e} : wlpa'[f] = wlpa[f] /\ wdata'[f] = wdata[f] /\ wflag'[f] = wflag[f]
        /\ ~wflag'[e]
    BY <1>2, <2>1, ForgetBuf
  <2>3. /\ buf' \in Seq(WbPage) /\ OnceEach(buf') /\ PagesOf(buf') = PagesOf(buf) \ {e}
        /\ Len(buf') = nrEntries'
        /\ writing' \in Seq(WbPage) /\ OnceEach(writing') /\ PagesOf(writing') = PagesOf(writing) \ {e}
    <3>1. CASE wflag[e]
      <4>1. e \in PagesOf(writing) /\ e \notin PagesOf(buf)
        BY <3>1, <2>1 DEF BufInv, Flagged, Listing
      <4>2. writing' = Without(writing, e) /\ buf' = buf /\ nrEntries' = nrEntries
        BY <1>2, <3>1 DEF Unlink
      <4> QED BY <4>1, <4>2, Deleted DEF BufInv, BufType, Listing
    <3>2. CASE ~wflag[e]
      <4>1. e \notin PagesOf(writing) /\ e \in PagesOf(buf)
        BY <3>2, <1>2, <2>1 DEF BufInv, Flagged, Listing
      <4>2. writing' = writing /\ buf' = Without(buf, e) /\ nrEntries' = nrEntries - 1
        BY <1>2, <3>2 DEF Unlink
      <4> QED BY <4>1, <4>2, Deleted DEF BufInv, BufType, Listing
    <3> QED BY <3>1, <3>2
  <2>4. BufType'
    BY <2>2, <2>3 DEF BufType
  <2>5. Listing'
    <3>1. PagesOf(buf') \union PagesOf(writing') = hash' /\ PagesOf(buf') \intersect PagesOf(writing') = {}
      BY <1>2, <2>3 DEF BufInv, Listing
    <3>2. free' = WbPage \ hash'
      BY <1>2, <2>1 DEF BufInv, Listing
    <3> QED BY <2>3, <3>1, <3>2 DEF Listing, PagesOf, OnceEach
  <2>6. Flagged'
    <3>1. ASSUME NEW f \in WbPage PROVE wflag'[f] <=> f \in PagesOf(writing')
      <4>1. CASE f = e
        BY <2>2, <2>3, <4>1
      <4>2. CASE f # e
        <5>1. wflag'[f] = wflag[f]
          BY <2>2, <4>2
        <5> QED BY <2>3, <4>2, <5>1 DEF BufInv, Flagged
      <4> QED BY <4>1, <4>2
    <3> QED BY <3>1 DEF Flagged, PagesOf
  <2>7. \A f \in hash' : f \in hash /\ wlpa'[f] = wlpa[f] /\ wdata'[f] = wdata[f]
    BY <1>2, <2>2, HashPages
  <2>8. Hashed'
    BY <2>7 DEF BufInv, Hashed
  <2>9. hash' = {f \in hash : wlpa[f] # l}
    BY <1>2 DEF BufInv, Hashed
  <2> QED BY <2>4, <2>5, <2>6, <2>7, <2>8, <2>9 DEF BufInv
<1> QED BY <1>1, <1>2 DEF fb_rm_buf_pg, fb_wb_get_buf_pg

----------------------------------------------------------------------------
(* What the buffer and the FTL hold, by page of the buffer.                *)

Shown ==
  /\ \A e \in hash : Contents[wlpa[e]] = wdata[e]
  /\ \A l \in Lpa : (\A e \in hash : wlpa[e] # l) => Contents[l] = disk[l]

LEMMA Showing == BufInv => Shown
<1> SUFFICES ASSUME BufInv PROVE Shown
  OBVIOUS
<1>1. ASSUME NEW e \in hash PROVE Contents[wlpa[e]] = wdata[e]
  <2>1. wlpa[e] \in Lpa /\ fb_wb_get_buf_pg(wlpa[e]) = {e}
    BY DEF BufInv, Hashed, fb_wb_get_buf_pg
  <2>2. Buffered(wlpa[e]) /\ fb_get_pg_data(wlpa[e]) = wdata[e]
    BY <2>1 DEF Buffered, fb_get_pg_data
  <2> QED BY <2>1, <2>2 DEF Contents
<1>2. ASSUME NEW l \in Lpa, \A e \in hash : wlpa[e] # l PROVE Contents[l] = disk[l]
  BY <1>2 DEF Contents, Buffered, fb_wb_get_buf_pg
<1> QED BY <1>1, <1>2 DEF Shown

LEMMA Showing2 == BufInv' => Shown'
BY Showing, PTL

LEMMA ContentsDomain == Contents = [l \in Lpa |-> Contents[l]] /\ DOMAIN Contents = Lpa
BY DEF Contents

LEMMA ContentsDomain2 == Contents' = [l \in Lpa |-> Contents'[l]] /\ DOMAIN Contents' = Lpa
BY DEF Contents

(* Neither buffer nor FTL change what they hold for an LPA.                *)
LEMMA SameContents ==
  ASSUME BufInv, BufInv', UNCHANGED <<hash, wlpa, wdata>>,
         \A l \in Lpa : (\A e \in hash : wlpa[e] # l) => disk'[l] = disk[l]
  PROVE  Contents' = Contents
<1>1. Shown /\ Shown'
  BY Showing, Showing2
<1>2. ASSUME NEW l \in Lpa PROVE Contents'[l] = Contents[l]
  <2>1. CASE \E e \in hash : wlpa[e] = l
    BY <1>1, <2>1 DEF Shown
  <2>2. CASE \A e \in hash : wlpa[e] # l
    BY <1>1, <2>2 DEF Shown
  <2> QED BY <2>1, <2>2
<1> QED BY <1>2, ContentsDomain, ContentsDomain2

LEMMA PutContents ==
  ASSUME BufInv, NEW l \in Lpa, NEW d \in Data, fb_put_pg(l, d), disk' = disk
  PROVE  /\ BufInv' /\ Contents'[l] = d
         /\ \A m \in Lpa : m # l => Contents'[m] = Contents[m]
<1>1. CASE PutAgain(l, d)
  <2>1. BufInv' /\ \E e \in hash : /\ wlpa[e] = l /\ hash' = hash /\ wlpa' = wlpa
                                   /\ wdata' = [wdata EXCEPT ![e] = d]
    BY <1>1, PutAgainBuf
  <2>2. PICK e \in hash : /\ wlpa[e] = l /\ hash' = hash /\ wlpa' = wlpa
                          /\ wdata' = [wdata EXCEPT ![e] = d]
    BY <2>1
  <2>3. e \in WbPage /\ wdata'[e] = d /\ \A f \in hash : f # e => wdata'[f] = wdata[f]
    BY <2>2, HashPages DEF BufInv, BufType
  <2>4. Shown /\ Shown'
    BY <2>1, Showing, Showing2
  <2>5. Contents'[l] = d
    BY <2>2, <2>3, <2>4 DEF Shown
  <2>6. ASSUME NEW m \in Lpa, m # l PROVE Contents'[m] = Contents[m]
    <3>1. CASE \E f \in hash : wlpa[f] = m
      BY <2>2, <2>3, <2>4, <2>6, <3>1 DEF Shown
    <3>2. CASE \A f \in hash : wlpa[f] # m
      BY <2>2, <2>4, <3>2 DEF Shown
    <3> QED BY <3>1, <3>2
  <2> QED BY <2>1, <2>5, <2>6
<1>2. CASE PutNew(l, d)
  <2>1. BufInv' /\ \E e \in WbPage \ hash : /\ hash' = hash \union {e}
                                            /\ wlpa' = [wlpa EXCEPT ![e] = l]
                                            /\ wdata' = [wdata EXCEPT ![e] = d]
    BY <1>2, PutNewBuf
  <2>2. PICK e \in WbPage \ hash : /\ hash' = hash \union {e}
                                   /\ wlpa' = [wlpa EXCEPT ![e] = l]
                                   /\ wdata' = [wdata EXCEPT ![e] = d]
    BY <2>1
  <2>3. /\ wlpa'[e] = l /\ wdata'[e] = d
        /\ \A f \in hash : wlpa'[f] = wlpa[f] /\ wdata'[f] = wdata[f]
    BY <2>2, HashPages DEF BufInv, BufType
  <2>4. Shown /\ Shown'
    BY <2>1, Showing, Showing2
  <2>5. Contents'[l] = d
    BY <2>2, <2>3, <2>4 DEF Shown
  <2>6. ASSUME NEW m \in Lpa, m # l PROVE Contents'[m] = Contents[m]
    <3>1. CASE \E f \in hash : wlpa[f] = m
      BY <2>2, <2>3, <2>4, <3>1 DEF Shown
    <3>2. CASE \A f \in hash : wlpa[f] # m
      <4>1. \A f \in hash' : wlpa'[f] # m
        BY <2>2, <2>3, <2>6, <3>2
      <4> QED BY <2>4, <3>2, <4>1 DEF Shown
    <3> QED BY <3>1, <3>2
  <2> QED BY <2>1, <2>5, <2>6
<1> QED BY <1>1, <1>2 DEF fb_put_pg

LEMMA RmBufContents ==
  ASSUME BufInv, NEW l \in Lpa, fb_rm_buf_pg(l), disk' = disk
  PROVE  /\ BufInv' /\ \A e \in hash' : wlpa'[e] # l
         /\ \A m \in Lpa : (\A e \in hash : wlpa[e] # m) => \A e \in hash' : wlpa'[e] # m
         /\ \A m \in Lpa : m # l => Contents'[m] = Contents[m]
<1>1. /\ BufInv' /\ hash' = {e \in hash : wlpa[e] # l}
      /\ \A e \in hash' : wlpa'[e] = wlpa[e] /\ wdata'[e] = wdata[e]
  BY RmBuf
<1>2. Shown /\ Shown'
  BY <1>1, Showing, Showing2
<1>3. ASSUME NEW m \in Lpa, m # l PROVE Contents'[m] = Contents[m]
  <2>1. CASE \E f \in hash : wlpa[f] = m
    BY <1>1, <1>2, <1>3, <2>1 DEF Shown
  <2>2. CASE \A f \in hash : wlpa[f] # m
    BY <1>1, <1>2, <2>2 DEF Shown
  <2> QED BY <2>1, <2>2
<1> QED BY <1>1, <1>3

(* Written pages are released once the FTL holds what they hold.           *)
LEMMA RmWrittenContents ==
  ASSUME BufInv, fb_rm_written_pgs, disk' = disk,
         \A e \in PagesOf(writing) : disk[wlpa[e]] = wdata[e]
  PROVE  Contents' = Contents
<1>1. /\ BufInv' /\ hash' = hash \ PagesOf(writing)
      /\ \A e \in hash' : wlpa'[e] = wlpa[e] /\ wdata'[e] = wdata[e]
  BY RmWrittenBuf
<1>2. Shown /\ Shown'
  BY <1>1, Showing, Showing2
<1>3. ASSUME NEW l \in Lpa PROVE Contents'[l] = Contents[l]
  <2>1. ASSUME NEW e \in hash', wlpa[e] = l PROVE Contents'[l] = Contents[l]
    BY <1>1, <1>2, <2>1 DEF Shown
  <2>2. ASSUME NEW e \in PagesOf(writing), wlpa[e] = l PROVE Contents'[l] = Contents[l]
    <3>1. e \in hash
      BY DEF BufInv, Listing
    <3>2. \A f \in hash' : wlpa'[f] # l
      BY <1>1, <2>2, <3>1 DEF BufInv, Hashed
    <3>3. Contents'[l] = disk[l]
      BY <1>2, <3>2 DEF Shown
    <3> QED BY <1>2, <2>2, <3>1, <3>3 DEF Shown
  <2>3. CASE \A e \in hash : wlpa[e] # l
    BY <1>1, <1>2, <2>3 DEF Shown
  <2> QED BY <1>1, <2>1, <2>2, <2>3
<1> QED BY <1>3, ContentsDomain, ContentsDomain2

----------------------------------------------------------------------------
(* Where make_request stands, and what it knows of err and the FTL.        *)

InPages == {"read", "invalidate", "rm_buf", "put", "flush", "program", "wait"}
InFlush == {"put", "flush", "program", "wait"}
HostType ==
  /\ hpc \in InPages \union {"idle", "build", "no_memory", "finish", "fail"}
  /\ \/ hpc = "idle" /\ req = NoRequest
     \/ hpc # "idle" /\ req \in Bio
  /\ hpc \in {"idle", "build"} => n = 1
  /\ hpc \in InPages => n \in 1 .. Len(req.lpas)
  /\ hpc \in {"build", "no_memory"} => req.kind \in {"read", "write"}
  /\ hpc = "read" => req.kind = "read"
  /\ hpc = "rm_buf" => req.kind = "discard"
  /\ hpc = "invalidate" => req.kind \in {"write", "discard"}
  /\ hpc \in InFlush => req.kind = "write"

(* Only a page program of a flush sets err under a request.                *)
HostErr ==
  /\ err => hpc \in {"idle", "fail", "wait"}
  /\ hpc = "fail" => err
  /\ op = "write" => hpc = "wait"

(* The pages being written were handed down.                               *)
HandedDown ==
  /\ WritingInFlush
  /\ hpc = "program" => Len(writing) = NumLps
  /\ hpc = "wait" => \A e \in PagesOf(writing) : disk[wlpa[e]] = wdata[e]

FtlInv == IInv /\ KeptInv /\ FullInv /\ CopyInv /\ DataInv

LEMMA FtlNext == FtlInv /\ [Next /\ FreshVictim]_vars => FtlInv'
BY NextStep, NextKept, NextFull, NextCopy, NextData DEF FtlInv, KeptInv

(* A request that is refused for lack of memory sets err, whatever the     *)
(* collector is doing.                                                     *)
LEMMA FtlRefuse ==
  FtlInv /\ err' = TRUE
  /\ UNCHANGED <<flash, lists, gcm, loops, target, call, bgcAlive, disk, l2p, act, gc, mru, pc>>
  => FtlInv'
<1> SUFFICES ASSUME FtlInv, err' = TRUE,
               UNCHANGED <<flash, lists, gcm, loops, target, call, bgcAlive, disk, l2p, act, gc, mru, pc>>
             PROVE  FtlInv'
  OBVIOUS
<1> USE DEF flash, lists, gcm, loops, target, call
<1>1. TypeOK'
  <2>1. FlashType' /\ ListType'
    BY DEF FtlInv, IInv, TypeOK, FlashType, ListType
  <2>2. GcmType' /\ CallType' /\ EnvType'
    BY DEF FtlInv, IInv, TypeOK, GcmType, CallType, EnvType
  <2> QED BY <2>1, <2>2 DEF TypeOK
<1>2. Core'
  <2>1. (MapInv /\ EraseSafe)'
    BY DEF FtlInv, IInv, Core, MapInv, EraseSafe
  <2>2. (PageCounts /\ BlockCounts)'
    BY DEF FtlInv, IInv, Core, PageCounts, BlockCounts, InvalidOfs, InvalidPages, FullyInvalid
  <2>3. (FreeAhead /\ Target)'
    BY DEF FtlInv, IInv, Core, FreeAhead, Target
  <2>4. (ActiveBlocks /\ GcBlocks /\ Lists)'
    BY DEF FtlInv, IInv, Core, ActiveBlocks, GcBlocks, Lists, Listed
  <2> QED BY <2>1, <2>2, <2>3, <2>4 DEF Core
<1>3. Victims'
  BY DEF FtlInv, IInv, Victims
<1>4. KeptInv'
  <2>1. Calls' /\ HostDone'
    BY DEF FtlInv, KeptInv, Calls, HostDone, InMap
  <2>2. Kept'
    BY DEF Kept
  <2> QED BY <2>1, <2>2 DEF KeptInv
<1>5. FullInv'
  BY DEF FtlInv, FullInv, FreeBehind, PartDone, FullLists, FullBlk
<1>6. CopyInv'
  <2>1. (Chosen /\ Padded)'
    BY DEF FtlInv, CopyInv, Chosen, Padded, InFull, InCopy, InMap
  <2>2. (Gathered /\ Copied)'
    BY DEF FtlInv, CopyInv, Gathered, Copied, GoodUpTo, Good, InCopy, InMap
  <2> QED BY <2>1, <2>2 DEF CopyInv
<1>7. DataInv'
  BY DEF FtlInv, DataInv, DiscardsStay
<1> QED BY <1>1, <1>2, <1>3, <1>4, <1>5, <1>6, <1>7 DEF FtlInv, IInv

LEMMA EnvStep == Step => UNCHANGED <<op, err, disk>> \/ Return \/ Fail
<1> USE DEF call, env, Rest
<1>1. Write => UNCHANGED <<op, err, disk>> \/ Return \/ Fail
  BY DEF Write, WriteAlloc, MapWild, MapInvalidate, MapLp, UpdateActBlk, Crash
<1>2. prepare_act_blks \/ set_vic_blks => UNCHANGED <<op, err, disk>> \/ Return \/ Fail
  BY DEF prepare_act_blks, set_vic_blks
<1>3. ReadFirst \/ get_valid_pgs_in_vic_blks => UNCHANGED <<op, err, disk>> \/ Return \/ Fail
  BY DEF ReadFirst, get_valid_pgs_in_vic_blks
<1>4. prog_valid_pgs_to_gc_blks \/ update_gc_blks => UNCHANGED <<op, err, disk>> \/ Return \/ Fail
  BY DEF prog_valid_pgs_to_gc_blks, update_gc_blks
<1>5. fb_bgc_prepare_act_blks \/ BgcWild => UNCHANGED <<op, err, disk>> \/ Return \/ Fail
  BY DEF fb_bgc_prepare_act_blks, BgcWild, Crash
<1>6. fb_bgc_set_vic_blks => UNCHANGED <<op, err, disk>> \/ Return \/ Fail
  BY DEF fb_bgc_set_vic_blks
<1>7. fb_bgc_read_valid_pgs \/ BgcProg => UNCHANGED <<op, err, disk>> \/ Return \/ Fail
  BY DEF fb_bgc_read_valid_pgs, BgcProg
<1> QED BY <1>1, <1>2, <1>3, <1>4, <1>5, <1>6, <1>7 DEF Step, Collect, BgcRound

(* What the FTL does on its own.                                           *)
LEMMA FtlEnv ==
  ASSUME TypeOK, Step
  PROVE  /\ disk' = disk /\ (err => err') /\ (err' # err => op = "write" /\ err' = TRUE)
         /\ (op' = "write" => op = "write")
<1>1. CASE UNCHANGED <<op, err, disk>>
  BY <1>1
<1>2. CASE Return
  BY <1>2 DEF Return, ResetLocals, env
<1>3. CASE Fail
  <2>1. err' = (err \/ op = "write") /\ disk' = disk /\ op' = "none"
    BY <1>3 DEF Fail, ResetLocals
  <2>2. err \in BOOLEAN
    BY DEF TypeOK, EnvType
  <2> QED BY <2>1, <2>2
<1> QED BY <1>1, <1>2, <1>3, EnvStep

LEMMA AtType == ASSUME HostType, hpc \in InPages PROVE At \in Lpa /\ n \in DOMAIN req.lpas /\ n \in Nat
<1>1. req \in Bio /\ n \in 1 .. Len(req.lpas) /\ req.kind # "flush"
  BY DEF HostType, InPages, InFlush
<1>2. req.lpas \in Seq(Lpa)
  BY <1>1, FbAssumption
<1> QED BY <1>1, <1>2 DEF At

(* What is handed down.                                                    *)
LEMMA ProgramStarts ==
  ASSUME HostType, BufInv, HandedDown, Program
  PROVE  LET l == [o \in Ofs |-> wlpa[writing[o + 1]]]
             d == [o \in Ofs |-> wdata[writing[o + 1]]]
         IN  /\ l \in [Ofs -> Lpa] /\ d \in [Ofs -> Data] /\ WriteStart(l, d)
             /\ \A e \in PagesOf(writing) : disk'[wlpa[e]] = wdata[e]
             /\ \A m \in Lpa : (\A e \in hash : wlpa[e] # m) => disk'[m] = disk[m]
<1> DEFINE l == [o \in Ofs |-> wlpa[writing[o + 1]]]
           d == [o \in Ofs |-> wdata[writing[o + 1]]]
<1>1. hpc = "program" /\ WriteStart(l, d)
  BY DEF Program
<1>2. Len(writing) = NumLps /\ writing \in Seq(WbPage) /\ DOMAIN writing = 1 .. NumLps
  BY <1>1 DEF HandedDown, BufInv, BufType
<1>3. \A o \in Ofs : o + 1 \in DOMAIN writing /\ writing[o + 1] \in PagesOf(writing)
                     /\ writing[o + 1] \in hash
  BY <1>2, FtlAssumption DEF Ofs, BufInv, Listing, PagesOf
<1>4. \A o \in Ofs : l[o] \in Lpa /\ d[o] \in Data
  BY <1>3 DEF BufInv, Hashed
<1>5. l \in [Ofs -> Lpa] /\ d \in [Ofs -> Data]
  BY <1>4
<1> HIDE DEF l, d
<1>6. disk' = [x \in Lpa |-> IF \E o \in Ofs : l[o] = x
                             THEN d[CHOOSE o \in Ofs : l[o] = x] ELSE disk[x]]
      /\ \A o, q \in Ofs : l[o] = l[q] => o = q
  BY <1>1 DEF WriteStart
<1>7. ASSUME NEW e \in PagesOf(writing) PROVE disk'[wlpa[e]] = wdata[e]
  <2>1. PICK x \in 1 .. NumLps : writing[x] = e
    BY <1>2 DEF PagesOf
  <2>2. x - 1 \in Ofs /\ (x - 1) + 1 = x
    BY FtlAssumption DEF Ofs
  <2>3. l[x - 1] = wlpa[e] /\ d[x - 1] = wdata[e]
    BY <2>1, <2>2 DEF l, d
  <2>4. (CHOOSE o \in Ofs : l[o] = wlpa[e]) = x - 1
    BY <1>6, <2>2, <2>3
  <2>5. wlpa[e] \in Lpa
    BY <1>4, <2>2, <2>3
  <2> QED BY <1>6, <2>2, <2>3, <2>4, <2>5
<1>8. ASSUME NEW m \in Lpa, \A e \in hash : wlpa[e] # m PROVE disk'[m] = disk[m]
  <2>1. ~ \E o \in Ofs : l[o] = m
    BY <1>3, <1>8 DEF l
  <2> QED BY <1>6, <2>1
<1> QED BY <1>1, <1>5, <1>7, <1>8 DEF l, d

----------------------------------------------------------------------------
(* What has been done of a request, page by page.                          *)

Unbuffered(l) == \A e \in hash : wlpa[e] # l

(* Of several contents for one of the first pages, the last one counts.    *)
Latest(k) ==
  \A x \in DOMAIN req.lpas :
    x < k /\ (\A y \in DOMAIN req.lpas : x < y /\ y < k => req.lpas[y] # req.lpas[x])
      => Contents[req.lpas[x]] = req.datas[x]
Untouched ==
  \A l \in Lpa : (\A x \in DOMAIN req.lpas : req.lpas[x] # l) => Contents[l] = before[l]

Reads ==
  /\ hpc \in {"build", "read", "no_memory"} => Contents = before
  /\ hpc = "finish" /\ req.kind \in {"read", "flush"} => Contents = before
  /\ hpc = "read" \/ (hpc = "finish" /\ req.kind = "read") =>
       got = [x \in DOMAIN req.lpas |-> got[x]]
  /\ hpc = "read" =>
       \A x \in DOMAIN req.lpas :
         \/ got[x] = Missing /\ x >= n /\ Unbuffered(req.lpas[x])
         \/ got[x] # Missing /\ got[x] = before[req.lpas[x]]
  /\ hpc = "finish" /\ req.kind = "read" =>
       \A x \in DOMAIN req.lpas : got[x] = before[req.lpas[x]]
Writes ==
  /\ hpc \in InFlush \union {"rm_buf", "invalidate"} => Untouched
  /\ hpc \in InFlush => Latest(n)
  /\ hpc = "finish" /\ req.kind \in {"write", "discard"} => Untouched /\ Latest(Len(req.lpas) + 1)
Discards ==
  /\ hpc = "rm_buf" => \A x \in DOMAIN req.lpas : x < n => Unbuffered(req.lpas[x])
  /\ hpc = "invalidate" /\ req.kind = "discard" =>
       \A x \in DOMAIN req.lpas :
         Unbuffered(req.lpas[x]) /\ (x < n => disk[req.lpas[x]] = Unmapped)

Served == ~err => Reads /\ Writes /\ Discards
HostInv == BufInv /\ HostType /\ HostErr /\ HandedDown /\ Served
FbInv == FtlInv /\ HostInv

LEMMA Requests ==
  ASSUME NEW r \in Bio
  PROVE  /\ r # NoRequest /\ r.kind \in {"read", "write", "discard", "flush"}
         /\ r.kind # "flush" => /\ r.lpas \in Seq(Lpa) /\ Len(r.lpas) \in Nat \ {0}
                                /\ DOMAIN r.lpas = 1 .. Len(r.lpas)
<1>1. /\ r.kind \in {"read", "write", "discard", "flush"}
      /\ r.kind # "flush" => r.lpas \in Seq(Lpa) /\ Len(r.lpas) > 0
  BY Zenon, FbAssumption
<1>2. r # NoRequest
  BY FbAssumption
<1>3. r.kind # "flush" => Len(r.lpas) \in Nat \ {0} /\ DOMAIN r.lpas = 1 .. Len(r.lpas)
  BY <1>1
<1> QED BY <1>1, <1>2, <1>3

LEMMA RequestDatas ==
  ASSUME NEW r \in Bio
  PROVE  /\ r.kind = "write" => \A x \in DOMAIN r.lpas : x \in DOMAIN r.datas /\ r.datas[x] \in Data
         /\ r.kind = "discard" => \A x \in DOMAIN r.lpas : x \in DOMAIN r.datas /\ r.datas[x] = Unmapped
<1>1. /\ r.kind = "write" => r.datas \in Seq(Data) /\ Len(r.datas) = Len(r.lpas)
      /\ r.kind = "discard" => r.datas = [x \in DOMAIN r.lpas |-> Unmapped]
  BY Zenon, FbAssumption
<1>2. ASSUME r.kind = "write", NEW x \in DOMAIN r.lpas PROVE x \in DOMAIN r.datas /\ r.datas[x] \in Data
  BY <1>1, <1>2, Requests
<1>3. ASSUME r.kind = "discard", NEW x \in DOMAIN r.lpas
      PROVE  x \in DOMAIN r.datas /\ r.datas[x] = Unmapped
  BY <1>1, <1>3
<1> QED BY <1>2, <1>3

LEMMA StutterBuf == BufInv /\ UNCHANGED buffer => BufInv'
<1> SUFFICES ASSUME BufInv, UNCHANGED buffer PROVE BufInv'
  OBVIOUS
<1> USE DEF buffer
<1>1. BufType'
  BY DEF BufInv, BufType
<1>2. Listing'
  BY DEF BufInv, Listing, PagesOf, OnceEach
<1>3. Flagged'
  BY DEF BufInv, Flagged, PagesOf
<1>4. Hashed'
  BY DEF BufInv, Hashed
<1> QED BY <1>1, <1>2, <1>3, <1>4 DEF BufInv

LEMMA StutterContents == UNCHANGED buffer /\ disk' = disk => Contents' = Contents
BY DEF Contents, Buffered, fb_wb_get_buf_pg, fb_get_pg_data, buffer

LEMMA FtlUnchanged == UNCHANGED vars => UNCHANGED <<disk, err, op, l2p, store, pc>>
BY DEF vars, env, call, flash

LEMMA MakeRequestInv == ASSUME HostInv, NEW r \in Bio, make_request(r) PROVE HostInv'
<1> USE DEF HostInv
<1>1. /\ hpc = "idle" /\ req' = r /\ n' = 1 /\ UNCHANGED <<disk, err, op>> /\ UNCHANGED buffer
      /\ \/ err /\ hpc' = "fail"
         \/ /\ ~err /\ before' = Contents
            /\ \/ r.kind = "flush" /\ hpc' = "finish"
               \/ r.kind = "discard" /\ hpc' = "rm_buf"
               \/ r.kind \in {"read", "write"} /\ hpc' = "build"
  BY FtlUnchanged DEF make_request, HostType
<1>2. BufInv' /\ Contents' = Contents
  BY <1>1, StutterBuf, StutterContents
<1>3. HostType'
  <2>1. r.kind = "discard" => Len(r.lpas) \in Nat /\ Len(r.lpas) > 0
    BY Requests
  <2> QED BY <1>1, <2>1 DEF HostType, InPages, InFlush
<1>4. HostErr'
  BY <1>1 DEF HostErr
<1>5. HandedDown'
  BY <1>1 DEF HandedDown, WritingInFlush, buffer
<1>6. Served'
  <2> SUFFICES ASSUME ~err PROVE Reads' /\ Writes' /\ Discards'
    BY <1>1 DEF Served
  <2>1. Reads'
    BY <1>1, <1>2 DEF Reads
  <2>2. Writes' /\ Discards'
    <3>1. Untouched'
      BY <1>1, <1>2 DEF Untouched
    <3>2. hpc' = "rm_buf" => \A x \in DOMAIN r.lpas : ~(x < 1)
      BY <1>1, Requests
    <3> QED BY <1>1, <3>1, <3>2 DEF Writes, Discards, InFlush
  <2> QED BY <2>1, <2>2
<1> QED BY <1>2, <1>3, <1>4, <1>5, <1>6

LEMMA BuildInv == HostInv /\ fb_build_bio => HostInv'
<1> SUFFICES ASSUME HostInv, fb_build_bio PROVE HostInv'
  OBVIOUS
<1> USE DEF HostInv
<1>1. /\ hpc = "build" /\ UNCHANGED <<disk, err, op>> /\ UNCHANGED buffer /\ UNCHANGED <<req, n, before>>
      /\ \/ /\ req.kind = "read" /\ hpc' = "read"
            /\ got' = [x \in DOMAIN req.lpas |->
                         IF Buffered(req.lpas[x]) THEN fb_get_pg_data(req.lpas[x]) ELSE Missing]
         \/ req.kind = "write" /\ hpc' = "invalidate"
         \/ hpc' = "no_memory"
  BY FtlUnchanged DEF fb_build_bio
<1>2. BufInv' /\ Contents' = Contents
  BY <1>1, StutterBuf, StutterContents
<1>3. req \in Bio /\ n = 1 /\ req.kind \in {"read", "write"} /\ req.lpas \in Seq(Lpa)
      /\ Len(req.lpas) \in Nat /\ Len(req.lpas) > 0 /\ DOMAIN req.lpas = 1 .. Len(req.lpas)
  BY <1>1, Requests DEF HostType
<1>4. HostType'
  BY <1>1, <1>3 DEF HostType, InPages, InFlush
<1>5. HostErr' /\ HandedDown'
  BY <1>1 DEF HostErr, HandedDown, WritingInFlush, buffer
<1>6. Served'
  <2> SUFFICES ASSUME ~err PROVE Reads' /\ Writes' /\ Discards'
    BY <1>1 DEF Served
  <2>1. Contents = before
    BY <1>1 DEF Served, Reads
  <2>2. Reads'
    <3>1. ASSUME hpc' = "read", NEW x \in DOMAIN req.lpas
          PROVE  \/ got'[x] = Missing /\ x >= 1 /\ Unbuffered(req.lpas[x])
                 \/ got'[x] # Missing /\ got'[x] = before[req.lpas[x]]
      <4>1. req.lpas[x] \in Lpa
        BY <1>3
      <4>2. CASE Buffered(req.lpas[x])
        <5>1. PICK e \in hash : wlpa[e] = req.lpas[x]
          BY <4>2 DEF Buffered, fb_wb_get_buf_pg
        <5>2. got'[x] = Contents[req.lpas[x]]
          BY <1>1, <3>1, <4>1, <4>2 DEF Contents
        <5>3. Contents[req.lpas[x]] = wdata[e] /\ wdata[e] \in Data
          BY <5>1, Showing DEF Shown, BufInv, Hashed
        <5> QED BY <2>1, <5>2, <5>3, FbAssumption
      <4>3. CASE ~Buffered(req.lpas[x])
        BY <1>1, <1>3, <3>1, <4>3 DEF Buffered, fb_wb_get_buf_pg, Unbuffered
      <4> QED BY <4>2, <4>3
    <3>2. hpc' = "read" => got' = [x \in DOMAIN req.lpas |-> got'[x]]
      BY <1>1
    <3> QED BY <1>1, <1>2, <1>3, <2>1, <3>1, <3>2 DEF Reads, Unbuffered, buffer
  <2>3. Writes' /\ Discards'
    BY <1>1, <1>2, <1>3, <2>1 DEF Writes, Discards, Untouched, InFlush
  <2> QED BY <2>2, <2>3
<1> QED BY <1>2, <1>4, <1>5, <1>6

LEMMA EndedType == ASSUME Ended PROVE HostType'
BY DEF Ended, HostType, InPages, InFlush

LEMMA NoMemoryInv == HostInv /\ NoMemory => HostInv'
<1> SUFFICES ASSUME HostInv, NoMemory PROVE HostInv'
  OBVIOUS
<1> USE DEF HostInv
<1>1. hpc' = "idle" /\ Ended /\ err' = TRUE /\ UNCHANGED <<disk, op>> /\ UNCHANGED buffer /\ hpc = "no_memory"
  BY DEF NoMemory, Ended, call
<1>2. BufInv' /\ HostType'
  BY <1>1, StutterBuf, EndedType
<1>3. HostErr' /\ HandedDown' /\ Served'
  BY <1>1 DEF HostErr, HandedDown, WritingInFlush, Served
<1> QED BY <1>2, <1>3

(* A page further, or on to what comes after the last one.                 *)
LEMMA Turn ==
  ASSUME HostType, hpc \in InPages, req' = req, NEW after, NextPage(after)
  PROVE  /\ n \in DOMAIN req.lpas /\ DOMAIN req.lpas = 1 .. Len(req.lpas) /\ Len(req.lpas) \in Nat
         /\ \/ n' = n + 1 /\ hpc' = hpc /\ n' \in 1 .. Len(req.lpas)
            \/ n = Len(req.lpas) /\ n' = 1 /\ hpc' = after
         /\ 1 \in 1 .. Len(req.lpas) /\ req \in Bio
<1>1. req \in Bio /\ n \in 1 .. Len(req.lpas) /\ req.kind # "flush"
  BY DEF HostType, InPages, InFlush
<1>2. req.lpas \in Seq(Lpa) /\ Len(req.lpas) \in Nat \ {0} /\ DOMAIN req.lpas = 1 .. Len(req.lpas)
  BY <1>1, Requests
<1> QED BY <1>1, <1>2 DEF NextPage

(* Reading what the buffer does not hold.                                  *)
LEMMA ReadBefore ==
  ASSUME FtlInv, HostInv, hpc = "read", pc = "idle", Unbuffered(At)
  PROVE  (IF l2p[At] = Unmapped THEN Unmapped ELSE store[l2p[At]]) = before[At] /\ before[At] # Missing
<1>1. ~err /\ At \in Lpa /\ Contents = before
  BY AtType DEF HostInv, HostErr, Served, Reads, InPages
<1>2. before[At] = disk[At]
  BY <1>1, Showing DEF HostInv, Shown, Unbuffered
<1>3. op = "none" /\ wl = NoLpas
  BY DEF FtlInv, KeptInv, Calls
<1>4. \A o \in Ofs : wl[o] # At
  BY <1>1, <1>3, FtlAssumption DEF NoLpas
<1>5. l2p[At] = Unmapped => disk[At] = Unmapped
  BY <1>1, <1>3 DEF FtlInv, KeptInv, Kept
<1>6. l2p[At] # Unmapped => store[l2p[At]] = disk[At]
  BY <1>1, <1>4 DEF FtlInv, DataInv
<1>7. disk[At] \in Data \union {Unmapped}
  BY <1>1 DEF FtlInv, IInv, TypeOK, EnvType
<1> QED BY <1>2, <1>5, <1>6, <1>7, FbAssumption

LEMMA ReadInv == FtlInv /\ HostInv /\ make_read_request_page_mapping => HostInv'
<1> SUFFICES ASSUME FtlInv, HostInv, make_read_request_page_mapping PROVE HostInv'
  OBVIOUS
<1>1. /\ hpc = "read" /\ UNCHANGED <<disk, err, op>> /\ UNCHANGED buffer /\ UNCHANGED <<req, before>>
      /\ NextPage("finish")
      /\ \/ /\ got[n] = Missing /\ pc = "idle"
            /\ got' = [got EXCEPT ![n] = IF l2p[At] = Unmapped THEN Unmapped ELSE store[l2p[At]]]
         \/ got[n] # Missing /\ got' = got
  BY FtlUnchanged DEF make_read_request_page_mapping
<1>2. BufInv' /\ Contents' = Contents
  BY <1>1, StutterBuf, StutterContents DEF HostInv
<1>3. /\ n \in DOMAIN req.lpas /\ DOMAIN req.lpas = 1 .. Len(req.lpas) /\ Len(req.lpas) \in Nat
      /\ \/ n' = n + 1 /\ hpc' = hpc /\ n' \in 1 .. Len(req.lpas)
         \/ n = Len(req.lpas) /\ n' = 1 /\ hpc' = "finish"
  BY <1>1, Turn DEF HostInv, InPages
<1>4. req \in Bio /\ req.kind = "read"
  BY <1>1 DEF HostInv, HostType
<1>5. HostType'
  BY <1>1, <1>3, <1>4 DEF HostType, InPages, InFlush
<1>6. ~err
  BY <1>1 DEF HostInv, HostErr
<1>7. HostErr' /\ HandedDown'
  BY <1>1, <1>3, <1>6 DEF HostInv, HostErr, HandedDown, WritingInFlush, buffer
<1>8. /\ Contents = before /\ got = [x \in DOMAIN req.lpas |-> got[x]]
      /\ \A x \in DOMAIN req.lpas :
           \/ got[x] = Missing /\ x >= n /\ Unbuffered(req.lpas[x])
           \/ got[x] # Missing /\ got[x] = before[req.lpas[x]]
  BY <1>1, <1>6 DEF HostInv, Served, Reads
<1>9. got' = [x \in DOMAIN req.lpas |-> got'[x]]
  BY <1>1, <1>8
<1>10. got'[n] # Missing /\ got'[n] = before[req.lpas[n]]
  <2>1. CASE got[n] = Missing
    <3>1. pc = "idle" /\ Unbuffered(At)
      BY <1>1, <1>3, <1>8, <2>1 DEF At
    <3>2. (IF l2p[At] = Unmapped THEN Unmapped ELSE store[l2p[At]]) = before[At] /\ before[At] # Missing
      BY <1>1, <3>1, ReadBefore
    <3>3. got'[n] = IF l2p[At] = Unmapped THEN Unmapped ELSE store[l2p[At]]
      BY <1>1, <1>3, <1>8, <2>1
    <3> QED BY <3>2, <3>3 DEF At
  <2>2. CASE got[n] # Missing
    BY <1>1, <1>3, <1>8, <2>2
  <2> QED BY <2>1, <2>2
<1>11. \A x \in DOMAIN req.lpas : x # n => got'[x] = got[x]
  BY <1>1, <1>8
<1>12. Served'
  <2>1. \A x \in DOMAIN req.lpas :
           \/ got'[x] = Missing /\ x >= n + 1 /\ Unbuffered(req.lpas[x])
           \/ got'[x] # Missing /\ got'[x] = before[req.lpas[x]]
    <3> SUFFICES ASSUME NEW x \in DOMAIN req.lpas
                 PROVE  \/ got'[x] = Missing /\ x >= n + 1 /\ Unbuffered(req.lpas[x])
                        \/ got'[x] # Missing /\ got'[x] = before[req.lpas[x]]
      OBVIOUS
    <3>1. CASE x = n
      BY <1>10, <3>1
    <3>2. CASE x # n
      <4>1. x \in Int /\ n \in Int /\ (x >= n => x >= n + 1)
        BY <1>3, <3>2
      <4> QED BY <1>8, <1>11, <3>2, <4>1
    <3> QED BY <3>1, <3>2
  <2>2. \A l : Unbuffered(l)' <=> Unbuffered(l)
    BY <1>1 DEF Unbuffered, buffer
  <2>3. n = Len(req.lpas) => \A x \in DOMAIN req.lpas : got'[x] = before[req.lpas[x]]
    BY <1>3, <2>1
  <2>4. Reads'
    BY <1>1, <1>2, <1>3, <1>4, <1>8, <1>9, <2>1, <2>2, <2>3 DEF Reads, Unbuffered, buffer
  <2>5. Writes' /\ Discards'
    BY <1>1, <1>3, <1>4 DEF Writes, Discards, InFlush
  <2> QED BY <2>4, <2>5 DEF Served
<1> QED BY <1>2, <1>5, <1>7, <1>12 DEF HostInv

(* One page of a write or of a discard is invalidated.                     *)
LEMMA InvalidateInv == FtlInv /\ HostInv /\ fb_del_invalidate_pgs => HostInv'
<1> SUFFICES ASSUME FtlInv, HostInv, fb_del_invalidate_pgs PROVE HostInv'
  OBVIOUS
<1> DEFINE after == IF req.kind = "write" THEN "put" ELSE "finish"
<1>1. /\ hpc = "invalidate" /\ UNCHANGED <<err, op>> /\ UNCHANGED buffer
      /\ UNCHANGED <<req, got, before>> /\ NextPage(after) /\ ~err
      /\ disk' = [disk EXCEPT ![At] = Unmapped] /\ disk \in [Lpa -> Data \union {Unmapped}]
  BY DEF fb_del_invalidate_pgs, Invalidate, call, FtlInv, IInv, TypeOK, EnvType
<1>2. /\ n \in DOMAIN req.lpas /\ DOMAIN req.lpas = 1 .. Len(req.lpas) /\ Len(req.lpas) \in Nat
      /\ \/ n' = n + 1 /\ hpc' = hpc /\ n' \in 1 .. Len(req.lpas)
         \/ n = Len(req.lpas) /\ n' = 1 /\ hpc' = after
      /\ 1 \in 1 .. Len(req.lpas)
  BY <1>1, Turn DEF HostInv, InPages
<1>3. req \in Bio /\ req.kind \in {"write", "discard"} /\ At \in Lpa /\ At = req.lpas[n]
  BY <1>1, AtType DEF HostInv, HostType, InPages, At
<1>4. BufInv' /\ BufInv
  BY <1>1, StutterBuf DEF HostInv
<1>5. HostType'
  BY <1>1, <1>2, <1>3 DEF HostType, InPages, InFlush
<1>6. HostErr' /\ HandedDown'
  BY <1>1, <1>2, <1>3 DEF HostInv, HostErr, HandedDown, WritingInFlush, buffer
<1>7. \A l \in Lpa : l # At => Contents'[l] = Contents[l]
  <2>1. \A l \in Lpa : l # At => disk'[l] = disk[l]
    BY <1>1
  <2> QED BY <1>1, <2>1 DEF Contents, Buffered, fb_wb_get_buf_pg, fb_get_pg_data, buffer
<1>8. Untouched'
  <2>1. Untouched
    BY <1>1 DEF HostInv, Served, Writes
  <2> QED BY <1>1, <1>2, <1>3, <1>7, <2>1 DEF Untouched
<1>9. \A l : Unbuffered(l)' <=> Unbuffered(l)
  BY <1>1 DEF Unbuffered, buffer
<1>10. ASSUME req.kind = "discard"
       PROVE  \A x \in DOMAIN req.lpas :
                Unbuffered(req.lpas[x]) /\ (x < n + 1 => disk'[req.lpas[x]] = Unmapped)
  <2>1. \A x \in DOMAIN req.lpas : Unbuffered(req.lpas[x]) /\ (x < n => disk[req.lpas[x]] = Unmapped)
    BY <1>1, <1>10 DEF HostInv, Served, Discards
  <2>2. \A x \in DOMAIN req.lpas : disk'[req.lpas[x]] = IF req.lpas[x] = At THEN Unmapped ELSE disk[req.lpas[x]]
    <3>1. \A x \in DOMAIN req.lpas : req.lpas[x] \in Lpa
      BY <1>3, Requests
    <3> QED BY <1>1, <3>1
  <2> QED BY <1>2, <1>3, <2>1, <2>2
<1>11. ASSUME hpc' = "put" PROVE Latest(n)'
  <2>1. n' = 1 /\ req' = req
    BY <1>1, <1>2, <1>11
  <2>2. \A x \in DOMAIN req.lpas : ~(x < 1)
    BY <1>2
  <2> QED BY <2>1, <2>2 DEF Latest
<1>12. ASSUME hpc' = "finish", req.kind = "discard" PROVE Latest(Len(req.lpas) + 1)'
  <2>1. ASSUME NEW x \in DOMAIN req.lpas PROVE Contents'[req.lpas[x]] = req.datas[x]
    <3>1. disk'[req.lpas[x]] = Unmapped /\ \A e \in hash' : wlpa'[e] # req.lpas[x]
      <4>1. x < n + 1
        BY <1>1, <1>2, <1>12
      <4>2. UNCHANGED <<hash, wlpa, req>>
        BY <1>1 DEF buffer
      <4> QED BY <1>10, <1>12, <4>1, <4>2 DEF Unbuffered
    <3>2. req.lpas[x] \in Lpa
      BY <1>3, Requests
    <3>3. Contents'[req.lpas[x]] = disk'[req.lpas[x]]
      BY <1>4, <3>1, <3>2, Showing2 DEF Shown
    <3>4. req.datas[x] = Unmapped
      BY <1>3, <1>12, RequestDatas
    <3> QED BY <3>1, <3>3, <3>4
  <2> QED BY <1>1, <2>1 DEF Latest
<1>13. Served'
  <2>1. Reads'
    BY <1>1, <1>2, <1>3 DEF Reads
  <2>2. Writes'
    BY <1>1, <1>2, <1>3, <1>8, <1>11, <1>12 DEF Writes, InFlush
  <2>3. Discards'
    <3>1. ASSUME hpc' = "invalidate", req.kind = "discard", NEW x \in DOMAIN req.lpas
          PROVE  Unbuffered(req.lpas[x])' /\ (x < n' => disk'[req.lpas[x]] = Unmapped)
      <4>1. n' = n + 1
        BY <1>1, <1>2, <3>1
      <4>2. Unbuffered(req.lpas[x]) /\ (x < n + 1 => disk'[req.lpas[x]] = Unmapped)
        BY <1>10, <3>1
      <4>3. UNCHANGED <<hash, wlpa, req>>
        BY <1>1 DEF buffer
      <4> QED BY <4>1, <4>2, <4>3 DEF Unbuffered
    <3>2. hpc' # "rm_buf"
      BY <1>1, <1>2
    <3> QED BY <1>1, <3>1, <3>2 DEF Discards, Unbuffered
  <2> QED BY <2>1, <2>2, <2>3 DEF Served
<1> QED BY <1>4, <1>5, <1>6, <1>13 DEF HostInv

(* One page of a discard leaves the buffer.                                *)
LEMMA DiscardInv == HostInv /\ DiscardBuffered => HostInv'
<1> SUFFICES ASSUME HostInv, DiscardBuffered PROVE HostInv'
  OBVIOUS
<1>1. /\ hpc = "rm_buf" /\ UNCHANGED <<disk, err, op>> /\ UNCHANGED <<req, got, before>>
      /\ fb_rm_buf_pg(At) /\ NextPage("invalidate")
  BY FtlUnchanged DEF DiscardBuffered
<1>2. /\ n \in DOMAIN req.lpas /\ DOMAIN req.lpas = 1 .. Len(req.lpas) /\ Len(req.lpas) \in Nat
      /\ \/ n' = n + 1 /\ hpc' = hpc /\ n' \in 1 .. Len(req.lpas)
         \/ n = Len(req.lpas) /\ n' = 1 /\ hpc' = "invalidate"
      /\ 1 \in 1 .. Len(req.lpas)
  BY <1>1, Turn DEF HostInv, InPages
<1>3. req \in Bio /\ req.kind = "discard" /\ At \in Lpa /\ At = req.lpas[n] /\ ~err
      /\ \A x \in DOMAIN req.lpas : req.lpas[x] \in Lpa
  <2>1. req \in Bio /\ req.kind = "discard" /\ ~err /\ At \in Lpa
    BY <1>1, AtType DEF HostInv, HostType, HostErr, InPages
  <2> QED BY <2>1, Requests DEF At
<1>4. /\ BufInv' /\ \A e \in hash' : wlpa'[e] # At
      /\ \A m \in Lpa : (\A e \in hash : wlpa[e] # m) => \A e \in hash' : wlpa'[e] # m
      /\ \A m \in Lpa : m # At => Contents'[m] = Contents[m]
  BY <1>1, <1>3, RmBufContents DEF HostInv
<1>5. HostType'
  BY <1>1, <1>2, <1>3 DEF HostType, InPages, InFlush
<1>6. HostErr'
  BY <1>1, <1>2, <1>3 DEF HostInv, HostErr
<1>7. HandedDown'
  <2>1. writing = <<>>
    BY <1>1, <1>3 DEF HostInv, HandedDown, WritingInFlush
  <2>2. \A e \in hash : ~wflag[e] /\ e \in WbPage
    BY <2>1, HashPages DEF HostInv, BufInv, Flagged, PagesOf
  <2>3. writing' = <<>>
    BY <1>1, <2>1, <2>2 DEF fb_rm_buf_pg, Unlink, fb_wb_get_buf_pg
  <2> QED BY <1>1, <1>2, <2>3 DEF HandedDown, WritingInFlush
<1>8. Untouched'
  <2>1. Untouched
    BY <1>1, <1>3 DEF HostInv, Served, Writes
  <2> QED BY <1>1, <1>2, <1>3, <1>4, <2>1 DEF Untouched
<1>9. ASSUME NEW x \in DOMAIN req.lpas, x < n + 1 PROVE \A e \in hash' : wlpa'[e] # req.lpas[x]
  <2>1. CASE x = n
    BY <1>3, <1>4, <2>1
  <2>2. CASE x # n
    <3>1. x < n
      BY <1>2, <1>9, <2>2
    <3>2. \A e \in hash : wlpa[e] # req.lpas[x]
      BY <1>1, <1>3, <3>1 DEF HostInv, Served, Discards, Unbuffered
    <3> QED BY <1>3, <1>4, <3>2
  <2> QED BY <2>1, <2>2
<1>10. Discards'
  <2>1. CASE n' = n + 1 /\ hpc' = "rm_buf"
    BY <1>1, <1>9, <2>1 DEF Discards, Unbuffered
  <2>2. CASE n = Len(req.lpas) /\ n' = 1 /\ hpc' = "invalidate"
    <3>1. \A x \in DOMAIN req.lpas : x < n + 1 /\ ~(x < 1)
      BY <1>2, <2>2
    <3> QED BY <1>1, <1>9, <2>2, <3>1 DEF Discards, Unbuffered
  <2> QED BY <1>1, <1>2, <2>1, <2>2
<1>11. Served'
  <2>1. Reads' /\ Writes'
    BY <1>1, <1>2, <1>3, <1>8 DEF Reads, Writes, InFlush
  <2> QED BY <1>10, <2>1 DEF Served
<1> QED BY <1>4, <1>5, <1>6, <1>7, <1>11 DEF HostInv

(* One page of a write enters the buffer.                                  *)
LEMMA PutInv == HostInv /\ Put => HostInv'
<1> SUFFICES ASSUME HostInv, Put PROVE HostInv'
  OBVIOUS
<1>1. /\ hpc = "put" /\ UNCHANGED <<disk, err, op>> /\ UNCHANGED <<req, got, before>>
      /\ \/ fb_put_pg(At, req.datas[n]) /\ NextPage("finish")
         \/ hpc' = "flush" /\ n' = n /\ UNCHANGED buffer
  BY FtlUnchanged DEF Put
<1>2. /\ req \in Bio /\ req.kind = "write" /\ ~err /\ At \in Lpa /\ At = req.lpas[n]
      /\ n \in DOMAIN req.lpas
      /\ \A x \in DOMAIN req.lpas : req.lpas[x] \in Lpa /\ req.datas[x] \in Data
  <2>1. req \in Bio /\ req.kind = "write" /\ ~err /\ At \in Lpa /\ n \in DOMAIN req.lpas
    BY <1>1, AtType DEF HostInv, HostType, HostErr, InPages, InFlush
  <2>2. \A x \in DOMAIN req.lpas : req.lpas[x] \in Lpa
    BY <2>1, Requests
  <2> QED BY <2>1, <2>2, RequestDatas DEF At
<1>3. writing = <<>>
  BY <1>1, <1>2 DEF HostInv, HandedDown, WritingInFlush
<1>4. Untouched /\ Latest(n)
  BY <1>1, <1>2 DEF HostInv, Served, Writes, InFlush
<1>5. CASE hpc' = "flush" /\ n' = n /\ UNCHANGED buffer
  <2>1. BufInv' /\ Contents' = Contents
    BY <1>1, <1>5, StutterBuf, StutterContents DEF HostInv
  <2>2. HostType'
    BY <1>1, <1>5 DEF HostInv, HostType, InPages, InFlush
  <2>3. HostErr' /\ HandedDown'
    BY <1>1, <1>2, <1>3, <1>5 DEF HostInv, HostErr, HandedDown, WritingInFlush, buffer
  <2>4. Untouched' /\ Latest(n)'
    BY <1>1, <1>4, <1>5, <2>1 DEF Untouched, Latest
  <2>5. Served'
    BY <1>5, <2>4 DEF Served, Reads, Writes, Discards, InFlush
  <2> QED BY <2>1, <2>2, <2>3, <2>5 DEF HostInv
<1>6. CASE fb_put_pg(At, req.datas[n]) /\ NextPage("finish")
  <2>1. /\ DOMAIN req.lpas = 1 .. Len(req.lpas) /\ Len(req.lpas) \in Nat
        /\ \/ n' = n + 1 /\ hpc' = hpc /\ n' \in 1 .. Len(req.lpas)
           \/ n = Len(req.lpas) /\ n' = 1 /\ hpc' = "finish"
    BY <1>1, <1>6, Turn DEF HostInv, InPages
  <2>2. /\ BufInv' /\ Contents'[At] = req.datas[n]
        /\ \A m \in Lpa : m # At => Contents'[m] = Contents[m]
    BY <1>1, <1>2, <1>6, PutContents DEF HostInv
  <2>3. HostType'
    BY <1>1, <1>2, <2>1 DEF HostInv, HostType, InPages, InFlush
  <2>4. writing' = <<>>
    <3>1. \A e \in hash : ~wflag[e]
      BY <1>3, HashPages DEF HostInv, BufInv, Flagged, PagesOf
    <3> QED BY <1>3, <1>6, <3>1 DEF fb_put_pg, PutAgain, PutNew, fb_wb_get_buf_pg
  <2>5. HostErr' /\ HandedDown'
    BY <1>1, <1>2, <2>1, <2>4 DEF HostInv, HostErr, HandedDown, WritingInFlush
  <2>6. Untouched'
    BY <1>1, <1>2, <1>4, <2>2 DEF Untouched
  <2>7. ASSUME NEW x \in DOMAIN req.lpas, x < n + 1,
               \A y \in DOMAIN req.lpas : x < y /\ y < n + 1 => req.lpas[y] # req.lpas[x]
        PROVE  Contents'[req.lpas[x]] = req.datas[x]
    <3>1. CASE x = n
      BY <1>2, <2>2, <3>1
    <3>2. CASE x # n
      <4>1. x < n /\ \A y \in DOMAIN req.lpas : x < y /\ y < n => req.lpas[y] # req.lpas[x]
        BY <1>2, <2>1, <2>7, <3>2
      <4>2. Contents[req.lpas[x]] = req.datas[x]
        BY <1>4, <4>1 DEF Latest
      <4>3. req.lpas[n] # req.lpas[x]
        BY <1>2, <2>1, <2>7, <4>1
      <4> QED BY <1>2, <2>2, <4>2, <4>3
    <3> QED BY <3>1, <3>2
  <2>8. Served'
    <3>1. CASE n' = n + 1 /\ hpc' = "put"
      <4>1. Latest(n)'
        BY <1>1, <2>7, <3>1 DEF Latest
      <4> QED BY <2>6, <3>1, <4>1 DEF Served, Reads, Writes, Discards, InFlush
    <3>2. CASE n = Len(req.lpas) /\ hpc' = "finish"
      <4>1. Latest(Len(req.lpas) + 1)'
        BY <1>1, <2>7, <3>2 DEF Latest
      <4> QED BY <1>1, <1>2, <2>6, <3>2, <4>1 DEF Served, Reads, Writes, Discards, InFlush
    <3> QED BY <1>1, <2>1, <3>1, <3>2
  <2> QED BY <2>2, <2>3, <2>5, <2>8 DEF HostInv
<1> QED BY <1>1, <1>5, <1>6

(* Within a flush, nothing the host sees changes.                          *)
LEMMA FlushServed ==
  ASSUME HostInv, hpc \in InFlush, hpc' \in InFlush, UNCHANGED <<req, n, before>>,
         Contents' = Contents, err => err'
  PROVE  Served' /\ HostType'
<1>1. HostType'
  BY DEF HostInv, HostType, InPages, InFlush
<1>2. Served'
  <2> SUFFICES ASSUME ~err' PROVE Reads' /\ Writes' /\ Discards'
    BY DEF Served
  <2>1. Untouched /\ Latest(n)
    BY DEF HostInv, Served, Writes
  <2>2. Untouched' /\ Latest(n)'
    BY <2>1 DEF Untouched, Latest
  <2> QED BY <2>2 DEF Reads, Writes, Discards, InFlush
<1> QED BY <1>1, <1>2

LEMMA FlushInv == HostInv /\ Flush => HostInv'
<1> SUFFICES ASSUME HostInv, Flush PROVE HostInv'
  OBVIOUS
<1>1. /\ hpc = "flush" /\ UNCHANGED <<disk, err, op>> /\ UNCHANGED <<req, n, before>>
      /\ \/ fb_get_pgs_to_write /\ hpc' = "program"
         \/ hpc' = "put" /\ UNCHANGED buffer
  BY FtlUnchanged DEF Flush
<1>2. ~err /\ writing = <<>> /\ op # "write"
  BY <1>1 DEF HostInv, HostErr, HandedDown, WritingInFlush
<1>3. BufInv' /\ Contents' = Contents /\ HandedDown'
  <2>1. CASE fb_get_pgs_to_write /\ hpc' = "program"
    <3>1. BufInv' /\ UNCHANGED <<hash, wlpa, wdata>> /\ Len(writing') = Len(writing) + NumLps
      BY <2>1, GetPgsBuf DEF HostInv
    <3>2. Len(writing') = NumLps
      BY <1>2, <3>1, FtlAssumption
    <3>3. Contents' = Contents
      BY <1>1, <3>1, SameContents DEF HostInv
    <3> QED BY <2>1, <3>1, <3>2, <3>3 DEF HandedDown, WritingInFlush
  <2>2. CASE hpc' = "put" /\ UNCHANGED buffer
    <3>1. BufInv' /\ Contents' = Contents
      BY <1>1, <2>2, StutterBuf, StutterContents DEF HostInv
    <3>2. HandedDown'
      BY <1>2, <2>2 DEF HandedDown, WritingInFlush, buffer
    <3> QED BY <3>1, <3>2
  <2> QED BY <1>1, <2>1, <2>2
<1>4. HostErr'
  BY <1>1, <1>2 DEF HostErr
<1>5. Served' /\ HostType'
  BY <1>1, <1>3, FlushServed DEF InFlush
<1> QED BY <1>3, <1>4, <1>5 DEF HostInv

LEMMA ProgramInv == HostInv /\ Program => HostInv'
<1> SUFFICES ASSUME HostInv, Program PROVE HostInv'
  OBVIOUS
<1>1. /\ hpc = "program" /\ hpc' = "wait" /\ UNCHANGED <<req, n, before>> /\ UNCHANGED buffer
      /\ err' = err
  BY DEF Program, WriteStart
<1>2. /\ \A e \in PagesOf(writing) : disk'[wlpa[e]] = wdata[e]
      /\ \A m \in Lpa : (\A e \in hash : wlpa[e] # m) => disk'[m] = disk[m]
  BY ProgramStarts DEF HostInv
<1>3. BufInv'
  BY <1>1, StutterBuf DEF HostInv
<1>4. Contents' = Contents
  BY <1>1, <1>2, <1>3, SameContents DEF HostInv, buffer
<1>5. ~err
  BY <1>1 DEF HostInv, HostErr
<1>6. HostErr'
  BY <1>1, <1>5 DEF HostErr
<1>7. HandedDown'
  <2>1. \A e \in PagesOf(writing') : disk'[wlpa'[e]] = wdata'[e]
    BY <1>1, <1>2 DEF buffer
  <2> QED BY <1>1, <2>1 DEF HandedDown, WritingInFlush, PagesOf
<1>8. Served' /\ HostType'
  BY <1>1, <1>4, FlushServed DEF InFlush
<1> QED BY <1>3, <1>6, <1>7, <1>8 DEF HostInv

LEMMA ProgrammedInv == HostInv /\ Programmed => HostInv'
<1> SUFFICES ASSUME HostInv, Programmed PROVE HostInv'
  OBVIOUS
<1>1. /\ hpc = "wait" /\ op # "write" /\ UNCHANGED <<req, n, before>> /\ UNCHANGED <<disk, err, op>>
      /\ \/ err /\ hpc' = "fail" /\ UNCHANGED buffer
         \/ ~err /\ fb_rm_written_pgs /\ hpc' = "flush"
  BY FtlUnchanged DEF Programmed
<1>2. CASE err /\ hpc' = "fail" /\ UNCHANGED buffer
  <2>1. BufInv'
    BY <1>2, StutterBuf DEF HostInv
  <2>2. HostType'
    BY <1>1, <1>2 DEF HostInv, HostType, InPages, InFlush
  <2>3. HostErr' /\ HandedDown' /\ Served'
    BY <1>1, <1>2 DEF HostErr, HandedDown, WritingInFlush, Served
  <2> QED BY <2>1, <2>2, <2>3 DEF HostInv
<1>3. CASE ~err /\ fb_rm_written_pgs /\ hpc' = "flush"
  <2>1. BufInv' /\ writing' = <<>>
    BY <1>3, RmWrittenBuf DEF HostInv
  <2>2. \A e \in PagesOf(writing) : disk[wlpa[e]] = wdata[e]
    BY <1>1 DEF HostInv, HandedDown
  <2>3. Contents' = Contents
    BY <1>1, <1>3, <2>2, RmWrittenContents DEF HostInv
  <2>4. HostErr' /\ HandedDown'
    BY <1>1, <1>3, <2>1 DEF HostErr, HandedDown, WritingInFlush
  <2>5. Served' /\ HostType'
    BY <1>1, <1>3, <2>3, FlushServed DEF InFlush
  <2> QED BY <2>1, <2>4, <2>5 DEF HostInv
<1> QED BY <1>1, <1>2, <1>3

LEMMA EndInv == HostInv /\ (Finish \/ FailRequest) => HostInv'
<1> SUFFICES ASSUME HostInv, Finish \/ FailRequest PROVE HostInv'
  OBVIOUS
<1>1. /\ hpc \in {"finish", "fail"} /\ hpc' = "idle" /\ Ended /\ UNCHANGED <<disk, err, op>>
      /\ UNCHANGED buffer
  BY FtlUnchanged DEF Finish, FailRequest, Ended
<1>2. BufInv' /\ HostType'
  BY <1>1, StutterBuf, EndedType DEF HostInv
<1>3. HostErr' /\ HandedDown'
  BY <1>1 DEF HostInv, HostErr, HandedDown, WritingInFlush, buffer
<1>4. Served'
  BY <1>1 DEF Served, Reads, Writes, Discards, InFlush
<1> QED BY <1>2, <1>3, <1>4 DEF HostInv

(* Steps of the FTL and of the collector, while a request is served or     *)
(* none is.                                                                *)
LEMMA EnvInv ==
  ASSUME HostInv, UNCHANGED buffer, UNCHANGED host, disk' = disk, err => err',
         err' # err => op = "write", op' = "write" => op = "write"
  PROVE  HostInv'
<1> USE DEF host
<1>1. BufInv' /\ Contents' = Contents
  BY StutterBuf, StutterContents DEF HostInv
<1>2. HostType'
  BY DEF HostInv, HostType, InPages, InFlush
<1>3. HostErr'
  BY DEF HostInv, HostErr
<1>4. HandedDown'
  BY DEF HostInv, HandedDown, WritingInFlush, PagesOf, buffer
<1>5. Served'
  <2> SUFFICES ASSUME ~err' PROVE Reads' /\ Writes' /\ Discards'
    BY DEF Served
  <2>1. Reads /\ Writes /\ Discards
    BY DEF HostInv, Served
  <2>2. \A l : Unbuffered(l)' <=> Unbuffered(l)
    BY DEF Unbuffered, buffer
  <2>3. Reads'
    BY <1>1, <2>1 DEF Reads, Unbuffered, buffer
  <2>4. Writes'
    BY <1>1, <2>1 DEF Writes, Untouched, Latest
  <2>5. Discards'
    BY <2>1 DEF Discards, Unbuffered, buffer
  <2> QED BY <2>3, <2>4, <2>5
<1> QED BY <1>1, <1>2, <1>3, <1>4, <1>5 DEF HostInv

LEMMA StutterInv == HostInv /\ UNCHANGED fbvars => HostInv'
<1> SUFFICES ASSUME HostInv, UNCHANGED fbvars PROVE HostInv'
  OBVIOUS
<1>1. UNCHANGED buffer /\ UNCHANGED host /\ UNCHANGED <<disk, err, op>>
  BY FtlUnchanged DEF fbvars
<1> QED BY <1>1, EnvInv

LEMMA FtlStepInv == FtlInv /\ HostInv /\ (FtlStep \/ Collector) => HostInv'
<1> SUFFICES ASSUME FtlInv, HostInv, FtlStep \/ Collector PROVE HostInv'
  OBVIOUS
<1>1. UNCHANGED buffer /\ UNCHANGED host
  BY DEF FtlStep, Collector
<1>2. TypeOK
  BY DEF FtlInv, IInv
<1>3. CASE FtlStep
  <2>1. /\ disk' = disk /\ (err => err') /\ (err' # err => op = "write")
        /\ (op' = "write" => op = "write")
    BY <1>2, <1>3, FtlEnv DEF FtlStep
  <2> QED BY <1>1, <2>1, EnvInv
<1>4. CASE Collector
  <2>1. UNCHANGED <<disk, err>> /\ op' = "bgc"
    BY <1>4 DEF Collector, trigger_bg_gc, env
  <2> QED BY <1>1, <2>1, EnvInv
<1> QED BY <1>3, <1>4

LEMMA HostNext == FtlInv /\ HostInv /\ [FbNext]_fbvars => HostInv'
BY MakeRequestInv, BuildInv, NoMemoryInv, ReadInv, InvalidateInv, DiscardInv, PutInv, FlushInv,
   ProgramInv, ProgrammedInv, EndInv, FtlStepInv, StutterInv DEF FbNext, RequestStep

LEMMA FtlKept == FtlInv /\ HostInv /\ [FbNext]_fbvars => FtlInv'
<1> SUFFICES ASSUME FtlInv, HostInv, [FbNext]_fbvars PROVE FtlInv'
  OBVIOUS
<1>1. CASE NoMemory
  BY <1>1, FtlRefuse DEF NoMemory
<1>2. CASE UNCHANGED vars
  BY <1>2, FtlNext
<1>3. CASE FtlStep
  BY <1>3, FtlNext DEF FtlStep, Next
<1>4. CASE Collector
  <2>1. trigger_bg_gc /\ pc = "idle"
    BY <1>4 DEF Collector, trigger_bg_gc
  <2> QED BY <2>1, FtlNext DEF Next, FreshVictim
<1>5. CASE fb_del_invalidate_pgs
  <2>1. At \in Lpa /\ Invalidate(At) /\ pc = "idle"
    BY <1>5, AtType DEF fb_del_invalidate_pgs, HostInv, InPages, Invalidate
  <2> QED BY <2>1, FtlNext DEF Next, Request, FreshVictim
<1>6. CASE Program
  <2>1. \E l \in [Ofs -> Lpa], d \in [Ofs -> Data] : WriteStart(l, d)
    BY <1>6, ProgramStarts DEF HostInv
  <2>2. pc = "idle"
    BY <2>1 DEF WriteStart
  <2> QED BY <2>1, <2>2, FtlNext DEF Next, Request, FreshVictim
<1>7. CASE UNCHANGED fbvars
  BY <1>2, <1>7 DEF fbvars
<1>8. CASE \E r \in Bio : make_request(r)
  BY <1>2, <1>8 DEF make_request
<1>9. CASE fb_build_bio \/ make_read_request_page_mapping \/ DiscardBuffered \/ Put
  BY <1>2, <1>9 DEF fb_build_bio, make_read_request_page_mapping, DiscardBuffered, Put
<1>10. CASE Flush \/ Programmed \/ Finish \/ FailRequest
  BY <1>2, <1>10 DEF Flush, Programmed, Finish, FailRequest
<1> QED BY <1>1, <1>3, <1>4, <1>5, <1>6, <1>7, <1>8, <1>9, <1>10 DEF FbNext, RequestStep

LEMMA InitFb == FbInit => FtlInv /\ HostInv
<1> SUFFICES ASSUME FbInit PROVE FtlInv /\ HostInv
  OBVIOUS
<1>1. FtlInv
  BY InitType, InitCore, InitKept, InitFull, InitData DEF FbInit, FtlInv, IInv
<1>2. BufInv
  BY InitBuf DEF FbInit
<1>3. hpc = "idle" /\ req = NoRequest /\ n = 1 /\ writing = <<>> /\ op = "none"
  BY DEF FbInit, fb_create_write_buffer, Init, InitCall
<1>4. HostType /\ HostErr /\ HandedDown
  BY <1>3 DEF HostType, HostErr, HandedDown, WritingInFlush, InPages, InFlush
<1>5. Served
  BY <1>3 DEF Served, Reads, Writes, Discards, InFlush
<1> QED BY <1>1, <1>2, <1>4, <1>5 DEF HostInv

LEMMA Serving == FbSpec => [](FtlInv /\ HostInv)
<1>1. (FtlInv /\ HostInv) /\ [FbNext]_fbvars => (FtlInv /\ HostInv)'
  BY HostNext, FtlKept
<1> QED BY <1>1, InitFb, PTL DEF FbSpec

(* Lists, flags, counter and hash table of the write buffer                *)
(* (write_buffer.c:183-253) agree after any sequence of requests: no page  *)
(* is lost or on two lists, and no LPA is buffered twice.                  *)
THEOREM BufferConsistent == FbSpec => []WbInv
<1>1. HostInv => WbInv
  BY BufConsistent DEF HostInv
<1> QED BY <1>1, Serving, PTL

(* fb_put_pg and fb_rm_buf_pg never meet a page that is being written, the *)
(* case they provide for at write_buffer.c:218 and 245, unless the disk    *)
(* has failed.                                                             *)
THEOREM WritesDrained == FbSpec => []WritingInFlush
<1>1. HostInv => WritingInFlush
  BY DEF HostInv, HandedDown
<1> QED BY <1>1, Serving, PTL

----------------------------------------------------------------------------
(* To the host, all of it is one disk.                                     *)

LEMMA MaxExists ==
  ASSUME NEW N \in Nat, NEW S \in SUBSET (1 .. N), S # {}
  PROVE  \E x \in S : \A y \in S : y <= x
<1> DEFINE T == {N - x : x \in S}
<1>1. T \in SUBSET Nat /\ T # {}
  <2>1. \A x \in S : N - x \in Nat
    OBVIOUS
  <2>2. PICK x \in S : TRUE
    OBVIOUS
  <2>3. N - x \in T
    OBVIOUS
  <2> QED BY <2>1, <2>3
<1>2. PICK m \in T : \A k \in T : m <= k
  BY <1>1, MinExists
<1>3. PICK x \in S : m = N - x
  BY <1>2
<1>4. ASSUME NEW y \in S PROVE y <= x
  <2>1. N - x <= N - y
    BY <1>2, <1>3
  <2>2. x \in Int /\ y \in Int
    OBVIOUS
  <2> QED BY <2>1, <2>2
<1> QED BY <1>4

(* What a write or a discard leaves, content by content.                   *)
LEMMA Overwritten ==
  ASSUME HostInv, hpc = "finish", ~err, req.kind \in {"write", "discard"}
  PROVE  Contents = Disk!Overwrite(req)
<1> DEFINE at(l) == {x \in DOMAIN req.lpas : req.lpas[x] = l}
           last(l) == CHOOSE x \in at(l) : \A y \in at(l) : y <= x
<1>1. Untouched /\ Latest(Len(req.lpas) + 1)
  BY DEF HostInv, Served, Writes
<1>2. req \in Bio /\ Len(req.lpas) \in Nat /\ DOMAIN req.lpas = 1 .. Len(req.lpas)
  BY Requests DEF HostInv, HostType
<1>3. ASSUME NEW l \in Lpa
      PROVE  Contents[l] = IF at(l) = {} THEN before[l] ELSE req.datas[last(l)]
  <2>1. CASE at(l) = {}
    <3>1. \A x \in DOMAIN req.lpas : req.lpas[x] # l
      BY <2>1
    <3> QED BY <1>1, <2>1, <3>1 DEF Untouched
  <2>2. CASE at(l) # {}
    <3>1. at(l) \in SUBSET (1 .. Len(req.lpas))
      BY <1>2
    <3> HIDE DEF at
    <3>2. \E x \in at(l) : \A y \in at(l) : y <= x
      BY <1>2, <2>2, <3>1, MaxExists
    <3>3. last(l) \in at(l) /\ \A y \in at(l) : y <= last(l)
      BY <3>2
    <3> HIDE DEF last
    <3>4. /\ last(l) \in DOMAIN req.lpas /\ req.lpas[last(l)] = l
          /\ \A y \in DOMAIN req.lpas : req.lpas[y] = l => y <= last(l)
      BY <3>3 DEF at
    <3>5. last(l) < Len(req.lpas) + 1
      BY <1>2, <3>4
    <3>6. \A y \in DOMAIN req.lpas : last(l) < y => req.lpas[y] # req.lpas[last(l)]
      BY <1>2, <3>4
    <3>7. Contents[req.lpas[last(l)]] = req.datas[last(l)]
      BY <1>1, <3>4, <3>5, <3>6 DEF Latest
    <3> QED BY <2>2, <3>4, <3>7
  <2> QED BY <2>1, <2>2
<1>4. Disk!Overwrite(req) = [l \in Lpa |-> IF at(l) = {} THEN before[l] ELSE req.datas[last(l)]]
  <2> DEFINE shown == IF hpc = "idle" /\ ~err THEN Contents ELSE before
  <2>1. Disk!Overwrite(req) = [l \in Lpa |-> IF at(l) = {} THEN shown[l] ELSE req.datas[last(l)]]
    BY Zenon DEF Disk!Overwrite
  <2>2. shown = before
    OBVIOUS
  <2> HIDE DEF shown, at, last
  <2> QED BY <2>1, <2>2, Zenon
<1> HIDE DEF at, last
<1> QED BY <1>3, <1>4, ContentsDomain

(* What a request that is over has done to the disk.                       *)
LEMMA FinishServes == HostInv /\ Finish => Disk!Next
<1> SUFFICES ASSUME HostInv, Finish PROVE Disk!Next
  OBVIOUS
<1>1. /\ hpc = "finish" /\ hpc' = "idle" /\ req' = NoRequest /\ before' = before
      /\ ans' = IF req.kind = "read" THEN got ELSE <<"ok">>
      /\ UNCHANGED <<disk, err>> /\ UNCHANGED buffer
  BY FtlUnchanged DEF Finish, Ended
<1>2. Contents' = Contents
  BY <1>1, StutterContents
<1>3. req \in Bio /\ req # NoRequest /\ req.kind \in {"read", "write", "discard", "flush"}
  BY <1>1, Requests DEF HostInv, HostType
<1>4. ~err
  BY <1>1 DEF HostInv, HostErr
<1> DEFINE shown == IF hpc = "idle" /\ ~err THEN Contents ELSE before
<1>5. shown = before /\ shown' = Contents
  BY <1>1, <1>2, <1>4
<1>6. Disk!Serve
  <2>1. CASE req.kind = "read"
    <3>1. got = [x \in DOMAIN req.lpas |-> got[x]]
          /\ \A x \in DOMAIN req.lpas : got[x] = before[req.lpas[x]]
      BY <1>1, <1>4, <2>1 DEF HostInv, Served, Reads
    <3>2. ans' = [x \in DOMAIN req.lpas |-> before[req.lpas[x]]]
      BY <1>1, <2>1, <3>1
    <3>3. Contents = before
      BY <1>1, <1>4, <2>1 DEF HostInv, Served, Reads
    <3>4. shown' = shown /\ ans' = [x \in DOMAIN req.lpas |-> shown[req.lpas[x]]]
      BY <1>5, <3>2, <3>3
    <3> HIDE DEF shown
    <3>5. req # NoRequest /\ ~err /\ req' = NoRequest /\ err' = err
      BY <1>1, <1>3, <1>4
    <3> QED BY <2>1, <3>4, <3>5 DEF Disk!Serve, shown
  <2>2. CASE req.kind \in {"write", "discard"}
    <3>1. Contents = Disk!Overwrite(req)
      BY <1>1, <1>4, <2>2, Overwritten
    <3>2. shown' = Disk!Overwrite(req) /\ ans' = <<"ok">>
      BY <1>1, <1>5, <2>2, <3>1
    <3>3. req # NoRequest /\ ~err /\ req' = NoRequest /\ err' = err
      BY <1>1, <1>3, <1>4
    <3> QED BY <2>2, <3>2, <3>3 DEF Disk!Serve, shown
  <2>3. CASE req.kind = "flush"
    <3>1. Contents = before
      BY <1>1, <1>4, <2>3 DEF HostInv, Served, Reads
    <3>2. shown' = shown /\ ans' = <<"ok">>
      BY <1>1, <1>5, <2>3, <3>1
    <3>3. req # NoRequest /\ ~err /\ req' = NoRequest /\ err' = err
      BY <1>1, <1>3, <1>4
    <3> QED BY <2>3, <3>2, <3>3 DEF Disk!Serve, shown
  <2> QED BY <1>3, <2>1, <2>2, <2>3
<1> QED BY <1>6 DEF Disk!Next

LEMMA OthersServe ==
  ASSUME FtlInv, HostInv, NoMemory \/ FailRequest \/ \E r \in Bio : make_request(r)
  PROVE  Disk!Next
<1>1. CASE NoMemory
  <2>1. /\ hpc = "no_memory" /\ hpc' = "idle" /\ req' = NoRequest /\ before' = before
        /\ ans' = <<"error">> /\ err' = TRUE
    BY <1>1 DEF NoMemory, Ended
  <2>2. ~err /\ req \in Bio /\ req.kind \in {"read", "write"} /\ req # NoRequest
    BY <2>1, Requests DEF HostInv, HostErr, HostType
  <2>3. Disk!Refuse
    BY <2>1, <2>2 DEF Disk!Refuse
  <2> QED BY <2>3 DEF Disk!Next
<1>2. CASE FailRequest
  <2>1. /\ hpc = "fail" /\ hpc' = "idle" /\ req' = NoRequest /\ before' = before
        /\ ans' = IF req.kind = "read" THEN [x \in DOMAIN req.lpas |-> Unmapped] ELSE <<"ok">>
        /\ err' = err
    BY <1>2, FtlUnchanged DEF FailRequest, Ended
  <2>2. err /\ req \in Bio /\ req # NoRequest
    BY <2>1, Requests DEF HostInv, HostErr, HostType
  <2>3. Disk!Ignore
    BY <2>1, <2>2 DEF Disk!Ignore
  <2> QED BY <2>3 DEF Disk!Next
<1>3. ASSUME NEW r \in Bio, make_request(r) PROVE Disk!Next
  <2>1. /\ hpc = "idle" /\ req = NoRequest /\ req' = r /\ ans' = <<>> /\ err' = err
        /\ \/ err /\ before' = before
           \/ ~err /\ before' = Contents
        /\ hpc' # "idle"
    BY <1>3, FtlUnchanged DEF make_request, HostInv, HostType
  <2>2. (IF hpc = "idle" /\ ~err THEN Contents ELSE before)'
          = (IF hpc = "idle" /\ ~err THEN Contents ELSE before)
    BY <2>1
  <2>3. Disk!Submit(r)
    BY <2>1, <2>2 DEF Disk!Submit
  <2> QED BY <2>3 DEF Disk!Next
<1> QED BY <1>1, <1>2, <1>3

(* A step of the FTL below a request, or between requests.                 *)
LEMMA FtlServes == FtlInv /\ HostInv /\ (FtlStep \/ Collector) => [Disk!Next]_Disk!vars
<1> SUFFICES ASSUME FtlInv, HostInv, FtlStep \/ Collector PROVE [Disk!Next]_Disk!vars
  OBVIOUS
<1>1. UNCHANGED buffer /\ UNCHANGED host
  BY DEF FtlStep, Collector
<1>2. disk' = disk /\ (err => err') /\ (err' # err => op = "write" /\ err' = TRUE)
  <2>1. CASE FtlStep
    BY <2>1, FtlEnv DEF FtlStep, FtlInv, IInv
  <2>2. CASE Collector
    BY <2>2 DEF Collector, trigger_bg_gc, env
  <2> QED BY <2>1, <2>2
<1>3. Contents' = Contents
  BY <1>1, <1>2, StutterContents
<1>4. CASE err' = err
  <2>1. UNCHANGED Disk!vars
    BY <1>1, <1>3, <1>4 DEF Disk!vars, host
  <2> QED BY <2>1
<1>5. CASE err' # err
  <2>1. op = "write" /\ err' = TRUE /\ hpc = "wait" /\ ~err
    BY <1>2, <1>5 DEF HostInv, HostErr
  <2>2. req \in Bio /\ req.kind = "write" /\ req # NoRequest
    BY <2>1, Requests DEF HostInv, HostType, InFlush
  <2>3. Disk!Break
    BY <1>1, <2>1, <2>2 DEF Disk!Break, host
  <2> QED BY <2>3 DEF Disk!Next
<1> QED BY <1>4, <1>5

(* A step within a request.                                                *)
LEMMA InnerServes ==
  ASSUME HostInv, HostInv', fb_build_bio \/ make_read_request_page_mapping \/ fb_del_invalidate_pgs
                  \/ DiscardBuffered \/ Put \/ Flush \/ Program \/ Programmed
  PROVE  UNCHANGED Disk!vars
<1>1. /\ hpc # "idle" /\ UNCHANGED <<req, ans, before>> /\ err' = err
  <2>1. CASE fb_build_bio \/ make_read_request_page_mapping \/ DiscardBuffered \/ Put
    BY <2>1, FtlUnchanged DEF fb_build_bio, make_read_request_page_mapping, DiscardBuffered, Put
  <2>2. CASE fb_del_invalidate_pgs \/ Program
    BY <2>2 DEF fb_del_invalidate_pgs, Invalidate, Program, WriteStart
  <2>3. CASE Flush \/ Programmed
    BY <2>3, FtlUnchanged DEF Flush, Programmed
  <2> QED BY <2>1, <2>2, <2>3
<1>2. hpc' # "idle"
  <2>1. req \in Bio /\ req # NoRequest
    BY <1>1, Requests DEF HostInv, HostType
  <2> QED BY <1>1, <2>1 DEF HostInv, HostType
<1> QED BY <1>1, <1>2 DEF Disk!vars

LEMMA InitDisk == FbInit => Disk!Init
<1> SUFFICES ASSUME FbInit PROVE Disk!Init
  OBVIOUS
<1>1. hash = {} /\ disk = [l \in Lpa |-> Unmapped] /\ before = [l \in Lpa |-> Unmapped]
      /\ err \in BOOLEAN /\ req = NoRequest /\ ans = <<>>
  BY DEF FbInit, fb_create_write_buffer, Init, InitEnv
<1>2. Contents = [l \in Lpa |-> Unmapped]
  <2>1. \A l \in Lpa : ~Buffered(l)
    BY <1>1 DEF Buffered, fb_wb_get_buf_pg
  <2> QED BY <1>1, <2>1 DEF Contents
<1> QED BY <1>1, <1>2 DEF Disk!Init

LEMMA DiskStep == FtlInv /\ HostInv /\ [FbNext]_fbvars => [Disk!Next]_Disk!vars
<1> SUFFICES ASSUME FtlInv, HostInv, [FbNext]_fbvars PROVE [Disk!Next]_Disk!vars
  OBVIOUS
<1>1. HostInv'
  BY HostNext
<1>2. CASE UNCHANGED fbvars
  <2>1. Contents' = Contents /\ UNCHANGED <<hpc, err, req, ans, before>>
    BY <1>2, StutterContents, FtlUnchanged DEF fbvars, host
  <2> QED BY <2>1 DEF Disk!vars
<1>3. CASE FtlStep \/ Collector
  BY <1>3, FtlServes
<1>4. CASE Finish
  BY <1>4, FinishServes
<1>5. CASE NoMemory \/ FailRequest \/ \E r \in Bio : make_request(r)
  BY <1>5, OthersServe
<1>6. CASE fb_build_bio \/ make_read_request_page_mapping \/ fb_del_invalidate_pgs
           \/ DiscardBuffered \/ Put \/ Flush \/ Program \/ Programmed
  BY <1>1, <1>6, InnerServes
<1> QED BY <1>2, <1>3, <1>4, <1>5, <1>6 DEF FbNext, RequestStep

(* make_request (main.c:42-149) with the write buffer, flushes and both    *)
(* collections below it is LogicalDisk, a disk that serves one request at  *)
(* a time: a read returns what was written last, whatever a collection     *)
(* moves meanwhile, a discarded page is never seen again, and only a       *)
(* failed page program or a lack of memory breaks it.                      *)
THEOREM ServesAsDisk == FbSpec => ActsAsDisk
<1>1. FbInit => Disk!Init
  BY InitDisk
<1>2. (FtlInv /\ HostInv) /\ [FbNext]_fbvars => [Disk!Next]_Disk!vars
  BY DiskStep
<1> QED BY <1>1, <1>2, Serving, PTL DEF FbSpec, ActsAsDisk, Disk!Spec
=============================================================================
