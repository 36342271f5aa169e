-------------------------- MODULE LifecycleProofs --------------------------
(***************************************************************************)
(* Start and stop, for every number of buses, chips, blocks and entries: a *)
(* running thread looks at nothing that was released, and nothing is left  *)
(* behind but what no destroy function knows.                              *)
(*                                                                         *)
(* First what FlattenSeq returns, then what fb_init acquires in which      *)
(* order and what the programs of fb_exit and of the labels of fb_init     *)
(* contain, then the invariant LInv: a thread that is not over has what it *)
(* needs, and what is still to be done ends it before it releases any of   *)
(* that.                                                                   *)
(***************************************************************************)
EXTENDS Lifecycle, TLAPS, SequenceTheorems, WellFoundedInduction

(* Where one is in a sequence, and that each place of x has e before it.    *)
Has(s, e) == \E k \in 1 .. Len(s) : s[k] = e
Guarded(s, x, e) ==
  \A k \in 1 .. Len(s) : s[k] = x => \E j \in 1 .. Len(s) : j < k /\ s[j] = e

LEMMA LeastExists ==
  ASSUME NEW S \in SUBSET Nat, S # {}
  PROVE  \E m \in S : \A n \in S : m <= n
<1>1. PICK m \in S : \A n \in S : ~(<<n, m>> \in OpToRel(<, Nat))
  BY NatLessThanWellFounded, WFMin, Zenon
<1>2. \A n \in S : ~(n < m)
  BY <1>1 DEF OpToRel
<1> QED BY <1>2

LEMMA HasConcat ==
  ASSUME NEW S, NEW s \in Seq(S), NEW t \in Seq(S), NEW e
  PROVE  /\ s \o t \in Seq(S)
         /\ Has(s \o t, e) <=> Has(s, e) \/ Has(t, e)
<1>1. /\ s \o t \in Seq(S) /\ Len(s \o t) = Len(s) + Len(t)
      /\ \A k \in 1 .. Len(s) + Len(t) : (s \o t)[k] = IF k <= Len(s) THEN s[k] ELSE t[k - Len(s)]
      /\ Len(s) \in Nat /\ Len(t) \in Nat
  BY ConcatProperties
<1>2. \A k \in 1 .. Len(s) : (s \o t)[k] = s[k] /\ k \in 1 .. Len(s) + Len(t)
  BY <1>1
<1>3. \A k \in 1 .. Len(t) : (s \o t)[k + Len(s)] = t[k] /\ k + Len(s) \in 1 .. Len(s) + Len(t)
  BY <1>1
<1>4. \A k \in 1 .. Len(s) + Len(t) : k \in 1 .. Len(s) \/ k - Len(s) \in 1 .. Len(t)
  BY <1>1
<1>5. ASSUME Has(s \o t, e) PROVE Has(s, e) \/ Has(t, e)
  <2>1. PICK k \in 1 .. Len(s) + Len(t) : (s \o t)[k] = e
    BY <1>1, <1>5 DEF Has
  <2> QED BY <1>1, <1>2, <1>4, <2>1 DEF Has
<1>6. ASSUME Has(s, e) \/ Has(t, e) PROVE Has(s \o t, e)
  BY <1>1, <1>2, <1>3, <1>6 DEF Has
<1> QED BY <1>1, <1>5, <1>6

LEMMA GuardedConcat ==
  ASSUME NEW S, NEW s \in Seq(S), NEW t \in Seq(S), NEW x, NEW e, Guarded(s, x, e),
         Has(s, e) \/ Guarded(t, x, e)
  PROVE  Guarded(s \o t, x, e)
<1>1. /\ s \o t \in Seq(S) /\ Len(s \o t) = Len(s) + Len(t)
      /\ \A k \in 1 .. Len(s) + Len(t) : (s \o t)[k] = IF k <= Len(s) THEN s[k] ELSE t[k - Len(s)]
      /\ Len(s) \in Nat /\ Len(t) \in Nat
  BY ConcatProperties
<1>2. \A k \in 1 .. Len(s) : (s \o t)[k] = s[k] /\ k \in 1 .. Len(s) + Len(t)
  BY <1>1
<1>3. \A k \in 1 .. Len(t) : (s \o t)[k + Len(s)] = t[k] /\ k + Len(s) \in 1 .. Len(s) + Len(t)
  BY <1>1
<1>4. SUFFICES ASSUME NEW k \in 1 .. Len(s) + Len(t), (s \o t)[k] = x
               PROVE  \E j \in 1 .. Len(s) + Len(t) : j < k /\ (s \o t)[j] = e
  BY <1>1 DEF Guarded
<1>5. CASE k <= Len(s)
  <2>1. k \in 1 .. Len(s) /\ s[k] = x
    BY <1>1, <1>2, <1>4, <1>5
  <2>2. PICK j \in 1 .. Len(s) : j < k /\ s[j] = e
    BY <2>1 DEF Guarded
  <2> QED BY <1>2, <2>2
<1>6. CASE ~(k <= Len(s))
  <2>1. k - Len(s) \in 1 .. Len(t) /\ t[k - Len(s)] = x
    BY <1>1, <1>4, <1>6
  <2>2. CASE Has(s, e)
    <3>1. PICK j \in 1 .. Len(s) : s[j] = e
      BY <2>2 DEF Has
    <3> QED BY <1>1, <1>2, <1>6, <3>1
  <2>3. CASE Guarded(t, x, e)
    <3>1. PICK j \in 1 .. Len(t) : j < k - Len(s) /\ t[j] = e
      BY <2>1, <2>3 DEF Guarded
    <3>2. j + Len(s) < k
      BY <1>1, <3>1
    <3> QED BY <1>3, <3>1, <3>2
  <2> QED BY <2>2, <2>3
<1> QED BY <1>5, <1>6

(* FlattenSeq appends one sequence after the other.                        *)
LEMMA FlattenSteps ==
  ASSUME NEW S, NEW n \in Nat \ {0}, NEW ss \in [1 .. n -> Seq(S)]
  PROVE  \E f : /\ f[1] = ss[1]
                /\ \A m \in 2 .. n : f[m] = f[m - 1] \o ss[m]
                /\ FlattenSeq(ss) = f[n]
<1> DEFINE P(m) == \E f : f = [x \in 1 .. m |-> IF x = 1 THEN ss[x] ELSE f[x - 1] \o ss[x]]
<1>1. \A m \in Nat : P(m)
  <2> DEFINE Bad == {m \in Nat : ~P(m)}
  <2>1. SUFFICES ASSUME Bad # {} PROVE FALSE
    OBVIOUS
  <2>2. PICK m \in Bad : \A k \in Bad : m <= k
    BY <2>1, LeastExists
  <2>3. m # 0
    <3> DEFINE f == [x \in 1 .. 0 |-> x]
    <3>1. f = [x \in 1 .. 0 |-> IF x = 1 THEN ss[x] ELSE f[x - 1] \o ss[x]]
      OBVIOUS
    <3>2. P(0)
      BY <3>1
    <3> QED BY <3>2
  <2>4. m - 1 \in Nat /\ ~(m <= m - 1)
    BY <2>2, <2>3
  <2>5. P(m - 1)
    BY <2>2, <2>4
  <2>6. PICK f : f = [x \in 1 .. m - 1 |-> IF x = 1 THEN ss[x] ELSE f[x - 1] \o ss[x]]
    BY <2>5
  <2> DEFINE g == [x \in 1 .. m |-> IF x = 1 THEN ss[x] ELSE f[x - 1] \o ss[x]]
  <2>7. \A x \in 1 .. m - 1 : g[x] = f[x]
    <3>1. \A x \in 1 .. m - 1 : x \in 1 .. m
      BY <2>4
    <3> QED BY <2>6, <3>1
  <2>8. \A x \in 1 .. m : x = 1 \/ x - 1 \in 1 .. m - 1
    BY <2>4
  <2>9. g = [x \in 1 .. m |-> IF x = 1 THEN ss[x] ELSE g[x - 1] \o ss[x]]
    <3>1. \A x \in 1 .. m : x # 1 => g[x - 1] = f[x - 1]
      BY <2>7, <2>8
    <3>2. \A x \in 1 .. m : (IF x = 1 THEN ss[x] ELSE f[x - 1] \o ss[x])
                             = (IF x = 1 THEN ss[x] ELSE g[x - 1] \o ss[x])
      BY <3>1, Zenon
    <3>3. [x \in 1 .. m |-> IF x = 1 THEN ss[x] ELSE f[x - 1] \o ss[x]]
            = [x \in 1 .. m |-> IF x = 1 THEN ss[x] ELSE g[x - 1] \o ss[x]]
      BY <3>2, Zenon
    <3>4. g = [x \in 1 .. m |-> IF x = 1 THEN ss[x] ELSE f[x - 1] \o ss[x]]
      OBVIOUS
    <3> HIDE DEF g
    <3> QED BY <3>3, <3>4, Zenon
  <2>10. P(m)
    BY <2>9
  <2> QED BY <2>2, <2>10
<1> DEFINE F == CHOOSE f : f = [x \in 1 .. Len(ss) |-> IF x = 1 THEN ss[x] ELSE f[x - 1] \o ss[x]]
<1>2. Len(ss) = n
  BY SMT
<1>3. F = [x \in 1 .. n |-> IF x = 1 THEN ss[x] ELSE F[x - 1] \o ss[x]]
  BY <1>1, <1>2, Zenon
<1>4. FlattenSeq(ss) = F[n]
  BY <1>2, Zenon DEF FlattenSeq
<1> HIDE DEF F
<1>5. \A x \in 1 .. n : F[x] = IF x = 1 THEN ss[x] ELSE F[x - 1] \o ss[x]
  BY <1>3, Zenon
<1>6. 1 \in 1 .. n /\ \A m \in 2 .. n : m \in 1 .. n /\ m # 1
  OBVIOUS
<1>7. F[1] = ss[1] /\ \A m \in 2 .. n : F[m] = F[m - 1] \o ss[m]
  BY <1>5, <1>6, Zenon
<1> QED BY <1>4, <1>7, Zenon

LEMMA Flatten ==
  ASSUME NEW S, NEW n \in Nat, NEW ss \in [1 .. n -> Seq(S)]
  PROVE  /\ FlattenSeq(ss) \in Seq(S)
         /\ \A e : Has(FlattenSeq(ss), e) <=> \E x \in 1 .. n : Has(ss[x], e)
         /\ \A x, e : (\A k \in 1 .. n : Guarded(ss[k], x, e)) => Guarded(FlattenSeq(ss), x, e)
<1>1. CASE n = 0
  <2>8. ss \in Seq(Seq(S))
    BY SeqDef
  <2>1. Len(ss) = 0
    BY <1>1, SMT
  <2>7. ss = << >>
    BY <2>8, <2>1, EmptySeq
  <2>2. FlattenSeq(ss) = << >>
    BY <2>1, <2>7 DEF FlattenSeq
  <2>3. << >> \in Seq(S) /\ Len(<< >>) = 0
    OBVIOUS
  <2>4. \A k \in 1 .. Len(<< >>) : FALSE
    BY <2>3
  <2>5. (\A e : ~Has(<< >>, e)) /\ \A x, e : Guarded(<< >>, x, e)
    BY <2>4 DEF Has, Guarded
  <2>6. \A x \in 1 .. n : FALSE
    BY <1>1
  <2>9. \A e : ~Has(FlattenSeq(ss), e)
    BY <2>2, <2>5
  <2>10. \A e : ~\E x \in 1 .. n : Has(ss[x], e)
    BY <2>6, Zenon
  <2>11. FlattenSeq(ss) \in Seq(S) /\ \A x, e : Guarded(FlattenSeq(ss), x, e)
    BY <2>2, <2>3, <2>5
  <2> QED BY <2>9, <2>10, <2>11, Zenon
<1>2. CASE n # 0
  <2>0. n \in Nat \ {0}
    BY <1>2
  <2>1. PICK f : /\ f[1] = ss[1]
                 /\ \A m \in 2 .. n : f[m] = f[m - 1] \o ss[m]
                 /\ FlattenSeq(ss) = f[n]
    BY <2>0, FlattenSteps, Zenon
  <2> DEFINE P(m) ==
        /\ f[m] \in Seq(S)
        /\ \A e : Has(f[m], e) <=> \E x \in 1 .. m : Has(ss[x], e)
        /\ \A x, e : (\A k \in 1 .. m : Guarded(ss[k], x, e)) => Guarded(f[m], x, e)
  <2>2. \A m \in 1 .. n : P(m)
    <3> DEFINE Bad == {m \in 1 .. n : ~P(m)}
    <3>1. SUFFICES ASSUME Bad # {} PROVE FALSE
      OBVIOUS
    <3>2. PICK m \in Bad : \A k \in Bad : m <= k
      <4>1. Bad \in SUBSET Nat
        OBVIOUS
      <4> QED BY <3>1, <4>1, LeastExists
    <3>3. m # 1
      <4>1. \A x \in 1 .. 1 : x = 1
        OBVIOUS
      <4>2. ss[1] \in Seq(S) /\ 1 \in 1 .. 1
        BY <1>2
      <4>3. P(1)
        BY <2>1, <4>1, <4>2
      <4> QED BY <3>2, <4>3
    <3>4. m \in 2 .. n /\ m - 1 \in 1 .. n /\ ~(m <= m - 1)
      BY <3>2, <3>3
    <3>5. P(m - 1)
      BY <3>2, <3>4
    <3>6. f[m] = f[m - 1] \o ss[m] /\ f[m - 1] \in Seq(S) /\ ss[m] \in Seq(S)
      BY <2>1, <3>4, <3>5
    <3>7. \A x \in 1 .. m : x \in 1 .. m - 1 \/ x = m
      BY <3>4
    <3>8. (\A x \in 1 .. m - 1 : x \in 1 .. m) /\ m \in 1 .. m
      BY <3>4
    <3> HIDE DEF Bad
    <3>9. f[m] \in Seq(S)
      BY <3>6, HasConcat
    <3>10. ASSUME NEW e PROVE Has(f[m], e) <=> \E x \in 1 .. m : Has(ss[x], e)
      <4>1. Has(f[m], e) <=> Has(f[m - 1], e) \/ Has(ss[m], e)
        BY <3>6, HasConcat
      <4>2. Has(f[m - 1], e) <=> \E x \in 1 .. m - 1 : Has(ss[x], e)
        BY <3>5
      <4> QED BY <4>1, <4>2, <3>7, <3>8, Zenon
    <3>11. ASSUME NEW x, NEW e, \A k \in 1 .. m : Guarded(ss[k], x, e)
           PROVE  Guarded(f[m], x, e)
      <4>1. Guarded(f[m - 1], x, e) /\ Guarded(ss[m], x, e)
        BY <3>5, <3>8, <3>11
      <4> QED BY <3>6, <4>1, GuardedConcat
    <3> HIDE DEF P
    <3>12. P(m)
      BY <3>9, <3>10, <3>11 DEF P
    <3> QED BY <3>2, <3>12 DEF Bad
  <2>3. n \in 1 .. n
    BY <1>2
  <2>4. P(n)
    BY <2>2, <2>3
  <2> QED BY <2>1, <2>4
<1> QED BY <1>1, <1>2


----------------------------------------------------------------------------
(* What fb_init acquires, component by component.                          *)

BusChips == 1 .. NumChips
VObj ==
  {<<"vdevice", n>> : n \in {"vdevice", "controllers"}}
  \union {<<"vdevice", n, b>> : n \in {"vdisk", "controller", "ptr_opr_queue", "chip_busies"}, b \in Bus}
  \union {<<"vdevice", n, b, c>> : n \in {"opr_queue", "opr_list"}, b \in Bus, c \in BusChips}
BusThread == {<<"thread", b>> : b \in Bus}
SObj ==
  {<<"ssd_info", n>> : n \in {"ssd_info", "list_buses"}}
  \union {<<"ssd_info", "list_chips", b>> : b \in Bus}
  \union {<<"ssd_info", "list_blocks", b, c>> : b \in Bus, c \in BusChips}
  \union {<<"ssd_info", "list_pages", b, c, k>> : b \in Bus, c \in BusChips, k \in 1 .. NumBlocks}
FtlNames ==
  {"ftl", "mapping_table", "mappings", "abm", "act_blks", "delm", "btod", "wtod", "ppas",
   "delm_lpas_to_copy", "delm_data_to_copy", "gcm", "gc_blks", "vic_blks", "lpas_to_copy",
   "data_to_copy", "first_valid_pg", "lpas_to_discard"}
FObj == {<<"ftl", n>> : n \in FtlNames}
WObj ==
  {<<"wb", n>> : n \in {"wb", "pg_buf"}}
  \union {<<"wb", n, e>> : n \in {"entry", "data"}, e \in 1 .. NumEntries}

LEMMA EachSeq ==
  ASSUME NEW S, NEW n \in Nat, NEW ss \in [1 .. n -> Seq(S)]
  PROVE  FlattenSeq(ss) \in Seq(S)
BY Flatten

LEMMA Appended ==
  ASSUME NEW S, NEW s \in Seq(S), NEW t \in Seq(S)
  PROVE  s \o t \in Seq(S)
BY ConcatProperties

LEMMA OneSeq == ASSUME NEW S, NEW a \in S PROVE <<a>> \in Seq(S)
OBVIOUS
LEMMA TwoSeq == ASSUME NEW S, NEW a \in S, NEW b \in S PROVE <<a, b>> \in Seq(S)
OBVIOUS

LEMMA VParts ==
  /\ <<"vdevice", "vdevice">> \in VObj /\ <<"vdevice", "controllers">> \in VObj
  /\ \A b \in Bus : /\ <<"vdevice", "vdisk", b>> \in VObj /\ <<"vdevice", "controller", b>> \in VObj
                    /\ <<"vdevice", "ptr_opr_queue", b>> \in VObj
                    /\ <<"vdevice", "chip_busies", b>> \in VObj
  /\ \A b \in Bus, c \in BusChips : /\ <<"vdevice", "opr_queue", b, c>> \in VObj
                                    /\ <<"vdevice", "opr_list", b, c>> \in VObj
BY DEF VObj

LEMMA ControllerSeq == ASSUME NEW b \in Bus PROVE create_bus_controller(b) \in Seq(VObj)
<1>1. << <<"vdevice", "controller", b>>, <<"vdevice", "ptr_opr_queue", b>> >> \in Seq(VObj)
  BY VParts, TwoSeq
<1>2. << <<"vdevice", "chip_busies", b>> >> \in Seq(VObj)
  BY VParts, OneSeq
<1>3. Each(NumChips, LAMBDA c : create_opr_queue(b, c)) \in Seq(VObj)
  <2> DEFINE ss == [c \in 1 .. NumChips |-> create_opr_queue(b, c)]
  <2>1. \A c \in 1 .. NumChips : create_opr_queue(b, c) \in Seq(VObj)
    BY VParts, TwoSeq DEF create_opr_queue, BusChips
  <2>2. ss \in [1 .. NumChips -> Seq(VObj)] /\ NumChips \in Nat
    BY <2>1, LifecycleAssumption
  <2>3. FlattenSeq(ss) \in Seq(VObj)
    BY <2>2, EachSeq
  <2> QED BY <2>3 DEF Each
<1> QED BY <1>1, <1>2, <1>3, Appended DEF create_bus_controller

LEMMA BusThreads ==
  Each(NumBuses, LAMBDA b : << <<"thread", b>> >>) \in Seq(BusThread)
<1> DEFINE ss == [b \in 1 .. NumBuses |-> << <<"thread", b>> >>]
<1>1. \A b \in 1 .. NumBuses : << <<"thread", b>> >> \in Seq(BusThread)
  BY OneSeq DEF BusThread, Bus
<1>2. ss \in [1 .. NumBuses -> Seq(BusThread)] /\ NumBuses \in Nat
  BY <1>1, LifecycleAssumption
<1>3. FlattenSeq(ss) \in Seq(BusThread)
  BY <1>2, EachSeq
<1> QED BY <1>3 DEF Each

VdeviceHead ==
  (<< <<"vdevice", "vdevice">> >> \o Each(NumBuses, LAMBDA b : << <<"vdevice", "vdisk", b>> >>))
ControllersHead == << <<"vdevice", "controllers">> >> \o Each(NumBuses, create_bus_controller)

LEMMA VdeviceSeq ==
  /\ VdeviceHead \in Seq(VObj) /\ ControllersHead \in Seq(VObj)
  /\ create_vdevice
       = VdeviceHead \o (ControllersHead \o Each(NumBuses, LAMBDA b : << <<"thread", b>> >>))
<1>1. << <<"vdevice", "vdevice">> >> \in Seq(VObj) /\ << <<"vdevice", "controllers">> >> \in Seq(VObj)
  BY VParts, OneSeq
<1>2. Each(NumBuses, LAMBDA b : << <<"vdevice", "vdisk", b>> >>) \in Seq(VObj)
  <2> DEFINE ss == [b \in 1 .. NumBuses |-> << <<"vdevice", "vdisk", b>> >>]
  <2>1. \A b \in 1 .. NumBuses : << <<"vdevice", "vdisk", b>> >> \in Seq(VObj)
    BY VParts, OneSeq DEF Bus
  <2>2. ss \in [1 .. NumBuses -> Seq(VObj)] /\ NumBuses \in Nat
    BY <2>1, LifecycleAssumption
  <2>3. FlattenSeq(ss) \in Seq(VObj)
    BY <2>2, EachSeq
  <2> QED BY <2>3 DEF Each
<1>3. Each(NumBuses, create_bus_controller) \in Seq(VObj)
  <2> DEFINE ss == [b \in 1 .. NumBuses |-> create_bus_controller(b)]
  <2>1. \A b \in 1 .. NumBuses : create_bus_controller(b) \in Seq(VObj)
    BY ControllerSeq DEF Bus
  <2>2. ss \in [1 .. NumBuses -> Seq(VObj)] /\ NumBuses \in Nat
    BY <2>1, LifecycleAssumption
  <2>3. FlattenSeq(ss) \in Seq(VObj)
    BY <2>2, EachSeq
  <2> QED BY <2>3 DEF Each
<1>4. VdeviceHead \in Seq(VObj) /\ ControllersHead \in Seq(VObj)
  BY <1>1, <1>2, <1>3, Appended DEF VdeviceHead, ControllersHead
<1> QED BY <1>4 DEF create_vdevice, fb_bus_controller_init, VdeviceHead, ControllersHead

LEMMA SsdInfoSeq == create_ssd_info \in Seq(SObj)
<1>1. ASSUME NEW b \in Bus, NEW c \in BusChips
      PROVE  << <<"ssd_info", "list_blocks", b, c>> >>
               \o Each(NumBlocks, LAMBDA k : << <<"ssd_info", "list_pages", b, c, k>> >>) \in Seq(SObj)
  <2> DEFINE ss == [k \in 1 .. NumBlocks |-> << <<"ssd_info", "list_pages", b, c, k>> >>]
  <2>1. \A k \in 1 .. NumBlocks : <<"ssd_info", "list_pages", b, c, k>> \in SObj
    BY DEF SObj
  <2>2. \A k \in 1 .. NumBlocks : << <<"ssd_info", "list_pages", b, c, k>> >> \in Seq(SObj)
    BY <2>1, OneSeq
  <2>3. ss \in [1 .. NumBlocks -> Seq(SObj)] /\ NumBlocks \in Nat
    BY <2>2, LifecycleAssumption
  <2>4. FlattenSeq(ss) \in Seq(SObj)
    BY <2>3, EachSeq
  <2>5. << <<"ssd_info", "list_blocks", b, c>> >> \in Seq(SObj)
    <3>1. <<"ssd_info", "list_blocks", b, c>> \in SObj
      BY DEF SObj
    <3> QED BY <3>1, OneSeq
  <2> QED BY <2>4, <2>5, Appended DEF Each
<1>2. ASSUME NEW b \in Bus
      PROVE  << <<"ssd_info", "list_chips", b>> >>
               \o Each(NumChips, LAMBDA c : << <<"ssd_info", "list_blocks", b, c>> >>
                    \o Each(NumBlocks, LAMBDA k : << <<"ssd_info", "list_pages", b, c, k>> >>))
             \in Seq(SObj)
  <2> DEFINE ss == [c \in 1 .. NumChips |-> << <<"ssd_info", "list_blocks", b, c>> >>
                      \o Each(NumBlocks, LAMBDA k : << <<"ssd_info", "list_pages", b, c, k>> >>)]
  <2>1. ss \in [1 .. NumChips -> Seq(SObj)] /\ NumChips \in Nat
    BY <1>1, LifecycleAssumption DEF BusChips
  <2>2. FlattenSeq(ss) \in Seq(SObj)
    BY <2>1, EachSeq
  <2>3. << <<"ssd_info", "list_chips", b>> >> \in Seq(SObj)
    <3>1. <<"ssd_info", "list_chips", b>> \in SObj
      BY DEF SObj
    <3> QED BY <3>1, OneSeq
  <2> QED BY <2>2, <2>3, Appended DEF Each
<1>3. /\ Each(NumBuses, LAMBDA b : << <<"ssd_info", "list_chips", b>> >>
            \o Each(NumChips, LAMBDA c : << <<"ssd_info", "list_blocks", b, c>> >>
                 \o Each(NumBlocks, LAMBDA k : << <<"ssd_info", "list_pages", b, c, k>> >>)))
         \in Seq(SObj)
  <2> DEFINE ss == [b \in 1 .. NumBuses |-> << <<"ssd_info", "list_chips", b>> >>
            \o Each(NumChips, LAMBDA c : << <<"ssd_info", "list_blocks", b, c>> >>
                 \o Each(NumBlocks, LAMBDA k : << <<"ssd_info", "list_pages", b, c, k>> >>))]
  <2>1. ss \in [1 .. NumBuses -> Seq(SObj)] /\ NumBuses \in Nat
    BY <1>2, LifecycleAssumption DEF Bus
  <2>2. FlattenSeq(ss) \in Seq(SObj)
    BY <2>1, EachSeq
  <2> QED BY <2>2 DEF Each
<1>4. << <<"ssd_info", "ssd_info">>, <<"ssd_info", "list_buses">> >> \in Seq(SObj)
  <2>1. <<"ssd_info", "ssd_info">> \in SObj /\ <<"ssd_info", "list_buses">> \in SObj
    BY DEF SObj
  <2> QED BY <2>1, TwoSeq
<1> QED BY <1>3, <1>4, Appended DEF create_ssd_info

LEMMA ItemsSeq ==
  ASSUME NEW N, NEW names \in Seq(N), NEW comp
  PROVE  Items(comp, names) \in Seq({<<comp, x>> : x \in N})
<1>1. PICK n \in Nat : names \in [1 .. n -> N]
  BY SeqDef
<1>2. Items(comp, names) \in [1 .. n -> {<<comp, x>> : x \in N}]
  BY <1>1 DEF Items
<1> QED BY <1>2, SeqDef

LEMMA FtlSeq == create_pg_ftl \in Seq(FObj)
<1>1. ASSUME NEW names \in Seq(FtlNames) PROVE Items("ftl", names) \in Seq(FObj)
  BY ItemsSeq DEF FObj
<1>2. /\ <<"ftl">> \in Seq(FtlNames) /\ <<"lpas_to_discard">> \in Seq(FtlNames)
      /\ <<"mapping_table", "mappings">> \in Seq(FtlNames)
      /\ <<"abm", "act_blks">> \in Seq(FtlNames)
      /\ <<"delm", "btod", "wtod", "ppas", "delm_lpas_to_copy", "delm_data_to_copy">> \in Seq(FtlNames)
      /\ <<"gcm", "gc_blks", "vic_blks", "lpas_to_copy", "data_to_copy", "first_valid_pg">> \in Seq(FtlNames)
  BY DEF FtlNames
<1>3. /\ Items("ftl", <<"ftl">>) \in Seq(FObj) /\ Items("ftl", <<"lpas_to_discard">>) \in Seq(FObj)
      /\ create_page_mapping_table \in Seq(FObj) /\ create_act_blk_mngr \in Seq(FObj)
      /\ create_del_mngr \in Seq(FObj) /\ create_gc_mngr \in Seq(FObj)
  BY <1>1, <1>2 DEF create_page_mapping_table, create_act_blk_mngr, create_del_mngr, create_gc_mngr
<1> QED BY <1>3, Appended DEF create_pg_ftl

LEMMA WbSeq == fb_create_write_buffer \in Seq(WObj)
<1>1. Each(NumEntries, fb_create_wb_entry) \in Seq(WObj)
  <2> DEFINE ss == [e \in 1 .. NumEntries |-> fb_create_wb_entry(e)]
  <2>1. \A e \in 1 .. NumEntries : <<"wb", "entry", e>> \in WObj /\ <<"wb", "data", e>> \in WObj
    BY DEF WObj
  <2>2. ss \in [1 .. NumEntries -> Seq(WObj)] /\ NumEntries \in Nat
    BY <2>1, TwoSeq, LifecycleAssumption DEF fb_create_wb_entry
  <2>3. FlattenSeq(ss) \in Seq(WObj)
    BY <2>2, EachSeq
  <2> QED BY <2>3 DEF Each
<1>2. << <<"wb", "wb">> >> \in Seq(WObj) /\ << <<"wb", "pg_buf">> >> \in Seq(WObj)
  <2>1. <<"wb", "wb">> \in WObj /\ <<"wb", "pg_buf">> \in WObj
    BY DEF WObj
  <2> QED BY <2>1, OneSeq
<1> QED BY <1>1, <1>2, Appended DEF fb_create_write_buffer

----------------------------------------------------------------------------
(* The order of fb_init: component after component, the threads of the     *)
(* buses with the virtual device, that of the write buffer last.           *)

Kernel(comp, name) == {<<comp, name>>}
AllObj ==
  Kernel("proc", "flashbench") \union Kernel("fb", "fb") \union VObj \union BusThread
  \union SObj \union FObj \union Kernel("queue", "req_queue") \union Kernel("blkdev", "major")
  \union Kernel("gd", "gd") \union WObj \union Kernel("thread", Wb)

Rank(o) ==
  CASE o[1] = "proc" -> 0
    [] o[1] = "fb" -> 1
    [] o[1] = "vdevice" -> 2
    [] o[1] = "thread" /\ o[2] # Wb -> 3
    [] o[1] = "ssd_info" -> 4
    [] o[1] = "ftl" -> 5
    [] o[1] = "queue" -> 6
    [] o[1] = "blkdev" -> 7
    [] o[1] = "gd" -> 8
    [] o[1] = "wb" -> 9
    [] o[1] = "thread" /\ o[2] = Wb -> 10

Ranked(s, lo, hi) ==
  /\ \A k \in 1 .. Len(s) : Rank(s[k]) \in lo .. hi
  /\ \A k, l \in 1 .. Len(s) : k < l => Rank(s[k]) <= Rank(s[l])

LEMMA Ranks ==
  /\ \A o \in Kernel("proc", "flashbench") : o[1] = "proc" /\ Rank(o) = 0
  /\ \A o \in Kernel("fb", "fb") : o[1] = "fb" /\ Rank(o) = 1
  /\ \A o \in VObj : o[1] = "vdevice" /\ Rank(o) = 2
  /\ \A o \in BusThread : o[1] = "thread" /\ o[2] \in Bus /\ Rank(o) = 3
  /\ \A o \in SObj : o[1] = "ssd_info" /\ Rank(o) = 4
  /\ \A o \in FObj : o[1] = "ftl" /\ Rank(o) = 5
  /\ \A o \in Kernel("queue", "req_queue") : o[1] = "queue" /\ Rank(o) = 6
  /\ \A o \in Kernel("blkdev", "major") : o[1] = "blkdev" /\ Rank(o) = 7
  /\ \A o \in Kernel("gd", "gd") : o[1] = "gd" /\ Rank(o) = 8
  /\ \A o \in WObj : o[1] = "wb" /\ Rank(o) = 9
  /\ \A o \in Kernel("thread", Wb) : o[1] = "thread" /\ o[2] = Wb /\ Rank(o) = 10
<1>1. /\ \A o \in VObj : o[1] = "vdevice"
      /\ \A o \in SObj : o[1] = "ssd_info"
      /\ \A o \in WObj : o[1] = "wb"
  BY DEF VObj, SObj, WObj
<1>2. /\ \A o \in FObj : o[1] = "ftl"
      /\ \A o \in BusThread : o[1] = "thread" /\ o[2] \in Bus /\ o[2] # Wb
  BY LifecycleAssumption DEF FObj, BusThread, Bus, Wb
<1>3. \A o \in VObj : Rank(o) = 2
  BY <1>1 DEF Rank
<1>4. \A o \in BusThread : Rank(o) = 3
  BY <1>2 DEF Rank
<1>5. \A o \in SObj : Rank(o) = 4
  BY <1>1 DEF Rank
<1>6. \A o \in FObj : Rank(o) = 5
  BY <1>2 DEF Rank
<1>7. \A o \in WObj : Rank(o) = 9
  BY <1>1 DEF Rank
<1>8. /\ Rank(<<"proc", "flashbench">>) = 0 /\ Rank(<<"fb", "fb">>) = 1
      /\ Rank(<<"queue", "req_queue">>) = 6 /\ Rank(<<"blkdev", "major">>) = 7
      /\ Rank(<<"gd", "gd">>) = 8 /\ Rank(<<"thread", Wb>>) = 10
  BY DEF Rank
<1> QED BY <1>1, <1>2, <1>3, <1>4, <1>5, <1>6, <1>7, <1>8 DEF Kernel

LEMMA RankedConst ==
  ASSUME NEW S, NEW s \in Seq(S), NEW r \in Nat, \A o \in S : Rank(o) = r
  PROVE  Ranked(s, r, r)
<1>1. \A k \in 1 .. Len(s) : Rank(s[k]) = r
  BY ElementOfSeq
<1> QED BY <1>1 DEF Ranked

LEMMA RankedConcat ==
  ASSUME NEW S, NEW s \in Seq(S), NEW t \in Seq(S),
         NEW a \in Nat, NEW b \in Nat, NEW c \in Nat, NEW d \in Nat, a <= b, b <= c, c <= d,
         Ranked(s, a, b), Ranked(t, c, d)
  PROVE  Ranked(s \o t, a, d)
<1>1. /\ s \o t \in Seq(S) /\ Len(s \o t) = Len(s) + Len(t)
      /\ \A k \in 1 .. Len(s) + Len(t) : (s \o t)[k] = IF k <= Len(s) THEN s[k] ELSE t[k - Len(s)]
      /\ Len(s) \in Nat /\ Len(t) \in Nat
  BY ConcatProperties
<1>2. \A k \in 1 .. Len(s) + Len(t) :
        \/ k \in 1 .. Len(s) /\ (s \o t)[k] = s[k]
        \/ ~(k <= Len(s)) /\ k - Len(s) \in 1 .. Len(t) /\ (s \o t)[k] = t[k - Len(s)]
  BY <1>1
<1>3. \A k \in 1 .. Len(s) + Len(t) : Rank((s \o t)[k]) \in a .. d
  BY <1>2 DEF Ranked
<1>4. ASSUME NEW k \in 1 .. Len(s) + Len(t), NEW l \in 1 .. Len(s) + Len(t), k < l
      PROVE  Rank((s \o t)[k]) <= Rank((s \o t)[l])
  <2>1. CASE l \in 1 .. Len(s) /\ (s \o t)[l] = s[l]
    <3>1. k \in 1 .. Len(s) /\ (s \o t)[k] = s[k]
      BY <1>1, <1>4, <2>1
    <3> QED BY <1>4, <2>1, <3>1 DEF Ranked
  <2>2. CASE ~(l <= Len(s)) /\ l - Len(s) \in 1 .. Len(t) /\ (s \o t)[l] = t[l - Len(s)]
    <3>1. CASE k \in 1 .. Len(s) /\ (s \o t)[k] = s[k]
      <4>1. Rank((s \o t)[k]) \in a .. b /\ Rank((s \o t)[l]) \in c .. d
        BY <2>2, <3>1 DEF Ranked
      <4> QED BY <4>1
    <3>2. CASE ~(k <= Len(s)) /\ k - Len(s) \in 1 .. Len(t) /\ (s \o t)[k] = t[k - Len(s)]
      <4>1. k - Len(s) < l - Len(s)
        BY <1>1, <1>4
      <4> QED BY <2>2, <3>2, <4>1 DEF Ranked
    <3> QED BY <1>2, <3>1, <3>2
  <2> QED BY <1>2, <2>1, <2>2
<1> QED BY <1>1, <1>3, <1>4 DEF Ranked

InOrder(s, lo, hi) == s \in Seq(AllObj) /\ Ranked(s, lo, hi)

LEMMA InOrderConst ==
  ASSUME NEW S, S \subseteq AllObj, NEW s \in Seq(S), NEW r \in Nat, \A o \in S : Rank(o) = r
  PROVE  InOrder(s, r, r)
<1>1. s \in Seq(AllObj)
  BY SeqMonotonic
<1>2. Ranked(s, r, r)
  BY RankedConst
<1> QED BY <1>1, <1>2 DEF InOrder

LEMMA InOrderConcat ==
  ASSUME NEW s, NEW t, NEW a \in Nat, NEW b \in Nat, NEW c \in Nat, NEW d \in Nat,
         a <= b, b <= c, c <= d, InOrder(s, a, b), InOrder(t, c, d)
  PROVE  InOrder(s \o t, a, d)
<1>1. s \in Seq(AllObj) /\ t \in Seq(AllObj) /\ Ranked(s, a, b) /\ Ranked(t, c, d)
  BY DEF InOrder
<1>2. s \o t \in Seq(AllObj)
  BY <1>1, ConcatProperties
<1>3. Ranked(s \o t, a, d)
  BY <1>1, RankedConcat
<1> QED BY <1>2, <1>3 DEF InOrder

LEMMA ItemSeq == ASSUME NEW c, NEW n PROVE Items(c, <<n>>) \in Seq(Kernel(c, n))
<1>1. Items(c, <<n>>) = [x \in 1 .. 1 |-> <<c, n>>]
  BY DEF Items
<1>2. <<c, n>> \in Kernel(c, n)
  BY DEF Kernel
<1>3. Items(c, <<n>>) \in [1 .. 1 -> Kernel(c, n)]
  BY <1>1, <1>2
<1> QED BY <1>3, SeqDef

LEMMA Ordered == InOrder(Order, 0, 10)
<1> DEFINE T == Each(NumBuses, LAMBDA b : << <<"thread", b>> >>)
           P1 == Items("proc", <<"flashbench">>) \o Items("fb", <<"fb">>)
           P2 == P1 \o create_vdevice
           P3 == P2 \o create_ssd_info
           P4 == P3 \o create_pg_ftl
           P5 == P4 \o Items("queue", <<"req_queue">>)
           P6 == P5 \o Items("blkdev", <<"major">>)
           P7 == P6 \o Items("gd", <<"gd">>)
           P8 == P7 \o fb_create_write_buffer
<1>1. Order = P8 \o << <<"thread", Wb>> >>
  BY DEF Order
<1>2. T \in Seq(BusThread)
  BY BusThreads
<1>3. create_vdevice = VdeviceHead \o (ControllersHead \o T)
  BY VdeviceSeq
<1> HIDE DEF T
<1>4. /\ Kernel("proc", "flashbench") \subseteq AllObj /\ Kernel("fb", "fb") \subseteq AllObj
      /\ VObj \subseteq AllObj /\ BusThread \subseteq AllObj /\ SObj \subseteq AllObj
      /\ FObj \subseteq AllObj /\ Kernel("queue", "req_queue") \subseteq AllObj
      /\ Kernel("blkdev", "major") \subseteq AllObj /\ Kernel("gd", "gd") \subseteq AllObj
      /\ WObj \subseteq AllObj /\ Kernel("thread", Wb) \subseteq AllObj
  BY DEF AllObj
<1>10. InOrder(Items("proc", <<"flashbench">>), 0, 0)
  <2>1. Items("proc", <<"flashbench">>) \in Seq(Kernel("proc", "flashbench"))
    BY ItemSeq
  <2> QED BY <1>4, <2>1, Ranks, InOrderConst
<1>11. InOrder(Items("fb", <<"fb">>), 1, 1)
  <2>1. Items("fb", <<"fb">>) \in Seq(Kernel("fb", "fb"))
    BY ItemSeq
  <2> QED BY <1>4, <2>1, Ranks, InOrderConst
<1>12. InOrder(VdeviceHead, 2, 2)
  <2>1. VdeviceHead \in Seq(VObj)
    BY VdeviceSeq
  <2> QED BY <1>4, <2>1, Ranks, InOrderConst
<1>13. InOrder(ControllersHead, 2, 2)
  <2>1. ControllersHead \in Seq(VObj)
    BY VdeviceSeq
  <2> QED BY <1>4, <2>1, Ranks, InOrderConst
<1>14. InOrder(T, 3, 3)
  <2>1. T \in Seq(BusThread)
    BY <1>2
  <2> QED BY <1>4, <2>1, Ranks, InOrderConst
<1>15. InOrder(create_ssd_info, 4, 4)
  <2>1. create_ssd_info \in Seq(SObj)
    BY SsdInfoSeq
  <2> QED BY <1>4, <2>1, Ranks, InOrderConst
<1>16. InOrder(create_pg_ftl, 5, 5)
  <2>1. create_pg_ftl \in Seq(FObj)
    BY FtlSeq
  <2> QED BY <1>4, <2>1, Ranks, InOrderConst
<1>17. InOrder(Items("queue", <<"req_queue">>), 6, 6)
  <2>1. Items("queue", <<"req_queue">>) \in Seq(Kernel("queue", "req_queue"))
    BY ItemSeq
  <2> QED BY <1>4, <2>1, Ranks, InOrderConst
<1>18. InOrder(Items("blkdev", <<"major">>), 7, 7)
  <2>1. Items("blkdev", <<"major">>) \in Seq(Kernel("blkdev", "major"))
    BY ItemSeq
  <2> QED BY <1>4, <2>1, Ranks, InOrderConst
<1>19. InOrder(Items("gd", <<"gd">>), 8, 8)
  <2>1. Items("gd", <<"gd">>) \in Seq(Kernel("gd", "gd"))
    BY ItemSeq
  <2> QED BY <1>4, <2>1, Ranks, InOrderConst
<1>20. InOrder(fb_create_write_buffer, 9, 9)
  <2>1. fb_create_write_buffer \in Seq(WObj)
    BY WbSeq
  <2> QED BY <1>4, <2>1, Ranks, InOrderConst
<1>21. InOrder(<< <<"thread", Wb>> >>, 10, 10)
  <2>1. << <<"thread", Wb>> >> \in Seq(Kernel("thread", Wb))
    BY DEF Kernel
  <2> QED BY <1>4, <2>1, Ranks, InOrderConst
<1>30. InOrder(create_vdevice, 2, 3)
  <2>1. InOrder(ControllersHead \o T, 2, 3)
    BY <1>13, <1>14, InOrderConcat
  <2> QED BY <1>3, <1>12, <2>1, InOrderConcat
<1>31. InOrder(P1, 0, 1)
  BY <1>10, <1>11, InOrderConcat
<1> HIDE DEF P1
<1>32. InOrder(P2, 0, 3)
  BY <1>30, <1>31, InOrderConcat
<1> HIDE DEF P2
<1>33. InOrder(P3, 0, 4)
  BY <1>15, <1>32, InOrderConcat
<1> HIDE DEF P3
<1>34. InOrder(P4, 0, 5)
  BY <1>16, <1>33, InOrderConcat
<1> HIDE DEF P4
<1>35. InOrder(P5, 0, 6)
  BY <1>17, <1>34, InOrderConcat
<1> HIDE DEF P5
<1>36. InOrder(P6, 0, 7)
  BY <1>18, <1>35, InOrderConcat
<1> HIDE DEF P6
<1>37. InOrder(P7, 0, 8)
  BY <1>19, <1>36, InOrderConcat
<1> HIDE DEF P7
<1>38. InOrder(P8, 0, 9)
  BY <1>20, <1>37, InOrderConcat
<1> HIDE DEF P8
<1> QED BY <1>1, <1>21, <1>38, InOrderConcat

----------------------------------------------------------------------------
(* What is undone, and after what.                                         *)

Comps == {"proc", "fb", "vdevice", "ssd_info", "ftl", "queue", "blkdev", "gd", "wb"}
Cmd ==
  {<<"del_gendisk">>} \union {<<"release", c>> : c \in Comps}
  \union {<<k, t>> : k \in {"disable", "stop", "kthread_stop", "join"}, t \in Thread}

(* The release of a component in a program, and that of the virtual device *)
(* behind the end of a thread.                                             *)
Releases(p, c) == Has(p, <<"release", c>>)
After(p, c, t) == Guarded(p, <<"release", c>>, <<"stop", t>>)

LEMMA Absent == ASSUME NEW s, NEW x, NEW e, ~Has(s, x) PROVE Guarded(s, x, e)
BY DEF Has, Guarded

LEMMA CmdParts ==
  /\ <<"del_gendisk">> \in Cmd
  /\ \A c \in Comps : <<"release", c>> \in Cmd
  /\ \A t \in Thread : <<"disable", t>> \in Cmd /\ <<"stop", t>> \in Cmd
  /\ \A t \in Bus : t \in Thread
  /\ Wb \in Thread
BY LifecycleAssumption DEF Cmd, Bus, Thread, Wb

LEMMA Single ==
  /\ \A a, e : Has(<<a>>, e) <=> e = a
  /\ \A a, b, e : Has(<<a, b>>, e) <=> e = a \/ e = b
<1>1. /\ \A a : Len(<<a>>) = 1 /\ <<a>>[1] = a
      /\ \A a, b : Len(<<a, b>>) = 2 /\ <<a, b>>[1] = a /\ <<a, b>>[2] = b
      /\ \A k \in 1 .. 1 : k = 1
      /\ \A k \in 1 .. 2 : k = 1 \/ k = 2
      /\ 1 \in 1 .. 1 /\ 1 \in 1 .. 2 /\ 2 \in 1 .. 2
  OBVIOUS
<1> QED BY <1>1 DEF Has

LEMMA ReleaseSeq ==
  ASSUME NEW c \in Comps
  PROVE  /\ Release(c) \in Seq(Cmd)
         /\ \A e : Has(Release(c), e) <=> e = <<"release", c>>
<1>1. Release(c) = << <<"release", c>> >> /\ <<"release", c>> \in Cmd
  BY CmdParts DEF Release
<1> QED BY <1>1, OneSeq, Single

LEMMA StopSeq ==
  ASSUME NEW t \in Thread
  PROVE  /\ Stop(t) \in Seq(Cmd)
         /\ \A e : Has(Stop(t), e) <=> e = <<"disable", t>> \/ e = <<"stop", t>>
<1>1. Stop(t) = << <<"disable", t>>, <<"stop", t>> >> /\ <<"disable", t>> \in Cmd /\ <<"stop", t>> \in Cmd
  BY CmdParts DEF Stop
<1> QED BY <1>1, TwoSeq, Single

LEMMA DestroyVdevice ==
  /\ destroy_vdevice \in Seq(Cmd)
  /\ \A c : Releases(destroy_vdevice, c) <=> c = "vdevice"
  /\ \A b \in Bus : After(destroy_vdevice, "vdevice", b)
<1> DEFINE ss == [b \in 1 .. NumBuses |-> Stop(b)]
           S == Each(NumBuses, Stop)
<1>1. ss \in [1 .. NumBuses -> Seq(Cmd)] /\ NumBuses \in Nat
  BY StopSeq, CmdParts, LifecycleAssumption DEF Bus
<1>2. S = FlattenSeq(ss)
  BY DEF Each
<1>3. /\ S \in Seq(Cmd)
      /\ \A e : Has(S, e) <=> \E b \in 1 .. NumBuses : Has(ss[b], e)
  BY <1>1, <1>2, Flatten
<1>4. \A e : Has(S, e) <=> \E b \in Bus : e = <<"disable", b>> \/ e = <<"stop", b>>
  BY <1>3, StopSeq, CmdParts DEF Bus
<1>5. \A c : ~Has(S, <<"release", c>>)
  BY <1>4
<1>6. "vdevice" \in Comps
  BY DEF Comps
<1>7. Release("vdevice") \in Seq(Cmd) /\ \A e : Has(Release("vdevice"), e) <=> e = <<"release", "vdevice">>
  BY <1>6, ReleaseSeq
<1>8. destroy_vdevice = S \o Release("vdevice")
  BY DEF destroy_vdevice
<1> HIDE DEF S, ss
<1>9. destroy_vdevice \in Seq(Cmd)
  BY <1>3, <1>7, <1>8, HasConcat
<1>10. ASSUME NEW c PROVE Releases(destroy_vdevice, c) <=> c = "vdevice"
  <2>1. Has(destroy_vdevice, <<"release", c>>)
          <=> Has(S, <<"release", c>>) \/ Has(Release("vdevice"), <<"release", c>>)
    BY <1>3, <1>7, <1>8, HasConcat
  <2> QED BY <1>5, <1>7, <2>1 DEF Releases
<1>11. ASSUME NEW b \in Bus PROVE After(destroy_vdevice, "vdevice", b)
  <2>1. Has(S, <<"stop", b>>)
    BY <1>4
  <2>2. Guarded(S, <<"release", "vdevice">>, <<"stop", b>>)
    BY <1>5, Absent
  <2> QED BY <1>3, <1>7, <1>8, <2>1, <2>2, GuardedConcat DEF After
<1> QED BY <1>9, <1>10, <1>11

LEMMA Joined ==
  ASSUME NEW s \in Seq(Cmd), NEW t \in Seq(Cmd)
  PROVE  /\ s \o t \in Seq(Cmd)
         /\ \A e : Has(s \o t, e) <=> Has(s, e) \/ Has(t, e)
         /\ \A x, e : Guarded(s, x, e) /\ (Has(s, e) \/ Guarded(t, x, e)) => Guarded(s \o t, x, e)
BY HasConcat, GuardedConcat

(* Module exit stops the collector before it releases what a round looks   *)
(* at, and each bus before the virtual device.                             *)
Rounds == {"fb", "vdevice", "ssd_info", "ftl"}

LEMMA ExitProgram ==
  /\ fb_exit \in Seq(Cmd)
  /\ \A c \in Comps : Releases(fb_exit, c)
  /\ \A b \in Bus : After(fb_exit, "vdevice", b)
  /\ \A c \in Rounds : After(fb_exit, c, Wb)
<1> DEFINE Q1 == << <<"del_gendisk">> >> \o Release("gd")
           Q2 == Q1 \o Release("blkdev")
           Q3 == Q2 \o Release("queue")
           Q4 == Q3 \o Stop(Wb)
           Q5 == Q4 \o Release("wb")
           Q6 == Q5 \o Release("ftl")
           Q7 == Q6 \o Release("ssd_info")
           Q8 == Q7 \o destroy_vdevice
           Q9 == Q8 \o Release("fb")
           Waits(s) == Has(s, <<"stop", Wb>>) /\ \A c \in Rounds : After(s, c, Wb)
<1>1. fb_exit = Q9 \o Release("proc")
  BY DEF fb_exit
<1>2. /\ << <<"del_gendisk">> >> \in Seq(Cmd)
      /\ \A e : Has(<< <<"del_gendisk">> >>, e) => e = <<"del_gendisk">>
  BY CmdParts, OneSeq, Single
<1>3. \A c \in Comps : Release(c) \in Seq(Cmd) /\ \A e : Has(Release(c), e) <=> e = <<"release", c>>
  BY ReleaseSeq
<1>4. Stop(Wb) \in Seq(Cmd) /\ \A e : Has(Stop(Wb), e) <=> e = <<"disable", Wb>> \/ e = <<"stop", Wb>>
  BY StopSeq, CmdParts
<1>5. /\ "gd" \in Comps /\ "blkdev" \in Comps /\ "queue" \in Comps /\ "wb" \in Comps
      /\ "ftl" \in Comps /\ "ssd_info" \in Comps /\ "fb" \in Comps /\ "proc" \in Comps
      /\ Rounds \subseteq Comps
  BY DEF Comps, Rounds
<1>6. Q1 \in Seq(Cmd) /\ \A c : Releases(Q1, c) <=> c = "gd"
  BY <1>2, <1>3, <1>5, Joined DEF Releases
<1> HIDE DEF Q1
<1>7. Q2 \in Seq(Cmd) /\ \A c : Releases(Q2, c) <=> c \in {"gd", "blkdev"}
  BY <1>3, <1>5, <1>6, Joined DEF Releases
<1> HIDE DEF Q2
<1>8. Q3 \in Seq(Cmd) /\ \A c : Releases(Q3, c) <=> c \in {"gd", "blkdev", "queue"}
  BY <1>3, <1>5, <1>7, Joined DEF Releases
<1> HIDE DEF Q3
<1>9. Q4 \in Seq(Cmd) /\ \A c : Releases(Q4, c) <=> c \in {"gd", "blkdev", "queue"}
  BY <1>4, <1>8, Joined DEF Releases
<1>10. Waits(Q4)
  <2>1. Has(Q4, <<"stop", Wb>>)
    BY <1>4, <1>8, Joined
  <2>2. \A c \in Rounds : ~Releases(Q4, c)
    BY <1>9 DEF Rounds
  <2> QED BY <2>1, <2>2, Absent DEF After, Releases
<1> HIDE DEF Q4
<1>11. ASSUME NEW s \in Seq(Cmd), NEW t \in Seq(Cmd), Waits(s) PROVE Waits(s \o t)
  BY <1>11, Joined DEF After
<1> HIDE DEF Waits
<1>12. /\ Q5 \in Seq(Cmd) /\ Waits(Q5)
       /\ \A c : Releases(Q5, c) <=> c \in {"gd", "blkdev", "queue", "wb"}
  BY <1>3, <1>5, <1>9, <1>10, <1>11, Joined DEF Releases
<1> HIDE DEF Q5
<1>13. /\ Q6 \in Seq(Cmd) /\ Waits(Q6)
       /\ \A c : Releases(Q6, c) <=> c \in {"gd", "blkdev", "queue", "wb", "ftl"}
  BY <1>3, <1>5, <1>11, <1>12, Joined DEF Releases
<1> HIDE DEF Q6
<1>14. /\ Q7 \in Seq(Cmd) /\ Waits(Q7)
       /\ \A c : Releases(Q7, c) <=> c \in {"gd", "blkdev", "queue", "wb", "ftl", "ssd_info"}
  BY <1>3, <1>5, <1>11, <1>13, Joined DEF Releases
<1> HIDE DEF Q7
<1>15. Q8 \in Seq(Cmd) /\ Waits(Q8)
  BY <1>11, <1>14, Joined, DestroyVdevice
<1>16. \A c : Releases(Q8, c)
                <=> c \in {"gd", "blkdev", "queue", "wb", "ftl", "ssd_info", "vdevice"}
  BY <1>14, Joined, DestroyVdevice DEF Releases
<1>17. \A b \in Bus : After(Q8, "vdevice", b)
  <2>1. ~Releases(Q7, "vdevice")
    BY <1>14
  <2> QED BY <1>14, <2>1, Joined, Absent, DestroyVdevice DEF After, Releases
<1> HIDE DEF Q8
<1>18. /\ Q9 \in Seq(Cmd) /\ Waits(Q9)
       /\ \A c : Releases(Q9, c)
                   <=> c \in {"gd", "blkdev", "queue", "wb", "ftl", "ssd_info", "vdevice", "fb"}
  BY <1>3, <1>5, <1>11, <1>15, <1>16, Joined DEF Releases
<1>19. \A b \in Bus : After(Q9, "vdevice", b)
  <2>1. ~Releases(Release("fb"), "vdevice")
    BY <1>3, <1>5 DEF Releases
  <2> QED BY <1>3, <1>5, <1>15, <1>17, <2>1, Joined, Absent DEF After, Releases
<1> HIDE DEF Q9
<1>20. fb_exit \in Seq(Cmd) /\ Waits(fb_exit)
  BY <1>1, <1>3, <1>5, <1>11, <1>18, Joined
<1>21. \A c \in Comps : Releases(fb_exit, c)
  BY <1>1, <1>3, <1>5, <1>18, Joined DEF Releases, Comps
<1>22. \A b \in Bus : After(fb_exit, "vdevice", b)
  <2>1. ~Releases(Release("proc"), "vdevice")
    BY <1>3, <1>5 DEF Releases
  <2> QED BY <1>1, <1>3, <1>5, <1>18, <1>19, <2>1, Joined, Absent DEF After, Releases
<1> QED BY <1>20, <1>21, <1>22 DEF Waits

(* The labels behind that of a component release what was acquired before  *)
(* it, but for the gendisk.                                                *)
Labels == <<"wb", "gd", "blkdev", "queue", "ftl", "ssd_info", "vdevice", "fb">>

LEMMA UnwindProgram ==
  ASSUME NEW a \in 1 .. 8
  PROVE  /\ Unwinding(Labels[a]) \in Seq(Cmd)
         /\ \A m \in a + 1 .. 8 : Labels[m] # "gd" => Releases(Unwinding(Labels[a]), Labels[m])
         /\ \A b \in Bus : After(Unwinding(Labels[a]), "vdevice", b)
<1> DEFINE undo == [c \in ToSet(Labels) |->
                      IF c = "gd" THEN << <<"del_gendisk">> >>
                      ELSE IF c = "vdevice" THEN destroy_vdevice ELSE Release(c)]
           ss == [x \in 1 .. 8 - a |-> undo[Labels[a + x]]]
<1>1. /\ Len(Labels) = 8 /\ DOMAIN Labels = 1 .. 8
      /\ \A x, y \in 1 .. 8 : Labels[x] = Labels[y] => x = y
      /\ \A x \in 1 .. 8 : Labels[x] \in Comps
  BY DEF Labels, Comps
<1>2. (CHOOSE x \in DOMAIN Labels : Labels[x] = Labels[a]) = a
  BY <1>1
<1>3. Unwinding(Labels[a]) = FlattenSeq(ss)
  <2> DEFINE G(n, k) == FlattenSeq([x \in 1 .. n - k |-> undo[Labels[k + x]]])
             n == Len(Labels)
             k == CHOOSE x \in DOMAIN Labels : Labels[x] = Labels[a]
  <2>1. Unwinding(Labels[a]) = G(n, k)
    BY Zenon DEF Unwinding, Labels
  <2>2. FlattenSeq(ss) = G(8, a)
    OBVIOUS
  <2>3. n = 8 /\ k = a
    BY <1>1, <1>2
  <2> HIDE DEF G, n, k
  <2> QED BY <2>1, <2>2, <2>3
<1>4. \A m \in 1 .. 8 : undo[Labels[m]] = IF Labels[m] = "gd" THEN << <<"del_gendisk">> >>
                                         ELSE IF Labels[m] = "vdevice" THEN destroy_vdevice
                                         ELSE Release(Labels[m])
  BY <1>1 DEF ToSet
<1> HIDE DEF undo
<1>5. << <<"del_gendisk">> >> \in Seq(Cmd)
      /\ \A e : Has(<< <<"del_gendisk">> >>, e) => e = <<"del_gendisk">>
  BY CmdParts, OneSeq, Single
<1>6. \A m \in 1 .. 8 : undo[Labels[m]] \in Seq(Cmd)
  BY <1>1, <1>4, <1>5, ReleaseSeq, DestroyVdevice
<1>7. \A m \in 1 .. 8 : Labels[m] # "gd" => Releases(undo[Labels[m]], Labels[m])
  BY <1>1, <1>4, ReleaseSeq, DestroyVdevice DEF Releases
<1>8. ASSUME NEW m \in 1 .. 8, NEW b \in Bus PROVE After(undo[Labels[m]], "vdevice", b)
  <2>1. CASE Labels[m] = "gd"
    <3>1. ~Releases(undo[Labels[m]], "vdevice")
      BY <1>4, <1>5, <2>1 DEF Releases
    <3> QED BY <3>1, Absent DEF After, Releases
  <2>2. CASE Labels[m] = "vdevice"
    BY <1>4, <2>2, DestroyVdevice
  <2>3. CASE Labels[m] # "gd" /\ Labels[m] # "vdevice"
    <3>1. ~Releases(undo[Labels[m]], "vdevice")
      BY <1>1, <1>4, <2>3, ReleaseSeq DEF Releases
    <3> QED BY <3>1, Absent DEF After, Releases
  <2> QED BY <2>1, <2>2, <2>3
<1>9. 8 - a \in Nat /\ \A x \in 1 .. 8 - a : a + x \in 1 .. 8
  OBVIOUS
<1>10. ss \in [1 .. 8 - a -> Seq(Cmd)]
  BY <1>6, <1>9
<1>11. \A x \in 1 .. 8 - a : ss[x] = undo[Labels[a + x]]
  OBVIOUS
<1> HIDE DEF ss
<1>12. /\ FlattenSeq(ss) \in Seq(Cmd)
       /\ \A e : Has(FlattenSeq(ss), e) <=> \E x \in 1 .. 8 - a : Has(ss[x], e)
       /\ \A x, e : (\A k \in 1 .. 8 - a : Guarded(ss[k], x, e)) => Guarded(FlattenSeq(ss), x, e)
  BY <1>9, <1>10, Flatten
<1>13. ASSUME NEW m \in a + 1 .. 8, Labels[m] # "gd" PROVE Releases(FlattenSeq(ss), Labels[m])
  <2>1. PICK x \in 1 .. 8 - a : m = a + x /\ m \in 1 .. 8
    <3>1. m - a \in 1 .. 8 - a /\ m = a + (m - a) /\ m \in 1 .. 8
      OBVIOUS
    <3> QED BY <3>1
  <2>2. Has(ss[x], <<"release", Labels[m]>>)
    BY <1>7, <1>11, <1>13, <2>1 DEF Releases
  <2> QED BY <1>12, <2>2 DEF Releases
<1>14. ASSUME NEW b \in Bus PROVE After(FlattenSeq(ss), "vdevice", b)
  <2>1. \A k \in 1 .. 8 - a : Guarded(ss[k], <<"release", "vdevice">>, <<"stop", b>>)
    BY <1>8, <1>9, <1>11 DEF After
  <2> QED BY <1>12, <2>1 DEF After
<1> QED BY <1>3, <1>12, <1>13, <1>14

----------------------------------------------------------------------------
(* The objects: their components, and what is released with one.            *)

LEMMA Objects ==
  ASSUME NEW o \in AllObj
  PROVE  /\ o[1] \in Comps \union {"thread"}
         /\ o[1] = "thread" => \E t \in Thread : o = <<"thread", t>> /\ (t # Wb => Rank(o) = 3)
                                                /\ (t = Wb => Rank(o) = 10)
         /\ o[1] \notin {"thread", "proc"} =>
              \E m \in 1 .. 8 : Labels[m] = o[1] /\ Rank(o) = IF m <= 6 THEN 10 - m ELSE 9 - m
         /\ o[1] = "vdevice" => o \in VObj
         /\ o[1] = "ssd_info" => o \in SObj
         /\ o[1] = "ftl" => o \in FObj
         /\ o[1] = "wb" => o \in WObj
<1>1. /\ Labels[1] = "wb" /\ Labels[2] = "gd" /\ Labels[3] = "blkdev" /\ Labels[4] = "queue"
      /\ Labels[5] = "ftl" /\ Labels[6] = "ssd_info" /\ Labels[7] = "vdevice" /\ Labels[8] = "fb"
  BY DEF Labels
<1> DEFINE L(m, r) == Labels[m] = o[1] /\ Rank(o) = r
<1>2. /\ o[1] = "wb" => Rank(o) = 9 /\ o \in WObj
      /\ o[1] = "gd" => Rank(o) = 8
      /\ o[1] = "blkdev" => Rank(o) = 7
      /\ o[1] = "queue" => Rank(o) = 6
      /\ o[1] = "ftl" => Rank(o) = 5 /\ o \in FObj
      /\ o[1] = "ssd_info" => Rank(o) = 4 /\ o \in SObj
      /\ o[1] = "vdevice" => Rank(o) = 2 /\ o \in VObj
      /\ o[1] = "fb" => Rank(o) = 1
      /\ o[1] \in {"wb", "gd", "blkdev", "queue", "ftl", "ssd_info", "vdevice", "fb", "proc", "thread"}
      /\ o[1] = "thread" => o \in BusThread \/ o \in Kernel("thread", Wb)
  BY Ranks DEF AllObj
<1>3. o[1] = "thread" => \E t \in Thread : o = <<"thread", t>> /\ (t # Wb => Rank(o) = 3)
                                           /\ (t = Wb => Rank(o) = 10)
  <2>1. ASSUME o \in BusThread
        PROVE  \E t \in Bus : o = <<"thread", t>> /\ Rank(o) = 3
    BY <2>1, Ranks DEF BusThread
  <2>2. ASSUME o \in Kernel("thread", Wb) PROVE o = <<"thread", Wb>> /\ Rank(o) = 10
    BY <2>2, Ranks DEF Kernel
  <2>3. \A t \in Bus : t # Wb /\ t \in Thread
    BY LifecycleAssumption DEF Bus, Wb, Thread
  <2> QED BY <1>2, <2>1, <2>2, <2>3, CmdParts
<1>4. o[1] \notin {"thread", "proc"} =>
        \E m \in 1 .. 8 : Labels[m] = o[1] /\ Rank(o) = IF m <= 6 THEN 10 - m ELSE 9 - m
  <2>1. o[1] = "wb" => L(1, IF 1 <= 6 THEN 10 - 1 ELSE 9 - 1)
    BY <1>1, <1>2
  <2>2. o[1] = "gd" => L(2, IF 2 <= 6 THEN 10 - 2 ELSE 9 - 2)
    BY <1>1, <1>2
  <2>3. o[1] = "blkdev" => L(3, IF 3 <= 6 THEN 10 - 3 ELSE 9 - 3)
    BY <1>1, <1>2
  <2>4. o[1] = "queue" => L(4, IF 4 <= 6 THEN 10 - 4 ELSE 9 - 4)
    BY <1>1, <1>2
  <2>5. o[1] = "ftl" => L(5, IF 5 <= 6 THEN 10 - 5 ELSE 9 - 5)
    BY <1>1, <1>2
  <2>6. o[1] = "ssd_info" => L(6, IF 6 <= 6 THEN 10 - 6 ELSE 9 - 6)
    BY <1>1, <1>2
  <2>7. o[1] = "vdevice" => L(7, IF 7 <= 6 THEN 10 - 7 ELSE 9 - 7)
    BY <1>1, <1>2
  <2>8. o[1] = "fb" => L(8, IF 8 <= 6 THEN 10 - 8 ELSE 9 - 8)
    BY <1>1, <1>2
  <2> QED BY <1>2, <2>1, <2>2, <2>3, <2>4, <2>5, <2>6, <2>7, <2>8
<1> QED BY <1>2, <1>3, <1>4 DEF Comps

LEMMA Places ==
  /\ Order \in Seq(AllObj) /\ Len(Order) \in Nat
  /\ \A x \in 1 .. Len(Order) : Order[x] \in Object /\ Order[x] \in AllObj
  /\ \A o \in Object : o \in AllObj /\ \E x \in 1 .. Len(Order) : Order[x] = o
  /\ \A x \in 1 .. Len(Order) : Rank(Order[x]) \in 0 .. 10
  /\ \A x, y \in 1 .. Len(Order) : x < y => Rank(Order[x]) <= Rank(Order[y])
<1>1. Order \in Seq(AllObj) /\ Ranked(Order, 0, 10)
  BY Ordered DEF InOrder
<1>2. Len(Order) \in Nat /\ DOMAIN Order = 1 .. Len(Order)
      /\ \A x \in 1 .. Len(Order) : Order[x] \in AllObj
  BY <1>1, ElementOfSeq, LenProperties
<1> QED BY <1>1, <1>2 DEF Ranked, Object

(* Of a component nothing but what is forgotten is left behind its release. *)
LEMMA Released ==
  ASSUME NEW c \in Comps
  PROVE  /\ Frees(c) \subseteq PartsOf(c) /\ FreesFailed(c) \subseteq PartsOf(c)
         /\ \A o \in PartsOf(c) : o \in Frees(c) \/ o \in Forgotten
         /\ \A o \in PartsOf(c) : o \in FreesFailed(c) \/ o \in Forgotten \/ o \in Vdisks
<1>1. \A o \in PartsOf(c) : o \in AllObj /\ o[1] = c /\ o \in Object
  BY Places DEF PartsOf
<1>2. Frees(c) \subseteq PartsOf(c)
  BY DEF Frees, Named, fb_bus_controller_destroy, destroy_bus_controller, Vdisks, destroy_ssd_info,
         destroy_pg_ftl, destroy_act_blk_mngr, destroy_gc_mngr, destroy_mapping_table,
         destroy_del_mngr, fb_destroy_write_buffer
<1>3. ASSUME NEW o \in PartsOf(c) PROVE o \in Frees(c) \/ o \in Forgotten
  <2>1. CASE c = "vdevice"
    <3>1. o[2] \in {"vdevice", "controllers", "vdisk", "controller", "ptr_opr_queue", "chip_busies",
                    "opr_queue", "opr_list"}
      BY <1>1, <1>3, <2>1, Objects DEF VObj
    <3> QED BY <1>3, <2>1, <3>1
            DEF Frees, Named, fb_bus_controller_destroy, destroy_bus_controller, Vdisks
  <2>2. CASE c = "ssd_info"
    <3>1. o[2] \in {"ssd_info", "list_buses", "list_chips", "list_blocks", "list_pages"}
      BY <1>1, <1>3, <2>2, Objects DEF SObj
    <3> QED BY <1>3, <2>2, <3>1 DEF Frees, Named, destroy_ssd_info
  <2>3. CASE c = "ftl"
    <3>1. o = <<"ftl", o[2]>> /\ o[2] \in FtlNames
      BY <1>1, <1>3, <2>3, Objects DEF FObj
    <3>2. CASE o[2] \in {"ppas", "first_valid_pg"}
      BY <3>1, <3>2 DEF Forgotten
    <3>3. CASE o[2] \notin {"ppas", "first_valid_pg"}
      BY <1>3, <2>3, <3>1, <3>3
         DEF FtlNames, Frees, Named, destroy_pg_ftl, destroy_act_blk_mngr, destroy_gc_mngr,
             destroy_mapping_table, destroy_del_mngr
    <3> QED BY <3>2, <3>3
  <2>4. CASE c = "wb"
    <3>1. o = <<"wb", "pg_buf">> \/ o[2] \in {"wb", "entry", "data"}
      BY <1>1, <1>3, <2>4, Objects DEF WObj
    <3> QED BY <1>3, <2>4, <3>1 DEF Frees, Named, fb_destroy_write_buffer, Forgotten
  <2>5. CASE c \notin {"vdevice", "ssd_info", "ftl", "wb"}
    BY <1>3, <2>5 DEF Frees
  <2> QED BY <2>1, <2>2, <2>3, <2>4, <2>5
<1> QED BY <1>2, <1>3 DEF FreesFailed

----------------------------------------------------------------------------
(* The inductive invariant.  A thread that is not over has what it may look *)
(* at, and what is still to be done stops it before it releases any of it;  *)
(* what is live is forgotten or still to be released.                       *)
NeedsOf(t) == IF t = Wb THEN Rounds ELSE {"vdevice"}
Needs(t) == UNION {PartsOf(c) : c \in NeedsOf(t)}
Over(t) == tpc[t] \in {"none", "exited"}

Ends(t) == {<<"stop", t>>, <<"kthread_stop", t>>, <<"join", t>>}
Awaited(s, c, t) ==
  \A k \in 1 .. Len(s) : s[k] = <<"release", c>> => \E j \in 1 .. Len(s) : j < k /\ s[j] \in Ends(t)

LEMMA Popped ==
  ASSUME NEW s \in Seq(Cmd), s # <<>>
  PROVE  /\ Head(s) = s[1] /\ Head(s) \in Cmd /\ Tail(s) \in Seq(Cmd)
         /\ \A e : Has(s, e) /\ e # Head(s) => Has(Tail(s), e)
         /\ \A c, t : Awaited(s, c, t) => Head(s) # <<"release", c>>
         /\ \A c, t : Awaited(s, c, t) /\ Head(s) \notin Ends(t) => Awaited(Tail(s), c, t)
<1>1. /\ Len(s) \in Nat /\ Len(s) >= 1 /\ s[1] \in Cmd /\ Head(s) = s[1]
      /\ Tail(s) \in Seq(Cmd) /\ Len(Tail(s)) = Len(s) - 1
      /\ \A k \in 1 .. Len(s) - 1 : Tail(s)[k] = s[k + 1]
  BY HeadTailProperties, LenProperties, EmptySeq, ElementOfSeq
<1>2. \A k \in 1 .. Len(s) : k = 1 \/ (k - 1 \in 1 .. Len(s) - 1 /\ Tail(s)[k - 1] = s[k])
  BY <1>1
<1>3. \A e : Has(s, e) /\ e # Head(s) => Has(Tail(s), e)
  BY <1>1, <1>2 DEF Has
<1>4. ASSUME NEW c, NEW t, Awaited(s, c, t) PROVE Head(s) # <<"release", c>>
  BY <1>1, <1>4 DEF Awaited
<1>5. ASSUME NEW c, NEW t, Awaited(s, c, t), Head(s) \notin Ends(t) PROVE Awaited(Tail(s), c, t)
  <2>1. SUFFICES ASSUME NEW k \in 1 .. Len(s) - 1, Tail(s)[k] = <<"release", c>>
                 PROVE  \E j \in 1 .. Len(s) - 1 : j < k /\ Tail(s)[j] \in Ends(t)
    BY <1>1 DEF Awaited
  <2>2. k + 1 \in 1 .. Len(s) /\ s[k + 1] = <<"release", c>>
    BY <1>1, <2>1
  <2>3. PICK j \in 1 .. Len(s) : j < k + 1 /\ s[j] \in Ends(t)
    BY <1>5, <2>2 DEF Awaited
  <2>4. j # 1 /\ j - 1 \in 1 .. Len(s) - 1 /\ Tail(s)[j - 1] = s[j] /\ j - 1 < k
    BY <1>1, <1>2, <1>5, <2>3
  <2> QED BY <2>3, <2>4
<1> QED BY <1>1, <1>3, <1>4, <1>5

LEMMA Swapped ==
  ASSUME NEW s \in Seq(Cmd), s # <<>>, NEW h \in Cmd
  PROVE  /\ <<h>> \o Tail(s) \in Seq(Cmd)
         /\ \A e : Has(s, e) /\ e # Head(s) => Has(<<h>> \o Tail(s), e)
         /\ \A c, t : /\ Awaited(s, c, t) /\ h # <<"release", c>>
                      /\ Head(s) \in Ends(t) => h \in Ends(t)
                      => Awaited(<<h>> \o Tail(s), c, t)
<1>1. /\ Len(s) \in Nat /\ Len(s) >= 1 /\ Head(s) = s[1]
      /\ Tail(s) \in Seq(Cmd) /\ Len(Tail(s)) = Len(s) - 1
      /\ \A k \in 1 .. Len(s) - 1 : Tail(s)[k] = s[k + 1]
  BY HeadTailProperties, LenProperties, EmptySeq
<1>2. <<h>> \in Seq(Cmd) /\ Len(<<h>>) = 1 /\ <<h>>[1] = h
  BY OneSeq
<1> DEFINE u == <<h>> \o Tail(s)
<1>3. /\ u \in Seq(Cmd) /\ Len(u) = 1 + Len(Tail(s))
      /\ \A k \in 1 .. 1 + Len(Tail(s)) : u[k] = IF k <= 1 THEN h ELSE Tail(s)[k - 1]
  BY <1>1, <1>2, ConcatProperties
<1>4. Len(u) = Len(s) /\ u[1] = h /\ \A k \in 1 .. Len(s) : k # 1 => u[k] = s[k]
  BY <1>1, <1>3
<1> HIDE DEF u
<1>5. \A e : Has(s, e) /\ e # Head(s) => Has(u, e)
  BY <1>1, <1>4 DEF Has
<1>6. ASSUME NEW c, NEW t, Awaited(s, c, t), h # <<"release", c>>, Head(s) \in Ends(t) => h \in Ends(t)
      PROVE  Awaited(u, c, t)
  <2>1. SUFFICES ASSUME NEW k \in 1 .. Len(s), u[k] = <<"release", c>>
                 PROVE  \E j \in 1 .. Len(s) : j < k /\ u[j] \in Ends(t)
    BY <1>4 DEF Awaited
  <2>2. k # 1 /\ s[k] = <<"release", c>>
    BY <1>4, <1>6, <2>1
  <2>3. PICK j \in 1 .. Len(s) : j < k /\ s[j] \in Ends(t)
    BY <1>6, <2>2 DEF Awaited
  <2>4. u[j] \in Ends(t)
    BY <1>1, <1>4, <1>6, <2>3
  <2> QED BY <2>3, <2>4
<1> QED BY <1>3, <1>5, <1>6 DEF u

LEMMA Programmed ==
  ASSUME NEW s, NEW c, NEW t, After(s, c, t)
  PROVE  Awaited(s, c, t)
BY DEF After, Guarded, Awaited, Ends

Shape ==
  /\ todo \in Seq(Cmd)
  /\ \A o \in live : o[1] # "thread"
  /\ pc = "assign" => at <= Len(Order) /\ Order[at][1] = "thread"

(* While fb_init acquires, all it has passed is live, and a thread there is *)
(* was passed.                                                              *)
Acquired ==
  pc \in {"init", "assign"} =>
    /\ \A x \in 1 .. Len(Order) : x < at /\ Order[x][1] \notin {"thread", "proc"} => Order[x] \in live
    /\ \A o \in live : \E x \in 1 .. Len(Order) : x < at /\ Order[x] = o
    /\ \A t \in Thread : tpc[t] # "none" =>
         \E x \in 1 .. Len(Order) : Order[x] = <<"thread", t>> /\ (x < at \/ (pc = "assign" /\ x = at))

(* A failed load never started the collector.                               *)
NoCollector == pc \in {"unwind", "failed"} => tpc[Wb] = "none"

(* A thread that is not over has its task noted, or is about to.            *)
Noted ==
  \A t \in Thread : ~Over(t) => task[t] # "null" \/ (pc = "assign" /\ Order[at] = <<"thread", t>>)

Kept == \A t \in Thread : ~Over(t) => Needs(t) \subseteq live
Stopping ==
  Undoing => \A t \in Thread : ~Over(t) => \A c \in NeedsOf(t) : Awaited(todo, c, t)

Leftover(o) ==
  \/ o \in Forgotten \/ Releases(todo, o[1])
  \/ pc = "unwind" /\ (o \in Vdisks \/ o[1] \in {"proc", "gd"})
Accounted == Undoing => \A o \in live : Leftover(o)

LInv ==
  /\ TypeOK /\ Shape /\ Acquired /\ NoCollector /\ Noted /\ Kept /\ Stopping /\ Accounted
  /\ OnlyForgotten

LEMMA InitLInv == Init => LInv
<1> SUFFICES ASSUME Init PROVE LInv
  OBVIOUS
<1>1. TypeOK
  <2>1. 1 \in 1 .. Len(Order) + 1
    <3>1. Len(Order) \in Nat
      BY Places
    <3> QED BY <3>1
  <2> QED BY <2>1 DEF Init, TypeOK, ThreadPc
<1>2. Shape /\ Acquired
  BY DEF Init, Shape, Acquired
<1>3. NoCollector /\ Noted /\ Kept /\ Stopping /\ Accounted /\ OnlyForgotten
  BY DEF Init, NoCollector, Noted, Kept, Over, Stopping, Accounted, Undoing, OnlyForgotten
<1> QED BY <1>1, <1>2, <1>3 DEF LInv

----------------------------------------------------------------------------
(* fb_init.                                                                *)

LEMMA AcquireKeeps == ASSUME LInv, Acquire PROVE LInv'
<1>1. /\ at \in 1 .. Len(Order) /\ Order[at] \in Object /\ at + 1 \in 1 .. Len(Order) + 1
      /\ Order[at][1] # "thread"
  <2>1. at \in 1 .. Len(Order) + 1 /\ at <= Len(Order) /\ Order[at][1] # "thread"
    BY DEF LInv, TypeOK, Acquire
  <2> QED BY <2>1, Places
<1>2. /\ pc = "init" /\ pc' = "init" /\ live' = live \union {Order[at]} /\ at' = at + 1
      /\ UNCHANGED <<todo, added, flag, task, tpc, stopped, killed>>
  BY DEF Acquire, threads
<1>3. TypeOK'
  BY <1>1, <1>2 DEF LInv, TypeOK
<1>4. Shape'
  BY <1>1, <1>2 DEF LInv, Shape
<1>5. Acquired'
  <2>1. \A x \in 1 .. Len(Order) : x < at + 1 <=> x < at \/ x = at
    BY <1>1
  <2> QED BY <1>1, <1>2, <2>1 DEF LInv, Acquired
<1>6. Noted' /\ Kept'
  BY <1>2 DEF LInv, Noted, Kept, Over, Needs
<1>7. NoCollector' /\ Stopping' /\ Accounted' /\ OnlyForgotten'
  BY <1>2 DEF NoCollector, Stopping, Accounted, Undoing, OnlyForgotten
<1> QED BY <1>3, <1>4, <1>5, <1>6, <1>7 DEF LInv

(* An allocation of a later component fails when the threads of the buses  *)
(* are there, that of the collector never is.                               *)
LEMMA FailsKeeps == ASSUME LInv, AcquireFails PROVE LInv'
<1>1. /\ at \in 1 .. Len(Order) /\ Order[at] \in Object /\ Order[at] \in AllObj
      /\ at + 1 \in 1 .. Len(Order) + 1 /\ Order[at][1] # "thread" /\ Order[at][1] \in Comps
  BY Places, Objects DEF LInv, TypeOK, AcquireFails
<1>2. /\ pc = "init" /\ UNCHANGED <<added, flag, task, tpc, stopped, killed>>
  BY DEF AcquireFails, threads
<1>3. CASE Order[at][1] = "proc" /\ at' = at + 1 /\ UNCHANGED <<pc, live, todo>>
  <2>1. TypeOK'
    BY <1>1, <1>2, <1>3 DEF LInv, TypeOK
  <2>2. Shape'
    BY <1>1, <1>2, <1>3 DEF LInv, Shape
  <2>3. Acquired'
    <3>1. \A x \in 1 .. Len(Order) : x < at + 1 <=> x < at \/ x = at
      BY <1>1
    <3> QED BY <1>1, <1>2, <1>3, <3>1 DEF LInv, Acquired
  <2>4. Noted' /\ Kept'
    BY <1>2, <1>3 DEF LInv, Noted, Kept, Over, Needs
  <2>5. NoCollector' /\ Stopping' /\ Accounted' /\ OnlyForgotten'
    BY <1>2, <1>3 DEF NoCollector, Stopping, Accounted, Undoing, OnlyForgotten
  <2> QED BY <2>1, <2>2, <2>3, <2>4, <2>5 DEF LInv
<1>4. CASE LeavesWild(at) /\ pc' = "crashed" /\ UNCHANGED <<at, live, todo>>
  <2>1. TypeOK'
    BY <1>2, <1>4 DEF LInv, TypeOK
  <2>2. Shape' /\ Acquired'
    BY <1>4 DEF LInv, Shape, Acquired
  <2>3. Noted' /\ Kept'
    BY <1>2, <1>4 DEF LInv, Noted, Kept, Over, Needs
  <2>4. NoCollector' /\ Stopping' /\ Accounted' /\ OnlyForgotten'
    BY <1>4 DEF NoCollector, Stopping, Accounted, Undoing, OnlyForgotten
  <2> QED BY <2>1, <2>2, <2>3, <2>4 DEF LInv
<1>5. CASE /\ Order[at][1] # "proc" /\ pc' = "unwind" /\ todo' = Unwinding(Order[at][1])
           /\ live' = live \ FreesFailed(Order[at][1]) /\ at' = at
  <2>1. PICK c \in Comps : c = Order[at][1] /\ c # "proc"
    BY <1>1, <1>5
  <2>2. PICK a \in 1 .. 8 : Labels[a] = c /\ Rank(Order[at]) = IF a <= 6 THEN 10 - a ELSE 9 - a
    BY <1>1, <2>1, Objects
  <2>3. \A x \in 1 .. Len(Order) : x < at => Rank(Order[x]) <= Rank(Order[at])
    BY <1>1, Places
  <2>4. \A t \in Thread : tpc[t] # "none" =>
          \E x \in 1 .. Len(Order) : Order[x] = <<"thread", t>> /\ x < at
    BY <1>2 DEF LInv, Acquired
  <2>5. \A t \in Thread : tpc[t] # "none" => t # Wb /\ c # "vdevice"
    <3>1. SUFFICES ASSUME NEW t \in Thread, NEW x \in 1 .. Len(Order), Order[x] = <<"thread", t>>, x < at
                   PROVE  t # Wb /\ c # "vdevice"
      BY <2>4
    <3>2. Order[x] \in AllObj /\ Order[x][1] = "thread"
      BY <3>1, Places
    <3>3. PICK u \in Thread : /\ Order[x] = <<"thread", u>> /\ (u # Wb => Rank(Order[x]) = 3)
                              /\ (u = Wb => Rank(Order[x]) = 10)
      BY <3>2, Objects
    <3>4. u = t
      BY <3>1, <3>3
    <3>5. c = "vdevice" => a = 7
      BY <2>2 DEF Labels
    <3>6. Rank(Order[x]) <= Rank(Order[at])
      BY <2>3, <3>1
    <3> QED BY <2>2, <3>3, <3>4, <3>5, <3>6
  <2>6. \A t \in Thread : ~Over(t) => NeedsOf(t) = {"vdevice"} /\ t \in Bus /\ c # "vdevice"
    BY <2>5, LifecycleAssumption DEF Over, NeedsOf, Thread, Bus, Wb
  <2>7. pc' = "unwind" /\ todo' = Unwinding(Labels[a]) /\ live' = live \ FreesFailed(c) /\ at' = at
    BY <1>5, <2>1, <2>2
  <2>8. TypeOK'
    BY <1>2, <2>7 DEF LInv, TypeOK
  <2>9. Shape'
    BY <2>7, UnwindProgram DEF LInv, Shape
  <2>10. Acquired' /\ OnlyForgotten'
    BY <2>7 DEF Acquired, OnlyForgotten
  <2>11. NoCollector'
    BY <1>2, <2>5, CmdParts DEF NoCollector
  <2>12. Noted'
    BY <1>2, <2>7 DEF LInv, Noted, Over
  <2>13. Kept'
    <3>1. SUFFICES ASSUME NEW t \in Thread, ~Over(t), NEW o \in Needs(t) PROVE o \in live'
      BY <1>2 DEF Kept, Over
    <3>2. o \in live /\ o \in PartsOf("vdevice") /\ c # "vdevice"
      BY <2>6, <3>1 DEF LInv, Kept, Needs
    <3>3. o \notin PartsOf(c)
      BY <3>2 DEF PartsOf
    <3> QED BY <2>7, <3>2, <3>3, Released
  <2>14. Stopping'
    <3>1. SUFFICES ASSUME NEW t \in Thread, ~Over(t) PROVE Awaited(todo', "vdevice", t)
      BY <1>2, <2>6 DEF Stopping, Over
    <3>2. After(Unwinding(Labels[a]), "vdevice", t)
      BY <2>6, <3>1, UnwindProgram
    <3> QED BY <2>7, <3>2, Programmed
  <2>15. Accounted'
    <3>1. SUFFICES ASSUME NEW o \in live, o \notin FreesFailed(c) PROVE Leftover(o)'
      BY <2>7 DEF Accounted
    <3>2. PICK x \in 1 .. Len(Order) : x < at /\ Order[x] = o
      BY <1>2 DEF LInv, Acquired
    <3>3. o \in AllObj /\ o \in Object /\ o[1] # "thread" /\ Rank(o) <= Rank(Order[at])
      BY <2>3, <3>2, Places DEF LInv, Shape
    <3>4. CASE o[1] = "proc" \/ o[1] = "gd"
      BY <2>7, <3>4 DEF Leftover
    <3>5. CASE o[1] = c
      <4>1. o \in PartsOf(c)
        BY <3>3, <3>5 DEF PartsOf
      <4> QED BY <2>7, <3>1, <4>1, Released DEF Leftover
    <3>6. CASE o[1] \notin {"proc", "gd", c}
      <4>1. PICK m \in 1 .. 8 : Labels[m] = o[1] /\ Rank(o) = IF m <= 6 THEN 10 - m ELSE 9 - m
        BY <3>3, <3>6, Objects
      <4>2. m \in a + 1 .. 8
        <5>1. m # a
          BY <2>2, <3>6, <4>1
        <5> QED BY <2>2, <3>3, <4>1, <5>1
      <4>3. Releases(Unwinding(Labels[a]), o[1])
        BY <3>6, <4>1, <4>2, UnwindProgram
      <4> QED BY <2>7, <4>3 DEF Leftover
    <3> QED BY <3>4, <3>5, <3>6
  <2> QED BY <2>8, <2>9, <2>10, <2>11, <2>12, <2>13, <2>14, <2>15 DEF LInv
<1> QED BY <1>3, <1>4, <1>5 DEF AcquireFails

(* A thread is created when all it may look at is there.                    *)
LEMMA CreatedWhole ==
  ASSUME LInv, pc = "init", at \in 1 .. Len(Order), NEW t \in Thread, Order[at] = <<"thread", t>>
  PROVE  Needs(t) \subseteq live
<1>1. SUFFICES ASSUME NEW c \in NeedsOf(t), NEW o \in PartsOf(c) PROVE o \in live
  BY DEF Needs
<1>2. o \in Object /\ o \in AllObj /\ o[1] = c
  BY <1>1, Places DEF PartsOf
<1>3. PICK y \in 1 .. Len(Order) : Order[y] = o
  BY <1>2, Places
<1>4. Order[at] \in AllObj
  BY Places
<1>5. /\ t # Wb => Rank(Order[at]) = 3
      /\ t = Wb => Rank(Order[at]) = 10
  <2>1. PICK u \in Thread : /\ Order[at] = <<"thread", u>> /\ (u # Wb => Rank(Order[at]) = 3)
                            /\ (u = Wb => Rank(Order[at]) = 10)
    <3>1. Order[at][1] = "thread"
      OBVIOUS
    <3> QED BY <1>4, <3>1, Objects
  <2>2. u = t
    BY <2>1
  <2> QED BY <2>1, <2>2
<1>6. c \in Rounds /\ (t # Wb => c = "vdevice")
  BY <1>1 DEF NeedsOf, Rounds
<1>7. PICK m \in 1 .. 8 : Labels[m] = c /\ Rank(o) = IF m <= 6 THEN 10 - m ELSE 9 - m
  BY <1>2, <1>6, Objects DEF Rounds
<1>8. c = "vdevice" => m = 7
  BY <1>7 DEF Labels
<1>9. Rank(o) < Rank(Order[at])
  BY <1>5, <1>6, <1>7, <1>8
<1>10. ~(at < y) /\ at # y
  <2>1. at < y => Rank(Order[at]) <= Rank(Order[y])
    BY <1>3, Places
  <2>2. Rank(Order[at]) \in 0 .. 10 /\ Rank(o) \in 0 .. 10
    BY <1>3, Places
  <2> QED BY <1>3, <1>9, <2>1, <2>2
<1>11. y < at
  BY <1>3, <1>10
<1>12. c \notin {"thread", "proc"}
  BY <1>6 DEF Rounds
<1> QED BY <1>2, <1>3, <1>11, <1>12 DEF LInv, Acquired

LEMMA RunKeeps == ASSUME LInv, kthread_run PROVE LInv'
<1>1. /\ at \in 1 .. Len(Order) + 1 /\ pc = "init" /\ at <= Len(Order) /\ Order[at][1] = "thread"
      /\ UNCHANGED <<live, todo, added, stopped, killed>>
  BY DEF LInv, TypeOK, kthread_run
<1>2. at \in 1 .. Len(Order) /\ at + 1 \in 1 .. Len(Order) + 1 /\ Order[at] \in AllObj
  BY <1>1, Places
<1>3. PICK t \in Thread : Order[at] = <<"thread", t>>
  BY <1>1, <1>2, Objects
<1>4. /\ flag' = [flag EXCEPT ![t] = TRUE]
      /\ \/ tpc' = [tpc EXCEPT ![t] = "new"] /\ pc' = "assign" /\ UNCHANGED <<at, task>>
         \/ task' = [task EXCEPT ![t] = "err"] /\ at' = at + 1 /\ UNCHANGED <<pc, tpc>>
  BY <1>3 DEF kthread_run
<1>5. Needs(t) \subseteq live
  BY <1>1, <1>2, <1>3, CreatedWhole
<1>6. \A x \in 1 .. Len(Order) : x < at + 1 <=> x < at \/ x = at
  BY <1>2
<1>7. flag \in [Thread -> BOOLEAN] /\ task \in [Thread -> {"null", "task", "err"}]
      /\ tpc \in [Thread -> ThreadPc]
  BY DEF LInv, TypeOK
<1>8. NoCollector' /\ Stopping' /\ Accounted' /\ OnlyForgotten'
  BY <1>1, <1>4 DEF NoCollector, Stopping, Accounted, Undoing, OnlyForgotten
<1>9. Shape'
  BY <1>1, <1>2, <1>4 DEF LInv, Shape
<1>10. CASE tpc' = [tpc EXCEPT ![t] = "new"] /\ pc' = "assign" /\ UNCHANGED <<at, task>>
  <2>1. TypeOK'
    BY <1>1, <1>4, <1>7, <1>10 DEF LInv, TypeOK, ThreadPc
  <2>2. \A u \in Thread : u # t => tpc'[u] = tpc[u]
    BY <1>7, <1>10
  <2>3. Acquired'
    <3>1. \A u \in Thread : tpc'[u] # "none" =>
            \E x \in 1 .. Len(Order) : Order[x] = <<"thread", u>> /\ (x < at \/ x = at)
      BY <1>1, <1>2, <1>3, <2>2 DEF LInv, Acquired
    <3> QED BY <1>1, <1>10, <3>1 DEF LInv, Acquired
  <2>4. Noted'
    BY <1>1, <1>3, <1>10, <2>2 DEF LInv, Noted, Over
  <2>5. Kept'
    BY <1>1, <1>5, <2>2 DEF LInv, Kept, Over, Needs
  <2> QED BY <1>8, <1>9, <2>1, <2>3, <2>4, <2>5 DEF LInv
<1>11. CASE task' = [task EXCEPT ![t] = "err"] /\ at' = at + 1 /\ UNCHANGED <<pc, tpc>>
  <2>1. TypeOK'
    BY <1>1, <1>2, <1>4, <1>7, <1>11 DEF LInv, TypeOK
  <2>2. \A u \in Thread : task'[u] = IF u = t THEN "err" ELSE task[u]
    BY <1>7, <1>11
  <2>3. Acquired'
    BY <1>1, <1>3, <1>6, <1>11 DEF LInv, Acquired
  <2>4. Noted'
    BY <1>1, <1>11, <2>2 DEF LInv, Noted, Over
  <2>5. Kept'
    BY <1>1, <1>11 DEF LInv, Kept, Over, Needs
  <2> QED BY <1>8, <1>9, <2>1, <2>3, <2>4, <2>5 DEF LInv
<1> QED BY <1>4, <1>10, <1>11

LEMMA AssignKeeps == ASSUME LInv, AssignTask PROVE LInv'
<1>1. /\ at \in 1 .. Len(Order) + 1 /\ pc = "assign" /\ at <= Len(Order) /\ Order[at][1] = "thread"
      /\ pc' = "init" /\ at' = at + 1 /\ UNCHANGED <<live, todo, added, flag, tpc, stopped, killed>>
  BY DEF LInv, TypeOK, Shape, AssignTask
<1>2. at \in 1 .. Len(Order) /\ at + 1 \in 1 .. Len(Order) + 1 /\ Order[at] \in AllObj
  BY <1>1, Places
<1>3. PICK t \in Thread : Order[at] = <<"thread", t>>
  BY <1>1, <1>2, Objects
<1>4. task' = [task EXCEPT ![t] = "task"] /\ task \in [Thread -> {"null", "task", "err"}]
  BY <1>3 DEF LInv, TypeOK, AssignTask
<1>5. \A u \in Thread : task'[u] = IF u = t THEN "task" ELSE task[u]
  BY <1>4
<1>6. \A x \in 1 .. Len(Order) : x < at + 1 <=> x < at \/ x = at
  BY <1>2
<1>7. TypeOK'
  BY <1>1, <1>2, <1>4 DEF LInv, TypeOK
<1>8. Shape'
  BY <1>1 DEF LInv, Shape
<1>9. Acquired'
  BY <1>1, <1>6 DEF LInv, Acquired
<1>10. Noted'
  <2>1. \A u \in Thread : Order[at] = <<"thread", u>> => u = t
    BY <1>3
  <2> QED BY <1>1, <1>5, <2>1 DEF LInv, Noted, Over
<1>11. Kept'
  BY <1>1 DEF LInv, Kept, Over, Needs
<1>12. NoCollector' /\ Stopping' /\ Accounted' /\ OnlyForgotten'
  BY <1>1 DEF NoCollector, Stopping, Accounted, Undoing, OnlyForgotten
<1> QED BY <1>7, <1>8, <1>9, <1>10, <1>11, <1>12 DEF LInv

LEMMA DiskKeeps == ASSUME LInv, add_disk PROVE LInv'
<1>1. pc = "init" /\ pc' = "up" /\ added' = TRUE
      /\ UNCHANGED <<at, live, todo, flag, task, tpc, stopped, killed>>
  BY DEF add_disk, threads
<1>2. TypeOK' /\ Shape'
  BY <1>1 DEF LInv, TypeOK, Shape
<1>3. Noted' /\ Kept'
  BY <1>1 DEF LInv, Noted, Kept, Over, Needs
<1>4. Acquired' /\ NoCollector' /\ Stopping' /\ Accounted' /\ OnlyForgotten'
  BY <1>1 DEF Acquired, NoCollector, Stopping, Accounted, Undoing, OnlyForgotten
<1> QED BY <1>2, <1>3, <1>4 DEF LInv

(* fb_exit has everything released, and each thread stopped before.         *)
LEMMA UnloadKeeps == ASSUME LInv, Unload PROVE LInv'
<1>1. pc = "up" /\ pc' = "exit" /\ todo' = fb_exit
      /\ UNCHANGED <<at, live, added, flag, task, tpc, stopped, killed>>
  BY DEF Unload, threads
<1>2. TypeOK'
  BY <1>1 DEF LInv, TypeOK
<1>3. Shape'
  BY <1>1, ExitProgram DEF LInv, Shape
<1>4. Noted' /\ Kept'
  BY <1>1 DEF LInv, Noted, Kept, Over, Needs
<1>5. Acquired' /\ NoCollector' /\ OnlyForgotten'
  BY <1>1 DEF Acquired, NoCollector, OnlyForgotten
<1>6. Stopping'
  <2>1. SUFFICES ASSUME NEW t \in Thread, NEW c \in NeedsOf(t) PROVE Awaited(fb_exit, c, t)
    BY <1>1 DEF Stopping
  <2>2. t # Wb => t \in Bus
    BY LifecycleAssumption DEF Thread, Bus, Wb
  <2>3. After(fb_exit, c, t)
    BY <2>1, <2>2, ExitProgram DEF NeedsOf
  <2> QED BY <2>3, Programmed
<1>7. Accounted'
  <2>1. \A o \in live : o[1] \in Comps
    BY Places, Objects DEF LInv, TypeOK, Shape
  <2> QED BY <1>1, <2>1, ExitProgram DEF Accounted, Leftover
<1> QED BY <1>2, <1>3, <1>4, <1>5, <1>6, <1>7 DEF LInv

----------------------------------------------------------------------------
(* What is undone.                                                         *)

LEMMA Heads ==
  ASSUME NEW kind \in {"del_gendisk", "release", "disable", "stop", "kthread_stop", "join"},
         LInv, Next1(kind)
  PROVE  /\ todo \in Seq(Cmd) /\ todo # <<>> /\ Head(todo) \in Cmd /\ Undoing
         /\ pc \notin {"init", "assign"}
         /\ kind = "del_gendisk" => Head(todo) = <<"del_gendisk">>
         /\ kind = "release" => Head(todo) = <<"release", Target>> /\ Target \in Comps
         /\ kind \in {"disable", "stop", "kthread_stop", "join"} =>
              Head(todo) = <<kind, Target>> /\ Target \in Thread
<1>1. todo \in Seq(Cmd) /\ todo # <<>> /\ Head(todo)[1] = kind /\ Undoing
  BY DEF LInv, Shape, Next1
<1>2. Head(todo) \in Cmd
  BY <1>1, Popped
<1>3. /\ kind = "del_gendisk" => Head(todo) = <<"del_gendisk">>
      /\ kind = "release" => \E c \in Comps : Head(todo) = <<"release", c>>
      /\ kind \in {"disable", "stop", "kthread_stop", "join"} =>
           \E t \in Thread : Head(todo) = <<kind, t>>
  BY <1>1, <1>2 DEF Cmd
<1> QED BY <1>1, <1>2, <1>3 DEF Target, Undoing

(* A step of the undoing that leaves the threads and what is live alone     *)
(* keeps the invariant if the rest of the program still stops each thread   *)
(* and still releases what is live.                                         *)
LEMMA UndoKeeps ==
  ASSUME LInv, Undoing, pc' \in {pc, "crashed"}, todo' \in Seq(Cmd), added' \in BOOLEAN,
         UNCHANGED <<at, live, task, tpc, killed>>,
         flag' \in [Thread -> BOOLEAN], stopped' \in [Thread -> BOOLEAN],
         pc' = pc => /\ \A t \in Thread : ~Over(t) => \A c \in NeedsOf(t) : Awaited(todo', c, t)
                     /\ \A c : Releases(todo, c) => Releases(todo', c)
  PROVE  LInv'
<1>1. pc \in {"unwind", "exit"} /\ pc' \in {"unwind", "exit", "crashed"}
  BY DEF Undoing
<1>2. TypeOK'
  BY <1>1 DEF LInv, TypeOK
<1>3. Shape' /\ Acquired' /\ OnlyForgotten'
  BY <1>1 DEF LInv, Shape, Acquired, OnlyForgotten
<1>4. NoCollector'
  BY <1>1 DEF LInv, NoCollector
<1>5. Noted' /\ Kept'
  BY <1>1 DEF LInv, Noted, Kept, Over, Needs
<1>6. Undoing' => pc' = pc
  BY DEF Undoing
<1>7. Stopping'
  BY <1>6 DEF Stopping, Over
<1>8. Accounted'
  BY <1>1, <1>6 DEF LInv, Accounted, Leftover
<1> QED BY <1>2, <1>3, <1>4, <1>5, <1>7, <1>8 DEF LInv

LEMMA GendiskKeeps == ASSUME LInv, del_gendisk PROVE LInv'
<1>1. /\ todo \in Seq(Cmd) /\ todo # <<>> /\ Undoing /\ Head(todo) = <<"del_gendisk">>
      /\ UNCHANGED <<at, live, flag, task, tpc, stopped, killed>>
      /\ \/ added' = FALSE /\ todo' = Tail(todo) /\ pc' = pc
         \/ pc' = "crashed" /\ UNCHANGED <<added, todo>>
  BY Heads DEF del_gendisk, threads
<1>2. flag' \in [Thread -> BOOLEAN] /\ stopped' \in [Thread -> BOOLEAN]
      /\ todo' \in Seq(Cmd) /\ added' \in BOOLEAN
  BY <1>1, Popped DEF LInv, TypeOK
<1>3. ASSUME pc' = pc
      PROVE  /\ \A t \in Thread : ~Over(t) => \A c \in NeedsOf(t) : Awaited(todo', c, t)
             /\ \A c : Releases(todo, c) => Releases(todo', c)
  <2>1. todo' = Tail(todo)
    BY <1>1, <1>3 DEF Undoing
  <2>2. (\A t : Head(todo) \notin Ends(t)) /\ (\A c : Head(todo) # <<"release", c>>)
    BY <1>1 DEF Ends
  <2> QED BY <1>1, <2>1, <2>2, Popped DEF LInv, Stopping, Releases
<1> QED BY <1>1, <1>2, <1>3, UndoKeeps

(* Nothing is released that a thread needs that is not over.                *)
LEMMA DestroyKeeps == ASSUME LInv, Destroy PROVE LInv'
<1>1. /\ todo \in Seq(Cmd) /\ todo # <<>> /\ Undoing /\ Head(todo) = <<"release", Target>> /\ Target \in Comps
      /\ todo' = Tail(todo) /\ UNCHANGED <<pc, at, added, flag, task, tpc, stopped, killed>>
  BY Heads DEF Destroy, threads
<1>2. PICK d \in Comps : d = Target
  BY <1>1
<1>3. live' = live \ Frees(d) /\ Head(todo) = <<"release", d>>
  BY <1>1, <1>2 DEF Destroy
<1>4. pc \in {"unwind", "exit"} /\ pc' = pc
  BY <1>1 DEF Undoing
<1>5. TypeOK'
  BY <1>1, <1>3 DEF LInv, TypeOK
<1>6. Tail(todo) \in Seq(Cmd)
  BY <1>1, Popped
<1>7. Shape' /\ Acquired' /\ NoCollector' /\ OnlyForgotten'
  BY <1>1, <1>3, <1>4, <1>6 DEF LInv, Shape, Acquired, NoCollector, OnlyForgotten
<1>8. Noted'
  BY <1>1 DEF LInv, Noted, Over
<1>9. \A t \in Thread : ~Over(t) => \A c \in NeedsOf(t) : Awaited(todo, c, t)
  BY <1>1 DEF LInv, Stopping
<1>10. Kept'
  <2>1. SUFFICES ASSUME NEW t \in Thread, ~Over(t), NEW o \in Needs(t) PROVE o \in live'
    BY <1>1 DEF Kept, Over
  <2>2. o \in live
    BY <2>1 DEF LInv, Kept
  <2>3. PICK c \in NeedsOf(t) : o \in PartsOf(c)
    BY <2>1 DEF Needs
  <2>4. Awaited(todo, c, t)
    BY <1>9, <2>1
  <2>5. c # d
    BY <1>1, <1>3, <2>4, Popped
  <2>6. o \notin PartsOf(d)
    BY <2>3, <2>5 DEF PartsOf
  <2> QED BY <1>3, <2>2, <2>6, Released
<1>11. Stopping'
  <2>1. \A t : Head(todo) \notin Ends(t)
    BY <1>3 DEF Ends
  <2>2. \A t \in Thread : ~Over(t) => \A c \in NeedsOf(t) : Awaited(Tail(todo), c, t)
    BY <1>1, <1>9, <2>1, Popped
  <2> QED BY <1>1, <2>2 DEF Stopping, Over
<1>12. Accounted'
  <2>1. SUFFICES ASSUME NEW o \in live, o \notin Frees(d) PROVE Leftover(o)'
    BY <1>3 DEF Accounted
  <2>2. o \in Object /\ Leftover(o)
    BY <1>1 DEF LInv, TypeOK, Accounted
  <2>3. CASE o[1] = d
    <3>1. o \in PartsOf(d)
      BY <2>2, <2>3 DEF PartsOf
    <3> QED BY <2>1, <3>1, Released DEF Leftover
  <2>4. CASE o[1] # d
    <3>1. <<"release", o[1]>> # Head(todo)
      BY <1>3, <2>4
    <3>2. Releases(todo, o[1]) => Releases(Tail(todo), o[1])
      BY <1>1, <3>1, Popped DEF Releases
    <3> QED BY <1>1, <2>2, <3>2 DEF Leftover
  <2> QED BY <2>3, <2>4
<1> QED BY <1>5, <1>7, <1>8, <1>10, <1>11, <1>12 DEF LInv

LEMMA DisableKeeps == ASSUME LInv, Disable PROVE LInv'
<1>1. /\ todo \in Seq(Cmd) /\ todo # <<>> /\ Undoing /\ Head(todo) = <<"disable", Target>>
      /\ todo' = Tail(todo) /\ flag' = [flag EXCEPT ![Target] = FALSE]
      /\ UNCHANGED <<pc, at, live, added, task, tpc, stopped, killed>>
  BY Heads DEF Disable
<1>2. flag' \in [Thread -> BOOLEAN] /\ stopped' \in [Thread -> BOOLEAN]
      /\ todo' \in Seq(Cmd) /\ added' \in BOOLEAN
  BY <1>1, Popped DEF LInv, TypeOK
<1>3. (\A t : Head(todo) \notin Ends(t)) /\ (\A c : Head(todo) # <<"release", c>>)
  BY <1>1 DEF Ends
<1>4. /\ \A t \in Thread : ~Over(t) => \A c \in NeedsOf(t) : Awaited(todo', c, t)
      /\ \A c : Releases(todo, c) => Releases(todo', c)
  BY <1>1, <1>3, Popped DEF LInv, Stopping, Releases
<1> QED BY <1>1, <1>2, <1>4, UndoKeeps

(* A thread without a task is over: there is none to wait for.              *)
LEMMA CheckKeeps == ASSUME LInv, CheckTask PROVE LInv'
<1>1. /\ todo \in Seq(Cmd) /\ todo # <<>> /\ Undoing /\ pc # "assign"
      /\ Head(todo) = <<"stop", Target>> /\ Target \in Thread
      /\ UNCHANGED <<pc, at, live, added, flag, task, tpc, stopped, killed>>
  BY Heads DEF CheckTask, threads
<1>2. PICK u \in Thread : u = Target
  BY <1>1
<1>3. /\ Head(todo) = <<"stop", u>>
      /\ todo' = (IF task[u] = "null" THEN <<>> ELSE << <<"kthread_stop", u>> >>) \o Tail(todo)
  BY <1>1, <1>2 DEF CheckTask
<1>4. (\A t : t # u => Head(todo) \notin Ends(t)) /\ (\A c : Head(todo) # <<"release", c>>)
  BY <1>3 DEF Ends
<1>5. /\ flag' \in [Thread -> BOOLEAN] /\ stopped' \in [Thread -> BOOLEAN] /\ added' \in BOOLEAN
      /\ \A t \in Thread : ~Over(t) => \A c \in NeedsOf(t) : Awaited(todo, c, t)
  BY <1>1 DEF LInv, TypeOK, Stopping
<1>6. CASE task[u] = "null"
  <2>1. todo' = Tail(todo) /\ Tail(todo) \in Seq(Cmd)
    <3>1. Tail(todo) \in Seq(Cmd)
      BY <1>1, Popped
    <3>2. <<>> \o Tail(todo) = Tail(todo)
      BY <3>1, ConcatEmptySeq
    <3> QED BY <1>3, <1>6, <3>1, <3>2
  <2>2. Over(u)
    BY <1>1, <1>6 DEF LInv, Noted
  <2>3. /\ \A t \in Thread : ~Over(t) => \A c \in NeedsOf(t) : Awaited(todo', c, t)
        /\ \A c : Releases(todo, c) => Releases(todo', c)
    BY <1>1, <1>4, <1>5, <2>1, <2>2, Popped DEF Releases
  <2> QED BY <1>1, <1>5, <2>1, <2>3, UndoKeeps
<1>7. CASE task[u] # "null"
  <2>1. <<"kthread_stop", u>> \in Cmd
    BY DEF Cmd
  <2>2. todo' = << <<"kthread_stop", u>> >> \o Tail(todo)
    BY <1>3, <1>7
  <2>3. <<"kthread_stop", u>> \in Ends(u) /\ \A c : <<"kthread_stop", u>> # <<"release", c>>
    BY DEF Ends
  <2>4. \A t : Head(todo) \in Ends(t) => <<"kthread_stop", u>> \in Ends(t)
    BY <1>4, <2>3
  <2>5. /\ todo' \in Seq(Cmd)
        /\ \A t \in Thread : ~Over(t) => \A c \in NeedsOf(t) : Awaited(todo', c, t)
        /\ \A c : Releases(todo, c) => Releases(todo', c)
    BY <1>1, <1>4, <1>5, <2>1, <2>2, <2>3, <2>4, Swapped DEF Releases
  <2> QED BY <1>1, <1>5, <2>5, UndoKeeps
<1> QED BY <1>6, <1>7

LEMMA StopKeeps == ASSUME LInv, kthread_stop PROVE LInv'
<1>1. /\ todo \in Seq(Cmd) /\ todo # <<>> /\ Undoing
      /\ Head(todo) = <<"kthread_stop", Target>> /\ Target \in Thread
      /\ UNCHANGED <<at, live, added, flag, task, tpc, killed>>
  BY Heads DEF kthread_stop
<1>2. PICK u \in Thread : u = Target
  BY <1>1
<1>3. /\ Head(todo) = <<"kthread_stop", u>>
      /\ \/ pc' = "crashed" /\ UNCHANGED <<todo, stopped>>
         \/ /\ stopped' = [stopped EXCEPT ![u] = TRUE]
            /\ todo' = << <<"join", u>> >> \o Tail(todo) /\ pc' = pc
  BY <1>1, <1>2 DEF kthread_stop
<1>4. /\ flag' \in [Thread -> BOOLEAN] /\ stopped' \in [Thread -> BOOLEAN] /\ added' \in BOOLEAN
      /\ \A t \in Thread : ~Over(t) => \A c \in NeedsOf(t) : Awaited(todo, c, t)
  BY <1>1, <1>3 DEF LInv, TypeOK, Stopping
<1>5. CASE pc' = "crashed" /\ UNCHANGED <<todo, stopped>>
  <2>1. pc' # pc
    BY <1>1, <1>5 DEF Undoing
  <2> QED BY <1>1, <1>4, <1>5, <2>1, UndoKeeps
<1>6. CASE todo' = << <<"join", u>> >> \o Tail(todo) /\ pc' = pc
  <2>1. <<"join", u>> \in Cmd
    BY DEF Cmd
  <2>2. /\ <<"join", u>> \in Ends(u)
        /\ \A c : <<"join", u>> # <<"release", c>> /\ Head(todo) # <<"release", c>>
        /\ \A t : Head(todo) \in Ends(t) => t = u
    BY <1>3 DEF Ends
  <2>3. /\ todo' \in Seq(Cmd)
        /\ \A t \in Thread : ~Over(t) => \A c \in NeedsOf(t) : Awaited(todo', c, t)
        /\ \A c : Releases(todo, c) => Releases(todo', c)
    BY <1>1, <1>4, <1>6, <2>1, <2>2, Swapped DEF Releases
  <2> QED BY <1>1, <1>4, <1>6, <2>3, UndoKeeps
<1> QED BY <1>3, <1>5, <1>6

LEMMA JoinKeeps == ASSUME LInv, Join PROVE LInv'
<1>1. /\ todo \in Seq(Cmd) /\ todo # <<>> /\ Undoing /\ Head(todo) = <<"join", Target>>
      /\ Over(Target) /\ todo' = Tail(todo)
      /\ UNCHANGED <<pc, at, live, added, flag, task, tpc, stopped, killed>>
  BY Heads DEF Join, threads, Over
<1>2. /\ flag' \in [Thread -> BOOLEAN] /\ stopped' \in [Thread -> BOOLEAN]
      /\ todo' \in Seq(Cmd) /\ added' \in BOOLEAN
  BY <1>1, Popped DEF LInv, TypeOK
<1>3. (\A t : t # Target => Head(todo) \notin Ends(t)) /\ (\A c : Head(todo) # <<"release", c>>)
  BY <1>1 DEF Ends
<1>4. /\ \A t \in Thread : ~Over(t) => \A c \in NeedsOf(t) : Awaited(todo', c, t)
      /\ \A c : Releases(todo, c) => Releases(todo', c)
  BY <1>1, <1>3, Popped DEF LInv, Stopping, Releases
<1> QED BY <1>1, <1>2, <1>4, UndoKeeps

(* When nothing is left to be done, what is live is forgotten.              *)
LEMMA ReturnKeeps == ASSUME LInv, Return PROVE LInv'
<1>1. /\ todo = <<>> /\ pc \in {"unwind", "exit"}
      /\ pc' = IF pc = "unwind" THEN "failed" ELSE "unloaded"
      /\ UNCHANGED <<at, live, todo, added, flag, task, tpc, stopped, killed>>
  BY DEF Return, Undoing, threads
<1>2. TypeOK'
  BY <1>1 DEF LInv, TypeOK
<1>3. Shape' /\ Acquired' /\ Stopping' /\ Accounted'
  BY <1>1 DEF LInv, Shape, Acquired, Stopping, Accounted, Undoing
<1>4. NoCollector'
  BY <1>1 DEF LInv, NoCollector
<1>5. Noted' /\ Kept'
  BY <1>1 DEF LInv, Noted, Kept, Over, Needs
<1>6. OnlyForgotten'
  <2>1. Len(todo) = 0
    BY <1>1
  <2>2. \A c : ~Releases(todo, c)
    BY <2>1 DEF Releases, Has
  <2>3. \A o \in live : o \in Forgotten \/ (pc = "unwind" /\ (o \in Vdisks \/ o[1] \in {"proc", "gd"}))
    BY <1>1, <2>2 DEF LInv, Accounted, Leftover, Undoing
  <2> QED BY <1>1, <2>3 DEF OnlyForgotten
<1> QED BY <1>2, <1>3, <1>4, <1>5, <1>6 DEF LInv

----------------------------------------------------------------------------
(* The threads.                                                            *)

LEMMA ThreadKeeps ==
  ASSUME LInv, UNCHANGED main, NEW t \in Thread, NEW w \in ThreadPc \ {"none"},
         ~Over(t), tpc' = [tpc EXCEPT ![t] = w],
         flag' \in [Thread -> BOOLEAN], stopped' \in [Thread -> BOOLEAN],
         killed' \in [Thread -> BOOLEAN], task' \in [Thread -> {"null", "task", "err"}],
         \A u \in Thread : task'[u] = task[u] \/ (u = t /\ (w = "exited" \/ task'[u] = "task"))
  PROVE  LInv'
<1>1. UNCHANGED <<pc, at, live, todo, added>>
  BY DEF main
<1>2. tpc \in [Thread -> ThreadPc]
  BY DEF LInv, TypeOK
<1>3. tpc' \in [Thread -> ThreadPc] /\ \A u \in Thread : tpc'[u] = IF u = t THEN w ELSE tpc[u]
  BY <1>2
<1>4. \A u \in Thread : /\ ~Over(u)' => ~Over(u)
                        /\ tpc'[u] # "none" => tpc[u] # "none"
                        /\ u = t /\ w = "exited" => Over(u)'
  BY <1>3 DEF Over
<1>5. TypeOK'
  BY <1>1, <1>3 DEF LInv, TypeOK
<1>6. Shape' /\ Accounted' /\ OnlyForgotten'
  BY <1>1 DEF LInv, Shape, Accounted, Undoing, Leftover, OnlyForgotten
<1>7. \A u \in Thread : tpc'[u] # "none" => tpc[u] # "none"
  BY <1>4
<1>8. Acquired'
  <2>1. SUFFICES ASSUME pc \in {"init", "assign"} PROVE Acquired'
    BY <1>1 DEF Acquired
  <2>2. \A u \in Thread : tpc'[u] # "none" =>
          \E x \in 1 .. Len(Order) : Order[x] = <<"thread", u>> /\ (x < at \/ (pc = "assign" /\ x = at))
    BY <1>7, <2>1, Zenon DEF LInv, Acquired
  <2> QED BY <1>1, <2>1, <2>2 DEF LInv, Acquired
<1>9. NoCollector'
  <2>1. Wb \in Thread
    BY CmdParts
  <2> QED BY <1>1, <1>7, <2>1, Zenon DEF LInv, NoCollector
<1>10. Noted'
  <2>1. SUFFICES ASSUME NEW u \in Thread, ~Over(u)'
                 PROVE  task'[u] # "null" \/ (pc = "assign" /\ Order[at] = <<"thread", u>>)
    BY <1>1 DEF Noted
  <2>2. task'[u] = task[u] \/ task'[u] = "task"
    BY <1>4, <2>1
  <2>3. ~Over(u)
    BY <1>4, <2>1
  <2>4. task[u] # "null" \/ (pc = "assign" /\ Order[at] = <<"thread", u>>)
    BY <2>3 DEF LInv, Noted
  <2> QED BY <2>2, <2>4
<1>11. Kept'
  BY <1>1, <1>4 DEF LInv, Kept, Needs
<1>12. Stopping'
  BY <1>1, <1>4 DEF LInv, Stopping, Undoing
<1> QED BY <1>5, <1>6, <1>8, <1>9, <1>10, <1>11, <1>12 DEF LInv

LEMMA RunsKeep == ASSUME LInv, NEW t \in Thread, Run(t) \/ Killed(t) PROVE LInv'
<1>1. /\ flag \in [Thread -> BOOLEAN] /\ stopped \in [Thread -> BOOLEAN]
      /\ killed \in [Thread -> BOOLEAN] /\ task \in [Thread -> {"null", "task", "err"}]
  BY DEF LInv, TypeOK
<1>2. CASE Begin(t)
  <2>1. PICK w \in {"loop", "exited"} :
          /\ tpc[t] = "new" /\ tpc' = [tpc EXCEPT ![t] = w]
          /\ task' = task \/ task' = [task EXCEPT ![t] = "task"]
          /\ UNCHANGED <<main, flag, stopped, killed>>
    BY <1>2 DEF Begin, Goto
  <2>2. w \in ThreadPc \ {"none"} /\ ~Over(t)
    BY <2>1 DEF ThreadPc, Over
  <2>3. /\ task' \in [Thread -> {"null", "task", "err"}]
        /\ \A u \in Thread : task'[u] = task[u] \/ (u = t /\ task'[u] = "task")
    BY <1>1, <2>1
  <2> QED BY <1>1, <2>1, <2>2, <2>3, ThreadKeeps
<1>3. CASE LoopHead(t)
  <2>1. PICK w \in {"work", "finish"} :
          tpc[t] = "loop" /\ tpc' = [tpc EXCEPT ![t] = w] /\ UNCHANGED <<main, flag, task, stopped, killed>>
    BY <1>3 DEF LoopHead, Goto
  <2>2. w \in ThreadPc \ {"none"} /\ ~Over(t)
    BY <2>1 DEF ThreadPc, Over
  <2> QED BY <1>1, <2>1, <2>2, ThreadKeeps
<1>4. CASE EndOfTurn(t)
  <2>1. PICK w \in {"loop", "finish", "spin"} :
          tpc[t] = "work" /\ tpc' = [tpc EXCEPT ![t] = w] /\ UNCHANGED <<main, flag, task, stopped, killed>>
    BY <1>4 DEF EndOfTurn, Goto
  <2>2. w \in ThreadPc \ {"none"} /\ ~Over(t)
    BY <2>1 DEF ThreadPc, Over
  <2> QED BY <1>1, <2>1, <2>2, ThreadKeeps
<1>5. CASE Killed(t)
  <2>1. /\ tpc[t] = "work" /\ tpc' = [tpc EXCEPT ![t] = "finish"] /\ killed' = [killed EXCEPT ![t] = TRUE]
        /\ UNCHANGED <<main, flag, task, stopped>>
    BY <1>5 DEF Killed, Goto
  <2>2. "finish" \in ThreadPc \ {"none"} /\ ~Over(t) /\ killed' \in [Thread -> BOOLEAN]
    BY <1>1, <2>1 DEF ThreadPc, Over
  <2> QED BY <1>1, <2>1, <2>2, ThreadKeeps
<1>6. CASE Finish(t)
  <2>1. CASE /\ Goto(t, "finish", "finish_task") /\ flag' = [flag EXCEPT ![t] = FALSE] /\ task' = task
             /\ UNCHANGED <<main, stopped, killed>>
    <3>1. tpc[t] = "finish" /\ tpc' = [tpc EXCEPT ![t] = "finish_task"]
      BY <2>1 DEF Goto
    <3>2. "finish_task" \in ThreadPc \ {"none"} /\ ~Over(t) /\ flag' \in [Thread -> BOOLEAN]
      BY <1>1, <2>1, <3>1 DEF ThreadPc, Over
    <3> QED BY <1>1, <2>1, <3>1, <3>2, ThreadKeeps
  <2>2. CASE /\ Goto(t, "finish_task", "exited") /\ task' = [task EXCEPT ![t] = "null"] /\ flag' = flag
             /\ UNCHANGED <<main, stopped, killed>>
    <3>1. tpc[t] = "finish_task" /\ tpc' = [tpc EXCEPT ![t] = "exited"]
      BY <2>2 DEF Goto
    <3>2. "exited" \in ThreadPc \ {"none"} /\ ~Over(t)
      BY <3>1 DEF ThreadPc, Over
    <3>3. /\ task' \in [Thread -> {"null", "task", "err"}]
          /\ \A u \in Thread : task'[u] = task[u] \/ u = t
      BY <1>1, <2>2
    <3> QED BY <1>1, <2>2, <3>1, <3>2, <3>3, ThreadKeeps
  <2> QED BY <1>6, <2>1, <2>2 DEF Finish
<1> QED BY <1>2, <1>3, <1>4, <1>5, <1>6 DEF Run

LEMMA StepKeeps == LInv /\ [Next]_vars => LInv'
<1> SUFFICES ASSUME LInv, [Next]_vars PROVE LInv'
  OBVIOUS
<1>1. CASE UNCHANGED vars
  <2>1. UNCHANGED <<pc, at, live, todo, added, flag, task, tpc, stopped, killed>>
    BY <1>1 DEF vars, main, threads
  <2>2. TypeOK' /\ Shape' /\ NoCollector' /\ OnlyForgotten'
    BY <2>1 DEF LInv, TypeOK, Shape, NoCollector, OnlyForgotten
  <2>3. Acquired'
    BY <2>1 DEF LInv, Acquired
  <2>4. Noted' /\ Kept'
    BY <2>1 DEF LInv, Noted, Kept, Over, Needs
  <2>5. Stopping' /\ Accounted'
    BY <2>1 DEF LInv, Stopping, Accounted, Over, Undoing, Leftover
  <2> QED BY <2>2, <2>3, <2>4, <2>5 DEF LInv
<1>2. CASE Main
  BY <1>2, AcquireKeeps, FailsKeeps, RunKeeps, AssignKeeps, DiskKeeps, GendiskKeeps, DestroyKeeps,
     DisableKeeps, CheckKeeps, StopKeeps, JoinKeeps, ReturnKeeps DEF Main
<1>3. CASE Unload
  BY <1>3, UnloadKeeps
<1>4. CASE \E t \in Thread : Run(t) \/ Killed(t)
  BY <1>4, RunsKeep
<1> QED BY <1>1, <1>2, <1>3, <1>4 DEF Next

LEMMA InvHolds == Spec => []LInv
<1>1. Init => LInv
  BY InitLInv
<1>2. LInv /\ [Next]_vars => LInv'
  BY StepKeeps
<1> QED BY <1>1, <1>2, PTL DEF Spec

----------------------------------------------------------------------------

(* fb_init never looks behind the end of what there is to acquire, what is *)
(* live was acquired by it, and ptr_task and ptr_wb_task are null, a task  *)
(* or the error of kthread_run.                                            *)
THEOREM LifecycleTyping == Spec => []TypeOK
<1>1. LInv => TypeOK
  BY DEF LInv
<1> QED BY <1>1, InvHolds, PTL

(* A thread that runs never looks at memory that was released: fb_exit      *)
(* (main.c) stops the collector before anything a round looks at, and        *)
(* destroy_vdevice every bus before its controller; an unwinding fb_init     *)
(* never has a collector.  This holds however a thread ends and wherever an  *)
(* allocation fails.                                                         *)
THEOREM NoUseAfterFreeEver == Spec => []NoUseAfterFree
<1>1. ASSUME LInv PROVE NoUseAfterFree
  <2>1. SUFFICES ASSUME NEW t \in Thread, tpc[t] \in {"loop", "work", "spin", "finish", "finish_task"}
                 PROVE  Uses(t) \subseteq live
    BY DEF NoUseAfterFree
  <2>2. Needs(t) \subseteq live
    BY <1>1, <2>1 DEF LInv, Kept, Over
  <2>3. CASE t \in Bus
    <3>1. t # Wb
      BY <2>3, LifecycleAssumption DEF Bus, Wb
    <3> QED BY <2>2, <2>3, <3>1 DEF Uses, Needs, NeedsOf
  <2>4. CASE t \notin Bus
    <3>1. t = Wb
      BY <2>4, LifecycleAssumption DEF Thread, Bus, Wb
    <3>2. Uses(t) = PartsOf("fb") \/ Uses(t) = UNION {PartsOf(c) : c \in {"fb", "vdevice", "ssd_info", "ftl"}}
      BY <2>4, <3>1 DEF Uses
    <3> QED BY <2>2, <3>1, <3>2 DEF Needs, NeedsOf, Rounds
  <2> QED BY <2>3, <2>4
<1>2. LInv => NoUseAfterFree
  BY <1>1
<1> QED BY <1>2, InvHolds, PTL

(* A module that was unloaded leaves only what no destroy function knows     *)
(* (ppas, first_valid_pg, pg_buf), and one whose load failed besides only    *)
(* the /proc entry, the gendisk and the virtual disks of a virtual device    *)
(* that failed: every object fb_init acquired is in the unwinding (main.c).  *)
THEOREM NothingElseLeaks == Spec => []OnlyForgotten
<1>1. LInv => OnlyForgotten
  BY DEF LInv
<1> QED BY <1>1, InvHolds, PTL

=============================================================================
