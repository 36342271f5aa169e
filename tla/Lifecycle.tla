------------------------------ MODULE Lifecycle ------------------------------
(***************************************************************************)
(* fb_init and fb_exit: what is acquired in which order, how a failure is  *)
(* unwound, and how the threads come up and are stopped.                   *)
(*                                                                         *)
(* Everything acquired is an object <<component, name, indices>>; `live'   *)
(* is the set of those not released.  fb_init acquires them one by one,    *)
(* in the order of Order.  Releasing a component is one step: nobody but   *)
(* the threads looks on, and those are stopped step by step.  Requests are *)
(* left out: the kernel keeps the module as long as the disk is open.      *)
(***************************************************************************)
EXTENDS Integers, SequencesExt

CONSTANTS
  NumBuses, NumChips, NumBlocks,  \* NUM_BUSES, NUM_CHIPS_PER_BUS, NUM_BLOCKS_PER_CHIP
  NumEntries                      \* NUM_PAGES_IN_WRITE_BUFFER

ASSUME LifecycleAssumption ==
  {NumBuses, NumChips, NumBlocks, NumEntries} \subseteq Nat \ {0}

(* The write buffer's thread and one thread per bus.                       *)
Wb == 0
Bus == 1 .. NumBuses
Thread == 0 .. NumBuses

----------------------------------------------------------------------------
(* What is acquired.                                                       *)

Each(n, Items(_)) == FlattenSeq([x \in 1 .. n |-> Items(x)])
Items(comp, names) == [x \in DOMAIN names |-> <<comp, names[x]>>]

create_opr_queue(b, c) == << <<"vdevice", "opr_queue", b, c>>, <<"vdevice", "opr_list", b, c>> >>

create_bus_controller(b) ==
  << <<"vdevice", "controller", b>>, <<"vdevice", "ptr_opr_queue", b>> >>
  \o Each(NumChips, LAMBDA c : create_opr_queue(b, c))
  \o << <<"vdevice", "chip_busies", b>> >>

fb_bus_controller_init ==
  << <<"vdevice", "controllers">> >>
  \o Each(NumBuses, create_bus_controller)
  \o Each(NumBuses, LAMBDA b : << <<"thread", b>> >>)

create_vdevice ==
  << <<"vdevice", "vdevice">> >>
  \o Each(NumBuses, LAMBDA b : << <<"vdevice", "vdisk", b>> >>)
  \o fb_bus_controller_init

create_ssd_info ==
  << <<"ssd_info", "ssd_info">>, <<"ssd_info", "list_buses">> >>
  \o Each(NumBuses, LAMBDA b : << <<"ssd_info", "list_chips", b>> >>
       \o Each(NumChips, LAMBDA c : << <<"ssd_info", "list_blocks", b, c>> >>
            \o Each(NumBlocks, LAMBDA k : << <<"ssd_info", "list_pages", b, c, k>> >>)))

create_page_mapping_table == Items("ftl", <<"mapping_table", "mappings">>)
create_act_blk_mngr == Items("ftl", <<"abm", "act_blks">>)
create_del_mngr ==
  Items("ftl", <<"delm", "btod", "wtod", "ppas", "delm_lpas_to_copy", "delm_data_to_copy">>)
create_gc_mngr ==
  Items("ftl", <<"gcm", "gc_blks", "vic_blks", "lpas_to_copy", "data_to_copy", "first_valid_pg">>)

create_pg_ftl ==
  Items("ftl", <<"ftl">>) \o create_page_mapping_table \o create_act_blk_mngr
  \o create_del_mngr \o create_gc_mngr \o Items("ftl", <<"lpas_to_discard">>)

fb_create_wb_entry(e) == << <<"wb", "entry", e>>, <<"wb", "data", e>> >>

fb_create_write_buffer ==
  << <<"wb", "wb">> >> \o Each(NumEntries, fb_create_wb_entry) \o << <<"wb", "pg_buf">> >>

(* fb_init. *)
Order ==
  Items("proc", <<"flashbench">>) \o Items("fb", <<"fb">>)
  \o create_vdevice \o create_ssd_info \o create_pg_ftl
  \o Items("queue", <<"req_queue">>) \o Items("blkdev", <<"major">>) \o Items("gd", <<"gd">>)
  \o fb_create_write_buffer \o << <<"thread", Wb>> >>

Object == {Order[x] : x \in DOMAIN Order}
PartsOf(comp) == {o \in Object : o[1] = comp}

----------------------------------------------------------------------------
(* How it is released.                                                     *)

Named(comp, names) == {o \in PartsOf(comp) : o[2] \in names}

destroy_bus_controller ==
  Named("vdevice", {"chip_busies", "opr_list", "opr_queue", "ptr_opr_queue", "controller"})
fb_bus_controller_destroy == destroy_bus_controller \union Named("vdevice", {"controllers"})
Vdisks == Named("vdevice", {"vdisk"})

destroy_ssd_info ==
  Named("ssd_info", {"list_pages", "list_blocks", "list_chips", "list_buses", "ssd_info"})

destroy_mapping_table == Named("ftl", {"mappings", "mapping_table"})
destroy_act_blk_mngr == Named("ftl", {"act_blks", "abm"})
destroy_del_mngr == Named("ftl", {"btod", "wtod", "delm_lpas_to_copy", "delm_data_to_copy", "delm"})
destroy_gc_mngr == Named("ftl", {"gc_blks", "vic_blks", "lpas_to_copy", "data_to_copy", "gcm"})
destroy_pg_ftl ==
  destroy_act_blk_mngr \union destroy_gc_mngr \union destroy_mapping_table
  \union destroy_del_mngr \union Named("ftl", {"lpas_to_discard", "ftl"})

fb_destroy_write_buffer == Named("wb", {"data", "entry", "wb"})

(* Mutant: the bus controllers are not released. *)
FreesNoControllers(comp) ==
  CASE comp = "vdevice" -> Vdisks \union Named("vdevice", {"vdevice"})
    [] comp = "ssd_info" -> destroy_ssd_info
    [] comp = "ftl" -> destroy_pg_ftl
    [] comp = "wb" -> fb_destroy_write_buffer
    [] OTHER -> PartsOf(comp)

(* What is released with a component: by its destroy function, or by the   *)
(* one call of the kernel that undoes another.                             *)
Frees(comp) ==
  CASE comp = "vdevice" -> fb_bus_controller_destroy \union Vdisks \union Named("vdevice", {"vdevice"})
    [] comp = "ssd_info" -> destroy_ssd_info
    [] comp = "ftl" -> destroy_pg_ftl
    [] comp = "wb" -> fb_destroy_write_buffer
    [] OTHER -> PartsOf(comp)

(* What a create function releases that fails half-way: the virtual disk   *)
(* of a bus is not among it (vdevice.rs:41, :80).                          *)
FreesFailed(comp) == Frees(comp) \ Vdisks

(* An allocation fails while a structure or an array whose entries the     *)
(* unwinding looks at is filled only up to this one: what comes later in   *)
(* it is whatever kmalloc or vmalloc returned.  In create_ssd_info that is *)
(* a later entry of the same or of an outer array; in create_pg_ftl any    *)
(* later field.                                                            *)
LeavesWild(x) ==
  \E y \in x + 1 .. Len(Order) :
    /\ Order[y][1] = Order[x][1]
    /\ \/ Order[x][1] = "ssd_info" /\ Len(Order[x]) > 2 /\ Len(Order[y]) <= Len(Order[x])
       \/ Order[x][1] = "ftl" /\ Order[x][2] # "ftl"

Release(comp) == << <<"release", comp>> >>
Stop(t) == << <<"disable", t>>, <<"stop", t>> >>

(* The threads of all buses are stopped first. *)
destroy_vdevice == Each(NumBuses, Stop) \o Release("vdevice")

(* The labels of fb_init, last to first; a failure enters at the one that  *)
(* belongs to its component.                                               *)
Unwinding(comp) ==
  LET labels == <<"wb", "gd", "blkdev", "queue", "ftl", "ssd_info", "vdevice", "fb">>
      at == CHOOSE x \in DOMAIN labels : labels[x] = comp
      undo == [c \in ToSet(labels) |->
                 IF c = "gd" THEN << <<"del_gendisk">> >>
                 ELSE IF c = "vdevice" THEN destroy_vdevice ELSE Release(c)]
  IN  FlattenSeq([x \in 1 .. Len(labels) - at |-> undo[labels[at + x]]])

(* Mutant: the buses go before the collector.                              *)
ExitBusesFirst ==
  << <<"del_gendisk">> >> \o Release("gd") \o Release("blkdev") \o Release("queue")
  \o destroy_vdevice \o Stop(Wb) \o Release("wb") \o Release("ftl") \o Release("ssd_info")
  \o Release("fb") \o Release("proc")

fb_exit ==
  << <<"del_gendisk">> >> \o Release("gd") \o Release("blkdev") \o Release("queue")
  \o Stop(Wb) \o Release("wb") \o Release("ftl") \o Release("ssd_info")
  \o destroy_vdevice \o Release("fb") \o Release("proc")

----------------------------------------------------------------------------
VARIABLES
  pc,       \* of fb_init or fb_exit
  at,       \* what fb_init acquires next, its place in Order
  live,     \* what is acquired and not released
  todo,     \* what is still to be undone
  added,    \* add_disk was called
  flag,     \* of a thread: flag_enable_thread, flag_enable_wb_thread
  task,     \* ptr_task, ptr_wb_task
  tpc,      \* where the thread stands
  stopped,  \* kthread_stop was called for it
  killed    \* it got SIGKILL

main == <<pc, at, live, todo, added>>
threads == <<flag, task, tpc, stopped, killed>>
vars == <<main, threads>>

Init ==
  /\ pc = "init" /\ at = 1 /\ live = {} /\ todo = <<>> /\ added = FALSE
  /\ flag = [t \in Thread |-> FALSE] /\ task = [t \in Thread |-> "null"]
  /\ tpc = [t \in Thread |-> "none"] /\ stopped = [t \in Thread |-> FALSE]
  /\ killed = [t \in Thread |-> FALSE]

----------------------------------------------------------------------------
(* fb_init.                                                                *)

Acquire ==
  /\ pc = "init" /\ at <= Len(Order) /\ Order[at][1] # "thread"
  /\ live' = live \union {Order[at]} /\ at' = at + 1
  /\ UNCHANGED <<pc, todo, added, threads>>

(* An allocation fails.  What its component has got so far is released     *)
(* where it fails, then the labels of fb_init follow.  That perf_init      *)
(* fails is not noticed.                                                   *)
AcquireFails ==
  /\ pc = "init" /\ at <= Len(Order) /\ Order[at][1] # "thread"
  /\ \/ /\ Order[at][1] = "proc"
        /\ at' = at + 1 /\ UNCHANGED <<pc, live, todo>>
     \/ /\ Order[at][1] # "proc"
        /\ pc' = "unwind" /\ todo' = Unwinding(Order[at][1])
        /\ live' = live \ FreesFailed(Order[at][1])
        /\ at' = at
     \/ /\ LeavesWild(at)
        /\ pc' = "crashed" /\ UNCHANGED <<at, live, todo>>
  /\ UNCHANGED <<added, threads>>

(* fb_init_bus_ctrl_thread, fb_init_write_buffer_thread: IS_ERR is never   *)
(* negative, so a thread that could not be created goes unnoticed.         *)
kthread_run ==
  LET t == Order[at][2] IN
  /\ pc = "init" /\ at <= Len(Order) /\ Order[at][1] = "thread"
  /\ flag' = [flag EXCEPT ![t] = TRUE]
  /\ \/ tpc' = [tpc EXCEPT ![t] = "new"] /\ pc' = "assign" /\ UNCHANGED <<at, task>>
     \/ task' = [task EXCEPT ![t] = "err"] /\ at' = at + 1 /\ UNCHANGED <<pc, tpc>>
  /\ UNCHANGED <<live, todo, added, stopped, killed>>

(* Mutant: one item too far.                                               *)
AssignTaskSkips ==
  /\ pc = "assign"
  /\ task' = [task EXCEPT ![Order[at][2]] = "task"]
  /\ pc' = "init" /\ at' = at + 2
  /\ UNCHANGED <<live, todo, added, flag, tpc, stopped, killed>>

(* The result is assigned while the thread may run already.                *)
AssignTask ==
  /\ pc = "assign"
  /\ task' = [task EXCEPT ![Order[at][2]] = "task"]
  /\ pc' = "init" /\ at' = at + 1
  /\ UNCHANGED <<live, todo, added, flag, tpc, stopped, killed>>

add_disk ==
  /\ pc = "init" /\ at > Len(Order)
  /\ added' = TRUE /\ pc' = "up"
  /\ UNCHANGED <<at, live, todo, threads>>

Unload ==
  /\ pc = "up" /\ pc' = "exit" /\ todo' = fb_exit
  /\ UNCHANGED <<at, live, added, threads>>

----------------------------------------------------------------------------
(* What fb_init undoes and what fb_exit does, one by one.                  *)

Undoing == pc \in {"unwind", "exit"}
Next1(kind) == Undoing /\ todo # <<>> /\ Head(todo)[1] = kind
Target == Head(todo)[2]

del_gendisk ==
  /\ Next1("del_gendisk")
  /\ \/ added' = FALSE /\ todo' = Tail(todo) /\ pc' = pc
     \/ ~added /\ pc' = "crashed" /\ UNCHANGED <<added, todo>>
  /\ UNCHANGED <<at, live, threads>>

Destroy ==
  /\ Next1("release") /\ todo' = Tail(todo)
  /\ live' = live \ Frees(Target)
  /\ UNCHANGED <<pc, at, added, threads>>

Disable ==
  /\ Next1("disable") /\ todo' = Tail(todo)
  /\ flag' = [flag EXCEPT ![Target] = FALSE]
  /\ UNCHANGED <<pc, at, live, added, task, tpc, stopped, killed>>

(* fb_stop_bus_ctrl_thread and the same for the write buffer's thread: no  *)
(* thread, none any more, or one to be stopped.                            *)
CheckTask ==
  /\ Next1("stop")
  /\ todo' = (IF task[Target] = "null" THEN <<>> ELSE << <<"kthread_stop", Target>> >>) \o Tail(todo)
  /\ UNCHANGED <<pc, at, live, added, threads>>

(* The pointer may be loaded once or again; what it points to is gone when *)
(* the thread has ended by itself, or is about to go.                      *)
kthread_stop ==
  /\ Next1("kthread_stop")
  /\ \/ /\ task[Target] \in {"err", "null"} \/ tpc[Target] = "exited"
        /\ pc' = "crashed" /\ UNCHANGED <<todo, stopped>>
     \/ /\ task[Target] # "err"
        /\ stopped' = [stopped EXCEPT ![Target] = TRUE]
        /\ todo' = << <<"join", Target>> >> \o Tail(todo) /\ pc' = pc
  /\ UNCHANGED <<at, live, added, flag, task, tpc, killed>>

(* Mutant: kthread_stop does not wait. *)
JoinAtOnce ==
  /\ Next1("join") /\ todo' = Tail(todo)
  /\ UNCHANGED <<pc, at, live, added, threads>>

Join ==
  /\ Next1("join") /\ tpc[Target] = "exited"
  /\ todo' = Tail(todo)
  /\ UNCHANGED <<pc, at, live, added, threads>>

Return ==
  /\ Undoing /\ todo = <<>>
  /\ pc' = IF pc = "unwind" THEN "failed" ELSE "unloaded"
  /\ UNCHANGED <<at, live, todo, added, threads>>

Main == Acquire \/ AcquireFails \/ kthread_run \/ AssignTask \/ add_disk
        \/ del_gendisk \/ Destroy \/ Disable \/ CheckTask \/ kthread_stop \/ Join \/ Return

----------------------------------------------------------------------------
(* fb_bus_ctrl_thread and fb_write_buffer_thread.                          *)

Goto(t, here, there) == tpc[t] = here /\ tpc' = [tpc EXCEPT ![t] = there]

(* A thread that is stopped before it first runs never enters its function.*)
Begin(t) ==
  \/ /\ Goto(t, "new", "loop") /\ ~stopped[t]
     /\ task' = [task EXCEPT ![t] = "task"] /\ UNCHANGED <<main, flag, stopped, killed>>
  \/ Goto(t, "new", "exited") /\ stopped[t] /\ UNCHANGED <<main, flag, task, stopped, killed>>

LoopHead(t) ==
  /\ \/ Goto(t, "loop", "work") /\ flag[t] /\ ~stopped[t]
     \/ Goto(t, "loop", "finish") /\ (~flag[t] \/ stopped[t])
  /\ UNCHANGED <<main, flag, task, stopped, killed>>

(* The end of a turn of the loop.  A round of the collector that fails     *)
(* ends the thread; one that runs once a bus has no thread any more may    *)
(* spin at a full queue for ever.                                          *)
EndOfTurn(t) ==
  /\ \/ Goto(t, "work", IF flag[t] THEN "loop" ELSE "finish")
     \/ t = Wb /\ Goto(t, "work", "finish")
     \/ t = Wb /\ (\E b \in Bus : tpc[b] \notin {"new", "loop", "work"}) /\ Goto(t, "work", "spin")
  /\ UNCHANGED <<main, flag, task, stopped, killed>>

(* SIGKILL, which both threads allow.                                      *)
Killed(t) ==
  /\ Goto(t, "work", "finish") /\ killed' = [killed EXCEPT ![t] = TRUE]
  /\ UNCHANGED <<main, flag, task, stopped>>

Finish(t) ==
  /\ \/ /\ Goto(t, "finish", "finish_task")
        /\ flag' = [flag EXCEPT ![t] = FALSE] /\ task' = task
     \/ /\ Goto(t, "finish_task", "exited")
        /\ task' = [task EXCEPT ![t] = "null"] /\ flag' = flag
  /\ UNCHANGED <<main, stopped, killed>>

Run(t) == Begin(t) \/ LoopHead(t) \/ EndOfTurn(t) \/ Finish(t)

----------------------------------------------------------------------------
Next == Main \/ Unload \/ \E t \in Thread : Run(t) \/ Killed(t)

Spec == Init /\ [][Next]_vars

(* Module loading, unloading and the threads, which yield, get their turn. *)
FairSpec == Spec /\ WF_vars(Main) /\ \A t \in Thread : WF_vars(Run(t))

----------------------------------------------------------------------------
(* Properties.                                                             *)

ThreadPc == {"none", "new", "loop", "work", "spin", "finish", "finish_task", "exited"}

(* Type invariant. *)
TypeOK ==
  /\ pc \in {"init", "assign", "up", "unwind", "exit", "failed", "unloaded", "crashed"}
  /\ at \in 1 .. Len(Order) + 1 /\ live \subseteq Object /\ added \in BOOLEAN
  /\ killed \in [Thread -> BOOLEAN]
  /\ flag \in [Thread -> BOOLEAN] /\ stopped \in [Thread -> BOOLEAN]
  /\ task \in [Thread -> {"null", "task", "err"}] /\ tpc \in [Thread -> ThreadPc]

(* What a thread that runs looks at: its controller, or the context, and   *)
(* during a round everything but the write buffer.                         *)
Uses(t) ==
  CASE t \in Bus -> {o \in PartsOf("vdevice") :
                       o[2] \notin {"vdevice", "vdisk", "controllers"} /\ o[3] = t}
    [] t = Wb /\ tpc[t] \in {"work", "spin"} ->
         UNION {PartsOf(c) : c \in {"fb", "vdevice", "ssd_info", "ftl"}}
    [] OTHER -> PartsOf("fb")

(* No thread runs on memory that was released, however it ends: stopped,   *)
(* killed, by its flag or by a failed round.                               *)
NoUseAfterFree ==
  \A t \in Thread : tpc[t] \in {"loop", "work", "spin", "finish", "finish_task"}
                    => Uses(t) \subseteq live

(* A module that was unloaded leaves behind only what no destroy function  *)
(* knows; a module that failed to load also the /proc entry, the gendisk,  *)
(* and the virtual disk of a virtual device that failed.                   *)
Forgotten == {<<"ftl", "ppas">>, <<"ftl", "first_valid_pg">>, <<"wb", "pg_buf">>}
OnlyForgotten ==
  /\ pc = "unloaded" => live \subseteq Forgotten
  /\ pc = "failed" => \A o \in live : o \in Forgotten \union Vdisks \/ o[1] \in {"proc", "gd"}

(* Unloading ends, unless it crashes at a thread that ended by itself, or  *)
(* waits for a collector that spins because a bus lost its thread: it was  *)
(* killed, or never created.                                               *)
BusLost == \E b \in Bus : killed[b] \/ task[b] = "err"
UnloadEnds == pc = "exit" ~> pc \in {"unloaded", "crashed"} \/ (tpc[Wb] = "spin" /\ BusLost)
=============================================================================
