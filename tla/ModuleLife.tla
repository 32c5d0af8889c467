----------------------------- MODULE ModuleLife ------------------------------
(***************************************************************************)
(* Loading and unloading of elevator_proc.ko (elevator_init, elevator_exit *)
(* in src/elevator_proc.c) while processes make the system calls of        *)
(* src/sys_*.c and read /proc/elevator, and while the scheduler thread     *)
(* runs.  Nothing keeps the module in memory while a call is inside it.    *)
(*                                                                         *)
(* What the calls and the thread do is reduced to what loading and         *)
(* unloading depend on: started, state, the lists that have been           *)
(* initialised, which floors have passengers, whether somebody is on       *)
(* board, and the global i.                                                *)
(***************************************************************************)
EXTENDS Integers, FiniteSets

CONSTANTS lastfloor, Callers, Readers

ASSUME LifeAssumption == lastfloor \in Nat \ {0} /\ IsFiniteSet(Callers)

Floors  == 1 .. lastfloor
onboard == 0
Lists   == {onboard} \cup Floors
Calls   == {"start_elevator", "stop_elevator", "issue_request"}

VARIABLES
  load,      \* the position of insmod and rmmod, "out" if the module is not there
  stub,      \* the STUB_ pointers that are not null
  entry,     \* whether /proc/elevator exists
  thread,    \* the scheduler thread
  started, state, ready, waiting,
  aboard,    \* whether the thread would find somebody on elevator.onboard
  i,         \* the global loop variable, one more than in the code
  mine,      \* the value of i that elevator_init may have in a register
  held,      \* held[c]: the value of i that print_passengers has in a register
  pc,        \* of each caller: its position in a system call
  reader,    \* of each reader
  met        \* history: what has overlapped, and whether the last load has failed

thingVars == <<stub, entry>>
dataVars  == <<started, state, ready, waiting, aboard, i>>
whoVars   == <<pc, held, reader>>
vars == <<load, thingVars, thread, dataVars, mine, whoVars, met>>

Initialising == {"init_start", "init_stop", "init_issue", "init_proc", "init_thread",
                 "init_undo", "init_fields", "init_onboard", "init_floors"}
Exiting      == {"exit_stop", "exit_delete", "exit_remove", "exit_wait",
                 "exit_start", "exit_stub", "exit_issue"}

Init ==
  /\ load = "out" /\ stub = {} /\ entry = FALSE /\ thread = "none"
  /\ started = 0 /\ state = "OFFLINE" /\ ready = {} /\ waiting = {}
  /\ aboard = FALSE /\ i = 1 /\ mine = 1
  /\ pc = [c \in Callers |-> "user"]
  /\ held = [c \in Callers |-> 1]
  /\ reader = [r \in Readers |-> "user"]
  /\ met = {}

In(c, k) == pc[c] \in CASE k = "start_elevator" -> {"start", "start_state", "start_started"}
                        [] k = "stop_elevator"  -> {"stop", "stop_state", "stop_started"}
                        [] k = "issue_request"  -> {"add", "print", "floor", "store"}
InCall(c) == pc[c] \notin {"user", "dead", "lost"}
Made(k)   == \E c \in Callers : In(c, k)

-----------------------------------------------------------------------------
(* elevator_init and elevator_exit, run by insmod and rmmod                *)

At(from, to) == load = from /\ load' = to

\* Slip: the elevator is idle from the start.
Slip_Insmod ==
  /\ At("out", "init_start")
  /\ started' = 0 /\ state' = "IDLE" /\ ready' = {} /\ waiting' = {}
  /\ aboard' = FALSE /\ i' = 1
  /\ UNCHANGED <<thingVars, thread, mine, whoVars>>

\* A module comes with its variables zero.
Insmod ==
  /\ At("out", "init_start")
  /\ started' = 0 /\ state' = "OFFLINE" /\ ready' = {} /\ waiting' = {}
  /\ aboard' = FALSE /\ i' = 1
  /\ UNCHANGED <<thingVars, thread, mine, whoVars>>

SetStub(from, c, to) ==
  /\ At(from, to)
  /\ stub' = stub \cup {c}
  /\ UNCHANGED <<entry, thread, dataVars, mine, whoVars>>

\* The memory of the module is freed.  Who is inside it, or is about to call
\* what he has loaded from a stub, has no code to go on with.
Free ==
  /\ pc' = [c \in Callers |-> IF InCall(c) THEN "dead" ELSE pc[c]]
  /\ held' = [c \in Callers |-> 1]
  /\ UNCHANGED <<thread, dataVars, mine, reader>>

ProcCreate ==
  \/ /\ At("init_proc", "init_thread")
     /\ entry' = TRUE
     /\ UNCHANGED <<stub, thread, dataVars, mine, whoVars>>
  \/ At("init_proc", "out") /\ Free /\ UNCHANGED thingVars

\* Slip: goes on without a thread.
Slip_thread_init_parameter ==
  /\ At("init_thread", "init_fields") /\ thread' \in {"look", thread}
  /\ UNCHANGED <<thingVars, dataVars, mine, whoVars>>

thread_init_parameter ==
  /\ \/ At("init_thread", "init_fields") /\ thread' = "look"
     \/ At("init_thread", "init_undo") /\ UNCHANGED thread
  /\ UNCHANGED <<thingVars, dataVars, mine, whoVars>>

RemoveEntry(from, to) ==
  /\ At(from, to)
  /\ entry' = FALSE
  /\ UNCHANGED <<stub, thread, dataVars, mine, whoVars>>

\* remove_proc_entry waits until nobody reads.  A reader who has died inside
\* has not given back his use of the entry.
NoReader == \A r \in Readers : reader[r] = "user"

InitUndone ==
  /\ At("init_undo", "out") /\ entry = FALSE /\ NoReader
  /\ Free
  /\ UNCHANGED thingVars

InitUndo == RemoveEntry("init_undo", "init_undo") /\ entry = TRUE

InitFields ==
  /\ At("init_fields", "init_onboard")
  /\ state' = "OFFLINE"
  /\ UNCHANGED <<thingVars, thread, started, ready, waiting, aboard, i, mine, whoVars>>

InitOnboard ==
  /\ At("init_onboard", "init_floors")
  /\ ready' = ready \cup {onboard} /\ aboard' = FALSE
  /\ i' = 1 /\ mine' = 1
  /\ UNCHANGED <<thingVars, thread, started, state, waiting, whoVars>>

\* Slip: starts with the second floor.
Slip_InitFloor ==
  \E k \in {i, mine} :
    /\ IF k < lastfloor
       THEN /\ load = "init_floors" /\ load' = load
            /\ ready' = ready \cup {k + 1} /\ waiting' = waiting \ {k + 1}
            /\ i' = k + 1 /\ mine' = k + 1
       ELSE /\ At("init_floors", "live")
            /\ mine' = 1
            /\ UNCHANGED <<ready, waiting, i>>
    /\ UNCHANGED <<thingVars, thread, started, state, aboard, whoVars>>

\* INIT_LIST_HEAD(&floors[i]).  The build may keep i in a register or not.
InitFloor ==
  \E k \in {i, mine} :
    /\ IF k \in Floors
       THEN /\ load = "init_floors" /\ load' = load
            /\ ready' = ready \cup {k} /\ waiting' = waiting \ {k}
            /\ i' = k + 1 /\ mine' = k + 1
       ELSE /\ At("init_floors", "live")
            /\ mine' = 1
            /\ UNCHANGED <<ready, waiting, i>>
    /\ UNCHANGED <<thingVars, thread, started, state, aboard, whoVars>>

Rmmod == At("live", "exit_stop") /\ UNCHANGED <<thingVars, thread, dataVars, mine, whoVars>>

\* Of a thread that has died kthread_stop uses what may have been freed: it may
\* come back or not.  Nobody looks any more at those who are still on board.
KthreadStop ==
  /\ At("exit_stop", "exit_delete") /\ thread \in {"ended", "dead"}
  /\ thread' = "none" /\ aboard' = FALSE
  /\ UNCHANGED <<thingVars, started, state, ready, waiting, i, mine, whoVars>>

\* Slip: the loop ends before the last floor.
Slip_delete_passenger ==
  /\ At("exit_delete", "exit_remove")
  /\ waiting' = waiting \cap {lastfloor}
  /\ UNCHANGED <<thingVars, thread, started, state, ready, aboard, i, mine, whoVars>>

delete_passenger ==
  /\ At("exit_delete", "exit_remove")
  /\ waiting' = {}
  /\ UNCHANGED <<thingVars, thread, started, state, ready, aboard, i, mine, whoVars>>

\* Slip: goes on while somebody reads.
Slip_Removed ==
  /\ At("exit_wait", "exit_start")
  /\ UNCHANGED <<thingVars, thread, dataVars, mine, whoVars>>

Removed ==
  /\ At("exit_wait", "exit_start") /\ NoReader
  /\ UNCHANGED <<thingVars, thread, dataVars, mine, whoVars>>

ClearStub(from, c, to) ==
  /\ At(from, to)
  /\ stub' = stub \ {c}
  /\ UNCHANGED <<entry, thread, dataVars, mine, whoVars>>

ExitEnd ==
  /\ At("exit_issue", "out")
  /\ stub' = stub \ {"issue_request"}
  /\ Free
  /\ UNCHANGED entry

elevator_init ==
  \/ SetStub("init_start", "start_elevator", "init_stop")
  \/ SetStub("init_stop", "stop_elevator", "init_issue")
  \/ SetStub("init_issue", "issue_request", "init_proc")
  \/ ProcCreate \/ thread_init_parameter \/ InitUndo \/ InitUndone
  \/ InitFields \/ InitOnboard \/ InitFloor

elevator_exit ==
  \/ KthreadStop \/ delete_passenger
  \/ RemoveEntry("exit_remove", "exit_wait") \/ Removed
  \/ ClearStub("exit_start", "start_elevator", "exit_stub")
  \/ ClearStub("exit_stub", "stop_elevator", "exit_issue")
  \/ ExitEnd

-----------------------------------------------------------------------------
(* The scheduler thread                                                    *)

ThreadStep(from, to) ==
  /\ thread = from /\ thread' = to
  /\ UNCHANGED <<load, thingVars, started, ready, i, mine, whoVars>>

\* All zero, onboard looks like a list with somebody on it, for whom
\* min_onboard returns -1, and move_elevator sleeps.  OFFLINE with nobody on
\* board the thread looks again.
ThreadLook ==
  /\ UNCHANGED <<state, waiting, aboard>>
  /\ \/ load = "exit_stop" /\ ThreadStep("look", "ended")
     \/ /\ load # "exit_stop" /\ state = "OFFLINE"
        /\ \/ onboard \notin ready /\ ThreadStep("look", "sleep")
           \/ onboard \in ready /\ aboard /\ ThreadStep("look", "drain")
     \/ /\ load # "exit_stop" /\ state # "OFFLINE"
        /\ ThreadStep("look", IF state = "IDLE" THEN "idle" ELSE "serve")

\* Sleeping for two seconds takes longer than the rest of elevator_init.
ThreadWake ==
  /\ ThreadStep("sleep", "look") /\ onboard \in ready
  /\ UNCHANGED <<state, waiting, aboard>>

\* The loop of the OFFLINE branch ends when the last one gets off, which module
\* Elevator shows need not happen; until then nobody asks kthread_should_stop.
ThreadDrained ==
  /\ ThreadStep("drain", "look")
  /\ aboard' = FALSE
  /\ UNCHANGED <<state, waiting>>

\* A list that is all zero has no first entry.
ThreadScan ==
  /\ ThreadStep("idle", IF Floors \subseteq ready THEN "look" ELSE "dead")
  /\ state' = IF Floors \subseteq ready /\ waiting # {} THEN "UP" ELSE state
  /\ UNCHANGED <<waiting, aboard>>

\* One round of the last branch: some get off; on a floor with somebody waiting
\* some are let in or greeted, and nobody may be left there.
ThreadServe ==
  /\ ThreadStep("serve", "look")
  /\ \/ waiting' = waiting /\ aboard' \in {aboard, FALSE}
     \/ \E f \in waiting : waiting' \in {waiting, waiting \ {f}} /\ aboard' \in BOOLEAN
  /\ state' = IF aboard' THEN "UP" ELSE "IDLE"

Thread == ThreadLook \/ ThreadWake \/ ThreadDrained \/ ThreadScan \/ ThreadServe

-----------------------------------------------------------------------------
(* A process: sys_start_elevator, sys_stop_elevator, sys_issue_request     *)

CallStep(c, from, to) ==
  /\ pc[c] = from /\ pc' = [pc EXCEPT ![c] = to]
  /\ UNCHANGED <<load, thingVars, thread, mine, reader>>
  /\ held' = IF from = "floor" THEN [held EXCEPT ![c] = i] ELSE [held EXCEPT ![c] = 1]

Body == [start_elevator |-> "start", stop_elevator |-> "stop", issue_request |-> "add"]

\* The calls whose stub, if it is not null, is left from a load that failed.
Stale == CASE load \in {"out", "init_start"} -> Calls
           [] load = "init_stop"             -> {"stop_elevator", "issue_request"}
           [] load = "init_issue"            -> {"issue_request"}
           [] OTHER                          -> {}

\* The pointer is loaded once, tested and called; if it is null the call returns
\* an error and nothing has happened.  What was freed is no code to call.
SystemCall(c, k) ==
  /\ k \in stub
  /\ CallStep(c, "user", IF k \in Stale THEN "dead" ELSE Body[k])
  /\ UNCHANGED dataVars

StartCheck(c) == /\ CallStep(c, "start", IF started = 1 THEN "user" ELSE "start_state")
                 /\ UNCHANGED dataVars

StartState(c) == /\ CallStep(c, "start_state", "start_started")
                 /\ state' = "IDLE"
                 /\ UNCHANGED <<started, ready, waiting, aboard, i>>

StartStarted(c) == /\ CallStep(c, "start_started", "user")
                   /\ started' = 1
                   /\ UNCHANGED <<state, ready, waiting, aboard, i>>

StopCheck(c) == /\ CallStep(c, "stop", IF started = 1 THEN "stop_state" ELSE "user")
                /\ UNCHANGED dataVars

StopState(c) == /\ CallStep(c, "stop_state", "stop_started")
                /\ state' = "OFFLINE"
                /\ UNCHANGED <<started, ready, waiting, aboard, i>>

\* Slip: leaves started as it is.
Slip_StopStarted(c) == CallStep(c, "stop_started", "user") /\ UNCHANGED dataVars

StopStarted(c) == /\ CallStep(c, "stop_started", "user")
                  /\ started' = 0
                  /\ UNCHANGED <<state, ready, waiting, aboard, i>>

\* Not valid, or without memory.
RequestRefused(c) == CallStep(c, "add", "user") /\ UNCHANGED dataVars

\* list_add_tail to a list that is all zero writes through a null pointer.
RequestAdd(c, f) ==
  /\ CallStep(c, "add", IF f \in ready THEN "print" ELSE "dead")
  /\ waiting' = IF f \in ready THEN waiting \cup {f} ELSE waiting
  /\ UNCHANGED <<started, state, ready, aboard, i>>

PrintBegin(c) == /\ CallStep(c, "print", "floor")
                 /\ i' = 1
                 /\ UNCHANGED <<started, state, ready, waiting, aboard>>

\* One round of print_passengers, on the list floors[i] as i is now.
\* floors[10] may lead anywhere.
PrintFloor(c) ==
  /\ CallStep(c, "floor", IF i \notin Floors THEN "lost"
                          ELSE IF i \in ready THEN "store" ELSE "dead")
  /\ UNCHANGED dataVars

\* Slip: adds one to i as it is now.
Slip_PrintStore(c) ==
  /\ CallStep(c, "store", IF held[c] = lastfloor THEN "user" ELSE "floor")
  /\ i' = i + 1
  /\ UNCHANGED <<started, state, ready, waiting, aboard>>

PrintStore(c) ==
  /\ CallStep(c, "store", IF held[c] = lastfloor THEN "user" ELSE "floor")
  /\ i' = held[c] + 1
  /\ UNCHANGED <<started, state, ready, waiting, aboard>>

CallBody(c) ==
  \/ StartCheck(c) \/ StartState(c) \/ StartStarted(c)
  \/ StopCheck(c) \/ StopState(c) \/ StopStarted(c)
  \/ RequestRefused(c) \/ (\E f \in Floors : RequestAdd(c, f))
  \/ PrintBegin(c) \/ PrintFloor(c) \/ PrintStore(c)

-----------------------------------------------------------------------------
(* A reader of /proc/elevator                                              *)

ReadStep(r, from, to) ==
  /\ reader[r] = from /\ reader' = [reader EXCEPT ![r] = to]
  /\ UNCHANGED <<load, thingVars, thread, dataVars, mine, pc, held>>

ReadBegin(r) == entry /\ ReadStep(r, "user", "in")

\* elevator_proc_read walks the lists of all floors.
ReadEnd(r) == ReadStep(r, "in", IF Floors \subseteq ready THEN "user" ELSE "dead")

-----------------------------------------------------------------------------
Step ==
  \/ Insmod \/ elevator_init \/ Rmmod \/ elevator_exit
  \/ Thread
  \/ \E c \in Callers : CallBody(c) \/ \E k \in Calls : SystemCall(c, k)
  \/ \E r \in Readers : ReadBegin(r) \/ ReadEnd(r)

Switching == {c \in Callers : In(c, "start_elevator") \/ In(c, "stop_elevator")}

\* Who has the global loop variable of print_passengers in use.
Printing == {c \in Callers : pc[c] \in {"floor", "store"}}

Inside == (\E c \in Callers : InCall(c)) \/ (\E r \in Readers : reader[r] = "in")

\* Which overlaps there are now.
Overlaps ==
  {m \in {"early", "early_start", "late", "late_request", "switch", "prints"} :
     CASE m = "early"        -> load \in Initialising /\ Inside
       [] m = "early_start"  -> load \in Initialising /\ Made("start_elevator")
       [] m = "late"         -> load \in Exiting /\ Inside
       [] m = "late_request" -> load \in Exiting /\ Made("issue_request")
       [] m = "switch"       -> load = "live" /\ Cardinality(Switching) > 1
       [] m = "prints"       -> Cardinality(Printing) > 1}

\* A call is made while the module is loading or, through a stub that a failed
\* load has left, while it is not there.  It is early too.
EarlyCall ==
  /\ load \in Initialising \cup {"out"}
  /\ \E c \in Callers : pc[c] = "user" /\ pc'[c] # "user"

\* What has mattered is forgotten: that two have printed at a time when nobody
\* prints any more, that two have switched when the module is unloaded, and the
\* rest of what is about one load with the next one.
Forgotten ==
  (IF Printing' = {} THEN {"prints"} ELSE {})
    \cup (IF load = "live" /\ load' # "live" THEN {"switch"} ELSE {})
    \cup IF load = "out" /\ load' # "out" THEN {"early_start", "late_request", "failed"} ELSE {}

Observed(A) ==
  /\ A
  /\ met' = (met \ Forgotten) \cup Overlaps'
            \cup (IF EarlyCall THEN {"early"} ELSE {})
            \cup IF load \in Initialising /\ load' = "out" THEN {"failed"} ELSE {}

Next == Observed(Step)

Spec == Init /\ [][Next]_vars

=============================================================================
