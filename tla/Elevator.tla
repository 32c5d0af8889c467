------------------------------ MODULE Elevator ------------------------------
(***************************************************************************)
(* The elevator of src/elevator_proc.c: the scheduler thread, the three    *)
(* system calls that run beside it on other CPUs, and the unloading of the *)
(* kernel module.                                                          *)
(*                                                                         *)
(* thread1.mutex is taken by the scheduler alone.  No system call takes    *)
(* it, so every read and write the scheduler makes of elevator.state,      *)
(* elevator.previous_state, elevator.current_floor and floors[] can be     *)
(* separated from the next one by steps of a system call.  A step of the   *)
(* model is one access to such a word, together with accesses to state no  *)
(* other thread writes; reads with no call between them that could write   *)
(* memory are one load, as the compiler makes them.  A list operation is   *)
(* one step.                                                               *)
(*                                                                         *)
(* A definition named Slip_... is the definition after it with a plausible *)
(* mistake.  No action uses it; it serves to check that the properties     *)
(* notice the mistake.                                                     *)
(*                                                                         *)
(* elevator.state is never set to DOWN by a function that is called        *)
(* (min_floor has no caller), so the branch of scheduler() for DOWN has no *)
(* action and stop_elevator does not record it; TypeOK, which excludes     *)
(* DOWN, is what shows that this is sound.                                 *)
(***************************************************************************)
EXTENDS Integers, Sequences, FiniteSets

CONSTANTS
  lastfloor,    \* number of floors, the literal 10 of the loops
  MAXWEIGHT,    \* capacity in half weight units
  MAXUNITS,     \* capacity in passenger units
  Requests,     \* arguments that issue_request is called with
  MaxRequests,  \* bound: number of requests that pass validation
  StartCalls,   \* invocations of start_elevator
  StopCalls,    \* invocations of stop_elevator
  KmallocFails, \* whether the kmalloc of add_passenger may return NULL
  Rmmod         \* whether the module is unloaded

OFFLINE == "OFFLINE"
IDLE    == "IDLE"
LOADING == "LOADING"
UP      == "UP"
DOWN    == "DOWN"

ADULT   == "ADULT"
CHILD   == "CHILD"
RS      == "RS"
BELLHOP == "BELLHOP"

Types  == {ADULT, CHILD, RS, BELLHOP}
Floors == 1 .. lastfloor
Calls  == StartCalls \cup StopCalls

weight_units(type) ==
  CASE type = ADULT   -> 2
    [] type = CHILD   -> 1
    [] type = RS      -> 4
    [] type = BELLHOP -> 8

space_units(type) == IF type \in {ADULT, CHILD} THEN 1 ELSE 2

ASSUME FloorsAssumption   == lastfloor \in Nat /\ lastfloor >= 2
\* Any passenger fits into the empty elevator.
ASSUME CapacityAssumption == /\ MAXWEIGHT \in Nat /\ MAXWEIGHT >= 8
                             /\ MAXUNITS \in Nat /\ MAXUNITS >= 2
ASSUME RequestAssumption  ==
  /\ MaxRequests \in Nat
  /\ Requests \subseteq [type : STRING, start_floor : Int, destination_floor : Int]
ASSUME CallAssumption     == StartCalls \cap StopCalls = {}
ASSUME EnvAssumption      == KmallocFails \in BOOLEAN /\ Rmmod \in BOOLEAN

VARIABLES
  \* struct elevator
  state, previous_state, current_floor, next_floor,
  current_weight, current_units,
  onboard,      \* the passengers on elevator.onboard; their order decides nothing
  \* other globals
  started, odd_children, total_served, served,
  floors,       \* floors[f]: the passengers waiting on floor f, first one first
  \* passengers are numbered in the order of their requests
  req,          \* req[p]: type, start_floor and destination_floor of passenger p
  mem,          \* mem[p]: "linked" on a list, "unlinked" by list_del, "freed" by
                \* kfree, or "none" when kmalloc had returned NULL
  \* the scheduler thread
  pc,           \* where scheduler() is
  i,            \* the loop variable of the IDLE branch
  floor,        \* the argument of move_elevator, unload_elevator, load_elevator
  dummy,        \* list_for_each_safe of load_elevator: TRUE when the node saved
                \* before the loop body is a passenger, FALSE when the list head
  mutex,        \* TRUE while thread1.mutex is held
  \* the other threads
  call,         \* call[c]: where the system call c is
  module,       \* how far elevator_exit has got
  overlapped    \* history: whether two calls of stop_elevator were ever in
                \* progress at a time

carVars    == <<state, previous_state, current_floor, next_floor>>
loadVars   == <<current_weight, current_units, odd_children, onboard>>
tallyVars  == <<total_served, served>>
heapVars   == <<req, mem>>
threadVars == <<pc, i, floor, dummy, mutex>>
callVars   == <<started, call, overlapped>>

vars == <<carVars, loadVars, tallyVars, heapVars, threadVars, callVars,
          floors, module>>

\* What a step that only moves the scheduler thread or the car leaves alone.
worldVars == <<loadVars, tallyVars, heapVars, callVars, floors, module>>

-----------------------------------------------------------------------------
(* Passengers *)

Passengers == 1 .. Len(req)

type(p)              == req[p].type
start_floor(p)       == req[p].start_floor
destination_floor(p) == req[p].destination_floor
children(p)          == IF type(p) = CHILD THEN 1 ELSE 0

\* p->state = EQUAL
Equal(p) == start_floor(p) = destination_floor(p)

\* p is on the list of the floor he wants to leave.
Waiting(p) == \E k \in DOMAIN floors[start_floor(p)] : floors[start_floor(p)][k] = p

\* Slip: the passenger units are not looked at.
Slip_Fits(p) == current_weight + weight_units(type(p)) <= MAXWEIGHT

Fits(p) == /\ current_weight + weight_units(type(p)) <= MAXWEIGHT
           /\ current_units + space_units(type(p)) <= MAXUNITS

\* The checks of issue_request.
ValidRequest(r) == /\ r.type \in Types
                   /\ r.start_floor >= 1 /\ r.start_floor <= lastfloor
                   /\ r.destination_floor >= 1 /\ r.destination_floor <= lastfloor

-----------------------------------------------------------------------------
(* elevator_init leaves the elevator offline.  The scheduler thread is     *)
(* created before the fields are set: it may first run after that, or find *)
(* onboard still zeroed, take it for a list that is not empty and go to    *)
(* sleep in move_elevator(-1) while elevator_init finishes.                *)

Init ==
  /\ state = OFFLINE /\ previous_state = OFFLINE
  /\ current_floor = 0
  /\ current_weight = 0 /\ current_units = 0 /\ odd_children = 0
  /\ onboard = {}
  /\ started = 0
  /\ total_served = 0 /\ served = [f \in Floors |-> 0]
  /\ floors = [f \in Floors |-> <<>>]
  /\ req = <<>> /\ mem = <<>>
  /\ i = 1 /\ dummy = FALSE
  /\ call = [c \in Calls |-> "new"]
  /\ module = "live"
  /\ overlapped = FALSE
  /\ \/ pc = "top" /\ mutex = FALSE /\ floor = 0 /\ next_floor = 0
     \/ pc = "drain_sleep" /\ mutex = TRUE /\ floor = -1 /\ next_floor \in {0, -1}

-----------------------------------------------------------------------------
(* Steps of the scheduler thread, with the pc before and after them.       *)

\* A step that lets nobody in or out.
Goto(from, to) == pc = from /\ pc' = to /\ UNCHANGED worldVars

Step(from, to) == Goto(from, to) /\ UNCHANGED <<carVars, i, floor, dummy, mutex>>

Lock(from, to) == /\ Goto(from, to)
                  /\ mutex = FALSE /\ mutex' = TRUE
                  /\ UNCHANGED <<carVars, i, floor, dummy>>

Unlock(from, to) == /\ Goto(from, to)
                    /\ mutex' = FALSE
                    /\ UNCHANGED <<carVars, i, floor, dummy>>

SetState(from, to, s) ==
  /\ Goto(from, to)
  /\ state' = s
  /\ UNCHANGED <<previous_state, current_floor, next_floor, floor, dummy>>

\* A call whose argument is f is about to be made.
Argument(from, to, f) ==
  Goto(from, to) /\ floor' = f /\ UNCHANGED <<carVars, i, dummy, mutex>>

\* The callee compares its argument with elevator.current_floor, read again.
CompareFloor(from, match, mismatch) ==
  Step(from, IF floor = current_floor THEN match ELSE mismatch)

\* move_elevator(f) up to its ssleep; it returns at once when already there.
Move(f, from, asleep, there) ==
  /\ Goto(from, IF f # current_floor THEN asleep ELSE there)
  /\ next_floor' = IF f # current_floor THEN f ELSE next_floor
  /\ floor' = f
  /\ UNCHANGED <<state, previous_state, current_floor, i, dummy, mutex>>

\* move_elevator after its ssleep.
Arrive(asleep, there) ==
  /\ Goto(asleep, there)
  /\ current_floor' = floor
  /\ UNCHANGED <<state, previous_state, next_floor, i, floor, dummy, mutex>>

\* The counters when w weight units, u passenger units and n children get on.
Account(w, u, n) == /\ current_weight' = current_weight + w
                    /\ current_units' = current_units + u
                    /\ odd_children' = odd_children + n

\* Slip: counts the passenger on the floor he comes from.
Slip_Served(p) == /\ served' = [served EXCEPT ![start_floor(p)] = @ + 1]
                  /\ total_served' = total_served + 1
                  /\ mem' = [mem EXCEPT ![p] = "unlinked"]

\* p has got where he wanted to be.
Served(p) == /\ served' = [served EXCEPT ![floor] = @ + 1]
             /\ total_served' = total_served + 1
             /\ mem' = [mem EXCEPT ![p] = "unlinked"]

\* Slip: the passenger units are not given back.
Slip_Unload_Units(from, p) ==
  /\ pc = from /\ p \in onboard /\ destination_floor(p) = floor
  /\ Account(-weight_units(type(p)), 0, -children(p))
  /\ Served(p)
  /\ onboard' = onboard \ {p}
  /\ UNCHANGED <<carVars, req, threadVars, callVars, floors, module>>

\* Slip: a child who leaves is not subtracted from odd_children.
Slip_Unload_Child(from, p) ==
  /\ pc = from /\ p \in onboard /\ destination_floor(p) = floor
  /\ Account(-weight_units(type(p)), -space_units(type(p)), 0)
  /\ Served(p)
  /\ onboard' = onboard \ {p}
  /\ UNCHANGED <<carVars, req, threadVars, callVars, floors, module>>

\* One round of the loop of unload_elevator that finds a passenger to let off.
Unload(from, p) ==
  /\ pc = from /\ p \in onboard /\ destination_floor(p) = floor
  /\ Account(-weight_units(type(p)), -space_units(type(p)), -children(p))
  /\ Served(p)
  /\ onboard' = onboard \ {p}
  /\ UNCHANGED <<carVars, req, threadVars, callVars, floors, module>>

Unloaded(from, to) ==
  Step(from, to) /\ \A p \in onboard : destination_floor(p) # floor

\* Slip: minDiff starts one too low.
Slip_near(d) == d < lastfloor - 1

\* A difference that can replace the first value of minDiff, the literal 10.
near(d) == d < lastfloor

\* How far ahead floor f is in the recorded direction.
ahead(f) == IF previous_state = UP THEN f - current_floor ELSE current_floor - f

\* The passengers min_onboard can choose from.
candidates == {p \in onboard : near(ahead(destination_floor(p)))}

nearest(p) ==
  /\ p \in candidates
  /\ \A q \in candidates : ahead(destination_floor(p)) <= ahead(destination_floor(q))

\* Slip: returns the start floor, as min_floor does.
Slip_min_onboard(f) ==
  IF previous_state \notin {UP, DOWN} THEN f = -1
  ELSE IF candidates = {} THEN f = 0
  ELSE \E p \in onboard : nearest(p) /\ f = start_floor(p)

\* min_onboard() returns f.
min_onboard(f) ==
  IF previous_state \notin {UP, DOWN} THEN f = -1
  ELSE IF candidates = {} THEN f = 0
  ELSE \E p \in onboard : nearest(p) /\ f = destination_floor(p)

-----------------------------------------------------------------------------
(* scheduler(): the top of its loop *)

Exit       == Step("top", "exited") /\ module # "live"
SeeOffline == Lock("top", "drain") /\ module = "live" /\ state = OFFLINE
SeeService == Lock("top", "serve") /\ module = "live" /\ state \notin {OFFLINE, IDLE}

SeeIdle ==
  /\ Goto("top", "scan")
  /\ module = "live" /\ state = IDLE
  /\ i' = 1
  /\ UNCHANGED <<carVars, floor, dummy, mutex>>

-----------------------------------------------------------------------------
(* The OFFLINE branch takes every passenger on board to his floor. *)

DrainAim ==
  /\ onboard # {}
  /\ \E f \in {-1, 0} \cup Floors : min_onboard(f) /\ Argument("drain", "drain_move", f)

DrainMove         == Move(floor, "drain_move", "drain_sleep", "drain_read")
DrainArrive       == Arrive("drain_sleep", "drain_read")
DrainReadFloor    == Argument("drain_read", "drain_compare", current_floor)
DrainCompareFloor == CompareFloor("drain_compare", "drain_unload", "drain")
DrainUnload(p)    == Unload("drain_unload", p)
DrainUnloaded     == Unloaded("drain_unload", "drain")
DrainEnd          == Unlock("drain", "top") /\ onboard = {}

-----------------------------------------------------------------------------
(* The IDLE branch drives to every floor that has a passenger, from the    *)
(* lowest to the highest, and lets nobody in.                              *)

\* Slip: the state is set for an empty floor too.
Slip_ScanSkip ==
  /\ SetState("scan", "scan", LOADING)
  /\ i <= lastfloor /\ floors[i] = <<>>
  /\ i' = i + 1
  /\ UNCHANGED mutex

ScanSkip ==
  /\ Goto("scan", "scan")
  /\ i <= lastfloor /\ floors[i] = <<>>
  /\ i' = i + 1
  /\ UNCHANGED <<carVars, floor, dummy, mutex>>

ScanMove ==
  /\ i <= lastfloor /\ floors[i] # <<>>
  /\ Move(start_floor(Head(floors[i])), "scan", "scan_sleep", "scan_mark")

ScanArrive == Arrive("scan_sleep", "scan_mark")

ScanMark == SetState("scan_mark", "scan", LOADING) /\ i' = i + 1 /\ UNCHANGED mutex

\* Slip: scans until somebody comes, without looking at kthread_should_stop.
Slip_ScanEnd ==
  /\ Goto("scan", "scan")
  /\ i > lastfloor
  /\ i' = 1
  /\ UNCHANGED <<carVars, floor, dummy, mutex>>

ScanEnd == Step("scan", "top") /\ i > lastfloor

-----------------------------------------------------------------------------
(* The last branch: unload, wait, load, and go one floor up. *)

ServeBegin        == SetState("serve", "serve_read", LOADING) /\ UNCHANGED <<i, mutex>>
ServeReadFloor    == Argument("serve_read", "serve_compare", current_floor)
ServeCompareFloor == CompareFloor("serve_compare", "serve_unload", "serve_sleep")
ServeUnload(p)    == Unload("serve_unload", p)
ServeUnloaded     == Unloaded("serve_unload", "serve_sleep")
ServeWake         == Step("serve_sleep", "load_read")   \* after ssleep(1)
LoadReadFloor     == Argument("load_read", "load_compare", current_floor)

\* load_elevator returns before its loop, or enters it.
LoadReturn ==
  /\ Step("load_compare", "set_up")
  /\ floor # current_floor \/ floors[floor] = <<>>

LoadEnter ==
  /\ Goto("load_compare", "load")
  /\ floor = current_floor /\ floors[floor] # <<>>
  /\ dummy' = (Len(floors[floor]) > 1)
  /\ UNCHANGED <<carVars, i, floor, mutex>>

\* Slip: the passenger is not taken off the list of the floor.
Slip_LoadNext ==
  /\ pc = "load" /\ pc' = "set_up"
  /\ UNCHANGED <<carVars, i, floor, dummy, mutex, floors, req, callVars, module>>

\* A loop body that takes the first passenger off the floor, and the step of
\* list_for_each_safe after it.
LoadNext ==
  /\ pc = "load"
  /\ floors' = [floors EXCEPT ![floor] = Tail(@)]
  /\ pc' = IF dummy THEN "load" ELSE "set_up"
  /\ dummy' = (dummy /\ Len(floors[floor]) > 2)
  /\ UNCHANGED <<carVars, i, floor, mutex, req, callVars, module>>

\* A passenger who is where he wants to be is served on the spot.
LoadEqual ==
  /\ LoadNext
  /\ Equal(Head(floors[floor])) /\ Served(Head(floors[floor]))
  /\ UNCHANGED loadVars

LoadBoard ==
  /\ LoadNext
  /\ LET p == Head(floors[floor]) IN
       /\ ~Equal(p) /\ Fits(p)
       /\ Account(weight_units(type(p)), space_units(type(p)), children(p))
       /\ onboard' = onboard \cup {p}
  /\ UNCHANGED <<tallyVars, mem>>

\* The first passenger who does not fit ends the loop.
LoadFull ==
  /\ Step("load", "set_up")
  /\ LET p == Head(floors[floor]) IN ~Equal(p) /\ ~Fits(p)

SetUp == SetState("set_up", "check_up", UP) /\ mutex' = FALSE /\ UNCHANGED i

UpLock == Lock("check_up", "up_read") /\ state = UP

\* A system call has changed the state since SetUp.
UpSkip == Step("check_up", "end") /\ state # UP

\* Slip: does not come back from the last floor.
Slip_UpReadFloor == Argument("up_read", "up_move", current_floor + 1)

UpReadFloor ==
  Argument("up_read", "up_move",
           IF current_floor = lastfloor THEN 1 ELSE current_floor + 1)

UpMove   == Move(floor, "up_move", "up_sleep", "up_unlock")
UpArrive == Arrive("up_sleep", "up_unlock")
UpUnlock == Unlock("up_unlock", "end")

\* Slip: goes idle with passengers on board.
Slip_ServeEnd == SetState("end", "top", IDLE) /\ UNCHANGED <<i, mutex>>

ServeEnd ==
  SetState("end", "top", IF onboard = {} THEN IDLE ELSE state) /\ UNCHANGED <<i, mutex>>

Scheduler ==
  \/ Exit \/ SeeOffline \/ SeeIdle \/ SeeService
  \/ DrainAim \/ DrainMove \/ DrainArrive \/ DrainReadFloor \/ DrainCompareFloor
  \/ DrainUnloaded \/ DrainEnd
  \/ ScanSkip \/ ScanMove \/ ScanArrive \/ ScanMark \/ ScanEnd
  \/ ServeBegin \/ ServeReadFloor \/ ServeCompareFloor \/ ServeUnloaded \/ ServeWake
  \/ LoadReadFloor \/ LoadReturn \/ LoadEnter \/ LoadEqual \/ LoadBoard \/ LoadFull
  \/ SetUp \/ UpLock \/ UpSkip \/ UpReadFloor \/ UpMove \/ UpArrive \/ UpUnlock
  \/ ServeEnd
  \/ \E p \in onboard : DrainUnload(p) \/ ServeUnload(p)

-----------------------------------------------------------------------------
(* The system calls.  The stubs lead here until elevator_exit clears them. *)

Running(c) == call[c] \notin {"new", "returned 0", "returned 1"}

StopsOverlap == \E c, d \in StopCalls : c # d /\ Running(c) /\ Running(d)

CallStep(c, from, to) ==
  /\ call[c] = from /\ call' = [call EXCEPT ![c] = to]
  /\ overlapped' = (overlapped \/ StopsOverlap')
  /\ UNCHANGED <<next_floor, loadVars, tallyVars, heapVars, threadVars, floors, module>>

StartCheck(c) ==
  /\ module # "removed"
  /\ CallStep(c, "new", IF started = 1 THEN "returned 1" ELSE "start_state")
  /\ UNCHANGED <<state, previous_state, current_floor, started>>

StartState(c) ==
  /\ CallStep(c, "start_state", "start_floor")
  /\ state' = IDLE
  /\ UNCHANGED <<previous_state, current_floor, started>>

StartFloor(c) ==
  /\ CallStep(c, "start_floor", "start_started")
  /\ current_floor' = 1
  /\ UNCHANGED <<state, previous_state, started>>

StartStarted(c) ==
  /\ CallStep(c, "start_started", "returned 0")
  /\ started' = 1
  /\ UNCHANGED <<state, previous_state, current_floor>>

StopCheck(c) ==
  /\ module # "removed"
  /\ CallStep(c, "new", IF started = 1 THEN "stop_look" ELSE "returned 1")
  /\ UNCHANGED <<state, previous_state, current_floor, started>>

\* The state is loaded for the test, and what was loaded is stored.
StopLook(c) ==
  /\ CallStep(c, "stop_look", IF state = UP THEN "stop_save" ELSE "stop_state")
  /\ UNCHANGED <<state, previous_state, current_floor, started>>

StopSave(c) ==
  /\ CallStep(c, "stop_save", "stop_state")
  /\ previous_state' = UP
  /\ UNCHANGED <<state, current_floor, started>>

StopState(c) ==
  /\ CallStep(c, "stop_state", "stop_started")
  /\ state' = OFFLINE
  /\ UNCHANGED <<previous_state, current_floor, started>>

StopStarted(c) ==
  /\ CallStep(c, "stop_started", "returned 0")
  /\ started' = 0
  /\ UNCHANGED <<state, previous_state, current_floor>>

\* Slip: list_add for list_add_tail.
Slip_add_passenger(r) ==
  /\ mem' = Append(mem, "linked")
  /\ floors' = [floors EXCEPT ![r.start_floor] = <<Len(req) + 1>> \o @]

\* The list operation of add_passenger, or kmalloc returning NULL.
add_passenger(r) ==
  /\ mem' = Append(mem, "linked")
  /\ floors' = [floors EXCEPT ![r.start_floor] = Append(@, Len(req) + 1)]

kmalloc_fails == KmallocFails /\ mem' = Append(mem, "none") /\ UNCHANGED floors

\* issue_request(r) changes nothing and returns 1 when r is not valid, and
\* returns 0 whatever add_passenger returns.
IssueRequest(r) ==
  /\ module # "removed"
  /\ ValidRequest(r) /\ Len(req) < MaxRequests
  /\ req' = Append(req, r)
  /\ add_passenger(r) \/ kmalloc_fails
  /\ UNCHANGED <<carVars, loadVars, tallyVars, threadVars, callVars, module>>

StartStep(c) == StartState(c) \/ StartFloor(c) \/ StartStarted(c)
StopStep(c)  == StopLook(c) \/ StopSave(c) \/ StopState(c) \/ StopStarted(c)

SystemCall ==
  \/ \E c \in StartCalls : StartCheck(c) \/ StartStep(c)
  \/ \E c \in StopCalls : StopCheck(c) \/ StopStep(c)
  \/ \E r \in Requests : IssueRequest(r)

-----------------------------------------------------------------------------
(* elevator_exit *)

\* kthread_stop asks the thread to stop and waits for it.
KthreadStop ==
  /\ Rmmod
  /\ module = "live" /\ module' = "stopping"
  /\ UNCHANGED <<carVars, loadVars, tallyVars, heapVars, threadVars, callVars, floors>>

delete_passenger ==
  /\ mem' = [p \in DOMAIN mem |-> IF Waiting(p) THEN "freed" ELSE mem[p]]
  /\ floors' = [f \in Floors |-> <<>>]

DeletePassengers ==
  /\ module = "stopping" /\ pc = "exited" /\ module' = "deleted"
  /\ delete_passenger
  /\ UNCHANGED <<carVars, loadVars, tallyVars, req, threadVars, callVars>>

ClearStubs ==
  /\ module = "deleted" /\ module' = "removed"
  /\ UNCHANGED <<carVars, loadVars, tallyVars, heapVars, threadVars, callVars, floors>>

ElevatorExit == KthreadStop \/ DeletePassengers \/ ClearStubs

Next == Scheduler \/ SystemCall \/ ElevatorExit

Spec == Init /\ [][Next]_vars

\* The scheduler thread has a CPU of its own and its sleeps end; a system call
\* that has begun is finished, and so is rmmod.  Nobody has to make a call.
Fairness ==
  /\ WF_vars(Scheduler)
  /\ WF_vars(DeletePassengers \/ ClearStubs)
  /\ \A c \in StartCalls : WF_vars(StartStep(c))
  /\ \A c \in StopCalls : WF_vars(StopStep(c))

FairSpec == Spec /\ Fairness

\* The same when start_elevator and stop_elevator are never interrupted: while
\* one of them is running nothing else happens.
SerialNext == Next /\ \A c \in Calls : Running(c) => call'[c] # call[c]

SerialFairSpec == Init /\ [][SerialNext]_vars /\ Fairness

=============================================================================
