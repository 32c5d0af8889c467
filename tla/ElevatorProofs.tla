--------------------------- MODULE ElevatorProofs ---------------------------
(***************************************************************************)
(* Proofs, for any number of floors, any capacity, any requests and any    *)
(* number of system calls, of safety properties of module ElevatorProps.   *)
(***************************************************************************)
EXTENDS ElevatorProps, SequenceTheorems, WellFoundedInduction, NaturalsInduction, TLAPS

Draining == {"drain", "drain_move", "drain_sleep", "drain_read", "drain_compare",
             "drain_unload"}

Serving == {"serve", "serve_read", "serve_compare", "serve_unload", "serve_sleep",
            "load_read", "load_compare", "load",
            "set_up", "check_up", "up_read", "up_move", "up_sleep", "up_unlock", "end"}

(* The inductive invariant. *)

\* Whoever has seen the state LOADING or UP has seen the car at a floor.
InBuilding ==
  state \in {LOADING, UP} \/ pc \in Serving \cup {"scan_mark"} => current_floor \in Floors

\* Only the scheduler sets LOADING and UP, and not in the OFFLINE branch.
DrainState == pc \in Draining => state \in {OFFLINE, IDLE}

\* The arguments that are floors.
ArgumentIsFloor ==
  pc \in {"scan_sleep", "scan_mark", "serve_compare", "serve_unload",
          "load_compare", "load", "up_move", "up_sleep"} => floor \in Floors

\* The IDLE branch is at one of its rounds.
ScanIndex == pc \in {"scan_sleep", "scan_mark"} => i <= lastfloor

\* The list of a floor holds passengers who start there.
FloorLists ==
  \A f \in Floors : \A k \in 1 .. Len(floors[f]) :
    floors[f][k] \in Passengers /\ start_floor(floors[f][k]) = f

\* The loop of load_elevator has a passenger to look at.
LoadLoop ==
  pc = "load" => floors[floor] # <<>> /\ (dummy => Len(floors[floor]) > 1)

\* The variables of the car and of the thread, and what relates them.
TypeControl ==
  /\ state \in {OFFLINE, IDLE, LOADING, UP}
  /\ previous_state \in {OFFLINE, UP}
  /\ current_floor \in {-1, 0} \cup Floors
  /\ next_floor \in {-1, 0} \cup Floors
  /\ pc \in PCs
  /\ i \in 1 .. lastfloor + 1
  /\ floor \in {-1, 0} \cup Floors
  /\ dummy \in BOOLEAN /\ mutex \in BOOLEAN

ControlInv == TypeControl /\ InBuilding /\ DrainState /\ ArgumentIsFloor /\ ScanIndex

\* While stops have not overlapped: with a direction recorded the car is in the
\* building, and so it is while a stop is about to record one that it has seen;
\* until it has done so nobody sets OFFLINE.
Recorded == ~overlapped /\ previous_state = UP => current_floor \in Floors

Saving ==
  ~overlapped => \A c \in StopCalls : call[c] = "stop_save" =>
    current_floor \in Floors /\ pc \notin Draining /\ state \in {IDLE, LOADING, UP}

\* Stops that overlap now have been noted.
Noted == StopsOverlap => overlapped

StopInv == Noted /\ Recorded /\ Saving

IInv == TypeOK /\ ControlInv /\ FloorLists /\ LoadLoop /\ StopInv /\ DrainTarget

-----------------------------------------------------------------------------

\* elevator_init establishes the invariant.
LEMMA InitIInv == Init => IInv
<1> SUFFICES ASSUME Init PROVE IInv
  OBVIOUS
<1> USE DEF Init, OFFLINE, UP, LOADING, IDLE, DOWN
<1>1. TypeOK
  <2>1. req \in Seq(Passenger) /\ Len(req) = 0
    BY EmptySeq
  <2>2. mem \in Seq({"linked", "unlinked", "freed", "none"}) /\ Len(mem) = 0
    BY EmptySeq
  <2>3. floors \in [Floors -> Seq(Nat)]
    BY EmptySeq
  <2>4. /\ call \in [Calls -> StartPCs \cup StopPCs]
        /\ served \in [Floors -> Nat]
    BY DEF StartPCs
  <2>5. i \in 1 .. lastfloor + 1 /\ pc \in PCs
    BY FloorsAssumption DEF PCs
  <2>6. Len(req) <= MaxRequests
    BY <2>1, RequestAssumption
  <2>7. TypeControl
    BY <2>5 DEF TypeControl
  <2>8. overlapped \in BOOLEAN
    OBVIOUS
  <2> QED  BY <2>1, <2>2, <2>3, <2>4, <2>6, <2>7, <2>8 DEF TypeOK, TypeControl
<1>2. ControlInv
  BY <1>1 DEF ControlInv, TypeControl, TypeOK, InBuilding, DrainState, ArgumentIsFloor,
              ScanIndex, Serving, Draining
<1>4. LoadLoop /\ DrainTarget
  BY DEF LoadLoop, DrainTarget
<1>3. FloorLists
  BY EmptySeq DEF FloorLists
<1>5. StopInv
  BY DEF StopInv, Noted, Recorded, Saving, StopsOverlap, Running, Calls
<1> QED  BY <1>1, <1>2, <1>3, <1>4, <1>5 DEF IInv

\* The first passenger of a list that is not empty.
LEMMA HeadIsPassenger ==
  ASSUME IInv, NEW f \in Floors, floors[f] # <<>>
  PROVE  /\ Head(floors[f]) \in Passengers
         /\ req[Head(floors[f])] \in Passenger
         /\ req[Head(floors[f])].start_floor = f
<1>1. floors[f] \in Seq(Nat)
  BY DEF IInv, TypeOK
<1>2. Head(floors[f]) = floors[f][1] /\ 1 \in 1 .. Len(floors[f])
  BY <1>1
<1>3. Head(floors[f]) \in 1 .. Len(req) /\ req[Head(floors[f])].start_floor = f
  BY <1>2 DEF IInv, FloorLists, Passengers, start_floor
<1>4. req \in Seq(Passenger)
  BY DEF IInv, TypeOK
<1> QED  BY <1>3, <1>4, ElementOfSeq DEF Passengers

\* A passenger on board wants to go to a floor.
LEMMA RiderHasFloor ==
  ASSUME IInv, NEW p \in onboard
  PROVE  p \in Passengers /\ req[p] \in Passenger /\ destination_floor(p) \in Floors
<1>1. p \in 1 .. Len(req) /\ req \in Seq(Passenger)
  BY DEF IInv, TypeOK, Passengers
<1>2. req[p] \in Passenger
  BY <1>1, ElementOfSeq
<1> QED  BY <1>1, <1>2 DEF Passenger, Passengers, destination_floor

\* Every step of the scheduler keeps ControlInv.
LEMMA SchedulerControl == IInv /\ Scheduler => ControlInv'
<1> SUFFICES ASSUME IInv, Scheduler PROVE ControlInv'
  OBVIOUS
<1> USE FloorsAssumption DEF IInv, ControlInv, TypeControl, InBuilding, DrainState,
        ArgumentIsFloor, ScanIndex, carVars, Floors, PCs, Serving, Draining,
        OFFLINE, IDLE, LOADING, UP, DOWN
<1>1. CASE Exit
  BY <1>1 DEF Exit, Step, Goto
<1>2. CASE SeeOffline
  BY <1>2 DEF SeeOffline, Lock, Goto
<1>3. CASE SeeIdle
  BY <1>3 DEF SeeIdle, Goto
<1>4. CASE SeeService
  BY <1>4 DEF SeeService, Lock, Goto
<1>5. CASE DrainAim
  BY <1>5 DEF DrainAim, Argument, Goto
<1>6. CASE DrainMove
  BY <1>6 DEF DrainMove, Move, Goto
<1>7. CASE DrainArrive
  BY <1>7 DEF DrainArrive, Arrive, Goto
<1>8. CASE DrainReadFloor
  BY <1>8 DEF DrainReadFloor, Argument, Goto
<1>9. CASE DrainCompareFloor
  BY <1>9 DEF DrainCompareFloor, CompareFloor, Step, Goto
<1>10. CASE DrainUnloaded
  BY <1>10 DEF DrainUnloaded, Unloaded, Step, Goto
<1>11. CASE DrainEnd
  BY <1>11 DEF DrainEnd, Unlock, Goto
<1>12. CASE ScanSkip
  BY <1>12 DEF ScanSkip, Goto
<1>13. CASE ScanMove
  <2>1. start_floor(Head(floors[i])) \in Floors
    BY <1>13, HeadIsPassenger DEF ScanMove, start_floor, Passenger
  <2> QED  BY <1>13, <2>1 DEF ScanMove, Move, Goto
<1>14. CASE ScanArrive
  BY <1>14 DEF ScanArrive, Arrive, Goto
<1>15. CASE ScanMark
  BY <1>15 DEF ScanMark, SetState, Goto
<1>16. CASE ScanEnd
  BY <1>16 DEF ScanEnd, Step, Goto
<1>17. CASE ServeBegin
  BY <1>17 DEF ServeBegin, SetState, Goto
<1>18. CASE ServeReadFloor
  BY <1>18 DEF ServeReadFloor, Argument, Goto
<1>19. CASE ServeCompareFloor
  BY <1>19 DEF ServeCompareFloor, CompareFloor, Step, Goto
<1>20. CASE ServeUnloaded
  BY <1>20 DEF ServeUnloaded, Unloaded, Step, Goto
<1>21. CASE ServeWake
  BY <1>21 DEF ServeWake, Step, Goto
<1>22. CASE LoadReadFloor
  BY <1>22 DEF LoadReadFloor, Argument, Goto
<1>23. CASE LoadReturn
  BY <1>23 DEF LoadReturn, Step, Goto
<1>24. CASE LoadEnter
  BY <1>24 DEF LoadEnter, Goto
<1>25. CASE LoadEqual
  BY <1>25 DEF LoadEqual, LoadNext
<1>26. CASE LoadBoard
  BY <1>26 DEF LoadBoard, LoadNext
<1>27. CASE LoadFull
  BY <1>27 DEF LoadFull, Step, Goto
<1>28. CASE SetUp
  BY <1>28 DEF SetUp, SetState, Goto
<1>29. CASE UpLock
  BY <1>29 DEF UpLock, Lock, Goto
<1>30. CASE UpSkip
  BY <1>30 DEF UpSkip, Step, Goto
<1>31. CASE UpReadFloor
  BY <1>31 DEF UpReadFloor, Argument, Goto
<1>32. CASE UpMove
  BY <1>32 DEF UpMove, Move, Goto
<1>33. CASE UpArrive
  BY <1>33 DEF UpArrive, Arrive, Goto
<1>34. CASE UpUnlock
  BY <1>34 DEF UpUnlock, Unlock, Goto
<1>35. CASE ServeEnd
  BY <1>35 DEF ServeEnd, SetState, Goto
<1>36. CASE \E p \in onboard : DrainUnload(p) \/ ServeUnload(p)
  BY <1>36 DEF DrainUnload, ServeUnload, Unload, threadVars
<1> QED
  BY <1>1, <1>2, <1>3, <1>4, <1>5, <1>6, <1>7, <1>8, <1>9, <1>10, <1>11,
  <1>12, <1>13, <1>14, <1>15, <1>16, <1>17, <1>18, <1>19, <1>20, <1>21,
  <1>22, <1>23, <1>24, <1>25, <1>26, <1>27, <1>28, <1>29, <1>30, <1>31,
  <1>32, <1>33, <1>34, <1>35, <1>36
  DEF Scheduler

\* ControlInv is about the car and the thread only.
LEMMA QuietControl ==
  ASSUME IInv, UNCHANGED <<carVars, threadVars>>
  PROVE  ControlInv'
<1> USE DEF ControlInv, carVars, threadVars
<1>1. TypeControl'  BY DEF IInv, TypeControl
<1>2. InBuilding'  BY DEF IInv, InBuilding
<1>3. DrainState'  BY DEF IInv, DrainState
<1>4. ArgumentIsFloor'  BY DEF IInv, ArgumentIsFloor
<1>5. ScanIndex'  BY DEF IInv, ScanIndex
<1> QED  BY <1>1, <1>2, <1>3, <1>4, <1>5

\* The tests and the last step of a call touch neither.
LEMMA CallEnds ==
  ASSUME NEW c, \/ StartCheck(c) \/ StartStarted(c)
                \/ StopCheck(c) \/ StopLook(c) \/ StopStarted(c)
  PROVE  UNCHANGED <<carVars, threadVars>>
  BY DEF StartCheck, StartStarted, StopCheck, StopLook, StopStarted, CallStep, carVars, threadVars

\* And so does every other step.
LEMMA OthersControl ==
  IInv /\ (SystemCall \/ ElevatorExit \/ UNCHANGED vars) => ControlInv'
<1> SUFFICES ASSUME IInv, SystemCall \/ ElevatorExit \/ UNCHANGED vars PROVE ControlInv'
  OBVIOUS
<1>1. ASSUME NEW c, \/ StartCheck(c) \/ StartStarted(c)
                    \/ StopCheck(c) \/ StopLook(c) \/ StopStarted(c)
      PROVE  ControlInv'
  BY <1>1, CallEnds, QuietControl
<1>2. ASSUME NEW c, StartState(c) \/ StartFloor(c) \/ StopSave(c) \/ StopState(c)
      PROVE  ControlInv'
  <2> USE FloorsAssumption DEF IInv, ControlInv, TypeControl, InBuilding, DrainState,
          ArgumentIsFloor, ScanIndex, carVars, threadVars, Floors, Serving, Draining,
          OFFLINE, IDLE, LOADING, UP, DOWN
  <2>1. CASE StartState(c)
    BY <2>1 DEF StartState, CallStep
  <2>2. CASE StartFloor(c)
    BY <2>2 DEF StartFloor, CallStep
  <2>3. CASE StopSave(c)
    BY <2>3 DEF StopSave, CallStep
  <2>4. CASE StopState(c)
    BY <2>4 DEF StopState, CallStep
  <2> QED  BY <1>2, <2>1, <2>2, <2>3, <2>4
<1>3. ASSUME NEW r \in Requests, IssueRequest(r) PROVE ControlInv'
  BY <1>3, QuietControl DEF IssueRequest
<1>4. CASE ElevatorExit
  BY <1>4, QuietControl DEF ElevatorExit, KthreadStop, DeletePassengers, ClearStubs
<1>5. CASE UNCHANGED vars
  BY <1>5, QuietControl DEF vars
<1>6. CASE SystemCall
  <2>1. CASE \E c \in StartCalls : StartCheck(c) \/ StartStep(c)
    BY <2>1, <1>1, <1>2 DEF StartStep
  <2>2. CASE \E c \in StopCalls : StopCheck(c) \/ StopStep(c)
    BY <2>2, <1>1, <1>2 DEF StopStep
  <2> QED  BY <1>6, <1>3, <2>1, <2>2 DEF SystemCall
<1> QED  BY <1>4, <1>5, <1>6

-----------------------------------------------------------------------------
(* The passengers: their records, their nodes and the lists of the floors. *)

TypePassengers ==
  /\ req \in Seq(Passenger) /\ Len(req) <= MaxRequests
  /\ mem \in Seq({"linked", "unlinked", "freed", "none"}) /\ Len(mem) = Len(req)
  /\ onboard \subseteq Passengers
  /\ floors \in [Floors -> Seq(Nat)]

PassengersInv == TypePassengers /\ FloorLists /\ LoadLoop

\* A step that leaves worldVars alone and is not in the loop of load_elevator.
LEMMA QuietPassengers ==
  ASSUME IInv, UNCHANGED worldVars, pc' # "load"
  PROVE  PassengersInv'
BY DEF IInv, TypeOK, PassengersInv, TypePassengers, FloorLists, LoadLoop, worldVars,
       loadVars, heapVars, Passengers, start_floor

\* A step that does not touch the passengers and the thread.
LEMMA SamePassengers ==
  ASSUME IInv, UNCHANGED <<loadVars, heapVars, threadVars, floors>>
  PROVE  PassengersInv'
BY DEF IInv, TypeOK, PassengersInv, TypePassengers, FloorLists, LoadLoop, loadVars,
       heapVars, threadVars, Passengers, start_floor

\* A passenger leaves the car.
LEMMA UnloadPassengers ==
  ASSUME IInv, NEW from \in {"drain_unload", "serve_unload"}, NEW p \in onboard,
         Unload(from, p)
  PROVE  PassengersInv'
<1>1. p \in 1 .. Len(mem)
  BY DEF IInv, TypeOK, Passengers
<1>2. /\ mem' \in Seq({"linked", "unlinked", "freed", "none"})
      /\ Len(mem') = Len(mem)
  BY <1>1, ExceptSeq DEF IInv, TypeOK, Unload, Served
<1>3. TypePassengers'
  BY <1>2 DEF IInv, TypeOK, TypePassengers, Unload, Passengers
<1>4. FloorLists'
  BY DEF IInv, FloorLists, Unload, Passengers, start_floor
<1>5. LoadLoop'
  BY DEF LoadLoop, Unload, threadVars
<1> QED  BY <1>3, <1>4, <1>5 DEF PassengersInv

\* The head of the floor's list is taken off.
LEMMA LoadNextPassengers ==
  ASSUME IInv, LoadNext
  PROVE  /\ floor \in Floors /\ floors[floor] # <<>>
         /\ floors' \in [Floors -> Seq(Nat)]
         /\ FloorLists' /\ LoadLoop'
<1>1. floor \in Floors /\ floors[floor] # <<>> /\ floors[floor] \in Seq(Nat)
  BY DEF IInv, TypeOK, ControlInv, ArgumentIsFloor, LoadLoop, LoadNext
<1> DEFINE t == Tail(floors[floor])
<1>2. /\ t \in Seq(Nat)
      /\ Len(t) = Len(floors[floor]) - 1
      /\ \A k \in 1 .. Len(t) : t[k] = floors[floor][k + 1]
  BY <1>1, HeadTailProperties
<1>3. /\ floors' \in [Floors -> Seq(Nat)]
      /\ floors'[floor] = t
      /\ \A f \in Floors \ {floor} : floors'[f] = floors[f]
  BY <1>1, <1>2 DEF IInv, TypeOK, LoadNext
<1>4. FloorLists'
  <2> SUFFICES ASSUME NEW f \in Floors, NEW k \in 1 .. Len(floors'[f])
               PROVE  /\ floors'[f][k] \in Passengers
                      /\ start_floor(floors'[f][k]) = f
    BY DEF FloorLists, LoadNext, Passengers, start_floor
  <2>1. CASE f = floor
    <3>1. k + 1 \in 1 .. Len(floors[floor])
      <4>1. k \in 1 .. Len(t)
        BY <1>3, <2>1
      <4>2. Len(floors[floor]) \in Nat /\ Len(t) = Len(floors[floor]) - 1
        BY <1>1, <1>2
      <4> HIDE DEF t
      <4> QED  BY <4>1, <4>2
    <3>2. floors'[f][k] = floors[floor][k + 1]
      BY <1>2, <1>3, <2>1
    <3> QED  BY <1>1, <2>1, <3>1, <3>2 DEF IInv, FloorLists
  <2>2. CASE f # floor
    BY <1>3, <2>2 DEF IInv, FloorLists
  <2> QED  BY <2>1, <2>2
<1>5. LoadLoop'
  <2> SUFFICES ASSUME pc' = "load"
               PROVE  floors'[floor] # <<>> /\ (dummy' => Len(floors'[floor]) > 1)
    BY DEF LoadLoop, LoadNext
  <2>1. dummy = TRUE /\ pc = "load"
    BY DEF LoadNext, IInv, TypeOK
  <2>2. Len(t) >= 1
    BY <1>1, <1>2, <2>1 DEF IInv, LoadLoop
  <2>3. dummy' => Len(floors[floor]) > 2
    BY Zenon DEF LoadNext
  <2>4. Len(floors[floor]) > 2 => Len(t) > 1
    BY <1>1, <1>2
  <2>5. t # <<>>
    <3>1. Len(<<>>) = 0
      BY EmptySeq
    <3> HIDE DEF t
    <3> SUFFICES ASSUME t = <<>> PROVE FALSE
      OBVIOUS
    <3>2. Len(t) = 0
      BY <3>1, Zenon
    <3> QED  BY <2>2, <3>2
  <2> QED  BY <1>3, <2>3, <2>4, <2>5
<1> QED  BY <1>1, <1>3, <1>4, <1>5

\* A request is added at the end of the list of its floor, or nowhere.
LEMMA RequestPassengers ==
  ASSUME IInv, NEW r \in Requests, IssueRequest(r)
  PROVE  PassengersInv'
<1> DEFINE f0 == r.start_floor
           S0 == {"linked", "unlinked", "freed", "none"}
<1>1. r \in Passenger /\ f0 \in Floors
  <2>1. /\ r \in [type : STRING, start_floor : Int, destination_floor : Int]
        /\ ValidRequest(r)
    BY RequestAssumption DEF IssueRequest
  <2> QED  BY <2>1 DEF ValidRequest, Passenger, Floors
<1>2. /\ req \in Seq(Passenger) /\ Len(req) \in Nat
      /\ mem \in Seq(S0) /\ Len(mem) = Len(req)
      /\ floors \in [Floors -> Seq(Nat)]
      /\ onboard \subseteq 1 .. Len(req)
  BY DEF IInv, TypeOK, Passengers
<1>3. /\ req' \in Seq(Passenger) /\ Len(req') = Len(req) + 1
      /\ \A q \in 1 .. Len(req) : req'[q] = req[q]
      /\ req'[Len(req) + 1] = r
  BY <1>1, <1>2 DEF IssueRequest
<1>4. mem' \in Seq(S0) /\ Len(mem') = Len(req')
  <2>1. \E e \in S0 : mem' = Append(mem, e)
    BY DEF IssueRequest, add_passenger, kmalloc_fails
  <2> QED  BY <1>2, <1>3, <2>1
<1>5. Len(req') <= MaxRequests
  BY <1>2, <1>3, RequestAssumption DEF IssueRequest
<1>6. \/ floors' = floors
      \/ /\ floors'[f0] = Append(floors[f0], Len(req) + 1)
         /\ \A f \in Floors \ {f0} : floors'[f] = floors[f]
         /\ floors' \in [Floors -> Seq(Nat)]
  <2>1. CASE kmalloc_fails
    BY <2>1 DEF kmalloc_fails
  <2>2. CASE add_passenger(r)
    BY <1>1, <1>2, <2>2 DEF add_passenger
  <2> QED  BY <2>1, <2>2 DEF IssueRequest
<1>7. TypePassengers'
  BY <1>2, <1>3, <1>4, <1>5, <1>6 DEF TypePassengers, IssueRequest, loadVars, Passengers
<1>8. FloorLists'
  <2> SUFFICES ASSUME NEW f \in Floors, NEW k \in 1 .. Len(floors'[f])
               PROVE  /\ floors'[f][k] \in 1 .. Len(req')
                      /\ req'[floors'[f][k]].start_floor = f
    BY DEF FloorLists, Passengers, start_floor
  <2>1. ASSUME k \in 1 .. Len(floors[f]), floors'[f][k] = floors[f][k]
        PROVE  /\ floors'[f][k] \in 1 .. Len(req')
               /\ req'[floors'[f][k]].start_floor = f
    <3>1. floors[f][k] \in 1 .. Len(req) /\ req[floors[f][k]].start_floor = f
      BY <2>1 DEF IInv, FloorLists, Passengers, start_floor
    <3> QED  BY <1>2, <1>3, <2>1, <3>1
  <2>2. CASE floors'[f] = floors[f]
    BY <2>1, <2>2
  <2>3. CASE f = f0 /\ floors'[f] = Append(floors[f], Len(req) + 1)
    <3>1. floors[f] \in Seq(Nat)
      BY <1>2
    <3>2. k \in 1 .. Len(floors[f]) + 1
      BY <2>3, <3>1
    <3>3. CASE k \in 1 .. Len(floors[f])
      BY <2>1, <2>3, <3>1, <3>3
    <3>4. CASE k = Len(floors[f]) + 1
      <4>1. floors'[f][k] = Len(req) + 1
        BY <2>3, <3>1, <3>4
      <4>2. Len(req) + 1 \in 1 .. Len(req')
        BY <1>2, <1>3
      <4>3. req'[Len(req) + 1].start_floor = f
        BY <1>3, <2>3
      <4> QED  BY <4>1, <4>2, <4>3
    <3> QED  BY <3>1, <3>2, <3>3, <3>4
  <2> QED  BY <1>6, <2>2, <2>3
<1>9. LoadLoop'
  <2> SUFFICES ASSUME pc = "load"
               PROVE  floors'[floor] # <<>> /\ (dummy => Len(floors'[floor]) > 1)
    BY DEF LoadLoop, IssueRequest, threadVars
  <2>1. floor \in Floors /\ floors[floor] # <<>> /\ (dummy => Len(floors[floor]) > 1)
    BY DEF IInv, ControlInv, ArgumentIsFloor, LoadLoop
  <2>2. \/ floors'[floor] = floors[floor]
        \/ floors'[floor] = Append(floors[floor], Len(req) + 1)
    BY <1>6, <2>1
  <2>3. CASE floors'[floor] = floors[floor]
    BY <2>1, <2>3
  <2>4. CASE floors'[floor] = Append(floors[floor], Len(req) + 1)
    <3>1. floors[floor] \in Seq(Nat) /\ Len(req) + 1 \in Nat
      BY <1>2, <2>1
    <3>2. Len(floors'[floor]) = Len(floors[floor]) + 1 /\ Len(floors[floor]) \in Nat
      BY <2>4, <3>1
    <3>3. floors'[floor] # <<>>
      <4>1. Len(<<>>) = 0
        BY EmptySeq
      <4> QED  BY <3>2, <4>1
    <3> QED  BY <2>1, <3>2, <3>3
  <2> QED  BY <2>2, <2>3, <2>4
<1> QED  BY <1>7, <1>8, <1>9 DEF PassengersInv

\* elevator_exit empties the lists when the thread has exited.
LEMMA DeletePassengersPassengers ==
  ASSUME IInv, DeletePassengers
  PROVE  PassengersInv'
<1> DEFINE S0 == {"linked", "unlinked", "freed", "none"}
<1>1. mem \in Seq(S0) /\ Len(mem) = Len(req) /\ Len(req) \in Nat
  BY DEF IInv, TypeOK
<1>2. /\ DOMAIN mem' = 1 .. Len(req)
      /\ \A p \in 1 .. Len(req) : mem'[p] \in S0
  <2>1. DOMAIN mem = 1 .. Len(req)
    BY <1>1, LenProperties
  <2>2. \A p \in 1 .. Len(req) : mem[p] \in S0
    BY <1>1, ElementOfSeq
  <2>3. mem' = [p \in 1 .. Len(req) |-> IF Waiting(p) THEN "freed" ELSE mem[p]]
    BY <2>1 DEF DeletePassengers, delete_passenger
  <2> QED  BY <2>2, <2>3
<1>3. mem' \in [1 .. Len(req) -> S0]
  BY <1>2 DEF DeletePassengers, delete_passenger
<1>4. mem' \in Seq(S0) /\ Len(mem') = Len(req)
  BY <1>1, <1>3
<1>5. floors' \in [Floors -> Seq(Nat)] /\ \A f \in Floors : Len(floors'[f]) = 0
  BY EmptySeq DEF DeletePassengers, delete_passenger
<1>6. TypePassengers'
  BY <1>4, <1>5 DEF IInv, TypeOK, TypePassengers, DeletePassengers, loadVars, Passengers
<1>7. FloorLists'
  BY <1>5 DEF FloorLists
<1>8. LoadLoop'
  BY DEF LoadLoop, DeletePassengers, threadVars
<1> QED  BY <1>6, <1>7, <1>8 DEF PassengersInv

\* The steps of the scheduler that let somebody in or out, and the rest.
LEMMA SchedulerCases ==
  Scheduler => \/ UNCHANGED worldVars /\ pc' # "load"
               \/ LoadEnter \/ LoadEqual \/ LoadBoard
               \/ \E p \in onboard : DrainUnload(p) \/ ServeUnload(p)
<1>1. \A from, to : Goto(from, to) => UNCHANGED worldVars /\ pc' = to
  BY DEF Goto
<1> QED
  BY <1>1
  DEF Scheduler, Exit, SeeOffline, SeeIdle, SeeService, DrainAim, DrainMove, DrainArrive,
      DrainReadFloor, DrainCompareFloor, DrainUnloaded, DrainEnd, ScanSkip, ScanMove,
      ScanArrive, ScanMark, ScanEnd, ServeBegin, ServeReadFloor, ServeCompareFloor,
      ServeUnloaded, ServeWake, LoadReadFloor, LoadReturn, LoadFull, SetUp, UpLock, UpSkip,
      UpReadFloor, UpMove, UpArrive, UpUnlock, ServeEnd, Step, Lock, Unlock, SetState,
      Argument, CompareFloor, Move, Arrive, Unloaded

\* Every step keeps PassengersInv.
LEMMA NextPassengers == IInv /\ [Next]_vars => PassengersInv'
<1> SUFFICES ASSUME IInv, [Next]_vars PROVE PassengersInv'
  OBVIOUS
<1>1. CASE Scheduler /\ UNCHANGED worldVars /\ pc' # "load"
  BY <1>1, QuietPassengers
<1>2. CASE LoadEnter
  <2>1. UNCHANGED worldVars /\ pc' = "load" /\ floor' = floor
        /\ floors[floor] # <<>> /\ dummy' = (Len(floors[floor]) > 1)
    BY <1>2 DEF LoadEnter, Goto
  <2>2. LoadLoop'
    <3>1. dummy' => Len(floors[floor]) > 1
      BY <2>1, Zenon
    <3> QED  BY <2>1, <3>1 DEF LoadLoop, worldVars
  <2> QED  BY <2>1, <2>2 DEF IInv, TypeOK, PassengersInv, TypePassengers, FloorLists,
                             worldVars, loadVars, heapVars, Passengers, start_floor
<1>3. CASE LoadEqual
  <2>1. Head(floors[floor]) \in 1 .. Len(mem)
    BY <1>3, LoadNextPassengers, HeadIsPassenger DEF LoadEqual, IInv, TypeOK, Passengers
  <2>2. /\ mem' \in Seq({"linked", "unlinked", "freed", "none"})
        /\ Len(mem') = Len(mem)
    BY <1>3, <2>1, ExceptSeq DEF IInv, TypeOK, LoadEqual, Served
  <2>3. FloorLists' /\ LoadLoop' /\ floors' \in [Floors -> Seq(Nat)]
    BY <1>3, LoadNextPassengers DEF LoadEqual
  <2>4. UNCHANGED <<req, onboard>>
    BY <1>3 DEF LoadEqual, LoadNext, loadVars
  <2> QED  BY <2>2, <2>3, <2>4 DEF IInv, TypeOK, PassengersInv, TypePassengers, Passengers
<1>4. CASE LoadBoard
  <2>1. Head(floors[floor]) \in Passengers
    BY <1>4, LoadNextPassengers, HeadIsPassenger DEF LoadBoard
  <2>2. FloorLists' /\ LoadLoop' /\ floors' \in [Floors -> Seq(Nat)]
    BY <1>4, LoadNextPassengers DEF LoadBoard
  <2>3. UNCHANGED <<req, mem>> /\ onboard' = onboard \cup {Head(floors[floor])}
    BY <1>4 DEF LoadBoard, LoadNext
  <2> QED  BY <2>1, <2>2, <2>3
           DEF IInv, TypeOK, PassengersInv, TypePassengers, Passengers
<1>5. CASE \E p \in onboard : DrainUnload(p) \/ ServeUnload(p)
  BY <1>5, UnloadPassengers DEF DrainUnload, ServeUnload
<1>6. CASE SystemCall
  <2>1. CASE \E r \in Requests : IssueRequest(r)
    BY <2>1, RequestPassengers
  <2>2. CASE UNCHANGED <<loadVars, heapVars, threadVars, floors>>
    BY <2>2, SamePassengers
  <2> QED  BY <1>6, <2>1, <2>2 DEF SystemCall, StartCheck, StartStep, StartState,
              StartFloor, StartStarted, StopCheck, StopStep, StopLook, StopSave, StopState,
              StopStarted, CallStep
<1>7. CASE ElevatorExit
  <2>1. CASE DeletePassengers
    BY <2>1, DeletePassengersPassengers
  <2>2. CASE KthreadStop \/ ClearStubs
    BY <2>2, SamePassengers DEF KthreadStop, ClearStubs
  <2> QED  BY <1>7, <2>1, <2>2 DEF ElevatorExit
<1>8. CASE UNCHANGED vars
  BY <1>8, SamePassengers DEF vars
<1> QED  BY <1>1, <1>2, <1>3, <1>4, <1>5, <1>6, <1>7, <1>8, SchedulerCases DEF Next

-----------------------------------------------------------------------------
(* The counters, the calls and the module. *)

TypeCounters ==
  /\ current_weight \in Int /\ current_units \in Int /\ odd_children \in Int
  /\ total_served \in Nat /\ served \in [Floors -> Nat]

TypeCalls ==
  /\ started \in {0, 1}
  /\ call \in [Calls -> StartPCs \cup StopPCs]
  /\ module \in {"live", "stopping", "deleted", "removed"}
  /\ overlapped \in BOOLEAN

\* What a passenger adds to the counters.
LEMMA PassengerUnits ==
  ASSUME NEW p, req[p] \in Passenger
  PROVE  /\ weight_units(type(p)) \in Nat /\ space_units(type(p)) \in Nat
         /\ children(p) \in {0, 1}
         /\ weight_units(type(p)) % 2 = children(p)
BY DEF Passenger, Types, type, weight_units, space_units, children, ADULT, CHILD, RS, BELLHOP

\* The three kinds of steps that change the counters.
LEMMA CounterSteps ==
  ASSUME IInv, [Next]_vars
  PROVE  \/ UNCHANGED <<loadVars, tallyVars>>
         \/ \E p \in Passengers :
              /\ req[p] \in Passenger
              /\ \/ UNCHANGED loadVars /\ floor \in Floors /\ Served(p)
                 \/ /\ p \in onboard /\ floor \in Floors /\ Served(p)
                    /\ Account(-weight_units(type(p)), -space_units(type(p)), -children(p))
                 \/ /\ Fits(p) /\ UNCHANGED tallyVars
                    /\ Account(weight_units(type(p)), space_units(type(p)), children(p))
<1>1. CASE Scheduler /\ UNCHANGED worldVars
  BY <1>1 DEF worldVars
<1>2. CASE LoadEnter
  BY <1>2 DEF LoadEnter, Goto, worldVars
<1>3. CASE LoadEqual
  BY <1>3, LoadNextPassengers, HeadIsPassenger DEF LoadEqual
<1>4. CASE LoadBoard
  BY <1>4, LoadNextPassengers, HeadIsPassenger DEF LoadBoard
<1>5. CASE \E p \in onboard : DrainUnload(p) \/ ServeUnload(p)
  BY <1>5, RiderHasFloor DEF DrainUnload, ServeUnload, Unload
<1>6. CASE SystemCall
  BY <1>6 DEF SystemCall, StartCheck, StartStep, StartState, StartFloor, StartStarted,
              StopCheck, StopStep, StopLook, StopSave, StopState, StopStarted, CallStep, IssueRequest
<1>7. CASE ElevatorExit
  BY <1>7 DEF ElevatorExit, KthreadStop, DeletePassengers, ClearStubs
<1>8. CASE UNCHANGED vars
  BY <1>8 DEF vars
<1> QED  BY <1>1, <1>2, <1>3, <1>4, <1>5, <1>6, <1>7, <1>8, SchedulerCases DEF Next

LEMMA NextTypeCounters == IInv /\ [Next]_vars => TypeCounters'
<1> SUFFICES ASSUME IInv, [Next]_vars PROVE TypeCounters'
  OBVIOUS
<1>1. TypeCounters
  BY DEF IInv, TypeOK, TypeCounters
<1>2. \A p \in Passengers :
        floor \in Floors /\ Served(p) => total_served' \in Nat /\ served' \in [Floors -> Nat]
  BY <1>1 DEF TypeCounters, Served
<1> QED  BY <1>1, <1>2, CounterSteps, PassengerUnits
         DEF TypeCounters, Account, loadVars, tallyVars

LEMMA NextTypeCalls == IInv /\ [Next]_vars => TypeCalls'
<1> SUFFICES ASSUME IInv, [Next]_vars PROVE TypeCalls'
  OBVIOUS
<1>1. TypeCalls
  BY DEF IInv, TypeOK, TypeCalls
<1>2. CASE UNCHANGED <<callVars, module>>
  BY <1>1, <1>2 DEF TypeCalls, callVars
<1>3. CASE ElevatorExit
  BY <1>1, <1>3 DEF TypeCalls, ElevatorExit, KthreadStop, DeletePassengers, ClearStubs, callVars
<1>4. CASE SystemCall /\ ~UNCHANGED <<callVars, module>>
  <2>1. ASSUME NEW c \in Calls, NEW to \in StartPCs \cup StopPCs, NEW from,
               CallStep(c, from, to)
        PROVE  /\ call' \in [Calls -> StartPCs \cup StopPCs] /\ module' = module
               /\ overlapped' \in BOOLEAN
    BY <1>1, <2>1 DEF CallStep, TypeCalls
  <2> USE <1>1, <2>1 DEF TypeCalls, StartPCs, StopPCs, Calls
  <2>2. ASSUME NEW c \in StartCalls, StartCheck(c) \/ StartStep(c) PROVE TypeCalls'
    BY <2>2 DEF StartCheck, StartStep, StartState, StartFloor, StartStarted
  <2>3. ASSUME NEW c \in StopCalls, StopCheck(c) \/ StopStep(c) PROVE TypeCalls'
    BY <2>3 DEF StopCheck, StopStep, StopLook, StopSave, StopState, StopStarted
  <2> QED  BY <1>4, <2>2, <2>3 DEF SystemCall, IssueRequest
<1>5. Scheduler => UNCHANGED <<callVars, module>>
  BY SchedulerCases DEF worldVars, LoadEnter, LoadEqual, LoadBoard, LoadNext, Goto,
                        DrainUnload, ServeUnload, Unload
<1>6. UNCHANGED vars => UNCHANGED <<callVars, module>>
  BY DEF vars
<1> QED  BY <1>2, <1>3, <1>4, <1>5, <1>6 DEF Next

-----------------------------------------------------------------------------
(* Stops that do not overlap. *)

\* What the steps of the thread do to the words that a stop reads and writes.
SchedulerMove ==
  /\ UNCHANGED <<previous_state, callVars>>
  /\ \/ current_floor' = current_floor
     \/ current_floor' = floor /\ pc \in {"drain_sleep", "scan_sleep", "up_sleep"}
  /\ state' \in {state, LOADING, UP, IDLE}
  /\ pc' \in Draining => pc \in Draining \/ state = OFFLINE

LEMMA SchedulerMoves == Scheduler => SchedulerMove
<1> SUFFICES ASSUME Scheduler PROVE SchedulerMove
  OBVIOUS
<1> USE DEF SchedulerMove, Draining, carVars, worldVars
<1>1. CASE Exit \/ SeeOffline \/ SeeIdle \/ SeeService
  BY <1>1 DEF Exit, SeeOffline, SeeIdle, SeeService, Step, Lock, Goto
<1>2. CASE DrainAim \/ DrainMove \/ DrainArrive \/ DrainReadFloor \/ DrainCompareFloor
           \/ DrainUnloaded \/ DrainEnd
  BY <1>2 DEF DrainAim, DrainMove, DrainArrive, DrainReadFloor, DrainCompareFloor,
          DrainUnloaded, DrainEnd, Argument, Move, Arrive, CompareFloor, Step, Unloaded, Unlock,
          Goto
<1>3. CASE ScanSkip \/ ScanMove \/ ScanArrive \/ ScanMark \/ ScanEnd
  BY <1>3 DEF ScanSkip, ScanMove, ScanArrive, ScanMark, ScanEnd, Move, Arrive, SetState, Step,
          Goto
<1>4. CASE ServeBegin \/ ServeReadFloor \/ ServeCompareFloor \/ ServeUnloaded \/ ServeWake
           \/ LoadReadFloor \/ LoadReturn \/ LoadEnter \/ LoadFull
  BY <1>4 DEF ServeBegin, ServeReadFloor, ServeCompareFloor, ServeUnloaded, ServeWake,
          LoadReadFloor, LoadReturn, LoadEnter, LoadFull, SetState, Argument, CompareFloor,
          Unloaded, Step, Goto
<1>5. CASE LoadEqual \/ LoadBoard
  BY <1>5 DEF LoadEqual, LoadBoard, LoadNext
<1>6. CASE SetUp \/ UpLock \/ UpSkip \/ UpReadFloor \/ UpMove \/ UpArrive \/ UpUnlock \/ ServeEnd
  BY <1>6 DEF SetUp, UpLock, UpSkip, UpReadFloor, UpMove, UpArrive, UpUnlock, ServeEnd, SetState,
          Lock, Unlock, Argument, Move, Arrive, Step, Goto
<1>7. ASSUME NEW p \in onboard, DrainUnload(p) \/ ServeUnload(p) PROVE SchedulerMove
  BY <1>7 DEF DrainUnload, ServeUnload, Unload, threadVars
<1> QED  BY <1>1, <1>2, <1>3, <1>4, <1>5, <1>6, <1>7 DEF Scheduler

LEMMA SchedulerStopInv == IInv /\ Scheduler => StopInv'
<1> SUFFICES ASSUME IInv, Scheduler PROVE StopInv'
  OBVIOUS
<1>1. SchedulerMove /\ UNCHANGED <<overlapped, call, previous_state>>
  BY SchedulerMoves DEF SchedulerMove, callVars
<1>2. Noted'
  BY <1>1 DEF IInv, StopInv, Noted, StopsOverlap, Running
<1>3. ASSUME ~overlapped
      PROVE  \/ current_floor' = current_floor
             \/ current_floor' \in Floors
             \/ pc \in Draining /\ previous_state = OFFLINE
  <2>1. CASE pc = "drain_sleep"
    BY <1>1, <1>3, <2>1, RiderHasFloor DEF SchedulerMove, IInv, DrainTarget, Draining
  <2>2. CASE pc # "drain_sleep"
    BY <1>1, <2>2 DEF SchedulerMove, IInv, ControlInv, ArgumentIsFloor
  <2> QED  BY <2>1, <2>2
<1>4. Recorded'
  BY <1>1, <1>3 DEF IInv, StopInv, Recorded, OFFLINE, UP
<1>5. Saving'
  BY <1>1, <1>3 DEF IInv, StopInv, Saving, SchedulerMove, OFFLINE, IDLE, LOADING, UP
<1> QED  BY <1>2, <1>4, <1>5 DEF StopInv

LEMMA CallStopInv ==
  ASSUME IInv, NEW c \in Calls, NEW from, NEW to, CallStep(c, from, to),
         \/ StartCheck(c) \/ StartState(c) \/ StartFloor(c) \/ StartStarted(c)
         \/ c \in StopCalls /\ (StopCheck(c) \/ StopStep(c))
  PROVE  StopInv'
<1>1. /\ call[c] = from /\ call' = [call EXCEPT ![c] = to]
      /\ overlapped' = (overlapped \/ StopsOverlap')
      /\ pc' = pc
  BY DEF CallStep, threadVars
<1>2. /\ call \in [Calls -> StartPCs \cup StopPCs] /\ overlapped \in BOOLEAN
  BY DEF IInv, TypeOK
<1>3. Noted'
  BY <1>1 DEF Noted
<1> SUFFICES ASSUME ~overlapped' PROVE Recorded' /\ Saving'
  BY <1>3 DEF StopInv, Recorded, Saving
<1>4. ~overlapped /\ ~StopsOverlap
  BY <1>1 DEF IInv, StopInv, Noted
<1>5. /\ previous_state = UP => current_floor \in Floors
      /\ \A d \in StopCalls : call[d] = "stop_save" =>
            current_floor \in Floors /\ pc \notin Draining /\ state \in {IDLE, LOADING, UP}
  BY <1>4 DEF IInv, StopInv, Recorded, Saving
<1>6. 1 \in Floors
  BY FloorsAssumption DEF Floors
<1> USE DEF Recorded, Saving, OFFLINE, IDLE, LOADING, UP
<1>7. ASSUME to # "stop_save", \A d \in StopCalls \ {c} : call'[d] = call[d]
      PROVE  \A d \in StopCalls : call'[d] = "stop_save" => call[d] = "stop_save" /\ d # c
  BY <1>1, <1>2, <1>7
<1>8. \A d \in StopCalls \ {c} : call'[d] = call[d]
  BY <1>1, <1>2 DEF Calls
<1>9. CASE StartCheck(c) \/ StartState(c) \/ StartFloor(c) \/ StartStarted(c)
  <2>1. to # "stop_save" /\ UNCHANGED previous_state
    BY <1>1, <1>2, <1>9 DEF StartCheck, StartState, StartFloor, StartStarted, CallStep
  <2>2. current_floor' \in {current_floor, 1} /\ state' \in {state, IDLE}
    BY <1>9 DEF StartCheck, StartState, StartFloor, StartStarted
  <2> QED  BY <1>1, <1>5, <1>6, <1>7, <1>8, <2>1, <2>2
<1>10. ASSUME c \in StopCalls, StopCheck(c) \/ StopStarted(c) PROVE Recorded' /\ Saving'
  <2>1. to # "stop_save" /\ UNCHANGED <<previous_state, current_floor, state>>
    BY <1>1, <1>2, <1>10 DEF StopCheck, StopStarted, CallStep
  <2> QED  BY <1>1, <1>5, <1>7, <1>8, <2>1
<1>11. ASSUME c \in StopCalls, StopLook(c) PROVE Recorded' /\ Saving'
  <2>1. call'[c] = "stop_save" => state = UP
    BY <1>2, <1>11 DEF StopLook, CallStep
  <2>2. state = UP => current_floor \in Floors /\ pc \notin Draining
    BY DEF IInv, ControlInv, InBuilding, DrainState
  <2> QED  BY <1>1, <1>5, <1>8, <1>11, <2>1, <2>2 DEF StopLook
<1>12. ASSUME c \in StopCalls, StopSave(c) PROVE Recorded' /\ Saving'
  <2>1. call[c] = "stop_save" /\ call'[c] # "stop_save"
    BY <1>2, <1>12 DEF StopSave, CallStep, Calls
  <2> QED  BY <1>1, <1>5, <1>8, <1>12, <2>1 DEF StopSave
<1>13. ASSUME c \in StopCalls, StopState(c) PROVE Recorded' /\ Saving'
  <2>1. call[c] = "stop_state" /\ call'[c] # "stop_save"
    BY <1>2, <1>13 DEF StopState, CallStep, Calls
  <2>2. \A d \in StopCalls \ {c} : call'[d] # "stop_save"
    BY <1>4, <1>8, <1>13, <2>1 DEF StopsOverlap, Running
  <2> QED  BY <1>1, <1>5, <1>13, <2>1, <2>2 DEF StopState
<1> QED  BY <1>9, <1>10, <1>11, <1>12, <1>13 DEF StopStep

LEMMA NextStopInv == IInv /\ [Next]_vars => StopInv'
<1> SUFFICES ASSUME IInv, [Next]_vars PROVE StopInv'
  OBVIOUS
<1>1. ASSUME UNCHANGED <<state, previous_state, current_floor, pc, call, overlapped>>
      PROVE  StopInv'
  BY <1>1 DEF IInv, StopInv, Noted, Recorded, Saving, StopsOverlap, Running
<1>2. CASE SystemCall
  <2>1. ASSUME NEW c \in StartCalls, StartCheck(c) \/ StartStep(c) PROVE StopInv'
    <3>1. \E from, to : CallStep(c, from, to)
      BY <2>1 DEF StartCheck, StartStep, StartState, StartFloor, StartStarted
    <3> QED  BY <2>1, <3>1, CallStopInv DEF StartStep, Calls
  <2>2. ASSUME NEW c \in StopCalls, StopCheck(c) \/ StopStep(c) PROVE StopInv'
    <3>1. \E from, to : CallStep(c, from, to)
      BY <2>2 DEF StopCheck, StopStep, StopLook, StopSave, StopState, StopStarted
    <3> QED  BY <2>2, <3>1, CallStopInv DEF Calls
  <2>3. ASSUME NEW r \in Requests, IssueRequest(r) PROVE StopInv'
    BY <1>1, <2>3 DEF IssueRequest, carVars, threadVars, callVars
  <2> QED  BY <1>2, <2>1, <2>2, <2>3 DEF SystemCall
<1>3. CASE ElevatorExit
  BY <1>1, <1>3 DEF ElevatorExit, KthreadStop, DeletePassengers, ClearStubs, carVars,
                    threadVars, callVars
<1>4. CASE UNCHANGED vars
  BY <1>1, <1>4 DEF vars, carVars, threadVars, callVars
<1> QED  BY <1>2, <1>3, <1>4, SchedulerStopInv DEF Next

-----------------------------------------------------------------------------
(* The target of the OFFLINE branch. *)

\* With a direction recorded min_onboard returns somebody's floor: the car is in
\* the building, so nobody on board is ten floors away from it.  That is so as
\* long as stops have not overlapped.
LEMMA MinOnboardTarget ==
  ASSUME IInv, ~overlapped, onboard # {}, NEW f, min_onboard(f)
  PROVE  \/ f = -1 /\ previous_state = OFFLINE
         \/ \E p \in onboard : destination_floor(p) = f
<1>1. previous_state \in {OFFLINE, UP}
  BY DEF IInv, TypeOK
<1>2. CASE previous_state = OFFLINE
  BY <1>2 DEF min_onboard, OFFLINE, UP, DOWN
<1>3. CASE previous_state = UP
  <2>1. current_floor \in 1 .. lastfloor
    BY <1>3 DEF IInv, StopInv, Recorded, Floors
  <2>2. ASSUME NEW p \in onboard PROVE p \in candidates
    <3>1. destination_floor(p) \in 1 .. lastfloor
      BY RiderHasFloor DEF Floors
    <3> QED  BY <1>3, <2>1, <3>1, FloorsAssumption DEF candidates, near, ahead
  <2>3. candidates # {}
    BY <2>2
  <2> QED  BY <1>3, <2>3 DEF min_onboard, UP
<1> QED  BY <1>1, <1>2, <1>3

LEMMA NextDrainTarget == IInv /\ [Next]_vars => DrainTarget'
<1> SUFFICES ASSUME IInv, [Next]_vars, ~overlapped'
             PROVE  DrainTarget'
  BY DEF DrainTarget
<1> DEFINE Target == \/ floor = -1 /\ previous_state = OFFLINE
                     \/ \E p \in onboard : destination_floor(p) = floor
<1>0. ~overlapped
  <2>1. ASSUME NEW c, NEW from, NEW to, CallStep(c, from, to) PROVE ~overlapped
    BY <2>1 DEF CallStep
  <2>2. CASE SystemCall
    <3>1. ASSUME NEW c, StartCheck(c) \/ StartStep(c) \/ StopCheck(c) \/ StopStep(c)
          PROVE  ~overlapped
      BY <2>1, <3>1 DEF StartCheck, StartStep, StartState, StartFloor, StartStarted, StopCheck,
                        StopStep, StopLook, StopSave, StopState, StopStarted
    <3> QED  BY <2>2, <3>1 DEF SystemCall, IssueRequest, callVars
  <2>3. CASE ElevatorExit \/ UNCHANGED vars
    BY <2>3 DEF ElevatorExit, KthreadStop, DeletePassengers, ClearStubs, vars, callVars
  <2> QED  BY <2>2, <2>3, SchedulerMoves DEF Next, SchedulerMove, callVars
<1>1. (current_floor = -1 => previous_state = OFFLINE)'
  <2>1. StopInv' /\ ControlInv'
    BY NextStopInv, SchedulerControl, OthersControl DEF Next
  <2> QED  BY <2>1, FloorsAssumption DEF StopInv, Recorded, ControlInv, TypeControl, Floors
<1> SUFFICES ASSUME pc' \in {"drain_move", "drain_sleep"} PROVE Target'
  BY <1>1 DEF DrainTarget
<1>2. CASE DrainAim
  <2>1. /\ \E f \in {-1, 0} \cup Floors : min_onboard(f) /\ floor' = f
        /\ onboard # {}
        /\ UNCHANGED <<previous_state, onboard, req>>
    BY <1>2 DEF DrainAim, Argument, Goto, carVars, worldVars, loadVars, heapVars
  <2> QED  BY <1>0, <2>1, MinOnboardTarget DEF destination_floor
<1>3. CASE DrainMove
  BY <1>0, <1>3 DEF DrainMove, Move, Goto, worldVars, loadVars, heapVars, IInv, DrainTarget,
              destination_floor
<1>4. CASE SystemCall
  <2>1. pc \in {"drain_move", "drain_sleep"} /\ UNCHANGED <<floor, onboard>>
    BY <1>4 DEF SystemCall, StartCheck, StartStep, StartState, StartFloor, StartStarted,
                StopCheck, StopStep, StopLook, StopSave, StopState, StopStarted, CallStep,
                IssueRequest, threadVars, loadVars
  <2>2. previous_state' = previous_state
    <3>1. ASSUME NEW c \in StopCalls PROVE ~StopSave(c)
      BY <1>0, <2>1 DEF StopSave, CallStep, IInv, StopInv, Saving, Draining
    <3> QED  BY <1>4, <3>1 DEF SystemCall, StartCheck, StartStep, StartState, StartFloor,
                StartStarted, StopCheck, StopStep, StopLook, StopState, StopStarted,
                IssueRequest, carVars
  <2>3. \A p \in onboard : destination_floor(p)' = destination_floor(p)
    <3>1. ASSUME NEW r \in Requests, IssueRequest(r), NEW p \in onboard
          PROVE  req'[p] = req[p]
      <4>1. p \in 1 .. Len(req) /\ req \in Seq(Passenger)
        BY DEF IInv, TypeOK, Passengers
      <4>2. req' = Append(req, r)
        BY <3>1 DEF IssueRequest
      <4> QED  BY <4>1, <4>2
    <3>2. CASE req' = req
      BY <3>2 DEF destination_floor
    <3> QED  BY <1>4, <3>1, <3>2
             DEF SystemCall, StartCheck, StartStep, StartState, StartFloor, StartStarted,
                 StopCheck, StopStep, StopLook, StopSave, StopState, StopStarted, CallStep,
                 heapVars, destination_floor
  <2> QED  BY <1>0, <2>1, <2>2, <2>3 DEF IInv, DrainTarget
<1>5. CASE ElevatorExit \/ UNCHANGED vars
  BY <1>0, <1>5 DEF ElevatorExit, KthreadStop, DeletePassengers, ClearStubs, vars, threadVars,
              loadVars, heapVars, carVars, IInv, DrainTarget, destination_floor
<1>6. CASE Scheduler
  <2>1. \A from, to : Goto(from, to) => pc' = to
    BY DEF Goto
  <2>2. ~(\E p \in onboard : DrainUnload(p) \/ ServeUnload(p))
    BY DEF DrainUnload, ServeUnload, Unload, threadVars
  <2>3. DrainAim \/ DrainMove
    BY <1>6, <2>1, <2>2
    DEF Scheduler, Exit, SeeOffline, SeeIdle, SeeService, DrainArrive,
        DrainReadFloor, DrainCompareFloor, DrainUnloaded, DrainEnd, ScanSkip, ScanMove,
        ScanArrive, ScanMark, ScanEnd, ServeBegin, ServeReadFloor, ServeCompareFloor,
        ServeUnloaded, ServeWake, LoadReadFloor, LoadReturn, LoadEnter, LoadEqual,
        LoadBoard, LoadFull, LoadNext, SetUp, UpLock, UpSkip, UpReadFloor, UpMove, UpArrive,
        UpUnlock, ServeEnd, Step, Lock, Unlock, SetState, Argument, CompareFloor, Move,
        Arrive, Unloaded
  <2> QED  BY <1>2, <1>3, <2>3
<1> QED  BY <1>4, <1>5, <1>6 DEF Next

-----------------------------------------------------------------------------
(* Theorems *)

LEMMA NextIInv == IInv /\ [Next]_vars => IInv'
<1> SUFFICES ASSUME IInv, [Next]_vars PROVE IInv'
  OBVIOUS
<1>1. ControlInv'
  BY SchedulerControl, OthersControl DEF Next
<1>2. PassengersInv' /\ TypeCounters' /\ TypeCalls' /\ StopInv' /\ DrainTarget'
  BY NextPassengers, NextTypeCounters, NextTypeCalls, NextStopInv, NextDrainTarget
<1>3. TypeOK'
  BY <1>1, <1>2 DEF TypeOK, ControlInv, TypeControl, PassengersInv, TypePassengers,
                    TypeCounters, TypeCalls
<1> QED  BY <1>1, <1>2, <1>3 DEF IInv, PassengersInv

\* The inductive invariant holds of the scheduler thread, the system calls and
\* elevator_exit together.
THEOREM Invariance == Spec => []IInv
<1> QED  BY InitIInv, NextIInv, PTL DEF Spec

\* The state is never DOWN, current_floor never leaves -1 .. lastfloor and every
\* variable has its type, however the calls interleave with the scheduler.
THEOREM TypeCorrect == Spec => []TypeOK
<1>1. IInv => TypeOK
  BY DEF IInv
<1> QED  BY Invariance, <1>1, PTL

\* load_elevator never indexes floors[] with a number that is not a floor's.
THEOREM LoadInBounds == Spec => []LoadIndexInBounds
<1>1. IInv => LoadIndexInBounds
  BY DEF IInv, ControlInv, ArgumentIsFloor, LoadIndexInBounds
<1> QED  BY Invariance, <1>1, PTL

\* However one stop_elevator after the other interleaves with the scheduler, the
\* starts and the requests, the OFFLINE branch drives to the floor of somebody on
\* board unless no direction was ever recorded.  Nothing is claimed once two stops
\* have overlapped.
THEOREM DrainAimed == Spec => []DrainTarget
<1>1. IInv => DrainTarget
  BY DEF IInv
<1> QED  BY Invariance, <1>1, PTL

\* The load never exceeds the capacity.
THEOREM Capacity == Spec => []WithinCapacity
<1>1. Init => WithinCapacity
  BY CapacityAssumption DEF Init, WithinCapacity
<1>2. IInv /\ WithinCapacity /\ [Next]_vars => WithinCapacity'
  <2> SUFFICES ASSUME IInv, WithinCapacity, [Next]_vars PROVE WithinCapacity'
    OBVIOUS
  <2>1. current_weight \in Int /\ current_units \in Int
    BY DEF IInv, TypeOK
  <2> QED  BY <2>1, CounterSteps, PassengerUnits, CapacityAssumption
           DEF WithinCapacity, Account, Fits, loadVars
<1> QED  BY Invariance, <1>1, <1>2, PTL DEF Spec

\* The decimal that /proc/elevator prints is that of the current weight.
THEOREM HalfUnit == Spec => []HalfUnitShown
<1>1. Init => HalfUnitShown
  BY DEF Init, HalfUnitShown
<1>2. ASSUME NEW w \in Int, NEW o \in Int, NEW d \in Nat, NEW n \in {0, 1},
             w % 2 = o % 2, d % 2 = n
      PROVE  (w + d) % 2 = (o + n) % 2 /\ (w - d) % 2 = (o - n) % 2
  BY <1>2, SMT
<1>3. IInv /\ HalfUnitShown /\ [Next]_vars => HalfUnitShown'
  <2> SUFFICES ASSUME IInv, HalfUnitShown, [Next]_vars PROVE HalfUnitShown'
    OBVIOUS
  <2>1. current_weight \in Int /\ odd_children \in Int
    BY DEF IInv, TypeOK
  <2>2. CASE UNCHANGED loadVars
    BY <2>2 DEF HalfUnitShown, loadVars
  <2>3. ASSUME NEW p \in Passengers, req[p] \in Passenger,
               Account(weight_units(type(p)), space_units(type(p)), children(p))
        PROVE  HalfUnitShown'
    BY <1>2, <2>1, <2>3, PassengerUnits DEF HalfUnitShown, Account
  <2>4. ASSUME NEW p \in Passengers, req[p] \in Passenger,
               Account(-weight_units(type(p)), -space_units(type(p)), -children(p))
        PROVE  HalfUnitShown'
    <3>1. /\ current_weight' = current_weight - weight_units(type(p))
          /\ odd_children' = odd_children - children(p)
      BY <2>1, <2>4, PassengerUnits DEF Account
    <3> QED  BY <1>2, <2>1, <2>4, <3>1, PassengerUnits DEF HalfUnitShown
  <2> QED  BY <2>2, <2>3, <2>4, CounterSteps
<1> QED  BY Invariance, <1>1, <1>3, PTL DEF Spec

-----------------------------------------------------------------------------
(* The thread is never stuck.                                              *)

\* Where scheduler() holds thread1.mutex.
Locked == Draining \cup (Serving \ {"check_up", "end"})

MutexHeld == /\ pc \in Locked => mutex = TRUE
             /\ pc \notin Locked => mutex = FALSE

LEMMA NextMutexHeld == IInv /\ MutexHeld /\ [Next]_vars => MutexHeld'
<1> SUFFICES ASSUME IInv, MutexHeld, [Next]_vars PROVE MutexHeld'
  OBVIOUS
<1> USE DEF MutexHeld, Locked, Draining, Serving
<1>1. ASSUME UNCHANGED threadVars PROVE MutexHeld'
  BY <1>1 DEF threadVars
<1>2. CASE Exit \/ SeeOffline \/ SeeIdle \/ SeeService
  BY <1>2 DEF Exit, SeeOffline, SeeIdle, SeeService, Step, Lock, Goto
<1>3. CASE DrainAim \/ DrainMove \/ DrainArrive \/ DrainReadFloor \/ DrainCompareFloor
           \/ DrainUnloaded \/ DrainEnd
  BY <1>3 DEF DrainAim, DrainMove, DrainArrive, DrainReadFloor, DrainCompareFloor,
          DrainUnloaded, DrainEnd, Argument, Move, Arrive, CompareFloor, Unloaded, Unlock, Step,
          Goto
<1>4. CASE ScanSkip \/ ScanMove \/ ScanArrive \/ ScanMark \/ ScanEnd
  BY <1>4 DEF ScanSkip, ScanMove, ScanArrive, ScanMark, ScanEnd, Move, Arrive, SetState, Step,
          Goto
<1>5. CASE ServeBegin \/ ServeReadFloor \/ ServeCompareFloor \/ ServeUnloaded \/ ServeWake
           \/ LoadReadFloor \/ LoadReturn \/ LoadEnter \/ LoadEqual \/ LoadBoard \/ LoadFull
  BY <1>5 DEF ServeBegin, ServeReadFloor, ServeCompareFloor, ServeUnloaded, ServeWake,
          LoadReadFloor, LoadReturn, LoadEnter, LoadEqual, LoadBoard, LoadFull, LoadNext,
          SetState, Argument, CompareFloor, Unloaded, Step, Goto
<1>6. CASE SetUp \/ UpLock \/ UpSkip \/ UpReadFloor \/ UpMove \/ UpArrive \/ UpUnlock \/ ServeEnd
  BY <1>6 DEF SetUp, UpLock, UpSkip, UpReadFloor, UpMove, UpArrive, UpUnlock, ServeEnd, SetState,
          Lock, Unlock, Argument, Move, Arrive, Step, Goto
<1>7. ASSUME NEW p \in onboard, DrainUnload(p) \/ ServeUnload(p) PROVE MutexHeld'
  BY <1>1, <1>7 DEF DrainUnload, ServeUnload, Unload
<1>8. CASE SystemCall \/ ElevatorExit
  BY <1>1, <1>8 DEF SystemCall, StartCheck, StartStep, StartState, StartFloor, StartStarted,
          StopCheck, StopStep, StopLook, StopSave, StopState, StopStarted, CallStep, IssueRequest,
          ElevatorExit, KthreadStop, DeletePassengers, ClearStubs
<1>9. CASE UNCHANGED vars
  BY <1>1, <1>9 DEF vars
<1> QED  BY <1>2, <1>3, <1>4, <1>5, <1>6, <1>7, <1>8, <1>9 DEF Next, Scheduler

\* Of numbers that are not below a bound one is the least.
LEMMA LeastNumber ==
  ASSUME NEW S \in SUBSET Int, S # {}, NEW b \in Int, \A d \in S : b <= d
  PROVE  \E m \in S : \A d \in S : m <= d
<1> DEFINE R == OpToRel(<, Nat)
           T == {n \in Nat : n + b \in S}
<1>1. IsWellFoundedOn(R, Nat)
  BY NatLessThanWellFounded
<1>2. \A x, y \in Nat : x < y => <<x, y>> \in R
  BY DEF OpToRel
<1>3. T # {}
  <2>1. PICK d \in S : TRUE
    OBVIOUS
  <2>2. d - b \in Nat /\ (d - b) + b = d
    BY <2>1
  <2> QED  BY <2>1, <2>2
<1>4. PICK n \in T : \A k \in T : ~(<<k, n>> \in R)
  <2>1. T \subseteq Nat
    OBVIOUS
  <2> HIDE DEF T, R
  <2> QED  BY <1>1, <1>3, <2>1, WFMin
<1> HIDE DEF R
<1>5. ASSUME NEW d \in S PROVE n + b <= d
  <2>1. d - b \in T
    BY <1>5
  <2>2. ~(d - b < n)
    BY <1>2, <1>4, <2>1
  <2> QED  BY <2>2
<1> QED  BY <1>4, <1>5

\* min_onboard always returns a floor, or one of 0 and -1.
LEMMA MinOnboardReturns ==
  ASSUME IInv
  PROVE  \E f \in {-1, 0} \cup Floors : min_onboard(f)
<1>1. CASE previous_state \notin {UP, DOWN} \/ candidates = {}
  BY <1>1 DEF min_onboard
<1>2. CASE previous_state \in {UP, DOWN} /\ candidates # {}
  <2> DEFINE S == {ahead(destination_floor(p)) : p \in candidates}
  <2>1. current_floor \in {-1, 0} \cup Floors /\ lastfloor \in Nat
    BY FloorsAssumption DEF IInv, ControlInv, TypeControl
  <2>2. \A p \in candidates : p \in onboard /\ destination_floor(p) \in Floors
    BY RiderHasFloor DEF candidates
  <2>3. \A f \in Floors : ahead(f) \in Int /\ -1 - lastfloor <= ahead(f)
    BY <2>1 DEF ahead, Floors
  <2>4. S \in SUBSET Int /\ S # {} /\ \A d \in S : -1 - lastfloor <= d
    BY <1>2, <2>2, <2>3
  <2>5. -1 - lastfloor \in Int
    BY <2>1
  <2>6. PICK m \in S : \A d \in S : m <= d
    <3> HIDE DEF S
    <3> QED  BY <2>4, <2>5, LeastNumber
  <2>7. PICK p \in candidates : m = ahead(destination_floor(p))
    BY <2>6
  <2>8. nearest(p)
    BY <2>6, <2>7 DEF nearest
  <2> QED  BY <1>2, <2>2, <2>7, <2>8 DEF min_onboard
<1> QED  BY <1>1, <1>2

\* What each step of the thread that could fail to be possible needs: the mutex
\* is free when it is locked, min_onboard has an answer, and the loop of
\* load_elevator has a passenger.
SchedulerGoesOn ==
  /\ pc \in {"top", "check_up"} => mutex = FALSE
  /\ pc = "drain" => \E f \in {-1, 0} \cup Floors : min_onboard(f)
  /\ pc = "load" => floors[floor] # <<>>

\* The scheduler thread never waits for itself and never runs out of steps, at any
\* number of floors and with system calls between any two of its steps.
THEOREM SchedulerIsNotStuck == Spec => []SchedulerGoesOn
<1>1. Init => MutexHeld
  BY DEF Init, MutexHeld, Locked, Draining, Serving
<1>2. Spec => []MutexHeld
  BY Invariance, <1>1, NextMutexHeld, PTL DEF Spec
<1>3. IInv /\ MutexHeld => SchedulerGoesOn
  BY MinOnboardReturns DEF IInv, LoadLoop, MutexHeld, Locked, Draining, Serving, SchedulerGoesOn
<1> QED  BY Invariance, <1>2, <1>3, PTL

=============================================================================
