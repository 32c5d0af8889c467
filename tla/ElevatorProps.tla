--------------------------- MODULE ElevatorProps ---------------------------
(***************************************************************************)
(* What the elevator of module Elevator should do.  The properties in the  *)
(* last section are statements of the repository's comments and README     *)
(* that the code does not keep.                                            *)
(***************************************************************************)
EXTENDS Elevator

PCs == {"top", "exited",
        "drain", "drain_move", "drain_sleep", "drain_read", "drain_compare", "drain_unload",
        "scan", "scan_sleep", "scan_mark",
        "serve", "serve_read", "serve_compare", "serve_unload", "serve_sleep",
        "load_read", "load_compare", "load",
        "set_up", "check_up", "up_read", "up_move", "up_sleep", "up_unlock", "end"}

StartPCs == {"new", "start_state", "start_floor", "start_started",
             "returned 0", "returned 1"}
StopPCs  == {"new", "stop_look", "stop_save", "stop_state", "stop_started",
             "returned 0", "returned 1"}

Passenger == [type : Types, start_floor : Floors, destination_floor : Floors]

(* Types of the variables.  state is never DOWN: the DOWN branch of        *)
(* scheduler() is dead.  current_floor leaves the building by one floor    *)
(* number, -1, which min_onboard returns when no direction was recorded;   *)
(* next_floor and the argument floor can hold it as well.                  *)
TypeOK ==
  /\ state \in {OFFLINE, IDLE, LOADING, UP}
  /\ previous_state \in {OFFLINE, UP}
  /\ current_floor \in {-1, 0} \cup Floors
  /\ next_floor \in {-1, 0} \cup Floors
  /\ current_weight \in Int /\ current_units \in Int /\ odd_children \in Int
  /\ req \in Seq(Passenger)
  /\ Len(req) <= MaxRequests
  /\ mem \in Seq({"linked", "unlinked", "freed", "none"}) /\ Len(mem) = Len(req)
  /\ onboard \subseteq Passengers
  /\ floors \in [Floors -> Seq(Nat)]
  /\ started \in {0, 1}
  /\ total_served \in Nat /\ served \in [Floors -> Nat]
  /\ pc \in PCs
  /\ i \in 1 .. lastfloor + 1
  /\ floor \in {-1, 0} \cup Floors
  /\ dummy \in BOOLEAN /\ mutex \in BOOLEAN
  /\ call \in [Calls -> StartPCs \cup StopPCs]
  /\ module \in {"live", "stopping", "deleted", "removed"}
  /\ overlapped \in BOOLEAN

-----------------------------------------------------------------------------
(* What Elevator is to the specification ElevatorService *)

\* What has become of a passenger, by the state of his node and his lists.
\* A linked node that is on no list or on two is "lost", which the abstract
\* specification knows nothing of.
FateOf(p) ==
  IF mem[p] = "unlinked" THEN "served"
  ELSE IF mem[p] \in {"none", "freed"} THEN "gone"
  ELSE IF Waiting(p) /\ p \notin onboard THEN "waiting"
  ELSE IF p \in onboard /\ ~Waiting(p) THEN "riding"
  ELSE "lost"

WeightOf == [t \in Types |-> weight_units(t)]
SpaceOf  == [t \in Types |-> space_units(t)]

Abstract == INSTANCE ElevatorService WITH
  fate     <- [p \in Passengers |-> FateOf(p)],
  Weight   <- WeightOf,
  Space    <- SpaceOf,
  Requests <- {r \in Requests : ValidRequest(r)}

-----------------------------------------------------------------------------
(* Safety *)

\* The counters kept by load_elevator and unload_elevator agree with the
\* passengers who are on board.  Load counts their units one by one.
LoadAccounting ==
  /\ current_weight = Abstract!Load(onboard, WeightOf)
  /\ current_units = Abstract!Load(onboard, SpaceOf)
  /\ odd_children = Cardinality({p \in onboard : type(p) = CHILD})

\* load_elevator never lets in more than the elevator carries, whichever
\* passengers get on and off in whatever order.
WithinCapacity == current_weight <= MAXWEIGHT /\ current_units <= MAXUNITS

\* /proc/elevator prints the weight as current_weight/2, with the decimal .5
\* when odd_children is odd: that is the half unit the division drops.
HalfUnitShown == current_weight % 2 = odd_children % 2

\* A passenger whose node is linked is on exactly one list: once on the list
\* of the floor he starts from, or on board.  An unlinked one is on none.
OnOneList ==
  /\ \A p \in Passengers :
       /\ mem[p] = "linked" <=> Waiting(p) \/ p \in onboard
       /\ ~(Waiting(p) /\ p \in onboard)
  /\ \A f \in Floors : \A j, k \in DOMAIN floors[f] :
       /\ start_floor(floors[f][j]) = f
       /\ floors[f][j] = floors[f][k] => j = k

\* served[] counts everyone on the floor he wanted to go to, and total_served
\* counts everyone once: README.md line 53, "the total serviced based on the
\* floor they got off not the floor they started on".
ServedWhereTheyGotOff ==
  /\ \A f \in Floors : served[f] =
       Cardinality({p \in Passengers : mem[p] = "unlinked" /\ destination_floor(p) = f})
  /\ total_served = Cardinality({p \in Passengers : mem[p] = "unlinked"})

\* load_elevator indexes floors[floor - 1]: although current_floor takes the
\* values 0 and -1 and start_elevator overwrites it at any time, the
\* argument is the number of a floor whenever load_elevator is called.
LoadIndexInBounds == pc = "load_compare" => floor \in Floors

\* Nobody passes a passenger who is waiting on the same floor, not even when
\* the first one is too heavy and the next would fit.
FloorFIFO ==
  \A p, q \in Passengers :
    (p < q /\ start_floor(p) = start_floor(q) /\ Waiting(p) /\ mem[q] # "none")
      => Waiting(q)

\* As long as no two calls of stop_elevator overlap: the OFFLINE branch heads
\* for the floor of someone on board, or for the floor -1 when stop_elevator has
\* never recorded a direction; with a direction recorded the elevator is in the
\* building, although a stop loads the state that it records, stores it and
\* sets OFFLINE at three moments.  (Of two that overlap one may record UP when
\* the other has sent the car to the floor -1 already.)
DrainTarget ==
  ~overlapped =>
    /\ current_floor = -1 => previous_state = OFFLINE
    /\ pc \in {"drain_move", "drain_sleep"} =>
         \/ floor = -1 /\ previous_state = OFFLINE
         \/ \E p \in onboard : destination_floor(p) = floor

-----------------------------------------------------------------------------
(* Refinement *)

\* The scheduler, the system calls and the unloading of the module keep the
\* promise: passengers get in one by one in the order of their floor, only as
\* many as their own weights and sizes allow (whatever the counters say), and
\* everyone is let off and counted on the floor he asked for.
Service == Abstract!Spec

-----------------------------------------------------------------------------
(* Liveness *)

\* Without stop_elevator and with one start_elevator, everyone is served.
AllServed ==
  \A p \in 1 .. MaxRequests :
    (started = 1 /\ p \in Passengers) ~> (p \in Passengers /\ mem[p] = "unlinked")

\* With a direction recorded by stops that have not overlapped, the OFFLINE
\* branch lets everyone out.
DrainEnds == (pc = "drain" /\ previous_state = UP /\ ~overlapped) ~> (onboard = {})

\* The OFFLINE branch has riders for whom it has no way to go: no direction was
\* recorded, or stops have overlapped.
Stranded ==
  /\ pc \in {"drain", "drain_move", "drain_sleep", "drain_read", "drain_compare",
             "drain_unload"}
  /\ onboard # {} /\ (previous_state = OFFLINE \/ overlapped)

\* rmmod returns, since the thread comes back to the top of its loop, unless
\* riders are stranded in the OFFLINE branch: that is the one loop that keeps
\* kthread_stop waiting, and then for ever.
RmmodReturns == (module = "stopping") ~> (module = "removed" \/ []Stranded)

-----------------------------------------------------------------------------
(* Statements the code does not keep *)

\* Every call has succeeded and the last one was stop_elevator.
Stopped == started = 0 /\ \A c \in Calls : call[c] = "returned 0"

\* casey_elevator_proc.c lines 164-165, of stop_elevator: "At this point, this
\* elevator will process no more new requests (that is, passengers waiting on
\* floors)": load_elevator no longer enters its loop.
NoLoadAfterStop == [][Stopped => ~LoadEnter]_vars

\* casey_elevator_proc.c lines 165-166, of stop_elevator: "before an elevator
\* completely stops, it must offload all of its current passengers".
OffloadedAfterStop == Stopped ~> (onboard = {})

\* README.md line 33: the elevator "services all the passengers once enough
\* time has passed".  Every call has succeeded and the last one was
\* start_elevator.
Started == started = 1 /\ \A c \in Calls : call[c] = "returned 0"

AllServedWhenStarted ==
  \A p \in 1 .. MaxRequests :
    (Started /\ p \in Passengers) ~> (p \in Passengers /\ mem[p] = "unlinked")

=============================================================================
