--------------------------- MODULE ElevatorService ---------------------------
(***************************************************************************)
(* What an elevator promises its passengers, without a car, a direction or *)
(* a scheduler: whoever has asked waits on his floor, gets in when it is   *)
(* his turn on that floor and he fits, and is let off and counted on the   *)
(* floor he asked for.  Elevator implements this (ElevatorProps!Service).  *)
(***************************************************************************)
EXTENDS Integers, Sequences, FiniteSets

CONSTANTS
  Floors, MAXWEIGHT, MAXUNITS,
  Weight, Space,  \* functions from the types of passengers
  Requests,       \* what passengers ask for
  MaxRequests     \* bound: number of requests

VARIABLES
  req,     \* what the passengers have asked for, in the order of asking
  fate,    \* fate[p]: what has become of passenger p
  served   \* how many have been served on each floor

vars == <<req, fate, served>>

People    == 1 .. Len(req)
Having(f) == {p \in People : fate[p] = f}

\* How much of a capacity the people in S take, unit by unit.
Load(S, size) == Cardinality({pu \in S \X (1 .. MAXWEIGHT) : pu[2] <= size[req[pu[1]].type]})

Init == req = <<>> /\ fate = <<>> /\ served = [f \in Floors |-> 0]

\* Somebody asks, and is turned away ("gone") if there is no memory.
Ask(r) ==
  /\ Len(req) < MaxRequests
  /\ req' = Append(req, r)
  /\ \E f \in {"waiting", "gone"} : fate' = Append(fate, f)
  /\ UNCHANGED served

\* Nobody on the floor of p has waited longer than p.
First(p) == /\ fate[p] = "waiting"
            /\ \A q \in Having("waiting") : req[q].start_floor = req[p].start_floor => p <= q

Serve(p) ==
  /\ fate' = [fate EXCEPT ![p] = "served"]
  /\ served' = [served EXCEPT ![req[p].destination_floor] = @ + 1]
  /\ UNCHANGED req

\* Somebody who is where he wants to be does not ride.
Greet(p) == First(p) /\ req[p].start_floor = req[p].destination_floor /\ Serve(p)

Board(p) ==
  /\ First(p) /\ req[p].start_floor # req[p].destination_floor
  /\ fate' = [fate EXCEPT ![p] = "riding"]
  /\ Load(Having("riding") \cup {p}, Weight) <= MAXWEIGHT
  /\ Load(Having("riding") \cup {p}, Space) <= MAXUNITS
  /\ UNCHANGED <<req, served>>

Deliver(p) == fate[p] = "riding" /\ Serve(p)

\* The elevator is taken away with whoever is waiting.
Close == /\ fate' = [p \in People |-> IF fate[p] = "waiting" THEN "gone" ELSE fate[p]]
         /\ UNCHANGED <<req, served>>

Next == \/ \E r \in Requests : Ask(r)
        \/ \E p \in People : Greet(p) \/ Board(p) \/ Deliver(p)
        \/ Close

Spec == Init /\ [][Next]_vars

=============================================================================
