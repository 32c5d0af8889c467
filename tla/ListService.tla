---------------------------- MODULE ListService ----------------------------
(***************************************************************************)
(* The lists of the elevator as sequences, which every operation changes   *)
(* in one step, as module Elevator takes them to be.  To move a passenger  *)
(* is two operations: in between he is on no list.  FloorList, which has   *)
(* the next and prev pointers, implements this as long as no two           *)
(* operations on one list overlap (MCFloorList!Atomic).                    *)
(***************************************************************************)
EXTENDS Naturals, Sequences, SequencesExt

CONSTANTS Passengers, Floors, Nobody

VARIABLES
  start_floor,  \* start_floor[p]: the floor of passenger p
  asked,        \* who has asked for the elevator
  waiting,      \* waiting[f]: who waits on floor f, in the order of asking
  riding,       \* who is on board, in the order of getting in
  taken,        \* who has been taken off a floor and is on no list yet, or Nobody
  exiting,      \* whether elevator_exit deletes the passengers
  collected     \* whom it has collected and not freed yet

vars == <<start_floor, asked, waiting, riding, taken, exiting, collected>>

Init ==
  /\ start_floor \in [Passengers -> Floors]
  /\ asked = {} /\ waiting = [f \in Floors |-> <<>>] /\ riding = <<>>
  /\ taken = Nobody /\ exiting = FALSE /\ collected = <<>>

\* A request puts its passenger behind everybody on his floor.
Ask(p) ==
  /\ p \notin asked
  /\ asked' = asked \cup {p}
  /\ waiting' = [waiting EXCEPT ![start_floor[p]] = Append(@, p)]
  /\ UNCHANGED <<start_floor, riding, taken, exiting, collected>>

\* The first on a floor is called, when nobody else is under way.
First(f) ==
  /\ taken = Nobody /\ waiting[f] # <<>>
  /\ waiting' = [waiting EXCEPT ![f] = Tail(@)]
  /\ UNCHANGED <<start_floor, asked, riding, exiting, collected>>

\* He is where he wants to be.
Greet(f) == ~exiting /\ UNCHANGED taken /\ First(f)

Take(f) == First(f) /\ taken' = Head(waiting[f])

\* He gets in, as the last of those on board.
GetIn ==
  /\ taken # Nobody /\ ~exiting
  /\ riding' = Append(riding, taken) /\ taken' = Nobody
  /\ UNCHANGED <<start_floor, asked, waiting, exiting, collected>>

\* Anybody on board may get off.
GetOff(p) ==
  /\ taken = Nobody /\ ~exiting /\ p \in {riding[k] : k \in DOMAIN riding}
  /\ riding' = RemoveFirst(riding, p)
  /\ UNCHANGED <<start_floor, asked, waiting, taken, exiting, collected>>

Exit ==
  /\ ~exiting /\ exiting' = TRUE /\ taken = Nobody
  /\ UNCHANGED <<start_floor, asked, waiting, riding, taken, collected>>

Collect ==
  /\ taken # Nobody /\ exiting
  /\ collected' = Append(collected, taken) /\ taken' = Nobody
  /\ UNCHANGED <<start_floor, asked, waiting, riding, exiting>>

Free ==
  /\ taken = Nobody /\ exiting /\ collected # <<>>
  /\ collected' = Tail(collected)
  /\ UNCHANGED <<start_floor, asked, waiting, riding, taken, exiting>>

Next == \/ \E p \in Passengers : Ask(p) \/ GetOff(p)
        \/ \E f \in Floors : Greet(f) \/ Take(f)
        \/ GetIn \/ Exit \/ Collect \/ Free

Spec == Init /\ [][Next]_vars

=============================================================================
