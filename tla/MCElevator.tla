----------------------------- MODULE MCElevator -----------------------------
(* Values for the constants of Elevator. *)
EXTENDS ElevatorProps, TLC

Req(t, s, d) == [type |-> t, start_floor |-> s, destination_floor |-> d]

\* A child who rides up, a bellhop who rides down, and three requests that
\* issue_request rejects.
MixedRequests == {Req(CHILD, 1, 3), Req(BELLHOP, 3, 1),
                  Req(ADULT, lastfloor + 1, 1), Req(ADULT, 1, 0), Req("CARGO", 1, 2)}

\* Three to a floor that do not fit together, the heaviest of them in front or
\* behind, and one whose ride wraps around the top floor.
CrowdRequests == {Req(BELLHOP, 1, 2), Req(CHILD, 1, 2), Req(RS, 2, 1)}

\* One ride up, one ride down, and one who stays.
UpDownRequests == {Req(ADULT, 1, 3), Req(CHILD, 3, 1), Req(ADULT, 2, 2)}

\* Calls of one kind are interchangeable.
Symmetry == Permutations(StartCalls) \cup Permutations(StopCalls)

=============================================================================
