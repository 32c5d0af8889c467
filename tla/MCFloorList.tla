----------------------------- MODULE MCFloorList -----------------------------
(* What the lists should be, whatever the threads do. *)
EXTENDS FloorList, TLC

\* The calls of issue_request are interchangeable.
Symmetry == Permutations(Passengers)

PCs == {"new", "add_prev", "add_self", "add_next", "print", "index", "first",
        "visit", "test", "store", "done", "lost", "save", "body",
        "unlink_prev", "unlink_next", "place", "place_next", "who"}

TypeOK ==
  /\ next \in [Nodes -> Nodes \cup {Bad}] /\ prev \in [Nodes -> Nodes \cup {Bad}]
  /\ i \in 1 .. lastfloor + 1
  /\ pc \in [Threads -> PCs]
  /\ at \in [Threads -> Nodes \cup {Bad}]
  /\ {head, dummy, before, after, dest} \subseteq Nodes \cup {Bad}

\* The pointers from h on lead through the passengers in s and back to h.
Leads(h, s) == \A k \in 0 .. Len(s) :
                 next[IF k = 0 THEN h ELSE s[k]] = IF k = Len(s) THEN h ELSE s[k + 1]

\* As long as no two operations on the same list overlap, every list is, at
\* every single write, the sequence that atomic operations would make of it.
SerialLists == ~raced => \A h \in Heads : Leads(h, on[h])

\* The node that the loops of load_elevator, unload_elevator and
\* delete_passenger go to next is still on their list, whoever is added.
SavedNodeOnList ==
  ~raced /\ pc[scheduler] = "save" /\ temp # head
    => \E k \in DOMAIN on[head] : on[head][k] = temp

\* A walk by print_passengers or elevator_proc_read that nobody disturbs leads
\* to the end of its own list.  Requests that race with each other may lose
\* passengers, but only together with somebody who gets in do they spoil a list
\* for the walks that come later.
WalkLeadsHome ==
  ~(raced /\ removed) => \A t \in Walking \ disturbed :
    /\ t \in Readers => Reaches(at[t], floor[t])
    /\ pc[t] \in {"visit", "test"} /\ t \in Passengers => Reaches(at[t], i)

\* A sum at /proc/elevator that nobody leaves meanwhile has everybody who was
\* there when it began and nobody who is not there when it ends.
SumOfFloor ==
  \A r \in Readers :
    ~raced /\ pc[r] = "visit" /\ AllSummed(r) /\ r \notin disturbed
      => /\ was[r] \subseteq seen[r]
         /\ \A p \in seen[r] : p \in Passengers /\ start_floor[p] = floor[r]

\* The list h as its next pointers give it.
Lines     == SeqOf(Passengers, Cardinality(Passengers))
ListOf(h) == CHOOSE s \in Lines : Leads(h, s)

\* Whose request has come to an end of list_add_tail, and who is in the middle of
\* list_move_tail.
Asked == {p \in Passengers : pc[p] \notin {"new", "add_prev", "add_self", "add_next"}}
Taken == IF pc[scheduler] \in {"place", "place_next"} /\ dest # Bad THEN temp ELSE Bad

Service == INSTANCE ListService WITH
  Nobody <- Bad, asked <- Asked, waiting <- [f \in Floors |-> ListOf(f)],
  riding <- ListOf(onboard), taken <- Taken, collected <- ListOf(move_list)

\* As long as no two operations on the same list overlap, the writes of the
\* threads do together what the operations on sequences in ListService do at once,
\* each at one of its writes, and no other write changes a list; module Elevator
\* relies on that.
Atomic == Service!Init /\ [][~raced' => UNCHANGED Service!vars \/ Service!Next]_vars

\* casey_elevator_proc.c lines 194-195, of issue_request: "This function returns
\* 1 if the request is not valid (...), and 0 otherwise".
RequestReturns == \A p \in Passengers : (pc[p] = "print") ~> (pc[p] = "done")

=============================================================================
