------------------------------ MODULE FloorList ------------------------------
(***************************************************************************)
(* The lists of src/elevator_proc.c as next and prev pointers.  Any number *)
(* of issue_request calls put their passengers on the lists of the floors  *)
(* and print all floors; the scheduler thread takes passengers off and     *)
(* gives them to elevator.onboard, then elevator_exit frees the rest; and  *)
(* readers of /proc/elevator add up who is waiting.  Nobody takes a lock.  *)
(*                                                                         *)
(* A step is one access to a pointer or an index that another thread uses; *)
(* an index that was loaded is loaded again after a call, as of printk.    *)
(* Module Elevator decides who gets in and out; here it is left open.      *)
(*                                                                         *)
(* A register is reset once it is not used any more.                       *)
(*                                                                         *)
(* Nodes are the heads, which are numbers, and the passengers.  floors[f-1]*)
(* is the head f; the index i of the code is i-1 here.                     *)
(***************************************************************************)
EXTENDS Integers, Sequences, FiniteSets, SequencesExt

CONSTANTS
  lastfloor,
  Passengers,   \* one for each call of issue_request, which is also its thread
  Readers,      \* processes that call elevator_proc_read
  MaxCalls,     \* bound: how many calls are in progress at a time
  Rmmod,        \* whether the module is unloaded
  scheduler,    \* the scheduler thread, and elevator_exit after it
  Bad           \* a pointer that leads nowhere: never set, poisoned or freed

Floors    == 1 .. lastfloor
onboard   == 0
move_list == -1     \* the local list of delete_passenger
Heads     == {onboard, move_list} \cup Floors
Nodes     == Heads \cup Passengers
Threads   == Passengers \cup Readers \cup {scheduler}

ASSUME ListAssumption == /\ lastfloor \in Nat \ {0} /\ MaxCalls \in Nat /\ Rmmod \in BOOLEAN
                         /\ IsFiniteSet(Passengers) /\ Bad \notin Nodes
\* No number is a passenger, and every thread is one of three kinds.
ASSUME NodeAssumption ==
  /\ (Passengers \cup {Bad}) \cap (move_list .. lastfloor + 1) = {}
  /\ Passengers \cap Readers = {} /\ scheduler \notin Passengers \cup Readers

VARIABLES
  next, prev,   \* of every node
  i,            \* the global loop variable of print_passengers
  start_floor,  \* start_floor[p]: the floor of passenger p
  pc,
  at,           \* at[t]: the pointer or index that thread t has in a register
  floor,        \* floor[r]: the floor that reader r adds up
  seen,         \* seen[r]: the nodes it has added up, unless Forgotten
  \* the scheduler thread
  head,         \* the list that its loop goes through
  dummy,        \* the node that list_for_each_safe has saved
  before, after,\* the neighbours of the node that it unlinks
  dest,         \* the list that the node is moved to, Bad for list_del
  exiting,      \* whether elevator_exit has come to delete_passenger
  \* history
  on,           \* on[h]: the list h as a sequence, if list operations were atomic
  raced,        \* whether two operations on one list have ever overlapped
  removed,      \* whether somebody has ever been taken off the list of a floor
  disturbed,    \* calls during which that has happened, or two calls have printed
  was           \* was[r]: the passengers on its floor when reader r began

ptrVars   == <<next, prev>>
readVars  == <<floor, seen, was>>
workVars  == <<head, dummy, before, after, dest, exiting>>
historyVars == <<on, raced, removed, disturbed>>
vars == <<ptrVars, i, start_floor, pc, at, readVars, workVars, historyVars>>

Init ==
  /\ next = [n \in Nodes |-> IF n \in Heads THEN n ELSE Bad]
  /\ prev = next
  /\ i = 1
  /\ start_floor \in [Passengers -> Floors]
  /\ pc = [t \in Threads |-> "new"]
  /\ at = [t \in Threads |-> onboard]
  /\ floor = [r \in Readers |-> 1] /\ seen = [r \in Readers |-> {}]
  /\ head = onboard /\ dummy = onboard /\ before = onboard /\ after = onboard
  /\ dest = Bad /\ exiting = FALSE
  /\ on = [h \in Heads |-> <<>>]
  /\ raced = FALSE /\ removed = FALSE /\ disturbed = {}
  /\ was = [r \in Readers |-> {}]

At(t, from, to) == pc[t] = from /\ pc' = [pc EXCEPT ![t] = to]
Hold(t, n)      == at' = [at EXCEPT ![t] = n]
Set(p, n, m)    == p' = IF n = Bad THEN p ELSE [p EXCEPT ![n] = m]

\* The floors whose lists are being changed.
Adding(f)   == \E p \in Passengers : pc[p] \in {"add_prev", "add_self", "add_next"}
                                     /\ start_floor[p] = f
Removing(f) == pc[scheduler] \in {"unlink_prev", "unlink_next"} /\ head = f

Printing == {p \in Passengers : pc[p] \in {"index", "first", "visit", "test", "store"}}
Walking  == Printing \cup {r \in Readers : pc[r] = "visit"}

Running == {t \in Threads \ {scheduler} : pc[t] \notin {"new", "done", "lost"}}

-----------------------------------------------------------------------------
(* issue_request: list_add_tail(&p->list, &floors[start_floor - 1])        *)

AddRead(p) ==
  /\ At(p, "new", "add_prev") /\ Cardinality(Running) < MaxCalls
  /\ Hold(p, prev[start_floor[p]])
  /\ raced' = (raced \/ Adding(start_floor[p]) \/ Removing(start_floor[p]))
  /\ UNCHANGED <<ptrVars, i, start_floor, readVars, workVars, on, removed, disturbed>>

AddPrev(p) ==
  /\ At(p, "add_prev", "add_self")
  /\ Set(prev, start_floor[p], p)
  /\ UNCHANGED <<next, i, start_floor, at, readVars, workVars, historyVars>>

\* Slip: the new node leads nowhere when it is published.
Slip_AddSelf(p) ==
  /\ At(p, "add_self", "add_next")
  /\ Set(prev, p, at[p])
  /\ UNCHANGED <<next, i, start_floor, at, readVars, workVars, historyVars>>

AddSelf(p) ==
  /\ At(p, "add_self", "add_next")
  /\ Set(next, p, start_floor[p]) /\ Set(prev, p, at[p])
  /\ UNCHANGED <<i, start_floor, at, readVars, workVars, historyVars>>

\* Writing through Bad is fatal.
AddNext(p) ==
  /\ At(p, "add_next", IF at[p] = Bad THEN "lost" ELSE "print")
  /\ Set(next, at[p], p) /\ Hold(p, onboard)
  /\ on' = [on EXCEPT ![start_floor[p]] = Append(@, p)]
  /\ UNCHANGED <<prev, i, start_floor, readVars, workVars, raced, removed, disturbed>>

-----------------------------------------------------------------------------
(* print_passengers                                                        *)

PrintStep(p, from, to) ==
  /\ At(p, from, to)
  /\ UNCHANGED <<ptrVars, start_floor, readVars, workVars, on, raced, removed>>

PrintBegin(p) ==
  /\ PrintStep(p, "print", "index")
  /\ i' = 1
  /\ disturbed' = IF Printing = {} THEN disturbed ELSE disturbed \cup Printing \cup {p}
  /\ UNCHANGED at

\* i is read again after printk.  floors[10] may lead anywhere.
PrintIndex(p) ==
  /\ PrintStep(p, "index", IF i \in Floors THEN "first" ELSE "lost")
  /\ Hold(p, IF i \in Floors THEN i ELSE onboard)
  /\ UNCHANGED <<i, disturbed>>

PrintFirst(p) ==
  /\ PrintStep(p, "first", IF next[at[p]] = at[p] THEN "store" ELSE "visit")
  /\ Hold(p, next[at[p]])
  /\ UNCHANGED <<i, disturbed>>

\* Goes to the next node.  Bad is a page fault or something that was freed.
PrintVisit(p) ==
  /\ PrintStep(p, "visit", IF at[p] = Bad THEN "lost" ELSE "test")
  /\ Hold(p, IF at[p] = Bad THEN onboard ELSE next[at[p]])
  /\ UNCHANGED <<i, disturbed>>

\* The end of the list is &floors[i], with i as it is now.
PrintTest(p) ==
  /\ PrintStep(p, "test", IF at[p] = i THEN "store" ELSE "visit")
  /\ UNCHANGED <<i, at, disturbed>>

\* Slip: adds one to the i that another call has left.
Slip_PrintStore(p) ==
  /\ PrintStep(p, "store", IF at[p] < lastfloor THEN "index" ELSE "done")
  /\ i' = i + 1 /\ Hold(p, onboard)
  /\ disturbed' = IF at[p] < lastfloor THEN disturbed ELSE disturbed \ {p}

\* i++, from the i that was loaded last, and the test of the loop.
PrintStore(p) ==
  /\ PrintStep(p, "store", IF at[p] < lastfloor THEN "index" ELSE "done")
  /\ i' = at[p] + 1 /\ Hold(p, onboard)
  /\ disturbed' = IF at[p] < lastfloor THEN disturbed ELSE disturbed \ {p}

Request(p) ==
  \/ AddPrev(p) \/ AddSelf(p) \/ AddNext(p)
  \/ PrintBegin(p) \/ PrintIndex(p) \/ PrintFirst(p)
  \/ PrintVisit(p) \/ PrintTest(p) \/ PrintStore(p)

-----------------------------------------------------------------------------
(* elevator_proc_read adds up the passengers of a floor.                   *)

SumBegin(r, f) ==
  /\ At(r, "new", "visit") /\ Cardinality(Running) < MaxCalls
  /\ Hold(r, next[f])
  /\ floor' = [floor EXCEPT ![r] = f]
  /\ was' = [was EXCEPT ![r] = IF raced THEN {} ELSE {on[f][k] : k \in DOMAIN on[f]}]
  /\ UNCHANGED <<ptrVars, i, start_floor, seen, workVars, historyVars>>

\* Slip: stops before the last one.
Slip_AllSummed(r) == at[r] # Bad /\ (at[r] = floor[r] \/ next[at[r]] = floor[r])

\* The loop has come back to the head of the list.
AllSummed(r) == at[r] = floor[r]

\* Nothing is said of a sum during which somebody was removed, nor of one after
\* a race; the nodes that it has added up are not kept.
Forgotten(r) == raced \/ r \in disturbed

SumVisit(r) ==
  /\ At(r, "visit", IF at[r] = Bad THEN "lost" ELSE "visit")
  /\ ~AllSummed(r)
  /\ Hold(r, IF at[r] = Bad THEN Bad ELSE next[at[r]])
  /\ seen' = [seen EXCEPT ![r] = IF Forgotten(r) THEN {} ELSE @ \cup {at[r]}]
  /\ was' = [was EXCEPT ![r] = IF Forgotten(r) THEN {} ELSE @]
  /\ UNCHANGED <<ptrVars, i, start_floor, floor, workVars, historyVars>>

SumEnd(r) ==
  /\ At(r, "visit", "new")
  /\ AllSummed(r)
  /\ Hold(r, onboard)
  /\ floor' = [floor EXCEPT ![r] = 1]
  /\ seen' = [seen EXCEPT ![r] = {}] /\ was' = [was EXCEPT ![r] = {}]
  /\ disturbed' = disturbed \ {r}
  /\ UNCHANGED <<ptrVars, i, start_floor, workVars, on, raced, removed>>

-----------------------------------------------------------------------------
(* The scheduler thread: the loops of load_elevator over a floor and of    *)
(* unload_elevator over onboard; when it has ended, those of               *)
(* delete_passenger over the floors and over move_list.                    *)

Work(from, to) == /\ At(scheduler, from, to)
                  /\ UNCHANGED <<i, start_floor, readVars>>

\* temp = at[scheduler]
temp == at[scheduler]

Loop(h) == /\ head' = h /\ Hold(scheduler, next[h])
           /\ UNCHANGED <<ptrVars, dummy, before, after, dest, historyVars>>

LoopBegin(h) ==
  /\ Work("new", "save") /\ ~exiting
  /\ h \in Floors \cup {onboard} /\ Loop(h)
  /\ UNCHANGED exiting

DeleteBegin ==
  /\ Work("new", "save") /\ Rmmod /\ ~exiting
  /\ exiting' = TRUE
  /\ Loop(1)

\* Slip: the node is saved only after the body, as in list_for_each.
Slip_Save ==
  /\ Work("save", IF temp = Bad THEN "lost" ELSE "body")
  /\ temp # head
  /\ dummy' = temp
  /\ UNCHANGED <<ptrVars, at, head, before, after, dest, exiting, historyVars>>

Save ==
  /\ Work("save", IF temp = Bad THEN "lost" ELSE "body")
  /\ temp # head
  /\ dummy' = IF temp = Bad THEN dummy ELSE next[temp]
  /\ UNCHANGED <<ptrVars, at, head, before, after, dest, exiting, historyVars>>

LoopLeave(from, to) ==
  /\ Work(from, to)
  /\ head' = onboard /\ dummy' = onboard /\ Hold(scheduler, onboard)
  /\ UNCHANGED <<ptrVars, before, after, dest, exiting, historyVars>>

LoopEnd ==
  /\ temp = head
  /\ \/ ~exiting /\ LoopLeave("save", "new")
     \/ exiting /\ head \in Floors /\ Work("save", "save")
        /\ Loop(IF head = lastfloor THEN move_list ELSE head + 1) /\ UNCHANGED exiting
     \/ exiting /\ head = move_list /\ LoopLeave("save", "done")

\* load_elevator stops at a passenger who does not fit.
LoadFull == LoopLeave("body", "new") /\ ~exiting /\ head \in Floors

Advance == /\ Hold(scheduler, dummy) /\ dummy' = onboard /\ dest' = Bad
           /\ before' = onboard /\ after' = onboard
           /\ UNCHANGED <<head, exiting>>

\* unload_elevator keeps a passenger on board.
KeepOnboard ==
  /\ Work("body", "save") /\ ~exiting /\ head = onboard
  /\ Advance
  /\ UNCHANGED <<ptrVars, historyVars>>

\* Slip: elevator_exit moves passengers to onboard too.
Slip_Destinations == IF head \in {move_list, onboard} THEN {Bad} ELSE {Bad, onboard}

\* What may become of the node temp: list_del, or list_move_tail to a list.
Destinations ==
  IF exiting THEN IF head = move_list THEN {Bad} ELSE {move_list}
  ELSE IF head = onboard THEN {Bad} ELSE {Bad, onboard}

\* prev of a node on a list is written by this thread only.
Unlink ==
  /\ Work("body", IF Bad \in {prev[temp], next[temp]} THEN "lost" ELSE "unlink_prev")
  /\ dest' \in Destinations
  /\ before' = prev[temp] /\ after' = next[temp]
  /\ raced' = (raced \/ Adding(head))
  /\ UNCHANGED <<ptrVars, at, head, dummy, exiting, on, removed, disturbed>>

\* Slip: prev of the next node is left as it is.
Slip_UnlinkPrev ==
  /\ Work("unlink_prev", "unlink_next")
  /\ UNCHANGED <<next, prev, at, workVars, historyVars>>

UnlinkPrev ==
  /\ Work("unlink_prev", "unlink_next")
  /\ Set(prev, after, before)
  /\ UNCHANGED <<next, at, workVars, historyVars>>

UnlinkNext ==
  /\ Work("unlink_next", "place")
  /\ Set(next, before, after) /\ before' = onboard /\ after' = onboard
  /\ on' = [on EXCEPT ![head] = RemoveFirst(@, temp)]
  /\ removed' = (removed \/ head \in Floors)
  /\ disturbed' = IF head \in Floors THEN disturbed \cup Walking ELSE disturbed
  /\ UNCHANGED <<prev, at, head, dummy, dest, exiting, raced>>

\* list_del poisons the pointers, and kfree gives the node away.
PlaceNowhere ==
  /\ Work("place", "who") /\ dest = Bad
  /\ Set(next, temp, Bad) /\ Set(prev, temp, Bad)
  /\ UNCHANGED <<at, workVars, historyVars>>

\* list_add_tail(temp, dest): nobody else writes to the list dest.
PlaceLast ==
  /\ Work("place", "place_next") /\ dest # Bad
  /\ before' = prev[dest]
  /\ prev' = [prev EXCEPT ![dest] = temp, ![temp] = prev[dest]]
  /\ Set(next, temp, dest)
  /\ UNCHANGED <<at, head, dummy, after, dest, exiting, historyVars>>

PlaceNext ==
  /\ Work("place_next", IF before = Bad THEN "lost" ELSE "who")
  /\ Set(next, before, temp)
  /\ on' = [on EXCEPT ![dest] = Append(@, temp)]
  /\ UNCHANGED <<prev, at, workVars, raced, removed, disturbed>>

\* A walk that has come to n ends at h.  hop[k] is where k steps lead to.
Reaches(n, h) ==
  LET hop[k \in 0 .. Cardinality(Nodes)] ==
        IF k = 0 THEN n
        ELSE IF hop[k - 1] \in {h, Bad} THEN hop[k - 1] ELSE next[hop[k - 1]]
  IN  hop[Cardinality(Nodes)] = h

Returns(h) == next[h] # Bad /\ Reaches(next[h], h)

\* print_who_on_it walks onboard, which has to come to an end.
PrintWho ==
  /\ Work("who", "save")
  /\ exiting \/ Returns(onboard)
  /\ Advance
  /\ UNCHANGED <<ptrVars, historyVars>>

Scheduler ==
  \/ Save \/ LoopEnd \/ LoadFull \/ KeepOnboard
  \/ Unlink \/ UnlinkPrev \/ UnlinkNext \/ PlaceNowhere \/ PlaceLast \/ PlaceNext
  \/ PrintWho

Next ==
  \/ \E p \in Passengers : AddRead(p) \/ Request(p)
  \/ \E r \in Readers : SumVisit(r) \/ SumEnd(r) \/ \E f \in Floors : SumBegin(r, f)
  \/ Scheduler \/ DeleteBegin \/ \E h \in Heads : LoopBegin(h)

Spec == Init /\ [][Next]_vars

\* Every thread has a CPU; nobody has to make a call.
FairSpec ==
  /\ Spec
  /\ \A p \in Passengers : WF_vars(Request(p))
  /\ \A r \in Readers : WF_vars(SumVisit(r) \/ SumEnd(r))
  /\ WF_vars(Scheduler)

=============================================================================
