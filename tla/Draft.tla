-------------------------------- MODULE Draft --------------------------------
(***************************************************************************)
(* src/casey_elevator_proc.c, the earlier draft of the elevator module.    *)
(*                                                                         *)
(* elevator_init writes through e1, which start_elevator has to set, so    *)
(* insmod dies there, with the system calls and the proc entry in place:   *)
(* they are what runs.  Only if start_elevator comes before that does the  *)
(* thread begin, and it begins with reading e1->onboard_passengers, which  *)
(* nobody has initialised; what it does then is not followed.              *)
(*                                                                         *)
(* Everything a call works with is global: new_passenger, message_2, i.    *)
(* A global that a call has in a register is read again or not, as the     *)
(* build likes.                                                            *)
(***************************************************************************)
EXTENDS Integers, Sequences, FiniteSets, SequencesExt

CONSTANTS
  lastfloor,
  Requests,   \* calls of issue_request; each names the node and text it allocates
  Switchers,  \* processes that call start_elevator and stop_elevator
  Readers,    \* processes that read /proc/elevator
  Null,
  MaxCalls    \* bound: how many calls are in progress at a time

Floors  == 1 .. lastfloor
Threads == Requests \cup Switchers \cup Readers

ASSUME DraftAssumption == lastfloor \in Nat \ {0} /\ MaxCalls \in Nat /\ Null \notin Threads
\* Every process makes calls of one kind.
ASSUME CallsAssumption == /\ Requests \cap Switchers = {}
                          /\ Readers \cap (Requests \cup Switchers) = {}

VARIABLES
  load,            \* the position of insmod
  e1,              \* whether e1 points to an elevator
  state, started,
  allfloors, ready,\* the lists, and which of them are initialised
  start_floor,     \* start_floor[q]: that field of the node q
  new_passenger, message_2, read_p, i,
  heap,            \* the texts that are allocated
  pc, ask,         \* ask[q]: the floor that request q names
  own,             \* own[t]: the global that thread t has in a register
  standing,        \* history: requests accepted since the last start
  met              \* history: what has gone wrong or could

nodeVars == <<allfloors, ready, start_floor, new_passenger>>
textVars == <<message_2, read_p, heap>>
vars == <<load, e1, state, started, nodeVars, textVars, i, pc, ask, own, standing, met>>

Init ==
  /\ load = "out" /\ e1 = FALSE /\ state = "OFFLINE" /\ started = 0
  /\ allfloors = [f \in Floors |-> <<>>] /\ ready = {}
  /\ start_floor = [q \in Requests |-> 1]
  /\ new_passenger = Null /\ message_2 = Null
  /\ read_p = 0 /\ i = 1 /\ heap = {}
  /\ pc = [t \in Threads |-> "user"] /\ ask \in [Requests -> Floors]
  /\ own = [t \in Threads |-> Null]
  /\ standing = {} /\ met = {}

Callable == load \in {"stubs", "write", "live", "dead"}
Entry    == load \in {"write", "live", "dead"}

Running == {t \in Threads : pc[t] \notin {"user", "done", "dead"}}
Busy    == Running \ Readers

\* Once calls have overlapped or there was no memory, what else was met makes no
\* difference to any property, and is forgotten.
Noted(s) ==
  LET spoilt == (met \cup s) \cap {"overlap", "no memory"}
  IN  met' = IF spoilt = {} THEN met \cup s ELSE spoilt

\* What a call finds when it begins.
Meet(t) ==
  /\ Cardinality(Running) < MaxCalls
  /\ Noted((IF Busy # {} /\ t \notin Readers THEN {"overlap"} ELSE {})
           \cup IF t \notin Switchers /\ (~e1 \/ ready # Floors) THEN {"early"} ELSE {})

At(t, from, to) == pc[t] = from /\ pc' = [pc EXCEPT ![t] = to]
Hold(t, g)      == own' = [own EXCEPT ![t] = g]

-----------------------------------------------------------------------------
(* elevator_init and elevator_exit                                         *)

LoadStep(from, to) ==
  /\ load = from /\ load' = to
  /\ UNCHANGED <<e1, started, nodeVars, textVars, i, pc, ask, own, standing, met>>

SetStubs   == LoadStep("out", "stubs") /\ UNCHANGED state
ProcCreate == (\E to \in {"write", "gone"} : LoadStep("stubs", to)) /\ UNCHANGED state

\* e1->state = IDLE
InitWrite == /\ LoadStep("write", IF e1 THEN "live" ELSE "dead")
             /\ state' = IF e1 THEN "IDLE" ELSE state

elevator_exit == LoadStep("live", "gone") /\ UNCHANGED state

-----------------------------------------------------------------------------
(* start_elevator and stop_elevator                                        *)

SwitchStep(s, from, to) ==
  /\ Callable /\ At(s, from, to)
  /\ UNCHANGED <<load, start_floor, new_passenger, textVars, ask>>

StartCheck(s) ==
  /\ SwitchStep(s, "user", "user") /\ started = 1 /\ Meet(s)
  /\ UNCHANGED <<e1, state, started, allfloors, ready, i, own, standing>>

\* Slip: counts as started before the lists are set.
Slip_StartKmalloc(s) ==
  /\ started # 1
  /\ SwitchStep(s, "user", "init") /\ Meet(s)
  /\ e1' = TRUE /\ state' = "OFFLINE" /\ started' = 1 /\ i' = 1 /\ Hold(s, 1)
  /\ standing' = {}
  /\ UNCHANGED <<allfloors, ready>>

\* e1 = kmalloc(...), whether or not there was an elevator before.
StartKmalloc(s) ==
  /\ started # 1
  /\ \/ /\ SwitchStep(s, "user", "init") /\ Meet(s)
        /\ e1' = TRUE /\ state' = "OFFLINE" /\ i' = 1 /\ Hold(s, 1)
        /\ standing' = {}
     \/ /\ SwitchStep(s, "user", "user") /\ Noted({"no memory"})
        /\ e1' = FALSE
        /\ UNCHANGED <<state, i, own, standing>>
  /\ UNCHANGED <<started, allfloors, ready>>

\* Slip: the lists are initialised only once.
Slip_StartFloor(s) ==
  /\ \E k \in {i, own[s]} :
       IF k \in Floors
       THEN /\ SwitchStep(s, "init", "init")
            /\ ready' = ready \cup {k} /\ UNCHANGED allfloors
            /\ i' = k + 1 /\ Hold(s, k + 1)
       ELSE /\ SwitchStep(s, "init", "started") /\ Hold(s, Null)
            /\ UNCHANGED <<allfloors, ready, i>>
  /\ UNCHANGED <<e1, state, started, standing, met>>

\* Slip: the loop goes one too far.
Slip_StartFloor_Bound(s) ==
  /\ \E k \in {i, own[s]} :
       IF k \in Floors
       THEN /\ SwitchStep(s, "init", "init")
            /\ ready' = ready \cup {k} /\ allfloors' = [allfloors EXCEPT ![k] = <<>>]
            /\ i' = k + 1 /\ Hold(s, k + 1)
       ELSE /\ SwitchStep(s, "init", "started") /\ Hold(s, Null)
            /\ ready' = ready \cup {k} /\ i' = k + 1 /\ UNCHANGED allfloors
  /\ UNCHANGED <<e1, state, started, standing, met>>

\* INIT_LIST_HEAD(&allfloors[i]), also of a list with passengers on it.
StartFloor(s) ==
  /\ \E k \in {i, own[s]} :
       IF k \in Floors
       THEN /\ SwitchStep(s, "init", "init")
            /\ ready' = ready \cup {k} /\ allfloors' = [allfloors EXCEPT ![k] = <<>>]
            /\ i' = k + 1 /\ Hold(s, k + 1)
       ELSE /\ SwitchStep(s, "init", "started") /\ Hold(s, Null)
            /\ UNCHANGED <<allfloors, ready, i>>
  /\ UNCHANGED <<e1, state, started, standing, met>>

StartEnd(s) ==
  /\ SwitchStep(s, "started", "user")
  /\ started' = 1
  /\ UNCHANGED <<e1, state, allfloors, ready, i, own, standing, met>>

StopCheck(s) ==
  /\ SwitchStep(s, "user", IF started = 1 THEN "stop" ELSE "user") /\ Meet(s)
  /\ UNCHANGED <<e1, state, started, allfloors, ready, i, own, standing>>

StopState(s) ==
  /\ SwitchStep(s, "stop", IF e1 THEN "stopped" ELSE "dead")
  /\ state' = IF e1 THEN "OFFLINE" ELSE state
  /\ UNCHANGED <<e1, started, allfloors, ready, i, own, standing, met>>

StopStarted(s) ==
  /\ SwitchStep(s, "stopped", "user")
  /\ started' = 0
  /\ UNCHANGED <<e1, state, allfloors, ready, i, own, standing, met>>

-----------------------------------------------------------------------------
(* issue_request                                                           *)

RequestStep(q, from, to) ==
  /\ Callable /\ At(q, from, to)
  /\ UNCHANGED <<load, e1, state, started, ask, read_p>>

RequestKmalloc(q) ==
  /\ RequestStep(q, "user", "fill")
  /\ \/ new_passenger' = q /\ Hold(q, q) /\ Meet(q)
     \/ new_passenger' = Null /\ Hold(q, Null) /\ Noted({"no memory"})
        /\ Cardinality(Running) < MaxCalls
  /\ UNCHANGED <<allfloors, ready, start_floor, message_2, i, heap, standing>>

\* The result of kmalloc is not looked at.  A type out of range ends it here.
RequestFill(q) ==
  \E n \in {new_passenger, own[q]}, to \in {"add", "done"} :
    /\ RequestStep(q, "fill", IF n = Null THEN "dead" ELSE to)
    /\ start_floor' = IF n = Null THEN start_floor ELSE [start_floor EXCEPT ![n] = ask[q]]
    /\ UNCHANGED <<allfloors, ready, new_passenger, message_2, i, heap, own, standing, met>>

\* list_add_tail(&new_passenger->list, ...): a list that is all zero is fatal.
RequestAdd(q) ==
  \E n \in {new_passenger, own[q]} :
    /\ RequestStep(q, "add", IF n = Null \/ ask[q] \notin ready THEN "dead" ELSE "text")
    /\ IF n = Null \/ ask[q] \notin ready THEN UNCHANGED <<allfloors, standing>>
       ELSE /\ allfloors' = [allfloors EXCEPT ![ask[q]] = Append(@, n)]
            /\ standing' = standing \cup {q}
    /\ Hold(q, Null)
    /\ UNCHANGED <<met, ready, start_floor, new_passenger, message_2, i, heap>>

RequestText(q) ==
  /\ RequestStep(q, "text", "print")
  /\ \/ /\ message_2' = q /\ heap' = heap \cup {q} /\ UNCHANGED met
     \/ /\ message_2' = Null /\ Noted({"no memory"}) /\ UNCHANGED heap
  /\ i' = 1
  /\ UNCHANGED <<nodeVars, own, standing>>

\* A node that is on a list twice, or on two, makes it endless.
Endless == \E f, g \in Floors : \E j \in DOMAIN allfloors[f], k \in DOMAIN allfloors[g] :
             allfloors[f][j] = allfloors[g][k] /\ <<f, j>> # <<g, k>>

Fatal == \/ i \notin ready \/ Endless
         \/ message_2 = Null /\ allfloors[i] # <<>>

\* One floor, with i as it is now; every passenger is printed to message_2.
RequestPrint(q) ==
  /\ RequestStep(q, "print", IF Fatal THEN "dead" ELSE IF i = lastfloor THEN "free" ELSE "print")
  /\ i' = IF Fatal THEN i ELSE i + 1
  /\ Noted(IF ~Fatal /\ allfloors[i] # <<>> /\ message_2 \notin heap THEN {"misused"} ELSE {})
  /\ UNCHANGED <<nodeVars, message_2, heap, own, standing>>

\* Slip: the text is not freed.
Slip_RequestFree(q) ==
  /\ RequestStep(q, "free", "done")
  /\ UNCHANGED <<nodeVars, message_2, heap, i, own, standing, met>>

RequestFree(q) ==
  /\ RequestStep(q, "free", "done")
  /\ Noted(IF message_2 \in heap \cup {Null} THEN {} ELSE {"misused"})
  /\ heap' = heap \ {message_2}
  /\ UNCHANGED <<nodeVars, message_2, i, own, standing>>

-----------------------------------------------------------------------------
(* /proc/elevator                                                          *)

\* message_1 is allocated and freed as in module ProcFile.
ReadStep(r, from, to) ==
  /\ Entry /\ At(r, from, to)
  /\ UNCHANGED <<load, e1, state, started, nodeVars, message_2, heap, i, ask, own, standing>>

Open(r) ==
  /\ read_p' = 1
  /\ \/ ReadStep(r, "user", "open") /\ Meet(r)
     \/ ReadStep(r, "user", "user") /\ Noted({"no memory"})

\* Every other read prints, from *e1.
Read(r) ==
  /\ ReadStep(r, "open", IF read_p = 0 THEN "end" ELSE IF e1 THEN "open" ELSE "dead")
  /\ read_p' = 1 - read_p
  /\ UNCHANGED met

Release(r) == ReadStep(r, "end", "user") /\ UNCHANGED <<read_p, met>>

-----------------------------------------------------------------------------
Next ==
  \/ SetStubs \/ ProcCreate \/ InitWrite \/ elevator_exit
  \/ \E s \in Switchers : StartCheck(s) \/ StartKmalloc(s) \/ StartFloor(s) \/ StartEnd(s)
                          \/ StopCheck(s) \/ StopState(s) \/ StopStarted(s)
  \/ \E q \in Requests : RequestKmalloc(q) \/ RequestFill(q) \/ RequestAdd(q)
                         \/ RequestText(q) \/ RequestPrint(q) \/ RequestFree(q)
  \/ \E r \in Readers : Open(r) \/ Read(r) \/ Release(r)

Spec == Init /\ [][Next]_vars

=============================================================================
