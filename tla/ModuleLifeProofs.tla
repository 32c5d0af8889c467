-------------------------- MODULE ModuleLifeProofs ---------------------------
(***************************************************************************)
(* Proofs, for any number of floors, callers and readers and any number of *)
(* loads, of the invariants of module MCModuleLife.                        *)
(***************************************************************************)
EXTENDS MCModuleLife, FiniteSetTheorems, TLAPS

\* The positions of elevator_init before it touches a list, and from there on.
Unlisted == {"init_start", "init_stop", "init_issue", "init_proc", "init_thread",
             "init_undo", "init_fields", "init_onboard"}
Listed   == {"live"} \cup Exiting

\* Where there can be a thread, an entry and somebody who reads it, and that
\* nobody is inside a module that has gone.
Where ==
  /\ thread # "none" => load \in {"init_fields", "init_onboard", "init_floors", "live", "exit_stop"}
  /\ entry => load \in {"init_thread", "init_undo", "init_fields", "init_onboard", "init_floors",
                        "live", "exit_stop", "exit_delete", "exit_remove"}
  /\ \A r \in Readers : reader[r] # "user" =>
       load \in {"init_thread", "init_undo", "init_fields", "init_onboard", "init_floors",
                 "live", "exit_stop", "exit_delete", "exit_remove", "exit_wait"}
  /\ load = "out" => \A c \in Callers : ~InCall(c)
  /\ load # "init_floors" => mine = 1

\* Every floor before one that a loop has come to is ready.
Before ==
  /\ 1 .. i - 1 \subseteq ready
  /\ 1 .. mine - 1 \subseteq ready
  /\ \A c \in Callers : pc[c] = "store" => held[c] \in Floors /\ 1 .. held[c] \subseteq ready

Ready ==
  /\ load \in Unlisted => ready = {}
  /\ load \in {"init_floors"} \cup Listed => onboard \in ready
  /\ load \in Listed => ready = Lists

LEMMA InitTypes == Init => TypeOK /\ Where /\ Before /\ Ready
<1> SUFFICES ASSUME Init PROVE TypeOK /\ Where /\ Before /\ Ready
  OBVIOUS
<1> USE DEF Init
<1>1. TypeOK
  <2>1. lastfloor \in Nat /\ lastfloor >= 1 /\ {i, mine} = {1}
    BY LifeAssumption
  <2>2. held \in [Callers -> 1 .. lastfloor + 1] /\ {i, mine} \subseteq 1 .. lastfloor + 1
    BY <2>1
  <2>3. aboard \in BOOLEAN /\ entry \in BOOLEAN /\ stub \subseteq Calls /\ ready \subseteq Lists
    OBVIOUS
  <2> QED  BY <2>2, <2>3 DEF TypeOK
<1>2. Where
  BY DEF Where, InCall
<1>3. Before
  BY DEF Before
<1>4. Ready
  BY DEF Ready, Unlisted, Listed, Exiting
<1> QED  BY <1>1, <1>2, <1>3, <1>4

LEMMA StepTypes == TypeOK /\ Before /\ [Next]_vars => TypeOK'
<1> SUFFICES ASSUME TypeOK, Before, [Next]_vars PROVE TypeOK'
  OBVIOUS
<1> USE LifeAssumption DEF TypeOK
<1>1. CASE Insmod
  <2>1. /\ aboard' \in BOOLEAN /\ load' = "init_start" /\ started' = 0 /\ state' = "OFFLINE"
        /\ ready' = {} /\ waiting' = {} /\ i' = 1
        /\ UNCHANGED <<stub, entry, thread, mine, pc, held, reader>>
    BY <1>1 DEF Insmod, At, thingVars, whoVars
  <2> QED  BY <2>1 DEF Initialising
<1>2. CASE elevator_init
  <2> USE DEF Initialising, Exiting, At
  <2>1. ASSUME NEW from, NEW k \in Calls, NEW to \in Initialising, SetStub(from, k, to)
        PROVE  TypeOK'
    BY <2>1 DEF SetStub, whoVars, dataVars
  <2>2. CASE ProcCreate
    <3>1. CASE At("init_proc", "out") /\ Free /\ UNCHANGED thingVars
      BY <3>1 DEF Free, thingVars, dataVars
    <3>2. CASE entry' = TRUE /\ At("init_proc", "init_thread")
               /\ UNCHANGED <<stub, thread, dataVars, mine, whoVars>>
      BY <3>2 DEF whoVars, dataVars
    <3> QED  BY <2>2, <3>1, <3>2 DEF ProcCreate
  <2>3. CASE thread_init_parameter
    BY <2>3 DEF thread_init_parameter, whoVars, thingVars, dataVars
  <2>4. CASE InitUndo \/ InitUndone
    <3>1. CASE InitUndo
      BY <3>1 DEF InitUndo, RemoveEntry, whoVars, dataVars
    <3>2. CASE InitUndone
      BY <3>2 DEF InitUndone, Free, thingVars, dataVars
    <3> QED  BY <2>4, <3>1, <3>2
  <2>5. CASE InitFields
    BY <2>5 DEF InitFields, whoVars, thingVars
  <2>6. CASE InitOnboard
    <3>1. /\ aboard' \in BOOLEAN /\ load' = "init_floors" /\ ready' = ready \cup {0}
          /\ i' = 1 /\ mine' = 1
          /\ UNCHANGED <<stub, entry, thread, started, state, waiting, pc, held, reader>>
      BY <2>6 DEF InitOnboard, thingVars, whoVars, onboard
    <3> QED  BY <3>1 DEF Lists, onboard
  <2>7. CASE InitFloor
    BY <2>7 DEF InitFloor, whoVars, thingVars, Lists, Floors
  <2> QED  BY <1>2, <2>1, <2>2, <2>3, <2>4, <2>5, <2>6, <2>7 DEF elevator_init, Calls
<1>3. CASE Rmmod
  BY <1>3 DEF Rmmod, At, thingVars, dataVars, whoVars, Exiting
<1>4. CASE elevator_exit
  <2> USE DEF Initialising, Exiting, At
  <2>1. CASE KthreadStop
    BY <2>1 DEF KthreadStop, whoVars, thingVars, dataVars
  <2>2. CASE delete_passenger
    BY <2>2 DEF delete_passenger, whoVars, thingVars
  <2>3. CASE RemoveEntry("exit_remove", "exit_wait") \/ Removed
    BY <2>3 DEF RemoveEntry, Removed, whoVars, thingVars, dataVars
  <2>4. ASSUME NEW from, NEW k, NEW to \in Exiting, ClearStub(from, k, to)
        PROVE  TypeOK'
    BY <2>4 DEF ClearStub, whoVars, dataVars
  <2>5. CASE ExitEnd
    BY <2>5 DEF ExitEnd, Free, dataVars
  <2> QED  BY <1>4, <2>1, <2>2, <2>3, <2>4, <2>5 DEF elevator_exit
<1>5. CASE Thread
  BY <1>5 DEF Thread, ThreadLook, ThreadWake, ThreadDrained, ThreadScan, ThreadServe, ThreadStep,
              thingVars, whoVars
<1>6. ASSUME NEW c \in Callers, CallBody(c) PROVE TypeOK'
  <2> USE DEF CallStep, thingVars, dataVars
  <2>1. CASE StartCheck(c) \/ StartState(c) \/ StartStarted(c)
    BY <2>1 DEF StartCheck, StartState, StartStarted
  <2>2. CASE StopCheck(c) \/ StopState(c) \/ StopStarted(c)
    BY <2>2 DEF StopCheck, StopState, StopStarted
  <2>3. CASE RequestRefused(c) \/ \E f \in Floors : RequestAdd(c, f)
    BY <2>3 DEF RequestRefused, RequestAdd
  <2>4. CASE PrintBegin(c)
    BY <2>4 DEF PrintBegin
  <2>5. CASE PrintFloor(c)
    BY <2>5 DEF PrintFloor
  <2>6. CASE PrintStore(c)
    BY <2>6 DEF PrintStore, Before, Floors
  <2> QED  BY <1>6, <2>1, <2>2, <2>3, <2>4, <2>5, <2>6 DEF CallBody
<1>7. ASSUME NEW c \in Callers, NEW k \in Calls, SystemCall(c, k) PROVE TypeOK'
  BY <1>7 DEF SystemCall, CallStep, Body, Calls, thingVars, dataVars
<1>8. ASSUME NEW r \in Readers, ReadBegin(r) \/ ReadEnd(r) PROVE TypeOK'
  BY <1>8 DEF ReadBegin, ReadEnd, ReadStep, thingVars, dataVars
<1>9. CASE UNCHANGED vars
  BY <1>9 DEF vars, thingVars, dataVars, whoVars
<1> QED  BY <1>1, <1>2, <1>3, <1>4, <1>5, <1>6, <1>7, <1>8, <1>9 DEF Next, Observed, Step

LEMMA StepWhere == TypeOK /\ Where /\ [Next]_vars => Where'
<1> SUFFICES ASSUME TypeOK, Where, [Next]_vars PROVE Where'
  OBVIOUS
<1> USE DEF Where
<1>1. CASE Insmod
  BY <1>1 DEF Insmod, At, thingVars, whoVars, InCall
<1>2. CASE elevator_init
  <2> USE DEF At
  <2>1. ASSUME NEW from, NEW k, NEW to, SetStub(from, k, to), from \in Initialising,
               to \in {"init_stop", "init_issue", "init_proc"},
               from \in {"init_start", "init_stop", "init_issue"}
        PROVE  Where'
    BY <2>1 DEF SetStub, whoVars, dataVars
  <2>2. CASE ProcCreate
    <3>1. CASE At("init_proc", "out") /\ Free /\ UNCHANGED thingVars
      BY <3>1 DEF Free, thingVars, dataVars, InCall
    <3>2. CASE entry' = TRUE /\ At("init_proc", "init_thread")
               /\ UNCHANGED <<stub, thread, dataVars, mine, whoVars>>
      BY <3>2 DEF whoVars, dataVars
    <3> QED  BY <2>2, <3>1, <3>2 DEF ProcCreate
  <2>3. CASE thread_init_parameter
    BY <2>3 DEF thread_init_parameter, whoVars, thingVars, dataVars
  <2>4. CASE InitUndo
    BY <2>4 DEF InitUndo, RemoveEntry, whoVars, dataVars
  <2>5. CASE InitUndone
    BY <2>5 DEF InitUndone, NoReader, Free, thingVars, dataVars, InCall
  <2>6. CASE InitFields \/ InitOnboard
    BY <2>6 DEF InitFields, InitOnboard, whoVars, thingVars
  <2>7. CASE InitFloor
    BY <2>7 DEF InitFloor, whoVars, thingVars
  <2> QED  BY <1>2, <2>1, <2>2, <2>3, <2>4, <2>5, <2>6, <2>7 DEF elevator_init, Initialising
<1>3. CASE Rmmod
  BY <1>3 DEF Rmmod, At, thingVars, dataVars, whoVars
<1>4. CASE elevator_exit
  <2> USE DEF At
  <2>1. CASE KthreadStop
    BY <2>1 DEF KthreadStop, whoVars, thingVars, dataVars
  <2>2. CASE delete_passenger
    BY <2>2 DEF delete_passenger, whoVars, thingVars
  <2>3. CASE RemoveEntry("exit_remove", "exit_wait")
    BY <2>3 DEF RemoveEntry, whoVars, dataVars
  <2>4. CASE Removed
    BY <2>4 DEF Removed, NoReader, whoVars, thingVars, dataVars
  <2>5. ASSUME NEW from, NEW k, NEW to \in {"exit_stub", "exit_issue"}, ClearStub(from, k, to),
               from \in {"exit_start", "exit_stub"}
        PROVE  Where'
    BY <2>5 DEF ClearStub, whoVars, dataVars
  <2>6. CASE ExitEnd
    BY <2>6 DEF ExitEnd, Free, dataVars, InCall
  <2> QED  BY <1>4, <2>1, <2>2, <2>3, <2>4, <2>5, <2>6 DEF elevator_exit
<1>5. CASE Thread
  <2>1. thread # "none" /\ UNCHANGED <<load, entry, reader, pc, mine>>
    BY <1>5 DEF Thread, ThreadLook, ThreadWake, ThreadDrained, ThreadScan, ThreadServe, ThreadStep,
                thingVars, whoVars
  <2> QED  BY <2>1 DEF InCall
<1>6. ASSUME NEW c \in Callers, CallBody(c) PROVE Where'
  <2>1. InCall(c) /\ UNCHANGED <<load, entry, thread, reader, mine>>
    BY <1>6 DEF CallBody, StartCheck, StartState, StartStarted, StopCheck, StopState,
                StopStarted, RequestRefused, RequestAdd, PrintBegin, PrintFloor, PrintStore,
                CallStep, thingVars, InCall
  <2> QED  BY <2>1
<1>7. ASSUME NEW c \in Callers, NEW k \in Calls, SystemCall(c, k) PROVE Where'
  BY <1>7 DEF SystemCall, Stale, CallStep, TypeOK, thingVars, InCall
<1>8. ASSUME NEW r \in Readers, ReadBegin(r) \/ ReadEnd(r) PROVE Where'
  BY <1>8 DEF ReadBegin, ReadEnd, ReadStep, TypeOK, thingVars, dataVars, InCall
<1>9. CASE UNCHANGED vars
  BY <1>9 DEF vars, thingVars, dataVars, whoVars, InCall
<1> QED  BY <1>1, <1>2, <1>3, <1>4, <1>5, <1>6, <1>7, <1>8, <1>9 DEF Next, Observed, Step

\* A step that leaves the lists and their loops alone, and starts no loop.
LEMMA SameBefore ==
  ASSUME Before, TypeOK, UNCHANGED <<ready, i, mine>>,
         \A c \in Callers : pc'[c] = "store" => pc[c] = "store" /\ held'[c] = held[c]
  PROVE  Before'
BY DEF Before

LEMMA StepBefore == TypeOK /\ Where /\ Before /\ Ready /\ [Next]_vars => Before'
<1> SUFFICES ASSUME TypeOK, Where, Before, Ready, [Next]_vars PROVE Before'
  OBVIOUS
<1>1. CASE Insmod
  BY <1>1 DEF Insmod, At, thingVars, whoVars, Where, InCall, Before
<1>2. CASE elevator_init
  <2>1. CASE InitOnboard
    <3>1. /\ ready' = ready \cup {onboard} /\ i' = 1 /\ mine' = 1
          /\ pc' = pc /\ held' = held
      BY <2>1 DEF InitOnboard, whoVars
    <3> QED  BY <3>1 DEF Before
  <2>2. CASE InitFloor
    <3>1. PICK k \in {i, mine} :
            \/ /\ k \in Floors /\ ready' = ready \cup {k} /\ i' = k + 1 /\ mine' = k + 1
            \/ ready' = ready /\ i' = i /\ mine' = 1
      BY <2>2 DEF InitFloor
    <3>2. pc' = pc /\ held' = held
      BY <2>2 DEF InitFloor, whoVars
    <3>3. 1 .. k - 1 \subseteq ready /\ k \in Int
      BY <3>1 DEF Before, TypeOK
    <3>4. CASE k \in Floors /\ ready' = ready \cup {k} /\ i' = k + 1 /\ mine' = k + 1
      <4>1. 1 .. (k + 1) - 1 \subseteq ready'
        BY <3>3, <3>4
      <4> QED  BY <3>2, <3>4, <4>1 DEF Before
    <3>5. CASE ready' = ready /\ i' = i /\ mine' = 1
      BY <3>2, <3>5 DEF Before
    <3> QED  BY <3>1, <3>4, <3>5
  <2>3. CASE ~InitOnboard /\ ~InitFloor
    <3>1. UNCHANGED <<ready, i, mine>>
      BY <1>2, <2>3 DEF elevator_init, SetStub, ProcCreate, thread_init_parameter, InitUndo,
            InitUndone, RemoveEntry, InitFields, Free, dataVars
    <3>2. \A c \in Callers : pc'[c] = "store" => pc[c] = "store" /\ held'[c] = held[c]
      <4>1. CASE UNCHANGED <<pc, held>>
        BY <4>1
      <4>2. CASE Free
        BY <4>2 DEF Free, InCall
      <4>3. UNCHANGED <<pc, held>> \/ Free
        BY <1>2, <2>3 DEF elevator_init, SetStub, ProcCreate, thread_init_parameter, InitUndo,
              InitUndone, RemoveEntry, InitFields, whoVars
      <4> QED  BY <4>1, <4>2, <4>3
    <3> QED  BY <3>1, <3>2, SameBefore
  <2> QED  BY <2>1, <2>2, <2>3
<1>3. CASE Rmmod \/ elevator_exit \/ Thread
  <2>1. UNCHANGED <<ready, i, mine>>
    BY <1>3 DEF Rmmod, elevator_exit, KthreadStop, delete_passenger, RemoveEntry, Removed,
          ClearStub, ExitEnd, Free, dataVars,
          Thread, ThreadLook, ThreadWake, ThreadDrained, ThreadScan, ThreadServe, ThreadStep
  <2>2. UNCHANGED <<pc, held>> \/ Free
    BY <1>3 DEF Rmmod, elevator_exit, KthreadStop, delete_passenger, RemoveEntry, Removed,
          ClearStub, ExitEnd, whoVars,
          Thread, ThreadLook, ThreadWake, ThreadDrained, ThreadScan, ThreadServe, ThreadStep
  <2>3. \A c \in Callers : pc'[c] = "store" => pc[c] = "store" /\ held'[c] = held[c]
    BY <2>2 DEF Free, InCall
  <2> QED  BY <2>1, <2>3, SameBefore
<1>4. ASSUME NEW c \in Callers, CallBody(c) PROVE Before'
  <2>1. CASE PrintBegin(c)
    <3>1. /\ i' = 1 /\ ready' = ready /\ mine' = mine
          /\ \A d \in Callers : pc'[d] = "store" => pc[d] = "store" /\ d # c
      BY <2>1 DEF PrintBegin, CallStep, TypeOK
    <3>2. \A d \in Callers \ {c} : held'[d] = held[d]
      BY <2>1 DEF PrintBegin, CallStep, TypeOK
    <3> QED  BY <3>1, <3>2 DEF Before
  <2>2. CASE PrintFloor(c)
    <3>1. /\ UNCHANGED <<ready, i, mine>>
          /\ held' = [held EXCEPT ![c] = i]
          /\ \A d \in Callers \ {c} : pc'[d] = pc[d]
          /\ pc'[c] = "store" => i \in Floors /\ i \in ready
      BY <2>2 DEF PrintFloor, CallStep, TypeOK, dataVars
    <3>2. i \in Int /\ 1 .. i - 1 \subseteq ready
      BY DEF TypeOK, Before
    <3>3. i \in ready => 1 .. i \subseteq ready
      BY <3>2
    <3>4. held'[c] = i /\ \A d \in Callers \ {c} : held'[d] = held[d]
      BY <3>1 DEF TypeOK
    <3> QED  BY <3>1, <3>3, <3>4 DEF Before
  <2>3. CASE PrintStore(c)
    <3>1. /\ UNCHANGED <<ready, mine>> /\ i' = held[c] + 1
          /\ \A d \in Callers \ {c} : pc'[d] = pc[d] /\ held'[d] = held[d]
          /\ pc'[c] # "store" /\ pc[c] = "store"
      BY <2>3 DEF PrintStore, CallStep, TypeOK
    <3>2. held[c] \in Int /\ 1 .. held[c] \subseteq ready
      BY <3>1 DEF Before, TypeOK
    <3>3. 1 .. (held[c] + 1) - 1 \subseteq ready
      BY <3>2
    <3> QED  BY <3>1, <3>3 DEF Before
  <2>4. CASE ~PrintBegin(c) /\ ~PrintFloor(c) /\ ~PrintStore(c)
    <3>1. /\ UNCHANGED <<ready, i, mine>> /\ pc'[c] # "store"
          /\ \A d \in Callers \ {c} : pc'[d] = pc[d] /\ held'[d] = held[d]
      BY <1>4, <2>4 DEF CallBody, StartCheck, StartState, StartStarted, StopCheck, StopState,
            StopStarted, RequestRefused, RequestAdd, CallStep, TypeOK, dataVars
    <3> QED  BY <3>1, SameBefore
  <2> QED  BY <2>1, <2>2, <2>3, <2>4
<1>5. ASSUME NEW c \in Callers, NEW k \in Calls, SystemCall(c, k) PROVE Before'
  <2>1. /\ UNCHANGED <<ready, i, mine>> /\ pc'[c] # "store"
        /\ \A d \in Callers \ {c} : pc'[d] = pc[d] /\ held'[d] = held[d]
    BY <1>5 DEF SystemCall, Calls, Body, CallStep, TypeOK, dataVars
  <2> QED  BY <2>1, SameBefore
<1>6. ASSUME NEW r \in Readers, ReadBegin(r) \/ ReadEnd(r) PROVE Before'
  BY <1>6, SameBefore DEF ReadBegin, ReadEnd, ReadStep, dataVars
<1>7. CASE UNCHANGED vars
  BY <1>7, SameBefore DEF vars, dataVars, whoVars
<1> QED  BY <1>1, <1>2, <1>3, <1>4, <1>5, <1>6, <1>7 DEF Next, Observed, Step

LEMMA StepReady == TypeOK /\ Before /\ Ready /\ [Next]_vars => Ready'
<1> SUFFICES ASSUME TypeOK, Before, Ready, [Next]_vars PROVE Ready'
  OBVIOUS
<1> USE DEF Ready, Unlisted, Listed
<1>1. CASE Insmod
  BY <1>1 DEF Insmod, At, Exiting
<1>2. CASE InitOnboard
  BY <1>2 DEF InitOnboard, At, Exiting
<1>3. CASE InitFloor
  <2>1. PICK k \in {i, mine} :
          \/ k \in Floors /\ load = "init_floors" /\ load' = load /\ ready' = ready \cup {k}
          \/ k \notin Floors /\ At("init_floors", "live") /\ ready' = ready
    BY <1>3 DEF InitFloor
  <2>2. CASE k \in Floors /\ load = "init_floors" /\ load' = load /\ ready' = ready \cup {k}
    BY <2>2 DEF Exiting
  <2>3. CASE k \notin Floors /\ At("init_floors", "live") /\ ready' = ready
    <3>1. k = lastfloor + 1 /\ 1 .. k - 1 \subseteq ready /\ lastfloor \in Nat
      BY <2>1, <2>3, LifeAssumption DEF TypeOK, Before, Floors
    <3>2. 1 .. lastfloor \subseteq ready
      BY <3>1
    <3> QED  BY <2>3, <3>2 DEF At, Lists, Floors, TypeOK, Exiting
  <2> QED  BY <2>1, <2>2, <2>3
<1>4. CASE /\ ready' = ready
           /\ \/ load' = load \/ load' = "out"
              \/ load \in Unlisted /\ load' \in Unlisted
              \/ load \in Listed /\ load' \in Listed
  BY <1>4 DEF Exiting
<1>5. CASE elevator_init /\ ~InitOnboard /\ ~InitFloor
  <2>1. ready' = ready
    BY <1>5 DEF elevator_init, SetStub, ProcCreate, thread_init_parameter, InitUndo,
            InitUndone, RemoveEntry, InitFields, Free, dataVars
  <2>2. \/ load' = "out"
        \/ load \in Unlisted /\ load' \in Unlisted
    BY <1>5 DEF elevator_init, SetStub, ProcCreate, thread_init_parameter, InitUndo,
            InitUndone, RemoveEntry, InitFields, At
  <2> QED  BY <1>4, <2>1, <2>2
<1>6. CASE Rmmod \/ elevator_exit
  <2>1. ready' = ready
    BY <1>6 DEF Rmmod, elevator_exit, KthreadStop, delete_passenger, RemoveEntry, Removed,
          ClearStub, ExitEnd, Free, dataVars
  <2>2. \/ load' = "out"
        \/ load \in Listed /\ load' \in Listed
    BY <1>6 DEF Rmmod, elevator_exit, KthreadStop, delete_passenger, RemoveEntry, Removed,
          ClearStub, ExitEnd, At, Exiting
  <2> QED  BY <1>4, <2>1, <2>2
<1>7. CASE Thread
  BY <1>4, <1>7 DEF Thread, ThreadLook, ThreadWake, ThreadDrained, ThreadScan, ThreadServe, ThreadStep
<1>8. ASSUME NEW c \in Callers, CallBody(c) \/ \E k \in Calls : SystemCall(c, k) PROVE Ready'
  BY <1>4, <1>8 DEF CallBody, StartCheck, StartState, StartStarted, StopCheck, StopState,
        StopStarted, RequestRefused, RequestAdd, PrintBegin, PrintFloor, PrintStore,
        SystemCall, CallStep, dataVars
<1>9. ASSUME NEW r \in Readers, ReadBegin(r) \/ ReadEnd(r) PROVE Ready'
  BY <1>4, <1>9 DEF ReadBegin, ReadEnd, ReadStep, dataVars
<1>10. CASE UNCHANGED vars
  BY <1>4, <1>10 DEF vars, dataVars
<1> QED  BY <1>1, <1>2, <1>3, <1>5, <1>6, <1>7, <1>8, <1>9, <1>10 DEF Next, Observed, Step

-----------------------------------------------------------------------------
(* The history.                                                            *)

Starting   == {"start", "start_state", "start_started"}
Stopping   == {"stop", "stop_state", "stop_started"}
Requesting == {"add", "print", "floor", "store"}

\* Overlaps that are there now have been noted.
Noted ==
  /\ load \in Initialising /\ Inside => "early" \in met
  /\ load \in Exiting /\ Inside => "late" \in met
  /\ \A c \in Callers :
       /\ load \in Initialising /\ pc[c] \in Starting => "early_start" \in met
       /\ load \in Exiting /\ pc[c] \in Requesting => "late_request" \in met
  /\ \A c, d \in Callers : c # d =>
       /\ load = "live" /\ {pc[c], pc[d]} \subseteq Starting \cup Stopping => "switch" \in met
       /\ {pc[c], pc[d]} \subseteq {"floor", "store"} => "prints" \in met

LEMMA OverlapsNoted == Overlaps \subseteq met => Noted
<1> SUFFICES ASSUME Overlaps \subseteq met PROVE Noted
  OBVIOUS
<1>1. \A c : /\ In(c, "start_elevator") <=> pc[c] \in Starting
             /\ In(c, "stop_elevator") <=> pc[c] \in Stopping
             /\ In(c, "issue_request") <=> pc[c] \in Requesting
  BY DEF In, Starting, Stopping, Requesting
<1>2. ASSUME NEW c \in Callers, NEW d \in Callers, c # d,
             NEW S \in SUBSET Callers, {c, d} \subseteq S
      PROVE  Cardinality(S) > 1
  <2>1. IsFiniteSet(S)
    BY LifeAssumption, FS_Subset
  <2>2. Cardinality({c, d}) <= Cardinality(S) /\ Cardinality(S) \in Nat
    BY <1>2, <2>1, FS_Subset, FS_CardinalityType
  <2>3. Cardinality({c, d}) = 2
    <3>1. IsFiniteSet({c}) /\ Cardinality({c}) = 1
      BY FS_Singleton
    <3>2. Cardinality({c} \cup {d}) = Cardinality({c}) + 1
      BY <1>2, <3>1, FS_AddElement
    <3>3. {c, d} = {c} \cup {d}
      OBVIOUS
    <3> QED  BY <3>1, <3>2, <3>3
  <2> QED  BY <2>2, <2>3
<1>3. /\ load \in Initialising /\ Inside => "early" \in Overlaps
      /\ load \in Initialising /\ Made("start_elevator") => "early_start" \in Overlaps
      /\ load \in Exiting /\ Inside => "late" \in Overlaps
      /\ load \in Exiting /\ Made("issue_request") => "late_request" \in Overlaps
      /\ load = "live" /\ Cardinality(Switching) > 1 => "switch" \in Overlaps
      /\ Cardinality(Printing) > 1 => "prints" \in Overlaps
  BY DEF Overlaps
<1>4. ASSUME NEW c \in Callers, NEW d \in Callers, c # d
      PROVE  /\ load = "live" /\ {pc[c], pc[d]} \subseteq Starting \cup Stopping
                  => "switch" \in met
             /\ {pc[c], pc[d]} \subseteq {"floor", "store"} => "prints" \in met
  <2>1. {pc[c], pc[d]} \subseteq Starting \cup Stopping => Cardinality(Switching) > 1
    BY <1>1, <1>2, <1>4 DEF Switching
  <2>2. {pc[c], pc[d]} \subseteq {"floor", "store"} => Cardinality(Printing) > 1
    BY <1>2, <1>4 DEF Printing
  <2> QED  BY <1>3, <2>1, <2>2
<1> QED  BY <1>1, <1>3, <1>4 DEF Noted, Made

LEMMA OverlapsNotedThen == (Overlaps \subseteq met)' => Noted'
BY OverlapsNoted, PTL

\* Rmmod has begun.
Leaves == load = "live" /\ load' # "live"

\* What has been noted stays noted, except for what is forgotten.
LEMMA MetGrows ==
  [Next]_vars => /\ met \cap {"early", "late"} \subseteq met'
                 /\ Insmod \/ met \ {"prints", "switch"} \subseteq met'
                 /\ Insmod \/ Leaves \/ met \ {"prints"} \subseteq met'
                 /\ Insmod \/ Printing' = {} \/ met \ {"switch"} \subseteq met'
                 /\ load \in Initialising /\ load' = "out" => "failed" \in met'
<1> SUFFICES ASSUME Next
             PROVE  /\ met \cap {"early", "late"} \subseteq met'
                    /\ Insmod \/ met \ {"prints", "switch"} \subseteq met'
                    /\ Insmod \/ Leaves \/ met \ {"prints"} \subseteq met'
                    /\ Insmod \/ Printing' = {} \/ met \ {"switch"} \subseteq met'
                    /\ load \in Initialising /\ load' = "out" => "failed" \in met'
  BY DEF vars, Initialising
<1>1. /\ met' = (met \ Forgotten) \cup Overlaps'
                \cup (IF EarlyCall THEN {"early"} ELSE {})
                \cup IF load \in Initialising /\ load' = "out" THEN {"failed"} ELSE {}
      /\ Step
  BY DEF Next, Observed
<1>2. Insmod \/ load # "out" \/ load' = "out"
  BY <1>1 DEF Step, elevator_init, SetStub, ProcCreate, thread_init_parameter, InitUndo,
        InitUndone, RemoveEntry, InitFields, InitOnboard, InitFloor, Rmmod, elevator_exit,
        KthreadStop, delete_passenger, Removed, ClearStub, ExitEnd, At, Thread, ThreadLook,
        ThreadWake, ThreadDrained, ThreadScan, ThreadServe, ThreadStep, CallBody, StartCheck,
        StartState, StartStarted, StopCheck, StopState, StopStarted, RequestRefused, RequestAdd,
        PrintBegin, PrintFloor, PrintStore, SystemCall, CallStep, ReadBegin, ReadEnd, ReadStep
<1>3. /\ Forgotten \cap {"early", "late"} = {}
      /\ Insmod \/ Forgotten \subseteq {"prints", "switch"}
      /\ Insmod \/ Leaves \/ Forgotten \subseteq {"prints"}
      /\ Insmod \/ Printing' = {} \/ Forgotten \subseteq {"switch"}
  BY <1>2 DEF Forgotten, Leaves
<1> QED  BY <1>1, <1>3

LEMMA StepNoted == Noted /\ [Next]_vars => Noted'
<1>1. Next => (Overlaps \subseteq met)'
  BY DEF Next, Observed
<1>2. Noted /\ UNCHANGED vars => Noted'
  BY DEF Noted, Inside, InCall, vars, whoVars
<1> QED  BY <1>1, <1>2, OverlapsNotedThen

\* An early call of start_elevator is an early call.
Kinds == "early_start" \in met => "early" \in met

LEMMA OverlapKinds == "early_start" \in Overlaps => "early" \in Overlaps
BY DEF Overlaps, Made, In, Inside, InCall

LEMMA OverlapKindsThen == ("early_start" \in Overlaps => "early" \in Overlaps)'
BY OverlapKinds, PTL

LEMMA StepKinds == Kinds /\ [Next]_vars => Kinds'
<1> SUFFICES ASSUME Kinds, [Next]_vars, "early_start" \in met' PROVE "early" \in met'
  BY DEF Kinds
<1>1. CASE "early_start" \in met
  BY <1>1, MetGrows DEF Kinds
<1>2. CASE "early_start" \in Overlaps' /\ Next
  BY <1>2, OverlapKindsThen DEF Next, Observed
<1> QED  BY <1>1, <1>2 DEF Next, Observed, vars

-----------------------------------------------------------------------------
(* The thread.                                                             *)

\* Nothing but a call of start_elevator gets the thread out of the first branch
\* while the module is loading.
Asleep ==
  \/ "early_start" \in met
  \/ /\ thread # "dead"
     /\ load \in Initialising => state = "OFFLINE" /\ thread \notin {"idle", "serve"}

LEMMA StepAsleep ==
  TypeOK /\ Where /\ Ready /\ Noted /\ Asleep /\ [Next]_vars => Asleep'
<1> SUFFICES ASSUME TypeOK, Where, Ready, Noted, Asleep, [Next]_vars,
                    Insmod \/ "early_start" \notin met
             PROVE  Asleep'
  BY MetGrows DEF Asleep
<1>2. CASE Insmod
  BY <1>2 DEF Insmod, Where, Asleep, At
<1> SUFFICES ASSUME "early_start" \notin met PROVE Asleep'
  BY <1>2
<1>1. /\ thread # "dead"
      /\ load \in Initialising => state = "OFFLINE" /\ thread \notin {"idle", "serve"}
      /\ load \in {"live", "exit_stop"} => Floors \subseteq ready
  BY DEF Asleep, Ready, Listed, Exiting, Lists
<1>3. CASE /\ load' \in Initialising => load \in Initialising
           /\ state' = state \/ state' = "OFFLINE"
           /\ thread' \in {thread, "look", "none", "sleep", "drain"}
  BY <1>1, <1>3 DEF Asleep
<1>4. CASE elevator_init
  <2>1. load \in Initialising
    BY <1>4 DEF elevator_init, SetStub, ProcCreate, thread_init_parameter, InitUndo,
          InitUndone, RemoveEntry, InitFields, InitOnboard, InitFloor, At, Initialising
  <2>2. /\ state' \in {state, "OFFLINE"} /\ thread' \in {thread, "look"}
    BY <1>4 DEF elevator_init, SetStub, ProcCreate, thread_init_parameter, InitUndo,
          InitUndone, RemoveEntry, InitFields, InitOnboard, InitFloor, Free, dataVars
  <2> QED  BY <1>3, <2>1, <2>2
<1>5. CASE Rmmod \/ elevator_exit
  <2>1. load' \notin Initialising
    BY <1>5 DEF Rmmod, elevator_exit, KthreadStop, delete_passenger, RemoveEntry, Removed,
          ClearStub, ExitEnd, At, Initialising
  <2>2. state' = state /\ thread' \in {thread, "none"}
    BY <1>5 DEF Rmmod, elevator_exit, KthreadStop, delete_passenger, RemoveEntry, Removed,
          ClearStub, ExitEnd, Free, dataVars
  <2> QED  BY <1>3, <2>1, <2>2
<1>6. CASE Thread
  <2>1. load' = load /\ thread # "none"
    BY <1>6 DEF Thread, ThreadLook, ThreadWake, ThreadDrained, ThreadScan, ThreadServe, ThreadStep
  <2>2. CASE load \in Initialising
    <3>1. state' = state /\ thread' \in {"sleep", "look", "ended", "drain"}
      BY <1>1, <1>6, <2>2 DEF Thread, ThreadLook, ThreadWake, ThreadDrained, ThreadScan, ThreadServe,
            ThreadStep, Initialising
    <3> QED  BY <1>1, <2>1, <2>2, <3>1 DEF Asleep
  <2>3. CASE load \notin Initialising
    <3>1. Floors \subseteq ready
      BY <1>1, <2>1, <2>3 DEF Where, Initialising
    <3>2. thread' # "dead"
      BY <1>1, <1>6, <3>1 DEF Thread, ThreadLook, ThreadWake, ThreadDrained, ThreadScan, ThreadServe,
            ThreadStep
    <3> QED  BY <2>1, <2>3, <3>2 DEF Asleep
  <2> QED  BY <2>2, <2>3
<1>7. ASSUME NEW c \in Callers, CallBody(c) PROVE Asleep'
  <2>1. load' = load /\ thread' = thread
    BY <1>7 DEF CallBody, StartCheck, StartState, StartStarted, StopCheck, StopState,
          StopStarted, RequestRefused, RequestAdd, PrintBegin, PrintFloor, PrintStore, CallStep
  <2>2. \/ state' = state \/ state' = "OFFLINE" \/ pc[c] \in Starting
    BY <1>7 DEF CallBody, StartCheck, StartState, StartStarted, StopCheck, StopState,
          StopStarted, RequestRefused, RequestAdd, PrintBegin, PrintFloor, PrintStore,
          CallStep, Starting, dataVars
  <2>3. load \in Initialising => pc[c] \notin Starting
    BY DEF Noted
  <2> QED  BY <1>1, <2>1, <2>2, <2>3 DEF Asleep
<1>8. CASE UNCHANGED <<load, state, thread>>
  BY <1>1, <1>8 DEF Asleep
<1>9. ASSUME NEW c \in Callers, NEW k \in Calls, SystemCall(c, k) PROVE Asleep'
  BY <1>8, <1>9 DEF SystemCall, CallStep, dataVars
<1>10. ASSUME NEW r \in Readers, ReadBegin(r) \/ ReadEnd(r) PROVE Asleep'
  BY <1>8, <1>10 DEF ReadBegin, ReadEnd, ReadStep, dataVars
<1>11. CASE UNCHANGED vars
  BY <1>8, <1>11 DEF vars, dataVars
<1> QED  BY <1>2, <1>4, <1>5, <1>6, <1>7, <1>9, <1>10, <1>11 DEF Next, Observed, Step

-----------------------------------------------------------------------------
(* What a module leaves behind.                                            *)

Stubs ==
  /\ load = "out" /\ stub # {} => "failed" \in met
  /\ load = "exit_stub" => "start_elevator" \notin stub
  /\ load = "exit_issue" => stub \subseteq {"issue_request"}

LEMMA StepStubs == TypeOK /\ Stubs /\ [Next]_vars => Stubs'
<1> SUFFICES ASSUME TypeOK, Stubs, [Next]_vars PROVE Stubs'
  OBVIOUS
<1>1. CASE Insmod
  BY <1>1, MetGrows DEF Insmod, At, Stubs, thingVars
<1>2. CASE elevator_init
  <2>1. load' \notin {"exit_stub", "exit_issue"}
    BY <1>2 DEF elevator_init, SetStub, ProcCreate, thread_init_parameter, InitUndo,
          InitUndone, RemoveEntry, InitFields, InitOnboard, InitFloor, At
  <2>2. load' = "out" => load \in Initialising
    BY <1>2 DEF elevator_init, SetStub, ProcCreate, thread_init_parameter, InitUndo,
          InitUndone, RemoveEntry, InitFields, InitOnboard, InitFloor, At, Initialising
  <2> QED  BY <2>1, <2>2, MetGrows DEF Stubs
<1>3. CASE ClearStub("exit_start", "start_elevator", "exit_stub")
  BY <1>3 DEF ClearStub, At, Stubs
<1>4. CASE ClearStub("exit_stub", "stop_elevator", "exit_issue")
  BY <1>4 DEF ClearStub, At, Stubs, TypeOK, Calls
<1>5. CASE ExitEnd
  BY <1>5 DEF ExitEnd, At, Stubs
<1>6. CASE load' \in {"exit_stop", "exit_delete", "exit_remove", "exit_wait", "exit_start"}
  BY <1>6 DEF Stubs
<1>7. CASE Rmmod \/ elevator_exit
  BY <1>3, <1>4, <1>5, <1>6, <1>7 DEF Rmmod, elevator_exit, KthreadStop, delete_passenger,
        RemoveEntry, Removed, At
<1>8. CASE UNCHANGED <<load, stub>>
  BY <1>8, MetGrows DEF Stubs, Insmod, At
<1>9. CASE Thread
  BY <1>8, <1>9 DEF Thread, ThreadLook, ThreadWake, ThreadDrained, ThreadScan, ThreadServe,
        ThreadStep, thingVars
<1>10. ASSUME NEW c \in Callers, CallBody(c) \/ \E k \in Calls : SystemCall(c, k) PROVE Stubs'
  BY <1>8, <1>10 DEF CallBody, StartCheck, StartState, StartStarted, StopCheck, StopState,
        StopStarted, RequestRefused, RequestAdd, PrintBegin, PrintFloor, PrintStore,
        SystemCall, CallStep, thingVars
<1>11. ASSUME NEW r \in Readers, ReadBegin(r) \/ ReadEnd(r) PROVE Stubs'
  BY <1>8, <1>11 DEF ReadBegin, ReadEnd, ReadStep, thingVars
<1>12. CASE UNCHANGED vars
  BY <1>8, <1>12 DEF vars, thingVars
<1> QED  BY <1>1, <1>2, <1>7, <1>9, <1>10, <1>11, <1>12 DEF Next, Observed, Step

\* The positions after delete_passenger.
Deleted == {"exit_remove", "exit_wait", "exit_start", "exit_stub", "exit_issue", "out"}

Left == load \in Deleted /\ waiting # {} => "late_request" \in met

LEMMA StepLeft ==
  TypeOK /\ Where /\ Ready /\ Noted /\ Left /\ [Next]_vars => Left'
<1> SUFFICES ASSUME TypeOK, Where, Ready, Noted, Left, [Next]_vars PROVE Left'
  OBVIOUS
<1>2. CASE load' \notin Deleted \/ waiting' = {}
  BY <1>2 DEF Left
<1>0. Insmod => load' \notin Deleted
  BY DEF Insmod, At, Deleted
<1>1. CASE waiting' \subseteq waiting /\ (load' \in Deleted => load \in Deleted)
  BY <1>0, <1>1, <1>2, MetGrows DEF Left
<1>3. CASE elevator_init \/ Insmod
  <2>1. CASE ProcCreate \/ InitUndone
    <3>1. load \in Unlisted /\ waiting' = waiting
      BY <2>1 DEF ProcCreate, InitUndone, Free, At, Unlisted, dataVars
    <3>2. waiting' = {}
      BY <3>1 DEF Ready, TypeOK
    <3> QED  BY <1>2, <3>2
  <2>2. CASE ~ProcCreate /\ ~InitUndone
    <3>1. load' \notin Deleted
      BY <1>3, <2>2 DEF Insmod, elevator_init, SetStub, thread_init_parameter, InitUndo,
            RemoveEntry, InitFields, InitOnboard, InitFloor, At, Deleted
    <3> QED  BY <1>2, <3>1
  <2> QED  BY <2>1, <2>2
<1>4. CASE Rmmod \/ elevator_exit
  <2>1. CASE delete_passenger
    BY <1>2, <2>1 DEF delete_passenger
  <2>2. CASE ~delete_passenger
    <3>1. waiting' = waiting
      BY <1>4, <2>2 DEF Rmmod, elevator_exit, KthreadStop, RemoveEntry, Removed, ClearStub,
            ExitEnd, Free, dataVars
    <3>2. load' \in Deleted => load \in Deleted
      BY <1>4, <2>2 DEF Rmmod, elevator_exit, KthreadStop, RemoveEntry, Removed, ClearStub,
            ExitEnd, At, Deleted
    <3> QED  BY <1>1, <3>1, <3>2
  <2> QED  BY <2>1, <2>2
<1>5. CASE Thread
  <2>1. load' = load /\ thread # "none"
    BY <1>5 DEF Thread, ThreadLook, ThreadWake, ThreadDrained, ThreadScan, ThreadServe, ThreadStep
  <2>2. load' \notin Deleted
    BY <2>1 DEF Where, Deleted
  <2> QED  BY <1>2, <2>2
<1>6. ASSUME NEW c \in Callers, CallBody(c) PROVE Left'
  <2>1. CASE \E f \in Floors : RequestAdd(c, f)
    <3>1. load' = load /\ pc[c] = "add"
      BY <2>1 DEF RequestAdd, CallStep
    <3>2. load # "out"
      BY <3>1 DEF Where, InCall
    <3>3. load \in Deleted => "late_request" \in met'
      BY <1>0, <3>1, <3>2, MetGrows DEF Noted, Deleted, Exiting, Requesting
    <3> QED  BY <3>1, <3>3 DEF Left
  <2>2. CASE ~\E f \in Floors : RequestAdd(c, f)
    <3>1. waiting' = waiting /\ load' = load
      BY <1>6, <2>2 DEF CallBody, StartCheck, StartState, StartStarted, StopCheck, StopState,
            StopStarted, RequestRefused, PrintBegin, PrintFloor, PrintStore, CallStep, dataVars
    <3> QED  BY <1>1, <3>1
  <2> QED  BY <2>1, <2>2
<1>7. ASSUME NEW c \in Callers, NEW k \in Calls, SystemCall(c, k) PROVE Left'
  BY <1>1, <1>7 DEF SystemCall, CallStep, dataVars
<1>8. ASSUME NEW r \in Readers, ReadBegin(r) \/ ReadEnd(r) PROVE Left'
  BY <1>1, <1>8 DEF ReadBegin, ReadEnd, ReadStep, dataVars
<1>9. CASE UNCHANGED vars
  BY <1>1, <1>9 DEF vars, dataVars
<1> QED  BY <1>3, <1>4, <1>5, <1>6, <1>7, <1>8, <1>9 DEF Next, Observed, Step

-----------------------------------------------------------------------------
(* Who is alive.                                                           *)

\* The first part of QuietCallsSurvive.
Quiet    == met \cap {"early", "late"} = {}
Survive  == Quiet => /\ thread # "dead" /\ \A r \in Readers : reader[r] # "dead"
                     /\ \A c \in Callers : pc[c] # "dead"

LEMMA StepSurvive ==
  TypeOK /\ Where /\ Ready /\ Noted /\ Kinds' /\ Asleep' /\ Survive
    /\ [Next]_vars => Survive'
<1> SUFFICES ASSUME TypeOK, Where, Ready, Noted, Kinds', Asleep', Survive,
                    [Next]_vars, Quiet'
             PROVE  /\ thread' # "dead" /\ \A r \in Readers : reader'[r] # "dead"
                    /\ \A c \in Callers : pc'[c] # "dead"
  BY DEF Survive
<1> DEFINE Alive == /\ \A r \in Readers : reader'[r] # "dead"
                    /\ \A c \in Callers : pc'[c] # "dead"
<1> SUFFICES Alive
  BY DEF Asleep, Kinds, Quiet
<1>1. /\ Quiet
      /\ \A r \in Readers : reader[r] # "dead"
      /\ \A c \in Callers : pc[c] # "dead"
      /\ load \in Initialising \cup Exiting => ~Inside
  BY MetGrows DEF Survive, Noted, Quiet
<1>2. CASE UNCHANGED <<pc, reader>>
  BY <1>1, <1>2
<1>3. CASE Insmod \/ Rmmod \/ Thread
  BY <1>2, <1>3 DEF Insmod, Rmmod, Thread, ThreadLook, ThreadWake, ThreadDrained, ThreadScan, ThreadServe,
        ThreadStep, whoVars
<1>4. CASE elevator_init
  <2>1. CASE Free
    <3>1. load \in Initialising
      BY <1>4 DEF elevator_init, SetStub, ProcCreate, thread_init_parameter, InitUndo,
            InitUndone, RemoveEntry, InitFields, InitOnboard, InitFloor, At, Initialising
    <3>2. \A c \in Callers : ~InCall(c)
      BY <1>1, <3>1 DEF Inside
    <3> QED  BY <1>1, <2>1, <3>2 DEF Free
  <2>2. CASE ~Free
    BY <1>2, <1>4, <2>2 DEF elevator_init, SetStub, ProcCreate, thread_init_parameter,
          InitUndo, InitUndone, RemoveEntry, InitFields, InitOnboard, InitFloor, whoVars
  <2> QED  BY <2>1, <2>2
<1>5. CASE elevator_exit
  <2>1. CASE ExitEnd
    <3>1. \A c \in Callers : ~InCall(c)
      BY <1>1, <2>1 DEF Inside, ExitEnd, At, Exiting
    <3> QED  BY <1>1, <2>1, <3>1 DEF ExitEnd, Free
  <2>2. CASE ~ExitEnd
    BY <1>2, <1>5, <2>2 DEF elevator_exit, KthreadStop, delete_passenger, RemoveEntry,
          Removed, ClearStub, whoVars
  <2> QED  BY <2>1, <2>2
<1>6. ASSUME NEW c \in Callers, CallBody(c) PROVE Alive
  <2>1. InCall(c) /\ UNCHANGED <<load, reader>>
    BY <1>6 DEF CallBody, StartCheck, StartState, StartStarted, StopCheck, StopState,
          StopStarted, RequestRefused, RequestAdd, PrintBegin, PrintFloor, PrintStore,
          CallStep, InCall
  <2>2. load = "live"
    BY <1>1, <2>1 DEF Inside, Where, TypeOK
  <2>3. Floors \subseteq ready
    BY <2>2 DEF Ready, Listed, Lists
  <2>4. \A d \in Callers \ {c} : pc'[d] = pc[d]
    BY <1>6 DEF CallBody, StartCheck, StartState, StartStarted, StopCheck, StopState,
          StopStarted, RequestRefused, RequestAdd, PrintBegin, PrintFloor, PrintStore,
          CallStep, TypeOK
  <2>5. pc'[c] # "dead"
    BY <1>6, <2>3 DEF CallBody, StartCheck, StartState, StartStarted, StopCheck, StopState,
          StopStarted, RequestRefused, RequestAdd, PrintBegin, PrintFloor, PrintStore,
          CallStep, TypeOK
  <2> QED  BY <1>1, <2>1, <2>4, <2>5
<1>7. ASSUME NEW c \in Callers, NEW k \in Calls, SystemCall(c, k) PROVE Alive
  <2>1. Stale = {}
    <3>1. pc[c] = "user" /\ pc'[c] # "user" /\ load' = load
      BY <1>7 DEF SystemCall, CallStep, Body, Calls, TypeOK
    <3>2. ~EarlyCall
      BY <1>7, <3>1 DEF Next, Observed, Quiet, vars, whoVars
    <3> QED  BY <3>1, <3>2 DEF EarlyCall, Stale, Initialising
  <2>2. reader' = reader /\ pc' = [pc EXCEPT ![c] = Body[k]] /\ Body[k] # "dead"
    BY <1>7, <2>1 DEF SystemCall, CallStep, Body, Calls
  <2> QED  BY <1>1, <2>2 DEF TypeOK
<1>8. ASSUME NEW r \in Readers, ReadBegin(r) \/ ReadEnd(r) PROVE Alive
  <2>1. CASE ReadBegin(r)
    BY <1>1, <2>1 DEF ReadBegin, ReadStep, TypeOK
  <2>2. CASE ReadEnd(r)
    <3>1. reader[r] = "in" /\ load \notin Initialising
      BY <1>1, <2>2 DEF ReadEnd, ReadStep, Inside
    <3>2. load \in Listed
      BY <3>1 DEF Where, Initialising, Listed, Exiting
    <3>3. Floors \subseteq ready
      BY <3>2 DEF Ready, Lists
    <3> QED  BY <1>1, <2>2, <3>3 DEF ReadEnd, ReadStep, TypeOK
  <2> QED  BY <1>8, <2>1, <2>2
<1>9. CASE UNCHANGED vars
  BY <1>2, <1>9 DEF vars, whoVars
<1> QED  BY <1>3, <1>4, <1>5, <1>6, <1>7, <1>8, <1>9 DEF Next, Observed, Step

\* The second part.
Alone == Quiet /\ "prints" \notin met => \A c \in Callers : pc[c] = "floor" => i \in Floors

LEMMA StepAlone ==
  TypeOK /\ Where /\ Before /\ Noted /\ Noted' /\ Alone /\ [Next]_vars => Alone'
<1> SUFFICES ASSUME TypeOK, Where, Before, Noted, Noted', Alone, [Next]_vars,
                    Quiet', "prints" \notin met', NEW c \in Callers, pc'[c] = "floor"
             PROVE  i' \in Floors
  BY DEF Alone
<1> USE DEF TypeOK
<1>1. ~Insmod
  BY DEF Insmod, At, Where, InCall, whoVars
<1>2. Quiet /\ "prints" \notin met
  <2>1. Printing' # {}
    BY DEF Printing
  <2> QED  BY <1>1, <2>1, MetGrows DEF Quiet
<1>3. CASE UNCHANGED i /\ pc[c] = "floor"
  BY <1>2, <1>3 DEF Alone
<1>4. 1 \in Floors
  BY LifeAssumption DEF Floors
<1>5. CASE elevator_init
  <2>1. load \in Initialising
    BY <1>5 DEF elevator_init, SetStub, ProcCreate, thread_init_parameter, InitUndo,
          InitUndone, RemoveEntry, InitFields, InitOnboard, InitFloor, At, Initialising
  <2>2. ~Inside
    BY <1>2, <2>1 DEF Noted, Quiet
  <2>3. pc[c] # "floor"
    BY <2>2 DEF Inside, InCall
  <2>4. pc' = pc \/ Free
    BY <1>5 DEF elevator_init, SetStub, ProcCreate, thread_init_parameter, InitUndo,
          InitUndone, RemoveEntry, InitFields, InitOnboard, InitFloor, whoVars
  <2> QED  BY <2>3, <2>4 DEF Free
<1>6. CASE Rmmod \/ elevator_exit
  <2>1. UNCHANGED i /\ (UNCHANGED pc \/ Free)
    BY <1>6 DEF Rmmod, elevator_exit, KthreadStop, delete_passenger, RemoveEntry, Removed,
          ClearStub, ExitEnd, Free, whoVars, dataVars
  <2>2. pc[c] = "floor"
    BY <2>1 DEF Free
  <2> QED  BY <1>3, <2>1, <2>2
<1>7. CASE Thread
  BY <1>3, <1>7 DEF Thread, ThreadLook, ThreadWake, ThreadDrained, ThreadScan, ThreadServe,
        ThreadStep, whoVars
<1>8. ASSUME NEW d \in Callers, CallBody(d) PROVE i' \in Floors
  <2>1. CASE PrintBegin(d)
    BY <1>4, <2>1 DEF PrintBegin
  <2>2. CASE PrintStore(d)
    <3>1. i' = held[d] + 1 /\ held[d] \in Floors /\ pc[d] = "store"
      BY <2>2 DEF PrintStore, CallStep, Before
    <3>2. CASE held[d] = lastfloor
      <4>1. pc'[d] = "user" /\ \A e \in Callers \ {d} : pc'[e] = pc[e]
        BY <2>2, <3>2 DEF PrintStore, CallStep
      <4>2. c # d /\ pc[c] = "floor"
        BY <4>1
      <4> QED  BY <1>2, <3>1, <4>2 DEF Noted
    <3>3. CASE held[d] # lastfloor
      BY <3>1, <3>3, LifeAssumption DEF Floors
    <3> QED  BY <3>2, <3>3
  <2>3. CASE ~PrintBegin(d) /\ ~PrintStore(d)
    <3>1. UNCHANGED i /\ pc'[d] # "floor" /\ \A e \in Callers \ {d} : pc'[e] = pc[e]
      BY <1>8, <2>3 DEF CallBody, StartCheck, StartState, StartStarted, StopCheck, StopState,
            StopStarted, RequestRefused, RequestAdd, PrintFloor, CallStep, dataVars
    <3> QED  BY <1>3, <3>1
  <2> QED  BY <2>1, <2>2, <2>3
<1>9. ASSUME NEW d \in Callers, NEW k \in Calls, SystemCall(d, k) PROVE i' \in Floors
  <2>1. UNCHANGED i /\ pc'[d] # "floor" /\ \A e \in Callers \ {d} : pc'[e] = pc[e]
    BY <1>9 DEF SystemCall, CallStep, Body, Calls, dataVars
  <2> QED  BY <1>3, <2>1
<1>10. ASSUME NEW r \in Readers, ReadBegin(r) \/ ReadEnd(r) PROVE i' \in Floors
  BY <1>3, <1>10 DEF ReadBegin, ReadEnd, ReadStep, dataVars
<1>11. CASE UNCHANGED vars
  BY <1>3, <1>11 DEF vars, dataVars, whoVars
<1> QED  BY <1>1, <1>5, <1>6, <1>7, <1>8, <1>9, <1>10, <1>11 DEF Next, Observed, Step

-----------------------------------------------------------------------------
(* started and state.                                                      *)

\* As long as one call is made at a time, and none of start_elevator while the
\* module is loading.
Agreed ==
  met \cap {"early_start", "switch"} = {} =>
    /\ load \in Initialising => started = 0
    /\ load = "live" =>
         /\ \A c \in Callers : pc[c] = "start_started" => state # "OFFLINE"
         /\ started = 1 /\ state = "OFFLINE" => \E c \in Callers : pc[c] = "stop_started"

LEMMA StepAgreed ==
  TypeOK /\ Where /\ Noted /\ Agreed /\ [Next]_vars => Agreed'
<1> SUFFICES ASSUME TypeOK, Where, Noted, Agreed, [Next]_vars,
                    met' \cap {"early_start", "switch"} = {}
             PROVE  Agreed'
  BY DEF Agreed
<1>4. CASE Insmod
  BY <1>4 DEF Insmod, At, Agreed
<1> SUFFICES ASSUME ~Insmod, load' \in Initialising \cup {"live"} PROVE Agreed'
  BY <1>4 DEF Agreed
<1>0. /\ load \in Initialising \cup {"live"}
      /\ load' \in Initialising => load \in Initialising
  BY DEF Next, Observed, Step, elevator_init, SetStub, ProcCreate, thread_init_parameter,
        InitUndo, InitUndone, RemoveEntry, InitFields, InitOnboard, InitFloor, Rmmod,
        elevator_exit, KthreadStop, delete_passenger, Removed, ClearStub, ExitEnd, At, Thread,
        ThreadLook, ThreadWake, ThreadDrained, ThreadScan, ThreadServe, ThreadStep, CallBody,
        StartCheck, StartState, StartStarted, StopCheck, StopState, StopStarted, RequestRefused,
        RequestAdd, PrintBegin, PrintFloor, PrintStore, SystemCall, CallStep, ReadBegin, ReadEnd,
        ReadStep, vars, Initialising
<1>1. met \cap {"early_start", "switch"} = {}
  BY <1>0, MetGrows DEF Leaves, Initialising
<1>2. /\ load \in Initialising => started = 0
      /\ load = "live" =>
           /\ \A c \in Callers : pc[c] = "start_started" => state # "OFFLINE"
           /\ started = 1 /\ state = "OFFLINE" => \E c \in Callers : pc[c] = "stop_started"
           /\ \A c, d \in Callers : {pc[c], pc[d]} \subseteq Starting \cup Stopping => c = d
      /\ load \in Initialising => \A c \in Callers : pc[c] \notin Starting
  BY <1>1 DEF Agreed, Noted
<1>3. CASE /\ load' = load /\ started' = started /\ state' \in {state, "IDLE", "UP"}
           /\ \A c \in Callers : pc'[c] = "start_started" => pc[c] = "start_started"
           /\ \A c \in Callers : pc[c] = "stop_started" => pc'[c] = "stop_started"
  BY <1>2, <1>3 DEF Agreed
<1>5. CASE elevator_init
  <2>1. load \in Initialising
    BY <1>5 DEF elevator_init, SetStub, ProcCreate, thread_init_parameter, InitUndo,
          InitUndone, RemoveEntry, InitFields, InitOnboard, InitFloor, At, Initialising
  <2>2. started' = 0
    BY <1>2, <1>5, <2>1 DEF elevator_init, SetStub, ProcCreate, thread_init_parameter,
          InitUndo, InitUndone, RemoveEntry, InitFields, InitOnboard, InitFloor, Free, dataVars
  <2>3. \A c \in Callers : pc'[c] # "start_started"
    <3>1. pc' = pc \/ Free
      BY <1>5 DEF elevator_init, SetStub, ProcCreate, thread_init_parameter, InitUndo,
            InitUndone, RemoveEntry, InitFields, InitOnboard, InitFloor, whoVars
    <3> QED  BY <1>2, <2>1, <3>1 DEF Free, Starting
  <2> QED  BY <2>2, <2>3 DEF Agreed
<1>6. CASE Rmmod \/ elevator_exit
  <2>1. load' \notin Initialising \cup {"live"}
    BY <1>6 DEF Rmmod, elevator_exit, KthreadStop, delete_passenger, RemoveEntry, Removed,
          ClearStub, ExitEnd, At, Initialising
  <2> QED  BY <2>1
<1>8. CASE Thread
  <2>1. UNCHANGED <<load, started, pc>> /\ state' \in {state, "IDLE", "UP"}
    BY <1>8 DEF Thread, ThreadLook, ThreadWake, ThreadDrained, ThreadScan, ThreadServe, ThreadStep, whoVars
  <2> QED  BY <1>3, <2>1
<1>9. ASSUME NEW c \in Callers, CallBody(c) PROVE Agreed'
  <2>1. load' = load /\ \A d \in Callers \ {c} : pc'[d] = pc[d]
    BY <1>9 DEF CallBody, StartCheck, StartState, StartStarted, StopCheck, StopState,
          StopStarted, RequestRefused, RequestAdd, PrintBegin, PrintFloor, PrintStore,
          CallStep, TypeOK
  <2>2. CASE StartState(c)
    BY <1>2, <2>1, <2>2 DEF StartState, CallStep, Agreed, Starting
  <2>3. CASE StartStarted(c)
    <3>1. pc[c] = "start_started" /\ load \notin Initialising /\ state' = state
          /\ pc'[c] = "user"
      BY <1>2, <2>3 DEF StartStarted, CallStep, Starting, TypeOK
    <3> QED  BY <1>2, <2>1, <3>1 DEF Agreed
  <2>4. CASE StopState(c)
    <3>1. pc[c] = "stop_state" /\ pc'[c] = "stop_started" /\ started' = started
      BY <2>4 DEF StopState, CallStep, TypeOK
    <3>2. ASSUME NEW d \in Callers \ {c}, pc[d] = "start_started" PROVE FALSE
      <4>1. pc[d] \in Starting /\ pc[c] \in Stopping
        BY <3>1, <3>2 DEF Starting, Stopping
      <4>2. load = "live"
        BY <1>0, <1>2, <4>1
      <4>3. {pc[c], pc[d]} \subseteq Starting \cup Stopping
        BY <4>1
      <4>4. c = d
        BY <1>2, <4>2, <4>3
      <4> QED  BY <4>4
    <3> QED  BY <1>2, <2>1, <3>1, <3>2 DEF Agreed
  <2>5. CASE StopStarted(c)
    <3>1. started' = 0 /\ state' = state /\ pc'[c] = "user"
      BY <2>5 DEF StopStarted, CallStep, TypeOK
    <3> QED  BY <1>2, <2>1, <3>1 DEF Agreed
  <2>6. CASE ~StartState(c) /\ ~StartStarted(c) /\ ~StopState(c) /\ ~StopStarted(c)
    <3>1. UNCHANGED <<started, state>> /\ pc[c] # "stop_started" /\ pc'[c] # "start_started"
      BY <1>9, <2>6 DEF CallBody, StartCheck, StopCheck, RequestRefused, RequestAdd,
            PrintBegin, PrintFloor, PrintStore, CallStep, TypeOK, dataVars
    <3> QED  BY <1>3, <2>1, <3>1
  <2> QED  BY <2>2, <2>3, <2>4, <2>5, <2>6
<1>10. ASSUME NEW c \in Callers, NEW k \in Calls, SystemCall(c, k) PROVE Agreed'
  <2>1. /\ UNCHANGED <<load, started, state>>
        /\ pc[c] = "user" /\ pc'[c] # "start_started"
        /\ \A d \in Callers \ {c} : pc'[d] = pc[d]
    BY <1>10 DEF SystemCall, CallStep, Body, Calls, TypeOK, dataVars
  <2> QED  BY <1>3, <2>1
<1>11. ASSUME NEW r \in Readers, ReadBegin(r) \/ ReadEnd(r) PROVE Agreed'
  BY <1>3, <1>11 DEF ReadBegin, ReadEnd, ReadStep, dataVars
<1>12. CASE UNCHANGED vars
  BY <1>3, <1>12 DEF vars, dataVars, whoVars
<1> QED  BY <1>5, <1>6, <1>8, <1>9, <1>10, <1>11, <1>12 DEF Next, Observed, Step

-----------------------------------------------------------------------------
(* What rmmod waits for.                                                   *)

\* Until kthread_stop has come back there is a thread.
Watched ==
  /\ load \in {"init_fields", "init_onboard", "init_floors", "live", "exit_stop"} =>
       thread # "none"
  /\ \A r \in Readers : reader[r] = "dead" => "early" \in met

LEMMA StepWatched ==
  TypeOK /\ Where /\ Ready /\ Noted /\ Watched /\ [Next]_vars => Watched'
<1> SUFFICES ASSUME TypeOK, Where, Ready, Noted, Watched, [Next]_vars PROVE Watched'
  OBVIOUS
<1> DEFINE Started(l) == l \in {"init_fields", "init_onboard", "init_floors", "live", "exit_stop"}
           Kept == Started(load') => thread' # "none"
<1>1. CASE reader' = reader /\ Kept
  BY <1>1, MetGrows DEF Watched
<1>2. (Started(load') => Started(load)) /\ (thread # "none" => thread' # "none") => Kept
  BY DEF Watched
<1>3. CASE Insmod \/ elevator_init
  <2>1. reader' = reader
    BY <1>3 DEF Insmod, elevator_init, SetStub, ProcCreate, thread_init_parameter, InitUndo,
          InitUndone, Free, RemoveEntry, InitFields, InitOnboard, InitFloor, whoVars
  <2>2. CASE thread_init_parameter
    <3>1. Kept
      BY <2>2 DEF thread_init_parameter, At
    <3> QED  BY <1>1, <2>1, <3>1
  <2>3. CASE ~thread_init_parameter
    <3>1. thread' = thread
      BY <1>3, <2>3 DEF Insmod, elevator_init, SetStub, ProcCreate, InitUndo, InitUndone, Free,
            RemoveEntry, InitFields, InitOnboard, InitFloor
    <3>2. Started(load') => Started(load)
      BY <1>3, <2>3 DEF Insmod, elevator_init, SetStub, ProcCreate, InitUndo, InitUndone,
            RemoveEntry, InitFields, InitOnboard, InitFloor, At
    <3> QED  BY <1>1, <1>2, <2>1, <3>1, <3>2
  <2> QED  BY <2>2, <2>3
<1>4. CASE Rmmod \/ elevator_exit
  <2>1. reader' = reader
    BY <1>4 DEF Rmmod, elevator_exit, KthreadStop, delete_passenger, RemoveEntry, Removed,
          ClearStub, ExitEnd, Free, whoVars
  <2>2. CASE Rmmod
    BY <1>1, <1>2, <2>1, <2>2 DEF Rmmod, At
  <2>3. CASE elevator_exit
    <3>1. ~Started(load')
      BY <2>3 DEF elevator_exit, KthreadStop, delete_passenger, RemoveEntry, Removed, ClearStub,
            ExitEnd, At
    <3> QED  BY <1>1, <2>1, <3>1
  <2> QED  BY <1>4, <2>2, <2>3
<1>5. CASE Thread
  BY <1>1, <1>5 DEF Thread, ThreadLook, ThreadWake, ThreadDrained, ThreadScan, ThreadServe, ThreadStep, whoVars
<1>6. ASSUME NEW c \in Callers, CallBody(c) \/ \E k \in Calls : SystemCall(c, k) PROVE Watched'
  <2>1. UNCHANGED <<load, thread, reader>>
    BY <1>6 DEF CallBody, StartCheck, StartState, StartStarted, StopCheck, StopState,
          StopStarted, RequestRefused, RequestAdd, PrintBegin, PrintFloor, PrintStore,
          SystemCall, CallStep
  <2> QED  BY <1>1, <1>2, <2>1
<1>7. ASSUME NEW r \in Readers, ReadBegin(r) \/ ReadEnd(r) PROVE Watched'
  <2>1. /\ load' = load /\ thread' = thread
        /\ \A q \in Readers : q # r => reader'[q] = reader[q]
    BY <1>7 DEF ReadBegin, ReadEnd, ReadStep, TypeOK
  <2>2. ASSUME reader'[r] = "dead" PROVE "early" \in met'
    <3>1. reader[r] = "in" /\ ~(Floors \subseteq ready)
      BY <1>7, <2>2 DEF ReadBegin, ReadEnd, ReadStep, TypeOK
    <3>2. load \in Initialising
      BY <3>1 DEF Where, Ready, Listed, Exiting, Initialising, Lists
    <3>3. "early" \in met
      BY <3>1, <3>2 DEF Noted, Inside
    <3> QED  BY <3>3, MetGrows
  <2> QED  BY <2>1, <2>2, MetGrows DEF Watched
<1>8. CASE UNCHANGED vars
  BY <1>1, <1>2, <1>8 DEF vars, whoVars
<1> QED  BY <1>3, <1>4, <1>5, <1>6, <1>7, <1>8 DEF Next, Observed, Step

\* The thread is in the loop of the OFFLINE branch because of somebody on board.
Riding == thread = "drain" => aboard /\ onboard \in ready

LEMMA StepRiding == TypeOK /\ Where /\ Ready /\ Riding /\ [Next]_vars => Riding'
<1> SUFFICES ASSUME TypeOK, Where, Ready, Riding, [Next]_vars PROVE Riding'
  OBVIOUS
<1> USE DEF Riding
<1>1. CASE UNCHANGED <<thread, aboard, ready>>
  BY <1>1
<1>2. CASE Insmod
  BY <1>2 DEF Insmod, At, Where
<1>3. CASE InitOnboard
  <2>1. thread # "drain"
    BY <1>3 DEF InitOnboard, At, Ready, Unlisted
  <2> QED  BY <1>3, <2>1 DEF InitOnboard
<1>4. CASE InitFloor
  BY <1>4 DEF InitFloor
<1>5. CASE elevator_init /\ ~InitOnboard /\ ~InitFloor
  BY <1>1, <1>5 DEF elevator_init, SetStub, ProcCreate, thread_init_parameter, InitUndo,
        InitUndone, RemoveEntry, InitFields, Free, dataVars
<1>6. CASE Rmmod \/ elevator_exit
  <2>1. CASE KthreadStop
    BY <2>1 DEF KthreadStop
  <2>2. CASE ~KthreadStop
    BY <1>1, <1>6, <2>2 DEF Rmmod, elevator_exit, delete_passenger, RemoveEntry, Removed,
          ClearStub, ExitEnd, Free, dataVars
  <2> QED  BY <2>1, <2>2
<1>7. CASE Thread
  BY <1>7 DEF Thread, ThreadLook, ThreadWake, ThreadDrained, ThreadScan, ThreadServe, ThreadStep
<1>8. ASSUME NEW c \in Callers, CallBody(c) \/ \E k \in Calls : SystemCall(c, k) PROVE Riding'
  BY <1>1, <1>8 DEF CallBody, StartCheck, StartState, StartStarted, StopCheck, StopState,
        StopStarted, RequestRefused, RequestAdd, PrintBegin, PrintFloor, PrintStore,
        SystemCall, CallStep, dataVars
<1>9. ASSUME NEW r \in Readers, ReadBegin(r) \/ ReadEnd(r) PROVE Riding'
  BY <1>1, <1>9 DEF ReadBegin, ReadEnd, ReadStep, dataVars
<1>10. CASE UNCHANGED vars
  BY <1>1, <1>10 DEF vars, dataVars
<1> QED  BY <1>2, <1>3, <1>4, <1>5, <1>6, <1>7, <1>8, <1>9, <1>10 DEF Next, Observed, Step

-----------------------------------------------------------------------------
(* The theorems.                                                           *)

LInv == TypeOK /\ Where /\ Before /\ Ready /\ Noted /\ Kinds /\ Asleep /\ Stubs /\ Left
          /\ Agreed /\ Survive /\ Alone /\ Watched /\ Riding

LEMMA InitLInv == Init => LInv
<1> SUFFICES ASSUME Init PROVE LInv
  OBVIOUS
<1>1. /\ Noted /\ Kinds /\ Asleep /\ Stubs /\ Left
      /\ Agreed /\ Survive /\ Alone /\ Watched /\ Riding
  BY DEF Init, Watched, Noted, Kinds, Asleep, Stubs, Left, Agreed, Survive, Alone, Riding,
         Initialising, Exiting, Starting, Stopping
<1> QED  BY <1>1, InitTypes DEF LInv

\* What insmod, rmmod, the calls, the readers and the thread keep up together.
THEOREM LifeInvariance == Spec => []LInv
<1>1. LInv /\ [Next]_vars => LInv'
  <2> SUFFICES ASSUME LInv, [Next]_vars PROVE LInv'
    OBVIOUS
  <2>1. TypeOK' /\ Where' /\ Before' /\ Ready'
    BY StepTypes, StepWhere, StepBefore, StepReady DEF LInv
  <2>2. Noted' /\ Kinds' /\ Asleep' /\ Stubs' /\ Left' /\ Agreed'
    BY StepNoted, StepKinds, StepAsleep, StepStubs, StepLeft, StepAgreed DEF LInv
  <2>3. Survive' /\ Alone' /\ Watched' /\ Riding'
    BY <2>2, StepSurvive, StepAlone, StepWatched, StepRiding DEF LInv
  <2> QED  BY <2>1, <2>2, <2>3 DEF LInv
<1> QED  BY <1>1, InitLInv, PTL DEF Spec

\* Every variable has its type: print_passengers and elevator_init never leave i
\* beyond lastfloor + 1, and nobody waits on a list that is not initialised.
THEOREM LifeTypes == Spec => []TypeOK
<1>1. LInv => TypeOK
  BY DEF LInv
<1> QED  BY <1>1, LifeInvariance, PTL

\* No thread and no reader runs in memory that was freed, whatever fails, and only
\* the error paths of elevator_init leave stubs that lead there.
THEOREM NothingFreedRuns == Spec => []NothingRunsFreed
<1>1. LInv => NothingRunsFreed
  BY DEF LInv, TypeOK, Where, Stubs, Stale, NothingRunsFreed
<1> QED  BY <1>1, LifeInvariance, PTL

\* elevator_init initialises every list, whoever sets back its loop variable.
THEOREM AllListsReady == Spec => []ListsReady
<1>1. LInv => ListsReady
  BY DEF LInv, Ready, Listed, ListsReady
<1> QED  BY <1>1, LifeInvariance, PTL

\* The thread dies only of a start_elevator that came while the module was loading.
THEOREM ThreadLives == Spec => []ThreadSurvives
<1>1. LInv => ThreadSurvives
  BY DEF LInv, Asleep, ThreadSurvives
<1> QED  BY <1>1, LifeInvariance, PTL

\* Nobody dies of a module that nobody uses while it comes and goes, and while
\* requests print one at a time none of them looks beyond the last floor.
THEOREM QuietCallersLive == Spec => []QuietCallsSurvive
<1>1. LInv => QuietCallsSurvive
  BY DEF LInv, Survive, Alone, Quiet, QuietCallsSurvive
<1> QED  BY <1>1, LifeInvariance, PTL

\* delete_passenger takes everyone whose request was not made beside elevator_exit.
THEOREM NobodyLeft == Spec => []LeftWhileExiting
<1>1. LInv => LeftWhileExiting
  BY DEF LInv, Left, Deleted, LeftWhileExiting
<1> QED  BY <1>1, LifeInvariance, PTL

\* started and state agree when calls do not overlap.
THEOREM StartedElevatorRuns == Spec => []StartedRuns
<1>1. LInv => StartedRuns
  <2> SUFFICES ASSUME LInv, load = "live", started = 1, Switching = {}, state = "OFFLINE",
                      met \cap {"early_start", "switch"} = {}
               PROVE  FALSE
    BY DEF StartedRuns
  <2>1. PICK c \in Callers : pc[c] = "stop_started"
    BY DEF LInv, Agreed
  <2>2. c \in Switching
    BY <2>1 DEF Switching, In
  <2> QED  BY <2>2
<1> QED  BY <1>1, LifeInvariance, PTL

\* kthread_stop has a thread to wait for, which comes back to the top of its loop,
\* or has riders that it may take nowhere, or has died of an early start; and the
\* readers that remove_proc_entry waits for have died only of an early read.
THEOREM RmmodWaitsFor == Spec => []RmmodWaits
<1>1. LInv => RmmodWaits
  <2> SUFFICES ASSUME LInv PROVE RmmodWaits
    OBVIOUS
  <2>1. ASSUME load = "exit_stop" PROVE thread # "none" /\ onboard \in ready
    BY <2>1 DEF LInv, Watched, Ready, Listed, Exiting
  <2>2. thread = "dead" => "early_start" \in met
    BY DEF LInv, Asleep
  <2>3. thread = "drain" => aboard
    BY DEF LInv, Riding
  <2>4. "early" \in met \/ \A r \in Readers : reader[r] # "dead"
    BY DEF LInv, Watched
  <2> QED  BY <2>1, <2>2, <2>3, <2>4 DEF LInv, TypeOK, RmmodWaits
<1> QED  BY <1>1, LifeInvariance, PTL

=============================================================================
