----------------------------- MODULE DraftProofs -----------------------------
(***************************************************************************)
(* Proofs about the draft for any number of floors and calls: the loop of  *)
(* start_elevator initialises all lists, although every request writes to  *)
(* the variable of that loop, and calls that do not overlap get on the     *)
(* right lists, survive, and free what they allocate.                      *)
(***************************************************************************)
EXTENDS MCDraft, SequenceTheorems, TLAPS

-----------------------------------------------------------------------------
(* All lists are initialised.                                              *)

\* Every floor before one that a loop has come to is ready: of the global i,
\* whoever has set it, and of the i that start_elevator has in a register.
Before ==
  /\ ready \subseteq Floors
  /\ i \in 1 .. lastfloor + 1 /\ 1 .. i - 1 \subseteq ready
  /\ \A s \in Threads : pc[s] = "init" =>
       own[s] \in 1 .. lastfloor + 1 /\ 1 .. own[s] - 1 \subseteq ready

\* A loop that has come to its end has been over all floors.
Through == \A s \in Threads : pc[s] = "started" => ready = Floors

Tables == DOMAIN pc = Threads /\ DOMAIN own = Threads

DInv == Tables /\ Before /\ Through /\ ListsBeforeStarted

LEMMA InitDInv == Init => DInv
<1> SUFFICES ASSUME Init PROVE DInv
  OBVIOUS
<1>1. Before
  BY DraftAssumption DEF Init, Before
<1> QED  BY <1>1 DEF Init, DInv, Tables, Through, ListsBeforeStarted

\* A step of thread t that is not one of the loop, and after which i is 1 or
\* has gone on by one from a floor that is ready.
Beside(t) ==
  /\ Tables'
  /\ pc'[t] \notin {"init", "started"}
  /\ \A s \in Threads : s # t => pc'[s] = pc[s] /\ own'[s] = own[s]
  /\ ready' = ready /\ started' = started
  /\ \/ i' \in {i, 1}
     \/ i \in ready /\ i' = i + 1

LEMMA BesideKeeps ==
  ASSUME DInv, NEW t \in Threads, Beside(t)
  PROVE  DInv'
<1> USE DEF DInv
<1>1. /\ Tables'
      /\ \A s \in Threads : pc'[s] \in {"init", "started"} => pc'[s] = pc[s] /\ own'[s] = own[s]
  BY DEF Beside, Tables
<1>2. i' \in 1 .. lastfloor + 1 /\ 1 .. i' - 1 \subseteq ready'
  BY DraftAssumption DEF Beside, Before, Floors
<1>3. Before'
  BY <1>1, <1>2 DEF Beside, Before
<1>4. Through' /\ ListsBeforeStarted'
  BY <1>1 DEF Beside, Through, ListsBeforeStarted
<1> QED  BY <1>1, <1>3, <1>4

\* issue_request, also in print_passengers, stays out of the loop.
LEMMA RequestBeside ==
  ASSUME DInv, NEW q \in Requests,
         RequestKmalloc(q) \/ RequestFill(q) \/ RequestAdd(q)
           \/ RequestText(q) \/ RequestPrint(q) \/ RequestFree(q)
  PROVE  Beside(q)
<1> USE DEF DInv, Tables, Threads, RequestStep, At, Hold, nodeVars
<1>1. CASE RequestKmalloc(q)
  BY <1>1 DEF RequestKmalloc, Beside
<1>2. CASE RequestFill(q)
  BY <1>2 DEF RequestFill, Beside
<1>3. CASE RequestAdd(q)
  BY <1>3 DEF RequestAdd, Beside
<1>4. CASE RequestText(q)
  BY <1>4 DEF RequestText, Beside
<1>5. CASE RequestPrint(q)
  BY <1>5 DEF RequestPrint, Beside, Fatal
<1>6. CASE RequestFree(q)
  BY <1>6 DEF RequestFree, Beside
<1> QED  BY <1>1, <1>2, <1>3, <1>4, <1>5, <1>6

LEMMA ReadBeside ==
  ASSUME DInv, NEW r \in Readers, Open(r) \/ Read(r) \/ Release(r)
  PROVE  Beside(r)
<1> USE DEF DInv, Tables, Threads, ReadStep, At, nodeVars
<1>1. CASE Open(r)
  BY <1>1 DEF Open, Beside
<1>2. CASE Read(r)
  BY <1>2 DEF Read, Beside
<1>3. CASE Release(r)
  BY <1>3 DEF Release, Beside
<1> QED  BY <1>1, <1>2, <1>3

LEMMA SwitchKeeps ==
  ASSUME DInv, NEW s \in Switchers,
         StartCheck(s) \/ StartKmalloc(s) \/ StartFloor(s) \/ StartEnd(s)
           \/ StopCheck(s) \/ StopState(s) \/ StopStarted(s)
  PROVE  DInv'
<1> USE DEF DInv, Tables, Threads, SwitchStep, At, Hold
<1>1. ASSUME StartCheck(s) \/ StopCheck(s) \/ StopState(s) PROVE DInv'
  <2>1. Beside(s)
    BY <1>1 DEF StartCheck, StopCheck, StopState, Beside
  <2> QED  BY <2>1, BesideKeeps
\* The loop begins with the first floor, or there is no memory.
<1>2. ASSUME StartKmalloc(s) PROVE DInv'
  <2>1. /\ Tables' /\ ready' = ready /\ started' = started /\ i' \in {1, i}
        /\ \A t \in Threads : pc'[t] \in {"init", "started"} =>
             \/ pc'[t] = pc[t] /\ own'[t] = own[t]
             \/ pc'[t] = "init" /\ own'[t] = 1
    BY <1>2 DEF StartKmalloc
  <2>2. 1 \in 1 .. lastfloor + 1 /\ 1 .. 1 - 1 \subseteq ready
    BY DraftAssumption
  <2>4. i' \in 1 .. lastfloor + 1 /\ 1 .. i' - 1 \subseteq ready
    BY <2>1, <2>2 DEF Before
  <2>5. ASSUME NEW t \in Threads, pc'[t] = "init"
        PROVE  own'[t] \in 1 .. lastfloor + 1 /\ 1 .. own'[t] - 1 \subseteq ready
    BY <2>1, <2>2, <2>5 DEF Before
  <2>6. Before'
    BY <2>1, <2>4, <2>5 DEF Before
  <2>3. Through' /\ ListsBeforeStarted'
    BY <2>1 DEF Through, ListsBeforeStarted
  <2> QED  BY <2>1, <2>3, <2>6
\* One list more, or the end of the loop: beyond the last floor.
<1>3. ASSUME StartFloor(s) PROVE DInv'
  <2>1. PICK k \in {i, own[s]} :
          IF k \in Floors
          THEN /\ SwitchStep(s, "init", "init") /\ ready' = ready \cup {k}
               /\ i' = k + 1 /\ Hold(s, k + 1)
          ELSE /\ SwitchStep(s, "init", "started") /\ Hold(s, Null)
               /\ ready' = ready /\ i' = i
    BY <1>3 DEF StartFloor
  <2>2. pc[s] = "init" /\ started' = started
    BY <2>1, <1>3 DEF StartFloor
  <2>3. k \in 1 .. lastfloor + 1 /\ 1 .. k - 1 \subseteq ready
    BY <2>1, <2>2 DEF Before
  <2>4. CASE k \in Floors
    <3>1. /\ Tables' /\ ready' = ready \cup {k} /\ i' = k + 1
          /\ \A t \in Threads : pc'[t] \in {"init", "started"} =>
               \/ pc'[t] = pc[t] /\ own'[t] = own[t]
               \/ pc'[t] = "init" /\ own'[t] = k + 1
      BY <2>1, <2>4
    <3>2. 1 .. (k + 1) - 1 \subseteq ready' /\ k + 1 \in 1 .. lastfloor + 1
      BY <3>1, <2>3, <2>4, DraftAssumption DEF Floors
    <3>3. Before'
      BY <3>1, <3>2, <2>4 DEF Before
    <3>4. Through' /\ ListsBeforeStarted'
      BY <3>1, <2>2, <2>4 DEF Through, ListsBeforeStarted
    <3> QED  BY <3>1, <3>3, <3>4
  <2>5. CASE k \notin Floors
    <3>1. ready = Floors
      <4>1. k = lastfloor + 1
        BY <2>3, <2>5, DraftAssumption DEF Floors
      <4>2. 1 .. k - 1 = Floors
        BY <4>1, DraftAssumption DEF Floors
      <4> QED  BY <2>3, <4>2 DEF Before
    <3>2. /\ Tables' /\ ready' = ready /\ i' = i
          /\ \A t \in Threads : pc'[t] = "init" => pc'[t] = pc[t] /\ own'[t] = own[t]
      BY <2>1, <2>5
    <3> QED  BY <3>1, <3>2 DEF Before, Through, ListsBeforeStarted
  <2> QED  BY <2>4, <2>5
<1>4. ASSUME StartEnd(s) PROVE DInv'
  <2>1. pc[s] = "started" /\ ready' = ready /\ i' = i /\ own' = own
        /\ pc' = [pc EXCEPT ![s] = "user"]
    BY <1>4 DEF StartEnd
  <2>2. ready = Floors
    BY <2>1 DEF Through
  <2> QED  BY <2>1, <2>2 DEF Before, Through, ListsBeforeStarted
<1>5. ASSUME StopStarted(s) PROVE DInv'
  <2>1. started' = 0 /\ ready' = ready /\ i' = i /\ own' = own
        /\ pc' = [pc EXCEPT ![s] = "user"]
    BY <1>5 DEF StopStarted
  <2> QED  BY <2>1 DEF Before, Through, ListsBeforeStarted
<1> QED  BY <1>1, <1>2, <1>3, <1>4, <1>5

LEMMA NextDInv == DInv /\ [Next]_vars => DInv'
<1> SUFFICES ASSUME DInv, [Next]_vars PROVE DInv'
  OBVIOUS
<1>1. ASSUME UNCHANGED <<started, ready, i, pc, own>> PROVE DInv'
  BY <1>1 DEF DInv, Tables, Before, Through, ListsBeforeStarted
<1>2. CASE SetStubs \/ ProcCreate \/ InitWrite \/ elevator_exit
  BY <1>1, <1>2 DEF SetStubs, ProcCreate, InitWrite, elevator_exit, LoadStep, nodeVars
<1>3. CASE UNCHANGED vars
  BY <1>1, <1>3 DEF vars, nodeVars
<1>4. ASSUME NEW q \in Requests,
             RequestKmalloc(q) \/ RequestFill(q) \/ RequestAdd(q)
               \/ RequestText(q) \/ RequestPrint(q) \/ RequestFree(q)
      PROVE DInv'
  BY <1>4, RequestBeside, BesideKeeps DEF Threads
<1>5. ASSUME NEW r \in Readers, Open(r) \/ Read(r) \/ Release(r) PROVE DInv'
  BY <1>5, ReadBeside, BesideKeeps DEF Threads
<1> QED  BY <1>2, <1>3, <1>4, <1>5, SwitchKeeps DEF Next

\* An elevator of the draft that counts as started has all its lists, however
\* many requests set back and forward the variable of start_elevator's loop.
THEOREM DraftListsReady == Spec => []ListsBeforeStarted
<1>1. DInv => ListsBeforeStarted
  BY DEF DInv
<1> QED  BY InitDInv, NextDInv, <1>1, PTL DEF Spec

-----------------------------------------------------------------------------
(* What holds of calls that do not overlap.                                *)

OfSwitcher(s) == pc[s] \in {"user", "init", "started", "stop", "stopped", "dead"}
OfRequest(q)  == /\ pc[q] \in {"user", "fill", "add", "text", "print", "free", "done", "dead"}
                 /\ own[q] \in Requests \cup {Null}
OfReader(r)   == pc[r] \in {"user", "open", "end", "dead"}

Calls == /\ \A s \in Switchers : OfSwitcher(s)
         /\ \A q \in Requests : OfRequest(q)
         /\ \A r \in Readers : OfReader(r)

Values ==
  /\ load \in {"out", "stubs", "write", "live", "dead", "gone"}
  /\ e1 \in BOOLEAN /\ state \in {"OFFLINE", "IDLE"} /\ started \in {0, 1} /\ read_p \in {0, 1}
  /\ allfloors \in [Floors -> Seq(Requests)] /\ start_floor \in [Requests -> Floors]
  /\ ask \in [Requests -> Floors] /\ standing \subseteq Requests
  /\ new_passenger \in Requests \cup {Null} /\ message_2 \in Requests \cup {Null}
  /\ heap \subseteq Requests
  /\ met \subseteq {"overlap", "early", "no memory", "misused"}

Going(t) == pc[t] \notin {"user", "done", "dead"}
Single   == \A t, u \in Requests \cup Switchers : Going(t) /\ Going(u) => t = u

\* Who has not come to list_add_tail is on no list.
Unlisted ==
  \A q \in Requests : pc[q] \in {"user", "fill", "add"} =>
    q \notin standing /\ \A f \in Floors : q \notin ToSet(allfloors[f])

\* The globals of the call that is under way are still its own.
Filling ==
  \A q \in Requests :
    /\ pc[q] \in {"fill", "add"} => new_passenger = q /\ own[q] = q
    /\ pc[q] = "add" => start_floor[q] = ask[q]

\* start_elevator has come to the floor i.
Emptying ==
  \A s \in Switchers : pc[s] = "init" =>
    own[s] = i /\ standing = {} /\ \A f \in Floors : f < i => allfloors[f] = <<>>

Floor(f) == /\ ToSet(allfloors[f]) = {q \in standing : ask[q] = f}
            /\ IsInjective(allfloors[f])
            /\ \A q \in ToSet(allfloors[f]) : start_floor[q] = f

Waiting == (\A s \in Switchers : pc[s] # "init") => \A f \in Floors : Floor(f)

\* As long as no two calls overlap and there is memory.
Calm      == met \cap {"overlap", "no memory"} = {}
CalmLists == Single /\ Unlisted /\ Filling /\ Emptying /\ Waiting

\* What a call needs is there, and stays.
Provided ==
  /\ \A t \in Requests \cup Readers : pc[t] # "user" => e1 /\ ready = Floors
  /\ \A s \in Switchers : pc[s] # "user" => e1
  /\ started = 1 => e1

\* print_passengers has its own text, and goes through the floors.
Texts ==
  /\ heap = {q \in Requests : pc[q] \in {"print", "free"}}
  /\ \A q \in Requests : pc[q] \in {"print", "free"} => message_2 = q
  /\ \A q \in Requests : pc[q] = "print" => i \in Floors

Alive == "misused" \notin met /\ \A t \in Threads : pc[t] # "dead"

\* As long as, besides, nobody calls before the first start.
Orderly     == Calm /\ "early" \notin met
OrderlyRuns == Provided /\ Texts /\ Alive

SInv == Calls /\ Values /\ (Calm => CalmLists) /\ (Orderly => OrderlyRuns)

-----------------------------------------------------------------------------
(* Initial states, and what a thread is.                                   *)

LEMMA Kinds ==
  /\ Requests \subseteq Threads /\ Switchers \subseteq Threads /\ Readers \subseteq Threads
  /\ Requests \cap Switchers = {} /\ Requests \cap Readers = {} /\ Switchers \cap Readers = {}
  /\ \A t \in Threads : t \in Requests \/ t \in Switchers \/ t \in Readers
  /\ Null \notin Requests
  BY CallsAssumption, DraftAssumption DEF Threads

LEMMA InitSInv == Init => SInv
<1> SUFFICES ASSUME Init PROVE SInv
  OBVIOUS
<1> USE Kinds
<1>1. Calls
  BY DEF Init, Calls, OfSwitcher, OfRequest, OfReader
<1>2. Values
  <2>1. <<>> \in Seq(Requests) /\ 1 \in Floors
    BY EmptySeq, DraftAssumption DEF Floors
  <2> QED  BY <2>1 DEF Init, Values
<1>3. \A f \in Floors : ToSet(allfloors[f]) = {} /\ IsInjective(allfloors[f])
  BY DEF Init, ToSet, IsInjective
<1>4. CalmLists
  BY <1>3 DEF Init, CalmLists, Single, Going, Unlisted, Filling, Emptying, Waiting, Floor
<1>5. OrderlyRuns
  BY DEF Init, OrderlyRuns, Provided, Texts, Alive
<1> QED  BY <1>1, <1>2, <1>4, <1>5 DEF SInv

\* Thread t goes on, and nobody else.
Moves(t, from, to) ==
  /\ pc[t] = from /\ pc'[t] = to
  /\ \A u \in Threads : u # t => pc'[u] = pc[u] /\ own'[u] = own[u]

LEMMA ThreadMoves ==
  ASSUME Tables, NEW t \in Threads, NEW from, NEW to, At(t, from, to),
         own' = own \/ \E g : Hold(t, g)
  PROVE  Moves(t, from, to)
  BY DEF Tables, At, Hold, Moves

\* Nobody is in a call that overlaps with this one.
LEMMA SingleKept ==
  ASSUME Single, NEW t \in Requests \cup Switchers, NEW from, NEW to, Moves(t, from, to),
         \/ from \notin {"user", "done", "dead"} \/ Busy = {}
         \/ to \in {"user", "done", "dead"}
  PROVE  Single'
<1>1. \A u \in Requests \cup Switchers : u # t => (Going(u)' <=> Going(u))
  BY Kinds DEF Moves, Going
<1>2. Busy = {} => \A u \in Requests \cup Switchers : ~Going(u)
  BY Kinds DEF Busy, Running, Going
<1> QED  BY <1>1, <1>2 DEF Moves, Single, Going

LEMMA MeetAlone ==
  ASSUME NEW t \in Threads, Meet(t), Calm', t \notin Readers
  PROVE  Busy = {} /\ Calm /\ \A u \in Requests \cup Switchers : ~Going(u)
<1>1. Busy = {}
  BY DEF Meet, Noted, Calm
<1> QED  BY <1>1, Kinds DEF Meet, Noted, Calm, Busy, Running, Going

LEMMA MeetOrderly ==
  ASSUME NEW t \in Threads, Meet(t), Orderly'
  PROVE  Orderly /\ ("misused" \in met' => "misused" \in met)
         /\ (t \notin Switchers => e1 /\ ready = Floors)
  BY DEF Meet, Noted, Orderly, Calm

\* What list_add_tail does to who is on a list.
LEMMA AppendedSet ==
  ASSUME NEW s \in Seq(Requests), NEW n \in Requests, n \notin ToSet(s), IsInjective(s)
  PROVE  /\ Append(s, n) \in Seq(Requests)
         /\ ToSet(Append(s, n)) = ToSet(s) \cup {n} /\ IsInjective(Append(s, n))
<1> DEFINE t == Append(s, n)
<1>1. /\ t \in Seq(Requests) /\ Len(t) = Len(s) + 1 /\ Len(s) \in Nat
      /\ \A k \in 1 .. Len(s) : t[k] = s[k]
      /\ t[Len(s) + 1] = n
      /\ DOMAIN s = 1 .. Len(s) /\ DOMAIN t = 1 .. Len(t)
  BY AppendProperties, LenProperties
<1> HIDE DEF t
<1>2. ToSet(t) = ToSet(s) \cup {n}
  <2>1. \A k \in 1 .. Len(t) : t[k] \in ToSet(s) \cup {n}
    BY <1>1 DEF ToSet
  <2>2. \A k \in 1 .. Len(s) : s[k] \in ToSet(t)
    BY <1>1 DEF ToSet
  <2>3. n \in ToSet(t)
    BY <1>1 DEF ToSet
  <2> QED  BY <1>1, <2>1, <2>2, <2>3 DEF ToSet
<1>3. IsInjective(t)
  BY <1>1 DEF ToSet, IsInjective
<1> QED  BY <1>1, <1>2, <1>3 DEF t

-----------------------------------------------------------------------------
(* Types.                                                                  *)

LEMMA CallsKept ==
  ASSUME Calls, NEW t \in Threads, NEW from, NEW to, Moves(t, from, to),
         t \in Switchers => OfSwitcher(t)', t \in Requests => OfRequest(t)',
         t \in Readers => OfReader(t)'
  PROVE  Calls'
  BY Kinds DEF Calls, Moves, OfSwitcher, OfRequest, OfReader

LEMMA RequestValues ==
  ASSUME DInv, Calls, Values, NEW q \in Requests,
         RequestKmalloc(q) \/ RequestFill(q) \/ RequestAdd(q)
           \/ RequestText(q) \/ RequestPrint(q) \/ RequestFree(q)
  PROVE  Calls' /\ Values'
<1> USE Kinds DEF RequestStep, nodeVars, textVars, Values
<1>0. /\ Tables /\ q \in Threads /\ own[q] \in Requests \cup {Null} /\ ask[q] \in Floors
      /\ q \notin Switchers /\ q \notin Readers
  BY DEF DInv, Calls, OfRequest
<1>1. ASSUME NEW from, NEW to \in {"fill", "add", "text", "print", "free", "done", "dead"},
             At(q, from, to), own' = own \/ \E g \in Requests \cup {Null} : Hold(q, g)
      PROVE  Calls'
  <2>1. Moves(q, from, to)
    BY <1>0, <1>1, ThreadMoves
  <2>2. OfRequest(q)'
    BY <1>0, <1>1, <2>1 DEF OfRequest, Moves, Hold, Tables
  <2> QED  BY <1>0, <2>1, <2>2, CallsKept
<1>2. CASE RequestKmalloc(q)
  <2>1. Calls'
    BY <1>1, <1>2 DEF RequestKmalloc
  <2> QED  BY <1>2, <2>1 DEF RequestKmalloc, Meet, Noted
<1>3. CASE RequestFill(q)
  <2>1. Calls'
    <3>1. PICK to \in {"fill", "add", "text", "print", "free", "done", "dead"} : At(q, "fill", to)
      BY <1>3 DEF RequestFill
    <3>2. own' = own
      BY <1>3 DEF RequestFill
    <3>3. own' = own \/ \E g \in Requests \cup {Null} : Hold(q, g)
      BY <3>2
    <3>4. to \in {"fill", "add", "text", "print", "free", "done", "dead"}
      OBVIOUS
    <3>5. At(q, "fill", to)
      BY <3>1
    <3> QED  BY ONLY <1>1, <3>3, <3>4, <3>5
  <2>2. start_floor' \in [Requests -> Floors]
    BY <1>0, <1>3 DEF RequestFill
  <2> QED  BY <1>3, <2>1, <2>2 DEF RequestFill
<1>4. CASE RequestAdd(q)
  <2>1. Calls'
    BY <1>1, <1>4 DEF RequestAdd
  <2>2. allfloors' \in [Floors -> Seq(Requests)] /\ standing' \subseteq Requests
    <3>1. PICK n \in {new_passenger, own[q]} :
            IF n = Null \/ ask[q] \notin ready THEN UNCHANGED <<allfloors, standing>>
            ELSE /\ allfloors' = [allfloors EXCEPT ![ask[q]] = Append(@, n)]
                 /\ standing' = standing \cup {q}
      BY <1>4 DEF RequestAdd
    <3>2. CASE allfloors' = allfloors /\ standing' = standing
      BY <3>2
    <3>3. CASE /\ n \in Requests /\ standing' = standing \cup {q}
               /\ allfloors' = [allfloors EXCEPT ![ask[q]] = Append(@, n)]
      <4>1. allfloors[ask[q]] \in Seq(Requests)
        BY <1>0
      <4>2. Append(allfloors[ask[q]], n) \in Seq(Requests)
        BY <3>3, <4>1, AppendProperties
      <4> QED  BY <3>3, <4>2
    <3> QED  BY <1>0, <3>1, <3>2, <3>3
  <2> QED  BY <1>4, <2>1, <2>2 DEF RequestAdd
<1>5. CASE RequestText(q)
  <2>1. Calls'
    BY <1>1, <1>5 DEF RequestText
  <2> QED  BY <1>5, <2>1 DEF RequestText, Noted
<1>6. CASE RequestPrint(q)
  <2>1. Calls'
    BY <1>1, <1>6 DEF RequestPrint
  <2> QED  BY <1>6, <2>1 DEF RequestPrint, Noted
<1>7. CASE RequestFree(q)
  <2>1. Calls'
    BY <1>1, <1>7 DEF RequestFree
  <2> QED  BY <1>7, <2>1 DEF RequestFree, Noted
<1> QED  BY <1>2, <1>3, <1>4, <1>5, <1>6, <1>7

LEMMA SwitchValues ==
  ASSUME DInv, Calls, Values, NEW s \in Switchers,
         StartCheck(s) \/ StartKmalloc(s) \/ StartFloor(s) \/ StartEnd(s)
           \/ StopCheck(s) \/ StopState(s) \/ StopStarted(s)
  PROVE  Calls' /\ Values'
<1> USE Kinds DEF SwitchStep, textVars, Values
<1>0. Tables /\ s \in Threads /\ s \notin Requests /\ s \notin Readers
  BY DEF DInv
<1>1. ASSUME NEW from, NEW to \in {"user", "init", "started", "stop", "stopped", "dead"},
             At(s, from, to), own' = own \/ \E g : Hold(s, g)
      PROVE  Calls'
  <2>1. Moves(s, from, to)
    BY <1>0, <1>1, ThreadMoves
  <2>2. OfSwitcher(s)'
    BY <1>1, <2>1 DEF OfSwitcher, Moves
  <2> QED  BY <1>0, <2>1, <2>2, CallsKept
<1>2. CASE StartCheck(s) \/ StopCheck(s)
  <2>1. Calls'
    BY <1>1, <1>2 DEF StartCheck, StopCheck
  <2> QED  BY <1>2, <2>1 DEF StartCheck, StopCheck, Meet, Noted
<1>3. CASE StartKmalloc(s)
  <2>1. Calls'
    BY <1>1, <1>3 DEF StartKmalloc
  <2> QED  BY <1>3, <2>1 DEF StartKmalloc, Meet, Noted
<1>4. CASE StartFloor(s)
  <2>1. Calls'
    BY <1>1, <1>4 DEF StartFloor
  <2>2. allfloors' \in [Floors -> Seq(Requests)]
    <3>1. \/ allfloors' = allfloors
          \/ \E k \in Floors : allfloors' = [allfloors EXCEPT ![k] = <<>>]
      BY <1>4 DEF StartFloor
    <3>2. <<>> \in Seq(Requests)
      BY EmptySeq
    <3> QED  BY <3>1, <3>2
  <2> QED  BY <1>4, <2>1, <2>2 DEF StartFloor
<1>5. CASE StartEnd(s) \/ StopState(s) \/ StopStarted(s)
  <2>1. Calls'
    BY <1>1, <1>5 DEF StartEnd, StopState, StopStarted
  <2> QED  BY <1>5, <2>1 DEF StartEnd, StopState, StopStarted
<1> QED  BY <1>2, <1>3, <1>4, <1>5

LEMMA ReadValues ==
  ASSUME DInv, Calls, Values, NEW r \in Readers, Open(r) \/ Read(r) \/ Release(r)
  PROVE  Calls' /\ Values'
<1> USE Kinds DEF ReadStep, nodeVars, Values
<1>1. ASSUME NEW from, NEW to \in {"user", "open", "end", "dead"}, At(r, from, to), own' = own
      PROVE  Calls'
  <2>1. Moves(r, from, to)
    BY <1>1, ThreadMoves DEF DInv
  <2>2. OfReader(r)'
    BY <1>1, <2>1 DEF OfReader, Moves
  <2> QED  BY <2>1, <2>2, CallsKept
<1>2. CASE Open(r)
  <2>1. Calls'
    BY <1>1, <1>2 DEF Open
  <2> QED  BY <1>2, <2>1 DEF Open, Meet, Noted
<1>3. CASE Read(r)
  <2>1. Calls'
    BY <1>1, <1>3 DEF Read
  <2>2. read_p' \in {0, 1}
    <3> HIDE DEF Values
    <3>1. read_p' = 1 - read_p
      BY <1>3 DEF Read
    <3>2. read_p = 0 \/ read_p = 1
      BY DEF Values
    <3> QED  BY <3>1, <3>2
  <2> QED  BY <1>3, <2>1, <2>2 DEF Read
<1>4. CASE Release(r)
  <2>1. Calls'
    BY <1>1, <1>4 DEF Release
  <2> QED  BY <1>4, <2>1 DEF Release
<1> QED  BY <1>2, <1>3, <1>4

-----------------------------------------------------------------------------
(* The lists, as long as calls do not overlap.                             *)

\* A step that leaves the lists alone, and with which nobody comes to or leaves
\* the loop of start_elevator, or comes to the node of another request.
LEMMA ListsKept ==
  ASSUME CalmLists, Single',
         UNCHANGED <<allfloors, standing, ask, start_floor>>,
         \A s \in Switchers : pc'[s] = "init" <=> pc[s] = "init",
         \A s \in Switchers : pc'[s] = "init" => own'[s] = own[s] /\ i' = i,
         \A q \in Requests : pc'[q] \in {"user", "fill", "add"} => pc[q] \in {"user", "fill", "add"},
         Filling'
  PROVE  CalmLists'
<1> USE DEF CalmLists
<1>1. Unlisted'
  BY DEF Unlisted
<1>2. Emptying'
  BY DEF Emptying
<1>3. Waiting'
  BY DEF Waiting, Floor
<1> QED  BY <1>1, <1>2, <1>3

\* While a request is in progress nobody else is, so that all floors are right.
LEMMA RequestAlone ==
  ASSUME CalmLists, NEW q \in Requests, Going(q)
  PROVE  /\ \A u \in Requests \cup Switchers : Going(u) => u = q
         /\ \A s \in Switchers : pc[s] # "init"
         /\ \A f \in Floors : Floor(f)
<1>1. \A u \in Requests \cup Switchers : Going(u) => u = q
  BY DEF CalmLists, Single
<1>2. \A s \in Switchers : pc[s] # "init"
  BY <1>1, Kinds DEF Going
<1> QED  BY <1>1, <1>2 DEF CalmLists, Waiting

LEMMA RequestLists ==
  ASSUME SInv, DInv, NEW q \in Requests, Calm',
         RequestKmalloc(q) \/ RequestFill(q) \/ RequestAdd(q)
           \/ RequestText(q) \/ RequestPrint(q) \/ RequestFree(q)
  PROVE  CalmLists'
<1> USE Kinds DEF SInv
<1>0. Tables /\ q \in Threads /\ q \notin Switchers /\ q \notin Readers /\ ask[q] \in Floors
  BY DEF DInv, Values
<1>1. Calm
  BY DEF Calm, RequestKmalloc, RequestFill, RequestAdd, RequestText, RequestPrint, RequestFree,
         Meet, Noted
<1>2. CalmLists
  BY <1>1
<1>3. ASSUME NEW from, NEW to, Moves(q, from, to), Going(q),
             UNCHANGED <<allfloors, standing, ask, start_floor, new_passenger>>,
             to \notin {"user", "fill", "add"}
      PROVE  CalmLists'
  <2>1. Single'
    BY <1>2, <1>3, SingleKept DEF CalmLists, Moves, Going
  <2>2. Filling'
    BY <1>2, <1>3, RequestAlone DEF Filling, Moves, Going
  <2>3. \A s \in Switchers : pc'[s] = pc[s] /\ own'[s] = own[s] /\ pc'[s] # "init"
    BY <1>0, <1>2, <1>3, RequestAlone DEF Moves
  <2>4. \A u \in Requests : pc'[u] \in {"user", "fill", "add"} =>
                              pc[u] \in {"user", "fill", "add"}
    BY <1>0, <1>3 DEF Moves
  <2> QED  BY <1>2, <1>3, <2>1, <2>2, <2>3, <2>4, ListsKept
<1>4. CASE RequestKmalloc(q)
  <2>1. Meet(q) /\ new_passenger' = q /\ Hold(q, q)
    BY <1>4 DEF RequestKmalloc, Noted, Calm
  <2>2. Moves(q, "user", "fill") /\ own'[q] = q
    BY <1>0, <1>4, <2>1, ThreadMoves DEF RequestKmalloc, RequestStep, Hold, Tables
  <2>3. Busy = {} /\ \A u \in Requests \cup Switchers : ~Going(u)
    BY <1>0, <2>1, MeetAlone
  <2>4. Single'
    BY <1>2, <2>2, <2>3, SingleKept DEF CalmLists
  <2>5. Filling'
    BY <2>1, <2>2, <2>3 DEF Filling, Moves, Going
  <2>6. \A s \in Switchers : pc'[s] = pc[s] /\ pc'[s] # "init"
    BY <1>0, <2>2, <2>3 DEF Moves, Going
  <2>7. \A u \in Requests : pc'[u] \in {"user", "fill", "add"} =>
                              pc[u] \in {"user", "fill", "add"}
    BY <1>0, <2>2 DEF Moves
  <2> QED  BY <1>2, <1>4, <2>4, <2>5, <2>6, <2>7, ListsKept DEF RequestKmalloc, RequestStep
<1>5. CASE RequestFill(q)
  <2>1. pc[q] = "fill" /\ Going(q) /\ own' = own
    BY <1>5 DEF RequestFill, RequestStep, At, Going
  <2>2. new_passenger = q /\ own[q] = q
    BY <1>2, <2>1 DEF CalmLists, Filling
  <2>3. /\ start_floor' = [start_floor EXCEPT ![q] = ask[q]]
        /\ UNCHANGED <<allfloors, standing, ask, new_passenger>>
        /\ \E to \in {"add", "done"} : At(q, "fill", to)
    BY <1>5, <2>2 DEF RequestFill, RequestStep
  <2>4. PICK to \in {"add", "done"} : Moves(q, "fill", to)
    BY <1>0, <2>1, <2>3, ThreadMoves
  <2>5. Single'
    BY <1>2, <2>4, SingleKept DEF CalmLists
  <2>6. \A u \in Requests : u # q => start_floor'[u] = start_floor[u]
    BY <2>3 DEF Values
  <2>7. Filling'
    <3>1. \A u \in Requests : u # q => ~Going(u)
      BY <1>2, <2>1, RequestAlone
    <3>2. start_floor'[q] = ask[q]
      BY <2>3 DEF Values
    <3> QED  BY <2>1, <2>2, <2>3, <2>4, <3>1, <3>2 DEF Filling, Moves, Going
  <2>8. Unlisted'
    BY <1>0, <1>2, <2>3, <2>4 DEF CalmLists, Unlisted, Moves
  <2>9. \A s \in Switchers : pc'[s] # "init"
    BY <1>0, <1>2, <2>1, <2>4, RequestAlone DEF Moves
  <2>10. \A f \in Floors : Floor(f)'
    <3> TAKE f \in Floors
    <3>1. Floor(f) /\ q \notin ToSet(allfloors[f])
      BY <1>2, <2>1, RequestAlone DEF CalmLists, Unlisted
    <3>2. ToSet(allfloors[f]) \subseteq Requests
      BY <3>1 DEF Floor, Values
    <3> QED  BY <2>3, <2>6, <3>1, <3>2 DEF Floor
  <2> QED  BY <2>5, <2>7, <2>8, <2>9, <2>10 DEF CalmLists, Emptying, Waiting
<1>6. CASE RequestAdd(q)
  <2>1. pc[q] = "add" /\ Going(q)
    BY <1>6 DEF RequestAdd, RequestStep, At, Going
  <2>2. new_passenger = q /\ own[q] = q /\ start_floor[q] = ask[q]
    BY <1>2, <2>1 DEF CalmLists, Filling
  <2>3. /\ UNCHANGED <<start_floor, ask, new_passenger>>
        /\ \/ At(q, "add", "dead") /\ UNCHANGED <<allfloors, standing>>
           \/ /\ At(q, "add", "text") /\ standing' = standing \cup {q}
              /\ allfloors' = [allfloors EXCEPT ![ask[q]] = Append(@, q)]
        /\ Hold(q, Null)
    BY <1>6, <2>2 DEF RequestAdd, RequestStep
  <2>4. CASE At(q, "add", "dead") /\ UNCHANGED <<allfloors, standing>>
    BY <1>0, <1>3, <2>1, <2>3, <2>4, ThreadMoves
  <2>5. CASE /\ At(q, "add", "text") /\ standing' = standing \cup {q}
             /\ allfloors' = [allfloors EXCEPT ![ask[q]] = Append(@, q)]
    <3>1. Moves(q, "add", "text")
      BY <1>0, <2>3, <2>5, ThreadMoves
    <3>2. Single'
      BY <1>2, <3>1, SingleKept DEF CalmLists
    <3>3. PICK g \in Floors : g = ask[q]
      BY <1>0
    <3>4. \A f \in Floors : Floor(f) /\ q \notin ToSet(allfloors[f]) /\ q \notin standing
      BY <1>2, <2>1, RequestAlone DEF CalmLists, Unlisted
    <3>5. /\ ToSet(allfloors'[g]) = ToSet(allfloors[g]) \cup {q} /\ IsInjective(allfloors'[g])
          /\ \A f \in Floors : f # g => allfloors'[f] = allfloors[f]
      <4>1. allfloors[g] \in Seq(Requests) /\ IsInjective(allfloors[g])
            /\ q \notin ToSet(allfloors[g])
        BY <3>4 DEF Values, Floor
      <4>2. allfloors'[g] = Append(allfloors[g], q)
            /\ \A f \in Floors : f # g => allfloors'[f] = allfloors[f]
        BY <2>5, <3>3 DEF Values
      <4> QED  BY <4>1, <4>2, AppendedSet
    <3>6. \A f \in Floors : Floor(f)'
      <4> TAKE f \in Floors
      <4>1. CASE f = g
        BY <2>2, <2>3, <2>5, <3>3, <3>4, <3>5, <4>1 DEF Floor
      <4>2. CASE f # g
        BY <2>3, <2>5, <3>3, <3>4, <3>5, <4>2 DEF Floor
      <4> QED  BY <4>1, <4>2
    <3>7. Unlisted'
      <4> SUFFICES ASSUME NEW u \in Requests, pc'[u] \in {"user", "fill", "add"}
                   PROVE  u \notin standing' /\ \A f \in Floors : u \notin ToSet(allfloors[f])'
        BY DEF Unlisted
      <4>1. u # q /\ pc[u] \in {"user", "fill", "add"}
        BY <1>0, <3>1 DEF Moves
      <4>2. u \notin standing /\ \A f \in Floors : u \notin ToSet(allfloors[f])
        BY <1>2, <4>1 DEF CalmLists, Unlisted
      <4> QED  BY <2>5, <3>5, <4>1, <4>2
    <3>8. Filling'
      BY <1>2, <2>1, <3>1, RequestAlone DEF Filling, Moves, Going
    <3>9. Emptying'
      BY <1>0, <1>2, <2>1, <3>1, RequestAlone DEF Emptying, Moves
    <3> QED  BY <3>2, <3>6, <3>7, <3>8, <3>9 DEF CalmLists, Waiting
  <2> QED  BY <2>3, <2>4, <2>5
<1>7. CASE RequestText(q)
  <2>1. Moves(q, "text", "print") /\ Going(q)
    <3>1. At(q, "text", "print") /\ own' = own
      BY <1>7 DEF RequestText, RequestStep
    <3> QED  BY <1>0, <3>1, ThreadMoves DEF Moves, Going
  <2> QED  BY <1>3, <1>7, <2>1 DEF RequestText, RequestStep, nodeVars
<1>8. CASE RequestPrint(q)
  <2>1. PICK to \in {"dead", "free", "print"} : At(q, "print", to)
    BY <1>8 DEF RequestPrint, RequestStep
  <2>2. Moves(q, "print", to) /\ Going(q)
    BY <1>0, <1>8, <2>1, ThreadMoves DEF RequestPrint, Moves, Going
  <2> QED  BY <1>3, <1>8, <2>1, <2>2 DEF RequestPrint, RequestStep, nodeVars
<1>9. CASE RequestFree(q)
  <2>1. Moves(q, "free", "done") /\ Going(q)
    BY <1>0, <1>9, ThreadMoves DEF RequestFree, RequestStep, Moves, Going
  <2> QED  BY <1>3, <1>9, <2>1 DEF RequestFree, RequestStep, nodeVars
<1> QED  BY <1>4, <1>5, <1>6, <1>7, <1>8, <1>9

LEMMA SwitchLists ==
  ASSUME SInv, DInv, NEW s \in Switchers, Calm',
         StartCheck(s) \/ StartKmalloc(s) \/ StartFloor(s) \/ StartEnd(s)
           \/ StopCheck(s) \/ StopState(s) \/ StopStarted(s)
  PROVE  CalmLists'
<1> USE Kinds DEF SInv
<1>0. Tables /\ s \in Threads /\ s \notin Requests /\ s \notin Readers
  BY DEF DInv
<1>1. Calm
  BY DEF Calm, StartCheck, StartKmalloc, StartFloor, StartEnd, StopCheck, StopState, StopStarted,
         Meet, Noted
<1>2. CalmLists
  BY <1>1
<1>3. ASSUME NEW from, NEW to, Moves(s, from, to), from # "init", to # "init",
             UNCHANGED <<allfloors, standing, ask, start_floor, new_passenger, own, i>>,
             \/ from \notin {"user", "done", "dead"} \/ Busy = {}
             \/ to \in {"user", "done", "dead"}
      PROVE  CalmLists'
  <2>1. Single'
    BY <1>2, <1>3, SingleKept DEF CalmLists
  <2>2. \A u \in Threads : u # s => pc'[u] = pc[u]
    BY <1>3 DEF Moves
  <2>3. Filling'
    BY <1>0, <1>2, <1>3, <2>2 DEF CalmLists, Filling
  <2>4. \A u \in Switchers : pc'[u] = "init" <=> pc[u] = "init"
    BY <1>3 DEF Moves
  <2> QED  BY <1>0, <1>2, <1>3, <2>1, <2>2, <2>3, <2>4, ListsKept
<1>4. CASE StartCheck(s)
  <2>1. Moves(s, "user", "user")
    BY <1>0, <1>4, ThreadMoves DEF StartCheck, SwitchStep
  <2> QED  BY <1>3, <1>4, <2>1 DEF StartCheck, SwitchStep
<1>5. CASE StopCheck(s)
  <2>1. Busy = {} /\ \E to \in {"stop", "user"} : At(s, "user", to)
    BY <1>0, <1>5, MeetAlone DEF StopCheck, SwitchStep
  <2>2. PICK to \in {"stop", "user"} : Moves(s, "user", to)
    BY <1>0, <1>5, <2>1, ThreadMoves DEF StopCheck
  <2> QED  BY <1>3, <1>5, <2>1, <2>2 DEF StopCheck, SwitchStep
<1>6. CASE StartEnd(s)
  <2>1. Moves(s, "started", "user")
    BY <1>0, <1>6, ThreadMoves DEF StartEnd, SwitchStep
  <2> QED  BY <1>3, <1>6, <2>1 DEF StartEnd, SwitchStep
<1>7. CASE StopState(s)
  <2>1. \E to \in {"stopped", "dead"} : At(s, "stop", to)
    BY <1>7 DEF StopState, SwitchStep
  <2>2. PICK to \in {"stopped", "dead"} : Moves(s, "stop", to)
    BY <1>0, <1>7, <2>1, ThreadMoves DEF StopState
  <2> QED  BY <1>3, <1>7, <2>2 DEF StopState, SwitchStep
<1>8. CASE StopStarted(s)
  <2>1. Moves(s, "stopped", "user")
    BY <1>0, <1>8, ThreadMoves DEF StopStarted, SwitchStep
  <2> QED  BY <1>3, <1>8, <2>1 DEF StopStarted, SwitchStep
\* The list of standing requests is empty, and no floor has been emptied yet.
<1>9. CASE StartKmalloc(s)
  <2>1. /\ Meet(s) /\ At(s, "user", "init") /\ i' = 1 /\ Hold(s, 1) /\ standing' = {}
        /\ UNCHANGED <<allfloors, ask, start_floor, new_passenger>>
    BY <1>9 DEF StartKmalloc, SwitchStep, Noted, Calm
  <2>2. Busy = {} /\ \A u \in Requests \cup Switchers : ~Going(u)
    BY <1>0, <2>1, MeetAlone
  <2>3. Moves(s, "user", "init") /\ own'[s] = 1
    BY <1>0, <2>1, ThreadMoves DEF Hold, Tables
  <2>4. Single'
    BY <1>2, <2>2, <2>3, SingleKept DEF CalmLists
  <2>5. Unlisted' /\ Filling'
    BY <1>0, <1>2, <2>1, <2>3 DEF CalmLists, Unlisted, Filling, Moves
  <2>6. Emptying'
    <3>1. \A u \in Switchers : pc'[u] = "init" => u = s
      BY <2>2, <2>3 DEF Moves, Going
    <3>2. \A f \in Floors : ~(f < 1)
      BY DEF Floors
    <3> QED  BY <2>1, <2>3, <3>1, <3>2 DEF Emptying
  <2>7. Waiting'
    BY <2>3 DEF Waiting, Moves
  <2> QED  BY <2>4, <2>5, <2>6, <2>7 DEF CalmLists
<1>10. CASE StartFloor(s)
  <2>1. pc[s] = "init" /\ Going(s)
    BY <1>10 DEF StartFloor, SwitchStep, At, Going
  <2>2. /\ own[s] = i /\ standing = {} /\ \A f \in Floors : f < i => allfloors[f] = <<>>
    BY <1>2, <2>1 DEF CalmLists, Emptying
  <2>3. \A u \in Requests \cup Switchers : Going(u) => u = s
    BY <1>2, <2>1 DEF CalmLists, Single
  <2>4. UNCHANGED <<standing, ask, start_floor, new_passenger>>
    BY <1>10 DEF StartFloor, SwitchStep
  <2>5. CASE i \in Floors
    <3>1. /\ At(s, "init", "init") /\ allfloors' = [allfloors EXCEPT ![i] = <<>>]
          /\ i' = i + 1 /\ Hold(s, i + 1)
      BY <1>10, <2>2, <2>5 DEF StartFloor, SwitchStep
    <3>2. Moves(s, "init", "init") /\ own'[s] = i + 1
      BY <1>0, <3>1, ThreadMoves DEF Hold, Tables
    <3>3. Single'
      BY <1>2, <3>2, SingleKept DEF CalmLists
    <3>4. \A f \in Floors : allfloors'[f] = allfloors[f] \/ allfloors'[f] = <<>>
      BY <3>1 DEF Values
    <3>5. ToSet(<<>>) = {}
      BY DEF ToSet
    <3>6. Unlisted'
      BY <1>0, <1>2, <2>4, <3>2, <3>4, <3>5 DEF CalmLists, Unlisted, Moves
    <3>7. Filling'
      BY <1>0, <1>2, <2>3, <2>4, <3>2 DEF Filling, Moves, Going
    <3>8. Emptying'
      <4>1. \A u \in Switchers : pc'[u] = "init" => u = s
        BY <2>3, <3>2 DEF Moves, Going
      <4>2. \A f \in Floors : f < i + 1 => allfloors'[f] = <<>>
        <5> TAKE f \in Floors
        <5>1. f < i + 1 => f < i \/ f = i
          BY <2>5, DraftAssumption DEF Floors
        <5>2. allfloors'[i] = <<>>
          BY <2>5, <3>1 DEF Values
        <5> QED  BY <2>2, <3>4, <5>1, <5>2
      <4> QED  BY <2>2, <2>4, <3>1, <3>2, <4>1, <4>2 DEF Emptying
    <3>9. Waiting'
      BY <3>2 DEF Waiting, Moves
    <3> QED  BY <3>3, <3>6, <3>7, <3>8, <3>9 DEF CalmLists
  <2>6. CASE i \notin Floors
    <3>1. At(s, "init", "started") /\ UNCHANGED <<allfloors, i>> /\ Hold(s, Null)
      BY <1>10, <2>2, <2>6 DEF StartFloor, SwitchStep
    <3>2. Moves(s, "init", "started")
      BY <1>0, <3>1, ThreadMoves
    <3>3. Single'
      BY <1>2, <3>2, SingleKept DEF CalmLists
    <3>4. Unlisted' /\ Filling'
      BY <1>0, <1>2, <2>3, <2>4, <3>1, <3>2 DEF CalmLists, Unlisted, Filling, Moves, Going
    <3>5. Emptying'
      BY <2>3, <3>2 DEF Emptying, Moves, Going
    <3>6. \A f \in Floors : allfloors[f] = <<>>
      <4>1. i = lastfloor + 1
        BY <2>6, DraftAssumption DEF DInv, Before, Floors
      <4> QED  BY <2>2, <4>1, DraftAssumption DEF Floors
    <3>7. ToSet(<<>>) = {} /\ IsInjective(<<>>)
      BY DEF ToSet, IsInjective
    <3>8. \A f \in Floors : Floor(f)'
      BY <2>2, <2>4, <3>1, <3>6, <3>7 DEF Floor
    <3> QED  BY <3>3, <3>4, <3>5, <3>8 DEF CalmLists, Waiting
  <2> QED  BY <2>5, <2>6
<1> QED  BY <1>4, <1>5, <1>6, <1>7, <1>8, <1>9, <1>10

LEMMA ReadLists ==
  ASSUME SInv, DInv, NEW r \in Readers, Calm', Open(r) \/ Read(r) \/ Release(r)
  PROVE  CalmLists'
<1> USE Kinds DEF SInv
<1>1. Calm
  BY DEF Calm, Open, Read, Release, Meet, Noted
<1>2. /\ \A u \in Requests \cup Switchers : pc'[u] = pc[u]
      /\ UNCHANGED <<nodeVars, i, ask, own, standing>>
  BY DEF DInv, Tables, Open, Read, Release, ReadStep, At
<1>3. Single' /\ Filling'
  BY <1>1, <1>2 DEF CalmLists, Single, Going, Filling, nodeVars
<1> QED  BY <1>1, <1>2, <1>3, ListsKept DEF nodeVars

-----------------------------------------------------------------------------
(* The calls, as long as none comes before the first start.                *)

\* Where everything stays provided that t finds it, when it begins.
LEMMA ProvidedKept ==
  ASSUME Provided, NEW t \in Threads, NEW from, NEW to, Moves(t, from, to),
         e1' \/ e1' = e1, ready = Floors => ready' = Floors,
         to = "user" \/ e1',
         to = "user" \/ t \in Switchers \/ ready' = Floors,
         started' = 1 => e1'
  PROVE  Provided'
<1>1. \A u \in Threads : u # t => pc'[u] = pc[u]
  BY DEF Moves
<1> QED  BY <1>1, Kinds DEF Provided, Moves

LEMMA AliveKept ==
  ASSUME Alive, NEW t \in Threads, NEW from, NEW to, Moves(t, from, to), to # "dead",
         "misused" \in met' => "misused" \in met
  PROVE  Alive'
  BY DEF Alive, Moves

\* What is printed concerns only the request that prints.
LEMMA TextsKept ==
  ASSUME Texts, NEW t \in Threads, NEW from, NEW to, Moves(t, from, to),
         UNCHANGED <<heap, message_2>>, from \notin {"print", "free"}, to \notin {"print", "free"},
         i' = i \/ \A q \in Requests : pc'[q] # "print"
  PROVE  Texts'
<1>1. \A q \in Requests : /\ pc'[q] \in {"print", "free"} <=> pc[q] \in {"print", "free"}
                          /\ pc'[q] = "print" => pc[q] = "print"
  BY Kinds DEF Moves
<1> QED  BY <1>1 DEF Texts

LEMMA ReadRuns ==
  ASSUME SInv, DInv, NEW r \in Readers, Orderly', Open(r) \/ Read(r) \/ Release(r)
  PROVE  OrderlyRuns'
<1> USE Kinds DEF OrderlyRuns, nodeVars
<1>0. Tables /\ r \in Threads /\ r \notin Switchers /\ Provided /\ Texts /\ Alive
  <2>1. Orderly
    BY DEF Orderly, Calm, Open, Read, Release, Meet, Noted
  <2> QED  BY <2>1 DEF DInv, SInv
<1>1. CASE Open(r)
  <2>1. Meet(r) /\ ReadStep(r, "user", "open") /\ own' = own
    BY <1>1 DEF Open, Noted, Orderly, Calm, ReadStep
  <2>2. Moves(r, "user", "open") /\ e1 /\ ready = Floors
        /\ ("misused" \in met' => "misused" \in met)
    BY <1>0, <2>1, ThreadMoves, MeetOrderly DEF ReadStep
  <2>3. UNCHANGED <<e1, started, ready, heap, message_2, i>>
    BY <2>1 DEF ReadStep
  <2> QED  BY <1>0, <2>2, <2>3, ProvidedKept, AliveKept, TextsKept DEF Provided
<1>2. CASE Read(r)
  <2>1. pc[r] = "open" /\ own' = own /\ UNCHANGED <<e1, started, ready, heap, message_2, i, met>>
    BY <1>2 DEF Read, ReadStep, At
  <2>2. e1 /\ ready = Floors
    BY <1>0, <2>1 DEF Provided
  <2>3. \E to \in {"end", "open"} : At(r, "open", to)
    BY <1>2, <2>2 DEF Read, ReadStep
  <2>4. PICK to \in {"end", "open"} : Moves(r, "open", to)
    BY <1>0, <2>1, <2>3, ThreadMoves
  <2> QED  BY <1>0, <2>1, <2>2, <2>4, ProvidedKept, AliveKept, TextsKept DEF Provided
<1>3. CASE Release(r)
  <2>1. At(r, "end", "user") /\ own' = own
        /\ UNCHANGED <<e1, started, ready, heap, message_2, i, met>>
    BY <1>3 DEF Release, ReadStep
  <2>2. Moves(r, "end", "user")
    BY <1>0, <2>1, ThreadMoves
  <2> QED  BY <1>0, <2>1, <2>2, ProvidedKept, AliveKept, TextsKept DEF Provided
<1> QED  BY <1>1, <1>2, <1>3

LEMMA SwitchRuns ==
  ASSUME SInv, DInv, NEW s \in Switchers, Orderly',
         StartCheck(s) \/ StartKmalloc(s) \/ StartFloor(s) \/ StartEnd(s)
           \/ StopCheck(s) \/ StopState(s) \/ StopStarted(s)
  PROVE  OrderlyRuns'
<1> USE Kinds DEF OrderlyRuns
<1>0. Tables /\ s \in Threads /\ s \notin Requests /\ s \notin Readers
      /\ Provided /\ Texts /\ Alive /\ CalmLists /\ Calm'
  <2>1. Orderly
    BY DEF Orderly, Calm, StartCheck, StartKmalloc, StartFloor, StartEnd, StopCheck, StopState,
           StopStarted, Meet, Noted
  <2> QED  BY <2>1 DEF DInv, SInv, Orderly
<1>1. UNCHANGED <<heap, message_2>> /\ ("misused" \in met' => "misused" \in met)
  <2>1. UNCHANGED <<heap, message_2>>
    <3>1. \A from, to : SwitchStep(s, from, to) => UNCHANGED <<heap, message_2>>
      BY DEF SwitchStep, textVars
    <3>2. \E from, to : SwitchStep(s, from, to)
      <4>1. CASE StartFloor(s)
        BY <4>1 DEF StartFloor
      <4>2. CASE StartKmalloc(s)
        BY <4>2 DEF StartKmalloc
      <4>3. CASE StartCheck(s) \/ StopCheck(s) \/ StartEnd(s) \/ StopState(s) \/ StopStarted(s)
        BY <4>3 DEF StartCheck, StopCheck, StartEnd, StopState, StopStarted
      <4> QED  BY <4>1, <4>2, <4>3
    <3> QED  BY <3>1, <3>2
  <2>2. Meet(s) \/ Noted({"no memory"}) \/ met' = met
    <3>1. CASE StartCheck(s) \/ StartKmalloc(s) \/ StopCheck(s)
      BY <3>1 DEF StartCheck, StartKmalloc, StopCheck
    <3>2. CASE StartFloor(s)
      BY <3>2 DEF StartFloor
    <3>3. CASE StartEnd(s) \/ StopState(s) \/ StopStarted(s)
      BY <3>3 DEF StartEnd, StopState, StopStarted
    <3> QED  BY <3>1, <3>2, <3>3
  <2>3. Meet(s) => ("misused" \in met' => "misused" \in met)
    BY <1>0 DEF Meet, Noted, Calm
  <2>4. ~Noted({"no memory"})
    BY <1>0 DEF Noted, Calm
  <2> QED  BY <2>1, <2>2, <2>3, <2>4
<1>2. CASE StartCheck(s)
  <2>1. Moves(s, "user", "user") /\ UNCHANGED <<e1, started, ready, i>>
    BY <1>0, <1>2, ThreadMoves DEF StartCheck, SwitchStep
  <2> QED  BY <1>0, <1>1, <2>1, ProvidedKept, AliveKept, TextsKept DEF Provided
<1>3. CASE StopCheck(s)
  <2>1. UNCHANGED <<e1, started, ready, i, own>>
        /\ At(s, "user", IF started = 1 THEN "stop" ELSE "user")
    BY <1>3 DEF StopCheck, SwitchStep
  <2>2. CASE started = 1
    <3>1. Moves(s, "user", "stop") /\ e1
      BY <1>0, <2>1, <2>2, ThreadMoves DEF Provided
    <3> QED  BY <1>0, <1>1, <2>1, <3>1, ProvidedKept, AliveKept, TextsKept
  <2>3. CASE started # 1
    <3>1. Moves(s, "user", "user")
      BY <1>0, <2>1, <2>3, ThreadMoves
    <3> QED  BY <1>0, <1>1, <2>1, <3>1, ProvidedKept, AliveKept, TextsKept DEF Provided
  <2> QED  BY <2>2, <2>3
<1>4. CASE StartEnd(s)
  <2>1. Moves(s, "started", "user") /\ UNCHANGED <<e1, ready, i>> /\ started' = 1
    BY <1>0, <1>4, ThreadMoves DEF StartEnd, SwitchStep
  <2>2. e1
    BY <1>0, <2>1 DEF Provided, Moves
  <2> QED  BY <1>0, <1>1, <2>1, <2>2, ProvidedKept, AliveKept, TextsKept
<1>5. CASE StopState(s)
  <2>1. e1
    BY <1>0, <1>5 DEF StopState, SwitchStep, At, Provided
  <2>2. Moves(s, "stop", "stopped") /\ UNCHANGED <<e1, started, ready, i>>
    BY <1>0, <1>5, <2>1, ThreadMoves DEF StopState, SwitchStep
  <2> QED  BY <1>0, <1>1, <2>1, <2>2, ProvidedKept, AliveKept, TextsKept
<1>6. CASE StopStarted(s)
  <2>1. Moves(s, "stopped", "user") /\ UNCHANGED <<e1, ready, i>> /\ started' = 0
    BY <1>0, <1>6, ThreadMoves DEF StopStarted, SwitchStep
  <2> QED  BY <1>0, <1>1, <2>1, ProvidedKept, AliveKept, TextsKept
<1>7. CASE StartKmalloc(s)
  <2>1. /\ Meet(s) /\ At(s, "user", "init") /\ Hold(s, 1)
        /\ e1' = TRUE /\ UNCHANGED <<started, ready>>
    BY <1>0, <1>7 DEF StartKmalloc, SwitchStep, Noted, Calm
  <2>2. Moves(s, "user", "init")
    BY <1>0, <2>1, ThreadMoves
  <2>3. \A q \in Requests : pc'[q] # "print"
    BY <1>0, <2>1, <2>2, MeetAlone DEF Moves, Going
  <2> QED  BY <1>0, <1>1, <2>1, <2>2, <2>3, ProvidedKept, AliveKept, TextsKept
<1>8. CASE StartFloor(s)
  <2>1. pc[s] = "init" /\ Going(s) /\ UNCHANGED <<e1, started>>
    BY <1>8 DEF StartFloor, SwitchStep, At, Going
  <2>2. ready = Floors => ready' = Floors
    BY <1>8 DEF StartFloor
  <2>3. \E to \in {"init", "started"} : At(s, "init", to) /\ \E g : Hold(s, g)
    BY <1>8 DEF StartFloor, SwitchStep
  <2>4. PICK to \in {"init", "started"} : Moves(s, "init", to)
    BY <1>0, <2>3, ThreadMoves
  <2>5. \A q \in Requests : pc'[q] # "print"
    BY <1>0, <2>1, <2>4 DEF CalmLists, Single, Moves, Going
  <2> QED  BY <1>0, <1>1, <2>1, <2>2, <2>4, <2>5, ProvidedKept, AliveKept, TextsKept
           DEF Provided
<1> QED  BY <1>2, <1>3, <1>4, <1>5, <1>6, <1>7, <1>8

LEMMA RequestRuns ==
  ASSUME SInv, DInv, NEW q \in Requests, Orderly',
         RequestKmalloc(q) \/ RequestFill(q) \/ RequestAdd(q)
           \/ RequestText(q) \/ RequestPrint(q) \/ RequestFree(q)
  PROVE  OrderlyRuns'
<1> USE Kinds DEF OrderlyRuns
<1>0. /\ Tables /\ q \in Threads /\ q \notin Switchers /\ q \notin Readers
      /\ Provided /\ Texts /\ Alive /\ CalmLists /\ Calm' /\ ask[q] \in Floors
  <2>1. Orderly
    BY DEF Orderly, Calm, RequestKmalloc, RequestFill, RequestAdd, RequestText, RequestPrint,
           RequestFree, Meet, Noted
  <2> QED  BY <2>1 DEF DInv, SInv, Orderly, Values
<1>1. UNCHANGED <<e1, started, ready>>
  <2>1. ready' = ready
    BY DEF RequestKmalloc, RequestFill, RequestAdd, RequestText, RequestPrint, RequestFree, nodeVars
  <2>2. \A from, to : RequestStep(q, from, to) => UNCHANGED <<e1, started>>
    BY DEF RequestStep
  <2>3. \E from, to : RequestStep(q, from, to)
    BY DEF RequestKmalloc, RequestFill, RequestAdd, RequestText, RequestPrint, RequestFree
  <2> QED  BY <2>1, <2>2, <2>3
<1>2. ASSUME NEW from \in {"fill", "add", "text", "print", "free"}, NEW to, Moves(q, from, to)
      PROVE  Provided' /\ e1 /\ ready = Floors
  <2>1. e1 /\ ready = Floors
    BY <1>0, <1>2 DEF Provided, Moves
  <2> QED  BY <1>0, <1>1, <1>2, <2>1, ProvidedKept DEF Provided
<1>3. CASE RequestKmalloc(q)
  <2>1. /\ Meet(q) /\ At(q, "user", "fill") /\ Hold(q, q) /\ UNCHANGED <<heap, message_2, i>>
    BY <1>0, <1>3 DEF RequestKmalloc, RequestStep, Noted, Calm
  <2>2. Moves(q, "user", "fill")
    BY <1>0, <2>1, ThreadMoves
  <2>3. e1 /\ ready = Floors /\ ("misused" \in met' => "misused" \in met)
    BY <1>0, <2>1, MeetOrderly
  <2> QED  BY <1>0, <1>1, <2>1, <2>2, <2>3, ProvidedKept, AliveKept, TextsKept
<1>4. CASE RequestFill(q)
  <2>1. new_passenger = q /\ own[q] = q
    BY <1>0, <1>4 DEF RequestFill, RequestStep, At, CalmLists, Filling
  <2>2. (\E to \in {"add", "done"} : At(q, "fill", to)) /\ UNCHANGED <<heap, message_2, i, own, met>>
    BY <1>4, <2>1 DEF RequestFill, RequestStep
  <2>3. PICK to \in {"add", "done"} : Moves(q, "fill", to)
    BY <1>0, <2>2, ThreadMoves
  <2> QED  BY <1>0, <1>2, <2>2, <2>3, AliveKept, TextsKept
<1>5. CASE RequestAdd(q)
  <2>1. new_passenger = q /\ own[q] = q /\ pc[q] = "add"
    BY <1>0, <1>5 DEF RequestAdd, RequestStep, At, CalmLists, Filling
  <2>2. ready = Floors
    BY <1>0, <2>1 DEF Provided
  <2>3. At(q, "add", "text") /\ Hold(q, Null) /\ UNCHANGED <<heap, message_2, i, met>>
    BY <1>0, <1>5, <2>1, <2>2 DEF RequestAdd, RequestStep
  <2>4. Moves(q, "add", "text")
    BY <1>0, <2>3, ThreadMoves
  <2> QED  BY <1>0, <1>2, <2>3, <2>4, AliveKept, TextsKept
<1>6. CASE RequestText(q)
  <2>1. /\ At(q, "text", "print") /\ own' = own /\ message_2' = q /\ heap' = heap \cup {q}
        /\ i' = 1 /\ met' = met
    BY <1>0, <1>6 DEF RequestText, RequestStep, Noted, Calm
  <2>2. Moves(q, "text", "print")
    BY <1>0, <2>1, ThreadMoves
  <2>3. \A u \in Requests : u # q => pc'[u] = pc[u] /\ ~Going(u)
    BY <1>0, <2>2, RequestAlone DEF Moves, Going
  <2>4. 1 \in Floors
    BY DraftAssumption DEF Floors
  <2>5. Texts'
    BY <1>0, <2>1, <2>2, <2>3, <2>4 DEF Texts, Moves, Going
  <2> QED  BY <1>0, <1>2, <2>1, <2>2, <2>5, AliveKept
<1>7. CASE RequestPrint(q)
  <2>1. pc[q] = "print" /\ Going(q)
    BY <1>7 DEF RequestPrint, RequestStep, At, Going
  <2>2. /\ message_2 = q /\ q \in heap /\ i \in Floors /\ ready = Floors
        /\ \A u \in Requests : u # q => ~Going(u)
    BY <1>0, <2>1, RequestAlone DEF Texts, Provided
  \* Whoever is on a floor is there once, and nowhere else.
  <2>3. ~Endless
    <3> SUFFICES ASSUME NEW f \in Floors, NEW g \in Floors, NEW j \in DOMAIN allfloors[f],
                        NEW k \in DOMAIN allfloors[g], allfloors[f][j] = allfloors[g][k]
                 PROVE  f = g /\ j = k
      BY DEF Endless
    <3>1. Floor(f) /\ Floor(g)
      BY <1>0, <2>1, RequestAlone
    <3>2. allfloors[f][j] \in ToSet(allfloors[f]) /\ allfloors[g][k] \in ToSet(allfloors[g])
      BY DEF ToSet
    <3>3. f = g
      BY <3>1, <3>2 DEF Floor
    <3> QED  BY <3>1, <3>3 DEF Floor, IsInjective
  <2>4. ~Fatal
    BY <2>2, <2>3 DEF Fatal
  <2>5. /\ At(q, "print", IF i = lastfloor THEN "free" ELSE "print")
        /\ i' = i + 1 /\ UNCHANGED <<own, heap, message_2, met>>
    BY <1>0, <1>7, <2>2, <2>4 DEF RequestPrint, RequestStep, Noted, Calm
  <2>6. PICK to \in {"free", "print"} : Moves(q, "print", to) /\ (i = lastfloor => to = "free")
    BY <1>0, <2>5, ThreadMoves
  <2>7. i # lastfloor => i' \in Floors
    BY <2>2, <2>5, DraftAssumption DEF Floors
  <2>8. Texts'
    BY <1>0, <2>1, <2>2, <2>5, <2>6, <2>7 DEF Texts, Moves, Going
  <2> QED  BY <1>0, <1>2, <2>5, <2>6, <2>8, AliveKept
<1>8. CASE RequestFree(q)
  <2>1. pc[q] = "free" /\ Going(q)
    BY <1>8 DEF RequestFree, RequestStep, At, Going
  <2>2. /\ message_2 = q /\ q \in heap /\ \A u \in Requests : u # q => ~Going(u)
    BY <1>0, <2>1, RequestAlone DEF Texts
  <2>3. /\ At(q, "free", "done") /\ heap' = heap \ {q} /\ UNCHANGED <<own, message_2, met>>
    BY <1>0, <1>8, <2>2 DEF RequestFree, RequestStep, Noted, Calm
  <2>4. Moves(q, "free", "done")
    BY <1>0, <2>3, ThreadMoves
  <2>5. Texts'
    BY <1>0, <2>2, <2>3, <2>4 DEF Texts, Moves, Going
  <2> QED  BY <1>0, <1>2, <2>3, <2>4, <2>5, AliveKept
<1> QED  BY <1>3, <1>4, <1>5, <1>6, <1>7, <1>8

-----------------------------------------------------------------------------
(* Theorems about calls that do not overlap.                               *)

LEMMA NextSInv == SInv /\ DInv /\ [Next]_vars => SInv'
<1> SUFFICES ASSUME SInv, DInv, [Next]_vars PROVE SInv'
  OBVIOUS
<1>1. ASSUME UNCHANGED <<e1, started, nodeVars, textVars, i, pc, ask, own, standing, met>>,
             load' \in {"out", "stubs", "write", "live", "dead", "gone"},
             state' \in {"OFFLINE", "IDLE"}
      PROVE  SInv'
  <2> USE <1>1 DEF SInv, nodeVars, textVars
  <2>1. Calls' /\ Values'
    BY DEF Calls, OfSwitcher, OfRequest, OfReader, Values
  <2>2. Calm => CalmLists'
    BY DEF CalmLists, Single, Going, Unlisted, Filling, Emptying, Waiting, Floor
  <2>3. Orderly => OrderlyRuns'
    BY DEF OrderlyRuns, Provided, Texts, Alive
  <2> QED  BY <2>1, <2>2, <2>3 DEF Orderly, Calm
<1>2. CASE SetStubs \/ ProcCreate \/ InitWrite \/ elevator_exit
  <2>1. state' \in {"OFFLINE", "IDLE"}
    BY <1>2 DEF SetStubs, ProcCreate, InitWrite, elevator_exit, SInv, Values
  <2>2. load' \in {"out", "stubs", "write", "live", "dead", "gone"}
    BY <1>2 DEF SetStubs, ProcCreate, InitWrite, elevator_exit, LoadStep
  <2> QED  BY <1>1, <1>2, <2>1, <2>2 DEF SetStubs, ProcCreate, InitWrite, elevator_exit, LoadStep
<1>3. CASE UNCHANGED vars
  BY <1>1, <1>3 DEF vars, SInv, Values
<1>4. ASSUME NEW q \in Requests,
             RequestKmalloc(q) \/ RequestFill(q) \/ RequestAdd(q)
               \/ RequestText(q) \/ RequestPrint(q) \/ RequestFree(q)
      PROVE  SInv'
  BY <1>4, RequestValues, RequestLists, RequestRuns DEF SInv
<1>5. ASSUME NEW s \in Switchers,
             StartCheck(s) \/ StartKmalloc(s) \/ StartFloor(s) \/ StartEnd(s)
               \/ StopCheck(s) \/ StopState(s) \/ StopStarted(s)
      PROVE  SInv'
  BY <1>5, SwitchValues, SwitchLists, SwitchRuns DEF SInv
<1>6. ASSUME NEW r \in Readers, Open(r) \/ Read(r) \/ Release(r)
      PROVE  SInv'
  BY <1>6, ReadValues, ReadLists, ReadRuns DEF SInv
<1> QED  BY <1>2, <1>3, <1>4, <1>5, <1>6 DEF Next

\* The inductive invariant: what the calls find in the globals and on the lists
\* of src/casey_elevator_proc.c as long as they do not overlap.
THEOREM DraftInvariance == Spec => [](SInv /\ DInv)
<1>1. Init => SInv /\ DInv
  BY InitSInv, InitDInv
<1>2. SInv /\ DInv /\ [Next]_vars => (SInv /\ DInv)'
  BY NextSInv, NextDInv
<1> QED  BY <1>1, <1>2, PTL DEF Spec

\* Every variable has its type, also when calls overlap: i stays at lastfloor + 1
\* and nobody is put on the list of a floor that there is not.
THEOREM DraftTypes == Spec => []TypeOK
<1>1. SInv /\ DInv => TypeOK
  <2> SUFFICES ASSUME SInv, DInv PROVE TypeOK
    OBVIOUS
  <2>1. \A f \in Floors : ToSet(allfloors[f]) \subseteq Requests
    <3> TAKE f \in Floors
    <3>1. allfloors[f] \in Seq(Requests)
      BY DEF SInv, Values
    <3> QED  BY <3>1, ElementOfSeq, LenProperties DEF ToSet
  <2> QED  BY <2>1 DEF SInv, DInv, Values, Before, TypeOK
<1> QED  BY <1>1, DraftInvariance, PTL

\* Between calls that do not overlap a floor has exactly the passengers that
\* issue_request has accepted for it since start_elevator came last.
THEOREM SerialFloorsHold == Spec => []SerialFloors
<1>1. SInv => SerialFloors
  <2> SUFFICES ASSUME SInv, Calm, Busy = {}, NEW f \in Floors PROVE Floor(f)
    BY DEF SerialFloors, Calm, Floor
  <2>1. \A s \in Switchers : pc[s] # "init"
    BY Kinds DEF Busy, Running
  <2> QED  BY <2>1 DEF SInv, CalmLists, Waiting
<1> QED  BY <1>1, DraftInvariance, PTL

\* Nobody dies of calls of the draft that do not overlap, come after the first
\* start and find memory, and whatever they allocate for printing they free.
THEOREM SerialCallsLive == Spec => []SerialCallsSurvive
<1>1. SInv => SerialCallsSurvive
  <2> SUFFICES ASSUME SInv, Orderly
               PROVE  met = {} /\ (\A t \in Threads : pc[t] # "dead") /\ (Busy = {} => heap = {})
    BY DEF SerialCallsSurvive, Orderly, Calm
  <2>1. Texts /\ Alive
    BY DEF SInv, OrderlyRuns
  <2>2. met = {}
    BY <2>1 DEF SInv, Values, Orderly, Calm, Alive
  <2>3. Busy = {} => heap = {}
    BY <2>1, Kinds DEF Texts, Busy, Running
  <2> QED  BY <2>1, <2>2, <2>3 DEF Alive
<1> QED  BY <1>1, DraftInvariance, PTL

=============================================================================
