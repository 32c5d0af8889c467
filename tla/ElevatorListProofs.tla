------------------------- MODULE ElevatorListProofs -------------------------
(***************************************************************************)
(* Proofs, for any number of floors, any capacity and any requests, of the *)
(* properties of module ElevatorProps that are about who is on which list: *)
(* OnOneList, FloorFIFO, LoadAccounting and ServedWhereTheyGotOff.         *)
(***************************************************************************)
EXTENDS ElevatorProofs, FiniteSetTheorems

\* Who is on the list of floor f.
On(f) == {floors[f][k] : k \in 1 .. Len(floors[f])}

\* The passengers of a floor are in the order of their requests.
Ascending == \A f \in Floors : \A j, k \in 1 .. Len(floors[f]) :
               j < k => floors[f][j] < floors[f][k]

\* OnOneList and FloorFIFO of the passengers, by the sets On.
Linked == \A p \in Passengers :
  /\ mem[p] = "linked" <=> p \in On(start_floor(p)) \/ p \in onboard
  /\ ~(p \in On(start_floor(p)) /\ p \in onboard)

InTurn == \A p, q \in Passengers :
  p < q /\ start_floor(p) = start_floor(q) /\ p \in On(start_floor(p)) /\ mem[q] # "none"
    => q \in On(start_floor(q))

LInv == Ascending /\ Linked /\ InTurn

-----------------------------------------------------------------------------
(* What a step does to the lists and the counters.                         *)

\* p is counted where he wants to go.
Counted(p) == /\ mem' = [mem EXCEPT ![p] = "unlinked"]
              /\ served' = [served EXCEPT ![destination_floor(p)] = @ + 1]
              /\ total_served' = total_served + 1

\* p gets off.
Leaves(p) ==
  /\ p \in onboard /\ onboard' = onboard \ {p}
  /\ Account(-weight_units(type(p)), -space_units(type(p)), -children(p))
  /\ Counted(p)
  /\ UNCHANGED <<req, floors>>

\* p is the first of his floor and is taken off its list.
FirstOff(p) ==
  /\ start_floor(p) \in Floors /\ floors[start_floor(p)] # <<>>
  /\ p = Head(floors[start_floor(p)])
  /\ floors' = [floors EXCEPT ![start_floor(p)] = Tail(@)]
  /\ req' = req

Greeted(p) == FirstOff(p) /\ Equal(p) /\ Counted(p) /\ UNCHANGED loadVars

Boards(p) ==
  /\ FirstOff(p) /\ ~Equal(p) /\ Fits(p)
  /\ Account(weight_units(type(p)), space_units(type(p)), children(p))
  /\ onboard' = onboard \cup {p}
  /\ UNCHANGED <<tallyVars, mem>>

\* Passenger Len(req) + 1 asks for r.
Asks(r) ==
  /\ r \in Passenger /\ ValidRequest(r) /\ Len(req) < MaxRequests
  /\ req' = Append(req, r)
  /\ \/ add_passenger(r)
     \/ mem' = Append(mem, "none") /\ floors' = floors
  /\ UNCHANGED <<loadVars, tallyVars>>

Clears == delete_passenger /\ UNCHANGED <<loadVars, tallyVars, req>>

Quiet == UNCHANGED <<loadVars, tallyVars, heapVars, floors>>

\* Every step is one of these.
LEMMA ListSteps ==
  ASSUME IInv, [Next]_vars
  PROVE  \/ Quiet \/ Clears
         \/ \E p \in Passengers : Leaves(p) \/ Greeted(p) \/ Boards(p)
         \/ \E r \in Requests : Asks(r)
<1>1. CASE Scheduler /\ UNCHANGED worldVars
  BY <1>1 DEF worldVars, Quiet
<1>2. CASE LoadEnter
  BY <1>2 DEF LoadEnter, Goto, worldVars, Quiet
<1> DEFINE h == Head(floors[floor])
<1>3. ASSUME LoadNext
      PROVE  /\ h \in Passengers /\ start_floor(h) = floor /\ floor \in Floors
             /\ FirstOff(h)
  <2>1. /\ h \in Passengers /\ start_floor(h) = floor
        /\ floor \in Floors /\ floors[floor] # <<>>
    BY <1>3, LoadNextPassengers, HeadIsPassenger DEF start_floor
  <2>2. floors' = [floors EXCEPT ![floor] = Tail(@)] /\ req' = req
    BY <1>3 DEF LoadNext
  <2> QED  BY <2>1, <2>2 DEF FirstOff
<1>4. CASE LoadEqual
  <2>1. LoadNext /\ Equal(h) /\ Served(h) /\ UNCHANGED loadVars
    BY <1>4 DEF LoadEqual
  <2>2. destination_floor(h) = floor
    BY <1>3, <2>1 DEF Equal
  <2>3. Greeted(h)
    BY <1>3, <2>1, <2>2 DEF Greeted, Counted, Served
  <2> QED  BY <1>3, <2>1, <2>3
<1>5. CASE LoadBoard
  <2>1. Boards(h)
    BY <1>3, <1>5 DEF LoadBoard, Boards
  <2> QED  BY <1>3, <1>5, <2>1 DEF LoadBoard
<1>6. ASSUME NEW p \in onboard, DrainUnload(p) \/ ServeUnload(p) PROVE Leaves(p)
  BY <1>6 DEF DrainUnload, ServeUnload, Unload, Leaves, Counted, Served
<1>7. ASSUME NEW r \in Requests, IssueRequest(r) PROVE Asks(r)
  <2>1. r \in Passenger
    BY <1>7, RequestAssumption DEF IssueRequest, ValidRequest, Passenger, Floors
  <2> QED  BY <1>7, <2>1 DEF IssueRequest, Asks, kmalloc_fails
<1>8. CASE SystemCall
  BY <1>7, <1>8 DEF SystemCall, StartCheck, StartStep, StartState, StartFloor, StartStarted,
                    StopCheck, StopStep, StopLook, StopSave, StopState, StopStarted, CallStep, Quiet
<1>9. CASE ElevatorExit
  BY <1>9 DEF ElevatorExit, KthreadStop, DeletePassengers, ClearStubs, Quiet, Clears
<1>10. CASE UNCHANGED vars
  BY <1>10 DEF vars, Quiet
<1>11. \A p \in onboard : p \in Passengers
  BY DEF IInv, TypeOK
<1> QED  BY <1>1, <1>2, <1>4, <1>5, <1>6, <1>8, <1>9, <1>10, <1>11, SchedulerCases DEF Next

-----------------------------------------------------------------------------
(* The sets On after a step.                                               *)

\* The types that these proofs use.
LEMMA Typing ==
  ASSUME IInv
  PROVE  /\ Len(req) \in Nat /\ req \in Seq(Passenger)
         /\ mem \in Seq({"linked", "unlinked", "freed", "none"}) /\ Len(mem) = Len(req)
         /\ floors \in [Floors -> Seq(Nat)]
         /\ \A p \in Passengers : req[p] \in Passenger
         /\ \A f \in Floors : \A p \in On(f) : p \in Passengers /\ start_floor(p) = f
<1>1. req \in Seq(Passenger) /\ Len(req) \in Nat
  BY DEF IInv, TypeOK
<1>2. \A p \in Passengers : req[p] \in Passenger
  BY <1>1, ElementOfSeq DEF Passengers
<1>3. ASSUME NEW f \in Floors, NEW p \in On(f) PROVE p \in Passengers /\ start_floor(p) = f
  BY DEF IInv, FloorLists, On
<1>4. /\ mem \in Seq({"linked", "unlinked", "freed", "none"}) /\ Len(mem) = Len(req)
      /\ floors \in [Floors -> Seq(Nat)]
  BY DEF IInv, TypeOK
<1> QED  BY <1>1, <1>2, <1>3, <1>4

\* The first of an ascending list is the least, and leaves the others.
LEMMA FirstOffLists ==
  ASSUME IInv, Ascending, NEW p, FirstOff(p)
  PROVE  /\ Ascending'
         /\ p \in Passengers /\ p \in On(start_floor(p))
         /\ \A q \in On(start_floor(p)) : p <= q
         /\ \A f \in Floors : On(f)' = On(f) \ {p}
<1> DEFINE f0 == start_floor(p)
           s == floors[f0]
           t == Tail(floors[f0])
<1>1. f0 \in Floors /\ s \in Seq(Nat) /\ s # <<>> /\ p = Head(s)
  BY Typing DEF FirstOff
<1>2. /\ t \in Seq(Nat) /\ Len(t) = Len(s) - 1 /\ Len(s) \in Nat \ {0}
      /\ \A k \in 1 .. Len(t) : t[k] = s[k + 1]
  BY <1>1, HeadTailProperties, EmptySeq
<1>3. /\ floors'[f0] = t
      /\ \A f \in Floors \ {f0} : floors'[f] = floors[f]
  BY <1>1, Typing DEF FirstOff
<1>4. p = s[1] /\ 1 \in 1 .. Len(s)
  BY <1>1, <1>2
<1>5. \A j, k \in 1 .. Len(s) : s[j] \in Nat /\ (j < k => s[j] < s[k])
  BY <1>1, ElementOfSeq DEF Ascending
<1> HIDE DEF s, t
<1>6. \A k \in 1 .. Len(s) : k # 1 => p < s[k]
  BY <1>2, <1>4, <1>5
<1>7. On(f0) = {s[k] : k \in 1 .. Len(s)}
  BY DEF On, s
<1>8. \A f \in Floors : f = f0 => On(f)' = {t[k] : k \in 1 .. Len(t)}
  BY <1>3 DEF On
<1>9. {t[k] : k \in 1 .. Len(t)} = {s[k] : k \in 1 .. Len(s)} \ {p}
  <2>1. ASSUME NEW k \in 1 .. Len(t)
        PROVE  t[k] \in {s[j] : j \in 1 .. Len(s)} \ {p}
    <3>1. k + 1 \in 1 .. Len(s) /\ k + 1 # 1
      BY <1>2
    <3> QED  BY <1>2, <1>4, <1>5, <1>6, <3>1
  <2>2. ASSUME NEW k \in 1 .. Len(s), s[k] # p
        PROVE  s[k] \in {t[j] : j \in 1 .. Len(t)}
    <3>1. k - 1 \in 1 .. Len(t) /\ s[k] = t[k - 1]
      <4>1. k # 1
        BY <1>4, <2>2
      <4> QED  BY <1>2, <4>1
    <3> QED  BY <3>1
  <2> QED  BY <2>1, <2>2
<1>10. p \in Passengers /\ p \in On(f0) /\ \A q \in On(f0) : p <= q
  <2>1. p \in On(f0)
    BY <1>4, <1>7
  <2>2. \A q \in On(f0) : p <= q
    BY <1>4, <1>5, <1>6, <1>7
  <2> QED  BY <1>1, <2>1, <2>2, Typing
<1>11. \A f \in Floors : On(f)' = On(f) \ {p}
  <2> SUFFICES ASSUME NEW f \in Floors PROVE On(f)' = On(f) \ {p}
    OBVIOUS
  <2>1. CASE f = f0
    BY <1>7, <1>8, <1>9, <2>1
  <2>2. CASE f # f0
    <3>1. p \notin On(f)
      BY <2>2, Typing
    <3>2. On(f)' = On(f)
      BY <1>3, <2>2 DEF On
    <3> QED  BY <3>1, <3>2
  <2> QED  BY <2>1, <2>2
<1>12. Ascending'
  <2> SUFFICES ASSUME NEW f \in Floors,
                      NEW j \in 1 .. Len(floors'[f]), NEW k \in 1 .. Len(floors'[f]), j < k
               PROVE  floors'[f][j] < floors'[f][k]
    BY DEF Ascending
  <2>1. CASE f = f0
    <3>1. j \in 1 .. Len(t) /\ k \in 1 .. Len(t)
      BY <1>3, <2>1
    <3>2. j + 1 \in 1 .. Len(s) /\ k + 1 \in 1 .. Len(s) /\ j + 1 < k + 1
      BY <1>2, <3>1
    <3> QED  BY <1>2, <1>3, <1>5, <2>1, <3>1, <3>2
  <2>2. CASE f # f0
    BY <1>3, <2>2 DEF Ascending
  <2> QED  BY <2>1, <2>2
<1> QED  BY <1>10, <1>11, <1>12

\* A new passenger is the last and the greatest of his floor.
LEMMA AsksLists ==
  ASSUME IInv, Ascending, NEW r, Asks(r)
  PROVE  /\ Ascending'
         /\ Len(req') = Len(req) + 1 /\ Len(req) + 1 \notin Passengers
         /\ Passengers' = Passengers \cup {Len(req) + 1}
         /\ \A q \in Passengers : req'[q] = req[q] /\ mem'[q] = mem[q]
         /\ req'[Len(req) + 1] = r
         /\ \A f \in Floors : Len(req) + 1 \notin On(f)
         /\ \/ /\ mem'[Len(req) + 1] = "linked"
               /\ \A f \in Floors : On(f)' = IF f = r.start_floor THEN On(f) \cup {Len(req) + 1}
                                             ELSE On(f)
            \/ /\ mem'[Len(req) + 1] = "none"
               /\ \A f \in Floors : On(f)' = On(f)
<1> DEFINE n == Len(req) + 1
           f0 == r.start_floor
           s == floors[f0]
<1>1. /\ r \in Passenger /\ f0 \in Floors
      /\ Len(req) \in Nat /\ req \in Seq(Passenger) /\ Len(mem) = Len(req)
      /\ s \in Seq(Nat)
  BY Typing DEF Asks, Passenger
<1>2. /\ Len(req') = n /\ req'[n] = r
      /\ \A q \in 1 .. Len(req) : req'[q] = req[q]
  BY <1>1 DEF Asks
<1>3. ASSUME NEW e \in {"linked", "none"}, mem' = Append(mem, e)
      PROVE  mem'[n] = e /\ \A q \in 1 .. Len(req) : mem'[q] = mem[q]
  <2>1. mem \in Seq({"linked", "unlinked", "freed", "none"})
    BY Typing
  <2> QED  BY <1>1, <1>3, <2>1
<1>4. n \notin Passengers /\ Passengers' = Passengers \cup {n}
  BY <1>1, <1>2 DEF Passengers
<1>5. \A f \in Floors : n \notin On(f)
  BY <1>4, Typing
<1>6. CASE mem' = Append(mem, "none") /\ floors' = floors
  <2>1. Ascending' /\ \A f \in Floors : On(f)' = On(f)
    BY <1>6 DEF Ascending, On
  <2> QED  BY <1>2, <1>3, <1>4, <1>5, <1>6, <2>1 DEF Passengers
<1>7. CASE add_passenger(r)
  <2>1. /\ mem' = Append(mem, "linked")
        /\ floors'[f0] = Append(s, n)
        /\ \A f \in Floors \ {f0} : floors'[f] = floors[f]
    BY <1>1, <1>7, Typing DEF add_passenger
  <2>2. /\ Len(floors'[f0]) = Len(s) + 1 /\ Len(s) \in Nat
        /\ floors'[f0][Len(s) + 1] = n
        /\ \A k \in 1 .. Len(s) : floors'[f0][k] = s[k]
    BY <1>1, <2>1
  <2>3. \A k \in 1 .. Len(s) : s[k] \in Nat /\ s[k] < n
    <3>1. \A k \in 1 .. Len(s) : s[k] \in Passengers
      BY <1>1, Typing DEF On
    <3> QED  BY <1>1, <3>1 DEF Passengers
  <2>4. \A j, k \in 1 .. Len(s) : j < k => s[j] < s[k]
    BY <1>1 DEF Ascending
  <2> HIDE DEF s
  <2>5. On(f0)' = On(f0) \cup {n}
    <3>1. On(f0)' = {floors'[f0][k] : k \in 1 .. Len(floors'[f0])}
      BY <1>1, <1>2 DEF On, Asks
    <3>2. On(f0) = {s[k] : k \in 1 .. Len(s)}
      BY DEF On, s
    <3>3. 1 .. Len(s) + 1 = (1 .. Len(s)) \cup {Len(s) + 1}
      BY <2>2
    <3> QED  BY <2>2, <3>1, <3>2, <3>3
  <2>6. \A f \in Floors \ {f0} : On(f)' = On(f)
    BY <2>1 DEF On
  <2>7. Ascending'
    <3> SUFFICES ASSUME NEW f \in Floors,
                        NEW j \in 1 .. Len(floors'[f]), NEW k \in 1 .. Len(floors'[f]), j < k
                 PROVE  floors'[f][j] < floors'[f][k]
      BY DEF Ascending
    <3>1. CASE f = f0
      <4>1. j \in 1 .. Len(s) /\ k \in 1 .. Len(s) + 1
        BY <2>2, <3>1
      <4>2. CASE k = Len(s) + 1
        BY <2>2, <2>3, <3>1, <4>1, <4>2
      <4>3. CASE k \in 1 .. Len(s)
        BY <2>2, <2>4, <3>1, <4>1, <4>3
      <4> QED  BY <2>2, <4>1, <4>2, <4>3
    <3>2. CASE f # f0
      BY <2>1, <3>2 DEF Ascending
    <3> QED  BY <3>1, <3>2
  <2>8. \A f \in Floors : On(f)' = IF f = f0 THEN On(f) \cup {n} ELSE On(f)
    BY <1>1, <2>5, <2>6
  <2> QED  BY <1>2, <1>3, <1>4, <1>5, <2>1, <2>7, <2>8 DEF Passengers
<1> QED  BY <1>6, <1>7 DEF Asks

-----------------------------------------------------------------------------
(* LInv is inductive.                                                      *)

\* Waiting, by the sets On.
LEMMA WaitingIsOn ==
  ASSUME IInv, NEW p \in Passengers
  PROVE  /\ start_floor(p) \in Floors
         /\ Waiting(p) <=> p \in On(start_floor(p))
<1>1. req[p] \in Passenger
  BY Typing
<1>2. start_floor(p) \in Floors
  BY <1>1 DEF start_floor, Passenger
<1>3. DOMAIN floors[start_floor(p)] = 1 .. Len(floors[start_floor(p)])
  BY <1>2, Typing, LenProperties
<1> QED  BY <1>2, <1>3 DEF Waiting, On

\* The node of p is given another state.
LEMMA Unlinking ==
  ASSUME IInv, NEW p \in Passengers, Counted(p)
  PROVE  mem'[p] = "unlinked" /\ \A q \in Passengers \ {p} : mem'[q] = mem[q]
<1>1. p \in DOMAIN mem
  BY Typing, LenProperties DEF Passengers
<1> QED  BY <1>1, Typing, LenProperties DEF Counted, Passengers

LEMMA ClearsLists ==
  ASSUME IInv, Clears
  PROVE  /\ \A f \in Floors : On(f)' = {} /\ Len(floors'[f]) = 0
         /\ \A p \in Passengers : mem'[p] = IF p \in On(start_floor(p)) THEN "freed" ELSE mem[p]
<1>1. \A f \in Floors : Len(floors'[f]) = 0
  BY EmptySeq DEF Clears, delete_passenger
<1>2. \A f \in Floors : On(f)' = {}
  BY <1>1 DEF On
<1>3. DOMAIN mem = Passengers
  BY Typing, LenProperties DEF Passengers
<1> QED  BY <1>1, <1>2, <1>3, WaitingIsOn DEF Clears, delete_passenger

LEMMA NextLInv == IInv /\ LInv /\ [Next]_vars => LInv'
<1> SUFFICES ASSUME IInv, LInv, [Next]_vars PROVE LInv'
  OBVIOUS
<1> USE DEF LInv
<1> DEFINE sf(p) == start_floor(p)
<1>0. \A p \in Passengers : sf(p) \in Floors
  BY WaitingIsOn
<1>1. CASE Quiet
  <2>1. UNCHANGED <<req, mem, onboard, floors>>
    BY <1>1 DEF Quiet, loadVars, heapVars
  <2>2. Ascending'
    BY <2>1 DEF Ascending
  <2>3. Linked'
    BY <2>1 DEF Linked, On, Passengers, start_floor
  <2>4. InTurn'
    BY <2>1 DEF InTurn, On, Passengers, start_floor
  <2> QED  BY <2>2, <2>3, <2>4
<1>2. CASE Clears
  <2>1. Passengers' = Passengers /\ onboard' = onboard
        /\ \A p \in Passengers : sf(p)' = sf(p)
    BY <1>2 DEF Clears, Passengers, loadVars, start_floor
  <2>2. Linked'
    BY <1>0, <1>2, <2>1, ClearsLists DEF Linked
  <2>3. InTurn' /\ Ascending'
    BY <1>0, <1>2, <2>1, ClearsLists DEF InTurn, Ascending
  <2> QED  BY <2>2, <2>3
<1>3. ASSUME NEW p \in Passengers, Leaves(p) PROVE LInv'
  <2>1. /\ Passengers' = Passengers
        /\ \A f \in Floors : On(f)' = On(f)
        /\ \A q \in Passengers : sf(q)' = sf(q)
        /\ onboard' = onboard \ {p} /\ p \in onboard
    BY <1>3 DEF Leaves, Passengers, On, start_floor
  <2>2. mem'[p] = "unlinked" /\ \A q \in Passengers \ {p} : mem'[q] = mem[q]
    BY <1>3, Unlinking DEF Leaves
  <2>3. Ascending'
    BY <1>3 DEF Ascending, Leaves
  <2>4. Linked'
    BY <1>0, <2>1, <2>2 DEF Linked
  <2>5. mem[p] # "none"
    BY <2>1 DEF Linked
  <2>6. InTurn'
    BY <1>0, <2>1, <2>2, <2>5 DEF InTurn
  <2> QED  BY <2>3, <2>4, <2>6
<1>4. ASSUME NEW p \in Passengers, Greeted(p) \/ Boards(p) PROVE LInv'
  <2>0. FirstOff(p)
    BY <1>4 DEF Greeted, Boards
  <2>1. /\ Ascending'
        /\ p \in On(sf(p))
        /\ \A q \in On(sf(p)) : p <= q
        /\ \A f \in Floors : On(f)' = On(f) \ {p}
    BY <2>0, FirstOffLists
  <2>2. /\ Passengers' = Passengers
        /\ \A q \in Passengers : sf(q)' = sf(q)
    BY <2>0 DEF FirstOff, Passengers, start_floor
  <2>3. mem[p] = "linked" /\ p \notin onboard
    BY <2>1 DEF Linked
  <2>4. /\ \A q \in Passengers \ {p} : mem'[q] = mem[q]
        /\ \/ mem'[p] = "unlinked" /\ onboard' = onboard
           \/ mem'[p] = "linked" /\ onboard' = onboard \cup {p}
    <3>1. CASE Greeted(p)
      BY <3>1, Unlinking DEF Greeted, loadVars
    <3>2. CASE Boards(p)
      BY <2>3, <3>2 DEF Boards
    <3> QED  BY <1>4, <3>1, <3>2
  <2>5. Linked'
    BY <1>0, <2>1, <2>2, <2>3, <2>4 DEF Linked
  <2>6. InTurn'
    <3> SUFFICES ASSUME NEW q \in Passengers, NEW u \in Passengers, q < u,
                        sf(q) = sf(u), q \in On(sf(q)) \ {p}, mem'[u] # "none"
                 PROVE  u \in On(sf(u)) \ {p}
      BY <1>0, <2>1, <2>2 DEF InTurn
    <3>1. mem[u] # "none"
      BY <2>3, <2>4
    <3>2. u \in On(sf(u))
      BY <3>1 DEF InTurn
    <3>3. u # p
      <4> SUFFICES ASSUME u = p PROVE FALSE
        OBVIOUS
      <4>1. p <= q
        BY <2>1
      <4> QED  BY <4>1 DEF Passengers
    <3> QED  BY <3>2, <3>3
  <2> QED  BY <2>1, <2>5, <2>6
<1>5. ASSUME NEW r \in Requests, Asks(r) PROVE LInv'
  <2> DEFINE n == Len(req) + 1
  <2>1. /\ Ascending' /\ n \notin Passengers /\ Passengers' = Passengers \cup {n}
        /\ \A q \in Passengers : req'[q] = req[q] /\ mem'[q] = mem[q]
        /\ req'[n] = r
        /\ \A f \in Floors : n \notin On(f)
        /\ \/ /\ mem'[n] = "linked"
              /\ \A f \in Floors : On(f)' = IF f = r.start_floor THEN On(f) \cup {n} ELSE On(f)
           \/ mem'[n] = "none" /\ \A f \in Floors : On(f)' = On(f)
    BY <1>5, AsksLists
  <2>2. onboard' = onboard /\ onboard \subseteq Passengers /\ r.start_floor \in Floors
    BY <1>5 DEF Asks, loadVars, IInv, TypeOK, Passenger
  <2>3. /\ \A q : q = n => sf(q)' = r.start_floor
        /\ \A q \in Passengers : sf(q)' = sf(q)
    BY <2>1 DEF start_floor
  <2>4. \A q \in Passengers : q < n /\ q # n
    BY <2>1, Typing DEF Passengers
  <2> HIDE DEF n, sf
  <2>5. Linked'
    <3> SUFFICES ASSUME NEW q \in Passengers'
                 PROVE  /\ mem'[q] = "linked" <=> q \in On(start_floor(q))' \/ q \in onboard'
                        /\ ~(q \in On(start_floor(q))' /\ q \in onboard')
      BY DEF Linked
    <3>1. CASE q = n
      <4>1. start_floor(q)' = r.start_floor
        BY <2>3, <3>1 DEF sf
      <4>2. On(start_floor(q))' = On(r.start_floor)'
        BY <4>1 DEF On
      <4> QED  BY <2>1, <2>2, <3>1, <4>2
    <3>2. CASE q \in Passengers
      <4>1. start_floor(q)' = start_floor(q) /\ start_floor(q) \in Floors
        BY <1>0, <2>3, <3>2 DEF sf
      <4>2. \A f \in Floors : q \in On(f)' <=> q \in On(f)
        BY <2>1, <2>4, <3>2
      <4>3. q \in On(start_floor(q))' <=> q \in On(start_floor(q))
        <5>1. ASSUME NEW f \in Floors, f = start_floor(q)
              PROVE  On(start_floor(q))' = On(f)'
          BY <4>1, <5>1 DEF On
        <5> QED  BY <4>1, <4>2, <5>1
      <4> QED  BY <2>1, <2>2, <3>2, <4>3 DEF Linked
    <3> QED  BY <2>1, <3>1, <3>2
  <2>6. InTurn'
    <3>1. ASSUME NEW q \in Passengers
          PROVE  /\ start_floor(q)' = start_floor(q)
                 /\ q \in On(start_floor(q))' <=> q \in On(start_floor(q))
      <4>1. start_floor(q)' = start_floor(q) /\ start_floor(q) \in Floors
        BY <1>0, <2>3 DEF sf
      <4>2. \A f \in Floors : q \in On(f)' <=> q \in On(f)
        BY <2>1, <2>4
      <4>3. ASSUME NEW f \in Floors, f = start_floor(q)
            PROVE  On(start_floor(q))' = On(f)'
        BY <4>1, <4>3 DEF On
      <4> QED  BY <4>1, <4>2, <4>3
    <3> SUFFICES ASSUME NEW q \in Passengers', NEW u \in Passengers', q < u,
                        start_floor(q)' = start_floor(u)', q \in On(start_floor(q))',
                        mem'[u] # "none"
                 PROVE  u \in On(start_floor(u))'
      BY DEF InTurn
    <3>2. q \in Passengers
      <4> SUFFICES ASSUME q = n PROVE FALSE
        BY <2>1
      <4>1. u = n \/ u < n
        BY <2>1, <2>4
      <4> QED  BY <4>1, Typing DEF n, Passengers
    <3>3. CASE u = n
      <4>1. start_floor(u)' = r.start_floor
        BY <2>3, <3>3 DEF sf
      <4>2. On(start_floor(u))' = On(r.start_floor)'
        BY <4>1 DEF On
      <4> QED  BY <2>1, <2>2, <3>3, <4>2
    <3>4. CASE u \in Passengers
      BY <2>1, <3>1, <3>2, <3>4 DEF InTurn
    <3> QED  BY <2>1, <3>3, <3>4
  <2> QED  BY <2>1, <2>5, <2>6
<1> QED  BY <1>1, <1>2, <1>3, <1>4, <1>5, ListSteps

LEMMA InitLInv == Init => LInv
<1> SUFFICES ASSUME Init PROVE LInv
  OBVIOUS
<1>1. \A f \in Floors : Len(floors[f]) = 0
  BY EmptySeq DEF Init
<1>2. Passengers = {}
  BY EmptySeq DEF Init, Passengers
<1> QED  BY <1>1, <1>2 DEF LInv, Ascending, Linked, InTurn

\* The lists hold who they should, in the order of the requests, after any steps
\* of the scheduler, issue_request and delete_passenger.
THEOREM ListInvariance == Spec => [](IInv /\ LInv)
<1> QED  BY Invariance, InitLInv, NextLInv, PTL DEF Spec

\* A passenger whose node is linked is on exactly one list, the one he should be
\* on, whatever issue_request, load_elevator and delete_passenger do.
THEOREM EveryoneOnOneList == Spec => []OnOneList
<1>1. ASSUME IInv, LInv PROVE OnOneList
  <2>1. ASSUME NEW p \in Passengers
        PROVE  /\ mem[p] = "linked" <=> Waiting(p) \/ p \in onboard
               /\ ~(Waiting(p) /\ p \in onboard)
    BY <1>1, WaitingIsOn DEF LInv, Linked
  <2>2. ASSUME NEW f \in Floors, NEW j \in DOMAIN floors[f], NEW k \in DOMAIN floors[f]
        PROVE  /\ start_floor(floors[f][j]) = f
               /\ floors[f][j] = floors[f][k] => j = k
    <3>1. DOMAIN floors[f] = 1 .. Len(floors[f]) /\ Len(floors[f]) \in Nat
      BY <1>1, Typing, LenProperties
    <3>2. floors[f][j] \in Nat /\ floors[f][k] \in Nat
      BY <1>1, <3>1, Typing, ElementOfSeq
    <3>3. j < k \/ k < j \/ j = k
      BY <3>1
    <3> QED  BY <1>1, <3>1, <3>2, <3>3 DEF IInv, FloorLists, LInv, Ascending
  <2> QED  BY <2>1, <2>2 DEF OnOneList
<1> QED  BY <1>1, ListInvariance, PTL

\* Nobody passes a passenger who is waiting on the same floor.
THEOREM FirstComeFirstIn == Spec => []FloorFIFO
<1>1. ASSUME IInv, LInv PROVE FloorFIFO
  BY <1>1, WaitingIsOn DEF LInv, InTurn, FloorFIFO
<1> QED  BY <1>1, ListInvariance, PTL

-----------------------------------------------------------------------------
(* The counters.                                                           *)

\* The units that the passengers in S take, one pair for each.
Units(S, size) == {pu \in S \X (1 .. MAXWEIGHT) : pu[2] <= size[req[pu[1]].type]}

\* The operator that ElevatorService has from FiniteSets is that of FiniteSets.
LEMMA SameCardinality == \A S : Abstract!Cardinality(S) = Cardinality(S)
BY DEF Abstract!Cardinality, Cardinality

LEMMA LoadIsUnits == \A S, size : Abstract!Load(S, size) = Cardinality(Units(S, size))
BY SameCardinality DEF Abstract!Load, Units

\* One more passenger takes as many units as he has.
LEMMA LoadOfOneMore ==
  ASSUME IInv, NEW S \in SUBSET Passengers, NEW p \in Passengers, p \notin S,
         NEW size \in [Types -> 1 .. MAXWEIGHT]
  PROVE  /\ Abstract!Load(S, size) \in Nat
         /\ Abstract!Load(S \cup {p}, size) = Abstract!Load(S, size) + size[type(p)]
<1> DEFINE k == size[type(p)]
           T == {p} \X (1 .. k)
<1>1. type(p) \in Types /\ k \in 1 .. MAXWEIGHT
  BY Typing DEF type, Passenger
<1>2. k \in Nat /\ k <= MAXWEIGHT /\ MAXWEIGHT \in Nat
  BY <1>1, CapacityAssumption
<1>3. IsFiniteSet(Passengers) /\ IsFiniteSet(1 .. MAXWEIGHT) /\ IsFiniteSet(1 .. k)
      /\ Cardinality(1 .. k) = k
  <2> HIDE DEF k
  <2>1. \A n \in Nat : IsFiniteSet(1 .. n) /\ Cardinality(1 .. n) = IF 1 > n THEN 0 ELSE n - 1 + 1
    BY FS_Interval
  <2>2. \A n \in Nat : IsFiniteSet(1 .. n) /\ Cardinality(1 .. n) = n
    BY <2>1
  <2> QED  BY <1>2, <2>2, Typing DEF Passengers
<1>4. IsFiniteSet(S)
  BY <1>3, FS_Subset
<1>5. IsFiniteSet(Units(S, size)) /\ Cardinality(Units(S, size)) \in Nat
  <2>1. IsFiniteSet(S \X (1 .. MAXWEIGHT))
    BY <1>3, <1>4, FS_Product
  <2>2. Units(S, size) \in SUBSET (S \X (1 .. MAXWEIGHT))
    BY DEF Units
  <2> QED  BY <2>1, <2>2, FS_Subset, FS_CardinalityType
<1>6. IsFiniteSet(T) /\ Cardinality(T) = k
  <2>1. IsFiniteSet({p}) /\ Cardinality({p}) = 1
    BY FS_Singleton
  <2>2. IsFiniteSet({p} \X (1 .. k)) /\ Cardinality({p} \X (1 .. k)) = 1 * Cardinality(1 .. k)
    BY <1>3, <2>1, FS_Product
  <2> QED  BY <1>2, <1>3, <2>2
<1>7. Units(S \cup {p}, size) = Units(S, size) \cup T
  <2>1. ASSUME NEW x PROVE x \in Units(S \cup {p}, size) <=> x \in Units(S, size) \cup T
    <3>1. CASE x \in S \X (1 .. MAXWEIGHT)
      BY <3>1 DEF Units
    <3>2. CASE x \in {p} \X (1 .. MAXWEIGHT)
      BY <1>2, <3>2 DEF Units, type
    <3>3. CASE x \notin (S \cup {p}) \X (1 .. MAXWEIGHT)
      BY <1>2, <3>3 DEF Units
    <3> QED  BY <3>1, <3>2, <3>3
  <2> QED  BY <2>1
<1>8. Units(S, size) \cap T = {}
  BY DEF Units
<1>9. Cardinality(Units(S \cup {p}, size)) = Cardinality(Units(S, size)) + k
  <2> HIDE DEF T, k
  <2>1. Cardinality(Units(S, size) \cup T)
          = Cardinality(Units(S, size)) + Cardinality(T) - Cardinality(Units(S, size) \cap T)
    BY <1>5, <1>6, FS_Union
  <2>2. Cardinality({}) = 0
    BY FS_EmptySet
  <2>3. Cardinality(Units(S, size) \cap T) = 0
    BY <1>8, <2>2
  <2>4. Cardinality(Units(S, size) \cup T) = Cardinality(Units(S, size)) + k
    BY <1>2, <1>5, <1>6, <2>1, <2>3
  <2> QED  BY <1>7, <2>4
<1> QED  BY <1>5, <1>9, LoadIsUnits

LEMMA SizesOfTypes ==
  /\ WeightOf \in [Types -> 1 .. MAXWEIGHT] /\ SpaceOf \in [Types -> 1 .. MAXWEIGHT]
  /\ \A p : type(p) \in Types => /\ WeightOf[type(p)] = weight_units(type(p))
                                 /\ SpaceOf[type(p)] = space_units(type(p))
BY CapacityAssumption DEF WeightOf, SpaceOf, Types, weight_units, space_units,
                          ADULT, CHILD, RS, BELLHOP

\* The children among S.
Children(S) == {p \in S : type(p) = CHILD}

LEMMA OneMoreChild ==
  ASSUME IInv, NEW S \in SUBSET Passengers, NEW p \in Passengers, p \notin S
  PROVE  /\ Cardinality(Children(S)) \in Nat
         /\ Cardinality(Children(S \cup {p})) = Cardinality(Children(S)) + children(p)
<1>1. IsFiniteSet(Passengers)
  BY Typing, FS_Interval DEF Passengers
<1>2. IsFiniteSet(Children(S)) /\ Cardinality(Children(S)) \in Nat
  BY <1>1, FS_Subset, FS_CardinalityType DEF Children
<1>3. CASE type(p) = CHILD
  <2>1. Children(S \cup {p}) = Children(S) \cup {p} /\ p \notin Children(S)
    BY <1>3 DEF Children
  <2> QED  BY <1>2, <1>3, <2>1, FS_AddElement DEF children
<1>4. CASE type(p) # CHILD
  <2>1. Children(S \cup {p}) = Children(S)
    BY <1>4 DEF Children
  <2> QED  BY <1>2, <1>4, <2>1 DEF children
<1> QED  BY <1>2, <1>3, <1>4

\* What LoadAccounting says of the three counters when those in S are on board.
Tally(S) == <<Abstract!Load(S, WeightOf), Abstract!Load(S, SpaceOf), Cardinality(Children(S))>>

LEMMA TallyOfOneMore ==
  ASSUME IInv, NEW S \in SUBSET Passengers, NEW p \in Passengers, p \notin S
  PROVE  /\ \A k \in 1 .. 3 : Tally(S)[k] \in Int
         /\ Tally(S \cup {p})[1] = Tally(S)[1] + weight_units(type(p))
         /\ Tally(S \cup {p})[2] = Tally(S)[2] + space_units(type(p))
         /\ Tally(S \cup {p})[3] = Tally(S)[3] + children(p)
<1>1. type(p) \in Types
  BY Typing DEF type, Passenger
<1>2. /\ Tally(S)[1] \in Int /\ Tally(S)[2] \in Int
      /\ Tally(S \cup {p})[1] = Tally(S)[1] + weight_units(type(p))
      /\ Tally(S \cup {p})[2] = Tally(S)[2] + space_units(type(p))
  BY <1>1, LoadOfOneMore, SizesOfTypes DEF Tally
<1>3. /\ Tally(S)[3] \in Int
      /\ Tally(S \cup {p})[3] = Tally(S)[3] + children(p)
  BY OneMoreChild DEF Tally
<1> QED  BY <1>2, <1>3

\* A passenger's size does not change.
LEMMA SameTally ==
  ASSUME NEW S, \A p \in S : req'[p] = req[p]
  PROVE  Tally(S)' = Tally(S)
<1>1. ASSUME NEW size PROVE Units(S, size)' = Units(S, size)
  BY DEF Units
<1>2. ASSUME NEW size PROVE Abstract!Load(S, size)' = Abstract!Load(S, size)
  <2>1. Abstract!Load(S, size)' = Cardinality(Units(S, size)')
    BY SameCardinality DEF Abstract!Load, Units
  <2> QED  BY <1>1, <2>1, LoadIsUnits
<1>3. Children(S)' = Children(S)
  BY DEF Children, type
<1> QED  BY <1>2, <1>3 DEF Tally, WeightOf, SpaceOf

LEMMA NextLoadAccounting ==
  ASSUME IInv, LInv, LoadAccounting, [Next]_vars
  PROVE  LoadAccounting'
<1>1. ASSUME NEW S, onboard' = S, \A p \in S : req'[p] = req[p],
             current_weight' = Tally(S)[1], current_units' = Tally(S)[2],
             odd_children' = Tally(S)[3]
      PROVE  LoadAccounting'
  <2>1. Tally(S)' = Tally(S)
    BY <1>1, SameTally
  <2>2. /\ current_weight' = Abstract!Load(S, WeightOf)'
        /\ current_units' = Abstract!Load(S, SpaceOf)'
        /\ odd_children' = Cardinality(Children(S))'
    BY <1>1, <2>1 DEF Tally
  <2>3. /\ Abstract!Load(onboard, WeightOf)' = Abstract!Load(S, WeightOf)'
        /\ Abstract!Load(onboard, SpaceOf)' = Abstract!Load(S, SpaceOf)'
    BY <1>1 DEF Abstract!Load
  <2>4. {p \in onboard : type(p) = CHILD}' = Children(S)'
    BY <1>1 DEF Children
  <2> QED  BY <2>2, <2>3, <2>4 DEF LoadAccounting
<1>2. /\ current_weight = Tally(onboard)[1] /\ current_units = Tally(onboard)[2]
      /\ odd_children = Tally(onboard)[3]
  BY DEF LoadAccounting, Tally, Children
<1>3. onboard \subseteq Passengers
  BY DEF IInv, TypeOK
<1>4. CASE UNCHANGED loadVars /\ \A p \in Passengers : req'[p] = req[p]
  BY <1>1, <1>2, <1>3, <1>4 DEF loadVars
<1>5. ASSUME NEW p \in Passengers, Leaves(p) PROVE LoadAccounting'
  <2> DEFINE S == onboard \ {p}
  <2>1. S \in SUBSET Passengers /\ p \notin S /\ onboard = S \cup {p}
    BY <1>3, <1>5 DEF Leaves
  <2>2. /\ Tally(onboard)[1] = Tally(S)[1] + weight_units(type(p))
        /\ Tally(onboard)[2] = Tally(S)[2] + space_units(type(p))
        /\ Tally(onboard)[3] = Tally(S)[3] + children(p)
        /\ Tally(S)[1] \in Int /\ Tally(S)[2] \in Int /\ Tally(S)[3] \in Int
    BY <2>1, TallyOfOneMore
  <2>3. onboard' = S /\ req' = req
        /\ Account(-weight_units(type(p)), -space_units(type(p)), -children(p))
    BY <1>5 DEF Leaves
  <2>4. weight_units(type(p)) \in Nat /\ space_units(type(p)) \in Nat /\ children(p) \in Nat
    BY PassengerUnits, Typing
  <2> HIDE DEF S
  <2>5. \A w \in Nat : \A t \in Int : (t + w) + (-w) = t
    OBVIOUS
  <2>6. /\ current_weight' = Tally(onboard)[1] + (-weight_units(type(p)))
        /\ current_units' = Tally(onboard)[2] + (-space_units(type(p)))
        /\ odd_children' = Tally(onboard)[3] + (-children(p))
    BY <1>2, <2>3 DEF Account
  <2>7. current_weight' = Tally(S)[1]
    BY <2>2, <2>4, <2>5, <2>6, Zenon
  <2>8. current_units' = Tally(S)[2]
    BY <2>2, <2>4, <2>5, <2>6, Zenon
  <2>9. odd_children' = Tally(S)[3]
    BY <2>2, <2>4, <2>5, <2>6, Zenon
  <2> QED  BY <1>1, <2>3, <2>7, <2>8, <2>9
<1>6. ASSUME NEW p \in Passengers, Boards(p) PROVE LoadAccounting'
  <2>1. p \notin onboard
    BY <1>6, FirstOffLists DEF Boards, LInv, Linked
  <2>2. /\ Tally(onboard \cup {p})[1] = Tally(onboard)[1] + weight_units(type(p))
        /\ Tally(onboard \cup {p})[2] = Tally(onboard)[2] + space_units(type(p))
        /\ Tally(onboard \cup {p})[3] = Tally(onboard)[3] + children(p)
    BY <1>3, <2>1, TallyOfOneMore
  <2> QED  BY <1>1, <1>2, <1>6, <2>2 DEF Boards, FirstOff, Account
<1>7. Quiet \/ Clears \/ (\E p \in Passengers : Greeted(p))
        => UNCHANGED loadVars /\ req' = req
  BY DEF Quiet, Clears, Greeted, FirstOff, heapVars
<1>8. ASSUME NEW r \in Requests, Asks(r) PROVE LoadAccounting'
  BY <1>4, <1>8, AsksLists DEF Asks, LInv
<1> QED  BY <1>4, <1>5, <1>6, <1>7, <1>8, ListSteps

\* The counters of the car are right, over any sequence of stops.
THEOREM LoadAccounted == Spec => []LoadAccounting
<1>1. Init => LoadAccounting
  <2> SUFFICES ASSUME Init PROVE LoadAccounting
    OBVIOUS
  <2>1. Units({}, WeightOf) = {} /\ Units({}, SpaceOf) = {} /\ Children({}) = {}
    BY DEF Units, Children
  <2>2. Cardinality({}) = 0
    BY FS_EmptySet
  <2>3. /\ Abstract!Load({}, WeightOf) = 0 /\ Abstract!Load({}, SpaceOf) = 0
        /\ Cardinality(Children({})) = 0
    BY <2>1, <2>2, LoadIsUnits
  <2>4. onboard = {} /\ current_weight = 0 /\ current_units = 0 /\ odd_children = 0
    BY DEF Init
  <2> QED  BY <2>3, <2>4 DEF LoadAccounting, Children
<1>2. IInv /\ LInv /\ LoadAccounting /\ [Next]_vars => LoadAccounting'
  BY NextLoadAccounting
<1> QED  BY <1>1, <1>2, ListInvariance, PTL DEF Spec

\* Whoever has been served, and those who wanted to floor f.
AllOff == {p \in Passengers : mem[p] = "unlinked"}
Off(f) == {p \in AllOff : destination_floor(p) = f}

LEMMA NextServed ==
  ASSUME IInv, LInv, ServedWhereTheyGotOff, [Next]_vars
  PROVE  ServedWhereTheyGotOff'
<1>1. /\ \A f \in Floors : served[f] = Cardinality(Off(f))
      /\ total_served = Cardinality(AllOff)
  <2>1. \A f : Off(f) = {p \in Passengers : mem[p] = "unlinked" /\ destination_floor(p) = f}
    BY DEF Off, AllOff
  <2> QED  BY <2>1 DEF ServedWhereTheyGotOff, AllOff
<1>2. ASSUME \A f \in Floors : served'[f] = Cardinality(Off(f)'),
             total_served' = Cardinality(AllOff')
      PROVE  ServedWhereTheyGotOff'
  <2>1. \A f : Off(f)' = {p \in Passengers' : mem'[p] = "unlinked" /\ req'[p].destination_floor = f}
    BY DEF Off, AllOff, destination_floor
  <2> QED  BY <1>2, <2>1 DEF ServedWhereTheyGotOff, AllOff, destination_floor
<1>3. ASSUME UNCHANGED tallyVars, AllOff' = AllOff, \A p \in AllOff : req'[p] = req[p]
      PROVE  ServedWhereTheyGotOff'
  <2>1. \A f : Off(f)' = Off(f)
    BY <1>3 DEF Off, destination_floor
  <2> QED  BY <1>1, <1>2, <1>3, <2>1 DEF tallyVars
<1>4. ASSUME NEW p \in Passengers, Counted(p), mem[p] = "linked", req' = req
      PROVE  ServedWhereTheyGotOff'
  <2>1. mem'[p] = "unlinked" /\ \A q \in Passengers \ {p} : mem'[q] = mem[q]
    BY <1>4, Unlinking
  <2>2. AllOff' = AllOff \cup {p} /\ p \notin AllOff
    BY <1>4, <2>1 DEF AllOff, Passengers
  <2>3. \A f : /\ Off(f)' = IF f = destination_floor(p) THEN Off(f) \cup {p} ELSE Off(f)
               /\ p \notin Off(f)
    BY <1>4, <2>2 DEF Off, destination_floor
  <2>4. IsFiniteSet(AllOff) /\ \A f : IsFiniteSet(Off(f))
    <3>1. IsFiniteSet(Passengers)
      BY Typing, FS_Interval DEF Passengers
    <3> QED  BY <3>1, FS_Subset DEF AllOff, Off
  <2>5. /\ Cardinality(AllOff \cup {p}) = Cardinality(AllOff) + 1
        /\ \A f : Cardinality(Off(f) \cup {p}) = Cardinality(Off(f)) + 1
    BY <2>2, <2>3, <2>4, FS_AddElement
  <2>6. served \in [Floors -> Nat]
    BY DEF IInv, TypeOK
  <2> QED  BY <1>1, <1>2, <1>4, <2>2, <2>3, <2>5, <2>6 DEF Counted
<1>5. CASE Quiet
  <2>1. AllOff' = AllOff
    BY <1>5 DEF Quiet, heapVars, AllOff, Passengers
  <2> QED  BY <1>3, <1>5, <2>1 DEF Quiet, heapVars
<1>6. CASE Clears
  <2>1. \A p \in Passengers : mem'[p] = "unlinked" <=> mem[p] = "unlinked"
    BY <1>6, ClearsLists DEF LInv, Linked
  <2>2. AllOff' = AllOff /\ req' = req
    BY <1>6, <2>1 DEF Clears, AllOff, Passengers
  <2> QED  BY <1>3, <1>6, <2>2 DEF Clears
<1>7. ASSUME NEW p \in Passengers, Leaves(p) \/ Greeted(p) PROVE ServedWhereTheyGotOff'
  <2>1. mem[p] = "linked"
    BY <1>7, FirstOffLists DEF Leaves, Greeted, LInv, Linked
  <2> QED  BY <1>4, <1>7, <2>1 DEF Leaves, Greeted, FirstOff
<1>8. ASSUME NEW p \in Passengers, Boards(p) PROVE ServedWhereTheyGotOff'
  <2>1. AllOff' = AllOff /\ req' = req
    BY <1>8 DEF Boards, FirstOff, AllOff, Passengers
  <2> QED  BY <1>3, <1>8, <2>1 DEF Boards
<1>9. ASSUME NEW r \in Requests, Asks(r) PROVE ServedWhereTheyGotOff'
  <2>1. AllOff' = AllOff /\ \A p \in AllOff : req'[p] = req[p]
    BY <1>9, AsksLists DEF AllOff, LInv
  <2> QED  BY <1>3, <1>9, <2>1 DEF Asks
<1> QED  BY <1>5, <1>6, <1>7, <1>8, <1>9, ListSteps

\* Everyone is counted once, on the floor he wanted to go to.
THEOREM ServedRight == Spec => []ServedWhereTheyGotOff
<1>1. Init => ServedWhereTheyGotOff
  <2> SUFFICES ASSUME Init PROVE ServedWhereTheyGotOff
    OBVIOUS
  <2>1. Passengers = {}
    BY EmptySeq DEF Init, Passengers
  <2>2. Cardinality({}) = 0
    BY FS_EmptySet
  <2> QED  BY <2>1, <2>2 DEF Init, ServedWhereTheyGotOff
<1>2. IInv /\ LInv /\ ServedWhereTheyGotOff /\ [Next]_vars => ServedWhereTheyGotOff'
  BY NextServed
<1> QED  BY <1>1, <1>2, ListInvariance, PTL DEF Spec

=============================================================================
