---------------------- MODULE ElevatorRefinementProofs ----------------------
(***************************************************************************)
(* Proof that Elevator implements ElevatorService, for any number of       *)
(* floors, any capacity and any requests: every step of the scheduler, of  *)
(* a system call or of elevator_exit does to the passengers what one step  *)
(* of ElevatorService does, or nothing.                                    *)
(***************************************************************************)
EXTENDS ElevatorListProofs

Fates == {"waiting", "riding", "served", "gone"}

\* What the refinement mapping makes of the passengers.
fate == [p \in Passengers |-> FateOf(p)]

\* FateOf, by the lists and the state of the node.
FatesRight == \A p \in Passengers :
  /\ FateOf(p) \in Fates
  /\ FateOf(p) = "waiting" <=> p \in On(start_floor(p))
  /\ FateOf(p) = "riding" <=> p \in onboard
  /\ FateOf(p) = "served" <=> mem[p] = "unlinked"
  /\ FateOf(p) = "gone" <=> mem[p] \in {"none", "freed"}

LEMMA NobodyIsLost == IInv /\ LInv => FatesRight
<1> SUFFICES ASSUME IInv, LInv, NEW p \in Passengers
             PROVE  /\ FateOf(p) \in Fates
                    /\ FateOf(p) = "waiting" <=> p \in On(start_floor(p))
                    /\ FateOf(p) = "riding" <=> p \in onboard
                    /\ FateOf(p) = "served" <=> mem[p] = "unlinked"
                    /\ FateOf(p) = "gone" <=> mem[p] \in {"none", "freed"}
  BY DEF FatesRight
<1>1. mem[p] \in {"linked", "unlinked", "freed", "none"}
  BY Typing, ElementOfSeq DEF Passengers
<1>2. Waiting(p) <=> p \in On(start_floor(p))
  BY WaitingIsOn
<1>3. /\ mem[p] = "linked" <=> Waiting(p) \/ p \in onboard
      /\ ~(Waiting(p) /\ p \in onboard)
  BY <1>2 DEF LInv, Linked
<1> HIDE DEF Waiting
<1>4. CASE mem[p] = "linked"
  BY <1>2, <1>3, <1>4 DEF FateOf, Fates
<1>5. CASE mem[p] # "linked"
  BY <1>1, <1>2, <1>3, <1>5 DEF FateOf, Fates
<1> QED  BY <1>4, <1>5

LEMMA NobodyWillBeLost == IInv' /\ LInv' => FatesRight'
BY NobodyIsLost, PTL

\* fate as a sequence.
FatesTyped == /\ fate \in [1 .. Len(req) -> Fates] /\ fate \in Seq(Fates)
              /\ Len(fate) = Len(req) /\ Len(req) \in Nat
              /\ \A p \in Passengers : fate[p] = FateOf(p)

LEMMA FateIsSequence == IInv /\ LInv => FatesTyped
<1> SUFFICES ASSUME IInv, LInv PROVE FatesTyped
  OBVIOUS
<1>1. Len(req) \in Nat
  BY Typing
<1>2. fate \in [1 .. Len(req) -> Fates]
  BY NobodyIsLost DEF FatesRight, fate, Passengers
<1>3. fate \in Seq(Fates)
  BY <1>1, <1>2, SeqDef
<1>4. Len(fate) = Len(req)
  BY <1>1, <1>2, <1>3, LenProperties
<1> QED  BY <1>1, <1>2, <1>3, <1>4 DEF FatesTyped, fate

LEMMA FateStaysSequence == IInv' /\ LInv' => FatesTyped'
BY FateIsSequence, PTL

\* The mapped definitions of ElevatorService.
LEMMA Mapped ==
  ASSUME IInv, LInv
  PROVE  /\ Abstract!People = Passengers
         /\ Abstract!Having("riding") = onboard
         /\ \A p \in Passengers : p \in Abstract!Having("waiting") <=> p \in On(start_floor(p))
<1>1. Abstract!People = Passengers
  BY DEF Abstract!People, Passengers
<1>2. \A f : Abstract!Having(f) = {p \in Passengers : FateOf(p) = f}
  BY <1>1 DEF Abstract!Having
<1>3. onboard \subseteq Passengers
  BY DEF IInv, TypeOK
<1> QED  BY <1>1, <1>2, <1>3, NobodyIsLost DEF FatesRight

LEMMA FirstMapped ==
  ASSUME IInv, LInv, NEW p, FirstOff(p)
  PROVE  Abstract!First(p)
<1>1. p \in Passengers /\ p \in On(start_floor(p)) /\ \A q \in On(start_floor(p)) : p <= q
  BY FirstOffLists DEF LInv
<1>2. fate[p] = "waiting"
  BY <1>1, FateIsSequence, NobodyIsLost DEF FatesRight, FatesTyped
<1>3. \A q \in Abstract!Having("waiting") : req[q].start_floor = req[p].start_floor => p <= q
  <2> SUFFICES ASSUME NEW q \in Abstract!Having("waiting"),
                      req[q].start_floor = req[p].start_floor
               PROVE  p <= q
    OBVIOUS
  <2>1. q \in Passengers
    BY Mapped DEF Abstract!Having
  <2>2. q \in On(start_floor(q)) /\ start_floor(q) = start_floor(p)
    BY <2>1, Mapped DEF start_floor
  <2> QED  BY <1>1, <2>2
<1> QED  BY <1>2, <1>3 DEF Abstract!First, fate

-----------------------------------------------------------------------------
(* What a step does to the fates.                                          *)

\* Whoever stays on his list, and whose node keeps its state, keeps his fate.
LEMMA SameFate ==
  ASSUME FatesRight, FatesRight', NEW p \in Passengers, p \in Passengers',
         p \in On(start_floor(p))' <=> p \in On(start_floor(p)),
         p \in onboard' <=> p \in onboard, mem'[p] = mem[p]
  PROVE  FateOf(p)' = FateOf(p)
BY DEF FatesRight, Fates

\* Passenger p has the fate f, and the others the fate they had.
LEMMA OneFate ==
  ASSUME FatesTyped, FatesTyped', req' = req, NEW p \in Passengers, NEW f \in Fates,
         FateOf(p)' = f, \A q \in Passengers \ {p} : FateOf(q)' = FateOf(q)
  PROVE  fate' = [fate EXCEPT ![p] = f]
<1>1. Passengers' = Passengers /\ Passengers = 1 .. Len(req)
  BY DEF Passengers
<1>2. /\ fate \in [Passengers -> Fates] /\ fate' \in [Passengers -> Fates]
      /\ \A q \in Passengers : fate[q] = FateOf(q) /\ fate'[q] = FateOf(q)'
  BY <1>1 DEF FatesTyped
<1>3. \A q \in Passengers : fate'[q] = [fate EXCEPT ![p] = f][q]
  BY <1>2
<1>4. [fate EXCEPT ![p] = f] \in [Passengers -> Fates]
  BY <1>2
<1> HIDE DEF fate
<1> QED  BY <1>2, <1>3, <1>4

LEMMA LeavesIsDeliver ==
  ASSUME IInv, LInv, FatesRight, FatesRight', FatesTyped, FatesTyped',
         NEW p \in Passengers, Leaves(p)
  PROVE  Abstract!Deliver(p)
<1>1. /\ req' = req /\ floors' = floors /\ onboard' = onboard \ {p} /\ p \in onboard
      /\ Passengers' = Passengers
  BY DEF Leaves, Passengers
<1>2. mem'[p] = "unlinked" /\ \A q \in Passengers \ {p} : mem'[q] = mem[q]
  BY Unlinking DEF Leaves
<1>3. FateOf(p) = "riding" /\ FateOf(p)' = "served"
  BY <1>1, <1>2 DEF FatesRight
<1>4. \A q \in Passengers \ {p} : FateOf(q)' = FateOf(q)
  <2>1. \A q \in Passengers : On(start_floor(q))' = On(start_floor(q))
    BY <1>1 DEF On, start_floor
  <2> QED  BY <1>1, <1>2, <2>1, SameFate
<1>5. fate' = [fate EXCEPT ![p] = "served"]
  BY <1>1, <1>3, <1>4, OneFate DEF Fates
<1>6. served' = [served EXCEPT ![req[p].destination_floor] = @ + 1]
  BY DEF Leaves, Counted, destination_floor
<1>7. fate[p] = "riding"
  BY <1>3 DEF FatesTyped
<1> QED  BY <1>1, <1>5, <1>6, <1>7 DEF Abstract!Deliver, Abstract!Serve, fate

LEMMA FirstOffFates ==
  ASSUME IInv, LInv, FatesRight, FatesRight', FatesTyped, FatesTyped',
         NEW p, FirstOff(p), NEW f \in Fates, FateOf(p)' = f,
         \A q \in Passengers \ {p} : mem'[q] = mem[q],
         onboard' \in {onboard, onboard \cup {p}}
  PROVE  p \in Passengers /\ fate' = [fate EXCEPT ![p] = f]
<1>1. p \in Passengers /\ req' = req /\ Passengers' = Passengers
  BY FirstOffLists DEF LInv, FirstOff, Passengers
<1>2. \A q \in Passengers \ {p} : FateOf(q)' = FateOf(q)
  <2> SUFFICES ASSUME NEW q \in Passengers \ {p} PROVE FateOf(q)' = FateOf(q)
    OBVIOUS
  <2>1. start_floor(q)' = start_floor(q) /\ start_floor(q) \in Floors
    BY <1>1, WaitingIsOn DEF start_floor
  <2>2. \A g \in Floors : On(g)' = On(g) \ {p}
    BY FirstOffLists DEF LInv
  <2>3. ASSUME NEW g \in Floors, g = start_floor(q)
        PROVE  On(start_floor(q))' = On(start_floor(q)) \ {p}
    <3>1. On(start_floor(q))' = On(g)'
      BY <2>1, <2>3 DEF On
    <3> QED  BY <2>2, <2>3, <3>1
  <2> QED  BY <1>1, <2>1, <2>3, SameFate
<1> QED  BY <1>1, <1>2, OneFate

LEMMA GreetedIsGreet ==
  ASSUME IInv, LInv, FatesRight, FatesRight', FatesTyped, FatesTyped',
         NEW p \in Passengers, Greeted(p)
  PROVE  Abstract!Greet(p)
<1>1. FirstOff(p) /\ Equal(p) /\ Counted(p) /\ onboard' = onboard /\ req' = req
  BY DEF Greeted, FirstOff, loadVars
<1>2. p \in Passengers' /\ mem'[p] = "unlinked" /\ \A q \in Passengers \ {p} : mem'[q] = mem[q]
  BY <1>1, Unlinking DEF Passengers
<1>3. FateOf(p)' = "served"
  BY <1>2 DEF FatesRight
<1>4. fate' = [fate EXCEPT ![p] = "served"]
  BY <1>1, <1>2, <1>3, FirstOffFates DEF Fates
<1>5. served' = [served EXCEPT ![req[p].destination_floor] = @ + 1]
  BY <1>1 DEF Counted, destination_floor
<1>6. Abstract!First(p) /\ req[p].start_floor = req[p].destination_floor
  BY <1>1, FirstMapped DEF Equal, start_floor, destination_floor
<1> QED  BY <1>1, <1>4, <1>5, <1>6 DEF Abstract!Greet, Abstract!Serve, fate

LEMMA BoardsIsBoard ==
  ASSUME IInv, LInv, LoadAccounting, FatesRight, FatesRight', FatesTyped, FatesTyped',
         NEW p \in Passengers, Boards(p)
  PROVE  Abstract!Board(p)
<1>1. /\ FirstOff(p) /\ ~Equal(p) /\ Fits(p) /\ onboard' = onboard \cup {p}
      /\ req' = req /\ mem' = mem /\ served' = served
  BY DEF Boards, FirstOff, tallyVars
<1>2. FateOf(p)' = "riding"
  BY <1>1 DEF FatesRight, Passengers
<1>3. fate' = [fate EXCEPT ![p] = "riding"]
  BY <1>1, <1>2, FirstOffFates DEF Fates
<1>4. Abstract!First(p) /\ req[p].start_floor # req[p].destination_floor
  BY <1>1, FirstMapped DEF Equal, start_floor, destination_floor
<1>5. p \notin onboard /\ onboard \in SUBSET Passengers
  BY <1>1, FirstOffLists DEF LInv, Linked, IInv, TypeOK
<1>6. type(p) \in Types
  BY Typing DEF type, Passenger
<1>7. /\ Abstract!Load(onboard \cup {p}, WeightOf) = current_weight + weight_units(type(p))
      /\ Abstract!Load(onboard \cup {p}, SpaceOf) = current_units + space_units(type(p))
  BY <1>5, <1>6, LoadOfOneMore, SizesOfTypes DEF LoadAccounting
<1>8. /\ Abstract!Load(Abstract!Having("riding") \cup {p}, WeightOf) <= MAXWEIGHT
      /\ Abstract!Load(Abstract!Having("riding") \cup {p}, SpaceOf) <= MAXUNITS
  BY <1>1, <1>7, Mapped DEF Fits
<1> QED  BY <1>1, <1>3, <1>4, <1>8 DEF Abstract!Board, fate

LEMMA AsksIsAsk ==
  ASSUME IInv, LInv, FatesRight, FatesRight', FatesTyped, FatesTyped',
         NEW r \in Requests, Asks(r)
  PROVE  Abstract!Ask(r)
<1> DEFINE n == Len(req) + 1
<1>1. /\ Len(req') = n /\ Passengers' = Passengers \cup {n} /\ n \notin Passengers
      /\ \A q \in Passengers : req'[q] = req[q] /\ mem'[q] = mem[q]
      /\ onboard' = onboard /\ served' = served
  BY AsksLists DEF LInv, Asks, loadVars, tallyVars
<1>2. ASSUME NEW q \in Passengers PROVE FateOf(q)' = FateOf(q)
  <2>1. start_floor(q)' = start_floor(q) /\ start_floor(q) \in Floors
    BY <1>1, WaitingIsOn DEF start_floor
  <2>2. \A f \in Floors : q \in On(f)' <=> q \in On(f)
    BY <1>1, AsksLists DEF LInv
  <2>3. ASSUME NEW f \in Floors, f = start_floor(q)
        PROVE  q \in On(start_floor(q))' <=> q \in On(start_floor(q))
    <3>1. On(start_floor(q))' = On(f)'
      BY <2>1, <2>3 DEF On
    <3> QED  BY <2>2, <2>3, <3>1
  <2> QED  BY <1>1, <2>1, <2>3, SameFate
<1>3. \A q : q = n => FateOf(q)' \in {"waiting", "gone"}
  <2> SUFFICES ASSUME NEW q, q = n PROVE FateOf(q)' \in {"waiting", "gone"}
    OBVIOUS
  <2>1. q \in Passengers' /\ q \notin onboard' /\ mem'[q] \in {"linked", "none"}
    BY <1>1, AsksLists DEF LInv, IInv, TypeOK
  <2> QED  BY <2>1 DEF FatesRight, Fates
<1>4. \E f \in {"waiting", "gone"} : fate' = Append(fate, f)
  <2> HIDE DEF n
  <2>1. /\ fate \in Seq(Fates) /\ Len(fate) = Len(req) /\ Len(req) \in Nat
        /\ fate' \in Seq(Fates) /\ Len(fate') = n
        /\ \A q \in Passengers : fate[q] = FateOf(q)
        /\ \A q \in Passengers' : fate'[q] = FateOf(q)'
    BY <1>1 DEF FatesTyped
  <2>2. fate'[n] \in {"waiting", "gone"} /\ \A q \in 1 .. Len(req) : fate'[q] = fate[q]
    BY <1>1, <1>2, <1>3, <2>1 DEF Passengers
  <2>3. /\ Append(fate, fate'[n]) \in Seq(Fates) /\ Len(Append(fate, fate'[n])) = n
        /\ \A q \in 1 .. n : Append(fate, fate'[n])[q] = fate'[q]
    BY <2>1, <2>2 DEF Fates, n
  <2>4. fate' = Append(fate, fate'[n])
    BY <2>1, <2>3, SeqEqual
  <2> QED  BY <2>2, <2>4
<1> QED  BY <1>1, <1>4 DEF Abstract!Ask, Asks, fate

LEMMA ClearsIsClose ==
  ASSUME IInv, LInv, FatesRight, FatesRight', FatesTyped, FatesTyped', Clears
  PROVE  Abstract!Close
<1>1. /\ req' = req /\ onboard' = onboard /\ served' = served /\ Passengers' = Passengers
  BY DEF Clears, loadVars, tallyVars, Passengers
<1>2. ASSUME NEW p \in Passengers
      PROVE  FateOf(p)' = IF FateOf(p) = "waiting" THEN "gone" ELSE FateOf(p)
  <2>1. start_floor(p)' = start_floor(p) /\ start_floor(p) \in Floors
    BY <1>1, WaitingIsOn DEF start_floor
  <2>2. \A f \in Floors : On(f)' = {}
    BY ClearsLists
  <2>3. ASSUME NEW f \in Floors, f = start_floor(p) PROVE On(start_floor(p))' = {}
    <3>1. On(start_floor(p))' = On(f)'
      BY <2>1, <2>3 DEF On
    <3> QED  BY <2>2, <3>1
  <2>4. p \notin On(start_floor(p))'
    BY <2>1, <2>3
  <2>5. CASE p \in On(start_floor(p))
    <3>1. mem'[p] = "freed"
      BY <2>5, ClearsLists
    <3> QED  BY <1>1, <2>5, <3>1 DEF FatesRight
  <2>6. CASE p \notin On(start_floor(p))
    <3>1. mem'[p] = mem[p]
      BY <2>6, ClearsLists
    <3> QED  BY <1>1, <2>4, <2>6, <3>1, SameFate DEF FatesRight
  <2> QED  BY <2>5, <2>6
<1>3. \A p \in Passengers : fate'[p] = IF fate[p] = "waiting" THEN "gone" ELSE fate[p]
  BY <1>1, <1>2 DEF FatesTyped
<1>4. fate' = [p \in Passengers |-> IF fate[p] = "waiting" THEN "gone" ELSE fate[p]]
  BY <1>1, <1>3 DEF fate
<1> QED  BY <1>1, <1>4, Mapped DEF Abstract!Close, fate

LEMMA QuietIsStutter ==
  ASSUME FatesRight, FatesRight', FatesTyped, FatesTyped', Quiet
  PROVE  UNCHANGED Abstract!vars
<1>1. /\ req' = req /\ onboard' = onboard /\ served' = served /\ floors' = floors
      /\ mem' = mem /\ Passengers' = Passengers
  BY DEF Quiet, loadVars, tallyVars, heapVars, Passengers
<1>2. \A p \in Passengers : FateOf(p)' = FateOf(p)
  <2>1. \A p \in Passengers : On(start_floor(p))' = On(start_floor(p))
    BY <1>1 DEF On, start_floor
  <2> QED  BY <1>1, <2>1, SameFate
<1>3. fate' = fate
  BY <1>1, <1>2 DEF fate
<1> QED  BY <1>1, <1>3 DEF Abstract!vars, fate

\* Every step does to the passengers what a step of ElevatorService does.
LEMMA StepOfService ==
  IInv /\ LInv /\ LoadAccounting /\ [Next]_vars /\ IInv' /\ LInv'
    => [Abstract!Next]_(Abstract!vars)
<1> SUFFICES ASSUME IInv, LInv, LoadAccounting, [Next]_vars, IInv', LInv'
             PROVE  [Abstract!Next]_(Abstract!vars)
  OBVIOUS
<1>1. FatesRight /\ FatesRight' /\ FatesTyped /\ FatesTyped'
  BY NobodyIsLost, NobodyWillBeLost, FateIsSequence, FateStaysSequence
<1>2. Abstract!People = Passengers
  BY Mapped
<1>3. CASE Quiet
  BY <1>1, <1>3, QuietIsStutter
<1>4. CASE Clears
  BY <1>1, <1>4, ClearsIsClose DEF Abstract!Next
<1>5. ASSUME NEW p \in Passengers, Leaves(p) \/ Greeted(p) \/ Boards(p)
      PROVE  Abstract!Next
  <2>1. Abstract!Deliver(p) \/ Abstract!Greet(p) \/ Abstract!Board(p)
    BY <1>1, <1>5, LeavesIsDeliver, GreetedIsGreet, BoardsIsBoard
  <2> QED  BY <1>2, <2>1 DEF Abstract!Next
<1>6. ASSUME NEW r \in Requests, Asks(r) PROVE Abstract!Next
  <2>1. Abstract!Ask(r)
    BY <1>1, <1>6, AsksIsAsk
  <2>2. ValidRequest(r)
    BY <1>6 DEF Asks
  <2> QED  BY <2>1, <2>2 DEF Abstract!Next
<1> QED  BY <1>3, <1>4, <1>5, <1>6, ListSteps

LEMMA InitOfService == Init => Abstract!Init
<1> SUFFICES ASSUME Init PROVE Abstract!Init
  OBVIOUS
<1>1. req = <<>> /\ served = [f \in Floors |-> 0] /\ Passengers = {}
  BY EmptySeq DEF Init, Passengers
<1>2. fate = <<>>
  BY <1>1 DEF fate
<1> QED  BY <1>1, <1>2 DEF Abstract!Init, fate

\* The scheduler, the system calls and elevator_exit together keep what
\* ElevatorService promises: everyone gets in when it is his turn and he fits, by
\* his own weight and not by the counters, and is let off and counted where he
\* wanted to go.
THEOREM ElevatorKeepsService == Spec => Service
<1>1. Init => Abstract!Init
  BY InitOfService
<1>2. IInv /\ LInv /\ LoadAccounting /\ [Next]_vars /\ IInv' /\ LInv'
        => [Abstract!Next]_(Abstract!vars)
  BY StepOfService
<1> QED  BY <1>1, <1>2, ListInvariance, LoadAccounted, PTL DEF Spec, Service, Abstract!Spec

=============================================================================
