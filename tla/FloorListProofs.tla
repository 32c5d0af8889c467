--------------------------- MODULE FloorListProofs ---------------------------
(***************************************************************************)
(* Proofs about the lists as pointers, for any number of floors, requests  *)
(* and readers: as long as no two operations on one list have overlapped,  *)
(* every list is whole at every single write, and every operation changes  *)
(* it at one of its writes (ListService).                                  *)
(***************************************************************************)
EXTENDS MCFloorList, SequenceTheorems, FiniteSetTheorems, TLAPS

-----------------------------------------------------------------------------
(* The inductive invariant.                                                *)

\* The k-th node of the list h; the head is before the first and after the last.
Node(h, k) == IF k \in 1 .. Len(on[h]) THEN on[h][k] ELSE h
LastNode(h)    == Node(h, Len(on[h]))
OnList(n, h) == \E k \in 1 .. Len(on[h]) : on[h][k] = n

Fresh(p)    == pc[p] \in {"new", "add_prev", "add_self", "add_next"}
AddingNow(p) == pc[p] \in {"add_prev", "add_self", "add_next"}

\* Who is on a list is on it once and on no other, and on that of his own floor.
Lists ==
  /\ on \in [Heads -> Seq(Passengers)]
  /\ \A g, h \in Heads : \A j \in 1 .. Len(on[g]), k \in 1 .. Len(on[h]) :
       on[g][j] = on[h][k] => g = h /\ j = k
  /\ \A f \in Floors : \A k \in 1 .. Len(on[f]) : start_floor[on[f][k]] = f
  /\ \A h \in Heads : \A k \in 1 .. Len(on[h]) : ~Fresh(on[h][k])

Forward == \A h \in Heads : \A k \in 0 .. Len(on[h]) : next[Node(h, k)] = Node(h, k + 1)

\* prev of the head is written before the node it leads to is on the list, and
\* prev of the node behind one that is unlinked before that is off it.
Late(h) == \/ \E p \in Passengers : pc[p] \in {"add_self", "add_next"} /\ start_floor[p] = h
           \/ pc[scheduler] = "place_next" /\ dest = h
Bypassed(h, k) == /\ pc[scheduler] = "unlink_next" /\ h = head
                  /\ k - 1 \in 1 .. Len(on[h]) /\ on[h][k - 1] = temp

Backward ==
  \A h \in Heads : \A k \in 1 .. Len(on[h]) + 1 :
    \/ prev[Node(h, k)] = Node(h, k - 1)
    \/ k = Len(on[h]) + 1 /\ Late(h)
    \/ Bypassed(h, k)

\* A list_add_tail under way: alone on its list, with pointers that still fit.
Adders ==
  \A p \in Passengers : AddingNow(p) =>
    /\ ~Removing(start_floor[p])
    /\ \A q \in Passengers : AddingNow(q) /\ start_floor[q] = start_floor[p] => q = p
    /\ at[p] = LastNode(start_floor[p])
    /\ pc[p] \in {"add_self", "add_next"} => prev[start_floor[p]] = p
    /\ pc[p] = "add_next" => next[p] = start_floor[p] /\ prev[p] = at[p]

\* The loop of the scheduler thread, and list_del or list_move_tail under way.
Looping ==
  /\ pc[scheduler] = "save" => temp = head \/ OnList(temp, head)
  /\ pc[scheduler] \in {"body", "unlink_prev", "unlink_next"} => OnList(temp, head)
  /\ pc[scheduler] \in {"body", "unlink_prev", "unlink_next", "place", "place_next", "who"} =>
       dummy # temp /\ (dummy = head \/ OnList(dummy, head))

Unlinking ==
  pc[scheduler] \in {"unlink_prev", "unlink_next"} =>
    \A k \in 1 .. Len(on[head]) : on[head][k] = temp =>
      /\ before = Node(head, k - 1) /\ after = Node(head, k + 1)
      /\ pc[scheduler] = "unlink_next" => prev[after] = before

Placing ==
  /\ pc[scheduler] \in {"unlink_prev", "unlink_next", "place", "place_next"} =>
       dest \in {Bad, onboard, move_list} \ {head}
  /\ pc[scheduler] \in {"place", "place_next"} =>
       temp \in Passengers /\ ~Fresh(temp) /\ \A h \in Heads : ~OnList(temp, h)
  /\ pc[scheduler] = "place_next" =>
       /\ dest # Bad /\ before = LastNode(dest)
       /\ prev[dest] = temp /\ prev[temp] = before /\ next[temp] = dest

\* What is true of the lists as long as nothing has raced.
Whole == Lists /\ Forward /\ Backward /\ Adders /\ Looping /\ Unlinking /\ Placing

\* A walk over the list f that is at n has come to the k-th node: in s is
\* everybody before that one, and everybody in w is on the list.
SumAt(f, s, w, n) ==
  \E k \in 1 .. Len(on[f]) + 1 :
    /\ s = {on[f][j] : j \in 1 .. k - 1}
    /\ \A p \in w : OnList(p, f)
    /\ \/ n = f /\ w \subseteq s
       \/ k <= Len(on[f]) /\ n = on[f][k]

Summing ==
  \A r \in Readers : pc[r] = "visit" /\ r \notin disturbed =>
    SumAt(floor[r], seen[r], was[r], at[r])

\* Types that hold whatever has raced.
Pointers == /\ next \in [Nodes -> Nodes \cup {Bad}] /\ prev \in [Nodes -> Nodes \cup {Bad}]
            /\ i \in 1 .. lastfloor + 1

Threading == pc \in [Threads -> PCs] /\ at \in [Threads -> Nodes \cup {Bad}]

OfRequest(p) ==
  /\ pc[p] \in {"new", "add_prev", "add_self", "add_next", "print", "index", "first",
                "visit", "test", "store", "done", "lost"}
  /\ pc[p] \in {"first", "store"} => at[p] \in Floors

OfReader(r) == pc[r] \in {"new", "visit", "lost"} /\ (pc[r] = "new" => seen[r] = {})

Reading == /\ floor \in [Readers -> Floors] /\ DOMAIN was = Readers
           /\ seen \in [Readers -> SUBSET (Nodes \cup {Bad})]
           /\ \A r \in Readers : OfReader(r)

Working ==
  /\ head \in Heads /\ exiting \in BOOLEAN /\ dest \in {Bad, onboard, move_list}
  /\ dummy \in Nodes \cup {Bad} /\ before \in Nodes \cup {Bad} /\ after \in Nodes \cup {Bad}
  /\ pc[scheduler] \in {"new", "save", "body", "unlink_prev", "unlink_next", "place",
                        "place_next", "who", "done", "lost"}
  /\ pc[scheduler] \in {"body", "unlink_prev", "unlink_next", "place", "place_next", "who"} =>
       temp \in Nodes
  /\ pc[scheduler] = "place_next" => dest # Bad

Types == /\ Pointers /\ Threading /\ Reading /\ Working
         /\ start_floor \in [Passengers -> Floors]
         /\ \A p \in Passengers : OfRequest(p)

LInv == Types /\ (~raced => Whole /\ Summing)

-----------------------------------------------------------------------------
(* Sequences.                                                              *)

LEMMA AppendOne ==
  ASSUME NEW S, NEW s \in Seq(S), NEW e \in S
  PROVE  /\ Append(s, e) \in Seq(S) /\ Len(Append(s, e)) = Len(s) + 1
         /\ \A k \in 1 .. Len(s) : Append(s, e)[k] = s[k]
         /\ Append(s, e)[Len(s) + 1] = e
  BY AppendProperties

\* What RemoveFirst makes of a sequence that has e once.
LEMMA RemoveOne ==
  ASSUME NEW S, NEW s \in Seq(S), NEW k \in 1 .. Len(s),
         \A j \in 1 .. Len(s) : s[j] = s[k] => j = k
  PROVE  LET t == RemoveFirst(s, s[k])
         IN  /\ t \in Seq(S) /\ Len(t) = Len(s) - 1
             /\ \A j \in 1 .. Len(t) : t[j] = IF j < k THEN s[j] ELSE s[j + 1]
<1> DEFINE I == {j \in 1 .. Len(s) : s[j] = s[k]}
           a == SubSeq(s, 1, k - 1)
           b == SubSeq(s, k + 1, Len(s))
<1>1. I = {k}
  OBVIOUS
<1>2. Min(I) = k
  BY <1>1 DEF Min
<1>3. SelectInSeq(s, LAMBDA v : v = s[k]) = k
  BY <1>1, <1>2 DEF SelectInSeq
<1>4. RemoveFirst(s, s[k]) = a \o b
  BY <1>3 DEF RemoveFirst, RemoveAt
<1>5. /\ a \in Seq(S) /\ Len(a) = k - 1
      /\ \A j \in 1 .. k - 1 : a[j] = s[j]
  BY SubSeqProperties, LenProperties
<1>6. /\ b \in Seq(S) /\ Len(b) = Len(s) - k
      /\ \A j \in 1 .. Len(s) - k : b[j] = s[k + j]
  BY SubSeqProperties, LenProperties
<1> HIDE DEF a, b
<1>7. /\ a \o b \in Seq(S) /\ Len(a \o b) = Len(s) - 1
      /\ \A j \in 1 .. Len(s) - 1 : (a \o b)[j] = IF j <= k - 1 THEN a[j] ELSE b[j - (k - 1)]
  <2>1. /\ a \o b \in Seq(S) /\ Len(a \o b) = Len(a) + Len(b)
        /\ \A j \in 1 .. Len(a) + Len(b) :
             (a \o b)[j] = IF j <= Len(a) THEN a[j] ELSE b[j - Len(a)]
    BY <1>5, <1>6, ConcatProperties
  <2>2. Len(a) + Len(b) = Len(s) - 1
    BY <1>5, <1>6, LenProperties
  <2> QED  BY <1>5, <2>1, <2>2
<1>8. \A j \in 1 .. Len(s) - 1 : (a \o b)[j] = IF j < k THEN s[j] ELSE s[j + 1]
  <2> TAKE j \in 1 .. Len(s) - 1
  <2>1. Len(s) \in Nat
    BY LenProperties
  <2>2. CASE j < k
    BY <1>5, <1>7, <2>1, <2>2
  <2>3. CASE ~(j < k)
    <3>1. j - (k - 1) \in 1 .. Len(s) - k /\ k + (j - (k - 1)) = j + 1
      BY <2>1, <2>3
    <3>2. b[j - (k - 1)] = s[j + 1]
      BY <1>6, <3>1
    <3> QED  BY <1>7, <2>1, <2>3, <3>2
  <2> QED  BY <2>2, <2>3
<1> QED  BY <1>4, <1>7, <1>8

-----------------------------------------------------------------------------
(* Types.                                                                  *)

LEMMA Numbers ==
  /\ lastfloor \in Nat \ {0} /\ Floors \subseteq Heads /\ Heads \subseteq Nodes
  /\ onboard \in Heads /\ move_list \in Heads /\ 1 \in Floors
  /\ onboard \notin Floors /\ move_list \notin Floors /\ onboard # move_list
  /\ Passengers \subseteq Nodes /\ Passengers \cap Heads = {} /\ Bad \notin Nodes
  /\ \A n \in Nodes \cup {Bad} : n \in 1 .. lastfloor + 1 => n \in Floors
  BY ListAssumption, NodeAssumption DEF Floors, Heads, Nodes, onboard, move_list

LEMMA Kinds ==
  /\ Passengers \subseteq Threads /\ Readers \subseteq Threads /\ scheduler \in Threads
  /\ Passengers \cap Readers = {} /\ scheduler \notin Passengers /\ scheduler \notin Readers
  /\ \A t \in Threads : t \in Passengers \/ t \in Readers \/ t = scheduler
  BY NodeAssumption DEF Threads

LEMMA InitTypes == Init => Types
<1> SUFFICES ASSUME Init PROVE Types
  OBVIOUS
<1>1. Pointers /\ Threading
  BY Numbers DEF Init, Pointers, Threading, PCs
<1>2. Reading /\ Working
  BY Numbers, Kinds DEF Init, Reading, Working, OfReader
<1> QED  BY <1>1, <1>2, Numbers, Kinds DEF Init, Types, OfRequest

Alone(t) == \A u \in Threads : u # t => pc'[u] = pc[u] /\ at'[u] = at[u]

\* Thread t goes to a position and may load a pointer.
LEMMA ThreadSteps ==
  ASSUME Threading, NEW t \in Threads, NEW from, NEW to \in PCs, At(t, from, to),
         NEW n \in Nodes \cup {Bad}, at' = at \/ Hold(t, n)
  PROVE  /\ Threading' /\ Alone(t) /\ pc[t] = from /\ pc'[t] = to
         /\ Hold(t, n) => at'[t] = n
  BY DEF Threading, At, Hold, Alone

LEMMA RequestFrame ==
  ASSUME Types, NEW p \in Passengers, Threading', Alone(p), Pointers', OfRequest(p)',
         UNCHANGED <<start_floor, readVars, workVars>>
  PROVE  Types'
<1> USE DEF Types
<1>1. \A q \in Passengers : OfRequest(q)'
  BY Kinds DEF Alone, OfRequest
<1>2. Reading'
  BY Kinds DEF Alone, Reading, OfReader, readVars
<1>3. Working'
  BY Kinds DEF Alone, Working, workVars, temp
<1> QED  BY <1>1, <1>2, <1>3

LEMMA RequestTypes ==
  ASSUME Types, NEW p \in Passengers, AddRead(p) \/ Request(p)
  PROVE  Types'
<1> USE Kinds, Numbers DEF ptrVars, historyVars, PrintStep, Types, Pointers, PCs
<1>0. p \in Threads /\ p \in Nodes /\ start_floor[p] \in Floors /\ start_floor[p] \in Heads
      /\ at[p] \in Nodes \cup {Bad} /\ OfRequest(p)
  BY DEF Threading
<1>1. CASE AddRead(p)
  <2>1. Threading' /\ Alone(p) /\ pc'[p] = "add_prev"
    BY <1>0, <1>1, ThreadSteps DEF AddRead
  <2> QED  BY <1>1, <2>1, RequestFrame DEF AddRead, OfRequest
<1>2. CASE AddPrev(p)
  <2>1. Threading' /\ Alone(p) /\ pc'[p] = "add_self"
    BY <1>0, <1>2, ThreadSteps DEF AddPrev
  <2> QED  BY <1>0, <1>2, <2>1, RequestFrame DEF AddPrev, OfRequest, Set
<1>3. CASE AddSelf(p)
  <2>1. Threading' /\ Alone(p) /\ pc'[p] = "add_next"
    BY <1>0, <1>3, ThreadSteps DEF AddSelf
  <2> QED  BY <1>0, <1>3, <2>1, RequestFrame DEF AddSelf, OfRequest, Set
<1>4. CASE AddNext(p)
  <2>1. Threading' /\ Alone(p) /\ pc'[p] \in {"print", "lost"}
    BY <1>0, <1>4, ThreadSteps DEF AddNext
  <2> QED  BY <1>0, <1>4, <2>1, RequestFrame DEF AddNext, OfRequest, Set
<1>5. CASE PrintBegin(p)
  <2>1. Threading' /\ Alone(p) /\ pc'[p] = "index"
    BY <1>0, <1>5, ThreadSteps DEF PrintBegin
  <2>2. i' \in 1 .. lastfloor + 1
    BY <1>5 DEF PrintBegin
  <2> QED  BY <1>0, <1>5, <2>1, <2>2, RequestFrame DEF PrintBegin, OfRequest
<1>6. CASE PrintIndex(p)
  <2> DEFINE to == IF i \in Floors THEN "first" ELSE "lost"
             n == IF i \in Floors THEN i ELSE onboard
  <2>1. Threading' /\ Alone(p) /\ pc'[p] = to /\ at'[p] = n
    BY <1>0, <1>6, ThreadSteps DEF PrintIndex
  <2> QED  BY <1>0, <1>6, <2>1, RequestFrame DEF PrintIndex, OfRequest
<1>7. CASE PrintFirst(p)
  <2> DEFINE to == IF next[at[p]] = at[p] THEN "store" ELSE "visit"
  <2>1. pc[p] = "first" /\ at[p] \in Floors
    BY <1>0, <1>7 DEF PrintFirst, At, OfRequest
  <2>2. next[at[p]] \in Nodes \cup {Bad}
    BY <2>1
  <2>3. Threading' /\ Alone(p) /\ pc'[p] = to /\ at'[p] = next[at[p]]
    BY <1>0, <1>7, <2>2, ThreadSteps DEF PrintFirst
  <2> QED  BY <1>0, <1>7, <2>1, <2>3, RequestFrame DEF PrintFirst, OfRequest
<1>8. CASE PrintVisit(p)
  <2> DEFINE to == IF at[p] = Bad THEN "lost" ELSE "test"
             n == IF at[p] = Bad THEN onboard ELSE next[at[p]]
  <2>1. n \in Nodes \cup {Bad}
    BY <1>0
  <2>2. Threading' /\ Alone(p) /\ pc'[p] = to
    BY <1>0, <1>8, <2>1, ThreadSteps DEF PrintVisit
  <2> QED  BY <1>0, <1>8, <2>2, RequestFrame DEF PrintVisit, OfRequest
<1>9. CASE PrintTest(p)
  <2> DEFINE to == IF at[p] = i THEN "store" ELSE "visit"
  <2>1. Threading' /\ Alone(p) /\ pc'[p] = to /\ at' = at
    BY <1>0, <1>9, ThreadSteps DEF PrintTest
  <2> QED  BY <1>0, <1>9, <2>1, RequestFrame DEF PrintTest, OfRequest
<1>10. CASE PrintStore(p)
  <2> DEFINE to == IF at[p] < lastfloor THEN "index" ELSE "done"
  <2>1. Threading' /\ Alone(p) /\ pc'[p] = to
    BY <1>0, <1>10, ThreadSteps DEF PrintStore
  <2>2. at[p] \in Floors
    BY <1>0, <1>10 DEF PrintStore, At, OfRequest
  <2>3. i' \in 1 .. lastfloor + 1
    BY <1>10, <2>2 DEF PrintStore, Floors
  <2> QED  BY <1>0, <1>10, <2>1, <2>3, RequestFrame DEF PrintStore, OfRequest
<1> QED  BY <1>1, <1>2, <1>3, <1>4, <1>5, <1>6, <1>7, <1>8, <1>9, <1>10 DEF Request

LEMMA ReaderTypes ==
  ASSUME Types, NEW r \in Readers,
         SumVisit(r) \/ SumEnd(r) \/ \E f \in Floors : SumBegin(r, f)
  PROVE  Types'
<1> USE Kinds, Numbers DEF Types, PCs
<1>0. r \in Threads /\ at[r] \in Nodes \cup {Bad} /\ OfReader(r)
  BY DEF Threading, Reading
<1>1. ASSUME Threading', Alone(r), Reading',
             UNCHANGED <<ptrVars, i, start_floor, workVars>>
      PROVE  Types'
  <2>1. \A p \in Passengers : OfRequest(p)'
    BY <1>1 DEF Alone, OfRequest
  <2>2. Working' /\ Pointers'
    BY <1>1 DEF Alone, Working, workVars, temp, Pointers, ptrVars
  <2> QED  BY <1>1, <2>1, <2>2
<1>2. ASSUME Alone(r), OfReader(r)', \A q \in Readers : q # r => seen'[q] = seen[q],
             floor' \in [Readers -> Floors], DOMAIN was' = Readers,
             seen' \in [Readers -> SUBSET (Nodes \cup {Bad})]
      PROVE  Reading'
  BY <1>2 DEF Alone, Reading, OfReader
<1>3. ASSUME NEW f \in Floors, SumBegin(r, f) PROVE Types'
  <2>1. next[f] \in Nodes \cup {Bad}
    BY DEF Pointers
  <2>2. Threading' /\ Alone(r) /\ pc'[r] = "visit"
    BY <1>0, <1>3, <2>1, ThreadSteps DEF SumBegin
  <2>3. Reading'
    BY <1>2, <1>3, <2>2 DEF SumBegin, OfReader, Reading
  <2> QED  BY <1>1, <1>3, <2>2, <2>3 DEF SumBegin, historyVars
<1>4. CASE SumVisit(r)
  <2> DEFINE to == IF at[r] = Bad THEN "lost" ELSE "visit"
             n == IF at[r] = Bad THEN Bad ELSE next[at[r]]
  <2>1. n \in Nodes \cup {Bad}
    BY <1>0 DEF Pointers
  <2>2. Threading' /\ Alone(r) /\ pc'[r] = to
    BY <1>0, <1>4, <2>1, ThreadSteps DEF SumVisit
  <2>3. Reading'
    BY <1>0, <1>2, <1>4, <2>2 DEF SumVisit, OfReader, Reading
  <2> QED  BY <1>1, <1>4, <2>2, <2>3 DEF SumVisit, historyVars
<1>5. CASE SumEnd(r)
  <2>1. Threading' /\ Alone(r) /\ pc'[r] = "new"
    BY <1>0, <1>5, ThreadSteps DEF SumEnd
  <2>2. Reading'
    BY <1>2, <1>5, <2>1 DEF SumEnd, OfReader, Reading
  <2> QED  BY <1>1, <1>5, <2>1, <2>2 DEF SumEnd, ptrVars
<1> QED  BY <1>3, <1>4, <1>5

LEMMA WorkFrame ==
  ASSUME Types, Threading', Alone(scheduler), Pointers', Working',
         UNCHANGED <<start_floor, readVars>>
  PROVE  Types'
<1>1. \A p \in Passengers : OfRequest(p)'
  BY Kinds DEF Alone, OfRequest, Types
<1>2. Reading'
  BY Kinds DEF Alone, Reading, OfReader, readVars, Types
<1> QED  BY <1>1, <1>2 DEF Types

LEMMA WorkTypes ==
  ASSUME Types, Scheduler \/ DeleteBegin \/ \E h \in Heads : LoopBegin(h)
  PROVE  Types'
<1> USE Kinds, Numbers DEF ptrVars, historyVars, Types, Pointers, PCs, Work
<1>0. scheduler \in Threads /\ temp \in Nodes \cup {Bad}
  BY DEF Threading, temp
<1>1. ASSUME NEW h \in Heads, NEW from, At(scheduler, from, "save"), Loop(h)
      PROVE  Threading' /\ Alone(scheduler) /\ pc'[scheduler] = "save"
  <2>1. next[h] \in Nodes \cup {Bad}
    OBVIOUS
  <2> QED  BY <1>1, <2>1, ThreadSteps DEF Loop
<1>2. ASSUME NEW h \in Heads, LoopBegin(h) PROVE Types'
  <2>1. Threading' /\ Alone(scheduler) /\ pc'[scheduler] = "save"
    BY <1>1, <1>2 DEF LoopBegin
  <2> QED  BY <1>2, <2>1, WorkFrame DEF LoopBegin, Loop, Working
<1>3. CASE DeleteBegin
  <2>1. Threading' /\ Alone(scheduler) /\ pc'[scheduler] = "save"
    BY <1>1, <1>3 DEF DeleteBegin
  <2> QED  BY <1>3, <2>1, WorkFrame DEF DeleteBegin, Loop, Working
<1>4. CASE Save
  <2>1. Threading' /\ Alone(scheduler) /\ at' = at
        /\ pc'[scheduler] = IF temp = Bad THEN "lost" ELSE "body"
    BY <1>0, <1>4, ThreadSteps DEF Save
  <2> QED  BY <1>0, <1>4, <2>1, WorkFrame DEF Save, Working, temp
<1>5. ASSUME NEW from, NEW to \in {"new", "done"}, LoopLeave(from, to) PROVE Types'
  <2>1. Threading' /\ Alone(scheduler) /\ pc'[scheduler] = to
    BY <1>0, <1>5, ThreadSteps DEF LoopLeave
  <2> QED  BY <1>5, <2>1, WorkFrame DEF LoopLeave, Working
<1>6. CASE LoopEnd
  <2>1. CASE \E to \in {"new", "done"} : LoopLeave("save", to)
    BY <1>5, <2>1
  <2>2. ASSUME head \in Floors, Work("save", "save"), UNCHANGED exiting,
               Loop(IF head = lastfloor THEN move_list ELSE head + 1)
        PROVE  Types'
    <3> DEFINE h == IF head = lastfloor THEN move_list ELSE head + 1
    <3>1. h \in Heads
      BY <2>2 DEF Floors
    <3>2. Threading' /\ Alone(scheduler) /\ pc'[scheduler] = "save"
      BY <1>1, <2>2, <3>1
    <3> QED  BY <2>2, <3>1, <3>2, WorkFrame DEF Loop, Working
  <2> QED  BY <1>6, <2>1, <2>2 DEF LoopEnd
<1>7. CASE LoadFull
  BY <1>5, <1>7 DEF LoadFull
<1>8. ASSUME NEW from, At(scheduler, from, "save"), Advance
      PROVE  Threading' /\ Alone(scheduler) /\ pc'[scheduler] = "save" /\ Working'
  <2>1. dummy \in Nodes \cup {Bad}
    BY DEF Working
  <2>2. Threading' /\ Alone(scheduler) /\ pc'[scheduler] = "save"
    BY <1>8, <2>1, ThreadSteps DEF Advance
  <2> QED  BY <1>8, <2>2 DEF Advance, Working
<1>9. CASE KeepOnboard \/ PrintWho
  <2>1. Threading' /\ Alone(scheduler) /\ Working'
    BY <1>8, <1>9 DEF KeepOnboard, PrintWho
  <2> QED  BY <1>9, <2>1, WorkFrame DEF KeepOnboard, PrintWho
<1>10. CASE Unlink
  <2> DEFINE to == IF Bad \in {prev[temp], next[temp]} THEN "lost" ELSE "unlink_prev"
  <2>1. Threading' /\ Alone(scheduler) /\ pc'[scheduler] = to /\ at' = at
    BY <1>10, ThreadSteps DEF Unlink
  <2>2. temp \in Nodes
    BY <1>10 DEF Unlink, At, Working
  <2>3. dest' \in {Bad, onboard, move_list}
    BY <1>10 DEF Unlink, Destinations
  <2> QED  BY <1>10, <2>1, <2>2, <2>3, WorkFrame DEF Unlink, Working, temp
<1>11. CASE UnlinkPrev
  <2>1. Threading' /\ Alone(scheduler) /\ pc'[scheduler] = "unlink_next" /\ at' = at
    BY <1>11, ThreadSteps DEF UnlinkPrev
  <2>2. temp \in Nodes /\ before \in Nodes \cup {Bad}
    BY <1>11 DEF UnlinkPrev, At, Working
  <2> QED  BY <1>11, <2>1, <2>2, WorkFrame DEF UnlinkPrev, Working, workVars, temp, Set
<1>12. CASE UnlinkNext
  <2>1. Threading' /\ Alone(scheduler) /\ pc'[scheduler] = "place" /\ at' = at
    BY <1>12, ThreadSteps DEF UnlinkNext
  <2>2. temp \in Nodes /\ after \in Nodes \cup {Bad} /\ head \in Heads
    BY <1>12 DEF UnlinkNext, At, Working
  <2>3. Pointers'
    BY <1>12, <2>2 DEF UnlinkNext, Set
  <2>5. Working'
    BY <1>12, <2>1, <2>2 DEF UnlinkNext, Working, temp
  <2> QED  BY <1>12, <2>1, <2>3, <2>5, WorkFrame DEF UnlinkNext
<1>13. CASE PlaceNowhere
  <2>1. Threading' /\ Alone(scheduler) /\ pc'[scheduler] = "who" /\ at' = at
    BY <1>13, ThreadSteps DEF PlaceNowhere
  <2>2. temp \in Nodes
    BY <1>13 DEF PlaceNowhere, At, Working
  <2> QED  BY <1>13, <2>1, <2>2, WorkFrame DEF PlaceNowhere, Working, workVars, temp, Set
<1>14. CASE PlaceLast
  <2>1. Threading' /\ Alone(scheduler) /\ pc'[scheduler] = "place_next" /\ at' = at
    BY <1>14, ThreadSteps DEF PlaceLast
  <2>2. temp \in Nodes /\ dest \in Heads
    BY <1>14 DEF PlaceLast, At, Working
  <2>3. prev[dest] \in Nodes \cup {Bad}
    BY <2>2
  <2>4. Pointers'
    BY <1>14, <2>2, <2>3 DEF PlaceLast, Set
  <2>5. Working'
    BY <1>14, <2>1, <2>2, <2>3 DEF PlaceLast, Working, temp
  <2> QED  BY <1>14, <2>1, <2>4, <2>5, WorkFrame DEF PlaceLast
<1>15. CASE PlaceNext
  <2>1. Threading' /\ Alone(scheduler) /\ pc'[scheduler] \in {"who", "lost"} /\ at' = at
    BY <1>15, ThreadSteps DEF PlaceNext
  <2>2. temp \in Nodes /\ dest \in Heads
    BY <1>15 DEF PlaceNext, At, Working
  <2>3. Pointers'
    BY <1>15, <2>2 DEF PlaceNext, Set
  <2>5. Working'
    BY <1>15, <2>1, <2>2 DEF PlaceNext, Working, workVars, temp
  <2> QED  BY <1>15, <2>1, <2>3, <2>5, WorkFrame DEF PlaceNext
<1> QED  BY <1>2, <1>3, <1>4, <1>6, <1>7, <1>9, <1>10, <1>11, <1>12, <1>13, <1>14, <1>15
         DEF Scheduler

LEMMA NextTypes == Types /\ [Next]_vars => Types'
<1> SUFFICES ASSUME Types, [Next]_vars PROVE Types'
  OBVIOUS
<1>1. CASE UNCHANGED vars
  BY <1>1 DEF vars, ptrVars, readVars, workVars, historyVars, Types, Pointers, Threading,
              Reading, Working, OfRequest, OfReader, temp
<1> QED  BY <1>1, RequestTypes, ReaderTypes, WorkTypes DEF Next

-----------------------------------------------------------------------------
(* Nodes of the lists.                                                     *)

\* Which node is where, and that no two places have the same one.
LEMMA NodeFacts ==
  ASSUME Lists
  PROVE  /\ \A h \in Heads : on[h] \in Seq(Passengers) /\ Len(on[h]) \in Nat
         /\ \A h \in Heads : \A k \in Int :
              IF k \in 1 .. Len(on[h]) THEN Node(h, k) = on[h][k] /\ Node(h, k) \in Passengers
                                       ELSE Node(h, k) = h
         /\ \A g, h \in Heads : \A j \in 1 .. Len(on[g]) + 1, k \in 1 .. Len(on[h]) + 1 :
              Node(g, j) = Node(h, k) => g = h /\ j = k
         /\ \A g, h \in Heads : \A j \in 0 .. Len(on[g]), k \in 0 .. Len(on[h]) :
              Node(g, j) = Node(h, k) => g = h /\ j = k
<1>1. \A h \in Heads : on[h] \in Seq(Passengers) /\ Len(on[h]) \in Nat
  BY LenProperties DEF Lists
<1>2. \A h \in Heads : \A k \in Int :
        IF k \in 1 .. Len(on[h]) THEN Node(h, k) = on[h][k] /\ Node(h, k) \in Passengers
                                 ELSE Node(h, k) = h
  BY <1>1, ElementOfSeq DEF Node
<1>3. ASSUME NEW g \in Heads, NEW h \in Heads, NEW j \in Int, NEW k \in Int,
             Node(g, j) = Node(h, k)
      PROVE  \/ g = h /\ j = k
             \/ g = h /\ j \notin 1 .. Len(on[g]) /\ k \notin 1 .. Len(on[h])
  <2>1. j \in 1 .. Len(on[g]) <=> k \in 1 .. Len(on[h])
    BY <1>2, <1>3, Numbers
  <2>2. CASE j \in 1 .. Len(on[g])
    BY <1>2, <1>3, <2>1, <2>2 DEF Lists
  <2>3. CASE j \notin 1 .. Len(on[g])
    BY <1>2, <1>3, <2>1, <2>3
  <2> QED  BY <2>2, <2>3
<1>4. ASSUME NEW g \in Heads, NEW h \in Heads, NEW j \in 1 .. Len(on[g]) + 1,
             NEW k \in 1 .. Len(on[h]) + 1, Node(g, j) = Node(h, k)
      PROVE  g = h /\ j = k
  <2>1. j \in Int /\ k \in Int
    BY <1>1
  <2> QED  BY <1>1, <1>3, <1>4, <2>1
<1>5. ASSUME NEW g \in Heads, NEW h \in Heads, NEW j \in 0 .. Len(on[g]),
             NEW k \in 0 .. Len(on[h]), Node(g, j) = Node(h, k)
      PROVE  g = h /\ j = k
  <2>1. j \in Int /\ k \in Int
    BY <1>1
  <2> QED  BY <1>1, <1>3, <1>5, <2>1
<1> QED  BY <1>1, <1>2, <1>4, <1>5

\* A passenger who is on no list is no node of one.
LEMMA OffNode ==
  ASSUME Lists, NEW n \in Passengers, \A h \in Heads : ~OnList(n, h)
  PROVE  \A h \in Heads : \A k \in Int : Node(h, k) # n
  BY NodeFacts, Numbers DEF OnList

LEMMA FreshOff ==
  ASSUME Lists, NEW p \in Passengers, Fresh(p)
  PROVE  \A h \in Heads : ~OnList(p, h)
  BY DEF Lists, OnList

\* The first of a list, and the one behind a passenger on it.
LEMMA NextNode ==
  ASSUME Lists, Forward, NEW h \in Heads
  PROVE  /\ next[h] = h \/ OnList(next[h], h)
         /\ \A n : OnList(n, h) => next[n] # n /\ (next[n] = h \/ OnList(next[n], h))
<1>1. \A k \in 0 .. Len(on[h]) : next[Node(h, k)] = Node(h, k + 1)
  BY DEF Forward
<1>2. \A k \in 1 .. Len(on[h]) + 1 : Node(h, k) = h \/ OnList(Node(h, k), h)
  BY NodeFacts DEF OnList
<1>3. next[h] = h \/ OnList(next[h], h)
  <2>1. Node(h, 0) = h /\ 0 \in 0 .. Len(on[h]) /\ 0 + 1 \in 1 .. Len(on[h]) + 1
    BY NodeFacts
  <2> QED  BY <1>1, <1>2, <2>1
<1>4. ASSUME NEW n, OnList(n, h) PROVE next[n] # n /\ (next[n] = h \/ OnList(next[n], h))
  <2>1. PICK k \in 1 .. Len(on[h]) : on[h][k] = n
    BY <1>4 DEF OnList
  <2>2. /\ k \in 0 .. Len(on[h]) /\ k \in 1 .. Len(on[h]) + 1 /\ k + 1 \in 1 .. Len(on[h]) + 1
        /\ Node(h, k) = n /\ k # k + 1
    BY <2>1, NodeFacts
  <2>3. next[n] = Node(h, k + 1)
    BY <1>1, <2>2
  <2> QED  BY <1>2, <2>2, <2>3, NodeFacts
<1> QED  BY <1>3, <1>4

\* The nodes whose pointers the scheduler thread has loaded to unlink another.
LEMMA Neighbours ==
  ASSUME Types, Whole, pc[scheduler] \in {"unlink_prev", "unlink_next"}
  PROVE  \E k \in 1 .. Len(on[head]) :
           /\ on[head][k] = temp /\ before = Node(head, k - 1) /\ after = Node(head, k + 1)
           /\ pc[scheduler] = "unlink_next" => prev[after] = before
  BY DEF Whole, Looping, Unlinking, OnList

LEMMA InitWhole == Init => Whole /\ Summing
<1> SUFFICES ASSUME Init PROVE Whole /\ Summing
  OBVIOUS
<1>1. Types
  BY InitTypes
<1>2. \A h \in Heads : on[h] = <<>> /\ Len(on[h]) = 0
  BY DEF Init
<1>3. Lists
  <2>1. on \in [Heads -> Seq(Passengers)]
    BY EmptySeq DEF Init
  <2>2. \A h \in Heads : 1 .. Len(on[h]) = {}
    BY <1>2
  <2> QED  BY <2>1, <2>2, Numbers DEF Lists
<1>4. \A h \in Heads : \A k \in Int : Node(h, k) = h
  BY <1>2 DEF Node
<1>5. Forward /\ Backward
  BY <1>2, <1>4, Numbers DEF Init, Forward, Backward
<1>6. Adders /\ Looping /\ Unlinking /\ Placing /\ Summing
  BY Kinds DEF Init, Adders, AddingNow, Looping, Unlinking, Placing, Summing
<1> QED  BY <1>3, <1>5, <1>6 DEF Whole

-----------------------------------------------------------------------------
(* The lists in a step of a request or a reader.                           *)

\* Who is on a list, as long as nobody is put on or taken off.
LEMMA SameLists ==
  ASSUME Lists, UNCHANGED <<on, start_floor>>, \A p \in Passengers : Fresh(p)' => Fresh(p)
  PROVE  Lists'
<1>1. \A h \in Heads : \A k \in 1 .. Len(on[h]) : ~Fresh(on[h][k])'
  BY ElementOfSeq DEF Lists
<1> QED  BY <1>1 DEF Lists

\* Whoever neither writes to a list nor works on one leaves all as it is.
LEMMA Elsewhere ==
  ASSUME Whole, UNCHANGED <<ptrVars, on, start_floor, workVars>>,
         pc'[scheduler] = pc[scheduler], at'[scheduler] = at[scheduler],
         \A p \in Passengers :
           /\ Fresh(p)' => Fresh(p)
           /\ AddingNow(p) \/ AddingNow(p)' => pc'[p] = pc[p] /\ at'[p] = at[p]
  PROVE  Whole'
<1> USE DEF Whole, ptrVars, workVars
<1>1. Lists'
  BY SameLists
<1>2. Forward'
  BY DEF Forward, Node
<1>3. \A h \in Heads : Late(h) => Late(h)'
  BY DEF Late, AddingNow
<1>4. \A h \in Heads : \A k : Bypassed(h, k) => Bypassed(h, k)'
  BY DEF Bypassed, temp
<1>5. Backward'
  BY <1>3, <1>4 DEF Backward, Node
<1>6. Adders'
  BY DEF Adders, AddingNow, Removing, LastNode, Node
<1>7. Looping' /\ Unlinking' /\ Placing'
  BY DEF Looping, Unlinking, Placing, OnList, LastNode, Node, temp, Fresh
<1> QED  BY <1>1, <1>2, <1>5, <1>6, <1>7

\* A step of a request that writes only to prev of n, where the work in
\* progress of the scheduler thread does not look.
LEMMA WorkUndisturbed ==
  ASSUME Whole, UNCHANGED <<on, start_floor, workVars>>,
         pc'[scheduler] = pc[scheduler], at'[scheduler] = at[scheduler],
         \A p \in Passengers : Fresh(p)' => Fresh(p),
         pc[scheduler] = "unlink_next" => prev'[after] = prev[after],
         pc[scheduler] = "place_next" =>
           prev'[dest] = prev[dest] /\ prev'[temp] = prev[temp] /\ next'[temp] = next[temp]
  PROVE  Looping' /\ Unlinking' /\ Placing'
<1> USE DEF Whole, workVars
<1>1. Looping'
  BY DEF Looping, OnList, temp
<1>2. Unlinking'
  BY DEF Unlinking, Node, temp
<1>3. Placing'
  BY DEF Placing, OnList, LastNode, Node, temp
<1> QED  BY <1>1, <1>2, <1>3

\* What list_add_tail finds on a list that nobody else is changing.
LEMMA LastOfFloor ==
  ASSUME Types, Whole, NEW f \in Floors, ~Adding(f), ~Removing(f)
  PROVE  prev[f] = LastNode(f)
<1>1. f \in Heads /\ Len(on[f]) \in Nat /\ Node(f, Len(on[f]) + 1) = f
      /\ Len(on[f]) + 1 \in 1 .. Len(on[f]) + 1
  BY Numbers, NodeFacts DEF Whole
<1>2. ~Late(f)
  BY Numbers DEF Whole, Placing, Late, Adding, Types
<1>3. ~Bypassed(f, Len(on[f]) + 1)
  BY DEF Bypassed, Removing
<1> QED  BY <1>1, <1>2, <1>3 DEF Whole, Backward, LastNode

LEMMA AddReadWhole ==
  ASSUME Types, Whole, NEW p \in Passengers, AddRead(p), ~raced'
  PROVE  Whole'
<1> USE Kinds, Numbers DEF Whole, ptrVars, workVars
<1>1. /\ Alone(p) /\ pc[p] = "new" /\ pc'[p] = "add_prev" /\ at'[p] = prev[start_floor[p]]
  BY DEF AddRead, At, Hold, Alone, Types, Threading
<1>2. start_floor[p] \in Floors /\ ~Adding(start_floor[p]) /\ ~Removing(start_floor[p])
  BY DEF AddRead, Types
<1>3. at'[p] = LastNode(start_floor[p])
  BY <1>1, <1>2, LastOfFloor
<1>4. Lists'
  <2>1. \A q \in Passengers : Fresh(q)' => Fresh(q)
    BY <1>1 DEF Fresh, Alone
  <2> QED  BY <2>1, SameLists DEF AddRead
<1>5. Forward'
  BY DEF Forward, Node, AddRead
<1>6. \A h \in Heads : Late(h) => Late(h)'
  BY <1>1 DEF Late, AddRead, Alone
<1>7. \A h \in Heads : \A k : Bypassed(h, k) => Bypassed(h, k)'
  BY <1>1 DEF Bypassed, temp, AddRead, Alone
<1>8. Backward'
  BY <1>6, <1>7 DEF Backward, Node, AddRead
<1>9. Adders'
  <2> SUFFICES ASSUME NEW q \in Passengers, AddingNow(q)'
               PROVE  /\ ~Removing(start_floor[q])'
                      /\ \A u \in Passengers :
                           AddingNow(u)' /\ start_floor'[u] = start_floor'[q] => u = q
                      /\ at'[q] = LastNode(start_floor[q])'
                      /\ pc'[q] \in {"add_self", "add_next"} => prev'[start_floor'[q]] = q
                      /\ pc'[q] = "add_next" => next'[q] = start_floor'[q] /\ prev'[q] = at'[q]
    BY DEF Adders
  <2>1. CASE q = p
    <3>1. ~Removing(start_floor[q])'
      BY <1>1, <1>2, <2>1 DEF Removing, AddRead, Alone
    <3>2. \A u \in Passengers : AddingNow(u)' /\ start_floor'[u] = start_floor'[q] => u = q
      BY <1>1, <1>2, <2>1 DEF Adding, AddingNow, AddRead, Alone
    <3>3. LastNode(start_floor[q])' = LastNode(start_floor[q])
      BY DEF LastNode, Node, AddRead
    <3> QED  BY <1>1, <1>3, <2>1, <3>1, <3>2, <3>3
  <2>2. CASE q # p
    <3>1. AddingNow(q) /\ pc'[q] = pc[q] /\ at'[q] = at[q]
      BY <1>1, <2>2 DEF Alone, AddingNow
    <3>2. start_floor[q] # start_floor[p]
      BY <1>2, <3>1 DEF Adding, AddingNow
    <3>3. \A u \in Passengers : AddingNow(u)' => u = p \/ AddingNow(u)
      BY <1>1 DEF Alone, AddingNow
    <3>4. LastNode(start_floor[q])' = LastNode(start_floor[q])
          /\ (Removing(start_floor[q])' => Removing(start_floor[q]))
      BY <1>1 DEF LastNode, Node, AddRead, Removing, Alone
    <3> QED  BY <3>1, <3>2, <3>3, <3>4 DEF Adders, AddRead
  <2> QED  BY <2>1, <2>2
<1>10. Looping' /\ Unlinking' /\ Placing'
  BY <1>1, WorkUndisturbed DEF AddRead, Alone, Fresh
<1> QED  BY <1>4, <1>5, <1>8, <1>9, <1>10

\* The other requests that are at list_add_tail are so on other floors.
LEMMA AddersStep ==
  ASSUME Adders, NEW p \in Passengers, AddingNow(p), Alone(p), UNCHANGED <<start_floor, head>>,
         \A q \in Passengers : AddingNow(q) /\ start_floor[q] # start_floor[p] =>
           /\ LastNode(start_floor[q])' = LastNode(start_floor[q])
           /\ prev'[start_floor[q]] = prev[start_floor[q]]
           /\ next'[q] = next[q] /\ prev'[q] = prev[q],
         AddingNow(p)' =>
           /\ at'[p] = LastNode(start_floor[p])'
           /\ pc'[p] \in {"add_self", "add_next"} => prev'[start_floor[p]] = p
           /\ pc'[p] = "add_next" => next'[p] = start_floor[p] /\ prev'[p] = at'[p]
  PROVE  Adders'
<1> SUFFICES ASSUME NEW q \in Passengers, AddingNow(q)'
             PROVE  /\ ~Removing(start_floor[q])'
                    /\ \A u \in Passengers :
                         AddingNow(u)' /\ start_floor'[u] = start_floor'[q] => u = q
                    /\ at'[q] = LastNode(start_floor[q])'
                    /\ pc'[q] \in {"add_self", "add_next"} => prev'[start_floor'[q]] = q
                    /\ pc'[q] = "add_next" => next'[q] = start_floor'[q] /\ prev'[q] = at'[q]
  BY DEF Adders
<1>1. \A u \in Passengers : AddingNow(u)' => AddingNow(u)
  BY Kinds DEF Alone, AddingNow
<1>2. Removing(start_floor[q])' => Removing(start_floor[q])
  BY Kinds DEF Removing, Alone
<1>3. CASE q = p
  BY <1>1, <1>2, <1>3 DEF Adders
<1>4. CASE q # p
  <2>1. pc'[q] = pc[q] /\ at'[q] = at[q] /\ AddingNow(q)
    BY <1>1, <1>4, Kinds DEF Alone
  <2>2. start_floor[q] # start_floor[p]
    BY <1>4, <2>1 DEF Adders
  <2> QED  BY <1>1, <1>2, <2>1, <2>2 DEF Adders
<1> QED  BY <1>3, <1>4

LEMMA AddPrevWhole ==
  ASSUME Types, Whole, NEW p \in Passengers, AddPrev(p)
  PROVE  Whole'
<1> DEFINE f == start_floor[p]
<1> USE Kinds, Numbers DEF Whole, ptrVars, workVars, historyVars
<1>1. Alone(p) /\ pc[p] = "add_prev" /\ pc'[p] = "add_self" /\ at' = at /\ AddingNow(p)
  BY DEF AddPrev, At, Alone, Types, Threading, AddingNow
<1>2. f \in Floors /\ f \in Heads /\ ~Removing(f) /\ at[p] = LastNode(f)
  BY <1>1 DEF Types, Adders
<1>3. prev'[f] = p /\ \A n : n # f => prev'[n] = prev[n]
  BY <1>2 DEF AddPrev, Set, Types, Pointers
<1>4. \A q \in Passengers : Fresh(q)' => Fresh(q)
  BY <1>1 DEF Fresh, Alone
<1>5. Lists'
  BY <1>4, SameLists DEF AddPrev
<1>6. Forward'
  BY DEF Forward, Node, AddPrev
<1>7. Backward'
  <2>1. \A h \in Heads : Late(h) \/ h = f => Late(h)'
    BY <1>1 DEF Late, AddPrev, Alone
  <2>2. \A h \in Heads : \A k : Bypassed(h, k) => Bypassed(h, k)'
    BY <1>1 DEF Bypassed, temp, AddPrev, Alone
  <2>3. \A h \in Heads : Len(on[h])' = Len(on[h]) /\ \A k : Node(h, k)' = Node(h, k)
    BY DEF Node, AddPrev
  <2>4. ASSUME NEW h \in Heads, NEW k \in 1 .. Len(on[h]) + 1
        PROVE  prev'[Node(h, k)] = prev[Node(h, k)] \/ (k = Len(on[h]) + 1 /\ Late(h)')
    <3>1. CASE Node(h, k) = f
      <4>1. k \in Int /\ h = f /\ k = Len(on[h]) + 1
        BY <1>2, <3>1, NodeFacts
      <4> QED  BY <2>1, <4>1
    <3> QED  BY <1>3, <3>1
  <2> QED  BY <2>1, <2>2, <2>3, <2>4 DEF Backward
<1>8. Adders'
  <2>1. \A h : LastNode(h)' = LastNode(h)
    BY DEF LastNode, Node, AddPrev
  <2>2. ASSUME NEW q \in Passengers, AddingNow(q), start_floor[q] # f
        PROVE  /\ LastNode(start_floor[q])' = LastNode(start_floor[q])
               /\ prev'[start_floor[q]] = prev[start_floor[q]]
               /\ next'[q] = next[q] /\ prev'[q] = prev[q]
    <3>1. q # f
      BY <1>2
    <3>2. start_floor' = start_floor
      BY DEF AddPrev
    <3> QED  BY <1>3, <2>1, <2>2, <3>1, <3>2 DEF AddPrev
  <2>3. at'[p] = LastNode(f)' /\ prev'[f] = p
    BY <1>1, <1>2, <1>3, <2>1 DEF AddPrev
  <2> QED  BY <1>1, <2>2, <2>3, AddersStep DEF AddPrev
<1>9. Looping' /\ Unlinking' /\ Placing'
  <2>1. pc[scheduler] = "unlink_next" => after # f
    <3> SUFFICES ASSUME pc[scheduler] = "unlink_next" PROVE after # f
      OBVIOUS
    <3>1. PICK k \in 1 .. Len(on[head]) : after = Node(head, k + 1)
      BY Neighbours
    <3>2. head # f /\ head \in Heads /\ k + 1 \in Int
      BY <1>2 DEF Removing, Types, Working
    <3> QED  BY <1>2, <3>1, <3>2, NodeFacts
  <2>2. pc[scheduler] = "place_next" => dest # f /\ temp # f
    BY <1>2 DEF Placing
  <2> QED  BY <1>1, <1>3, <1>4, <2>1, <2>2, WorkUndisturbed DEF AddPrev, Alone
<1> QED  BY <1>5, <1>6, <1>7, <1>8, <1>9

LEMMA AddSelfWhole ==
  ASSUME Types, Whole, NEW p \in Passengers, AddSelf(p)
  PROVE  Whole'
<1> DEFINE f == start_floor[p]
<1> USE Kinds, Numbers DEF Whole, ptrVars, workVars, historyVars
<1>1. /\ Alone(p) /\ pc[p] = "add_self" /\ pc'[p] = "add_next" /\ at' = at
      /\ AddingNow(p) /\ Fresh(p)
  BY DEF AddSelf, At, Alone, Types, Threading, AddingNow, Fresh
<1>2. f \in Floors /\ f \in Heads /\ at[p] = LastNode(f) /\ prev[f] = p
  BY <1>1 DEF Types, Adders
<1>3. /\ next'[p] = f /\ prev'[p] = at[p]
      /\ \A n : n # p => next'[n] = next[n] /\ prev'[n] = prev[n]
  BY <1>2 DEF AddSelf, Set, Types, Pointers
<1>4. \A h \in Heads : \A k \in Int : Node(h, k) # p
  BY <1>1, FreshOff, OffNode
<1>5. Lists'
  <2>1. \A q \in Passengers : Fresh(q)' => Fresh(q)
    BY <1>1 DEF Fresh, Alone
  <2> QED  BY <2>1, SameLists DEF AddSelf
<1>6. \A h \in Heads : Len(on[h])' = Len(on[h]) /\ \A k : Node(h, k)' = Node(h, k)
  BY DEF Node, AddSelf
<1>7. Forward'
  BY <1>3, <1>4, <1>6 DEF Forward
<1>8. Backward'
  <2>1. \A h \in Heads : Late(h) => Late(h)'
    BY <1>1 DEF Late, AddSelf, Alone
  <2>2. \A h \in Heads : \A k : Bypassed(h, k) => Bypassed(h, k)'
    BY <1>1 DEF Bypassed, temp, AddSelf, Alone
  <2>3. \A h \in Heads : \A k \in 1 .. Len(on[h]) + 1 : prev'[Node(h, k)] = prev[Node(h, k)]
    BY <1>3, <1>4, NodeFacts
  <2> QED  BY <1>6, <2>1, <2>2, <2>3 DEF Backward
<1>9. Adders'
  <2>1. \A h : LastNode(h)' = LastNode(h)
    BY DEF LastNode, Node, AddSelf
  <2>2. ASSUME NEW q \in Passengers, AddingNow(q), start_floor[q] # f
        PROVE  /\ LastNode(start_floor[q])' = LastNode(start_floor[q])
               /\ prev'[start_floor[q]] = prev[start_floor[q]]
               /\ next'[q] = next[q] /\ prev'[q] = prev[q]
    <3>1. start_floor' = start_floor /\ start_floor[q] # p /\ q # p
      BY <2>2 DEF AddSelf, Types
    <3> QED  BY <1>3, <2>1, <3>1
  <2>3. at'[p] = LastNode(f)' /\ prev'[f] = p /\ next'[p] = f /\ prev'[p] = at'[p]
    BY <1>1, <1>2, <1>3, <2>1 DEF AddSelf
  <2> QED  BY <1>1, <2>2, <2>3, AddersStep DEF AddSelf
<1>10. Looping' /\ Unlinking' /\ Placing'
  <2>1. pc[scheduler] = "unlink_next" => after # p
    BY <1>4, Neighbours DEF Types, Working
  <2>2. pc[scheduler] = "place_next" => dest # p /\ temp # p
    BY <1>1 DEF Placing
  <2>3. \A q \in Passengers : Fresh(q)' => Fresh(q)
    BY <1>1 DEF Fresh, Alone
  <2> QED  BY <1>1, <1>3, <2>1, <2>2, <2>3, WorkUndisturbed DEF AddSelf, Alone
<1> QED  BY <1>5, <1>7, <1>8, <1>9, <1>10

-----------------------------------------------------------------------------
(* The last write of list_add_tail, which puts n on the list h.            *)

LEMMA AppendedLists ==
  ASSUME Lists, NEW h \in Heads, NEW n \in Passengers, \A g \in Heads : ~OnList(n, g),
         on' = [on EXCEPT ![h] = Append(@, n)], UNCHANGED start_floor,
         h \in Floors => start_floor[n] = h,
         ~Fresh(n)', \A p \in Passengers : Fresh(p)' => Fresh(p)
  PROVE  /\ Lists'
         /\ \A g \in Heads : g # h => on'[g] = on[g]
         /\ Len(on'[h]) = Len(on[h]) + 1 /\ Len(on[h]) \in Nat
         /\ \A k \in Int : k = Len(on[h]) + 1 => Node(h, k)' = n
         /\ \A k \in Int : k # Len(on[h]) + 1 => Node(h, k)' = Node(h, k)
         /\ \A g \in Heads : g # h => \A k : Node(g, k)' = Node(g, k)
         /\ \A g \in Heads : \A m : OnList(m, g) => OnList(m, g)'
         /\ \A g \in Heads : \A m : OnList(m, g)' => OnList(m, g) \/ m = n
<1> DEFINE L == Len(on[h])
<1>1. /\ \A g \in Heads : g # h => on'[g] = on[g]
      /\ on'[h] = Append(on[h], n)
      /\ on[h] \in Seq(Passengers) /\ L \in Nat
      /\ on' \in [Heads -> Seq(Passengers)]
  BY AppendProperties, NodeFacts DEF Lists
<1>2. /\ Len(on'[h]) = L + 1
      /\ \A k \in 1 .. L : on'[h][k] = on[h][k]
      /\ on'[h][L + 1] = n
  BY <1>1, AppendOne
<1> HIDE DEF L
<1>3. \A g \in Heads : \A k \in 1 .. Len(on'[g]) :
        \/ k \in 1 .. Len(on[g]) /\ on'[g][k] = on[g][k]
        \/ g = h /\ k = L + 1 /\ on'[g][k] = n
  <2> TAKE g \in Heads
  <2> TAKE k \in 1 .. Len(on'[g])
  <2>1. CASE g = h
    BY <1>1, <1>2, <2>1 DEF L
  <2>2. CASE g # h
    BY <1>1, <2>2
  <2> QED  BY <2>1, <2>2
<1>4. \A g \in Heads : \A k \in 1 .. Len(on[g]) : on[g][k] # n /\ on[g][k] \in Passengers
  BY NodeFacts, ElementOfSeq DEF OnList
<1>5. Lists'
  <2>1. ASSUME NEW g \in Heads, NEW f \in Heads, NEW j \in 1 .. Len(on'[g]),
               NEW k \in 1 .. Len(on'[f]), on'[g][j] = on'[f][k]
        PROVE  g = f /\ j = k
    BY <1>3, <1>4, <2>1 DEF Lists
  <2>2. ASSUME NEW f \in Floors, NEW k \in 1 .. Len(on'[f])
        PROVE  start_floor'[on'[f][k]] = f
    BY <1>3, <2>2, Numbers DEF Lists
  <2>3. ASSUME NEW g \in Heads, NEW k \in 1 .. Len(on'[g])
        PROVE  ~Fresh(on[g][k])'
    BY <1>3, <1>4 DEF Lists, Fresh
  <2> QED  BY <1>1, <2>1, <2>2, <2>3 DEF Lists
<1>6. /\ \A k \in Int : k = L + 1 => Node(h, k)' = n
      /\ \A k \in Int : k # L + 1 => Node(h, k)' = Node(h, k)
  BY <1>1, <1>2 DEF Node, L
<1>7. \A g \in Heads : g # h => \A k : Node(g, k)' = Node(g, k)
  BY <1>1 DEF Node
<1>8. \A g \in Heads : \A m : OnList(m, g) => OnList(m, g)'
  <2> SUFFICES ASSUME NEW g \in Heads, NEW m, NEW k \in 1 .. Len(on[g]), on[g][k] = m
               PROVE  OnList(m, g)'
    BY DEF OnList
  <2>1. k \in 1 .. Len(on'[g]) /\ on'[g][k] = m
    BY <1>1, <1>2 DEF L
  <2> QED  BY <2>1 DEF OnList
<1>9. \A g \in Heads : \A m : OnList(m, g)' => OnList(m, g) \/ m = n
  BY <1>3 DEF OnList
<1> QED  BY <1>1, <1>2, <1>5, <1>6, <1>7, <1>8, <1>9 DEF L

LEMMA Appended ==
  ASSUME Lists, Forward, Backward, NEW h \in Heads, NEW n \in Passengers,
         \A g \in Heads : ~OnList(n, g),
         next[n] = h, prev[n] = LastNode(h), prev[h] = n,
         \A m : next'[m] = IF m = LastNode(h) THEN n ELSE next[m],
         on' = [on EXCEPT ![h] = Append(@, n)], UNCHANGED <<prev, start_floor>>,
         h \in Floors => start_floor[n] = h,
         ~Fresh(n)', \A p \in Passengers : Fresh(p)' => Fresh(p),
         \A g \in Heads : g # h /\ Late(g) => Late(g)',
         \A k : ~Bypassed(h, k),
         \A g \in Heads : \A k : g # h /\ Bypassed(g, k) => Bypassed(g, k)'
  PROVE  Lists' /\ Forward' /\ Backward'
<1> DEFINE L == Len(on[h])
<1>1. /\ Lists' /\ L \in Nat /\ Len(on'[h]) = L + 1
      /\ \A k \in Int : Node(h, k)' = IF k = L + 1 THEN n ELSE Node(h, k)
      /\ \A g \in Heads : g # h => on'[g] = on[g] /\ \A k : Node(g, k)' = Node(g, k)
  <2>1. UNCHANGED start_floor
    OBVIOUS
  <2>2. Lists' /\ Len(on[h]) \in Nat /\ Len(on'[h]) = Len(on[h]) + 1
    BY <2>1, AppendedLists, Zenon
  <2>3. \A g \in Heads : g # h => on'[g] = on[g]
    BY <2>1, AppendedLists, Zenon
  <2>4. \A g \in Heads : g # h => \A k : Node(g, k)' = Node(g, k)
    BY <2>1, AppendedLists, Zenon
  <2>5. /\ \A k \in Int : k = Len(on[h]) + 1 => Node(h, k)' = n
        /\ \A k \in Int : k # Len(on[h]) + 1 => Node(h, k)' = Node(h, k)
    BY <2>1, AppendedLists, Zenon
  <2> QED  BY <2>2, <2>3, <2>4, <2>5
<1>2. \A g \in Heads : \A k \in Int : Node(g, k) # n
  BY OffNode
<1>3. \A g \in Heads : \A k \in 0 .. Len(on[g]) :
        Node(g, k) = LastNode(h) => g = h /\ k = L
  BY <1>1, NodeFacts DEF LastNode
<1>4. \A k \in Int : k \notin 1 .. L => Node(h, k) = h
  BY NodeFacts
<1> HIDE DEF L
<1>5. Forward'
  <2> SUFFICES ASSUME NEW g \in Heads, NEW k \in 0 .. Len(on'[g])
               PROVE  next'[Node(g, k)'] = Node(g, k + 1)'
    BY DEF Forward
  <2>1. CASE g # h
    <3>1. k \in 0 .. Len(on[g]) /\ Node(g, k)' = Node(g, k) /\ Node(g, k + 1)' = Node(g, k + 1)
      BY <1>1, <2>1
    <3> QED  BY <1>3, <2>1, <3>1 DEF Forward
  <2>2. CASE g = h /\ k < L
    <3>1. /\ k \in 0 .. Len(on[h]) /\ k \in Int /\ k # L
          /\ Node(h, k)' = Node(h, k) /\ Node(h, k + 1)' = Node(h, k + 1)
      BY <1>1, <2>2 DEF L
    <3> QED  BY <1>3, <2>2, <3>1 DEF Forward
  <2>3. CASE g = h /\ k = L
    <3>1. Node(h, k)' = LastNode(h) /\ Node(h, k + 1)' = n
      BY <1>1, <2>3 DEF LastNode, L
    <3> QED  BY <2>3, <3>1
  <2>4. CASE g = h /\ k > L
    <3>1. k = L + 1 /\ Node(h, k)' = n /\ Node(h, k + 1)' = h
      BY <1>1, <1>4, <2>4
    <3>2. LastNode(h) # n
      BY <1>1, <1>2 DEF LastNode, L
    <3> QED  BY <2>4, <3>1, <3>2
  <2> QED  BY <1>1, <2>1, <2>2, <2>3, <2>4
<1>6. Backward'
  <2> SUFFICES ASSUME NEW g \in Heads, NEW k \in 1 .. Len(on'[g]) + 1
               PROVE  \/ prev'[Node(g, k)'] = Node(g, k - 1)'
                      \/ k = Len(on'[g]) + 1 /\ Late(g)'
                      \/ Bypassed(g, k)'
    BY DEF Backward
  <2>1. CASE g # h
    <3>1. /\ k \in 1 .. Len(on[g]) + 1 /\ Len(on'[g]) = Len(on[g])
          /\ Node(g, k)' = Node(g, k) /\ Node(g, k - 1)' = Node(g, k - 1)
      BY <1>1, <2>1
    <3>2. prev[Node(g, k)] = Node(g, k - 1) \/ (k = Len(on[g]) + 1 /\ Late(g)) \/ Bypassed(g, k)
      BY <3>1 DEF Backward
    <3> QED  BY <2>1, <3>1, <3>2
  <2>2. CASE g = h /\ k \in 1 .. L
    <3>1. /\ k \in 1 .. Len(on[h]) + 1 /\ k # Len(on[h]) + 1
          /\ Node(h, k)' = Node(h, k) /\ Node(h, k - 1)' = Node(h, k - 1)
      BY <1>1, <2>2 DEF L
    <3> QED  BY <2>2, <3>1 DEF Backward
  <2>3. CASE g = h /\ k = L + 1
    <3>1. Node(h, k)' = n /\ Node(h, k - 1)' = LastNode(h)
      BY <1>1, <2>3 DEF LastNode, L
    <3> QED  BY <2>3, <3>1
  <2>4. CASE g = h /\ k = L + 2
    <3>1. Node(h, k)' = h /\ Node(h, k - 1)' = n
      BY <1>1, <1>4, <2>4
    <3> QED  BY <2>4, <3>1
  <2> QED  BY <1>1, <2>1, <2>2, <2>3, <2>4
<1> QED  BY <1>1, <1>5, <1>6

LEMMA AddNextWhole ==
  ASSUME Types, Whole, NEW p \in Passengers, AddNext(p)
  PROVE  Whole'
<1> USE Kinds, Numbers DEF Whole, ptrVars, workVars, historyVars
<1>1. /\ Alone(p) /\ pc[p] = "add_next" /\ pc'[p] \in {"print", "lost"}
      /\ AddingNow(p) /\ Fresh(p) /\ ~Fresh(p)'
  BY DEF AddNext, At, Hold, Alone, Types, Threading, AddingNow, Fresh
<1>2. PICK f \in Floors : f = start_floor[p]
  BY DEF Types
<1>3. /\ f \in Heads /\ ~Removing(f) /\ at[p] = LastNode(f) /\ LastNode(f) \in Nodes
      /\ prev[f] = p /\ next[p] = f /\ prev[p] = LastNode(f)
  <2>1. ~Removing(f) /\ at[p] = LastNode(f) /\ prev[f] = p /\ next[p] = f /\ prev[p] = at[p]
    BY <1>1, <1>2 DEF Adders
  <2> QED  BY <2>1, NodeFacts DEF LastNode
<1>4. \A n : next'[n] = IF n = LastNode(f) THEN p ELSE next[n]
  BY <1>3 DEF AddNext, Set, Types, Pointers
<1>5. \A g \in Heads : ~OnList(p, g)
  BY <1>1, FreshOff
<1>6. on' = [on EXCEPT ![f] = Append(@, p)] /\ UNCHANGED <<prev, start_floor>>
  BY <1>2 DEF AddNext
<1>7. \A q \in Passengers : Fresh(q)' => Fresh(q)
  BY <1>1 DEF Fresh, Alone
<1>8. Lists' /\ Forward' /\ Backward'
  <2>1. \A g \in Heads : g # f /\ Late(g) => Late(g)'
    BY <1>1, <1>2 DEF Late, AddNext, Alone
  <2>2. \A k : ~Bypassed(f, k)
    BY <1>3 DEF Bypassed, Removing
  <2>3. \A g \in Heads : \A k : g # f /\ Bypassed(g, k) => Bypassed(g, k)'
    BY <1>1, <1>6 DEF Bypassed, temp, AddNext, Alone, Lists
  <2> QED  BY <1>1, <1>2, <1>3, <1>4, <1>5, <1>6, <1>7, <2>1, <2>2, <2>3, Appended
<1>9. \A g \in Heads : g # f => on'[g] = on[g] /\ LastNode(g)' = LastNode(g)
  BY <1>6 DEF Lists, LastNode, Node
<1>10. \A g \in Heads : \A m : OnList(m, g) => OnList(m, g)'
  BY <1>1, <1>2, <1>3, <1>5, <1>6, <1>7, AppendedLists
<1>11. \A g \in Heads : \A m : OnList(m, g)' => OnList(m, g) \/ m = p
  BY <1>1, <1>2, <1>3, <1>5, <1>6, <1>7, AppendedLists
<1>12. Adders'
  <2>1. ASSUME NEW q \in Passengers, AddingNow(q), start_floor[q] # start_floor[p]
        PROVE  /\ LastNode(start_floor[q])' = LastNode(start_floor[q])
               /\ prev'[start_floor[q]] = prev[start_floor[q]]
               /\ next'[q] = next[q] /\ prev'[q] = prev[q]
    <3>1. LastNode(start_floor[q])' = LastNode(start_floor[q])
      <4>1. start_floor[q] \in Heads /\ start_floor[q] # f /\ start_floor' = start_floor
        BY <1>2, <1>6, <2>1 DEF Types
      <4>2. on'[start_floor[q]] = on[start_floor[q]]
        BY <1>9, <4>1
      <4> QED  BY <4>1, <4>2 DEF LastNode, Node
    <3>2. q # LastNode(f)
      <4>1. Fresh(q) /\ Len(on[f]) \in Int
        BY <1>3, <2>1, NodeFacts DEF Fresh, AddingNow
      <4> QED  BY <1>3, <4>1, FreshOff, OffNode DEF LastNode
    <3> QED  BY <1>4, <1>6, <3>1, <3>2
  <2>2. ~AddingNow(p)'
    BY <1>1 DEF AddingNow
  <2> QED  BY <1>1, <1>6, <2>1, <2>2, AddersStep DEF AddNext
<1>13. Looping'
  <2>1. head \in Heads /\ head' = head
    BY DEF AddNext, Types, Working
  <2>2. \A m : OnList(m, head) => OnList(m, head)'
    BY <1>10, <2>1 DEF OnList
  <2> QED  BY <1>1, <2>1, <2>2 DEF Looping, AddNext, temp, Alone
<1>14. Unlinking'
  <2> SUFFICES ASSUME pc'[scheduler] \in {"unlink_prev", "unlink_next"} PROVE Unlinking'
    BY DEF Unlinking
  <2>1. pc'[scheduler] = pc[scheduler] /\ head # f /\ head \in Heads
    BY <1>1, <1>3 DEF Alone, Removing, Types, Working
  <2>2. head' = head /\ on'[head] = on[head]
    BY <1>9, <2>1 DEF AddNext
  <2> QED  BY <1>1, <1>6, <2>1, <2>2 DEF Unlinking, Node, temp, AddNext, Alone
<1>15. Placing'
  <2>1. pc'[scheduler] = pc[scheduler] /\ temp' = temp /\ UNCHANGED <<head, before, dest>>
    BY <1>1 DEF Alone, temp, AddNext
  <2>2. pc[scheduler] \in {"place", "place_next"} =>
          temp \in Passengers /\ ~Fresh(temp) /\ \A h \in Heads : ~OnList(temp, h)
    BY DEF Placing
  <2>3. pc'[scheduler] \in {"place", "place_next"} =>
          temp' \in Passengers /\ ~Fresh(temp)' /\ \A h \in Heads : ~OnList(temp, h)'
    <3>1. \A n \in Passengers : ~Fresh(n) => ~Fresh(n)' /\ n # p
      BY <1>1, <1>7
    <3>2. \A n : n # p => \A h \in Heads : ~OnList(n, h) => ~OnList(n, h)'
      BY <1>11
    <3> QED  BY <2>1, <2>2, <3>1, <3>2 DEF Fresh, OnList
  <2>4. pc[scheduler] = "place_next" =>
          /\ dest \in Heads /\ dest # f /\ LastNode(dest)' = LastNode(dest)
          /\ next'[temp] = next[temp]
    <3> SUFFICES ASSUME pc[scheduler] = "place_next"
                 PROVE  /\ dest \in Heads /\ dest # f /\ LastNode(dest)' = LastNode(dest)
                        /\ next'[temp] = next[temp]
      OBVIOUS
    <3>1. dest \in Heads /\ dest # f
      BY DEF Placing
    <3>2. on'[dest] = on[dest]
      BY <1>9, <3>1
    <3>3. temp # LastNode(f)
      BY <1>3, <2>2, OffNode, NodeFacts DEF LastNode
    <3> QED  BY <1>4, <2>1, <3>1, <3>2, <3>3 DEF LastNode, Node
  <2> QED  BY <1>6, <2>1, <2>3, <2>4 DEF Placing
<1> QED  BY <1>8, <1>12, <1>13, <1>14, <1>15

LEMMA RequestWhole ==
  ASSUME Types, Whole, NEW p \in Passengers, AddRead(p) \/ Request(p), ~raced'
  PROVE  Whole'
<1>1. ASSUME NEW from \in {"print", "index", "first", "visit", "test", "store"},
             NEW to \in {"index", "first", "visit", "test", "store", "done", "lost"},
             PrintStep(p, from, to), at' = at \/ \E n : Hold(p, n)
      PROVE  Whole'
  <2>1. Alone(p) /\ pc[p] = from /\ pc'[p] = to
    BY <1>1, Kinds DEF PrintStep, At, Hold, Alone, Types, Threading
  <2>2. \A q \in Passengers :
          /\ Fresh(q)' => Fresh(q)
          /\ AddingNow(q) \/ AddingNow(q)' => pc'[q] = pc[q] /\ at'[q] = at[q]
    BY <2>1, Kinds DEF Alone, Fresh, AddingNow
  <2>3. pc'[scheduler] = pc[scheduler] /\ at'[scheduler] = at[scheduler]
    BY <2>1, Kinds DEF Alone
  <2> QED  BY <1>1, <2>2, <2>3, Elsewhere DEF PrintStep
<1>2. CASE PrintBegin(p) \/ PrintIndex(p)
  BY <1>1, <1>2 DEF PrintBegin, PrintIndex
<1>3. CASE PrintFirst(p) \/ PrintVisit(p)
  BY <1>1, <1>3 DEF PrintFirst, PrintVisit
<1>4. CASE PrintTest(p) \/ PrintStore(p)
  BY <1>1, <1>4 DEF PrintTest, PrintStore
<1> QED  BY <1>2, <1>3, <1>4, AddReadWhole, AddPrevWhole, AddSelfWhole, AddNextWhole DEF Request

LEMMA ReaderWhole ==
  ASSUME Types, Whole, NEW r \in Readers,
         SumVisit(r) \/ SumEnd(r) \/ \E f \in Floors : SumBegin(r, f)
  PROVE  Whole'
<1>1. UNCHANGED <<ptrVars, on, start_floor, workVars>>
  BY DEF SumVisit, SumEnd, SumBegin, historyVars
<1>2. Alone(r)
  BY Kinds DEF SumVisit, SumEnd, SumBegin, At, Hold, Alone, Types, Threading
<1>3. \A q \in Passengers \cup {scheduler} : pc'[q] = pc[q] /\ at'[q] = at[q]
  BY <1>2, Kinds DEF Alone
<1> QED  BY <1>1, <1>3, Elsewhere DEF Fresh, AddingNow

-----------------------------------------------------------------------------
(* The lists in a step of the scheduler thread.                            *)

\* It goes on with its loop, without a write to any list.
LEMMA LoopStep ==
  ASSUME Types, Whole, UNCHANGED <<ptrVars, on, start_floor>>, Alone(scheduler),
         pc[scheduler] \notin {"unlink_next", "place_next"},
         pc'[scheduler] \notin {"unlink_next", "place_next"},
         pc'[scheduler] = "unlink_prev" => ~Adding(head')
  PROVE  Lists' /\ Forward' /\ Backward' /\ Adders'
<1> USE Kinds, Numbers DEF Whole, ptrVars
<1>1. \A p \in Passengers : pc'[p] = pc[p] /\ at'[p] = at[p]
  BY DEF Alone
<1>2. Lists'
  BY <1>1, SameLists DEF Fresh
<1>3. Forward'
  BY DEF Forward, Node
<1>4. Backward'
  BY <1>1 DEF Backward, Node, Late, Bypassed
<1>5. Adders'
  BY <1>1 DEF Adders, AddingNow, Adding, Removing, LastNode, Node
<1> QED  BY <1>2, <1>3, <1>4, <1>5

LEMMA LoopWhole ==
  ASSUME Types, Whole, \/ Save \/ LoopEnd \/ LoadFull \/ KeepOnboard \/ PrintWho
                       \/ DeleteBegin \/ \E h \in Heads : LoopBegin(h)
  PROVE  Whole'
<1> USE Kinds, Numbers DEF Whole, ptrVars, historyVars
<1>0. \A from, to : \A n : Work(from, to) /\ (Hold(scheduler, n) \/ at' = at) =>
        /\ Alone(scheduler) /\ pc[scheduler] = from /\ pc'[scheduler] = to
        /\ UNCHANGED start_floor /\ (Hold(scheduler, n) => temp' = n)
  BY DEF Work, At, Hold, Alone, Types, Threading, temp
<1>1. ASSUME NEW h \in Heads, NEW from \in {"new", "save"}, Work(from, "save"), Loop(h)
      PROVE  Whole'
  <2>1. /\ Alone(scheduler) /\ pc[scheduler] = from /\ pc'[scheduler] = "save"
        /\ UNCHANGED <<ptrVars, on, start_floor>> /\ head' = h /\ temp' = next[h]
    BY <1>0, <1>1 DEF Loop
  <2>2. next[h] = h \/ OnList(next[h], h)
    BY NextNode
  <2>3. Looping'
    BY <2>1, <2>2 DEF Looping, OnList
  <2> QED  BY <2>1, <2>3, LoopStep DEF Unlinking, Placing
<1>2. ASSUME NEW from \in {"save", "body"}, NEW to \in {"new", "done"}, LoopLeave(from, to)
      PROVE  Whole'
  <2>1. /\ Alone(scheduler) /\ pc[scheduler] = from /\ pc'[scheduler] = to
        /\ UNCHANGED <<ptrVars, on, start_floor>>
    BY <1>0, <1>2 DEF LoopLeave
  <2> QED  BY <2>1, LoopStep DEF Looping, Unlinking, Placing
<1>3. ASSUME NEW from \in {"body", "who"}, Work(from, "save"), Advance,
             UNCHANGED <<ptrVars, historyVars>>
      PROVE  Whole'
  <2>1. /\ Alone(scheduler) /\ pc[scheduler] = from /\ pc'[scheduler] = "save"
        /\ UNCHANGED <<ptrVars, on, start_floor, head>> /\ temp' = dummy
    BY <1>0, <1>3 DEF Advance
  <2>2. Looping'
    BY <2>1 DEF Looping, OnList
  <2> QED  BY <2>1, <2>2, LoopStep DEF Unlinking, Placing
<1>4. CASE Save
  <2>1. /\ Alone(scheduler) /\ pc[scheduler] = "save" /\ pc'[scheduler] \in {"lost", "body"}
        /\ UNCHANGED <<ptrVars, on, start_floor, head>> /\ temp' = temp
    BY <1>0, <1>4 DEF Save, temp
  <2>2. head \in Heads /\ OnList(temp, head)
    BY <1>4, <2>1 DEF Looping, Save, Types, Working
  <2>3. next[temp] # temp /\ (next[temp] = head \/ OnList(next[temp], head))
    BY <2>2, NextNode
  <2>4. temp # Bad
    BY <2>2, NodeFacts, ElementOfSeq DEF OnList
  <2>5. dummy' = next[temp]
    BY <1>4, <2>4 DEF Save
  <2>6. Looping'
    BY <2>1, <2>2, <2>3, <2>5 DEF Looping, OnList
  <2> QED  BY <2>1, <2>6, LoopStep DEF Unlinking, Placing
<1>5. CASE LoopEnd
  <2>1. ASSUME Work("save", "save"), head \in Floors,
               Loop(IF head = lastfloor THEN move_list ELSE head + 1)
        PROVE  Whole'
    <3>1. (IF head = lastfloor THEN move_list ELSE head + 1) \in Heads
      BY <2>1 DEF Floors
    <3> QED  BY <1>1, <2>1, <3>1
  <2> QED  BY <1>2, <1>5, <2>1 DEF LoopEnd
<1>6. CASE LoadFull
  BY <1>2, <1>6 DEF LoadFull
<1>7. CASE KeepOnboard \/ PrintWho
  BY <1>3, <1>7 DEF KeepOnboard, PrintWho
<1>8. CASE DeleteBegin \/ \E h \in Heads : LoopBegin(h)
  BY <1>1, <1>8 DEF DeleteBegin, LoopBegin
<1> QED  BY <1>4, <1>5, <1>6, <1>7, <1>8

LEMMA UnlinkWhole ==
  ASSUME Types, Whole, Unlink, ~raced'
  PROVE  Whole'
<1> USE Kinds, Numbers DEF Whole, ptrVars
<1>1. /\ Alone(scheduler) /\ pc[scheduler] = "body" /\ pc'[scheduler] \in {"lost", "unlink_prev"}
      /\ UNCHANGED <<ptrVars, on, start_floor, head, dummy>> /\ temp' = temp /\ ~Adding(head)
      /\ before' = prev[temp] /\ after' = next[temp]
  BY DEF Unlink, Work, At, Alone, Types, Threading, temp
<1>2. Lists' /\ Forward' /\ Backward' /\ Adders'
  BY <1>1, LoopStep
<1>3. Looping'
  BY <1>1 DEF Looping, OnList
<1>4. Unlinking'
  <2> SUFFICES ASSUME NEW k \in 1 .. Len(on[head]), on[head][k] = temp
               PROVE  before' = Node(head, k - 1) /\ after' = Node(head, k + 1)
    BY <1>1 DEF Unlinking, Node
  <2>1. /\ head \in Heads /\ Len(on[head]) \in Nat /\ Node(head, k) = temp
        /\ k \in 1 .. Len(on[head]) + 1 /\ k # Len(on[head]) + 1 /\ k \in 0 .. Len(on[head])
    BY NodeFacts DEF Types, Working
  <2>2. prev[temp] = Node(head, k - 1)
    BY <1>1, <2>1 DEF Backward, Bypassed
  <2>3. next[temp] = Node(head, k + 1)
    BY <2>1 DEF Forward
  <2> QED  BY <1>1, <2>2, <2>3
<1>5. Placing'
  <2>1. dest' \in {Bad, onboard, move_list} \ {head}
    BY DEF Unlink, Destinations, Types, Working
  <2> QED  BY <1>1, <2>1 DEF Placing
<1> QED  BY <1>2, <1>3, <1>4, <1>5

\* The requests at list_add_tail see nothing of the scheduler's work on other lists.
LEMMA AddersUndisturbed ==
  ASSUME Adders, UNCHANGED start_floor, Alone(scheduler),
         pc'[scheduler] \in {"unlink_prev", "unlink_next"} =>
           pc[scheduler] \in {"unlink_prev", "unlink_next"} /\ head' = head,
         \A q \in Passengers : AddingNow(q) =>
           /\ on'[start_floor[q]] = on[start_floor[q]]
           /\ prev'[start_floor[q]] = prev[start_floor[q]]
           /\ next'[q] = next[q] /\ prev'[q] = prev[q]
  PROVE  Adders'
<1>1. \A q \in Passengers : pc'[q] = pc[q] /\ at'[q] = at[q]
  BY Kinds DEF Alone
<1>2. \A f : Removing(f)' => Removing(f)
  BY DEF Removing
<1>3. \A q \in Passengers : AddingNow(q) => LastNode(start_floor[q])' = LastNode(start_floor[q])
  BY DEF LastNode, Node
<1> QED  BY <1>1, <1>2, <1>3 DEF Adders, AddingNow

LEMMA UnlinkPrevWhole ==
  ASSUME Types, Whole, UnlinkPrev
  PROVE  Whole'
<1> USE Kinds, Numbers DEF Whole, workVars, historyVars
<1>1. /\ Alone(scheduler) /\ pc[scheduler] = "unlink_prev" /\ pc'[scheduler] = "unlink_next"
      /\ UNCHANGED <<next, on, start_floor, head, dummy, before, after, dest>> /\ temp' = temp
  BY DEF UnlinkPrev, Work, At, Alone, Types, Threading, temp
<1>2. PICK k \in 1 .. Len(on[head]) :
        on[head][k] = temp /\ before = Node(head, k - 1) /\ after = Node(head, k + 1)
  BY <1>1, Neighbours
<1>3. head \in Heads /\ Len(on[head]) \in Nat /\ k + 1 \in 1 .. Len(on[head]) + 1 /\ k + 1 \in Int
      /\ after \in Nodes
  <2>1. head \in Heads /\ Len(on[head]) \in Nat
    BY NodeFacts DEF Types, Working
  <2> QED  BY <1>2, <2>1, NodeFacts
<1>4. prev'[after] = before /\ \A n : n # after => prev'[n] = prev[n]
  BY <1>3 DEF UnlinkPrev, Set, Types, Pointers
<1>5. Lists'
  <2>1. \A q \in Passengers : Fresh(q)' => Fresh(q)
    BY <1>1 DEF Fresh, Alone
  <2> QED  BY <1>1, <2>1, SameLists
<1>6. Forward'
  BY <1>1 DEF Forward, Node
<1>7. Backward'
  <2>1. \A h \in Heads : Late(h) => Late(h)'
    BY <1>1 DEF Late, Alone
  <2>2. \A h \in Heads : \A j : ~Bypassed(h, j)
    BY <1>1 DEF Bypassed
  <2>3. Bypassed(head, k + 1)'
    BY <1>1, <1>2 DEF Bypassed
  <2>4. ASSUME NEW h \in Heads, NEW j \in 1 .. Len(on[h]) + 1
        PROVE  (h = head /\ j = k + 1) \/ prev'[Node(h, j)] = prev[Node(h, j)]
    BY <1>2, <1>3, <1>4, NodeFacts
  <2>5. \A h \in Heads : Len(on[h])' = Len(on[h]) /\ \A j : Node(h, j)' = Node(h, j)
    BY <1>1 DEF Node
  <2> QED  BY <1>1, <2>1, <2>2, <2>3, <2>4, <2>5 DEF Backward
<1>8. Adders'
  <2>1. ASSUME NEW q \in Passengers, AddingNow(q)
        PROVE  prev'[start_floor[q]] = prev[start_floor[q]] /\ prev'[q] = prev[q]
    <3>1. start_floor[q] # head /\ start_floor[q] \in Heads
      BY <1>1, <2>1 DEF Adders, Removing, Types
    <3>2. after # start_floor[q]
      BY <1>2, <1>3, <3>1, NodeFacts
    <3>3. after # q
      BY <1>2, <1>3, <2>1, FreshOff, OffNode DEF Fresh, AddingNow
    <3> QED  BY <1>4, <3>2, <3>3
  <2> QED  BY <1>1, <2>1, AddersUndisturbed
<1>9. Looping'
  BY <1>1 DEF Looping, OnList
<1>10. Unlinking'
  BY <1>1, <1>4 DEF Unlinking, Node
<1>11. Placing'
  BY <1>1 DEF Placing
<1> QED  BY <1>5, <1>6, <1>7, <1>8, <1>9, <1>10, <1>11

LEMMA PlaceNowhereWhole ==
  ASSUME Types, Whole, PlaceNowhere
  PROVE  Whole'
<1> USE Kinds, Numbers DEF Whole, workVars, historyVars
<1>1. /\ Alone(scheduler) /\ pc[scheduler] = "place" /\ pc'[scheduler] = "who"
      /\ UNCHANGED <<on, start_floor, head, dummy>> /\ temp' = temp
  BY DEF PlaceNowhere, Work, At, Alone, Types, Threading, temp
<1>2. temp \in Passengers /\ ~Fresh(temp) /\ \A h \in Heads : \A k \in Int : Node(h, k) # temp
  BY <1>1, OffNode DEF Placing
<1>3. \A n : n # temp => next'[n] = next[n] /\ prev'[n] = prev[n]
  BY <1>2 DEF PlaceNowhere, Set, Types, Pointers
<1>4. Lists'
  <2>1. \A q \in Passengers : Fresh(q)' => Fresh(q)
    BY <1>1 DEF Fresh, Alone
  <2> QED  BY <1>1, <2>1, SameLists
<1>5. \A h \in Heads : Len(on[h])' = Len(on[h]) /\ \A k : Node(h, k)' = Node(h, k)
  BY <1>1 DEF Node
<1>6. Forward'
  BY <1>2, <1>3, <1>5 DEF Forward
<1>7. Backward'
  <2>1. \A h \in Heads : Late(h) => Late(h)'
    BY <1>1 DEF Late, Alone
  <2>2. \A h \in Heads : \A k : ~Bypassed(h, k)
    BY <1>1 DEF Bypassed
  <2>3. \A h \in Heads : \A k \in 1 .. Len(on[h]) + 1 : prev'[Node(h, k)] = prev[Node(h, k)]
    BY <1>2, <1>3, NodeFacts
  <2> QED  BY <1>5, <2>1, <2>2, <2>3 DEF Backward
<1>8. Adders'
  <2>1. \A q \in Passengers : AddingNow(q) => q # temp /\ start_floor[q] # temp
    BY <1>2 DEF Fresh, AddingNow, Types
  <2> QED  BY <1>1, <1>3, <2>1, AddersUndisturbed
<1>9. Looping' /\ Unlinking' /\ Placing'
  BY <1>1 DEF Looping, OnList, Unlinking, Placing
<1> QED  BY <1>4, <1>6, <1>7, <1>8, <1>9

LEMMA PlaceLastWhole ==
  ASSUME Types, Whole, PlaceLast
  PROVE  Whole'
<1> USE Kinds, Numbers DEF Whole, workVars, historyVars
<1>1. /\ Alone(scheduler) /\ pc[scheduler] = "place" /\ pc'[scheduler] = "place_next"
      /\ UNCHANGED <<on, start_floor, head, dummy, dest>> /\ temp' = temp
      /\ before' = prev[dest] /\ dest # Bad
  BY DEF PlaceLast, Work, At, Alone, Types, Threading, temp
<1>2. temp \in Passengers /\ ~Fresh(temp) /\ \A h \in Heads : \A k \in Int : Node(h, k) # temp
  BY <1>1, OffNode DEF Placing
<1>3. dest \in Heads /\ dest \notin Floors /\ dest # temp
  BY <1>1, <1>2 DEF Placing
<1>4. /\ next'[temp] = dest /\ prev'[dest] = temp /\ prev'[temp] = prev[dest]
      /\ \A n : n # temp => next'[n] = next[n]
      /\ \A n \in Nodes : n \notin {temp, dest} => prev'[n] = prev[n]
  <2>1. /\ next' = [next EXCEPT ![temp] = dest]
        /\ prev' = [prev EXCEPT ![dest] = temp, ![temp] = prev[dest]]
        /\ temp \in DOMAIN next /\ temp \in DOMAIN prev /\ dest \in DOMAIN prev
    BY <1>2, <1>3 DEF PlaceLast, Set, Types, Pointers
  <2>2. next'[temp] = dest /\ \A n : n # temp => next'[n] = next[n]
    BY <2>1
  <2>3. prev'[dest] = temp /\ prev'[temp] = prev[dest]
    BY <1>3, <2>1
  <2>4. \A n \in Nodes : n # temp /\ n # dest => prev'[n] = prev[n]
    BY <2>1 DEF Types, Pointers
  <2> QED  BY <2>2, <2>3, <2>4
<1>5. Lists'
  <2>1. \A q \in Passengers : Fresh(q)' => Fresh(q)
    BY <1>1 DEF Fresh, Alone
  <2> QED  BY <1>1, <2>1, SameLists
<1>6. \A h \in Heads : Len(on[h])' = Len(on[h]) /\ \A k : Node(h, k)' = Node(h, k)
  BY <1>1 DEF Node
<1>7. Forward'
  BY <1>2, <1>4, <1>6 DEF Forward
<1>8. Backward'
  <2>1. \A h \in Heads : Late(h) \/ h = dest => Late(h)'
    BY <1>1 DEF Late, Alone
  <2>2. \A h \in Heads : \A k : ~Bypassed(h, k)
    BY <1>1 DEF Bypassed
  <2>3. ASSUME NEW h \in Heads, NEW k \in 1 .. Len(on[h]) + 1
        PROVE  prev'[Node(h, k)] = prev[Node(h, k)] \/ (k = Len(on[h]) + 1 /\ Late(h)')
    <3>1. CASE Node(h, k) = dest
      <4>0. k \in Int /\ Len(on[h]) \in Nat
        BY NodeFacts
      <4>1. h = dest /\ k = Len(on[h]) + 1
        BY <1>3, <3>1, <4>0, NodeFacts
      <4> QED  BY <2>1, <4>1
    <3>2. Node(h, k) # temp /\ Node(h, k) \in Nodes
      BY <1>2, NodeFacts
    <3> QED  BY <1>4, <3>1, <3>2
  <2> QED  BY <1>6, <2>1, <2>2, <2>3 DEF Backward
<1>9. Adders'
  <2>1. \A q \in Passengers : AddingNow(q) =>
          /\ q # temp /\ q # dest /\ start_floor[q] \in Nodes
          /\ start_floor[q] # temp /\ start_floor[q] # dest
    BY <1>2, <1>3 DEF Fresh, AddingNow, Types
  <2> QED  BY <1>1, <1>4, <2>1, AddersUndisturbed
<1>10. Looping' /\ Unlinking'
  BY <1>1 DEF Looping, OnList, Unlinking
<1>11. Placing'
  <2>1. PICK h \in Heads : h = dest /\ h \notin Floors
    BY <1>3
  <2>2. /\ Len(on[h]) \in Nat /\ Node(h, Len(on[h]) + 1) = h
        /\ Len(on[h]) + 1 \in 1 .. Len(on[h]) + 1
    BY NodeFacts
  <2>3. before' = LastNode(h)
    <3>1. ~Late(h) /\ \A k : ~Bypassed(h, k)
      BY <1>1, <2>1 DEF Late, Bypassed, Types
    <3> QED  BY <1>1, <2>1, <2>2, <3>1 DEF Backward, LastNode
  <2>4. \A g \in Heads : ~OnList(temp, g)
    BY <1>1 DEF Placing
  <2>5. before' = LastNode(dest)' /\ ~Fresh(temp)' /\ \A g \in Heads : ~OnList(temp, g)'
    BY <1>1, <1>2, <2>1, <2>3, <2>4 DEF LastNode, Node, Fresh, Alone, OnList
  <2>6. dest' \in {Bad, onboard, move_list} \ {head'}
    BY <1>1 DEF Placing
  <2> QED  BY <1>1, <1>2, <1>4, <2>5, <2>6 DEF Placing
<1> QED  BY <1>5, <1>7, <1>8, <1>9, <1>10, <1>11

LEMMA PlaceNextWhole ==
  ASSUME Types, Whole, PlaceNext
  PROVE  Whole'
<1> USE Kinds, Numbers DEF Whole, workVars, historyVars
<1>1. /\ Alone(scheduler) /\ pc[scheduler] = "place_next" /\ pc'[scheduler] \in {"who", "lost"}
      /\ UNCHANGED <<prev, start_floor, head, dummy>> /\ temp' = temp
  BY DEF PlaceNext, Work, At, Alone, Types, Threading, temp
<1>2. PICK h \in Heads : h = dest /\ h \notin Floors
  BY <1>1 DEF Placing
<1>3. PICK n \in Passengers : n = temp
  BY <1>1 DEF Placing
<1>4. /\ ~Fresh(n) /\ \A g \in Heads : ~OnList(n, g)
      /\ before = LastNode(h) /\ next[n] = h /\ prev[n] = LastNode(h) /\ prev[h] = n
  BY <1>1, <1>2, <1>3 DEF Placing
<1>5. LastNode(h) \in Nodes
  BY NodeFacts DEF LastNode
<1>6. \A m : next'[m] = IF m = LastNode(h) THEN n ELSE next[m]
  BY <1>3, <1>4, <1>5 DEF PlaceNext, Set, Types, Pointers
<1>7. on' = [on EXCEPT ![h] = Append(@, n)]
  BY <1>2, <1>3 DEF PlaceNext
<1>8. ~Fresh(n)' /\ \A q \in Passengers : Fresh(q)' => Fresh(q)
  BY <1>1, <1>4 DEF Fresh, Alone
<1>9. Lists' /\ Forward' /\ Backward'
  <2>1. \A g \in Heads : g # h /\ Late(g) => Late(g)'
    BY <1>1, <1>2 DEF Late, Alone
  <2>2. \A g \in Heads : \A k : ~Bypassed(g, k)
    BY <1>1 DEF Bypassed
  <2>3. UNCHANGED <<prev, start_floor>>
    BY <1>1
  <2> QED  BY <1>2, <1>4, <1>6, <1>7, <1>8, <2>1, <2>2, <2>3, Appended
<1>10. \A g \in Heads : \A m : OnList(m, g) => OnList(m, g)'
  BY <1>1, <1>2, <1>4, <1>7, <1>8, AppendedLists
<1>11. Adders'
  <2>1. \A q \in Passengers : AddingNow(q) => q # LastNode(h) /\ start_floor[q] # h
    <3> SUFFICES ASSUME NEW q \in Passengers, AddingNow(q)
                 PROVE  q # LastNode(h) /\ start_floor[q] # h
      OBVIOUS
    <3>1. Fresh(q) /\ Len(on[h]) \in Int
      BY NodeFacts DEF Fresh, AddingNow
    <3> QED  BY <1>2, <3>1, FreshOff, OffNode DEF LastNode, Types
  <2>2. \A q \in Passengers : AddingNow(q) => on'[start_floor[q]] = on[start_floor[q]]
    BY <1>7, <2>1 DEF Types, Lists
  <2> QED  BY <1>1, <1>6, <2>1, <2>2, AddersUndisturbed
<1>12. Looping'
  <2>1. \A m : OnList(m, head) => OnList(m, head)'
    BY <1>1, <1>10 DEF OnList, Types, Working
  <2> QED  BY <1>1, <2>1 DEF Looping
<1> QED  BY <1>1, <1>9, <1>11, <1>12 DEF Unlinking, Placing

-----------------------------------------------------------------------------
(* The last write of list_del, which takes n off the list h.               *)

LEMMA RemovedLists ==
  ASSUME Lists, NEW h \in Heads, NEW k \in 1 .. Len(on[h]), NEW n, n = on[h][k],
         on' = [on EXCEPT ![h] = RemoveFirst(@, n)], UNCHANGED start_floor,
         \A p \in Passengers : Fresh(p)' => Fresh(p)
  PROVE  /\ Lists'
         /\ \A g \in Heads : g # h => on'[g] = on[g]
         /\ Len(on[h]) \in Nat /\ Len(on'[h]) = Len(on[h]) - 1
         /\ \A j \in 0 .. Len(on[h]) : j < k => Node(h, j)' = Node(h, j)
         /\ \A j \in 0 .. Len(on[h]) : j >= k => Node(h, j)' = Node(h, j + 1)
         /\ \A g \in Heads : g # h => \A j : Node(g, j)' = Node(g, j)
         /\ \A g \in Heads : \A m : OnList(m, g) /\ m # n => OnList(m, g)'
         /\ \A g \in Heads : ~OnList(n, g)'
<1> DEFINE L == Len(on[h])
<1>1. /\ \A g \in Heads : g # h => on'[g] = on[g]
      /\ on'[h] = RemoveFirst(on[h], n)
      /\ on[h] \in Seq(Passengers) /\ L \in Nat /\ k \in 1 .. L
  BY NodeFacts DEF Lists
<1>2. /\ on'[h] \in Seq(Passengers) /\ Len(on'[h]) = L - 1
      /\ \A j \in 1 .. L - 1 : on'[h][j] = IF j < k THEN on[h][j] ELSE on[h][j + 1]
  <2>1. \A j \in 1 .. L : on[h][j] = on[h][k] => j = k
    BY DEF Lists
  <2>2. LET t == RemoveFirst(on[h], on[h][k])
        IN  /\ t \in Seq(Passengers) /\ Len(t) = L - 1
            /\ \A j \in 1 .. Len(t) : t[j] = IF j < k THEN on[h][j] ELSE on[h][j + 1]
    BY <1>1, <2>1, RemoveOne
  <2> QED  BY <1>1, <2>2
<1>3. on' \in [Heads -> Seq(Passengers)]
  BY <1>1, <1>2 DEF Lists
<1> HIDE DEF L
\* Where everybody was before.
<1> DEFINE was_at(g, j) == IF g = h /\ j >= k THEN j + 1 ELSE j
<1>4. \A g \in Heads : \A j \in 1 .. Len(on'[g]) :
        /\ was_at(g, j) \in 1 .. Len(on[g]) /\ on'[g][j] = on[g][was_at(g, j)]
        /\ ~(g = h /\ was_at(g, j) = k)
  <2> TAKE g \in Heads
  <2> TAKE j \in 1 .. Len(on'[g])
  <2>1. CASE g = h
    BY <1>1, <1>2, <2>1 DEF L
  <2>2. CASE g # h
    <3>1. Len(on[g]) \in Nat
      BY NodeFacts
    <3> QED  BY <1>1, <2>2, <3>1
  <2> QED  BY <2>1, <2>2
<1>5. \A g \in Heads : \A j \in 1 .. Len(on'[g]), m \in 1 .. Len(on'[g]) :
        was_at(g, j) = was_at(g, m) => j = m
  BY <1>1, <1>2, NodeFacts
<1> HIDE DEF was_at
<1>6. Lists'
  <2>1. ASSUME NEW g \in Heads, NEW f \in Heads, NEW j \in 1 .. Len(on'[g]),
               NEW m \in 1 .. Len(on'[f]), on'[g][j] = on'[f][m]
        PROVE  g = f /\ j = m
    <3>1. PICK a \in 1 .. Len(on[g]) : a = was_at(g, j) /\ on'[g][j] = on[g][a]
      BY <1>4
    <3>2. PICK b \in 1 .. Len(on[f]) : b = was_at(f, m) /\ on'[f][m] = on[f][b]
      BY <1>4
    <3>3. g = f /\ a = b
      BY <2>1, <3>1, <3>2 DEF Lists
    <3> QED  BY <1>5, <3>1, <3>2, <3>3
  <2>2. ASSUME NEW f \in Floors, NEW j \in 1 .. Len(on'[f])
        PROVE  start_floor'[on'[f][j]] = f
    <3>1. PICK a \in 1 .. Len(on[f]) : on'[f][j] = on[f][a]
      BY <1>4, Numbers
    <3> QED  BY <3>1 DEF Lists
  <2>3. ASSUME NEW g \in Heads, NEW j \in 1 .. Len(on'[g])
        PROVE  ~Fresh(on[g][j])'
    <3>1. on'[g][j] \in Passengers /\ ~Fresh(on[g][was_at(g, j)])
      BY <1>3, <1>4, ElementOfSeq DEF Lists
    <3> QED  BY <1>4, <3>1 DEF Fresh
  <2> QED  BY <1>3, <2>1, <2>2, <2>3 DEF Lists
<1>7. ASSUME NEW j \in 0 .. L
      PROVE  (j < k => Node(h, j)' = Node(h, j)) /\ (j >= k => Node(h, j)' = Node(h, j + 1))
  BY <1>1, <1>2 DEF Node, L
<1>8. \A g \in Heads : g # h => \A j : Node(g, j)' = Node(g, j)
  BY <1>1 DEF Node
<1>9. ASSUME NEW g \in Heads, NEW m, OnList(m, g), m # n
      PROVE  OnList(m, g)'
  <2>1. PICK j \in 1 .. Len(on[g]) : on[g][j] = m
    BY <1>9 DEF OnList
  <2>2. CASE g # h
    BY <1>1, <2>1, <2>2 DEF OnList
  <2>3. CASE g = h /\ j < k
    <3>1. j \in 1 .. Len(on'[g]) /\ on'[g][j] = m
      BY <1>1, <1>2, <2>1, <2>3 DEF L
    <3> QED  BY <3>1 DEF OnList
  <2>4. CASE g = h /\ j > k
    <3>1. j - 1 \in 1 .. Len(on'[g]) /\ on'[g][j - 1] = m
      BY <1>1, <1>2, <2>1, <2>4 DEF L
    <3> QED  BY <3>1 DEF OnList
  <2> QED  BY <1>1, <1>9, <2>1, <2>2, <2>3, <2>4
<1>10. ASSUME NEW g \in Heads, OnList(n, g)'
       PROVE  FALSE
  <2>1. PICK j \in 1 .. Len(on'[g]) : on'[g][j] = n
    BY <1>10 DEF OnList
  <2>2. was_at(g, j) \in 1 .. Len(on[g]) /\ on[g][was_at(g, j)] = n
    BY <1>4, <2>1
  <2> QED  BY <1>4, <2>2 DEF Lists
<1> QED  BY <1>1, <1>2, <1>6, <1>7, <1>8, <1>9, <1>10 DEF L

LEMMA Removed ==
  ASSUME Lists, Forward, Backward, NEW h \in Heads, NEW k \in 1 .. Len(on[h]), NEW n,
         n = on[h][k],
         prev[Node(h, k + 1)] = Node(h, k - 1),
         \A m : next'[m] = IF m = Node(h, k - 1) THEN Node(h, k + 1) ELSE next[m],
         on' = [on EXCEPT ![h] = RemoveFirst(@, n)], UNCHANGED <<prev, start_floor>>,
         \A p \in Passengers : Fresh(p)' => Fresh(p),
         \A g \in Heads : Late(g) => Late(g)',
         \A g \in Heads : \A j \in Int : Bypassed(g, j) => g = h /\ j = k + 1
  PROVE  Lists' /\ Forward' /\ Backward'
<1> DEFINE L == Len(on[h])
<1>0. UNCHANGED start_floor
  OBVIOUS
<1>1. Lists' /\ L \in Nat /\ Len(on'[h]) = L - 1
  BY <1>0, RemovedLists
<1>2. \A g \in Heads : g # h => on'[g] = on[g]
  BY <1>0, RemovedLists
<1>3. \A j \in 0 .. L : (j < k => Node(h, j)' = Node(h, j))
                        /\ (j >= k => Node(h, j)' = Node(h, j + 1))
  BY <1>0, RemovedLists
<1>4. \A g \in Heads : g # h => \A j : Node(g, j)' = Node(g, j)
  BY <1>2 DEF Node
<1>5. \A g \in Heads : \A j \in 0 .. Len(on[g]) :
        Node(g, j) = Node(h, k - 1) => g = h /\ j = k - 1
  <2>1. k - 1 \in 0 .. Len(on[h])
    BY <1>1
  <2> QED  BY <2>1, NodeFacts
<1>6. k \in 1 .. L
  OBVIOUS
<1>7. Forward'
  <2> SUFFICES ASSUME NEW g \in Heads, NEW j \in 0 .. Len(on'[g])
               PROVE  next'[Node(g, j)'] = Node(g, j + 1)'
    BY DEF Forward
  <2>1. CASE g # h
    BY <1>2, <1>4, <1>5, <2>1 DEF Forward
  <2>2. CASE g = h /\ j < k - 1
    <3>1. j \in 0 .. Len(on[h]) /\ Node(h, j)' = Node(h, j) /\ Node(h, j + 1)' = Node(h, j + 1)
      BY <1>1, <1>3, <1>6, <2>2
    <3> QED  BY <1>5, <2>2, <3>1 DEF Forward
  <2>3. CASE g = h /\ j = k - 1
    <3>1. Node(h, j)' = Node(h, k - 1) /\ Node(h, j + 1)' = Node(h, k + 1)
      BY <1>1, <1>3, <1>6, <2>3
    <3> QED  BY <2>3, <3>1
  <2>4. CASE g = h /\ j > k - 1
    <3>1. /\ j + 1 \in 0 .. Len(on[h]) /\ j + 1 # k - 1
          /\ Node(h, j)' = Node(h, j + 1) /\ Node(h, j + 1)' = Node(h, (j + 1) + 1)
      BY <1>1, <1>3, <1>6, <2>4
    <3> QED  BY <1>5, <2>4, <3>1 DEF Forward
  <2> QED  BY <1>1, <1>6, <2>1, <2>2, <2>3, <2>4
<1>8. Backward'
  <2> SUFFICES ASSUME NEW g \in Heads, NEW j \in 1 .. Len(on'[g]) + 1
               PROVE  \/ prev'[Node(g, j)'] = Node(g, j - 1)'
                      \/ j = Len(on'[g]) + 1 /\ Late(g)'
                      \/ Bypassed(g, j)'
    BY DEF Backward
  <2>1. CASE g # h
    <3>1. prev[Node(g, j)] = Node(g, j - 1) \/ (j = Len(on[g]) + 1 /\ Late(g))
      BY <1>2, <2>1 DEF Backward
    <3> QED  BY <1>2, <1>4, <2>1, <3>1
  <2>2. CASE g = h /\ j < k
    <3>1. j \in 1 .. Len(on[h]) + 1 /\ j # Len(on[h]) + 1 /\ j # k + 1
      BY <1>1, <1>6, <2>2
    <3>2. prev[Node(h, j)] = Node(h, j - 1)
      BY <3>1 DEF Backward
    <3>3. Node(h, j)' = Node(h, j) /\ Node(h, j - 1)' = Node(h, j - 1)
      BY <1>1, <1>3, <1>6, <2>2
    <3> QED  BY <2>2, <3>2, <3>3
  <2>3. CASE g = h /\ j = k
    <3>1. Node(h, j)' = Node(h, k + 1) /\ Node(h, j - 1)' = Node(h, k - 1)
      BY <1>1, <1>3, <1>6, <2>3
    <3> QED  BY <2>3, <3>1
  <2>4. CASE g = h /\ j > k
    <3>1. j + 1 \in 1 .. Len(on[h]) + 1 /\ j + 1 # k + 1 /\ j + 1 - 1 = j
      BY <1>1, <1>6, <2>4
    <3>2. prev[Node(h, j + 1)] = Node(h, j) \/ (j + 1 = Len(on[h]) + 1 /\ Late(h))
      BY <3>1 DEF Backward
    <3>3. Node(h, j)' = Node(h, j + 1) /\ Node(h, j - 1)' = Node(h, j)
      BY <1>1, <1>3, <1>6, <2>4
    <3> QED  BY <1>1, <2>4, <3>2, <3>3
  <2> QED  BY <1>1, <1>6, <2>1, <2>2, <2>3, <2>4
<1> QED  BY <1>1, <1>7, <1>8

LEMMA UnlinkNextWhole ==
  ASSUME Types, Whole, UnlinkNext
  PROVE  Whole'
<1> USE Kinds, Numbers DEF Whole
<1>1. /\ Alone(scheduler) /\ pc[scheduler] = "unlink_next" /\ pc'[scheduler] = "place"
      /\ UNCHANGED <<prev, start_floor, head, dummy, dest>> /\ temp' = temp
  BY DEF UnlinkNext, Work, At, Alone, Types, Threading, temp
<1>2. PICK h \in Heads : h = head
  BY DEF Types, Working
<1>3. PICK k \in 1 .. Len(on[h]) :
        /\ on[h][k] = temp /\ before = Node(h, k - 1) /\ after = Node(h, k + 1)
        /\ prev[after] = before
  BY <1>1, <1>2, Neighbours
<1>4. PICK n \in Passengers : n = temp
  BY <1>3, NodeFacts
<1>5. Len(on[h]) \in Nat /\ k - 1 \in 0 .. Len(on[h]) /\ before \in Nodes
  <2>1. Len(on[h]) \in Nat /\ k - 1 \in Int
    BY NodeFacts
  <2> QED  BY <1>3, <2>1, NodeFacts
<1>6. \A m : next'[m] = IF m = Node(h, k - 1) THEN Node(h, k + 1) ELSE next[m]
  BY <1>3, <1>5 DEF UnlinkNext, Set, Types, Pointers
<1>7. on' = [on EXCEPT ![h] = RemoveFirst(@, n)] /\ n = on[h][k]
  BY <1>2, <1>3, <1>4 DEF UnlinkNext
<1>8. \A q \in Passengers : Fresh(q)' => Fresh(q)
  BY <1>1 DEF Fresh, Alone
<1>9. Lists' /\ Forward' /\ Backward'
  <2>1. \A g \in Heads : Late(g) => Late(g)'
    BY <1>1 DEF Late, Alone
  <2>2. \A g \in Heads : \A j \in Int : Bypassed(g, j) => g = h /\ j = k + 1
    <3> SUFFICES ASSUME NEW g \in Heads, NEW j \in Int, Bypassed(g, j)
                 PROVE  g = h /\ j = k + 1
      OBVIOUS
    <3>1. g = h /\ j - 1 \in 1 .. Len(on[h]) /\ on[h][j - 1] = on[h][k]
      BY <1>2, <1>3 DEF Bypassed
    <3>2. j - 1 = k
      BY <3>1 DEF Lists
    <3> QED  BY <3>1, <3>2
  <2> QED  BY <1>1, <1>3, <1>6, <1>7, <1>8, <2>1, <2>2, Removed
<1>10. \A g \in Heads : g # h => on'[g] = on[g]
  BY <1>7 DEF Lists
<1>11. \A g \in Heads : \A m : OnList(m, g) /\ m # n => OnList(m, g)'
  BY <1>1, <1>7, <1>8, RemovedLists
<1>12. \A g \in Heads : ~OnList(n, g)'
  BY <1>1, <1>7, <1>8, RemovedLists
<1>13. Adders'
  <2>1. \A q \in Passengers : AddingNow(q) =>
          on'[start_floor[q]] = on[start_floor[q]] /\ next'[q] = next[q]
    <3> SUFFICES ASSUME NEW q \in Passengers, AddingNow(q)
                 PROVE  on'[start_floor[q]] = on[start_floor[q]] /\ next'[q] = next[q]
      OBVIOUS
    <3>1. start_floor[q] \in Heads /\ start_floor[q] # h
      BY <1>1, <1>2 DEF Types, Adders, Removing
    <3>2. q # Node(h, k - 1)
      BY <1>5, FreshOff, OffNode DEF Fresh, AddingNow
    <3> QED  BY <1>6, <1>10, <3>1, <3>2
  <2> QED  BY <1>1, <2>1, AddersUndisturbed
<1>14. Looping'
  <2>1. dummy # n /\ (dummy = h \/ OnList(dummy, h))
    BY <1>1, <1>2, <1>4 DEF Looping, OnList
  <2>2. dummy = h \/ OnList(dummy, h)'
    BY <1>1, <1>11, <2>1 DEF OnList
  <2> QED  BY <1>1, <1>2, <1>4, <2>1, <2>2 DEF Looping, OnList
<1>15. Placing'
  <2>1. ~Fresh(n) /\ ~Fresh(n)' /\ \A g \in Heads : ~OnList(n, g)'
    BY <1>7, <1>8, <1>12 DEF Lists
  <2>2. ~Fresh(temp)' /\ \A g \in Heads : ~OnList(temp, g)'
    BY <1>1, <1>4, <2>1 DEF Fresh, OnList
  <2> QED  BY <1>1, <1>4, <2>2 DEF Placing
<1> QED  BY <1>1, <1>9, <1>13, <1>14, <1>15 DEF Unlinking

LEMMA WorkWhole ==
  ASSUME Types, Whole, Scheduler \/ DeleteBegin \/ \E h \in Heads : LoopBegin(h), ~raced'
  PROVE  Whole'
  BY LoopWhole, UnlinkWhole, UnlinkPrevWhole, UnlinkNextWhole, PlaceNowhereWhole,
     PlaceLastWhole, PlaceNextWhole DEF Scheduler

-----------------------------------------------------------------------------
(* The sums of elevator_proc_read.                                         *)

\* A sum goes on as long as nobody leaves its list, whoever comes.
LEMMA SumAtKept ==
  ASSUME NEW f \in Heads, Len(on[f]) \in Nat, Len(on'[f]) \in Nat, Len(on[f]) <= Len(on'[f]),
         \A j \in 1 .. Len(on[f]) : on'[f][j] = on[f][j],
         NEW s, NEW w, NEW n, SumAt(f, s, w, n)
  PROVE  SumAt(f, s, w, n)'
<1>1. PICK k \in 1 .. Len(on[f]) + 1 :
        /\ s = {on[f][j] : j \in 1 .. k - 1}
        /\ \A p \in w : OnList(p, f)
        /\ \/ n = f /\ w \subseteq s
           \/ k <= Len(on[f]) /\ n = on[f][k]
  BY DEF SumAt
<1>2. s = {on'[f][j] : j \in 1 .. k - 1}
  <2>1. \A j \in 1 .. k - 1 : on'[f][j] = on[f][j]
    OBVIOUS
  <2> QED  BY <1>1, <2>1
<1>3. \A p \in w : OnList(p, f)'
  BY <1>1 DEF OnList
<1>4. k \in 1 .. Len(on'[f]) + 1
      /\ (k <= Len(on[f]) => k <= Len(on'[f]) /\ on'[f][k] = on[f][k])
  OBVIOUS
<1> QED  BY <1>1, <1>2, <1>3, <1>4 DEF SumAt

LEMMA SumsGoOn ==
  ASSUME Types, Lists, Summing, UNCHANGED readVars,
         \A r \in Readers : pc'[r] = pc[r] /\ at'[r] = at[r],
         \A r \in Readers : pc[r] = "visit" /\ r \notin disturbed' =>
           /\ r \notin disturbed
           /\ Len(on'[floor[r]]) \in Nat /\ Len(on[floor[r]]) <= Len(on'[floor[r]])
           /\ \A j \in 1 .. Len(on[floor[r]]) : on'[floor[r]][j] = on[floor[r]][j]
  PROVE  Summing'
<1> SUFFICES ASSUME NEW r \in Readers, pc[r] = "visit", r \notin disturbed'
             PROVE  SumAt(floor[r], seen[r], was[r], at[r])'
  BY DEF Summing
<1>1. PICK f \in Heads : f = floor[r]
  BY Numbers DEF Types, Reading
<1>2. \E s, w, n : s = seen[r] /\ w = was[r] /\ n = at[r]
  OBVIOUS
<1>3. PICK s, w, n : s = seen[r] /\ w = was[r] /\ n = at[r]
  BY <1>2
<1>4. SumAt(f, s, w, n)
  BY <1>1, <1>3 DEF Summing, SumAt
<1>5. /\ Len(on[f]) \in Nat /\ Len(on'[f]) \in Nat /\ Len(on[f]) <= Len(on'[f])
      /\ \A j \in 1 .. Len(on[f]) : on'[f][j] = on[f][j]
  BY <1>1, NodeFacts
<1>6. SumAt(f, s, w, n)'
  BY <1>4, <1>5, SumAtKept
<1>7. f = floor'[r] /\ s = seen'[r] /\ w = was'[r] /\ n = at'[r]
  BY <1>1, <1>3 DEF readVars
<1> QED  BY <1>6, <1>7 DEF SumAt, OnList

LEMMA RequestSumming ==
  ASSUME Types, Whole, Summing, NEW p \in Passengers, AddRead(p) \/ Request(p)
  PROVE  Summing'
<1> USE Kinds, Numbers DEF Whole
<1>1. Alone(p) /\ UNCHANGED readVars
  BY DEF AddRead, Request, AddPrev, AddSelf, AddNext, PrintBegin, PrintIndex, PrintFirst,
         PrintVisit, PrintTest, PrintStore, PrintStep, At, Hold, Alone, Types, Threading
<1>2. \A r \in Readers : pc'[r] = pc[r] /\ at'[r] = at[r] /\ (r \in disturbed => r \in disturbed')
  <2>1. \A r \in Readers : r \in disturbed => r \in disturbed'
    BY DEF AddRead, Request, AddPrev, AddSelf, AddNext, PrintBegin, PrintIndex, PrintFirst,
           PrintVisit, PrintTest, PrintStore, PrintStep, historyVars
  <2> QED  BY <1>1, <2>1 DEF Alone
<1>3. \A h \in Heads : /\ Len(on[h]) \in Nat /\ Len(on'[h]) \in Nat
                       /\ Len(on[h]) <= Len(on'[h])
                       /\ \A j \in 1 .. Len(on[h]) : on'[h][j] = on[h][j]
  <2>1. CASE AddNext(p)
    <3> TAKE h \in Heads
    <3>1. on[h] \in Seq(Passengers) /\ Len(on[h]) \in Nat
      BY NodeFacts
    <3>2. on'[h] = on[h] \/ on'[h] = Append(on[h], p)
      BY <2>1 DEF AddNext, Lists
    <3> QED  BY <3>1, <3>2, AppendOne
  <2>2. CASE ~AddNext(p)
    <3>1. on' = on
      BY <2>2 DEF AddRead, Request, AddPrev, AddSelf, PrintBegin, PrintIndex, PrintFirst,
                  PrintVisit, PrintTest, PrintStore, PrintStep, historyVars
    <3> QED  BY <3>1, NodeFacts
  <2> QED  BY <2>1, <2>2
<1>4. \A r \in Readers : floor[r] \in Heads
  BY DEF Types, Reading
<1> QED  BY <1>1, <1>2, <1>3, <1>4, SumsGoOn

LEMMA WorkSumming ==
  ASSUME Types, Whole, Summing, Scheduler \/ DeleteBegin \/ \E h \in Heads : LoopBegin(h)
  PROVE  Summing'
<1> USE Kinds, Numbers DEF Whole
<1>1. Alone(scheduler) /\ UNCHANGED readVars
  BY DEF Scheduler, Save, LoopEnd, LoadFull, KeepOnboard, Unlink, UnlinkPrev, UnlinkNext,
         PlaceNowhere, PlaceLast, PlaceNext, PrintWho, DeleteBegin, LoopBegin, Loop, LoopLeave,
         Advance, Work, At, Hold, Alone, Types, Threading
<1>2. \A r \in Readers : pc'[r] = pc[r] /\ at'[r] = at[r]
  BY <1>1 DEF Alone
<1>3. \A r \in Readers : floor[r] \in Floors /\ floor[r] \in Heads
  BY DEF Types, Reading
<1>4. ASSUME \A r \in Readers : pc[r] = "visit" /\ r \notin disturbed' =>
               r \notin disturbed /\ on'[floor[r]] = on[floor[r]]
      PROVE  Summing'
  BY <1>1, <1>2, <1>3, <1>4, NodeFacts, SumsGoOn
<1>5. CASE UnlinkNext
  <2>1. CASE head \in Floors
    <3>1. disturbed' = disturbed \cup Walking
      BY <1>5, <2>1 DEF UnlinkNext
    <3> QED  BY <1>4, <3>1 DEF Walking
  <2>2. CASE head \notin Floors
    <3>1. disturbed' = disturbed /\ \A f \in Floors : on'[f] = on[f]
      BY <1>5, <2>2 DEF UnlinkNext, Lists
    <3> QED  BY <1>3, <1>4, <3>1
  <2> QED  BY <2>1, <2>2
<1>6. CASE PlaceNext
  <2>1. dest \notin Floors /\ disturbed' = disturbed
    BY <1>6 DEF PlaceNext, Work, At, Placing
  <2>2. \A f \in Floors : on'[f] = on[f]
    BY <1>6, <2>1 DEF PlaceNext, Lists
  <2> QED  BY <1>3, <1>4, <2>1, <2>2
<1>7. CASE ~(UnlinkNext \/ PlaceNext)
  <2>1. UNCHANGED historyVars \/ UNCHANGED <<on, removed, disturbed>>
    BY <1>7 DEF Scheduler, Save, LoopEnd, LoadFull, KeepOnboard, Unlink, UnlinkPrev,
                PlaceNowhere, PlaceLast, PrintWho, DeleteBegin, LoopBegin, Loop, LoopLeave
  <2> QED  BY <1>4, <2>1 DEF historyVars
<1> QED  BY <1>5, <1>6, <1>7

LEMMA ReaderSumming ==
  ASSUME Types, Whole, Summing, ~raced, NEW r \in Readers,
         SumVisit(r) \/ SumEnd(r) \/ \E f \in Floors : SumBegin(r, f)
  PROVE  Summing'
<1> USE Kinds, Numbers DEF Whole
<1>1. Alone(r) /\ on' = on
  BY DEF SumVisit, SumEnd, SumBegin, At, Hold, Alone, Types, Threading, historyVars
<1>2. \A q \in Readers : q # r =>
        /\ pc'[q] = pc[q] /\ at'[q] = at[q]
        /\ floor'[q] = floor[q] /\ seen'[q] = seen[q] /\ was'[q] = was[q]
        /\ (q \in disturbed => q \in disturbed')
  <2>1. \A q \in Readers : q # r => floor'[q] = floor[q]
    BY DEF SumVisit, SumEnd, SumBegin, Types, Reading
  <2>2. \A q \in Readers : q # r => seen'[q] = seen[q]
    BY DEF SumVisit, SumEnd, SumBegin, Types, Reading
  <2>3. \A q \in Readers : q # r => was'[q] = was[q]
    BY DEF SumVisit, SumEnd, SumBegin, Types, Reading
  <2>4. \A q \in Readers : q # r => (q \in disturbed => q \in disturbed')
    BY DEF SumVisit, SumEnd, SumBegin, historyVars
  <2> QED  BY <1>1, <2>1, <2>2, <2>3, <2>4 DEF Alone
\* It is enough to look at the sum of r.
<1>3. ASSUME pc'[r] = "visit" /\ r \notin disturbed' =>
               SumAt(floor'[r], seen'[r], was'[r], at'[r])
      PROVE  Summing'
  <2> SUFFICES ASSUME NEW q \in Readers, pc'[q] = "visit", q \notin disturbed'
               PROVE  SumAt(floor[q], seen[q], was[q], at[q])'
    BY DEF Summing
  <2>1. SumAt(floor'[q], seen'[q], was'[q], at'[q])
    <3>1. CASE q = r
      BY <1>3, <3>1
    <3>2. CASE q # r
      BY <1>2, <3>2 DEF Summing
    <3> QED  BY <3>1, <3>2
  <2> QED  BY <1>1, <2>1 DEF SumAt, OnList
<1>4. ASSUME NEW f \in Floors, SumBegin(r, f)
      PROVE  Summing'
  <2>1. /\ pc[r] = "new" /\ pc'[r] = "visit" /\ at'[r] = next[f] /\ floor'[r] = f
        /\ was'[r] = {on[f][k] : k \in DOMAIN on[f]} /\ seen'[r] = {}
    BY <1>4 DEF SumBegin, At, Hold, Types, Threading, Reading, OfReader
  <2>2. f \in Heads /\ Len(on[f]) \in Nat /\ DOMAIN on[f] = 1 .. Len(on[f])
    BY NodeFacts, LenProperties
  <2>3. next[f] = Node(f, 1)
    <3>1. Node(f, 0) = f /\ 0 \in 0 .. Len(on[f])
      BY <2>2, NodeFacts
    <3> QED  BY <2>2, <3>1 DEF Forward
  <2>4. \A p \in was'[r] : OnList(p, f)
    BY <2>1, <2>2 DEF OnList
  <2>5. IF Len(on[f]) = 0 THEN next[f] = f /\ was'[r] = {} ELSE next[f] = on[f][1]
    BY <2>1, <2>2, <2>3, NodeFacts
  <2>6. 1 \in 1 .. Len(on[f]) + 1 /\ seen'[r] = {on[f][j] : j \in 1 .. 1 - 1}
        /\ (Len(on[f]) # 0 => 1 <= Len(on[f]))
    BY <2>1, <2>2
  <2>7. SumAt(f, seen'[r], was'[r], at'[r])
    BY <2>1, <2>4, <2>5, <2>6 DEF SumAt
  <2> QED  BY <1>3, <2>1, <2>7
<1>5. CASE SumVisit(r)
  <2>0. disturbed' = disturbed
    BY <1>5 DEF SumVisit, historyVars
  <2> SUFFICES ASSUME r \notin disturbed PROVE Summing'
    BY <1>3, <2>0
  <2>1. PICK f \in Heads : f = floor[r]
    BY DEF Types, Reading
  <2>2. /\ pc[r] = "visit" /\ at[r] # f /\ floor'[r] = f /\ was'[r] = was[r]
        /\ at'[r] = (IF at[r] = Bad THEN Bad ELSE next[at[r]])
        /\ seen'[r] = seen[r] \cup {at[r]}
    BY <1>5, <2>1 DEF SumVisit, Forgotten, At, Hold, AllSummed, Types, Threading, Reading
  <2>3. SumAt(f, seen[r], was[r], at[r]) /\ Len(on[f]) \in Nat
    BY <2>1, <2>2, NodeFacts DEF Summing
  <2>4. PICK k \in 1 .. Len(on[f]) :
          /\ seen[r] = {on[f][j] : j \in 1 .. k - 1} /\ at[r] = on[f][k]
          /\ \A p \in was[r] : OnList(p, f)
    BY <2>2, <2>3 DEF SumAt
  <2>5. at[r] \in Passengers /\ Node(f, k) = at[r] /\ k \in 0 .. Len(on[f])
    BY <2>3, <2>4, NodeFacts
  <2>6. at'[r] = Node(f, k + 1)
    <3>1. at[r] # Bad
      BY <2>5
    <3> QED  BY <2>2, <2>5, <3>1 DEF Forward
  <2>7. seen'[r] = {on[f][j] : j \in 1 .. k}
    <3>1. 1 .. k = (1 .. k - 1) \cup {k}
      OBVIOUS
    <3> QED  BY <2>2, <2>4, <3>1
  <2>8. k = Len(on[f]) => at'[r] = f /\ was'[r] \subseteq seen'[r]
    <3> SUFFICES ASSUME k = Len(on[f]) PROVE at'[r] = f /\ was'[r] \subseteq seen'[r]
      OBVIOUS
    <3>1. at'[r] = f
      BY <2>3, <2>6, NodeFacts
    <3>2. \A p \in was[r] : p \in seen'[r]
      BY <2>4, <2>7 DEF OnList
    <3> QED  BY <2>2, <3>1, <3>2
  <2>9. k # Len(on[f]) => at'[r] = on[f][k + 1] /\ k + 1 <= Len(on[f])
    BY <2>3, <2>6, NodeFacts
  <2>10. k + 1 \in 1 .. Len(on[f]) + 1 /\ k = (k + 1) - 1
    BY <2>3
  <2>11. SumAt(f, seen'[r], was'[r], at'[r])
    BY <2>2, <2>4, <2>7, <2>8, <2>9, <2>10 DEF SumAt
  <2> QED  BY <1>3, <2>2, <2>11
<1>6. CASE SumEnd(r)
  <2>1. pc'[r] = "new"
    BY <1>6 DEF SumEnd, At, Types, Threading
  <2> QED  BY <1>3, <2>1
<1> QED  BY <1>4, <1>5, <1>6

-----------------------------------------------------------------------------
(* Where following pointers leads to.                                      *)

\* Induction, with a set for the predicate: the least number outside A is not 0
\* and comes after a number in A.
LEMMA CountUp ==
  ASSUME NEW N \in Nat, NEW A, 0 \in A, \A k \in 0 .. N - 1 : k \in A => k + 1 \in A
  PROVE  0 .. N \subseteq A
<1> DEFINE R == OpToRel(<, Nat)
           T == (0 .. N) \ A
<1>1. IsWellFoundedOn(R, Nat)
  BY NatLessThanWellFounded
<1>2. \A x, y \in Nat : x < y => <<x, y>> \in R
  BY DEF OpToRel
<1> HIDE DEF R
<1> SUFFICES ASSUME T # {} PROVE FALSE
  OBVIOUS
<1>3. PICK x \in T : \A y \in T : ~(<<y, x>> \in R)
  <2>1. T \subseteq Nat
    OBVIOUS
  <2> HIDE DEF T
  <2> QED  BY <1>1, <2>1, WFMin
<1>4. x \in 1 .. N /\ x - 1 \in 0 .. N - 1 /\ x - 1 + 1 = x
  OBVIOUS
<1>5. x - 1 \in A
  <2>1. <<x - 1, x>> \in R
    BY <1>2, <1>4
  <2> QED  BY <1>3, <1>4, <2>1
<1> QED  BY <1>4, <1>5

\* The equation of hop in Reaches: f follows g from n on, up to m times.
Hops(f, n, g, E, m) == f = [k \in 0 .. m |-> IF k = 0 THEN n
                             ELSE IF f[k - 1] \in E THEN f[k - 1] ELSE g[f[k - 1]]]

LEMMA HopExists ==
  ASSUME NEW N \in Nat, NEW g, NEW E, NEW n
  PROVE  \E f : Hops(f, n, g, E, N)
<1> DEFINE A == {m \in Nat : \E f : Hops(f, n, g, E, m)}
<1>1. 0 \in A
  <2>1. Hops([k \in 0 .. 0 |-> n], n, g, E, 0)
    BY DEF Hops
  <2> QED  BY <2>1
<1>2. ASSUME NEW m \in 0 .. N - 1, m \in A PROVE m + 1 \in A
  <2>1. PICK f : Hops(f, n, g, E, m)
    BY <1>2
  <2> DEFINE h == [k \in 0 .. m + 1 |->
                    IF k = m + 1 THEN IF f[m] \in E THEN f[m] ELSE g[f[m]] ELSE f[k]]
  <2>2. \A k \in 0 .. m : h[k] = f[k]
    OBVIOUS
  <2>3. \A k \in 0 .. m : f[k] = IF k = 0 THEN n
                                 ELSE IF f[k - 1] \in E THEN f[k - 1] ELSE g[f[k - 1]]
    BY <2>1 DEF Hops
  <2>4. \A k \in 0 .. m + 1 : h[k] = IF k = 0 THEN n
                                     ELSE IF h[k - 1] \in E THEN h[k - 1] ELSE g[h[k - 1]]
    <3> TAKE k \in 0 .. m + 1
    <3>1. CASE k = m + 1
      <4>1. h[k - 1] = f[m] /\ k # 0
        BY <3>1, <2>2
      <4> QED  BY <3>1, <4>1
    <3>2. CASE k = 0
      BY <3>2, <2>2, <2>3
    <3>3. CASE k \in 1 .. m
      <4>1. k - 1 \in 0 .. m /\ k \in 0 .. m /\ k # 0
        BY <3>3
      <4> HIDE DEF h
      <4> QED  BY <2>2, <2>3, <4>1
    <3> QED  BY <3>1, <3>2, <3>3
  <2>5. Hops(h, n, g, E, m + 1)
    <3>1. DOMAIN h = 0 .. m + 1 /\ h = [k \in 0 .. m + 1 |-> h[k]]
      OBVIOUS
    <3> HIDE DEF h
    <3> QED  BY <2>4, <3>1 DEF Hops
  <2>6. m + 1 \in Nat
    OBVIOUS
  <2> HIDE DEF h
  <2> QED  BY <2>5, <2>6
<1>3. 0 .. N \subseteq A
  <2> HIDE DEF A
  <2> QED  BY <1>1, <1>2, CountUp
<1> QED  BY <1>3

\* What has no way out of the nodes in S but h, and goes on only to nodes of a
\* higher rank, comes to h in time.
LEMMA LeadsToHead ==
  ASSUME NEW h \in Nodes, NEW S \in SUBSET Nodes, h \in S, NEW n \in S,
         IsFiniteSet(Nodes), Bad \notin Nodes,
         NEW rank \in [S -> Nat],
         \A m \in S \ {h} : next[m] = h \/ (next[m] \in S /\ rank[m] < rank[next[m]])
  PROVE  Reaches(n, h)
<1> DEFINE N == Cardinality(Nodes)
           hop[k \in 0 .. N] ==
             IF k = 0 THEN n
             ELSE IF hop[k - 1] \in {h, Bad} THEN hop[k - 1] ELSE next[hop[k - 1]]
<1>1. N \in Nat
  BY FS_CardinalityType
<1>2. hop = [k \in 0 .. N |-> IF k = 0 THEN n
               ELSE IF hop[k - 1] \in {h, Bad} THEN hop[k - 1] ELSE next[hop[k - 1]]]
  <2> HIDE DEF N
  <2>1. \E f : f = [k \in 0 .. N |-> IF k = 0 THEN n
                     ELSE IF f[k - 1] \in {h, Bad} THEN f[k - 1] ELSE next[f[k - 1]]]
    <3>1. PICK g : g = next
      OBVIOUS
    <3>2. PICK f : Hops(f, n, g, {h, Bad}, N)
      BY <1>1, HopExists
    <3>3. f = [k \in 0 .. N |-> IF k = 0 THEN n
                ELSE IF f[k - 1] \in {h, Bad} THEN f[k - 1] ELSE g[f[k - 1]]]
      BY <3>2, Zenon DEF Hops
    <3>4. f = [k \in 0 .. N |-> IF k = 0 THEN n
                ELSE IF f[k - 1] \in {h, Bad} THEN f[k - 1] ELSE next[f[k - 1]]]
      BY <3>1, <3>3, Zenon
    <3> QED  BY <3>4, Zenon
  <2> QED  BY <2>1
<1> SUFFICES hop[N] = h
  BY DEF Reaches
<1>3. hop[0] = n /\ \A k \in 0 .. N - 1 :
        hop[k + 1] = IF hop[k] \in {h, Bad} THEN hop[k] ELSE next[hop[k]]
  <2> HIDE DEF N, hop
  <2> QED  BY <1>1, <1>2
<1> HIDE DEF N, hop
<1>4. \A k \in 0 .. N : hop[k] \in S
  <2> DEFINE A == {k \in Nat : hop[k] \in S}
  <2>1. 0 \in A
    BY <1>3
  <2>2. \A k \in 0 .. N - 1 : k \in A => k + 1 \in A
    BY <1>1, <1>3
  <2>3. 0 .. N \subseteq A
    <3> HIDE DEF A
    <3> QED  BY <1>1, <2>1, <2>2, CountUp
  <2> QED  BY <2>3
<1> SUFFICES ASSUME hop[N] # h PROVE FALSE
  OBVIOUS
\* It is not there earlier either, since it would have stayed there.
<1>5. \A k \in 0 .. N : hop[k] # h
  <2> DEFINE A == {k \in Nat : hop[N - k] # h}
  <2>1. 0 \in A
    BY <1>1
  <2>2. ASSUME NEW k \in 0 .. N - 1, k \in A PROVE k + 1 \in A
    <3>1. N - (k + 1) \in 0 .. N - 1 /\ N - (k + 1) + 1 = N - k
      BY <1>1
    <3> QED  BY <1>3, <2>2, <3>1
  <2>3. 0 .. N \subseteq A
    <3> HIDE DEF A
    <3> QED  BY <1>1, <2>1, <2>2, CountUp
  <2>4. \A k \in 0 .. N : N - k \in 0 .. N /\ N - (N - k) = k
    BY <1>1
  <2> QED  BY <2>3, <2>4
<1>6. \A k \in 0 .. N - 1 : rank[hop[k]] < rank[hop[k + 1]] /\ rank[hop[k + 1]] \in Nat
  <2> TAKE k \in 0 .. N - 1
  <2>1. k \in 0 .. N /\ k + 1 \in 0 .. N
    BY <1>1
  <2>2. hop[k] \in S \ {h} /\ hop[k] # Bad /\ hop[k + 1] \in S \ {h}
    BY <1>4, <1>5, <2>1
  <2> QED  BY <1>3, <2>2
\* So it never comes to a node twice: there are too few.
<1>7. ASSUME NEW j \in 0 .. N, NEW k \in 0 .. N, j < k
      PROVE  rank[hop[j]] < rank[hop[k]]
  <2> DEFINE A == {m \in Nat : m = 0 \/ j + m > N \/ rank[hop[j]] < rank[hop[j + m]]}
  <2>1. 0 \in A
    OBVIOUS
  <2>2. ASSUME NEW m \in 0 .. N - 1, m \in A PROVE m + 1 \in A
    <3>1. CASE j + (m + 1) > N
      BY <3>1, <1>1
    <3>2. CASE j + (m + 1) <= N
      <4>1. j + m \in 0 .. N - 1 /\ j + m + 1 = j + (m + 1) /\ j + m \in 0 .. N /\ m \in Nat
        BY <1>1, <3>2
      <4>2. rank[hop[j + m]] < rank[hop[j + (m + 1)]]
        BY <1>6, <4>1
      <4>3. rank[hop[j]] \in Nat /\ rank[hop[j + m]] \in Nat /\ rank[hop[j + (m + 1)]] \in Nat
        BY <1>4, <1>6, <4>1
      <4>4. m = 0 \/ rank[hop[j]] < rank[hop[j + m]]
        BY <1>1, <2>2, <4>1
      <4>5. rank[hop[j]] < rank[hop[j + (m + 1)]]
        <5>1. CASE m = 0
          BY <4>1, <4>2, <5>1
        <5>2. CASE rank[hop[j]] < rank[hop[j + m]]
          BY <4>2, <4>3, <5>2
        <5> QED  BY <4>4, <5>1, <5>2
      <4> QED  BY <4>1, <4>5
    <3> QED  BY <1>1, <3>1, <3>2
  <2>3. 0 .. N \subseteq A
    <3> HIDE DEF A
    <3> QED  BY <1>1, <2>1, <2>2, CountUp
  <2>4. k - j \in 0 .. N /\ k - j # 0 /\ j + (k - j) = k /\ ~(k > N)
    BY <1>1, <1>7
  <2>5. k - j \in A
    BY <2>3, <2>4
  <2> QED  BY <2>4, <2>5
<1>8. hop \in [0 .. N -> Nodes]
  BY <1>2, <1>4
<1>9. IsFiniteSet(0 .. N) /\ Cardinality(0 .. N) = N + 1
  <2>1. 0 \in Int /\ N \in Int /\ ~(0 > N) /\ N - 0 + 1 = N + 1
    BY <1>1
  <2> QED  BY <2>1, FS_Interval
<1>10. PICK j, k \in 0 .. N : j # k /\ hop[j] = hop[k]
  <2>1. Cardinality(Nodes) < Cardinality(0 .. N)
    BY <1>1, <1>9 DEF N
  <2> QED  BY <1>8, <1>9, <2>1, FS_PigeonHole
<1>11. rank[hop[j]] \in Nat
  BY <1>4
<1> QED  BY <1>1, <1>7, <1>10, <1>11
LEMMA FiniteNodes == IsFiniteSet(Nodes)
<1>1. IsFiniteSet(Floors)
  BY Numbers, FS_Interval DEF Floors
<1>2. IsFiniteSet({onboard, move_list})
  <2>1. IsFiniteSet({} \cup {onboard})
    BY FS_EmptySet, FS_AddElement
  <2>2. IsFiniteSet({} \cup {onboard} \cup {move_list})
    BY <2>1, FS_AddElement
  <2>3. {} \cup {onboard} \cup {move_list} = {onboard, move_list}
    OBVIOUS
  <2> QED  BY <2>2, <2>3
<1>3. IsFiniteSet(Heads)
  BY <1>1, <1>2, FS_Union DEF Heads
<1> QED  BY <1>3, FS_Union, ListAssumption DEF Nodes

\* A walk over a whole list comes back to its head, from wherever it is.
LEMMA WholeReaches ==
  ASSUME Lists, Forward, NEW h \in Heads
  PROVE  Returns(h) /\ \A k \in 0 .. Len(on[h]) : Reaches(Node(h, k), h)
<1> DEFINE S == {Node(h, k) : k \in 0 .. Len(on[h])}
           rank == [m \in S |-> CHOOSE k \in 0 .. Len(on[h]) : Node(h, k) = m]
<1>1. /\ Len(on[h]) \in Nat /\ Node(h, 0) = h
      /\ \A k \in 1 .. Len(on[h]) : Node(h, k) \in Passengers
      /\ \A j, k \in 0 .. Len(on[h]) : Node(h, j) = Node(h, k) => j = k
  BY NodeFacts
<1>2. \A k \in 0 .. Len(on[h]) : Node(h, k) \in S
  OBVIOUS
<1>3. S \in SUBSET Nodes /\ h \in S
  <2>1. \A k \in 0 .. Len(on[h]) : Node(h, k) \in Nodes
    BY <1>1, Numbers
  <2> QED  BY <1>1, <2>1
<1>4. rank \in [S -> Nat] /\ \A k \in 0 .. Len(on[h]) : rank[Node(h, k)] = k
  <2>1. \A k \in 0 .. Len(on[h]) : rank[Node(h, k)] = k
    BY <1>1
  <2>2. \A m \in S : rank[m] \in Nat
    BY <1>1, <2>1
  <2> QED  BY <2>1, <2>2
<1>5. \A k \in 0 .. Len(on[h]) :
        /\ next[Node(h, k)] \in S
        /\ next[Node(h, k)] = h \/ rank[Node(h, k)] < rank[next[Node(h, k)]]
  <2> SUFFICES ASSUME NEW k \in 0 .. Len(on[h])
               PROVE  /\ next[Node(h, k)] \in S
                      /\ next[Node(h, k)] = h \/ rank[Node(h, k)] < rank[next[Node(h, k)]]
    OBVIOUS
  <2>1. next[Node(h, k)] = Node(h, k + 1)
    BY DEF Forward
  <2>2. CASE k = Len(on[h])
    <3>1. Node(h, k + 1) = h
      BY <1>1, <2>2, NodeFacts
    <3> QED  BY <1>3, <2>1, <3>1
  <2>3. CASE k # Len(on[h])
    <3>1. k + 1 \in 0 .. Len(on[h])
      BY <1>1, <2>3
    <3>2. next[Node(h, k)] \in S
      BY <1>2, <2>1, <3>1
    <3>3. rank[Node(h, k)] = k /\ rank[next[Node(h, k)]] = k + 1
      BY <1>4, <2>1, <3>1
    <3> HIDE DEF rank, S
    <3>4. rank[Node(h, k)] < rank[next[Node(h, k)]]
      BY <1>1, <3>3
    <3> QED  BY <3>2, <3>4, Zenon
  <2> QED  BY <2>2, <2>3
<1>6. \A m \in S : next[m] \in S /\ (next[m] = h \/ rank[m] < rank[next[m]])
  BY <1>5
<1> HIDE DEF S, rank
<1>7. next[h] \in S /\ next[h] # Bad
  BY <1>3, <1>6, Numbers
<1>8. ASSUME NEW n \in S PROVE Reaches(n, h)
  BY <1>3, <1>4, <1>6, <1>8, FiniteNodes, Numbers, LeadsToHead
<1> QED  BY <1>2, <1>7, <1>8 DEF Returns

-----------------------------------------------------------------------------
(* The walks.  They need an invariant of their own, since they also come to *)
(* their end on lists to which requests have raced each other, as long as   *)
(* nobody has been taken off the list of a floor.                           *)

\* Who has written to prev of the head of the list f, and whose own next is set.
Begun(p, f)  == p \in Passengers /\ start_floor[p] = f /\ pc[p] \notin {"new", "add_prev"}
Linked(p, f) == Begun(p, f) /\ pc[p] # "add_self"

\* next leads to the head or to a request that came later, and what a request
\* has read from prev of the head is the head or a request that came before.
Chains(rank) ==
  /\ \A f \in Floors : /\ next[f] = f \/ Linked(next[f], f)
                       /\ prev[f] = f \/ Begun(prev[f], f)
  /\ \A f \in Floors : \A p \in Passengers : Linked(p, f) =>
       /\ next[p] = f \/ (Linked(next[p], f) /\ rank[p] < rank[next[p]])
       /\ prev[p] = f \/ Begun(prev[p], f)
  /\ \A f \in Floors : \A p \in Passengers : AddingNow(p) /\ start_floor[p] = f =>
       at[p] = f \/ (Begun(at[p], f) /\ rank[at[p]] < rank[p])

\* The scheduler thread has not come beyond the first list_del or list_move_tail.
Unboarded ==
  /\ next[onboard] = onboard /\ next[move_list] = move_list
  /\ pc[scheduler] \notin {"place", "place_next", "who"}
  /\ pc[scheduler] = "save" => temp = head \/ Linked(temp, head)
  /\ pc[scheduler] \in {"body", "unlink_prev", "unlink_next"} => Linked(temp, head)
  /\ pc[scheduler] \in {"unlink_prev", "unlink_next"} =>
       /\ before = head \/ Begun(before, head)
       /\ after = head \/ Linked(after, head)

Homeward == Unboarded /\ \E N \in Nat : \E rank \in [Passengers -> 0 .. N] : Chains(rank)

\* A call that prints alone has i for itself.
Counting ==
  \A p \in Printing \ disturbed :
    /\ Printing = {p} /\ i \in Floors
    /\ pc[p] \in {"first", "store"} => at[p] = i

\* From n on, next leads to h.
Home(n, h) == n = h \/ ((~raced => OnList(n, h)) /\ (~removed => Linked(n, h)))

Walks ==
  \A t \in Walking \ disturbed :
    /\ t \in Readers => Home(at[t], floor[t])
    /\ t \in Passengers /\ pc[t] \in {"visit", "test"} => Home(at[t], i)

HInv == Counting /\ (~removed => Homeward) /\ Walks

LEMMA InitHInv == Init => HInv
<1> SUFFICES ASSUME Init PROVE HInv
  OBVIOUS
<1> USE Kinds, Numbers
<1>1. Printing = {} /\ Walking = {}
  BY DEF Init, Printing, Walking
<1>2. Unboarded
  BY DEF Init, Unboarded
<1>3. Chains([p \in Passengers |-> 0])
  BY DEF Init, Chains, Linked, Begun, AddingNow
<1>4. 0 \in Nat /\ [p \in Passengers |-> 0] \in [Passengers -> 0 .. 0]
  OBVIOUS
<1>5. Homeward
  BY <1>2, <1>3, <1>4 DEF Homeward
<1> QED  BY <1>1, <1>5 DEF HInv, Counting, Walks

LEMMA ChainsAfter ==
  ASSUME NEW rank, UNCHANGED start_floor,
         \A f \in Floors : next'[f] = f \/ Linked(next[f], f)',
         \A f \in Floors : \A n :
           n = f \/ Linked(n, f)' => prev'[n] = f \/ Begun(prev[n], f)',
         \A f \in Floors : \A p \in Passengers : Linked(p, f)' =>
           next'[p] = f \/ (Linked(next[p], f)' /\ rank[p] < rank[next'[p]]),
         \A f \in Floors : \A p \in Passengers : AddingNow(p)' /\ start_floor[p] = f =>
           at'[p] = f \/ (Begun(at[p], f)' /\ rank[at'[p]] < rank[p])
  PROVE  Chains(rank)'
  BY DEF Chains

\* Writes to prev alone, and steps that write to neither.
LEMMA ChainsFrame ==
  ASSUME NEW rank, Chains(rank), UNCHANGED <<next, start_floor>>,
         \A f \in Floors : \A n : Linked(n, f)' = Linked(n, f) /\ (Begun(n, f) => Begun(n, f)'),
         \A p \in Passengers : AddingNow(p)' => AddingNow(p) /\ at'[p] = at[p],
         \A f \in Floors : \A n : n = f \/ Linked(n, f) =>
           prev'[n] = prev[n] \/ prev'[n] = f \/ Begun(prev[n], f)'
  PROVE  Chains(rank)'
<1>1. ASSUME NEW f \in Floors, NEW n, n = f \/ Linked(n, f)'
      PROVE  prev'[n] = f \/ Begun(prev[n], f)'
  <2>1. CASE prev'[n] = prev[n]
    <3>1. PICK m : m = prev'[n] /\ m = prev[n]
      BY <2>1
    <3>2. m = f \/ Begun(m, f)
      BY <1>1, <3>1 DEF Chains, Linked, Begun
    <3>3. m = f \/ Begun(m, f)'
      BY <3>2
    <3> QED  BY <3>1, <3>3 DEF Begun
  <2>2. CASE prev'[n] # prev[n]
    BY <1>1, <2>2
  <2> QED  BY <2>1, <2>2
<1>2. ASSUME NEW f \in Floors
      PROVE  next'[f] = f \/ Linked(next[f], f)'
  <2>1. PICK m : m = next[f] /\ m = next'[f]
    OBVIOUS
  <2>2. m = f \/ Linked(m, f)'
    BY <2>1 DEF Chains
  <2> QED  BY <2>1, <2>2 DEF Linked, Begun
<1>3. ASSUME NEW f \in Floors, NEW p \in Passengers, Linked(p, f)'
      PROVE  next'[p] = f \/ (Linked(next[p], f)' /\ rank[p] < rank[next'[p]])
  <2>1. PICK m : m = next[p] /\ m = next'[p]
    OBVIOUS
  <2>2. m = f \/ (Linked(m, f)' /\ rank[p] < rank[m])
    BY <1>3, <2>1 DEF Chains
  <2> QED  BY <2>1, <2>2 DEF Linked, Begun
<1>4. ASSUME NEW f \in Floors, NEW p \in Passengers, AddingNow(p)', start_floor[p] = f
      PROVE  at'[p] = f \/ (Begun(at[p], f)' /\ rank[at'[p]] < rank[p])
  <2>1. PICK m : m = at[p] /\ m = at'[p]
    BY <1>4
  <2>2. m = f \/ (Begun(m, f)' /\ rank[m] < rank[p])
    BY <1>4, <2>1 DEF Chains
  <2> QED  BY <2>1, <2>2 DEF Begun
<1> QED  BY <1>1, <1>2, <1>3, <1>4, ChainsAfter

LEMMA RequestLinks ==
  ASSUME Types, NEW p \in Passengers, AddRead(p) \/ Request(p)
  PROVE  /\ Alone(p) /\ UNCHANGED start_floor /\ UNCHANGED workVars /\ UNCHANGED readVars
         /\ \A f : \A n : (Linked(n, f) => Linked(n, f)') /\ (Begun(n, f) => Begun(n, f)')
<1> USE Kinds
<1>1. Alone(p) /\ UNCHANGED start_floor /\ UNCHANGED workVars /\ UNCHANGED readVars
  BY DEF AddRead, Request, AddPrev, AddSelf, AddNext, PrintBegin, PrintIndex, PrintFirst,
         PrintVisit, PrintTest, PrintStore, PrintStep, At, Hold, Alone, Types, Threading
<1>2. /\ pc[p] \notin {"new", "add_prev"} => pc'[p] \notin {"new", "add_prev"}
      /\ pc[p] \notin {"new", "add_prev", "add_self"} =>
           pc'[p] \notin {"new", "add_prev", "add_self"}
  BY DEF AddRead, Request, AddPrev, AddSelf, AddNext, PrintBegin, PrintIndex, PrintFirst,
         PrintVisit, PrintTest, PrintStore, PrintStep, At, Types, Threading
<1> QED  BY <1>1, <1>2 DEF Linked, Begun, Alone

LEMMA UnboardedFrame ==
  ASSUME Unboarded, pc'[scheduler] = pc[scheduler], at'[scheduler] = at[scheduler],
         UNCHANGED workVars, next'[onboard] = next[onboard], next'[move_list] = next[move_list],
         \A f : \A n : (Linked(n, f) => Linked(n, f)') /\ (Begun(n, f) => Begun(n, f)')
  PROVE  Unboarded'
<1>1. temp' = temp /\ head' = head /\ before' = before /\ after' = after
  BY DEF temp, workVars
<1>2. PICK t, h, b, a : t = temp /\ h = head /\ b = before /\ a = after
  OBVIOUS
<1>3. (t = h \/ Linked(t, h) => t = h \/ Linked(t, h)') /\ (Linked(t, h) => Linked(t, h)')
      /\ (b = h \/ Begun(b, h) => b = h \/ Begun(b, h)')
      /\ (a = h \/ Linked(a, h) => a = h \/ Linked(a, h)')
  OBVIOUS
<1>4. /\ Linked(t, h)' = Linked(temp, head)' /\ Begun(b, h)' = Begun(before, head)'
      /\ Linked(a, h)' = Linked(after, head)'
  BY <1>1, <1>2 DEF Linked, Begun
<1> QED  BY <1>1, <1>2, <1>3, <1>4 DEF Unboarded

\* A request that begins has the highest rank of all.
LEMMA AddReadChains ==
  ASSUME Types, NEW p \in Passengers, AddRead(p),
         NEW N \in Nat, NEW rank \in [Passengers -> 0 .. N], Chains(rank)
  PROVE  Chains([rank EXCEPT ![p] = N + 1])'
<1> USE Kinds, Numbers
<1> DEFINE new == [rank EXCEPT ![p] = N + 1]
<1>1. /\ Alone(p) /\ pc[p] = "new" /\ pc'[p] = "add_prev" /\ at'[p] = prev[start_floor[p]]
      /\ UNCHANGED <<next, prev, start_floor>>
  BY DEF AddRead, At, Hold, Alone, Types, Threading, ptrVars
<1>2. \A q \in Passengers : new[q] = IF q = p THEN N + 1 ELSE rank[q]
  OBVIOUS
<1>3. \A q \in Passengers : rank[q] \in 0 .. N
  OBVIOUS
<1> HIDE DEF new
<1>4. \A f : \A n : /\ Linked(n, f)' = Linked(n, f) /\ Begun(n, f)' = Begun(n, f)
                    /\ Begun(n, f) => n # p /\ n \in Passengers
  BY <1>1 DEF Linked, Begun, Alone
<1>5. ASSUME NEW f \in Floors, NEW q \in Passengers, Linked(q, f)'
      PROVE  next'[q] = f \/ (Linked(next[q], f)' /\ new[q] < new[next'[q]])
  <2>1. PICK m : m = next[q] /\ m = next'[q]
    BY <1>1
  <2>2. Linked(q, f)
    BY <1>4, <1>5
  <2>3. m = f \/ (Linked(m, f) /\ rank[q] < rank[m])
    BY <2>1, <2>2 DEF Chains
  <2>4. ASSUME Linked(m, f), rank[q] < rank[m]
        PROVE  Linked(m, f)' /\ new[q] < new[m]
    <3>1. q # p /\ m # p /\ m \in Passengers
      BY <1>4, <2>2, <2>4 DEF Linked
    <3>2. Linked(m, f)'
      BY <1>4, <2>4
    <3> QED  BY <1>2, <2>4, <3>1, <3>2
  <2> QED  BY <2>1, <2>3, <2>4 DEF Linked, Begun
<1>6. ASSUME NEW f \in Floors, NEW q \in Passengers, AddingNow(q)', start_floor[q] = f
      PROVE  at'[q] = f \/ (Begun(at[q], f)' /\ new[at'[q]] < new[q])
  <2>1. PICK m : m = at'[q]
    OBVIOUS
  <2>2. CASE q = p
    <3>1. m = f \/ Begun(m, f)
      BY <1>1, <1>6, <2>1, <2>2 DEF Chains
    <3>2. m = f \/ (Begun(m, f)' /\ new[m] < new[q])
      BY <1>2, <1>3, <1>4, <2>2, <3>1
    <3> QED  BY <2>1, <3>2 DEF Begun
  <2>3. CASE q # p
    <3>1. AddingNow(q) /\ m = at[q]
      BY <1>1, <1>6, <2>1, <2>3 DEF AddingNow, Alone
    <3>2. m = f \/ (Begun(m, f) /\ rank[m] < rank[q])
      BY <1>6, <3>1 DEF Chains
    <3>3. m = f \/ (Begun(m, f)' /\ new[m] < new[q])
      BY <1>2, <1>4, <2>3, <3>2
    <3> QED  BY <2>1, <3>3 DEF Begun
  <2> QED  BY <2>2, <2>3
<1>7. ASSUME NEW f \in Floors, NEW n, n = f \/ Linked(n, f)'
      PROVE  prev'[n] = f \/ Begun(prev[n], f)'
  <2>1. PICK m : m = prev'[n] /\ m = prev[n]
    BY <1>1
  <2>2. n = f \/ Linked(n, f)
    BY <1>4, <1>7
  <2>3. m = f \/ Begun(m, f)
    BY <2>1, <2>2 DEF Chains, Linked, Begun
  <2>4. m = f \/ Begun(m, f)'
    BY <1>4, <2>3
  <2> QED  BY <2>1, <2>4 DEF Begun
<1>8. ASSUME NEW f \in Floors
      PROVE  next'[f] = f \/ Linked(next[f], f)'
  <2>1. PICK m : m = next[f] /\ m = next'[f]
    BY <1>1
  <2>2. m = f \/ Linked(m, f)
    BY <2>1 DEF Chains
  <2>3. m = f \/ Linked(m, f)'
    BY <1>4, <2>2
  <2> QED  BY <2>1, <2>3 DEF Linked, Begun
<1>9. start_floor' = start_floor
  BY <1>1
<1>10. Chains(new)'
  BY <1>5, <1>6, <1>7, <1>8, <1>9, ChainsAfter
<1> QED  BY <1>10 DEF new

LEMMA AddPrevChains ==
  ASSUME Types, NEW p \in Passengers, AddPrev(p), NEW rank, Chains(rank)
  PROVE  Chains(rank)'
<1> USE Kinds, Numbers
<1>1. /\ Alone(p) /\ pc[p] = "add_prev" /\ pc'[p] = "add_self" /\ at' = at
      /\ UNCHANGED <<next, start_floor>>
      /\ \A n : prev'[n] = IF n = start_floor[p] THEN p ELSE prev[n]
  <2>1. start_floor[p] \in Nodes /\ start_floor[p] # Bad
    BY DEF Types
  <2> QED  BY <2>1 DEF AddPrev, At, Alone, Set, Types, Pointers, Threading
<1>2. \A f \in Floors : \A n : Linked(n, f)' = Linked(n, f) /\ (Begun(n, f) => Begun(n, f)')
  BY <1>1 DEF Linked, Begun, Alone
<1>3. \A q \in Passengers : AddingNow(q)' => AddingNow(q) /\ at'[q] = at[q]
  BY <1>1 DEF AddingNow, Alone
<1>4. ASSUME NEW f \in Floors, NEW n, n = f \/ Linked(n, f)
      PROVE  prev'[n] = prev[n] \/ Begun(prev[n], f)'
  <2>1. CASE n = start_floor[p]
    <3>1. n = f
      BY <1>4, <2>1 DEF Linked, Begun, Types
    <3> QED  BY <1>1, <2>1, <3>1 DEF Begun
  <2>2. CASE n # start_floor[p]
    BY <1>1, <2>2
  <2> QED  BY <2>1, <2>2
<1>5. UNCHANGED <<next, start_floor>>
  BY <1>1
<1> QED  BY <1>2, <1>3, <1>4, <1>5, ChainsFrame

LEMMA AddSelfChains ==
  ASSUME Types, NEW p \in Passengers, AddSelf(p), NEW rank, Chains(rank)
  PROVE  Chains(rank)'
<1> USE Kinds, Numbers
<1>1. /\ Alone(p) /\ pc[p] = "add_self" /\ pc'[p] = "add_next" /\ at' = at
      /\ start_floor' = start_floor
      /\ \A n : next'[n] = IF n = p THEN start_floor[p] ELSE next[n]
      /\ \A n : prev'[n] = IF n = p THEN at[p] ELSE prev[n]
  <2>1. p \in Nodes /\ p # Bad
    OBVIOUS
  <2> QED  BY <2>1 DEF AddSelf, At, Alone, Set, Types, Pointers, Threading
<1>2. \A f : \A n : /\ Linked(n, f) => Linked(n, f)'
                    /\ Begun(n, f) => Begun(n, f)'
                    /\ Linked(n, f)' => n \in Passengers /\ start_floor[n] = f
                                        /\ (n # p => Linked(n, f))
  BY <1>1 DEF Linked, Begun, Alone
<1>3. ASSUME NEW f \in Floors, NEW n, n = f \/ Linked(n, f)'
      PROVE  prev'[n] = f \/ Begun(prev[n], f)'
  <2>1. PICK m : m = prev'[n]
    OBVIOUS
  <2>2. m = f \/ Begun(m, f)
    <3>1. CASE n = p
      <4>1. start_floor[p] = f /\ AddingNow(p) /\ m = at[p]
        BY <1>1, <1>2, <1>3, <2>1, <3>1 DEF AddingNow
      <4> QED  BY <4>1 DEF Chains
    <3>2. CASE n # p
      <4>1. (n = f \/ (n \in Passengers /\ Linked(n, f))) /\ m = prev[n]
        BY <1>1, <1>2, <1>3, <2>1, <3>2
      <4> QED  BY <4>1 DEF Chains
    <3> QED  BY <3>1, <3>2
  <2>3. m = f \/ Begun(m, f)'
    BY <1>2, <2>2
  <2> QED  BY <2>1, <2>3 DEF Begun
<1>4. ASSUME NEW f \in Floors
      PROVE  next'[f] = f \/ Linked(next[f], f)'
  <2>1. PICK m : m = next[f] /\ m = next'[f]
    BY <1>1
  <2>2. m = f \/ Linked(m, f)
    BY <2>1 DEF Chains
  <2>3. m = f \/ Linked(m, f)'
    BY <1>2, <2>2
  <2> QED  BY <2>1, <2>3 DEF Linked, Begun
<1>5. ASSUME NEW f \in Floors, NEW q \in Passengers, Linked(q, f)'
      PROVE  next'[q] = f \/ (Linked(next[q], f)' /\ rank[q] < rank[next'[q]])
  <2>1. CASE q = p
    BY <1>1, <1>2, <1>5, <2>1
  <2>2. CASE q # p
    <3>1. PICK m : m = next[q] /\ m = next'[q]
      BY <1>1, <2>2
    <3>2. Linked(q, f)
      BY <1>2, <1>5, <2>2
    <3>3. m = f \/ (Linked(m, f) /\ rank[q] < rank[m])
      BY <3>1, <3>2 DEF Chains
    <3>4. m = f \/ (Linked(m, f)' /\ rank[q] < rank[m])
      BY <1>2, <3>3
    <3> QED  BY <3>1, <3>4 DEF Linked, Begun
  <2> QED  BY <2>1, <2>2
<1>6. ASSUME NEW f \in Floors, NEW q \in Passengers, AddingNow(q)', start_floor[q] = f
      PROVE  at'[q] = f \/ (Begun(at[q], f)' /\ rank[at'[q]] < rank[q])
  <2>1. PICK m : m = at[q] /\ m = at'[q]
    BY <1>1
  <2>2. AddingNow(q)
    BY <1>1, <1>6 DEF AddingNow, Alone
  <2>3. m = f \/ (Begun(m, f) /\ rank[m] < rank[q])
    BY <1>6, <2>1, <2>2 DEF Chains
  <2>4. m = f \/ (Begun(m, f)' /\ rank[m] < rank[q])
    BY <1>2, <2>3
  <2> QED  BY <2>1, <2>4 DEF Begun
<1> QED  BY <1>1, <1>3, <1>4, <1>5, <1>6, ChainsAfter

LEMMA AddNextChains ==
  ASSUME Types, NEW p \in Passengers, AddNext(p), NEW rank, Chains(rank)
  PROVE  /\ Chains(rank)'
         /\ next'[onboard] = next[onboard] /\ next'[move_list] = next[move_list]
<1> USE Kinds, Numbers
<1>0. PICK f \in Floors : f = start_floor[p]
  BY DEF Types
<1>1. PICK a : a = at[p]
  OBVIOUS
<1>2. /\ Alone(p) /\ pc[p] = "add_next" /\ pc'[p] \in {"print", "lost"}
      /\ UNCHANGED <<prev, start_floor>>
  BY DEF AddNext, At, Hold, Alone, Types, Threading
<1>3. a = f \/ (Begun(a, f) /\ rank[a] < rank[p])
  BY <1>0, <1>1, <1>2 DEF Chains, AddingNow
<1>4. a \in Floors \cup Passengers /\ a \in Nodes /\ a # Bad
      /\ (a \in Passengers => start_floor[a] = f /\ rank[a] < rank[p]) /\ (a \in Floors => a = f)
  BY <1>3 DEF Begun
<1>5. \A n : next'[n] = IF n = a THEN p ELSE next[n]
  BY <1>1, <1>4 DEF AddNext, Set, Types, Pointers
<1>6. \A g : \A n : Linked(n, g)' = Linked(n, g) /\ Begun(n, g)' = Begun(n, g)
  BY <1>2 DEF Linked, Begun, Alone
<1>7. Linked(p, f) /\ Linked(p, f)'
  BY <1>0, <1>2 DEF Linked, Begun
<1>8. ASSUME NEW g \in Floors, NEW n, n = g \/ Linked(n, g)'
      PROVE  prev'[n] = g \/ Begun(prev[n], g)'
  <2>1. PICK m : m = prev'[n] /\ m = prev[n]
    BY <1>2
  <2>2. n = g \/ (n \in Passengers /\ Linked(n, g))
    BY <1>6, <1>8 DEF Linked, Begun
  <2>3. m = g \/ Begun(m, g)
    BY <2>1, <2>2 DEF Chains
  <2>4. m = g \/ Begun(m, g)'
    BY <1>6, <2>3
  <2> QED  BY <2>1, <2>4 DEF Begun
<1>9. ASSUME NEW g \in Floors
      PROVE  next'[g] = g \/ Linked(next[g], g)'
  <2>1. PICK m : m = next'[g]
    OBVIOUS
  <2>2. m = g \/ Linked(m, g)'
    <3>1. CASE g = a
      BY <1>4, <1>5, <1>7, <2>1, <3>1
    <3>2. CASE g # a
      <4>1. m = g \/ Linked(m, g)
        BY <1>5, <2>1, <3>2 DEF Chains
      <4> QED  BY <1>6, <4>1
    <3> QED  BY <3>1, <3>2
  <2> QED  BY <2>1, <2>2 DEF Linked, Begun
<1>10. ASSUME NEW g \in Floors, NEW q \in Passengers, Linked(q, g)'
       PROVE  next'[q] = g \/ (Linked(next[q], g)' /\ rank[q] < rank[next'[q]])
  <2>1. PICK m : m = next'[q]
    OBVIOUS
  <2>2. Linked(q, g) /\ start_floor[q] = g
    BY <1>6, <1>10 DEF Linked, Begun
  <2>3. m = g \/ (Linked(m, g)' /\ rank[q] < rank[m])
    <3>1. CASE q = a
      BY <1>4, <1>5, <1>7, <2>1, <2>2, <3>1
    <3>2. CASE q # a
      <4>1. m = g \/ (Linked(m, g) /\ rank[q] < rank[m])
        BY <1>5, <2>1, <2>2, <3>2 DEF Chains
      <4> QED  BY <1>6, <4>1
    <3> QED  BY <3>1, <3>2
  <2> QED  BY <2>1, <2>3 DEF Linked, Begun
<1>11. ASSUME NEW g \in Floors, NEW q \in Passengers, AddingNow(q)', start_floor[q] = g
       PROVE  at'[q] = g \/ (Begun(at[q], g)' /\ rank[at'[q]] < rank[q])
  <2>1. AddingNow(q) /\ at'[q] = at[q]
    BY <1>2, <1>11 DEF AddingNow, Alone
  <2>2. PICK m : m = at[q] /\ m = at'[q]
    BY <2>1
  <2>3. m = g \/ (Begun(m, g) /\ rank[m] < rank[q])
    BY <1>11, <2>1, <2>2 DEF Chains
  <2>4. m = g \/ (Begun(m, g)' /\ rank[m] < rank[q])
    BY <1>6, <2>3
  <2> QED  BY <2>2, <2>4 DEF Begun
<1>12. Chains(rank)'
  <2>1. start_floor' = start_floor
    BY <1>2
  <2> QED  BY <1>8, <1>9, <1>10, <1>11, <2>1, ChainsAfter
<1> QED  BY <1>4, <1>5, <1>12

LEMMA RequestHomeward ==
  ASSUME Types, Homeward, NEW p \in Passengers, AddRead(p) \/ Request(p)
  PROVE  Homeward'
<1> USE Kinds
<1>0. PICK N \in Nat : \E rank \in [Passengers -> 0 .. N] : Chains(rank)
  BY DEF Homeward
<1>1. PICK rank \in [Passengers -> 0 .. N] : Chains(rank)
  BY <1>0
<1>2. /\ Alone(p) /\ UNCHANGED start_floor /\ UNCHANGED workVars
      /\ \A f : \A n : (Linked(n, f) => Linked(n, f)') /\ (Begun(n, f) => Begun(n, f)')
  BY RequestLinks
<1>3. next'[onboard] = next[onboard] /\ next'[move_list] = next[move_list]
  <2>1. CASE AddNext(p)
    BY <1>1, <2>1, AddNextChains
  <2>2. CASE AddSelf(p)
    BY <2>2, Numbers DEF AddSelf, Set, Types, Pointers
  <2>3. CASE ~AddNext(p) /\ ~AddSelf(p)
    BY <2>3 DEF AddRead, Request, AddPrev, PrintBegin, PrintIndex, PrintFirst,
                PrintVisit, PrintTest, PrintStore, PrintStep, ptrVars
  <2> QED  BY <2>1, <2>2, <2>3
<1>4. Unboarded'
  <2>1. Unboarded /\ pc'[scheduler] = pc[scheduler] /\ at'[scheduler] = at[scheduler]
    BY <1>2 DEF Homeward, Alone
  <2> QED  BY <1>2, <1>3, <2>1, UnboardedFrame
<1>5. \E M \in Nat : \E r \in [Passengers -> 0 .. M] : Chains(r)'
  <2>1. CASE AddRead(p)
    <3>1. Chains([rank EXCEPT ![p] = N + 1])'
      BY <1>1, <2>1, AddReadChains
    <3>2. [rank EXCEPT ![p] = N + 1] \in [Passengers -> 0 .. N + 1] /\ N + 1 \in Nat
      OBVIOUS
    <3> QED  BY <3>1, <3>2
  <2>2. CASE AddPrev(p)
    BY <1>1, <2>2, AddPrevChains
  <2>3. CASE AddSelf(p)
    BY <1>1, <2>3, AddSelfChains
  <2>4. CASE AddNext(p)
    BY <1>1, <2>4, AddNextChains
  <2>5. ASSUME NEW from \in {"print", "index", "first", "visit", "test", "store"},
               NEW to \in {"index", "first", "visit", "test", "store", "done", "lost"},
               PrintStep(p, from, to)
        PROVE  Chains(rank)'
    <3>1. UNCHANGED <<next, prev, start_floor>> /\ pc[p] = from /\ pc'[p] = to
      BY <2>5 DEF PrintStep, At, ptrVars, Types, Threading
    <3>2. \A f \in Floors : \A n : Linked(n, f)' = Linked(n, f) /\ (Begun(n, f) => Begun(n, f)')
      BY <1>2, <3>1 DEF Linked, Begun, Alone
    <3>3. \A q \in Passengers : AddingNow(q)' => AddingNow(q) /\ at'[q] = at[q]
      BY <1>2, <3>1 DEF AddingNow, Alone
    <3>4. UNCHANGED <<next, start_floor>> /\ prev' = prev
      BY <3>1
    <3> QED  BY <1>1, <3>2, <3>3, <3>4, ChainsFrame
  <2>6. CASE PrintBegin(p) \/ PrintIndex(p) \/ PrintFirst(p)
    BY <1>1, <2>5, <2>6 DEF PrintBegin, PrintIndex, PrintFirst
  <2>7. CASE PrintVisit(p) \/ PrintTest(p) \/ PrintStore(p)
    BY <1>1, <2>5, <2>7 DEF PrintVisit, PrintTest, PrintStore
  <2> QED  BY <2>1, <2>2, <2>3, <2>4, <2>6, <2>7 DEF Request
<1> QED  BY <1>4, <1>5 DEF Homeward

LEMMA ReaderHomeward ==
  ASSUME Types, Homeward, NEW r \in Readers,
         SumVisit(r) \/ SumEnd(r) \/ \E f \in Floors : SumBegin(r, f)
  PROVE  Homeward'
<1> USE Kinds
<1>1. Alone(r) /\ UNCHANGED start_floor /\ UNCHANGED ptrVars /\ UNCHANGED workVars
  BY DEF SumVisit, SumEnd, SumBegin, At, Hold, Alone, Types, Threading
<1>2. /\ \A p \in Passengers : pc'[p] = pc[p] /\ at'[p] = at[p]
      /\ pc'[scheduler] = pc[scheduler] /\ at'[scheduler] = at[scheduler]
      /\ next' = next /\ prev' = prev
  BY <1>1 DEF Alone, ptrVars
<1>3. \A f : \A n : Linked(n, f)' = Linked(n, f) /\ Begun(n, f)' = Begun(n, f)
  BY <1>1, <1>2 DEF Linked, Begun
<1>4. Unboarded'
  BY <1>1, <1>2, <1>3, UnboardedFrame DEF Homeward
<1>5. ASSUME NEW rank, Chains(rank) PROVE Chains(rank)'
  <2>1. \A p \in Passengers : AddingNow(p)' => AddingNow(p) /\ at'[p] = at[p]
    BY <1>2 DEF AddingNow
  <2>2. UNCHANGED <<next, start_floor>>
    BY <1>1, <1>2
  <2> QED  BY <1>2, <1>3, <1>5, <2>1, <2>2, ChainsFrame
<1> QED  BY <1>4, <1>5 DEF Homeward

\* As long as the scheduler thread takes nobody off a floor.
LEMMA WorkHomeward ==
  ASSUME Types, Homeward, Scheduler \/ DeleteBegin \/ \E h \in Heads : LoopBegin(h), ~removed'
  PROVE  Homeward'
<1> USE Kinds, Numbers
<1>1. Alone(scheduler) /\ UNCHANGED start_floor /\ Unboarded
  BY DEF Scheduler, Save, LoopEnd, LoadFull, KeepOnboard, Unlink, UnlinkPrev, UnlinkNext,
         PlaceNowhere, PlaceLast, PlaceNext, PrintWho, DeleteBegin, LoopBegin, Loop, LoopLeave,
         Advance, Work, At, Hold, Alone, Types, Threading, Homeward
<1>2. \A p \in Passengers : pc'[p] = pc[p] /\ at'[p] = at[p]
  BY <1>1 DEF Alone
<1>3. \A f : \A n : Linked(n, f)' = Linked(n, f) /\ Begun(n, f)' = Begun(n, f)
  BY <1>1, <1>2 DEF Linked, Begun
<1>4. ASSUME next' = next, Unboarded',
             \A f \in Floors : \A n : n = f \/ Linked(n, f) =>
               prev'[n] = prev[n] \/ prev'[n] = f \/ Begun(prev[n], f)'
      PROVE  Homeward'
  <2>1. \A p \in Passengers : AddingNow(p)' => AddingNow(p) /\ at'[p] = at[p]
    BY <1>2 DEF AddingNow
  <2>2. UNCHANGED <<next, start_floor>>
    BY <1>1, <1>4
  <2>3. ASSUME NEW rank, Chains(rank) PROVE Chains(rank)'
    BY <1>3, <1>4, <2>1, <2>2, <2>3, ChainsFrame
  <2> QED  BY <1>4, <2>3 DEF Homeward
<1>5. ASSUME NEW t, NEW h, NEW b, NEW a, temp' = t, head' = h, before' = b, after' = a,
             next' = next, pc'[scheduler] \notin {"place", "place_next", "who"},
             pc'[scheduler] = "save" => t = h \/ Linked(t, h),
             pc'[scheduler] \in {"body", "unlink_prev", "unlink_next"} => Linked(t, h),
             pc'[scheduler] \in {"unlink_prev", "unlink_next"} =>
               (b = h \/ Begun(b, h)) /\ (a = h \/ Linked(a, h))
      PROVE  Unboarded'
  <2>1. /\ Linked(t, h)' = Linked(temp, head)' /\ Begun(b, h)' = Begun(before, head)'
        /\ Linked(a, h)' = Linked(after, head)'
    BY <1>5 DEF Linked, Begun
  <2> QED  BY <1>1, <1>3, <1>5, <2>1 DEF Unboarded
<1>6. PICK h : h = head
  OBVIOUS
\* Who is in the body of a loop is on the list of a floor.
<1>7. pc[scheduler] \in {"body", "unlink_prev", "unlink_next"} => h \in Floors /\ Linked(temp, h)
  BY <1>1, <1>6 DEF Unboarded, Linked, Begun, Types
<1>8. ASSUME NEW g \in Floors \cup {onboard, move_list}
      PROVE  next[g] = g \/ Linked(next[g], g)
  BY <1>1, <1>8 DEF Unboarded, Homeward, Chains
<1>9. ASSUME NEW g \in Floors \cup {onboard, move_list}, Loop(g), pc'[scheduler] = "save"
      PROVE  Homeward'
  <2>1. /\ head' = g /\ temp' = next[g] /\ before' = before /\ after' = after
        /\ next' = next /\ prev' = prev
    BY <1>9 DEF Loop, Hold, temp, ptrVars, Types, Threading
  <2>2. PICK t, b, a : t = next[g] /\ b = before /\ a = after
    OBVIOUS
  <2>3. t = g \/ Linked(t, g)
    BY <1>8, <2>2
  <2>4. Unboarded'
    BY <1>5, <1>9, <2>1, <2>2, <2>3
  <2> QED  BY <1>4, <2>1, <2>4
<1>10. ASSUME NEW from, NEW to \in {"new", "done"}, LoopLeave(from, to)
       PROVE  Homeward'
  <2>1. /\ pc'[scheduler] = to /\ head' = onboard /\ temp' = onboard
        /\ before' = before /\ after' = after /\ next' = next /\ prev' = prev
    BY <1>10 DEF LoopLeave, Work, At, Hold, temp, ptrVars, Types, Threading
  <2>2. PICK b, a : b = before /\ a = after
    OBVIOUS
  <2>3. Unboarded'
    BY <1>5, <2>1, <2>2
  <2> QED  BY <1>4, <2>1, <2>3
<1>11. CASE Save
  <2>1. /\ pc[scheduler] = "save" /\ pc'[scheduler] \in {"body", "lost"} /\ temp # h
        /\ head' = h /\ temp' = temp /\ before' = before /\ after' = after
        /\ next' = next /\ prev' = prev
    BY <1>6, <1>11 DEF Save, Work, At, temp, ptrVars, Types, Threading
  <2>2. PICK t, b, a : t = temp /\ b = before /\ a = after
    OBVIOUS
  <2>3. Linked(t, h)
    BY <1>1, <1>6, <2>1, <2>2 DEF Unboarded
  <2>4. Unboarded'
    BY <1>5, <2>1, <2>2, <2>3
  <2> QED  BY <1>4, <2>1, <2>4
<1>12. CASE LoopEnd
  <2>1. CASE exiting /\ head \in Floors /\ Work("save", "save")
             /\ Loop(IF head = lastfloor THEN move_list ELSE head + 1)
    <3>1. PICK g : g = IF head = lastfloor THEN move_list ELSE head + 1
      OBVIOUS
    <3>2. g \in Floors \cup {onboard, move_list}
      BY <2>1, <3>1 DEF Floors
    <3>3. pc'[scheduler] = "save" /\ Loop(g)
      BY <2>1, <3>1 DEF Work, At, Types, Threading
    <3> QED  BY <1>9, <3>2, <3>3
  <2> QED  BY <1>10, <1>12, <2>1 DEF LoopEnd
<1>13. CASE LoadFull
  BY <1>10, <1>13 DEF LoadFull
<1>14. CASE DeleteBegin
  BY <1>9, <1>14 DEF DeleteBegin, Work, At, Types, Threading
<1>15. CASE \E g \in Heads : LoopBegin(g)
  BY <1>9, <1>15 DEF LoopBegin, Work, At, Types, Threading
<1>16. CASE Unlink
  <2>1. /\ pc[scheduler] = "body" /\ pc'[scheduler] \in {"unlink_prev", "lost"}
        /\ head' = h /\ temp' = temp /\ before' = prev[temp] /\ after' = next[temp]
        /\ next' = next /\ prev' = prev
    BY <1>6, <1>16 DEF Unlink, Work, At, temp, ptrVars, Types, Threading
  <2>2. PICK t, b, a : t = temp /\ b = prev[t] /\ a = next[t]
    OBVIOUS
  <2>3. h \in Floors /\ Linked(t, h) /\ t \in Passengers
    BY <1>7, <2>1, <2>2 DEF Linked, Begun
  <2>4. (b = h \/ Begun(b, h)) /\ (a = h \/ Linked(a, h))
    BY <2>2, <2>3 DEF Homeward, Chains
  <2>5. Unboarded'
    BY <1>5, <2>1, <2>2, <2>3, <2>4
  <2> QED  BY <1>4, <2>1, <2>5
<1>17. CASE UnlinkPrev
  <2>1. /\ pc[scheduler] = "unlink_prev" /\ pc'[scheduler] = "unlink_next"
        /\ head' = h /\ temp' = temp /\ before' = before /\ after' = after /\ next' = next
    BY <1>6, <1>17 DEF UnlinkPrev, Work, At, temp, workVars, Types, Threading
  <2>2. PICK t, b, a : t = temp /\ b = before /\ a = after
    OBVIOUS
  <2>3. Linked(t, h) /\ h \in Floors /\ (b = h \/ Begun(b, h)) /\ (a = h \/ Linked(a, h))
    BY <1>1, <1>6, <1>7, <2>1, <2>2 DEF Unboarded
  <2>4. Unboarded'
    BY <1>5, <2>1, <2>2, <2>3
  <2>5. ASSUME NEW f \in Floors, NEW n, n = f \/ Linked(n, f)
        PROVE  prev'[n] = prev[n] \/ prev'[n] = f \/ Begun(prev[n], f)'
    <3>1. CASE n = a
      <4>1. f = h
        BY <1>5, <2>3, <2>5, <3>1 DEF Linked, Begun
      <4>2. prev'[n] = b \/ prev'[n] = prev[n]
        BY <1>17, <2>2, <3>1 DEF UnlinkPrev, Set, Types, Pointers
      <4>3. b = f \/ Begun(b, f)'
        BY <1>3, <2>3, <4>1
      <4> QED  BY <4>2, <4>3 DEF Begun
    <3>2. CASE n # a
      BY <1>17, <2>2, <3>2 DEF UnlinkPrev, Set, Types, Pointers
    <3> QED  BY <3>1, <3>2
  <2> QED  BY <1>4, <2>1, <2>4, <2>5
<1>18. CASE UnlinkNext
  <2>1. h \in Floors
    BY <1>7, <1>18 DEF UnlinkNext, Work, At
  <2> QED  BY <1>6, <1>18, <2>1 DEF UnlinkNext
<1>19. CASE KeepOnboard
  BY <1>6, <1>7, <1>19 DEF KeepOnboard, Work, At
<1>20. CASE PlaceNowhere \/ PlaceLast \/ PlaceNext \/ PrintWho
  BY <1>1, <1>20 DEF PlaceNowhere, PlaceLast, PlaceNext, PrintWho, Work, At, Unboarded
<1> QED  BY <1>11, <1>12, <1>13, <1>14, <1>15, <1>16, <1>17, <1>18, <1>19, <1>20 DEF Scheduler

\* next leads home from every node that has come that far.
LEMMA HomeNext ==
  ASSUME LInv, HInv, NEW h \in Floors, NEW n, Home(n, h), NEW m, m = next[n]
  PROVE  Home(m, h)
<1> USE Numbers DEF LInv, Whole, HInv
<1>1. CASE raced /\ removed
  BY <1>1 DEF Home
<1>2. ~raced => m = h \/ OnList(m, h)
  BY NextNode DEF Home
<1>3. ~removed => m = h \/ Linked(m, h)
  <2> SUFFICES ASSUME ~removed PROVE m = h \/ Linked(m, h)
    OBVIOUS
  <2>1. n = h \/ (n \in Passengers /\ Linked(n, h))
    BY DEF Home, Linked, Begun
  <2> QED  BY <2>1 DEF Homeward, Chains
<1> QED  BY <1>2, <1>3 DEF Home

LEMMA HomeKept ==
  ASSUME raced => raced', removed => removed', NEW h,
         ~raced' => \A n : OnList(n, h) => OnList(n, h)',
         \A n : Linked(n, h) => Linked(n, h)'
  PROVE  \A n : Home(n, h) => Home(n, h)'
  BY DEF Home

LEMMA RequestHome ==
  ASSUME LInv, NEW p \in Passengers, AddRead(p) \/ Request(p), NEW h \in Floors
  PROVE  \A n : Home(n, h) => Home(n, h)'
<1>1. (raced => raced') /\ (removed => removed')
  <2>1. ~raced' => ~raced
    BY DEF AddRead, Request, AddPrev, AddSelf, AddNext, PrintBegin, PrintIndex, PrintFirst,
           PrintVisit, PrintTest, PrintStore, PrintStep, historyVars
  <2>2. removed' = removed
    BY DEF AddRead, Request, AddPrev, AddSelf, AddNext, PrintBegin, PrintIndex, PrintFirst,
           PrintVisit, PrintTest, PrintStore, PrintStep, historyVars
  <2> QED  BY <2>1, <2>2
<1> USE Kinds, Numbers DEF LInv, Whole
<1>2. \A n : Linked(n, h) => Linked(n, h)'
  BY RequestLinks
<1>3. ASSUME ~raced PROVE \A n : OnList(n, h) => OnList(n, h)'
  <2>1. CASE AddNext(p)
    <3>1. on[h] \in Seq(Passengers) /\ Len(on[h]) \in Nat
      BY <1>3, NodeFacts
    <3>2. on'[h] = on[h] \/ on'[h] = Append(on[h], p)
      BY <1>3, <2>1 DEF AddNext, Lists
    <3>3. Len(on'[h]) \in Nat /\ Len(on[h]) <= Len(on'[h])
          /\ \A j \in 1 .. Len(on[h]) : on'[h][j] = on[h][j]
      BY <3>1, <3>2, AppendOne
    <3> QED  BY <3>1, <3>3 DEF OnList
  <2>2. CASE ~AddNext(p)
    <3>1. on' = on
      BY <2>2 DEF AddRead, Request, AddPrev, AddSelf, PrintBegin, PrintIndex, PrintFirst,
                  PrintVisit, PrintTest, PrintStore, PrintStep, historyVars
    <3> QED  BY <3>1 DEF OnList
  <2> QED  BY <2>1, <2>2
<1> QED  BY <1>1, <1>2, <1>3, HomeKept

LEMMA ReaderHome ==
  ASSUME LInv, NEW r \in Readers,
         SumVisit(r) \/ SumEnd(r) \/ \E f \in Floors : SumBegin(r, f), NEW h \in Floors
  PROVE  \A n : Home(n, h) => Home(n, h)'
<1> USE Kinds
<1>1. on' = on /\ raced' = raced /\ removed' = removed
  BY DEF SumVisit, SumEnd, SumBegin, historyVars
<1>2. Alone(r) /\ start_floor' = start_floor
  BY DEF SumVisit, SumEnd, SumBegin, At, Hold, Alone, LInv, Types, Threading
<1>3. \A n : Linked(n, h) => Linked(n, h)'
  BY <1>2 DEF Linked, Begun, Alone
<1>4. \A n : OnList(n, h) => OnList(n, h)'
  BY <1>1 DEF OnList
<1> QED  BY <1>1, <1>3, <1>4, HomeKept

\* Unless the scheduler thread takes somebody off a floor.
LEMMA WorkHome ==
  ASSUME LInv, Scheduler \/ DeleteBegin \/ \E g \in Heads : LoopBegin(g), NEW h \in Floors,
         ~(UnlinkNext /\ head \in Floors)
  PROVE  \A n : Home(n, h) => Home(n, h)'
<1>1. (raced => raced') /\ (removed => removed')
  <2>1. ~raced' => ~raced
    BY DEF Scheduler, Save, LoopEnd, LoadFull, KeepOnboard, Unlink, UnlinkPrev, UnlinkNext,
           PlaceNowhere, PlaceLast, PlaceNext, PrintWho, DeleteBegin, LoopBegin, Loop,
           LoopLeave, historyVars
  <2>2. ~removed' => ~removed
    BY DEF Scheduler, Save, LoopEnd, LoadFull, KeepOnboard, Unlink, UnlinkPrev, UnlinkNext,
           PlaceNowhere, PlaceLast, PlaceNext, PrintWho, DeleteBegin, LoopBegin, Loop,
           LoopLeave, historyVars
  <2> QED  BY <2>1, <2>2
<1> USE Kinds, Numbers DEF LInv, Whole
<1>2. Alone(scheduler) /\ start_floor' = start_floor
  BY DEF Scheduler, Save, LoopEnd, LoadFull, KeepOnboard, Unlink, UnlinkPrev, UnlinkNext,
         PlaceNowhere, PlaceLast, PlaceNext, PrintWho, DeleteBegin, LoopBegin, Loop, LoopLeave,
         Advance, Work, At, Hold, Alone, Types, Threading
<1>3. \A n : Linked(n, h) => Linked(n, h)'
  BY <1>2 DEF Linked, Begun, Alone
<1>4. ASSUME ~raced' PROVE \A n : OnList(n, h) => OnList(n, h)'
  <2> SUFFICES on'[h] = on[h]
    BY DEF OnList
  <2>0. ~raced
    BY <1>1, <1>4
  <2>1. CASE UnlinkNext
    BY <2>0, <2>1 DEF UnlinkNext, Lists
  <2>2. CASE PlaceNext
    <3>1. dest # h
      BY <2>0, <2>2 DEF PlaceNext, Work, At, Placing
    <3> QED  BY <2>0, <2>2, <3>1 DEF PlaceNext, Lists
  <2>3. CASE ~(UnlinkNext \/ PlaceNext)
    BY <2>3 DEF Scheduler, Save, LoopEnd, LoadFull, KeepOnboard, Unlink, UnlinkPrev,
                PlaceNowhere, PlaceLast, PrintWho, DeleteBegin, LoopBegin, Loop, LoopLeave,
                historyVars
  <2> QED  BY <2>1, <2>2, <2>3
<1> QED  BY <1>1, <1>3, <1>4, HomeKept

\* Two calls that print disturb each other.
LEMMA RequestCounting ==
  ASSUME Types, Counting, NEW p \in Passengers, AddRead(p) \/ Request(p)
  PROVE  Counting'
<1> USE Kinds, Numbers DEF Types
<1> SUFFICES ASSUME NEW q \in Passengers, q \in Printing', q \notin disturbed'
             PROVE  /\ Printing' = {q} /\ i' \in Floors
                    /\ pc'[q] \in {"first", "store"} => at'[q] = i'
  BY DEF Counting, Printing
<1>1. Alone(p)
  BY RequestLinks
<1>2. \A u \in Passengers : u # p => (u \in Printing' <=> u \in Printing)
  BY <1>1 DEF Printing, Alone
<1>3. Printing \subseteq Passengers /\ Printing' \subseteq Passengers
  BY DEF Printing
<1>4. \A u \in Printing \ disturbed :
        /\ Printing = {u} /\ i \in Floors
        /\ pc[u] \in {"first", "store"} => at[u] = i
  BY DEF Counting
<1>5. CASE AddRead(p) \/ AddPrev(p) \/ AddSelf(p) \/ AddNext(p)
  <2>1. p \notin Printing /\ p \notin Printing' /\ i' = i /\ disturbed' = disturbed
    BY <1>5 DEF AddRead, AddPrev, AddSelf, AddNext, At, Printing, Threading, historyVars
  <2>2. q # p /\ pc'[q] = pc[q] /\ at'[q] = at[q]
    BY <1>1, <2>1 DEF Alone
  <2>3. \A u : u \in Printing' <=> u \in Printing
    BY <1>2, <1>3, <2>1
  <2>4. Printing' = Printing
    BY <2>3
  <2>5. q \in Printing \ disturbed
    BY <2>1, <2>4
  <2> QED  BY <1>4, <2>1, <2>2, <2>4, <2>5
<1>6. CASE PrintBegin(p)
  <2>1. pc'[p] = "index" /\ i' = 1 /\ p \in Printing'
    BY <1>6 DEF PrintBegin, PrintStep, At, Threading, Printing
  <2>2. Printing = {}
    <3> SUFFICES ASSUME Printing # {} PROVE FALSE
      OBVIOUS
    <3>1. disturbed' = disturbed \cup Printing \cup {p}
      BY <1>6 DEF PrintBegin
    <3> QED  BY <1>2, <1>3, <3>1
  <2>3. Printing' = {p} /\ q = p
    BY <1>2, <1>3, <2>1, <2>2
  <2> QED  BY <2>1, <2>3
\* From here on p has been printing.
<1>7. ASSUME p \in Printing, i' = i, disturbed' = disturbed
      PROVE  q = p /\ p \notin disturbed /\ Printing' = {q} /\ i' \in Floors
             /\ (pc[p] \in {"first", "store"} => at[p] = i)
  <2>1. q \in Printing \ disturbed
    BY <1>2, <1>7
  <2>2. Printing = {q}
    BY <1>4, <2>1
  <2>3. q = p
    BY <1>7, <2>2
  <2>4. \A u : u \in Printing' <=> u = q
    BY <1>2, <1>3, <2>2, <2>3
  <2>5. Printing' = {q}
    BY <2>4
  <2> QED  BY <1>4, <1>7, <2>1, <2>3, <2>5
<1>8. CASE PrintIndex(p)
  <2>1. /\ pc[p] = "index" /\ i' = i /\ disturbed' = disturbed
        /\ at'[p] = IF i \in Floors THEN i ELSE onboard
    BY <1>8 DEF PrintIndex, PrintStep, At, Hold, Threading
  <2>2. p \in Printing
    BY <2>1 DEF Printing
  <2> QED  BY <1>7, <2>1, <2>2
<1>9. CASE PrintFirst(p)
  <2>1. /\ pc[p] = "first" /\ i' = i /\ disturbed' = disturbed /\ at'[p] = next[at[p]]
        /\ pc'[p] = IF next[at[p]] = at[p] THEN "store" ELSE "visit"
    BY <1>9 DEF PrintFirst, PrintStep, At, Hold, Threading
  <2>2. p \in Printing
    BY <2>1 DEF Printing
  <2> QED  BY <1>7, <2>1, <2>2
<1>10. CASE PrintVisit(p)
  <2>1. /\ pc[p] = "visit" /\ i' = i /\ disturbed' = disturbed /\ pc'[p] \in {"lost", "test"}
    BY <1>10 DEF PrintVisit, PrintStep, At, Threading
  <2>2. p \in Printing
    BY <2>1 DEF Printing
  <2> QED  BY <1>7, <2>1, <2>2
<1>11. CASE PrintTest(p)
  <2>1. /\ pc[p] = "test" /\ i' = i /\ disturbed' = disturbed /\ at' = at
        /\ pc'[p] = IF at[p] = i THEN "store" ELSE "visit"
    BY <1>11 DEF PrintTest, PrintStep, At, Threading
  <2>2. p \in Printing
    BY <2>1 DEF Printing
  <2> QED  BY <1>7, <2>1, <2>2
<1>12. CASE PrintStore(p)
  <2>1. /\ pc[p] = "store" /\ i' = at[p] + 1 /\ at[p] \in Floors
        /\ pc'[p] = (IF at[p] < lastfloor THEN "index" ELSE "done")
        /\ disturbed' = (IF at[p] < lastfloor THEN disturbed ELSE disturbed \ {p})
    BY <1>12 DEF PrintStore, PrintStep, At, Threading, OfRequest
  <2>2. p \in Printing
    BY <2>1 DEF Printing
  <2>3. CASE q = p
    <3>1. pc'[p] = "index"
      BY <2>1, <2>3 DEF Printing
    <3>2. at[p] < lastfloor /\ disturbed' = disturbed
      BY <2>1, <3>1
    <3>3. p \in Printing \ disturbed
      BY <2>2, <2>3, <3>2
    <3>4. Printing' = {q}
      <4>1. Printing = {p}
        BY <1>4, <3>3
      <4>2. \A u : u \in Printing' <=> u = q
        BY <1>2, <1>3, <2>3, <4>1
      <4> QED  BY <4>2
    <3>5. i' \in Floors
      BY <2>1, <3>2 DEF Floors
    <3> QED  BY <2>3, <3>1, <3>4, <3>5
  <2>4. CASE q # p
    <3>1. q \in Printing \ disturbed
      BY <1>2, <2>1, <2>4
    <3>2. Printing = {q}
      BY <1>4, <3>1
    <3> QED  BY <2>2, <2>4, <3>2
  <2> QED  BY <2>3, <2>4
<1> QED  BY <1>5, <1>6, <1>8, <1>9, <1>10, <1>11, <1>12 DEF Request

\* Steps in which nobody prints.
LEMMA CountingStays ==
  ASSUME Counting, i' = i, \A p \in Passengers : pc'[p] = pc[p] /\ at'[p] = at[p],
         disturbed \cap Passengers \subseteq disturbed'
  PROVE  Counting'
<1>1. Printing' = Printing
  BY DEF Printing
<1> QED  BY <1>1 DEF Counting, Printing

\* Walks that have not moved, and whose list nobody leaves.
LEMMA WalkStays ==
  ASSUME Types, Counting, Walks,
         \A h \in Floors : \A n : Home(n, h) => Home(n, h)',
         NEW t \in Walking, t \notin disturbed, pc'[t] = pc[t], at'[t] = at[t],
         t \in Readers => floor'[t] = floor[t], t \in Passengers => i' = i
  PROVE  /\ t \in Readers => Home(at[t], floor[t])'
         /\ t \in Passengers /\ pc'[t] \in {"visit", "test"} => Home(at[t], i)'
<1>1. PICK n : n = at[t] /\ n = at'[t]
  OBVIOUS
<1>2. ASSUME t \in Readers PROVE Home(at[t], floor[t])'
  <2>1. PICK h \in Floors : h = floor[t] /\ h = floor'[t]
    BY <1>2 DEF Types, Reading
  <2>2. Home(n, h)'
    BY <1>1, <1>2, <2>1 DEF Walks
  <2> QED  BY <1>1, <2>1, <2>2 DEF Home, OnList, Linked, Begun
<1>3. ASSUME t \in Passengers, pc'[t] \in {"visit", "test"} PROVE Home(at[t], i)'
  <2>1. PICK h \in Floors : h = i /\ h = i'
    BY <1>3 DEF Counting, Printing
  <2>2. Home(n, h)'
    BY <1>1, <1>3, <2>1 DEF Walks
  <2> QED  BY <1>1, <2>1, <2>2 DEF Home, OnList, Linked, Begun
<1> QED  BY <1>2, <1>3

LEMMA RequestWalks ==
  ASSUME LInv, HInv, NEW p \in Passengers, AddRead(p) \/ Request(p)
  PROVE  Walks'
<1> USE Kinds, Numbers DEF LInv, Types, HInv
<1>1. Alone(p) /\ UNCHANGED readVars
  BY RequestLinks
<1>2. \A h \in Floors : \A n : Home(n, h) => Home(n, h)'
  BY RequestHome
<1>3. \A u \in Threads : u # p /\ u \in disturbed => u \in disturbed'
  BY DEF AddRead, Request, AddPrev, AddSelf, AddNext, PrintBegin, PrintIndex, PrintFirst,
         PrintVisit, PrintTest, PrintStore, PrintStep, historyVars
\* It is enough to look at p.
<1>4. ASSUME pc'[p] \in {"visit", "test"}, p \notin disturbed' PROVE Home(at[p], i)'
  <2>1. ASSUME NEW n, Home(n, i), p \in Printing \ disturbed, i' = i, at'[p] = n
        PROVE  Home(at[p], i)'
    <3>1. PICK h \in Floors : h = i /\ h = i'
      BY <2>1 DEF Counting
    <3>2. Home(n, h)'
      BY <1>2, <2>1, <3>1
    <3> QED  BY <2>1, <3>1, <3>2 DEF Home, OnList, Linked, Begun
  <2>2. ASSUME NEW n, Home(n, i), p \in Printing \ disturbed, i' = i, at'[p] = next[n]
        PROVE  Home(at[p], i)'
    <3>1. PICK h \in Floors : h = i
      BY <2>2 DEF Counting
    <3>2. PICK m : m = next[n]
      OBVIOUS
    <3>3. Home(m, i)
      BY <2>2, <3>1, <3>2, HomeNext
    <3> QED  BY <2>1, <2>2, <3>2, <3>3
  <2>3. CASE PrintFirst(p)
    <3>1. /\ pc[p] = "first" /\ i' = i /\ disturbed' = disturbed /\ at'[p] = next[at[p]]
      BY <2>3 DEF PrintFirst, PrintStep, At, Hold, Threading
    <3>2. p \in Printing \ disturbed
      BY <1>4, <3>1 DEF Printing
    <3>3. PICK n : n = at[p] /\ n = i
      BY <3>1, <3>2 DEF Counting
    <3> QED  BY <2>2, <3>1, <3>2, <3>3 DEF Home
  <2>4. CASE PrintVisit(p)
    <3>1. /\ pc[p] = "visit" /\ i' = i /\ disturbed' = disturbed
          /\ pc'[p] = (IF at[p] = Bad THEN "lost" ELSE "test")
          /\ at'[p] = (IF at[p] = Bad THEN onboard ELSE next[at[p]])
      BY <2>4 DEF PrintVisit, PrintStep, At, Hold, Threading
    <3>2. p \in Printing \ disturbed /\ p \in Walking
      BY <1>4, <3>1 DEF Printing, Walking
    <3>3. PICK n : n = at[p]
      OBVIOUS
    <3>4. Home(n, i) /\ at'[p] = next[n]
      BY <1>4, <3>1, <3>2, <3>3 DEF Walks
    <3> QED  BY <2>2, <3>1, <3>2, <3>4
  <2>5. CASE PrintTest(p)
    <3>1. /\ pc[p] = "test" /\ i' = i /\ disturbed' = disturbed /\ at' = at
      BY <2>5 DEF PrintTest, PrintStep, At, Threading
    <3>2. p \in Printing \ disturbed /\ p \in Walking
      BY <1>4, <3>1 DEF Printing, Walking
    <3>3. PICK n : n = at[p]
      OBVIOUS
    <3> QED  BY <2>1, <3>1, <3>2, <3>3 DEF Walks
  <2>6. ~(AddRead(p) \/ AddPrev(p) \/ AddSelf(p) \/ AddNext(p)
          \/ PrintBegin(p) \/ PrintIndex(p) \/ PrintStore(p))
    BY <1>4 DEF AddRead, AddPrev, AddSelf, AddNext, PrintBegin, PrintIndex, PrintStore,
                PrintStep, At, Threading
  <2> QED  BY <2>3, <2>4, <2>5, <2>6 DEF Request
\* Whoever else prints undisturbed does not see i change.
<1>5. ASSUME NEW u \in Passengers, u # p, u \in Printing, u \notin disturbed'
      PROVE  u \notin disturbed /\ i' = i
  <2>1. u \in Printing \ disturbed
    BY <1>3, <1>5
  <2>2. Printing = {u}
    BY <2>1 DEF Counting
  <2>3. pc[p] \notin {"index", "first", "visit", "test", "store"}
    BY <1>5, <2>2 DEF Printing
  <2>4. ~PrintBegin(p)
    BY <1>5, <2>2 DEF PrintBegin
  <2>5. AddRead(p) \/ AddPrev(p) \/ AddSelf(p) \/ AddNext(p)
    BY <2>3, <2>4 DEF Request, PrintIndex, PrintFirst, PrintVisit, PrintTest, PrintStore,
                      PrintStep, At
  <2> QED  BY <2>1, <2>5 DEF AddRead, AddPrev, AddSelf, AddNext
<1> SUFFICES ASSUME NEW t \in Threads, t \in Walking', t \notin disturbed', t # p
             PROVE  /\ t \in Readers => Home(at[t], floor[t])'
                    /\ t \in Passengers /\ pc'[t] \in {"visit", "test"} => Home(at[t], i)'
  BY <1>4 DEF Walks, Walking, Printing
<1>6. pc'[t] = pc[t] /\ at'[t] = at[t] /\ t \in Walking /\ (t \in Passengers => t \in Printing)
  BY <1>1 DEF Alone, Walking, Printing
<1>7. t \notin disturbed /\ (t \in Passengers => i' = i)
  BY <1>3, <1>5, <1>6
<1>8. UNCHANGED floor
  BY <1>1 DEF readVars
<1> QED  BY <1>2, <1>6, <1>7, <1>8, WalkStays

LEMMA ReaderWalks ==
  ASSUME LInv, HInv, NEW r \in Readers,
         SumVisit(r) \/ SumEnd(r) \/ \E f \in Floors : SumBegin(r, f)
  PROVE  Counting' /\ Walks'
<1> USE Kinds, Numbers DEF LInv, Types, HInv
<1>1. Alone(r) /\ i' = i
  BY DEF SumVisit, SumEnd, SumBegin, At, Hold, Alone, Threading
<1>2. \A h \in Floors : \A n : Home(n, h) => Home(n, h)'
  BY ReaderHome
<1>3. \A u \in Threads : u # r /\ u \in disturbed => u \in disturbed'
  BY DEF SumVisit, SumEnd, SumBegin, historyVars
<1>4. Counting'
  BY <1>1, <1>3, CountingStays DEF Alone
<1>5. \A q \in Readers : q # r => floor'[q] = floor[q]
  BY DEF SumVisit, SumEnd, SumBegin, Reading
<1>6. ASSUME NEW h \in Floors, NEW n, Home(n, h), floor'[r] = h, at'[r] = next[n]
      PROVE  Home(at[r], floor[r])'
  <2>1. PICK m : m = next[n]
    OBVIOUS
  <2>2. Home(m, h)'
    BY <1>2, <1>6, <2>1, HomeNext
  <2> QED  BY <1>6, <2>1, <2>2 DEF Home, OnList, Linked, Begun
<1>7. ASSUME pc'[r] = "visit", r \notin disturbed' PROVE Home(at[r], floor[r])'
  <2>1. ASSUME NEW f \in Floors, SumBegin(r, f) PROVE Home(at[r], floor[r])'
    <3>1. at'[r] = next[f] /\ floor'[r] = f
      BY <2>1 DEF SumBegin, Hold, Threading, Reading
    <3>2. Home(f, f)
      BY DEF Home
    <3> QED  BY <1>6, <3>1, <3>2
  <2>2. CASE SumVisit(r)
    <3>1. /\ pc[r] = "visit" /\ disturbed' = disturbed /\ floor' = floor
          /\ pc'[r] = (IF at[r] = Bad THEN "lost" ELSE "visit")
          /\ at'[r] = (IF at[r] = Bad THEN Bad ELSE next[at[r]])
      BY <2>2 DEF SumVisit, At, Hold, Threading, historyVars
    <3>2. PICK h \in Floors : h = floor[r]
      BY DEF Reading
    <3>3. PICK n : n = at[r]
      OBVIOUS
    <3>4. r \in Walking \ disturbed
      BY <1>7, <3>1 DEF Walking
    <3>5. Home(n, h) /\ floor'[r] = h /\ at'[r] = next[n]
      BY <1>7, <3>1, <3>2, <3>3, <3>4 DEF Walks
    <3> QED  BY <1>6, <3>5
  <2>3. CASE SumEnd(r)
    BY <1>7, <2>3 DEF SumEnd, At, Threading
  <2> QED  BY <2>1, <2>2, <2>3
<1> SUFFICES ASSUME NEW t \in Threads, t \in Walking', t \notin disturbed', t # r
             PROVE  /\ t \in Readers => Home(at[t], floor[t])'
                    /\ t \in Passengers /\ pc'[t] \in {"visit", "test"} => Home(at[t], i)'
  BY <1>4, <1>7 DEF Walks, Walking, Printing
<1>8. pc'[t] = pc[t] /\ at'[t] = at[t] /\ t \in Walking /\ t \notin disturbed
  BY <1>1, <1>3 DEF Alone, Walking, Printing
<1> QED  BY <1>1, <1>2, <1>5, <1>8, WalkStays

LEMMA WorkWalks ==
  ASSUME LInv, HInv, Scheduler \/ DeleteBegin \/ \E g \in Heads : LoopBegin(g)
  PROVE  Counting' /\ Walks'
<1> USE Kinds, Numbers DEF LInv, Types, HInv
<1>1. Alone(scheduler) /\ i' = i /\ UNCHANGED readVars
  BY DEF Scheduler, Save, LoopEnd, LoadFull, KeepOnboard, Unlink, UnlinkPrev, UnlinkNext,
         PlaceNowhere, PlaceLast, PlaceNext, PrintWho, DeleteBegin, LoopBegin, Loop, LoopLeave,
         Advance, Work, At, Hold, Alone, Threading
<1>2. \A u \in Threads : u \in disturbed => u \in disturbed'
  BY DEF Scheduler, Save, LoopEnd, LoadFull, KeepOnboard, Unlink, UnlinkPrev, UnlinkNext,
         PlaceNowhere, PlaceLast, PlaceNext, PrintWho, DeleteBegin, LoopBegin, Loop, LoopLeave,
         historyVars
<1>3. Counting'
  BY <1>1, <1>2, CountingStays DEF Alone
<1> SUFFICES ASSUME NEW t \in Threads, t \in Walking', t \notin disturbed'
             PROVE  /\ t \in Readers => Home(at[t], floor[t])'
                    /\ t \in Passengers /\ pc'[t] \in {"visit", "test"} => Home(at[t], i)'
  BY <1>3 DEF Walks, Walking, Printing
<1>4. pc'[t] = pc[t] /\ at'[t] = at[t] /\ t \in Walking /\ t \notin disturbed
  BY <1>1, <1>2 DEF Alone, Walking, Printing
<1>5. ~(UnlinkNext /\ head \in Floors)
  BY <1>4 DEF UnlinkNext
<1>6. \A h \in Floors : \A n : Home(n, h) => Home(n, h)'
  BY <1>5, WorkHome
<1>7. UNCHANGED floor
  BY <1>1 DEF readVars
<1> QED  BY <1>1, <1>4, <1>6, <1>7, WalkStays

LEMMA NextHInv == LInv /\ HInv /\ [Next]_vars => HInv'
<1> SUFFICES ASSUME LInv, HInv, [Next]_vars PROVE HInv'
  OBVIOUS
<1>1. CASE UNCHANGED vars
  <2>1. /\ UNCHANGED ptrVars /\ UNCHANGED readVars /\ UNCHANGED workVars /\ UNCHANGED historyVars
        /\ UNCHANGED <<i, pc, at, start_floor>>
    BY <1>1 DEF vars
  <2>2. next' = next /\ prev' = prev /\ raced' = raced /\ removed' = removed /\ on' = on
        /\ disturbed' = disturbed /\ floor' = floor /\ head' = head /\ before' = before
        /\ after' = after
    BY <2>1 DEF ptrVars, historyVars, readVars, workVars
  <2>3. Counting'
    BY <2>1, <2>2 DEF HInv, Counting, Printing
  <2>4. removed' = removed /\ Homeward' = Homeward
    BY <2>1, <2>2 DEF Homeward, Unboarded, Chains, Linked, Begun, AddingNow, temp
  <2>5. Walks'
    BY <2>1, <2>2 DEF HInv, Walks, Walking, Printing, Home, OnList, Linked, Begun
  <2> QED  BY <2>3, <2>4, <2>5 DEF HInv
<1>2. CASE \E p \in Passengers : AddRead(p) \/ Request(p)
  <2>1. PICK p \in Passengers : AddRead(p) \/ Request(p)
    BY <1>2
  <2>2. Counting' /\ Walks'
    BY <2>1, RequestCounting, RequestWalks DEF LInv, HInv
  <2>3. removed' = removed
    BY <2>1 DEF AddRead, Request, AddPrev, AddSelf, AddNext, PrintBegin, PrintIndex, PrintFirst,
                PrintVisit, PrintTest, PrintStore, PrintStep, historyVars
  <2>4. ~removed => Homeward'
    BY <2>1, RequestHomeward DEF LInv, HInv
  <2> QED  BY <2>2, <2>3, <2>4 DEF HInv
<1>3. CASE \E r \in Readers : SumVisit(r) \/ SumEnd(r) \/ \E f \in Floors : SumBegin(r, f)
  <2>1. PICK r \in Readers : SumVisit(r) \/ SumEnd(r) \/ \E f \in Floors : SumBegin(r, f)
    BY <1>3
  <2>2. Counting' /\ Walks'
    BY <2>1, ReaderWalks
  <2>3. removed' = removed
    BY <2>1 DEF SumVisit, SumEnd, SumBegin, historyVars
  <2>4. ~removed => Homeward'
    BY <2>1, ReaderHomeward DEF LInv, HInv
  <2> QED  BY <2>2, <2>3, <2>4 DEF HInv
<1>4. CASE Scheduler \/ DeleteBegin \/ \E h \in Heads : LoopBegin(h)
  <2>1. Counting' /\ Walks'
    BY <1>4, WorkWalks
  <2>2. ~removed' => ~removed
    BY <1>4 DEF Scheduler, Save, LoopEnd, LoadFull, KeepOnboard, Unlink, UnlinkPrev, UnlinkNext,
           PlaceNowhere, PlaceLast, PlaceNext, PrintWho, DeleteBegin, LoopBegin, Loop,
           LoopLeave, historyVars
  <2>3. ~removed' => Homeward'
    BY <1>4, <2>2, WorkHomeward DEF LInv, HInv
  <2> QED  BY <2>1, <2>3 DEF HInv
<1> QED  BY <1>1, <1>2, <1>3, <1>4 DEF Next

\* The nodes from which next leads home are ranked: by their place on the list,
\* or by when their request has begun.
LEMMA HomeReaches ==
  ASSUME LInv, HInv, ~(raced /\ removed), NEW h \in Floors, NEW n, Home(n, h)
  PROVE  Reaches(n, h)
<1> USE Kinds, Numbers DEF LInv, Whole, HInv
<1>1. IsFiniteSet(Nodes) /\ Bad \notin Nodes /\ h \in Nodes
  BY FiniteNodes
<1>2. ASSUME NEW S \in SUBSET Passengers, n = h \/ n \in S, NEW rank \in [S \cup {h} -> Nat],
             \A m \in S : next[m] = h \/ (next[m] \in S /\ rank[m] < rank[next[m]])
      PROVE  Reaches(n, h)
  <2>1. PICK T : T = S \cup {h}
    OBVIOUS
  <2>2. /\ T \in SUBSET Nodes /\ h \in T /\ n \in T /\ rank \in [T -> Nat]
        /\ \A m \in T \ {h} : next[m] = h \/ (next[m] \in T /\ rank[m] < rank[next[m]])
    BY <1>2, <2>1
  <2> QED  BY <1>1, <2>2, LeadsToHead
<1>3. CASE ~raced
  <2>1. \E k \in 0 .. Len(on[h]) : n = Node(h, k)
    <3>1. 0 \in 0 .. Len(on[h]) /\ Node(h, 0) = h
      BY <1>3, NodeFacts
    <3>2. \A k \in 1 .. Len(on[h]) : k \in 0 .. Len(on[h]) /\ Node(h, k) = on[h][k]
      BY <1>3, NodeFacts
    <3> QED  BY <1>3, <3>1, <3>2 DEF Home, OnList
  <2> QED  BY <1>3, <2>1, WholeReaches
<1>4. CASE ~removed
  <2>1. PICK N \in Nat : \E rank \in [Passengers -> 0 .. N] : Chains(rank)
    BY <1>4 DEF Homeward
  <2>2. PICK rank \in [Passengers -> 0 .. N] : Chains(rank)
    BY <2>1
  <2> DEFINE S == {p \in Passengers : Linked(p, h)}
             new == [m \in S \cup {h} |-> IF m \in S THEN rank[m] ELSE 0]
  <2>3. new \in [S \cup {h} -> Nat] /\ \A m \in S : new[m] = rank[m]
    OBVIOUS
  <2>4. \A m \in S : next[m] = h \/ (next[m] \in S /\ rank[m] < rank[next[m]])
    BY <2>2 DEF Chains, Linked, Begun
  <2>5. \A m \in S : next[m] = h \/ (next[m] \in S /\ new[m] < new[next[m]])
    BY <2>3, <2>4
  <2>6. n = h \/ n \in S
    BY <1>4 DEF Home, Linked, Begun
  <2>7. S \in SUBSET Passengers
    OBVIOUS
  <2> HIDE DEF new, S
  <2> QED  BY <1>2, <2>3, <2>5, <2>6, <2>7
<1> QED  BY <1>3, <1>4

-----------------------------------------------------------------------------
(* The sequence that the pointers of a whole list lead through.            *)

\* The k-th node on the way from h through the passengers in s and back.
Step(h, s, k) == IF k \in 1 .. Len(s) THEN s[k] ELSE h

LEMMA LeadsSteps ==
  ASSUME NEW h \in Heads, NEW s \in Seq(Passengers)
  PROVE  Leads(h, s) <=> \A k \in 0 .. Len(s) : next[Step(h, s, k)] = Step(h, s, k + 1)
<1>1. Len(s) \in Nat
  BY LenProperties
<1>2. ASSUME NEW k \in 0 .. Len(s)
      PROVE  /\ Step(h, s, k) = IF k = 0 THEN h ELSE s[k]
             /\ Step(h, s, k + 1) = IF k = Len(s) THEN h ELSE s[k + 1]
  <2>1. (k \in 1 .. Len(s) <=> k # 0) /\ (k + 1 \in 1 .. Len(s) <=> k # Len(s))
    BY <1>1
  <2> QED  BY <2>1, Zenon DEF Step
<1> QED  BY <1>2, Zenon DEF Leads

LEMMA WholeLeads ==
  ASSUME Lists, Forward, NEW h \in Heads
  PROVE  Leads(h, on[h])
<1>1. on[h] \in Seq(Passengers) /\ \A k : Step(h, on[h], k) = Node(h, k)
  BY DEF Lists, Step, Node
<1> QED  BY <1>1, LeadsSteps DEF Forward

\* Pointers lead from a head back to it in one way.
LEMMA OneWay ==
  ASSUME NEW h \in Heads, NEW s \in Seq(Passengers), NEW t \in Seq(Passengers),
         Leads(h, s), Leads(h, t)
  PROVE  s = t
<1> DEFINE A == {k \in Nat : k <= Len(s) + 1 =>
                               k <= Len(t) + 1 /\ Step(h, s, k) = Step(h, t, k)}
<1>1. Len(s) \in Nat /\ Len(t) \in Nat
  BY LenProperties
<1>2. 0 \in A
  BY <1>1 DEF Step
<1>3. ASSUME NEW k \in 0 .. Len(s), k \in A PROVE k + 1 \in A
  <2>1. k <= Len(t) + 1 /\ Step(h, s, k) = Step(h, t, k)
    BY <1>1, <1>3
  <2>2. k \in 0 .. Len(t)
    <3>1. CASE k = 0
      BY <1>1, <3>1
    <3>2. CASE k \in 1 .. Len(s)
      <4>1. Step(h, s, k) # h
        BY <3>2, ElementOfSeq, Numbers DEF Step
      <4>2. k \in 1 .. Len(t)
        BY <2>1, <4>1 DEF Step
      <4> QED  BY <1>1, <4>2
    <3> QED  BY <1>1, <3>1, <3>2
  <2>3. Step(h, s, k + 1) = Step(h, t, k + 1)
    BY <2>1, <2>2, LeadsSteps
  <2>4. k + 1 \in Nat /\ k + 1 <= Len(t) + 1
    BY <1>1, <2>2
  <2> QED  BY <2>3, <2>4
<1>4. 0 .. Len(s) + 1 \subseteq A
  <2>1. Len(s) + 1 \in Nat /\ 0 .. (Len(s) + 1) - 1 = 0 .. Len(s)
    BY <1>1
  <2> HIDE DEF A
  <2> QED  BY <1>2, <1>3, <2>1, CountUp
<1>5. Len(s) + 1 <= Len(t) + 1 /\ Step(h, t, Len(s) + 1) = h
  <2>1. Len(s) + 1 \in 0 .. Len(s) + 1 /\ Len(s) + 1 \notin 1 .. Len(s)
    BY <1>1
  <2> QED  BY <1>4, <2>1 DEF Step
<1>6. Len(s) = Len(t)
  <2> SUFFICES ASSUME Len(s) + 1 \in 1 .. Len(t) PROVE FALSE
    BY <1>1, <1>5
  <2> QED  BY <1>5, ElementOfSeq, Numbers DEF Step
<1>7. \A k \in 1 .. Len(s) : s[k] = t[k]
  <2> TAKE k \in 1 .. Len(s)
  <2>1. k \in 0 .. Len(s) + 1 /\ k <= Len(s) + 1
    BY <1>1
  <2>2. Step(h, s, k) = Step(h, t, k)
    BY <1>4, <2>1
  <2> QED  BY <1>6, <2>2 DEF Step
<1> QED  BY <1>6, <1>7, SeqEqual

LEMMA ListIs ==
  ASSUME Lists, Forward, NEW h \in Heads
  PROVE  ListOf(h) = on[h]
<1> DEFINE C == SeqOf(Passengers, Cardinality(Passengers))
           s == on[h]
<1>1. s \in Seq(Passengers) /\ Len(s) \in Nat /\ s \in [1 .. Len(s) -> Passengers]
  BY LenProperties DEF Lists
<1>2. \A j, k \in 1 .. Len(s) : s[j] = s[k] => j = k
  BY DEF Lists
<1>3. Len(s) \in 0 .. Cardinality(Passengers)
  <2>1. IsFiniteSet(Passengers) /\ Cardinality(Passengers) \in Nat
    BY ListAssumption, FS_CardinalityType
  <2>2. s \in Injection(1 .. Len(s), Passengers)
    BY <1>1, <1>2 DEF Injection, IsInjective
  <2>3. Cardinality(1 .. Len(s)) <= Cardinality(Passengers)
    BY <2>1, <2>2, FS_Injection
  <2>4. Cardinality(1 .. Len(s)) = Len(s)
    BY <1>1, FS_Interval
  <2> QED  BY <1>1, <2>1, <2>3, <2>4
<1>4. s \in C
  BY <1>1, <1>3 DEF SeqOf
<1>5. C \subseteq Seq(Passengers)
  BY SeqDef DEF SeqOf
<1>6. Leads(h, s)
  BY WholeLeads
<1> HIDE DEF C, s
<1>7. \A t \in C : Leads(h, t) => t = s
  BY <1>1, <1>5, <1>6, OneWay
<1>8. ListOf(h) = CHOOSE t \in C : Leads(h, t)
  BY DEF ListOf, Lines, C
<1> QED  BY <1>4, <1>6, <1>7, <1>8 DEF s

-----------------------------------------------------------------------------
(* Theorems.                                                               *)

LEMMA NextLInv == LInv /\ [Next]_vars => LInv'
<1> SUFFICES ASSUME LInv, [Next]_vars PROVE LInv'
  OBVIOUS
<1>1. Types'
  BY NextTypes DEF LInv
<1>2. CASE UNCHANGED vars
  <2>1. UNCHANGED ptrVars /\ UNCHANGED readVars /\ UNCHANGED workVars /\ UNCHANGED historyVars
        /\ UNCHANGED <<pc, at, start_floor>>
    BY <1>2 DEF vars
  <2>2. raced' = raced /\ on' = on /\ disturbed' = disturbed
    BY <2>1 DEF historyVars
  <2> SUFFICES ASSUME ~raced PROVE Whole' /\ Summing'
    BY <1>1, <2>2 DEF LInv
  <2>3. Whole'
    BY <2>1, <2>2, Elsewhere DEF LInv, Fresh
  <2>4. Summing'
    BY <2>1, <2>2 DEF LInv, Summing, SumAt, OnList, readVars
  <2> QED  BY <2>3, <2>4
<1>3. CASE Next
  <2> SUFFICES ASSUME ~raced' PROVE Whole' /\ Summing'
    BY <1>1 DEF LInv
  <2>1. CASE \E p \in Passengers : AddRead(p) \/ Request(p)
    <3>1. ~raced
      BY <2>1 DEF AddRead, Request, AddPrev, AddSelf, AddNext, PrintBegin, PrintIndex, PrintFirst,
                  PrintVisit, PrintTest, PrintStore, PrintStep, historyVars
    <3> QED  BY <2>1, <3>1, RequestWhole, RequestSumming DEF LInv
  <2>2. CASE \E r \in Readers : SumVisit(r) \/ SumEnd(r) \/ \E f \in Floors : SumBegin(r, f)
    <3>1. ~raced
      BY <2>2 DEF SumVisit, SumEnd, SumBegin, historyVars
    <3> QED  BY <2>2, <3>1, ReaderWhole, ReaderSumming DEF LInv
  <2>3. CASE Scheduler \/ DeleteBegin \/ \E h \in Heads : LoopBegin(h)
    <3>1. ~raced
      BY <2>3 DEF Scheduler, Save, LoopEnd, LoadFull, KeepOnboard, Unlink, UnlinkPrev, UnlinkNext,
                  PlaceNowhere, PlaceLast, PlaceNext, PrintWho, DeleteBegin, LoopBegin, Loop,
                  LoopLeave, historyVars
    <3> QED  BY <2>3, <3>1, WorkWhole, WorkSumming DEF LInv
  <2> QED  BY <1>3, <2>1, <2>2, <2>3 DEF Next
<1> QED  BY <1>2, <1>3

\* The inductive invariant: the pointers of every list of src/elevator_proc.c,
\* and who is where in changing or walking one, as long as nothing has raced.
THEOREM ListInvariance == Spec => []LInv
<1>1. Init => LInv
  BY InitTypes, InitWhole DEF LInv
<1> QED  BY <1>1, NextLInv, PTL DEF Spec

\* Every pointer is a node or Bad and every index is one of the code, also when
\* lists have been spoilt: print_passengers leaves i at lastfloor + 1 at most.
THEOREM FloorListTypes == Spec => []TypeOK
<1>1. Types => TypeOK
  BY Numbers DEF Types, Pointers, Threading, Working, TypeOK
<1>2. LInv => TypeOK
  BY <1>1 DEF LInv
<1> QED  BY <1>2, ListInvariance, PTL

\* As long as no two operations on one list overlap, next leads through every
\* list, at every write of list_add_tail, list_del and list_move_tail, as if
\* these were atomic.
THEOREM SerialListsHold == Spec => []SerialLists
<1>1. LInv => SerialLists
  BY WholeLeads DEF LInv, Whole, SerialLists
<1> QED  BY <1>1, ListInvariance, PTL

\* The node that list_for_each_safe goes on with is on the list of the loop.
THEOREM SavedNodeStays == Spec => []SavedNodeOnList
<1>1. LInv => SavedNodeOnList
  <2> SUFFICES ASSUME LInv, ~raced, pc[scheduler] = "save", temp # head
               PROVE  \E k \in DOMAIN on[head] : on[head][k] = temp
    BY DEF SavedNodeOnList
  <2>1. PICK k \in 1 .. Len(on[head]) : on[head][k] = temp
    BY DEF LInv, Whole, Looping, OnList
  <2>2. on[head] \in Seq(Passengers)
    BY NodeFacts DEF LInv, Whole, Types, Working
  <2>3. k \in DOMAIN on[head]
    BY <2>2, LenProperties
  <2> QED  BY <2>1, <2>3
<1> QED  BY <1>1, ListInvariance, PTL

\* What elevator_proc_read adds up for a floor that nobody leaves meanwhile is
\* everybody who was there, and nobody who waits somewhere else.
THEOREM SumIsOfFloor == Spec => []SumOfFloor
<1>1. LInv => SumOfFloor
  <2> SUFFICES ASSUME LInv, NEW r \in Readers,
                      ~raced, pc[r] = "visit", AllSummed(r), r \notin disturbed
               PROVE  /\ was[r] \subseteq seen[r]
                      /\ \A p \in seen[r] : p \in Passengers /\ start_floor[p] = floor[r]
    BY DEF SumOfFloor
  <2>1. PICK f \in Floors : f = floor[r] /\ f \in Heads
    BY Numbers DEF LInv, Types, Reading
  <2>2. SumAt(f, seen[r], was[r], f) /\ Lists
    BY <2>1 DEF LInv, Whole, Summing, AllSummed
  <2>3. PICK k \in 1 .. Len(on[f]) + 1 :
          seen[r] = {on[f][j] : j \in 1 .. k - 1} /\ was[r] \subseteq seen[r]
    <3>1. \A k \in 1 .. Len(on[f]) : on[f][k] # f
      BY <2>1, <2>2, NodeFacts, Numbers
    <3> QED  BY <3>1, <2>1, <2>2, NodeFacts DEF SumAt
  <2>4. \A j \in 1 .. Len(on[f]) : on[f][j] \in Passengers /\ start_floor[on[f][j]] = f
    <3>1. on[f] \in Seq(Passengers)
      BY <2>1, <2>2, NodeFacts
    <3> QED  BY <2>2, <3>1, ElementOfSeq DEF Lists
  <2>5. \A j \in 1 .. k - 1 : j \in 1 .. Len(on[f])
    BY <2>1, <2>2, NodeFacts
  <2> QED  BY <2>1, <2>3, <2>4, <2>5
<1> QED  BY <1>1, ListInvariance, PTL

\* A walk by print_passengers or elevator_proc_read that nobody disturbs comes
\* back to the head of its list, from wherever it is: on lists that have not
\* raced because they are whole, and on lists that only requests have raced on
\* because next leads only to requests that have begun later.
THEOREM WalksLeadHome == Spec => []WalkLeadsHome
<1>1. LInv /\ HInv => WalkLeadsHome
  <2> SUFFICES ASSUME LInv, HInv, ~(raced /\ removed), NEW t \in Walking \ disturbed
               PROVE  /\ t \in Readers => Reaches(at[t], floor[t])
                      /\ pc[t] \in {"visit", "test"} /\ t \in Passengers => Reaches(at[t], i)
    BY DEF WalkLeadsHome
  <2>1. PICK n : n = at[t]
    OBVIOUS
  <2>2. ASSUME t \in Readers PROVE Reaches(n, floor[t])
    <3>1. PICK h \in Floors : h = floor[t]
      BY <2>2 DEF LInv, Types, Reading
    <3>2. Home(n, h)
      BY <2>1, <2>2, <3>1 DEF HInv, Walks
    <3> QED  BY <3>1, <3>2, HomeReaches
  <2>3. ASSUME pc[t] \in {"visit", "test"}, t \in Passengers PROVE Reaches(n, i)
    <3>1. PICK h \in Floors : h = i
      BY <2>3 DEF HInv, Counting, Printing
    <3>2. Home(n, h)
      BY <2>1, <2>3, <3>1 DEF HInv, Walks
    <3> QED  BY <3>1, <3>2, HomeReaches
  <2> QED  BY <2>1, <2>2, <2>3
<1>2. Init => HInv
  BY InitHInv
<1>3. Spec => []HInv
  BY <1>2, NextHInv, ListInvariance, PTL DEF Spec
<1> QED  BY <1>1, <1>3, ListInvariance, PTL

-----------------------------------------------------------------------------
(* Every operation takes effect at one write.                              *)

\* The loops over a floor and over move_list have come to the first of the list,
\* and have saved the one behind him, if there was one: whom such a loop has passed
\* is on the list no more.  What becomes of a node depends on its list.
Turns ==
  /\ pc[scheduler] \notin {"new", "done", "lost"} =>
       head # IF exiting THEN onboard ELSE move_list
  /\ head # onboard =>
       /\ pc[scheduler] = "save" => temp \in {head, Node(head, 1)}
       /\ pc[scheduler] \in {"body", "unlink_prev", "unlink_next"} =>
            temp = Node(head, 1) /\ dummy \in {head, Node(head, 2)}
       /\ pc[scheduler] \in {"place", "place_next", "who"} => dummy \in {head, Node(head, 1)}
  /\ pc[scheduler] \in {"unlink_prev", "unlink_next", "place", "place_next"} =>
       dest \in Destinations

\* Steps of others, and those of the scheduler thread on another list.
LEMMA TurnsKept ==
  ASSUME Types, Whole, Turns, UNCHANGED workVars,
         pc'[scheduler] = pc[scheduler], at'[scheduler] = at[scheduler],
         \A k \in {1, 2} : Node(head, k) # head => Node(head, k)' = Node(head, k)
  PROVE  Turns'
<1>1. /\ UNCHANGED <<head, dummy, dest, exiting>> /\ temp' = temp
  BY DEF workVars, temp
<1>2. pc[scheduler] \in {"body", "unlink_prev", "unlink_next"} => temp # head
  BY NodeFacts, Numbers DEF Whole, Looping, OnList, Types, Working
<1>3. Destinations' = Destinations
  BY <1>1 DEF Destinations
<1> QED  BY <1>1, <1>2, <1>3 DEF Turns

LEMMA OthersTurns ==
  ASSUME Types, Whole, Turns,
         \/ \E p \in Passengers : AddRead(p) \/ Request(p)
         \/ \E r \in Readers : SumVisit(r) \/ SumEnd(r) \/ \E f \in Floors : SumBegin(r, f)
  PROVE  Turns'
<1> USE Kinds DEF PrintStep
<1>1. UNCHANGED workVars /\ pc'[scheduler] = pc[scheduler] /\ at'[scheduler] = at[scheduler]
  BY DEF AddRead, Request, AddPrev, AddSelf, AddNext, PrintBegin, PrintIndex, PrintFirst, At, Hold,
         PrintVisit, PrintTest, PrintStore, SumVisit, SumEnd, SumBegin, Types, Threading
<1>2. CASE on' = on
  BY <1>1, <1>2, TurnsKept DEF Node, workVars
<1>3. ASSUME NEW p \in Passengers, AddNext(p) PROVE Turns'
  <2>1. /\ Alone(p) /\ pc[p] = "add_next" /\ pc'[p] \in {"print", "lost"}
        /\ on' = [on EXCEPT ![start_floor[p]] = Append(@, p)] /\ UNCHANGED start_floor
    BY <1>3 DEF AddNext, At, Hold, Alone, Types, Threading
  <2>2. PICK h \in Heads : h = start_floor[p]
    BY Numbers DEF Types
  <2>3. /\ \A g \in Heads : ~OnList(p, g)
        /\ ~Fresh(p)' /\ \A q \in Passengers : Fresh(q)' => Fresh(q)
    BY <2>1, FreshOff DEF Fresh, Alone, Whole
  <2>4. /\ \A k \in Int : k # Len(on[h]) + 1 => Node(h, k)' = Node(h, k)
        /\ \A g \in Heads : g # h => \A k : Node(g, k)' = Node(g, k)
    BY <2>1, <2>2, <2>3, AppendedLists DEF Whole
  <2>5. head' = head /\ head \in Heads /\ Len(on[h]) \in Nat /\ Node(h, Len(on[h]) + 1) = h
    BY <1>1, NodeFacts DEF Whole, workVars, Types, Working
  <2>6. PICK g \in Heads : g = head
    BY <2>5
  <2>7. ASSUME NEW k \in {1, 2}, Node(g, k) # g PROVE Node(g, k)' = Node(g, k)
    <3>1. CASE g = h
      <4>1. k \in Int /\ k # Len(on[h]) + 1
        BY <2>5, <2>7, <3>1
      <4> QED  BY <2>4, <3>1, <4>1
    <3>2. CASE g # h
      BY <2>4, <3>2
    <3> QED  BY <3>1, <3>2
  <2>8. \A k \in {1, 2} : Node(head, k) # head => Node(head, k)' = Node(head, k)
    <3>1. \A k : Node(head, k) = Node(g, k) /\ Node(head, k)' = Node(g, k)'
      BY <2>5, <2>6 DEF Node
    <3> QED  BY <2>6, <2>7, <3>1
  <2> QED  BY <1>1, <2>8, TurnsKept
<1>4. (\E p \in Passengers : AddNext(p)) \/ on' = on
  BY DEF AddRead, Request, AddPrev, AddSelf, AddNext, PrintBegin, PrintIndex, PrintFirst,
         PrintVisit, PrintTest, PrintStore, SumVisit, SumEnd, SumBegin, historyVars
<1> QED  BY <1>2, <1>3, <1>4

LEMMA WorkTurns ==
  ASSUME Types, Whole, Whole', Turns, Scheduler \/ DeleteBegin \/ \E h \in Heads : LoopBegin(h)
  PROVE  Turns'
<1> USE Kinds, Numbers DEF historyVars
<1>0. \A from, to : \A n : Work(from, to) /\ (Hold(scheduler, n) \/ at' = at) =>
        /\ pc[scheduler] = from /\ pc'[scheduler] = to
        /\ (Hold(scheduler, n) => temp' = n) /\ (at' = at => temp' = temp)
  BY DEF Work, At, Hold, Types, Threading, temp
<1>still. \A from, to : Work(from, to) /\ at' = at =>
        pc[scheduler] = from /\ pc'[scheduler] = to /\ temp' = temp
  BY DEF Work, At, Types, Threading, temp
<1>1. head \in Heads
  BY DEF Types, Working
<1>2. \A h \in Heads : next[h] = Node(h, 1)
  <2> TAKE h \in Heads
  <2>1. 0 \in 0 .. Len(on[h]) /\ Node(h, 0) = h /\ 0 + 1 = 1
    BY NodeFacts DEF Whole
  <2> QED  BY <2>1 DEF Whole, Forward
<1>3. ASSUME on' = on PROVE \A h, k : Node(h, k)' = Node(h, k)
  BY <1>3 DEF Node
<1>4. ASSUME NEW h \in Heads, NEW from \in {"new", "save"}, Work(from, "save"), Loop(h),
             h # IF exiting' THEN onboard ELSE move_list
      PROVE  Turns'
  <2>1. pc'[scheduler] = "save" /\ temp' = Node(h, 1) /\ head' = h /\ on' = on
    BY <1>0, <1>2, <1>4 DEF Loop
  <2>2. Node(head, 1)' = Node(h, 1)
    BY <2>1 DEF Node
  <2> QED  BY <1>4, <2>1, <2>2 DEF Turns
<1>5. ASSUME NEW from \in {"save", "body"}, NEW to \in {"new", "done"}, LoopLeave(from, to)
      PROVE  Turns'
  BY <1>0, <1>5 DEF LoopLeave, Turns
<1>6. ASSUME NEW from \in {"body", "who"}, Work(from, "save"), Advance,
             UNCHANGED <<ptrVars, historyVars>>, from = "body" => head = onboard
      PROVE  Turns'
  <2>1. /\ pc[scheduler] = from /\ pc'[scheduler] = "save" /\ temp' = dummy
        /\ head' = head /\ exiting' = exiting /\ on' = on
    BY <1>0, <1>6 DEF Advance
  <2>2. Node(head, 1)' = Node(head, 1)
    BY <2>1 DEF Node
  <2> QED  BY <1>6, <2>1, <2>2 DEF Turns
<1>7. CASE Save
  <2>1. /\ pc[scheduler] = "save" /\ pc'[scheduler] \in {"body", "lost"} /\ temp' = temp
        /\ temp # head /\ head' = head /\ exiting' = exiting /\ on' = on
        /\ temp # Bad => dummy' = next[temp]
    BY <1>0, <1>7 DEF Save
  <2>2. /\ \A h, k : Node(h, k)' = Node(h, k)
        /\ Node(head, 1)' = Node(head, 1) /\ Node(head, 2)' = Node(head, 2)
    BY <1>3, <2>1 DEF Node
  <2>3. ASSUME head # onboard
        PROVE  temp = Node(head, 1) /\ next[temp] = Node(head, 2) /\ temp # Bad
    <3>1. temp = Node(head, 1)
      BY <2>1, <2>3 DEF Turns
    <3>2. 1 \in 0 .. Len(on[head]) /\ 1 + 1 = 2
      BY <1>1, <2>1, <3>1, NodeFacts DEF Whole
    <3>3. temp \in Passengers
      BY <1>1, <2>1, <3>1, NodeFacts DEF Whole
    <3> QED  BY <1>1, <3>1, <3>2, <3>3 DEF Whole, Forward
  <2> QED  BY <2>1, <2>2, <2>3 DEF Turns
<1>8. CASE LoopEnd
  <2>1. ASSUME exiting, head \in Floors, Work("save", "save"),
               Loop(IF head = lastfloor THEN move_list ELSE head + 1), UNCHANGED exiting
        PROVE  Turns'
    <3>1. PICK h \in Heads : h = IF head = lastfloor THEN move_list ELSE head + 1
      BY <2>1 DEF Floors
    <3>2. h # onboard
      BY <2>1, <3>1 DEF Floors, onboard, move_list
    <3> QED  BY <1>4, <2>1, <3>1, <3>2
  <2> QED  BY <1>5, <1>8, <2>1 DEF LoopEnd
<1>9. CASE LoadFull
  BY <1>5, <1>9 DEF LoadFull
<1>10. CASE KeepOnboard \/ PrintWho
  BY <1>6, <1>10 DEF KeepOnboard, PrintWho
<1>11. CASE DeleteBegin \/ \E h \in Heads : LoopBegin(h)
  <2>1. CASE DeleteBegin
    BY <1>4, <2>1 DEF DeleteBegin
  <2>2. ASSUME NEW h \in Heads, LoopBegin(h) PROVE Turns'
    <3>1. h # IF exiting' THEN onboard ELSE move_list
      BY <2>2 DEF LoopBegin
    <3> QED  BY <1>4, <2>2, <3>1 DEF LoopBegin
  <2> QED  BY <1>11, <2>1, <2>2
<1>12. CASE Unlink
  <2>1. /\ pc[scheduler] = "body" /\ pc'[scheduler] \in {"unlink_prev", "lost"} /\ temp' = temp
        /\ head' = head /\ dummy' = dummy /\ exiting' = exiting /\ on' = on
        /\ dest' \in Destinations
    BY <1>0, <1>12 DEF Unlink
  <2>2. /\ Node(head, 1)' = Node(head, 1) /\ Node(head, 2)' = Node(head, 2)
        /\ Destinations' = Destinations
    BY <2>1 DEF Node, Destinations
  <2> QED  BY <2>1, <2>2 DEF Turns
<1>13. CASE UnlinkPrev \/ PlaceNowhere \/ PlaceLast
  <2>1. /\ pc[scheduler] \in {"unlink_prev", "place"} /\ temp' = temp
        /\ pc[scheduler] = "unlink_prev" => pc'[scheduler] = "unlink_next"
        /\ pc[scheduler] = "place" => pc'[scheduler] \in {"place_next", "who"}
        /\ head' = head /\ dummy' = dummy /\ exiting' = exiting /\ on' = on /\ dest' = dest
    <3>1. CASE UnlinkPrev
      BY <1>still, <3>1 DEF UnlinkPrev, workVars, Set
    <3>2. CASE PlaceNowhere
      BY <1>still, <3>2 DEF PlaceNowhere, workVars, Set
    <3>3. CASE PlaceLast
      BY <1>still, <3>3 DEF PlaceLast, Set
    <3> QED  BY <1>13, <3>1, <3>2, <3>3
  <2>2. /\ Node(head, 1)' = Node(head, 1) /\ Node(head, 2)' = Node(head, 2)
        /\ Destinations' = Destinations
    BY <2>1 DEF Node, Destinations
  <2> QED  BY <2>1, <2>2 DEF Turns
<1>14. CASE UnlinkNext
  <2>1. /\ pc[scheduler] = "unlink_next" /\ pc'[scheduler] = "place" /\ temp' = temp
        /\ head' = head /\ dummy' = dummy /\ exiting' = exiting /\ dest' = dest
        /\ on' = [on EXCEPT ![head] = RemoveFirst(@, temp)]
        /\ UNCHANGED start_floor /\ Alone(scheduler)
    BY <1>0, <1>14 DEF UnlinkNext, Work, At, Alone, Types, Threading
  <2>2. PICK k \in 1 .. Len(on[head]) : on[head][k] = temp
    BY <2>1 DEF Whole, Looping, OnList
  <2>3. \A p \in Passengers : Fresh(p)' => Fresh(p)
    BY <2>1 DEF Fresh, Alone
  <2>4. ASSUME head # onboard PROVE dummy \in {head, Node(head, 1)'}
    <3>1. temp = Node(head, 1) /\ dummy \in {head, Node(head, 2)} /\ Len(on[head]) \in Nat
      BY <1>1, <2>1, <2>4, NodeFacts DEF Turns, Whole
    <3>2. on[head][1] = temp /\ 1 \in 1 .. Len(on[head]) /\ 1 \in 0 .. Len(on[head]) /\ 1 + 1 = 2
      BY <2>2, <3>1 DEF Node
    <3>3. \A j \in 0 .. Len(on[head]) : j >= 1 => Node(head, j)' = Node(head, j + 1)
      <4>1. PICK h \in Heads : h = head
        BY <1>1
      <4>2. \A j \in 0 .. Len(on[h]) : j >= 1 => Node(h, j)' = Node(h, j + 1)
        <5>1. 1 \in 1 .. Len(on[h]) /\ temp = on[h][1]
              /\ on' = [on EXCEPT ![h] = RemoveFirst(@, temp)]
          BY <2>1, <3>2, <4>1
        <5>2. PICK k1 \in 1 .. Len(on[h]) : k1 = 1
          BY <5>1
        <5>3. PICK n : n = temp
          OBVIOUS
        <5>4. on' = [on EXCEPT ![h] = RemoveFirst(@, n)] /\ n = on[h][k1]
          BY <5>1, <5>2, <5>3
        <5>5. \A j \in 0 .. Len(on[h]) : j >= k1 => Node(h, j)' = Node(h, j + 1)
          BY <2>1, <2>3, <5>4, RemovedLists DEF Whole
        <5> QED  BY <5>2, <5>5
      <4> QED  BY <2>1, <4>1, <4>2 DEF Node
    <3> QED  BY <3>1, <3>2, <3>3
  <2>5. Destinations' = Destinations
    BY <2>1 DEF Destinations
  <2> QED  BY <2>1, <2>4, <2>5 DEF Turns
<1>15. CASE PlaceNext
  <2>1. /\ pc[scheduler] = "place_next" /\ pc'[scheduler] \in {"who", "lost"} /\ temp' = temp
        /\ head' = head /\ dummy' = dummy /\ exiting' = exiting /\ dest' = dest
        /\ on' = [on EXCEPT ![dest] = Append(@, temp)]
    BY <1>0, <1>15 DEF PlaceNext, workVars
  <2>2. on'[head] = on[head]
    BY <1>1, <2>1 DEF Whole, Placing, Lists
  <2>3. Node(head, 1)' = Node(head, 1)
    <3>1. PICK h : h = head
      OBVIOUS
    <3>2. on'[h] = on[h]
      BY <2>2, <3>1
    <3>3. Node(h, 1)' = Node(h, 1)
      BY <3>2 DEF Node
    <3> QED  BY <2>1, <3>1, <3>3
  <2> QED  BY <2>1, <2>3 DEF Turns
<1> QED  BY <1>7, <1>8, <1>9, <1>10, <1>11, <1>12, <1>13, <1>14, <1>15 DEF Scheduler

LEMMA RacedStays == [Next]_vars /\ ~raced' => ~raced
<1>1. ASSUME Next, ~raced' PROVE ~raced
  BY <1>1 DEF Next, AddRead, Request, AddPrev, AddSelf, AddNext, PrintBegin, PrintIndex,
         PrintFirst, PrintVisit, PrintTest, PrintStore, PrintStep, historyVars, SumVisit, SumEnd,
         SumBegin, Scheduler, Save, LoopEnd, LoadFull, KeepOnboard, Unlink, UnlinkPrev,
         UnlinkNext, PlaceNowhere, PlaceLast, PlaceNext, PrintWho, DeleteBegin, LoopBegin, Loop,
         LoopLeave
<1>2. ASSUME UNCHANGED vars, ~raced' PROVE ~raced
  BY <1>2 DEF vars, historyVars
<1> QED  BY <1>1, <1>2

LEMMA NextTurns == LInv /\ LInv' /\ (~raced => Turns) /\ [Next]_vars => (~raced' => Turns')
<1> SUFFICES ASSUME LInv, LInv', ~raced => Turns, [Next]_vars, ~raced' PROVE Turns'
  OBVIOUS
<1>1. ~raced
  BY RacedStays
<1>2. CASE Next
  BY <1>1, <1>2, OthersTurns, WorkTurns DEF Next, LInv
<1>3. CASE UNCHANGED vars
  BY <1>1, <1>3, TurnsKept DEF LInv, vars, historyVars, Node, workVars
<1> QED  BY <1>2, <1>3

-----------------------------------------------------------------------------
(* The steps of ListService.                                               *)

ListsAre == \A h \in Heads : ListOf(h) = on[h]

LEMMA WholeListsAre == LInv => (~raced => ListsAre)
  BY ListIs DEF LInv, Whole, ListsAre

\* The lists of ListService, before and after a step.
LEMMA ServiceLists ==
  ASSUME ListsAre, ListsAre'
  PROVE  /\ [f \in Floors |-> ListOf(f)] = [f \in Floors |-> on[f]]
         /\ [f \in Floors |-> ListOf(f)]' = [f \in Floors |-> on'[f]]
         /\ ListOf(onboard) = on[onboard] /\ ListOf(onboard)' = on'[onboard]
         /\ ListOf(move_list) = on[move_list] /\ ListOf(move_list)' = on'[move_list]
<1>1. \A f \in Floors : ListOf(f) = on[f] /\ ListOf(f)' = on'[f]
  BY Numbers DEF ListsAre
<1>2. /\ ListOf(onboard) = on[onboard] /\ ListOf(onboard)' = on'[onboard]
      /\ ListOf(move_list) = on[move_list] /\ ListOf(move_list)' = on'[move_list]
  BY Numbers DEF ListsAre, onboard, move_list
<1> QED  BY <1>1, <1>2

LEMMA ServiceStutters ==
  ASSUME ListsAre, ListsAre', UNCHANGED <<on, start_floor, exiting>>,
         Asked' = Asked, Taken' = Taken
  PROVE  UNCHANGED Service!vars
  BY ServiceLists DEF Service!vars

\* Requests and readers change a list only at the last write of list_add_tail.
LEMMA OthersService ==
  ASSUME LInv, ~raced, ListsAre, ListsAre',
         \/ \E p \in Passengers : AddRead(p) \/ Request(p)
         \/ \E r \in Readers : SumVisit(r) \/ SumEnd(r) \/ \E f \in Floors : SumBegin(r, f)
  PROVE  Service!Next \/ UNCHANGED Service!vars
<1> USE Kinds DEF PrintStep
<1>0. Threading
  BY DEF LInv, Types
<1>1. UNCHANGED workVars /\ pc'[scheduler] = pc[scheduler] /\ at'[scheduler] = at[scheduler]
  BY <1>0 DEF AddRead, Request, AddPrev, AddSelf, AddNext, PrintBegin, PrintIndex, PrintFirst, At,
         Hold, PrintVisit, PrintTest, PrintStore, SumVisit, SumEnd, SumBegin, Threading
<1>2. UNCHANGED <<start_floor, exiting>> /\ Taken' = Taken
  <2>1. start_floor' = start_floor
    BY DEF AddRead, Request, AddPrev, AddSelf, AddNext, PrintBegin, PrintIndex, PrintFirst,
           PrintVisit, PrintTest, PrintStore, SumVisit, SumEnd, SumBegin
  <2> QED  BY <1>1, <2>1 DEF workVars, Taken, temp
<1>3. ASSUME NEW p \in Passengers, AddNext(p) PROVE Service!Ask(p)
  <2>1. /\ \A q \in Passengers : q # p => pc'[q] = pc[q]
        /\ pc[p] = "add_next" /\ pc'[p] \in {"print", "lost"}
        /\ on' = [on EXCEPT ![start_floor[p]] = Append(@, p)]
    BY <1>0, <1>3 DEF AddNext, At, Threading
  <2>2. p \notin Asked /\ Asked' = Asked \cup {p}
    BY <2>1 DEF Asked
  <2>3. on \in [Heads -> Seq(Passengers)] 
    BY DEF LInv, Whole, Lists
  <2>4. start_floor[p] \in Floors
    BY DEF LInv, Types
  <2>5. [f \in Floors |-> on'[f]] = [[f \in Floors |-> on[f]] EXCEPT ![start_floor[p]] = Append(@, p)]
    BY <2>1, <2>3, <2>4, Numbers
  <2>6. on'[onboard] = on[onboard] /\ on'[move_list] = on[move_list]
    BY <2>1, <2>3, <2>4, Numbers
  <2> QED  BY <1>2, <2>2, <2>5, <2>6, ServiceLists DEF Service!Ask
<1>4. ASSUME NEW p \in Passengers,
             \/ AddRead(p) \/ AddPrev(p) \/ AddSelf(p)
             \/ PrintBegin(p) \/ PrintIndex(p) \/ PrintFirst(p)
             \/ PrintVisit(p) \/ PrintTest(p) \/ PrintStore(p)
      PROVE  UNCHANGED Service!vars
  <2>1. on' = on
    BY <1>4 DEF AddRead, AddPrev, AddSelf, PrintBegin, PrintIndex, PrintFirst, PrintVisit,
                PrintTest, PrintStore, historyVars
  <2>2. (\A q \in Passengers : q # p => pc'[q] = pc[q]) /\ (p \in Asked' <=> p \in Asked)
    BY <1>0, <1>4 DEF AddRead, AddPrev, AddSelf, PrintBegin, PrintIndex, PrintFirst, PrintVisit,
                PrintTest, PrintStore, At, Threading, Asked
  <2>3. Asked' = Asked
    BY <2>2 DEF Asked
  <2> QED  BY <1>2, <2>1, <2>3, ServiceStutters
<1>5. ASSUME NEW r \in Readers, SumVisit(r) \/ SumEnd(r) \/ \E f \in Floors : SumBegin(r, f)
      PROVE  UNCHANGED Service!vars
  <2>1. on' = on /\ \A q \in Passengers : pc'[q] = pc[q]
    BY <1>0, <1>5 DEF SumVisit, SumEnd, SumBegin, historyVars, At, Threading
  <2>2. Asked' = Asked
    BY <2>1 DEF Asked
  <2> QED  BY <1>2, <2>1, <2>2, ServiceStutters
<1> QED  BY <1>3, <1>4, <1>5 DEF Request, Service!Next

\* RemoveFirst takes the first of a sequence that has him once.
LEMMA RemoveHead ==
  ASSUME NEW S, NEW s \in Seq(S), s # <<>>,
         \A j, k \in 1 .. Len(s) : s[j] = s[k] => j = k
  PROVE  RemoveFirst(s, s[1]) = Tail(s)
<1>1. Len(s) \in Nat /\ 1 \in 1 .. Len(s)
  BY LenProperties, EmptySeq
<1>2. PICK k \in 1 .. Len(s) : k = 1
  BY <1>1
<1>3. LET t == RemoveFirst(s, s[k])
      IN  /\ t \in Seq(S) /\ Len(t) = Len(s) - 1
          /\ \A j \in 1 .. Len(t) : t[j] = IF j < k THEN s[j] ELSE s[j + 1]
  BY RemoveOne
<1> DEFINE t == RemoveFirst(s, s[1])
<1>4. t \in Seq(S) /\ Len(t) = Len(s) - 1 /\ \A j \in 1 .. Len(t) : t[j] = s[j + 1]
  BY <1>1, <1>2, <1>3
<1>5. /\ Tail(s) \in Seq(S) /\ Len(Tail(s)) = Len(s) - 1
      /\ \A j \in 1 .. Len(Tail(s)) : Tail(s)[j] = s[j + 1]
  BY HeadTailProperties
<1> HIDE DEF t
<1>6. t = Tail(s)
  BY <1>4, <1>5, SeqEqual
<1> QED  BY <1>6 DEF t

\* ListService has the operators of the library as its own.
LEMMA SameRemove == \A s, e : Service!RemoveFirst(s, e) = RemoveFirst(s, e)
  BY DEF RemoveFirst, RemoveAt, SelectInSeq, Min, Service!RemoveFirst, Service!RemoveAt,
         Service!SelectInSeq, Service!Min

\* The scheduler thread takes somebody off a list at the last write of __list_del,
\* and puts him on one at the last write of __list_add.
LEMMA UnlinkService ==
  ASSUME LInv, ~raced, Turns, ListsAre, ListsAre', UnlinkNext
  PROVE  Service!Next
<1> USE Kinds, Numbers
<1>0. Types /\ Whole /\ Lists /\ head \in Heads /\ dest \in {Bad, onboard, move_list}
  BY DEF LInv, Types, Working, Whole
<1>1. /\ pc[scheduler] = "unlink_next" /\ pc'[scheduler] = "place" /\ at' = at
      /\ UNCHANGED <<start_floor, head, dest, exiting>>
      /\ on' = [on EXCEPT ![head] = RemoveFirst(@, temp)]
      /\ \A p \in Passengers : pc'[p] = pc[p]
  BY <1>0 DEF UnlinkNext, Work, At, Types, Threading
<1>2. temp' = temp /\ Asked' = Asked
  BY <1>1 DEF temp, Asked
<1>3. Taken = Bad /\ Taken' = IF dest = Bad THEN Bad ELSE temp
  BY <1>1, <1>2 DEF Taken
<1>4. /\ dest \in Destinations /\ head # IF exiting THEN onboard ELSE move_list
      /\ head # onboard => temp = Node(head, 1)
  BY <1>1 DEF Turns
<1>5. PICK h \in Heads : h = head
  BY <1>0
<1>6. /\ on[h] \in Seq(Passengers) /\ \A j, k \in 1 .. Len(on[h]) : on[h][j] = on[h][k] => j = k
      /\ DOMAIN on = Heads
  BY <1>0 DEF Lists
<1>7. PICK k \in 1 .. Len(on[h]) : on[h][k] = temp
  BY <1>0, <1>1, <1>5 DEF Whole, Looping, OnList
<1>8. on[h] # <<>> /\ 1 \in 1 .. Len(on[h]) /\ DOMAIN on[h] = 1 .. Len(on[h])
  BY <1>6, <1>7, LenProperties, EmptySeq
<1>9. on'[h] = RemoveFirst(on[h], temp) /\ \A g \in Heads : g # h => on'[g] = on[g]
  BY <1>1, <1>5, <1>6
<1>10. ASSUME h # onboard PROVE on'[h] = Tail(on[h]) /\ temp = Head(on[h])
  <2>1. temp = on[h][1]
    BY <1>4, <1>5, <1>8, <1>10 DEF Node
  <2>2. RemoveFirst(on[h], on[h][1]) = Tail(on[h])
    BY <1>6, <1>8, RemoveHead
  <2> QED  BY <1>9, <2>1, <2>2
<1>11. CASE h \in Floors
  <2>1. [f \in Floors |-> on'[f]] = [[f \in Floors |-> on[f]] EXCEPT ![h] = Tail(@)]
    BY <1>9, <1>10, <1>11
  <2>2. on'[onboard] = on[onboard] /\ on'[move_list] = on[move_list]
    BY <1>9, <1>11
  <2>3. Service!First(h)
    BY <1>1, <1>2, <1>3, <1>8, <1>11, <2>1, <2>2, ServiceLists DEF Service!First
  <2>4. dest = Bad => ~exiting
    BY <1>4, <1>5, <1>11 DEF Destinations
  <2>5. CASE dest = Bad
    BY <1>3, <1>11, <2>3, <2>4, <2>5 DEF Service!Greet, Service!Next
  <2>6. CASE dest # Bad
    <3>1. [f \in Floors |-> ListOf(f)][h] = on[h]
      BY <1>11, ServiceLists
    <3>2. Taken' = Head([f \in Floors |-> ListOf(f)][h])
      BY <1>3, <1>10, <1>11, <2>6, <3>1
    <3> QED  BY <1>11, <2>3, <3>2 DEF Service!Take, Service!Next
  <2> QED  BY <2>5, <2>6
<1>12. CASE h = onboard
  <2>1. ~exiting /\ dest = Bad
    BY <1>4, <1>5, <1>12 DEF Destinations
  <2>2. \A f \in Floors : on'[f] = on[f]
    BY <1>9, <1>12
  <2>3. on'[move_list] = on[move_list] /\ on'[onboard] = RemoveFirst(on[onboard], temp)
    BY <1>9, <1>12
  <2>4. [f \in Floors |-> on'[f]] = [f \in Floors |-> on[f]]
    BY <2>2
  <2>5. temp \in Passengers /\ temp \in {on[onboard][j] : j \in DOMAIN on[onboard]}
    BY <1>6, <1>7, <1>8, <1>12, ElementOfSeq
  <2>6. PICK p \in Passengers : p = temp
    BY <2>5
  <2>7. Service!GetOff(p)
    <3>1. p \in {ListOf(onboard)[j] : j \in DOMAIN ListOf(onboard)}
      BY <2>5, <2>6, ServiceLists
    <3>2. ListOf(onboard)' = Service!RemoveFirst(ListOf(onboard), p)
      BY <2>3, <2>6, ServiceLists, SameRemove
    <3> QED  BY <1>1, <1>2, <1>3, <2>1, <2>3, <2>4, <3>1, <3>2, ServiceLists DEF Service!GetOff
  <2> QED  BY <2>7 DEF Service!Next
<1>13. CASE h = move_list
  <2>1. exiting /\ dest = Bad
    BY <1>4, <1>5, <1>13 DEF Destinations
  <2>2. \A f \in Floors : on'[f] = on[f]
    BY <1>9, <1>13
  <2>3. on'[onboard] = on[onboard] /\ on'[move_list] = Tail(on[move_list]) /\ on[move_list] # <<>>
    BY <1>8, <1>9, <1>10, <1>13
  <2>4. [f \in Floors |-> on'[f]] = [f \in Floors |-> on[f]]
    BY <2>2
  <2>5. Service!Free
    BY <1>1, <1>2, <1>3, <2>1, <2>3, <2>4, ServiceLists DEF Service!Free
  <2> QED  BY <2>5 DEF Service!Next
<1> QED  BY <1>11, <1>12, <1>13 DEF Heads

LEMMA PlaceService ==
  ASSUME LInv, ~raced, Turns, ListsAre, ListsAre', PlaceNext
  PROVE  Service!Next
<1> USE Kinds, Numbers
<1>0. Types /\ Whole /\ Lists
  BY DEF LInv, Whole
<1>1. /\ pc[scheduler] = "place_next" /\ pc'[scheduler] \in {"who", "lost"} /\ at' = at
      /\ UNCHANGED <<start_floor, head, dest, exiting>>
      /\ on' = [on EXCEPT ![dest] = Append(@, temp)]
      /\ \A p \in Passengers : pc'[p] = pc[p]
  BY <1>0 DEF PlaceNext, Work, At, Types, Threading, workVars
<1>2. temp' = temp /\ Asked' = Asked
  BY <1>1 DEF temp, Asked
<1>3. dest # Bad /\ temp \in Passengers
  BY <1>0, <1>1 DEF Whole, Placing
<1>4. Taken = temp /\ Taken' = Bad /\ temp # Bad
  BY <1>1, <1>2, <1>3 DEF Taken
<1>5. dest = IF exiting THEN move_list ELSE onboard
  BY <1>1, <1>3 DEF Turns, Destinations
<1>6. /\ on'[dest] = Append(on[dest], temp)
      /\ \A g \in Heads : g # dest => on'[g] = on[g]
  BY <1>0, <1>1, <1>5 DEF Lists
<1>7. [f \in Floors |-> on'[f]] = [f \in Floors |-> on[f]]
  BY <1>5, <1>6
<1>8. CASE exiting
  <2>1. on'[onboard] = on[onboard] /\ on'[move_list] = Append(on[move_list], temp)
    BY <1>5, <1>6, <1>8
  <2> QED  BY <1>1, <1>2, <1>4, <1>7, <1>8, <2>1, ServiceLists DEF Service!Collect, Service!Next
<1>9. CASE ~exiting
  <2>1. on'[move_list] = on[move_list] /\ on'[onboard] = Append(on[onboard], temp)
    BY <1>5, <1>6, <1>9
  <2> QED  BY <1>1, <1>2, <1>4, <1>7, <1>9, <2>1, ServiceLists DEF Service!GetIn, Service!Next
<1> QED  BY <1>8, <1>9

LEMMA WorkService ==
  ASSUME LInv, ~raced, Turns, ListsAre, ListsAre',
         Scheduler \/ DeleteBegin \/ \E h \in Heads : LoopBegin(h)
  PROVE  Service!Next \/ UNCHANGED Service!vars
<1> USE Kinds, Numbers DEF historyVars
<1>0. Types /\ Whole
  BY DEF LInv
<1>1. \A from, to : Work(from, to) => /\ pc[scheduler] = from /\ pc'[scheduler] = to
                                      /\ Asked' = Asked /\ start_floor' = start_floor
  <2> SUFFICES ASSUME NEW from, NEW to, Work(from, to)
               PROVE  /\ pc[scheduler] = from /\ pc'[scheduler] = to
                      /\ Asked' = Asked /\ start_floor' = start_floor
    OBVIOUS
  <2>1. /\ pc[scheduler] = from /\ pc'[scheduler] = to /\ start_floor' = start_floor
        /\ \A p \in Passengers : pc'[p] = pc[p]
    BY <1>0 DEF Work, At, Types, Threading
  <2> QED  BY <2>1 DEF Asked
<1>2. ASSUME NEW from, NEW to, Work(from, to), UNCHANGED <<on, exiting>>, Taken' = Taken
      PROVE  UNCHANGED Service!vars
  BY <1>1, <1>2, ServiceStutters
<1>3. ASSUME NEW from \in {"new", "save", "body", "unlink_prev", "who"},
             NEW to \in {"new", "save", "body", "unlink_prev", "unlink_next", "done", "lost"},
             Work(from, to), UNCHANGED <<on, exiting>>
      PROVE  UNCHANGED Service!vars
  <2>1. Taken' = Taken
    BY <1>1, <1>3 DEF Taken
  <2> QED  BY <1>2, <1>3, <2>1
<1>4. CASE Save \/ KeepOnboard \/ Unlink \/ UnlinkPrev \/ PrintWho \/ \E h \in Heads : LoopBegin(h)
  <2>1. UNCHANGED <<on, exiting>>
    BY <1>4 DEF Save, KeepOnboard, Unlink, UnlinkPrev, PrintWho, LoopBegin, Loop, Advance, workVars
  <2>2. CASE Save
    BY <1>3, <2>1, <2>2 DEF Save
  <2>3. CASE KeepOnboard \/ PrintWho
    BY <1>3, <2>1, <2>3 DEF KeepOnboard, PrintWho
  <2>4. CASE Unlink
    BY <1>3, <2>1, <2>4 DEF Unlink
  <2>5. CASE UnlinkPrev
    BY <1>3, <2>1, <2>5 DEF UnlinkPrev
  <2>6. CASE \E h \in Heads : LoopBegin(h)
    BY <1>3, <2>1, <2>6 DEF LoopBegin
  <2> QED  BY <1>4, <2>2, <2>3, <2>4, <2>5, <2>6
<1>5. CASE LoopEnd \/ LoadFull
  BY <1>3, <1>5 DEF LoopEnd, LoadFull, LoopLeave, Loop
<1>6. CASE DeleteBegin
  <2>1. /\ pc[scheduler] = "new" /\ pc'[scheduler] = "save" /\ ~exiting /\ exiting' = TRUE
        /\ on' = on /\ Asked' = Asked /\ start_floor' = start_floor
    BY <1>1, <1>6 DEF DeleteBegin, Loop
  <2>2. Taken = Bad /\ Taken' = Bad
    BY <2>1 DEF Taken
  <2> QED  BY <2>1, <2>2, ServiceLists DEF Service!Exit, Service!Next
<1>7. CASE PlaceNowhere
  <2>1. /\ pc[scheduler] = "place" /\ pc'[scheduler] = "who" /\ dest = Bad
        /\ UNCHANGED <<dest, on, exiting>>
    BY <1>1, <1>7 DEF PlaceNowhere, workVars
  <2>2. Taken' = Taken
    BY <2>1 DEF Taken
  <2> QED  BY <1>2, <1>7, <2>1, <2>2 DEF PlaceNowhere
<1>8. CASE PlaceLast
  <2>1. /\ pc[scheduler] = "place" /\ pc'[scheduler] = "place_next"
        /\ UNCHANGED <<at, dest, on, exiting>>
    BY <1>1, <1>8 DEF PlaceLast
  <2>2. Taken' = Taken
    BY <2>1 DEF Taken, temp
  <2> QED  BY <1>2, <1>8, <2>1, <2>2 DEF PlaceLast
<1> QED  BY <1>4, <1>5, <1>6, <1>7, <1>8, UnlinkService, PlaceService DEF Scheduler

\* Every list operation of src/elevator_proc.c is atomic, as long as no two on the
\* same list overlap: of the writes of list_add_tail, list_del and list_move_tail
\* one does what the operation does to the list as a sequence, in the order that
\* module Elevator relies on, and the others change no list.
THEOREM ListsAreAtomic == Spec => Atomic
<1> DEFINE TInv == ~raced => Turns
           SInv == LInv /\ (~raced => Turns) /\ (~raced => ListsAre)
<1>1. Init => Service!Init /\ TInv
  <2> SUFFICES ASSUME Init PROVE Service!Init /\ TInv
    OBVIOUS
  <2>1. LInv /\ ListsAre
    BY InitTypes, InitWhole, WholeListsAre DEF LInv, Init
  <2>2. pc[scheduler] = "new" /\ \A p \in Passengers : pc[p] = "new"
    BY Kinds DEF Init
  <2>3. Asked = {} /\ Taken = Bad /\ TInv
    BY <2>2 DEF Asked, Taken, Turns, Init
  <2>4. /\ [f \in Floors |-> ListOf(f)] = [f \in Floors |-> <<>>]
        /\ ListOf(onboard) = <<>> /\ ListOf(move_list) = <<>>
    <3>1. \A h \in Heads : ListOf(h) = <<>>
      BY <2>1 DEF ListsAre, Init
    <3>2. \A f \in Floors : ListOf(f) = <<>>
      BY <3>1, Numbers
    <3>3. ListOf(onboard) = <<>> /\ ListOf(move_list) = <<>>
      BY <3>1, Numbers
    <3> QED  BY <3>2, <3>3
  <2> QED  BY <2>3, <2>4 DEF Service!Init, Init
<1>2. TInv /\ LInv /\ LInv' /\ [Next]_vars => TInv'
  BY NextTurns
<1>3. LInv /\ TInv /\ (~raced => ListsAre) /\ (~raced => ListsAre)' /\ [Next]_vars
        => [~raced' => UNCHANGED Service!vars \/ Service!Next]_vars
  <2> SUFFICES ASSUME LInv, TInv, ~raced => ListsAre, (~raced => ListsAre)', [Next]_vars, ~raced'
               PROVE  Service!Next \/ UNCHANGED Service!vars
    OBVIOUS
  <2>1. ~raced
    BY RacedStays
  <2>2. ListsAre /\ ListsAre' /\ Turns
    BY <2>1
  <2>3. CASE Next
    BY <2>1, <2>2, <2>3, OthersService, WorkService DEF Next
  <2>4. CASE UNCHANGED vars
    <3>1. UNCHANGED <<on, start_floor, exiting, pc, at, dest>>
      BY <2>4 DEF vars, historyVars, workVars
    <3>2. Asked' = Asked /\ Taken' = Taken
      BY <3>1 DEF Asked, Taken, temp
    <3> QED  BY <2>2, <3>1, <3>2, ServiceStutters
  <2> QED  BY <2>3, <2>4
<1> QED  BY <1>1, <1>2, <1>3, ListInvariance, WholeListsAre, PTL DEF Spec, Atomic

\* As long as no two operations on one list overlap, the scheduler thread and
\* elevator_exit never follow a pointer that was poisoned, freed or never set, and
\* every walk over a list comes to an end: print_who_on_it over onboard, which
\* PrintWho waits for, does.
THEOREM SchedulerNotLost ==
  Spec => [](~raced => pc[scheduler] # "lost" /\ \A h \in Heads : Returns(h))
<1> DEFINE Fine == ~raced => pc[scheduler] # "lost"
<1>1. Init => Fine
  BY Kinds DEF Init
<1>2. LInv /\ Fine /\ [Next]_vars => Fine'
  <2> SUFFICES ASSUME LInv, Fine, [Next]_vars, ~raced' PROVE pc'[scheduler] # "lost"
    OBVIOUS
  <2>1. ~raced /\ Types /\ Whole /\ pc[scheduler] # "lost" /\ head \in Heads
    BY RacedStays DEF LInv, Types, Working
  <2>2. PICK h : h = head
    OBVIOUS
  <2>3. CASE \/ \E p \in Passengers : AddRead(p) \/ Request(p)
             \/ \E r \in Readers : SumVisit(r) \/ SumEnd(r) \/ \E f \in Floors : SumBegin(r, f)
    <3>1. pc'[scheduler] = pc[scheduler]
      BY <2>1, <2>3, Kinds DEF AddRead, Request, AddPrev, AddSelf, AddNext, PrintBegin, PrintIndex,
         PrintFirst, At, PrintStep, PrintVisit, PrintTest, PrintStore, SumVisit, SumEnd, SumBegin,
         Types, Threading
    <3> QED  BY <2>1, <3>1
  <2>4. \A from, to : Work(from, to) => pc[scheduler] = from /\ pc'[scheduler] = to
    BY <2>1, Kinds DEF Work, At, Types, Threading
  <2>5. CASE Save
    <3>1. temp \in Passengers
      BY <2>1, <2>4, <2>5, NodeFacts, ElementOfSeq DEF Save, Whole, Looping, OnList
    <3> QED  BY <2>4, <2>5, <3>1, Numbers DEF Save
  <2>6. CASE Unlink
    <3>1. pc[scheduler] = "body"
      BY <2>4, <2>6 DEF Unlink
    <3>2. PICK k \in 1 .. Len(on[h]) : on[h][k] = temp
      BY <2>1, <2>2, <3>1 DEF Whole, Looping, OnList
    <3>3. /\ k \in 0 .. Len(on[h]) /\ k \in 1 .. Len(on[h]) + 1 /\ k # Len(on[h]) + 1
          /\ k - 1 \in Int /\ k + 1 \in Int /\ Node(h, k) = temp
      BY <2>1, <2>2, <3>2, NodeFacts DEF Whole
    <3>4. next[temp] = Node(h, k + 1)
      BY <2>1, <2>2, <3>3 DEF Whole, Forward
    <3>5. prev[temp] = Node(h, k - 1)
      BY <2>1, <2>2, <3>1, <3>3 DEF Whole, Backward, Bypassed
    <3>6. Node(h, k + 1) \in Nodes /\ Node(h, k - 1) \in Nodes
      BY <2>1, <2>2, <3>3, NodeFacts, Numbers DEF Whole
    <3>7. Bad \notin {prev[temp], next[temp]}
      BY <3>4, <3>5, <3>6, Numbers
    <3> QED  BY <2>4, <2>6, <3>7 DEF Unlink
  <2>7. CASE PlaceNext
    <3>1. pc[scheduler] = "place_next"
      BY <2>4, <2>7 DEF PlaceNext
    <3>2. before = Node(dest, Len(on[dest])) /\ dest \in Heads
      BY <2>1, <3>1, Numbers DEF Whole, Placing, LastNode, Types, Working
    <3>3. before \in Nodes
      <4>1. PICK d \in Heads : d = dest
        BY <3>2
      <4>2. Len(on[d]) \in Int /\ Node(d, Len(on[d])) \in Nodes
        BY <2>1, NodeFacts, Numbers DEF Whole
      <4> QED  BY <3>2, <4>1, <4>2
    <3> QED  BY <2>4, <2>7, <3>3, Numbers DEF PlaceNext
  <2>8. CASE \/ LoopEnd \/ LoadFull \/ KeepOnboard \/ UnlinkPrev \/ UnlinkNext \/ PlaceNowhere
             \/ PlaceLast \/ PrintWho \/ DeleteBegin \/ \E g \in Heads : LoopBegin(g)
    BY <2>4, <2>8 DEF LoopEnd, LoopLeave, LoadFull, KeepOnboard, UnlinkPrev, UnlinkNext,
         PlaceNowhere, PlaceLast, PrintWho, DeleteBegin, LoopBegin
  <2>9. CASE UNCHANGED vars
    BY <2>1, <2>9 DEF vars
  <2> QED  BY <2>3, <2>5, <2>6, <2>7, <2>8, <2>9 DEF Next, Scheduler
<1>3. LInv => (~raced => \A h \in Heads : Returns(h))
  BY WholeReaches DEF LInv, Whole
<1> QED  BY <1>1, <1>2, <1>3, ListInvariance, PTL DEF Spec

=============================================================================
