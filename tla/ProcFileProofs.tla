--------------------------- MODULE ProcFileProofs ----------------------------
(***************************************************************************)
(* Proofs of the invariants of module MCProcFile for any number of         *)
(* readers, buffers and opens.                                             *)
(***************************************************************************)
EXTENDS MCProcFile, SequenceTheorems, TLAPS

Texts == Readers \cup {NULL}

Types ==
  /\ message \in Buffers \cup {NULL} /\ read_p \in {0, 1}
  /\ used \subseteq Buffers /\ text \in [Buffers -> Texts]
  /\ pc \in [Readers -> {"closed", "kmalloc", "open", "toggle", "eof", "format", "copy"}]
  /\ toggled \in [Readers -> {0, 1}]
  /\ got \in [Readers -> Seq(Texts)]
  /\ opens \in [Readers -> 0 .. MaxOpens]

HistoryTypes == alone \in [Readers -> BOOLEAN] /\ overlapped \in BOOLEAN /\ misused \in BOOLEAN

\* A reader that nobody else disturbs: what read_p says of what he has got, and
\* message is his buffer.
Undisturbed(r) ==
  /\ \A q \in Readers : pc[q] # "closed" => q = r
  /\ pc[r] # "kmalloc" => message \in Buffers
  /\ pc[r] \in {"kmalloc", "format", "copy"} => got[r] = <<>>
  /\ pc[r] = "kmalloc" => read_p = 1
  /\ pc[r] = "open" => got[r] = IF read_p = 1 THEN <<>> ELSE <<r>>
  /\ pc[r] = "toggle" => got[r] = IF toggled[r] = 0 THEN <<>> ELSE <<r>>
  /\ pc[r] \in {"format", "copy"} => read_p = 0
  /\ pc[r] = "copy" => text[message] = r
  /\ pc[r] = "eof" => got[r] = <<r>>

AloneInv == \A r \in Readers : alone[r] /\ pc[r] # "closed" => Undisturbed(r)

SerialInv ==
  ~overlapped => /\ SerialHeap
                 /\ \A q, r \in Readers : pc[q] # "closed" /\ pc[r] # "closed" => q = r
                 /\ \A r \in Readers : Open(r) => message \in Buffers

PInv == Types /\ HistoryTypes /\ AloneInv /\ SerialInv

LEMMA InitPInv == Init => PInv
<1> SUFFICES ASSUME Init PROVE PInv
  OBVIOUS
<1>1. Types
  BY ReadersAssumption, BoundsAssumption, EmptySeq DEF Init, Types, Texts
<1>2. HistoryTypes
  BY DEF Init, HistoryTypes
<1>3. AloneInv /\ SerialInv
  BY DEF Init, AloneInv, SerialInv, SerialHeap, Open
<1> QED  BY <1>1, <1>2, <1>3 DEF PInv

LEMMA StepTypes == Types /\ [Next]_vars => Types'
<1> SUFFICES ASSUME Types, [Next]_vars PROVE Types'
  OBVIOUS
<1> USE ReadersAssumption, BoundsAssumption DEF Types, Texts, At
<1>1. ASSUME NEW r \in Readers, OpenFlag(r) PROVE Types'
  <2>1. got' \in [Readers -> Seq(Texts)]
    BY <1>1, EmptySeq DEF OpenFlag
  <2>2. opens' \in [Readers -> 0 .. MaxOpens]
    BY <1>1 DEF OpenFlag
  <2> QED  BY <1>1, <2>1, <2>2 DEF OpenFlag
<1>2. ASSUME NEW r \in Readers, OpenBuffer(r) \/ OpenFails(r) PROVE Types'
  BY <1>2 DEF OpenBuffer, OpenFails
<1>3. ASSUME NEW r \in Readers, ReadLoad(r) PROVE Types'
  BY <1>3 DEF ReadLoad
<1>4. ASSUME NEW r \in Readers, ReadStore(r) PROVE Types'
  BY <1>4 DEF ReadStore
<1>5. ASSUME NEW r \in Readers, ReadFormat(r) PROVE Types'
  BY <1>5 DEF ReadFormat
<1>6. ASSUME NEW r \in Readers, ReadCopy(r) PROVE Types'
  <2>1. got' \in [Readers -> Seq(Texts)]
    BY <1>6 DEF ReadCopy
  <2> QED  BY <1>6, <2>1 DEF ReadCopy
<1>7. ASSUME NEW r \in Readers, Oops(r) \/ Release(r) PROVE Types'
  BY <1>7 DEF Oops, Release
<1>8. CASE UNCHANGED vars
  BY <1>8 DEF vars
<1> QED  BY <1>1, <1>2, <1>3, <1>4, <1>5, <1>6, <1>7, <1>8 DEF Next, Session, GiveUp

LEMMA StepHistoryTypes == HistoryTypes /\ [Next]_vars => HistoryTypes'
<1> SUFFICES ASSUME HistoryTypes, [Next]_vars PROVE HistoryTypes'
  OBVIOUS
<1> USE DEF HistoryTypes
<1>1. ASSUME NEW r \in Readers, OpenFlag(r) PROVE HistoryTypes'
  BY <1>1 DEF OpenFlag
<1>2. ASSUME NEW r \in Readers, Session(r) \/ GiveUp(r) PROVE HistoryTypes'
  <2>1. misused' \in BOOLEAN
    BY <1>2 DEF Session, GiveUp, OpenBuffer, OpenFails, ReadLoad, ReadStore, ReadFormat,
          ReadCopy, Oops, Release
  <2>2. alone' = alone /\ overlapped' = overlapped
    BY <1>2 DEF Session, GiveUp, OpenBuffer, OpenFails, ReadLoad, ReadStore, ReadFormat,
          ReadCopy, Oops, Release
  <2> QED  BY <2>1, <2>2
<1>3. CASE UNCHANGED vars
  BY <1>3 DEF vars
<1> QED  BY <1>1, <1>2, <1>3 DEF Next

\* The step of somebody who has the file open, or is opening it.
LEMMA OwnSteps ==
  ASSUME Types, NEW r \in Readers, Session(r) \/ GiveUp(r)
  PROVE  /\ pc[r] # "closed" /\ \A q \in Readers \ {r} : pc'[q] = pc[q]
         /\ alone' = alone /\ overlapped' = overlapped
<1>1. alone' = alone /\ overlapped' = overlapped
  BY DEF Session, GiveUp, OpenBuffer, OpenFails, ReadLoad, ReadStore, ReadFormat,
         ReadCopy, Oops, Release
<1>2. \E from, to : pc[r] = from /\ from # "closed" /\ pc' = [pc EXCEPT ![r] = to]
  BY DEF Session, GiveUp, OpenBuffer, OpenFails, ReadLoad, ReadStore, ReadFormat,
         ReadCopy, Oops, Release, At
<1> QED  BY <1>1, <1>2 DEF Types

LEMMA StepAlone == Types /\ AloneInv /\ [Next]_vars => AloneInv'
<1> SUFFICES ASSUME Types, AloneInv, [Next]_vars PROVE AloneInv'
  OBVIOUS
<1>1. ASSUME NEW r \in Readers, OpenFlag(r) PROVE AloneInv'
  <2> SUFFICES ASSUME NEW q \in Readers, alone'[q], pc'[q] # "closed"
               PROVE  Undisturbed(q)'
    BY DEF AloneInv
  <2>1. CASE q = r
    <3>1. Active = {} /\ pc[r] = "closed"
      BY <1>1, <2>1 DEF OpenFlag, At
    <3>2. /\ pc'[r] = "kmalloc" /\ \A u \in Readers \ {r} : pc'[u] = "closed"
          /\ read_p' = 1 /\ got'[r] = <<>>
      BY <1>1, <3>1 DEF OpenFlag, At, Types, Active
    <3> QED  BY <2>1, <3>2 DEF Undisturbed
  <2>2. CASE q # r
    <3>1. q \in Active
      BY <1>1, <2>2 DEF OpenFlag, At, Types, Active
    <3> QED  BY <1>1, <2>2, <3>1 DEF OpenFlag
  <2> QED  BY <2>1, <2>2
<1>2. ASSUME NEW r \in Readers, Session(r) \/ GiveUp(r) PROVE AloneInv'
  <2> SUFFICES ASSUME NEW q \in Readers, alone[q], pc'[q] # "closed"
               PROVE  Undisturbed(q)'
    BY <1>2, OwnSteps DEF AloneInv
  <2>1. pc[q] # "closed"
    BY <1>2, OwnSteps
  <2>2. Undisturbed(q) /\ r = q
    BY <1>2, <2>1, OwnSteps DEF AloneInv, Undisturbed
  <2>3. \A u \in Readers : pc'[u] # "closed" => u = q
    BY <1>2, <2>2, OwnSteps DEF Undisturbed
  <2> USE DEF Undisturbed, Types, At
  <2>4. CASE OpenBuffer(r)
    BY <2>2, <2>3, <2>4 DEF OpenBuffer
  <2>5. CASE OpenFails(r) \/ Release(r)
    BY <2>2, <2>5 DEF OpenFails, Release
  <2>6. CASE ReadLoad(r)
    BY <2>2, <2>3, <2>6 DEF ReadLoad
  <2>7. CASE ReadStore(r)
    BY <2>2, <2>3, <2>7 DEF ReadStore
  <2>8. CASE ReadFormat(r)
    BY <2>2, <2>3, <2>8 DEF ReadFormat
  <2>9. CASE ReadCopy(r)
    <3>1. got'[r] = Append(<<>>, r) /\ pc'[r] = "open" /\ read_p' = 0 /\ message' = message
      BY <2>2, <2>9, BoundsAssumption DEF ReadCopy
    <3>2. got'[r] = <<r>>
      BY <3>1
    <3>3. pc[q] = "copy" /\ pc'[q] = "open" /\ read_p' = 0 /\ message' \in Buffers
      BY <2>2, <2>9, <3>1 DEF ReadCopy
    <3>4. r = q
      BY <2>2
    <3>5. got'[q] = <<q>>
      BY Zenon, <3>2, <3>4
    <3> HIDE DEF Types
    <3> QED  BY <2>3, <3>3, <3>5
  <2>10. CASE Oops(r)
    BY <2>2, <2>10, ReadersAssumption DEF Oops
  <2> QED  BY <1>2, <2>4, <2>5, <2>6, <2>7, <2>8, <2>9, <2>10 DEF Session, GiveUp
<1>3. CASE UNCHANGED vars
  BY <1>3 DEF vars, AloneInv, Undisturbed
<1> QED  BY <1>1, <1>2, <1>3 DEF Next

LEMMA StepSerial == Types /\ SerialInv /\ [Next]_vars => SerialInv'
<1> SUFFICES ASSUME Types, SerialInv, [Next]_vars, ~overlapped' PROVE SerialInv'
  BY DEF SerialInv
<1> DEFINE Heap == /\ ~misused'
                   /\ used' = IF \E r \in Readers : Open(r)' THEN {message'} ELSE {}
                   /\ \A q, r \in Readers : pc'[q] # "closed" /\ pc'[r] # "closed" => q = r
                   /\ \A r \in Readers : Open(r)' => message' \in Buffers
<1> SUFFICES Heap
  BY DEF SerialInv, SerialHeap
<1>1. ASSUME NEW r \in Readers, OpenFlag(r) PROVE Heap
  <2>1. ~overlapped /\ Active = {}
    BY <1>1 DEF OpenFlag
  <2>2. ~misused /\ used = {}
    BY <2>1 DEF SerialInv, SerialHeap, Active, Open
  <2>3. pc'[r] = "kmalloc" /\ \A u \in Readers \ {r} : pc'[u] = "closed"
    BY <1>1, <2>1 DEF OpenFlag, At, Types, Active
  <2>4. used' = used /\ misused' = misused
    BY <1>1 DEF OpenFlag
  <2> QED  BY <2>2, <2>3, <2>4 DEF Open
<1>2. ASSUME NEW r \in Readers, Session(r) \/ GiveUp(r) PROVE Heap
  <2>1. ~overlapped /\ pc[r] # "closed"
    BY <1>2, OwnSteps
  <2>2. /\ ~misused
        /\ used = IF Open(r) THEN {message} ELSE {}
        /\ \A u \in Readers \ {r} : pc[u] = "closed" /\ pc'[u] = "closed"
        /\ Open(r) => message \in Buffers
    <3>1. \A u \in Readers \ {r} : pc[u] = "closed" /\ pc'[u] = "closed"
      BY <1>2, <2>1, OwnSteps DEF SerialInv
    <3> QED  BY <2>1, <3>1 DEF SerialInv, SerialHeap, Open
  <2>3. ASSUME ~misused', used' = IF Open(r)' THEN {message'} ELSE {},
               Open(r)' => message' \in Buffers
        PROVE  Heap
    BY <2>2, <2>3 DEF Open
  <2> HIDE DEF Heap
  <2> USE DEF Types, At, Open
  <2>4. CASE OpenBuffer(r)
    BY <2>2, <2>3, <2>4 DEF OpenBuffer
  <2>5. CASE OpenFails(r)
    BY <2>2, <2>3, <2>5 DEF OpenFails
  <2>6. CASE ReadLoad(r)
    BY <2>2, <2>3, <2>6 DEF ReadLoad
  <2>7. CASE ReadStore(r)
    BY <2>2, <2>3, <2>7 DEF ReadStore
  <2>8. CASE ReadFormat(r) \/ ReadCopy(r)
    BY <2>2, <2>3, <2>8 DEF ReadFormat, ReadCopy
  <2>9. CASE Oops(r)
    BY <2>2, <2>9, ReadersAssumption DEF Oops
  <2>10. CASE Release(r)
    BY <2>2, <2>3, <2>10 DEF Release
  <2> QED  BY <1>2, <2>4, <2>5, <2>6, <2>7, <2>8, <2>9, <2>10 DEF Session, GiveUp
<1>3. CASE UNCHANGED vars
  BY <1>3 DEF vars, SerialInv, SerialHeap, Open
<1> QED  BY <1>1, <1>2, <1>3 DEF Next

\* What the sessions of all readers keep up together.
THEOREM SessionInvariance == Spec => []PInv
<1>1. PInv /\ [Next]_vars => PInv'
  BY StepTypes, StepHistoryTypes, StepAlone, StepSerial DEF PInv
<1> QED  BY <1>1, InitPInv, PTL DEF Spec

\* Every variable of elevator_proc_open, _read and _release has its type.
THEOREM SessionTypes == Spec => []TypeOK
<1>1. PInv => TypeOK
  <2> SUFFICES ASSUME PInv PROVE TypeOK
    OBVIOUS
  <2>1. \A r \in Readers : \A k \in DOMAIN got[r] : got[r][k] \in Texts
    BY ElementOfSeq, LenProperties DEF PInv, Types
  <2> QED  BY <2>1 DEF PInv, Types, HistoryTypes, TypeOK, Texts
<1> QED  BY <1>1, SessionInvariance, PTL

\* A reader that is alone gets one text, his own, whatever others have left behind.
THEOREM AloneReads == Spec => []AloneGetsText
<1>1. PInv => AloneGetsText
  BY DEF PInv, AloneInv, Undisturbed, AloneGetsText
<1> QED  BY <1>1, SessionInvariance, PTL

\* Opens that do not overlap allocate, use and free one buffer each.
THEOREM SerialBuffers == Spec => []SerialHeap
<1>1. PInv => SerialHeap
  BY DEF PInv, SerialInv, SerialHeap
<1> QED  BY <1>1, SessionInvariance, PTL

=============================================================================
