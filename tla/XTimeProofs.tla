---------------------------- MODULE XTimeProofs ----------------------------
(***************************************************************************)
(* Proofs of the properties of module XTime for every width of an int,     *)
(* every number of nanoseconds in a second and every clock.                *)
(***************************************************************************)
EXTENDS XTime, SequenceTheorems, TLAPS

-----------------------------------------------------------------------------
(* Remainders *)

\* What % and \div return.
LEMMA Division ==
  ASSUME NEW a \in Int, NEW n \in Nat, n > 0
  PROVE  a % n \in 0 .. n - 1 /\ a \div n \in Int /\ a = n * (a \div n) + (a % n)
  BY Z3

\* Only 0 times n lies between -n and n.
LEMMA SmallMultiple ==
  ASSUME NEW n \in Nat, n > 0, NEW d \in Int, NEW e \in Int, n * d = e, -n < e, e < n
  PROVE  d = 0
<1>1. CASE d >= 1
  <2>1. n * d >= n  BY <1>1, Z3
  <2> QED  BY <2>1
<1>2. CASE d <= -1
  <2>1. n * d <= -n  BY <1>2, Z3
  <2> QED  BY <2>1
<1> QED  BY <1>1, <1>2

\* A remainder is determined by its quotient.
LEMMA Remainder ==
  ASSUME NEW n \in Nat, n > 0, NEW q \in Int, NEW r \in 0 .. n - 1
  PROVE  (n * q + r) % n = r
<1> DEFINE a == n * q + r
           p == a \div n
           m == a % n
<1>1. a \in Int  BY Z3
<1>2. m \in 0 .. n - 1 /\ p \in Int /\ n * q + r = n * p + m  BY <1>1, Division
<1> HIDE DEF a, p, m
<1>3. n * (q - p) = n * q - n * p  BY <1>2, Z3
<1>4. n * q \in Int /\ n * p \in Int  BY <1>2, Z3
<1>5. n * (q - p) = m - r  BY <1>2, <1>3, <1>4
<1>6. q - p = 0  BY <1>2, <1>5, SmallMultiple
<1>7. m = r  BY <1>2, <1>5, <1>6, Z3
<1> QED  BY <1>7 DEF a, m

\* The seconds kept in an int give the right difference, as long as that fits
\* into an int: the wrap of old_sec cancels that of elapsec.
LEMMA WrapCancels ==
  ASSUME NEW s \in Int, NEW t \in Int, NEW b \in {0, 1},
         t - s - b \in -HalfInt .. HalfInt - 1
  PROVE  int(s) \in -HalfInt .. HalfInt - 1 /\ int(t - int(s) - b) = t - s - b
<1> DEFINE n == 2 * HalfInt
           p == (s + HalfInt) \div n
           m == (s + HalfInt) % n
           x == t - s - b
<1>1. n \in Nat /\ n > 0 /\ HalfInt \in Nat  BY TimeAssumption
<1>2. m \in 0 .. n - 1 /\ p \in Int /\ s + HalfInt = n * p + m
  BY <1>1, Division
<1>3. int(s) = m - HalfInt  BY DEF int
<1>4. n * p \in Int  BY <1>1, <1>2, Z3
<1>5. x + HalfInt \in 0 .. n - 1 /\ x \in Int  BY <1>1
<1>6. t - int(s) - b + HalfInt = n * p + (x + HalfInt)
  <2> HIDE DEF m, p, n
  <2> QED  BY <1>1, <1>2, <1>3, <1>4, <1>5 DEF x
<1>7. (n * p + (x + HalfInt)) % n = x + HalfInt
  <2> HIDE DEF m, p, n, x
  <2> QED  BY <1>1, <1>2, <1>5, Remainder
<1>8. int(t - int(s) - b) = ((t - int(s) - b + HalfInt) % n) - HalfInt
  BY DEF int
<1> QED
  <2> HIDE DEF p, x
  <2>1. int(t - int(s) - b) = x
    <3> HIDE DEF n, m
    <3> QED  BY <1>1, <1>5, <1>6, <1>7, <1>8
  <2> QED  BY <1>1, <1>2, <1>3, <2>1 DEF x

-----------------------------------------------------------------------------
(* The inductive invariant *)

\* What is kept of the last read.
Kept ==
  IF last = None THEN old_nsec = 0
  ELSE /\ old_sec = int(last.sec) /\ old_nsec = last.nsec
       /\ time.sec - last.sec \in -MaxStep .. MaxStep

Text == [current : Times, elapsed : [sec : Int, nsec : Int]]

Inv == TypeOK /\ Kept /\ shown \in Seq(Text)

\* No time of the clock is None.
LEMMA NoneIsNoTime == None \notin Times
  BY TimeAssumption DEF None, Times

LEMMA IntIsInt ==
  ASSUME NEW s \in Int PROVE int(s) \in -HalfInt .. HalfInt - 1
<1>1. HalfInt \in Nat /\ 2 * HalfInt \in Nat /\ 2 * HalfInt > 0
  BY TimeAssumption
<1>2. (s + HalfInt) % (2 * HalfInt) \in 0 .. 2 * HalfInt - 1
  BY <1>1, Division
<1> QED  BY <1>1, <1>2 DEF int

\* With a last read, Elapsed is the time since then.
LEMMA ElapsedIsDifference ==
  ASSUME Inv, last # None
  PROVE  /\ Elapsed \in [sec : Int, nsec : 0 .. Billion - 1]
         /\ nanoseconds(Elapsed) = nanoseconds(time) - nanoseconds(last)
<1> DEFINE b == IF old_nsec > time.nsec THEN 1 ELSE 0
<1>1. /\ time.sec \in Int /\ last.sec \in Int
      /\ time.nsec \in 0 .. Billion - 1 /\ last.nsec \in 0 .. Billion - 1
      /\ Billion \in Nat /\ HalfInt \in Nat
  BY TimeAssumption DEF Inv, TypeOK, Times
<1>2. old_sec = int(last.sec) /\ old_nsec = last.nsec
      /\ time.sec - last.sec \in -MaxStep .. MaxStep
  BY DEF Inv, Kept
<1>3. time.sec - last.sec - b \in -HalfInt .. HalfInt - 1
  BY <1>1, <1>2, StepAssumption
<1>4. int(time.sec - old_sec - b) = time.sec - last.sec - b
  BY <1>1, <1>2, <1>3, WrapCancels
<1>5. Elapsed = [sec  |-> time.sec - last.sec - b,
                 nsec |-> time.nsec - last.nsec + (IF b = 1 THEN Billion ELSE 0)]
  <2>1. old_sec \in Int  BY TimeAssumption DEF Inv, TypeOK
  <2>2. time.sec - old_sec - 0 = time.sec - old_sec  BY <1>1, <2>1
  <2>3. time.sec - last.sec - 0 = time.sec - last.sec  BY <1>1
  <2>4. CASE old_nsec > time.nsec
    BY <2>4, <1>2, <1>4 DEF Elapsed
  <2>5. CASE ~(old_nsec > time.nsec)
    BY <2>5, <1>1, <1>2, <1>4, <2>2, <2>3 DEF Elapsed
  <2> QED  BY <2>4, <2>5
<1>6. Elapsed \in [sec : Int, nsec : 0 .. Billion - 1]
  BY <1>1, <1>2, <1>5
<1>7. nanoseconds(Elapsed) = nanoseconds(time) - nanoseconds(last)
  <2> DEFINE T == time.sec
             L == last.sec
  <2>1. (T - L - b) * Billion = T * Billion - L * Billion - b * Billion
        /\ T * Billion \in Int /\ L * Billion \in Int
    BY <1>1, Z3
  <2>2. b * Billion = IF b = 1 THEN Billion ELSE 0
    BY <1>1
  <2> HIDE DEF T, L
  <2>3. (T - L - b) * Billion + (time.nsec - last.nsec + (IF b = 1 THEN Billion ELSE 0))
        = (T * Billion + time.nsec) - (L * Billion + last.nsec)
    BY <1>1, <2>1, <2>2
  <2> QED  BY <1>5, <2>3 DEF nanoseconds, T, L
<1> QED  BY <1>6, <1>7

\* What a read adds to shown.
LEMMA ShownByRead ==
  ASSUME Inv, Read, NEW k \in DOMAIN shown' \ DOMAIN shown
  PROVE  shown'[k] = [current |-> time, elapsed |-> IF hasOld THEN Elapsed ELSE None]
<1>1. shown \in Seq(Text)  BY DEF Inv
<1> QED  BY <1>1 DEF Read

LEMMA ReadElapsed ==
  ASSUME Inv
  PROVE  /\ hasOld <=> last # None /\ last.nsec # 0
         /\ hasOld => /\ last # None
                      /\ Elapsed \in [sec : Int, nsec : 0 .. Billion - 1]
                      /\ Elapsed # None
                      /\ nanoseconds(Elapsed) = nanoseconds(time) - nanoseconds(last)
<1>1. hasOld <=> last # None /\ last.nsec # 0
  BY DEF Inv, Kept, hasOld
<1>2. ASSUME hasOld PROVE Elapsed # None
  <2>1. Elapsed.nsec \in 0 .. Billion - 1  BY <1>1, <1>2, ElapsedIsDifference
  <2>2. None.nsec = -1  BY DEF None
  <2> QED  BY <2>1, <2>2, TimeAssumption
<1> QED  BY <1>1, <1>2, ElapsedIsDifference

LEMMA InitInv == Init => Inv
  BY TimeAssumption, EmptySeq DEF Init, Inv, TypeOK, Kept, None, Text, Times

LEMMA NextInv == Inv /\ [Next]_vars => Inv'
<1> SUFFICES ASSUME Inv, [Next]_vars PROVE Inv'
  OBVIOUS
<1>1. CASE Open
  <2>1. TypeOK'  BY <1>1 DEF Open, Inv, TypeOK
  <2>2. Kept'  BY <1>1 DEF Open, Inv, Kept
  <2>3. shown' \in Seq(Text)  BY <1>1, EmptySeq DEF Open
  <2> QED  BY <2>1, <2>2, <2>3 DEF Inv
<1>2. CASE Read
  <2>1. time \in Times /\ time.sec \in Int /\ time.nsec \in 0 .. Billion - 1 /\ rp1 \in {0, 1}
    BY TimeAssumption DEF Inv, TypeOK, Times
  <2>2. /\ old_sec' = int(time.sec) /\ old_nsec' = time.nsec /\ last' = time /\ time' = time
        /\ rp1' \in {0, 1} /\ pc' \in {"open", "eof"}
    BY <1>2, <2>1 DEF Read, Remember, Toggle
  <2>3. TypeOK'  BY <2>1, <2>2, IntIsInt DEF TypeOK
  <2>4. Kept'
    <3>1. last' # None  BY <2>1, <2>2, NoneIsNoTime
    <3>2. time.sec - time.sec \in -MaxStep .. MaxStep  BY <2>1, StepAssumption
    <3> QED  BY <2>2, <3>1, <3>2 DEF Kept
  <2>5. shown' \in Seq(Text)
    <3>1. None \in [sec : Int, nsec : Int]  BY TimeAssumption DEF None
    <3>2. (IF hasOld THEN Elapsed ELSE None) \in [sec : Int, nsec : Int]
      BY <3>1, ReadElapsed, TimeAssumption
    <3>3. [current |-> time, elapsed |-> IF hasOld THEN Elapsed ELSE None] \in Text
      BY <2>1, <3>2 DEF Text
    <3>4. shown \in Seq(Text)  BY DEF Inv
    <3> QED  BY <1>2, <3>3, <3>4, AppendProperties DEF Read
  <2> QED  BY <2>3, <2>4, <2>5 DEF Inv
<1>3. CASE Release
  BY <1>3 DEF Release, Inv, TypeOK, Kept
<1>4. CASE Tick
  <2>1. TypeOK'  BY <1>4 DEF Tick, Inv, TypeOK
  <2>2. Kept'  BY <1>4 DEF Tick, Inv, Kept
  <2>3. shown' \in Seq(Text)  BY <1>4 DEF Tick, Inv
  <2> QED  BY <2>1, <2>2, <2>3 DEF Inv
<1>5. CASE UNCHANGED vars
  BY <1>5 DEF vars, Inv, TypeOK, Kept
<1> QED  BY <1>1, <1>2, <1>3, <1>4, <1>5 DEF Next

\* Only a read adds to shown.
LEMMA OnlyReadShows ==
  ASSUME Inv, [Next]_vars, NEW k \in DOMAIN shown' \ DOMAIN shown
  PROVE  Read
<1>1. CASE Open
  <2>1. DOMAIN shown' = {}  BY <1>1 DEF Open
  <2> QED  BY <2>1
<1> QED  BY <1>1 DEF Next, Release, Tick, vars

-----------------------------------------------------------------------------

\* The invariant holds in every reachable state.
THEOREM Invariance == Spec => []Inv
  BY InitInv, NextInv, PTL DEF Spec

\* old_sec, old_nsec and the clock keep their types: old_sec is an int
\* whatever the clock says.
THEOREM TimeTypeCorrect == Spec => []TypeOK
<1>1. Inv => TypeOK  BY DEF Inv
<1> QED  BY <1>1, Invariance, PTL

\* The elapsed time printed by my_xtime_read_proc is the time since the last
\* read: the borrow and the wrap of the seconds in an int are right.
THEOREM ElapsedCorrect == Spec => ElapsedExact
<1>1. ASSUME Inv, [Next]_vars
      PROVE  \A k \in DOMAIN shown' \ DOMAIN shown :
               LET e == shown'[k].elapsed IN
                 e # None => /\ last # None
                             /\ nanoseconds(e) = nanoseconds(shown'[k].current) - nanoseconds(last)
                             /\ e.nsec \in 0 .. Billion - 1
  <2> TAKE k \in DOMAIN shown' \ DOMAIN shown
  <2>1. Read  BY <1>1, OnlyReadShows
  <2>2. shown'[k] = [current |-> time, elapsed |-> IF hasOld THEN Elapsed ELSE None]
    BY <1>1, <2>1, ShownByRead
  <2>3. CASE hasOld
    BY <1>1, <2>2, <2>3, ReadElapsed
  <2>4. CASE ~hasOld
    BY <2>2, <2>4
  <2> QED  BY <2>3, <2>4
<1> QED  BY <1>1, Invariance, PTL DEF Spec, ElapsedExact

\* The elapsed time is missing exactly from the first text and from one whose
\* last read fell on the start of a second.
THEOREM DifferenceMissingOnlyAtZero == Spec => DifferenceMissing
<1>1. ASSUME Inv, [Next]_vars
      PROVE  \A k \in DOMAIN shown' \ DOMAIN shown :
               shown'[k].elapsed = None <=> last = None \/ last.nsec = 0
  <2> TAKE k \in DOMAIN shown' \ DOMAIN shown
  <2>1. Read  BY <1>1, OnlyReadShows
  <2>2. shown'[k].elapsed = IF hasOld THEN Elapsed ELSE None
    BY <1>1, <2>1, ShownByRead
  <2> QED  BY <1>1, <2>2, ReadElapsed
<1> QED  BY <1>1, Invariance, PTL DEF Spec, DifferenceMissing

\* The flag and the texts of the open that is in use.
Turn ==
  /\ pc = "open" => \/ rp1 = 1 /\ Len(shown) = 0
                    \/ rp1 = 0 /\ Len(shown) = 1
  /\ pc = "eof" => Len(shown) = 1

LEMMA NextTurn == Inv /\ Turn /\ [Next]_vars => Turn'
<1> SUFFICES ASSUME Inv, Turn, [Next]_vars PROVE Turn'
  OBVIOUS
<1>1. CASE Open
  BY <1>1, EmptySeq DEF Open, Turn
<1>2. CASE Read
  <2>1. shown \in Seq(Text) /\ Len(shown) \in Nat  BY LenProperties DEF Inv
  <2>2. CASE rp1 = 0
    BY <1>2, <2>1, <2>2 DEF Read, Toggle, Turn
  <2>3. CASE rp1 = 1
    <3>1. Len(shown) = 0 /\ rp1' = 0 /\ pc' = "open"
      BY <1>2, <2>3 DEF Read, Toggle, Turn
    <3>2. Len(shown') = 1
      BY <1>2, <2>1, <3>1 DEF Read
    <3> QED  BY <3>1, <3>2 DEF Turn
  <2> QED  BY <2>2, <2>3 DEF Inv, TypeOK
<1>3. CASE Release
  BY <1>3 DEF Release, Turn
<1>4. CASE Tick
  BY <1>4 DEF Tick, Turn
<1>5. CASE UNCHANGED vars
  BY <1>5 DEF vars, Turn
<1> QED  BY <1>1, <1>2, <1>3, <1>4, <1>5 DEF Next

\* A process that reads the file to its end gets one text, whatever those
\* before it have left in rp1.
THEOREM OneTextEach == Spec => []OneText
<1>1. Init => Turn
  BY DEF Init, Turn
<1>2. Turn => OneText
  BY DEF Turn, OneText
<1> QED  BY <1>1, <1>2, NextTurn, Invariance, PTL DEF Spec

=============================================================================
