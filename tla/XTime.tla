------------------------------- MODULE XTime -------------------------------
(***************************************************************************)
(* /proc/my_xtime, src/my_xtime.c, read by one process at a time, each of  *)
(* which reads until the file ends or gives up before.  The kernel's clock *)
(* goes on, or is set, between any two calls.                              *)
(*                                                                         *)
(* tv_sec is a long, old_sec and elapsec are ints: the model gives an int  *)
(* 2 * HalfInt values and the clock as many seconds as MaxSec says.        *)
(***************************************************************************)
EXTENDS Integers, Sequences

CONSTANTS
  Billion,     \* nanoseconds in a second, the literal 1000000000
  HalfInt,     \* 2^31 of an int
  MaxSec,      \* bound: the seconds of the clock
  MaxStep      \* how many seconds two successive reads may be apart

ASSUME TimeAssumption ==
  /\ Billion \in Nat /\ Billion >= 2
  /\ HalfInt \in Nat /\ HalfInt >= 1
  /\ MaxSec \in Nat
\* Nobody waits 68 years.
ASSUME StepAssumption == MaxStep \in Nat /\ MaxStep < HalfInt

\* No time has been read, or no elapsed time printed.
None == [sec |-> -HalfInt - 1, nsec |-> -1]

Times == [sec : 0 .. MaxSec, nsec : 0 .. Billion - 1]

VARIABLES
  time,      \* what current_kernel_time returns
  old_sec, old_nsec, rp1,
  pc,        \* "closed", "open", or "eof" when a read has returned 0
  shown,     \* the times returned to the process since it opened the file:
             \* the current time and the elapsed time, each as two numbers
  last       \* history: the time at the last read

vars == <<time, old_sec, old_nsec, rp1, pc, shown, last>>

\* Slip: an unsigned int.
Slip_int(n) == n % (2 * HalfInt)

\* What an int holds when a long is assigned to it.
int(n) == ((n + HalfInt) % (2 * HalfInt)) - HalfInt

\* Slip: the second that is borrowed is not taken off.
Slip_Elapsed ==
  IF old_nsec > time.nsec
  THEN [sec |-> int(time.sec - old_sec), nsec |-> time.nsec - old_nsec + Billion]
  ELSE [sec |-> int(time.sec - old_sec), nsec |-> time.nsec - old_nsec]

\* elapsec and elapnsec.
Elapsed ==
  IF old_nsec > time.nsec
  THEN [sec |-> int(time.sec - old_sec - 1), nsec |-> time.nsec - old_nsec + Billion]
  ELSE [sec |-> int(time.sec - old_sec), nsec |-> time.nsec - old_nsec]

Init ==
  /\ time \in Times
  /\ old_sec = 0 /\ old_nsec = 0 /\ rp1 = 0
  /\ pc = "closed" /\ shown = <<>> /\ last = None

\* open; when kmalloc fails it sets rp1 and nothing else.
Open ==
  /\ pc = "closed"
  /\ rp1' = 1
  /\ pc' \in {"open", "closed"}
  /\ shown' = <<>>
  /\ UNCHANGED <<time, old_sec, old_nsec, last>>

\* Slip: the time is recorded only by a read that returns a text.
Slip_Remember ==
  IF rp1 = 1 THEN old_sec' = int(time.sec) /\ old_nsec' = time.nsec
             ELSE UNCHANGED <<old_sec, old_nsec>>

\* "prepare for next call".
Remember == old_sec' = int(time.sec) /\ old_nsec' = time.nsec

\* Slip: no elapsed time when the nanoseconds are fewer than they were.
Slip_hasOld == old_nsec # 0 /\ old_nsec <= time.nsec

\* "there is an elapsed time".
hasOld == old_nsec # 0

\* Slip: the text is returned by the other one of two reads.
Slip_Toggle == rp1' = 1 - rp1 /\ pc' = IF rp1 = 1 THEN "eof" ELSE "open"

\* "loops until you return 0".
Toggle == rp1' = 1 - rp1 /\ pc' = IF rp1 = 0 THEN "eof" ELSE "open"

Read ==
  /\ pc = "open"
  /\ Remember /\ Toggle
  /\ shown' = IF pc' = "eof" THEN shown
              ELSE Append(shown, [current |-> time,
                                  elapsed |-> IF hasOld THEN Elapsed ELSE None])
  /\ last' = time
  /\ UNCHANGED time

Release ==
  /\ pc \in {"open", "eof"} /\ pc' = "closed"
  /\ UNCHANGED <<time, old_sec, old_nsec, rp1, shown, last>>

\* Time passes, or somebody sets the clock.
Tick ==
  /\ time' \in Times
  /\ last # None => time'.sec - last.sec \in -MaxStep .. MaxStep
  /\ UNCHANGED <<old_sec, old_nsec, rp1, pc, shown, last>>

Next == Open \/ Read \/ Release \/ Tick

Spec == Init /\ [][Next]_vars

-----------------------------------------------------------------------------
(* Properties *)

TypeOK ==
  /\ time \in Times
  /\ old_sec \in -HalfInt .. HalfInt - 1 /\ old_nsec \in 0 .. Billion - 1
  /\ rp1 \in {0, 1} /\ pc \in {"closed", "open", "eof"}
  /\ last \in Times \cup {None}

nanoseconds(t) == t.sec * Billion + t.nsec

\* The elapsed time that is printed is the time since the last read, with less
\* than a second of nanoseconds, also when a second is borrowed, when the clock
\* was set back, and when the seconds no longer fit into old_sec.
ElapsedExact ==
  [][\A k \in DOMAIN shown' \ DOMAIN shown :
       LET e == shown'[k].elapsed IN
         e # None => /\ last # None
                     /\ nanoseconds(e) = nanoseconds(shown'[k].current) - nanoseconds(last)
                     /\ e.nsec \in 0 .. Billion - 1]_vars

\* README.md line 12, "prints time and time difference": the difference is
\* missing only from the first text of all, and where the read before fell on
\* the start of a second, whose 0 the code takes for no earlier reading.
DifferenceMissing ==
  [][\A k \in DOMAIN shown' \ DOMAIN shown :
       shown'[k].elapsed = None <=> last = None \/ last.nsec = 0]_vars

\* Whoever reads to the end gets one text, whatever earlier readers that gave
\* up have left in rp1.
OneText == pc = "eof" => Len(shown) = 1

=============================================================================
