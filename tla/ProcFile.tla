------------------------------ MODULE ProcFile ------------------------------
(***************************************************************************)
(* /proc/elevator: open, read and release of src/elevator_proc.c, called   *)
(* by processes that read the file until it ends or give up before.  All   *)
(* opens share one buffer, message, and one flag, read_p, and no lock.     *)
(*                                                                         *)
(* A step is one access to message or read_p with what follows from it.    *)
(* The text is abstracted to the process that has formatted it.            *)
(***************************************************************************)
EXTENDS Naturals, Sequences, FiniteSets

CONSTANTS
  Readers,      \* processes that read the file
  Buffers,      \* what kmalloc can return
  NULL,
  MaxTexts,     \* bound: number of texts that are remembered
  MaxOpens,     \* bound: number of times that a process opens the file
  KmallocFails  \* whether kmalloc may return NULL with memory left

ASSUME ReadersAssumption == IsFiniteSet(Buffers) /\ NULL \notin Buffers
ASSUME BoundsAssumption  == MaxTexts \in Nat \ {0} /\ MaxOpens \in Nat /\ KmallocFails \in BOOLEAN

VARIABLES
  message, read_p,
  used,    \* the buffers that kmalloc has given out and nobody has freed
  text,    \* text[b]: who has formatted what is in buffer b, NULL if nobody
  pc,      \* pc[r]: where process r is
  toggled, \* toggled[r]: the value of !read_p that r has computed
  got,     \* got[r]: the first texts that the reads of this open have returned
  opens,   \* opens[r]: how often r has opened the file
  \* history
  alone,   \* alone[r]: nobody else has had the file open during this open of r
  overlapped, \* whether two opens have ever been in use together
  misused  \* whether a buffer has been used or freed that was not given out

vars == <<message, read_p, used, text, pc, toggled, got, opens, alone, overlapped, misused>>

Init ==
  /\ message = NULL /\ read_p = 0
  /\ used = {} /\ text = [b \in Buffers |-> NULL]
  /\ pc = [r \in Readers |-> "closed"]
  /\ toggled = [r \in Readers |-> 0]
  /\ got = [r \in Readers |-> <<>>]
  /\ opens = [r \in Readers |-> 0]
  /\ alone = [r \in Readers |-> FALSE]
  /\ overlapped = FALSE /\ misused = FALSE

Active == {r \in Readers : pc[r] # "closed"}

At(r, from, to) == pc[r] = from /\ pc' = [pc EXCEPT ![r] = to]

-----------------------------------------------------------------------------
(* open *)

\* Slip: read_p is not reset.
Slip_OpenFlag(r) ==
  /\ At(r, "closed", "kmalloc")
  /\ opens[r] < MaxOpens /\ opens' = [opens EXCEPT ![r] = @ + 1]
  /\ got' = [got EXCEPT ![r] = <<>>]
  /\ alone' = [q \in Readers |-> IF q = r THEN Active = {} ELSE alone[q] /\ q \notin Active]
  /\ overlapped' = (overlapped \/ Active # {})
  /\ UNCHANGED <<message, read_p, used, text, toggled, misused>>

OpenFlag(r) ==
  /\ At(r, "closed", "kmalloc")
  /\ read_p' = 1
  /\ opens[r] < MaxOpens /\ opens' = [opens EXCEPT ![r] = @ + 1]
  /\ got' = [got EXCEPT ![r] = <<>>]
  /\ alone' = [q \in Readers |-> IF q = r THEN Active = {} ELSE alone[q] /\ q \notin Active]
  /\ overlapped' = (overlapped \/ Active # {})
  /\ UNCHANGED <<message, used, text, toggled, misused>>

OpenBuffer(r) ==
  /\ At(r, "kmalloc", "open")
  /\ \E b \in Buffers \ used :
       /\ message' = b
       /\ used' = used \cup {b}
       /\ text' = [text EXCEPT ![b] = NULL]
  /\ UNCHANGED <<read_p, toggled, got, opens, alone, overlapped, misused>>

\* open returns -ENOMEM; the file is not open, and there is no release.
OpenFails(r) ==
  /\ At(r, "kmalloc", "closed")
  /\ KmallocFails \/ Buffers \subseteq used
  /\ message' = NULL
  /\ UNCHANGED <<read_p, used, text, toggled, got, opens, alone, overlapped, misused>>

-----------------------------------------------------------------------------
(* read *)

\* Slip: read_p counts the reads.
Slip_ReadLoad(r) ==
  /\ At(r, "open", "toggle")
  /\ toggled' = [toggled EXCEPT ![r] = read_p + 1]
  /\ UNCHANGED <<message, read_p, used, text, got, opens, alone, overlapped, misused>>

ReadLoad(r) ==
  /\ At(r, "open", "toggle")
  /\ toggled' = [toggled EXCEPT ![r] = 1 - read_p]
  /\ UNCHANGED <<message, read_p, used, text, got, opens, alone, overlapped, misused>>

\* Slip: the new value is tested and not stored.
Slip_ReadStore(r) ==
  /\ At(r, "toggle", IF toggled[r] = 1 THEN "eof" ELSE "format")
  /\ UNCHANGED <<message, read_p, used, text, toggled, got, opens, alone, overlapped, misused>>

\* The read returns 0, or goes on to make the text.
ReadStore(r) ==
  /\ At(r, "toggle", IF toggled[r] = 1 THEN "eof" ELSE "format")
  /\ read_p' = toggled[r]
  /\ UNCHANGED <<message, used, text, toggled, got, opens, alone, overlapped, misused>>

\* sprintf and strcat.
ReadFormat(r) ==
  /\ message # NULL
  /\ At(r, "format", "copy")
  /\ text' = [text EXCEPT ![message] = r]
  /\ misused' = (misused \/ message \notin used)
  /\ UNCHANGED <<message, read_p, used, toggled, got, opens, alone, overlapped>>

\* strlen and copy_to_user.
ReadCopy(r) ==
  /\ message # NULL
  /\ At(r, "copy", "open")
  /\ got' = [got EXCEPT ![r] = IF Len(@) < MaxTexts THEN Append(@, text[message]) ELSE @]
  /\ misused' = (misused \/ message \notin used)
  /\ UNCHANGED <<message, read_p, used, text, toggled, opens, alone, overlapped>>

\* Another open has failed and left NULL in message: the kernel kills the
\* process, which closes its files.
Oops(r) ==
  /\ message = NULL
  /\ At(r, "format", "eof") \/ At(r, "copy", "eof")
  /\ misused' = TRUE
  /\ UNCHANGED <<message, read_p, used, text, toggled, got, opens, alone, overlapped>>

-----------------------------------------------------------------------------
(* release, at the end of the file or when the process gives up *)

\* Slip: nothing is freed.
Slip_Release(r) ==
  /\ At(r, "open", "closed") \/ At(r, "eof", "closed")
  /\ UNCHANGED <<message, read_p, used, text, toggled, got, opens, alone, overlapped, misused>>

Release(r) ==
  /\ At(r, "open", "closed") \/ At(r, "eof", "closed")
  /\ used' = used \ {message}
  /\ misused' = (misused \/ message \in Buffers \ used)
  /\ UNCHANGED <<message, read_p, text, toggled, got, opens, alone, overlapped>>

Session(r) == \/ OpenBuffer(r) \/ OpenFails(r)
              \/ ReadLoad(r) \/ ReadStore(r) \/ ReadFormat(r) \/ ReadCopy(r) \/ Oops(r)
              \/ pc[r] = "eof" /\ Release(r)

GiveUp(r) == pc[r] = "open" /\ Release(r)

Next == \E r \in Readers : OpenFlag(r) \/ Session(r) \/ GiveUp(r)

Spec == Init /\ [][Next]_vars

\* A process that has the file open reads on until a read returns 0, as cat
\* does, or gives up; nobody has to open the file.
FairSpec == Spec /\ \A r \in Readers : WF_vars(Session(r))

=============================================================================
