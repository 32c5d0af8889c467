----------------------------- MODULE MCProcFile -----------------------------
(* What /proc/elevator should do for those who read it. *)
EXTENDS ProcFile

TypeOK ==
  /\ message \in Buffers \cup {NULL} /\ read_p \in {0, 1}
  /\ used \subseteq Buffers /\ text \in [Buffers -> Readers \cup {NULL}]
  /\ pc \in [Readers -> {"closed", "kmalloc", "open", "toggle", "eof", "format", "copy"}]
  /\ toggled \in [Readers -> {0, 1}]
  /\ \A r \in Readers : \A k \in DOMAIN got[r] : got[r][k] \in Readers \cup {NULL}
  /\ opens \in [Readers -> 0 .. MaxOpens]
  /\ alone \in [Readers -> BOOLEAN] /\ overlapped \in BOOLEAN /\ misused \in BOOLEAN

\* Whoever reads the file to its end with nobody else at it gets one text, his
\* own, whatever earlier readers have left in read_p and message: readers that
\* gave up, that overlapped, or whose open failed.
AloneGetsText ==
  \A r \in Readers : alone[r] /\ pc[r] = "eof" => got[r] = <<r>>

\* As long as no two opens have overlapped, a buffer is in use exactly while the
\* file is open, it is the one in message, and no buffer is misused.
Open(r) == pc[r] \in {"open", "toggle", "eof", "format", "copy"}

SerialHeap ==
  ~overlapped
    => /\ ~misused
       /\ used = IF \E r \in Readers : Open(r) THEN {message} ELSE {}

\* However many read at the same time and take each other's turns of read_p,
\* every one of them comes to the end of the file.
EveryReaderEnds == \A r \in Readers : (pc[r] = "open") ~> (pc[r] = "closed")

=============================================================================
