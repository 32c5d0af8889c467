------------------------------- MODULE MCDraft -------------------------------
(* What calls of the draft's functions get that do not overlap. *)
EXTENDS Draft, TLC

Symmetry == Permutations(Requests)

TypeOK ==
  /\ load \in {"out", "stubs", "write", "live", "dead", "gone"}
  /\ e1 \in BOOLEAN /\ state \in {"OFFLINE", "IDLE"} /\ started \in {0, 1}
  /\ \A f \in Floors : ToSet(allfloors[f]) \subseteq Requests
  /\ ready \subseteq Floors /\ start_floor \in [Requests -> Floors]
  /\ {new_passenger, message_2} \subseteq Requests \cup {Null}
  /\ read_p \in {0, 1}
  /\ i \in 1 .. lastfloor + 1 /\ heap \subseteq Requests
  /\ met \subseteq {"overlap", "early", "no memory", "misused"}

\* As long as no two calls overlap and there is memory, a floor has exactly the
\* passengers whose requests for that floor were accepted since start_elevator
\* came last, each once and with his own floor.
SerialFloors ==
  met \cap {"overlap", "no memory"} = {} /\ Busy = {} =>
    \A f \in Floors :
      /\ ToSet(allfloors[f]) = {q \in standing : ask[q] = f}
      /\ IsInjective(allfloors[f])
      /\ \A q \in ToSet(allfloors[f]) : start_floor[q] = f

\* Calls that do not overlap, come after the first start and find memory never
\* meet a null pointer, and free once what they allocate.
SerialCallsSurvive ==
  met \cap {"overlap", "early", "no memory"} = {} =>
    /\ met = {}
    /\ \A t \in Threads : pc[t] # "dead"
    /\ Busy = {} => heap = {}

\* An elevator that counts as started has all its lists: requests that come
\* while start_elevator goes through the floors set back the variable of its
\* loop, but never make it leave one out.
ListsBeforeStarted == started = 1 => ready = Floors

=============================================================================
