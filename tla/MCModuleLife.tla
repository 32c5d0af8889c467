---------------------------- MODULE MCModuleLife -----------------------------
(* What loading and unloading should leave, whoever calls meanwhile. *)
EXTENDS ModuleLife, TLC

Symmetry == Permutations(Callers)

TypeOK ==
  /\ load \in Initialising \cup Exiting \cup {"out", "live"}
  /\ stub \subseteq Calls /\ entry \in BOOLEAN
  /\ thread \in {"none", "look", "sleep", "drain", "idle", "serve", "dead", "ended"}
  /\ started \in {0, 1} /\ state \in {"OFFLINE", "IDLE", "UP"}
  /\ ready \subseteq Lists /\ waiting \subseteq ready
  /\ aboard \in BOOLEAN
  /\ {i, mine} \subseteq 1 .. lastfloor + 1
  /\ pc \in [Callers -> {"user", "start", "start_state", "start_started",
                         "stop", "stop_state", "stop_started",
                         "add", "print", "floor", "store", "dead", "lost"}]
  /\ held \in [Callers -> 1 .. lastfloor + 1]
  /\ reader \in [Readers -> {"user", "in", "dead"}]

\* When the memory of the module has been freed neither its thread nor a reader
\* of its proc entry runs in it, and there is no entry, also after a load that
\* failed; and only if the last load failed are there system calls that lead to it.
NothingRunsFreed ==
  load = "out" => /\ thread = "none" /\ ~entry /\ \A r \in Readers : reader[r] # "in"
                  /\ stub # {} => "failed" \in met

\* A request during elevator_init sets back its loop variable, but never makes
\* it leave out a floor.
ListsReady == load \in {"live"} \cup Exiting => ready = Lists

\* The thread meets a list that is not initialised only after a call of
\* start_elevator that came while the module was loading.
ThreadSurvives == thread = "dead" => "early_start" \in met

\* As long as nobody calls or reads while the module is loaded or unloaded, or
\* calls after a load that failed, nobody meets a list that is not initialised or
\* memory that was freed, over any number of loads, also loads that fail; nor does a
\* request look beyond the last floor, at what may lead anywhere, unless it has
\* printed while another did: they set the global i for each other.
QuietCallsSurvive ==
  met \cap {"early", "late"} = {} =>
    /\ thread # "dead" /\ \A r \in Readers : reader[r] # "dead"
    /\ \A c \in Callers : pc[c] # "dead"
    /\ "prints" \notin met => \A c \in Callers : pc[c] = "floor" => i \in Floors

\* Whoever is still on a floor when the module has gone came while it went.
LeftWhileExiting == load = "out" /\ waiting # {} => "late_request" \in met

\* An elevator that counts as started runs, except if start_elevator came while
\* the module was loading, or overlapped with another such call.
StartedRuns ==
  load = "live" /\ started = 1 /\ Switching = {} /\ state = "OFFLINE"
    => met \cap {"early_start", "switch"} # {}

\* What rmmod may wait for in vain: for a thread that takes riders nowhere in the
\* OFFLINE branch, or, when calls or readers came too early, a thread or a reader
\* who died of a list that was not initialised.  There is always a thread to stop,
\* and it does not sleep over a list that is all zero.
RmmodWaits ==
  /\ load = "exit_stop" =>
       \/ thread \in {"ended", "look", "idle", "serve"}
       \/ thread = "sleep" /\ onboard \in ready
       \/ thread = "drain" /\ aboard
       \/ thread = "dead" /\ "early_start" \in met
  /\ load = "exit_wait" => "early" \in met \/ \A r \in Readers : reader[r] # "dead"

=============================================================================
