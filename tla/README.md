# A verification project for Kernel-Elevator

Kernel-Elevator is a Linux 4.14 kernel module, `elevator_proc.c`, that drives a
simulated elevator of ten floors. User programs start it, stop it and put
passengers on floors through three system calls; a kernel thread moves the car;
`/proc/elevator` prints where it is. A second module, `my_xtime.c`, prints the
time and the time since the last reading at `/proc/my_xtime`.

This directory holds TLA+ modules translated from that code, TLC runs on small
instances of them, and theorems that TLAPS checks for every instance.

## 1. Inventory

| part | code | state | operations |
|---|---|---|---|
| scheduler thread | `elevator_proc.c` 316-485, 560-601 | `struct elevator` (state, previous state, current and next floor, weight, units, the list `onboard`), `odd_children`, `total_served`, `served[]`, `thread1.mutex`, its position in `scheduler` | `scheduler`, `move_elevator`, `load_elevator`, `unload_elevator`, `min_onboard` |
| system calls | `elevator_proc.c` 123-249 | `started`; they write the state, the current floor, the previous state and the lists `floors[]` | `start_elevator`, `stop_elevator`, `issue_request`, `add_passenger` |
| loading and unloading of the module | `elevator_proc.c` 288-314, 487-506, 692-746 | which of the stubs, the proc entry and the thread exist | `elevator_init`, `thread_init_parameter`, `elevator_exit`, `delete_passenger` |
| system call stubs | `sys_*.c` | one function pointer each, null while the module is absent | test the pointer, call it |
| `/proc/elevator` | `elevator_proc.c` 607-686 | `message`, `read_p`, shared by all opens | open, read, release |
| list pointers, printing | `elevator_proc.c` 251-286 and every list operation | `next` and `prev` of the nodes, the global `i` | `list_add_tail`, `list_move_tail`, `list_del`, the walks of `print_passengers` and `elevator_proc_read` |
| `min_floor` | `elevator_proc.c` 508-557 | none; it writes elevator.state | has no caller |
| `/proc/my_xtime` | `my_xtime.c` | `message_1`, `rp1`, `old_sec`, `old_nsec` | open, read, release |
| earlier draft | `casey_elevator_proc.c` | `e1`, `started`, the lists `allfloors[]`, and everything a call works with: `new_passenger`, `message_2`, `message_1`, `read_p`, `i` | the same system calls, proc entry, thread and loading; `elevator_init` writes through a null pointer at line 480 |
| other drafts | `elevatorcami.c`, `camitxt` | | do not compile |
| part 1 | `part1.c` | none | three `printf` calls |
| files of the kernel tree | `Makefile`, `.config`, `syscalls.h`, `syscall_64.tbl` | | build configuration, declarations and numbers of the calls |

### How the parts interact

The scheduler is one kernel thread. The system calls run in the processes that
make them, on any CPU, at any moment, also several at a time. `thread1.mutex` is
taken by the scheduler only, so it excludes nobody: `elevator.state`,
`elevator.current_floor`, `elevator.previous_state`, `started` and the lists
`floors[]` are read and written by both sides without a lock. The proc handlers
read the same variables. `elevator_exit` waits for the scheduler thread to end
(`kthread_stop`), then frees what is waiting, and only after that takes the
system calls away.

### Which behaviours are hard

* A system call between any two accesses of the scheduler: a stop that the
  scheduler overwrites, a start that moves the car while people get in.
* The steps of two system calls mixed with each other.
* Sequences of calls: start, stop, start and start, stop, start, stop, with
  riders on board in between.
* Termination of the scheduler's inner loops, which decides whether `rmmod`
  returns and whether the riders get out.
* The counters of the load, which three functions keep by hand.
* Index and difference arithmetic with a car on floor 0 or -1.
* Requests during loading and unloading of the module.

Every such place is a hazard in `PROJECT.json`, at its line.

### What makes each component correct

* scheduler: the load agrees with the riders and stays within the capacity; a
  passenger is on one list; he is let off where he wanted to go and counted
  there; nobody overtakes on a floor; everybody is served; the inner loops end;
  arrays are indexed in bounds; after a stop the riders get out and nobody gets
  in.
* system calls: start and stop alternate; a stop has an effect; a request that
  is accepted becomes a passenger.
* loading and unloading: nothing of the module is used before it is set up or
  after it is freed; `rmmod` returns and leaves nothing behind.
* proc files: each reader gets his own text; nothing is used after it is freed
  or freed twice; the text describes one moment.
* lists: pointers stay a ring when two CPUs change them.
* my_xtime: the elapsed time is the difference of the two readings.

## 2. Modules

| module | contents |
|---|---|
| `Elevator` | the scheduler thread, the system calls, unloading of the module: `Init`, `Next`, `Spec`, `FairSpec`, `SerialFairSpec` |
| `ElevatorService` | the abstract specification: passengers who wait, ride, are served, and a capacity; no car and no scheduler |
| `ElevatorProps` | the refinement of `ElevatorService` by `Elevator`, type invariant, safety and liveness properties, and statements of the repository that the code does not keep |
| `MCElevator` | the sets of requests that the runs use |
| `FloorList`, `MCFloorList` | the lists as `next` and `prev` pointers, one memory access a step: requests, the scheduler, unloading, readers, all without a lock |
| `ListService` | the abstract specification of the lists: sequences that an operation changes in one step |
| `ModuleLife`, `MCModuleLife` | the module as it comes and goes: `elevator_init`, `elevator_exit`, the stubs, early and late calls and readers |
| `ProcFile`, `MCProcFile` | open, read and release of `/proc/elevator` by several processes, and the properties |
| `XTime` | `/proc/my_xtime`: the two times, the flag, and the properties |
| `Draft`, `MCDraft` | the earlier draft `casey_elevator_proc.c`: what its calls do once its `elevator_init` has died |
| `ElevatorProofs` | the inductive invariant of `Elevator` and the theorems about the scheduler and the load |
| `ElevatorListProofs` | the theorems about who is on which list, and the sums |
| `ElevatorRefinementProofs` | `Elevator` implements `ElevatorService` |
| `FloorListProofs`, `ModuleLifeProofs`, `ProcFileProofs`, `XTimeProofs`, `DraftProofs` | the theorems about those modules |

The modules divide the code by question. `Elevator` has the whole of the
scheduler and the calls, with a list operation as one step and a module that is
loaded. `FloorList` opens the list operations and leaves open who gets in and
out. `ModuleLife` opens loading and unloading and reduces scheduler and calls to
what these depend on: `started`, `state`, which lists are initialised, where
somebody waits, and `i`. `ProcFile` has what the opens of the proc entry share;
the handlers only read the elevator. `my_xtime.c` is another kernel module.

### How `Elevator` corresponds to the code

Variables have the names of the code. `onboard` is a set: no decision of the
code depends on the order of that list (`min_onboard` returns a floor, and
passengers at the same distance have the same floor, because the difference is
signed). `floors[f]` is the list `floors[f-1]` as a sequence. Passengers are
numbered in the order of the requests; `req` holds what they asked for and `mem`
what has become of their nodes. `call[c]` is the position of the system call `c`;
`pc` that of the scheduler; `floor` is the argument of the function that the
scheduler is in; `dummy` says whether the node that `list_for_each_safe` saved
before the loop body is a passenger or the head of the list.

| code | actions |
|---|---|
| loop of `scheduler`, line 401 | `Exit`, `SeeOffline`, `SeeIdle`, `SeeService` |
| OFFLINE branch, 404-413 | `DrainAim` (`min_onboard`), `DrainMove`, `DrainArrive` (`move_elevator`), `DrainReadFloor`, `DrainCompareFloor`, `DrainUnload`, `DrainUnloaded` (`unload_elevator`), `DrainEnd` |
| IDLE branch, 415-423 | `ScanSkip`, `ScanMove`, `ScanArrive`, `ScanMark`, `ScanEnd` |
| last branch, 425-461 | `ServeBegin` ... `ServeWake` (unload, sleep), `LoadReadFloor` ... `LoadFull` (`load_elevator`), `SetUp`, `UpLock` ... `UpUnlock`, `UpSkip`, `ServeEnd` |
| `start_elevator` | `StartCheck`, `StartState`, `StartFloor`, `StartStarted` |
| `stop_elevator` | `StopCheck`, `StopLook`, `StopSave`, `StopState`, `StopStarted` |
| `issue_request`, `add_passenger` | `IssueRequest` |
| `elevator_exit` | `KthreadStop`, `DeletePassengers` (`delete_passenger`), `ClearStubs` |

**Size of a step.** A step is one access to a word that another thread writes,
together with accesses to words that only this thread uses. `state` in
`scheduler` is read once per round of the outer loop (401 to 425: nothing
between these reads can change memory in the eyes of the compiler, except the
return of `kthread_should_stop`; a second read in the chain of `else if` could
only make the thread take the branch of a later state, which it also takes by
looking a little later). `current_floor` is read once for the argument and again
in the callee, with a step between. After its comparison a callee uses only the
argument, so the loops of `unload_elevator` and `load_elevator` go on at the old
floor when `start_elevator` moves the car. A list operation is one step; what
happens inside one is in `FloorList`. `unload_elevator` lets
the riders off in any order, one step each. `stop_elevator` loads `state` once for
both comparisons and for the value it stores, as the optimising build of the
kernel does with nothing in between (lines 150-151); the load (`StopLook`), the
store of `previous_state` (`StopSave`) and that of OFFLINE are steps of their own.
`overlapped` is a history variable: whether two stops were ever in progress at a
time.

**The DOWN branch.** `elevator.state` becomes DOWN only in `min_floor`, which is
never called. Lines 448-455 therefore have no actions, and the type invariant,
which excludes DOWN, is checked and proved. A car above floor 1 comes down only
because the UP branch goes from the top floor to floor 1, because the IDLE
branch or the OFFLINE branch drives it, or because `start_elevator` sets the
floor.

**Init** is the state `elevator_init` leaves, in two forms. The thread is created
before the fields are set. It either runs first when they are, or it finds
`onboard` all zero bytes, takes that for a list that is not empty, gets -1 from
`min_onboard` and goes to sleep in `move_elevator(-1)`; `elevator_init` finishes
during that sleep.

**Names that begin with `Slip_`** are definitions with a plausible mistake in
them, placed before the definition they are a variant of. No action uses them.
They serve to show that each property fails when the code has the mistake.

### The abstract specification

`ElevatorService` has a list of what people asked for, the fate of each
(`waiting`, `riding`, `served`, `gone`) and the numbers served per floor. Its
capacity is computed from the riders themselves, not from counters, and it lets
somebody in only when nobody waits on his floor who asked before. The mapping
(`FateOf` in `ElevatorProps`) reads the fate off the list a node is on and off
whether it has been unlinked or freed; a linked node on no list or on two has
the fate "lost", which no step of `ElevatorService` leads to. That `Elevator`
implements it therefore says in one property that no interleaving of its steps
loses or duplicates a passenger, overloads the car, lets somebody overtake, or
lets somebody off at the wrong floor. A list operation is one of these steps: two
that overlap on one list may well lose a passenger, as `FloorList` shows.

### How `FloorList` corresponds to the code

`floors[f-1]` is the head `f`, `elevator.onboard` the head 0 and the `move_list`
of `delete_passenger` the head -1. `at[t]` is the pointer or index that thread
`t` has in a register.

| code | actions |
|---|---|
| `list_add_tail` in `add_passenger`, 244 | `AddRead`, `AddPrev`, `AddSelf`, `AddNext` |
| `print_passengers`, 251-265 | `PrintBegin`, `PrintIndex`, `PrintFirst`, `PrintVisit`, `PrintTest`, `PrintStore`; the global `i` is loaded again after a call, since `printk` might have changed it |
| the sums of `elevator_proc_read`, 661-665 | `SumBegin`, `SumVisit`, `SumEnd` |
| `list_for_each_safe` in `unload_elevator`, `load_elevator`, `delete_passenger` | `LoopBegin`, `DeleteBegin`, `Save`, `LoopEnd`, `LoadFull`, `KeepOnboard` |
| `list_del`, `list_move_tail` | `Unlink`, `UnlinkPrev`, `UnlinkNext`, `PlaceNowhere`, `PlaceLast`, `PlaceNext` |
| `print_who_on_it`, 271-286 | `PrintWho`, one step: only this thread writes to `onboard` |

`on` is a history variable: the lists as sequences if each operation were
atomic, changed at the write that makes the operation visible to a walk.
Requests begin at any moment, also while `delete_passenger` works on the lists
and after it, since the stubs are cleared only then (741-743).
`raced`, `removed` and `disturbed` record what the properties except: two
operations on one list that overlap, somebody taken off a floor, and the walks
during which that happens or two calls print. A pointer that leads nowhere
(`Bad`: never set, poisoned by `list_del`, freed) ends the thread that follows
it or writes through it, in the position `lost`.

### The abstract specification of the lists

`ListService` has the lists as sequences: who waits on each floor, who is on
board, whom `elevator_exit` has collected, and who has been taken off a list and
is not on the next one yet. `Atomic` (in `MCFloorList`) says that as long as no
two operations on one list overlap every step of `FloorList` is a step of it or
a stutter. The mapping does not use the history variable `on`: `ListOf(h)` is
the sequence that the `next` pointers lead through from `h` back to it, and who
has asked and who is taken follow from the positions. So `list_add_tail` takes
effect at its last write (`AddNext`), `__list_del` at its second (`UnlinkNext`),
`__list_add` within `list_move_tail` at its last (`PlaceNext`), and no other write
changes any list. `ListService` has the order: a request goes behind everybody,
a loop over a floor or over `move_list` takes the first, `unload_elevator`
anybody. With that, `Elevator` may take an operation on a list as one step.

### How `ModuleLife` corresponds to the code

`load` is the position of `insmod` and `rmmod`: one step per stub, `ProcCreate`
and `thread_init_parameter` with the ways they fail, `InitFields`, `InitOnboard`,
`InitFloor` (one list each, over the global `i`, which the build may or may not
keep in a register); then `KthreadStop`, `delete_passenger`, `RemoveEntry`,
`Removed` (`remove_proc_entry` waits for the readers), `ClearStub` and `ExitEnd`.
When the memory is freed (`Free`) whoever is inside a call dies. `SystemCall` is
the stub of `sys_*.c`: the pointer is loaded once, tested and called, so a stub
that was not cleared leads into freed memory. The calls are reduced to their
accesses to `started`, `state`, the lists and `i`; the thread to its look at
`kthread_should_stop` and `state`, to one round of the IDLE and the last branch,
and to the loop of the OFFLINE branch. `aboard` says whether the thread would find
somebody on `onboard`; if so and OFFLINE, it is in the position `drain`, which it
leaves by `ThreadDrained` when the last rider has got off and at which it may stay
for ever, since nobody there looks at `kthread_should_stop`. `Stale` are the stubs
that a failed load has left and the next one has not set again yet: to call
through them is to run freed memory, also when the module is being loaded. The
sleep of two seconds in `move_elevator(-1)`, into which the thread goes when it
finds `onboard` all zero bytes, outlasts the rest of `elevator_init`; that is the
one assumption about time. `met` records what has overlapped: a caller or reader
inside while the module loads (`early`, for `start_elevator` also `early_start`)
or unloads (`late`, for `issue_request` also `late_request`), two starts or stops
at a time while it is loaded (`switch`), two requests in `print_passengers`
(`prints`); and whether the last load has failed (`failed`). A call through a stub
that a failed load has left is `early` as well (`EarlyCall`). `Forgotten` says what
is dropped again: `prints` when nobody prints any more, `switch` when the module is
unloaded, `early_start`, `late_request` and `failed` with the next load, so that
the properties that name these are about one load each.

### How `ProcFile` corresponds to the code

One action per access to `message` or `read_p`: `OpenFlag`, `OpenBuffer`,
`OpenFails` (`elevator_proc_open`), `ReadLoad`, `ReadStore` (the two halves of
`read_p = !read_p`), `ReadFormat`, `ReadCopy` (`elevator_proc_read`), `Release`
(`elevator_proc_release`, at the end of the file or before it). `Oops` is what
the kernel does when a handler follows the null pointer that a failed open of
another process has left in `message`. The text is the process that made it. A
buffer that is freed twice is only recorded (`misused`); what the allocator does
after that is not modelled. Lines 644-671, one `sprintf` and some twenty `strcat`
that each load `message` again, are the one step `ReadFormat`: texts that two
readers append to one buffer piece by piece are not there, and no property is
about the contents of a buffer that two of them fill at a time.

### How `XTime` corresponds to the code

`Open`, `Read`, `Release` are the three handlers, called by one process at a
time. `Read` is one step, since nothing else changes what it uses. `int` is the
assignment of a `long` to an `int`. `Tick` is the kernel's clock, which may also
be set back; two successive reads are less than `HalfInt` seconds (68 years)
apart, which is the assumption under which the difference fits into `elapsec`.
`last` is a history variable.

### How `Draft` corresponds to the code

`casey_elevator_proc.c` is the design from which `elevator_proc.c` was made, and
its comments are the only place that says what the system calls promise. Its
`elevator_init` writes through `e1`, which `start_elevator` sets, so `insmod`
dies at line 480 (`InitWrite`) with the stubs and the entry already in place, and
from then on the calls run: `StartKmalloc`, `StartFloor`, `StartEnd`,
`StopCheck`, `StopState`, `StopStarted`, `RequestKmalloc` to `RequestFree`,
`Open`, `Read`, `Release`. Only a start before line 480 lets the load succeed
(`live`). `new_passenger`, `message_2` and `i` are global; a call that has one
in a register uses the register or the global, as the build likes. `standing`
and `met` are history variables; once calls have overlapped or memory was missing,
`met` keeps only that (`Noted`), since every property that reads it exempts both.

## 3. Runs

Small values stand for ten floors and a capacity of 30 half units and 10
passenger units (the code's literals): three floors have a lowest, a middle and
a highest one, so that rides go up, go down and wrap around the top; two floors
suffice where the question is who fits. A capacity of 8 or 9 half units and 3
units is reached and exceeded with two or three passengers.

| run | instance | what it checks |
|---|---|---|
| `safety` | 3 floors, 2 requests, 2 starts, 2 stops | `TypeOK`, `LoadAccounting`, `OnOneList`, `ServedWhereTheyGotOff`, `LoadIndexInBounds`, `DrainTarget` |
| `crowd` | 2 floors, 4 requests, 1 start, fairness | `WithinCapacity`, `HalfUnitShown`, `FloorFIFO`, `Service`, `AllServed` |
| `rmmod` | 3 floors, 1 request, 2 starts, 1 stop, unloading, kmalloc may fail, fairness | `DrainEnds`, `Service`, `RmmodReturns` |
| `floorlist` | 2 floors, 2 requests, a reader, the scheduler, unloading | `TypeOK`, `SerialLists`, `SavedNodeOnList`, `WalkLeadsHome`, `SumOfFloor`, `Atomic` |
| `modulelife` | 2 floors, 2 callers, a reader, any number of loads and calls | `TypeOK`, `NothingRunsFreed`, `ListsReady`, `ThreadSurvives`, `QuietCallsSurvive`, `LeftWhileExiting`, `StartedRuns`, `RmmodWaits` |
| `procfile` | 2 processes, 2 opens each, 2 buffers, kmalloc may fail, fairness | `TypeOK`, `AloneGetsText`, `SerialHeap`, `EveryReaderEnds` |
| `xtime` | 3 nanoseconds to the second, ints of 6 values, 13 seconds | `TypeOK`, `OneText`, `ElapsedExact`, `DifferenceMissing` |
| `draft` | 2 floors, 2 requests, a process that starts and stops, a reader | `TypeOK`, `SerialFloors`, `SerialCallsSurvive`, `ListsBeforeStarted` |

What the last kinds of properties show. `SerialLists` says that the lists need no
lock as long as two operations on the *same* list never overlap, at every write
and not only between operations; `WalkLeadsHome` and `SumOfFloor` say which walks
that is enough for, and `request_never_returns` below shows one it is not enough
for. `Atomic` says that such operations together amount to operations on
sequences. The properties of `modulelife` each are about one thing that goes wrong
(a thread that dies, a call that meets a list that is not initialised or memory
that was freed, a request that indexes `floors[10]`, a passenger left behind, a
started elevator that is OFFLINE, an `rmmod` that waits), name the overlaps with
which it does go wrong in this code, and say that it does not without them. They
do not say that the code is right when these overlaps occur.

`DrainTarget`, `DrainEnds` and `RmmodReturns` are about the loop of the OFFLINE
branch (406-409), which ends only if `min_onboard` finds a way to go. It does not
when no direction was ever recorded: the car is at -1 and stays there. Nor need
it when two stops have overlapped: one may load UP and be delayed, the other set
OFFLINE, the car go to -1, and the first then store its UP; for a car at -1 a rider
to floor 10 is 11 away, `minDiff` stays 10 and `min_onboard` returns 0. `safety`
has two stops that do this, and `DrainTarget` claims nothing once they have.
`RmmodReturns` says that an `rmmod` comes to its end or else the thread is stranded
in that loop for ever (`Stranded`); `RmmodWaits` says the same of a module that is
loaded and unloaded again and again, where the thread may also have died of an
early start.

Why these bounds. Two starts and two stops overlap with each other in their
checks of `started`, and let a stop follow a start that ran over the riders of
another stop. In `rmmod` one stop strands riders already: it sees the state
LOADING, records nothing, and its OFFLINE overwrites the UP of the scheduler; and
one stop that sees UP gives the runs in which the branch ends. Two requests in
`safety` put two riders with different targets, or a rider and a waiting
passenger, into the same state. Four requests on two floors, of types of weight
8, 4 and 1, fill the car, leave somebody behind who does not fit while the one
behind him would, and let him in at a later visit. `safety` also issues requests
with an unknown type, a floor too high and a floor too low. Calls are used up, so
the runs have no bound on time: the car moves for ever, and the liveness
properties speak about all infinite behaviours. The number of passengers is
bounded by `MaxRequests`; it is the only bound on a counter. Of the runs
of `Elevator`, `kmalloc` fails in `rmmod` only, where the refinement shows that a failure leaves no trace; in
`safety` it would only make a request disappear.

In `floorlist` and `draft` `MaxCalls` bounds how many calls are in progress at a
time, to two: two requests, or a request and a reader, together with the
scheduler, so that any two operations on a list overlap, with a walk or the
scheduler as the third. What a reader has added up is not kept once somebody has
been taken off a floor or requests have raced (`Forgotten`): nothing is said of
such sums. The passengers of `floorlist` make one request each; the
reader, the loops of the scheduler, and everything in `modulelife` come any
number of times; in `floorlist` a request may begin at any point of them,
`delete_passenger` included. Two floors give a loop over the floors a first and a last round
and a list next to the one that is changed. Callers, passengers and requests of
these runs are interchangeable, which their symmetry says; none of the
properties there is a liveness property.

In `procfile` two opens each suffice for an open that is alone to follow opens
that overlapped, failed or were given up; the liveness property is about
finitely many opens, since readers that come again and again can take each
other's turns of `read_p` for ever. In `xtime` the seconds wrap around an int
twice.

`CHECK_DEADLOCK FALSE` is set only where the system may stop: when the module has
been unloaded (`rmmod`, `floorlist`), when processes stop opening the file or
making calls (`procfile`, `draft`), and where everybody has died
(`modulelife`).

### Violations: what the repository says and the code does not do

| run | statement | what happens |
|---|---|---|
| `stop_keeps_loading` | `NoLoadAfterStop`: after a stop no new requests are processed (`casey_elevator_proc.c` 164-165) | the scheduler writes LOADING, UP or IDLE over the OFFLINE of the stop, and goes on loading |
| `stop_strands_riders` | `OffloadedAfterStop`: a stop offloads all passengers (`casey_elevator_proc.c` 165-166) | start, stop, start, stop: the second stop finds the state IDLE and records no direction; `min_onboard` returns -1, the car drives to floor -1, where nobody gets off, and the loop never ends, with the mutex held |
| `restart_strands_riders` | `AllServedWhenStarted`: all passengers are served (`README.md` 33) | start, stop, start: the car becomes IDLE with a rider; the IDLE branch looks at the floors only |
| `request_never_returns` | `RequestReturns`: issue_request returns 0 or 1 (`casey_elevator_proc.c` 194-195) | one request, and nobody else: its passenger gets in while `print_passengers` stands at his node; the walk goes on round `elevator.onboard`, whose head is not the one it compares with, for ever |

`stop_strands_riders` and `restart_strands_riders` use `SerialFairSpec`,
in which no start or stop is interrupted: what they show does not need two calls at once, and no lock around the calls alone would repair it.

Further disagreements that were seen while modelling and have no run: the order
of service is that of the floors, not first come first served (`README.md` 34);
a start sets the current floor while `load_elevator` is in its loop, so people
get in where the car is not (comments at lines 321-322 and 371-372); a request
between `delete_passenger` and the clearing of the stubs leaves its passenger on
a floor (comment at line 289; `LeftWhileExiting` says that nothing else does);
with a rider stranded in the OFFLINE branch `rmmod` never returns (`README.md` 28
takes it for granted; `RmmodReturns` names the case), and two overlapping stops
can strand riders although a direction is recorded; two
overlapping `start_elevator` calls can both return 0 (the comment at line
113-115 of `casey_elevator_proc.c` says 1 is returned when the elevator is
already active), and likewise two stops; `issue_request` returns 0 when
`kmalloc` has failed, although no passenger exists; `min_onboard` chooses the
smallest signed difference, so with the direction UP the farthest floor below is
taken before the closest one (comment at line 574). `my_xtime` prints no
difference after a read on the start of a second (`DifferenceMissing` says when),
measures it from the end of the last reading rather than its text, and prints
nanoseconds without leading zeros after the point (lines 64 and 67). Two
processes at `/proc/elevator` can take each other's text, buffer and end of
file; `ProcFile` has these behaviours, and its properties say what holds
nevertheless.

## 4. Fairness

`FairSpec` adds to `Spec`:

* `WF_vars(Scheduler)`: the thread is runnable or in a sleep that ends, and the
  mutex is never held by anybody else, so it makes progress. Its own `mutex`
  conjunct is never what blocks it, since it locks only what it has unlocked
  (were it otherwise, TLC would report the deadlock or `AllServed` would fail).
* `WF_vars(StartStep(c))`, `WF_vars(StopStep(c))`: a call that has begun ends; it
  neither sleeps nor waits. `StartCheck`, `StopCheck`, `IssueRequest` are not
  fair: nobody has to call.
* `WF_vars(DeletePassengers \/ ClearStubs)`: an `rmmod` that has begun goes on.
* `FairSpec` of `FloorList`: weak fairness of the scheduler, of each request and
  of each sum that has begun. A thread that walks a list has a CPU and takes no
  lock; nobody has to make a call.
* `WF_vars(Session(r))` in `ProcFile`: a process that has the file open reads on,
  as `cat` does. Giving up and opening again are not fair.

No strong fairness is used, and none for a choice: who gets off first, which
request comes next and whether `kmalloc` fails are left open.

## 5. Proofs

For any number of floors from 2 up, any capacity that lets the largest passenger
in, any set of requests and calls (`Elevator`); any number of floors, requests and
readers (`FloorList`); any number of floors, callers and readers (`ModuleLife`); any readers, opens and buffers (`ProcFile`); any width of
an int and any length of a second (`XTime`); any number of floors and calls
(`Draft`):

| theorem | property |
|---|---|
| `TypeCorrect` | `TypeOK` |
| `LoadInBounds` | `LoadIndexInBounds` |
| `DrainAimed` | `DrainTarget`, while stops do not overlap |
| `Capacity` | `WithinCapacity` |
| `HalfUnit` | `HalfUnitShown` |
| `SchedulerIsNotStuck` | `SchedulerGoesOn`, below |
| `EveryoneOnOneList` | `OnOneList` |
| `FirstComeFirstIn` | `FloorFIFO` |
| `LoadAccounted` | `LoadAccounting` |
| `ServedRight` | `ServedWhereTheyGotOff` |
| `ElevatorKeepsService` | `Service`: `Elevator` implements `ElevatorService` |
| `ListInvariance` | the inductive invariant of `FloorList` |
| `FloorListTypes`, `SerialListsHold`, `SavedNodeStays`, `SumIsOfFloor`, `WalksLeadHome` | `TypeOK`, `SerialLists`, `SavedNodeOnList`, `SumOfFloor`, `WalkLeadsHome` of `FloorList` |
| `ListsAreAtomic` | `Atomic`: `FloorList` implements `ListService` |
| `SchedulerNotLost` | below |
| `LifeTypes`, `NothingFreedRuns`, `AllListsReady` | `TypeOK`, `NothingRunsFreed`, `ListsReady` of `ModuleLife` |
| `ThreadLives`, `QuietCallersLive`, `NobodyLeft`, `StartedElevatorRuns` | `ThreadSurvives`, `QuietCallsSurvive`, `LeftWhileExiting`, `StartedRuns` of `ModuleLife` |
| `RmmodWaitsFor` | `RmmodWaits` of `ModuleLife` |
| `SessionTypes`, `AloneReads`, `SerialBuffers` | `TypeOK`, `AloneGetsText`, `SerialHeap` of `ProcFile` |
| `DraftInvariance` | the inductive invariant of `Draft` |
| `DraftTypes`, `DraftListsReady`, `SerialFloorsHold`, `SerialCallsLive` | `TypeOK`, `ListsBeforeStarted`, `SerialFloors`, `SerialCallsSurvive` of `Draft` |
| `TimeTypeCorrect` | `TypeOK` of `XTime` |
| `ElapsedCorrect` | `ElapsedExact` |
| `OneTextEach` | `OneText` |
| `DifferenceMissingOnlyAtZero` | `DifferenceMissing` |

The assumptions are the named ones: of `Elevator`, `FloorsAssumption`,
`CapacityAssumption`, `RequestAssumption`, `CallAssumption`, `EnvAssumption`; of
`FloorList`, `ListAssumption` and `NodeAssumption`; of `ModuleLife`,
`LifeAssumption`; of `Draft`, `DraftAssumption` and `CallsAssumption`; of
`ProcFile`, `ReadersAssumption` and `BoundsAssumption`; of `XTime`,
`TimeAssumption` and `StepAssumption`. TLC evaluates each of them in the runs of
its module. `NodeAssumption` says that the heads of the lists, the nodes and
`Bad` are different addresses, and that a thread is a request, a reader or the
scheduler; `CallsAssumption`, that a process of the draft makes calls of one
kind. `MaxCalls` limits the requests of `floorlist` and the calls of `draft`; it is any
natural number in the theorems.

The argument for the scheduler is one inductive invariant, `IInv`:

* `TypeOK` is not inductive. That the argument of `load_elevator` is a floor
  needs `ArgumentIsFloor`; that needs the car in the building, and the car leaves
  it in the OFFLINE branch (floor -1).
* `InBuilding` says when it is back: whenever the state is LOADING or UP or the
  scheduler is in its last branch, the car is at a floor. A start sets the state
  before it sets the floor, so the state IDLE is left out.
* `DrainState`: in the OFFLINE branch nobody sets LOADING or UP, so a stop that
  begins there loads no direction.
* `Saving`: a stop that has loaded UP and not stored it yet finds the car in the
  building and the scheduler outside the OFFLINE branch, since only a stop sets
  OFFLINE and it is the only one; so the branch cannot send the car away between
  its load and its store. `Recorded`: with UP stored the car is in the building.
  Both hold only while no two stops have overlapped; `Noted` says that
  `overlapped` tells.
* `ScanIndex`, `FloorLists`, `LoadLoop`: the loops look at passengers that
  exist, and at the floor where they start.
* `DrainTarget` is part of the invariant. With `Recorded` it excludes the
  differences with which `min_onboard` finds nobody near enough.

`Capacity` and `HalfUnit` are proved from `IInv` step by step: passengers
subtract what passengers add.

`SchedulerIsNotStuck` is about the steps of the thread that wait or that could be
impossible: `thread1.mutex` is free wherever the thread locks it, `min_onboard` has
an answer for the OFFLINE branch, and the loop of `load_elevator` has a passenger.
The runs `safety` and `crowd` show the same by checking for deadlock. It rests on
`MutexHeld` (the thread holds the mutex in the OFFLINE branch and from the last
branch up to `set_up` and again around the move up, and nowhere else, whatever
system calls do to the state on which it decides) and on `MinOnboardReturns`: among
the passengers who are near enough one is nearest, because the distances are
bounded from below (`LeastNumber`).

`ElevatorListProofs` first says, in the lemma `ListSteps`, that every step does
one of a few things to the lists: somebody leaves, is greeted where he already
is, boards, asks, or they are cleared, or nothing. Each property of the lists is
then proved by these cases. Its invariant `LInv` has three parts: `Ascending`
(the list of a floor is in the order of the requests), `Linked` (who is linked is
on the list of his floor or on board, not both) and `InTurn` (nobody has left a
floor on which somebody before him waits). None of `OnOneList` and `FloorFIFO` is
inductive by itself: that the first of a list is the earliest needs `Ascending`,
and that he is not on board already needs `Linked`.

`LoadAccounting` is a sum over a set, and a sum defined by recursion could not be
reasoned about. `ElevatorService` therefore counts the load unit by unit
(`Load`: the number of pairs of a rider and a number up to his weight), so that
the facts about cardinalities suffice: one rider more makes it larger by his
weight (`TallyOfOneMore`).

`ElevatorKeepsService` follows the same cases: `FateOf` of every passenger is one
of the four fates (`NobodyIsLost`), and each case is a step of `ElevatorService`
or a stutter. That the abstract capacity holds when somebody boards uses
`LoadAccounting`, since the code decides by its counters; that it is his turn
uses `InTurn`.

`LInv` of `FloorListProofs` is about every single write to a `next` or `prev`. The
lists `on` are what a walk should see; `Lists` says that nobody is on two of them
or on one twice. `Forward` says that `next` agrees with `on` always: `AddNext`
and `UnlinkNext` are the writes that change both. `Backward` says the same of `prev` with
two exceptions, each for the time of one operation: `Late`, a head whose `prev`
already leads to a node that `next` does not reach yet, and `Bypassed`, the node
behind the one that is being unlinked. `Adders`, `Unlinking` and `Placing` say
what those who are in the middle of an operation have in their registers and
that it still fits: `at` of a `list_add_tail` is still the last node, `before`
and `after` of a `list_del` are still the neighbours. That needs that nobody else
changes that list meanwhile, and `raced` records exactly when somebody does; that
the adder is alone on his list is therefore part of `Adders`. `Looping` says that
the node of `list_for_each_safe` and the saved one are different and on the list
of the loop: additions to that list go on, behind the saved node. It has
`SavedNodeOnList` as a part. `Summing` is what `SumOfFloor` needs in the middle
of a walk: a reader that nobody has disturbed has seen exactly who is before the
node he has come to. Here requests go on adding to the list that he walks. All of
it holds as long as nothing has raced, except the types (`Types`), which hold in
any case. `RemoveOne` is the lemma about the community module's `RemoveFirst` on
which the proofs about unlinking rest.

`WalkLeadsHome` speaks also of lists on which requests have raced each other, for
which `LInv` says nothing. `HInv` has what it needs. `Homeward` holds as long as
nobody has been taken off a floor: with a rank for each request, by when it has
begun, `next` of a head or of a request leads to the head or to a request of the
same floor with a higher rank, and what a request has read from `prev` of the
head has a lower one (`Chains`). So requests may overwrite each other's `next`
and lose passengers, but never close a ring beside the head. The scheduler thread
may have begun to unlink somebody (`Unboarded`), since its first write goes to a
`prev`. `Counting`: who prints alone has `i` for himself. `Walks`: a walk that is
undisturbed is at a node that is `Home`, on the list or linked. `HomeReaches` puts
the two cases together: the rank is the place on the list when nothing has raced
(`WholeReaches`), and the time of the request otherwise. `LeadsToHead` is the argument for both,
about the recursive function of `Reaches`: ranks rise along `next`, so that a walk
which does not come home in as many steps as there are nodes would meet one node
twice. The induction over the steps is that of `CountUp`: the least number outside
a set, by the well-foundedness of the naturals (`WFMin`), so that no induction
theorem with an operator for parameter is needed.

`ListsAreAtomic` needs two things beside `LInv`. One is that `ListOf(h)` is
`on[h]` (`ListIs`): that `next` leads through `on[h]` is `Forward`, that it leads through
no other sequence of passengers is `OneWay`, since two such sequences agree from
the head on (`CountUp`) and the first to come back to the head is the end of
both; and `on[h]` is among the sequences that `ListOf` looks through because
nobody is on a list twice, so that it is no longer than there are passengers.
The other is `Turns`. `LInv` says that the node of a loop is on its list; that it
is the *first* of a floor or of `move_list`, which `ListService` requires of `Take`
and `Free`, holds because these loops keep nobody: whoever they pass is off the
list by then, and the saved node is the second, or the head if there was none,
whoever is added meanwhile. `Turns` also says which list a passenger can be on
his way to, given which loop has taken him. `Turns` and `LInv` are kept together
(`NextTurns`), and each step is then mapped (`OthersService`, `UnlinkService`,
`PlaceService`, `WorkService`); `RemoveHead` says that to remove the first of a
list is to take its tail.

`SchedulerNotLost`: while nothing has raced, the scheduler thread is never in the
position `lost`, that is, neither it nor `elevator_exit` follows a poisoned, freed
or unset pointer, and `Returns(h)` holds of every list (`WholeReaches`), which is
what `print_who_on_it` needs to come to an end. Of the requests it says nothing:
their walks may be lost, or endless (`request_never_returns`), without such a race.

`LInv` of `ModuleLifeProofs` says where there can be a thread, an entry and a
reader (`Where`); that every floor before the one a loop has come to is ready,
whoever set `i` (`Before`) — with `Ready` this is why an early request cannot make
`elevator_init` leave out a list; that overlaps which are there have been noted
(`Noted`, with `Kinds`: an overlap of one call is one of calls); and, for each
thing that can go wrong, its cause: `Asleep` (nothing but an early start gets the
thread out of its first branch while the module loads), `Stubs`, `Left`,
`Agreed` (`started` and `state`), `Survive` (nobody is dead as long as nobody has
come early or late, which is `Quiet`, whatever loads have failed). `Alone` is the part of
`QuietCallsSurvive` about the global `i`: as long as, besides, no two requests
have printed at a time, one that is about to look at `floors[i]` finds a floor
there. `Riding` says that the thread in the position `drain` has riders. `Watched` says that `kthread_stop` is
called only while there is a thread, and that a reader dies of nothing but an early
read; `RmmodWaits` follows from it with `Asleep` and `Riding`. `DraftProofs` uses the same `Before` for the loop
of the draft's `start_elevator`.

`SInv` of `DraftProofs` goes by what has been noted in `met`. Always: each kind of
call has its positions (`Calls`) and the globals their types (`Values`). As long
as no calls overlapped and there was memory (`Calm`): one call is under way
(`Single`); who has not come to `list_add_tail` is on no list (`Unlisted`), so that
it puts nobody on a list twice; the globals a call works with are its own (`Filling`,
`Emptying`); outside of `start_elevator` the lists are as promised (`Waiting`,
which `SerialFloors` states for the moments between calls; inside, `Emptying`
says how far the loop has come). As long as, besides, nobody called before the
first start (`Orderly`): `e1` and all the lists are there during a call
(`Provided`), `print_passengers` writes to the text that its call has allocated
(`Texts`), so nobody dies and nothing is freed twice (`Alive`). That the lists it
prints are not endless and its text is not null is `Waiting` and `Texts` together.

`PInv` of `ProcFileProofs` says, of a reader who has been alone since he opened,
what `read_p` tells about what he has got (`Undisturbed`), and of opens that have
never overlapped that there is one buffer, in `message` (`SerialInv`).

For `XTime` the invariant says that `old_sec` and `old_nsec` are the time of the
last read, the seconds wrapped into an int. `WrapCancels` is the arithmetic: the
wrap of `old_sec` cancels that of `elapsec`. It rests on `Remainder`, the
uniqueness of quotient and remainder. `Turn` adds what the flag says about the
texts of the open in use.

Checked by TLC only: every liveness property (`AllServed`, `DrainEnds`,
`RmmodReturns`, `EveryReaderEnds`), since TLAPS proves no liveness under
fairness.

## 6. Not modelled

* `min_floor` (508-557) has no caller. It takes the node after the one it looks
  at (`list_first_entry` of a list node), so its result has no meaning to check.
* The scheduler of the draft, with its `load_elevator` and `move_elevator`: it
  begins with reading `e1->onboard_passengers`, which nobody has initialised. The
  buffer `message_1` of the draft is handled as `message` in `ProcFile`.
* `elevatorcami.c` and `camitxt`, which do not compile, `part1.c`, and the files
  of the kernel tree.
* Opens of `/proc/my_xtime` that overlap. The buffer and the flag are shared as in
  `ProcFile`, where they overlap.
* The text of `/proc/elevator` beyond who made it: it reads `odd_children` and
  `current_weight` at different moments, and nothing in the repository promises
  that they belong together. `HalfUnitShown` is about the counters.
* The text of log messages. Allocation and copying to user space are taken to do
  what the kernel promises.
* What happens after undefined behaviour (a null pointer, a freed node, memory
  freed twice): the models record it and stop the thread.
* `Elevator` has one load of the module and calls that have passed their stub
  finish; calls that do not are in `ModuleLife`. `Elevator` takes list operations
  as atomic, which `ListsAreAtomic` justifies for operations that do not overlap on
  one list; what happens when they do is in `FloorList` only. In `Elevator` to move
  a passenger from a floor to `onboard` is one step, in `ListService` two; only the
  scheduler thread, and no list, has him in between.

## 7. Plan

Done, in this order: `Elevator` with its properties and the refinement, the
theorems about the scheduler; `ProcFile`, `XTime`; `FloorList`; `ModuleLife`;
`Draft`; the theorems about the lists, the sums, the refinement, `ModuleLife`,
`ProcFile`, `FloorList` and `Draft`; `ListService` and its refinement.

Left: overlapping opens of `/proc/my_xtime`.
