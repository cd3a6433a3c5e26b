# libcppsim in TLA+

libcppsim is a C++ library for process-oriented discrete event simulation: the
active objects of a model are processes, each with its own stack, that give up
control by `hold`, `passivate` and the like, and a scheduler that resumes the
process with the earliest event. This directory models its kernel, checks it
with TLC on small instances and proves its safety properties and refinements with
TLAPS for all instances. Paths below are relative to the repository (`src/src/` holds the
library, `src/test/` its programs).

## The system

| component | source | state | operations |
|---|---|---|---|
| coroutines | `coroutine.cc/.hh` | `_caller`, `_callee`, `_cor_terminated` of each coroutine; who is running | construct, delete, `resume`, `call`, `detach`, return from `main` |
| sequencing sets | `sqs.hh`, `sqsDll.*`, `sqsPrio.*` | event notices (process, time), sorted; iterators kept in the notices | `insertAt`, `insert` before/after, `remove`, `clear`, `first` |
| processes | `process.cc/.hh` | `_ev` (own event notice or null), `_s` (its sequencing set), `_terminated` | ten activations and reactivations, `hold`, `passivate`, `cancel`, `end_simulation`, `time`, return from `inner_body` |
| scheduler | `sqs.cc` | `_current`, `_processed` | `main`: resume the first process until the set is empty |
| simulation levels | `simulation.cc/.hh` | a stack of sequencing sets | `begin_simulation`, `end_simulation`, `run`, `getSqs`, `events` |
| handles | `handle.hh` | `_sharedCount` of objects, `_obj` of handles | bind, copy, assign, release |
| statistics | `var.hh`, `statistic.hh`, `counter`, `histogram`, `mean`, `accum`, `repmean`, `quantile`, `bmeans`, `bmeans2`, `abatch` | observations or sums | `update`, `reset`, `value`, `report` |
| initialization bias | `trremoval*`, `welch`, `jain` | observations by replication | as statistics |
| random numbers | `rng.cc/.hh` | a global seed, a seed and a length left for each generator | `value`, `reset` |
| logging | `logger`, `trace`, `dump` | streams | output |
| queueing example | `test/mm1.cc` | queues of server and sink, the bodies' places | bodies of source, job, server, sink, `simulation_main` |

The components meet in few places. A process is a coroutine and a shared
object; a sequencing set is a coroutine that owns notices, and a notice owns a
handle to its process. `run` *calls* the innermost sequencing set, whose `main`
*resumes* one process after another; a process gives up control with `detach`.
Since it was resumed and not called, it has no caller, and `detach` goes to the
end of the chain of calls that starts at the main program: the sequencing set
that `run` called. Processes schedule one another by putting notices into the
set they are bound to, and read the time from the notice of the process resumed
last.

There are no threads, files or messages: what is hard is the *order of control
transfers* (any process may call any operation of any other, begin and run a
simulation inside a simulation, end it, reschedule itself), *pointers that
outlive what they point to* (`_ev` after `clear`, `_s` after the level ended),
*ties in time*, and *assertions* that assume who is running. `PROJECT.json`
lists these hazards with their lines.

What makes each component correct:

- coroutines: the two pointers of a call agree, chains of calls end, nobody
  enters a dead coroutine, whoever detaches has somewhere to go;
- sequencing sets: one line sorted by time, insertions where the comments say,
  the two implementations indistinguishable;
- processes and scheduler: who runs has its notice and is `current`, who has a
  notice can be resumed, time never runs backwards, no notice is taken twice,
  control returns to the scheduler;
- levels: `run` returns when its simulation has ended, nesting does not break
  the above;
- handles: counts are the handles bound, whatever is deleted on the way; an
  object lives as long as it is used and no longer; no process is deleted in
  the middle of its own operation or while somebody can still enter it;
- random numbers: no two generators draw the same numbers of the common
  sequence, and a value is computed from different numbers;
- a program: no wake-up and no job is lost, the simulation ends;
- summaries (`counter`, `histogram`, `accum`): what is reported is true of what
  was observed since the reset;
- statistics by replication: every number of a result is computed from the
  observations it should be, of the replications it should be, without the
  transient; no vector is read beyond its end.

## Modules

| module | what it is |
|---|---|
| `Coroutine` | `coroutine.cc`: an action for each operation, with every FATAL message, assertion and endless loop |
| `CallChains` | what coroutines promise, without pointers: sequences of coroutines, each calling the next |
| `MCCoroutine` | refinement mapping of `Coroutine` to `CallChains` |
| `EventOrder` | the order of notices as a relation, and what each operation does to it |
| `SeqSet` | the sequencing set that class `sqs` declares, whatever holds it |
| `SqsDll`, `SqsPrio` | the linked list; the map of bins with its iterators and length; both with their refinement mapping to `SeqSet` |
| `MCSqs` | the three given the same calls |
| `Process` | the kernel: EXTENDS `Coroutine` (control) and `EventOrder` (the order of the notices); processes, scheduler and levels |
| `Handle` | reference counts, with handles inside objects |
| `Random` | the windows of the common sequence that generators take and draw from |
| `MCRandom` | three distributions for `Random` |
| `Ownership` | the kernel driven through handles: `Process` with what keeps a process alive, and its deletion |
| `Mm1` | a program on the kernel: the queue of `test/mm1.cc`, EXTENDS `Process` |
| `Replications` | statistics that keep observations by replication: `repmean`, `bmeans`, `bmeans2`, the graphs of `welch` and `jain`, with the removal of the transient |
| `Summaries` | variables that keep a summary of their observations: `counter`, `histogram`, `accum` |
| `MCStatistics` | a program with one statistic of either kind, and the bounds |
| `CoroutineProofs`, `EventOrderProofs`, `SeqSetProofs`, `ProcessProofs` (with those of `Ownership`), `HandleProofs`, `RandomProofs`, `ReplicationsProofs` (with those of `Summaries`), `Mm1Proofs` | the theorems |

### How state and actions correspond to the code

`Coroutine`: `caller`, `callee`, `terminated`, `current` are the fields of those
names; `alive` says which objects are constructed. A stack is not modelled:
`enter` changes `current`. The loops `while ( c->_callee ) c = c->_callee` are
`Leaves`: the members of the set reached from `c` that call nobody (the set is
defined as the least closed one, so that the theorems need no recursion). When
there is no leaf the loop does not end and the outcome is `"hang"`. Any halt,
by a message, an assertion or a hang, sets `outcome`, keeps the other variables
and ends the behaviour.

`Process`: control is explicit. An action is one call made by the running
program or process, up to the next switch of context. `ev` is the time of the notice a process points to
(`_ev`), `queued` says whether that notice is in the set; they differ for
*dangling* notices, of a set that was cleared or deleted, because `clear` does
not tell the processes. An operation that would use a dangling notice's
iterator halts with `"undefined"`. `before` is the order of the notices;
`curProc` is `sqs::_current`; `levels` is the stack of `simulation`. `clock` and
`dispatched` are history variables of two properties. Operations with a time
ask `time()` first, as the code does: `TimeFault` is what happens when there is
no current process or it has no notice. Log messages that call `evTime()` of
another process, and so may fail, are part of the action.

What the programs in view do not do, and the model therefore leaves out: ask
for a time before now or a negative delay (a precondition of `insertAt`,
`sqsDll.cc:72`), drop the last handle to a process they go on using, delete
the stack they run on, or build a new sequencing set while a process still
points to a deleted one. A process returned
from `inner_body` is not rebuilt at the same address.

`SeqSet` and `Process` use the same operators of `EventOrder`; `SqsDll` and
`SqsPrio` are shown to implement `SeqSet`, so the order `Process` uses is the
order both implementations have.

`Handle`: an object has one handle as a member, named by the object itself, so
that deleting an object releases the next one. `count`, `bound` are
`_sharedCount` and `_obj`; `Named` are the handles a program can write down: its
variables and what `operator->` leads to. The recursion of `unget_ref`,
destructor, `unBind` is `Deleted`: the least set of objects all of whose users
go. `h = g` releases `h` before it reads `g`, as `operator=` does; `h = h`
therefore leaves `h` null. `weak_handle` is left out.

`Ownership`: a program calls a process only through a handle, and processes are
deleted while the simulation runs. `var` are the handles of the program, `local`
one on the stack of each process's body, `curProc` is the handle `sqs::_current`,
and a process with a notice has the one in it: `queued`, or `forgotten` when a
list was cleared or deleted without deleting its notices (`sqsDll.cc:180`). The
counts are not repeated: `Handle` shows that a count is the number of handles, so
a process is deleted by the step after which it has none (`Collect`). A handle on
the stack of a deleted process is never released, since the stack is freed and
not unwound (`coroutine.cc:96-102`). Every step but `Rebind` is a step of
`Process` and every `Rebind` leaves its variables alone, which is proved. Handles
that are members of processes are left out: what a deletion releases in turn is
the subject of `Handle`. Calls through a raw pointer, through `firstProc()` or
through `notice()->proc()` are left out too. A deleted process is not built again
at the same address.

`Mm1`: `pc` says where the body of each process stands, by the name of its next
call, so that an action is a step of `Process` together with what the body does
up to the following call. `srvQueue`, `snkQueue` are the lists of server and
sink; `inHand` the local handle `j` of source and server; `left` is history.
`Exited` is the program that has returned, which changes nothing. The actions
follow the text of the bodies: `queue.empty()` is tested once, before the sleep.
Random times are any of `Gap`. The statistics the bodies update are left out.
The constructor of a job and the statistics ask `time()`; that they may is part
of `RunsWithoutFault`.

`Random`: all uniform generators step through one sequence of numbers, and
`_globalSeed` is where the next generator begins. A *place* of the sequence is a
window and an offset in it; `globalSeed` is the first window nobody has taken,
`mySeed` and `seqLen` are `_mySeed` and `_seqLen`. Numbers themselves, and the
formulas that make a distribution of them, are left out: `Class` tells the
distributions apart by how many numbers of which of their uniform generators a
value takes. A value is computed in the steps `Value`, one `Draw` for each
number, perhaps `Reject` (the loops of `rngGam` and of the truncated normals),
and `Return`; nothing else happens in between, as nothing else can in the code.
`spare` are the normals that keep the second value of a pair, which `reset` does
not drop (`rng.cc:529`).

`Replications`: a program has one statistic, of any of five classes; it updates
and resets it and asks for a result. Values of observations are left out: the
i-th observation of replication r is `<<r, i>>`, and a result is the set of
observations behind each number of it. So `ob` is `_ob` of a graph, `kept` the
`_ob` of the removal of the transient, `means` what `repmean::reset` gave to its
`_m_all`. `lens`, the number of observations of each replication, is history for
the properties. Counts that nothing reads (`_numUpdates` of the statistics,
`_numResets` of the removal) are left out. `Remaining` is `trremoval::value`; the
fraction is a quotient of integers, where the code multiplies by a float, so that a
product just below an integer may drop one observation less than the model. `At`
reads a vector as the code does, without a check of the index; `NULL` is what is
outside. How a program ends is its `outcome`: a result, an exception
(`t_assert`), an assertion before anything is computed, or one of those in the
loop of `welch::report` (`"window"`). `value` and `report` change nothing, so
following a program beyond its first result would show nothing new; the same for
a program that catches the exception of `repmean::reset`, which is thrown before
any change. `bmeans::report`, which reads the same observations with a table of
other batch sizes, is output. The result of `bmeans2` has two numbers: its mean,
and the one batch mean its interval rests on (see Findings); its tests for
independence depend on values, and may fail.

`Summaries`: `min`, `max`, `bins`, `total`, `lastUpdate`, `lastVal` are the
fields; `seen`, the observations since the reset, is history. Observations are
integers, so a quotient by the width of a bin is exact but where it should be a
whole number: there the code, which divides by a rounded width, may count the
observation a bin lower, and `BinsOf` has both. `_sum` of a counter is left out.

## Runs

All variables are bounded by the constants alone, except where said. Runs of
the coroutines, of the kernel and of the ownership say `CHECK_DEADLOCK FALSE`: a
program halted by an assertion stops; the runs of the handles as well, since a
program whose behaviour is undefined is not followed, the run of the generators,
which stop at the bound `MaxWindow`, and that of the statistics, whose programs
end. The sequencing sets and the queue never stop: TLC looks for deadlocks there.

| run | bounds | shows |
|---|---|---|
| `coroutines` | 3 coroutines and the main program | `LinksAgree`, `ChainsEnd`, `DeadIsDetached`, `CurrentIsLeaf`; the pointers implement `CallChains` |
| `call_hangs` | the same | finding 1 |
| `sequencing_sets` | 4 processes, 3 times | books of the map, the same first in both, both refinements |
| `one_level` | 3 processes, 1 sequencing set, times 0 to 2 | the properties of one simulation at a time |
| `nested` | 3 processes, 2 sequencing sets, times 0 to 1 | the properties that nesting keeps |
| `cancel_detaches` | as `one_level` | finding 2 |
| `handles` | 3 objects, 2 variables | `CountsHandles`, `OnlyRingsLeak` |
| `handle_assign` | the same | finding 3 |
| `random_numbers` | an Erlang generator with k = 2, a truncated normal and a gamma generator; windows of 2 numbers, none taken beyond the seventh | `WindowsShareFirst`, `PairsDiffer`, `NeverDrawsBack` |
| `statistics` | graphs: 6 replications of at most 5 observations, half window 1; means and batches: 3 replications of at most 8, a warm-up of 1 or a third removed, batches of 2; `bmeans2`: 2 replications of at most 13, 2 batches, rebatched to 1; summaries: values -2 to 5, a histogram of 2 bins from 0 to 4, times to 3, 4 observations between resets | `MeansOfReplications`, `BatchesPartition`, `GraphsReadFinished`, `WindowsCentred`; `ExtremesRight`, `CumulativeRight`, `SumIsIntegral` |
| `mm1` | a simulation of 5 units of time, gaps and services of 1 or 2, so at most 5 jobs; liveness | `NobodySleepsOnWork`, `EveryJobHasAPlace`, `FirstComeFirstServed`, `RunsWithoutFault`; `SimulationEnds`, `JobsLeave` |
| `ownership` | 3 processes, 1 sequencing set, 2 variables, time 0 | `RunningIsHeld`, `DeletedHasNoNotice`, `DeletedIsOut` |

Why these bounds are enough to meet the cases: three coroutines make a chain of
two calls with another root to resume meanwhile, and coroutines are deleted and
rebuilt; four notices at three times make ties of every size, insertions in the
middle of a tie, bins that empty and come back; three processes are the running
one, the one it acts upon and one more in the set that changes who is first;
two sequencing sets are an inner and an outer level, each of which can run out
while the other has notices. Three objects make a list whose head is released
by its tail's user, a ring of two with something hanging from it, and an object
used twice; two variables let one keep what the other releases. The three
distributions have five uniform generators, one alone and two pairs; seven
windows let each be reset, or run out of numbers in the middle of a value, while
others take windows in between. The graphs want five ended replications, so the
sixth is under way when they are drawn; five observations are more than the four
half windows that `welch` wants, so there are graphs with points at the start,
where the window shrinks, in the middle and at the end, and shorter replications
beside longer ones. Eight observations leave, after either removal, three batches
of two or less, with and without a rest; thirteen leave `bmeans2` more than the eight it
wants. Eight values around a histogram from 0 to 4 are below it, on each bound of a
bin, between them, above, and on both sides of -1. In the queue, services as
long as two gaps let jobs pile up, and gaps longer than services let server and
sink fall asleep; with gaps of one, a job arrives at the very time at which
another leaves or the simulation ends. The ownership has all its handles at one time,
since what matters is in what order notices and handles go.
These bounds are on counters: `MaxTime`, a `hold` or delay beyond it is not taken
(in `mm1` none is, by its assumption); `MaxWindow`, no window beyond it is
taken; `Limit`, the replications and observations of a program; `MaxSeen` and
`LastTime`, the observations and times of a summary.

The runs but `mm1` assume no fairness: what they show is safety. That a simulation
ends, or that a process gets its turn, depends on the program being simulated:
two processes that `hold(0)` in turn starve all others (`sqsDll.cc:67-69`), and the
mutant of `SimulationEnds`, a sink that polls, does that. So liveness is stated of
a program, the queue of `test/mm1.cc`, and assumes `WF_mm1Vars(Mm1Next)`: the one
thread of the program, which whoever has control runs on, does not stop for no
reason. Nothing is assumed of who gets control; that is the scheduler's choice,
and it is deterministic. The random times are positive, as an exponential one is
but for rounding.

### What holds as long as no process runs a level itself

TLC refutes five properties of `one_level` when a second sequencing set is
added, which is why they are not in `nested`. Nesting alone does not break them:
they are proved under the hypothesis `NobodyNests`, that no *process* waits in a
`run()` of its own, and `OneLevelIsFlat` shows that a program with one sequencing
set meets it. Where a process does run a level, whoever of the inner level gives
up control gives it to the end of the chain that starts at the main program
(`coroutine.cc:290-292`), which is not the scheduler that resumed it. So a process
of the outer level gets or loses control while the inner simulation is alive:

- `RunReturnsWhenOver`, `DanglingMeansOver`: a process of the outer level runs
  an inner simulation; the end of the outer one returns control to the main
  program with the inner one alive, and processes with dangling notices can
  still run;
- `TimeIsMonotone`, `NoticeTakenOnce`: the outer scheduler resumes again a
  process it resumed before, on the notice it already took, so that `events()`
  counts more than the notices processed (`simulation.hh:55`);
- `ControlToOwnScheduler`: the process of one level detaches to the scheduler,
  or the program, at the end of the main chain, not to its own. The comment of
  `hold` says that control goes back to "the scheduler, which will select the
  next event notice from the sequencing set" (`process.cc:86-88`): with two
  levels `hold` of a process of the outer level can end in the main program.

The same hypothesis is needed for one part of `DeletedIsOut`: a process of an outer level that
waits in `run()` for an inner one, is cancelled by another process of its level
and loses its last handle is deleted while it calls, and the assertion of
`~coroutine` (`coroutine.cc:101`) fails. The other parts (`DeletedNeverUsed`), `RunningIsHeld` and
`DeletedHasNoNotice` are proved for any nesting.

### Findings

1. `call` of a coroutine without a caller whose chain ends at the one that calls
   hangs; the FATAL message meant for it (`coroutine.cc:277-280`) comes after the
   loop that does not end. In the run the main program resumes a coroutine, which
   calls itself; the last of the chain of a resumed coroutine may call that
   coroutine as well. One that was called has a caller: calling it again
   stops with "Cannot call an attached coroutine" (`coroutine.cc:269`).
2. `cancel` detaches the process it cancels, not the one that runs; the FIXME
   assertion of `detach` (`coroutine.cc:297-299`) fails when the running
   process has just activated another "now".
3. `h = g`, with `g` inside an object that only `h` kept (a list's
   `head = head->next`), reads `g` after `unBind` has deleted that object
   (`handle.hh:116-121`), though the object is said to be destroyed when no
   handles are using it (`handle.hh:42-44`). No program under `src/` does this.

Observations that have no run of their own:

- The graphs of `welch` and `jain` take `numResets()` for the number of
  replications (`welch.cc:72`, `jain.cc:60`), but the first replication begins
  with the constructor and `reset` "starts a new replication" (`welch.hh:39`): what
  is observed after the last reset is in no graph. `test/mm1.cc` and
  `test/qn.cc` reset before every replication but the first, so their graphs
  lack the last one. `GraphsReadFinished` states it as it is: the
  point `p` is of the `p`-th observations of every ended replication, and of none
  of the last; its one exception is the last point of `jain`, below.
- `counter` and `histogram` take -1 for "no value yet": a minimum of -1 is
  replaced by the next observation, whatever it is. `test/mm1.cc:183` records
  negative times in a counter. `ExtremesRight` leaves out only this case.
- `bmeans2` adds up the square of `Y_bar[i]`, with `i` one past the end, once for
  each batch (`bmeans2.cc:147`): what is there is one of the 200 first batch means,
  left by `resize`, so that the width of the interval depends on one two-hundredth
  of the observations. The sums for the new batches drop their last observation
  (`bmeans2.cc:131`), which changes only the test for independence. Both are of
  floating-point squares and products, which the model does not have:
  `BatchesPartition` is about the mean of `bmeans2` only.
- The ranks of `quantile` (`quantile.cc:79-83`) pass the end of the vector when
  there are few observations: with one, `j` is at least 2.
- `activate` does not put a process "in front of the sqs" (`process.hh:52`) when
  the running process has moved its own notice to a later time: `now` is then
  that time, and the process goes behind earlier notices. `ActivatedRunsNext`
  says when it does: if the process that runs is one of the same set and still has
  its notice at the time at which it was resumed.
- `trremoval_frac::value` says "Need at least one observation" and throws with
  exactly one (`trremoval.hh:102`); `bmeans` says "less than 2 batches" and
  throws with exactly two (`bmeans.cc:74`). What `bmeans` shows as autocovariance
  adds squares, not products of neighbours (`bmeans.cc:92-93`).
- `jain::report` never computes the last truncated mean (`jain.cc:97`) and plots it
  as 0, and as a relative change of -1, though the graph is of the "Mean of the
  last n-l obsertations" (`jain.cc:106`) for every `l` below `minSize`. The model has
  this point as the mean of nothing, and `GraphsReadFinished` as its exception.

One more behaviour is in the model, and no document contradicts it: with the
simulation not yet run, the first `activate` from the main program
works and the second aborts, because `time()` asks the null `_current` of a set
that is no longer empty (`process.cc:262`, outcome `"no current"`).

A window yields one number more than its length, since `value` tests `_seqLen`
before it decrements it (`rng.cc:91`): the last number of a window is the first
of the next one. The code's comments do not say otherwise, so `WindowsShareFirst`
states it as it is. A generator that takes two windows in a row uses that number
twice running, which is why `PairsDiffer` is about distributions with two
uniform generators.

## Proofs

The theorems hold for any sets of coroutines, processes and sequencing sets, any
`MaxTime`, any depth of nesting, from the named assumptions of the modules: `NULL`
and `Main` are not coroutines (`MainAssumption`, `NullAssumption`), the coroutines are
the processes and the sequencing sets (`PartsAssumption`), times are natural numbers
(`TimeAssumption`, `MaxTimeAssumption`), `NULL` is no process (`ProcAssumption`) and no time.
Those about one component name what else they need below. `KernelInv` and `Mm1Inv`, the
inductive invariants of the kernel and of the queue, were checked by TLC on the
instances of `nested` and `mm1` before they were proved, `HistogramInv` and `IntegralInv`, of
the summaries, on that of `statistics`.

- **Coroutines** (`CoroutineInvariant`). `CoInv` is the conjunction of the
  properties. Each needs the others: `call` closes no ring only because the
  caller is a leaf (`CurrentIsLeaf`) and the called one has no caller; the
  coroutine entered is alive only because whoever is linked is
  (`DeadIsDetached`). `ChainsEnd` is stated over closed sets, not over paths:
  every closed set has a leaf. That is first-order, is preserved by adding and
  removing one link, and gives that every loop ends (`LeafExists`).
- **Chains of calls** (`PointersImplementCallChains`). The mapping to `CallChains` takes
  a set of pointers to a set of sequences. `Threads` are the sequences that follow
  `_callee` from a coroutine without caller to one without callee. Nobody has two
  places in them (`OnePlace`: go back from the first place where two differ), so
  `ChainFrom` finds the only thread of a head (`ChainFromThread`) and a loop over
  `_callee` its last member (`ThreadLeaf`). What has to be added to `CoInv` is
  `Threaded`: everybody is in a thread. In an infinite set of coroutines that does not
  follow from `ChainsEnd`, which says nothing of what leads *to* a coroutine. Then
  `call` joins two threads (`JoinThreads`), `detach` and the end of a main cut one
  (`CutThread`), and each step of the pointers is the step of the same name or
  changes no chain. The end of the loop in `call` is the end of the called chain,
  and is not the caller, so the two are different chains: that is where the
  halt of finding 1 is needed.
- **Order** (`EventOrderProofs`, `SeqSetProofs`). One lemma per operation says
  that it keeps a line a line sorted by time. The interesting ones are insertions
  next to `q`, which look only at the time of `q`.
- **The list and the bins** (`ListImplementsSeqSet`, `BinsImplementSeqSet`,
  `PrioBooksAlwaysAgree`, `AlwaysSameFirst`). A list, or the bins one after another,
  spell an order: a set of pairs. One lemma says which pairs an insertion at a
  place adds; the step is then that `SeqSet` adds the same. `ListInv` and `BinInv`
  say that the list, or the bins, are sorted and hold who has a notice, once;
  for the bins also that no bin is empty and that the iterators in the notices and the
  length are right, which is `PrioBooksAgree`. Given the same calls both are in the same
  order (`BothInv`), hence `SameFirst`.
- **Kernel** (`KernelInvariant`). None of the kernel's properties is inductive:
  that a running process has its notice depends on who could have given it
  control. `ControlInv` says how control can be: only sequencing sets are
  called and they call nobody; a sequencing set has control only when called; a
  process `HasControl`, itself or through a set it runs, only while its own set
  is being run and calls it current; no process runs the set that schedules it.
  With `OnlyRunCalls` a chain has at most two members, so `detach` goes to the
  main program or to the set it called (`LeaveToScheduler`). `NoticesInv` is
  about notices alone, and `QueuedLive` ties the two. The proof has a step for
  each action, by groups: those that keep control, those that give it up, the
  scheduler's step, the levels.
- **Levels and time** (`LevelInvariant`, `FlatInvariant`). `LevelInv` holds at any
  depth: a scheduler that has resumed somebody and has not ended is being run, a process
  not yet built has no notice, and while a process has control nothing in its set is scheduled before the
  time at which it was resumed. That gives `ActivatedRunsNext`: the notice that is put
  before that of the running process is before all others. `FlatInv` holds as long
  as no process runs a level (`NobodyNests`): only the process that runs was
  dispatched by its notice; in a simulation that has not ended nothing is scheduled
  for a time gone by; a dangling notice means that the simulation is over. With it,
  `TimeIsMonotone`, `NoticeTakenOnce`, `ControlToOwnScheduler`, `DanglingMeansOver` and
  `RunReturnsWhenOver`. The theorems are of the form `Spec /\ []NobodyNests => ...`;
  the hypothesis is about the program, which decides who calls `run()`, and
  `OneLevelIsFlat` proves it for every program with one sequencing set.

- **Handles** (`HandleInvariant`), for any finite numbers of objects and
  variables. The induction needs that a count is exactly the number of handles
  that *exist* and are bound, and that the handle of an object not built is
  null. A release deletes a least set: it takes in every object whose last user
  goes (`DeletedClosed`), and all users of its members go with it
  (`DeletedUsers`), so no count is decremented below what remains
  (`ReleaseCounts`) and what a variable leads to survives (`NamedSurvives`), in
  particular the handle that is assigned to. `OnlyRingsLeak` then is about finite sets:
  an object that nobody can reach has a user, which nobody can reach either; going
  back from user to user among finitely many objects, one comes round.

- **Generators** (`RandomInvariant`), for any distributions, window length and
  `MaxWindow`. `SeedInv`: the generators are in different windows, all taken.
  `TimesInv` is the strengthening of `WindowsShareFirst`: a place that somebody
  has still to come to was drawn less often than it may be, which has four cases
  for the first place of a window. `PairInv` gives `PairsDiffer`: the two
  generators of a distribution have the same length left but between their two
  draws, so they change windows together. `NeverDrawsBack` follows from
  `LatestInv`, that a seed is not before the place drawn last.

- **Ownership** (`HandlesImplementKernel`, `OwnershipInvariant`). The kernel's
  invariant is used, not proved again: every step of `Ownership` is a step of
  `Process` or leaves its variables alone, so `KernelInv` holds. On top of it,
  whoever is deleted has no handle; a process with a notice is kept by the handle
  in it, whether its list has it or has let it go; and who has control is
  `current` of its sequencing set, hence held, which is what `ControlInv` of the
  kernel gives. A process without handles can therefore only be one that neither
  runs nor has a notice, and, as long as nobody nests, one that nobody can enter
  (`DeletedIsOut`).

- **Queue** (`Mm1ImplementsKernel`, `Mm1Invariant`), for a simulation of any length and any
  times between the events of a station, from `ProgramAssumption`: the stations are
  different processes, gaps are at least 1, at most one job is created in each
  unit of time, and `MaxTime` is out of reach. The program's steps are steps of the
  kernel and there is one level, so all of `KernelInv`, `LevelInv` and `FlatInv` holds
  (`Ground`). `Mm1Inv` adds where the bodies stand. That a station with work does not sleep
  (`StationInv`) rests on `MovingInv`: a job that has a notice is the next to run, and there
  is at most one, since a job is activated and not delayed. So whoever wakes a
  station, or puts a job into its queue, does it before the station can run
  and find the queue empty. `PlaceInv` ties the lists to the bodies: a job is in the
  list its body says, once. For `FirstComeFirstServed`, a job is at one of six *stages*,
  from not created to gone, and `OrderInv` says that the jobs come on in the order of their
  creation and that the lists are sorted. That no call halts the program is
  part of `Mm1Inv`; with `StationInv`, no station wakes to an empty list
  (`RunsWithoutFault`).

- **Summaries**, for any observations, bounds, number of bins and times. The extremes are
  -1 or the true ones, by cases of the sentinel (`ExtremesAreRight`). The other two
  are about sums over finite sets of integers, which are folds in an order of `CHOOSE`.
  Such a sum is *counted* instead: `Weight` is the number of units its elements have, less
  the number they owe. Counting obeys the recurrence of the fold (`WeightAdd`), whose
  solution is unique, by a set of least size where two would differ (`RecurrenceOnce`);
  so a sum is its weight (`SumIsWeight`). What the proofs use of sums then follows from facts about
  cardinality: a sum over disjoint sets (`SumUnion`), of functions that agree (`SumSame`), of
  a constant (`SumConstant`), with one element one larger (`SumOneMore`).
  `HistogramInv` strengthens `CumulativeRight`: the bins count every observation once, and
  the bounds hold of every row but the last, not of those the report prints, which change
  with each update. An update keeps it because its bin, either of the two that rounding
  may choose, is not beyond a row whose bound is above the value nor before one whose bound
  is below (`BinPlace`). The rows left out are empty, as the rows before hold all
  and no bin is negative (`RowsHoldAll`). `IntegralInv` adds to `SumIsIntegral`
  that `_lastVal` is the last observation and that none is later than `_lastUpdate`: an
  update changes nothing of the values in force before it (`ValuesBefore`), and from the
  update before on there is one value (`ValuesInForce`), so the sum grows by a rectangle.

- **Statistics by replication** (`ReplicationsInvariant`), for any warm-up, proper
  fraction, half window, batch size and any bounds. `GraphInv` and `KeptInv` say
  that the vectors hold the observations of the replications they are meant for,
  each at its place; `KeptInv` needs the count of the removal to be the number
  of observations of the current replication, which is what clearing it in
  `reset` gives. The results then follow by arithmetic: a fraction of n is less
  than n (`FractionOf`), intervals of one size cover the places up to a multiple
  of it (`BatchPlaces`), the shortest replication bounds the others
  (`GraphPlaces`, from the well-foundedness of the naturals, as `MinSize` is a
  choice), and a window that begins at most at `minSize - wsize` stays inside.
  For `bmeans2`, the largest multiple of the number of batches is bounded the same way.

Proved as `Spec => []P`: `CoroutineTypeOK`, `LinksAgree`, `ChainsEnd`,
`DeadIsDetached`, `CurrentIsLeaf`, `DetachFindsAnother`, `LineOfNotices`,
`FirstIsEarliest`, `PrioBooksAgree`, `SameFirst`; `TypeOK` of the kernel,
`LineOfEvents`, `QueuedCanResume`, `SwitchesSucceed`, `RunningHasNotice`; `TypeOK` of the
handles, `CountsHandles`, `BoundAreBuilt`, `OnlyRingsLeak`; `TypeOK` of the generators,
`WindowsShareFirst`, `PairsDiffer`; `TypeOK` of the statistics, `MeansOfReplications`,
`BatchesPartition`, `GraphsReadFinished`, `WindowsCentred`, `ExtremesRight`, `CumulativeRight`,
`SumIsIntegral`; `OwnTypeOK`,
`RunningIsHeld`, `DeletedHasNoNotice`; of the queue, `NobodySleepsOnWork`,
`EveryJobHasAPlace`, `FirstComeFirstServed`, `RunsWithoutFault`.
Proved under `NobodyNests`: `DanglingMeansOver`, `RunReturnsWhenOver`, `DeletedIsOut` and the
action properties `TimeIsMonotone`, `NoticeTakenOnce`, `ControlToOwnScheduler`; the action
properties `NeverDrawsBack` and `ActivatedRunsNext` are proved without it. Proved as
refinements: the pointers implement `CallChains`, the list and the bins `SeqSet`, `Ownership`
and `Mm1` the kernel. What is proved for all instances is not checked
again where it is a part of what a run checks: the type invariants but the
kernel's, `DetachFindsAnother`, `LineOfNotices`, `FirstIsEarliest`, `BoundAreBuilt`
and `QueuedCanResume` are in no run.

Only model-checked: the liveness of the queue, `SimulationEnds` and `JobsLeave`, as
liveness and `ENABLED` are out of the proof system's reach. The three properties that
the findings refute are, of course, not proved.

## Not modelled, and why

- `sqsCal.cc`: compiled by no Makefile (`EXTRA_DIST`), refused by `makeSqs`
  (`sqs.cc:75`), and abstract, as it has no `clear`.
- `mrand.c` and its table of seeds `mrand_seeds.h`, 10006 of the 16705 lines of
  `src/src`: not compiled either, as is `trace.cc`. More than half of the
  lines of the library are thus no program's code.
- The second variant of coroutines (`sjlj_copy`: `setjmp` and `longjmp`, with the stack
  copied aside and back, `coroutine.cc:122-230`) makes the same transfers of control
  and is not compiled where `ucontext` exists.
- Logging and reports write text nothing reads; `resource.hh`, `exactvar.hh` are used by
  nothing.
- Floating-point results: the distributions of `rng.cc` and `statfun.cc`, the
  recurrence of the generator, confidence intervals, `mean` (two sums and a
  formula) and the ranks of `quantile`.
- `abatch`, `trremoval_R5` and `trremoval_MSERm` are abstract classes, as their
  `update(const double&)` does not override `update(double)`, and no program can
  make an object of them.
- The other programs under `src/test`: `qn.cc` is a closed network of servers like
  that of `mm1.cc`; the rest exercise one component each.

## Plan

Done: coroutines; sequencing sets; processes, scheduler and levels; handles;
their composition; a program on the kernel, with liveness; generators; statistics by
replication and summaries; all their safety properties and all refinements proved.

Next, in this order:

1. The program with the statistics of `mm1.cc`: replications that begin and end while
   the generators and the removal of the transient are reset.
2. Handles that are members of processes (the queues of `mm1.cc`) in `Ownership`.
