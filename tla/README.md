# A verification development for the Tau language

Tau (`src/`) runs specifications: a formula says at every time point how the
outputs of a program relate to its inputs and to the past, and the interpreter
plays it step by step, also while the specification is being revised by what it
writes itself. This directory holds TLA+ modules of the parts of that machinery
whose correctness is a matter of control: what happens in which order, what
survives a failure, a retry or a revision, and what two threads or processes do
to each other. TLC checks the modules on small instances; TLAPS proves the
theorems in `*Proofs.tla` for all values of the constants.

Line numbers refer to files under `src/src/` unless a path says otherwise.
`PROJECT.json` maps every definition to the lines it stands for.

## The system

| Part | State | Operations | Interacts with |
|---|---|---|---|
| Interpreter (`interpreter.tmpl.h`) | `time_point`, `formula_time_point`, `lookback`, `highest_initial_pos`, `ubt_ctn` (continuations, one list of alternatives per part), `original_spec`, `step_spec` and its memo, `memory`, `last_outputs_` | `make_interpreter`, `step()`, `step(values)`, `update`, `reset`, `prune_memory`, `maybe_gc`, `run` | satisfiability (verdicts, continuations), a step provider (solution of a step), the streams, the REPL and the API as drivers |
| Pointwise revision (`interpreter.tmpl.h`, `pointwise_revision.h`) | the alternatives of each part | `plan_update`, `pointwise_revision`, `finalize_alternatives`, `compute_part_continuations`, `first_solvable_alternative` | satisfiability; the update comes from the output stream `u` of the step just played |
| Step providers (`interpreter.tmpl.h`, `table_step_provider`) | a game strategy: vertex, step it plays from, values before it; a composite: its parts; the table provider: its state | `produce`, `read_set`, `reset`, `rebase` at an update | called by `step(values)`, replaced by `update` |
| REPL (`repl_evaluator`) | the run session, the pending request | `run`, `run N steps`, a continuing `run`, `stop`, `reset`, an answer, the continue? gate | drives `api::step`; its console streams are read by the interpreter |
| Streams (`io_context`) | pending values, the handed-out value, file cursors | `get`, `set`, `put` | read by `interpreter::read` |
| API (`api.*`) | none of its own | `step`, `get_inputs_for_step`, queries | wraps each call in `with_budget` |
| Budgets (`tau_memory_budget.h`, `bounded_call.h`) | nesting depth, the bdd-table flag, the time-budget note, a shared deadline | `with_budget`, `time_budget_handled` | raised by the bdd library and the bit-vector solver |
| Bounded calls (`bounded_call.h`) | a child process and its pipe | `run_bounded` | bit-vector questions to cvc5 |
| Subprocesses (`spawn_capture`) | a process group, a pipe, a watchdog thread | `spawn_capture` | `ltlsynt`, external compilers |
| Bounded cache (`bounded_cache.h`) | a map and a queue of its iterators | a map's operations, live bound | the synthesis-game cache and others |
| Satisfiability (`satisfiability.tmpl.h`) | none | `is_tau_formula_sat`, `transform_to_execution`, `always_to_unbounded_continuation`, `find_fixpoint_phi` | normalizer, solver |
| The data game (`ltl_aba_data_game.tmpl.h`) | the arena, the regions of the solver's frames, the recorded moves, the vertex of a play | build, solve, decide, play a step | regions are BDDs with their own collection or formulas; the strategy goes to a step provider |
| Synthesis (`ltl_aba*`, `algorithm_d_game.h`, `ltl_strategy_minimize.h`) | skeletons, strategies | skeleton, `ltlsynt`, minimisation | `spawn_capture`, the game cache, the data game, the table provider |
| Type inference (`ba_types_inference`, `type_scoped_resolver`, `union_find.h`) | scopes, classes of nodes, their types, what has been rewritten | `open`, `close`, `insert`, `assign`, `merge`, `infer_ba_types` | a traversal of the formula, called by the parser and the REPL |
| Formula layer (trees, parser, normalizer, quantifier elimination, solver, Boolean algebras, code generation) | interned trees and memo tables | rewriting | everything |

Hard behaviours, with their lines, are the `hazards` of `PROJECT.json`. In
short:

* **Time.** The formula is asked `lookback` steps after a revision, memory is a
  sliding window, fixed positions pin values for ever, and the step
  specification is memoized ahead of the step. Off-by-one errors here show up
  only for particular mixtures of lookbacks and revisions.
* **Failure and retry.** A step may fail after it calculated, read its inputs, or
  committed outputs. The REPL relies on that: a step without its console value
  is abandoned and entered again, so everything it did before must be repeatable.
* **Revision.** The new behaviour is a list of alternatives tried in order. The
  promise in the language reference (`src/README.md:3383-3453`) is about
  infinite runs; the code decides it with satisfiability checks on formulas.
* **Games.** A specification with temporal operators becomes a parity game over
  infinite data. The solver frees memory while it recurses, gives up and tries
  another representation, and its strategy is a patchwork of the recursion's. The
  strategy must survive failed steps, updates that replace it from the values just
  played, and resets that go back to a step it was not solved for.
* **Scopes.** Types are unified while scopes open and close, and are written into
  the tree when a scope is left, before everything is known.
* **Processes.** `run_bounded` and `spawn_capture` kill what takes too long while
  it may be finishing, in the presence of interrupted calls, dying parents and
  helpers that inherit the pipe.
* **Limits.** Cache bounds changed at run time, `max_revision_alts`, `poll`'s
  largest time-out, a full bdd node table.

## Modules

### BoundedCache, FifoMap, BoundedCacheProofs

`BoundedCache` is `bounded_cache<K, V, Cmp, Max>`: `map` is `map_`, `order` the
`std::list` of map iterators, an iterator being the key of its entry, so that a
dangling iterator is a queue element outside `DOMAIN map`. One action per
operation; `on_insert`'s eviction loop is `Create`, with the number of entries it
evicts in closed form (`Excess`). `born` and `inserted` are history.
`FifoMap` is what the class comment promises: no queue, only the age of every
entry; an insertion keeps the youngest. `ImplementsFifoMap` is the refinement.

### StepClock, StepClockProofs

The interpreter without values: `memory` is the set of time points whose values
are held, a continuation is its lookback and its fixed positions, and a step
specification is a record saying which instance of which revision it is, what
was quantified away and which fixed positions memory was folded into. Actions:
`Prepare` (an input read that fails, or `get_inputs_for_step`), `FailStep`,
`Step`, `Update` (any lookback and fixed positions the update may name, relative
to the clock) and `Reset`. `asked`, `settled`, `start` and `preset` are history:
what was asked when, which literals were solved, and which steps were revised
over a failed attempt.

### Revision, MCRevision, RevisionProofs

One part of a specification as the interpreter revises it. A letter is what the
input and the output stream hold at one step; the body of an `always` clause is
the set of its *frames*, pairs of consecutive letters, with the lookback it is
written with. Satisfiability is by meaning: `Winning` is the greatest fixpoint
(`find_fixpoint_phi`) the transform computes, `Living` the same with inputs read
as outputs (the `live` check). Everything after that follows
`pointwise_revision`: alignment of lookbacks, conjunction, the gate, the last
resort, duplicates, the cap, the implied update, the unchanged revision, which
alternatives get a continuation. The alternatives are numbered, in order, by a
function on a finite set of numbers: one that is dropped leaves its number unused,
and the last resort takes the number after the last. `Step` plays the first
alternative that solves.
An accepted update restarts the warm-up (`warm`), as documented
(`src/README.md:3440`), whether or not it changes anything; a rejected one
changes nothing.

The scope is one part with `always` alternatives, lookback 0 or 1, one input and
one output stream; checks always decide; duplicates are found by meaning where
the code compares formulas; an update has no references to memory. Where an update
has the shorter lookback, its body is shifted (`interpreter.tmpl.h:4509`) and asks
of a step what the update asks of the step before; the last resort is the update as
it is written. The properties ask for the update as it is written, of the alternatives
that are bound to it (`Binds`, `Level`; see *Known limits*).

### ReplRun, MCReplRun, ReplRunProofs

A run session. `console` and `file` are the input streams with the members of
`repl_pending_input_stream` and `file_input_stream`; `pending`, `retry` and
`steps_done` are the evaluator's. A line of input may hold several commands
(`queued`). The loop of `continue_running` is one action per outcome of an
iteration: budget spent, inputs lacking, step done, step paused, step failed.
`Read` is the set of streams that `interpreter::read` reaches before it stops.
`ReadInputs` happens in the failing step too: that is what the hazards are about.
A request carries whether its session is still the running one (`own`); one that
is not takes the next line (see *Known limits*).
`run 0 steps` is left out.

### BoundedCall, SpawnCapture, ProcessProofs

`BoundedCall` has the parent, the child's main thread and its watchdog thread,
and a clock in ticks; `poll` may be interrupted at any time, the parent may be
killed at any time, the work may answer, die or go on for ever. The child's watchdog,
which is a detached thread, runs or never does (`watch`), as `Fork` chooses. Where it
runs it looks once a tick, before or after anything else in that tick: a tick is longer
than the 100 ms between two looks. What it looks at does not hold the clock.

`SpawnCapture` has the caller, the watchdog thread, the command and one process it
may start. The pipe reads as ended when nobody holds its write end; the drain ends as
well when `read` fails (`ReadFails`). A process may ignore SIGTERM. Helpers stay in the command's group. The Windows branches of both
are not modelled.

### WorkBudget, WorkBudgetProofs

What runs out during a piece of work. `calls` is the stack of open `with_budget`
calls and `time_budget_handled` scopes (each remembers the note of its caller),
`full` the flag that a bdd node table is full, `note` the time-budget note, `over`
that the tree store is at its cap, `cache` what the tree caches hold. `with_budget`
is `RefuseFull`, `RefuseOver`, `Enter` and `Leave`; work inside and outside of
units is `TableFills`, `Decide`, `RunOut`, `Hit` and `Memoize`; the REPL's own
boundaries are `CommandDone` and `LineDone`. A value carries no mark of what it was
computed from: `doubt` and the word `"doubtful"` in a cache are history that
follows it. `full`, `note` and the caches are all the code has to know it by.

### DataGame, MCDataGame, DataGameProofs

One solve of the data game and one play of its strategy. `BuildArena` is the
arena: the skeleton's states, two sinks for the inputs or outputs no edge allows,
a vertex for every coloured target. A region is the set of *windows*, the value of
the input, of the output, and of the output one step back, that satisfy it; `Pre`
is the controllable predecessor with its quantification over inputs or outputs and
the shift at the end of a system move. `data_game_solver::solve` is recursive; the
model keeps its frames on `stack`, and every visit of an attractor to a vertex is
a step, because between two visits the solver may collect BDD nodes: what a frame
does not hold then becomes any region (`Collected`). `GiveUp` and `RoundsSpent`
abandon a representation and `modes` goes on to the next, as the code goes from
BDDs to formulas that eliminate quantifiers and to closed formulas whose truth the
type's owner decides (which gives a verdict, and no strategy). `Play` and `PlayFails`
are `data_game_strategy`: the input moves the vertex, the outputs are solved for
in the moves recorded there, and a step without an answer leaves the vertex where
it is, to be repeated with its inputs.

`IsGame` is assumed of every game: its edges stay in it and an environment's guard
does not read the output, which `build_data_arena` checks of each label
(`ltl_aba_data_game.tmpl.h:98`, `:112`; it refuses the skeleton otherwise). That the
environment moves first and the players take turns is not assumed: `Readable` asks for
it, and a game that fails it is undecided.

The reference is stated on the skeleton, without arena or recursion: a position is
won when the system wins from it against every positional choice of inputs
(`SystemWins`, on the graph of what remains).

### GameStep, MCGameStep, GameStepProofs

The interpreter that plays such strategies, from outside of them. The parts of a
`composite_step_provider` are numbered; a part is the streams it chooses, its strategy's depth, the step
its step 0 is (`offset`), the values from before that it starts from, and the path
of inputs and outputs that brought it where it is. A value is the number of the
attempt that made it, so that a value taken from the wrong step, stream or attempt
is a different one. Actions: a step taken; a step that fails in the k-th part (at
its start, its reads, or its outputs, when its inputs are already taken), or when
outputs are committed; an update (which parts it touches, in which order its
candidates are judged and what the game says of each, whether it goes on from the
played values); a reset, with the strategies it can solve again from step 0.
`memory` and its pruning are those of `StepClock`, with the values. History:
`given` is what every step was given and delivered.

### TypeScopes, TypeInference, MCTypeInference

`TypeScopes` is `type_scoped_resolver` on top of `scoped_union_find` and
`union_find_by_less`: an element is a scope and a name, a parent function with the
smaller root kept, a type stored under the root. Every operation returns the
resolver it leaves, or one with a fault.

`TypeInference` is the walk of `infer_ba_types` that uses it. The formula is not
given: it is chosen as the walk goes, so that TLC walks all formulas up to the
bound. `nodes` is the formula so far, a node being the number of the scope it opens,
and `at` the node walked. `transformed` maps what a node reads (`Text`) to the types in
its copy, by place: a quantifier is rebuilt from what was written for nodes that read as
those in it and otherwise from what was written for one that reads as itself
(`Copied`, which is `update_default`); only leaves without a type are then given one.
`typed` is the formula returned. `facts` is history and the reference: the sets of
elements the formula equates and the types given for them, with no scopes, roots or
order; `Join` is the type they come to.

## Runs

| Run | What it asks | Bounds and why they suffice |
|---|---|---|
| `cache_runtime` | queue mirrors map, insertion order, refinement of `FifoMap` | 3 keys, bound in {0, 1, 2} changed at any time, 5 insertions: an insertion can evict two entries, and an erased key can be inserted again |
| `clock` | reads held, step specification current, clauses and literals asked on time, memory bounded, warm-up ends | lookback to 2, fixed positions one ahead, 5 steps, 2 revisions: two windows that move against each other and one revision during the warm-up of another |
| `revision` | update followed, old specification kept, an answer for every input | over the current step: all 16 bodies over 2 inputs and 2 outputs, and a disjunctive update; looking back one: bodies of one or two literals, and the bodies of the exception under *Known limits*; two updates in a row, of either lookback; two alternatives at most, so that the second update meets the cap |
| `repl_run` | budget, answers, rows, return of a bounded run | two console streams, so that a step can be entered three times, a file that ends after two of 3 steps, and a second command on a line |
| `work_budget` | missing answers reach their unit's result, units start clean, nobody is blamed for another's | one question, one value, three calls and scopes open: a unit in a unit in a unit, and a scope in the second |
| `bounded_call` | truth of the outcome, return, end of the child | time-out 3 ticks, grace 1, horizon 7: one tick before and after every deadline; with the child's watchdog and without |
| `spawn_capture` | signals, whole output, return | 3 polls and 2 in the grace time; one helper; a read that fails at any time |
| `data_game` | winner of every position, worklist, recorded strategy never broken and accepted | two environment and two system states, Boolean streams, three shapes of edges that copy, flip, hold and toggle, 0 to 2 as the colours of two states or of the edges of two states, a game without colours and one with two moves of a player in a row: recursion over three priorities, both players' attractors, rounds that reach the cap of 3 |
| `game_step` | what a strategy reads, what it played, what it continues, what it was solved for, which candidate is taken | two output streams, one strategy or two side by side, initial depths 1 and 2, updates of depth 0 and 2, four steps, one failure, two updates, one reset: a part kept over one update and revised by the next, within its lookback |
| `type_inference` | sets, types, refusals, types of the formula returned | two variables, one constant, the default, a type without parameter, a family with and without its parameter; five scopes opened: a variable bound again in an inner scope, and an atom before and after it; a quantifier and its atom, once inside another quantifier and once beside it |

Where a run checks deadlock, the system never stops; a cfg that does not check it
bounds the steps, or the system ends as it should.

Two more runs, `repl_row_lost` and `type_mixed`, each show a documented claim the
code does not keep; see *Findings*.

Fairness. `StepClock!FairSpec` assumes that the driver goes on calling `step()`
and that steps succeed again and again: `InitialSegmentEnds` is about the clock of
a run that proceeds, not about solvability. `ReplRun!FairSpec` has the loop and the
rest of a command line proceed by themselves (they wait for nothing) and a user
who, asked again and again, eventually types a value that parses (strong fairness
of `Answer(TRUE)`). `BoundedCall!FairSpec` schedules the parent and the clock, and
the child only once it has its answer; nothing is assumed of the work, of `poll`
(it may be interrupted for ever, until the deadline) or of the child's watchdog.
`SpawnFairSpec` schedules the caller and the watchdog, not the command.
`DataGame!Spec` is fair to `Next` as a whole: the solve is a loop, and the play is
that of a caller that keeps asking for steps; which inputs it gives, and which
steps fail, is free.

Every property has a mutant in `PROJECT.json`: a definition of the code changed the
way a plausible bug would, under which TLC finds the property violated. The mutated
forms are in the modules next to the definitions they change.

## Findings

* `repl_row_lost`: a file stream read before a console stream loses a row whenever
  the step waits for the console (`io_context.tmpl.h:204`).
* `type_mixed`: an atom that reads the same as one of an enclosing scope, where its
  variable is another one, overwrites what was written for the constant of the outer
  atom (`ba_types_inference.tmpl.h:1721`): the tree then equates a variable and a
  constant of different types. A quantifier that reads as an earlier one keeps the
  earlier types in the same way (`:852`): both `x` of `ex y:sbf (ex x x = y) && ex x x = y`
  end `sbf`, the second equated with a `y` of type `tau`.

## Known limits

What the properties leave out, because the code does otherwise. No run is made of
these; each is named in the comment of the property it limits, or here.

* After the end of a file an accepted console value is asked for again, without end
  (`repl_evaluator.tmpl.h:928`): `NotAskedAgainBeforeTheEnd` and `BoundedRunReturns`
  leave out steps that read an ended file.
* The request of a replaced or ended session takes the next line
  (`repl_evaluator.tmpl.h:737`).
* A conditional alternative is played without look-ahead and may lead to a step that
  nothing solves, for example `o1[t]=i1[t-1]` revised by `o1[t-1]=1`
  (`interpreter.tmpl.h:3105`): `NeverStuck` leaves out the steps after the part has left
  the region its last alternative can be played in (there is none outside of it when
  nothing looks back). `OldSpecKept` asks only that an alternative and the update are
  kept where they can hold together from that step on.
* An update is judged to be implied by the alternatives that can be executed against
  every input (`interpreter.tmpl.h:4417`, `is_tau_impl`), which is the last one; the
  part then stays as it is, with its conditional alternatives, and one of these may,
  off the runs of the last one, do what the update forbids. Three bodies show it
  (`Loose`, `Strict` and `Stricter` in `MCRevision`):
  `o[t-1]=1 && o[t]=1 || i[t-1]=0 && i[t]=0 && o[t]=0`, updated by
  `o[t-1]=0 && o[t]=0 || i[t-1]=0 && o[t-1]=1 && i[t]=o[t]`, leaves the conjunction of
  both as a conditional alternative before the update alone; a second update that adds
  `i[t]=1` to the second disjunct is judged implied, and the conditional alternative goes on
  to play `o[t]=0` after `i[t-1]=0, o[t-1]=1`. `src/README.md:3406` says that the
  part stays unchanged if "the `G` parts of the alternatives already imply the
  clause", and this one does not. `UpdateIsFollowed` leaves these steps out: its
  last disjunct holds of them only.
* Where an update and the part look back differently far, the one with the shorter
  lookback is read a step back (`interpreter.tmpl.h:4517`), and an alternative played
  without look-ahead (`:3105`) then ignores it at the step in hand: `o[t]=i[t-1]`
  updated by `o[t]=1` becomes `o[t-1]=1 && o[t]=i[t-1]` before `o[t]=1`, and after
  `i=0, o=1` the first of them plays `o=0`, which `src/README.md:3420` ("otherwise only
  `update` is" executed) does not allow. `UpdateIsFollowed` asks for the update as
  written of the last alternative always, and of the others when the update looks back
  as far as the part (`Binds`). `OldSpecKept` is stated for clauses that look
  back equally far (`Level`).
* The window of memory starts over at every update, also for a strategy the update
  keeps as it runs and which looks back over it (`interpreter.tmpl.h:2954`):
  `LacksOnlyAsKept` allows these steps.
* A reset that cannot solve a rebased strategy again refuses its steps; a second
  reset plays it as it is, from step 0 (`interpreter.tmpl.h:1998`):
  `SolvedForItsStart` leaves it out (`refused`).
* When a part of a composite provider fails, or an output cannot be committed, the
  parts asked before it have moved, although the step was not taken and is tried
  again (`interpreter.tmpl.h:2032`); the same holds of a part that took its inputs
  in the failed attempt, when the retry has others. `PlaysTheHistory` and
  `ContinuesWhatWasDelivered` leave these runs out (`slipped`).
* Without the defaults, a quantified variable without a type is typed at its scope,
  but its occurrences stay untyped and may be given, at an outer scope, the type of
  another variable of the name (`ba_types_inference.tmpl.h:1774`; for example
  `(ex x x = y) && x = z:sbf`): `WrittenTypesHold` leaves them out.
* A quantifier that reads as an earlier one is given the copy of that one, and an atom
  that reads as an earlier one overwrites its copy, with the defaults too:
  `WrittenTypesHold` allows a leaf the type of the leaf at its place in a node that reads
  as the whole scope it is bound in, and nothing else. The run reaches both.
* A `read` of the command's pipe that fails, other than interrupted, ends the drain
  (`spawn_capture.tmpl.h:416`), and what was read so far is returned as the output of a
  command that may still be running, which is then waited for without a limit:
  `OutputIsWhole` and `CaptureReturns` leave out these calls (`unread`).
* The child of a bounded call whose watchdog never runs may outlive its parent:
  `ChildEnds` is about the others.
* A bounded call with a limit over `INT32_MAX` ms ends there (`bounded_call.h:156`).
* `CaptureReturns` leaves out a command that closes its stdout and runs on:
  the watchdog stops when the pipe is drained, and `waitpid` has no limit.

## Proofs

Assumptions are the named `ASSUME`s on the constants, nothing else.

`StepClockProofs`. The safety properties are not inductive: `ReadsHeld`, for one,
speaks of the next step only, and what a later step reads depends on where the
window goes. The invariant adds four parts. `ClockInv`: the formula is phrased
`lookback` steps into the revision and at the clock from there on. `HeldInv`:
memory holds nothing of the future, every past fixed position, and the executed
part of the window. `AttemptInv`: values for the step in hand are held only after
a failed attempt at it, which built its specification or was revised since.
`SpecInv`: what a built step specification is, and where in the initial segment it
can be met. `HeldInv` is why pruning is safe: the window's end moves by one only
when the clock does, so it never reaches back to what the step before dropped, and
an update starts its window at the clock. `SpecInv` is why nothing stale is solved:
a specification memoized for this time point is the one that would be calculated
now, unless `update` or `reset` forgot it. `MemoryStaysBounded` is an action
property from the same invariant and the cardinality of an interval.

`BoundedCacheProofs`. The invariant is the type invariant, `QueueMirrorsMap`,
`QueueInInsertionOrder`, and `BornBefore`: every held entry was inserted before
the next ordinal. Insertion needs that the queue without its first elements is a
queue of what remains (`PopSkips`), erasure that removing the first occurrence of
a key from a duplicate-free queue removes that key (`UnqueueSkips`).
`Refinement` maps each operation to one of `FifoMap`, or to a stutter, from the same
invariant: that eviction takes the entries `FifoMap` takes is that the queue's first
elements are the oldest (`QueueInInsertionOrder`) and that it has as many elements as
the map has entries.

`WorkBudgetProofs`. That the outermost unit reports what was missing says nothing
of where doubt may hide meanwhile. The invariant does: `DoubtIsMarked`, as long as
anything doubtful is computed or cached the flag is up or the unit has its note
(its own, or the one an open handled scope set aside), and `Recorded`, whatever is
marked ran out in this unit. Nesting needs the shape of the stack: handled scopes
are innermost and inside a unit, so that closing one gives the note back to a unit.

`ProcessProofs`, `BoundedCall`. `OutcomeIsTrue` relates what is returned to a byte written long
before by another process. `ByteInv` follows the byte: what is in the pipe or was read
from it is the work's answer; `ChildInv` and `StatusInv` say which ends the child and
the call can have come to, `DeadlineInv` that no wait ends before the limit.
`RestInv` and `WatchInv` say what a watchdog at rest has seen in this tick, from
which `ChildDoesNotLinger` gets its bound; the clock waits for no child.
`OutcomeHolds` and `ChildDoesNotLinger` are for any work, any kill of the parent and
any interruption of `poll`. The former assumes `LimitFitsPoll`, that one `poll` can wait out the
limit, which is the limit named under *Known limits*; the run's constants satisfy it.

`ProcessProofs`, `SpawnCapture` (whose specification has the prefix `Spawn`, so that one
module extends both). `FiredInv`: whoever ends a process has said before that it
fired. `CallInv`: the caller goes on to reap only when the watchdog is over, which is
why no signal can reach a recycled group. `OutputInv` and `DrainedInv` give the output,
which is whole unless a read failed.

`ReplRunProofs`. `StreamInv`: a stream that awaits a value has none, and a value
handed out belongs to the time point it was handed out for. `RequestInv`: a request is
for the step in hand. `AnsweredInv`: the streams before an open one have their values,
so that at most one is open, the one asked for. `FileInv` counts rows. Two theorems
have a premise. `AcceptedIsNotAskedAgain` assumes `RowsParse`: a step given up for a
row that does not parse makes its last request again, as at the end of a file.
`RowsFollowTheSteps` assumes `FileReadLast`, one file, read after the console streams,
with rows that parse: otherwise a step can be given up after it took a row, which
`repl_row_lost` shows. The constants of the run `repl_run` satisfy both.

`GameStepProofs`. `ClockInv` and `MemoryInv` say what memory holds: of each step, what
it was given and delivered. `ContinuesInv` then says where the values before a
strategy's start come from, also through a chain of updates, each of which reads some
of its values from memory and some from the strategy it revises; `ReadyInv`, that only
a strategy from step 0 chooses them itself. `WindowInv` is the argument about depths:
the window and what is held reach as far back as a strategy reads, or to its start, or
to an update that kept it as it ran, for any depths and number of parts.
`SolvedInv` adds to `SolvedForItsStart` that a part which could not be solved again is
known as one. The theorems leave out what the properties leave out (`slipped`,
`ownStart`, `refused`), each named under *Known limits*.

`RevisionProofs`. The invariant is `Sound`: a part's alternatives stand in order of
strength, and exactly the last one can be executed against every input. A revision
keeps it because the bodies are aligned to one lookback, which keeps the order
(`AlignedWeaker`), so that the disjunction the gate asks about is the last body
(`GateIs`): if it can be executed it stays, is no duplicate of another, and is what
the cap keeps; if not, none can, and the update, which can, comes last. `Winning` and `Living`
are greatest fixpoints, and all that the proofs use of them is that (`WinningAnswers`,
`LivingGoesOn`). `NeverStuck` is then the last alternative's strategy;
`UpdateIsFollowed` and `OldSpecKept` follow from what each alternative of a revision
is made from (`RevisedFrom`), that the strong ones are still there (`KeptIsRevised`),
and `HistoryInv`, that the part is what its last update made of the part before.
That an alternative obeys the update as it is written has three causes: the last one goes
on for ever (`GoesOnObeys`, `LastObeys`), so that an update read a step back is obeyed at
the next step too; one as deep as the update has it unchanged (`LevelObeys`); a part left as
it is implied it (`UnchangedObeys`). They hold for any inputs, outputs, bodies of lookback 0
or 1, and cap.

`DataGameProofs`. The recursive solver is a stack of frames, so that what one call of
`solve` promises has to hold for every frame at once. `IInv` has four parts beyond the
types.

* `StackOK`: every frame solves a *subgame*, in which the system always has a move, and
  `Link` ties it to the subgame it has had solved: what it took away for that is attracted
  to what it keeps (`SubLink`), or is won, by moves that stay in it (`RestLink`).
* `SolveInv`: an attractor under way holds what it has attracted (`Holds`: from there the
  system's recorded moves lead into the attracted region and the environment cannot leave
  it), and a result shares the subgame out and gives the system moves at each of its
  windows of its own share that stay in that share (`Result`, `Closed`).
* `NothingMissed` itself is inductive: a vertex without a mark reads no region that
  changed since its visit, because `Rework` marks all that do.
* `PlayInv`: where the strategy stands, every window that agrees with what was played is
  won, whatever is picked next.

`Free` is what makes the last step go through: a region tells windows apart only by what
has been picked at its vertex, so that a window in it may be given any input, or any
output, that the play then chooses. `StrategyNeverBreaks` follows: a won window has a move
that leads to a won one. The arena's part (`ArenaOK`, `TurnsOK`) is proved of
`BuildArena` for every game with `IsGame`, its sinks and coloured targets included.
TLC was run on this invariant, `TypeOK` apart, with the run's constants before it was
proved. The theorems hold for any games, any data and any number of rounds, over windows
of one input, one output and one step back. That the moves also win, which is `PlayAccepted`,
and that the shares are the right ones, which is `RegionsRight`, is not proved.

Only model-checked:

* liveness (`InitialSegmentEnds`, `BoundedRunReturns`, `CallReturns`, `CaptureReturns`,
  `PlayAccepted`), which needs fairness and `ENABLED`;
* `RegionsRight` of `DataGame`: its regions are compared with what `SystemWins` finds on
  the graph, by recursion over positional choices; that both find the same is the
  determinacy of parity games;
* `TypeInference` (all five): the resolver's roots are recursive over the chain of
  merges, and what a node reads over the nodes in it.

What these recursions compute for every input would need induction over data, which
the installed provers do not do.

## Not modelled

The modules stand for a small share of the repository's lines, because most of them
are the formula layer: trees, parser, printers, normalizer, quantifier elimination,
antiprenexing, the solver, the Boolean algebras. These are sequential rewritings
over infinite carriers; what they promise is the equivalence of formulas over
atomless algebras, which no finite instance shows, and a model of their rules would
restate them. The same holds of LTL synthesis (normalisation and builders around a
call of `ltlsynt`), code generation, ADT flattening and the API's facade. cvc5,
Spot, `ltlsynt` and the bdd library are external. `components` in `PROJECT.json`
lists each part with its reason.

Inside the modelled parts these are left out:

* Interpreter: the values of outputs that default to zero, the table provider, the
  sweep of trees, part merging and `sometimes` goals of a revision, memory references
  in an update.
* Data game: how the skeleton comes out of `ltlsynt`'s HOA, how formulas and BDDs
  represent regions, the play of a Mealy machine, skeletons with more streams or a
  deeper lookback, algorithm D and the minimisation of strategies.
* Game steps: the values themselves; which reads and labels are unknown.
* Type inference: function symbols, casts, terms at the top, streams the session
  knows, nat terms. Conjunctive bodies are rebuilt right before their scope is left.
* Processes: the Windows branches, the command's stdin file, deadlines of bit-vector
  questions.

## Plan

Done: StepClock, BoundedCache, WorkBudget, ReplRun, BoundedCall, SpawnCapture, Revision,
GameStep and DataGame with their proofs, TypeScopes and TypeInference.

The eight proof modules state a theorem for every safety invariant of a run except
`RegionsRight` and those of `TypeInference`. Left:

1. `TypeScopes`: that closing a scope keeps the types of the scopes around it, with the
   roots given by an invariant on the parents instead of by their recursion.
2. Action properties of the proved modules: what an update may not change in `GameStep`,
   and that time never goes back except at a reset in `StepClock`.
3. A refinement for `ReplRun`: the budget alone, as a counter of steps.
4. The table provider of the interpreter, whose position moves before its step is known
   to succeed.
