# d-optimas in TLA+

d-optimas is a distributed multi-agent optimiser: agents run meta-heuristics,
regions hold pools of solutions, and one elected leader creates, feeds, splits
and stops regions and decides when the simulation ends.  The parts are Akka
actors in a cluster.  Benchmarks run against CoCO, a C library the repository
carries with it and reaches through JNI: it makes the test problems, enumerates
them, counts evaluations and writes the results.  This directory models the
actors' control and CoCO as the Java side drives it, model-checks both with TLC
and proves central invariants of the actors with TLAPS.  Java paths below are relative to
`src/src/main/java/br/cefetmg/lsi/bimasco/` of the repository; a bare number
like 33049 is a line of `src/native/coco.c`.

## 1. Inventory

### Parts, state, operations

| part | source | state | operations that change it |
|---|---|---|---|
| leader | `actors/SimulationActor.java` | free and used region ids, `regions[]` (references of registered regions), `regionsSummary[]`, global statistics, clock, status | start, stop, solution result, region split, region register, region summary, release, clock |
| roulette | `util/RegionSelector.java`, `actors/StatisticsHelper.java` | none | picks a used region, weight 1 / variation rate |
| region actor | `actors/RegionActor.java` | a `Region`, the last global summary, started | create, solution response, global summary, stimulus (split), stop, solution request (a reply), merge messages (never started) |
| pool | `core/regions/Region.java` | list, two statistics, best solution | add a collection, split, clear |
| agent actor | `actors/AgentActor.java` | timer, started, lifetime, global time and size | create, start, stop, stimulus (work or request), response, global summary |
| memory | `core/agents/QLearningMemory.java`, `core/agents/Agent.java` | table region -> Q, best solution found | update of the used regions, reward and eviction, reset |
| main | `actors/MainActor.java` | references | start of the system, end of a simulation -> `Terminate` |
| benchmark | `actors/BenchmarkActor.java`, `coco/` | current problem, evaluations, running | evaluate, budget, next problem |
| services | `api/` | none | start, stop, state queries by ask |
| heuristics | `core/heuristics/` | populations, temperatures, counters | loops under a stop condition |
| persistence, extraction | `persistence/`, `data/` | Cassandra tables, CSV files | writes that the simulation never reads |
| CoCO: problems | `coco.c` (vectors, raw functions, transformations, constraints, suites of functions) | a tree of problems around a raw function, each with its declared optimum, counters and best observed value | get, evaluate function or constraint, free |
| CoCO: suites and options | `coco.c` (options, ranges, suites) | lists of functions, dimensions and instances with items filtered out; a cursor for each; the current problem | make from options, next problem, find by number or by name, free |
| CoCO: observers, loggers | `coco.c` (observers; bbob, toy, rw loggers) | triggers, best value so far, open files; globals of the bbob logger that outlive it | evaluate, free; finalize an observer |
| CoCO: bi-objective logger, archive | `coco.c` (AVL tree, `logger_biobj`, `coco_archive`) | two AVL trees over the same points, indicator values, the file of nondominated solutions | evaluate, free, feed a solution; add, next solution, hypervolume |
| CoCO: interface | `src/native/CocoJNI.c`, `coco/` | pointers kept as `long`s in Java objects | the calls above |

### How they interact

Regions and agents are sharded persistent actors; every message goes through a
mailbox that is first in first out per sender.  A region tells the leader about
itself with `UpdateRegionSummary`, `RegionRegister` and `RegionSplit`; the
leader answers with `CreateRegion`, `SolutionResponse`, `UpdateGlobalSummary`
and `StopSimulation`.  Agents send `SolutionResult` to the leader and
`SolutionRequest` to regions.  Stopping is synchronous: inside one message
handler the leader *asks* every agent, then every region, and joins the futures.
While it waits, everything else queues up; when an ask times out the join
throws and the stop is abandoned half way.  Each release advances the clock,
and the clock may start a stop of its own: `stopAgentsAndRegions` is reached
recursively through `onRegionRelease`, `calculateGlobalParameters` and
`increaseTime`.

`BenchmarkActor` is the one caller of CoCO.  It makes a suite and an observer,
fetches problem after problem, evaluates each through `BenchmarkProblem` and in
the end finalizes observer and suite; CoCO frees a problem, and thereby its
logger, when the next one is fetched or the suite is finalized.  A problem
handed out under an observer is the logger wrapped around the problem, so that
one call moves the counters of the problem and the files of the logger.  All
of this is sequential: CoCO's mutex is never contended, because every
evaluation is a message to the same actor.  (It covers the counters, 2819-2842,
but not the comparison with the best value, 2886, which would matter to a
caller with threads.)

### What is hard, and what should hold

* The pool of ids is split over two lists and changed by creation and release
  only; late messages, stops and restarts must never lose or double an id
  (`IdPartition`), create a region over a living one (`CreateFindsNobody`) or
  leave an id with two owners (`IdsOwned`).
* Stops interleave with regions that are being created, with results and splits
  under way, with the clock (`StopEnds`, `StopEmptiesRegions`, `ClockExpires`).
* Solutions travel through three kinds of messages and are cut up by splits;
  none may be lost or doubled (`SolutionsConserved`, `SplitPartitions`).
* Every decision to split compares a region with global statistics that were
  computed from summaries sent earlier (`QuietMeansInformed`).
* The pool keeps two statistics and a best solution beside its list
  (`StatisticsAgree`, `BestIsLinked`) and cuts at one deviation from the
  mean, with ties, empty halves and single solutions (`SplitSeparates`,
  `SplitNarrows`).
* A benchmark's turn passes from the last evaluation through the leader to the
  agents and back, while agents that gave up on an evaluation, or were stopped,
  leave theirs behind in a mailbox (`OneTurn`, `StartedAgentsAgree`,
  `ImplementsSuite`, `SuiteProceeds`).
* The memory of an agent is bounded, evicts, and receives rewards for regions
  that are gone (`MemoryIsBounded`, `DropsTheWorst`, `OnlyLateAnswersAreStale`,
  `QIsBounded`); its rewards are measured against the best solution it
  remembers, which near ties and resets must not spoil (`BestIsNearLeastSeen`).
* A problem of CoCO is a raw function behind up to ten transformations.  Each
  one translates the point on its way in, the value on its way out, and the
  optimum when it is allocated; the last is separate code that evaluation never
  runs, so a mistake shows only as a wrong target (`DeclaredBestIsBest`,
  `NadirIsReached`).  Building a problem evaluates it, and so do tests of
  feasibility; the counters must not show that (`HandedOutFresh`,
  `CountersAgree`).
* Suites are cut down by two lists of options, by value and by index, over
  items that keep their place as zeros; three functions move the cursors and
  reset one another, and numbers are computed over the uncut lists
  (`ImplementsEnumeration`, `NumbersFindProblems`, `PairsAreDistinct`).
* The bbob logger decides whether a header is due from globals that survive
  problems, observers and suites of the same process (`InfoTellsTheRuns`);
  targets, number of evaluations and the last line have triggers that
  overlap (`LoggersTellTheRun`).
* The bi-objective logger updates its hypervolume from the neighbours of one
  new point in a self-balancing tree, and a reader must reconstruct its files
  from the nondominated points alone (`TreesAreSound`, `TreesAreFronts`,
  `IndicatorsMeasureFronts`, `ReadersReconstruct`).

PROJECT.json lists every hazard at its line, those without a property too.

## 2. Modules

| module | models | state and actions |
|---|---|---|
| `RegionStatistics` | the arithmetic both sides share | a summary is the record of n, sum and sum of squares; comparisons of variation rates and distances from the mean are cross-multiplied into comparisons of integers, so nothing is rounded |
| `Region` | `Region.java` with `FunctionSolutionAnalyser` | `AddSolutionsCollection`, `Split`, `Clear` |
| `Simulation` | leader, roulette, region actors, agents as producers, `MainActor`'s end | below |
| `QLearningMemory` | the memory as `Agent` drives it | `UpdateMemory`, `ProcessMetaHeuristic`, `Reset` |
| `BenchmarkSuite` | what a benchmark promises (specification only) | `problem`, `spent`; `NextProblem` needs the budget used up, `Evaluate` needs some left |
| `Benchmark` | `BenchmarkActor` with the leader's and the agents' part in a benchmark | below; implements `BenchmarkSuite` |
| `CocoVectors` | vectors, matrices, the random generator, rotations, permutations | operators |
| `CocoRaw` | the raw functions and their gradients | one operator per function |
| `CocoProblem` | `coco_problem_t`: allocation, evaluation through the layers, stacking, feasibility | a problem is a record; evaluating returns the problem with its counters moved |
| `CocoFunctions`, `CocoConstrained`, `CocoProblems` | the `f_*` allocators, linear constraints, and which of them a suite hands out for a function, a dimension and an instance | operators |
| `CocoEvaluation` | a problem from request to release | `cocoSuiteGetProblem`, `cocoEvaluateFunction`, `cocoEvaluateConstraint`, `coco_problem_free` |
| `CocoOptions`, `CocoSuite` | option strings and ranges; the contents, filters, cursors and numbers of every suite | operators on a suite record |
| `CocoEnumeration` | what a suite promises (specification only) | `agenda`, `handed`, `problem`, `over` |
| `CocoLogging` | triggers, observers, the bbob, toy and rw loggers, info files | operators on a logger record |
| `CocoExperiment` | benchmarks of one process, one after the other | `Begin`, `coco_suite_get_next_problem`, `coco_evaluate_function`, `coco_evaluate_constraint`, `finalizeBenchmark`; implements `CocoEnumeration` |
| `AvlTree` | the AVL tree | insertion, deletion, rebalancing, search on a heap of nodes |
| `CocoArchive` | points on a grid, the tree update, indicators, output modes, the archive | operators on a logger or archive record |
| `CocoFronts` | the bi-objective logger, a logger that reads its file, an archive that reads it too | one action per entry point |
| `RegionStatisticsProofs` | lemmas about folds over sets and lists, and about the arithmetic of summaries | |
| `RegionProofs` | theorems about `Region`: the pool, and what a split does to it | |
| `SimulationProofs`, `SimulationMessagesProofs`, `SimulationSolutionsProofs` | theorems about `Simulation`: the pool of ids and what a stop leaves; what the messages carry and who is informed; where the solutions are | |
| `BenchmarkProofs` | theorems about `Benchmark`: whose turn it is; what the agents work on | |
| `QLearningMemoryProofs` | theorems about `QLearningMemory` | |
| `CocoExperimentProofs` | theorems about `CocoExperiment`: the order and the numbers of problems; what the loggers and the info files tell | |
| `MCSimulation`, `MCRegion`, `MCQLearningMemory`, `MCBenchmark`, `MCCocoEvaluation`, `MCCocoExperiment`, `MCCocoFronts` | constants for TLC | |

In `Simulation`, `regionBox[r]` is what the leader sent to region r,
`regionMail[r]` what the region sent back, `agentMail[a]` the results of an agent;
each is a FIFO queue, and the leader takes the heads of its senders' queues in any
order.  There is one action per message handler, named after the method.  Two things are
not one action per handler:

* `stopAgentsAndRegions` blocks, and regions run while it does.  It is the
  stack `frames` (one frame per call under way: who called it, how many agents
  have answered), with the steps `StopAgent`, `AskRegion`, `AskTimesOut`,
  `OnRegionRelease` and `StopCompletes`.  No other handler of the leader is
  enabled while the stack is not empty (`LeaderIdle`).
* `onRegionSplit` and `onSolutionResult` place lists of solutions: `PlaceSplit`
  and `PlaceResult` compute the set of states the roulette may lead to, and the
  action takes one of them.

`mode` says why a leader handles no message any more: `spinning` (the roulette
never returns), `failed` (an exception), `exited` (after `Terminate`).

In `Benchmark` the leader again blocks while it stops the agents, here with its own
variables (`leader`, `asked`, `replied`); an agent's thread is `idle`, `running` a
heuristic, `waiting` for an evaluation or `unanswered`.  A heuristic may end in any
of these: with a result, with an empty answer, or because its ask timed out, in
which case its Evaluate stays in `evaluates` and is handled later, with whatever
problem the BenchmarkActor is at by then.  `spent[p]` is not a field of the actor:
it is the counter CoCO keeps with each problem, moved by `cocoEvaluateFunction`.
`problem` and `benchmarkProblem` are 0 before the first problem, and `Null` stands
for the null reference after the last.

The modules of CoCO are written as operators on records where the code has
functions on structures, named like those functions; only the three modules
`CocoEvaluation`, `CocoExperiment` and `CocoFronts` have variables and actions.  What the code keeps
in static variables (the list of dimensions of the bbob logger, its previous
function, the file it last wrote) is a variable of its own there, `bbob`, because
it outlives what it describes.  An operator whose intermediate results are
costly is split into helpers that take them as parameters.

### Abstractions

* Doubles are integers and exact; overflow and rounding are left out.  The
  tolerance of the analyser is a constant in the unit of the values, in the pool
  of a region and in the memory of an agent; both follow
  `FunctionSolutionAnalyser`.  (`BenchmarkSolutionAnalyser` compares exactly, and of two
  equal solutions prefers the first, where the other prefers the second.)  `seen` in `QLearningMemory` is a history variable: the
  code keeps no such set.
* Messages carry values, as between nodes.  In one JVM the summary objects and
  `regionUsedIds` are shared by reference; that variant is planned.
* A leader that failed is not restarted by its supervisor: what its fresh id lists
  then do to regions that live on is planned with `Cluster`.
* The leader is elected and every agent is created and registered.
* An agent produces lists of solutions it has not produced before, of a length
  in `ResultSizes`; how it gets them (requests, heuristics) does not change the
  leader or the regions.
* A region may split at any time its stimulus would let it, `MaxTicks` times.
  A stimulus that falls through the guard on a missing summary throws in the
  code and changes nothing.
* `Benchmark` has the agents' side of the simulation only: regions are a count
  of `SolutionResponse`s under way, every agent is registered before the first
  start, the leader's clock does not stop the simulation before the budget
  does, and a leader that waited too long for an agent stays `failed`.
* A budget of evaluations is at least 1: with 0 the comparison with `==` would
  never hold.  The abstract suite could not be implemented then, hence the
  assumption `EvaluationsBudgetAssumption`.
* `regions[]` is the set `registered`; persistence and logs are left out, and
  so is the time a region is told.
* CoCO's numbers are integers in quarter units: `One` = 4 stands for 1.0, a
  quarter being the coarsest grid on which the constants that place an optimum
  (0.5, 1.25, 2.5, 5) are exact.  Random rotations become signed permutation
  matrices, which are the orthogonal matrices over the integers.  A raw function
  keeps where its minimum lies, how it weighs its coordinates, which state it
  reads and its penalty; a root or exponential around a sum becomes an
  increasing function with the same zero.  Exactness of the arithmetic, and
  therefore rounding, tolerances and the scale of values, are left out; the
  chain of transformations, its order and what each does to the optimum are not.
* The targets 10^(k/n) of a logger are powers of 2, values are distances to the
  optimum in units of the precision.  Of a data file the model keeps the
  sequence of its lines, of a line the evaluation and the value.
* Bi-objective points are on a grid of `Steps` from ideal to nadir (2 * 10^12 in
  the code), volumes and distances in squares of that grid, distances with the
  integer square root.  The table of best known hypervolumes is a constant.
  The info file and headers of this logger, and the drift that adding and
  subtracting doubles causes, are left out.
* The objectives a bi-objective logger writes are read back exactly; the code prints
  them with `precision_f` digits (34820).
* After the answer that no problem is left the next problem is not asked for again.
  In the code the cursors would then start anew, and hand out the second problem and
  those after it; `BenchmarkActor` finalizes the suite on that answer.
* The check in `transform_vars_blockrotation` (5199) and the error on
  `COCO_MAX_INSTANCES` or more indices (31708) are left out.  The order that an
  evaluation asserts of its result is asserted of every layer, also where
  `shift_constraint_only` leaves the evaluation of the inner problem (4574).  The toy
  logger compares the value itself with its targets (35653), the model the distance to
  the optimum.
* The callers of `coco_archive*` and `coco_logger_biobj_feed_solution` are
  tools outside the repository; `CocoFronts` lets them do what `coco.h:555-589`
  allows.
* Memory, timing, directory calls and the conversion of arrays between Java and
  C are left out.  Options are parsed sequences, not characters; what happens to
  a name that occurs inside a value is kept.

## 3. What is model-checked

Bounds: `MaxStarts`, `MaxStops`, `MaxTicks` (stimuli), `MaxMail` (unhandled
results of an agent), `MaxPending` (Evaluates of an agent, and answers to it,
not yet handled), `MaxCollection` (one collection), `MaxUpdates` (rewards
between two resets), and the finite sets of solutions and values.  A run of
`Simulation` stops when its solutions are used up, hence `CHECK_DEADLOCK FALSE`.
Solutions with equal values are symmetric in safety runs; liveness runs use no
symmetry.

| run | instance | shows |
|---|---|---|
| `simulation` | 2 ids, 4 solutions, 2 starts, 1 stop, asks may time out, 1 split | types, `IdPartition`, `CreateFindsNobody`, `IdsOwned`, `StopEmptiesRegions` |
| `simulation_split` | 4 ids, 6 solutions, both halves of a split not empty | `SolutionsConserved`, `QuietMeansInformed` |
| `simulation_live` | execution time 5, restart, a stop on request, fairness | `ClockExpires`, `StopEnds`, `CreatedIsRegistered` |
| `region` | 6 solutions, two of equal value, a chain of near ties longer than the tolerance, outliers on both sides | all properties of the pool |
| `benchmark` | 2 problems, budget 3, a constructor and an agent fed by regions, 3 Evaluates pending | `OneTurn`, `StartedAgentsAgree`, the refinement `ImplementsSuite`, `SuiteProceeds` |
| `memory` | 3 regions, room for 2, 3 values in a chain of near ties, 4 rewards between resets | all properties of the memory |
| `functions` | every function of every suite except that `bbob-biobj-mixint` has three of its 92; 1 or 2 instances, 2 to 10 dimensions; 2 evaluations at the optima of all parts, their neighbours, corners, infeasible and non-finite points | `DeclaredBestIsBest`, `NadirIsReached`, `HandedOutFresh`, `CountersAgree`, `PairsAreDistinct` |
| `experiment` | ten processes of one or more benchmarks, over all suites and observers, options by value, by index, with gaps, out of range, and wrong ones | `NumbersFindProblems`, `InfoTellsTheRuns`, `LoggersTellTheRun`, the refinement `ImplementsEnumeration` |
| `fronts` | 16 points, all sequences of 3 of nine, all orders of five nondominated ones and one that dominates two of them, each output mode | `TreesAreSound`, `TreesAreFronts`, `IndicatorsMeasureFronts`, `ReadersReconstruct` |

Two ids are enough for the pool: an id is reused as soon as a stop released it,
a split needs more ids than are free, and the roulette has a registered and an
unregistered region to choose from.  Two starts around a stop bring messages of
a former life of a region together with its next one.  Six solutions are the
least that give a split three non-empty parts with a tie.  The execution time
is reached by a registration, by a summary and by a release, on request or not.
Two problems give one change of problem and the end of the suite; with three
pending Evaluates and a budget of three a whole budget can be used up by agents that
gave up, and a second agent is needed for the order of the stops.  `benchmark` runs
without a deadlock check because a leader that failed leaves everybody waiting.

In the runs of CoCO every bound is a parameter of the instance: `MaxCalls`, the
plans' limits on evaluations, `MayFollow`.  `DimLargeScale`, `MaxBlockSize`,
`COCO_MAX_INSTANCES` (17; no default list of instances is longer),
`bbob_number_of_dimensions` (2, so that the list overflows) and `Steps` replace larger constants of the code.
Two dimensions suffice for most functions because a transformation treats
coordinates alike; block-diagonal ones get more than one block, mixed-integer
ones at least one variable of each arity.  Two evaluations show a counter that
is moved by the wrong one.  Six points let the tree rotate at its root and
below it, single and double, and lose two nodes to one insertion; they are too few
for a substitute node with a child of its own and for rotations on several levels.  Plans with
two benchmarks are what it takes to meet the globals of another; a
plan's `wants` states by hand what its options should leave.  `experiment`
and `fronts` end, hence no deadlock check.

Runs that end in a violation show what the code does against what it, or a
document beside it, says (PROJECT.json quotes the lines):

| run | property | what happens |
|---|---|---|
| `split_exhausted` | `SolutionsConserved` | without a free id for the lower half of a split the *higher* half is sent to a region in its place: one half is lost, the other doubled |
| `roulette` | `LeaderTracksRegions` | a result arrives while no used region has registered: the loop of the roulette never ends |
| `suite_ends` | `SuiteEnds` | after the last problem the agents are started once more, with the problem of before, and their evaluations are never answered |

A split, moreover, is not followed by an `UpdateRegionSummary`: a leader on another
node keeps the summary from before it, which is why the second half of
`QuietMeansInformed` ends at the first split.  And what `RegionActor` logs of a
split ("Staying with the lower solutions") is not what `Region.split` does: the
middle stays, the lower and the higher solutions leave.  A region that is still
being created when a stop begins is not asked and lives on after it, which is
why `StopEmptiesRegions` speaks of the regions the leader knows of.  And where
values lie within the tolerance of their neighbours, the best solution of a pool
drifts away from the minimum step by step, since `getBestSolution` lets the later
of two near ties win.  `BestIsLinked` therefore does not promise a minimum; it says
that nothing but a chain of near ties, each later in the pool, can lead away from
it.  The memory of an agent does not drift (`BestIsNearLeastSeen`), as the older of
two near ties stays there.

What reading CoCO against its own documentation showed, without a run for it:

* `InfoTellsTheRuns` promises a line break before a header only in the first
  benchmark of a process.  In a later one a dimension still in the global list
  counts as a new file, and its header follows the previous line (33049-33061).
  The list of dimensions is written past its end once it is full (33064).
* `number_evaluation_triggers` is read and documented (36062) and never used:
  32533 fixes 20.
* A suite instance string with `year` at its very start followed by
  `instances` takes both, the second wins: 31897 asks for a position above 0
  where 31875-31878 says they exclude each other.
* `coco_suite_get_instance_from_instance_index` reads `functions[]` (31796).
* `coco_options_read` finds a name inside the value of another option (2309).
* An unusable `base_evaluation_triggers` leaves NULL, which is dereferenced at
  the first evaluation.
* An inactive constraint is numbered like an active one and keeps the gradient
  of the previous (30393).
* `logger_rw` prints integer variables twice under `log_discrete_as_int`
  (35909-35911).
* The last entry of an info file is completed when observer and suite are
  finalized (`BenchmarkActor.java:169`), not before; the error "must be closed" of the bbob logger is
  unreachable from the Java side, and so are `coco_problem_remove_observer`
  (36280) and a change of observer under way, which the model therefore lacks.

### Fairness

`FairSpec` is weakly fair to each actor for each of its queues: an Akka
dispatcher schedules every actor that has mail, and since a mailbox is first in
first out no sender's oldest message waits for ever.  The steps of a blocked
stop are fair because the handler runs on a thread of its own until an answer
arrives.  Agents producing solutions, the regions' timer, requests to start or
stop, time-outs and `Terminate` carry no fairness: nobody owes them.
`StopEnds` and `CreatedIsRegistered` allow for a leader that failed or exited.

In `Benchmark` a constructor's timer ticks (`WF` of its stimulus), a heuristic ends or
evaluates again, and an ask without an answer times out after a second, so a
blocked agent is blocked for a while only.  The leader's messages to an agent have
strong fairness: the agent is disabled for them again and again while it runs
heuristics, but its mailbox is first in first out and it has to come to them.
Nothing is assumed of regions, nor of the ask of the leader, which may time out at
any moment; `SuiteProceeds` allows for that failure.

## 4. What is proved

`SimulationProofs` proves for every number of ids, agents and solutions, every
setting and every bound:

* `PoolIsPartitioned`: `Spec => []IdPartition`
* `IdsAreOwned`: `Spec => []IdsOwned`
* `CreationsAreFresh`: `Spec => []CreateFindsNobody`

`IdPartition` is not inductive: a release puts an id back on the free list,
which is only right if it was used.  The invariant is

    PoolInv == Shape /\ IdPartition /\ IdsOwned

`IdsOwned` follows an id through its life: `CreateRegion` under way, then the
region started and `RegionRegister` under way, then registered, then asked to
stop with `StopSimulation` last in its queue, then released; two of these never
hold at once, and a free id is in none of them.  `Shape` has the types of the
variables the argument reads.  The proof has one lemma per action; the actions
that place solutions go through lemmas about `CreateIn`, `SendTo`, `PlaceHalf`
and `PlaceResult`, which say that a partition stays a partition.
`CreateFindsNobody` follows from the invariant.

The same module goes on from that invariant to

* `ClockNeverRestsAtItsEnd`: `Spec => []ClockExpires`
* `StopsEmptyRegions`: `Spec => StopEmptiesRegions`

with `StopInv == PoolInv /\ StartedIsKnown /\ TimeIsLeft`.  `StartedIsKnown`: a
region that lives is registered, or its `RegionRegister` is still on the way;
the release of a region keeps this because, by `IdsOwned`, a region that has
answered `StopSimulation` is not started.  A stop ends only in
`StopCompletes`, when nobody is registered, and a region with solutions is a
living one.  `TimeIsLeft`: time is short of `ExecutionTime` whenever no stop is
under way; the three handlers that advance the clock push a stop exactly when it
runs out, also when they run inside one.

`SimulationMessagesProofs` goes on to what the messages carry:

* `SimulationTypeIsKept`: `Spec => []TypeOK`
* `EverybodyIsInformed`: `Spec => []QuietMeansInformed`

The types need that an aggregate of summaries is a summary, a fold over a set, and
that what lies in a mailbox carries what its receiver reads.  For the second, with
`Undisturbed` (nobody has asked for a stop, none is under way):

    InformedInv == Finishing /\ (Undisturbed => Settling)

`Settling` says for each pair of sender and receiver that the *last* message of a
kind still in the queue carries the sender's present state, and that without one the
receiver already has it (`Tells`): the leader's global statistics towards every
registered region, and, until something is split, the summary of every region towards
the leader.  It also says that the global statistics are the aggregate of the
summaries the leader has.  A `RegionRegister` carries a summary and counts as a
report; the leader answers it, like a summary, by telling everyone it knows.
`Finishing`: without a request to stop, every frame is one the clock pushed, so
that no restart follows it.

`SimulationSolutionsProofs` counts the copies of each solution:

* `NoSolutionIsLost`: `Spec => [](EnoughIds => SolutionsConserved)`

`EnoughIds` is that a free id is left, or that `MinRegions + 2 * ticks` ids exist (a
tick splits one region, and a split takes two ids at most).  The code needs
it: run `split_exhausted` shows what a split without free ids does.  In
`simulation_split` it holds of every state.  The invariant is

    ConservedInv == (mode = "up" /\ Undisturbed) => IdsLeft /\ (EnoughIds => Conserved)

`Conserved` is about every solution: one copy if an agent has found it, none
otherwise; without the second part a new result could double one.  `IdsLeft` bounds the
ids in use by the splits the leader has handled, those of the ticks minus those
whose `RegionSplit` is still in its mail, so that `EnoughIds` after a split was
handled means that both halves found an id.  It also makes `EnoughIds` a property
that, once lost, stays lost.  One lemma per action says that it moves copies from one
place to another (`Moves`); a result is the one step that adds some, and `CreateRegion`
overwrites a list that is empty by `IdsOwned`.  Underneath are sums over a set of
queues of the weights of their messages (`Total`): sending, taking, and an update of
one list change them by one weight (`TotalSent`, `TotalTaken`, `TotalChanged`), which
rests on `SumFunction` not depending on the order of the terms (`AnyOrder`).  The lengths
of the two id lists add up to `MaxRegions` because both are injective (`PoolLengths`).

`RegionProofs` proves for every set of solutions, any values and any tolerance

* `PoolTypeIsKept`: `Spec => []TypeOK`
* `StatisticsAlwaysAgree`: `Spec => []StatisticsAgree`
* `BestIsAlwaysLinked`: `Spec => []BestIsLinked`
* `SplitAlwaysPartitions`: `Spec => SplitPartitions`
* `SplitAlwaysSeparates`: `Spec => SplitSeparates`
* `SplitAlwaysNarrows`: `Spec => SplitNarrows`

`StatisticsAgree` is its own invariant once adding a list is known to be adding
its solutions one after the other, whatever they are added to (`AddAllConcat`).
`PoolTypeIsKept` says among the rest that no solution is twice in a pool: what a
collection adds is new, and what a split leaves is part of a list without
repetitions.  `BestIsAlwaysLinked` has no hypothesis on the values; by induction over
the list, a solution appended either leaves the best where it stands, being worse by
the tolerance, or takes its place and becomes the next link of the chains that
ended there (`LinkedAppend`).  `SplitAlwaysSeparates` and `SplitAlwaysNarrows` are
arithmetic about means and deviations of integer lists: some solution lies within a deviation of the mean (otherwise all the
squared distances would add up to more than themselves, `WholeSpread`), and what
lies outside adds more to the spread than it adds to the count (`MiddleSpread`).

A fold is a `CHOOSE` of a recursive function.  `RegionStatisticsProofs` shows by
induction over cardinalities that this function exists (`FoldExists`), that a
list leaves a trace of intermediate results (`ListFold`), and that folding an
appended list is one step more (`FoldedLemma`).  Induction is stated for sets
of naturals and of lists (`SetInduction`, `ListInduction`), which the provers can
instantiate where an operator could not be.

`QLearningMemoryProofs` proves for every set of region ids, every room, scale,
sigmoid and set of values

* `MemoryTypeIsKept`: `Spec => []TypeOK`
* `MemoryNeverOverflows`: `Spec => []MemoryIsBounded`
* `QStaysBounded`: `Spec => []QIsBounded`
* `OnlyLateAnswersStay`: `Spec => []OnlyLateAnswersAreStale`
* `BestStaysNearLeastSeen`: `Spec => []BestIsNearLeastSeen`
* `LeastIsDropped`: `Spec => DropsTheWorst`

The strengthening of the first is that the table's domain is finite.  A reward
is learned from the greatest entry, which is a `CHOOSE`: that it exists follows
from the bounds, by a least element of a set of naturals (`LeastElement`, from the
well-foundedness of `<`), and this is why `QIsBounded` and `TypeOK` are proved
together, `QInv`.  The bound itself is arithmetic: half an entry, half a reward and
0.4 of the greatest are at most `5 One` if each entry is and a reward is at
most `One`.  `LeastIsDropped` holds of the single step, given both invariants.

`BenchmarkProofs` proves for every suite, any budget of at least 1 and any number of
agents

* `AlwaysOneTurn`: `Spec => []OneTurn`
* `BenchmarkImplementsSuite`: `Spec => ImplementsSuite`, that is `Suite!Spec`

with the invariant

    SuiteInv == Shape /\ OneTurn /\ OneStart /\ Counts

`OneTurn` alone is not inductive: a second `StartSimulation` of the MainActor could
start a simulation whose end is under way (`OneStart` excludes it), and an evaluation
past the budget would never hit `==` (`Counts`: the actor's counter is CoCO's for the
current problem and below the budget while the simulation runs; later problems are
untouched).  One lemma per action shows that it keeps the invariant and is a
`NextProblem`, an `Evaluate` or a stutter of the abstract suite; the agents' actions
leave all of it alone, which is why no assumption on them is needed, not even a
bound on how late an Evaluate comes.

`BenchmarkProofs` goes on with the messages between the leader and the agents:

* `StartedAgentsAlwaysAgree`: `Spec => []StartedAgentsAgree`
* `BenchmarkTypes`: `Spec => []TypeOK`

    AgentsInv == AgentShape /\ OneProblem /\ StopInOrder /\ StopsAreLast /\ QuietBetween

`OneProblem` (whatever starts an agent, or has, is of the current problem) breaks at
the change of the problem unless nothing is left by then that could start an
agent: `QuietBetween`.  That holds because the leader asks the agents in
order and waits for each (`StopInOrder`: the agents before the one it asks are
quiet, no other has a stop in its mail), and because in every mailbox
a stop stands behind all starts (`StopsAreLast`).  An agent that does not
answer in time makes the leader fail, and no end is ever announced.  For the types,
`FirstStart` shows that the leader has a problem before it can be told to
stop: a `StartSimulation` that names none, as after the last problem, keeps one of
the suite.

`CocoExperimentProofs` proves for any set of programmes of benchmarks, any first
triggers and any room of the list of dimensions

* `EnumerationImplemented`: `PlansAreRead => (Spec => ImplementsEnumeration)`, that is
  `Enumeration!Spec`
* `NumbersAreFound`: `PlansAreRead => (Spec => []NumbersFindProblems)`
* `LoggersTell`: `Spec => []LoggersTellTheRun`
* `InfoTells`: `PlansAreRead => (Spec => []InfoTellsTheRuns)`

The lists of functions, dimensions and instances may have any length and any holes.
`Place(s, d, f, i)` is the number the cursors stand for: the counts of items left
before each of them, as digits of a mixed radix (`InRadix`).  The invariant

    SuiteInv == ... IsOpen => Fresh(SuiteOfPlan(plan)) /\ Underway(SuiteOfPlan(plan), suite, handed, over)

says that the open suite is the one `coco_suite` made, but for its cursors and its
problem, that the cursors stand at items left, and, until the suite has said that
none is left, at the place that `handed` gives (`SuiteInvariant`).  A step of the
cursors adds one to the place (`NextInRadix`), one digit with a carry: the item
found next has one item more before it, and a cursor that finds none goes back to
the first, which has none before it (`NextItemLemma`).  Digits are
unique (`QuotientUnique`), so that the entry of the agenda at a place is the triple of
the cursors; the last place and no other is where all three find nothing.  The
numbers of problems are the same digits over all items, the holes included.

`PlansAreRead` says that `coco_suite` reads the options of every plan as its `wants`
say: the lists with the items taken out leave exactly what is wanted, at least one
item of each, or the suite is NULL or ends the process and nothing is wanted.  What
a string of options means is data (`CocoOptions` parses it), and no induction over it
is attempted; `MCCocoExperiment` makes TLC check `PlansAreRead` for the plans of the
run, which cut down every kind of suite.

For the loggers the invariant follows the run beside the files:

    LogInv == ... /\ history \in Seq(Evaluations) /\ Tells(logger, history)

`Tells` is, by the kind of the logger, `BbobTells`, `ToyTells` or `RwTells` of what each
evaluation was worth.  The files alone are not inductive: one has to know that the
remembered best value is the least so far, that the exponent of the next target is
that of an earlier value, or none yet, and that the last line by time is that of the last
evaluation exactly if `written_last_eval` says so.  A first hit is a matter of the
exponents that `coco_observer_targets_trigger` finds: `ExponentOrder` shows that they
order values as the levels of the property do, through zero into the negative ones,
`LevelMonotone` that a lower level is a better value, which is why the bbob logger may ask
for targets at improvements only.  `TriggerLemma` and `BbobChange` say what
a trigger and an evaluation do to the fields; `BbobStep`, `ToyStep` and `RwStep` that
`Tells` stays true.  When evaluations are written is left open (`BbobChanged` has any
`timed`): the theorem does not depend on `coco_observer_evaluations_trigger`.

The info files need both invariants and a third:

    InfoInv == FileInv /\ WriterInv /\ ListInv /\ NumberInv

* `FileInv`: every file is made of headers, line breaks and runs with their ends
  (`IsFile`), in a folder made so far; a last run without an end is only in the
  file of `Running`; the last header of the file that the shared variables mean
  has their dimension (`Section`), which is why an evaluation may go on under
  it; and every run is told as often as it happened (`Tally`).
* `WriterInv`: a bbob logger is that of the current problem and the newest
  folder; its run is the last line of its file, under its dimension, as soon as
  the problem was evaluated and not before.
* `ListInv`: in the first benchmark every dimension in the list is at most the
  current one, and if equal the last one written.  With `DimensionsInOrder` -
  the dimensions of all suites rise (`SuiteRises`) and the cursors keep their order -
  no new dimension is taken for one that is listed, and no header is written in
  the middle of a line.  In later benchmarks the list still holds dimensions of
  earlier ones, and only the counts are promised.
* `NumberInv`: the current problem is the last one handed out.

One line more is the only change a file ever sees: `FileLemma`, `LineLemma` and
`TallyLemma` say what it keeps, and that only the end of a run is told;
`OpenLemma` and `InitializeLemma` put together what the first evaluation writes,
`FreeLemma` what freeing a problem does.

Assumptions: the named ASSUMEs of the modules (`MaxRegions` positive,
`MinRegions` at most `MaxRegions`, a sigmoid between -1 and 1 that is 0 at 0 and
the like).  `ProgrammesAssumption` says that a programme is a sequence of plans, that values
and violations lie within `DBL_MAX`, since a point with an infinite or undefined
coordinate never reaches a logger (`coco_evaluate_function`), and that the observers are
not the bi-objective ones, whose logger `CocoFronts` runs.

Four theorems and the invariant `SuiteInvariant` have a hypothesis of their own
besides: `EnoughIds`, which holds of the states of the run, and `PlansAreRead`, which
TLC checks of the run's plans.

Only model-checked: liveness; and of CoCO the functions and problems
(`CocoEvaluation`) and the bi-objective logger (`CocoFronts`), whose operators are
recursive, over layers, trees and rows, so that no theorem can be stated about
them here.

## 5. What is not modelled, and the plan

Left out for good: the arithmetic of the Java problems and solutions, data
extraction, persistence, deployment, plotting, legacy classes; of CoCO what the
abstractions above name, memory management, and `bbob-biobj-mixint` beyond three
functions in the run (the operators cover all).

In order:

1. `AgentLifecycle`: the agent's timer, double starts, lifetime, the cycle of
   request and response with a region that may be too small to answer, answers
   after a stop.  Composes with `QLearningMemory`.
2. `Cluster`: startup off the actor thread, registration forwarding, a change of
   leader with its fresh id lists, the status seen by the services.
3. `Recovery`: snapshots and restarts of regions and agents.
4. The abstract pool (an id is free, creating, live or stopping) with
   `Simulation` shown to implement it, by TLC and then by proof.
5. Heuristics: the loops of the meta-heuristics under their stop conditions:
   termination, the elite that is kept, budgets of evaluations.
6. The latent merge handshake and shared summaries, as variants.
7. Proofs: the refinement of 4, the invariants of `AgentLifecycle`.
