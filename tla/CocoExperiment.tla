-------------------------- MODULE CocoExperiment ---------------------------
(***************************************************************************)
(* Benchmarks of CoCO, one after the other in one process, as              *)
(* CoCOBenchmark drives them through src/native/CocoJNI.c: a suite and an  *)
(* observer are made, problems are fetched and evaluated, observer and     *)
(* suite are finalized.                                                    *)
(***************************************************************************)
EXTENDS CocoLogging

CONSTANT Programmes   \* the benchmarks a process may run: sequences of plans,
                      \* each what a benchmark is started with and its bounds

\* Values are finite (coco_evaluate_function); the bi-objective observers
\* have the loggers of CocoArchive, not those of this module.
ASSUME ProgrammesAssumption ==
  \A q \in Programmes :
    /\ q \in Seq(ToSet(q))
    /\ \A p \in ToSet(q) :
         /\ p.observer \notin BiobjObservers
         /\ p.values \subseteq Int /\ p.sums \subseteq Nat
         /\ \A y \in p.values, g \in p.sums : - DBL_MAX < y /\ Best(y, 0) + g < DBL_MAX

VARIABLES
  programme,          \* the plans of this process
  suite,              \* also Null or Exit
  observer,
  logger,             \* of suite.current_problem
  bbob,               \* the variables all bbob loggers share
  info,               \* the info files, by <<folder, function, first instance>>
  folders,            \* result folders made so far
  over,               \* the suite has answered that no problem is left
  experiments,        \* benchmarks started
  handed,             \* problems the open suite handed out
  history,            \* evaluations [y, g] of the current problem
  g_evaluations,      \* its evaluations of constraints
  calls,              \* evaluations in the open benchmark
  runs                \* the runs that are over, oldest first

suiteVars == <<programme, experiments, suite, over, handed>>
logVars == <<observer, logger, bbob, info, folders>>
vars == <<programme, suite, over, handed, observer, logger, bbob, info, folders, experiments,
          history, g_evaluations, calls, runs>>

plan == programme[experiments]
NoSuite == [suite_name |-> "none"]
IsOpen == suite \notin {NoSuite, Null, Exit}

Init ==
  /\ programme \in Programmes /\ suite = NoSuite /\ observer = NoObserver /\ logger = NoLogger
  /\ bbob = InitialBbob /\ info = << >> /\ folders = 0 /\ over = FALSE /\ experiments = 0
  /\ handed = 0 /\ history = << >> /\ g_evaluations = 0 /\ calls = 0 /\ runs = << >>

\* A benchmark.  A suite that is Exit has ended the process; one that is
\* Null does so when it is asked for the number of its problems.
Begin ==
  /\ suite = NoSuite /\ experiments < Len(programme)
  /\ experiments' = experiments + 1
  /\ LET p == programme[experiments']
     IN /\ suite' = coco_suite(p.name, p.instance, p.options)
        /\ observer' = coco_observer(p.observer, p.observer_options, folders + 1)
        /\ folders' = IF UsesFolder(p.observer) THEN folders + 1 ELSE folders
  /\ over' = FALSE /\ handed' = 0
  /\ UNCHANGED <<programme, logger, bbob, info, history, g_evaluations, calls, runs>>

\* The run of the current problem, if it was evaluated.
FinishedRun ==
  IF history = << >> THEN << >>
  ELSE <<[folder |-> observer.folder, function |-> suite.current_problem.function,
          dimension |-> suite.current_problem.dimension,
          instance |-> suite.current_problem.instance, evaluations |-> Len(history)]>>

\* Freeing a problem frees its logger.
coco_problem_free ==
  IF logger.kind # "bbob" THEN [bbob |-> bbob, info |-> info, runs |-> runs]
  ELSE [bbob |-> [bbob EXCEPT !.logger_is_open = FALSE],
        info |-> logger_bbob_free_info(logger, info),
        runs |-> runs \o FinishedRun]

coco_suite_get_next_problem ==
  /\ IsOpen /\ ~ over
  /\ LET next == Advanced(suite)
         freed == coco_problem_free
         problem == CursorProblem(next.suite)
     IN IF ~ next.found
        THEN /\ suite' = next.suite /\ over' = TRUE
             /\ UNCHANGED <<handed, logger, bbob, info, history, g_evaluations, runs>>
        ELSE /\ suite' = [next.suite EXCEPT !.current_problem = problem]
             /\ handed' = handed + 1
             /\ logger' = coco_problem_add_observer(problem, observer)
             /\ bbob' = [freed.bbob EXCEPT !.logger_is_open = logger'.kind = "bbob"]
             /\ info' = freed.info /\ runs' = freed.runs
             /\ history' = << >> /\ g_evaluations' = 0
             /\ UNCHANGED over
  /\ UNCHANGED <<programme, experiments, observer, folders, calls>>

Evaluated(l, y, g) ==
  CASE l.kind = "none" -> l
    [] l.kind = "toy"  -> logger_toy_evaluate(l, y)
    [] l.kind = "rw"   -> logger_rw_evaluate(l, y)
    [] l.kind = "bbob" -> logger_bbob_evaluate(l, y, g, g_evaluations)

\* Values below the optimum are those of infeasible points.
coco_evaluate_function ==
  /\ IsOpen /\ suite.current_problem # NoProblem /\ calls < plan.calls
  /\ \E y \in plan.values, g \in plan.sums :
       /\ g > 0 => Constraints(suite.current_problem) > 0
       /\ y < 0 => g > 0
       /\ history' = Append(history, [y |-> y, g |-> g])
       /\ IF logger.kind = "bbob" /\ ~ logger.is_initialized
          THEN LET ready == logger_bbob_initialize(logger, bbob, info)
               IN /\ logger' = Evaluated(ready.logger, y, g)
                  /\ bbob' = ready.bbob /\ info' = ready.info
          ELSE logger' = Evaluated(logger, y, g) /\ UNCHANGED <<bbob, info>>
  /\ calls' = calls + 1
  /\ UNCHANGED <<suiteVars, observer, folders, g_evaluations, runs>>

coco_evaluate_constraint ==
  /\ IsOpen /\ suite.current_problem # NoProblem /\ calls < plan.calls
  /\ Constraints(suite.current_problem) > 0
  /\ g_evaluations' = g_evaluations + 1 /\ calls' = calls + 1
  /\ UNCHANGED <<suiteVars, logVars, history, runs>>

\* The observer goes first; the suite then frees its current problem.
finalizeBenchmark ==
  /\ IsOpen
  /\ LET freed == coco_problem_free
     IN bbob' = freed.bbob /\ info' = freed.info /\ runs' = freed.runs
  /\ suite' = NoSuite /\ observer' = NoObserver /\ logger' = NoLogger
  /\ over' = FALSE /\ handed' = 0 /\ history' = << >> /\ g_evaluations' = 0 /\ calls' = 0
  /\ UNCHANGED <<programme, experiments, folders>>

Next == \/ Begin
        \/ coco_suite_get_next_problem
        \/ coco_evaluate_function
        \/ coco_evaluate_constraint
        \/ finalizeBenchmark

Spec == Init /\ [][Next]_vars

----------------------------------------------------------------------------
Triple(p) == IF p = NoProblem THEN 0 ELSE <<p.dimension, p.function, p.instance>>

\* What the options of a plan mean is written beside them in its "wants";
\* the agenda is << >> for options that end the process.
PlanAgenda(p) ==
  LET w == p.wants
      nf == Len(w.functions)
      ni == Len(w.instances)
  IN [k \in 1 .. Len(w.dimensions) * nf * ni |->
        <<w.dimensions[((k - 1) \div (nf * ni)) + 1],
          w.functions[(((k - 1) \div ni) % nf) + 1],
          w.instances[((k - 1) % ni) + 1]>>]

\* Items of which some are taken out leave exactly what is wanted, in its order.
NumberBefore(items, k) == Cardinality({j \in ValidIndices(items) : j < k})
Leaves(items, wanted) ==
  /\ items \in Seq(Nat) /\ wanted \in Seq(Nat) /\ HasValid(items)
  /\ Len(wanted) = Cardinality(ValidIndices(items))
  /\ \A k \in ValidIndices(items) : wanted[NumberBefore(items, k) + 1] = Item(items, k)

\* The options of every plan are read as it wants them to be: what the
\* theorems about suites suppose of the plans.
SuiteOfPlan(p) == coco_suite(p.name, p.instance, p.options)
ReadAsWanted(s, p) ==
  IF s \in {Null, Exit} THEN PlanAgenda(p) = << >>
  ELSE /\ Leaves(s.functions, p.wants.functions)
       /\ Leaves(s.dimensions, p.wants.dimensions)
       /\ Leaves(s.instances, p.wants.instances)
PlansAreRead ==
  \A q \in Programmes : \A p \in ToSet(q) : ReadAsWanted(SuiteOfPlan(p), p)

Enumeration == INSTANCE CocoEnumeration WITH
  Agendas <- {PlanAgenda(p) : p \in UNION {ToSet(q) : q \in Programmes}},
  agenda <- IF suite = NoSuite THEN << >> ELSE PlanAgenda(plan),
  handed <- handed,
  problem <- IF IsOpen THEN Triple(suite.current_problem) ELSE 0,
  over <- IF suite = NoSuite THEN TRUE ELSE over

(* A suite hands out what its options ask for, each problem once and in    *)
(* the order of the documentation (coco.c:31981-32000, 32220-32230), over  *)
(* cursors that skip what options took out and that are moved by three     *)
(* functions which reset one another; then it says that none is left.      *)
ImplementsEnumeration == Enumeration!Spec

(* The numbers of problems mean the same to those who count, to those who  *)
(* number and to those who look up: the number a problem carries is below  *)
(* the number of problems, leads back to it, and its function, dimension   *)
(* and instance lead to a problem that has the same                        *)
(* (coco_suite_encode_problem_index, coco_suite_decode_problem_index,      *)
(* coco_suite_get_problem_by_function_dimension_instance).  Options that   *)
(* leave nothing, and only those, make no suite.                           *)
NumbersFindProblems ==
  /\ suite \in {Null, Exit} => PlanAgenda(plan) = << >>
  /\ IsOpen =>
       LET p == suite.current_problem
           index == Java_coco_CocoJNI_cocoProblemGetIndex(p)
           d == coco_suite_decode_problem_index(suite, index)
       IN /\ PlanAgenda(plan) # << >>
          /\ p # NoProblem =>
               /\ index < coco_suite_get_number_of_problems(suite)
               /\ coco_suite_get_problem(suite, index) = p
               /\ coco_suite_get_function_from_function_index(suite, d.function_idx) = p.function
               /\ coco_suite_get_dimension_from_dimension_index(suite, d.dimension_idx) = p.dimension
               /\ Triple(coco_suite_get_problem_by_function_dimension_instance(
                           suite, p.function, p.dimension, p.instance)) = Triple(p)

----------------------------------------------------------------------------
\* The runs an info file tells of: with the header they stand under.
HeaderOf(lines, k) ==
  LET above == {j \in 1 .. k : lines[j].tag = "header"}
  IN lines[CHOOSE j \in above : \A i \in above : i <= j]
ToldAt(file, k) ==
  [folder |-> file[1], function |-> HeaderOf(info[file], k).funId,
   dimension |-> HeaderOf(info[file], k).dim, instance |-> info[file][k - 1].instance,
   evaluations |-> info[file][k].evaluations]
Told == {t \in UNION {{file} \X DOMAIN info[file] : file \in DOMAIN info} :
           info[t[1]][t[2]].tag = "done"}
Writing(file) == logger.kind = "bbob" /\ logger.index_file = file

(* The info files are the index of all results: they tell of each run that *)
(* is over once, under a header with its function and dimension, in a file *)
(* of its observer and function; only a run that still goes on has no end, *)
(* and every header names the data file of its runs. The dimension,        *)
(* function, first instance and list of dimensions that decide about       *)
(* headers are globals that outlive problems, suites and observers         *)
(* (logger_bbob_openIndexFile, logger_bbob_free). In the first benchmark   *)
(* of a process every header also starts a line; in a later one a          *)
(* dimension that is still in the list counts as a new file, and if the    *)
(* file is there its header follows without a line break                   *)
(* (coco.c:33049-33061).                                                   *)
InfoTellsTheRuns ==
  /\ \A file \in DOMAIN info : LET lines == info[file] IN
       \A k \in DOMAIN lines :
         CASE lines[k].tag = "header" ->
                /\ experiments > 1 \/ k = 1 \/ lines[k - 1].tag = "newline"
                /\ lines[k].funId = file[2] /\ lines[k].data = file[3]
           [] lines[k].tag = "run" ->
                IF k = Len(lines) THEN Writing(file) ELSE lines[k + 1].tag = "done"
           [] OTHER -> k > 1
  /\ \A r \in ToSet(runs) \union {ToldAt(t[1], t[2]) : t \in Told} :
       Cardinality({k \in DOMAIN runs : runs[k] = r}) = Cardinality({t \in Told : ToldAt(t[1], t[2]) = r})

----------------------------------------------------------------------------
\* What an evaluation of the current problem was worth to a logger.
Worth(k) == IF logger.kind = "bbob" THEN Best(history[k].y, 0) + history[k].g ELSE history[k].y
Level(v) == IF v < 0 THEN -100 - FloorLog(Best(-v, 1)) ELSE IF v = 0 THEN -1 ELSE CeilLog(Best(v, 1))
Improves(k) == \A j \in 1 .. k - 1 : Worth(k) < Worth(j)
Reaches(k) == \A j \in 1 .. k - 1 : Level(Worth(k)) < Level(Worth(j))
Numbers(lines) == {lines[k][1] : k \in DOMAIN lines}
Rising(lines) == \A k \in 1 .. Len(lines) - 1 : lines[k][1] < lines[k + 1][1]

(* The files of a problem tell its run: the bbob logger remembers the best *)
(* value, violations included, writes every first hit of a target and only *)
(* improvements, and its last line by time is, once the logger is freed,   *)
(* that of the last evaluation, neither missing nor there twice; the toy   *)
(* logger writes exactly the first hits; the rw logger all evaluations or  *)
(* exactly the improvements (logger_bbob_evaluate, logger_bbob_free,       *)
(* logger_toy_evaluate, logger_rw_evaluate).                               *)
LoggersTellTheRun ==
  /\ logger.kind = "bbob" /\ history # << >> =>
       LET n == Len(history)
           tdata == logger_bbob_free_data(logger).tdata
       IN /\ \A k \in 1 .. n : logger.best_fvalue <= Worth(k)
          /\ \E k \in 1 .. n : logger.best_fvalue = Worth(k)
          /\ \A k \in 1 .. n : Reaches(k) => k \in Numbers(logger.fdata)
          /\ \A k \in Numbers(logger.fdata) : Improves(k)
          /\ \A i \in DOMAIN logger.fdata : logger.fdata[i][2] = Worth(logger.fdata[i][1])
          /\ Rising(logger.fdata) /\ Rising(tdata)
          /\ tdata[Len(tdata)] = <<n, logger.best_fvalue>>
  /\ logger.kind = "toy" =>
       Numbers(logger.lines) = {k \in DOMAIN history : Reaches(k)} /\ Rising(logger.lines)
  /\ logger.kind = "rw" =>
       /\ Numbers(logger.lines) =
            IF logger.log_only_better THEN {k \in DOMAIN history : Improves(k)} ELSE DOMAIN history
       /\ Rising(logger.lines)

=============================================================================
