---------------------------- MODULE CocoLogging ----------------------------
(***************************************************************************)
(* Observers and loggers of CoCO (src/native/coco.c): what an observer     *)
(* writes about the evaluations of a problem, and when.                    *)
(*                                                                         *)
(* A value is the distance to the optimum, in units of the target          *)
(* precision; it may be below 0 for an infeasible point.  Points that are  *)
(* not finite never reach a logger (coco_evaluate_function).  The targets  *)
(* of the code, 10^(k / number_of_triggers), are the powers of 2 here.     *)
(***************************************************************************)
EXTENDS CocoSuite, TLC

CONSTANTS
  FirstTriggers,      \* the values of floor(10^(k/20)), without repetition
  bbob_number_of_dimensions     \* room in the list of dimensions: 6 in the code

ASSUME LoggingAssumption ==
  /\ FirstTriggers[1] = 1
  /\ bbob_number_of_dimensions \in Nat \ {0}

DBL_MAX == 1000000
INT_MAX == 1000
Best(a, b) == IF a > b THEN a ELSE b                  \* the larger one

----------------------------------------------------------------------------
(* Triggers. *)

Precision == 1
ZeroExponent == -3                                    \* of a tenth of the precision
CeilLog(v) == MinOf({k \in 0 .. 20 : 2 ^ k >= v})
FloorLog(v) == MinOf({k \in 0 .. 20 : 2 ^ (k + 1) > v})

coco_observer_targets == [exponent |-> INT_MAX, value |-> DBL_MAX]

\* Mutated: a target that was reached before triggers again.
TriggeredAgain(targets, given_value) ==
  LET e == IF given_value = 0 THEN ZeroExponent ELSE CeilLog(Best(given_value, Precision))
  IN [hit |-> e <= targets.exponent, targets |-> [targets EXCEPT !.exponent = e]]

\* 0 has a target of its own; below 0 every further target counts again.
coco_observer_targets_trigger(targets, given_value) ==
  LET current == IF given_value = 0 THEN ZeroExponent
                 ELSE IF given_value > 0 THEN CeilLog(Best(given_value, Precision))
                 ELSE FloorLog(Best(- given_value, Precision))
      exponent == IF given_value >= 0 THEN current ELSE 2 * ZeroExponent - current - 1
      value == IF given_value = 0 THEN 0
               ELSE IF given_value > 0 THEN 2 ^ current ELSE - (2 ^ current)
      hit == exponent < targets.exponent
  IN [hit |-> hit,
      targets |-> IF hit THEN [exponent |-> exponent, value |-> value] ELSE targets]

\* base_index counts from 1.
coco_observer_evaluations(base_evaluations, dimension) ==
  [next1 |-> 1, base_evaluations |-> base_evaluations, dimension |-> dimension, base_index |-> 1,
   exponent2 |-> 0, value2 |-> dimension * base_evaluations[1]]

coco_observer_evaluations_trigger_first(evaluations, evaluation_number) ==
  LET e == evaluations
  IN IF e.next1 <= Len(FirstTriggers) /\ evaluation_number >= FirstTriggers[e.next1]
     THEN [hit |-> TRUE, evaluations |-> [e EXCEPT !.next1 = @ + 1]]
     ELSE [hit |-> FALSE, evaluations |-> e]

coco_observer_evaluations_trigger_second(evaluations, evaluation_number) ==
  LET e == evaluations
      last == e.base_index = Len(e.base_evaluations)
      index == IF last THEN 1 ELSE e.base_index + 1
      exponent == IF last THEN e.exponent2 + 1 ELSE e.exponent2
  IN IF evaluation_number < e.value2 THEN [hit |-> FALSE, evaluations |-> e]
     ELSE [hit |-> TRUE,
           evaluations |-> [e EXCEPT !.base_index = index, !.exponent2 = exponent,
                                     !.value2 = 10 ^ exponent * e.dimension * e.base_evaluations[index]]]

\* Both are always asked.
coco_observer_evaluations_trigger(evaluations, evaluation_number) ==
  LET first == coco_observer_evaluations_trigger_first(evaluations, evaluation_number)
      second == coco_observer_evaluations_trigger_second(first.evaluations, evaluation_number)
  IN [hit |-> first.hit \/ second.hit, evaluations |-> second.evaluations]

----------------------------------------------------------------------------
(* Observers.  The folder is the number of its directory: each observer    *)
(* has a new one.                                                          *)

NoObserver == [kind |-> "none"]
BbobObservers == {"bbob", "bbob-largescale", "bbob-mixint"} \union ConstrainedNames
BiobjObservers == {"bbob-biobj", "bbob-biobj-ext", "bbob-biobj-mixint"}

\* An option outside its limits is as good as none.
Within(value, lo, hi, default) == IF value < lo \/ value > hi THEN default ELSE value
Numeric(options, key, lo, hi, default) ==
  Within(coco_options_read_int(options, key, default), lo, hi, default)

coco_observer_allocate(kind, folder, options) ==
  LET base == coco_options_read(options, "base_evaluation_triggers")
  IN [kind |-> kind, folder |-> folder, is_active |-> TRUE,
      number_target_triggers |-> Numeric(options, "number_target_triggers", 1, INT_MAX, 100),
      \* read, and never used: coco_observer_evaluations takes 20
      number_evaluation_triggers |-> Numeric(options, "number_evaluation_triggers", 4, INT_MAX, 20),
      base_evaluation_triggers |->
        IF base = << >> THEN <<1, 2, 5>>
        ELSE coco_string_parse_ranges(base[1].ranges, 1, 0, COCO_MAX_INSTANCES),
      precision_x |-> Numeric(options, "precision_x", 1, 32, 8),
      precision_f |-> Numeric(options, "precision_f", 1, 32, 15),
      precision_g |-> Numeric(options, "precision_g", 1, 32, 3),
      log_discrete_as_int |-> Numeric(options, "log_discrete_as_int", 0, 1, 0)]

LogMode(options, key) ==
  LET mode == coco_options_read_string(options, key, "all")
  IN IF mode \in {"none", "low_dim"} THEN mode ELSE "all"

observer_bbob(observer) == observer
observer_toy(observer) == observer
observer_rw(observer, options) ==
  [log_vars_mode |-> LogMode(options, "log_variables"),
   log_cons_mode |-> LogMode(options, "log_constraints"),
   low_dim_vars |-> coco_options_read_size_t(options, "low_dim_vars", 10),
   low_dim_cons |-> coco_options_read_size_t(options, "low_dim_cons", 10),
   log_only_better |-> coco_options_read_int(options, "log_only_better", 0) # 0,
   observer |-> observer, kind |-> "rw", folder |-> observer.folder, is_active |-> TRUE]

\* Without indicators and solutions to write there is nothing to observe.
observer_biobj(observer, options) ==
  LET mode == coco_options_read_string(options, "log_nondominated", "all")
      all == coco_options_read_int(options, "produce_all_data", 0) # 0
      indicators == all \/ coco_options_read_int(options, "compute_indicators", 1) # 0
      nondom == IF all \/ mode \notin {"none", "final", "read"} THEN "all" ELSE mode
  IN [observer EXCEPT !.is_active = indicators \/ nondom # "none"]
       @@ [log_nondom_mode |-> nondom, compute_indicators |-> indicators]

\* The directory is made before the name is looked at.
coco_observer(observer_name, options, folder) ==
  LET Of(kind) == coco_observer_allocate(kind, folder, options)
  IN CASE observer_name \in {"no_observer", ""} -> NoObserver
       [] observer_name \in BbobObservers -> observer_bbob(Of("bbob"))
       [] observer_name \in BiobjObservers -> observer_biobj(Of("biobj"), options)
       [] observer_name = "toy" -> observer_toy(Of("toy"))
       [] observer_name = "rw" -> observer_rw(Of("rw"), options)
       [] OTHER -> NoObserver
UsesFolder(observer_name) == observer_name \notin {"no_observer", ""}

----------------------------------------------------------------------------
(* The info files of the bbob logger: per function, headers that name a    *)
(* dimension and a data file, and under each header the runs.  What the    *)
(* logger remembers of the last one is global, for all observers.          *)

InitialBbob ==
  [current_dim |-> 0, current_funId |-> 0, firstInstance |-> 0,
   dimensions |-> [i \in 1 .. bbob_number_of_dimensions |-> 0], logger_is_open |-> FALSE]
NoDimensions == InitialBbob.dimensions

Header(logger, bbob) ==
  [tag |-> "header", funId |-> logger.function_id, dim |-> logger.dimension, data |-> bbob.firstInstance]
NewLine == [tag |-> "newline"]
Run(logger) == [tag |-> "run", instance |-> logger.instance_id]
Done(logger) ==
  [tag |-> "done", evaluations |-> logger.number_of_evaluations, best |-> logger.best_fvalue]

FileOf(logger, bbob) == <<logger.folder, logger.function_id, bbob.firstInstance>>
Content(info, file) == IF file \in DOMAIN info THEN info[file] ELSE << >>
Written(info, file, lines) ==
  [f \in DOMAIN info \union {file} |-> IF f = file THEN Content(info, f) \o lines ELSE info[f]]

\* The list of dimensions when another one comes: it takes the first free
\* place; one that is in the list already starts a new file, and a list
\* without room a new list, in which the dimension is written past the end.
Slot(bbob, dimension) ==
  LET at == {i \in 1 .. bbob_number_of_dimensions : bbob.dimensions[i] \in {0, dimension}}
  IN IF at = {} THEN bbob_number_of_dimensions + 1 ELSE MinOf(at)

\* Mutated: it is enough that the function is that of the last header.
SameSection(bbob, logger) == bbob.current_funId = logger.function_id
SameHeader(bbob, logger) ==
  bbob.current_dim = logger.dimension /\ bbob.current_funId = logger.function_id

logger_bbob_openIndexFile(logger, bbob0, info) ==
  LET bbob == IF bbob0.firstInstance = 0 THEN [bbob0 EXCEPT !.firstInstance = logger.instance_id]
              ELSE bbob0
      file == FileOf(logger, bbob)
      exists == file \in DOMAIN info
      i == Slot(bbob, logger.dimension)
      full == i > bbob_number_of_dimensions
      another == bbob.current_dim # logger.dimension
      present == another /\ ~ full /\ bbob.dimensions[i] = logger.dimension
      listed == IF ~ another THEN bbob
                ELSE IF present
                THEN [bbob EXCEPT !.firstInstance = logger.instance_id,
                                  !.dimensions = [NoDimensions EXCEPT ![i] = logger.dimension]]
                ELSE IF full THEN [bbob EXCEPT !.dimensions = NoDimensions]
                ELSE [bbob EXCEPT !.dimensions[i] = logger.dimension]
      lines == (IF exists /\ ~ present THEN <<NewLine>> ELSE << >>) \o <<Header(logger, listed)>>
  IN IF exists /\ SameHeader(bbob, logger) THEN [bbob |-> bbob, info |-> info]
     ELSE [bbob |-> [listed EXCEPT !.current_dim = logger.dimension,
                                   !.current_funId = logger.function_id],
           info |-> Written(info, FileOf(logger, listed), lines)]

\* The first evaluation opens the files.
logger_bbob_initialize(logger, bbob, info) ==
  LET opened == logger_bbob_openIndexFile(logger, bbob, info)
  IN [logger |-> [logger EXCEPT !.is_initialized = TRUE,
                                !.index_file = FileOf(logger, opened.bbob)],
      bbob |-> opened.bbob,
      info |-> Written(opened.info, FileOf(logger, opened.bbob), <<Run(logger)>>)]

----------------------------------------------------------------------------
(* Loggers. *)

NoLogger == [kind |-> "none"]

logger_bbob(observer, problem) ==
  [kind |-> "bbob", folder |-> observer.folder,
   function_id |-> problem.function, instance_id |-> problem.instance, dimension |-> problem.dimension,
   number_of_evaluations |-> 0, number_of_evaluations_constraints |-> 0, best_fvalue |-> 0,
   written_last_eval |-> FALSE, is_initialized |-> FALSE, index_file |-> << >>,
   targets |-> coco_observer_targets,
   evaluations |-> coco_observer_evaluations(observer.base_evaluation_triggers, problem.dimension),
   fdata |-> << >>, tdata |-> << >>]

logger_bbob_write_data(logger) == <<logger.number_of_evaluations, logger.best_fvalue>>

\* y and sum_cons: the value of the point and the sum of its positive
\* constraints; an infeasible point is no better than the optimum.
logger_bbob_evaluate(logger0, y, sum_cons, g_evaluations) ==
  LET logger == [logger0 EXCEPT !.number_of_evaluations = @ + 1,
                                !.number_of_evaluations_constraints = g_evaluations]
      first == logger.number_of_evaluations = 1
      value == Best(y, 0) + sum_cons
      better == first \/ value < logger.best_fvalue
      improved == IF better THEN [logger EXCEPT !.best_fvalue = value] ELSE logger
      \* the first evaluation is written without asking for its target
      target == coco_observer_targets_trigger(improved.targets, value)
      asked == better /\ ~ first
      dat == IF asked THEN [improved EXCEPT !.targets = target.targets] ELSE improved
      time == coco_observer_evaluations_trigger(dat.evaluations,
                dat.number_of_evaluations + dat.number_of_evaluations_constraints)
  IN [dat EXCEPT
        !.fdata = IF first \/ (asked /\ target.hit) THEN Append(@, logger_bbob_write_data(dat)) ELSE @,
        !.evaluations = time.evaluations,
        !.tdata = IF time.hit THEN Append(@, logger_bbob_write_data(dat)) ELSE @,
        !.written_last_eval = time.hit]

\* What freeing the logger adds to its data file and to the info file.
logger_bbob_free_data(logger) ==
  IF logger.is_initialized /\ ~ logger.written_last_eval
  THEN [logger EXCEPT !.tdata = Append(@, logger_bbob_write_data(logger))] ELSE logger
logger_bbob_free_info(logger, info) ==
  IF logger.is_initialized THEN Written(info, logger.index_file, <<Done(logger)>>) ELSE info

logger_toy(observer, problem) ==
  [kind |-> "toy", number_of_evaluations |-> 0, targets |-> coco_observer_targets, lines |-> << >>]
logger_toy_evaluate(logger0, y) ==
  LET logger == [logger0 EXCEPT !.number_of_evaluations = @ + 1]
      target == coco_observer_targets_trigger(logger.targets, y)
  IN [logger EXCEPT !.targets = target.targets,
                    !.lines = IF target.hit
                              THEN Append(@, <<logger.number_of_evaluations, y, target.targets.value>>)
                              ELSE @]

\* The objectives and constraints of a problem, by its suite.
Objectives(problem) == IF problem.suite \in BiobjObservers THEN 2 ELSE 1
Constraints(problem) ==
  IF problem.suite \notin ConstrainedNames THEN 0
  ELSE <<1, 2, 6, 6 + problem.dimension \div 2, 6 + problem.dimension, 6 + 3 * problem.dimension>>
         [((problem.function - 1) % 6) + 1]

\* log_vars and log_cons decide what a line holds, log_only_better whether
\* there is one.
Logs(mode, count, low_dim) == mode = "all" \/ (mode = "low_dim" /\ count <= low_dim)
logger_rw(observer, problem) ==
  [kind |-> "rw", number_of_evaluations |-> 0, best_value |-> DBL_MAX,
   log_vars |-> Logs(observer.log_vars_mode, problem.dimension, observer.low_dim_vars),
   log_cons |-> Constraints(problem) > 0
                  /\ Logs(observer.log_cons_mode, Constraints(problem), observer.low_dim_cons),
   log_only_better |-> observer.log_only_better /\ Objectives(problem) = 1,
   objectives |-> Objectives(problem), lines |-> << >>]
logger_rw_evaluate(logger0, y) ==
  LET logger == [logger0 EXCEPT !.number_of_evaluations = @ + 1]
      better == logger.objectives = 1 /\ y < logger.best_value
  IN [logger EXCEPT !.best_value = IF better THEN y ELSE @,
                    !.lines = IF better \/ ~ logger.log_only_better
                              THEN Append(@, <<logger.number_of_evaluations, y>>) ELSE @]

\* The logger of the bi-objective observers is that of CocoArchive.
coco_problem_add_observer(problem, observer) ==
  IF problem = NoProblem THEN NoLogger
  ELSE CASE observer.kind = "none" -> NoLogger
         [] observer.kind = "bbob" -> logger_bbob(observer, problem)
         [] observer.kind = "toy"  -> logger_toy(observer, problem)
         [] observer.kind = "rw"   -> logger_rw(observer, problem)

=============================================================================
