---------------------------- MODULE CocoArchive -----------------------------
(***************************************************************************)
(* The nondominated solutions of a bi-objective problem, in CoCO's logger  *)
(* of such problems and in the archives that are fed with its files        *)
(* (src/native/coco.c:12236-12364, 34540-35510, 36330-36683).              *)
(*                                                                         *)
(* Objectives are integers.  Normalized they count the Steps from the      *)
(* ideal to the nadir point; a volume or a distance is in units of one     *)
(* square of Steps by Steps, the region of interest (ROI).                 *)
(***************************************************************************)
EXTENDS CocoLogging, AvlTree

CONSTANTS
  Steps,                        \* 1 / mo_discretization: 2 * 10^12 in the code
  Ideal, Nadir,                 \* best_value and nadir_value of the problem
  dimension,
  suite_biobj_best_values_hyp   \* [problem -> the best known hypervolume]

ASSUME ArchiveAssumption ==
  /\ Steps \in Nat \ {0}
  /\ \A i \in {1, 2} : Nadir[i] - Ideal[i] >= Steps

----------------------------------------------------------------------------
(* Points. *)

\* The grid alone.  (Mutated: an ideal value leaves the other objective as it is.)
RoundedOnly(y, ideal, nadir) ==
  [i \in {1, 2} |->
     LET range == nadir[i] - ideal[i]
         n == (2 * Steps * (y[i] - ideal[i]) + range) \div (2 * range)
     IN IF n < 0 THEN 0 ELSE n]

\* Rounded, no better than the ideal value and, where it is as good as that
\* in one objective, no better than the nadir in the other.
mo_normalize(y, ideal, nadir) ==
  LET rounded == RoundedOnly(y, ideal, nadir)
      first == IF rounded[1] = 0 /\ rounded[2] < Steps THEN [rounded EXCEPT ![2] = Steps] ELSE rounded
  IN IF first[2] = 0 /\ first[1] < Steps THEN [first EXCEPT ![1] = Steps] ELSE first

mo_get_dominance(y1, y2) ==
  LET better == \E i \in {1, 2} : y1[i] < y2[i]
      worse == \E i \in {1, 2} : y1[i] > y2[i]
  IN CASE better /\ ~ worse   -> 1
       [] worse /\ ~ better   -> -1
       [] better /\ worse     -> 0
       [] ~ better /\ ~ worse -> -2

mo_is_within_ROI(y) == \A i \in {1, 2} : y[i] \in 0 .. Steps

Root(n) == CHOOSE r \in 0 .. n : r * r <= n /\ (r + 1) * (r + 1) > n
mo_get_distance_to_ROI(y) ==
  LET d1 == y[1] - Steps
      d2 == y[2] - Steps
  IN IF mo_is_within_ROI(y) THEN 0
     ELSE IF d1 > 0 /\ d2 > 0 THEN Root(Steps * Steps * (d1 * d1 + d2 * d2))
     ELSE IF d1 > 0 THEN Steps * d1 ELSE Steps * d2

----------------------------------------------------------------------------
(* A new item and the tree of what is nondominated so far. *)

Ny(tree, node) == tree.nodes[node].item.normalized_y

\* An equal or smaller last objective that is no worse in the first keeps it out.
Accepts(tree, item) ==
  LET node == avl_item_search_right(tree, item)
  IN node = Nil \/ mo_get_dominance(item.normalized_y, Ny(tree, node)) > -1

\* The nodes from node on that the item dominates, up to the first it does not.
RECURSIVE DominatedFrom(_, _, _)
DominatedFrom(tree, item, node) ==
  IF node = Nil THEN << >>
  ELSE IF mo_get_dominance(item.normalized_y, Ny(tree, node)) # 1 THEN << >>
  ELSE <<node>> \o DominatedFrom(tree, item, tree.nodes[node].next)

\* Mutated: the node that the search has found stays, dominated or not.
DominatedAfter(tree, item) ==
  LET node == avl_item_search_right(tree, item)
  IN DominatedFrom(tree, item, IF node = Nil THEN tree.head ELSE tree.nodes[node].next)

Dominated(tree, item) ==
  LET node == avl_item_search_right(tree, item)
      here == node # Nil /\ mo_get_dominance(item.normalized_y, Ny(tree, node)) = 1
  IN (IF here THEN <<node>> ELSE << >>)
       \o DominatedFrom(tree, item, IF node = Nil THEN tree.head ELSE tree.nodes[node].next)

Updated(tree, item) == avl_item_insert(FoldLeft(avl_node_delete, tree, Dominated(tree, item)), item)

----------------------------------------------------------------------------
(* The logger of bi-objective problems. *)

suite_biobj_get_best_hyp_value(problem) ==
  IF problem \in DOMAIN suite_biobj_best_values_hyp THEN suite_biobj_best_values_hyp[problem]
  ELSE Steps * Steps

logger_biobj_indicator(observer, problem) ==
  [best_value |-> suite_biobj_get_best_hyp_value(problem),
   target_hit |-> FALSE, evaluation_logged |-> FALSE, current_value |-> 0,
   additional_penalty |-> DBL_MAX, overall_value |-> 0, previous_value |-> 0,
   targets |-> coco_observer_targets,
   evaluations |-> coco_observer_evaluations(observer.base_evaluation_triggers, dimension),
   dat |-> << >>, tdat |-> << >>]

logger_biobj(observer, problem) ==
  IF ~ observer.is_active THEN NoLogger
  ELSE [kind |-> "biobj", log_nondom_mode |-> observer.log_nondom_mode,
        compute_indicators |-> observer.compute_indicators,
        number_of_evaluations |-> 0, previous_evaluations |-> 0,
        archive_tree |-> avl_tree_construct("last_objective"),
        buffer_tree |-> avl_tree_construct("evaluation_number"),
        adat |-> << >>, indicator |-> logger_biobj_indicator(observer, problem)]

logger_biobj_node_create(y, evaluation_number) ==
  LET normalized_y == mo_normalize(y, Ideal, Nadir)
  IN [y |-> y, normalized_y |-> normalized_y, within_ROI |-> mo_is_within_ROI(normalized_y),
      evaluation_number |-> evaluation_number, indicator_contribution |-> 0]

\* The share of the new item.  (Mutated: the next one keeps what it has lost.)
OwnContribution(tree, new) ==
  LET node == tree.nodes[new]
      y == node.item.normalized_y
      beside == node.prev # Nil /\ tree.nodes[node.prev].item.within_ROI
      own == ((IF beside THEN Ny(tree, node.prev)[1] ELSE Steps) - y[1]) * (Steps - y[2])
  IN [tree |-> [tree EXCEPT !.nodes[new].item.indicator_contribution = own], gain |-> own]

\* What the item adds to the volume, and its next item has left of its own.
Contributions(tree, new) ==
  LET next == tree.nodes[new].next
      own == OwnContribution(tree, new)
      left == (Ny(tree, new)[1] - Ny(tree, next)[1]) * (Steps - Ny(tree, next)[2])
  IN IF next = Nil THEN own
     ELSE IF ~ tree.nodes[next].item.within_ROI THEN own
     ELSE [tree |-> [own.tree EXCEPT !.nodes[next].item.indicator_contribution = left],
           gain |-> own.gain + left - tree.nodes[next].item.indicator_contribution]

\* A counted item has its contribution measured in the tree that holds it.
WithContribution(logger, item, tree) ==
  IF logger.compute_indicators /\ item.within_ROI
  THEN Contributions(tree, avl_item_search(tree, item)) ELSE [tree |-> tree, gain |-> 0]
TreeReplaced(logger, item, removed, measured) ==
  LET nodes == logger.archive_tree.nodes
      lost == FoldLeft(LAMBDA sum, node : sum + nodes[node].item.indicator_contribution, 0, removed)
  IN [logger EXCEPT
        !.archive_tree = measured.tree,
        !.buffer_tree = avl_item_insert(
          FoldLeft(LAMBDA tree, node : avl_item_delete(tree, nodes[node].item), @, removed), item),
        !.indicator.current_value = @ + measured.gain - (IF logger.compute_indicators THEN lost ELSE 0)]

logger_biobj_tree_update(logger, item) ==
  TreeReplaced(logger, item, Dominated(logger.archive_tree, item),
               WithContribution(logger, item, Updated(logger.archive_tree, item)))

\* The lines of a tree: the evaluation and its objectives.
logger_biobj_tree_output(tree) ==
  LET items == Items(tree) IN [k \in DOMAIN items |-> <<items[k].evaluation_number, items[k].y>>]

\* With the distance to the ROI as long as there is no volume.
OverallValue(indicator, item) ==
  LET distance == mo_get_distance_to_ROI(item.normalized_y)
      penalty == IF indicator.current_value # 0 THEN 0
                 ELSE IF distance < indicator.additional_penalty THEN distance
                 ELSE indicator.additional_penalty
  IN [indicator EXCEPT !.additional_penalty = penalty,
                       !.overall_value = indicator.best_value - indicator.current_value + penalty]

\* Mutated: evaluations between two lines are answered with the newer value.
LoggedLate(indicator, j) ==
  LET t == coco_observer_evaluations_trigger(indicator.evaluations, j)
  IN [indicator EXCEPT !.evaluations = t.evaluations, !.evaluation_logged = t.hit,
                       !.tdat = IF t.hit THEN Append(@, <<j, indicator.overall_value>>) ELSE @]

\* An evaluation between the last two that are known.
LoggedBetween(indicator, j) ==
  LET t == coco_observer_evaluations_trigger(indicator.evaluations, j)
  IN [indicator EXCEPT !.evaluations = t.evaluations, !.evaluation_logged = t.hit,
                       !.tdat = IF t.hit THEN Append(@, <<j, indicator.previous_value>>) ELSE @]

\* The line of a target that the new value reaches, and that of a number of
\* evaluations that is.
Aimed(valued, n) ==
  LET target == coco_observer_targets_trigger(valued.targets, valued.overall_value)
  IN [valued EXCEPT !.target_hit = target.hit, !.targets = target.targets,
        !.dat = IF target.hit THEN Append(@, <<n, valued.overall_value, target.targets.value>>) ELSE @]
Timed(aimed, n) ==
  LET time == coco_observer_evaluations_trigger(aimed.evaluations, n)
  IN [aimed EXCEPT !.evaluations = time.evaluations, !.evaluation_logged = time.hit,
        !.tdat = IF time.hit THEN Append(@, <<n, aimed.overall_value>>) ELSE @]
Between(logger, aimed) ==
  IF logger.log_nondom_mode # "read" THEN aimed
  ELSE FoldLeft(LoggedBetween, aimed,
                Upto(logger.previous_evaluations + 1, logger.number_of_evaluations - 1))

logger_biobj_output(logger, update, item) ==
  LET n == logger.number_of_evaluations
      old == [logger.indicator EXCEPT !.target_hit = FALSE, !.previous_value = logger.indicator.overall_value]
  IN IF ~ logger.compute_indicators THEN logger
     ELSE [logger EXCEPT !.indicator =
             Timed(Between(logger, IF update THEN Aimed(OverallValue(old, item), n) ELSE old), n)]

\* All nondominated solutions are written at once and the buffer is emptied.
NondominatedWritten(logger, update) ==
  IF ~ update \/ logger.log_nondom_mode # "all" THEN logger
  ELSE [logger EXCEPT !.adat = @ \o logger_biobj_tree_output(logger.buffer_tree),
                      !.buffer_tree = avl_tree_purge(@)]

TreeUpdated(logger, update, item) ==
  IF update THEN logger_biobj_tree_update(logger, item) ELSE logger

logger_biobj_evaluated(logger0, y) ==
  LET logger == [logger0 EXCEPT !.number_of_evaluations = @ + 1]
      item == logger_biobj_node_create(y, logger.number_of_evaluations)
      update == Accepts(logger.archive_tree, item)
  IN logger_biobj_output(NondominatedWritten(TreeUpdated(logger, update, item), update), update, item)

\* For a logger in the mode "read", with the numbers rising.
logger_biobj_fed(logger0, evaluation, y) ==
  LET logger == [logger0 EXCEPT !.previous_evaluations = logger0.number_of_evaluations,
                                !.number_of_evaluations = evaluation]
      item == logger_biobj_node_create(y, evaluation)
      update == Accepts(logger.archive_tree, item)
  IN logger_biobj_output(TreeUpdated(logger, update, item), update, item)

\* What is left, by time, is written when the logger is freed.
logger_biobj_finalize(logger) ==
  LET resorted == FoldLeft(avl_item_insert, avl_tree_construct("evaluation_number"),
                           Items(logger.archive_tree))
  IN [logger EXCEPT !.adat = @ \o logger_biobj_tree_output(resorted)]

\* The last lines of an indicator, where the last evaluation has none.
logger_biobj_indicator_finalize(indicator, n) ==
  [indicator EXCEPT
     !.dat = IF indicator.target_hit THEN @
             ELSE Append(@, <<n, indicator.overall_value, indicator.targets.value>>),
     !.tdat = IF indicator.evaluation_logged THEN @ ELSE Append(@, <<n, indicator.overall_value>>)]

logger_biobj_freed(logger) ==
  LET final == IF logger.log_nondom_mode = "final" THEN logger_biobj_finalize(logger) ELSE logger
  IN IF ~ logger.compute_indicators THEN final
     ELSE [final EXCEPT !.indicator = logger_biobj_indicator_finalize(@, logger.number_of_evaluations)]

----------------------------------------------------------------------------
(* Archives.  A text is the line of a file. *)

coco_archive_node_item_create(y, text) == [normalized_y |-> mo_normalize(y, Ideal, Nadir), text |-> text]

coco_archive_allocate ==
  [tree |-> avl_tree_construct("last_objective"), is_up_to_date |-> FALSE,
   number_of_solutions |-> 0, hypervolume |-> 0, current_solution |-> Nil,
   extreme1 |-> Nil, extreme2 |-> Nil, extremes_already_returned |-> FALSE]

coco_archive_added(archive, y, text) ==
  LET item == coco_archive_node_item_create(y, text)
  IN IF ~ Accepts(archive.tree, item) THEN archive
     ELSE [archive EXCEPT !.tree = Updated(archive.tree, item), !.is_up_to_date = FALSE]

Extreme1 == <<0, <<Nadir[1], Ideal[2]>>>>
Extreme2 == <<0, <<Ideal[1], Nadir[2]>>>>
WithExtremes(both) == [both EXCEPT !.extreme1 = both.tree.head, !.extreme2 = both.tree.tail]
coco_archive_made ==
  WithExtremes(coco_archive_added(coco_archive_added(coco_archive_allocate, Extreme1[2], Extreme1),
                                  Extreme2[2], Extreme2))

\* The volume a node adds to that of the nodes before it.
Added(tree, node) ==
  LET left == tree.nodes[node].next
      y == Ny(tree, left)
  IN IF ~ mo_is_within_ROI(y) THEN 0
     ELSE ((IF mo_is_within_ROI(Ny(tree, node)) THEN Ny(tree, node)[1] ELSE Steps) - y[1]) * (Steps - y[2])
RECURSIVE VolumeFrom(_, _)
VolumeFrom(tree, node) ==
  IF tree.nodes[node].next = Nil THEN 0
  ELSE Added(tree, node) + VolumeFrom(tree, tree.nodes[node].next)

coco_archive_update(archive) ==
  IF archive.is_up_to_date THEN archive
  ELSE [archive EXCEPT !.number_of_solutions = avl_count(archive.tree),
                       !.hypervolume = VolumeFrom(archive.tree, archive.tree.head),
                       !.is_up_to_date = TRUE, !.current_solution = Nil,
                       !.extremes_already_returned = FALSE]

\* First the extremes, then the others; "" when there are no more.
RECURSIVE Skipping(_)
Skipping(archive) ==
  LET current == archive.current_solution
      moved == [archive EXCEPT !.current_solution = archive.tree.nodes[current].next]
  IN IF current = Nil THEN [archive |-> archive, text |-> ""]
     ELSE IF current \in {archive.extreme1, archive.extreme2} THEN Skipping(moved)
     ELSE [archive |-> moved, text |-> archive.tree.nodes[current].item.text]

coco_archive_next_text(archive0) ==
  LET archive == coco_archive_update(archive0)
      Text(node) == archive.tree.nodes[node].item.text
  IN IF archive.extremes_already_returned THEN Skipping(archive)
     ELSE IF archive.current_solution = Nil
     THEN [archive |-> [archive EXCEPT !.current_solution = archive.extreme2],
           text |-> Text(archive.extreme1)]
     ELSE [archive |-> [archive EXCEPT !.extremes_already_returned = TRUE,
                                       !.current_solution = archive.tree.head],
           text |-> Text(archive.extreme2)]

=============================================================================
