----------------------------- MODULE CocoFronts -----------------------------
(***************************************************************************)
(* One bi-objective problem under CoCO's logger, and what is made of the   *)
(* files of that logger later: a logger that reads them and reconstructs   *)
(* those of its indicator, or an archive that is asked for its hypervolume *)
(* and its solutions (src/native/coco.c, coco.h:555-589).                  *)
(***************************************************************************)
EXTENDS CocoArchive

CONSTANTS
  Starts,                      \* pairs of a problem and options of its observer
  Ys,                          \* objectives of the points that may be evaluated
  MayFollow(_, _)              \* ... and which one after which others

VARIABLES
  logger,             \* of the problem
  open,               \* until the logger is freed
  seen,               \* the objectives evaluated, oldest first
  reader,             \* the logger that reads
  archive,
  fed,                \* how many lines either of them has taken
  told                \* the texts the archive gave since it last changed

vars == <<logger, open, seen, reader, archive, fed, told>>

NoArchive == [tree |-> avl_tree_construct("last_objective")]
Reading == <<Word("log_nondominated", "read", {})>>
Observer(options) == coco_observer("bbob-biobj", options, 1)

Init ==
  /\ \E start \in Starts : logger = logger_biobj(Observer(start[2]), start[1])
  /\ open = TRUE /\ seen = << >> /\ reader = NoLogger /\ archive = NoArchive
  /\ fed = 0 /\ told = << >>

logger_biobj_evaluate ==
  /\ open /\ logger # NoLogger
  /\ \E y \in Ys : /\ MayFollow(seen, y)
                  /\ seen' = Append(seen, y)
                  /\ logger' = logger_biobj_evaluated(logger, y)
  /\ UNCHANGED <<open, reader, archive, fed, told>>

logger_biobj_free ==
  /\ open /\ logger # NoLogger /\ seen # << >>
  /\ logger' = logger_biobj_freed(logger) /\ open' = FALSE
  /\ UNCHANGED <<seen, reader, archive, fed, told>>

FilesUnread == ~ open /\ reader = NoLogger /\ archive = NoArchive

\* A reader has the problem of the logger.
StartReading ==
  /\ FilesUnread /\ logger.log_nondom_mode = "all" /\ logger.compute_indicators
  /\ reader' = [logger_biobj(Observer(Reading), 0)
                  EXCEPT !.indicator.best_value = logger.indicator.best_value]
  /\ UNCHANGED <<logger, open, seen, archive, fed, told>>

coco_logger_biobj_feed_solution ==
  /\ reader # NoLogger /\ fed < Len(logger.adat)
  /\ LET line == logger.adat[fed + 1] IN reader' = logger_biobj_fed(reader, line[1], line[2])
  /\ fed' = fed + 1
  /\ UNCHANGED <<logger, open, seen, archive, told>>

coco_archive ==
  /\ FilesUnread
  /\ archive' = coco_archive_made
  /\ UNCHANGED <<logger, open, seen, reader, fed, told>>

coco_archive_add_solution ==
  /\ archive # NoArchive /\ fed < Len(logger.adat)
  /\ LET line == logger.adat[fed + 1]
     IN archive' = coco_archive_added(archive, line[2], line)
  /\ fed' = fed + 1
  /\ told' = IF archive'.is_up_to_date THEN told ELSE << >>
  /\ UNCHANGED <<logger, open, seen, reader>>

coco_archive_get_next_solution_text ==
  /\ archive # NoArchive
  /\ told # << >> => told[Len(told)] # ""
  /\ LET next == coco_archive_next_text(archive)
     IN archive' = next.archive /\ told' = Append(told, next.text)
  /\ UNCHANGED <<logger, open, seen, reader, fed>>

\* As coco_archive_get_number_of_solutions.
coco_archive_get_hypervolume ==
  /\ archive # NoArchive /\ ~ archive.is_up_to_date
  /\ archive' = coco_archive_update(archive)
  /\ UNCHANGED <<logger, open, seen, reader, fed, told>>

Next == \/ logger_biobj_evaluate
        \/ logger_biobj_free
        \/ StartReading
        \/ coco_logger_biobj_feed_solution
        \/ coco_archive
        \/ coco_archive_add_solution
        \/ coco_archive_get_next_solution_text
        \/ coco_archive_get_hypervolume

Spec == Init /\ [][Next]_vars

----------------------------------------------------------------------------
Normal(y) == mo_normalize(y, Ideal, Nadir)
Normals(lines) == {<<k, Normal(lines[k][2])>> : k \in DOMAIN lines}

\* Evaluations as lines, and the lines either client has taken.
Seen == [k \in DOMAIN seen |-> <<k, seen[k]>>]
Fed == SubSeq(logger.adat, 1, fed)
Merged == <<Extreme1, Extreme2>> \o Fed

\* The lines no other line dominates, of equal ones the first.
WeaklyDominates(p, q) == p[1] <= q[1] /\ p[2] <= q[2]
ParetoFront(lines) ==
  LET points == Normals(lines)
  IN {lines[p[1]] : p \in {p \in points : \A q \in points :
        WeaklyDominates(q[2], p[2]) => q[2] = p[2] /\ p[1] <= q[1]}}

\* The squares of the ROI that some line dominates.
Volume(lines) ==
  LET points == Normals(lines)
  IN Cardinality({c \in (0 .. Steps - 1) \X (0 .. Steps - 1) :
                    \E p \in points : WeaklyDominates(p[2], c)})

LinesOf(tree) == ToSet(logger_biobj_tree_output(tree))
TextsOf(tree) == LET items == Items(tree) IN [k \in DOMAIN items |-> items[k].text]

(* All trees stay search trees in balance, and lists in the same order,    *)
(* through insertions, deletions of what a new point dominates and         *)
(* rotations at every level (avl_rebalance, avl_node_unlink).              *)
TreesAreSound ==
  /\ logger # NoLogger => IsSound(logger.archive_tree) /\ IsSound(logger.buffer_tree)
  /\ reader # NoLogger => IsSound(reader.archive_tree) /\ IsSound(reader.buffer_tree)
  /\ IsSound(archive.tree)

(* The tree holds exactly what is nondominated among all points so far,    *)
(* though it compares a new point only with those from one found by search *)
(* up to the first that is not dominated (logger_biobj_tree_update,        *)
(* coco_archive_add_solution).  The logger writes each of these once, by   *)
(* time: at once or in the end.  An archive never loses its two extremes   *)
(* and gives, after every change, first these and then each other line.    *)
TreesAreFronts ==
  /\ logger # NoLogger => LinesOf(logger.archive_tree) = ParetoFront(Seen)
  /\ reader # NoLogger => LinesOf(reader.archive_tree) = ParetoFront(Fed)
  /\ logger # NoLogger =>
       /\ logger.log_nondom_mode = "all" =>
            ToSet(logger.adat) = {Seen[k] : k \in {k \in DOMAIN seen : Seen[k] \in ParetoFront(SubSeq(Seen, 1, k))}}
       /\ ~ open /\ logger.log_nondom_mode = "final" => ToSet(logger.adat) = ParetoFront(Seen)
       /\ \A k \in 1 .. Len(logger.adat) - 1 : logger.adat[k][1] < logger.adat[k + 1][1]
  /\ archive # NoArchive =>
       LET texts == TextsOf(archive.tree)
           others == SubSeq(texts, 2, Len(texts) - 1)
       IN /\ ToSet(texts) = ParetoFront(Merged)
          /\ texts[1] = Extreme1 /\ texts[Len(texts)] = Extreme2
          /\ IsPrefix(told, <<Extreme1, Extreme2>> \o others \o <<"">>)

(* The volume that is kept up point by point, from shares that are         *)
(* recomputed for the new point and the next one only, is the volume of    *)
(* all points together; an archive of all lines has the same.  Without any *)
(* the penalty is the distance of the nearest point to the ROI             *)
(* (logger_biobj_tree_update, logger_biobj_output, coco_archive_update).   *)
IndicatorsMeasureFronts ==
  /\ logger # NoLogger /\ seen # << >> =>
       (logger.compute_indicators =>
         LET i == logger.indicator
             distances == {mo_get_distance_to_ROI(Normal(y)) : y \in ToSet(seen)}
             penalty == IF Volume(Seen) > 0 THEN 0 ELSE MinOf(distances)
         IN /\ i.current_value = Volume(Seen)
            /\ i.overall_value = i.best_value - Volume(Seen) + penalty)
  /\ reader # NoLogger => reader.indicator.current_value = Volume(Fed)
  /\ archive # NoArchive =>
       (archive.is_up_to_date =>
         /\ archive.hypervolume = Volume(Merged)
         /\ archive.number_of_solutions = Cardinality(ParetoFront(Merged))
         /\ fed = Len(logger.adat) /\ logger.log_nondom_mode # "none" =>
              archive.hypervolume = Volume(Seen))

(* A logger that reads nothing but the nondominated solutions writes the   *)
(* indicator files of the logger that saw all evaluations, up to the line  *)
(* it has read: also the values between the evaluations it knows           *)
(* (coco_logger_biobj_feed_solution, logger_biobj_output).                 *)
ReadersReconstruct ==
  reader # NoLogger /\ fed > 0 =>
    LET last == logger.adat[fed][1]
        known == IF last = Len(seen) THEN logger_biobj_freed(reader) ELSE reader
        Until(lines) == SelectSeq(lines, LAMBDA line : line[1] <= last)
    IN /\ known.indicator.dat = Until(logger.indicator.dat)
       /\ known.indicator.tdat = Until(logger.indicator.tdat)

=============================================================================
