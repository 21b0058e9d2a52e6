----------------------------- MODULE CocoSuite -----------------------------
(***************************************************************************)
(* The suites of CoCO (src/native/coco.c): which functions, dimensions and *)
(* instances a suite holds, what its options leave of them, and the order  *)
(* in which it hands out their problems.  Indices count from 0, as in the  *)
(* code; an item 0 is one an option took out.                              *)
(***************************************************************************)
EXTENDS CocoOptions

CONSTANT COCO_MAX_INSTANCES          \* 1000 in the code

ASSUME MaxInstancesAssumption == COCO_MAX_INSTANCES \in Nat \ {0}

NoProblem == [function |-> 0]
Null == [suite_name |-> "NULL"]
Exit == [suite_name |-> "exit"]      \* coco_error: the process ends
ExitItems == <<Open>>                \* ... from a function that returns a list

MinOf(S) == CHOOSE k \in S : \A j \in S : k <= j
Item(items, idx) == items[idx + 1]
ValidIndices(items) == {k \in 0 .. Len(items) - 1 : Item(items, k) # 0}

coco_suite_allocate(suite_name, number_of_functions, dimensions, default_instances) ==
  [suite_name |-> suite_name, functions |-> Upto(1, number_of_functions), dimensions |-> dimensions,
   instances |-> << >>, default_instances |-> default_instances,
   current_dimension_idx |-> -1, current_function_idx |-> -1, current_instance_idx |-> -1,
   current_problem |-> NoProblem]

----------------------------------------------------------------------------
(* The suites and what they were in which year. *)

Year(y) == <<Ranges("year", <<Single(y)>>)>>
Instances(lo, hi) == <<Ranges("instances", <<Span(lo, hi)>>)>>
Low == <<2, 3, 5, 10, 20, 40>>

suite_bbob_initialize == coco_suite_allocate("bbob", 24, Low, Year(2021))
suite_bbob_get_instances_by_year(year) ==
  CASE year = 2009 -> <<Span(1, 5), Span(1, 5), Span(1, 5)>>
    [] year = 2010 -> <<Span(1, 15)>>
    [] year = 2012 -> <<Span(1, 5), Span(21, 30)>>
    [] year = 2013 -> <<Span(1, 5), Span(31, 40)>>
    [] year = 2015 -> <<Span(1, 5), Span(41, 50)>>
    [] year \in {0, 2016} -> <<Span(1, 5), Span(51, 60)>>
    [] year = 2017 -> <<Span(1, 5), Span(61, 70)>>
    [] year = 2018 -> <<Span(1, 5), Span(71, 80)>>
    [] year = 2021 -> <<Span(1, 5), Span(91, 100)>>
    [] OTHER -> << >>

suite_largescale_initialize ==
  coco_suite_allocate("bbob-largescale", 24, <<20, 40, 80, 160, 320, 640>>, Instances(1, 15))
suite_largescale_get_instances_by_year(year) ==
  IF year \in {0, 2016} THEN <<Span(1, 15)>> ELSE << >>

suite_bbob_mixint_initialize(suite_name) ==
  coco_suite_allocate(suite_name, 24, <<5, 10, 20, 40, 80, 160>>, Instances(1, 15))
suite_bbob_mixint_get_instances_by_year(year) == <<Span(1, 15)>>

suite_biobj_initialize(suite_name) ==
  coco_suite_allocate(suite_name, IF suite_name = "bbob-biobj" THEN 55 ELSE 92, Low, Instances(1, 15))
suite_biobj_get_instances_by_year(year) ==
  IF year \in {0, 2016} THEN <<Span(1, 10)>> ELSE <<Span(1, 15)>>

suite_biobj_mixint_initialize ==
  coco_suite_allocate("bbob-biobj-mixint", 92, <<5, 10, 20, 40, 80, 160>>, Instances(1, 15))
suite_biobj_mixint_get_instances_by_year(year) == <<Span(1, 15)>>

suite_cons_bbob_initialize(suite_name) == coco_suite_allocate(suite_name, 54, Low, Year(2022))
suite_cons_bbob_get_instances_by_year(year) ==
  IF year \in {0, 2022} THEN <<Span(1, 15)>> ELSE << >>

suite_toy_initialize ==
  coco_suite_allocate("toy", 6, <<2, 3, 5, 10, 20>>, <<Ranges("instances", <<Single(1)>>)>>)

ConstrainedNames ==
  {"bbob-constrained", "bbob-constrained-active-only", "bbob-constrained-no-disguise"}

coco_suite_intialize(suite_name) ==
  CASE suite_name = "toy" -> suite_toy_initialize
    [] suite_name = "bbob" -> suite_bbob_initialize
    [] suite_name \in {"bbob-biobj", "bbob-biobj-ext"} -> suite_biobj_initialize(suite_name)
    [] suite_name = "bbob-largescale" -> suite_largescale_initialize
    [] suite_name \in ConstrainedNames -> suite_cons_bbob_initialize(suite_name)
    [] suite_name = "bbob-mixint" -> suite_bbob_mixint_initialize(suite_name)
    [] suite_name = "bbob-biobj-mixint" -> suite_biobj_mixint_initialize
    [] OTHER -> Exit

\* << >> where the year, or any year for the suite, is an error.
coco_suite_get_instances_by_year(suite, year) ==
  LET name == suite.suite_name
  IN CASE name = "bbob" -> suite_bbob_get_instances_by_year(year)
       [] name \in {"bbob-biobj", "bbob-biobj-ext"} -> suite_biobj_get_instances_by_year(year)
       [] name \in ConstrainedNames -> suite_cons_bbob_get_instances_by_year(year)
       [] name = "bbob-largescale" -> suite_largescale_get_instances_by_year(year)
       [] name = "bbob-mixint" -> suite_bbob_mixint_get_instances_by_year(year)
       [] name = "bbob-biobj-mixint" -> suite_biobj_mixint_get_instances_by_year(year)
       [] OTHER -> << >>

----------------------------------------------------------------------------
(* What the options leave. *)

\* Of two options the one that comes first, unless one of them is the very
\* first word of the string: then both are read and the second name wins.
coco_suite_get_instance_indices(suite, suite_instance) ==
  LET year_found == coco_strfind(suite_instance, "year")
      instances_found == coco_strfind(suite_instance, "instances")
      both == FoundAfterStart(suite_instance, "year") /\ FoundAfterStart(suite_instance, "instances")
      parse_year == year_found > 0 /\ (both => year_found < instances_found)
      parse_instances == instances_found > 0 /\ (both => year_found >= instances_found)
      year == coco_options_read_int(suite_instance, "year", -1)
      given == coco_suite_get_instances_by_year(suite, year)
      of_year == coco_string_parse_ranges(given, 1, 0, COCO_MAX_INSTANCES)
      values == coco_options_read_values(suite_instance, "instances")
  IN IF parse_year /\ year >= 0 /\ given = << >> THEN ExitItems
     ELSE IF parse_instances /\ values # << >>
     THEN coco_string_parse_ranges(values, 1, 0, COCO_MAX_INSTANCES)
     ELSE IF parse_year /\ year >= 0 THEN of_year ELSE NoItems

coco_suite_set_instance(suite, instance_numbers) ==
  LET n == coco_count_numbers(instance_numbers, COCO_MAX_INSTANCES)
  IN IF n < 0 \/ instance_numbers \in {NoItems, ExitItems} THEN Exit
     ELSE [suite EXCEPT !.instances = SubSeq(instance_numbers, 1, n)]

coco_suite_filter_indices(items, indices) ==
  [k \in DOMAIN items |-> IF k \in ToSet(indices) THEN items[k] ELSE 0]

coco_suite_filter_dimensions(items, dimension_numbers) ==
  LET asked == {dimension_numbers[j] : j \in 1 .. coco_count_numbers(dimension_numbers, COCO_MAX_INSTANCES)}
  IN [k \in DOMAIN items |-> IF items[k] \in asked THEN items[k] ELSE 0]

\* Numbers of items by the option of that name; an unreadable one is ignored.
Filtered(items, options, name) ==
  LET values == coco_options_read_values(options, name)
      indices == coco_string_parse_ranges(values, 1, Len(items), COCO_MAX_INSTANCES)
  IN IF values = << >> \/ indices = NoItems THEN items
     ELSE coco_suite_filter_indices(items, indices)

FilteredDimensions(items, options) ==
  LET values == coco_options_read_values(options, "dimensions")
      dimensions == coco_string_parse_ranges(values, items[1], items[Len(items)], COCO_MAX_INSTANCES)
  IN IF values = << >> \/ dimensions = NoItems THEN items
     ELSE coco_suite_filter_dimensions(items, dimensions)

Dashed(ranges) == \E i \in DOMAIN ranges : ranges[i].dashes > 0 \/ ranges[i].lo = Garbled

----------------------------------------------------------------------------
(* The cursors. *)

\* Mutated: the search after an item starts with the item itself.
NextItemFrom(items, current) ==
  LET later == {k \in ValidIndices(items) : k >= current /\ current >= 0}
  IN IF later # {} /\ current < Len(items) - 1 THEN [found |-> TRUE, at |-> MinOf(later)]
     ELSE [found |-> FALSE, at |-> MinOf(ValidIndices(items))]

\* The next valid item; without one, back to the first.
coco_suite_is_next_item_found(items, current) ==
  LET later == {k \in ValidIndices(items) : k > current}
  IN IF later # {} THEN [found |-> TRUE, at |-> MinOf(later)]
     ELSE [found |-> FALSE, at |-> MinOf(ValidIndices(items))]

coco_suite_is_next_instance_found(suite) ==
  LET next == coco_suite_is_next_item_found(suite.instances, suite.current_instance_idx)
  IN [found |-> next.found, suite |-> [suite EXCEPT !.current_instance_idx = next.at]]

\* Back at the first function it is also back at the first instance.
coco_suite_is_next_function_found(suite) ==
  LET next == coco_suite_is_next_item_found(suite.functions, suite.current_function_idx)
      moved == [suite EXCEPT !.current_function_idx = next.at]
  IN [found |-> next.found,
      suite |-> IF next.found THEN moved
                ELSE coco_suite_is_next_instance_found([moved EXCEPT !.current_instance_idx = -1]).suite]

coco_suite_is_next_dimension_found(suite) ==
  LET next == coco_suite_is_next_item_found(suite.dimensions, suite.current_dimension_idx)
  IN [found |-> next.found, suite |-> [suite EXCEPT !.current_dimension_idx = next.at]]

HasValid(items) == ValidIndices(items) # {}

\* The instances asked for, else those the suite has by default.
AskedOrDefault(asked, default) == IF asked = NoItems THEN default ELSE asked
WithInstances(suite, suite_instance) ==
  coco_suite_set_instance(suite,
    AskedOrDefault(IF suite_instance = << >> THEN NoItems
                   ELSE coco_suite_get_instance_indices(suite, suite_instance),
                   coco_suite_get_instance_indices(suite, suite.default_instances)))

\* Of the options dimensions and dimension_indices the one that comes first,
\* with the same exception.
BothDimensions(options) ==
  FoundAfterStart(options, "dimensions") /\ FoundAfterStart(options, "dimension_indices")
ParseDimensions(options) ==
  BothDimensions(options) => coco_strfind(options, "dimensions") < coco_strfind(options, "dimension_indices")
ParseDimensionIndices(options) ==
  BothDimensions(options) => coco_strfind(options, "dimensions") >= coco_strfind(options, "dimension_indices")

DimensionsLeft(items, options) == IF ParseDimensions(options) THEN FilteredDimensions(items, options) ELSE items
SuiteLeft(suite, options) ==
  [suite EXCEPT
     !.functions = Filtered(@, options, "function_indices"),
     !.instances = Filtered(@, options, "instance_indices"),
     !.dimensions = DimensionsLeft(
       IF ParseDimensionIndices(options) THEN Filtered(@, options, "dimension_indices") ELSE @, options)]

AtFirstProblem(suite) ==
  IF ~ HasValid(suite.functions) \/ ~ HasValid(suite.dimensions) THEN Exit
  ELSE coco_suite_is_next_dimension_found(coco_suite_is_next_function_found(suite).suite).suite

\* Null where the code returns NULL, Exit where it ends the process.
SuiteOf(suite, suite_options) ==
  IF suite = Exit THEN Exit
  ELSE IF ParseDimensions(suite_options) /\ Dashed(coco_options_read_values(suite_options, "dimensions"))
  THEN Null
  ELSE AtFirstProblem(SuiteLeft(suite, suite_options))
coco_suite(suite_name, suite_instance, suite_options) ==
  LET suite == coco_suite_intialize(suite_name)
  IN IF suite = Exit THEN Exit ELSE SuiteOf(WithInstances(suite, suite_instance), suite_options)

----------------------------------------------------------------------------
(* Numbers of problems. *)

coco_suite_get_number_of_problems(suite) ==
  Len(suite.instances) * Len(suite.functions) * Len(suite.dimensions)

\* Mutated: dimensions are weighted as if there were as many functions as dimensions.
EncodedByDimensions(suite, function_idx, dimension_idx, instance_idx) ==
  instance_idx + function_idx * Len(suite.instances)
    + dimension_idx * Len(suite.instances) * Len(suite.dimensions)

coco_suite_encode_problem_index(suite, function_idx, dimension_idx, instance_idx) ==
  instance_idx + function_idx * Len(suite.instances)
    + dimension_idx * Len(suite.instances) * Len(suite.functions)

\* A number too large leaves the outputs as the caller had set them.
coco_suite_decode_problem_index(suite, problem_index) ==
  IF problem_index > coco_suite_get_number_of_problems(suite) - 1
  THEN [function_idx |-> 0, dimension_idx |-> 0, instance_idx |-> 0]
  ELSE [function_idx |-> (problem_index \div Len(suite.instances)) % Len(suite.functions),
        dimension_idx |-> problem_index \div (Len(suite.instances) * Len(suite.functions)),
        instance_idx |-> problem_index % Len(suite.instances)]

\* Each suite labels its problems with their place in the suite.
suite_get_problem(suite, function_idx, dimension_idx, instance_idx) ==
  [function |-> Item(suite.functions, function_idx),
   dimension |-> Item(suite.dimensions, dimension_idx),
   instance |-> Item(suite.instances, instance_idx),
   suite_dep_index |->
     coco_suite_encode_problem_index(suite, function_idx, dimension_idx, instance_idx),
   suite |-> suite.suite_name]

Java_coco_CocoJNI_cocoProblemGetIndex(problem) == problem.suite_dep_index

coco_suite_get_problem_from_indices(suite, function_idx, dimension_idx, instance_idx) ==
  IF 0 \in {Item(suite.functions, function_idx), Item(suite.dimensions, dimension_idx),
            Item(suite.instances, instance_idx)}
  THEN NoProblem ELSE suite_get_problem(suite, function_idx, dimension_idx, instance_idx)

coco_suite_get_problem(suite, problem_index) ==
  LET d == coco_suite_decode_problem_index(suite, problem_index)
  IN coco_suite_get_problem_from_indices(suite, d.function_idx, d.dimension_idx, d.instance_idx)

\* The index of the first item with a value; -1 if there is none.
FirstIndex(items, value) ==
  LET at == {k \in 0 .. Len(items) - 1 : Item(items, k) = value}
  IN IF at = {} THEN -1 ELSE MinOf(at)

coco_suite_get_problem_by_function_dimension_instance(suite, function, dimension, instance) ==
  LET f == FirstIndex(suite.functions, function)
      d == FirstIndex(suite.dimensions, dimension)
      i == FirstIndex(suite.instances, instance)
  IN IF -1 \in {f, d, i} THEN NoProblem ELSE coco_suite_get_problem_from_indices(suite, f, d, i)

\* The getters; the last one reads the wrong list, past its end where there
\* are more instances than functions.
coco_suite_get_function_from_function_index(suite, idx) == Item(suite.functions, idx)
coco_suite_get_dimension_from_dimension_index(suite, idx) == Item(suite.dimensions, idx)
coco_suite_get_instance_from_instance_index(suite, idx) == Item(suite.functions, idx)

\* The next instance, else function, else dimension.
Advanced(suite) ==
  LET i == coco_suite_is_next_instance_found(suite)
      f == coco_suite_is_next_function_found(i.suite)
  IN IF i.found THEN i ELSE IF f.found THEN f ELSE coco_suite_is_next_dimension_found(f.suite)

CursorProblem(suite) ==
  coco_suite_get_problem_from_indices(suite, suite.current_function_idx,
                                      suite.current_dimension_idx, suite.current_instance_idx)

=============================================================================
