-------------------------- MODULE MCCocoExperiment --------------------------
EXTENDS CocoExperiment

\* What a benchmark may be started with, what that asks for, and the bounds
\* on the evaluations of it.
Plan(name, instance, options, observing, observer_options, dimensions, functions, instances,
     most, values, sums) ==
  [name |-> name, instance |-> instance, options |-> options,
   observer |-> observing, observer_options |-> observer_options,
   wants |-> [dimensions |-> dimensions, functions |-> functions, instances |-> instances],
   calls |-> most, values |-> values, sums |-> sums]

MCFirstTriggers == <<1, 3, 5, 50>>

One(key, k) == Ranges(key, <<Single(k)>>)
Some(key, lo, hi) == Ranges(key, <<Span(lo, hi)>>)
Nothing == << >>

\* Two functions, dimensions and instances, by name.
Grid == Plan("bbob", <<Some("instances", 1, 2)>>,
             <<Some("function_indices", 1, 2), Ranges("dimensions", <<Single(2), Single(3)>>)>>,
             "bbob", Nothing, <<2, 3>>, <<1, 2>>, <<1, 2>>, 3, {0, 1}, {0})
\* By number, with a gap, over more dimensions than there is room for.
Wide == Plan("bbob", <<One("year", 2009)>>,
             <<Some("instance_indices", 5, 6), Some("function_indices", 24, Open),
               Ranges("dimension_indices", <<Span(Open, 2), Single(5)>>)>>,
             "bbob", Nothing, <<2, 3, 20>>, <<24>>, <<5, 1>>, 3, {0}, {0})
\* A function of the plan above and others, in one dimension.
Mixed == Plan("bbob-mixint", <<Ranges("instances", <<Single(2), Span(5, Open), Single(7)>>)>>,
              <<Ranges("function_indices", <<Span(0, 1), Single(24)>>), Some("dimension_indices", 6, 9)>>,
              "bbob-mixint", Nothing, <<160>>, <<1, 24>>, <<2>>, 2, {0}, {0})

MCProgrammes ==
  { <<Grid, Mixed>>, <<Wide, Wide>>, <<Mixed, Wide>>, <<Wide, Grid>>,
    \* many evaluations of one constrained problem
    << Plan("bbob-constrained", <<One("instances", 3)>>,
            <<One("function_indices", 2), One("dimensions", 2)>>,
            "bbob", <<Ranges("base_evaluation_triggers", <<Span(1, 2)>>)>>,
            <<2>>, <<2>>, <<3>>, 5, {-1, 0, 2, 5}, {0, 3}) >>,
    \* the other loggers
    << Plan("toy", Nothing, <<Some("function_indices", Open, 2), Some("dimension_indices", 2, 2)>>,
            "toy", Nothing, <<3>>, <<1, 2>>, <<1>>, 4, {0, 1, 3, 6}, {0}),
       Plan("bbob-largescale", <<Word("remark", "none", {}), One("instances", 4), One("year", 2016)>>,
            <<One("function_indices", 3), One("dimension_indices", 1)>>,
            "rw", <<One("log_only_better", 1), Word("log_variables", "low_dim", {})>>,
            <<20>>, <<3>>, <<4>>, 4, {0, 1, 3}, {0}),
       Plan("bbob-biobj", <<One("instances", 1)>>, <<One("function_indices", 55), One("dimensions", 2)>>,
            "rw", <<One("log_only_better", 1)>>, <<2>>, <<55>>, <<1>>, 3, {0, 1}, {0}),
       Plan("bbob-biobj-mixint", <<Some("instances", 3, 1)>>,
            <<One("function_indices", 1), One("dimension_indices", 1), One("instance_indices", 15)>>,
            "no_observer", Nothing, <<5>>, <<1>>, <<15>>, 2, {0}, {0}) >>,
    \* what makes no suite
    << Plan("no-suite", Nothing, Nothing, "bbob", Nothing, Nothing, Nothing, Nothing, 0, {}, {}) >>,
    << Plan("toy", <<One("year", 2021)>>, Nothing, "toy", Nothing, Nothing, Nothing, Nothing, 0, {}, {}) >>,
    << Plan("bbob", <<Some("instances", 1, 20)>>, Nothing, "bbob", Nothing, Nothing, Nothing, Nothing, 0, {}, {}) >>,
    << Plan("bbob", Nothing, <<One("dimensions", 4)>>, "other", Nothing, Nothing, Nothing, Nothing, 0, {}, {}) >>,
    << Plan("bbob-biobj-ext", Nothing, <<Some("dimensions", 2, 3)>>, "", Nothing, Nothing, Nothing, Nothing, 0, {}, {}) >> }

\* What the theorems suppose of the plans holds of these.
ASSUME PlansAreRead

=============================================================================
