----------------------------- MODULE Simulation -----------------------------
(***************************************************************************)
(* The running simulation: the leader's SimulationActor, the RegionActors  *)
(* it creates, and the AgentActors that feed it with solutions.            *)
(*                                                                         *)
(* The leader owns a pool of region ids.  A list of solutions found by an  *)
(* agent becomes a new region while there are fewer than minRegions, and   *)
(* goes to a region picked by a roulette afterwards.  A region whose       *)
(* variation rate exceeds the global one sends its outliers back, which    *)
(* become regions in turn.  Stopping (on request, or when the simulated    *)
(* time runs out) asks every agent and every region one after the other.   *)
(*                                                                         *)
(* Actors exchange messages in FIFO order per sender and receiver; the     *)
(* leader takes its senders' messages in any order.  Messages carry values *)
(* (regions on other nodes); the leader is elected, all agents are created *)
(* and registered, and no actor restarts.                                  *)
(***************************************************************************)
EXTENDS RegionStatistics

CONSTANTS
    NumberOfAgents,         \* simulationSettings.numberOfAgents
    MaxRegions, MinRegions, MinSolutionsToSplit,    \* RegionSettings
    IsBenchmark,            \* a benchmark has no execution time
    ExecutionTime,          \* simulated time that ends a simulation
    AskMayTimeOut,          \* may a region answer later than the ask waits?
    ResultSizes,            \* lengths of the lists an agent may produce
    NoSummary,              \* null
    MaxStarts, MaxStops,    \* bounds: StartSimulations, StopSimulations
    MaxTicks,               \* bound: stimuli that make a region split
    MaxMail                 \* bound: results of one agent not yet handled

RegionIds == 0 .. MaxRegions - 1
Agents == 0 .. NumberOfAgents - 1

ASSUME MaxRegionsAssumption == MaxRegions \in Nat \ {0}
ASSUME MinRegionsAssumption == MinRegions \in 1 .. MaxRegions
ASSUME NumberOfAgentsAssumption == NumberOfAgents \in Nat
ASSUME MinSolutionsToSplitAssumption == MinSolutionsToSplit \in Nat
ASSUME ExecutionTimeAssumption == ExecutionTime \in Nat
ASSUME ResultSizesAssumption == ResultSizes \subseteq Nat
ASSUME NoSummaryAssumption == NoSummary \notin Summaries

VARIABLES
    (* the leader *)
    mode,               \* "up", or why it handles no message any more
    status,             \* SimulationState.Status
    simulationStarted,
    time,
    regionsIds,         \* the free ids, first in first out
    regionUsedIds,
    registered,         \* the ids whose entry of regions[] is not null
    regionsSummary,
    globalStatistics,
    frames,             \* the calls of stopAgentsAndRegions under way
    asked,              \* the region it waits for, if any
    replied,            \* has that region answered?
    stoppedNotices,     \* SimulationStopped messages sent to the parent
    (* messages under way *)
    regionBox,          \* leader to region
    regionMail,         \* region to leader
    agentMail,          \* agent to leader: the lists of SolutionResults
    startMail,          \* leader to agent: StartSimulations
    (* the regions *)
    solutionList,
    regionStarted,
    globalSummary,
    (* the agents *)
    agentState,         \* "idle" before the first start: no timer yet
    produced,           \* solutions found so far
    (* bounds *)
    starts, stops, ticks

idVars      == <<regionsIds, regionUsedIds>>
tableVars   == <<registered, regionsSummary, globalStatistics, time>>
statusVars  == <<mode, status, simulationStarted, stoppedNotices>>
stopVars    == <<frames, asked, replied>>
leaderVars  == <<idVars, tableVars, statusVars, stopVars>>
mailVars    == <<regionBox, regionMail, agentMail, startMail>>
regionVars  == <<solutionList, regionStarted, globalSummary>>
agentVars   == <<agentState, produced>>
boundVars   == <<starts, stops, ticks>>
vars == <<leaderVars, mailVars, regionVars, agentVars, boundVars>>

-----------------------------------------------------------------------------
(* Messages *)

SolutionLists == Seq(Solutions)

CreateRegion(list)           == [type |-> "CreateRegion", solutions |-> list]
SolutionResponse(list)       == [type |-> "SolutionResponse", solutions |-> list]
UpdateGlobalSummary(summary) == [type |-> "UpdateGlobalSummary", summary |-> summary]
StopSimulation               == [type |-> "StopSimulation"]

UpdateRegionSummary(summary) == [type |-> "UpdateRegionSummary", summary |-> summary]
RegionRegister(summary)      == [type |-> "RegionRegister", summary |-> summary]
RegionSplit(lower, higher)   == [type |-> "RegionSplit", lower |-> lower, higher |-> higher]

LeaderMessages ==
         [type : {"CreateRegion", "SolutionResponse"}, solutions : SolutionLists]
    \cup [type : {"UpdateGlobalSummary"}, summary : Summaries \cup {NoSummary}]
    \cup {StopSimulation}

RegionMessages ==
         [type : {"UpdateRegionSummary", "RegionRegister"}, summary : Summaries]
    \cup [type : {"RegionSplit"}, lower : SolutionLists, higher : SolutionLists]

Frames == [kind : {"stop", "finish"}, agent : Nat]

Nobody == -1        \* asked: no region

TypeOK ==
    /\ mode \in {"up", "spinning", "failed", "exited"}
    /\ status \in {"READY", "STARTED", "STOPPED", "FINISHED"}
    /\ simulationStarted \in BOOLEAN
    /\ time \in Nat
    /\ regionsIds \in Seq(RegionIds)
    /\ regionUsedIds \in Seq(RegionIds)
    /\ registered \subseteq RegionIds
    /\ regionsSummary \in [RegionIds -> Summaries \cup {NoSummary}]
    /\ globalStatistics \in Summaries \cup {NoSummary}
    /\ frames \in Seq(Frames)
    /\ asked \in RegionIds \cup {Nobody}
    /\ replied \in BOOLEAN
    /\ stoppedNotices \in Nat
    /\ regionBox \in [RegionIds -> Seq(LeaderMessages)]
    /\ regionMail \in [RegionIds -> Seq(RegionMessages)]
    /\ agentMail \in [Agents -> Seq(SolutionLists)]
    /\ startMail \in [Agents -> Nat]
    /\ solutionList \in [RegionIds -> SolutionLists]
    /\ regionStarted \in [RegionIds -> BOOLEAN]
    /\ globalSummary \in [RegionIds -> Summaries \cup {NoSummary}]
    /\ agentState \in [Agents -> {"idle", "running", "stopped"}]
    /\ produced \subseteq Solutions
    /\ starts \in Nat /\ stops \in Nat /\ ticks \in Nat

\* The loop of the constructor, and one that counts from 1.
IdsFromOne == [i \in 1 .. MaxRegions |-> i]

InitialIds == [i \in 1 .. MaxRegions |-> i - 1]

Init ==
    /\ mode = "up"
    /\ status = "READY"
    /\ simulationStarted = FALSE
    /\ time = 0
    /\ regionsIds = InitialIds
    /\ regionUsedIds = <<>>
    /\ registered = {}
    /\ regionsSummary = [r \in RegionIds |-> NoSummary]
    /\ globalStatistics = EmptySummary
    /\ frames = <<>>
    /\ asked = Nobody
    /\ replied = FALSE
    /\ stoppedNotices = 0
    /\ regionBox = [r \in RegionIds |-> <<>>]
    /\ regionMail = [r \in RegionIds |-> <<>>]
    /\ agentMail = [a \in Agents |-> <<>>]
    /\ startMail = [a \in Agents |-> 0]
    /\ solutionList = [r \in RegionIds |-> <<>>]
    /\ regionStarted = [r \in RegionIds |-> FALSE]
    /\ globalSummary = [r \in RegionIds |-> NoSummary]
    /\ agentState = [a \in Agents |-> "idle"]
    /\ produced = {}
    /\ starts = 0 /\ stops = 0 /\ ticks = 0

-----------------------------------------------------------------------------
(* RegionSelector: the roulette.  A region weighs 1 / its variation rate.  *)

Spins == -1                    \* the do/while never ends
OutOfBounds == -2      \* an index outside the array

UsedIds(used) == ToSet(used)

\* The summary is missing, or makes the sum of the weights infinite or NaN.
Unweighable(summary) ==
    \/ summary = NoSummary
    \/ RateIsNaN(summary)
    \/ RateIsZero(summary)

SelectRegion(used) ==
    LET ids    == UsedIds(used)
        heavy  == {r \in ids : ~RateIsInfinite(regionsSummary[r])}
        usable == ids \cap registered
    IN  IF used = <<>> THEN {OutOfBounds}
        ELSE IF Len(used) = 1 THEN ids
        ELSE IF \E r \in ids : Unweighable(regionsSummary[r])
             THEN IF usable = {} THEN {Spins} ELSE usable
        ELSE IF heavy = {} THEN {OutOfBounds} ELSE heavy \cup {used[1]}

-----------------------------------------------------------------------------
(* Placing a list of solutions.  The part of the leader's state it changes *)
(* is a record, so that onRegionSplit can place two lists in a row.        *)

LeaderState == [free |-> regionsIds, used |-> regionUsedIds,
                box |-> regionBox, mode |-> mode]

\* Mutant: get(0) for remove(0).
CreateInPeeking(st, list) ==
    [st EXCEPT !.used = Append(@, Head(st.free)),
               !.box[Head(st.free)] = Append(@, CreateRegion(list))]

\* nextRegionId and createRegion, when an id is free.
CreateIn(st, list) ==
    LET id == Head(st.free)
    IN  [free |-> Tail(st.free),
         used |-> Append(st.used, id),
         box  |-> [st.box EXCEPT ![id] = Append(@, CreateRegion(list))],
         mode |-> st.mode]

\* The region picked is told; picking none, or one without a reference, ends
\* the leader.
SendTo(st, pick, list) ==
    IF pick = Spins THEN [st EXCEPT !.mode = "spinning"]
    ELSE IF pick \notin registered THEN [st EXCEPT !.mode = "failed"]
    ELSE [st EXCEPT !.box[pick] = Append(@, SolutionResponse(list))]

RouletteIn(st, list) == {SendTo(st, pick, list) : pick \in SelectRegion(st.used)}

\* One half of onRegionSplit: list becomes a region, or fallback goes to one.
PlaceHalf(st, list, fallback) ==
    IF list = <<>> \/ st.mode # "up" THEN {st}
    ELSE IF st.free # <<>> THEN {CreateIn(st, list)}
    ELSE RouletteIn(st, fallback)

\* Mutant: the higher solutions become both regions.
PlaceHigherTwice(st, lower, higher) ==
    UNION {PlaceHalf(half, higher, higher) : half \in PlaceHalf(st, higher, higher)}

PlaceSplit(st, lower, higher) ==
    UNION {PlaceHalf(half, higher, higher) : half \in PlaceHalf(st, lower, higher)}

PlaceResult(st, list) ==
    IF list = <<>> THEN {st}
    ELSE IF Len(st.used) >= MinRegions THEN RouletteIn(st, list)
    ELSE IF st.free # <<>> THEN {CreateIn(st, list)}
    ELSE {st}

Becomes(st) ==
    /\ regionsIds' = st.free
    /\ regionUsedIds' = st.used
    /\ regionBox' = st.box
    /\ mode' = st.mode

-----------------------------------------------------------------------------
(* The global parameters *)

\* AggregateSummaryStatistics.aggregate over the summaries that are not null.
Aggregate(summaries) ==
    LET known == {r \in DOMAIN summaries : summaries[r] # NoSummary}
    IN  IF known = {} THEN NoSummary
        ELSE FoldFunctionOnSet(Merge, EmptySummary, summaries, known)

\* Mutant: calculateGlobalParameters without updateRegions.
BroadcastOnce(box, ids, message, copies) ==
    [r \in DOMAIN box |->
        IF r \in ids /\ copies > 1 THEN Append(box[r], message) ELSE box[r]]

\* updateRegions, `copies` times in a row.
Broadcast(box, ids, message, copies) ==
    [r \in DOMAIN box |->
        IF r \in ids THEN box[r] \o [i \in 1 .. copies |-> message] ELSE box[r]]

\* Mutant: > for >=.
TimeRanOut == ~IsBenchmark /\ time + 1 > ExecutionTime

TimeRunsOut == ~IsBenchmark /\ time + 1 >= ExecutionTime

\* calculateGlobalParameters with the tables regions and summaries, called
\* under the stop frames `outer`.  When the time runs out the stop comes
\* first, and nobody is left to be notified after it.
CalculateGlobalParameters(regions, summaries, outer, copies) ==
    /\ registered' = regions
    /\ regionsSummary' = summaries
    /\ time' = time + 1
    /\ IF TimeRunsOut
       THEN /\ frames' = Append(outer, [kind |-> "finish", agent |-> 0])
            /\ UNCHANGED <<globalStatistics, regionBox>>
       ELSE /\ frames' = outer
            /\ globalStatistics' = Aggregate(summaries)
            /\ regionBox' = Broadcast(regionBox, regions \cap UsedIds(regionUsedIds'),
                                      UpdateGlobalSummary(globalStatistics'), copies)

-----------------------------------------------------------------------------
(* The leader handles a message *)

LeaderIdle == mode = "up" /\ frames = <<>>

OnStartSimulation ==
    /\ LeaderIdle
    /\ starts < MaxStarts
    /\ starts' = starts + 1
    /\ status' = "STARTED"
    /\ simulationStarted' = TRUE
    /\ startMail' = [a \in Agents |-> startMail[a] + 1]
    /\ UNCHANGED <<mode, stoppedNotices, idVars, tableVars, stopVars, regionBox,
                   regionMail, agentMail, regionVars, agentVars, stops, ticks>>

OnStopSimulation ==
    /\ LeaderIdle
    /\ stops < MaxStops
    /\ stops' = stops + 1
    /\ frames' = <<[kind |-> "stop", agent |-> 0]>>
    /\ UNCHANGED <<idVars, tableVars, statusVars, asked, replied, mailVars,
                   regionVars, agentVars, starts, ticks>>

OnSolutionResult(a) ==
    /\ LeaderIdle
    /\ agentMail[a] # <<>>
    /\ agentMail' = [agentMail EXCEPT ![a] = Tail(@)]
    /\ \E st \in PlaceResult(LeaderState, Head(agentMail[a])) : Becomes(st)
    /\ UNCHANGED <<tableVars, status, simulationStarted, stoppedNotices, stopVars,
                   regionMail, startMail, regionVars, agentVars, boundVars>>

\* The next message of region r is of this type, and is taken.
Takes(r, type) ==
    /\ LeaderIdle
    /\ regionMail[r] # <<>>
    /\ Head(regionMail[r]).type = type
    /\ regionMail' = [regionMail EXCEPT ![r] = Tail(@)]

OnRegionSplit(r) ==
    /\ Takes(r, "RegionSplit")
    /\ \E st \in PlaceSplit(LeaderState, Head(regionMail[r]).lower,
                                         Head(regionMail[r]).higher) : Becomes(st)
    /\ UNCHANGED <<tableVars, status, simulationStarted, stoppedNotices, stopVars,
                   agentMail, startMail, regionVars, agentVars, boundVars>>

OnUpdateRegionSummary(r) ==
    /\ Takes(r, "UpdateRegionSummary")
    /\ UNCHANGED <<regionsIds, regionUsedIds>>
    /\ CalculateGlobalParameters(registered,
           [regionsSummary EXCEPT ![r] = Head(regionMail[r]).summary], frames, 1)
    /\ UNCHANGED <<statusVars, asked, replied, agentMail, startMail,
                   regionVars, agentVars, boundVars>>

\* Mutant: the summary is kept, the reference is not.
OnRegionRegisterSummary(r) ==
    /\ Takes(r, "RegionRegister")
    /\ UNCHANGED <<regionsIds, regionUsedIds>>
    /\ CalculateGlobalParameters(registered,
           [regionsSummary EXCEPT ![r] = Head(regionMail[r]).summary], frames, 2)
    /\ UNCHANGED <<statusVars, asked, replied, agentMail, startMail,
                   regionVars, agentVars, boundVars>>

OnRegionRegister(r) ==
    /\ Takes(r, "RegionRegister")
    /\ UNCHANGED <<regionsIds, regionUsedIds>>
    /\ CalculateGlobalParameters(registered \cup {r},
           [regionsSummary EXCEPT ![r] = Head(regionMail[r]).summary], frames, 2)
    /\ UNCHANGED <<statusVars, asked, replied, agentMail, startMail,
                   regionVars, agentVars, boundVars>>

-----------------------------------------------------------------------------
(* stopAgentsAndRegions, one ask after the other; its caller afterwards *)

Stopping == mode = "up" /\ frames # <<>>
Frame == frames[Len(frames)]
AgentsStopped == Frame.agent = NumberOfAgents

\* The agent answers once it has handled the starts sent before.  One that
\* was never started has no timer to cancel and does not answer: the join
\* of the timed out ask throws.
StopAgent ==
    /\ Stopping
    /\ ~AgentsStopped
    /\ startMail[Frame.agent] = 0
    /\ IF agentState[Frame.agent] = "idle"
       THEN mode' = "failed" /\ UNCHANGED <<agentState, frames>>
       ELSE /\ agentState' = [agentState EXCEPT ![Frame.agent] = "stopped"]
            /\ frames' = [frames EXCEPT ![Len(frames)].agent = @ + 1]
            /\ UNCHANGED mode
    /\ UNCHANGED <<idVars, tableVars, status, simulationStarted, stoppedNotices, asked,
                   replied, mailVars, regionVars, produced, boundVars>>

AskRegion ==
    /\ Stopping
    /\ AgentsStopped
    /\ asked = Nobody
    /\ \E r \in registered :
         /\ \A other \in registered : r <= other
         /\ asked' = r
         /\ regionBox' = [regionBox EXCEPT ![r] = Append(@, StopSimulation)]
    /\ UNCHANGED <<idVars, tableVars, statusVars, frames, replied, regionMail,
                   agentMail, startMail, regionVars, agentVars, boundVars>>

AskTimesOut ==
    /\ AskMayTimeOut
    /\ Stopping
    /\ asked # Nobody
    /\ ~replied
    /\ mode' = "failed"
    /\ UNCHANGED <<idVars, tableVars, status, simulationStarted, stoppedNotices,
                   stopVars, mailVars, regionVars, agentVars, boundVars>>

\* Mutant: List.remove(int index) for List.remove(Object).
WithoutIndex(used, id) == IF id < Len(used) THEN RemoveAt(used, id + 1) ELSE used

WithoutId(used, id) == RemoveFirst(used, id)

\* Mutant: the reference of a released region is kept.
WithRegion(id) == registered

WithoutRegion(id) == registered \ {id}

OnRegionRelease ==
    /\ Stopping
    /\ replied
    /\ regionsIds' = Append(regionsIds, asked)
    /\ regionUsedIds' = WithoutId(regionUsedIds, asked)
    /\ CalculateGlobalParameters(WithoutRegion(asked),
           [regionsSummary EXCEPT ![asked] = NoSummary], frames, 1)
    /\ asked' = Nobody
    /\ replied' = FALSE
    /\ UNCHANGED <<statusVars, regionMail, agentMail, startMail,
                   regionVars, agentVars, boundVars>>

\* Mutant: the regions are told to stop, and nobody waits for them.
NobodyAsked == asked = Nobody

AllReleased == asked = Nobody /\ registered = {}

\* resetRegionsData finds no region left to release.
StopCompletes ==
    /\ Stopping
    /\ AgentsStopped
    /\ AllReleased
    /\ globalStatistics' = Aggregate(regionsSummary)
    /\ time' = 0
    /\ simulationStarted' = FALSE
    /\ IF Frame.kind = "finish"
       THEN status' = "FINISHED" /\ stoppedNotices' = stoppedNotices + 1
       ELSE status' = "STOPPED" /\ UNCHANGED stoppedNotices
    /\ frames' = SubSeq(frames, 1, Len(frames) - 1)
    /\ UNCHANGED <<idVars, registered, regionsSummary, mode, asked, replied, mailVars,
                   regionVars, agentVars, boundVars>>

\* The MainActor answers a SimulationStopped with Terminate to every node.
Terminate ==
    /\ LeaderIdle
    /\ stoppedNotices > 0
    /\ mode' = "exited"
    /\ UNCHANGED <<idVars, tableVars, status, simulationStarted, stoppedNotices,
                   stopVars, mailVars, regionVars, agentVars, boundVars>>

-----------------------------------------------------------------------------
(* The regions *)

Gets(r, type) ==
    /\ mode # "exited"
    /\ regionBox[r] # <<>>
    /\ Head(regionBox[r]).type = type
    /\ regionBox' = [regionBox EXCEPT ![r] = Tail(@)]

\* initialize: addSolutions reports the summary before the region registers.
OnCreate(r) ==
    /\ Gets(r, "CreateRegion")
    /\ LET list == Head(regionBox[r]).solutions
       IN  /\ solutionList' = [solutionList EXCEPT ![r] = list]
           /\ regionMail' = [regionMail EXCEPT ![r] =
                Append(Append(@, UpdateRegionSummary(SummaryOf(list))),
                       RegionRegister(SummaryOf(list)))]
    /\ regionStarted' = [regionStarted EXCEPT ![r] = TRUE]
    /\ UNCHANGED <<leaderVars, agentMail, startMail, globalSummary, agentVars, boundVars>>

OnSolutionResponse(r) ==
    /\ Gets(r, "SolutionResponse")
    /\ LET list == solutionList[r] \o Head(regionBox[r]).solutions
       IN  /\ solutionList' = [solutionList EXCEPT ![r] = list]
           /\ regionMail' = [regionMail EXCEPT ![r] =
                Append(@, UpdateRegionSummary(SummaryOf(list)))]
    /\ UNCHANGED <<leaderVars, agentMail, startMail, regionStarted, globalSummary,
                   agentVars, boundVars>>

OnUpdateGlobalSummary(r) ==
    /\ Gets(r, "UpdateGlobalSummary")
    /\ globalSummary' = [globalSummary EXCEPT ![r] = Head(regionBox[r]).summary]
    /\ UNCHANGED <<leaderVars, regionMail, agentMail, startMail, solutionList,
                   regionStarted, agentVars, boundVars>>

\* Mutant: only a region that holds solutions answers.
OnStopRegionSilent(r) ==
    /\ Gets(r, "StopSimulation")
    /\ solutionList' = [solutionList EXCEPT ![r] = <<>>]
    /\ regionStarted' = [regionStarted EXCEPT ![r] = FALSE]
    /\ replied' = (solutionList[r] = <<>>)
    /\ UNCHANGED <<idVars, tableVars, statusVars, frames, asked, regionMail, agentMail,
                   startMail, globalSummary, agentVars, boundVars>>

OnStopRegion(r) ==
    /\ Gets(r, "StopSimulation")
    /\ solutionList' = [solutionList EXCEPT ![r] = <<>>]
    /\ regionStarted' = [regionStarted EXCEPT ![r] = FALSE]
    /\ replied' = TRUE
    /\ UNCHANGED <<idVars, tableVars, statusVars, frames, asked, regionMail, agentMail,
                   startMail, globalSummary, agentVars, boundVars>>

\* The timer's stimulus.  A region too small to split sends two empty lists.
OnInternalStimulus(r) ==
    /\ mode # "exited"
    /\ ticks < MaxTicks
    /\ regionStarted[r]
    /\ globalSummary[r] # NoSummary
    /\ LET list  == solutionList[r]
           stats == SummaryOf(list)
           split == Len(list) >= MinSolutionsToSplit
       IN  /\ RateLess(globalSummary[r], stats)
           /\ solutionList' = IF split
                THEN [solutionList EXCEPT ![r] = MiddleSolutions(list, stats)]
                ELSE solutionList
           /\ regionMail' = [regionMail EXCEPT ![r] = Append(@,
                IF split THEN RegionSplit(LowerSolutions(list, stats),
                                          HigherSolutions(list, stats))
                         ELSE RegionSplit(<<>>, <<>>))]
    /\ ticks' = ticks + 1
    /\ UNCHANGED <<leaderVars, regionBox, agentMail, startMail, regionStarted,
                   globalSummary, agentVars, starts, stops>>

-----------------------------------------------------------------------------
(* The agents *)

OnAgentStart(a) ==
    /\ mode # "exited"
    /\ startMail[a] > 0
    /\ startMail' = [startMail EXCEPT ![a] = @ - 1]
    /\ agentState' = [agentState EXCEPT ![a] = "running"]
    /\ UNCHANGED <<leaderVars, regionBox, regionMail, agentMail, regionVars,
                   produced, boundVars>>

\* Lists of solutions not found before, each of a length in ResultSizes.  The
\* order within a list decides nothing: they are enumerated by value.
NewLists ==
    {list \in UNION {TupleOf(Solutions \ produced, n) : n \in ResultSizes} :
        /\ IsInjective(list)
        /\ \A i, j \in DOMAIN list :
              i < j => FunctionValue[list[i]] <= FunctionValue[list[j]]}

\* A stopped agent still works off the answers to its earlier requests.
ProcessSolutionList(a) ==
    /\ mode # "exited"
    /\ agentState[a] # "idle"
    /\ Len(agentMail[a]) < MaxMail
    /\ \E list \in NewLists :
         /\ agentMail' = [agentMail EXCEPT ![a] = Append(@, list)]
         /\ produced' = produced \cup ToSet(list)
    /\ UNCHANGED <<leaderVars, regionBox, regionMail, startMail, regionVars,
                   agentState, boundVars>>

-----------------------------------------------------------------------------
LeaderHandles ==
    \/ OnStartSimulation
    \/ OnStopSimulation
    \/ \E a \in Agents : OnSolutionResult(a)
    \/ \E r \in RegionIds : \/ OnRegionSplit(r)
                            \/ OnUpdateRegionSummary(r)
                            \/ OnRegionRegister(r)

LeaderStops ==
    \/ StopAgent
    \/ AskRegion
    \/ AskTimesOut
    \/ OnRegionRelease
    \/ StopCompletes
    \/ Terminate

RegionHandles(r) ==
    \/ OnCreate(r)
    \/ OnSolutionResponse(r)
    \/ OnUpdateGlobalSummary(r)
    \/ OnStopRegion(r)

AgentActs(a) == OnAgentStart(a) \/ ProcessSolutionList(a)

Next ==
    \/ LeaderHandles
    \/ LeaderStops
    \/ \E r \in RegionIds : RegionHandles(r) \/ OnInternalStimulus(r)
    \/ \E a \in Agents : AgentActs(a)

Spec == Init /\ [][Next]_vars

\* A dispatcher runs every actor that has mail, and a mailbox is first in
\* first out; agents and timers owe nothing.
Fairness ==
    /\ WF_vars(StopAgent \/ AskRegion \/ OnRegionRelease \/ StopCompletes)
    /\ \A a \in Agents : WF_vars(OnSolutionResult(a)) /\ WF_vars(OnAgentStart(a))
    /\ \A r \in RegionIds :
         /\ WF_vars(OnRegionSplit(r) \/ OnUpdateRegionSummary(r) \/ OnRegionRegister(r))
         /\ WF_vars(RegionHandles(r))

FairSpec == Spec /\ Fairness

-----------------------------------------------------------------------------
(* The ids are never lost and never handed out twice: the free list and    *)
(* the used list together hold every id exactly once, whatever the order   *)
(* of registrations, splits, stops and late messages (nextRegionId,        *)
(* releaseId).                                                             *)
Partition(free, used) ==
    /\ IsInjective(free)
    /\ IsInjective(used)
    /\ ToSet(free) \cap ToSet(used) = {}
    /\ ToSet(free) \cup ToSet(used) = RegionIds

IdPartition == Partition(regionsIds, regionUsedIds)

(* Creating a region never overwrites a living one: a CreateRegion under   *)
(* way is the only one for its id, finds an empty region the leader does   *)
(* not know, and its id is in use, as is that of every living region.      *)
Creations(r) == {i \in DOMAIN regionBox[r] : regionBox[r][i].type = "CreateRegion"}

CreateFindsNobody ==
    \A r \in RegionIds :
        /\ regionStarted[r] => r \in ToSet(regionUsedIds)
        /\ Creations(r) # {} =>
             /\ r \in ToSet(regionUsedIds) \ registered
             /\ ~regionStarted[r]
             /\ solutionList[r] = <<>>
             /\ \E i \in Creations(r) : Creations(r) = {i}

(* Who may know an id: the strengthening of the two invariants above.  An  *)
(* id is used from its CreateRegion to the RegionRelease of its region;    *)
(* in between it is being created, then registering, then registered, one  *)
(* at a time; and while the leader waits for a region, StopSimulation is   *)
(* the last message that region gets.                                      *)
NoneIn(mail, type) == \A i \in DOMAIN mail : mail[i].type # type

AtMostOneIn(mail, type) ==
    \A i, j \in DOMAIN mail : mail[i].type = type /\ mail[j].type = type => i = j

Owns(r, used, box, mail) ==
    /\ AtMostOneIn(box, "CreateRegion")
    /\ AtMostOneIn(mail, "RegionRegister")
    /\ r \notin ToSet(used) =>
         /\ NoneIn(box, "CreateRegion")
         /\ NoneIn(mail, "RegionRegister")
         /\ r \notin registered
         /\ ~regionStarted[r]
    /\ ~NoneIn(box, "CreateRegion") =>
         /\ NoneIn(mail, "RegionRegister")
         /\ r \notin registered
         /\ ~regionStarted[r]
    /\ ~NoneIn(mail, "RegionRegister") => r \notin registered /\ regionStarted[r]
    /\ ~regionStarted[r] => solutionList[r] = <<>> /\ NoneIn(box, "SolutionResponse")
    /\ r \in registered => regionStarted[r] \/ (asked = r /\ replied)
    /\ \A i \in DOMAIN box : box[i].type = "StopSimulation" =>
         i = Len(box) /\ asked = r /\ ~replied

Waiting ==
    /\ asked # Nobody => asked \in registered /\ frames # <<>>
    /\ replied => asked # Nobody /\ ~regionStarted[asked]

IdsOwned ==
    /\ \A r \in RegionIds : Owns(r, regionUsedIds, regionBox[r], regionMail[r])
    /\ Waiting

(* Until a stop, no solution is lost or doubled on its way from an agent   *)
(* through the leader and the splits of the regions: it is in one list, of *)
(* a region or of a message.  Needs an id for every split (onRegionSplit   *)
(* falls back to a roulette otherwise).                                    *)
CountIn(list, s) == Cardinality({i \in DOMAIN list : list[i] = s})

CarriedBy(message) ==
    IF message.type = "RegionSplit" THEN message.lower \o message.higher
    ELSE IF message.type \in {"CreateRegion", "SolutionResponse"} THEN message.solutions
    ELSE <<>>

CountInLists(lists, s) == SumFunction([i \in DOMAIN lists |-> CountIn(lists[i], s)])

CountInMail(mail, s) ==
    SumFunction([i \in DOMAIN mail |-> CountIn(CarriedBy(mail[i]), s)])

CountInMails(mails, s) == SumFunction([r \in DOMAIN mails |-> CountInMail(mails[r], s)])

CountInResults(results, s) ==
    SumFunction([a \in DOMAIN results |-> CountInLists(results[a], s)])

Copies(s) ==
    CountInLists(solutionList, s) + CountInMails(regionBox, s)
        + CountInMails(regionMail, s) + CountInResults(agentMail, s)

SolutionsConserved ==
    (mode = "up" /\ stops = 0 /\ stoppedNotices = 0 /\ frames = <<>>)
        => \A s \in produced : Copies(s) = 1

(* When nothing is under way, every region the leader knows has been told  *)
(* of the same global statistics, and until a region splits they are those *)
(* of the solutions in the regions ("When a region changes it state we     *)
(* recalculate the global parameters": a split sends no summary).          *)
Quiet ==
    /\ LeaderIdle
    /\ \A r \in RegionIds : regionBox[r] = <<>> /\ regionMail[r] = <<>>
    /\ \A a \in Agents : agentMail[a] = <<>>

ActualSummaries ==
    [r \in RegionIds |-> IF solutionList[r] = <<>> THEN NoSummary
                                                  ELSE SummaryOf(solutionList[r])]

QuietMeansInformed ==
    (Quiet /\ stops = 0 /\ stoppedNotices = 0 /\ registered # {}) =>
        /\ \A r \in registered : globalSummary[r] = globalStatistics
        /\ ticks = 0 => globalStatistics = Aggregate(ActualSummaries)

(* A stop empties every region, except one whose registration the leader   *)
(* has not handled yet (stopAgentsAndRegions asks regions[] only).         *)
StopEmptiesRegions ==
    [][(frames # <<>> /\ frames' = <<>>) =>
         \A r \in RegionIds : solutionList[r] # <<>> =>
            \E i \in DOMAIN regionMail[r] : regionMail[r][i].type = "RegionRegister"]_vars

(* The clock never rests at or past the execution time: whichever handler  *)
(* advances it there ends the simulation before the next message, also     *)
(* when that handler is itself part of a stop (increaseTime).              *)
ClockExpires ==
    (LeaderIdle /\ ~IsBenchmark /\ ExecutionTime > 0) => time < ExecutionTime

(* A stop under way ends, unless the leader fails: the recursion through   *)
(* onRegionRelease, calculateGlobalParameters and increaseTime back to     *)
(* stopAgentsAndRegions terminates.                                        *)
StopEnds == frames # <<>> ~> (frames = <<>> \/ mode # "up")

(* A region that gets an id is registered sooner or later, unless the      *)
(* leader fails.                                                           *)
CreatedIsRegistered ==
    \A r \in RegionIds :
        (Creations(r) # {}) ~> (r \in registered \/ mode # "up")

-----------------------------------------------------------------------------
(* Statements of the repository that the code does not keep.               *)

(* "This way, eventually all simulation managers have track of all         *)
(* regions" (onRegionRegister): an id in use comes to be registered or is  *)
(* released, until the system is terminated.                               *)
LeaderTracksRegions ==
    \A r \in RegionIds : r \in ToSet(regionUsedIds)
        ~> (r \in registered \/ r \in ToSet(regionsIds) \/ mode = "exited")
=============================================================================
