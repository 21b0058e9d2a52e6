---------------------- MODULE SimulationMessagesProofs ----------------------
(***************************************************************************)
(* What the messages of the simulation carry: every variable keeps its     *)
(* type, and what the leader and the regions tell each other about their   *)
(* statistics settles to the truth.  The invariant of the pool of ids      *)
(* (SimulationProofs) says who may be sent what.                           *)
(***************************************************************************)
EXTENDS SimulationProofs, RegionStatisticsProofs

-----------------------------------------------------------------------------
(* The aggregate of the regions' summaries *)

LEMMA MergeType ==
    ASSUME NEW s \in Summaries, NEW t \in Summaries
    PROVE  Merge(s, t) \in Summaries
BY DEF Merge, Summaries

\* Merging the summaries of a set of regions gives a summary, in whichever
\* order they are taken.
LEMMA MergedType ==
    ASSUME NEW known, IsFiniteSet(known), NEW summaries,
           \A r \in known : summaries[r] \in Summaries
    PROVE  FoldFunctionOnSet(Merge, EmptySummary, summaries, known) \in Summaries
<1> DEFINE pick == [s \in SUBSET known |-> CHOOSE x \in s : TRUE]
           step == [z \in known \X Summaries |-> Merge(summaries[z[1]], z[2])]
           Eq(f) == f = [s \in SUBSET known |->
                      IF s = {} THEN EmptySummary
                      ELSE LET x == CHOOSE y \in s : TRUE IN Merge(summaries[x], f[s \ {x}])]
           iter == CHOOSE f : Eq(f)
<1>1. EmptySummary \in Summaries
  BY DEF EmptySummary, Summaries
<1>2. \A s \in SUBSET known : s # {} => pick[s] = (CHOOSE x \in s : TRUE) /\ pick[s] \in s
  OBVIOUS
<1>3. step \in [known \X Summaries -> Summaries]
  BY MergeType
<1>4. \A x \in known, t \in Summaries : step[<<x, t>>] = Merge(summaries[x], t)
  OBVIOUS
<1>5. PICK g : SetFold(g, known, Summaries, EmptySummary, pick, step)
  <2>1. \A s \in SUBSET known : s # {} => pick[s] \in s
    BY <1>2
  <2> HIDE DEF pick, step
  <2> QED  BY <1>1, <1>3, <2>1, FoldExists
<1> HIDE DEF step, pick
<1>6. g \in [SUBSET known -> Summaries]
  BY <1>5 DEF SetFold
<1>7. ASSUME NEW s \in SUBSET known, s # {}
      PROVE  g[s] = Merge(summaries[CHOOSE x \in s : TRUE], g[s \ {CHOOSE x \in s : TRUE}])
  <2> DEFINE x == CHOOSE y \in s : TRUE
  <2>1. x \in known /\ pick[s] = x
    BY <1>2, <1>7
  <2> HIDE DEF x
  <2>2. g[s] = step[<<x, g[s \ {x}]>>] /\ g[s \ {x}] \in Summaries
    BY <1>5, <1>6, <1>7, <2>1 DEF SetFold
  <2>3. g[s] = Merge(summaries[x], g[s \ {x}])
    BY <1>4, <2>1, <2>2
  <2> QED  BY <2>3 DEF x
<1>8. g[{}] = EmptySummary
  BY <1>5 DEF SetFold
<1>9. Eq(g)
  BY <1>6, <1>7, <1>8
<1>10. Eq(iter)
  BY <1>9
<1>11. FoldFunctionOnSet(Merge, EmptySummary, summaries, known) = iter[known]
  BY DEF FoldFunctionOnSet, MapThenFoldSet
<1> HIDE DEF iter
<1> DEFINE Good == {k \in Nat : \A s \in SUBSET known : Cardinality(s) = k => iter[s] \in Summaries}
<1>12. \A s \in SUBSET known : IsFiniteSet(s) /\ Cardinality(s) \in Nat
  BY FS_Subset, FS_CardinalityType
<1>13. 0 \in Good
  BY <1>1, <1>10, <1>12, FS_EmptySet
<1>14. ASSUME NEW k \in Good PROVE k + 1 \in Good
  <2> SUFFICES ASSUME NEW s \in SUBSET known, Cardinality(s) = k + 1 PROVE iter[s] \in Summaries
    OBVIOUS
  <2> DEFINE x == CHOOSE y \in s : TRUE
  <2>1. s # {}
    BY <1>12, FS_EmptySet
  <2>2. x \in s
    BY <2>1
  <2>3. iter[s] = Merge(summaries[x], iter[s \ {x}])
    BY <1>10, <2>1
  <2> HIDE DEF x
  <2>4. Cardinality(s \ {x}) = k
    <3>1. IsFiniteSet(s)
      BY <1>12
    <3>2. Cardinality(s \ {x}) = Cardinality(s) - 1
      BY <2>2, <3>1, FS_RemoveElement
    <3> QED  BY <3>2
  <2>5. s \ {x} \in SUBSET known
    OBVIOUS
  <2>6. iter[s \ {x}] \in Summaries
    BY <2>4, <2>5
  <2> QED  BY <2>2, <2>3, <2>6, MergeType
<1>15. \A k \in Nat : k \in Good
  <2>1. Good \in SUBSET Nat
    OBVIOUS
  <2> HIDE DEF Good
  <2> QED  BY <1>13, <1>14, <2>1, SetInduction
<1> QED  BY <1>11, <1>12, <1>15

LEMMA AggregateType ==
    ASSUME NEW summaries \in [RegionIds -> Summaries \cup {NoSummary}]
    PROVE  Aggregate(summaries) \in Summaries \cup {NoSummary}
<1> DEFINE known == {r \in DOMAIN summaries : summaries[r] # NoSummary}
<1>1. IsFiniteSet(RegionIds)
  BY MaxRegionsAssumption, FS_Interval DEF RegionIds
<1>2. IsFiniteSet(known)
  <2>1. known \in SUBSET RegionIds
    OBVIOUS
  <2> HIDE DEF known
  <2> QED  BY <1>1, <2>1, FS_Subset
<1>3. \A r \in known : summaries[r] \in Summaries
  OBVIOUS
<1>4. Aggregate(summaries) = IF known = {} THEN NoSummary
        ELSE FoldFunctionOnSet(Merge, EmptySummary, summaries, known)
  BY DEF Aggregate
<1> HIDE DEF known
<1>5. FoldFunctionOnSet(Merge, EmptySummary, summaries, known) \in Summaries
  BY <1>2, <1>3, MergedType
<1> QED  BY <1>4, <1>5

-----------------------------------------------------------------------------
(* Types, in parts: PoolInv has those of the ids, the frames and replied *)

LeaderTypes ==
    /\ mode \in {"up", "spinning", "failed", "exited"}
    /\ status \in {"READY", "STARTED", "STOPPED", "FINISHED"}
    /\ simulationStarted \in BOOLEAN
    /\ time \in Nat
    /\ stoppedNotices \in Nat
    /\ asked \in RegionIds \cup {Nobody}

StatisticsTypes ==
    /\ regionsSummary \in [RegionIds -> Summaries \cup {NoSummary}]
    /\ globalStatistics \in Summaries \cup {NoSummary}
    /\ globalSummary \in [RegionIds -> Summaries \cup {NoSummary}]

MessageTypes ==
    /\ regionBox \in [RegionIds -> Seq(LeaderMessages)]
    /\ regionMail \in [RegionIds -> Seq(RegionMessages)]
    /\ agentMail \in [Agents -> Seq(SolutionLists)]
    /\ startMail \in [Agents -> Nat]

WorkerTypes ==
    /\ solutionList \in [RegionIds -> SolutionLists]
    /\ agentState \in [Agents -> {"idle", "running", "stopped"}]
    /\ produced \subseteq Solutions

BoundTypes == starts \in Nat /\ stops \in Nat /\ ticks \in Nat

CarriedTypes == LeaderTypes /\ StatisticsTypes /\ MessageTypes /\ WorkerTypes /\ BoundTypes

LEMMA TypesAreTypeOK == PoolInv /\ CarriedTypes => TypeOK
<1> SUFFICES ASSUME PoolInv, CarriedTypes PROVE TypeOK
  OBVIOUS
<1>1. /\ regionsIds \in Seq(RegionIds) /\ regionUsedIds \in Seq(RegionIds)
      /\ registered \subseteq RegionIds /\ frames \in Seq(Frames) /\ replied \in BOOLEAN
      /\ regionStarted \in [RegionIds -> BOOLEAN]
  BY DEF PoolInv, Shape
<1> QED
  BY <1>1, Zenon DEF CarriedTypes, LeaderTypes, StatisticsTypes, MessageTypes, WorkerTypes,
                     BoundTypes, TypeOK

LEMMA InitTypes == Init => CarriedTypes
<1> SUFFICES ASSUME Init PROVE CarriedTypes
  OBVIOUS
<1>1. LeaderTypes
  BY DEF Init, LeaderTypes
<1>2. StatisticsTypes
  BY DEF Init, StatisticsTypes, EmptySummary, Summaries
<1>3. MessageTypes
  BY DEF Init, MessageTypes
<1>4. WorkerTypes
  BY DEF Init, WorkerTypes, SolutionLists
<1>5. BoundTypes
  BY DEF Init, BoundTypes
<1> QED  BY <1>1, <1>2, <1>3, <1>4, <1>5 DEF CarriedTypes

\* A message is added to, or taken from, one queue of a table of queues.
LEMMA TableSend ==
    ASSUME NEW K, NEW M, NEW f \in [K -> Seq(M)], NEW k, NEW m \in M
    PROVE  [f EXCEPT ![k] = Append(@, m)] \in [K -> Seq(M)]
<1>1. k \in K => Append(f[k], m) \in Seq(M)
  BY AppendProperties
<1> QED  BY <1>1

LEMMA TableTake ==
    ASSUME NEW K, NEW M, NEW f \in [K -> Seq(M)], NEW k \in K, f[k] # <<>>
    PROVE  [f EXCEPT ![k] = Tail(@)] \in [K -> Seq(M)] /\ Head(f[k]) \in M
<1>1. Tail(f[k]) \in Seq(M) /\ Head(f[k]) \in M
  BY HeadTailProperties
<1> QED  BY <1>1

LEMMA MessageOfLists ==
    ASSUME NEW list \in SolutionLists
    PROVE  CreateRegion(list) \in LeaderMessages /\ SolutionResponse(list) \in LeaderMessages
BY DEF CreateRegion, SolutionResponse, LeaderMessages

LEMMA MessageOfSummaries ==
    ASSUME NEW s \in Summaries
    PROVE  UpdateRegionSummary(s) \in RegionMessages /\ RegionRegister(s) \in RegionMessages
BY DEF UpdateRegionSummary, RegionRegister, RegionMessages

LEMMA MessageOfGlobal ==
    ASSUME NEW s \in Summaries \cup {NoSummary}
    PROVE  UpdateGlobalSummary(s) \in LeaderMessages
BY DEF UpdateGlobalSummary, LeaderMessages

LEMMA ContentsOfLeaderMessage ==
    ASSUME NEW m \in LeaderMessages
    PROVE  /\ m.type \in {"CreateRegion", "SolutionResponse"} => m.solutions \in SolutionLists
           /\ m.type = "UpdateGlobalSummary" => m.summary \in Summaries \cup {NoSummary}
BY DEF LeaderMessages, StopSimulation

LEMMA ContentsOfRegionMessage ==
    ASSUME NEW m \in RegionMessages
    PROVE  /\ m.type \in {"UpdateRegionSummary", "RegionRegister"} => m.summary \in Summaries
           /\ m.type = "RegionSplit" => m.lower \in SolutionLists /\ m.higher \in SolutionLists
BY DEF RegionMessages

-----------------------------------------------------------------------------
(* Placing solutions *)

TypedPlace(st) ==
    /\ st.box \in [RegionIds -> Seq(LeaderMessages)]
    /\ st.mode \in {"up", "spinning", "failed"}

LEMMA CreateInTyped ==
    ASSUME NEW st, TypedPlace(st), NEW list \in SolutionLists
    PROVE  TypedPlace(CreateIn(st, list))
<1> DEFINE id == Head(st.free)
           m == CreateRegion(list)
<1>1. m \in LeaderMessages
  BY MessageOfLists
<1>2. CreateIn(st, list).mode = st.mode
      /\ CreateIn(st, list).box = [st.box EXCEPT ![id] = Append(@, m)]
  BY DEF CreateIn
<1> HIDE DEF id, m
<1>3. [st.box EXCEPT ![id] = Append(@, m)] \in [RegionIds -> Seq(LeaderMessages)]
  BY <1>1, TableSend DEF TypedPlace
<1> QED  BY <1>2, <1>3 DEF TypedPlace

LEMMA SendToTyped ==
    ASSUME NEW st, TypedPlace(st), st = [free |-> st.free, used |-> st.used,
                                         box |-> st.box, mode |-> st.mode],
           NEW pick, NEW list \in SolutionLists
    PROVE  LET sent == SendTo(st, pick, list)
           IN  /\ TypedPlace(sent)
               /\ sent = [free |-> sent.free, used |-> sent.used,
                          box |-> sent.box, mode |-> sent.mode]
<1> DEFINE m == SolutionResponse(list)
           sent == SendTo(st, pick, list)
<1>1. m \in LeaderMessages
  BY MessageOfLists
<1>2. CASE pick = Spins
  <2>1. sent = [st EXCEPT !.mode = "spinning"]
    BY <1>2 DEF SendTo
  <2>2. sent = [free |-> st.free, used |-> st.used, box |-> st.box, mode |-> "spinning"]
    BY <2>1
  <2> HIDE DEF sent
  <2> QED  BY <2>2 DEF TypedPlace, sent
<1>3. CASE pick # Spins /\ pick \notin registered
  <2>1. sent = [st EXCEPT !.mode = "failed"]
    BY <1>3 DEF SendTo
  <2>2. sent = [free |-> st.free, used |-> st.used, box |-> st.box, mode |-> "failed"]
    BY <2>1
  <2> HIDE DEF sent
  <2> QED  BY <2>2 DEF TypedPlace, sent
<1>4. CASE pick # Spins /\ pick \in registered
  <2>1. sent = [st EXCEPT !.box[pick] = Append(@, m)]
    BY <1>4 DEF SendTo
  <2>2. sent = [free |-> st.free, used |-> st.used,
                box |-> [st.box EXCEPT ![pick] = Append(@, m)], mode |-> st.mode]
    BY <2>1
  <2> HIDE DEF m, sent
  <2>3. [st.box EXCEPT ![pick] = Append(@, m)] \in [RegionIds -> Seq(LeaderMessages)]
    BY <1>1, TableSend DEF TypedPlace
  <2> QED  BY <2>2, <2>3 DEF TypedPlace, sent
<1> QED  BY <1>2, <1>3, <1>4

IsPlace(st) ==
    /\ TypedPlace(st)
    /\ st = [free |-> st.free, used |-> st.used, box |-> st.box, mode |-> st.mode]

LEMMA HalfTyped ==
    ASSUME NEW st, IsPlace(st), NEW list \in SolutionLists, NEW fallback \in SolutionLists,
           NEW half \in PlaceHalf(st, list, fallback)
    PROVE  IsPlace(half)
<1>1. IsPlace(CreateIn(st, list))
  BY CreateInTyped DEF IsPlace, CreateIn
<1>2. \A pick : IsPlace(SendTo(st, pick, fallback))
  BY SendToTyped DEF IsPlace
<1> QED  BY <1>1, <1>2 DEF PlaceHalf, RouletteIn

LEMMA PlacedTyped ==
    ASSUME MessageTypes, mode = "up", NEW lower \in SolutionLists, NEW higher \in SolutionLists
    PROVE  /\ \A st \in PlaceSplit(LeaderState, lower, higher) : TypedPlace(st)
           /\ \A st \in PlaceResult(LeaderState, higher) : TypedPlace(st)
<1>1. IsPlace(LeaderState)
  BY DEF LeaderState, IsPlace, TypedPlace, MessageTypes
<1>2. ASSUME NEW st \in PlaceSplit(LeaderState, lower, higher) PROVE TypedPlace(st)
  <2>1. PICK half \in PlaceHalf(LeaderState, lower, higher) : st \in PlaceHalf(half, higher, higher)
    BY <1>2 DEF PlaceSplit
  <2>2. IsPlace(half)
    BY <1>1, <2>1, HalfTyped
  <2>3. IsPlace(st)
    BY <2>1, <2>2, HalfTyped
  <2> QED  BY <2>3 DEF IsPlace
<1>3. ASSUME NEW st \in PlaceResult(LeaderState, higher) PROVE TypedPlace(st)
  <2>1. IsPlace(CreateIn(LeaderState, higher))
    BY <1>1, CreateInTyped DEF IsPlace, CreateIn
  <2>2. \A pick : IsPlace(SendTo(LeaderState, pick, higher))
    BY <1>1, SendToTyped DEF IsPlace
  <2> QED  BY <1>1, <1>3, <2>1, <2>2 DEF PlaceResult, RouletteIn, IsPlace
<1> QED  BY <1>2, <1>3

-----------------------------------------------------------------------------
(* Each step keeps the types *)

LEMMA BroadcastTyped ==
    ASSUME NEW box \in [RegionIds -> Seq(LeaderMessages)], NEW ids, NEW m \in LeaderMessages,
           NEW copies \in Nat
    PROVE  Broadcast(box, ids, m, copies) \in [RegionIds -> Seq(LeaderMessages)]
<1>1. [i \in 1 .. copies |-> m] \in Seq(LeaderMessages)
  OBVIOUS
<1>2. ASSUME NEW r \in RegionIds
      PROVE  box[r] \o [i \in 1 .. copies |-> m] \in Seq(LeaderMessages)
  BY <1>1, ConcatProperties
<1> QED  BY <1>2 DEF Broadcast

LEMMA CalculatingTyped ==
    ASSUME LeaderTypes, StatisticsTypes, MessageTypes, NEW regions,
           NEW summaries \in [RegionIds -> Summaries \cup {NoSummary}], NEW copies \in Nat,
           CalculateGlobalParameters(regions, summaries, frames, copies)
    PROVE  /\ time' \in Nat
           /\ regionsSummary' \in [RegionIds -> Summaries \cup {NoSummary}]
           /\ globalStatistics' \in Summaries \cup {NoSummary}
           /\ regionBox' \in [RegionIds -> Seq(LeaderMessages)]
<1>1. time' = time + 1 /\ regionsSummary' = summaries
  BY DEF CalculateGlobalParameters
<1>2. CASE TimeRunsOut
  BY <1>1, <1>2 DEF CalculateGlobalParameters, LeaderTypes, StatisticsTypes, MessageTypes
<1>3. CASE ~TimeRunsOut
  <2> DEFINE m == UpdateGlobalSummary(globalStatistics')
             ids == regions \cap UsedIds(regionUsedIds')
  <2>1. globalStatistics' = Aggregate(summaries) /\ regionBox' = Broadcast(regionBox, ids, m, copies)
    BY <1>3 DEF CalculateGlobalParameters
  <2>2. globalStatistics' \in Summaries \cup {NoSummary}
    BY <2>1, AggregateType
  <2>3. m \in LeaderMessages
    BY <2>2, MessageOfGlobal
  <2> HIDE DEF m, ids
  <2>4. regionBox' \in [RegionIds -> Seq(LeaderMessages)]
    BY <2>1, <2>3, BroadcastTyped DEF MessageTypes
  <2> QED  BY <1>1, <2>2, <2>4 DEF LeaderTypes
<1> QED  BY <1>2, <1>3

LEMMA TakesTyped ==
    ASSUME MessageTypes, NEW r \in RegionIds, NEW type, Takes(r, type)
    PROVE  /\ regionMail' \in [RegionIds -> Seq(RegionMessages)]
           /\ Head(regionMail[r]) \in RegionMessages /\ Head(regionMail[r]).type = type
BY TableTake DEF Takes, MessageTypes

LEMMA GetsTyped ==
    ASSUME MessageTypes, NEW r \in RegionIds, NEW type, Gets(r, type)
    PROVE  /\ regionBox' \in [RegionIds -> Seq(LeaderMessages)]
           /\ Head(regionBox[r]) \in LeaderMessages /\ Head(regionBox[r]).type = type
BY TableTake DEF Gets, MessageTypes

LEMMA LeaderCommandsTyped ==
    ASSUME CarriedTypes,
           \/ OnStartSimulation \/ OnStopSimulation \/ StopAgent \/ AskTimesOut \/ Terminate
    PROVE  CarriedTypes'
<1>1. /\ LeaderTypes /\ StatisticsTypes /\ MessageTypes /\ WorkerTypes /\ BoundTypes
  BY DEF CarriedTypes
<1>2. UNCHANGED <<regionsSummary, globalStatistics, globalSummary>>
  BY DEF OnStartSimulation, OnStopSimulation, StopAgent, AskTimesOut, Terminate, tableVars, regionVars
<1>3. StatisticsTypes'
  BY <1>1, <1>2 DEF StatisticsTypes
<1>4. UNCHANGED <<regionBox, regionMail, agentMail>>
  BY DEF OnStartSimulation, OnStopSimulation, StopAgent, AskTimesOut, Terminate, mailVars
<1>5. startMail' \in [Agents -> Nat]
  <2>1. CASE OnStartSimulation
    BY <1>1, <2>1 DEF OnStartSimulation, MessageTypes
  <2>2. CASE OnStopSimulation \/ StopAgent \/ AskTimesOut \/ Terminate
    BY <1>1, <2>2 DEF OnStopSimulation, StopAgent, AskTimesOut, Terminate, mailVars, MessageTypes
  <2> QED  BY <2>1, <2>2
<1>6. MessageTypes'
  BY <1>1, <1>4, <1>5 DEF MessageTypes
<1>7. WorkerTypes'
  <2>1. UNCHANGED <<solutionList, produced>>
    BY DEF OnStartSimulation, OnStopSimulation, StopAgent, AskTimesOut, Terminate, regionVars, agentVars
  <2>2. agentState' \in [Agents -> {"idle", "running", "stopped"}]
    <3>1. CASE StopAgent
      BY <1>1, <3>1 DEF StopAgent, WorkerTypes
    <3>2. CASE OnStartSimulation \/ OnStopSimulation \/ AskTimesOut \/ Terminate
      BY <1>1, <3>2 DEF OnStartSimulation, OnStopSimulation, AskTimesOut, Terminate, agentVars, WorkerTypes
    <3> QED  BY <3>1, <3>2
  <2> QED  BY <1>1, <2>1, <2>2 DEF WorkerTypes
<1>8. BoundTypes'
  BY <1>1 DEF OnStartSimulation, OnStopSimulation, StopAgent, AskTimesOut, Terminate, boundVars, BoundTypes
<1>9. UNCHANGED <<time, stoppedNotices, asked>>
  BY DEF OnStartSimulation, OnStopSimulation, StopAgent, AskTimesOut, Terminate,
         tableVars, statusVars, stopVars
<1>10. /\ mode' \in {mode, "failed", "exited"} /\ status' \in {status, "STARTED"}
       /\ simulationStarted' \in {simulationStarted, TRUE}
  BY DEF OnStartSimulation, OnStopSimulation, StopAgent, AskTimesOut, Terminate, statusVars
<1>11. LeaderTypes'
  <2>1. mode' \in {"up", "spinning", "failed", "exited"}
    BY <1>1, <1>10 DEF LeaderTypes
  <2>2. status' \in {"READY", "STARTED", "STOPPED", "FINISHED"}
    BY <1>1, <1>10 DEF LeaderTypes
  <2>3. simulationStarted' \in BOOLEAN
    BY <1>1, <1>10, Zenon DEF LeaderTypes
  <2>4. time' \in Nat /\ stoppedNotices' \in Nat /\ asked' \in RegionIds \cup {Nobody}
    BY <1>1, <1>9 DEF LeaderTypes
  <2> QED  BY <2>1, <2>2, <2>3, <2>4 DEF LeaderTypes
<1> QED  BY <1>3, <1>6, <1>7, <1>8, <1>11 DEF CarriedTypes

\* The leader places solutions: only the boxes of regions and its mode change.
LEMMA PlacingTyped ==
    ASSUME CarriedTypes, NEW st, TypedPlace(st), Becomes(st),
           regionMail' \in [RegionIds -> Seq(RegionMessages)],
           agentMail' \in [Agents -> Seq(SolutionLists)],
           UNCHANGED <<status, simulationStarted, time, stoppedNotices, asked, regionsSummary,
                       globalStatistics, globalSummary, startMail, solutionList, agentVars,
                       boundVars>>
    PROVE  CarriedTypes'
<1>1. /\ LeaderTypes /\ StatisticsTypes /\ MessageTypes /\ WorkerTypes /\ BoundTypes
  BY DEF CarriedTypes
<1>2. regionBox' \in [RegionIds -> Seq(LeaderMessages)] /\ mode' \in {"up", "spinning", "failed"}
  BY DEF Becomes, TypedPlace
<1>3. MessageTypes'
  BY <1>1, <1>2 DEF MessageTypes
<1>4. LeaderTypes'
  <2>1. simulationStarted' \in BOOLEAN
    BY <1>1, Zenon DEF LeaderTypes
  <2>2. /\ status' \in {"READY", "STARTED", "STOPPED", "FINISHED"} /\ time' \in Nat
        /\ stoppedNotices' \in Nat /\ asked' \in RegionIds \cup {Nobody}
        /\ mode' \in {"up", "spinning", "failed", "exited"}
    BY <1>1, <1>2 DEF LeaderTypes
  <2> QED  BY <2>1, <2>2 DEF LeaderTypes
<1>5. StatisticsTypes'
  BY <1>1 DEF StatisticsTypes
<1>6. WorkerTypes'
  BY <1>1 DEF WorkerTypes, agentVars
<1>7. BoundTypes'
  BY <1>1 DEF BoundTypes, boundVars
<1> QED  BY <1>3, <1>4, <1>5, <1>6, <1>7 DEF CarriedTypes

LEMMA OnSolutionResultTyped ==
    ASSUME PoolInv, CarriedTypes, NEW a \in Agents, OnSolutionResult(a)
    PROVE  CarriedTypes'
<1>1. MessageTypes /\ mode = "up" /\ agentMail[a] # <<>>
      /\ agentMail' = [agentMail EXCEPT ![a] = Tail(@)]
  BY DEF CarriedTypes, OnSolutionResult, LeaderIdle
<1>2. agentMail' \in [Agents -> Seq(SolutionLists)] /\ Head(agentMail[a]) \in SolutionLists
  BY <1>1, TableTake DEF MessageTypes
<1>3. PICK st \in PlaceResult(LeaderState, Head(agentMail[a])) : Becomes(st)
  BY DEF OnSolutionResult
<1>4. TypedPlace(st)
  BY <1>1, <1>2, <1>3, PlacedTyped
<1>5. UNCHANGED <<status, simulationStarted, time, stoppedNotices, asked, regionsSummary,
                  globalStatistics, globalSummary, startMail, solutionList, agentVars, boundVars>>
  BY DEF OnSolutionResult, tableVars, stopVars, regionVars
<1>6. regionMail' \in [RegionIds -> Seq(RegionMessages)]
  BY <1>1 DEF OnSolutionResult, MessageTypes
<1> QED  BY <1>2, <1>3, <1>4, <1>5, <1>6, PlacingTyped

LEMMA OnRegionSplitTyped ==
    ASSUME PoolInv, CarriedTypes, NEW r \in RegionIds, OnRegionSplit(r)
    PROVE  CarriedTypes'
<1>1. MessageTypes /\ mode = "up" /\ Takes(r, "RegionSplit")
  BY DEF CarriedTypes, OnRegionSplit, Takes, LeaderIdle
<1> DEFINE m == Head(regionMail[r])
<1>2. /\ regionMail' \in [RegionIds -> Seq(RegionMessages)]
      /\ m.lower \in SolutionLists /\ m.higher \in SolutionLists
  BY <1>1, TakesTyped, ContentsOfRegionMessage
<1>3. PICK st \in PlaceSplit(LeaderState, m.lower, m.higher) : Becomes(st)
  BY DEF OnRegionSplit
<1>4. TypedPlace(st)
  <2> HIDE DEF m
  <2> QED  BY <1>1, <1>2, <1>3, PlacedTyped
<1>5. UNCHANGED <<status, simulationStarted, time, stoppedNotices, asked, regionsSummary,
                  globalStatistics, globalSummary, startMail, solutionList, agentVars, boundVars>>
  BY DEF OnRegionSplit, tableVars, stopVars, regionVars
<1>6. agentMail' \in [Agents -> Seq(SolutionLists)]
  BY <1>1 DEF OnRegionSplit, MessageTypes
<1> QED  BY <1>2, <1>3, <1>4, <1>5, <1>6, PlacingTyped

\* The leader recalculates, after taking a message or releasing a region.
LEMMA RecalculatingTyped ==
    ASSUME CarriedTypes, NEW regions, NEW copies \in Nat,
           NEW summaries \in [RegionIds -> Summaries \cup {NoSummary}],
           CalculateGlobalParameters(regions, summaries, frames, copies),
           regionMail' \in [RegionIds -> Seq(RegionMessages)],
           asked' \in RegionIds \cup {Nobody},
           UNCHANGED <<statusVars, agentMail, startMail, regionVars, agentVars, boundVars>>
    PROVE  CarriedTypes'
<1>1. /\ LeaderTypes /\ StatisticsTypes /\ MessageTypes /\ WorkerTypes /\ BoundTypes
  BY DEF CarriedTypes
<1>2. /\ time' \in Nat
      /\ regionsSummary' \in [RegionIds -> Summaries \cup {NoSummary}]
      /\ globalStatistics' \in Summaries \cup {NoSummary}
      /\ regionBox' \in [RegionIds -> Seq(LeaderMessages)]
  BY <1>1, CalculatingTyped
<1>3. UNCHANGED <<mode, status, simulationStarted, stoppedNotices, solutionList, regionStarted,
                  globalSummary, agentState, produced, starts, stops, ticks>>
  BY DEF statusVars, regionVars, agentVars, boundVars
<1>4. LeaderTypes'
  <2>1. simulationStarted' \in BOOLEAN
    BY <1>1, <1>3, Zenon DEF LeaderTypes
  <2>2. /\ status' \in {"READY", "STARTED", "STOPPED", "FINISHED"} /\ stoppedNotices' \in Nat
        /\ mode' \in {"up", "spinning", "failed", "exited"}
    BY <1>1, <1>3 DEF LeaderTypes
  <2> QED  BY <1>2, <2>1, <2>2 DEF LeaderTypes
<1>5. StatisticsTypes'
  BY <1>1, <1>2, <1>3 DEF StatisticsTypes
<1>6. MessageTypes'
  BY <1>1, <1>2 DEF MessageTypes
<1>7. WorkerTypes' /\ BoundTypes'
  BY <1>1, <1>3 DEF WorkerTypes, BoundTypes
<1> QED  BY <1>4, <1>5, <1>6, <1>7 DEF CarriedTypes

LEMMA OnSummaryTyped ==
    ASSUME CarriedTypes, NEW r \in RegionIds, OnUpdateRegionSummary(r) \/ OnRegionRegister(r)
    PROVE  CarriedTypes'
<1> DEFINE summaries == [regionsSummary EXCEPT ![r] = Head(regionMail[r]).summary]
<1>1. PICK type \in {"UpdateRegionSummary", "RegionRegister"} : Takes(r, type)
  BY DEF OnUpdateRegionSummary, OnRegionRegister
<1>2. MessageTypes /\ StatisticsTypes /\ LeaderTypes
  BY DEF CarriedTypes
<1>3. /\ regionMail' \in [RegionIds -> Seq(RegionMessages)]
      /\ Head(regionMail[r]).summary \in Summaries
  BY <1>1, <1>2, TakesTyped, ContentsOfRegionMessage
<1>4. summaries \in [RegionIds -> Summaries \cup {NoSummary}]
  BY <1>2, <1>3 DEF StatisticsTypes
<1>5. UNCHANGED <<statusVars, asked, agentMail, startMail, regionVars, agentVars, boundVars>>
  BY DEF OnUpdateRegionSummary, OnRegionRegister
<1>6. asked' \in RegionIds \cup {Nobody}
  BY <1>2, <1>5 DEF LeaderTypes
<1>7. CASE OnUpdateRegionSummary(r)
  <2>1. CalculateGlobalParameters(registered, summaries, frames, 1)
    BY <1>7 DEF OnUpdateRegionSummary
  <2> HIDE DEF summaries
  <2> QED  BY <1>3, <1>4, <1>5, <1>6, <2>1, RecalculatingTyped
<1>8. CASE OnRegionRegister(r)
  <2>1. CalculateGlobalParameters(registered \cup {r}, summaries, frames, 2)
    BY <1>8 DEF OnRegionRegister
  <2> HIDE DEF summaries
  <2> QED  BY <1>3, <1>4, <1>5, <1>6, <2>1, RecalculatingTyped
<1> QED  BY <1>7, <1>8

LEMMA StoppingTyped ==
    ASSUME PoolInv, CarriedTypes, AskRegion \/ OnRegionRelease \/ StopCompletes
    PROVE  CarriedTypes'
<1>1. /\ LeaderTypes /\ StatisticsTypes /\ MessageTypes /\ WorkerTypes /\ BoundTypes
  BY DEF CarriedTypes
<1>2. CASE AskRegion
  <2>1. PICK r \in registered :
          asked' = r /\ regionBox' = [regionBox EXCEPT ![r] = Append(@, StopSimulation)]
    BY <1>2 DEF AskRegion
  <2>2. r \in RegionIds
    BY DEF PoolInv, Shape
  <2>3. StopSimulation \in LeaderMessages
    BY DEF LeaderMessages
  <2>4. regionBox' \in [RegionIds -> Seq(LeaderMessages)]
    BY <1>1, <2>1, <2>3, TableSend DEF MessageTypes
  <2>5. UNCHANGED <<time, regionsSummary, globalStatistics, mode, status, simulationStarted,
                    stoppedNotices, regionMail, agentMail, startMail, solutionList, globalSummary,
                    agentState, produced, starts, stops, ticks>>
    BY <1>2 DEF AskRegion, tableVars, statusVars, regionVars, agentVars, boundVars
  <2>6. simulationStarted' \in BOOLEAN
    BY <1>1, <2>5, Zenon DEF LeaderTypes
  <2>7. LeaderTypes'
    BY <1>1, <2>1, <2>2, <2>5, <2>6 DEF LeaderTypes
  <2>8. StatisticsTypes' /\ WorkerTypes' /\ BoundTypes'
    BY <1>1, <2>5 DEF StatisticsTypes, WorkerTypes, BoundTypes
  <2>9. MessageTypes'
    BY <1>1, <2>4, <2>5 DEF MessageTypes
  <2> QED  BY <2>7, <2>8, <2>9 DEF CarriedTypes
<1>3. CASE OnRegionRelease
  <2> DEFINE summaries == [regionsSummary EXCEPT ![asked] = NoSummary]
  <2>1. CalculateGlobalParameters(WithoutRegion(asked), summaries, frames, 1)
    BY <1>3 DEF OnRegionRelease
  <2>2. summaries \in [RegionIds -> Summaries \cup {NoSummary}]
    BY <1>1 DEF StatisticsTypes
  <2>3. /\ UNCHANGED <<statusVars, agentMail, startMail, regionVars, agentVars, boundVars>>
        /\ regionMail' \in [RegionIds -> Seq(RegionMessages)]
        /\ asked' \in RegionIds \cup {Nobody}
    BY <1>1, <1>3 DEF OnRegionRelease, MessageTypes
  <2> HIDE DEF summaries
  <2> QED  BY <2>1, <2>2, <2>3, RecalculatingTyped
<1>4. CASE StopCompletes
  <2>1. globalStatistics' \in Summaries \cup {NoSummary}
    BY <1>1, <1>4, AggregateType DEF StopCompletes, StatisticsTypes
  <2>2. UNCHANGED <<regionsSummary, mode, asked, regionBox, regionMail, agentMail, startMail,
                    solutionList, globalSummary, agentState, produced, starts, stops, ticks>>
    BY <1>4 DEF StopCompletes, mailVars, regionVars, agentVars, boundVars
  <2>3. time' = 0 /\ simulationStarted' = FALSE
    BY <1>4 DEF StopCompletes
  <2>4. status' \in {"READY", "STARTED", "STOPPED", "FINISHED"} /\ stoppedNotices' \in Nat
    BY <1>1, <1>4 DEF StopCompletes, LeaderTypes
  <2>5. LeaderTypes'
    BY <1>1, <2>2, <2>3, <2>4 DEF LeaderTypes
  <2>6. StatisticsTypes'
    BY <1>1, <2>1, <2>2 DEF StatisticsTypes
  <2>7. MessageTypes' /\ WorkerTypes' /\ BoundTypes'
    BY <1>1, <2>2 DEF MessageTypes, WorkerTypes, BoundTypes
  <2> QED  BY <2>5, <2>6, <2>7 DEF CarriedTypes
<1> QED  BY <1>2, <1>3, <1>4

\* A region handles a message or its timer: its own data and its mail change.
LEMMA RegionTyped ==
    ASSUME CarriedTypes,
           regionBox' \in [RegionIds -> Seq(LeaderMessages)],
           regionMail' \in [RegionIds -> Seq(RegionMessages)],
           solutionList' \in [RegionIds -> SolutionLists],
           globalSummary' \in [RegionIds -> Summaries \cup {NoSummary}],
           ticks' \in Nat,
           UNCHANGED <<tableVars, statusVars, asked, agentMail, startMail, agentVars, starts, stops>>
    PROVE  CarriedTypes'
<1>1. /\ LeaderTypes /\ StatisticsTypes /\ MessageTypes /\ WorkerTypes /\ BoundTypes
  BY DEF CarriedTypes
<1>2. UNCHANGED <<regionsSummary, globalStatistics, time, mode, status, simulationStarted,
                  stoppedNotices, agentState, produced>>
  BY DEF tableVars, statusVars, agentVars
<1>3. simulationStarted' \in BOOLEAN
  BY <1>1, <1>2, Zenon DEF LeaderTypes
<1>4. LeaderTypes'
  BY <1>1, <1>2, <1>3 DEF LeaderTypes
<1>5. StatisticsTypes'
  BY <1>1, <1>2 DEF StatisticsTypes
<1>6. MessageTypes'
  BY <1>1 DEF MessageTypes
<1>7. WorkerTypes' /\ BoundTypes'
  BY <1>1, <1>2 DEF WorkerTypes, BoundTypes
<1> QED  BY <1>4, <1>5, <1>6, <1>7 DEF CarriedTypes

LEMMA OnCreateTyped ==
    ASSUME CarriedTypes, NEW r \in RegionIds, OnCreate(r) PROVE CarriedTypes'
<1> DEFINE list == Head(regionBox[r]).solutions
           m == UpdateRegionSummary(SummaryOf(list))
           n == RegionRegister(SummaryOf(list))
<1>1. MessageTypes /\ WorkerTypes /\ StatisticsTypes /\ BoundTypes /\ Gets(r, "CreateRegion")
  BY DEF CarriedTypes, OnCreate
<1>2. regionBox' \in [RegionIds -> Seq(LeaderMessages)] /\ list \in SolutionLists
  BY <1>1, GetsTyped, ContentsOfLeaderMessage
<1>3. /\ solutionList' = [solutionList EXCEPT ![r] = list]
      /\ regionMail' = [regionMail EXCEPT ![r] = Append(Append(@, m), n)]
      /\ UNCHANGED <<leaderVars, agentMail, startMail, globalSummary, agentVars, boundVars>>
  BY DEF OnCreate
<1> HIDE DEF list
<1>4. SummaryOf(list) \in Summaries
  BY <1>2, SummaryOfLemma DEF SolutionLists
<1>5. m \in RegionMessages /\ n \in RegionMessages
  BY <1>4, MessageOfSummaries
<1> HIDE DEF m, n
<1>6. regionMail' \in [RegionIds -> Seq(RegionMessages)]
  <2>1. Append(Append(regionMail[r], m), n) \in Seq(RegionMessages)
    BY <1>1, <1>5, AppendProperties DEF MessageTypes
  <2> QED  BY <1>1, <1>3, <2>1 DEF MessageTypes
<1>7. solutionList' \in [RegionIds -> SolutionLists]
  BY <1>1, <1>2, <1>3 DEF WorkerTypes
<1>8. globalSummary' \in [RegionIds -> Summaries \cup {NoSummary}] /\ ticks' \in Nat
  BY <1>1, <1>3 DEF StatisticsTypes, BoundTypes, boundVars
<1>9. UNCHANGED <<tableVars, statusVars, asked, agentMail, startMail, agentVars, starts, stops>>
  BY <1>3 DEF leaderVars, stopVars, boundVars
<1> QED  BY <1>2, <1>6, <1>7, <1>8, <1>9, RegionTyped

LEMMA OnSolutionResponseTyped ==
    ASSUME CarriedTypes, NEW r \in RegionIds, OnSolutionResponse(r) PROVE CarriedTypes'
<1> DEFINE list == solutionList[r] \o Head(regionBox[r]).solutions
           m == UpdateRegionSummary(SummaryOf(list))
<1>1. MessageTypes /\ WorkerTypes /\ StatisticsTypes /\ BoundTypes /\ Gets(r, "SolutionResponse")
  BY DEF CarriedTypes, OnSolutionResponse
<1>2. /\ regionBox' \in [RegionIds -> Seq(LeaderMessages)]
      /\ Head(regionBox[r]).solutions \in SolutionLists
  BY <1>1, GetsTyped, ContentsOfLeaderMessage
<1>3. list \in SolutionLists
  BY <1>1, <1>2, ConcatProperties DEF WorkerTypes, SolutionLists
<1>4. /\ solutionList' = [solutionList EXCEPT ![r] = list]
      /\ regionMail' = [regionMail EXCEPT ![r] = Append(@, m)]
      /\ UNCHANGED <<leaderVars, agentMail, startMail, globalSummary, agentVars, boundVars>>
  BY DEF OnSolutionResponse
<1> HIDE DEF list
<1>5. m \in RegionMessages
  BY <1>3, SummaryOfLemma, MessageOfSummaries DEF SolutionLists
<1> HIDE DEF m
<1>6. regionMail' \in [RegionIds -> Seq(RegionMessages)]
  BY <1>1, <1>4, <1>5, TableSend DEF MessageTypes
<1>7. solutionList' \in [RegionIds -> SolutionLists]
  BY <1>1, <1>3, <1>4 DEF WorkerTypes
<1>8. globalSummary' \in [RegionIds -> Summaries \cup {NoSummary}] /\ ticks' \in Nat
  BY <1>1, <1>4 DEF StatisticsTypes, BoundTypes, boundVars
<1>9. UNCHANGED <<tableVars, statusVars, asked, agentMail, startMail, agentVars, starts, stops>>
  BY <1>4 DEF leaderVars, stopVars, boundVars
<1> QED  BY <1>2, <1>6, <1>7, <1>8, <1>9, RegionTyped

LEMMA OnUpdateGlobalSummaryTyped ==
    ASSUME CarriedTypes, NEW r \in RegionIds, OnUpdateGlobalSummary(r) PROVE CarriedTypes'
<1>1. MessageTypes /\ WorkerTypes /\ StatisticsTypes /\ BoundTypes /\ Gets(r, "UpdateGlobalSummary")
  BY DEF CarriedTypes, OnUpdateGlobalSummary
<1>2. /\ regionBox' \in [RegionIds -> Seq(LeaderMessages)]
      /\ Head(regionBox[r]).summary \in Summaries \cup {NoSummary}
  BY <1>1, GetsTyped, ContentsOfLeaderMessage
<1>3. /\ globalSummary' = [globalSummary EXCEPT ![r] = Head(regionBox[r]).summary]
      /\ UNCHANGED <<leaderVars, regionMail, agentMail, startMail, solutionList, agentVars, boundVars>>
  BY DEF OnUpdateGlobalSummary
<1>4. globalSummary' \in [RegionIds -> Summaries \cup {NoSummary}]
  BY <1>1, <1>2, <1>3 DEF StatisticsTypes
<1>5. /\ regionMail' \in [RegionIds -> Seq(RegionMessages)]
      /\ solutionList' \in [RegionIds -> SolutionLists] /\ ticks' \in Nat
  BY <1>1, <1>3 DEF MessageTypes, WorkerTypes, BoundTypes, boundVars
<1>6. UNCHANGED <<tableVars, statusVars, asked, agentMail, startMail, agentVars, starts, stops>>
  BY <1>3 DEF leaderVars, stopVars, boundVars
<1> QED  BY <1>2, <1>4, <1>5, <1>6, RegionTyped

LEMMA OnStopRegionTyped ==
    ASSUME CarriedTypes, NEW r \in RegionIds, OnStopRegion(r) PROVE CarriedTypes'
<1>1. MessageTypes /\ WorkerTypes /\ StatisticsTypes /\ BoundTypes /\ Gets(r, "StopSimulation")
  BY DEF CarriedTypes, OnStopRegion
<1>2. regionBox' \in [RegionIds -> Seq(LeaderMessages)]
  BY <1>1, GetsTyped
<1>3. solutionList' \in [RegionIds -> SolutionLists]
  BY <1>1 DEF OnStopRegion, WorkerTypes, SolutionLists
<1>4. /\ regionMail' \in [RegionIds -> Seq(RegionMessages)] /\ ticks' \in Nat
      /\ globalSummary' \in [RegionIds -> Summaries \cup {NoSummary}]
  BY <1>1 DEF OnStopRegion, MessageTypes, StatisticsTypes, BoundTypes, boundVars
<1>5. UNCHANGED <<tableVars, statusVars, asked, agentMail, startMail, agentVars, starts, stops>>
  BY DEF OnStopRegion, boundVars
<1> QED  BY <1>2, <1>3, <1>4, <1>5, RegionTyped

LEMMA OnInternalStimulusTyped ==
    ASSUME CarriedTypes, NEW r \in RegionIds, OnInternalStimulus(r) PROVE CarriedTypes'
<1> DEFINE list == solutionList[r]
           stats == SummaryOf(list)
           middle == MiddleSolutions(list, stats)
           lower == LowerSolutions(list, stats)
           higher == HigherSolutions(list, stats)
           m == IF Len(list) >= MinSolutionsToSplit THEN RegionSplit(lower, higher)
                                                    ELSE RegionSplit(<<>>, <<>>)
<1>1. MessageTypes /\ WorkerTypes /\ StatisticsTypes /\ BoundTypes
  BY DEF CarriedTypes
<1>2. list \in Seq(Solutions)
  BY <1>1 DEF WorkerTypes, SolutionLists
<1>3. /\ solutionList' \in {solutionList, [solutionList EXCEPT ![r] = middle]}
      /\ regionMail' = [regionMail EXCEPT ![r] = Append(@, m)]
      /\ ticks' = ticks + 1
      /\ UNCHANGED <<leaderVars, regionBox, agentMail, startMail, globalSummary, agentVars,
                     starts, stops>>
  BY DEF OnInternalStimulus
<1>4. middle \in SolutionLists /\ lower \in SolutionLists /\ higher \in SolutionLists
  BY <1>2, ThoseLemma DEF MiddleSolutions, LowerSolutions, HigherSolutions, SolutionLists
<1> HIDE DEF middle, lower, higher, list
<1>5. m \in RegionMessages
  <2>1. <<>> \in SolutionLists
    BY DEF SolutionLists
  <2>2. \A l, h \in SolutionLists : RegionSplit(l, h) \in RegionMessages
    BY DEF RegionSplit, RegionMessages
  <2> QED  BY <1>4, <2>1, <2>2
<1> HIDE DEF m
<1>6. regionMail' \in [RegionIds -> Seq(RegionMessages)]
  BY <1>1, <1>3, <1>5, TableSend DEF MessageTypes
<1>7. solutionList' \in [RegionIds -> SolutionLists]
  BY <1>1, <1>3, <1>4 DEF WorkerTypes
<1>8. /\ ticks' \in Nat /\ globalSummary' \in [RegionIds -> Summaries \cup {NoSummary}]
      /\ regionBox' \in [RegionIds -> Seq(LeaderMessages)]
  BY <1>1, <1>3 DEF MessageTypes, StatisticsTypes, BoundTypes
<1>9. UNCHANGED <<tableVars, statusVars, asked, agentMail, startMail, agentVars, starts, stops>>
  BY <1>3 DEF leaderVars, stopVars
<1> QED  BY <1>6, <1>7, <1>8, <1>9, RegionTyped

LEMMA AgentTyped ==
    ASSUME CarriedTypes, NEW a \in Agents, AgentActs(a) PROVE CarriedTypes'
<1>1. /\ LeaderTypes /\ StatisticsTypes /\ MessageTypes /\ WorkerTypes /\ BoundTypes
  BY DEF CarriedTypes
<1>2. UNCHANGED <<leaderVars, regionBox, regionMail, regionVars, boundVars>>
  BY DEF AgentActs, OnAgentStart, ProcessSolutionList
<1>3. StatisticsTypes' /\ BoundTypes'
  BY <1>1, <1>2 DEF StatisticsTypes, BoundTypes, leaderVars, tableVars, regionVars, boundVars
<1>4. LeaderTypes'
  <2>1. UNCHANGED <<mode, status, simulationStarted, time, stoppedNotices, asked>>
    BY <1>2 DEF leaderVars, tableVars, statusVars, stopVars
  <2>2. simulationStarted' \in BOOLEAN
    BY <1>1, <2>1, Zenon DEF LeaderTypes
  <2> QED  BY <1>1, <2>1, <2>2 DEF LeaderTypes
<1>5. solutionList' = solutionList
  BY <1>2 DEF regionVars
<1>6. CASE OnAgentStart(a)
  <2>1. /\ startMail' = [startMail EXCEPT ![a] = @ - 1] /\ startMail[a] > 0
        /\ agentState' = [agentState EXCEPT ![a] = "running"]
        /\ UNCHANGED <<agentMail, produced>>
    BY <1>6 DEF OnAgentStart
  <2>2. startMail' \in [Agents -> Nat]
    BY <1>1, <2>1 DEF MessageTypes
  <2>3. MessageTypes'
    BY <1>1, <1>2, <2>1, <2>2 DEF MessageTypes
  <2>4. WorkerTypes'
    BY <1>1, <1>5, <2>1 DEF WorkerTypes
  <2> QED  BY <1>3, <1>4, <2>3, <2>4 DEF CarriedTypes
<1>7. CASE ProcessSolutionList(a)
  <2>1. PICK list \in NewLists : /\ agentMail' = [agentMail EXCEPT ![a] = Append(@, list)]
                                 /\ produced' = produced \cup ToSet(list)
    BY <1>7 DEF ProcessSolutionList
  <2>2. UNCHANGED <<startMail, agentState>>
    BY <1>7 DEF ProcessSolutionList
  <2>3. PICK n \in ResultSizes : list \in [1 .. n -> Solutions]
    BY <2>1 DEF NewLists, TupleOf
  <2>4. list \in SolutionLists /\ ToSet(list) \subseteq Solutions
    BY <2>3, ResultSizesAssumption DEF SolutionLists, ToSet
  <2>5. agentMail' \in [Agents -> Seq(SolutionLists)]
    BY <1>1, <2>1, <2>4, TableSend DEF MessageTypes
  <2>6. MessageTypes'
    BY <1>1, <1>2, <2>2, <2>5 DEF MessageTypes
  <2>7. WorkerTypes'
    BY <1>1, <1>5, <2>1, <2>2, <2>4 DEF WorkerTypes
  <2> QED  BY <1>3, <1>4, <2>6, <2>7 DEF CarriedTypes
<1> QED  BY <1>6, <1>7 DEF AgentActs

LEMMA StutterTyped == CarriedTypes /\ UNCHANGED vars => CarriedTypes'
<1> SUFFICES ASSUME CarriedTypes, UNCHANGED vars PROVE CarriedTypes'
  OBVIOUS
<1> USE DEF vars, leaderVars, mailVars, regionVars, agentVars, boundVars, tableVars, statusVars, stopVars
<1>1. simulationStarted' \in BOOLEAN
  BY Zenon DEF CarriedTypes, LeaderTypes
<1>2. LeaderTypes'
  BY <1>1 DEF CarriedTypes, LeaderTypes
<1>3. StatisticsTypes' /\ MessageTypes'
  BY DEF CarriedTypes, StatisticsTypes, MessageTypes
<1>4. WorkerTypes' /\ BoundTypes'
  BY DEF CarriedTypes, WorkerTypes, BoundTypes
<1> QED  BY <1>2, <1>3, <1>4 DEF CarriedTypes

LEMMA StepKeepsTypes == PoolInv /\ CarriedTypes /\ [Next]_vars => CarriedTypes'
<1> SUFFICES ASSUME PoolInv, CarriedTypes, [Next]_vars PROVE CarriedTypes'
  OBVIOUS
<1>1. CASE LeaderHandles
  BY <1>1, LeaderCommandsTyped, OnSolutionResultTyped, OnRegionSplitTyped, OnSummaryTyped
     DEF LeaderHandles
<1>2. CASE LeaderStops
  BY <1>2, LeaderCommandsTyped, StoppingTyped DEF LeaderStops
<1>3. ASSUME NEW r \in RegionIds, RegionHandles(r) \/ OnInternalStimulus(r) PROVE CarriedTypes'
  BY <1>3, OnCreateTyped, OnSolutionResponseTyped, OnUpdateGlobalSummaryTyped, OnStopRegionTyped,
     OnInternalStimulusTyped DEF RegionHandles
<1>4. CASE \E a \in Agents : AgentActs(a)
  BY <1>4, AgentTyped
<1>5. CASE UNCHANGED vars
  BY <1>5, StutterTyped
<1> QED  BY <1>1, <1>2, <1>3, <1>4, <1>5 DEF Next

LEMMA TypesAlways == Spec => []CarriedTypes
BY InitTypes, PoolAlways, StepKeepsTypes, PTL DEF Spec

(* Every variable of the simulation keeps its type: the aggregate of the   *)
(* regions' summaries is a summary or null, a message carries what its     *)
(* receiver reads, and the leader waits for a region or for nobody.        *)
THEOREM SimulationTypeIsKept == Spec => []TypeOK
BY TypesAreTypeOK, TypesAlways, PoolAlways, PTL

-----------------------------------------------------------------------------
(* What a queue tells its receiver, once it has handled all of it *)

\* The last message of these types carries value; without one, `was` is it.
Tells(q, types, was, value) ==
    \/ was = value /\ \A i \in DOMAIN q : q[i].type \notin types
    \/ \E i \in DOMAIN q : /\ q[i].type \in types /\ q[i].summary = value
                           /\ \A j \in DOMAIN q : j > i => q[j].type \notin types

LEMMA TellsWhenEmpty == ASSUME NEW types, NEW value PROVE Tells(<<>>, types, value, value)
BY DEF Tells

LEMMA EmptyTells ==
    ASSUME NEW types, NEW was, NEW value, Tells(<<>>, types, was, value) PROVE was = value
BY DEF Tells

LEMMA TellsAfterSend ==
    ASSUME NEW q, IsQueue(q), NEW types, NEW was, NEW value, Tells(q, types, was, value),
           NEW m, m.type \notin types
    PROVE  Tells(Append(q, m), types, was, value)
<1>1. /\ Len(q) \in Nat /\ DOMAIN q = 1 .. Len(q)
      /\ DOMAIN Append(q, m) = DOMAIN q \cup {Len(q) + 1}
      /\ \A i \in DOMAIN q : Append(q, m)[i] = q[i]
      /\ Append(q, m)[Len(q) + 1] = m
  BY QueueDomain, AppendQueue
<1> DEFINE sent == Append(q, m)
<1> HIDE DEF sent
<1>2. CASE was = value /\ \A i \in DOMAIN q : q[i].type \notin types
  BY <1>1, <1>2 DEF Tells, sent
<1>3. CASE \E i \in DOMAIN q : /\ q[i].type \in types /\ q[i].summary = value
                               /\ \A j \in DOMAIN q : j > i => q[j].type \notin types
  <2>1. PICK i \in DOMAIN q : /\ q[i].type \in types /\ q[i].summary = value
                              /\ \A j \in DOMAIN q : j > i => q[j].type \notin types
    BY <1>3
  <2>2. i \in DOMAIN sent /\ sent[i] = q[i]
    BY <1>1 DEF sent
  <2>3. \A j \in DOMAIN sent : j > i => sent[j].type \notin types
    BY <1>1, <2>1 DEF sent
  <2>4. Tells(sent, types, was, value)
    BY <2>1, <2>2, <2>3 DEF Tells
  <2> QED  BY <2>4 DEF sent
<1> QED  BY <1>2, <1>3 DEF Tells

LEMMA TellsNews ==
    ASSUME NEW q, IsQueue(q), NEW types, NEW was, NEW value,
           NEW m, m.type \in types, m.summary = value
    PROVE  Tells(Append(q, m), types, was, value)
<1> DEFINE sent == Append(q, m)
           last == Len(q) + 1
<1>1. /\ Len(q) \in Nat /\ DOMAIN q = 1 .. Len(q)
      /\ DOMAIN sent = DOMAIN q \cup {last} /\ sent[last] = m
  BY QueueDomain, AppendQueue
<1> HIDE DEF sent
<1>2. last \in DOMAIN sent /\ \A j \in DOMAIN sent : ~(j > last)
  BY <1>1
<1> HIDE DEF last
<1>3. Tells(sent, types, was, value)
  BY <1>1, <1>2 DEF Tells
<1> QED  BY <1>3 DEF sent

LEMMA TellsAfterTake ==
    ASSUME NEW q, IsQueue(q), q # <<>>, NEW types, NEW was, NEW value, Tells(q, types, was, value)
    PROVE  /\ Head(q).type \notin types => Tells(Tail(q), types, was, value)
           /\ Head(q).type \in types => Tells(Tail(q), types, Head(q).summary, value)
<1> DEFINE rest == Tail(q)
<1>1. /\ Len(q) \in Nat \ {0} /\ DOMAIN q = 1 .. Len(q)
      /\ DOMAIN rest = 1 .. Len(q) - 1
      /\ \A i \in DOMAIN rest : i + 1 \in DOMAIN q /\ rest[i] = q[i + 1]
      /\ Head(q) = q[1] /\ 1 \in DOMAIN q
  BY QueueDomain, TailQueue
<1> HIDE DEF rest
<1>2. CASE was = value /\ \A i \in DOMAIN q : q[i].type \notin types
  BY <1>1, <1>2 DEF Tells, rest
<1>3. ASSUME NEW i \in DOMAIN q, q[i].type \in types, q[i].summary = value,
             \A j \in DOMAIN q : j > i => q[j].type \notin types
      PROVE  /\ Head(q).type \notin types => Tells(rest, types, was, value)
             /\ Head(q).type \in types => Tells(rest, types, Head(q).summary, value)
  <2>1. CASE i = 1
    <3>1. \A j \in DOMAIN rest : rest[j].type \notin types
      <4> SUFFICES ASSUME NEW j \in DOMAIN rest PROVE rest[j].type \notin types
        OBVIOUS
      <4>1. j + 1 \in DOMAIN q /\ j + 1 > i /\ rest[j] = q[j + 1]
        BY <1>1, <2>1
      <4> QED  BY <1>3, <4>1
    <3> QED  BY <1>1, <1>3, <2>1, <3>1 DEF Tells
  <2>2. CASE i # 1
    <3> DEFINE k == i - 1
    <3>1. k \in DOMAIN rest /\ rest[k] = q[i]
      <4>1. k \in 1 .. Len(q) - 1 /\ k + 1 = i
        BY <1>1, <2>2
      <4> QED  BY <1>1, <4>1
    <3>2. ASSUME NEW j \in DOMAIN rest, j > k PROVE rest[j].type \notin types
      <4>1. j + 1 \in DOMAIN q /\ j + 1 > i /\ rest[j] = q[j + 1]
        BY <1>1, <3>2
      <4> QED  BY <1>3, <4>1
    <3> HIDE DEF k
    <3>3. \A now : Tells(rest, types, now, value)
      BY <1>3, <3>1, <3>2 DEF Tells
    <3> QED  BY <3>3
  <2> QED  BY <2>1, <2>2
<1> QED  BY <1>2, <1>3 DEF Tells, rest

\* A broadcast sends one message, once or more.
CopiesOf(m, copies) == [i \in 1 .. copies |-> m]

LEMMA TellsCopies ==
    ASSUME NEW q, IsQueue(q), NEW types, NEW was, NEW value, NEW copies \in Nat \ {0},
           NEW m, m.type \in types, m.summary = value
    PROVE  Tells(q \o CopiesOf(m, copies), types, was, value)
<1> DEFINE p == [i \in 1 .. copies |-> m]
           sent == q \o p
           last == Len(q) + copies
<1>1. IsQueue(p) /\ Len(p) = copies /\ DOMAIN p = 1 .. copies
  <2>1. p \in Seq({m}) /\ DOMAIN p = 1 .. copies
    OBVIOUS
  <2> HIDE DEF p
  <2>2. Len(p) \in Nat /\ DOMAIN p = 1 .. Len(p)
    BY <2>1, LenProperties
  <2>3. Len(p) = copies
    BY <2>1, <2>2
  <2> QED  BY <2>1, <2>3 DEF IsQueue
<1>2. \A i \in DOMAIN p : p[i] = m
  OBVIOUS
<1> HIDE DEF p
<1>3. /\ Len(q) \in Nat /\ DOMAIN q = 1 .. Len(q)
      /\ DOMAIN sent = 1 .. last
      /\ \A i \in DOMAIN sent \ DOMAIN q : i - Len(q) \in DOMAIN p /\ sent[i] = p[i - Len(q)]
  BY <1>1, QueueDomain, ConcatQueue
<1> HIDE DEF sent
<1>4. last \in DOMAIN sent /\ last \notin DOMAIN q /\ \A j \in DOMAIN sent : ~(j > last)
  BY <1>3
<1>5. sent[last] = m
  BY <1>2, <1>3, <1>4
<1> HIDE DEF last
<1>6. Tells(sent, types, was, value)
  BY <1>4, <1>5 DEF Tells
<1> QED  BY <1>6 DEF sent, p, CopiesOf

-----------------------------------------------------------------------------
(* The invariant: what is still under way brings everybody up to date *)

Global == {"UpdateGlobalSummary"}
Report == {"UpdateRegionSummary", "RegionRegister"}

\* No stop so far.
Undisturbed == stops = 0 /\ stoppedNotices = 0 /\ frames = <<>>

\* Without a request to stop, only the clock stops the simulation.
Finishing == stops = 0 => \A i \in DOMAIN frames : frames[i].kind = "finish"

BoxesInform(box) ==
    \A r \in registered : Tells(box[r], Global, globalSummary[r], globalStatistics)

Aggregated == registered # {} => globalStatistics = Aggregate(regionsSummary)

Reported ==
    \A r \in RegionIds : Tells(regionMail[r], Report, regionsSummary[r], ActualSummaries[r])

\* Until a split removes solutions, a region is created with some and keeps them.
CreatesSome(q) == \A i \in DOMAIN q : q[i].type = "CreateRegion" => q[i].solutions # <<>>
BoxesCreateSome(box) == \A r \in RegionIds : CreatesSome(box[r])
HoldsSome == \A r \in RegionIds : regionStarted[r] => solutionList[r] # <<>>

Informed == BoxesInform(regionBox)
Unsplit == Reported /\ BoxesCreateSome(regionBox) /\ HoldsSome

Settling == Informed /\ Aggregated /\ (ticks = 0 => Unsplit)

InformedInv == Finishing /\ (Undisturbed => Settling)

\* The invariant is enough: nothing under way, everybody is up to date.
LEMMA InformedWhenQuiet == PoolInv /\ CarriedTypes /\ InformedInv => QuietMeansInformed
<1> SUFFICES ASSUME PoolInv, CarriedTypes, InformedInv, Quiet, stops = 0, stoppedNotices = 0,
                    registered # {}
             PROVE  /\ \A r \in registered : globalSummary[r] = globalStatistics
                    /\ ticks = 0 => globalStatistics = Aggregate(ActualSummaries)
  BY DEF QuietMeansInformed
<1>1. Undisturbed /\ registered \subseteq RegionIds
      /\ \A r \in RegionIds : regionBox[r] = <<>> /\ regionMail[r] = <<>>
  BY DEF Quiet, LeaderIdle, Undisturbed, PoolInv, Shape
<1>2. Informed /\ Aggregated /\ (ticks = 0 => Unsplit)
  BY <1>1 DEF InformedInv, Settling
<1>3. ASSUME NEW r \in registered PROVE globalSummary[r] = globalStatistics
  <2>1. Tells(<<>>, Global, globalSummary[r], globalStatistics)
    BY <1>1, <1>2 DEF Informed, BoxesInform
  <2> QED  BY <2>1, EmptyTells
<1>4. ASSUME ticks = 0 PROVE globalStatistics = Aggregate(ActualSummaries)
  <2>1. ASSUME NEW r \in RegionIds PROVE regionsSummary[r] = ActualSummaries[r]
    <3>1. Tells(<<>>, Report, regionsSummary[r], ActualSummaries[r])
      BY <1>1, <1>2, <1>4 DEF Unsplit, Reported
    <3> HIDE DEF ActualSummaries
    <3> QED  BY <3>1, EmptyTells
  <2>2. regionsSummary = [r \in RegionIds |-> regionsSummary[r]]
    BY DEF CarriedTypes, StatisticsTypes
  <2>3. ActualSummaries = [r \in RegionIds |-> ActualSummaries[r]]
    BY DEF ActualSummaries
  <2>4. regionsSummary = ActualSummaries
    <3> HIDE DEF ActualSummaries
    <3> QED  BY <2>1, <2>2, <2>3
  <2> QED  BY <1>2, <2>4 DEF Aggregated
<1> QED  BY <1>3, <1>4

-----------------------------------------------------------------------------
(* A stop leaves a trace *)

LEMMA FinishingStep ==
    ASSUME PoolInv, CarriedTypes, Finishing, [Next]_vars
    PROVE  Finishing' /\ (Undisturbed' => Undisturbed)
<1>1. stops \in Nat /\ stoppedNotices \in Nat /\ frames \in Seq(Frames)
  BY DEF CarriedTypes, BoundTypes, LeaderTypes, PoolInv, Shape
<1>2. DOMAIN frames = 1 .. Len(frames) /\ Len(frames) \in Nat
  BY <1>1, LenProperties
<1>3. ASSUME UNCHANGED <<frames, stops, stoppedNotices>> PROVE Finishing' /\ (Undisturbed' => Undisturbed)
  BY <1>3 DEF Finishing, Undisturbed
<1>4. ASSUME NEW regions, NEW summaries, NEW copies,
             CalculateGlobalParameters(regions, summaries, frames, copies),
             UNCHANGED <<stops, stoppedNotices>>
      PROVE  Finishing' /\ (Undisturbed' => Undisturbed)
  <2>1. CASE TimeRunsOut
    <3> DEFINE top == [kind |-> "finish", agent |-> 0]
    <3>1. frames' = Append(frames, top)
      BY <1>4, <2>1 DEF CalculateGlobalParameters
    <3>2. top \in Frames /\ top.kind = "finish"
      BY DEF Frames
    <3> HIDE DEF top
    <3>3. /\ DOMAIN frames' = 1 .. Len(frames) + 1 /\ frames'[Len(frames) + 1] = top
          /\ \A i \in DOMAIN frames : frames'[i] = frames[i]
      BY <1>1, <1>2, <3>1, <3>2, AppendProperties
    <3>4. frames' # <<>>
      BY <1>2, <3>3
    <3> QED  BY <1>2, <1>4, <3>2, <3>3, <3>4 DEF Finishing, Undisturbed
  <2>2. CASE ~TimeRunsOut
    <3>1. frames' = frames
      BY <1>4, <2>2 DEF CalculateGlobalParameters
    <3> QED  BY <1>3, <1>4, <3>1
  <2> QED  BY <2>1, <2>2
<1>5. CASE OnStartSimulation \/ AskTimesOut \/ Terminate \/ AskRegion
  BY <1>3, <1>5 DEF OnStartSimulation, AskTimesOut, Terminate, AskRegion, stopVars, statusVars, boundVars
<1>6. CASE OnStopSimulation
  BY <1>1, <1>6 DEF OnStopSimulation, Finishing, Undisturbed
<1>7. CASE (\E a \in Agents : OnSolutionResult(a)) \/ (\E r \in RegionIds : OnRegionSplit(r))
  BY <1>3, <1>7 DEF OnSolutionResult, OnRegionSplit, stopVars, boundVars
<1>8. ASSUME NEW r \in RegionIds, OnUpdateRegionSummary(r) \/ OnRegionRegister(r)
      PROVE  Finishing' /\ (Undisturbed' => Undisturbed)
  BY <1>4, <1>8 DEF OnUpdateRegionSummary, OnRegionRegister, statusVars, boundVars
<1>9. CASE OnRegionRelease
  BY <1>4, <1>9 DEF OnRegionRelease, statusVars, boundVars
<1>10. CASE StopAgent
  <2>1. frames' # <<>> /\ UNCHANGED <<stops, stoppedNotices>>
    BY <1>10, StopAgentKeepsFrames DEF StopAgent, boundVars
  <2>2. DOMAIN frames' = DOMAIN frames /\ \A i \in DOMAIN frames : frames'[i].kind = frames[i].kind
    <3>1. CASE frames' = frames
      BY <3>1
    <3>2. CASE frames' = [frames EXCEPT ![Len(frames)].agent = @ + 1]
      <4> SUFFICES ASSUME NEW i \in DOMAIN frames PROVE frames'[i].kind = frames[i].kind
        BY <3>2
      <4>1. frames[i] \in Frames
        BY <1>1, <1>2, ElementOfSeq
      <4>2. CASE i = Len(frames)
        <5>1. frames'[i] = [frames[i] EXCEPT !.agent = @ + 1]
          BY <3>2, <4>2
        <5> QED  BY <4>1, <5>1 DEF Frames
      <4>3. CASE i # Len(frames)
        BY <3>2, <4>3
      <4> QED  BY <4>2, <4>3
    <3> QED  BY <1>10, <3>1, <3>2 DEF StopAgent
  <2> QED  BY <2>1, <2>2 DEF Finishing, Undisturbed
<1>11. CASE StopCompletes
  <2>1. frames # <<>> /\ frames' = SubSeq(frames, 1, Len(frames) - 1) /\ stops' = stops
    BY <1>11 DEF StopCompletes, Stopping, boundVars
  <2>2. Len(frames) \in DOMAIN frames
    BY <1>1, <1>2, <2>1, EmptySeq
  <2>3. stops = 0 => stoppedNotices' = stoppedNotices + 1
    BY <1>11, <2>2 DEF StopCompletes, Frame, Finishing
  <2>4. DOMAIN frames' = 1 .. Len(frames) - 1 /\ \A i \in DOMAIN frames' : frames'[i] = frames[i]
    <3>1. \A i \in 1 .. Len(frames) - 1 : frames[i] \in Frames
      BY <1>1, <1>2, ElementOfSeq
    <3> DEFINE n == Len(frames) - 1
    <3>2. n \in Nat /\ frames' = SubSeq(frames, 1, n)
      BY <1>2, <2>1, <2>2
    <3> HIDE DEF n
    <3>3. /\ frames' \in Seq(Frames)
          /\ Len(frames') = IF 1 <= n THEN n - 1 + 1 ELSE 0
          /\ \A i \in 1 .. n - 1 + 1 : frames'[i] = frames[1 + i - 1]
      <4>1. \A i \in 1 .. n : frames[i] \in Frames
        BY <3>1 DEF n
      <4> QED  BY <3>2, <4>1, SubSeqProperties
    <3>4. Len(frames') = n
      BY <3>2, <3>3
    <3>5. \A i \in 1 .. n : frames'[i] = frames[i]
      <4> SUFFICES ASSUME NEW i \in 1 .. n PROVE frames'[i] = frames[i]
        OBVIOUS
      <4>1. i \in 1 .. n - 1 + 1 /\ 1 + i - 1 = i
        BY <3>2
      <4> QED  BY <3>3, <4>1
    <3> QED  BY <3>3, <3>4, <3>5, LenProperties DEF n
  <2> QED  BY <1>1, <1>2, <2>1, <2>3, <2>4 DEF Finishing, Undisturbed
<1>12. ASSUME NEW r \in RegionIds, RegionHandles(r) \/ OnInternalStimulus(r)
       PROVE  Finishing' /\ (Undisturbed' => Undisturbed)
  BY <1>3, <1>12 DEF RegionHandles, OnCreate, OnSolutionResponse, OnUpdateGlobalSummary, OnStopRegion,
     OnInternalStimulus, leaderVars, stopVars, statusVars, boundVars
<1>13. CASE \E a \in Agents : AgentActs(a)
  BY <1>3, <1>13 DEF AgentActs, OnAgentStart, ProcessSolutionList, leaderVars, stopVars, statusVars, boundVars
<1>14. CASE UNCHANGED vars
  BY <1>3, <1>14 DEF vars, leaderVars, stopVars, statusVars, boundVars
<1> QED
  BY <1>5, <1>6, <1>7, <1>8, <1>9, <1>10, <1>11, <1>12, <1>13, <1>14
     DEF Next, LeaderHandles, LeaderStops

-----------------------------------------------------------------------------
(* The leader places solutions *)

LEMMA CreatesAfterSend ==
    ASSUME NEW q, IsQueue(q), CreatesSome(q), NEW m,
           m.type = "CreateRegion" => m.solutions # <<>>
    PROVE  CreatesSome(Append(q, m))
<1>1. /\ DOMAIN Append(q, m) = DOMAIN q \cup {Len(q) + 1}
      /\ \A i \in DOMAIN q : Append(q, m)[i] = q[i]
      /\ Append(q, m)[Len(q) + 1] = m
  BY AppendQueue
<1> QED  BY <1>1 DEF CreatesSome

LEMMA CreatesAfterTake ==
    ASSUME NEW q, IsQueue(q), q # <<>>, CreatesSome(q)
    PROVE  /\ CreatesSome(Tail(q))
           /\ Head(q).type = "CreateRegion" => Head(q).solutions # <<>>
<1>1. /\ \A i \in DOMAIN Tail(q) : i + 1 \in DOMAIN q /\ Tail(q)[i] = q[i + 1]
      /\ Head(q) = q[1] /\ 1 \in DOMAIN q
  BY TailQueue
<1> QED  BY <1>1 DEF CreatesSome

LEMMA CreatesAfterCopies ==
    ASSUME NEW q, IsQueue(q), CreatesSome(q), NEW copies \in Nat, NEW m, m.type # "CreateRegion"
    PROVE  CreatesSome(q \o CopiesOf(m, copies))
<1> DEFINE p == [i \in 1 .. copies |-> m]
<1>1. IsQueue(p) /\ \A i \in DOMAIN p : p[i] = m
  <2>1. p \in Seq({m})
    OBVIOUS
  <2> QED  BY <2>1 DEF IsQueue
<1> HIDE DEF p
<1>2. /\ \A i \in DOMAIN q : (q \o p)[i] = q[i]
      /\ \A i \in DOMAIN (q \o p) \ DOMAIN q : (q \o p)[i] = m
  <2>1. \A i \in DOMAIN q : (q \o p)[i] = q[i]
    BY <1>1, ConcatQueue
  <2>2. \A i \in DOMAIN (q \o p) \ DOMAIN q : (q \o p)[i] = m
    BY <1>1, ConcatQueue
  <2> QED  BY <2>1, <2>2
<1>3. CreatesSome(q \o p)
  BY <1>2 DEF CreatesSome
<1> QED  BY <1>3 DEF p, CopiesOf

LEMMA PlacedMessage ==
    ASSUME registered \subseteq RegionIds,
           NEW box \in [RegionIds -> Seq(LeaderMessages)], BoxesInform(box),
           NEW k, NEW m, m.type \notin Global, m.type = "CreateRegion" => m.solutions # <<>>
    PROVE  LET new == [box EXCEPT ![k] = Append(@, m)]
           IN  BoxesInform(new) /\ (BoxesCreateSome(box) => BoxesCreateSome(new))
<1> DEFINE new == [box EXCEPT ![k] = Append(@, m)]
<1>1. \A r \in RegionIds : IsQueue(box[r])
  BY DEF IsQueue
<1>2. \A r \in RegionIds : new[r] = IF r = k THEN Append(box[r], m) ELSE box[r]
  OBVIOUS
<1> HIDE DEF new
<1>3. ASSUME NEW r \in registered
      PROVE  Tells(new[r], Global, globalSummary[r], globalStatistics)
  <2>1. Tells(box[r], Global, globalSummary[r], globalStatistics) /\ r \in RegionIds
    BY DEF BoxesInform
  <2>2. Tells(Append(box[r], m), Global, globalSummary[r], globalStatistics)
    BY <1>1, <2>1, TellsAfterSend
  <2> QED  BY <1>2, <2>1, <2>2
<1>4. ASSUME BoxesCreateSome(box), NEW r \in RegionIds PROVE CreatesSome(new[r])
  BY <1>1, <1>2, <1>4, CreatesAfterSend DEF BoxesCreateSome
<1>5. BoxesInform(new) /\ (BoxesCreateSome(box) => BoxesCreateSome(new))
  BY <1>3, <1>4 DEF BoxesInform, BoxesCreateSome
<1> QED  BY <1>5 DEF new

\* Placing a list does not touch what the regions are told, nor create an empty one.
PlacesWell(st) ==
    IsPlace(st) /\ BoxesInform(st.box) /\ (ticks = 0 => BoxesCreateSome(st.box))

LEMMA CreatePlacesWell ==
    ASSUME registered \subseteq RegionIds, NEW st, PlacesWell(st),
           NEW list \in SolutionLists, list # <<>>
    PROVE  PlacesWell(CreateIn(st, list))
<1> DEFINE m == CreateRegion(list)
           id == Head(st.free)
<1>1. IsPlace(CreateIn(st, list))
  BY CreateInTyped DEF IsPlace, CreateIn, PlacesWell
<1>2. CreateIn(st, list).box = [st.box EXCEPT ![id] = Append(@, m)]
  BY DEF CreateIn
<1>3. m.type \notin Global /\ m.solutions # <<>>
  BY DEF CreateRegion, Global
<1>4. st.box \in [RegionIds -> Seq(LeaderMessages)]
  BY DEF PlacesWell, IsPlace, TypedPlace
<1> HIDE DEF m, id
<1> DEFINE new == [st.box EXCEPT ![id] = Append(@, m)]
<1>5. BoxesInform(new) /\ (BoxesCreateSome(st.box) => BoxesCreateSome(new))
  BY <1>3, <1>4, PlacedMessage DEF PlacesWell
<1> HIDE DEF new
<1>6. CreateIn(st, list).box = new
  BY <1>2 DEF new
<1> QED  BY <1>1, <1>5, <1>6 DEF PlacesWell

LEMMA SendPlacesWell ==
    ASSUME registered \subseteq RegionIds, NEW st, PlacesWell(st),
           NEW list \in SolutionLists, NEW pick
    PROVE  PlacesWell(SendTo(st, pick, list))
<1> DEFINE m == SolutionResponse(list)
           sent == SendTo(st, pick, list)
<1>1. IsPlace(sent)
  BY SendToTyped DEF IsPlace, PlacesWell
<1>2. /\ st.box \in [RegionIds -> Seq(LeaderMessages)]
      /\ st = [free |-> st.free, used |-> st.used, box |-> st.box, mode |-> st.mode]
  BY DEF PlacesWell, IsPlace, TypedPlace
<1>3. sent.box = st.box \/ sent.box = [st.box EXCEPT ![pick] = Append(@, m)]
  <2>1. CASE pick = Spins
    <3>1. sent = [st EXCEPT !.mode = "spinning"]
      BY <2>1 DEF SendTo
    <3>2. sent = [free |-> st.free, used |-> st.used, box |-> st.box, mode |-> "spinning"]
      BY <1>2, <3>1
    <3> HIDE DEF sent
    <3> QED  BY <3>2
  <2>2. CASE pick # Spins /\ pick \notin registered
    <3>1. sent = [st EXCEPT !.mode = "failed"]
      BY <2>2 DEF SendTo
    <3>2. sent = [free |-> st.free, used |-> st.used, box |-> st.box, mode |-> "failed"]
      BY <1>2, <3>1
    <3> HIDE DEF sent
    <3> QED  BY <3>2
  <2>3. CASE pick # Spins /\ pick \in registered
    <3>1. sent = [st EXCEPT !.box[pick] = Append(@, m)]
      BY <2>3 DEF SendTo
    <3>2. sent = [free |-> st.free, used |-> st.used,
                  box |-> [st.box EXCEPT ![pick] = Append(@, m)], mode |-> st.mode]
      BY <1>2, <3>1
    <3> HIDE DEF sent, m
    <3> QED  BY <3>2
  <2> QED  BY <2>1, <2>2, <2>3
<1>4. m.type \notin Global /\ m.type # "CreateRegion"
  BY DEF SolutionResponse, Global
<1> HIDE DEF m, sent
<1>5. PlacesWell(sent)
  <2>1. CASE sent.box = st.box
    BY <1>1, <2>1 DEF PlacesWell
  <2>2. CASE sent.box = [st.box EXCEPT ![pick] = Append(@, m)]
    <3> DEFINE new == [st.box EXCEPT ![pick] = Append(@, m)]
    <3>1. BoxesInform(new) /\ (BoxesCreateSome(st.box) => BoxesCreateSome(new))
      BY <1>2, <1>4, PlacedMessage DEF PlacesWell
    <3> HIDE DEF new
    <3>2. sent.box = new
      BY <2>2 DEF new
    <3> QED  BY <1>1, <3>1, <3>2 DEF PlacesWell
  <2> QED  BY <1>3, <2>1, <2>2
<1> QED  BY <1>5 DEF sent

LEMMA HalfPlacesWell ==
    ASSUME registered \subseteq RegionIds, NEW st, PlacesWell(st),
           NEW list \in SolutionLists, NEW fallback \in SolutionLists,
           NEW half \in PlaceHalf(st, list, fallback)
    PROVE  PlacesWell(half)
BY CreatePlacesWell, SendPlacesWell DEF PlaceHalf, RouletteIn

LEMMA PlacingWell ==
    ASSUME registered \subseteq RegionIds, PlacesWell(LeaderState),
           NEW lower \in SolutionLists, NEW higher \in SolutionLists
    PROVE  /\ \A st \in PlaceSplit(LeaderState, lower, higher) : PlacesWell(st)
           /\ \A st \in PlaceResult(LeaderState, higher) : PlacesWell(st)
<1>1. ASSUME NEW st \in PlaceSplit(LeaderState, lower, higher) PROVE PlacesWell(st)
  <2>1. PICK half \in PlaceHalf(LeaderState, lower, higher) : st \in PlaceHalf(half, higher, higher)
    BY <1>1 DEF PlaceSplit
  <2>2. PlacesWell(half)
    BY <2>1, HalfPlacesWell
  <2> QED  BY <2>1, <2>2, HalfPlacesWell
<1>2. ASSUME NEW st \in PlaceResult(LeaderState, higher) PROVE PlacesWell(st)
  BY <1>2, CreatePlacesWell, SendPlacesWell DEF PlaceResult, RouletteIn
<1> QED  BY <1>1, <1>2

LEMMA Queues ==
    ASSUME PoolInv
    PROVE  /\ registered \subseteq RegionIds
           /\ DOMAIN regionBox = RegionIds /\ DOMAIN regionMail = RegionIds
           /\ \A r \in RegionIds : IsQueue(regionBox[r]) /\ IsQueue(regionMail[r])
BY DEF PoolInv, Shape, AllQueues, IsMap

LEMMA PlacingSettles ==
    ASSUME PoolInv, Settling, NEW st, PlacesWell(st), Becomes(st),
           \/ regionMail' = regionMail
           \/ \E r \in RegionIds : /\ regionMail[r] # <<>> /\ Head(regionMail[r]).type \notin Report
                                   /\ regionMail' = [regionMail EXCEPT ![r] = Tail(@)],
           UNCHANGED <<registered, regionsSummary, globalStatistics, regionVars, ticks>>
    PROVE  Settling'
<1>1. /\ regionBox' = st.box /\ globalSummary' = globalSummary
      /\ ActualSummaries' = ActualSummaries
      /\ UNCHANGED <<solutionList, regionStarted>>
  BY DEF Becomes, ActualSummaries, regionVars
<1>2. Informed'
  BY <1>1 DEF PlacesWell, Informed, BoxesInform
<1>3. Aggregated'
  BY DEF Settling, Aggregated
<1>4. ASSUME ticks' = 0 PROVE Unsplit'
  <2>1. Unsplit /\ BoxesCreateSome(st.box)
    BY <1>4 DEF Settling, PlacesWell
  <2>2. BoxesCreateSome(regionBox)' /\ HoldsSome'
    BY <1>1, <2>1 DEF Unsplit, HoldsSome, BoxesCreateSome
  <2>3. ASSUME NEW r \in RegionIds
        PROVE  Tells(regionMail'[r], Report, regionsSummary[r], ActualSummaries[r])
    <3>1. Tells(regionMail[r], Report, regionsSummary[r], ActualSummaries[r])
          /\ IsQueue(regionMail[r]) /\ DOMAIN regionMail = RegionIds
      BY <2>1, Queues DEF Unsplit, Reported
    <3> HIDE DEF ActualSummaries
    <3>2. CASE regionMail'[r] = regionMail[r]
      BY <3>1, <3>2
    <3>3. CASE /\ regionMail[r] # <<>> /\ Head(regionMail[r]).type \notin Report
               /\ regionMail'[r] = Tail(regionMail[r])
      BY <3>1, <3>3, TellsAfterTake
    <3> QED  BY <3>1, <3>2, <3>3
  <2>4. Reported'
    BY <1>1, <2>3 DEF Reported
  <2> QED  BY <2>2, <2>4 DEF Unsplit
<1> QED  BY <1>2, <1>3, <1>4 DEF Settling

LEMMA LeaderPlacesWell ==
    ASSUME CarriedTypes, Settling, mode = "up" PROVE PlacesWell(LeaderState)
<1>1. IsPlace(LeaderState)
  BY DEF LeaderState, IsPlace, TypedPlace, CarriedTypes, MessageTypes
<1>2. LeaderState.box = regionBox
  BY DEF LeaderState
<1> QED  BY <1>1, <1>2 DEF PlacesWell, Settling, Informed, Unsplit

LEMMA OnSolutionResultSettles ==
    ASSUME PoolInv, CarriedTypes, Settling, NEW a \in Agents, OnSolutionResult(a)
    PROVE  Settling'
<1>1. MessageTypes /\ mode = "up" /\ agentMail[a] # <<>>
  BY DEF CarriedTypes, OnSolutionResult, LeaderIdle
<1>2. Head(agentMail[a]) \in SolutionLists
  BY <1>1, TableTake DEF MessageTypes
<1>3. PICK st \in PlaceResult(LeaderState, Head(agentMail[a])) : Becomes(st)
  BY DEF OnSolutionResult
<1>4. PlacesWell(st)
  BY <1>1, <1>2, <1>3, LeaderPlacesWell, PlacingWell, Queues
<1>5. /\ UNCHANGED <<registered, regionsSummary, globalStatistics, regionVars, ticks>>
      /\ regionMail' = regionMail
  BY DEF OnSolutionResult, tableVars, boundVars
<1> QED  BY <1>3, <1>4, <1>5, PlacingSettles

LEMMA OnRegionSplitSettles ==
    ASSUME PoolInv, CarriedTypes, Settling, NEW r \in RegionIds, OnRegionSplit(r)
    PROVE  Settling'
<1> DEFINE m == Head(regionMail[r])
<1>1. MessageTypes /\ mode = "up" /\ Takes(r, "RegionSplit")
  BY DEF CarriedTypes, OnRegionSplit, Takes, LeaderIdle
<1>2. m.lower \in SolutionLists /\ m.higher \in SolutionLists
  BY <1>1, TakesTyped, ContentsOfRegionMessage
<1>3. PICK st \in PlaceSplit(LeaderState, m.lower, m.higher) : Becomes(st)
  BY DEF OnRegionSplit
<1>4. PlacesWell(st)
  <2> HIDE DEF m
  <2> QED  BY <1>1, <1>2, <1>3, LeaderPlacesWell, PlacingWell, Queues
<1>5. UNCHANGED <<registered, regionsSummary, globalStatistics, regionVars, ticks>>
  BY DEF OnRegionSplit, tableVars, boundVars
<1>6. /\ regionMail[r] # <<>> /\ Head(regionMail[r]).type \notin Report
      /\ regionMail' = [regionMail EXCEPT ![r] = Tail(@)]
  BY <1>1 DEF Takes, Report
<1> QED  BY <1>3, <1>4, <1>5, <1>6, PlacingSettles

-----------------------------------------------------------------------------
(* The leader recalculates and tells everybody *)

LEMMA RecalculatingSettles ==
    ASSUME PoolInv, CarriedTypes, Settling, NEW r \in RegionIds, NEW type \in Report, Takes(r, type),
           NEW regions, regions \subseteq ToSet(regionUsedIds), regions \subseteq RegionIds,
           NEW copies \in Nat \ {0},
           CalculateGlobalParameters(regions,
               [regionsSummary EXCEPT ![r] = Head(regionMail[r]).summary], frames, copies),
           ~TimeRunsOut,
           UNCHANGED <<regionUsedIds, regionVars, ticks>>
    PROVE  Settling'
<1> DEFINE news == Head(regionMail[r]).summary
           m == UpdateGlobalSummary(globalStatistics')
           ids == regions \cap UsedIds(regionUsedIds')
<1>1. /\ registered' = regions
      /\ regionsSummary' = [regionsSummary EXCEPT ![r] = news]
      /\ globalStatistics' = Aggregate(regionsSummary')
      /\ regionBox' = Broadcast(regionBox, ids, m, copies)
  BY DEF CalculateGlobalParameters
<1>2. Aggregated'
  BY <1>1 DEF Aggregated
<1>3. ids = regions
  BY DEF UsedIds
<1>4. m.type = "UpdateGlobalSummary" /\ m.summary = globalStatistics'
  BY DEF UpdateGlobalSummary
<1> HIDE DEF m, ids, news
<1>5. DOMAIN regionBox = RegionIds /\ \A q \in RegionIds : IsQueue(regionBox[q]) /\ IsQueue(regionMail[q])
  BY Queues
<1>6. \A q \in RegionIds : regionBox'[q] = IF q \in regions
                               THEN regionBox[q] \o CopiesOf(m, copies) ELSE regionBox[q]
  BY <1>1, <1>3, <1>5 DEF Broadcast, CopiesOf
<1>7. Informed'
  <2>1. ASSUME NEW q \in regions
        PROVE  Tells(regionBox'[q], Global, globalSummary'[q], globalStatistics')
    <3>1. IsQueue(regionBox[q]) /\ m.type \in Global
      BY <1>4, <1>5 DEF Global
    <3>2. Tells(regionBox[q] \o CopiesOf(m, copies), Global, globalSummary'[q], globalStatistics')
      BY <1>4, <3>1, TellsCopies
    <3> QED  BY <1>6, <3>2
  <2> QED  BY <1>1, <2>1 DEF Informed, BoxesInform
<1>8. ASSUME ticks' = 0 PROVE Unsplit'
  <2>1. Unsplit
    BY <1>8 DEF Settling
  <2>2. UNCHANGED <<solutionList, regionStarted>> /\ ActualSummaries' = ActualSummaries
    BY DEF regionVars, ActualSummaries
  <2>3. HoldsSome'
    BY <2>1, <2>2 DEF Unsplit, HoldsSome
  <2>4. BoxesCreateSome(regionBox')
    <3> SUFFICES ASSUME NEW q \in RegionIds PROVE CreatesSome(regionBox'[q])
      BY DEF BoxesCreateSome
    <3>1. CreatesSome(regionBox[q])
      BY <2>1 DEF Unsplit, BoxesCreateSome
    <3>2. CreatesSome(regionBox[q] \o CopiesOf(m, copies))
      BY <1>4, <1>5, <3>1, CreatesAfterCopies
    <3> QED  BY <1>6, <3>1, <3>2
  <2>5. ASSUME NEW q \in RegionIds
        PROVE  Tells(regionMail'[q], Report, regionsSummary'[q], ActualSummaries[q])
    <3>1. Tells(regionMail[q], Report, regionsSummary[q], ActualSummaries[q])
      BY <2>1 DEF Unsplit, Reported
    <3>2. /\ regionMail[r] # <<>> /\ Head(regionMail[r]).type \in Report
          /\ regionMail' = [regionMail EXCEPT ![r] = Tail(@)]
      BY DEF Takes
    <3>3. regionsSummary \in [RegionIds -> Summaries \cup {NoSummary}] /\ DOMAIN regionMail = RegionIds
      BY Queues DEF CarriedTypes, StatisticsTypes
    <3> HIDE DEF ActualSummaries
    <3>4. CASE q = r
      <4>1. Tells(Tail(regionMail[r]), Report, news, ActualSummaries[r])
        BY <1>5, <3>1, <3>2, <3>4, TellsAfterTake DEF news
      <4> QED  BY <1>1, <3>2, <3>3, <3>4, <4>1
    <3>5. CASE q # r
      BY <1>1, <3>1, <3>2, <3>3, <3>5
    <3> QED  BY <3>4, <3>5
  <2>6. Reported'
    BY <2>2, <2>5 DEF Reported
  <2> QED  BY <2>3, <2>4, <2>6 DEF Unsplit
<1> QED  BY <1>2, <1>7, <1>8 DEF Settling

LEMMA OnSummarySettles ==
    ASSUME PoolInv, CarriedTypes, Settling, NEW r \in RegionIds,
           OnUpdateRegionSummary(r) \/ OnRegionRegister(r), frames' = <<>>
    PROVE  Settling'
<1> DEFINE summaries == [regionsSummary EXCEPT ![r] = Head(regionMail[r]).summary]
<1>1. UNCHANGED <<regionUsedIds, regionVars, ticks>>
  BY DEF OnUpdateRegionSummary, OnRegionRegister, boundVars
<1>2. registered \subseteq RegionIds /\ registered \subseteq ToSet(regionUsedIds)
  BY Zenon DEF PoolInv, Shape, IdsOwned, Owns
<1>3. ASSUME NEW regions, NEW copies, CalculateGlobalParameters(regions, summaries, frames, copies)
      PROVE  ~TimeRunsOut
  <2> SUFFICES ASSUME TimeRunsOut PROVE FALSE
    OBVIOUS
  <2> DEFINE top == [kind |-> "finish", agent |-> 0]
  <2>1. frames' = Append(frames, top) /\ frames \in Seq(Frames) /\ top \in Frames
    BY <1>3 DEF CalculateGlobalParameters, PoolInv, Shape, Frames
  <2> HIDE DEF top
  <2>2. Len(frames') = Len(frames) + 1 /\ Len(frames) \in Nat
    BY <2>1, AppendProperties, LenProperties
  <2> QED  BY <2>2
<1>4. CASE OnUpdateRegionSummary(r)
  <2>1. CalculateGlobalParameters(registered, summaries, frames, 1) /\ Takes(r, "UpdateRegionSummary")
    BY <1>4 DEF OnUpdateRegionSummary
  <2>2. ~TimeRunsOut
    BY <1>3, <2>1
  <2>3. "UpdateRegionSummary" \in Report /\ 1 \in Nat \ {0}
    BY DEF Report
  <2> QED  BY <1>1, <1>2, <2>1, <2>2, <2>3, RecalculatingSettles
<1>5. CASE OnRegionRegister(r)
  <2>1. CalculateGlobalParameters(registered \cup {r}, summaries, frames, 2) /\ Takes(r, "RegionRegister")
    BY <1>5 DEF OnRegionRegister
  <2>2. ~TimeRunsOut
    BY <1>3, <2>1
  <2>3. r \in ToSet(regionUsedIds)
    <3>1. ~NoneIn(regionMail[r], "RegionRegister")
      BY <2>1, Queues, TakeMessage DEF Takes
    <3> QED  BY <3>1, Zenon DEF PoolInv, IdsOwned, Owns
  <2>4. "RegionRegister" \in Report /\ 2 \in Nat \ {0}
    BY DEF Report
  <2>5. registered \cup {r} \subseteq RegionIds /\ registered \cup {r} \subseteq ToSet(regionUsedIds)
    BY <1>2, <2>3
  <2> QED  BY <1>1, <2>1, <2>2, <2>4, <2>5, RecalculatingSettles
<1> QED  BY <1>4, <1>5

-----------------------------------------------------------------------------
(* The regions *)

LEMMA OnCreateSettles ==
    ASSUME PoolInv, CarriedTypes, Settling, NEW r \in RegionIds, OnCreate(r)
    PROVE  Settling'
<1> DEFINE list == Head(regionBox[r]).solutions
           summary == SummaryOf(list)
           m == UpdateRegionSummary(summary)
           n == RegionRegister(summary)
<1>1. /\ regionBox[r] # <<>> /\ Head(regionBox[r]).type = "CreateRegion"
      /\ regionBox' = [regionBox EXCEPT ![r] = Tail(@)]
      /\ solutionList' = [solutionList EXCEPT ![r] = list]
      /\ regionMail' = [regionMail EXCEPT ![r] = Append(Append(@, m), n)]
      /\ regionStarted' = [regionStarted EXCEPT ![r] = TRUE]
      /\ UNCHANGED <<registered, regionsSummary, globalStatistics, globalSummary, ticks>>
  BY DEF OnCreate, Gets, leaderVars, tableVars, boundVars
<1>2. /\ registered \subseteq RegionIds
      /\ DOMAIN regionBox = RegionIds /\ DOMAIN regionMail = RegionIds
      /\ \A q \in RegionIds : IsQueue(regionBox[q]) /\ IsQueue(regionMail[q])
  BY Queues
<1>3. DOMAIN solutionList = RegionIds /\ DOMAIN regionStarted = RegionIds
  BY DEF PoolInv, Shape, IsMap
<1>4. n.type \in Report /\ n.summary = summary
  BY DEF RegionRegister, Report
<1> HIDE DEF m, n, summary, list
<1>5. Informed'
  <2>1. ASSUME NEW q \in registered
        PROVE  Tells(regionBox'[q], Global, globalSummary[q], globalStatistics)
    <3>1. Tells(regionBox[q], Global, globalSummary[q], globalStatistics) /\ q \in RegionIds
      BY <1>2 DEF Settling, Informed, BoxesInform
    <3>2. CASE q = r
      <4>1. Head(regionBox[r]).type \notin Global
        BY <1>1 DEF Global
      <4> QED  BY <1>1, <1>2, <3>1, <3>2, <4>1, TellsAfterTake
    <3>3. CASE q # r
      BY <1>1, <1>2, <3>1, <3>3
    <3> QED  BY <3>2, <3>3
  <2> QED  BY <1>1, <2>1 DEF Informed, BoxesInform
<1>6. Aggregated'
  BY <1>1 DEF Settling, Aggregated
<1>7. ASSUME ticks' = 0 PROVE Unsplit'
  <2>1. Unsplit
    BY <1>1, <1>7 DEF Settling
  <2>2. list # <<>> /\ CreatesSome(Tail(regionBox[r]))
    BY <1>1, <1>2, <2>1, CreatesAfterTake DEF Unsplit, BoxesCreateSome, list
  <2>3. BoxesCreateSome(regionBox')
    BY <1>1, <1>2, <2>1, <2>2 DEF Unsplit, BoxesCreateSome
  <2>4. HoldsSome'
    BY <1>1, <1>3, <2>1, <2>2 DEF Unsplit, HoldsSome
  <2>5. /\ ActualSummaries'[r] = summary
        /\ \A q \in RegionIds \ {r} : ActualSummaries'[q] = ActualSummaries[q]
    BY <1>1, <1>3, <2>2 DEF ActualSummaries, summary
  <2>6. ASSUME NEW q \in RegionIds
        PROVE  Tells(regionMail'[q], Report, regionsSummary[q], ActualSummaries'[q])
    <3>1. CASE q = r
      <4> DEFINE told == Append(regionMail[r], m)
      <4>1. IsQueue(told)
        BY <1>2, AppendQueue
      <4>2. regionMail'[r] = Append(told, n)
        BY <1>1, <1>2
      <4> HIDE DEF told, ActualSummaries
      <4>3. Tells(Append(told, n), Report, regionsSummary[r], summary)
        BY <1>4, <4>1, TellsNews
      <4> QED  BY <2>5, <3>1, <4>2, <4>3
    <3>2. CASE q # r
      <4> HIDE DEF ActualSummaries
      <4>1. Tells(regionMail[q], Report, regionsSummary[q], ActualSummaries[q])
        BY <2>1 DEF Unsplit, Reported
      <4> QED  BY <1>1, <1>2, <2>5, <3>2, <4>1
    <3> QED  BY <3>1, <3>2
  <2>7. Reported'
    BY <1>1, <2>6 DEF Reported
  <2> QED  BY <2>3, <2>4, <2>7 DEF Unsplit
<1> QED  BY <1>5, <1>6, <1>7 DEF Settling

LEMMA OnSolutionResponseSettles ==
    ASSUME PoolInv, CarriedTypes, Settling, NEW r \in RegionIds, OnSolutionResponse(r)
    PROVE  Settling'
<1> DEFINE more == Head(regionBox[r]).solutions
           list == solutionList[r] \o more
           summary == SummaryOf(list)
           m == UpdateRegionSummary(summary)
<1>1. /\ regionBox[r] # <<>> /\ Head(regionBox[r]).type = "SolutionResponse"
      /\ regionBox' = [regionBox EXCEPT ![r] = Tail(@)]
      /\ solutionList' = [solutionList EXCEPT ![r] = list]
      /\ regionMail' = [regionMail EXCEPT ![r] = Append(@, m)]
      /\ UNCHANGED <<registered, regionsSummary, globalStatistics, globalSummary, ticks, regionStarted>>
  BY DEF OnSolutionResponse, Gets, leaderVars, tableVars, boundVars
<1>2. /\ registered \subseteq RegionIds
      /\ DOMAIN regionBox = RegionIds /\ DOMAIN regionMail = RegionIds
      /\ \A q \in RegionIds : IsQueue(regionBox[q]) /\ IsQueue(regionMail[q])
  BY Queues
<1>3. DOMAIN solutionList = RegionIds
  BY DEF PoolInv, Shape, IsMap
<1>4. m.type \in Report /\ m.summary = summary
  BY DEF UpdateRegionSummary, Report
<1>5. regionStarted[r]
  <2>1. ~NoneIn(regionBox[r], "SolutionResponse")
    BY <1>1, <1>2, TakeMessage
  <2> QED  BY <2>1, Zenon DEF PoolInv, IdsOwned, Owns
<1>6. solutionList[r] # <<>> => list # <<>>
  <2>1. solutionList[r] \in Seq(Solutions)
    BY DEF CarriedTypes, WorkerTypes, SolutionLists
  <2>2. more \in Seq(Solutions)
    <3>1. Gets(r, "SolutionResponse") /\ MessageTypes
      BY DEF OnSolutionResponse, CarriedTypes
    <3> QED  BY <3>1, GetsTyped, ContentsOfLeaderMessage DEF SolutionLists
  <2> HIDE DEF more
  <2>3. Len(list) = Len(solutionList[r]) + Len(more) /\ list \in Seq(Solutions)
        /\ Len(solutionList[r]) \in Nat /\ Len(more) \in Nat
    BY <2>1, <2>2, ConcatProperties, LenProperties
  <2>4. solutionList[r] # <<>> => Len(solutionList[r]) # 0
    BY <2>1, EmptySeq
  <2>5. Len(<<>>) = 0
    OBVIOUS
  <2> HIDE DEF list
  <2> QED  BY <2>3, <2>4, <2>5
<1> HIDE DEF m, summary, list
<1>7. Informed'
  <2>1. ASSUME NEW q \in registered
        PROVE  Tells(regionBox'[q], Global, globalSummary[q], globalStatistics)
    <3>1. Tells(regionBox[q], Global, globalSummary[q], globalStatistics) /\ q \in RegionIds
      BY <1>2 DEF Settling, Informed, BoxesInform
    <3>2. CASE q = r
      <4>1. Head(regionBox[r]).type \notin Global
        BY <1>1 DEF Global
      <4> QED  BY <1>1, <1>2, <3>1, <3>2, <4>1, TellsAfterTake
    <3>3. CASE q # r
      BY <1>1, <1>2, <3>1, <3>3
    <3> QED  BY <3>2, <3>3
  <2> QED  BY <1>1, <2>1 DEF Informed, BoxesInform
<1>8. Aggregated'
  BY <1>1 DEF Settling, Aggregated
<1>9. ASSUME ticks' = 0 PROVE Unsplit'
  <2>1. Unsplit
    BY <1>1, <1>9 DEF Settling
  <2>2. list # <<>>
    BY <1>5, <1>6, <2>1 DEF Unsplit, HoldsSome
  <2>3. CreatesSome(Tail(regionBox[r]))
    BY <1>1, <1>2, <2>1, CreatesAfterTake DEF Unsplit, BoxesCreateSome
  <2>4. BoxesCreateSome(regionBox')
    BY <1>1, <1>2, <2>1, <2>3 DEF Unsplit, BoxesCreateSome
  <2>5. HoldsSome'
    BY <1>1, <1>3, <2>1, <2>2 DEF Unsplit, HoldsSome
  <2>6. /\ ActualSummaries'[r] = summary
        /\ \A q \in RegionIds \ {r} : ActualSummaries'[q] = ActualSummaries[q]
    BY <1>1, <1>3, <2>2 DEF ActualSummaries, summary
  <2>7. ASSUME NEW q \in RegionIds
        PROVE  Tells(regionMail'[q], Report, regionsSummary[q], ActualSummaries'[q])
    <3> HIDE DEF ActualSummaries
    <3>1. CASE q = r
      <4>1. regionMail'[r] = Append(regionMail[r], m)
        BY <1>1, <1>2
      <4>2. Tells(Append(regionMail[r], m), Report, regionsSummary[r], summary)
        BY <1>2, <1>4, TellsNews
      <4> QED  BY <2>6, <3>1, <4>1, <4>2
    <3>2. CASE q # r
      <4>1. Tells(regionMail[q], Report, regionsSummary[q], ActualSummaries[q])
        BY <2>1 DEF Unsplit, Reported
      <4> QED  BY <1>1, <1>2, <2>6, <3>2, <4>1
    <3> QED  BY <3>1, <3>2
  <2>8. Reported'
    BY <1>1, <2>7 DEF Reported
  <2> QED  BY <2>4, <2>5, <2>8 DEF Unsplit
<1> QED  BY <1>7, <1>8, <1>9 DEF Settling

LEMMA OnUpdateGlobalSummarySettles ==
    ASSUME PoolInv, CarriedTypes, Settling, NEW r \in RegionIds, OnUpdateGlobalSummary(r)
    PROVE  Settling'
<1>1. /\ regionBox[r] # <<>> /\ Head(regionBox[r]).type = "UpdateGlobalSummary"
      /\ regionBox' = [regionBox EXCEPT ![r] = Tail(@)]
      /\ globalSummary' = [globalSummary EXCEPT ![r] = Head(regionBox[r]).summary]
      /\ UNCHANGED <<registered, regionsSummary, globalStatistics, ticks, regionMail, solutionList,
                     regionStarted>>
  BY DEF OnUpdateGlobalSummary, Gets, leaderVars, tableVars, boundVars
<1>2. /\ registered \subseteq RegionIds
      /\ DOMAIN regionBox = RegionIds /\ DOMAIN globalSummary = RegionIds
      /\ \A q \in RegionIds : IsQueue(regionBox[q])
  BY Queues DEF CarriedTypes, StatisticsTypes
<1>3. Informed'
  <2>1. ASSUME NEW q \in registered
        PROVE  Tells(regionBox'[q], Global, globalSummary'[q], globalStatistics)
    <3>1. Tells(regionBox[q], Global, globalSummary[q], globalStatistics) /\ q \in RegionIds
      BY <1>2 DEF Settling, Informed, BoxesInform
    <3>2. CASE q = r
      <4>1. Head(regionBox[r]).type \in Global
        BY <1>1 DEF Global
      <4>2. Tells(Tail(regionBox[r]), Global, Head(regionBox[r]).summary, globalStatistics)
        BY <1>1, <1>2, <3>1, <3>2, <4>1, TellsAfterTake
      <4> QED  BY <1>1, <1>2, <3>1, <3>2, <4>2
    <3>3. CASE q # r
      BY <1>1, <1>2, <3>1, <3>3
    <3> QED  BY <3>2, <3>3
  <2> QED  BY <1>1, <2>1 DEF Informed, BoxesInform
<1>4. Aggregated'
  BY <1>1 DEF Settling, Aggregated
<1>5. ASSUME ticks' = 0 PROVE Unsplit'
  <2>1. Unsplit
    BY <1>1, <1>5 DEF Settling
  <2>2. CreatesSome(Tail(regionBox[r]))
    BY <1>1, <1>2, <2>1, CreatesAfterTake DEF Unsplit, BoxesCreateSome
  <2>3. BoxesCreateSome(regionBox')
    BY <1>1, <1>2, <2>1, <2>2 DEF Unsplit, BoxesCreateSome
  <2>4. Reported' /\ HoldsSome'
    BY <1>1, <2>1 DEF Unsplit, Reported, HoldsSome, ActualSummaries
  <2> QED  BY <2>3, <2>4 DEF Unsplit
<1> QED  BY <1>3, <1>4, <1>5 DEF Settling

\* A region is not told to stop before somebody stops the simulation.
LEMMA NobodyStops ==
    ASSUME PoolInv, frames = <<>>, NEW r \in RegionIds PROVE ~OnStopRegion(r)
<1> SUFFICES ASSUME OnStopRegion(r) PROVE FALSE
  OBVIOUS
<1>1. ~NoneIn(regionBox[r], "StopSimulation")
  BY Queues, TakeMessage DEF OnStopRegion, Gets
<1>2. asked = r
  BY <1>1 DEF PoolInv, IdsOwned, Owns, NoneIn
<1> QED  BY <1>2, IdsAreSomebody DEF PoolInv, IdsOwned, Waiting

LEMMA OnInternalStimulusSettles ==
    ASSUME CarriedTypes, Settling, NEW r \in RegionIds, OnInternalStimulus(r)
    PROVE  Settling'
<1>1. /\ ticks' = ticks + 1 /\ ticks \in Nat
      /\ UNCHANGED <<regionBox, registered, regionsSummary, globalStatistics, globalSummary>>
  BY DEF OnInternalStimulus, leaderVars, tableVars, CarriedTypes, BoundTypes
<1>2. Informed' /\ Aggregated'
  BY <1>1 DEF Settling, Informed, BoxesInform, Aggregated
<1> QED  BY <1>1, <1>2 DEF Settling

LEMMA UntouchedSettles ==
    ASSUME Settling,
           UNCHANGED <<registered, regionsSummary, globalStatistics, regionBox, regionMail, regionVars, ticks>>
    PROVE  Settling'
<1>1. UNCHANGED <<solutionList, regionStarted, globalSummary>>
  BY DEF regionVars
<1>2. Informed' /\ Aggregated'
  BY <1>1 DEF Settling, Informed, BoxesInform, Aggregated
<1>3. Unsplit => Unsplit'
  BY <1>1 DEF Unsplit, Reported, BoxesCreateSome, HoldsSome, ActualSummaries
<1> QED  BY <1>2, <1>3 DEF Settling

LEMMA StepSettles ==
    ASSUME PoolInv, CarriedTypes, InformedInv, [Next]_vars
    PROVE  InformedInv'
<1>1. Finishing' /\ (Undisturbed' => Undisturbed)
  BY FinishingStep DEF InformedInv
<1> SUFFICES ASSUME Undisturbed' PROVE Settling'
  BY <1>1 DEF InformedInv
<1>2. Settling /\ frames = <<>> /\ frames' = <<>> /\ stoppedNotices = 0
  BY <1>1 DEF InformedInv, Undisturbed
<1>3. CASE LeaderHandles
  <2>1. CASE OnStartSimulation
    BY <1>2, <2>1, UntouchedSettles DEF OnStartSimulation, tableVars
  <2>2. CASE OnStopSimulation
    BY <1>2, <2>2 DEF OnStopSimulation
  <2> QED
    BY <1>2, <1>3, <2>1, <2>2, OnSolutionResultSettles, OnRegionSplitSettles, OnSummarySettles
       DEF LeaderHandles
<1>4. CASE LeaderStops
  BY <1>2, <1>4 DEF LeaderStops, StopAgent, AskRegion, AskTimesOut, OnRegionRelease, StopCompletes,
                    Terminate, Stopping, PoolInv, IdsOwned, Waiting
<1>5. ASSUME NEW r \in RegionIds, RegionHandles(r) \/ OnInternalStimulus(r) PROVE Settling'
  BY <1>2, <1>5, OnCreateSettles, OnSolutionResponseSettles, OnUpdateGlobalSummarySettles,
     NobodyStops, OnInternalStimulusSettles DEF RegionHandles
<1>6. CASE \E a \in Agents : AgentActs(a)
  BY <1>2, <1>6, UntouchedSettles
     DEF AgentActs, OnAgentStart, ProcessSolutionList, leaderVars, tableVars, boundVars
<1>7. CASE UNCHANGED vars
  BY <1>2, <1>7, UntouchedSettles DEF vars, leaderVars, tableVars, mailVars, boundVars
<1> QED  BY <1>3, <1>4, <1>5, <1>6, <1>7 DEF Next

LEMMA InitSettles == Init => InformedInv
<1> SUFFICES ASSUME Init PROVE InformedInv
  OBVIOUS
<1>1. Finishing
  BY DEF Init, Finishing
<1>2. Informed /\ Aggregated
  BY DEF Init, Informed, BoxesInform, Aggregated
<1>3. Reported
  <2>1. \A r \in RegionIds : /\ regionMail[r] = <<>> /\ regionsSummary[r] = NoSummary
                             /\ ActualSummaries[r] = NoSummary
    BY DEF Init, ActualSummaries
  <2> HIDE DEF ActualSummaries
  <2> QED  BY <2>1, TellsWhenEmpty DEF Reported
<1>4. BoxesCreateSome(regionBox) /\ HoldsSome
  BY DEF Init, BoxesCreateSome, CreatesSome, HoldsSome
<1> QED  BY <1>1, <1>2, <1>3, <1>4 DEF InformedInv, Settling, Unsplit

LEMMA InformedAlways == Spec => []InformedInv
BY InitSettles, StepSettles, PoolAlways, TypesAlways, PTL DEF Spec

(* Once nothing is under way, and nobody has stopped the simulation, every *)
(* region the leader knows holds the leader's global statistics, and until *)
(* a region splits these aggregate what the regions hold: a summary or a   *)
(* global parameter still in a mailbox is the only thing that separates    *)
(* them, whatever the order in which the leader takes its mail.            *)
THEOREM EverybodyIsInformed == Spec => []QuietMeansInformed
BY InformedAlways, InformedWhenQuiet, PoolAlways, TypesAlways, PTL
=============================================================================
