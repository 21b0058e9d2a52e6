-------------------------- MODULE BenchmarkProofs ---------------------------
(***************************************************************************)
(* For every suite, every budget and any agents: a benchmark run is a run  *)
(* of the abstract suite, and no agent that is started works on another    *)
(* problem than the benchmark.  The first argument is OneTurn, that a      *)
(* running simulation and its end never overlap, with the bookkeeping that *)
(* ties the BenchmarkActor's counter to CoCO's.  The second follows the    *)
(* turn through the mailboxes: in each a StopSimulation stands behind      *)
(* whatever it stops, so that an agent that has answered it has nothing    *)
(* left that would start it again.  Last, every variable keeps its type.   *)
(***************************************************************************)
EXTENDS Benchmark, TLAPS, SequenceTheorems

\* The types of the variables the argument reads.
Shape ==
    /\ benchmarkProblem \in 0 .. Null
    /\ runningSimulation \in BOOLEAN
    /\ evaluations \in Nat
    /\ spent \in [Problems -> Nat]
    /\ fromMain \in Nat /\ fromLeader \in Nat
    /\ leaderMail \in Seq(Messages)

\* The StartSimulation of the MainActor comes first, and once.
OneStart ==
    /\ fromMain <= 1
    /\ fromMain = 1 => benchmarkProblem = 0
    /\ benchmarkProblem = 0 => ~runningSimulation /\ ~EndUnderWay

Counts ==
    /\ benchmarkProblem \in Problems =>
         /\ spent[benchmarkProblem] = evaluations
         /\ evaluations <= EvaluationsBudget
         /\ runningSimulation => evaluations < EvaluationsBudget
    /\ \A p \in Problems : p > benchmarkProblem => spent[p] = 0

SuiteInv == Shape /\ OneTurn /\ OneStart /\ Counts

USE NumberOfProblemsAssumption, EvaluationsBudgetAssumption

-----------------------------------------------------------------------------
(* The leader's mailbox *)

LEMMA StopsAfterStart ==
    ASSUME NEW mail \in Seq(Messages), NEW p \in Problems \cup {Null}
    PROVE  /\ Append(mail, StartSimulation(p)) \in Seq(Messages)
           /\ StopsIn(Append(mail, StartSimulation(p))) = StopsIn(mail)
BY DEF StopsIn, StartSimulation, Messages

LEMMA StopsAfterStop ==
    ASSUME NEW mail \in Seq(Messages)
    PROVE  /\ Append(mail, StopSimulation) \in Seq(Messages)
           /\ StopsIn(Append(mail, StopSimulation)) = StopsIn(mail) \cup {Len(mail) + 1}
BY DEF StopsIn, StopSimulation, Messages

LEMMA StopsAfterTaking ==
    ASSUME NEW mail \in Seq(Messages), mail # <<>>
    PROVE  /\ Tail(mail) \in Seq(Messages)
           /\ \A i : i \in StopsIn(Tail(mail)) => i + 1 \in StopsIn(mail) /\ i \in Nat \ {0}
           /\ Head(mail).type = "StopSimulation" => 1 \in StopsIn(mail)
BY DEF StopsIn

-----------------------------------------------------------------------------
(* Init and the steps *)

LEMMA InitSuiteInv == Init => SuiteInv /\ Suite!Init
<1> SUFFICES ASSUME Init PROVE SuiteInv /\ Suite!Init
  OBVIOUS
<1>1. StopsIn(leaderMail) = {}
  BY DEF Init, StopsIn
<1>2. ~EndUnderWay
  BY <1>1 DEF Init, EndUnderWay
<1>3. 0 \notin Problems
  BY DEF Problems
<1>4. Shape
  <2>1. leaderMail \in Seq(Messages)
    BY EmptySeq DEF Init
  <2>2. 0 \in 0 .. Null
    BY DEF Null
  <2>3. spent \in [Problems -> Nat]
    BY DEF Init
  <2> QED
    BY <2>1, <2>2, <2>3 DEF Init, Shape
<1>5. OneTurn
  BY <1>1, <1>2 DEF Init, OneTurn
<1>6. OneStart
  BY <1>2 DEF Init, OneStart
<1>7. Counts
  BY <1>3 DEF Init, Counts
<1>8. Suite!Init
  BY DEF Init, Suite!Init, Problems, Suite!Problems
<1> QED
  BY <1>4, <1>5, <1>6, <1>7, <1>8 DEF SuiteInv

\* The step to the next problem is the only one the abstract suite takes, and
\* the evaluation of a running simulation the other.
LEMMA StartBenchmarkSuite ==
    ASSUME SuiteInv, StartBenchmark
    PROVE  SuiteInv' /\ Suite!NextProblem
<1>1. fromMain = 1 /\ fromMain' = 0 /\ benchmarkProblem = 0 /\ benchmarkProblem' = 1
  BY DEF SuiteInv, Shape, OneStart, StartBenchmark, TakeNextProblem, Null
<1>2. ~runningSimulation /\ ~EndUnderWay
  BY <1>1 DEF SuiteInv, OneStart
<1>3. /\ leaderMail' \in Seq(Messages)
      /\ StopsIn(leaderMail') = {}
  <2>1. StopsIn(leaderMail) = {} /\ leaderMail \in Seq(Messages)
    BY <1>2 DEF EndUnderWay, SuiteInv, Shape
  <2>2. benchmarkProblem' \in Problems \cup {Null}
    BY <1>1 DEF Problems, Null
  <2> QED
    BY <2>1, <2>2, StopsAfterStart DEF StartBenchmark, StartSimulationOfBenchmark
<1>4. leader' = leader /\ fromLeader' = fromLeader /\ evaluations' = 0 /\ spent' = spent
  BY DEF StartBenchmark, TakeNextProblem, leaderVars
<1>5. ~EndUnderWay'
  BY <1>2, <1>3, <1>4 DEF EndUnderWay
<1>6. Shape'
  <2>1. runningSimulation' \in BOOLEAN
    BY DEF SuiteInv, Shape, StartBenchmark, StartSimulationOfBenchmark
  <2>2. 1 \in 0 .. Null
    BY DEF Null
  <2> QED
    BY <1>1, <1>3, <1>4, <2>1, <2>2 DEF SuiteInv, Shape
<1>7. OneTurn'
  BY <1>3, <1>4, <1>5, <1>6 DEF OneTurn, EndUnderWay, Shape
<1>8. OneStart'
  BY <1>1 DEF OneStart
<1>9. Counts'
  BY <1>1, <1>4 DEF SuiteInv, Shape, Counts, Problems
<1>10. Suite!NextProblem
  BY <1>1, <1>4 DEF Suite!NextProblem, Suite!Problems
<1> QED
  BY <1>6, <1>7, <1>8, <1>9, <1>10 DEF SuiteInv

LEMMA HandleSimulationEndSuite ==
    ASSUME SuiteInv, HandleSimulationEnd
    PROVE  SuiteInv' /\ Suite!NextProblem
<1>1. fromLeader = 1 /\ fromLeader' = 0 /\ EndUnderWay
  BY DEF SuiteInv, Shape, OneTurn, EndUnderWay, HandleSimulationEnd
<1>2. /\ ~runningSimulation
      /\ benchmarkProblem \in Problems
      /\ evaluations = EvaluationsBudget
      /\ StopsIn(leaderMail) = {} /\ leader # "stopping"
  BY <1>1 DEF SuiteInv, OneTurn
<1>3. benchmarkProblem' = benchmarkProblem + 1 /\ benchmarkProblem' \in Problems \cup {Null}
  BY <1>2 DEF HandleSimulationEnd, TakeNextProblem, Problems, Null
<1>4. /\ leaderMail' \in Seq(Messages)
      /\ StopsIn(leaderMail') = {}
  BY <1>2, <1>3, StopsAfterStart
     DEF SuiteInv, Shape, HandleSimulationEnd, StartSimulationOfBenchmark
<1>5. /\ leader' = leader /\ fromMain' = fromMain
      /\ evaluations' = 0 /\ spent' = spent /\ runningSimulation' = TRUE
  BY <1>2 DEF HandleSimulationEnd, TakeNextProblem, StartSimulationOfBenchmark, leaderVars
<1>6. ~EndUnderWay'
  BY <1>1, <1>2, <1>4, <1>5 DEF EndUnderWay
<1>7. Shape'
  BY <1>1, <1>3, <1>4, <1>5 DEF SuiteInv, Shape, Null, Problems
<1>8. OneTurn'
  BY <1>1, <1>4, <1>6 DEF OneTurn
<1>9. OneStart'
  BY <1>2, <1>3, <1>5 DEF SuiteInv, OneStart, Problems
<1>10. Counts'
  BY <1>2, <1>3, <1>5 DEF SuiteInv, Shape, Counts, Problems
<1>11. Suite!NextProblem
  BY <1>2, <1>3, <1>5 DEF SuiteInv, Counts, Suite!NextProblem, Suite!Problems, Problems
<1> QED
  BY <1>7, <1>8, <1>9, <1>10, <1>11 DEF SuiteInv

\* What the abstract suite and its invariant are about.
suiteVars == <<benchmarkVars, leader, fromMain, fromLeader, leaderMail>>

LEMMA Untouched ==
    ASSUME SuiteInv, UNCHANGED suiteVars
    PROVE  SuiteInv' /\ UNCHANGED <<benchmarkProblem, spent>>
BY DEF SuiteInv, Shape, OneTurn, OneStart, Counts, EndUnderWay, suiteVars, benchmarkVars

LEMMA HandleEvaluateSuite ==
    ASSUME SuiteInv, NEW a \in Agents, HandleEvaluate(a)
    PROVE  SuiteInv' /\ (Suite!Evaluate \/ UNCHANGED <<benchmarkProblem, spent>>)
<1>1. leader' = leader /\ fromLeader' = fromLeader /\ fromMain' = fromMain
  BY DEF HandleEvaluate, leaderVars
<1>2. CASE UNCHANGED benchmarkVars /\ UNCHANGED leaderMail
  BY <1>1, <1>2, Untouched DEF suiteVars
<1>3. CASE /\ runningSimulation /\ benchmarkProblem \in Problems
           /\ spent' = [spent EXCEPT ![benchmarkProblem] = @ + 1]
           /\ evaluations' = evaluations + 1
           /\ CheckStopCondition
           /\ UNCHANGED benchmarkProblem
  <2>1. /\ evaluations \in Nat /\ spent \in [Problems -> Nat] /\ leaderMail \in Seq(Messages)
        /\ spent[benchmarkProblem] = evaluations
        /\ evaluations < EvaluationsBudget
        /\ StopsIn(leaderMail) = {} /\ leader # "stopping" /\ fromLeader = 0
    BY <1>3 DEF SuiteInv, Shape, Counts, OneTurn, EndUnderWay
  <2>2. Suite!Evaluate
    BY <1>3, <2>1 DEF Suite!Evaluate, Suite!Problems, Problems
  <2>3. OneStart'
    BY <1>1, <1>3 DEF SuiteInv, OneStart, Problems
  <2>4. Counts' <=> /\ evaluations' <= EvaluationsBudget
                    /\ runningSimulation' => evaluations' < EvaluationsBudget
    BY <1>3, <2>1 DEF SuiteInv, Shape, Counts, Problems
  <2>5. CASE evaluations' = EvaluationsBudget
    <3>1. runningSimulation' = FALSE /\ leaderMail' = Append(leaderMail, StopSimulation)
      BY <1>3, <2>5 DEF CheckStopCondition
    <3>2. leaderMail' \in Seq(Messages) /\ StopsIn(leaderMail') = {Len(leaderMail) + 1}
      BY <2>1, <3>1, StopsAfterStop
    <3>3. Shape'
      <4>1. spent' \in [Problems -> Nat] /\ evaluations' \in Nat
        BY <1>3, <2>1
      <4> QED
        BY <1>1, <1>3, <3>1, <3>2, <4>1 DEF SuiteInv, Shape
    <3>4. OneTurn'
      BY <1>1, <1>3, <2>1, <2>5, <3>1, <3>2 DEF OneTurn, EndUnderWay
    <3>5. Counts'
      BY <2>4, <2>5, <3>1, EvaluationsBudgetAssumption
    <3> QED
      BY <2>2, <2>3, <3>3, <3>4, <3>5 DEF SuiteInv
  <2>6. CASE evaluations' # EvaluationsBudget
    <3>1. UNCHANGED <<runningSimulation, leaderMail>>
      BY <1>3, <2>6 DEF CheckStopCondition
    <3>2. Shape'
      BY <1>1, <1>3, <2>1, <3>1 DEF SuiteInv, Shape
    <3>3. ~EndUnderWay' /\ OneTurn'
      BY <1>1, <2>1, <3>1 DEF OneTurn, EndUnderWay
    <3>4. Counts'
      BY <1>3, <2>1, <2>4, <2>6
    <3> QED
      BY <2>2, <2>3, <3>2, <3>3, <3>4 DEF SuiteInv
  <2> QED
    BY <2>5, <2>6
<1> QED
  BY <1>2, <1>3 DEF HandleEvaluate

-----------------------------------------------------------------------------
(* The leader hands the end on. *)

LEMMA OnStopSimulationSuite ==
    ASSUME SuiteInv, OnStopSimulation
    PROVE  SuiteInv' /\ UNCHANGED <<benchmarkProblem, spent>>
<1>1. leaderMail \in Seq(Messages) /\ leaderMail # <<>> /\ leaderMail' = Tail(leaderMail)
  BY DEF SuiteInv, Shape, OnStopSimulation, Takes
<1>2. 1 \in StopsIn(leaderMail)
  BY <1>1, StopsAfterTaking DEF OnStopSimulation, Takes
<1>3. EndUnderWay /\ ~runningSimulation /\ fromLeader = 0
  BY <1>2 DEF SuiteInv, OneTurn, EndUnderWay
<1>4. \A i \in StopsIn(leaderMail) : i = 1
  BY <1>2 DEF SuiteInv, OneTurn
<1>5. leaderMail' \in Seq(Messages) /\ StopsIn(leaderMail') = {}
  <2>1. ASSUME NEW i, i \in StopsIn(leaderMail') PROVE FALSE
    BY <1>1, <1>4, <2>1, StopsAfterTaking
  <2> QED
    BY <1>1, <2>1, StopsAfterTaking
<1>6. UNCHANGED <<benchmarkVars, fromMain, fromLeader>>
  BY DEF OnStopSimulation
<1>7. Shape'
  BY <1>5, <1>6 DEF SuiteInv, Shape, benchmarkVars
<1>8. OneTurn'
  BY <1>3, <1>5, <1>6 DEF SuiteInv, OneTurn, benchmarkVars
<1>9. OneStart' /\ Counts'
  BY <1>3, <1>6 DEF SuiteInv, OneStart, Counts, benchmarkVars
<1> QED
  BY <1>6, <1>7, <1>8, <1>9 DEF SuiteInv, benchmarkVars

LEMMA OnStartSimulationSuite ==
    ASSUME SuiteInv, OnStartSimulation
    PROVE  SuiteInv' /\ UNCHANGED <<benchmarkProblem, spent>>
<1>1. leaderMail \in Seq(Messages) /\ leaderMail # <<>> /\ leaderMail' = Tail(leaderMail)
  BY DEF SuiteInv, Shape, OnStartSimulation, Takes
<1>2. /\ leaderMail' \in Seq(Messages)
      /\ \A i : i \in StopsIn(leaderMail') => i + 1 \in StopsIn(leaderMail) /\ i \in Nat
  BY <1>1, StopsAfterTaking
<1>3. UNCHANGED <<benchmarkVars, leader, fromMain, fromLeader>>
  BY DEF OnStartSimulation
<1>4. StopsIn(leaderMail') # {} => StopsIn(leaderMail) # {}
  BY <1>2
<1>5. EndUnderWay' => EndUnderWay
  BY <1>3, <1>4 DEF EndUnderWay
<1>6. \A i, j \in StopsIn(leaderMail') : i = j
  BY <1>2 DEF SuiteInv, OneTurn
<1>7. Shape'
  BY <1>2, <1>3 DEF SuiteInv, Shape, benchmarkVars
<1>8. OneTurn'
  BY <1>3, <1>4, <1>5, <1>6 DEF SuiteInv, OneTurn, benchmarkVars
<1>9. OneStart' /\ Counts'
  BY <1>3, <1>5 DEF SuiteInv, OneStart, Counts, benchmarkVars
<1> QED
  BY <1>3, <1>7, <1>8, <1>9 DEF SuiteInv, benchmarkVars

LEMMA SimulationStopsSuite ==
    ASSUME SuiteInv, SimulationStops
    PROVE  SuiteInv' /\ UNCHANGED <<benchmarkProblem, spent>>
<1>1. /\ leader = "stopping" /\ leader' = "up"
      /\ fromLeader' = fromLeader + 1
      /\ UNCHANGED <<benchmarkVars, fromMain, leaderMail>>
  BY DEF SimulationStops, AgentsStopped
<1>2. EndUnderWay /\ fromLeader = 0 /\ StopsIn(leaderMail) = {}
  BY <1>1 DEF SuiteInv, OneTurn, EndUnderWay
<1>3. Shape'
  BY <1>1, <1>2 DEF SuiteInv, Shape, benchmarkVars
<1>4. OneTurn'
  BY <1>1, <1>2 DEF SuiteInv, OneTurn, benchmarkVars
<1>5. OneStart' /\ Counts'
  BY <1>1, <1>2 DEF SuiteInv, OneStart, Counts, benchmarkVars
<1> QED
  BY <1>1, <1>3, <1>4, <1>5 DEF SuiteInv, benchmarkVars

LEMMA AskTimesOutSuite ==
    ASSUME SuiteInv, AskTimesOut
    PROVE  SuiteInv' /\ UNCHANGED <<benchmarkProblem, spent>>
<1>1. leader' = "failed" /\ UNCHANGED <<benchmarkVars, fromMain, fromLeader, leaderMail>>
  BY DEF AskTimesOut, mailVars
<1>2. EndUnderWay' => EndUnderWay
  BY <1>1 DEF EndUnderWay
<1> QED
  BY <1>1, <1>2 DEF SuiteInv, Shape, OneTurn, OneStart, Counts, benchmarkVars

-----------------------------------------------------------------------------
(* Every step *)

LEMMA StepSuite ==
    ASSUME SuiteInv, [Next]_vars
    PROVE  SuiteInv' /\ [Suite!Next]_<<benchmarkProblem, spent>>
<1> DEFINE Stutters == UNCHANGED <<benchmarkProblem, spent>>
<1>1. CASE StartBenchmark
  BY <1>1, StartBenchmarkSuite DEF Suite!Next
<1>2. CASE HandleSimulationEnd
  BY <1>2, HandleSimulationEndSuite DEF Suite!Next
<1>3. CASE \E a \in Agents : HandleEvaluate(a)
  BY <1>3, HandleEvaluateSuite DEF Suite!Next
<1>4. CASE OnStartSimulation
  BY <1>4, OnStartSimulationSuite
<1>5. CASE OnStopSimulation
  BY <1>5, OnStopSimulationSuite
<1>6. CASE AskNextAgent
  BY <1>6, Untouched DEF AskNextAgent, suiteVars
<1>7. CASE SimulationStops
  BY <1>7, SimulationStopsSuite
<1>8. CASE AskTimesOut
  BY <1>8, AskTimesOutSuite
<1>9. CASE \E a \in Agents : AgentActs(a)
  <2>1. UNCHANGED suiteVars
    BY <1>9 DEF AgentActs, OnStartAgent, OnStopAgent, OnInternalStimulus, OnSolutionResponse,
                EvaluateNext, EndHeuristic, suiteVars, leaderVars, mailVars
  <2> QED
    BY <2>1, Untouched
<1>10. CASE UNCHANGED vars
  BY <1>10, Untouched DEF vars, suiteVars, leaderVars, mailVars
<1> QED
  BY <1>1, <1>2, <1>3, <1>4, <1>5, <1>6, <1>7, <1>8, <1>9, <1>10
     DEF Next, BenchmarkActs, LeaderActs

(* A simulation and its end never overlap, and no end is announced twice: *)
(* what checkStopCondition, the leader and handleSimulationEnd hand on is *)
(* one turn, for every suite and any number of agents.                    *)
THEOREM AlwaysOneTurn == Spec => []OneTurn
<1>1. SuiteInv /\ [Next]_vars => SuiteInv'
  BY StepSuite
<1>2. SuiteInv => OneTurn
  BY DEF SuiteInv
<1> QED
  BY InitSuiteInv, <1>1, <1>2, PTL DEF Spec

(* The run implements the suite: every problem gets its evaluations, and  *)
(* no more, before nextProblem takes the next.                            *)
THEOREM BenchmarkImplementsSuite == Spec => ImplementsSuite
<1>1. SuiteInv /\ [Next]_vars => SuiteInv' /\ [Suite!Next]_<<benchmarkProblem, spent>>
  BY StepSuite
<1> QED
  BY InitSuiteInv, <1>1, PTL DEF Spec, ImplementsSuite, Suite!Spec

-----------------------------------------------------------------------------
(* The agents *)

Notes == [type : {"StartSimulation", "StopSimulation"}, problem : Nat]

NoStart(mail) == \A i \in DOMAIN mail : mail[i].type # "StartSimulation"
OnlyStarts(mail, p) ==
    \A i \in DOMAIN mail : mail[i].type = "StartSimulation" => mail[i].problem = p
StopLast(mail) == \A i \in StopsIn(mail) : i = Len(mail)

Quiet(a) == ~agentStarted[a] /\ NoStart(agentMail[a])
AllQuiet == NoStart(leaderMail) /\ \A a \in Agents : Quiet(a)

\* The types of the leader's and the agents' variables.
AgentShape ==
    /\ problem \in Nat
    /\ replied \in BOOLEAN
    /\ agentProblem \in [Agents -> Nat]
    /\ agentStarted \in [Agents -> BOOLEAN]
    /\ agentMail \in [Agents -> Seq(Notes)]

\* Whatever starts an agent, and whatever has, is of the current problem.
OneProblem ==
    benchmarkProblem \in Problems =>
        /\ OnlyStarts(leaderMail, benchmarkProblem)
        /\ \A a \in Agents : /\ OnlyStarts(agentMail[a], benchmarkProblem)
                             /\ agentStarted[a] => agentProblem[a] = benchmarkProblem

\* While the leader stops the agents: those before the one it asks are quiet,
\* that one has the stop at the end of its mail, or is quiet as well.
StopInOrder ==
    leader = "stopping" =>
        /\ asked \in Agents
        /\ NoStart(leaderMail)
        /\ \A a \in Agents : a < asked => Quiet(a)
        /\ \A a \in Agents : a # asked \/ replied => StopsIn(agentMail[a]) = {}
        /\ replied => Quiet(asked)
        /\ ~replied => StopsIn(agentMail[asked]) = {Len(agentMail[asked])}

StopsAreLast ==
    /\ StopLast(leaderMail)
    /\ leader = "up" => \A a \in Agents : StopsIn(agentMail[a]) = {}
    /\ leader = "failed" => fromLeader = 0

\* Before the first problem, and between two of them.
QuietBetween == benchmarkProblem = 0 \/ fromLeader > 0 => AllQuiet

AgentsInv == AgentShape /\ OneProblem /\ StopInOrder /\ StopsAreLast /\ QuietBetween

USE NumberOfProblemsAssumption, NumberOfAgentsAssumption

-----------------------------------------------------------------------------
(* Mailboxes *)

LEMMA MessagesAreNotes == Messages \subseteq Notes /\ \A mail \in Seq(Messages) : mail \in Seq(Notes)
<1>1. Messages \subseteq Notes
  BY DEF Messages, Notes, Problems, Null
<1>2. ASSUME NEW mail \in Seq(Messages) PROVE mail \in Seq(Notes)
  BY <1>1
<1> QED
  BY <1>1, <1>2

LEMMA StartAppended ==
    ASSUME NEW mail \in Seq(Notes), NEW p \in Nat
    PROVE  /\ Append(mail, StartSimulation(p)) \in Seq(Notes)
           /\ StopsIn(Append(mail, StartSimulation(p))) = StopsIn(mail)
           /\ OnlyStarts(mail, p) => OnlyStarts(Append(mail, StartSimulation(p)), p)
<1>1. StartSimulation(p) \in Notes
  BY DEF StartSimulation, Notes
<1> QED
  BY <1>1 DEF StopsIn, OnlyStarts, StartSimulation

LEMMA StopAppended ==
    ASSUME NEW mail \in Seq(Notes)
    PROVE  /\ Append(mail, StopSimulation) \in Seq(Notes)
           /\ StopsIn(Append(mail, StopSimulation)) = StopsIn(mail) \cup {Len(mail) + 1}
           /\ Len(Append(mail, StopSimulation)) = Len(mail) + 1
           /\ NoStart(mail) => NoStart(Append(mail, StopSimulation))
           /\ \A p : OnlyStarts(mail, p) => OnlyStarts(Append(mail, StopSimulation), p)
<1>1. StopSimulation \in Notes
  BY DEF StopSimulation, Notes, Null, Problems
<1> QED
  BY <1>1 DEF StopsIn, NoStart, OnlyStarts, StopSimulation

LEMMA Taken ==
    ASSUME NEW mail \in Seq(Notes), mail # <<>>
    PROVE  /\ Tail(mail) \in Seq(Notes)
           /\ NoStart(mail) => NoStart(Tail(mail)) /\ Head(mail).type # "StartSimulation"
           /\ \A p : OnlyStarts(mail, p) => OnlyStarts(Tail(mail), p)
           /\ StopsIn(mail) = {} => StopsIn(Tail(mail)) = {} /\ Head(mail).type # "StopSimulation"
           /\ StopLast(mail) => StopLast(Tail(mail))
           /\ StopLast(mail) /\ Head(mail).type = "StopSimulation" => Tail(mail) = <<>>
           /\ StopsIn(mail) = {Len(mail)} /\ Head(mail).type = "StartSimulation" =>
                StopsIn(Tail(mail)) = {Len(Tail(mail))}
<1>1. /\ Tail(mail) \in Seq(Notes) /\ Len(Tail(mail)) = Len(mail) - 1
      /\ Len(mail) \in Nat \ {0} /\ Head(mail) = mail[1]
      /\ \A i \in 1 .. Len(mail) - 1 : Tail(mail)[i] = mail[i + 1]
  OBVIOUS
<1>2. DOMAIN mail = 1 .. Len(mail) /\ DOMAIN Tail(mail) = 1 .. Len(mail) - 1
  BY <1>1
<1>3. NoStart(mail) => NoStart(Tail(mail)) /\ Head(mail).type # "StartSimulation"
  BY <1>1, <1>2 DEF NoStart
<1>4. \A p : OnlyStarts(mail, p) => OnlyStarts(Tail(mail), p)
  BY <1>1, <1>2 DEF OnlyStarts
<1>5. \A i : i \in StopsIn(Tail(mail)) <=> i \in 1 .. Len(mail) - 1 /\ i + 1 \in StopsIn(mail)
  BY <1>1, <1>2 DEF StopsIn
<1>6. 1 \in StopsIn(mail) <=> Head(mail).type = "StopSimulation"
  BY <1>1, <1>2 DEF StopsIn
<1>7. StopsIn(mail) = {} => StopsIn(Tail(mail)) = {} /\ Head(mail).type # "StopSimulation"
  BY <1>5, <1>6
<1>8. StopLast(mail) => StopLast(Tail(mail))
  BY <1>1, <1>5 DEF StopLast
<1>9. StopLast(mail) /\ Head(mail).type = "StopSimulation" => Tail(mail) = <<>>
  BY <1>1, <1>6 DEF StopLast
<1>10. ASSUME StopsIn(mail) = {Len(mail)}, Head(mail).type = "StartSimulation"
       PROVE  StopsIn(Tail(mail)) = {Len(Tail(mail))}
  <2>1. Len(mail) # 1
    BY <1>1, <1>6, <1>10
  <2> QED
    BY <1>1, <1>5, <1>10, <2>1
<1> QED
  BY <1>1, <1>3, <1>4, <1>7, <1>8, <1>9, <1>10

\* An empty mailbox holds neither.
LEMMA EmptyMail == NoStart(<<>>) /\ StopsIn(<<>>) = {}
BY DEF NoStart, StopsIn

-----------------------------------------------------------------------------
(* Init and the steps *)

LEMMA InitAgents == Init => AgentsInv
<1> SUFFICES ASSUME Init PROVE AgentsInv
  OBVIOUS
<1>1. AllQuiet
  BY EmptyMail DEF Init, AllQuiet, Quiet
<1>2. AgentShape
  <2>1. <<>> \in Seq(Notes)
    BY EmptySeq
  <2> QED
    BY <2>1 DEF Init, AgentShape
<1>3. OneProblem /\ StopInOrder /\ QuietBetween
  BY <1>1 DEF Init, OneProblem, StopInOrder, QuietBetween, Problems
<1>4. StopsAreLast
  BY EmptyMail DEF Init, StopsAreLast, StopLast
<1> QED
  BY <1>2, <1>3, <1>4 DEF AgentsInv

\* The next problem is taken when everybody is quiet.
LEMMA TakeNextProblemAgents ==
    ASSUME SuiteInv, AgentsInv, AllQuiet, StopsIn(leaderMail) = {},
           leader # "stopping",
           benchmarkProblem' \in Problems \cup {Null}, benchmarkProblem' # 0,
           \/ leaderMail' = leaderMail
           \/ leaderMail' = Append(leaderMail, StartSimulation(benchmarkProblem')),
           UNCHANGED <<leaderVars, agentVars, agentMail>>, fromLeader' = 0
    PROVE  AgentsInv'
<1>1. leaderMail \in Seq(Notes)
  BY MessagesAreNotes DEF SuiteInv, Shape
<1>2. benchmarkProblem' \in Nat
  BY DEF Problems, Null
<1>3. OnlyStarts(leaderMail, benchmarkProblem')
  BY DEF AllQuiet, NoStart, OnlyStarts
<1>4. StopsIn(leaderMail') = {} /\ OnlyStarts(leaderMail', benchmarkProblem')
  BY <1>1, <1>2, <1>3, StartAppended
<1>5. \A a \in Agents : ~agentStarted[a] /\ NoStart(agentMail[a])
  BY DEF AllQuiet, Quiet
<1>6. OneProblem'
  BY <1>4, <1>5 DEF OneProblem, agentVars, OnlyStarts, NoStart
<1>7. AgentShape' /\ StopInOrder'
  BY DEF AgentsInv, AgentShape, StopInOrder, leaderVars, agentVars
<1>8. StopsAreLast'
  BY <1>4 DEF AgentsInv, StopsAreLast, StopLast, leaderVars
<1>9. QuietBetween'
  BY DEF QuietBetween
<1> QED
  BY <1>6, <1>7, <1>8, <1>9 DEF AgentsInv

LEMMA StartBenchmarkAgents ==
    ASSUME SuiteInv, AgentsInv, StartBenchmark PROVE AgentsInv'
<1>1. fromMain = 1 /\ benchmarkProblem = 0 /\ benchmarkProblem' = 1
  BY DEF SuiteInv, Shape, OneStart, StartBenchmark, TakeNextProblem, Null
<1>2. ~EndUnderWay
  BY <1>1 DEF SuiteInv, OneStart
<1>3. AllQuiet
  BY <1>1 DEF AgentsInv, QuietBetween
<1>4. 1 \in Problems \cup {Null}
  BY DEF Problems, Null
<1>5. fromLeader' = 0
  BY <1>2 DEF EndUnderWay, StartBenchmark, SuiteInv, Shape
<1> QED
  BY <1>1, <1>2, <1>3, <1>4, <1>5, TakeNextProblemAgents
     DEF StartBenchmark, StartSimulationOfBenchmark, EndUnderWay

LEMMA HandleSimulationEndAgents ==
    ASSUME SuiteInv, AgentsInv, HandleSimulationEnd PROVE AgentsInv'
<1>1. fromLeader = 1 /\ fromLeader' = 0
  BY DEF HandleSimulationEnd, SuiteInv, Shape, OneTurn
<1>2. benchmarkProblem \in Problems
  BY <1>1 DEF SuiteInv, OneTurn, EndUnderWay
<1>3. benchmarkProblem' \in Problems \cup {Null} /\ benchmarkProblem' # 0
  BY <1>2 DEF HandleSimulationEnd, TakeNextProblem, Problems, Null
<1>4. StopsIn(leaderMail) = {} /\ leader # "stopping"
  BY <1>1 DEF SuiteInv, OneTurn
<1>5. AllQuiet
  BY <1>1 DEF AgentsInv, QuietBetween
<1> QED
  BY <1>1, <1>3, <1>4, <1>5, TakeNextProblemAgents
     DEF HandleSimulationEnd, StartSimulationOfBenchmark

LEMMA HandleEvaluateAgents ==
    ASSUME SuiteInv, AgentsInv, NEW a \in Agents, HandleEvaluate(a) PROVE AgentsInv'
<1>1. /\ UNCHANGED <<leaderVars, agentProblem, agentStarted, fromLeader, agentMail>>
      /\ benchmarkProblem' = benchmarkProblem
  BY DEF HandleEvaluate, benchmarkVars
<1>2. CASE leaderMail' = leaderMail
  BY <1>1, <1>2 DEF AgentsInv, AgentShape, OneProblem, StopInOrder, StopsAreLast, QuietBetween,
                    AllQuiet, Quiet, leaderVars
<1>3. CASE leaderMail' = Append(leaderMail, StopSimulation) /\ runningSimulation
  <2>1. ~EndUnderWay /\ benchmarkProblem # 0
    BY <1>3 DEF SuiteInv, OneTurn, OneStart
  <2>2. leaderMail \in Seq(Notes) /\ StopsIn(leaderMail) = {} /\ leader # "stopping" /\ fromLeader = 0
    BY <2>1, MessagesAreNotes DEF SuiteInv, Shape, EndUnderWay
  <2>3. StopLast(leaderMail')
    BY <1>3, <2>2, StopAppended DEF StopLast
  <2>4. OneProblem'
    BY <1>1, <1>3, <2>2, StopAppended DEF AgentsInv, OneProblem
  <2>5. AgentShape' /\ StopInOrder' /\ StopsAreLast' /\ QuietBetween'
    BY <1>1, <2>1, <2>2, <2>3
       DEF AgentsInv, AgentShape, StopInOrder, StopsAreLast, QuietBetween, leaderVars
  <2> QED
    BY <2>4, <2>5 DEF AgentsInv
<1> QED
  BY <1>2, <1>3 DEF HandleEvaluate, CheckStopCondition

-----------------------------------------------------------------------------
(* The leader *)

LEMMA OnStartSimulationAgents ==
    ASSUME SuiteInv, AgentsInv, OnStartSimulation PROVE AgentsInv'
<1>1. /\ leader = "up" /\ leaderMail \in Seq(Notes) /\ leaderMail # <<>>
      /\ Head(leaderMail).type = "StartSimulation" /\ leaderMail' = Tail(leaderMail)
      /\ UNCHANGED <<benchmarkVars, leader, asked, replied, agentVars, fromLeader>>
  BY MessagesAreNotes DEF SuiteInv, Shape, OnStartSimulation, Takes
<1>2. ~AllQuiet
  BY <1>1, Taken DEF AllQuiet
<1>3. benchmarkProblem # 0 /\ ~(fromLeader > 0)
  BY <1>2 DEF AgentsInv, QuietBetween
<1>4. problem' \in Nat
  <2>1. Head(leaderMail) \in Notes
    BY <1>1
  <2> QED
    BY <2>1 DEF OnStartSimulation, ProblemAfter, AgentsInv, AgentShape, Notes
<1>5. \A a \in Agents : /\ agentMail[a] \in Seq(Notes)
                        /\ agentMail'[a] = Append(agentMail[a], StartSimulation(problem'))
  BY DEF OnStartSimulation, AgentsInv, AgentShape
<1>6. AgentShape'
  <2>1. \A a \in Agents : Append(agentMail[a], StartSimulation(problem')) \in Seq(Notes)
    BY <1>4, <1>5, StartAppended
  <2>2. agentMail' \in [Agents -> Seq(Notes)]
    BY <2>1 DEF OnStartSimulation
  <2> QED
    BY <1>1, <1>4, <2>2 DEF AgentsInv, AgentShape, agentVars
<1>7. OneProblem'
  <2> SUFFICES ASSUME benchmarkProblem \in Problems PROVE OneProblem'
    BY <1>1 DEF OneProblem, benchmarkVars
  <2>1. OnlyStarts(leaderMail, benchmarkProblem)
    BY DEF AgentsInv, OneProblem
  <2>2. Head(leaderMail).problem = benchmarkProblem
    BY <1>1, <2>1 DEF OnlyStarts
  <2>3. problem' = benchmarkProblem
    BY <2>2 DEF OnStartSimulation, ProblemAfter, Problems, Null
  <2>4. \A a \in Agents : OnlyStarts(agentMail'[a], benchmarkProblem)
    BY <1>4, <1>5, <2>3, StartAppended DEF AgentsInv, OneProblem
  <2>5. OnlyStarts(leaderMail', benchmarkProblem)
    BY <1>1, <2>1, Taken
  <2> QED
    BY <1>1, <2>4, <2>5 DEF AgentsInv, OneProblem, benchmarkVars, agentVars
<1>8. StopsAreLast'
  <2>1. \A a \in Agents : StopsIn(agentMail'[a]) = {}
    <3> TAKE a \in Agents
    <3>1. StopsIn(agentMail[a]) = {}
      BY <1>1 DEF AgentsInv, StopsAreLast
    <3>2. StopsIn(Append(agentMail[a], StartSimulation(problem'))) = StopsIn(agentMail[a])
      BY <1>4, <1>5, StartAppended
    <3> QED
      BY <1>5, <3>1, <3>2
  <2>2. StopLast(leaderMail')
    BY <1>1, Taken DEF AgentsInv, StopsAreLast
  <2> QED
    BY <1>1, <2>1, <2>2 DEF StopsAreLast
<1>9. StopInOrder' /\ QuietBetween'
  BY <1>1, <1>3 DEF StopInOrder, QuietBetween, benchmarkVars
<1> QED
  BY <1>6, <1>7, <1>8, <1>9 DEF AgentsInv

\* What asking an agent to stop does to the mailboxes.
LEMMA AskedToStop ==
    ASSUME AgentShape, NEW a \in Agents, AskToStop(a), UNCHANGED agentVars
    PROVE  /\ agentMail' \in [Agents -> Seq(Notes)]
           /\ asked' = a /\ ~replied' /\ replied' \in BOOLEAN
           /\ \A b \in Agents : /\ Quiet(b) => Quiet(b)'
                                /\ b # a => StopsIn(agentMail'[b]) = StopsIn(agentMail[b])
                                /\ \A p : OnlyStarts(agentMail[b], p) => OnlyStarts(agentMail'[b], p)
           /\ StopsIn(agentMail[a]) = {} => StopsIn(agentMail'[a]) = {Len(agentMail'[a])}
<1>1. /\ agentMail' = [agentMail EXCEPT ![a] = Append(agentMail[a], StopSimulation)]
      /\ asked' = a /\ replied' = FALSE
  BY DEF AskToStop
<1>2. \A b \in Agents : agentMail[b] \in Seq(Notes)
  BY DEF AgentShape
<1>3. /\ agentMail'[a] = Append(agentMail[a], StopSimulation)
      /\ \A b \in Agents : b # a => agentMail'[b] = agentMail[b]
  BY <1>1 DEF AgentShape
<1>4. agentMail' \in [Agents -> Seq(Notes)]
  BY <1>1, <1>2, StopAppended DEF AgentShape
<1>5. ASSUME NEW b \in Agents
      PROVE  /\ Quiet(b) => Quiet(b)'
             /\ b # a => StopsIn(agentMail'[b]) = StopsIn(agentMail[b])
             /\ \A p : OnlyStarts(agentMail[b], p) => OnlyStarts(agentMail'[b], p)
  BY <1>2, <1>3, StopAppended DEF Quiet, agentVars
<1>6. StopsIn(agentMail[a]) = {} => StopsIn(agentMail'[a]) = {Len(agentMail'[a])}
  BY <1>2, <1>3, StopAppended
<1> QED
  BY <1>1, <1>4, <1>5, <1>6

LEMMA OnStopSimulationAgents ==
    ASSUME SuiteInv, AgentsInv, OnStopSimulation PROVE AgentsInv'
<1>1. /\ leader = "up" /\ leader' = "stopping" /\ AskToStop(1)
      /\ leaderMail \in Seq(Notes) /\ leaderMail # <<>>
      /\ Head(leaderMail).type = "StopSimulation" /\ leaderMail' = Tail(leaderMail)
      /\ UNCHANGED <<benchmarkVars, problem, agentVars, fromLeader>>
  BY MessagesAreNotes DEF SuiteInv, Shape, OnStopSimulation, Takes
<1>2. leaderMail' = <<>>
  BY <1>1, Taken DEF AgentsInv, StopsAreLast
<1>3. EndUnderWay /\ fromLeader = 0
  <2>1. leaderMail \in Seq(Messages)
    BY DEF SuiteInv, Shape
  <2>2. 1 \in StopsIn(leaderMail)
    BY <1>1, <2>1, StopsAfterTaking
  <2> QED
    BY <2>2 DEF SuiteInv, OneTurn, EndUnderWay
<1>4. benchmarkProblem # 0
  BY <1>3 DEF SuiteInv, OneTurn, Problems
<1>5. 1 \in Agents
  BY DEF Agents
<1>6. AgentShape /\ \A a \in Agents : StopsIn(agentMail[a]) = {}
  BY <1>1 DEF AgentsInv, StopsAreLast
<1>7. AgentShape'
  BY <1>1, <1>5, <1>6, AskedToStop DEF AgentShape, agentVars
<1>8. OneProblem'
  BY <1>1, <1>2, <1>5, <1>6, AskedToStop, EmptyMail
     DEF AgentsInv, OneProblem, OnlyStarts, NoStart, benchmarkVars, agentVars
<1>9. StopInOrder'
  <2>1. \A a \in Agents : ~(a < 1)
    BY DEF Agents
  <2>2. NoStart(leaderMail')
    BY <1>2, EmptyMail
  <2>3. /\ asked' = 1 /\ ~replied'
        /\ StopsIn(agentMail'[1]) = {Len(agentMail'[1])}
    BY <1>1, <1>5, <1>6, AskedToStop
  <2>4. \A a \in Agents : a # 1 => StopsIn(agentMail'[a]) = {}
    BY <1>1, <1>5, <1>6, AskedToStop
  <2> QED
    BY <1>5, <2>1, <2>2, <2>3, <2>4 DEF StopInOrder
<1>10. StopLast(leaderMail')
  BY <1>2, EmptyMail DEF StopLast
<1>11. StopsAreLast' /\ QuietBetween'
  BY <1>1, <1>3, <1>4, <1>10 DEF StopsAreLast, QuietBetween, benchmarkVars
<1> QED
  BY <1>7, <1>8, <1>9, <1>11 DEF AgentsInv

LEMMA AskNextAgentAgents ==
    ASSUME SuiteInv, AgentsInv, AskNextAgent PROVE AgentsInv'
<1>1. /\ leader = "stopping" /\ replied /\ asked < NumberOfAgents /\ AskToStop(asked + 1)
      /\ UNCHANGED <<benchmarkVars, leader, problem, agentVars, fromLeader, leaderMail>>
  BY DEF AskNextAgent
<1>2. /\ asked \in Agents /\ asked + 1 \in Agents
      /\ NoStart(leaderMail)
      /\ \A a \in Agents : a < asked + 1 => Quiet(a)
      /\ \A a \in Agents : StopsIn(agentMail[a]) = {}
  BY <1>1 DEF AgentsInv, StopInOrder, Agents
<1>3. EndUnderWay /\ fromLeader = 0
  BY <1>1 DEF SuiteInv, OneTurn, EndUnderWay
<1>4. benchmarkProblem # 0
  BY <1>3 DEF SuiteInv, OneTurn, Problems
<1>5. AgentShape
  BY DEF AgentsInv
<1>6. AgentShape'
  BY <1>1, <1>2, <1>5, AskedToStop DEF AgentShape, agentVars
<1>7. OneProblem'
  BY <1>1, <1>2, <1>5, AskedToStop DEF AgentsInv, OneProblem, benchmarkVars, agentVars
<1>8. StopInOrder'
  BY <1>1, <1>2, <1>5, AskedToStop DEF StopInOrder
<1>9. StopsAreLast' /\ QuietBetween'
  BY <1>1, <1>3, <1>4 DEF AgentsInv, StopsAreLast, QuietBetween, benchmarkVars
<1> QED
  BY <1>6, <1>7, <1>8, <1>9 DEF AgentsInv

LEMMA SimulationStopsAgents ==
    ASSUME SuiteInv, AgentsInv, SimulationStops PROVE AgentsInv'
<1>1. /\ leader = "stopping" /\ asked = NumberOfAgents /\ replied
      /\ leader' = "up" /\ asked' = Nobody /\ replied' = FALSE
      /\ UNCHANGED <<benchmarkVars, problem, agentVars, leaderMail, agentMail>>
  BY DEF SimulationStops, AgentsStopped
<1>2. /\ NoStart(leaderMail)
      /\ \A a \in Agents : Quiet(a) /\ StopsIn(agentMail[a]) = {}
  <2>1. \A a \in Agents : a < asked \/ a = asked
    BY <1>1 DEF Agents
  <2> QED
    BY <1>1, <2>1 DEF AgentsInv, StopInOrder
<1>3. AllQuiet'
  BY <1>1, <1>2 DEF AllQuiet, Quiet, agentVars
<1>4. AgentShape' /\ OneProblem'
  BY <1>1 DEF AgentsInv, AgentShape, OneProblem, benchmarkVars, agentVars
<1> QED
  BY <1>1, <1>2, <1>3, <1>4 DEF AgentsInv, StopInOrder, StopsAreLast, QuietBetween

LEMMA AskTimesOutAgents ==
    ASSUME SuiteInv, AgentsInv, AskTimesOut PROVE AgentsInv'
<1>1. /\ leader = "stopping" /\ leader' = "failed"
      /\ UNCHANGED <<benchmarkVars, problem, asked, replied, agentVars, fromLeader, leaderMail,
                     agentMail>>
  BY DEF AskTimesOut, mailVars
<1>2. fromLeader = 0
  BY <1>1 DEF SuiteInv, OneTurn
<1> QED
  BY <1>1, <1>2
     DEF AgentsInv, AgentShape, OneProblem, StopInOrder, StopsAreLast, QuietBetween, AllQuiet, Quiet,
         benchmarkVars, agentVars

-----------------------------------------------------------------------------
(* The agents *)

\* An agent takes the head of its mail.
LEMMA AgentTakes ==
    ASSUME AgentShape, NEW a \in Agents, NEW type, Gets(a, type)
    PROVE  /\ agentMail[a] \in Seq(Notes) /\ agentMail[a] # <<>>
           /\ Head(agentMail[a]) \in Notes /\ Head(agentMail[a]).type = type
           /\ agentMail'[a] = Tail(agentMail[a])
           /\ agentMail' \in [Agents -> Seq(Notes)]
           /\ \A b \in Agents : b # a => agentMail'[b] = agentMail[b]
<1>1. agentMail[a] \in Seq(Notes) /\ agentMail[a] # <<>> /\ Head(agentMail[a]).type = type
  BY DEF AgentShape, Gets
<1>2. Tail(agentMail[a]) \in Seq(Notes)
  BY <1>1, Taken
<1> QED
  BY <1>1, <1>2 DEF AgentShape, Gets

LEMMA OnStartAgentAgents ==
    ASSUME SuiteInv, AgentsInv, NEW a \in Agents, OnStartAgent(a) PROVE AgentsInv'
<1> DEFINE mail == agentMail[a]
<1>1. /\ mail \in Seq(Notes) /\ mail # <<>>
      /\ Head(mail) \in Notes /\ Head(mail).type = "StartSimulation"
      /\ agentMail'[a] = Tail(mail)
      /\ agentMail' \in [Agents -> Seq(Notes)]
      /\ \A b \in Agents : b # a => agentMail'[b] = agentMail[b]
  BY AgentTakes DEF OnStartAgent, AgentsInv
<1>2. /\ agentProblem' = [agentProblem EXCEPT ![a] = Head(mail).problem]
      /\ agentStarted' = [agentStarted EXCEPT ![a] = TRUE]
      /\ UNCHANGED <<benchmarkVars, leaderVars, fromLeader, leaderMail>>
  BY DEF OnStartAgent
<1>3. ~Quiet(a)
  BY <1>1, Taken DEF Quiet
<1>4. \A b \in Agents : b # a => (Quiet(b) => Quiet(b)')
  BY <1>1, <1>2 DEF Quiet, AgentsInv, AgentShape
<1>5. /\ StopsIn(mail) = {} => StopsIn(agentMail'[a]) = {}
      /\ StopsIn(mail) = {Len(mail)} => StopsIn(agentMail'[a]) = {Len(agentMail'[a])}
  BY <1>1, Taken
<1>6. AgentShape'
  BY <1>1, <1>2 DEF AgentsInv, AgentShape, Notes, leaderVars
<1>7. OneProblem'
  <2> SUFFICES ASSUME benchmarkProblem \in Problems PROVE OneProblem'
    BY <1>2 DEF OneProblem, benchmarkVars
  <2>1. OnlyStarts(mail, benchmarkProblem)
    BY DEF AgentsInv, OneProblem
  <2>2. Head(mail).problem = benchmarkProblem
    BY <1>1, <2>1 DEF OnlyStarts
  <2>3. OnlyStarts(agentMail'[a], benchmarkProblem)
    BY <1>1, <2>1, Taken
  <2>4. \A b \in Agents : agentStarted'[b] => agentProblem'[b] = benchmarkProblem
    BY <1>2, <2>2 DEF AgentsInv, AgentShape, OneProblem
  <2> QED
    BY <1>1, <1>2, <2>3, <2>4 DEF AgentsInv, OneProblem, benchmarkVars
<1>8. StopInOrder'
  <2> SUFFICES ASSUME leader = "stopping" PROVE StopInOrder'
    BY <1>2 DEF StopInOrder, leaderVars
  <2>1. ~(a < asked) /\ ~(replied /\ a = asked) /\ asked \in Agents
    BY <1>3 DEF AgentsInv, StopInOrder
  <2>2. \A b \in Agents : b < asked => Quiet(b)'
    BY <1>4, <2>1 DEF AgentsInv, StopInOrder
  <2>3. replied => Quiet(asked)'
    BY <1>2, <1>4, <2>1 DEF AgentsInv, StopInOrder, leaderVars
  <2>4. \A b \in Agents : b # asked \/ replied => StopsIn(agentMail'[b]) = {}
    BY <1>1, <1>5 DEF AgentsInv, StopInOrder
  <2>5. ~replied => StopsIn(agentMail'[asked]) = {Len(agentMail'[asked])}
    BY <1>1, <1>5, <2>1 DEF AgentsInv, StopInOrder
  <2> QED
    BY <1>2, <2>1, <2>2, <2>3, <2>4, <2>5 DEF AgentsInv, StopInOrder, Quiet, leaderVars
<1>9. StopsAreLast'
  BY <1>1, <1>2, <1>5 DEF AgentsInv, StopsAreLast, leaderVars
<1>10. QuietBetween'
  BY <1>2, <1>3 DEF AgentsInv, QuietBetween, AllQuiet, benchmarkVars
<1> QED
  BY <1>6, <1>7, <1>8, <1>9, <1>10 DEF AgentsInv

LEMMA OnStopAgentAgents ==
    ASSUME SuiteInv, AgentsInv, NEW a \in Agents, OnStopAgent(a) PROVE AgentsInv'
<1> DEFINE mail == agentMail[a]
<1>1. /\ mail \in Seq(Notes) /\ mail # <<>>
      /\ Head(mail).type = "StopSimulation"
      /\ agentMail'[a] = Tail(mail)
      /\ agentMail' \in [Agents -> Seq(Notes)]
      /\ \A b \in Agents : b # a => agentMail'[b] = agentMail[b]
  BY AgentTakes DEF OnStopAgent, AgentsInv
<1>2. /\ agentStarted' = [agentStarted EXCEPT ![a] = FALSE] /\ replied' = TRUE
      /\ UNCHANGED <<benchmarkVars, leader, problem, asked, agentProblem, fromLeader, leaderMail>>
  BY DEF OnStopAgent
<1>3. StopsIn(mail) # {} /\ leader # "up"
  BY <1>1, Taken DEF AgentsInv, StopsAreLast
<1>4. \A b \in Agents : Quiet(b) => Quiet(b)'
  <2>1. NoStart(mail) => NoStart(agentMail'[a])
    BY <1>1, Taken
  <2> QED
    BY <1>1, <1>2, <2>1 DEF Quiet, AgentsInv, AgentShape
<1>5. AgentShape'
  BY <1>1, <1>2 DEF AgentsInv, AgentShape
<1>6. OneProblem'
  <2>1. \A p : OnlyStarts(mail, p) => OnlyStarts(agentMail'[a], p)
    BY <1>1, Taken
  <2> QED
    BY <1>1, <1>2, <2>1 DEF AgentsInv, AgentShape, OneProblem, benchmarkVars
<1>7. StopInOrder'
  <2> SUFFICES ASSUME leader = "stopping" PROVE StopInOrder'
    BY <1>2 DEF StopInOrder
  <2>1. a = asked /\ ~replied /\ StopsIn(mail) = {Len(mail)}
    BY <1>3 DEF AgentsInv, StopInOrder
  <2>2. agentMail'[a] = <<>>
    BY <1>1, <2>1, Taken DEF StopLast
  <2>3. Quiet(a)'
    BY <1>2, <2>2, EmptyMail DEF Quiet, AgentsInv, AgentShape
  <2>4. \A b \in Agents : StopsIn(agentMail'[b]) = {}
    BY <1>1, <2>1, <2>2, EmptyMail DEF AgentsInv, StopInOrder
  <2> QED
    BY <1>2, <1>4, <2>1, <2>3, <2>4 DEF AgentsInv, StopInOrder, Quiet
<1>8. StopsAreLast' /\ QuietBetween'
  BY <1>2, <1>3, <1>4 DEF AgentsInv, StopsAreLast, QuietBetween, AllQuiet, benchmarkVars
<1> QED
  BY <1>5, <1>6, <1>7, <1>8 DEF AgentsInv

-----------------------------------------------------------------------------
(* Every step *)

\* What the invariant reads.
agentsInvVars == <<benchmarkProblem, leaderVars, agentProblem, agentStarted, fromLeader, leaderMail,
                   agentMail>>

LEMMA AgentsUntouched == ASSUME AgentsInv, UNCHANGED agentsInvVars PROVE AgentsInv'
BY DEF AgentsInv, AgentShape, OneProblem, StopInOrder, StopsAreLast, QuietBetween, AllQuiet, Quiet,
       agentsInvVars, leaderVars

LEMMA StepAgents == ASSUME SuiteInv, AgentsInv, [Next]_vars PROVE AgentsInv'
<1>1. CASE StartBenchmark
  BY <1>1, StartBenchmarkAgents
<1>2. CASE HandleSimulationEnd
  BY <1>2, HandleSimulationEndAgents
<1>3. CASE \E a \in Agents : HandleEvaluate(a)
  BY <1>3, HandleEvaluateAgents
<1>4. CASE OnStartSimulation
  BY <1>4, OnStartSimulationAgents
<1>5. CASE OnStopSimulation
  BY <1>5, OnStopSimulationAgents
<1>6. CASE AskNextAgent
  BY <1>6, AskNextAgentAgents
<1>7. CASE SimulationStops
  BY <1>7, SimulationStopsAgents
<1>8. CASE AskTimesOut
  BY <1>8, AskTimesOutAgents
<1>9. CASE \E a \in Agents : AgentActs(a)
  <2>1. PICK a \in Agents : AgentActs(a)
    BY <1>9
  <2>2. CASE OnStartAgent(a)
    BY <2>2, OnStartAgentAgents
  <2>3. CASE OnStopAgent(a)
    BY <2>3, OnStopAgentAgents
  <2>4. CASE OnInternalStimulus(a) \/ OnSolutionResponse(a) \/ EvaluateNext(a) \/ EndHeuristic(a)
    BY <2>4, AgentsUntouched
       DEF OnInternalStimulus, OnSolutionResponse, EvaluateNext, EndHeuristic, agentsInvVars,
           benchmarkVars, mailVars
  <2> QED
    BY <2>1, <2>2, <2>3, <2>4 DEF AgentActs
<1>10. CASE UNCHANGED vars
  BY <1>10, AgentsUntouched DEF vars, agentsInvVars, benchmarkVars, agentVars, mailVars
<1> QED
  BY <1>1, <1>2, <1>3, <1>4, <1>5, <1>6, <1>7, <1>8, <1>9, <1>10
     DEF Next, BenchmarkActs, LeaderActs

(* No agent works on another problem than the benchmark, whatever it has   *)
(* still in its mailbox when nextProblem takes the next one: for every     *)
(* suite, any number of agents, late evaluations and a leader that waits   *)
(* too long included.                                                      *)
THEOREM StartedAgentsAlwaysAgree == Spec => []StartedAgentsAgree
<1>1. Init => SuiteInv /\ AgentsInv
  BY InitSuiteInv, InitAgents
<1>2. SuiteInv /\ AgentsInv /\ [Next]_vars => SuiteInv' /\ AgentsInv'
  BY StepSuite, StepAgents
<1>3. AgentsInv => StartedAgentsAgree
  BY DEF AgentsInv, OneProblem, StartedAgentsAgree
<1> QED
  BY <1>1, <1>2, <1>3, PTL DEF Spec

-----------------------------------------------------------------------------
(* Types.  The leader has a problem before it can be told to stop, and when *)
(* it has none the first message it takes brings one: that is why it never  *)
(* starts the agents with problem 0, although a start may name no problem.  *)

StartsIn(mail, set) ==
    \A i \in DOMAIN mail : mail[i].type = "StartSimulation" => mail[i].problem \in set

FirstStart ==
    problem = 0 =>
        /\ leader = "up" /\ fromLeader = 0
        /\ leaderMail = <<>> => ~runningSimulation
        /\ leaderMail # <<>> => /\ Head(leaderMail).type = "StartSimulation"
                                /\ Head(leaderMail).problem \in Problems

TypesInv ==
    /\ TypeOK
    /\ FirstStart
    /\ \A a \in Agents : StartsIn(agentMail[a], Problems)

\* TypeOK in two halves, for the provers: flags and the rest.
Flags ==
    runningSimulation \in BOOLEAN /\ replied \in BOOLEAN /\ agentStarted \in [Agents -> BOOLEAN]

Rest ==
    /\ benchmarkProblem \in 0 .. Null
    /\ evaluations \in Nat
    /\ spent \in [Problems -> Nat]
    /\ leader \in {"up", "stopping", "failed"}
    /\ problem \in 0 .. NumberOfProblems
    /\ asked \in Agents \cup {Nobody}
    /\ agentProblem \in [Agents -> 0 .. NumberOfProblems]
    /\ work \in [Agents -> {"idle", "running", "waiting", "unanswered"}]
    /\ fromMain \in Nat /\ fromLeader \in Nat
    /\ leaderMail \in Seq(Messages)
    /\ agentMail \in [Agents -> Seq(Messages)]
    /\ evaluates \in [Agents -> Nat]
    /\ answers \in [Agents -> Nat]

LEMMA TypeHalves == (TypeOK <=> Flags /\ Rest) /\ (TypeOK' <=> Flags' /\ Rest')
BY Zenon DEF TypeOK, Flags, Rest

LEMMA StartsAppended ==
    ASSUME NEW mail \in Seq(Messages), StartsIn(mail, Problems), NEW m \in Messages,
           m.type = "StartSimulation" => m.problem \in Problems
    PROVE  Append(mail, m) \in Seq(Messages) /\ StartsIn(Append(mail, m), Problems)
BY DEF StartsIn

LEMMA StartsTaken ==
    ASSUME NEW mail \in Seq(Messages), mail # <<>>, StartsIn(mail, Problems)
    PROVE  /\ Tail(mail) \in Seq(Messages) /\ StartsIn(Tail(mail), Problems)
           /\ Head(mail) \in Messages
           /\ Head(mail).type = "StartSimulation" => Head(mail).problem \in Problems
<1>1. /\ Tail(mail) \in Seq(Messages) /\ Len(mail) \in Nat \ {0} /\ Head(mail) = mail[1]
      /\ DOMAIN mail = 1 .. Len(mail) /\ DOMAIN Tail(mail) = 1 .. Len(mail) - 1
      /\ \A i \in 1 .. Len(mail) - 1 : Tail(mail)[i] = mail[i + 1]
  OBVIOUS
<1>2. Head(mail) \in Messages
  OBVIOUS
<1> QED
  BY <1>1, <1>2 DEF StartsIn

\* The leader's mailbox grows: what is at its head stays there.
LEMMA LeaderIsSent ==
    ASSUME TypesInv, NEW m \in Messages, leaderMail' = Append(leaderMail, m),
           UNCHANGED <<leader, problem, fromLeader>>,
           leaderMail = <<>> /\ problem = 0 => m.type = "StartSimulation" /\ m.problem \in Problems
    PROVE  FirstStart'
<1>1. leaderMail \in Seq(Messages)
  BY DEF TypesInv, TypeOK
<1>2. leaderMail' # <<>> /\ Head(leaderMail') = (IF leaderMail = <<>> THEN m ELSE Head(leaderMail))
  BY <1>1
<1> QED
  BY <1>2 DEF TypesInv, FirstStart

LEMMA InitTypes == Init => TypesInv
<1> SUFFICES ASSUME Init PROVE TypesInv
  OBVIOUS
<1>1. TypeOK
  <2>1. Flags
    BY DEF Init, Flags
  <2>2. Rest
    BY DEF Init, Rest, Null, Problems, Agents, Nobody
  <2> QED
    BY <2>1, <2>2, TypeHalves
<1>2. FirstStart
  BY DEF Init, FirstStart
<1>3. \A a \in Agents : StartsIn(agentMail[a], Problems)
  BY DEF Init, StartsIn
<1> QED
  BY <1>1, <1>2, <1>3 DEF TypesInv

LEMMA NextProblemTypes ==
    ASSUME TypesInv, TakeNextProblem
    PROVE  /\ benchmarkProblem' \in Problems \cup {Null} /\ benchmarkProblem' \in 0 .. Null
           /\ evaluations' \in Nat /\ spent' \in [Problems -> Nat]
BY DEF TypesInv, TypeOK, TakeNextProblem, Null, Problems

LEMMA StartBenchmarkTypes == ASSUME TypesInv, StartBenchmark PROVE TypesInv'
<1>1. /\ benchmarkProblem' \in Problems \cup {Null} /\ benchmarkProblem' \in 0 .. Null
      /\ evaluations' \in Nat /\ spent' \in [Problems -> Nat]
  BY NextProblemTypes DEF StartBenchmark
<1>2. /\ fromMain' \in Nat
      /\ UNCHANGED <<leaderVars, agentVars, fromLeader, agentMail, evaluates, answers>>
  BY DEF StartBenchmark, TypesInv, TypeOK
<1>3. runningSimulation' \in BOOLEAN /\ leaderMail' \in Seq(Messages) /\ FirstStart'
  <2>1. CASE benchmarkProblem' # Null /\ ~runningSimulation
    <3>1. runningSimulation' /\ leaderMail' = Append(leaderMail, StartSimulation(benchmarkProblem'))
      BY <2>1 DEF StartBenchmark, StartSimulationOfBenchmark
    <3>2. StartSimulation(benchmarkProblem') \in Messages
      BY <1>1 DEF StartSimulation, Messages
    <3>3. FirstStart'
      BY <1>1, <1>2, <2>1, <3>1, <3>2, LeaderIsSent DEF StartSimulation, leaderVars
    <3> QED
      BY <3>1, <3>2, <3>3 DEF TypesInv, TypeOK, StartBenchmark, StartSimulationOfBenchmark
  <2>2. CASE ~(benchmarkProblem' # Null /\ ~runningSimulation)
    BY <1>2, <2>2 DEF StartBenchmark, TypesInv, TypeOK, FirstStart, leaderVars
  <2> QED
    BY <2>1, <2>2
<1>4. TypeOK'
  <2>1. Flags'
    BY <1>2, <1>3, TypeHalves DEF TypesInv, Flags, leaderVars, agentVars
  <2>2. Rest'
    BY <1>1, <1>2, <1>3, TypeHalves DEF TypesInv, Rest, leaderVars, agentVars
  <2> QED
    BY <2>1, <2>2, TypeHalves
<1> QED
  BY <1>2, <1>3, <1>4 DEF TypesInv

LEMMA HandleSimulationEndTypes == ASSUME TypesInv, HandleSimulationEnd PROVE TypesInv'
<1>1. /\ benchmarkProblem' \in Problems \cup {Null} /\ benchmarkProblem' \in 0 .. Null
      /\ evaluations' \in Nat /\ spent' \in [Problems -> Nat]
  BY NextProblemTypes DEF HandleSimulationEnd
<1>2. /\ fromLeader > 0 /\ fromLeader' \in Nat
      /\ UNCHANGED <<leaderVars, agentVars, fromMain, agentMail, evaluates, answers>>
  BY DEF HandleSimulationEnd, TypesInv, TypeOK
<1>3. FirstStart'
  BY <1>2 DEF TypesInv, TypeOK, FirstStart, leaderVars
<1>4. runningSimulation' \in BOOLEAN /\ leaderMail' \in Seq(Messages)
  <2>1. StartSimulation(benchmarkProblem') \in Messages
    BY <1>1 DEF StartSimulation, Messages
  <2>2. CASE runningSimulation
    BY <2>2, TypeHalves DEF HandleSimulationEnd, TypesInv, Flags, Rest
  <2>3. CASE ~runningSimulation
    <3>1. leaderMail' = Append(leaderMail, StartSimulation(benchmarkProblem')) /\ runningSimulation' = TRUE
      BY <2>3 DEF HandleSimulationEnd, StartSimulationOfBenchmark
    <3>2. leaderMail \in Seq(Messages)
      BY DEF TypesInv, TypeOK
    <3> QED
      BY <2>1, <3>1, <3>2
  <2> QED
    BY <2>2, <2>3
<1>5. TypeOK'
  <2>1. Flags'
    BY <1>2, <1>4, TypeHalves DEF TypesInv, Flags, leaderVars, agentVars
  <2>2. Rest'
    BY <1>1, <1>2, <1>4, TypeHalves DEF TypesInv, Rest, leaderVars, agentVars
  <2> QED
    BY <2>1, <2>2, TypeHalves
<1> QED
  BY <1>2, <1>3, <1>5 DEF TypesInv

LEMMA HandleEvaluateTypes == ASSUME TypesInv, NEW a \in Agents, HandleEvaluate(a) PROVE TypesInv'
<1>1. /\ evaluates' \in [Agents -> Nat]
      /\ UNCHANGED <<leaderVars, agentProblem, agentStarted, fromMain, fromLeader, agentMail, answers>>
  BY DEF HandleEvaluate, TypesInv, TypeOK
<1>2. work' \in [Agents -> {"idle", "running", "waiting", "unanswered"}]
  BY DEF HandleEvaluate, Answer, TypesInv, TypeOK
<1>3. /\ benchmarkProblem' \in 0 .. Null /\ runningSimulation' \in BOOLEAN /\ evaluations' \in Nat
      /\ spent' \in [Problems -> Nat] /\ leaderMail' \in Seq(Messages) /\ FirstStart'
  <2>1. CASE UNCHANGED <<benchmarkVars, leaderMail>>
    BY <1>1, <2>1 DEF TypesInv, TypeOK, FirstStart, benchmarkVars, leaderVars
  <2>2. CASE ~UNCHANGED <<benchmarkVars, leaderMail>>
    <3>1. /\ runningSimulation /\ benchmarkProblem \in Problems /\ benchmarkProblem' = benchmarkProblem
          /\ spent' = [spent EXCEPT ![benchmarkProblem] = @ + 1]
          /\ evaluations' = evaluations + 1 /\ CheckStopCondition
      BY <2>2 DEF HandleEvaluate
    <3>2. StopSimulation \in Messages
      BY DEF StopSimulation, Messages
    <3>3. CASE evaluations' = EvaluationsBudget
      <4>1. runningSimulation' = FALSE /\ leaderMail' = Append(leaderMail, StopSimulation)
        BY <3>1, <3>3 DEF CheckStopCondition
      <4>2. ~(leaderMail = <<>> /\ problem = 0)
        BY <3>1 DEF TypesInv, FirstStart
      <4>3. FirstStart'
        BY <1>1, <3>2, <4>1, <4>2, LeaderIsSent DEF leaderVars
      <4>4. /\ benchmarkProblem' \in 0 .. Null /\ evaluations' \in Nat /\ spent' \in [Problems -> Nat]
            /\ leaderMail' \in Seq(Messages)
        <5>1. /\ benchmarkProblem \in 0 .. Null /\ evaluations \in Nat /\ spent \in [Problems -> Nat]
              /\ leaderMail \in Seq(Messages)
          BY DEF TypesInv, TypeOK
        <5> QED
          BY <3>1, <3>2, <4>1, <5>1
      <4> QED
        BY <4>1, <4>3, <4>4
    <3>4. CASE evaluations' # EvaluationsBudget
      <4>1. UNCHANGED <<runningSimulation, leaderMail>>
        BY <3>1, <3>4 DEF CheckStopCondition
      <4>2. FirstStart'
        BY <1>1, <4>1 DEF TypesInv, FirstStart, leaderVars
      <4>3. /\ benchmarkProblem \in 0 .. Null /\ evaluations \in Nat /\ spent \in [Problems -> Nat]
            /\ leaderMail \in Seq(Messages)
        BY TypeHalves DEF TypesInv, Rest
      <4>4. evaluations' \in Nat /\ spent' \in [Problems -> Nat]
        BY <3>1, <4>3
      <4> QED
        BY <3>1, <4>1, <4>2, <4>3, <4>4
    <3> QED
      BY <3>3, <3>4
  <2> QED
    BY <2>1, <2>2
<1>4. TypeOK'
  <2>1. Flags'
    BY <1>1, <1>2, <1>3, TypeHalves DEF TypesInv, Flags, leaderVars
  <2>2. Rest'
    BY <1>1, <1>2, <1>3, TypeHalves DEF TypesInv, Rest, leaderVars
  <2> QED
    BY <2>1, <2>2, TypeHalves
<1> QED
  BY <1>1, <1>3, <1>4 DEF TypesInv

\* What the leader does with the head of its mailbox.
LEMMA OnStartSimulationTypes == ASSUME TypesInv, OnStartSimulation PROVE TypesInv'
<1>1. /\ leaderMail \in Seq(Messages) /\ leaderMail # <<>> /\ leaderMail' = Tail(leaderMail)
      /\ problem' = ProblemAfter(Head(leaderMail))
      /\ agentMail' = [a \in Agents |-> Append(agentMail[a], StartSimulation(problem'))]
      /\ UNCHANGED <<benchmarkVars, leader, asked, replied, agentVars, fromMain, fromLeader, evaluates,
                     answers>>
  BY DEF OnStartSimulation, Takes, TypesInv, TypeOK
<1>2. Head(leaderMail).problem \in Problems \cup {Null}
  <2>1. Head(leaderMail) \in Messages
    BY <1>1
  <2> QED
    BY <2>1 DEF Messages
<1>3. problem' \in Problems
  BY <1>1, <1>2 DEF ProblemAfter, TypesInv, TypeOK, FirstStart, Problems, Null
<1>4. StartSimulation(problem') \in Messages
  BY <1>3 DEF StartSimulation, Messages
<1>5. /\ StartSimulation(problem').type = "StartSimulation" => StartSimulation(problem').problem \in Problems
  BY <1>3 DEF StartSimulation
<1>6. \A a \in Agents : agentMail'[a] \in Seq(Messages) /\ StartsIn(agentMail'[a], Problems)
  BY <1>1, <1>4, <1>5, StartsAppended DEF TypesInv, TypeOK
<1>7. agentMail' \in [Agents -> Seq(Messages)]
  BY <1>1, <1>6
<1>8. leaderMail' \in Seq(Messages)
  BY <1>1
<1>9. TypeOK'
  <2>1. Flags'
    BY <1>1, <1>3, <1>7, <1>8, TypeHalves DEF TypesInv, Flags, benchmarkVars, agentVars, Problems
  <2>2. Rest'
    <3>1. problem' \in 0 .. NumberOfProblems
      BY <1>3 DEF Problems
    <3> QED
      BY <1>1, <1>7, <1>8, <3>1, TypeHalves DEF TypesInv, Rest, benchmarkVars, agentVars
  <2> QED
    BY <2>1, <2>2, TypeHalves
<1>10. FirstStart'
  BY <1>3 DEF FirstStart, Problems
<1> QED
  BY <1>6, <1>9, <1>10 DEF TypesInv

\* A StopSimulation in an agent's mailbox starts nobody.
LEMMA AgentIsStopped ==
    ASSUME TypesInv, NEW a \in Agents,
           agentMail' = [agentMail EXCEPT ![a] = Append(@, StopSimulation)]
    PROVE  /\ agentMail' \in [Agents -> Seq(Messages)]
           /\ \A b \in Agents : StartsIn(agentMail'[b], Problems)
<1>1. StopSimulation \in Messages /\ StopSimulation.type # "StartSimulation"
  BY DEF StopSimulation, Messages
<1>2. \A b \in Agents : agentMail'[b] \in Seq(Messages) /\ StartsIn(agentMail'[b], Problems)
  BY <1>1, StartsAppended DEF TypesInv, TypeOK
<1> QED
  BY <1>2 DEF TypesInv, TypeOK

LEMMA OnStopSimulationTypes == ASSUME TypesInv, OnStopSimulation PROVE TypesInv'
<1>1. /\ leaderMail \in Seq(Messages) /\ leaderMail # <<>> /\ leaderMail' = Tail(leaderMail)
      /\ Head(leaderMail).type = "StopSimulation" /\ leader' = "stopping" /\ AskToStop(1)
      /\ UNCHANGED <<benchmarkVars, problem, agentVars, fromMain, fromLeader, evaluates, answers>>
  BY DEF OnStopSimulation, Takes, TypesInv, TypeOK
<1>2. 1 \in Agents
  BY DEF Agents
<1>3. /\ agentMail' \in [Agents -> Seq(Messages)]
      /\ \A b \in Agents : StartsIn(agentMail'[b], Problems)
  BY <1>1, <1>2, AgentIsStopped DEF AskToStop
<1>4. FirstStart'
  BY <1>1 DEF TypesInv, FirstStart
<1>5. TypeOK'
  <2>1. Flags'
    BY <1>1, TypeHalves DEF TypesInv, Flags, AskToStop, benchmarkVars, agentVars
  <2>2. Rest'
    <3>1. asked' \in Agents /\ leader' = "stopping" /\ leaderMail' \in Seq(Messages)
      BY <1>1, <1>2 DEF AskToStop
    <3> QED
      BY <1>1, <1>3, <3>1, TypeHalves DEF TypesInv, Rest, benchmarkVars, agentVars
  <2> QED
    BY <2>1, <2>2, TypeHalves
<1> QED
  BY <1>3, <1>4, <1>5 DEF TypesInv

LEMMA AskNextAgentTypes == ASSUME TypesInv, AskNextAgent PROVE TypesInv'
<1>1. /\ leader = "stopping" /\ asked < NumberOfAgents /\ AskToStop(asked + 1)
      /\ UNCHANGED <<benchmarkVars, leader, problem, agentVars, fromMain, fromLeader, leaderMail,
                     evaluates, answers>>
  BY DEF AskNextAgent
<1>2. asked + 1 \in Agents
  BY <1>1 DEF TypesInv, TypeOK, Agents, Nobody
<1>3. /\ agentMail' \in [Agents -> Seq(Messages)]
      /\ \A b \in Agents : StartsIn(agentMail'[b], Problems)
  BY <1>1, <1>2, AgentIsStopped DEF AskToStop
<1>4. FirstStart'
  BY <1>1 DEF TypesInv, FirstStart
<1>5. TypeOK'
  <2>1. Flags'
    BY <1>1, TypeHalves DEF TypesInv, Flags, AskToStop, benchmarkVars, agentVars
  <2>2. Rest'
    BY <1>1, <1>2, <1>3, TypeHalves DEF TypesInv, Rest, AskToStop, benchmarkVars, agentVars
  <2> QED
    BY <2>1, <2>2, TypeHalves
<1> QED
  BY <1>3, <1>4, <1>5 DEF TypesInv

LEMMA LeaderStopsTypes == ASSUME TypesInv, SimulationStops \/ AskTimesOut PROVE TypesInv'
<1>1. /\ leader = "stopping" /\ leader' \in {"up", "failed"} /\ fromLeader' \in Nat
      /\ asked' \in Agents \cup {Nobody} /\ replied' \in BOOLEAN
      /\ UNCHANGED <<benchmarkVars, problem, agentVars, fromMain, leaderMail, agentMail, evaluates,
                     answers>>
  <2>1. CASE SimulationStops
    <3>1. fromLeader \in Nat
      BY DEF TypesInv, TypeOK
    <3>2. /\ leader = "stopping" /\ leader' = "up" /\ asked' = Nobody /\ replied' = FALSE
          /\ fromLeader' = fromLeader + 1
          /\ UNCHANGED <<benchmarkVars, problem, agentVars, fromMain, leaderMail, agentMail, evaluates,
                         answers>>
      BY <2>1 DEF SimulationStops, AgentsStopped
    <3>3. fromLeader' \in Nat
      BY <3>1, <3>2
    <3>4. replied' \in BOOLEAN
      BY <3>2
    <3> QED
      BY <3>2, <3>3, <3>4, Zenon
  <2>2. CASE AskTimesOut
    BY <2>2, TypeHalves DEF AskTimesOut, mailVars, TypesInv, Rest, Flags
  <2> QED
    BY <2>1, <2>2
<1>2. FirstStart'
  BY <1>1 DEF TypesInv, FirstStart
<1>3. TypeOK'
  <2>1. Flags'
    BY <1>1, TypeHalves DEF TypesInv, Flags, benchmarkVars, agentVars
  <2>2. Rest'
    BY <1>1, TypeHalves DEF TypesInv, Rest, benchmarkVars, agentVars
  <2> QED
    BY <2>1, <2>2, TypeHalves
<1> QED
  BY <1>1, <1>2, <1>3 DEF TypesInv

LEMMA AgentGetsTypes == ASSUME TypesInv, NEW a \in Agents, OnStartAgent(a) \/ OnStopAgent(a) PROVE TypesInv'
<1>1. /\ agentMail[a] # <<>> /\ agentMail' = [agentMail EXCEPT ![a] = Tail(@)]
      /\ UNCHANGED <<benchmarkVars, leader, problem, asked, work, fromMain, fromLeader, leaderMail,
                     evaluates, answers>>
  BY DEF OnStartAgent, OnStopAgent, Gets, leaderVars
<1>2. /\ agentMail[a] \in Seq(Messages) /\ StartsIn(agentMail[a], Problems)
  BY DEF TypesInv, TypeOK
<1>3. /\ Tail(agentMail[a]) \in Seq(Messages) /\ StartsIn(Tail(agentMail[a]), Problems)
      /\ Head(agentMail[a]).type = "StartSimulation" => Head(agentMail[a]).problem \in Problems
  BY <1>1, <1>2, StartsTaken
<1>4. /\ agentMail' \in [Agents -> Seq(Messages)]
      /\ \A b \in Agents : StartsIn(agentMail'[b], Problems)
  BY <1>1, <1>3 DEF TypesInv, TypeOK
<1>5. agentProblem' \in [Agents -> 0 .. NumberOfProblems]
  <2>1. agentProblem \in [Agents -> 0 .. NumberOfProblems]
    BY DEF TypesInv, TypeOK
  <2>2. CASE OnStartAgent(a)
    <3>1. /\ agentProblem' = [agentProblem EXCEPT ![a] = Head(agentMail[a]).problem]
          /\ Head(agentMail[a]).type = "StartSimulation"
      BY <2>2 DEF OnStartAgent, Gets
    <3>2. Head(agentMail[a]).problem \in 0 .. NumberOfProblems
      BY <1>3, <3>1 DEF Problems
    <3> QED
      BY <2>1, <3>1, <3>2
  <2>3. CASE OnStopAgent(a)
    BY <2>1, <2>3 DEF OnStopAgent
  <2> QED
    BY <2>2, <2>3
<1>6. agentStarted' \in [Agents -> BOOLEAN] /\ replied' \in BOOLEAN
  BY DEF OnStartAgent, OnStopAgent, TypesInv, TypeOK, leaderVars
<1>7. FirstStart'
  BY <1>1 DEF TypesInv, FirstStart, benchmarkVars
<1>8. TypeOK'
  <2>1. Flags'
    BY <1>1, <1>4, <1>5, <1>6, TypeHalves DEF TypesInv, Flags, benchmarkVars
  <2>2. Rest'
    BY <1>1, <1>4, <1>5, <1>6, TypeHalves DEF TypesInv, Rest, benchmarkVars
  <2> QED
    BY <2>1, <2>2, TypeHalves
<1> QED
  BY <1>4, <1>7, <1>8 DEF TypesInv

LEMMA AgentWorksTypes ==
    ASSUME TypesInv, NEW a \in Agents,
           OnInternalStimulus(a) \/ OnSolutionResponse(a) \/ EvaluateNext(a) \/ EndHeuristic(a)
    PROVE  TypesInv'
<1>1. UNCHANGED <<benchmarkVars, leaderVars, agentProblem, agentStarted, fromMain, fromLeader,
                  leaderMail, agentMail>>
  BY DEF OnInternalStimulus, OnSolutionResponse, EvaluateNext, EndHeuristic, mailVars
<1>2. work' \in [Agents -> {"idle", "running", "waiting", "unanswered"}]
  BY DEF OnInternalStimulus, OnSolutionResponse, EvaluateNext, EndHeuristic, Ask, TypesInv, TypeOK
<1>3. evaluates' \in [Agents -> Nat]
  <2>1. evaluates \in [Agents -> Nat]
    BY DEF TypesInv, TypeOK
  <2>2. \/ evaluates' = [evaluates EXCEPT ![a] = @ + 1]
        \/ evaluates' = evaluates
    BY DEF OnInternalStimulus, OnSolutionResponse, EvaluateNext, EndHeuristic, Ask, mailVars
  <2> QED
    BY <2>1, <2>2
<1>6. answers' \in [Agents -> Nat]
  <2>1. answers \in [Agents -> Nat]
    BY DEF TypesInv, TypeOK
  <2>2. \/ answers' = [answers EXCEPT ![a] = @ + 1]
        \/ answers[a] > 0 /\ answers' = [answers EXCEPT ![a] = @ - 1]
        \/ answers' = answers
    BY DEF OnInternalStimulus, OnSolutionResponse, EvaluateNext, EndHeuristic, Ask, mailVars
  <2> QED
    BY <2>1, <2>2
<1>4. TypeOK'
  <2>1. Flags'
    BY <1>1, <1>2, <1>3, <1>6, TypeHalves DEF TypesInv, Flags, benchmarkVars, leaderVars
  <2>2. Rest'
    BY <1>1, <1>2, <1>3, <1>6, TypeHalves DEF TypesInv, Rest, benchmarkVars, leaderVars
  <2> QED
    BY <2>1, <2>2, TypeHalves
<1>5. FirstStart'
  BY <1>1 DEF TypesInv, FirstStart, benchmarkVars, leaderVars
<1> QED
  BY <1>1, <1>4, <1>5 DEF TypesInv

LEMMA StepTypes == ASSUME TypesInv, [Next]_vars PROVE TypesInv'
<1>1. CASE UNCHANGED vars
  BY <1>1 DEF TypesInv, TypeOK, FirstStart, vars, benchmarkVars, leaderVars, agentVars, mailVars
<1>2. CASE Next
  BY <1>2, StartBenchmarkTypes, HandleSimulationEndTypes, HandleEvaluateTypes, OnStartSimulationTypes,
     OnStopSimulationTypes, AskNextAgentTypes, LeaderStopsTypes, AgentGetsTypes, AgentWorksTypes
     DEF Next, BenchmarkActs, LeaderActs, AgentActs
<1> QED
  BY <1>1, <1>2

(* Every variable keeps its type, in particular an agent is never started  *)
(* with a problem outside the suite, although the BenchmarkActor starts a  *)
(* simulation past the last problem without naming one                     *)
(* (SimulationActor.onStartSimulation).                                    *)
THEOREM BenchmarkTypes == Spec => []TypeOK
<1>1. TypesInv => TypeOK
  BY DEF TypesInv
<1> QED
  BY InitTypes, StepTypes, <1>1, PTL DEF Spec
=============================================================================
