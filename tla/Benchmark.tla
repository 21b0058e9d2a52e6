------------------------------ MODULE Benchmark ------------------------------
(***************************************************************************)
(* A benchmark run: the BenchmarkActor, which owns the problems of a CoCO  *)
(* suite and evaluates solutions for everybody, the leader it starts and   *)
(* stops a simulation with for every problem, and the agents that evaluate *)
(* solutions while they run their heuristics.                              *)
(*                                                                         *)
(* An agent that evaluates blocks until the answer comes or its ask times  *)
(* out; the Evaluate stays in the mailbox all the same.  It names no       *)
(* problem: the one the BenchmarkActor is at decides.  The leader blocks   *)
(* while it asks the agents, one after the other, to stop; what it does    *)
(* with regions and solutions meanwhile is left out.                       *)
(***************************************************************************)
EXTENDS Integers, Sequences

CONSTANTS
    NumberOfProblems,       \* of the suite
    EvaluationsBudget,      \* evaluations for each of them
    NumberOfAgents,
    Constructors,           \* agents that need no solutions of a region
    AgentMayTimeOut,        \* may an agent answer later than the leader waits?
    MaxPending              \* bound: Evaluates of one agent, answers to it, not yet handled

Problems == 1 .. NumberOfProblems
Null == NumberOfProblems + 1        \* the problem after the last one
Agents == 1 .. NumberOfAgents
Nobody == 0

ASSUME NumberOfProblemsAssumption == NumberOfProblems \in Nat
ASSUME EvaluationsBudgetAssumption == EvaluationsBudget \in Nat \ {0}
ASSUME NumberOfAgentsAssumption == NumberOfAgents \in Nat \ {0}
ASSUME ConstructorsAssumption == Constructors \subseteq Agents

VARIABLES
    (* the BenchmarkActor *)
    benchmarkProblem,
    runningSimulation,
    evaluations,
    spent,              \* the counter CoCO keeps for each problem
    (* the leader *)
    leader,             \* "up", "stopping" or "failed"
    problem,            \* the one it starts the agents with
    asked,              \* the agent it waits for, if any
    replied,            \* has that agent answered?
    (* the agents *)
    agentProblem,
    agentStarted,
    work,               \* what the agent's thread does
    (* messages under way *)
    fromMain,           \* StartSimulations of the MainActor
    fromLeader,         \* SimulationStoppeds
    leaderMail,         \* StartSimulation and StopSimulation
    agentMail,          \* what the leader sends an agent
    evaluates,          \* Evaluates of an agent
    answers             \* SolutionResponses of regions to an agent

benchmarkVars == <<benchmarkProblem, runningSimulation, evaluations, spent>>
leaderVars == <<leader, problem, asked, replied>>
agentVars  == <<agentProblem, agentStarted, work>>
mailVars   == <<fromMain, fromLeader, leaderMail, agentMail, evaluates, answers>>
vars == <<benchmarkVars, leaderVars, agentVars, mailVars>>

StartSimulation(p) == [type |-> "StartSimulation", problem |-> p]
StopSimulation == [type |-> "StopSimulation", problem |-> Null]
Messages == [type : {"StartSimulation", "StopSimulation"}, problem : Problems \cup {Null}]

TypeOK ==
    /\ benchmarkProblem \in 0 .. Null
    /\ runningSimulation \in BOOLEAN
    /\ evaluations \in Nat
    /\ spent \in [Problems -> Nat]
    /\ leader \in {"up", "stopping", "failed"}
    /\ problem \in 0 .. NumberOfProblems
    /\ asked \in Agents \cup {Nobody}
    /\ replied \in BOOLEAN
    /\ agentProblem \in [Agents -> 0 .. NumberOfProblems]
    /\ agentStarted \in [Agents -> BOOLEAN]
    /\ work \in [Agents -> {"idle", "running", "waiting", "unanswered"}]
    /\ fromMain \in Nat /\ fromLeader \in Nat
    /\ leaderMail \in Seq(Messages)
    /\ agentMail \in [Agents -> Seq(Messages)]
    /\ evaluates \in [Agents -> Nat]
    /\ answers \in [Agents -> Nat]

Init ==
    /\ benchmarkProblem = 0
    /\ runningSimulation = FALSE
    /\ evaluations = 0
    /\ spent = [p \in Problems |-> 0]
    /\ leader = "up" /\ problem = 0 /\ asked = Nobody /\ replied = FALSE
    /\ agentProblem = [a \in Agents |-> 0]
    /\ agentStarted = [a \in Agents |-> FALSE]
    /\ work = [a \in Agents |-> "idle"]
    /\ fromMain = 1 /\ fromLeader = 0
    /\ leaderMail = <<>>
    /\ agentMail = [a \in Agents |-> <<>>]
    /\ evaluates = [a \in Agents |-> 0]
    /\ answers = [a \in Agents |-> 0]

-----------------------------------------------------------------------------
(* The BenchmarkActor *)

\* nextProblem and startSimulation.  After the last problem nextProblem
\* sends a Terminate to the MainActor, which does not handle it.
TakeNextProblem ==
    /\ benchmarkProblem' = IF benchmarkProblem < Null THEN benchmarkProblem + 1 ELSE Null
    /\ evaluations' = 0
    /\ UNCHANGED spent

StartSimulationOfBenchmark ==
    /\ runningSimulation' = TRUE
    /\ leaderMail' = Append(leaderMail, StartSimulation(benchmarkProblem'))

StartBenchmark ==
    /\ fromMain > 0
    /\ fromMain' = fromMain - 1
    /\ TakeNextProblem
    /\ IF benchmarkProblem' # Null /\ ~runningSimulation
       THEN StartSimulationOfBenchmark
       ELSE UNCHANGED <<runningSimulation, leaderMail>>
    /\ UNCHANGED <<leaderVars, agentVars, fromLeader, agentMail, evaluates, answers>>

HandleSimulationEnd ==
    /\ fromLeader > 0
    /\ fromLeader' = fromLeader - 1
    /\ TakeNextProblem
    /\ IF ~runningSimulation
       THEN StartSimulationOfBenchmark
       ELSE UNCHANGED <<runningSimulation, leaderMail>>
    /\ UNCHANGED <<leaderVars, agentVars, fromMain, agentMail, evaluates, answers>>

\* The answer of the oldest Evaluate of a; all but the last have timed out.
Answer(a, outcome) ==
    work' = IF evaluates[a] = 1 /\ work[a] = "waiting"
            THEN [work EXCEPT ![a] = outcome] ELSE work

\* Mutants: the simulation goes on; > for =.
CheckStopConditionOnly ==
    /\ UNCHANGED runningSimulation
    /\ leaderMail' = IF evaluations' = EvaluationsBudget
                     THEN Append(leaderMail, StopSimulation) ELSE leaderMail

CheckStopConditionLate ==
    IF evaluations' > EvaluationsBudget
    THEN runningSimulation' = FALSE /\ leaderMail' = Append(leaderMail, StopSimulation)
    ELSE UNCHANGED <<runningSimulation, leaderMail>>

CheckStopCondition ==
    IF evaluations' = EvaluationsBudget
    THEN runningSimulation' = FALSE /\ leaderMail' = Append(leaderMail, StopSimulation)
    ELSE UNCHANGED <<runningSimulation, leaderMail>>

\* Without a simulation the answer is empty, which ends the heuristic; without
\* a problem an exception is caught, and there is no answer.
HandleEvaluate(a) ==
    /\ evaluates[a] > 0
    /\ evaluates' = [evaluates EXCEPT ![a] = @ - 1]
    /\ \/ /\ ~runningSimulation
          /\ Answer(a, "idle")
          /\ UNCHANGED <<benchmarkVars, leaderMail>>
       \/ /\ runningSimulation /\ benchmarkProblem \in Problems
          /\ spent' = [spent EXCEPT ![benchmarkProblem] = @ + 1]
          /\ Answer(a, "running")
          /\ evaluations' = evaluations + 1
          /\ CheckStopCondition
          /\ UNCHANGED benchmarkProblem
       \/ /\ runningSimulation /\ benchmarkProblem \notin Problems
          /\ Answer(a, "unanswered")
          /\ UNCHANGED <<benchmarkVars, leaderMail>>
    /\ UNCHANGED <<leaderVars, agentProblem, agentStarted, fromMain, fromLeader,
                   agentMail, answers>>

-----------------------------------------------------------------------------
(* The leader *)

Takes(type) ==
    /\ leader = "up"
    /\ leaderMail # <<>>
    /\ Head(leaderMail).type = type
    /\ leaderMail' = Tail(leaderMail)

\* Mutant: without the Optional.
ProblemOf(message) == message.problem

\* A start without a problem keeps the one before.
ProblemAfter(message) == IF message.problem = Null THEN problem ELSE message.problem

OnStartSimulation ==
    /\ Takes("StartSimulation")
    /\ problem' = ProblemAfter(Head(leaderMail))
    /\ agentMail' = [a \in Agents |-> Append(agentMail[a], StartSimulation(problem'))]
    /\ UNCHANGED <<benchmarkVars, leader, asked, replied, agentVars, fromMain, fromLeader,
                   evaluates, answers>>

AskToStop(a) ==
    /\ asked' = a
    /\ replied' = FALSE
    /\ agentMail' = [agentMail EXCEPT ![a] = Append(@, StopSimulation)]

OnStopSimulation ==
    /\ Takes("StopSimulation")
    /\ leader' = "stopping"
    /\ AskToStop(1)
    /\ UNCHANGED <<benchmarkVars, problem, agentVars, fromMain, fromLeader, evaluates, answers>>

AskNextAgent ==
    /\ leader = "stopping"
    /\ replied
    /\ asked < NumberOfAgents
    /\ AskToStop(asked + 1)
    /\ UNCHANGED <<benchmarkVars, leader, problem, agentVars, fromMain, fromLeader,
                   leaderMail, evaluates, answers>>

\* Mutant: nobody waits for the agents.
StopSent == leader = "stopping" /\ asked = NumberOfAgents

AgentsStopped == leader = "stopping" /\ asked = NumberOfAgents /\ replied

\* Mutant: the sender of the StopSimulation is not told.
SimulationStopsSilently ==
    /\ AgentsStopped
    /\ leader' = "up" /\ asked' = Nobody /\ replied' = FALSE
    /\ UNCHANGED <<benchmarkVars, problem, agentVars, mailVars>>

SimulationStops ==
    /\ AgentsStopped
    /\ leader' = "up" /\ asked' = Nobody /\ replied' = FALSE
    /\ fromLeader' = fromLeader + 1
    /\ UNCHANGED <<benchmarkVars, problem, agentVars, fromMain, leaderMail, agentMail,
                   evaluates, answers>>

AskTimesOut ==
    /\ AgentMayTimeOut
    /\ leader = "stopping"
    /\ ~replied
    /\ leader' = "failed"
    /\ UNCHANGED <<benchmarkVars, problem, asked, replied, agentVars, mailVars>>

-----------------------------------------------------------------------------
(* The agents.  A heuristic evaluates at least one solution. *)

Gets(a, type) ==
    /\ work[a] = "idle"
    /\ agentMail[a] # <<>>
    /\ Head(agentMail[a]).type = type
    /\ agentMail' = [agentMail EXCEPT ![a] = Tail(@)]

OnStartAgent(a) ==
    /\ Gets(a, "StartSimulation")
    /\ agentProblem' = [agentProblem EXCEPT ![a] = Head(agentMail[a]).problem]
    /\ agentStarted' = [agentStarted EXCEPT ![a] = TRUE]
    /\ UNCHANGED <<benchmarkVars, leaderVars, work, fromMain, fromLeader, leaderMail,
                   evaluates, answers>>

OnStopAgent(a) ==
    /\ Gets(a, "StopSimulation")
    /\ agentStarted' = [agentStarted EXCEPT ![a] = FALSE]
    /\ replied' = TRUE
    /\ UNCHANGED <<benchmarkVars, leader, problem, asked, agentProblem, work, fromMain,
                   fromLeader, leaderMail, evaluates, answers>>

Ask(a) ==
    /\ evaluates[a] < MaxPending
    /\ evaluates' = [evaluates EXCEPT ![a] = @ + 1]
    /\ work' = [work EXCEPT ![a] = "waiting"]

\* The timer's stimulus: a constructor runs its heuristic, any other agent
\* requests solutions, which a region may have.
OnInternalStimulus(a) ==
    /\ work[a] = "idle"
    /\ agentStarted[a]
    /\ IF a \in Constructors
       THEN Ask(a) /\ UNCHANGED answers
       ELSE /\ answers[a] < MaxPending
            /\ answers' = [answers EXCEPT ![a] = @ + 1]
            /\ UNCHANGED <<work, evaluates>>
    /\ UNCHANGED <<benchmarkVars, leaderVars, agentProblem, agentStarted, fromMain,
                   fromLeader, leaderMail, agentMail>>

\* Also in a stopped agent.
OnSolutionResponse(a) ==
    /\ work[a] = "idle"
    /\ answers[a] > 0
    /\ answers' = [answers EXCEPT ![a] = @ - 1]
    /\ Ask(a)
    /\ UNCHANGED <<benchmarkVars, leaderVars, agentProblem, agentStarted, fromMain,
                   fromLeader, leaderMail, agentMail>>

EvaluateNext(a) ==
    /\ work[a] = "running"
    /\ Ask(a)
    /\ UNCHANGED <<benchmarkVars, leaderVars, agentProblem, agentStarted, fromMain,
                   fromLeader, leaderMail, agentMail, answers>>

\* The heuristic ends: with a result, or because an evaluation timed out.
EndHeuristic(a) ==
    /\ work[a] \in {"running", "waiting", "unanswered"}
    /\ work' = [work EXCEPT ![a] = "idle"]
    /\ UNCHANGED <<benchmarkVars, leaderVars, agentProblem, agentStarted, mailVars>>

-----------------------------------------------------------------------------
BenchmarkActs == StartBenchmark \/ HandleSimulationEnd \/ \E a \in Agents : HandleEvaluate(a)

LeaderActs ==
    \/ OnStartSimulation
    \/ OnStopSimulation
    \/ AskNextAgent
    \/ SimulationStops
    \/ AskTimesOut

AgentActs(a) ==
    \/ OnStartAgent(a)
    \/ OnStopAgent(a)
    \/ OnInternalStimulus(a)
    \/ OnSolutionResponse(a)
    \/ EvaluateNext(a)
    \/ EndHeuristic(a)

Next == BenchmarkActs \/ LeaderActs \/ \E a \in Agents : AgentActs(a)

Spec == Init /\ [][Next]_vars

\* Every actor with mail is scheduled, the timer of a started agent ticks,
\* an ask without an answer times out.  A busy agent gets to the leader's
\* messages all the same: its mailbox is first in first out.
Fairness ==
    /\ WF_vars(StartBenchmark) /\ WF_vars(HandleSimulationEnd)
    /\ WF_vars(OnStartSimulation \/ OnStopSimulation \/ AskNextAgent \/ SimulationStops)
    /\ \A a \in Agents :
         /\ WF_vars(HandleEvaluate(a))
         /\ SF_vars(OnStartAgent(a) \/ OnStopAgent(a))
         /\ WF_vars(a \in Constructors /\ OnInternalStimulus(a))
         /\ WF_vars(EvaluateNext(a) \/ EndHeuristic(a))

FairSpec == Spec /\ Fairness

-----------------------------------------------------------------------------
(* There is one turn, and one actor has it: a simulation runs, or its end  *)
(* is under way from the last evaluation of the budget through the leader  *)
(* back to the BenchmarkActor, never twice.  So no problem is skipped and  *)
(* handleSimulationEnd always finds the problem that ended.                *)
StopsIn(mail) == {i \in DOMAIN mail : mail[i].type = "StopSimulation"}

EndUnderWay == StopsIn(leaderMail) # {} \/ leader = "stopping" \/ fromLeader > 0

OneTurn ==
    /\ runningSimulation => ~EndUnderWay
    /\ EndUnderWay => benchmarkProblem \in Problems /\ evaluations = EvaluationsBudget
    /\ \A i, j \in StopsIn(leaderMail) : i = j
    /\ StopsIn(leaderMail) # {} => leader # "stopping" /\ fromLeader = 0
    /\ leader = "stopping" => fromLeader = 0
    /\ fromLeader <= 1

(* No agent that is started works on another problem than the benchmark:   *)
(* the next problem is not taken before every agent has answered the stop. *)
StartedAgentsAgree ==
    benchmarkProblem \in Problems =>
        \A a \in Agents : agentStarted[a] => agentProblem[a] = benchmarkProblem

(* The run is one of the abstract suite: every problem gets its budget of  *)
(* evaluations, exactly, before the next one is taken, although Evaluates  *)
(* come late, from agents that gave up on them or were stopped.            *)
Suite == INSTANCE BenchmarkSuite WITH problem <- benchmarkProblem

ImplementsSuite == Suite!Spec

(* Every problem comes to its end, unless the leader fails to stop: an     *)
(* agent that waits for an evaluation never keeps the leader waiting.      *)
SuiteProceeds ==
    \A p \in Problems :
        benchmarkProblem = p ~> (benchmarkProblem # p \/ leader = "failed")

(* "No next benchmark problem, terminating the simulation" (nextProblem):  *)
(* once the suite is over every agent is stopped and stays so.             *)
SuiteEnds ==
    benchmarkProblem = Null ~> [](\A a \in Agents : ~agentStarted[a])
=============================================================================
