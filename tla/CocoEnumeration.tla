-------------------------- MODULE CocoEnumeration --------------------------
(***************************************************************************)
(* What a suite of CoCO promises to those who ask it for problems one by   *)
(* one: all it was asked for, each once, dimension by dimension, in each   *)
(* dimension function by function and in each function instance by         *)
(* instance, and then the answer that there is none left.                  *)
(***************************************************************************)
EXTENDS Integers, Sequences

CONSTANT Agendas      \* the agendas somebody may ask for

VARIABLES agenda,     \* the problems that were asked for, in their order
          handed,     \* how many of them were handed out
          problem,    \* the last one, or 0
          over        \* TRUE after the answer that there is none left

vars == <<agenda, handed, problem, over>>

Init == agenda = << >> /\ handed = 0 /\ problem = 0 /\ over = TRUE

Begin ==
  /\ agenda = << >>
  /\ agenda' \in Agendas
  /\ handed' = 0 /\ problem' = 0 /\ over' = FALSE

HandOut ==
  /\ ~ over /\ handed < Len(agenda)
  /\ handed' = handed + 1
  /\ problem' = agenda[handed + 1]
  /\ UNCHANGED <<agenda, over>>

NoneLeft ==
  /\ ~ over /\ handed = Len(agenda)
  /\ over' = TRUE
  /\ UNCHANGED <<agenda, handed, problem>>

Close == agenda' = << >> /\ handed' = 0 /\ problem' = 0 /\ over' = TRUE

Next == Begin \/ HandOut \/ NoneLeft \/ Close
Spec == Init /\ [][Next]_vars

=============================================================================
