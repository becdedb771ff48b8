-------------------------- MODULE MCMigrationEngine --------------------------
(***************************************************************************)
(* Instances of MigrationEngine for TLC.                                   *)
(***************************************************************************)
EXTENDS MigrationEngineRefinement, TLC

Step1 == [ label |-> "define-bridge-xmitq", on |-> "source" ]
Step2 == [ label |-> "define-bridge-rcvr", on |-> "target" ]
Step3 == [ label |-> "define-bridge-sdr", on |-> "source" ]
Step4 == [ label |-> "start-bridge-sdr", on |-> "source" ]
Rewire == [ label |-> "rewire-qlocal-as-qremote", on |-> "source" ]

\* The whole plan of an application with one consumer queue, and a plan with
\* one command of every behaviour: on source, on target, cutover.
FullPlan == << Step1, Step2, Step3, Step4, Rewire >>
ShortPlan == << Step1, Step2, Rewire >>

TaskSymmetry == Permutations(Task)
=============================================================================
