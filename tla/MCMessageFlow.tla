------------------------------ MODULE MCMessageFlow ------------------------------
(***************************************************************************)
(* Instances of MessageFlowSystem for TLC.                                 *)
(***************************************************************************)
EXTENDS MessageFlowSystem

CONSTANTS t1, t2, other

AllSessions == {t1, t2, other}
AllTests == {t1, t2}

\* The second test repeats the payload of an earlier one.
SomePayloads == [m \in {t1, t2, Stale} |-> IF m = t1 THEN "fresh" ELSE "default"]

Pair == << "producer", "consumer" >>
Reply == << "consumer", "producer" >>
Flow(kind, apps) == [kind |-> kind, apps |-> apps]

\* A topology whose only flow goes the other way, one with a local flow too,
\* and one with both kinds.
SomeFlows ==
  {<< Flow("Remote", Reply) >>,
   << Flow("Remote", Reply), Flow("Local", Pair) >>,
   << Flow("Local", Pair), Flow("Remote", Pair) >>}
SomeApps == {Pair}
=============================================================================
