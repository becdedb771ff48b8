--------------------------- MODULE AuditLogProperties ---------------------------
(***************************************************************************)
(* What the audit log promises to those who read it.                       *)
(***************************************************************************)
EXTENDS AuditLog

AuditTypeOK ==
  /\ counter \in Nat
  /\ log \in Seq(Entry)
  /\ ticket \in [Sessions -> Nat]
  /\ pending \in [Sessions -> Seq(Entry)]

\* ix_audit_lamport is unique: no two rows have one stamp, whichever sessions
\* raced, failed or were cut off by a restart that re-reads the clock.
LamportUnique ==
  \A i, j \in DOMAIN log : log[i].lamport = log[j].lamport => i = j

\* "Source of causal truth" (audit/lamport.py:1): whoever draws a stamp draws
\* a greater one than every entry that is committed by then, also just after a
\* restart; entries that overlap may commit in either order.
CausalOrder ==
  [][\A s \in Sessions : ticket'[s] \notin {0, ticket[s]} =>
       \A i \in DOMAIN log : log[i].lamport < ticket'[s]]_auditVars

\* A client that follows next_cursor to the end has been given every entry that
\* was committed when it began, newest first and none twice, although entries
\* with smaller stamps may be committed while it walks.
WalkComplete ==
  /\ \A i, j \in DOMAIN walk.got : i < j => walk.got[j] < walk.got[i]
  /\ walk.state = "done" =>
       walk.first \subseteq {walk.got[i] : i \in DOMAIN walk.got}
=============================================================================
