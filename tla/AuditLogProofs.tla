----------------------------- MODULE AuditLogProofs -----------------------------
(***************************************************************************)
(* Proofs about AuditLog, for any set of sessions and any length of log.   *)
(***************************************************************************)
EXTENDS AuditLogProperties, RankProofs, WellFoundedInduction

-----------------------------------------------------------------------------
(* The inductive invariant: the clock is not behind any stamp, stamps are  *)
(* not used twice, and only one session has rows that are not committed.   *)

Bounded ==
  /\ \A i \in DOMAIN log : log[i].lamport <= counter
  /\ \A s \in Sessions : \A i \in DOMAIN pending[s] : pending[s][i].lamport <= counter
  /\ \A s \in Sessions : ticket[s] <= counter

OneWriter == \A s, t \in Sessions : Holds(s) /\ Holds(t) => s = t

TicketsFresh ==
  \A s \in Sessions : ticket[s] # 0 =>
    /\ \A t \in Sessions : ticket[s] = ticket[t] => s = t
    /\ \A i \in DOMAIN log : log[i].lamport # ticket[s]
    /\ \A t \in Sessions : \A i \in DOMAIN pending[t] : pending[t][i].lamport # ticket[s]

PendingFresh ==
  \A s \in Sessions : \A i \in DOMAIN pending[s] :
    /\ \A j \in DOMAIN pending[s] : pending[s][i].lamport = pending[s][j].lamport => i = j
    /\ \A j \in DOMAIN log : log[j].lamport # pending[s][i].lamport

AuditInv ==
  AuditTypeOK /\ Bounded /\ OneWriter /\ TicketsFresh /\ PendingFresh /\ LamportUnique

-----------------------------------------------------------------------------
\* A set of naturals that is not empty and has a bound has a greatest element.
LEMMA GreatestStamp ==
  ASSUME NEW S \in SUBSET Nat, S # {}, NEW b \in Nat, \A n \in S : n <= b
  PROVE  \E n \in S : \A m \in S : m <= n
<1> DEFINE Bounds == {c \in Nat : \A n \in S : n <= c}
<1>1. Bounds \subseteq Nat /\ Bounds # {}
  OBVIOUS
<1>2. PICK c \in Bounds : \A d \in Bounds : ~(d < c)
  <2>1. \E c \in Bounds : \A d \in Bounds : << d, c >> \notin OpToRel(<, Nat)
    BY <1>1, NatLessThanWellFounded, WFMin
  <2> QED BY <2>1, <1>1 DEF OpToRel
<1>3. c \in S
  <2>1. CASE c = 0
    <3>1. PICK n \in S : n <= 0
      BY <2>1
    <3>2. n = 0
      BY <3>1
    <3> QED BY <2>1, <3>2
  <2>2. CASE c # 0
    <3>1. c - 1 \in Nat /\ c - 1 < c
      BY <2>2
    <3>2. c - 1 \notin Bounds
      BY <3>1, <1>2
    <3>3. PICK n \in S : ~(n <= c - 1)
      BY <3>1, <3>2
    <3> QED BY <3>3
  <2> QED BY <2>1, <2>2
<1> QED BY <1>3

\* What the clock is read back from is not behind any committed stamp.
LEMMA BootstrapBounds ==
  ASSUME AuditTypeOK, Bounded
  PROVE  /\ Bootstrapped(log) \in Nat
         /\ \A i \in DOMAIN log : log[i].lamport <= Bootstrapped(log)
<1>1. CASE log = << >>
  BY <1>1 DEF Bootstrapped
<1>2. CASE log # << >>
  <2>1. Stamps(log) \in SUBSET Nat
    <3>1. \A i \in DOMAIN log : log[i] \in Entry
      BY DEF AuditTypeOK
    <3>2. \A i \in DOMAIN log : log[i].lamport \in Nat
      BY <3>1 DEF Entry
    <3> QED BY <3>2 DEF Stamps
  <2>2. Stamps(log) # {}
    <3>1. 1 \in DOMAIN log
      BY <1>2 DEF AuditTypeOK
    <3> QED BY <3>1 DEF Stamps
  <2>3. \A n \in Stamps(log) : n <= counter
    BY DEF Stamps, Bounded
  <2>4. counter \in Nat
    BY DEF AuditTypeOK
  <2>5. \E n \in Stamps(log) : \A m \in Stamps(log) : m <= n
    BY <2>1, <2>2, <2>3, <2>4, GreatestStamp
  <2>6. /\ Bootstrapped(log) \in Stamps(log)
        /\ \A m \in Stamps(log) : m <= Bootstrapped(log)
    BY <1>2, <2>5 DEF Bootstrapped
  <2> QED BY <2>1, <2>6 DEF Stamps
<1> QED BY <1>1, <1>2
-----------------------------------------------------------------------------
LEMMA InitAuditInv == AuditInit => AuditInv
BY DEF AuditInit, AuditInv, AuditTypeOK, Bounded, OneWriter, TicketsFresh, PendingFresh,
       LamportUnique, Holds

\* What the type invariant says of single rows.
LEMMA RowTypes ==
  ASSUME AuditTypeOK
  PROVE  /\ \A i \in DOMAIN log : log[i] \in Entry /\ log[i].lamport \in Nat \ {0}
         /\ \A s \in Sessions : /\ pending[s] \in Seq(Entry)
                              /\ ticket[s] \in Nat
                              /\ \A i \in DOMAIN pending[s] :
                                   /\ pending[s][i] \in Entry
                                   /\ pending[s][i].lamport \in Nat \ {0}
<1>1. \A i \in DOMAIN log : log[i] \in Entry
  BY DEF AuditTypeOK
<1>2. \A s \in Sessions : pending[s] \in Seq(Entry) /\ ticket[s] \in Nat
  BY DEF AuditTypeOK
<1>3. \A s \in Sessions : \A i \in DOMAIN pending[s] : pending[s][i] \in Entry
  BY <1>2
<1> QED BY <1>1, <1>2, <1>3 DEF Entry

LEMMA TickInv ==
  ASSUME AuditInv, NEW s \in Sessions, Tick(s)
  PROVE  AuditInv'
<1> USE DEF AuditInv
<1>1. /\ counter \in Nat /\ counter' = counter + 1
      /\ ticket' \in [Sessions -> Nat]
      /\ \A t \in Sessions : ticket'[t] = IF t = s THEN counter + 1 ELSE ticket[t]
      /\ log' = log /\ pending' = pending
  BY DEF Tick, AuditTypeOK
<1>2. AuditTypeOK'
  BY <1>1 DEF AuditTypeOK
<1>3. Bounded'
  BY <1>1, RowTypes DEF Bounded
<1>4. TicketsFresh'
  BY <1>1, RowTypes DEF TicketsFresh, Bounded
<1>5. OneWriter' /\ PendingFresh' /\ LamportUnique'
  BY <1>1 DEF OneWriter, Holds, PendingFresh, LamportUnique
<1> QED BY <1>2, <1>3, <1>4, <1>5

LEMMA FlushInv ==
  ASSUME AuditInv, NEW s \in Sessions, NEW success \in BOOLEAN, Flush(s, success)
  PROVE  AuditInv'
<1> USE DEF AuditInv
<1> DEFINE new == [lamport |-> ticket[s], by |-> s, success |-> success]
<1>1. new \in Entry /\ new.lamport = ticket[s]
  BY RowTypes DEF Flush, Entry
<1>2. /\ \A t \in Sessions : pending'[t] = IF t = s THEN Append(pending[s], new) ELSE pending[t]
      /\ \A t \in Sessions : ticket'[t] = IF t = s THEN 0 ELSE ticket[t]
      /\ counter' = counter /\ log' = log
      /\ ticket[s] # 0 /\ ~Locked(s)
  BY DEF Flush, AuditTypeOK
<1>3. AuditTypeOK'
  BY <1>1, <1>2, RowTypes DEF AuditTypeOK, Flush
<1>4. \A t \in Sessions : \A i \in DOMAIN pending'[t] :
        \/ i \in DOMAIN pending[t] /\ pending'[t][i] = pending[t][i]
        \/ t = s /\ i = Len(pending[s]) + 1 /\ pending'[t][i] = new
  <2> SUFFICES ASSUME NEW t \in Sessions, NEW i \in DOMAIN pending'[t]
               PROVE  \/ i \in DOMAIN pending[t] /\ pending'[t][i] = pending[t][i]
                      \/ t = s /\ i = Len(pending[s]) + 1 /\ pending'[t][i] = new
    OBVIOUS
  <2>1. CASE t # s
    BY <2>1, <1>2
  <2>2. CASE t = s
    <3>1. pending[s] \in Seq(Entry)
      BY RowTypes
    <3>2. pending'[s] = Append(pending[s], new)
      BY <1>2
    <3> HIDE DEF new
    <3> QED BY <2>2, <3>1, <3>2, <1>1
  <2> QED BY <2>1, <2>2
<1>5. Bounded'
  <2>1. \A t \in Sessions : \A i \in DOMAIN pending'[t] : pending'[t][i].lamport <= counter'
    BY <1>1, <1>2, <1>4 DEF Bounded
  <2>2. \A t \in Sessions : ticket'[t] <= counter'
    <3>1. counter \in Nat
      BY DEF AuditTypeOK
    <3> QED BY <3>1, <1>2 DEF Bounded
  <2> QED BY <2>1, <2>2, <1>2 DEF Bounded
<1>6. OneWriter'
  BY <1>2 DEF OneWriter, Holds, Locked
<1>7. TicketsFresh'
  BY <1>1, <1>2, <1>4 DEF TicketsFresh
<1>8. PendingFresh'
  BY <1>1, <1>2, <1>4 DEF PendingFresh, TicketsFresh
<1>9. LamportUnique'
  BY <1>2 DEF LamportUnique
<1> QED BY <1>3, <1>5, <1>6, <1>7, <1>8, <1>9

LEMMA CommitInv ==
  ASSUME AuditInv, NEW s \in Sessions, Commit(s)
  PROVE  AuditInv'
<1> USE DEF AuditInv
<1>1. /\ \A t \in Sessions : pending'[t] = IF t = s THEN << >> ELSE pending[t]
      /\ counter' = counter /\ ticket' = ticket
      /\ log' = log \o pending[s] /\ pending[s] # << >>
  BY DEF Commit, AuditTypeOK, Holds
<1>2. AuditTypeOK'
  BY <1>1, RowTypes DEF AuditTypeOK, Commit
<1>3. /\ \A i \in DOMAIN log' :
           \/ i \in DOMAIN log /\ log'[i] = log[i]
           \/ i - Len(log) \in DOMAIN pending[s] /\ log'[i] = pending[s][i - Len(log)]
      /\ Len(log) \in Nat
      /\ DOMAIN log' \subseteq Nat
  BY <1>1, RowTypes DEF AuditTypeOK
<1>4. \A t \in Sessions : t # s => pending[t] = << >>
  BY <1>1 DEF OneWriter, Holds
<1>a. \A t \in Sessions : \A i \in DOMAIN pending'[t] :
        i \in DOMAIN pending[t] /\ pending'[t][i] = pending[t][i]
  BY <1>1
<1>5. Bounded'
  <2>1. \A i \in DOMAIN log' : log'[i].lamport <= counter'
    BY <1>1, <1>3 DEF Bounded
  <2>2. \A t \in Sessions : \A i \in DOMAIN pending'[t] : pending'[t][i].lamport <= counter'
    BY <1>1, <1>a DEF Bounded
  <2> QED BY <2>1, <2>2, <1>1 DEF Bounded
<1>6. OneWriter'
  BY <1>1 DEF OneWriter, Holds
<1>7. TicketsFresh'
  <2> SUFFICES ASSUME NEW u \in Sessions, ticket[u] # 0
               PROVE  /\ \A t \in Sessions : ticket[u] = ticket[t] => u = t
                      /\ \A i \in DOMAIN log' : log'[i].lamport # ticket[u]
                      /\ \A t \in Sessions : \A i \in DOMAIN pending'[t] :
                           pending'[t][i].lamport # ticket[u]
    BY <1>1 DEF TicketsFresh
  <2>1. \A i \in DOMAIN log' : log'[i].lamport # ticket[u]
    BY <1>3 DEF TicketsFresh
  <2>2. \A t \in Sessions : \A i \in DOMAIN pending'[t] : pending'[t][i].lamport # ticket[u]
    BY <1>a DEF TicketsFresh
  <2> QED BY <2>1, <2>2 DEF TicketsFresh
<1>8. PendingFresh'
  BY <1>1, <1>4 DEF PendingFresh
<1>9. LamportUnique'
  <2> SUFFICES ASSUME NEW i \in DOMAIN log', NEW j \in DOMAIN log',
                      log'[i].lamport = log'[j].lamport
               PROVE  i = j
    BY DEF LamportUnique
  <2>1. CASE i \in DOMAIN log /\ log'[i] = log[i] /\ j \in DOMAIN log /\ log'[j] = log[j]
    BY <2>1 DEF LamportUnique
  <2>2. CASE /\ i - Len(log) \in DOMAIN pending[s] /\ log'[i] = pending[s][i - Len(log)]
             /\ j - Len(log) \in DOMAIN pending[s] /\ log'[j] = pending[s][j - Len(log)]
    <3>1. i - Len(log) = j - Len(log)
      BY <2>2 DEF PendingFresh
    <3> QED BY <3>1, <1>3
  <2>3. CASE /\ i \in DOMAIN log /\ log'[i] = log[i]
             /\ j - Len(log) \in DOMAIN pending[s] /\ log'[j] = pending[s][j - Len(log)]
    BY <2>3 DEF PendingFresh
  <2>4. CASE /\ j \in DOMAIN log /\ log'[j] = log[j]
             /\ i - Len(log) \in DOMAIN pending[s] /\ log'[i] = pending[s][i - Len(log)]
    BY <2>4 DEF PendingFresh
  <2> QED BY <1>3, <2>1, <2>2, <2>3, <2>4
<1> QED BY <1>2, <1>5, <1>6, <1>7, <1>8, <1>9

\* A session loses its stamp.
LEMMA FlushFailsInv ==
  ASSUME AuditInv, NEW s \in Sessions, FlushFails(s)
  PROVE  AuditInv'
<1> USE DEF AuditInv
<1>1. /\ \A t \in Sessions : ticket'[t] = IF t = s THEN 0 ELSE ticket[t]
      /\ counter' = counter /\ log' = log /\ pending' = pending
      /\ counter \in Nat
  BY DEF FlushFails, AuditTypeOK
<1>2. AuditTypeOK'
  BY <1>1 DEF AuditTypeOK, FlushFails
<1>3. Bounded'
  BY <1>1 DEF Bounded
<1>4. TicketsFresh'
  BY <1>1 DEF TicketsFresh
<1>5. OneWriter' /\ PendingFresh' /\ LamportUnique'
  BY <1>1 DEF OneWriter, Holds, PendingFresh, LamportUnique
<1> QED BY <1>2, <1>3, <1>4, <1>5

\* A session loses its stamp and its rows.
LEMMA RollbackInv ==
  ASSUME AuditInv, NEW s \in Sessions, Rollback(s)
  PROVE  AuditInv'
<1> USE DEF AuditInv
<1>1. /\ \A t \in Sessions : ticket'[t] = IF t = s THEN 0 ELSE ticket[t]
      /\ \A t \in Sessions : pending'[t] = IF t = s THEN << >> ELSE pending[t]
      /\ counter' = counter /\ log' = log
      /\ counter \in Nat
  BY DEF Rollback, AuditTypeOK
<1>2. AuditTypeOK'
  BY <1>1 DEF AuditTypeOK, Rollback
<1>3. \A t \in Sessions : \A i \in DOMAIN pending'[t] :
        i \in DOMAIN pending[t] /\ pending'[t] = pending[t]
  BY <1>1
<1>4. Bounded'
  <2>1. \A t \in Sessions : ticket'[t] <= counter'
    BY <1>1 DEF Bounded
  <2> QED BY <1>1, <1>3, <2>1 DEF Bounded
<1>5. TicketsFresh' /\ OneWriter'
  BY <1>1, <1>3 DEF TicketsFresh, OneWriter, Holds
<1>6. PendingFresh' /\ LamportUnique'
  BY <1>1, <1>3 DEF PendingFresh, LamportUnique
<1> QED BY <1>2, <1>4, <1>5, <1>6

LEMMA RestartInv ==
  ASSUME AuditInv, Restart
  PROVE  AuditInv'
<1> USE DEF AuditInv
<1>1. /\ \A t \in Sessions : pending'[t] = << >> /\ ticket'[t] = 0
      /\ counter' = Bootstrapped(log) /\ log' = log
  BY DEF Restart
<1>2. AuditTypeOK'
  BY <1>1, BootstrapBounds DEF AuditTypeOK, Restart
<1>3. Bounded'
  BY <1>1, BootstrapBounds DEF Bounded
<1>4. OneWriter' /\ TicketsFresh' /\ PendingFresh' /\ LamportUnique'
  BY <1>1 DEF OneWriter, Holds, TicketsFresh, PendingFresh, LamportUnique
<1> QED BY <1>2, <1>3, <1>4

LEMMA NextAuditInv == AuditInv /\ [AuditNext]_auditVars => AuditInv'
<1> SUFFICES ASSUME AuditInv, [AuditNext]_auditVars PROVE AuditInv'
  OBVIOUS
<1>1. ASSUME NEW s \in Sessions, Tick(s) PROVE AuditInv'
  BY <1>1, TickInv
<1>2. ASSUME NEW s \in Sessions, NEW success \in BOOLEAN, Flush(s, success) PROVE AuditInv'
  BY <1>2, FlushInv
<1>3. ASSUME NEW s \in Sessions, FlushFails(s) \/ Rollback(s) PROVE AuditInv'
  BY <1>3, FlushFailsInv, RollbackInv
<1>4. ASSUME NEW s \in Sessions, Commit(s) PROVE AuditInv'
  BY <1>4, CommitInv
<1>5. CASE Restart
  BY <1>5, RestartInv
<1>6. CASE ReadPage \/ UNCHANGED auditVars
  <2>1. UNCHANGED << counter, log, ticket, pending >>
    BY <1>6 DEF ReadPage, auditVars
  <2> QED BY <2>1 DEF AuditInv, AuditTypeOK, Bounded, OneWriter, Holds, TicketsFresh,
                      PendingFresh, LamportUnique
<1> QED BY <1>1, <1>2, <1>3, <1>4, <1>5, <1>6 DEF AuditNext

\* Whoever draws a stamp draws one beyond all that is committed.
LEMMA TickIsLater ==
  ASSUME AuditInv, [AuditNext]_auditVars, NEW s \in Sessions,
         ticket'[s] \notin {0, ticket[s]}
  PROVE  \A i \in DOMAIN log : log[i].lamport < ticket'[s]
<1>1. PICK t \in Sessions : Tick(t)
  <2>1. ~UNCHANGED ticket
    OBVIOUS
  <2>2. ASSUME NEW t \in Sessions, FlushFails(t) \/ Rollback(t)
        PROVE  ticket'[s] \in {0, ticket[s]}
    BY <2>2 DEF FlushFails, Rollback, AuditInv, AuditTypeOK
  <2>3. ASSUME NEW t \in Sessions, NEW success \in BOOLEAN, Flush(t, success)
        PROVE  ticket'[s] \in {0, ticket[s]}
    BY <2>3 DEF Flush, AuditInv, AuditTypeOK
  <2>4. ASSUME Restart PROVE ticket'[s] = 0
    BY <2>4 DEF Restart
  <2> QED BY <2>1, <2>2, <2>3, <2>4 DEF AuditNext, Commit, ReadPage, auditVars
<1>2. /\ ticket'[s] = counter + 1
      /\ counter \in Nat
  BY <1>1 DEF Tick, AuditInv, AuditTypeOK
<1> QED BY <1>2, RowTypes DEF AuditInv, Bounded

-----------------------------------------------------------------------------
THEOREM AuditInvariant == AuditSpec => []AuditInv
BY InitAuditInv, NextAuditInv, PTL DEF AuditSpec

\* Stamps are unique (models/orm.py, ix_audit_lamport), for any number of
\* sessions, failures and restarts.
THEOREM StampsUnique == AuditSpec => []LamportUnique
<1>1. AuditInv => LamportUnique
  BY DEF AuditInv
<1> QED BY <1>1, AuditInvariant, PTL

\* A stamp is greater than every stamp committed before it was drawn
\* (audit/lamport.py).
THEOREM StampsAreCausal == AuditSpec => CausalOrder
<1>1. AuditInv /\ [AuditNext]_auditVars
        => [\A s \in Sessions : ticket'[s] \notin {0, ticket[s]} =>
              \A i \in DOMAIN log : log[i].lamport < ticket'[s]]_auditVars
  BY TickIsLater
<1> QED BY <1>1, AuditInvariant, PTL DEF AuditSpec, CausalOrder

-----------------------------------------------------------------------------
(* Paging. *)

\* A page is newest first, is part of the set, and is all of it down to the
\* next cursor, or all of it when there is no more.
LEMMA PageFacts ==
  ASSUME NEW S \in SUBSET (Nat \ {0}), IsFiniteSet(S)
  PROVE  /\ Page(S) \in Seq(S)
         /\ \A i, j \in DOMAIN Page(S) : i < j => Page(S)[j] < Page(S)[i]
         /\ NextCursor(S) = 0 =>
              \A n \in S : \E i \in DOMAIN Page(S) : Page(S)[i] = n
         /\ NextCursor(S) # 0 =>
              /\ NextCursor(S) \in S
              /\ \A i \in DOMAIN Page(S) : Page(S)[i] >= NextCursor(S)
              /\ \A n \in S : n < NextCursor(S) \/ \E i \in DOMAIN Page(S) : Page(S)[i] = n
<1> DEFINE k == Cardinality(S)
           size == IF k > PageSize THEN PageSize ELSE k
           p == Page(S)
<1>1. k \in Nat /\ S \in SUBSET Nat /\ size \in Nat /\ size <= k /\ PageSize \in Nat \ {0}
  BY FS_CardinalityType, PageAssumption
<1>2. /\ Descending(S) \in Seq(S) /\ Len(Descending(S)) = k
      /\ \A i \in 1 .. k : Rank(Descending(S)[i], S) = i
      /\ \A i, j \in 1 .. k : i < j => Descending(S)[j] < Descending(S)[i]
      /\ \A n \in S : Rank(n, S) \in 1 .. k /\ Descending(S)[Rank(n, S)] = n
  BY <1>1, DescendingFacts
<1>3. p = SubSeq(Descending(S), 1, size)
  BY DEF Page
<1> HIDE DEF p, size, k
<1>4. DOMAIN p = 1 .. size /\ p \in Seq(S) /\ \A i \in 1 .. size : p[i] = Descending(S)[i]
  BY <1>1, <1>2, <1>3
<1>5. \A i \in 1 .. size : i \in 1 .. k /\ p[i] \in S /\ Rank(p[i], S) = i
  BY <1>1, <1>2, <1>4
<1>6. \A i, j \in 1 .. size : i < j => p[j] < p[i]
  BY <1>2, <1>4, <1>5
\* The stamp with a rank is the one on the page.
<1>7. \A n \in S : Rank(n, S) <= size => \E i \in 1 .. size : p[i] = n
  <2> SUFFICES ASSUME NEW n \in S, Rank(n, S) <= size
               PROVE  p[Rank(n, S)] = n /\ Rank(n, S) \in 1 .. size
    OBVIOUS
  <2>1. Rank(n, S) \in 1 .. size
    BY <1>1, <1>2
  <2> QED BY <1>2, <1>4, <2>1
<1>8. CASE k > PageSize
  <2>1. NextCursor(S) = p[PageSize] /\ size = PageSize /\ PageSize \in 1 .. size
    BY <1>1, <1>8 DEF NextCursor, p, size, k
  <2>2. p[PageSize] \in S /\ p[PageSize] # 0 /\ Rank(p[PageSize], S) = PageSize
    BY <1>5, <2>1
  <2>3. \A i \in 1 .. size : p[i] >= p[PageSize]
    <3> SUFFICES ASSUME NEW i \in 1 .. size PROVE p[i] >= p[PageSize]
      OBVIOUS
    <3>1. p[i] \in Nat /\ p[PageSize] \in Nat
      BY <1>1, <1>5, <2>2
    <3>2. i = PageSize \/ i < PageSize
      BY <1>1, <2>1
    <3>3. i < PageSize => p[PageSize] < p[i]
      BY <1>6, <2>1
    <3> QED BY <3>1, <3>2, <3>3
  <2>4. ASSUME NEW n \in S, ~(n < p[PageSize]) PROVE Rank(n, S) <= size
    <3>4. n \in Nat /\ p[PageSize] \in Nat
      BY <1>1, <2>2
    <3>1. n = p[PageSize] \/ p[PageSize] < n
      BY <2>4, <3>4
    <3>2. p[PageSize] < n => Rank(n, S) < PageSize
      BY <1>1, <2>2, RankFalls
    <3>3. Rank(n, S) \in Nat
      BY <1>1, RankRange
    <3> QED BY <1>1, <2>1, <2>2, <3>1, <3>2, <3>3
  <2> QED BY <1>4, <1>6, <1>7, <2>1, <2>2, <2>3, <2>4 DEF p
<1>9. CASE ~(k > PageSize)
  <2>1. NextCursor(S) = 0 /\ size = k
    BY <1>9 DEF NextCursor, size, k
  <2>2. \A n \in S : Rank(n, S) <= size
    BY <1>1, <2>1, RankRange DEF k
  <2> QED BY <1>4, <1>6, <1>7, <2>1, <2>2 DEF p
<1> QED BY <1>8, <1>9

-----------------------------------------------------------------------------
(* The walk.  Between two pages the client has every entry of the first    *)
(* page's time but those below the cursor, and those are still in the log. *)

Fetched(n) == \E i \in DOMAIN walk.got : walk.got[i] = n

WalkInv ==
  /\ walk \in [state : {"none", "reading", "done"}, cursor : Nat,
               got : Seq(Nat \ {0}), first : SUBSET Nat]
  /\ walk.first \subseteq Stamps(log)
  /\ \A i, j \in DOMAIN walk.got : i < j => walk.got[j] < walk.got[i]
  /\ walk.state = "none" => walk.got = << >> /\ walk.cursor = 0
  /\ walk.state = "reading" =>
       /\ walk.cursor # 0
       /\ \A i \in DOMAIN walk.got : walk.got[i] >= walk.cursor
       /\ \A n \in walk.first : n < walk.cursor \/ Fetched(n)
  /\ walk.state = "done" => \A n \in walk.first : Fetched(n)

\* The log's stamps only become more, and the walk moves by ReadPage only.
LEMMA LogGrows ==
  ASSUME AuditInv, [AuditNext]_auditVars
  PROVE  Stamps(log) \subseteq Stamps(log)' /\ (ReadPage \/ walk' = walk)
<1>1. ASSUME NEW s \in Sessions, Commit(s)
      PROVE  Stamps(log) \subseteq Stamps(log)' /\ walk' = walk
  <2>1. log \in Seq(Entry) /\ pending[s] \in Seq(Entry) /\ log' = log \o pending[s]
    BY <1>1, RowTypes DEF Commit, AuditInv, AuditTypeOK
  <2>2. \A i \in DOMAIN log : i \in DOMAIN log' /\ log'[i] = log[i]
    BY <2>1
  <2> QED BY <1>1, <2>2 DEF Stamps, Commit
<1>2. ASSUME NEW s \in Sessions,
             \/ Tick(s) \/ \E success \in BOOLEAN : Flush(s, success)
             \/ FlushFails(s) \/ Rollback(s)
      PROVE  log' = log /\ walk' = walk
  BY <1>2 DEF Tick, Flush, FlushFails, Rollback
<1>3. ASSUME Restart \/ ReadPage \/ UNCHANGED auditVars
      PROVE  log' = log /\ (ReadPage \/ walk' = walk)
  BY <1>3 DEF Restart, ReadPage, auditVars
<1> QED BY <1>1, <1>2, <1>3 DEF AuditNext, Stamps

LEMMA StampsFinite ==
  ASSUME AuditInv, NEW c \in Nat
  PROVE  Matching(c) \in SUBSET (Nat \ {0}) /\ IsFiniteSet(Matching(c))
<1>1. \A i \in DOMAIN log : log[i].lamport \in Nat \ {0} /\ log[i].lamport <= counter
  BY RowTypes DEF AuditInv, Bounded
<1>2. Matching(c) \in SUBSET (Nat \ {0}) /\ \A n \in Matching(c) : n <= counter
  BY <1>1 DEF Matching, Stamps
<1>3. Matching(c) \in SUBSET Nat /\ counter \in Nat
  BY <1>2 DEF AuditInv, AuditTypeOK
<1> QED BY <1>2, <1>3, FS_BoundedSetOfNaturals

LEMMA SeqWider ==
  ASSUME NEW T, NEW S \in SUBSET T, NEW s \in Seq(S)
  PROVE  s \in Seq(T)
<1>1. PICK n \in Nat : n = Len(s)
  OBVIOUS
<1>2. s \in [1 .. n -> T]
  BY <1>1
<1> QED BY <1>2

LEMMA ReadPageWalk ==
  ASSUME AuditInv, WalkInv, ReadPage
  PROVE  WalkInv'
<1> DEFINE S == Matching(walk.cursor)
           p == Page(S)
           got == walk.got
<1>1. /\ walk.state \in {"none", "reading"} /\ walk.cursor \in Nat
      /\ got \in Seq(Nat \ {0}) /\ walk.first \in SUBSET Nat
  BY DEF WalkInv, ReadPage
<1>2. S \in SUBSET (Nat \ {0}) /\ IsFiniteSet(S)
  BY <1>1, StampsFinite
<1>3. /\ p \in Seq(S) /\ \A i, j \in DOMAIN p : i < j => p[j] < p[i]
      /\ NextCursor(S) = 0 => \A n \in S : \E i \in DOMAIN p : p[i] = n
      /\ NextCursor(S) # 0 =>
           /\ NextCursor(S) \in S
           /\ \A i \in DOMAIN p : p[i] >= NextCursor(S)
           /\ \A n \in S : n < NextCursor(S) \/ \E i \in DOMAIN p : p[i] = n
  BY <1>2, PageFacts
<1>4. /\ walk'.state = IF NextCursor(S) = 0 THEN "done" ELSE "reading"
      /\ walk'.cursor = NextCursor(S) /\ walk'.got = got \o p
      /\ walk'.first = IF walk.state = "none" THEN Stamps(log) ELSE walk.first
      /\ log' = log
      /\ walk' = [state |-> walk'.state, cursor |-> walk'.cursor,
                  got |-> walk'.got, first |-> walk'.first]
  BY DEF ReadPage
\* What the page holds lies below all that came before.
<1>5. \A n \in S : walk.state = "reading" => n < walk.cursor
  BY DEF Matching, WalkInv
<1>6. Stamps(log) \subseteq Nat \ {0}
  BY RowTypes DEF Stamps, AuditInv
<1>7. walk'.first \subseteq Stamps(log) /\ walk'.first \subseteq Nat
  BY <1>4, <1>6 DEF WalkInv
\* What is due: all of what was there at first is fetched or in S.
<1>8. \A n \in walk'.first : n \in S \/ (walk.state = "reading" /\ Fetched(n))
  <2>1. CASE walk.state = "none"
    BY <1>4, <2>1 DEF WalkInv, Matching
  <2>2. CASE walk.state = "reading"
    BY <1>4, <2>2 DEF WalkInv, Matching
  <2> QED BY <1>1, <2>1, <2>2
<1> HIDE DEF S, p, got
<1>9. p \in Seq(Nat \ {0})
  BY <1>2, <1>3, SeqWider
<1>10. PICK k \in Nat, n \in Nat : k = Len(got) /\ n = Len(p)
  BY <1>1, <1>9
<1>11. /\ DOMAIN got = 1 .. k /\ DOMAIN p = 1 .. n /\ DOMAIN walk'.got = 1 .. k + n
       /\ \A i \in 1 .. k : walk'.got[i] = got[i]
       /\ \A i \in 1 .. n : walk'.got[k + i] = p[i]
       /\ walk'.got \in Seq(Nat \ {0})
  BY <1>1, <1>4, <1>9, <1>10
<1>12. \A i \in 1 .. k + n : i \in 1 .. k \/ (i - k \in 1 .. n /\ walk'.got[i] = p[i - k])
  <2> SUFFICES ASSUME NEW i \in 1 .. k + n, i \notin 1 .. k
               PROVE  i - k \in 1 .. n /\ walk'.got[i] = p[i - k]
    OBVIOUS
  <2>1. i - k \in 1 .. n /\ k + (i - k) = i
    BY <1>10
  <2> QED BY <1>11, <2>1
<1>19. \A i \in 1 .. k : /\ walk'.got[i] \in Nat
                         /\ walk.state = "reading" => walk'.got[i] >= walk.cursor
  <2>1. \A i \in 1 .. k : got[i] \in Nat
    BY <1>1, <1>11
  <2>2. walk.state = "reading" => \A i \in DOMAIN got : got[i] >= walk.cursor
    BY DEF WalkInv, got
  <2> QED BY <1>11, <2>1, <2>2
<1>13. walk' \in [state : {"none", "reading", "done"}, cursor : Nat,
                  got : Seq(Nat \ {0}), first : SUBSET Nat]
  <2>1. walk'.cursor \in Nat
    BY <1>2, <1>3, <1>4
  <2> QED BY <1>4, <1>7, <1>11, <2>1
<1>14. \A i, j \in DOMAIN walk'.got : i < j => walk'.got[j] < walk'.got[i]
  <2> SUFFICES ASSUME NEW i \in 1 .. k + n, NEW j \in 1 .. k + n, i < j
               PROVE  walk'.got[j] < walk'.got[i]
    BY <1>11
  <2>1. CASE j \in 1 .. k
    <3>1. i \in 1 .. k
      BY <1>10, <2>1
    <3> QED BY <1>11, <2>1, <3>1 DEF WalkInv, got
  <2>2. CASE j \notin 1 .. k /\ i \notin 1 .. k
    <3>1. i - k \in 1 .. n /\ j - k \in 1 .. n /\ i - k < j - k
      BY <1>10, <1>12, <2>2
    <3> QED BY <1>3, <1>11, <1>12, <2>2, <3>1
  <2>3. CASE j \notin 1 .. k /\ i \in 1 .. k
    <3>1. walk.state = "reading"
      BY <1>1, <1>11, <2>3 DEF WalkInv, got
    <3>2. walk'.got[i] >= walk.cursor /\ walk'.got[i] \in Nat
      BY <1>1, <1>19, <2>3, <3>1
    <3>3. walk'.got[j] \in S /\ walk'.got[j] \in Nat
      BY <1>2, <1>3, <1>11, <1>12, <2>3
    <3> QED BY <1>1, <1>5, <3>1, <3>2, <3>3
  <2> QED BY <2>1, <2>2, <2>3
<1>15. /\ \A i \in DOMAIN got : \E j \in DOMAIN walk'.got : walk'.got[j] = got[i]
       /\ \A i \in DOMAIN p : \E j \in DOMAIN walk'.got : walk'.got[j] = p[i]
  <2>1. \A i \in 1 .. k : i \in 1 .. k + n
    BY <1>10
  <2>2. \A i \in 1 .. n : k + i \in 1 .. k + n
    BY <1>10
  <2> QED BY <1>11, <2>1, <2>2
<1>16. \A m : (Fetched(m) \/ \E i \in DOMAIN p : p[i] = m) => Fetched(m)'
  BY <1>15 DEF Fetched, got
<1>17. CASE NextCursor(S) = 0
  <2>1. \A m \in walk'.first : Fetched(m)'
    BY <1>3, <1>8, <1>16, <1>17
  <2> QED BY <1>4, <1>7, <1>13, <1>14, <1>17, <2>1 DEF WalkInv
<1>18. CASE NextCursor(S) # 0
  <2>1. \A m \in walk'.first : m < walk'.cursor \/ Fetched(m)'
    BY <1>3, <1>4, <1>8, <1>16, <1>18
  <2>2. \A i \in DOMAIN walk'.got : walk'.got[i] >= walk'.cursor
    <3> SUFFICES ASSUME NEW i \in 1 .. k + n PROVE walk'.got[i] >= walk'.cursor
      BY <1>11
    <3>1. CASE i \in 1 .. k
      <4>1. walk.state = "reading"
        BY <1>1, <1>11, <3>1 DEF WalkInv, got
      <4>2. walk'.got[i] >= walk.cursor /\ walk'.got[i] \in Nat
        BY <1>1, <1>19, <3>1, <4>1
      <4>3. NextCursor(S) < walk.cursor /\ NextCursor(S) \in Nat
        BY <1>2, <1>3, <1>5, <1>18, <4>1
      <4>4. walk'.got[i] >= NextCursor(S)
        BY <1>1, <4>2, <4>3
      <4>5. walk'.cursor = NextCursor(S)
        BY <1>4
      <4> QED BY <4>4, <4>5
    <3>2. CASE i \notin 1 .. k
      <4>1. i - k \in DOMAIN p /\ walk'.got[i] = p[i - k]
        BY <1>11, <1>12, <3>2
      <4> QED BY <1>3, <1>4, <1>18, <4>1
    <3> QED BY <3>1, <3>2
  <2> QED BY <1>4, <1>7, <1>13, <1>14, <1>18, <2>1, <2>2 DEF WalkInv
<1> QED BY <1>17, <1>18

LEMMA NextWalkInv == AuditInv /\ WalkInv /\ [AuditNext]_auditVars => WalkInv'
<1> SUFFICES ASSUME AuditInv, WalkInv, [AuditNext]_auditVars PROVE WalkInv'
  OBVIOUS
<1>1. ASSUME walk' = walk, Stamps(log) \subseteq Stamps(log)' PROVE WalkInv'
  <2>1. walk'.first \subseteq Stamps(log)'
    BY <1>1 DEF WalkInv
  <2> QED BY <1>1, <2>1 DEF WalkInv, Fetched
<1> QED BY <1>1, LogGrows, ReadPageWalk

\* A client that follows next_cursor to the end misses no entry that was there
\* when it began and sees none twice, whatever is committed while it walks
\* (api/audit.py, list_audit), for any page size and any length of log.
THEOREM WalksAreComplete == AuditSpec => []WalkComplete
<1>1. AuditInit => WalkInv
  BY DEF AuditInit, NoWalk, WalkInv, Stamps
<1>2. WalkInv => WalkComplete
  BY DEF WalkInv, WalkComplete, Fetched
<1>3. AuditInv /\ WalkInv /\ [AuditNext]_auditVars => WalkInv'
  BY NextWalkInv
<1> QED BY <1>1, <1>2, <1>3, AuditInvariant, PTL DEF AuditSpec
=============================================================================
