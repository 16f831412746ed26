------------------------- MODULE AlertIngestProofs -------------------------
(***************************************************************************)
(* The cadence of alerts, for any number of alerts, rules and concurrent   *)
(* uplinks.  The grace property is not inductive: it needs that a row lock *)
(* has one holder, and that an uncommitted claim is still due against the  *)
(* committed stamp, which only its holder can move.  What the tasks pushed *)
(* from inside a transaction have to do with its claims comes after it.    *)
(***************************************************************************)
EXTENDS AlertIngest, TLAPS

\* A row claimed by an open transaction is locked: nobody else claims it.
OneHolder ==
    \A u, v \in Uplinks : \A a \in Alerts : Locks(u, a) /\ Locks(v, a) => u = v

\* Whatever grace the code can read is at least the alert's spacing.
Patient ==
    /\ \A a \in Alerts : rule[a] # Deleted => rule[a].grace >= Spacing[a]
    /\ \A u \in Uplinks : \A row \in todo[u] :
          row.rule.grace >= Spacing[row.id]

\* An uncommitted claim is due against the committed stamp.
ClaimsDue ==
    \A u \in Uplinks : \A a \in Alerts : Locks(u, a) =>
        /\ Gate!Due(last[a], claims[u][a].at, claims[u][a].under.grace)
        /\ claims[u][a].under.grace >= Spacing[a]

IInv == TypeOK /\ OneHolder /\ Patient /\ ClaimsDue /\ CadenceRespected

USE DEF Handling

-----------------------------------------------------------------------------
(* Type correctness *)

\* A rule the code can read is a record with a grace in Nat.
LEMMA RuleGrace == \A r \in Rules : r.grace \in Nat
  BY RulesAssumption DEF RuleType

\* The rows a dispatch selects are rows of the table.
LEMMA CandidatesType ==
  ASSUME TypeOK, NEW r
  PROVE  Candidates(r) \subseteq Row
  BY DEF TypeOK, Candidates, Matches, Row

\* The locals of a dispatch keep their types when it ends.
LEMMA EndDispatchType ==
  ASSUME TypeOK, NEW u \in Uplinks, EndDispatch(u)
  PROVE  /\ nowTs' \in [Uplinks -> Nat]
         /\ todo' \in [Uplinks -> SUBSET Row]
         /\ mail' \in [Uplinks -> SUBSET Alerts]
  BY DEF TypeOK, EndDispatch

\* The next reading of a payload is one of the payload.
LEMMA NextReadingType ==
  ASSUME TypeOK, NEW u \in Uplinks, NextReading(u)
  PROVE  /\ nowTs' \in [Uplinks -> Nat]
         /\ todo' \in [Uplinks -> SUBSET Row]
         /\ mail' \in [Uplinks -> SUBSET Alerts]
         /\ idx' \in [Uplinks -> Nat]
         /\ \A v \in Uplinks : idx'[v] \in 1..Len(Payload[v])
         /\ pc' \in [Uplinks -> Handling \cup {"waiting", "done", "failed"}]
  <1>1. EndDispatch(u)
    BY DEF NextReading
  <1>2. /\ idx \in [Uplinks -> Nat]
        /\ \A v \in Uplinks : Len(Payload[v]) \in Nat /\ idx[v] \in 1..Len(Payload[v])
        /\ pc \in [Uplinks -> Handling \cup {"waiting", "done", "failed"}]
    BY PayloadAssumption DEF TypeOK
  <1>3. /\ idx' \in [Uplinks -> Nat]
        /\ \A v \in Uplinks : idx'[v] \in 1..Len(Payload[v])
        /\ pc' \in [Uplinks -> Handling \cup {"waiting", "done", "failed"}]
    <2>1. CASE idx[u] < Len(Payload[u])
      BY <1>2, <2>1 DEF NextReading
    <2>2. CASE ~(idx[u] < Len(Payload[u]))
      BY <1>2, <2>2 DEF NextReading
    <2>3. QED
      BY <2>1, <2>2
  <1>4. QED
    BY <1>1, <1>3, EndDispatchType

\* A transaction that ends without its writes leaves every type as it was.
LEMMA RollbackType ==
  ASSUME TypeOK, NEW u \in Uplinks, NEW outcome \in {"waiting", "failed"},
         Rollback(u, outcome)
  PROVE  TypeOK'
  <1>1. /\ nowTs' \in [Uplinks -> Nat]
        /\ todo' \in [Uplinks -> SUBSET Row]
        /\ mail' \in [Uplinks -> SUBSET Alerts]
    BY EndDispatchType DEF Rollback
  <1>2. claims' \in [Uplinks -> [Alerts -> Claim \cup {None}]]
    BY DEF TypeOK, Rollback, NoClaims
  <1>3. rolled' \subseteq Uplinks \X Nat
    BY DEF TypeOK, Rollback
  <1>4. pc' \in [Uplinks -> Handling \cup {"waiting", "done", "failed"}]
    BY DEF TypeOK, Rollback
  <1>5. QED
    BY <1>1, <1>2, <1>3, <1>4 DEF TypeOK, Rollback, db

\* A won row is claimed with a stamp and the rule it was selected under.
LEMMA TakeRowType ==
  ASSUME TypeOK, NEW u \in Uplinks, NEW row, TakeRow(u, row)
  PROVE  /\ row \in Row
         /\ claims' \in [Uplinks -> [Alerts -> Claim \cup {None}]]
  <1>1. row \in Row
    BY DEF TypeOK, TakeRow, AtRow
  <1>2. [at |-> nowTs[u], under |-> row.rule] \in Claim
    BY <1>1 DEF TypeOK, Row, Claim
  <1>3. row.id \in Alerts
    BY <1>1 DEF Row
  <1>4. QED
    BY <1>1, <1>2, <1>3 DEF TypeOK, TakeRow

\* What a dispatch pushes is a task.
LEMMA NewTaskType ==
  ASSUME TypeOK, NEW u \in Uplinks, NEW c \in Channels,
         NEW alerts \in SUBSET Alerts
  PROVE  NewTask(u, c, alerts) \in Task
  BY DEF TypeOK, NewTask, Task

LEMMA TypeInit == Init => TypeOK
  <1>1. \A u \in Uplinks : 1 \in 1..Len(Payload[u])
    BY PayloadAssumption
  <1> SUFFICES ASSUME Init PROVE TypeOK
    OBVIOUS
  <1>2. rule \in [Alerts -> Rules]
    BY InitialAssumption DEF Init
  <1>3. QED
    BY <1>1, <1>2 DEF Init, TypeOK, NoClaims, Stamps

LEMMA TypeNext == TypeOK /\ [Next]_vars => TypeOK'
  <1> SUFFICES ASSUME TypeOK, [Next]_vars PROVE TypeOK'
    OBVIOUS
  <1> USE DEF db, dispatch, txn, history
  <1>1. ASSUME NEW u \in Uplinks, Begin(u) PROVE TypeOK'
    <2>1. \A v \in Uplinks : idx'[v] \in 1..Len(Payload[v])
      BY <1>1, PayloadAssumption DEF Begin, TypeOK
    <2>2. QED
      BY <1>1, <2>1 DEF Begin, TypeOK
  <1>2. ASSUME NEW u \in Uplinks, Write(u) PROVE TypeOK'
    <2>1. CASE aborted[u] \/ Reading(u).value = BadValue
      BY <1>2, <2>1, RollbackType DEF Write
    <2>2. CASE ~(aborted[u] \/ Reading(u).value = BadValue)
      BY <1>2, <2>2 DEF Write, TypeOK
    <2>3. QED
      BY <2>1, <2>2
  <1>3. ASSUME NEW u \in Uplinks, Match(u) PROVE TypeOK'
    BY <1>3, CandidatesType DEF Match, TypeOK
  <1>4. ASSUME NEW u \in Uplinks, ClaimLost(u) PROVE TypeOK'
    BY <1>4 DEF ClaimLost, TypeOK
  <1>5. ASSUME NEW u \in Uplinks, ClaimWon(u) PROVE TypeOK'
    <2>1. PICK row \in todo[u] :
            /\ TakeRow(u, row)
            /\ todo' = [todo EXCEPT ![u] = @ \ {row}]
            /\ mail' = [mail EXCEPT ![u] = WithMail(u, row)]
            /\ sent' = sent \cup {NewTask(u, c, {row.id}) : c \in Direct(row)}
      BY <1>5 DEF ClaimWon
    <2>2. row \in Row /\ claims' \in [Uplinks -> [Alerts -> Claim \cup {None}]]
      BY <2>1, TakeRowType
    <2>3. row.id \in Alerts /\ Direct(row) \subseteq Channels
      BY <2>2, RulesAssumption DEF Row, Direct, RuleType
    <2>4. sent' \subseteq Task
      <3>1. {row.id} \in SUBSET Alerts
        BY <2>3
      <3>2. \A c \in Direct(row) : NewTask(u, c, {row.id}) \in Task
        BY <2>3, <3>1, NewTaskType
      <3>3. QED
        BY <2>1, <3>2 DEF TypeOK
    <2>5. WithMail(u, row) \in SUBSET Alerts
      BY <2>3 DEF WithMail, TypeOK
    <2>6. mail' \in [Uplinks -> SUBSET Alerts]
      BY <2>1, <2>5 DEF TypeOK
    <2>7. todo' \in [Uplinks -> SUBSET Row]
      BY <2>1 DEF TypeOK
    <2>8. QED
      BY <1>5, <2>2, <2>4, <2>6, <2>7 DEF ClaimWon, TypeOK
  <1>6. ASSUME NEW u \in Uplinks, ClaimWonPushRefused(u) PROVE TypeOK'
    <2>1. PICK row \in todo[u], pushed \in {{}, {"whatsapp"}} :
            /\ TakeRow(u, row)
            /\ pushed \subseteq Direct(row)
            /\ sent' = sent \cup {NewTask(u, c, {row.id}) : c \in pushed}
      BY <1>6 DEF ClaimWonPushRefused
    <2>2. row \in Row /\ claims' \in [Uplinks -> [Alerts -> Claim \cup {None}]]
      BY <2>1, TakeRowType
    <2>3. row.id \in Alerts /\ pushed \subseteq Channels
      BY <2>1, <2>2, RulesAssumption DEF Row, Direct, RuleType
    <2>4. sent' \subseteq Task
      <3>1. {row.id} \in SUBSET Alerts
        BY <2>3
      <3>2. \A c \in pushed : NewTask(u, c, {row.id}) \in Task
        BY <2>3, <3>1, NewTaskType
      <3>3. QED
        BY <2>1, <3>2 DEF TypeOK
    <2>5. NextReading(u) /\ refused' \in [Uplinks -> BOOLEAN]
      BY <1>6 DEF ClaimWonPushRefused, TypeOK
    <2>6. QED
      BY <1>6, <2>2, <2>4, <2>5, NextReadingType DEF ClaimWonPushRefused, TypeOK
  <1>7. ASSUME NEW u \in Uplinks, PushMail(u) PROVE TypeOK'
    <2>1. sent' \subseteq Task
      BY <1>7, NewTaskType DEF PushMail, TypeOK, Channels
    <2>2. NextReading(u)
      BY <1>7 DEF PushMail
    <2>3. QED
      BY <1>7, <2>1, <2>2, NextReadingType DEF PushMail, TypeOK
  <1>8. ASSUME NEW u \in Uplinks, PushMailRefused(u) PROVE TypeOK'
    <2>1. NextReading(u) /\ refused' \in [Uplinks -> BOOLEAN]
      BY <1>8 DEF PushMailRefused, TypeOK
    <2>2. QED
      BY <1>8, <2>1, NextReadingType DEF PushMailRefused, TypeOK
  <1>9. ASSUME NEW u \in Uplinks, DeadlockVictim(u) PROVE TypeOK'
    <2>1. NextReading(u)
      BY <1>9 DEF DeadlockVictim
    <2>2. /\ claims' \in [Uplinks -> [Alerts -> Claim \cup {None}]]
          /\ aborted' \in [Uplinks -> BOOLEAN]
          /\ rolled' \subseteq Uplinks \X Nat
      BY <1>9 DEF DeadlockVictim, TypeOK, NoClaims
    <2>3. QED
      BY <1>9, <2>1, <2>2, NextReadingType DEF DeadlockVictim, TypeOK
  <1>10. ASSUME NEW u \in Uplinks, Commit(u) PROVE TypeOK'
    <2>1. \A a \in Alerts : Locks(u, a) => claims[u][a] \in Claim
      BY DEF TypeOK, Locks
    <2>2. \A a \in Alerts : Seen(u, a) \in Stamps
      BY <2>1 DEF Seen, TypeOK, Claim, Stamps
    <2>3. last' \in [Alerts -> Stamps]
      BY <1>10, <2>2 DEF Commit
    <2>4. \A a \in Alerts : Locks(u, a) =>
            [prev |-> last[a], at |-> claims[u][a].at,
             under |-> claims[u][a].under, by |-> u,
             attempt |-> attempt[u]] \in Firing
      BY <2>1 DEF TypeOK, Claim, Firing
    <2>5. fire' \in [Alerts -> Firing \cup {None}]
      BY <1>10, <2>4 DEF Commit, TypeOK
    <2>6. stored' \in [Uplinks -> Nat]
      BY <1>10 DEF Commit, TypeOK
    <2>7. claims' \in [Uplinks -> [Alerts -> Claim \cup {None}]]
      BY <1>10 DEF Commit, TypeOK, NoClaims
    <2>8. QED
      BY <1>10, <2>3, <2>5, <2>6, <2>7 DEF Commit, TypeOK
  <1>11. ASSUME NEW u \in Uplinks, Crash(u) PROVE TypeOK'
    BY <1>11, RollbackType DEF Crash
  <1>12. ASSUME NEW u \in Uplinks, Resend(u) PROVE TypeOK'
    BY <1>12 DEF Resend, TypeOK
  <1>13. ASSUME NEW a \in Alerts, NEW r \in Edits[a], EditRule(a, r)
         PROVE  TypeOK'
    BY <1>13, EditsAssumption DEF EditRule, TypeOK
  <1>14. ASSUME NEW a \in Alerts, DeleteRule(a) PROVE TypeOK'
    BY <1>14 DEF DeleteRule, TypeOK
  <1>15. CASE Tick
    BY <1>15 DEF Tick, TypeOK
  <1>16. CASE UNCHANGED vars
    BY <1>16 DEF vars, TypeOK
  <1>17. QED
    BY <1>1, <1>2, <1>3, <1>4, <1>5, <1>6, <1>7, <1>8, <1>9, <1>10, <1>11,
       <1>12, <1>13, <1>14, <1>15, <1>16 DEF Next, Handle

\* ingest.py: the state of the handlers, the rows and the tasks keeps its types.
THEOREM TypeCorrect == Spec => []TypeOK
  <1>1. QED
    BY TypeInit, TypeNext, PTL DEF Spec

-----------------------------------------------------------------------------
(* The inductive invariant *)

LEMMA InvInit == Init => IInv
  <1> SUFFICES ASSUME Init PROVE IInv
    OBVIOUS
  <1>1. \A u \in Uplinks : \A a \in Alerts : ~Locks(u, a)
    BY DEF Init, NoClaims, Locks
  <1>2. Patient
    BY InitialAssumption, GraceAssumption DEF Init, Patient
  <1>3. CadenceRespected
    BY DEF Init, CadenceRespected
  <1>4. QED
    BY <1>1, <1>2, <1>3, TypeInit DEF IInv, OneHolder, ClaimsDue

\* A step that leaves claims and stamps alone cannot disturb the locks, and one
\* that forgets the claims of one transaction cannot either.
LEMMA ReleaseKeeps ==
  ASSUME IInv, NEW u \in Uplinks, UNCHANGED <<last, fire>>,
         \/ UNCHANGED claims
         \/ claims' = [claims EXCEPT ![u] = NoClaims]
  PROVE  OneHolder' /\ ClaimsDue' /\ CadenceRespected'
  <1>1. \A v \in Uplinks : \A a \in Alerts :
          Locks(v, a)' => Locks(v, a) /\ claims'[v][a] = claims[v][a]
    <2>1. CASE UNCHANGED claims
      BY <2>1 DEF Locks
    <2>2. CASE claims' = [claims EXCEPT ![u] = NoClaims]
      <3>1. claims \in [Uplinks -> [Alerts -> Claim \cup {None}]]
        BY DEF IInv, TypeOK
      <3>2. \A v \in Uplinks : claims'[v] = IF v = u THEN NoClaims ELSE claims[v]
        BY <2>2, <3>1
      <3>3. QED
        BY <3>2 DEF Locks, NoClaims
    <2>3. QED
      BY <2>1, <2>2
  <1>2. OneHolder'
    BY <1>1 DEF IInv, OneHolder
  <1>3. ClaimsDue'
    BY <1>1 DEF IInv, ClaimsDue, Gate!Due
  <1>4. CadenceRespected'
    BY DEF IInv, CadenceRespected, Gate!Due
  <1>5. QED
    BY <1>2, <1>3, <1>4

\* The chain of two stamps: what is due against an uncommitted stamp that was
\* itself due is due against the committed one.
LEMMA DueTransitive ==
  ASSUME NEW old \in Stamps, NEW mid \in Nat, NEW new \in Nat,
         NEW g \in Nat, NEW h \in Nat,
         Gate!Due(old, mid, g), Gate!Due(mid, new, h)
  PROVE  Gate!Due(old, new, h)
  BY NeverAssumption DEF Gate!Due, Stamps

\* Taking a row: nobody else holds it, and the new claim is due.
LEMMA TakeRowKeeps ==
  ASSUME IInv, NEW u \in Uplinks, NEW row, TakeRow(u, row),
         UNCHANGED <<last, fire>>
  PROVE  OneHolder' /\ ClaimsDue' /\ CadenceRespected'
  <1> DEFINE a == row.id
  <1>1. row \in Row /\ row \in todo[u] /\ a \in Alerts /\ row.rule \in Rules
    <2>1. row \in todo[u]
      BY DEF TakeRow, AtRow
    <2>2. row \in Row
      BY TakeRowType DEF IInv
    <2>3. QED
      BY <2>1, <2>2 DEF Row
  <1>2. row.rule.grace \in Nat /\ row.rule.grace >= Spacing[a]
    BY <1>1, RuleGrace DEF IInv, Patient
  <1>3. /\ claims'[u][a] = [at |-> nowTs[u], under |-> row.rule]
        /\ \A v \in Uplinks : \A b \in Alerts :
              v # u \/ b # a => claims'[v][b] = claims[v][b]
    BY <1>1 DEF IInv, TypeOK, TakeRow
  <1>4. \A v \in Uplinks \ {u} : ~Locks(v, a)
    BY DEF TakeRow
  <1>5. OneHolder'
    BY <1>3, <1>4 DEF IInv, OneHolder, Locks
  <1>6. Gate!Due(last[a], nowTs[u], row.rule.grace)
    <2>1. nowTs[u] \in Nat /\ last[a] \in Stamps
      BY <1>1 DEF IInv, TypeOK
    <2>2. Gate!Due(Seen(u, a), nowTs[u], row.rule.grace)
      BY DEF TakeRow, CanClaim, Due, Gate!Due
    <2>3. CASE ~Locks(u, a)
      BY <2>2, <2>3 DEF Seen
    <2>4. CASE Locks(u, a)
      <3>1. claims[u][a] \in Claim
        BY <1>1, <2>4 DEF IInv, TypeOK, Locks
      <3>2. /\ claims[u][a].at \in Nat
            /\ claims[u][a].under.grace \in Nat
            /\ Seen(u, a) = claims[u][a].at
        BY <2>4, <3>1, RuleGrace DEF Claim, Seen
      <3>3. Gate!Due(last[a], claims[u][a].at, claims[u][a].under.grace)
        BY <1>1, <2>4 DEF IInv, ClaimsDue
      <3>4. QED
        BY <1>2, <2>1, <2>2, <3>2, <3>3, DueTransitive
    <2>5. QED
      BY <2>3, <2>4
  <1>7. ClaimsDue'
    <2> SUFFICES ASSUME NEW v \in Uplinks, NEW b \in Alerts, Locks(v, b)'
                 PROVE  /\ Gate!Due(last[b], claims'[v][b].at,
                                    claims'[v][b].under.grace)
                        /\ claims'[v][b].under.grace >= Spacing[b]
      BY DEF ClaimsDue, Gate!Due
    <2>1. CASE v = u /\ b = a
      BY <1>2, <1>3, <1>6, <2>1
    <2>2. CASE v # u \/ b # a
      BY <1>3, <2>2 DEF IInv, ClaimsDue, Locks
    <2>3. QED
      BY <2>1, <2>2
  <1>8. CadenceRespected'
    BY DEF IInv, CadenceRespected, Gate!Due
  <1>9. QED
    BY <1>5, <1>7, <1>8

\* Committing publishes due claims and frees their rows.
LEMMA CommitKeeps ==
  ASSUME IInv, NEW u \in Uplinks, Commit(u)
  PROVE  OneHolder' /\ ClaimsDue' /\ CadenceRespected'
  <1>1. /\ claims \in [Uplinks -> [Alerts -> Claim \cup {None}]]
        /\ claims' = [claims EXCEPT ![u] = NoClaims]
    BY DEF IInv, TypeOK, Commit
  <1>2. \A v \in Uplinks : claims'[v] = IF v = u THEN NoClaims ELSE claims[v]
    BY <1>1
  <1>3. \A v \in Uplinks : \A a \in Alerts : Locks(v, a)' =>
          /\ v # u /\ Locks(v, a) /\ claims'[v][a] = claims[v][a]
    BY <1>2 DEF Locks, NoClaims
  <1>4. OneHolder'
    BY <1>3 DEF IInv, OneHolder
  <1>5. \A v \in Uplinks : \A a \in Alerts : Locks(v, a)' => last'[a] = last[a]
    BY <1>3 DEF IInv, OneHolder, Commit, Seen
  <1>6. ClaimsDue'
    BY <1>3, <1>5 DEF IInv, ClaimsDue, Gate!Due
  <1>7. CadenceRespected'
    <2> SUFFICES ASSUME NEW a \in Alerts, fire'[a] # None
                 PROVE  Gate!Due(fire'[a].prev, fire'[a].at,
                                 fire'[a].under.grace)
      BY DEF CadenceRespected, Gate!Due
    <2>1. CASE Locks(u, a)
      BY <2>1 DEF IInv, ClaimsDue, Commit, Gate!Due
    <2>2. CASE ~Locks(u, a)
      BY <2>2 DEF IInv, CadenceRespected, Commit, Gate!Due
    <2>3. QED
      BY <2>1, <2>2
  <1>8. QED
    BY <1>4, <1>6, <1>7

\* Rules and selected rows stay patient.
LEMMA PatientNext ==
  ASSUME IInv, [Next]_vars
  PROVE  Patient'
  <1> USE DEF db, dispatch, txn, history
  <1>1. ASSUME NEW u \in Uplinks, EndDispatch(u), UNCHANGED rule
        PROVE  Patient'
    <2>1. \A v \in Uplinks : todo'[v] \subseteq todo[v]
      BY <1>1 DEF IInv, TypeOK, EndDispatch
    <2>2. QED
      BY <1>1, <2>1 DEF IInv, Patient
  <1>2. ASSUME UNCHANGED <<rule, todo>> PROVE Patient'
    BY <1>2 DEF IInv, Patient
  <1>3. ASSUME NEW u \in Uplinks, Match(u) PROVE Patient'
    <2>1. \A row \in Candidates(Reading(u)) :
            row.id \in Alerts /\ rule[row.id] # Deleted /\ row.rule = rule[row.id]
      BY DEF Candidates, Matches
    <2>2. \A v \in Uplinks :
            todo'[v] = IF v = u THEN Candidates(Reading(u)) ELSE todo[v]
      BY <1>3 DEF IInv, TypeOK, Match
    <2>3. QED
      BY <1>3, <2>1, <2>2 DEF IInv, Patient, Match
  <1>4. ASSUME NEW u \in Uplinks, ClaimLost(u) \/ ClaimWon(u) PROVE Patient'
    <2>1. \A v \in Uplinks : todo'[v] \subseteq todo[v]
      <3>1. PICK row \in todo[u] : todo' = [todo EXCEPT ![u] = @ \ {row}]
        BY <1>4 DEF ClaimLost, ClaimWon
      <3>2. QED
        BY <3>1 DEF IInv, TypeOK
    <2>2. UNCHANGED rule
      BY <1>4 DEF ClaimLost, ClaimWon
    <2>3. QED
      BY <2>1, <2>2 DEF IInv, Patient
  <1>5. ASSUME NEW u \in Uplinks, Handle(u) PROVE Patient'
    <2>1. CASE Write(u)
      BY <1>1, <1>2, <2>1 DEF Write, Rollback
    <2>2. CASE ClaimWonPushRefused(u) \/ PushMail(u) \/ PushMailRefused(u)
               \/ DeadlockVictim(u)
      BY <1>1, <2>2 DEF ClaimWonPushRefused, PushMail, PushMailRefused,
         DeadlockVictim, NextReading
    <2>3. CASE Commit(u)
      BY <1>2, <2>3 DEF Commit
    <2>4. QED
      BY <1>3, <1>4, <1>5, <2>1, <2>2, <2>3 DEF Handle
  <1>6. ASSUME NEW u \in Uplinks, Begin(u) \/ Crash(u) \/ Resend(u)
        PROVE  Patient'
    BY <1>1, <1>2, <1>6 DEF Begin, Crash, Rollback, Resend
  <1>7. ASSUME NEW a \in Alerts, NEW r \in Edits[a], EditRule(a, r)
        PROVE  Patient'
    BY <1>7, GraceAssumption DEF IInv, TypeOK, Patient, EditRule
  <1>8. ASSUME NEW a \in Alerts, DeleteRule(a) PROVE Patient'
    BY <1>8 DEF IInv, TypeOK, Patient, DeleteRule
  <1>9. CASE Tick \/ UNCHANGED vars
    BY <1>2, <1>9 DEF Tick, vars
  <1>10. QED
    BY <1>5, <1>6, <1>7, <1>8, <1>9 DEF Next

LEMMA InvNext == IInv /\ [Next]_vars => IInv'
  <1> SUFFICES ASSUME IInv, [Next]_vars PROVE IInv'
    OBVIOUS
  <1> USE DEF db, dispatch, txn, history
  <1> DEFINE Safe == OneHolder /\ ClaimsDue /\ CadenceRespected
  <1>1. TypeOK' /\ Patient'
    BY TypeNext, PatientNext DEF IInv
  <1>2. ASSUME NEW u \in Uplinks, Begin(u) \/ Resend(u) PROVE Safe'
    BY <1>2, ReleaseKeeps DEF Begin, Resend
  <1>3. ASSUME NEW u \in Uplinks, Crash(u) PROVE Safe'
    BY <1>3, ReleaseKeeps DEF Crash, Rollback
  <1>4. ASSUME NEW u \in Uplinks, Handle(u) PROVE Safe'
    <2>1. CASE Write(u)
      BY <2>1, ReleaseKeeps DEF Write, Rollback
    <2>2. CASE Match(u) \/ ClaimLost(u)
      BY <2>2, ReleaseKeeps DEF Match, ClaimLost
    <2>3. CASE ClaimWon(u)
      BY <2>3, TakeRowKeeps DEF ClaimWon
    <2>4. CASE ClaimWonPushRefused(u)
      BY <2>4, TakeRowKeeps DEF ClaimWonPushRefused
    <2>5. CASE PushMail(u) \/ PushMailRefused(u)
      BY <2>5, ReleaseKeeps DEF PushMail, PushMailRefused
    <2>6. CASE DeadlockVictim(u)
      BY <2>6, ReleaseKeeps DEF DeadlockVictim
    <2>7. CASE Commit(u)
      BY <2>7, CommitKeeps
    <2>8. QED
      BY <1>4, <2>1, <2>2, <2>3, <2>4, <2>5, <2>6, <2>7 DEF Handle
  <1>5. ASSUME UNCHANGED <<claims, last, fire>> PROVE Safe'
    <2>1. OneHolder'
      BY <1>5 DEF IInv, OneHolder, Locks
    <2>2. ClaimsDue'
      BY <1>5 DEF IInv, ClaimsDue, Locks, Gate!Due
    <2>3. CadenceRespected'
      BY <1>5 DEF IInv, CadenceRespected, Gate!Due
    <2>4. QED
      BY <2>1, <2>2, <2>3
  <1>6. ASSUME NEW a \in Alerts,
               DeleteRule(a) \/ \E r \in Edits[a] : EditRule(a, r)
        PROVE  UNCHANGED <<claims, last, fire>>
    BY <1>6 DEF DeleteRule, EditRule
  <1>7. ASSUME Tick \/ UNCHANGED vars PROVE Safe'
    BY <1>5, <1>7 DEF Tick, vars
  <1>8. Safe'
    BY <1>2, <1>3, <1>4, <1>5, <1>6, <1>7 DEF Next
  <1>9. QED
    BY <1>1, <1>8 DEF IInv

-----------------------------------------------------------------------------
(* Theorems *)

\* ingest.py:533-549: for any number of concurrent handlers, a committed firing
\* of an alert comes more than its grace after the committed one before it.
THEOREM Cadence == Spec => []CadenceRespected
  <1>1. IInv => CadenceRespected
    BY DEF IInv
  <1>2. QED
    BY <1>1, InvInit, InvNext, PTL DEF Spec

\* A commit moves the stamps as the abstract gate does; all else leaves them.
LEMMA StepRefines == IInv /\ [Next]_vars => [Gate!Next]_last
  <1> SUFFICES ASSUME IInv, [Next]_vars PROVE [Gate!Next]_last
    OBVIOUS
  <1> USE DEF db, dispatch, txn, history
  <1>1. ASSUME NEW u \in Uplinks, Commit(u) PROVE Gate!Next
    <2>1. last' \in [Alerts -> Stamps]
      BY TypeNext DEF IInv, TypeOK
    <2>2. ASSUME NEW a \in Alerts
          PROVE  last'[a] = last[a] \/ Gate!Restamp(a)
      <3>1. CASE ~Locks(u, a)
        BY <1>1, <3>1 DEF Commit, Seen
      <3>2. CASE Locks(u, a)
        <4>1. claims[u][a] \in Claim /\ last[a] \in Stamps
          BY <3>2 DEF IInv, TypeOK, Locks
        <4>2. /\ claims[u][a].at \in Nat
              /\ claims[u][a].under.grace \in Nat
              /\ Spacing[a] \in Nat
          BY <4>1, RuleGrace, SpacingAssumption DEF Claim
        <4>3. last'[a] = claims[u][a].at
          BY <1>1, <3>2 DEF Commit, Seen
        <4>4. /\ Gate!Due(last[a], claims[u][a].at, claims[u][a].under.grace)
              /\ claims[u][a].under.grace >= Spacing[a]
          BY <3>2 DEF IInv, ClaimsDue
        <4>5. QED
          BY <4>1, <4>2, <4>3, <4>4, NeverAssumption
          DEF Gate!Restamp, Gate!Due, Stamps
      <3>3. QED
        BY <3>1, <3>2
    <2>3. QED
      BY <2>1, <2>2 DEF Gate!Next, Gate!Stamps, Stamps
  <1>2. ASSUME NEW u \in Uplinks, Begin(u) \/ Crash(u) \/ Resend(u)
        PROVE  UNCHANGED last
    BY <1>2 DEF Begin, Crash, Rollback, Resend
  <1>3. ASSUME NEW u \in Uplinks, Handle(u), ~Commit(u) PROVE UNCHANGED last
    BY <1>3 DEF Handle, Write, Rollback, Match, ClaimLost, ClaimWon,
       ClaimWonPushRefused, PushMail, PushMailRefused, DeadlockVictim
  <1>4. ASSUME NEW a \in Alerts,
               DeleteRule(a) \/ \E r \in Edits[a] : EditRule(a, r)
        PROVE  UNCHANGED last
    BY <1>4 DEF DeleteRule, EditRule
  <1>5. CASE Tick \/ UNCHANGED vars
    BY <1>5 DEF Tick, vars
  <1>6. QED
    BY <1>1, <1>2, <1>3, <1>4, <1>5 DEF Next

\* alerts.md:353: the column last_emailed_at behaves as the abstract gate.
THEOREM RefinesGraceGate == Spec => ImplementsGraceGate
  <1>1. Init => Gate!Init
    BY TypeInit DEF TypeOK, Gate!Init, Gate!Stamps, Stamps
  <1>2. QED
    BY <1>1, InvInit, InvNext, StepRefines, PTL
    DEF Spec, ImplementsGraceGate, Gate!Spec

-----------------------------------------------------------------------------
(* Tasks and claims.  A push cannot be taken back, so a task is tied to the attempt
   that made it: as long as that attempt was not rolled back, its alerts are locked or
   committed with a stamp at or after the task's. *)

USE DEF Handling

Live(m) == <<m.by, m.attempt>> \notin rolled

\* A transaction that is over holds no row.
IdleHoldsNothing ==
    \A u \in Uplinks : pc[u] \notin Handling => claims[u] = NoClaims

\* An uplink is taken up again only after its last attempt was rolled back.
PastIsRolled ==
    \A u \in Uplinks : \A k \in 1..attempt[u] :
        k < attempt[u] \/ pc[u] \in {"waiting", "failed"} \/ aborted[u]
            => <<u, k>> \in rolled

\* A handler works at an attempt, and a task was pushed by one that was made.
TasksTaken ==
    /\ \A u \in Uplinks : pc[u] \in Handling => attempt[u] >= 1
    /\ \A m \in sent : m.attempt \in 1..attempt[m.by]

\* The alerts of a live task are claimed or committed, not before its stamp.
TasksStamped ==
    \A m \in sent : Live(m) => \A a \in m.alerts :
        IF pc[m.by] = "done" THEN last[a] # Never /\ m.stamp <= last[a]
        ELSE Locks(m.by, a) /\ m.stamp <= claims[m.by][a].at

\* A gathered email is for an alert this dispatch has claimed, and due after
\* every live email of it.
MailIsDue ==
    \A u \in Uplinks : \A a \in mail[u] :
        /\ pc[u] = "claim" /\ Locks(u, a) /\ claims[u][a].at = nowTs[u]
        /\ \A m \in sent : Live(m) /\ m.channel = "email" /\ a \in m.alerts
               => Gate!Due(m.stamp, nowTs[u], Spacing[a])

IsPushed(u, a, channel) ==
    \E m \in sent : /\ m.channel = channel /\ a \in m.alerts
                    /\ m.stamp = claims[u][a].at
                    /\ m.by = u /\ m.attempt = attempt[u]

\* A claim has been pushed on the channels of its rule, or is gathered for the
\* email of this dispatch, or a push of this attempt was refused.
ClaimsPushed ==
    \A u \in Uplinks : \A a \in Alerts : Locks(u, a) /\ ~refused[u] =>
        \A c \in claims[u][a].under.channels :
            \/ IsPushed(u, a, c)
            \/ c = "email" /\ a \in mail[u]

\* What has fired was answered, and is not taken up again.
FiredIsDone ==
    \A a \in Alerts : fire[a] # None => pc[fire[a].by] = "done"

Attempts == IdleHoldsNothing /\ PastIsRolled /\ TasksTaken
Spaced   == TasksStamped /\ MailIsDue /\ DuplicatesOnlyAfterRollback
Pushed   == ClaimsPushed /\ FiredIsDone /\ CommittedFiringPushed
PInv     == IInv /\ Attempts /\ Spaced /\ Pushed

-----------------------------------------------------------------------------
(* What a step of a handler changes *)

\* The handler of u goes on inside its transaction: it may push tasks of this
\* attempt, and claims nothing for another uplink.
GoesOn(u) ==
    /\ pc[u] \in Handling /\ pc'[u] \in Handling
    /\ \A v \in Uplinks \ {u} : pc'[v] = pc[v] /\ claims'[v] = claims[v]
    /\ UNCHANGED <<attempt, aborted, rolled>>
    /\ \A m \in sent' : m \in sent \/ (m.by = u /\ m.attempt = attempt[u])

\* Leaving a dispatch touches the handler's own locals and program counter.
LEMMA NextReadingMoves ==
  ASSUME TypeOK, NEW u \in Uplinks, NextReading(u)
  PROVE  /\ pc'[u] \in {"write", "commit"} /\ mail'[u] = {}
         /\ \A v \in Uplinks \ {u} :
               pc'[v] = pc[v] /\ mail'[v] = mail[v] /\ nowTs'[v] = nowTs[v]
  <1>1. /\ mail'[u] = {}
        /\ \A v \in Uplinks \ {u} : mail'[v] = mail[v] /\ nowTs'[v] = nowTs[v]
    BY DEF TypeOK, NextReading, EndDispatch
  <1>2. /\ pc'[u] \in {"write", "commit"}
        /\ \A v \in Uplinks \ {u} : pc'[v] = pc[v]
    BY DEF TypeOK, NextReading
  <1>3. QED
    BY <1>1, <1>2

\* Taking a row changes the claim of that row, which then has the stamp and the
\* rule of the dispatch.
LEMMA TakeRowMoves ==
  ASSUME TypeOK, NEW u \in Uplinks, NEW row, TakeRow(u, row)
  PROVE  /\ pc[u] = "claim" /\ row \in todo[u] /\ row \in Row
         /\ claims'[u][row.id] = [at |-> nowTs[u], under |-> row.rule]
         /\ \A v \in Uplinks : \A a \in Alerts :
               v # u \/ a # row.id => claims'[v][a] = claims[v][a]
         /\ \A v \in Uplinks \ {u} : claims'[v] = claims[v]
  <1>1. pc[u] = "claim" /\ row \in todo[u] /\ row \in Row
    BY TakeRowType DEF TakeRow, AtRow
  <1>2. row.id \in Alerts
    BY <1>1 DEF Row
  <1>3. QED
    BY <1>1, <1>2 DEF TypeOK, TakeRow

LEMMA HandlerGoesOn ==
  ASSUME TypeOK, NEW u \in Uplinks,
         \/ Write(u) /\ pc'[u] = "match"
         \/ Match(u) \/ ClaimLost(u) \/ ClaimWon(u)
         \/ ClaimWonPushRefused(u) \/ PushMail(u) \/ PushMailRefused(u)
  PROVE  GoesOn(u)
  <1> USE DEF db, dispatch, txn, history
  <1>1. CASE Write(u) /\ pc'[u] = "match"
    <2>1. ~Rollback(u, "failed")
      BY <1>1 DEF Rollback, TypeOK
    <2>2. QED
      BY <1>1, <2>1 DEF Write, GoesOn, TypeOK
  <1>2. CASE Match(u)
    BY <1>2 DEF Match, GoesOn, TypeOK
  <1>3. CASE ClaimLost(u)
    BY <1>3 DEF ClaimLost, AtRow, GoesOn, TypeOK
  <1>4. CASE ClaimWon(u)
    <2>1. PICK row \in todo[u] :
            /\ TakeRow(u, row)
            /\ sent' = sent \cup {NewTask(u, c, {row.id}) : c \in Direct(row)}
      BY <1>4 DEF ClaimWon
    <2>2. \A m \in sent' : m \in sent \/ (m.by = u /\ m.attempt = attempt[u])
      BY <2>1 DEF NewTask
    <2>3. pc[u] = "claim" /\ \A v \in Uplinks \ {u} : claims'[v] = claims[v]
      BY <2>1, TakeRowMoves
    <2>4. QED
      BY <1>4, <2>2, <2>3 DEF ClaimWon, GoesOn
  <1>5. CASE ClaimWonPushRefused(u)
    <2>1. PICK row \in todo[u], pushed \in {{}, {"whatsapp"}} :
            /\ TakeRow(u, row)
            /\ sent' = sent \cup {NewTask(u, c, {row.id}) : c \in pushed}
            /\ NextReading(u)
            /\ UNCHANGED <<attempt, aborted, rolled>>
      BY <1>5 DEF ClaimWonPushRefused
    <2>2. \A m \in sent' : m \in sent \/ (m.by = u /\ m.attempt = attempt[u])
      BY <2>1 DEF NewTask
    <2>3. pc[u] = "claim" /\ \A v \in Uplinks \ {u} : claims'[v] = claims[v]
      BY <2>1, TakeRowMoves
    <2>4. QED
      BY <2>1, <2>2, <2>3, NextReadingMoves DEF GoesOn
  <1>6. CASE PushMail(u)
    <2>1. \A m \in sent' : m \in sent \/ (m.by = u /\ m.attempt = attempt[u])
      BY <1>6 DEF PushMail, NewTask
    <2>2. QED
      BY <1>6, <2>1, NextReadingMoves DEF PushMail, GoesOn
  <1>7. CASE PushMailRefused(u)
    BY <1>7, NextReadingMoves DEF PushMailRefused, GoesOn
  <1>8. QED
    BY <1>1, <1>2, <1>3, <1>4, <1>5, <1>6, <1>7

-----------------------------------------------------------------------------
(* Attempts *)

LEMMA AttemptsInit == Init => Attempts
  <1> SUFFICES ASSUME Init PROVE Attempts
    OBVIOUS
  <1>1. \A u \in Uplinks : pc[u] = "waiting" /\ attempt[u] = 0
                            /\ claims[u] = NoClaims
    BY DEF Init
  <1>2. PastIsRolled
    BY <1>1 DEF PastIsRolled
  <1>3. QED
    BY <1>1, <1>2 DEF Init, Attempts, IdleHoldsNothing, TasksTaken

\* However a transaction is rolled back, its attempt is remembered as rolled
\* back and its claims are forgotten.
LEMMA RollbackKeepsAttempts ==
  ASSUME TypeOK, Attempts, NEW u \in Uplinks, pc[u] \in Handling,
         claims' = [claims EXCEPT ![u] = NoClaims],
         rolled' = rolled \cup {<<u, attempt[u]>>},
         \A v \in Uplinks \ {u} : pc'[v] = pc[v] /\ aborted'[v] = aborted[v],
         UNCHANGED <<attempt, sent>>
  PROVE  Attempts'
  <1>1. \A v \in Uplinks : claims'[v] = IF v = u THEN NoClaims ELSE claims[v]
    BY DEF TypeOK
  <1>2. IdleHoldsNothing'
    BY <1>1 DEF Attempts, IdleHoldsNothing, NoClaims
  <1>3. PastIsRolled'
    <2> SUFFICES ASSUME NEW v \in Uplinks, NEW k \in 1..attempt[v],
                        \/ k < attempt[v]
                        \/ pc'[v] \in {"waiting", "failed"} \/ aborted'[v]
                 PROVE  <<v, k>> \in rolled'
      BY DEF PastIsRolled
    <2>1. CASE v = u
      <3>1. attempt[u] \in Nat
        BY DEF TypeOK
      <3>2. k = attempt[u] \/ k < attempt[u]
        BY <2>1, <3>1
      <3>3. QED
        BY <2>1, <3>2 DEF Attempts, PastIsRolled
    <2>2. CASE v # u
      BY <2>2 DEF Attempts, PastIsRolled
    <2>3. QED
      BY <2>1, <2>2
  <1>4. TasksTaken'
    BY DEF Attempts, TasksTaken, TypeOK
  <1>5. QED
    BY <1>2, <1>3, <1>4 DEF Attempts

LEMMA AttemptsNext == TypeOK /\ Attempts /\ [Next]_vars => Attempts'
  <1> SUFFICES ASSUME TypeOK, Attempts, [Next]_vars PROVE Attempts'
    OBVIOUS
  <1> USE DEF db, dispatch, txn, history
  <1>1. ASSUME NEW u \in Uplinks, GoesOn(u) PROVE Attempts'
    <2>1. IdleHoldsNothing'
      BY <1>1 DEF GoesOn, Attempts, IdleHoldsNothing, NoClaims
    <2>2. PastIsRolled'
      BY <1>1 DEF GoesOn, Attempts, PastIsRolled
    <2>3. TasksTaken'
      <3>1. attempt[u] \in Nat /\ attempt[u] >= 1
        BY <1>1 DEF GoesOn, Attempts, TasksTaken, TypeOK
      <3>2. QED
        BY <1>1, <3>1 DEF GoesOn, Attempts, TasksTaken
    <2>4. QED
      BY <2>1, <2>2, <2>3 DEF Attempts
  <1>2. ASSUME NEW u \in Uplinks, Begin(u) PROVE Attempts'
    <2>1. /\ pc[u] = "waiting" /\ attempt[u] \in Nat
          /\ pc'[u] = "write" /\ attempt'[u] = attempt[u] + 1 /\ ~aborted'[u]
          /\ \A v \in Uplinks \ {u} : /\ pc'[v] = pc[v]
                                       /\ attempt'[v] = attempt[v]
                                       /\ aborted'[v] = aborted[v]
          /\ UNCHANGED <<claims, sent, rolled>>
      BY <1>2 DEF Begin, TypeOK
    <2>2. IdleHoldsNothing'
      BY <2>1 DEF Attempts, IdleHoldsNothing, NoClaims
    <2>3. PastIsRolled'
      <3> SUFFICES ASSUME NEW v \in Uplinks, NEW k \in 1..attempt'[v],
                          \/ k < attempt'[v]
                          \/ pc'[v] \in {"waiting", "failed"} \/ aborted'[v]
                   PROVE  <<v, k>> \in rolled'
        BY DEF PastIsRolled
      <3>1. CASE v = u
        <4>1. k \in 1..attempt[u]
          BY <2>1, <3>1
        <4>2. QED
          BY <2>1, <3>1, <4>1 DEF Attempts, PastIsRolled
      <3>2. CASE v # u
        BY <2>1, <3>2 DEF Attempts, PastIsRolled
      <3>3. QED
        BY <3>1, <3>2
    <2>4. TasksTaken'
      <3>1. \A m \in sent : m.by \in Uplinks
        BY DEF TypeOK, Task
      <3>2. \A v \in Uplinks : attempt[v] \in Nat /\ attempt'[v] \in Nat
                                /\ attempt[v] <= attempt'[v]
        <4>1. \A v \in Uplinks : attempt[v] \in Nat
          BY DEF TypeOK
        <4>2. QED
          BY <2>1, <4>1
      <3>3. \A m \in sent : m.attempt \in 1..attempt'[m.by]
        BY <3>1, <3>2 DEF Attempts, TasksTaken
      <3>4. QED
        BY <2>1, <3>2, <3>3 DEF Attempts, TasksTaken
    <2>5. QED
      BY <2>2, <2>3, <2>4 DEF Attempts
  <1>3. ASSUME NEW u \in Uplinks, NEW outcome, Rollback(u, outcome),
               pc[u] \in Handling
        PROVE  Attempts'
    BY <1>3, RollbackKeepsAttempts DEF Rollback, TypeOK
  <1>4. ASSUME NEW u \in Uplinks, DeadlockVictim(u) PROVE Attempts'
    <2>1. pc[u] = "claim"
      BY <1>4 DEF DeadlockVictim, Deadlocked, WaitsFor, AtRow
    <2>2. \A v \in Uplinks \ {u} : pc'[v] = pc[v] /\ aborted'[v] = aborted[v]
      BY <1>4, NextReadingMoves DEF DeadlockVictim, TypeOK
    <2>3. QED
      BY <1>4, <2>1, <2>2, RollbackKeepsAttempts DEF DeadlockVictim
  <1>5. ASSUME NEW u \in Uplinks, Commit(u) PROVE Attempts'
    <2>1. /\ pc[u] = "commit" /\ pc'[u] = "done" /\ claims'[u] = NoClaims
          /\ \A v \in Uplinks \ {u} : pc'[v] = pc[v] /\ claims'[v] = claims[v]
          /\ UNCHANGED <<attempt, aborted, sent, rolled>>
      BY <1>5 DEF Commit, TypeOK
    <2>2. QED
      BY <2>1 DEF Attempts, IdleHoldsNothing, PastIsRolled, TasksTaken, NoClaims
  <1>6. ASSUME NEW u \in Uplinks, Resend(u) PROVE Attempts'
    <2>1. /\ pc[u] = "failed" /\ pc'[u] = "waiting"
          /\ \A v \in Uplinks \ {u} : pc'[v] = pc[v]
          /\ UNCHANGED <<attempt, aborted, claims, sent, rolled>>
      BY <1>6 DEF Resend, TypeOK
    <2>2. QED
      BY <2>1 DEF Attempts, IdleHoldsNothing, PastIsRolled, TasksTaken, NoClaims
  <1>7. ASSUME UNCHANGED <<pc, attempt, aborted, claims, sent, rolled>>
        PROVE  Attempts'
    BY <1>7 DEF Attempts, IdleHoldsNothing, PastIsRolled, TasksTaken, NoClaims
  <1>8. ASSUME NEW u \in Uplinks, Handle(u) PROVE Attempts'
    <2>1. CASE Write(u)
      <3>1. Rollback(u, "failed") \/ pc'[u] = "match"
        BY <2>1 DEF Write, TypeOK
      <3>2. QED
        BY <1>1, <1>3, <2>1, <3>1, HandlerGoesOn DEF Write
    <2>2. QED
      BY <1>1, <1>4, <1>5, <1>8, <2>1, HandlerGoesOn DEF Handle
  <1>9. ASSUME NEW a \in Alerts,
               DeleteRule(a) \/ \E r \in Edits[a] : EditRule(a, r)
        PROVE  Attempts'
    BY <1>7, <1>9 DEF DeleteRule, EditRule
  <1>10. ASSUME NEW u \in Uplinks, Crash(u) PROVE Attempts'
    BY <1>3, <1>10 DEF Crash
  <1>11. CASE Tick \/ UNCHANGED vars
    BY <1>7, <1>11 DEF Tick, vars
  <1>12. QED
    BY <1>2, <1>6, <1>8, <1>9, <1>10, <1>11 DEF Next

-----------------------------------------------------------------------------
(* Tasks of one alert and channel are apart *)

\* The rows of the tasks, as the proofs use them.
LEMMA SentType ==
  ASSUME TypeOK, NEW m \in sent
  PROVE  /\ m.by \in Uplinks /\ m.alerts \subseteq Alerts /\ m.stamp \in Nat
         /\ m.channel \in Channels
  BY DEF TypeOK, Task

\* A row that is taken is due after every live task of its alert: one of another
\* uplink was committed, since nobody else holds the row, and one of the same
\* transaction is behind its claim.
LEMMA TakenIsDue ==
  ASSUME IInv, Spaced, NEW u \in Uplinks, NEW row, TakeRow(u, row),
         NEW m \in sent, Live(m), row.id \in m.alerts
  PROVE  Gate!Due(m.stamp, nowTs[u], Spacing[row.id]) /\ m.stamp <= nowTs[u]
  <1> DEFINE a == row.id
  <1>1. /\ row \in Row /\ row \in todo[u] /\ pc[u] = "claim" /\ a \in Alerts
        /\ nowTs[u] \in Nat /\ Spacing[a] \in Nat /\ last[a] \in Stamps
    <2>1. row \in Row /\ row \in todo[u] /\ pc[u] = "claim"
      BY TakeRowMoves DEF IInv
    <2>2. a \in Alerts
      BY <2>1 DEF Row
    <2>3. QED
      BY <2>1, <2>2, SpacingAssumption DEF IInv, TypeOK
  <1>2. /\ row.rule.grace \in Nat /\ row.rule.grace >= Spacing[a]
        /\ Gate!Due(Seen(u, a), nowTs[u], row.rule.grace)
    BY <1>1, RuleGrace DEF IInv, Patient, Row, TakeRow, CanClaim, Due, Gate!Due
  <1>3. m.by \in Uplinks /\ m.stamp \in Nat
    BY SentType DEF IInv
  <1>4. Seen(u, a) \in Nat /\ m.stamp <= Seen(u, a)
    <2>1. CASE m.by = u
      <3>1. Locks(u, a) /\ m.stamp <= claims[u][a].at
        BY <1>1, <2>1 DEF Spaced, TasksStamped
      <3>2. claims[u][a].at \in Nat
        BY <1>1, <3>1 DEF IInv, TypeOK, Locks, Claim
      <3>3. QED
        BY <3>1, <3>2 DEF Seen
    <2>2. CASE m.by # u
      <3>1. ~Locks(m.by, a)
        BY <1>3, <2>2 DEF TakeRow
      <3>2. last[a] # Never /\ m.stamp <= last[a]
        BY <3>1 DEF Spaced, TasksStamped
      <3>3. last[a] \in Nat
        BY <1>1, <3>2 DEF Stamps
      <3>4. CASE ~Locks(u, a)
        BY <3>2, <3>3, <3>4 DEF Seen
      <3>5. CASE Locks(u, a)
        <4>1. /\ claims[u][a].at \in Nat /\ claims[u][a].under.grace \in Nat
              /\ Gate!Due(last[a], claims[u][a].at, claims[u][a].under.grace)
          BY <1>1, <3>5, RuleGrace
          DEF IInv, TypeOK, Locks, Claim, ClaimsDue
        <4>2. last[a] <= claims[u][a].at
          BY <3>2, <3>3, <4>1 DEF Gate!Due
        <4>3. QED
          BY <1>3, <3>2, <3>3, <3>5, <4>1, <4>2 DEF Seen
      <3>6. QED
        BY <3>4, <3>5
    <2>3. QED
      BY <2>1, <2>2
  <1>5. Seen(u, a) < nowTs[u] - row.rule.grace
    BY <1>2, <1>4, NeverAssumption DEF Gate!Due
  <1>6. QED
    BY <1>1, <1>2, <1>3, <1>4, <1>5 DEF Gate!Due

\* A step that neither claims, pushes nor ends a transaction.
LEMMA QuietKeepsSpaced ==
  ASSUME TypeOK, Spaced, UNCHANGED <<last, claims, sent, rolled>>,
         \A v \in Uplinks : pc'[v] = "done" <=> pc[v] = "done",
         \A v \in Uplinks :
            \/ mail'[v] = {}
            \/ UNCHANGED <<mail[v], pc[v], nowTs[v]>>
  PROVE  Spaced'
  <1>1. TasksStamped'
    BY SentType DEF Spaced, TasksStamped, Live, Locks
  <1>2. MailIsDue'
    BY DEF Spaced, MailIsDue, Live, Locks, Gate!Due
  <1>3. DuplicatesOnlyAfterRollback'
    BY DEF Spaced, DuplicatesOnlyAfterRollback, Gate!Due
  <1>4. QED
    BY <1>1, <1>2, <1>3 DEF Spaced

\* A rollback forgets the claims of u, and every task of u is of an attempt that
\* was rolled back.
LEMMA RollbackKeepsSpaced ==
  ASSUME TypeOK, Attempts, Spaced, NEW u \in Uplinks, pc[u] \in Handling,
         claims' = [claims EXCEPT ![u] = NoClaims],
         rolled' = rolled \cup {<<u, attempt[u]>>},
         mail'[u] = {},
         \A v \in Uplinks \ {u} : UNCHANGED <<pc[v], mail[v], nowTs[v]>>,
         UNCHANGED <<last, sent>>
  PROVE  Spaced'
  <1>1. \A v \in Uplinks \ {u} : claims'[v] = claims[v]
    BY DEF TypeOK
  <1>2. \A m \in sent : Live(m)' => Live(m) /\ m.by # u
    <2> SUFFICES ASSUME NEW m \in sent, Live(m)' PROVE Live(m) /\ m.by # u
      OBVIOUS
    <2>1. Live(m) /\ <<m.by, m.attempt>> # <<u, attempt[u]>>
      BY DEF Live
    <2>2. attempt[u] \in Nat /\ m.attempt \in 1..attempt[m.by]
      BY DEF TypeOK, Attempts, TasksTaken
    <2>3. CASE m.by = u
      <3>1. m.attempt < attempt[u]
        BY <2>1, <2>2, <2>3
      <3>2. QED
        BY <2>1, <2>2, <2>3, <3>1 DEF Live, Attempts, PastIsRolled
    <2>4. QED
      BY <2>1, <2>3
  <1>3. TasksStamped'
    BY <1>1, <1>2, SentType DEF Spaced, TasksStamped, Locks
  <1>4. MailIsDue'
    BY <1>1, <1>2 DEF Spaced, MailIsDue, Locks, Gate!Due
  <1>5. DuplicatesOnlyAfterRollback'
    BY DEF Spaced, DuplicatesOnlyAfterRollback, Gate!Due
  <1>6. QED
    BY <1>3, <1>4, <1>5 DEF Spaced

\* Taking a row and pushing its direct tasks, with or without a refusal.
LEMMA TakeRowKeepsSpaced ==
  ASSUME IInv, Spaced, NEW u \in Uplinks, NEW row, TakeRow(u, row),
         NEW P \in SUBSET Direct(row),
         sent' = sent \cup {NewTask(u, c, {row.id}) : c \in P},
         UNCHANGED <<last, rolled>>, pc'[u] \in Handling,
         \A v \in Uplinks \ {u} : UNCHANGED <<pc[v], mail[v], nowTs[v]>>,
         \/ mail'[u] = {}
         \/ mail'[u] = WithMail(u, row) /\ UNCHANGED <<pc[u], nowTs[u]>>
  PROVE  Spaced'
  <1> DEFINE a == row.id
             New(m) == /\ m.by = u /\ m.alerts = {a} /\ m.stamp = nowTs[u]
                       /\ m.channel \in P
  <1>1. /\ row \in Row /\ a \in Alerts /\ nowTs[u] \in Nat /\ pc[u] = "claim"
        /\ claims'[u][a] = [at |-> nowTs[u], under |-> row.rule]
        /\ \A b \in Alerts \ {a} : claims'[u][b] = claims[u][b]
        /\ \A v \in Uplinks \ {u} : claims'[v] = claims[v]
    <2>1. row \in Row /\ pc[u] = "claim"
      BY TakeRowMoves DEF IInv
    <2>2. a \in Alerts /\ nowTs[u] \in Nat
      BY <2>1 DEF Row, IInv, TypeOK
    <2>3. QED
      BY <2>1, <2>2, TakeRowMoves DEF IInv
  <1>2. /\ \A m \in sent' : m \in sent \/ New(m)
        /\ \A m, n \in sent' : New(m) /\ New(n) /\ m \notin sent /\ n \notin sent
              /\ m.channel = n.channel => m = n
    <2>1. ASSUME NEW m \in sent', m \notin sent
          PROVE  /\ New(m)
                 /\ m = [channel |-> m.channel, alerts |-> {a},
                         stamp |-> nowTs[u], by |-> u, attempt |-> attempt[u]]
      <3>1. PICK c \in P : m = NewTask(u, c, {row.id})
        BY <2>1
      <3>2. QED
        BY <3>1 DEF NewTask
    <2>2. QED
      BY <2>1
  <1>3. \A m \in sent : Live(m) /\ a \in m.alerts =>
          Gate!Due(m.stamp, nowTs[u], Spacing[a]) /\ m.stamp <= nowTs[u]
    BY TakenIsDue
  <1>4. Locks(u, a)' /\ claims'[u][a].at = nowTs[u]
    <2>1. claims'[u][a] \in [at : Nat, under : Rules]
      BY <1>1 DEF Row
    <2>2. QED
      BY <1>1, <2>1, NoneAssumption DEF Locks
  <1>5. TasksStamped'
    <2> SUFFICES ASSUME NEW m \in sent', Live(m)', NEW b \in m.alerts
                 PROVE  IF pc'[m.by] = "done"
                        THEN last[b] # Never /\ m.stamp <= last[b]
                        ELSE Locks(m.by, b)' /\ m.stamp <= claims'[m.by][b].at
      BY DEF TasksStamped
    <2>1. CASE m \in sent
      <3>1. Live(m) /\ m.by \in Uplinks /\ b \in Alerts
        BY <2>1, SentType DEF IInv, Live
      <3>2. CASE m.by # u
        BY <1>1, <2>1, <3>1, <3>2 DEF Spaced, TasksStamped, Locks
      <3>3. CASE m.by = u /\ b # a
        BY <1>1, <2>1, <3>1, <3>3 DEF Spaced, TasksStamped, Locks
      <3>4. CASE m.by = u /\ b = a
        BY <1>3, <1>4, <2>1, <3>1, <3>4
      <3>5. QED
        BY <3>2, <3>3, <3>4
    <2>2. CASE New(m)
      BY <1>1, <1>4, <2>2
    <2>3. QED
      BY <1>2, <2>1, <2>2
  <1>6. MailIsDue'
    <2> SUFFICES ASSUME NEW v \in Uplinks, NEW b \in mail'[v]
                 PROVE  /\ pc'[v] = "claim" /\ Locks(v, b)'
                        /\ claims'[v][b].at = nowTs'[v]
                        /\ \A m \in sent' :
                              Live(m)' /\ m.channel = "email" /\ b \in m.alerts
                                 => Gate!Due(m.stamp, nowTs'[v], Spacing[b])
      BY DEF MailIsDue, Gate!Due
    <2>1. \A m \in sent' : m.channel = "email" => m \in sent
      BY <1>2 DEF Direct
    <2>2. CASE v # u
      <3>1. /\ b \in mail[v] /\ pc'[v] = pc[v] /\ nowTs'[v] = nowTs[v]
            /\ claims'[v] = claims[v]
        BY <1>1, <2>2
      <3>2. /\ pc[v] = "claim" /\ Locks(v, b) /\ claims[v][b].at = nowTs[v]
            /\ \A m \in sent : Live(m) /\ m.channel = "email" /\ b \in m.alerts
                  => Gate!Due(m.stamp, nowTs[v], Spacing[b])
        BY <3>1 DEF Spaced, MailIsDue
      <3>3. QED
        BY <2>1, <3>1, <3>2 DEF Locks, Live
    <2>3. CASE v = u /\ b = a
      BY <1>1, <1>3, <1>4, <2>1, <2>3 DEF Live
    <2>4. CASE v = u /\ b # a
      <3>1. b \in mail[u] /\ UNCHANGED <<pc[u], nowTs[u]>>
        BY <2>4 DEF WithMail
      <3>2. b \in Alerts
        BY <3>1 DEF IInv, TypeOK
      <3>3. /\ pc[u] = "claim" /\ Locks(u, b) /\ claims[u][b].at = nowTs[u]
            /\ \A m \in sent : Live(m) /\ m.channel = "email" /\ b \in m.alerts
                  => Gate!Due(m.stamp, nowTs[u], Spacing[b])
        BY <3>1 DEF Spaced, MailIsDue
      <3>4. claims'[u][b] = claims[u][b]
        BY <1>1, <2>4, <3>2
      <3>5. QED
        BY <2>1, <2>4, <3>1, <3>3, <3>4 DEF Locks, Live
    <2>5. QED
      BY <2>2, <2>3, <2>4
  <1>7. DuplicatesOnlyAfterRollback'
    <2> SUFFICES ASSUME NEW m \in sent', NEW n \in sent',
                        NEW b \in m.alerts \cap n.alerts,
                        m # n, m.channel = n.channel, Live(m)', Live(n)'
                 PROVE  \/ Gate!Due(m.stamp, n.stamp, Spacing[b])
                        \/ Gate!Due(n.stamp, m.stamp, Spacing[b])
      BY DEF DuplicatesOnlyAfterRollback, Gate!Due, Live
    <2>1. Live(m) /\ Live(n)
      BY DEF Live
    <2>2. CASE m \in sent /\ n \in sent
      BY <2>1, <2>2 DEF Spaced, DuplicatesOnlyAfterRollback, Live
    <2>3. CASE m \in sent /\ New(n)
      BY <1>3, <2>1, <2>3
    <2>4. CASE New(m) /\ n \in sent
      BY <1>3, <2>1, <2>4
    <2>5. QED
      BY <1>2, <2>2, <2>3, <2>4
  <1>8. QED
    BY <1>5, <1>6, <1>7 DEF Spaced

\* Pushing the gathered emails: each was found due when it was gathered, and its
\* row has been locked since.
LEMMA PushMailKeepsSpaced ==
  ASSUME IInv, Spaced, NEW u \in Uplinks, PushMail(u)
  PROVE  Spaced'
  <1> DEFINE n == NewTask(u, "email", mail[u])
  <1>1. /\ pc'[u] # "done" /\ pc[u] = "claim" /\ mail'[u] = {}
        /\ \A v \in Uplinks \ {u} : UNCHANGED <<pc[v], mail[v], nowTs[v]>>
        /\ UNCHANGED <<last, claims, rolled>>
    BY NextReadingMoves DEF IInv, PushMail, db, txn, history
  <1>2. /\ n.by = u /\ n.alerts = mail[u] /\ n.stamp = nowTs[u]
        /\ n.channel = "email" /\ nowTs[u] \in Nat
    BY DEF NewTask, IInv, TypeOK
  <1>3. \A m \in sent' : m \in sent \/ m = n
    BY DEF PushMail
  <1>4. \A a \in mail[u] :
          /\ a \in Alerts /\ Locks(u, a) /\ claims[u][a].at = nowTs[u]
          /\ \A m \in sent : Live(m) /\ m.channel = "email" /\ a \in m.alerts
                => Gate!Due(m.stamp, nowTs[u], Spacing[a])
    BY DEF Spaced, MailIsDue, IInv, TypeOK
  <1>5. TasksStamped'
    <2> SUFFICES ASSUME NEW m \in sent', Live(m)', NEW b \in m.alerts
                 PROVE  IF pc'[m.by] = "done"
                        THEN last[b] # Never /\ m.stamp <= last[b]
                        ELSE Locks(m.by, b) /\ m.stamp <= claims[m.by][b].at
      BY <1>1 DEF TasksStamped, Locks
    <2>1. CASE m \in sent
      <3>1. Live(m) /\ m.by \in Uplinks
        BY <1>1, <2>1, SentType DEF IInv, Live
      <3>2. QED
        BY <1>1, <2>1, <3>1 DEF Spaced, TasksStamped
    <2>2. CASE m = n
      BY <1>1, <1>2, <1>4, <2>2
    <2>3. QED
      BY <1>3, <2>1, <2>2
  <1>6. MailIsDue'
    <2> SUFFICES ASSUME NEW v \in Uplinks, NEW b \in mail'[v]
                 PROVE  /\ pc'[v] = "claim" /\ Locks(v, b)
                        /\ claims[v][b].at = nowTs'[v]
                        /\ \A m \in sent' :
                              Live(m)' /\ m.channel = "email" /\ b \in m.alerts
                                 => Gate!Due(m.stamp, nowTs'[v], Spacing[b])
      BY <1>1 DEF MailIsDue, Gate!Due, Locks
    <2>1. /\ v # u /\ b \in mail[v] /\ pc'[v] = pc[v] /\ nowTs'[v] = nowTs[v]
      BY <1>1
    <2>2. /\ pc[v] = "claim" /\ Locks(v, b) /\ claims[v][b].at = nowTs[v]
          /\ \A m \in sent : Live(m) /\ m.channel = "email" /\ b \in m.alerts
                => Gate!Due(m.stamp, nowTs[v], Spacing[b])
      BY <2>1 DEF Spaced, MailIsDue
    <2>3. b \notin mail[u]
      BY <1>4, <2>1, <2>2 DEF IInv, OneHolder
    <2>4. QED
      BY <1>1, <1>2, <1>3, <2>1, <2>2, <2>3 DEF Live
  <1>7. DuplicatesOnlyAfterRollback'
    <2> SUFFICES ASSUME NEW m \in sent', NEW k \in sent',
                        NEW b \in m.alerts \cap k.alerts,
                        m # k, m.channel = k.channel, Live(m)', Live(k)'
                 PROVE  \/ Gate!Due(m.stamp, k.stamp, Spacing[b])
                        \/ Gate!Due(k.stamp, m.stamp, Spacing[b])
      BY DEF DuplicatesOnlyAfterRollback, Gate!Due, Live
    <2>1. Live(m) /\ Live(k)
      BY <1>1 DEF Live
    <2>2. CASE m \in sent /\ k \in sent
      BY <2>1, <2>2 DEF Spaced, DuplicatesOnlyAfterRollback, Live
    <2>3. CASE m \in sent /\ k = n
      BY <1>2, <1>4, <2>1, <2>3
    <2>4. CASE m = n /\ k \in sent
      BY <1>2, <1>4, <2>1, <2>4
    <2>5. QED
      BY <1>3, <2>2, <2>3, <2>4
  <1>8. QED
    BY <1>5, <1>6, <1>7 DEF Spaced

\* Committing moves a stamp forward, and to the claim of the own tasks.
LEMMA CommitKeepsSpaced ==
  ASSUME IInv, Spaced, NEW u \in Uplinks, Commit(u)
  PROVE  Spaced'
  <1>1. /\ pc[u] = "commit" /\ pc'[u] = "done"
        /\ \A v \in Uplinks \ {u} : pc'[v] = pc[v] /\ claims'[v] = claims[v]
        /\ UNCHANGED <<mail, nowTs, sent, rolled>>
    BY DEF IInv, TypeOK, Commit, dispatch
  <1>2. \A a \in Alerts : last'[a] = Seen(u, a)
    BY DEF Commit
  <1>3. TasksStamped'
    <2> SUFFICES ASSUME NEW m \in sent, Live(m), NEW b \in m.alerts
                 PROVE  IF pc'[m.by] = "done"
                        THEN last'[b] # Never /\ m.stamp <= last'[b]
                        ELSE Locks(m.by, b)' /\ m.stamp <= claims'[m.by][b].at
      BY <1>1 DEF TasksStamped, Live
    <2>1. m.by \in Uplinks /\ b \in Alerts /\ m.stamp \in Nat
      BY SentType DEF IInv
    <2>2. Locks(u, b) => claims[u][b].at \in Nat /\ claims[u][b].under.grace \in Nat
      BY <2>1, RuleGrace DEF IInv, TypeOK, Locks, Claim
    <2>3. CASE m.by = u
      <3>1. Locks(u, b) /\ m.stamp <= claims[u][b].at
        BY <1>1, <2>3 DEF Spaced, TasksStamped
      <3>2. QED
        BY <1>1, <1>2, <2>1, <2>2, <2>3, <3>1, NeverAssumption DEF Seen
    <2>4. CASE m.by # u /\ pc[m.by] # "done"
      BY <1>1, <2>1, <2>4 DEF Spaced, TasksStamped, Locks
    <2>5. CASE m.by # u /\ pc[m.by] = "done"
      <3>1. last[b] # Never /\ m.stamp <= last[b]
        BY <2>5 DEF Spaced, TasksStamped
      <3>2. last[b] \in Nat
        BY <2>1, <3>1 DEF IInv, TypeOK, Stamps
      <3>3. CASE Locks(u, b)
        <4>1. last[b] < claims[u][b].at - claims[u][b].under.grace
          BY <2>1, <3>1, <3>3 DEF IInv, ClaimsDue, Gate!Due
        <4>2. m.stamp <= claims[u][b].at
          BY <2>1, <2>2, <3>1, <3>2, <3>3, <4>1
        <4>3. QED
          BY <1>1, <1>2, <2>1, <2>2, <2>5, <3>3, <4>2, NeverAssumption DEF Seen
      <3>4. CASE ~Locks(u, b)
        BY <1>1, <1>2, <2>1, <2>5, <3>1, <3>4 DEF Seen
      <3>5. QED
        BY <3>3, <3>4
    <2>6. QED
      BY <2>3, <2>4, <2>5
  <1>4. MailIsDue'
    BY <1>1 DEF Spaced, MailIsDue, Locks, Live, Gate!Due
  <1>5. DuplicatesOnlyAfterRollback'
    BY <1>1 DEF Spaced, DuplicatesOnlyAfterRollback, Gate!Due
  <1>6. QED
    BY <1>3, <1>4, <1>5 DEF Spaced

LEMMA SpacedNext == IInv /\ Attempts /\ Spaced /\ [Next]_vars => Spaced'
  <1> SUFFICES ASSUME IInv, Attempts, Spaced, [Next]_vars PROVE Spaced'
    OBVIOUS
  <1> USE DEF db, dispatch, txn, history
  <1>1. TypeOK
    BY DEF IInv
  <1>2. \A v \in Uplinks : pc[v] # "claim" => mail[v] = {}
    BY DEF Spaced, MailIsDue
  <1>3. ASSUME NEW u \in Uplinks, NEW outcome, Rollback(u, outcome),
               pc[u] \in Handling
        PROVE  Spaced'
    <2>1. mail'[u] = {} /\ \A v \in Uplinks \ {u} :
                              UNCHANGED <<pc[v], mail[v], nowTs[v]>>
      BY <1>1, <1>3 DEF Rollback, EndDispatch, TypeOK
    <2>2. QED
      BY <1>1, <1>3, <2>1, RollbackKeepsSpaced DEF Rollback
  <1>4. ASSUME NEW u \in Uplinks, Write(u) PROVE Spaced'
    <2>1. CASE Rollback(u, "failed")
      BY <1>3, <1>4, <2>1 DEF Write
    <2>2. CASE ~Rollback(u, "failed")
      <3>1. \A v \in Uplinks : pc'[v] = "done" <=> pc[v] = "done"
        BY <1>1, <1>4, <2>2 DEF Write, TypeOK
      <3>2. \A v \in Uplinks : pc'[v] = pc[v] \/ mail'[v] = {}
        BY <1>1, <1>2, <1>4, <2>2 DEF Write, TypeOK
      <3>3. QED
        BY <1>1, <1>4, <2>2, <3>1, <3>2, QuietKeepsSpaced DEF Write
    <2>3. QED
      BY <2>1, <2>2
  <1>5. ASSUME NEW u \in Uplinks, Match(u) \/ Begin(u) \/ Resend(u)
        PROVE  Spaced'
    <2>1. \A v \in Uplinks : pc'[v] = "done" <=> pc[v] = "done"
      BY <1>1, <1>5 DEF Match, Begin, Resend, TypeOK
    <2>2. pc[u] # "claim" /\ mail' = mail
      BY <1>5 DEF Match, Begin, Resend
    <2>3. \A v \in Uplinks \ {u} : UNCHANGED <<pc[v], nowTs[v]>>
      BY <1>1, <1>5 DEF Match, Begin, Resend, TypeOK
    <2>4. UNCHANGED <<last, claims, sent, rolled>>
      BY <1>5 DEF Match, Begin, Resend
    <2>5. QED
      BY <1>1, <1>2, <2>1, <2>2, <2>3, <2>4, QuietKeepsSpaced
  <1>6. ASSUME UNCHANGED <<last, claims, sent, rolled, pc, mail, nowTs>>
        PROVE  Spaced'
    BY <1>1, <1>6, QuietKeepsSpaced
  <1>7. ASSUME NEW u \in Uplinks, ClaimLost(u) PROVE Spaced'
    BY <1>6, <1>7 DEF ClaimLost
  <1>8. ASSUME NEW u \in Uplinks, ClaimWon(u) PROVE Spaced'
    <2>1. PICK row \in todo[u] :
            /\ TakeRow(u, row)
            /\ mail' = [mail EXCEPT ![u] = WithMail(u, row)]
            /\ sent' = sent \cup {NewTask(u, c, {row.id}) : c \in Direct(row)}
      BY <1>8 DEF ClaimWon
    <2>2. /\ mail'[u] = WithMail(u, row)
          /\ \A v \in Uplinks \ {u} : mail'[v] = mail[v]
      BY <1>1, <2>1 DEF TypeOK
    <2>3. pc'[u] \in Handling /\ UNCHANGED <<last, rolled, pc, nowTs>>
      BY <1>8, <2>1 DEF ClaimWon, TakeRow, AtRow
    <2>4. QED
      BY <2>1, <2>2, <2>3, TakeRowKeepsSpaced
  <1>9. ASSUME NEW u \in Uplinks, ClaimWonPushRefused(u) PROVE Spaced'
    <2>1. PICK row \in todo[u], pushed \in {{}, {"whatsapp"}} :
            /\ TakeRow(u, row) /\ pushed \subseteq Direct(row)
            /\ sent' = sent \cup {NewTask(u, c, {row.id}) : c \in pushed}
            /\ NextReading(u) /\ UNCHANGED <<last, rolled>>
      BY <1>9 DEF ClaimWonPushRefused
    <2>2. /\ pc'[u] \in Handling /\ mail'[u] = {}
          /\ \A v \in Uplinks \ {u} : UNCHANGED <<pc[v], mail[v], nowTs[v]>>
      BY <1>1, <2>1, NextReadingMoves
    <2>3. QED
      BY <2>1, <2>2, TakeRowKeepsSpaced
  <1>10. ASSUME NEW u \in Uplinks, PushMailRefused(u) PROVE Spaced'
    <2>1. /\ pc[u] = "claim" /\ NextReading(u)
          /\ UNCHANGED <<last, claims, sent, rolled>>
      BY <1>10 DEF PushMailRefused
    <2>2. /\ pc'[u] # "done" /\ mail'[u] = {}
          /\ \A v \in Uplinks \ {u} : UNCHANGED <<pc[v], mail[v], nowTs[v]>>
      BY <1>1, <2>1, NextReadingMoves
    <2>3. QED
      BY <1>1, <2>1, <2>2, QuietKeepsSpaced
  <1>11. ASSUME NEW u \in Uplinks, DeadlockVictim(u) PROVE Spaced'
    <2>1. pc[u] = "claim"
      BY <1>11 DEF DeadlockVictim, Deadlocked, WaitsFor, AtRow
    <2>2. /\ mail'[u] = {}
          /\ \A v \in Uplinks \ {u} : UNCHANGED <<pc[v], mail[v], nowTs[v]>>
      BY <1>1, <1>11, NextReadingMoves DEF DeadlockVictim
    <2>3. QED
      BY <1>1, <1>11, <2>1, <2>2, RollbackKeepsSpaced DEF DeadlockVictim
  <1>12. ASSUME NEW u \in Uplinks, Crash(u) PROVE Spaced'
    BY <1>3, <1>12 DEF Crash
  <1>13. ASSUME NEW a \in Alerts,
                DeleteRule(a) \/ \E r \in Edits[a] : EditRule(a, r)
         PROVE  Spaced'
    BY <1>6, <1>13 DEF DeleteRule, EditRule
  <1>14. CASE Tick \/ UNCHANGED vars
    BY <1>6, <1>14 DEF Tick, vars
  <1>15. QED
    BY <1>4, <1>5, <1>7, <1>8, <1>9, <1>10, <1>11, <1>12, <1>13, <1>14,
       PushMailKeepsSpaced, CommitKeepsSpaced DEF Next, Handle

-----------------------------------------------------------------------------
(* What commits was pushed *)

\* A step that makes no claim but those of an attempt with a refused push, and
\* drops no gathered email of another claim.
LEMMA QuietKeepsPushed ==
  ASSUME TypeOK, Pushed, sent \subseteq sent', UNCHANGED fire,
         \A v \in Uplinks : \A a \in Alerts : Locks(v, a)' /\ ~refused'[v] =>
            /\ Locks(v, a) /\ ~refused[v] /\ mail[v] \subseteq mail'[v]
            /\ claims'[v][a] = claims[v][a] /\ attempt'[v] = attempt[v],
         \A v \in Uplinks :
            pc[v] = "done" => pc'[v] = "done" /\ refused'[v] = refused[v]
  PROVE  Pushed'
  <1>1. ClaimsPushed'
    <2> SUFFICES ASSUME NEW u \in Uplinks, NEW a \in Alerts,
                        Locks(u, a)', ~refused'[u],
                        NEW c \in claims'[u][a].under.channels
                 PROVE  IsPushed(u, a, c)' \/ (c = "email" /\ a \in mail'[u])
      BY DEF ClaimsPushed
    <2>1. IsPushed(u, a, c) \/ (c = "email" /\ a \in mail[u])
      BY DEF Pushed, ClaimsPushed
    <2>2. QED
      BY <2>1 DEF IsPushed
  <1>2. \A a \in Alerts : fire[a] # None => fire[a].by \in Uplinks
    BY DEF TypeOK, Firing
  <1>3. FiredIsDone'
    BY <1>2 DEF Pushed, FiredIsDone
  <1>4. CommittedFiringPushed'
    BY <1>2 DEF Pushed, FiredIsDone, CommittedFiringPushed
  <1>5. QED
    BY <1>1, <1>3, <1>4 DEF Pushed

LEMMA ClaimWonKeepsPushed ==
  ASSUME TypeOK, Pushed, NEW u \in Uplinks, ClaimWon(u)
  PROVE  Pushed'
  <1>1. PICK row \in todo[u] :
          /\ TakeRow(u, row)
          /\ mail' = [mail EXCEPT ![u] = WithMail(u, row)]
          /\ sent' = sent \cup {NewTask(u, c, {row.id}) : c \in Direct(row)}
    BY DEF ClaimWon
  <1>2. UNCHANGED <<attempt, refused, pc, fire>>
    BY DEF ClaimWon, history
  <1>3. /\ claims'[u][row.id] = [at |-> nowTs[u], under |-> row.rule]
        /\ \A v \in Uplinks : \A a \in Alerts :
              v # u \/ a # row.id => claims'[v][a] = claims[v][a]
    BY <1>1, TakeRowMoves
  <1>4. /\ mail'[u] = WithMail(u, row) /\ mail[u] \subseteq mail'[u]
        /\ \A v \in Uplinks \ {u} : mail'[v] = mail[v]
    BY <1>1 DEF TypeOK, WithMail
  <1>5. ClaimsPushed'
    <2> SUFFICES ASSUME NEW v \in Uplinks, NEW a \in Alerts,
                        Locks(v, a)', ~refused'[v],
                        NEW c \in claims'[v][a].under.channels
                 PROVE  IsPushed(v, a, c)' \/ (c = "email" /\ a \in mail'[v])
      BY DEF ClaimsPushed
    <2>1. CASE v # u \/ a # row.id
      <3>1. claims'[v][a] = claims[v][a] /\ Locks(v, a) /\ ~refused[v]
        BY <1>2, <1>3, <2>1 DEF Locks
      <3>2. IsPushed(v, a, c) \/ (c = "email" /\ a \in mail[v])
        BY <3>1 DEF Pushed, ClaimsPushed
      <3>3. QED
        BY <1>1, <1>2, <1>4, <3>1, <3>2 DEF IsPushed
    <2>2. CASE v = u /\ a = row.id /\ c = "email"
      BY <1>3, <1>4, <2>2 DEF WithMail
    <2>3. CASE v = u /\ a = row.id /\ c # "email"
      <3>1. c \in Direct(row)
        BY <1>3, <2>3 DEF Direct
      <3>2. NewTask(u, c, {row.id}) \in sent'
        BY <1>1, <3>1
      <3>3. QED
        BY <1>2, <1>3, <2>3, <3>2 DEF IsPushed, NewTask
    <2>4. QED
      BY <2>1, <2>2, <2>3
  <1>6. FiredIsDone'
    BY <1>2 DEF Pushed, FiredIsDone
  <1>7. CommittedFiringPushed'
    BY <1>1, <1>2 DEF Pushed, CommittedFiringPushed
  <1>8. QED
    BY <1>5, <1>6, <1>7 DEF Pushed

LEMMA PushMailKeepsPushed ==
  ASSUME TypeOK, Spaced, Pushed, NEW u \in Uplinks, PushMail(u)
  PROVE  Pushed'
  <1>1. /\ UNCHANGED <<claims, attempt, refused, fire>> /\ sent \subseteq sent'
        /\ pc[u] = "claim" /\ mail'[u] = {}
        /\ \A v \in Uplinks \ {u} : pc'[v] = pc[v] /\ mail'[v] = mail[v]
    BY NextReadingMoves DEF PushMail, txn, history
  <1>2. ClaimsPushed'
    <2> SUFFICES ASSUME NEW v \in Uplinks, NEW a \in Alerts,
                        Locks(v, a), ~refused[v],
                        NEW c \in claims[v][a].under.channels
                 PROVE  IsPushed(v, a, c)' \/ (c = "email" /\ a \in mail'[v])
      BY <1>1 DEF ClaimsPushed, Locks
    <2>1. IsPushed(v, a, c) \/ (c = "email" /\ a \in mail[v])
      BY DEF Pushed, ClaimsPushed
    <2>2. CASE IsPushed(v, a, c)
      BY <1>1, <2>2 DEF IsPushed
    <2>3. CASE v # u /\ c = "email" /\ a \in mail[v]
      BY <1>1, <2>3
    <2>4. CASE v = u /\ c = "email" /\ a \in mail[u]
      <3>1. NewTask(u, "email", mail[u]) \in sent'
        BY <2>4 DEF PushMail
      <3>2. claims[u][a].at = nowTs[u]
        BY <2>4 DEF Spaced, MailIsDue
      <3>3. QED
        BY <1>1, <2>4, <3>1, <3>2 DEF IsPushed, NewTask
    <2>5. QED
      BY <2>1, <2>2, <2>3, <2>4
  <1>3. FiredIsDone'
    BY <1>1 DEF TypeOK, Firing, Pushed, FiredIsDone
  <1>4. CommittedFiringPushed'
    BY <1>1 DEF Pushed, CommittedFiringPushed
  <1>5. QED
    BY <1>2, <1>3, <1>4 DEF Pushed

LEMMA CommitKeepsPushed ==
  ASSUME TypeOK, Spaced, Pushed, NEW u \in Uplinks, Commit(u)
  PROVE  Pushed'
  <1>1. /\ pc[u] = "commit" /\ pc'[u] = "done" /\ claims'[u] = NoClaims
        /\ \A v \in Uplinks \ {u} : pc'[v] = pc[v] /\ claims'[v] = claims[v]
        /\ UNCHANGED <<mail, refused, attempt, sent>>
    BY DEF TypeOK, Commit, dispatch
  <1>2. \A a \in Alerts :
          IF Locks(u, a)
          THEN /\ fire'[a].by = u /\ fire'[a].at = claims[u][a].at
               /\ fire'[a].under = claims[u][a].under
               /\ fire'[a].attempt = attempt[u]
          ELSE fire'[a] = fire[a]
    BY DEF Commit
  <1>3. ClaimsPushed'
    BY <1>1 DEF Pushed, ClaimsPushed, IsPushed, Locks, NoClaims
  <1>4. FiredIsDone'
    <2> SUFFICES ASSUME NEW a \in Alerts, fire'[a] # None
                 PROVE  pc'[fire'[a].by] = "done"
      BY DEF FiredIsDone
    <2>1. CASE Locks(u, a)
      BY <1>1, <1>2, <2>1
    <2>2. CASE ~Locks(u, a)
      <3>1. fire'[a] = fire[a] /\ fire[a].by \in Uplinks
        BY <1>2, <2>2 DEF TypeOK, Firing
      <3>2. pc[fire[a].by] = "done"
        BY <3>1 DEF Pushed, FiredIsDone
      <3>3. QED
        BY <1>1, <3>1, <3>2
    <2>3. QED
      BY <2>1, <2>2
  <1>5. CommittedFiringPushed'
    <2> SUFFICES ASSUME NEW a \in Alerts, fire'[a] # None, ~refused[fire'[a].by],
                        NEW c \in fire'[a].under.channels
                 PROVE  \E m \in sent :
                           /\ m.channel = c /\ a \in m.alerts
                           /\ m.stamp = fire'[a].at /\ m.by = fire'[a].by
                           /\ m.attempt = fire'[a].attempt
      BY <1>1 DEF CommittedFiringPushed
    <2>1. CASE Locks(u, a)
      <3>1. a \notin mail[u]
        BY <1>1 DEF Spaced, MailIsDue
      <3>2. ~refused[u] /\ c \in claims[u][a].under.channels
        BY <1>2, <2>1
      <3>3. IsPushed(u, a, c)
        BY <2>1, <3>1, <3>2 DEF Pushed, ClaimsPushed
      <3>4. QED
        BY <1>2, <2>1, <3>3 DEF IsPushed
    <2>2. CASE ~Locks(u, a)
      <3>1. fire'[a] = fire[a]
        BY <1>2, <2>2
      <3>2. QED
        BY <3>1 DEF Pushed, CommittedFiringPushed
    <2>3. QED
      BY <2>1, <2>2
  <1>6. QED
    BY <1>3, <1>4, <1>5 DEF Pushed

LEMMA PushedNext == TypeOK /\ Attempts /\ Spaced /\ Pushed /\ [Next]_vars => Pushed'
  <1> SUFFICES ASSUME TypeOK, Attempts, Spaced, Pushed, [Next]_vars PROVE Pushed'
    OBVIOUS
  <1> USE DEF db, dispatch, txn, history
  <1>1. ASSUME NEW u \in Uplinks, NEW outcome, Rollback(u, outcome),
               pc[u] \in Handling
        PROVE  Pushed'
    <2>1. /\ claims'[u] = NoClaims
          /\ \A v \in Uplinks \ {u} : /\ claims'[v] = claims[v]
                                       /\ mail'[v] = mail[v] /\ pc'[v] = pc[v]
      BY <1>1 DEF Rollback, EndDispatch, TypeOK
    <2>2. QED
      BY <1>1, <2>1, QuietKeepsPushed DEF Rollback, Locks, NoClaims
  <1>2. ASSUME UNCHANGED <<claims, mail, refused, attempt, sent, fire>>,
               \A v \in Uplinks : pc[v] = "done" => pc'[v] = "done"
        PROVE  Pushed'
    BY <1>2, QuietKeepsPushed DEF Locks
  <1>3. ASSUME NEW u \in Uplinks, Begin(u) PROVE Pushed'
    <2>1. /\ pc[u] = "waiting" /\ claims[u] = NoClaims
          /\ \A v \in Uplinks \ {u} : /\ attempt'[v] = attempt[v]
                                       /\ refused'[v] = refused[v]
                                       /\ pc'[v] = pc[v]
          /\ UNCHANGED <<claims, mail, sent, fire>>
      BY <1>3 DEF Begin, TypeOK, Attempts, IdleHoldsNothing
    <2>2. QED
      BY <2>1, QuietKeepsPushed DEF Locks, NoClaims
  <1>4. ASSUME NEW u \in Uplinks, Write(u) PROVE Pushed'
    <2>1. CASE Rollback(u, "failed")
      BY <1>1, <1>4, <2>1 DEF Write
    <2>2. CASE ~Rollback(u, "failed")
      BY <1>2, <1>4, <2>2 DEF Write, TypeOK
    <2>3. QED
      BY <2>1, <2>2
  <1>5. ASSUME NEW u \in Uplinks, Match(u) \/ ClaimLost(u) \/ Resend(u)
        PROVE  Pushed'
    <2>1. \A v \in Uplinks : pc[v] = "done" => pc'[v] = "done"
      BY <1>5 DEF Match, ClaimLost, Resend, TypeOK
    <2>2. UNCHANGED <<claims, mail, refused, attempt, sent, fire>>
      BY <1>5 DEF Match, ClaimLost, Resend
    <2>3. QED
      BY <1>2, <2>1, <2>2
  <1>6. ASSUME NEW u \in Uplinks, ClaimWonPushRefused(u) PROVE Pushed'
    <2>1. PICK row \in todo[u], pushed \in {{}, {"whatsapp"}} :
            /\ TakeRow(u, row)
            /\ sent' = sent \cup {NewTask(u, c, {row.id}) : c \in pushed}
            /\ refused' = [refused EXCEPT ![u] = TRUE]
            /\ NextReading(u) /\ UNCHANGED <<attempt, fire>>
      BY <1>6 DEF ClaimWonPushRefused
    <2>2. /\ pc[u] = "claim" /\ refused'[u]
          /\ \A v \in Uplinks \ {u} : /\ claims'[v] = claims[v]
                                       /\ refused'[v] = refused[v]
      BY <2>1, TakeRowMoves DEF TypeOK
    <2>3. \A v \in Uplinks \ {u} : pc'[v] = pc[v] /\ mail'[v] = mail[v]
      BY <2>1, NextReadingMoves
    <2>4. QED
      BY <2>1, <2>2, <2>3, QuietKeepsPushed DEF Locks
  <1>7. ASSUME NEW u \in Uplinks, PushMailRefused(u) PROVE Pushed'
    <2>1. /\ pc[u] = "claim" /\ refused'[u] /\ NextReading(u)
          /\ \A v \in Uplinks \ {u} : refused'[v] = refused[v]
          /\ UNCHANGED <<claims, attempt, sent, fire>>
      BY <1>7 DEF PushMailRefused, TypeOK
    <2>2. \A v \in Uplinks \ {u} : pc'[v] = pc[v] /\ mail'[v] = mail[v]
      BY <2>1, NextReadingMoves
    <2>3. QED
      BY <2>1, <2>2, QuietKeepsPushed DEF Locks
  <1>8. ASSUME NEW u \in Uplinks, DeadlockVictim(u) PROVE Pushed'
    <2>1. pc[u] = "claim"
      BY <1>8 DEF DeadlockVictim, Deadlocked, WaitsFor, AtRow
    <2>2. /\ claims'[u] = NoClaims
          /\ \A v \in Uplinks \ {u} : claims'[v] = claims[v]
          /\ NextReading(u) /\ UNCHANGED <<attempt, refused, sent, fire>>
      BY <1>8 DEF DeadlockVictim, TypeOK
    <2>3. \A v \in Uplinks \ {u} : pc'[v] = pc[v] /\ mail'[v] = mail[v]
      BY <2>2, NextReadingMoves
    <2>4. QED
      BY <2>1, <2>2, <2>3, QuietKeepsPushed DEF Locks, NoClaims
  <1>9. ASSUME NEW u \in Uplinks, Crash(u) PROVE Pushed'
    BY <1>1, <1>9 DEF Crash
  <1>10. ASSUME NEW a \in Alerts,
                DeleteRule(a) \/ \E r \in Edits[a] : EditRule(a, r)
         PROVE  Pushed'
    BY <1>2, <1>10 DEF DeleteRule, EditRule
  <1>11. CASE Tick \/ UNCHANGED vars
    BY <1>2, <1>11 DEF Tick, vars
  <1>12. QED
    BY <1>3, <1>4, <1>5, <1>6, <1>7, <1>8, <1>9, <1>10, <1>11,
       ClaimWonKeepsPushed, PushMailKeepsPushed, CommitKeepsPushed
    DEF Next, Handle

-----------------------------------------------------------------------------
(* Theorems *)

LEMMA PInvInit == Init => PInv
  <1> SUFFICES ASSUME Init PROVE PInv
    OBVIOUS
  <1>1. IInv /\ Attempts
    BY InvInit, AttemptsInit
  <1>2. /\ sent = {} /\ \A a \in Alerts : fire[a] = None
        /\ \A u \in Uplinks : mail[u] = {} /\ claims[u] = NoClaims
    BY DEF Init
  <1>3. Spaced
    BY <1>2 DEF Spaced, TasksStamped, MailIsDue, DuplicatesOnlyAfterRollback
  <1>4. Pushed
    BY <1>2 DEF Pushed, ClaimsPushed, FiredIsDone, CommittedFiringPushed,
       Locks, NoClaims
  <1>5. QED
    BY <1>1, <1>3, <1>4 DEF PInv

LEMMA PInvNext == PInv /\ [Next]_vars => PInv'
  <1>1. IInv => TypeOK
    BY DEF IInv
  <1>2. QED
    BY <1>1, InvNext, AttemptsNext, SpacedNext, PushedNext DEF PInv

\* ingest.py:580-613: for any number of concurrent handlers, two tasks of one
\* channel push the same alert within its spacing only if the transaction of
\* one of them was rolled back after the push.
THEOREM SpacedTasks == Spec => []DuplicatesOnlyAfterRollback
  <1>1. PInv => DuplicatesOnlyAfterRollback
    BY DEF PInv, Spaced
  <1>2. QED
    BY <1>1, PInvInit, PInvNext, PTL DEF Spec

\* ingest.py:580-613: whatever else happens, a committed firing was pushed on
\* every channel of its rule unless the broker refused a push of that uplink.
THEOREM FiringsPushed == Spec => []CommittedFiringPushed
  <1>1. PInv => CommittedFiringPushed
    BY DEF PInv, Pushed
  <1>2. QED
    BY <1>1, PInvInit, PInvNext, PTL DEF Spec
=============================================================================
