---------------------------- MODULE AlertIngest ----------------------------
(***************************************************************************)
(* Push-on-ingest alerting (fastapp/ingest.py): concurrent handlers write  *)
(* the readings of an uplink and dispatch alerts for each one inside ONE   *)
(* database transaction and push Celery tasks from inside it, while users  *)
(* edit or delete their rules.  What the worker then does with a task is   *)
(* AlertDelivery.                                                          *)
(*                                                                         *)
(* The database is Postgres under READ COMMITTED: a conditional UPDATE     *)
(* takes a row lock that is held to the end of the transaction, a waiting  *)
(* UPDATE re-reads the row, and a deadlock victim's transaction is aborted *)
(* at once: every later statement of it raises and its COMMIT rolls back.  *)
(***************************************************************************)
EXTENDS Integers, Sequences, FiniteSets

CONSTANTS
  Alerts,        \* ids of the rows of analytics_alert
  Rules,         \* the contents a rule may have: see RuleType
  InitialRules,  \* the set of [Alerts -> Rules] the run starts from
  Edits,         \* [Alerts -> SUBSET Rules], what PATCH may turn a rule into
  ZoneSensors,   \* notification-zone assignments [nz, key, source]
  Uplinks,       \* the messages that arrive over HTTP or MQTT
  Payload,       \* [Uplinks -> Seq of readings [key, zone, value]]
  Values,        \* the values a reading may have
  BadValue,      \* a value the database refuses (weather JSON is not typed)
  CrashProne,    \* the uplinks whose handling process may die
  MaxNow,        \* bound on the clock
  MaxAttempts,   \* bound on the handling attempts of one uplink
  Spacing,       \* [Alerts -> Nat], the least grace any rule of the alert has
  Never,         \* a NULL stamp
  None,          \* a NULL zone or notification zone
  Deleted        \* the rule of a deleted row

Channels == {"email", "whatsapp", "sms"}

\* `fires` is the set of values on which condition and threshold hold.
RuleType(r) ==
    /\ r.fires \subseteq Values
    /\ r.is_active \in BOOLEAN
    /\ r.channels \subseteq Channels
    /\ r.grace \in Nat

ASSUME AlertsAssumption  == Alerts \subseteq Nat /\ IsFiniteSet(Alerts)
ASSUME RulesAssumption   == \A r \in Rules : RuleType(r)
ASSUME DeletedAssumption == Deleted \notin Rules
ASSUME InitialAssumption == InitialRules \subseteq [Alerts -> Rules]
ASSUME EditsAssumption   == Edits \in [Alerts -> SUBSET Rules]
ASSUME NeverAssumption   == Never \notin Nat
ASSUME NoneAssumption    == None \notin [at : Nat, under : Rules]
ASSUME CrashAssumption   == CrashProne \subseteq Uplinks
ASSUME BoundsAssumption  == MaxNow \in Nat /\ MaxAttempts \in Nat
ASSUME SpacingAssumption == Spacing \in [Alerts -> Nat]
\* No rule an alert ever has has a shorter grace than its Spacing.
ASSUME GraceAssumption ==
    \A a \in Alerts :
        /\ \A f \in InitialRules : f[a].grace >= Spacing[a]
        /\ \A r \in Edits[a] : r.grace >= Spacing[a]
ASSUME PayloadAssumption ==
    \A u \in Uplinks : Len(Payload[u]) \in Nat \ {0}

VARIABLES
  rule,      \* committed rule columns of each alert, or Deleted
  last,      \* committed last_emailed_at of each alert
  stored,    \* how often the readings of each uplink have been committed
  now,       \* the wall clock
  pc,        \* where the handler of each uplink is
  idx,       \* which reading of its payload it handles
  attempt,   \* how many times the uplink has been taken up
  nowTs,     \* `now_ts`, read once per dispatch
  todo,      \* the rows the dispatch selected and has still to claim
  mail,      \* `email_alert_ids`
  claims,    \* uncommitted claim of each alert (its row lock), or None
  aborted,   \* the transaction is in the failed state
  refused,   \* some send_task of this attempt raised
  sent,      \* every task ever pushed to the broker
  rolled,    \* <<uplink, attempt>> of the transactions that rolled back
  fire       \* the last committed firing of each alert, or None

db       == <<rule, last, stored>>
dispatch == <<nowTs, todo, mail>>
txn      == <<claims, aborted, refused>>
history  == <<rolled, fire>>
vars     == <<db, now, pc, idx, attempt, dispatch, txn, sent, history>>

Handling == {"write", "match", "claim", "commit"}
Stamps   == Nat \cup {Never}
Row      == [id : Alerts, rule : Rules]
Claim    == [at : Nat, under : Rules]
Task     == [channel : Channels, alerts : SUBSET Alerts, stamp : Nat,
             by : Uplinks, attempt : Nat]
Firing   == [prev : Stamps, at : Nat, under : Rules, by : Uplinks,
             attempt : Nat]

NoClaims == [a \in Alerts |-> None]

Init ==
    /\ rule \in InitialRules
    /\ last = [a \in Alerts |-> Never]
    /\ stored = [u \in Uplinks |-> 0]
    /\ now = 0
    /\ pc = [u \in Uplinks |-> "waiting"]
    /\ idx = [u \in Uplinks |-> 1]
    /\ attempt = [u \in Uplinks |-> 0]
    /\ nowTs = [u \in Uplinks |-> 0]
    /\ todo = [u \in Uplinks |-> {}]
    /\ mail = [u \in Uplinks |-> {}]
    /\ claims = [u \in Uplinks |-> NoClaims]
    /\ aborted = [u \in Uplinks |-> FALSE]
    /\ refused = [u \in Uplinks |-> FALSE]
    /\ sent = {} /\ rolled = {}
    /\ fire = [a \in Alerts |-> None]

-----------------------------------------------------------------------------
(* Which alerts a reading concerns *)

\* The notification zones a reading feeds: an assignment of its key whose
\* source zone is the reading's, or any zone.
FedZones(r) ==
    {s.nz : s \in {z \in ZoneSensors : z.key = r.key
                                      /\ z.source \in {r.zone, None}}}

\* User-wide, farm-zone and notification-zone alerts, active ones only.
Matches(a, r) ==
    /\ rule[a] # Deleted
    /\ rule[a].key = r.key
    /\ rule[a].is_active
    /\ \/ rule[a].nz = None /\ rule[a].zone \in {None, r.zone}
       \/ rule[a].nz \in FedZones(r)

\* The rows the loop gets as far as claiming: they fire on the value, and have
\* a channel (one without would stamp the cadence for nothing).
Candidates(r) ==
    {[id |-> a, rule |-> rule[a]] :
        a \in {b \in Alerts : Matches(b, r) /\ r.value \in rule[b].fires
                                          /\ rule[b].channels # {}}}

-----------------------------------------------------------------------------
(* The claim: a conditional UPDATE and its row lock *)

\* Mutant: the cutoff itself still counts as past the grace period.
DueAtCutoff(lastSent, at, grace) ==
    lastSent # Never => lastSent <= at - grace

Due(lastSent, at, grace) == lastSent # Never => lastSent < at - grace

Locks(u, a) == claims[u][a] # None

\* The stamp transaction u sees: its own write, else the committed row.
Seen(u, a) == IF Locks(u, a) THEN claims[u][a].at ELSE last[a]

\* Mutant: an UPDATE without its WHERE clause on the stamp.
ClaimAnyRow(u, row) == rule[row.id] # Deleted

\* The WHERE clause of the UPDATE, on the grace the dispatch has loaded.
CanClaim(u, row) ==
    rule[row.id] # Deleted /\ Due(Seen(u, row.id), nowTs[u], row.rule.grace)

\* The row the loop is at: ORDER BY id.
AtRow(u, row) ==
    /\ pc[u] = "claim"
    /\ row \in todo[u] /\ \A other \in todo[u] : row.id <= other.id

WaitsFor(u, v) ==
    u # v /\ \E row \in todo[u] : /\ AtRow(u, row) /\ CanClaim(u, row)
                                  /\ Locks(v, row.id)

\* u lies on a cycle of transactions each waiting for another one of it.
Deadlocked(u) ==
    \E S \in SUBSET Uplinks :
        /\ u \in S
        /\ \A v \in S : \E w \in S : WaitsFor(w, v)
        /\ \A v \in S : \E w \in S : WaitsFor(v, w)

-----------------------------------------------------------------------------
(* The handler of one uplink *)

Reading(u) == Payload[u][idx[u]]

\* The locals of a dispatch are gone when it returns or raises.
EndDispatch(u) ==
    /\ nowTs' = [nowTs EXCEPT ![u] = 0]
    /\ todo' = [todo EXCEPT ![u] = {}]
    /\ mail' = [mail EXCEPT ![u] = {}]

\* On to the next reading of the payload, or out of the session's block.
NextReading(u) ==
    /\ EndDispatch(u)
    /\ IF idx[u] < Len(Payload[u])
       THEN idx' = [idx EXCEPT ![u] = @ + 1] /\ pc' = [pc EXCEPT ![u] = "write"]
       ELSE idx' = idx /\ pc' = [pc EXCEPT ![u] = "commit"]

\* Mutant: the failed request leaks its connection, transaction still open.
LeakTransaction(u, outcome) ==
    /\ pc' = [pc EXCEPT ![u] = outcome]
    /\ EndDispatch(u)
    /\ rolled' = rolled \cup {<<u, attempt[u]>>}
    /\ UNCHANGED <<db, now, idx, attempt, txn, sent, fire>>

\* The transaction ends without its writes, whoever ended it.
Rollback(u, outcome) ==
    /\ pc' = [pc EXCEPT ![u] = outcome]
    /\ EndDispatch(u)
    /\ claims' = [claims EXCEPT ![u] = NoClaims]
    /\ rolled' = rolled \cup {<<u, attempt[u]>>}
    /\ UNCHANGED <<db, now, idx, attempt, aborted, refused, sent, fire>>

\* Mutant: the readings are counted from zero.
BeginAtZero(u) ==
    /\ pc[u] = "waiting" /\ attempt[u] < MaxAttempts
    /\ pc' = [pc EXCEPT ![u] = "write"]
    /\ idx' = [idx EXCEPT ![u] = 0]
    /\ attempt' = [attempt EXCEPT ![u] = @ + 1]
    /\ aborted' = [aborted EXCEPT ![u] = FALSE]
    /\ refused' = [refused EXCEPT ![u] = FALSE]
    /\ UNCHANGED <<db, now, dispatch, claims, sent, history>>

Begin(u) ==
    /\ pc[u] = "waiting" /\ attempt[u] < MaxAttempts
    /\ pc' = [pc EXCEPT ![u] = "write"]
    /\ idx' = [idx EXCEPT ![u] = 1]
    /\ attempt' = [attempt EXCEPT ![u] = @ + 1]
    /\ aborted' = [aborted EXCEPT ![u] = FALSE]
    /\ refused' = [refused EXCEPT ![u] = FALSE]
    /\ UNCHANGED <<db, now, dispatch, claims, sent, history>>

\* write_reading: INSERT and flush.  It raises on a value the column refuses
\* and in a transaction that has already failed; nothing in the handler
\* catches that, so session_scope rolls the whole uplink back.
Write(u) ==
    /\ pc[u] = "write"
    /\ IF aborted[u] \/ Reading(u).value = BadValue
       THEN Rollback(u, "failed")
       ELSE /\ pc' = [pc EXCEPT ![u] = "match"]
            /\ UNCHANGED <<db, now, idx, attempt, dispatch, txn, sent,
                           history>>

\* dispatch_alerts_for_reading up to the loop: select the rows, read now_ts.
Match(u) ==
    /\ pc[u] = "match"
    /\ nowTs' = [nowTs EXCEPT ![u] = now]
    /\ todo' = [todo EXCEPT ![u] = Candidates(Reading(u))]
    /\ pc' = [pc EXCEPT ![u] = "claim"]
    /\ UNCHANGED <<db, now, idx, attempt, mail, txn, sent, history>>

\* Another reading was stamped within the grace period, or the row is gone.
ClaimLost(u) ==
    \E row \in todo[u] :
        /\ AtRow(u, row) /\ ~CanClaim(u, row)
        /\ todo' = [todo EXCEPT ![u] = @ \ {row}]
        /\ UNCHANGED <<db, now, pc, idx, attempt, nowTs, mail, txn, sent,
                       history>>

NewTask(u, channel, alerts) ==
    [channel |-> channel, alerts |-> alerts, stamp |-> nowTs[u], by |-> u,
     attempt |-> attempt[u]]

\* Mutant: the gate is read first and written later, so nobody waits.
TakeRowUnlocked(u, row) ==
    /\ AtRow(u, row) /\ CanClaim(u, row)
    /\ claims' = [claims EXCEPT ![u][row.id] =
                     [at |-> nowTs[u], under |-> row.rule]]

\* The UPDATE waits until no other transaction holds the row; it matches, and
\* the row is stamped and locked.
TakeRow(u, row) ==
    /\ AtRow(u, row) /\ CanClaim(u, row)
    /\ \A v \in Uplinks \ {u} : ~Locks(v, row.id)
    /\ claims' = [claims EXCEPT ![u][row.id] =
                     [at |-> nowTs[u], under |-> row.rule]]

\* Mutant: only the last alert of the reading is mailed.
MailLastOnly(u, row) ==
    IF "email" \in row.rule.channels THEN {row.id} ELSE mail[u]

\* WhatsApp and SMS tasks are pushed at once; the email is gathered.
Direct(row) == row.rule.channels \ {"email"}
WithMail(u, row) ==
    IF "email" \in row.rule.channels THEN mail[u] \cup {row.id} ELSE mail[u]

ClaimWon(u) ==
    \E row \in todo[u] :
        /\ TakeRow(u, row)
        /\ todo' = [todo EXCEPT ![u] = @ \ {row}]
        /\ mail' = [mail EXCEPT ![u] = WithMail(u, row)]
        /\ sent' = sent \cup {NewTask(u, c, {row.id}) : c \in Direct(row)}
        /\ UNCHANGED <<db, now, pc, idx, attempt, nowTs, aborted, refused,
                       history>>

\* The broker refuses one of them (WhatsApp comes first): send_task raises out
\* of the dispatch, the caller logs it and goes on with the next reading.  The
\* claims stay; the gathered emails and the remaining rows are forgotten.
ClaimWonPushRefused(u) ==
    \E row \in todo[u] : \E pushed \in {{}, {"whatsapp"}} :
        /\ TakeRow(u, row)
        /\ pushed \subseteq Direct(row) /\ pushed # Direct(row)
        /\ sent' = sent \cup {NewTask(u, c, {row.id}) : c \in pushed}
        /\ refused' = [refused EXCEPT ![u] = TRUE]
        /\ NextReading(u)
        /\ UNCHANGED <<db, now, attempt, aborted, history>>

\* One task for all the emails of the reading: the plain one or the digest.
PushMail(u) ==
    /\ pc[u] = "claim" /\ todo[u] = {}
    /\ sent' = IF mail[u] = {} THEN sent
               ELSE sent \cup {NewTask(u, "email", mail[u])}
    /\ NextReading(u)
    /\ UNCHANGED <<db, now, attempt, txn, history>>

PushMailRefused(u) ==
    /\ pc[u] = "claim" /\ todo[u] = {} /\ mail[u] # {}
    /\ refused' = [refused EXCEPT ![u] = TRUE]
    /\ NextReading(u)
    /\ UNCHANGED <<db, now, attempt, claims, aborted, sent, history>>

\* Postgres breaks the cycle at u.  The dispatch raises and is logged; the
\* handler goes on in a transaction that has lost everything it wrote.
DeadlockVictim(u) ==
    /\ Deadlocked(u)
    /\ claims' = [claims EXCEPT ![u] = NoClaims]
    /\ aborted' = [aborted EXCEPT ![u] = TRUE]
    /\ rolled' = rolled \cup {<<u, attempt[u]>>}
    /\ NextReading(u)
    /\ UNCHANGED <<db, now, attempt, refused, sent, fire>>

\* The end of session_scope(commit=True).  COMMIT of a failed transaction is
\* a silent ROLLBACK: the caller is answered all the same.
Commit(u) ==
    /\ pc[u] = "commit"
    /\ pc' = [pc EXCEPT ![u] = "done"]
    /\ last' = [a \in Alerts |-> Seen(u, a)]
    /\ stored' = [stored EXCEPT ![u] = IF aborted[u] THEN @ ELSE @ + 1]
    /\ fire' = [a \in Alerts |->
                  IF Locks(u, a)
                  THEN [prev |-> last[a], at |-> claims[u][a].at,
                        under |-> claims[u][a].under, by |-> u,
                        attempt |-> attempt[u]]
                  ELSE fire[a]]
    /\ claims' = [claims EXCEPT ![u] = NoClaims]
    /\ UNCHANGED <<rule, now, idx, attempt, dispatch, aborted, refused, sent,
                   rolled>>

\* The process dies: the connection is lost and Postgres rolls back.  The
\* MQTT broker redelivers what was not acknowledged, a sender may post again.
Crash(u) ==
    u \in CrashProne /\ pc[u] \in Handling /\ Rollback(u, "waiting")

\* The sender of a request answered with an error posts it again.
Resend(u) ==
    /\ pc[u] = "failed" /\ attempt[u] < MaxAttempts
    /\ pc' = [pc EXCEPT ![u] = "waiting"]
    /\ UNCHANGED <<db, now, idx, attempt, dispatch, txn, sent, history>>

-----------------------------------------------------------------------------
(* The rules' owners and the clock *)

Unlocked(a) == \A v \in Uplinks : ~Locks(v, a)

\* PATCH /alerts/{pk} writes the rule's columns, never the stamp.
EditRule(a, r) ==
    /\ rule[a] # Deleted /\ rule[a] # r /\ Unlocked(a)
    /\ rule' = [rule EXCEPT ![a] = r]
    /\ UNCHANGED <<last, stored, now, pc, idx, attempt, dispatch, txn, sent,
                   history>>

DeleteRule(a) ==
    /\ rule[a] # Deleted /\ Unlocked(a)
    /\ rule' = [rule EXCEPT ![a] = Deleted]
    /\ UNCHANGED <<last, stored, now, pc, idx, attempt, dispatch, txn, sent,
                   history>>

Tick ==
    /\ now < MaxNow
    /\ now' = now + 1
    /\ UNCHANGED <<db, pc, idx, attempt, dispatch, txn, sent, history>>

\* What the handler's thread does once it has taken up an uplink.
Handle(u) ==
    \/ Write(u) \/ Match(u) \/ ClaimLost(u) \/ ClaimWon(u)
    \/ ClaimWonPushRefused(u) \/ PushMail(u) \/ PushMailRefused(u)
    \/ DeadlockVictim(u) \/ Commit(u)

Next ==
    \/ \E u \in Uplinks : Begin(u) \/ Handle(u) \/ Crash(u) \/ Resend(u)
    \/ \E a \in Alerts : \/ \E r \in Edits[a] : EditRule(a, r)
                         \/ DeleteRule(a)
    \/ Tick

Spec == Init /\ [][Next]_vars

\* A thread that holds a transaction keeps running (Postgres resolves its
\* waits); nobody promises new uplinks, crashes, retries or edits.
FairSpec == Spec /\ \A u \in Uplinks : WF_vars(Handle(u))

-----------------------------------------------------------------------------
(* Properties *)

\* The types of the variables.
TypeOK ==
    /\ rule \in [Alerts -> Rules \cup {Deleted}]
    /\ last \in [Alerts -> Stamps]
    /\ stored \in [Uplinks -> Nat]
    /\ now \in Nat
    /\ pc \in [Uplinks -> Handling \cup {"waiting", "done", "failed"}]
    /\ idx \in [Uplinks -> Nat]
    /\ \A u \in Uplinks : idx[u] \in 1..Len(Payload[u])
    /\ attempt \in [Uplinks -> Nat]
    /\ nowTs \in [Uplinks -> Nat]
    /\ todo \in [Uplinks -> SUBSET Row]
    /\ mail \in [Uplinks -> SUBSET Alerts]
    /\ claims \in [Uplinks -> [Alerts -> Claim \cup {None}]]
    /\ aborted \in [Uplinks -> BOOLEAN]
    /\ refused \in [Uplinks -> BOOLEAN]
    /\ sent \subseteq Task
    /\ rolled \subseteq Uplinks \X Nat
    /\ fire \in [Alerts -> Firing \cup {None}]

\* The abstract cadence gate, its stamp column being last_emailed_at.
Gate == INSTANCE GraceGate WITH Items <- Alerts, stamp <- last

\* ingest.py:533-549, alerts.md:353: however handlers interleave, wait for each
\* other's row locks and roll back, a committed firing is more than the grace
\* of the rule it was evaluated under after the committed firing before it.
CadenceRespected ==
    \A a \in Alerts : fire[a] # None =>
        Gate!Due(fire[a].prev, fire[a].at, fire[a].under.grace)

\* The same for the row itself: every commit moves last_emailed_at the way the
\* abstract gate allows, and nothing else (edits, deletes, rollbacks) does.
ImplementsGraceGate == Gate!Spec

\* ingest.py:580-613: two tasks of one channel push the same alert within its
\* spacing only if the transaction of one of them was rolled back, since the
\* push cannot be taken back with the claim.
DuplicatesOnlyAfterRollback ==
    \A m, n \in sent : \A a \in m.alerts \cap n.alerts :
        \/ m = n \/ m.channel # n.channel
        \/ <<m.by, m.attempt>> \in rolled \/ <<n.by, n.attempt>> \in rolled
        \/ Gate!Due(m.stamp, n.stamp, Spacing[a])
        \/ Gate!Due(n.stamp, m.stamp, Spacing[a])

\* ingest.py:580-613: a firing that was committed (and silences the alert for
\* its grace period) was pushed on every channel of the rule, unless the
\* broker refused a push of that very uplink.
CommittedFiringPushed ==
    \A a \in Alerts : fire[a] # None =>
        \/ refused[fire[a].by]
        \/ \A c \in fire[a].under.channels : \E m \in sent :
               /\ m.channel = c /\ a \in m.alerts /\ m.stamp = fire[a].at
               /\ m.by = fire[a].by /\ m.attempt = fire[a].attempt

\* Handlers waiting for each other's row locks do not wait for ever: every
\* uplink taken up is answered, fails, or dies with its process.
HandlersFinish ==
    \A u \in Uplinks : pc[u] \in Handling ~> pc[u] \notin Handling

\* alerts.md:353-356, "only one email is enqueued": no two emails of an alert
\* are pushed within its grace period.
OneEmailPerGrace ==
    \A m, n \in sent : \A a \in m.alerts \cap n.alerts :
        \/ m = n \/ m.channel # "email" \/ n.channel # "email"
        \/ Gate!Due(m.stamp, n.stamp, Spacing[a])
        \/ Gate!Due(n.stamp, m.stamp, Spacing[a])

\* ingest.py:668, 789, 841: alert dispatch never aborts the ingest loop, so an
\* uplink that was answered has its readings in the database.
AnsweredIsStored == \A u \in Uplinks : pc[u] = "done" => stored[u] > 0
=============================================================================
