--------------------------- MODULE ServicesProofs ---------------------------
(***************************************************************************)
(* The history log, the hourly series, the settings of the language model, *)
(* the assistant and the satellite pictures, for any calls, workers,       *)
(* zones, requests, outlines and bounds.  Each has an invariant that says  *)
(* what an actor may still rely on of what it looked at earlier: a         *)
(* transaction, a row, a key, the owner of a zone, a token.                *)
(***************************************************************************)
EXTENDS MCServices, FiniteSetTheorems, TLAPS

-----------------------------------------------------------------------------
(* The history log *)

\* A transaction is aborted by nothing but a read that was swallowed, and who ended well
\* on a transaction that was not has committed.
LogInv ==
    /\ DOMAIN pcY = Calls /\ DOMAIN sound = Calls
    /\ \A c \in Calls : sound[c] \/ c \in spoiled
    /\ Y!WorkSurvivesItsRecord

LEMMA LogStep == LogInv /\ [Y!Next]_(Y!vars) => LogInv'
  <1> SUFFICES ASSUME LogInv, [Y!Next]_(Y!vars) PROVE LogInv'
    OBVIOUS
  <1> USE DEF LogInv, Y!WorkSurvivesItsRecord, Y!bounds, Y!call
  <1>1. ASSUME NEW c \in Calls, Y!Load(c) PROVE LogInv'
    BY <1>1 DEF Y!Load
  <1>2. ASSUME NEW c \in Calls, Y!Work(c) PROVE LogInv'
    BY <1>2 DEF Y!Work
  <1>3. ASSUME NEW c \in Calls, Y!Probe(c) PROVE LogInv'
    BY <1>3 DEF Y!Probe
  <1>4. ASSUME NEW c \in Calls, Y!ReadAgain(c) PROVE LogInv'
    BY <1>4 DEF Y!ReadAgain
  \* A record that could not be inserted leaves the transaction as it was.
  <1>5. ASSUME NEW c \in Calls, Y!_insert_guarded(c) PROVE LogInv'
    BY <1>5 DEF Y!_insert_guarded, Y!best_effort
  <1>6. ASSUME NEW c \in Calls, Y!Commit(c) PROVE LogInv'
    BY <1>6 DEF Y!Commit
  <1>7. ASSUME NEW c \in Calls, Y!Lose(c) PROVE LogInv'
    BY <1>7 DEF Y!Lose
  <1>8. CASE Y!Edit
    BY <1>8 DEF Y!Edit
  <1>9. CASE Y!Migrate
    BY <1>9 DEF Y!Migrate
  <1>10. CASE Y!Restart
    BY <1>10 DEF Y!Restart
  <1>11. CASE UNCHANGED Y!vars
    BY <1>11 DEF Y!vars
  <1>12. QED
    BY <1>1, <1>2, <1>3, <1>4, <1>5, <1>6, <1>7, <1>8, <1>9, <1>10, <1>11 DEF Y!Next, Y!Step

\* Recording a firing, a digest or a piece of advice does not undo it: who ended well has
\* committed its work, whatever became of the record, unless one of the reads that are
\* made without a savepoint failed (history.py, schema_compat.py).
THEOREM RecordingIsHarmless == Y!Spec => []WorkSurvivesItsRecord
  <1>1. Y!Init => LogInv
    BY DEF Y!Init, LogInv, Y!WorkSurvivesItsRecord
  <1>2. LogInv => WorkSurvivesItsRecord
    BY DEF LogInv, WorkSurvivesItsRecord
  <1>3. QED
    BY <1>1, <1>2, LogStep, PTL DEF Y!Spec

-----------------------------------------------------------------------------
(* The model settings *)

\* A key that is stored, or was resolved for a test, is of the provider it is used with, or
\* a save carried it over.
ConfigInv ==
    /\ storedL # None => storedL.key \in {None, storedL.provider} \cup carried
    /\ pcL = "resolved" => saved.key \in {None, saved.provider} \cup carried
    /\ L!KeyGoesToItsProvider

LEMMA ResolveFits ==
  ASSUME ConfigInv
  PROVE  L!resolve.key \in {None, L!resolve.provider} \cup carried
  BY DEF ConfigInv, L!resolve, L!decrypt_secret

LEMMA ConfigStep == ConfigInv /\ [L!Next]_(L!vars) => ConfigInv'
  <1> SUFFICES ASSUME ConfigInv, [L!Next]_(L!vars) PROVE ConfigInv'
    OBVIOUS
  <1> USE DEF ConfigInv, L!KeyGoesToItsProvider, L!test
  <1>1. ASSUME NEW p \in L!PROVIDER_CATALOG, NEW typed \in {"keep", "remove", "new"},
               NEW e \in BOOLEAN, L!put_config(p, typed, e)
        PROVE  ConfigInv'
    <2>1. /\ carried \subseteq carried' /\ UNCHANGED <<pcL, saved, sentL>>
          /\ storedL'.key \in {None, storedL'.provider} \cup carried'
      BY <1>1 DEF L!put_config
    <2>2. QED
      BY <2>1
  <1>2. CASE L!chat
    <2>1. L!resolve.key \in {None, L!resolve.provider} \cup carried
      BY ResolveFits
    <2>2. QED
      BY <1>2, <2>1 DEF L!chat
  <1>3. ASSUME NEW p \in L!Keys, NEW k \in {None, "typed"}, L!Resolve(p, k) PROVE ConfigInv'
    BY <1>3, ResolveFits DEF L!Resolve
  \* The second look at the settings finds the key with its provider too.
  <1>4. CASE L!test_config
    <2>1. L!TestKey \in {None, L!Provider} \cup carried
      BY <1>4 DEF L!test_config, L!TestKey, L!decrypt_secret
    <2>2. QED
      BY <1>4, <2>1 DEF L!test_config
  <1>5. CASE L!RotateSecret
    BY <1>5 DEF L!RotateSecret
  <1>6. CASE UNCHANGED L!vars
    BY <1>6 DEF L!vars
  <1>7. QED
    BY <1>1, <1>2, <1>3, <1>4, <1>5, <1>6 DEF L!Next

\* No key of a language model goes to another provider than it was typed for, by a chat or
\* by a test of settings that are saved or still in the form, but for a key that a save
\* kept while it changed the provider (assistant/config.py, admin_assistant.py).
THEOREM KeysStayHome == L!Spec => []KeyGoesToItsProvider
  <1>1. L!Init => ConfigInv
    BY DEF L!Init, ConfigInv, L!KeyGoesToItsProvider
  <1>2. ConfigInv => KeyGoesToItsProvider
    BY DEF ConfigInv, KeyGoesToItsProvider
  <1>3. QED
    BY <1>1, <1>2, ConfigStep, PTL DEF L!Spec

-----------------------------------------------------------------------------
(* The assistant *)

\* The selected zone was the caller's when it was looked at, and still is unless it moved;
\* only then is a proposal for it, unless the model named a zone itself.
ChatInv ==
    /\ known => pcC # "new" /\ (zone = "mine" \/ movedC)
    /\ pending # None /\ pending[2] = "selected" => known
    /\ \A o \in offers : o[2] = "selected" => known
    /\ C!AlertsOnOwnZone

LEMMA ChatStep == ChatInv /\ [C!Next]_(C!vars) => ChatInv'
  <1> SUFFICES ASSUME ChatInv, [C!Next]_(C!vars) PROVE ChatInv'
    OBVIOUS
  <1> USE DEF ChatInv, C!AlertsOnOwnZone, C!chat, C!farm
  <1>1. ASSUME NEW m \in C!Messages, NEW b \in BOOLEAN, C!Send(m, b) PROVE ChatInv'
    BY <1>1 DEF C!Send
  \* An answer proposes what is pending, or nothing.
  <1>2. ASSUME NEW a, C!Respond(a), a.proposal \in {None, pending} PROVE ChatInv'
    BY <1>2 DEF C!Respond
  <1>3. CASE C!RuleBased \/ C!GiveUp
    BY <1>2, <1>3 DEF C!RuleBased, C!GiveUp, C!FixedRules
  <1>4. ASSUME NEW b \in BOOLEAN, C!Answer(b) \/ C!Capped(b) PROVE ChatInv'
    BY <1>2, <1>4 DEF C!Answer, C!Capped, C!Reply
  <1>5. CASE C!RuleFails \/ C!Pause
    BY <1>5 DEF C!RuleFails, C!Pause
  <1>6. ASSUME NEW seq \in C!Rounds, C!AskTools(seq) PROVE ChatInv'
    BY <1>6 DEF C!AskTools
  <1>7. CASE C!Call
    <2> DEFINE tool == Head(wanted)
    <2>1. /\ pcC' # "new" /\ UNCHANGED <<zone, known, movedC, offers>> /\ C!execute(tool)
      BY <1>7 DEF C!Call, C!execute, C!Called, C!Propose, C!run_tool
    <2>2. CASE UNCHANGED <<pending, alerts>>
      BY <2>1, <2>2
    <2>3. ASSUME NEW said \in C!Written, C!Propose(tool, said) PROVE ChatInv'
      <3>1. UNCHANGED alerts
        BY <2>3 DEF C!Propose
      <3>2. pending' = pending \/ pending' = <<tool, C!Prefilled(said)>> \/ pending' = <<tool, "farm">>
        BY <2>3 DEF C!Propose
      \* Nothing the model writes is the selected zone.
      <3>3. C!Prefilled(said) = "selected" => known
        BY DEF C!Prefilled, C!Written
      <3>4. QED
        BY <2>1, <3>1, <3>2, <3>3
    <2>4. ASSUME NEW target \in C!Targets, tool \notin C!Mutating, C!run_tool(tool, target)
          PROVE  ChatInv'
      <3>1. UNCHANGED <<pending, alerts>>
        BY <2>4 DEF C!run_tool, C!handler, C!Mutating, C!Refuse
      <3>2. QED
        BY <2>2, <3>1
    <2>5. QED
      BY <2>1, <2>2, <2>3, <2>4 DEF C!execute
  \* The button: the alert is on the zone of the proposal, as it is by now, or on one that
  \* the model named.
  <1>8. ASSUME NEW o \in C!Offers, C!Confirm(o) PROVE ChatInv'
    <2>1. UNCHANGED <<zone, known, pcC, movedC, offers, pending>> /\ o \in offers
      BY <1>8 DEF C!Confirm
    <2>2. ASSUME NEW a \in alerts', a \notin alerts, a[1] = "other"
          PROVE  a[2] = "named" \/ (o[2] = "selected" /\ zone = "other")
      <3>1. PICK owner \in C!Owners(o[2]) : a = <<owner, o[2]>>
        BY <1>8, <2>2
        DEF C!Confirm, C!handler, C!_create_alert, C!_set_notification_cadence, C!Refuse
      <3>2. o[2] \in C!Targets
        BY DEF C!Offers
      <3>3. QED
        BY <2>2, <3>1, <3>2 DEF C!Owners, C!Targets
    <2>3. QED
      BY <2>1, <2>2
  <1>9. ASSUME NEW to, C!Move(to) PROVE ChatInv'
    BY <1>9 DEF C!Move
  <1>10. CASE UNCHANGED C!vars
    BY <1>10 DEF C!vars
  <1>11. QED
    BY <1>1, <1>3, <1>4, <1>5, <1>6, <1>7, <1>8, <1>9, <1>10 DEF C!Next

\* No alert that was proposed by the assistant is created on another's zone, whichever zone
\* the request selects, unless the model wrote the zone's id itself or the zone changed
\* hands after it was looked at (routers/assistant.py, assistant/llm.py, tools.py).
THEOREM ProposalsAreOwn == C!Spec => []AlertsOnOwnZone
  <1>1. C!Init => ChatInv
    BY DEF C!Init, ChatInv, C!AlertsOnOwnZone
  <1>2. ChatInv => AlertsOnOwnZone
    BY DEF ChatInv, AlertsOnOwnZone
  <1>3. QED
    BY <1>1, <1>2, ChatStep, PTL DEF C!Spec

-----------------------------------------------------------------------------
(* The hourly series *)

InHand(r) == due[r] \cup inserted[r]

\* Where the runs are, and in which range the counters.
Counted ==
    /\ DOMAIN pcS = Runners /\ DOMAIN todoS = Runners /\ DOMAIN due = Runners
    /\ DOMAIN inserted = Runners
    /\ \A r \in Runners : pcS[r] = "idle" => InHand(r) = {}
    /\ hour \in 0..MaxHour /\ buckets \in [S!Buckets -> Nat]

\* Two runs that are open, or have the same hour in hand, have met in it.
Met ==
    /\ \A q, r \in S!Open : q # r => hour \in met
    /\ \A q, r \in Runners : q # r =>
          \A b \in InHand(q), c \in InHand(r) : b[3] = c[3] => b[3] \in met

\* A row that is there twice, or is about to be, is of an hour in which runs have met.
Doubled ==
    /\ \A b \in S!Buckets : buckets[b] > 1 => b[3] \in met
    /\ \A r \in Runners : \A b \in S!Buckets \cap inserted[r] : buckets[b] > 0 => b[3] \in met

\* A run comes to the ET0 of a zone and an hour before its VPD, and leaves both behind.
Coupled(z, h) ==
    LET et0 == <<"et0", z, h>> vpd == <<"vpd", z, h>> IN
    /\ buckets[et0] > 0 <=> buckets[vpd] > 0
    /\ \A r \in Runners :
          /\ et0 \in due[r] => vpd \in due[r]
          /\ et0 \in inserted[r] => vpd \in InHand(r) \/ buckets[vpd] > 0
          /\ vpd \in InHand(r) /\ et0 \notin due[r] => et0 \in inserted[r] \/ buckets[et0] > 0
Coupling == \A z \in Plots, h \in 0..MaxHour : Coupled(z, h)

SeriesInv == Counted /\ Met /\ Doubled /\ Coupling

\* The cardinality of the instance is the library's.
LEMMA SameCardinality ==
  /\ \A T : S!Cardinality(T) = Cardinality(T)
  /\ \A T : S!IsFiniteSet(T) = IsFiniteSet(T)
  BY DEF S!Cardinality, Cardinality, S!IsFiniteSet, IsFiniteSet

LEMMA OneOrNone ==
  ASSUME NEW b, NEW T
  PROVE  /\ b \in T => S!Cardinality({b} \cap T) = 1
         /\ b \notin T => S!Cardinality({b} \cap T) = 0
  <1>1. b \in T => {b} \cap T = {b}
    OBVIOUS
  <1>2. b \notin T => {b} \cap T = {}
    OBVIOUS
  <1>3. QED
    BY <1>1, <1>2, SameCardinality, FS_Singleton, FS_EmptySet

LEMMA BucketShape ==
  /\ \A z \in Plots, h \in 0..MaxHour : <<"et0", z, h>> \in S!Buckets /\ <<"vpd", z, h>> \in S!Buckets
  /\ \A b \in S!Buckets : b[1] \in S!Series /\ b[2] \in Plots /\ b[3] \in 0..MaxHour
                          /\ b = <<b[1], b[2], b[3]>>
  BY DEF S!Buckets, S!Series

LEMMA SeriesInit == S!Init => SeriesInv
  <1> SUFFICES ASSUME S!Init PROVE SeriesInv
    OBVIOUS
  <1> USE DEF S!Init
  <1>1. Counted
    BY WorkersAssumption DEF Counted, InHand, S!WorkersAssumption
  <1>2. Met
    BY DEF Met, InHand, S!Open
  <1>3. Doubled
    BY DEF Doubled
  <1>4. Coupling
    BY BucketShape DEF Coupling, Coupled, InHand
  <1>5. QED
    BY <1>1, <1>2, <1>3, <1>4 DEF SeriesInv

LEMMA SeriesStep == SeriesInv /\ [S!Next]_(S!vars) => SeriesInv'
  <1> SUFFICES ASSUME SeriesInv, [S!Next]_(S!vars) PROVE SeriesInv'
    OBVIOUS
  <1> USE DEF S!run
  <1>0. Counted /\ Met /\ Doubled /\ Coupling
    BY DEF SeriesInv
  \* A run that ends has nothing in hand, and the others as much as before.
  <1>1. ASSUME NEW r \in Runners, S!End(r), UNCHANGED <<hour, buckets, met>>
        PROVE  SeriesInv'
    <2>1. /\ Counted' /\ S!Open' \subseteq S!Open
          /\ InHand(r)' = {} /\ inserted'[r] = {} /\ due'[r] = {}
          /\ \A q \in Runners \ {r} : due'[q] = due[q] /\ inserted'[q] = inserted[q]
      BY <1>0, <1>1 DEF S!End, Counted, InHand, S!Open
    <2>2. \A q \in Runners : InHand(q)' \subseteq InHand(q)
      BY <2>1 DEF InHand
    <2>3. Met'
      BY <1>0, <1>1, <2>1, <2>2 DEF Met
    <2>4. Doubled'
      BY <1>0, <1>1, <2>1 DEF Doubled
    <2>5. Coupling'
      <3> SUFFICES ASSUME NEW z \in Plots, NEW h \in 0..MaxHour PROVE Coupled(z, h)'
        BY DEF Coupling
      <3>1. Coupled(z, h)
        BY <1>0 DEF Coupling
      <3>2. QED
        BY <1>1, <2>1, <3>1 DEF Coupled, InHand
    <2>6. QED
      BY <2>1, <2>3, <2>4, <2>5 DEF SeriesInv
  \* Whoever is open when a run starts meets it.
  <1>2. ASSUME NEW r \in Runners, NEW k \in S!Kinds, S!Start(r, k) PROVE SeriesInv'
    <2>1. /\ Counted' /\ S!Open' \subseteq S!Open \cup {r} /\ met \subseteq met'
          /\ UNCHANGED <<hour, buckets, due, inserted>>
      BY <1>0, <1>2 DEF S!Start, Counted, InHand, S!Open, S!Kinds
    <2>2. Met'
      BY <1>0, <1>2, <2>1 DEF Met, S!Start, InHand
    <2>3. QED
      BY <1>0, <2>1, <2>2 DEF SeriesInv, Doubled, Coupling, Coupled, InHand
  <1>3. ASSUME NEW r \in Runners, NEW z \in Plots, S!Compute(r, z) PROVE SeriesInv'
    <2> DEFINE new == {<<s, z, hour>> : s \in S!Series}
    <2>1. CASE due' = due
      BY <1>0, <1>3, <2>1
      DEF S!Compute, SeriesInv, Counted, Met, Doubled, Coupling, Coupled, InHand, S!Open
    <2>2. CASE due' # due
      <3>1. /\ due' = [due EXCEPT ![r] = @ \cup new] /\ pcS[r] # "idle"
            /\ DOMAIN todoS' = Runners /\ UNCHANGED <<hour, buckets, pcS, inserted, met>>
        BY <1>0, <1>3, <2>2 DEF S!Compute, S!Open, Counted
      <3>2. \A q \in Runners : \A b \in InHand(q)' : b \in InHand(q) \/ (q = r /\ b[3] = hour)
        BY <1>0, <3>1 DEF Counted, InHand
      <3>3. Counted'
        BY <1>0, <3>1, <3>2 DEF Counted
      <3>4. \A q, o \in Runners : q # o /\ InHand(q)' # {} /\ InHand(o)' # {} => hour \in met
        BY <1>0, <3>1, <3>2 DEF Counted, Met, S!Open
      <3>5. Met'
        BY <1>0, <3>1, <3>2, <3>4 DEF Met, S!Open
      <3>6. Doubled'
        BY <1>0, <3>1 DEF Doubled
      <3>7. Coupling'
        <4> SUFFICES ASSUME NEW y \in Plots, NEW h \in 0..MaxHour PROVE Coupled(y, h)'
          BY DEF Coupling
        <4>1. <<"et0", y, h>> \in new <=> <<"vpd", y, h>> \in new
          BY DEF S!Series
        <4>2. Coupled(y, h)
          BY <1>0 DEF Coupling
        <4>3. \A q \in Runners : due'[q] = due[q] \/ due'[q] = due[q] \cup new
          BY <1>0, <3>1 DEF Counted
        <4>4. QED
          BY <3>1, <4>1, <4>2, <4>3 DEF Coupled, InHand
      <3>8. QED
        BY <3>3, <3>5, <3>6, <3>7 DEF SeriesInv
    <2>3. QED
      BY <2>1, <2>2
  \* A row is inserted where none is visible; the VPD after the ET0.
  <1>4. ASSUME NEW r \in Runners, NEW b \in S!Buckets, S!Upsert(r, b) PROVE SeriesInv'
    <2>1. /\ b \in due[r] /\ pcS[r] # "idle"
          /\ b[1] = "vpd" => <<"et0", b[2], b[3]>> \notin due[r]
          /\ due' = [due EXCEPT ![r] = @ \ {b}]
          /\ UNCHANGED <<hour, buckets, pcS, todoS, met>>
      BY <1>0, <1>4 DEF S!Upsert, S!Turn, Counted, InHand
    <2>2. \/ inserted' = [inserted EXCEPT ![r] = @ \cup {b}] /\ buckets[b] = 0
          \/ inserted' = inserted /\ (b \in inserted[r] \/ buckets[b] > 0)
      <3> DEFINE own == S!Cardinality({b} \cap inserted[r])
      <3>1. /\ b \in inserted[r] => own = 1
            /\ b \notin inserted[r] => own = 0
        BY OneOrNone
      <3>2. /\ S!Visible(r, b) = buckets[b] + own
            /\ IF S!Visible(r, b) = 0
               THEN inserted' = [inserted EXCEPT ![r] = @ \cup {b}]
               ELSE inserted' = inserted
        BY <1>4 DEF S!Upsert, S!Visible
      <3>3. buckets[b] \in Nat
        BY <1>0 DEF Counted
      <3> HIDE DEF own
      <3>4. QED
        BY <3>1, <3>2, <3>3
    <2>3. \A q \in Runners : InHand(q)' \subseteq InHand(q)
      BY <1>0, <2>1, <2>2 DEF InHand, Counted
    <2>4. Counted'
      BY <1>0, <2>1, <2>2, <2>3 DEF Counted
    <2>5. Met'
      BY <1>0, <2>1, <2>3 DEF Met, S!Open
    <2>6. Doubled'
      BY <1>0, <2>1, <2>2 DEF Doubled, Counted
    <2>7. Coupling'
      <3> SUFFICES ASSUME NEW z \in Plots, NEW h \in 0..MaxHour PROVE Coupled(z, h)'
        BY DEF Coupling
      <3>1. Coupled(z, h)
        BY <1>0 DEF Coupling
      <3>2. \A q \in Runners \ {r} : due'[q] = due[q] /\ inserted'[q] = inserted[q]
        BY <1>0, <2>1, <2>2 DEF Counted
      <3>3. /\ due'[r] = due[r] \ {b}
            /\ inserted'[r] = inserted[r] \cup {b} \/
               (inserted'[r] = inserted[r] /\ (b \in inserted[r] \/ buckets[b] > 0))
        BY <1>0, <2>1, <2>2 DEF Counted
      <3>4. CASE b = <<"et0", z, h>>
        BY <2>1, <3>1, <3>2, <3>3, <3>4 DEF Coupled, InHand
      <3>5. CASE b = <<"vpd", z, h>>
        BY <2>1, <3>1, <3>2, <3>3, <3>5 DEF Coupled, InHand
      <3>6. CASE b # <<"et0", z, h>> /\ b # <<"vpd", z, h>>
        BY <2>1, <3>1, <3>2, <3>3, <3>6 DEF Coupled, InHand
      <3>7. QED
        BY <3>4, <3>5, <3>6
    <2>8. QED
      BY <2>4, <2>5, <2>6, <2>7 DEF SeriesInv
  <1>5. ASSUME NEW r \in Runners, NEW b \in S!Buckets, S!MultipleResultsFound(r, b)
        PROVE  SeriesInv'
    BY <1>1, <1>5 DEF S!MultipleResultsFound
  <1>6. ASSUME NEW r \in Runners, S!Victim(r) \/ S!Fail(r) PROVE SeriesInv'
    BY <1>1, <1>6 DEF S!Victim, S!Fail
  \* What is committed next to a row of another run has met it.
  <1>7. ASSUME NEW r \in Runners, S!Commit(r) PROVE SeriesInv'
    <2>1. CASE buckets' = buckets
      BY <1>1, <1>7, <2>1 DEF S!Commit
    <2>2. CASE buckets' # buckets
      <3>1. /\ S!End(r) /\ due[r] = {} /\ UNCHANGED <<hour, met>>
            /\ buckets' = [b \in S!Buckets |-> buckets[b] + S!Cardinality({b} \cap inserted[r])]
        <4>1. S!End(r) /\ due[r] = {} /\ UNCHANGED <<hour, met>>
          BY <1>7 DEF S!Commit
        <4>2. QED
          BY <1>7, <2>2, <4>1 DEF S!Commit
      <3>2. \A b \in S!Buckets : buckets'[b] = IF b \in inserted[r] THEN buckets[b] + 1 ELSE buckets[b]
        BY <1>0, <3>1, OneOrNone DEF Counted
      <3>3. /\ S!Open' \subseteq S!Open /\ inserted'[r] = {} /\ due'[r] = {}
            /\ \A q \in Runners \ {r} : due'[q] = due[q] /\ inserted'[q] = inserted[q]
        BY <1>0, <3>1 DEF S!End, Counted, S!Open
      <3>4. Counted'
        BY <1>0, <3>1, <3>2, <3>3 DEF S!End, Counted, InHand
      <3>5. Met'
        BY <1>0, <3>1, <3>3 DEF Met, InHand
      <3>6. Doubled'
        <4>1. ASSUME NEW b \in S!Buckets, buckets'[b] > 1 PROVE b[3] \in met
          BY <1>0, <3>2, <4>1 DEF Doubled, Counted
        <4>2. ASSUME NEW q \in Runners, NEW b \in S!Buckets \cap inserted'[q], buckets'[b] > 0
              PROVE  b[3] \in met
          <5>1. q # r /\ b \in inserted[q]
            BY <3>3, <4>2
          <5>2. CASE b \in inserted[r]
            BY <1>0, <5>1, <5>2 DEF Met, InHand
          <5>3. CASE b \notin inserted[r]
            BY <1>0, <3>2, <4>2, <5>1, <5>3 DEF Doubled
          <5>4. QED
            BY <5>2, <5>3
        <4>3. QED
          BY <3>1, <4>1, <4>2 DEF Doubled
      <3>7. Coupling'
        <4> SUFFICES ASSUME NEW z \in Plots, NEW h \in 0..MaxHour PROVE Coupled(z, h)'
          BY DEF Coupling
        <4> DEFINE et0 == <<"et0", z, h>>
                   vpd == <<"vpd", z, h>>
        <4>1. Coupled(z, h) /\ et0 \in S!Buckets /\ vpd \in S!Buckets
          BY <1>0, BucketShape DEF Coupling
        <4>2. /\ buckets[et0] \in Nat /\ buckets[vpd] \in Nat
              /\ buckets'[et0] = IF et0 \in inserted[r] THEN buckets[et0] + 1 ELSE buckets[et0]
              /\ buckets'[vpd] = IF vpd \in inserted[r] THEN buckets[vpd] + 1 ELSE buckets[vpd]
          BY <1>0, <3>2, <4>1 DEF Counted
        <4>3. buckets'[et0] > 0 <=> buckets'[vpd] > 0
          BY <3>1, <4>1, <4>2 DEF Coupled, InHand
        <4>4. QED
          BY <3>3, <4>1, <4>2, <4>3 DEF Coupled, InHand
      <3>8. QED
        BY <3>4, <3>5, <3>6, <3>7 DEF SeriesInv
    <2>3. QED
      BY <2>1, <2>2
  <1>8. CASE S!Tick
    <2>1. /\ hour' \in 0..MaxHour /\ met \subseteq met'
          /\ UNCHANGED <<buckets, pcS, todoS, due, inserted>>
      BY <1>0, <1>8, WorkersAssumption DEF S!Tick, Counted, S!WorkersAssumption
    <2>2. \A q, o \in S!Open : q # o => hour' \in met'
      <3> SUFFICES ASSUME NEW q \in S!Open, NEW o \in S!Open, q # o PROVE hour' \in met'
        OBVIOUS
      <3>1. IsFiniteSet(S!Open)
        <4>1. S!Open \in SUBSET Runners /\ IsFiniteSet(Runners)
          BY WorkersAssumption, SameCardinality DEF S!WorkersAssumption, S!Open
        <4>2. QED
          BY <4>1, FS_Subset
      <3>2. Cardinality({q, o}) = 2
        <4>1. IsFiniteSet({o}) /\ Cardinality({o}) = 1
          BY FS_Singleton
        <4>2. {q, o} = {o} \cup {q} /\ q \notin {o}
          OBVIOUS
        <4>3. QED
          BY <4>1, <4>2, FS_AddElement
      <3>3. Cardinality({q, o}) <= Cardinality(S!Open)
        <4>1. {q, o} \in SUBSET S!Open
          OBVIOUS
        <4>2. QED
          BY <3>1, <4>1, FS_Subset
      <3>4. Cardinality(S!Open) \in Nat
        BY <3>1, FS_CardinalityType
      <3>5. Cardinality(S!Open) > 1
        BY <3>2, <3>3, <3>4
      <3>6. QED
        <4>1. hour' = hour + 1 /\ met' = met \cup {hour + 1}
          BY <1>8, <3>5, SameCardinality DEF S!Tick
        <4>2. QED
          BY <4>1
    <2>3. Met'
      BY <1>0, <2>1, <2>2 DEF Met, S!Open, InHand
    <2>4. QED
      BY <1>0, <2>1, <2>3 DEF SeriesInv, Counted, Doubled, Coupling, Coupled, InHand
  <1>9. ASSUME NEW z \in Plots, S!Delete(z) PROVE SeriesInv'
    BY <1>0, <1>9
    DEF S!Delete, SeriesInv, Counted, Met, Doubled, Coupling, Coupled, InHand, S!Open
  <1>10. CASE UNCHANGED S!vars
    BY <1>0, <1>10
    DEF S!vars, SeriesInv, Counted, Met, Doubled, Coupling, Coupled, InHand, S!Open
  <1>11. QED
    BY <1>2, <1>3, <1>4, <1>5, <1>6, <1>7, <1>8, <1>9, <1>10 DEF S!Next

\* However the runs of the hourly task overlap, fail, are killed or wait for each other, a
\* zone has one ET0 and one VPD for an hour in which no two were open, and always has the
\* one if it has the other (fastapp/tasks_compute.py, agriapi/tasks.py).
THEOREM OneRowPerHour == S!Spec => []OncePerBucket
  <1>1. SeriesInv => OncePerBucket
    <2> SUFFICES ASSUME SeriesInv, NEW z \in Plots, NEW h \in 0..MaxHour
                 PROVE  LET et0 == buckets[<<"et0", z, h>>] vpd == buckets[<<"vpd", z, h>>] IN
                        (et0 > 1 \/ vpd > 1 => h \in met) /\ (et0 > 0 <=> vpd > 0)
      BY DEF OncePerBucket, S!OncePerBucket
    <2>1. <<"et0", z, h>>[3] = h /\ <<"vpd", z, h>>[3] = h
      OBVIOUS
    <2>2. QED
      BY <2>1, BucketShape DEF SeriesInv, Doubled, Coupling, Coupled
  <1>2. QED
    BY <1>1, SeriesInit, SeriesStep, PTL DEF S!Spec

-----------------------------------------------------------------------------
(* The satellite pictures *)

\* Who is refused is excused: on its second attempt a request not excused has, or gets,
\* a token that is accepted.
Renewed ==
    /\ DOMAIN pcI = Requests /\ DOMAIN bearer = Requests /\ DOMAIN answerI = Requests
    /\ attemptI \in [Requests -> 1..2]
    /\ \A r \in Requests \ refusedI :
          /\ answerI[r] # I!Failed("auth")
          /\ attemptI[r] = 2 =>
                /\ token = None \/ token \in accepted
                /\ pcI[r] = "held" => token \in accepted
                /\ pcI[r] = "post" => bearer[r] \in accepted

\* What is cached for an outline is a picture of it, and what a request has in hand is the
\* outline as it read it.
Drawn ==
    /\ DOMAIN pcI = Requests /\ DOMAIN answerI = Requests
    /\ want \in [Requests -> I!Kinds] /\ DOMAIN geometry = Requests
    /\ outline \in Outlines \cup {None} /\ pictured \in BOOLEAN
    /\ DOMAIN cache = I!Kinds \X Outlines
    /\ \A k \in I!Kinds \X Outlines : cache[k] # None => cache[k] \in I!Shown /\ cache[k].of = k[2]
    /\ \A r \in Requests :
          /\ pcI[r] = "new" => answerI[r] = None
          /\ pcI[r] \notin {"new", "done"} => geometry[r] \in Outlines
    /\ I!ShownAsDrawn

LEMMA NotAPicture == \A e : I!Failed(e) \notin I!Shown
  BY DEF I!Failed, I!Shown

LEMMA PictureInit == I!Init => Renewed /\ Drawn
  <1> SUFFICES ASSUME I!Init PROVE Renewed /\ Drawn
    OBVIOUS
  <1> USE DEF I!Init
  <1>1. \A r \in Requests : answerI[r] = None /\ answerI[r] # I!Failed("auth")
    BY ShownAssumption DEF I!ShownAssumption
  <1>2. Renewed
    BY <1>1 DEF Renewed
  <1>3. I!ShownAsDrawn
    BY <1>1, ShownAssumption DEF I!ShownAsDrawn, I!ShownAssumption
  <1>4. \A k \in I!Kinds \X Outlines : cache[k] = None
    OBVIOUS
  <1>5. want \in [Requests -> I!Kinds]
    BY DEF I!Kinds
  <1>6. Drawn
    BY <1>1, <1>3, <1>4, <1>5 DEF Drawn
  <1>7. QED
    BY <1>2, <1>6

LEMMA RenewedStep == Renewed /\ Drawn /\ [I!Next]_(I!vars) => Renewed'
  <1> SUFFICES ASSUME Renewed, Drawn, [I!Next]_(I!vars) PROVE Renewed'
    OBVIOUS
  <1> USE DEF Renewed, I!Goto, I!Fault, I!client, I!server, I!local
  <1>1. ASSUME NEW r \in Requests, NEW k \in I!Kinds, I!Ask(r, k) PROVE Renewed'
    BY <1>1 DEF I!Ask, I!Reply, I!Failed
  <1>2. ASSUME NEW r \in Requests, I!LookUp(r) PROVE Renewed'
    <2>1. CASE UNCHANGED answerI
      BY <1>2, <2>1 DEF I!LookUp, I!Reply
    <2>2. CASE answerI' # answerI
      <3>1. I!Key(r) \in I!Kinds \X Outlines
        BY <1>2 DEF I!LookUp, I!Key, Drawn
      <3>2. cache[I!Key(r)] \in I!Shown /\ answerI' = [answerI EXCEPT ![r] = cache[I!Key(r)]]
        BY <1>2, <2>2, <3>1 DEF I!LookUp, I!Reply, Drawn
      <3>3. QED
        BY <1>2, <2>2, <3>2, NotAPicture DEF I!LookUp, I!Reply
    <2>3. QED
      BY <2>1, <2>2
  <1>3. ASSUME NEW r \in Requests, I!Bearer(r) PROVE Renewed'
    BY <1>3 DEF I!Bearer, I!Usable
  <1>4. ASSUME NEW r \in Requests, I!Login(r) PROVE Renewed'
    BY <1>4 DEF I!Login
  <1>5. ASSUME NEW r \in Requests, I!LoginFails(r) PROVE Renewed'
    BY <1>5 DEF I!LoginFails, I!Reply
  <1>6. ASSUME NEW r \in Requests, I!Return(r) PROVE Renewed'
    BY <1>6 DEF I!Return
  \* Who is about to return the token that is dropped is excused.
  <1>7. ASSUME NEW r \in Requests, I!Unauthorized(r) PROVE Renewed'
    BY <1>7 DEF I!Unauthorized, I!Reply, I!DropToken
  <1>8. ASSUME NEW r \in Requests, I!NextPage(r) PROVE Renewed'
    BY <1>8 DEF I!NextPage
  <1>9. ASSUME NEW r \in Requests, I!Answered(r) PROVE Renewed'
    <2>1. I!Answer(r) # I!Failed("auth")
      BY DEF I!Answer, I!Failed
    <2>2. QED
      BY <1>9, <2>1 DEF I!Answered, I!Reply
  <1>10. ASSUME NEW r \in Requests, I!Refused(r) PROVE Renewed'
    BY <1>10 DEF I!Refused, I!Reply
  <1>11. ASSUME NEW o \in Outlines \cup {None}, I!Draw(o) PROVE Renewed'
    BY <1>11 DEF I!Draw
  <1>12. CASE I!Publish \/ I!Age
    BY <1>12 DEF I!Publish, I!Age
  \* A second attempt outlives no revocation but an excused one.
  <1>13. ASSUME NEW t \in I!Tokens, I!Revoke(t) PROVE Renewed'
    BY <1>13 DEF I!Revoke
  <1>14. ASSUME NEW k \in I!Kinds \X Outlines, I!Forget(k) PROVE Renewed'
    BY <1>14 DEF I!Forget
  <1>15. CASE UNCHANGED I!vars
    BY <1>15 DEF I!vars
  <1>16. QED
    BY <1>1, <1>2, <1>3, <1>4, <1>5, <1>6, <1>7, <1>8, <1>9, <1>10, <1>11, <1>12, <1>13,
       <1>14, <1>15 DEF I!Next

LEMMA DrawnStep == Drawn /\ [I!Next]_(I!vars) => Drawn'
  <1> SUFFICES ASSUME Drawn, [I!Next]_(I!vars) PROVE Drawn'
    OBVIOUS
  <1> USE DEF Drawn, I!ShownAsDrawn, I!Goto, I!Fault, I!client, I!server, I!local
  <1>1. ASSUME NEW r \in Requests, NEW k \in I!Kinds, I!Ask(r, k) PROVE Drawn'
    BY <1>1, NotAPicture, ShownAssumption DEF I!Ask, I!Reply, I!ShownAssumption
  <1>2. ASSUME NEW r \in Requests, I!LookUp(r) PROVE Drawn'
    <2>1. I!Key(r) \in I!Kinds \X Outlines /\ I!Key(r)[2] = geometry[r]
      BY <1>2 DEF I!LookUp, I!Key
    <2>2. QED
      BY <1>2, <2>1 DEF I!LookUp, I!Reply
  <1>3. ASSUME NEW r \in Requests, I!Bearer(r) \/ I!Login(r) \/ I!Return(r) \/ I!NextPage(r)
        PROVE  Drawn'
    BY <1>3 DEF I!Bearer, I!Login, I!Return, I!NextPage
  <1>4. ASSUME NEW r \in Requests, I!LoginFails(r) \/ I!Refused(r) PROVE Drawn'
    BY <1>4, NotAPicture DEF I!LoginFails, I!Refused, I!Reply
  <1>5. ASSUME NEW r \in Requests, I!Unauthorized(r) PROVE Drawn'
    BY <1>5, NotAPicture DEF I!Unauthorized, I!Reply
  \* What is cached under an outline was computed for it.
  <1>6. ASSUME NEW r \in Requests, I!Answered(r) PROVE Drawn'
    <2>1. I!Key(r) \in I!Kinds \X Outlines /\ I!Key(r)[2] = geometry[r]
      BY <1>6 DEF I!Answered, I!Key
    <2>2. I!Answer(r) \in I!Shown /\ I!Answer(r).of = geometry[r]
      BY <1>6 DEF I!Answered, I!Answer, I!Shown
    <2>3. QED
      BY <1>6, <2>1, <2>2 DEF I!Answered, I!Reply
  <1>7. ASSUME NEW o \in Outlines \cup {None}, I!Draw(o) PROVE Drawn'
    BY <1>7 DEF I!Draw
  <1>8. CASE I!Publish \/ I!Age
    BY <1>8 DEF I!Publish, I!Age
  <1>9. ASSUME NEW t \in I!Tokens, I!Revoke(t) PROVE Drawn'
    BY <1>9 DEF I!Revoke
  <1>10. ASSUME NEW k \in I!Kinds \X Outlines, I!Forget(k) PROVE Drawn'
    BY <1>10 DEF I!Forget
  <1>11. CASE UNCHANGED I!vars
    BY <1>11 DEF I!vars
  <1>12. QED
    BY <1>1, <1>2, <1>3, <1>4, <1>5, <1>6, <1>7, <1>8, <1>9, <1>10, <1>11 DEF I!Next

LEMMA Pictures == I!Spec => [](Renewed /\ Drawn)
  <1>1. Renewed /\ Drawn /\ [I!Next]_(I!vars) => (Renewed /\ Drawn)'
    BY RenewedStep, DrawnStep
  <1>2. QED
    BY <1>1, PictureInit, PTL DEF I!Spec

\* A token of Copernicus that expired early costs one more login and not the request: who
\* is told that the credentials are refused had a second token refused, or asked for the
\* token just when another request dropped it (satellite/cdse.py: _post, _bearer).
THEOREM RefusalHasACause == I!Spec => []AuthForCause
  <1>1. Renewed => AuthForCause
    BY DEF Renewed, AuthForCause, I!AuthForCause
  <1>2. QED
    BY <1>1, Pictures, PTL

\* A request is shown the sector as it was drawn when it asked, whoever's answer it was and
\* however often the sector is redrawn (routers/ndvi.py, satellite/cdse.py: the cache key).
THEOREM PicturesAreOfTheSector == I!Spec => []ShownAsDrawn
  <1>1. Drawn => ShownAsDrawn
    BY DEF Drawn, ShownAsDrawn
  <1>2. QED
    BY <1>1, Pictures, PTL

=============================================================================
