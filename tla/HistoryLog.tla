----------------------------- MODULE HistoryLog -----------------------------
(***************************************************************************)
(* What happened, appended for the reports: the firing of an alert and the *)
(* decision behind a piece of irrigation advice (fastapp/history.py).  The *)
(* record is best effort: the tables may not be there yet, which a process *)
(* finds out once (fastapp/schema_compat.py), and a failure is swallowed.  *)
(* A firing and a digest record on the transaction of their own work, the  *)
(* advice of the assistant on one of its own.                              *)
(***************************************************************************)
EXTENDS Naturals, FiniteSets

CONSTANTS
  Calls,      \* the deliveries, ticks and requests that record something
  None,       \* no row
  KindOf,     \* of each call: "firing", "digest" or "advice"
  MaxEdits, MaxFaults, MaxRestarts   \* bounds

VARIABLES
  tables,     \* the migration of the history tables is applied
  probed,     \* what this process found: "unknown", "present" or "absent"
  rule,       \* the alert rule by version, 0 once deleted; or the state of the field
  pc,         \* where a call is
  snap,       \* the version of it the call evaluates
  row,        \* what the history row of the call tells, None before it is inserted
  sound,      \* the transaction of the call has not been aborted
  holds,      \* the call whose claim has the rule locked
  log,        \* the committed rows: the call, and what its row says of the rule
  worked,     \* the calls whose own work is committed
  spoiled,    \* the calls that swallowed a failing read without a savepoint
  edits, faults, restarts

call   == <<pc, snap, row, sound, holds>>
bounds == <<edits, faults, restarts>>
vars   == <<tables, probed, rule, call, log, worked, spoiled, bounds>>

TypeOK ==
    /\ tables \in BOOLEAN /\ probed \in {"unknown", "present", "absent"}
    /\ rule \in 0..MaxEdits + 1 /\ holds \subseteq Calls /\ Cardinality(holds) <= 1
    /\ pc \in [Calls -> {"new", "loaded", "probe", "reads", "insert", "commit", "ok", "failed"}]
    /\ snap \in [Calls -> 0..MaxEdits + 1]
    /\ row \in [Calls -> (0..MaxEdits + 1) \cup {None}] /\ sound \in [Calls -> BOOLEAN]
    /\ log \subseteq Calls \X (0..MaxEdits + 1)
    /\ worked \subseteq Calls /\ spoiled \subseteq Calls

Init ==
    /\ tables = FALSE /\ probed = "unknown" /\ rule = 1
    /\ pc = [c \in Calls |-> "new"] /\ snap = [c \in Calls |-> 0]
    /\ row = [c \in Calls |-> None] /\ sound = [c \in Calls |-> TRUE] /\ holds = {}
    /\ log = {} /\ worked = {} /\ spoiled = {} /\ edits = 0 /\ faults = 0 /\ restarts = 0

-----------------------------------------------------------------------------
(* The work of the call *)

\* The rules are read and evaluated, and the advice is computed, first.
Load(c) ==
    /\ pc[c] = "new" /\ (KindOf[c] = "firing" => rule # 0)
    /\ snap' = [snap EXCEPT ![c] = rule]
    /\ pc' = [pc EXCEPT ![c] = IF KindOf[c] = "advice" THEN "probe" ELSE "loaded"]
    /\ UNCHANGED <<tables, probed, rule, row, sound, holds, log, worked, spoiled, bounds>>

\* The conditional UPDATE that claims the firing locks the rule; a rule that is
\* gone is not claimed. A digest adds its row of the delivery log.
Work(c) ==
    /\ pc[c] = "loaded"
    /\ IF KindOf[c] = "firing"
       THEN /\ holds = {}
            /\ IF rule = 0 THEN pc' = [pc EXCEPT ![c] = "failed"] /\ UNCHANGED holds
               ELSE pc' = [pc EXCEPT ![c] = "probe"] /\ holds' = {c}
       ELSE pc' = [pc EXCEPT ![c] = "probe"] /\ UNCHANGED holds
    /\ UNCHANGED <<tables, probed, rule, snap, row, sound, log, worked, spoiled, bounds>>

-----------------------------------------------------------------------------
(* The record *)

\* The inspector asks on a connection of its own; what it cannot find out is
\* kept as an absence, until the process restarts.
table_available(found) == probed' = IF probed = "unknown" THEN found ELSE probed

Probe(c) ==
    /\ pc[c] = "probe"
    /\ \/ table_available(IF tables THEN "present" ELSE "absent") /\ UNCHANGED faults
       \/ /\ faults < MaxFaults /\ probed = "unknown"
          /\ table_available("absent") /\ faults' = faults + 1
    /\ pc' = [pc EXCEPT ![c] = IF probed' = "absent" THEN "commit"
                               ELSE IF KindOf[c] = "digest" THEN "reads" ELSE "insert"]
    /\ UNCHANGED <<tables, rule, snap, row, sound, holds, log, worked, spoiled, edits, restarts>>

\* record_notification_decision reads the zone and the state of the field again:
\* what goes on record is not what the mail was composed from. A failure is
\* swallowed, and the transaction it was in stays aborted.
ReadAgain(c) ==
    /\ pc[c] = "reads"
    /\ \/ /\ pc' = [pc EXCEPT ![c] = "insert"] /\ snap' = [snap EXCEPT ![c] = rule]
          /\ UNCHANGED <<sound, spoiled, faults>>
       \/ /\ pc' = [pc EXCEPT ![c] = "commit"] \* no zone: nothing to record
          /\ UNCHANGED <<snap, sound, spoiled, faults>>
       \/ /\ faults < MaxFaults /\ faults' = faults + 1
          /\ sound' = [sound EXCEPT ![c] = FALSE] /\ spoiled' = spoiled \cup {c}
          /\ pc' = [pc EXCEPT ![c] = "commit"] /\ UNCHANGED snap
    /\ UNCHANGED <<tables, probed, rule, row, holds, log, worked, edits, restarts>>

\* Mutant: the INSERT is executed without a savepoint.
Unguarded(c) == sound' = [sound EXCEPT ![c] = FALSE]
\* A failing INSERT is rolled back to its savepoint.
best_effort(c) == sound' = sound

\* What the row says of the rule was copied from the rule that was evaluated.
build_alert_event_row(c) == snap[c]
\* What it says of the field, from the advice that was given, or from what the
\* digest's own decision read last.
build_decision_row(c) == snap[c]

_insert_guarded(c) ==
    /\ pc[c] = "insert" /\ pc' = [pc EXCEPT ![c] = "commit"]
    /\ \/ row' = [row EXCEPT ![c] =
              IF KindOf[c] = "firing" THEN build_alert_event_row(c)
              ELSE build_decision_row(c)]
          /\ UNCHANGED <<sound, faults>>
       \/ /\ faults < MaxFaults /\ faults' = faults + 1
          /\ best_effort(c) /\ UNCHANGED row
    /\ UNCHANGED <<tables, probed, rule, snap, holds, log, worked, spoiled, edits, restarts>>

\* COMMIT of an aborted transaction rolls it back, and reports no error.
Commit(c) ==
    /\ pc[c] = "commit" /\ pc' = [pc EXCEPT ![c] = "ok"]
    /\ worked' = IF sound[c] \/ KindOf[c] = "advice" THEN worked \cup {c} ELSE worked
    /\ log' = IF row[c] # None /\ sound[c] THEN log \cup {<<c, row[c]>>} ELSE log
    /\ holds' = holds \ {c}
    /\ UNCHANGED <<tables, probed, rule, snap, row, sound, spoiled, bounds>>

\* The commit fails: the call fails with it, but for the advice, which has its
\* answer and swallows that too.
Lose(c) ==
    /\ pc[c] = "commit" /\ faults < MaxFaults /\ faults' = faults + 1
    /\ pc' = [pc EXCEPT ![c] = IF KindOf[c] = "advice" THEN "ok" ELSE "failed"]
    /\ worked' = IF KindOf[c] = "advice" THEN worked \cup {c} ELSE worked
    /\ holds' = holds \ {c}
    /\ UNCHANGED <<tables, probed, rule, snap, row, sound, log, spoiled, edits, restarts>>

-----------------------------------------------------------------------------
(* The surroundings *)

\* An owner edits the rule, or deletes it: what the log says of it stays.
Edit ==
    /\ edits < MaxEdits /\ rule # 0 /\ holds = {}
    /\ rule' \in {0, edits + 2} /\ edits' = edits + 1
    /\ UNCHANGED <<tables, probed, call, log, worked, spoiled, faults, restarts>>

Migrate ==
    /\ ~tables /\ tables' = TRUE
    /\ UNCHANGED <<probed, rule, call, log, worked, spoiled, bounds>>

Restart ==
    /\ restarts < MaxRestarts /\ restarts' = restarts + 1 /\ probed' = "unknown"
    /\ pc' = [c \in Calls |-> IF pc[c] \in {"new", "ok"} THEN pc[c] ELSE "failed"]
    /\ holds' = {}
    /\ UNCHANGED <<tables, rule, snap, row, sound, log, worked, spoiled, edits, faults>>

Step(c) ==
    \/ Load(c) \/ Work(c) \/ Probe(c) \/ ReadAgain(c) \/ _insert_guarded(c)
    \/ Commit(c) \/ Lose(c)

Next == (\E c \in Calls : Step(c)) \/ Edit \/ Migrate \/ Restart

Spec == Init /\ [][Next]_vars

-----------------------------------------------------------------------------
(* Properties *)

\* "Recording must never break what it records": the work of a call that ended
\* well is committed, whatever became of its history row - unless one of the
\* reads record_notification_decision makes without a savepoint had failed.
WorkSurvivesItsRecord == \A c \in Calls : pc[c] = "ok" => c \in worked \cup spoiled

=============================================================================
