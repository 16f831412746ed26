---------------------------- MODULE HourlySeries ----------------------------
(***************************************************************************)
(* compute_et0_vpd_hourly (fastapp/tasks_compute.py): every few minutes    *)
(* one transaction writes, for every zone, the ET0 and the VPD of the last *)
(* closed hour.  A row is looked up by zone and hour and updated, or       *)
(* inserted when there is none; no constraint makes it the only one.  Beat *)
(* enqueues the next run whether or not the last one has ended.  The Django *)
(* worker's (agriapi/tasks.py) computes for all the zones first, and then  *)
(* writes it all in one transaction; either may follow the other.          *)
(***************************************************************************)
EXTENDS Naturals, FiniteSets

CONSTANTS
  Workers,    \* the processes that execute the task
  Zones,
  MaxHour, MaxRuns, MaxErrors   \* bounds

WorkersAssumption == IsFiniteSet(Workers) /\ MaxHour \in Nat

VARIABLES
  hour,       \* the last closed hour
  zones,      \* the zones there are
  rows,       \* the committed rows of each series, zone and hour
  pc,         \* whether a worker has a run of the task open, and whose task it is
  todo,       \* the zones the run has still to come to
  due,        \* the upserts of the zone it is at
  inserted, updated,   \* what a run has written, uncommitted
  met,        \* the hours in which two runs were open
  runs, errors

Series  == {"et0", "vpd"}
Kinds   == {"native", "django"}
Buckets == Series \X Zones \X (0..MaxHour)
run     == <<pc, todo, due, inserted, updated>>
vars    == <<hour, zones, rows, run, met, runs, errors>>

TypeOK ==
    /\ hour \in 0..MaxHour /\ zones \subseteq Zones
    /\ rows \in [Buckets -> 0..MaxRuns]
    /\ pc \in [Workers -> {"idle"} \cup Kinds]
    /\ todo \in [Workers -> SUBSET Zones] /\ due \in [Workers -> SUBSET Buckets]
    /\ inserted \in [Workers -> SUBSET Buckets] /\ updated \in [Workers -> SUBSET Buckets]
    /\ met \subseteq 0..MaxHour /\ runs \in 0..MaxRuns /\ errors \in 0..MaxErrors

Init ==
    /\ hour = 0 /\ zones = Zones /\ rows = [b \in Buckets |-> 0]
    /\ pc = [r \in Workers |-> "idle"] /\ todo = [r \in Workers |-> {}]
    /\ due = [r \in Workers |-> {}]
    /\ inserted = [r \in Workers |-> {}] /\ updated = [r \in Workers |-> {}]
    /\ met = {} /\ runs = 0 /\ errors = 0

Open == {r \in Workers : pc[r] # "idle"}
End(r) ==
    /\ pc' = [pc EXCEPT ![r] = "idle"] /\ todo' = [todo EXCEPT ![r] = {}]
    /\ due' = [due EXCEPT ![r] = {}]
    /\ inserted' = [inserted EXCEPT ![r] = {}] /\ updated' = [updated EXCEPT ![r] = {}]

\* The zones are selected in no particular order.
Start(r, kind) ==
    /\ pc[r] = "idle" /\ runs < MaxRuns /\ runs' = runs + 1
    /\ pc' = [pc EXCEPT ![r] = kind]
    /\ todo' = [todo EXCEPT ![r] = zones]
    /\ met' = IF Open = {} THEN met ELSE met \cup {hour}
    /\ UNCHANGED <<hour, zones, rows, due, inserted, updated, errors>>

\* One zone after the other: the ET0, then the VPD. A zone without weather is
\* passed over; the hour is the one that is closed when its turn comes.
Compute(r, z) ==
    /\ r \in Open /\ z \in todo[r] /\ (pc[r] = "native" => due[r] = {})
    /\ todo' = [todo EXCEPT ![r] = @ \ {z}]
    /\ due' \in {due, [due EXCEPT ![r] = @ \cup {<<s, z, hour>> : s \in Series}]}
    /\ UNCHANGED <<hour, zones, rows, pc, inserted, updated, met, runs, errors>>

Turn(r, b) ==
    /\ b \in due[r] /\ (pc[r] = "django" => todo[r] = {})
    /\ b[1] = "vpd" => <<"et0", b[2], b[3]>> \notin due[r]
    /\ b[1] = "et0" => \A c \in due[r] : <<"et0", c[2], c[3]>> \in due[r]

\* Mutant: the row is added without looking for one.
NeverLooks(r, b) == 0
\* The rows of a bucket a run can see: the committed ones and its own.
Visible(r, b) == rows[b] + Cardinality({b} \cap inserted[r])

Upsert(r, b) ==
    /\ Turn(r, b) /\ Visible(r, b) <= 1
    /\ IF Visible(r, b) = 0
       THEN inserted' = [inserted EXCEPT ![r] = @ \cup {b}] /\ UNCHANGED updated
       ELSE /\ \A o \in Open \ {r} : b \notin updated[o]       \* waits for its lock
            /\ updated' = [updated EXCEPT ![r] = @ \cup {b}] /\ UNCHANGED inserted
    /\ due' = [due EXCEPT ![r] = @ \ {b}]
    /\ UNCHANGED <<hour, zones, rows, pc, todo, met, runs, errors>>

\* scalar_one_or_none, or the get of update_or_create, raises when it finds two,
\* and the whole run fails with it.
MultipleResultsFound(r, b) ==
    /\ Turn(r, b) /\ Visible(r, b) > 1 /\ End(r)
    /\ UNCHANGED <<hour, zones, rows, met, runs, errors>>

\* Two runs that wait for each other: the server ends one.
Waits(r, o) == \E b \in updated[o] : Turn(r, b) /\ Visible(r, b) = 1
Victim(r) ==
    /\ \E o \in Open \ {r} : Waits(r, o) /\ Waits(o, r)
    /\ End(r) /\ UNCHANGED <<hour, zones, rows, met, runs, errors>>

\* The commit checks the foreign keys of the rows inserted.
Commit(r) ==
    /\ r \in Open /\ todo[r] = {} /\ due[r] = {}
    /\ IF \A b \in inserted[r] : b[2] \in zones
       THEN /\ rows' = [b \in Buckets |-> rows[b] + Cardinality({b} \cap inserted[r])]
            /\ End(r)
       ELSE End(r) /\ UNCHANGED rows
    /\ UNCHANGED <<hour, zones, met, runs, errors>>

\* The database fails, or the worker is killed.
Fail(r) ==
    /\ r \in Open /\ errors < MaxErrors /\ errors' = errors + 1
    /\ End(r) /\ UNCHANGED <<hour, zones, rows, met, runs>>

Tick ==
    /\ hour < MaxHour /\ hour' = hour + 1
    /\ met' = IF Cardinality(Open) > 1 THEN met \cup {hour + 1} ELSE met
    /\ UNCHANGED <<zones, rows, run, runs, errors>>

\* A zone that no row refers to can be deleted.
Delete(z) ==
    /\ z \in zones /\ \A b \in Buckets : b[2] = z => rows[b] = 0
    /\ zones' = zones \ {z} /\ UNCHANGED <<hour, rows, run, met, runs, errors>>

Next ==
    \/ \E r \in Workers :
          \/ \E k \in Kinds : Start(r, k)
          \/ Commit(r) \/ Fail(r) \/ Victim(r)
          \/ \E z \in Zones : Compute(r, z)
          \/ \E b \in Buckets : Upsert(r, b) \/ MultipleResultsFound(r, b)
    \/ Tick
    \/ \E z \in Zones : Delete(z)

Spec == Init /\ [][Next]_vars

-----------------------------------------------------------------------------
(* Properties *)

\* "update_or_create keeps exactly one row per hour bucket": for an hour in which
\* no two runs were open, whatever failed. And a run writes both series of a
\* zone or neither, so the hours of one are the hours of the other.
OncePerBucket ==
    \A z \in Zones, h \in 0..MaxHour :
       LET et0 == rows[<<"et0", z, h>>] vpd == rows[<<"vpd", z, h>>] IN
       /\ et0 > 1 \/ vpd > 1 => h \in met
       /\ et0 > 0 <=> vpd > 0

\* What the code does not keep: two overlapping runs leave two rows, and then
\* every run of that hour fails, for all the zones.
NoHourIsPoisoned == \A b \in Buckets : rows[b] <= 1

=============================================================================
