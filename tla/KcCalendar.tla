---------------------------- MODULE KcCalendar ----------------------------
(***************************************************************************)
(* One crop calendar (Kc) and its stages: a header row with a count, the   *)
(* periods, and the assignments that tie them to the header.  Its owner    *)
(* and staff replace all its stages by PUT, an approved affirmation does   *)
(* the same (_replace_periods), and both delete it.  Requests read without *)
(* locks; what they write stays locked until they commit.  A stage is      *)
(* known by the request that inserted it and its place in the list.        *)
(***************************************************************************)
EXTENDS Integers, FiniteSets

CONSTANTS
  Requests,   \* concurrent requests, each handled once
  MaxPeriods, \* bound on the stages of one payload
  Unborn,     \* the calendar has not been created
  None        \* the calendar is deleted, a request without a job

PeriodsAssumption == MaxPeriods \in Nat \ {0}
UnbornAssumption  == Unborn \notin Nat \cup {None}

VARIABLES
  number,     \* number_of_periods of the header, Unborn or None
  assigned, periods,  \* the committed assignments and periods
  pc, job,    \* each request's place and job
  loaded,     \* number_of_periods as it loaded the header
  old,        \* the assignments it found
  dropped, added,     \* its uncommitted deletions and insertions
  wrote,      \* it has written the header row
  raced       \* the requests during which another one committed

table  == <<number, assigned, periods>>
local  == <<loaded, old, dropped, added, wrote>>
vars   == <<table, pc, job, local, raced>>

\* The stages of a POST, by the owner or by staff for an account that owns the zone.
create_kc == 0..MaxPeriods
\* A PUT, with or without a change to the header's own columns; the approval of
\* an affirmation, which keeps them and refuses an empty list; a DELETE.
update_kc                == [kind : {"replace"}, rename : BOOLEAN, n : 0..MaxPeriods]
_apply_kc_periods_change == [kind : {"replace"}, rename : {FALSE}, n : 1..MaxPeriods]
delete_kc                == [kind : {"delete"}]
Jobs == update_kc \cup _apply_kc_periods_change \cup delete_kc
Replaces(r) == job[r].kind = "replace"
Stages(by, n) == {<<by, i>> : i \in 1..n}
Running(r)  == pc[r] \notin {"new", "done"}

Init ==
    /\ number = Unborn
    /\ assigned = {} /\ periods = {}
    /\ pc = [r \in Requests |-> "new"]
    /\ job = [r \in Requests |-> None]
    /\ loaded = [r \in Requests |-> 0]
    /\ old = [r \in Requests |-> {}]
    /\ dropped = [r \in Requests |-> {}]
    /\ added = [r \in Requests |-> {}]
    /\ wrote = [r \in Requests |-> FALSE]
    /\ raced = {}

Goto(r, place) == pc' = [pc EXCEPT ![r] = place]
\* The answer of a request whose transaction is rolled back, or wrote nothing.
End(r) == Goto(r, "done") /\ UNCHANGED <<table, job, local, raced>>

-----------------------------------------------------------------------------
(* Locks *)

\* An UPDATE or DELETE of the header conflicts with another; the foreign key of
\* an inserted assignment conflicts with the DELETE only.
HoldsHeader(q) == Running(q) /\ wrote[q]
HoldsKey(q)    == Running(q) /\ added[q] # {}
Deletes(q)     == ~Replaces(q) /\ HoldsHeader(q)

WaitsFor(r, q) ==
    /\ q # r /\ Running(q)
    /\ \/ pc[r] = "header" /\ HoldsHeader(q)
       \/ pc[r] = "drop"   /\ old[r] \cap dropped[q] # {}
       \/ pc[r] = "insert" /\ job[r].n > 0 /\ Deletes(q)
       \/ pc[r] = "count"  /\ loaded[r] # job[r].n /\ HoldsHeader(q)
       \/ pc[r] = "remove" /\ (HoldsHeader(q) \/ HoldsKey(q))

Blocked(r) == \E q \in Requests : WaitsFor(r, q)

\* Requests each of which waits for another of them.
Deadlocked(S) ==
    /\ S # {}
    /\ \A r \in S : (\E q \in S : WaitsFor(r, q)) /\ (\E q \in S : WaitsFor(q, r))

-----------------------------------------------------------------------------
(* Requests *)

Create(n) ==
    /\ number = Unborn
    /\ number' = n
    /\ assigned' = Stages(0, n) /\ periods' = Stages(0, n)
    /\ UNCHANGED <<pc, job, local, raced>>

\* The header is read; without one the answer is 404.
Load(r, j) ==
    /\ pc[r] = "new" /\ number # Unborn
    /\ job' = [job EXCEPT ![r] = j]
    /\ IF number = None THEN Goto(r, "done") /\ UNCHANGED loaded
       ELSE /\ loaded' = [loaded EXCEPT ![r] = number]
            /\ Goto(r, IF j.kind = "replace" /\ j.rename THEN "header" ELSE "read")
    /\ UNCHANGED <<table, old, dropped, added, wrote, raced>>

\* name, plant and zone, when they differ: a header gone by now is an error.
Header(r) ==
    /\ pc[r] = "header" /\ ~Blocked(r)
    /\ IF number = None THEN End(r)
       ELSE /\ wrote' = [wrote EXCEPT ![r] = TRUE]
            /\ Goto(r, "read")
            /\ UNCHANGED <<table, job, loaded, old, dropped, added, raced>>

ReadOld(r) ==
    /\ pc[r] = "read"
    /\ old' = [old EXCEPT ![r] = assigned]
    /\ Goto(r, "drop")
    /\ UNCHANGED <<table, job, loaded, dropped, added, wrote, raced>>

\* Mutant: nothing is dropped for an empty list.
DropUnlessEmpty(r) ==
    /\ pc[r] = "drop" /\ ~Blocked(r)
    /\ dropped' = [dropped EXCEPT ![r] =
                     IF Replaces(r) /\ job[r].n = 0 THEN {} ELSE old[r] \cap assigned]
    /\ Goto(r, IF Replaces(r) THEN "insert" ELSE "remove")
    /\ UNCHANGED <<table, job, loaded, old, added, wrote, raced>>

\* Rows another request has deleted meanwhile are no longer there to delete.
Drop(r) ==
    /\ pc[r] = "drop" /\ ~Blocked(r)
    /\ dropped' = [dropped EXCEPT ![r] = old[r] \cap assigned]
    /\ Goto(r, IF Replaces(r) THEN "insert" ELSE "remove")
    /\ UNCHANGED <<table, job, loaded, old, added, wrote, raced>>

\* The new stages refer to the header, which must still be there.
Insert(r) ==
    /\ pc[r] = "insert" /\ ~Blocked(r)
    /\ IF number = None /\ job[r].n > 0 THEN End(r)
       ELSE /\ added' = [added EXCEPT ![r] = Stages(r, job[r].n)]
            /\ Goto(r, "count")
            /\ UNCHANGED <<table, job, loaded, old, dropped, wrote, raced>>

\* number_of_periods, when it differs from what was loaded.
Count(r) ==
    /\ pc[r] = "count" /\ ~Blocked(r)
    /\ IF number = None /\ loaded[r] # job[r].n THEN End(r)
       ELSE /\ wrote' = [wrote EXCEPT ![r] = @ \/ loaded[r] # job[r].n]
            /\ Goto(r, "commit")
            /\ UNCHANGED <<table, job, loaded, old, dropped, added, raced>>

\* DELETE of the header, refused while an assignment refers to it.
Remove(r) ==
    /\ pc[r] = "remove" /\ ~Blocked(r)
    /\ IF number # None /\ assigned \ dropped[r] # {} THEN End(r)
       ELSE /\ wrote' = [wrote EXCEPT ![r] = TRUE]
            /\ Goto(r, "commit")
            /\ UNCHANGED <<table, job, loaded, old, dropped, added, raced>>

\* The periods of the dropped assignments go too.
Remaining(r) == (periods \ dropped[r]) \cup added[r]

Commit(r) ==
    /\ pc[r] = "commit"
    /\ Goto(r, "done")
    /\ assigned' = (assigned \ dropped[r]) \cup added[r]
    /\ periods' = Remaining(r)
    /\ number' = IF ~Replaces(r) THEN None
                 ELSE IF loaded[r] # job[r].n THEN job[r].n ELSE number
    /\ raced' = raced \cup {q \in Requests \ {r} : Running(q)}
    /\ UNCHANGED <<job, local>>

\* Postgres breaks a cycle of waits by an error in one of its requests.
Victim(r) ==
    /\ \E S \in SUBSET Requests : r \in S /\ Deadlocked(S)
    /\ End(r)

Handle(r) ==
    \/ Header(r) \/ ReadOld(r) \/ Drop(r) \/ Insert(r) \/ Count(r)
    \/ Remove(r) \/ Commit(r) \/ Victim(r)

Next ==
    \/ \E n \in create_kc : Create(n)
    \/ \E r \in Requests : Handle(r) \/ \E j \in Jobs : Load(r, j)

Spec == Init /\ [][Next]_vars

-----------------------------------------------------------------------------
(* Properties *)

AllStages == UNION {Stages(by, MaxPeriods) : by \in Requests \cup {0}}

TypeOK ==
    /\ number \in 0..MaxPeriods \cup {Unborn, None}
    /\ assigned \subseteq AllStages /\ periods \subseteq AllStages
    /\ \A r \in Requests :
          /\ pc[r] \in {"new", "header", "read", "drop", "insert", "count",
                        "remove", "commit", "done"}
          /\ job[r] \in Jobs \cup {None}
          /\ loaded[r] \in 0..MaxPeriods
          /\ old[r] \subseteq AllStages /\ dropped[r] \subseteq old[r]
          /\ added[r] \subseteq AllStages
    /\ raced \subseteq Requests

\* Whoever replaced the stages undisturbed left exactly its own, and their count.
ReplacedUnlessRaced ==
    [][\A r \in Requests \ raced :
          pc[r] = "commit" /\ pc'[r] = "done" /\ Replaces(r) =>
              assigned' = added[r] /\ number' = job[r].n]_vars

\* "a Kc's periods are fully replaced on every write": the stages of a
\* calendar are those of one payload.
StagesOfOneWrite == \A s, t \in assigned : s[1] = t[1]

=============================================================================
