---------------------------- MODULE MCBackOffice ----------------------------
(* Accounts on those of MCAccounts, and one small instance each of Affirmations,
   KcCalendar, SchemaCompat, FarmRecords and Reads, in one run: `part` says which of
   them the behaviour is about, and the others stay in their initial states. *)
EXTENDS MCReads, BackOffice

CONSTANTS
  u1, u2, a1, a2, a3, a4, a5, r1, r2,           \* Affirmations
  q1, q2                                    \* KcCalendar

VARIABLES
  part,
  pcF, jobF, memo, todo, want, pend, racedF

affirmations == <<rows, status, pcA, jobA, writes, racedA>>
calendar == <<number, assigned, periods, pcK, jobK, loaded, old, dropped, added,
              wrote, racedK>>
requests == <<pcF, jobF, memo, todo, want, pend, racedF>>
farm == <<db, requests>>
reads == <<pcR, asked, todoR, grantR, scope, shown, aborted, lost, could, must, moved,
           changes, faults>>
sessions == vars
shims == <<schema, _table_cache, req, due, answer, asking, misses, restarts>>

Owned     == z1 :> u1 @@ z2 :> u2
Loaded    == z1 :> ("fc" :> 2 @@ "wp" :> 1) @@ z2 :> ("fc" :> 2 @@ "wp" :> 1)
               @@ u2 :> ("active" :> 0)
\* u1 lowers both columns of its zone, asks for u2's zone, for u2's account,
\* for nothing, and for a column there is none of.
Askers    == a1 :> u1 @@ a2 :> u1 @@ a3 :> u1 @@ a4 :> u1 @@ a5 :> u1
Asked     == a1 :> [row |-> z1, fields |-> "fc" :> 2 @@ "wp" :> 0]
               @@ a2 :> [row |-> z2, fields |-> "wp" :> 0]
               @@ a3 :> [row |-> u2, fields |-> "active" :> 1]
               @@ a4 :> [row |-> z1, fields |-> [f \in {} |-> 0]]
               @@ a5 :> [row |-> z1, fields |-> "depth" :> 1]
Staff     == {[row |-> z1, fields |-> "fc" :> 0],
              [row |-> z1, fields |-> "fc" :> 0 @@ "wp" :> 1],
              [row |-> u2, fields |-> "active" :> 0],
              [row |-> z1, fields |-> "space" :> 1]}

F == INSTANCE FarmRecords WITH
       Requests <- {r1, r2}, Jobs <- UNION {FarmJobs[f] : f \in DOMAIN FarmJobs},
       Initial <- FarmRows, Zones <- {z1, z2, z3, z9},
       Parents <- {z1, z2, z3, t1, b1, b2}, pc <- pcF, job <- jobF, raced <- racedF

\* Of the endpoints that do the same, one is asked.
Questions ==
    LET alike(op) == {o \in DOMAIN R!Endpoint : R!Endpoint[o] = R!Endpoint[op]} IN
    UNION {{op} \X R!Endpoint[op].who \X (IF R!Endpoint[op].zoned THEN {None, z1} ELSE {None}) :
             op \in {CHOOSE o \in alike(op) : TRUE : op \in DOMAIN R!Endpoint}}

\* The migrations schema_compat.py names.
Migrations ==
    LET migration(to, adds) == [to |-> to, adds |-> adds] IN
    {migration({"device"}, {"device.position"}),                             \* b2c3d4e5f6a7
     migration({}, {"group", "group sensor", "calibration"}),                \* f4b6d2e8c1a9
     migration({}, {"alert event", "decision"}),                             \* e7a1c3d5b209
     migration({"sector"}, {"sector.geometry"}),                             \* b8c2f0d5e713
     migration({"sector"}, {"sector.crop", "installation", "preference"})}   \* c9e1a2b3d4f5
WithColumns(t) == IF t = "device" THEN {"device", "device.position"} ELSE {t}
\* The features go in families: no handler asks for features of two of them.
ShimFeatures ==
    "lacks positions" :> {P!DEVICE_COORDINATES}
      @@ "lacks groups" :> {P!SENSOR_GROUPS, P!CALIBRATION}
      @@ "lacks history" :> {P!ALERT_EVENTS, P!DECISIONS}
      @@ "lacks geometry" :> {P!SECTOR_GEOMETRY, P!SECTOR_METADATA}
      @@ "lacks the map" :> {P!FARM_MAP}
ShimJobs == [f \in DOMAIN ShimFeatures |-> {j \in P!Jobs : j.handler.asks \subseteq ShimFeatures[f]}]
ShimMigrations ==
    [f \in DOMAIN ShimFeatures |->
       {m \in Migrations : \E feature \in ShimFeatures[f] : m.adds \cap feature # {}}]
ShimTables == [f \in DOMAIN ShimFeatures |-> UNION {j.handler.names : j \in ShimJobs[f]}]

OnlyA == part = "affirmations" /\ UNCHANGED <<part, calendar, farm, sessions, reads, shims>>
OnlyK == part = "calendar" /\ UNCHANGED <<part, affirmations, farm, sessions, reads, shims>>
OnlyF == part \in DOMAIN FarmJobs /\ UNCHANGED <<part, affirmations, calendar, sessions, reads, shims>>
OnlyU == part \in DOMAIN AccountJobs /\ UNCHANGED <<part, affirmations, calendar, farm, reads, shims>>
OnlyR == part = "reads" /\ UNCHANGED <<part, affirmations, calendar, requests, sessions, shims>>
OnlyP == part \in DOMAIN ShimFeatures /\ UNCHANGED <<part, affirmations, calendar, farm, sessions, reads>>

MCInit ==
    /\ part \in {"affirmations", "calendar", "reads"} \cup DOMAIN FarmJobs \cup DOMAIN AccountJobs
                 \cup DOMAIN ShimFeatures
    /\ Init /\ A!Init /\ K!Init /\ F!Idle /\ R!Init
    /\ P!Init /\ (part \in DOMAIN ShimFeatures \/ schema = {})
    /\ db = IF part \in DOMAIN FarmJobs THEN FarmRows
            ELSE IF part = "reads" THEN ReadRows ELSE <<>>
    /\ part = "reads" => R!Populated

MCNext ==
    \/ \E a \in Affs : OnlyA /\ A!Create(a)
    \/ \E r \in {r1, r2} :
          \/ \E j \in A!Jobs : OnlyA /\ A!Load(r, j)
          \/ OnlyA /\ A!Read(r)
          \/ OnlyA /\ A!Write(r)
          \/ OnlyA /\ A!Stamp(r)
          \/ OnlyA /\ A!Commit(r)
          \/ OnlyA /\ A!Die(r)
    \/ \E z \in Zones : OnlyA /\ A!Delete(z)
    \/ \E n \in K!create_kc : OnlyK /\ K!Create(n)
    \/ \E r \in Replacers :
          \/ \E j \in K!Jobs : OnlyK /\ K!Load(r, j)
          \/ OnlyK /\ K!Header(r)
          \/ OnlyK /\ K!ReadOld(r)
          \/ OnlyK /\ K!Drop(r)
          \/ OnlyK /\ K!Insert(r)
          \/ OnlyK /\ K!Count(r)
          \/ OnlyK /\ K!Remove(r)
          \/ OnlyK /\ K!Commit(r)
          \/ OnlyK /\ K!Victim(r)
    \/ \E r \in {r1, r2} :
          \/ OnlyF /\ \E j \in FarmJobs[part] : F!Take(r, j)
          \/ OnlyF /\ F!Load(r)
          \/ OnlyF /\ F!Check(r)
          \/ OnlyF /\ F!Scan(r)
          \/ OnlyF /\ F!Apply(r)
          \/ OnlyF /\ F!Fail(r)
          \/ OnlyF /\ F!NotFound(r)
          \/ OnlyF /\ F!Commit(r)
          \/ OnlyF /\ F!Violate(r)
          \/ OnlyF /\ F!Victim(r)
          \/ OnlyU /\ \E j \in AccountJobs[part] : Take(r, j)
          \/ OnlyU /\ SignIn(r)
          \/ OnlyU /\ TurnAway(r)
          \/ OnlyU /\ token_refresh(r)
          \/ OnlyU /\ impersonate(r)
          \/ OnlyU /\ Issue(r)
          \/ OnlyU /\ Load(r)
          \/ OnlyU /\ Reject(r)
          \/ OnlyU /\ Commit(r)
          \/ OnlyU /\ Fail(r)
    \/ OnlyU /\ Tick
    \/ OnlyR /\ \E q \in Questions : R!Ask(q[1], q[2], q[3])
    \/ OnlyR /\ R!Account
    \/ OnlyR /\ R!ReadGrant
    \/ OnlyR /\ R!ReadScope
    \/ OnlyR /\ R!SelectRows
    \/ OnlyR /\ R!SelectMore
    \/ OnlyR /\ R!FindRow
    \/ OnlyR /\ R!NotFound
    \/ OnlyR /\ R!Empty
    \/ OnlyR /\ R!LookUp
    \/ OnlyR /\ R!ArrangeRows
    \/ OnlyR /\ R!Crash
    \/ OnlyR /\ R!Answer
    \/ OnlyR /\ R!Fault
    \/ OnlyR /\ R!Aborted
    \/ OnlyR /\ \E j \in Writers : R!Commit(F!Alone(j, db))
    \/ OnlyR /\ \E new \in Additions : R!Commit(new @@ db)
    \/ OnlyR /\ \E a \in Logins : R!Leave(a)
    \/ OnlyP /\ \E t \in ShimTables[part] : P!Make(t)
    \/ OnlyP /\ \E m \in ShimMigrations[part] : P!Migrate(m)
    \/ OnlyP /\ \E j \in ShimJobs[part] : P!Begin("fast", j)
    \/ OnlyP /\ \E f \in ShimFeatures[part] : P!Ask("fast", f)
    \/ OnlyP /\ P!Refuse("fast")
    \/ OnlyP /\ P!Degrade("fast")
    \/ OnlyP /\ P!Execute("fast")
    \/ OnlyP /\ P!Undefined("fast")
    \/ OnlyP /\ P!Restart("fast")

MCSpec == MCInit /\ [][MCNext]_<<part, affirmations, calendar, farm, sessions, reads, shims>>

Alike == Permutations({r1, r2}) \cup Permutations({q1, q2})

-----------------------------------------------------------------------------
(* The properties of the instances *)

\* The type invariants of the components.
TypesOK ==
    CASE part = "affirmations"         -> A!TypeOK
      [] part = "calendar"             -> K!TypeOK
      [] part \in DOMAIN FarmJobs      -> F!TypeOK
      [] part \in DOMAIN AccountJobs   -> TypeOK
      [] OTHER                         -> R!TypeOK

\* What overlapping requests leave is what some order of them would have left.
SerialUnlessKnown == part \in DOMAIN FarmJobs => F!SerialUnlessKnown
\* What an answer shows is what its caller could see while it was put together.
AnswersAreRegular == R!AnswersAreRegular
\* What the code does not keep, see the README.
DecidedOnce == A!DecidedOnce
FieldCapacityAboveWilting == A!FieldCapacityAboveWilting

=============================================================================
