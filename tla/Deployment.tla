------------------------------ MODULE Deployment ------------------------------
(***************************************************************************)
(* Booting and deploying: docker-entrypoint.sh, the ensure_*_tables.py     *)
(* scripts and the steps of deploy-back.yml, over docker's restart policy  *)
(* (docker-compose.yml).  A revision of agri-db is a number, and the       *)
(* schema the set of revisions whose tables are there.                     *)
(***************************************************************************)
EXTENDS Integers, FiniteSets

CONSTANTS
  Containers,   \* those of compose_services
  Waits,        \* [Containers -> SUBSET {"postgres", "redis"}]
  Web,          \* the one that runs the scripts
  Ensured,      \* the revisions whose tables a script can create
  AlembicHead,  \* the newest revision there will be
  AtHead,       \* the setting "head": the revision that the image pins
  MaxDeploys, MaxFaults,   \* bounds
  None

VARIABLES
  mounted,       \* ./back is bind-mounted over the image's code
  code, image,   \* the revision that the checkout, and the built image, pin
  tables, version,   \* of the database: what is there, the alembic_version row
  gate, reconcile,   \* RUN_DB_MIGRATIONS, ALEMBIC_STAMP_REV
  up,            \* of postgres and redis, those that answer
  pc, runs,      \* of each container: its place, and the revision of what it runs
  left,          \* the waits it has left
  script,        \* revision the next script of Web is about
  stage, rest,   \* of the deploy, and the containers it has not recreated yet
  restamped,     \* a stamp was taken for absent and put over what was not up to date
  deploys, faults

RevisionsAssumption  == AlembicHead \in Nat \ {0} /\ {None, AtHead} \cap Int = {} /\ None # AtHead
ContainersAssumption == Web \in Containers /\ Waits \in [Containers -> SUBSET {"postgres", "redis"}]

schema == <<tables, version>>
site   == <<mounted, gate, reconcile>>
boxes  == <<pc, runs, left, script>>
vars   == <<site, code, image, schema, up, boxes, stage, rest, restamped, deploys, faults>>

Services  == {"postgres", "redis"}
Revisions == 1 .. AlembicHead

TypeOK ==
    /\ mounted \in BOOLEAN /\ gate \in BOOLEAN /\ reconcile \in Revisions \cup {None, AtHead}
    /\ code \in Revisions /\ image \in Revisions
    /\ tables \subseteq Revisions /\ version \in Revisions \cup {None}
    /\ up \subseteq Services
    /\ pc \in [Containers -> {"wait", "ensure", "static", "up", "exited"}]
    /\ runs \in [Containers -> Revisions] /\ left \in [Containers -> SUBSET Services]
    /\ script \in 1 .. AlembicHead + 1
    /\ stage \in {"idle", "build", "migrate", "up"} /\ rest \subseteq Containers
    /\ restamped \in BOOLEAN

\* A database the scripts made, and a first boot.
Init ==
    /\ mounted \in BOOLEAN /\ gate = FALSE /\ reconcile = None
    /\ code = 1 /\ image = 1 /\ tables = {1} /\ version = None
    /\ up \in SUBSET Services
    /\ pc = [c \in Containers |-> "wait"] /\ runs = [c \in Containers |-> 1]
    /\ left = Waits /\ script = 1
    /\ stage = "idle" /\ rest = {} /\ restamped = FALSE /\ deploys = 0 /\ faults = 0

-----------------------------------------------------------------------------
(* A container *)

Goto(c, place) == pc' = [pc EXCEPT ![c] = place]
\* A program starts from the checkout, or from the image of its container.
Code(c) == IF mounted THEN code ELSE runs[c]
Fault   == faults < MaxFaults /\ faults' = faults + 1

\* wait_for_postgres, wait_for_redis: the port answers within its minute or half.
Wait(c) ==
    /\ pc[c] = "wait" /\ left[c] \cap up # {}
    /\ \E s \in left[c] \cap up : left' = [left EXCEPT ![c] = @ \ {s}]
    /\ UNCHANGED <<site, code, image, schema, up, pc, runs, script, stage, rest, restamped, deploys, faults>>

TimeOut(c) ==
    /\ pc[c] = "wait" /\ left[c] \ up # {} /\ Goto(c, "exited")
    /\ UNCHANGED <<site, code, image, schema, up, runs, left, script, stage, rest, restamped, deploys, faults>>

\* web has its tables to ensure, the others exec their program.
Waited(c) ==
    /\ pc[c] = "wait" /\ left[c] = {}
    /\ Goto(c, IF c = Web THEN "ensure" ELSE "up")
    /\ runs' = [runs EXCEPT ![c] = Code(c)]
    /\ script' = IF c = Web THEN 1 ELSE script
    /\ UNCHANGED <<site, code, image, schema, up, left, stage, rest, restamped, deploys, faults>>

\* One script: it creates what the code it was started from knows and the database lacks,
\* in one transaction, or prints that it failed; the boot goes on.
Ensure ==
    /\ pc[Web] = "ensure" /\ script <= AlembicHead /\ script' = script + 1
    /\ \/ UNCHANGED tables
       \/ /\ "postgres" \in up /\ script \in Ensured /\ script <= Code(Web)
          /\ tables' = tables \cup {script}
    /\ UNCHANGED <<site, code, image, version, up, pc, runs, left, stage, rest, restamped, deploys, faults>>

Ensure_done ==
    /\ pc[Web] = "ensure" /\ script = AlembicHead + 1 /\ Goto(Web, "static") /\ script' = 1
    /\ UNCHANGED <<site, code, image, schema, up, runs, left, stage, rest, restamped, deploys, faults>>

\* collectstatic, under set -e; then gunicorn.
CollectStatic ==
    /\ pc[Web] = "static" /\ Goto(Web, "up")
    /\ runs' = [runs EXCEPT ![Web] = Code(Web)]
    /\ UNCHANGED <<site, code, image, schema, up, left, script, stage, rest, restamped, deploys, faults>>

\* Killed, out of memory, an exception out of the program, a full disk.
Exit(c) ==
    /\ pc[c] # "exited" /\ Goto(c, "exited") /\ Fault
    /\ UNCHANGED <<site, code, image, schema, up, runs, left, script, stage, rest, restamped, deploys>>

\* Mutant: a container that ran into its deadline stays down.
RestartUp(c) ==
    /\ pc[c] = "exited" /\ left[c] = {} /\ Goto(c, "wait")
    /\ left' = [left EXCEPT ![c] = Waits[c]]
    /\ script' = IF c = Web THEN 1 ELSE script
    /\ UNCHANGED <<site, code, image, schema, up, runs, stage, rest, restamped, deploys, faults>>

\* restart: unless-stopped.
Restart(c) ==
    /\ pc[c] = "exited" /\ Goto(c, "wait") /\ left' = [left EXCEPT ![c] = Waits[c]]
    /\ script' = IF c = Web THEN 1 ELSE script
    /\ UNCHANGED <<site, code, image, schema, up, runs, stage, rest, restamped, deploys, faults>>

Outage(s) ==
    /\ s \in up /\ up' = up \ {s} /\ Fault
    /\ UNCHANGED <<site, code, image, schema, boxes, stage, rest, restamped, deploys>>

Recover(s) ==
    /\ s \notin up /\ up' = up \cup {s}
    /\ UNCHANGED <<site, code, image, schema, boxes, stage, rest, restamped, deploys, faults>>

-----------------------------------------------------------------------------
(* A deploy *)

\* A push to main, or a revert of one. The first deploy with ALEMBIC_STAMP_REV carries no
\* migration (docs/MIGRATIONS_PROD_CUTOVER.md, steps 1 to 3).
GitReset(r) ==
    /\ stage = "idle" /\ deploys < MaxDeploys /\ deploys' = deploys + 1
    /\ reconcile # None /\ version = None => r = image
    /\ code' = r /\ stage' = "build"
    /\ UNCHANGED <<site, image, schema, up, boxes, rest, restamped, faults>>

Build ==
    /\ stage = "build" /\ image' = code /\ stage' = "migrate"
    /\ UNCHANGED <<site, code, schema, up, boxes, rest, restamped, deploys, faults>>

\* Any step that exits with an error ends the deploy (script_stop).
Abort ==
    /\ stage \in {"build", "up"} /\ stage' = "idle" /\ rest' = {} /\ Fault
    /\ UNCHANGED <<site, code, image, schema, up, boxes, restamped, deploys>>

Migrated == stage' = "up" /\ rest' = Containers

\* Off: exit 0.
MigrateSkips ==
    /\ stage = "migrate" /\ ~gate /\ Migrated
    /\ UNCHANGED <<site, code, image, schema, up, boxes, restamped, deploys, faults>>

Pending     == IF version = None THEN {} ELSE {r \in Revisions : version < r /\ r <= image}
\* Alembic knows the row's revision, and no table to be created is there.
Upgradable  == version # None /\ version <= image /\ Pending \cap tables = {}
\* It knows what is to be stamped, and what the stamp replaces.
StampRev    == IF reconcile = AtHead THEN image ELSE reconcile
Stampable   == StampRev # None /\ StampRev <= image /\ (version # None => version <= image)

\* The inspection exits 0 only if alembic_version is there; it is not, or the inspection
\* itself fails: the shell does not tell the two apart.
Present == version # None /\ UNCHANGED faults
Absent  == (version = None /\ UNCHANGED faults) \/ Fault

\* alembic_version is there: upgrade head, in one transaction.
Upgrade ==
    /\ stage = "migrate" /\ gate /\ "postgres" \in up /\ Present /\ Upgradable /\ Migrated
    /\ tables' = tables \cup Pending /\ version' = image
    /\ UNCHANGED <<site, code, image, up, boxes, restamped, deploys>>

\* Mutant: without ALEMBIC_STAMP_REV the head of the image is taken for the live schema.
StampHead ==
    /\ stage = "migrate" /\ gate /\ "postgres" \in up /\ version = None
    /\ version' = (IF reconcile # None THEN StampRev ELSE image) /\ Migrated
    /\ UNCHANGED <<site, code, image, tables, up, boxes, restamped, deploys, faults>>

\* It is taken for absent, and ALEMBIC_STAMP_REV says what the live schema is.
Stamp ==
    /\ stage = "migrate" /\ gate /\ "postgres" \in up /\ Absent /\ Stampable
    /\ version' = StampRev /\ Migrated
    /\ restamped' = (restamped \/ (version # None /\ {image, StampRev} # {version}))
    /\ UNCHANGED <<site, code, image, tables, up, boxes, deploys>>

\* No database, a refusal to replay from base, a migration or a stamp that fails.
CannotMigrate ==
    \/ "postgres" \notin up /\ UNCHANGED faults
    \/ Present /\ ~Upgradable
    \/ Absent /\ ~Stampable

\* Mutant: the deploy goes on without its migrations.
MigrateIgnored ==
    /\ stage = "migrate" /\ gate /\ CannotMigrate /\ Migrated
    /\ UNCHANGED <<site, code, image, schema, up, boxes, restamped, deploys>>

\* The deploy is over.
MigrateFails ==
    /\ stage = "migrate" /\ gate /\ CannotMigrate
    /\ stage' = "idle" /\ rest' = {}
    /\ UNCHANGED <<site, code, image, schema, up, boxes, restamped, deploys>>

\* up -d --no-deps recreates the services, from the new image.
Recreate(c) ==
    /\ stage = "up" /\ c \in rest /\ rest' = rest \ {c}
    /\ Goto(c, "wait") /\ left' = [left EXCEPT ![c] = Waits[c]]
    /\ runs' = [runs EXCEPT ![c] = image]
    /\ script' = IF c = Web THEN 1 ELSE script
    /\ stage' = IF rest = {c} THEN "idle" ELSE "up"
    /\ UNCHANGED <<site, code, image, schema, up, restamped, deploys, faults>>

\* The operator turns the migrations on; with care, once the schema is that of the bundle.
Enable ==
    /\ ~gate /\ stage = "idle" /\ gate' = TRUE
    /\ \/ UNCHANGED reconcile
       \/ /\ tables = 1 .. image /\ \A c \in Containers : runs[c] = image
          /\ reconcile' \in {image, AtHead}
    /\ UNCHANGED <<mounted, code, image, schema, up, boxes, stage, rest, restamped, deploys, faults>>

\* "Set ALEMBIC_STAMP_REV for that first run, then unset it": when the operator gets to it.
Unset ==
    /\ reconcile # None /\ version # None /\ stage = "idle" /\ reconcile' = None
    /\ UNCHANGED <<mounted, gate, code, image, schema, up, boxes, stage, rest, restamped, deploys,
                   faults>>

Next ==
    \/ \E c \in Containers :
          Wait(c) \/ TimeOut(c) \/ Waited(c) \/ Exit(c) \/ Restart(c) \/ Recreate(c)
    \/ Ensure \/ Ensure_done \/ CollectStatic
    \/ \E s \in Services : Outage(s) \/ Recover(s)
    \/ \E r \in Revisions : GitReset(r)
    \/ Build \/ Abort \/ MigrateSkips \/ Upgrade \/ Stamp \/ MigrateFails \/ Enable \/ Unset

Spec == Init /\ [][Next]_vars

\* docker restarts what exited, the shells go on, and an outage ends; the waits run to
\* their deadlines only if nothing answers. Nothing is asked of the deploys.
Boot(c) ==
    \/ Wait(c) \/ Waited(c) \/ Restart(c)
    \/ c = Web /\ (Ensure \/ Ensure_done \/ CollectStatic)
Fairness ==
    /\ \A c \in Containers : WF_vars(Boot(c))
    /\ WF_vars(\E s \in Services : Recover(s))
FairSpec == Spec /\ Fairness

-----------------------------------------------------------------------------
(* Properties *)

\* docker-entrypoint.sh:18-19, "a container that crashes and restarts should converge to
\* the same state without manual intervention": every container is up in the end, whatever
\* was down when it booted and wherever its boot was cut.
EverythingComesUp == \A c \in Containers : <>[](pc[c] = "up")

\* docker-entrypoint.sh:194-196, "so new code never boots against an un-migrated schema":
\* with the migrations on and the database stamped, a container that is up finds every
\* table its code knows. Excused are a code tree mounted over the image, which a restart
\* between the checkout and the migration takes, and a deploy whose inspection failed while
\* ALEMBIC_STAMP_REV was still set: it stamps again in place of the migration.
BootsMigrated ==
    (gate /\ version # None /\ ~mounted /\ ~restamped) =>
       \A c \in Containers : pc[c] = "up" => 1 .. runs[c] \subseteq tables

\* docker-entrypoint.sh:216-232, "never a guess": the stamped revision is the schema that is
\* there, no more, and no less, or the next upgrade would meet a table that a script of the
\* new code has made and every later deploy would end there. With the same excuses.
VersionIsTruth == version # None /\ ~mounted /\ ~restamped => tables = 1 .. version

=============================================================================
