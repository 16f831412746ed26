----------------------------- MODULE MCContainers -----------------------------
(* MqttSubscriber on two uplinks, and one small instance each of Deployment and
   EnsureTables, in one run: `part` says which of the three the behaviour is about. *)
EXTENDS MqttSubscriber, TLC

CONSTANTS
  good, bad, ph, salt, ann,
  Containers, Web, Waits, Tables, AlembicHead, AtHead, MaxDeploys,  \* Deployment
  Held, MaxBoots,                                           \* EnsureTables
  MaxFailures   \* bound on the faults of either

VARIABLES
  part,
  mounted, code, image, schema, version, gate, reconcile, up, pcD, running, left,
  script, stage, rest, restamped, deploys, faultsD,
  db, bootE, scriptE, txn, existing, skipped, boots, faultsE

subscriber == vars
boot       == <<mounted, code, image, schema, version, gate, reconcile, up, pcD, running, left,
                script, stage, rest, restamped, deploys, faultsD>>
scripts    == <<db, bootE, scriptE, txn, existing, skipped, boots, faultsE>>

\* A weather reading of a client, and a sensor message with an unknown key.
Uplink == good :> [topic |-> "weather", wellFormed |-> TRUE, keys |-> {ph, salt}, client |-> ann]
       @@ bad :> [topic |-> "sensor", wellFormed |-> TRUE, keys |-> {salt}, client |-> ann]

D == INSTANCE Deployment WITH
       Ensured <- Tables, MaxFaults <- MaxFailures,
       tables <- schema, pc <- pcD, runs <- running, faults <- faultsD
WaitsFor == "web" :> {"postgres"} @@ "worker" :> {"postgres", "redis"}

\* A column that web's script makes with its table, and a table and a column that its
\* scripts make too.
Migrations == {[to |-> {"device"}, adds |-> {"device.position"}],
               [to |-> {}, adds |-> {"command", "zone.sector_id"}]}
E == INSTANCE EnsureTables WITH
       MaxFaults <- MaxFailures, schema <- db, boot <- bootE, script <- scriptE,
       faults <- faultsE

ASSUME WindowAssumption /\ NoneAssumption
ASSUME RevisionsAssumption == D!RevisionsAssumption
ASSUME ContainersAssumption == D!ContainersAssumption

OnlyM == part = "subscriber" /\ UNCHANGED <<part, boot, scripts>>
OnlyD == part = "boot" /\ UNCHANGED <<part, subscriber, scripts>>
OnlyE == part = "scripts" /\ UNCHANGED <<part, subscriber, boot>>

\* A part that is not the one that runs rests in one initial state.
MCInit ==
    /\ part \in {"subscriber", "boot", "scripts"} /\ Init /\ D!Init /\ E!Init
    /\ part # "boot" => ~mounted /\ up = {}
    /\ part # "scripts" => db = {}

MCNext ==
    \/ OnlyM /\ Start
    \/ OnlyM /\ Connect
    \/ OnlyM /\ Refused
    \/ OnlyM /\ Subscribed
    \/ OnlyM /\ Disconnected
    \/ OnlyM /\ Shutdown
    \/ OnlyM /\ Exit
    \/ OnlyM /\ Deliver
    \/ OnlyM /\ Stores
    \/ OnlyM /\ Drops
    \/ OnlyM /\ Fails
    \/ OnlyM /\ Acknowledge
    \/ OnlyM /\ Beat
    \/ OnlyM /\ BeatEnd
    \/ OnlyM /\ Tick
    \/ OnlyM /\ Drop
    \/ OnlyM /\ BrokerRestart
    \/ OnlyM /\ DiskFails
    \/ OnlyM /\ Die
    \/ OnlyM /\ \E m \in {good, bad} : Publish(m)
    \/ \E c \in Containers :
          \/ OnlyD /\ D!Wait(c)
          \/ OnlyD /\ D!TimeOut(c)
          \/ OnlyD /\ D!Waited(c)
          \/ OnlyD /\ D!Exit(c)
          \/ OnlyD /\ D!Restart(c)
          \/ OnlyD /\ D!Recreate(c)
    \/ OnlyD /\ D!Ensure
    \/ OnlyD /\ D!Ensure_done
    \/ OnlyD /\ D!CollectStatic
    \/ OnlyD /\ \E s \in D!Services : D!Outage(s)
    \/ OnlyD /\ \E s \in D!Services : D!Recover(s)
    \/ OnlyD /\ (mounted => deploys = 0)  \* the properties excuse a mounted checkout
       /\ \E r \in D!Revisions : D!GitReset(r)
    \/ OnlyD /\ D!Build
    \/ OnlyD /\ D!Abort
    \/ OnlyD /\ D!MigrateSkips
    \/ OnlyD /\ D!Upgrade
    \/ OnlyD /\ D!Stamp
    \/ OnlyD /\ D!MigrateFails
    \/ OnlyD /\ D!Enable
    \/ OnlyD /\ D!Unset
    \/ OnlyE /\ E!Start
    \/ OnlyE /\ E!introspect
    \/ OnlyE /\ E!create_model
    \/ OnlyE /\ E!Fail
    \/ OnlyE /\ E!Stop
    \/ OnlyE /\ \E m \in Held : E!Migrate(m)

all == <<part, subscriber, boot, scripts>>

\* The fairness of MqttSubscriber and of Deployment, of the part that runs.
MCSpec ==
    /\ MCInit /\ [][MCNext]_all
    /\ WF_all(OnlyM /\ Start)
    /\ WF_all(OnlyM /\ Connect)
    /\ WF_all(OnlyM /\ Disconnected)
    /\ WF_all(OnlyM /\ Exit)
    /\ WF_all(OnlyM /\ Deliver)
    /\ WF_all(OnlyM /\ Stores)
    /\ WF_all(OnlyM /\ Drops)
    /\ WF_all(OnlyM /\ Acknowledge)
    /\ \A c \in Containers : WF_all(OnlyD /\ D!Boot(c))
    /\ WF_all(OnlyD /\ \E s \in D!Services : D!Recover(s))

-----------------------------------------------------------------------------
(* The properties of the instances *)

\* Every container is up in the end.
EverythingComesUp == part = "boot" => D!EverythingComesUp
\* New code finds its tables: those of the migrations, and those of web's scripts.
BootsMigrated == D!BootsMigrated /\ E!ServesWithItsTables
\* The revision of the database is what is there.
VersionIsTruth == D!VersionIsTruth

\* What the code does not keep, see the README: with nothing fair but the heartbeat.
MCHeartbeats ==
    /\ MCInit /\ [][MCNext]_all
    /\ WF_all(OnlyM /\ Beat)
    /\ WF_all(OnlyM /\ BeatEnd)
    /\ WF_all(OnlyM /\ Tick)

=============================================================================
