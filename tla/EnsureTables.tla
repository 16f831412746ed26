----------------------------- MODULE EnsureTables -----------------------------
(***************************************************************************)
(* The boot of `web`: the scripts that create, one after the other, the    *)
(* tables and the columns the database lacks (back/scripts/ensure_*.py).   *)
(* Alembic may be applying migrations meanwhile.                           *)
(***************************************************************************)
EXTENDS Sequences, Naturals

CONSTANTS
  Held,        \* the migrations that may be applied: what each adds, and to which tables
  None,
  MaxBoots, MaxFaults   \* bounds

VARIABLES
  schema,      \* the tables and columns that are there, of those that may lack
  boot,        \* "off", "ensure" or "serving"
  script, txn, \* the script that runs, and the transaction of it that is next
  existing,    \* what the script found when it looked, None before
  skipped,     \* the scripts that failed in this boot
  boots, faults

web  == <<boot, script, txn, existing, skipped, boots>>
vars == <<schema, web, faults>>

-----------------------------------------------------------------------------
(* The scripts *)

\* A transaction creates those of the tables that the last look did not find.
Look(tables) == [looks |-> TRUE, makes |-> tables]
Then(tables) == [looks |-> FALSE, makes |-> tables]

ensure_assistant_tables  == << Look({"conversation"}), Then({"notice"}) >>
ensure_technician_tables == << Look({"grant", "zone grant"}), Look({"user.is_technician"}) >>
ensure_admin_tables      == << Look({"plan", "subscription", "invoice", "audit", "setting"}) >>
ensure_device_tables     == << Look({"device"}) >>
ensure_irrigation_tables == << Look({"program"}), Then({"command"}) >>
ensure_notification_zone_tables == << Look({"notification zone", "notification sensor"}) >>
ensure_sector_tables     == << Look({"sector"}), Look({"zone.sector_id"}) >>
ensure_sensor_health_tables == << Look({"battery", "signal"}) >>
ensure_monitoring_tables == << Look({"task run", "delivery log", "login event"}) >>

\* In the order of the entry point.
Scripts == << ensure_assistant_tables, ensure_technician_tables, ensure_admin_tables,
              ensure_device_tables, ensure_irrigation_tables,
              ensure_notification_zone_tables, ensure_sector_tables,
              ensure_sensor_health_tables, ensure_monitoring_tables >>

Made(s)  == UNION {Scripts[s][t].makes : t \in DOMAIN Scripts[s]}
Ensured  == UNION {Made(s) : s \in DOMAIN Scripts}

\* create_model makes every column the class declares.
Device     == {"device", "device.position"}
Columns(t) == IF t = "device" THEN Device ELSE {t}

-----------------------------------------------------------------------------
(* The boot *)

\* A new database, or one that older scripts have made.
Init ==
    /\ schema \in {{}, Ensured} /\ boot = "off" /\ script = 1 /\ txn = 1 /\ existing = None
    /\ skipped = {} /\ boots = 0 /\ faults = 0

Start ==
    /\ boot = "off" /\ boots < MaxBoots /\ boots' = boots + 1
    /\ boot' = "ensure" /\ script' = 1 /\ txn' = 1 /\ existing' = None /\ skipped' = {}
    /\ UNCHANGED <<schema, faults>>

Running == boot = "ensure" /\ script <= Len(Scripts)
Txn     == Scripts[script][txn]

introspect ==
    /\ Running /\ Txn.looks /\ existing = None /\ existing' = schema
    /\ UNCHANGED <<schema, boot, script, txn, skipped, boots, faults>>

NextScript ==
    /\ script' = script + 1 /\ txn' = 1 /\ existing' = None
    /\ boot' = IF script = Len(Scripts) THEN "serving" ELSE boot

Missing == Txn.makes \ existing

\* The transaction of a schema_editor. A second one that does not look again goes by
\* what the script found at first.
create_model ==
    /\ Running /\ existing # None /\ Missing \cap schema = {}
    /\ schema' = schema \cup UNION {Columns(t) : t \in Missing}
    /\ IF txn < Len(Scripts[script])
       THEN /\ txn' = txn + 1 /\ UNCHANGED <<boot, script>>
            /\ existing' = IF Scripts[script][txn + 1].looks THEN None ELSE existing
       ELSE NextScript
    /\ UNCHANGED <<skipped, boots, faults>>

\* "never block boot on this": what a script cannot do is left, with the rest of it.
Fail ==
    /\ Running /\ NextScript
    /\ \/ existing # None /\ Missing \cap schema # {} /\ UNCHANGED faults
       \/ faults < MaxFaults /\ faults' = faults + 1
    /\ skipped' = skipped \cup {script}
    /\ UNCHANGED <<schema, boots>>

\* The container is recreated, or dies and is restarted: the scripts begin again.
Stop ==
    /\ boot # "off" /\ boots < MaxBoots /\ boot' = "off" /\ skipped' = {}
    /\ script' = 1 /\ txn' = 1 /\ existing' = None
    /\ UNCHANGED <<schema, boots, faults>>

\* A migration is one transaction, and finds nothing there of what it adds.
Migrate(m) ==
    /\ m \in Held /\ m.adds \cap schema = {} /\ m.to \subseteq schema
    /\ schema' = schema \cup m.adds
    /\ UNCHANGED <<web, faults>>

Next ==
    \/ Start \/ introspect \/ create_model \/ Fail \/ Stop
    \/ \E m \in Held : Migrate(m)

Spec == Init /\ [][Next]_vars

-----------------------------------------------------------------------------
(* Properties *)

\* `web` serves with every table its scripts create, but for what a script that failed
\* in this boot has left: however often the boot was cut before, and whoever created
\* some of them meanwhile.
ServesWithItsTables ==
    boot = "serving" => Ensured \ UNION {Made(s) : s \in skipped} \subseteq schema

=============================================================================
