----------------------------- MODULE SchemaCompat -----------------------------
(***************************************************************************)
(* What the FastAPI processes do about tables and columns the database may *)
(* not have yet (fastapp/schema_compat.py): each finds out once, when      *)
(* somebody first needs them, and then leaves them out of its statements,  *)
(* or refuses.  The container of these processes does not wait for `web`.  *)
(***************************************************************************)
EXTENDS Naturals

CONSTANTS
  Processes,     \* the workers of uvicorn
  Old,           \* the tables that the scripts of `web` have made, or will
  ColumnsOf(_),    \* what one of these is made with
  Held,          \* the migrations that may be applied: what each adds, and to which tables
  None,
  MaxRequests, MaxFaults, MaxRestarts   \* bounds

\* What handlers name without asking, the scripts make.
TablesAssumption == {"device", "sector", "zone.sector_id"} \subseteq Old

VARIABLES
  schema,        \* the tables and columns that are there, of those that may lack
  _table_cache,  \* of each process: what it found of a feature
  req,           \* the request it handles
  due,           \* the features the request has still to ask for
  answer,        \* its last answer: to what, and what was stored or missing
  requests, faults, restarts

bounds     == <<requests, faults, restarts>>
requesting == <<_table_cache, req, due, answer, bounds>>
vars       == <<schema, requesting>>

-----------------------------------------------------------------------------
(* The features *)

DEVICE_COORDINATES == {"device.position"}
SENSOR_GROUPS      == {"group", "group sensor"}
CALIBRATION        == {"calibration"}
ALERT_EVENTS       == {"alert event"}
DECISIONS          == {"decision"}
SECTOR_GEOMETRY    == {"sector.geometry"}
SECTOR_METADATA    == {"sector.crop"}
FARM_MAP           == {"installation", "preference"}

\* The handlers: what each names in any case, what it asks for before it names it, and
\* whether it is nothing without ("refuse", or "empty") or does the rest of its work.
Handler(names, asks, without) == [names |-> names, asks |-> asks, without |-> without]

\* Of the farmer's map too, which selects the same columns.
list_devices   == Handler({"device"}, {DEVICE_COORDINATES}, "rest")
create_device  == Handler({"device"}, {DEVICE_COORDINATES}, "rest")
list_sensor_groups  == Handler({}, {SENSOR_GROUPS}, "empty")
create_sensor_group == Handler({}, {SENSOR_GROUPS}, "refuse")
get_calibration     == Handler({"device"}, {CALIBRATION}, "empty")
upsert_calibration  == Handler({"device"}, {CALIBRATION}, "refuse")
\* A reading without a calibration is shown as it is.
load_calibrations   == Handler({}, {CALIBRATION}, "rest")
list_alert_events   == Handler({}, {ALERT_EVENTS}, "empty")
list_irrigation_decisions == Handler({}, {DECISIONS}, "empty")
list_sectors   == Handler({"sector", "zone.sector_id"}, {SECTOR_GEOMETRY, SECTOR_METADATA}, "rest")
save_sector    == Handler({"sector", "zone.sector_id"}, {SECTOR_GEOMETRY, SECTOR_METADATA}, "rest")
_sector_geometry    == Handler({}, {SECTOR_GEOMETRY}, "empty")
list_installations  == Handler({}, {FARM_MAP}, "empty")
put_map_preferences == Handler({}, {FARM_MAP}, "refuse")

\* A request: its handler, and the features whose columns its body carries.
Request(handler, carries) == [handler |-> handler, carries |-> carries]
Handlers == {list_devices, create_device, list_sensor_groups, create_sensor_group,
             get_calibration, upsert_calibration, load_calibrations, list_alert_events,
             list_irrigation_decisions, list_sectors, save_sector, _sector_geometry,
             list_installations, put_map_preferences}
Jobs ==
    {Request(h, {}) : h \in Handlers}
    \cup {Request(create_device, {DEVICE_COORDINATES}),
          Request(save_sector, {SECTOR_GEOMETRY}), Request(save_sector, {SECTOR_METADATA})}

Features == {DEVICE_COORDINATES, SENSOR_GROUPS, CALIBRATION, ALERT_EVENTS, DECISIONS,
             SECTOR_GEOMETRY, SECTOR_METADATA, FARM_MAP}

-----------------------------------------------------------------------------
(* A request *)

Init ==
    /\ schema \in {{}, Old} /\ _table_cache = [p \in Processes |-> [f \in Features |-> "unknown"]]
    /\ req = [p \in Processes |-> None] /\ due = [p \in Processes |-> {}]
    /\ answer = [p \in Processes |-> None] /\ requests = 0
    /\ faults = 0 /\ restarts = 0

Begin(p, j) ==
    /\ req[p] = None /\ requests < MaxRequests /\ requests' = requests + 1
    /\ req' = [req EXCEPT ![p] = j] /\ due' = [due EXCEPT ![p] = j.handler.asks]
    /\ answer' = [answer EXCEPT ![p] = None]
    /\ UNCHANGED <<schema, _table_cache, faults, restarts>>

\* All of the feature has to be there.
_probe(feature) == IF feature \subseteq schema THEN "present" ELSE "absent"

\* Looked up once in the life of the process; what cannot be inspected is absent.
table_available(p, feature) ==
    IF _table_cache[p][feature] # "unknown" THEN UNCHANGED <<_table_cache, faults>>
    ELSE \/ /\ _table_cache' = [_table_cache EXCEPT ![p][feature] = _probe(feature)]
            /\ UNCHANGED faults
         \/ /\ faults < MaxFaults /\ faults' = faults + 1
            /\ _table_cache' = [_table_cache EXCEPT ![p][feature] = "absent"]

Ask(p, feature) ==
    /\ req[p] # None /\ feature \in due[p] /\ table_available(p, feature)
    /\ due' = [due EXCEPT ![p] = @ \ {feature}]
    /\ UNCHANGED <<schema, req, answer, requests, restarts>>

Has(p, feature) == _table_cache[p][feature] = "present"
Lacks(p)        == {f \in req[p].handler.asks : ~Has(p, f)}

Answer(p, what, stored) ==
    /\ answer' = [answer EXCEPT ![p] = [to |-> req[p].carries, what |-> what, stored |-> stored]]
    /\ req' = [req EXCEPT ![p] = None]
    /\ UNCHANGED <<schema, _table_cache, due, bounds>>

Asked(p) == req[p] # None /\ due[p] = {}
Named(p) == req[p].handler.names \cup UNION (req[p].handler.asks \ Lacks(p))

\* "Refuse loudly, rather than dropping them silently": a body that carries what the
\* schema cannot store is an error of its own.
Refuse(p) ==
    /\ Asked(p)
    /\ req[p].carries \cap Lacks(p) # {} \/ (req[p].handler.without = "refuse" /\ Lacks(p) # {})
    /\ Answer(p, "unavailable", {})

\* An empty page, the identity calibration, "not drawn yet".
Degrade(p) ==
    /\ Asked(p) /\ req[p].handler.without = "empty" /\ Lacks(p) # {}
    /\ Answer(p, "empty", {})

Able(p) ==
    /\ Asked(p) /\ req[p].carries \cap Lacks(p) = {}
    /\ Lacks(p) = {} \/ req[p].handler.without = "rest"

Execute(p) ==
    /\ Able(p) /\ Named(p) \subseteq schema
    /\ Answer(p, "ok", req[p].carries \ Lacks(p))

\* UndefinedTable, UndefinedColumn: a 500.
Undefined(p) ==
    /\ Able(p) /\ ~(Named(p) \subseteq schema)
    /\ Answer(p, "undefined", Named(p) \ schema)

Restart(p) ==
    /\ restarts < MaxRestarts /\ restarts' = restarts + 1
    /\ _table_cache' = [_table_cache EXCEPT ![p] = [f \in Features |-> "unknown"]]
    /\ req' = [req EXCEPT ![p] = None] /\ due' = [due EXCEPT ![p] = {}]
    /\ UNCHANGED <<schema, answer, requests, faults>>

-----------------------------------------------------------------------------
(* The schema *)

\* A script of `web` makes what is not there (EnsureTables).
Make(t) ==
    /\ t \in Old \ schema /\ schema' = schema \cup ColumnsOf(t)
    /\ UNCHANGED requesting

\* A migration is one transaction, and finds nothing there of what it adds.
Migrate(m) ==
    /\ m.adds \cap schema = {} /\ m.to \subseteq schema
    /\ schema' = schema \cup m.adds
    /\ UNCHANGED requesting

Next ==
    \/ \E t \in Old : Make(t)
    \/ \E m \in Held : Migrate(m)
    \/ \E p \in Processes :
          \/ \E j \in Jobs : Begin(p, j)
          \/ \E f \in Features : Ask(p, f)
          \/ Refuse(p) \/ Degrade(p) \/ Execute(p) \/ Undefined(p) \/ Restart(p)

Spec == Init /\ [][Next]_vars

-----------------------------------------------------------------------------
(* Properties *)

\* "never a 500": no request names what a migration that was held back would add. What
\* may be missing when one comes is a table that a script of `web` owes.
DegradesOnly ==
    \A p \in Processes :
       answer[p] # None /\ answer[p].what = "undefined" => answer[p].stored \subseteq Old

\* What a request was told is saved is in the database, all of it.
AcceptedIsStored ==
    \A p \in Processes :
       answer[p] # None /\ answer[p].what = "ok" => answer[p].stored = answer[p].to

DegradesSafely == DegradesOnly /\ AcceptedIsStored

=============================================================================
