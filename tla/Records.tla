------------------------------ MODULE Records ------------------------------
(***************************************************************************)
(* Rows, and the statements the handlers execute on them, as operators: a  *)
(* table is a function from keys to rows, a row a function from columns to *)
(* values.  "of" is the parent: the sector of a zone, the notification     *)
(* zone or group of a sensor, the technician of a zone grant, the plan of  *)
(* a subscription.  A technician's login and grant are one row, known by   *)
(* its username; a placed sensor is known by its client_ref.               *)
(*                                                                         *)
(* A job is what one request asks: the handler (op), the row it is about   *)
(* (id), the rows it lists (items), the columns it sends (fields), what is *)
(* wrong with its payload (bad), and the request itself (by).              *)
(***************************************************************************)
EXTENDS FiniteSets, SequencesExt

CONSTANTS
  Others,     \* the rows that belong to somebody else
  None        \* NULL, no row, nothing asked

Live(v)    == {k \in DOMAIN v : v[k] # None}
Present(v) == [k \in Live(v) |-> v[k]]
Of(v, p)   == {k \in Live(v) : v[k]["of"] = p}
Row(v, k)  == IF k \in Live(v) THEN v[k] ELSE None
Owned(v, k) == k \in Live(v) \ Others

\* The row a request is about: a created one is known by the request.
Key(j)      == IF j.id = None THEN j.by ELSE j.id
\* The account of a subscription, and the row a handler loads first.
Subscriber(j) == CHOOSE u \in j.items : TRUE
Subject(j)  == IF j.op = "create_subscription" THEN Subscriber(j) ELSE Key(j)
Items(j)    == IF j.items = None THEN {} ELSE j.items
Lists(j)    == j.items # None
Sends(j, f) == f \in DOMAIN j.fields /\ j.fields[f] # None
Is(j, ops)  == j.op \in ops

\* The handlers that look up the row they are about, 404 when it is not there.
Loaders ==
    {"update_sector", "delete_sector", "set_sector_zones",
     "update_zone", "delete_zone", "add_sensor", "remove_sensor",
     "set_scope", "reset_password", "revoke_technician",
     "update_sensor_group", "add_sensor_to_group", "remove_sensor_from_group",
     "_write_existing", "delete_alert", "update_installation",
     "_do_update_zone", "put_zone_params", "delete_user_zone",
     "get_config", "patch_config", "patch_alert", "admin_delete_alert",
     "update_plan", "cancel_subscription", "mark_invoice_paid", "create_subscription",
     "delete_setting", "patch_grant", "patch_reading", "patch_my_reading", "delete_reading",
     "backfill", "update_row", "delete_row"}

\* The rows a request refers to, each of which must be the caller's.
Refs(j) ==
    {j.fields[f] : f \in {g \in {"sector", "zone", "device", "grouping", "of"} : Sends(j, g)}}
      \cup IF Is(j, {"create_zone", "update_zone", "add_sensor", "set_scope",
                     "create_technician", "add_sensor_to_group", "upsert_calibration"})
           THEN Items(j) ELSE {}
Foreign(j, v) == \E k \in Refs(j) : ~Owned(v, k)

\* The row made for a child i: every insertion is a row of its own.
Child(j, i) == <<Key(j), i, j.by>>

\* The children there are for what a request lists.
Held(j, v) == {k \in Of(v, Key(j)) : "ref" \in DOMAIN v[k] /\ v[k]["ref"] \in Items(j)}

\* UNIQUE (group, sensor), (grant, zone) and (user, sensor_key): the rows that
\* stand in the way of another one.
Unique(j) == Is(j, {"create_technician", "set_scope", "add_sensor_to_group", "patch_sensor_units"})
Same(j, v) == IF Unique(j) THEN Held(j, v) ELSE {}

\* UNIQUE (user_id, name) of the sensor groups: the names are rows of their own.
Named(j) ==
    IF Is(j, {"create_sensor_group", "update_sensor_group"}) /\ Sends(j, "name")
    THEN <<"name", j.fields["name"]>> :> ("of" :> Key(j))
    ELSE <<>>
Taken(j, v) == \E k \in DOMAIN Named(j) \cap Live(v) : v[k]["of"] # Key(j)
Renamed(j, v) ==
    IF Named(j) # <<>> /\ Key(j) \in Live(v)
    THEN <<"name", v[Key(j)]["name"]>> :> None
    ELSE <<>>

\* "4xx" stands for an answer that leaves the transaction with what it wrote so
\* far.
Refused == <<"4xx">>
Unless(problem, statements) == IF problem THEN Refused ELSE statements
If(condition, statements)   == IF condition THEN statements ELSE <<>>
\* A payload that does not pass validation, or a caller without the right.
Invalid(j) == j.bad = "early"

-----------------------------------------------------------------------------
(* Columns *)

\* The parameters of a zone, the columns the params endpoints take.
ZONE_PARAMS_FIELDS == {"fc", "wp"}

\* The columns a flush updates: those that differ from what was loaded, and the
\* shape of a sector, which is stamped when it is valid.  Its crop is written
\* past the ORM.
Dirty(j, m) ==
    {f \in (IF Is(j, {"put_zone_params"}) THEN DOMAIN j.fields \cap ZONE_PARAMS_FIELDS
            ELSE DOMAIN j.fields \ {"crop"}) :
        IF f = "shape" THEN j.bad # "polygon" ELSE f \notin DOMAIN m \/ j.fields[f] # m[f]}

Defaults == "basemap" :> "satellite_labels" @@ "layers" :> "none" @@ "of" :> None

\* Mutant: every UPDATE names all the columns, as an ORM may be told to.
SentWhole(j, m) == j.fields @@ (IF m = None THEN <<>> ELSE m)

\* The columns an INSERT or UPDATE names; the map preferences and the settings
\* of the assistant are all written, those not sent as they were loaded.
Sent(j, m) ==
    IF Is(j, {"put_map_preferences"}) THEN j.fields @@ (IF m = None THEN Defaults ELSE m)
    ELSE IF Is(j, {"put_config"}) THEN j.fields @@ (IF m = None THEN "key" :> None ELSE m)
    ELSE j.fields

\* A configuration that is made because there is none shows everything.
Columns(j) ==
    IF Is(j, {"get_config", "patch_config"}) THEN j.fields @@ "shown" :> TRUE
    ELSE IF Is(j, {"patch_sensor_units", "backfill"}) THEN j.fields
    ELSE <<>>

-----------------------------------------------------------------------------
(* Statements *)

\* The zone a reading belongs to: its device's, or the one it was stored with.
_owner_zone(v, k) ==
    IF v[k]["device"] \in Live(v) THEN v[v[k]["device"]]["zone"] ELSE v[k]["of"]

InRange(j, v) ==
    {k \in Live(v) :
        /\ "device" \in DOMAIN v[k]
        /\ _owner_zone(v, k) = Key(j) /\ v[k]["ref"] \in Items(j)}

\* The rows a statement writes when it sees v.
Writes(j, statement, m, v) ==
    LET own == {Key(j)} \cap Live(v) IN
    CASE statement = "insert" ->
           Key(j) :> (Sent(j, m) @@ "of" :> None) @@ Named(j)
      [] statement = "save"   ->
           [k \in own |-> [f \in Dirty(j, m) |-> j.fields[f]] @@ v[k]]
      [] statement = "amend"  ->
           [k \in own |-> "crop" :> j.fields["crop"] @@ v[k]]
      [] statement = "patch"  ->
           [k \in own |-> Sent(j, m) @@ v[k]] @@ Named(j) @@ Renamed(j, v)
      [] statement = "delete" -> [k \in own |-> None]
      [] statement = "erase"  ->
           [k \in IF own \subseteq Others THEN {} ELSE own \cup Of(v, Key(j)) |-> None]
      [] statement = "leave"  -> [k \in Items(j) \cap Of(v, Key(j)) |-> None]
      [] statement = "clear"  -> [k \in Of(v, Key(j)) |-> None]
      [] statement = "detach" -> [k \in Of(v, Key(j)) |-> "of" :> None @@ v[k]]
      [] statement = "attach" ->
           [k \in {z \in Items(j) : Owned(v, z)} |-> "of" :> Key(j) @@ v[k]]
      [] statement \in {"fill", "join"} ->
           [k \in {Child(j, i) : i \in Items(j)} |->
              "of" :> Key(j) @@ "ref" :> k[2] @@ Columns(j)]
      [] statement = "tune"   ->
           [k \in IF Held(j, v) = {} THEN {} ELSE {CHOOSE h \in Held(j, v) : TRUE} |->
              j.fields @@ v[k]]
      [] statement = "purge"  -> [k \in InRange(j, v) |-> None]
      [] statement \in {"actif", "suspended"} ->
           [k \in Items(j) \cap Live(v) |-> "pay" :> statement @@ v[k]]
=============================================================================
