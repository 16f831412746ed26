---------------------------- MODULE FarmHandlers ----------------------------
(* The handlers by which an owner writes the records of the farm.  Each is the
   statements it executes after its checks, given the job j, the row it loaded,
   m, and what the checks saw, v. *)
EXTENDS Records

create_sector(j) == Unless(Invalid(j) \/ j.bad = "polygon", <<"insert">>)

\* The name is set before the polygon is looked at.
update_sector(j, m) ==
    Unless(Invalid(j),
           If(Dirty(j, m) # {}, <<"save">>)
             \o IF j.bad = "polygon" THEN Refused ELSE If("crop" \in DOMAIN j.fields, <<"amend">>))

delete_sector(j) == Unless(Invalid(j), <<"detach", "delete">>)

\* Zones of somebody else are passed over.
set_sector_zones(j) ==
    Unless(Invalid(j), <<"detach">> \o If(Items(j) \ Others # {}, <<"attach">>))

create_zone(j, v) ==
    Unless(Invalid(j) \/ Foreign(j, v), <<"insert">> \o If(Lists(j), <<"fill">>))

\* updated_at is set too: there always is something to save.
update_zone(j, m, v) ==
    Unless(Invalid(j) \/ Foreign(j, v),
           <<"save">> \o If(Lists(j), <<"clear", "fill">>))

delete_zone(j)   == Unless(Invalid(j), <<"clear", "delete">>)
add_sensor(j, v) == Unless(Invalid(j) \/ Foreign(j, v), <<"fill">>)
remove_sensor(j) == Unless(Invalid(j), <<"leave">>)

\* The login and its grant exist by the time the scope is looked at.
create_technician(j, v) ==
    Unless(Invalid(j) \/ Key(j) \in Live(v),
           <<"insert">> \o Unless(Foreign(j, v), <<"fill">>))

set_scope(j, v)      == Unless(Invalid(j) \/ Foreign(j, v), <<"clear", "fill">>)
reset_password(j)    == Unless(Invalid(j), <<"patch">>)
revoke_technician(j) == Unless(Invalid(j), <<"patch">>)

create_sensor_group(j, v) == Unless(Invalid(j) \/ Taken(j, v), <<"insert">>)
update_sensor_group(j, v) ==
    Unless(Invalid(j) \/ Taken(j, v), If(DOMAIN j.fields # {}, <<"patch">>))
delete_sensor_group(j) == Unless(Invalid(j), <<"erase">>)
add_sensor_to_group(j, v) ==
    Unless(Invalid(j) \/ Foreign(j, v) \/ Same(j, v) # {}, <<"join">>)
remove_sensor_from_group(j) == Unless(Invalid(j), <<"leave">>)

\* An alert's zone, or notification zone ("grouping"), the caller's; not both.
_validate_write(j, v) == Foreign(j, v) \/ (Sends(j, "zone") /\ Sends(j, "grouping"))
create_alert(j, v)    == Unless(Invalid(j) \/ _validate_write(j, v), <<"insert">>)
_write_existing(j, v) == Unless(Invalid(j) \/ _validate_write(j, v), <<"save">>)
delete_alert(j)       == Unless(Invalid(j), <<"delete">>)

\* A client_ref seen before is answered with its row.
create_installation(j, m, v) ==
    IF m # None /\ ~Invalid(j) THEN <<>>
    ELSE Unless(Invalid(j) \/ Foreign(j, v), <<"insert">>)
update_installation(j, v) ==
    Unless(Invalid(j) \/ Foreign(j, v), If(DOMAIN j.fields # {}, <<"patch">>))
delete_installation(j) == Unless(Invalid(j), <<"erase">>)

Upsert(j, v) == IF Key(j) \in Live(v) THEN <<"patch">> ELSE <<"insert">>
put_map_preferences(j, v) == Unless(Invalid(j), Upsert(j, v))
upsert_calibration(j, v)  == Unless(Invalid(j) \/ Foreign(j, v), Upsert(j, v))

\* Every column of a reading but its id, the ones that say whose it is too.
patch_my_reading(j, m) == Unless(Invalid(j), If(Dirty(j, m) # {}, <<"save">>))

\* A conversation is known by the id the client gave it.
upsert_conversation(j, m) == IF m = None THEN <<"insert">> ELSE If(Dirty(j, m) # {}, <<"save">>)
delete_conversation(m)    == If(m # None, <<"delete">>)

\* The team is told within the transaction, best effort.
submit_report(j) == Unless(Invalid(j), <<"insert">>)

OwnerPlan(j, m, v) ==
    LET op == j.op IN
    CASE op = "create_sector"            -> create_sector(j)
      [] op = "update_sector"            -> update_sector(j, m)
      [] op = "delete_sector"            -> delete_sector(j)
      [] op = "set_sector_zones"         -> set_sector_zones(j)
      [] op = "create_zone"              -> create_zone(j, v)
      [] op = "update_zone"              -> update_zone(j, m, v)
      [] op = "delete_zone"              -> delete_zone(j)
      [] op = "add_sensor"               -> add_sensor(j, v)
      [] op = "remove_sensor"            -> remove_sensor(j)
      [] op = "create_technician"        -> create_technician(j, v)
      [] op = "set_scope"                -> set_scope(j, v)
      [] op = "reset_password"           -> reset_password(j)
      [] op = "revoke_technician"        -> revoke_technician(j)
      [] op = "create_sensor_group"      -> create_sensor_group(j, v)
      [] op = "update_sensor_group"      -> update_sensor_group(j, v)
      [] op = "delete_sensor_group"      -> delete_sensor_group(j)
      [] op = "add_sensor_to_group"      -> add_sensor_to_group(j, v)
      [] op = "remove_sensor_from_group" -> remove_sensor_from_group(j)
      [] op = "create_alert"             -> create_alert(j, v)
      [] op = "_write_existing"          -> _write_existing(j, v)
      [] op = "delete_alert"             -> delete_alert(j)
      [] op = "create_installation"      -> create_installation(j, m, v)
      [] op = "update_installation"      -> update_installation(j, v)
      [] op = "delete_installation"      -> delete_installation(j)
      [] op = "put_map_preferences"      -> put_map_preferences(j, v)
      [] op = "upsert_calibration"       -> upsert_calibration(j, v)
      [] op = "patch_my_reading"         -> patch_my_reading(j, m)
      [] op = "upsert_conversation"      -> upsert_conversation(j, m)
      [] op = "delete_conversation"      -> delete_conversation(m)
      [] op = "submit_report"            -> submit_report(j)
=============================================================================
