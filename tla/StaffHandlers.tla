--------------------------- MODULE StaffHandlers ---------------------------
(* The handlers of the back office that write records of a farm or of the
   platform: zones and display configurations, alerts, sensor units, plans,
   subscriptions and invoices, settings, grants, stored readings, and the rows
   of any table.  Each is the statements it executes after its checks, given the
   job j, the row it loaded, m, and what the checks saw, v.  The audit row that
   most of them add goes with their transaction and is left out. *)
EXTENDS Records

\* A flush saves what differs; one that stamps updated_at always has something.
Changed(j, m) == If(Dirty(j, m) # {}, <<"save">>)

-----------------------------------------------------------------------------
(* Zones, their display configurations, alerts, units *)

create_user_zone(j)     == Unless(Invalid(j), <<"insert">>)
_do_update_zone(j, m)   == Unless(Invalid(j), Changed(j, m))
put_zone_params(j, m)   == _do_update_zone(j, m)
delete_user_zone(j)     == <<"delete">>

\* A configuration is looked up by its zone, and made when there is none: by the
\* GET too, and without a constraint that there be one of a kind.
_get_or_create_config(j, v, statements) ==
    IF Held(j, v) = {} THEN <<"fill">> ELSE statements
get_config(j, v)   == _get_or_create_config(j, v, <<>>)
patch_config(j, v) ==
    Unless(Invalid(j),
           _get_or_create_config(j, v,
             If(\A k \in Held(j, v) : \E f \in DOMAIN j.fields : j.fields[f] # v[k][f], <<"tune">>)))

patch_alert(j)        == If(Sends(j, "active"), <<"save">>)
admin_delete_alert(j) == <<"delete">>
admin_create_alert(j, v) == Unless(Invalid(j) \/ Foreign(j, v), <<"insert">>)

patch_sensor_units(j, v) ==
    Unless(Invalid(j), IF Held(j, v) = {} THEN <<"fill">> ELSE <<"tune">>)

-----------------------------------------------------------------------------
(* Billing *)

create_plan(j)    == <<"insert">>
update_plan(j, m) == Changed(j, m)
\* What the ORM does about the subscriptions of a plan is up to the models of
\* agri-db: it takes them off the plan, or leaves that to the foreign key.
delete_plan(j, m) ==
    If(m # None, If(j.bad # "leaves", <<"detach">>) \o <<"delete">>)

\* The status of the account follows the subscription that changed last.
_sync_payment_status(user, status) == If(user["pay"] # status, <<status>>)

\* Here the row loaded is the account.
create_subscription(j, m, v) ==
    Unless(Foreign(j, v), <<"insert">> \o _sync_payment_status(m, "actif"))
cancel_subscription(j, m, v) ==
    _sync_payment_status(v[Subscriber(j)], "suspended") \o Changed(j, m)

create_invoice(j, v) == Unless(Foreign(j, v), <<"insert">>)
mark_invoice_paid(j) == <<"save">>

-----------------------------------------------------------------------------
(* Settings *)

\* What was selected is updated, else inserted.
Settle(m) == IF m = None THEN <<"insert">> ELSE <<"save">>

_seed_defaults(j, m) == If(m = None, <<"insert">>)
patch_settings(j, m) == Unless(Invalid(j), Settle(m))
create_setting(j, m) == Unless(Invalid(j) \/ m # None, <<"insert">>)
delete_setting(j)    == Unless(Invalid(j), <<"delete">>)

\* The key of the assistant's provider is kept unless the request names one.
HasKey(j, m) == Sent(j, m)["key"] # None
put_config(j, m) ==
    Unless(Invalid(j) \/ (j.fields["enabled"] /\ ~HasKey(j, m)),
           IF m = None THEN <<"insert">> ELSE <<"patch">>)

-----------------------------------------------------------------------------
(* Records and readings *)

\* Notifications, conversations, proactive notices and grants: deleted if there.
delete_record(j, m)  == If(m # None, <<"delete">>)
delete_grant(j, m)   == delete_record(j, m)
admin_delete_conversation(j, m) == delete_record(j, m)
reset_proactive(j, m)           == delete_record(j, m)
patch_grant(j, m)    == Changed(j, m)

patch_reading(j, m)  == Unless(Invalid(j), Changed(j, m))
delete_reading(j)    == <<"delete">>
\* Not without a zone and a bound.
delete_range(j)      == Unless(Invalid(j), <<"purge">>)
\* Only where the zone has data to go on, and has none for that time.
backfill(j, v) ==
    Unless(Invalid(j) \/ Of(v, Key(j)) = {}, If(Held(j, v) = {}, <<"fill">>))

\* Any table; what the database refuses is answered 400 after a rollback.
create_row(j)    == Unless(Invalid(j), <<"insert">>)
update_row(j, m) == Unless(Invalid(j), Changed(j, m))
delete_row(j)    == <<"delete">>

-----------------------------------------------------------------------------
StaffOps ==
    {"create_user_zone", "_do_update_zone", "put_zone_params", "delete_user_zone",
     "get_config", "patch_config", "patch_alert", "admin_delete_alert",
     "admin_create_alert", "patch_sensor_units", "create_plan", "update_plan",
     "delete_plan", "create_subscription", "cancel_subscription", "create_invoice",
     "mark_invoice_paid", "get_settings", "patch_settings", "create_setting",
     "delete_setting", "put_config", "delete_record", "delete_grant", "patch_grant",
     "admin_delete_conversation", "reset_proactive",
     "patch_reading", "delete_reading", "delete_range", "backfill",
     "create_row", "update_row", "delete_row"}

StaffPlan(j, m, v) ==
    LET op == j.op IN
    CASE op = "create_user_zone"    -> create_user_zone(j)
      [] op = "_do_update_zone"     -> _do_update_zone(j, m)
      [] op = "put_zone_params"     -> put_zone_params(j, m)
      [] op = "delete_user_zone"    -> delete_user_zone(j)
      [] op = "get_config"          -> get_config(j, v)
      [] op = "patch_config"        -> patch_config(j, v)
      [] op = "patch_alert"         -> patch_alert(j)
      [] op = "admin_delete_alert"  -> admin_delete_alert(j)
      [] op = "admin_create_alert"  -> admin_create_alert(j, v)
      [] op = "patch_sensor_units"  -> patch_sensor_units(j, v)
      [] op = "create_plan"         -> create_plan(j)
      [] op = "update_plan"         -> update_plan(j, m)
      [] op = "delete_plan"         -> delete_plan(j, m)
      [] op = "create_subscription" -> create_subscription(j, m, v)
      [] op = "cancel_subscription" -> cancel_subscription(j, m, v)
      [] op = "create_invoice"      -> create_invoice(j, v)
      [] op = "mark_invoice_paid"   -> mark_invoice_paid(j)
      [] op = "get_settings"        -> _seed_defaults(j, m)
      [] op = "patch_settings"      -> patch_settings(j, m)
      [] op = "create_setting"      -> create_setting(j, m)
      [] op = "delete_setting"      -> delete_setting(j)
      [] op = "put_config"          -> put_config(j, m)
      [] op = "delete_record"       -> delete_record(j, m)
      [] op = "delete_grant"        -> delete_grant(j, m)
      [] op = "admin_delete_conversation" -> admin_delete_conversation(j, m)
      [] op = "reset_proactive"     -> reset_proactive(j, m)
      [] op = "patch_grant"         -> patch_grant(j, m)
      [] op = "patch_reading"       -> patch_reading(j, m)
      [] op = "delete_reading"      -> delete_reading(j)
      [] op = "delete_range"        -> delete_range(j)
      [] op = "backfill"            -> backfill(j, v)
      [] op = "create_row"          -> create_row(j)
      [] op = "update_row"          -> update_row(j, m)
      [] op = "delete_row"          -> delete_row(j)
=============================================================================
