---------------------------- MODULE ReadHandlers ----------------------------
(* The requests that only read: for each, whom it answers, the kinds of row
   its answer shows, and the statements it executes in order.  A statement is
   what it does, the kind of row or the column it is about, and what becomes of
   it when it fails.  The rows a statement brings are those of the caller, or
   of everybody for the staff. *)
EXTENDS Records

CONSTANTS
  All,         \* the scope of a caller who is not restricted to some zones
  Nowhere,     \* the zone of the rows that belong to none
  Kinds,       \* the rows of each kind
  TheGrant     \* the grant of the technician who may ask

Rows(kind)   == <<"rows", kind, "bare">>       \* in the scope of the caller
More(kind)   == <<"more", kind, "bare">>       \* under the rows there are so far
Find(kind)   == <<"find", kind, "bare">>       \* the one asked for, or 404
Count(kind)  == <<"count", kind, "bare">>      \* an aggregate, or a look-up for one
Lookup(col)  == <<"each", col, "bare">>        \* a row for each, left out if not there
Demand(col)  == <<"each", col, "strict">>      \* a row for each, taken to be there
Me           == <<"me", "account", "bare">>    \* the account of the caller, if any
Myself       == <<"me", "account", "strict">>
Some         == <<"some", "zone", "bare">>     \* [] at once for an empty scope
Arrange      == <<"arrange", "sector", "bare">>

Guarded(statement, how) == [statement EXCEPT ![3] = how]
InSavepoint(statement)  == Guarded(statement, "savepoint")
Swallowed(statement)    == Guarded(statement, "swallowed")
Each(F(_), kinds)       == [n \in DOMAIN kinds |-> F(kinds[n])]

\* A technician's scope: his latest active grant, then the zones of it.
_resolve_read_scope(me) == <<me, <<"grant", "grant", "bare">>, <<"scope", "zone", "bare">>>>

_username    == Lookup("user")

Reads(who, shows, plan) ==
    [who |-> who, shows |-> shows, plan |-> plan, zoned |-> FALSE, active |-> FALSE,
     by |-> "device"]
Own(shows, plan)    == Reads({"owner"}, shows, plan)
Scoped(shows, plan) == Reads({"owner", "technician"}, shows, plan)
Staff(shows, plan)  == Reads({"staff"}, shows, plan)
Zoned(e)            == [e EXCEPT !.zoned = TRUE]
ByRow(e)            == [e EXCEPT !.by = "row"]
Listing(kind)       == Own({kind}, <<Rows(kind)>>)
Fetching(kind)      == Own({kind}, <<Find(kind)>>)
StaffListing(kind)  == Staff({kind}, <<Rows(kind)>>)
StaffFetching(kind) == Staff({kind}, <<Find(kind)>>)
Filtered(kind)      == Staff({kind}, <<Count("account"), Rows(kind), _username>>)

-----------------------------------------------------------------------------
(* The caller's own *)

get_me              == Reads({"owner", "technician", "staff"}, {}, <<Myself>>)
\* Mutant: a zone of a deleted sector is not reckoned with.
ZonesDemandSector   ==
    Scoped({"zone"}, _resolve_read_scope(Myself) \o <<Rows("zone"), Demand("of")>>)
list_my_zones       ==
    Scoped({"zone"}, _resolve_read_scope(Myself) \o <<Rows("zone"), Lookup("of")>>)
list_my_devices     ==
    [Scoped({"device"}, _resolve_read_scope(Myself) \o <<Some, Rows("device")>>)
       EXCEPT !.active = TRUE]
get_my_active_graph ==
    Zoned(Scoped({"config"}, _resolve_read_scope(Myself) \o <<Find("config")>>))

_sensors_for        == More("member")
list_sensor_groups  ==
    Scoped({"group", "member"}, _resolve_read_scope(Me) \o <<Rows("group"), _sensors_for>>)
get_calibration     ==
    Scoped({}, _resolve_read_scope(Me) \o <<Find("device"), Count("calibration")>>)

_run(kind)                == Scoped({kind}, _resolve_read_scope(Me) \o <<Count(kind), Rows(kind)>>)
list_alert_events         == Zoned(_run("event"))
list_irrigation_decisions == _run("event")

-----------------------------------------------------------------------------
(* Sectors, zones and the map *)

_serialize_sector  == <<Count("zone"), Lookup("of"), Lookup("of")>>
list_sectors       == Own({"sector"}, <<Rows("sector")>> \o _serialize_sector)
_captors_for_zone  == Each(InSavepoint, <<More("slot"), More("reading"), More("moisture")>>)
farm_overview      ==
    ByRow(Own({"sector", "zone", "slot", "reading", "moisture"},
              <<Rows("zone")>> \o _captors_for_zone \o <<Arrange>>))

list_installations  == Listing("installation")
get_map_preferences == Own({}, <<Count("preferences")>>)
_reading            == Rows("reading")
farm_map_status     ==
    Own({"sector", "installation", "alert", "reading"},
        <<Rows("sector"), Rows("installation"), Swallowed(Rows("alert")), _reading>>)

_zone_sensors     == More("sensor")
list_zones        == Own({"nzone", "sensor"}, <<Rows("nzone"), _zone_sensors>>)
get_zone          == Own({"nzone", "sensor"}, <<Find("nzone"), _zone_sensors>>)
available_sensors ==
    ByRow(Own({"zone", "reading", "moisture"},
              <<Rows("zone")>> \o Each(Swallowed, <<More("reading"), More("moisture")>>)))

\* A login is taken to be there for each grant.
_serialize_grant == <<Demand("user"), More("scope")>>
list_technicians == Own({"grant", "scope"}, <<Rows("grant")>> \o _serialize_grant)
get_technician   == Own({"grant", "scope"}, <<Find("grant")>> \o _serialize_grant)

-----------------------------------------------------------------------------
(* Alerts, irrigation, readings, weather *)

notifications_and_alerts == Listing("note")
list_conversations       == Listing("note")
list_alerts      == Zoned(Listing("alert"))
alerts_for_graph == Zoned(Own({"alert", "reading"}, <<Rows("alert"), _reading>>))
alerts_suggest   == Zoned(Listing("reading"))
get_alert        == Fetching("alert")

list_programs == Listing("program")
list_commands == Zoned(Listing("program"))

_serialize_kc == <<More("period"), Lookup("zone")>>
list_kc       == Own({"calendar", "period"}, <<Rows("calendar")>> \o _serialize_kc)
get_kc        == Own({"calendar", "period"}, <<Find("calendar")>> \o _serialize_kc)

list_affirmations == Reads({"owner", "staff"}, {"affirmation"}, <<Rows("affirmation"), _username>>)

et_forecast == Zoned(Own({}, <<Find("zone"), Me>>))
et0_series  == et_forecast

\* Averages by the hour: a sample, the averages, the device of the last row of each,
\* and the calibrations of these; or the rows themselves and their calibrations.
_calibrations_for_buckets == <<Lookup("device"), Count("calibration")>>
hourly_readings ==
    Zoned(Own({"reading"}, <<Count("reading"), _reading>> \o _calibrations_for_buckets))
raw_readings    == Zoned(Own({"reading"}, <<_reading, Count("calibration")>>))
\* GET /sensors/{slug}, of a slug there is.
list_readings(raw) == IF raw THEN raw_readings ELSE hourly_readings

-----------------------------------------------------------------------------
(* The tools of the assistant, each in a transaction of its own *)

_get_active_alerts       == Own({"alert"}, <<Rows("alert"), Lookup("zone")>>)
\* The series behind the keys of a snapshot, three of them.
SENSOR_SOURCES           == <<"reading", "reading", "moisture">>
_latest                  == Each(Count, SENSOR_SOURCES)
_get_farm_snapshot       == Own({}, _latest)
_get_weather_snapshot    == Own({}, _latest)
_get_soil_snapshot       == Own({}, _latest)
_list_zones              == Listing("zone")
_get_zone_detail         == Zoned(Own({}, <<Find("zone"), Count("slot")>>))
_get_sensor_trend        == Own({}, <<Count("reading")>> \o _latest)
_get_irrigation_advice   == Zoned(Own({}, <<Find("zone")>> \o _latest \o <<Swallowed(Count("reading"))>>))
_list_recent_notifications == Listing("note")

-----------------------------------------------------------------------------
(* The back office *)

list_users    == Staff({"account"}, <<Rows("account"), Count("zone")>>)
get_user      == Staff({"account"}, <<Find("account"), Count("zone")>>)
user_sessions == StaffFetching("account")

devices         == Staff({"device"}, <<Rows("device")>>)
list_audit      == Filtered("note")
list_plans      == StaffListing("plan")
list_subscriptions ==
    Staff({"subscription"}, <<Count("account"), Rows("subscription"), Lookup("of")>>)
list_invoices   == Staff({"note"}, <<Count("account"), Count("subscription"), Rows("note")>>)

\* The names of the technician and of the owner.
_grant             == <<_username, _username>>
list_notifications == Filtered("note")
list_proactive     == Staff({"note"}, <<Rows("note"), _username>>)
admin_list_kc      ==
    Staff({"calendar", "period"}, <<Count("account"), Rows("calendar")>> \o _serialize_kc \o <<_username>>)
admin_get_kc       ==
    Staff({"calendar", "period"}, <<Find("calendar")>> \o _serialize_kc \o <<_username>>)
get_conversation   == StaffFetching("note")
list_grants        ==
    Staff({"grant"}, <<Count("account"), Count("account"), Rows("grant")>> \o _grant)
get_grant          == Staff({"grant", "scope"}, <<Find("grant")>> \o _grant \o <<More("scope")>>)

admin_readings  == Zoned(Filtered("reading"))
\* Two of the series there are.
SENSOR_SPEC     == <<"reading", "moisture">>
backfill_status == Zoned(Staff({}, <<Count("account"), Find("zone")>> \o Each(Count, SENSOR_SPEC)))

\* Aggregates, each a statement: together they are of no one moment.
admin_overview   == Staff({}, Each(Count, <<"account", "account", "zone", "alert">>))
analytics        ==
    Staff({}, Each(Count, <<"account", "account", "zone", "alert">>) \o <<Swallowed(Count("device"))>>)
device_fleet_health == Staff({}, <<Swallowed(Count("device")), Swallowed(Count("device"))>>)
list_user_zones  == Staff({"zone"}, <<Rows("zone")>>)
get_user_zone    == Zoned(StaffFetching("zone"))
get_zone_params  == get_user_zone
list_user_alerts == StaffListing("alert")
list_all_alerts  == Staff({"alert"}, <<Count("alert"), Rows("alert"), _username>>)
get_alert_row    == Staff({"alert"}, <<Find("alert"), _username>>)
alerts_analytics == Staff({"alert"}, Each(Count, <<"alert", "alert", "alert">>) \o <<Rows("alert"), _username>>)
user_activity    == Staff({}, <<Find("account"), Count("zone"), Count("alert")>>)
get_sensor_units == Staff({}, <<Find("account"), Count("preferences")>>)

_fleet_summary      == Count("device")
monitoring_overview == Staff({}, Each(Count, <<"note", "note", "account">>) \o <<_fleet_summary>>)
tasks      == Staff({"note"}, <<Rows("note"), Count("note"), Swallowed(Count("note"))>>)
deliveries == Filtered("note")
logins     == StaffListing("note")

\* Three of the tables; one that cannot be counted is shown without a count.
_build_registry == <<"account", "zone", "note">>
list_tables  == Staff({}, Each(InSavepoint, Each(Count, _build_registry)))
list_rows    == Staff({"subscription"}, <<Count("subscription"), Rows("subscription")>>)
retrieve_row == StaffFetching("subscription")

-----------------------------------------------------------------------------
Endpoint ==
    [get_me |-> get_me, list_my_zones |-> list_my_zones,
     list_my_devices |-> list_my_devices, get_my_active_graph |-> get_my_active_graph,
     list_sensor_groups |-> list_sensor_groups, get_calibration |-> get_calibration,
     list_alert_events |-> list_alert_events,
     list_irrigation_decisions |-> list_irrigation_decisions,
     list_sectors |-> list_sectors, farm_overview |-> farm_overview,
     list_installations |-> list_installations,
     get_map_preferences |-> get_map_preferences, farm_map_status |-> farm_map_status,
     list_zones |-> list_zones, get_zone |-> get_zone,
     available_sensors |-> available_sensors, list_technicians |-> list_technicians,
     get_technician |-> get_technician,
     notifications_and_alerts |-> notifications_and_alerts, list_alerts |-> list_alerts,
     alerts_for_graph |-> alerts_for_graph, alerts_suggest |-> alerts_suggest,
     get_alert |-> get_alert, list_programs |-> list_programs,
     list_commands |-> list_commands, list_kc |-> list_kc, get_kc |-> get_kc,
     list_affirmations |-> list_affirmations, et_forecast |-> et_forecast,
     et0_series |-> et0_series, hourly_readings |-> list_readings(FALSE),
     raw_readings |-> list_readings(TRUE), _get_active_alerts |-> _get_active_alerts,
     _get_farm_snapshot |-> _get_farm_snapshot,
     _get_weather_snapshot |-> _get_weather_snapshot,
     _get_soil_snapshot |-> _get_soil_snapshot, _list_zones |-> _list_zones,
     _get_zone_detail |-> _get_zone_detail, _get_sensor_trend |-> _get_sensor_trend,
     _get_irrigation_advice |-> _get_irrigation_advice,
     _list_recent_notifications |-> _list_recent_notifications, list_users |-> list_users,
     get_user |-> get_user, user_sessions |-> user_sessions, devices |-> devices,
     list_audit |-> list_audit, list_plans |-> list_plans,
     list_subscriptions |-> list_subscriptions, list_invoices |-> list_invoices,
     list_conversations |-> list_conversations, list_proactive |-> list_proactive,
     admin_list_kc |-> admin_list_kc, admin_get_kc |-> admin_get_kc,
     list_notifications |-> list_notifications, get_conversation |-> get_conversation,
     list_grants |-> list_grants, get_grant |-> get_grant,
     admin_readings |-> admin_readings, backfill_status |-> backfill_status,
     admin_overview |-> admin_overview, analytics |-> analytics,
     device_fleet_health |-> device_fleet_health, list_user_zones |-> list_user_zones,
     get_user_zone |-> get_user_zone, get_zone_params |-> get_zone_params,
     list_user_alerts |-> list_user_alerts, list_all_alerts |-> list_all_alerts,
     get_alert_row |-> get_alert_row, alerts_analytics |-> alerts_analytics,
     user_activity |-> user_activity, get_sensor_units |-> get_sensor_units,
     monitoring_overview |-> monitoring_overview, tasks |-> tasks,
     deliveries |-> deliveries, logins |-> logins, list_tables |-> list_tables,
     list_rows |-> list_rows, retrieve_row |-> retrieve_row]
=============================================================================
