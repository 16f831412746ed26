--------------------------- MODULE MCFarmRecords ---------------------------
(* A farm with a row or two of each kind, and requests for every handler, in
   families of those that meet on the same rows: two requests of a family are
   made at a time.  None is that of the accounts. *)
EXTENDS MCAccounts

CONSTANTS
  z1, z2, z3, z9,      \* zones, the last one somebody else's
  d1, d2, d9,          \* devices, likewise
  s1, n1, g1, l1,      \* a sector, a notification zone, a sensor group, an alert
  t1, t2, p1, p2,      \* technicians and placed sensors: one there, one to be
  c1, prefs,           \* a calibration of d1, the preferences: not there yet
  u3, b1, b2, i1,      \* an account, a plan and its subscription, an invoice
  k1, k2, llm,         \* settings: one there, one not, the assistant's
  m1, h1, h2           \* a notification, readings of d1 and of no device

LOCAL Alone == "of" :> None
LOCAL In(p) == "of" :> p
LOCAL nothing == [f \in {} |-> None]

FarmRows ==
    z1 :> In(s1) @@ z2 :> Alone @@ z9 :> Alone
      @@ z3 :> (Alone @@ "name" :> "a" @@ "fc" :> 2 @@ "wp" :> 1)
      @@ d1 :> (Alone @@ "zone" :> z1) @@ d2 :> Alone @@ d9 :> Alone
      @@ s1 :> (Alone @@ "name" :> "a" @@ "shape" :> "p" @@ "crop" :> "v")
      @@ n1 :> (Alone @@ "name" :> "a") @@ <<n1, z1, None>> :> (In(n1) @@ "ref" :> z1)
      @@ t1 :> (Alone @@ "active" :> TRUE) @@ <<t1, z1, None>> :> (In(t1) @@ "ref" :> z1)
      @@ g1 :> (Alone @@ "name" :> "a") @@ <<"name", "a">> :> In(g1)
      @@ <<g1, d1, None>> :> (In(g1) @@ "ref" :> d1)
      @@ l1 :> (Alone @@ "zone" :> z1 @@ "grouping" :> None @@ "active" :> TRUE)
      @@ p1 :> (Alone @@ "name" :> "a" @@ "sector" :> s1)
      @@ u3 :> (Alone @@ "pay" :> "actif") @@ b1 :> (Alone @@ "name" :> "a")
      @@ b2 :> (In(b1) @@ "status" :> "active") @@ i1 :> (In(b2) @@ "status" :> "unpaid")
      @@ k1 :> (Alone @@ "value" :> 1)
      @@ llm :> (Alone @@ "enabled" :> TRUE @@ "key" :> "x") @@ m1 :> (Alone @@ "text" :> "a")
      @@ h1 :> (In(z1) @@ "ref" :> "8h" @@ "device" :> d1 @@ "value" :> 1)
      @@ h2 :> (In(z2) @@ "ref" :> "8h" @@ "device" :> None @@ "value" :> 1)

LOCAL Ask(op, id, items, fields) ==
    [op |-> op, id |-> id, items |-> items, fields |-> fields, bad |-> None, by |-> None]
LOCAL Bad(j, what) == [j EXCEPT !.bad = what]
LOCAL name(n) == "name" :> n
LOCAL shaped  == Ask("update_sector", s1, None, name("b") @@ "shape" :> "q")
LOCAL drawn   == Ask("create_sector", None, None, name("b") @@ "shape" :> "q")
LOCAL taken   == Ask("create_row", m1, None, "text" :> "b")
LOCAL range   == Ask("delete_range", z1, {"8h", "9h"}, nothing)
LOCAL plan    == Ask("delete_plan", b1, None, nothing)

LOCAL sectors ==
    {drawn, Bad(drawn, "polygon"), Bad(drawn, "early"),
     shaped, Bad(shaped, "polygon"),
     Ask("update_sector", s1, None, name("a") @@ "crop" :> "w"),
     Ask("delete_sector", s1, None, nothing),
     Ask("set_sector_zones", s1, {z2, z9}, nothing),
     Ask("set_sector_zones", s1, {z1}, nothing),
     Ask("set_sector_zones", s1, {z9}, nothing)}
LOCAL notificationZones ==
    {Ask("create_zone", None, {z1}, name("b")),
     Ask("create_zone", None, {z9}, name("b")),
     Ask("update_zone", n1, {z2}, nothing),
     Ask("update_zone", n1, {z1, z2}, name("a")),
     Ask("update_zone", n1, {}, name("c")),
     Ask("update_zone", n1, None, name("c")),
     Ask("delete_zone", n1, None, nothing),
     Ask("add_sensor", n1, {z2}, nothing),
     Ask("remove_sensor", n1, {<<n1, z1, None>>}, nothing)}
LOCAL technicians ==
    {Ask("create_technician", t2, {z1}, "active" :> TRUE),
     Ask("create_technician", t2, {z9}, "active" :> TRUE),
     Ask("set_scope", t1, {z2}, nothing),
     Ask("set_scope", t1, {z1}, nothing),
     Ask("set_scope", t1, {z9}, nothing),
     Ask("set_scope", t1, {}, nothing),
     Ask("reset_password", t1, None, "password" :> "x"),
     Ask("revoke_technician", t1, None, "active" :> FALSE),
     Ask("patch_grant", t1, None, "active" :> FALSE),
     Ask("patch_grant", t1, None, "active" :> TRUE),
     Ask("delete_grant", t1, None, nothing)}
LOCAL groups ==
    {Ask("create_sensor_group", None, None, name("b")),
     Ask("update_sensor_group", g1, None, name("b")),
     Ask("update_sensor_group", g1, None, name("a") @@ "order" :> "x"),
     Ask("update_sensor_group", g1, None, "order" :> "y"),
     Ask("delete_sensor_group", g1, None, nothing),
     Ask("add_sensor_to_group", g1, {d2}, nothing),
     Ask("add_sensor_to_group", g1, {d9}, nothing),
     Ask("remove_sensor_from_group", g1, {<<g1, d1, None>>}, nothing)}
LOCAL alerts ==
    {Ask("create_alert", None, None, "zone" :> z1 @@ "grouping" :> None),
     Ask("create_alert", None, None, "zone" :> None @@ "grouping" :> n1),
     Ask("_write_existing", l1, None, "zone" :> None @@ "grouping" :> n1),
     Ask("_write_existing", l1, None, "grouping" :> n1),
     Ask("_write_existing", l1, None, "zone" :> z2),
     Ask("_write_existing", l1, None, "zone" :> z9),
     Ask("delete_alert", l1, None, nothing),
     Ask("admin_create_alert", None, None, "zone" :> z2),
     Ask("admin_create_alert", None, None, "zone" :> z9),
     Ask("patch_alert", l1, None, "active" :> FALSE),
     Ask("patch_alert", l1, None, nothing),
     Ask("admin_delete_alert", l1, None, nothing)}
LOCAL map ==
    {Ask("create_installation", p2, None, name("b") @@ "sector" :> s1),
     Ask("create_installation", p2, None, name("c") @@ "sector" :> None),
     Ask("update_installation", p1, None, name("b") @@ "sector" :> s1),
     Ask("update_installation", p1, None, name("c")),
     Ask("delete_installation", p1, None, nothing),
     Ask("upsert_calibration", c1, {d1}, "scale" :> "2"),
     Ask("upsert_calibration", c1, {d1}, "scale" :> "3"),
     Ask("put_map_preferences", prefs, None, "basemap" :> "streets"),
     Ask("put_map_preferences", prefs, None, "layers" :> "x")}
LOCAL zones ==
    {Ask("create_user_zone", None, None, name("b")),
     Ask("_do_update_zone", z3, None, name("b") @@ "fc" :> 3),
     Ask("_do_update_zone", z3, None, "fc" :> 2),
     Ask("put_zone_params", z3, None, name("b") @@ "wp" :> 0),
     Bad(Ask("put_zone_params", z3, None, "fc" :> 0), "early"),
     Ask("delete_user_zone", z3, None, nothing),
     Ask("delete_user_zone", z1, None, nothing),
     Ask("get_config", z3, {"graph"}, nothing),
     Ask("patch_config", z3, {"graph"}, "shown" :> FALSE),
     Ask("patch_config", z3, {"graph"}, "shown" :> TRUE),
     Ask("patch_config", z3, {"color"}, "shown" :> FALSE)}
LOCAL billing ==
    {Ask("create_plan", None, None, name("b")),
     Ask("update_plan", b1, None, name("b")),
     plan, Bad(plan, "leaves"),
     Ask("create_subscription", None, {u3}, In(b1) @@ "status" :> "active"),
     Ask("cancel_subscription", b2, {u3}, "status" :> "cancelled"),
     Ask("create_invoice", None, None, In(b2) @@ "status" :> "unpaid"),
     Ask("mark_invoice_paid", i1, None, "status" :> "paid")}
LOCAL settings ==
    {Ask("get_settings", k2, None, "value" :> 0),
     Ask("patch_settings", k2, None, "value" :> 1),
     Ask("patch_settings", k1, None, "value" :> 2),
     Bad(Ask("patch_settings", llm, None, "value" :> 2), "early"),
     Ask("create_setting", k2, None, "value" :> 2),
     Ask("delete_setting", k1, None, nothing),
     Ask("delete_setting", k2, None, nothing),
     Ask("put_config", llm, None, "enabled" :> TRUE),
     Ask("put_config", llm, None, "enabled" :> TRUE @@ "key" :> "y"),
     Ask("put_config", llm, None, "enabled" :> TRUE @@ "key" :> None),
     Ask("put_config", llm, None, "enabled" :> FALSE @@ "key" :> None),
     Ask("patch_sensor_units", u3, {"soil"}, "unit" :> "a"),
     Ask("patch_sensor_units", u3, {"soil"}, "unit" :> "b")}
LOCAL readings ==
    {Ask("patch_reading", h1, None, "value" :> 2),
     Ask("patch_my_reading", h1, None, "value" :> 3),
     Ask("delete_reading", h1, None, nothing),
     range, Bad(range, "early"),
     Ask("delete_range", z2, {"8h"}, nothing),
     Ask("update_row", d1, None, "zone" :> z2),
     Ask("backfill", z2, {"9h"}, "device" :> None @@ "value" :> 1),
     Ask("backfill", z1, {"9h"}, "device" :> d1 @@ "value" :> 1)}
LOCAL tables ==
    {taken, Ask("create_row", k2, None, "text" :> "b"),
     Ask("update_row", m1, None, "text" :> "b"),
     Ask("delete_row", m1, None, nothing),
     Ask("delete_record", m1, None, nothing),
     Ask("delete_row", b1, None, nothing)}

LOCAL conversations ==
    {Ask("upsert_conversation", m1, None, "text" :> "a"),
     Ask("upsert_conversation", m1, None, "text" :> "b"),
     Ask("upsert_conversation", k2, None, "text" :> "a"),
     Ask("upsert_conversation", k2, None, "text" :> "b"),
     Ask("delete_conversation", m1, None, nothing),
     Ask("delete_conversation", k2, None, nothing),
     Ask("admin_delete_conversation", m1, None, nothing),
     Ask("reset_proactive", m1, None, nothing),
     Ask("submit_report", None, None, "text" :> "a"),
     Bad(Ask("submit_report", None, None, "text" :> "a"), "early")}

\* A record of the families, by name.
FarmJobs ==
    [sectors |-> sectors, notificationZones |-> notificationZones,
     technicians |-> technicians, groups |-> groups, alerts |-> alerts, map |-> map,
     zones |-> zones, billing |-> billing, settings |-> settings,
     readings |-> readings, tables |-> tables, conversations |-> conversations]
=============================================================================
