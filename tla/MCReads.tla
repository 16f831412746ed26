------------------------------- MODULE MCReads -------------------------------
(* A farm with a row or two of each kind to read, and what commits meanwhile. *)
EXTENDS MCFarmRecords

CONSTANTS
  boss, tec, tec2,                \* accounts: staff, technicians
  v1, v2, v3, v4, v5, v6, v7,     \* more rows
  v8, v9                          \* a device and a group, not there yet

LOCAL Alone == "of" :> None
LOCAL In(p) == "of" :> p
LOCAL At(z) == Alone @@ "zone" :> z

ReadRows ==
    [a \in {boss, tec, tec2, u3} |-> Alone]
      @@ s1 :> Alone @@ z1 :> In(s1) @@ z2 :> Alone @@ z9 :> Alone
      @@ d1 :> (At(z1) @@ "active" :> TRUE) @@ d2 :> (At(None) @@ "active" :> TRUE)
      @@ d9 :> (At(z9) @@ "active" :> TRUE)
      @@ n1 :> Alone @@ <<n1, z1, None>> :> (In(n1) @@ "ref" :> z1)
      @@ t1 :> (Alone @@ "active" :> TRUE @@ "user" :> tec)
      @@ t2 :> (Alone @@ "active" :> TRUE @@ "user" :> tec2)
      @@ <<t1, z1, None>> :> (In(t1) @@ "ref" :> z1)
      @@ g1 :> Alone @@ <<g1, d1, None>> :> (In(g1) @@ "ref" :> d1)
      @@ l1 :> At(z1) @@ p1 :> Alone @@ c1 :> At(z1)
      @@ b1 :> Alone @@ b2 :> (In(b1) @@ "user" :> u3)
      @@ h1 :> (In(z1) @@ "ref" :> "8h" @@ "device" :> d1)
      @@ h2 :> (In(z2) @@ "ref" :> "8h" @@ "device" :> None)
      @@ m1 :> (Alone @@ "user" :> u3)
      @@ v1 :> In(z1)                                         \* a configured sensor
      @@ v2 :> (In(z1) @@ "ref" :> "8h" @@ "device" :> None)  \* another series
      @@ v3 :> At(z1) @@ v4 :> At(z2)                         \* events, a program
      @@ v5 :> At(z1) @@ v6 :> In(v5)                         \* a calendar, its stage
      @@ v7 :> (Alone @@ "user" :> u3)                      \* an affirmation

RowKinds ==
    [account |-> {boss, tec, tec2, u3}, sector |-> {s1}, zone |-> {z1, z2, z9},
     device |-> {d1, d2, d9, v8}, nzone |-> {n1}, sensor |-> {<<n1, z1, None>>},
     grant |-> {t1, t2}, scope |-> {<<t1, z1, None>>, <<t1, z2, None>>},
     group |-> {g1, v9}, member |-> {<<g1, d1, None>>},
     alert |-> {l1}, installation |-> {p1}, config |-> {c1},
     plan |-> {b1}, subscription |-> {b2}, reading |-> {h1, h2}, note |-> {m1},
     slot |-> {v1}, moisture |-> {v2}, event |-> {v3}, program |-> {v4},
     calendar |-> {v5}, period |-> {v6}, affirmation |-> {v7}]

Callers == [owner |-> u3, technician |-> tec, staff |-> boss]

LOCAL Ask(op, id, items, fields) ==
    [op |-> op, id |-> id, items |-> items, fields |-> fields, bad |-> None, by |-> None]
LOCAL nothing == [f \in {} |-> None]
Delete(op, k) == Ask(op, k, None, nothing)

Writers ==
    {Ask("set_scope", t1, {z2}, nothing),
     Ask("revoke_technician", t1, None, "active" :> FALSE),
     Ask("set_sector_zones", s1, {z2}, nothing),
     Ask("update_row", d1, None, "zone" :> z2),
     Ask("delete_range", z1, {"8h"}, nothing),
     Ask("remove_sensor_from_group", g1, {<<g1, d1, None>>}, nothing),
     Delete("delete_grant", t2), Delete("delete_sector", s1), Delete("delete_zone", n1),
     Delete("delete_alert", l1)}

\* The rows of create_device and create_sensor_group.
Additions == {v8 :> (At(z1) @@ "active" :> TRUE), v9 :> Alone}
=============================================================================
