--------------------------- MODULE DeviceRouting ---------------------------
(***************************************************************************)
(* Where an uplink goes (fastapp/ingest.py, fastapp/routers/devices.py):   *)
(* a handler resolves the serial of a device to an owner and a zone, in    *)
(* several statements of one READ COMMITTED transaction, and writes its    *)
(* readings there, while administrators register, transfer and delete      *)
(* devices, map the wire tags of a router and create or delete zones, and  *)
(* while other handlers create the `lora` placeholder for the first time.  *)
(*                                                                         *)
(* ChirpStack frames of an unknown serial register it, and those of a      *)
(* device nobody was given go to the catch-all zone; Bivocom uplinks go    *)
(* only where the device's mappings and the zones' owners allow; the       *)
(* weather and single-sensor webhooks name an account, and go to its first *)
(* zone.  A reading references its zone by a foreign key; devices and      *)
(* mappings do not.  The alerts a reading fires are AlertIngest; payloads  *)
(* that are refused before anything is read are left out.                  *)
(***************************************************************************)
EXTENDS Integers, FiniteSets

CONSTANTS
  Farmers,      \* the customers' accounts
  Lora,         \* the placeholder account, LORA_USER_NAME
  Serials,      \* hardware identifiers
  Tags,         \* wire tags of a router
  Frames,       \* the uplinks that may arrive
  Frame,        \* [Frames -> FrameType]
  Bursts,       \* those that do, in one run
  FarmZone,     \* [Farmers -> the zone each starts with]
  MaxZones,     \* bound on the ids of the zone sequence
  MaxDevices,   \* bound on the ids of the device sequence
  MaxEdits,     \* bound on what the administrators do
  InitialTables,\* the devices and mappings the run may start from
  None          \* NULL, or no row

Owners  == Farmers \cup {Lora}
Zones   == 1..MaxZones
Devices == 1..MaxDevices

\* A device's serial, or an account's name.
FrameType == [kind : {"lora", "bivocom", "client"}, serial : Serials \cup {None},
              client : Owners \cup {None}, metrics : BOOLEAN]
ZoneRow   == [owner : Owners, lora : BOOLEAN]       \* lora: is it called so
DeviceRow == [serial : Serials, owner : Owners, zone : Zones \cup {None},
              active : BOOLEAN]
MapRow    == [zone : Zones \cup {None}, active : BOOLEAN]
Target    == [user : Owners, zone : Zones]
Reading   == [by : Frames, user : Owners, zone : Zones]
\* A row of a serial, as it is read.
FoundRow  == [id : Devices, owner : Owners, zone : Zones \cup {None},
              active : BOOLEAN]
Inserts   == [user : BOOLEAN, zones : SUBSET Zones, device : FoundRow \cup {None},
              readings : SUBSET Reading]

Tables == [device : [Devices -> DeviceRow \cup {None}],
           mapping : [Devices -> [Tags -> MapRow \cup {None}]]]

ASSUME FrameAssumption ==
    /\ Frame \in [Frames -> FrameType] /\ Bursts \subseteq SUBSET Frames
    /\ \A f \in Frames : Frame[f].kind # "client" => Frame[f].serial # None
ASSUME OwnerAssumption ==
    /\ Lora \notin Farmers /\ FarmZone \in [Farmers -> Zones]
    /\ IsFiniteSet(Farmers) /\ Cardinality(Farmers) <= MaxZones
    /\ \A u \in Farmers : FarmZone[u] <= Cardinality(Farmers)
ASSUME BoundsAssumption == MaxZones \in Nat /\ MaxDevices \in Nat /\ MaxEdits \in Nat
\* A device is in a zone that is there.
ASSUME TableAssumption ==
    /\ InitialTables \subseteq Tables
    /\ \A t \in InitialTables : \A d \in Devices :
          t.device[d] # None /\ t.device[d].zone # None =>
              t.device[d].zone \in {FarmZone[u] : u \in Farmers}
ASSUME NoneAssumption ==
    None \notin Zones \cup ZoneRow \cup DeviceRow \cup MapRow \cup FoundRow \cup Target
                \cup {"register", "write"}

VARIABLES
  placeholder, \* the account `lora` exists
  zone,        \* rows of analytics_zone, by id
  device,      \* rows of analytics_device, by id
  mapping,     \* rows of analytics_devicesensor, by device and tag
  reading,     \* committed readings
  lastZone,    \* last id the zone sequence gave out
  lastDevice,  \* last id the device sequence gave out
  pc,          \* where the handler of each frame is
  goal,        \* what it called ensure_lora_zone for
  found,       \* the device row it read, with its id
  maps,        \* Bivocom: the active mappings it read
  owned,       \* Bivocom: the zones of the device's owner, as it read them
  target,      \* where its readings go
  txn,         \* what its transaction has inserted so far
  edits,       \* administrators' operations so far
  seen,        \* history: the rows its serial had while it was handled
  early,       \* history: frames taken up before the placeholder existed
  deleted      \* history: some zone was deleted

tables  == <<placeholder, zone, device, mapping, reading>>
ids     == <<lastZone, lastDevice>>
locals  == <<pc, goal, found, maps, owned, target, txn>>
history == <<seen, early, deleted>>
vars    == <<tables, ids, locals, edits, history>>

Finished == {"stored", "rejected", "dropped"}
Stages   == {"absent", "waiting", "owner", "addOwner", "zone", "register", "again",
             "write", "mappings", "owners", "tags", "first", "commit"} \cup Finished

NoInserts == [user |-> FALSE, zones |-> {}, device |-> None, readings |-> {}]
Open(f) == pc[f] \notin {"absent", "waiting"} \cup Finished

Init ==
    /\ placeholder = FALSE
    /\ zone = [z \in Zones |->
                 IF \E u \in Farmers : FarmZone[u] = z
                 THEN [owner |-> CHOOSE u \in Farmers : FarmZone[u] = z,
                       lora |-> FALSE]
                 ELSE None]
    /\ \E t \in InitialTables : device = t.device /\ mapping = t.mapping
    /\ reading = {}
    /\ lastZone = Cardinality(Farmers)
    /\ lastDevice = Cardinality({d \in Devices : device[d] # None})
    /\ \E burst \in Bursts :
          pc = [f \in Frames |-> IF f \in burst THEN "waiting" ELSE "absent"]
    /\ goal = [f \in Frames |-> None]
    /\ found = [f \in Frames |-> None]
    /\ maps = [f \in Frames |-> [t \in {} |-> None]]
    /\ owned = [f \in Frames |-> {}]
    /\ target = [f \in Frames |-> None]
    /\ txn = [f \in Frames |-> NoInserts]
    /\ edits = 0
    /\ seen = [f \in Frames |-> {}]
    /\ early = {} /\ deleted = FALSE

-----------------------------------------------------------------------------
(* What the handler of a frame sees *)

\* The row of a serial in the committed table, or None.
RowOf(table, s) ==
    LET ds == {d \in Devices : table[d] # None /\ table[d].serial = s}
    IN  IF ds = {} THEN None
        ELSE LET d == CHOOSE d \in ds : TRUE
             IN  [id |-> d, owner |-> table[d].owner, zone |-> table[d].zone,
                  active |-> table[d].active]

\* Its own insert included.
Visible(f) ==
    IF txn[f].device # None THEN txn[f].device
    ELSE RowOf(device, Frame[f].serial)

ZonesOf(u) == {z \in Zones : zone[z] # None /\ zone[z].owner = u}
LoraZones(f) == {z \in Zones : zone[z] # None /\ zone[z].lora} \cup txn[f].zones
OwnerOf(f, z) == IF z \in txn[f].zones THEN Lora ELSE zone[z].owner
Least(S) == CHOOSE z \in S : \A y \in S : z <= y

Assigned(v) == v.active /\ v.zone # None

\* What the uplink goes on with once its device is known.
Onward(f, v) ==
    CASE ~Frame[f].metrics -> "commit"
      [] Frame[f].metrics /\ v # None /\ Assigned(v) -> "write"
      [] OTHER -> "owner"

\* History: every row the serial of a frame has while the frame is handled.
Begins(f) == seen' = [seen EXCEPT ![f] = {RowOf(device, Frame[f].serial)}]
Watched ==
    seen' = [f \in Frames |->
               IF Open(f) THEN seen[f] \cup {RowOf(device', Frame[f].serial)}
               ELSE seen[f]]

-----------------------------------------------------------------------------
(* handle_chirpstack_uplink *)

\* The raw record is appended and resolve_device looks the serial up.
Resolve(f) ==
    /\ pc[f] = "waiting" /\ Frame[f].kind = "lora"
    /\ LET v == Visible(f)
       IN  /\ found' = [found EXCEPT ![f] = v]
           /\ pc' = [pc EXCEPT ![f] = IF v = None THEN "owner"
                                      ELSE Onward(f, v)]
           /\ goal' = [goal EXCEPT ![f] = IF v = None THEN "register"
                                          ELSE "write"]
    /\ early' = IF placeholder THEN early ELSE early \cup {f}
    /\ Begins(f)
    /\ UNCHANGED <<tables, ids, maps, owned, target, txn, edits, deleted>>

\* ensure_lora_zone looks for the account and inserts it when there is none.
FindOwner(f) ==
    /\ pc[f] = "owner"
    /\ pc' = [pc EXCEPT ![f] = IF placeholder \/ txn[f].user THEN "zone"
                               ELSE "addOwner"]
    /\ UNCHANGED <<tables, ids, goal, found, maps, owned, target, txn, edits,
                   history>>

\* The unique user name: the INSERT waits for a transaction that has inserted
\* it and raises when that one commits.
AddOwner(f) ==
    /\ pc[f] = "addOwner"
    /\ ~placeholder
    /\ \A g \in Frames \ {f} : ~txn[g].user
    /\ txn' = [txn EXCEPT ![f].user = TRUE]
    /\ pc' = [pc EXCEPT ![f] = "zone"]
    /\ UNCHANGED <<tables, ids, goal, found, maps, owned, target, edits,
                   history>>

Drop(f) ==
    /\ txn' = [txn EXCEPT ![f] = NoInserts]
    /\ pc' = [pc EXCEPT ![f] = "dropped"]
    /\ UNCHANGED <<tables, ids, goal, found, maps, owned, target, edits,
                   history>>

OwnerTaken(f) == pc[f] = "addOwner" /\ placeholder /\ Drop(f)

\* The catch-all is the first zone called `lora`, whoever owns it; without one
\* it is created for the placeholder.
CatchAll(f) ==
    /\ pc[f] = "zone"
    /\ IF LoraZones(f) # {}
       THEN /\ target' = [target EXCEPT ![f] =
                            [user |-> OwnerOf(f, Least(LoraZones(f))),
                             zone |-> Least(LoraZones(f))]]
            /\ UNCHANGED <<lastZone, txn>>
       ELSE /\ lastZone < MaxZones
            /\ lastZone' = lastZone + 1
            /\ txn' = [txn EXCEPT ![f].zones = {lastZone + 1}]
            /\ target' = [target EXCEPT ![f] = [user |-> Lora,
                                                zone |-> lastZone + 1]]
    /\ pc' = [pc EXCEPT ![f] = goal[f]]
    /\ UNCHANGED <<tables, lastDevice, goal, found, maps, owned, edits,
                   history>>

Taken(f) == RowOf(device, Frame[f].serial) # None
Inserting(s) == {g \in Frames : txn[g].device # None /\ Frame[g].serial = s}

RegisterOrRaise(f) ==
    /\ pc[f] = "register" /\ Inserting(Frame[f].serial) = {}
    /\ IF Taken(f) THEN Drop(f)
       ELSE /\ lastDevice < MaxDevices
            /\ lastDevice' = lastDevice + 1
            /\ txn' = [txn EXCEPT ![f].device =
                         [id |-> lastDevice + 1, owner |-> target[f].user,
                          zone |-> None, active |-> TRUE]]
            /\ pc' = [pc EXCEPT ![f] = "again"]
            /\ UNCHANGED <<tables, lastZone, goal, found, maps, owned, target,
                           edits, history>>

\* INSERT ... ON CONFLICT (serial) DO NOTHING: it waits for a transaction that
\* has inserted the serial, and does nothing when that one commits.
Register(f) ==
    /\ pc[f] = "register"
    /\ Inserting(Frame[f].serial) = {}
    /\ IF Taken(f) THEN UNCHANGED <<lastDevice, txn>>
       ELSE /\ lastDevice < MaxDevices
            /\ lastDevice' = lastDevice + 1
            /\ txn' = [txn EXCEPT ![f].device =
                         [id |-> lastDevice + 1, owner |-> target[f].user,
                          zone |-> None, active |-> TRUE]]
    /\ pc' = [pc EXCEPT ![f] = "again"]
    /\ UNCHANGED <<tables, lastZone, goal, found, maps, owned, target, edits,
                   history>>

\* resolve_device reads the row again after it registered it.
ResolveAgain(f) ==
    /\ pc[f] = "again"
    /\ found' = [found EXCEPT ![f] = Visible(f)]
    /\ pc' = [pc EXCEPT ![f] = Onward(f, Visible(f))]
    /\ goal' = [goal EXCEPT ![f] = "write"]
    /\ UNCHANGED <<tables, ids, maps, owned, target, txn, edits, history>>

\* Faulty variant, for the mutants.
DestinationNow(f) ==
    IF found[f] # None /\ Assigned(found[f])
    THEN LET v == Visible(f)
         IN  [user |-> found[f].owner,
              zone |-> IF v # None /\ v.zone # None THEN v.zone
                       ELSE found[f].zone]
    ELSE target[f]
\* The owner and the zone of the row that was read, or the catch-all.
Destination(f) ==
    IF found[f] # None /\ Assigned(found[f])
    THEN [user |-> found[f].owner, zone |-> found[f].zone]
    ELSE target[f]

\* The foreign key of the reading accepts the zone.
Accepts(f, z) == zone[z] # None \/ z \in txn[f].zones

Write(f) ==
    /\ pc[f] = "write"
    /\ Accepts(f, Destination(f).zone)
    /\ txn' = [txn EXCEPT ![f].readings =
                 {[by |-> f, user |-> Destination(f).user,
                   zone |-> Destination(f).zone]}]
    /\ pc' = [pc EXCEPT ![f] = "commit"]
    /\ UNCHANGED <<tables, ids, goal, found, maps, owned, target, edits,
                   history>>

WriteRefused(f) ==
    /\ pc[f] = "write" /\ ~Accepts(f, Destination(f).zone)
    /\ Drop(f)

-----------------------------------------------------------------------------
(* handle_bivocom_uplink *)

\* An unknown or inactive device is refused.
Look(f) ==
    /\ pc[f] = "waiting" /\ Frame[f].kind = "bivocom"
    /\ LET v == Visible(f)
       IN  /\ found' = [found EXCEPT ![f] = v]
           /\ pc' = [pc EXCEPT ![f] = IF v # None /\ v.active THEN "mappings"
                                      ELSE "rejected"]
    /\ Begins(f)
    /\ UNCHANGED <<tables, ids, goal, maps, owned, target, txn, edits, early,
                   deleted>>

ReadMappings(f) ==
    /\ pc[f] = "mappings"
    /\ LET row == mapping[found[f].id]
           on  == {t \in Tags : row[t] # None /\ row[t].active}
       IN  maps' = [maps EXCEPT ![f] = [t \in on |-> row[t].zone]]
    /\ pc' = [pc EXCEPT ![f] = "owners"]
    /\ UNCHANGED <<tables, ids, goal, found, owned, target, txn, edits,
                   history>>

ReadOwners(f) ==
    /\ pc[f] = "owners"
    /\ owned' = [owned EXCEPT ![f] = ZonesOf(found[f].owner)]
    /\ pc' = [pc EXCEPT ![f] = "tags"]
    /\ UNCHANGED <<tables, ids, goal, found, maps, target, txn, edits,
                   history>>

\* The mapping's own zone, else the device's; a tag whose zone is missing or
\* is not the owner's is skipped.
ZoneFor(f, t) == IF maps[f][t] # None THEN maps[f][t] ELSE found[f].zone
\* Faulty variant, for the mutants.
FedUnchecked(f) ==
    {ZoneFor(f, t) : t \in DOMAIN maps[f]} \ {None}
Fed(f) == {ZoneFor(f, t) : t \in DOMAIN maps[f]} \cap owned[f]

WriteTags(f) ==
    /\ pc[f] = "tags"
    /\ \A z \in Fed(f) : Accepts(f, z)
    /\ txn' = [txn EXCEPT ![f].readings =
                 {[by |-> f, user |-> found[f].owner, zone |-> z] :
                    z \in Fed(f)}]
    /\ pc' = [pc EXCEPT ![f] = "commit"]
    /\ UNCHANGED <<tables, ids, goal, found, maps, owned, target, edits,
                   history>>

TagsRefused(f) ==
    /\ pc[f] = "tags" /\ \E z \in Fed(f) : ~Accepts(f, z)
    /\ Drop(f)

-----------------------------------------------------------------------------
(* sensor_ingest and weather_ingest, by handle_metrics *)

user_by_username(name) == name = Lora => placeholder

\* The account that is named, 400 when there is none.
sensor_ingest(f) ==
    /\ pc[f] = "waiting" /\ Frame[f].kind = "client"
    /\ pc' = [pc EXCEPT ![f] = IF user_by_username(Frame[f].client) THEN "first"
                               ELSE "rejected"]
    /\ Begins(f)
    /\ UNCHANGED <<tables, ids, goal, found, maps, owned, target, txn, edits, early,
                   deleted>>

\* Its first zone; 400 without one.
first_zone_for(f) ==
    /\ pc[f] = "first"
    /\ LET own == ZonesOf(Frame[f].client)
       IN  IF own = {} THEN pc' = [pc EXCEPT ![f] = "rejected"] /\ UNCHANGED target
           ELSE /\ pc' = [pc EXCEPT ![f] = "write"]
                /\ target' = [target EXCEPT ![f] = [user |-> Frame[f].client,
                                                   zone |-> Least(own)]]
    /\ UNCHANGED <<tables, ids, goal, found, maps, owned, txn, edits, history>>

-----------------------------------------------------------------------------
Commit(f) ==
    /\ pc[f] = "commit"
    /\ placeholder' = (placeholder \/ txn[f].user)
    /\ zone' = [z \in Zones |-> IF z \in txn[f].zones
                                THEN [owner |-> Lora, lora |-> TRUE]
                                ELSE zone[z]]
    /\ device' = IF txn[f].device = None THEN device
                 ELSE [device EXCEPT ![txn[f].device.id] =
                         [serial |-> Frame[f].serial,
                          owner |-> txn[f].device.owner,
                          zone |-> None, active |-> TRUE]]
    /\ reading' = reading \cup txn[f].readings
    /\ txn' = [txn EXCEPT ![f] = NoInserts]
    /\ pc' = [pc EXCEPT ![f] = "stored"]
    /\ Watched
    /\ UNCHANGED <<mapping, ids, goal, found, maps, owned, target, edits,
                   early, deleted>>

Handle(f) ==
    \/ Resolve(f) \/ FindOwner(f) \/ AddOwner(f) \/ OwnerTaken(f)
    \/ CatchAll(f) \/ Register(f) \/ ResolveAgain(f)
    \/ Write(f) \/ WriteRefused(f)
    \/ Look(f) \/ ReadMappings(f) \/ ReadOwners(f)
    \/ WriteTags(f) \/ TagsRefused(f)
    \/ sensor_ingest(f) \/ first_zone_for(f)
    \/ Commit(f)

-----------------------------------------------------------------------------
(* The administrators: one transaction each, whose checks concern rows that *)
(* nobody changes afterwards (the owner of a zone) or that a unique key     *)
(* checks once more (a serial, a tag of a device).                          *)

Edit ==
    /\ edits < MaxEdits
    /\ edits' = edits + 1
    /\ UNCHANGED <<locals, placeholder, reading, early>>

OwnsZone(u, z) == zone[z] # None /\ zone[z].owner = u

\* create_device; create and rename wait for a handler that is registering
\* the serial.
Free(s) == RowOf(device, s) = None /\ Inserting(s) = {}

CreateDevice(s, u, z) ==
    /\ Edit
    /\ Free(s)
    /\ u = Lora => placeholder
    /\ z # None => OwnsZone(u, z)
    /\ lastDevice < MaxDevices
    /\ lastDevice' = lastDevice + 1
    /\ device' = [device EXCEPT ![lastDevice + 1] =
                    [serial |-> s, owner |-> u, zone |-> z, active |-> TRUE]]
    /\ Watched
    /\ UNCHANGED <<zone, mapping, lastZone, deleted>>

\* patch_device: the owner, the zone or both; the two are compared when both
\* are given.
Transfer(d, u, z) ==
    /\ Edit
    /\ device[d] # None
    /\ u # None \/ z # None
    /\ u = Lora => placeholder
    /\ z # None => /\ zone[z] # None
                   /\ u # None => zone[z].owner = u
    /\ device' = [device EXCEPT
                    ![d].owner = IF u # None THEN u ELSE @,
                    ![d].zone = IF z # None THEN z ELSE @]
    /\ Watched
    /\ UNCHANGED <<zone, mapping, ids, deleted>>

Switch(d) ==
    /\ Edit
    /\ device[d] # None
    /\ device' = [device EXCEPT ![d].active = ~@]
    /\ Watched
    /\ UNCHANGED <<zone, mapping, ids, deleted>>

Rename(d, s) ==
    /\ Edit
    /\ device[d] # None
    /\ Free(s)
    /\ device' = [device EXCEPT ![d].serial = s]
    /\ Watched
    /\ UNCHANGED <<zone, mapping, ids, deleted>>

\* bulk_assign_devices: several devices, owner and zone together.
BulkAssign(D, u, z) ==
    /\ Edit
    /\ D # {} /\ \A d \in D : device[d] # None
    /\ OwnsZone(u, z)
    /\ device' = [d \in Devices |->
                    IF d \in D THEN [device[d] EXCEPT !.owner = u, !.zone = z]
                    ELSE device[d]]
    /\ Watched
    /\ UNCHANGED <<zone, mapping, ids, deleted>>

\* delete_device takes its mappings along, not its readings.
DeleteDevice(d) ==
    /\ Edit
    /\ device[d] # None
    /\ device' = [device EXCEPT ![d] = None]
    /\ mapping' = [mapping EXCEPT ![d] = [t \in Tags |-> None]]
    /\ Watched
    /\ UNCHANGED <<zone, ids, deleted>>

\* attach, patch and detach a device's sensor: a zone of its own must be the
\* zone of the device's owner.
Attach(d, t, z) ==
    /\ Edit
    /\ device[d] # None /\ mapping[d][t] = None
    /\ z # None => OwnsZone(device[d].owner, z)
    /\ mapping' = [mapping EXCEPT ![d][t] = [zone |-> z, active |-> TRUE]]
    /\ UNCHANGED <<zone, device, ids, seen, deleted>>

Remap(d, t, z) ==
    /\ Edit
    /\ mapping[d][t] # None
    /\ z # None => OwnsZone(device[d].owner, z)
    /\ mapping' = [mapping EXCEPT ![d][t].zone = z]
    /\ UNCHANGED <<zone, device, ids, seen, deleted>>

SwitchMap(d, t) ==
    /\ Edit
    /\ mapping[d][t] # None
    /\ mapping' = [mapping EXCEPT ![d][t].active = ~@]
    /\ UNCHANGED <<zone, device, ids, seen, deleted>>

Detach(d, t) ==
    /\ Edit
    /\ mapping[d][t] # None
    /\ mapping' = [mapping EXCEPT ![d][t] = None]
    /\ UNCHANGED <<zone, device, ids, seen, deleted>>

\* create_user_zone: the name is free text, `lora` included.
CreateZone(u, named) ==
    /\ Edit
    /\ lastZone < MaxZones
    /\ lastZone' = lastZone + 1
    /\ zone' = [zone EXCEPT ![lastZone + 1] = [owner |-> u, lora |-> named]]
    /\ UNCHANGED <<device, mapping, lastDevice, seen, deleted>>

\* delete_user_zone: refused by the foreign key of a committed reading, and
\* waiting for a transaction that has written one; devices and mappings keep
\* the id.
DeleteZone(z) ==
    /\ Edit
    /\ zone[z] # None
    /\ \A r \in reading \cup UNION {txn[f].readings : f \in Frames} : r.zone # z
    /\ zone' = [zone EXCEPT ![z] = None]
    /\ deleted' = TRUE
    /\ UNCHANGED <<device, mapping, ids, seen>>

Administer ==
    \/ \E s \in Serials, u \in Owners, z \in Zones \cup {None} :
         CreateDevice(s, u, z)
    \/ \E d \in Devices, u \in Owners \cup {None}, z \in Zones \cup {None} :
         Transfer(d, u, z)
    \/ \E d \in Devices : Switch(d) \/ DeleteDevice(d)
    \/ \E d \in Devices, s \in Serials : Rename(d, s)
    \/ \E D \in SUBSET Devices, u \in Owners, z \in Zones : BulkAssign(D, u, z)
    \/ \E d \in Devices, t \in Tags, z \in Zones \cup {None} :
         Attach(d, t, z) \/ Remap(d, t, z)
    \/ \E d \in Devices, t \in Tags : SwitchMap(d, t) \/ Detach(d, t)
    \/ \E u \in Farmers, named \in BOOLEAN : CreateZone(u, named)
    \/ \E z \in Zones : DeleteZone(z)

Next == (\E f \in Frames : Handle(f)) \/ Administer

Spec == Init /\ [][Next]_vars

-----------------------------------------------------------------------------
(* Properties *)

\* The tables and the handlers keep their types, for the writes of
\* ensure_lora_zone, auto_register_lora_device and the device routes.
TypeOK ==
    /\ placeholder \in BOOLEAN
    /\ zone \in [Zones -> ZoneRow \cup {None}]
    /\ device \in [Devices -> DeviceRow \cup {None}]
    /\ mapping \in [Devices -> [Tags -> MapRow \cup {None}]]
    /\ reading \subseteq Reading
    /\ lastZone \in 0..MaxZones /\ lastDevice \in 0..MaxDevices
    /\ pc \in [Frames -> Stages]
    /\ goal \in [Frames -> {"register", "write", None}]
    /\ found \in [Frames -> FoundRow \cup {None}]
    /\ maps \in [Frames -> UNION {[T -> Zones \cup {None}] : T \in SUBSET Tags}]
    /\ owned \in [Frames -> SUBSET Zones]
    /\ target \in [Frames -> Target \cup {None}]
    /\ txn \in [Frames -> Inserts]
    /\ edits \in 0..MaxEdits
    /\ seen \in [Frames -> SUBSET (FoundRow \cup {None})]
    /\ early \subseteq Frames /\ deleted \in BOOLEAN

\* A committed reading of a Bivocom router or of a webhook that names an account
\* lies in a zone of the user it names, although mappings survive a transfer of
\* their device and an owner can be changed without the zone
\* (handle_bivocom_uplink: a mapping made before the device changed hands must not
\* keep feeding the old owner).
FeedsTheOwner ==
    \A r \in reading :
        Frame[r.by].kind \in {"bivocom", "client"} => zone[r.zone].owner = r.user

\* A reading goes where its device was assigned at one instant of the
\* handling, owner and zone of the same instant, or to a zone called `lora`
\* and its owner when the device was unknown, inactive or without a zone at
\* some instant (resolve_device: one statement reads the columns); and one that
\* names an account to the first of its zones (first_zone_for), none of which
\* comes before it later, whatever is created and deleted meanwhile; but for
\* the placeholder, whose zones may be committed out of the order of their ids.
RoutedAsAssigned ==
    \A r \in reading :
       CASE Frame[r.by].kind = "lora" ->
              \/ \E v \in seen[r.by] \ {None} :
                    Assigned(v) /\ v.owner = r.user /\ v.zone = r.zone
              \/ /\ zone[r.zone].lora /\ zone[r.zone].owner = r.user
                 /\ \E v \in seen[r.by] : v = None \/ ~Assigned(v)
         [] Frame[r.by].kind = "client" ->
              r.user = Lora \/ r.zone = Least(ZonesOf(r.user))
         [] OTHER -> TRUE

\* A frame is lost only if it was taken up before the placeholder account
\* existed, or after a zone was deleted: no registration of a serial, transfer
\* or mapping refuses one (auto_register_lora_device: a conflict must not
\* poison the transaction).
LostForCause ==
    \A f \in Frames : pc[f] = "dropped" => f \in early \/ deleted

\* Store the complete uplink for EVERY frame, nothing dropped
\* (handle_chirpstack_uplink). Does not hold: the raw record is in the
\* transaction that the foreign key of a reading rolls back.
NothingDropped ==
    \A f \in Frames : Frame[f].kind = "lora" => pc[f] # "dropped"

\* A device nobody registered is owned by the placeholder
\* (auto_register_lora_device). Does not hold: the first zone called `lora`
\* may be a customer's.
PlaceholderOwns ==
    \A f \in Frames : txn[f].device # None => txn[f].device.owner = Lora
=============================================================================
