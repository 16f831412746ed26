------------------------ MODULE DeviceRoutingProofs ------------------------
(***************************************************************************)
(* Where uplinks go, for any number of frames, accounts, devices and       *)
(* edits.  Handlers act on rows they read statements ago, so the invariant *)
(* is about what stays true of a zone id once a handler knows it: an id is *)
(* handed out once, so the zone is what it was or is gone.                 *)
(***************************************************************************)
EXTENDS DeviceRouting, FiniteSetTheorems, WellFoundedInduction, TLAPS

\* The zone ids that were given out and are in no open transaction: committed,
\* deleted or rolled back.
Settled == {z \in 1..lastZone : \A f \in Frames : z \notin txn[f].zones}

\* The ids a frame may have met, and the row it sees under one.
Known(f)   == Settled \cup txn[f].zones
View(f, z) == IF z \in txn[f].zones THEN [owner |-> Lora, lora |-> TRUE]
              ELSE zone[z]
BelongsTo(f, z, u) == View(f, z) # None => View(f, z).owner = u

\* The id of a zone is of one transaction, then settled.
ZonesBorn ==
    /\ \A z \in Zones : zone[z] # None => z \in Settled
    /\ \A f \in Frames : \A z \in txn[f].zones :
          z <= lastZone /\ \A g \in Frames : z \in txn[g].zones => g = f

Kind(f) == Frame[f].kind
ForOwner == {"owner", "addOwner", "zone"}

\* The row a frame goes by is assigned.
Placed(f) == found[f] # None /\ Assigned(found[f])

\* Where the handler of a frame may be, and what it holds there.
Course(f) ==
    /\ Kind(f) = "lora" =>
          pc[f] \in ForOwner \cup {"absent", "waiting", "register", "again", "write",
                                   "commit", "stored", "dropped"}
    /\ Kind(f) = "bivocom" =>
          pc[f] \in {"absent", "waiting", "mappings", "owners", "tags", "commit"}
                      \cup Finished
    /\ Kind(f) = "client" =>
          pc[f] \in {"absent", "waiting", "first", "write", "commit"} \cup Finished
    /\ pc[f] \in ForOwner => goal[f] # None
    /\ pc[f] \in {"waiting", "stored", "dropped"} =>
          txn[f].zones = {} /\ txn[f].device = None
    /\ pc[f] # "commit" => txn[f].readings = {}
    /\ txn[f].device # None => Kind(f) = "lora" /\ txn[f].device.zone = None
    /\ pc[f] \in {"mappings", "owners", "tags"} => found[f] # None
    /\ Kind(f) = "client" => found[f] = None
    /\ owned[f] # {} => Kind(f) = "bivocom" /\ pc[f] # "waiting"
    /\ pc[f] = "register" => target[f] # None
    /\ pc[f] = "write" => Placed(f) \/ target[f] # None

\* Some time while the frame was handled its device was nobody's.
Excused(f) == \E v \in seen[f] : v = None \/ ~Assigned(v)

\* What a frame knows of its device is a row the serial had meanwhile.
Informed(f) ==
    /\ Open(f) => RowOf(device, Frame[f].serial) \in seen[f]
    /\ Kind(f) = "lora" =>
          /\ Placed(f) => found[f] \in seen[f]
          /\ pc[f] \in ForOwner \cup {"register", "again"} => Excused(f)
          /\ pc[f] = "write" => Placed(f) \/ Excused(f)

\* No zone of an account comes before its first one.
First(u, z) == u \in Farmers => \A y \in ZonesOf(u) : z <= y

\* The zone a frame aims at is of the account it will name.
Aimed(f) ==
    target[f] # None =>
       /\ target[f].zone \in Known(f)
       /\ BelongsTo(f, target[f].zone, target[f].user)
       /\ Kind(f) = "lora" /\ View(f, target[f].zone) # None =>
             View(f, target[f].zone).lora
       /\ Kind(f) = "client" => /\ target[f].user = Frame[f].client
                                /\ First(target[f].user, target[f].zone)
OwnedKnown(f) ==
    \A z \in owned[f] : z \in Known(f) /\ BelongsTo(f, z, found[f].owner)

\* A reading, written or committed, is where it belongs.
Right(r) ==
    /\ View(r.by, r.zone) # None
    /\ Kind(r.by) = "lora" =>
          \/ \E v \in seen[r.by] \ {None} :
                Assigned(v) /\ v.owner = r.user /\ v.zone = r.zone
          \/ /\ View(r.by, r.zone).lora /\ View(r.by, r.zone).owner = r.user
             /\ Excused(r.by)
    /\ Kind(r.by) # "lora" => View(r.by, r.zone).owner = r.user
    /\ Kind(r.by) = "client" => First(r.user, r.zone)

Pending(f) == \A r \in txn[f].readings : r.by = f /\ Right(r)
Committed  == \A r \in reading : pc[r.by] = "stored" /\ Right(r)

\* A frame that may lose the race to provision the placeholder is an early one.
Early(f) ==
    /\ Kind(f) = "lora" /\ Open(f) /\ ~placeholder => f \in early
    /\ pc[f] = "addOwner" => f \in early
    /\ pc[f] = "dropped" => f \in early \/ deleted

\* Until a zone is deleted, the zones that anything refers to are there.
DevicesPlaced ==
    ~deleted => \A d \in Devices : device[d] # None /\ device[d].zone # None =>
                   zone[device[d].zone] # None
Intact(f) ==
    ~deleted =>
       /\ found[f] # None /\ found[f].zone # None => zone[found[f].zone] # None
       /\ pc[f] # "dropped" => /\ \A z \in owned[f] : View(f, z) # None
                               /\ target[f] # None =>
                                     View(f, target[f].zone) # None

FrameInv(f) == /\ Course(f) /\ Informed(f) /\ Aimed(f) /\ OwnedKnown(f)
               /\ Pending(f) /\ Early(f) /\ Intact(f)
FramesKept == \A f \in Frames : FrameInv(f)
Safe == ZonesBorn /\ DevicesPlaced /\ Committed /\ FramesKept
IInv == TypeOK /\ Safe

-----------------------------------------------------------------------------
(* Operators *)

LEMMA LeastIsLeast ==
  ASSUME NEW S \in SUBSET Zones, S # {}
  PROVE  Least(S) \in S /\ \A y \in S : Least(S) <= y
  <1>1. S \subseteq Nat /\ S \subseteq Int
    BY BoundsAssumption DEF Zones
  <1>2. PICK z \in S : \A y \in S : <<y, z>> \notin OpToRel(<, Nat)
    BY <1>1, WFMin, NatLessThanWellFounded
  <1>3. \A y \in S : ~ (y < z)
    <2> SUFFICES ASSUME NEW y \in S PROVE ~ (y < z)
      OBVIOUS
    <2>1. y \in Nat /\ z \in Nat
      BY <1>1
    <2>2. <<y, z>> \notin OpToRel(<, Nat)
      BY <1>2
    <2>3. y < z => <<y, z>> \in OpToRel(<, Nat)
      BY <2>1, Zenon DEF OpToRel
    <2>4. QED
      BY <2>2, <2>3
  <1>4. \A y \in S : z <= y
    BY <1>1, <1>3
  <1>5. QED
    BY <1>4 DEF Least

LEMMA RowOfType ==
  ASSUME NEW table \in [Devices -> DeviceRow \cup {None}], NEW s
  PROVE  /\ RowOf(table, s) \in FoundRow \cup {None}
         /\ RowOf(table, s) # None =>
               \E d \in Devices : /\ table[d] # None
                                  /\ RowOf(table, s).zone = table[d].zone
  <1> DEFINE ds == {d \in Devices : table[d] # None /\ table[d].serial = s}
  <1>1. CASE ds = {}
    BY <1>1 DEF RowOf
  <1>2. CASE ds # {}
    <2>1. PICK d \in ds : d = CHOOSE e \in ds : TRUE
      BY <1>2
    <2>2. RowOf(table, s) = [id |-> d, owner |-> table[d].owner,
                             zone |-> table[d].zone, active |-> table[d].active]
      BY <1>2, <2>1 DEF RowOf
    <2>3. table[d] \in DeviceRow
      OBVIOUS
    <2>4. QED
      BY <2>2, <2>3 DEF DeviceRow, FoundRow
  <1>3. QED
    BY <1>1, <1>2

LEMMA FrameFields ==
  ASSUME NEW f \in Frames
  PROVE  Kind(f) \in {"lora", "bivocom", "client"}
  BY FrameAssumption DEF FrameType, Kind

LEMMA VisibleType ==
  ASSUME TypeOK, NEW f \in Frames
  PROVE  Visible(f) \in FoundRow \cup {None}
  <1>1. txn[f].device \in FoundRow \cup {None}
    BY DEF TypeOK, Inserts
  <1>2. RowOf(device, Frame[f].serial) \in FoundRow \cup {None}
    BY RowOfType DEF TypeOK
  <1>3. QED
    BY <1>1, <1>2 DEF Visible

-----------------------------------------------------------------------------
(* Types *)

LEMMA TypeInit == Init => TypeOK
  <1> SUFFICES ASSUME Init PROVE TypeOK
    OBVIOUS
  <1>1. zone \in [Zones -> ZoneRow \cup {None}]
    BY DEF Init, ZoneRow, Owners
  <1>2. /\ device \in [Devices -> DeviceRow \cup {None}]
        /\ mapping \in [Devices -> [Tags -> MapRow \cup {None}]]
    <2>1. PICK t \in InitialTables : device = t.device /\ mapping = t.mapping
      BY DEF Init
    <2>2. t \in Tables
      BY <2>1, TableAssumption
    <2>3. QED
      BY <2>1, <2>2 DEF Tables
  <1>3. lastZone \in 0..MaxZones
    <2>1. Cardinality(Farmers) \in Nat /\ Cardinality(Farmers) <= MaxZones
      BY OwnerAssumption, FS_CardinalityType
    <2>2. QED
      BY <2>1, BoundsAssumption DEF Init
  <1>4. lastDevice \in 0..MaxDevices
    <2> DEFINE D == {d \in Devices : device[d] # None}
    <2>1. MaxDevices \in Nat
      BY BoundsAssumption
    <2>2. IsFiniteSet(Devices) /\ Cardinality(Devices) <= MaxDevices
      BY <2>1, FS_Interval DEF Devices
    <2>3. /\ D \in SUBSET Devices
          /\ Cardinality(D) <= Cardinality(Devices) /\ IsFiniteSet(D)
      BY <2>2, FS_Subset
    <2>4. Cardinality(D) \in Nat /\ Cardinality(Devices) \in Nat
      BY <2>2, <2>3, FS_CardinalityType
    <2>5. lastDevice = Cardinality(D)
      BY DEF Init
    <2> HIDE DEF D
    <2>6. QED
      BY <2>1, <2>2, <2>3, <2>4, <2>5
  <1>5. /\ goal \in [Frames -> {"register", "write", None}]
        /\ found \in [Frames -> FoundRow \cup {None}]
        /\ owned \in [Frames -> SUBSET Zones]
        /\ target \in [Frames -> Target \cup {None}]
        /\ seen \in [Frames -> SUBSET (FoundRow \cup {None})]
        /\ edits \in 0..MaxEdits /\ early \subseteq Frames
        /\ placeholder \in BOOLEAN /\ deleted \in BOOLEAN /\ reading \subseteq Reading
    <2>1. /\ goal = [f \in Frames |-> None] /\ found = [f \in Frames |-> None]
          /\ owned = [f \in Frames |-> {}] /\ target = [f \in Frames |-> None]
          /\ seen = [f \in Frames |-> {}] /\ edits = 0 /\ early = {}
          /\ placeholder = FALSE /\ deleted = FALSE /\ reading = {}
      BY DEF Init
    <2>2. edits \in 0..MaxEdits
      BY <2>1, BoundsAssumption
    <2>3. /\ goal \in [Frames -> {"register", "write", None}]
          /\ found \in [Frames -> FoundRow \cup {None}]
          /\ target \in [Frames -> Target \cup {None}]
      BY <2>1
    <2>4. /\ owned \in [Frames -> SUBSET Zones]
          /\ seen \in [Frames -> SUBSET (FoundRow \cup {None})]
      BY <2>1
    <2>5. /\ early \subseteq Frames /\ reading \subseteq Reading
          /\ placeholder \in BOOLEAN /\ deleted \in BOOLEAN
      BY <2>1
    <2>6. QED
      BY <2>2, <2>3, <2>4, <2>5
  <1>6. maps \in [Frames -> UNION {[T -> Zones \cup {None}] : T \in SUBSET Tags}]
    <2>1. [t \in {} |-> None] \in [{} -> Zones \cup {None}] /\ {} \in SUBSET Tags
      OBVIOUS
    <2>2. QED
      BY <2>1 DEF Init
  <1>7. txn \in [Frames -> Inserts]
    BY DEF Init, Inserts, NoInserts
  <1>8. pc \in [Frames -> Stages]
    <2>1. PICK burst \in Bursts :
            pc = [f \in Frames |-> IF f \in burst THEN "waiting" ELSE "absent"]
      BY DEF Init
    <2>2. QED
      BY <2>1 DEF Stages
  <1>9. QED
    BY <1>1, <1>2, <1>3, <1>4, <1>5, <1>6, <1>7, <1>8 DEF TypeOK

\* A frame that gives up keeps its types.
LEMMA DropType ==
  ASSUME TypeOK, NEW f \in Frames, Drop(f)
  PROVE  TypeOK'
  <1>1. NoInserts \in Inserts
    BY DEF NoInserts, Inserts
  <1>2. /\ txn' \in [Frames -> Inserts]
        /\ pc' \in [Frames -> Stages]
    BY <1>1 DEF Drop, TypeOK, Stages, Finished
  <1>3. QED
    BY <1>2 DEF Drop, TypeOK, tables, ids, history

\* The rows a serial has had are rows.
LEMMA BeginsType ==
  ASSUME TypeOK, NEW f \in Frames, Begins(f)
  PROVE  seen' \in [Frames -> SUBSET (FoundRow \cup {None})]
  <1>1. {RowOf(device, Frame[f].serial)} \in SUBSET (FoundRow \cup {None})
    BY RowOfType DEF TypeOK
  <1>2. QED
    BY <1>1 DEF Begins, TypeOK

LEMMA WatchedType ==
  ASSUME TypeOK, device' \in [Devices -> DeviceRow \cup {None}], Watched
  PROVE  seen' \in [Frames -> SUBSET (FoundRow \cup {None})]
  <1>1. ASSUME NEW f \in Frames
        PROVE  RowOf(device', Frame[f].serial) \in FoundRow \cup {None}
    BY RowOfType
  <1>2. QED
    BY <1>1 DEF Watched, TypeOK

LEMMA OnwardType ==
  ASSUME NEW f \in Frames, NEW v
  PROVE  Onward(f, v) \in {"commit", "write", "owner"}
  BY DEF Onward

\* The zones called `lora` that a frame sees.
LEMMA LoraZone ==
  ASSUME TypeOK, NEW f \in Frames, LoraZones(f) # {}, NEW z, z = Least(LoraZones(f))
  PROVE  /\ z \in Zones /\ View(f, z) # None
         /\ View(f, z).lora /\ OwnerOf(f, z) = View(f, z).owner
         /\ OwnerOf(f, z) \in Owners
  <1>1. txn[f].zones \in SUBSET Zones
    BY DEF TypeOK, Inserts
  <1>2. LoraZones(f) \in SUBSET Zones
    BY <1>1 DEF LoraZones
  <1>3. z \in LoraZones(f)
    BY <1>2, LeastIsLeast
  <1>4. CASE z \in txn[f].zones
    <2>1. View(f, z) = [owner |-> Lora, lora |-> TRUE] /\ OwnerOf(f, z) = Lora
      BY <1>4 DEF View, OwnerOf
    <2>2. View(f, z) \in ZoneRow
      BY <2>1 DEF ZoneRow, Owners
    <2>3. View(f, z) # None
      BY <2>2, NoneAssumption
    <2>4. QED
      BY <1>1, <1>4, <2>1, <2>3 DEF Owners
  <1>5. CASE z \notin txn[f].zones
    <2>1. /\ z \in Zones /\ zone[z] # None /\ zone[z].lora
      BY <1>3, <1>5 DEF LoraZones
    <2>2. View(f, z) = zone[z] /\ OwnerOf(f, z) = zone[z].owner
      BY <1>5 DEF View, OwnerOf
    <2>3. zone[z] \in ZoneRow
      BY <2>1 DEF TypeOK
    <2>4. zone[z].owner \in Owners
      BY <2>3 DEF ZoneRow
    <2>5. QED
      BY <2>1, <2>2, <2>4
  <1>6. QED
    BY <1>4, <1>5

LEMMA NextZone ==
  ASSUME TypeOK, lastZone < MaxZones
  PROVE  /\ lastZone \in Nat /\ lastZone + 1 \in Zones
         /\ lastZone + 1 \in 0..MaxZones
  BY BoundsAssumption DEF TypeOK, Zones

LEMMA NextDevice ==
  ASSUME TypeOK, lastDevice < MaxDevices
  PROVE  lastDevice + 1 \in Devices /\ lastDevice + 1 \in 0..MaxDevices
  BY BoundsAssumption DEF TypeOK, Devices

\* A handler that writes knows where to.
LEMMA DestinationType ==
  ASSUME TypeOK, NEW f \in Frames, Course(f), pc[f] = "write"
  PROVE  /\ Destination(f).user \in Owners /\ Destination(f).zone \in Zones
         /\ Placed(f) => /\ Destination(f).user = found[f].owner
                         /\ Destination(f).zone = found[f].zone
         /\ ~Placed(f) => target[f] # None /\ Destination(f) = target[f]
  <1>1. CASE Placed(f)
    <2>1. found[f] \in FoundRow /\ found[f].zone # None
      BY <1>1 DEF Placed, Assigned, TypeOK
    <2>2. found[f].owner \in Owners /\ found[f].zone \in Zones
      BY <2>1 DEF FoundRow
    <2>3. QED
      BY <1>1, <2>2 DEF Destination, Placed
  <1>2. CASE ~Placed(f)
    <2>1. target[f] \in Target /\ target[f] # None
      BY <1>2 DEF Course, TypeOK
    <2>2. QED
      BY <1>2, <2>1 DEF Destination, Placed, Target
  <1>3. QED
    BY <1>1, <1>2

\* What a transaction inserts keeps its type.
LEMMA InsertsType ==
  ASSUME TypeOK, NEW f \in Frames, NEW x \in SUBSET Zones,
         NEW v \in FoundRow \cup {None}, NEW rs \in SUBSET Reading
  PROVE  /\ [txn EXCEPT ![f].user = TRUE] \in [Frames -> Inserts]
         /\ [txn EXCEPT ![f].zones = x] \in [Frames -> Inserts]
         /\ [txn EXCEPT ![f].device = v] \in [Frames -> Inserts]
         /\ [txn EXCEPT ![f].readings = rs] \in [Frames -> Inserts]
  <1>1. txn \in [Frames -> Inserts] /\ txn[f] \in Inserts
    BY DEF TypeOK
  <1>2. /\ [txn[f] EXCEPT !.user = TRUE] \in Inserts
        /\ [txn[f] EXCEPT !.zones = x] \in Inserts
    BY <1>1 DEF Inserts
  <1>3. [txn[f] EXCEPT !.device = v] \in Inserts
    BY <1>1 DEF Inserts
  <1>4. [txn[f] EXCEPT !.readings = rs] \in Inserts
    BY <1>1 DEF Inserts
  <1>5. QED
    BY <1>1, <1>2, <1>3, <1>4

LEMMA TypeLora ==
  ASSUME TypeOK, NEW f \in Frames, Course(f),
         \/ Resolve(f) \/ FindOwner(f) \/ AddOwner(f) \/ OwnerTaken(f)
         \/ CatchAll(f) \/ Register(f) \/ ResolveAgain(f)
         \/ Write(f) \/ WriteRefused(f)
  PROVE  TypeOK'
  <1> USE DEF tables, ids, history
  <1>1. ASSUME Resolve(f) PROVE TypeOK'
    <2>1. /\ found' \in [Frames -> FoundRow \cup {None}]
          /\ goal' \in [Frames -> {"register", "write", None}]
      BY <1>1, VisibleType DEF Resolve, TypeOK
    <2>2. pc' \in [Frames -> Stages]
      BY <1>1, OnwardType DEF Resolve, TypeOK, Stages
    <2>3. seen' \in [Frames -> SUBSET (FoundRow \cup {None})]
      BY <1>1, BeginsType DEF Resolve
    <2>4. early' \subseteq Frames
      BY <1>1 DEF Resolve, TypeOK
    <2>5. QED
      BY <1>1, <2>1, <2>2, <2>3, <2>4 DEF Resolve, TypeOK
  <1>2. ASSUME FindOwner(f) PROVE TypeOK'
    BY <1>2 DEF FindOwner, TypeOK, Stages
  <1>3. ASSUME AddOwner(f) PROVE TypeOK'
    <2>1. txn' \in [Frames -> Inserts]
      BY <1>3, InsertsType DEF AddOwner
    <2>2. QED
      BY <1>3, <2>1 DEF AddOwner, TypeOK, Stages
  <1>4. ASSUME OwnerTaken(f) PROVE TypeOK'
    BY <1>4, DropType DEF OwnerTaken
  <1>5. ASSUME CatchAll(f) PROVE TypeOK'
    <2>1. goal[f] \in Stages
      BY <1>5 DEF CatchAll, Course, ForOwner, TypeOK, Stages
    <2>2. pc' \in [Frames -> Stages]
      BY <1>5, <2>1 DEF CatchAll, TypeOK
    <2>3. /\ target' \in [Frames -> Target \cup {None}]
          /\ txn' \in [Frames -> Inserts] /\ lastZone' \in 0..MaxZones
      <3>1. CASE LoraZones(f) # {}
        <4>1. PICK z \in Zones : z = Least(LoraZones(f)) /\ OwnerOf(f, z) \in Owners
          BY <3>1, LoraZone
        <4>2. [user |-> OwnerOf(f, z), zone |-> z] \in Target
          BY <4>1 DEF Target
        <4>3. QED
          BY <1>5, <3>1, <4>1, <4>2 DEF CatchAll, TypeOK
      <3>2. CASE LoraZones(f) = {}
        <4>1. /\ lastZone' = lastZone + 1 /\ lastZone < MaxZones
              /\ txn' = [txn EXCEPT ![f].zones = {lastZone + 1}]
              /\ target' = [target EXCEPT ![f] = [user |-> Lora,
                                                  zone |-> lastZone + 1]]
          BY <1>5, <3>2 DEF CatchAll
        <4>2. [user |-> Lora, zone |-> lastZone + 1] \in Target
          BY <4>1, NextZone DEF Target, Owners
        <4>3. txn' \in [Frames -> Inserts]
          <5>1. {lastZone + 1} \in SUBSET Zones
            BY <4>1, NextZone
          <5>2. [txn EXCEPT ![f].zones = {lastZone + 1}] \in [Frames -> Inserts]
            BY <5>1, InsertsType
          <5>3. QED
            BY <4>1, <5>2
        <4>4. QED
          BY <4>1, <4>2, <4>3, NextZone DEF TypeOK
      <3>3. QED
        BY <3>1, <3>2
    <2>4. QED
      BY <1>5, <2>2, <2>3 DEF CatchAll, TypeOK
  <1>6. ASSUME Register(f) PROVE TypeOK'
    <2>1. pc' \in [Frames -> Stages]
      BY <1>6 DEF Register, TypeOK, Stages
    <2>2. txn' \in [Frames -> Inserts] /\ lastDevice' \in 0..MaxDevices
      <3>1. CASE Taken(f)
        BY <1>6, <3>1 DEF Register, TypeOK
      <3>2. CASE ~Taken(f)
        <4>1. /\ lastDevice < MaxDevices /\ lastDevice' = lastDevice + 1
              /\ txn' = [txn EXCEPT ![f].device =
                           [id |-> lastDevice + 1, owner |-> target[f].user,
                            zone |-> None, active |-> TRUE]]
          BY <1>6, <3>2 DEF Register
        <4>2. target[f].user \in Owners
          BY <1>6 DEF Register, Course, TypeOK, Target
        <4>3. [id |-> lastDevice + 1, owner |-> target[f].user,
               zone |-> None, active |-> TRUE] \in FoundRow
          BY <4>1, <4>2, NextDevice DEF FoundRow
        <4>4. QED
          BY <4>1, <4>3, NextDevice, InsertsType
      <3>3. QED
        BY <3>1, <3>2
    <2>3. QED
      BY <1>6, <2>1, <2>2 DEF Register, TypeOK
  <1>7. ASSUME ResolveAgain(f) PROVE TypeOK'
    <2>1. /\ found' \in [Frames -> FoundRow \cup {None}]
          /\ goal' \in [Frames -> {"register", "write", None}]
      BY <1>7, VisibleType DEF ResolveAgain, TypeOK
    <2>2. pc' \in [Frames -> Stages]
      BY <1>7, OnwardType DEF ResolveAgain, TypeOK, Stages
    <2>3. QED
      BY <1>7, <2>1, <2>2 DEF ResolveAgain, TypeOK
  <1>8. ASSUME Write(f) PROVE TypeOK'
    <2>1. Destination(f).user \in Owners /\ Destination(f).zone \in Zones
      BY <1>8, DestinationType DEF Write
    <2>2. {[by |-> f, user |-> Destination(f).user,
            zone |-> Destination(f).zone]} \in SUBSET Reading
      BY <2>1 DEF Reading
    <2>3. txn' \in [Frames -> Inserts]
      BY <1>8, <2>2, InsertsType DEF Write
    <2>4. QED
      BY <1>8, <2>3 DEF Write, TypeOK, Stages
  <1>9. ASSUME WriteRefused(f) PROVE TypeOK'
    BY <1>9, DropType DEF WriteRefused
  <1>10. QED
    BY <1>1, <1>2, <1>3, <1>4, <1>5, <1>6, <1>7, <1>8, <1>9
LEMMA TypeBivocom ==
  ASSUME TypeOK, NEW f \in Frames, Course(f),
         \/ Look(f) \/ ReadMappings(f) \/ ReadOwners(f)
         \/ WriteTags(f) \/ TagsRefused(f)
  PROVE  TypeOK'
  <1> USE DEF tables, ids, history
  <1>1. ASSUME Look(f) PROVE TypeOK'
    <2>1. found' \in [Frames -> FoundRow \cup {None}]
      BY <1>1, VisibleType DEF Look, TypeOK
    <2>2. pc' \in [Frames -> Stages]
      BY <1>1 DEF Look, TypeOK, Stages, Finished
    <2>3. seen' \in [Frames -> SUBSET (FoundRow \cup {None})]
      BY <1>1, BeginsType DEF Look
    <2>4. QED
      BY <1>1, <2>1, <2>2, <2>3 DEF Look, TypeOK
  <1>2. ASSUME ReadMappings(f) PROVE TypeOK'
    <2>1. found[f].id \in Devices
      BY <1>2 DEF ReadMappings, Course, TypeOK, FoundRow
    <2>2. maps' \in [Frames ->
                       UNION {[T -> Zones \cup {None}] : T \in SUBSET Tags}]
      <3> DEFINE row == mapping[found[f].id]
                 on  == {t \in Tags : row[t] # None /\ row[t].active}
      <3>1. maps' = [maps EXCEPT ![f] = [t \in on |-> row[t].zone]]
        BY <1>2 DEF ReadMappings
      <3>2. row \in [Tags -> MapRow \cup {None}]
        BY <2>1 DEF TypeOK
      <3>3. ASSUME NEW t \in on PROVE row[t].zone \in Zones \cup {None}
        BY <3>2 DEF MapRow
      <3>4. [t \in on |-> row[t].zone] \in [on -> Zones \cup {None}]
        BY <3>3
      <3>5. on \in SUBSET Tags
        OBVIOUS
      <3> HIDE DEF on, row
      <3>6. QED
        BY <3>1, <3>4, <3>5 DEF TypeOK
    <2>3. pc' \in [Frames -> Stages]
      BY <1>2 DEF ReadMappings, TypeOK, Stages
    <2>4. QED
      BY <1>2, <2>2, <2>3 DEF ReadMappings, TypeOK
  <1>3. ASSUME ReadOwners(f) PROVE TypeOK'
    BY <1>3 DEF ReadOwners, ZonesOf, TypeOK, Stages
  <1>4. ASSUME WriteTags(f) PROVE TypeOK'
    <2>1. {[by |-> f, user |-> found[f].owner, zone |-> z] : z \in Fed(f)}
             \in SUBSET Reading
      <3>1. found[f].owner \in Owners
        BY <1>4 DEF WriteTags, Course, TypeOK, FoundRow
      <3>2. Fed(f) \subseteq Zones
        BY DEF Fed, TypeOK
      <3>3. QED
        BY <3>1, <3>2 DEF Reading
    <2>2. txn' \in [Frames -> Inserts]
      BY <1>4, <2>1, InsertsType DEF WriteTags
    <2>3. QED
      BY <1>4, <2>2 DEF WriteTags, TypeOK, Stages
  <1>5. ASSUME TagsRefused(f) PROVE TypeOK'
    BY <1>5, DropType DEF TagsRefused
  <1>6. QED
    BY <1>1, <1>2, <1>3, <1>4, <1>5

LEMMA TypeClient ==
  ASSUME TypeOK, NEW f \in Frames, sensor_ingest(f) \/ first_zone_for(f)
  PROVE  TypeOK'
  <1> USE DEF tables, ids, history
  <1>1. ASSUME sensor_ingest(f) PROVE TypeOK'
    <2>1. seen' \in [Frames -> SUBSET (FoundRow \cup {None})]
      BY <1>1, BeginsType DEF sensor_ingest
    <2>2. pc' \in [Frames -> Stages]
      BY <1>1 DEF sensor_ingest, TypeOK, Stages, Finished
    <2>3. QED
      BY <1>1, <2>1, <2>2 DEF sensor_ingest, TypeOK
  <1>2. ASSUME first_zone_for(f) PROVE TypeOK'
    <2> DEFINE own == ZonesOf(Frame[f].client)
    <2>1. pc' \in [Frames -> Stages]
      <3>1. \E s \in {"rejected", "write"} : pc' = [pc EXCEPT ![f] = s]
        BY <1>2 DEF first_zone_for
      <3>2. pc \in [Frames -> Stages] /\ {"rejected", "write"} \subseteq Stages
        BY DEF TypeOK, Stages, Finished
      <3>3. QED
        BY <3>1, <3>2
    <2>2. target' \in [Frames -> Target \cup {None}]
      <3>1. CASE own = {}
        BY <1>2, <3>1 DEF first_zone_for, TypeOK
      <3>2. CASE own # {}
        <4>1. own \in SUBSET Zones
          BY DEF ZonesOf
        <4>2. Least(own) \in own
          BY <3>2, <4>1, LeastIsLeast
        <4>3. Least(own) \in Zones /\ Frame[f].client \in Owners
          BY <4>2 DEF ZonesOf, TypeOK, ZoneRow
        <4>4. [user |-> Frame[f].client, zone |-> Least(own)] \in Target
          BY <4>3 DEF Target
        <4>5. QED
          BY <1>2, <3>2, <4>4 DEF first_zone_for, TypeOK
      <3>3. QED
        BY <3>1, <3>2
    <2>3. QED
      BY <1>2, <2>1, <2>2 DEF first_zone_for, TypeOK
  <1>3. QED
    BY <1>1, <1>2

LEMMA TypeCommit ==
  ASSUME TypeOK, NEW f \in Frames, Course(f), Commit(f)
  PROVE  TypeOK'
  <1> USE DEF ids
  <1>1. txn[f] \in Inserts
    BY DEF TypeOK
  <1>2. zone' \in [Zones -> ZoneRow \cup {None}]
    <2>1. [owner |-> Lora, lora |-> TRUE] \in ZoneRow
      BY DEF ZoneRow, Owners
    <2>2. QED
      BY <2>1 DEF Commit, TypeOK
  <1>3. device' \in [Devices -> DeviceRow \cup {None}]
    <2>1. CASE txn[f].device = None
      BY <2>1 DEF Commit, TypeOK
    <2>2. CASE txn[f].device # None
      <3>1. txn[f].device \in FoundRow
        BY <1>1, <2>2 DEF Inserts
      <3>2. [serial |-> Frame[f].serial, owner |-> txn[f].device.owner,
             zone |-> None, active |-> TRUE] \in DeviceRow
        <4>1. Frame[f].serial \in Serials
          BY <2>2, FrameAssumption DEF Course, Kind, FrameType
        <4>2. QED
          BY <3>1, <4>1 DEF FoundRow, DeviceRow
      <3>3. QED
        BY <2>2, <3>2 DEF Commit, TypeOK
    <2>3. QED
      BY <2>1, <2>2
  <1>4. /\ reading' \subseteq Reading
        /\ placeholder' \in BOOLEAN
    BY <1>1 DEF Commit, TypeOK, Inserts
  <1>5. txn' \in [Frames -> Inserts] /\ pc' \in [Frames -> Stages]
    <2>1. NoInserts \in Inserts
      BY DEF NoInserts, Inserts
    <2>2. QED
      BY <2>1 DEF Commit, TypeOK, Stages, Finished
  <1>6. seen' \in [Frames -> SUBSET (FoundRow \cup {None})]
    BY <1>3, WatchedType DEF Commit
  <1>7. QED
    BY <1>2, <1>3, <1>4, <1>5, <1>6 DEF Commit, TypeOK

LEMMA TypeHandle ==
  ASSUME TypeOK, NEW f \in Frames, Course(f), Handle(f)
  PROVE  TypeOK'
  BY TypeLora, TypeBivocom, TypeClient, TypeCommit DEF Handle
\* What an administrator leaves alone keeps its type.
LEMMA EditType ==
  ASSUME TypeOK, Edit, Watched \/ UNCHANGED seen,
         zone' \in [Zones -> ZoneRow \cup {None}],
         device' \in [Devices -> DeviceRow \cup {None}],
         mapping' \in [Devices -> [Tags -> MapRow \cup {None}]],
         lastZone' \in 0..MaxZones, lastDevice' \in 0..MaxDevices,
         deleted' \in BOOLEAN
  PROVE  TypeOK'
  <1>1. edits' \in 0..MaxEdits
    BY BoundsAssumption DEF Edit, TypeOK
  <1>2. seen' \in [Frames -> SUBSET (FoundRow \cup {None})]
    BY WatchedType DEF TypeOK
  <1>3. QED
    BY <1>1, <1>2 DEF Edit, locals, TypeOK

LEMMA TypeDevices ==
  ASSUME TypeOK,
         \/ \E s \in Serials, u \in Owners, z \in Zones \cup {None} :
              CreateDevice(s, u, z)
         \/ \E d \in Devices, u \in Owners \cup {None}, z \in Zones \cup {None} :
              Transfer(d, u, z)
         \/ \E d \in Devices : Switch(d) \/ DeleteDevice(d)
         \/ \E d \in Devices, s \in Serials : Rename(d, s)
         \/ \E D \in SUBSET Devices, u \in Owners, z \in Zones :
              BulkAssign(D, u, z)
  PROVE  TypeOK'
  <1> USE DEF ids
  <1> DEFINE Rows == [Devices -> DeviceRow \cup {None}]
  <1>1. ASSUME NEW s \in Serials, NEW u \in Owners, NEW z \in Zones \cup {None},
               CreateDevice(s, u, z)
        PROVE  TypeOK'
    <2>1. [serial |-> s, owner |-> u, zone |-> z, active |-> TRUE] \in DeviceRow
      BY DEF DeviceRow
    <2>2. device' \in Rows /\ lastDevice' \in 0..MaxDevices
      BY <1>1, <2>1, NextDevice DEF CreateDevice, TypeOK
    <2>3. QED
      BY <1>1, <2>2, EditType DEF CreateDevice, TypeOK
  <1>2. ASSUME NEW d \in Devices, NEW u \in Owners \cup {None},
               NEW z \in Zones \cup {None}, Transfer(d, u, z)
        PROVE  TypeOK'
    <2>1. device' \in Rows
      <3> DEFINE row == [device[d] EXCEPT !.owner = IF u # None THEN u ELSE @,
                                      !.zone = IF z # None THEN z ELSE @]
      <3>1. device[d] \in DeviceRow
        BY <1>2 DEF Transfer, TypeOK
      <3>2. row \in DeviceRow
        BY <3>1 DEF DeviceRow
      <3>3. device' = [device EXCEPT ![d] = row]
        BY <1>2 DEF Transfer, TypeOK
      <3>4. QED
        BY <3>2, <3>3 DEF TypeOK
    <2>2. QED
      BY <1>2, <2>1, EditType DEF Transfer, TypeOK
  <1>3. ASSUME NEW d \in Devices, Switch(d) PROVE TypeOK'
    <2>1. device' \in Rows
      <3> DEFINE row == [device[d] EXCEPT !.active = ~@]
      <3>1. device[d] \in DeviceRow
        BY <1>3 DEF Switch, TypeOK
      <3>2. row \in DeviceRow
        BY <3>1 DEF DeviceRow
      <3>3. device' = [device EXCEPT ![d] = row]
        BY <1>3 DEF Switch, TypeOK
      <3>4. QED
        BY <3>2, <3>3 DEF TypeOK
    <2>2. QED
      BY <1>3, <2>1, EditType DEF Switch, TypeOK
  <1>4. ASSUME NEW d \in Devices, DeleteDevice(d) PROVE TypeOK'
    <2>1. device' \in Rows
      BY <1>4 DEF DeleteDevice, TypeOK
    <2>2. mapping' \in [Devices -> [Tags -> MapRow \cup {None}]]
      BY <1>4 DEF DeleteDevice, TypeOK
    <2>3. QED
      BY <1>4, <2>1, <2>2, EditType DEF DeleteDevice, TypeOK
  <1>5. ASSUME NEW d \in Devices, NEW s \in Serials, Rename(d, s) PROVE TypeOK'
    <2>1. device' \in Rows
      <3> DEFINE row == [device[d] EXCEPT !.serial = s]
      <3>1. device[d] \in DeviceRow
        BY <1>5 DEF Rename, TypeOK
      <3>2. row \in DeviceRow
        BY <3>1 DEF DeviceRow
      <3>3. device' = [device EXCEPT ![d] = row]
        BY <1>5 DEF Rename, TypeOK
      <3>4. QED
        BY <3>2, <3>3 DEF TypeOK
    <2>2. QED
      BY <1>5, <2>1, EditType DEF Rename, TypeOK
  <1>6. ASSUME NEW D \in SUBSET Devices, NEW u \in Owners, NEW z \in Zones,
               BulkAssign(D, u, z)
        PROVE  TypeOK'
    <2>1. device' \in Rows
      <3>1. ASSUME NEW d \in D
            PROVE  [device[d] EXCEPT !.owner = u, !.zone = z] \in DeviceRow
        <4>1. device[d] \in DeviceRow
          BY <1>6 DEF BulkAssign, TypeOK
        <4>2. QED
          BY <4>1 DEF DeviceRow, Owners
      <3>2. QED
        BY <1>6, <3>1 DEF BulkAssign, TypeOK
    <2>2. QED
      BY <1>6, <2>1, EditType DEF BulkAssign, TypeOK
  <1>7. QED
    BY <1>1, <1>2, <1>3, <1>4, <1>5, <1>6

LEMMA TypeMappings ==
  ASSUME TypeOK, NEW d \in Devices, NEW t \in Tags, NEW z \in Zones \cup {None},
         \/ Attach(d, t, z) \/ Remap(d, t, z) \/ SwitchMap(d, t) \/ Detach(d, t)
  PROVE  TypeOK'
  <1> DEFINE Rows == [Devices -> [Tags -> MapRow \cup {None}]]
  <1> USE DEF ids
  <1>1. ASSUME Attach(d, t, z) PROVE TypeOK'
    <2>1. [zone |-> z, active |-> TRUE] \in MapRow
      BY DEF MapRow
    <2>2. mapping' \in Rows
      BY <1>1, <2>1 DEF Attach, TypeOK
    <2>3. QED
      BY <1>1, <2>2, EditType DEF Attach, TypeOK
  <1>2. ASSUME Remap(d, t, z) PROVE TypeOK'
    <2>1. mapping' \in Rows
      BY <1>2 DEF Remap, TypeOK, MapRow
    <2>2. QED
      BY <1>2, <2>1, EditType DEF Remap, TypeOK
  <1>3. ASSUME SwitchMap(d, t) PROVE TypeOK'
    <2>1. mapping' \in Rows
      <3> DEFINE row == [mapping[d][t] EXCEPT !.active = ~@]
      <3>1. mapping[d][t] \in MapRow
        BY <1>3 DEF SwitchMap, TypeOK
      <3>2. row \in MapRow
        BY <3>1 DEF MapRow
      <3>3. mapping' = [mapping EXCEPT ![d] = [mapping[d] EXCEPT ![t] = row]]
        BY <1>3 DEF SwitchMap, TypeOK
      <3>4. QED
        BY <3>2, <3>3 DEF TypeOK
    <2>2. QED
      BY <1>3, <2>1, EditType DEF SwitchMap, TypeOK
  <1>4. ASSUME Detach(d, t) PROVE TypeOK'
    <2>1. mapping' \in Rows
      BY <1>4 DEF Detach, TypeOK
    <2>2. QED
      BY <1>4, <2>1, EditType DEF Detach, TypeOK
  <1>5. QED
    BY <1>1, <1>2, <1>3, <1>4

LEMMA TypeZones ==
  ASSUME TypeOK,
         \/ \E u \in Farmers, named \in BOOLEAN : CreateZone(u, named)
         \/ \E z \in Zones : DeleteZone(z)
  PROVE  TypeOK'
  <1> USE DEF ids
  <1>1. ASSUME NEW u \in Farmers, NEW named \in BOOLEAN, CreateZone(u, named)
        PROVE  TypeOK'
    <2>1. [owner |-> u, lora |-> named] \in ZoneRow
      BY DEF ZoneRow, Owners
    <2>2. zone' \in [Zones -> ZoneRow \cup {None}] /\ lastZone' \in 0..MaxZones
      BY <1>1, <2>1, NextZone DEF CreateZone, TypeOK
    <2>3. QED
      BY <1>1, <2>2, EditType DEF CreateZone, TypeOK
  <1>2. ASSUME NEW z \in Zones, DeleteZone(z) PROVE TypeOK'
    <2>1. zone' \in [Zones -> ZoneRow \cup {None}]
      BY <1>2 DEF DeleteZone, TypeOK
    <2>2. QED
      BY <1>2, <2>1, EditType DEF DeleteZone, TypeOK
  <1>3. QED
    BY <1>1, <1>2

LEMMA TypeNext == IInv /\ [Next]_vars => TypeOK'
  <1> SUFFICES ASSUME IInv, [Next]_vars PROVE TypeOK'
    OBVIOUS
  <1>1. TypeOK /\ \A f \in Frames : Course(f)
    BY DEF IInv, Safe, FramesKept, FrameInv
  <1>2. ASSUME NEW f \in Frames, Handle(f) PROVE TypeOK'
    BY <1>1, <1>2, TypeHandle
  <1>3. ASSUME Administer PROVE TypeOK'
    <2>1. ASSUME NEW d \in Devices, NEW t \in Tags, SwitchMap(d, t) \/ Detach(d, t)
          PROVE  TypeOK'
      BY <1>1, <2>1, TypeMappings
    <2>2. QED
      BY <1>1, <1>3, <2>1, TypeDevices, TypeMappings, TypeZones DEF Administer
  <1>4. CASE UNCHANGED vars
    BY <1>1, <1>4 DEF vars, tables, ids, locals, history, TypeOK
  <1>5. QED
    BY <1>2, <1>3, <1>4 DEF Next
-----------------------------------------------------------------------------
(* What a step does to the zones *)

\* A zone is gone for a frame: it was created in a transaction that was rolled
\* back, or an administrator deleted it, which no reading of it forbade.
Lost(f, z) ==
    /\ View(f, z)' = None
    /\ \/ pc'[f] = "dropped"
       \/ deleted' /\ \A r \in reading \cup txn[f].readings : r.zone # z

\* The zone of an id that is known stays what it is or is lost; an account
\* gets no zone but one with a new id.
ZonesMove ==
    /\ ZonesBorn'
    /\ \A f \in Frames : \A z \in Known(f) :
          z \in Known(f)' /\ (View(f, z)' = View(f, z) \/ Lost(f, z))
    /\ \A u \in Farmers : \A y \in ZonesOf(u)' : y \in ZonesOf(u) \/ y > lastZone
    /\ \A z \in Zones : zone[z] # None /\ ~deleted' => zone'[z] # None

LEMMA ZoneSets ==
  ASSUME TypeOK
  PROVE  /\ lastZone \in Nat /\ lastZone <= MaxZones /\ MaxZones \in Nat
         /\ zone \in [Zones -> ZoneRow \cup {None}]
         /\ \A f \in Frames : txn[f].zones \subseteq Zones
         /\ \A z \in Zones : z \in Nat /\ 1 <= z /\ z <= MaxZones
  BY BoundsAssumption DEF TypeOK, Inserts, Zones

\* No zone is touched.
LEMMA ZonesStill ==
  ASSUME IInv, UNCHANGED <<zone, lastZone>>,
         \A f \in Frames : txn'[f].zones = txn[f].zones
  PROVE  ZonesMove
  <1>1. Settled' = Settled
    BY DEF Settled
  <1>2. ZonesBorn'
    BY <1>1 DEF IInv, Safe, ZonesBorn
  <1>3. \A f \in Frames : Known(f)' = Known(f) /\ \A z : View(f, z)' = View(f, z)
    BY <1>1 DEF Known, View
  <1>4. \A u : ZonesOf(u)' = ZonesOf(u)
    BY DEF ZonesOf
  <1>5. QED
    BY <1>2, <1>3, <1>4 DEF ZonesMove

\* The ids of a transaction that is rolled back are settled, without a zone.
LEMMA ZonesDrop ==
  ASSUME IInv, NEW f \in Frames, Drop(f)
  PROVE  ZonesMove
  <1>1. /\ UNCHANGED <<zone, lastZone>> /\ txn'[f].zones = {}
        /\ pc'[f] = "dropped"
        /\ \A g \in Frames \ {f} : txn'[g].zones = txn[g].zones
    BY DEF Drop, IInv, TypeOK, tables, ids, NoInserts
  <1>2. \A z \in txn[f].zones : z \in 1..lastZone /\ zone[z] = None
    BY ZoneSets DEF IInv, Safe, ZonesBorn, Settled
  <1>3. Settled' = Settled \cup txn[f].zones
    BY <1>1, <1>2, ZoneSets DEF IInv, Safe, ZonesBorn, Settled
  <1>4. ZonesBorn'
    BY <1>1, <1>3 DEF IInv, Safe, ZonesBorn
  <1>5. ASSUME NEW g \in Frames, NEW z \in Known(g)
        PROVE  z \in Known(g)' /\ (View(g, z)' = View(g, z) \/ Lost(g, z))
    <2>1. CASE g = f
      BY <1>1, <1>2, <1>3, <1>5, <2>1 DEF Known, View, Lost
    <2>2. CASE g # f
      BY <1>1, <1>3, <1>5, <2>2 DEF Known, View
    <2>3. QED
      BY <2>1, <2>2
  <1>6. \A u : ZonesOf(u)' = ZonesOf(u)
    BY <1>1 DEF ZonesOf
  <1>7. QED
    BY <1>1, <1>4, <1>5, <1>6 DEF ZonesMove

\* A new id is of the transaction that takes it.
LEMMA ZonesCatchAll ==
  ASSUME IInv, NEW f \in Frames, CatchAll(f)
  PROVE  ZonesMove
  <1>1. CASE LoraZones(f) # {}
    <2>1. UNCHANGED <<zone, lastZone, txn>>
      BY <1>1 DEF CatchAll, tables
    <2>2. QED
      BY <2>1, ZonesStill
  <1>2. CASE LoraZones(f) = {}
    <2>1. /\ zone' = zone /\ lastZone' = lastZone + 1
          /\ txn'[f].zones = {lastZone + 1} /\ txn[f].zones = {}
          /\ \A g \in Frames \ {f} : txn'[g].zones = txn[g].zones
      BY <1>2 DEF CatchAll, tables, LoraZones, IInv, TypeOK, Inserts
    <2>2. \A g \in Frames : \A z \in txn[g].zones : z \in Nat /\ z <= lastZone
      BY ZoneSets DEF IInv, Safe, ZonesBorn
    <2>3. Settled' = Settled
      BY <2>1, <2>2, ZoneSets DEF IInv, Settled
    <2>4. ZonesBorn'
      <3>1. \A g \in Frames : \A z \in txn'[g].zones :
              z <= lastZone' /\ \A h \in Frames : z \in txn'[h].zones => h = g
        BY <2>1, <2>2, ZoneSets DEF IInv, Safe, ZonesBorn
      <3>2. QED
        BY <2>1, <2>3, <3>1 DEF IInv, Safe, ZonesBorn
    <2>5. ASSUME NEW g \in Frames, NEW z \in Known(g)
          PROVE  z \in Known(g)' /\ View(g, z)' = View(g, z)
      <3>1. CASE g = f
        <4>1. z \in Settled /\ z # lastZone + 1
          BY <2>1, <2>5, <3>1, ZoneSets DEF Known, Settled, IInv
        <4>2. QED
          BY <2>1, <2>3, <3>1, <4>1 DEF Known, View
      <3>2. CASE g # f
        BY <2>1, <2>3, <2>5, <3>2 DEF Known, View
      <3>3. QED
        BY <3>1, <3>2
    <2>6. \A u : ZonesOf(u)' = ZonesOf(u)
      BY <2>1 DEF ZonesOf
    <2>7. QED
      BY <2>1, <2>4, <2>5, <2>6 DEF ZonesMove
  <1>3. QED
    BY <1>1, <1>2

\* What a transaction saw under its ids is what it commits.
LEMMA ZonesCommit ==
  ASSUME IInv, NEW f \in Frames, Commit(f)
  PROVE  ZonesMove
  <1> DEFINE own == txn[f].zones
  <1>1. /\ zone' = [z \in Zones |-> IF z \in own THEN [owner |-> Lora, lora |-> TRUE]
                                   ELSE zone[z]]
        /\ lastZone' = lastZone /\ txn'[f].zones = {}
        /\ \A g \in Frames \ {f} : txn'[g].zones = txn[g].zones
    BY DEF Commit, IInv, TypeOK, ids, NoInserts
  <1>2. \A z \in own : z \in Zones /\ z \in 1..lastZone /\ zone[z] = None
    BY ZoneSets DEF IInv, Safe, ZonesBorn, Settled
  <1>3. \A g \in Frames \ {f} : own \cap txn[g].zones = {}
    BY DEF IInv, Safe, ZonesBorn
  <1>4. Settled' = Settled \cup own
    BY <1>1, <1>2, <1>3, ZoneSets DEF IInv, Settled
  <1>5. ZonesBorn'
    BY <1>1, <1>2, <1>4 DEF IInv, Safe, ZonesBorn
  <1>6. Settled \subseteq Zones /\ Settled \cap own = {}
    BY ZoneSets DEF IInv, Settled, Zones
  <1>7. ASSUME NEW g \in Frames, NEW z \in Known(g)
        PROVE  z \in Known(g)' /\ View(g, z)' = View(g, z)
    <2>1. CASE g = f
      BY <1>1, <1>2, <1>4, <1>6, <1>7, <2>1 DEF Known, View
    <2>2. CASE g # f
      <3>1. z \notin own /\ txn'[g].zones = txn[g].zones
        BY <1>1, <1>3, <1>6, <1>7, <2>2 DEF Known
      <3>2. z \in Zones
        BY <1>6, <1>7, ZoneSets DEF Known, IInv
      <3>3. QED
        BY <1>1, <1>4, <1>7, <3>1, <3>2 DEF Known, View
    <2>3. QED
      BY <2>1, <2>2
  <1>8. \A u \in Farmers : \A y \in ZonesOf(u)' : y \in ZonesOf(u)
    <2> SUFFICES ASSUME NEW u \in Farmers, NEW y \in ZonesOf(u)'
                 PROVE  y \in ZonesOf(u)
      OBVIOUS
    <2>1. y \in Zones /\ zone'[y] # None /\ zone'[y].owner = u
      BY DEF ZonesOf
    <2>2. y \notin own
      BY <1>1, <2>1, OwnerAssumption
    <2>3. QED
      BY <1>1, <2>1, <2>2 DEF ZonesOf
  <1>9. \A z \in Zones : zone[z] # None => zone'[z] # None
    BY <1>1, <1>2
  <1>10. QED
    BY <1>5, <1>7, <1>8, <1>9 DEF ZonesMove

LEMMA ZonesCreate ==
  ASSUME IInv, NEW u \in Farmers, NEW named \in BOOLEAN, CreateZone(u, named)
  PROVE  ZonesMove
  <1> DEFINE new == lastZone + 1
  <1>1. /\ zone' = [zone EXCEPT ![new] = [owner |-> u, lora |-> named]]
        /\ lastZone' = new /\ txn' = txn /\ lastZone < MaxZones
    BY DEF CreateZone, Edit, locals
  <1>2. new \in Zones /\ lastZone \in Nat
    BY <1>1, NextZone DEF IInv
  <1>3. \A g \in Frames : new \notin txn[g].zones
    BY <1>2, ZoneSets DEF IInv, Safe, ZonesBorn
  <1>4. Settled' = Settled \cup {new} /\ new \notin Settled
    BY <1>1, <1>2, <1>3 DEF Settled
  <1>5. \A z \in Zones \ {new} : zone'[z] = zone[z]
    BY <1>1, ZoneSets DEF IInv
  <1>6. ZonesBorn'
    <2>1. \A z \in Zones : zone'[z] # None => z \in Settled'
      BY <1>4, <1>5 DEF IInv, Safe, ZonesBorn
    <2>2. \A f \in Frames : \A z \in txn[f].zones : z <= new
      BY <1>2, ZoneSets DEF IInv, Safe, ZonesBorn
    <2>3. QED
      BY <1>1, <2>1, <2>2 DEF IInv, Safe, ZonesBorn
  <1>7. ASSUME NEW g \in Frames, NEW z \in Known(g)
        PROVE  z \in Known(g)' /\ View(g, z)' = View(g, z)
    <2>1. z \in Zones /\ z # new
      BY <1>3, <1>4, <1>7, ZoneSets DEF Known, Settled, Zones, IInv
    <2>2. QED
      BY <1>1, <1>4, <1>5, <1>7, <2>1 DEF Known, View
  <1>8. \A v \in Farmers : \A y \in ZonesOf(v)' : y \in ZonesOf(v) \/ y > lastZone
    BY <1>2, <1>5 DEF ZonesOf
  <1>9. \A z \in Zones : zone[z] # None => zone'[z] # None
    <2>1. zone[new] = None
      BY <1>2, <1>4 DEF IInv, Safe, ZonesBorn
    <2>2. QED
      BY <1>5, <2>1
  <1>10. QED
    BY <1>6, <1>7, <1>8, <1>9 DEF ZonesMove

LEMMA ZonesDelete ==
  ASSUME IInv, NEW z \in Zones, DeleteZone(z)
  PROVE  ZonesMove
  <1>1. /\ zone' = [zone EXCEPT ![z] = None] /\ deleted' = TRUE
        /\ txn' = txn /\ lastZone' = lastZone
        /\ \A f \in Frames : \A r \in reading \cup txn[f].readings : r.zone # z
    BY DEF DeleteZone, Edit, locals, ids
  <1>2. zone'[z] = None /\ \A y \in Zones \ {z} : zone'[y] = zone[y]
    BY <1>1, ZoneSets DEF IInv
  <1>3. Settled' = Settled
    BY <1>1 DEF Settled
  <1>4. ZonesBorn'
    BY <1>1, <1>2, <1>3 DEF IInv, Safe, ZonesBorn
  <1>5. ASSUME NEW f \in Frames, NEW y \in Known(f)
        PROVE  y \in Known(f)' /\ (View(f, y)' = View(f, y) \/ Lost(f, y))
    <2>1. y \in Known(f)' /\ txn'[f].zones = txn[f].zones
      BY <1>1, <1>3, <1>5 DEF Known
    <2>2. y \in Zones
      BY <1>5, ZoneSets DEF Known, Settled, Zones, IInv
    <2>3. CASE y \in txn[f].zones
      BY <2>1, <2>3 DEF View
    <2>4. CASE y \notin txn[f].zones
      BY <1>1, <1>2, <2>1, <2>2, <2>4 DEF View, Lost
    <2>5. QED
      BY <2>1, <2>3, <2>4
  <1>6. \A u : \A y \in ZonesOf(u)' : y \in ZonesOf(u)
    BY <1>2 DEF ZonesOf
  <1>7. QED
    BY <1>1, <1>4, <1>5, <1>6 DEF ZonesMove
LEMMA ZonesNext == IInv /\ [Next]_vars => ZonesMove
  <1> SUFFICES ASSUME IInv, [Next]_vars PROVE ZonesMove
    OBVIOUS
  <1> USE DEF tables, ids
  <1>1. ASSUME NEW f \in Frames, Handle(f) PROVE ZonesMove
    <2>1. CASE OwnerTaken(f) \/ WriteRefused(f) \/ TagsRefused(f)
      BY <2>1, ZonesDrop DEF OwnerTaken, WriteRefused, TagsRefused
    <2>2. CASE CatchAll(f)
      BY <2>2, ZonesCatchAll
    <2>3. CASE Commit(f)
      BY <2>3, ZonesCommit
    <2>4. CASE AddOwner(f)
      <3>1. txn' = [txn EXCEPT ![f].user = TRUE] /\ UNCHANGED <<zone, lastZone>>
        BY <2>4 DEF AddOwner
      <3>2. \A g \in Frames : txn'[g].zones = txn[g].zones
        BY <3>1 DEF IInv, TypeOK, Inserts
      <3>3. QED
        BY <3>1, <3>2, ZonesStill
    <2>5. CASE Register(f)
      <3>1. UNCHANGED <<zone, lastZone>>
        BY <2>5 DEF Register
      <3>2. txn' = txn \/ \E d : txn' = [txn EXCEPT ![f].device = d]
        BY <2>5 DEF Register
      <3>3. \A g \in Frames : txn'[g].zones = txn[g].zones
        BY <3>2 DEF IInv, TypeOK, Inserts
      <3>4. QED
        BY <3>1, <3>3, ZonesStill
    <2>6. CASE Write(f) \/ WriteTags(f)
      <3>1. /\ UNCHANGED <<zone, lastZone>>
            /\ \E R : txn' = [txn EXCEPT ![f].readings = R]
        BY <2>6 DEF Write, WriteTags
      <3>2. \A g \in Frames : txn'[g].zones = txn[g].zones
        BY <3>1 DEF IInv, TypeOK, Inserts
      <3>3. QED
        BY <3>1, <3>2, ZonesStill
    <2>7. CASE Resolve(f) \/ FindOwner(f) \/ ResolveAgain(f)
      BY <2>7, ZonesStill DEF Resolve, FindOwner, ResolveAgain
    <2>8. CASE Look(f) \/ ReadMappings(f) \/ ReadOwners(f)
      BY <2>8, ZonesStill DEF Look, ReadMappings, ReadOwners
    <2>9. CASE sensor_ingest(f) \/ first_zone_for(f)
      BY <2>9, ZonesStill DEF sensor_ingest, first_zone_for
    <2>10. QED
      BY <1>1, <2>1, <2>2, <2>3, <2>4, <2>5, <2>6, <2>7, <2>8, <2>9 DEF Handle
  <1>2. ASSUME Administer PROVE ZonesMove
    <2> USE DEF Edit, locals
    <2>1. ASSUME NEW s \in Serials, NEW u \in Owners, NEW z \in Zones \cup {None},
                 CreateDevice(s, u, z)
          PROVE  ZonesMove
      BY <2>1, ZonesStill DEF CreateDevice
    <2>2. ASSUME NEW d \in Devices, NEW u \in Owners \cup {None},
                 NEW z \in Zones \cup {None}, Transfer(d, u, z)
          PROVE  ZonesMove
      BY <2>2, ZonesStill DEF Transfer
    <2>3. ASSUME NEW d \in Devices, Switch(d) \/ DeleteDevice(d) PROVE ZonesMove
      BY <2>3, ZonesStill DEF Switch, DeleteDevice
    <2>4. ASSUME NEW d \in Devices, NEW s \in Serials, Rename(d, s) PROVE ZonesMove
      BY <2>4, ZonesStill DEF Rename
    <2>5. ASSUME NEW D \in SUBSET Devices, NEW u \in Owners, NEW z \in Zones,
                 BulkAssign(D, u, z)
          PROVE  ZonesMove
      BY <2>5, ZonesStill DEF BulkAssign
    <2>6. ASSUME NEW d \in Devices, NEW t \in Tags, NEW z \in Zones \cup {None},
                 Attach(d, t, z) \/ Remap(d, t, z)
          PROVE  ZonesMove
      BY <2>6, ZonesStill DEF Attach, Remap
    <2>7. ASSUME NEW d \in Devices, NEW t \in Tags, SwitchMap(d, t) \/ Detach(d, t)
          PROVE  ZonesMove
      BY <2>7, ZonesStill DEF SwitchMap, Detach
    <2>8. QED
      BY <1>2, <2>1, <2>2, <2>3, <2>4, <2>5, <2>6, <2>7, ZonesCreate, ZonesDelete
      DEF Administer
  <1>3. CASE UNCHANGED vars
    BY <1>3, ZonesStill DEF vars, locals
  <1>4. QED
    BY <1>1, <1>2, <1>3 DEF Next

-----------------------------------------------------------------------------
(* What a frame keeps while it does nothing, and what it keeps anyway *)

\* A frame whose row has more to say than before.
Learns(f) == seen[f] \subseteq seen'[f]

\* A reading stays right.
LEMMA RightStays ==
  ASSUME IInv, ZonesMove, NEW f \in Frames, Learns(f), pc'[f] # "dropped",
         NEW r \in reading \cup txn[f].readings, r.by = f, Right(r)
  PROVE  Right(r)'
  <1> DEFINE z == r.zone
  <1>1. z \in Zones
    BY DEF IInv, TypeOK, Inserts, Reading
  <1>2. z \in Known(f)
    BY <1>1 DEF Right, View, Known, IInv, Safe, ZonesBorn
  <1>3. View(f, z)' = View(f, z)
    BY <1>2 DEF ZonesMove, Lost
  <1>4. Kind(f) = "client" /\ First(r.user, z) => First(r.user, z)'
    <2>1. z \in Nat /\ lastZone \in Nat /\ z <= lastZone
      BY <1>1, <1>2, ZoneSets DEF Known, Settled, IInv, Safe, ZonesBorn
    <2>2. QED
      BY <2>1, ZoneSets DEF First, ZonesMove, ZonesOf, Zones
  <1>5. (Excused(f) => Excused(f)')
    BY DEF Excused, Learns
  <1>6. Kind(f)' = Kind(f)
    BY DEF Kind
  <1>7. QED
    BY <1>3, <1>4, <1>5, <1>6 DEF Right, Learns

\* So does what a frame aims at, and what it knows its owner to have.
LEMMA AimStays ==
  ASSUME IInv, ZonesMove, NEW f \in Frames, UNCHANGED target[f]
  PROVE  Aimed(f)'
  <1> SUFFICES ASSUME target[f] # None
               PROVE  Aimed(f)'
    BY DEF Aimed
  <1> DEFINE z == target[f].zone
             u == target[f].user
  <1>1. /\ z \in Known(f) /\ BelongsTo(f, z, u)
        /\ Kind(f) = "lora" /\ View(f, z) # None => View(f, z).lora
        /\ Kind(f) = "client" => u = Frame[f].client /\ First(u, z)
    BY DEF IInv, Safe, FramesKept, FrameInv, Aimed
  <1>2. z \in Known(f)' /\ (View(f, z)' = View(f, z) \/ View(f, z)' = None)
    BY <1>1 DEF ZonesMove, Lost
  <1>3. First(u, z) => First(u, z)'
    <2>1. z \in Nat /\ lastZone \in Nat /\ z <= lastZone
      BY <1>1, ZoneSets DEF Known, Settled, IInv, Safe, ZonesBorn
    <2>2. QED
      BY <2>1, ZoneSets DEF First, ZonesMove, ZonesOf, Zones
  <1>4. BelongsTo(f, z, u)'
    BY <1>1, <1>2 DEF BelongsTo
  <1>5. QED
    BY <1>1, <1>2, <1>3, <1>4 DEF Aimed, Kind

LEMMA OwnedStays ==
  ASSUME IInv, ZonesMove, NEW f \in Frames, UNCHANGED owned[f],
         owned[f] # {} => UNCHANGED found[f]
  PROVE  OwnedKnown(f)'
  <1> SUFFICES ASSUME NEW z \in owned[f]
               PROVE  z \in Known(f)' /\ BelongsTo(f, z, found[f].owner)'
    BY DEF OwnedKnown
  <1>1. z \in Known(f) /\ BelongsTo(f, z, found[f].owner)
    BY DEF IInv, Safe, FramesKept, FrameInv, OwnedKnown
  <1>2. z \in Known(f)' /\ (View(f, z)' = View(f, z) \/ View(f, z)' = None)
    BY <1>1 DEF ZonesMove, Lost
  <1>3. UNCHANGED found[f]
    OBVIOUS
  <1>4. QED
    BY <1>1, <1>2, <1>3 DEF BelongsTo
LEMMA IntactStays ==
  ASSUME IInv, ZonesMove, NEW f \in Frames, deleted => deleted',
         UNCHANGED <<found[f], owned[f], target[f]>>,
         pc[f] = "dropped" => pc'[f] = "dropped"
  PROVE  Intact(f)'
  <1> SUFFICES ASSUME ~deleted' PROVE Intact(f)'
    BY DEF Intact
  <1>1. Intact(f) /\ Aimed(f) /\ OwnedKnown(f) /\ ~deleted
    BY DEF IInv, Safe, FramesKept, FrameInv
  <1>2. pc'[f] # "dropped" => \A z \in Known(f) : View(f, z)' = View(f, z)
    BY DEF ZonesMove, Lost
  <1>3. found[f] # None /\ found[f].zone # None => zone'[found[f].zone] # None
    <2>1. found[f] # None => found[f].zone \in Zones \cup {None}
      BY DEF IInv, TypeOK, FoundRow
    <2>2. QED
      BY <1>1, <2>1 DEF Intact, ZonesMove
  <1>4. QED
    BY <1>1, <1>2, <1>3 DEF Intact, Aimed, OwnedKnown

\* A frame does nothing while others do.
Idles(f) ==
    /\ UNCHANGED <<pc[f], goal[f], found[f], owned[f], target[f], txn[f]>>
    /\ Learns(f)
    /\ Open(f) => RowOf(device', Frame[f].serial) \in seen'[f]
Onwards == /\ placeholder => placeholder'
           /\ deleted => deleted'
           /\ early \subseteq early'

LEMMA IdleKeeps ==
  ASSUME IInv, ZonesMove, NEW f \in Frames, Idles(f), Onwards
  PROVE  FrameInv(f)'
  <1>1. /\ Course(f) /\ Informed(f) /\ Pending(f) /\ Early(f)
    BY DEF IInv, Safe, FramesKept, FrameInv
  <1>2. Course(f)'
    BY <1>1 DEF Course, Idles, Kind, Placed
  <1>3. Informed(f)'
    BY <1>1 DEF Informed, Idles, Learns, Kind, Placed, Open, Excused
  <1>4. Aimed(f)'
    BY AimStays DEF Idles
  <1>5. OwnedKnown(f)'
    BY OwnedStays DEF Idles
  <1>6. Pending(f)'
    <2>1. txn'[f].readings = {} \/ pc'[f] # "dropped"
      BY <1>1 DEF Course, Idles
    <2>2. QED
      BY <1>1, <2>1, RightStays DEF Pending, Idles
  <1>7. Early(f)'
    BY <1>1 DEF Early, Idles, Onwards, Open, Kind
  <1>8. Intact(f)'
    BY IntactStays DEF Idles, Onwards
  <1>9. QED
    BY <1>2, <1>3, <1>4, <1>5, <1>6, <1>7, <1>8 DEF FrameInv

\* Committed readings stay right: their handlers have ended.
LEMMA CommittedStays ==
  ASSUME IInv, ZonesMove, NEW r \in reading, Idles(r.by)
  PROVE  pc'[r.by] = "stored" /\ Right(r)'
  <1>1. r.by \in Frames
    BY DEF IInv, TypeOK, Reading
  <1>2. pc[r.by] = "stored" /\ Right(r)
    BY DEF IInv, Safe, Committed
  <1>3. pc'[r.by] = "stored" /\ Learns(r.by)
    BY <1>2 DEF Idles
  <1>4. QED
    BY <1>1, <1>2, <1>3, RightStays

\* The device tables leave the placed devices where they are.
LEMMA DevicesStay ==
  ASSUME IInv, ZonesMove, deleted => deleted', UNCHANGED device
  PROVE  DevicesPlaced'
  <1>1. \A d \in Devices : device[d] # None => device[d].zone \in Zones \cup {None}
    BY DEF IInv, TypeOK, DeviceRow
  <1>2. QED
    BY <1>1 DEF IInv, Safe, DevicesPlaced, ZonesMove

\* Every row a serial has is watched by the frames that are handled.
LEMMA WatchedIdles ==
  ASSUME IInv, NEW f \in Frames, Watched
  PROVE  Learns(f) /\ (Open(f) => RowOf(device', Frame[f].serial) \in seen'[f])
  BY DEF Watched, Learns

LEMMA StillIdles ==
  ASSUME IInv, NEW f \in Frames, UNCHANGED <<device, seen[f]>>
  PROVE  Learns(f) /\ (Open(f) => RowOf(device', Frame[f].serial) \in seen'[f])
  BY DEF Learns, IInv, Safe, FramesKept, FrameInv, Informed

\* A step of a handler is nothing to the other frames.
LEMMA OthersIdle ==
  ASSUME IInv, NEW f \in Frames, Handle(f), NEW g \in Frames \ {f}
  PROVE  Idles(g)
  <1> USE DEF tables, history
  <1>1. UNCHANGED <<pc[g], goal[g], found[g], owned[g], target[g], txn[g]>>
    <2> USE DEF IInv, TypeOK
    <2>1. CASE OwnerTaken(f) \/ WriteRefused(f) \/ TagsRefused(f)
      BY <2>1 DEF OwnerTaken, WriteRefused, TagsRefused, Drop
    <2>2. CASE CatchAll(f)
      <3>1. /\ pc' = [pc EXCEPT ![f] = goal[f]]
            /\ \E v : target' = [target EXCEPT ![f] = v]
            /\ txn' = txn \/ \E v : txn' = [txn EXCEPT ![f].zones = v]
            /\ UNCHANGED <<goal, found, owned>>
        BY <2>2 DEF CatchAll
      <3>2. QED
        BY <3>1
    <2>3. CASE Commit(f)
      BY <2>3 DEF Commit
    <2>4. CASE AddOwner(f)
      BY <2>4 DEF AddOwner
    <2>5. CASE Register(f)
      <3>1. /\ pc' = [pc EXCEPT ![f] = "again"]
            /\ txn' = txn \/ \E v : txn' = [txn EXCEPT ![f].device = v]
            /\ UNCHANGED <<goal, found, owned, target>>
        BY <2>5 DEF Register
      <3>2. QED
        BY <3>1
    <2>6. CASE Write(f) \/ WriteTags(f)
      <3>1. /\ pc' = [pc EXCEPT ![f] = "commit"]
            /\ \E v : txn' = [txn EXCEPT ![f].readings = v]
            /\ UNCHANGED <<goal, found, owned, target>>
        BY <2>6 DEF Write, WriteTags
      <3>2. QED
        BY <3>1
    <2>7. CASE Resolve(f) \/ FindOwner(f) \/ ResolveAgain(f)
      BY <2>7 DEF Resolve, FindOwner, ResolveAgain
    <2>8. CASE Look(f) \/ ReadMappings(f) \/ ReadOwners(f)
      BY <2>8 DEF Look, ReadMappings, ReadOwners
    <2>9. CASE sensor_ingest(f) \/ first_zone_for(f)
      BY <2>9 DEF sensor_ingest, first_zone_for
    <2>10. QED
      BY <2>1, <2>2, <2>3, <2>4, <2>5, <2>6, <2>7, <2>8, <2>9 DEF Handle
  <1>2. Watched \/ UNCHANGED <<device, seen[g]>>
    <2>1. CASE Commit(f)
      BY <2>1 DEF Commit
    <2>2. CASE Resolve(f) \/ Look(f) \/ sensor_ingest(f)
      BY <2>2 DEF Resolve, Look, sensor_ingest, Begins, IInv, TypeOK
    <2>3. QED
      BY <2>1, <2>2 DEF Handle, OwnerTaken, WriteRefused, TagsRefused, Drop, CatchAll,
         AddOwner, Register, Write, WriteTags, FindOwner, ResolveAgain,
         ReadMappings, ReadOwners, first_zone_for
  <1>3. QED
    BY <1>1, <1>2, WatchedIdles, StillIdles DEF Idles
-----------------------------------------------------------------------------
(* What the handler of a frame keeps for itself *)

LEMMA Now ==
  ASSUME IInv, NEW f \in Frames
  PROVE  /\ TypeOK /\ ZonesBorn /\ DevicesPlaced /\ Committed
         /\ Course(f) /\ Informed(f) /\ Aimed(f) /\ OwnedKnown(f)
         /\ Pending(f) /\ Early(f) /\ Intact(f)
  BY DEF IInv, Safe, FramesKept, FrameInv

LEMMA RowPlaced ==
  ASSUME IInv, ~deleted, NEW s, NEW v, v = RowOf(device, s), v # None,
         v.zone # None
  PROVE  zone[v.zone] # None
  <1>1. device \in [Devices -> DeviceRow \cup {None}] /\ DevicesPlaced
    BY DEF IInv, Safe, TypeOK
  <1>2. PICK d \in Devices : device[d] # None /\ v.zone = device[d].zone
    BY <1>1, RowOfType
  <1>3. QED
    BY <1>1, <1>2 DEF DevicesPlaced

\* Handlers write nothing until they commit.
LEMMA NothingPending ==
  ASSUME IInv, NEW f \in Frames, pc[f] # "commit",
         txn'[f].readings = txn[f].readings
  PROVE  Pending(f)'
  BY Now DEF Course, Pending

\* A step that reads and moves on.
LEMMA ReadKeeps ==
  ASSUME IInv, ZonesMove, NEW f \in Frames, pc[f] # "commit",
         UNCHANGED <<found[f], owned[f], target[f]>>, Learns(f),
         txn'[f].readings = {}, deleted => deleted', pc[f] # "dropped",
         Course(f)', Informed(f)', Early(f)'
  PROVE  FrameInv(f)'
  BY AimStays, OwnedStays, IntactStays DEF FrameInv, Pending

LEMMA DropKeeps ==
  ASSUME IInv, ZonesMove, NEW f \in Frames, Drop(f),
         pc[f] \in {"addOwner", "write", "tags"}, f \in early \/ deleted
  PROVE  FrameInv(f)'
  <1>1. /\ pc'[f] = "dropped" /\ txn'[f] = NoInserts /\ early' = early
        /\ UNCHANGED <<goal[f], found[f], owned[f], target[f], seen[f], deleted>>
    BY DEF Drop, IInv, TypeOK, history
  <1>2. Course(f)'
    BY <1>1, Now DEF Course, Kind, Placed, NoInserts, ForOwner, Finished
  <1>3. Informed(f)'
    BY <1>1, Now DEF Informed, Kind, Placed, Open, Finished, ForOwner
  <1>4. Early(f)'
    BY <1>1 DEF Early, Open, Finished
  <1>5. QED
    BY <1>1, <1>2, <1>3, <1>4, ReadKeeps DEF NoInserts, Learns

\* The row that is looked up first is the row of that instant.
LEMMA ResolveKeeps ==
  ASSUME IInv, ZonesMove, NEW f \in Frames, Resolve(f)
  PROVE  FrameInv(f)'
  <1> DEFINE v == RowOf(device, Frame[f].serial)
  <1>1. /\ pc[f] = "waiting" /\ Kind(f) = "lora" /\ Visible(f) = v
        /\ txn[f].device = None
    BY Now DEF Resolve, Course, Visible, Kind
  <1>2. /\ found'[f] = v /\ seen'[f] = {v}
        /\ pc'[f] = (IF v = None THEN "owner" ELSE Onward(f, v))
        /\ goal'[f] = (IF v = None THEN "register" ELSE "write")
        /\ UNCHANGED <<placeholder, device, zone, txn, owned, target, deleted>>
        /\ early' = IF placeholder THEN early ELSE early \cup {f}
    BY <1>1 DEF Resolve, Begins, IInv, TypeOK, tables
  <1>3. pc'[f] \in {"owner", "commit", "write"} /\ (pc'[f] = "write" => Assigned(v))
    BY <1>2 DEF Onward
  <1>4. v = None => pc'[f] = "owner"
    BY <1>2
  <1>5. owned[f] = {}
    BY <1>1, Now DEF Course
  <1>6. Course(f)'
    <2>1. goal'[f] # None
      BY <1>2, <1>3, NoneAssumption
    <2>2. QED
      BY <1>1, <1>2, <1>3, <1>4, <1>5, <2>1, Now DEF Course, Kind, Placed, ForOwner
  <1>7. Informed(f)'
    <2>1. Excused(f)' \/ Placed(f)'
      BY <1>2 DEF Excused, Placed
    <2>2. pc'[f] = "owner" => Excused(f)'
      BY <1>2, <1>3 DEF Excused, Onward
    <2>3. QED
      BY <1>1, <1>2, <1>3, <2>1, <2>2 DEF Informed, Kind, Placed, ForOwner
  <1>8. Early(f)'
    BY <1>2, <1>3 DEF Early
  <1>9. Intact(f)'
    <2> SUFFICES ASSUME ~deleted PROVE Intact(f)'
      BY <1>2 DEF Intact
    <2>1. v # None /\ v.zone # None => zone[v.zone] # None
      BY RowPlaced
    <2>2. target[f] # None => View(f, target[f].zone) # None
      BY <1>1, Now DEF Intact
    <2>3. QED
      BY <1>2, <1>5, <2>1, <2>2 DEF Intact, View
  <1>10. Pending(f)'
    BY <1>1, <1>2, NothingPending
  <1>11. QED
    BY <1>2, <1>5, <1>6, <1>7, <1>8, <1>9, <1>10, AimStays, OwnedStays DEF FrameInv

LEMMA FindOwnerKeeps ==
  ASSUME IInv, ZonesMove, NEW f \in Frames, FindOwner(f)
  PROVE  FrameInv(f)'
  <1>1. /\ pc[f] = "owner"
        /\ pc'[f] = IF placeholder \/ txn[f].user THEN "zone" ELSE "addOwner"
        /\ UNCHANGED <<goal, found, owned, target, txn, seen, deleted, early,
                       placeholder, device>>
    BY DEF FindOwner, IInv, TypeOK, history, tables
  <1>2. Kind(f) = "lora"
    BY <1>1, FrameFields, Now DEF Course, Finished
  <1>3. Course(f)'
    BY <1>1, <1>2, Now DEF Course, Kind, Placed, ForOwner
  <1>4. Informed(f)'
    BY <1>1, <1>2, Now DEF Informed, Kind, Placed, Open, Finished, ForOwner, Excused
  <1>5. Early(f)'
    BY <1>1, <1>2, Now DEF Early, Open, Kind, Finished
  <1>6. txn'[f].readings = {}
    BY <1>1, Now DEF Course
  <1>7. QED
    BY <1>1, <1>3, <1>4, <1>5, <1>6, ReadKeeps DEF Learns

LEMMA AddOwnerKeeps ==
  ASSUME IInv, ZonesMove, NEW f \in Frames, AddOwner(f)
  PROVE  FrameInv(f)'
  <1>1. /\ pc[f] = "addOwner" /\ pc'[f] = "zone"
        /\ txn' = [txn EXCEPT ![f].user = TRUE]
        /\ UNCHANGED <<goal, found, owned, target, seen, deleted, early,
                       placeholder, device>>
    BY DEF AddOwner, IInv, TypeOK, history, tables
  <1>2. /\ txn'[f].zones = txn[f].zones /\ txn'[f].device = txn[f].device
        /\ txn'[f].readings = txn[f].readings
    BY <1>1 DEF IInv, TypeOK, Inserts
  <1>3. Kind(f) = "lora"
    BY <1>1, FrameFields, Now DEF Course, Finished
  <1>4. Course(f)'
    BY <1>1, <1>2, <1>3, Now DEF Course, Kind, Placed, ForOwner
  <1>5. Informed(f)'
    BY <1>1, <1>3, Now DEF Informed, Kind, Placed, Open, Finished, ForOwner, Excused
  <1>6. Early(f)'
    BY <1>1, Now DEF Early
  <1>7. txn'[f].readings = {}
    BY <1>1, <1>2, Now DEF Course
  <1>8. QED
    BY <1>1, <1>4, <1>5, <1>6, <1>7, ReadKeeps DEF Learns

\* The catch-all is a zone called `lora`, committed or its own.
LEMMA CatchAllKeeps ==
  ASSUME IInv, ZonesMove, NEW f \in Frames, CatchAll(f)
  PROVE  FrameInv(f)'
  <1>1. /\ pc[f] = "zone" /\ pc'[f] = goal[f]
        /\ UNCHANGED <<goal, found, owned, seen, deleted, early, placeholder,
                       device, zone>>
    BY DEF CatchAll, IInv, TypeOK, history, tables
  <1>2. Kind(f) = "lora" /\ goal[f] \in {"register", "write"} /\ owned[f] = {}
    BY <1>1, FrameFields, Now DEF Course, Finished, ForOwner, TypeOK
  <1>3. PICK z \in Zones : /\ target'[f] # None /\ target'[f].zone = z
                           /\ z \in Known(f)' /\ View(f, z)' # None
                           /\ View(f, z)'.lora
                           /\ View(f, z)'.owner = target'[f].user
                           /\ txn'[f].device = txn[f].device
                           /\ txn'[f].readings = txn[f].readings
    <2>1. CASE LoraZones(f) # {}
      <3>1. PICK z \in Zones : z = Least(LoraZones(f)) /\ View(f, z) # None
                               /\ View(f, z).lora
                               /\ OwnerOf(f, z) = View(f, z).owner
                               /\ OwnerOf(f, z) \in Owners
        BY <2>1, LoraZone DEF IInv
      <3>2. /\ target'[f] = [user |-> OwnerOf(f, z), zone |-> z]
            /\ UNCHANGED txn
        BY <2>1, <3>1 DEF CatchAll, IInv, TypeOK
      <3>3. target'[f] # None
        BY <3>1, <3>2, NoneAssumption DEF Target
      <3>4. View(f, z)' = View(f, z)
        BY <1>1, <3>2 DEF View
      <3>5. z \in Known(f)
        BY <3>1, Now DEF View, Known, ZonesBorn
      <3>6. z \in Known(f)'
        BY <3>5 DEF ZonesMove
      <3>7. QED
        BY <3>1, <3>2, <3>3, <3>4, <3>6
    <2>2. CASE LoraZones(f) = {}
      <3>1. PICK z \in Zones : z = lastZone + 1
        BY <2>2, NextZone DEF CatchAll, IInv
      <3>2. /\ txn' = [txn EXCEPT ![f].zones = {z}]
            /\ target'[f] = [user |-> Lora, zone |-> z]
        BY <2>2, <3>1 DEF CatchAll, IInv, TypeOK
      <3>3. /\ txn'[f].zones = {z} /\ txn'[f].device = txn[f].device
            /\ txn'[f].readings = txn[f].readings
        BY <3>2 DEF IInv, TypeOK, Inserts
      <3>4. View(f, z)' = [owner |-> Lora, lora |-> TRUE]
        BY <3>3 DEF View
      <3>5. [user |-> Lora, zone |-> z] \in Target
        BY DEF Target, Owners
      <3>6. [owner |-> Lora, lora |-> TRUE] \in ZoneRow
        BY DEF ZoneRow, Owners
      <3>7. target'[f] # None /\ View(f, z)' # None
        BY <3>2, <3>4, <3>5, <3>6, NoneAssumption
      <3>8. QED
        BY <3>2, <3>3, <3>4, <3>7 DEF Known
    <2>3. QED
      BY <2>1, <2>2
  <1>4. Course(f)'
    BY <1>1, <1>2, <1>3, Now DEF Course, Kind, ForOwner
  <1>5. Informed(f)'
    BY <1>1, <1>2, Now DEF Informed, Kind, Placed, Open, Finished, ForOwner, Excused
  <1>6. Early(f)'
    BY <1>1, <1>2, Now DEF Early, Open, Kind, Finished
  <1>7. Aimed(f)'
    BY <1>2, <1>3 DEF Aimed, BelongsTo, Kind
  <1>8. OwnedKnown(f)' /\ Pending(f)'
    BY <1>1, <1>3, OwnedStays, NothingPending
  <1>9. Intact(f)'
    BY <1>1, <1>2, <1>3, Now DEF Intact
  <1>10. QED
    BY <1>4, <1>5, <1>6, <1>7, <1>8, <1>9 DEF FrameInv

LEMMA RegisterKeeps ==
  ASSUME IInv, ZonesMove, NEW f \in Frames, Register(f)
  PROVE  FrameInv(f)'
  <1>1. /\ pc[f] = "register" /\ pc'[f] = "again"
        /\ UNCHANGED <<goal, found, owned, target, seen, deleted, early,
                       placeholder, device>>
    BY DEF Register, IInv, TypeOK, history, tables
  <1>2. Kind(f) = "lora"
    BY <1>1, FrameFields, Now DEF Course, Finished
  <1>3. /\ txn'[f].zones = txn[f].zones /\ txn'[f].readings = txn[f].readings
        /\ txn'[f].device = None \/ txn'[f].device.zone = None
    <2>1. CASE Taken(f)
      BY <1>1, <2>1, Now DEF Register, Course
    <2>2. CASE ~Taken(f)
      <3>1. txn' = [txn EXCEPT ![f].device =
                     [id |-> lastDevice + 1, owner |-> target[f].user,
                      zone |-> None, active |-> TRUE]]
        BY <2>2 DEF Register
      <3>2. QED
        BY <3>1 DEF IInv, TypeOK, Inserts
    <2>3. QED
      BY <2>1, <2>2
  <1>4. Course(f)'
    BY <1>1, <1>2, <1>3, Now DEF Course, Kind, Placed, ForOwner
  <1>5. Informed(f)'
    BY <1>1, <1>2, Now DEF Informed, Kind, Placed, Open, Finished, ForOwner, Excused
  <1>6. Early(f)'
    BY <1>1, <1>2, Now DEF Early, Open, Kind, Finished
  <1>7. txn'[f].readings = {}
    BY <1>1, <1>3, Now DEF Course
  <1>8. QED
    BY <1>1, <1>4, <1>5, <1>6, <1>7, ReadKeeps DEF Learns

\* What it reads again is its own row, of no zone, or a row seen now.
LEMMA ResolveAgainKeeps ==
  ASSUME IInv, ZonesMove, NEW f \in Frames, ResolveAgain(f)
  PROVE  FrameInv(f)'
  <1> DEFINE v == Visible(f)
             row == RowOf(device, Frame[f].serial)
  <1>1. /\ pc[f] = "again" /\ found'[f] = v /\ pc'[f] = Onward(f, v)
        /\ goal'[f] = "write"
        /\ UNCHANGED <<owned, target, txn, seen, deleted, early, placeholder,
                       device, zone>>
    BY DEF ResolveAgain, IInv, TypeOK, history, tables
  <1>2. Kind(f) = "lora" /\ owned[f] = {} /\ Excused(f)
    BY <1>1, FrameFields, Now DEF Course, Finished, Informed
  <1>3. /\ pc'[f] \in {"owner", "commit", "write"}
        /\ pc'[f] = "write" => v # None /\ Assigned(v)
    BY <1>1 DEF Onward
  <1>4. v # None /\ v.zone # None => v = row
    BY Now DEF Visible, Course
  <1>5. row \in seen[f]
    BY <1>1, Now DEF Informed, Open, Finished
  <1>6. Course(f)'
    BY <1>1, <1>2, <1>3, NoneAssumption, Now DEF Course, Kind, Placed, ForOwner
  <1>7. Informed(f)'
    <2>1. Placed(f)' => found'[f] \in seen'[f]
      BY <1>1, <1>4, <1>5 DEF Placed, Assigned
    <2>2. QED
      BY <1>1, <1>2, <1>3, <1>5, <2>1 DEF Informed, Kind, Placed, Excused, ForOwner
  <1>8. Early(f)'
    BY <1>1, <1>2, <1>3, Now DEF Early, Open, Kind, Finished
  <1>9. Intact(f)'
    <2> SUFFICES ASSUME ~deleted PROVE Intact(f)'
      BY <1>1 DEF Intact
    <2>1. v # None /\ v.zone # None => zone[v.zone] # None
      BY <1>4, RowPlaced
    <2>2. target[f] # None => View(f, target[f].zone) # None
      BY <1>1, Now DEF Intact
    <2>3. QED
      BY <1>1, <1>2, <2>1, <2>2 DEF Intact, View
  <1>10. Pending(f)'
    BY <1>1, NothingPending
  <1>11. QED
    BY <1>1, <1>2, <1>6, <1>7, <1>8, <1>9, <1>10, AimStays, OwnedStays DEF FrameInv
\* The write goes where the device was assigned, or where the frame aims.
LEMMA WriteKeeps ==
  ASSUME IInv, ZonesMove, NEW f \in Frames, Write(f)
  PROVE  FrameInv(f)'
  <1> DEFINE r == [by |-> f, user |-> Destination(f).user,
                   zone |-> Destination(f).zone]
  <1>1. /\ pc[f] = "write" /\ pc'[f] = "commit"
        /\ Accepts(f, Destination(f).zone)
        /\ txn' = [txn EXCEPT ![f].readings = {r}]
        /\ UNCHANGED <<goal, found, owned, target, seen, deleted, early,
                       placeholder, device, zone>>
    BY DEF Write, IInv, TypeOK, history, tables
  <1>2. /\ txn'[f].zones = txn[f].zones /\ txn'[f].device = txn[f].device
        /\ txn'[f].readings = {r}
    BY <1>1 DEF IInv, TypeOK, Inserts
  <1>3. Kind(f) \in {"lora", "client"}
    BY <1>1, FrameFields, Now DEF Course, Finished
  <1>4. Course(f)'
    BY <1>1, <1>2, <1>3, Now DEF Course, Kind, Placed, ForOwner
  <1>5. Informed(f)'
    BY <1>1, <1>3, Now DEF Informed, Kind, Placed, Open, Finished, ForOwner
  <1>6. Early(f)'
    BY <1>1, Now DEF Early, Open, Kind, Finished
  <1>7. Pending(f)'
    <2>1. PICK q \in {r} : q = r
      OBVIOUS
    <2>2. q.by = f /\ q.user = Destination(f).user /\ q.zone = Destination(f).zone
      BY <2>1
    <2>3. View(f, q.zone) # None
      <3>1. [owner |-> Lora, lora |-> TRUE] \in ZoneRow
        BY DEF ZoneRow, Owners
      <3>2. QED
        BY <1>1, <2>2, <3>1, NoneAssumption DEF Accepts, View
    <2>4. View(f, q.zone)' = View(f, q.zone)
      BY <1>1, <1>2 DEF View
    <2>5. Right(q)'
      <3>1. CASE Placed(f)
        <4>1. /\ found[f] # None /\ Assigned(found[f])
              /\ q.user = found[f].owner /\ q.zone = found[f].zone
          BY <1>1, <2>2, <3>1, DestinationType, Now DEF Placed
        <4>2. Kind(f) = "lora" /\ found[f] \in seen[f]
          BY <1>3, <3>1, <4>1, Now DEF Informed, Course
        <4>3. QED
          BY <1>1, <2>2, <2>3, <2>4, <4>1, <4>2 DEF Right, Kind
      <3>2. CASE ~Placed(f)
        <4>1. /\ target[f] # None /\ q.user = target[f].user
              /\ q.zone = target[f].zone
          BY <1>1, <2>2, <3>2, DestinationType, Now
        <4>2. /\ View(f, q.zone).owner = q.user
              /\ Kind(f) = "lora" => View(f, q.zone).lora /\ Excused(f)
              /\ Kind(f) = "client" => First(q.user, q.zone)
          BY <1>1, <2>3, <3>2, <4>1, Now DEF Aimed, BelongsTo, Informed
        <4>3. (Excused(f) <=> Excused(f)')
          BY <1>1 DEF Excused
        <4>4. First(q.user, q.zone) <=> First(q.user, q.zone)'
          BY <1>1 DEF First, ZonesOf
        <4>5. QED
          BY <1>3, <2>2, <2>3, <2>4, <4>2, <4>3, <4>4 DEF Right, Kind
      <3>3. QED
        BY <3>1, <3>2
    <2>6. txn'[f].readings = {q}
      BY <1>2, <2>1
    <2>7. QED
      BY <2>2, <2>5, <2>6 DEF Pending
  <1>8. Aimed(f)' /\ OwnedKnown(f)' /\ Intact(f)'
    BY <1>1, AimStays, OwnedStays, IntactStays
  <1>9. QED
    BY <1>4, <1>5, <1>6, <1>7, <1>8 DEF FrameInv

\* A refused write had a zone that was there until some zone was deleted.
LEMMA RefusedKeeps ==
  ASSUME IInv, ZonesMove, NEW f \in Frames,
         OwnerTaken(f) \/ WriteRefused(f) \/ TagsRefused(f)
  PROVE  FrameInv(f)'
  <1>1. CASE OwnerTaken(f)
    BY <1>1, DropKeeps, Now DEF OwnerTaken, Early
  <1>2. CASE WriteRefused(f)
    <2> DEFINE z == Destination(f).zone
    <2>1. pc[f] = "write" /\ zone[z] = None /\ z \notin txn[f].zones
      BY <1>2 DEF WriteRefused, Accepts
    <2>2. CASE Placed(f)
      <3>1. found[f] # None /\ z = found[f].zone /\ z # None
        BY <2>1, <2>2, DestinationType, Now DEF Placed, Assigned
      <3>2. deleted
        BY <2>1, <3>1, Now DEF Intact
      <3>3. QED
        BY <1>2, <2>1, <3>2, DropKeeps DEF WriteRefused
    <2>3. CASE ~Placed(f)
      <3>1. target[f] # None /\ z = target[f].zone
        BY <2>1, <2>3, DestinationType, Now
      <3>2. deleted
        BY <2>1, <3>1, Now DEF Intact, View
      <3>3. QED
        BY <1>2, <2>1, <3>2, DropKeeps DEF WriteRefused
    <2>4. QED
      BY <2>2, <2>3
  <1>3. CASE TagsRefused(f)
    <2>1. PICK z \in Fed(f) : zone[z] = None /\ z \notin txn[f].zones
      BY <1>3 DEF TagsRefused, Accepts
    <2>2. z \in owned[f] /\ pc[f] = "tags"
      BY <1>3 DEF TagsRefused, Fed
    <2>3. deleted
      BY <2>1, <2>2, Now DEF Intact, View
    <2>4. QED
      BY <1>3, <2>2, <2>3, DropKeeps DEF TagsRefused
  <1>4. QED
    BY <1>1, <1>2, <1>3

LEMMA LookKeeps ==
  ASSUME IInv, ZonesMove, NEW f \in Frames, Look(f)
  PROVE  FrameInv(f)'
  <1> DEFINE v == RowOf(device, Frame[f].serial)
  <1>1. /\ pc[f] = "waiting" /\ Kind(f) = "bivocom" /\ Visible(f) = v
        /\ owned[f] = {}
    BY Now DEF Look, Course, Visible, Kind
  <1>2. /\ found'[f] = v /\ seen'[f] = {v}
        /\ pc'[f] = (IF v # None /\ v.active THEN "mappings" ELSE "rejected")
        /\ UNCHANGED <<placeholder, device, zone, txn, owned, target, deleted, goal,
                       early>>
    BY <1>1 DEF Look, Begins, IInv, TypeOK, tables
  <1>3. pc'[f] \in {"mappings", "rejected"} /\ (pc'[f] = "mappings" => v # None)
    BY <1>2
  <1>4. Course(f)'
    BY <1>1, <1>2, <1>3, Now DEF Course, Kind, ForOwner, Finished
  <1>5. Informed(f)'
    BY <1>1, <1>2 DEF Informed, Kind
  <1>6. Early(f)'
    BY <1>1, <1>3 DEF Early, Kind
  <1>7. Intact(f)'
    <2> SUFFICES ASSUME ~deleted PROVE Intact(f)'
      BY <1>2 DEF Intact
    <2>1. v # None /\ v.zone # None => zone[v.zone] # None
      BY RowPlaced
    <2>2. target[f] # None => View(f, target[f].zone) # None
      BY <1>1, Now DEF Intact
    <2>3. QED
      BY <1>1, <1>2, <2>1, <2>2 DEF Intact, View
  <1>8. Pending(f)'
    BY <1>1, <1>2, NothingPending
  <1>9. QED
    BY <1>1, <1>2, <1>4, <1>5, <1>6, <1>7, <1>8, AimStays, OwnedStays DEF FrameInv

LEMMA MappingsKeep ==
  ASSUME IInv, ZonesMove, NEW f \in Frames, ReadMappings(f)
  PROVE  FrameInv(f)'
  <1>1. /\ pc[f] = "mappings" /\ pc'[f] = "owners"
        /\ UNCHANGED <<goal, found, owned, target, txn, seen, deleted, early,
                       placeholder, device>>
    BY DEF ReadMappings, IInv, TypeOK, history, tables
  <1>2. Kind(f) = "bivocom"
    BY <1>1, FrameFields, Now DEF Course, Finished, ForOwner
  <1>3. Course(f)'
    BY <1>1, <1>2, Now DEF Course, Kind, Placed, ForOwner
  <1>4. Informed(f)'
    BY <1>1, <1>2, Now DEF Informed, Kind, Open, Finished
  <1>5. Early(f)'
    BY <1>1, <1>2 DEF Early, Kind
  <1>6. txn'[f].readings = {}
    BY <1>1, Now DEF Course
  <1>7. QED
    BY <1>1, <1>3, <1>4, <1>5, <1>6, ReadKeeps DEF Learns

\* The zones of the owner are known to be the owner's.
LEMMA OwnersKeep ==
  ASSUME IInv, ZonesMove, NEW f \in Frames, ReadOwners(f)
  PROVE  FrameInv(f)'
  <1>1. /\ pc[f] = "owners" /\ pc'[f] = "tags"
        /\ owned'[f] = ZonesOf(found[f].owner)
        /\ UNCHANGED <<goal, found, target, txn, seen, deleted, early, zone,
                       lastZone, placeholder, device>>
    BY DEF ReadOwners, IInv, TypeOK, history, tables, ids
  <1>2. Kind(f) = "bivocom"
    BY <1>1, FrameFields, Now DEF Course, Finished, ForOwner
  <1>3. Course(f)'
    BY <1>1, <1>2, Now DEF Course, Kind, Placed, ForOwner
  <1>4. Informed(f)'
    BY <1>1, <1>2, Now DEF Informed, Kind, Open, Finished
  <1>5. Early(f)'
    BY <1>1, <1>2 DEF Early, Kind
  <1>6. ASSUME NEW z \in owned'[f]
        PROVE  /\ z \in Known(f)' /\ BelongsTo(f, z, found[f].owner)'
               /\ View(f, z)' # None
    <2>1. z \in Zones /\ zone[z] # None /\ zone[z].owner = found[f].owner
      BY <1>1, <1>6 DEF ZonesOf
    <2>2. z \in Settled /\ z \notin txn[f].zones
      BY <2>1, Now DEF ZonesBorn, Settled
    <2>3. View(f, z)' = zone[z]
      BY <1>1, <2>2 DEF View
    <2>4. z \in Known(f)'
      BY <2>2 DEF Known, ZonesMove
    <2>5. QED
      BY <1>1, <2>1, <2>3, <2>4 DEF BelongsTo
  <1>7. OwnedKnown(f)'
    BY <1>1, <1>6 DEF OwnedKnown
  <1>8. Intact(f)'
    <2>1. pc[f] # "dropped" /\ \A z : View(f, z)' = View(f, z)
      BY <1>1 DEF View
    <2>2. QED
      BY <1>1, <1>6, <2>1, Now DEF Intact
  <1>9. Aimed(f)' /\ Pending(f)'
    BY <1>1, AimStays, NothingPending
  <1>10. QED
    BY <1>3, <1>4, <1>5, <1>7, <1>8, <1>9 DEF FrameInv

LEMMA TagsKeep ==
  ASSUME IInv, ZonesMove, NEW f \in Frames, WriteTags(f)
  PROVE  FrameInv(f)'
  <1> DEFINE R == {[by |-> f, user |-> found[f].owner, zone |-> z] : z \in Fed(f)}
  <1>1. /\ pc[f] = "tags" /\ pc'[f] = "commit"
        /\ \A z \in Fed(f) : Accepts(f, z)
        /\ txn' = [txn EXCEPT ![f].readings = R]
        /\ UNCHANGED <<goal, found, owned, target, seen, deleted, early,
                       placeholder, device, zone>>
    BY DEF WriteTags, IInv, TypeOK, history, tables
  <1>2. /\ txn'[f].zones = txn[f].zones /\ txn'[f].device = txn[f].device
        /\ txn'[f].readings = R
    BY <1>1 DEF IInv, TypeOK, Inserts
  <1>3. Kind(f) = "bivocom"
    BY <1>1, FrameFields, Now DEF Course, Finished, ForOwner
  <1>4. Course(f)'
    BY <1>1, <1>2, <1>3, Now DEF Course, Kind, Placed, ForOwner
  <1>5. Informed(f)'
    BY <1>1, <1>3, Now DEF Informed, Kind, Open, Finished
  <1>6. Early(f)'
    BY <1>1, <1>3 DEF Early, Kind
  <1>7. ASSUME NEW r \in R PROVE r.by = f /\ Right(r)'
    <2>1. PICK z \in Fed(f) : r = [by |-> f, user |-> found[f].owner, zone |-> z]
      OBVIOUS
    <2>2. r.by = f /\ r.user = found[f].owner /\ r.zone = z /\ z \in owned[f]
      BY <2>1 DEF Fed
    <2>3. View(f, z)' = View(f, z)
      BY <1>1, <1>2 DEF View
    <2>4. View(f, z) # None
      <3>1. [owner |-> Lora, lora |-> TRUE] \in ZoneRow
        BY DEF ZoneRow, Owners
      <3>2. QED
        BY <1>1, <3>1, NoneAssumption DEF Accepts, View
    <2>5. View(f, z).owner = found[f].owner
      BY <2>2, <2>4, Now DEF OwnedKnown, BelongsTo
    <2>6. QED
      BY <1>3, <2>2, <2>3, <2>4, <2>5 DEF Right, Kind
  <1>8. Pending(f)'
    BY <1>2, <1>7 DEF Pending
  <1>9. Aimed(f)' /\ OwnedKnown(f)' /\ Intact(f)'
    BY <1>1, AimStays, OwnedStays, IntactStays
  <1>10. QED
    BY <1>4, <1>5, <1>6, <1>8, <1>9 DEF FrameInv

LEMMA AccountKeeps ==
  ASSUME IInv, ZonesMove, NEW f \in Frames, sensor_ingest(f)
  PROVE  FrameInv(f)'
  <1>1. /\ pc[f] = "waiting" /\ Kind(f) = "client" /\ owned[f] = {}
        /\ found[f] = None
    BY Now DEF sensor_ingest, Course, Kind
  <1>2. /\ pc'[f] \in {"first", "rejected"}
        /\ seen'[f] = {RowOf(device, Frame[f].serial)}
        /\ UNCHANGED <<goal, found, owned, target, txn, deleted, early,
                       placeholder, device>>
    BY DEF sensor_ingest, Begins, IInv, TypeOK, tables
  <1>3. Course(f)'
    BY <1>1, <1>2, Now DEF Course, Kind, Placed, ForOwner, Finished
  <1>4. Informed(f)'
    BY <1>1, <1>2 DEF Informed, Kind
  <1>5. Early(f)'
    BY <1>1, <1>2 DEF Early, Kind
  <1>6. Aimed(f)' /\ OwnedKnown(f)' /\ Intact(f)' /\ Pending(f)'
    BY <1>1, <1>2, AimStays, OwnedStays, IntactStays, NothingPending
  <1>7. QED
    BY <1>3, <1>4, <1>5, <1>6 DEF FrameInv

\* The first zone of an account is its own, and the first.
LEMMA FirstKeeps ==
  ASSUME IInv, ZonesMove, NEW f \in Frames, first_zone_for(f)
  PROVE  FrameInv(f)'
  <1> DEFINE own == ZonesOf(Frame[f].client)
  <1>1. /\ pc[f] = "first"
        /\ UNCHANGED <<goal, found, owned, txn, seen, deleted, early,
                       placeholder, device, zone, lastZone>>
        /\ \/ pc'[f] = "rejected" /\ UNCHANGED target
           \/ /\ own # {} /\ pc'[f] = "write"
              /\ target'[f] = [user |-> Frame[f].client, zone |-> Least(own)]
    BY DEF first_zone_for, IInv, TypeOK, history, tables, ids
  <1>2. Kind(f) = "client"
    BY <1>1, FrameFields, Now DEF Course, Finished, ForOwner
  <1>3. CASE pc'[f] = "rejected" /\ UNCHANGED target
    <2>1. Course(f)'
      BY <1>1, <1>2, <1>3, Now DEF Course, Kind, Placed, ForOwner, Finished
    <2>2. Informed(f)'
      BY <1>2, <1>3 DEF Informed, Kind, Open, Finished
    <2>3. Early(f)'
      BY <1>2, <1>3 DEF Early, Kind
    <2>4. Aimed(f)' /\ OwnedKnown(f)' /\ Intact(f)' /\ Pending(f)'
      BY <1>1, <1>3, AimStays, OwnedStays, IntactStays, NothingPending
    <2>5. QED
      BY <2>1, <2>2, <2>3, <2>4 DEF FrameInv
  <1>4. CASE pc'[f] # "rejected"
    <2>1. PICK z \in own : /\ z = Least(own) /\ \A y \in own : z <= y
      <3>1. own \in SUBSET Zones
        BY DEF ZonesOf
      <3>2. QED
        BY <1>1, <1>4, <3>1, LeastIsLeast
    <2>2. /\ target'[f] = [user |-> Frame[f].client, zone |-> z]
          /\ pc'[f] = "write"
      BY <1>1, <1>4, <2>1
    <2>3. z \in Zones /\ zone[z] # None /\ zone[z].owner = Frame[f].client
      BY DEF ZonesOf
    <2>4. target'[f] # None
      <3>1. Frame[f].client \in Owners
        BY <2>3, Now DEF TypeOK, ZoneRow
      <3>2. [user |-> Frame[f].client, zone |-> z] \in Target
        BY <2>3, <3>1 DEF Target
      <3>3. QED
        BY <2>2, <3>2, NoneAssumption
    <2>5. z \in Settled /\ z \notin txn[f].zones
      BY <2>3, Now DEF ZonesBorn, Settled
    <2>6. View(f, z)' = zone[z]
      BY <1>1, <2>5 DEF View
    <2>7. z \in Known(f)'
      BY <2>5 DEF Known, ZonesMove
    <2>8. Aimed(f)'
      <3>1. First(Frame[f].client, z)'
        BY <1>1, <2>1 DEF First, ZonesOf
      <3>2. QED
        BY <1>2, <2>2, <2>3, <2>6, <2>7, <3>1 DEF Aimed, BelongsTo, Kind
    <2>9. Course(f)'
      BY <1>1, <1>2, <2>2, <2>4, Now DEF Course, Kind, Placed, ForOwner
    <2>10. Informed(f)'
      BY <1>1, <1>2, <2>2, Now DEF Informed, Kind, Open, Finished
    <2>11. Early(f)'
      BY <1>2, <2>2 DEF Early, Kind
    <2>12. OwnedKnown(f)' /\ Pending(f)'
      BY <1>1, OwnedStays, NothingPending
    <2>13. Intact(f)'
      <3>1. owned[f] = {} /\ found[f] = None
        BY <1>2, Now DEF Course
      <3>2. QED
        BY <1>1, <2>2, <2>3, <2>6, <3>1 DEF Intact
    <2>14. QED
      BY <2>8, <2>9, <2>10, <2>11, <2>12, <2>13 DEF FrameInv
  <1>5. QED
    BY <1>1, <1>3, <1>4

LEMMA CommitKeeps ==
  ASSUME IInv, ZonesMove, NEW f \in Frames, Commit(f)
  PROVE  FrameInv(f)'
  <1>1. /\ pc[f] = "commit" /\ pc'[f] = "stored" /\ txn'[f] = NoInserts
        /\ UNCHANGED <<goal, found, owned, target, early, deleted>>
        /\ Learns(f)
    BY WatchedIdles DEF Commit, IInv, TypeOK
  <1>2. Course(f)'
    BY <1>1, FrameFields, Now
    DEF Course, Kind, Placed, NoInserts, ForOwner, Finished
  <1>3. Informed(f)'
    BY <1>1, Now DEF Informed, Kind, Placed, Open, Finished, ForOwner, Learns
  <1>4. Early(f)'
    BY <1>1 DEF Early, Open, Finished
  <1>5. Pending(f)'
    BY <1>1 DEF Pending, NoInserts
  <1>6. Aimed(f)' /\ OwnedKnown(f)' /\ Intact(f)'
    BY <1>1, AimStays, OwnedStays, IntactStays
  <1>7. QED
    BY <1>2, <1>3, <1>4, <1>5, <1>6 DEF FrameInv

-----------------------------------------------------------------------------
(* Every step *)

LEMMA ActorKeeps ==
  ASSUME IInv, ZonesMove, NEW f \in Frames, Handle(f)
  PROVE  FrameInv(f)'
  BY ResolveKeeps, FindOwnerKeeps, AddOwnerKeeps, CatchAllKeeps, RegisterKeeps,
     ResolveAgainKeeps, WriteKeeps, RefusedKeeps, LookKeeps, MappingsKeep,
     OwnersKeep, TagsKeep, AccountKeeps, FirstKeeps, CommitKeeps DEF Handle

LEMMA HandleMoves ==
  ASSUME IInv, NEW f \in Frames, Handle(f)
  PROVE  /\ Onwards /\ pc[f] # "stored"
         /\ Commit(f) \/ UNCHANGED <<device, reading>>
  <1> USE DEF tables, history
  <1>1. CASE Commit(f)
    BY <1>1 DEF Commit, Onwards
  <1>2. CASE Resolve(f) \/ Look(f) \/ sensor_ingest(f)
    BY <1>2 DEF Resolve, Look, sensor_ingest, Onwards
  <1>3. CASE OwnerTaken(f) \/ WriteRefused(f) \/ TagsRefused(f)
    BY <1>3 DEF OwnerTaken, WriteRefused, TagsRefused, Drop, Onwards
  <1>4. CASE FindOwner(f) \/ AddOwner(f) \/ CatchAll(f) \/ Register(f) \/ ResolveAgain(f)
    BY <1>4 DEF FindOwner, AddOwner, CatchAll, Register, ResolveAgain, Onwards
  <1>5. CASE Write(f) \/ ReadMappings(f) \/ ReadOwners(f) \/ WriteTags(f)
             \/ first_zone_for(f)
    BY <1>5 DEF Write, ReadMappings, ReadOwners, WriteTags, first_zone_for, Onwards
  <1>6. QED
    BY <1>1, <1>2, <1>3, <1>4, <1>5 DEF Handle

LEMMA HandleKeeps ==
  ASSUME IInv, ZonesMove, NEW f \in Frames, Handle(f)
  PROVE  Safe'
  <1>1. Onwards /\ pc[f] # "stored"
    BY HandleMoves
  <1>2. \A g \in Frames \ {f} : Idles(g)
    BY OthersIdle
  <1>3. FramesKept'
    <2>1. \A g \in Frames \ {f} : FrameInv(g)'
      BY <1>1, <1>2, IdleKeeps
    <2>2. FrameInv(f)'
      BY ActorKeeps
    <2>3. QED
      BY <2>1, <2>2 DEF FramesKept
  <1>4. \A r \in reading : pc'[r.by] = "stored" /\ Right(r)'
    <2> SUFFICES ASSUME NEW r \in reading
                 PROVE  pc'[r.by] = "stored" /\ Right(r)'
      OBVIOUS
    <2>1. r.by \in Frames /\ pc[r.by] = "stored"
      BY Now DEF IInv, TypeOK, Reading, Safe, Committed
    <2>2. Idles(r.by)
      BY <1>1, <1>2, <2>1
    <2>3. QED
      BY <2>2, CommittedStays
  <1>5. Committed' /\ DevicesPlaced'
    <2>1. CASE UNCHANGED <<device, reading>>
      BY <1>1, <1>4, <2>1, DevicesStay DEF Committed, Onwards
    <2>2. CASE Commit(f)
      <3>1. /\ pc'[f] = "stored" /\ Learns(f) /\ deleted' = deleted
            /\ reading' = reading \cup txn[f].readings
        BY <2>2, WatchedIdles DEF Commit, IInv, TypeOK
      <3>2. \A r \in txn[f].readings : pc'[r.by] = "stored" /\ Right(r)'
        BY <3>1, RightStays, Now DEF Pending
      <3>3. Committed'
        BY <1>4, <3>1, <3>2 DEF Committed
      <3>4. \A d \in Devices : device'[d] = device[d] \/ device'[d].zone = None
        BY <2>2 DEF Commit, IInv, TypeOK
      <3>5. \A d \in Devices : device[d] # None => device[d].zone \in Zones \cup {None}
        BY DEF IInv, TypeOK, DeviceRow
      <3>6. DevicesPlaced'
        BY <3>1, <3>4, <3>5, Now DEF DevicesPlaced, ZonesMove
      <3>7. QED
        BY <3>3, <3>6
    <2>3. QED
      BY <2>1, <2>2, HandleMoves
  <1>6. QED
    BY <1>3, <1>5 DEF Safe, ZonesMove

\* The administrators give devices zones that are there.
LEMMA EditPlaces ==
  ASSUME IInv, ZonesMove, Administer
  PROVE  /\ Edit /\ (Watched \/ UNCHANGED <<device, seen>>)
         /\ deleted => deleted'
         /\ ~deleted' => \A d \in Devices : device'[d] # None /\ device'[d].zone # None =>
                           \/ device[d] # None /\ device'[d].zone = device[d].zone
                           \/ device'[d].zone \in Zones /\ zone[device'[d].zone] # None
  <1> USE DEF ids
  <1>1. device \in [Devices -> DeviceRow \cup {None}]
    BY DEF IInv, TypeOK
  <1>2. CASE \E s \in Serials, u \in Owners, z \in Zones \cup {None} :
               CreateDevice(s, u, z)
    BY <1>1, <1>2 DEF CreateDevice, OwnsZone
  <1>3. CASE \E d \in Devices, u \in Owners \cup {None}, z \in Zones \cup {None} :
               Transfer(d, u, z)
    <2>1. PICK d \in Devices, u \in Owners \cup {None}, z \in Zones \cup {None} :
            Transfer(d, u, z)
      BY <1>3
    <2>2. device[d] \in DeviceRow
      BY <1>1, <2>1 DEF Transfer
    <2>3. /\ \A e \in Devices \ {d} : device'[e] = device[e]
          /\ device'[d].zone = IF z # None THEN z ELSE device[d].zone
      BY <1>1, <2>1, <2>2 DEF Transfer, DeviceRow
    <2>4. QED
      BY <2>1, <2>2, <2>3 DEF Transfer
  <1>4. CASE \E d \in Devices : Switch(d) \/ DeleteDevice(d)
    <2>1. PICK d \in Devices : Switch(d) \/ DeleteDevice(d)
      BY <1>4
    <2>2. /\ device[d] # None /\ \A e \in Devices \ {d} : device'[e] = device[e]
          /\ device'[d] = None \/ device'[d].zone = device[d].zone
      <3>1. device[d] \in DeviceRow
        BY <1>1, <2>1 DEF Switch, DeleteDevice
      <3>2. QED
        BY <1>1, <2>1, <3>1 DEF Switch, DeleteDevice, DeviceRow
    <2>3. QED
      BY <2>1, <2>2 DEF Switch, DeleteDevice
  <1>5. CASE \E d \in Devices, s \in Serials : Rename(d, s)
    <2>1. PICK d \in Devices, s \in Serials : Rename(d, s)
      BY <1>5
    <2>2. /\ device[d] # None /\ \A e \in Devices \ {d} : device'[e] = device[e]
          /\ device'[d].zone = device[d].zone
      <3>1. device[d] \in DeviceRow
        BY <1>1, <2>1 DEF Rename
      <3>2. QED
        BY <1>1, <2>1, <3>1 DEF Rename, DeviceRow
    <2>3. QED
      BY <2>1, <2>2 DEF Rename
  <1>6. CASE \E D \in SUBSET Devices, u \in Owners, z \in Zones : BulkAssign(D, u, z)
    <2>1. PICK D \in SUBSET Devices, u \in Owners, z \in Zones : BulkAssign(D, u, z)
      BY <1>6
    <2>2. \A d \in Devices : device'[d] = device[d] \/ device'[d].zone = z
      <3>1. \A d \in D : device[d] \in DeviceRow
        BY <1>1, <2>1 DEF BulkAssign
      <3>2. QED
        BY <2>1, <3>1 DEF BulkAssign, DeviceRow
    <2>3. QED
      BY <1>1, <2>1, <2>2 DEF BulkAssign, OwnsZone
  <1>7. CASE UNCHANGED device /\ Edit /\ (Watched \/ UNCHANGED seen)
             /\ (deleted => deleted')
    BY <1>7
  <1>8. CASE \E d \in Devices, t \in Tags, z \in Zones \cup {None} :
               Attach(d, t, z) \/ Remap(d, t, z)
    BY <1>7, <1>8 DEF Attach, Remap
  <1>9. CASE \E d \in Devices, t \in Tags : SwitchMap(d, t) \/ Detach(d, t)
    BY <1>7, <1>9 DEF SwitchMap, Detach
  <1>10. CASE \/ \E u \in Farmers, named \in BOOLEAN : CreateZone(u, named)
              \/ \E z \in Zones : DeleteZone(z)
    BY <1>7, <1>10 DEF CreateZone, DeleteZone
  <1>11. QED
    BY <1>2, <1>3, <1>4, <1>5, <1>6, <1>8, <1>9, <1>10 DEF Administer

LEMMA AdminKeeps ==
  ASSUME IInv, ZonesMove, Administer
  PROVE  Safe'
  <1>1. Edit /\ (Watched \/ UNCHANGED <<device, seen>>) /\ Onwards
    BY EditPlaces DEF Onwards, Edit
  <1>2. ASSUME NEW f \in Frames PROVE Idles(f)
    BY <1>1, WatchedIdles, StillIdles DEF Edit, locals, Idles
  <1>3. FramesKept'
    BY <1>1, <1>2, IdleKeeps DEF FramesKept
  <1>4. Committed'
    <2>1. reading' = reading /\ \A r \in reading : r.by \in Frames
      BY <1>1 DEF Edit, IInv, TypeOK, Reading
    <2>2. QED
      BY <1>2, <2>1, CommittedStays DEF Committed
  <1>5. DevicesPlaced'
    <2>1. \A d \in Devices : device[d] # None => device[d].zone \in Zones \cup {None}
      BY DEF IInv, TypeOK, DeviceRow
    <2>2. QED
      BY <1>1, <2>1, EditPlaces, Now DEF DevicesPlaced, ZonesMove, Onwards, IInv, Safe
  <1>6. QED
    BY <1>3, <1>4, <1>5 DEF Safe, ZonesMove

LEMMA StutterKeeps ==
  ASSUME IInv, ZonesMove, UNCHANGED vars
  PROVE  Safe'
  <1> USE DEF vars, tables, ids, locals, history
  <1>1. Onwards /\ UNCHANGED <<device, reading>>
    BY DEF Onwards
  <1>2. ASSUME NEW f \in Frames PROVE Idles(f)
    BY StillIdles DEF Idles
  <1>3. \A r \in reading : r.by \in Frames
    BY DEF IInv, TypeOK, Reading
  <1>4. FramesKept' /\ Committed' /\ DevicesPlaced'
    BY <1>1, <1>2, <1>3, IdleKeeps, CommittedStays, DevicesStay
    DEF FramesKept, Committed, Onwards
  <1>5. QED
    BY <1>4 DEF Safe, ZonesMove

LEMMA SafeInit == Init => Safe
  <1> SUFFICES ASSUME Init PROVE Safe
    OBVIOUS
  <1>1. /\ lastZone = Cardinality(Farmers) /\ lastZone \in Nat
        /\ \A f \in Frames : txn[f] = NoInserts
    BY FS_CardinalityType, OwnerAssumption DEF Init
  <1>2. \A z \in Zones : zone[z] # None => \E u \in Farmers : FarmZone[u] = z
    BY DEF Init
  <1>3. ZonesBorn
    <2>1. \A u \in Farmers : FarmZone[u] \in 1..lastZone
      BY <1>1, OwnerAssumption, BoundsAssumption DEF Zones
    <2>2. QED
      BY <1>1, <1>2, <2>1 DEF ZonesBorn, Settled, NoInserts
  <1>4. DevicesPlaced
    <2> SUFFICES ASSUME NEW d \in Devices, device[d] # None, device[d].zone # None
                 PROVE  zone[device[d].zone] # None
      BY DEF DevicesPlaced
    <2>1. PICK u \in Farmers : device[d].zone = FarmZone[u]
      <3>1. PICK t \in InitialTables : device = t.device
        BY DEF Init
      <3>2. QED
        BY <3>1, TableAssumption
    <2>2. FarmZone[u] \in Zones
      BY OwnerAssumption
    <2>3. \E w \in Farmers : FarmZone[w] = FarmZone[u]
      OBVIOUS
    <2>4. zone[FarmZone[u]] = [owner |-> CHOOSE w \in Farmers : FarmZone[w] = FarmZone[u],
                               lora |-> FALSE]
      BY <2>2, <2>3 DEF Init
    <2>5. zone[FarmZone[u]] \in ZoneRow
      BY <2>3, <2>4 DEF ZoneRow, Owners
    <2>6. QED
      BY <2>1, <2>5, NoneAssumption
  <1>5. Committed
    BY DEF Init, Committed
  <1>6. ASSUME NEW f \in Frames PROVE FrameInv(f)
    <2>1. /\ pc[f] \in {"absent", "waiting"} /\ found[f] = None /\ owned[f] = {}
          /\ target[f] = None
      BY DEF Init
    <2>2. Course(f)
      BY <1>1, <2>1 DEF Course, NoInserts, ForOwner, Placed
    <2>3. Informed(f) /\ Early(f)
      BY <2>1 DEF Informed, Early, Open, Placed, ForOwner
    <2>4. Aimed(f) /\ OwnedKnown(f) /\ Pending(f) /\ Intact(f)
      BY <1>1, <2>1 DEF Aimed, OwnedKnown, Pending, Intact, NoInserts
    <2>5. QED
      BY <2>2, <2>3, <2>4 DEF FrameInv
  <1>7. QED
    BY <1>3, <1>4, <1>5, <1>6 DEF Safe, FramesKept

LEMMA Invariant == Spec => []IInv
  <1>1. Init => IInv
    BY TypeInit, SafeInit DEF IInv
  <1>2. IInv /\ [Next]_vars => IInv'
    <2> SUFFICES ASSUME IInv, [Next]_vars PROVE IInv'
      OBVIOUS
    <2>1. TypeOK' /\ ZonesMove
      BY TypeNext, ZonesNext
    <2>2. Safe'
      BY <2>1, HandleKeeps, AdminKeeps, StutterKeeps DEF Next
    <2>3. QED
      BY <2>1, <2>2 DEF IInv
  <1>3. QED
    BY <1>1, <1>2, PTL DEF Spec

-----------------------------------------------------------------------------
(* What it is for *)

\* The tables and the handlers keep their types, for the writes of
\* ensure_lora_zone, auto_register_lora_device and the device routes.
THEOREM TypeCorrect == Spec => []TypeOK
  <1>1. IInv => TypeOK
    BY DEF IInv
  <1>2. QED
    BY <1>1, Invariant, PTL

\* Once committed, a reading sees the zones as they are.
LEMMA CommittedView ==
  ASSUME IInv, NEW r \in reading
  PROVE  /\ r.by \in Frames /\ r.zone \in Zones /\ r.user \in Owners
         /\ Right(r) /\ View(r.by, r.zone) = zone[r.zone]
         /\ zone[r.zone] # None
  <1>1. r.by \in Frames /\ r.zone \in Zones /\ r.user \in Owners
    BY DEF IInv, TypeOK, Reading, Target
  <1>2. Right(r) /\ txn[r.by].zones = {}
    BY <1>1, Now DEF Committed, Course
  <1>3. QED
    BY <1>1, <1>2 DEF View, Right

\* A mapping that survives the transfer of its device feeds nobody who does not
\* own the zone, and a reading that names an account lies in a zone of it
\* (handle_bivocom_uplink, first_zone_for), for every number of frames and edits.
THEOREM FeedsOwner == Spec => []FeedsTheOwner
  <1>1. IInv => FeedsTheOwner
    BY CommittedView DEF FeedsTheOwner, Right, Kind
  <1>2. QED
    BY <1>1, Invariant, PTL

\* A reading goes where its device was assigned while it was handled, or to a
\* catch-all zone because the device was nobody's, or to the first zone of the
\* account it names (resolve_device, ensure_lora_zone, first_zone_for).
THEOREM AsAssigned == Spec => []RoutedAsAssigned
  <1>1. IInv => RoutedAsAssigned
    <2> SUFFICES ASSUME IInv, NEW r \in reading
                 PROVE  /\ Kind(r.by) = "lora" =>
                             \/ \E v \in seen[r.by] \ {None} :
                                   Assigned(v) /\ v.owner = r.user /\ v.zone = r.zone
                             \/ /\ zone[r.zone].lora /\ zone[r.zone].owner = r.user
                                /\ \E v \in seen[r.by] : v = None \/ ~Assigned(v)
                        /\ Kind(r.by) = "client" =>
                             r.user = Lora \/ r.zone = Least(ZonesOf(r.user))
      BY DEF RoutedAsAssigned, Kind
    <2>1. Right(r) /\ View(r.by, r.zone) = zone[r.zone] /\ zone[r.zone] # None
      BY CommittedView
    <2>2. ASSUME Kind(r.by) = "client", r.user # Lora
          PROVE  r.zone = Least(ZonesOf(r.user))
      <3>1. r.user \in Farmers /\ r.zone \in ZonesOf(r.user)
        BY <2>1, <2>2, CommittedView DEF Owners, Right, ZonesOf
      <3>2. \A y \in ZonesOf(r.user) : r.zone <= y
        BY <2>1, <2>2, <3>1 DEF Right, First
      <3>3. ZonesOf(r.user) \in SUBSET Zones
        BY DEF ZonesOf
      <3>4. /\ Least(ZonesOf(r.user)) \in ZonesOf(r.user)
            /\ Least(ZonesOf(r.user)) <= r.zone
        BY <3>1, <3>3, LeastIsLeast
      <3>5. QED
        BY <3>1, <3>2, <3>3, <3>4, BoundsAssumption DEF Zones
    <2>3. QED
      BY <2>1, <2>2 DEF Right, Excused
  <1>2. QED
    BY <1>1, Invariant, PTL

\* No frame is lost to a conflict on a serial, a transfer or a mapping: only in
\* the race to provision the placeholder, or after a zone was deleted
\* (auto_register_lora_device, handle_chirpstack_uplink).
THEOREM ForCause == Spec => []LostForCause
  <1>1. IInv => LostForCause
    BY DEF IInv, Safe, FramesKept, FrameInv, Early, LostForCause
  <1>2. QED
    BY <1>1, Invariant, PTL
=============================================================================
