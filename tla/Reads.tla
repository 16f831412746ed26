------------------------------- MODULE Reads -------------------------------
(***************************************************************************)
(* The requests that only read.  Under READ COMMITTED each statement of a  *)
(* request sees what is committed when it begins, so one answer may be put *)
(* together from several states of the database: here one request reads    *)
(* while others commit.  An answer is judged against what the caller may   *)
(* see: what it shows must have been his to see at some moment while the   *)
(* request ran, and what was his to see throughout must be there.          *)
(*                                                                         *)
(* A statement that fails aborts the transaction, unless it runs inside a  *)
(* savepoint; some handlers swallow the exception without one.             *)
(***************************************************************************)
EXTENDS Naturals, ReadHandlers

CONSTANTS
  Caller,     \* the account of the owner, of the technician, of the staff
  Logins,     \* the accounts that may be deleted
  MaxEvents   \* bound on failing statements, and on what commits meanwhile

VARIABLES
  db,         \* the committed rows
  pc,         \* "new", "open", or how it ended: "ok", "refused", "failed"
  asked,      \* the endpoint that is asked, by whom, about which zone
  todo,       \* the statements still to execute
  grant,      \* the technician's grant as it was read, None when there is none
  scope,      \* the zones read from it, All for a caller without a grant
  shown,      \* the rows of the answer so far, as they were read
  aborted,    \* a statement has failed, and no savepoint was rolled back
  lost,       \* the kinds of row whose statement failed
  could, must,\* what the caller could see at some moment, and throughout
  moved,      \* the rows that changed zone, sector or group meanwhile
  changes, faults

answer == <<grant, scope, shown>>
seen   == <<could, must, moved>>
vars   == <<db, pc, asked, todo, answer, aborted, lost, seen, changes, faults>>

Init ==
    /\ pc = "new" /\ asked = None /\ todo = <<>> /\ grant = None /\ scope = All
    /\ shown = <<>> /\ aborted = FALSE /\ lost = {}
    /\ could = {} /\ must = {} /\ moved = {} /\ changes = 0 /\ faults = 0

-----------------------------------------------------------------------------
(* What a caller may see: stated over one state, whatever the statements *)

\* The zone of a row, by its device or as it is stored.
ZoneOf(q, v, k) ==
    CASE k \in Kinds["zone"]   -> k
      [] "device" \in DOMAIN v[k] ->
           IF q.by = "row" THEN v[k]["of"] ELSE _owner_zone(v, k)
      [] k \in Kinds["member"] -> Row(v, v[k]["ref"])["zone"]
      [] "zone" \in DOMAIN v[k] -> v[k]["zone"]
      [] OTHER                 -> Nowhere

Active(v)  == Row(v, TheGrant) # None /\ v[TheGrant]["active"]
Granted(v) == {v[k]["ref"] : k \in Of(v, TheGrant)}

\* A technician sees the owner's rows of the granted zones, and those that are
\* of no zone, as long as the grant is active.
Visible(q, v) ==
    {k \in Live(v) \cap UNION {Kinds[kind] : kind \in q.shows} :
        /\ q.zone # None => ZoneOf(q, v, k) = q.zone
        /\ q.active => v[k]["active"]
        /\ q.who # "staff" => k \notin Others
        /\ q.who = "technician" => Active(v) /\ ZoneOf(q, v, k) \in Granted(v) \cup {Nowhere}}

-----------------------------------------------------------------------------
(* A request *)

Ask(op, who, zone) ==
    LET e == Endpoint[op]
        q == [op |-> op, who |-> who, zone |-> zone, shows |-> e.shows, active |-> e.active,
              by |-> e.by]
    IN
    /\ pc = "new" /\ who \in e.who
    /\ pc' = "open" /\ asked' = q /\ todo' = e.plan
    /\ could' = Visible(q, db) /\ must' = Visible(q, db)
    /\ UNCHANGED <<db, answer, aborted, lost, moved, changes, faults>>

Does(what) == pc = "open" /\ todo # <<>> /\ ~aborted /\ Head(todo)[1] = what
Kind       == Head(todo)[2]
Guard      == Head(todo)[3]

Proceed(rest) ==
    todo' = rest /\ UNCHANGED <<db, pc, asked, aborted, lost, seen, changes, faults>>
Continue == Proceed(Tail(todo))
Show(found) ==
    /\ shown' = [k \in found \cup DOMAIN shown |-> IF k \in found THEN db[k] ELSE shown[k]]
    /\ Continue /\ UNCHANGED <<grant, scope>>
End(how) ==
    /\ pc' = how /\ todo' = <<>>
    /\ UNCHANGED <<db, asked, answer, aborted, lost, seen, changes, faults>>

\* Whose rows: a technician's own account has none but through the grant.
Mine(k) == (asked.who # "staff" => k \notin Others) /\ (asked.who = "technician" => grant # None)
In(k)   == scope = All \/ ZoneOf(asked, db, k) \in scope \cup {Nowhere}

Matching ==
    {k \in Kinds[Kind] \cap Live(db) :
        /\ Mine(k)
        /\ asked.zone # None => ZoneOf(asked, db, k) = asked.zone
        /\ asked.active => db[k]["active"]}
\* Mutant: the scope has been read, and is not looked at.
PermittedAnyway == Matching
Permitted == {k \in Matching : In(k)}

\* The account of the caller; a request that takes it to be there fails.
Account ==
    /\ Does("me") /\ (Guard = "strict" => Caller[asked.who] \in Live(db))
    /\ Continue /\ UNCHANGED answer

ReadGrant ==
    /\ Does("grant")
    /\ grant' = IF asked.who = "technician" /\ Active(db) THEN TheGrant ELSE None
    /\ scope' = IF asked.who = "technician" THEN {} ELSE All
    /\ Continue /\ UNCHANGED shown

ReadScope ==
    /\ Does("scope")
    /\ scope' = IF grant = None THEN scope ELSE Granted(db)
    /\ Continue /\ UNCHANGED <<grant, shown>>

SelectRows == Does("rows") /\ Show(Permitted)
SelectMore ==
    Does("more") /\ Show({k \in Kinds[Kind] \cap Live(db) : db[k]["of"] \in DOMAIN shown /\ In(k)})

\* The one row that is asked for: 404 when it is not there to be seen.
FindRow  ==
    Does("find") /\ Permitted # {}
      /\ Show(IF Kind \in asked.shows THEN Permitted ELSE {})
NotFound == Does("find") /\ Permitted = {} /\ End("refused")

\* Nothing to look for: the answer is the empty list.
Empty ==
    Does("some") /\ Proceed(IF scope = {} THEN <<>> ELSE Tail(todo)) /\ UNCHANGED answer

\* Look-ups for each row there is, by a column of it.
Missed ==
    \E k \in DOMAIN shown :
       Kind \in DOMAIN shown[k] /\ shown[k][Kind] \notin Live(db) \cup {None}
LookUp ==
    /\ Does("count") \/ (Does("each") /\ (Guard = "strict" => ~Missed))
    /\ Continue /\ UNCHANGED answer

\* The sectors are read, and the zones put under those they had been read with.
ArrangeRows ==
    /\ Does("arrange")
    /\ LET kept  == {k \in DOMAIN shown : k \in Kinds["zone"] =>
                                             shown[k]["of"] \in Matching \cup {None}}
           under == {k \in kept : k \in Kinds["zone"] \/ shown[k]["of"] \in kept}
       IN shown' = [k \in under \cup Matching |-> IF k \in under THEN shown[k] ELSE db[k]]
    /\ Continue /\ UNCHANGED <<grant, scope>>

\* AttributeError on what a look-up did not find.
Crash ==
    /\ \/ Does("me") /\ Guard = "strict" /\ Caller[asked.who] \notin Live(db)
       \/ Does("each") /\ Guard = "strict" /\ Missed
    /\ End("failed")

Answer == pc = "open" /\ todo = <<>> /\ End("ok")

-----------------------------------------------------------------------------
(* Faults *)

\* A statement fails: the savepoint is rolled back, or the exception swallowed
\* with the transaction aborted, or the request fails.
Fault ==
    /\ pc = "open" /\ todo # <<>> /\ ~aborted /\ Head(todo) # Some
    /\ faults = 0 /\ changes < MaxEvents /\ faults' = faults + 1
    /\ IF Guard \in {"savepoint", "swallowed"}
       THEN /\ todo' = Tail(todo)
            /\ aborted' = (Guard = "swallowed")
            /\ lost' = lost \cup {Kind}
            /\ UNCHANGED pc
       ELSE pc' = "failed" /\ todo' = <<>> /\ UNCHANGED <<aborted, lost>>
    /\ UNCHANGED <<db, asked, answer, seen, changes>>

\* In an aborted transaction every further statement fails.
Aborted ==
    /\ pc = "open" /\ todo # <<>> /\ aborted
    /\ IF Guard = "swallowed" THEN Continue /\ UNCHANGED answer ELSE End("failed")

-----------------------------------------------------------------------------
(* The others *)

Moves(v) ==
    {k \in Live(db) \cap Live(v) :
        db[k]["of"] # v[k]["of"] \/ ZoneOf(asked, db, k) # ZoneOf(asked, v, k)}

\* A transaction commits v while the request runs.
Change(v) ==
    /\ pc = "open" /\ changes + faults < MaxEvents /\ v # db
    /\ db' = v /\ changes' = changes + 1
    /\ could' = could \cup Visible(asked, v) /\ must' = must \cap Visible(asked, v)
    /\ moved' = moved \cup Moves(v) \cup UNION {Of(db, k) : k \in Moves(v)}
    /\ UNCHANGED <<pc, asked, todo, answer, aborted, lost, faults>>

Accounts(v) == Kinds["account"] \cap Live(v)

\* The user of a row is an account, or one that has left: the tables that the boot
\* makes have no foreign key.
KeysHold(v) ==
    \A k \in Live(v) :
       "user" \in DOMAIN v[k] => v[k]["user"] \in Accounts(v) \cup Logins \cup {None}

\* Somebody else's transaction, which deletes no account.
Commit(v) == Change(v) /\ KeysHold(v) /\ Accounts(db) \subseteq Accounts(v)

\* An account is deleted, in the browser of the tables.
Leave(a) == a \in Logins \cap Live(db) /\ Change([k \in Live(db) \ {a} |-> db[k]])

Next ==
    \/ \E op \in DOMAIN Endpoint, who \in DOMAIN Caller, zone \in Kinds["zone"] \cup {None} :
          Ask(op, who, zone)
    \/ Account \/ ReadGrant \/ ReadScope \/ SelectRows \/ SelectMore \/ FindRow \/ NotFound
    \/ Empty \/ LookUp \/ ArrangeRows \/ Crash \/ Answer \/ Fault \/ Aborted
    \/ \E v : Commit(v)
    \/ \E a \in Logins : Leave(a)

\* The callers have accounts to begin with, or had them.
Populated ==
    KeysHold(db) /\ {Caller[who] : who \in DOMAIN Caller} \subseteq Accounts(db) \cup Logins

Spec == Init /\ Populated /\ [][Next]_vars

-----------------------------------------------------------------------------
(* Properties *)

TypeOK ==
    /\ pc \in {"new", "open", "ok", "refused", "failed"}
    /\ asked = None <=> pc = "new"
    /\ grant \in {None, TheGrant}
    /\ scope = All \/ scope \subseteq Kinds["zone"]
    /\ DOMAIN shown \cup could \subseteq UNION {Kinds[k] : k \in DOMAIN Kinds}
    /\ must \subseteq could /\ aborted \in BOOLEAN
    /\ changes + faults \in 0..MaxEvents

\* A technician's grant was read before it was revoked or narrowed: the zones that
\* are looked at then are not all granted any more.
Outdated ==
    IF grant = None THEN {} ELSE IF Active(db) THEN scope \ Granted(db) ELSE scope \cup {Nowhere}

\* An answer is regular: whatever commits while it is put together, it shows no
\* row that its caller could see at no moment, and misses none that he could see
\* throughout; but for rows that were moved to another zone, sector or group
\* meanwhile, for those of zones that are not granted any more (one that is new there
\* he could never see), for what a failed statement would have brought, and for the
\* list of the streams of the zones, which goes on in an aborted transaction.
AnswersAreRegular ==
    pc = "ok" =>
       /\ DOMAIN shown \ moved \subseteq
             could \cup {k \in DOMAIN shown : ZoneOf(asked, shown @@ db, k) \in Outdated}
       /\ \/ must \ (moved \cup UNION {Kinds[kind] : kind \in lost}) \subseteq DOMAIN shown
          \/ aborted /\ asked.op = "available_sensors"

\* A read fails only with a statement that fails, or because an account was deleted
\* that it, or a row it takes, is of.
FailsForCause ==
    pc = "failed" => faults > 0 \/ ~(Logins \subseteq Live(db))
=============================================================================
