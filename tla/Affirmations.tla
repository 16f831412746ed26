---------------------------- MODULE Affirmations ----------------------------
(***************************************************************************)
(* Manager affirmations: a user asks for a change to a zone's parameters   *)
(* or for an account to be reactivated, an admin approves, which applies   *)
(* the change and stamps the affirmation in one transaction, or rejects.   *)
(* Staff also write the same rows directly, and delete zones.  The ORM     *)
(* writes the columns that differ from the row as it was loaded; an UPDATE *)
(* locks its row until the request commits.  Crop calendars have a module  *)
(* of their own.                                                           *)
(***************************************************************************)
EXTENDS Integers, FiniteSets

CONSTANTS
  Zones, Accounts,  \* the rows
  Owner,      \* each zone's user
  Affs,       \* affirmation ids
  Requester,  \* who asks
  Change,     \* what is asked: [row, fields], a payload never changes
  Patches,    \* what staff write directly, of the same form
  Initial,    \* the columns of each row
  Requests,   \* concurrent requests, each handled once
  None        \* a deleted row, a request without a job

Rows       == Zones \cup Accounts
Columns(x) == IF x \in Zones THEN {"fc", "wp"} ELSE {"active"}
Decisions  == {"approve", "reject"}

RowsAssumption ==
    /\ Zones \cap Accounts = {} /\ None \notin Rows /\ DOMAIN Initial = Rows
    /\ \A x \in Rows : Initial[x] \in [Columns(x) -> Nat]
    /\ \A z \in Zones : Initial[z]["fc"] >= Initial[z]["wp"]
PayloadsAssumption ==
    (\A a \in Affs : Change[a].row \in Rows) /\ (\A p \in Patches : p.row \in Rows)

VARIABLES
  rows,       \* the table rows, None once deleted
  status,     \* each affirmation's status, "absent" before it is created
  pc, job,    \* each request's place and what it was sent to do
  writes,     \* the columns it writes, from the row as it loaded it
  raced       \* the requests whose row another one wrote while they ran

vars == <<rows, status, pc, job, writes, raced>>

Jobs == [kind : Decisions, aff : Affs] \cup [kind : {"patch"}, patch : Patches]

NoWrites  == [f \in {} |-> 0]
Asked(r)  == IF job[r].kind = "patch" THEN job[r].patch ELSE Change[job[r].aff]

Init ==
    /\ rows = Initial
    /\ status = [a \in Affs |-> "absent"]
    /\ pc = [r \in Requests |-> "new"]
    /\ job = [r \in Requests |-> None]
    /\ writes = [r \in Requests |-> NoWrites]
    /\ raced = {}

Goto(r, place) == pc' = [pc EXCEPT ![r] = place]
\* The request is answered and its transaction, if open, is rolled back.
End(r) == Goto(r, "done") /\ UNCHANGED <<rows, status, job, writes, raced>>

-----------------------------------------------------------------------------
(* Requests *)

Create(a) ==
    /\ status[a] = "absent"
    /\ status' = [status EXCEPT ![a] = "pending"]
    /\ UNCHANGED <<rows, pc, job, writes, raced>>

\* Only what is pending can be decided.
Decidable(a) == status[a] = "pending"

Load(r, j) ==
    /\ pc[r] = "new"
    /\ job' = [job EXCEPT ![r] = j]
    /\ Goto(r, CASE j.kind = "patch"  -> "read"
                 [] ~Decidable(j.aff) -> "done"
                 [] j.kind = "reject" -> "stamp"
                 [] OTHER             -> "read")
    /\ UNCHANGED <<rows, status, writes, raced>>

\* The row, if the requester may change it: an account is anybody's to
\* reactivate, a zone its owner's.
Found(r) ==
    LET x == Asked(r).row IN
    /\ rows[x] # None
    /\ job[r].kind = "approve" /\ x \in Zones => Owner[x] = Requester[job[r].aff]

\* A payload names writable columns; fc and wp are compared when both are there.
Valid(c) ==
    /\ DOMAIN c.fields \subseteq Columns(c.row)
    /\ {"fc", "wp"} \subseteq DOMAIN c.fields => c.fields["fc"] >= c.fields["wp"]

Restriction(f, S) == [k \in S |-> f[k]]

\* Mutant: a zero is skipped.
DirtyNonZero(row, fields) ==
    Restriction(fields, {f \in DOMAIN fields : fields[f] # row[f] /\ fields[f] # 0})

\* The columns the ORM will write.
Dirty(row, fields) == Restriction(fields, {f \in DOMAIN fields : fields[f] # row[f]})

\* An affirmation without fields is approved without a look at the row.
Nothing(r) == job[r].kind = "approve" /\ DOMAIN Asked(r).fields = {}

Read(r) ==
    /\ pc[r] = "read"
    /\ IF ~Nothing(r) /\ ~(Valid(Asked(r)) /\ Found(r))
       THEN End(r)
       ELSE /\ writes' = [writes EXCEPT ![r] =
                 IF Nothing(r) THEN NoWrites
                 ELSE Dirty(rows[Asked(r).row], Asked(r).fields)]
            /\ Goto(r, IF DOMAIN writes'[r] # {} THEN "write"
                       ELSE IF job[r].kind = "approve" THEN "stamp" ELSE "commit")
            /\ UNCHANGED <<rows, status, job, raced>>

HoldsRow(q, x) ==
    /\ pc[q] \in {"stamp", "commit"} /\ DOMAIN writes[q] # {}
    /\ Asked(q).row = x
HoldsAff(q, a) == pc[q] = "commit" /\ job[q].kind \in Decisions /\ job[q].aff = a

Overwrite(row, w) ==
    [f \in DOMAIN row |-> IF f \in DOMAIN w THEN w[f] ELSE row[f]]

\* The UPDATE; a row that is gone by now is an error (500).
Write(r) ==
    /\ pc[r] = "write"
    /\ \A q \in Requests : ~HoldsRow(q, Asked(r).row)
    /\ IF rows[Asked(r).row] = None THEN End(r)
       ELSE /\ Goto(r, IF job[r].kind = "approve" THEN "stamp" ELSE "commit")
            /\ UNCHANGED <<rows, status, job, writes, raced>>

Stamp(r) ==
    /\ pc[r] = "stamp"
    /\ \A q \in Requests : ~HoldsAff(q, job[r].aff)
    /\ Goto(r, "commit")
    /\ UNCHANGED <<rows, status, job, writes, raced>>

Commit(r) ==
    /\ pc[r] = "commit"
    /\ Goto(r, "done")
    /\ rows' = IF DOMAIN writes[r] = {} THEN rows
               ELSE [rows EXCEPT ![Asked(r).row] = Overwrite(@, writes[r])]
    /\ status' = IF job[r].kind = "patch" THEN status
                 ELSE [status EXCEPT ![job[r].aff] =
                         IF job[r].kind = "approve" THEN "approved" ELSE "rejected"]
    /\ raced' = IF DOMAIN writes[r] = {} THEN raced
                ELSE raced \cup {q \in Requests \ {r} :
                       pc[q] \notin {"new", "done"} /\ Asked(q).row = Asked(r).row}
    /\ UNCHANGED <<job, writes>>

\* The process dies, or the client's database connection does.
Die(r) == pc[r] \notin {"new", "done"} /\ End(r)

Delete(z) ==
    /\ rows[z] # None
    /\ \A q \in Requests : ~HoldsRow(q, z)
    /\ rows' = [rows EXCEPT ![z] = None]
    /\ UNCHANGED <<status, pc, job, writes, raced>>

Handle(r) == Read(r) \/ Write(r) \/ Stamp(r) \/ Commit(r) \/ Die(r)

Next ==
    \/ \E a \in Affs : Create(a)
    \/ \E r \in Requests : Handle(r) \/ \E j \in Jobs : Load(r, j)
    \/ \E z \in Zones : Delete(z)

Spec == Init /\ [][Next]_vars

-----------------------------------------------------------------------------
(* Properties *)

Places == {"new", "read", "write", "stamp", "commit", "done"}
Decided == {"approved", "rejected"}

TypeOK ==
    /\ \A x \in Rows : rows[x] = None \/ rows[x] \in [Columns(x) -> Nat]
    /\ status \in [Affs -> {"absent", "pending"} \cup Decided]
    /\ pc \in [Requests -> Places]
    /\ \A r \in Requests : job[r] \in Jobs \cup {None}
    /\ raced \subseteq Requests

\* What an approval commits is what the row then holds, column by column, unless
\* another request wrote the row while this one ran.
ApprovedIsApplied ==
    [][\A r \in Requests \ raced :
          Commit(r) /\ job[r].kind = "approve" /\ rows'[Asked(r).row] # None =>
             \A f \in DOMAIN Asked(r).fields :
                 rows'[Asked(r).row][f] = Asked(r).fields[f]]_vars

\* "approved / rejected (immutable after)": a decided affirmation keeps its
\* decision, whoever decides when.
DecidedOnce ==
    [][\A a \in Affs : status[a] \in Decided => status'[a] = status[a]]_vars

\* "Field capacity (FC) cannot be lower than wilting point (WP)."
FieldCapacityAboveWilting ==
    \A z \in Zones : rows[z] # None => rows[z]["fc"] >= rows[z]["wp"]

=============================================================================
