---------------------------- MODULE FarmRecords ----------------------------
(***************************************************************************)
(* The records of the farms and of the back office, and every request that *)
(* writes them: an owner's sectors, notification zones, technicians, sensor*)
(* groups, alerts and map (FarmHandlers), and what the staff does to these *)
(* and to subscriptions, settings, display configurations and stored       *)
(* readings (StaffHandlers).  A request is one transaction of several      *)
(* statements.  Under READ COMMITTED each statement sees what is committed *)
(* when it begins; what a transaction wrote stays locked until its end,    *)
(* and a statement that waited for a row looks at that row again, but not  *)
(* for further rows.                                                       *)
(***************************************************************************)
EXTENDS FarmHandlers, StaffHandlers

CONSTANTS
  Requests,   \* concurrent requests, each handled once
  Jobs,       \* what they may ask
  Initial,    \* the rows there are at first
  Zones,      \* the zones among them
  Parents     \* those of them that foreign keys refer to

VARIABLES
  db,         \* the committed rows
  pc, job,    \* each request's place and job
  memo,       \* the row it loaded
  todo,       \* the statements it still has to execute
  want,       \* the rows its statement is about to write, None between two
  pend,       \* its uncommitted rows, None for a deleted one
  raced       \* the requests that were open while another one was

vars == <<db, pc, job, memo, todo, want, pend, raced>>

Open(r) == pc[r] \in {"load", "check", "run"}
Ended(r) == pc[r] \in {"ok", "refused", "failed"}

Idle ==
    /\ pc = [r \in Requests |-> "new"]
    /\ job = [r \in Requests |-> None]
    /\ memo = [r \in Requests |-> None]
    /\ todo = [r \in Requests |-> <<>>]
    /\ want = [r \in Requests |-> None]
    /\ pend = [r \in Requests |-> <<>>]
    /\ raced = {}

Init == db = Initial /\ Idle

\* What a statement of r sees: the committed rows and its own changes.
View(r) == pend[r] @@ db

Plan(j, m, v) ==
    IF j.op \in StaffOps THEN StaffPlan(j, m, v) ELSE OwnerPlan(j, m, v)

-----------------------------------------------------------------------------
(* Locks *)

\* The rows a statement needs: those that had the parent when it began, or the
\* ones it names, with what goes with them by now.
Targets(r) ==
    IF Head(todo[r]) \in {"clear", "detach", "purge"} THEN want[r]
    ELSE DOMAIN Writes(job[r], Head(todo[r]), memo[r], View(r))

\* A row that must be new waits for whoever is inserting or deleting the same;
\* the foreign key of a new member waits for whoever is about to delete or
\* rename its group, and keeps the group from it.
Rivals(r, q) ==
    /\ Head(todo[r]) \in {"fill", "join"}
    /\ Same(job[r], pend[q]) \cup (Same(job[r], db) \cap DOMAIN pend[q]) # {}
Shares(r, q) ==
    /\ Head(todo[r]) = "join" /\ Key(job[r]) \in DOMAIN pend[q]
    /\ pend[q][Key(job[r])] = None \/ Named(job[q]) # <<>>
Rekeys(r) == Head(todo[r]) = "erase" \/ Named(job[r]) # <<>>

WaitsFor(r, q) ==
    /\ q # r /\ Open(q) /\ Open(r) /\ want[r] # None
    /\ \/ Targets(r) \cap DOMAIN pend[q] # {}
       \/ Rivals(r, q) \/ Shares(r, q)
       \/ Rekeys(r) /\ Of(pend[q], Key(job[r])) # {}

Blocked(r) == \E q \in Requests : WaitsFor(r, q)

\* Requests each of which waits for another of them.
Deadlocked(S) ==
    /\ S # {}
    /\ \A r \in S : (\E q \in S : WaitsFor(r, q)) /\ (\E q \in S : WaitsFor(q, r))

-----------------------------------------------------------------------------
(* Requests *)

Goto(r, place) == pc' = [pc EXCEPT ![r] = place]

End(r, answer) ==
    /\ Goto(r, answer)
    /\ memo' = [memo EXCEPT ![r] = None]
    /\ todo' = [todo EXCEPT ![r] = <<>>]
    /\ want' = [want EXCEPT ![r] = None]
    /\ pend' = [pend EXCEPT ![r] = <<>>]
    /\ UNCHANGED <<job, raced>>

\* Without a commit there is nothing of it in the tables.
Quit(r, answer) == End(r, answer) /\ UNCHANGED db

Take(r, j) ==
    /\ pc[r] = "new"
    /\ job' = [job EXCEPT ![r] = [j EXCEPT !.by = r]]
    /\ Goto(r, "load")
    /\ LET others == {q \in Requests : Open(q)} IN
       raced' = IF others = {} THEN raced ELSE raced \cup others \cup {r}
    /\ UNCHANGED <<db, memo, todo, want, pend>>

Load(r) ==
    /\ pc[r] = "load"
    /\ IF Is(job[r], Loaders) /\ ~Owned(db, Subject(job[r])) THEN Quit(r, "refused")
       ELSE /\ memo' = [memo EXCEPT ![r] = Row(db, Subject(job[r]))]
            /\ Goto(r, "check")
            /\ UNCHANGED <<db, job, todo, want, pend, raced>>

Check(r) ==
    /\ pc[r] = "check"
    /\ todo' = [todo EXCEPT ![r] = Plan(job[r], memo[r], db)]
    /\ Goto(r, "run")
    /\ UNCHANGED <<db, job, memo, want, pend, raced>>

\* A statement begins: which rows it is about is decided now.
Scan(r) ==
    /\ pc[r] = "run" /\ todo[r] \notin {<<>>, Refused} /\ want[r] = None
    /\ want' = [want EXCEPT ![r] = DOMAIN Writes(job[r], Head(todo[r]), memo[r], View(r))]
    /\ UNCHANGED <<db, pc, job, memo, todo, pend, raced>>

\* A row that must be new exists, or the group of a new member does not.
Clashes(r) ==
    \/ Head(todo[r]) = "insert" /\ Targets(r) \cap Live(View(r)) # {}
    \/ Head(todo[r]) \in {"fill", "join"} /\ Same(job[r], View(r)) # {}
    \/ Head(todo[r]) = "patch" /\ Taken(job[r], View(r))
    \/ Head(todo[r]) = "join" /\ Key(job[r]) \notin Live(View(r))

\* The ORM finds fewer rows updated than it saved, or the row is gone when it
\* is read back for the answer.
Gone(r) == Head(todo[r]) \in {"save", "patch"} /\ Key(job[r]) \notin Live(View(r))

\* A counted DELETE that finds nothing: 404.
Missed(r) ==
    /\ Head(todo[r]) \in {"leave", "erase"}
    /\ DOMAIN Writes(job[r], Head(todo[r]), memo[r], View(r)) \cap Targets(r) = {}

\* It has every row it waited for, and writes those that still qualify.
Apply(r) ==
    /\ want[r] # None /\ ~Blocked(r) /\ ~Clashes(r) /\ ~Gone(r) /\ ~Missed(r)
    /\ LET rows == Writes(job[r], Head(todo[r]), memo[r], View(r)) IN
       pend' = [pend EXCEPT ![r] =
                  [k \in DOMAIN rows \cap Targets(r) |-> rows[k]] @@ @]
    /\ todo' = [todo EXCEPT ![r] = Tail(@)]
    /\ want' = [want EXCEPT ![r] = None]
    /\ UNCHANGED <<db, pc, job, memo, raced>>

\* The table browser catches what a statement violates.
Caught(r) == Clashes(r) /\ Is(job[r], {"create_row", "update_row", "delete_row"})

Fail(r) ==
    /\ want[r] # None /\ ~Blocked(r) /\ (Clashes(r) \/ Gone(r))
    /\ Quit(r, IF Caught(r) THEN "refused" ELSE "failed")

NotFound(r) ==
    /\ want[r] # None /\ ~Blocked(r) /\ Missed(r)
    /\ Quit(r, "refused")

\* The foreign keys of the Django models are deferred: they are looked at by the
\* commit, which waits for whoever is deleting a row it refers to.
Dangling(v) == \E k \in Live(v) : v[k]["of"] \in Parents \ Live(v)
Awaits(r, q) ==
    q # r /\ \E k \in Live(pend[r]) : pend[r][k]["of"] \in Parents \cap (DOMAIN pend[q] \ Live(pend[q]))

Finished(r) ==
    pc[r] = "run" /\ todo[r] \in {<<>>, Refused} /\ \A q \in Requests : ~Awaits(r, q)

Commit(r) ==
    /\ Finished(r) /\ ~Dangling(View(r))
    /\ db' = Present(View(r))
    /\ End(r, IF todo[r] = Refused THEN "refused" ELSE "ok")

Violate(r) == Finished(r) /\ Dangling(View(r)) /\ Quit(r, "failed")

\* Postgres breaks a cycle of waits by an error in one of its requests.
Victim(r) ==
    /\ \E S \in SUBSET Requests : r \in S /\ Deadlocked(S)
    /\ Quit(r, "failed")

Handle(r) ==
    \/ Load(r) \/ Check(r) \/ Scan(r) \/ Apply(r) \/ Fail(r) \/ NotFound(r)
    \/ Commit(r) \/ Violate(r) \/ Victim(r)

Next == \E r \in Requests : Handle(r) \/ \E j \in Jobs : Take(r, j)

Spec == Init /\ [][Next]_vars

-----------------------------------------------------------------------------
(* Properties *)

TypeOK ==
    /\ None \notin {db[k] : k \in DOMAIN db}
    /\ \A r \in Requests :
          /\ pc[r] \in {"new", "load", "check", "run", "ok", "refused", "failed"}
          /\ job[r] \in {[j EXCEPT !.by = r] : j \in Jobs} \cup {None}
          /\ pc[r] # "run" => todo[r] = <<>>
          /\ todo[r] \in {<<>>, Refused} => want[r] = None
          /\ ~Open(r) => pend[r] = <<>>
    /\ raced \subseteq Requests

\* A whole request, with nobody else there.
Alone(j, v) ==
    LET m == Row(v, Subject(j))
        Written(w, s) == IF s = "4xx" THEN w ELSE Present(Writes(j, s, m, w) @@ w)
        after == FoldLeft(Written, v, Plan(j, m, v))
    IN
    IF \/ Is(j, Loaders) /\ ~Owned(v, Subject(j))
       \/ Is(j, {"create_row"}) /\ Key(j) \in Live(v)
       \/ Dangling(after)
    THEN v ELSE after

\* The rows the lists show: without a parent, or with one that exists.
Listed(v) == {<<k, v[k]>> : k \in {c \in Live(v) : v[c]["of"] \in Live(v) \cup {None}}}

\* The open requests about one row whose outcome the code lets be that of
\* neither order: the replaced scope of a technician, the replaced zones of a
\* sector, the map preferences and the assistant's settings that are written
\* back as they were loaded, what is made because none was found (twice, or for
\* a zone that has lost its data), and a column that is not saved because it
\* was loaded as it is sent.
KnownToMix ==
    {{"set_scope"}, {"set_sector_zones"}, {"set_sector_zones", "delete_sector"},
     {"put_map_preferences"}, {"put_config"},
     {"get_config"}, {"get_config", "patch_config"}, {"patch_config"},
     {"backfill"}, {"backfill", "delete_range"}}
SavesDirty ==
    {"update_sector", "update_zone", "_write_existing", "_do_update_zone", "upsert_conversation"}

Unserialized ==
    \E r, q \in raced :
       /\ r # q /\ job[r].id = job[q].id
       /\ \/ {job[r].op, job[q].op} \in KnownToMix
          \/ /\ {job[r].op, job[q].op} \subseteq SavesDirty
             /\ DOMAIN job[r].fields \cap DOMAIN job[q].fields # {}

\* Whatever the interleaving, the requests that were answered leave the farm as
\* some order of them, one after the other, would have left it.
SerialUnlessKnown ==
    (\A r \in Requests : ~Open(r)) =>
       \/ Unserialized
       \/ \E order \in SetToSeqs({r \in Requests : pc[r] \in {"ok", "refused"}}) :
             Listed(db) = Listed(FoldLeft(LAMBDA v, r : Alone(job[r], v), Initial, order))

=============================================================================
