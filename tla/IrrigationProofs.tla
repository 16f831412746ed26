-------------------------- MODULE IrrigationProofs --------------------------
(***************************************************************************)
(* A program opens its valve once per start instant, for any programs,     *)
(* workers, window, schedule and edits.  That is not inductive: it needs   *)
(* that a claimed row has one holder, that an uncommitted claim is still   *)
(* older than a window against the committed last_run_at, which only its   *)
(* holder can move, and that no recorded opening is later than that stamp. *)
(* Nor does a committing run leave a due program behind: a program it is   *)
(* done with it claims, or has run inside its window (SInv).               *)
(***************************************************************************)
EXTENDS IrrigationRunner, WellFoundedInduction, TLAPS

\* A row claimed by an open transaction is claimed by no other.
OneHolder ==
    \A v, w \in Workers : \A p \in Programs :
        p \in Claimed(v) /\ p \in Claimed(w) => v = w

\* What a run has still to visit it has loaded and not claimed; what it is
\* about to claim is due by the row it loaded; an idle worker claims nothing.
Visiting ==
    \A w \in Workers :
        /\ pc[w] = "idle" => claims[w] = {}
        /\ \A p \in todo[w] : seen[w][p] # None /\ p \notin Claimed(w)
        /\ pc[w] \in {"claim", "reclaim"} =>
              todo[w] # {} /\ Due(seen[w][Head(w)].set, ref[w])

\* An uncommitted claim is due against the committed last_run_at.
Claimable(c, row) == row # None /\ (row.last = None \/ row.last < c.at - Window)
ClaimsDue ==
    \A w \in Workers : \A c \in claims[w] :
        /\ c.program \in Programs /\ c.at = ref[w]
        /\ Claimable(c, rows[c.program])
        /\ \A d \in claims[w] : c.program = d.program => c = d

\* A recorded opening is not later than its program's last_run_at.
Behind(c, row) == row # None => row.last # None /\ c.at <= row.last
CommandsBehind ==
    \A c \in commands : c.program # None =>
        c.program \in born /\ Behind(c, rows[c.program])

\* A row has an id that was handed out.
RowsBorn == \A p \in Programs : rows[p] # None => p \in born

\* An opening lies in the window that follows its start instant.
InWindow(c) == c.due <= c.at /\ c.at - Window <= c.due
OpeningsInWindow ==
    /\ \A c \in commands : c.program # None => InWindow(c)
    /\ \A w \in Workers : \A c \in claims[w] : InWindow(c)

IInv ==
    /\ TypeOK /\ OneHolder /\ Visiting /\ ClaimsDue
    /\ CommandsBehind /\ RowsBorn /\ OpeningsInWindow /\ FiringsApart

USE TimesAssumption, IdsAssumption

-----------------------------------------------------------------------------
(* Type correctness *)

\* A run that has programs left visits one of them.
LEMMA HeadInTodo ==
  ASSUME TypeOK, NEW w \in Workers, todo[w] # {}
  PROVE  Head(w) \in todo[w] /\ Head(w) \in Programs
  <1>1. todo[w] \subseteq Nat /\ todo[w] \subseteq Programs
    BY DEF TypeOK
  <1>2. PICK p \in todo[w] : \A q \in todo[w] : ~(<<q, p>> \in OpToRel(<, Nat))
    BY <1>1, WFMin, NatLessThanWellFounded, Zenon
  <1>3. \A q \in Nat : q < p => <<q, p>> \in OpToRel(<, Nat)
    BY <1>1, Zenon DEF OpToRel
  <1>4. \A q \in todo[w] : ~(q < p)
    BY <1>1, <1>2, <1>3, Zenon
  <1>5. \A q \in todo[w] : p <= q
    BY <1>1, <1>4
  <1>6. QED
    BY <1>1, <1>5 DEF Head

\* A start instant is an integer.
LEMMA StartOfType ==
  ASSUME NEW s \in Settings, NEW t \in Nat
  PROVE  StartOf(s, t) \in Int
  <1>1. t % Day \in 0..(Day - 1)
    OBVIOUS
  <1>2. s.start \in 0..(Day - 1)
    BY DEF Settings
  <1>3. QED
    BY <1>1, <1>2 DEF StartOf, Midnight

\* A worker that ends or dies keeps the types.
LEMMA ResetType ==
  ASSUME TypeOK, NEW w \in Workers, Reset(w)
  PROVE  /\ pc' \in [Workers -> {"idle", "check", "claim", "reclaim"}]
         /\ ref' \in [Workers -> Nat]
         /\ todo' \in [Workers -> SUBSET Programs]
         /\ seen' \in [Workers -> [Programs -> Program \cup {None}]]
         /\ claims' \in [Workers -> SUBSET Command]
  BY DEF TypeOK, Reset

\* The row of a command that a claim inserts.
Opening(w) ==
    [program |-> Head(w), zone |-> seen[w][Head(w)].set.zone, at |-> ref[w],
     due |-> StartOf(seen[w][Head(w)].set, ref[w]), by |-> w, status |-> Outcome]

LEMMA OpeningType ==
  ASSUME TypeOK, Visiting, NEW w \in Workers, todo[w] # {}
  PROVE  Opening(w) \in Command
  <1>1. Head(w) \in todo[w] /\ Head(w) \in Programs
    BY HeadInTodo
  <1>2. seen[w][Head(w)] \in Program
    <2>1. seen[w] \in [Programs -> Program \cup {None}]
      BY DEF TypeOK
    <2>2. seen[w][Head(w)] # None
      BY <1>1 DEF Visiting
    <2>3. QED
      BY <1>1, <2>1, <2>2
  <1>3. seen[w][Head(w)].set \in Settings /\ ref[w] \in Nat
    BY <1>2 DEF TypeOK, Program
  <1>4. seen[w][Head(w)].set.zone \in Zones
    BY <1>3 DEF Settings
  <1>5. StartOf(seen[w][Head(w)].set, ref[w]) \in Int
    BY <1>3, StartOfType
  <1>6. Outcome \in {"simulated", "failed"}
    BY DEF Outcome
  <1>7. QED
    BY <1>1, <1>3, <1>4, <1>5, <1>6 DEF Opening, Command

LEMMA TakeType ==
  ASSUME TypeOK, Visiting, NEW w \in Workers, todo[w] # {}, Take(w)
  PROVE  /\ claims' \in [Workers -> SUBSET Command]
         /\ claims' = [claims EXCEPT ![w] = @ \cup {Opening(w)}]
         /\ pc' \in [Workers -> {"idle", "check", "claim", "reclaim"}]
         /\ todo' \in [Workers -> SUBSET Programs]
  <1>1. claims' = [claims EXCEPT ![w] = @ \cup {Opening(w)}]
    BY DEF Take, Opening
  <1>2. Opening(w) \in Command
    BY OpeningType
  <1>3. claims' \in [Workers -> SUBSET Command]
    BY <1>1, <1>2 DEF TypeOK
  <1>4. QED
    BY <1>1, <1>3 DEF TypeOK, Take, Next1

\* The claimed rows exist.
LEMMA ClaimedRows ==
  ASSUME TypeOK, ClaimsDue, NEW w \in Workers, NEW p \in Claimed(w)
  PROVE  p \in Programs /\ rows[p] \in Program
  <1>1. PICK c \in claims[w] : p = c.program
    BY DEF Claimed
  <1>2. p \in Programs /\ rows[p] # None
    BY <1>1 DEF ClaimsDue, Claimable
  <1>3. QED
    BY <1>2 DEF TypeOK

\* A stamp keeps a row a row, and so do new settings.
LEMMA StampType ==
  ASSUME NEW r \in Program, NEW t \in Nat
  PROVE  [r EXCEPT !.last = t] \in Program
  BY DEF Program

LEMMA SettingsType ==
  ASSUME NEW r \in Program, NEW t \in Nat, NEW s \in Settings
  PROVE  [r EXCEPT !.set = s, !.updated = t] \in Program
  BY DEF Program

LEMMA TypeInit == Init => TypeOK
  BY DEF Init, TypeOK

LEMMA TypeNext == TypeOK /\ Visiting /\ ClaimsDue /\ [Next]_vars => TypeOK'
  <1> SUFFICES ASSUME TypeOK, Visiting, ClaimsDue, [Next]_vars PROVE TypeOK'
    OBVIOUS
  <1>1. ASSUME NEW w \in Workers, Start(w) PROVE TypeOK'
    BY <1>1 DEF TypeOK, Start, database, bounds
  <1>2. ASSUME NEW w \in Workers, Visit(w) PROVE TypeOK'
    <2>1. /\ \/ pc' = [pc EXCEPT ![w] = "claim"] /\ UNCHANGED todo
             \/ Next1(w)
          /\ UNCHANGED <<now, database, ref, seen, claims, bounds>>
      BY <1>2 DEF Visit
    <2>2. /\ pc' \in [Workers -> {"idle", "check", "claim", "reclaim"}]
          /\ todo' \in [Workers -> SUBSET Programs]
      <3>1. CASE pc' = [pc EXCEPT ![w] = "claim"] /\ UNCHANGED todo
        BY <3>1 DEF TypeOK
      <3>2. CASE Next1(w)
        BY <3>2 DEF Next1, TypeOK
      <3>3. QED
        BY <2>1, <3>1, <3>2
    <2>3. QED
      BY <2>1, <2>2 DEF TypeOK, database, bounds
  <1>3. ASSUME NEW w \in Workers, ClaimFirst(w) PROVE TypeOK'
    <2>1. todo[w] # {}
      BY <1>3 DEF ClaimFirst, Visiting
    <2>2. /\ claims' \in [Workers -> SUBSET Command]
          /\ pc' \in [Workers -> {"idle", "check", "claim", "reclaim"}]
          /\ todo' \in [Workers -> SUBSET Programs]
      BY <1>3, <2>1, TakeType DEF ClaimFirst, TypeOK
    <2>3. QED
      BY <1>3, <2>2 DEF TypeOK, ClaimFirst, database, bounds
  <1>4. ASSUME NEW w \in Workers, ClaimAgain(w) PROVE TypeOK'
    <2>1. todo[w] # {}
      BY <1>4 DEF ClaimAgain, Visiting
    <2>2. /\ claims' \in [Workers -> SUBSET Command]
          /\ pc' \in [Workers -> {"idle", "check", "claim", "reclaim"}]
          /\ todo' \in [Workers -> SUBSET Programs]
      <3>1. CASE Take(w)
        BY <2>1, <3>1, TakeType
      <3>2. CASE Next1(w) /\ UNCHANGED claims
        BY <3>2 DEF Next1, TypeOK
      <3>3. QED
        BY <1>4, <3>1, <3>2 DEF ClaimAgain
    <2>3. QED
      BY <1>4, <2>2 DEF TypeOK, ClaimAgain, database, bounds
  <1>5. ASSUME NEW w \in Workers, Commit(w) PROVE TypeOK'
    <2>1. ASSUME NEW p \in Claimed(w)
          PROVE  [rows[p] EXCEPT !.last = ref[w]] \in Program
      <3>1. rows[p] \in Program /\ ref[w] \in Nat
        BY ClaimedRows DEF TypeOK
      <3>2. QED
        BY <3>1, StampType
    <2>2. rows' \in [Programs -> Program \cup {None}]
      BY <1>5, <2>1 DEF Commit, TypeOK
    <2>3. commands' \in SUBSET Command
      BY <1>5 DEF Commit, TypeOK
    <2>4. QED
      BY <1>5, <2>2, <2>3, ResetType DEF TypeOK, Commit, bounds
  <1>6. ASSUME NEW w \in Workers, Crash(w) PROVE TypeOK'
    BY <1>6, ResetType DEF TypeOK, Crash, database, bounds
  <1>7. ASSUME NEW p \in Programs, NEW s \in Settings, Create(p, s) PROVE TypeOK'
    <2>1. [set |-> s, updated |-> now, last |-> None] \in Program
      BY DEF Program, TypeOK
    <2>2. QED
      BY <1>7, <2>1 DEF TypeOK, Create, Request, worker, database
  <1>8. ASSUME NEW p \in Programs, NEW s \in Settings, Update(p, s) PROVE TypeOK'
    <2>1. rows[p] \in Program /\ now \in Nat
      BY <1>8 DEF TypeOK, Update
    <2>2. [rows[p] EXCEPT !.set = s, !.updated = now] \in Program
      BY <2>1, SettingsType
    <2>3. rows' = [rows EXCEPT ![p] = [rows[p] EXCEPT !.set = s, !.updated = now]]
      BY <1>8 DEF Update, TypeOK
    <2>4. rows' \in [Programs -> Program \cup {None}]
      BY <2>2, <2>3 DEF TypeOK
    <2>5. QED
      BY <1>8, <2>4 DEF TypeOK, Update, Request, worker
  <1>9. ASSUME NEW p \in Programs, Delete(p) PROVE TypeOK'
    BY <1>9 DEF TypeOK, Delete, Request, worker
  <1>10. ASSUME NEW z \in Zones, Manual(z) PROVE TypeOK'
    BY <1>10 DEF TypeOK, Manual, Command, Outcome, Request, worker
  <1>11. ASSUME NEW z \in Zones, DeleteZone(z) PROVE TypeOK'
    BY <1>11 DEF TypeOK, DeleteZone, Request, worker
  <1>12. CASE Tick
    BY <1>12 DEF TypeOK, Tick, database, worker, bounds
  <1>13. CASE UNCHANGED vars
    BY <1>13 DEF TypeOK, vars, database, worker, bounds
  <1>14. QED
    BY <1>1, <1>2, <1>3, <1>4, <1>5, <1>6, <1>7, <1>8, <1>9, <1>10, <1>11,
       <1>12, <1>13 DEF Next, Run

-----------------------------------------------------------------------------
(* Locks and claims *)

\* What an open transaction holds after a claim.
LEMMA TakeClaims ==
  ASSUME TypeOK, Visiting, ClaimsDue, NEW w \in Workers, todo[w] # {}, Take(w)
  PROVE  /\ claims' = [claims EXCEPT ![w] = @ \cup {Opening(w)}]
         /\ todo' = [todo EXCEPT ![w] = @ \ {Head(w)}]
         /\ pc' = [pc EXCEPT ![w] = "check"]
         /\ \A v \in Workers : Claimed(v)' =
               IF v = w THEN Claimed(w) \cup {Head(w)} ELSE Claimed(v)
  <1>1. /\ claims' = [claims EXCEPT ![w] = @ \cup {Opening(w)}]
        /\ todo' = [todo EXCEPT ![w] = @ \ {Head(w)}]
        /\ pc' = [pc EXCEPT ![w] = "check"]
    BY DEF Take, Opening, Next1
  <1>2. Opening(w).program = Head(w)
    BY DEF Opening
  <1>3. \A v \in Workers : claims'[v] =
          IF v = w THEN claims[w] \cup {Opening(w)} ELSE claims[v]
    BY <1>1 DEF TypeOK
  <1>4. QED
    BY <1>1, <1>2, <1>3 DEF Claimed

\* What remains after a transaction has ended.
LEMMA ResetClaims ==
  ASSUME TypeOK, NEW w \in Workers, Reset(w)
  PROVE  \A v \in Workers :
            /\ claims'[v] = IF v = w THEN {} ELSE claims[v]
            /\ Claimed(v)' = IF v = w THEN {} ELSE Claimed(v)
            /\ todo'[v] = IF v = w THEN {} ELSE todo[v]
            /\ v # w => pc'[v] = pc[v] /\ ref'[v] = ref[v] /\ seen'[v] = seen[v]
            /\ v = w => pc'[v] = "idle"
  <1>1. \A v \in Workers :
            /\ claims'[v] = IF v = w THEN {} ELSE claims[v]
            /\ todo'[v] = IF v = w THEN {} ELSE todo[v]
            /\ v # w => pc'[v] = pc[v] /\ ref'[v] = ref[v] /\ seen'[v] = seen[v]
            /\ v = w => pc'[v] = "idle"
    BY DEF Reset, TypeOK
  <1>2. QED
    BY <1>1 DEF Claimed

\* The three ways a step can treat the uncommitted claims.
LEMMA ClaimsSteps ==
  ASSUME TypeOK, Visiting, [Next]_vars
  PROVE  \/ UNCHANGED claims
         \/ \E w \in Workers :
              /\ Take(w) /\ ~LockedOut(w) /\ pc[w] \in {"claim", "reclaim"}
              /\ NeverRan(w) \/ RanLongAgo(w)
              /\ UNCHANGED <<database, ref, seen>>
         \/ \E w \in Workers : Commit(w) \/ Crash(w)
  BY DEF Next, Run, Start, Visit, ClaimFirst, ClaimAgain, Create, Update, Delete,
         Manual, DeleteZone, Tick, vars, worker

\* How a step can treat the table and the recorded commands.
LEMMA TableSteps ==
  ASSUME [Next]_vars
  PROVE  \/ UNCHANGED <<rows, born, commands>>
         \/ \E p \in Programs, s \in Settings : Create(p, s) \/ Update(p, s)
         \/ \E p \in Programs : Delete(p)
         \/ \E z \in Zones : Manual(z)
         \/ \E w \in Workers : Commit(w)
  BY DEF Next, Run, Start, Visit, ClaimFirst, ClaimAgain, Crash, DeleteZone, Tick,
         vars, database

LEMMA HeadSame ==
  ASSUME NEW w, todo'[w] = todo[w]
  PROVE  Head(w)' = Head(w)
  BY DEF Head

LEMMA OneHolderNext ==
  ASSUME TypeOK, Visiting, ClaimsDue, OneHolder, [Next]_vars
  PROVE  OneHolder'
  <1>1. CASE UNCHANGED claims
    BY <1>1 DEF OneHolder, Claimed
  <1>2. ASSUME NEW w \in Workers, Take(w), ~LockedOut(w), pc[w] \in {"claim", "reclaim"}
        PROVE  OneHolder'
    <2>1. \A v \in Workers : Claimed(v)' =
             IF v = w THEN Claimed(w) \cup {Head(w)} ELSE Claimed(v)
      BY <1>2, TakeClaims DEF Visiting
    <2>2. \A v \in Workers : v # w => Head(w) \notin Claimed(v)
      BY <1>2 DEF LockedOut
    <2>3. QED
      BY <2>1, <2>2 DEF OneHolder
  <1>3. ASSUME NEW w \in Workers, Reset(w) PROVE OneHolder'
    BY <1>3, ResetClaims DEF OneHolder
  <1>4. QED
    BY <1>1, <1>2, <1>3, ClaimsSteps DEF Commit, Crash

LEMMA VisitingNext ==
  ASSUME TypeOK, Visiting, ClaimsDue, [Next]_vars
  PROVE  Visiting'
  <1> DEFINE Fine(w) ==
        /\ pc[w] = "idle" => claims[w] = {}
        /\ \A p \in todo[w] : seen[w][p] # None /\ p \notin Claimed(w)
        /\ pc[w] \in {"claim", "reclaim"} =>
              todo[w] # {} /\ Due(seen[w][Head(w)].set, ref[w])
  <1> SUFFICES ASSUME NEW v \in Workers PROVE Fine(v)'
    BY DEF Visiting
  <1>0. Fine(v)
    BY DEF Visiting
  <1>1. ASSUME UNCHANGED <<pc[v], ref[v], todo[v], seen[v], claims[v]>>
        PROVE  Fine(v)'
    <2>1. Head(v)' = Head(v) /\ Claimed(v)' = Claimed(v)
      BY <1>1, HeadSame DEF Claimed
    <2>2. Due(seen[v][Head(v)].set, ref[v])' = Due(seen[v][Head(v)].set, ref[v])
      BY <1>1, <2>1 DEF Due, Allowed, Weekday, StartOf, Midnight
    <2>3. QED
      BY <1>0, <1>1, <2>1, <2>2
  <1>2. ASSUME NEW w \in Workers, Start(w) PROVE Fine(v)'
    <2>1. CASE v = w
      BY <1>0, <1>2, <2>1 DEF Start, TypeOK, Claimed
    <2>2. CASE v # w
      BY <1>1, <1>2, <2>2 DEF Start, TypeOK
    <2>3. QED
      BY <2>1, <2>2
  <1>3. ASSUME NEW w \in Workers, Visit(w) PROVE Fine(v)'
    <2>1. CASE v # w
      BY <1>1, <1>3, <2>1 DEF Visit, Next1, TypeOK
    <2>2. CASE v = w /\ Next1(w)
      BY <1>0, <1>3, <2>2 DEF Visit, Next1, TypeOK, Claimed
    <2>3. CASE v = w /\ Due(seen[w][Head(w)].set, ref[w])
                /\ pc' = [pc EXCEPT ![w] = "claim"] /\ UNCHANGED todo
      <3>1. Head(v)' = Head(v) /\ Claimed(v)' = Claimed(v)
        BY <1>3, <2>3, HeadSame DEF Claimed, Visit
      <3>2. Due(seen[v][Head(v)].set, ref[v])'
        BY <1>3, <2>3, <3>1 DEF Visit, Due, Allowed, Weekday, StartOf, Midnight
      <3>3. QED
        BY <1>0, <1>3, <2>3, <3>1, <3>2 DEF Visit, TypeOK
    <2>4. QED
      BY <1>3, <2>1, <2>2, <2>3 DEF Visit
  <1>4. ASSUME NEW w \in Workers, Take(w), pc[w] \in {"claim", "reclaim"},
               UNCHANGED <<ref, seen>>
        PROVE  Fine(v)'
    <2>1. todo[w] # {}
      BY <1>4 DEF Visiting
    <2>2. /\ todo' = [todo EXCEPT ![w] = @ \ {Head(w)}]
          /\ pc' = [pc EXCEPT ![w] = "check"]
          /\ claims' = [claims EXCEPT ![w] = @ \cup {Opening(w)}]
          /\ Claimed(v)' = IF v = w THEN Claimed(w) \cup {Head(w)} ELSE Claimed(v)
      BY <1>4, <2>1, TakeClaims
    <2>3. CASE v = w
      BY <1>0, <1>4, <2>2, <2>3 DEF TypeOK
    <2>4. CASE v # w
      BY <1>1, <1>4, <2>2, <2>4 DEF TypeOK
    <2>5. QED
      BY <2>3, <2>4
  <1>5. ASSUME NEW w \in Workers, pc[w] = "claim",
               pc' = [pc EXCEPT ![w] = "reclaim"], UNCHANGED <<ref, todo, seen, claims>>
        PROVE  Fine(v)'
    <2>1. Head(v)' = Head(v) /\ Claimed(v)' = Claimed(v)
      BY <1>5, HeadSame DEF Claimed
    <2>2. Due(seen[v][Head(v)].set, ref[v])' = Due(seen[v][Head(v)].set, ref[v])
      BY <1>5, <2>1 DEF Due, Allowed, Weekday, StartOf, Midnight
    <2>3. pc'[v] = pc[v] \/ (v = w /\ pc'[v] = "reclaim")
      BY <1>5 DEF TypeOK
    <2>4. QED
      BY <1>0, <1>5, <2>1, <2>2, <2>3
  <1>6. ASSUME NEW w \in Workers, Next1(w), UNCHANGED <<ref, seen, claims>>
        PROVE  Fine(v)'
    <2>1. CASE v # w
      BY <1>1, <1>6, <2>1 DEF Next1, TypeOK
    <2>2. CASE v = w
      BY <1>0, <1>6, <2>2 DEF Next1, TypeOK, Claimed
    <2>3. QED
      BY <2>1, <2>2
  <1>7. ASSUME NEW w \in Workers, Reset(w) PROVE Fine(v)'
    <2>1. CASE v = w
      BY <1>7, <2>1, ResetClaims
    <2>2. CASE v # w
      BY <1>1, <1>7, <2>2, ResetClaims
    <2>3. QED
      BY <2>1, <2>2
  <1>8. ASSUME UNCHANGED worker PROVE Fine(v)'
    BY <1>1, <1>8 DEF worker
  <1>9. ASSUME NEW w \in Workers, ClaimFirst(w) PROVE Fine(v)'
    BY <1>4, <1>5, <1>9 DEF ClaimFirst
  <1>10. ASSUME NEW w \in Workers, ClaimAgain(w) PROVE Fine(v)'
    BY <1>4, <1>6, <1>10 DEF ClaimAgain
  <1>11. QED
    BY <1>2, <1>3, <1>7, <1>8, <1>9, <1>10
       DEF Next, Run, Commit, Crash, Create, Update, Delete, Manual, DeleteZone,
           Tick, vars

-----------------------------------------------------------------------------
(* The claims against the table *)

\* A claim stays due: only its holder can move the row it locks.
LEMMA ClaimableNext ==
  ASSUME TypeOK, OneHolder, ClaimsDue, RowsBorn, [Next]_vars,
         NEW v \in Workers, NEW c \in claims[v],
         \A w \in Workers : Commit(w) => w # v
  PROVE  Claimable(c, rows'[c.program])
  <1>0. /\ c.program \in Programs /\ Claimable(c, rows[c.program])
        /\ c.program \in Claimed(v)
    BY DEF ClaimsDue, Claimed
  <1>1. Locked(c.program)
    BY <1>0 DEF Locked
  <1>2. ASSUME NEW p \in Programs, NEW s \in Settings, Create(p, s)
        PROVE  Claimable(c, rows'[c.program])
    BY <1>0, <1>2 DEF Create, RowsBorn, TypeOK, Claimable
  <1>3. ASSUME NEW p \in Programs, NEW s \in Settings, Update(p, s)
        PROVE  Claimable(c, rows'[c.program])
    BY <1>0, <1>1, <1>3 DEF Update, TypeOK
  <1>4. ASSUME NEW p \in Programs, Delete(p)
        PROVE  Claimable(c, rows'[c.program])
    BY <1>0, <1>1, <1>4 DEF Delete, TypeOK
  <1>5. ASSUME NEW w \in Workers, Commit(w)
        PROVE  Claimable(c, rows'[c.program])
    <2>1. c.program \notin Claimed(w)
      BY <1>0, <1>5 DEF OneHolder
    <2>2. QED
      BY <1>0, <1>5, <2>1 DEF Commit
  <1>6. ASSUME UNCHANGED rows PROVE Claimable(c, rows'[c.program])
    BY <1>0, <1>6
  <1>7. QED
    BY <1>2, <1>3, <1>4, <1>5, <1>6, TableSteps DEF Manual

LEMMA ClaimsDueNext ==
  ASSUME TypeOK, Visiting, OneHolder, ClaimsDue, RowsBorn, [Next]_vars
  PROVE  ClaimsDue'
  <1> DEFINE Fine(v, c) ==
        /\ c.program \in Programs /\ c.at = ref[v]
        /\ Claimable(c, rows[c.program])
        /\ \A d \in claims[v] : c.program = d.program => c = d
  <1> SUFFICES ASSUME NEW v \in Workers, NEW c \in claims'[v] PROVE Fine(v, c)'
    BY DEF ClaimsDue
  <1>0. c \in claims[v] => Fine(v, c)
    BY DEF ClaimsDue
  <1>1. CASE UNCHANGED claims
    <2>1. c \in claims[v] /\ pc[v] # "idle"
      BY <1>1 DEF Visiting
    <2>2. ref'[v] = ref[v] /\ \A w \in Workers : Commit(w) => w # v
      BY <1>1, <2>1, ResetClaims
         DEF Next, Run, Start, Visit, ClaimFirst, ClaimAgain, Create, Update, Delete,
             Manual, DeleteZone, Tick, vars, worker, Commit, Crash, TypeOK
    <2>3. Claimable(c, rows'[c.program])
      BY <2>1, <2>2, ClaimableNext
    <2>4. QED
      BY <1>0, <1>1, <2>1, <2>2, <2>3 DEF Claimable
  <1>2. ASSUME NEW w \in Workers, Take(w), pc[w] \in {"claim", "reclaim"},
               NeverRan(w) \/ RanLongAgo(w), UNCHANGED <<database, ref, seen>>
        PROVE  Fine(v, c)'
    <2>1. /\ todo[w] # {} /\ Head(w) \in todo[w] /\ Head(w) \in Programs
          /\ claims' = [claims EXCEPT ![w] = @ \cup {Opening(w)}]
      BY <1>2, TakeClaims, HeadInTodo DEF Visiting
    <2>2. \A d \in claims[w] : d.program # Head(w)
      BY <2>1 DEF Visiting, Claimed
    <2>3. Opening(w).program = Head(w) /\ Opening(w).at = ref[w]
      BY DEF Opening
    <2>4. Claimable(Opening(w), rows[Head(w)])
      BY <1>2, <2>3 DEF NeverRan, RanLongAgo, Claimable
    <2>5. claims'[v] = IF v = w THEN claims[w] \cup {Opening(w)} ELSE claims[v]
      BY <2>1 DEF TypeOK
    <2>6. rows' = rows /\ ref' = ref
      BY <1>2 DEF database
    <2>7. Claimable(c, rows[c.program])
      BY <1>0, <2>3, <2>4, <2>5
    <2>8. c.program \in Programs /\ c.at = ref[v]
      BY <1>0, <2>1, <2>3, <2>5
    <2>9. \A d \in claims'[v] : c.program = d.program => c = d
      BY <1>0, <2>2, <2>3, <2>5
    <2>10. QED
      BY <2>6, <2>7, <2>8, <2>9 DEF Claimable
  <1>3. ASSUME NEW w \in Workers, Commit(w) \/ Crash(w) PROVE Fine(v, c)'
    <2>1. v # w /\ c \in claims[v] /\ claims'[v] = claims[v] /\ ref'[v] = ref[v]
      BY <1>3, ResetClaims DEF Commit, Crash
    <2>2. \A u \in Workers : Commit(u) => u # v
      BY <2>1, ResetClaims DEF Commit
    <2>3. Claimable(c, rows'[c.program])
      BY <2>1, <2>2, ClaimableNext
    <2>4. QED
      BY <1>0, <2>1, <2>3 DEF Claimable
  <1>4. QED
    BY <1>1, <1>2, <1>3, ClaimsSteps

LEMMA RowsBornNext ==
  ASSUME TypeOK, ClaimsDue, RowsBorn, [Next]_vars
  PROVE  RowsBorn'
  <1>1. ASSUME NEW w \in Workers, Commit(w) PROVE RowsBorn'
    <2>1. \A p \in Claimed(w) : rows[p] # None
      BY DEF ClaimsDue, Claimable, Claimed
    <2>2. QED
      BY <1>1, <2>1 DEF Commit, RowsBorn
  <1>2. ASSUME NEW p \in Programs, NEW s \in Settings, Create(p, s) PROVE RowsBorn'
    BY <1>2 DEF Create, RowsBorn, TypeOK
  <1>3. ASSUME NEW p \in Programs, NEW s \in Settings, Update(p, s) PROVE RowsBorn'
    BY <1>3 DEF Update, RowsBorn, TypeOK
  <1>4. ASSUME NEW p \in Programs, Delete(p) PROVE RowsBorn'
    BY <1>4 DEF Delete, RowsBorn, TypeOK
  <1>5. QED
    BY <1>1, <1>2, <1>3, <1>4, TableSteps DEF Manual, RowsBorn

-----------------------------------------------------------------------------
(* The commands *)

\* A scheduled command is recorded by the commit of a run and by nothing else.
LEMMA NewCommands ==
  ASSUME [Next]_vars
  PROVE  \/ \A c \in commands' : c \in commands \/ c.program = None
         \/ \E w \in Workers : Commit(w)
  <1>1. ASSUME NEW z \in Zones, Manual(z)
        PROVE  \A c \in commands' : c \in commands \/ c.program = None
    BY <1>1 DEF Manual
  <1>2. ASSUME NEW p \in Programs, NEW s \in Settings, Create(p, s) \/ Update(p, s)
        PROVE  commands' = commands
    BY <1>2 DEF Create, Update
  <1>3. ASSUME NEW p \in Programs, Delete(p) PROVE commands' = commands
    BY <1>3 DEF Delete
  <1>4. QED
    BY <1>1, <1>2, <1>3, TableSteps

LEMMA CommandsBehindNext ==
  ASSUME TypeOK, ClaimsDue, CommandsBehind, RowsBorn, [Next]_vars
  PROVE  CommandsBehind'
  <1> DEFINE Fine(c) ==
        c.program # None => c.program \in born /\ Behind(c, rows[c.program])
  <1> SUFFICES ASSUME NEW c \in commands' PROVE Fine(c)'
    BY DEF CommandsBehind
  <1>0. c \in commands => Fine(c) /\ c \in Command
    BY DEF CommandsBehind, TypeOK
  <1>1. CASE UNCHANGED <<rows, born, commands>>
    BY <1>0, <1>1 DEF Behind
  <1>2. ASSUME NEW p \in Programs, NEW s \in Settings, Create(p, s) PROVE Fine(c)'
    <2>1. p \notin born /\ c \in commands
      BY <1>2 DEF Create
    <2>2. QED
      BY <1>0, <1>2, <2>1 DEF Create, TypeOK, Behind
  <1>3. ASSUME NEW p \in Programs, NEW s \in Settings, Update(p, s) PROVE Fine(c)'
    <2>1. rows[p] \in Program /\ rows' = [rows EXCEPT ![p] = [rows[p] EXCEPT !.set = s, !.updated = now]]
      BY <1>3 DEF Update, TypeOK
    <2>2. [rows[p] EXCEPT !.set = s, !.updated = now].last = rows[p].last
      BY <2>1 DEF Program
    <2>3. rows[p] # None /\ c \in commands /\ born' = born
      BY <1>3 DEF Update
    <2>4. QED
      BY <1>0, <2>1, <2>2, <2>3 DEF TypeOK, Behind
  <1>4. ASSUME NEW p \in Programs, Delete(p) PROVE Fine(c)'
    BY <1>0, <1>4 DEF Delete, TypeOK, Behind
  <1>5. ASSUME NEW z \in Zones, Manual(z) PROVE Fine(c)'
    <2>1. c \in commands \/ c.program = None
      BY <1>5 DEF Manual
    <2>2. QED
      BY <1>0, <1>5, <2>1 DEF Manual, Behind
  <1>6. ASSUME NEW w \in Workers, Commit(w) PROVE Fine(c)'
    <2>1. rows' = [p \in Programs |->
                     IF p \in Claimed(w) THEN [rows[p] EXCEPT !.last = ref[w]]
                     ELSE rows[p]]
          /\ born' = born
      BY <1>6 DEF Commit
    <2>2. \A p \in Claimed(w) : p \in Programs /\ rows[p] \in Program
      BY ClaimedRows
    <2>3. \A p \in Claimed(w) : rows'[p].last = ref[w]
      BY <2>1, <2>2 DEF Program
    <2>4. ref[w] \in Nat
      BY DEF TypeOK
    <2>5. CASE c \in claims[w]
      <3>1. c.at = ref[w] /\ c.program \in Claimed(w) /\ c.program \in born
        BY <2>2, <2>5 DEF ClaimsDue, Claimed, RowsBorn, Claimable
      <3>2. QED
        BY <2>1, <2>3, <2>4, <3>1 DEF Behind
    <2>6. CASE c \in commands /\ c.program \in Claimed(w)
      <3>1. PICK d \in claims[w] : d.program = c.program
        BY <2>6 DEF Claimed
      <3>2. Claimable(d, rows[c.program]) /\ d.at = ref[w]
        BY <3>1 DEF ClaimsDue
      <3>3. rows[c.program].last # None /\ c.at <= rows[c.program].last
        BY <1>0, <2>2, <2>6, <3>2 DEF Behind, Claimable
      <3>4. rows[c.program].last \in Nat /\ c.at \in Nat
        BY <1>0, <2>2, <2>6, <3>3 DEF Program, Command
      <3>5. c.at <= ref[w]
        BY <2>4, <3>2, <3>3, <3>4 DEF Claimable
      <3>6. QED
        BY <1>0, <2>1, <2>3, <2>4, <2>6, <3>5 DEF Behind
    <2>7. CASE c \in commands /\ c.program \notin Claimed(w)
      BY <1>0, <2>1, <2>7 DEF Behind, Command
    <2>8. QED
      BY <1>6, <2>5, <2>6, <2>7 DEF Commit
  <1>7. QED
    BY <1>1, <1>2, <1>3, <1>4, <1>5, <1>6, TableSteps

\* The opening a due program gets lies in its window.
LEMMA OpeningInWindow ==
  ASSUME NEW w \in Workers, Due(seen[w][Head(w)].set, ref[w])
  PROVE  InWindow(Opening(w))
  BY DEF Due, Opening, InWindow

LEMMA OpeningsNext ==
  ASSUME TypeOK, Visiting, ClaimsDue, OpeningsInWindow, [Next]_vars
  PROVE  OpeningsInWindow'
  <1>1. ASSUME NEW c \in commands', c.program # None PROVE InWindow(c)
    <2>1. c \in commands \/ \E w \in Workers : c \in claims[w]
      BY <1>1, NewCommands DEF Commit
    <2>2. QED
      BY <1>1, <2>1 DEF OpeningsInWindow
  <1>2. ASSUME NEW v \in Workers, NEW c \in claims'[v] PROVE InWindow(c)
    <2>1. CASE UNCHANGED claims
      BY <1>2, <2>1 DEF OpeningsInWindow
    <2>2. ASSUME NEW w \in Workers, Take(w), pc[w] \in {"claim", "reclaim"}
          PROVE  InWindow(c)
      <3>1. todo[w] # {} /\ InWindow(Opening(w))
        BY <2>2, OpeningInWindow DEF Visiting
      <3>2. claims' = [claims EXCEPT ![w] = @ \cup {Opening(w)}]
        BY <2>2, <3>1, TakeClaims
      <3>3. c \in claims[v] \/ c = Opening(w)
        BY <1>2, <3>2 DEF TypeOK
      <3>4. QED
        BY <3>1, <3>3 DEF OpeningsInWindow
    <2>3. ASSUME NEW w \in Workers, Reset(w) PROVE InWindow(c)
      BY <1>2, <2>3, ResetClaims DEF OpeningsInWindow
    <2>4. QED
      BY <2>1, <2>2, <2>3, ClaimsSteps DEF Commit, Crash
  <1>3. QED
    BY <1>1, <1>2 DEF OpeningsInWindow, InWindow

\* A run's openings are apart from every recorded one.
LEMMA ClaimApart ==
  ASSUME TypeOK, ClaimsDue, CommandsBehind, NEW w \in Workers,
         NEW c \in claims[w], NEW d \in commands, c.program = d.program
  PROVE  c.at - d.at > Window
  <1>1. c.program \in Programs /\ Claimable(c, rows[c.program])
    BY DEF ClaimsDue
  <1>2. c.program # None /\ rows[c.program] \in Program
    BY <1>1 DEF TypeOK, Claimable
  <1>3. rows[c.program].last # None /\ d.at <= rows[c.program].last
    BY <1>1, <1>2 DEF CommandsBehind, Behind, Claimable
  <1>4. rows[c.program].last \in Nat /\ c.at \in Nat /\ d.at \in Nat
    BY <1>2, <1>3 DEF TypeOK, Program, Command
  <1>5. QED
    BY <1>1, <1>3, <1>4 DEF Claimable

LEMMA ApartNext ==
  ASSUME TypeOK, ClaimsDue, CommandsBehind, FiringsApart, [Next]_vars
  PROVE  FiringsApart'
  <1> SUFFICES ASSUME NEW c \in commands', NEW d \in commands', c.program # None,
                      c.program = d.program, c # d
               PROVE  c.at - d.at > Window \/ d.at - c.at > Window
    BY DEF FiringsApart
  <1>1. CASE c \in commands /\ d \in commands
    BY <1>1 DEF FiringsApart
  <1>2. ASSUME NEW w \in Workers, Commit(w)
        PROVE  c.at - d.at > Window \/ d.at - c.at > Window
    <2>1. ~(c \in claims[w] /\ d \in claims[w])
      BY DEF ClaimsDue
    <2>2. QED
      BY <1>1, <1>2, <2>1, ClaimApart DEF Commit
  <1>3. QED
    BY <1>1, <1>2, NewCommands

-----------------------------------------------------------------------------
(* What is due is served *)

\* The program is gone, or has run at t or after.
Served(p, t) == rows[p] # None => rows[p].last # None /\ t <= rows[p].last

\* What a run has loaded had its id, and has run whenever it had run then.
LoadedBefore ==
    \A w \in Workers, p \in Programs : seen[w][p] # None =>
        /\ p \in born
        /\ seen[w][p].last # None => Served(p, seen[w][p].last)

\* A due program that a run is done with is claimed by it, or has run inside its
\* window.
Calls(w, p) ==
    /\ pc[w] # "idle" /\ seen[w][p] # None
    /\ seen[w][p].set.enabled /\ Due(seen[w][p].set, ref[w])
Attended ==
    \A w \in Workers, p \in Programs :
        Calls(w, p) /\ p \notin todo[w] =>
            p \in Claimed(w) \/ Served(p, ref[w] - Window)

\* The first claim fails on a program that has run.
Retrying == \A w \in Workers : pc[w] = "reclaim" => Served(Head(w), 0)

\* last_run_at is the instant of a recorded opening.
Recorded ==
    \A p \in Programs : rows[p] # None /\ rows[p].last # None =>
        \E c \in commands : c.program = p /\ c.at = rows[p].last

SInv == IInv /\ LoadedBefore /\ Attended /\ Retrying /\ Recorded

\* A row that is stamped anew, and one whose settings are replaced.
LEMMA StampedRow ==
  ASSUME NEW r \in Program, NEW t \in Nat
  PROVE  [r EXCEPT !.last = t].last = t
  BY DEF Program

LEMMA ReplacedRow ==
  ASSUME NEW r \in Program, NEW t \in Nat, NEW s \in Settings
  PROVE  [r EXCEPT !.set = s, !.updated = t].last = r.last
  BY DEF Program

\* A commit moves last_run_at on.
LEMMA CommitStamps ==
  ASSUME TypeOK, ClaimsDue, NEW w \in Workers, Commit(w), NEW p \in Programs
  PROVE  IF p \in Claimed(w)
         THEN /\ rows[p] # None /\ rows'[p].last = ref[w]
              /\ rows[p].last # None => rows[p].last <= ref[w]
         ELSE rows'[p] = rows[p]
  <1>1. CASE p \in Claimed(w)
    <2>1. PICK c \in claims[w] : c.program = p
      BY <1>1 DEF Claimed
    <2>2. Claimable(c, rows[p]) /\ c.at = ref[w]
      BY <2>1 DEF ClaimsDue
    <2>3. rows[p] \in Program /\ ref[w] \in Nat /\ rows[p] # None
      BY <2>2 DEF Claimable, TypeOK
    <2>4. rows'[p] = [rows[p] EXCEPT !.last = ref[w]]
      BY <1>1 DEF Commit
    <2>5. rows'[p].last = ref[w]
      BY <2>3, <2>4, StampedRow
    <2>6. rows[p].last # None => rows[p].last \in Nat
      BY <2>3 DEF Program
    <2>7. rows[p].last # None => rows[p].last <= ref[w]
      BY <2>2, <2>3, <2>6 DEF Claimable
    <2>8. QED
      BY <1>1, <2>3, <2>4, <2>5, <2>7
  <1>2. CASE p \notin Claimed(w)
    BY <1>2 DEF Commit
  <1>3. QED
    BY <1>1, <1>2

\* Who has run has run: ids are not handed out again, last_run_at only grows.
LEMMA ServedNext ==
  ASSUME TypeOK, Visiting, ClaimsDue, [Next]_vars, NEW p \in Programs, p \in born,
         NEW t \in Int, Served(p, t)
  PROVE  rows'[p] # None => rows'[p].last # None /\ t <= rows'[p].last
  <1>1. CASE UNCHANGED <<rows, born, commands>>
    BY <1>1 DEF Served
  <1>2. ASSUME NEW q \in Programs, NEW s \in Settings, Create(q, s)
        PROVE  rows'[p] = rows[p]
    BY <1>2 DEF Create, TypeOK
  <1>3. ASSUME NEW q \in Programs, NEW s \in Settings, Update(q, s)
        PROVE  (rows[p] # None /\ rows'[p].last = rows[p].last) \/ rows'[p] = rows[p]
    <2>1. CASE p = q
      <3>1. rows[q] \in Program /\ now \in Nat /\ rows[q] # None
        BY <1>3 DEF Update, TypeOK
      <3>2. rows'[q] = [rows[q] EXCEPT !.set = s, !.updated = now]
        BY <1>3, <3>1 DEF Update, TypeOK
      <3>3. QED
        BY <2>1, <3>1, <3>2, ReplacedRow
    <2>2. CASE p # q
      BY <1>3, <2>2 DEF Update, TypeOK
    <2>3. QED
      BY <2>1, <2>2
  <1>4. ASSUME NEW q \in Programs, Delete(q)
        PROVE  rows'[p] = None \/ rows'[p] = rows[p]
    BY <1>4 DEF Delete, TypeOK
  <1>5. ASSUME NEW w \in Workers, Commit(w)
        PROVE  rows'[p] # None => rows'[p].last # None /\ t <= rows'[p].last
    <2>1. CASE p \in Claimed(w)
      <3>1. /\ rows[p] # None /\ rows'[p].last = ref[w]
            /\ rows[p].last # None => rows[p].last <= ref[w]
        BY <1>5, <2>1, CommitStamps
      <3>2. rows[p].last \in Nat \cup {None} /\ ref[w] \in Nat
        BY <3>1 DEF TypeOK, Program
      <3>3. QED
        BY <3>1, <3>2 DEF Served
    <2>2. CASE p \notin Claimed(w)
      BY <1>5, <2>2, CommitStamps DEF Served
    <2>3. QED
      BY <2>1, <2>2
  <1>6. ASSUME NEW z \in Zones, Manual(z) PROVE rows' = rows
    BY <1>6 DEF Manual
  <1>7. QED
    BY <1>1, <1>2, <1>3, <1>4, <1>5, <1>6, TableSteps DEF Served

\* What a step does to the run of a worker.
Stands(w) == /\ pc'[w] = pc[w] /\ ref'[w] = ref[w] /\ todo'[w] = todo[w]
             /\ seen'[w] = seen[w] /\ claims'[w] = claims[w]
LEMMA RunSteps ==
  ASSUME TypeOK, [Next]_vars, NEW w \in Workers
  PROVE  \/ Stands(w)
         \/ Start(w)
         \/ Visit(w)
         \/ ClaimFirst(w)
         \/ ClaimAgain(w)
         \/ Reset(w)
  <1>1. ASSUME NEW v \in Workers, v # w, Run(v) PROVE Stands(w)
    <2>1. CASE Start(v)
      BY <1>1, <2>1 DEF Start, Stands, TypeOK
    <2>2. CASE Visit(v)
      BY <1>1, <2>2 DEF Visit, Next1, Stands, TypeOK
    <2>3. CASE ClaimFirst(v)
      BY <1>1, <2>3 DEF ClaimFirst, Take, Next1, Stands, TypeOK
    <2>4. CASE ClaimAgain(v)
      BY <1>1, <2>4 DEF ClaimAgain, Take, Next1, Stands, TypeOK
    <2>5. ASSUME Reset(v) PROVE Stands(w)
      BY <1>1, <2>5 DEF Reset, Stands, TypeOK
    <2>6. QED
      BY <1>1, <2>1, <2>2, <2>3, <2>4, <2>5 DEF Run, Commit, Crash
  <1>2. ASSUME UNCHANGED worker PROVE Stands(w)
    BY <1>2 DEF worker, Stands
  <1>3. QED
    BY <1>1, <1>2 DEF Next, Run, Commit, Crash, Create, Update, Delete, Manual,
       DeleteZone, Tick, vars

LEMMA LoadedBeforeNext ==
  ASSUME TypeOK, Visiting, ClaimsDue, RowsBorn, LoadedBefore, [Next]_vars
  PROVE  LoadedBefore'
  <1> SUFFICES ASSUME NEW w \in Workers, NEW p \in Programs, seen'[w][p] # None
               PROVE  /\ p \in born'
                      /\ seen'[w][p].last # None =>
                           (rows'[p] # None =>
                              rows'[p].last # None /\ seen'[w][p].last <= rows'[p].last)
    BY DEF LoadedBefore, Served
  <1>1. born \subseteq born'
    BY TableSteps DEF Create, Update, Delete, Manual, Commit
  <1>2. CASE seen'[w] = seen[w]
    <2>1. p \in born /\ (seen[w][p].last # None => Served(p, seen[w][p].last))
      BY <1>2 DEF LoadedBefore
    <2>2. seen[w][p] \in Program
      <3>1. seen[w] \in [Programs -> Program \cup {None}]
        BY DEF TypeOK
      <3>2. QED
        BY <1>2, <3>1
    <2>3. seen[w][p].last # None => seen[w][p].last \in Int
      BY <2>2 DEF Program
    <2>4. QED
      BY <1>1, <1>2, <2>1, <2>3, ServedNext
  <1>3. CASE Start(w)
    <2>1. seen'[w] = rows /\ rows' = rows
      BY <1>3 DEF Start, TypeOK, database
    <2>2. rows[p] \in Program /\ p \in born
      BY <2>1 DEF TypeOK, RowsBorn
    <2>3. rows[p].last # None => rows[p].last \in Nat
      BY <2>2 DEF Program
    <2>4. QED
      BY <1>1, <2>1, <2>2, <2>3
  <1>4. CASE Reset(w)
    BY <1>4 DEF Reset, TypeOK
  <1>5. QED
    BY <1>2, <1>3, <1>4, RunSteps DEF Stands, Visit, ClaimFirst, ClaimAgain

LEMMA RetryingNext ==
  ASSUME TypeOK, Visiting, ClaimsDue, LoadedBefore, Retrying, [Next]_vars
  PROVE  Retrying'
  <1> SUFFICES ASSUME NEW w \in Workers, pc'[w] = "reclaim"
               PROVE  Served(Head(w), 0)'
    BY DEF Retrying
  <1>1. CASE Stands(w)
    <2>1. todo[w] # {} /\ Head(w)' = Head(w) /\ Served(Head(w), 0)
      BY <1>1, HeadSame DEF Stands, Visiting, Retrying
    <2>2. Head(w) \in Programs /\ Head(w) \in born
      BY <2>1, HeadInTodo DEF Visiting, LoadedBefore
    <2>3. QED
      BY <2>1, <2>2, ServedNext DEF Served
  <1>2. CASE ClaimFirst(w) /\ ~Take(w)
    <2>1. /\ pc[w] = "claim" /\ todo'[w] = todo[w] /\ rows' = rows /\ ~NeverRan(w)
      BY <1>2 DEF ClaimFirst, database
    <2>2. Head(w)' = Head(w) /\ todo[w] # {} /\ Head(w) \in Programs
      BY <2>1, HeadSame, HeadInTodo DEF Visiting
    <2>3. rows[Head(w)] # None => rows[Head(w)].last \in Nat
      BY <2>1, <2>2 DEF NeverRan, TypeOK, Program
    <2>4. QED
      BY <2>1, <2>2, <2>3 DEF Served
  <1>3. CASE Start(w) \/ Visit(w) \/ Take(w) \/ ClaimAgain(w) \/ Reset(w)
    BY <1>3 DEF Start, Visit, Take, Next1, ClaimAgain, Reset, TypeOK
  <1>4. QED
    BY <1>1, <1>2, <1>3, RunSteps

\* The run goes on, and leaves a program behind for a reason.
LEMMA AttendedNext ==
  ASSUME TypeOK, Visiting, ClaimsDue, RowsBorn, LoadedBefore, Retrying, Attended,
         [Next]_vars
  PROVE  Attended'
  <1> SUFFICES ASSUME NEW w \in Workers, NEW p \in Programs, Calls(w, p)',
                      p \notin todo'[w]
               PROVE  \/ p \in Claimed(w)'
                      \/ rows'[p] # None =>
                           rows'[p].last # None /\ ref'[w] - Window <= rows'[p].last
    BY DEF Attended, Served
  <1>1. ASSUME ref'[w] = ref[w], seen'[w] = seen[w], pc[w] # "idle",
               p \in Claimed(w) \/ Served(p, ref[w] - Window),
               p \in Claimed(w) => p \in Claimed(w)'
        PROVE  \/ p \in Claimed(w)'
               \/ rows'[p] # None =>
                    rows'[p].last # None /\ ref'[w] - Window <= rows'[p].last
    <2>1. p \in born
      BY <1>1 DEF LoadedBefore, Calls
    <2>2. ref[w] - Window \in Int
      BY DEF TypeOK
    <2>3. QED
      BY <1>1, <2>1, <2>2, ServedNext
  <1>2. ASSUME ref'[w] = ref[w], seen'[w] = seen[w], pc[w] # "idle"
        PROVE  Calls(w, p)
    BY <1>2 DEF Calls, Due, Allowed, Weekday, StartOf, Midnight
  <1>3. CASE Stands(w)
    <2>1. pc[w] # "idle" /\ Claimed(w)' = Claimed(w) /\ p \notin todo[w]
      BY <1>3 DEF Stands, Calls, Claimed
    <2>2. QED
      BY <1>1, <1>2, <1>3, <2>1 DEF Stands, Attended
  <1>4. CASE Start(w)
    <2>1. p \in todo'[w]
      BY <1>4 DEF Start, TypeOK, Calls
    <2>2. QED
      BY <2>1
  <1>5. CASE Reset(w)
    BY <1>5 DEF Reset, TypeOK, Calls
  <1>6. CASE Visit(w)
    <2>1. /\ ref'[w] = ref[w] /\ seen'[w] = seen[w] /\ pc[w] # "idle"
          /\ Claimed(w)' = Claimed(w)
      BY <1>6 DEF Visit, Claimed
    <2>2. Calls(w, p)
      BY <1>2, <2>1
    <2>3. CASE p \notin todo[w]
      BY <1>1, <2>1, <2>2, <2>3 DEF Attended
    <2>4. CASE p \in todo[w]
      <3>1. p = Head(w) /\ RanAlready(seen[w][p], ref[w])
        BY <1>6, <2>2, <2>4 DEF Visit, Next1, TypeOK, Calls
      <3>2. seen[w][p].last \in Nat /\ Served(p, seen[w][p].last)
        <4>1. seen[w][p] \in Program
          <5>1. seen[w] \in [Programs -> Program \cup {None}] /\ seen[w][p] # None
            BY <2>2 DEF TypeOK, Calls
          <5>2. QED
            BY <5>1
        <4>2. QED
          BY <2>2, <3>1, <4>1 DEF RanAlready, Program, LoadedBefore, Calls
      <3>3. rows[p] # None /\ rows[p].last # None => rows[p].last \in Nat
        BY DEF TypeOK, Program
      <3>4. Served(p, ref[w] - Window)
        <4>1. ref[w] \in Nat
          BY DEF TypeOK
        <4>2. QED
          BY <3>1, <3>2, <3>3, <4>1 DEF Served, RanAlready
      <3>5. QED
        BY <1>1, <2>1, <3>4
    <2>5. QED
      BY <2>3, <2>4
  <1>7. ASSUME Take(w), pc[w] \in {"claim", "reclaim"}, ref'[w] = ref[w], seen'[w] = seen[w]
        PROVE  \/ p \in Claimed(w)'
               \/ rows'[p] # None =>
                    rows'[p].last # None /\ ref'[w] - Window <= rows'[p].last
    <2>1. /\ Claimed(w)' = Claimed(w) \cup {Head(w)}
          /\ todo'[w] = todo[w] \ {Head(w)}
      BY <1>7, TakeClaims DEF Visiting, TypeOK
    <2>2. Calls(w, p) /\ pc[w] # "idle"
      BY <1>2, <1>7
    <2>3. p \in Claimed(w)' \/ p \notin todo[w]
      BY <2>1
    <2>4. QED
      BY <1>1, <1>7, <2>1, <2>2, <2>3 DEF Attended
  <1>8. CASE ClaimFirst(w)
    <2>1. CASE ~Take(w)
      <3>1. /\ ref'[w] = ref[w] /\ seen'[w] = seen[w] /\ pc[w] # "idle"
            /\ Claimed(w)' = Claimed(w) /\ todo'[w] = todo[w]
        BY <1>8, <2>1 DEF ClaimFirst, Claimed
      <3>2. QED
        BY <1>1, <1>2, <3>1 DEF Attended
    <2>2. QED
      BY <1>7, <1>8, <2>1 DEF ClaimFirst
  <1>9. CASE ClaimAgain(w)
    <2>1. CASE ~Take(w)
      <3>1. /\ ref'[w] = ref[w] /\ seen'[w] = seen[w] /\ pc[w] # "idle"
            /\ Claimed(w)' = Claimed(w) /\ todo'[w] = todo[w] \ {Head(w)}
            /\ ~RanLongAgo(w) /\ Served(Head(w), 0)
        BY <1>9, <2>1 DEF ClaimAgain, Next1, Claimed, TypeOK, Retrying
      <3>2. CASE p \notin todo[w]
        BY <1>1, <1>2, <3>1, <3>2 DEF Attended
      <3>3. CASE p = Head(w)
        <4>1. rows[p] # None => rows[p].last \in Nat
          BY <3>1, <3>3 DEF Served, TypeOK, Program
        <4>2. ref[w] - Window \in Int
          BY DEF TypeOK
        <4>3. Served(p, ref[w] - Window)
          BY <3>1, <3>3, <4>1, <4>2 DEF Served, RanLongAgo
        <4>4. QED
          BY <1>1, <3>1, <4>3
      <3>4. QED
        BY <3>1, <3>2, <3>3
    <2>2. QED
      BY <1>7, <1>9, <2>1 DEF ClaimAgain
  <1>10. QED
    BY <1>3, <1>4, <1>5, <1>6, <1>8, <1>9, RunSteps

LEMMA RecordedNext ==
  ASSUME TypeOK, ClaimsDue, Recorded, [Next]_vars
  PROVE  Recorded'
  <1> SUFFICES ASSUME NEW p \in Programs, rows'[p] # None, rows'[p].last # None
               PROVE  \E c \in commands' : c.program = p /\ c.at = rows'[p].last
    BY DEF Recorded
  <1>1. commands \subseteq commands'
    BY TableSteps DEF Create, Update, Delete, Manual, Commit
  <1>2. ASSUME rows[p] # None, rows'[p].last = rows[p].last
        PROVE  \E c \in commands' : c.program = p /\ c.at = rows'[p].last
    BY <1>1, <1>2 DEF Recorded
  <1>3. ASSUME NEW q \in Programs, NEW s \in Settings, Create(q, s)
        PROVE  p # q /\ rows'[p] = rows[p]
    BY <1>3 DEF Create, TypeOK
  <1>4. ASSUME NEW q \in Programs, NEW s \in Settings, Update(q, s)
        PROVE  rows[p] # None /\ rows'[p].last = rows[p].last
    <2>1. CASE p = q
      <3>1. rows[q] \in Program /\ now \in Nat /\ rows[q] # None
        BY <1>4 DEF Update, TypeOK
      <3>2. rows'[q] = [rows[q] EXCEPT !.set = s, !.updated = now]
        BY <1>4, <3>1 DEF Update, TypeOK
      <3>3. QED
        BY <2>1, <3>1, <3>2, ReplacedRow
    <2>2. CASE p # q
      BY <1>4, <2>2 DEF Update, TypeOK
    <2>3. QED
      BY <2>1, <2>2
  <1>5. ASSUME NEW q \in Programs, Delete(q) PROVE rows'[p] = rows[p]
    BY <1>5 DEF Delete, TypeOK
  <1>6. ASSUME NEW w \in Workers, Commit(w)
        PROVE  \E c \in commands' : c.program = p /\ c.at = rows'[p].last
    <2>1. CASE p \in Claimed(w)
      <3>1. PICK c \in claims[w] : c.program = p
        BY <2>1 DEF Claimed
      <3>2. c.at = ref[w] /\ rows'[p].last = ref[w] /\ c \in commands'
        BY <1>6, <2>1, <3>1, CommitStamps DEF ClaimsDue, Commit
      <3>3. QED
        BY <3>1, <3>2
    <2>2. CASE p \notin Claimed(w)
      BY <1>2, <1>6, <2>2, CommitStamps
    <2>3. QED
      BY <2>1, <2>2
  <1>7. ASSUME UNCHANGED rows PROVE rows'[p] = rows[p]
    BY <1>7
  <1>8. QED
    BY <1>2, <1>3, <1>4, <1>5, <1>6, <1>7, TableSteps DEF Manual

\* A quotient and its remainder are unique.
LEMMA Remainder ==
  ASSUME NEW n \in Nat \ {0}, NEW q \in Int, NEW r \in 0..(n - 1)
  PROVE  (n * q + r) % n = r
  <1> DEFINE a == n * q + r
             b == a \div n
             c == a % n
  <1>1. a \in Int /\ b \in Int /\ c \in 0..(n - 1) /\ a = n * b + c
    OBVIOUS
  <1>2. n * (q - b) = c - r
    BY <1>1
  <1>3. \A i, j \in Int : i < j => n * i + n <= n * j
    <2> SUFFICES ASSUME NEW i \in Int, NEW j \in Int, i < j
                 PROVE  n * i + n <= n * j
      OBVIOUS
    <2> DEFINE m == j - i - 1
    <2>1. m \in Nat /\ j = i + 1 + m
      OBVIOUS
    <2> HIDE DEF m
    <2>2. n * m >= 0
      BY <2>1
    <2>3. n * j = n * i + n + n * m
      BY <2>1
    <2>4. QED
      BY <2>1, <2>2, <2>3
  <1> HIDE DEF a, b, c
  <1>4. n * q + r = n * b + c
    BY <1>1 DEF a
  <1>5. q = b
    <2>1. n * q \in Int /\ n * b \in Int
      BY <1>1
    <2>2. ~(q < b)
      BY <1>1, <1>3, <1>4, <2>1
    <2>3. ~(b < q)
      BY <1>1, <1>3, <1>4, <2>1
    <2>4. QED
      BY <1>1, <2>2, <2>3
  <1>6. c = r
    BY <1>1, <1>4, <1>5
  <1>7. QED
    BY <1>6 DEF a, c

\* The midnight of weekday d lies d - 1 days into its week.
LEMMA WeekdayOfMidnight ==
  ASSUME NEW t \in Nat, NEW d \in 1..7, Midnight(t) % (7 * Day) = (d - 1) * Day
  PROVE  Weekday(t) = d
  <1> DEFINE k == t \div Day
             week == k \div 7
             r == k % 7
  <1>1. k \in Int /\ t % Day \in Int /\ t = Day * k + (t % Day)
    OBVIOUS
  <1>2. week \in Int /\ r \in 0..6 /\ k = 7 * week + r
    BY <1>1
  <1>3. Midnight(t) = Day * k
    BY <1>1 DEF Midnight
  <1> HIDE DEF k, week, r
  <1>4. Midnight(t) = (7 * Day) * week + Day * r
    BY <1>2, <1>3
  <1>5. 7 * Day \in Nat \ {0} /\ Day * r \in 0..(7 * Day - 1)
    BY <1>2
  <1>6. Midnight(t) % (7 * Day) = Day * r
    BY <1>2, <1>4, <1>5, Remainder
  <1>7. Day * r = Day * (d - 1)
    BY <1>2, <1>6
  <1>8. r = d - 1
    BY <1>2, <1>7
  <1>9. QED
    BY <1>8 DEF Weekday, k, r

\* A start instant of the day of the run is one the run reckons as due.
LEMMA OwedIsDue ==
  ASSUME TypeOK, NEW w \in Workers, NEW p \in Programs, NEW t \in InWindowOf(w),
         Owes(w, p, t), Midnight(t) = Midnight(ref[w])
  PROVE  Due(seen[w][p].set, ref[w])
  <1> DEFINE s == seen[w][p].set
  <1>1. s \in Settings
    <2>1. seen[w] \in [Programs -> Program \cup {None}] /\ seen[w][p] # None
      BY DEF TypeOK, Owes
    <2>2. seen[w][p] \in Program
      BY <2>1
    <2>3. QED
      BY <2>2 DEF Program
  <1>2. ref[w] \in Nat /\ t \in Nat /\ ref[w] - Window <= t /\ t <= ref[w]
    BY DEF TypeOK, InWindowOf, Owes
  <1>3. StartOf(s, ref[w]) = t
    BY <1>1, <1>2 DEF StartOf, Midnight, Owes, Settings
  <1>4. Allowed(s.days, ref[w])
    <2>1. CASE s.days = Anyday
      BY <2>1 DEF Allowed
    <2>2. CASE s.days # Anyday
      <3>1. PICK d \in s.days : Midnight(t) % (7 * Day) = (d - 1) * Day
        BY <2>2 DEF Owes
      <3>2. d \in 1..7
        BY <1>1, <2>2, <3>1, WeekdaysAssumption DEF Settings
      <3>3. Weekday(ref[w]) = d
        BY <1>2, <3>1, <3>2, WeekdayOfMidnight
      <3>4. QED
        BY <3>1, <3>3 DEF Allowed
    <2>3. QED
      BY <2>1, <2>2
  <1>5. QED
    BY <1>2, <1>3, <1>4 DEF Due

-----------------------------------------------------------------------------
(* Theorems *)

LEMMA InvInit == Init => IInv
  <1> SUFFICES ASSUME Init PROVE IInv
    OBVIOUS
  <1>1. OneHolder /\ Visiting /\ ClaimsDue
    BY DEF Init, OneHolder, Visiting, ClaimsDue, Claimed
  <1>2. CommandsBehind /\ RowsBorn /\ OpeningsInWindow /\ FiringsApart
    BY DEF Init, CommandsBehind, RowsBorn, OpeningsInWindow, FiringsApart
  <1>3. QED
    BY <1>1, <1>2, TypeInit DEF IInv

LEMMA InvNext == IInv /\ [Next]_vars => IInv'
  BY TypeNext, OneHolderNext, VisitingNext, ClaimsDueNext, RowsBornNext,
     CommandsBehindNext, OpeningsNext, ApartNext DEF IInv

\* The tables, the workers and their transactions keep their types.
THEOREM TypeCorrect == Spec => []TypeOK
  <1>1. IInv => TypeOK
    BY DEF IInv
  <1>2. QED
    BY InvInit, InvNext, <1>1, PTL DEF Spec

\* Two openings of a program are more than a window apart, for any number of
\* overlapping runs and any edits between them.
THEOREM Apart == Spec => []FiringsApart
  <1>1. IInv => FiringsApart
    BY DEF IInv
  <1>2. QED
    BY InvInit, InvNext, <1>1, PTL DEF Spec

\* Both openings for one start instant would lie in the window behind it, so
\* they cannot be more than a window apart: a start instant opens once.
THEOREM OpensOnce == Spec => []OncePerStart
  <1>1. IInv => OncePerStart
    <2> SUFFICES ASSUME IInv, NEW c \in commands, NEW d \in commands,
                        c.program # None, c.program = d.program, c.due = d.due, c # d
                 PROVE  FALSE
      BY DEF OncePerStart
    <2>1. InWindow(c) /\ InWindow(d)
      BY DEF IInv, OpeningsInWindow
    <2>2. c.at - d.at > Window \/ d.at - c.at > Window
      BY DEF IInv, FiringsApart
    <2>3. c \in Command /\ d \in Command
      BY DEF IInv, TypeOK
    <2>4. c.at \in Nat /\ d.at \in Nat /\ c.due \in Int /\ d.due \in Int
      BY <2>3 DEF Command
    <2>5. QED
      BY <2>1, <2>2, <2>4 DEF InWindow
  <1>2. QED
    BY InvInit, InvNext, <1>1, PTL DEF Spec

LEMMA ServedInvInit == Init => SInv
  <1> SUFFICES ASSUME Init PROVE SInv
    OBVIOUS
  <1>1. LoadedBefore /\ Attended /\ Retrying /\ Recorded
    BY DEF Init, LoadedBefore, Attended, Calls, Retrying, Recorded
  <1>2. QED
    BY <1>1, InvInit DEF SInv

LEMMA ServedInvNext == SInv /\ [Next]_vars => SInv'
  BY InvNext, LoadedBeforeNext, AttendedNext, RetryingNext, RecordedNext
     DEF SInv, IInv

\* A run that commits leaves no program that it found due today without an
\* opening in its window, for any number of overlapping runs, edits and deaths.
THEOREM NoneForgotten == Spec => DueIsServed
  <1>1. ASSUME SInv, NEW w \in Workers, Commit(w), NEW p \in Programs,
               NEW t \in InWindowOf(w), Owes(w, p, t), Midnight(t) = Midnight(ref[w])
        PROVE  Opened(w, p)
    <2> SUFFICES ASSUME rows'[p] # None
                 PROVE  \E c \in commands' : c.program = p /\ c.at >= ref[w] - Window
      BY DEF Opened
    <2>1. TypeOK /\ ClaimsDue /\ Attended /\ Recorded
      BY <1>1 DEF SInv, IInv
    <2>2. Calls(w, p) /\ p \notin todo[w]
      BY <1>1, <2>1, OwedIsDue DEF Commit, Calls, Owes
    <2>3. CASE p \in Claimed(w)
      <3>1. PICK c \in claims[w] : c.program = p
        BY <2>3 DEF Claimed
      <3>2. c \in commands' /\ c.at = ref[w] /\ ref[w] \in Nat
        BY <1>1, <2>1, <3>1 DEF Commit, ClaimsDue, TypeOK
      <3>3. QED
        BY <3>1, <3>2
    <2>4. CASE p \notin Claimed(w)
      <3>1. rows[p] # None /\ rows[p].last # None /\ ref[w] - Window <= rows[p].last
        BY <1>1, <2>1, <2>2, <2>4, CommitStamps DEF Attended, Served
      <3>2. PICK c \in commands : c.program = p /\ c.at = rows[p].last
        BY <2>1, <3>1 DEF Recorded
      <3>3. c \in commands' /\ c.at >= ref[w] - Window
        <4>1. rows[p].last \in Nat /\ ref[w] \in Nat
          BY <2>1, <3>1 DEF TypeOK, Program
        <4>2. QED
          BY <1>1, <3>1, <3>2, <4>1 DEF Commit
      <3>4. QED
        BY <3>2, <3>3
    <2>5. QED
      BY <2>3, <2>4
  <1>2. ASSUME SInv, [Next]_vars
        PROVE  [\A w \in Workers : Commit(w) =>
                  \A p \in Programs, t \in InWindowOf(w) :
                     Owes(w, p, t) /\ Midnight(t) = Midnight(ref[w]) => Opened(w, p)]_vars
    BY <1>1, <1>2
  <1>3. QED
    BY ServedInvInit, ServedInvNext, <1>2, PTL DEF Spec, DueIsServed
=============================================================================
