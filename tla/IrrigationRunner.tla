-------------------------- MODULE IrrigationRunner --------------------------
(***************************************************************************)
(* Scheduled irrigation: the beat job run_due_irrigation_programs, which   *)
(* opens a zone's valve when a program's start time has just passed, and   *)
(* the routes by which owners edit programs, send commands and staff       *)
(* delete zones.  A run is one transaction: it selects the programs, then  *)
(* claims those due by a conditional UPDATE of last_run_at, which locks    *)
(* the row until the run commits.                                          *)
(***************************************************************************)
EXTENDS Integers, FiniteSets

CONSTANTS
  Programs,   \* program ids, in the order a run visits them
  Zones,      \* zone ids
  Workers,    \* worker processes
  Day,        \* length of a day in clock ticks
  Window,     \* IRRIGATION_RUN_WINDOW_MIN
  Period,     \* a run starts at the multiples of this (beat's "*/2")
  Starts,     \* start times of day owners choose from
  WeekdaySets,\* weekday filters owners choose from: sets, or Anyday
  Anyday,     \* the empty filter
  DispatchEnabled, \* the setting IRRIGATION_DISPATCH_ENABLED
  MaxNow, MaxEdits, MaxCrashes,  \* bounds: clock, requests, deaths of workers
  None        \* NULL, an absent row, a command without a program

ASSUME TimesAssumption ==
    /\ Day \in Nat \ {0} /\ Window \in Nat /\ Period \in Nat \ {0}
    /\ Starts \subseteq 0..(Day - 1) /\ MaxNow \in Nat
ASSUME IdsAssumption == Programs \subseteq Nat /\ None \notin Nat
ASSUME BoundsAssumption ==
    MaxEdits \in Nat /\ MaxCrashes \in Nat /\ DispatchEnabled \in BOOLEAN
ASSUME WeekdaysAssumption ==
    \A f \in WeekdaySets : f = Anyday \/ f \subseteq 1..7

VARIABLES
  now,        \* the clock, from a Monday's midnight
  rows,       \* the table of programs, None where there is no row
  born,       \* the ids handed out
  zones,      \* the zones that exist
  commands,   \* analytics_outputcommand
  pc, ref,    \* each worker's place and the `reference` of its run
  todo, seen, \* the programs left to visit and the rows as it loaded them
  claims,     \* its uncommitted commands, each with a locked program row
  edits, crashes  \* requests and deaths so far

database == <<rows, born, zones, commands>>
worker   == <<pc, ref, todo, seen, claims>>
bounds   == <<edits, crashes>>
vars     == <<now, database, worker, bounds>>

Settings == [zone : Zones, start : Starts, days : WeekdaySets, enabled : BOOLEAN]
Program  == [set : Settings, updated : Nat, last : Nat \cup {None}]
Command  == [program : Programs \cup {None}, zone : Zones, at : Nat,
             due : Int, by : Workers \cup {None}, status : {"simulated", "failed"}]

Init ==
    /\ now = 0
    /\ rows = [p \in Programs |-> None]
    /\ born = {}
    /\ zones = Zones
    /\ commands = {}
    /\ pc = [w \in Workers |-> "idle"]
    /\ ref = [w \in Workers |-> 0]
    /\ todo = [w \in Workers |-> {}]
    /\ seen = [w \in Workers |-> rows]
    /\ claims = [w \in Workers |-> {}]
    /\ edits = 0 /\ crashes = 0

-----------------------------------------------------------------------------
(* The schedule *)

Midnight(t)   == t - (t % Day)
Weekday(t)    == ((t \div Day) % 7) + 1
Allowed(f, t) == f = Anyday \/ Weekday(t) \in f

\* start_dt: the start time on the day of the run.
StartOf(s, t) == Midnight(t) + s.start

Due(s, t) ==
    /\ Allowed(s.days, t)
    /\ t - Window <= StartOf(s, t)
    /\ StartOf(s, t) <= t

\* Mutant: a program that has run has run.
RanAlreadyEver(row, t) == row.last # None

\* last_run_at is inside the window of a run at t.
RanAlready(row, t) == row.last # None /\ row.last >= t - Window

\* Nothing is wired to the valves: enabled dispatch fails, else it simulates.
Outcome == IF DispatchEnabled THEN "failed" ELSE "simulated"

-----------------------------------------------------------------------------
(* A run *)

Head(w)      == CHOOSE p \in todo[w] : \A q \in todo[w] : p <= q
Claimed(w)   == {c.program : c \in claims[w]}
Locked(p)    == \E w \in Workers : p \in Claimed(w)
LockedOut(w) == \E v \in Workers \ {w} : Head(w) \in Claimed(v)

Start(w) ==
    /\ pc[w] = "idle" /\ now % Period = 0
    /\ pc' = [pc EXCEPT ![w] = "check"]
    /\ ref' = [ref EXCEPT ![w] = now]
    /\ seen' = [seen EXCEPT ![w] = rows]
    /\ todo' = [todo EXCEPT ![w] =
                  {p \in Programs : rows[p] # None /\ rows[p].set.enabled}]
    /\ UNCHANGED <<now, database, claims, bounds>>

\* To the next program.
Next1(w) ==
    /\ pc' = [pc EXCEPT ![w] = "check"]
    /\ todo' = [todo EXCEPT ![w] = @ \ {Head(w)}]

\* The filters run on the row as it was loaded.
Visit(w) ==
    /\ pc[w] = "check" /\ todo[w] # {}
    /\ LET row == seen[w][Head(w)] IN
         IF Due(row.set, ref[w]) /\ ~RanAlready(row, ref[w])
         THEN pc' = [pc EXCEPT ![w] = "claim"] /\ UNCHANGED todo
         ELSE Next1(w)
    /\ UNCHANGED <<now, database, ref, seen, claims, bounds>>

\* The claim took: the command is inserted and dispatched.
Take(w) ==
    /\ claims' = [claims EXCEPT ![w] = @ \cup
         {[program |-> Head(w), zone |-> seen[w][Head(w)].set.zone, at |-> ref[w],
           due |-> StartOf(seen[w][Head(w)].set, ref[w]), by |-> w,
           status |-> Outcome]}]
    /\ Next1(w)

\* WHERE id = :id AND last_run_at IS NULL
NeverRan(w) == rows[Head(w)] # None /\ rows[Head(w)].last = None
ClaimFirst(w) ==
    /\ pc[w] = "claim" /\ ~LockedOut(w)
    /\ \/ NeverRan(w) /\ Take(w)
       \/ /\ ~NeverRan(w)
          /\ pc' = [pc EXCEPT ![w] = "reclaim"]
          /\ UNCHANGED <<todo, claims>>
    /\ UNCHANGED <<now, database, ref, seen, bounds>>

\* Mutant: the claim trusts the row as it was loaded.
RanLongAgoAsLoaded(w) == rows[Head(w)] # None

\* WHERE id = :id AND last_run_at < :window_start
RanLongAgo(w) ==
    /\ rows[Head(w)] # None /\ rows[Head(w)].last # None
    /\ rows[Head(w)].last < ref[w] - Window
ClaimAgain(w) ==
    /\ pc[w] = "reclaim" /\ ~LockedOut(w)
    /\ \/ RanLongAgo(w) /\ Take(w)
       \/ ~RanLongAgo(w) /\ Next1(w) /\ UNCHANGED claims
    /\ UNCHANGED <<now, database, ref, seen, bounds>>

Reset(w) ==
    /\ pc' = [pc EXCEPT ![w] = "idle"]
    /\ ref' = [ref EXCEPT ![w] = 0]
    /\ todo' = [todo EXCEPT ![w] = {}]
    /\ seen' = [seen EXCEPT ![w] = [p \in Programs |-> None]]
    /\ claims' = [claims EXCEPT ![w] = {}]

Commit(w) ==
    /\ pc[w] = "check" /\ todo[w] = {}
    /\ rows' = [p \in Programs |->
                  IF p \in Claimed(w) THEN [rows[p] EXCEPT !.last = ref[w]]
                  ELSE rows[p]]
    /\ commands' = commands \cup claims[w]
    /\ Reset(w)
    /\ UNCHANGED <<now, born, zones, bounds>>

\* The worker dies: Postgres rolls its transaction back.
Crash(w) ==
    /\ pc[w] # "idle" /\ crashes < MaxCrashes
    /\ crashes' = crashes + 1
    /\ Reset(w)
    /\ UNCHANGED <<now, database, edits>>

-----------------------------------------------------------------------------
(* Owners and staff *)

Request == edits < MaxEdits /\ edits' = edits + 1

Create(p, s) ==
    /\ Request /\ s.zone \in zones
    /\ p \notin born /\ \A q \in Programs : q < p => q \in born
    /\ born' = born \cup {p}
    /\ rows' = [rows EXCEPT ![p] = [set |-> s, updated |-> now, last |-> None]]
    /\ UNCHANGED <<now, zones, commands, worker, crashes>>

\* PUT replaces every setting and keeps last_run_at.
Update(p, s) ==
    /\ Request /\ rows[p] # None /\ ~Locked(p) /\ s.zone \in zones
    /\ rows' = [rows EXCEPT ![p].set = s, ![p].updated = now]
    /\ UNCHANGED <<now, born, zones, commands, worker, crashes>>

Delete(p) ==
    /\ Request /\ rows[p] # None /\ ~Locked(p)
    /\ rows' = [rows EXCEPT ![p] = None]
    /\ UNCHANGED <<now, born, zones, commands, worker, crashes>>

Manual(z) ==
    /\ Request /\ z \in zones
    /\ commands' = commands \cup
         {[program |-> None, zone |-> z, at |-> now, due |-> now, by |-> None,
           status |-> Outcome]}
    /\ UNCHANGED <<now, rows, born, zones, worker, crashes>>

\* No foreign key ties the programs to their zone.
DeleteZone(z) ==
    /\ Request /\ z \in zones
    /\ zones' = zones \ {z}
    /\ UNCHANGED <<now, rows, born, commands, worker, crashes>>

Tick ==
    /\ now < MaxNow /\ now' = now + 1
    /\ UNCHANGED <<database, worker, bounds>>

Run(w) ==
    Start(w) \/ Visit(w) \/ ClaimFirst(w) \/ ClaimAgain(w) \/ Commit(w) \/ Crash(w)

Next ==
    \/ \E w \in Workers : Run(w)
    \/ \E p \in Programs, s \in Settings : Create(p, s) \/ Update(p, s)
    \/ \E p \in Programs : Delete(p)
    \/ \E z \in Zones : Manual(z) \/ DeleteZone(z)
    \/ Tick

Spec == Init /\ [][Next]_vars

-----------------------------------------------------------------------------
(* Properties *)

TypeOK ==
    /\ now \in Nat
    /\ rows \in [Programs -> Program \cup {None}]
    /\ born \in SUBSET Programs /\ zones \in SUBSET Zones
    /\ commands \in SUBSET Command
    /\ pc \in [Workers -> {"idle", "check", "claim", "reclaim"}]
    /\ ref \in [Workers -> Nat]
    /\ todo \in [Workers -> SUBSET Programs]
    /\ seen \in [Workers -> [Programs -> Program \cup {None}]]
    /\ claims \in [Workers -> SUBSET Command]
    /\ edits \in Nat /\ crashes \in Nat

\* A program opens its valve once for each instant its start time names,
\* whatever the runs, the deaths and the owner's edits ("dedup": the scan
\* doesn't re-fire a program within the same start-time window).
OncePerStart ==
    \A c, d \in commands :
        c.program # None /\ c.program = d.program /\ c.due = d.due => c = d

\* Two openings of a program are more than a window apart, even when its
\* owner moves the start time from one run to the next.
FiringsApart ==
    \A c, d \in commands :
        c.program # None /\ c.program = d.program /\ c # d =>
            c.at - d.at > Window \/ d.at - c.at > Window

\* t is a start instant, in the window of w's run, of a program it loaded.
Owes(w, p, t) ==
    /\ t >= 0 /\ seen[w][p] # None /\ seen[w][p].set.enabled
    /\ t % Day = seen[w][p].set.start
    /\ \/ seen[w][p].set.days = Anyday
       \/ \E d \in seen[w][p].set.days : Midnight(t) % (7 * Day) = (d - 1) * Day

InWindowOf(w) == (ref[w] - Window)..ref[w]

Opened(w, p) ==
    rows'[p] # None =>
        \E c \in commands' : c.program = p /\ c.at >= ref[w] - Window

\* A run that commits leaves no program it found due today without an
\* opening inside its window, by itself or by an overlapping run.
DueIsServed ==
    [][\A w \in Workers : Commit(w) =>
          \A p \in Programs, t \in InWindowOf(w) :
              Owes(w, p, t) /\ Midnight(t) = Midnight(ref[w]) => Opened(w, p)]_vars

\* "... so a program's start_time window is caught promptly": a run that finds
\* a start instant in its window, of a program nobody has edited since, leaves
\* the program opened.
StartsAreCaught ==
    [][\A w \in Workers : Commit(w) =>
          \A p \in Programs, t \in InWindowOf(w) :
              Owes(w, p, t) /\ seen[w][p].updated <= t => Opened(w, p)]_vars

\* The programs of a zone go with the zone (on_delete=CASCADE of the model).
ProgramsHaveZones ==
    \A p \in Programs : rows[p] # None => rows[p].set.zone \in zones

=============================================================================
