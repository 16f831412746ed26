---------------------------- MODULE CadenceJobs ----------------------------
(***************************************************************************)
(* The beat jobs that mail something at most once per window and item:     *)
(*   "health"     scan_device_health, a device that is offline or low      *)
(*   "proactive"  scan_proactive_insights, a customer who should irrigate  *)
(*   "periodic"   send_periodic_notifications, a user's field status       *)
(*   "idle"       flag_idle_zones, a zone without readings (a Redis key)   *)
(* Each claims the item with one conditional write and mails after that.   *)
(* They differ in when the claim is committed, in whether a failed send    *)
(* gives it back, and in the instant they stamp.                           *)
(***************************************************************************)
EXTENDS Integers, FiniteSets

CONSTANTS
  Jobs,       \* subset of the four jobs above
  Items,      \* ids of devices, users or zones, scanned in this order
  Fickle,     \* the items whose condition or address may change
  Workers,    \* worker processes
  Cooldown,   \* the window, in clock ticks
  MaxRun,     \* no run lasts longer than this: minutes against 24 hours
  MaxNow,     \* bound on the clock
  MaxRuns,    \* bound on the number of runs
  Never,      \* a NULL stamp, an absent key
  None        \* no uncommitted write

ASSUME JobsAssumption == Jobs \subseteq {"health", "proactive", "periodic", "idle"}
ASSUME ItemsAssumption == Items \subseteq Nat /\ IsFiniteSet(Items)
ASSUME TimesAssumption ==
    /\ Cooldown \in Nat /\ MaxRun \in Nat /\ MaxRun <= Cooldown
    /\ MaxNow \in Nat /\ MaxRuns \in Nat
ASSUME FickleAssumption == Fickle \subseteq Items
ASSUME NeverAssumption == Never \notin Nat /\ None \notin Nat /\ None # Never

\* One transaction for the whole run, or one per item.
WholeRun(j) == j = "health"
\* A failed send gives the claim back.
Restores(j) == j \in {"health", "proactive"}
\* What it gives back was read with the rows of the run, or by a statement of
\* its own just before the claim.
LooksFirst(j) == Restores(j) /\ ~WholeRun(j)
\* The slot is taken before anybody looks for a recipient.
ClaimsBlindly(j) == j = "idle"
\* The instant written is the run's (`reference`) or the item's (`moment`).
StampsRunStart(j) == j \in {"health", "proactive"}

VARIABLES
  now,        \* the clock
  stamp,      \* committed stamps, [Jobs -> [Items -> Stamps]]
  wants,      \* the items of each job whose condition holds
  mailable,   \* the items whose owner has an e-mail address
  pc, job, run, ref,  \* each worker's place, job, run number and start
  todo,       \* the items it has still to look at
  seen,       \* the stamps it has read
  held,       \* its uncommitted writes (row locks), None elsewhere
  claim,      \* the instant it stamped for the item at hand
  runs,       \* runs started so far
  mails,      \* messages a provider accepted
  voided,     \* runs that died before their end
  orphans,    \* claims <<job, item, stamp>> of a worker that died over them
  glimpsed    \* claims that another run read while they were in flight

world   == <<wants, mailable>>
worker  == <<pc, job, run, ref, todo, seen, held, claim>>
history == <<mails, voided, orphans, glimpsed>>
vars    == <<now, stamp, world, worker, runs, history>>

Stamps == Nat \cup {Never}
Mail   == [job : Jobs, item : Items, at : Nat, run : Nat, sure : BOOLEAN]
NoHold == [i \in Items |-> None]

Init ==
    /\ now = 0
    /\ stamp = [j \in Jobs |-> [i \in Items |-> Never]]
    /\ wants = [j \in Jobs |-> Items]
    /\ mailable = Items
    /\ pc = [w \in Workers |-> "idle"]
    /\ job = [w \in Workers |-> None]
    /\ run = [w \in Workers |-> 0]
    /\ ref = [w \in Workers |-> 0]
    /\ todo = [w \in Workers |-> {}]
    /\ seen = [w \in Workers |-> [i \in Items |-> Never]]
    /\ held = [w \in Workers |-> NoHold]
    /\ claim = [w \in Workers |-> 0]
    /\ runs = 0
    /\ mails = {} /\ voided = {} /\ orphans = {} /\ glimpsed = {}

-----------------------------------------------------------------------------
(* One run of a job *)

\* Beat's task reaches a worker: it reads the rows and the clock.
Start(w, j) ==
    /\ pc[w] = "idle" /\ runs < MaxRuns
    /\ runs' = runs + 1
    /\ pc' = [pc EXCEPT ![w] = "scan"]
    /\ job' = [job EXCEPT ![w] = j]
    /\ run' = [run EXCEPT ![w] = runs]
    /\ ref' = [ref EXCEPT ![w] = now]
    /\ todo' = [todo EXCEPT ![w] = Items]
    /\ seen' = IF WholeRun(j) THEN [seen EXCEPT ![w] = stamp[j]] ELSE seen
    /\ UNCHANGED <<now, stamp, world, held, claim, history>>

Scanning(w) == pc[w] = "scan" /\ todo[w] # {}

\* Mutant of Head: without ORDER BY the rows come in any order.
HeadUnordered(w) ==
    CHOOSE i \in todo[w] : \A k \in todo[w] :
        IF run[w] % 2 = 0 THEN i <= k ELSE i >= k

\* order_by(id)
Head(w) == CHOOSE i \in todo[w] : \A k \in todo[w] : i <= k

Advance(w) ==
    /\ pc' = [pc EXCEPT ![w] = "scan"]
    /\ todo' = [todo EXCEPT ![w] = @ \ {Head(w)}]

\* Nothing to tell, or nobody to tell it to.
Concerns(w) ==
    /\ Head(w) \in wants[job[w]]
    /\ Head(w) \in mailable \/ ClaimsBlindly(job[w])

PassOver(w) ==
    /\ Scanning(w)
    /\ ~Concerns(w) \/ job[w] = "idle"   \* Redis unreachable: fails closed
    /\ Advance(w)
    /\ UNCHANGED <<now, stamp, world, job, run, ref, seen, held, claim, runs,
                   history>>

InFlight(j, i) ==
    \E w \in Workers : /\ job[w] = j /\ pc[w] \in {"send", "sent", "unsent"}
                       /\ Head(w) = i

\* SELECT last_sent: under READ COMMITTED another run may change it before this
\* one's UPDATE.
Look(w) ==
    /\ Scanning(w) /\ Concerns(w) /\ LooksFirst(job[w])
    /\ pc' = [pc EXCEPT ![w] = "claim"]
    /\ LET last == stamp[job[w]][Head(w)]
       IN  /\ seen' = [seen EXCEPT ![w][Head(w)] = last]
           /\ glimpsed' = IF InFlight(job[w], Head(w))
                          THEN glimpsed \cup {<<job[w], Head(w), last>>}
                          ELSE glimpsed
    /\ UNCHANGED <<now, stamp, world, job, run, ref, todo, held, claim, runs,
                   mails, voided, orphans>>

\* At its conditional write.
AtUpdate(w) == IF LooksFirst(job[w]) THEN pc[w] = "claim"
               ELSE Scanning(w) /\ Concerns(w)

\* The conditional UPDATE waits for the row lock of another run.
Locked(w, i) == \E v \in Workers \ {w} : job[v] = job[w] /\ held[v][i] # None

At(w) == IF StampsRunStart(job[w]) THEN ref[w] ELSE now

\* Mutant of Due: the stamp of the previous window is no obstacle.
DueWithin(j, last, at) == last # Never => last <= at - Cooldown + 1

\* `last IS NULL OR last < cutoff`; a Redis key is gone at its expiry.
Due(j, last, at) ==
    last # Never => \/ last < at - Cooldown
                    \/ j = "idle" /\ last = at - Cooldown

\* Mutant of Unclaimed: decided on the stamp that the run has read.
UnclaimedStale(w) == Due(job[w], seen[w][Head(w)], At(w))

Unclaimed(w) == Due(job[w], stamp[job[w]][Head(w)], At(w))

ClaimLost(w) ==
    /\ AtUpdate(w) /\ ~Locked(w, Head(w)) /\ ~Unclaimed(w)
    /\ Advance(w)
    /\ UNCHANGED <<now, stamp, world, job, run, ref, seen, held, claim, runs,
                   history>>

\* Write s for the item at hand: held to the end of the run, or committed.
Put(w, s) ==
    IF WholeRun(job[w])
    THEN held' = [held EXCEPT ![w][Head(w)] = s] /\ UNCHANGED stamp
    ELSE stamp' = [stamp EXCEPT ![job[w]][Head(w)] = s] /\ UNCHANGED held

ClaimWon(w) ==
    /\ AtUpdate(w) /\ ~Locked(w, Head(w)) /\ Unclaimed(w)
    /\ Put(w, At(w))
    /\ IF ClaimsBlindly(job[w]) /\ Head(w) \notin mailable
       THEN Advance(w)
       ELSE pc' = [pc EXCEPT ![w] = "send"] /\ UNCHANGED todo
    /\ claim' = [claim EXCEPT ![w] = At(w)]
    /\ UNCHANGED <<now, world, job, run, ref, seen, runs, history>>

\* The provider accepts, refuses, or accepts and its answer is lost.
Send(w) ==
    /\ pc[w] = "send"
    /\ \E says \in BOOLEAN, took \in BOOLEAN :
         /\ says => took
         /\ pc' = [pc EXCEPT ![w] = IF says THEN "sent" ELSE "unsent"]
         /\ mails' = IF ~took THEN mails
                     ELSE mails \cup {[job |-> job[w], item |-> Head(w),
                                       at |-> claim[w], run |-> run[w],
                                       sure |-> says]}
    /\ UNCHANGED <<now, stamp, world, job, run, ref, todo, seen, held, claim,
                   runs, voided, orphans, glimpsed>>

\* The attempt is logged; a failed one gives the claim back.
Sent(w) ==
    /\ pc[w] = "sent"
    /\ Advance(w)
    /\ UNCHANGED <<now, stamp, world, job, run, ref, seen, held, claim, runs,
                   history>>

\* Mutant of Unsent: a failed send keeps the claim.
UnsentKeeps(w) ==
    /\ pc[w] = "unsent"
    /\ Advance(w)
    /\ UNCHANGED <<now, stamp, world, job, run, ref, seen, held, claim, runs,
                   history>>

Unsent(w) ==
    /\ pc[w] = "unsent"
    /\ IF Restores(job[w]) THEN Put(w, seen[w][Head(w)])
       ELSE UNCHANGED <<stamp, held>>
    /\ Advance(w)
    /\ UNCHANGED <<now, world, job, run, ref, seen, claim, runs, history>>

Idle(w) ==
    /\ pc' = [pc EXCEPT ![w] = "idle"]
    /\ job' = [job EXCEPT ![w] = None]
    /\ todo' = [todo EXCEPT ![w] = {}]
    /\ seen' = [seen EXCEPT ![w] = [i \in Items |-> Never]]
    /\ held' = [held EXCEPT ![w] = NoHold]
    /\ claim' = [claim EXCEPT ![w] = 0]
    /\ run' = [run EXCEPT ![w] = 0]
    /\ ref' = [ref EXCEPT ![w] = 0]

Finish(w) ==
    /\ pc[w] = "scan" /\ todo[w] = {}
    /\ stamp' = [stamp EXCEPT ![job[w]] =
                   [i \in Items |-> IF held[w][i] = None THEN @[i]
                                    ELSE held[w][i]]]
    /\ Idle(w)
    /\ UNCHANGED <<now, world, runs, history>>

\* The run ends here and its open transaction is rolled back.
Die(w) ==
    /\ voided' = voided \cup {run[w]}
    /\ orphans' = IF pc[w] \in {"scan", "claim"} \/ WholeRun(job[w]) THEN orphans
                  ELSE orphans \cup {<<job[w], Head(w), claim[w]>>}
    /\ Idle(w)
    /\ UNCHANGED <<now, stamp, world, runs, mails, glimpsed>>

\* A delivery-log row that is refused spoils its session: the next statement,
\* or the COMMIT, raises out of the run.
LogRefused(w) == pc[w] \in {"sent", "unsent"} /\ Die(w)

\* The worker process dies and is started again.
Crash(w) == pc[w] # "idle" /\ Die(w)

-----------------------------------------------------------------------------
(* The clock, the field and the owners *)

Tick ==
    /\ now < MaxNow
    /\ \A w \in Workers : pc[w] = "idle" \/ now - ref[w] < MaxRun
    /\ now' = now + 1
    /\ UNCHANGED <<stamp, world, worker, runs, history>>

Turn(j, i) ==
    /\ wants' = [wants EXCEPT ![j] = (@ \cup {i}) \ (@ \cap {i})]
    /\ UNCHANGED <<now, stamp, mailable, worker, runs, history>>

Address(i) ==
    /\ mailable' = (mailable \cup {i}) \ (mailable \cap {i})
    /\ UNCHANGED <<now, stamp, wants, worker, runs, history>>

\* POST /users/me/notifications: a message now, which moves the same stamp.
OnDemand(i) ==
    /\ "periodic" \in Jobs /\ i \in mailable
    /\ stamp' = [stamp EXCEPT !["periodic"][i] = now]
    /\ UNCHANGED <<now, world, worker, runs, history>>

Step(w) ==
    \/ PassOver(w) \/ Look(w) \/ ClaimLost(w) \/ ClaimWon(w) \/ Send(w)
    \/ Sent(w) \/ Unsent(w) \/ Finish(w)

Next ==
    \/ \E w \in Workers : \/ \E j \in Jobs : Start(w, j)
                          \/ Step(w) \/ LogRefused(w) \/ Crash(w)
    \/ \E j \in Jobs, i \in Fickle : Turn(j, i)
    \/ \E i \in Fickle : Address(i) \/ OnDemand(i)
    \/ Tick

Spec == Init /\ [][Next]_vars

\* A worker that runs a job keeps running it; nothing else is promised.
FairSpec == Spec /\ \A w \in Workers : WF_vars(Step(w))

-----------------------------------------------------------------------------
(* Properties *)

\* The types of the variables.
TypeOK ==
    /\ now \in Nat /\ runs \in Nat
    /\ stamp \in [Jobs -> [Items -> Stamps]]
    /\ wants \in [Jobs -> SUBSET Items] /\ mailable \subseteq Items
    /\ pc \in [Workers -> {"idle", "scan", "claim", "send", "sent", "unsent"}]
    /\ job \in [Workers -> Jobs \cup {None}]
    /\ run \in [Workers -> Nat] /\ ref \in [Workers -> Nat]
    /\ todo \in [Workers -> SUBSET Items]
    /\ seen \in [Workers -> [Items -> Stamps]]
    /\ held \in [Workers -> [Items -> Stamps \cup {None}]]
    /\ claim \in [Workers -> Nat]
    /\ mails \subseteq Mail /\ voided \subseteq Nat
    /\ orphans \cup glimpsed \subseteq Jobs \X Items \X Stamps

Apart(m, n) == Due(m.job, m.at, n.at) \/ Due(n.job, n.at, m.at)

\* tasks_scan.py:109-166, 244-320, tasks_compute.py:204-220: two messages of a
\* job about one item are a window apart.  What can break it is named: a run
\* in one transaction that dies loses the claims of messages already sent, and
\* a provider that accepts without saying so has its claim given back.
DuplicatesOnlyWhenUnsure ==
    \A m, n \in mails :
        \/ m = n \/ m.job # n.job \/ m.item # n.item \/ Apart(m, n)
        \/ WholeRun(m.job) /\ {m.run, n.run} \cap voided # {}
        \/ Restores(m.job) /\ ~(m.sure /\ n.sure)

\* tasks_scan.py:148-154, 294-300 ("so a later tick can retry"): an item whose
\* job gives failed claims back is silenced for a window without a message only
\* when the worker died between the claim and its outcome, or by a claim that
\* one run had in flight while another read it as the stamp to give back: both
\* sends fail, and the second run restores what the first has taken back.
SilencedWasMailed ==
    \A j \in Jobs, i \in Items :
        \/ ~Restores(j) \/ stamp[j][i] = Never \/ InFlight(j, i)
        \/ <<j, i, stamp[j][i]>> \in orphans \cup glimpsed
        \/ \E m \in mails : m.job = j /\ m.item = i /\ m.at = stamp[j][i]

\* The stamps of the whole-run job move only as the abstract gate allows,
\* through row-lock waits, given-back claims, deaths and restarts.
HealthGate == INSTANCE GraceGate WITH
    stamp <- stamp["health"], Spacing <- [i \in Items |-> Cooldown]
ImplementsHealthGate == HealthGate!Spec

\* tasks_scan.py:80, order_by(id): two runs that hold row locks of devices for
\* the length of their sends never wait for each other for ever.
RunsEnd == \A w \in Workers : pc[w] # "idle" ~> pc[w] = "idle"

\* tasks_scan.py:55-56: "email the owner at most once per cooldown window
\* (atomic dedup claim on last_health_notified)".
OneMailPerWindow ==
    \A m, n \in mails :
        m = n \/ m.job # n.job \/ m.item # n.item \/ Apart(m, n)
=============================================================================
