----------------------------- MODULE LegacyTasks -----------------------------
(***************************************************************************)
(* The Django worker (agriapi/tasks.py) and the cutover between it and the *)
(* native one, which takes the same task names off the same queue and      *)
(* claims the same rows.  The entry point forbids the two together; a      *)
(* rollback switches from one to the other, and beat may have queued runs  *)
(* for either.  One item of one job:                                       *)
(*   "health"     a device               "periodic"  a user's digest       *)
(*   "proactive"  a customer             "idle"      a zone                *)
(*   "program"    an irrigation program  "alert"     a rule, on a reading  *)
(* Django commits each statement by itself.  The native runs are those of  *)
(* CadenceJobs, IrrigationRunner and AlertIngest, in outline.              *)
(***************************************************************************)
EXTENDS Integers, FiniteSets

CONSTANTS
  Workers,   \* worker processes
  Jobs,      \* subset of the six jobs above
  Window,    \* cooldown, cadence, re-flag or grace period, or program window
  MaxRun,    \* no run lasts longer
  MaxNow, MaxRuns, MaxDeaths,   \* bounds
  Never,     \* a NULL stamp, an absent key
  None

\* Minutes against hours or days.
WindowAssumption == Window \in Nat \ {0} /\ MaxRun \in Nat /\ MaxRun <= Window
SlotAssumption   == Never \notin Nat /\ None \notin Workers

VARIABLES
  job,       \* the job at hand
  now,
  stamp,     \* the committed stamp of the item's row, or its key in Redis
  memory,    \* the slot as each process has it in Django's cache
  wants,     \* something to tell, and somebody to tell it to; the program is due
  pc, kind, ref, seen, claim, run,   \* of each worker: what it runs
  queue,     \* alert messages on their way to a worker
  mails,     \* messages a provider accepted, commands that were created
  lost,      \* stamps nothing came of: a death, a failure nobody retries, an old load
  voided,    \* runs whose open transaction was rolled back
  runs, deaths

local  == <<pc, kind, ref, seen, claim, run>>
vars   == <<job, now, stamp, memory, wants, local, queue, mails, lost, voided, runs, deaths>>

Kinds   == {"django", "native"}
Stamps  == Nat \cup {Never}
\* `of` is the process whose cache gave the slot, None for the shared row.
Message == [at : Nat, run : Nat, sure : BOOLEAN, of : (Workers \cup {None}) \X Nat]

TypeOK ==
    /\ job \in Jobs /\ now \in Nat /\ stamp \in Stamps
    /\ memory \in [Workers -> Stamps] /\ wants \in BOOLEAN
    /\ pc \in [Workers -> {"idle", "check", "send", "told", "failed", "post"}]
    /\ kind \in [Workers -> Kinds] /\ ref \in [Workers -> Nat]
    /\ seen \in [Workers -> Stamps] /\ claim \in [Workers -> Nat]
    /\ run \in [Workers -> Nat]
    /\ queue \subseteq Message /\ mails \subseteq Message
    /\ lost \subseteq Nat /\ voided \subseteq Nat

Init ==
    /\ job \in Jobs /\ now = 0 /\ stamp = Never /\ wants = TRUE
    /\ memory = [w \in Workers |-> Never]
    /\ pc = [w \in Workers |-> "idle"] /\ kind = [w \in Workers |-> "django"]
    /\ ref = [w \in Workers |-> 0] /\ seen = [w \in Workers |-> Never]
    /\ claim = [w \in Workers |-> 0] /\ run = [w \in Workers |-> 0]
    /\ queue = {} /\ mails = {} /\ lost = {} /\ voided = {}
    /\ runs = 0 /\ deaths = 0

Goto(w, place) == pc' = [pc EXCEPT ![w] = place]

\* The run is over and its variables are gone.
Over(w) ==
    /\ Goto(w, "idle") /\ kind' = [kind EXCEPT ![w] = "django"]
    /\ ref' = [ref EXCEPT ![w] = 0] /\ seen' = [seen EXCEPT ![w] = Never]
    /\ claim' = [claim EXCEPT ![w] = 0] /\ run' = [run EXCEPT ![w] = 0]

\* The native run of these is one transaction: its claim is a row lock.
Holds(w)    == kind[w] = "native" /\ job \in {"health", "program", "alert"}
Holding(w)  == Holds(w) /\ pc[w] \in {"send", "told", "failed"}
\* A failed send gives the claim back.
Restores    == job \in {"health", "proactive"}
\* Django's cache is not configured: it is the memory of the process.
Private(w)  == job = "idle" /\ kind[w] = "django"
Gate(w)     == IF Private(w) THEN memory[w] ELSE stamp
Put(w, s) ==
    IF Private(w) THEN memory' = [memory EXCEPT ![w] = s] /\ UNCHANGED stamp
    ELSE stamp' = s /\ UNCHANGED memory

-----------------------------------------------------------------------------
(* A run *)

\* A task of beat, or a reading, reaches a process: rows and clock are read.
Start(w, k) ==
    /\ pc[w] = "idle" /\ runs < MaxRuns /\ runs' = runs + 1
    /\ Goto(w, "check") /\ kind' = [kind EXCEPT ![w] = k]
    /\ ref' = [ref EXCEPT ![w] = now] /\ seen' = [seen EXCEPT ![w] = stamp]
    /\ run' = [run EXCEPT ![w] = runs]
    /\ UNCHANGED <<job, now, stamp, memory, wants, claim, queue, mails, lost, voided, deaths>>

\* Mutant: decided as should_notify does, on what was loaded.
LoadedDue(w) == seen[w] # Never => seen[w] < ref[w] - Window

\* send_periodic_notifications stamps its own instant, the others the run's.
At(w) == IF job = "periodic" THEN now ELSE ref[w]

\* `last IS NULL OR last < cutoff`; a key is gone at its expiry.
Unclaimed(w) ==
    Gate(w) # Never => \/ Gate(w) < At(w) - Window
                       \/ job = "idle" /\ Gate(w) = At(w) - Window

\* Nothing is wrong, nobody to tell, or another run has the slot.
Pass(w) ==
    /\ pc[w] = "check" /\ Over(w)
    /\ \/ ~wants
       \/ ~Unclaimed(w) /\ \A v \in Workers \ {w} : ~Holding(v)
    /\ UNCHANGED <<job, now, stamp, memory, wants, queue,
                   mails, lost, voided, runs, deaths>>

\* A stamp that was loaded and has since been given back: a failure would bring it back.
Revivable(w) == IF Restores /\ seen[w] # Never /\ seen[w] # stamp THEN {seen[w]} ELSE {}

\* The conditional UPDATE waits for the lock of a native run, and is committed at once
\* unless this is one.
Claim(w) ==
    /\ pc[w] = "check" /\ wants /\ Goto(w, "send")
    /\ Unclaimed(w) /\ \A v \in Workers \ {w} : ~Holding(v)
    /\ claim' = [claim EXCEPT ![w] = At(w)]
    /\ IF Holds(w) THEN UNCHANGED <<stamp, memory>> ELSE Put(w, At(w))
    /\ lost' = lost \cup Revivable(w)
    /\ UNCHANGED <<job, now, wants, kind, ref, seen, run, queue, mails, voided, runs, deaths>>

\* Whom to tell of an idle zone is looked up after its slot is taken: nobody.
Nobody(w) ==
    /\ pc[w] = "send" /\ job = "idle" /\ Over(w) /\ lost' = lost \cup {claim[w]}
    /\ UNCHANGED <<job, now, stamp, memory, wants, queue, mails, voided, runs, deaths>>

Told(w, sure) ==
    [at |-> claim[w], run |-> run[w], sure |-> sure,
     of |-> IF Private(w) THEN <<w, deaths>> ELSE <<None, 0>>]

\* What a provider answers is true; what it does not answer may be sent as well.
_post_message(says, took) == says => took

\* The provider, the database or the broker takes it and says so, takes it in silence,
\* or does not take it. A rule's message goes to the queue.
Send(w) ==
    /\ pc[w] = "send"
    /\ \E says, took \in BOOLEAN :
         /\ _post_message(says, took)
         /\ Goto(w, IF says THEN "told" ELSE "failed")
         /\ LET new == IF took THEN {Told(w, says)} ELSE {} IN
              IF job = "alert" THEN queue' = queue \cup new /\ UNCHANGED mails
              ELSE mails' = mails \cup new /\ UNCHANGED queue
    /\ UNCHANGED <<job, now, stamp, memory, wants, kind, ref, seen, claim, run, lost, voided,
                   runs, deaths>>

\* The attempt is logged, which never raises; a valve's command is dispatched, and
\* becomes simulated or failed. A native transaction commits.
Done(w) ==
    /\ pc[w] = "told" /\ Over(w)
    /\ IF Holds(w) THEN stamp' = claim[w] ELSE UNCHANGED stamp
    /\ UNCHANGED <<job, now, memory, wants, queue, mails, lost,
                   voided, runs, deaths>>

\* A native scan of the programs ends with its first error, and leaves nothing.
Undone(w)   == Holds(w) /\ job = "program"

\* Mutant: the claim of a failed send is kept.
FailedKeeps(w) ==
    /\ pc[w] = "failed" /\ Over(w) /\ ~Undone(w)
    /\ IF Restores THEN UNCHANGED lost ELSE lost' = lost \cup {claim[w]}
    /\ IF Holds(w) THEN stamp' = claim[w] /\ UNCHANGED memory
       ELSE UNCHANGED <<stamp, memory>>
    /\ UNCHANGED <<job, now, wants, queue, mails, voided, runs,
                   deaths>>

\* What a transaction that ends early takes with it.
RollBack(w) ==
    /\ voided' = voided \cup {run[w]} /\ UNCHANGED lost
    /\ mails' = IF job = "program" THEN {m \in mails : m.run # run[w]} ELSE mails

Aborted(w) ==
    /\ pc[w] = "failed" /\ Undone(w) /\ RollBack(w) /\ Over(w)
    /\ UNCHANGED <<job, now, stamp, memory, wants, queue, runs,
                   deaths>>

\* The claim goes back to what was loaded, or, when the job has no such care, stays used.
Failed(w) ==
    /\ pc[w] = "failed" /\ Over(w) /\ ~Undone(w)
    /\ IF Restores
       THEN /\ UNCHANGED lost
            /\ IF Holds(w) THEN UNCHANGED <<stamp, memory>> ELSE Put(w, seen[w])
       ELSE /\ lost' = lost \cup {claim[w]}
            /\ IF Holds(w) THEN stamp' = claim[w] /\ UNCHANGED memory
               ELSE UNCHANGED <<stamp, memory>>
    /\ UNCHANGED <<job, now, wants, queue, mails, voided, runs,
                   deaths>>

\* The process dies, or the container is recreated as the other kind: what is not
\* committed is rolled back, a message taken from the queue is not put back.
Die(w) ==
    /\ deaths < MaxDeaths /\ deaths' = deaths + 1
    /\ Over(w) /\ memory' = [memory EXCEPT ![w] = Never]
    /\ IF Holding(w) THEN RollBack(w)
       ELSE /\ lost' = IF pc[w] \in {"idle", "check"} THEN lost ELSE lost \cup {claim[w]}
            /\ UNCHANGED <<voided, mails>>
    /\ UNCHANGED <<job, now, stamp, wants, queue, runs>>

-----------------------------------------------------------------------------
(* The task of a rule's message *)

\* send_alert_email and its like, in a worker of either kind: the rule is loaded anew,
\* and may be gone or switched off.
Take(w, m) ==
    /\ pc[w] = "idle" /\ wants /\ m \in queue /\ queue' = queue \ {m}
    /\ claim' = [claim EXCEPT ![w] = m.at] /\ run' = [run EXCEPT ![w] = m.run]
    /\ ref' = [ref EXCEPT ![w] = now] /\ Goto(w, "post")
    /\ UNCHANGED <<job, now, stamp, memory, wants, kind, seen, mails, lost, voided, runs,
                   deaths>>

Dropped(w, m) ==
    /\ pc[w] = "idle" /\ m \in queue /\ queue' = queue \ {m}
    /\ ~wants /\ lost' = lost \cup {m.at}
    /\ UNCHANGED <<job, now, stamp, memory, wants, local, mails, voided, runs, deaths>>

\* Whatever comes of it is logged, and the task is over.
Post(w) ==
    /\ pc[w] = "post" /\ Over(w)
    /\ \E says, took \in BOOLEAN :
         /\ _post_message(says, took)
         /\ mails' = IF took THEN mails \cup {Told(w, says)} ELSE mails
         /\ lost' = IF took THEN lost ELSE lost \cup {claim[w]}
    /\ UNCHANGED <<job, now, stamp, memory, wants, queue,
                   voided, runs, deaths>>

-----------------------------------------------------------------------------

Turn ==
    /\ wants' = ~wants
    /\ UNCHANGED <<job, now, stamp, memory, local, queue, mails, lost, voided, runs, deaths>>

Tick ==
    /\ now < MaxNow /\ now' = now + 1
    /\ \A w \in Workers : pc[w] = "idle" \/ now - ref[w] < MaxRun
    /\ UNCHANGED <<job, stamp, memory, wants, local, queue, mails, lost, voided, runs, deaths>>

Next ==
    \/ \E w \in Workers :
          \/ \E k \in Kinds : Start(w, k)
          \/ Pass(w) \/ Claim(w) \/ Nobody(w) \/ Send(w) \/ Done(w) \/ Failed(w) \/ Aborted(w)
          \/ Die(w) \/ Post(w)
          \/ \E m \in queue : Take(w, m) \/ Dropped(w, m)
    \/ Turn \/ Tick

Spec == Init /\ [][Next]_vars

-----------------------------------------------------------------------------
(* Properties *)

\* A key in Redis is gone at its expiry.
Apart(m, n) == IF job = "idle" THEN m.at # n.at
               ELSE m.at < n.at - Window \/ n.at < m.at - Window

\* agriapi/tasks.py:39-45, 1302-1312, 1510-1528 and docker-entrypoint.sh:160-164: whichever
\* of the two workers runs the tasks, and even when both do, a device, a user or a rule is
\* written to, and a valve opened, once in its window. Excused are a native transaction
\* that was rolled back under a message, a claim given back for a message that did go out,
\* and the slots of idle zones, which a Django process keeps to itself.
OneWorkersClaimCounts ==
    \A m, n \in mails :
        \/ m = n \/ Apart(m, n) \/ m.of # n.of
        \/ {m.run, n.run} \cap voided # {}
        \/ Restores /\ ~(m.sure /\ n.sure)

InFlight(t) ==
    \/ \E w \in Workers : pc[w] \in {"send", "told", "failed", "post"} /\ claim[w] = t
    \/ \E m \in queue : m.at = t

\* agriapi/tasks.py:1345-1348, 1449-1450: a stamp stands for a message or a command, unless
\* its worker died or failed over it in a job that does not give claims back, or a run that
\* had loaded the row before it was given back put it there again (1346-1348).
StampsMeanSomething ==
    stamp # Never => \/ InFlight(stamp) \/ stamp \in lost
                     \/ \E m \in mails : m.at = stamp

=============================================================================
