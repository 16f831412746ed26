--------------------------- MODULE AlertDelivery ---------------------------
(***************************************************************************)
(* The on-demand messages (fastapp/tasks_comms.py, celery_app.py): tasks   *)
(* pushed by the alert dispatch (AlertIngest) and by the zone-outbound     *)
(* route wait in the broker; a worker takes one, acknowledges it before    *)
(* running it, re-reads the alert, hands the message to a provider, and    *)
(* records the attempt in the delivery log and the run in the task log.    *)
(* The alert's grace period is not looked at again here.                   *)
(*                                                                         *)
(* The reads of one task are one step: session.get of the alerts and of    *)
(* their owner follow each other with nothing in between.                  *)
(***************************************************************************)
EXTENDS Naturals, Sequences, FiniteSets

CONSTANTS
  Alerts,      \* ids of alerts, all of one user: a dispatch is per user
  Pushed,      \* tasks the dispatch may push, [id, channel, alerts]
  Requests,    \* POSTs of /notifications/zone-outbound
  Selected,    \* [Requests -> SUBSET Channels], the channels each ticks
  Workers,     \* worker processes (--concurrency=1 each)
  MaxCrashes,  \* bound on the deaths of workers
  None         \* the job of an idle worker

Channels == {"email", "sms", "whatsapp"}

\* The recipient a channel needs.
Needs(c) == IF c = "email" THEN "email" ELSE "phone"

ASSUME PushedAssumption ==
    \A t \in Pushed : /\ t.channel \in Channels
                      /\ t.alerts \subseteq Alerts /\ t.alerts # {}
                      /\ t.channel # "email" => Cardinality(t.alerts) = 1
ASSUME SelectedAssumption == Selected \in [Requests -> SUBSET Channels]
ASSUME MaxCrashesAssumption == MaxCrashes \in Nat

\* A zone-outbound message carries its recipient and no alert.
Outbound(r, c) == [id |-> r, channel |-> c, alerts |-> {}]
OutboundTasks  == {Outbound(r, c) : r \in Requests, c \in Channels}
Tasks          == Pushed \cup OutboundTasks

ASSUME NoneAssumption == None \notin Tasks

VARIABLES
  live,       \* the row of each alert: "active", "silenced" or "deleted"
  address,    \* the recipients the user has: subset of {"email", "phone"}
  queue,      \* tasks in the broker
  spent,      \* tasks that have been pushed at some time
  answer,     \* what each zone-outbound request was answered
  todo,       \* the channels its handler has still to queue
  pc,         \* where each worker is
  job,        \* the task each worker runs
  body,       \* the alerts its message tells of
  okay,       \* what the provider call returned to it
  accepted,   \* messages each task got accepted by a provider
  told,       \* the alerts those messages told of
  log,        \* committed delivery-log rows of each task
  outcome,    \* how each task ended
  runs,       \* task-log row of each task
  quiet,      \* the alerts of a task that have been inactive or deleted ever
              \* since a worker took it
  crashes     \* deaths of workers so far

alertVars  == <<live, address>>
routeVars  == <<answer, todo>>
broker     == <<queue, spent>>
worker     == <<pc, job, body, okay>>
effects    == <<accepted, told>>
records    == <<log, outcome, runs>>
vars == <<alertVars, routeVars, broker, worker, effects, records, quiet,
          crashes>>

Skips    == {"missing", "inactive", "no_recipient"}
Outcomes == Skips \cup {"none", "sent", "failed", "raised", "lost"}

Init ==
    /\ live = [a \in Alerts |-> "active"]
    /\ address = {"email", "phone"}
    /\ queue = {} /\ spent = {}
    /\ answer = [r \in Requests |-> "none"]
    /\ todo = Selected
    /\ pc = [w \in Workers |-> "idle"]
    /\ job = [w \in Workers |-> None]
    /\ body = [w \in Workers |-> {}]
    /\ okay = [w \in Workers |-> FALSE]
    /\ accepted = [t \in Tasks |-> 0]
    /\ told = [t \in Tasks |-> {}]
    /\ log = [t \in Tasks |-> <<>>]
    /\ outcome = [t \in Tasks |-> "none"]
    /\ runs = [t \in Tasks |-> "none"]
    /\ quiet = [t \in Tasks |-> {}]
    /\ crashes = 0

-----------------------------------------------------------------------------
(* The enqueuers *)

\* A dispatch pushes one of its tasks.
Push(t) ==
    /\ t \in Pushed \ spent
    /\ queue' = queue \cup {t}
    /\ spent' = spent \cup {t}
    /\ UNCHANGED <<alertVars, routeVars, worker, effects, records, quiet,
                   crashes>>

\* routers/notifications.py: one send_task per ticked channel that has a
\* recipient, e-mail first.
Order(c) == CASE c = "email" -> 1 [] c = "sms" -> 2 [] c = "whatsapp" -> 3
FirstOf(S) == CHOOSE c \in S : \A d \in S : Order(c) <= Order(d)

Queued(r) == {c \in Channels : Outbound(r, c) \in spent}

\* The number is read once, after the e-mail was pushed, for both channels.
HasRecipient(r, c) ==
    Needs(c) \in address \/ (c = "whatsapp" /\ "sms" \in Queued(r))

\* A channel without recipient is passed over, with the other one of its kind.
SkipChannel(r) ==
    /\ answer[r] = "none" /\ todo[r] # {}
    /\ ~HasRecipient(r, FirstOf(todo[r]))
    /\ todo' = [todo EXCEPT ![r] =
                  {c \in @ : Needs(c) # Needs(FirstOf(todo[r]))}]
    /\ UNCHANGED <<alertVars, answer, broker, worker, effects, records, quiet,
                   crashes>>

Queue(r) ==
    /\ answer[r] = "none" /\ todo[r] # {}
    /\ LET t == Outbound(r, FirstOf(todo[r])) IN
       /\ HasRecipient(r, t.channel)
       /\ todo' = [todo EXCEPT ![r] = @ \ {t.channel}]
       /\ queue' = queue \cup {t}
       /\ spent' = spent \cup {t}
    /\ UNCHANGED <<alertVars, answer, worker, effects, records, quiet,
                   crashes>>

\* The broker refuses a push: 500, what was pushed before stays pushed.
QueueRefused(r) ==
    /\ answer[r] = "none" /\ todo[r] # {}
    /\ HasRecipient(r, FirstOf(todo[r]))
    /\ answer' = [answer EXCEPT ![r] = "error"]
    /\ UNCHANGED <<alertVars, todo, broker, worker, effects, records, quiet,
                   crashes>>

Answer(r) ==
    /\ answer[r] = "none" /\ todo[r] = {}
    /\ answer' = [answer EXCEPT ![r] =
                    IF Selected[r] = {} THEN "noop"
                    ELSE IF Queued(r) = {} THEN "no usable recipient"
                    ELSE "queued"]
    /\ UNCHANGED <<alertVars, todo, broker, worker, effects, records, quiet,
                   crashes>>

-----------------------------------------------------------------------------
(* The worker *)

Idle(w) == pc[w] = "idle"

\* Mutant of Active: the row has only to be there still.
ActiveIfThere(t) == {a \in t.alerts : live[a] # "deleted"}

\* The alerts a task may still tell of.
Active(t) == {a \in t.alerts : live[a] = "active"}

\* Take a task off the broker; it is acknowledged before its body runs.
Take(w, t) ==
    /\ Idle(w) /\ t \in queue
    /\ queue' = queue \ {t}
    /\ pc' = [pc EXCEPT ![w] = "load"]
    /\ job' = [job EXCEPT ![w] = t]
    /\ quiet' = [quiet EXCEPT ![t] = {a \in t.alerts : live[a] # "active"}]
    /\ UNCHANGED <<alertVars, routeVars, spent, body, okay, effects, records,
                   crashes>>

\* Why a task ends before a message is built, or "none".
\* A digest drops the alerts that are gone and skips when none is left.
SkipReason(t) ==
    CASE t.alerts = {} -> "none"
      [] \A a \in t.alerts : live[a] = "deleted" -> "missing"
      [] Active(t) = {} -> "inactive"
      [] Needs(t.channel) \notin address -> "no_recipient"
      [] OTHER -> "none"

EndBody(w, how) ==
    /\ pc' = [pc EXCEPT ![w] = "postrun"]
    /\ outcome' = [outcome EXCEPT ![job[w]] = how]

Load(w) ==
    /\ pc[w] = "load"
    /\ LET t == job[w] IN
       IF SkipReason(t) # "none"
       THEN EndBody(w, SkipReason(t)) /\ UNCHANGED body
       ELSE /\ body' = [body EXCEPT ![w] = Active(t)]
            /\ pc' = [pc EXCEPT ![w] = "send"]
            /\ UNCHANGED outcome
    /\ UNCHANGED <<alertVars, routeVars, broker, job, okay, effects, log, runs,
                   quiet, crashes>>

\* A provider call: accepted, refused (or not configured), or accepted with the
\* answer lost in a timeout.  It never raises.
ProviderCalls == {"accepted", "refused", "unanswered"}

Send(w) ==
    /\ pc[w] = "send"
    /\ \E call \in ProviderCalls :
         /\ okay' = [okay EXCEPT ![w] = (call = "accepted")]
         /\ IF call = "refused" THEN UNCHANGED effects
            ELSE /\ accepted' = [accepted EXCEPT ![job[w]] = @ + 1]
                 /\ told' = [told EXCEPT ![job[w]] = @ \cup body[w]]
    /\ pc' = [pc EXCEPT ![w] = "record"]
    /\ UNCHANGED <<alertVars, routeVars, broker, job, body, records, quiet,
                   crashes>>

Verdict(w) == IF okay[w] THEN "sent" ELSE "failed"

\* The alert's SMS and WhatsApp attempts are not logged.
Logged(t) == t.channel = "email" \/ t.alerts = {}

\* Mutant of Record: an attempt is logged as sent whatever became of it.
RecordSent(w) ==
    /\ pc[w] = "record"
    /\ log' = IF Logged(job[w])
              THEN [log EXCEPT ![job[w]] = Append(@, "sent")] ELSE log
    /\ EndBody(w, Verdict(w))
    /\ UNCHANGED <<alertVars, routeVars, broker, job, body, okay, effects,
                   runs,
                   quiet, crashes>>

Record(w) ==
    /\ pc[w] = "record"
    /\ log' = IF Logged(job[w])
              THEN [log EXCEPT ![job[w]] = Append(@, Verdict(w))] ELSE log
    /\ EndBody(w, Verdict(w))
    /\ UNCHANGED <<alertVars, routeVars, broker, job, body, okay, effects,
                   runs,
                   quiet, crashes>>

\* The row is refused (no table, no connection): _record_delivery swallows the
\* exception of its flush, but the session can then only roll back, so the
\* COMMIT at the end of session_scope raises.
RecordFails(w) ==
    /\ pc[w] = "record" /\ Logged(job[w])
    /\ EndBody(w, "raised")
    /\ UNCHANGED <<alertVars, routeVars, broker, job, body, okay, effects, log,
                   runs, quiet, crashes>>

Release(w) ==
    /\ pc' = [pc EXCEPT ![w] = "idle"]
    /\ job' = [job EXCEPT ![w] = None]
    /\ body' = [body EXCEPT ![w] = {}]
    /\ okay' = [okay EXCEPT ![w] = FALSE]

\* Celery's signals write the task-log row, if the database lets them.
PostRun(w) ==
    /\ pc[w] = "postrun"
    /\ \E row \in {"none",
                   IF outcome[job[w]] = "raised" THEN "failure" ELSE "success"} :
         runs' = [runs EXCEPT ![job[w]] = row]
    /\ Release(w)
    /\ UNCHANGED <<alertVars, routeVars, broker, effects, log, outcome, quiet,
                   crashes>>

\* Mutant of Crash: the broker takes back the task of a lost worker.
CrashRequeues(w) ==
    /\ ~Idle(w) /\ crashes < MaxCrashes
    /\ crashes' = crashes + 1
    /\ Release(w)
    /\ queue' = queue \cup {job[w]}
    /\ UNCHANGED <<alertVars, routeVars, spent, effects, records, quiet>>

\* The worker process dies and is restarted.
Crash(w) ==
    /\ ~Idle(w) /\ crashes < MaxCrashes
    /\ crashes' = crashes + 1
    /\ Release(w)
    /\ outcome' = [outcome EXCEPT ![job[w]] = IF @ = "none" THEN "lost" ELSE @]
    /\ UNCHANGED <<alertVars, routeVars, broker, effects, log, runs, quiet>>

-----------------------------------------------------------------------------
(* The user edits the alerts and the account while messages are under way *)

SetLive(a, how) ==
    /\ live[a] # "deleted" /\ how # live[a]
    /\ live' = [live EXCEPT ![a] = how]
    /\ quiet' = IF how = "active" THEN [t \in Tasks |-> quiet[t] \ {a}]
                ELSE quiet
    /\ UNCHANGED <<address, routeVars, broker, worker, effects, records,
                   crashes>>

SetAddress(S) ==
    /\ address' = S
    /\ UNCHANGED <<live, routeVars, broker, worker, effects, records, quiet,
                   crashes>>

Work(w) ==
    \/ \E t \in queue : Take(w, t)
    \/ Load(w) \/ Send(w) \/ Record(w) \/ RecordFails(w) \/ PostRun(w)

Handle(r) == SkipChannel(r) \/ Queue(r) \/ QueueRefused(r) \/ Answer(r)

Next ==
    \/ \E t \in Pushed : Push(t)
    \/ \E r \in Requests : Handle(r)
    \/ \E w \in Workers : Work(w) \/ Crash(w)
    \/ \E a \in Alerts, how \in {"active", "silenced", "deleted"} :
         SetLive(a, how)
    \/ \E S \in SUBSET {"email", "phone"} : SetAddress(S)

Spec == Init /\ [][Next]_vars

-----------------------------------------------------------------------------
(* Properties *)

\* The types of the variables.
TypeOK ==
    /\ live \in [Alerts -> {"active", "silenced", "deleted"}]
    /\ address \subseteq {"email", "phone"}
    /\ queue \subseteq spent /\ spent \subseteq Tasks
    /\ answer \in [Requests -> {"none", "error", "noop", "queued",
                                "no usable recipient"}]
    /\ todo \in [Requests -> SUBSET Channels]
    /\ pc \in [Workers -> {"idle", "load", "send", "record", "postrun"}]
    /\ job \in [Workers -> Tasks \cup {None}]
    /\ body \in [Workers -> SUBSET Alerts]
    /\ okay \in [Workers -> BOOLEAN]
    /\ accepted \in [Tasks -> Nat]
    /\ told \in [Tasks -> SUBSET Alerts]
    /\ log \in [Tasks -> Seq({"sent", "failed"})]
    /\ outcome \in [Tasks -> Outcomes]
    /\ runs \in [Tasks -> {"none", "success", "failure"}]
    /\ quiet \in [Tasks -> SUBSET Alerts]
    /\ crashes \in 0..MaxCrashes

\* tasks_comms.py:14-15 ("so Celery won't retry-and-dupe"): whatever worker
\* dies and wherever, a task gets at most one message accepted.
AtMostOneMessage == \A t \in Tasks : accepted[t] <= 1

\* tasks_comms.py:84-94, 136-148: no message tells of an alert that its owner
\* had silenced or deleted by the time a worker took the task, however late it
\* is taken, unless the alert was switched on again meanwhile.
SilencedStaysSilent == \A t \in Tasks : told[t] \cap quiet[t] = {}

\* tasks_comms.py:110-131: the delivery log never claims a message that no
\* provider accepted, has at most one row per task, and has one for every
\* e-mail or outbound task whose body came to an end.
LogIsTruthful ==
    \A t \in Tasks :
        /\ Len(log[t]) <= 1
        /\ log[t] = <<"sent">> => accepted[t] = 1
        /\ Logged(t) /\ outcome[t] \in {"sent", "failed"} =>
              log[t] = <<outcome[t]>>

\* tasks_comms.py:14: "Every function is defensive [...] and never raises".
NeverRaises == \A t \in Tasks : outcome[t] # "raised"
=============================================================================
