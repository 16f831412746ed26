------------------------ MODULE AlertDeliveryProofs ------------------------
(***************************************************************************)
(* What becomes of a pushed task, for any number of tasks, requests,       *)
(* workers and crashes.  The promises are about messages and log rows that *)
(* exist; the invariant says at which stage of a task nothing exists yet,  *)
(* and that a task reaches each stage once: it enters the broker once, and *)
(* the worker that takes it is the only one that ever has it.              *)
(***************************************************************************)
EXTENDS AlertDelivery, TLAPS

\* Nothing has come of a task yet.
Fresh(t) == /\ accepted[t] = 0 /\ told[t] = {}
            /\ log[t] = <<>> /\ outcome[t] = "none"

\* A task that no worker has taken has had no effect.
UntakenIsFresh == \A t \in Tasks : t \in queue \/ t \notin spent => Fresh(t)

\* A channel the route has still to queue has not been queued.
TodoIsUnspent ==
    \A r \in Requests : \A c \in todo[r] : Outbound(r, c) \notin spent

\* A worker has a task as long as it is busy, one that left the broker and that
\* nobody else has.
OneTaker ==
    \A w \in Workers :
        /\ pc[w] = "idle" <=> job[w] = None
        /\ pc[w] = "idle" => body[w] = {}
        /\ job[w] # None =>
              /\ job[w] \in spent /\ job[w] \notin queue
              /\ \A v \in Workers : job[v] = job[w] => v = w

\* What has come of the task of a worker, at its stage.
StageOf(w) ==
    /\ pc[w] \in {"load", "send"} => Fresh(job[w])
    /\ pc[w] = "record" =>
          /\ log[job[w]] = <<>> /\ outcome[job[w]] = "none"
          /\ accepted[job[w]] <= 1
          /\ okay[w] => accepted[job[w]] = 1
    /\ pc[w] # "idle" => body[w] \cap quiet[job[w]] = {}
Stages == \A w \in Workers : StageOf(w)

\* An alert that has been quiet since a task was taken is quiet now.
QuietIsInactive == \A t \in Tasks : \A a \in quiet[t] : live[a] # "active"

\* What is promised of one task: AtMostOneMessage, SilencedStaysSilent and
\* LogIsTruthful say it of all.
Kept(t) ==
    /\ accepted[t] <= 1 /\ told[t] \cap quiet[t] = {}
    /\ Len(log[t]) <= 1
    /\ log[t] = <<"sent">> => accepted[t] = 1
    /\ Logged(t) /\ outcome[t] \in {"sent", "failed"} => log[t] = <<outcome[t]>>
TasksKept == \A t \in Tasks : Kept(t)

Safe == /\ UntakenIsFresh /\ TodoIsUnspent /\ OneTaker /\ Stages
        /\ QuietIsInactive /\ TasksKept
IInv == TypeOK /\ Safe

-----------------------------------------------------------------------------
(* The tasks *)

\* A task has a channel and alerts of the table, and one of the zone-outbound
\* route is no task of the dispatch.
LEMMA TaskFields ==
  ASSUME NEW t \in Tasks
  PROVE  t.channel \in Channels /\ t.alerts \subseteq Alerts
  BY PushedAssumption DEF Tasks, OutboundTasks, Outbound

LEMMA OutboundIsTask ==
  ASSUME NEW r \in Requests, NEW c \in Channels
  PROVE  /\ Outbound(r, c) \in Tasks \ Pushed
         /\ \A q \in Requests, d \in Channels :
               Outbound(q, d) = Outbound(r, c) => q = r /\ d = c
  <1>1. \A q \in Requests, d \in Channels :
          /\ Outbound(q, d).id = q /\ Outbound(q, d).channel = d
          /\ Outbound(q, d).alerts = {}
    BY DEF Outbound
  <1>2. Outbound(r, c) \notin Pushed
    BY <1>1, PushedAssumption
  <1>3. Outbound(r, c) \in Tasks
    BY DEF Tasks, OutboundTasks
  <1>4. ASSUME NEW q \in Requests, NEW d \in Channels,
               Outbound(q, d) = Outbound(r, c)
        PROVE  q = r /\ d = c
    BY <1>1, <1>4
  <1>5. QED
    BY <1>2, <1>3, <1>4

\* The first of some channels is one of them.
LEMMA FirstOfChannels ==
  ASSUME NEW S \in SUBSET Channels, S # {}
  PROVE  FirstOf(S) \in S
  <1>1. \E c \in S : \A d \in S : Order(c) <= Order(d)
    <2>1. CASE "email" \in S
      BY <2>1 DEF Channels, Order
    <2>2. CASE "email" \notin S /\ "sms" \in S
      BY <2>2 DEF Channels, Order
    <2>3. CASE "email" \notin S /\ "sms" \notin S
      BY <2>3 DEF Channels, Order
    <2>4. QED
      BY <2>1, <2>2, <2>3
  <1>2. QED
    BY <1>1 DEF FirstOf

\* Queueing a channel ticks off one that was to be queued.
LEMMA QueueMoves ==
  ASSUME TypeOK, NEW r \in Requests, Queue(r)
  PROVE  \E c \in todo[r] :
            /\ c \in Channels /\ Outbound(r, c) \in Tasks
            /\ todo' = [todo EXCEPT ![r] = @ \ {c}]
            /\ queue' = queue \cup {Outbound(r, c)}
            /\ spent' = spent \cup {Outbound(r, c)}
  <1> DEFINE c == FirstOf(todo[r])
  <1>1. todo[r] \in SUBSET Channels /\ todo[r] # {}
    BY DEF TypeOK, Queue
  <1>2. c \in todo[r] /\ c \in Channels
    BY <1>1, FirstOfChannels
  <1>3. Outbound(r, c).channel = c
    BY DEF Outbound
  <1>4. Outbound(r, c) \in Tasks
    BY <1>2, OutboundIsTask
  <1>5. QED
    BY <1>2, <1>3, <1>4 DEF Queue

-----------------------------------------------------------------------------
(* Type correctness *)

LEMMA TypeInit == Init => TypeOK
  BY SelectedAssumption, MaxCrashesAssumption
  DEF Init, TypeOK, Outcomes, Skips, Channels

\* A busy worker's task is one, and its release leaves the types.
LEMMA JobType ==
  ASSUME TypeOK, OneTaker, NEW w \in Workers, pc[w] # "idle"
  PROVE  job[w] \in Tasks
  BY DEF TypeOK, OneTaker

LEMMA ReleaseType ==
  ASSUME TypeOK, NEW w \in Workers, Release(w)
  PROVE  /\ pc' \in [Workers -> {"idle", "load", "send", "record", "postrun"}]
         /\ job' \in [Workers -> Tasks \cup {None}]
         /\ body' \in [Workers -> SUBSET Alerts]
         /\ okay' \in [Workers -> BOOLEAN]
  BY DEF TypeOK, Release

LEMMA TypeNext == TypeOK /\ OneTaker /\ [Next]_vars => TypeOK'
  <1> SUFFICES ASSUME TypeOK, OneTaker, [Next]_vars PROVE TypeOK'
    OBVIOUS
  <1> USE DEF alertVars, routeVars, broker, worker, effects, records
  <1>1. ASSUME NEW t \in Pushed, Push(t) PROVE TypeOK'
    BY <1>1 DEF Push, TypeOK, Tasks
  <1>2. ASSUME NEW r \in Requests, SkipChannel(r) PROVE TypeOK'
    BY <1>2 DEF SkipChannel, TypeOK
  <1>3. ASSUME NEW r \in Requests, Queue(r) PROVE TypeOK'
    <2>1. PICK c \in todo[r] :
            /\ c \in Channels /\ Outbound(r, c) \in Tasks
            /\ todo' = [todo EXCEPT ![r] = @ \ {c}]
            /\ queue' = queue \cup {Outbound(r, c)}
            /\ spent' = spent \cup {Outbound(r, c)}
      BY <1>3, QueueMoves
    <2>2. UNCHANGED <<alertVars, answer, worker, effects, records, quiet, crashes>>
      BY <1>3 DEF Queue
    <2>3. QED
      BY <2>1, <2>2 DEF TypeOK
  <1>4. ASSUME NEW r \in Requests, QueueRefused(r) PROVE TypeOK'
    BY <1>4 DEF QueueRefused, TypeOK
  <1>5. ASSUME NEW r \in Requests, Answer(r) PROVE TypeOK'
    BY <1>5 DEF Answer, TypeOK
  <1>6. ASSUME NEW w \in Workers, NEW t \in queue, Take(w, t) PROVE TypeOK'
    <2>1. t \in Tasks /\ t.alerts \subseteq Alerts
      BY TaskFields DEF TypeOK
    <2>2. QED
      BY <1>6, <2>1 DEF Take, TypeOK
  <1>7. ASSUME NEW w \in Workers, Load(w) PROVE TypeOK'
    <2>1. job[w] \in Tasks /\ Active(job[w]) \subseteq Alerts
      BY <1>7, JobType, TaskFields DEF Load, Active
    <2>2. SkipReason(job[w]) \in Outcomes
      BY DEF SkipReason, Outcomes, Skips
    <2>3. /\ outcome' \in [Tasks -> Outcomes]
          /\ pc' \in [Workers -> {"idle", "load", "send", "record", "postrun"}]
          /\ body' \in [Workers -> SUBSET Alerts]
      <3>1. CASE SkipReason(job[w]) # "none"
        <4>1. /\ outcome' = [outcome EXCEPT ![job[w]] = SkipReason(job[w])]
              /\ pc' = [pc EXCEPT ![w] = "postrun"] /\ body' = body
          BY <1>7, <3>1 DEF Load, EndBody
        <4>2. QED
          BY <2>1, <2>2, <4>1 DEF TypeOK
      <3>2. CASE SkipReason(job[w]) = "none"
        <4>1. /\ outcome' = outcome
              /\ pc' = [pc EXCEPT ![w] = "send"]
              /\ body' = [body EXCEPT ![w] = Active(job[w])]
          BY <1>7, <3>2 DEF Load
        <4>2. QED
          BY <2>1, <4>1 DEF TypeOK
      <3>3. QED
        BY <3>1, <3>2
    <2>4. QED
      BY <1>7, <2>3 DEF Load, TypeOK
  <1>8. ASSUME NEW w \in Workers, Send(w) PROVE TypeOK'
    <2>1. job[w] \in Tasks
      BY <1>8, JobType DEF Send
    <2>2. PICK call \in ProviderCalls :
            /\ okay' = [okay EXCEPT ![w] = (call = "accepted")]
            /\ IF call = "refused" THEN UNCHANGED effects
               ELSE /\ accepted' = [accepted EXCEPT ![job[w]] = @ + 1]
                    /\ told' = [told EXCEPT ![job[w]] = @ \cup body[w]]
      BY <1>8 DEF Send
    <2>3. okay' \in [Workers -> BOOLEAN]
      BY <2>2 DEF TypeOK
    <2>4. accepted' \in [Tasks -> Nat] /\ told' \in [Tasks -> SUBSET Alerts]
      <3>1. CASE call = "refused"
        BY <2>2, <3>1 DEF TypeOK
      <3>2. CASE call # "refused"
        <4>1. /\ accepted' = [accepted EXCEPT ![job[w]] = @ + 1]
              /\ told' = [told EXCEPT ![job[w]] = @ \cup body[w]]
          BY <2>2, <3>2
        <4>2. /\ accepted \in [Tasks -> Nat] /\ told \in [Tasks -> SUBSET Alerts]
              /\ body[w] \subseteq Alerts
          BY DEF TypeOK
        <4>3. accepted' \in [Tasks -> Nat]
          BY <2>1, <4>1, <4>2
        <4>4. told' \in [Tasks -> SUBSET Alerts]
          BY <2>1, <4>1, <4>2
        <4>5. QED
          BY <4>3, <4>4
      <3>3. QED
        BY <3>1, <3>2
    <2>5. QED
      BY <1>8, <2>3, <2>4 DEF Send, TypeOK
  <1>9. ASSUME NEW w \in Workers, Record(w) PROVE TypeOK'
    <2>1. job[w] \in Tasks /\ Verdict(w) \in {"sent", "failed"}
      BY <1>9, JobType DEF Record, Verdict
    <2>2. log' \in [Tasks -> Seq({"sent", "failed"})]
      <3>1. log[job[w]] \in Seq({"sent", "failed"})
        BY <2>1 DEF TypeOK
      <3>2. Append(log[job[w]], Verdict(w)) \in Seq({"sent", "failed"})
        BY <2>1, <3>1
      <3>3. QED
        BY <1>9, <2>1, <3>2 DEF Record, TypeOK
    <2>3. QED
      BY <1>9, <2>1, <2>2 DEF Record, EndBody, TypeOK, Outcomes
  <1>10. ASSUME NEW w \in Workers, RecordFails(w) PROVE TypeOK'
    BY <1>10 DEF RecordFails, EndBody, TypeOK, Outcomes
  <1>11. ASSUME NEW w \in Workers, PostRun(w) PROVE TypeOK'
    <2>1. runs' \in [Tasks -> {"none", "success", "failure"}]
      <3>1. PICK row \in {"none", "success", "failure"} :
              runs' = [runs EXCEPT ![job[w]] = row]
        BY <1>11 DEF PostRun
      <3>2. QED
        BY <3>1 DEF TypeOK
    <2>2. QED
      BY <1>11, <2>1, ReleaseType DEF PostRun, TypeOK
  <1>12. ASSUME NEW w \in Workers, Crash(w) PROVE TypeOK'
    <2>1. outcome' \in [Tasks -> Outcomes]
      BY <1>12 DEF Crash, TypeOK, Outcomes
    <2>2. crashes' \in 0..MaxCrashes
      <3>1. MaxCrashes \in Nat /\ crashes \in 0..MaxCrashes
        BY MaxCrashesAssumption DEF TypeOK
      <3>2. crashes' = crashes + 1 /\ crashes < MaxCrashes
        BY <1>12 DEF Crash
      <3>3. QED
        BY <3>1, <3>2
    <2>3. QED
      BY <1>12, <2>1, <2>2, ReleaseType DEF Crash, TypeOK
  <1>13. ASSUME NEW a \in Alerts, NEW how \in {"active", "silenced", "deleted"},
                SetLive(a, how)
         PROVE  TypeOK'
    BY <1>13 DEF SetLive, TypeOK
  <1>14. ASSUME NEW S \in SUBSET {"email", "phone"}, SetAddress(S)
         PROVE  TypeOK'
    BY <1>14 DEF SetAddress, TypeOK
  <1>15. CASE UNCHANGED vars
    BY <1>15 DEF vars, TypeOK
  <1>16. QED
    BY <1>1, <1>2, <1>3, <1>4, <1>5, <1>6, <1>7, <1>8, <1>9, <1>10, <1>11,
       <1>12, <1>13, <1>14, <1>15 DEF Next, Handle, Work

-----------------------------------------------------------------------------
(* The inductive invariant *)

LEMMA SafeInit == Init => Safe
  <1> SUFFICES ASSUME Init PROVE Safe
    OBVIOUS
  <1>1. \A t \in Tasks : Fresh(t) /\ quiet[t] = {}
    BY DEF Init, Fresh
  <1>2. /\ queue = {} /\ spent = {}
        /\ \A w \in Workers : pc[w] = "idle" /\ job[w] = None /\ body[w] = {}
    BY DEF Init
  <1>3. TasksKept
    BY <1>1 DEF Fresh, TasksKept, Kept
  <1>4. QED
    BY <1>1, <1>2, <1>3
    DEF Safe, UntakenIsFresh, TodoIsUnspent, OneTaker, Stages, StageOf,
        QuietIsInactive

\* A step of a worker concerns its own task, which left the broker and which
\* nobody else has: what it must keep is said of that task alone.
LEMMA WorkerKeeps ==
  ASSUME IInv, NEW w \in Workers, pc[w] # "idle",
         NEW t \in Tasks, t = job[w],
         UNCHANGED <<live, todo, queue, spent, quiet>>,
         \A s \in Tasks \ {t} :
            UNCHANGED <<accepted[s], told[s], log[s], outcome[s]>>,
         \A v \in Workers \ {w} : UNCHANGED <<pc[v], job[v], body[v], okay[v]>>,
         \/ pc'[w] # "idle" /\ job'[w] = job[w]
         \/ pc'[w] = "idle" /\ job'[w] = None /\ body'[w] = {},
         StageOf(w)', Kept(t)'
  PROVE  Safe'
  <1>1. /\ job[w] \in Tasks /\ job[w] # None
        /\ job[w] \in spent /\ job[w] \notin queue
    BY JobType DEF IInv, Safe, OneTaker
  <1>2. \A v \in Workers \ {w} : pc[v] # "idle" =>
          job[v] \in Tasks /\ job[v] # job[w]
    BY <1>1, JobType DEF IInv, Safe, OneTaker
  <1>3. UntakenIsFresh'
    BY <1>1 DEF IInv, Safe, UntakenIsFresh, Fresh
  <1>4. TodoIsUnspent'
    BY DEF IInv, Safe, TodoIsUnspent
  <1>5. OneTaker'
    <2> SUFFICES ASSUME NEW v \in Workers
                 PROVE  /\ pc'[v] = "idle" <=> job'[v] = None
                        /\ pc'[v] = "idle" => body'[v] = {}
                        /\ job'[v] # None =>
                              /\ job'[v] \in spent /\ job'[v] \notin queue
                              /\ \A x \in Workers : job'[x] = job'[v] => x = v
      BY DEF OneTaker
    <2>1. \A x \in Workers : job'[x] = job[x] \/ job'[x] = None
      OBVIOUS
    <2>2. QED
      BY <1>1, <2>1 DEF IInv, Safe, OneTaker
  <1>6. Stages'
    <2> SUFFICES ASSUME NEW v \in Workers \ {w} PROVE StageOf(v)'
      BY DEF Stages
    <2>1. StageOf(v)
      BY DEF IInv, Safe, Stages
    <2>2. CASE pc[v] = "idle"
      BY <2>2 DEF StageOf
    <2>3. CASE pc[v] # "idle"
      BY <1>2, <2>1, <2>3 DEF StageOf, Fresh
    <2>4. QED
      BY <2>2, <2>3
  <1>7. QuietIsInactive'
    BY DEF IInv, Safe, QuietIsInactive
  <1>8. TasksKept'
    <2> SUFFICES ASSUME NEW s \in Tasks \ {t} PROVE Kept(s)'
      BY DEF TasksKept
    <2>1. Kept(s)
      BY DEF IInv, Safe, TasksKept
    <2>2. QED
      BY <2>1 DEF Kept
  <1>9. QED
    BY <1>3, <1>4, <1>5, <1>6, <1>7, <1>8 DEF Safe

\* A step of an enqueuer gives the broker at most one task, which was never
\* there before.
LEMMA EnqueueKeeps ==
  ASSUME IInv, NEW t \in Tasks \ spent,
         \/ UNCHANGED <<queue, spent>>
         \/ queue' = queue \cup {t} /\ spent' = spent \cup {t},
         UNCHANGED <<live, worker, effects, log, outcome, quiet>>,
         TodoIsUnspent'
  PROVE  Safe'
  <1> USE DEF worker, effects
  <1>1. UntakenIsFresh'
    BY DEF IInv, Safe, UntakenIsFresh, Fresh
  <1>2. OneTaker'
    BY DEF IInv, Safe, OneTaker
  <1>3. Stages'
    BY DEF IInv, Safe, Stages, StageOf, Fresh
  <1>4. QuietIsInactive'
    BY DEF IInv, Safe, QuietIsInactive
  <1>5. TasksKept'
    BY DEF IInv, Safe, TasksKept, Kept
  <1>6. QED
    BY <1>1, <1>2, <1>3, <1>4, <1>5 DEF Safe

\* A worker takes a task of which nothing has come.
LEMMA TakeKeeps ==
  ASSUME IInv, NEW w \in Workers, NEW t \in queue, Take(w, t)
  PROVE  Safe'
  <1>1. /\ t \in Tasks /\ t \in spent /\ Fresh(t) /\ t # None
        /\ pc[w] = "idle" /\ job[w] = None
    <2>1. t \in Tasks /\ t \in spent /\ t # None
      BY NoneAssumption DEF IInv, TypeOK
    <2>2. Fresh(t)
      BY <2>1 DEF IInv, Safe, UntakenIsFresh
    <2>3. pc[w] = "idle" /\ job[w] = None
      BY DEF Take, Idle, IInv, Safe, OneTaker
    <2>4. QED
      BY <2>1, <2>2, <2>3
  <1>2. /\ pc'[w] = "load" /\ job'[w] = t
        /\ \A v \in Workers \ {w} : pc'[v] = pc[v] /\ job'[v] = job[v]
        /\ quiet'[t] = {a \in t.alerts : live[a] # "active"}
        /\ \A s \in Tasks \ {t} : quiet'[s] = quiet[s]
        /\ queue' = queue \ {t}
        /\ UNCHANGED <<live, todo, spent, body, okay, accepted, told, log,
                       outcome>>
    BY <1>1 DEF Take, IInv, TypeOK, alertVars, routeVars, effects, records
  <1>3. \A v \in Workers : job[v] # t
    BY <1>1 DEF IInv, Safe, OneTaker
  <1>4. UntakenIsFresh'
    BY <1>1, <1>2 DEF IInv, Safe, UntakenIsFresh, Fresh
  <1>5. TodoIsUnspent'
    BY <1>2 DEF IInv, Safe, TodoIsUnspent
  <1>6. OneTaker'
    <2> SUFFICES ASSUME NEW v \in Workers
                 PROVE  /\ pc'[v] = "idle" <=> job'[v] = None
                        /\ pc'[v] = "idle" => body'[v] = {}
                        /\ job'[v] # None =>
                              /\ job'[v] \in spent' /\ job'[v] \notin queue'
                              /\ \A x \in Workers : job'[x] = job'[v] => x = v
      BY DEF OneTaker
    <2>1. CASE v = w
      BY <1>1, <1>2, <1>3, <2>1
    <2>2. CASE v # w
      BY <1>1, <1>2, <1>3, <2>2 DEF IInv, Safe, OneTaker
    <2>3. QED
      BY <2>1, <2>2
  <1>7. Stages'
    <2> SUFFICES ASSUME NEW v \in Workers PROVE StageOf(v)'
      BY DEF Stages
    <2>1. CASE v = w
      <3>1. body[w] = {}
        BY <1>1 DEF IInv, Safe, OneTaker
      <3>2. QED
        BY <1>1, <1>2, <2>1, <3>1 DEF StageOf, Fresh
    <2>2. CASE v # w /\ pc[v] # "idle"
      <3>1. job[v] \in Tasks \ {t}
        BY <1>3, <2>2, JobType DEF IInv, Safe
      <3>2. QED
        BY <1>2, <2>2, <3>1 DEF IInv, Safe, Stages, StageOf, Fresh
    <2>3. CASE v # w /\ pc[v] = "idle"
      BY <1>2, <2>3 DEF StageOf
    <2>4. QED
      BY <2>1, <2>2, <2>3
  <1>8. QuietIsInactive'
    BY <1>2 DEF IInv, Safe, QuietIsInactive
  <1>9. TasksKept'
    <2> SUFFICES ASSUME NEW s \in Tasks PROVE Kept(s)'
      BY DEF TasksKept
    <2>1. Kept(s)
      BY DEF IInv, Safe, TasksKept
    <2>2. CASE s = t
      BY <1>1, <1>2, <2>1, <2>2 DEF Kept, Fresh
    <2>3. CASE s # t
      BY <1>2, <2>1, <2>3 DEF Kept
    <2>4. QED
      BY <2>2, <2>3
  <1>10. QED
    BY <1>4, <1>5, <1>6, <1>7, <1>8, <1>9 DEF Safe

\* The message is built from the alerts that are active now.
LEMMA LoadKeeps ==
  ASSUME IInv, NEW w \in Workers, Load(w)
  PROVE  Safe'
  <1> USE DEF alertVars, routeVars, broker, effects
  <1>1. PICK t \in Tasks : t = job[w]
    BY JobType DEF IInv, Safe, Load
  <1>2. pc[w] = "load" /\ Fresh(t) /\ StageOf(w) /\ Kept(t)
    BY <1>1 DEF IInv, Safe, Stages, StageOf, TasksKept, Load
  <1>3. /\ UNCHANGED <<live, todo, queue, spent, quiet, accepted, told, log, job,
                      okay>>
        /\ \A v \in Workers \ {w} : UNCHANGED <<pc[v], body[v]>>
        /\ \A s \in Tasks \ {t} : outcome'[s] = outcome[s]
    <2>1. /\ UNCHANGED <<live, todo, queue, spent, quiet, accepted, told, log,
                         job, okay>>
          /\ \E v : pc' = [pc EXCEPT ![w] = v]
          /\ body' = body \/ \E v : body' = [body EXCEPT ![w] = v]
          /\ outcome' = outcome \/ \E v : outcome' = [outcome EXCEPT ![t] = v]
      BY <1>1 DEF Load, EndBody
    <2>2. QED
      BY <2>1 DEF IInv, TypeOK
  <1>4. \/ /\ pc'[w] = "postrun" /\ outcome'[t] \in Skips /\ body'[w] = body[w]
        \/ /\ pc'[w] = "send" /\ outcome'[t] = outcome[t]
           /\ body'[w] = Active(t)
    <2>1. CASE SkipReason(job[w]) # "none"
      <3>1. SkipReason(t) \in Skips
        BY <1>1, <2>1 DEF SkipReason, Skips
      <3>2. QED
        BY <1>1, <2>1, <3>1 DEF Load, EndBody, IInv, TypeOK
    <2>2. CASE SkipReason(job[w]) = "none"
      BY <1>1, <2>2 DEF Load, IInv, TypeOK
    <2>3. QED
      BY <2>1, <2>2
  <1>5. Active(t) \cap quiet[t] = {}
    BY DEF Active, IInv, Safe, QuietIsInactive
  <1>6. StageOf(w)'
    BY <1>1, <1>2, <1>3, <1>4, <1>5 DEF StageOf, Fresh
  <1>7. Kept(t)'
    BY <1>2, <1>3, <1>4 DEF Kept, Fresh, Skips
  <1>8. QED
    BY <1>1, <1>2, <1>3, <1>4, <1>6, <1>7, WorkerKeeps

\* The one provider call of a task.
LEMMA SendKeeps ==
  ASSUME IInv, NEW w \in Workers, Send(w)
  PROVE  Safe'
  <1> USE DEF alertVars, routeVars, broker, records, effects
  <1>1. PICK t \in Tasks : t = job[w]
    BY JobType DEF IInv, Safe, Send
  <1>2. pc[w] = "send" /\ Fresh(t) /\ StageOf(w) /\ Kept(t)
    BY <1>1 DEF IInv, Safe, Stages, StageOf, TasksKept, Send
  <1>3. /\ UNCHANGED <<live, todo, queue, spent, quiet, log, outcome, job, body>>
        /\ pc'[w] = "record" /\ \A v \in Workers \ {w} : pc'[v] = pc[v]
    BY DEF Send, IInv, TypeOK
  <1>4. PICK call \in ProviderCalls :
          /\ okay' = [okay EXCEPT ![w] = (call = "accepted")]
          /\ IF call = "refused" THEN UNCHANGED effects
             ELSE /\ accepted' = [accepted EXCEPT ![t] = @ + 1]
                  /\ told' = [told EXCEPT ![t] = @ \cup body[w]]
    BY <1>1 DEF Send
  <1>5. /\ okay'[w] <=> call = "accepted"
        /\ \A v \in Workers \ {w} : okay'[v] = okay[v]
    BY <1>4 DEF IInv, TypeOK
  <1>6. /\ IF call = "refused" THEN accepted'[t] = 0 /\ told'[t] = {}
           ELSE accepted'[t] = 1 /\ told'[t] = body[w]
        /\ \A s \in Tasks \ {t} : UNCHANGED <<accepted[s], told[s]>>
    <2>1. /\ accepted \in [Tasks -> Nat] /\ told \in [Tasks -> SUBSET Alerts]
          /\ accepted[t] = 0 /\ told[t] = {}
      BY <1>2 DEF IInv, TypeOK, Fresh
    <2>2. CASE call = "refused"
      BY <1>4, <2>1, <2>2
    <2>3. CASE call # "refused"
      <3>1. /\ accepted' = [accepted EXCEPT ![t] = @ + 1]
            /\ told' = [told EXCEPT ![t] = @ \cup body[w]]
        BY <1>4, <2>3
      <3>2. QED
        BY <2>1, <2>3, <3>1
    <2>4. QED
      BY <2>2, <2>3
  <1>7. body[w] \cap quiet[t] = {}
    BY <1>1, <1>2 DEF StageOf
  <1>8. StageOf(w)'
    BY <1>1, <1>2, <1>3, <1>5, <1>6, <1>7 DEF StageOf, Fresh
  <1>9. Kept(t)'
    <2>1. log'[t] = <<>> /\ outcome'[t] = "none"
      BY <1>2, <1>3 DEF Fresh
    <2>2. accepted'[t] <= 1 /\ told'[t] \cap quiet'[t] = {}
      BY <1>3, <1>6, <1>7
    <2>3. Len(log'[t]) <= 1 /\ log'[t] # <<"sent">>
      BY <2>1
    <2>4. QED
      BY <2>1, <2>2, <2>3 DEF Kept
  <1>10. QED
    BY <1>1, <1>2, <1>3, <1>5, <1>6, <1>8, <1>9, WorkerKeeps

\* The one log row of a task, or its failure.
LEMMA RecordKeeps ==
  ASSUME IInv, NEW w \in Workers, Record(w) \/ RecordFails(w)
  PROVE  Safe'
  <1> USE DEF alertVars, routeVars, broker, effects
  <1>1. PICK t \in Tasks : t = job[w]
    BY JobType DEF IInv, Safe, Record, RecordFails
  <1>2. /\ pc[w] = "record" /\ log[t] = <<>> /\ accepted[t] <= 1
        /\ okay[w] => accepted[t] = 1
        /\ Kept(t) /\ body[w] \cap quiet[t] = {}
    BY <1>1 DEF IInv, Safe, Stages, StageOf, TasksKept, Record, RecordFails
  <1>3. /\ UNCHANGED <<live, todo, queue, spent, quiet, accepted, told, job, body,
                      okay>>
        /\ pc'[w] = "postrun" /\ \A v \in Workers \ {w} : pc'[v] = pc[v]
    <2>1. /\ UNCHANGED <<live, todo, queue, spent, quiet, accepted, told, job,
                         body, okay>>
          /\ pc' = [pc EXCEPT ![w] = "postrun"]
      BY DEF Record, RecordFails, EndBody
    <2>2. QED
      BY <2>1 DEF IInv, TypeOK
  <1>4. \A s \in Tasks \ {t} : UNCHANGED <<log[s], outcome[s]>>
    <2>1. PICK v : outcome' = [outcome EXCEPT ![t] = v]
      BY <1>1 DEF Record, RecordFails, EndBody
    <2>2. log' = log \/ \E row : log' = [log EXCEPT ![t] = row]
      BY <1>1 DEF Record, RecordFails
    <2>3. QED
      BY <2>1, <2>2 DEF IInv, TypeOK
  <1>5. StageOf(w)'
    BY <1>1, <1>2, <1>3 DEF StageOf
  <1>6. Kept(t)'
    <2>1. CASE Record(w)
      <3>1. outcome'[t] = Verdict(w) /\ Verdict(w) \in {"sent", "failed"}
        BY <1>1, <2>1 DEF Record, EndBody, Verdict, IInv, TypeOK
      <3>2. log'[t] = IF Logged(t) THEN <<Verdict(w)>> ELSE <<>>
        <4>1. Append(log[t], Verdict(w)) = <<Verdict(w)>>
          BY <1>2
        <4>2. QED
          BY <1>1, <1>2, <2>1, <4>1 DEF Record, IInv, TypeOK
      <3>3. Verdict(w) = "sent" => accepted[t] = 1
        BY <1>2 DEF Verdict
      <3>4. CASE Logged(t)
        BY <1>2, <1>3, <3>1, <3>2, <3>3, <3>4 DEF Kept
      <3>5. CASE ~Logged(t)
        BY <1>2, <1>3, <3>1, <3>2, <3>5 DEF Kept
      <3>6. QED
        BY <3>4, <3>5
    <2>2. CASE RecordFails(w)
      <3>1. outcome'[t] = "raised" /\ log'[t] = <<>>
        BY <1>1, <1>2, <2>2 DEF RecordFails, EndBody, IInv, TypeOK
      <3>2. QED
        BY <1>2, <1>3, <3>1 DEF Kept
    <2>3. QED
      BY <2>1, <2>2
  <1>7. QED
    BY <1>1, <1>2, <1>3, <1>4, <1>5, <1>6, WorkerKeeps

\* A worker lets go of its task: at the end of the run, or by dying.
LEMMA ReleaseKeeps ==
  ASSUME IInv, NEW w \in Workers, PostRun(w) \/ Crash(w)
  PROVE  Safe'
  <1> USE DEF alertVars, routeVars, broker, effects
  <1>1. pc[w] # "idle" /\ Release(w)
    BY DEF PostRun, Crash, Idle
  <1>2. PICK t \in Tasks : t = job[w]
    BY <1>1, JobType DEF IInv, Safe
  <1>3. /\ UNCHANGED <<live, todo, queue, spent, quiet, accepted, told, log>>
        /\ pc'[w] = "idle" /\ job'[w] = None /\ body'[w] = {}
        /\ \A v \in Workers \ {w} : UNCHANGED <<pc[v], job[v], body[v], okay[v]>>
    BY <1>1 DEF PostRun, Crash, Release, IInv, TypeOK
  <1>4. /\ outcome'[t] \in {outcome[t], "lost"}
        /\ \A s \in Tasks \ {t} : outcome'[s] = outcome[s]
    BY <1>2 DEF PostRun, Crash, IInv, TypeOK
  <1>5. StageOf(w)'
    BY <1>3 DEF StageOf
  <1>6. Kept(t)'
    <2>1. Kept(t)
      BY DEF IInv, Safe, TasksKept
    <2>2. QED
      BY <1>3, <1>4, <2>1 DEF Kept
  <1>7. QED
    BY <1>1, <1>2, <1>3, <1>4, <1>5, <1>6, WorkerKeeps

\* Editing an alert: what is switched on again is quiet no more.
LEMMA SetLiveKeeps ==
  ASSUME IInv, NEW a \in Alerts, NEW how \in {"active", "silenced", "deleted"},
         SetLive(a, how)
  PROVE  Safe'
  <1> USE DEF routeVars, broker, worker, effects, records
  <1>1. /\ live'[a] = how /\ \A b \in Alerts \ {a} : live'[b] = live[b]
        /\ \A t \in Tasks : quiet'[t] \subseteq quiet[t]
        /\ how = "active" => \A t \in Tasks : a \notin quiet'[t]
        /\ UNCHANGED <<todo, broker, worker, accepted, told, log, outcome>>
    BY DEF SetLive, IInv, TypeOK
  <1>2. UntakenIsFresh' /\ TodoIsUnspent' /\ OneTaker'
    BY <1>1 DEF IInv, Safe, UntakenIsFresh, TodoIsUnspent, OneTaker, Fresh
  <1>3. Stages'
    <2> SUFFICES ASSUME NEW w \in Workers, pc[w] # "idle" PROVE StageOf(w)'
      BY <1>1 DEF Stages, StageOf
    <2>1. job[w] \in Tasks /\ StageOf(w)
      BY JobType DEF IInv, Safe, Stages
    <2>2. QED
      BY <1>1, <2>1 DEF StageOf, Fresh
  <1>4. QuietIsInactive'
    <2> SUFFICES ASSUME NEW t \in Tasks, NEW b \in quiet'[t]
                 PROVE  live'[b] # "active"
      BY DEF QuietIsInactive
    <2>1. b \in quiet[t] /\ b \in Alerts /\ live[b] # "active"
      BY <1>1 DEF IInv, TypeOK, Safe, QuietIsInactive
    <2>2. QED
      BY <1>1, <2>1
  <1>5. TasksKept'
    BY <1>1 DEF IInv, Safe, TasksKept, Kept
  <1>6. QED
    BY <1>2, <1>3, <1>4, <1>5 DEF Safe

LEMMA SafeNext == IInv /\ [Next]_vars => Safe'
  <1> SUFFICES ASSUME IInv, [Next]_vars PROVE Safe'
    OBVIOUS
  <1> USE DEF alertVars, routeVars, broker, worker, effects, records
  <1>1. ASSUME UNCHANGED <<live, queue, spent, worker, effects, log, outcome,
                           quiet>>,
               \A r \in Requests : todo'[r] \subseteq todo[r]
        PROVE  Safe'
    BY <1>1 DEF IInv, Safe, UntakenIsFresh, TodoIsUnspent, OneTaker, Stages,
       StageOf, QuietIsInactive, TasksKept, Kept, Fresh
  <1>2. ASSUME NEW t \in Pushed, Push(t) PROVE Safe'
    <2>1. \A r \in Requests : \A c \in todo[r] : Outbound(r, c) # t
      <3>1. \A r \in Requests : todo[r] \subseteq Channels
        BY DEF IInv, TypeOK
      <3>2. QED
        BY <3>1, OutboundIsTask
    <2>2. TodoIsUnspent'
      BY <1>2, <2>1 DEF Push, IInv, Safe, TodoIsUnspent
    <2>3. QED
      BY <1>2, <2>2, EnqueueKeeps DEF Push, Tasks
  <1>3. ASSUME NEW r \in Requests, Queue(r) PROVE Safe'
    <2>1. PICK c \in todo[r] :
            /\ c \in Channels /\ Outbound(r, c) \in Tasks
            /\ todo' = [todo EXCEPT ![r] = @ \ {c}]
            /\ queue' = queue \cup {Outbound(r, c)}
            /\ spent' = spent \cup {Outbound(r, c)}
      BY <1>3, QueueMoves DEF IInv
    <2>2. Outbound(r, c) \notin spent
      BY <2>1 DEF IInv, Safe, TodoIsUnspent
    <2>3. TodoIsUnspent'
      <3> SUFFICES ASSUME NEW q \in Requests, NEW d \in todo'[q]
                   PROVE  Outbound(q, d) \notin spent'
        BY DEF TodoIsUnspent
      <3>1. d \in todo[q] /\ d \in Channels /\ (q # r \/ d # c)
        BY <2>1 DEF IInv, TypeOK
      <3>2. Outbound(q, d) # Outbound(r, c)
        BY <2>1, <3>1, OutboundIsTask
      <3>3. QED
        BY <2>1, <3>1, <3>2 DEF IInv, Safe, TodoIsUnspent
    <2>4. QED
      BY <1>3, <2>1, <2>2, <2>3, EnqueueKeeps DEF Queue
  <1>4. ASSUME NEW r \in Requests, SkipChannel(r) \/ QueueRefused(r) \/ Answer(r)
        PROVE  Safe'
    <2>1. \A q \in Requests : todo'[q] \subseteq todo[q]
      <3>1. todo \in [Requests -> SUBSET Channels]
        BY DEF IInv, TypeOK
      <3>2. CASE SkipChannel(r)
        BY <3>1, <3>2 DEF SkipChannel
      <3>3. CASE QueueRefused(r) \/ Answer(r)
        BY <3>3 DEF QueueRefused, Answer
      <3>4. QED
        BY <1>4, <3>2, <3>3
    <2>2. QED
      BY <1>1, <1>4, <2>1 DEF SkipChannel, QueueRefused, Answer
  <1>5. ASSUME NEW w \in Workers, Work(w) \/ Crash(w) PROVE Safe'
    BY <1>5, TakeKeeps, LoadKeeps, SendKeeps, RecordKeeps, ReleaseKeeps DEF Work
  <1>6. ASSUME NEW S, SetAddress(S) PROVE Safe'
    BY <1>1, <1>6 DEF SetAddress
  <1>7. CASE UNCHANGED vars
    BY <1>1, <1>7 DEF vars
  <1>8. QED
    BY <1>2, <1>3, <1>4, <1>5, <1>6, <1>7, SetLiveKeeps DEF Next, Handle

LEMMA InvInit == Init => IInv
  BY TypeInit, SafeInit DEF IInv

LEMMA InvNext == IInv /\ [Next]_vars => IInv'
  BY TypeNext, SafeNext DEF IInv, Safe

-----------------------------------------------------------------------------
(* Theorems *)

\* tasks_comms.py: the rows, the queue and the workers keep their types.
THEOREM TypeCorrect == Spec => []TypeOK
  <1>1. IInv => TypeOK
    BY DEF IInv
  <1>2. QED
    BY <1>1, InvInit, InvNext, PTL DEF Spec

\* tasks_comms.py:14-15: for any number of tasks and workers, dying wherever
\* they may, a task gets at most one message accepted.
THEOREM OneMessage == Spec => []AtMostOneMessage
  <1>1. IInv => AtMostOneMessage
    BY DEF IInv, Safe, TasksKept, Kept, AtMostOneMessage
  <1>2. QED
    BY <1>1, InvInit, InvNext, PTL DEF Spec

\* tasks_comms.py:84-94, 136-148: no message tells of an alert that was silent
\* from the moment a worker took the task on.
THEOREM Silenced == Spec => []SilencedStaysSilent
  <1>1. IInv => SilencedStaysSilent
    BY DEF IInv, Safe, TasksKept, Kept, SilencedStaysSilent
  <1>2. QED
    BY <1>1, InvInit, InvNext, PTL DEF Spec

\* tasks_comms.py:110-131: the delivery log claims what a provider accepted, once
\* per task, and for every e-mail or outbound task whose body came to an end.
THEOREM TruthfulLog == Spec => []LogIsTruthful
  <1>1. IInv => LogIsTruthful
    BY DEF IInv, Safe, TasksKept, Kept, LogIsTruthful
  <1>2. QED
    BY <1>1, InvInit, InvNext, PTL DEF Spec
=============================================================================
