--------------------------- MODULE MqttSubscriber ---------------------------
(***************************************************************************)
(* The MQTT subscriber: paho's loop runs the callbacks on the main thread, *)
(* a second thread stamps or removes the liveness file every interval, and *)
(* the container healthcheck reads the age of that file.  The session at   *)
(* the broker is durable: what is published while the subscriber is away   *)
(* waits there, and stays until it is acknowledged, which paho does when   *)
(* the callback has returned.  What the handlers write is modelled in      *)
(* DeviceRouting and AlertIngest; here an uplink is stored or not.         *)
(***************************************************************************)
EXTENDS Integers, Sequences, FiniteSets, SequencesExt

CONSTANTS
  Uplinks,    \* what devices publish, each once
  Content,    \* [topic, wellFormed, keys, client] of each
  Registry,   \* the sensor keys that are ingested
  Clients,    \* the users that have a zone
  Enabled,    \* a broker is configured
  Window,     \* age in heartbeats at which the healthcheck fails
  MaxFaults,  \* bound on deaths, drops, refusals and failures
  None        \* no file

\* What the constants are, assumed by the module that checks this one: a file
\* lasts longer than the interval after which it is stamped again.
WindowAssumption == Window \in Nat \ {0, 1} /\ MaxFaults \in Nat
NoneAssumption   == None \notin Nat \cup Uplinks

VARIABLES
  session,    \* the broker knows the session and its subscriptions
  queue,      \* what it has for the session, not yet acknowledged
  link,       \* the connection as the network has it
  asked,      \* SUBSCRIBE is on its way to the broker
  pc, hand,   \* the main thread, and the uplink in the callback it runs
  paho,       \* the connection as paho reports it
  stop,       \* a signal has asked for the end
  heart,      \* the heartbeat thread
  beaten,     \* it has run in this interval
  file,       \* the age of the liveness file in intervals
  writable,   \* the file can be written and removed
  since,      \* intervals since paho's report changed or the process started
  published, stored, \* uplinks sent and written
  excused,    \* uplinks whose loss has a known cause
  tries,      \* how often each was handed to a handler
  faults

broker  == <<session, queue>>
thread  == <<pc, hand, paho, stop>>
health  == <<heart, beaten, file, writable>>
history == <<published, stored, excused, tries>>
vars == <<broker, link, asked, thread, health, since, history, faults>>

Init ==
    /\ session = FALSE /\ queue = <<>>
    /\ link = FALSE /\ asked = FALSE
    /\ pc = "off" /\ hand = None /\ paho = FALSE /\ stop = FALSE
    /\ heart = "wait" /\ beaten = TRUE
    /\ file = None /\ writable = TRUE
    /\ since = 0
    /\ published = {} /\ stored = {} /\ excused = {}
    /\ tries = [m \in Uplinks |-> 0]
    /\ faults = 0

Alive == pc # "off"
Fault == faults < MaxFaults /\ faults' = faults + 1
Settled == paho /\ link /\ ~asked
\* paho's report becomes b.
Report(b) == paho' = b /\ since' = IF paho = b THEN since ELSE 0

-----------------------------------------------------------------------------
(* The liveness file *)

\* An OSError is logged and the file left as it is.
Touch == file' = IF writable THEN 0 ELSE file
Clear == file' = IF writable THEN None ELSE file

Healthy == file # None /\ file < Window

\* Mutant: every beat stamps the file.
BeatAlways ==
    /\ Alive /\ ~stop /\ pc # "idling" /\ heart = "wait" /\ ~beaten
    /\ heart' = "touch" /\ beaten' = TRUE
    /\ UNCHANGED <<broker, link, asked, thread, file, writable, since, history,
                   faults>>

\* The thread wakes and asks paho; it acts on the answer later.
Beat ==
    /\ Alive /\ ~stop /\ pc # "idling" /\ heart = "wait" /\ ~beaten
    /\ heart' = IF paho THEN "touch" ELSE "clear"
    /\ beaten' = TRUE
    /\ UNCHANGED <<broker, link, asked, thread, file, writable, since, history,
                   faults>>

BeatEnd ==
    /\ heart # "wait"
    /\ heart' = "wait"
    /\ IF heart = "touch" THEN Touch ELSE Clear
    /\ UNCHANGED <<broker, link, asked, thread, beaten, writable, since, history,
                   faults>>

DiskFails ==
    /\ writable /\ Fault
    /\ writable' = FALSE
    /\ UNCHANGED <<broker, link, asked, thread, heart, beaten, file, since, history>>

\* Beyond Window + 1 nothing differs.
Later(n) == IF n > Window THEN n ELSE n + 1

\* An interval goes by.  The heartbeat is prompt; the main thread need not be.
Tick ==
    /\ Alive /\ ~stop /\ pc # "idling" => beaten /\ heart = "wait"
    /\ beaten' = FALSE
    /\ file' = IF file \in {None, Window} THEN file ELSE file + 1
    /\ since' = Later(since)
    /\ UNCHANGED <<broker, link, asked, thread, heart, writable, history, faults>>

-----------------------------------------------------------------------------
(* Connection *)

\* run: the file of an earlier process is removed; without a broker the main
\* thread waits for ever.
Start ==
    /\ pc = "off"
    /\ pc' = IF Enabled THEN "connecting" ELSE "idling"
    /\ stop' = FALSE /\ beaten' = TRUE /\ since' = 0
    /\ Clear
    /\ UNCHANGED <<broker, link, asked, hand, paho, heart, writable,
                   history, faults>>

\* CONNACK, and _on_connect: the topics are subscribed on every connection.
Connect ==
    /\ pc = "connecting" /\ ~stop
    /\ pc' = "idle" /\ link' = TRUE /\ Report(TRUE)
    /\ asked' = TRUE
    /\ Touch
    /\ UNCHANGED <<broker, hand, stop, heart, beaten, writable, history, faults>>

\* The broker refuses the connection: _on_connect with another reason code.
Refused ==
    /\ pc = "connecting" /\ ~stop
    /\ Fault /\ Clear
    /\ UNCHANGED <<broker, link, asked, thread, heart, beaten, writable, since,
                   history>>

\* The broker takes the SUBSCRIBE; the session is durable from then on.
Subscribed ==
    /\ link /\ asked
    /\ asked' = FALSE /\ session' = TRUE
    /\ UNCHANGED <<queue, link, thread, health, since, history, faults>>

\* The network drops the connection, with what is on its way.
Drop ==
    /\ link /\ Fault
    /\ link' = FALSE /\ asked' = FALSE
    /\ UNCHANGED <<broker, thread, health, since, history>>

\* paho notices, in its loop: _on_disconnect, and it connects again.
Disconnected ==
    /\ pc = "idle" /\ ~link /\ ~stop
    /\ pc' = "connecting" /\ Report(FALSE)
    /\ Clear
    /\ UNCHANGED <<broker, link, asked, hand, stop, heart, beaten, writable,
                   history, faults>>

\* The broker restarts without its sessions (persistence false).
BrokerRestart ==
    /\ Fault
    /\ link' = FALSE /\ asked' = FALSE
    /\ session' = FALSE /\ queue' = <<>>
    /\ excused' = excused \cup ToSet(queue)
    /\ UNCHANGED <<thread, health, since, published, stored, tries>>

\* _shutdown, on the main thread, whatever it is doing.
Shutdown ==
    /\ Alive /\ pc # "idling" /\ ~stop /\ Fault
    /\ stop' = TRUE /\ link' = FALSE /\ asked' = FALSE
    /\ Clear
    /\ UNCHANGED <<broker, pc, hand, paho, heart, beaten, writable, since, history>>

\* The loop ends, through _on_disconnect if there was a connection, and the
\* process with it.
Exit ==
    /\ stop /\ pc \in {"connecting", "idle"}
    /\ pc' = "off" /\ Report(FALSE)
    /\ heart' = "wait"
    /\ IF paho THEN Clear ELSE UNCHANGED file
    /\ UNCHANGED <<broker, link, asked, hand, stop, beaten, writable, history,
                   faults>>

-----------------------------------------------------------------------------
(* Uplinks *)

\* A device publishes: the broker keeps it for every session that subscribed.
Publish(m) ==
    /\ m \notin published
    /\ published' = published \cup {m}
    /\ queue' = IF session THEN Append(queue, m) ELSE queue
    /\ excused' = IF session \/ Settled THEN excused ELSE excused \cup {m}
    /\ UNCHANGED <<session, link, asked, thread, health, since, stored,
                   tries, faults>>

\* How often a message can be in hand, saturated.
Again(n) == IF n > MaxFaults + 1 THEN n ELSE n + 1

\* Mutant: the message is acknowledged when it arrives.
DeliverAcknowledged ==
    /\ pc = "idle" /\ link /\ ~stop /\ queue # <<>>
    /\ pc' = "handle" /\ hand' = Head(queue) /\ queue' = Tail(queue)
    /\ tries' = [tries EXCEPT ![Head(queue)] = Again(@)]
    /\ UNCHANGED <<session, link, asked, paho, stop, health, since, published,
                   stored, excused, faults>>

Deliver ==
    /\ pc = "idle" /\ link /\ ~stop /\ queue # <<>>
    /\ pc' = "handle" /\ hand' = Head(queue)
    /\ tries' = [tries EXCEPT ![Head(queue)] = Again(@)]
    /\ UNCHANGED <<broker, link, asked, paho, stop, health, since, published,
                   stored, excused, faults>>

\* _extract_metrics
Metrics(m) == Content[m].keys \cap Registry

\* What each topic's handler makes of a message: "store", "nothing", or the
\* exception of a payload, a key or a client it cannot use.
OnChirpstack(m) == IF Content[m].wellFormed THEN "store" ELSE "raise"

\* resolve_user_zone: the topic names a user who has a zone.
ForClient(m) == IF Content[m].client \in Clients THEN "store" ELSE "raise"

OnWeather(m) ==
    IF ~Content[m].wellFormed THEN "raise"
    ELSE IF Metrics(m) = {} THEN "nothing" ELSE ForClient(m)

\* The bridge's tags are the metrics.
OnBivocom(m) == OnWeather(m)

OnSensor(m) ==
    IF Metrics(m) = {} \/ ~Content[m].wellFormed THEN "raise" ELSE ForClient(m)

Outcome(m) ==
    CASE Content[m].topic = "chirpstack" -> OnChirpstack(m)
      [] Content[m].topic = "weather" -> OnWeather(m)
      [] Content[m].topic = "bivocom" -> OnBivocom(m)
      [] Content[m].topic = "sensor" -> OnSensor(m)
      [] OTHER -> "nothing"

\* The handler commits.
Stores ==
    /\ pc = "handle" /\ Outcome(hand) = "store"
    /\ stored' = stored \cup {hand}
    /\ pc' = "ack"
    /\ UNCHANGED <<broker, link, asked, hand, paho, stop, health, since, published,
                   excused, tries, faults>>

\* Mutants: the exception ends the loop; the message is handled once more.
RaisesThrough ==
    /\ pc = "handle" /\ Outcome(hand) # "store"
    /\ pc' = IF Outcome(hand) = "raise" THEN "off" ELSE "ack"
    /\ link' = (link /\ pc' = "ack") /\ asked' = (asked /\ pc' = "ack")
    /\ IF pc' = "off" THEN Report(FALSE) ELSE UNCHANGED <<paho, since>>
    /\ hand' = IF pc' = "off" THEN None ELSE hand
    /\ UNCHANGED <<broker, stop, health, history, faults>>

\* _guard: what the handler raises is logged and the message dropped.
Drops ==
    /\ pc = "handle" /\ Outcome(hand) # "store"
    /\ pc' = "ack"
    /\ UNCHANGED <<broker, link, asked, hand, paho, stop, health, since, history,
                   faults>>

\* The same for a database that fails before the commit, or while answering it.
Fails ==
    /\ pc = "handle" /\ Outcome(hand) = "store" /\ Fault
    /\ excused' = excused \cup {hand}
    /\ stored' \in {stored, stored \cup {hand}}
    /\ pc' = "ack"
    /\ UNCHANGED <<broker, link, asked, hand, paho, stop, health, since, published,
                   tries>>

\* PUBACK, if there still is a connection to send it on.
Acknowledge ==
    /\ pc = "ack"
    /\ pc' = "idle" /\ hand' = None
    /\ queue' = IF link THEN Tail(queue) ELSE queue
    /\ UNCHANGED <<session, link, asked, paho, stop, health, since, published,
                   stored, excused, tries, faults>>

\* The process dies; docker starts it again.  Its file stays.
Die ==
    /\ Alive /\ pc # "idling" /\ Fault
    /\ pc' = "off" /\ hand' = None /\ stop' = FALSE /\ Report(FALSE)
    /\ link' = FALSE /\ asked' = FALSE /\ heart' = "wait"
    /\ UNCHANGED <<broker, beaten, file, writable, published, stored, excused, tries>>

-----------------------------------------------------------------------------
Handle == Deliver \/ Stores \/ Drops \/ Fails \/ Acknowledge
Connection == Connect \/ Refused \/ Subscribed \/ Disconnected \/ Shutdown \/ Exit

Next ==
    \/ Start \/ Connection \/ Handle \/ Beat \/ BeatEnd \/ Tick
    \/ Drop \/ BrokerRestart \/ DiskFails \/ Die
    \/ \E m \in Uplinks : Publish(m)

Spec == Init /\ [][Next]_vars

\* Docker restarts the process, paho's loop runs and reconnects, handlers end.
Fairness ==
    /\ WF_vars(Start) /\ WF_vars(Connect) /\ WF_vars(Disconnected) /\ WF_vars(Exit)
    /\ WF_vars(Deliver) /\ WF_vars(Stores) /\ WF_vars(Drops) /\ WF_vars(Acknowledge)
FairSpec == Spec /\ Fairness

-----------------------------------------------------------------------------
(* Properties *)

TypeOK ==
    /\ session \in BOOLEAN /\ queue \in Seq(Uplinks)
    /\ link \in BOOLEAN /\ asked \in BOOLEAN
    /\ pc \in {"off", "idling", "connecting", "idle", "handle", "ack"}
    /\ hand \in Uplinks \cup {None} /\ (hand # None <=> pc \in {"handle", "ack"})
    /\ paho \in BOOLEAN /\ stop \in BOOLEAN
    /\ heart \in {"wait", "touch", "clear"} /\ beaten \in BOOLEAN
    /\ file \in (0..Window) \cup {None} /\ writable \in BOOLEAN
    /\ since \in 0..(Window + 1)
    /\ stored \subseteq published /\ published \subseteq Uplinks
    /\ excused \subseteq published
    /\ tries \in [Uplinks -> 0..(MaxFaults + 2)]
    /\ faults \in 0..MaxFaults

\* "Health = the subscriber is CONNECTED to the broker": two heartbeats after
\* the connection came or went the container is healthy exactly if it is
\* there, whatever the interleaving of the heartbeat thread with the callbacks;
\* and when the file can no longer be removed, its age tells.
HealthFollowsConnection ==
    Alive /\ ~stop =>
        /\ writable /\ since >= 2 => (Healthy <=> paho)
        /\ ~paho /\ since > Window => ~Healthy

\* An uplink the handlers can store is waiting at the broker or stored, unless
\* its handler met a failing database, the broker lost its sessions, or it
\* was published before the session existed ("durable session"; every
\* connection subscribes again); one they cannot store was looked at.
NoSilentLoss ==
    \A m \in published \ excused :
        \/ m \in ToSet(queue)
        \/ IF Outcome(m) = "store" THEN m \in stored ELSE tries[m] > 0

\* No message holds up the others for ever: once the faults are over, the
\* broker gets rid of all of them ("one bad message never kills the
\* subscriber loop").
EventuallyHandled ==
    \A m \in Uplinks : m \in ToSet(queue) ~> m \notin ToSet(queue)

\* "so a WEDGED-but-connected client also goes stale/unhealthy": with a main
\* thread that is stuck in a callback, and a heartbeat that is not, the
\* container ends up unhealthy.  Does not hold: only the stuck thread would
\* change what paho reports.
Heartbeats == Spec /\ WF_vars(Beat) /\ WF_vars(BeatEnd) /\ WF_vars(Tick)
WedgedGoesStale == <>[](pc = "handle") => <>[]~Healthy

=============================================================================
