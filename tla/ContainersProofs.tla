------------------------ MODULE ContainersProofs ------------------------
(***************************************************************************)
(* The MQTT subscriber, for any uplinks, registry, healthcheck window and  *)
(* number of faults.  No uplink is lost because the broker still has the   *)
(* one in hand as the first of its queue; the container's health follows   *)
(* the connection because a beat that is under way acts on what paho       *)
(* reported in this interval.                                              *)
(***************************************************************************)
EXTENDS MCContainers, SequenceTheorems, TLAPS

-----------------------------------------------------------------------------
(* The invariant *)

\* Where the main thread is, and what paho and the network say of it.
Threads ==
    /\ paho <=> pc \in {"idle", "handle", "ack"}
    /\ link => paho /\ ~stop
    /\ link /\ ~asked => session
    /\ pc \in {"off", "idling"} => heart = "wait"

\* The uplink in hand was looked at, is the first that the broker has if it is
\* still there to be told, and is stored before it is acknowledged.
InHand ==
    /\ ToSet(queue) \subseteq published
    /\ pc \in {"handle", "ack"} =>
          /\ hand \in published /\ tries[hand] > 0
          /\ link => queue # <<>> /\ Head(queue) = hand
    /\ pc = "ack" /\ Outcome(hand) = "store" => hand \in stored \cup excused

\* A process that is to go on and has a broker.
Beats == Alive /\ ~stop /\ pc # "idling"

\* A beat under way is that of this interval.
Prompt == Beats /\ since >= 1 /\ heart # "wait" => (heart = "touch" <=> paho)

\* A file that is there without a connection is older than its loss.
Ages == Alive /\ ~stop /\ ~paho => file \in {None, Window} \/ since <= file

\* One beat after a change the file says what paho says; it may then age until
\* the next one.
Fresh ==
    writable =>
       /\ pc = "idling" => file = None
       /\ Beats /\ since >= 1 /\ beaten /\ heart = "wait" =>
             file = IF paho THEN 0 ELSE None
       /\ Beats /\ since >= 2 =>
             IF paho THEN file \in {0, 1} ELSE file = None

IInv == TypeOK /\ Threads /\ InHand /\ NoSilentLoss /\ Prompt /\ Ages /\ Fresh

-----------------------------------------------------------------------------
(* The queue at the broker *)

LEMMA ToSetOfEmpty == ToSet(<<>>) = {}
  BY DEF ToSet

LEMMA ToSetOfAppend ==
  ASSUME NEW S, NEW q \in Seq(S), NEW m \in S
  PROVE  ToSet(Append(q, m)) = ToSet(q) \cup {m}
  <1>1. /\ Append(q, m) \in Seq(S) /\ Len(Append(q, m)) = Len(q) + 1
        /\ \A i \in 1..Len(q) : Append(q, m)[i] = q[i]
        /\ Append(q, m)[Len(q) + 1] = m
    OBVIOUS
  <1>2. /\ Len(q) \in Nat /\ DOMAIN q = 1..Len(q)
        /\ DOMAIN Append(q, m) = 1..(Len(q) + 1)
    BY <1>1, LenProperties
  <1>3. ASSUME NEW x \in ToSet(Append(q, m)) PROVE x \in ToSet(q) \cup {m}
    <2>1. PICK i \in 1..(Len(q) + 1) : x = Append(q, m)[i]
      BY <1>2, <1>3 DEF ToSet
    <2>2. i \in 1..Len(q) \/ i = Len(q) + 1
      BY <1>2, <2>1
    <2>3. QED
      BY <1>1, <1>2, <2>1, <2>2 DEF ToSet
  <1>4. ASSUME NEW x \in ToSet(q) PROVE x \in ToSet(Append(q, m))
    <2>1. PICK i \in 1..Len(q) : x = q[i]
      BY <1>2, <1>4 DEF ToSet
    <2>2. i \in 1..(Len(q) + 1) /\ x = Append(q, m)[i]
      BY <1>1, <1>2, <2>1
    <2>3. QED
      BY <1>2, <2>2 DEF ToSet
  <1>5. m \in ToSet(Append(q, m))
    <2>1. Len(q) + 1 \in 1..(Len(q) + 1)
      BY <1>2
    <2>2. QED
      BY <1>1, <1>2, <2>1 DEF ToSet
  <1>6. QED
    BY <1>3, <1>4, <1>5

LEMMA ToSetOfTail ==
  ASSUME NEW S, NEW q \in Seq(S), q # <<>>
  PROVE  /\ ToSet(Tail(q)) \subseteq ToSet(q)
         /\ ToSet(q) \subseteq ToSet(Tail(q)) \cup {Head(q)}
         /\ Head(q) \in ToSet(q)
  <1>1. /\ Tail(q) \in Seq(S) /\ Len(Tail(q)) = Len(q) - 1
        /\ \A i \in 1..Len(Tail(q)) : Tail(q)[i] = q[i + 1]
    BY HeadTailProperties
  <1>2. /\ Len(q) \in Nat \ {0} /\ DOMAIN q = 1..Len(q)
        /\ DOMAIN Tail(q) = 1..(Len(q) - 1)
    BY <1>1, LenProperties, EmptySeq
  <1>3. Head(q) = q[1]
    BY <1>2
  <1>4. ASSUME NEW x \in ToSet(Tail(q)) PROVE x \in ToSet(q)
    <2>1. PICK i \in 1..(Len(q) - 1) : x = Tail(q)[i]
      BY <1>2, <1>4 DEF ToSet
    <2>2. i + 1 \in 1..Len(q) /\ x = q[i + 1]
      BY <1>1, <1>2, <2>1
    <2>3. QED
      BY <1>2, <2>2 DEF ToSet
  <1>5. ASSUME NEW x \in ToSet(q), x # Head(q) PROVE x \in ToSet(Tail(q))
    <2>1. PICK i \in 1..Len(q) : x = q[i]
      BY <1>2, <1>5 DEF ToSet
    <2>2. i # 1
      BY <1>3, <1>5, <2>1
    <2>3. i - 1 \in 1..(Len(q) - 1) /\ (i - 1) + 1 = i
      BY <1>2, <2>1, <2>2
    <2>4. x = Tail(q)[i - 1]
      BY <1>1, <2>1, <2>3
    <2>5. QED
      BY <1>2, <2>3, <2>4 DEF ToSet
  <1>6. Head(q) \in ToSet(q)
    <2>1. 1 \in 1..Len(q)
      BY <1>2
    <2>2. QED
      BY <1>2, <1>3, <2>1 DEF ToSet
  <1>7. QED
    BY <1>4, <1>5, <1>6

-----------------------------------------------------------------------------
(* Types *)

\* The flags and the other variables, which the provers take apart.
Flags == /\ session \in BOOLEAN /\ link \in BOOLEAN /\ asked \in BOOLEAN
         /\ paho \in BOOLEAN /\ stop \in BOOLEAN
         /\ beaten \in BOOLEAN /\ writable \in BOOLEAN
Counts == /\ file \in (0..Window) \cup {None} /\ since \in 0..(Window + 1)
          /\ faults \in 0..MaxFaults
Values ==
    /\ queue \in Seq(Uplinks)
    /\ pc \in {"off", "idling", "connecting", "idle", "handle", "ack"}
    /\ hand \in Uplinks \cup {None} /\ (hand # None <=> pc \in {"handle", "ack"})
    /\ heart \in {"wait", "touch", "clear"}
    /\ stored \subseteq published /\ published \subseteq Uplinks
    /\ excused \subseteq published
    /\ tries \in [Uplinks -> 0..(MaxFaults + 2)]

LEMMA TypeParts == TypeOK <=> Flags /\ Counts /\ Values
  BY Zenon DEF TypeOK, Flags, Counts, Values

LEMMA TypeInit ==
  ASSUME WindowAssumption, Init
  PROVE  TypeOK
  <1>1. Flags
    BY Zenon DEF Init, Flags
  <1>2. Counts
    BY DEF Init, Counts, WindowAssumption
  <1>3. Values
    <2>1. <<>> \in Seq(Uplinks)
      BY EmptySeq
    <2>2. QED
      BY <2>1 DEF Init, Values, WindowAssumption
  <1>4. QED
    BY <1>1, <1>2, <1>3, TypeParts

LEMMA Headed ==
  ASSUME TypeOK, queue # <<>>
  PROVE  Head(queue) \in Uplinks /\ Tail(queue) \in Seq(Uplinks)
  BY HeadTailProperties DEF TypeOK

LEMMA FlagsNext ==
  ASSUME Flags, Counts, [Next]_vars
  PROVE  Flags'
  <1> USE DEF Flags, Report, broker, thread, health, history
  <1>1. ASSUME Start PROVE Flags'
    BY <1>1, Zenon DEF Start
  <1>2. ASSUME Connect PROVE Flags'
    BY <1>2, Zenon DEF Connect
  <1>3. ASSUME Refused PROVE Flags'
    BY <1>3, Zenon DEF Refused
  <1>4. ASSUME Subscribed PROVE Flags'
    BY <1>4, Zenon DEF Subscribed
  <1>5. ASSUME Disconnected PROVE Flags'
    BY <1>5, Zenon DEF Disconnected
  <1>6. ASSUME Shutdown PROVE Flags'
    BY <1>6, Zenon DEF Shutdown
  <1>7. ASSUME Exit PROVE Flags'
    BY <1>7, Zenon DEF Exit
  <1>8. ASSUME Deliver PROVE Flags'
    BY <1>8, Zenon DEF Deliver
  <1>9. ASSUME Stores PROVE Flags'
    BY <1>9, Zenon DEF Stores
  <1>10. ASSUME Drops PROVE Flags'
    BY <1>10, Zenon DEF Drops
  <1>11. ASSUME Fails PROVE Flags'
    BY <1>11, Zenon DEF Fails
  <1>12. ASSUME Acknowledge PROVE Flags'
    BY <1>12, Zenon DEF Acknowledge
  <1>13. ASSUME Beat PROVE Flags'
    BY <1>13, Zenon DEF Beat
  <1>14. ASSUME BeatEnd PROVE Flags'
    BY <1>14, Zenon DEF BeatEnd
  <1>15. ASSUME Tick PROVE Flags'
    BY <1>15, Zenon DEF Tick
  <1>16. ASSUME Drop PROVE Flags'
    BY <1>16, Zenon DEF Drop
  <1>17. ASSUME BrokerRestart PROVE Flags'
    BY <1>17, Zenon DEF BrokerRestart
  <1>18. ASSUME DiskFails PROVE Flags'
    BY <1>18, Zenon DEF DiskFails
  <1>19. ASSUME Die PROVE Flags'
    BY <1>19, Zenon DEF Die
  <1>20. ASSUME NEW m \in Uplinks, Publish(m) PROVE Flags'
    BY <1>20, Zenon DEF Publish
  <1>21. ASSUME UNCHANGED vars PROVE Flags'
    BY <1>21, Zenon DEF vars
  <1> HIDE DEF Flags
  <1>22. QED
    BY <1>1, <1>2, <1>3, <1>4, <1>5, <1>6, <1>7, <1>8, <1>9, <1>10, <1>11, <1>12, <1>13, <1>14, <1>15, <1>16, <1>17, <1>18, <1>19, <1>20, <1>21
       DEF Next, Connection, Handle

LEMMA CountsNext ==
  ASSUME WindowAssumption, Counts, [Next]_vars
  PROVE  Counts'
  <1> USE DEF Counts, WindowAssumption, Fault, Report, Touch, Clear,
              broker, thread, health, history
  <1>1. ASSUME Start PROVE Counts'
    BY <1>1 DEF Start
  <1>2. ASSUME Connect PROVE Counts'
    BY <1>2 DEF Connect
  <1>3. ASSUME Refused PROVE Counts'
    BY <1>3 DEF Refused
  <1>4. ASSUME Subscribed PROVE Counts'
    BY <1>4 DEF Subscribed
  <1>5. ASSUME Disconnected PROVE Counts'
    BY <1>5 DEF Disconnected
  <1>6. ASSUME Shutdown PROVE Counts'
    BY <1>6 DEF Shutdown
  <1>7. ASSUME Exit PROVE Counts'
    BY <1>7 DEF Exit
  <1>8. ASSUME Deliver PROVE Counts'
    BY <1>8 DEF Deliver
  <1>9. ASSUME Stores PROVE Counts'
    BY <1>9 DEF Stores
  <1>10. ASSUME Drops PROVE Counts'
    BY <1>10 DEF Drops
  <1>11. ASSUME Fails PROVE Counts'
    BY <1>11 DEF Fails
  <1>12. ASSUME Acknowledge PROVE Counts'
    BY <1>12 DEF Acknowledge
  <1>13. ASSUME Beat PROVE Counts'
    BY <1>13 DEF Beat
  <1>14. ASSUME BeatEnd PROVE Counts'
    BY <1>14 DEF BeatEnd
  <1>15. ASSUME Tick PROVE Counts'
    BY <1>15 DEF Tick, Later
  <1>16. ASSUME Drop PROVE Counts'
    BY <1>16 DEF Drop
  <1>17. ASSUME BrokerRestart PROVE Counts'
    BY <1>17 DEF BrokerRestart
  <1>18. ASSUME DiskFails PROVE Counts'
    BY <1>18 DEF DiskFails
  <1>19. ASSUME Die PROVE Counts'
    BY <1>19 DEF Die
  <1>20. ASSUME NEW m \in Uplinks, Publish(m) PROVE Counts'
    BY <1>20 DEF Publish
  <1>21. ASSUME UNCHANGED vars PROVE Counts'
    BY <1>21 DEF vars
  <1> HIDE DEF Counts
  <1>22. QED
    BY <1>1, <1>2, <1>3, <1>4, <1>5, <1>6, <1>7, <1>8, <1>9, <1>10, <1>11, <1>12, <1>13, <1>14, <1>15, <1>16, <1>17, <1>18, <1>19, <1>20, <1>21
       DEF Next, Connection, Handle

LEMMA ValuesNext ==
  ASSUME WindowAssumption, NoneAssumption, TypeOK, Values, InHand, [Next]_vars
  PROVE  Values'
  <1> USE DEF Values, WindowAssumption, NoneAssumption,
              broker, thread, health, history
  <1>1. ASSUME Start PROVE Values'
    BY <1>1 DEF Start
  <1>2. ASSUME Connect PROVE Values'
    BY <1>2 DEF Connect
  <1>3. ASSUME Refused PROVE Values'
    BY <1>3 DEF Refused
  <1>4. ASSUME Subscribed PROVE Values'
    BY <1>4 DEF Subscribed
  <1>5. ASSUME Disconnected PROVE Values'
    BY <1>5 DEF Disconnected
  <1>6. ASSUME Shutdown PROVE Values'
    BY <1>6 DEF Shutdown, Alive
  <1>7. ASSUME Exit PROVE Values'
    BY <1>7 DEF Exit
  <1>8. ASSUME Deliver PROVE Values'
    BY Headed, <1>8 DEF Deliver, Again, InHand
  <1>9. ASSUME Stores PROVE Values'
    BY <1>9 DEF Stores, InHand
  <1>10. ASSUME Drops PROVE Values'
    BY <1>10 DEF Drops
  <1>11. ASSUME Fails PROVE Values'
    BY <1>11 DEF Fails, InHand
  <1>12. ASSUME Acknowledge PROVE Values'
    BY Headed, <1>12 DEF Acknowledge, InHand
  <1>13. ASSUME Beat PROVE Values'
    BY <1>13 DEF Beat
  <1>14. ASSUME BeatEnd PROVE Values'
    BY <1>14 DEF BeatEnd
  <1>15. ASSUME Tick PROVE Values'
    BY <1>15 DEF Tick, Alive
  <1>16. ASSUME Drop PROVE Values'
    BY <1>16 DEF Drop
  <1>17. ASSUME BrokerRestart PROVE Values'
    BY <1>17 DEF BrokerRestart, InHand
  <1>18. ASSUME DiskFails PROVE Values'
    BY <1>18 DEF DiskFails
  <1>19. ASSUME Die PROVE Values'
    BY <1>19 DEF Die, Alive
  <1>20. ASSUME NEW m \in Uplinks, Publish(m) PROVE Values'
    BY <1>20 DEF Publish
  <1>21. ASSUME UNCHANGED vars PROVE Values'
    BY <1>21 DEF vars
  <1> HIDE DEF Values
  <1>22. QED
    BY <1>1, <1>2, <1>3, <1>4, <1>5, <1>6, <1>7, <1>8, <1>9, <1>10, <1>11, <1>12, <1>13, <1>14, <1>15, <1>16, <1>17, <1>18, <1>19, <1>20, <1>21
       DEF Next, Connection, Handle

LEMMA TypeNext ==
  ASSUME WindowAssumption, NoneAssumption, TypeOK, InHand, [Next]_vars
  PROVE  TypeOK'
  <1>1. Flags /\ Counts /\ Values
    BY TypeParts
  <1>2. Flags' /\ Counts' /\ Values'
    BY <1>1, FlagsNext, CountsNext, ValuesNext
  <1>3. (TypeOK <=> Flags /\ Counts /\ Values)'
    BY TypeParts, PTL
  <1>4. QED
    BY <1>2, <1>3

-----------------------------------------------------------------------------
(* The connection and the heartbeats *)

LEMMA ThreadsNext ==
  ASSUME Flags, Values, Threads, [Next]_vars
  PROVE  Threads'
  <1> USE DEF Threads, Flags, Values, Report, Alive, broker, thread, health, history
  <1>1. ASSUME Start PROVE Threads'
    BY <1>1 DEF Start
  <1>2. ASSUME Connect PROVE Threads'
    BY <1>2 DEF Connect
  <1>3. ASSUME Refused PROVE Threads'
    BY <1>3 DEF Refused
  <1>4. ASSUME Subscribed PROVE Threads'
    BY <1>4 DEF Subscribed
  <1>5. ASSUME Disconnected PROVE Threads'
    BY <1>5 DEF Disconnected
  <1>6. ASSUME Shutdown PROVE Threads'
    BY <1>6 DEF Shutdown
  <1>7. ASSUME Exit PROVE Threads'
    BY <1>7 DEF Exit
  <1>8. ASSUME Deliver PROVE Threads'
    BY <1>8 DEF Deliver
  <1>9. ASSUME Stores PROVE Threads'
    BY <1>9 DEF Stores
  <1>10. ASSUME Drops PROVE Threads'
    BY <1>10 DEF Drops
  <1>11. ASSUME Fails PROVE Threads'
    BY <1>11 DEF Fails
  <1>12. ASSUME Acknowledge PROVE Threads'
    BY <1>12 DEF Acknowledge
  <1>13. ASSUME Beat PROVE Threads'
    BY <1>13 DEF Beat
  <1>14. ASSUME BeatEnd PROVE Threads'
    BY <1>14 DEF BeatEnd
  <1>15. ASSUME Tick PROVE Threads'
    BY <1>15 DEF Tick
  <1>16. ASSUME Drop PROVE Threads'
    BY <1>16 DEF Drop
  <1>17. ASSUME BrokerRestart PROVE Threads'
    BY <1>17 DEF BrokerRestart
  <1>18. ASSUME DiskFails PROVE Threads'
    BY <1>18 DEF DiskFails
  <1>19. ASSUME Die PROVE Threads'
    BY <1>19 DEF Die
  <1>20. ASSUME NEW m \in Uplinks, Publish(m) PROVE Threads'
    BY <1>20 DEF Publish
  <1>21. ASSUME UNCHANGED vars PROVE Threads'
    BY <1>21 DEF vars
  <1> HIDE DEF Threads
  <1>22. QED
    BY <1>1, <1>2, <1>3, <1>4, <1>5, <1>6, <1>7, <1>8, <1>9, <1>10, <1>11, <1>12, <1>13, <1>14, <1>15, <1>16, <1>17, <1>18, <1>19, <1>20, <1>21
       DEF Next, Connection, Handle

LEMMA PromptNext ==
  ASSUME WindowAssumption, Flags, Counts, Threads, Prompt, [Next]_vars
  PROVE  Prompt'
  <1> USE DEF Prompt, Threads, Counts, Flags, WindowAssumption, Report, Alive, Beats, broker, thread, health, history
  <1>1. ASSUME Start PROVE Prompt'
    BY <1>1 DEF Start
  <1>2. ASSUME Connect PROVE Prompt'
    BY <1>2 DEF Connect
  <1>3. ASSUME Refused PROVE Prompt'
    BY <1>3 DEF Refused
  <1>4. ASSUME Subscribed PROVE Prompt'
    BY <1>4 DEF Subscribed
  <1>5. ASSUME Disconnected PROVE Prompt'
    BY <1>5 DEF Disconnected
  <1>6. ASSUME Shutdown PROVE Prompt'
    BY <1>6 DEF Shutdown
  <1>7. ASSUME Exit PROVE Prompt'
    BY <1>7 DEF Exit
  <1>8. ASSUME Deliver PROVE Prompt'
    BY <1>8 DEF Deliver
  <1>9. ASSUME Stores PROVE Prompt'
    BY <1>9 DEF Stores
  <1>10. ASSUME Drops PROVE Prompt'
    BY <1>10 DEF Drops
  <1>11. ASSUME Fails PROVE Prompt'
    BY <1>11 DEF Fails
  <1>12. ASSUME Acknowledge PROVE Prompt'
    BY <1>12 DEF Acknowledge
  <1>13. ASSUME Beat PROVE Prompt'
    BY <1>13 DEF Beat
  <1>14. ASSUME BeatEnd PROVE Prompt'
    BY <1>14 DEF BeatEnd
  <1>15. ASSUME Tick PROVE Prompt'
    BY <1>15 DEF Tick, Later
  <1>16. ASSUME Drop PROVE Prompt'
    BY <1>16 DEF Drop
  <1>17. ASSUME BrokerRestart PROVE Prompt'
    BY <1>17 DEF BrokerRestart
  <1>18. ASSUME DiskFails PROVE Prompt'
    BY <1>18 DEF DiskFails
  <1>19. ASSUME Die PROVE Prompt'
    BY <1>19 DEF Die
  <1>20. ASSUME NEW m \in Uplinks, Publish(m) PROVE Prompt'
    BY <1>20 DEF Publish
  <1>21. ASSUME UNCHANGED vars PROVE Prompt'
    BY <1>21 DEF vars
  <1> HIDE DEF Prompt
  <1>22. QED
    BY <1>1, <1>2, <1>3, <1>4, <1>5, <1>6, <1>7, <1>8, <1>9, <1>10, <1>11, <1>12, <1>13, <1>14, <1>15, <1>16, <1>17, <1>18, <1>19, <1>20, <1>21
       DEF Next, Connection, Handle

LEMMA AgesNext ==
  ASSUME WindowAssumption, NoneAssumption, Flags, Counts, Threads, Prompt, Ages, [Next]_vars
  PROVE  Ages'
  <1> USE DEF Ages, Prompt, Threads, Counts, Flags, WindowAssumption, NoneAssumption, Report, Alive, Beats, Touch, Clear, broker, thread, health, history
  <1>1. ASSUME Start PROVE Ages'
    BY <1>1 DEF Start
  <1>2. ASSUME Connect PROVE Ages'
    BY <1>2 DEF Connect
  <1>3. ASSUME Refused PROVE Ages'
    BY <1>3 DEF Refused
  <1>4. ASSUME Subscribed PROVE Ages'
    BY <1>4 DEF Subscribed
  <1>5. ASSUME Disconnected PROVE Ages'
    BY <1>5 DEF Disconnected
  <1>6. ASSUME Shutdown PROVE Ages'
    BY <1>6 DEF Shutdown
  <1>7. ASSUME Exit PROVE Ages'
    BY <1>7 DEF Exit
  <1>8. ASSUME Deliver PROVE Ages'
    BY <1>8 DEF Deliver
  <1>9. ASSUME Stores PROVE Ages'
    BY <1>9 DEF Stores
  <1>10. ASSUME Drops PROVE Ages'
    BY <1>10 DEF Drops
  <1>11. ASSUME Fails PROVE Ages'
    BY <1>11 DEF Fails
  <1>12. ASSUME Acknowledge PROVE Ages'
    BY <1>12 DEF Acknowledge
  <1>13. ASSUME Beat PROVE Ages'
    BY <1>13 DEF Beat
  <1>14. ASSUME BeatEnd PROVE Ages'
    BY <1>14 DEF BeatEnd
  <1>15. ASSUME Tick PROVE Ages'
    BY <1>15 DEF Tick, Later
  <1>16. ASSUME Drop PROVE Ages'
    BY <1>16 DEF Drop
  <1>17. ASSUME BrokerRestart PROVE Ages'
    BY <1>17 DEF BrokerRestart
  <1>18. ASSUME DiskFails PROVE Ages'
    BY <1>18 DEF DiskFails
  <1>19. ASSUME Die PROVE Ages'
    BY <1>19 DEF Die
  <1>20. ASSUME NEW m \in Uplinks, Publish(m) PROVE Ages'
    BY <1>20 DEF Publish
  <1>21. ASSUME UNCHANGED vars PROVE Ages'
    BY <1>21 DEF vars
  <1> HIDE DEF Ages
  <1>22. QED
    BY <1>1, <1>2, <1>3, <1>4, <1>5, <1>6, <1>7, <1>8, <1>9, <1>10, <1>11, <1>12, <1>13, <1>14, <1>15, <1>16, <1>17, <1>18, <1>19, <1>20, <1>21
       DEF Next, Connection, Handle

LEMMA FreshNext ==
  ASSUME WindowAssumption, NoneAssumption, Flags, Counts, Threads, Prompt, Fresh, [Next]_vars
  PROVE  Fresh'
  <1> USE DEF Fresh, Prompt, Threads, Counts, Flags, WindowAssumption, NoneAssumption, Report, Alive, Beats, Touch, Clear, broker, thread, health, history
  <1>1. ASSUME Start PROVE Fresh'
    BY <1>1 DEF Start
  <1>2. ASSUME Connect PROVE Fresh'
    BY <1>2 DEF Connect
  <1>3. ASSUME Refused PROVE Fresh'
    BY <1>3 DEF Refused
  <1>4. ASSUME Subscribed PROVE Fresh'
    BY <1>4 DEF Subscribed
  <1>5. ASSUME Disconnected PROVE Fresh'
    BY <1>5 DEF Disconnected
  <1>6. ASSUME Shutdown PROVE Fresh'
    BY <1>6 DEF Shutdown
  <1>7. ASSUME Exit PROVE Fresh'
    BY <1>7 DEF Exit
  <1>8. ASSUME Deliver PROVE Fresh'
    BY <1>8 DEF Deliver
  <1>9. ASSUME Stores PROVE Fresh'
    BY <1>9 DEF Stores
  <1>10. ASSUME Drops PROVE Fresh'
    BY <1>10 DEF Drops
  <1>11. ASSUME Fails PROVE Fresh'
    BY <1>11 DEF Fails
  <1>12. ASSUME Acknowledge PROVE Fresh'
    BY <1>12 DEF Acknowledge
  <1>13. ASSUME Beat PROVE Fresh'
    BY <1>13 DEF Beat
  <1>14. ASSUME BeatEnd PROVE Fresh'
    BY <1>14 DEF BeatEnd
  <1>15. ASSUME Tick PROVE Fresh'
    <2>1. /\ beaten' = FALSE /\ pc' = pc /\ writable' = writable
          /\ Beats' = Beats /\ paho' = paho
          /\ Beats => beaten /\ heart = "wait"
      BY <1>15 DEF Tick
    <2>2. file = None => file' = None
      BY <1>15 DEF Tick
    <2>3. file = 0 => file' = 1
      BY <1>15 DEF Tick
    <2>4. since' >= 2 => since >= 1
      BY <1>15 DEF Tick, Later
    <2>5. ASSUME writable, pc = "idling" PROVE file' = None
      BY <2>2, <2>5
    <2>6. ASSUME writable, Beats, since' >= 2
          PROVE  IF paho THEN file' \in {0, 1} ELSE file' = None
      <3>1. file = IF paho THEN 0 ELSE None
        BY <2>1, <2>4, <2>6
      <3>2. QED
        BY <2>2, <2>3, <3>1
    <2> HIDE DEF Beats
    <2>7. QED
      BY <2>1, <2>5, <2>6
  <1>16. ASSUME Drop PROVE Fresh'
    BY <1>16 DEF Drop
  <1>17. ASSUME BrokerRestart PROVE Fresh'
    BY <1>17 DEF BrokerRestart
  <1>18. ASSUME DiskFails PROVE Fresh'
    BY <1>18 DEF DiskFails
  <1>19. ASSUME Die PROVE Fresh'
    BY <1>19 DEF Die
  <1>20. ASSUME NEW m \in Uplinks, Publish(m) PROVE Fresh'
    BY <1>20 DEF Publish
  <1>21. ASSUME UNCHANGED vars PROVE Fresh'
    BY <1>21 DEF vars
  <1> HIDE DEF Fresh
  <1>22. QED
    BY <1>1, <1>2, <1>3, <1>4, <1>5, <1>6, <1>7, <1>8, <1>9, <1>10, <1>11, <1>12, <1>13, <1>14, <1>15, <1>16, <1>17, <1>18, <1>19, <1>20, <1>21
       DEF Next, Connection, Handle

LEMMA HealthHolds ==
  ASSUME WindowAssumption, NoneAssumption, TypeOK, Threads, Ages, Fresh
  PROVE  HealthFollowsConnection
  <1> SUFFICES ASSUME Alive, ~stop
               PROVE  /\ writable /\ since >= 2 => (Healthy <=> paho)
                      /\ ~paho /\ since > Window => ~Healthy
    BY DEF HealthFollowsConnection
  <1>1. ASSUME writable, since >= 2 PROVE Healthy <=> paho
    <2>1. CASE pc = "idling"
      <3>1. ~paho /\ file = None
        BY <1>1, <2>1 DEF Threads, Fresh
      <3>2. QED
        BY <3>1 DEF Healthy
    <2>2. CASE pc # "idling"
      <3>1. IF paho THEN file \in {0, 1} ELSE file = None
        BY <1>1, <2>2 DEF Fresh, Beats
      <3>2. QED
        BY <3>1 DEF Healthy, WindowAssumption, NoneAssumption
    <2>3. QED
      BY <2>1, <2>2
  <1>2. ASSUME ~paho, since > Window PROVE ~Healthy
    <2>1. file \in {None, Window} \/ since <= file
      BY <1>2 DEF Ages
    <2>2. file \in (0..Window) \cup {None}
      BY DEF TypeOK
    <2>3. since \in 0..(Window + 1)
      BY DEF TypeOK
    <2>4. QED
      BY <1>2, <2>1, <2>2, <2>3 DEF Healthy, WindowAssumption
  <1>3. QED
    BY <1>1, <1>2

-----------------------------------------------------------------------------
(* The uplinks *)

LEMMA InHandNext ==
  ASSUME WindowAssumption, NoneAssumption, TypeOK, Values, Threads, InHand, [Next]_vars
  PROVE  InHand'
  <1> USE DEF InHand, Threads, Values, WindowAssumption, broker, thread, health, history
  <1>1. ASSUME Start PROVE InHand'
    BY <1>1 DEF Start
  <1>2. ASSUME Connect PROVE InHand'
    BY <1>2 DEF Connect
  <1>3. ASSUME Refused PROVE InHand'
    BY <1>3 DEF Refused
  <1>4. ASSUME Subscribed PROVE InHand'
    BY <1>4 DEF Subscribed
  <1>5. ASSUME Disconnected PROVE InHand'
    BY <1>5 DEF Disconnected
  <1>6. ASSUME Shutdown PROVE InHand'
    BY <1>6 DEF Shutdown
  <1>7. ASSUME Exit PROVE InHand'
    BY <1>7 DEF Exit
  <1>8. ASSUME Deliver PROVE InHand'
    BY Headed, ToSetOfTail, <1>8 DEF Deliver, Again
  <1>9. ASSUME Stores PROVE InHand'
    BY <1>9 DEF Stores
  <1>10. ASSUME Drops PROVE InHand'
    BY <1>10 DEF Drops
  <1>11. ASSUME Fails PROVE InHand'
    BY <1>11 DEF Fails
  <1>12. ASSUME Acknowledge PROVE InHand'
    BY Headed, ToSetOfTail, <1>12 DEF Acknowledge
  <1>13. ASSUME Beat PROVE InHand'
    BY <1>13 DEF Beat
  <1>14. ASSUME BeatEnd PROVE InHand'
    BY <1>14 DEF BeatEnd
  <1>15. ASSUME Tick PROVE InHand'
    BY <1>15 DEF Tick
  <1>16. ASSUME Drop PROVE InHand'
    BY <1>16 DEF Drop
  <1>17. ASSUME BrokerRestart PROVE InHand'
    BY ToSetOfEmpty, <1>17 DEF BrokerRestart
  <1>18. ASSUME DiskFails PROVE InHand'
    BY <1>18 DEF DiskFails
  <1>19. ASSUME Die PROVE InHand'
    BY <1>19 DEF Die
  <1>20. ASSUME NEW m \in Uplinks, Publish(m) PROVE InHand'
    BY ToSetOfAppend, <1>20 DEF Publish
  <1>21. ASSUME UNCHANGED vars PROVE InHand'
    BY <1>21 DEF vars
  <1> HIDE DEF InHand
  <1>22. QED
    BY <1>1, <1>2, <1>3, <1>4, <1>5, <1>6, <1>7, <1>8, <1>9, <1>10, <1>11, <1>12, <1>13, <1>14, <1>15, <1>16, <1>17, <1>18, <1>19, <1>20, <1>21
       DEF Next, Connection, Handle

LEMMA NoSilentLossNext ==
  ASSUME WindowAssumption, NoneAssumption, TypeOK, Values, Threads, InHand, NoSilentLoss,
         [Next]_vars
  PROVE  NoSilentLoss'
  <1> USE DEF NoSilentLoss, Values, WindowAssumption, broker, thread, health, history
  <1>1. ASSUME Start PROVE NoSilentLoss'
    BY <1>1 DEF Start
  <1>2. ASSUME Connect PROVE NoSilentLoss'
    BY <1>2 DEF Connect
  <1>3. ASSUME Refused PROVE NoSilentLoss'
    BY <1>3 DEF Refused
  <1>4. ASSUME Subscribed PROVE NoSilentLoss'
    BY <1>4 DEF Subscribed
  <1>5. ASSUME Disconnected PROVE NoSilentLoss'
    BY <1>5 DEF Disconnected
  <1>6. ASSUME Shutdown PROVE NoSilentLoss'
    BY <1>6 DEF Shutdown
  <1>7. ASSUME Exit PROVE NoSilentLoss'
    BY <1>7 DEF Exit
  <1>8. ASSUME Deliver PROVE NoSilentLoss'
    BY <1>8 DEF Deliver, Again
  <1>9. ASSUME Stores PROVE NoSilentLoss'
    BY <1>9 DEF Stores
  <1>10. ASSUME Drops PROVE NoSilentLoss'
    BY <1>10 DEF Drops
  <1>11. ASSUME Fails PROVE NoSilentLoss'
    BY <1>11 DEF Fails
  <1>12. ASSUME Acknowledge PROVE NoSilentLoss'
    BY Headed, ToSetOfTail, <1>12 DEF Acknowledge, InHand
  <1>13. ASSUME Beat PROVE NoSilentLoss'
    BY <1>13 DEF Beat
  <1>14. ASSUME BeatEnd PROVE NoSilentLoss'
    BY <1>14 DEF BeatEnd
  <1>15. ASSUME Tick PROVE NoSilentLoss'
    BY <1>15 DEF Tick
  <1>16. ASSUME Drop PROVE NoSilentLoss'
    BY <1>16 DEF Drop
  <1>17. ASSUME BrokerRestart PROVE NoSilentLoss'
    BY <1>17 DEF BrokerRestart
  <1>18. ASSUME DiskFails PROVE NoSilentLoss'
    BY <1>18 DEF DiskFails
  <1>19. ASSUME Die PROVE NoSilentLoss'
    BY <1>19 DEF Die
  <1>20. ASSUME NEW m \in Uplinks, Publish(m) PROVE NoSilentLoss'
    <2>1. ~session => excused' = excused \cup {m}
      BY <1>20 DEF Publish, Threads, Settled
    <2>2. session => ToSet(queue') = ToSet(queue) \cup {m}
      BY ToSetOfAppend, <1>20 DEF Publish
    <2>3. ~session => queue' = queue
      BY <1>20 DEF Publish
    <2>4. /\ published' = published \cup {m} /\ excused \subseteq excused'
          /\ stored' = stored /\ tries' = tries
      BY <1>20 DEF Publish
    <2>5. QED
      BY <2>1, <2>2, <2>3, <2>4
  <1>21. ASSUME UNCHANGED vars PROVE NoSilentLoss'
    BY <1>21 DEF vars
  <1> HIDE DEF NoSilentLoss
  <1>22. QED
    BY <1>1, <1>2, <1>3, <1>4, <1>5, <1>6, <1>7, <1>8, <1>9, <1>10, <1>11, <1>12, <1>13, <1>14, <1>15, <1>16, <1>17, <1>18, <1>19, <1>20, <1>21
       DEF Next, Connection, Handle

-----------------------------------------------------------------------------
(* The theorems *)

LEMMA InvInit ==
  ASSUME WindowAssumption, NoneAssumption
  PROVE  Init => IInv
  <1> SUFFICES ASSUME Init PROVE IInv
    OBVIOUS
  <1>1. TypeOK
    BY TypeInit
  <1>2. Threads /\ Prompt /\ Ages /\ Fresh /\ NoSilentLoss
    BY DEF Init, Threads, Prompt, Ages, Fresh, NoSilentLoss, Alive, Beats
  <1>3. InHand
    BY ToSetOfEmpty DEF Init, InHand
  <1>4. QED
    BY <1>1, <1>2, <1>3 DEF IInv

LEMMA InvNext ==
  ASSUME WindowAssumption, NoneAssumption
  PROVE  IInv /\ [Next]_vars => IInv'
  <1> SUFFICES ASSUME IInv, [Next]_vars PROVE IInv'
    OBVIOUS
  <1>1. Flags /\ Counts /\ Values
    BY TypeParts DEF IInv
  <1>2. TypeOK' /\ Threads' /\ InHand' /\ NoSilentLoss'
    BY <1>1, TypeNext, ThreadsNext, InHandNext, NoSilentLossNext DEF IInv
  <1>3. Prompt' /\ Ages' /\ Fresh'
    BY <1>1, PromptNext, AgesNext, FreshNext DEF IInv
  <1>4. QED
    BY <1>2, <1>3 DEF IInv

\* Every reachable state is well typed; in particular nothing is stored that no
\* device sent, and a process that ended holds no uplink.
THEOREM TypeCorrect ==
  ASSUME WindowAssumption, NoneAssumption
  PROVE  Spec => []TypeOK
  <1>1. IInv => TypeOK
    BY DEF IInv
  <1>2. QED
    BY <1>1, InvInit, InvNext, PTL DEF Spec

\* An uplink that the handlers can store waits at the broker or is stored,
\* whatever the order of deaths, drops and signals, unless a database failed it,
\* the broker forgot its sessions or nobody had subscribed yet (mqtt.py).
THEOREM UplinksKept ==
  ASSUME WindowAssumption, NoneAssumption
  PROVE  Spec => []NoSilentLoss
  <1>1. IInv => NoSilentLoss
    BY DEF IInv
  <1>2. QED
    BY <1>1, InvInit, InvNext, PTL DEF Spec

\* Two heartbeats after the connection came or went the container's health is
\* that of the connection, for every healthcheck window of at least two beats.
THEOREM HealthIsConnection ==
  ASSUME WindowAssumption, NoneAssumption
  PROVE  Spec => []HealthFollowsConnection
  <1>1. IInv => HealthFollowsConnection
    BY HealthHolds DEF IInv
  <1>2. QED
    BY <1>1, InvInit, InvNext, PTL DEF Spec

-----------------------------------------------------------------------------
(* The boot and the deploys: the invariant *)

\* The operator names the schema with the migrations on, and nothing is stamped before.
Turned == (reconcile # None => gate) /\ (version # None => gate)

\* Until the stamp, the schema that was named is the one that is there, that of the image,
\* of the next image and of every container, and no container is recreated.
Named ==
    ~mounted /\ reconcile # None /\ version = None =>
       /\ schema = 1 .. image /\ reconcile \in {image, AtHead} /\ stage # "up"
       /\ stage = "build" => code = image
       /\ \A c \in Containers : running[c] = image

\* From then on nothing runs, or is about to, that knows more than the revision.
Stamped ==
    ~mounted /\ version # None /\ ~restamped =>
       /\ schema = 1 .. version
       /\ \A c \in Containers : running[c] <= version
       /\ stage = "up" => image <= version

DeployInv == D!TypeOK /\ Turned /\ Named /\ Stamped

LEMMA DeployInit == D!Init => DeployInv
  <1> SUFFICES ASSUME D!Init PROVE DeployInv
    OBVIOUS
  <1>1. 1 \in D!Revisions /\ 1 \in 1 .. AlembicHead + 1
    BY RevisionsAssumption DEF D!RevisionsAssumption, D!Revisions
  <1>2. D!TypeOK
    BY <1>1, ContainersAssumption
    DEF D!Init, D!TypeOK, D!ContainersAssumption, D!Services
  <1>3. QED
    BY <1>2 DEF D!Init, DeployInv, Turned, Named, Stamped

\* What a program starts from is what its container ran, or the mounted checkout.
LEMMA CodeIs ==
  ASSUME D!TypeOK, NEW c \in Containers
  PROVE  D!Code(c) \in D!Revisions /\ (~mounted => D!Code(c) = running[c])
  BY DEF D!TypeOK, D!Code

LEMMA DeployTypes == DeployInv /\ [D!Next]_(D!vars) => D!TypeOK'
  <1> SUFFICES ASSUME DeployInv, D!Next PROVE D!TypeOK'
    BY DEF DeployInv, D!TypeOK, D!vars, D!site, D!schema, D!boxes
  <1> USE DEF D!Goto, D!Fault, D!site, D!schema, D!boxes
  <1>1. D!TypeOK /\ AlembicHead \in Nat \ {0} /\ Web \in Containers
    BY RevisionsAssumption, ContainersAssumption
    DEF DeployInv, D!RevisionsAssumption, D!ContainersAssumption
  <1>2. Waits \in [Containers -> SUBSET D!Services]
    BY ContainersAssumption DEF D!ContainersAssumption, D!Services
  <1>3. CASE \E c \in Containers : D!Wait(c) \/ D!TimeOut(c) \/ D!Exit(c)
    BY <1>1, <1>3 DEF D!Wait, D!TimeOut, D!Exit, D!TypeOK
  <1>4. CASE \E c \in Containers : D!Waited(c)
    BY <1>1, <1>4, CodeIs DEF D!Waited, D!TypeOK
  <1>5. CASE \E c \in Containers : D!Restart(c) \/ D!Recreate(c)
    BY <1>1, <1>2, <1>5 DEF D!Restart, D!Recreate, D!TypeOK
  <1>6. CASE D!Ensure \/ D!Ensure_done
    <2>1. script' \in 1 .. AlembicHead + 1
      BY <1>1, <1>6 DEF D!Ensure, D!Ensure_done, D!TypeOK
    <2>2. schema' \subseteq D!Revisions
      <3>1. script \in Nat /\ 1 <= script /\ schema \subseteq D!Revisions
        BY <1>1 DEF D!TypeOK
      <3>2. script <= AlembicHead => script \in D!Revisions
        BY <1>1, <3>1 DEF D!Revisions
      <3>3. QED
        BY <1>6, <3>1, <3>2 DEF D!Ensure, D!Ensure_done
    <2>3. QED
      BY <1>1, <1>6, <2>1, <2>2 DEF D!Ensure, D!Ensure_done, D!TypeOK
  <1>7. CASE D!CollectStatic
    BY <1>1, <1>7, CodeIs DEF D!CollectStatic, D!TypeOK
  <1>8. CASE \E s \in D!Services : D!Outage(s) \/ D!Recover(s)
    BY <1>1, <1>8 DEF D!Outage, D!Recover, D!TypeOK
  <1>9. CASE (\E r \in D!Revisions : D!GitReset(r)) \/ D!Build \/ D!Abort
    BY <1>1, <1>9 DEF D!GitReset, D!Build, D!Abort, D!TypeOK
  <1>10. CASE D!MigrateSkips \/ D!Upgrade \/ D!Stamp \/ D!MigrateFails
    <2>2. D!Stamp => D!StampRev \in D!Revisions
      BY <1>1 DEF D!Stamp, D!Stampable, D!StampRev, D!TypeOK
    <2>3. CASE D!Stamp
      BY <1>1, <2>2, <2>3 DEF D!Stamp, D!Migrated, D!TypeOK
    <2>4. CASE D!MigrateSkips \/ D!Upgrade \/ D!MigrateFails
      BY <1>1, <2>4 DEF D!MigrateSkips, D!Upgrade, D!MigrateFails, D!Migrated, D!Pending,
         D!TypeOK
    <2>5. QED
      BY <1>10, <2>3, <2>4
  <1>11. CASE D!Enable \/ D!Unset
    BY <1>1, <1>11 DEF D!Enable, D!Unset, D!TypeOK
  <1>12. QED
    BY <1>3, <1>4, <1>5, <1>6, <1>7, <1>8, <1>9, <1>10, <1>11 DEF D!Next

LEMMA DeployStep == DeployInv /\ [D!Next]_(D!vars) => DeployInv'
  <1> SUFFICES ASSUME DeployInv, D!Next PROVE (Turned /\ Named /\ Stamped)'
    <2>1. CASE UNCHANGED D!vars
      BY <2>1 DEF DeployInv, D!TypeOK, Turned, Named, Stamped, D!vars, D!site, D!schema, D!boxes
    <2>2. QED
      BY <2>1, DeployTypes DEF DeployInv
  <1> USE DEF D!Goto, D!Fault, D!site, D!schema, D!boxes
  <1>1. /\ D!TypeOK /\ AlembicHead \in Nat \ {0} /\ Web \in Containers /\ None \notin Int
        /\ D!Revisions \subseteq Nat
    BY RevisionsAssumption, ContainersAssumption
    DEF DeployInv, D!RevisionsAssumption, D!ContainersAssumption, D!Revisions
  \* Neither a container that goes on or down nor an outage changes any of this.
  <1>2. CASE UNCHANGED <<mounted, gate, reconcile, code, image, schema, version, running, stage,
                        restamped>>
    BY <1>2 DEF DeployInv, Turned, Named, Stamped
  <1>3. CASE \E c \in Containers : D!Waited(c)
    <2>1. PICK c \in Containers : D!Waited(c)
      BY <1>3
    <2>2. ~mounted => running' = running
      BY <1>1, <2>1, CodeIs DEF D!Waited, D!TypeOK
    <2>3. QED
      BY <2>1, <2>2 DEF D!Waited, DeployInv, Turned, Named, Stamped
  <1>4. CASE D!CollectStatic
    <2>1. ~mounted => running' = running
      BY <1>1, <1>4, CodeIs DEF D!CollectStatic, D!TypeOK
    <2>2. QED
      BY <1>4, <2>1 DEF D!CollectStatic, DeployInv, Turned, Named, Stamped
  \* A script of a container that knows no more than the revision adds nothing.
  <1>5. CASE D!Ensure
    <2>1. CASE UNCHANGED schema
      BY <1>5, <2>1 DEF D!Ensure, DeployInv, Turned, Named, Stamped
    <2>2. CASE schema' = schema \cup {script} /\ script <= D!Code(Web)
      <3>1. ~mounted => script \in Nat /\ 1 <= script /\ script <= running[Web]
        BY <1>1, <2>2, CodeIs DEF D!TypeOK
      <3>2. Named'
        BY <1>1, <1>5, <2>2, <3>1 DEF D!Ensure, DeployInv, Named, D!TypeOK
      <3>3. Stamped'
        <4> SUFFICES ASSUME ~mounted, version # None, ~restamped PROVE Stamped'
          BY <1>5 DEF D!Ensure, Stamped
        <4>1. /\ schema = 1 .. version /\ \A c \in Containers : running[c] <= version
              /\ stage = "up" => image <= version
          BY DEF DeployInv, Stamped
        <4>2. version \in Nat /\ running[Web] \in Nat
          BY <1>1 DEF D!TypeOK
        <4>3. schema' = schema
          BY <1>1, <2>2, <3>1, <4>1, <4>2
        <4>4. QED
          BY <1>5, <4>1, <4>3 DEF D!Ensure, Stamped
      <3>4. QED
        BY <1>5, <3>2, <3>3 DEF D!Ensure, DeployInv, Turned
    <2>3. QED
      BY <1>5, <2>1, <2>2 DEF D!Ensure
  <1>6. CASE \E c \in Containers : D!Recreate(c)
    <2>1. PICK c \in Containers : D!Recreate(c)
      BY <1>6
    <2>2. ~mounted => ~(reconcile # None /\ version = None)
      BY <2>1 DEF D!Recreate, DeployInv, Named
    <2>3. ~mounted /\ version # None /\ ~restamped => image <= version
      BY <2>1 DEF D!Recreate, DeployInv, Stamped
    <2>4. Stamped'
      BY <1>1, <2>1, <2>3 DEF D!Recreate, DeployInv, Stamped, D!TypeOK
    <2>5. QED
      BY <2>1, <2>2, <2>4 DEF D!Recreate, DeployInv, Turned, Named
  <1>7. CASE \E r \in D!Revisions : D!GitReset(r)
    BY <1>1, <1>7 DEF D!GitReset, DeployInv, Turned, Named, Stamped
  <1>8. CASE D!Build
    BY <1>8 DEF D!Build, DeployInv, Turned, Named, Stamped
  <1>9. CASE D!Abort \/ D!MigrateFails
    BY <1>9 DEF D!Abort, D!MigrateFails, DeployInv, Turned, Named, Stamped
  \* With the migrations off nothing has been named or stamped.
  <1>10. CASE D!MigrateSkips
    BY <1>10 DEF D!MigrateSkips, D!Migrated, DeployInv, Turned, Named, Stamped
  <1>11. CASE D!Upgrade
    <2>1. version \in Nat /\ image \in Nat /\ version <= image /\ image \in D!Revisions
      BY <1>1, <1>11 DEF D!Upgrade, D!Upgradable, D!TypeOK
    <2>2. ~mounted /\ ~restamped => schema' = 1 .. image
      <3>1. D!Pending = {r \in D!Revisions : version < r /\ r <= image}
        BY <1>11 DEF D!Upgrade, D!Upgradable, D!Pending
      <3>2. D!Pending = version + 1 .. image
        BY <1>1, <2>1, <3>1 DEF D!Revisions
      <3>3. ~mounted /\ ~restamped => schema = 1 .. version
        BY <1>11 DEF D!Upgrade, D!Upgradable, DeployInv, Stamped
      <3>4. QED
        BY <1>1, <1>11, <2>1, <3>2, <3>3 DEF D!Upgrade, D!TypeOK, D!Revisions
    <2>3. Stamped'
      <3>1. ~mounted /\ ~restamped => \A c \in Containers : running[c] <= image
        <4> SUFFICES ASSUME ~mounted, ~restamped, NEW c \in Containers PROVE running[c] <= image
          OBVIOUS
        <4>1. version # None /\ running[c] <= version
          BY <1>11 DEF D!Upgrade, D!Upgradable, DeployInv, Stamped
        <4>2. running[c] \in Nat
          BY <1>1 DEF D!TypeOK
        <4>3. QED
          BY <2>1, <4>1, <4>2
      <3>2. QED
        BY <1>11, <2>1, <2>2, <3>1 DEF D!Upgrade, Stamped
    <2>4. QED
      BY <1>1, <1>11, <2>1, <2>3 DEF D!Upgrade, D!Upgradable, DeployInv, Turned, Named
  \* The first stamp is of the schema that is there; another is harmless, or remembered.
  <1>12. CASE D!Stamp
    <2>1. /\ version' = D!StampRev /\ D!StampRev # None /\ stage = "migrate" /\ stage' = "up" /\ gate
          /\ UNCHANGED <<mounted, gate, reconcile, code, image, schema, running>>
          /\ restamped' = (restamped \/ (version # None /\ {image, D!StampRev} # {version}))
      BY <1>12 DEF D!Stamp, D!Stampable, D!Migrated
    <2>2. Turned' /\ Named'
      BY <2>1 DEF DeployInv, Turned, Named
    <2>3. CASE version = None
      <3>1. reconcile # None
        BY <2>1, <1>1, RevisionsAssumption DEF D!StampRev, D!RevisionsAssumption
      <3>2. ~mounted => D!StampRev = image
        BY <2>3, <3>1 DEF D!StampRev, DeployInv, Named
      <3>3. image \in Nat
        BY <1>1 DEF D!TypeOK
      <3>4. Stamped'
        BY <2>1, <2>3, <3>1, <3>2, <3>3 DEF DeployInv, Named, Stamped
      <3>5. QED
        BY <2>2, <3>4
    <2>4. CASE version # None /\ {image, D!StampRev} # {version}
      BY <2>1, <2>2, <2>4 DEF Stamped
    <2>5. CASE version # None /\ {image, D!StampRev} = {version}
      <3>1. image = version /\ D!StampRev = version /\ version \in Nat
        BY <1>1, <2>5 DEF D!TypeOK
      <3>2. restamped' = restamped
        BY <1>1, <2>1, <2>5 DEF D!TypeOK
      <3>3. Stamped'
        BY <2>1, <2>5, <3>1, <3>2 DEF DeployInv, Stamped
      <3>4. QED
        BY <2>2, <3>3
    <2>6. QED
      BY <2>3, <2>4, <2>5
  <1>13. CASE D!Enable
    <2>1. version = None /\ reconcile = None /\ stage = "idle"
      BY <1>13 DEF D!Enable, DeployInv, Turned
    <2>2. QED
      BY <1>1, <1>13, <2>1 DEF D!Enable, DeployInv, Turned, Named, Stamped, D!TypeOK
  <1>14. CASE D!Unset
    BY <1>14 DEF D!Unset, DeployInv, Turned, Named, Stamped
  <1>15. QED
    BY <1>2, <1>3, <1>4, <1>5, <1>6, <1>7, <1>8, <1>9, <1>10, <1>11, <1>12, <1>13,
       <1>14
    DEF D!Next, D!Wait, D!TimeOut, D!Exit, D!Restart, D!Ensure_done, D!Outage, D!Recover

LEMMA Deploys == D!Spec => []DeployInv
  BY DeployInit, DeployStep, PTL DEF D!Spec

\* From the moment alembic_version is stamped, the tables that are there are those of its
\* revision, whatever was deployed, reverted, aborted, restarted or killed since, unless the
\* checkout is mounted over the image, or a failed inspection has had the stamp replaced
\* while ALEMBIC_STAMP_REV was still set: the scripts of docker-entrypoint.sh never get ahead.
THEOREM RevisionIsTruth == D!Spec => []VersionIsTruth
  <1>1. DeployInv => VersionIsTruth
    BY DEF DeployInv, Stamped, VersionIsTruth, D!VersionIsTruth
  <1>2. QED
    BY <1>1, Deploys, PTL

-----------------------------------------------------------------------------
(* The scripts of a boot: the invariant *)

Steps(s) == DOMAIN E!Scripts[s]

\* Every script is a sequence of transactions, and has one at least.
LEMMA ScriptsAre ==
  /\ DOMAIN E!Scripts = 1 .. Len(E!Scripts) /\ Len(E!Scripts) = 9
  /\ \A s \in 1 .. Len(E!Scripts) :
        /\ Len(E!Scripts[s]) \in Nat \ {0} /\ Steps(s) = 1 .. Len(E!Scripts[s])
  <1> DEFINE Whole(q) == Len(q) \in Nat \ {0} /\ DOMAIN q = 1 .. Len(q)
  <1>1. DOMAIN E!Scripts = 1 .. Len(E!Scripts) /\ Len(E!Scripts) = 9
    BY DEF E!Scripts
  <1>2. \A x, y : Whole(<<x>>) /\ Whole(<<x, y>>)
    OBVIOUS
  <1>3. /\ Whole(E!ensure_assistant_tables) /\ Whole(E!ensure_technician_tables)
        /\ Whole(E!ensure_admin_tables) /\ Whole(E!ensure_device_tables)
        /\ Whole(E!ensure_irrigation_tables) /\ Whole(E!ensure_notification_zone_tables)
        /\ Whole(E!ensure_sector_tables) /\ Whole(E!ensure_sensor_health_tables)
        /\ Whole(E!ensure_monitoring_tables)
    <2> HIDE DEF Whole
    <2>1. QED
      BY <1>2 DEF E!ensure_assistant_tables, E!ensure_technician_tables,
         E!ensure_admin_tables, E!ensure_device_tables, E!ensure_irrigation_tables,
         E!ensure_notification_zone_tables, E!ensure_sector_tables,
         E!ensure_sensor_health_tables, E!ensure_monitoring_tables
  <1>4. ASSUME NEW s \in 1 .. 9 PROVE Whole(E!Scripts[s])
    <2> HIDE DEF Whole
    <2>1. s = 1 \/ s = 2 \/ s = 3 \/ s = 4 \/ s = 5 \/ s = 6 \/ s = 7 \/ s = 8 \/ s = 9
      OBVIOUS
    <2>2. QED
      BY <1>3, <2>1 DEF E!Scripts
  <1>5. QED
    BY <1>1, <1>4 DEF Steps

\* What the scripts before the one that runs create is there, but for those that failed;
\* what the transactions before the one that is next create is; and what the last look
\* found has not gone since.
Behind == \A s \in 1 .. Len(E!Scripts) : s < scriptE => E!Made(s) \subseteq db \/ s \in skipped
Begun ==
    scriptE <= Len(E!Scripts) =>
       /\ txn \in Steps(scriptE)
       /\ \A t \in Steps(scriptE) : t < txn => E!Scripts[scriptE][t].makes \subseteq db
Found  == existing # None => existing \subseteq db
Placed ==
    /\ scriptE \in 1 .. Len(E!Scripts) + 1
    /\ bootE = "serving" => scriptE = Len(E!Scripts) + 1

ScriptsInv == Placed /\ Behind /\ Begun /\ Found

LEMMA FirstStep == 1 \in Steps(1) /\ \A s \in 1 .. Len(E!Scripts) : 1 \in Steps(s)
  <1>1. ASSUME NEW s \in 1 .. Len(E!Scripts) PROVE 1 \in Steps(s)
    <2>1. Len(E!Scripts[s]) \in Nat \ {0} /\ Steps(s) = 1 .. Len(E!Scripts[s])
      BY ScriptsAre
    <2>2. QED
      BY <2>1
  <1>2. QED
    BY <1>1, ScriptsAre

\* Whatever only adds to the database, and leaves the boot alone, keeps it all.
LEMMA OnlyAdds ==
  ASSUME ScriptsInv, db \subseteq db', UNCHANGED <<bootE, scriptE, txn, existing, skipped>>
  PROVE  ScriptsInv'
  <1>1. Placed' /\ Found'
    BY DEF ScriptsInv, Placed, Found
  <1>2. Behind'
    BY DEF ScriptsInv, Behind
  <1>3. Begun'
    BY DEF ScriptsInv, Begun, Steps
  <1>4. QED
    BY <1>1, <1>2, <1>3 DEF ScriptsInv

\* The next script, with this one done or skipped.
LEMMA ScriptDone ==
  ASSUME ScriptsInv, E!Running, E!NextScript, db \subseteq db', skipped \subseteq skipped',
         E!Made(scriptE) \subseteq db' \/ scriptE \in skipped'
  PROVE  ScriptsInv'
  <1>1. scriptE \in 1 .. Len(E!Scripts) /\ scriptE' = scriptE + 1
    BY ScriptsAre DEF ScriptsInv, Placed, E!Running, E!NextScript
  <1>2. Placed'
    BY <1>1, ScriptsAre DEF ScriptsInv, Placed, E!Running, E!NextScript
  <1>3. Behind'
    <2> SUFFICES ASSUME NEW s \in 1 .. Len(E!Scripts), s < scriptE'
                 PROVE  E!Made(s) \subseteq db' \/ s \in skipped'
      BY DEF Behind
    <2>1. s < scriptE \/ s = scriptE
      BY <1>1, ScriptsAre
    <2>2. QED
      BY <2>1 DEF ScriptsInv, Behind
  <1>4. Begun'
    <2> SUFFICES ASSUME scriptE' <= Len(E!Scripts) PROVE Begun'
      BY DEF Begun
    <2>1. scriptE' \in 1 .. Len(E!Scripts) /\ txn' = 1
      BY <1>1, ScriptsAre DEF E!NextScript
    <2>2. Steps(scriptE') = 1 .. Len(E!Scripts[scriptE']) /\ Len(E!Scripts[scriptE']) \in Nat \ {0}
      BY <2>1, ScriptsAre
    <2>3. \A t \in Steps(scriptE') : ~(t < 1)
      BY <2>2
    <2>4. QED
      BY <2>1, <2>2, <2>3 DEF Begun, Steps
  <1>5. Found'
    BY DEF Found, E!NextScript
  <1>6. QED
    BY <1>2, <1>3, <1>4, <1>5 DEF ScriptsInv

\* A transaction leaves all its tables there: those it found, which nobody drops, and the
\* others, which it creates.
LEMMA TransactionMakes ==
  ASSUME ScriptsInv, E!create_model
  PROVE  /\ db \subseteq db' /\ E!Txn.makes \subseteq db'
         /\ \A t \in Steps(scriptE) : t <= txn => E!Scripts[scriptE][t].makes \subseteq db'
  <1>1. db' = db \cup UNION {E!Columns(t) : t \in E!Missing} /\ existing \subseteq db
    BY DEF ScriptsInv, Found, E!create_model
  <1>2. \A t : t \in E!Columns(t)
    BY DEF E!Columns, E!Device
  <1>3. E!Missing \subseteq db'
    BY <1>1, <1>2
  <1>4. E!Txn.makes \subseteq db'
    BY <1>1, <1>3 DEF E!Missing
  <1>5. txn \in Nat /\ Steps(scriptE) \subseteq Nat
    <2>1. scriptE \in 1 .. Len(E!Scripts) /\ txn \in Steps(scriptE)
      BY ScriptsAre DEF ScriptsInv, Placed, Begun, E!create_model, E!Running
    <2>2. Len(E!Scripts[scriptE]) \in Nat /\ Steps(scriptE) = 1 .. Len(E!Scripts[scriptE])
      BY <2>1, ScriptsAre
    <2>3. QED
      BY <2>1, <2>2
  <1>6. \A t \in Steps(scriptE) : t < txn => E!Scripts[scriptE][t].makes \subseteq db'
    BY <1>1 DEF ScriptsInv, Begun, E!create_model, E!Running
  <1>7. QED
    BY <1>1, <1>4, <1>5, <1>6 DEF E!Txn

LEMMA ScriptsInit == E!Init => ScriptsInv
  <1> SUFFICES ASSUME E!Init PROVE ScriptsInv
    OBVIOUS
  <1>1. scriptE = 1 /\ txn = 1 /\ existing = None /\ bootE = "off"
    BY DEF E!Init
  <1>2. Begun
    <2>1. \A t \in Steps(1) : ~(t < 1)
      BY ScriptsAre
    <2>2. QED
      BY <1>1, <2>1, FirstStep DEF Begun, Steps
  <1>3. QED
    BY <1>1, <1>2, ScriptsAre DEF ScriptsInv, Placed, Behind, Found

LEMMA ScriptsStep == ScriptsInv /\ [E!Next]_(E!vars) => ScriptsInv'
  <1> SUFFICES ASSUME ScriptsInv, [E!Next]_(E!vars) PROVE ScriptsInv'
    OBVIOUS
  <1>1. CASE E!Start \/ E!Stop
    <2>1. /\ scriptE' = 1 /\ txn' = 1 /\ existing' = None
          /\ bootE' \in {"ensure", "off"}
      BY <1>1 DEF E!Start, E!Stop
    <2>2. \A t \in Steps(1) : ~(t < 1)
      BY ScriptsAre
    <2>3. Begun'
      BY <2>1, <2>2, FirstStep DEF Begun, Steps
    <2>4. QED
      BY <2>1, <2>3, ScriptsAre DEF ScriptsInv, Placed, Behind, Found
  <1>2. CASE E!introspect
    BY <1>2 DEF E!introspect, ScriptsInv, Placed, Behind, Begun, Found, Steps
  <1>3. CASE E!create_model
    <2>1. /\ db \subseteq db' /\ skipped' = skipped /\ E!Running
          /\ \A t \in Steps(scriptE) : t <= txn => E!Scripts[scriptE][t].makes \subseteq db'
      BY <1>3, TransactionMakes DEF E!create_model
    <2>2. /\ scriptE \in 1 .. Len(E!Scripts) /\ txn \in Steps(scriptE)
          /\ Steps(scriptE) = 1 .. Len(E!Scripts[scriptE]) /\ Len(E!Scripts[scriptE]) \in Nat
      BY <2>1, ScriptsAre DEF ScriptsInv, Placed, Begun, E!Running
    <2>3. CASE txn < Len(E!Scripts[scriptE])
      <3>1. /\ txn' = txn + 1 /\ UNCHANGED <<bootE, scriptE>>
            /\ existing' \in {None, existing}
        BY <1>3, <2>3 DEF E!create_model
      <3>2. Begun'
        BY <2>1, <2>2, <2>3, <3>1 DEF Begun, Steps
      <3>3. QED
        BY <2>1, <3>1, <3>2 DEF ScriptsInv, Placed, Behind, Found
    <2>4. CASE ~(txn < Len(E!Scripts[scriptE]))
      <3>1. E!NextScript
        BY <1>3, <2>4 DEF E!create_model
      <3>2. \A t \in Steps(scriptE) : E!Scripts[scriptE][t].makes \subseteq db'
        BY <2>1, <2>2, <2>4
      <3>3. E!Made(scriptE) \subseteq db'
        BY <3>2 DEF E!Made, Steps
      <3>4. QED
        BY <2>1, <3>1, <3>3, ScriptDone
    <2>5. QED
      BY <2>3, <2>4
  <1>4. CASE E!Fail
    BY <1>4, ScriptDone DEF E!Fail
  <1>5. CASE (\E m \in Held : E!Migrate(m)) \/ UNCHANGED E!vars
    BY <1>5, OnlyAdds DEF E!Migrate, E!vars, E!web
  <1>6. QED
    BY <1>1, <1>2, <1>3, <1>4, <1>5 DEF E!Next

LEMMA Boots == E!Spec => []ScriptsInv
  BY ScriptsInit, ScriptsStep, PTL DEF E!Spec

\* A container that is up has the tables its code knows: those of the migrations, with the
\* database stamped, not stamped anew by mistake, and the checkout not mounted over the
\* image, and for `web` every table
\* its scripts create, but for what a script that failed in this boot has left.
THEOREM NoBootIsUnmigrated == D!Spec /\ E!Spec => []BootsMigrated
  <1>1. DeployInv => D!BootsMigrated
    <2> SUFFICES ASSUME DeployInv, gate, version # None, ~mounted, ~restamped, NEW c \in Containers
                 PROVE  1 .. running[c] \subseteq schema
      BY DEF D!BootsMigrated
    <2>1. schema = 1 .. version /\ running[c] <= version
      BY DEF DeployInv, Stamped
    <2>2. running[c] \in Int /\ version \in Int
      BY RevisionsAssumption DEF DeployInv, D!TypeOK, D!Revisions, D!RevisionsAssumption
    <2>3. QED
      BY <2>1, <2>2
  <1>2. ScriptsInv => E!ServesWithItsTables
    <2> SUFFICES ASSUME ScriptsInv, bootE = "serving",
                        NEW t \in E!Ensured, t \notin UNION {E!Made(s) : s \in skipped}
                 PROVE  t \in db
      BY DEF E!ServesWithItsTables
    <2>1. PICK s \in 1 .. Len(E!Scripts) : t \in E!Made(s)
      BY ScriptsAre DEF E!Ensured
    <2>2. s \notin skipped /\ s < scriptE
      BY <2>1, ScriptsAre DEF ScriptsInv, Placed
    <2>3. QED
      BY <2>1, <2>2 DEF ScriptsInv, Behind
  <1>3. QED
    BY <1>1, <1>2, Deploys, Boots, PTL DEF BootsMigrated

=============================================================================
