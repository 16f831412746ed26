--------------------------- MODULE MCAlertIngest ---------------------------
(* Small instances of AlertIngest for TLC. *)
EXTENDS AlertIngest, TLC

CONSTANTS u1, u2, moisture, salinity, north, south, group

Rule(key, zone, nz, channels, grace) ==
    [key |-> key, zone |-> zone, nz |-> nz, fires |-> {"high"},
     is_active |-> TRUE, channels |-> channels, grace |-> grace]
Silenced(r) == [r EXCEPT !.is_active = FALSE]
Reads(key, value) == [key |-> key, zone |-> north, value |-> value]

\* One moisture alert of the farm zone and one of a notification zone that the
\* farm zone feeds: a burst of moisture readings makes digests.
DigestRules ==
    [a \in Alerts |->
       IF a = 1 THEN Rule(moisture, north, None, {"email", "sms"}, 1)
       ELSE Rule(moisture, None, group, {"email"}, 1)]
\* One user-wide alert per key: two uplinks can claim them in either order.
CrossRules ==
    [a \in Alerts |->
       IF a = 1 THEN Rule(moisture, None, None, {"email"}, 1)
       ELSE Rule(salinity, north, None, {"whatsapp", "sms"}, 1)]

DigestInitial == {DigestRules}
CrossInitial  == {CrossRules}
\* The owner silences the first alert and switches it on again.
DigestEdits == [a \in Alerts |->
                  IF a = 1 THEN {DigestRules[1], Silenced(DigestRules[1])}
                  ELSE {}]
CrossEdits  == [a \in Alerts |-> {}]
DigestSet == {DigestRules[a] : a \in Alerts} \cup {Silenced(DigestRules[1])}
CrossSet  == {CrossRules[a] : a \in Alerts}

Assignments == {[nz |-> group, key |-> moisture, source |-> None],
                [nz |-> group, key |-> salinity, source |-> south]}

BurstPayload == (u1 :> <<Reads(moisture, "high")>>) @@
                (u2 :> <<Reads(moisture, "high")>>)
CrossPayload == (u1 :> <<Reads(moisture, "high"), Reads(salinity, "high"),
                         Reads(moisture, "low")>>) @@
                (u2 :> <<Reads(salinity, "high"), Reads(moisture, "high")>>)
\* The second value of u1 is not a number.
BadPayload   == (u1 :> <<Reads(moisture, "high"), Reads(salinity, "bad")>>) @@
                (u2 :> <<Reads(moisture, "low")>>)
OneTick == [a \in Alerts |-> 1]

\* A burst of one key: its claims cannot cross and no value is bad, so that nothing
\* deadlocks or fails; what does is in MCServices.
BurstNext ==
    \/ \E u \in Uplinks : Begin(u)
    \/ \E u \in Uplinks : Write(u)
    \/ \E u \in Uplinks : Match(u)
    \/ \E u \in Uplinks : ClaimLost(u)
    \/ \E u \in Uplinks : ClaimWon(u)
    \/ \E u \in Uplinks : ClaimWonPushRefused(u)
    \/ \E u \in Uplinks : PushMail(u)
    \/ \E u \in Uplinks : PushMailRefused(u)
    \/ \E u \in Uplinks : Commit(u)
    \/ \E u \in Uplinks : Crash(u)
    \/ \E a \in Alerts, r \in UNION {Edits[b] : b \in Alerts} : r \in Edits[a] /\ EditRule(a, r)
    \/ \E a \in Alerts : DeleteRule(a)
    \/ Tick
BurstSpec == Init /\ [][BurstNext]_vars
=============================================================================
