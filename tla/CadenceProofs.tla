--------------------------- MODULE CadenceProofs ---------------------------
(***************************************************************************)
(* The cadence jobs, for any number of workers, items and runs.  What      *)
(* keeps two messages of a job about an item apart is that a claim covers  *)
(* them: the committed stamp or the row that an open run holds is not      *)
(* older than any message that counts, and giving a claim back restores    *)
(* a stamp that covers all the earlier ones.                               *)
(***************************************************************************)
EXTENDS MCCadenceItems, WellFoundedInduction, TLAPS

Flying == {"send", "sent", "unsent"}

\* The worker has claimed the item and the outcome is open.
Flies(w, j, i) == pc[w] \in Flying /\ job[w] = j /\ Head(w) = i

\* The messages that count: not of a run that died with its claims, nor of a
\* provider whose answer was lost.
Live(m) == /\ WholeRun(m.job) => m.run \notin voided
           /\ Restores(m.job) => m.sure
About(j, i) == {m \in mails : m.job = j /\ m.item = i /\ Live(m)}

\* A stamp that is not older than an instant; two instants a window apart.
Covers(s, at)   == s # Never /\ at <= s
Spread(j, a, b) == Due(j, a, b) \/ Due(j, b, a)

\* A stamp that somebody was told of, that a dead worker left, or that another
\* run had in flight when one read it.
Explained(j, i, s) ==
    \/ s = Never \/ <<j, i, s>> \in orphans \/ <<j, i, s>> \in glimpsed
    \/ \E m \in mails : m.job = j /\ m.item = i /\ m.at = s

-----------------------------------------------------------------------------
(* The invariant *)

\* No run lasts longer than MaxRun, and a claim is not in the future.
Clocked(w) ==
    /\ pc[w] # "idle" => job[w] \in Jobs /\ ref[w] <= now /\ now <= ref[w] + MaxRun
    /\ pc[w] = "claim" => todo[w] # {} /\ job[w] = "proactive"
    /\ pc[w] \in Flying =>
          /\ todo[w] # {} /\ ref[w] <= claim[w] /\ claim[w] <= now
          /\ StampsRunStart(job[w]) => claim[w] = ref[w]

\* A row lock of a run in one transaction: the committed stamp is still the one
\* that the run read, and what is held for it covers the messages.
Holds(w, i) ==
    held[w][i] # None =>
       /\ pc[w] # "idle" /\ job[w] = "health"
       /\ i \in todo[w] => pc[w] \in Flying /\ i = Head(w)
       /\ stamp["health"][i] = seen[w][i]
       /\ \/ held[w][i] = seen[w][i]
          \/ held[w][i] = ref[w] /\ Due("health", seen[w][i], ref[w])
       /\ i \notin todo[w] => Explained("health", i, held[w][i])
       /\ \A m \in About("health", i) : Covers(held[w][i], m.at)
OneHolder ==
    \A v, w \in Workers, i \in Items :
        held[v][i] # None /\ held[w][i] # None => v = w

\* What a run read is the committed stamp, or another run has claimed the item
\* since, too late for this one.
Fresh(w, i) ==
    pc[w] # "idle" /\ job[w] = "health" =>
        \/ stamp["health"][i] = seen[w][i]
        \/ ~Due("health", stamp["health"][i], ref[w])

\* A claim in flight: what it wrote, and what a failed send gives back.
Flight(w, j, i) ==
    Flies(w, j, i) =>
       /\ IF WholeRun(j) THEN held[w][i] = claim[w]
          ELSE Covers(stamp[j][i], claim[w])
       /\ Restores(j) => Explained(j, i, seen[w][i])
       /\ j = "proactive" => stamp[j][i] = claim[w]
       /\ Restores(j) /\ pc[w] # "sent" =>
             \A m \in About(j, i) : Covers(seen[w][i], m.at)
       /\ pc[w] = "sent" =>
             \E m \in mails : m.job = j /\ m.item = i /\ m.at = claim[w]
       /\ pc[w] = "send" => \A m \in About(j, i) : Spread(j, m.at, claim[w])

\* Between the read and the claim: what was read is explained, and covers every
\* message but those that make this run's claim come too late.
Glance(w, i) ==
    pc[w] = "claim" /\ Head(w) = i =>
       /\ Explained("proactive", i, seen[w][i])
       /\ \A m \in About("proactive", i) :
             Covers(seen[w][i], m.at) \/ ref[w] - Cooldown <= m.at
Alone ==
    \A v, w \in Workers, j \in Jobs, i \in Items :
        Restores(j) /\ Flies(v, j, i) /\ Flies(w, j, i) => v = w
ClaimsApart ==
    \A v, w \in Workers, j \in Jobs, i \in Items :
        Flies(v, j, i) /\ Flies(w, j, i) /\ pc[v] = "send" /\ pc[w] = "send" =>
            v = w \/ Spread(j, claim[v], claim[w])

\* A message that counts is covered by the stamp, or by the lock of its run.
Covered(m) ==
    \/ Covers(stamp[m.job][m.item], m.at)
    \/ /\ WholeRun(m.job)
       /\ \E w \in Workers : run[w] = m.run /\ held[w][m.item] # None

\* A stamp of a job that gives claims back is explained, or its claim is in flight.
Told(j, i) ==
    Restores(j) => \/ Explained(j, i, stamp[j][i])
                   \/ j = "proactive" /\ \E w \in Workers : Flies(w, j, i)

Spaced ==
    \A j \in Jobs, i \in Items : \A m, n \in About(j, i) :
        m = n \/ Spread(j, m.at, n.at)

Runs     == \A w \in Workers : Clocked(w)
Locks    == \A w \in Workers, i \in Items : Holds(w, i) /\ Fresh(w, i)
Flights  == \A w \in Workers, j \in Jobs, i \in Items : Flight(w, j, i)
Glances  == \A w \in Workers, i \in Items : Glance(w, i)
Stamped  == \A j \in Jobs, i \in Items : Told(j, i)
Messages == \A m \in mails : m.at <= now /\ (Live(m) => Covered(m))

IInv == /\ TypeOK /\ Runs /\ Locks /\ OneHolder /\ Flights /\ Glances /\ Alone /\ ClaimsApart
        /\ Stamped /\ Messages /\ Spaced

-----------------------------------------------------------------------------
(* Operators and types *)

LEMMA HeadIsLeft ==
  ASSUME TypeOK, NEW w \in Workers, todo[w] # {}
  PROVE  Head(w) \in todo[w] /\ Head(w) \in Items
  <1> DEFINE S == todo[w]
  <1>1. S \subseteq Nat /\ S \subseteq Items
    BY ItemsAssumption DEF TypeOK
  <1>2. PICK z \in S : \A y \in S : <<y, z>> \notin OpToRel(<, Nat)
    BY <1>1, WFMin, NatLessThanWellFounded
  <1>3. \A y \in S : ~ (y < z)
    <2> SUFFICES ASSUME NEW y \in S PROVE ~ (y < z)
      OBVIOUS
    <2>1. y \in Nat /\ z \in Nat
      BY <1>1
    <2>2. <<y, z>> \notin OpToRel(<, Nat)
      BY <1>2
    <2>3. y < z => <<y, z>> \in OpToRel(<, Nat)
      BY <2>1, Zenon DEF OpToRel
    <2>4. QED
      BY <2>2, <2>3
  <1>4. \A y \in S : z <= y
    BY <1>1, <1>3
  <1>5. QED
    BY <1>1, <1>4 DEF Head

LEMMA JobKinds ==
  ASSUME NEW j \in Jobs
  PROVE  j \in {"health", "proactive", "periodic", "idle"}
  BY JobsAssumption

LEMMA TypeInit == Init => TypeOK
  BY DEF Init, TypeOK, NoHold, Stamps

LEMMA AdvanceType ==
  ASSUME TypeOK, NEW w \in Workers, Advance(w)
  PROVE  /\ pc' \in [Workers -> {"idle", "scan", "claim", "send", "sent", "unsent"}]
         /\ todo' \in [Workers -> SUBSET Items]
  BY DEF TypeOK, Advance

LEMMA PutType ==
  ASSUME TypeOK, NEW w \in Workers, Head(w) \in Items, job[w] \in Jobs,
         NEW s \in Stamps, Put(w, s)
  PROVE  /\ stamp' \in [Jobs -> [Items -> Stamps]]
         /\ held' \in [Workers -> [Items -> Stamps \cup {None}]]
  <1>1. PICK i \in Items, j \in Jobs : i = Head(w) /\ j = job[w]
    OBVIOUS
  <1>2. CASE WholeRun(job[w])
    <2>1. held' = [held EXCEPT ![w][i] = s] /\ stamp' = stamp
      BY <1>1, <1>2 DEF Put
    <2>2. [held[w] EXCEPT ![i] = s] \in [Items -> Stamps \cup {None}]
      BY DEF TypeOK
    <2>3. QED
      BY <2>1, <2>2 DEF TypeOK
  <1>3. CASE ~WholeRun(job[w])
    <2>1. stamp' = [stamp EXCEPT ![j][i] = s] /\ held' = held
      BY <1>1, <1>3 DEF Put
    <2>2. [stamp[j] EXCEPT ![i] = s] \in [Items -> Stamps]
      BY DEF TypeOK
    <2>3. QED
      BY <2>1, <2>2 DEF TypeOK
  <1>4. QED
    BY <1>2, <1>3

LEMMA IdleType ==
  ASSUME TypeOK, NEW w \in Workers, Idle(w)
  PROVE  /\ pc' \in [Workers -> {"idle", "scan", "claim", "send", "sent", "unsent"}]
         /\ job' \in [Workers -> Jobs \cup {None}]
         /\ run' \in [Workers -> Nat] /\ ref' \in [Workers -> Nat]
         /\ todo' \in [Workers -> SUBSET Items]
         /\ seen' \in [Workers -> [Items -> Stamps]]
         /\ held' \in [Workers -> [Items -> Stamps \cup {None}]]
         /\ claim' \in [Workers -> Nat]
  BY DEF TypeOK, Idle, NoHold, Stamps

\* The worker that takes a step, and the item at hand.
LEMMA AtHand ==
  ASSUME IInv, NEW w \in Workers
  PROVE  /\ pc[w] # "idle" => job[w] \in Jobs
         /\ Scanning(w) \/ pc[w] \in Flying => Head(w) \in todo[w] /\ Head(w) \in Items
         /\ At(w) \in Nat /\ At(w) \in Stamps
         /\ now \in Nat /\ ref[w] \in Nat /\ claim[w] \in Nat
  BY HeadIsLeft DEF IInv, Runs, Clocked, Scanning, At, Stamps, TypeOK

\* A worker at its conditional write, and the item at hand.
LEMMA AtWrite ==
  ASSUME IInv, NEW w \in Workers, AtUpdate(w)
  PROVE  /\ job[w] \in Jobs /\ Head(w) \in todo[w] /\ Head(w) \in Items
         /\ pc[w] = IF job[w] = "proactive" THEN "claim" ELSE "scan"
  <1>1. /\ todo[w] # {} /\ job[w] \in Jobs
        /\ pc[w] = IF job[w] = "proactive" THEN "claim" ELSE "scan"
    BY DEF IInv, Runs, Clocked, AtUpdate, Scanning, LooksFirst, Restores, WholeRun
  <1>2. QED
    BY <1>1, HeadIsLeft DEF IInv

LEMMA TypeClaim ==
  ASSUME IInv, NEW w \in Workers, ClaimWon(w)
  PROVE  TypeOK'
  <1> USE DEF world, history
  <1>1. TypeOK /\ job[w] \in Jobs /\ Head(w) \in Items
    BY AtWrite DEF IInv, ClaimWon
  <1>2. /\ stamp' \in [Jobs -> [Items -> Stamps]]
        /\ held' \in [Workers -> [Items -> Stamps \cup {None}]]
    BY <1>1, AtHand, PutType DEF ClaimWon
  <1>3. seen' \in [Workers -> [Items -> Stamps]]
    BY <1>1 DEF ClaimWon, TypeOK
  <1>4. claim' \in [Workers -> Nat]
    BY <1>1, AtHand DEF ClaimWon, TypeOK
  <1>5. /\ pc' \in [Workers -> {"idle", "scan", "claim", "send", "sent", "unsent"}]
        /\ todo' \in [Workers -> SUBSET Items]
    <2>1. CASE ~(ClaimsBlindly(job[w]) /\ Head(w) \notin mailable)
      BY <1>1, <2>1 DEF ClaimWon, TypeOK
    <2>2. CASE ClaimsBlindly(job[w]) /\ Head(w) \notin mailable
      BY <1>1, <2>2, AdvanceType DEF ClaimWon
    <2>3. QED
      BY <2>1, <2>2
  <1>6. QED
    BY <1>1, <1>2, <1>3, <1>4, <1>5 DEF ClaimWon, TypeOK

LEMMA TypeSend ==
  ASSUME IInv, NEW w \in Workers, Send(w)
  PROVE  TypeOK'
  <1> USE DEF world
  <1>1. TypeOK /\ job[w] \in Jobs /\ Head(w) \in Items /\ claim[w] \in Nat
    BY AtHand DEF IInv, Send, Flying
  <1>2. PICK says \in BOOLEAN, took \in BOOLEAN :
          /\ pc' = [pc EXCEPT ![w] = IF says THEN "sent" ELSE "unsent"]
          /\ mails' = IF ~took THEN mails
                      ELSE mails \cup {[job |-> job[w], item |-> Head(w),
                                        at |-> claim[w], run |-> run[w],
                                        sure |-> says]}
    BY DEF Send
  <1>3. [job |-> job[w], item |-> Head(w), at |-> claim[w], run |-> run[w],
         sure |-> says] \in Mail
    <2>1. run[w] \in Nat
      BY <1>1 DEF TypeOK
    <2>2. QED
      BY <1>1, <2>1, Zenon DEF Mail
  <1>4. mails' \subseteq Mail
    BY <1>1, <1>2, <1>3 DEF TypeOK
  <1>5. pc' \in [Workers -> {"idle", "scan", "claim", "send", "sent", "unsent"}]
    BY <1>1, <1>2 DEF TypeOK
  <1>6. QED
    BY <1>1, <1>4, <1>5 DEF Send, TypeOK

LEMMA TypeUnsent ==
  ASSUME IInv, NEW w \in Workers, Unsent(w)
  PROVE  TypeOK'
  <1> USE DEF world, history
  <1>1. TypeOK /\ job[w] \in Jobs /\ Head(w) \in Items
    BY AtHand DEF IInv, Unsent, Flying
  <1>2. /\ stamp' \in [Jobs -> [Items -> Stamps]]
        /\ held' \in [Workers -> [Items -> Stamps \cup {None}]]
    <2>1. CASE Restores(job[w])
      <3>1. seen[w][Head(w)] \in Stamps
        BY <1>1 DEF TypeOK
      <3>2. QED
        BY <1>1, <2>1, <3>1, PutType DEF Unsent
    <2>2. CASE ~Restores(job[w])
      BY <1>1, <2>2 DEF Unsent, TypeOK
    <2>3. QED
      BY <2>1, <2>2
  <1>3. QED
    BY <1>1, <1>2, AdvanceType DEF Unsent, TypeOK

LEMMA TypeEnd ==
  ASSUME IInv, NEW w \in Workers, Finish(w) \/ (pc[w] # "idle" /\ Die(w))
  PROVE  TypeOK'
  <1> USE DEF world, history
  <1>1. TypeOK /\ job[w] \in Jobs
    BY AtHand DEF IInv, Finish
  <1>2. CASE Finish(w)
    <2>1. stamp' \in [Jobs -> [Items -> Stamps]]
      <3> DEFINE new == [i \in Items |-> IF held[w][i] = None THEN stamp[job[w]][i]
                                         ELSE held[w][i]]
      <3>1. new \in [Items -> Stamps]
        BY <1>1 DEF TypeOK
      <3>2. stamp' = [stamp EXCEPT ![job[w]] = new]
        BY <1>1, <1>2 DEF Finish, TypeOK
      <3>3. QED
        BY <1>1, <3>1, <3>2 DEF TypeOK
    <2>2. QED
      BY <1>1, <1>2, <2>1, IdleType DEF Finish, TypeOK
  <1>3. CASE pc[w] # "idle" /\ Die(w)
    <2>1. orphans' \cup glimpsed' \subseteq Jobs \X Items \X Stamps
      <3>1. CASE pc[w] \in {"scan", "claim"} \/ WholeRun(job[w])
        BY <1>1, <1>3, <3>1 DEF Die, TypeOK
      <3>2. CASE pc[w] \in Flying
        <4>1. Head(w) \in Items /\ claim[w] \in Stamps
          BY <3>2, AtHand DEF Stamps
        <4>2. QED
          BY <1>1, <1>3, <4>1 DEF Die, TypeOK
      <3>3. QED
        BY <1>1, <1>3, <3>1, <3>2 DEF Flying, TypeOK
    <2>2. voided' \subseteq Nat
      BY <1>1, <1>3 DEF Die, TypeOK
    <2>3. QED
      BY <1>1, <1>3, <2>1, <2>2, IdleType DEF Die, TypeOK
  <1>4. QED
    BY <1>2, <1>3

LEMMA TypeLook ==
  ASSUME IInv, NEW w \in Workers, Look(w)
  PROVE  TypeOK'
  <1> USE DEF world
  <1>1. TypeOK /\ job[w] \in Jobs /\ Head(w) \in Items
    BY AtHand DEF IInv, Look, Scanning
  <1>2. PICK last \in Stamps : last = stamp[job[w]][Head(w)]
    BY <1>1 DEF TypeOK
  <1>3. /\ seen' = [seen EXCEPT ![w][Head(w)] = last]
        /\ glimpsed' \subseteq glimpsed \cup {<<job[w], Head(w), last>>}
    BY <1>2 DEF Look
  <1>4. seen' \in [Workers -> [Items -> Stamps]]
    BY <1>1, <1>3 DEF TypeOK
  <1>5. orphans' \cup glimpsed' \subseteq Jobs \X Items \X Stamps
    BY <1>1, <1>3 DEF TypeOK, Look
  <1>6. pc' \in [Workers -> {"idle", "scan", "claim", "send", "sent", "unsent"}]
    BY <1>1 DEF TypeOK, Look
  <1>7. QED
    BY <1>1, <1>4, <1>5, <1>6 DEF Look, TypeOK

LEMMA TypeWorld ==
  ASSUME TypeOK, \/ \E j \in Jobs, i \in Fickle : Turn(j, i)
                 \/ \E i \in Fickle : Address(i) \/ OnDemand(i)
                 \/ Tick
  PROVE  TypeOK'
  <1> USE DEF world, worker, history
  <1>1. ASSUME NEW j \in Jobs, NEW i \in Fickle, Turn(j, i) PROVE TypeOK'
    BY <1>1, FickleAssumption DEF Turn, TypeOK
  <1>2. ASSUME NEW i \in Fickle, Address(i) PROVE TypeOK'
    BY <1>2, FickleAssumption DEF Address, TypeOK
  <1>3. ASSUME NEW i \in Fickle, OnDemand(i) PROVE TypeOK'
    <2>1. stamp' \in [Jobs -> [Items -> Stamps]]
      BY <1>3 DEF OnDemand, TypeOK, Stamps
    <2>2. QED
      BY <1>3, <2>1 DEF OnDemand, TypeOK
  <1>4. ASSUME Tick PROVE TypeOK'
    BY <1>4 DEF Tick, TypeOK
  <1>5. QED
    BY <1>1, <1>2, <1>3, <1>4

LEMMA TypeNext == IInv /\ [Next]_vars => TypeOK'
  <1> SUFFICES ASSUME IInv, [Next]_vars PROVE TypeOK'
    OBVIOUS
  <1> USE DEF world, worker, history
  <1>1. TypeOK
    BY DEF IInv
  <1>2. ASSUME NEW w \in Workers, NEW j \in Jobs, Start(w, j) PROVE TypeOK'
    <2>1. runs' \in Nat /\ todo' \in [Workers -> SUBSET Items]
      BY <1>1, <1>2 DEF Start, TypeOK
    <2>2. seen' \in [Workers -> [Items -> Stamps]]
      BY <1>1, <1>2 DEF Start, TypeOK
    <2>3. QED
      BY <1>1, <1>2, <2>1, <2>2 DEF Start, TypeOK
  <1>3. ASSUME NEW w \in Workers, PassOver(w) \/ ClaimLost(w) \/ Sent(w) PROVE TypeOK'
    BY <1>1, <1>3, AdvanceType DEF PassOver, ClaimLost, Sent, TypeOK
  <1>4. ASSUME NEW w \in Workers, LogRefused(w) \/ Crash(w) PROVE TypeOK'
    BY <1>4, TypeEnd DEF LogRefused, Crash
  <1>5. CASE UNCHANGED vars
    BY <1>1, <1>5 DEF vars, TypeOK
  <1>6. QED
    BY <1>1, <1>2, <1>3, <1>4, <1>5, TypeLook, TypeClaim, TypeSend, TypeUnsent, TypeEnd, TypeWorld
    DEF Next, Step

-----------------------------------------------------------------------------
(* Steps that leave a worker alone *)

Rests(v) == UNCHANGED <<pc[v], job[v], run[v], ref[v], todo[v], seen[v], held[v],
                        claim[v]>>

\* Nothing that was said or left behind is taken back.
Grows == /\ mails \subseteq mails' /\ voided \subseteq voided'
         /\ orphans \subseteq orphans' /\ glimpsed \subseteq glimpsed'

\* No message that counts is added about the item.
Silent(j, i) == About(j, i)' \subseteq About(j, i)

LEMMA RestFlies ==
  ASSUME NEW v \in Workers, Rests(v)
  PROVE  \A j, i : Flies(v, j, i)' <=> Flies(v, j, i)
  BY DEF Rests, Flies, Head

LEMMA SilentStep ==
  ASSUME Grows, UNCHANGED mails
  PROVE  \A j, i : Silent(j, i)
  BY DEF Grows, Silent, About, Live

LEMMA RestHolds ==
  ASSUME IInv, NEW v \in Workers, Rests(v), Grows, NEW i \in Items,
         Silent("health", i), stamp'["health"][i] = stamp["health"][i]
  PROVE  Holds(v, i)' /\ Fresh(v, i)'
  <1>1. Holds(v, i) /\ Fresh(v, i)
    BY DEF IInv, Locks
  <1>2. Fresh(v, i)'
    BY <1>1 DEF Fresh, Rests
  <1>3. Head(v)' = Head(v)
    BY DEF Head, Rests
  <1>4. \A x : Explained("health", i, x) => \/ x = Never \/ <<"health", i, x>> \in orphans' \/ <<"health", i, x>> \in glimpsed'
            \/ \E m \in mails' : m.job = "health" /\ m.item = i /\ m.at = x
    BY DEF Explained, Grows
  <1>5. Holds(v, i)'
    BY <1>1, <1>3, <1>4 DEF Holds, Rests, Silent, Explained
  <1>6. QED
    BY <1>2, <1>5

LEMMA RestFlight ==
  ASSUME IInv, NEW v \in Workers, Rests(v), Grows, NEW j \in Jobs, NEW i \in Items,
         Silent(j, i), j # "health" => stamp'[j][i] = stamp[j][i]
  PROVE  Flight(v, j, i)'
  <1>1. Flight(v, j, i) /\ (Flies(v, j, i)' <=> Flies(v, j, i))
    BY RestFlies DEF IInv, Flights
  <1>2. \A x : Explained(j, i, x) => \/ x = Never \/ <<j, i, x>> \in orphans' \/ <<j, i, x>> \in glimpsed'
            \/ \E m \in mails' : m.job = j /\ m.item = i /\ m.at = x
    BY DEF Explained, Grows
  <1>3. mails \subseteq mails'
    BY DEF Grows
  <1>4. QED
    BY <1>1, <1>2, <1>3 DEF Flight, Rests, Silent, Explained, WholeRun

LEMMA RestClocked ==
  ASSUME IInv, NEW v \in Workers, Rests(v), now' = now
  PROVE  Clocked(v)'
  BY DEF IInv, Runs, Clocked, Rests

\* No worker takes a new claim.
LEMMA NoClaim ==
  ASSUME IInv,
         \A v \in Workers, j \in Jobs, i \in Items : Flies(v, j, i)' =>
            /\ Flies(v, j, i) /\ claim'[v] = claim[v]
            /\ pc'[v] = "send" => pc[v] = "send"
  PROVE  Alone' /\ ClaimsApart'
  <1>1. Alone'
    BY DEF IInv, Alone
  <1>2. ClaimsApart'
    BY DEF IInv, ClaimsApart, Spread
  <1>3. QED
    BY <1>1, <1>2

LEMMA NoLock ==
  ASSUME IInv, \A v \in Workers, i \in Items : held'[v][i] # None => held[v][i] # None
  PROVE  OneHolder'
  BY DEF IInv, OneHolder

-----------------------------------------------------------------------------
(* The clock, the field, and a message on demand *)

LEMMA WorldKeeps ==
  ASSUME IInv, \A v \in Workers : Rests(v) /\ Clocked(v)', now <= now', now' \in Nat,
         UNCHANGED <<mails, voided, orphans, glimpsed>>,
         \A j \in Jobs, i \in Items :
            stamp'[j][i] = stamp[j][i] \/ (j = "periodic" /\ stamp'[j][i] = now)
  PROVE  /\ Runs' /\ Locks' /\ OneHolder' /\ Flights' /\ Alone' /\ ClaimsApart'
         /\ Stamped' /\ Messages' /\ Spaced'
  <1>1. Grows /\ \A j, i : Silent(j, i)
    BY SilentStep DEF Grows
  <1>2. TypeOK /\ now \in Nat
    BY DEF IInv, TypeOK
  <1>3. Locks'
    <2> SUFFICES ASSUME NEW v \in Workers, NEW i \in Items
                 PROVE  Holds(v, i)' /\ Fresh(v, i)'
      BY DEF Locks
    <2>1. CASE "health" \in Jobs
      BY <1>1, <2>1, RestHolds
    <2>2. CASE "health" \notin Jobs
      <3>1. pc'[v] # "idle" => job'[v] # "health"
        BY <2>2 DEF Clocked
      <3>2. held'[v][i] = None
        BY <2>2 DEF IInv, Locks, Holds, Runs, Clocked, Rests
      <3>3. QED
        BY <3>1, <3>2 DEF Holds, Fresh
    <2>3. QED
      BY <2>1, <2>2
  <1>4. OneHolder'
    BY NoLock DEF Rests
  <1>5. Flights'
    <2> SUFFICES ASSUME NEW v \in Workers, NEW j \in Jobs, NEW i \in Items
                 PROVE  Flight(v, j, i)'
      BY DEF Flights
    <2>1. CASE stamp'[j][i] = stamp[j][i]
      BY <1>1, <2>1, RestFlight
    <2>2. CASE j = "periodic" /\ stamp'[j][i] = now
      <3>1. Flies(v, j, i) => claim[v] <= now
        BY DEF IInv, Runs, Clocked, Flies
      <3>2. Flight(v, j, i) /\ (Flies(v, j, i)' <=> Flies(v, j, i)) /\ now # Never
        BY <1>2, RestFlies, NeverAssumption DEF IInv, Flights
      <3>3. QED
        BY <1>1, <2>2, <3>1, <3>2
        DEF Flight, Rests, Silent, Covers, Restores, WholeRun
    <2>3. QED
      BY <2>1, <2>2
  <1>6. Alone' /\ ClaimsApart'
    BY RestFlies, NoClaim DEF Rests
  <1>7. Stamped'
    <2> SUFFICES ASSUME NEW j \in Jobs, NEW i \in Items, Restores(j)
                 PROVE  Told(j, i)'
      BY DEF Stamped, Told
    <2>1. stamp'[j][i] = stamp[j][i] /\ Told(j, i)
      BY DEF Restores, IInv, Stamped
    <2>2. \A v \in Workers : Flies(v, j, i)' <=> Flies(v, j, i)
      BY RestFlies
    <2>3. QED
      BY <2>1, <2>2 DEF Told, Explained
  <1>8. Messages'
    <2> SUFFICES ASSUME NEW m \in mails
                 PROVE  m.at <= now' /\ (Live(m)' => Covered(m)')
      BY DEF Messages
    <2>1. /\ m.at <= now /\ (Live(m) => Covered(m)) /\ m.at \in Nat
          /\ m.job \in Jobs /\ m.item \in Items
      BY <1>2 DEF IInv, Messages, TypeOK, Mail
    <2>2. Live(m)' => Live(m)
      BY DEF Live
    <2>3. Covers(stamp[m.job][m.item], m.at) => Covers(stamp'[m.job][m.item], m.at)
      BY <1>2, <2>1, NeverAssumption DEF Covers
    <2>4. QED
      BY <1>2, <2>1, <2>2, <2>3 DEF Covered, Covers, Rests
  <1>9. Spaced'
    BY <1>1 DEF IInv, Spaced, Silent, Spread
  <1>10. QED
    BY <1>3, <1>4, <1>5, <1>6, <1>7, <1>8, <1>9 DEF Runs

-----------------------------------------------------------------------------
(* A worker whose claim, if it has one, comes to its end *)

\* Its step changes no stamp but the one that its failed send gives back.
Undoes(w, j, i) == /\ j = "proactive" /\ Flies(w, j, i) /\ pc[w] = "unsent"
                   /\ stamp'[j][i] = seen[w][i]

Landing(w) ==
    /\ \A v \in Workers \ {w} : Rests(v)
    /\ Grows /\ mails' = mails /\ now' = now
    /\ pc'[w] \notin Flying /\ Clocked(w)'
    /\ \A j \in Jobs, i \in Items :
          stamp'[j][i] = stamp[j][i] \/ Undoes(w, j, i)
    \* Its locks are kept, or die with its run.
    /\ \A i \in Items : held'[w][i] # None => held[w][i] # None
    /\ \/ \A i \in Items : held[w][i] # None => held'[w][i] # None /\ run'[w] = run[w]
       \/ run[w] \in voided'

LEMMA LandingKeeps ==
  ASSUME IInv, NEW w \in Workers, Landing(w),
         \A i \in Items : Holds(w, i)' /\ Fresh(w, i)',
         \A j \in Jobs, i \in Items : Flies(w, j, i) /\ Restores(j) =>
            Explained(j, i, stamp[j][i])' 
  PROVE  /\ Runs' /\ Locks' /\ OneHolder' /\ Flights' /\ Alone' /\ ClaimsApart'
         /\ Stamped' /\ Messages' /\ Spaced'
  <1>1. Grows /\ \A j, i : Silent(j, i)
    BY SilentStep DEF Landing
  <1>2. TypeOK
    BY DEF IInv
  <1>3. \A j, i : ~Flies(w, j, i)'
    BY DEF Landing, Flies
  <1>4. \A v \in Workers : \A j, i :
           Flies(v, j, i)' => v # w /\ Rests(v) /\ Flies(v, j, i)
    BY <1>3, RestFlies DEF Landing
  <1>5. \A j \in Jobs, i \in Items : Undoes(w, j, i) =>
           \A v \in Workers : ~Flies(v, j, i)'
    BY <1>4 DEF Undoes, IInv, Alone, Restores
  <1>6. Runs'
    BY RestClocked DEF Runs, Landing
  <1>7. Locks'
    <2> SUFFICES ASSUME NEW v \in Workers \ {w}, NEW i \in Items
                 PROVE  Holds(v, i)' /\ Fresh(v, i)'
      BY DEF Locks
    <2>1. CASE "health" \in Jobs
      <3>1. stamp'["health"][i] = stamp["health"][i]
        BY <2>1 DEF Landing, Undoes
      <3>2. QED
        BY <1>1, <3>1, RestHolds DEF Landing
    <2>2. CASE "health" \notin Jobs
      <3>1. pc'[v] # "idle" => job'[v] # "health"
        BY <1>6, <2>2 DEF Runs, Clocked
      <3>2. held'[v][i] = None
        BY <2>2 DEF IInv, Locks, Holds, Runs, Clocked, Rests, Landing
      <3>3. QED
        BY <3>1, <3>2 DEF Holds, Fresh
    <2>3. QED
      BY <2>1, <2>2
  <1>8. OneHolder'
    BY NoLock DEF Rests, Landing
  <1>9. Flights'
    <2> SUFFICES ASSUME NEW v \in Workers, NEW j \in Jobs, NEW i \in Items,
                        Flies(v, j, i)'
                 PROVE  Flight(v, j, i)'
      BY DEF Flights, Flight
    <2>1. stamp'[j][i] = stamp[j][i] /\ Rests(v)
      BY <1>4, <1>5 DEF Landing
    <2>2. QED
      BY <1>1, <2>1, RestFlight
  <1>10. Alone' /\ ClaimsApart'
    BY <1>4, NoClaim DEF Rests
  <1>11. Stamped'
    <2> SUFFICES ASSUME NEW j \in Jobs, NEW i \in Items, Restores(j),
                        ~Flies(w, j, i)
                 PROVE  Told(j, i)'
      BY DEF Stamped, Told
    <2>1. stamp'[j][i] = stamp[j][i] /\ Told(j, i)
      BY DEF Landing, Undoes, IInv, Stamped
    <2>2. \A v \in Workers : Flies(v, j, i) => Flies(v, j, i)'
      BY RestFlies DEF Landing
    <2>3. QED
      BY <1>1, <2>1, <2>2 DEF Told, Explained, Grows
  <1>12. Messages'
    <2> SUFFICES ASSUME NEW m \in mails
                 PROVE  m.at <= now' /\ (Live(m)' => Covered(m)')
      BY DEF Messages, Landing
    <2>1. /\ m.at <= now /\ (Live(m) => Covered(m)) /\ m.at \in Nat
          /\ m.job \in Jobs /\ m.item \in Items
      BY <1>2 DEF IInv, Messages, TypeOK, Mail
    <2> SUFFICES ASSUME Live(m)' PROVE Covered(m)'
      BY <2>1 DEF Landing
    <2>2. Live(m) /\ m \in About(m.job, m.item)
      BY <1>1 DEF Live, Grows, About
    <2>3. CASE Undoes(w, m.job, m.item)
      <3>1. Covers(seen[w][m.item], m.at)
        BY <2>1, <2>2, <2>3 DEF Undoes, IInv, Flights, Flight, Restores
      <3>2. QED
        BY <2>3, <3>1 DEF Undoes, Covered
    <2>4. CASE stamp'[m.job][m.item] = stamp[m.job][m.item]
      <3>1. CASE Covers(stamp[m.job][m.item], m.at)
        BY <2>4, <3>1 DEF Covered
      <3>2. CASE ~Covers(stamp[m.job][m.item], m.at)
        <4>1. WholeRun(m.job)
          BY <2>1, <2>2, <3>2 DEF Covered
        <4>2. PICK u \in Workers : run[u] = m.run /\ held[u][m.item] # None
          BY <2>1, <2>2, <3>2 DEF Covered
        <4>3. m.run \notin voided'
          BY <4>1 DEF Live
        <4>4. held'[u][m.item] # None /\ run'[u] = run[u]
          BY <2>1, <4>2, <4>3 DEF Landing, Rests
        <4>5. QED
          BY <4>1, <4>2, <4>4 DEF Covered
      <3>3. QED
        BY <3>1, <3>2
    <2>5. QED
      BY <2>1, <2>3, <2>4 DEF Landing
  <1>13. Spaced'
    BY <1>1 DEF IInv, Spaced, Silent, Spread
  <1>14. QED
    BY <1>6, <1>7, <1>8, <1>9, <1>10, <1>11, <1>12, <1>13

\* What a run that goes on to the next item still holds.
LEMMA LandHolds ==
  ASSUME IInv, NEW w \in Workers, NEW i \in Items, Landing(w),
         UNCHANGED <<job[w], ref[w], seen[w]>>, pc'[w] = "scan",
         todo'[w] \subseteq todo[w], held'[w][i] = held[w][i],
         held[w][i] # None => /\ i \notin todo'[w]
                              /\ i \in todo[w] => Explained("health", i, held[w][i]),
         pc[w] # "idle"
  PROVE  Holds(w, i)' /\ Fresh(w, i)'
  <1>1. Holds(w, i) /\ Fresh(w, i)
    BY DEF IInv, Locks
  <1>2. Silent("health", i) /\ Grows
    BY SilentStep DEF Landing
  <1>3. job[w] = "health" => stamp'["health"][i] = stamp["health"][i]
    BY AtHand DEF Landing, Undoes
  <1>4. Fresh(w, i)'
    BY <1>1, <1>3 DEF Fresh
  <1>5. held[w][i] # None => Explained("health", i, held[w][i])
    BY <1>1 DEF Holds
  <1>6. Holds(w, i)'
    BY <1>1, <1>2, <1>3, <1>5 DEF Holds, Silent, Explained, Grows
  <1>7. QED
    BY <1>4, <1>6

\* A row lock of an item that is not at hand is of an earlier one.
LEMMA HeldBefore ==
  ASSUME IInv, NEW w \in Workers, NEW i \in Items, held[w][i] # None,
         i \in todo[w]
  PROVE  Flies(w, "health", i) /\ "health" \in Jobs
  BY DEF IInv, Locks, Holds, Flies, Runs, Clocked

LEMMA PassKeeps ==
  ASSUME IInv, NEW w \in Workers, PassOver(w) \/ ClaimLost(w)
  PROVE  /\ Runs' /\ Locks' /\ OneHolder' /\ Flights' /\ Alone' /\ ClaimsApart'
         /\ Stamped' /\ Messages' /\ Spaced'
  <1> USE DEF world, history
  <1>1. Advance(w) /\ TypeOK /\ pc[w] # "idle" /\ pc[w] \notin Flying
    BY AtWrite DEF PassOver, ClaimLost, Scanning, IInv, Flying
  <1>2. /\ pc'[w] = "scan" /\ todo'[w] \subseteq todo[w]
        /\ \A v \in Workers \ {w} : pc'[v] = pc[v] /\ todo'[v] = todo[v]
    BY <1>1 DEF Advance, TypeOK
  <1>3. UNCHANGED <<now, stamp, job, run, ref, seen, held, claim, mails, voided, orphans, glimpsed>>
    BY DEF PassOver, ClaimLost
  <1>4. Landing(w)
    <2>1. Clocked(w)'
      BY <1>1, <1>2, <1>3 DEF IInv, Runs, Clocked, Flying
    <2>2. QED
      BY <1>2, <1>3, <2>1 DEF Landing, Rests, Grows, Flying
  <1>5. ASSUME NEW i \in Items PROVE Holds(w, i)' /\ Fresh(w, i)'
    <2>1. held[w][i] # None => i \notin todo[w]
      BY <1>1, HeldBefore DEF Flies, Flying
    <2>2. QED
      BY <1>1, <1>2, <1>3, <1>4, <2>1, LandHolds
  <1>6. \A j, i : ~Flies(w, j, i)
    BY <1>1 DEF Flies, Flying
  <1>7. QED
    BY <1>4, <1>5, <1>6, LandingKeeps

\* The stamp to give back is read: no claim is taken yet.
LEMMA LookKeeps ==
  ASSUME IInv, NEW w \in Workers, Look(w)
  PROVE  /\ Runs' /\ Locks' /\ OneHolder' /\ Flights' /\ Alone' /\ ClaimsApart'
         /\ Stamped' /\ Messages' /\ Spaced'
  <1> USE DEF world
  <1>1. pc[w] = "scan" /\ job[w] = "proactive" /\ todo[w] # {} /\ TypeOK
    BY DEF Look, Scanning, LooksFirst, Restores, WholeRun, IInv
  <1>2. pc'[w] = "claim" /\ \A v \in Workers \ {w} : Rests(v)
    BY <1>1 DEF Look, TypeOK, Rests
  <1>3. /\ UNCHANGED <<now, stamp, job, run, ref, todo, held, claim, mails, voided, orphans>>
        /\ glimpsed \subseteq glimpsed'
    BY DEF Look
  <1>4. Landing(w)
    <2>1. Clocked(w)'
      BY <1>1, <1>2, <1>3 DEF IInv, Runs, Clocked, Flying
    <2>2. QED
      BY <1>2, <1>3, <2>1 DEF Landing, Grows, Flying
  <1>5. ASSUME NEW i \in Items PROVE Holds(w, i)' /\ Fresh(w, i)'
    <2>1. held[w][i] = None
      BY <1>1 DEF IInv, Locks, Holds
    <2>2. QED
      BY <1>1, <1>3, <2>1 DEF Holds, Fresh
  <1>6. \A j, i : ~Flies(w, j, i)
    BY <1>1 DEF Flies, Flying
  <1>7. QED
    BY <1>4, <1>5, <1>6, LandingKeeps

\* The message that was accepted is what the claim stands for.
LEMMA SentKeeps ==
  ASSUME IInv, NEW w \in Workers, Sent(w)
  PROVE  /\ Runs' /\ Locks' /\ OneHolder' /\ Flights' /\ Alone' /\ ClaimsApart'
         /\ Stamped' /\ Messages' /\ Spaced'
  <1> USE DEF world, history
  <1>1. pc[w] = "sent" /\ Advance(w) /\ TypeOK /\ pc[w] \in Flying
    BY DEF Sent, IInv, Flying
  <1>2. /\ pc'[w] = "scan" /\ todo'[w] = todo[w] \ {Head(w)}
        /\ \A v \in Workers \ {w} : pc'[v] = pc[v] /\ todo'[v] = todo[v]
    BY <1>1 DEF Advance, TypeOK
  <1>3. UNCHANGED <<now, stamp, job, run, ref, seen, held, claim, mails, voided, orphans, glimpsed>>
    BY DEF Sent
  <1>4. Landing(w)
    <2>1. Clocked(w)'
      BY <1>1, <1>2, <1>3 DEF IInv, Runs, Clocked, Flying
    <2>2. QED
      BY <1>2, <1>3, <2>1 DEF Landing, Rests, Grows, Flying
  <1>5. ASSUME NEW j \in Jobs, NEW i \in Items, Flies(w, j, i)
        PROVE  /\ Explained(j, i, claim[w])
               /\ Restores(j) => Explained(j, i, stamp[j][i])
    <2>1. Flight(w, j, i)
      BY DEF IInv, Flights
    <2>2. Explained(j, i, claim[w])
      BY <1>1, <1>5, <2>1 DEF Flight, Explained
    <2>3. j = "health" => stamp[j][i] = seen[w][i]
      BY <1>5, <2>1, NeverAssumption, AtHand
      DEF Flight, WholeRun, IInv, Locks, Holds
    <2>4. QED
      BY <1>5, <2>1, <2>2, <2>3 DEF Flight, Restores
  <1>6. ASSUME NEW i \in Items PROVE Holds(w, i)' /\ Fresh(w, i)'
    <2>1. ASSUME held[w][i] # None, i \in todo[w]
          PROVE  i \notin todo'[w] /\ Explained("health", i, held[w][i])
      <3>1. Flies(w, "health", i) /\ "health" \in Jobs
        BY <2>1, HeldBefore
      <3>2. held[w][i] = claim[w]
        BY <3>1 DEF IInv, Flights, Flight, WholeRun
      <3>3. QED
        BY <1>2, <1>5, <3>1, <3>2 DEF Flies
    <2>2. held[w][i] # None => i \notin todo'[w]
      BY <1>2, <2>1
    <2>3. QED
      BY <1>1, <1>2, <1>3, <1>4, <2>1, <2>2, LandHolds
  <1>7. ASSUME NEW j \in Jobs, NEW i \in Items, Flies(w, j, i), Restores(j)
        PROVE  Explained(j, i, stamp[j][i])'
    <2>1. Explained(j, i, stamp[j][i])
      BY <1>5, <1>7
    <2>2. QED
      BY <1>3, <2>1 DEF Explained
  <1>8. QED
    BY <1>4, <1>6, <1>7, LandingKeeps

\* A run begins with the stamps of the moment.
LEMMA StartKeeps ==
  ASSUME IInv, NEW w \in Workers, NEW k \in Jobs, Start(w, k)
  PROVE  /\ Runs' /\ Locks' /\ OneHolder' /\ Flights' /\ Alone' /\ ClaimsApart'
         /\ Stamped' /\ Messages' /\ Spaced'
  <1> USE DEF world, history
  <1>1. pc[w] = "idle" /\ TypeOK
    BY DEF Start, IInv
  <1>2. /\ pc'[w] = "scan" /\ job'[w] = k /\ ref'[w] = now
        /\ k = "health" => seen'[w] = stamp[k]
        /\ \A v \in Workers \ {w} : Rests(v)
    BY <1>1 DEF Start, TypeOK, Rests, WholeRun
  <1>3. UNCHANGED <<now, stamp, held, claim, mails, voided, orphans, glimpsed>>
    BY DEF Start
  <1>4. \A i \in Items : held[w][i] = None
    BY <1>1 DEF IInv, Locks, Holds
  <1>5. Landing(w)
    <2>1. Clocked(w)'
      BY <1>1, <1>2, <1>3, TimesAssumption DEF Clocked, Flying, TypeOK
    <2>2. QED
      BY <1>2, <1>3, <1>4, <2>1 DEF Landing, Grows, Flying
  <1>6. \A i \in Items : Holds(w, i)' /\ Fresh(w, i)'
    BY <1>2, <1>3, <1>4 DEF Holds, Fresh
  <1>7. \A j, i : ~Flies(w, j, i)
    BY <1>1 DEF Flies, Flying
  <1>8. QED
    BY <1>5, <1>6, <1>7, LandingKeeps

\* A worker that dies over a claim leaves an orphan, and takes its locks along.
LEMMA DieKeeps ==
  ASSUME IInv, NEW w \in Workers, pc[w] # "idle", Die(w)
  PROVE  /\ Runs' /\ Locks' /\ OneHolder' /\ Flights' /\ Alone' /\ ClaimsApart'
         /\ Stamped' /\ Messages' /\ Spaced'
  <1> USE DEF world, history
  <1>1. TypeOK /\ job[w] \in Jobs
    BY AtHand DEF IInv
  <1>2. /\ pc'[w] = "idle" /\ \A i \in Items : held'[w][i] = None
        /\ \A v \in Workers \ {w} : Rests(v)
    BY <1>1 DEF Die, Idle, TypeOK, Rests, NoHold
  <1>3. UNCHANGED <<now, stamp, mails>> /\ run[w] \in voided' /\ Grows
    BY DEF Die, Grows
  <1>4. Landing(w)
    <2>1. Clocked(w)'
      BY <1>2 DEF Clocked, Flying
    <2>2. QED
      BY <1>2, <1>3, <2>1 DEF Landing, Flying
  <1>5. \A i \in Items : Holds(w, i)' /\ Fresh(w, i)'
    BY <1>2 DEF Holds, Fresh
  <1>6. ASSUME NEW j \in Jobs, NEW i \in Items, Flies(w, j, i), Restores(j)
        PROVE  Explained(j, i, stamp[j][i])'
    <2>1. Flight(w, j, i)
      BY DEF IInv, Flights
    <2>2. CASE j = "health"
      <3>1. stamp[j][i] = seen[w][i]
        BY <1>6, <2>1, <2>2, NeverAssumption, AtHand
        DEF Flight, WholeRun, IInv, Locks, Holds
      <3>2. QED
        BY <1>3, <1>6, <2>1, <3>1 DEF Flight, Explained, Grows
    <2>3. CASE j = "proactive"
      <3>1. stamp[j][i] = claim[w] /\ <<j, i, claim[w]>> \in orphans'
        BY <1>6, <2>1, <2>3 DEF Flight, Flies, Flying, Die, WholeRun
      <3>2. QED
        BY <1>3, <3>1 DEF Explained
    <2>4. QED
      BY <1>6, <2>2, <2>3 DEF Restores
  <1>7. QED
    BY <1>4, <1>5, <1>6, LandingKeeps

\* A failed send gives back the stamp that covers the earlier messages.
LEMMA GiveBackKeeps ==
  ASSUME IInv, NEW w \in Workers, Unsent(w)
  PROVE  /\ Runs' /\ Locks' /\ OneHolder' /\ Flights' /\ Alone' /\ ClaimsApart'
         /\ Stamped' /\ Messages' /\ Spaced'
  <1> USE DEF world, history
  <1>1. pc[w] = "unsent" /\ Advance(w) /\ TypeOK /\ pc[w] \in Flying
    BY DEF Unsent, IInv, Flying
  <1>2. PICK j0 \in Jobs, i0 \in Items : j0 = job[w] /\ i0 = Head(w) /\ i0 \in todo[w]
    BY <1>1, AtHand
  <1>3. /\ pc'[w] = "scan" /\ todo'[w] = todo[w] \ {i0}
        /\ \A v \in Workers \ {w} : pc'[v] = pc[v] /\ todo'[v] = todo[v]
    BY <1>1, <1>2 DEF Advance, TypeOK
  <1>4. UNCHANGED <<now, job, run, ref, seen, claim, mails, voided, orphans, glimpsed>>
    BY DEF Unsent
  <1>5. Flies(w, j0, i0) /\ Flight(w, j0, i0) /\ Clocked(w)'
    BY <1>1, <1>2, <1>3, <1>4 DEF Flies, IInv, Flights, Runs, Clocked, Flying
  <1>6. \A j, i : Flies(w, j, i) => j = j0 /\ i = i0
    BY <1>2 DEF Flies
  <1>7. ASSUME NEW i \in Items, i # i0 PROVE held[w][i] # None => i \notin todo[w]
    BY <1>2, <1>7, HeldBefore DEF Flies
  <1>8. CASE j0 = "health"
    <2>1. stamp' = stamp /\ held' = [held EXCEPT ![w][i0] = seen[w][i0]]
      BY <1>2, <1>8 DEF Unsent, Restores, Put, WholeRun
    <2>2. held[w][i0] # None
      BY <1>5, <1>8, AtHand, NeverAssumption DEF Flight, WholeRun
    <2>3. /\ held'[w][i0] = seen[w][i0] /\ held'[w][i0] # None
          /\ \A i \in Items \ {i0} : held'[w][i] = held[w][i]
          /\ \A v \in Workers \ {w} : held'[v] = held[v]
      BY <1>1, <2>1, NeverAssumption DEF TypeOK, Stamps
    <2>4. Landing(w)
      BY <1>3, <1>4, <1>5, <2>1, <2>2, <2>3 DEF Landing, Rests, Grows, Flying
    <2>5. Holds(w, i0) /\ Silent("health", i0) /\ Fresh(w, i0)
      BY <2>4, SilentStep DEF IInv, Locks, Landing
    <2>6. Holds(w, i0)'
      <3>1. stamp["health"][i0] = seen[w][i0]
        BY <2>2, <2>5 DEF Holds
      <3>2. Explained("health", i0, seen[w][i0])'
        BY <1>4, <1>5, <1>8 DEF Flight, Restores, Explained
      <3>3. \A m \in About("health", i0)' : Covers(seen[w][i0], m.at)
        BY <1>1, <1>5, <1>8, <2>5 DEF Flight, Restores, Silent
      <3>4. Explained("health", i0, held[w][i0])'
        BY <1>4, <2>3, <3>2 DEF Explained
      <3>5. QED
        BY <1>2, <1>3, <1>4, <1>8, <2>1, <2>3, <3>1, <3>3, <3>4 DEF Holds
    <2>7. Fresh(w, i0)'
      BY <1>1, <1>4, <2>1, <2>5 DEF Fresh
    <2>8. ASSUME NEW i \in Items, i # i0 PROVE Holds(w, i)' /\ Fresh(w, i)'
      BY <1>1, <1>3, <1>4, <1>7, <2>3, <2>4, <2>8, LandHolds
    <2>9. Explained(j0, i0, stamp[j0][i0])'
      BY <1>4, <1>5, <1>8, <2>1, <2>2, <2>5 DEF Flight, Holds, Explained, Restores
    <2>10. QED
      BY <1>6, <2>4, <2>6, <2>7, <2>8, <2>9, LandingKeeps
  <1>9. ASSUME NEW i \in Items, j0 # "health" PROVE held[w][i] = None
    BY <1>2, <1>9 DEF IInv, Locks, Holds
  <1>10. CASE j0 = "proactive"
    <2>1. held' = held /\ stamp' = [stamp EXCEPT ![j0][i0] = seen[w][i0]]
      BY <1>2, <1>10 DEF Unsent, Restores, Put, WholeRun
    <2>2. /\ stamp'[j0][i0] = seen[w][i0]
          /\ \A j \in Jobs, i \in Items : j # j0 \/ i # i0 => stamp'[j][i] = stamp[j][i]
      BY <1>1, <2>1 DEF TypeOK
    <2>3. Landing(w)
      BY <1>1, <1>3, <1>4, <1>5, <1>10, <2>1, <2>2
      DEF Landing, Rests, Grows, Flying, Undoes
    <2>4. \A i \in Items : Holds(w, i)' /\ Fresh(w, i)'
      BY <1>2, <1>4, <1>9, <1>10, <2>1 DEF Holds, Fresh
    <2>5. Explained(j0, i0, stamp[j0][i0])'
      BY <1>4, <1>5, <1>10, <2>2 DEF Flight, Restores, Explained
    <2>6. QED
      BY <1>6, <2>3, <2>4, <2>5, LandingKeeps
  <1>11. CASE ~Restores(j0)
    <2>1. stamp' = stamp /\ held' = held /\ j0 # "health"
      BY <1>2, <1>11 DEF Unsent, Restores
    <2>2. Landing(w)
      BY <1>3, <1>4, <1>5, <2>1 DEF Landing, Rests, Grows, Flying
    <2>3. \A i \in Items : Holds(w, i)' /\ Fresh(w, i)'
      BY <1>2, <1>4, <1>9, <2>1 DEF Holds, Fresh
    <2>4. QED
      BY <1>6, <1>11, <2>2, <2>3, LandingKeeps
  <1>12. QED
    BY <1>8, <1>10, <1>11 DEF Restores

\* Without locks, the end of a run changes nothing.
LEMMA FinishFree ==
  ASSUME IInv, NEW w \in Workers, Finish(w), job[w] # "health"
  PROVE  /\ Runs' /\ Locks' /\ OneHolder' /\ Flights' /\ Alone' /\ ClaimsApart'
         /\ Stamped' /\ Messages' /\ Spaced'
  <1> USE DEF world, history
  <1>1. TypeOK /\ job[w] \in Jobs /\ pc[w] = "scan"
    BY AtHand DEF IInv, Finish
  <1>2. \A i \in Items : held[w][i] = None
    BY DEF IInv, Locks, Holds
  <1>3. /\ pc'[w] = "idle" /\ \A i \in Items : held'[w][i] = None
        /\ \A v \in Workers \ {w} : Rests(v)
    BY <1>1 DEF Finish, Idle, TypeOK, Rests, NoHold
  <1>4. UNCHANGED <<now, mails, voided, orphans, glimpsed>>
    BY DEF Finish
  <1>5. \A j \in Jobs, i \in Items : stamp'[j][i] = stamp[j][i]
    BY <1>1, <1>2 DEF Finish, TypeOK
  <1>6. Landing(w)
    <2>1. Clocked(w)'
      BY <1>3 DEF Clocked, Flying
    <2>2. QED
      BY <1>2, <1>3, <1>4, <1>5, <2>1 DEF Landing, Flying, Grows
  <1>7. \A i \in Items : Holds(w, i)' /\ Fresh(w, i)'
    BY <1>3 DEF Holds, Fresh
  <1>8. \A j, i : ~Flies(w, j, i)
    BY <1>1 DEF Flies, Flying
  <1>9. QED
    BY <1>6, <1>7, <1>8, LandingKeeps

\* The claims of a run in one transaction are committed together.
LEMMA HealthCommit ==
  ASSUME IInv, NEW w \in Workers, Finish(w), job[w] = "health"
  PROVE  /\ TypeOK /\ "health" \in Jobs /\ todo[w] = {} /\ pc[w] = "scan"
         /\ pc'[w] = "idle" /\ \A i \in Items : held'[w][i] = None
         /\ \A v \in Workers \ {w} : Rests(v)
         /\ UNCHANGED <<now, mails, voided, orphans, glimpsed>>
         /\ \A i \in Items : stamp'["health"][i] =
                 IF held[w][i] = None THEN stamp["health"][i] ELSE held[w][i]
         /\ \A j \in Jobs \ {"health"}, i \in Items : stamp'[j][i] = stamp[j][i]
  <1> USE DEF world, history
  <1>1. TypeOK /\ "health" \in Jobs /\ pc[w] = "scan" /\ todo[w] = {}
    BY AtHand DEF IInv, Finish
  <1>2. /\ pc'[w] = "idle" /\ \A i \in Items : held'[w][i] = None
        /\ \A v \in Workers \ {w} : Rests(v)
    BY <1>1 DEF Finish, Idle, TypeOK, Rests, NoHold
  <1>3. UNCHANGED <<now, mails, voided, orphans, glimpsed>>
    BY DEF Finish
  <1>4. /\ \A i \in Items : stamp'["health"][i] =
                 IF held[w][i] = None THEN stamp["health"][i] ELSE held[w][i]
        /\ \A j \in Jobs \ {"health"}, i \in Items : stamp'[j][i] = stamp[j][i]
    BY <1>1 DEF Finish, TypeOK
  <1>5. QED
    BY <1>1, <1>2, <1>3, <1>4

LEMMA FinishKeeps ==
  ASSUME IInv, NEW w \in Workers, Finish(w), job[w] = "health"
  PROVE  /\ Runs' /\ Locks' /\ OneHolder' /\ Flights' /\ Alone' /\ ClaimsApart'
         /\ Stamped' /\ Messages' /\ Spaced'
  <1>1. Grows /\ \A j, i : Silent(j, i)
    BY HealthCommit, SilentStep DEF Grows
  <1>2. TypeOK /\ "health" \in Jobs
    BY HealthCommit
  <1>3. \A v \in Workers : \A j, i :
           Flies(v, j, i)' => v # w /\ Rests(v) /\ Flies(v, j, i)
    BY HealthCommit, RestFlies DEF Flies, Flying
  <1>4. Runs'
    BY HealthCommit, RestClocked DEF Runs, Clocked, Flying
  <1>5. Locks'
    <2> SUFFICES ASSUME NEW v \in Workers, NEW i \in Items
                 PROVE  Holds(v, i)' /\ Fresh(v, i)'
      BY DEF Locks
    <2>1. CASE v = w
      BY <2>1, HealthCommit DEF Holds, Fresh
    <2>2. CASE v # w /\ held[w][i] = None
      <3>1. stamp'["health"][i] = stamp["health"][i]
        BY <2>2, HealthCommit
      <3>2. QED
        BY <1>1, <2>2, <3>1, HealthCommit, RestHolds
    <2>3. CASE v # w /\ held[w][i] # None
      <3>1. held'[v][i] = None /\ Rests(v) /\ stamp'["health"][i] = held[w][i]
        BY <2>3, HealthCommit DEF IInv, OneHolder, Rests
      <3>2. \/ held[w][i] = stamp["health"][i]
            \/ held[w][i] = ref[w]
        BY <2>3 DEF IInv, Locks, Holds
      <3>3. ASSUME held[w][i] = ref[w], pc[v] # "idle"
            PROVE  ~Due("health", ref[w], ref[v])
        <4>1. ref[v] <= now /\ now <= ref[w] + MaxRun
          BY <3>3, HealthCommit DEF IInv, Runs, Clocked
        <4>2. ref[w] \in Nat /\ ref[v] \in Nat /\ now \in Nat /\ ref[w] # Never
          BY <1>2, NeverAssumption DEF TypeOK
        <4>3. QED
          BY <4>1, <4>2, TimesAssumption DEF Due
      <3>4. Fresh(v, i)'
        BY <3>1, <3>2, <3>3 DEF IInv, Locks, Fresh, Rests
      <3>5. QED
        BY <3>1, <3>4 DEF Holds
    <2>4. QED
      BY <2>1, <2>2, <2>3
  <1>6. OneHolder'
    BY HealthCommit, NoLock DEF Rests
  <1>7. Flights'
    <2> SUFFICES ASSUME NEW v \in Workers, NEW j \in Jobs, NEW i \in Items,
                        Flies(v, j, i)'
                 PROVE  Flight(v, j, i)'
      BY DEF Flights, Flight
    <2>1. j # "health" => stamp'[j][i] = stamp[j][i]
      BY HealthCommit
    <2>2. QED
      BY <1>1, <1>3, <2>1, RestFlight
  <1>8. Alone' /\ ClaimsApart'
    BY <1>3, NoClaim DEF Rests
  <1>9. Stamped'
    <2> SUFFICES ASSUME NEW j \in Jobs, NEW i \in Items, Restores(j)
                 PROVE  Told(j, i)'
      BY DEF Stamped, Told
    <2>1. Told(j, i)
      BY DEF IInv, Stamped
    <2>2. CASE j = "health"
      <3>1. held[w][i] # None => Explained("health", i, held[w][i])
        BY HealthCommit DEF IInv, Locks, Holds
      <3>2. QED
        BY <2>1, <2>2, <3>1, HealthCommit DEF Told, Explained
    <2>3. CASE j # "health"
      <3>1. \A v \in Workers : Flies(v, j, i) => Flies(v, j, i)'
        BY <2>3, RestFlies, HealthCommit DEF Flies
      <3>2. QED
        BY <2>1, <2>3, <3>1, HealthCommit DEF Told, Explained
    <2>4. QED
      BY <2>2, <2>3
  <1>10. Messages'
    <2> SUFFICES ASSUME NEW m \in mails
                 PROVE  m.at <= now' /\ (Live(m)' => Covered(m)')
      BY HealthCommit DEF Messages
    <2>1. /\ m.at <= now /\ (Live(m) => Covered(m)) /\ m.at \in Nat
          /\ m.job \in Jobs /\ m.item \in Items
      BY <1>2 DEF IInv, Messages, TypeOK, Mail
    <2> SUFFICES ASSUME Live(m)' PROVE Covered(m)'
      BY <2>1, HealthCommit
    <2>2. Live(m) /\ Covered(m)
      BY <2>1, HealthCommit DEF Live
    <2>3. CASE m.job = "health" /\ held[w][m.item] # None
      <3>1. Covers(held[w][m.item], m.at)
        BY <2>1, <2>2, <2>3 DEF IInv, Locks, Holds, About
      <3>2. QED
        BY <2>1, <2>3, <3>1, HealthCommit DEF Covered
    <2>4. CASE m.job # "health" \/ held[w][m.item] = None
      <3>1. stamp'[m.job][m.item] = stamp[m.job][m.item]
        BY <2>1, <2>4, HealthCommit
      <3>2. ASSUME NEW u \in Workers, WholeRun(m.job), run[u] = m.run,
                   held[u][m.item] # None
            PROVE  run'[u] = m.run /\ held'[u][m.item] # None
        BY <2>4, <3>2, HealthCommit DEF WholeRun, Rests
      <3>3. QED
        BY <2>2, <3>1, <3>2 DEF Covered
    <2>5. QED
      BY <2>3, <2>4
  <1>11. Spaced'
    BY <1>1 DEF IInv, Spaced, Silent, Spread
  <1>12. QED
    BY <1>4, <1>5, <1>6, <1>7, <1>8, <1>9, <1>10, <1>11

-----------------------------------------------------------------------------
(* A claim *)

\* Due is a matter of the earliest instant.
LEMMA DueBefore ==
  ASSUME NEW j, NEW s \in Stamps, NEW a \in Nat, NEW at \in Nat,
         Covers(s, a), Due(j, s, at)
  PROVE  Due(j, a, at) /\ a <= at
  BY TimesAssumption DEF Due, Covers, Stamps

\* Every message that counts is covered by the stamp that a claim goes by.
LEMMA Past ==
  ASSUME IInv, NEW w \in Workers, AtUpdate(w), ~Locked(w, Head(w)),
         NEW m \in About(job[w], Head(w))
  PROVE  Covers(stamp[job[w]][Head(w)], m.at) /\ m.at \in Nat
  <1>1. m \in mails /\ m.job = job[w] /\ m.item = Head(w) /\ Covered(m)
    BY DEF About, IInv, Messages
  <1>2. m.at \in Nat /\ Head(w) \in Items /\ Head(w) \in todo[w] /\ pc[w] \notin Flying
    BY <1>1, AtWrite DEF IInv, TypeOK, Mail, Flying
  <1>3. \A u \in Workers : m.job = "health" => held[u][Head(w)] = None
    <2> SUFFICES ASSUME NEW u \in Workers, job[w] = "health",
                        held[u][Head(w)] # None
                 PROVE  FALSE
      BY <1>1
    <2>1. job[u] = "health"
      BY <1>2 DEF IInv, Locks, Holds
    <2>2. u = w
      BY <2>1 DEF Locked
    <2>3. QED
      BY <1>2, <2>2, HeldBefore DEF Flies
  <1>4. QED
    BY <1>1, <1>2, <1>3 DEF Covered, WholeRun

\* Of the jobs that give a claim back, nobody else has the item in flight.
LEMMA NobodyFlies ==
  ASSUME IInv, NEW w \in Workers, AtUpdate(w), ~Locked(w, Head(w)), Unclaimed(w),
         Restores(job[w]), NEW v \in Workers
  PROVE  ~Flies(v, job[w], Head(w))
  <1> SUFFICES ASSUME Flies(v, job[w], Head(w)) PROVE FALSE
    OBVIOUS
  <1>1. PICK j \in Jobs, i \in Items : j = job[w] /\ i = Head(w) /\ Restores(j)
    BY AtWrite
  <1>2. Flies(v, j, i) /\ Flight(v, j, i) /\ v # w
    BY <1>1, AtWrite DEF IInv, Flights, Flies, Flying
  <1>3. CASE j = "health"
    <2>1. held[v][i] # None
      BY <1>2, <1>3, AtHand, NeverAssumption DEF Flight, WholeRun
    <2>2. QED
      BY <1>1, <1>2, <2>1 DEF Locked, Flies
  <1>4. CASE j = "proactive"
    <2>1. stamp[j][i] = ref[v] /\ ref[v] \in Nat /\ ref[w] \in Nat /\ now \in Nat
      BY <1>2, <1>4 DEF Flight, Flies, IInv, Runs, Clocked, StampsRunStart, TypeOK
    <2>2. now <= ref[v] + MaxRun /\ ref[w] <= now
      BY <1>2, AtWrite DEF IInv, Runs, Clocked, Flies, Flying
    <2>3. Due(j, ref[v], ref[w])
      BY <1>1, <1>4, <2>1 DEF Unclaimed, At, StampsRunStart
    <2>4. ref[v] < ref[w] - Cooldown
      BY <1>4, <2>1, <2>3, NeverAssumption DEF Due
    <2>5. QED
      BY <2>1, <2>2, <2>4, TimesAssumption
  <1>5. QED
    BY <1>1, <1>3, <1>4 DEF Restores

\* What a claim does.
LEMMA Claims ==
  ASSUME IInv, NEW w \in Workers, ClaimWon(w)
  PROVE  \E j \in Jobs, i \in Items :
           /\ j = job[w] /\ i = Head(w) /\ i \in todo[w] /\ TypeOK
           /\ pc[w] = IF j = "proactive" THEN "claim" ELSE "scan"
           /\ Due(j, stamp[j][i], At(w))
           /\ \A v \in Workers \ {w} : Rests(v)
           /\ UNCHANGED <<now, job, run, ref, seen, mails, voided, orphans, glimpsed>>
           /\ claim'[w] = At(w)
           /\ \/ pc'[w] = "send" /\ todo'[w] = todo[w]
              \/ j = "idle" /\ pc'[w] = "scan" /\ todo'[w] = todo[w] \ {i}
           /\ \A k \in Jobs, l \in Items : k # j \/ l # i => stamp'[k][l] = stamp[k][l]
           /\ \A l \in Items \ {i} : held'[w][l] = held[w][l]
           /\ IF j = "health" THEN stamp'[j][i] = stamp[j][i] /\ held'[w][i] = At(w)
              ELSE stamp'[j][i] = At(w) /\ held'[w][i] = held[w][i]
  <1> USE DEF world, history
  <1>1. PICK j \in Jobs, i \in Items : j = job[w] /\ i = Head(w) /\ i \in todo[w]
    BY AtWrite DEF ClaimWon
  <1>2. /\ pc[w] = IF j = "proactive" THEN "claim" ELSE "scan"
        /\ TypeOK /\ Due(j, stamp[j][i], At(w))
        /\ UNCHANGED <<now, job, run, ref, seen, mails, voided, orphans, glimpsed>>
        /\ claim' = [claim EXCEPT ![w] = At(w)]
    BY <1>1, AtWrite DEF ClaimWon, Unclaimed, IInv
  <1>3. /\ \/ pc'[w] = "send" /\ todo'[w] = todo[w]
           \/ j = "idle" /\ pc'[w] = "scan" /\ todo'[w] = todo[w] \ {i}
        /\ \A v \in Workers \ {w} : pc'[v] = pc[v] /\ todo'[v] = todo[v]
    <2>1. CASE ~(ClaimsBlindly(job[w]) /\ Head(w) \notin mailable)
      BY <1>1, <1>2, <2>1 DEF ClaimWon, TypeOK
    <2>2. CASE ClaimsBlindly(job[w]) /\ Head(w) \notin mailable
      BY <1>1, <1>2, <2>2 DEF ClaimWon, TypeOK, ClaimsBlindly, Advance
    <2>3. QED
      BY <2>1, <2>2
  <1>4. CASE j = "health"
    <2>1. stamp' = stamp /\ held' = [held EXCEPT ![w][i] = At(w)]
      BY <1>1, <1>4 DEF ClaimWon, Put, WholeRun
    <2>2. /\ held'[w][i] = At(w) /\ \A l \in Items \ {i} : held'[w][l] = held[w][l]
          /\ \A v \in Workers \ {w} : held'[v] = held[v]
      BY <1>2, <2>1 DEF TypeOK
    <2>3. \A v \in Workers \ {w} : Rests(v)
      BY <1>2, <1>3, <2>1, <2>2 DEF Rests, TypeOK
    <2>4. QED
      BY <1>1, <1>2, <1>3, <1>4, <2>1, <2>2, <2>3 DEF TypeOK
  <1>5. CASE j # "health"
    <2>1. held' = held /\ stamp' = [stamp EXCEPT ![j][i] = At(w)]
      BY <1>1, <1>5 DEF ClaimWon, Put, WholeRun
    <2>2. /\ stamp'[j][i] = At(w)
          /\ \A k \in Jobs, l \in Items : k # j \/ l # i => stamp'[k][l] = stamp[k][l]
      BY <1>2, <2>1 DEF TypeOK
    <2>3. \A v \in Workers \ {w} : Rests(v)
      BY <1>2, <1>3, <2>1 DEF Rests, TypeOK
    <2>4. QED
      BY <1>1, <1>2, <1>3, <1>5, <2>1, <2>2, <2>3 DEF TypeOK
  <1>6. QED
    BY <1>4, <1>5

LEMMA ClaimKeeps ==
  ASSUME IInv, NEW w \in Workers, ClaimWon(w)
  PROVE  /\ Runs' /\ Locks' /\ OneHolder' /\ Flights' /\ Alone' /\ ClaimsApart'
         /\ Stamped' /\ Messages' /\ Spaced'
  <1>1. PICK j \in Jobs, i \in Items :
           /\ j = job[w] /\ i = Head(w) /\ i \in todo[w] /\ TypeOK
           /\ pc[w] = IF j = "proactive" THEN "claim" ELSE "scan"
           /\ Due(j, stamp[j][i], At(w))
           /\ \A v \in Workers \ {w} : Rests(v)
           /\ UNCHANGED <<now, job, run, ref, seen, mails, voided, orphans, glimpsed>>
           /\ claim'[w] = At(w)
           /\ \/ pc'[w] = "send" /\ todo'[w] = todo[w]
              \/ j = "idle" /\ pc'[w] = "scan" /\ todo'[w] = todo[w] \ {i}
           /\ \A k \in Jobs, l \in Items : k # j \/ l # i => stamp'[k][l] = stamp[k][l]
           /\ \A l \in Items \ {i} : held'[w][l] = held[w][l]
           /\ IF j = "health" THEN stamp'[j][i] = stamp[j][i] /\ held'[w][i] = At(w)
              ELSE stamp'[j][i] = At(w) /\ held'[w][i] = held[w][i]
    BY Claims
  <1>2. PICK a \in Nat : a = At(w)
    BY AtHand
  <1>3. PICK p \in Stamps : p = stamp[j][i]
    BY <1>1 DEF TypeOK
  <1>4. /\ AtUpdate(w) /\ ~Locked(w, i) /\ Unclaimed(w) /\ ~Locked(w, Head(w))
        /\ Due(j, p, a)
    BY <1>1, <1>2, <1>3 DEF ClaimWon
  <1>5. /\ ref[w] <= a /\ a <= now /\ now \in Nat /\ ref[w] \in Nat
        /\ StampsRunStart(j) => a = ref[w]
        /\ now <= ref[w] + MaxRun
    BY <1>1, <1>2 DEF At, IInv, Runs, Clocked, TypeOK
  <1>6. Grows /\ \A k, l : Silent(k, l)
    BY <1>1, SilentStep DEF Grows
  <1>7. \A m \in About(j, i) : Covers(p, m.at) /\ m.at \in Nat
    BY <1>1, <1>3, <1>4, Past
  <1>8. \A v \in Workers : Restores(j) => ~Flies(v, j, i)
    BY <1>1, <1>4, NobodyFlies
  <1>9. \A v \in Workers \ {w} : Rests(v) /\ \A k, l : Flies(v, k, l)' <=> Flies(v, k, l)
    BY <1>1, RestFlies
  <1>10. /\ \A k, l : Flies(w, k, l)' => k = j /\ l = i /\ pc'[w] = "send"
         /\ \A k, l : ~Flies(w, k, l)
    <2>1. CASE pc'[w] = "send"
      BY <1>1, <2>1 DEF Flies, Head, Flying
    <2>2. CASE pc'[w] = "scan"
      BY <1>1, <2>2 DEF Flies, Flying
    <2>3. QED
      BY <1>1, <2>1, <2>2
  <1>11. Runs'
    <2>1. Clocked(w)'
      BY <1>1, <1>2, <1>5 DEF Clocked, IInv, Runs, Flying
    <2>2. QED
      BY <1>1, <1>9, <2>1, RestClocked DEF Runs
  <1>12. j = "health" => \A v \in Workers : held[v][i] = None
    <2> SUFFICES ASSUME j = "health", NEW v \in Workers, held[v][i] # None PROVE FALSE
      OBVIOUS
    <2>1. job[v] = "health"
      BY DEF IInv, Locks, Holds
    <2>2. v = w
      BY <1>1, <1>4, <2>1 DEF Locked
    <2>3. QED
      BY <1>1, <1>10, <2>2, HeldBefore
  <1>13. OneHolder'
    <2> SUFFICES ASSUME NEW u \in Workers, NEW v \in Workers, NEW l \in Items,
                        held'[u][l] # None, held'[v][l] # None
                 PROVE  u = v
      BY DEF OneHolder
    <2>1. CASE j = "health" /\ l = i
      BY <1>9, <1>12, <2>1 DEF Rests
    <2>2. CASE j # "health" \/ l # i
      BY <1>1, <1>9, <2>2 DEF Rests, IInv, OneHolder
    <2>3. QED
      BY <2>1, <2>2
  <1>14. Locks'
    <2> SUFFICES ASSUME NEW v \in Workers, NEW l \in Items
                 PROVE  Holds(v, l)' /\ Fresh(v, l)'
      BY DEF Locks
    <2>1. CASE "health" \notin Jobs
      <3>1. pc'[v] # "idle" => job'[v] # "health"
        BY <1>11, <2>1 DEF Runs, Clocked
      <3>2. held'[v][l] = None
        BY <1>1, <1>9, <2>1 DEF IInv, Locks, Holds, Runs, Clocked, Rests
      <3>3. QED
        BY <3>1, <3>2 DEF Holds, Fresh
    <2>2. CASE "health" \in Jobs
      <3>1. stamp'["health"][l] = stamp["health"][l]
        BY <1>1, <2>2
      <3>2. CASE v # w
        BY <1>6, <1>9, <3>1, <3>2, RestHolds
      <3>3. CASE v = w /\ j # "health"
        <4>1. held'[w][l] = None
          BY <1>1, <3>3 DEF IInv, Locks, Holds
        <4>2. QED
          BY <1>1, <3>3, <4>1 DEF Holds, Fresh
      <3>4. CASE v = w /\ j = "health"
        <4>1. seen'[w][l] = seen[w][l]
          BY <1>1, <3>4
        <4>2. Fresh(w, l)'
          BY <1>1, <3>1, <4>1 DEF IInv, Locks, Fresh
        <4>3. ASSUME l # i PROVE Holds(w, l)'
          <5>1. held[w][l] # None => l \notin todo[w]
            BY <1>1, <1>10, HeldBefore
          <5>2. Holds(w, l) /\ Silent("health", l)
            BY <1>6 DEF IInv, Locks
          <5>3. todo'[w] \subseteq todo[w] /\ held'[w][l] = held[w][l]
            BY <1>1, <4>3
          <5>4. pc'[w] # "idle"
            BY <1>1
          <5>5. QED
            <6> SUFFICES ASSUME held[w][l] # None PROVE Holds(w, l)'
              BY <5>3 DEF Holds
            <6>1. /\ stamp'["health"][l] = seen'[w][l] /\ l \notin todo'[w]
                  /\ job'[w] = "health"
              BY <1>1, <3>1, <3>4, <4>1, <5>1, <5>2, <5>3 DEF Holds
            <6>2. \/ held'[w][l] = seen'[w][l]
                  \/ held'[w][l] = ref'[w] /\ Due("health", seen'[w][l], ref'[w])
              BY <1>1, <4>1, <5>2, <5>3 DEF Holds
            <6>3. Explained("health", l, held[w][l])'
              BY <1>1, <5>1, <5>2, <5>3 DEF Holds, Explained
            <6>4. \A m \in About("health", l)' : Covers(held'[w][l], m.at)
              BY <5>2, <5>3 DEF Holds, Silent
            <6>5. QED
              BY <5>4, <6>1, <6>2, <6>3, <6>4 DEF Holds
        <4>4. ASSUME l = i PROVE Holds(w, l)'
          <5>1. pc'[w] = "send" /\ held'[w][i] = a /\ Head(w)' = i /\ a = ref[w]
                /\ todo'[w] = todo[w]
            BY <1>1, <1>2, <1>5, <3>4 DEF Head, StampsRunStart
          <5>2. seen[w][i] = p /\ stamp["health"][i] = p
            BY <1>1, <1>3, <1>4, <1>5, <3>4 DEF IInv, Locks, Fresh, StampsRunStart
          <5>3. \A m \in About("health", i)' : Covers(a, m.at)
            BY <1>4, <1>6, <1>7, <3>4, DueBefore, NeverAssumption DEF Silent, Covers
          <5>4. QED
            <6>1. /\ job'[w] = "health" /\ ref'[w] = ref[w] /\ i \in todo'[w]
                  /\ stamp'["health"][i] = p /\ seen'[w][i] = p
              BY <1>1, <3>1, <3>4, <4>1, <4>4, <5>1, <5>2
            <6>2. Due("health", p, a)
              BY <1>4, <3>4
            <6>3. QED
              BY <4>4, <5>1, <5>3, <6>1, <6>2 DEF Holds, Flying
        <4>5. QED
          BY <3>4, <4>2, <4>3, <4>4
      <3>5. QED
        BY <3>2, <3>3, <3>4
    <2>3. QED
      BY <2>1, <2>2
  <1>15. Flights'
    <2> SUFFICES ASSUME NEW v \in Workers, NEW k \in Jobs, NEW l \in Items,
                        Flies(v, k, l)'
                 PROVE  Flight(v, k, l)'
      BY DEF Flights, Flight
    <2>1. CASE v # w /\ (k # j \/ l # i)
      BY <1>1, <1>6, <1>9, <2>1, RestFlight
    <2>2. CASE v # w /\ k = j /\ l = i
      <3>1. ~Restores(j) /\ Flight(v, j, i) /\ Rests(v) /\ stamp'[j][i] = a
        BY <1>1, <1>2, <1>8, <1>9, <2>2 DEF IInv, Flights, Restores
      <3>2. claim[v] \in Nat /\ Covers(p, claim[v])
        BY <1>1, <1>3, <1>9, <2>2, <3>1 DEF Flight, Restores, WholeRun, TypeOK
      <3>3. Covers(a, claim[v])
        BY <1>4, <3>2, DueBefore, NeverAssumption DEF Covers
      <3>4. QED
        BY <1>1, <1>6, <1>9, <2>2, <3>1, <3>3
        DEF Flight, Rests, Silent, Restores, WholeRun
    <2>3. CASE v = w
      <3>1. k = j /\ l = i /\ pc'[w] = "send" /\ claim'[w] = a
        BY <1>1, <1>2, <1>10, <2>3
      <3>2. \A m \in About(j, i)' : Covers(p, m.at) /\ Spread(j, m.at, a)
        BY <1>4, <1>6, <1>7, DueBefore DEF Silent, Spread
      <3>3. ASSUME j = "health"
            PROVE  /\ Explained(j, i, seen[w][i])
                   /\ \A m \in About(j, i)' : Covers(seen[w][i], m.at)
        <4>1. Fresh(w, i) /\ pc[w] # "idle" /\ job[w] = "health"
          BY <1>1, <3>3 DEF IInv, Locks
        <4>2. stamp["health"][i] = p /\ Due("health", p, ref[w])
          BY <1>3, <1>4, <1>5, <3>3 DEF StampsRunStart
        <4>3. seen[w][i] = p
          BY <4>1, <4>2 DEF Fresh
        <4>4. Explained(j, i, p)
          BY <1>1, <1>3, <1>8, <3>3 DEF IInv, Stamped, Told, Restores
        <4>5. QED
          BY <3>2, <4>3, <4>4
      <3>4. ASSUME j = "proactive"
            PROVE  /\ Explained(j, i, seen[w][i])
                   /\ \A m \in About(j, i)' : Covers(seen[w][i], m.at)
        <4>1. Glance(w, i) /\ pc[w] = "claim" /\ Head(w) = i
          BY <1>1, <3>4 DEF IInv, Glances
        <4>2. \A m \in About(j, i) : m.at < ref[w] - Cooldown /\ m.at \in Nat
          <5>1. a = ref[w] /\ Due(j, p, ref[w])
            BY <1>4, <1>5, <3>4 DEF StampsRunStart
          <5>2. p # Never => p \in Nat /\ p < ref[w] - Cooldown
            BY <1>3, <3>4, <5>1 DEF Due, Stamps
          <5>3. QED
            BY <1>5, <1>7, <5>2, TimesAssumption DEF Covers
        <4>3. \A m \in About(j, i) : Covers(seen[w][i], m.at)
          BY <1>5, <3>4, <4>1, <4>2, TimesAssumption DEF Glance
        <4>4. QED
          BY <1>6, <3>4, <4>1, <4>3 DEF Glance, Silent
      <3>5. IF WholeRun(j) THEN held'[w][i] = a ELSE stamp'[j][i] = a
        BY <1>1, <1>2 DEF WholeRun
      <3>6. Covers(a, a)
        BY NeverAssumption DEF Covers
      <3>7. ASSUME Restores(j)
            PROVE  /\ Explained(j, i, seen[w][i])'
                   /\ \A m \in About(j, i)' : Covers(seen'[w][i], m.at)
        <4>1. /\ Explained(j, i, seen[w][i])
              /\ \A m \in About(j, i)' : Covers(seen[w][i], m.at)
          BY <3>3, <3>4, <3>7 DEF Restores
        <4>2. seen'[w][i] = seen[w][i]
          BY <1>1
        <4>3. QED
          BY <1>6, <4>1, <4>2 DEF Explained, Grows
      <3>8. QED
        BY <1>1, <2>3, <3>1, <3>2, <3>5, <3>6, <3>7 DEF Flight, WholeRun
    <2>4. QED
      BY <2>1, <2>2, <2>3
  <1>16. Alone'
    <2> SUFFICES ASSUME NEW u \in Workers, NEW v \in Workers, NEW k \in Jobs,
                        NEW l \in Items, Restores(k), Flies(u, k, l)', Flies(v, k, l)'
                 PROVE  u = v
      BY DEF Alone
    <2>1. CASE k = j /\ l = i
      BY <1>8, <1>9, <2>1
    <2>2. CASE k # j \/ l # i
      BY <1>9, <1>10, <2>2 DEF IInv, Alone
    <2>3. QED
      BY <2>1, <2>2
  <1>17. ClaimsApart'
    <2>1. ASSUME NEW v \in Workers \ {w}, Flies(v, j, i), ~Restores(j)
          PROVE  Spread(j, claim[v], a)
      <3>1. Covers(p, claim[v]) /\ claim[v] \in Nat
        BY <1>1, <1>3, <2>1 DEF IInv, Flights, Flight, Restores, WholeRun, TypeOK
      <3>2. QED
        BY <1>4, <3>1, DueBefore DEF Spread
    <2> SUFFICES ASSUME NEW u \in Workers, NEW v \in Workers, NEW k \in Jobs,
                        NEW l \in Items, u # v, Flies(u, k, l)', Flies(v, k, l)',
                        pc'[u] = "send", pc'[v] = "send"
                 PROVE  Spread(k, claim'[u], claim'[v])
      BY DEF ClaimsApart, Spread
    <2>2. CASE u = w
      BY <1>1, <1>2, <1>8, <1>9, <1>10, <2>1, <2>2 DEF Rests, Spread
    <2>3. CASE v = w
      BY <1>1, <1>2, <1>8, <1>9, <1>10, <2>1, <2>3 DEF Rests, Spread
    <2>4. CASE u # w /\ v # w
      BY <1>9, <2>4 DEF Rests, IInv, ClaimsApart
    <2>5. QED
      BY <2>2, <2>3, <2>4
  <1>18. Stamped'
    <2> SUFFICES ASSUME NEW k \in Jobs, NEW l \in Items, Restores(k)
                 PROVE  Told(k, l)'
      BY DEF Stamped, Told
    <2>1. Told(k, l)
      BY DEF IInv, Stamped
    <2>2. CASE k = j /\ l = i /\ j = "proactive"
      <3>1. Flies(w, j, i)'
        BY <1>1, <2>2 DEF Flies, Head, Flying
      <3>2. QED
        BY <2>2, <3>1 DEF Told
    <2>3. CASE stamp'[k][l] = stamp[k][l]
      <3>1. \A v \in Workers : Flies(v, k, l) => Flies(v, k, l)'
        BY <1>9, <1>10
      <3>2. QED
        BY <1>1, <2>1, <2>3, <3>1 DEF Told, Explained
    <2>4. QED
      BY <1>1, <2>2, <2>3 DEF Restores
  <1>19. Messages'
    <2> SUFFICES ASSUME NEW m \in mails
                 PROVE  m.at <= now /\ (Live(m)' => Covered(m)')
      BY <1>1 DEF Messages
    <2>1. /\ m.at <= now /\ (Live(m) => Covered(m)) /\ m.at \in Nat
          /\ m.job \in Jobs /\ m.item \in Items
      BY <1>1 DEF IInv, Messages, TypeOK, Mail
    <2> SUFFICES ASSUME Live(m)' PROVE Covered(m)'
      BY <2>1
    <2>2. Live(m) /\ Covered(m)
      BY <1>1, <2>1 DEF Live
    <2>3. CASE m.job = j /\ m.item = i /\ j # "health"
      <3>1. m \in About(j, i)
        BY <2>2, <2>3 DEF About
      <3>2. Covers(a, m.at)
        BY <1>4, <1>7, <3>1, DueBefore, NeverAssumption DEF Covers
      <3>3. QED
        BY <1>1, <1>2, <2>3, <3>2 DEF Covered
    <2>4. CASE m.job # j \/ m.item # i \/ j = "health"
      <3>1. stamp'[m.job][m.item] = stamp[m.job][m.item]
        BY <1>1, <2>1, <2>4
      <3>2. \A u \in Workers : held[u][m.item] # None =>
               held'[u][m.item] # None /\ run'[u] = run[u]
        BY <1>1, <1>2, <1>9, <1>12, <2>1, NeverAssumption DEF Rests
      <3>3. QED
        BY <2>2, <3>1, <3>2 DEF Covered
    <2>5. QED
      BY <2>3, <2>4
  <1>20. Spaced'
    BY <1>6 DEF IInv, Spaced, Silent, Spread
  <1>21. QED
    BY <1>11, <1>13, <1>14, <1>15, <1>16, <1>17, <1>18, <1>19, <1>20

-----------------------------------------------------------------------------
(* A message *)

LEMMA SendKeeps ==
  ASSUME IInv, NEW w \in Workers, Send(w)
  PROVE  /\ Runs' /\ Locks' /\ OneHolder' /\ Flights' /\ Alone' /\ ClaimsApart'
         /\ Stamped' /\ Messages' /\ Spaced'
  <1> USE DEF world
  <1>1. PICK j \in Jobs, i \in Items : j = job[w] /\ i = Head(w)
    BY AtHand DEF Send, Flying
  <1>2. PICK n : n.job = j /\ n.item = i /\ n.at = claim[w] /\ n.run = run[w]
                 /\ \/ mails' = mails /\ pc'[w] = "unsent"
                    \/ /\ mails' = mails \cup {n}
                       /\ \/ pc'[w] = "sent"
                          \/ pc'[w] = "unsent" /\ ~n.sure
    <2>1. PICK says \in BOOLEAN, took \in BOOLEAN :
             /\ says => took
             /\ pc' = [pc EXCEPT ![w] = IF says THEN "sent" ELSE "unsent"]
             /\ mails' = IF ~took THEN mails
                         ELSE mails \cup {[job |-> job[w], item |-> Head(w),
                                           at |-> claim[w], run |-> run[w],
                                           sure |-> says]}
      BY DEF Send
    <2> DEFINE n == [job |-> job[w], item |-> Head(w), at |-> claim[w],
                     run |-> run[w], sure |-> says]
    <2>2. /\ n.job = j /\ n.item = i /\ n.at = claim[w] /\ n.run = run[w]
          /\ n.sure = says
      BY <1>1
    <2>3. CASE says
      BY <2>1, <2>2, <2>3 DEF IInv, TypeOK
    <2>4. CASE ~says
      BY <2>1, <2>2, <2>4 DEF IInv, TypeOK
    <2>5. QED
      BY <2>3, <2>4
  <1>3. /\ UNCHANGED <<now, stamp, job, run, ref, todo, seen, held, claim, voided, orphans, glimpsed>>
        /\ pc[w] = "send" /\ TypeOK
        /\ \A v \in Workers \ {w} : Rests(v)
    BY DEF Send, Rests, IInv, TypeOK
  <1>4. Grows
    BY <1>2, <1>3 DEF Grows
  <1>5. Flies(w, j, i) /\ Flight(w, j, i) /\ claim[w] \in Nat /\ i \in todo[w]
    BY <1>1, <1>3, AtHand DEF Flies, Flying, IInv, Flights
  <1>6. \A v \in Workers : \A k, l : Flies(v, k, l)' <=> Flies(v, k, l)
    <2>1. \A k, l : Flies(w, k, l)' <=> Flies(w, k, l)
      BY <1>2, <1>3 DEF Flies, Head, Flying
    <2>2. QED
      BY <1>3, <2>1, RestFlies
  <1>7. /\ \A k, l : k # j \/ l # i => Silent(k, l)
        /\ About(j, i)' \subseteq About(j, i) \cup {n}
        /\ Restores(j) /\ pc'[w] # "sent" => Silent(j, i)
    BY <1>2, <1>3 DEF Silent, About, Live
  <1>8. Runs'
    <2>1. Clocked(w)'
      BY <1>2, <1>3 DEF IInv, Runs, Clocked, Flying
    <2>2. QED
      BY <1>3, <2>1, RestClocked DEF Runs
  <1>9. OneHolder'
    BY <1>3, NoLock
  <1>10. Alone' /\ ClaimsApart'
    BY <1>2, <1>3, <1>6, NoClaim DEF Rests
  <1>11. \A v \in Workers, l \in Items :
            held[v][l] # None /\ ~Silent("health", l) =>
               l = i /\ v = w /\ held[w][i] = claim[w]
    <2> SUFFICES ASSUME NEW v \in Workers, held[v][i] # None, j = "health"
                 PROVE  v = w /\ held[w][i] = claim[w]
      BY <1>7
    <2>1. held[w][i] = claim[w] /\ held[w][i] # None
      BY <1>5, NeverAssumption DEF Flight, WholeRun
    <2>2. QED
      BY <2>1 DEF IInv, OneHolder
  <1>12. Locks'
    <2> SUFFICES ASSUME NEW v \in Workers, NEW l \in Items
                 PROVE  Holds(v, l)' /\ Fresh(v, l)'
      BY DEF Locks
    <2>1. Holds(v, l) /\ Fresh(v, l)
      BY DEF IInv, Locks
    <2>2. Fresh(v, l)'
      BY <1>2, <1>3, <2>1 DEF Fresh, Rests
    <2>3. /\ pc[v] # "idle" => pc'[v] # "idle"
          /\ pc[v] \in Flying => pc'[v] \in Flying
          /\ Head(v)' = Head(v)
      BY <1>2, <1>3 DEF Rests, Flying, Head
    <2>4. Explained("health", l, held[v][l]) => Explained("health", l, held[v][l])'
      BY <1>3, <1>4 DEF Explained, Grows
    <2>5. held[v][l] # None => \A m \in About("health", l)' : Covers(held[v][l], m.at)
      <3>1. CASE Silent("health", l)
        BY <2>1, <3>1 DEF Holds, Silent
      <3>2. ASSUME held[v][l] # None, ~Silent("health", l)
            PROVE  \A m \in About("health", l)' : Covers(held[v][l], m.at)
        <4>1. l = i /\ v = w /\ held[w][i] = claim[w] /\ j = "health"
          BY <1>7, <1>11, <3>2
        <4>2. Covers(held[w][i], n.at)
          BY <1>2, <1>5, <4>1, NeverAssumption DEF Covers
        <4>3. QED
          BY <1>7, <2>1, <3>2, <4>1, <4>2 DEF Holds
      <3>3. QED
        BY <3>1, <3>2
    <2>6. Holds(v, l)'
      BY <1>3, <2>1, <2>3, <2>4, <2>5 DEF Holds
    <2>7. QED
      BY <2>2, <2>6
  <1>13. Flights'
    <2> SUFFICES ASSUME NEW v \in Workers, NEW k \in Jobs, NEW l \in Items,
                        Flies(v, k, l)
                 PROVE  Flight(v, k, l)'
      BY <1>6 DEF Flights, Flight
    <2>1. CASE k # j \/ l # i
      <3>1. Silent(k, l)
        BY <1>7, <2>1
      <3>2. v # w
        BY <1>1, <2>1 DEF Flies
      <3>3. QED
        BY <1>3, <1>4, <3>1, <3>2, RestFlight
    <2>2. CASE v # w /\ k = j /\ l = i
      <3>1. ~Restores(j) /\ Flight(v, j, i)
        BY <1>5, <2>2 DEF IInv, Alone, Flights
      <3>2. pc[v] = "send" => Spread(j, n.at, claim[v])
        BY <1>2, <1>3, <1>5, <2>2 DEF IInv, ClaimsApart
      <3>3. pc'[v] = pc[v] /\ mails \subseteq mails'
        BY <1>2, <1>3, <2>2 DEF Rests
      <3>4. pc'[v] = "send" => \A m \in About(j, i)' : Spread(j, m.at, claim[v])
        BY <1>7, <2>2, <3>1, <3>2, <3>3 DEF Flight
      <3>5. pc'[v] = "sent" =>
               \E m \in mails' : m.job = j /\ m.item = i /\ m.at = claim[v]
        BY <2>2, <3>1, <3>3 DEF Flight
      <3>6. QED
        BY <1>3, <2>2, <3>1, <3>4, <3>5 DEF Flight, Restores, WholeRun, Spread
    <2>3. CASE v = w
      <3>1. k = j /\ l = i /\ pc'[w] \in {"sent", "unsent"}
        BY <1>1, <1>2, <2>3 DEF Flies
      <3>2. pc'[w] = "sent" =>
               \E m \in mails' : m.job = j /\ m.item = i /\ m.at = claim[w]
        BY <1>2
      <3>3. Restores(j) => Explained(j, i, seen[w][i])'
        BY <1>3, <1>4, <1>5 DEF Flight, Explained, Grows
      <3>4. Restores(j) /\ pc'[w] # "sent" =>
               \A m \in About(j, i)' : Covers(seen[w][i], m.at)
        BY <1>3, <1>5, <1>7 DEF Flight, Silent
      <3>5. QED
        BY <1>3, <1>5, <2>3, <3>1, <3>2, <3>3, <3>4 DEF Flight
    <2>4. QED
      BY <2>1, <2>2, <2>3
  <1>14. Stamped'
    <2> SUFFICES ASSUME NEW k \in Jobs, NEW l \in Items
                 PROVE  Told(k, l)'
      BY DEF Stamped
    <2>1. Told(k, l)
      BY DEF IInv, Stamped
    <2>2. Explained(k, l, stamp[k][l]) => Explained(k, l, stamp[k][l])'
      BY <1>3, <1>4 DEF Explained, Grows
    <2>3. QED
      BY <1>6, <2>1, <2>2 DEF Told
  <1>15. Messages'
    <2>1. \A m \in mails : Covered(m) => Covered(m)'
      BY <1>3 DEF Covered
    <2>2. \A m \in mails : Live(m)' => Live(m)
      BY <1>3 DEF Live
    <2>3. Covered(n)'
      <3>1. CASE WholeRun(j)
        <4>1. held[w][i] # None
          BY <1>5, <3>1, NeverAssumption DEF Flight
        <4>2. QED
          BY <1>2, <1>3, <3>1, <4>1 DEF Covered
      <3>2. CASE ~WholeRun(j)
        BY <1>2, <1>3, <1>5, <3>2 DEF Covered, Flight
      <3>3. QED
        BY <3>1, <3>2
    <2>4. n.at <= now
      BY <1>2, <1>3 DEF IInv, Runs, Clocked, Flying
    <2>5. QED
      BY <1>2, <1>3, <2>1, <2>2, <2>3, <2>4 DEF IInv, Messages
  <1>16. Spaced'
    <2>1. \A m \in About(j, i) : Spread(j, m.at, n.at)
      BY <1>2, <1>3, <1>5 DEF Flight
    <2>2. \A x, y : Spread(j, x, y) => Spread(j, y, x)
      BY DEF Spread
    <2> SUFFICES ASSUME NEW k \in Jobs, NEW l \in Items, NEW x \in About(k, l)',
                        NEW y \in About(k, l)', x # y
                 PROVE  Spread(k, x.at, y.at)
      BY DEF Spaced, Spread
    <2>3. CASE k # j \/ l # i
      BY <1>7, <2>3 DEF Silent, IInv, Spaced
    <2>4. CASE k = j /\ l = i
      BY <1>7, <2>1, <2>2, <2>4 DEF IInv, Spaced
    <2>5. QED
      BY <2>3, <2>4
  <1>17. QED
    BY <1>8, <1>9, <1>10, <1>12, <1>13, <1>14, <1>15, <1>16

-----------------------------------------------------------------------------
(* Between the read and the claim *)

\* A worker that rests keeps what it read; a message that is added comes too
\* late for it to matter.
LEMMA GlanceRests ==
  ASSUME IInv, NEW v \in Workers, Rests(v), Grows, NEW i \in Items,
         \A m \in About("proactive", i)' :
            m \in About("proactive", i) \/ ref[v] - Cooldown <= m.at
  PROVE  Glance(v, i)'
  <1>1. Glance(v, i) /\ (Head(v) = i <=> Head(v)' = i)
    BY DEF IInv, Glances, Rests, Head
  <1>2. \A x : Explained("proactive", i, x) => Explained("proactive", i, x)'
    BY DEF Explained, Grows
  <1>3. QED
    BY <1>1, <1>2 DEF Glance, Rests

LEMMA GlanceLook ==
  ASSUME IInv, NEW w \in Workers, Look(w)
  PROVE  Glances'
  <1> USE DEF world
  <1>1. /\ job[w] = "proactive" /\ "proactive" \in Jobs /\ Head(w) \in Items /\ TypeOK
        /\ pc[w] = "scan"
    BY AtHand DEF Look, Scanning, LooksFirst, Restores, WholeRun, IInv
  <1>2. PICK h \in Items : h = Head(w)
    BY <1>1
  <1>3. /\ seen'[w][h] = stamp["proactive"][h] /\ \A v \in Workers \ {w} : Rests(v)
        /\ Head(w)' = h /\ UNCHANGED <<mails, voided, orphans, stamp, ref>>
        /\ InFlight("proactive", h) => <<"proactive", h, stamp["proactive"][h]>> \in glimpsed'
        /\ glimpsed \subseteq glimpsed'
    <2>1. /\ seen' = [seen EXCEPT ![w][h] = stamp["proactive"][h]]
          /\ pc' = [pc EXCEPT ![w] = "claim"]
          /\ UNCHANGED <<job, run, ref, todo, held, claim, mails, voided, orphans, stamp>>
      BY <1>1, <1>2 DEF Look
    <2>2. /\ InFlight("proactive", h) => <<"proactive", h, stamp["proactive"][h]>> \in glimpsed'
          /\ glimpsed \subseteq glimpsed'
      BY <1>1, <1>2 DEF Look
    <2>3. \A v \in Workers \ {w} : Rests(v)
      BY <1>1, <2>1 DEF TypeOK, Rests
    <2>4. Head(w)' = h
      BY <1>2, <2>1 DEF Head
    <2>5. seen'[w][h] = stamp["proactive"][h]
      BY <1>1, <2>1 DEF TypeOK
    <2>6. QED
      BY <2>1, <2>2, <2>3, <2>4, <2>5
  <1>4. Grows /\ \A j, i : Silent(j, i)
    BY <1>3, SilentStep DEF Grows
  <1>5. Explained("proactive", h, stamp["proactive"][h])'
    <2>1. Told("proactive", h)
      BY <1>1 DEF IInv, Stamped
    <2>2. (\E v \in Workers : Flies(v, "proactive", h)) => InFlight("proactive", h)
      BY DEF Flies, Flying, InFlight
    <2>3. QED
      BY <1>3, <2>1, <2>2 DEF Told, Restores, Explained
  <1>6. \A m \in About("proactive", h)' : Covers(stamp["proactive"][h], m.at)
    <2> SUFFICES ASSUME NEW m \in About("proactive", h)
                 PROVE  Covers(stamp["proactive"][h], m.at)
      BY <1>4 DEF Silent
    <2>1. QED
      BY DEF About, IInv, Messages, Covered, WholeRun
  <1>7. ASSUME NEW v \in Workers, NEW i \in Items PROVE Glance(v, i)'
    <2>1. CASE v # w
      BY <1>3, <1>4, <2>1, GlanceRests DEF Silent
    <2>2. CASE v = w
      BY <1>3, <1>5, <1>6, <2>2 DEF Glance, Explained
    <2>3. QED
      BY <2>1, <2>2
  <1>8. QED
    BY <1>7 DEF Glances

\* A step that sends nothing and leaves no worker between the two but who was.
LEMMA GlanceQuiet ==
  ASSUME IInv, Grows, mails' = mails,
         \A v \in Workers : Rests(v) \/ pc'[v] # "claim"
  PROVE  Glances'
  <1>1. \A j, i : Silent(j, i)
    BY SilentStep
  <1>2. ASSUME NEW v \in Workers, NEW i \in Items PROVE Glance(v, i)'
    <2>1. CASE Rests(v)
      BY <1>1, <2>1, GlanceRests DEF Silent
    <2>2. CASE pc'[v] # "claim"
      BY <2>2 DEF Glance
    <2>3. QED
      BY <2>1, <2>2
  <1>3. QED
    BY <1>2 DEF Glances

LEMMA GlanceSend ==
  ASSUME IInv, NEW w \in Workers, Send(w)
  PROVE  Glances'
  <1> USE DEF world
  <1>1. /\ TypeOK /\ pc[w] = "send" /\ pc'[w] # "claim"
        /\ \A v \in Workers \ {w} : Rests(v)
        /\ UNCHANGED <<voided, orphans, glimpsed>>
    BY DEF Send, IInv, TypeOK, Rests
  <1>2. \E n : /\ n.at = claim[w] /\ mails \subseteq mails'
                /\ mails' \subseteq mails \cup {n}
    <2>1. PICK says \in BOOLEAN, took \in BOOLEAN :
             mails' = IF ~took THEN mails
                      ELSE mails \cup {[job |-> job[w], item |-> Head(w),
                                        at |-> claim[w], run |-> run[w],
                                        sure |-> says]}
      BY DEF Send
    <2> DEFINE n == [job |-> job[w], item |-> Head(w), at |-> claim[w],
                     run |-> run[w], sure |-> says]
    <2>2. n.at = claim[w] /\ mails \subseteq mails' /\ mails' \subseteq mails \cup {n}
      BY <2>1
    <2>3. QED
      BY <2>2
  <1>3. ASSUME NEW v \in Workers, NEW i \in Items PROVE Glance(v, i)'
    <2>1. CASE v = w \/ pc'[v] # "claim"
      BY <1>1, <2>1 DEF Glance
    <2>2. CASE v # w /\ pc'[v] = "claim"
      <3>1. Rests(v) /\ pc[v] # "idle" /\ Grows
        BY <1>1, <1>2, <2>2 DEF Rests, Grows
      <3>2. /\ claim[w] \in Nat /\ ref[v] \in Nat /\ now \in Nat /\ ref[w] \in Nat
            /\ ref[w] <= claim[w] /\ now <= ref[w] + MaxRun /\ ref[v] <= now
        BY <1>1, <3>1 DEF IInv, Runs, Clocked, Flying, TypeOK
      <3>3. ref[v] - Cooldown <= claim[w]
        BY <3>2, TimesAssumption
      <3>4. \A m \in About("proactive", i)' :
               m \in About("proactive", i) \/ ref[v] - Cooldown <= m.at
        <4>1. PICK n : n.at = claim[w] /\ mails' \subseteq mails \cup {n}
          BY <1>2
        <4>2. QED
          BY <1>1, <3>3, <4>1 DEF About, Live
      <3>5. QED
        BY <3>1, <3>4, GlanceRests
    <2>3. QED
      BY <2>1, <2>2
  <1>4. QED
    BY <1>3 DEF Glances

LEMMA GlancesNext == IInv /\ [Next]_vars => Glances'
  <1> SUFFICES ASSUME IInv, [Next]_vars PROVE Glances'
    OBVIOUS
  <1> USE DEF world, worker, history
  <1>1. TypeOK
    BY DEF IInv
  <1>2. ASSUME NEW w \in Workers, NEW j \in Jobs, Start(w, j) PROVE Glances'
    BY <1>1, <1>2, GlanceQuiet DEF Start, TypeOK, Grows, Rests
  <1>3. ASSUME NEW w \in Workers, PassOver(w) \/ ClaimLost(w) \/ Sent(w) PROVE Glances'
    BY <1>1, <1>3, GlanceQuiet
    DEF PassOver, ClaimLost, Sent, Advance, TypeOK, Grows, Rests
  <1>4. ASSUME NEW w \in Workers, ClaimWon(w) PROVE Glances'
    <2>1. /\ \A v \in Workers \ {w} : Rests(v)
          /\ pc'[w] # "claim" /\ UNCHANGED <<mails, voided, orphans, glimpsed>>
      BY <1>4, Claims
    <2>2. QED
      BY <2>1, GlanceQuiet DEF Grows
  <1>5. ASSUME NEW w \in Workers, Unsent(w) PROVE Glances'
    <2>1. \A v \in Workers \ {w} : held'[v] = held[v]
      BY <1>1, <1>5 DEF Unsent, Put, TypeOK
    <2>2. QED
      BY <1>1, <1>5, <2>1, GlanceQuiet DEF Unsent, Advance, TypeOK, Grows, Rests
  <1>6. ASSUME NEW w \in Workers, Finish(w) \/ Die(w) PROVE Glances'
    BY <1>1, <1>6, GlanceQuiet DEF Finish, Die, Idle, TypeOK, Grows, Rests
  <1>7. CASE UNCHANGED worker /\ UNCHANGED history
    BY <1>7, GlanceQuiet DEF Grows, Rests
  <1>8. QED
    BY <1>2, <1>3, <1>4, <1>5, <1>6, <1>7, GlanceLook, GlanceSend
    DEF Next, Step, LogRefused, Crash, Turn, Address, OnDemand, Tick, vars

-----------------------------------------------------------------------------
(* Every step *)

LEMMA FieldKeeps ==
  ASSUME IInv, \/ \E j \in Jobs, i \in Fickle : Turn(j, i)
               \/ \E i \in Fickle : Address(i) \/ OnDemand(i)
               \/ Tick \/ UNCHANGED vars
  PROVE  /\ Runs' /\ Locks' /\ OneHolder' /\ Flights' /\ Alone' /\ ClaimsApart'
         /\ Stamped' /\ Messages' /\ Spaced'
  <1> USE DEF world, worker, history
  <1>1. TypeOK /\ now \in Nat
    BY DEF IInv, TypeOK
  <1>2. UNCHANGED worker /\ UNCHANGED <<mails, voided, orphans, glimpsed>>
    BY DEF Turn, Address, OnDemand, Tick, vars
  <1>3. \A v \in Workers : Rests(v)
    BY <1>2 DEF Rests
  <1>4. /\ now <= now' /\ now' \in Nat
        /\ \A v \in Workers : Clocked(v)'
    <2>1. CASE Tick
      <3>1. now' = now + 1
            /\ \A v \in Workers : pc[v] = "idle" \/ now - ref[v] < MaxRun
        BY <2>1 DEF Tick
      <3>2. \A v \in Workers : ref[v] \in Nat /\ claim[v] \in Nat
        BY <1>1 DEF TypeOK
      <3>3. ASSUME NEW v \in Workers PROVE Clocked(v)'
        BY <1>1, <1>2, <3>1, <3>2, TimesAssumption DEF IInv, Runs, Clocked, Flying
      <3>4. QED
        BY <1>1, <3>1, <3>3
    <2>2. CASE now' = now
      BY <1>1, <1>3, <2>2, RestClocked
    <2>3. QED
      BY <2>1, <2>2 DEF Turn, Address, OnDemand, vars
  <1>5. \A j \in Jobs, i \in Items :
           stamp'[j][i] = stamp[j][i] \/ (j = "periodic" /\ stamp'[j][i] = now)
    <2>1. CASE \E i \in Fickle : OnDemand(i)
      <3>1. PICK l \in Items : stamp' = [stamp EXCEPT !["periodic"][l] = now]
        BY <2>1, FickleAssumption DEF OnDemand
      <3>2. QED
        BY <1>1, <3>1 DEF TypeOK
    <2>2. CASE UNCHANGED stamp
      BY <2>2
    <2>3. QED
      BY <2>1, <2>2 DEF Turn, Address, Tick, vars
  <1>6. QED
    BY <1>2, <1>3, <1>4, <1>5, WorldKeeps

LEMMA InitHolds == Init => IInv
  <1> SUFFICES ASSUME Init PROVE IInv
    OBVIOUS
  <1> USE DEF Init
  <1>1. Runs /\ Locks /\ OneHolder
    BY DEF Runs, Clocked, Flying, Locks, Holds, Fresh, OneHolder, NoHold
  <1>2. Flights /\ Alone /\ ClaimsApart
    BY DEF Flights, Flight, Alone, ClaimsApart, Flies, Flying
  <1>3. Glances
    BY DEF Glances, Glance
  <1>4. Stamped /\ Messages /\ Spaced
    BY DEF Stamped, Told, Explained, Messages, Spaced, About
  <1>5. QED
    BY <1>1, <1>2, <1>3, <1>4, TypeInit DEF IInv

LEMMA Invariant == Spec => []IInv
  <1>1. IInv /\ [Next]_vars => IInv'
    <2> SUFFICES ASSUME IInv, [Next]_vars PROVE IInv'
      OBVIOUS
    <2>1. TypeOK' /\ Glances'
      BY TypeNext, GlancesNext
    <2>2. ASSUME NEW w \in Workers, LogRefused(w) \/ Crash(w) PROVE IInv'
      BY <2>1, <2>2, DieKeeps DEF LogRefused, Crash, IInv
    <2>3. ASSUME NEW w \in Workers, Step(w) PROVE IInv'
      BY <2>1, <2>3, PassKeeps, LookKeeps, ClaimKeeps, SendKeeps, SentKeeps, GiveBackKeeps,
         FinishFree, FinishKeeps DEF Step, IInv
    <2>4. ASSUME NEW w \in Workers, NEW j \in Jobs, Start(w, j) PROVE IInv'
      BY <2>1, <2>4, StartKeeps DEF IInv
    <2>5. QED
      BY <2>1, <2>2, <2>3, <2>4, FieldKeeps DEF Next, IInv
  <1>2. QED
    BY <1>1, InitHolds, PTL DEF Spec

-----------------------------------------------------------------------------
(* What it is for *)

\* The stamps, the runs and the messages keep their types (scan_device_health,
\* scan_proactive_insights, send_periodic_notifications, flag_idle_zones).
THEOREM TypeCorrect == Spec => []TypeOK
  <1>1. IInv => TypeOK
    BY DEF IInv
  <1>2. QED
    BY <1>1, Invariant, PTL

\* Two messages of a job about an item are a window apart, but for those of a
\* run that died with its claims and of a provider that did not answer
\* (scan_device_health's atomic dedup claim and the claims like it), with any
\* number of workers and runs.
THEOREM OncePerWindow == Spec => []DuplicatesOnlyWhenUnsure
  <1>1. IInv => DuplicatesOnlyWhenUnsure
    <2> SUFFICES ASSUME IInv, NEW m \in mails, NEW n \in mails, m # n,
                        m.job = n.job, m.item = n.item,
                        ~(WholeRun(m.job) /\ {m.run, n.run} \cap voided # {}),
                        ~(Restores(m.job) /\ ~(m.sure /\ n.sure))
                 PROVE  Apart(m, n)
      BY DEF DuplicatesOnlyWhenUnsure
    <2>1. PICK j \in Jobs, i \in Items : j = m.job /\ i = m.item
      BY DEF IInv, TypeOK, Mail
    <2>2. Live(m) /\ Live(n)
      BY DEF Live
    <2>3. m \in About(j, i) /\ n \in About(j, i)
      BY <2>1, <2>2 DEF About
    <2>4. Spread(j, m.at, n.at)
      BY <2>3 DEF IInv, Spaced
    <2>5. QED
      BY <2>1, <2>4 DEF Spread, Apart
  <1>2. QED
    BY <1>1, Invariant, PTL

\* An item of a job that gives failed claims back is silenced without a message
\* only when the worker died over its claim, or when one run gives back a claim
\* that it read while another, which failed as well, had it in flight
\* (scan_device_health, scan_proactive_insights: so a later tick can retry).
THEOREM NeverSilenced == Spec => []SilencedWasMailed
  <1>1. IInv => SilencedWasMailed
    BY DEF IInv, Stamped, Told, Explained, Flies, Flying, InFlight, SilencedWasMailed
  <1>2. QED
    BY <1>1, Invariant, PTL

\* The stamps of scan_device_health move as the gate allows: every commit stamps
\* items that were due, and a claim that is given back leaves the stamp as it
\* was.
THEOREM HealthIsGated ==
  ASSUME "health" \in Jobs
  PROVE  Spec => ImplementsHealthGate
  <1>1. IInv => HealthGate!Init
    BY DEF IInv, TypeOK, HealthGate!Init, HealthGate!Stamps, Stamps
  <1>2. IInv /\ TypeOK' /\ [Next]_vars => [HealthGate!Next]_(stamp["health"])
    <2> SUFFICES ASSUME IInv, TypeOK', [Next]_vars
                 PROVE  stamp'["health"] = stamp["health"] \/ HealthGate!Next
      OBVIOUS
    <2>1. CASE \E w \in Workers : Finish(w) /\ job[w] = "health"
      <3>1. PICK w \in Workers : Finish(w) /\ job[w] = "health"
        BY <2>1
      <3>2. stamp'["health"] \in [Items -> HealthGate!Stamps]
        BY DEF TypeOK, HealthGate!Stamps, Stamps
      <3>3. ASSUME NEW i \in Items
            PROVE  stamp'["health"][i] = stamp["health"][i] \/ HealthGate!Restamp(i)
        <4>1. CASE held[w][i] = None
          BY <3>1, <4>1, HealthCommit
        <4>2. CASE held[w][i] # None
          <5>1. \/ held[w][i] = stamp["health"][i]
                \/ held[w][i] = ref[w] /\ Due("health", stamp["health"][i], ref[w])
            BY <4>2 DEF IInv, Locks, Holds
          <5>2. ref[w] \in Nat /\ stamp'["health"][i] = held[w][i]
            BY <3>1, <4>2, HealthCommit DEF TypeOK
          <5>3. QED
            BY <5>1, <5>2 DEF HealthGate!Restamp, HealthGate!Due, Due
        <4>3. QED
          BY <4>1, <4>2
      <3>4. QED
        BY <3>2, <3>3 DEF HealthGate!Next
    <2>2. CASE \E w \in Workers : Finish(w) /\ job[w] # "health"
      <3>1. PICK w \in Workers : Finish(w) /\ job[w] # "health"
        BY <2>2
      <3>2. TypeOK /\ job[w] \in Jobs
        BY <3>1, AtHand DEF IInv, Finish
      <3>3. QED
        BY <3>1, <3>2 DEF Finish, TypeOK
    <2>3. CASE \E w \in Workers : ClaimWon(w) \/ Unsent(w)
      <3>1. PICK w \in Workers : ClaimWon(w) \/ Unsent(w)
        BY <2>3
      <3>2. TypeOK
        BY DEF IInv
      <3>3. QED
        BY <3>1, <3>2 DEF ClaimWon, Unsent, Put, WholeRun, TypeOK
    <2>4. CASE \E i \in Fickle : OnDemand(i)
      BY <2>4 DEF OnDemand, IInv, TypeOK
    <2>5. CASE UNCHANGED stamp
      BY <2>5
    <2>6. QED
      BY <2>1, <2>2, <2>3, <2>4, <2>5
      DEF Next, Step, Start, PassOver, Look, ClaimLost, Send, Sent, LogRefused, Crash, Die,
          Turn, Address, Tick, vars
  <1>3. IInv => TypeOK
    BY DEF IInv
  <1>4. QED
    BY <1>1, <1>2, <1>3, Invariant, InitHolds, PTL
    DEF Spec, ImplementsHealthGate, HealthGate!Spec

-----------------------------------------------------------------------------
(* LegacyTasks *)

\* A claim whose outcome is open.
Claiming(w) == pcL[w] \in {"send", "told", "failed"}
\* The slot of a worker's claim: the shared row or key, or its own while it lives.
Shared  == <<None, 0>>
Slot(w) == IF T!Private(w) THEN <<w, deaths>> ELSE Shared
\* A slot taken at one instant is free at the other.
Gap(s, t)   == IF jobL = "idle" THEN s < t ELSE s < t - Window
Afar(s, t) == Gap(s, t) \/ Gap(t, s)

\* A letter that counts, by its claim, run and slot: it was sent, or is on its way, its run
\* was not rolled back, and the claim is not given back for it.
Counts(a, r, o) ==
    /\ r \notin voidedL
    /\ \/ \E m \in mailsL : m.at = a /\ m.run = r /\ m.of = o /\ (T!Restores => m.sure = TRUE)
       \/ o = Shared /\ \E m \in queue : m.at = a /\ m.run = r
       \/ o = Shared /\ \E w \in Workers : pcL[w] = "post" /\ claimL[w] = a /\ runL[w] = r

-----------------------------------------------------------------------------
(* The invariant of LegacyTasks *)

Timed ==
    /\ T!TypeOK /\ runsL \in Nat /\ deaths \in Nat
    /\ \A w \in Workers :
          /\ pcL[w] = "idle" => kind[w] = "django"
          /\ pcL[w] # "idle" => refL[w] <= nowL /\ nowL <= refL[w] + MaxRun
          /\ Claiming(w) => refL[w] <= claimL[w] /\ claimL[w] <= nowL
    /\ jobL # "alert" => queue = {} /\ \A w \in Workers : pcL[w] # "post"
    /\ \A m \in mailsL : m.of[2] <= deaths

\* A claim is behind its gate if it is committed, and a window ahead of it if it is held;
\* and there is one at a time, but for the keys of idle zones, which expire.
Gated ==
    \A w \in Workers :
       /\ Claiming(w) /\ ~T!Holding(w) => T!Gate(w) # Never /\ claimL[w] <= T!Gate(w)
       /\ T!Holding(w) => stampL = Never \/ Gap(stampL, claimL[w])
       /\ jobL # "idle" /\ Claiming(w) => \A v \in Workers : Claiming(v) => v = w

\* No letter that counts is ahead of the gate of its slot, but one of a claim that is held.
Holder(w, a, r) ==
    /\ T!Holding(w) /\ claimL[w] = a /\ runL[w] = r
    /\ pcL[w] = "told" \/ (pcL[w] = "failed" /\ ~T!Restores)
Behind ==
    \A a \in Nat, r \in Nat :
       /\ Counts(a, r, Shared) => \/ stampL # Never /\ a <= stampL
                                  \/ \E w \in Workers : Holder(w, a, r)
       /\ \A w \in Workers : Counts(a, r, <<w, deaths>>) => memory[w] # Never /\ a <= memory[w]

\* What a claim that can be given back gives back is not ahead of a letter either.
Kept ==
    T!Restores => \A w \in Workers, a \in Nat, r \in Nat : Counts(a, r, Shared) =>
       /\ pcL[w] = "check" =>
              (seenL[w] # Never /\ a <= seenL[w]) \/ a >= refL[w] - Window
       /\ pcL[w] \in {"send", "failed"} /\ ~T!Holding(w) => seenL[w] # Never /\ a <= seenL[w]

\* Claims that nothing was sent for yet are spread, and so are the letters.
Distinct ==
    \A w \in Workers : pcL[w] = "send" =>
       /\ \A v \in Workers : pcL[v] = "send" /\ v # w /\ Slot(v) = Slot(w) =>
             Afar(claimL[v], claimL[w])
       /\ \A a \in Nat, r \in Nat : Counts(a, r, Slot(w)) => Afar(a, claimL[w])
Letters ==
    \A a, b \in Nat, q, r \in Nat, o \in (Workers \cup {None}) \X Nat :
       Counts(a, q, o) /\ Counts(b, r, o) => Afar(a, b) \/ (a = b /\ q = r)

\* Runs have numbers of their own, which a letter bears, and the task that posts it.
Numbered ==
    /\ \A m \in mailsL \cup queue : m.run < runsL
    /\ \A m, n \in mailsL : m.run = n.run => m = n
    /\ \A m, n \in queue : m.run = n.run => m = n
    /\ \A m \in mailsL, n \in queue : m.run # n.run
    /\ \A w \in Workers : pcL[w] # "idle" =>
          /\ runL[w] < runsL
          /\ \A m \in mailsL \cup queue : m.run = runL[w] =>
                pcL[w] \in {"told", "failed"} /\ m.at = claimL[w]
          /\ \A v \in Workers : pcL[v] # "idle" /\ runL[v] = runL[w] =>
                \/ v = w
                \/ /\ claimL[v] = claimL[w]
                   /\ \/ pcL[v] = "post" /\ pcL[w] \in {"told", "failed"}
                      \/ pcL[w] = "post" /\ pcL[v] \in {"told", "failed"}

\* Something came of a stamp, or it is known to be lost.
Settled(t) ==
    \/ t \in lost \/ \E m \in mailsL \cup queue : m.at = t
    \/ \E w \in Workers : pcL[w] = "post" /\ claimL[w] = t
Accounted ==
    /\ stampL # Never => Settled(stampL) \/ \E w \in Workers : Claiming(w) /\ claimL[w] = stampL
    /\ \A w \in Workers :
          /\ pcL[w] = "told" => Settled(claimL[w])
          /\ T!Restores /\ Claiming(w) /\ ~T!Holding(w) /\ seenL[w] # Never => Settled(seenL[w])

LegacyInv == Timed /\ Gated /\ Behind /\ Kept /\ Distinct /\ Letters /\ Numbered /\ Accounted

-----------------------------------------------------------------------------
(* What the actions do, as far as the invariant can tell *)

\* What a worker runs is as it was.
Same(v) ==
    /\ pcL'[v] = pcL[v] /\ kind'[v] = kind[v] /\ refL'[v] = refL[v] /\ seenL'[v] = seenL[v]
    /\ claimL'[v] = claimL[v] /\ runL'[v] = runL[v]

LEMMA OverEffect ==
  ASSUME T!TypeOK, NEW w \in Workers, T!Over(w)
  PROVE  /\ pcL'[w] = "idle" /\ kind'[w] = "django"
         /\ \A v \in Workers \ {w} : Same(v)
         /\ pcL' \in [Workers -> {"idle", "check", "send", "told", "failed", "post"}]
         /\ kind' \in [Workers -> T!Kinds] /\ refL' \in [Workers -> Nat]
         /\ seenL' \in [Workers -> T!Stamps] /\ claimL' \in [Workers -> Nat]
         /\ runL' \in [Workers -> Nat]
  BY DEF T!TypeOK, T!Over, T!Goto, Same, T!Kinds, T!Stamps

LEMMA ToldType ==
  ASSUME Timed, NEW w \in Workers, NEW b \in BOOLEAN
  PROVE  /\ T!Told(w, b) \in T!Message /\ T!Told(w, b).at = claimL[w] /\ T!Told(w, b).run = runL[w]
         /\ T!Told(w, b).of = Slot(w) /\ T!Told(w, b).sure = b
         /\ Slot(w)[2] <= deaths
  BY DEF Timed, T!TypeOK, T!Told, T!Message, Slot, Shared

\* A run, or a task, that is over.
Ends(w) == T!Pass(w) \/ T!Nobody(w) \/ T!Done(w) \/ T!Failed(w) \/ T!Aborted(w) \/ T!Die(w) \/ T!Post(w)

LEMMA EndEffect ==
  ASSUME Timed, NEW w \in Workers, Ends(w)
  PROVE  /\ T!Over(w) /\ UNCHANGED <<jobL, nowL, wantsL, queue, runsL>>
         /\ deaths' \in Nat /\ deaths <= deaths'
         /\ stampL' \in T!Stamps /\ memory' \in [Workers -> T!Stamps]
         /\ lost' \subseteq Nat /\ voidedL' \subseteq Nat /\ voidedL \subseteq voidedL'
         /\ lost \subseteq lost'
         /\ \A m \in mailsL' : \/ m \in mailsL
                               \/ /\ pcL[w] = "post" /\ m \in T!Message /\ m.at = claimL[w]
                                  /\ m.run = runL[w] /\ m.of = Shared
         /\ \A v \in Workers \ {w} : memory'[v] = memory[v]
         /\ stampL' = stampL \/ (Claiming(w) /\ jobL # "idle")
         /\ \A m, n \in mailsL' \ mailsL : m = n
         /\ (deaths' = deaths /\ memory' = memory) \/ deaths' = deaths + 1
  <1> USE DEF Claiming
  <1>0. /\ deaths \in Nat /\ stampL \in T!Stamps /\ memory \in [Workers -> T!Stamps]
        /\ lost \subseteq Nat /\ voidedL \subseteq Nat /\ claimL[w] \in Nat /\ runL[w] \in Nat
        /\ seenL[w] \in T!Stamps /\ Nat \subseteq T!Stamps /\ Never \in T!Stamps
    BY DEF Timed, T!TypeOK, T!Stamps
  <1>1. CASE T!Pass(w)
    BY <1>0, <1>1 DEF T!Pass
  <1>2. CASE T!Nobody(w)
    <2>1. lost' = lost \cup {claimL[w]} /\ T!Over(w)
      BY <1>2 DEF T!Nobody
    <2>2. UNCHANGED <<jobL, nowL, stampL, memory, wantsL, queue, mailsL, voidedL, runsL, deaths>>
      BY <1>2 DEF T!Nobody
    <2>3. lost' \subseteq Nat /\ lost \subseteq lost'
      BY <1>0, <2>1
    <2>4. QED
      BY <1>0, <2>1, <2>2, <2>3
  <1>3. CASE T!Done(w)
    BY <1>0, <1>3 DEF T!Done, T!Holds
  <1>4. CASE T!Failed(w)
    <2>1. /\ T!Over(w) /\ UNCHANGED <<jobL, nowL, wantsL, queue, mailsL, voidedL, runsL, deaths>>
          /\ lost' = lost \/ lost' = lost \cup {claimL[w]}
          /\ pcL[w] = "failed"
      BY <1>4 DEF T!Failed
    <2>5. lost' \subseteq Nat /\ lost \subseteq lost'
      BY <1>0, <2>1
    <2>2. CASE T!Restores /\ ~T!Holds(w)
      <3>1. T!Put(w, seenL[w]) /\ jobL # "idle"
        BY <1>4, <2>2 DEF T!Failed, T!Restores
      <3>2. stampL' = seenL[w] /\ memory' = memory
        BY <3>1 DEF T!Put, T!Private
      <3>3. QED
        BY <1>0, <2>1, <2>5, <3>1, <3>2
    <2>3. CASE ~(T!Restores /\ ~T!Holds(w))
      <3>1. memory' = memory /\ (stampL' = stampL \/ (stampL' = claimL[w] /\ T!Holds(w)))
        BY <1>4, <2>3 DEF T!Failed
      <3>2. T!Holds(w) => jobL # "idle"
        BY DEF T!Holds
      <3>3. QED
        BY <1>0, <2>1, <2>5, <3>1, <3>2
    <2>4. QED
      BY <2>2, <2>3
  <1>5. CASE T!Aborted(w)
    <2>1. /\ T!Over(w) /\ UNCHANGED <<jobL, nowL, stampL, memory, wantsL, queue, runsL, deaths>>
          /\ voidedL' = voidedL \cup {runL[w]} /\ lost' = lost
          /\ mailsL' \subseteq mailsL
      BY <1>5 DEF T!Aborted, T!RollBack
    <2>2. voidedL' \subseteq Nat /\ voidedL \subseteq voidedL'
      BY <1>0, <2>1
    <2>3. QED
      BY <1>0, <2>1, <2>2
  <1>6. CASE T!Die(w)
    <2>1. /\ T!Over(w) /\ UNCHANGED <<jobL, nowL, stampL, wantsL, queue, runsL>>
          /\ deaths' = deaths + 1 /\ memory' = [memory EXCEPT ![w] = Never]
      BY <1>6 DEF T!Die
    <2>2. /\ voidedL' \in {voidedL, voidedL \cup {runL[w]}} /\ lost' \in {lost, lost \cup {claimL[w]}}
          /\ mailsL' \subseteq mailsL
      BY <1>6 DEF T!Die, T!RollBack
    <2>3. /\ deaths' \in Nat /\ deaths <= deaths' /\ memory' \in [Workers -> T!Stamps]
          /\ \A v \in Workers \ {w} : memory'[v] = memory[v]
      BY <1>0, <2>1
    <2>4. QED
      BY <1>0, <2>1, <2>2, <2>3
  <1>7. CASE T!Post(w)
    <2>1. \A b \in BOOLEAN : /\ T!Told(w, b) \in T!Message /\ T!Told(w, b).at = claimL[w]
                            /\ T!Told(w, b).run = runL[w] /\ T!Told(w, b).of = Slot(w)
      BY ToldType
    <2>2. pcL[w] = "post" /\ jobL = "alert" /\ Slot(w) = Shared
      BY <1>7 DEF Timed, T!Post, Slot, T!Private
    <2>3. \A m \in mailsL' : m \in mailsL \/ \E b \in BOOLEAN : m = T!Told(w, b)
      BY <1>7 DEF T!Post
    <2>4. lost' \in {lost, lost \cup {claimL[w]}}
      BY <1>7 DEF T!Post
    <2>5. /\ T!Over(w) /\ UNCHANGED <<jobL, nowL, stampL, memory, wantsL, queue, voidedL, runsL, deaths>>
      BY <1>7 DEF T!Post
    <2>6. QED
      <3>1. \A m, n \in mailsL' \ mailsL : m = n
        BY <1>7 DEF T!Post
      <3>2. QED
        BY <1>0, <2>1, <2>2, <2>3, <2>4, <2>5, <3>1
  <1>8. QED
    BY <1>1, <1>2, <1>3, <1>4, <1>5, <1>6, <1>7 DEF Ends

LEMMA EndCounts ==
  ASSUME Timed, NEW w \in Workers, Ends(w), NEW a, NEW r, NEW o, Counts(a, r, o)'
  PROVE  Counts(a, r, o)
  <1>1. /\ pcL'[w] = "idle" /\ \A v \in Workers \ {w} : Same(v)
        /\ UNCHANGED <<jobL, queue>> /\ voidedL \subseteq voidedL'
        /\ \A m \in mailsL' : \/ m \in mailsL
                              \/ pcL[w] = "post" /\ m.at = claimL[w] /\ m.run = runL[w] /\ m.of = Shared
    BY EndEffect, OverEffect DEF Timed
  <1>2. CASE \E m \in mailsL' : /\ m.at = a /\ m.run = r /\ m.of = o
                                /\ (T!Restores => m.sure = TRUE)
    BY <1>1, <1>2 DEF Counts, T!Restores
  <1>3. CASE o = Shared /\ \E m \in queue' : m.at = a /\ m.run = r
    BY <1>1, <1>3 DEF Counts
  <1>4. CASE o = Shared /\ \E v \in Workers : pcL'[v] = "post" /\ claimL'[v] = a /\ runL'[v] = r
    BY <1>1, <1>4 DEF Counts, Same
  <1>5. QED
    BY <1>1, <1>2, <1>3, <1>4 DEF Counts, T!Restores, Shared

\* What is sent counts, at most, as a letter of the claim it is sent for.
LEMMA SendEffect ==
  ASSUME Timed, NEW w \in Workers, T!Send(w)
  PROVE  /\ pcL[w] = "send" /\ pcL'[w] \in {"told", "failed"}
         /\ pcL' = [pcL EXCEPT ![w] = pcL'[w]] /\ \A v \in Workers \ {w} : Same(v)
         /\ UNCHANGED <<jobL, nowL, stampL, memory, wantsL, kind, refL, seenL, claimL, runL, lost,
                        voidedL, runsL, deaths>>
         /\ mailsL \subseteq mailsL' /\ queue \subseteq queue'
         /\ mailsL' \subseteq T!Message /\ queue' \subseteq T!Message
         /\ IF jobL = "alert" THEN mailsL' = mailsL ELSE queue' = queue
         /\ \A m \in (mailsL' \ mailsL) \cup (queue' \ queue) :
               /\ m.at = claimL[w] /\ m.run = runL[w] /\ m.of = Slot(w)
               /\ m.sure = TRUE => pcL'[w] = "told"
         /\ \A m, n \in (mailsL' \ mailsL) \cup (queue' \ queue) : m = n
         /\ pcL'[w] = "told" => \E m \in mailsL' \cup queue' : m.at = claimL[w]
  <1>1. PICK says \in BOOLEAN, took \in BOOLEAN :
           /\ says => took
           /\ pcL' = [pcL EXCEPT ![w] = IF says THEN "told" ELSE "failed"]
           /\ IF jobL = "alert"
              THEN queue' = queue \cup (IF took THEN {T!Told(w, says)} ELSE {}) /\ mailsL' = mailsL
              ELSE mailsL' = mailsL \cup (IF took THEN {T!Told(w, says)} ELSE {}) /\ queue' = queue
    BY DEF T!Send, T!_post_message, T!Goto
  <1>2. /\ T!Told(w, says) \in T!Message /\ T!Told(w, says).at = claimL[w] /\ T!Told(w, says).run = runL[w]
        /\ T!Told(w, says).of = Slot(w) /\ T!Told(w, says).sure = says
    BY ToldType
  <1>3. pcL'[w] = IF says THEN "told" ELSE "failed"
    BY <1>1 DEF Timed, T!TypeOK
  <1>4. UNCHANGED <<jobL, nowL, stampL, memory, wantsL, kind, refL, seenL, claimL, runL, lost,
                    voidedL, runsL, deaths>> /\ pcL[w] = "send"
    BY DEF T!Send
  <1>5. mailsL \subseteq T!Message /\ queue \subseteq T!Message
    BY DEF Timed, T!TypeOK
  <1>6. \A m \in (mailsL' \ mailsL) \cup (queue' \ queue) : m = T!Told(w, says)
    BY <1>1
  <1>7. T!Told(w, says).sure = TRUE => pcL'[w] = "told"
    BY <1>2, <1>3
  <1>8. pcL'[w] = "told" => T!Told(w, says) \in mailsL' \cup queue'
    BY <1>1, <1>3
  <1>9. mailsL' \subseteq T!Message /\ queue' \subseteq T!Message
    BY <1>1, <1>2, <1>5
  <1>10. /\ mailsL \subseteq mailsL' /\ queue \subseteq queue'
         /\ IF jobL = "alert" THEN mailsL' = mailsL ELSE queue' = queue
    BY <1>1
  <1>11. /\ pcL'[w] \in {"told", "failed"} /\ pcL' = [pcL EXCEPT ![w] = pcL'[w]]
         /\ \A v \in Workers \ {w} : Same(v)
    BY <1>1, <1>3, <1>4 DEF Timed, T!TypeOK, Same
  <1>12. QED
    BY <1>2, <1>4, <1>6, <1>7, <1>8, <1>9, <1>10, <1>11

LEMMA SendCounts ==
  ASSUME Timed, NEW w \in Workers, T!Send(w), NEW a, NEW r, NEW o, Counts(a, r, o)', ~Counts(a, r, o)
  PROVE  a = claimL[w] /\ r = runL[w] /\ o = Slot(w) /\ (T!Restores => pcL'[w] = "told")
  <1>1. /\ pcL[w] = "send" /\ pcL'[w] # "post" /\ \A v \in Workers \ {w} : Same(v)
        /\ UNCHANGED <<jobL, claimL, runL, voidedL>>
        /\ jobL = "alert" => mailsL' = mailsL /\ Slot(w) = Shared
        /\ jobL # "alert" => queue' = queue
        /\ \A m \in (mailsL' \ mailsL) \cup (queue' \ queue) :
              /\ m.at = claimL[w] /\ m.run = runL[w] /\ m.of = Slot(w)
              /\ m.sure = TRUE => pcL'[w] = "told"
    BY SendEffect DEF Slot, T!Private
  <1>2. CASE \E m \in mailsL' : /\ m.at = a /\ m.run = r /\ m.of = o
                                /\ (T!Restores => m.sure = TRUE)
    BY <1>1, <1>2 DEF Counts, T!Restores
  <1>3. CASE o = Shared /\ \E m \in queue' : m.at = a /\ m.run = r
    BY <1>1, <1>3 DEF Counts, T!Restores
  <1>4. CASE o = Shared /\ \E v \in Workers : pcL'[v] = "post" /\ claimL'[v] = a /\ runL'[v] = r
    BY <1>1, <1>4 DEF Counts, Same
  <1>5. QED
    BY <1>1, <1>2, <1>3, <1>4 DEF Counts, T!Restores, Shared

\* What neither claims, nor sends, nor ends a run.
Quiet ==
    \/ \E w \in Workers : \/ \E k \in T!Kinds : T!Start(w, k)
                          \/ \E m \in queue : T!Take(w, m) \/ T!Dropped(w, m)
    \/ T!Turn \/ T!Tick \/ UNCHANGED T!vars

LEMMA StepCases ==
  ASSUME [T!Next]_(T!vars)
  PROVE  \/ Quiet \/ \E w \in Workers : T!Claim(w) \/ T!Send(w) \/ Ends(w)
  BY DEF T!Next, Quiet, Ends

LEMMA QuietEffect ==
  ASSUME Timed, Quiet
  PROVE  /\ UNCHANGED <<jobL, stampL, memory, mailsL, voidedL, deaths>>
         /\ \A v \in Workers : Same(v) \/ (pcL[v] = "idle" /\ pcL'[v] \in {"check", "post"})
         /\ \A v \in Workers : Same(v) \/ pcL'[v] = "post" \/ (seenL'[v] = stampL /\ refL'[v] = nowL)
  <1> USE DEF Timed, T!TypeOK, Same, T!local
  <1>1. ASSUME NEW w \in Workers, NEW k \in T!Kinds, T!Start(w, k)
        PROVE  /\ UNCHANGED <<jobL, stampL, memory, mailsL, voidedL, deaths>>
               /\ pcL[w] = "idle" /\ pcL'[w] = "check" /\ seenL'[w] = stampL /\ refL'[w] = nowL
               /\ \A v \in Workers \ {w} : Same(v)
    BY <1>1 DEF T!Start, T!Goto
  <1>2. ASSUME NEW w \in Workers, NEW m \in queue, T!Take(w, m)
        PROVE  /\ UNCHANGED <<jobL, stampL, memory, mailsL, voidedL, deaths>>
               /\ pcL[w] = "idle" /\ pcL'[w] = "post"
               /\ \A v \in Workers \ {w} : Same(v)
    BY <1>2 DEF T!Take, T!Goto
  <1>3. ASSUME NEW w \in Workers, NEW m \in queue, T!Dropped(w, m)
        PROVE  /\ UNCHANGED <<jobL, stampL, memory, mailsL, voidedL, deaths>>
               /\ \A v \in Workers : Same(v)
    BY <1>3 DEF T!Dropped
  <1>4. ASSUME T!Turn \/ T!Tick \/ UNCHANGED T!vars
        PROVE  /\ UNCHANGED <<jobL, stampL, memory, mailsL, voidedL, deaths>>
               /\ \A v \in Workers : Same(v)
    BY <1>4 DEF T!Turn, T!Tick, T!vars
  <1>5. QED
    BY <1>1, <1>2, <1>3, <1>4 DEF Quiet

\* It leaves every letter where it counts, or takes it away.
LEMMA QuietCounts ==
  ASSUME Timed, Quiet, NEW a, NEW r, NEW o, Counts(a, r, o)'
  PROVE  Counts(a, r, o)
  <1> USE DEF Timed, T!TypeOK, Counts, T!Restores, Shared, T!local
  <1>1. ASSUME NEW w \in Workers, NEW k \in T!Kinds, T!Start(w, k) PROVE Counts(a, r, o)
    BY <1>1 DEF T!Start, T!Goto
  <1>2. ASSUME NEW w \in Workers, NEW m \in queue, T!Take(w, m) PROVE Counts(a, r, o)
    BY <1>2 DEF T!Take, T!Goto
  <1>3. ASSUME NEW w \in Workers, NEW m \in queue, T!Dropped(w, m) PROVE Counts(a, r, o)
    BY <1>3 DEF T!Dropped
  <1>4. ASSUME T!Turn \/ T!Tick \/ UNCHANGED T!vars PROVE Counts(a, r, o)
    BY <1>4 DEF T!Turn, T!Tick, T!vars
  <1>5. QED
    BY <1>1, <1>2, <1>3, <1>4 DEF Quiet

\* A claim is a window ahead of its gate.
LEMMA ClaimEffect ==
  ASSUME Timed, NEW w \in Workers, T!Claim(w)
  PROVE  /\ pcL[w] = "check" /\ pcL' = [pcL EXCEPT ![w] = "send"] /\ claimL' = [claimL EXCEPT ![w] = T!At(w)]
         /\ \A v \in Workers \ {w} : Same(v) /\ ~T!Holding(v)
         /\ UNCHANGED <<jobL, nowL, wantsL, kind, refL, seenL, runL, queue, mailsL, voidedL, runsL, deaths>>
         /\ T!At(w) \in Nat /\ refL[w] <= T!At(w) /\ T!At(w) <= nowL
         /\ T!Gate(w) \in T!Stamps /\ (T!Gate(w) # Never => Gap(T!Gate(w), T!At(w)) /\ T!Gate(w) < T!At(w))
         /\ IF T!Holds(w) THEN stampL' = stampL /\ memory' = memory
            ELSE IF T!Private(w) THEN stampL' = stampL /\ memory' = [memory EXCEPT ![w] = T!At(w)]
            ELSE stampL' = T!At(w) /\ memory' = memory
         /\ lost' = lost \cup T!Revivable(w)
  <1>1. /\ pcL[w] = "check" /\ pcL' = [pcL EXCEPT ![w] = "send"] /\ claimL' = [claimL EXCEPT ![w] = T!At(w)]
        /\ T!Unclaimed(w) /\ \A v \in Workers \ {w} : ~T!Holding(v)
        /\ UNCHANGED <<jobL, nowL, wantsL, kind, refL, seenL, runL, queue, mailsL, voidedL, runsL, deaths>>
        /\ lost' = lost \cup T!Revivable(w)
    BY DEF T!Claim, T!Goto
  <1>2. \A v \in Workers \ {w} : Same(v)
    BY <1>1 DEF Timed, T!TypeOK, Same
  <1>3. T!At(w) \in Nat /\ refL[w] <= T!At(w) /\ T!At(w) <= nowL
    BY <1>1 DEF Timed, T!TypeOK, T!At
  <1>4. T!Gate(w) \in T!Stamps
    BY DEF Timed, T!TypeOK, T!Gate, T!Private
  <1>5. T!Gate(w) # Never => Gap(T!Gate(w), T!At(w)) /\ T!Gate(w) < T!At(w)
    BY <1>1, <1>3, <1>4, WindowAssumption DEF T!Unclaimed, Gap, T!WindowAssumption, T!Stamps
  <1>6. IF T!Holds(w) THEN stampL' = stampL /\ memory' = memory
        ELSE IF T!Private(w) THEN stampL' = stampL /\ memory' = [memory EXCEPT ![w] = T!At(w)]
        ELSE stampL' = T!At(w) /\ memory' = memory
    BY DEF T!Claim, T!Put
  <1>7. QED
    BY <1>1, <1>2, <1>3, <1>4, <1>5, <1>6

LEMMA ClaimCounts ==
  ASSUME Timed, NEW w \in Workers, T!Claim(w), NEW a, NEW r, NEW o, Counts(a, r, o)'
  PROVE  Counts(a, r, o)
  <1>1. pcL[w] # "post" /\ pcL'[w] = "send" /\ \A v \in Workers \ {w} : Same(v)
    BY ClaimEffect DEF Timed, T!TypeOK
  <1>2. QED
    BY <1>1, ClaimEffect DEF Counts, T!Restores, Same

\* Nobody else has an open claim on the shared row of a job.
LEMMA Lone ==
  ASSUME Timed, Gated, NEW w \in Workers, T!Claim(w), jobL # "idle", NEW v \in Workers
  PROVE  ~Claiming(v)
  <1> SUFFICES ASSUME Claiming(v) PROVE FALSE
    OBVIOUS
  <1>1. v # w
    BY ClaimEffect DEF Claiming
  <1>2. ~T!Holding(v) /\ T!Gate(w) = stampL /\ T!Gate(v) = stampL
    BY <1>1, ClaimEffect DEF T!Gate, T!Private
  <1>3. stampL # Never /\ claimL[v] <= stampL
    BY <1>2 DEF Gated
  <1>4. stampL \in Nat /\ stampL < T!At(w) - Window /\ T!At(w) <= nowL
    BY <1>2, <1>3, ClaimEffect DEF Gap, T!Stamps
  <1>5. refL[v] <= claimL[v] /\ nowL <= refL[v] + MaxRun
    BY DEF Timed, Claiming
  <1>6. refL[v] \in Nat /\ claimL[v] \in Nat /\ nowL \in Nat /\ T!At(w) \in Nat
    BY ClaimEffect DEF Timed, T!TypeOK
  <1>7. QED
    BY <1>3, <1>4, <1>5, <1>6, WindowAssumption DEF T!WindowAssumption

\* Where the end of a run leaves the stamp: a claim that is held is committed, or undone;
\* one that can be given back is, to what was loaded.
LEMMA EndStamp ==
  ASSUME Timed, NEW w \in Workers, Ends(w)
  PROVE  \/ /\ stampL' = stampL
            /\ T!Holding(w) => runL[w] \in voidedL' \/ (pcL[w] = "failed" /\ T!Restores)
         \/ stampL' = claimL[w] /\ T!Holding(w) /\ (pcL[w] = "told" \/ claimL[w] \in lost')
         \/ stampL' = seenL[w] /\ pcL[w] = "failed" /\ T!Restores /\ ~T!Holding(w)
  <1> USE DEF T!Holding
  <1>1. CASE T!Pass(w)
    BY <1>1 DEF T!Pass
  <1>2. CASE T!Nobody(w)
    BY <1>2 DEF T!Nobody, T!Holds
  <1>3. CASE T!Done(w)
    BY <1>3 DEF T!Done
  <1>4. CASE T!Failed(w)
    <2>1. CASE T!Restores
      <3>1. ~T!Private(w) /\ pcL[w] = "failed"
        BY <1>4, <2>1 DEF T!Failed, T!Restores, T!Private
      <3>2. IF T!Holds(w) THEN stampL' = stampL ELSE stampL' = seenL[w]
        BY <1>4, <2>1, <3>1 DEF T!Failed, T!Put
      <3>3. QED
        BY <2>1, <3>1, <3>2
    <2>2. CASE ~T!Restores
      BY <1>4, <2>2 DEF T!Failed
    <2>3. QED
      BY <2>1, <2>2
  <1>5. CASE T!Aborted(w)
    BY <1>5 DEF T!Aborted, T!RollBack
  <1>6. CASE T!Die(w)
    BY <1>6 DEF T!Die, T!RollBack
  <1>7. CASE T!Post(w)
    BY <1>7 DEF T!Post
  <1>8. QED
    BY <1>1, <1>2, <1>3, <1>4, <1>5, <1>6, <1>7 DEF Ends

-----------------------------------------------------------------------------
(* LegacyInv is inductive *)

LEMMA InitLemma ==
  ASSUME T!Init
  PROVE  LegacyInv
  <1>1. T!TypeOK
    BY DEF T!Init, T!TypeOK, T!Stamps, T!Kinds
  <1>2. \A a, r, o : ~Counts(a, r, o)
    BY DEF T!Init, Counts
  <1>3. \A w \in Workers : pcL[w] = "idle" /\ kind[w] = "django"
    BY DEF T!Init
  <1>4. Timed
    BY <1>1, <1>3 DEF T!Init, Timed, Claiming
  <1>5. Gated
    BY <1>3 DEF Gated, Claiming, T!Holding
  <1>6. Behind /\ Letters
    BY <1>2 DEF Behind, Letters
  <1>7. Kept /\ Distinct
    BY <1>2, <1>3 DEF Kept, Distinct
  <1>8. Numbered
    BY <1>3 DEF T!Init, Numbered
  <1>9. Accounted
    BY <1>3 DEF T!Init, Accounted, Claiming
  <1>10. QED
    BY <1>4, <1>5, <1>6, <1>7, <1>8, <1>9 DEF LegacyInv

LEMMA TimedStep ==
  ASSUME Timed, [T!Next]_(T!vars)
  PROVE  Timed'
  <1> USE DEF Claiming
  <1>0. /\ Nat \subseteq T!Stamps /\ T!TypeOK /\ DOMAIN pcL = Workers /\ DOMAIN claimL = Workers
        /\ nowL \in Nat /\ runsL \in Nat /\ deaths \in Nat /\ MaxRun \in Nat
        /\ \A v \in Workers : claimL[v] \in Nat /\ refL[v] \in Nat
    BY WindowAssumption DEF Timed, T!TypeOK, T!Stamps, T!WindowAssumption
  <1>1. ASSUME NEW w \in Workers, NEW k \in T!Kinds, T!Start(w, k) PROVE Timed'
    <2>1. T!TypeOK' /\ runsL' \in Nat /\ deaths' \in Nat
      BY <1>0, <1>1 DEF T!Start, T!Goto, T!TypeOK
    <2>2. /\ pcL'[w] = "check" /\ refL'[w] = nowL /\ \A v \in Workers \ {w} : Same(v)
          /\ UNCHANGED <<jobL, nowL, queue, mailsL, deaths>>
      BY <1>0, <1>1 DEF T!Start, T!Goto, T!TypeOK, Same
    <2>3. QED
      BY <1>0, <2>1, <2>2 DEF Timed, Same
  <1>2. ASSUME NEW w \in Workers, NEW m \in queue, T!Take(w, m) PROVE Timed'
    <2>1. m \in T!Message /\ m.at \in Nat /\ m.run \in Nat /\ jobL = "alert"
      BY DEF Timed, T!TypeOK, T!Message
    <2>2. T!TypeOK' /\ runsL' \in Nat /\ deaths' \in Nat
      BY <1>0, <1>2, <2>1 DEF T!Take, T!Goto, T!TypeOK
    <2>3. /\ pcL'[w] = "post" /\ refL'[w] = nowL /\ \A v \in Workers \ {w} : Same(v)
          /\ UNCHANGED <<jobL, nowL, mailsL, deaths>>
      BY <1>0, <1>2 DEF T!Take, T!Goto, T!TypeOK, Same
    <2>4. QED
      BY <1>0, <2>1, <2>2, <2>3 DEF Timed, Same
  <1>3. ASSUME NEW w \in Workers, NEW m \in queue, T!Dropped(w, m) PROVE Timed'
    <2>1. m \in T!Message /\ m.at \in Nat
      BY DEF Timed, T!TypeOK, T!Message
    <2>2. QED
      BY <1>3, <2>1 DEF Timed, T!TypeOK, T!Dropped, T!local
  <1>4. CASE T!Turn \/ UNCHANGED T!vars
    BY <1>4 DEF Timed, T!TypeOK, T!Turn, T!vars, T!local
  <1>5. CASE T!Tick
    BY <1>0, <1>5 DEF Timed, T!TypeOK, T!Tick, T!local
  <1>6. ASSUME NEW w \in Workers, T!Claim(w) PROVE Timed'
    <2>1. T!Revivable(w) \subseteq Nat
      BY <1>0 DEF T!Revivable, T!TypeOK, T!Stamps
    <2>2. lost' \subseteq Nat
      <3>1. lost' = lost \cup T!Revivable(w) /\ lost \subseteq Nat
        BY <1>0, <1>6, ClaimEffect DEF T!TypeOK
      <3>2. QED
        BY <2>1, <3>1
    <2>3. T!At(w) \in Nat /\ T!At(w) \in T!Stamps
      BY <1>0, <1>6, ClaimEffect
    <2>4. stampL' \in T!Stamps /\ memory' \in [Workers -> T!Stamps]
      BY <1>0, <1>6, <2>3, ClaimEffect DEF T!TypeOK
    <2>5. claimL' \in [Workers -> Nat]
      BY <1>0, <1>6, <2>3, ClaimEffect DEF T!TypeOK
    <2>6. /\ pcL' \in [Workers -> {"idle", "check", "send", "told", "failed", "post"}]
          /\ pcL'[w] = "send" /\ claimL'[w] = T!At(w)
      BY <1>0, <1>6, ClaimEffect DEF T!TypeOK
    <2>7. UNCHANGED <<jobL, nowL, wantsL, kind, refL, seenL, runL, queue, mailsL, voidedL, runsL, deaths>>
      BY <1>6, ClaimEffect
    <2>8. T!TypeOK'
      BY <1>0, <2>2, <2>4, <2>5, <2>6, <2>7 DEF T!TypeOK
    <2>9. /\ pcL[w] = "check" /\ refL[w] <= T!At(w) /\ T!At(w) <= nowL /\ \A v \in Workers \ {w} : Same(v)
      BY <1>6, ClaimEffect
    <2>10. QED
      BY <2>6, <2>7, <2>8, <2>9 DEF Timed, Same
  <1>7. ASSUME NEW w \in Workers, T!Send(w) PROVE Timed'
    <2>1. /\ pcL[w] = "send" /\ pcL'[w] \in {"told", "failed"} /\ pcL' = [pcL EXCEPT ![w] = pcL'[w]]
          /\ \A v \in Workers \ {w} : Same(v)
          /\ UNCHANGED <<jobL, nowL, stampL, memory, wantsL, kind, refL, seenL, claimL, runL, lost, voidedL,
                         runsL, deaths>>
          /\ mailsL' \subseteq T!Message /\ queue' \subseteq T!Message
          /\ jobL # "alert" => queue' = queue
      BY <1>7, SendEffect
    <2>2. pcL' \in [Workers -> {"idle", "check", "send", "told", "failed", "post"}]
      BY <1>0, <2>1 DEF T!TypeOK
    <2>3. T!TypeOK'
      BY <1>0, <2>1, <2>2 DEF T!TypeOK
    <2>4. \A m \in mailsL' : m \in mailsL \/ m.of = Slot(w)
      BY <1>7, SendEffect
    <2>5. \A m \in mailsL' : m.of[2] <= deaths
      BY <2>4, ToldType DEF Timed
    <2>6. QED
      BY <2>1, <2>3, <2>5 DEF Timed, Same
  <1>8. ASSUME NEW w \in Workers, Ends(w) PROVE Timed'
    <2>1. /\ pcL'[w] = "idle" /\ kind'[w] = "django" /\ \A v \in Workers \ {w} : Same(v)
          /\ pcL' \in [Workers -> {"idle", "check", "send", "told", "failed", "post"}]
          /\ kind' \in [Workers -> T!Kinds] /\ refL' \in [Workers -> Nat]
          /\ seenL' \in [Workers -> T!Stamps] /\ claimL' \in [Workers -> Nat]
          /\ runL' \in [Workers -> Nat]
      BY <1>0, <1>8, EndEffect, OverEffect
    <2>2. /\ deaths' \in Nat /\ deaths <= deaths' /\ UNCHANGED <<jobL, nowL, wantsL, queue, runsL>>
          /\ stampL' \in T!Stamps /\ memory' \in [Workers -> T!Stamps]
          /\ lost' \subseteq Nat /\ voidedL' \subseteq Nat
          /\ \A m \in mailsL' : m \in mailsL \/ (m \in T!Message /\ m.of = Shared)
      BY <1>8, EndEffect
    <2>3. mailsL' \subseteq T!Message
      BY <1>0, <2>2 DEF T!TypeOK
    <2>4. \A m \in mailsL' : m.of[2] <= deaths'
      <3>1. TAKE m \in mailsL'
      <3>2. CASE m \in mailsL
        BY <1>0, <2>2, <3>2 DEF Timed, T!TypeOK, T!Message
      <3>3. CASE m.of = Shared
        BY <2>2, <3>3 DEF Shared
      <3>4. QED
        BY <2>2, <3>2, <3>3
    <2>5. T!TypeOK'
      BY <1>0, <2>1, <2>2, <2>3 DEF T!TypeOK
    <2>6. QED
      BY <2>1, <2>2, <2>4, <2>5 DEF Timed, Same
  <1>9. QED
    BY <1>1, <1>2, <1>3, <1>4, <1>5, <1>6, <1>7, <1>8, StepCases DEF Quiet

LEMMA GatedStep ==
  ASSUME Timed, Gated, [T!Next]_(T!vars)
  PROVE  Gated'
  <1> USE DEF Claiming, T!Holding, T!Holds
  <1>1. CASE Quiet
    BY <1>1, QuietEffect DEF Gated, Same, T!Gate, T!Private, Gap
  <1>2. ASSUME NEW w \in Workers, T!Claim(w) PROVE Gated'
    <2>1. jobL # "idle" => \A v \in Workers : ~Claiming(v)
      BY <1>2, Lone
    <2>2. /\ \A v \in Workers \ {w} : Same(v) /\ ~T!Holding(v)
          /\ pcL'[w] = "send" /\ claimL'[w] = T!At(w) /\ UNCHANGED <<jobL, kind>>
      BY <1>2, ClaimEffect DEF Timed, T!TypeOK
    <2>3. T!Holds(w) => stampL' = stampL /\ T!Gate(w) = stampL
      BY <1>2, ClaimEffect DEF T!Gate, T!Private
    <2>4. ~T!Holds(w) => T!Gate(w)' = T!At(w) /\ T!At(w) \in Nat
      BY <1>2, ClaimEffect DEF T!Gate, T!Private, Timed, T!TypeOK
    <2>5. ASSUME NEW v \in Workers, v # w, Claiming(v)'
          PROVE  T!Gate(v)' # Never /\ claimL'[v] <= T!Gate(v)'
      <3>1. Claiming(v) /\ jobL = "idle" /\ ~T!Holding(v) /\ claimL'[v] = claimL[v] /\ kind'[v] = kind[v]
        BY <2>1, <2>2, <2>5 DEF Same
      <3>2. T!Gate(v) # Never /\ claimL[v] <= T!Gate(v)
        BY <3>1 DEF Gated
      <3>3. CASE T!Private(v)
        <4>1. memory'[v] = memory[v]
          BY <1>2, <2>5, ClaimEffect DEF Timed, T!TypeOK
        <4>2. QED
          BY <2>2, <3>1, <3>2, <3>3, <4>1 DEF T!Gate, T!Private
      <3>4. CASE ~T!Private(v)
        <4>1. stampL # Never /\ claimL[v] <= stampL
          BY <3>2, <3>4 DEF T!Gate
        <4>2. stampL' = stampL \/ (stampL' = T!At(w) /\ T!Gate(w) = stampL)
          BY <1>2, ClaimEffect DEF T!Gate
        <4>3. T!At(w) \in Nat /\ (T!Gate(w) # Never => T!Gate(w) < T!At(w))
          BY <1>2, ClaimEffect
        <4>4. claimL[v] \in Nat /\ stampL \in Nat
          BY <4>1 DEF Timed, T!TypeOK, T!Stamps
        <4>5. stampL' # Never /\ claimL[v] <= stampL'
          BY <4>1, <4>2, <4>3, <4>4, SlotAssumption DEF T!SlotAssumption
        <4>6. QED
          BY <2>2, <3>1, <3>4, <4>5 DEF T!Gate, T!Private
      <3>5. QED
        BY <3>3, <3>4
    <2>6. T!Gate(w) # Never => Gap(T!Gate(w), T!At(w))
      BY <1>2, ClaimEffect
    <2>7. T!At(w) \in Nat /\ Never \notin Nat
      BY <1>2, ClaimEffect, SlotAssumption DEF T!SlotAssumption
    <2>8. ASSUME NEW v \in Workers
          PROVE  /\ Claiming(v)' /\ ~T!Holding(v)' => T!Gate(v)' # Never /\ claimL'[v] <= T!Gate(v)'
                 /\ T!Holding(v)' => stampL' = Never \/ Gap(stampL, claimL[v])'
                 /\ jobL' # "idle" /\ Claiming(v)' => \A u \in Workers : Claiming(u)' => u = v
      <3>1. CASE v = w
        <4>1. Claiming(v)' /\ ~T!Holding(v)' => T!Gate(v)' # Never /\ claimL'[v] <= T!Gate(v)'
          BY <2>2, <2>4, <2>7, <3>1
        <4>2. T!Holding(v)' => stampL' = Never \/ Gap(stampL, claimL[v])'
          BY <2>2, <2>3, <2>6, <3>1 DEF Gap
        <4>3. jobL' # "idle" /\ Claiming(v)' => \A u \in Workers : Claiming(u)' => u = v
          BY <2>1, <2>2, <3>1 DEF Same
        <4>4. QED
          BY <4>1, <4>2, <4>3
      <3>2. CASE v # w
        BY <2>1, <2>2, <2>5, <3>2 DEF Same
      <3>3. QED
        BY <3>1, <3>2
    <2>9. QED
      BY <2>8 DEF Gated
  <1>3. ASSUME NEW w \in Workers, T!Send(w) PROVE Gated'
    <2>1. /\ pcL[w] = "send" /\ pcL'[w] \in {"told", "failed"} /\ \A v \in Workers \ {w} : Same(v)
          /\ UNCHANGED <<jobL, stampL, memory, kind, claimL, deaths>>
      BY <1>3, SendEffect
    <2>2. QED
      BY <2>1 DEF Gated, Same, T!Gate, T!Private, Gap
  <1>4. ASSUME NEW w \in Workers, Ends(w) PROVE Gated'
    <2>1. /\ pcL'[w] = "idle" /\ jobL' = jobL
          /\ \A v \in Workers \ {w} : Same(v) /\ memory'[v] = memory[v]
      BY <1>4, EndEffect, OverEffect DEF Timed
    <2>2. (\E v \in Workers \ {w} : Claiming(v)) => stampL' = stampL
      BY <1>4, EndEffect DEF Gated
    <2>3. QED
      BY <2>1, <2>2 DEF Gated, Same, T!Gate, T!Private, Gap
  <1>5. QED
    BY <1>1, <1>2, <1>3, <1>4, StepCases

LEMMA BehindStep ==
  ASSUME Timed, Gated, Behind, Kept, [T!Next]_(T!vars)
  PROVE  Behind'
  <1> USE DEF Claiming, T!Holding, T!Holds
  <1>0. \A v \in Workers : \A d : <<v, d>> # Shared
    BY SlotAssumption DEF Shared, T!SlotAssumption
  <1>1. ASSUME Quiet PROVE Behind'
    <2>1. UNCHANGED <<jobL, stampL, memory, deaths>>
      BY <1>1, QuietEffect
    <2>2. \A v \in Workers : T!Holding(v) => Same(v)
      BY <1>1, QuietEffect
    <2>3. \A v \in Workers : \A a, r : Holder(v, a, r) => Holder(v, a, r)'
      BY <2>1, <2>2 DEF Holder, Same, T!Restores
    <2>4. \A a, r, o : Counts(a, r, o)' => Counts(a, r, o)
      BY <1>1, QuietCounts
    <2>5. QED
      BY <2>1, <2>3, <2>4 DEF Behind
  <1>2. ASSUME NEW w \in Workers, T!Claim(w) PROVE Behind'
    <2>1. \A a, r, o : Counts(a, r, o)' => Counts(a, r, o)
      BY <1>2, ClaimCounts
    <2>2. \A v \in Workers : \A a, r : ~Holder(v, a, r)
      BY <1>2, ClaimEffect DEF Holder
    <2>3. T!At(w) \in Nat /\ T!At(w) # Never /\ (T!Gate(w) # Never => T!Gate(w) < T!At(w)) /\ T!Gate(w) \in T!Stamps
      BY <1>2, ClaimEffect, SlotAssumption DEF T!SlotAssumption
    <2>4. \/ stampL' = stampL
          \/ stampL' = T!At(w) /\ T!Gate(w) = stampL
      BY <1>2, ClaimEffect DEF T!Gate
    <2>5. ASSUME NEW v \in Workers
          PROVE  memory'[v] = memory[v] \/ (memory'[v] = T!At(w) /\ v = w /\ T!Gate(w) = memory[v])
      BY <1>2, ClaimEffect DEF T!Gate, Timed, T!TypeOK
    <2>6. deaths' = deaths
      BY <1>2, ClaimEffect
    <2>7. ASSUME NEW a \in Nat, NEW r \in Nat, Counts(a, r, Shared)
          PROVE  stampL' # Never /\ a <= stampL'
      BY <2>2, <2>3, <2>4, <2>7 DEF Behind, T!Stamps
    <2>8. ASSUME NEW a \in Nat, NEW r \in Nat, NEW v \in Workers, Counts(a, r, <<v, deaths>>)
          PROVE  memory'[v] # Never /\ a <= memory'[v]
      BY <2>3, <2>5, <2>8 DEF Behind, T!Stamps
    <2>9. Shared' = Shared
      BY DEF Shared
    <2>10. QED
      BY <2>1, <2>6, <2>7, <2>8, <2>9 DEF Behind
  <1>3. ASSUME NEW w \in Workers, T!Send(w) PROVE Behind'
    <2>1. /\ pcL[w] = "send" /\ pcL'[w] \in {"told", "failed"} /\ \A v \in Workers \ {w} : Same(v)
          /\ UNCHANGED <<jobL, stampL, memory, kind, claimL, runL, deaths>>
      BY <1>3, SendEffect
    <2>2. \A v \in Workers : \A a, r : Holder(v, a, r) => Holder(v, a, r)'
      BY <2>1 DEF Holder, Same, T!Restores
    <2>3. ASSUME NEW a \in Nat, NEW r \in Nat, NEW o, Counts(a, r, o)', ~Counts(a, r, o)
          PROVE  /\ o = Slot(w)
                 /\ Holder(w, a, r)' \/ (T!Gate(w) # Never /\ a <= T!Gate(w))
      <3>1. a = claimL[w] /\ r = runL[w] /\ o = Slot(w) /\ (T!Restores => pcL'[w] = "told")
        BY <1>3, <2>3, SendCounts
      <3>2. CASE T!Holding(w)
        BY <2>1, <3>1, <3>2 DEF Holder, T!Restores
      <3>3. CASE ~T!Holding(w)
        BY <2>1, <3>1, <3>3 DEF Gated
      <3>4. QED
        BY <3>1, <3>2, <3>3
    <2>4. ASSUME NEW a \in Nat, NEW r \in Nat, Counts(a, r, Shared)'
          PROVE  (stampL # Never /\ a <= stampL) \/ \E v \in Workers : Holder(v, a, r)'
      <3>1. CASE Counts(a, r, Shared)
        BY <2>2, <3>1 DEF Behind
      <3>2. CASE ~Counts(a, r, Shared)
        <4>1. Shared = Slot(w) /\ (Holder(w, a, r)' \/ (T!Gate(w) # Never /\ a <= T!Gate(w)))
          BY <2>3, <2>4, <3>2
        <4>2. T!Gate(w) = stampL
          BY <1>0, <4>1 DEF Slot, T!Gate
        <4>3. QED
          BY <4>1, <4>2
      <3>3. QED
        BY <3>1, <3>2
    <2>5. ASSUME NEW a \in Nat, NEW r \in Nat, NEW v \in Workers, Counts(a, r, <<v, deaths>>)'
          PROVE  memory[v] # Never /\ a <= memory[v]
      <3>1. CASE Counts(a, r, <<v, deaths>>)
        BY <3>1 DEF Behind
      <3>2. CASE ~Counts(a, r, <<v, deaths>>)
        <4>1. <<v, deaths>> = Slot(w) /\ (Holder(w, a, r)' \/ (T!Gate(w) # Never /\ a <= T!Gate(w)))
          BY <2>1, <2>3, <2>5, <3>2
        <4>2. v = w /\ T!Private(w)
          BY <1>0, <4>1 DEF Slot
        <4>3. T!Gate(w) = memory[v] /\ ~Holder(w, a, r)'
          BY <2>1, <4>2 DEF T!Gate, Holder, T!Private
        <4>4. QED
          BY <4>1, <4>3
      <3>3. QED
        BY <3>1, <3>2
    <2>6. Shared' = Shared
      BY DEF Shared
    <2>7. QED
      BY <2>1, <2>4, <2>5, <2>6 DEF Behind
  <1>4. ASSUME NEW w \in Workers, Ends(w) PROVE Behind'
    <2>1. \A a, r, o : Counts(a, r, o)' => Counts(a, r, o)
      BY <1>4, EndCounts
    <2>2. /\ pcL'[w] = "idle" /\ jobL' = jobL /\ \A v \in Workers \ {w} : Same(v)
          /\ (deaths' = deaths /\ memory' = memory) \/ deaths' = deaths + 1
      BY <1>4, EndEffect, OverEffect DEF Timed
    <2>3. ASSUME NEW a \in Nat, NEW r \in Nat, NEW v \in Workers, Counts(a, r, <<v, deaths>>)'
          PROVE  memory'[v] # Never /\ a <= memory'[v]
      <3>1. Counts(a, r, <<v, deaths'>>)
        BY <2>1, <2>3
      <3>2. \E m \in mailsL : m.of = <<v, deaths'>>
        BY <1>0, <3>1 DEF Counts
      <3>3. deaths' <= deaths
        BY <3>2 DEF Timed
      <3>4. deaths' = deaths /\ memory' = memory
        BY <2>2, <3>3 DEF Timed
      <3>5. QED
        BY <3>1, <3>4 DEF Behind
    <2>4. ASSUME NEW a \in Nat, NEW r \in Nat, Counts(a, r, Shared)'
          PROVE  (stampL' # Never /\ a <= stampL') \/ \E v \in Workers : Holder(v, a, r)'
      <3>1. Counts(a, r, Shared) /\ r \notin voidedL'
        BY <2>1, <2>4 DEF Counts
      <3>2. CASE \E v \in Workers \ {w} : Holder(v, a, r)
        BY <2>2, <3>2 DEF Holder, Same, T!Restores
      <3>3. CASE (stampL # Never /\ a <= stampL) \/ Holder(w, a, r)
        <4>1. claimL[w] \in Nat /\ stampL \in T!Stamps /\ Never \notin Nat
          BY SlotAssumption DEF Timed, T!TypeOK, T!SlotAssumption
        <4>2. Holder(w, a, r) => T!Holding(w) /\ a = claimL[w] /\ runL[w] = r
                                 /\ (pcL[w] = "failed" => ~T!Restores)
          BY DEF Holder
        <4>3. CASE stampL' = stampL /\ (T!Holding(w) => runL[w] \in voidedL' \/ (pcL[w] = "failed" /\ T!Restores))
          BY <3>1, <3>3, <4>2, <4>3
        <4>4. CASE stampL' = claimL[w] /\ T!Holding(w)
          <5>1. stampL = Never \/ stampL <= claimL[w]
            BY <4>1, <4>4, WindowAssumption DEF Gated, Gap, T!WindowAssumption, T!Stamps
          <5>2. QED
            BY <3>3, <4>1, <4>2, <4>4, <5>1 DEF T!Stamps
        <4>5. CASE stampL' = seenL[w] /\ pcL[w] = "failed" /\ T!Restores /\ ~T!Holding(w)
          BY <3>1, <4>5 DEF Kept
        <4>6. QED
          BY <1>4, <4>3, <4>4, <4>5, EndStamp
      <3>4. QED
        BY <3>1, <3>2, <3>3 DEF Behind
    <2>5. Shared' = Shared
      BY DEF Shared
    <2>6. QED
      BY <2>3, <2>4, <2>5 DEF Behind
  <1>5. QED
    BY <1>1, <1>2, <1>3, <1>4, StepCases

LEMMA KeptStep ==
  ASSUME Timed, Gated, Behind, Kept, [T!Next]_(T!vars)
  PROVE  Kept'
  <1> USE DEF Claiming, T!Holding, T!Holds
  <1>0. Shared' = Shared
    BY DEF Shared
  <1> SUFFICES ASSUME T!Restores', NEW v \in Workers, NEW a \in Nat, NEW r \in Nat,
                      Counts(a, r, Shared)'
               PROVE  /\ pcL'[v] = "check" =>
                             (seenL'[v] # Never /\ a <= seenL'[v]) \/ a >= refL'[v] - Window
                      /\ pcL'[v] \in {"send", "failed"} /\ ~T!Holding(v)' =>
                             seenL'[v] # Never /\ a <= seenL'[v]
    BY <1>0 DEF Kept
  <1>2. ASSUME jobL' = jobL, Same(v), Counts(a, r, Shared)
        PROVE  /\ pcL'[v] = "check" =>
                      (seenL'[v] # Never /\ a <= seenL'[v]) \/ a >= refL'[v] - Window
               /\ pcL'[v] \in {"send", "failed"} /\ ~T!Holding(v)' =>
                      seenL'[v] # Never /\ a <= seenL'[v]
    <2>1. T!Restores
      BY <1>2 DEF T!Restores
    <2>2. QED
      BY <1>2, <2>1 DEF Kept, Same
  <1>3. nowL \in Nat /\ Window \in Nat /\ MaxRun \in Nat /\ MaxRun <= Window
    BY WindowAssumption DEF Timed, T!TypeOK, T!WindowAssumption
  <1>4. CASE Quiet
    <2>1. Counts(a, r, Shared) /\ jobL' = jobL
      BY <1>4, <1>0, QuietCounts, QuietEffect
    <2>2. CASE pcL'[v] = "check" /\ seenL'[v] = stampL /\ refL'[v] = nowL
      <3>1. CASE stampL # Never /\ a <= stampL
        BY <2>2, <3>1
      <3>2. ASSUME NEW u \in Workers, Holder(u, a, r) PROVE a >= nowL - Window
        <4>1. a = claimL[u] /\ refL[u] <= claimL[u] /\ nowL <= refL[u] + MaxRun
          BY <3>2 DEF Holder, Timed
        <4>2. refL[u] \in Nat
          BY DEF Timed, T!TypeOK
        <4>3. QED
          BY <1>3, <4>1, <4>2
      <3>3. QED
        BY <2>1, <2>2, <3>1, <3>2 DEF Behind
    <2>3. QED
      BY <1>2, <1>4, <2>1, <2>2, QuietEffect
  <1>5. ASSUME NEW w \in Workers, T!Claim(w)
        PROVE  /\ pcL'[v] = "check" =>
                      (seenL'[v] # Never /\ a <= seenL'[v]) \/ a >= refL'[v] - Window
               /\ pcL'[v] \in {"send", "failed"} /\ ~T!Holding(v)' =>
                      seenL'[v] # Never /\ a <= seenL'[v]
    <2>1. Counts(a, r, Shared) /\ jobL' = jobL
      BY <1>0, <1>5, ClaimCounts, ClaimEffect
    <2>2. CASE v # w
      BY <1>2, <1>5, <2>1, <2>2, ClaimEffect
    <2>3. CASE v = w
      <3>1. /\ pcL[w] = "check" /\ pcL'[w] = "send" /\ seenL'[w] = seenL[w] /\ kind'[w] = kind[w]
            /\ jobL # "periodic" /\ jobL # "idle" /\ T!Restores
        BY <1>5, <2>1, ClaimEffect DEF Timed, T!TypeOK, T!Restores
      <3>2. stampL # Never /\ a <= stampL /\ stampL \in Nat
        BY <1>5, <2>1, ClaimEffect DEF Behind, Holder, Timed, T!TypeOK, T!Stamps
      <3>3. stampL < refL[w] - Window /\ refL[w] \in Nat
        BY <1>5, <3>1, <3>2, ClaimEffect DEF T!Gate, T!Private, Gap, T!At, Timed, T!TypeOK
      <3>4. seenL[w] # Never /\ a <= seenL[w]
        BY <1>3, <2>1, <3>1, <3>2, <3>3 DEF Kept
      <3>5. QED
        BY <2>3, <3>1, <3>4
    <2>4. QED
      BY <2>2, <2>3
  <1>6. ASSUME NEW w \in Workers, T!Send(w)
        PROVE  /\ pcL'[v] = "check" =>
                      (seenL'[v] # Never /\ a <= seenL'[v]) \/ a >= refL'[v] - Window
               /\ pcL'[v] \in {"send", "failed"} /\ ~T!Holding(v)' =>
                      seenL'[v] # Never /\ a <= seenL'[v]
    <2>1. /\ pcL[w] = "send" /\ pcL'[w] \in {"told", "failed"} /\ \A u \in Workers \ {w} : Same(u)
          /\ UNCHANGED <<jobL, kind, refL, seenL>> /\ jobL # "idle" /\ T!Restores
      BY <1>6, SendEffect DEF T!Restores
    <2>2. CASE Counts(a, r, Shared)
      <3>1. CASE v # w
        BY <1>2, <2>1, <2>2, <3>1
      <3>2. CASE v = w
        BY <2>1, <2>2, <3>2 DEF Kept
      <3>3. QED
        BY <3>1, <3>2
    <2>3. CASE ~Counts(a, r, Shared)
      <3>1. a = claimL[w] /\ pcL'[w] = "told"
        BY <1>0, <1>6, <2>1, <2>3, SendCounts
      <3>2. CASE v # w
        <4>1. ~Claiming(v) /\ Same(v)
          BY <2>1, <3>2 DEF Gated
        <4>2. ASSUME pcL[v] = "check" PROVE a >= refL[v] - Window
          <5>1. /\ refL[w] <= claimL[w] /\ nowL <= refL[w] + MaxRun /\ refL[v] <= nowL
                /\ refL[w] \in Nat /\ refL[v] \in Nat /\ claimL[w] \in Nat
            BY <2>1, <4>2 DEF Timed, T!TypeOK
          <5>2. QED
            BY <1>3, <3>1, <5>1
        <4>3. QED
          BY <4>1, <4>2 DEF Same
      <3>3. CASE v = w
        BY <3>1, <3>3
      <3>4. QED
        BY <3>2, <3>3
    <2>4. QED
      BY <2>2, <2>3
  <1>7. ASSUME NEW w \in Workers, Ends(w)
        PROVE  /\ pcL'[v] = "check" =>
                      (seenL'[v] # Never /\ a <= seenL'[v]) \/ a >= refL'[v] - Window
               /\ pcL'[v] \in {"send", "failed"} /\ ~T!Holding(v)' =>
                      seenL'[v] # Never /\ a <= seenL'[v]
    <2>1. Counts(a, r, Shared)
      BY <1>0, <1>7, EndCounts
    <2>2. pcL'[w] = "idle" /\ jobL' = jobL /\ \A u \in Workers \ {w} : Same(u)
      BY <1>7, EndEffect, OverEffect DEF Timed
    <2>3. CASE v # w
      BY <1>2, <2>1, <2>2, <2>3
    <2>4. CASE v = w
      BY <2>2, <2>4
    <2>5. QED
      BY <2>3, <2>4
  <1>8. QED
    BY <1>4, <1>5, <1>6, <1>7, StepCases

LEMMA DistinctStep ==
  ASSUME Timed, Gated, Behind, Distinct, [T!Next]_(T!vars)
  PROVE  Distinct'
  <1> USE DEF T!Holding
  <1>0. \A v \in Workers : \A d : <<v, d>> # Shared
    BY SlotAssumption DEF Shared, T!SlotAssumption
  <1>1. ASSUME \A v \in Workers : pcL'[v] = "send" => Same(v), jobL' = jobL, deaths' = deaths,
               \A a, r, o : Counts(a, r, o)' => Counts(a, r, o)
        PROVE  Distinct'
    <2>1. \A v \in Workers : Same(v) => Slot(v)' = Slot(v)
      BY <1>1 DEF Same, Slot, T!Private, Shared
    <2>2. QED
      BY <1>1, <2>1 DEF Distinct, Same, Afar, Gap
  <1>2. CASE Quiet
    BY <1>1, <1>2, QuietEffect, QuietCounts
  <1>3. ASSUME NEW w \in Workers, T!Claim(w) PROVE Distinct'
    <2>1. /\ \A v \in Workers \ {w} : Same(v) /\ ~T!Holding(v)
          /\ claimL'[w] = T!At(w) /\ pcL[w] = "check"
          /\ UNCHANGED <<jobL, kind, deaths>> /\ T!At(w) \in Nat
      BY <1>3, ClaimEffect DEF Timed, T!TypeOK
    <2>2. T!Gate(w) # Never => Gap(T!Gate(w), T!At(w)) /\ T!Gate(w) < T!At(w) /\ T!Gate(w) \in Nat
      BY <1>3, ClaimEffect DEF T!Stamps
    <2>3. \A v \in Workers : Slot(v)' = Slot(v)
      BY <2>1 DEF Same, Slot, T!Private, Shared
    <2>4. \A a, r, o : Counts(a, r, o)' => Counts(a, r, o)
      BY <1>3, ClaimCounts
    <2>5. ASSUME NEW a \in Nat, NEW r \in Nat, Counts(a, r, Slot(w)) PROVE Gap(a, T!At(w))
      <3>1. T!Gate(w) # Never /\ a <= T!Gate(w)
        <4>1. CASE T!Private(w)
          BY <2>5, <4>1 DEF Slot, T!Gate, Behind
        <4>2. CASE ~T!Private(w)
          BY <1>3, <2>5, <4>2, ClaimEffect DEF Slot, T!Gate, Behind, Holder
        <4>3. QED
          BY <4>1, <4>2
      <3>2. QED
        BY <2>1, <2>2, <3>1, WindowAssumption DEF Gap, T!WindowAssumption
    <2>6. ASSUME NEW v \in Workers, v # w, pcL[v] = "send", Slot(v) = Slot(w)
          PROVE  Gap(claimL[v], T!At(w))
      <3>1. jobL = "idle"
        BY <1>3, <2>6, Lone DEF Claiming
      <3>2. ~T!Private(v) /\ ~T!Private(w)
        BY <1>0, <2>6 DEF Slot
      <3>3. stampL # Never /\ claimL[v] <= stampL /\ T!Gate(w) = stampL
        BY <2>1, <2>6, <3>2 DEF Gated, T!Gate, Claiming
      <3>4. claimL[v] \in Nat
        BY DEF Timed, T!TypeOK
      <3>5. QED
        BY <2>1, <2>2, <3>1, <3>3, <3>4 DEF Gap
    <2>7. \A s, t : Afar(s, t)' <=> (Gap(s, t) \/ Gap(t, s))
      BY <2>1 DEF Afar, Gap
    <2>8. ASSUME NEW v \in Workers, pcL'[v] = "send"
          PROVE  /\ \A u \in Workers : pcL'[u] = "send" /\ u # v /\ Slot(u)' = Slot(v)' =>
                       Afar(claimL[u], claimL[v])'
                 /\ \A a \in Nat, r \in Nat : Counts(a, r, Slot(v))' => Afar(a, claimL[v])'
      <3>1. CASE v = w
        <4>1. \A a \in Nat, r \in Nat : Counts(a, r, Slot(v))' => Afar(a, claimL[v])'
          BY <2>1, <2>3, <2>4, <2>5, <2>7, <3>1
        <4>2. \A u \in Workers : pcL'[u] = "send" /\ u # v /\ Slot(u)' = Slot(v)' =>
                 Afar(claimL[u], claimL[v])'
          BY <2>1, <2>3, <2>6, <2>7, <3>1 DEF Same
        <4>3. QED
          BY <4>1, <4>2
      <3>2. CASE v # w
        <4>1. pcL[v] = "send" /\ claimL'[v] = claimL[v]
          BY <2>1, <2>8, <3>2 DEF Same
        <4>2. \A a \in Nat, r \in Nat : Counts(a, r, Slot(v))' => Afar(a, claimL[v])'
          BY <2>3, <2>4, <2>7, <4>1 DEF Distinct, Afar
        <4>3. ASSUME NEW u \in Workers, pcL'[u] = "send", u # v, Slot(u)' = Slot(v)'
              PROVE  Afar(claimL[u], claimL[v])'
          <5>1. CASE u = w
            BY <2>1, <2>3, <2>6, <2>7, <3>2, <4>1, <4>3, <5>1
          <5>2. CASE u # w
            BY <2>1, <2>3, <2>7, <4>1, <4>3, <5>2 DEF Distinct, Afar, Same
          <5>3. QED
            BY <5>1, <5>2
        <4>4. QED
          BY <4>2, <4>3
      <3>3. QED
        BY <3>1, <3>2
    <2>9. QED
      BY <2>8 DEF Distinct
  <1>4. ASSUME NEW w \in Workers, T!Send(w) PROVE Distinct'
    <2>1. /\ pcL[w] = "send" /\ pcL'[w] \in {"told", "failed"} /\ \A v \in Workers \ {w} : Same(v)
          /\ UNCHANGED <<jobL, kind, deaths>>
      BY <1>4, SendEffect
    <2>2. \A v \in Workers : Slot(v)' = Slot(v)
      BY <2>1 DEF Slot, T!Private, Shared
    <2>3. ASSUME NEW v \in Workers, pcL'[v] = "send"
          PROVE  /\ \A u \in Workers : pcL'[u] = "send" /\ u # v /\ Slot(u)' = Slot(v)' =>
                       Afar(claimL[u], claimL[v])'
                 /\ \A a \in Nat, r \in Nat : Counts(a, r, Slot(v))' => Afar(a, claimL[v])'
      <3>1. v # w /\ pcL[v] = "send" /\ claimL'[v] = claimL[v]
        BY <2>1, <2>3 DEF Same
      <3>2. \A u \in Workers : pcL'[u] = "send" /\ u # v /\ Slot(u)' = Slot(v)' =>
               Afar(claimL[u], claimL[v])'
        BY <2>1, <2>2, <3>1 DEF Distinct, Same, Afar, Gap
      <3>3. ASSUME NEW a \in Nat, NEW r \in Nat, Counts(a, r, Slot(v))' PROVE Afar(a, claimL[v])
        <4>1. CASE Counts(a, r, Slot(v))
          BY <3>1, <4>1 DEF Distinct
        <4>2. CASE ~Counts(a, r, Slot(v))
          <5>1. a = claimL[w] /\ Slot(v) = Slot(w)
            BY <1>4, <2>2, <3>3, <4>2, SendCounts
          <5>2. QED
            BY <2>1, <3>1, <5>1 DEF Distinct
        <4>3. QED
          BY <4>1, <4>2
      <3>4. QED
        BY <2>1, <3>1, <3>2, <3>3 DEF Afar, Gap
    <2>4. QED
      BY <2>3 DEF Distinct
  <1>5. ASSUME NEW w \in Workers, Ends(w) PROVE Distinct'
    <2>1. /\ pcL'[w] = "idle" /\ jobL' = jobL /\ \A v \in Workers \ {w} : Same(v)
          /\ deaths' = deaths \/ deaths' = deaths + 1
      BY <1>5, EndEffect, OverEffect DEF Timed
    <2>2. \A a, r, o : Counts(a, r, o)' => Counts(a, r, o)
      BY <1>5, EndCounts
    <2>3. \A v \in Workers : pcL'[v] = "send" => Same(v)
      BY <2>1
    <2>4. CASE deaths' = deaths
      BY <1>1, <2>1, <2>2, <2>3, <2>4
    <2>5. CASE deaths' = deaths + 1
      <3>1. ASSUME NEW v \in Workers, Same(v), NEW a, NEW r, Counts(a, r, Slot(v))'
            PROVE  Counts(a, r, Slot(v)) /\ Slot(v)' = Shared /\ Slot(v) = Shared
        <4>1. CASE T!Private(v)
          <5>1. Slot(v)' = <<v, deaths + 1>>
            BY <2>1, <2>5, <3>1, <4>1 DEF Slot, T!Private, Same
          <5>2. Counts(a, r, <<v, deaths + 1>>)
            BY <2>2, <3>1, <5>1
          <5>3. \E m \in mailsL : m.of = <<v, deaths + 1>>
            BY <1>0, <5>2 DEF Counts
          <5>4. deaths + 1 <= deaths
            BY <5>3 DEF Timed
          <5>5. QED
            BY <5>4 DEF Timed
        <4>2. CASE ~T!Private(v)
          <5>1. Slot(v) = Shared /\ Slot(v)' = Shared
            BY <2>1, <3>1, <4>2 DEF Slot, T!Private, Same, Shared
          <5>2. QED
            BY <2>2, <3>1, <5>1
        <4>3. QED
          BY <4>1, <4>2
      <3>2. \A u, v \in Workers : u # v /\ Same(u) /\ Same(v) /\ Slot(u)' = Slot(v)' =>
               Slot(u) = Slot(v)
        BY <1>0, <2>1 DEF Slot, T!Private, Same, Shared
      <3>3. QED
        BY <2>1, <2>3, <3>1, <3>2 DEF Distinct, Same, Afar, Gap
    <2>6. QED
      BY <2>1, <2>4, <2>5
  <1>6. QED
    BY <1>2, <1>3, <1>4, <1>5, StepCases

LEMMA LettersStep ==
  ASSUME Timed, Distinct, Letters, [T!Next]_(T!vars)
  PROVE  Letters'
  <1>1. ASSUME jobL' = jobL, \A a, r, o : Counts(a, r, o)' => Counts(a, r, o)
        PROVE  Letters'
    BY <1>1 DEF Letters, Afar, Gap
  <1>2. CASE Quiet
    BY <1>1, <1>2, QuietEffect, QuietCounts
  <1>3. ASSUME NEW w \in Workers, T!Claim(w) PROVE Letters'
    BY <1>1, <1>3, ClaimEffect, ClaimCounts
  <1>4. ASSUME NEW w \in Workers, Ends(w) PROVE Letters'
    BY <1>1, <1>4, EndEffect, EndCounts
  <1>5. ASSUME NEW w \in Workers, T!Send(w) PROVE Letters'
    <2>1. pcL[w] = "send" /\ jobL' = jobL
      BY <1>5, SendEffect
    <2>2. \A a, r, o : Counts(a, r, o)' =>
             Counts(a, r, o) \/ (a = claimL[w] /\ r = runL[w] /\ o = Slot(w))
      BY <1>5, SendCounts
    <2>3. \A a \in Nat, r \in Nat : Counts(a, r, Slot(w)) =>
             Afar(a, claimL[w]) /\ Afar(claimL[w], a)
      BY <2>1 DEF Distinct, Afar
    <2>4. \A s, t : Afar(s, t)' = Afar(s, t)
      BY <2>1 DEF Afar, Gap
    <2>5. ASSUME NEW a \in Nat, NEW b \in Nat, NEW q \in Nat, NEW r \in Nat,
                 NEW o \in (Workers \cup {None}) \X Nat, Counts(a, q, o)', Counts(b, r, o)'
          PROVE  Afar(a, b) \/ (a = b /\ q = r)
      BY <2>2, <2>3, <2>5 DEF Letters
    <2>6. QED
      BY <2>4, <2>5 DEF Letters
  <1>6. QED
    BY <1>2, <1>3, <1>4, <1>5, StepCases

LEMMA NumberedStep ==
  ASSUME Timed, Numbered, [T!Next]_(T!vars)
  PROVE  Numbered'
  <1>0. /\ runsL \in Nat /\ \A m \in mailsL \cup queue : m.run \in Nat
        /\ \A v \in Workers : runL[v] \in Nat
    BY DEF Timed, T!TypeOK, T!Message
  <1>1. ASSUME NEW w \in Workers, NEW k \in T!Kinds, T!Start(w, k) PROVE Numbered'
    <2>1. /\ pcL'[w] = "check" /\ runL'[w] = runsL /\ runsL' = runsL + 1
          /\ \A v \in Workers \ {w} : Same(v) /\ UNCHANGED <<mailsL, queue>>
      BY <1>1 DEF T!Start, T!Goto, Timed, T!TypeOK, Same
    <2>2. UNCHANGED <<mailsL, queue>>
      BY <1>1 DEF T!Start
    <2>3. \A m \in mailsL \cup queue : m.run < runsL' /\ m.run # runsL
      BY <1>0, <2>1 DEF Numbered
    <2>4. \A v \in Workers \ {w} : pcL'[v] # "idle" => runL'[v] < runsL' /\ runL'[v] # runsL
      BY <1>0, <2>1 DEF Numbered, Same
    <2>5. ASSUME NEW v \in Workers, pcL'[v] # "idle"
          PROVE  /\ runL'[v] < runsL'
                 /\ \A m \in mailsL \cup queue : m.run = runL'[v] =>
                       pcL'[v] \in {"told", "failed"} /\ m.at = claimL'[v]
                 /\ \A u \in Workers : pcL'[u] # "idle" /\ runL'[u] = runL'[v] =>
                       \/ u = v
                       \/ /\ claimL'[u] = claimL'[v]
                          /\ \/ pcL'[u] = "post" /\ pcL'[v] \in {"told", "failed"}
                             \/ pcL'[v] = "post" /\ pcL'[u] \in {"told", "failed"}
      <3>1. CASE v = w
        BY <1>0, <2>1, <2>3, <2>4, <3>1
      <3>2. CASE v # w
        BY <2>1, <2>4, <2>5, <3>2 DEF Numbered, Same
      <3>3. QED
        BY <3>1, <3>2
    <2>6. QED
      BY <2>2, <2>3, <2>5 DEF Numbered
  <1>2. ASSUME NEW w \in Workers, NEW m \in queue, T!Take(w, m) PROVE Numbered'
    <2>1. /\ pcL[w] = "idle" /\ pcL'[w] = "post" /\ runL'[w] = m.run /\ claimL'[w] = m.at
          /\ \A v \in Workers \ {w} : Same(v)
          /\ queue' = queue \ {m} /\ mailsL' = mailsL /\ runsL' = runsL
      BY <1>2 DEF T!Take, T!Goto, Timed, T!TypeOK, Same
    <2>2. m.run < runsL /\ \A n \in mailsL \cup (queue \ {m}) : n.run # m.run
      BY DEF Numbered
    <2>3. \A v \in Workers : pcL[v] # "idle" /\ runL[v] = m.run =>
             pcL[v] \in {"told", "failed"} /\ claimL[v] = m.at
      BY DEF Numbered
    <2>4. ASSUME NEW v \in Workers, pcL'[v] # "idle"
          PROVE  /\ runL'[v] < runsL'
                 /\ \A n \in mailsL' \cup queue' : n.run = runL'[v] =>
                       pcL'[v] \in {"told", "failed"} /\ n.at = claimL'[v]
                 /\ \A u \in Workers : pcL'[u] # "idle" /\ runL'[u] = runL'[v] =>
                       \/ u = v
                       \/ /\ claimL'[u] = claimL'[v]
                          /\ \/ pcL'[u] = "post" /\ pcL'[v] \in {"told", "failed"}
                             \/ pcL'[v] = "post" /\ pcL'[u] \in {"told", "failed"}
      <3>1. CASE v = w
        BY <2>1, <2>2, <2>3, <3>1 DEF Same
      <3>2. CASE v # w
        BY <2>1, <2>3, <2>4, <3>2 DEF Numbered, Same
      <3>3. QED
        BY <3>1, <3>2
    <2>5. QED
      BY <2>1, <2>4 DEF Numbered
  <1>3. ASSUME UNCHANGED <<mailsL, runsL>>, queue' \subseteq queue, \A v \in Workers : Same(v)
        PROVE  Numbered'
    BY <1>3 DEF Numbered, Same
  <1>4. CASE (\E w \in Workers : \E m \in queue : T!Dropped(w, m)) \/ T!Turn \/ T!Tick \/ UNCHANGED T!vars
    BY <1>3, <1>4 DEF T!Dropped, T!Turn, T!Tick, T!vars, T!local, Same
  <1>5. ASSUME NEW w \in Workers, T!Claim(w) PROVE Numbered'
    <2>1. /\ pcL[w] = "check" /\ pcL'[w] = "send" /\ \A v \in Workers \ {w} : Same(v)
          /\ UNCHANGED <<runL, queue, mailsL, runsL>>
      BY <1>5, ClaimEffect DEF Timed, T!TypeOK
    <2>2. /\ \A m \in mailsL \cup queue : m.run # runL[w]
          /\ \A v \in Workers \ {w} : pcL[v] # "idle" => runL[v] # runL[w]
      BY <2>1 DEF Numbered
    <2>3. ASSUME NEW v \in Workers, pcL'[v] # "idle"
          PROVE  /\ runL[v] < runsL
                 /\ \A m \in mailsL \cup queue : m.run = runL[v] =>
                       pcL'[v] \in {"told", "failed"} /\ m.at = claimL'[v]
                 /\ \A u \in Workers : pcL'[u] # "idle" /\ runL[u] = runL[v] =>
                       \/ u = v
                       \/ /\ claimL'[u] = claimL'[v]
                          /\ \/ pcL'[u] = "post" /\ pcL'[v] \in {"told", "failed"}
                             \/ pcL'[v] = "post" /\ pcL'[u] \in {"told", "failed"}
      <3>1. CASE v = w
        BY <2>1, <2>2, <3>1 DEF Numbered, Same
      <3>2. CASE v # w
        BY <2>1, <2>2, <2>3, <3>2 DEF Numbered, Same
      <3>3. QED
        BY <3>1, <3>2
    <2>4. QED
      BY <2>1, <2>3 DEF Numbered
  <1>6. ASSUME NEW w \in Workers, T!Send(w) PROVE Numbered'
    <2>1. /\ pcL[w] = "send" /\ pcL'[w] \in {"told", "failed"} /\ \A v \in Workers \ {w} : Same(v)
          /\ UNCHANGED <<claimL, runL, runsL>>
          /\ mailsL' = mailsL \/ queue' = queue
          /\ mailsL \subseteq mailsL' /\ queue \subseteq queue'
          /\ \A m \in (mailsL' \ mailsL) \cup (queue' \ queue) : m.at = claimL[w] /\ m.run = runL[w]
          /\ \A m, n \in (mailsL' \ mailsL) \cup (queue' \ queue) : m = n
      BY <1>6, SendEffect
    <2>2. /\ \A m \in mailsL \cup queue : m.run # runL[w]
          /\ \A v \in Workers \ {w} : pcL[v] # "idle" => runL[v] # runL[w]
          /\ runL[w] < runsL
      BY <2>1 DEF Numbered
    <2>3. /\ \A m \in mailsL' \cup queue' : m.run < runsL
          /\ \A m, n \in mailsL' : m.run = n.run => m = n
          /\ \A m, n \in queue' : m.run = n.run => m = n
          /\ \A m \in mailsL', n \in queue' : m.run # n.run
      BY <2>1, <2>2 DEF Numbered
    <2>4. ASSUME NEW v \in Workers, pcL'[v] # "idle"
          PROVE  /\ runL[v] < runsL
                 /\ \A m \in mailsL' \cup queue' : m.run = runL[v] =>
                       pcL'[v] \in {"told", "failed"} /\ m.at = claimL[v]
                 /\ \A u \in Workers : pcL'[u] # "idle" /\ runL[u] = runL[v] =>
                       \/ u = v
                       \/ /\ claimL[u] = claimL[v]
                          /\ \/ pcL'[u] = "post" /\ pcL'[v] \in {"told", "failed"}
                             \/ pcL'[v] = "post" /\ pcL'[u] \in {"told", "failed"}
      <3>1. CASE v = w
        BY <2>1, <2>2, <3>1 DEF Same
      <3>2. CASE v # w
        BY <2>1, <2>2, <2>4, <3>2 DEF Numbered, Same
      <3>3. QED
        BY <3>1, <3>2
    <2>5. QED
      BY <2>1, <2>3, <2>4 DEF Numbered
  <1>7. ASSUME NEW w \in Workers, Ends(w) PROVE Numbered'
    <2>1. /\ pcL'[w] = "idle" /\ \A v \in Workers \ {w} : Same(v)
          /\ UNCHANGED <<queue, runsL>>
          /\ \A m \in mailsL' : \/ m \in mailsL
                                \/ pcL[w] = "post" /\ m.at = claimL[w] /\ m.run = runL[w]
          /\ \A m, n \in mailsL' \ mailsL : m = n
      BY <1>7, EndEffect, OverEffect DEF Timed
    <2>2. pcL[w] = "post" =>
              /\ \A m \in mailsL \cup queue : m.run # runL[w]
              /\ runL[w] < runsL
              /\ \A v \in Workers \ {w} : pcL[v] # "idle" /\ runL[v] = runL[w] =>
                    claimL[v] = claimL[w] /\ pcL[v] \in {"told", "failed"}
      BY DEF Numbered
    <2>3. /\ \A m \in mailsL' \cup queue' : m.run < runsL
          /\ \A m, n \in mailsL' : m.run = n.run => m = n
          /\ \A m, n \in queue' : m.run = n.run => m = n
          /\ \A m \in mailsL', n \in queue' : m.run # n.run
      BY <2>1, <2>2 DEF Numbered
    <2>4. ASSUME NEW v \in Workers, pcL'[v] # "idle"
          PROVE  /\ runL'[v] < runsL
                 /\ \A m \in mailsL' \cup queue' : m.run = runL'[v] =>
                       pcL'[v] \in {"told", "failed"} /\ m.at = claimL'[v]
                 /\ \A u \in Workers : pcL'[u] # "idle" /\ runL'[u] = runL'[v] =>
                       \/ u = v
                       \/ /\ claimL'[u] = claimL'[v]
                          /\ \/ pcL'[u] = "post" /\ pcL'[v] \in {"told", "failed"}
                             \/ pcL'[v] = "post" /\ pcL'[u] \in {"told", "failed"}
      <3>1. v # w /\ Same(v)
        BY <2>1, <2>4
      <3>2. QED
        BY <2>1, <2>2, <2>4, <3>1 DEF Numbered, Same
    <2>5. QED
      BY <2>1, <2>3, <2>4 DEF Numbered
  <1>8. QED
    BY <1>1, <1>2, <1>4, <1>5, <1>6, <1>7, StepCases DEF Quiet

\* A run that ends takes what came of a stamp with it only when it rolls back its own.
LEMMA EndSettled ==
  ASSUME Timed, Numbered, NEW w \in Workers, Ends(w), NEW t, Settled(t)
  PROVE  Settled(t)' \/ (T!Holding(w) /\ jobL # "idle" /\ t = claimL[w])
  <1>1. /\ queue' = queue /\ lost \subseteq lost' /\ pcL'[w] = "idle"
        /\ \A v \in Workers \ {w} : Same(v)
    BY EndEffect, OverEffect DEF Timed
  <1>2. CASE t \in lost \/ \E m \in queue : m.at = t
    BY <1>1, <1>2 DEF Settled
  <1>3. CASE \E m \in mailsL : m.at = t
    <2>1. PICK m \in mailsL : m.at = t
      BY <1>3
    <2>2. CASE m \in mailsL'
      BY <2>1, <2>2 DEF Settled
    <2>3. CASE m \notin mailsL'
      <3>1. T!Holding(w) /\ T!RollBack(w)
        BY <2>1, <2>3 DEF Ends, T!Pass, T!Nobody, T!Done, T!Failed, T!Aborted, T!Die, T!Post, T!Undone, T!Holding
      <3>2. jobL = "program" /\ m.run = runL[w]
        BY <2>1, <2>3, <3>1 DEF T!RollBack
      <3>3. m.at = claimL[w]
        BY <3>1, <3>2 DEF Numbered, T!Holding
      <3>4. QED
        BY <2>1, <3>1, <3>2, <3>3
    <2>4. QED
      BY <2>2, <2>3
  <1>4. CASE \E v \in Workers : pcL[v] = "post" /\ claimL[v] = t
    <2>1. PICK v \in Workers : pcL[v] = "post" /\ claimL[v] = t
      BY <1>4
    <2>2. CASE v = w
      <3>1. CASE T!Post(w)
        <4>1. PICK says \in BOOLEAN, took \in BOOLEAN :
                 /\ mailsL' = IF took THEN mailsL \cup {T!Told(w, says)} ELSE mailsL
                 /\ lost' = IF took THEN lost ELSE lost \cup {claimL[w]}
          BY <3>1 DEF T!Post
        <4>2. T!Told(w, says).at = claimL[w]
          BY ToldType
        <4>3. QED
          BY <2>1, <2>2, <4>1, <4>2 DEF Settled
      <3>2. CASE T!Die(w)
        BY <2>1, <2>2, <3>2 DEF T!Die, T!Holding, Settled
      <3>3. QED
        BY <2>1, <2>2, <3>1, <3>2 DEF Ends, T!Pass, T!Nobody, T!Done, T!Failed, T!Aborted
    <2>3. CASE v # w
      BY <1>1, <2>1, <2>3 DEF Settled, Same
    <2>4. QED
      BY <2>2, <2>3
  <1>5. QED
    BY <1>2, <1>3, <1>4 DEF Settled

\* What a run leaves of a committed claim when it ends.
LEMMA EndLost ==
  ASSUME Timed, NEW w \in Workers, Ends(w), Claiming(w), ~T!Holding(w)
  PROVE  \/ claimL[w] \in lost' \/ pcL[w] = "told"
         \/ pcL[w] = "failed" /\ T!Restores /\ stampL' = seenL[w]
  <1> USE DEF Claiming, T!Holding
  <1>1. CASE T!Nobody(w) \/ T!Die(w)
    BY <1>1 DEF T!Nobody, T!Die
  <1>2. CASE T!Failed(w)
    <2>1. CASE T!Restores
      BY <1>2, <2>1 DEF T!Failed, T!Restores, T!Put, T!Private
    <2>2. CASE ~T!Restores
      BY <1>2, <2>2 DEF T!Failed
    <2>3. QED
      BY <2>1, <2>2
  <1>3. QED
    BY <1>1, <1>2 DEF Ends, T!Pass, T!Done, T!Aborted, T!Undone, T!Post

\* The others lose nothing.
LEMMA StillSettled ==
  ASSUME Timed, NEW t, Settled(t),
         Quiet \/ \E w \in Workers : T!Claim(w) \/ T!Send(w)
  PROVE  Settled(t)'
  <1> USE DEF Settled
  <1>1. ASSUME NEW w \in Workers, NEW k \in T!Kinds, T!Start(w, k) PROVE Settled(t)'
    <2>1. /\ UNCHANGED <<mailsL, queue, lost>> /\ pcL[w] = "idle" /\ pcL' = [pcL EXCEPT ![w] = "check"]
          /\ claimL' = claimL
      BY <1>1 DEF T!Start, T!Goto
    <2>2. QED
      BY <2>1 DEF Timed, T!TypeOK
  <1>2. ASSUME NEW w \in Workers, NEW m \in queue, T!Take(w, m) PROVE Settled(t)'
    <2>1. /\ pcL[w] = "idle" /\ pcL'[w] = "post" /\ claimL'[w] = m.at
          /\ \A v \in Workers \ {w} : Same(v)
          /\ queue' = queue \ {m} /\ mailsL' = mailsL /\ lost' = lost
      BY <1>2 DEF T!Take, T!Goto, Timed, T!TypeOK, Same
    <2>2. QED
      BY <2>1 DEF Same
  <1>3. ASSUME NEW w \in Workers, NEW m \in queue, T!Dropped(w, m) PROVE Settled(t)'
    BY <1>3 DEF T!Dropped, T!local
  <1>4. ASSUME T!Turn \/ T!Tick \/ UNCHANGED T!vars PROVE Settled(t)'
    BY <1>4 DEF T!Turn, T!Tick, T!vars, T!local
  <1>5. ASSUME NEW w \in Workers, T!Claim(w) PROVE Settled(t)'
    <2>1. /\ pcL[w] = "check" /\ \A v \in Workers \ {w} : Same(v)
          /\ queue' = queue /\ mailsL' = mailsL /\ lost \subseteq lost'
      BY <1>5, ClaimEffect
    <2>2. QED
      BY <2>1 DEF Same
  <1>6. ASSUME NEW w \in Workers, T!Send(w) PROVE Settled(t)'
    <2>1. /\ pcL[w] = "send" /\ \A v \in Workers \ {w} : Same(v)
          /\ queue \subseteq queue' /\ mailsL \subseteq mailsL' /\ lost' = lost
      BY <1>6, SendEffect
    <2>2. QED
      BY <2>1 DEF Same
  <1>7. QED
    BY <1>1, <1>2, <1>3, <1>4, <1>5, <1>6 DEF Quiet

LEMMA AccountedStep ==
  ASSUME Timed, Gated, Numbered, Accounted, [T!Next]_(T!vars)
  PROVE  Accounted'
  <1> USE DEF Claiming, T!Holding, T!Holds
  <1>1. CASE Quiet
    <2>1. /\ UNCHANGED <<jobL, stampL>>
          /\ \A v \in Workers : Same(v) \/ (pcL[v] = "idle" /\ pcL'[v] \in {"check", "post"})
      BY <1>1, QuietEffect
    <2>2. \A t : Settled(t) => Settled(t)'
      BY <1>1, StillSettled
    <2>3. QED
      BY <2>1, <2>2 DEF Accounted, Same, T!Restores
  <1>2. ASSUME NEW w \in Workers, T!Claim(w) PROVE Accounted'
    <2>1. /\ pcL[w] = "check" /\ pcL'[w] = "send" /\ claimL'[w] = T!At(w)
          /\ \A v \in Workers \ {w} : Same(v)
          /\ UNCHANGED <<jobL, kind, seenL>>
          /\ stampL' = stampL \/ stampL' = T!At(w)
          /\ lost' = lost \cup T!Revivable(w)
      BY <1>2, ClaimEffect DEF Timed, T!TypeOK
    <2>2. \A t : Settled(t) => Settled(t)'
      BY <1>2, StillSettled
    <2>3. stampL' # Never => Settled(stampL)' \/ \E v \in Workers : Claiming(v)' /\ claimL'[v] = stampL'
      BY <2>1, <2>2 DEF Accounted, Same
    <2>4. ASSUME T!Restores, seenL[w] # Never PROVE Settled(seenL[w])'
      <3>1. CASE seenL[w] = stampL
        <4>1. \A v \in Workers : ~Claiming(v)
          BY <1>2, <2>4, Lone DEF T!Restores
        <4>2. QED
          BY <2>1, <2>2, <2>4, <3>1, <4>1 DEF Accounted, Settled
      <3>2. CASE seenL[w] # stampL
        BY <2>1, <2>4, <3>2 DEF T!Revivable, Settled
      <3>3. QED
        BY <3>1, <3>2
    <2>5. ASSUME NEW v \in Workers
          PROVE  /\ pcL'[v] = "told" => Settled(claimL[v])'
                 /\ T!Restores' /\ Claiming(v)' /\ ~T!Holding(v)' /\ seenL'[v] # Never => Settled(seenL[v])'
      <3>1. CASE v = w
        BY <2>1, <2>4, <3>1 DEF T!Restores
      <3>2. CASE v # w
        BY <2>1, <2>2, <3>2 DEF Accounted, Same, T!Restores
      <3>3. QED
        BY <3>1, <3>2
    <2>6. QED
      BY <2>3, <2>5 DEF Accounted
  <1>3. ASSUME NEW w \in Workers, T!Send(w) PROVE Accounted'
    <2>1. /\ pcL[w] = "send" /\ pcL'[w] \in {"told", "failed"} /\ \A v \in Workers \ {w} : Same(v)
          /\ UNCHANGED <<jobL, stampL, kind, seenL, claimL>>
          /\ pcL'[w] = "told" => \E m \in mailsL' \cup queue' : m.at = claimL[w]
      BY <1>3, SendEffect
    <2>2. \A t : Settled(t) => Settled(t)'
      BY <1>3, StillSettled
    <2>3. pcL'[w] = "told" => Settled(claimL[w])'
      BY <2>1 DEF Settled
    <2>4. QED
      BY <2>1, <2>2, <2>3 DEF Accounted, Same, T!Restores
  <1>4. ASSUME NEW w \in Workers, Ends(w) PROVE Accounted'
    <2>1. pcL'[w] = "idle" /\ jobL' = jobL /\ \A v \in Workers \ {w} : Same(v)
      BY <1>4, EndEffect, OverEffect DEF Timed
    <2>2. \A t : Settled(t) => Settled(t)' \/ (T!Holding(w) /\ jobL # "idle" /\ t = claimL[w])
      BY <1>4, EndSettled
    <2>3. T!Holding(w) => stampL = Never \/ stampL # claimL[w]
      <3>1. claimL[w] \in Nat /\ stampL \in T!Stamps
        BY DEF Timed, T!TypeOK
      <3>2. QED
        BY <3>1, WindowAssumption DEF Gated, Gap, T!WindowAssumption, T!Stamps
    <2>4. ASSUME pcL[w] = "told", NEW t, t = claimL[w] PROVE Settled(t)' \/ T!Holding(w)
      BY <2>2, <2>4 DEF Accounted
    <2>5. ASSUME stampL' # Never
          PROVE  Settled(stampL)' \/ \E v \in Workers : Claiming(v)' /\ claimL'[v] = stampL'
      <3>1. CASE stampL' = stampL
        <4>1. CASE Settled(stampL)
          BY <2>2, <2>3, <2>5, <3>1, <4>1
        <4>2. CASE \E v \in Workers \ {w} : Claiming(v) /\ claimL[v] = stampL
          BY <2>1, <3>1, <4>2 DEF Same
        <4>3. CASE Claiming(w) /\ claimL[w] = stampL
          <5>1. ~T!Holding(w)
            BY <2>3, <2>5, <3>1, <4>3
          <5>2. CASE claimL[w] \in lost'
            BY <3>1, <4>3, <5>2 DEF Settled
          <5>3. CASE pcL[w] = "told"
            BY <2>4, <3>1, <4>3, <5>1, <5>3 DEF Settled
          <5>4. CASE pcL[w] = "failed" /\ T!Restores /\ stampL' = seenL[w]
            BY <2>2, <2>5, <5>1, <5>4 DEF Accounted
          <5>5. QED
            BY <1>4, <4>3, <5>1, <5>2, <5>3, <5>4, EndLost
        <4>4. QED
          BY <2>5, <3>1, <4>1, <4>2, <4>3 DEF Accounted
      <3>2. CASE stampL' = claimL[w] /\ T!Holding(w) /\ (pcL[w] = "told" \/ claimL[w] \in lost')
        <4>1. CASE claimL[w] \in lost'
          BY <3>2, <4>1 DEF Settled
        <4>2. CASE pcL[w] = "told" /\ claimL[w] \notin lost'
          <5>1. T!Done(w)
            BY <1>4, <3>2, <4>2, <2>3, <2>5 DEF Ends, T!Pass, T!Nobody, T!Failed, T!Aborted, T!Die, T!Post
          <5>2. UNCHANGED <<queue, mailsL, lost>>
            BY <5>1 DEF T!Done
          <5>3. Settled(claimL[w])
            BY <4>2 DEF Accounted
          <5>4. QED
            BY <2>1, <3>2, <4>2, <5>2, <5>3 DEF Settled, Same
        <4>3. QED
          BY <3>2, <4>1, <4>2
      <3>3. CASE stampL' = seenL[w] /\ pcL[w] = "failed" /\ T!Restores /\ ~T!Holding(w)
        BY <2>2, <2>5, <3>3 DEF Accounted
      <3>4. QED
        BY <1>4, <3>1, <3>2, <3>3, EndStamp
    <2>6. ASSUME NEW v \in Workers
          PROVE  /\ pcL'[v] = "told" => Settled(claimL[v])'
                 /\ T!Restores' /\ Claiming(v)' /\ ~T!Holding(v)' /\ seenL'[v] # Never => Settled(seenL[v])'
      <3>1. CASE Claiming(v)'
        <4>1. v # w /\ Same(v) /\ Claiming(v)
          BY <2>1, <3>1 DEF Same
        <4>2. \A t : Settled(t) => Settled(t)'
          BY <2>2, <4>1 DEF Gated
        <4>3. QED
          BY <2>1, <4>1, <4>2 DEF Accounted, Same, T!Restores
      <3>2. CASE ~Claiming(v)'
        BY <3>2
      <3>3. QED
        BY <3>1, <3>2
    <2>7. QED
      BY <2>5, <2>6 DEF Accounted
  <1>5. QED
    BY <1>1, <1>2, <1>3, <1>4, StepCases

-----------------------------------------------------------------------------
(* The properties *)

LEMMA LegacyInvHolds == T!Spec => []LegacyInv
  <1>1. LegacyInv /\ [T!Next]_(T!vars) => LegacyInv'
    BY TimedStep, GatedStep, BehindStep, KeptStep, DistinctStep, LettersStep, NumberedStep,
       AccountedStep DEF LegacyInv
  <1>2. QED
    BY InitLemma, <1>1, PTL DEF T!Spec

LEMMA LettersApart ==
  ASSUME LegacyInv PROVE OneWorkersClaimCounts
  <1> SUFFICES ASSUME NEW m \in mailsL, NEW n \in mailsL, m.of = n.of,
                      m.run \notin voidedL, n.run \notin voidedL,
                      T!Restores => m.sure /\ n.sure
               PROVE  m = n \/ T!Apart(m, n)
    BY DEF OneWorkersClaimCounts, T!OneWorkersClaimCounts
  <1>1. m \in T!Message /\ n \in T!Message
    BY DEF LegacyInv, Timed, T!TypeOK
  <1>2. /\ m.at \in Nat /\ m.run \in Nat /\ m.of \in (Workers \cup {None}) \X Nat
        /\ n.at \in Nat /\ n.run \in Nat /\ m.sure \in BOOLEAN /\ n.sure \in BOOLEAN
    BY <1>1 DEF T!Message
  <1>3. T!Restores => m.sure = TRUE /\ n.sure = TRUE
    BY <1>2
  <1>4. Counts(m.at, m.run, m.of) /\ Counts(n.at, n.run, m.of)
    BY <1>3 DEF Counts
  <1>5. CASE Afar(m.at, n.at)
    BY <1>2, <1>5 DEF Afar, Gap, T!Apart
  <1>6. CASE m.at = n.at /\ m.run = n.run
    BY <1>6 DEF LegacyInv, Numbered
  <1>7. QED
    BY <1>2, <1>4, <1>5, <1>6 DEF LegacyInv, Letters

\* agriapi/tasks.py:39-45, 1302-1312, 1510-1528: whichever of the two workers runs the tasks,
\* and even when both do, what counts goes out once in its window, for any number of
\* workers, runs, deaths and switches.
THEOREM ClaimsCountOnce == T!Spec => []OneWorkersClaimCounts
  BY LegacyInvHolds, LettersApart, PTL

\* agriapi/tasks.py:1345-1348, 1449-1450: a stamp stands for a message or a command, or is
\* known to be lost to a death, a failure or an old load.
THEOREM StampsMean == T!Spec => []StampsMeanSomething
  <1>1. LegacyInv => StampsMeanSomething
    BY DEF LegacyInv, Accounted, Settled, Claiming, StampsMeanSomething, T!StampsMeanSomething, T!InFlight
  <1>2. QED
    BY <1>1, LegacyInvHolds, PTL

=============================================================================
