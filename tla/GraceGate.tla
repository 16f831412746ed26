----------------------------- MODULE GraceGate -----------------------------
(***************************************************************************)
(* What a cadence stamp of the backend promises, whatever job keeps it:    *)
(* each item (an alert rule, a device, a user) carries the instant of its  *)
(* last notification, and a new one is stamped only when the item was      *)
(* never notified or when more than its spacing has gone by.  One commit   *)
(* may stamp several items.  The detailed modules are shown to implement   *)
(* this one.                                                               *)
(***************************************************************************)
EXTENDS Integers

CONSTANTS Items,    \* what is notified at most once per spacing
          Spacing,  \* [Items -> Nat], the least spacing of each item
          Never     \* the SQL NULL of a stamp column

VARIABLE stamp      \* [Items -> Nat \cup {Never}]

\* `last IS NULL OR last < cutoff`, with cutoff = at - grace.
Due(last, at, grace) == last # Never => last < at - grace

Stamps == Nat \cup {Never}

Init == stamp \in [Items -> Stamps]

\* One commit may stamp several items, each of which is due.
Restamp(i) ==
    stamp'[i] \in Nat /\ Due(stamp[i], stamp'[i], Spacing[i])

Next == /\ stamp' \in [Items -> Stamps]
        /\ \A i \in Items : stamp'[i] = stamp[i] \/ Restamp(i)

Spec == Init /\ [][Next]_stamp
=============================================================================
