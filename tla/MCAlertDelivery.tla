-------------------------- MODULE MCAlertDelivery --------------------------
(* Small instances of AlertDelivery for TLC. *)
EXTENDS AlertDelivery, TLC

CONSTANTS a1, a2, r1, w1

\* A digest of both alerts.
AlertTasks == {[id |-> "digest", channel |-> "email", alerts |-> {a1, a2}]}

SelectPhones == [r \in Requests |-> {"sms", "whatsapp"}]

Symmetry == Permutations(Alerts)
=============================================================================
