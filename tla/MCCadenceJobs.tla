---------------------------- MODULE MCCadenceJobs ----------------------------
(* A small instance of CadenceJobs for TLC: every item stays as it was found, so none
   is passed over; those that change are in MCCadenceItems. *)
EXTENDS CadenceJobs, TLC

CONSTANTS w1, w2

MCNext ==
    \/ \E w \in Workers : \E j \in Jobs : Start(w, j)
    \/ \E w \in Workers : ClaimLost(w)
    \/ \E w \in Workers : ClaimWon(w)
    \/ \E w \in Workers : Send(w)
    \/ \E w \in Workers : Sent(w)
    \/ \E w \in Workers : Unsent(w)
    \/ \E w \in Workers : Finish(w)
    \/ \E w \in Workers : LogRefused(w)
    \/ \E w \in Workers : Crash(w)
    \/ Tick

MCSpec == Init /\ [][MCNext]_vars /\ \A w \in Workers : WF_vars(Step(w))
=============================================================================
