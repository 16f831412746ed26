---------------------------- MODULE MCCadenceItems ----------------------------
(* The jobs that commit each claim, and the same jobs as the Django worker and the
   native one run them on one item, in one run: `part` says which of the two the
   behaviour is about. *)
EXTENDS CadenceJobs, TLC

CONSTANTS
  w1, w2,
  LegacyJobs, Window, MaxLegacyRuns, MaxDeaths  \* LegacyTasks

VARIABLES part, jobL, nowL, stampL, memory, wantsL, pcL, kind, refL, seenL, claimL, runL,
          queue, mailsL, lost, voidedL, runsL, deaths

native == vars
legacy == <<jobL, nowL, stampL, memory, wantsL, pcL, kind, refL, seenL, claimL, runL,
            queue, mailsL, lost, voidedL, runsL, deaths>>

T == INSTANCE LegacyTasks WITH
       Jobs <- LegacyJobs, MaxRuns <- MaxLegacyRuns,
       job <- jobL, now <- nowL, stamp <- stampL, wants <- wantsL, pc <- pcL, ref <- refL,
       seen <- seenL, claim <- claimL, run <- runL, mails <- mailsL, voided <- voidedL,
       runs <- runsL

ASSUME WindowAssumption == T!WindowAssumption
ASSUME SlotAssumption   == T!SlotAssumption

\* Two workers run the same code.
Symmetry == Permutations(Workers)

OnlyN == part = "native" /\ UNCHANGED <<part, legacy>>
OnlyT == part = "legacy" /\ UNCHANGED <<part, native>>

\* A condition may as well change when somebody is about to look at it.
Matters == queue # {} \/ \E w \in Workers : pcL[w] = "check"

MCInit ==
    /\ part \in {"native", "legacy"} /\ Init /\ T!Init
    /\ part = "native" => jobL = "health"

MCNext ==
    \/ \E w \in Workers :
          \/ OnlyN /\ \E j \in Jobs : Start(w, j)
          \/ OnlyN /\ PassOver(w)
          \/ OnlyN /\ Look(w)
          \/ OnlyN /\ ClaimLost(w)
          \/ OnlyN /\ ClaimWon(w)
          \/ OnlyN /\ Send(w)
          \/ OnlyN /\ Sent(w)
          \/ OnlyN /\ Unsent(w)
          \/ OnlyN /\ Finish(w)
          \/ OnlyN /\ LogRefused(w)
          \/ OnlyN /\ Crash(w)
          \/ OnlyT /\ \E k \in T!Kinds : T!Start(w, k)
          \/ OnlyT /\ T!Pass(w)
          \/ OnlyT /\ T!Claim(w)
          \/ OnlyT /\ T!Nobody(w)
          \/ OnlyT /\ T!Send(w)
          \/ OnlyT /\ T!Done(w)
          \/ OnlyT /\ T!Failed(w)
          \/ OnlyT /\ T!Aborted(w)
          \/ OnlyT /\ T!Die(w)
          \/ OnlyT /\ \E m \in queue : T!Take(w, m)
          \/ OnlyT /\ \E m \in queue : T!Dropped(w, m)
          \/ OnlyT /\ T!Post(w)
    \/ OnlyN /\ \E j \in Jobs, i \in Fickle : Turn(j, i)
    \/ OnlyN /\ \E i \in Fickle : Address(i)
    \/ OnlyN /\ \E i \in Fickle : OnDemand(i)
    \/ OnlyN /\ Tick
    \/ OnlyT /\ Matters /\ T!Turn
    \/ OnlyT /\ T!Tick

MCSpec == MCInit /\ [][MCNext]_<<part, native, legacy>>

-----------------------------------------------------------------------------
(* The properties of LegacyTasks, under this instance *)

\* Once in its window, whichever worker does it.
OneWorkersClaimCounts == T!OneWorkersClaimCounts
\* A stamp stands for a message or a command.
StampsMeanSomething == T!StampsMeanSomething

=============================================================================
