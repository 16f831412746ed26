------------------------------ MODULE MCServices ------------------------------
(* One small instance each of AlertIngest, HistoryLog, HourlySeries, LlmConfig,
   AssistantChat and Satellite, in one run: `part` says which of them the behaviour is
   about, and the others stay in their initial states. *)
EXTENDS MCAlertIngest

CONSTANTS
  z1, z2, r1, r2,
  Calls, KindOf, MaxRestarts,                                  \* HistoryLog
  Runners, Plots, MaxHour, MaxRuns, MaxErrors,                 \* HourlySeries
  EnvKey, MaxSaves, MaxSent,                                   \* LlmConfig
  MAX_TOOL_ROUNDS, MaxCalls, MaxPresses, MaxMoves,             \* AssistantChat
  Requests, Outlines, MaxPages, MaxTokens,                     \* Satellite
  MaxEdits, MaxFaults                                          \* of both, HistoryLog too

VARIABLES
  part,
  tables, probed, ruleY, pcY, snap, row, sound, holds, log, worked, spoiled, edits,
  faultsY, restarts,
  hour, zones, buckets, pcS, todoS, due, inserted, updated, met, runs, errors,
  storedL, readable, carried, pcL, form, saved, sentL, saves, uses,
  user, provider, zone, message, pcC, known, round, wanted, calls, pending, answer,
  offers, alerts, cadence, movedC, presses, moves,
  outline, pictured, cache, token, old, lock, accepted, issued, pcI, want, geometry,
  attemptI, page, bearer, answerI, refusedI, editsI, faultsI

alerting == vars
archive == <<tables, probed, ruleY, pcY, snap, row, sound, holds, log, worked, spoiled,
             edits, faultsY, restarts>>
series  == <<hour, zones, buckets, pcS, todoS, due, inserted, updated, met, runs, errors>>
model   == <<storedL, readable, carried, pcL, form, saved, sentL, saves, uses>>
chat    == <<user, provider, zone, message, pcC, known, round, wanted, calls, pending,
             answer, offers, alerts, cadence, movedC, presses, moves>>
imagery == <<outline, pictured, cache, token, old, lock, accepted, issued, pcI, want,
             geometry, attemptI, page, bearer, answerI, refusedI, editsI, faultsI>>

\* One delivery that fires, one digest, one piece of advice.
Recorded == {"firing", "digest", "advice"}
KindOfRecord == [c \in Recorded |-> c]
Y == INSTANCE HistoryLog WITH pc <- pcY, faults <- faultsY, rule <- ruleY
S == INSTANCE HourlySeries WITH
       Workers <- Runners, Zones <- Plots, rows <- buckets, pc <- pcS, todo <- todoS
L == INSTANCE LlmConfig WITH pc <- pcL, stored <- storedL, sent <- sentL
C == INSTANCE AssistantChat WITH pc <- pcC, moved <- movedC
I == INSTANCE Satellite WITH
       published <- pictured, pc <- pcI, answer <- answerI, excused <- refusedI,
       attempt <- attemptI, edits <- editsI, faults <- faultsI

ASSUME WorkersAssumption == S!WorkersAssumption
ASSUME ShownAssumption   == I!ShownAssumption

OnlyA == part = "alerts" /\ UNCHANGED <<part, archive, series, model, chat, imagery>>
OnlyY == part = "history" /\ UNCHANGED <<part, series, model, chat, imagery, alerting>>
OnlyS == part = "series" /\ UNCHANGED <<part, archive, model, chat, imagery, alerting>>
OnlyL == part = "model" /\ UNCHANGED <<part, archive, series, chat, imagery, alerting>>
OnlyC == part = "chat" /\ UNCHANGED <<part, archive, series, model, imagery, alerting>>
OnlyI == part = "imagery" /\ UNCHANGED <<part, archive, series, model, chat, alerting>>

\* A part that is not the one that runs rests in one initial state.
MCInit ==
    /\ part \in {"alerts", "history", "series", "model", "chat", "imagery"}
    /\ Init /\ Y!Init /\ S!Init /\ L!Init /\ C!Init /\ I!Init
    /\ part # "chat" => user = "owner" /\ provider = None /\ zone = "mine"
    /\ outline = CHOOSE o \in Outlines : TRUE

MCNext ==
    \/ \E u \in Uplinks :
          \/ OnlyA /\ Begin(u)
          \/ OnlyA /\ Write(u)
          \/ OnlyA /\ Match(u)
          \/ OnlyA /\ ClaimLost(u)
          \/ OnlyA /\ ClaimWon(u)
          \/ OnlyA /\ ClaimWonPushRefused(u)
          \/ OnlyA /\ PushMail(u)
          \/ OnlyA /\ PushMailRefused(u)
          \/ OnlyA /\ DeadlockVictim(u)
          \/ OnlyA /\ Commit(u)
          \/ OnlyA /\ Crash(u)
          \/ OnlyA /\ Resend(u)
    \/ OnlyA /\ DeleteRule(1)  \* one of the two rules is enough
    \/ OnlyA /\ Tick
    \/ \E c \in Calls :
          \/ OnlyY /\ Y!Load(c)
          \/ OnlyY /\ Y!Work(c)
          \/ OnlyY /\ Y!Probe(c)
          \/ OnlyY /\ Y!ReadAgain(c)
          \/ OnlyY /\ Y!_insert_guarded(c)
          \/ OnlyY /\ Y!Commit(c)
          \/ OnlyY /\ Y!Lose(c)
    \/ OnlyY /\ Y!Edit
    \/ OnlyY /\ Y!Migrate
    \/ OnlyY /\ Y!Restart
    \/ \E r \in Runners :  \* only the first of the runs may still be Django's
          \/ OnlyS /\ (S!Open = {} => r = r1)
             /\ \E k \in S!Kinds : (k = "django" => runs = 0) /\ S!Start(r, k)
          \/ OnlyS /\ \E z \in Plots : S!Compute(r, z)
          \/ OnlyS /\ \E b \in S!Buckets : S!Upsert(r, b)
          \/ OnlyS /\ \E b \in S!Buckets : S!MultipleResultsFound(r, b)
          \/ OnlyS /\ S!Victim(r)
          \/ OnlyS /\ S!Commit(r)
          \/ OnlyS /\ S!Fail(r)
    \/ OnlyS /\ S!Tick
    \/ OnlyS /\ \E z \in Plots : S!Delete(z)
    \/ OnlyL /\ \E p \in L!PROVIDER_CATALOG, typed \in {"keep", "remove", "new"}, e \in BOOLEAN :
                  L!put_config(p, typed, e)
    \/ OnlyL /\ L!chat
    \/ OnlyL /\ \E p \in L!Keys, k \in {None, "typed"} : L!Resolve(p, k)
    \/ OnlyL /\ L!test_config
    \/ OnlyL /\ L!RotateSecret
    \/ OnlyC /\ \E m \in C!Messages, selected \in BOOLEAN : C!Send(m, selected)
    \/ OnlyC /\ C!RuleBased
    \/ OnlyC /\ C!RuleFails
    \/ OnlyC /\ \E text \in BOOLEAN : C!Answer(text)
    \/ OnlyC /\ \E text \in BOOLEAN : C!Capped(text)
    \/ OnlyC /\ \E seq \in C!Rounds : C!AskTools(seq)
    \/ OnlyC /\ C!Pause
    \/ OnlyC /\ C!Call
    \/ OnlyC /\ C!GiveUp
    \/ OnlyC /\ \E o \in C!Offers : C!Confirm(o)
    \/ OnlyC /\ \E to \in {"mine", "other", None} : C!Move(to)
    \/ \E r \in Requests :
          \/ OnlyI /\ (r = r1 \/ pcI[r1] # "new") /\ \E kind \in I!Kinds : I!Ask(r, kind)
          \/ OnlyI /\ I!LookUp(r)
          \/ OnlyI /\ I!Bearer(r)
          \/ OnlyI /\ I!Login(r)
          \/ OnlyI /\ I!LoginFails(r)
          \/ OnlyI /\ I!Return(r)
          \/ OnlyI /\ I!Unauthorized(r)
          \/ OnlyI /\ I!NextPage(r)
          \/ OnlyI /\ I!Answered(r)
          \/ OnlyI /\ I!Refused(r)
    \/ OnlyI /\ \E o \in Outlines \cup {None} : I!Draw(o)
    \/ OnlyI /\ I!Publish
    \/ OnlyI /\ I!Age
    \/ OnlyI /\ \E t \in I!Tokens : I!Revoke(t)
    \/ OnlyI /\ \E k \in I!Kinds \X Outlines : I!Forget(k)

all == <<part, alerting, archive, series, model, chat, imagery>>

\* A handler that has begun goes on.
MCSpec ==
    /\ MCInit /\ [][MCNext]_all
    /\ WF_all(OnlyA /\ Handle(u1))
    /\ WF_all(OnlyA /\ Handle(u2))

-----------------------------------------------------------------------------
(* The properties of the components, under this instance *)

\* Recording a thing does not undo it.
WorkSurvivesItsRecord == Y!WorkSurvivesItsRecord
\* One ET0 and one VPD for a zone and an hour, unless runs overlap in it.
OncePerBucket == S!OncePerBucket
\* A key is sent to the provider it was typed for.
KeyGoesToItsProvider == L!KeyGoesToItsProvider
\* A proposed alert is on a zone of the caller's, unless the model named another's or the
\* zone changed hands.
AlertsOnOwnZone == C!AlertsOnOwnZone
\* A token of Copernicus that expired early does not cost the request.
AuthForCause == I!AuthForCause
\* A picture is of the sector as it was drawn when it was asked for.
ShownAsDrawn == I!ShownAsDrawn

\* What the code does not keep, see the README.
PictureOnceThere == I!PictureOnceThere
NoHourIsPoisoned == S!NoHourIsPoisoned

=============================================================================
