--------------------------- MODULE AssistantChat ---------------------------
(***************************************************************************)
(* One message to the assistant (routers/assistant.py).  A shortcut goes   *)
(* to the keyword rules, anything else to the language model, which asks   *)
(* for tools round by round (assistant/providers) until it answers; when   *)
(* the provider fails the rules answer.  A tool that changes something is  *)
(* not executed from the chat: the model proposes it, the app shows a      *)
(* button, and the button calls the tool as the farmer.                    *)
(***************************************************************************)
EXTENDS Naturals, SequencesExt

CONSTANTS
  None,
  MAX_TOOL_ROUNDS,
  MaxCalls,   \* bound on the tools asked for in one round
  MaxPresses, MaxMoves   \* bounds on the buttons pressed, and on a zone's changes

VARIABLES
  user,       \* "owner" or "technician"
  provider,   \* "anthropic", "compat", None when the rules are all there is
  zone,       \* whose the selected zone is: "mine", "other", None once deleted
  message,    \* "command", "card", "question", whether a zone is selected
  pc,         \* "new", "rules", "model", "tools", "answered", "failed"
  known,      \* the selected zone was the caller's
  round,      \* the rounds so far
  wanted,     \* the tools the model has asked for in this one
  calls,      \* the calls so far, and what came of each
  pending,    \* the proposal
  answer,
  offers,     \* the proposals the app shows
  alerts,     \* the alerts created: whose their zone was, and what they were proposed for
  cadence,    \* notify_every has been changed
  moved,      \* the zone changed hands, or was deleted, after it was looked at
  presses, moves

chat  == <<message, pc, known, round, wanted, calls, pending, answer>>
farm  == <<alerts, cadence>>
vars  == <<user, provider, zone, chat, offers, farm, moved, presses, moves>>

Messages == {"command", "card", "question"}
Mutating == {"create_alert", "set_notification_cadence"}
Tools    == {"read"} \cup Mutating
Registered(tool) == tool \in Tools
Outcomes == {"data", "error", "awaiting"}
\* What a proposal is for: the whole farm, the zone that is selected, or a zone whose id
\* the model has written itself.
Targets  == {"farm", "selected", "named"}
Offers   == Mutating \X Targets
Rounds   == BoundedSeq(Tools \cup {"unknown"}, MaxCalls) \ {<<>>}

TypeOK ==
    /\ user \in {"owner", "technician"} /\ provider \in {"anthropic", "compat", None}
    /\ zone \in {"mine", "other", None} /\ known \in BOOLEAN /\ moved \in BOOLEAN
    /\ pc \in {"new", "rules", "model", "tools", "answered", "failed"}
    /\ round \in 0..MAX_TOOL_ROUNDS + 1
    /\ \A i \in DOMAIN calls : calls[i] \in (Tools \cup {"unknown"}) \X Outcomes
    /\ pending \in {None} \cup Offers /\ offers \subseteq Offers
    /\ alerts \subseteq {"mine", "other", "farm"} \X Targets /\ cadence \in BOOLEAN

Init ==
    /\ user \in {"owner", "technician"} /\ provider \in {"anthropic", "compat", None}
    /\ zone \in {"mine", "other"} /\ message = None /\ pc = "new" /\ known = FALSE
    /\ round = 0 /\ wanted = <<>> /\ calls = <<>> /\ pending = None /\ answer = None
    /\ offers = {} /\ alerts = {} /\ cadence = FALSE /\ moved = FALSE
    /\ presses = 0 /\ moves = 0

-----------------------------------------------------------------------------
(* The tools *)

\* create_alert: whose the zone is is not looked at, only that it exists; without one
\* the alert is for the whole farm. A technician is refused, and so are parameters that
\* will not do. A zone of which only the id is known may be anybody's.
Owners(target) ==
    CASE target = "selected" -> {zone} \ {None}
      [] target = "named"    -> {"mine", "other"}
      [] target = "farm"     -> {"farm"}
_create_alert(target) ==
    /\ user = "owner"
    /\ \E owner \in Owners(target) : alerts' = alerts \cup {<<owner, target>>}
    /\ UNCHANGED cadence
_set_notification_cadence == user = "owner" /\ cadence' = TRUE /\ UNCHANGED alerts
Refuse == UNCHANGED farm

handler(tool, target) ==
    \/ tool = "create_alert" /\ _create_alert(target)
    \/ tool = "set_notification_cadence" /\ _set_notification_cadence
    \/ Refuse

\* invoke_tool, by the button under a proposal, once or twice.
Confirm(o) ==
    /\ o \in offers /\ presses < MaxPresses /\ presses' = presses + 1
    /\ handler(o[1], o[2])
    /\ UNCHANGED <<user, provider, zone, chat, offers, moved, moves>>

-----------------------------------------------------------------------------
(* A message *)

\* The zone is looked up with the settings, before the model is asked.
Send(m, selected) ==
    /\ pc = "new" /\ message' = [kind |-> m, selected |-> selected]
    /\ IF m # "question" \/ provider = None
       THEN pc' = "rules" /\ known' = FALSE
       ELSE pc' = "model" /\ known' = (selected /\ zone = "mine")
    /\ UNCHANGED <<user, provider, zone, round, wanted, calls, pending, answer, offers, farm,
                   moved, presses, moves>>

Respond(a) ==
    /\ pc' = "answered" /\ answer' = a
    /\ offers' = IF a.proposal = None THEN offers ELSE offers \cup {a.proposal}
    /\ UNCHANGED <<user, provider, zone, message, known, round, wanted, calls, pending, farm,
                   moved, presses, moves>>

\* A shortcut, the commands, or the phrase for everything else; a rule has a
\* phrase to answer with whether or not it has a tool, which only reads.
\* The tools of the rules that a message may match: a shortcut has one or none,
\* free text may match a phrase of a rule, or none.
_RULES ==
    [command |-> {"read"}, card |-> {None}, question |-> {"read", None}]
FixedRules(fallback) ==
    [by |-> "rules", text |-> TRUE, sources |-> <<>>, proposal |-> None, fallback |-> fallback]
RuleBased == pc = "rules" /\ Respond(FixedRules(FALSE))
\* The tool of the rule fails, and the request with it.
RuleFails ==
    /\ pc = "rules" /\ "read" \in _RULES[message.kind] /\ pc' = "failed"
    /\ UNCHANGED <<user, provider, zone, message, known, round, wanted, calls, pending, answer,
                   offers, farm, moved, presses, moves>>

\* What is shown to be the base of the answer: every call but the proposal.
collect_sources == SelectSeq(calls, LAMBDA c : c[2] # "awaiting")

Reply(text) ==
    Respond([by |-> "llm", text |-> text, sources |-> collect_sources,
             proposal |-> pending, fallback |-> FALSE])

\* The model answers, with a text or without one.
Answer(text) == pc = "model" /\ Reply(text)

\* On the last round Claude is not answered, and other models are offered no tool.
AskTools(seq) ==
    /\ pc = "model" /\ round < MAX_TOOL_ROUNDS
    /\ pc' = "tools" /\ wanted' = seq /\ round' = round + 1
    /\ UNCHANGED <<user, provider, zone, message, known, calls, pending, answer, offers, farm,
                   moved, presses, moves>>

\* Claude asks for tools on the last round, or pauses: what it has said besides
\* is the answer, if it has said anything.
Capped(text) ==
    /\ pc = "model" /\ provider = "anthropic" /\ round = MAX_TOOL_ROUNDS /\ Reply(text)

\* Claude pauses a long turn, and is asked to go on.
Pause ==
    /\ pc = "model" /\ provider = "anthropic" /\ round < MAX_TOOL_ROUNDS
    /\ round' = round + 1
    /\ UNCHANGED <<user, provider, zone, message, pc, known, wanted, calls, pending, answer,
                   offers, farm, moved, presses, moves>>

Called(tool, out) ==
    /\ calls' = Append(calls, <<tool, out>>) /\ wanted' = Tail(wanted)
    /\ pc' = IF Len(wanted) = 1 THEN "model" ELSE "tools"

\* What the model writes for the zone: nothing (None), null, which is for the whole
\* farm, or an id, as it is told to when the farmer names another zone.
Written == {None, "farm", "named"}
\* Mutant: the zone the request selects, whoever it belongs to.
PrefilledAsAsked(said) ==
    IF said # None THEN said ELSE IF message.selected THEN "selected" ELSE "farm"
\* The selected zone, if it is the caller's, is filled in where the model wrote nothing.
Prefilled(said) == IF said # None THEN said ELSE IF known THEN "selected" ELSE "farm"

Propose(tool, said) ==
    /\ IF pending # None THEN Called(tool, "error") /\ UNCHANGED pending
       ELSE /\ Called(tool, "awaiting")
            /\ pending' = <<tool, IF tool = "create_alert" THEN Prefilled(said) ELSE "farm">>
    /\ UNCHANGED farm

\* The tools that read are for whichever zone the model or the request names.
run_tool(tool, target) ==
    /\ \E out \in {"data", "error"} : Called(tool, out)
    /\ handler(tool, target) /\ UNCHANGED pending

execute(tool) ==
    IF ~Registered(tool) THEN Called(tool, "error") /\ UNCHANGED <<pending, farm>>
    ELSE IF tool \in Mutating THEN \E said \in Written : Propose(tool, said)
    ELSE \E target \in Targets : run_tool(tool, target)

Call ==
    /\ pc = "tools" /\ execute(Head(wanted))
    /\ UNCHANGED <<user, provider, zone, message, known, round, answer, offers, moved,
                   presses, moves>>

\* ProviderError: no connection, a refusal, a limit: the rules answer, and
\* nothing is left of what was proposed.
GiveUp == pc = "model" /\ Respond(FixedRules(TRUE))

\* Meanwhile the zone is transferred, or deleted.
Move(to) ==
    /\ moves < MaxMoves /\ moves' = moves + 1 /\ zone # None /\ to # zone /\ zone' = to
    /\ moved' = (moved \/ pc # "new")
    /\ UNCHANGED <<user, provider, chat, offers, farm, presses>>

Next ==
    \/ \E m \in Messages, s \in BOOLEAN : Send(m, s)
    \/ RuleBased \/ RuleFails \/ Pause \/ Call \/ GiveUp
    \/ \E text \in BOOLEAN : Answer(text) \/ Capped(text)
    \/ \E seq \in Rounds : AskTools(seq)
    \/ \E o \in Offers : Confirm(o)
    \/ \E to \in {"mine", "other", None} : Move(to)

Spec == Init /\ [][Next]_vars

-----------------------------------------------------------------------------
(* Properties *)

\* An alert that was proposed is on a zone of the caller's, unless the model wrote the id
\* of another's itself, which nobody checks, or the zone changed hands between the
\* question and the button.
AlertsOnOwnZone == \A a \in alerts : a[1] = "other" => a[2] = "named" \/ moved

=============================================================================
