------------------------------ MODULE Satellite ------------------------------
(***************************************************************************)
(* Satellite pictures of a sector (routers/ndvi.py, satellite/cdse.py).    *)
(* The requests run in threads and share one client of Copernicus: a cache *)
(* of what it answered, by the outline of the sector, and one token, which *)
(* a lock protects while it is renewed but not when a refusal drops it.    *)
(* One sector and one day; what is cached and shown is an outline, and     *)
(* whether it has the picture of that day.                                 *)
(***************************************************************************)
EXTENDS Naturals, FiniteSets

CONSTANTS
  Requests, None,
  Outlines,   \* what the sector may be drawn as
  MaxPages,   \* bound on the pages of a list of dates, 10 in the code
  MaxTokens, MaxEdits, MaxFaults   \* bounds

VARIABLES
  outline,    \* of the sector, None when it is not drawn, or not the caller's
  published,  \* Copernicus has the picture of the day
  cache,      \* what was answered, by what was asked and for which outline
  token, old, \* the client's token, and whether it is about to expire
  lock,       \* the request that is in _bearer
  accepted,   \* the tokens Copernicus accepts
  issued,
  pc, want, geometry, attempt, page, bearer, answer,   \* of each request
  excused,    \* the requests that may well be refused
  edits, faults

client   == <<token, old, lock>>
server   == <<published, accepted, issued>>
local    == <<pc, want, geometry, attempt, page, bearer, answer>>
vars     == <<outline, cache, client, server, local, excused, edits, faults>>

Kinds    == {"image", "dates"}
Tokens   == 1..MaxTokens
Errors   == {"auth", "rate_limit", "unavailable", "bad_request"}
Shown    == [of : Outlines, full : BOOLEAN]   \* with the picture, or without
Failed(e) == [error |-> e]

ShownAssumption == None \notin Outlines /\ None \notin Shown /\ None # Failed("auth")

TypeOK ==
    /\ outline \in Outlines \cup {None} /\ published \in BOOLEAN
    /\ cache \in [Kinds \X Outlines -> Shown \cup {None}]
    /\ token \in Tokens \cup {None} /\ accepted \subseteq Tokens /\ issued \in 0..MaxTokens
    /\ lock \in Requests \cup {None}
    /\ pc \in [Requests -> {"new", "cache", "bearer", "login", "held", "post", "done"}]
    /\ attempt \in [Requests -> 1..2] /\ page \in [Requests -> 1..MaxPages]
    /\ bearer \in [Requests -> Tokens \cup {None}]
    /\ \A r \in Requests : lock = r <=> pc[r] \in {"login", "held"}
    /\ excused \subseteq Requests

Init ==
    /\ outline \in Outlines /\ published = FALSE
    /\ cache = [k \in Kinds \X Outlines |-> None]
    /\ token = None /\ old = FALSE /\ lock = None /\ accepted = {} /\ issued = 0
    /\ pc = [r \in Requests |-> "new"] /\ want = [r \in Requests |-> "image"]
    /\ geometry = [r \in Requests |-> None] /\ attempt = [r \in Requests |-> 1]
    /\ page = [r \in Requests |-> 1] /\ bearer = [r \in Requests |-> None]
    /\ answer = [r \in Requests |-> None] /\ excused = {}
    /\ edits = 0 /\ faults = 0

Goto(r, place) == pc' = [pc EXCEPT ![r] = place]
Reply(r, a)    == Goto(r, "done") /\ answer' = [answer EXCEPT ![r] = a]
Fault          == faults < MaxFaults /\ faults' = faults + 1
\* Mutant: the outline is not part of the key.
KeyOfTheDay(r) == <<want[r], CHOOSE o \in Outlines : TRUE>>
Key(r)         == <<want[r], geometry[r]>>

-----------------------------------------------------------------------------
(* A request *)

\* ndvi_dates, ndvi_stats, ndvi_image: the outline is read, and the session closed.
Ask(r, kind) ==
    /\ pc[r] = "new" /\ want' = [want EXCEPT ![r] = kind]
    /\ geometry' = [geometry EXCEPT ![r] = outline]
    /\ IF outline = None THEN Reply(r, Failed("no_sector"))
       ELSE Goto(r, "cache") /\ UNCHANGED answer
    /\ UNCHANGED <<outline, cache, client, server, attempt, page, bearer, excused,
                   edits, faults>>

\* A cache that is down has nothing.
LookUp(r) ==
    /\ pc[r] = "cache"
    /\ \/ /\ cache[Key(r)] # None /\ Reply(r, cache[Key(r)]) /\ UNCHANGED faults
       \/ /\ cache[Key(r)] = None /\ Goto(r, "bearer") /\ UNCHANGED <<answer, faults>>
       \/ /\ cache[Key(r)] # None /\ Fault /\ Goto(r, "bearer") /\ UNCHANGED answer
    /\ UNCHANGED <<outline, cache, client, server, want, geometry, attempt, page, bearer,
                   excused, edits>>

-----------------------------------------------------------------------------
(* _bearer, under the lock *)

\* Is the token there, and good for another minute?
Usable == token # None /\ ~old
Bearer(r) ==
    /\ pc[r] = "bearer" /\ lock = None /\ lock' = r
    /\ Goto(r, IF Usable THEN "held" ELSE "login")
    /\ UNCHANGED <<outline, cache, token, old, server, want, geometry, attempt, page, bearer,
                   answer, excused, edits, faults>>

Login(r) ==
    /\ pc[r] = "login" /\ issued < MaxTokens
    /\ issued' = issued + 1 /\ accepted' = accepted \cup {issued'}
    /\ token' = issued' /\ old' = FALSE /\ Goto(r, "held")
    /\ UNCHANGED <<outline, cache, lock, published, want, geometry, attempt, page, bearer,
                   answer, excused, edits, faults>>

\* Copernicus refuses the credentials, limits the logins, or cannot be reached.
LoginFails(r) ==
    /\ pc[r] = "login" /\ Fault /\ lock' = None
    /\ \E e \in {"auth", "rate_limit", "unavailable"} : Reply(r, Failed(e))
    /\ excused' = excused \cup {r}
    /\ UNCHANGED <<outline, cache, token, old, server, want, geometry, attempt, page, bearer,
                   edits>>

\* `return self._token` reads it once more: it may be gone.
Return(r) ==
    /\ pc[r] = "held" /\ lock' = None
    /\ bearer' = [bearer EXCEPT ![r] = token] /\ Goto(r, "post")
    /\ UNCHANGED <<outline, cache, token, old, server, want, geometry, attempt, page, answer,
                   excused, edits, faults>>

-----------------------------------------------------------------------------
(* _post *)

\* Mutant: the token that was refused is kept.
KeepToken == UNCHANGED token
DropToken == token' = None

\* 401: "expired early: log in again once". The token is dropped without the lock,
\* whichever it is by now, and whoever is about to return it.
Unauthorized(r) ==
    /\ pc[r] = "post" /\ bearer[r] \notin accepted
    /\ IF attempt[r] = 1
       THEN /\ DropToken /\ attempt' = [attempt EXCEPT ![r] = 2] /\ Goto(r, "bearer")
            /\ excused' = excused \cup {q \in Requests : pc[q] = "held"}
            /\ UNCHANGED answer
       ELSE Reply(r, Failed("auth")) /\ UNCHANGED <<token, attempt, excused>>
    /\ UNCHANGED <<outline, cache, old, lock, server, want, geometry, page, bearer,
                   edits, faults>>

\* A list goes on to the next page, with another _post.
NextPage(r) ==
    /\ pc[r] = "post" /\ bearer[r] \in accepted
    /\ want[r] = "dates" /\ page[r] < MaxPages
    /\ page' = [page EXCEPT ![r] = @ + 1] /\ attempt' = [attempt EXCEPT ![r] = 1]
    /\ Goto(r, "bearer")
    /\ UNCHANGED <<outline, cache, client, server, want, geometry, bearer, answer,
                   excused, edits, faults>>

Answer(r) == [of |-> geometry[r], full |-> published]

\* The answer is cached, as far as there is a cache, and shown.
Answered(r) ==
    /\ pc[r] = "post" /\ bearer[r] \in accepted
    /\ Reply(r, Answer(r))
    /\ \/ cache' = [cache EXCEPT ![Key(r)] = Answer(r)] /\ UNCHANGED faults
       \/ Fault /\ UNCHANGED cache
    /\ UNCHANGED <<outline, client, server, want, geometry, attempt, page, bearer, excused,
                   edits>>

\* 403, 429, 4xx, 5xx, or no answer at all.
Refused(r) ==
    /\ pc[r] = "post" /\ Fault
    /\ \E e \in Errors : Reply(r, Failed(e))
    /\ excused' = excused \cup {r}
    /\ UNCHANGED <<outline, cache, client, server, want, geometry, attempt, page, bearer,
                   edits>>

-----------------------------------------------------------------------------
(* The surroundings *)

\* The owner redraws the sector, or deletes it.
Draw(o) ==
    /\ edits < MaxEdits /\ edits' = edits + 1 /\ o # outline /\ outline' = o
    /\ UNCHANGED <<cache, client, server, local, excused, faults>>

Publish ==
    /\ ~published /\ published' = TRUE
    /\ UNCHANGED <<outline, cache, client, accepted, issued, local, excused, edits,
                   faults>>

\* Less than a minute is left of the token.
Age ==
    /\ Usable /\ old' = TRUE /\ Fault
    /\ UNCHANGED <<outline, cache, token, lock, server, local, excused, edits>>

\* Copernicus ends a token early. Whoever has to use two that ended is refused.
Revoke(t) ==
    /\ t \in accepted /\ Fault /\ accepted' = accepted \ {t}
    /\ excused' = excused \cup {r \in Requests : attempt[r] = 2 \/ bearer[r] \notin accepted \cup {None}}
    /\ UNCHANGED <<outline, cache, client, published, issued, local, edits>>

\* Redis forgets what is 6 hours old, and pictures after 30 days.
Forget(k) ==
    /\ cache[k] # None /\ Fault /\ cache' = [cache EXCEPT ![k] = None]
    /\ UNCHANGED <<outline, client, server, local, excused, edits>>

Next ==
    \/ \E r \in Requests :
          \/ \E kind \in Kinds : Ask(r, kind)
          \/ LookUp(r) \/ Bearer(r) \/ Login(r) \/ LoginFails(r) \/ Return(r)
          \/ Unauthorized(r) \/ NextPage(r) \/ Answered(r) \/ Refused(r)
    \/ \E o \in Outlines \cup {None} : Draw(o)
    \/ Publish \/ Age
    \/ \E t \in Tokens : Revoke(t)
    \/ \E k \in Kinds \X Outlines : Forget(k)

Spec == Init /\ [][Next]_vars

-----------------------------------------------------------------------------
(* Properties *)

\* A token that expired early costs one more login, not the request: who is told
\* that Copernicus refuses us had a second token refused, or asked for the token
\* just when another request dropped it.
AuthForCause == \A r \in Requests : answer[r] = Failed("auth") => r \in excused

\* A request is shown the sector as it was drawn when it asked, whoever's answer it
\* was, and however the sector has been redrawn since.
ShownAsDrawn == \A r \in Requests : answer[r] \in Shown => answer[r].of = geometry[r]

\* "Images per date never change", so they are kept for 30 days. Does not hold: an
\* answer from before Copernicus had the picture is kept as long.
PictureOnceThere ==
    published => \A k \in Kinds \X Outlines : cache[k] # None => cache[k].full

=============================================================================
