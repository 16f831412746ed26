------------------------------ MODULE Accounts ------------------------------
(***************************************************************************)
(* Accounts, the tokens that speak for them, and the requests that change  *)
(* either.  A request with a token is authenticated by a transaction of its*)
(* own, which leaves a snapshot of the caller; it reads and judges in a    *)
(* second one, and commits that.  A sign-in, a refresh and a view-as       *)
(* session check in one transaction and mint afterwards.  Tokens are signed*)
(* and never stored: what makes one worthless is its expiry, an inactive   *)
(* account, or a revocation stamp later than its issue.                    *)
(*                                                                         *)
(* A job is what a request asks: the handler (op), whose token it carries  *)
(* (by), the account it is about (target), the columns it sends (sets).    *)
(* Payloads that do not pass validation and the sign-in log, which nothing *)
(* here reads, are left out.                                               *)
(***************************************************************************)
EXTENDS Integers

CONSTANTS
  Users,            \* ids of accounts, those not yet created included
  Requests,         \* slots for concurrent requests
  JobSet,           \* what they may ask
  Texts, Lower,     \* user names and addresses, and their lower-case forms
  InitialAccounts,
  InitialTokens,
  AccessLife, RefreshLife, ViewLife,          \* lifetimes, in ticks
  _LOGIN_LOCKOUT_LIMIT, _LOGIN_LOCKOUT_TIMEOUT_S,
  MaxNow,           \* bound on the clock
  MaxServed,        \* bound on the number of requests
  None              \* no account, no caller, nothing to mint

\* What the constants are, assumed by the module that checks this one.
LowerAssumption == Lower \in [Texts -> Texts]
LivesAssumption == {AccessLife, RefreshLife, ViewLife, MaxNow, MaxServed,
                    _LOGIN_LOCKOUT_LIMIT, _LOGIN_LOCKOUT_TIMEOUT_S} \subseteq Nat

VARIABLES
  now,        \* the clock, in whole seconds as far as tokens are concerned
  accounts,   \* the committed rows
  tokens,     \* every token ever handed out
  attempts,   \* failed sign-ins by the name that was typed, [count, expiry]
  pc, job,    \* each request's place and job
  caller,     \* the snapshot taken when it was authenticated
  tries,      \* the attempts it has seen
  cols,       \* the columns it is about to write
  grant,      \* whom it is about to mint for, and when that session began
  raced,      \* the open requests that overlap another
  late,       \* the requests about to mint for an account revoked since
  excuses,    \* why an administrator may be missing
  served      \* requests taken so far

request == <<pc, job, caller, tries, cols, grant>>
history == <<raced, late, excuses, served>>
vars    == <<now, accounts, tokens, attempts, request, history>>

\* A stamp of 0 stands for NULL, no token is that old.
_RANK == [monitor |-> 0, editor |-> 1, admin |-> 2]
Column   == [name |-> Texts, mail |-> Texts, pw |-> {"old", "new"}, active |-> BOOLEAN,
             staff |-> BOOLEAN, level |-> DOMAIN _RANK, stamp |-> Nat]
Row      == [name : Texts, mail : Texts, pw : {"old", "new"}, active : BOOLEAN,
             staff : BOOLEAN, level : DOMAIN _RANK, stamp : Nat]
Token    == [kind : {"access", "refresh"}, user : Users, iat : Nat, exp : Nat,
             root : Nat, late : BOOLEAN]
Snapshot == [id : Users, level : DOMAIN _RANK, staff : BOOLEAN]
Grant    == [user : Users, root : Nat \cup {None}]

\* Columns of a row, and a row with some of them set anew.
Part(c)        == DOMAIN c \subseteq DOMAIN Column /\ \A f \in DOMAIN c : c[f] \in Column[f]
Over(new, old) == [f \in DOMAIN new \cup DOMAIN old |->
                     IF f \in DOMAIN new THEN new[f] ELSE old[f]]

Known == {u \in Users : accounts[u] # None}
Op(r) == job[r].op
Open(r) == pc[r] # "idle"

Idle ==
    /\ now = 1
    /\ pc = [r \in Requests |-> "idle"]
    /\ job = [r \in Requests |-> None]
    /\ caller = [r \in Requests |-> None]
    /\ tries = [r \in Requests |-> 0]
    /\ cols = [r \in Requests |-> <<>>]
    /\ grant = [r \in Requests |-> None]
    /\ raced = {} /\ late = {} /\ excuses = {} /\ served = 0

Init ==
    /\ Idle
    /\ accounts = InitialAccounts /\ tokens = InitialTokens
    /\ attempts = [n \in Texts |-> [count |-> 0, expiry |-> 0]]

-----------------------------------------------------------------------------
(* Tokens *)

token_session_revoked(u, iat) == iat < accounts[u].stamp

decode_access_token(t) == t.kind = "access" /\ now < t.exp

\* What get_current_user lets pass.
Accepted(t) ==
    /\ decode_access_token(t)
    /\ t.user \in Known /\ accounts[t.user].active
    /\ ~token_session_revoked(t.user, t.iat)

Mint(kind, user, life, root, isLate) ==
    [kind |-> kind, user |-> user, iat |-> now, exp |-> now + life,
     root |-> root, late |-> isLate]

mint_tokens(user, isLate) ==
    {Mint("refresh", user, RefreshLife, now, isLate),
     Mint("access", user, AccessLife, now, isLate)}
mint_access(user, root, isLate) == {Mint("access", user, AccessLife, root, isLate)}
mint_view(user, isLate)         == {Mint("access", user, ViewLife, now, isLate)}

-----------------------------------------------------------------------------
(* A request comes, and goes *)

SignIns  == {"signin", "token_obtain"}
Minters  == SignIns \cup {"token_refresh", "impersonate"}
Creators == {"signup", "create_user"}
Public   == SignIns \cup {"signup", "token_refresh"}
AdminOps == {"create_user", "patch_user", "delete_user", "activate_user",
             "reset_password", "set_access_level", "force_logout_user"}

\* The columns that the payloads have.
Sends ==
    [signup |-> {"name", "mail", "pw"}, create_user |-> {"name", "mail", "pw", "staff"},
     patch_user |-> {"mail", "active", "staff"}, patch_me |-> {"mail"},
     activate_user |-> {"active"}, set_access_level |-> {"level"}, delete_user |-> {},
     reset_password |-> {}, force_logout_user |-> {}, logout_everywhere |-> {},
     change_password_me |-> {}]

\* Assumed with those above: what is asked, and what there is at the start, which
\* is no later than it and has an administrator.
JobsAssumption ==
    \A j \in JobSet :
       /\ j.target \in Users
       /\ \/ j.op \in SignIns /\ j.sets.name \in Texts
          \/ j.op \in {"token_refresh", "impersonate"}
          \/ /\ j.op \in DOMAIN Sends
             /\ DOMAIN j.sets \subseteq Sends[j.op] /\ Part(j.sets)
             /\ j.op \in Creators => {"name", "mail", "pw"} \subseteq DOMAIN j.sets
NoneAssumption == None \notin Users \cup JobSet \cup Row \cup Snapshot \cup Grant
AccountsAssumption ==
    /\ InitialAccounts \in [Users -> Row \cup {None}]
    /\ \A u \in Users : InitialAccounts[u] # None => InitialAccounts[u].stamp <= 1
    /\ \E u \in Users : /\ InitialAccounts[u] # None /\ InitialAccounts[u].active
                         /\ InitialAccounts[u].level = "admin"
TokensAssumption ==
    InitialTokens \subseteq
      {t \in Token : /\ InitialAccounts[t.user] # None /\ t.root <= t.iat /\ t.iat <= 1
                     /\ t.kind = "refresh" => t.root = t.iat}

_lockout_get(n) == IF now < attempts[n].expiry THEN attempts[n].count ELSE 0

\* 401 without a token that is accepted, 429 after too many attempts: nothing
\* comes of either.
Take(r, j) ==
    /\ ~Open(r) /\ served < MaxServed
    /\ IF j.op \in Public THEN caller' = caller
       ELSE \E t \in tokens :
               /\ t.user = j.by /\ Accepted(t)
               /\ caller' = [caller EXCEPT ![r] =
                    [id |-> t.user, level |-> accounts[t.user].level,
                     staff |-> accounts[t.user].staff]]
    /\ IF j.op = "signin"
       THEN /\ _lockout_get(j.sets.name) < _LOGIN_LOCKOUT_LIMIT
            /\ tries' = [tries EXCEPT ![r] = _lockout_get(j.sets.name)]
       ELSE tries' = tries
    /\ pc' = [pc EXCEPT ![r] = "load"]
    /\ job' = [job EXCEPT ![r] = j]
    /\ LET others == {q \in Requests : Open(q)} IN
       raced' = IF others = {} THEN raced ELSE raced \cup others \cup {r}
    /\ served' = served + 1
    /\ UNCHANGED <<now, accounts, tokens, attempts, cols, grant, late, excuses>>

Finish(r) ==
    /\ pc' = [pc EXCEPT ![r] = "idle"]
    /\ job' = [job EXCEPT ![r] = None]
    /\ caller' = [caller EXCEPT ![r] = None]
    /\ tries' = [tries EXCEPT ![r] = 0]
    /\ cols' = [cols EXCEPT ![r] = <<>>]
    /\ grant' = [grant EXCEPT ![r] = None]
    /\ raced' = raced \ {r}
    /\ UNCHANGED <<now, served>>

-----------------------------------------------------------------------------
(* Handlers that mint *)

Matches(n) == {u \in Known : Lower[accounts[u].name] = Lower[n]}

\* A hash is as good as the password it was made of.
make_password(raw)            == raw
verify_password(raw, encoded) == encoded = make_password(raw)

\* Whichever account of that name comes first, whatever its case.
_authenticate(j, u) ==
    /\ u \in Matches(j.sets.name) /\ accounts[u].active
    /\ verify_password(j.sets.pw, accounts[u].pw)

Promise(r, user, root) ==
    /\ grant' = [grant EXCEPT ![r] = [user |-> user, root |-> root]]
    /\ pc' = [pc EXCEPT ![r] = "mint"]
    /\ UNCHANGED <<now, accounts, tokens, attempts, job, caller, tries, cols, history>>

_lockout_bump(r) ==
    attempts' = [attempts EXCEPT ![job[r].sets.name] =
                   [count |-> tries[r] + 1, expiry |-> now + _LOGIN_LOCKOUT_TIMEOUT_S]]

SignIn(r) ==
    /\ pc[r] = "load" /\ Op(r) \in SignIns
    /\ \E u \in Matches(job[r].sets.name) : _authenticate(job[r], u) /\ Promise(r, u, None)

TurnAway(r) ==
    /\ pc[r] = "load" /\ Op(r) \in SignIns
    /\ \/ Matches(job[r].sets.name) = {}
       \/ \E u \in Matches(job[r].sets.name) : ~_authenticate(job[r], u)
    /\ IF Op(r) = "signin" THEN _lockout_bump(r) ELSE attempts' = attempts
    /\ Finish(r)
    /\ UNCHANGED <<accounts, tokens, late, excuses>>

\* Mutant: an account that may sign in may go on.
RefreshesUnrevoked(t) == t.kind = "refresh" /\ now < t.exp /\ accounts[t.user].active

Refreshes(t) ==
    /\ t.kind = "refresh" /\ now < t.exp
    /\ accounts[t.user].active /\ ~token_session_revoked(t.user, t.iat)

\* What is presented may as well be no such token.
token_refresh(r) ==
    /\ pc[r] = "load" /\ Op(r) = "token_refresh"
    /\ \/ \E t \in tokens : t.user = job[r].by /\ Refreshes(t) /\ Promise(r, t.user, t.root)
       \/ Finish(r) /\ UNCHANGED <<accounts, tokens, attempts, late, excuses>>

\* get_current_staff_user, and an account of that name, active or not.
impersonate(r) ==
    /\ pc[r] = "load" /\ Op(r) = "impersonate"
    /\ IF caller[r].staff /\ job[r].target \in Known THEN Promise(r, job[r].target, None)
       ELSE Finish(r) /\ UNCHANGED <<accounts, tokens, attempts, late, excuses>>

\* A revocation that has read the clock and is not committed yet.
Revoking(user) ==
    \E q \in Requests : /\ pc[q] = "commit" /\ job[q].target = user
                        /\ "stamp" \in DOMAIN cols[q]

Issue(r) ==
    /\ pc[r] = "mint"
    /\ LET user == grant[r].user
           isLate == r \in late \/ Revoking(user)
       IN
       tokens' = tokens \cup
         CASE Op(r) \in SignIns       -> mint_tokens(user, isLate)
           [] Op(r) = "token_refresh" -> mint_access(user, grant[r].root, isLate)
           [] Op(r) = "impersonate"   -> mint_view(user, isLate)
    /\ attempts' = IF Op(r) # "signin" THEN attempts
                   ELSE [attempts EXCEPT ![job[r].sets.name].count = 0]
    /\ late' = late \ {r}
    /\ Finish(r)
    /\ UNCHANGED <<accounts, excuses>>

-----------------------------------------------------------------------------
(* Handlers that write an account *)

_admin_guard(r) == Op(r) \in AdminOps => caller[r].level = "admin"

Clash(col, text, self) ==
    \E u \in Known \ {self} : Lower[accounts[u][col]] = Lower[text]
Same(col, text) == \E u \in Known : accounts[u][col] = text

\* What each handler makes of job j, its caller c and the row it has loaded: the
\* columns to set, or None where it answers 400 before it has set any.
Unless(problem, columns) == IF problem THEN None ELSE columns

Defaults == [active |-> TRUE, staff |-> FALSE, level |-> "editor", stamp |-> 0]

signup(j) ==
    Unless(Same("mail", j.sets.mail) \/ Clash("name", j.sets.name, None), Over(j.sets, Defaults))
create_user(j) ==
    Unless(Clash("name", j.sets.name, None) \/ Clash("mail", j.sets.mail, None),
           Over(j.sets, Defaults))
patch_user(j) ==
    Unless("mail" \in DOMAIN j.sets /\ Clash("mail", j.sets.mail, j.target), j.sets)
delete_user(j, c) == Unless(j.target = c.id, [active |-> FALSE, stamp |-> now])

\* Mutant: who is switched on again has never been logged out.
ActivateAfresh(j, c, row) ==
    IF row.active THEN [active |-> FALSE, stamp |-> now] ELSE [active |-> TRUE, stamp |-> 0]

\* Set, and only then is it looked at whose account it is: the caller's own is
\* answered 400, and committed.
activate_user(j, c, row) ==
    LET on == IF "active" \in DOMAIN j.sets THEN j.sets.active ELSE ~row.active IN
    IF on \/ j.target = c.id THEN [active |-> on] ELSE [active |-> on, stamp |-> now]

reset_password == [pw |-> make_password("new")]

\* Mutant: an administrator may lower any level.
SetAnyLevel(j, c)      == j.sets
set_access_level(j, c) == Unless(j.target = c.id, j.sets)

force_logout_user == [stamp |-> now]
logout_everywhere == [stamp |-> now]
patch_me(j, row) ==
    Unless(/\ "mail" \in DOMAIN j.sets /\ j.sets.mail # row.mail
           /\ Clash("mail", j.sets.mail, j.target),
           j.sets)
change_password_me(row) ==
    Unless(~verify_password("old", row.pw), [pw |-> make_password("new")])

Columns(j, c, row) ==
    CASE j.op = "signup"             -> signup(j)
      [] j.op = "create_user"        -> create_user(j)
      [] j.op = "patch_user"         -> patch_user(j)
      [] j.op = "delete_user"        -> delete_user(j, c)
      [] j.op = "activate_user"      -> activate_user(j, c, row)
      [] j.op = "reset_password"     -> reset_password
      [] j.op = "set_access_level"   -> set_access_level(j, c)
      [] j.op = "force_logout_user"  -> force_logout_user
      [] j.op = "logout_everywhere"  -> logout_everywhere
      [] j.op = "patch_me"           -> patch_me(j, row)
      [] j.op = "change_password_me" -> change_password_me(row)

\* Only the columns that differ from what was loaded are written.
Dirty(change, row) ==
    [f \in {g \in DOMAIN change : row = None \/ change[g] # row[g]} |-> change[f]]

\* The account a request is about, None for one that is to be created.
Target(r)  == IF Op(r) \in Creators THEN None ELSE accounts[job[r].target]
Missing(r) == Op(r) \notin Creators /\ Target(r) = None

Load(r) ==
    /\ pc[r] = "load" /\ Op(r) \notin Minters
    /\ _admin_guard(r) /\ ~Missing(r)
    /\ LET change == Columns(job[r], caller[r], Target(r)) IN
       /\ change # None
       /\ cols' = [cols EXCEPT ![r] = Dirty(change, Target(r))]
    /\ pc' = [pc EXCEPT ![r] = "commit"]
    /\ UNCHANGED <<now, accounts, tokens, attempts, job, caller, tries, grant, history>>

\* 403, 404 or 400.
Reject(r) ==
    /\ pc[r] = "load" /\ Op(r) \notin Minters
    /\ ~_admin_guard(r) \/ Missing(r) \/ Columns(job[r], caller[r], Target(r)) = None
    /\ Finish(r)
    /\ UNCHANGED <<accounts, tokens, attempts, late, excuses>>

\* The unique columns are compared as they are written.
Duplicate(r) ==
    \E f \in {"name", "mail"} \cap DOMAIN cols[r] :
       \E u \in Known \ {job[r].target} : accounts[u][f] = cols[r][f]

IsAdmin(u) == u \in Known /\ accounts[u].active /\ accounts[u].level = "admin"
SwitchesOff(r) == "active" \in DOMAIN cols[r] /\ ~cols[r].active

\* What a commit may be blamed for.
Blame(r) ==
    {e \in {"self", "lapsed"} :
        IF e = "self" THEN SwitchesOff(r) /\ job[r].target = caller[r].id
        ELSE Op(r) \in AdminOps /\ ~IsAdmin(caller[r].id)}

\* A new account gets the next id; there are as many as Users has.
NextId   == CHOOSE u \in Users : u \notin Known
Written(r) == IF Op(r) \in Creators THEN NextId ELSE job[r].target

Commit(r) ==
    /\ pc[r] = "commit" /\ ~Duplicate(r)
    /\ Op(r) \in Creators => Known # Users
    /\ LET u == Written(r) IN
       /\ accounts' = [accounts EXCEPT ![u] = IF @ = None THEN cols[r] ELSE Over(cols[r], @)]
       /\ late' = late \cup (IF "stamp" \notin DOMAIN cols[r] THEN {}
                             ELSE {q \in Requests : pc[q] = "mint" /\ grant[q].user = u})
    /\ excuses' = excuses \cup Blame(r)
    /\ Finish(r)
    /\ UNCHANGED <<tokens, attempts>>

\* 500: a unique column, written by somebody else since it was looked at.
Fail(r) ==
    /\ pc[r] = "commit" /\ Duplicate(r)
    /\ Finish(r)
    /\ UNCHANGED <<accounts, tokens, attempts, late, excuses>>

Tick ==
    /\ now < MaxNow /\ now' = now + 1
    /\ UNCHANGED <<accounts, tokens, attempts, request, history>>

Handle(r) ==
    \/ SignIn(r) \/ TurnAway(r) \/ token_refresh(r) \/ impersonate(r) \/ Issue(r)
    \/ Load(r) \/ Reject(r) \/ Commit(r) \/ Fail(r)

Next == Tick \/ \E r \in Requests : Handle(r) \/ \E j \in JobSet : Take(r, j)

Spec == Init /\ [][Next]_vars

-----------------------------------------------------------------------------
(* Properties *)

TypeOK ==
    /\ now \in Nat /\ served \in Nat
    /\ accounts \in [Users -> Row \cup {None}]
    /\ tokens \subseteq Token
    /\ attempts \in [Texts -> [count : Nat, expiry : Nat]]
    /\ pc \in [Requests -> {"idle", "load", "mint", "commit"}]
    /\ job \in [Requests -> JobSet \cup {None}]
    /\ caller \in [Requests -> Snapshot \cup {None}]
    /\ tries \in [Requests -> Nat]
    /\ grant \in [Requests -> Grant \cup {None}]
    /\ DOMAIN cols = Requests
    /\ \A r \in Requests :
          /\ job[r] = None <=> pc[r] = "idle"
          /\ caller[r] # None <=> Open(r) /\ Op(r) \notin Public
          /\ grant[r] # None <=> pc[r] = "mint"
          /\ Part(cols[r])
    /\ raced \subseteq Requests /\ late \subseteq Requests
    /\ excuses \subseteq {"self", "lapsed"}

\* users.py:550-560 ("would let an admin lock themselves out"): somebody can
\* still manage the accounts, however many administrators demote, delete and
\* switch off each other, unless one of them switched off their own account
\* (patch_user lets them, activate_user commits it and answers 400) or a request
\* was carried out for one who was no administrator any more.
AdminRemains == (\E u \in Users : IsAdmin(u)) \/ excuses # {}

\* auth.py:96-116: a token that a revocation has killed is never accepted again,
\* through reactivations and later revocations; only overlapping ones can set
\* the stamp back.
RevokedStaysRevoked ==
    [][\A t \in tokens :
          token_session_revoked(t.user, t.iat) =>
             \/ t.iat < accounts'[t.user].stamp
             \/ \E r \in raced : pc[r] = "commit" /\ pc'[r] = "idle"]_vars

\* auth_issuance.py:366-389: behind every token that is accepted stands a
\* sign-in not older than the last revocation, however often it was refreshed;
\* what escapes is a token issued within the second of the revocation, and one
\* that was being minted while it was being carried out.
SignedInSince ==
    \A t \in tokens :
       Accepted(t) =>
          \/ ~token_session_revoked(t.user, t.root)
          \/ t.iat = accounts[t.user].stamp \/ t.late

=============================================================================
