-------------------------- MODULE BackOfficeProofs --------------------------
(***************************************************************************)
(* Accounts and sessions, for any accounts, requests, payloads and token   *)
(* lifetimes.  A commit that stamps an account finds every token of it     *)
(* issued before the stamp was computed, unless it was minted meanwhile;   *)
(* a request that no other overlaps computes a stamp that is not older     *)
(* than the committed one; and who takes the last administrator away is    *)
(* one, unless somebody is to blame.  For the crop calendar and the        *)
(* affirmations: what a request that nobody overlaps has read, dropped or  *)
(* found to be as asked for still is so when it commits, because whoever   *)
(* commits meanwhile takes note of it.  For a schema behind the code: what *)
(* a process has found there stays there.  For the reads: no statement     *)
(* takes a row to be there but the account that another row refers to.     *)
(***************************************************************************)
EXTENDS BackOffice, Sequences, TLAPS

Assumptions == /\ LowerAssumption /\ LivesAssumption /\ JobsAssumption /\ NoneAssumption
               /\ AccountsAssumption /\ TokensAssumption

Stamps(r) == pc[r] = "commit" /\ Op(r) \notin Creators /\ "stamp" \in DOMAIN cols[r]

-----------------------------------------------------------------------------
(* The invariant *)

\* A token is of an account, and not from the future.
Tokens ==
    \A t \in tokens :
       /\ t.user \in Known /\ t.root <= t.iat /\ t.iat <= now
       /\ t.kind = "refresh" => t.root = t.iat
Stamped == \A u \in Known : accounts[u].stamp <= now

\* About to mint: a refreshed session is older than no revocation that the
\* request could know of.
Minting(r) ==
    pc[r] = "mint" =>
       /\ Op(r) \in Minters /\ grant[r].user \in Known
       /\ Op(r) = "token_refresh" =>
             /\ grant[r].root \in Nat /\ grant[r].root <= now
             /\ r \notin late => accounts[grant[r].user].stamp <= grant[r].root

\* About to commit: new accounts are whole and unstamped; others are there.
Committing(r) ==
    pc[r] = "commit" =>
       /\ Op(r) \notin Minters
       /\ IF Op(r) \in Creators THEN cols[r] \in Row /\ cols[r].stamp = 0
          ELSE job[r].target \in Known
       /\ "stamp" \in DOMAIN cols[r] => cols[r].stamp <= now

\* Only an administrator's request is about who is one, and none about its own
\* level.
Ruling(r) ==
    pc[r] = "commit" /\ Op(r) \notin Creators =>
       /\ {"active", "level"} \cap DOMAIN cols[r] # {} => Op(r) \in AdminOps
       /\ Op(r) \in AdminOps /\ job[r].target = caller[r].id => "level" \notin DOMAIN cols[r]

\* What was issued before a stamp that is to be committed is not younger.
Issued ==
    \A r \in Requests, t \in tokens :
       Stamps(r) /\ t.user = job[r].target /\ ~t.late => t.iat <= cols[r].stamp
\* A token younger than the last revocation goes back to a sign-in that is, too.
Rooted ==
    \A t \in tokens :
       t.iat > accounts[t.user].stamp /\ ~t.late => accounts[t.user].stamp <= t.root

Overlaps == \A q, r \in Requests : Open(q) /\ Open(r) /\ q # r => q \in raced
\* Alone, a request stamps later than those before it.
Newer ==
    \A r \in Requests :
       Stamps(r) /\ r \notin raced => accounts[job[r].target].stamp <= cols[r].stamp

Requested == \A r \in Requests : Minting(r) /\ Committing(r) /\ Ruling(r)

IInv == /\ TypeOK /\ Tokens /\ Stamped /\ Requested
        /\ Issued /\ Rooted /\ Overlaps /\ Newer /\ AdminRemains

-----------------------------------------------------------------------------
(* Columns *)

Fields == {"name", "mail", "pw", "active", "staff", "level", "stamp"}

LEMMA ColumnsAre == DOMAIN Column = Fields
  BY DEF Column, Fields

LEMMA PartColumns ==
  ASSUME NEW c, Part(c)
  PROVE  /\ DOMAIN c \subseteq Fields
         /\ "name" \in DOMAIN c => c.name \in Texts
         /\ "mail" \in DOMAIN c => c.mail \in Texts
         /\ "pw" \in DOMAIN c => c.pw \in {"old", "new"}
         /\ "active" \in DOMAIN c => c.active \in BOOLEAN
         /\ "staff" \in DOMAIN c => c.staff \in BOOLEAN
         /\ "level" \in DOMAIN c => c.level \in DOMAIN _RANK
         /\ "stamp" \in DOMAIN c => c.stamp \in Nat
  <1>1. DOMAIN c \subseteq Fields /\ \A f \in DOMAIN c : c[f] \in Column[f]
    BY ColumnsAre DEF Part
  <1>2. QED
    BY <1>1 DEF Column

LEMMA WholeRow ==
  ASSUME NEW c, Part(c), DOMAIN c = Fields, c = [f \in DOMAIN c |-> c[f]]
  PROVE  c \in Row
  <1>1. /\ c.name \in Texts /\ c.mail \in Texts /\ c.pw \in {"old", "new"}
        /\ c.active \in BOOLEAN /\ c.staff \in BOOLEAN /\ c.level \in DOMAIN _RANK
        /\ c.stamp \in Nat
    BY PartColumns DEF Fields
  <1>2. QED
    BY <1>1 DEF Row, Fields

LEMMA RowIsPart ==
  ASSUME NEW a \in Row
  PROVE  Part(a) /\ DOMAIN a = Fields
  <1>1. DOMAIN a = Fields
    BY DEF Row, Fields
  <1>2. \A f \in Fields : a[f] \in Column[f]
    BY DEF Row, Column, Fields
  <1>3. QED
    BY <1>1, <1>2, ColumnsAre DEF Part

LEMMA OverRow ==
  ASSUME NEW c, NEW a \in Row, Part(c)
  PROVE  /\ Over(c, a) \in Row
         /\ \A f \in Fields : Over(c, a)[f] = IF f \in DOMAIN c THEN c[f] ELSE a[f]
  <1>1. DOMAIN c \subseteq Fields /\ DOMAIN a = Fields
    BY PartColumns, RowIsPart
  <1>2. /\ DOMAIN Over(c, a) = Fields
        /\ Over(c, a) = [f \in DOMAIN Over(c, a) |-> Over(c, a)[f]]
        /\ \A f \in Fields : Over(c, a)[f] = IF f \in DOMAIN c THEN c[f] ELSE a[f]
    BY <1>1 DEF Over
  <1>3. Part(Over(c, a))
    BY <1>1, <1>2, RowIsPart, ColumnsAre DEF Part
  <1>4. QED
    BY <1>2, <1>3, WholeRow

LEMMA OverDefaults ==
  ASSUME NEW c, Part(c), {"name", "mail", "pw"} \subseteq DOMAIN c, "stamp" \notin DOMAIN c
  PROVE  Over(c, Defaults) \in Row /\ Over(c, Defaults).stamp = 0
  <1>1. DOMAIN c \subseteq Fields /\ DOMAIN Defaults = {"active", "staff", "level", "stamp"}
    BY PartColumns DEF Defaults
  <1>2. /\ DOMAIN Over(c, Defaults) = Fields
        /\ Over(c, Defaults) = [f \in DOMAIN Over(c, Defaults) |-> Over(c, Defaults)[f]]
        /\ \A f \in Fields :
              Over(c, Defaults)[f] = IF f \in DOMAIN c THEN c[f] ELSE Defaults[f]
    BY <1>1 DEF Over, Fields
  <1>3. \A f \in DOMAIN Defaults : Defaults[f] \in Column[f]
    <2>1. "editor" \in DOMAIN _RANK
      BY DEF _RANK
    <2>2. /\ Defaults["active"] \in Column["active"] /\ Defaults["staff"] \in Column["staff"]
          /\ Defaults["level"] \in Column["level"] /\ Defaults["stamp"] \in Column["stamp"]
      BY <2>1 DEF Defaults, Column
    <2>3. QED
      BY <1>1, <2>2
  <1>4. \A f \in Fields : f \notin DOMAIN c => f \in DOMAIN Defaults
    BY <1>1 DEF Fields
  <1>5. Part(Over(c, Defaults))
    BY <1>2, <1>3, <1>4, ColumnsAre DEF Part
  <1>6. Over(c, Defaults).stamp = 0
    BY <1>2 DEF Fields, Defaults
  <1>7. QED
    BY <1>2, <1>5, <1>6, WholeRow

\* What a handler makes of a job that does not sign anybody in.
LEMMA ColumnsOf ==
  ASSUME JobsAssumption, now \in Nat, NEW j \in JobSet, j.op \in DOMAIN Sends,
         NEW c, NEW row, row = None \/ row \in Row, Columns(j, c, row) # None,
         j.op \in Creators \/ row # None
  PROVE  /\ Part(Columns(j, c, row))
         /\ j.op \in Creators =>
              Columns(j, c, row) \in Row /\ Columns(j, c, row).stamp = 0
         /\ j.op \notin Creators =>
              /\ "stamp" \in DOMAIN Columns(j, c, row) => Columns(j, c, row).stamp = now
              /\ {"active", "level"} \cap DOMAIN Columns(j, c, row) # {} => j.op \in AdminOps
              /\ j.target = c.id => "level" \notin DOMAIN Columns(j, c, row)
  <1> DEFINE ch == Columns(j, c, row)
  <1>1. /\ DOMAIN j.sets \subseteq Sends[j.op] /\ Part(j.sets)
        /\ j.op \in Creators => {"name", "mail", "pw"} \subseteq DOMAIN j.sets
    BY DEF JobsAssumption, SignIns, Sends
  <1>2. /\ DOMAIN Sends = {"signup", "create_user", "patch_user", "patch_me",
             "activate_user", "set_access_level", "delete_user", "reset_password",
             "force_logout_user", "logout_everywhere", "change_password_me"}
        /\ "stamp" \notin Sends[j.op] /\ ("level" \in Sends[j.op] => j.op = "set_access_level")
        /\ "active" \in Sends[j.op] => j.op \in {"patch_user", "activate_user"}
    BY DEF Sends
  <1>3. CASE j.op \in Creators
    <2>1. ch = Over(j.sets, Defaults)
      <3>1. CASE j.op = "signup"
        BY <3>1 DEF Columns, signup, Unless
      <3>2. CASE j.op = "create_user"
        BY <3>2 DEF Columns, create_user, Unless
      <3>3. QED
        BY <1>3, <3>1, <3>2 DEF Creators
    <2>2. ch \in Row /\ ch.stamp = 0
      BY <1>1, <1>2, <1>3, <2>1, OverDefaults
    <2>3. QED
      BY <1>3, <2>2, RowIsPart
  <1>4. CASE j.op \in {"patch_user", "patch_me", "set_access_level"}
    <2>1. ch = j.sets
      <3>1. CASE j.op = "patch_user"
        BY <3>1 DEF Columns, patch_user, Unless
      <3>2. CASE j.op = "patch_me"
        BY <3>2 DEF Columns, patch_me, Unless
      <3>3. CASE j.op = "set_access_level"
        BY <3>3 DEF Columns, set_access_level, Unless
      <3>4. QED
        BY <1>4, <3>1, <3>2, <3>3
    <2>2. j.op = "set_access_level" => j.target # c.id
      BY DEF Columns, set_access_level, Unless
    <2>3. QED
      BY <1>1, <1>2, <1>4, <2>1, <2>2 DEF AdminOps, Creators
  <1>5. CASE j.op = "activate_user"
    <2>1. PICK on \in BOOLEAN : ch = [active |-> on] \/ ch = [active |-> on, stamp |-> now]
      <3>1. "active" \in DOMAIN j.sets => j.sets.active \in BOOLEAN
        BY <1>1, PartColumns
      <3>2. (~row.active) \in BOOLEAN
        OBVIOUS
      <3>3. QED
        BY <1>5, <3>1, <3>2 DEF Columns, activate_user
    <2>2. on \in Column["active"] /\ now \in Column["stamp"]
      BY DEF Column
    <2>3. DOMAIN ch \subseteq {"active", "stamp"} /\ \A f \in DOMAIN ch : ch[f] \in Column[f]
      <3>1. CASE ch = [active |-> on]
        BY <2>2, <3>1
      <3>2. CASE ch = [active |-> on, stamp |-> now]
        BY <2>2, <3>2
      <3>3. QED
        BY <2>1, <3>1, <3>2
    <2>4. Part(ch)
      BY <2>3, ColumnsAre DEF Part, Fields
    <2>5. QED
      BY <1>5, <2>1, <2>4 DEF AdminOps, Creators
  <1>6. CASE j.op = "delete_user"
    <2>1. PICK off \in BOOLEAN : ch = [active |-> off, stamp |-> now]
      BY <1>6 DEF Columns, delete_user, Unless
    <2>2. off \in Column["active"] /\ now \in Column["stamp"]
      BY DEF Column
    <2>3. DOMAIN ch = {"active", "stamp"} /\ \A f \in DOMAIN ch : ch[f] \in Column[f]
      BY <2>1, <2>2
    <2> HIDE DEF ch
    <2>4. Part(ch)
      BY <2>3, ColumnsAre DEF Part, Fields
    <2>5. QED
      BY <1>6, <2>1, <2>3, <2>4 DEF AdminOps, Creators, ch
  <1>7. CASE j.op \in {"force_logout_user", "logout_everywhere"}
    <2>1. ch = [stamp |-> now]
      BY <1>7 DEF Columns, force_logout_user, logout_everywhere
    <2>2. Part(ch)
      BY <2>1 DEF Part, Column
    <2>3. QED
      BY <1>7, <2>1, <2>2 DEF Creators
  <1>8. CASE j.op \in {"reset_password", "change_password_me"}
    <2>1. ch = [pw |-> "new"]
      BY <1>8 DEF Columns, reset_password, change_password_me, make_password, Unless
    <2>2. Part(ch)
      BY <2>1 DEF Part, Column
    <2>3. QED
      BY <1>8, <2>1, <2>2 DEF Creators
  <1>9. QED
    BY <1>2, <1>3, <1>4, <1>5, <1>6, <1>7, <1>8 DEF Creators

LEMMA DirtyIs ==
  ASSUME NEW change, NEW row
  PROVE  /\ DOMAIN Dirty(change, row) \subseteq DOMAIN change
         /\ \A f \in DOMAIN Dirty(change, row) : Dirty(change, row)[f] = change[f]
         /\ row = None /\ change \in Row => Dirty(change, row) = change
         /\ Part(change) => Part(Dirty(change, row))
  <1>1. /\ DOMAIN Dirty(change, row) \subseteq DOMAIN change
        /\ \A f \in DOMAIN Dirty(change, row) : Dirty(change, row)[f] = change[f]
    BY DEF Dirty
  <1>2. ASSUME row = None, change \in Row PROVE Dirty(change, row) = change
    <2>1. change = [f \in DOMAIN change |-> change[f]]
      BY <1>2 DEF Row
    <2>2. QED
      BY <1>2, <2>1 DEF Dirty
  <1>3. QED
    BY <1>1, <1>2 DEF Part

-----------------------------------------------------------------------------
(* Types and kinds of steps *)

Data  == /\ now \in Nat /\ served \in Nat
         /\ accounts \in [Users -> Row \cup {None}] /\ tokens \subseteq Token
         /\ attempts \in [Texts -> [count : Nat, expiry : Nat]]
Slots == /\ pc \in [Requests -> {"idle", "load", "mint", "commit"}]
         /\ job \in [Requests -> JobSet \cup {None}]
         /\ caller \in [Requests -> Snapshot \cup {None}]
         /\ tries \in [Requests -> Nat]
         /\ grant \in [Requests -> Grant \cup {None}]
         /\ DOMAIN cols = Requests
Slot(r) == /\ job[r] = None <=> pc[r] = "idle"
           /\ caller[r] # None <=> Open(r) /\ Op(r) \notin Public
           /\ grant[r] # None <=> pc[r] = "mint"
           /\ Part(cols[r])
Filled == \A r \in Requests : Slot(r)
Marks == /\ raced \subseteq Requests /\ late \subseteq Requests
         /\ excuses \subseteq {"self", "lapsed"}

LEMMA TypeParts == TypeOK <=> Data /\ Slots /\ Filled /\ Marks
  BY DEF TypeOK, Data, Slots, Filled, Slot, Marks

\* A slot that nothing happens to.
Still(q) == /\ pc'[q] = pc[q] /\ job'[q] = job[q] /\ caller'[q] = caller[q]
            /\ tries'[q] = tries[q] /\ cols'[q] = cols[q] /\ grant'[q] = grant[q]
Elsewhere(r) == \A q \in Requests \ {r} : Still(q)

\* A request that goes on to mint, and one that ends without a change.
Promises(r) ==
    /\ pc[r] = "load"
    /\ \E u \in Known, root \in Nat \cup {None} :
          /\ Promise(r, u, root)
          /\ \/ Op(r) \in SignIns \cup {"impersonate"}
             \/ /\ Op(r) = "token_refresh"
                /\ \E t \in tokens : /\ t.kind = "refresh" /\ t.user = u /\ t.root = root
                                     /\ accounts[u].stamp <= t.iat
Ends(r) ==
    /\ pc[r] \in {"load", "commit"} /\ Finish(r)
    /\ attempts' \in [Texts -> [count : Nat, expiry : Nat]]
    /\ UNCHANGED <<accounts, tokens, late, excuses>>

LEMMA Here ==
  ASSUME Data, Slots, Filled, NoneAssumption, NEW r \in Requests, Open(r)
  PROVE  /\ job[r] \in JobSet
         /\ Op(r) \notin Public => caller[r] \in Snapshot
         /\ pc[r] = "mint" => grant[r] \in Grant
  BY DEF Slots, Filled, Slot, Open, NoneAssumption

LEMMA Accounted ==
  ASSUME Data, NEW u \in Known
  PROVE  u \in Users /\ accounts[u] \in Row /\ accounts[u].stamp \in Nat
  <1>1. u \in Users /\ accounts[u] \in Row
    BY DEF Data, Known
  <1>2. QED
    BY <1>1 DEF Row

LEMMA TypedName ==
  ASSUME JobsAssumption, NEW j \in JobSet, j.op \in SignIns
  PROVE  j.sets.name \in Texts
  BY DEF JobsAssumption, SignIns, Sends

LEMMA SomeSends ==
  ASSUME JobsAssumption, NEW j \in JobSet, j.op \notin Minters
  PROVE  j.op \in DOMAIN Sends
  BY DEF JobsAssumption, Minters, SignIns

\* Every step is of one of these kinds.
LEMMA StepKinds ==
  ASSUME Assumptions, Data, Slots, Filled, Marks, Tokens, NEW r \in Requests, Handle(r)
  PROVE  Promises(r) \/ Ends(r) \/ Issue(r) \/ Load(r) \/ Commit(r)
  <1>1. ASSUME SignIn(r) PROVE Promises(r)
    BY <1>1 DEF SignIn, Promises, Matches
  <1>2. ASSUME TurnAway(r) PROVE Ends(r)
    <2>1. attempts' \in [Texts -> [count : Nat, expiry : Nat]]
      <3>1. CASE Op(r) = "signin"
        <4>1. job[r] \in JobSet
          BY <1>2, Here DEF TurnAway, Open, Assumptions
        <4>2. job[r].sets.name \in Texts
          BY <4>1, <3>1, TypedName DEF Op, SignIns, Assumptions
        <4>3. tries[r] + 1 \in Nat /\ now + _LOGIN_LOCKOUT_TIMEOUT_S \in Nat
          BY DEF Slots, Data, Assumptions, LivesAssumption
        <4>4. attempts' = [attempts EXCEPT ![job[r].sets.name] =
                 [count |-> tries[r] + 1, expiry |-> now + _LOGIN_LOCKOUT_TIMEOUT_S]]
          BY <1>2, <3>1 DEF TurnAway, _lockout_bump
        <4>5. QED
          BY <4>2, <4>3, <4>4 DEF Data
      <3>2. CASE Op(r) # "signin"
        BY <1>2, <3>2 DEF TurnAway, Data
      <3>3. QED
        BY <3>1, <3>2
    <2>2. QED
      BY <1>2, <2>1 DEF TurnAway, Ends
  <1>3. ASSUME token_refresh(r) PROVE Promises(r) \/ Ends(r)
    <2>1. pc[r] = "load" /\ Op(r) = "token_refresh"
      BY <1>3 DEF token_refresh
    <2>2. CASE Finish(r) /\ UNCHANGED <<accounts, tokens, attempts, late, excuses>>
      BY <2>1, <2>2 DEF Ends, Data
    <2>3. CASE \E t \in tokens :
                  t.user = job[r].by /\ Refreshes(t) /\ Promise(r, t.user, t.root)
      <3>1. PICK t \in tokens : Refreshes(t) /\ Promise(r, t.user, t.root)
        BY <2>3
      <3>2. t.user \in Known /\ t \in Token
        BY DEF Tokens, Data
      <3>3. t.root \in Nat /\ t.iat \in Nat /\ accounts[t.user].stamp \in Nat
        BY <3>2, Accounted DEF Token
      <3>4. t.kind = "refresh" /\ accounts[t.user].stamp <= t.iat
        BY <3>1, <3>3 DEF Refreshes, token_session_revoked
      <3>5. QED
        BY <2>1, <3>1, <3>2, <3>3, <3>4 DEF Promises
    <2>4. QED
      BY <1>3, <2>2, <2>3 DEF token_refresh
  <1>4. ASSUME impersonate(r) PROVE Promises(r) \/ Ends(r)
    BY <1>4 DEF impersonate, Promises, Ends, Data
  <1>5. ASSUME Reject(r) \/ Fail(r) PROVE Ends(r)
    BY <1>5 DEF Reject, Fail, Ends, Data
  <1>6. QED
    BY <1>1, <1>2, <1>3, <1>4, <1>5 DEF Handle

LEMMA Finished ==
  ASSUME Slots, NEW r \in Requests, Finish(r)
  PROVE  /\ Slots' /\ Elsewhere(r) /\ now' = now /\ served' = served
         /\ pc'[r] = "idle" /\ job'[r] = None /\ caller'[r] = None
         /\ cols'[r] = <<>> /\ grant'[r] = None
         /\ raced' = raced \ {r}
  BY DEF Slots, Finish, Elsewhere, Still

LEMMA EmptyPart == Part(<<>>)
  BY DEF Part

LEMMA StillSlot ==
  ASSUME NEW q, Slot(q), Still(q)
  PROVE  Slot(q)'
  BY DEF Slot, Still, Open, Op

LEMMA FinishFills ==
  ASSUME Slots, Filled, NEW r \in Requests, Finish(r)
  PROVE  Filled'
  <1>1. ASSUME NEW q \in Requests PROVE Slot(q)'
    <2>1. CASE q = r
      BY <2>1, Finished, EmptyPart DEF Slot, Open
    <2>2. CASE q # r
      BY <2>2, Finished, StillSlot DEF Filled, Elsewhere
    <2>3. QED
      BY <2>1, <2>2
  <1>2. QED
    BY <1>1 DEF Filled

LEMMA Promised ==
  ASSUME Assumptions, Data, Slots, Filled, NEW r \in Requests, NEW u \in Known,
         NEW root \in Nat \cup {None}, pc[r] = "load", Promise(r, u, root)
  PROVE  /\ Slots' /\ Filled' /\ Elsewhere(r)
         /\ pc'[r] = "mint" /\ job'[r] = job[r]
         /\ grant'[r].user = u /\ grant'[r].root = root
  <1> DEFINE g == [user |-> u, root |-> root]
  <1>1. g \in Grant
    BY Accounted DEF Grant
  <1>2. Slots'
    BY <1>1 DEF Slots, Promise
  <1>3. /\ pc' = [pc EXCEPT ![r] = "mint"] /\ grant' = [grant EXCEPT ![r] = g]
        /\ job' = job /\ caller' = caller /\ tries' = tries /\ cols' = cols
    BY DEF Promise
  <1> HIDE DEF g
  <1>4. Elsewhere(r) /\ pc'[r] = "mint" /\ grant'[r] = g
    BY <1>3 DEF Elsewhere, Still, Slots
  <1>5. g # None
    BY <1>1 DEF Assumptions, NoneAssumption
  <1>6. ASSUME NEW q \in Requests PROVE Slot(q)'
    <2>1. CASE q = r
      BY <2>1, <1>3, <1>4, <1>5 DEF Filled, Slot, Open, Op
    <2>2. CASE q # r
      BY <2>2, <1>4, StillSlot DEF Filled, Elsewhere
    <2>3. QED
      BY <2>1, <2>2
  <1>7. QED
    BY <1>2, <1>3, <1>4, <1>6 DEF Filled, g

\* A token minted now, for a user with a grant.
LEMMA MintType ==
  ASSUME NEW kind \in {"access", "refresh"}, NEW u \in Users, NEW life \in Nat,
         NEW root \in Nat, NEW isLate \in BOOLEAN, now \in Nat
  PROVE  /\ Mint(kind, u, life, root, isLate) \in Token
         /\ Mint(kind, u, life, root, isLate).user = u
         /\ Mint(kind, u, life, root, isLate).iat = now
         /\ Mint(kind, u, life, root, isLate).root = root
         /\ Mint(kind, u, life, root, isLate).kind = kind
         /\ Mint(kind, u, life, root, isLate).late = isLate
  BY DEF Mint, Token

\* What Issue adds: tokens of the account that was promised, issued now, late if
\* a revocation is under way, that go back to now or to the session refreshed.
LEMMA Issues ==
  ASSUME Assumptions, Data, Slots, Filled, NEW r \in Requests, Minting(r), Issue(r)
  PROVE  /\ tokens \subseteq tokens' /\ tokens' \subseteq Token
         /\ \A t \in tokens' \ tokens :
               /\ t.user = grant[r].user /\ t.iat = now
               /\ t.late \/ (r \notin late /\ ~Revoking(grant[r].user))
               /\ \/ t.root = now
                  \/ Op(r) = "token_refresh" /\ t.kind = "access" /\ t.root = grant[r].root
  <1> DEFINE u == grant[r].user
             isLate == r \in late \/ Revoking(u)
  <1>1. /\ u \in Users /\ isLate \in BOOLEAN /\ now \in Nat /\ Op(r) \in Minters
        /\ AccessLife \in Nat /\ RefreshLife \in Nat /\ ViewLife \in Nat
    <2>1. grant[r] \in Grant
      BY Here DEF Issue, Open, Assumptions
    <2>2. QED
      BY <2>1 DEF Grant, Data, Assumptions, LivesAssumption, Minting, Issue
  <1>2. tokens' = tokens \cup
          CASE Op(r) \in SignIns       -> mint_tokens(u, isLate)
            [] Op(r) = "token_refresh" -> mint_access(u, grant[r].root, isLate)
            [] Op(r) = "impersonate"   -> mint_view(u, isLate)
    BY DEF Issue
  <1>3. Op(r) = "token_refresh" => grant[r].root \in Nat
    BY DEF Minting, Issue
  <1>4. isLate \/ (r \notin late /\ ~Revoking(u))
    OBVIOUS
  <1> HIDE DEF u, isLate
  <1>5. CASE Op(r) \in SignIns
    <2>1. tokens' = tokens \cup {Mint("refresh", u, RefreshLife, now, isLate),
                                 Mint("access", u, AccessLife, now, isLate)}
      BY <1>2, <1>5 DEF mint_tokens, SignIns
    <2>2. /\ Mint("refresh", u, RefreshLife, now, isLate) \in Token
          /\ Mint("refresh", u, RefreshLife, now, isLate).user = u
          /\ Mint("refresh", u, RefreshLife, now, isLate).iat = now
          /\ Mint("refresh", u, RefreshLife, now, isLate).root = now
          /\ Mint("refresh", u, RefreshLife, now, isLate).late = isLate
      BY <1>1, MintType
    <2>3. /\ Mint("access", u, AccessLife, now, isLate) \in Token
          /\ Mint("access", u, AccessLife, now, isLate).user = u
          /\ Mint("access", u, AccessLife, now, isLate).iat = now
          /\ Mint("access", u, AccessLife, now, isLate).root = now
          /\ Mint("access", u, AccessLife, now, isLate).late = isLate
      BY <1>1, MintType
    <2>4. \A t \in tokens' \ tokens :
             t.user = u /\ t.iat = now /\ t.late = isLate /\ t.root = now
      BY <2>1, <2>2, <2>3
    <2>5. \A t \in tokens' \ tokens : t.late \/ (r \notin late /\ ~Revoking(u))
      BY <2>4, <1>4, Zenon
    <2>6. QED
      BY <2>1, <2>2, <2>3, <2>4, <2>5 DEF Data, u
  <1>6. CASE Op(r) = "token_refresh"
    <2>1. tokens' = tokens \cup {Mint("access", u, AccessLife, grant[r].root, isLate)}
      BY <1>2, <1>6 DEF mint_access, SignIns
    <2>2. /\ Mint("access", u, AccessLife, grant[r].root, isLate) \in Token
          /\ Mint("access", u, AccessLife, grant[r].root, isLate).user = u
          /\ Mint("access", u, AccessLife, grant[r].root, isLate).iat = now
          /\ Mint("access", u, AccessLife, grant[r].root, isLate).kind = "access"
          /\ Mint("access", u, AccessLife, grant[r].root, isLate).root = grant[r].root
          /\ Mint("access", u, AccessLife, grant[r].root, isLate).late = isLate
      BY <1>1, <1>3, <1>6, MintType
    <2>3. \A t \in tokens' \ tokens :
             /\ t.user = u /\ t.iat = now /\ t.late = isLate
             /\ t.kind = "access" /\ t.root = grant[r].root
      BY <2>1, <2>2
    <2>4. \A t \in tokens' \ tokens : t.late \/ (r \notin late /\ ~Revoking(u))
      BY <2>3, <1>4, Zenon
    <2>5. QED
      BY <2>1, <2>2, <2>3, <2>4, <1>6 DEF Data, u
  <1>7. CASE Op(r) = "impersonate"
    <2>1. tokens' = tokens \cup {Mint("access", u, ViewLife, now, isLate)}
      BY <1>2, <1>7 DEF mint_view, SignIns
    <2>2. /\ Mint("access", u, ViewLife, now, isLate) \in Token
          /\ Mint("access", u, ViewLife, now, isLate).user = u
          /\ Mint("access", u, ViewLife, now, isLate).iat = now
          /\ Mint("access", u, ViewLife, now, isLate).root = now
          /\ Mint("access", u, ViewLife, now, isLate).late = isLate
      BY <1>1, MintType
    <2>3. \A t \in tokens' \ tokens :
             t.user = u /\ t.iat = now /\ t.late = isLate /\ t.root = now
      BY <2>1, <2>2
    <2>4. \A t \in tokens' \ tokens : t.late \/ (r \notin late /\ ~Revoking(u))
      BY <2>3, <1>4, Zenon
    <2>5. QED
      BY <2>1, <2>2, <2>3, <2>4 DEF Data, u
  <1>8. QED
    BY <1>1, <1>5, <1>6, <1>7 DEF Minters

LEMMA Loaded ==
  ASSUME Assumptions, Data, Slots, Filled, NEW r \in Requests, Load(r)
  PROVE  /\ Slots' /\ Filled' /\ Elsewhere(r)
         /\ pc[r] = "load" /\ pc'[r] = "commit"
         /\ job'[r] = job[r] /\ caller'[r] = caller[r]
         /\ Op(r) \notin Minters
         /\ Op(r) \in Creators => cols'[r] \in Row /\ cols'[r].stamp = 0
         /\ Op(r) \notin Creators =>
              /\ job[r].target \in Known
              /\ "stamp" \in DOMAIN cols'[r] => cols'[r].stamp = now
              /\ {"active", "level"} \cap DOMAIN cols'[r] # {} => Op(r) \in AdminOps
              /\ job[r].target = caller[r].id => "level" \notin DOMAIN cols'[r]
  <1> DEFINE row == Target(r)
             ch  == Columns(job[r], caller[r], row)
             d   == Dirty(ch, row)
  <1>1. pc[r] = "load" /\ Op(r) \notin Minters /\ ~Missing(r) /\ ch # None
    BY DEF Load
  <1>2. job[r] \in JobSet /\ job[r].op \in DOMAIN Sends /\ job[r].target \in Users
    <2>1. job[r] \in JobSet
      BY <1>1, Here DEF Open, Assumptions
    <2>2. QED
      BY <1>1, <2>1, SomeSends DEF Op, Assumptions, JobsAssumption
  <1>3. /\ Op(r) \in Creators => row = None
        /\ Op(r) \notin Creators => row \in Row /\ row # None /\ job[r].target \in Known
    BY <1>1, <1>2 DEF Target, Missing, Known, Data
  <1>4. /\ pc' = [pc EXCEPT ![r] = "commit"] /\ cols' = [cols EXCEPT ![r] = d]
        /\ job' = job /\ caller' = caller /\ tries' = tries /\ grant' = grant
    BY DEF Load
  <1> HIDE DEF row
  <1>5. /\ Part(ch)
        /\ Op(r) \in Creators => ch \in Row /\ ch.stamp = 0
        /\ Op(r) \notin Creators =>
             /\ "stamp" \in DOMAIN ch => ch.stamp = now
             /\ {"active", "level"} \cap DOMAIN ch # {} => Op(r) \in AdminOps
             /\ job[r].target = caller[r].id => "level" \notin DOMAIN ch
    BY <1>1, <1>2, <1>3, ColumnsOf DEF Op, Assumptions, Data
  <1> HIDE DEF ch
  <1>6. /\ Part(d) /\ DOMAIN d \subseteq DOMAIN ch
        /\ \A f \in DOMAIN d : d[f] = ch[f]
        /\ row = None /\ ch \in Row => d = ch
    BY <1>5, DirtyIs
  <1> HIDE DEF d
  <1>7. Slots' /\ Elsewhere(r) /\ pc'[r] = "commit" /\ cols'[r] = d
    BY <1>4 DEF Slots, Elsewhere, Still
  <1>8. ASSUME NEW q \in Requests PROVE Slot(q)'
    <2>1. CASE q = r
      BY <2>1, <1>1, <1>4, <1>6, <1>7 DEF Filled, Slot, Open, Op
    <2>2. CASE q # r
      BY <2>2, <1>7, StillSlot DEF Filled, Elsewhere
    <2>3. QED
      BY <2>1, <2>2
  <1>9. Filled'
    BY <1>8 DEF Filled
  <1>10. QED
    BY <1>1, <1>3, <1>4, <1>5, <1>6, <1>7, <1>9

LEMMA Committed ==
  ASSUME Assumptions, Data, Slots, Filled, NEW r \in Requests, Committing(r), Commit(r)
  PROVE  /\ Written(r) \in Users /\ Finish(r) /\ tokens' = tokens
         /\ Op(r) \in Creators => Written(r) \notin Known /\ accounts'[Written(r)] = cols[r]
         /\ Op(r) \notin Creators =>
              /\ Written(r) = job[r].target /\ job[r].target \in Known
              /\ accounts'[Written(r)] = Over(cols[r], accounts[Written(r)])
         /\ accounts' \in [Users -> Row \cup {None}]
         /\ Known' = Known \cup {Written(r)}
         /\ \A u \in Users \ {Written(r)} : accounts'[u] = accounts[u]
  <1> DEFINE u == Written(r)
  <1>1. /\ pc[r] = "commit" /\ (Op(r) \in Creators => Known # Users)
        /\ accounts' = [accounts EXCEPT ![u] =
              IF accounts[u] = None THEN cols[r] ELSE Over(cols[r], accounts[u])]
        /\ Finish(r) /\ tokens' = tokens
    BY DEF Commit
  <1>2. Op(r) \in Creators => u \in Users /\ u \notin Known /\ cols[r] \in Row
    <2>1. ASSUME Op(r) \in Creators PROVE \E x \in Users : x \notin Known
      BY <1>1, <2>1 DEF Known
    <2>2. QED
      BY <1>1, <2>1 DEF Written, NextId, Committing
  <1>3. Op(r) \notin Creators => u = job[r].target /\ u \in Known
    BY <1>1 DEF Written, Committing
  <1>4. Part(cols[r])
    BY DEF Filled, Slot
  <1> HIDE DEF u
  <1>5. u \in Users /\ (u \in Known <=> accounts[u] # None)
    BY <1>2, <1>3 DEF Known
  <1>6. /\ Op(r) \in Creators => accounts'[u] = cols[r] /\ accounts'[u] \in Row
        /\ Op(r) \notin Creators =>
              accounts'[u] = Over(cols[r], accounts[u]) /\ accounts'[u] \in Row
    BY <1>1, <1>2, <1>3, <1>4, <1>5, OverRow, Accounted DEF Data
  <1>7. accounts'[u] \in Row /\ accounts'[u] # None
    BY <1>6 DEF Assumptions, NoneAssumption
  <1>8. \A x \in Users \ {u} : accounts'[x] = accounts[x]
    BY <1>1 DEF Data
  <1>9. accounts' \in [Users -> Row \cup {None}]
    BY <1>1, <1>5, <1>7, <1>8 DEF Data
  <1>10. Known' = Known \cup {u}
    BY <1>5, <1>7, <1>8 DEF Known
  <1>11. QED
    BY <1>1, <1>2, <1>3, <1>5, <1>6, <1>8, <1>9, <1>10 DEF u

LEMMA Taken ==
  ASSUME Assumptions, Data, Slots, Filled, NEW r \in Requests, NEW j \in JobSet, Take(r, j)
  PROVE  /\ Slots' /\ Filled' /\ Elsewhere(r)
         /\ pc[r] = "idle" /\ pc'[r] = "load"
  <1>1. /\ pc[r] = "idle" /\ pc' = [pc EXCEPT ![r] = "load"] /\ job' = [job EXCEPT ![r] = j]
        /\ cols' = cols /\ grant' = grant
    BY DEF Take, Open
  <1>2. PICK c \in Snapshot \cup {None} :
          /\ caller' = [caller EXCEPT ![r] = c]
          /\ c # None <=> j.op \notin Public
    <2>1. CASE j.op \in Public
      <3>1. caller[r] = None
        BY <1>1 DEF Filled, Slot, Open
      <3>2. caller' = [caller EXCEPT ![r] = None]
        BY <2>1, <3>1 DEF Take, Slots
      <3>3. QED
        BY <2>1, <3>2
    <2>2. CASE j.op \notin Public
      <3>1. PICK t \in tokens :
              /\ Accepted(t)
              /\ caller' = [caller EXCEPT ![r] =
                   [id |-> t.user, level |-> accounts[t.user].level,
                    staff |-> accounts[t.user].staff]]
        BY <2>2 DEF Take
      <3>2. t.user \in Users /\ accounts[t.user] \in Row
        BY <3>1, Accounted DEF Accepted
      <3>3. [id |-> t.user, level |-> accounts[t.user].level,
             staff |-> accounts[t.user].staff] \in Snapshot
        BY <3>2 DEF Row, Snapshot
      <3>4. QED
        BY <2>2, <3>1, <3>3 DEF Assumptions, NoneAssumption
    <2>3. QED
      BY <2>1, <2>2
  <1>3. PICK n \in Nat : tries' = [tries EXCEPT ![r] = n]
    <2>1. CASE j.op = "signin"
      <3>1. j.sets.name \in Texts
        BY <2>1, TypedName DEF SignIns, Assumptions
      <3>2. _lockout_get(j.sets.name) \in Nat
        BY <3>1 DEF _lockout_get, Data
      <3>3. QED
        BY <2>1, <3>2 DEF Take
    <2>2. CASE j.op # "signin"
      <3>1. tries' = [tries EXCEPT ![r] = tries[r]] /\ tries[r] \in Nat
        BY <2>2 DEF Take, Slots
      <3>2. QED
        BY <3>1
    <2>3. QED
      BY <2>1, <2>2
  <1>4. Slots' /\ Elsewhere(r) /\ pc'[r] = "load" /\ job'[r] = j /\ caller'[r] = c
    BY <1>1, <1>2, <1>3 DEF Slots, Elsewhere, Still
  <1>5. ASSUME NEW q \in Requests PROVE Slot(q)'
    <2>1. CASE q = r
      <3>1. j # None /\ grant[r] = None /\ Part(cols[r])
        BY <1>1 DEF Assumptions, NoneAssumption, Filled, Slot
      <3>2. QED
        BY <2>1, <3>1, <1>1, <1>2, <1>4 DEF Slot, Open, Op
    <2>2. CASE q # r
      BY <2>2, <1>4, StillSlot DEF Filled, Elsewhere
    <2>3. QED
      BY <2>1, <2>2
  <1>6. QED
    BY <1>1, <1>4, <1>5 DEF Filled

LEMMA TypeInit ==
  ASSUME Assumptions, Init
  PROVE  TypeOK
  <1>1. Data
    BY DEF Init, Idle, Data, Assumptions, AccountsAssumption, TokensAssumption
  <1>2. Slots
    BY DEF Init, Idle, Slots
  <1>3. Filled
    <2>1. ASSUME NEW r \in Requests PROVE Slot(r)
      BY EmptyPart DEF Init, Idle, Slot, Open
    <2>2. QED
      BY <2>1 DEF Filled
  <1>4. Marks
    BY DEF Init, Idle, Marks
  <1>5. QED
    BY <1>1, <1>2, <1>3, <1>4, TypeParts

LEMMA TypeNext ==
  ASSUME Assumptions, TypeOK, Tokens, Requested, [Next]_vars
  PROVE  TypeOK'
  <1> USE DEF Data, Marks
  <1>1. Data /\ Slots /\ Filled /\ Marks
    BY TypeParts
  <1> SUFFICES Data' /\ Slots' /\ Filled' /\ Marks'
    <2>1. (TypeOK <=> Data /\ Slots /\ Filled /\ Marks)'
      BY TypeParts, PTL
    <2>2. QED
      BY <2>1
  <1>2. ASSUME Tick \/ UNCHANGED vars PROVE Data' /\ Slots' /\ Filled' /\ Marks'
    <2>1. UNCHANGED <<accounts, tokens, attempts, request, history>> /\ now' \in Nat
      BY <1>1, <1>2 DEF Tick, vars
    <2>2. Slots'
      BY <1>1, <2>1 DEF Slots, request
    <2>3. Filled'
      BY <1>1, <2>1 DEF Filled, Slot, Open, Op, request
    <2>4. QED
      BY <1>1, <2>1, <2>2, <2>3 DEF history
  <1>3. ASSUME NEW r \in Requests, NEW j \in JobSet, Take(r, j)
        PROVE  Data' /\ Slots' /\ Filled' /\ Marks'
    <2>1. Slots' /\ Filled'
      BY <1>1, <1>3, Taken
    <2>2. Data' /\ Marks'
      BY <1>1, <1>3 DEF Take
    <2>3. QED
      BY <2>1, <2>2
  <1>4. ASSUME NEW r \in Requests, Handle(r)
        PROVE  Data' /\ Slots' /\ Filled' /\ Marks'
    <2>1. CASE Promises(r)
      <3>1. PICK u \in Known, root \in Nat \cup {None} : pc[r] = "load" /\ Promise(r, u, root)
        BY <2>1 DEF Promises
      <3>2. Slots' /\ Filled'
        BY <1>1, <3>1, Promised
      <3>3. Data' /\ Marks'
        BY <1>1, <3>1 DEF Promise, history
      <3>4. QED
        BY <3>2, <3>3
    <2>2. CASE Ends(r)
      <3>1. Slots' /\ Filled' /\ now' = now /\ served' = served /\ raced' = raced \ {r}
        BY <1>1, <2>2, Finished, FinishFills DEF Ends
      <3>2. QED
        BY <1>1, <2>2, <3>1 DEF Ends
    <2>3. CASE Issue(r)
      <3>1. Slots' /\ Filled' /\ now' = now /\ served' = served /\ raced' = raced \ {r}
        BY <1>1, <2>3, Finished, FinishFills DEF Issue
      <3>2. tokens' \subseteq Token
        BY <1>1, <2>3, Issues DEF Requested
      <3>3. attempts' \in [Texts -> [count : Nat, expiry : Nat]]
        <4>1. CASE Op(r) = "signin"
          <5>1. job[r].sets.name \in Texts
            BY <1>1, <2>3, <4>1, Here, TypedName DEF Issue, Open, Op, SignIns, Assumptions
          <5>2. attempts' = [attempts EXCEPT ![job[r].sets.name].count = 0]
            BY <2>3, <4>1 DEF Issue
          <5>3. QED
            BY <1>1, <5>1, <5>2
        <4>2. CASE Op(r) # "signin"
          BY <1>1, <2>3, <4>2 DEF Issue
        <4>3. QED
          BY <4>1, <4>2
      <3>4. accounts' = accounts /\ late' = late \ {r} /\ excuses' = excuses
        BY <2>3 DEF Issue
      <3>5. QED
        BY <1>1, <3>1, <3>2, <3>3, <3>4
    <2>4. CASE Load(r)
      <3>1. Slots' /\ Filled'
        BY <1>1, <2>4, Loaded
      <3>2. Data' /\ Marks'
        BY <1>1, <2>4 DEF Load, history
      <3>3. QED
        BY <3>1, <3>2
    <2>5. CASE Commit(r)
      <3>1. Slots' /\ Filled' /\ now' = now /\ served' = served /\ raced' = raced \ {r}
        BY <1>1, <2>5, Finished, FinishFills DEF Commit
      <3>2. accounts' \in [Users -> Row \cup {None}] /\ tokens' = tokens
        BY <1>1, <2>5, Committed DEF Requested
      <3>3. attempts' = attempts /\ late' \subseteq Requests /\ excuses' \subseteq {"self", "lapsed"}
        BY <1>1, <2>5 DEF Commit, Blame
      <3>4. QED
        BY <1>1, <3>1, <3>2, <3>3
    <2>6. QED
      BY <1>1, <1>4, <2>1, <2>2, <2>3, <2>4, <2>5, StepKinds
  <1>5. QED
    BY <1>2, <1>3, <1>4 DEF Next

-----------------------------------------------------------------------------
(* What a step leaves alone *)

\* Steps that write neither accounts nor tokens.
Bare == UNCHANGED <<accounts, tokens, late, excuses>> /\ now' \in Nat /\ now <= now'
Bears(r) == Promises(r) \/ Ends(r) \/ Load(r) \/ \E j \in JobSet : Take(r, j)

LEMMA NextKinds ==
  ASSUME Assumptions, TypeOK, Tokens, [Next]_vars
  PROVE  \/ Tick \/ UNCHANGED vars
         \/ \E r \in Requests : Bears(r) \/ Issue(r) \/ Commit(r)
  <1>1. Data /\ Slots /\ Filled /\ Marks
    BY TypeParts
  <1>2. QED
    BY <1>1, StepKinds DEF Next, Bears

LEMMA BareStep ==
  ASSUME Assumptions, TypeOK, Tick \/ UNCHANGED vars \/ \E r \in Requests : Bears(r)
  PROVE  Bare /\ Known' = Known
  <1>1. now \in Nat
    BY DEF TypeOK
  <1>2. Bare
    <2>1. ASSUME Tick \/ UNCHANGED vars PROVE Bare
      BY <1>1, <2>1 DEF Tick, vars, history, Bare
    <2>2. ASSUME NEW r \in Requests, Promises(r) PROVE Bare
      BY <1>1, <2>2 DEF Promises, Promise, history, Bare
    <2>3. ASSUME NEW r \in Requests, Ends(r) PROVE Bare
      BY <1>1, <2>3 DEF Ends, Finish, Bare
    <2>4. ASSUME NEW r \in Requests, Load(r) PROVE Bare
      BY <1>1, <2>4 DEF Load, history, Bare
    <2>5. ASSUME NEW r \in Requests, NEW j \in JobSet, Take(r, j) PROVE Bare
      BY <1>1, <2>5 DEF Take, Bare
    <2>6. QED
      BY <2>1, <2>2, <2>3, <2>4, <2>5 DEF Bears
  <1>3. QED
    BY <1>2 DEF Bare, Known

\* What a step of r leaves of r, and that it leaves the others alone.
LEMMA Bearing ==
  ASSUME Assumptions, TypeOK, NEW r \in Requests, Bears(r)
  PROVE  /\ Elsewhere(r) /\ pc[r] # "mint"
         /\ \/ Load(r)
            \/ Promises(r)
            \/ Ends(r) /\ pc'[r] = "idle"
            \/ pc[r] = "idle" /\ pc'[r] = "load"
  <1>1. Data /\ Slots /\ Filled /\ Marks
    BY TypeParts
  <1>2. ASSUME Promises(r) PROVE Elsewhere(r) /\ pc[r] = "load"
    BY <1>1, <1>2, Promised DEF Promises
  <1>3. ASSUME Ends(r) PROVE Elsewhere(r) /\ pc[r] \in {"load", "commit"} /\ pc'[r] = "idle"
    BY <1>1, <1>3, Finished DEF Ends
  <1>4. ASSUME Load(r) PROVE Elsewhere(r) /\ pc[r] = "load"
    BY <1>1, <1>4, Loaded
  <1>5. ASSUME NEW j \in JobSet, Take(r, j)
        PROVE  Elsewhere(r) /\ pc[r] = "idle" /\ pc'[r] = "load"
    BY <1>1, <1>5, Taken
  <1>6. CASE Promises(r)
    BY <1>2, <1>6
  <1>7. CASE Ends(r)
    BY <1>3, <1>7
  <1>8. CASE Load(r)
    BY <1>4, <1>8
  <1>9. CASE \E j \in JobSet : Take(r, j)
    BY <1>5, <1>9
  <1>10. QED
    BY <1>6, <1>7, <1>8, <1>9 DEF Bears

LEMMA Issuing ==
  ASSUME Assumptions, TypeOK, NEW r \in Requests, Issue(r)
  PROVE  /\ Elsewhere(r) /\ pc[r] = "mint" /\ pc'[r] = "idle"
         /\ accounts' = accounts /\ Known' = Known /\ now' = now
         /\ late' = late \ {r} /\ raced' = raced \ {r} /\ excuses' = excuses
  <1>1. Slots
    BY TypeParts
  <1>2. QED
    BY <1>1, Finished DEF Issue, Known

LEMMA Settling ==
  ASSUME Assumptions, TypeOK, NEW r \in Requests, Committing(r), Commit(r)
  PROVE  /\ Elsewhere(r) /\ pc[r] = "commit" /\ pc'[r] = "idle"
         /\ now' = now /\ tokens' = tokens /\ raced' = raced \ {r}
         /\ Known \subseteq Known' /\ excuses' = excuses \cup Blame(r)
         /\ late \subseteq late'
         /\ \A u \in Known :
              \/ accounts'[u] = accounts[u]
              \/ /\ Op(r) \notin Creators /\ u = job[r].target
                 /\ accounts'[u] = Over(cols[r], accounts[u])
                 /\ "stamp" \in DOMAIN cols[r] =>
                      \A q \in Requests : pc[q] = "mint" /\ grant[q].user = u => q \in late'
  <1>1. Data /\ Slots /\ Filled
    BY TypeParts
  <1>2. /\ Elsewhere(r) /\ pc'[r] = "idle" /\ now' = now /\ raced' = raced \ {r}
    BY <1>1, Finished DEF Commit
  <1>3. /\ pc[r] = "commit" /\ excuses' = excuses \cup Blame(r)
        /\ late' = late \cup (IF "stamp" \notin DOMAIN cols[r] THEN {}
              ELSE {q \in Requests : pc[q] = "mint" /\ grant[q].user = Written(r)})
    BY DEF Commit
  <1>4. /\ tokens' = tokens /\ Known \subseteq Known'
        /\ \A u \in Users \ {Written(r)} : accounts'[u] = accounts[u]
        /\ Op(r) \in Creators => Written(r) \notin Known
        /\ Op(r) \notin Creators =>
              /\ Written(r) = job[r].target
              /\ accounts'[Written(r)] = Over(cols[r], accounts[Written(r)])
    BY <1>1, Committed
  <1>5. Known \subseteq Users
    BY DEF Known
  <1>6. QED
    BY <1>2, <1>3, <1>4, <1>5

\* What becomes of the columns that the invariant is about.
LEMMA OverColumns ==
  ASSUME TypeOK, NEW r \in Requests, NEW u \in Known
  PROVE  /\ Over(cols[r], accounts[u]).stamp =
              IF "stamp" \in DOMAIN cols[r] THEN cols[r].stamp ELSE accounts[u].stamp
         /\ Over(cols[r], accounts[u]).active =
              IF "active" \in DOMAIN cols[r] THEN cols[r].active ELSE accounts[u].active
         /\ Over(cols[r], accounts[u]).level =
              IF "level" \in DOMAIN cols[r] THEN cols[r].level ELSE accounts[u].level
         /\ "stamp" \in DOMAIN cols[r] => cols[r].stamp \in Nat
  <1>1. Part(cols[r]) /\ accounts[u] \in Row
    BY TypeParts, Accounted DEF Filled, Slot
  <1>2. \A f \in Fields : Over(cols[r], accounts[u])[f] =
            IF f \in DOMAIN cols[r] THEN cols[r][f] ELSE accounts[u][f]
    BY <1>1, OverRow
  <1>3. QED
    BY <1>1, <1>2, PartColumns DEF Fields

-----------------------------------------------------------------------------
(* The invariant is kept *)

LEMMA TokensNext ==
  ASSUME Assumptions, TypeOK, Tokens, Stamped, Requested, [Next]_vars
  PROVE  Tokens' /\ Stamped'
  <1>1. now \in Nat /\ \A u \in Known : accounts[u].stamp \in Nat
    BY TypeParts, Accounted DEF Data
  <1>2. \A t \in tokens : t.iat \in Nat /\ t.root \in Nat
    BY TypeParts DEF Data, Token
  <1>3. ASSUME Tick \/ UNCHANGED vars \/ \E r \in Requests : Bears(r)
        PROVE  Tokens' /\ Stamped'
    <2>1. Bare /\ Known' = Known
      BY <1>3, BareStep
    <2>2. QED
      BY <1>1, <1>2, <2>1 DEF Bare, Tokens, Stamped
  <1>4. ASSUME NEW r \in Requests, Issue(r) PROVE Tokens' /\ Stamped'
    <2>1. /\ pc[r] = "mint" /\ accounts' = accounts /\ Known' = Known /\ now' = now
          /\ Minting(r)
      BY <1>4, Issuing DEF Requested
    <2>2. \A t \in tokens' \ tokens :
             /\ t.user = grant[r].user /\ t.iat = now
             /\ \/ t.root = now
                \/ Op(r) = "token_refresh" /\ t.kind = "access" /\ t.root = grant[r].root
      BY <1>4, <2>1, TypeParts, Issues
    <2>3. \A t \in tokens' \ tokens :
             /\ t.user \in Known /\ t.root <= t.iat /\ t.iat <= now
             /\ t.kind = "refresh" => t.root = t.iat
      BY <1>1, <2>1, <2>2 DEF Minting
    <2>4. QED
      BY <2>1, <2>3 DEF Tokens, Stamped
  <1>5. ASSUME NEW r \in Requests, Commit(r) PROVE Tokens' /\ Stamped'
    <2>1. Committing(r)
      BY DEF Requested
    <2>2. Data /\ Slots /\ Filled
      BY TypeParts
    <2>3. /\ pc[r] = "commit" /\ now' = now /\ tokens' = tokens /\ Known \subseteq Known'
          /\ \A u \in Known :
               \/ accounts'[u] = accounts[u]
               \/ Op(r) \notin Creators /\ accounts'[u] = Over(cols[r], accounts[u])
      BY <1>5, <2>1, Settling
    <2>4. Tokens'
      BY <2>3 DEF Tokens
    <2>5. ASSUME NEW u \in Known PROVE accounts'[u].stamp <= now
      BY <1>1, <2>1, <2>3, OverColumns DEF Committing, Stamped
    <2>6. ASSUME NEW u \in Known', u \notin Known PROVE accounts'[u].stamp <= now
      <3>1. u = Written(r) /\ Written(r) \notin Known
        BY <1>5, <2>1, <2>2, <2>6, Committed
      <3>2. Op(r) \in Creators /\ accounts'[u] = cols[r]
        BY <1>5, <2>1, <2>2, <3>1, Committed
      <3>3. accounts'[u].stamp = 0
        BY <2>1, <2>3, <3>2 DEF Committing
      <3>4. QED
        BY <1>1, <3>3
    <2>7. QED
      BY <2>3, <2>4, <2>5, <2>6 DEF Stamped
  <1>6. QED
    BY <1>3, <1>4, <1>5, NextKinds

LEMMA RequestedNext ==
  ASSUME Assumptions, TypeOK, Tokens, Requested, [Next]_vars
  PROVE  Requested'
  <1>1. now \in Nat /\ \A u \in Known : accounts[u].stamp \in Nat
    BY TypeParts, Accounted DEF Data
  <1>2. Data /\ Slots /\ Filled
    BY TypeParts
  \* A request that the step is not of.
  <1>3. ASSUME NEW q \in Requests, Still(q), now' \in Nat, now <= now', Known \subseteq Known',
               pc[q] = "mint" =>
                  /\ q \in late => q \in late'
                  /\ \/ accounts'[grant[q].user] = accounts[grant[q].user]
                     \/ accounts'[grant[q].user].stamp = accounts[grant[q].user].stamp
                     \/ q \in late'
        PROVE  Minting(q)' /\ Committing(q)' /\ Ruling(q)'
    <2>1. Op(q)' = Op(q)
      BY <1>3 DEF Op, Still
    <2>2. Minting(q) /\ Committing(q) /\ Ruling(q)
      BY DEF Requested
    <2>3. Minting(q)'
      <3>1. SUFFICES ASSUME pc[q] = "mint" PROVE Minting(q)'
        BY <1>3 DEF Minting, Still
      <3>2. Op(q) = "token_refresh" => grant[q].root \in Nat /\ grant[q].root <= now'
        BY <1>1, <1>3, <2>2, <3>1 DEF Minting
      <3>3. grant[q].user \in Known' /\ Op(q) \in Minters
        BY <1>3, <2>2, <3>1 DEF Minting
      <3>4. Op(q) = "token_refresh" /\ q \notin late' =>
               accounts'[grant[q].user].stamp <= grant[q].root
        BY <1>3, <2>2, <3>1 DEF Minting
      <3>5. QED
        BY <1>3, <2>1, <3>2, <3>3, <3>4 DEF Minting, Still
    <2>4. "stamp" \in DOMAIN cols[q] => cols[q].stamp \in Nat
      BY <1>2, PartColumns DEF Filled, Slot
    <2>5. Committing(q)'
      BY <1>1, <1>3, <2>1, <2>2, <2>4 DEF Committing, Still
    <2>6. Ruling(q)'
      BY <1>3, <2>1, <2>2 DEF Ruling, Still
    <2>7. QED
      BY <2>3, <2>5, <2>6
  <1>4. ASSUME NEW q \in Requests, pc'[q] \notin {"mint", "commit"}
        PROVE  Minting(q)' /\ Committing(q)' /\ Ruling(q)'
    BY <1>4 DEF Minting, Committing, Ruling
  <1>5. ASSUME Tick \/ UNCHANGED vars PROVE Requested'
    <2>1. Bare /\ Known' = Known
      BY <1>5, BareStep
    <2>2. \A q \in Requests : Still(q)
      BY <1>5 DEF Tick, vars, request, Still
    <2>3. QED
      BY <1>3, <2>1, <2>2 DEF Bare, Requested
  <1>6. ASSUME NEW r \in Requests, Bears(r) PROVE Requested'
    <2>1. Bare /\ Known' = Known /\ Elsewhere(r)
      BY <1>6, BareStep, Bearing
    <2>2. ASSUME NEW q \in Requests \ {r}
          PROVE  Minting(q)' /\ Committing(q)' /\ Ruling(q)'
      BY <1>3, <2>1 DEF Bare, Elsewhere
    <2>3. Minting(r)' /\ Committing(r)' /\ Ruling(r)'
      <3>1. CASE Load(r)
        <4>1. /\ pc'[r] = "commit" /\ job'[r] = job[r] /\ caller'[r] = caller[r]
              /\ Op(r) \notin Minters
              /\ Op(r) \in Creators => cols'[r] \in Row /\ cols'[r].stamp = 0
              /\ Op(r) \notin Creators =>
                   /\ job[r].target \in Known
                   /\ "stamp" \in DOMAIN cols'[r] => cols'[r].stamp = now
                   /\ {"active", "level"} \cap DOMAIN cols'[r] # {} => Op(r) \in AdminOps
                   /\ job[r].target = caller[r].id => "level" \notin DOMAIN cols'[r]
          BY <1>2, <3>1, Loaded
        <4>2. Op(r)' = Op(r) /\ now' = now
          BY <3>1, <4>1 DEF Load, Op
        <4>3. QED
          BY <1>1, <2>1, <4>1, <4>2 DEF Minting, Committing, Ruling
      <3>2. CASE Promises(r)
        <4>1. PICK u \in Known, root \in Nat \cup {None} :
                /\ pc[r] = "load" /\ Promise(r, u, root)
                /\ \/ Op(r) \in SignIns \cup {"impersonate"}
                   \/ /\ Op(r) = "token_refresh"
                      /\ \E t \in tokens : /\ t.kind = "refresh" /\ t.user = u
                                           /\ t.root = root /\ accounts[u].stamp <= t.iat
          BY <3>2 DEF Promises
        <4>2. /\ pc'[r] = "mint" /\ job'[r] = job[r]
              /\ grant'[r].user = u /\ grant'[r].root = root
          BY <1>2, <4>1, Promised
        <4>3. Op(r)' = Op(r) /\ Op(r) \in Minters
          BY <4>1, <4>2 DEF Op, Minters
        <4>4. Op(r) = "token_refresh" =>
                 root \in Nat /\ root <= now /\ accounts[u].stamp <= root
          <5>1. "token_refresh" \notin SignIns \cup {"impersonate"}
            BY DEF SignIns
          <5>2. ASSUME Op(r) = "token_refresh"
                PROVE  root \in Nat /\ root <= now /\ accounts[u].stamp <= root
            <6>1. PICK t \in tokens : /\ t.kind = "refresh" /\ t.root = root
                                      /\ accounts[u].stamp <= t.iat
              BY <4>1, <5>1, <5>2
            <6>2. t.root = t.iat /\ t.iat <= now /\ t.root \in Nat
              BY <1>2, <6>1 DEF Tokens, Data, Token
            <6>3. QED
              BY <6>1, <6>2
          <5>3. QED
            BY <5>2
        <4>5. QED
          BY <1>1, <2>1, <4>2, <4>3, <4>4 DEF Bare, Minting, Committing, Ruling
      <3>3. CASE pc'[r] \in {"idle", "load"}
        BY <1>4, <3>3
      <3>4. QED
        BY <1>6, <3>1, <3>2, <3>3, Bearing
    <2>4. QED
      BY <2>2, <2>3 DEF Requested
  <1>7. ASSUME NEW r \in Requests, Issue(r) PROVE Requested'
    <2>1. /\ Elsewhere(r) /\ pc'[r] = "idle" /\ accounts' = accounts /\ Known' = Known
          /\ now' = now /\ late' = late \ {r}
      BY <1>7, Issuing
    <2>2. ASSUME NEW q \in Requests PROVE Minting(q)' /\ Committing(q)' /\ Ruling(q)'
      <3>1. CASE q = r
        BY <1>4, <2>1, <3>1
      <3>2. CASE q # r
        BY <1>1, <1>3, <2>1, <3>2 DEF Elsewhere
      <3>3. QED
        BY <3>1, <3>2
    <2>3. QED
      BY <2>2 DEF Requested
  <1>8. ASSUME NEW r \in Requests, Commit(r) PROVE Requested'
    <2>1. Committing(r)
      BY DEF Requested
    <2>2. /\ Elsewhere(r) /\ pc'[r] = "idle" /\ now' = now /\ Known \subseteq Known'
          /\ late \subseteq late'
          /\ \A u \in Known :
              \/ accounts'[u] = accounts[u]
              \/ /\ accounts'[u] = Over(cols[r], accounts[u])
                 /\ "stamp" \in DOMAIN cols[r] =>
                      \A q \in Requests : pc[q] = "mint" /\ grant[q].user = u => q \in late'
      BY <1>8, <2>1, Settling
    <2>3. ASSUME NEW q \in Requests PROVE Minting(q)' /\ Committing(q)' /\ Ruling(q)'
      <3>1. CASE q = r
        BY <1>4, <2>2, <3>1
      <3>2. CASE q # r
        <4>1. ASSUME pc[q] = "mint"
              PROVE  \/ accounts'[grant[q].user] = accounts[grant[q].user]
                     \/ accounts'[grant[q].user].stamp = accounts[grant[q].user].stamp
                     \/ q \in late'
          <5>1. PICK u \in Known : u = grant[q].user
            BY <4>1 DEF Requested, Minting
          <5>2. Over(cols[r], accounts[u]).stamp =
                  IF "stamp" \in DOMAIN cols[r] THEN cols[r].stamp ELSE accounts[u].stamp
            BY OverColumns
          <5>3. QED
            BY <2>2, <4>1, <5>1, <5>2
        <4>2. Still(q)
          BY <2>2, <3>2 DEF Elsewhere
        <4>3. QED
          BY <1>1, <1>3, <2>2, <4>1, <4>2
      <3>3. QED
        BY <3>1, <3>2
    <2>4. QED
      BY <2>3 DEF Requested
  <1>9. QED
    BY <1>5, <1>6, <1>7, <1>8, NextKinds

LEMMA RootedNext ==
  ASSUME Assumptions, TypeOK, Tokens, Stamped, Requested, Issued, Rooted, [Next]_vars
  PROVE  Rooted'
  <1>1. now \in Nat /\ \A u \in Known : accounts[u].stamp \in Nat
    BY TypeParts, Accounted DEF Data
  <1>2. \A t \in tokens : t.iat \in Nat /\ t.root \in Nat /\ t.user \in Known
    BY TypeParts DEF Data, Token, Tokens
  <1>3. ASSUME Tick \/ UNCHANGED vars \/ \E r \in Requests : Bears(r) PROVE Rooted'
    BY <1>3, BareStep DEF Bare, Rooted
  <1>4. ASSUME NEW r \in Requests, Issue(r) PROVE Rooted'
    <2>1. pc[r] = "mint" /\ accounts' = accounts /\ Minting(r)
      BY <1>4, Issuing DEF Requested
    <2>2. ASSUME NEW t \in tokens', t.iat > accounts[t.user].stamp, ~t.late
          PROVE  accounts[t.user].stamp <= t.root
      <3>1. CASE t \in tokens
        BY <2>2, <3>1 DEF Rooted
      <3>2. CASE t \notin tokens
        <4>1. /\ t.user = grant[r].user /\ r \notin late
              /\ \/ t.root = now
                 \/ Op(r) = "token_refresh" /\ t.root = grant[r].root
          BY <1>4, <2>1, <2>2, <3>2, TypeParts, Issues
        <4>2. QED
          BY <2>1, <4>1 DEF Minting, Stamped
      <3>3. QED
        BY <3>1, <3>2
    <2>3. QED
      BY <2>1, <2>2 DEF Rooted
  <1>5. ASSUME NEW r \in Requests, Commit(r) PROVE Rooted'
    <2>1. Committing(r)
      BY DEF Requested
    <2>2. /\ pc[r] = "commit" /\ tokens' = tokens
          /\ \A u \in Known :
               \/ accounts'[u] = accounts[u]
               \/ /\ Op(r) \notin Creators /\ u = job[r].target
                  /\ accounts'[u] = Over(cols[r], accounts[u])
      BY <1>5, <2>1, Settling
    <2>3. ASSUME NEW t \in tokens, t.iat > accounts'[t.user].stamp, ~t.late
          PROVE  accounts'[t.user].stamp <= t.root
      <3>1. CASE accounts'[t.user].stamp = accounts[t.user].stamp
        BY <2>3, <3>1 DEF Rooted
      <3>2. CASE accounts'[t.user].stamp # accounts[t.user].stamp
        <4>1. PICK u \in Known : u = t.user
          BY <1>2
        <4>2. /\ Op(r) \notin Creators /\ u = job[r].target
              /\ accounts'[u] = Over(cols[r], accounts[u])
          BY <2>2, <3>2, <4>1
        <4>3. "stamp" \in DOMAIN cols[r] /\ accounts'[u].stamp = cols[r].stamp
              /\ cols[r].stamp \in Nat
          BY <3>2, <4>1, <4>2, OverColumns
        <4>4. t.iat <= cols[r].stamp
          BY <2>2, <2>3, <4>1, <4>2, <4>3 DEF Issued, Stamps
        <4>5. QED
          BY <1>2, <2>3, <4>1, <4>3, <4>4
      <3>3. QED
        BY <3>1, <3>2
    <2>4. QED
      BY <2>2, <2>3 DEF Rooted
  <1>6. QED
    BY <1>3, <1>4, <1>5, NextKinds

LEMMA IssuedNext ==
  ASSUME Assumptions, TypeOK, Tokens, Requested, Issued, [Next]_vars
  PROVE  Issued'
  <1>1. now \in Nat
    BY DEF TypeOK
  <1>2. Data /\ Slots /\ Filled
    BY TypeParts
  \* Nothing is issued.
  <1>3. ASSUME NEW q \in Requests, NEW t \in tokens, Still(q), Stamps(q)', ~t.late,
               t.user = job'[q].target
        PROVE  t.iat <= cols'[q].stamp
    BY <1>3 DEF Issued, Stamps, Still, Op
  <1>4. ASSUME NEW q \in Requests, pc'[q] # "commit" PROVE ~Stamps(q)'
    BY <1>4 DEF Stamps
  <1>5. ASSUME Tick \/ UNCHANGED vars PROVE Issued'
    <2>1. tokens' = tokens /\ \A q \in Requests : Still(q)
      BY <1>5 DEF Tick, vars, request, Still
    <2>2. QED
      BY <1>3, <2>1 DEF Issued
  <1>6. ASSUME NEW r \in Requests, Bears(r) PROVE Issued'
    <2>1. tokens' = tokens /\ Elsewhere(r)
      BY <1>6, BareStep, Bearing DEF Bare
    <2>2. ASSUME NEW t \in tokens, Stamps(r)' PROVE t.iat <= cols'[r].stamp
      <3>1. CASE Load(r)
        <4>1. job'[r] = job[r]
              /\ (Op(r) \notin Creators /\ "stamp" \in DOMAIN cols'[r] => cols'[r].stamp = now)
          BY <1>2, <3>1, Loaded
        <4>2. cols'[r].stamp = now
          BY <2>2, <4>1 DEF Stamps, Op
        <4>3. QED
          BY <4>2 DEF Tokens
      <3>2. CASE Promises(r)
        BY <1>2, <1>4, <2>2, <3>2, Promised DEF Promises
      <3>3. CASE pc'[r] \in {"idle", "load"}
        BY <1>4, <2>2, <3>3
      <3>4. QED
        BY <1>6, <3>1, <3>2, <3>3, Bearing
    <2>3. ASSUME NEW q \in Requests, NEW t \in tokens, Stamps(q)', ~t.late,
                 t.user = job'[q].target
          PROVE  t.iat <= cols'[q].stamp
      BY <1>3, <2>1, <2>2, <2>3 DEF Elsewhere
    <2>4. QED
      BY <2>1, <2>3 DEF Issued
  <1>7. ASSUME NEW r \in Requests, Issue(r) PROVE Issued'
    <2>1. Elsewhere(r) /\ pc[r] = "mint" /\ pc'[r] = "idle" /\ Minting(r)
      BY <1>7, Issuing DEF Requested
    <2>2. ASSUME NEW q \in Requests, NEW t \in tokens', Stamps(q)', ~t.late,
                 t.user = job'[q].target
          PROVE  t.iat <= cols'[q].stamp
      <3>1. q # r /\ Still(q)
        BY <1>4, <2>1, <2>2 DEF Elsewhere
      <3>2. CASE t \in tokens
        BY <1>3, <2>2, <3>1, <3>2
      <3>3. CASE t \notin tokens
        <4>1. t.user = grant[r].user /\ ~Revoking(grant[r].user)
          BY <1>2, <1>7, <2>1, <2>2, <3>3, Issues
        <4>2. pc[q] = "commit" /\ job[q].target = grant[r].user /\ "stamp" \in DOMAIN cols[q]
          BY <2>2, <3>1, <4>1 DEF Stamps, Still
        <4>3. QED
          BY <4>1, <4>2 DEF Revoking
      <3>4. QED
        BY <3>2, <3>3
    <2>3. QED
      BY <2>2 DEF Issued
  <1>8. ASSUME NEW r \in Requests, Commit(r) PROVE Issued'
    <2>1. Committing(r)
      BY DEF Requested
    <2>2. Elsewhere(r) /\ pc'[r] = "idle" /\ tokens' = tokens
      BY <1>8, <2>1, Settling
    <2>3. ASSUME NEW q \in Requests, NEW t \in tokens, Stamps(q)', ~t.late,
                 t.user = job'[q].target
          PROVE  t.iat <= cols'[q].stamp
      BY <1>3, <1>4, <2>2, <2>3 DEF Elsewhere
    <2>4. QED
      BY <2>2, <2>3 DEF Issued
  <1>9. QED
    BY <1>5, <1>6, <1>7, <1>8, NextKinds

LEMMA OverlapsNext ==
  ASSUME Assumptions, TypeOK, Requested, Tokens, Overlaps, [Next]_vars
  PROVE  Overlaps'
  <1>1. Slots
    BY TypeParts
  <1>2. ASSUME NEW r \in Requests, Finish(r) PROVE Overlaps'
    BY <1>1, <1>2, Finished DEF Overlaps, Open, Elsewhere, Still
  <1>3. ASSUME NEW r \in Requests, Open(r), pc' = [pc EXCEPT ![r] = pc'[r]], raced' = raced
        PROVE  Overlaps'
    BY <1>1, <1>3 DEF Overlaps, Open, Slots
  <1>4. ASSUME Tick \/ UNCHANGED vars PROVE Overlaps'
    BY <1>4 DEF Tick, vars, request, history, Overlaps, Open
  <1>5. ASSUME NEW r \in Requests, Promises(r) \/ Load(r) PROVE Overlaps'
    <2>1. pc[r] = "load" /\ raced' = raced
          /\ \/ pc' = [pc EXCEPT ![r] = "mint"] \/ pc' = [pc EXCEPT ![r] = "commit"]
      BY <1>5 DEF Promises, Promise, Load, history
    <2>2. QED
      BY <1>1, <1>3, <2>1 DEF Open, Slots
  <1>6. ASSUME NEW r \in Requests, NEW j \in JobSet, Take(r, j) PROVE Overlaps'
    <2>1. PICK others \in SUBSET Requests :
            /\ others = {q \in Requests : Open(q)}
            /\ raced' = IF others = {} THEN raced ELSE raced \cup others \cup {r}
      BY <1>6 DEF Take
    <2>2. ~Open(r) /\ pc' = [pc EXCEPT ![r] = "load"]
      BY <1>6 DEF Take
    <2>3. \A q \in Requests \ {r} : Open(q)' = Open(q)
      BY <1>1, <2>2 DEF Open, Slots
    <2>4. ASSUME NEW p \in Requests, NEW q \in Requests, Open(p)', Open(q)', p # q
          PROVE  p \in raced'
      <3>1. CASE p = r
        BY <2>1, <2>3, <2>4, <3>1
      <3>2. CASE q = r
        BY <2>1, <2>3, <2>4, <3>2
      <3>3. CASE p # r /\ q # r
        BY <2>1, <2>3, <2>4, <3>3 DEF Overlaps
      <3>4. QED
        BY <3>1, <3>2, <3>3
    <2>5. QED
      BY <2>4 DEF Overlaps
  <1>7. QED
    BY <1>2, <1>4, <1>5, <1>6, NextKinds DEF Bears, Ends, Issue, Commit

LEMMA NewerNext ==
  ASSUME Assumptions, TypeOK, Tokens, Stamped, Requested, Overlaps, Newer, [Next]_vars
  PROVE  Newer'
  <1>1. now \in Nat
    BY DEF TypeOK
  <1>2. Data /\ Slots /\ Filled
    BY TypeParts
  <1>3. ASSUME NEW q \in Requests, Still(q), accounts' = accounts, q \in raced => q \in raced',
               Stamps(q)', q \notin raced'
        PROVE  accounts'[job'[q].target].stamp <= cols'[q].stamp
    BY <1>3 DEF Newer, Stamps, Still, Op
  <1>4. ASSUME NEW q \in Requests, pc'[q] # "commit" PROVE ~Stamps(q)'
    BY <1>4 DEF Stamps
  <1>5. ASSUME Tick \/ UNCHANGED vars PROVE Newer'
    <2>1. accounts' = accounts /\ raced' = raced /\ \A q \in Requests : Still(q)
      BY <1>5 DEF Tick, vars, request, history, Still
    <2>2. QED
      BY <1>3, <2>1 DEF Newer
  <1>6. ASSUME NEW r \in Requests, Bears(r) PROVE Newer'
    <2>1. accounts' = accounts /\ Elsewhere(r)
      BY <1>6, BareStep, Bearing DEF Bare
    <2>2. \A q \in Requests \ {r} : q \in raced => q \in raced'
      <3>1. ASSUME Ends(r) PROVE raced' = raced \ {r}
        BY <3>1 DEF Ends, Finish
      <3>2. ASSUME Promises(r) \/ Load(r) PROVE raced' = raced
        BY <3>2 DEF Promises, Promise, Load, history
      <3>3. ASSUME NEW j \in JobSet, Take(r, j) PROVE raced \subseteq raced'
        BY <3>3 DEF Take
      <3>4. QED
        BY <1>6, <3>1, <3>2, <3>3 DEF Bears
    <2>3. ASSUME Stamps(r)' PROVE accounts'[job'[r].target].stamp <= cols'[r].stamp
      <3>1. CASE Load(r)
        <4>1. /\ job'[r] = job[r]
              /\ Op(r) \notin Creators =>
                   /\ job[r].target \in Known
                   /\ "stamp" \in DOMAIN cols'[r] => cols'[r].stamp = now
          BY <1>2, <3>1, Loaded
        <4>2. cols'[r].stamp = now /\ job[r].target \in Known
          BY <2>3, <4>1 DEF Stamps, Op
        <4>3. QED
          BY <2>1, <4>1, <4>2 DEF Stamped
      <3>2. CASE Promises(r)
        BY <1>2, <1>4, <2>3, <3>2, Promised DEF Promises
      <3>3. CASE pc'[r] \in {"idle", "load"}
        BY <1>4, <2>3, <3>3
      <3>4. QED
        BY <1>6, <3>1, <3>2, <3>3, Bearing
    <2>4. QED
      BY <1>3, <2>1, <2>2, <2>3 DEF Newer, Elsewhere
  <1>7. ASSUME NEW r \in Requests, Issue(r) PROVE Newer'
    <2>1. Elsewhere(r) /\ pc'[r] = "idle" /\ accounts' = accounts /\ raced' = raced \ {r}
      BY <1>7, Issuing
    <2>2. QED
      BY <1>3, <1>4, <2>1 DEF Newer, Elsewhere
  <1>8. ASSUME NEW r \in Requests, Commit(r) PROVE Newer'
    <2>1. Elsewhere(r) /\ pc[r] = "commit" /\ pc'[r] = "idle" /\ raced' = raced \ {r}
      BY <1>8, Settling DEF Requested
    <2>2. \A q \in Requests \ {r} : Open(q) => q \in raced'
      BY <2>1 DEF Overlaps, Open
    <2>3. ASSUME NEW q \in Requests, Stamps(q)' PROVE q \in raced'
      <3>1. q # r /\ pc'[q] = "commit"
        BY <2>1, <2>3 DEF Stamps
      <3>2. Open(q)
        BY <2>1, <3>1 DEF Elsewhere, Still, Open
      <3>3. QED
        BY <2>2, <3>1, <3>2
    <2>4. QED
      BY <2>3 DEF Newer
  <1>9. QED
    BY <1>5, <1>6, <1>7, <1>8, NextKinds

LEMMA AdminNext ==
  ASSUME Assumptions, TypeOK, Tokens, Requested, AdminRemains, [Next]_vars
  PROVE  AdminRemains'
  <1>1. ASSUME accounts' = accounts, excuses' = excuses PROVE AdminRemains'
    BY <1>1 DEF AdminRemains, IsAdmin, Known
  <1>2. ASSUME Tick \/ UNCHANGED vars \/ \E r \in Requests : Bears(r) PROVE AdminRemains'
    BY <1>1, <1>2, BareStep DEF Bare
  <1>3. ASSUME NEW r \in Requests, Issue(r) PROVE AdminRemains'
    BY <1>1, <1>3, Issuing
  <1>4. ASSUME NEW r \in Requests, Commit(r) PROVE AdminRemains'
    <2>1. Committing(r) /\ Ruling(r)
      BY DEF Requested
    <2>2. /\ pc[r] = "commit" /\ Known \subseteq Known' /\ excuses' = excuses \cup Blame(r)
          /\ \A u \in Known :
               \/ accounts'[u] = accounts[u]
               \/ /\ Op(r) \notin Creators /\ u = job[r].target
                  /\ accounts'[u] = Over(cols[r], accounts[u])
      BY <1>4, <2>1, Settling
    <2>3. CASE excuses' # {}
      BY <2>3 DEF AdminRemains
    <2>4. CASE excuses' = {}
      <3>1. /\ Op(r) \in AdminOps => IsAdmin(caller[r].id)
            /\ ~(SwitchesOff(r) /\ job[r].target = caller[r].id)
            /\ excuses = {}
        BY <2>2, <2>4 DEF Blame
      <3>2. PICK u \in Users : IsAdmin(u) /\ (Op(r) \in AdminOps => u = caller[r].id)
        <4>1. CASE Op(r) \in AdminOps
          BY <3>1, <4>1 DEF IsAdmin, Known
        <4>2. CASE Op(r) \notin AdminOps
          BY <3>1, <4>2 DEF AdminRemains
        <4>3. QED
          BY <4>1, <4>2
      <3>3. u \in Known /\ accounts[u].active /\ accounts[u].level = "admin"
        BY <3>2 DEF IsAdmin
      <3>4. CASE accounts'[u] = accounts[u]
        BY <2>2, <3>3, <3>4 DEF AdminRemains, IsAdmin
      <3>5. CASE /\ Op(r) \notin Creators /\ u = job[r].target
                 /\ accounts'[u] = Over(cols[r], accounts[u])
        <4>1. "level" \notin DOMAIN cols[r] /\ ("active" \in DOMAIN cols[r] => cols[r].active)
          <5>1. CASE Op(r) \in AdminOps
            BY <2>1, <2>2, <3>1, <3>2, <3>5, <5>1 DEF Ruling, SwitchesOff
          <5>2. CASE Op(r) \notin AdminOps
            BY <2>1, <2>2, <3>5, <5>2 DEF Ruling
          <5>3. QED
            BY <5>1, <5>2
        <4>2. accounts'[u].active = IF "active" \in DOMAIN cols[r] THEN cols[r].active
                                    ELSE accounts[u].active
          BY <3>3, <3>5, OverColumns
        <4>3. accounts'[u].level = accounts[u].level
          BY <3>3, <3>5, <4>1, OverColumns
        <4>4. accounts'[u].active
          BY <3>3, <4>1, <4>2, Zenon
        <4>5. QED
          BY <2>2, <3>3, <4>3, <4>4 DEF AdminRemains, IsAdmin
      <3>6. QED
        BY <2>2, <3>3, <3>4, <3>5
    <2>5. QED
      BY <2>3, <2>4
  <1>5. QED
    BY <1>2, <1>3, <1>4, NextKinds

-----------------------------------------------------------------------------
(* The theorems *)

LEMMA InvInit ==
  ASSUME Assumptions
  PROVE  Init => IInv
  <1> SUFFICES ASSUME Init PROVE IInv
    OBVIOUS
  <1>1. TypeOK
    BY TypeInit
  <1>2. /\ now = 1 /\ accounts = InitialAccounts /\ tokens = InitialTokens
        /\ \A r \in Requests : pc[r] = "idle"
    BY DEF Init, Idle
  <1>3. Tokens /\ Stamped /\ AdminRemains
    <2>1. Known = {u \in Users : InitialAccounts[u] # None}
      BY <1>2 DEF Known
    <2>2. Tokens
      <3>1. ASSUME NEW t \in tokens
            PROVE  /\ t \in Token /\ InitialAccounts[t.user] # None /\ t.root <= t.iat
                   /\ t.iat <= 1 /\ (t.kind = "refresh" => t.root = t.iat)
        BY <1>2 DEF Assumptions, TokensAssumption
      <3>2. QED
        BY <1>2, <2>1, <3>1 DEF Tokens, Token
    <2>3. Stamped
      BY <1>2, <2>1 DEF Stamped, Assumptions, AccountsAssumption
    <2>4. AdminRemains
      BY <1>2, <2>1 DEF AdminRemains, IsAdmin, Assumptions, AccountsAssumption
    <2>5. QED
      BY <2>2, <2>3, <2>4
  <1>4. Rooted
    <2>1. ASSUME NEW t \in tokens, t.iat > accounts[t.user].stamp
          PROVE  accounts[t.user].stamp <= t.root
      <3>1. t.user \in Known /\ t.iat <= 1 /\ t.iat \in Nat /\ t.root \in Nat
        BY <1>1, <1>2, <1>3 DEF Tokens, TypeOK, Token
      <3>2. accounts[t.user].stamp \in Nat
        BY <1>1, <3>1, TypeParts, Accounted
      <3>3. QED
        BY <2>1, <3>1, <3>2
    <2>2. QED
      BY <2>1 DEF Rooted
  <1>5. Requested /\ Issued /\ Overlaps /\ Newer
    BY <1>2 DEF Requested, Minting, Committing, Ruling, Issued, Overlaps, Newer, Stamps, Open
  <1>6. QED
    BY <1>1, <1>3, <1>4, <1>5 DEF IInv

LEMMA InvNext ==
  ASSUME Assumptions
  PROVE  IInv /\ [Next]_vars => IInv'
  <1> SUFFICES ASSUME IInv, [Next]_vars PROVE IInv'
    OBVIOUS
  <1>1. TypeOK' /\ Tokens' /\ Stamped' /\ Requested'
    BY TypeNext, TokensNext, RequestedNext DEF IInv
  <1>2. Issued' /\ Rooted' /\ Overlaps' /\ Newer' /\ AdminRemains'
    BY IssuedNext, RootedNext, OverlapsNext, NewerNext, AdminNext DEF IInv
  <1>3. QED
    BY <1>1, <1>2 DEF IInv

\* Rows, tokens and requests keep their types: a row has all its columns, whoever
\* writes some of them, and a request has a caller exactly if it is not public.
THEOREM TypeCorrect ==
  ASSUME Assumptions
  PROVE  Spec => []TypeOK
  <1>1. IInv => TypeOK
    BY DEF IInv
  <1>2. QED
    BY <1>1, InvInit, InvNext, PTL DEF Spec

\* However many administrators demote, delete and switch off each other at once,
\* one remains, unless somebody switched off their own account or a request was
\* carried out for one who was none any more (users.py).
THEOREM Administered ==
  ASSUME Assumptions
  PROVE  Spec => []AdminRemains
  <1>1. IInv => AdminRemains
    BY DEF IInv
  <1>2. QED
    BY <1>1, InvInit, InvNext, PTL DEF Spec

\* Behind a token that is accepted stands a sign-in not older than the last
\* revocation, through any number of refreshes (auth_issuance.py), but for the
\* second of the revocation and a token that was being minted during it.
THEOREM SessionsHaveSignIns ==
  ASSUME Assumptions
  PROVE  Spec => []SignedInSince
  <1>1. ASSUME IInv PROVE SignedInSince
    <2>1. SUFFICES ASSUME NEW t \in tokens, Accepted(t),
                          t.iat # accounts[t.user].stamp, ~t.late
                   PROVE  ~token_session_revoked(t.user, t.root)
      BY DEF SignedInSince
    <2>2. /\ t.user \in Known /\ ~(t.iat < accounts[t.user].stamp)
          /\ t.iat \in Nat /\ t.root \in Nat
      BY <1>1, <2>1 DEF IInv, Tokens, TypeOK, Token, Accepted, token_session_revoked
    <2>3. accounts[t.user].stamp \in Nat
      BY <1>1, <2>2, TypeParts, Accounted DEF IInv
    <2>4. accounts[t.user].stamp <= t.root
      BY <1>1, <2>1, <2>2, <2>3 DEF IInv, Rooted
    <2>5. QED
      BY <2>2, <2>3, <2>4 DEF token_session_revoked
  <1>2. QED
    BY <1>1, InvInit, InvNext, PTL DEF Spec

\* A token that a revocation has killed stays dead through every later step:
\* what a request that no other overlaps commits is not an older stamp (auth.py).
THEOREM DeadStaysDead ==
  ASSUME Assumptions
  PROVE  Spec => RevokedStaysRevoked
  <1> DEFINE Dead == \A t \in tokens :
                token_session_revoked(t.user, t.iat) =>
                   \/ t.iat < accounts'[t.user].stamp
                   \/ \E r \in raced : pc[r] = "commit" /\ pc'[r] = "idle"
  <1>1. ASSUME IInv, [Next]_vars PROVE Dead
    <2>1. SUFFICES ASSUME NEW t \in tokens, t.iat < accounts[t.user].stamp,
                          ~ \E r \in raced : pc[r] = "commit" /\ pc'[r] = "idle"
                   PROVE  t.iat < accounts'[t.user].stamp
      BY DEF token_session_revoked
    <2>2. PICK u \in Known : u = t.user
      BY <1>1 DEF IInv, Tokens
    <2>3. t.iat \in Nat /\ accounts[u].stamp \in Nat
      BY <1>1, <2>2, TypeParts, Accounted DEF IInv, Data, Token
    <2>4. CASE accounts' = accounts
      BY <2>1, <2>4
    <2>5. ASSUME NEW r \in Requests, Commit(r) PROVE t.iat < accounts'[u].stamp
      <3>1. Committing(r)
        BY <1>1 DEF IInv, Requested
      <3>2. /\ pc[r] = "commit" /\ pc'[r] = "idle"
            /\ \/ accounts'[u] = accounts[u]
               \/ /\ Op(r) \notin Creators /\ u = job[r].target
                  /\ accounts'[u] = Over(cols[r], accounts[u])
        BY <1>1, <2>5, <3>1, Settling DEF IInv
      <3>3. r \notin raced
        BY <2>1, <3>2
      <3>4. CASE accounts'[u] = accounts[u]
        BY <2>1, <2>2, <3>4
      <3>5. CASE /\ Op(r) \notin Creators /\ u = job[r].target
                 /\ accounts'[u] = Over(cols[r], accounts[u])
        <4>1. /\ accounts'[u].stamp = IF "stamp" \in DOMAIN cols[r] THEN cols[r].stamp
                                      ELSE accounts[u].stamp
              /\ "stamp" \in DOMAIN cols[r] => cols[r].stamp \in Nat
          BY <1>1, <3>5, OverColumns DEF IInv
        <4>2. "stamp" \in DOMAIN cols[r] => accounts[u].stamp <= cols[r].stamp
          BY <1>1, <3>2, <3>3, <3>5 DEF IInv, Newer, Stamps
        <4>3. QED
          BY <2>1, <2>2, <2>3, <4>1, <4>2
      <3>6. QED
        BY <3>2, <3>4, <3>5
    <2>6. TypeOK /\ Tokens
      BY <1>1 DEF IInv
    <2>7. QED
      BY <1>1, <2>2, <2>4, <2>5, <2>6, NextKinds, BareStep, Issuing DEF Bare
  <1>2. IInv /\ [Next]_vars => [Dead]_vars
    BY <1>1
  <1>3. QED
    BY <1>2, InvInit, InvNext, PTL DEF Spec, RevokedStaysRevoked, Dead

-----------------------------------------------------------------------------
(* The crop calendar: the invariant *)

\* Requests wait for a calendar, and there is none without one that was created.
Born ==
    /\ number \in Nat \cup {None, Unborn}
    /\ pcK \in [Replacers -> {"new", "header", "read", "drop", "insert", "count",
                              "remove", "commit", "done"}]
    /\ number = Unborn => \A r \in Replacers : ~K!Running(r)
    /\ jobK \in [Replacers -> K!Jobs \cup {None}]
    /\ \A r \in Replacers : K!Running(r) => jobK[r] \in K!Jobs
    /\ DOMAIN loaded = Replacers /\ DOMAIN old = Replacers /\ DOMAIN dropped = Replacers

\* What a request that no other overlaps has read of the calendar is what is there.
Undisturbed ==
    \A r \in Replacers \ racedK :
       K!Running(r) =>
          /\ loaded[r] = number
          /\ pcK[r] = "drop" => old[r] = assigned
          /\ pcK[r] \in {"insert", "count", "remove", "commit"} => dropped[r] = assigned

KcInv == Born /\ Undisturbed

LEMMA KcJobs == \A j \in K!Jobs : j.kind = "replace" => j.n \in Nat
  <1>1. \A n \in 0..MaxPeriods : n \in Nat
    BY PeriodsAssumption DEF K!PeriodsAssumption
  <1>2. \A n \in 1..MaxPeriods : n \in Nat
    BY PeriodsAssumption DEF K!PeriodsAssumption
  <1>3. ASSUME NEW j \in K!update_kc PROVE j.n \in Nat
    BY <1>1, <1>3 DEF K!update_kc
  <1>4. ASSUME NEW j \in K!_apply_kc_periods_change PROVE j.n \in Nat
    BY <1>2, <1>4 DEF K!_apply_kc_periods_change
  <1>5. \A j \in K!delete_kc : j.kind # "replace"
    BY DEF K!delete_kc
  <1>6. QED
    BY <1>3, <1>4, <1>5 DEF K!Jobs

LEMMA KcInit == K!Init => KcInv
  BY DEF K!Init, KcInv, Born, Undisturbed, K!Running

LEMMA KcStep == KcInv /\ [K!Next]_(K!vars) => KcInv'
  <1> SUFFICES ASSUME KcInv, [K!Next]_(K!vars) PROVE KcInv'
    OBVIOUS
  <1> USE DEF K!Goto, K!Running, K!table, K!local
  <1>0. Born
    BY DEF KcInv
  <1>1. ASSUME NEW n \in K!create_kc, K!Create(n) PROVE KcInv'
    <2>1. n \in Nat
      BY <1>1, PeriodsAssumption DEF K!PeriodsAssumption, K!create_kc
    <2>2. \A r \in Replacers : ~K!Running(r)
      BY <1>0, <1>1 DEF K!Create, Born
    <2>3. QED
      BY <1>0, <1>1, <2>1, <2>2, UnbornAssumption
      DEF K!Create, KcInv, Born, Undisturbed, K!UnbornAssumption
  <1>2. ASSUME NEW r \in Replacers, NEW j \in K!Jobs, K!Load(r, j) PROVE KcInv'
    <2>1. Born'
      BY <1>0, <1>2 DEF K!Load, Born
    <2>2. Undisturbed'
      BY <1>0, <1>2 DEF K!Load, KcInv, Born, Undisturbed
    <2>3. QED
      BY <2>1, <2>2 DEF KcInv
  \* An answer that leaves everything as it was.
  <1>3. ASSUME NEW r \in Replacers, K!Running(r), K!End(r) PROVE KcInv'
    <2>1. Born'
      BY <1>0, <1>3 DEF K!End, Born
    <2>2. Undisturbed'
      BY <1>0, <1>3 DEF K!End, KcInv, Born, Undisturbed
    <2>3. QED
      BY <2>1, <2>2 DEF KcInv
  <1>4. ASSUME NEW r \in Replacers, K!Header(r) PROVE KcInv'
    <2>1. CASE K!End(r)
      BY <1>3, <1>4, <2>1 DEF K!Header
    <2>2. CASE ~K!End(r)
      <3>1. Born'
        BY <1>0, <1>4, <2>2 DEF K!Header, Born
      <3>2. Undisturbed'
        BY <1>0, <1>4, <2>2 DEF K!Header, KcInv, Born, Undisturbed
      <3>3. QED
        BY <3>1, <3>2 DEF KcInv
    <2>3. QED
      BY <2>1, <2>2
  <1>5. ASSUME NEW r \in Replacers, K!ReadOld(r) PROVE KcInv'
    <2>1. Born'
      BY <1>0, <1>5 DEF K!ReadOld, Born
    <2>2. Undisturbed'
      BY <1>0, <1>5 DEF K!ReadOld, KcInv, Born, Undisturbed
    <2>3. QED
      BY <2>1, <2>2 DEF KcInv
  <1>6. ASSUME NEW r \in Replacers, K!Drop(r) PROVE KcInv'
    <2>1. Born'
      BY <1>0, <1>6 DEF K!Drop, Born
    <2>2. Undisturbed'
      BY <1>0, <1>6 DEF K!Drop, KcInv, Born, Undisturbed
    <2>3. QED
      BY <2>1, <2>2 DEF KcInv
  <1>7. ASSUME NEW r \in Replacers, K!Insert(r) \/ K!Count(r) \/ K!Remove(r) PROVE KcInv'
    <2>1. CASE K!End(r)
      BY <1>3, <1>7, <2>1 DEF K!Insert, K!Count, K!Remove
    <2>2. CASE ~K!End(r)
      <3>1. Born'
        BY <1>0, <1>7, <2>2 DEF K!Insert, K!Count, K!Remove, Born
      <3>2. Undisturbed'
        BY <1>0, <1>7, <2>2 DEF K!Insert, K!Count, K!Remove, KcInv, Born, Undisturbed
      <3>3. QED
        BY <3>1, <3>2 DEF KcInv
    <2>3. QED
      BY <2>1, <2>2
  \* A commit spoils what every other open request has read.
  <1>8. ASSUME NEW r \in Replacers, K!Commit(r) PROVE KcInv'
    <2>1. jobK[r] \in K!Jobs /\ (K!Replaces(r) => jobK[r].n \in Nat)
      BY <1>0, <1>8, KcJobs DEF K!Commit, K!Replaces, Born
    <2>2. number' \in Nat \cup {None, Unborn} /\ number' # Unborn
      BY <1>0, <1>8, <2>1, UnbornAssumption DEF K!Commit, Born, K!UnbornAssumption
    <2>3. Born'
      BY <1>0, <1>8, <2>2 DEF K!Commit, Born
    <2>4. Undisturbed'
      BY <1>0, <1>8 DEF K!Commit, Undisturbed, Born
    <2>5. QED
      BY <2>3, <2>4 DEF KcInv
  <1>9. ASSUME NEW r \in Replacers, K!Victim(r) PROVE KcInv'
    <2>1. K!Running(r)
      BY <1>9 DEF K!Victim, K!Deadlocked, K!WaitsFor
    <2>2. QED
      BY <1>3, <1>9, <2>1 DEF K!Victim
  <1>10. CASE UNCHANGED K!vars
    BY <1>10 DEF K!vars, KcInv, Born, Undisturbed
  <1>11. QED
    BY <1>1, <1>2, <1>4, <1>5, <1>6, <1>7, <1>8, <1>9, <1>10 DEF K!Next, K!Handle

\* A request that no other overlapped leaves, when it replaces the stages of a crop calendar,
\* exactly its own stages, and a header that counts them (kc.py, admin_kc.py, and the
\* approval of an affirmation), whatever was refused, deleted or broken up before.
THEOREM StagesAreReplaced == K!Spec => ReplacedUnlessRaced
  <1> DEFINE Left == \A r \in Replacers \ racedK :
                pcK[r] = "commit" /\ pcK'[r] = "done" /\ K!Replaces(r) =>
                   assigned' = added[r] /\ number' = jobK[r].n
  <1>1. ASSUME KcInv, [K!Next]_(K!vars) PROVE Left
    <2> SUFFICES ASSUME NEW r \in Replacers \ racedK, pcK[r] = "commit", pcK'[r] = "done",
                        K!Replaces(r)
                 PROVE  assigned' = added[r] /\ number' = jobK[r].n
      OBVIOUS
    <2>1. K!Commit(r) \/ K!Victim(r)
      BY <1>1
      DEF K!Next, K!vars, K!Handle, K!Create, K!Load, K!Header, K!ReadOld, K!Drop, K!Insert,
          K!Count, K!Remove, K!Commit, K!Victim, K!End, K!Goto, KcInv, Born
    <2>2. ~K!Victim(r)
      BY DEF K!Victim, K!Deadlocked, K!WaitsFor
    <2>3. loaded[r] = number /\ dropped[r] = assigned
      BY <1>1 DEF KcInv, Undisturbed, K!Running
    <2>4. QED
      BY <2>1, <2>2, <2>3 DEF K!Commit
  <1>2. QED
    BY <1>1, KcInit, KcStep, PTL DEF K!Spec, ReplacedUnlessRaced, K!ReplacedUnlessRaced

-----------------------------------------------------------------------------
(* The affirmations: the invariant *)

\* Where a request is, what it was sent for, and the columns of the rows.
Filed ==
    /\ pcA \in [Requests -> A!Places]
    /\ jobA \in [Requests -> A!Jobs \cup {None}]
    /\ \A r \in Requests : pcA[r] # "new" => jobA[r] \in A!Jobs
    /\ DOMAIN writes = Requests /\ DOMAIN rows = A!Rows
    /\ \A x \in A!Rows : rows[x] = None \/ DOMAIN rows[x] = A!Columns(x)

\* Nothing is written before it was read, nor by a rejection.
Unread ==
    \A r \in Requests :
       /\ pcA[r] \in {"new", "read"} => DOMAIN writes[r] = {}
       /\ pcA[r] \notin {"new", "done"} /\ jobA[r].kind = "reject" =>
             pcA[r] \in {"stamp", "commit"} /\ DOMAIN writes[r] = {}

Holder(r) == pcA[r] \in {"stamp", "commit"} /\ DOMAIN writes[r] # {}

\* An UPDATE that was made holds its row, which is there, alone.
Held ==
    \A r \in Requests : Holder(r) =>
       /\ rows[A!Asked(r).row] # None
       /\ \A q \in Requests : Holder(q) /\ A!Asked(q).row = A!Asked(r).row => q = r

\* The row of an approval that nobody overlapped holds what was asked for, but for the
\* columns that are still to be written.
Agrees(r) ==
    LET row == rows[A!Asked(r).row] fields == A!Asked(r).fields IN
    \A f \in DOMAIN fields :
       /\ f \in DOMAIN row
       /\ IF f \in DOMAIN writes[r] THEN writes[r][f] = fields[f] ELSE row[f] = fields[f]
Pending ==
    \A r \in Requests \ racedA :
       /\ pcA[r] \in {"write", "stamp", "commit"} /\ jobA[r].kind = "approve"
       /\ rows[A!Asked(r).row] # None
       => Agrees(r)

AffInv == Filed /\ Unread /\ Held /\ Pending

LEMMA AskedRow ==
  ASSUME Filed, NEW r \in Requests, pcA[r] # "new"
  PROVE  A!Asked(r).row \in A!Rows /\ jobA[r].kind \in {"approve", "reject", "patch"}
  BY PayloadsAssumption
  DEF Filed, A!Jobs, A!Decisions, A!Asked, A!PayloadsAssumption

LEMMA AffInit == A!Init => AffInv
  BY RowsAssumption
  DEF A!Init, A!RowsAssumption, AffInv, Filed, Unread, Held, Holder, Pending, A!Places, A!NoWrites

LEMMA AffStep == AffInv /\ [A!Next]_(A!vars) => AffInv'
  <1> SUFFICES ASSUME AffInv, [A!Next]_(A!vars) PROVE AffInv'
    OBVIOUS
  <1> USE DEF A!Goto
  <1>0. Filed /\ Unread /\ Held /\ Pending
    BY DEF AffInv
  <1>1. ASSUME NEW a \in Affs, A!Create(a) PROVE AffInv'
    BY <1>1 DEF A!Create, AffInv, Filed, Unread, Held, Holder, Pending, Agrees, A!Asked
  <1>2. ASSUME NEW r \in Requests, NEW j \in A!Jobs, A!Load(r, j) PROVE AffInv'
    <2>1. /\ pcA' = [pcA EXCEPT ![r] = pcA'[r]] /\ pcA'[r] \in {"read", "stamp", "done"}
          /\ pcA'[r] = "stamp" => j.kind = "reject"
          /\ pcA'[r] = "read" => j.kind # "reject"
          /\ jobA' = [jobA EXCEPT ![r] = j] /\ UNCHANGED <<rows, status, writes, racedA>>
      BY <1>0, <1>2 DEF A!Load, Filed
    <2>2. Filed'
      BY <1>0, <2>1 DEF Filed, A!Places
    <2>3. DOMAIN writes[r] = {}
      BY <1>0, <1>2 DEF A!Load, Unread
    <2>4. \A q \in Requests \ {r} : pcA'[q] = pcA[q] /\ jobA'[q] = jobA[q]
      BY <1>0, <2>1 DEF Filed
    <2>5. jobA'[r] = j /\ pcA'[r] \in {"read", "stamp", "done"}
      BY <1>0, <2>1 DEF Filed
    <2>6. Unread'
      BY <1>0, <2>1, <2>3, <2>4, <2>5 DEF Unread
    <2>7. Held'
      BY <1>0, <2>1, <2>3, <2>4, <2>5 DEF Held, Holder, A!Asked
    <2>8. Pending'
      <3>1. \A q \in Requests \ {r} : Agrees(q) => Agrees(q)'
        BY <2>1, <2>4 DEF Agrees, A!Asked
      <3>2. pcA'[r] = "stamp" => jobA'[r].kind # "approve"
        BY <2>1, <2>5
      <3>3. QED
        BY <1>0, <2>1, <2>4, <2>5, <3>1, <3>2 DEF Pending, A!Asked
    <2>9. QED
      BY <2>2, <2>6, <2>7, <2>8 DEF AffInv
  \* An answer that leaves everything as it was.
  <1>3. ASSUME NEW r \in Requests, pcA[r] # "new", A!End(r) PROVE AffInv'
    BY <1>0, <1>3
    DEF A!End, AffInv, Filed, Unread, Held, Holder, Pending, Agrees, A!Asked, A!Places
  <1>4. ASSUME NEW r \in Requests, A!Read(r) PROVE AffInv'
    <2> DEFINE x == A!Asked(r).row
               fields == A!Asked(r).fields
    <2>1. x \in A!Rows /\ jobA[r].kind \in {"approve", "reject", "patch"} /\ jobA[r] \in A!Jobs
      BY <1>0, <1>4, AskedRow DEF A!Read, Filed
    <2>2. CASE A!End(r)
      BY <1>3, <1>4, <2>2 DEF A!Read
    <2>3. CASE ~A!End(r)
      <3>1. /\ A!Nothing(r) \/ (A!Valid(A!Asked(r)) /\ A!Found(r))
            /\ writes' = [writes EXCEPT ![r] = IF A!Nothing(r) THEN A!NoWrites
                                               ELSE A!Dirty(rows[x], fields)]
            /\ pcA' = [pcA EXCEPT ![r] = IF DOMAIN writes'[r] # {} THEN "write"
                                         ELSE IF jobA[r].kind = "approve" THEN "stamp"
                                         ELSE "commit"]
            /\ UNCHANGED <<rows, status, jobA, racedA>>
        BY <1>4, <2>3 DEF A!Read
      <3>2. Filed'
        <4>1. pcA'[r] \in A!Places /\ pcA[r] # "new"
          BY <1>0, <1>4, <3>1 DEF Filed, A!Places, A!Read
        <4>2. pcA' = [pcA EXCEPT ![r] = pcA'[r]]
          BY <1>0, <3>1 DEF Filed
        <4>3. DOMAIN writes' = Requests /\ pcA' \in [Requests -> A!Places]
          BY <1>0, <3>1, <4>1, <4>2 DEF Filed
        <4>4. QED
          BY <1>0, <3>1, <4>1, <4>2, <4>3 DEF Filed
      <3>3. jobA[r].kind # "reject"
        BY <1>0, <1>4 DEF A!Read, Unread
      <3>4. Unread'
        BY <1>0, <3>1, <3>3 DEF Unread, Filed
      <3>5. Held'
        BY <1>0, <3>1 DEF Held, Holder, Filed, A!Asked
      <3>6. Agrees(r)'
        <4>1. CASE A!Nothing(r)
          BY <1>0, <3>1, <4>1 DEF A!Nothing, Agrees, Filed, A!Asked
        <4>2. CASE ~A!Nothing(r)
          <5>1. rows[x] # None /\ DOMAIN fields \subseteq DOMAIN rows[x]
            BY <1>0, <2>1, <3>1, <4>2 DEF A!Valid, A!Found, Filed
          <5>2. writes'[r] = [f \in {f \in DOMAIN fields : fields[f] # rows[x][f]} |-> fields[f]]
            BY <1>0, <3>1, <4>2 DEF A!Dirty, A!Restriction, Filed
          <5>3. QED
            BY <1>0, <3>1, <5>1, <5>2 DEF Agrees, Filed, A!Asked
        <4>3. QED
          BY <4>1, <4>2
      <3>7. Pending'
        <4>1. \A q \in Requests \ {r} : pcA'[q] = pcA[q] /\ writes'[q] = writes[q]
          BY <3>1
        <4>2. \A q \in Requests \ {r} : Agrees(q) => Agrees(q)'
          BY <3>1, <4>1 DEF Agrees, A!Asked
        <4>3. QED
          BY <1>0, <3>1, <3>6, <4>1, <4>2 DEF Pending, A!Asked
      <3>8. QED
        BY <3>2, <3>4, <3>5, <3>7 DEF AffInv
    <2>4. QED
      BY <2>2, <2>3
  <1>5. ASSUME NEW r \in Requests, A!Write(r) PROVE AffInv'
    <2>1. CASE A!End(r)
      BY <1>3, <1>5, <2>1 DEF A!Write
    <2>2. CASE ~A!End(r)
      <3>1. /\ pcA[r] = "write" /\ rows[A!Asked(r).row] # None
            /\ \A q \in Requests : ~(Holder(q) /\ A!Asked(q).row = A!Asked(r).row)
            /\ pcA' = [pcA EXCEPT ![r] = pcA'[r]] /\ pcA'[r] \in {"stamp", "commit"}
            /\ UNCHANGED <<rows, status, jobA, writes, racedA>>
        BY <1>0, <1>5, <2>2 DEF A!Write, A!HoldsRow, Holder, Filed
      <3>2. Filed'
        BY <1>0, <3>1 DEF Filed, A!Places
      <3>3. Unread'
        BY <1>0, <3>1 DEF Unread, Filed
      <3>4. Held'
        BY <1>0, <3>1 DEF Held, Holder, Filed, A!Asked
      <3>5. Pending'
        BY <1>0, <3>1 DEF Pending, Agrees, Filed, A!Asked
      <3>6. QED
        BY <3>2, <3>3, <3>4, <3>5 DEF AffInv
    <2>3. QED
      BY <2>1, <2>2
  <1>6. ASSUME NEW r \in Requests, A!Stamp(r) PROVE AffInv'
    BY <1>0, <1>6
    DEF A!Stamp, AffInv, Filed, Unread, Held, Holder, Pending, Agrees, A!Asked, A!Places
  \* Who writes a row held it alone, and is noted by all who have it in hand.
  <1>7. ASSUME NEW r \in Requests, A!Commit(r) PROVE AffInv'
    <2> DEFINE x == A!Asked(r).row
    <2>1. x \in A!Rows /\ pcA[r] = "commit"
      BY <1>0, <1>7, AskedRow DEF A!Commit
    <2>2. Filed'
      <3>1. pcA' \in [Requests -> A!Places] /\ \A q \in Requests : pcA'[q] # "new" => pcA[q] # "new"
        BY <1>0, <1>7, <2>1 DEF A!Commit, Filed, A!Places
      <3>2. DOMAIN rows' = A!Rows /\ \A y \in A!Rows :
               rows'[y] = rows[y] \/ rows'[y] = A!Overwrite(rows[y], writes[r])
        BY <1>0, <1>7, <2>1 DEF A!Commit, Filed
      <3>3. DOMAIN writes[r] # {} => rows[x] # None
        BY <1>0, <2>1 DEF Held, Holder
      <3>4. \A y \in A!Rows : rows'[y] = None \/ DOMAIN rows'[y] = A!Columns(y)
        BY <1>0, <1>7, <2>1, <3>2, <3>3 DEF A!Commit, A!Overwrite, Filed
      <3>5. QED
        BY <1>0, <1>7, <3>1, <3>2, <3>4 DEF A!Commit, Filed
    <2>3. Unread'
      BY <1>0, <1>7 DEF A!Commit, Unread, Filed
    <2>4. Held'
      <3> SUFFICES ASSUME NEW q \in Requests, Holder(q)'
                   PROVE  /\ rows'[A!Asked(q).row] # None
                          /\ \A p \in Requests : Holder(p)' /\ A!Asked(p).row = A!Asked(q).row
                                => p = q
        BY <1>7 DEF A!Commit, Held, A!Asked
      <3>1. q # r /\ Holder(q)
        BY <1>0, <1>7 DEF A!Commit, Holder, Filed
      <3>2. rows'[A!Asked(q).row] = rows[A!Asked(q).row]
        <4>1. DOMAIN writes[r] = {} \/ Holder(r)
          BY <2>1 DEF Holder
        <4>2. DOMAIN writes[r] = {} \/ A!Asked(q).row # x
          BY <1>0, <3>1, <4>1 DEF Held
        <4>3. QED
          BY <1>0, <1>7, <4>2 DEF A!Commit, Filed
      <3>3. \A p \in Requests : Holder(p)' => Holder(p)
        BY <1>0, <1>7 DEF A!Commit, Holder, Filed
      <3>4. QED
        BY <1>0, <3>1, <3>2, <3>3 DEF Held
    <2>5. Pending'
      <3> SUFFICES ASSUME NEW q \in Requests \ racedA', pcA'[q] \in {"write", "stamp", "commit"},
                          jobA[q].kind = "approve", rows'[A!Asked(q).row] # None
                   PROVE  Agrees(q)'
        BY <1>7 DEF A!Commit, Pending, A!Asked
      <3>1. q # r /\ pcA'[q] = pcA[q] /\ q \in Requests \ racedA
        BY <1>0, <1>7 DEF A!Commit, Filed
      <3>2. rows'[A!Asked(q).row] = rows[A!Asked(q).row]
        <4>1. DOMAIN writes[r] = {} \/ A!Asked(q).row # x
          BY <1>7, <3>1 DEF A!Commit
        <4>2. QED
          BY <1>0, <1>7, <4>1 DEF A!Commit, Filed
      <3>3. Agrees(q)
        BY <1>0, <3>1, <3>2 DEF Pending
      <3>4. jobA' = jobA /\ writes' = writes
        BY <1>7 DEF A!Commit
      <3>5. QED
        BY <3>2, <3>3, <3>4 DEF Agrees, A!Asked
    <2>6. QED
      BY <2>2, <2>3, <2>4, <2>5 DEF AffInv
  <1>8. ASSUME NEW r \in Requests, A!Die(r) PROVE AffInv'
    BY <1>3, <1>8 DEF A!Die
  <1>9. ASSUME NEW z \in Zones, A!Delete(z) PROVE AffInv'
    <2>1. /\ rows' = [rows EXCEPT ![z] = None] /\ UNCHANGED <<status, pcA, jobA, writes, racedA>>
          /\ \A q \in Requests : ~(Holder(q) /\ A!Asked(q).row = z)
      BY <1>9 DEF A!Delete, A!HoldsRow, Holder
    <2>2. Filed'
      BY <1>0, <2>1 DEF Filed
    <2>3. Unread'
      BY <1>0, <2>1 DEF Unread
    <2>4. Held'
      BY <1>0, <2>1 DEF Held, Holder, A!Asked, Filed
    <2>5. Pending'
      BY <1>0, <2>1 DEF Pending, Agrees, A!Asked, Filed
    <2>6. QED
      BY <2>2, <2>3, <2>4, <2>5 DEF AffInv
  <1>10. CASE UNCHANGED A!vars
    BY <1>0, <1>10
    DEF A!vars, AffInv, Filed, Unread, Held, Holder, Pending, Agrees, A!Asked
  <1>11. QED
    BY <1>1, <1>2, <1>4, <1>5, <1>6, <1>7, <1>8, <1>9, <1>10 DEF A!Next, A!Handle

\* An approval that no other request overlapped on its row leaves in that row every column
\* that was asked for, zeros included, whatever staff, other affirmations, deaths and
\* deletions did before (manager_affirmations.py: _apply_affirmation).
THEOREM ApprovalIsApplied == A!Spec => ApprovedIsApplied
  <1> DEFINE Applied == \A r \in Requests \ racedA :
                A!Commit(r) /\ jobA[r].kind = "approve" /\ rows'[A!Asked(r).row] # None =>
                   \A f \in DOMAIN A!Asked(r).fields :
                      rows'[A!Asked(r).row][f] = A!Asked(r).fields[f]
  <1>1. ASSUME AffInv PROVE Applied
    <2> SUFFICES ASSUME NEW r \in Requests \ racedA, A!Commit(r), jobA[r].kind = "approve",
                        rows'[A!Asked(r).row] # None, NEW f \in DOMAIN A!Asked(r).fields
                 PROVE  rows'[A!Asked(r).row][f] = A!Asked(r).fields[f]
      OBVIOUS
    <2>1. Filed /\ Held /\ Pending /\ pcA[r] = "commit"
      BY <1>1 DEF AffInv, A!Commit
    <2>2. A!Asked(r).row \in A!Rows
      BY <2>1, AskedRow
    <2>3. rows[A!Asked(r).row] # None
      <3>1. DOMAIN writes[r] # {} => Holder(r)
        BY <2>1 DEF Holder
      <3>2. QED
        BY <2>1, <3>1 DEF Held, A!Commit
    <2>4. Agrees(r)
      BY <2>1, <2>3 DEF Pending
    <2>5. CASE DOMAIN writes[r] = {}
      BY <2>4, <2>5 DEF Agrees, A!Commit
    <2>6. CASE DOMAIN writes[r] # {}
      <3>1. rows'[A!Asked(r).row] = A!Overwrite(rows[A!Asked(r).row], writes[r])
        BY <2>1, <2>2, <2>6 DEF A!Commit, Filed
      <3>2. QED
        BY <2>4, <3>1 DEF Agrees, A!Overwrite
    <2>7. QED
      BY <2>5, <2>6
  <1>2. QED
    BY <1>1, AffInit, AffStep, PTL DEF A!Spec, ApprovedIsApplied, A!ApprovedIsApplied

-----------------------------------------------------------------------------
(* A schema that is behind the code *)

Probed ==
    /\ req \in [Processes -> P!Jobs \cup {None}] /\ due \in [Processes -> SUBSET P!Features]
    /\ _table_cache \in [Processes -> [P!Features -> {"unknown", "present", "absent"}]]
    /\ DOMAIN answer = Processes

\* What a process takes to be there is there: nothing takes a table or a column away.
PresentIsThere ==
    \A p \in Processes, f \in P!Features : _table_cache[p][f] = "present" => f \subseteq schema

ShimInv == Probed /\ PresentIsThere /\ P!DegradesOnly /\ P!AcceptedIsStored

LEMMA JobsAskAndName ==
  ASSUME NEW j \in P!Jobs
  PROVE  j.handler.asks \subseteq P!Features /\ j.handler.names \subseteq OldTables
  <1>1. PICK h, c : /\ j = P!Request(h, c)
                    /\ h \in P!Handlers
    BY DEF P!Jobs, P!Handlers
  <1>2. j.handler = h
    BY <1>1 DEF P!Request
  <1>3. /\ h.asks \subseteq P!Features
        /\ h.names \in {{}, {"device"}, {"sector", "zone.sector_id"}}
    BY <1>1 DEF P!Handlers, P!Handler, P!Features, P!list_devices, P!create_device, P!list_sensor_groups, P!create_sensor_group,
        P!get_calibration, P!upsert_calibration, P!load_calibrations, P!list_alert_events,
        P!list_irrigation_decisions, P!list_sectors, P!save_sector, P!_sector_geometry,
        P!list_installations, P!put_map_preferences
  <1>4. QED
    BY <1>2, <1>3, TablesAssumption DEF P!TablesAssumption

LEMMA ShimSchemaGrows ==
  ASSUME ShimInv, [P!Next]_(P!vars) PROVE schema \subseteq schema'
  BY DEF P!Next, P!vars, P!requesting, P!Make, P!Migrate, P!Begin, P!Ask, P!Refuse, P!Degrade,
         P!Execute, P!Undefined, P!Restart, P!Answer

LEMMA ShimStep == ShimInv /\ [P!Next]_(P!vars) => ShimInv'
  <1> SUFFICES ASSUME ShimInv, [P!Next]_(P!vars) PROVE ShimInv'
    OBVIOUS
  <1>0. schema \subseteq schema'
    BY ShimSchemaGrows
  <1>1. ASSUME UNCHANGED P!requesting PROVE ShimInv'
    BY <1>0, <1>1 DEF ShimInv, Probed, PresentIsThere, P!DegradesOnly, P!AcceptedIsStored, P!requesting, P!bounds
  <1>2. ASSUME NEW p \in Processes, NEW j \in P!Jobs, P!Begin(p, j) PROVE ShimInv'
    <2>1. j.handler.asks \subseteq P!Features
      BY JobsAskAndName
    <2>2. Probed'
      BY <1>2, <2>1 DEF P!Begin, ShimInv, Probed
    <2>3. PresentIsThere'
      BY <1>2 DEF P!Begin, ShimInv, PresentIsThere
    <2>4. \A q \in Processes : answer'[q] = answer[q] \/ answer'[q] = None
      BY <1>2 DEF P!Begin, ShimInv, Probed
    <2>5. QED
      BY <2>2, <2>3, <2>4 DEF ShimInv, P!DegradesOnly, P!AcceptedIsStored
  <1>3. ASSUME NEW p \in Processes, NEW f \in P!Features, P!Ask(p, f) PROVE ShimInv'
    <2>1. /\ due' = [due EXCEPT ![p] = @ \ {f}] /\ UNCHANGED <<schema, req, answer>>
      BY <1>3 DEF P!Ask
    <2>2. PICK a \in {"unknown", "present", "absent"} :
             /\ _table_cache' = [_table_cache EXCEPT ![p][f] = a]
             /\ a = "present" => f \subseteq schema
      <3>1. CASE _table_cache' = _table_cache
        <4>1. _table_cache' = [_table_cache EXCEPT ![p][f] = _table_cache[p][f]]
          BY <3>1 DEF ShimInv, Probed
        <4>2. /\ _table_cache[p][f] \in {"unknown", "present", "absent"}
              /\ _table_cache[p][f] = "present" => f \subseteq schema
          BY DEF ShimInv, Probed, PresentIsThere
        <4>3. QED
          BY <4>1, <4>2
      <3>2. CASE _table_cache' = [_table_cache EXCEPT ![p][f] = P!_probe(f)]
        BY <3>2 DEF P!_probe
      <3>3. CASE _table_cache' = [_table_cache EXCEPT ![p][f] = "absent"]
        BY <3>3
      <3>4. QED
        BY <1>3, <3>1, <3>2, <3>3 DEF P!Ask, P!table_available
    <2>3. Probed'
      BY <2>1, <2>2 DEF ShimInv, Probed
    <2>4. PresentIsThere'
      BY <2>1, <2>2 DEF ShimInv, Probed, PresentIsThere
    <2>5. QED
      BY <2>1, <2>3, <2>4 DEF ShimInv, P!DegradesOnly, P!AcceptedIsStored
  <1>4. ASSUME NEW p \in Processes, NEW what, NEW stored, P!Answer(p, what, stored), req[p] # None,
               what = "undefined" => stored \subseteq OldTables,
               what = "ok" => stored = req[p].carries
        PROVE  ShimInv'
    <2>1. Probed' /\ PresentIsThere'
      BY <1>4 DEF P!Answer, ShimInv, Probed, PresentIsThere
    <2>2. \A q \in Processes \ {p} : answer'[q] = answer[q]
      BY <1>4 DEF P!Answer, ShimInv, Probed
    <2>3. answer'[p] = [to |-> req[p].carries, what |-> what, stored |-> stored]
      BY <1>4 DEF P!Answer, ShimInv, Probed
    <2>4. P!DegradesOnly' /\ P!AcceptedIsStored'
      BY <1>4, <2>2, <2>3 DEF ShimInv, P!DegradesOnly, P!AcceptedIsStored
    <2>5. QED
      BY <2>1, <2>4 DEF ShimInv
  <1>5. ASSUME NEW p \in Processes, P!Refuse(p) \/ P!Degrade(p) PROVE ShimInv'
    BY <1>4, <1>5 DEF P!Refuse, P!Degrade, P!Asked
  <1>6. ASSUME NEW p \in Processes, P!Execute(p) PROVE ShimInv'
    <2>1. req[p] # None /\ P!Answer(p, "ok", req[p].carries \ P!Lacks(p)) /\ req[p].carries \cap P!Lacks(p) = {}
      BY <1>6 DEF P!Execute, P!Able, P!Asked
    <2>2. req[p].carries \ P!Lacks(p) = req[p].carries
      BY <2>1
    <2>3. QED
      BY <1>4, <2>1, <2>2
  <1>7. ASSUME NEW p \in Processes, P!Undefined(p) PROVE ShimInv'
    <2>1. req[p] # None /\ P!Answer(p, "undefined", P!Named(p) \ schema)
      BY <1>7 DEF P!Undefined, P!Able, P!Asked
    <2>2. req[p] \in P!Jobs
      BY <2>1 DEF ShimInv, Probed
    <2>3. req[p].handler.asks \subseteq P!Features /\ req[p].handler.names \subseteq OldTables
      BY <2>2, JobsAskAndName
    <2>4. UNION (req[p].handler.asks \ P!Lacks(p)) \subseteq schema
      BY <2>3 DEF P!Lacks, P!Has, ShimInv, PresentIsThere
    <2>5. P!Named(p) \ schema \subseteq OldTables
      BY <2>3, <2>4 DEF P!Named
    <2>6. QED
      BY <1>4, <2>1, <2>5
  <1>8. ASSUME NEW p \in Processes, P!Restart(p) PROVE ShimInv'
    BY <1>8 DEF P!Restart, ShimInv, Probed, PresentIsThere, P!DegradesOnly, P!AcceptedIsStored
  <1>9. QED
    BY <1>1, <1>2, <1>3, <1>5, <1>6, <1>7, <1>8 DEF P!Next, P!vars, P!Make, P!Migrate

\* Whatever is migrated, misread and restarted while requests are served, none of them names
\* what a migration that was held back would add, and one that says it has saved its body
\* has saved all of it (schema_compat.py, "never a 500").
THEOREM DegradesGently == P!Spec => []DegradesSafely
  <1>1. P!Init => ShimInv
    BY DEF P!Init, ShimInv, Probed, PresentIsThere, P!DegradesOnly, P!AcceptedIsStored
  <1>2. ShimInv => DegradesSafely
    BY DEF ShimInv, DegradesSafely, P!DegradesSafely
  <1>3. QED
    BY <1>1, <1>2, ShimStep, PTL DEF P!Spec

-----------------------------------------------------------------------------
(* The requests that only read: their statements *)

\* The words the statements of the handlers are made of.
Words ==
    {"me", "grant", "scope", "rows", "more", "find", "each", "some", "count", "arrange",
     "bare", "strict", "savepoint", "swallowed",
     "account", "sector", "zone", "device", "nzone", "sensor", "group", "member", "alert",
     "installation", "config", "plan", "subscription", "reading", "note", "slot", "moisture",
     "event", "program", "calendar", "period", "affirmation", "preferences", "calibration",
     "of", "user"}
\* A statement that takes a row to be there follows a reference to an account.
Fits(s) == s[1] = "each" /\ s[3] = "strict" => s[2] = "user"
Fitting == {s \in Words \X Words \X Words : Fits(s)}
Plans   == Seq(Fitting)

LEMMA WordsAre ==
  /\ "rows" \in Words /\ "more" \in Words /\ "find" \in Words /\ "count" \in Words
  /\ "each" \in Words /\ "me" \in Words /\ "some" \in Words /\ "arrange" \in Words
  /\ "grant" \in Words /\ "scope" \in Words /\ "zone" \in Words /\ "account" \in Words
  /\ "user" \in Words /\ "sector" \in Words
  BY DEF Words

LEMMA Fitted ==
  ASSUME NEW a \in Words, NEW b \in Words
  PROVE  /\ \A c \in {"bare", "savepoint", "swallowed"} : <<a, b, c>> \in Fitting
         /\ a = "each" /\ b = "user" => <<a, b, "strict">> \in Fitting
         /\ a # "each" => <<a, b, "strict">> \in Fitting
  <1>1. {"bare", "savepoint", "swallowed", "strict"} \subseteq Words
    BY DEF Words
  <1>2. QED
    BY <1>1 DEF Fitting, Fits

LEMMA GuardedIs ==
  ASSUME NEW a, NEW b, NEW c, NEW how PROVE R!Guarded(<<a, b, c>>, how) = <<a, b, how>>
  BY DEF R!Guarded

LEMMA Singles ==
  ASSUME NEW k \in Words
  PROVE  /\ {R!Rows(k), R!More(k), R!Find(k), R!Count(k), R!Lookup(k)} \subseteq Fitting
         /\ {R!InSavepoint(R!More(k)), R!InSavepoint(R!Count(k)), R!Swallowed(R!Rows(k)),
             R!Swallowed(R!More(k)), R!Swallowed(R!Count(k))} \subseteq Fitting
  <1>1. R!Rows(k) \in Fitting /\ R!Swallowed(R!Rows(k)) \in Fitting
    <2>1. R!Swallowed(R!Rows(k)) = <<"rows", k, "swallowed">>
      BY GuardedIs DEF R!Rows, R!Swallowed
    <2>2. QED
      BY <2>1, Fitted, WordsAre DEF R!Rows
  <1>2. /\ R!More(k) \in Fitting /\ R!InSavepoint(R!More(k)) \in Fitting
        /\ R!Swallowed(R!More(k)) \in Fitting
    <2>1. /\ R!Swallowed(R!More(k)) = <<"more", k, "swallowed">>
          /\ R!InSavepoint(R!More(k)) = <<"more", k, "savepoint">>
      BY GuardedIs DEF R!More, R!Swallowed, R!InSavepoint
    <2>2. QED
      BY <2>1, Fitted, WordsAre DEF R!More
  <1>3. /\ R!Count(k) \in Fitting /\ R!InSavepoint(R!Count(k)) \in Fitting
        /\ R!Swallowed(R!Count(k)) \in Fitting
    <2>1. /\ R!Swallowed(R!Count(k)) = <<"count", k, "swallowed">>
          /\ R!InSavepoint(R!Count(k)) = <<"count", k, "savepoint">>
      BY GuardedIs DEF R!Count, R!Swallowed, R!InSavepoint
    <2>2. QED
      BY <2>1, Fitted, WordsAre DEF R!Count
  <1>4. R!Find(k) \in Fitting /\ R!Lookup(k) \in Fitting
    BY Fitted, WordsAre DEF R!Find, R!Lookup
  <1>5. QED
    BY <1>1, <1>2, <1>3, <1>4

LEMMA Peculiar ==
  /\ R!Me \in Fitting /\ R!Myself \in Fitting /\ R!Some \in Fitting /\ R!Arrange \in Fitting
  /\ R!Demand("user") \in Fitting
  /\ <<"grant", "grant", "bare">> \in Fitting /\ <<"scope", "zone", "bare">> \in Fitting
  BY Fitted, WordsAre DEF R!Demand, R!Me, R!Myself, R!Some, R!Arrange

LEMMA Concats ==
  ASSUME NEW p \in Plans, NEW q \in Plans PROVE p \o q \in Plans
  BY DEF Plans

LEMMA Short ==
  ASSUME NEW a \in Fitting, NEW b \in Fitting, NEW c \in Fitting, NEW d \in Fitting
  PROVE  {<<>>, <<a>>, <<a, b>>, <<a, b, c>>, <<a, b, c, d>>} \subseteq Plans
  BY DEF Plans

LEMMA Each3 ==
  ASSUME NEW a \in Words, NEW b \in Words, NEW c \in Words, NEW d \in Words
  PROVE  {R!Each(R!Count, <<a, b>>), R!Each(R!Count, <<a, b, c>>),
          R!Each(R!Count, <<a, b, c, d>>)} \subseteq Plans
  <1>1. R!Each(R!Count, <<a, b>>) = [n \in DOMAIN <<a, b>> |-> R!Count(<<a, b>>[n])]
    BY DEF R!Each
  <1>2. R!Each(R!Count, <<a, b, c>>) = [n \in DOMAIN <<a, b, c>> |-> R!Count(<<a, b, c>>[n])]
    BY DEF R!Each
  <1>3. R!Each(R!Count, <<a, b, c, d>>) = [n \in DOMAIN <<a, b, c, d>> |-> R!Count(<<a, b, c, d>>[n])]
    BY DEF R!Each
  <1>4. R!Each(R!Count, <<a, b>>) = <<R!Count(a), R!Count(b)>>
    BY <1>1
  <1>5. R!Each(R!Count, <<a, b, c>>) = <<R!Count(a), R!Count(b), R!Count(c)>>
    BY <1>2
  <1>6. R!Each(R!Count, <<a, b, c, d>>) = <<R!Count(a), R!Count(b), R!Count(c), R!Count(d)>>
    BY <1>3
  <1>7. R!Count(a) \in Fitting /\ R!Count(b) \in Fitting /\ R!Count(c) \in Fitting /\ R!Count(d) \in Fitting
    BY Singles
  <1>8. QED
    BY <1>4, <1>5, <1>6, <1>7, Short

LEMMA ScopePlan ==
  R!_resolve_read_scope(R!Me) \in Plans /\ R!_resolve_read_scope(R!Myself) \in Plans
  BY Peculiar, Short DEF R!_resolve_read_scope

PlanFits(e) == e.plan \in Plans

LEMMA Shapes ==
  ASSUME NEW k \in Words
  PROVE  /\ PlanFits(R!Listing(k)) /\ PlanFits(R!Fetching(k)) /\ PlanFits(R!StaffListing(k))
         /\ PlanFits(R!StaffFetching(k)) /\ PlanFits(R!Filtered(k))
         /\ PlanFits(R!Zoned(R!Listing(k))) /\ PlanFits(R!Zoned(R!StaffFetching(k)))
         /\ PlanFits(R!Zoned(R!Filtered(k)))
  <1>1. <<R!Rows(k)>> \in Plans /\ <<R!Find(k)>> \in Plans
    BY Singles, Short
  <1>2. R!Count("account") \in Fitting /\ R!_username \in Fitting /\ R!Rows(k) \in Fitting
    BY Singles, WordsAre DEF R!_username
  <1>3. <<R!Count("account"), R!Rows(k), R!_username>> \in Plans
    BY <1>2, Short
  <1>4. QED
    BY <1>1, <1>3
    DEF PlanFits, R!Listing, R!Fetching, R!StaffListing, R!StaffFetching, R!Filtered, R!Own,
        R!Staff, R!Reads, R!Zoned

LEMMA Wrapped ==
  ASSUME NEW who, NEW shows, NEW plan \in Plans
  PROVE  LET e == R!Reads(who, shows, plan) IN
         /\ PlanFits(e) /\ PlanFits(R!Zoned(e)) /\ PlanFits(R!ByRow(e))
         /\ PlanFits([e EXCEPT !.active = TRUE])
  BY DEF PlanFits, R!Reads, R!Zoned, R!ByRow

LEMMA KindsAre ==
  /\ "slot" \in Words /\ "reading" \in Words /\ "moisture" \in Words /\ "device" \in Words
  /\ "config" \in Words /\ "group" \in Words /\ "member" \in Words /\ "event" \in Words
  /\ "installation" \in Words /\ "preferences" \in Words /\ "alert" \in Words
  /\ "nzone" \in Words /\ "sensor" \in Words /\ "note" \in Words /\ "program" \in Words
  /\ "calendar" \in Words /\ "period" \in Words /\ "affirmation" \in Words
  /\ "calibration" \in Words /\ "plan" \in Words /\ "subscription" \in Words /\ "of" \in Words
  BY DEF Words

LEMMA EachWrapped ==
  ASSUME NEW a \in Words, NEW b \in Words, NEW c \in Words
  PROVE  /\ R!Each(R!InSavepoint, <<R!More(a), R!More(b), R!More(c)>>) \in Plans
         /\ R!Each(R!Swallowed, <<R!More(a), R!More(b)>>) \in Plans
         /\ R!Each(R!InSavepoint, R!Each(R!Count, <<a, b, c>>)) \in Plans
  <1>1. R!Each(R!InSavepoint, <<R!More(a), R!More(b), R!More(c)>>)
           = [n \in DOMAIN <<R!More(a), R!More(b), R!More(c)>> |->
                R!InSavepoint(<<R!More(a), R!More(b), R!More(c)>>[n])]
    BY DEF R!Each
  <1>2. R!Each(R!Swallowed, <<R!More(a), R!More(b)>>)
           = [n \in DOMAIN <<R!More(a), R!More(b)>> |-> R!Swallowed(<<R!More(a), R!More(b)>>[n])]
    BY DEF R!Each
  <1>3. R!Each(R!InSavepoint, <<R!More(a), R!More(b), R!More(c)>>)
           = <<R!InSavepoint(R!More(a)), R!InSavepoint(R!More(b)), R!InSavepoint(R!More(c))>>
    BY <1>1
  <1>4. R!Each(R!Swallowed, <<R!More(a), R!More(b)>>) = <<R!Swallowed(R!More(a)), R!Swallowed(R!More(b))>>
    BY <1>2
  <1>5. R!Each(R!Count, <<a, b, c>>) = [n \in DOMAIN <<a, b, c>> |-> R!Count(<<a, b, c>>[n])]
    BY DEF R!Each
  <1>6. R!Each(R!Count, <<a, b, c>>) = <<R!Count(a), R!Count(b), R!Count(c)>>
    BY <1>5
  <1>7. R!Each(R!InSavepoint, <<R!Count(a), R!Count(b), R!Count(c)>>)
           = [n \in DOMAIN <<R!Count(a), R!Count(b), R!Count(c)>> |->
                R!InSavepoint(<<R!Count(a), R!Count(b), R!Count(c)>>[n])]
    BY DEF R!Each
  <1>8. R!Each(R!InSavepoint, <<R!Count(a), R!Count(b), R!Count(c)>>)
           = <<R!InSavepoint(R!Count(a)), R!InSavepoint(R!Count(b)), R!InSavepoint(R!Count(c))>>
    BY <1>7
  <1>9. R!Each(R!InSavepoint, <<R!More(a), R!More(b), R!More(c)>>) \in Plans
    <2>1. /\ R!InSavepoint(R!More(a)) \in Fitting /\ R!InSavepoint(R!More(b)) \in Fitting
          /\ R!InSavepoint(R!More(c)) \in Fitting
      BY Singles
    <2>2. QED
      BY <1>3, <2>1, Short
  <1>10. R!Each(R!Swallowed, <<R!More(a), R!More(b)>>) \in Plans
    <2>1. R!Swallowed(R!More(a)) \in Fitting /\ R!Swallowed(R!More(b)) \in Fitting
      BY Singles
    <2>2. QED
      BY <1>4, <2>1, Short
  <1>11. R!Each(R!InSavepoint, R!Each(R!Count, <<a, b, c>>)) \in Plans
    <2>1. /\ R!InSavepoint(R!Count(a)) \in Fitting /\ R!InSavepoint(R!Count(b)) \in Fitting
          /\ R!InSavepoint(R!Count(c)) \in Fitting
      BY Singles
    <2>2. QED
      BY <1>6, <1>8, <2>1, Short
  <1>12. QED
    BY <1>9, <1>10, <1>11

\* No handler takes a row to be there but the account that another row refers to.
LEMMA PlansAre ==
  /\ PlanFits(R!get_me) /\ PlanFits(R!list_my_zones) /\ PlanFits(R!list_my_devices)
  /\ PlanFits(R!get_my_active_graph) /\ PlanFits(R!list_sensor_groups) /\ PlanFits(R!get_calibration)
  /\ PlanFits(R!list_alert_events) /\ PlanFits(R!list_irrigation_decisions) /\ PlanFits(R!list_sectors)
  /\ PlanFits(R!farm_overview) /\ PlanFits(R!list_installations) /\ PlanFits(R!get_map_preferences)
  /\ PlanFits(R!farm_map_status) /\ PlanFits(R!list_zones) /\ PlanFits(R!get_zone)
  /\ PlanFits(R!available_sensors) /\ PlanFits(R!list_technicians) /\ PlanFits(R!get_technician)
  /\ PlanFits(R!notifications_and_alerts) /\ PlanFits(R!list_alerts) /\ PlanFits(R!alerts_for_graph)
  /\ PlanFits(R!alerts_suggest) /\ PlanFits(R!get_alert) /\ PlanFits(R!list_programs)
  /\ PlanFits(R!list_commands) /\ PlanFits(R!list_kc) /\ PlanFits(R!get_kc)
  /\ PlanFits(R!list_affirmations) /\ PlanFits(R!et_forecast) /\ PlanFits(R!et0_series)
  /\ PlanFits(R!hourly_readings) /\ PlanFits(R!raw_readings) /\ PlanFits(R!_get_active_alerts)
  /\ PlanFits(R!_get_farm_snapshot) /\ PlanFits(R!_get_weather_snapshot) /\ PlanFits(R!_get_soil_snapshot)
  /\ PlanFits(R!_list_zones) /\ PlanFits(R!_get_zone_detail) /\ PlanFits(R!_get_sensor_trend)
  /\ PlanFits(R!_get_irrigation_advice) /\ PlanFits(R!_list_recent_notifications) /\ PlanFits(R!list_users)
  /\ PlanFits(R!get_user) /\ PlanFits(R!user_sessions) /\ PlanFits(R!devices)
  /\ PlanFits(R!list_audit) /\ PlanFits(R!list_plans) /\ PlanFits(R!list_subscriptions)
  /\ PlanFits(R!list_invoices) /\ PlanFits(R!list_conversations) /\ PlanFits(R!list_proactive)
  /\ PlanFits(R!admin_list_kc) /\ PlanFits(R!admin_get_kc) /\ PlanFits(R!list_notifications)
  /\ PlanFits(R!get_conversation) /\ PlanFits(R!list_grants) /\ PlanFits(R!get_grant)
  /\ PlanFits(R!admin_readings) /\ PlanFits(R!backfill_status) /\ PlanFits(R!admin_overview)
  /\ PlanFits(R!analytics) /\ PlanFits(R!device_fleet_health) /\ PlanFits(R!list_user_zones)
  /\ PlanFits(R!get_user_zone) /\ PlanFits(R!get_zone_params) /\ PlanFits(R!list_user_alerts)
  /\ PlanFits(R!list_all_alerts) /\ PlanFits(R!get_alert_row) /\ PlanFits(R!alerts_analytics)
  /\ PlanFits(R!user_activity) /\ PlanFits(R!get_sensor_units) /\ PlanFits(R!monitoring_overview)
  /\ PlanFits(R!tasks) /\ PlanFits(R!deliveries) /\ PlanFits(R!logins)
  /\ PlanFits(R!list_tables) /\ PlanFits(R!list_rows) /\ PlanFits(R!retrieve_row)
  <1> USE Singles, WordsAre, KindsAre, Short, ScopePlan, Concats, Peculiar, Shapes, Each3,
          EachWrapped
    DEF PlanFits, R!Reads, R!Own, R!Staff, R!Scoped, R!Zoned, R!ByRow, R!_username, R!_latest,
        R!_serialize_kc
  <1>1. /\ PlanFits(R!get_me) /\ PlanFits(R!list_my_zones) /\ PlanFits(R!list_my_devices)
       /\ PlanFits(R!get_my_active_graph) /\ PlanFits(R!list_sensor_groups) /\ PlanFits(R!get_calibration)
    BY DEF R!get_me, R!list_my_zones, R!list_my_devices, R!get_my_active_graph,
           R!list_sensor_groups, R!_sensors_for, R!get_calibration
  <1>2. /\ PlanFits(R!list_alert_events) /\ PlanFits(R!list_irrigation_decisions) /\ PlanFits(R!list_sectors)
       /\ PlanFits(R!farm_overview) /\ PlanFits(R!list_installations) /\ PlanFits(R!get_map_preferences)
    BY DEF R!list_alert_events, R!_run, R!list_irrigation_decisions, R!list_sectors,
           R!_serialize_sector, R!farm_overview, R!_captors_for_zone, R!list_installations,
           R!get_map_preferences
  <1>3. /\ PlanFits(R!farm_map_status) /\ PlanFits(R!list_zones) /\ PlanFits(R!get_zone)
       /\ PlanFits(R!available_sensors) /\ PlanFits(R!list_technicians) /\ PlanFits(R!get_technician)
    BY DEF R!farm_map_status, R!_reading, R!list_zones, R!_zone_sensors, R!get_zone,
           R!available_sensors, R!list_technicians, R!_serialize_grant, R!get_technician
  <1>4. /\ PlanFits(R!notifications_and_alerts) /\ PlanFits(R!list_alerts) /\ PlanFits(R!alerts_for_graph)
       /\ PlanFits(R!alerts_suggest) /\ PlanFits(R!get_alert) /\ PlanFits(R!list_programs)
    BY DEF R!notifications_and_alerts, R!list_alerts, R!alerts_for_graph, R!_reading,
           R!alerts_suggest, R!get_alert, R!list_programs
  <1>5. /\ PlanFits(R!list_commands) /\ PlanFits(R!list_kc) /\ PlanFits(R!get_kc)
       /\ PlanFits(R!list_affirmations) /\ PlanFits(R!et_forecast) /\ PlanFits(R!et0_series)
    BY DEF R!list_commands, R!list_kc, R!get_kc, R!list_affirmations, R!et_forecast,
           R!et0_series
  <1>6. /\ PlanFits(R!hourly_readings) /\ PlanFits(R!raw_readings) /\ PlanFits(R!_get_active_alerts)
       /\ PlanFits(R!_get_farm_snapshot) /\ PlanFits(R!_get_weather_snapshot) /\ PlanFits(R!_get_soil_snapshot)
    BY DEF R!hourly_readings, R!_reading, R!_calibrations_for_buckets, R!raw_readings,
           R!_get_active_alerts, R!_get_farm_snapshot, R!SENSOR_SOURCES,
           R!_get_weather_snapshot, R!_get_soil_snapshot
  <1>7. /\ PlanFits(R!_list_zones) /\ PlanFits(R!_get_zone_detail) /\ PlanFits(R!_get_sensor_trend)
       /\ PlanFits(R!_get_irrigation_advice) /\ PlanFits(R!_list_recent_notifications) /\ PlanFits(R!list_users)
    BY DEF R!_list_zones, R!_get_zone_detail, R!_get_sensor_trend, R!SENSOR_SOURCES,
           R!_get_irrigation_advice, R!_list_recent_notifications, R!list_users
  <1>8. /\ PlanFits(R!get_user) /\ PlanFits(R!user_sessions) /\ PlanFits(R!devices)
       /\ PlanFits(R!list_audit) /\ PlanFits(R!list_plans) /\ PlanFits(R!list_subscriptions)
    BY DEF R!get_user, R!user_sessions, R!devices, R!list_audit, R!list_plans,
           R!list_subscriptions
  <1>9. /\ PlanFits(R!list_invoices) /\ PlanFits(R!list_conversations) /\ PlanFits(R!list_proactive)
       /\ PlanFits(R!admin_list_kc) /\ PlanFits(R!admin_get_kc) /\ PlanFits(R!list_notifications)
    BY DEF R!list_invoices, R!list_conversations, R!list_proactive, R!admin_list_kc,
           R!admin_get_kc, R!list_notifications
  <1>10. /\ PlanFits(R!get_conversation) /\ PlanFits(R!list_grants) /\ PlanFits(R!get_grant)
        /\ PlanFits(R!admin_readings) /\ PlanFits(R!backfill_status) /\ PlanFits(R!admin_overview)
    BY DEF R!get_conversation, R!list_grants, R!_grant, R!get_grant, R!admin_readings,
           R!backfill_status, R!SENSOR_SPEC, R!admin_overview
  <1>11. /\ PlanFits(R!analytics) /\ PlanFits(R!device_fleet_health) /\ PlanFits(R!list_user_zones)
        /\ PlanFits(R!get_user_zone) /\ PlanFits(R!get_zone_params) /\ PlanFits(R!list_user_alerts)
    BY DEF R!analytics, R!device_fleet_health, R!list_user_zones, R!get_user_zone,
           R!get_zone_params, R!list_user_alerts
  <1>12. /\ PlanFits(R!list_all_alerts) /\ PlanFits(R!get_alert_row) /\ PlanFits(R!alerts_analytics)
        /\ PlanFits(R!user_activity) /\ PlanFits(R!get_sensor_units) /\ PlanFits(R!monitoring_overview)
    BY DEF R!list_all_alerts, R!get_alert_row, R!alerts_analytics, R!user_activity,
           R!get_sensor_units, R!monitoring_overview, R!_fleet_summary
  <1>13. /\ PlanFits(R!tasks) /\ PlanFits(R!deliveries) /\ PlanFits(R!logins)
        /\ PlanFits(R!list_tables) /\ PlanFits(R!list_rows) /\ PlanFits(R!retrieve_row)
    BY DEF R!tasks, R!deliveries, R!logins, R!list_tables, R!_build_registry, R!list_rows,
           R!retrieve_row
  <1>14. QED
    BY <1>1, <1>2, <1>3, <1>4, <1>5, <1>6, <1>7, <1>8, <1>9, <1>10, <1>11, <1>12, <1>13

LEMMA EveryPlan == \A op \in DOMAIN R!Endpoint : PlanFits(R!Endpoint[op])
  <1>1. \A op \in {"get_me", "list_my_zones", "list_my_devices", "get_my_active_graph",
           "list_sensor_groups", "get_calibration", "list_alert_events",
           "list_irrigation_decisions", "list_sectors", "farm_overview", "list_installations",
           "get_map_preferences", "farm_map_status"} :
           PlanFits(R!Endpoint[op])
    BY PlansAre DEF R!Endpoint
  <1>2. \A op \in {"list_zones", "get_zone", "available_sensors", "list_technicians",
           "get_technician", "notifications_and_alerts", "list_alerts", "alerts_for_graph",
           "alerts_suggest", "get_alert", "list_programs", "list_commands", "list_kc"} :
           PlanFits(R!Endpoint[op])
    BY PlansAre DEF R!Endpoint
  <1>3. \A op \in {"get_kc", "list_affirmations", "et_forecast", "et0_series",
           "hourly_readings", "raw_readings", "_get_active_alerts", "_get_farm_snapshot",
           "_get_weather_snapshot", "_get_soil_snapshot", "_list_zones", "_get_zone_detail",
           "_get_sensor_trend"} :
           PlanFits(R!Endpoint[op])
    BY PlansAre DEF R!Endpoint, R!list_readings
  <1>4. \A op \in {"_get_irrigation_advice", "_list_recent_notifications", "list_users",
           "get_user", "user_sessions", "devices", "list_audit", "list_plans",
           "list_subscriptions", "list_invoices", "list_conversations", "list_proactive",
           "admin_list_kc"} :
           PlanFits(R!Endpoint[op])
    BY PlansAre DEF R!Endpoint
  <1>5. \A op \in {"admin_get_kc", "list_notifications", "get_conversation", "list_grants",
           "get_grant", "admin_readings", "backfill_status", "admin_overview", "analytics",
           "device_fleet_health", "list_user_zones", "get_user_zone", "get_zone_params"} :
           PlanFits(R!Endpoint[op])
    BY PlansAre DEF R!Endpoint
  <1>6. \A op \in {"list_user_alerts", "list_all_alerts", "get_alert_row", "alerts_analytics",
           "user_activity", "get_sensor_units", "monitoring_overview", "tasks", "deliveries",
           "logins", "list_tables", "list_rows", "retrieve_row"} :
           PlanFits(R!Endpoint[op])
    BY PlansAre DEF R!Endpoint
  <1>7. DOMAIN R!Endpoint =
          {"get_me", "list_my_zones", "list_my_devices", "get_my_active_graph",
           "list_sensor_groups", "get_calibration", "list_alert_events",
           "list_irrigation_decisions", "list_sectors", "farm_overview", "list_installations",
           "get_map_preferences", "farm_map_status", "list_zones", "get_zone",
           "available_sensors", "list_technicians", "get_technician",
           "notifications_and_alerts", "list_alerts", "alerts_for_graph", "alerts_suggest",
           "get_alert", "list_programs", "list_commands", "list_kc", "get_kc",
           "list_affirmations", "et_forecast", "et0_series", "hourly_readings", "raw_readings",
           "_get_active_alerts", "_get_farm_snapshot", "_get_weather_snapshot",
           "_get_soil_snapshot", "_list_zones", "_get_zone_detail", "_get_sensor_trend",
           "_get_irrigation_advice", "_list_recent_notifications", "list_users", "get_user",
           "user_sessions", "devices", "list_audit", "list_plans", "list_subscriptions",
           "list_invoices", "list_conversations", "list_proactive", "admin_list_kc",
           "admin_get_kc", "list_notifications", "get_conversation", "list_grants", "get_grant",
           "admin_readings", "backfill_status", "admin_overview", "analytics",
           "device_fleet_health", "list_user_zones", "get_user_zone", "get_zone_params",
           "list_user_alerts", "list_all_alerts", "get_alert_row", "alerts_analytics",
           "user_activity", "get_sensor_units", "monitoring_overview", "tasks", "deliveries",
           "logins", "list_tables", "list_rows", "retrieve_row"}
    BY DEF R!Endpoint
  <1>8. QED
    BY <1>1, <1>2, <1>3, <1>4, <1>5, <1>6, <1>7

-----------------------------------------------------------------------------
(* The requests that only read: what they refer to *)

\* An account that a reader, or a row that is shown, refers to is there, or may leave.
Refers(u) == u \in R!Accounts(db) \cup Logins
Referred ==
    /\ \A who \in DOMAIN Caller : Refers(Caller[who])
    /\ \A k \in DOMAIN shown :
          "user" \in DOMAIN shown[k] => Refers(shown[k]["user"]) \/ shown[k]["user"] = None
Reading ==
    /\ pcR # "new" => asked.who \in DOMAIN Caller
    /\ todoR \in Plans
    /\ faults \in Nat /\ (aborted => faults > 0)

ReadInv == R!KeysHold(db) /\ Referred /\ Reading /\ R!FailsForCause

LEMMA PlanGoesOn ==
  ASSUME todoR \in Plans, todoR # <<>>
  PROVE  Tail(todoR) \in Plans /\ Fits(Head(todoR))
  BY DEF Plans, Fitting

LEMMA NoneMissed ==
  ASSUME ReadInv, R!Missed, R!Kind = "user" PROVE ~(Logins \subseteq R!Live(db))
  BY DEF R!Missed, ReadInv, Referred, Refers, R!Accounts

LEMMA ShownFrom ==
  ASSUME ReadInv, db' = db,
         \A k \in DOMAIN shown' :
            \/ k \in DOMAIN shown /\ shown'[k] = shown[k]
            \/ k \in R!Live(db) /\ shown'[k] = db[k]
  PROVE  Referred'
  BY DEF ReadInv, Referred, Refers, R!KeysHold, R!Accounts, R!Live

LEMMA ReadStep == ReadInv /\ [R!Next]_(R!vars) => ReadInv'
  <1> SUFFICES ASSUME ReadInv, [R!Next]_(R!vars) PROVE ReadInv'
    OBVIOUS
  <1>1. CASE UNCHANGED R!vars
    BY <1>1 DEF R!vars, R!answer, R!seen, ReadInv, R!KeysHold, Referred, Refers, Reading,
                R!FailsForCause, R!Accounts, R!Live
  <1>2. ASSUME NEW op \in DOMAIN R!Endpoint, NEW who \in DOMAIN Caller, NEW zone,
               R!Ask(op, who, zone)
        PROVE  ReadInv'
    <2>1. R!Endpoint[op].plan \in Plans
      BY EveryPlan DEF PlanFits
    <2>2. asked'.who = who
      BY <1>2 DEF R!Ask
    <2>3. Reading' /\ R!FailsForCause'
      BY <1>2, <2>1, <2>2 DEF R!Ask, ReadInv, Reading, R!FailsForCause
    <2>4. Referred' /\ R!KeysHold(db)'
      BY <1>2 DEF R!Ask, R!answer, ReadInv, Referred, Refers, R!KeysHold, R!Accounts, R!Live
    <2>5. QED
      BY <2>3, <2>4 DEF ReadInv
  \* What goes on to the rest of the statements, and what it has read.
  <1>3. ASSUME NEW rest \in Plans, R!Proceed(rest),
               \A k \in DOMAIN shown' :
                  \/ k \in DOMAIN shown /\ shown'[k] = shown[k]
                  \/ k \in R!Live(db) /\ shown'[k] = db[k]
        PROVE  ReadInv'
    <2>1. Reading' /\ R!FailsForCause' /\ R!KeysHold(db)'
      BY <1>3 DEF R!Proceed, ReadInv, Reading, R!FailsForCause, R!KeysHold, R!Accounts, R!Live
    <2>2. Referred'
      BY <1>3, ShownFrom DEF R!Proceed
    <2>3. QED
      BY <2>1, <2>2 DEF ReadInv
  <1>4. ASSUME NEW how, R!End(how), pcR = "open",
               how = "failed" => faults > 0 \/ ~(Logins \subseteq R!Live(db))
        PROVE  ReadInv'
    <2>1. <<>> \in Plans
      BY DEF Plans
    <2>2. QED
      BY <1>4, <2>1
      DEF R!End, R!answer, R!seen, ReadInv, Referred, Refers, Reading, R!FailsForCause,
          R!KeysHold, R!Accounts, R!Live
  <1>5. ASSUME pcR = "open", todoR # <<>>, R!Continue, UNCHANGED shown PROVE ReadInv'
    <2>1. Tail(todoR) \in Plans
      BY <1>5, PlanGoesOn DEF ReadInv, Reading
    <2>2. QED
      BY <1>3, <1>5, <2>1 DEF R!Continue
  <1>6. ASSUME NEW found \in SUBSET R!Live(db), pcR = "open", todoR # <<>>, R!Show(found)
        PROVE  ReadInv'
    <2>1. Tail(todoR) \in Plans
      BY <1>6, PlanGoesOn DEF ReadInv, Reading
    <2>2. QED
      BY <1>3, <1>6, <2>1 DEF R!Show, R!Continue
  <1>7. CASE R!Account \/ R!ReadGrant \/ R!ReadScope \/ R!LookUp
    BY <1>5, <1>7 DEF R!Account, R!ReadGrant, R!ReadScope, R!LookUp, R!Does, R!answer
  <1>8. CASE R!SelectRows \/ R!SelectMore \/ R!FindRow
    BY <1>6, <1>8 DEF R!SelectRows, R!SelectMore, R!FindRow, R!Does, R!Permitted, R!Matching
  <1>9. CASE R!NotFound \/ R!Answer
    BY <1>4, <1>9 DEF R!NotFound, R!Answer, R!Does
  <1>10. CASE R!Empty
    <2>1. <<>> \in Plans /\ Tail(todoR) \in Plans
      BY <1>10, PlanGoesOn DEF R!Empty, R!Does, ReadInv, Reading, Plans
    <2>2. QED
      BY <1>3, <1>10, <2>1 DEF R!Empty, R!answer
  <1>11. CASE R!ArrangeRows
    <2>1. Tail(todoR) \in Plans
      BY <1>11, PlanGoesOn DEF R!ArrangeRows, R!Does, ReadInv, Reading
    <2>2. QED
      BY <1>3, <1>11, <2>1 DEF R!ArrangeRows, R!Continue, R!Matching
  <1>12. CASE R!Crash
    <2>1. pcR = "open" /\ R!End("failed")
      BY <1>12 DEF R!Crash, R!Does
    <2>2. CASE R!Does("me") /\ Caller[asked.who] \notin R!Live(db)
      <3>1. Caller[asked.who] \in Logins
        BY <2>1, <2>2 DEF ReadInv, Reading, Referred, Refers, R!Accounts
      <3>2. QED
        BY <1>4, <2>1, <2>2, <3>1
    <2>3. CASE R!Does("each") /\ R!Guard = "strict" /\ R!Missed
      <3>1. R!Kind = "user"
        BY <2>3, PlanGoesOn DEF R!Does, R!Guard, R!Kind, Fits, ReadInv, Reading
      <3>2. QED
        BY <1>4, <2>1, <2>3, <3>1, NoneMissed
    <2>4. QED
      BY <1>12, <2>2, <2>3 DEF R!Crash
  <1>13. CASE R!Fault
    <2>1. /\ faults' = faults + 1 /\ faults = 0 /\ todoR # <<>> /\ todoR' \in {Tail(todoR), <<>>}
          /\ UNCHANGED <<db, asked, shown>> /\ pcR = "open"
      BY <1>13 DEF R!Fault, R!answer
    <2>2. <<>> \in Plans /\ Tail(todoR) \in Plans
      BY <2>1, PlanGoesOn DEF ReadInv, Reading, Plans
    <2>3. Reading' /\ R!FailsForCause'
      <3>1. faults' \in Nat /\ faults' > 0
        BY <2>1
      <3>2. asked.who \in DOMAIN Caller
        BY <2>1 DEF ReadInv, Reading
      <3>3. QED
        BY <2>1, <2>2, <3>1, <3>2 DEF Reading, R!FailsForCause
    <2>4. Referred' /\ R!KeysHold(db)'
      BY <2>1 DEF ReadInv, Referred, Refers, R!KeysHold, R!Accounts, R!Live
    <2>5. QED
      BY <2>3, <2>4 DEF ReadInv
  <1>14. CASE R!Aborted
    <2>1. pcR = "open" /\ todoR # <<>> /\ faults > 0
      BY <1>14 DEF R!Aborted, ReadInv, Reading
    <2>2. (R!Continue /\ UNCHANGED R!answer) \/ R!End("failed")
      BY <1>14 DEF R!Aborted
    <2>3. QED
      BY <1>4, <1>5, <2>1, <2>2 DEF R!answer
  <1>15. ASSUME NEW v, R!Change(v), R!KeysHold(v),
                \A u \in R!Accounts(db) : u \in R!Accounts(v) \cup Logins
         PROVE  ReadInv'
    <2>1. db' = v /\ UNCHANGED <<pcR, asked, todoR, R!answer, aborted, lost, faults>> /\ pcR = "open"
      BY <1>15 DEF R!Change
    <2>2. Reading' /\ R!FailsForCause'
      BY <2>1 DEF ReadInv, Reading, R!FailsForCause
    <2>3. R!KeysHold(db)' /\ R!Accounts(db)' = R!Accounts(v)
      BY <1>15, <2>1 DEF R!KeysHold, R!Accounts, R!Live
    <2>4. \A u : Refers(u) => Refers(u)'
      BY <1>15, <2>3 DEF Refers
    <2>5. Referred'
      BY <2>1, <2>4 DEF R!answer, ReadInv, Referred
    <2>6. QED
      BY <2>2, <2>3, <2>5 DEF ReadInv
  <1>16. ASSUME NEW v, R!Commit(v) PROVE ReadInv'
    BY <1>15, <1>16 DEF R!Commit
  <1>17. ASSUME NEW a \in Logins, R!Leave(a) PROVE ReadInv'
    <2> DEFINE v == [k \in R!Live(db) \ {a} |-> db[k]]
    <2>1. R!Live(v) = R!Live(db) \ {a} /\ \A k \in R!Live(v) : v[k] = db[k]
      BY DEF R!Live
    <2>2. R!KeysHold(v)
      BY <1>17, <2>1 DEF R!Leave, ReadInv, R!KeysHold, R!Accounts
    <2>3. \A u \in R!Accounts(db) : u \in R!Accounts(v) \cup Logins
      BY <2>1 DEF R!Accounts
    <2>4. R!Change(v)
      BY <1>17 DEF R!Leave
    <2>5. QED
      BY <1>15, <2>2, <2>3, <2>4
  <1>18. QED
    BY <1>1, <1>2, <1>7, <1>8, <1>9, <1>10, <1>11, <1>12, <1>13, <1>14, <1>16, <1>17 DEF R!Next

\* Whatever commits while a read is answered, it fails only with a statement that fails or
\* because an account is gone that it, or a row it takes, is of: nothing else that may be
\* taken away is taken to be there (routers/selfreads.py:207, technicians.py:120).  Nor does
\* a migration that was held back make a request fail.
THEOREM ReadsFailForCause == R!Spec /\ P!Spec => []FailsForCause
  <1>1. R!Init /\ R!Populated => ReadInv
    BY DEF R!Init, R!Populated, ReadInv, Referred, Refers, Reading, R!FailsForCause, Plans
  <1>2. R!Spec => []R!FailsForCause
    <2>1. ReadInv => R!FailsForCause
      BY DEF ReadInv
    <2>2. QED
      BY <1>1, <2>1, ReadStep, PTL DEF R!Spec
  <1>3. QED
    BY <1>2, DegradesGently, PTL DEF FailsForCause

=============================================================================
