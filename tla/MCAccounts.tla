----------------------------- MODULE MCAccounts -----------------------------
(* A small instance of Accounts for TLC: two administrators, one of them on the
   staff, a customer, and two accounts to come.  AccountJobs are families of
   jobs that are asked together. *)
EXTENDS Accounts, TLC

CONSTANTS ann, bob, cat, x1, x2

Acct(name, mail, staff, level) ==
    [name |-> name, mail |-> mail, pw |-> "old", active |-> TRUE, staff |-> staff,
     level |-> level, stamp |-> 0]
AccountRows ==
    ann :> Acct("ann", "ann@", TRUE, "admin") @@ bob :> Acct("bob", "bob@", FALSE, "admin")
      @@ cat :> Acct("cat", "cat@", FALSE, "editor")
      @@ x1 :> None @@ x2 :> None

Strings == {"ann", "bob", "cat", "dan", "Dan", "ann@", "bob@", "cat@", "dan@", "Dan@", "eve@"}
LowerCase == [s \in Strings |-> CASE s = "Dan" -> "dan" [] s = "Dan@" -> "dan@" [] OTHER -> s]

\* Everybody has signed in a second ago.
SignedIn == [kind : {"access", "refresh"}, user : {ann, bob, cat}, iat : {0}, exp : {3},
             root : {0}, late : {FALSE}]

Asks(op, by, target, sets) == [op |-> op, by |-> by, target |-> target, sets |-> sets]
Nothing         == [f \in {} |-> 0]
Typed(name, pw) == "name" :> name @@ "pw" :> pw
Newly(name, mail) == "name" :> name @@ "mail" :> mail @@ "pw" :> "old"

AccountJobs ==
  [sessions |->
     {Asks("signin", cat, cat, Typed("cat", "old")),
      Asks("signin", cat, cat, Typed("cat", "wrong")),
      Asks("token_obtain", cat, cat, Typed("cat", "old")),
      Asks("token_refresh", cat, cat, Nothing),
      Asks("logout_everywhere", cat, cat, Nothing),
      Asks("force_logout_user", ann, cat, Nothing),
      Asks("delete_user", ann, cat, Nothing),
      Asks("activate_user", ann, cat, Nothing),
      Asks("impersonate", ann, cat, Nothing),
      Asks("impersonate", bob, cat, Nothing),
      Asks("change_password_me", cat, cat, Nothing),
      Asks("reset_password", ann, cat, Nothing)},
   admins |->
     {Asks("set_access_level", ann, bob, "level" :> "editor"),
      Asks("set_access_level", bob, ann, "level" :> "editor"),
      Asks("set_access_level", ann, ann, "level" :> "editor"),
      Asks("set_access_level", ann, cat, "level" :> "admin"),
      Asks("set_access_level", cat, ann, "level" :> "editor"),
      Asks("delete_user", ann, bob, Nothing),
      Asks("delete_user", bob, ann, Nothing),
      Asks("patch_user", ann, bob, "active" :> FALSE),
      Asks("patch_user", ann, ann, "active" :> FALSE),
      Asks("activate_user", ann, ann, Nothing),
      Asks("activate_user", bob, ann, Nothing),
      Asks("activate_user", bob, cat, "active" :> FALSE)},
   names |->
     {Asks("signup", x1, x1, Newly("dan", "dan@")),
      Asks("signup", x1, x1, Newly("Dan", "Dan@")),
      Asks("create_user", ann, x1, Newly("Dan", "eve@")),
      Asks("create_user", ann, x1, Newly("dan", "Dan@")),
      Asks("patch_user", ann, cat, "mail" :> "eve@"),
      Asks("patch_me", cat, cat, "mail" :> "Dan@"),
      Asks("signin", cat, cat, Typed("dan", "old"))}]
AllAccountJobs == UNION {AccountJobs[f] : f \in DOMAIN AccountJobs}
ASSUME /\ LowerAssumption /\ LivesAssumption /\ NoneAssumption
       /\ JobsAssumption /\ AccountsAssumption /\ TokensAssumption
=============================================================================
