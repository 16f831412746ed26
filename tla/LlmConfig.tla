----------------------------- MODULE LlmConfig -----------------------------
(***************************************************************************)
(* The language model behind the assistant: what an administrator saves,   *)
(* what a chat resolves it to, and the test of settings that are saved or  *)
(* still in the form (fastapp/assistant/config.py, admin_assistant.py).    *)
(* A key is known by the provider it was typed for, a model is taken to be *)
(* named.  Overlapping saves are in FarmRecords; here a save is one step.  *)
(***************************************************************************)
EXTENDS Naturals

CONSTANTS
  None,
  EnvKey,     \* AI_API_KEY is set: a key for "openai"
  MaxSaves, MaxSent   \* bounds

VARIABLES
  stored,     \* the row of the settings, None before the first save
  readable,   \* SECRET_KEY is still the one the key was encrypted with
  carried,    \* the keys a save kept while it changed the provider
  pc, form,   \* a test: its place, and what the form sends
  saved,      \* the settings as the test resolved them
  sent,       \* which keys went to which providers
  saves, uses

test == <<pc, form, saved>>
vars == <<stored, readable, carried, test, sent, saves, uses>>

PROVIDER_CATALOG == {"anthropic", "openai", "groq", "ollama"}
requires_api_key == PROVIDER_CATALOG \ {"ollama"}
Keys     == PROVIDER_CATALOG \cup {None}
Stored   == [provider : PROVIDER_CATALOG, key : Keys, enabled : BOOLEAN]
Resolved == [provider : Keys, config : Stored \cup {None}, key : Keys]

TypeOK ==
    /\ stored \in Stored \cup {None} /\ readable \in BOOLEAN
    /\ carried \subseteq PROVIDER_CATALOG
    /\ pc \in {"idle", "resolved"} /\ saved \in Resolved \cup {None}
    /\ sent \subseteq PROVIDER_CATALOG \X Keys

Init ==
    /\ stored = None /\ readable = TRUE /\ carried = {} /\ pc = "idle" /\ form = None
    /\ saved = None /\ sent = {} /\ saves = 0 /\ uses = 0

\* A key that cannot be decrypted is as good as none.
decrypt_secret(k) == IF readable THEN k ELSE None

\* What is stored, as far as it will do; the environment's key when nothing is.
resolve ==
    IF stored # None
    THEN LET key == decrypt_secret(stored.key)
             usable == stored.enabled /\ (key # None \/ stored.provider \notin requires_api_key)
         IN [provider |-> stored.provider, key |-> key,
             config |-> IF usable THEN stored ELSE None]
    ELSE IF EnvKey
    THEN [provider |-> "openai", key |-> "openai",
          config |-> [provider |-> "openai", key |-> "openai", enabled |-> TRUE]]
    ELSE [provider |-> None, key |-> None, config |-> None]

\* None keeps the stored key, whatever provider is saved with it.
put_config(p, typed, enabled) ==
    LET kept == IF stored = None THEN None ELSE stored.key
        key  == CASE typed = "keep" -> kept [] typed = "remove" -> None [] OTHER -> p
    IN
    /\ saves < MaxSaves /\ saves' = saves + 1
    /\ enabled => key # None \/ p \notin requires_api_key
    /\ stored' = [provider |-> p, key |-> key, enabled |-> enabled]
    /\ readable' = IF typed = "new" THEN TRUE ELSE readable
    /\ carried' = IF key # None /\ key # p THEN carried \cup {key} ELSE carried
    /\ UNCHANGED <<test, sent, uses>>

Use == uses < MaxSent /\ uses' = uses + 1

\* A message goes to the provider there is; to the keyword matcher when none is.
chat ==
    /\ Use /\ resolve.config # None
    /\ sent' = sent \cup {<<resolve.provider, resolve.key>>}
    /\ UNCHANGED <<stored, readable, carried, test, saves>>

\* The test resolves the settings, then reads what is stored once more.
Resolve(p, key) ==
    /\ pc = "idle" /\ Use /\ pc' = "resolved" /\ saved' = resolve
    /\ form' = [provider |-> p, key |-> key]
    /\ UNCHANGED <<stored, readable, carried, sent, saves>>

Provider == IF form.provider = None THEN saved.provider ELSE form.provider

\* Mutant: the saved key is tried on whatever provider the form names.
AnySavedKey ==
    IF form.key # None THEN Provider
    ELSE IF stored # None THEN decrypt_secret(stored.key) ELSE saved.key
\* The saved key is used again only for the provider it was saved for.
TestKey ==
    IF form.key # None THEN Provider
    ELSE IF stored # None /\ stored.provider = Provider /\ stored.key # None
    THEN decrypt_secret(stored.key)
    ELSE IF saved.provider = Provider /\ saved.config # None THEN saved.key ELSE None

test_config ==
    /\ pc = "resolved" /\ pc' = "idle" /\ form' = None /\ saved' = None
    /\ LET known  == Provider # None
           \* Claude's client refuses to be built without a key.
           built  == Provider = "anthropic" => TestKey # None
       IN sent' = IF known /\ built THEN sent \cup {<<Provider, TestKey>>} ELSE sent
    /\ UNCHANGED <<stored, readable, carried, saves, uses>>

RotateSecret == readable /\ readable' = FALSE /\ UNCHANGED <<stored, carried, test, sent, saves, uses>>

Next ==
    \/ \E p \in PROVIDER_CATALOG, typed \in {"keep", "remove", "new"}, e \in BOOLEAN :
          put_config(p, typed, e)
    \/ chat
    \/ \E p \in Keys, k \in {None, "typed"} : Resolve(p, k)
    \/ test_config
    \/ RotateSecret

Spec == Init /\ [][Next]_vars

-----------------------------------------------------------------------------
(* Properties *)

\* "Reuse the saved key only for the provider it was saved for": a key goes to
\* no other provider, unless a save kept it while it changed the provider.
KeyGoesToItsProvider ==
    \A s \in sent : s[2] \in {None, s[1]} \cup carried

=============================================================================
