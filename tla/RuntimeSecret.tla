---------------------------- MODULE RuntimeSecret ----------------------------
(***************************************************************************)
(* The runtime secret of the account service, one document in Secrets      *)
(* Manager, and the three scripts that extend it: configure_accounts,      *)
(* configure_mail_archive_keys and activate_mail_ingest.  Each reads the   *)
(* document, prepares what its settings need (database, KMS, IAM) and      *)
(* writes a new version; none knows of the others.                         *)
(***************************************************************************)
EXTENDS Naturals, Sequences

CONSTANTS
  Operators,    \* people running a script
  Passwords,    \* passwords of the database user, drawn at random
  MaxVersions,  \* bound of the model
  None          \* "no such document, no such user"

\* What a script sets; mail is set by hand (NEKTRON_MAIL_OAUTH_ENABLED).
Settings == {"enabled", "keys", "ingest", "mail"}

Document == [password : Passwords, set : SUBSET Settings]

\* What has been provided outside the document.
Resources == {"tables", "grants", "policy", "registry", "kms", "kms policy"}

AccountSteps ==
  {"create secret", "create user", "log in", "grant", "put policy", "put accounts"}
KeySteps == {"registry", "try registry", "kms", "kms policy", "read again", "put keys"}
IngestSteps == {"prepare", "compare", "move"}

\* before and version: the document that was read and its version id.
Run ==
  [before : Document \cup {None}, version : Nat, password : Passwords \cup {None},
   prepared : Nat]

ASSUME BoundAssumption == MaxVersions \in Nat

ASSUME NullAssumption == None \notin Passwords \cup Document

VARIABLES
  versions,  \* versions of the document, by version id
  current,   \* the version labelled AWSCURRENT, 0 if there is no secret
  dbuser,    \* the password the database user was created with
  ready,     \* the resources that exist
  pc, run    \* where each operator's script is, and what it remembers

world == <<dbuser, ready>>
vars == <<versions, current, dbuser, ready, pc, run>>

NoRun == [before |-> None, version |-> 0, password |-> None, prepared |-> 0]

TypeOK ==
  /\ versions \in Seq(Document)
  /\ current \in 0 .. Len(versions)
  /\ dbuser \in Passwords \cup {None}
  /\ ready \subseteq Resources
  /\ pc \in [Operators -> {"idle"} \cup AccountSteps \cup KeySteps \cup IngestSteps]
  /\ run \in [Operators -> Run]

Init ==
  /\ versions = <<>>
  /\ current = 0
  /\ dbuser = None
  /\ ready = {}
  /\ pc = [o \in Operators |-> "idle"]
  /\ run = [o \in Operators |-> NoRun]

-------------------------------------------------------------------------------
(* Secrets Manager.                                                        *)

Exists == current # 0
Now == IF Exists THEN versions[current] ELSE None

MayWrite == Len(versions) < MaxVersions

\* PutSecretValue: the new version becomes current, whatever was before.
Put(d) ==
  /\ versions' = Append(versions, d)
  /\ current' = Len(versions) + 1

At(o, s) == pc[o] = s

Goto(o, s) == pc' = [pc EXCEPT ![o] = s]

End(o) ==
  /\ Goto(o, "idle")
  /\ run' = [run EXCEPT ![o] = NoRun]

Remember(o) == run' = [run EXCEPT ![o] = [NoRun EXCEPT !.before = Now, !.version = current]]

\* A step of script o that provides resource r and goes on to step s.
Provide(o, r, s) ==
  /\ ready' = ready \cup {r}
  /\ Goto(o, s)
  /\ UNCHANGED <<versions, current, dbuser, run>>

\* The database user with this password.
LoggedIn(p) == dbuser = p

-------------------------------------------------------------------------------
(* configure_accounts.                                                     *)

\* Mutant of ChosenPassword: none is generated.
ChosenPasswordStored(before, p) == IF before # None THEN before.password ELSE None

\* An existing document keeps its password.
ChosenPassword(before, p) == IF before # None THEN before.password ELSE p

\* Nobody has seen p: one that was drawn and forgotten is as good as new.
Fresh(p) ==
  /\ p # dbuser
  /\ \A v \in DOMAIN versions : versions[v].password # p
  /\ \A o \in Operators : run[o].password # p

\* The document is read, if there is one; tables are created; the rest of the
\* script works on what was read here.
ReadAccounts(o, p) ==
  /\ At(o, "idle")
  /\ Exists \/ Fresh(p)
  /\ ready' = ready \cup {"tables"}
  /\ run' = [run EXCEPT ![o] = [NoRun EXCEPT !.before = Now, !.version = current,
                                             !.password = ChosenPassword(Now, p)]]
  /\ Goto(o, IF Exists THEN "create user" ELSE "create secret")
  /\ UNCHANGED <<versions, current, dbuser>>

Kept(o) == IF run[o].before # None THEN run[o].before.set ELSE {}

\* Mutant of FirstSettings: the service is enabled from the start.
FirstSettingsEnabled == {"enabled"}

\* NEKTRON_ACCOUNT_ENABLED is "false" in the document that is created.
FirstSettings == {}

\* Mutant of CreateSecret: a document that has appeared meanwhile is replaced.
CreateSecretAnyway(o) ==
  /\ At(o, "create secret")
  /\ MayWrite
  /\ Put([password |-> run[o].password, set |-> FirstSettings])
  /\ Goto(o, "create user")
  /\ UNCHANGED <<world, run>>

\* The password is stored before it is used.  CreateSecret fails if the name is
\* taken.
CreateSecret(o) ==
  /\ At(o, "create secret")
  /\ ~Exists
  /\ MayWrite
  /\ Put([password |-> run[o].password, set |-> FirstSettings])
  /\ Goto(o, "create user")
  /\ UNCHANGED <<world, run>>

\* CREATE USER IF NOT EXISTS: an existing user keeps its password.
CreateUser(o) ==
  /\ At(o, "create user")
  /\ dbuser' = IF dbuser = None THEN run[o].password ELSE dbuser
  /\ Goto(o, "log in")
  /\ UNCHANGED <<versions, current, ready, run>>

\* Ownership is proved before anything is granted.
LogIn(o) ==
  /\ At(o, "log in")
  /\ LoggedIn(run[o].password)
  /\ Goto(o, "grant")
  /\ UNCHANGED <<versions, current, world, run>>

GrantTables(o) == At(o, "grant") /\ Provide(o, "grants", "put policy")

PutPolicy(o) == At(o, "put policy") /\ Provide(o, "policy", "put accounts")

\* The document read at the start, enabled.
PutAccounts(o) ==
  /\ At(o, "put accounts")
  /\ MayWrite
  /\ Put([password |-> run[o].password, set |-> Kept(o) \cup {"enabled"}])
  /\ End(o)
  /\ UNCHANGED world

-------------------------------------------------------------------------------
(* configure_mail_archive_keys.                                            *)

Reviewed(d) == d # None /\ "mail" \in d.set

ReadKeys(o) ==
  /\ At(o, "idle")
  /\ Reviewed(Now)
  /\ Remember(o)
  /\ Goto(o, "registry")
  /\ UNCHANGED <<versions, current, world>>

\* The table is created if it is missing; the grant needs the database user.
CreateRegistry(o) ==
  /\ At(o, "registry")
  /\ dbuser # None
  /\ Provide(o, "registry", "try registry")

TryRegistry(o) ==
  /\ At(o, "try registry")
  /\ LoggedIn(run[o].before.password)
  /\ Goto(o, "kms")
  /\ UNCHANGED <<versions, current, world, run>>

CreateKey(o) == At(o, "kms") /\ Provide(o, "kms", "kms policy")

PutKeyPolicy(o) == At(o, "kms policy") /\ Provide(o, "kms policy", "read again")

\* "Refresh the secret immediately before the additive update".
ReadKeysAgain(o) ==
  /\ At(o, "read again")
  /\ current = run[o].version
  /\ Goto(o, IF "keys" \in Now.set THEN "idle" ELSE "put keys")
  /\ run' = IF "keys" \in Now.set THEN [run EXCEPT ![o] = NoRun] ELSE run
  /\ UNCHANGED <<versions, current, world>>

PutKeys(o) ==
  /\ At(o, "put keys")
  /\ MayWrite
  /\ Put([run[o].before EXCEPT !.set = @ \cup {"keys"}])
  /\ End(o)
  /\ UNCHANGED world

-------------------------------------------------------------------------------
(* activate_mail_ingest.                                                   *)

ReadIngest(o) ==
  /\ At(o, "idle")
  /\ Reviewed(Now)
  /\ "ingest" \notin Now.set
  /\ Remember(o)
  /\ Goto(o, "prepare")
  /\ UNCHANGED <<versions, current, world>>

\* merge_flag.
WithFlag(d) == [d EXCEPT !.set = @ \cup {"ingest"}]

\* PutSecretValue with a label of its own: the current version stays.
Prepare(o) ==
  /\ At(o, "prepare")
  /\ MayWrite
  /\ versions' = Append(versions, WithFlag(run[o].before))
  /\ run' = [run EXCEPT ![o].prepared = Len(versions) + 1]
  /\ Goto(o, "compare")
  /\ UNCHANGED <<current, world>>

Compare(o) ==
  /\ At(o, "compare")
  /\ current = run[o].version
  /\ Goto(o, "move")
  /\ UNCHANGED <<versions, current, world, run>>

\* Mutant of Move: the label is moved from wherever it is.
MoveAnyway(o) ==
  /\ At(o, "move")
  /\ current' = run[o].prepared
  /\ End(o)
  /\ UNCHANGED <<versions, world>>

\* UpdateSecretVersionStage is refused unless RemoveFromVersionId is current.
\* The script then reads the result and removes its own label.
Move(o) ==
  /\ At(o, "move")
  /\ current = run[o].version
  /\ current' = run[o].prepared
  /\ End(o)
  /\ UNCHANGED <<versions, world>>

-------------------------------------------------------------------------------
\* A check fails, a service refuses or does not answer, the operator gives up.
Abandon(o) ==
  /\ ~At(o, "idle")
  /\ End(o)
  /\ UNCHANGED <<versions, current, world>>

\* The remaining settings are edited in the console.
EditByHand ==
  /\ Exists
  /\ "mail" \notin Now.set
  /\ MayWrite
  /\ Put([Now EXCEPT !.set = @ \cup {"mail"}])
  /\ UNCHANGED <<world, pc, run>>

ConfigureAccounts(o) ==
  \/ \E p \in Passwords : ReadAccounts(o, p)
  \/ CreateSecret(o) \/ CreateUser(o) \/ LogIn(o)
  \/ GrantTables(o) \/ PutPolicy(o) \/ PutAccounts(o)

ConfigureKeys(o) ==
  \/ ReadKeys(o) \/ CreateRegistry(o) \/ TryRegistry(o)
  \/ CreateKey(o) \/ PutKeyPolicy(o) \/ ReadKeysAgain(o) \/ PutKeys(o)

ActivateIngest(o) == ReadIngest(o) \/ Prepare(o) \/ Compare(o) \/ Move(o)

Next ==
  \/ EditByHand
  \/ \E o \in Operators :
       ConfigureAccounts(o) \/ ConfigureKeys(o) \/ ActivateIngest(o) \/ Abandon(o)

Spec == Init /\ [][Next]_vars

-------------------------------------------------------------------------------
(* What must hold.                                                         *)

(* The password the database user was created with is in the current       *)
(* document, from before the user exists and in spite of every script that *)
(* stopped half-way or writes back an old document: it exists nowhere      *)
(* else.                                                                   *)
PasswordKept == dbuser # None => Exists /\ Now.password = dbuser

(* A setting that switches a feature on is in the current document only    *)
(* when all that the feature needs is in place.                            *)
SettingsAreBacked ==
  Exists =>
    /\ "enabled" \in Now.set => {"tables", "grants", "policy"} \subseteq ready
    /\ "keys" \in Now.set => {"registry", "kms", "kms policy"} \subseteq ready

(* The activation of one flag changes one flag: whatever other scripts     *)
(* write meanwhile, the document that becomes current is the one it        *)
(* replaces and the flag.                                                  *)
ActivationIsExact ==
  [][\A o \in Operators : At(o, "move") /\ current' = run[o].prepared
       => Now' = WithFlag(Now)]_vars

(* As the comments of both scripts have it: configure_accounts preserves   *)
(* prior settings, configure_mail_archive_keys every unrelated field.  It  *)
(* is said here of what the scripts store, edits by hand apart.            *)
NothingIsLost == [][Exists => Now.set \ {"mail"} \subseteq Now'.set]_vars
===============================================================================
