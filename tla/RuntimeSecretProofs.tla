-------------------------- MODULE RuntimeSecretProofs --------------------------
(***************************************************************************)
(* Proofs about RuntimeSecret, for any number of operators, passwords and  *)
(* versions.                                                               *)
(*                                                                         *)
(* Versions are only ever added, and all of them carry one password, the   *)
(* one the secret was created with.  So a script that holds an old         *)
(* document may lose settings, but not the password; and it can store no   *)
(* setting that was not backed when it was first stored (Knows).           *)
(***************************************************************************)
EXTENDS RuntimeSecret, SequenceTheorems, TLAPS

\* A document with a feature in it has what the feature needs.
Backed(d) ==
  /\ "enabled" \in d.set => {"tables", "grants", "policy"} \subseteq ready
  /\ "keys" \in d.set => {"registry", "kms", "kms policy"} \subseteq ready

\* What script o holds is a version that was current.
HoldsVersion(o) ==
  /\ run[o].before \in Document
  /\ run[o].version \in DOMAIN versions
  /\ versions[run[o].version] = run[o].before

\* Stages of configure_accounts at which a secret exists.
Settled == AccountSteps \ {"create secret"}

\* Stages of activate_mail_ingest at which its candidate is stored.
Prepared == {"compare", "move"}

(* What script o knows at each of its stages.                              *)
Knows(o) ==
  /\ run[o].before # None => HoldsVersion(o)
  /\ pc[o] \in KeySteps \cup IngestSteps => run[o].before # None
  /\ pc[o] \in AccountSteps => run[o].password \in Passwords /\ "tables" \in ready
  /\ pc[o] \in Settled => Exists /\ run[o].password = versions[1].password
  /\ pc[o] \in {"put policy", "put accounts"} => "grants" \in ready
  /\ pc[o] = "put accounts" => "policy" \in ready
  /\ pc[o] \in {"try registry", "kms", "kms policy", "read again", "put keys"} =>
       "registry" \in ready
  /\ pc[o] \in {"kms policy", "read again", "put keys"} => "kms" \in ready
  /\ pc[o] \in {"read again", "put keys"} => "kms policy" \in ready
  /\ pc[o] \in Prepared =>
       /\ run[o].prepared \in DOMAIN versions
       /\ run[o].prepared # current
       /\ versions[run[o].prepared] = WithFlag(run[o].before)

\* No two scripts have the same candidate.
OwnCandidates ==
  \A o, q \in Operators :
    pc[o] \in Prepared /\ pc[q] \in Prepared /\ run[o].prepared = run[q].prepared => o = q

\* The document, from its first version on.
VersionsGood ==
  /\ current = 0 => versions = <<>>
  /\ \A v \in DOMAIN versions :
       /\ versions[v].password = versions[1].password
       /\ Backed(versions[v])
  /\ dbuser # None => Exists /\ dbuser = versions[1].password

SInv ==
  /\ TypeOK
  /\ \A o \in Operators : Knows(o)
  /\ OwnCandidates
  /\ VersionsGood

\* What no step takes back.
Growing ==
  /\ \A v \in DOMAIN versions : v \in DOMAIN versions' /\ versions'[v] = versions[v]
  /\ ready \subseteq ready'
  /\ Exists => Exists'

\* The candidate of a script is not what becomes current.
Spares(o) == pc[o] \in Prepared => run[o].prepared # current'

Stages == {"idle"} \cup AccountSteps \cup KeySteps \cup IngestSteps

-------------------------------------------------------------------------------
(* Documents, versions and scripts.                                        *)

LEMMA DocumentFacts ==
  ASSUME NEW d \in Document
  PROVE  /\ d.password \in Passwords /\ d.set \in SUBSET Settings /\ d # None
         /\ \A x \in Settings :
              /\ [d EXCEPT !.set = @ \cup {x}] \in Document
              /\ [d EXCEPT !.set = @ \cup {x}].password = d.password
              /\ [d EXCEPT !.set = @ \cup {x}].set = d.set \cup {x}
         /\ WithFlag(d) \in Document /\ WithFlag(d).password = d.password
         /\ WithFlag(d).set = d.set \cup {"ingest"}
BY NullAssumption DEF Document, Settings, WithFlag

LEMMA VersionFacts ==
  ASSUME SInv
  PROVE  /\ versions \in Seq(Document) /\ Len(versions) \in Nat
         /\ DOMAIN versions = 1 .. Len(versions)
         /\ \A v \in DOMAIN versions : versions[v] \in Document
         /\ current \in 0 .. Len(versions)
         /\ Exists <=> 1 \in DOMAIN versions
         /\ Exists => current \in DOMAIN versions /\ Now = versions[current]
                      /\ Now \in Document /\ Now.password = versions[1].password /\ Backed(Now)
         /\ ~Exists => Now = None
<1>1. versions \in Seq(Document) /\ Len(versions) \in Nat /\ DOMAIN versions = 1 .. Len(versions)
      /\ current \in 0 .. Len(versions)
  BY LenProperties DEF SInv, TypeOK
<1>2. \A v \in DOMAIN versions : versions[v] \in Document
  BY <1>1, ElementOfSeq
<1>3. current = 0 => Len(versions) = 0
  BY EmptySeq DEF SInv, VersionsGood
<1>4. Exists <=> 1 \in DOMAIN versions
  BY <1>1, <1>3 DEF Exists
<1>5. Exists => current \in DOMAIN versions /\ Now = versions[current]
  BY <1>1 DEF Exists, Now
<1> QED BY <1>1, <1>2, <1>4, <1>5 DEF SInv, VersionsGood, Now

LEMMA RunFacts ==
  ASSUME SInv, NEW o \in Operators
  PROVE  /\ Knows(o) /\ pc[o] \in Stages /\ run[o] \in Run
         /\ run[o].before # None =>
              /\ run[o].before \in Document /\ Exists
              /\ run[o].before.password = versions[1].password
              /\ Backed(run[o].before)
<1>1. Knows(o) /\ pc[o] \in Stages /\ run[o] \in Run
  BY DEF SInv, TypeOK, Stages
<1>2. run[o].before # None => HoldsVersion(o)
  BY <1>1 DEF Knows
<1>3. run[o].before # None => Exists
  BY <1>2, VersionFacts DEF HoldsVersion
<1> QED BY <1>1, <1>2, <1>3 DEF HoldsVersion, SInv, VersionsGood

\* Script o moves to stage s, remembering r.
LEMMA ScriptMoves ==
  ASSUME SInv, NEW o \in Operators, NEW s \in Stages, NEW r \in Run,
         pc' = [pc EXCEPT ![o] = s], run' = [run EXCEPT ![o] = r]
  PROVE  /\ pc' \in [Operators -> Stages] /\ run' \in [Operators -> Run]
         /\ pc'[o] = s /\ run'[o] = r
         /\ \A q \in Operators \ {o} : pc'[q] = pc[q] /\ run'[q] = run[q]
BY DEF SInv, TypeOK, Stages

\* A script that did not move knows what it knew.
LEMMA KnowsKept ==
  ASSUME SInv, Growing, NEW o \in Operators, pc'[o] = pc[o], run'[o] = run[o], Spares(o)
  PROVE  Knows(o)'
<1>1. Knows(o)
  BY DEF SInv
<1>2. Exists => Exists' /\ versions'[1] = versions[1]
  BY VersionFacts DEF Growing
<1>3. run'[o].before # None => HoldsVersion(o)'
  BY <1>1 DEF Knows, HoldsVersion, Growing
<1>4. pc'[o] \in Prepared =>
        /\ run'[o].prepared \in DOMAIN versions'
        /\ run'[o].prepared # current'
        /\ versions'[run'[o].prepared] = WithFlag(run'[o].before)
  BY <1>1 DEF Knows, Spares, Growing
<1> QED BY <1>1, <1>2, <1>3, <1>4 DEF Knows, Growing

\* The invariant, from what the one script that moved knows afterwards.
LEMMA OneMoves ==
  ASSUME SInv, Growing, VersionsGood',
         versions' \in Seq(Document), current' \in 0 .. Len(versions'),
         dbuser' \in Passwords \cup {None}, ready' \subseteq Resources,
         NEW o \in Operators, NEW s \in Stages, NEW r \in Run,
         pc' = [pc EXCEPT ![o] = s], run' = [run EXCEPT ![o] = r],
         \A q \in Operators \ {o} : Spares(q),
         pc'[o] = s /\ run'[o] = r => Knows(o)',
         s \in Prepared =>
           \A q \in Operators \ {o} : pc[q] \in Prepared => run[q].prepared # r.prepared
  PROVE  SInv'
<1>1. /\ pc' \in [Operators -> Stages] /\ run' \in [Operators -> Run]
      /\ pc'[o] = s /\ run'[o] = r
      /\ \A q \in Operators \ {o} : pc'[q] = pc[q] /\ run'[q] = run[q]
  BY ScriptMoves
<1>2. TypeOK'
  BY <1>1 DEF TypeOK, Stages
<1>3. \A q \in Operators : Knows(q)'
  BY <1>1, KnowsKept
<1>4. OwnCandidates'
  BY <1>1 DEF SInv, OwnCandidates
<1> QED BY <1>2, <1>3, <1>4 DEF SInv

\* Nothing but the script itself and the resources changes.
LEMMA NoVersion ==
  ASSUME SInv, UNCHANGED <<versions, current, dbuser>>, ready \subseteq ready',
         ready' \subseteq Resources
  PROVE  /\ Growing /\ VersionsGood'
         /\ versions' \in Seq(Document) /\ current' \in 0 .. Len(versions')
         /\ dbuser' \in Passwords \cup {None}
         /\ \A q \in Operators : Spares(q)
<1>1. Growing
  BY DEF Growing, Exists
<1>2. VersionsGood'
  BY DEF SInv, VersionsGood, Backed, Exists
<1>3. \A q \in Operators : Spares(q)
  BY DEF SInv, Knows, Spares
<1> QED BY <1>1, <1>2, <1>3 DEF SInv, TypeOK

\* A new version, of the password all others have, becomes current.
LEMMA PutEffect ==
  ASSUME SInv, NEW d \in Document, Put(d), UNCHANGED world, Backed(d),
         Exists => d.password = versions[1].password
  PROVE  /\ Growing /\ VersionsGood'
         /\ versions' \in Seq(Document) /\ current' \in 0 .. Len(versions')
         /\ dbuser' \in Passwords \cup {None} /\ ready' \subseteq Resources
         /\ \A q \in Operators : Spares(q)
         /\ Exists' /\ Now' = d /\ d.password = versions'[1].password
<1>1. /\ versions' \in Seq(Document) /\ Len(versions') = Len(versions) + 1
      /\ DOMAIN versions' = 1 .. Len(versions) + 1
      /\ \A v \in DOMAIN versions : versions'[v] = versions[v]
      /\ versions'[Len(versions) + 1] = d /\ current' = Len(versions) + 1
  BY VersionFacts, AppendProperties, LenProperties DEF Put
<1>2. dbuser' = dbuser /\ ready' = ready
  BY DEF world
<1>3. Len(versions) \in Nat /\ DOMAIN versions = 1 .. Len(versions) /\ current \in 0 .. Len(versions)
  BY VersionFacts
<1>4. Growing /\ Exists' /\ Now' = d
  BY <1>1, <1>2, <1>3 DEF Growing, Exists, Now
<1>5. /\ Exists => versions'[1] = versions[1]
      /\ ~Exists => Len(versions) = 0 /\ versions'[1] = d
  BY <1>1, <1>3, VersionFacts
<1>6. VersionsGood'
  <2>1. d.password = versions'[1].password
    BY <1>5
  <2>2. ASSUME NEW v \in DOMAIN versions'
        PROVE  /\ versions'[v].password = versions'[1].password
               /\ "enabled" \in versions'[v].set => {"tables", "grants", "policy"} \subseteq ready'
               /\ "keys" \in versions'[v].set => {"registry", "kms", "kms policy"} \subseteq ready'
    <3>1. CASE v = Len(versions) + 1
      BY <1>1, <1>2, <2>1, <3>1 DEF Backed
    <3>2. CASE v # Len(versions) + 1
      <4>1. v \in DOMAIN versions /\ Exists /\ versions'[v] = versions[v]
        BY <1>1, <1>3, <3>2, VersionFacts
      <4>2. versions[v].password = versions[1].password /\ Backed(versions[v])
        BY <4>1 DEF SInv, VersionsGood
      <4> QED BY <1>2, <1>5, <4>1, <4>2 DEF Backed
    <3> QED BY <3>1, <3>2
  <2>3. dbuser' # None => dbuser' = versions'[1].password
    BY <1>2, <1>5 DEF SInv, VersionsGood
  <2>4. current' # 0
    BY <1>4 DEF Exists
  <2> QED BY <1>4, <2>2, <2>3, <2>4 DEF VersionsGood, Backed
<1>7. ASSUME NEW q \in Operators, pc[q] \in Prepared
      PROVE  run[q].prepared # current'
  <2>1. run[q].prepared \in 1 .. Len(versions)
    BY <1>3, <1>7 DEF SInv, Knows
  <2> QED BY <1>1, <1>3, <2>1
<1>8. current' \in 0 .. Len(versions')
  BY <1>1, <1>3
<1> QED BY <1>1, <1>2, <1>4, <1>5, <1>6, <1>7, <1>8 DEF SInv, TypeOK, Spares

-------------------------------------------------------------------------------
(* configure_accounts.                                                     *)

LEMMA NoRunFacts ==
  /\ NoRun \in Run /\ NoRun.before = None /\ "idle" \in Stages
BY DEF NoRun, Run, Stages

\* A script that has ended knows nothing.
LEMMA Ended ==
  ASSUME NEW o \in Operators, pc'[o] = "idle", run'[o] = NoRun
  PROVE  Knows(o)'
BY NoRunFacts DEF Knows, AccountSteps, KeySteps, IngestSteps, Settled, Prepared

LEMMA ReadAccountsStep ==
  ASSUME SInv, NEW o \in Operators, NEW p \in Passwords, ReadAccounts(o, p)
  PROVE  SInv'
<1> DEFINE r == [NoRun EXCEPT !.before = Now, !.version = current,
                              !.password = ChosenPassword(Now, p)]
           s == IF Exists THEN "create user" ELSE "create secret"
<1>1. /\ pc' = [pc EXCEPT ![o] = s] /\ run' = [run EXCEPT ![o] = r]
      /\ ready' = ready \cup {"tables"} /\ UNCHANGED <<versions, current, dbuser>>
  BY DEF ReadAccounts, Goto
<1>2. ready \subseteq ready' /\ ready' \subseteq Resources /\ "tables" \in ready'
  BY <1>1 DEF SInv, TypeOK, Resources
<1>3. /\ Exists => Now \in Document /\ Now # None /\ Now.password \in Passwords
      /\ ChosenPassword(Now, p) \in Passwords
      /\ Exists => ChosenPassword(Now, p) = versions[1].password
      /\ Now \in Document \cup {None} /\ current \in Nat
  BY VersionFacts, DocumentFacts DEF ChosenPassword
<1>4. /\ r \in Run /\ r.before = Now /\ r.version = current /\ r.password = ChosenPassword(Now, p)
  BY <1>3 DEF NoRun, Run
<1>5. s \in Stages /\ s \notin Prepared
  BY DEF Stages, AccountSteps, Prepared
<1> HIDE DEF r
<1>6. ASSUME pc'[o] = s, run'[o] = r PROVE Knows(o)'
  <2>1. versions' = versions /\ current' = current /\ (Exists' <=> Exists)
    BY <1>1 DEF Exists
  <2>2. run'[o].before # None => HoldsVersion(o)'
    BY <1>3, <1>4, <1>6, <2>1, VersionFacts DEF HoldsVersion
  <2>3. pc'[o] \in {"create user", "create secret"} /\ (pc'[o] = "create user" => Exists)
    BY <1>6
  <2> QED BY <1>2, <1>3, <1>4, <1>6, <2>1, <2>2, <2>3
         DEF Knows, Settled, Prepared, AccountSteps, KeySteps, IngestSteps
<1> HIDE DEF s
<1> QED BY <1>1, <1>2, <1>4, <1>5, <1>6, NoVersion, OneMoves

LEMMA CreateSecretStep ==
  ASSUME SInv, NEW o \in Operators, CreateSecret(o)
  PROVE  SInv'
<1> DEFINE d == [password |-> run[o].password, set |-> FirstSettings]
<1>1. /\ pc[o] = "create secret" /\ ~Exists /\ Put(d) /\ UNCHANGED world /\ run' = run
      /\ pc' = [pc EXCEPT ![o] = "create user"]
  BY DEF CreateSecret, At, Goto
<1>2. Knows(o) /\ run[o] \in Run /\ run[o].password \in Passwords /\ "tables" \in ready
  BY <1>1, RunFacts DEF Knows, AccountSteps
<1>3. d \in Document /\ Backed(d) /\ d.password = run[o].password
  BY <1>2 DEF Document, Backed, FirstSettings
<1> HIDE DEF d
<1>4. /\ Growing /\ VersionsGood'
      /\ versions' \in Seq(Document) /\ current' \in 0 .. Len(versions')
      /\ dbuser' \in Passwords \cup {None} /\ ready' \subseteq Resources
      /\ \A q \in Operators : Spares(q)
      /\ Exists' /\ d.password = versions'[1].password
  BY <1>1, <1>3, PutEffect
<1>5. run' = [run EXCEPT ![o] = run[o]] /\ "create user" \in Stages /\ "create user" \notin Prepared
  BY <1>1 DEF SInv, TypeOK, Stages, AccountSteps, Prepared
<1>6. ASSUME pc'[o] = "create user", run'[o] = run[o] PROVE Knows(o)'
  <2>1. run'[o].before # None => HoldsVersion(o)'
    BY <1>2, <1>4, <1>6 DEF Knows, HoldsVersion, Growing
  <2>2. "tables" \in ready'
    BY <1>2, <1>4 DEF Growing
  <2> QED BY <1>2, <1>3, <1>4, <1>6, <2>1, <2>2
         DEF Knows, Settled, Prepared, AccountSteps, KeySteps, IngestSteps
<1> QED BY <1>1, <1>2, <1>4, <1>5, <1>6, OneMoves

LEMMA CreateUserStep ==
  ASSUME SInv, NEW o \in Operators, CreateUser(o)
  PROVE  SInv'
<1>1. /\ pc[o] = "create user" /\ UNCHANGED <<versions, current, ready, run>>
      /\ dbuser' = IF dbuser = None THEN run[o].password ELSE dbuser
      /\ pc' = [pc EXCEPT ![o] = "log in"]
  BY DEF CreateUser, At, Goto
<1>2. /\ Knows(o) /\ run[o] \in Run /\ run[o].password \in Passwords
      /\ Exists /\ run[o].password = versions[1].password
  BY <1>1, RunFacts DEF Knows, Settled, AccountSteps
<1>3. Growing /\ (Exists' <=> Exists)
  BY <1>1 DEF Growing, Exists
<1>4. VersionsGood'
  BY <1>1, <1>2, <1>3 DEF SInv, VersionsGood, Backed
<1>5. /\ versions' \in Seq(Document) /\ current' \in 0 .. Len(versions')
      /\ dbuser' \in Passwords \cup {None} /\ ready' \subseteq Resources
  BY <1>1, <1>2 DEF SInv, TypeOK
<1>6. \A q \in Operators : Spares(q)
  BY <1>1 DEF SInv, Knows, Spares
<1>7. run' = [run EXCEPT ![o] = run[o]] /\ "log in" \in Stages /\ "log in" \notin Prepared
  BY <1>1 DEF SInv, TypeOK, Stages, AccountSteps, Prepared
<1>8. ASSUME pc'[o] = "log in", run'[o] = run[o] PROVE Knows(o)'
  BY <1>1, <1>2, <1>3, <1>8
     DEF Knows, HoldsVersion, Settled, Prepared, AccountSteps, KeySteps, IngestSteps
<1> QED BY <1>1, <1>2, <1>3, <1>4, <1>5, <1>6, <1>7, <1>8, OneMoves

\* Script o goes on, and at most a resource is added.
LEMMA GoesOn ==
  ASSUME SInv, NEW o \in Operators, NEW s \in Stages, pc' = [pc EXCEPT ![o] = s],
         UNCHANGED <<versions, current, dbuser, run>>, ready \subseteq ready',
         ready' \subseteq Resources, s \in Prepared => pc[o] \in Prepared,
         pc'[o] = s /\ run'[o] = run[o] => Knows(o)'
  PROVE  SInv'
<1>1. run[o] \in Run /\ run' = [run EXCEPT ![o] = run[o]]
  BY DEF SInv, TypeOK
<1>2. s \in Prepared =>
        \A q \in Operators \ {o} : pc[q] \in Prepared => run[q].prepared # run[o].prepared
  BY DEF SInv, OwnCandidates
<1> QED BY <1>1, <1>2, NoVersion, OneMoves

LEMMA LogInStep ==
  ASSUME SInv, NEW o \in Operators, LogIn(o)
  PROVE  SInv'
<1>1. /\ pc[o] = "log in" /\ pc' = [pc EXCEPT ![o] = "grant"]
      /\ UNCHANGED <<versions, current, dbuser, ready, run>>
  BY DEF LogIn, At, Goto, world
<1>2. Knows(o) /\ ready \subseteq Resources
  BY DEF SInv, TypeOK
<1>3. "grant" \in Stages /\ "grant" \notin Prepared
  BY DEF Stages, AccountSteps, Prepared
<1>4. ASSUME pc'[o] = "grant", run'[o] = run[o] PROVE Knows(o)'
  BY <1>1, <1>2, <1>4
     DEF Knows, HoldsVersion, Exists, Settled, Prepared, AccountSteps, KeySteps, IngestSteps
<1> QED BY <1>1, <1>2, <1>3, <1>4, GoesOn

\* A resource is provided at stage t, and the script goes on to stage s.
LEMMA ProvideStep ==
  ASSUME SInv, NEW o \in Operators, NEW x \in Resources,
         NEW t, NEW s \in AccountSteps \cup KeySteps, pc[o] = t, Provide(o, x, s),
         <<t, x, s>> \in {<<"grant", "grants", "put policy">>,
                          <<"put policy", "policy", "put accounts">>,
                          <<"registry", "registry", "try registry">>,
                          <<"kms", "kms", "kms policy">>,
                          <<"kms policy", "kms policy", "read again">>}
  PROVE  SInv'
<1>1. /\ pc' = [pc EXCEPT ![o] = s] /\ ready' = ready \cup {x}
      /\ UNCHANGED <<versions, current, dbuser, run>>
  BY DEF Provide, Goto
<1>2. Knows(o) /\ ready' \subseteq Resources /\ ready \subseteq ready' /\ x \in ready'
  BY <1>1 DEF SInv, TypeOK
<1>3. s \in Stages /\ s \notin Prepared
  BY DEF Stages, AccountSteps, KeySteps, Prepared
<1>4. ASSUME pc'[o] = s, run'[o] = run[o] PROVE Knows(o)'
  <2>1. run'[o].before # None => HoldsVersion(o)'
    BY <1>1, <1>2, <1>4 DEF Knows, HoldsVersion
  <2>2. Exists' <=> Exists
    BY <1>1 DEF Exists
  <2>3. CASE s \in AccountSteps
    BY <1>1, <1>2, <1>4, <2>1, <2>2, <2>3
       DEF Knows, Settled, Prepared, AccountSteps, KeySteps, IngestSteps
  <2>4. CASE s \in KeySteps
    BY <1>1, <1>2, <1>4, <2>1, <2>2, <2>4
       DEF Knows, Settled, Prepared, AccountSteps, KeySteps, IngestSteps
  <2> QED BY <2>3, <2>4
<1> QED BY <1>1, <1>2, <1>3, <1>4, GoesOn

\* The script has stored d and ends.
LEMMA PutAndEnd ==
  ASSUME SInv, NEW o \in Operators, NEW d \in Document, Put(d), End(o), UNCHANGED world,
         Backed(d), Exists => d.password = versions[1].password
  PROVE  SInv'
<1>1. pc' = [pc EXCEPT ![o] = "idle"] /\ run' = [run EXCEPT ![o] = NoRun]
  BY DEF End, Goto
<1>2. "idle" \notin Prepared
  BY DEF Prepared
<1> QED BY <1>1, <1>2, NoRunFacts, Ended, PutEffect, OneMoves

LEMMA PutAccountsStep ==
  ASSUME SInv, NEW o \in Operators, PutAccounts(o)
  PROVE  SInv'
<1> DEFINE d == [password |-> run[o].password, set |-> Kept(o) \cup {"enabled"}]
<1>1. pc[o] = "put accounts" /\ Put(d) /\ End(o) /\ UNCHANGED world
  BY DEF PutAccounts, At
<1>2. /\ run[o].password \in Passwords /\ run[o].password = versions[1].password
      /\ {"tables", "grants", "policy"} \subseteq ready
  BY <1>1, RunFacts DEF Knows, Settled, AccountSteps
<1>3. Kept(o) \in SUBSET Settings /\ ("keys" \in Kept(o) => {"registry", "kms", "kms policy"} \subseteq ready)
  BY RunFacts, DocumentFacts DEF Kept, Backed
<1>4. d \in Document /\ Backed(d) /\ d.password = versions[1].password
  BY <1>2, <1>3 DEF Document, Backed, Settings
<1> HIDE DEF d
<1> QED BY <1>1, <1>4, PutAndEnd

-------------------------------------------------------------------------------
(* configure_mail_archive_keys and activate_mail_ingest.                   *)

\* ReadKeys and ReadIngest: the current document is remembered.
LEMMA RememberStep ==
  ASSUME SInv, NEW o \in Operators, NEW s \in {"registry", "prepare"}, Reviewed(Now),
         Remember(o), Goto(o, s), UNCHANGED <<versions, current, world>>
  PROVE  SInv'
<1> DEFINE r == [NoRun EXCEPT !.before = Now, !.version = current]
<1>1. /\ pc' = [pc EXCEPT ![o] = s] /\ run' = [run EXCEPT ![o] = r]
      /\ UNCHANGED <<versions, current, dbuser, ready>> /\ Now # None
  BY DEF Remember, Goto, world, Reviewed
<1>2. /\ Exists /\ Now \in Document /\ current \in DOMAIN versions /\ Now = versions[current]
      /\ current \in Nat
  BY <1>1, VersionFacts
<1>3. r \in Run /\ r.before = Now /\ r.version = current
  BY <1>2 DEF NoRun, Run
<1>4. s \in Stages /\ s \notin Prepared
  BY DEF Stages, KeySteps, IngestSteps, Prepared
<1> HIDE DEF r
<1>5. ASSUME pc'[o] = s, run'[o] = r PROVE Knows(o)'
  <2>1. HoldsVersion(o)' /\ run'[o].before # None
    BY <1>1, <1>2, <1>3, <1>5 DEF HoldsVersion
  <2> QED BY <1>5, <2>1 DEF Knows, Settled, Prepared, AccountSteps
<1>6. ready \subseteq ready' /\ ready' \subseteq Resources
  BY <1>1 DEF SInv, TypeOK
<1> QED BY <1>1, <1>3, <1>4, <1>5, <1>6, NoVersion, OneMoves

\* TryRegistry and Compare: a check passes.
LEMMA CheckStep ==
  ASSUME SInv, NEW o \in Operators, UNCHANGED <<versions, current, world, run>>,
         NEW s, Goto(o, s),
         \/ pc[o] = "try registry" /\ s = "kms"
         \/ pc[o] = "compare" /\ s = "move"
         \/ pc[o] = "read again" /\ s = "put keys"
  PROVE  SInv'
<1>1. pc' = [pc EXCEPT ![o] = s] /\ UNCHANGED <<versions, current, dbuser, ready, run>>
  BY DEF Goto, world
<1>2. Knows(o) /\ ready \subseteq Resources
  BY DEF SInv, TypeOK
<1>3. s \in Stages /\ (s \in Prepared => pc[o] \in Prepared)
  BY DEF Stages, KeySteps, IngestSteps, Prepared
<1>4. ASSUME pc'[o] = s, run'[o] = run[o] PROVE Knows(o)'
  BY <1>1, <1>2, <1>4
     DEF Knows, HoldsVersion, Exists, Settled, Prepared, AccountSteps, KeySteps, IngestSteps
<1> QED BY <1>1, <1>2, <1>3, <1>4, GoesOn

\* A script ends, and no version is written.
LEMMA EndStep ==
  ASSUME SInv, NEW o \in Operators, End(o), UNCHANGED <<versions, current, world>>
  PROVE  SInv'
<1>1. /\ pc' = [pc EXCEPT ![o] = "idle"] /\ run' = [run EXCEPT ![o] = NoRun]
      /\ UNCHANGED <<versions, current, dbuser, ready>>
  BY DEF End, Goto, world
<1>2. "idle" \notin Prepared /\ ready \subseteq Resources
  BY DEF Prepared, SInv, TypeOK
<1> QED BY <1>1, <1>2, NoRunFacts, Ended, NoVersion, OneMoves

LEMMA PutKeysStep ==
  ASSUME SInv, NEW o \in Operators, PutKeys(o)
  PROVE  SInv'
<1> DEFINE d == [run[o].before EXCEPT !.set = @ \cup {"keys"}]
<1>1. pc[o] = "put keys" /\ Put(d) /\ End(o) /\ UNCHANGED world
  BY DEF PutKeys, At
<1>2. run[o].before # None /\ {"registry", "kms", "kms policy"} \subseteq ready
  BY <1>1, RunFacts DEF Knows, KeySteps
<1>3. /\ run[o].before \in Document /\ run[o].before.password = versions[1].password
      /\ Backed(run[o].before)
  BY <1>2, RunFacts
<1>4. /\ d \in Document /\ d.password = run[o].before.password
      /\ d.set = run[o].before.set \cup {"keys"}
  BY <1>3, DocumentFacts DEF Settings
<1> HIDE DEF d
<1>5. Backed(d)
  BY <1>2, <1>3, <1>4 DEF Backed
<1> QED BY <1>1, <1>3, <1>4, <1>5, PutAndEnd

LEMMA PrepareStep ==
  ASSUME SInv, NEW o \in Operators, Prepare(o)
  PROVE  SInv'
<1> DEFINE n == Len(versions) + 1
           b == run[o].before
           r == [run[o] EXCEPT !.prepared = n]
<1>1. /\ pc[o] = "prepare" /\ versions' = Append(versions, WithFlag(b))
      /\ run' = [run EXCEPT ![o] = r] /\ pc' = [pc EXCEPT ![o] = "compare"]
      /\ UNCHANGED <<current, dbuser, ready>>
  BY DEF Prepare, At, Goto, world
<1>2. /\ Knows(o) /\ run[o] \in Run /\ b # None /\ b \in Document /\ Exists
      /\ b.password = versions[1].password /\ Backed(b)
  BY <1>1, RunFacts DEF Knows, IngestSteps
<1>3. /\ WithFlag(b) \in Document /\ WithFlag(b).password = b.password /\ Backed(WithFlag(b))
  <2> HIDE DEF b
  <2>1. /\ WithFlag(b) \in Document /\ WithFlag(b).password = b.password
        /\ WithFlag(b).set = b.set \cup {"ingest"}
    BY <1>2, DocumentFacts
  <2> QED BY <1>2, <2>1 DEF Backed
<1>4. Len(versions) \in Nat /\ DOMAIN versions = 1 .. Len(versions) /\ current \in 0 .. Len(versions)
      /\ versions \in Seq(Document) /\ 1 \in DOMAIN versions
  BY <1>2, VersionFacts
<1> HIDE DEF b
<1>5. /\ versions' \in Seq(Document) /\ Len(versions') = n /\ DOMAIN versions' = 1 .. n
      /\ \A v \in DOMAIN versions : versions'[v] = versions[v]
      /\ versions'[n] = WithFlag(b)
  BY <1>1, <1>3, <1>4, AppendProperties, LenProperties
<1>6. Growing /\ (Exists' <=> Exists)
  BY <1>1, <1>4, <1>5 DEF Growing, Exists
<1>7. VersionsGood'
  <2>1. ASSUME NEW v \in DOMAIN versions'
        PROVE  /\ versions'[v].password = versions'[1].password
               /\ "enabled" \in versions'[v].set => {"tables", "grants", "policy"} \subseteq ready'
               /\ "keys" \in versions'[v].set => {"registry", "kms", "kms policy"} \subseteq ready'
    <3>1. versions'[1] = versions[1]
      BY <1>4, <1>5
    <3>2. CASE v = n
      BY <1>1, <1>2, <1>3, <1>5, <3>1, <3>2 DEF Backed, b
    <3>3. CASE v # n
      <4>1. v \in DOMAIN versions /\ versions'[v] = versions[v]
        BY <1>4, <1>5, <3>3
      <4>2. versions[v].password = versions[1].password /\ Backed(versions[v])
        BY <4>1 DEF SInv, VersionsGood
      <4> QED BY <1>1, <3>1, <4>1, <4>2 DEF Backed
    <3> QED BY <3>2, <3>3
  <2>2. dbuser' # None => dbuser' = versions'[1].password
    BY <1>1, <1>4, <1>5 DEF SInv, VersionsGood
  <2> QED BY <1>2, <1>6, <2>1, <2>2 DEF VersionsGood, Backed, Exists
<1>8. /\ current' \in 0 .. Len(versions') /\ dbuser' \in Passwords \cup {None}
      /\ ready' \subseteq Resources
  BY <1>1, <1>4, <1>5 DEF SInv, TypeOK
<1>9. ASSUME NEW q \in Operators, pc[q] \in Prepared
      PROVE  run[q].prepared # current' /\ run[q].prepared # n
  <2>1. run[q].prepared \in DOMAIN versions /\ run[q].prepared # current
    BY <1>9 DEF SInv, Knows
  <2> QED BY <1>1, <1>4, <2>1
<1>10. n \in Nat /\ n # current' /\ n \in DOMAIN versions'
  BY <1>1, <1>4, <1>5
<1>11. /\ r \in Run /\ r.before = b /\ r.prepared = n /\ r.version = run[o].version
  BY <1>2, <1>10 DEF Run, b
<1> HIDE DEF r, n
<1>12. ASSUME pc'[o] = "compare", run'[o] = r PROVE Knows(o)'
  <2>1. HoldsVersion(o)'
    BY <1>2, <1>6, <1>11, <1>12 DEF Knows, HoldsVersion, Growing, b
  <2> QED BY <1>2, <1>5, <1>10, <1>11, <1>12, <2>1
         DEF Knows, Settled, Prepared, AccountSteps, KeySteps
<1>13. "compare" \in Stages
  BY DEF Stages, IngestSteps
<1> QED BY <1>1, <1>5, <1>6, <1>7, <1>8, <1>9, <1>11, <1>12, <1>13, OneMoves DEF Spares

\* The label moves from the document the script has read to its candidate.
LEMMA MoveEffect ==
  ASSUME SInv, NEW o \in Operators, Move(o)
  PROVE  /\ current' = run[o].prepared /\ current' \in DOMAIN versions
         /\ Exists /\ Now = run[o].before /\ Now' = WithFlag(Now)
         /\ UNCHANGED <<versions, dbuser, ready>>
<1>1. /\ pc[o] = "move" /\ current = run[o].version /\ current' = run[o].prepared
      /\ UNCHANGED <<versions, dbuser, ready>>
  BY DEF Move, At, world
<1>2. /\ Knows(o) /\ run[o].before # None /\ HoldsVersion(o)
      /\ run[o].prepared \in DOMAIN versions
      /\ versions[run[o].prepared] = WithFlag(run[o].before)
  BY <1>1, RunFacts DEF Knows, IngestSteps, Prepared
<1>3. Exists /\ DOMAIN versions = 1 .. Len(versions) /\ Len(versions) \in Nat
  BY <1>2, RunFacts, VersionFacts
<1>4. Now = run[o].before
  BY <1>1, <1>2, <1>3 DEF Now, HoldsVersion
<1>5. current' # 0
  BY <1>1, <1>2, <1>3
<1>6. Now' = WithFlag(run[o].before)
  BY <1>1, <1>2, <1>5 DEF Now, Exists
<1> QED BY <1>1, <1>2, <1>3, <1>4, <1>6

LEMMA MoveStep ==
  ASSUME SInv, NEW o \in Operators, Move(o)
  PROVE  SInv'
<1>1. /\ pc[o] = "move" /\ pc' = [pc EXCEPT ![o] = "idle"] /\ run' = [run EXCEPT ![o] = NoRun]
  BY DEF Move, At, End, Goto
<1>2. /\ current' = run[o].prepared /\ current' \in DOMAIN versions /\ Exists
      /\ UNCHANGED <<versions, dbuser, ready>>
  BY MoveEffect
<1>3. versions \in Seq(Document) /\ DOMAIN versions = 1 .. Len(versions) /\ Len(versions) \in Nat
  BY VersionFacts
<1>4. current' \in 0 .. Len(versions') /\ current' # 0
  BY <1>2, <1>3
<1>5. Growing /\ VersionsGood'
  BY <1>2, <1>4 DEF Growing, SInv, VersionsGood, Exists, Backed
<1>6. \A q \in Operators \ {o} : Spares(q)
  BY <1>1, <1>2 DEF SInv, OwnCandidates, Spares, Prepared
<1>7. "idle" \notin Prepared /\ dbuser' \in Passwords \cup {None} /\ ready' \subseteq Resources
  BY <1>2 DEF Prepared, SInv, TypeOK
<1> QED BY <1>1, <1>2, <1>3, <1>4, <1>5, <1>6, <1>7, NoRunFacts, Ended, OneMoves

LEMMA EditByHandStep ==
  ASSUME SInv, EditByHand
  PROVE  SInv'
<1> DEFINE d == [Now EXCEPT !.set = @ \cup {"mail"}]
<1>1. Exists /\ Put(d) /\ UNCHANGED world /\ UNCHANGED <<pc, run>>
  BY DEF EditByHand
<1>2. Now \in Document /\ Now.password = versions[1].password /\ Backed(Now)
  BY <1>1, VersionFacts
<1>3. d \in Document /\ d.password = Now.password /\ d.set = Now.set \cup {"mail"}
  BY <1>2, DocumentFacts DEF Settings
<1> HIDE DEF d
<1>4. Backed(d)
  BY <1>2, <1>3 DEF Backed
<1>5. /\ Growing /\ VersionsGood'
      /\ versions' \in Seq(Document) /\ current' \in 0 .. Len(versions')
      /\ dbuser' \in Passwords \cup {None} /\ ready' \subseteq Resources
      /\ \A q \in Operators : Spares(q)
  BY <1>1, <1>2, <1>3, <1>4, PutEffect
<1>6. \A q \in Operators : Knows(q)'
  BY <1>1, <1>5, KnowsKept
<1>7. TypeOK' /\ OwnCandidates'
  BY <1>1, <1>5 DEF SInv, TypeOK, OwnCandidates
<1> QED BY <1>5, <1>6, <1>7 DEF SInv

-------------------------------------------------------------------------------
LEMMA SInvHolds == Init => SInv
<1> SUFFICES ASSUME Init PROVE SInv
  OBVIOUS
<1>1. versions = <<>> /\ Len(versions) = 0 /\ versions \in Seq(Document) /\ DOMAIN versions = {}
  BY DEF Init
<1>2. TypeOK
  BY <1>1, NoRunFacts DEF Init, TypeOK
<1>3. \A o \in Operators : Knows(o)
  BY NoRunFacts
     DEF Init, Knows, AccountSteps, KeySteps, IngestSteps, Settled, Prepared
<1>4. OwnCandidates
  BY DEF Init, OwnCandidates, Prepared
<1>5. VersionsGood
  BY <1>1 DEF Init, VersionsGood
<1> QED BY <1>2, <1>3, <1>4, <1>5 DEF SInv

LEMMA SInvKept ==
  ASSUME SInv, [Next]_vars
  PROVE  SInv'
<1>1. CASE UNCHANGED vars
  BY <1>1 DEF SInv, TypeOK, Knows, HoldsVersion, OwnCandidates, VersionsGood, Backed, Exists, vars
<1>2. CASE EditByHand
  BY <1>2, EditByHandStep
<1>3. ASSUME NEW o \in Operators, ConfigureAccounts(o) PROVE SInv'
  <2>1. ASSUME NEW p \in Passwords, ReadAccounts(o, p) PROVE SInv'
    BY <2>1, ReadAccountsStep
  <2>2. CASE CreateSecret(o) \/ CreateUser(o) \/ LogIn(o)
    BY <2>2, CreateSecretStep, CreateUserStep, LogInStep
  <2>3. CASE GrantTables(o) \/ PutPolicy(o)
    BY <2>3, ProvideStep DEF GrantTables, PutPolicy, At, Resources, AccountSteps
  <2>4. CASE PutAccounts(o)
    BY <2>4, PutAccountsStep
  <2> QED BY <1>3, <2>1, <2>2, <2>3, <2>4 DEF ConfigureAccounts
<1>4. ASSUME NEW o \in Operators, ConfigureKeys(o) PROVE SInv'
  <2>1. CASE ReadKeys(o)
    BY <2>1, RememberStep DEF ReadKeys
  <2>2. CASE CreateRegistry(o) \/ CreateKey(o) \/ PutKeyPolicy(o)
    BY <2>2, ProvideStep DEF CreateRegistry, CreateKey, PutKeyPolicy, At, Resources, KeySteps
  <2>3. CASE TryRegistry(o)
    BY <2>3, CheckStep DEF TryRegistry, At
  <2>4. CASE ReadKeysAgain(o)
    <3>1. CASE "keys" \in Now.set
      BY <2>4, <3>1, EndStep DEF ReadKeysAgain, End
    <3>2. CASE "keys" \notin Now.set
      BY <2>4, <3>2, CheckStep DEF ReadKeysAgain, At
    <3> QED BY <3>1, <3>2
  <2>5. CASE PutKeys(o)
    BY <2>5, PutKeysStep
  <2> QED BY <1>4, <2>1, <2>2, <2>3, <2>4, <2>5 DEF ConfigureKeys
<1>5. ASSUME NEW o \in Operators, ActivateIngest(o) PROVE SInv'
  <2>1. CASE ReadIngest(o)
    BY <2>1, RememberStep DEF ReadIngest
  <2>2. CASE Compare(o)
    BY <2>2, CheckStep DEF Compare, At
  <2> QED BY <1>5, <2>1, <2>2, PrepareStep, MoveStep DEF ActivateIngest
<1>6. ASSUME NEW o \in Operators, Abandon(o) PROVE SInv'
  BY <1>6, EndStep DEF Abandon
<1> QED BY <1>1, <1>2, <1>3, <1>4, <1>5, <1>6 DEF Next

LEMMA SInvAlways == Spec => []SInv
<1>1. SInv /\ [Next]_vars => SInv'
  BY SInvKept
<1> QED BY SInvHolds, <1>1, PTL DEF Spec

(* Every reachable state of the document's versions, the resources and the *)
(* scripts is well typed.                                                  *)
THEOREM TypeCorrect == Spec => []TypeOK
<1>1. SInv => TypeOK
  BY DEF SInv
<1> QED BY SInvAlways, <1>1, PTL

(* The password the database user was created with is in the current       *)
(* document: every version carries the password of the first one, which    *)
(* is stored before the user is created.                                   *)
THEOREM PasswordIsKept == Spec => []PasswordKept
<1>1. ASSUME SInv PROVE PasswordKept
  BY <1>1, VersionFacts DEF SInv, VersionsGood, PasswordKept
<1> QED BY SInvAlways, <1>1, PTL

(* A feature is switched on only when all it needs is in place, also by a  *)
(* script that writes back an old document: what was in it was backed when *)
(* it was stored, and nothing that has been provided is taken away.        *)
THEOREM FeaturesAreBacked == Spec => []SettingsAreBacked
<1>1. ASSUME SInv PROVE SettingsAreBacked
  BY <1>1, VersionFacts DEF Backed, SettingsAreBacked
<1> QED BY SInvAlways, <1>1, PTL

(* Activation changes one flag: its candidate is the document it read and  *)
(* the flag, nobody else can make that candidate current, and the label    *)
(* moves only while what it read is current.                               *)
THEOREM ActivationChangesOneFlag == Spec => ActivationIsExact
<1>1. ASSUME SInv, [Next]_vars, NEW o \in Operators, At(o, "move"), current' = run[o].prepared
      PROVE  Now' = WithFlag(Now)
  <2>1. /\ pc[o] \in Prepared /\ run[o].prepared \in DOMAIN versions
        /\ run[o].prepared # current
    BY <1>1 DEF SInv, Knows, At, Prepared
  <2>2. ASSUME NEW d, Put(d) PROVE FALSE
    <3>1. current' = Len(versions) + 1 /\ run[o].prepared \in 1 .. Len(versions) /\ Len(versions) \in Nat
      BY <1>1, <2>1, <2>2, VersionFacts DEF Put
    <3> QED BY <1>1, <3>1
  <2>3. ASSUME NEW q \in Operators, Move(q) PROVE Now' = WithFlag(Now)
    BY <1>1, <2>3, MoveEffect
  <2>4. current' # current
    BY <1>1, <2>1
  <2>5. ASSUME NEW q \in Operators,
               ConfigureAccounts(q) \/ ConfigureKeys(q) \/ ActivateIngest(q) \/ Abandon(q)
        PROVE  (\E d : Put(d)) \/ Move(q) \/ current' = current
    BY <2>5 DEF ConfigureAccounts, ReadAccounts, CreateSecret, CreateUser, LogIn, GrantTables,
       PutPolicy, PutAccounts, Provide, ConfigureKeys, ReadKeys, CreateRegistry, TryRegistry,
       CreateKey, PutKeyPolicy, ReadKeysAgain, PutKeys, ActivateIngest, ReadIngest, Prepare,
       Compare, Abandon
  <2>6. EditByHand => \E d : Put(d)
    BY DEF EditByHand
  <2> QED BY <1>1, <2>2, <2>3, <2>4, <2>5, <2>6 DEF Next, vars
<1>2. SInv /\ [Next]_vars =>
        [\A o \in Operators : At(o, "move") /\ current' = run[o].prepared
           => Now' = WithFlag(Now)]_vars
  BY <1>1
<1> QED BY SInvAlways, <1>2, PTL DEF Spec, ActivationIsExact

-------------------------------------------------------------------------------
(* When settings are lost.                                                 *)

\* The step in which a configuration script puts its document, made from one that
\* is no longer current (or from none, if there was none when it looked).
WritesOld(o) == (PutAccounts(o) \/ PutKeys(o)) /\ run[o].before # Now

LEMMA PutNow ==
  ASSUME SInv, NEW d \in Document, Put(d)
  PROVE  Now' = d
<1>1. /\ Len(versions) \in Nat /\ versions'[Len(versions) + 1] = d
      /\ current' = Len(versions) + 1
  BY VersionFacts, AppendProperties DEF Put
<1> QED BY <1>1 DEF Now, Exists

LEMMA ScriptsLoseOnlyOld ==
  ASSUME SInv, Exists, NEW o \in Operators, ~WritesOld(o),
         PutAccounts(o) \/ PutKeys(o) \/ Move(o)
  PROVE  Now.set \subseteq Now'.set
<1>1. Now \in Document /\ Now # None
  BY VersionFacts, DocumentFacts
<1>2. CASE PutAccounts(o)
  <2> DEFINE d == [password |-> run[o].password, set |-> Now.set \cup {"enabled"}]
  <2>1. pc[o] = "put accounts" /\ run[o].before = Now
    BY <1>2 DEF PutAccounts, At, WritesOld
  <2>2. Put(d) /\ run[o].password \in Passwords
    BY <1>1, <1>2, <2>1 DEF PutAccounts, Kept, SInv, Knows, AccountSteps
  <2>3. d \in Document /\ d.set = Now.set \cup {"enabled"}
    BY <1>1, <2>2, DocumentFacts DEF Document, Settings
  <2> HIDE DEF d
  <2>4. Now' = d
    BY <2>2, <2>3, PutNow
  <2> QED BY <2>3, <2>4
<1>3. CASE PutKeys(o)
  <2> DEFINE d == [Now EXCEPT !.set = @ \cup {"keys"}]
  <2>1. run[o].before = Now
    BY <1>3 DEF WritesOld
  <2>2. Put(d)
    BY <1>3, <2>1 DEF PutKeys
  <2>3. d \in Document /\ d.set = Now.set \cup {"keys"}
    BY <1>1, DocumentFacts DEF Settings
  <2> HIDE DEF d
  <2>4. Now' = d
    BY <2>2, <2>3, PutNow
  <2> QED BY <2>3, <2>4
<1>4. CASE Move(o)
  <2>1. Now' = WithFlag(Now)
    BY <1>4, MoveEffect
  <2>2. WithFlag(Now).set = Now.set \cup {"ingest"}
    BY <1>1, DocumentFacts
  <2> QED BY <2>1, <2>2
<1> QED BY <1>2, <1>3, <1>4

(* configure_accounts and configure_mail_archive_keys do lose settings     *)
(* (NothingIsLost is refuted), but the step that loses one is always the   *)
(* put of such a script, of a document it had read before the present one  *)
(* became current: no other step, of a script that ran into another's or   *)
(* was repeated, removes a setting.                                        *)
THEOREM OnlyOldDocumentsLose ==
  Spec => [][Exists /\ ~(Now.set \subseteq Now'.set) => \E o \in Operators : WritesOld(o)]_vars
<1>1. ASSUME SInv, [Next]_vars, Exists, \A o \in Operators : ~WritesOld(o)
      PROVE  Now.set \subseteq Now'.set
  <2>1. Now \in Document /\ current \in DOMAIN versions
    BY <1>1, VersionFacts
  <2>2. CASE UNCHANGED <<versions, current>>
    BY <2>2 DEF Now, Exists
  <2>3. CASE EditByHand
    <3> DEFINE d == [Now EXCEPT !.set = @ \cup {"mail"}]
    <3>1. Put(d) /\ d \in Document /\ d.set = Now.set \cup {"mail"}
      BY <2>1, <2>3, DocumentFacts DEF EditByHand, Settings
    <3> HIDE DEF d
    <3>2. Now' = d
      BY <1>1, <3>1, PutNow
    <3> QED BY <3>1, <3>2
  <2>4. ASSUME NEW o \in Operators, Prepare(o)
        PROVE  Now.set \subseteq Now'.set
    <3> DEFINE d == WithFlag(run[o].before)
    <3>1. versions' = Append(versions, d) /\ current' = current
      BY <2>4 DEF Prepare
    <3>2. run[o].before \in Document
      BY <1>1, <2>4 DEF Prepare, At, SInv, Knows, IngestSteps, HoldsVersion
    <3>3. d \in Document
      BY <3>2, DocumentFacts
    <3> HIDE DEF d
    <3>4. versions'[current] = versions[current]
      BY <1>1, <2>1, <3>1, <3>3, VersionFacts, AppendProperties
    <3> QED BY <3>1, <3>4 DEF Now, Exists
  <2>5. ASSUME NEW o \in Operators,
               ConfigureAccounts(o) \/ ConfigureKeys(o) \/ ActivateIngest(o) \/ Abandon(o)
        PROVE  \/ UNCHANGED <<versions, current>>
               \/ PutAccounts(o) \/ PutKeys(o) \/ Move(o) \/ Prepare(o)
    BY <1>1, <2>5 DEF ConfigureAccounts, ReadAccounts, CreateSecret, CreateUser, LogIn,
       GrantTables, PutPolicy, Provide, ConfigureKeys, ReadKeys, CreateRegistry, TryRegistry,
       CreateKey, PutKeyPolicy, ReadKeysAgain, ActivateIngest, ReadIngest, Compare, Abandon
  <2> QED BY <1>1, <2>2, <2>3, <2>4, <2>5, ScriptsLoseOnlyOld DEF Next, vars
<1>2. SInv /\ [Next]_vars =>
        [Exists /\ ~(Now.set \subseteq Now'.set) => \E o \in Operators : WritesOld(o)]_vars
  BY <1>1
<1> QED BY SInvAlways, <1>2, PTL DEF Spec
===============================================================================
