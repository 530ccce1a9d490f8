------------------------------- MODULE Rollout -------------------------------
(***************************************************************************)
(* Releases of the account service on Elastic Beanstalk: candidates that   *)
(* scripts prepare from the live source bundle, the script that deploys    *)
(* the reviewed one, the one that prepares a restart, and the deployments  *)
(* of the whole tree that other people make meanwhile.                     *)
(*                                                                         *)
(* Every call of AWS is a step of its own; a script may stop anywhere.     *)
(***************************************************************************)
EXTENDS Naturals

CONSTANTS
  Operators,  \* people, each running one script at a time
  Hand,       \* version labels of whole-tree deployments and of restarts
  First,      \* the label that is live at first
  Ticks,      \* seconds in which a deployment script may start
  Sites,      \* what a bundle has besides the files the scripts replace
  Trees,      \* trees that other people deploy in this instance
  MaxRuns,    \* bound of the model: how many scripts are started
  None

\* A source bundle: the changes its account runtime has, and whether the
\* service's user can read all of it (the mode bits in the ZIP).
Changes == {"keys", "ingest"}
Bundle == [site : Sites, changes : SUBSET Changes, readable : BOOLEAN]

\* A label the deployment script chooses: time stamp and hash of the candidate.
ScriptLabel == [at : Ticks, hash : Bundle]
Labels == Hand \cup ScriptLabel

\* Application versions; the bundle itself is an object in S3, kept under the
\* label it was uploaded for.
Version == [object : Labels, status : {"unprocessed", "processed"}]

\* The constants EXPECTED_SOURCE and EXPECTED_HASH, with the candidate they name.
Review == [source : Labels, bundle : Bundle]

Stages ==
  {"idle", "prepare", "baseline", "source", "upload", "create", "process", "recheck",
   "update", "retry", "await", "verify", "restart", "restart create"}

\* What an operator's script holds: the reviewed candidate or live version it works
\* on, its label, the public site it started from, and (as history) what was live
\* when it looked for the last time.
Script ==
  [stage : Stages, source : Labels \cup {None}, bundle : Bundle \cup {None},
   label : Labels \cup {None}, before : Sites \cup {None}, seen : Bundle \cup {None}]

Idle ==
  [stage |-> "idle", source |-> None, bundle |-> None, label |-> None, before |-> None,
   seen |-> None]

ASSUME LabelAssumption ==
  /\ First \in Hand
  /\ Hand \cap ScriptLabel = {}
  /\ Trees \subseteq Bundle
  /\ MaxRuns \in Nat
  /\ None \notin Labels \cup Bundle \cup Sites \cup Version

VARIABLES
  objects,   \* S3: bundles by the label they were uploaded for
  versions,  \* application versions
  env,       \* the environment, as describe_environments shows it, and its target
  live,      \* the bundle the instances run
  reviewed,  \* the candidate that has passed review
  run,       \* the operators' scripts
  runs       \* how many have been started

vars == <<objects, versions, env, live, reviewed, run, runs>>

TypeOK ==
  /\ objects \in [Labels -> Bundle \cup {None}]
  /\ versions \in [Labels -> Version \cup {None}]
  /\ env \in [label : Labels, target : Labels, status : {"Ready", "Updating"},
              health : {"Green", "Red"}]
  /\ runs \in 0..MaxRuns
  /\ live \in Bundle
  /\ reviewed \in Review
  /\ run \in [Operators -> Script]

\* The first candidate had been reviewed before its files turned out unreadable.
Init ==
  \E s \in Sites :
    LET b == [site |-> s, changes |-> {}, readable |-> TRUE] IN
    /\ objects = [l \in Labels |-> IF l = First THEN b ELSE None]
    /\ versions = [l \in Labels |->
                     IF l = First THEN [object |-> First, status |-> "processed"] ELSE None]
    /\ env = [label |-> First, target |-> First, status |-> "Ready", health |-> "Green"]
    /\ runs = 0
    /\ live = b
    /\ reviewed = [source |-> First,
                   bundle |-> [b EXCEPT !.changes = {"keys"}, !.readable = FALSE]]
    /\ run = [o \in Operators |-> Idle]

Content(l) == objects[versions[l].object]

At(o, s) == run[o].stage = s
Step(o, r) == run' = [run EXCEPT ![o] = r]
Begin(o, r) ==
  /\ At(o, "idle")
  /\ runs < MaxRuns
  /\ runs' = runs + 1
  /\ Step(o, r)
Goto(o, s) == Step(o, [run[o] EXCEPT !.stage = s])

\* The environment is the exact, healthy one a script was told to expect.
Serves(l) == env.label = l /\ env.status = "Ready" /\ env.health = "Green"

-------------------------------------------------------------------------------
(* Preparing a candidate, and reviewing it.                                *)

\* The live version is looked up, and its bundle located.
Prepare(o) ==
  /\ Serves(env.label)
  /\ Begin(o, [Idle EXCEPT !.stage = "prepare", !.source = env.label])
  /\ UNCHANGED <<objects, versions, env, live, reviewed>>

\* The candidate: the live bundle with the reviewed runtime files; files that were
\* there keep their modes, new ones are readable.
Overlay(b, c) == [b EXCEPT !.changes = @ \cup {c}]

\* A manifest that passes review names source and candidate.
Reviewed(o, c) ==
  /\ reviewed' = [source |-> run[o].source, bundle |-> Overlay(Content(run[o].source), c)]
  /\ Step(o, Idle)
  /\ UNCHANGED <<objects, versions, env, live, runs>>

\* prepare_mail_archive_keys_deployment: the live files are the committed baseline.
PrepareKeys(o) ==
  /\ At(o, "prepare")
  /\ Content(run[o].source).changes = {}
  /\ Reviewed(o, "keys")

\* prepare_mail_ingest_deployment: one file, and the target is looked at again.
PrepareIngest(o) ==
  /\ At(o, "prepare")
  /\ "ingest" \notin Content(run[o].source).changes
  /\ Serves(run[o].source)
  /\ Reviewed(o, "ingest")

\* repair_runtime_permissions: a new candidate, the same but for the modes.
Repair(o) ==
  /\ At(o, "idle")
  /\ ~reviewed.bundle.readable
  /\ reviewed' = [reviewed EXCEPT !.bundle.readable = TRUE]
  /\ UNCHANGED <<objects, versions, env, live, run, runs>>

-------------------------------------------------------------------------------
(* deploy_mail_archive_keys.py.                                            *)

\* The candidate is the reviewed one; the public pages are healthy and noted.
Baseline(o) ==
  /\ Begin(o, [Idle EXCEPT !.stage = "baseline", !.source = reviewed.source,
                          !.bundle = reviewed.bundle, !.before = live.site])
  /\ UNCHANGED <<objects, versions, env, live, reviewed>>

CheckSource(o) ==
  /\ At(o, "baseline")
  /\ Serves(run[o].source)
  /\ Goto(o, "source")
  /\ UNCHANGED <<objects, versions, env, live, reviewed, runs>>

\* Mutant of LabelFor: the time stamp is all there is.
LabelByTime(t, b) == [at |-> t, hash |-> CHOOSE c \in Bundle : TRUE]

LabelFor(t, b) == [at |-> t, hash |-> b]

\* A new label, which no version has.
NewLabel(o, t) ==
  LET l == LabelFor(t, run[o].bundle) IN
  /\ At(o, "source")
  /\ versions[l] = None
  /\ Step(o, [run[o] EXCEPT !.stage = "upload", !.label = l])
  /\ UNCHANGED <<objects, versions, env, live, reviewed, runs>>

\* --resume-version: the version of an earlier run, with the reviewed content.
ResumeVersion(o, t) ==
  LET l == LabelFor(t, run[o].bundle) IN
  /\ At(o, "source")
  /\ versions[l] # None
  /\ versions[l].object = l
  /\ objects[l] = run[o].bundle
  /\ Step(o, [run[o] EXCEPT !.stage = "process", !.label = l])
  /\ UNCHANGED <<objects, versions, env, live, reviewed, runs>>

\* upload_file replaces whatever is there.
Upload(o) ==
  /\ At(o, "upload")
  /\ objects' = [objects EXCEPT ![run[o].label] = run[o].bundle]
  /\ Goto(o, "create")
  /\ UNCHANGED <<versions, env, live, reviewed, runs>>

\* create_application_version, which refuses a label that is taken.
CreateVersion(o) ==
  /\ At(o, "create")
  /\ versions[run[o].label] = None
  /\ versions' = [versions EXCEPT ![run[o].label] =
                    [object |-> run[o].label, status |-> "unprocessed"]]
  /\ Goto(o, "process")
  /\ UNCHANGED <<objects, env, live, reviewed, runs>>

Processed(o) ==
  /\ At(o, "process")
  /\ versions[run[o].label].status = "processed"
  /\ Goto(o, "recheck")
  /\ UNCHANGED <<objects, versions, env, live, reviewed, runs>>

\* Mutant of Recheck: the environment need only be healthy.
RecheckHealthOnly(o) ==
  /\ At(o, "recheck")
  /\ Serves(env.label)
  /\ Step(o, [run[o] EXCEPT !.stage = "update", !.seen = live])
  /\ UNCHANGED <<objects, versions, env, live, reviewed, runs>>

\* The target has not changed during preparation.
Recheck(o) ==
  /\ At(o, "recheck")
  /\ Serves(run[o].source)
  /\ Step(o, [run[o] EXCEPT !.stage = "update", !.seen = live])
  /\ UNCHANGED <<objects, versions, env, live, reviewed, runs>>

\* update_environment, which refuses an environment that is being updated.
BeginUpdate(l) ==
  /\ env.status = "Ready"
  /\ env' = [env EXCEPT !.target = l, !.status = "Updating"]

Update(o) ==
  /\ At(o, "update") \/ At(o, "retry")
  /\ BeginUpdate(run[o].label)
  /\ Goto(o, "await")
  /\ UNCHANGED <<objects, versions, live, reviewed, runs>>

\* The answer is lost; the AWS client sends the request a second time.
UpdateUnanswered(o) ==
  /\ At(o, "update")
  /\ BeginUpdate(run[o].label)
  /\ Goto(o, "retry")
  /\ UNCHANGED <<objects, versions, live, reviewed, runs>>

Arrived(o) ==
  /\ At(o, "await")
  /\ Serves(run[o].label)
  /\ Goto(o, "verify")
  /\ UNCHANGED <<objects, versions, env, live, reviewed, runs>>

\* Public pages as before and the new endpoints in place: reported as deployed.
Verify(o) ==
  /\ At(o, "verify")
  /\ live.site = run[o].before
  /\ "keys" \in live.changes
  /\ Step(o, Idle)
  /\ UNCHANGED <<objects, versions, env, live, reviewed, runs>>

\* A check fails, a deadline passes, AWS refuses or the operator's machine dies.
Stop(o) ==
  /\ ~At(o, "idle")
  /\ Step(o, Idle)
  /\ UNCHANGED <<objects, versions, env, live, reviewed, runs>>

-------------------------------------------------------------------------------
(* restart_candidate of activate_mail_ingest.py.                           *)

\* The live version is the issuer that was reviewed for the flag.
Restart(o) ==
  /\ Serves(env.label)
  /\ "ingest" \in Content(env.label).changes
  /\ Begin(o, [Idle EXCEPT !.stage = "restart", !.source = env.label])
  /\ UNCHANGED <<objects, versions, env, live, reviewed>>

\* The label is free, and the target has not changed.
RestartRecheck(o, l) ==
  /\ At(o, "restart")
  /\ versions[l] = None
  /\ Serves(run[o].source)
  /\ Step(o, [run[o] EXCEPT !.stage = "restart create", !.label = l, !.seen = live])
  /\ UNCHANGED <<objects, versions, env, live, reviewed, runs>>

\* A second version of the same source bundle; the environment is left alone.
RestartCreate(o) ==
  /\ At(o, "restart create")
  /\ versions[run[o].label] = None
  /\ versions' = [versions EXCEPT ![run[o].label] =
                    [object |-> versions[run[o].source].object, status |-> "unprocessed"]]
  /\ Step(o, Idle)
  /\ UNCHANGED <<objects, env, live, reviewed, runs>>

-------------------------------------------------------------------------------
(* Elastic Beanstalk, and other deployments.                               *)

\* Validation of a version was asked for, and succeeds; else it never is processed.
Process(l) ==
  /\ versions[l] # None
  /\ versions[l].status = "unprocessed"
  /\ versions' = [versions EXCEPT ![l].status = "processed"]
  /\ UNCHANGED <<objects, env, live, reviewed, run, runs>>

\* The update succeeds: the service can read its files.
Arrive ==
  /\ env.status = "Updating"
  /\ Content(env.target).readable
  /\ env' = [env EXCEPT !.label = env.target, !.status = "Ready", !.health = "Green"]
  /\ live' = Content(env.target)
  /\ UNCHANGED <<objects, versions, reviewed, run, runs>>

\* It fails, and stays where it is or goes back.
Fail ==
  /\ env.status = "Updating"
  /\ \/ /\ env' = [env EXCEPT !.label = env.target, !.status = "Ready", !.health = "Red"]
        /\ live' = Content(env.target)
     \/ /\ env' = [env EXCEPT !.target = env.label, !.status = "Ready", !.health = "Red"]
        /\ UNCHANGED live
  /\ UNCHANGED <<objects, versions, reviewed, run, runs>>

\* deploy-eb-site.sh uploads the whole local tree under a new time stamp ...
PublishTree(l, b) ==
  /\ objects[l] = None
  /\ versions[l] = None
  /\ objects' = [objects EXCEPT ![l] = b]
  /\ versions' = [versions EXCEPT ![l] = [object |-> l, status |-> "unprocessed"]]
  /\ UNCHANGED <<env, live, reviewed, run, runs>>

\* ... and updates the environment; so does whoever goes back to an old version or
\* deploys a restart candidate.
Deploy(l) ==
  /\ versions[l] # None
  /\ BeginUpdate(l)
  /\ UNCHANGED <<objects, versions, live, reviewed, run, runs>>

-------------------------------------------------------------------------------
Scripts(o) ==
  \/ Prepare(o) \/ PrepareKeys(o) \/ PrepareIngest(o) \/ Repair(o)
  \/ Baseline(o) \/ CheckSource(o)
  \/ \E t \in Ticks : NewLabel(o, t) \/ ResumeVersion(o, t)
  \/ Upload(o) \/ CreateVersion(o) \/ Processed(o) \/ Recheck(o)
  \/ Update(o) \/ UpdateUnanswered(o) \/ Arrived(o) \/ Verify(o) \/ Stop(o)
  \/ Restart(o) \/ RestartCreate(o)
  \/ \E l \in Hand : RestartRecheck(o, l)

Next ==
  \/ \E o \in Operators : Scripts(o)
  \/ \E l \in Labels : Deploy(l)
  \/ \E l \in ScriptLabel : Process(l)
  \/ \E l \in Hand, b \in Trees : PublishTree(l, b)
  \/ Arrive \/ Fail

Spec == Init /\ [][Next]_vars

-------------------------------------------------------------------------------
(* What must hold.                                                         *)

(* A version keeps its content for good: no later run, of any operator and *)
(* in the same second, uploads something else under a label in use.        *)
VersionContentFixed ==
  [][\A l \in Labels : versions[l] # None =>
       /\ versions'[l] # None
       /\ Content(l)' = Content(l)]_vars

(* What a script puts in the place of the live version has the site and    *)
(* the changes that were live when it looked for the last time, and a      *)
(* restart is exactly what was live: nobody's release is undone by a       *)
(* candidate that was prepared from an older one.                          *)
ScriptsKeepReleases ==
  [][\A o \in Operators :
       /\ Update(o) \/ UpdateUnanswered(o) =>
            /\ Content(run[o].label).site = run[o].seen.site
            /\ run[o].seen.changes \subseteq Content(run[o].label).changes
       /\ RestartCreate(o) => objects'[versions'[run[o].label].object] = run[o].seen]_vars
===============================================================================
