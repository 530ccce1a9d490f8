---------------------------- MODULE RolloutProofs ----------------------------
(***************************************************************************)
(* Proofs about Rollout, for any number of operators, labels, seconds,     *)
(* sites and scripts.                                                      *)
(*                                                                         *)
(* The argument: an object in S3 and the place of a version never change   *)
(* once they are there, as a script's label carries the hash of what it    *)
(* uploads (Permanent); so what a script knows of the bundle of a version  *)
(* stays true however long it waits (Holds), and what it deploys has all   *)
(* that the version it started from has.                                   *)
(***************************************************************************)
EXTENDS Rollout, TLAPS

Known(l) == l \in Labels /\ versions[l] # None

\* Bundle b has the site and all changes of version l.
Extends(b, l) ==
  /\ Known(l)
  /\ b \in Bundle
  /\ b.site = Content(l).site
  /\ Content(l).changes \subseteq b.changes

Candidates == {"baseline", "source", "upload", "create", "process", "recheck", "update", "retry"}
Labelled == {"upload", "create", "process", "recheck", "update", "retry", "await", "verify"}

\* What a script r knows at each of its stages.
Holds(r) ==
  /\ r.stage \in Candidates => Extends(r.bundle, r.source)
  /\ r.stage \in Labelled => r.label \in ScriptLabel
  /\ r.stage \in {"upload", "create"} => r.label.hash = r.bundle
  /\ r.stage = "create" => objects[r.label] = r.bundle
  /\ r.stage \in {"process", "recheck", "update", "retry"} =>
       Known(r.label) /\ Content(r.label) = r.bundle
  /\ r.stage \in {"update", "retry"} => r.seen = Content(r.source)
  /\ r.stage \in {"prepare", "restart", "restart create"} => Known(r.source)
  /\ r.stage = "restart create" => r.label \in Hand /\ r.seen = Content(r.source)

Stored ==
  /\ \A l \in ScriptLabel : objects[l] # None => objects[l] = l.hash
  /\ \A l \in Labels : versions[l] # None => objects[versions[l].object] # None

Shown ==
  /\ Known(env.label) /\ Known(env.target)
  /\ env.health = "Green" => live = Content(env.label)

IInv ==
  /\ TypeOK
  /\ Stored
  /\ Shown
  /\ Extends(reviewed.bundle, reviewed.source)
  /\ \A o \in Operators : Holds(run[o])

-------------------------------------------------------------------------------
LEMMA InitHolds == Init => IInv
<1> SUFFICES ASSUME Init PROVE IInv
  OBVIOUS
<1> USE LabelAssumption DEF Labels
<1>1. PICK s \in Sites :
        LET b == [site |-> s, changes |-> {}, readable |-> TRUE] IN
        /\ objects = [l \in Labels |-> IF l = First THEN b ELSE None]
        /\ versions = [l \in Labels |->
                         IF l = First THEN [object |-> First, status |-> "processed"] ELSE None]
        /\ env = [label |-> First, target |-> First, status |-> "Ready", health |-> "Green"]
        /\ runs = 0
        /\ live = b
        /\ reviewed = [source |-> First,
                       bundle |-> [b EXCEPT !.changes = {"keys"}, !.readable = FALSE]]
        /\ run = [o \in Operators |-> Idle]
  BY DEF Init
<1> DEFINE b == [site |-> s, changes |-> {}, readable |-> TRUE]
           r == [site |-> s, changes |-> {"keys"}, readable |-> FALSE]
           v == [object |-> First, status |-> "processed"]
<1>2. b \in Bundle /\ r \in Bundle /\ v \in Version
  BY DEF Bundle, Changes, Version
<1>3. reviewed = [source |-> First, bundle |-> r]
  BY <1>1
<1>4. Idle \in Script /\ Idle.stage = "idle"
  BY DEF Idle, Script, Stages
<1>5. TypeOK
  <2>1. objects \in [Labels -> Bundle \cup {None}]
    BY <1>1, <1>2
  <2>2. versions \in [Labels -> Version \cup {None}]
    BY <1>1, <1>2
  <2>3. env \in [label : Labels, target : Labels, status : {"Ready", "Updating"},
                 health : {"Green", "Red"}]
    BY <1>1
  <2>4. runs \in 0..MaxRuns /\ live \in Bundle
    BY <1>1, <1>2
  <2>5. reviewed \in Review
    BY <1>2, <1>3 DEF Review
  <2>6. run \in [Operators -> Script]
    BY <1>1, <1>4
  <2> QED BY <2>1, <2>2, <2>3, <2>4, <2>5, <2>6 DEF TypeOK
<1>6. First \in Labels /\ objects[First] = b /\ versions[First] = v
  BY <1>1
<1>7. Content(First) = b /\ Known(First)
  BY <1>2, <1>6 DEF Content, Known, Version
<1>8. Stored
  <2>1. \A l \in ScriptLabel : objects[l] = None
    BY <1>1
  <2>2. \A l \in Labels : versions[l] # None => l = First
    BY <1>1
  <2> QED BY <1>2, <1>6, <2>1, <2>2 DEF Stored
<1>9. Shown
  BY <1>1, <1>7 DEF Shown
<1>10. Extends(reviewed.bundle, reviewed.source)
  BY <1>2, <1>3, <1>7 DEF Extends
<1>11. \A o \in Operators : Holds(run[o])
  BY <1>1, <1>4 DEF Holds, Candidates, Labelled
<1> QED BY <1>5, <1>8, <1>9, <1>10, <1>11 DEF IInv

-------------------------------------------------------------------------------
\* What is stored is kept, and what is added fits.
Kept ==
  /\ \A l \in Labels : objects[l] # None => objects'[l] = objects[l]
  /\ \A l \in ScriptLabel : objects'[l] # None => objects'[l] = l.hash
  /\ \A l \in Labels :
       versions[l] # None => versions'[l] # None /\ versions'[l].object = versions[l].object
  /\ \A l \in Labels :
       versions[l] = None /\ versions'[l] # None => objects'[versions'[l].object] # None

LEMMA ObjectOf ==
  ASSUME TypeOK, Stored, NEW l, Known(l)
  PROVE /\ versions[l] \in Version /\ versions[l].object \in Labels
        /\ objects[versions[l].object] # None
        /\ Content(l) = objects[versions[l].object] /\ Content(l) \in Bundle
<1>1. versions[l] \in Version
  BY DEF TypeOK, Known
<1>2. versions[l].object \in Labels
  BY <1>1 DEF Version
<1>3. objects[versions[l].object] # None
  BY DEF Stored, Known
<1> QED BY <1>1, <1>2, <1>3 DEF TypeOK, Content

\* The bundle of a version never changes.
LEMMA ContentKept ==
  ASSUME TypeOK, Stored, Kept, NEW l, Known(l)
  PROVE /\ versions'[l] # None
        /\ objects'[versions'[l].object] = Content(l)
<1>1. versions[l].object \in Labels /\ objects[versions[l].object] = Content(l)
      /\ Content(l) # None
  BY ObjectOf DEF Content
<1> QED BY <1>1 DEF Kept, Known

LEMMA ExtendsKept ==
  ASSUME TypeOK, Stored, Kept, NEW b, NEW l, Extends(b, l)
  PROVE Extends(b, l)'
<1>1. Known(l)
  BY DEF Extends
<1>2. versions'[l] # None /\ objects'[versions'[l].object] = objects[versions[l].object]
  BY <1>1, ContentKept DEF Content
<1> QED BY <1>1, <1>2 DEF Extends, Known, Content

LEMMA HoldsKept ==
  ASSUME TypeOK, Stored, Kept, NEW r \in Script, Holds(r)
  PROVE Holds(r)'
<1>1. r.stage \in Candidates => Extends(r.bundle, r.source)'
  BY ExtendsKept DEF Holds
<1>2. r.stage = "create" => (objects[r.label] = r.bundle)'
  <2> HAVE r.stage = "create"
  <2>1. r.label \in Labels /\ objects[r.label] = r.bundle
    BY DEF Holds, Labels, Labelled
  <2>2. r.bundle # None
    BY LabelAssumption DEF Holds, Candidates, Extends
  <2> QED BY <2>1, <2>2 DEF Kept
<1>3. ASSUME NEW l, Known(l)
      PROVE Known(l)' /\ Content(l)' = Content(l)
  BY <1>3, ContentKept DEF Known, Content
<1>4. r.stage \in {"process", "recheck", "update", "retry"} =>
        (Known(r.label) /\ Content(r.label) = r.bundle)'
  BY <1>3 DEF Holds
<1>5. r.stage \in {"update", "retry"} => (r.seen = Content(r.source))'
  BY <1>3 DEF Holds, Candidates, Extends
<1>6. r.stage \in {"prepare", "restart", "restart create"} => Known(r.source)'
  BY <1>3 DEF Holds
<1>7. r.stage = "restart create" => (r.label \in Hand /\ r.seen = Content(r.source))'
  BY <1>3 DEF Holds
<1> QED BY <1>1, <1>2, <1>4, <1>5, <1>6, <1>7 DEF Holds

LEMMA ShownKept == ASSUME TypeOK, Stored, Kept, Shown, UNCHANGED <<env, live>> PROVE Shown'
<1>1. ASSUME NEW l, Known(l)
      PROVE Known(l)' /\ Content(l)' = Content(l)
  BY <1>1, ContentKept DEF Known, Content
<1> QED BY <1>1 DEF Shown

\* When nothing is stored.
LEMMA KeptSame == ASSUME TypeOK, Stored, UNCHANGED <<objects, versions>> PROVE Kept
BY DEF TypeOK, Stored, Kept

\* All of IInv but what a step must show of itself.
LEMMA Preserved ==
  ASSUME IInv, Kept, TypeOK', Shown', Extends(reviewed.bundle, reviewed.source)',
         \A o \in Operators : run'[o] = run[o] \/ Holds(run[o])'
  PROVE IInv'
<1>1. Stored'
  <2>1. ASSUME NEW l \in Labels, versions'[l] # None
        PROVE objects'[versions'[l].object] # None
    <3>1. CASE versions[l] = None
      BY <2>1, <3>1 DEF Kept
    <3>2. CASE versions[l] # None
      <4>1. Known(l)
        BY <3>2 DEF Known
      <4>2. objects'[versions'[l].object] = Content(l) /\ Content(l) \in Bundle
        BY <4>1, ContentKept, ObjectOf DEF IInv
      <4> QED BY <4>2, LabelAssumption
    <3> QED BY <3>1, <3>2
  <2> QED BY <2>1 DEF Stored, Kept
<1>2. ASSUME NEW o \in Operators PROVE Holds(run[o])'
  <2>1. CASE run'[o] = run[o]
    <3>1. run[o] \in Script /\ Holds(run[o])
      BY DEF IInv, TypeOK
    <3>2. \A r \in Script : Holds(r) => Holds(r)'
      BY HoldsKept DEF IInv
    <3> QED BY <2>1, <3>1, <3>2 DEF Holds, Extends, Known, Content
  <2> QED BY <2>1
<1> QED BY <1>1, <1>2 DEF IInv

\* A step of one script alone.
LEMMA ScriptStep ==
  ASSUME IInv, NEW o \in Operators, NEW r \in Script, Holds(r), Step(o, r),
         UNCHANGED <<objects, versions, env, live, reviewed>>, runs' \in 0..MaxRuns
  PROVE IInv'
<1>1. Kept
  BY KeptSame DEF IInv
<1>2. run' \in [Operators -> Script] /\ run'[o] = r
      /\ \A p \in Operators : p # o => run'[p] = run[p]
  BY DEF IInv, TypeOK, Step
<1>3. TypeOK'
  BY <1>2 DEF IInv, TypeOK, Version
<1>4. Shown'
  BY <1>1, ShownKept DEF IInv
<1>5. Extends(reviewed.bundle, reviewed.source)'
  BY DEF IInv, Extends, Known, Content
<1>6. Holds(run[o])'
  BY <1>2 DEF Holds, Extends, Known, Content
<1> QED BY <1>1, <1>2, <1>3, <1>4, <1>5, <1>6, Preserved

-------------------------------------------------------------------------------
LEMMA ScriptType == ASSUME IInv, NEW o \in Operators PROVE run[o] \in Script
BY DEF IInv, TypeOK

\* The next stage of a script that learns nothing new but, perhaps, its label.
LEMMA Looks ==
  ASSUME IInv, NEW o \in Operators,
         \/ CheckSource(o) \/ Processed(o) \/ Arrived(o) \/ Verify(o) \/ Stop(o)
         \/ \E t \in Ticks : NewLabel(o, t) \/ ResumeVersion(o, t)
  PROVE IInv'
<1>1. run[o] \in Script /\ Holds(run[o])
  BY ScriptType DEF IInv
<1>2. runs \in 0..MaxRuns
  BY DEF IInv, TypeOK
<1>3. CASE CheckSource(o)
  <2> DEFINE r == [run[o] EXCEPT !.stage = "source"]
  <2>1. r \in Script
    BY <1>1 DEF Script, Stages
  <2>2. Holds(r)
    BY <1>1, <1>3 DEF CheckSource, At, Script, Holds, Candidates, Labelled
  <2> QED BY <1>2, <1>3, <2>1, <2>2, ScriptStep DEF CheckSource, Goto
<1>4. CASE Processed(o)
  <2> DEFINE r == [run[o] EXCEPT !.stage = "recheck"]
  <2>1. r \in Script
    BY <1>1 DEF Script, Stages
  <2>2. Holds(r)
    BY <1>1, <1>4 DEF Processed, At, Script, Holds, Candidates, Labelled
  <2> QED BY <1>2, <1>4, <2>1, <2>2, ScriptStep DEF Processed, Goto
<1>5. CASE Arrived(o)
  <2> DEFINE r == [run[o] EXCEPT !.stage = "verify"]
  <2>1. r \in Script
    BY <1>1 DEF Script, Stages
  <2>2. Holds(r)
    BY <1>1, <1>5 DEF Arrived, At, Script, Holds, Candidates, Labelled
  <2> QED BY <1>2, <1>5, <2>1, <2>2, ScriptStep DEF Arrived, Goto
<1>6. CASE Verify(o) \/ Stop(o)
  <2>1. Idle \in Script /\ Holds(Idle)
    BY DEF Idle, Script, Stages, Holds, Candidates, Labelled
  <2> QED BY <1>2, <1>6, <2>1, ScriptStep DEF Verify, Stop
<1>7. ASSUME NEW t \in Ticks, NewLabel(o, t) PROVE IInv'
  <2> DEFINE l == LabelFor(t, run[o].bundle)
             r == [run[o] EXCEPT !.stage = "upload", !.label = l]
  <2>1. l \in ScriptLabel /\ l.hash = run[o].bundle
    BY <1>1, <1>7 DEF NewLabel, At, Holds, Candidates, Extends, LabelFor, ScriptLabel
  <2>2. r \in Script
    BY <1>1, <2>1 DEF Script, Stages, Labels
  <2>3. Holds(r)
    BY <1>1, <1>7, <2>1 DEF NewLabel, At, Script, Holds, Candidates, Labelled
  <2> QED BY <1>2, <1>7, <2>2, <2>3, ScriptStep DEF NewLabel
<1>8. ASSUME NEW t \in Ticks, ResumeVersion(o, t) PROVE IInv'
  <2> DEFINE l == LabelFor(t, run[o].bundle)
             r == [run[o] EXCEPT !.stage = "process", !.label = l]
  <2>1. l \in ScriptLabel
    BY <1>1, <1>8 DEF ResumeVersion, At, Holds, Candidates, Extends, LabelFor, ScriptLabel
  <2>2. r \in Script
    BY <1>1, <2>1 DEF Script, Stages, Labels
  <2>3. Known(l) /\ Content(l) = run[o].bundle
    BY <1>8, <2>1 DEF ResumeVersion, Known, Content, Labels
  <2>4. Holds(r)
    BY <1>1, <1>8, <2>1, <2>3 DEF ResumeVersion, At, Script, Holds, Candidates, Labelled
  <2> QED BY <1>2, <1>8, <2>2, <2>4, ScriptStep DEF ResumeVersion
<1> QED BY <1>3, <1>4, <1>5, <1>6, <1>7, <1>8

\* A script starts, or notes what is live.
LEMMA Notes ==
  ASSUME IInv, NEW o \in Operators,
         \/ Prepare(o) \/ Baseline(o) \/ Restart(o) \/ Recheck(o)
         \/ \E l \in Hand : RestartRecheck(o, l)
  PROVE IInv'
<1>1. run[o] \in Script /\ Holds(run[o])
  BY ScriptType DEF IInv
<1>2. runs \in 0..MaxRuns /\ MaxRuns \in Nat
  BY LabelAssumption DEF IInv, TypeOK
<1>3. env.label \in Labels /\ Known(env.label) /\ live \in Bundle
      /\ (env.health = "Green" => live = Content(env.label))
  BY DEF IInv, TypeOK, Shown, Known
<1>4. CASE Prepare(o) \/ Restart(o)
  <2>1. PICK s \in {"prepare", "restart"} :
          Begin(o, [Idle EXCEPT !.stage = s, !.source = env.label])
    BY <1>4 DEF Prepare, Restart
  <2> DEFINE r == [Idle EXCEPT !.stage = s, !.source = env.label]
  <2>2. r \in Script
    BY <1>3 DEF Idle, Script, Stages
  <2>3. Holds(r)
    BY <1>3 DEF Idle, Holds, Candidates, Labelled
  <2>4. runs' \in 0..MaxRuns
    BY <1>2, <2>1 DEF Begin
  <2> QED BY <1>4, <2>1, <2>2, <2>3, <2>4, ScriptStep DEF Prepare, Restart, Begin
<1>5. CASE Baseline(o)
  <2> DEFINE r == [Idle EXCEPT !.stage = "baseline", !.source = reviewed.source,
                               !.bundle = reviewed.bundle, !.before = live.site]
  <2>1. Extends(reviewed.bundle, reviewed.source)
    BY DEF IInv
  <2>2. r \in Script
    BY <1>3, <2>1 DEF Idle, Script, Stages, Extends, Known, Bundle
  <2>3. Holds(r)
    BY <2>1 DEF Idle, Holds, Candidates, Labelled
  <2>4. runs' \in 0..MaxRuns
    BY <1>2, <1>5 DEF Baseline, Begin
  <2> QED BY <1>5, <2>2, <2>3, <2>4, ScriptStep DEF Baseline, Begin
<1>6. CASE Recheck(o)
  <2> DEFINE r == [run[o] EXCEPT !.stage = "update", !.seen = live]
  <2>1. live = Content(run[o].source)
    BY <1>3, <1>6 DEF Recheck, Serves
  <2>2. r \in Script
    BY <1>1, <1>3 DEF Script, Stages
  <2>3. Holds(r)
    BY <1>1, <1>6, <2>1 DEF Recheck, At, Script, Holds, Candidates, Labelled
  <2> QED BY <1>2, <1>6, <2>2, <2>3, ScriptStep DEF Recheck
<1>7. ASSUME NEW l \in Hand, RestartRecheck(o, l) PROVE IInv'
  <2> DEFINE r == [run[o] EXCEPT !.stage = "restart create", !.label = l, !.seen = live]
  <2>1. live = Content(run[o].source)
    BY <1>3, <1>7 DEF RestartRecheck, Serves
  <2>2. r \in Script
    BY <1>1, <1>3 DEF Script, Stages, Labels
  <2>3. Holds(r)
    BY <1>1, <1>7, <2>1 DEF RestartRecheck, At, Script, Holds, Candidates, Labelled
  <2> QED BY <1>2, <1>7, <2>2, <2>3, ScriptStep DEF RestartRecheck
<1> QED BY <1>4, <1>5, <1>6, <1>7

\* A candidate is reviewed.
LEMMA Reviews ==
  ASSUME IInv, NEW o \in Operators, PrepareKeys(o) \/ PrepareIngest(o) \/ Repair(o)
  PROVE IInv'
<1>1. UNCHANGED <<objects, versions, env, live, runs>>
  BY DEF PrepareKeys, PrepareIngest, Reviewed, Repair
<1>2. Kept /\ Shown'
  BY <1>1, KeptSame, ShownKept DEF IInv
<1>3. run' \in [Operators -> Script]
      /\ \A p \in Operators : run'[p] = run[p] \/ run'[p] = Idle
  <2>1. Idle \in Script
    BY DEF Idle, Script, Stages
  <2> QED BY <2>1 DEF IInv, TypeOK, PrepareKeys, PrepareIngest, Reviewed, Repair, Step
<1>4. Holds(Idle)'
  BY DEF Idle, Holds, Candidates, Labelled
<1>5. \A p \in Operators : run'[p] = run[p] \/ Holds(run[p])'
  BY <1>3, <1>4 DEF Holds, Idle, Candidates, Labelled
<1> DEFINE Fits == reviewed' \in Review /\ Extends(reviewed'.bundle, reviewed'.source)
<1>6. Fits
  <2>1. ASSUME NEW c \in Changes, At(o, "prepare"), Reviewed(o, c) PROVE Fits
    <3> DEFINE l == run[o].source
    <3>1. Known(l)
      BY <2>1, ScriptType DEF IInv, Holds, At
    <3>2. Content(l) \in Bundle
      BY <3>1, ObjectOf DEF IInv
    <3>3. Overlay(Content(l), c) \in Bundle
          /\ Overlay(Content(l), c).site = Content(l).site
          /\ Content(l).changes \subseteq Overlay(Content(l), c).changes
      BY <3>2 DEF Overlay, Bundle
    <3> QED BY <2>1, <3>1, <3>3 DEF Reviewed, Extends, Review, Known
  <2>2. CASE Repair(o)
    <3>1. Extends(reviewed.bundle, reviewed.source) /\ reviewed \in Review
      BY DEF IInv, TypeOK
    <3> QED BY <2>2, <3>1 DEF Repair, Extends, Review, Bundle, Known
  <2> QED BY <2>1, <2>2 DEF PrepareKeys, PrepareIngest, Changes
<1>7. Extends(reviewed.bundle, reviewed.source)'
  BY <1>1, <1>6 DEF Extends, Known, Content
<1>8. TypeOK'
  BY <1>1, <1>3, <1>6 DEF IInv, TypeOK, Version
<1> QED BY <1>2, <1>5, <1>7, <1>8, Preserved

\* The environment is told to change, or has changed.
LEMMA Updates ==
  ASSUME IInv,
         \/ \E o \in Operators : Update(o) \/ UpdateUnanswered(o)
         \/ \E l \in Labels : Deploy(l)
         \/ Arrive \/ Fail
  PROVE IInv'
<1>1. UNCHANGED <<objects, versions, reviewed, runs>>
  BY DEF Update, UpdateUnanswered, Deploy, Arrive, Fail
<1>2. Kept
  BY <1>1, KeptSame DEF IInv
<1>3. Extends(reviewed.bundle, reviewed.source)'
  BY <1>1 DEF IInv, Extends, Known, Content
<1>4. /\ env \in [label : Labels, target : Labels, status : {"Ready", "Updating"},
                  health : {"Green", "Red"}]
      /\ Known(env.label) /\ Known(env.target) /\ live \in Bundle
      /\ (env.health = "Green" => live = Content(env.label))
  BY DEF IInv, TypeOK, Shown
<1>5. Content(env.target) \in Bundle
  BY <1>4, ObjectOf DEF IInv
<1>6. ASSUME NEW l, Known(l), BeginUpdate(l), UNCHANGED live
      PROVE Shown' /\ env' \in [label : Labels, target : Labels,
                                status : {"Ready", "Updating"}, health : {"Green", "Red"}]
  BY <1>1, <1>4, <1>6 DEF BeginUpdate, Shown, Known, Content
<1>7. ASSUME NEW o \in Operators, Update(o) \/ UpdateUnanswered(o) PROVE IInv'
  <2>1. run[o] \in Script /\ Holds(run[o])
    BY ScriptType DEF IInv
  <2>2. Known(run[o].label)
    BY <1>7, <2>1 DEF Update, UpdateUnanswered, At, Holds
  <2>3. Shown' /\ env' \in [label : Labels, target : Labels,
                            status : {"Ready", "Updating"}, health : {"Green", "Red"}]
    BY <1>6, <1>7, <2>2 DEF Update, UpdateUnanswered
  <2>4. PICK s \in {"await", "retry"} : run' = [run EXCEPT ![o] = [run[o] EXCEPT !.stage = s]]
    BY <1>7 DEF Update, UpdateUnanswered, Goto, Step
  <2> DEFINE r == [run[o] EXCEPT !.stage = s]
  <2>5. r \in Script
    BY <2>1 DEF Script, Stages
  <2>6. s = "retry" => run[o].stage = "update"
    <3>1. CASE UpdateUnanswered(o)
      BY <3>1 DEF UpdateUnanswered, At
    <3>2. CASE Update(o)
      BY <2>1, <2>4, <3>2 DEF Update, Goto, Step, IInv, TypeOK, Script
    <3> QED BY <1>7, <3>1, <3>2
  <2>7. Holds(r)
    <3>1. run[o].stage \in {"update", "retry"}
      BY <1>7 DEF Update, UpdateUnanswered, At
    <3>2. CASE s = "await"
      BY <2>1, <3>1, <3>2 DEF Holds, Candidates, Labelled, Script
    <3>3. CASE s = "retry"
      BY <2>1, <2>6, <3>3 DEF Holds, Candidates, Labelled, Script
    <3> QED BY <3>2, <3>3
  <2>8. run' \in [Operators -> Script] /\ run'[o] = r
        /\ \A p \in Operators : p # o => run'[p] = run[p]
    BY <2>4, <2>5 DEF IInv, TypeOK
  <2>9. Holds(run[o])'
    BY <1>1, <2>7, <2>8 DEF Holds, Extends, Known, Content
  <2>10. TypeOK'
    BY <1>1, <1>7, <2>3, <2>8 DEF IInv, TypeOK, Version, Update, UpdateUnanswered
  <2> QED BY <1>2, <1>3, <2>3, <2>8, <2>9, <2>10, Preserved
<1>8. ASSUME NEW l \in Labels, Deploy(l) PROVE IInv'
  <2>1. Shown' /\ env' \in [label : Labels, target : Labels,
                            status : {"Ready", "Updating"}, health : {"Green", "Red"}]
    BY <1>6, <1>8 DEF Deploy, Known
  <2>2. TypeOK' /\ UNCHANGED run
    BY <1>1, <1>8, <2>1 DEF IInv, TypeOK, Version, Deploy
  <2> QED BY <1>2, <1>3, <2>1, <2>2, Preserved
<1>9. CASE Arrive \/ Fail
  <2>1. Shown'
    BY <1>1, <1>4, <1>9 DEF Arrive, Fail, Shown, Known, Content
  <2>2. env' \in [label : Labels, target : Labels, status : {"Ready", "Updating"},
                  health : {"Green", "Red"}]
    BY <1>4, <1>9 DEF Arrive, Fail
  <2>3. live' \in Bundle /\ UNCHANGED run
    BY <1>4, <1>5, <1>9 DEF Arrive, Fail
  <2>4. TypeOK'
    BY <1>1, <2>2, <2>3 DEF IInv, TypeOK, Version
  <2> QED BY <1>2, <1>3, <2>1, <2>3, <2>4, Preserved
<1> QED BY <1>7, <1>8, <1>9

\* Something is stored.
LEMMA Stores ==
  ASSUME IInv,
         \/ \E o \in Operators : Upload(o) \/ CreateVersion(o) \/ RestartCreate(o)
         \/ \E l \in ScriptLabel : Process(l)
         \/ \E l \in Hand, b \in Trees : PublishTree(l, b)
  PROVE Kept /\ IInv'
<1> USE LabelAssumption
<1>1. /\ objects \in [Labels -> Bundle \cup {None}]
      /\ versions \in [Labels -> Version \cup {None}]
      /\ run \in [Operators -> Script]
      /\ Stored
  BY DEF IInv, TypeOK
<1>2. UNCHANGED <<env, live, reviewed, runs>>
  BY DEF Upload, CreateVersion, RestartCreate, Process, PublishTree
<1> DEFINE Steps ==
             /\ Kept
             /\ objects' \in [Labels -> Bundle \cup {None}]
             /\ versions' \in [Labels -> Version \cup {None}]
             /\ run' \in [Operators -> Script]
             /\ \A p \in Operators : run'[p] = run[p] \/ Holds(run[p])'
<1>3. Steps => Kept /\ IInv'
  <2> HAVE Steps
  <2>1. TypeOK'
    BY <1>2 DEF IInv, TypeOK
  <2>2. Shown'
    BY <1>2, ShownKept DEF IInv
  <2>3. Extends(reviewed.bundle, reviewed.source)'
    <3>1. Extends(reviewed.bundle, reviewed.source)
      BY DEF IInv
    <3>2. \A b, l : Extends(b, l) => Extends(b, l)'
      BY ExtendsKept DEF IInv
    <3> QED BY <1>2, <3>1, <3>2 DEF Extends, Known, Content
  <2> QED BY <2>1, <2>2, <2>3, Preserved
<1>4. ASSUME NEW o \in Operators, Upload(o) PROVE Steps
  <2>1. PICK q \in Script : q = run[o] /\ Holds(q) /\ q.stage = "upload"
    BY <1>4, ScriptType DEF IInv, Upload, At
  <2> DEFINE r == [q EXCEPT !.stage = "create"]
  <2>2. q.label \in ScriptLabel /\ q.label \in Labels /\ q.label.hash = q.bundle
        /\ q.bundle \in Bundle
    BY <2>1 DEF Holds, Labelled, Candidates, Extends, Labels
  <2>3. objects' = [objects EXCEPT ![q.label] = q.bundle] /\ UNCHANGED versions
    BY <1>4, <2>1 DEF Upload
  <2>4. Kept
    BY <1>1, <2>2, <2>3 DEF Kept, Stored, Labels
  <2>5. r \in Script
    BY <2>1 DEF Script, Stages
  <2>6. run' = [run EXCEPT ![o] = r]
    BY <1>4, <2>1 DEF Upload, Goto, Step
  <2>7. Holds(q)'
    BY <1>1, <2>1, <2>4, HoldsKept DEF IInv
  <2>8. objects'[q.label] = q.bundle
    BY <1>1, <2>2, <2>3
  <2>9. Holds(r)'
    BY <2>1, <2>7, <2>8 DEF Holds, Candidates, Labelled, Script
  <2>10. run'[o] = r /\ \A p \in Operators : p # o => run'[p] = run[p]
    BY <1>1, <2>6
  <2>11. Holds(run[o])'
    BY <2>9, <2>10 DEF Holds, Extends, Known, Content
  <2> QED BY <1>1, <2>2, <2>3, <2>4, <2>5, <2>6, <2>10, <2>11
<1>5. ASSUME NEW o \in Operators, CreateVersion(o) PROVE Steps
  <2>1. PICK q \in Script : q = run[o] /\ Holds(q) /\ q.stage = "create"
    BY <1>5, ScriptType DEF IInv, CreateVersion, At
  <2> DEFINE r == [q EXCEPT !.stage = "process"]
             v == [object |-> q.label, status |-> "unprocessed"]
  <2>2. q.label \in Labels /\ objects[q.label] = q.bundle /\ q.bundle \in Bundle
    BY <2>1 DEF Holds, Labelled, Candidates, Extends, Labels
  <2>3. versions' = [versions EXCEPT ![q.label] = v] /\ versions[q.label] = None
        /\ UNCHANGED objects
    BY <1>5, <2>1 DEF CreateVersion
  <2>4. v \in Version /\ v # None /\ v.object = q.label
    BY <2>2 DEF Version
  <2>5. Kept
    BY <1>1, <2>2, <2>3, <2>4 DEF Kept, Stored
  <2>6. r \in Script
    BY <2>1 DEF Script, Stages
  <2>7. run' = [run EXCEPT ![o] = r]
    BY <1>5, <2>1 DEF CreateVersion, Goto, Step
  <2>8. Holds(q)'
    BY <1>1, <2>1, <2>5, HoldsKept DEF IInv
  <2>9. versions'[q.label] = v
    BY <1>1, <2>2, <2>3
  <2>10. Known(q.label)' /\ Content(q.label)' = q.bundle
    BY <2>2, <2>3, <2>4, <2>9 DEF Known, Content
  <2>11. Holds(r)'
    BY <2>1, <2>8, <2>10 DEF Holds, Candidates, Labelled, Script
  <2>12. run'[o] = r /\ \A p \in Operators : p # o => run'[p] = run[p]
    BY <1>1, <2>7
  <2>13. Holds(run[o])'
    BY <2>11, <2>12 DEF Holds, Extends, Known, Content
  <2> QED BY <1>1, <2>2, <2>3, <2>4, <2>5, <2>6, <2>7, <2>12, <2>13
<1>6. ASSUME NEW o \in Operators, RestartCreate(o) PROVE Steps
  <2>1. run[o] \in Script /\ Known(run[o].source) /\ run[o].label \in Labels
    BY <1>6, ScriptType DEF IInv, RestartCreate, At, Holds, Labels
  <2> DEFINE v == [object |-> versions[run[o].source].object, status |-> "unprocessed"]
  <2>2. versions' = [versions EXCEPT ![run[o].label] = v] /\ versions[run[o].label] = None
        /\ UNCHANGED objects
    BY <1>6 DEF RestartCreate
  <2>3. v.object \in Labels /\ objects[v.object] # None
    BY <2>1, ObjectOf DEF IInv
  <2>4. v \in Version /\ v # None
    BY <2>3 DEF Version
  <2>5. Kept
    BY <1>1, <2>1, <2>2, <2>3, <2>4 DEF Kept, Stored
  <2>6. Idle \in Script /\ Idle.stage = "idle"
    BY DEF Idle, Script, Stages
  <2>7. run' = [run EXCEPT ![o] = Idle]
    BY <1>6 DEF RestartCreate, Step
  <2>8. \A p \in Operators : run'[p] = run[p] \/ Holds(run[p])'
    BY <1>1, <2>6, <2>7 DEF Holds, Candidates, Labelled
  <2> QED BY <1>1, <2>1, <2>2, <2>4, <2>5, <2>6, <2>7, <2>8
<1>7. ASSUME NEW l \in ScriptLabel, Process(l) PROVE Steps
  <2> DEFINE v == [versions[l] EXCEPT !.status = "processed"]
  <2>1. l \in Labels /\ versions[l] \in Version
    BY <1>1, <1>7 DEF Process, Labels
  <2>2. v \in Version /\ v # None /\ v.object = versions[l].object
    BY <2>1 DEF Version
  <2>3. versions' = [versions EXCEPT ![l] = v] /\ UNCHANGED <<objects, run>>
    BY <1>7 DEF Process
  <2>4. Kept
    BY <1>1, <1>7, <2>1, <2>2, <2>3 DEF Kept, Stored, Process
  <2> QED BY <1>1, <2>1, <2>2, <2>3, <2>4
<1>8. ASSUME NEW l \in Hand, NEW b \in Trees, PublishTree(l, b) PROVE Steps
  <2> DEFINE v == [object |-> l, status |-> "unprocessed"]
  <2>1. l \in Labels /\ l \notin ScriptLabel /\ b \in Bundle
    BY DEF Labels
  <2>2. v \in Version /\ v # None /\ v.object = l
    BY <2>1 DEF Version
  <2>3. /\ objects[l] = None /\ versions[l] = None
        /\ objects' = [objects EXCEPT ![l] = b] /\ versions' = [versions EXCEPT ![l] = v]
        /\ UNCHANGED run
    BY <1>8 DEF PublishTree
  <2>4. Kept
    BY <1>1, <2>1, <2>2, <2>3 DEF Kept, Stored, Labels
  <2> QED BY <1>1, <2>1, <2>2, <2>3, <2>4
<1> QED BY <1>3, <1>4, <1>5, <1>6, <1>7, <1>8

LEMMA NextHolds == IInv /\ [Next]_vars => Kept /\ IInv'
<1> SUFFICES ASSUME IInv, [Next]_vars PROVE Kept /\ IInv'
  OBVIOUS
<1>1. TypeOK /\ Stored
  BY DEF IInv
<1>2. CASE UNCHANGED vars
  <2>1. Kept
    BY <1>1, <1>2, KeptSame DEF vars
  <2> QED BY <1>2, <2>1 DEF vars, IInv, TypeOK, Stored, Shown, Holds, Extends, Known, Content
<1>3. ASSUME NEW o \in Operators, Scripts(o) PROVE Kept /\ IInv'
  <2>1. CASE \/ CheckSource(o) \/ Processed(o) \/ Arrived(o) \/ Verify(o) \/ Stop(o)
             \/ \E t \in Ticks : NewLabel(o, t) \/ ResumeVersion(o, t)
    <3>1. UNCHANGED <<objects, versions>>
      BY <2>1 DEF CheckSource, Processed, Arrived, Verify, Stop, NewLabel, ResumeVersion
    <3> QED BY <1>1, <2>1, <3>1, KeptSame, Looks
  <2>2. CASE \/ Prepare(o) \/ Baseline(o) \/ Restart(o) \/ Recheck(o)
             \/ \E l \in Hand : RestartRecheck(o, l)
    <3>1. UNCHANGED <<objects, versions>>
      BY <2>2 DEF Prepare, Baseline, Restart, Recheck, RestartRecheck
    <3> QED BY <1>1, <2>2, <3>1, KeptSame, Notes
  <2>3. CASE PrepareKeys(o) \/ PrepareIngest(o) \/ Repair(o)
    <3>1. UNCHANGED <<objects, versions>>
      BY <2>3 DEF PrepareKeys, PrepareIngest, Reviewed, Repair
    <3> QED BY <1>1, <2>3, <3>1, KeptSame, Reviews
  <2>4. CASE Update(o) \/ UpdateUnanswered(o)
    <3>1. UNCHANGED <<objects, versions>>
      BY <2>4 DEF Update, UpdateUnanswered
    <3> QED BY <1>1, <2>4, <3>1, KeptSame, Updates
  <2>5. CASE Upload(o) \/ CreateVersion(o) \/ RestartCreate(o)
    BY <2>5, Stores
  <2> QED BY <1>3, <2>1, <2>2, <2>3, <2>4, <2>5 DEF Scripts
<1>4. CASE (\E l \in Labels : Deploy(l)) \/ Arrive \/ Fail
  <2>1. UNCHANGED <<objects, versions>>
    BY <1>4 DEF Deploy, Arrive, Fail
  <2> QED BY <1>1, <1>4, <2>1, KeptSame, Updates
<1>5. CASE \/ \E l \in ScriptLabel : Process(l)
           \/ \E l \in Hand, b \in Trees : PublishTree(l, b)
  BY <1>5, Stores
<1> QED BY <1>2, <1>3, <1>4, <1>5 DEF Next

LEMMA Inductive == Spec => []IInv
<1>1. IInv /\ [Next]_vars => IInv'
  BY NextHolds
<1> QED BY <1>1, InitHolds, PTL DEF Spec

-------------------------------------------------------------------------------
(* Every reachable state of versions, environment and scripts is well      *)
(* typed.                                                                  *)
THEOREM TypeCorrect == Spec => []TypeOK
<1>1. IInv => TypeOK
  BY DEF IInv
<1> QED BY <1>1, Inductive, PTL

(* A version keeps its bundle for good, whoever uploads what under the     *)
(* same label in the same second.                                          *)
THEOREM LabelsKeepContent == Spec => VersionContentFixed
<1>1. IInv /\ [Next]_vars =>
        [\A l \in Labels : versions[l] # None =>
           /\ versions'[l] # None
           /\ Content(l)' = Content(l)]_vars
  <2> SUFFICES ASSUME IInv, [Next]_vars, NEW l \in Labels, versions[l] # None
               PROVE versions'[l] # None /\ Content(l)' = Content(l)
    OBVIOUS
  <2>1. Known(l) /\ Kept
    BY NextHolds DEF Known
  <2> QED BY <2>1, ContentKept DEF IInv, Content
<1> QED BY <1>1, Inductive, PTL DEF Spec, VersionContentFixed

(* No script deploys, nor prepares for a restart, a bundle that lacks what *)
(* was live when it looked for the last time.                              *)
THEOREM NoReleaseUndone == Spec => ScriptsKeepReleases
<1>1. IInv /\ [Next]_vars =>
        [\A o \in Operators :
           /\ Update(o) \/ UpdateUnanswered(o) =>
                /\ Content(run[o].label).site = run[o].seen.site
                /\ run[o].seen.changes \subseteq Content(run[o].label).changes
           /\ RestartCreate(o) =>
                objects'[versions'[run[o].label].object] = run[o].seen]_vars
  <2> SUFFICES ASSUME IInv, NEW o \in Operators
               PROVE /\ Update(o) \/ UpdateUnanswered(o) =>
                          /\ Content(run[o].label).site = run[o].seen.site
                          /\ run[o].seen.changes \subseteq Content(run[o].label).changes
                     /\ RestartCreate(o) =>
                          objects'[versions'[run[o].label].object] = run[o].seen
    OBVIOUS
  <2>1. Holds(run[o])
    BY DEF IInv
  <2>2. ASSUME Update(o) \/ UpdateUnanswered(o)
        PROVE /\ Content(run[o].label).site = run[o].seen.site
              /\ run[o].seen.changes \subseteq Content(run[o].label).changes
    <3>1. run[o].stage \in {"update", "retry"}
      BY <2>2 DEF Update, UpdateUnanswered, At
    <3> QED BY <2>1, <3>1 DEF Holds, Candidates, Extends
  <2>3. ASSUME RestartCreate(o)
        PROVE objects'[versions'[run[o].label].object] = run[o].seen
    <3>1. run[o].stage = "restart create"
      BY <2>3 DEF RestartCreate, At
    <3>2. run[o].label \in Labels /\ run[o].seen = Content(run[o].source)
      BY <2>1, <3>1 DEF Holds, Labels
    <3>3. versions'[run[o].label].object = versions[run[o].source].object
      BY <2>3, <3>2 DEF RestartCreate, IInv, TypeOK
    <3> QED BY <2>3, <3>2, <3>3 DEF RestartCreate, Content
  <2> QED BY <2>2, <2>3
<1> QED BY <1>1, Inductive, PTL DEF Spec, ScriptsKeepReleases
===============================================================================
