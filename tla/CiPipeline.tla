----------------------------- MODULE CiPipeline -----------------------------
(***************************************************************************)
(* One GitLab pipeline, from the trigger that creates it to its last job:  *)
(* which jobs its rules select, what each waits for, the state the jobs of *)
(* the product matrix hand each other as artifacts, the days that pass     *)
(* meanwhile, and the jobs people retry.                                   *)
(*                                                                         *)
(* What the scripts of build, gate, sign and patch do to the registry step *)
(* by step is in ImagePipeline; here a job starts, and succeeds or fails.  *)
(***************************************************************************)
EXTENDS PolicyChecks

CONSTANTS
  Products,     \* jira, confluence, bitbucket
  IgnoreFiles,  \* the .trivyignore.yaml the commit may hold
  Supports,     \* the support-windows.yaml it may hold
  MaxDay,       \* bound: days that pass
  MaxBuilds,    \* bound: images one product's build job may push
  MaxRetries,   \* bound: jobs people retry
  None          \* the product of a job outside the matrix

ASSUME BoundAssumption == {MaxDay, MaxBuilds, MaxRetries} \subseteq Nat
ASSUME ProductAssumption == None \notin Products
ASSUME FileAssumption == /\ IgnoreFiles \subseteq IgnoreFile
                         /\ Supports \subseteq Windows

Days == 0..MaxDay
Digests == 0..MaxBuilds     \* the n-th image a build job pushes; 0: none

Job(stage, P) == {<<stage, p>> : p \in P}
Jobs == Job("lint", {None}) \union Job("sync", {None})
          \union UNION {Job(stage, Products) : stage \in {"build", "gate", "sign", "patch"}}

VARIABLES
  trigger,   \* what created the pipeline, $JOB, and is its ref the default branch
  ignore,    \* .trivyignore.yaml of its commit
  support,   \* support-windows.yaml of its commit
  day,       \* days since then
  status,    \* status[j]: where job j is
  startDay,  \* startDay[j]: the day job j last started
  retries,   \* jobs retried so far
  pushed,    \* pushed[p]: the image p's build tag points at
  built,     \* built[p]: DIGEST of out/<p>-lts/build.env in the artifacts of p's build job
  carried,   \* carried[p][q]: DIGEST of q's build.env in the artifacts of p's gate job
  vuln,      \* vuln[p]: the image vuln.json in the artifacts of p's gate job describes
  work,      \* work[p]: the DIGEST p's sign job has downloaded
  record,    \* record[p]: the image the vuln.json beside it describes
  promoted,  \* promoted[p]: the image p's sign job last signed and promoted
  attested,  \* attested[p]: the image whose record it attached to that
  patched,   \* products whose tags the patch job has moved
  linted,    \* history: days on which lint has succeeded
  passed,    \* history: passed[p]: p's images that have passed a gate, with the day
  overtaken  \* history: products whose build started after a gate job had

commit == <<trigger, ignore, support>>
artifacts == <<built, carried, vuln>>
workspace == <<work, record>>
tags == <<pushed, promoted, attested, patched>>
history == <<linted, passed, overtaken>>
vars == <<commit, day, status, startDay, retries, artifacts, workspace, tags, history>>

Events == {"schedule", "merge_request_event", "push", "web"}
Trigger == [event : Events, job : {"rebuild", "patch", "unset"}, default : BOOLEAN]

\* workflow: rules. JOB is a variable of a schedule or of a form; a pipeline
\* of a merge request has no branch, and of the pushes only those to the
\* default branch create one.
Creates(t) ==
  /\ t.event = "merge_request_event" => ~t.default
  /\ t.event = "push" => t.default
  /\ t.event \in {"merge_request_event", "push"} => t.job = "unset"

TypeOK ==
  /\ trigger \in Trigger
  /\ ignore \in IgnoreFiles
  /\ support \in Supports
  /\ day \in Days
  /\ status \in [Jobs -> {"created", "running", "success", "failed"}]
  /\ startDay \in [Jobs -> Days]
  /\ retries \in 0..MaxRetries
  /\ pushed \in [Products -> Digests]
  /\ built \in [Products -> Digests]
  /\ carried \in [Products -> [Products -> Digests]]
  /\ vuln \in [Products -> Digests]
  /\ work \in [Products -> Digests]
  /\ record \in [Products -> Digests]
  /\ promoted \in [Products -> Digests]
  /\ attested \in [Products -> Digests]
  /\ patched \in SUBSET Products
  /\ linted \in SUBSET Days
  /\ passed \in [Products -> SUBSET (Digests \X Days)]
  /\ overtaken \in SUBSET Products

Nothing == [p \in Products |-> 0]

Init ==
  /\ trigger \in {t \in Trigger : Creates(t)}
  /\ ignore \in IgnoreFiles
  /\ support \in Supports
  /\ day = 0
  /\ status = [j \in Jobs |-> "created"]
  /\ startDay = [j \in Jobs |-> 0]
  /\ retries = 0
  /\ pushed = Nothing
  /\ built = Nothing
  /\ carried = [p \in Products |-> Nothing]
  /\ vuln = Nothing
  /\ work = Nothing
  /\ record = Nothing
  /\ promoted = Nothing
  /\ attested = Nothing
  /\ patched = {}
  /\ linted = {}
  /\ passed = [p \in Products |-> {}]
  /\ overtaken = {}

-----------------------------------------------------------------------------
(* Rules and needs *)

For(event, job) == trigger.event = event /\ trigger.job = job
Review == trigger.event = "merge_request_event"

\* Mutant: lint is for reviews and schedules.
LintRulesWithoutPush == Review \/ trigger.event = "schedule"

LintRules == Review \/ trigger.default \/ trigger.event = "schedule"

\* Mutant: a form does not rebuild, though sign still answers to it.
RebuildRulesWithoutForm == For("schedule", "rebuild") \/ Review \/ trigger.default

RebuildRules ==
  For("schedule", "rebuild") \/ Review \/ trigger.default \/ For("web", "rebuild")

\* Mutant: sign extends the rules of the other jobs of the rebuild.
SignRulesOfRebuild == RebuildRules

SignRules == trigger.default \/ For("schedule", "rebuild") \/ For("web", "rebuild")

PatchRules == For("schedule", "patch") \/ For("web", "patch")

Selects(stage) ==
  CASE stage = "lint" -> LintRules
    [] stage \in {"sync", "build", "gate"} -> RebuildRules
    [] stage = "sign" -> SignRules
    [] stage = "patch" -> PatchRules

Selected == {j \in Jobs : Selects(j[1])}

Rank(stage) ==
  CASE stage = "lint" -> 1 [] stage = "sync" -> 2 [] stage = "build" -> 3
    [] stage = "gate" -> 4 [] stage = "sign" -> 5 [] stage = "patch" -> 6

\* Mutant: sign does not wait for the gate.
NeedsWithoutGate(j) ==
  CASE j[1] = "build" -> Job("sync", {None})
    [] j[1] \in {"gate", "sign"} -> Job("build", Products)
    [] OTHER -> {d \in Selected : Rank(d[1]) < Rank(j[1])}

\* needs: names a matrix job and so means all its products; a job without
\* needs waits for every earlier stage.
Needs(j) ==
  CASE j[1] = "build" -> Job("sync", {None})
    [] j[1] = "gate" -> Job("build", Products)
    [] j[1] = "sign" -> Job("build", Products) \union Job("gate", Products)
    [] OTHER -> {d \in Selected : Rank(d[1]) < Rank(j[1])}

Ready(j) ==
  /\ j \in Selected
  /\ status[j] = "created"
  /\ \A d \in Needs(j) : status[d] = "success"

-----------------------------------------------------------------------------
(* Jobs *)

Starts(j) ==
  /\ Ready(j)
  /\ status' = [status EXCEPT ![j] = "running"]
  /\ startDay' = [startDay EXCEPT ![j] = day]

Finishes(j, s) ==
  /\ status[j] = "running"
  /\ status' = [status EXCEPT ![j] = s]
  /\ UNCHANGED startDay

\* lint, sync, patch.  patch downloads the synced manifests when its pipeline has run
\* sync, and takes its version from them: versions are ImagePipeline's subject.
StartPlain(j) ==
  /\ j[1] \in {"lint", "sync", "patch"}
  /\ Starts(j)
  /\ UNCHANGED <<commit, day, retries, artifacts, workspace, tags, history>>

StartBuild(p) ==
  /\ Starts(<<"build", p>>)
  /\ overtaken' = IF \E j \in Job("gate", Products) : status[j] # "created"
                  THEN overtaken \union {p} ELSE overtaken
  /\ UNCHANGED <<commit, day, retries, artifacts, workspace, tags, linted, passed>>

\* The gate's out/ is that of all builds, and it uploads all of out/ again.
StartGate(p) ==
  /\ Starts(<<"gate", p>>)
  /\ carried' = [carried EXCEPT ![p] = built]
  /\ UNCHANGED <<commit, day, retries, built, vuln, workspace, tags, history>>

\* sign downloads the artifacts of all builds and gates over each other, in
\* an order nothing fixes: p's build.env is any of theirs, its vuln.json is in
\* those of p's gate only.
StartSign(p) ==
  /\ Starts(<<"sign", p>>)
  /\ \E d \in {built[p]} \union {carried[q][p] : q \in Products} :
       work' = [work EXCEPT ![p] = d]
  /\ record' = [record EXCEPT ![p] = vuln[p]]
  /\ UNCHANGED <<commit, day, retries, artifacts, tags, history>>

\* lint.sh: both policy checks, on the day it runs.
LintSucceeds ==
  /\ Finishes(<<"lint", None>>, "success")
  /\ IgnoreFilePasses(ignore, startDay[<<"lint", None>>])
  /\ WindowsPass(support, startDay[<<"lint", None>>])
  /\ linted' = linted \union {startDay[<<"lint", None>>]}
  /\ UNCHANGED <<commit, day, retries, artifacts, workspace, tags, passed, overtaken>>

SyncSucceeds ==
  /\ Finishes(<<"sync", None>>, "success")
  /\ UNCHANGED <<commit, day, retries, artifacts, workspace, tags, history>>

\* Mutant: build.env is written although no digest could be read.
BuildWithoutDigest(p) ==
  /\ Finishes(<<"build", p>>, "success")
  /\ built' = [built EXCEPT ![p] = None]
  /\ UNCHANGED <<commit, day, retries, carried, vuln, workspace, tags, history>>

\* The tag is the same at every attempt (CI_PIPELINE_IID); the digest is not.
BuildSucceeds(p) ==
  /\ Finishes(<<"build", p>>, "success")
  /\ pushed[p] < MaxBuilds
  /\ pushed' = [pushed EXCEPT ![p] = @ + 1]
  /\ built' = [built EXCEPT ![p] = pushed'[p]]
  /\ UNCHANGED <<commit, day, retries, carried, vuln, workspace, promoted, attested,
                 patched, history>>

\* Mutant: the ignore file was checked by lint and is not checked again.
GateTrustsLint(p) ==
  /\ Finishes(<<"gate", p>>, "success")
  /\ vuln' = [vuln EXCEPT ![p] = pushed[p]]
  /\ passed' = [passed EXCEPT ![p] = @ \union {<<pushed[p], startDay[<<"gate", p>>]>>}]
  /\ UNCHANGED <<commit, day, retries, built, carried, workspace, tags, linted, overtaken>>

\* gate.sh checks the ignore file again, then scans what the tag points at.
GateSucceeds(p) ==
  /\ Finishes(<<"gate", p>>, "success")
  /\ IgnoreFilePasses(ignore, startDay[<<"gate", p>>])
  /\ vuln' = [vuln EXCEPT ![p] = pushed[p]]
  /\ passed' = [passed EXCEPT ![p] = @ \union {<<pushed[p], startDay[<<"gate", p>>]>>}]
  /\ UNCHANGED <<commit, day, retries, built, carried, workspace, tags, linted, overtaken>>

SignSucceeds(p) ==
  /\ Finishes(<<"sign", p>>, "success")
  /\ promoted' = [promoted EXCEPT ![p] = work[p]]
  /\ attested' = [attested EXCEPT ![p] = record[p]]
  /\ UNCHANGED <<commit, day, retries, artifacts, workspace, pushed, patched, history>>

\* patch.sh ends early when the image is clean; else it gates and promotes.
PatchSucceeds(p) ==
  /\ Finishes(<<"patch", p>>, "success")
  /\ \/ patched' = patched
     \/ /\ IgnoreFilePasses(ignore, startDay[<<"patch", p>>])
        /\ patched' = patched \union {p}
  /\ UNCHANGED <<commit, day, retries, artifacts, workspace, pushed, promoted, attested,
                 history>>

\* A job's script fails, or it is cancelled or loses its pod. A build may have
\* pushed by then, sign may have moved the tags; what a failed gate uploads
\* nobody downloads, since sign waits for one that succeeds.
JobFails(j) ==
  /\ Finishes(j, "failed")
  /\ \/ UNCHANGED tags
     \/ /\ j[1] = "build"
        /\ pushed[j[2]] < MaxBuilds
        /\ pushed' = [pushed EXCEPT ![j[2]] = @ + 1]
        /\ UNCHANGED <<promoted, attested, patched>>
     \/ /\ j[1] = "sign"
        /\ promoted' = [promoted EXCEPT ![j[2]] = work[j[2]]]
        /\ attested' = [attested EXCEPT ![j[2]] = record[j[2]]]
        /\ UNCHANGED <<pushed, patched>>
     \/ /\ j[1] = "patch"
        /\ IgnoreFilePasses(ignore, startDay[j])
        /\ patched' = patched \union {j[2]}
        /\ UNCHANGED <<pushed, promoted, attested>>
  /\ UNCHANGED <<commit, day, retries, artifacts, workspace, history>>

\* Somebody retries a finished job, failed or not.
Retry(j) ==
  /\ status[j] \in {"success", "failed"}
  /\ retries < MaxRetries
  /\ status' = [status EXCEPT ![j] = "created"]
  /\ retries' = retries + 1
  /\ UNCHANGED <<commit, day, startDay, artifacts, workspace, tags, history>>

NextDay ==
  /\ day < MaxDay
  /\ day' = day + 1
  /\ UNCHANGED <<commit, status, startDay, retries, artifacts, workspace, tags, history>>

RunnerStep ==
  \/ \E j \in Jobs : StartPlain(j) \/ JobFails(j)
  \/ \E p \in Products :
       \/ StartBuild(p) \/ StartGate(p) \/ StartSign(p)
       \/ BuildSucceeds(p) \/ GateSucceeds(p) \/ SignSucceeds(p) \/ PatchSucceeds(p)
  \/ LintSucceeds \/ SyncSucceeds

Next == RunnerStep \/ NextDay \/ \E j \in Jobs : Retry(j)

Spec == Init /\ [][Next]_vars

\* Runners keep taking jobs, and jobs end, by their timeout if need be.
FairSpec == Spec /\ WF_vars(RunnerStep)

-----------------------------------------------------------------------------
(* Properties *)

\* A merge request's pipeline builds and gates, and never moves a tag that
\* deployments use, whatever is retried in it.
ReviewNeverPromotes ==
  Review => promoted = Nothing /\ patched = {}

\* What p's sign job promotes is the image p's gate has scanned and passed,
\* with the record of that very scan, although digest and record reach it in
\* the overlapping artifacts of other jobs - unless a build of p has started
\* after a gate had.
SignsWhatItGated ==
  \A p \in Products \ overtaken : promoted[p] # 0 =>
    (\E d \in Days : <<promoted[p], d>> \in passed[p]) /\ attested[p] = promoted[p]

Exceptions == IF ignore.shape = "mapping" THEN UNION {ignore.entries[s] : s \in Sections}
              ELSE {}

InForce(e, d) == e.expiry \in (d + 1)..(d + MaxDays)

\* However long after lint a gate runs or is retried: the scan that let an
\* image pass was made on a day on which every exception of the commit was in
\* force, that is, ends on a later day at most MaxDays away.
GatedUnderExceptionsInForce ==
  \A p \in Products \ overtaken : promoted[p] # 0 =>
    \E d \in Days : /\ <<promoted[p], d>> \in passed[p]
                    /\ \A e \in Exceptions : InForce(e, d)

\* Outside web pipelines of other branches, nothing is promoted unless lint
\* has seen, earlier in the pipeline, that every support window anybody has
\* filled in stays open for more than FailWithin days.
PromotedWhileSupported ==
  (trigger.event # "web" \/ trigger.default) /\ promoted # Nothing =>
    \E d \in linted : \A ends \in Ends(support) \ {NoDate} : ends \in Int /\ ends > d + FailWithin

\* A schedule that asks for patches only patches: the tags of its products
\* move in the patch job and nowhere else.
PatchScheduleOnlyPatches == For("schedule", "patch") => promoted = Nothing

\* The images that have passed a gate of p's.
ClearedImages(p) == {x[1] : x \in passed[p]} \ {0}

\* Jobs, artifacts that overwrite each other, retries and days hidden, the
\* pipeline is a release behind a gate: see GatedRelease.
Abstract == INSTANCE GatedRelease
  WITH Images <- Digests \ {0}, NoImage <- 0,
       review <- Review,
       cleared <- [p \in Products |-> ClearedImages(p)],
       excepted <- overtaken,
       released <- promoted
ImplementsGatedRelease == Abstract!Spec

\* The jobs that a pipeline's rules select never wait for each other in a
\* circle, nor for a job the rules leave out: while some are not done and none
\* has failed, one runs or may be started.
NeverStuck ==
  \/ \A j \in Selected : status[j] = "success"
  \/ \E j \in Selected : status[j] \in {"running", "failed"}
  \/ \E j \in Jobs : Ready(j)

\* No job waits for one that will never come, because it failed or because the
\* rules leave it out: every pipeline ends up with all its jobs successful, or
\* with a failed one for somebody to look at.
ComesToRest ==
  <>[](\/ \A j \in Selected : status[j] = "success"
       \/ \E j \in Selected : status[j] = "failed")
=============================================================================
