---------------------------- MODULE IronBankSync ----------------------------
(***************************************************************************)
(* How a product version gets from Iron Bank into a rebuild and into git.  *)
(*                                                                         *)
(* Every rebuild pipeline first runs sync-ironbank.sh over all targets:    *)
(* with --open-mr on a schedule (GitLab or Jenkins), with --check on merge *)
(* requests and pushes.  The script edits the hardening manifests in the   *)
(* pipeline's checkout, one target after the other; the build stage builds *)
(* what it left there.  Meanwhile Iron Bank moves, people pin versions by  *)
(* hand, Renovate bumps tools, and merge requests are merged in any order. *)
(***************************************************************************)
EXTENDS LineManifest

CONSTANTS
  Targets,     \* jira/lts, confluence/lts, bitbucket/lts
  GitLab,      \* GitLab pipelines that can run at the same time
  Jenkins,     \* Jenkins rebuilds that can run at the same time
  Dates,       \* sync/ironbank-<date> branches
  Hand,        \* branches of people and of Renovate
  IronBankTool,\* IronBankTool[t]: the tool release Iron Bank pins, 0 if none
  MaxEdits,    \* bound: merge requests opened by hand or by Renovate
  Token,       \* pipelines that have GITLAB_SYNC_TOKEN and GitLab's variables
  None         \* no merge request, no pipeline

Pipelines == GitLab \union Jenkins
Branches == Dates \union Hand

ASSUME BoundsAssumption == /\ MaxVersion \in Nat \ {0}
                           /\ MaxTool \in Nat \ {0}
                           /\ MaxEdits \in Nat
ASSUME ToolAssumption == IronBankTool \in [Targets -> ToolReleases \union {0}]
ASSUME TokenAssumption == Token \subseteq GitLab \union Jenkins
ASSUME BranchAssumption == Dates \intersect Hand = {}
ASSUME PipelineAssumption == GitLab \intersect Jenkins = {}

Checkout == [Targets -> Manifest]

\* What Iron Bank's development branch pins: the version, and whether its
\* tarball has a usable sha256.
Upstream == [version : Versions, pinned : BOOLEAN]

MergeRequest == [base : Checkout, head : Checkout]

Kinds == {"schedule", "merge_request_event", "push"}
Job == [kind : Kinds, stage : {"sync", "build"}, checkout : Checkout,
        ws : Checkout, todo : SUBSET Targets, seen : [Targets -> Versions \union {0}]]

VARIABLES
  ironbank,  \* ironbank[t]: the development branch of t's Iron Bank repository
  main,      \* the manifests on the default branch
  mr,        \* mr[b]: the open merge request of branch b
  job,       \* job[p]: the pipeline running in p
  edits,     \* merge requests opened by hand or by Renovate so far
  byHand     \* history: targets whose version someone has pinned by hand

vars == <<ironbank, main, mr, job, edits, byHand>>

TypeOK ==
  /\ ironbank \in [Targets -> Upstream]
  /\ main \in Checkout
  /\ mr \in [Branches -> MergeRequest \union {None}]
  /\ job \in [Pipelines -> Job \union {None}]
  /\ edits \in 0..MaxEdits
  /\ byHand \in SUBSET Targets

\* The repository's own state: seed versions, nothing pinned yet.
Init ==
  /\ ironbank \in [Targets -> {u \in Upstream : u.version = 1}]
  /\ main = [t \in Targets |-> [version |-> 1, product |-> Unpinned(1),
                                tool |-> Unpinned(1), annotated |-> TRUE]]
  /\ mr = [b \in Branches |-> None]
  /\ job = [p \in Pipelines |-> None]
  /\ edits = 0
  /\ byHand = {}

-----------------------------------------------------------------------------
(* Iron Bank, and the people and bots that open merge requests *)

\* Iron Bank moves to a release; its checksum may follow in a later commit.
IronBankMoves(t) ==
  /\ ironbank[t].version < MaxVersion
  /\ \E ok \in BOOLEAN :
       ironbank' = [ironbank EXCEPT ![t] = [version |-> @.version + 1, pinned |-> ok]]
  /\ UNCHANGED <<main, mr, job, edits, byHand>>

IronBankPins(t) ==
  /\ ~ironbank[t].pinned
  /\ ironbank' = [ironbank EXCEPT ![t] = [version |-> @.version, pinned |-> TRUE]]
  /\ UNCHANGED <<main, mr, job, edits, byHand>>

\* Branch h gets t's manifest m, in a merge request against the default branch.
Propose(h, t, m) ==
  /\ mr[h] = None
  /\ edits < MaxEdits
  /\ mr' = [mr EXCEPT ![h] = [base |-> main, head |-> [main EXCEPT ![t] = m]]]
  /\ edits' = edits + 1

\* pin-version.sh <t> <v>, for an advisory Iron Bank has not picked up yet or
\* to fill in a missing checksum.  Nobody pins an older release, and who
\* commits looks at a script that has ended well.
PinVersion(h, t, v) ==
  /\ v >= main[t].version
  /\ Propose(h, t, [main[t] EXCEPT !.version = v, !.product = Pin(v), !.annotated = FALSE])
  /\ UNCHANGED <<ironbank, main, job, byHand>>

\* pin-resource.sh <t> --all, run by hand on the releases of the manifest, or
\* by Renovate on a newer one it found through the annotation.
PinResources(h, t, r) ==
  /\ r = main[t].tool.release \/ (r > main[t].tool.release /\ main[t].annotated)
  /\ Propose(h, t, [main[t] EXCEPT !.product = Pin(@.release), !.tool = Pin(r),
                                   !.annotated = FALSE])
  /\ UNCHANGED <<ironbank, main, job, byHand>>

\* git finds nothing to ask about in one manifest: each entry was edited on one
\* side only, or to the same value on both.  The first save rewrites a whole file
\* (it drops the comments and wraps every line anew), so beside it any other edit
\* conflicts; later saves only change the lines of what they set.
Clean(base, ours, theirs) ==
  /\ \A f \in DOMAIN base : theirs[f] # base[f] => ours[f] \in {base[f], theirs[f]}
  /\ base.annotated /\ theirs # base => ours \in {base, theirs}

\* Then it takes from each side what that side has edited.
Taken(base, ours, theirs) == IF theirs = base THEN ours ELSE theirs
Combined(base, ours, theirs) ==
  [version   |-> Taken(base.version, ours.version, theirs.version),
   product   |-> Taken(base.product, ours.product, theirs.product),
   tool      |-> Taken(base.tool, ours.tool, theirs.tool),
   annotated |-> Taken(base.annotated, ours.annotated, theirs.annotated)]

\* Mutant: a merge takes the branch's entries whatever happened since.
MergeableAnyway(b) == mr[b] # None

Mergeable(b) ==
  /\ mr[b] # None
  /\ \A t \in Targets : Clean(mr[b].base[t], main[t], mr[b].head[t])

Merge(b) ==
  /\ Mergeable(b)
  /\ main' = [t \in Targets |-> Combined(mr[b].base[t], main[t], mr[b].head[t])]
  /\ mr' = [mr EXCEPT ![b] = None]
  /\ byHand' = IF b \in Hand
               THEN byHand \union {t \in Targets : main'[t].version # main[t].version}
               ELSE byHand
  /\ UNCHANGED <<ironbank, job, edits>>

-----------------------------------------------------------------------------
(* Rebuild pipelines *)

Start(p, k, c) ==
  /\ job[p] = None
  /\ job' = [job EXCEPT ![p] = [kind |-> k, stage |-> "sync", checkout |-> c, ws |-> c,
                                todo |-> Targets, seen |-> [t \in Targets |-> 0]]]
  /\ UNCHANGED <<ironbank, main, mr, edits, byHand>>

StartSchedule(p) == Start(p, "schedule", main)

StartPush(p) == p \in GitLab /\ Start(p, "push", main)

StartMergeRequest(p, b) ==
  /\ p \in GitLab
  /\ mr[b] # None
  /\ Start(p, "merge_request_event", mr[b].head)

Syncing(p) == job[p] # None /\ job[p].stage = "sync"
Building(p) == job[p] # None /\ job[p].stage = "build"

\* One round of the loop: fetch t's upstream manifest and apply it.
SyncTarget(p, t) ==
  /\ Syncing(p)
  /\ t \in job[p].todo
  /\ ironbank[t].pinned
  /\ job' = [job EXCEPT ![p].ws[t] = Apply(@, ironbank[t], IronBankTool[t]),
                        ![p].seen[t] = ironbank[t].version,
                        ![p].todo = @ \ {t}]
  /\ UNCHANGED <<ironbank, main, mr, edits, byHand>>

\* Mutant: a scheduled rebuild swallows a failed sync as well.
SyncFailsSoftly(p) ==
  /\ Syncing(p)
  /\ job[p].todo # {}
  /\ job' = [job EXCEPT ![p].stage = "build"]
  /\ UNCHANGED <<ironbank, main, mr, edits, byHand>>

\* Mutant: VERSION is saved before the checksum turns out to be missing.
SyncFailsHalfway(p) ==
  /\ Syncing(p)
  /\ \E t \in job[p].todo :
       job' = IF job[p].kind = "schedule" THEN [job EXCEPT ![p] = None]
              ELSE [job EXCEPT ![p].stage = "build", ![p].ws[t].version = ironbank[t].version]
  /\ UNCHANGED <<ironbank, main, mr, edits, byHand>>

\* A fetch fails or Iron Bank's manifest cannot be used: the script dies where
\* it is.  That ends a scheduled pipeline; "|| echo" lets the others go on.
SyncFails(p) ==
  /\ Syncing(p)
  /\ job[p].todo # {}
  /\ job' = IF job[p].kind = "schedule" THEN [job EXCEPT ![p] = None]
            ELSE [job EXCEPT ![p].stage = "build"]
  /\ UNCHANGED <<ironbank, main, mr, edits, byHand>>

Synced(p) == Syncing(p) /\ job[p].todo = {}
Drifted(p) == job[p].ws # job[p].checkout

\* Nothing changed, or --check: exit 3 is reported and swallowed.
Report(p) ==
  /\ Synced(p)
  /\ ~Drifted(p) \/ job[p].kind # "schedule"
  /\ job' = [job EXCEPT ![p].stage = "build"]
  /\ UNCHANGED <<ironbank, main, mr, edits, byHand>>

\* open-gitlab-mr.sh force-pushes today's branch and opens its merge request.
OpenMr(p, d) ==
  /\ Synced(p) /\ Drifted(p) /\ job[p].kind = "schedule"
  /\ p \in Token
  /\ mr' = [mr EXCEPT ![d] = [base |-> job[p].checkout, head |-> job[p].ws]]
  /\ job' = [job EXCEPT ![p].stage = "build"]
  /\ UNCHANGED <<ironbank, main, edits, byHand>>

\* It fails before the push or after it; either way the pipeline ends here.
OpenMrFails(p, d) ==
  /\ Synced(p) /\ Drifted(p) /\ job[p].kind = "schedule"
  /\ p \in Token
  /\ \/ mr' = mr
     \/ mr' = [mr EXCEPT ![d] = [base |-> job[p].checkout, head |-> job[p].ws]]
  /\ job' = [job EXCEPT ![p] = None]
  /\ UNCHANGED <<ironbank, main, edits, byHand>>

\* Without a token nothing is committed; the Jenkins stage then checks the
\* working tree out again.
SkipMr(p) ==
  /\ Synced(p) /\ Drifted(p) /\ job[p].kind = "schedule"
  /\ p \notin Token
  /\ job' = [job EXCEPT ![p].stage = "build",
                        ![p].ws = IF p \in Jenkins THEN job[p].checkout ELSE @]
  /\ UNCHANGED <<ironbank, main, mr, edits, byHand>>

\* build.sh builds what the workspace pins, or refuses; the pipeline's part
\* in this module ends there.
Build(p) ==
  /\ Building(p)
  /\ job' = [job EXCEPT ![p] = None]
  /\ UNCHANGED <<ironbank, main, mr, edits, byHand>>

SyncStep(p) ==
  \/ \E t \in Targets : SyncTarget(p, t)
  \/ SyncFails(p)
  \/ Report(p)
  \/ \E d \in Dates : OpenMr(p, d) \/ OpenMrFails(p, d)
  \/ SkipMr(p)

Next ==
  \/ \E t \in Targets : IronBankMoves(t) \/ IronBankPins(t)
  \/ \E h \in Hand, t \in Targets :
       \/ \E v \in Versions : PinVersion(h, t, v)
       \/ \E r \in ToolReleases : PinResources(h, t, r)
  \/ \E b \in Branches : Merge(b)
  \/ \E p \in Pipelines :
       \/ StartSchedule(p)
       \/ StartPush(p)
       \/ \E b \in Branches : StartMergeRequest(p, b)
       \/ SyncStep(p)
       \/ Build(p)

Spec == Init /\ [][Next]_vars

\* Schedules keep coming round, scripts and builds end, and somebody merges a
\* sync branch that keeps being mergeable now and then.
Fairness ==
  /\ \A p \in Pipelines : /\ SF_vars(StartSchedule(p))
                          /\ WF_vars(SyncStep(p))
                          /\ WF_vars(Build(p))
  /\ \A d \in Dates : SF_vars(Merge(d))
  /\ \A t \in Targets : WF_vars(IronBankPins(t))

FairSpec == Spec /\ Fairness

-----------------------------------------------------------------------------
(* Properties *)

Scheduled(p) == job[p].kind = "schedule"

\* A tag <version>-<suffix> never holds another release's tarball: whenever
\* the build stage is reached, through whatever syncs, whole pins by hand and
\* merges, a manifest the build accepts (its tarball is pinned) pins exactly the
\* release VERSION names.  (Pins that stop half-way are ManifestTools' subject.)
BuildsWhatItTags ==
  \A p \in Pipelines : Building(p) =>
    \A t \in Targets : LET m == job[p].ws[t] IN
      m.product.sha # 0 => m.product = Pin(m.version)

\* A scheduled rebuild is all or nothing: it only builds when every target's
\* manifest is the one this pipeline read from Iron Bank, never a mixture.
\* (A Jenkins without the token checks its changes out again.)
ScheduledBuildsFresh ==
  \A p \in GitLab \union Token : Building(p) /\ Scheduled(p) =>
    \A t \in Targets : job[p].ws[t].version = job[p].seen[t]

\* However late a sync's merge request is merged, it does not take a line
\* back to an older version: only a line someone pinned by hand can go back.
SyncNeverGoesBack ==
  [][\A t \in Targets \ byHand : main'[t].version >= main[t].version]_vars

\* The default branch pins, with its checksum, the version Iron Bank pins.
Converged(t) == /\ main[t].version = ironbank[t].version
                /\ main[t].product = Pin(ironbank[t].version)

PinnedAhead(t) == t \in byHand' /\ main'[t].version > main[t].version

StayConverged ==
  \A t \in Targets \ byHand :
    Converged(t) /\ ironbank'[t].version = ironbank[t].version
      => Converged(t)' \/ PinnedAhead(t)

\* Until Iron Bank moves again, a line that has caught up with it keeps version
\* and checksum, whichever old branches are merged: only somebody's pin of a
\* newer version takes it out of that state.
ConvergedStays == [][StayConverged]_vars

\* Once fetches and pushes stop failing, every line of the default branch
\* catches up with Iron Bank, and stays there.
SyncConverges ==
  (<>[][\A p \in Pipelines : ~SyncFails(p) /\ \A d \in Dates : ~OpenMrFails(p, d)]_vars)
    => <>[](\A t \in Targets : Converged(t))

\* On merge requests and pushes the sync only reports: what is built is what
\* was checked out.
ReportOnly ==
  \A p \in Pipelines : Building(p) /\ ~Scheduled(p) => job[p].ws = job[p].checkout

\* A version pinned by hand stays until Iron Bank has caught up with it: the
\* weekly rebuild of a line that is ahead does not build an older version.
PinHoldsUntilCaughtUp ==
  \A p \in Pipelines : Building(p) /\ Scheduled(p) =>
    \A t \in Targets : job[p].ws[t].version >= job[p].checkout[t].version
=============================================================================
