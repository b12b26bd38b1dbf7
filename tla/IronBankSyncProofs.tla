------------------------- MODULE IronBankSyncProofs -------------------------
(***************************************************************************)
(* What holds of IronBankSync for any targets, pipelines, branches, tokens *)
(* and bounds.  The inductive invariants build on each other:              *)
(* the types; what a manifest, a branch and a workspace may look like      *)
(* (Whole, Fresh); the order of versions on the way from Iron Bank to      *)
(* the default branch (Behind); and that what is merged has its checksum   *)
(* (EditsPinned, VisitedPinned).                                           *)
(***************************************************************************)
EXTENDS IronBankSync, TLAPS

USE DEF Pipelines, Branches, Versions, ToolReleases

\* Applying an upstream manifest gives a manifest that pins its release.
LEMMA ApplyPins ==
  ASSUME NEW m \in Manifest, NEW u \in Upstream, NEW r \in ToolReleases \union {0}
  PROVE  /\ Apply(m, u, r) \in Manifest
         /\ Apply(m, u, r).version = u.version
         /\ Apply(m, u, r).product = Pin(u.version)
<1> DEFINE new == [m EXCEPT !.version = u.version, !.product = Pin(u.version),
                            !.tool = IF r = 0 THEN @ ELSE Pin(r)]
<1>1. Pin(u.version) \in Resource(Versions)
  BY BoundsAssumption DEF Pin, Resource, Upstream
<1>2. (IF r = 0 THEN m.tool ELSE Pin(r)) \in Resource(ToolReleases)
  BY BoundsAssumption DEF Pin, Resource, Manifest
<1>3. new \in Manifest /\ new.version = u.version /\ new.product = Pin(u.version)
  BY <1>1, <1>2 DEF Manifest, Upstream
<1>4. Apply(m, u, r) = new \/ Apply(m, u, r) = [new EXCEPT !.annotated = FALSE]
  BY DEF Apply
<1> QED
  BY <1>3, <1>4 DEF Manifest

-----------------------------------------------------------------------------
(* Types *)

\* The seed manifests are well formed.
LEMMA InitTypeOK == Init => TypeOK
<1> SUFFICES ASSUME Init PROVE TypeOK
  OBVIOUS
<1>1. [t \in Targets |-> [version |-> 1, product |-> Unpinned(1),
                          tool |-> Unpinned(1), annotated |-> TRUE]] \in Checkout
  BY BoundsAssumption DEF Checkout, Manifest, Resource, Unpinned
<1> QED
  BY <1>1, BoundsAssumption DEF Init, TypeOK

\* A merge request that changes one manifest is well formed.
LEMMA ProposeTyped ==
  ASSUME TypeOK, NEW h \in Hand, NEW t \in Targets, NEW m \in Manifest, Propose(h, t, m)
  PROVE  /\ mr' \in [Branches -> MergeRequest \union {None}]
         /\ edits' \in 0..MaxEdits
<1>1. [base |-> main, head |-> [main EXCEPT ![t] = m]] \in MergeRequest
  BY DEF TypeOK, MergeRequest, Checkout
<1> QED
  BY <1>1, BoundsAssumption DEF TypeOK, Propose

\* What the two pinning scripts propose is a well-formed manifest.
LEMMA PinVersionTyped ==
  ASSUME NEW m \in Manifest, NEW v \in Versions
  PROVE  [m EXCEPT !.version = v, !.product = Pin(v), !.annotated = FALSE] \in Manifest
  BY BoundsAssumption DEF Manifest, Resource, Pin

\* And so is what pin-resource.sh leaves: both resources pinned.
LEMMA PinResourcesTyped ==
  ASSUME NEW m \in Manifest, NEW r \in ToolReleases
  PROVE  [m EXCEPT !.product = Pin(@.release), !.tool = Pin(r), !.annotated = FALSE]
           \in Manifest
  BY BoundsAssumption DEF Manifest, Resource, Pin

\* What a merge makes of three manifests is one.
LEMMA CombinedTyped ==
  ASSUME NEW base \in Manifest, NEW ours \in Manifest, NEW theirs \in Manifest
  PROVE  Combined(base, ours, theirs) \in Manifest
BY DEF Manifest, Combined, Taken

\* And of the default branch.
LEMMA MergeTyped ==
  ASSUME TypeOK, NEW b \in Branches, Merge(b)
  PROVE  /\ mr[b] # None /\ mr[b] \in MergeRequest
         /\ \A t \in Targets : /\ mr[b].base[t] \in Manifest
                               /\ mr[b].head[t] \in Manifest
                               /\ main[t] \in Manifest
                               /\ Clean(mr[b].base[t], main[t], mr[b].head[t])
                               /\ main'[t] = Combined(mr[b].base[t], main[t], mr[b].head[t])
         /\ main' \in Checkout
<1>1. mr[b] # None /\ mr[b] \in MergeRequest
  BY DEF TypeOK, Merge, Mergeable
<1>2. \A t \in Targets : /\ mr[b].base[t] \in Manifest
                         /\ mr[b].head[t] \in Manifest
                         /\ main[t] \in Manifest
  BY <1>1 DEF TypeOK, MergeRequest, Checkout
<1>3. main' = [t \in Targets |-> Combined(mr[b].base[t], main[t], mr[b].head[t])]
  BY DEF Merge
<1>4. \A t \in Targets : Combined(mr[b].base[t], main[t], mr[b].head[t]) \in Manifest
  BY <1>2, CombinedTyped
<1>5. \A t \in Targets : Clean(mr[b].base[t], main[t], mr[b].head[t])
  BY DEF Merge, Mergeable
<1> QED
  BY <1>1, <1>2, <1>3, <1>4, <1>5 DEF Checkout

\* A pipeline that starts on well-formed manifests is a well-formed job.
LEMMA StartTyped ==
  ASSUME TypeOK, NEW p \in Pipelines, NEW k \in Kinds, NEW c \in Checkout, Start(p, k, c)
  PROVE  job' \in [Pipelines -> Job \union {None}]
<1>1. [kind |-> k, stage |-> "sync", checkout |-> c, ws |-> c, todo |-> Targets,
       seen |-> [t \in Targets |-> 0]] \in Job
  BY DEF Job
<1> QED
  BY <1>1 DEF TypeOK, Start

\* One round of the sync loop, seen as the job it leaves behind.
LEMMA SyncTargetTyped ==
  ASSUME TypeOK, NEW p \in Pipelines, NEW t \in Targets, SyncTarget(p, t)
  PROVE  job' \in [Pipelines -> Job \union {None}]
<1>1. job[p] \in Job
  BY DEF TypeOK, SyncTarget, Syncing
<1>2. Apply(job[p].ws[t], ironbank[t], IronBankTool[t]) \in Manifest
  BY <1>1, ApplyPins, ToolAssumption DEF Job, Checkout, TypeOK
<1> DEFINE j == [job[p] EXCEPT !.ws[t] = Apply(@, ironbank[t], IronBankTool[t]),
                               !.seen[t] = ironbank[t].version,
                               !.todo = @ \ {t}]
<1>3. j \in Job
  BY <1>1, <1>2 DEF Job, Checkout, TypeOK, Upstream
<1>4. job' = [job EXCEPT ![p] = j]
  BY DEF SyncTarget
<1> QED
  BY <1>3, <1>4 DEF TypeOK

\* The type invariant is inductive.
LEMMA NextTypeOK == TypeOK /\ [Next]_vars => TypeOK'
<1> SUFFICES ASSUME TypeOK, [Next]_vars PROVE TypeOK'
  OBVIOUS
<1>1. ASSUME NEW t \in Targets, IronBankMoves(t) \/ IronBankPins(t) PROVE TypeOK'
  <2>1. ironbank[t] \in Upstream /\ ironbank[t].version \in Versions
    BY DEF TypeOK, Upstream
  <2>2. \A v \in Versions, ok \in BOOLEAN : [version |-> v, pinned |-> ok] \in Upstream
    BY DEF Upstream
  <2>3. ironbank[t].version < MaxVersion => ironbank[t].version + 1 \in Versions
    BY <2>1, BoundsAssumption
  <2>4. ironbank' \in [Targets -> Upstream]
    <3>1. CASE IronBankMoves(t)
      <4>1. PICK ok \in BOOLEAN :
              ironbank' = [ironbank EXCEPT ![t] = [version |-> ironbank[t].version + 1,
                                                   pinned |-> ok]]
        BY <3>1 DEF IronBankMoves
      <4> QED
        BY <3>1, <4>1, <2>2, <2>3 DEF TypeOK, IronBankMoves
    <3>2. CASE IronBankPins(t)
      BY <3>2, <2>1, <2>2 DEF TypeOK, IronBankPins
    <3> QED
      BY <1>1, <3>1, <3>2
  <2> QED
    BY <1>1, <2>4 DEF TypeOK, IronBankMoves, IronBankPins
<1>2. ASSUME NEW h \in Hand, NEW t \in Targets, NEW v \in Versions, PinVersion(h, t, v)
      PROVE  TypeOK'
  <2>1. main[t] \in Manifest
    BY DEF TypeOK, Checkout
  <2> QED
    BY <1>2, <2>1, PinVersionTyped, ProposeTyped DEF TypeOK, PinVersion
<1>3. ASSUME NEW h \in Hand, NEW t \in Targets, NEW r \in ToolReleases, PinResources(h, t, r)
      PROVE  TypeOK'
  <2>1. main[t] \in Manifest
    BY DEF TypeOK, Checkout
  <2> QED
    BY <1>3, <2>1, PinResourcesTyped, ProposeTyped DEF TypeOK, PinResources
<1>4. ASSUME NEW b \in Branches, Merge(b) PROVE TypeOK'
  <2>1. main' \in Checkout
    BY <1>4, MergeTyped
  <2>2. byHand' \in SUBSET Targets
    BY <1>4 DEF TypeOK, Merge
  <2> QED
    BY <1>4, <2>1, <2>2 DEF TypeOK, Merge
<1>5. ASSUME NEW p \in Pipelines, StartSchedule(p) \/ StartPush(p) PROVE TypeOK'
  <2>1. main \in Checkout
    BY DEF TypeOK
  <2>2. job' \in [Pipelines -> Job \union {None}]
    BY <1>5, <2>1, StartTyped DEF StartSchedule, StartPush, Kinds
  <2> QED
    BY <1>5, <2>2 DEF TypeOK, StartSchedule, StartPush, Start
<1>6. ASSUME NEW p \in Pipelines, NEW b \in Branches, StartMergeRequest(p, b) PROVE TypeOK'
  <2>1. mr[b].head \in Checkout
    BY <1>6 DEF TypeOK, StartMergeRequest, MergeRequest
  <2>2. job' \in [Pipelines -> Job \union {None}]
    BY <1>6, <2>1, StartTyped DEF StartMergeRequest, Kinds
  <2> QED
    BY <1>6, <2>2 DEF TypeOK, StartMergeRequest, Start
<1>7. ASSUME NEW p \in Pipelines, NEW t \in Targets, SyncTarget(p, t) PROVE TypeOK'
  BY <1>7, SyncTargetTyped DEF TypeOK, SyncTarget
<1>8. ASSUME NEW p \in Pipelines,
             SyncFails(p) \/ Report(p) \/ SkipMr(p) \/ Build(p)
      PROVE  TypeOK'
  <2>1. job[p] \in Job
    BY <1>8 DEF TypeOK, SyncFails, Report, SkipMr, Build, Synced, Syncing, Building
  <2> QED
    BY <1>8, <2>1 DEF TypeOK, SyncFails, Report, SkipMr, Build, Job
<1>9. ASSUME NEW p \in Pipelines, NEW d \in Dates, OpenMr(p, d) \/ OpenMrFails(p, d)
      PROVE  TypeOK'
  <2>1. job[p] \in Job
    BY <1>9 DEF TypeOK, OpenMr, OpenMrFails, Synced, Syncing
  <2>2. [base |-> job[p].checkout, head |-> job[p].ws] \in MergeRequest
    BY <2>1 DEF Job, MergeRequest
  <2> QED
    BY <1>9, <2>1, <2>2 DEF TypeOK, OpenMr, OpenMrFails, Job
<1>10. CASE UNCHANGED vars
  BY <1>10 DEF TypeOK, vars
<1> QED
  BY <1>1, <1>2, <1>3, <1>4, <1>5, <1>6, <1>7, <1>8, <1>9, <1>10 DEF Next, SyncStep

\* Every reachable state is well typed.
THEOREM Typing == Spec => []TypeOK
<1> QED
  BY InitTypeOK, NextTypeOK, PTL DEF Spec

-----------------------------------------------------------------------------
(* What a manifest and a workspace may look like *)

\* VERSION and the tarball agree, and a checksum is the tarball's own.
Whole(m) == /\ m.product.release = m.version
            /\ m.product.sha \in {0, m.version}

AllWhole(c) == \A t \in Targets : Whole(c[t])

ManifestsWhole ==
  /\ AllWhole(main)
  /\ \A b \in Branches : mr[b] # None => AllWhole(mr[b].base) /\ AllWhole(mr[b].head)
  /\ \A p \in Pipelines : job[p] # None => AllWhole(job[p].checkout) /\ AllWhole(job[p].ws)

\* What a scheduled sync has visited is what it read; a build needs all of it.
VisitedFresh ==
  \A p \in GitLab \union Token : job[p] # None /\ Scheduled(p) =>
    /\ \A t \in Targets \ job[p].todo : job[p].ws[t].version = job[p].seen[t]
    /\ job[p].stage = "build" => job[p].todo = {}

\* The seed manifests are whole.
LEMMA InitWhole == Init => ManifestsWhole /\ VisitedFresh
<1> SUFFICES ASSUME Init PROVE ManifestsWhole /\ VisitedFresh
  OBVIOUS
<1>1. ManifestsWhole
  BY DEF Init, ManifestsWhole, AllWhole, Whole, Unpinned
<1>2. VisitedFresh
  BY TokenAssumption DEF Init, VisitedFresh
<1> QED
  BY <1>1, <1>2

\* A proposed manifest that is whole leaves every branch whole.
LEMMA ProposeWhole ==
  ASSUME TypeOK, ManifestsWhole, NEW h \in Hand, NEW t \in Targets, NEW m \in Manifest,
         Whole(m), Propose(h, t, m)
  PROVE  \A b \in Branches : mr'[b] # None => AllWhole(mr'[b].base) /\ AllWhole(mr'[b].head)
<1>1. AllWhole(main) /\ AllWhole([main EXCEPT ![t] = m])
  BY DEF TypeOK, Checkout, ManifestsWhole, AllWhole
<1> QED
  BY <1>1 DEF TypeOK, Propose, ManifestsWhole

\* A clean merge of whole manifests is whole: VERSION and the tarball move together
\* on each side, so they come from one side, or from both and are of one release.
LEMMA CombinedWhole ==
  ASSUME NEW base \in Manifest, NEW ours \in Manifest, NEW theirs \in Manifest,
         Whole(base), Whole(ours), Whole(theirs), Clean(base, ours, theirs)
  PROVE  /\ Whole(Combined(base, ours, theirs))
         /\ theirs.version # base.version =>
              /\ ours.version \in {base.version, theirs.version}
              /\ Combined(base, ours, theirs).version = theirs.version
              /\ Combined(base, ours, theirs).product = theirs.product
         /\ theirs.version = base.version => Combined(base, ours, theirs).version = ours.version
         /\ theirs.product = base.product => Combined(base, ours, theirs).product = ours.product
         /\ theirs.product # base.product => Combined(base, ours, theirs).product = theirs.product
<1> DEFINE c == Combined(base, ours, theirs)
<1>1. /\ theirs.version # base.version => ours.version \in {base.version, theirs.version}
      /\ theirs.product # base.product => ours.product \in {base.product, theirs.product}
  <2>1. DOMAIN base = {"version", "product", "tool", "annotated"}
    BY DEF Manifest
  <2>2. /\ theirs["version"] # base["version"] =>
             ours["version"] \in {base["version"], theirs["version"]}
        /\ theirs["product"] # base["product"] =>
             ours["product"] \in {base["product"], theirs["product"]}
    BY <2>1 DEF Clean
  <2> QED
    BY <2>2
<1>2. /\ c.version = IF theirs.version = base.version THEN ours.version ELSE theirs.version
      /\ c.product = IF theirs.product = base.product THEN ours.product ELSE theirs.product
  BY DEF Combined, Taken
<1>3. /\ base.product.release = base.version
      /\ ours.product.release = ours.version /\ ours.product.sha \in {0, ours.version}
      /\ theirs.product.release = theirs.version /\ theirs.product.sha \in {0, theirs.version}
  BY DEF Whole
<1> HIDE DEF c
<1>4. CASE theirs.version # base.version
  <2>1. theirs.product # base.product
    BY <1>3, <1>4
  <2>2. c.version = theirs.version /\ c.product = theirs.product
    BY <1>2, <1>4, <2>1
  <2>3. Whole(c)
    BY <1>3, <2>2 DEF Whole
  <2> QED
    BY <1>1, <1>4, <2>1, <2>2, <2>3 DEF c
<1>5. CASE theirs.version = base.version /\ theirs.product = base.product
  <2>1. c.version = ours.version /\ c.product = ours.product
    BY <1>2, <1>5
  <2>2. Whole(c)
    BY <1>3, <2>1 DEF Whole
  <2> QED
    BY <1>5, <2>1, <2>2 DEF c
<1>6. CASE theirs.version = base.version /\ theirs.product # base.product
  <2>1. c.version = ours.version /\ c.product = theirs.product
    BY <1>2, <1>6
  <2>2. ours.version = theirs.version
    BY <1>1, <1>3, <1>6
  <2>3. Whole(c)
    BY <1>3, <2>1, <2>2 DEF Whole
  <2> QED
    BY <1>6, <2>1, <2>3 DEF c
<1> QED
  BY <1>4, <1>5, <1>6

\* The new workspace and checkpoint of one round of the sync loop.
LEMMA SyncTargetEffect ==
  ASSUME TypeOK, NEW p \in Pipelines, NEW t \in Targets, SyncTarget(p, t)
  PROVE  /\ job[p] \in Job
         /\ job'[p].kind = job[p].kind
         /\ job'[p].stage = "sync"
         /\ job'[p].checkout = job[p].checkout
         /\ job'[p].todo = job[p].todo \ {t}
         /\ job'[p].ws \in Checkout
         /\ job'[p].ws[t].version = ironbank[t].version
         /\ job'[p].ws[t].product = Pin(ironbank[t].version)
         /\ job'[p].seen[t] = ironbank[t].version
         /\ \A s \in Targets \ {t} : /\ job'[p].ws[s] = job[p].ws[s]
                                     /\ job'[p].seen[s] = job[p].seen[s]
         /\ \A q \in Pipelines \ {p} : job'[q] = job[q]
<1>1. job[p] \in Job
  BY DEF TypeOK, SyncTarget, Syncing
<1>2. /\ Apply(job[p].ws[t], ironbank[t], IronBankTool[t]) \in Manifest
      /\ Apply(job[p].ws[t], ironbank[t], IronBankTool[t]).version = ironbank[t].version
      /\ Apply(job[p].ws[t], ironbank[t], IronBankTool[t]).product
           = Pin(ironbank[t].version)
  BY <1>1, ApplyPins, ToolAssumption DEF Job, Checkout, TypeOK
<1> DEFINE j == [job[p] EXCEPT !.ws[t] = Apply(@, ironbank[t], IronBankTool[t]),
                               !.seen[t] = ironbank[t].version,
                               !.todo = @ \ {t}]
<1>3. job' = [job EXCEPT ![p] = j]
  BY DEF SyncTarget
<1>4. job'[p] = j /\ \A q \in Pipelines \ {p} : job'[q] = job[q]
  BY <1>3 DEF TypeOK
<1>5. /\ j.kind = job[p].kind /\ j.stage = job[p].stage /\ j.checkout = job[p].checkout
      /\ j.todo = job[p].todo \ {t}
      /\ j.ws = [job[p].ws EXCEPT ![t] = Apply(@, ironbank[t], IronBankTool[t])]
      /\ j.seen = [job[p].seen EXCEPT ![t] = ironbank[t].version]
  BY <1>1 DEF Job
<1>6. job[p].stage = "sync"
  BY DEF SyncTarget, Syncing
<1> HIDE DEF j
<1> QED
  BY <1>1, <1>2, <1>4, <1>5, <1>6 DEF Job, Checkout

\* Every manifest anywhere stays whole.
LEMMA NextWhole == TypeOK /\ ManifestsWhole /\ [Next]_vars => ManifestsWhole'
<1> SUFFICES ASSUME TypeOK, ManifestsWhole, [Next]_vars PROVE ManifestsWhole'
  OBVIOUS
<1>1. ASSUME NEW t \in Targets, IronBankMoves(t) \/ IronBankPins(t) PROVE ManifestsWhole'
  BY <1>1 DEF ManifestsWhole, IronBankMoves, IronBankPins, AllWhole, Whole
<1>2. ASSUME NEW h \in Hand, NEW t \in Targets, NEW v \in Versions, PinVersion(h, t, v)
      PROVE  ManifestsWhole'
  <2> DEFINE m == [main[t] EXCEPT !.version = v, !.product = Pin(v), !.annotated = FALSE]
  <2>1. m \in Manifest
    BY PinVersionTyped DEF TypeOK, Checkout
  <2>2. Whole(m)
    BY DEF TypeOK, Checkout, Manifest, Whole, Pin
  <2>3. Propose(h, t, m)
    BY <1>2 DEF PinVersion
  <2> QED
    BY <1>2, <2>1, <2>2, <2>3, ProposeWhole DEF ManifestsWhole, PinVersion, AllWhole
<1>3. ASSUME NEW h \in Hand, NEW t \in Targets, NEW r \in ToolReleases, PinResources(h, t, r)
      PROVE  ManifestsWhole'
  <2> DEFINE m == [main[t] EXCEPT !.product = Pin(@.release), !.tool = Pin(r),
                                  !.annotated = FALSE]
  <2>1. m \in Manifest
    BY PinResourcesTyped DEF TypeOK, Checkout
  <2>2. Whole(m)
    BY DEF TypeOK, Checkout, Manifest, Whole, Pin, ManifestsWhole, AllWhole
  <2>3. Propose(h, t, m)
    BY <1>3 DEF PinResources
  <2> QED
    BY <1>3, <2>1, <2>2, <2>3, ProposeWhole DEF ManifestsWhole, PinResources, AllWhole
<1>4. ASSUME NEW b \in Branches, Merge(b) PROVE ManifestsWhole'
  <2>1. AllWhole(main) /\ AllWhole(mr[b].base) /\ AllWhole(mr[b].head)
    BY <1>4, MergeTyped DEF ManifestsWhole
  <2>2. AllWhole(main')
    <3> SUFFICES ASSUME NEW t \in Targets PROVE Whole(main'[t])
      BY DEF AllWhole
    <3>1. Whole(mr[b].base[t]) /\ Whole(main[t]) /\ Whole(mr[b].head[t])
      BY <2>1 DEF AllWhole
    <3>2. /\ mr[b].base[t] \in Manifest /\ main[t] \in Manifest /\ mr[b].head[t] \in Manifest
          /\ Clean(mr[b].base[t], main[t], mr[b].head[t])
          /\ main'[t] = Combined(mr[b].base[t], main[t], mr[b].head[t])
      BY <1>4, MergeTyped
    <3> QED
      BY <3>1, <3>2, CombinedWhole
  <2> QED
    BY <1>4, <2>2 DEF TypeOK, ManifestsWhole, Merge, AllWhole
<1>5. ASSUME NEW p \in Pipelines, StartSchedule(p) \/ StartPush(p) PROVE ManifestsWhole'
  BY <1>5 DEF TypeOK, ManifestsWhole, StartSchedule, StartPush, Start, AllWhole
<1>6. ASSUME NEW p \in Pipelines, NEW b \in Branches, StartMergeRequest(p, b)
      PROVE  ManifestsWhole'
  BY <1>6 DEF TypeOK, ManifestsWhole, StartMergeRequest, Start, AllWhole
<1>7. ASSUME NEW p \in Pipelines, NEW t \in Targets, SyncTarget(p, t) PROVE ManifestsWhole'
  <2> DEFINE v == ironbank[t].version
  <2>1. job'[p].ws[t].version = v /\ job'[p].ws[t].product = Pin(v)
    BY <1>7, SyncTargetEffect
  <2>2. Pin(v).release = v /\ Pin(v).sha = v
    BY DEF Pin
  <2>3. Whole(job'[p].ws[t])
    BY <2>1, <2>2 DEF Whole
  <2>4. AllWhole(job[p].ws) /\ AllWhole(job[p].checkout)
    BY <1>7 DEF SyncTarget, Syncing, ManifestsWhole
  <2>5. /\ job'[p].checkout = job[p].checkout
        /\ \A s \in Targets \ {t} : job'[p].ws[s] = job[p].ws[s]
        /\ \A q \in Pipelines \ {p} : job'[q] = job[q]
    BY <1>7, SyncTargetEffect
  <2>6. AllWhole(job'[p].ws) /\ AllWhole(job'[p].checkout)
    BY <2>3, <2>4, <2>5 DEF AllWhole
  <2>7. UNCHANGED <<main, mr>>
    BY <1>7 DEF SyncTarget
  <2> QED
    BY <2>5, <2>6, <2>7 DEF ManifestsWhole, AllWhole
<1>8. ASSUME NEW p \in Pipelines,
             SyncFails(p) \/ Report(p) \/ SkipMr(p) \/ Build(p)
      PROVE  ManifestsWhole'
  <2>1. job[p] \in Job /\ job[p] # None
    BY <1>8 DEF TypeOK, SyncFails, Report, SkipMr, Build, Synced, Syncing, Building
  <2> QED
    BY <1>8, <2>1
    DEF TypeOK, ManifestsWhole, SyncFails, Report, SkipMr, Build, Job, AllWhole
<1>9. ASSUME NEW p \in Pipelines, NEW d \in Dates, OpenMr(p, d) \/ OpenMrFails(p, d)
      PROVE  ManifestsWhole'
  <2>1. job[p] \in Job /\ job[p] # None
    BY <1>9 DEF TypeOK, OpenMr, OpenMrFails, Synced, Syncing
  <2> QED
    BY <1>9, <2>1 DEF TypeOK, ManifestsWhole, OpenMr, OpenMrFails, Job, AllWhole
<1>10. CASE UNCHANGED vars
  BY <1>10 DEF ManifestsWhole, AllWhole, vars
<1> QED
  BY <1>1, <1>2, <1>3, <1>4, <1>5, <1>6, <1>7, <1>8, <1>9, <1>10 DEF Next, SyncStep

\* A scheduled sync's workspace stays what it read.
LEMMA NextFresh == TypeOK /\ VisitedFresh /\ [Next]_vars => VisitedFresh'
<1> SUFFICES ASSUME TypeOK, VisitedFresh, [Next]_vars PROVE VisitedFresh'
  OBVIOUS
<1> USE TokenAssumption
<1>1. ASSUME UNCHANGED job PROVE VisitedFresh'
  BY <1>1 DEF VisitedFresh, Scheduled
<1>2. ASSUME NEW p \in Pipelines, NEW k \in Kinds, NEW c \in Checkout, Start(p, k, c)
      PROVE  VisitedFresh'
  BY <1>2 DEF TypeOK, VisitedFresh, Scheduled, Start
<1>3. ASSUME NEW p \in Pipelines, StartSchedule(p) \/ StartPush(p) PROVE VisitedFresh'
  BY <1>2, <1>3 DEF StartSchedule, StartPush, Kinds, TypeOK
<1>4. ASSUME NEW p \in Pipelines, NEW b \in Branches, StartMergeRequest(p, b)
      PROVE  VisitedFresh'
  BY <1>2, <1>4 DEF StartMergeRequest, Kinds, TypeOK, MergeRequest
<1>5. ASSUME NEW p \in Pipelines, NEW t \in Targets, SyncTarget(p, t) PROVE VisitedFresh'
  <2>1. job[p] # None
    BY <1>5 DEF SyncTarget, Syncing
  <2> QED
    BY <1>5, <2>1, SyncTargetEffect DEF VisitedFresh, Scheduled
<1>6. ASSUME NEW p \in Pipelines, SyncFails(p) \/ Build(p) PROVE VisitedFresh'
  <2>1. job[p] \in Job /\ job[p] # None
    BY <1>6 DEF TypeOK, SyncFails, Build, Syncing, Building
  <2> QED
    BY <1>6, <2>1 DEF TypeOK, VisitedFresh, Scheduled, SyncFails, Build, Job
<1>7. ASSUME NEW p \in Pipelines, Report(p) \/ \E d \in Dates : OpenMr(p, d) PROVE VisitedFresh'
  <2>1. job[p] \in Job /\ job[p] # None /\ job[p].todo = {}
    BY <1>7 DEF TypeOK, Report, OpenMr, Synced, Syncing
  <2> QED
    BY <1>7, <2>1 DEF TypeOK, VisitedFresh, Scheduled, Report, OpenMr, Job
<1>8. ASSUME NEW p \in Pipelines, SkipMr(p) PROVE VisitedFresh'
  <2>1. job[p] \in Job /\ job[p] # None /\ job[p].todo = {} /\ p \notin Token
    BY <1>8 DEF TypeOK, SkipMr, Synced, Syncing
  <2>2. p \in GitLab => p \notin Jenkins
    BY PipelineAssumption
  <2> QED
    BY <1>8, <2>1, <2>2 DEF TypeOK, VisitedFresh, Scheduled, SkipMr, Job
<1>9. ASSUME NEW p \in Pipelines, NEW d \in Dates, OpenMrFails(p, d) PROVE VisitedFresh'
  BY <1>9 DEF TypeOK, VisitedFresh, Scheduled, OpenMrFails
<1> QED
  BY <1>1, <1>3, <1>4, <1>5, <1>6, <1>7, <1>8, <1>9
  DEF Next, SyncStep, vars, IronBankMoves, IronBankPins, PinVersion, PinResources, Merge

\* A tag never holds another release's tarball, whatever path through sync,
\* hand-made pins and merges led to the build.
THEOREM AlwaysBuildsWhatItTags == Spec => []BuildsWhatItTags
<1>1. Init => TypeOK /\ ManifestsWhole
  BY InitTypeOK, InitWhole
<1>2. TypeOK /\ ManifestsWhole /\ [Next]_vars => (TypeOK /\ ManifestsWhole)'
  BY NextTypeOK, NextWhole
<1>3. TypeOK /\ ManifestsWhole => BuildsWhatItTags
  <2> SUFFICES ASSUME TypeOK, ManifestsWhole, NEW p \in Pipelines, Building(p),
                      NEW t \in Targets, job[p].ws[t].product.sha # 0
               PROVE  job[p].ws[t].product = Pin(job[p].ws[t].version)
    BY DEF BuildsWhatItTags
  <2>1. job[p].ws[t] \in Manifest /\ Whole(job[p].ws[t])
    BY DEF TypeOK, ManifestsWhole, Building, AllWhole, Job, Checkout
  <2> QED
    BY <2>1 DEF Manifest, Resource, Whole, Pin
<1> QED
  BY <1>1, <1>2, <1>3, PTL DEF Spec

\* A scheduled rebuild that builds at all builds every line at the release it
\* read from Iron Bank.
THEOREM ScheduledBuildsAlwaysFresh == Spec => []ScheduledBuildsFresh
<1>1. Init => TypeOK /\ VisitedFresh
  BY InitTypeOK, InitWhole
<1>2. TypeOK /\ VisitedFresh /\ [Next]_vars => (TypeOK /\ VisitedFresh)'
  BY NextTypeOK, NextFresh
<1>3. VisitedFresh => ScheduledBuildsFresh
  BY DEF VisitedFresh, ScheduledBuildsFresh, Building
<1> QED
  BY <1>1, <1>2, <1>3, PTL DEF Spec

-----------------------------------------------------------------------------
(* The order of versions between Iron Bank and the default branch *)

\* A line nobody has pinned by hand is at most as new as Iron Bank's.
MainBehind ==
  \A t \in Targets \ byHand : main[t].version <= ironbank[t].version

\* A person's branch never lowers a version; a sync branch, of a line nobody
\* has pinned by hand, ends between its base and Iron Bank.
BranchesBehind ==
  /\ \A b \in Branches \ Dates : mr[b] # None =>
       \A t \in Targets : mr[b].base[t].version <= mr[b].head[t].version
  /\ \A b \in Dates : mr[b] # None =>
       \A t \in Targets \ byHand :
         /\ mr[b].base[t].version <= mr[b].head[t].version
         /\ mr[b].head[t].version <= ironbank[t].version

\* The same of the workspace of a scheduled sync and what it started from.
WorkspacesBehind ==
  \A p \in Pipelines : job[p] # None /\ Scheduled(p) =>
    \A t \in Targets \ byHand :
      /\ job[p].checkout[t].version <= job[p].ws[t].version
      /\ job[p].ws[t].version <= ironbank[t].version

Behind == MainBehind /\ BranchesBehind /\ WorkspacesBehind

\* Versions are numbers, wherever a manifest is.
LEMMA VersionsAreNumbers ==
  ASSUME TypeOK
  PROVE  /\ \A t \in Targets : ironbank[t].version \in Int /\ main[t].version \in Int
         /\ \A b \in Branches : mr[b] # None => \A t \in Targets :
              mr[b].base[t].version \in Int /\ mr[b].head[t].version \in Int
         /\ \A p \in Pipelines : job[p] # None => \A t \in Targets :
              job[p].checkout[t].version \in Int /\ job[p].ws[t].version \in Int
<1>1. \A c \in Checkout, t \in Targets : c[t].version \in Int
  BY BoundsAssumption DEF Checkout, Manifest
<1>2. \A u \in Upstream : u.version \in Int
  BY BoundsAssumption DEF Upstream
<1>3. \A b \in Branches : mr[b] # None => mr[b].base \in Checkout /\ mr[b].head \in Checkout
  BY DEF TypeOK, MergeRequest
<1>4. \A p \in Pipelines : job[p] # None => job[p].checkout \in Checkout /\ job[p].ws \in Checkout
  BY DEF TypeOK, Job
<1> QED
  BY <1>1, <1>2, <1>3, <1>4 DEF TypeOK

\* Everything starts at release 1.
LEMMA InitBehind == Init => Behind
<1> SUFFICES ASSUME Init PROVE Behind
  OBVIOUS
<1>1. \A t \in Targets : ironbank[t].version = 1
  BY DEF Init
<1>2. \A t \in Targets : main[t].version = 1
  BY DEF Init
<1>3. MainBehind
  <2> SUFFICES ASSUME NEW t \in Targets PROVE main[t].version <= ironbank[t].version
    BY DEF MainBehind
  <2>1. main[t].version = 1 /\ ironbank[t].version = 1
    BY <1>1, <1>2
  <2> QED
    BY <2>1
<1>4. BranchesBehind
  BY DEF Init, BranchesBehind
<1>5. WorkspacesBehind
  BY DEF Init, WorkspacesBehind
<1> QED
  BY <1>3, <1>4, <1>5 DEF Behind

\* Opening a merge request that does not lower a version.
LEMMA ProposeBehind ==
  ASSUME TypeOK, BranchesBehind, NEW h \in Hand, NEW t \in Targets, NEW m \in Manifest,
         m.version >= main[t].version, Propose(h, t, m), UNCHANGED <<ironbank, byHand>>
  PROVE  BranchesBehind'
<1>1. h \notin Dates
  BY BranchAssumption
<1>2. mr' = [mr EXCEPT ![h] = [base |-> main, head |-> [main EXCEPT ![t] = m]]]
  BY DEF Propose
<1>3. \A s \in Targets : main[s].version <= [main EXCEPT ![t] = m][s].version
  BY VersionsAreNumbers, BoundsAssumption DEF TypeOK, Checkout, Manifest
<1>4. \A b \in Branches \ {h} : mr'[b] = mr[b]
  BY <1>2 DEF TypeOK
<1>5. \A s \in Targets : mr'[h].base[s].version <= mr'[h].head[s].version
  BY <1>2, <1>3 DEF TypeOK
<1> QED
  BY <1>1, <1>4, <1>5 DEF BranchesBehind

\* A pipeline that starts: the workspace is the checkout.
LEMMA StartBehind ==
  ASSUME TypeOK, MainBehind, WorkspacesBehind, NEW p \in Pipelines, NEW k \in Kinds,
         NEW c \in Checkout, k = "schedule" => c = main, Start(p, k, c)
  PROVE  WorkspacesBehind'
<1>1. /\ job'[p].kind = k /\ job'[p].checkout = c /\ job'[p].ws = c
      /\ \A q \in Pipelines \ {p} : job'[q] = job[q]
  BY DEF TypeOK, Start
<1>2. UNCHANGED <<ironbank, byHand>>
  BY DEF Start
<1>3. \A t \in Targets : c[t].version <= c[t].version
  BY BoundsAssumption DEF Checkout, Manifest
<1>4. k = "schedule" => \A t \in Targets \ byHand : c[t].version <= ironbank[t].version
  BY DEF MainBehind
<1> QED
  BY <1>1, <1>2, <1>3, <1>4 DEF WorkspacesBehind, Scheduled

\* A branch that gets a scheduled sync's checkout and workspace.
LEMMA SyncBranchBehind ==
  ASSUME TypeOK, BranchesBehind, WorkspacesBehind, NEW p \in Pipelines, NEW d \in Dates,
         job[p] # None, Scheduled(p), UNCHANGED <<ironbank, byHand>>,
         mr' = mr \/ mr' = [mr EXCEPT ![d] = [base |-> job[p].checkout, head |-> job[p].ws]]
  PROVE  BranchesBehind'
<1>1. CASE mr' = mr
  BY <1>1 DEF BranchesBehind
<1>2. CASE mr' = [mr EXCEPT ![d] = [base |-> job[p].checkout, head |-> job[p].ws]]
  <2>1. mr'[d].base = job[p].checkout /\ mr'[d].head = job[p].ws
    BY <1>2 DEF TypeOK
  <2>2. \A b \in Branches \ {d} : mr'[b] = mr[b]
    BY <1>2 DEF TypeOK
  <2>3. \A t \in Targets \ byHand :
          /\ mr'[d].base[t].version <= mr'[d].head[t].version
          /\ mr'[d].head[t].version <= ironbank[t].version
    BY <2>1 DEF WorkspacesBehind
  <2> QED
    BY <2>2, <2>3 DEF BranchesBehind
<1> QED
  BY <1>1, <1>2

\* A job that disappears or only moves to another stage.
LEMMA JobBehind ==
  ASSUME TypeOK, WorkspacesBehind, NEW p \in Pipelines, job[p] # None,
         UNCHANGED <<ironbank, byHand>>,
         \/ job' = [job EXCEPT ![p] = None]
         \/ job' = [job EXCEPT ![p].stage = "build"]
  PROVE  WorkspacesBehind'
<1>1. job[p] \in Job
  BY DEF TypeOK
<1> QED
  BY <1>1 DEF TypeOK, WorkspacesBehind, Scheduled, Job

\* What a merge does to a line: it keeps the default branch's version, or takes
\* the one the branch has edited.
LEMMA MergedVersion ==
  ASSUME TypeOK, NEW b \in Branches, Merge(b), NEW t \in Targets
  PROVE  \/ main'[t].version = main[t].version
         \/ /\ main'[t].version = mr[b].head[t].version
            /\ main[t].version = mr[b].base[t].version
<1>1. /\ mr[b].base[t] \in Manifest
      /\ Clean(mr[b].base[t], main[t], mr[b].head[t])
      /\ main'[t] = Combined(mr[b].base[t], main[t], mr[b].head[t])
  BY MergeTyped
<1>2. "version" \in DOMAIN mr[b].base[t]
  BY <1>1 DEF Manifest
<1>3. mr[b].head[t]["version"] # mr[b].base[t]["version"] =>
        main[t]["version"] \in {mr[b].base[t]["version"], mr[b].head[t]["version"]}
  BY <1>1, <1>2 DEF Clean
<1>4. main'[t].version = IF mr[b].head[t].version = mr[b].base[t].version
                         THEN main[t].version ELSE mr[b].head[t].version
  BY <1>1 DEF Combined, Taken
<1> QED
  BY <1>3, <1>4

\* A merge does not take back a line that nobody has pinned by hand.
LEMMA MergeGoesForward ==
  ASSUME TypeOK, Behind, NEW b \in Branches, Merge(b), NEW t \in Targets, t \notin byHand
  PROVE  main'[t].version >= main[t].version
<1>1. mr[b] # None
  BY DEF Merge, Mergeable
<1>2. mr[b].base[t].version <= mr[b].head[t].version
  BY <1>1 DEF Behind, BranchesBehind
<1>3. main[t].version \in Int /\ mr[b].base[t].version \in Int /\ mr[b].head[t].version \in Int
  BY <1>1, VersionsAreNumbers
<1> QED
  BY <1>2, <1>3, MergedVersion

\* The order is preserved by every step.
LEMMA NextBehind == TypeOK /\ Behind /\ [Next]_vars => Behind'
<1> SUFFICES ASSUME TypeOK, Behind, [Next]_vars PROVE Behind'
  OBVIOUS
<1> USE DEF Behind
<1>1. ASSUME NEW t \in Targets, IronBankMoves(t) \/ IronBankPins(t) PROVE Behind'
  <2>1. \A s \in Targets : ironbank'[s].version >= ironbank[s].version /\ ironbank'[s].version \in Int
    BY <1>1, VersionsAreNumbers DEF TypeOK, IronBankMoves, IronBankPins
  <2>2. UNCHANGED <<main, mr, job, byHand>>
    BY <1>1 DEF IronBankMoves, IronBankPins
  <2>3. MainBehind'
    BY <2>1, <2>2, VersionsAreNumbers DEF MainBehind
  <2>4. BranchesBehind'
    <3>1. \A d \in Dates : mr[d] # None => \A s \in Targets \ byHand :
            mr[d].head[s].version <= ironbank'[s].version
      BY <2>1, VersionsAreNumbers DEF BranchesBehind
    <3> QED
      BY <2>2, <3>1 DEF BranchesBehind
  <2>5. WorkspacesBehind'
    <3>1. \A p \in Pipelines : job[p] # None /\ Scheduled(p) =>
            \A s \in Targets \ byHand : job[p].ws[s].version <= ironbank'[s].version
      BY <2>1, VersionsAreNumbers DEF WorkspacesBehind
    <3> QED
      BY <2>2, <3>1 DEF WorkspacesBehind, Scheduled
  <2> QED
    BY <2>3, <2>4, <2>5
<1>2. ASSUME NEW h \in Hand, NEW t \in Targets, NEW v \in Versions, PinVersion(h, t, v)
      PROVE  Behind'
  <2> DEFINE m == [main[t] EXCEPT !.version = v, !.product = Pin(v), !.annotated = FALSE]
  <2>1. m \in Manifest /\ m.version = v
    BY PinVersionTyped DEF TypeOK, Checkout, Manifest
  <2>2. Propose(h, t, m) /\ v >= main[t].version /\ UNCHANGED <<ironbank, main, job, byHand>>
    BY <1>2 DEF PinVersion
  <2>3. BranchesBehind'
    BY <2>1, <2>2, ProposeBehind
  <2> QED
    BY <2>2, <2>3 DEF MainBehind, WorkspacesBehind, Scheduled
<1>3. ASSUME NEW h \in Hand, NEW t \in Targets, NEW r \in ToolReleases, PinResources(h, t, r)
      PROVE  Behind'
  <2> DEFINE m == [main[t] EXCEPT !.product = Pin(@.release), !.tool = Pin(r),
                                  !.annotated = FALSE]
  <2>1. m \in Manifest /\ m.version = main[t].version
    BY PinResourcesTyped DEF TypeOK, Checkout, Manifest
  <2>2. Propose(h, t, m) /\ UNCHANGED <<ironbank, main, job, byHand>>
    BY <1>3 DEF PinResources
  <2>3. m.version >= main[t].version
    BY <2>1, VersionsAreNumbers
  <2>4. BranchesBehind'
    BY <2>1, <2>2, <2>3, ProposeBehind
  <2> QED
    BY <2>2, <2>4 DEF MainBehind, WorkspacesBehind, Scheduled
<1>4. ASSUME NEW b \in Branches, Merge(b) PROVE Behind'
  <2>1. UNCHANGED <<ironbank, job>> /\ byHand \subseteq byHand'
    BY <1>4 DEF Merge
  <2>2. mr[b] # None /\ mr' = [mr EXCEPT ![b] = None]
    BY <1>4 DEF Merge, Mergeable
  <2>3. MainBehind'
    <3> SUFFICES ASSUME NEW t \in Targets, t \notin byHand'
                 PROVE  main'[t].version <= ironbank[t].version
      BY <2>1 DEF MainBehind
    <3>1. main[t].version <= ironbank[t].version
      BY <2>1 DEF MainBehind
    <3>2. CASE b \in Hand
      <4>1. main'[t].version = main[t].version
        BY <1>4, <3>2 DEF Merge
      <4> QED
        BY <3>1, <4>1
    <3>3. CASE b \in Dates
      <4>1. mr[b].head[t].version <= ironbank[t].version
        BY <2>1, <2>2, <3>3 DEF BranchesBehind
      <4> QED
        BY <1>4, <3>1, <4>1, MergedVersion
    <3> QED
      BY <3>2, <3>3
  <2>4. \A c \in Branches : mr'[c] # None => mr'[c] = mr[c]
    BY <2>2 DEF TypeOK
  <2>5. BranchesBehind'
    BY <2>1, <2>4 DEF BranchesBehind
  <2>6. WorkspacesBehind'
    BY <2>1 DEF WorkspacesBehind, Scheduled
  <2> QED
    BY <2>3, <2>5, <2>6
<1>5. ASSUME NEW p \in Pipelines, NEW k \in Kinds, NEW c \in Checkout,
             k = "schedule" => c = main, Start(p, k, c)
      PROVE  Behind'
  <2>1. WorkspacesBehind'
    BY <1>5, StartBehind
  <2> QED
    BY <1>5, <2>1 DEF Start, MainBehind, BranchesBehind
<1>6. ASSUME NEW p \in Pipelines, StartSchedule(p) \/ StartPush(p) PROVE Behind'
  BY <1>5, <1>6 DEF StartSchedule, StartPush, Kinds, TypeOK
<1>7. ASSUME NEW p \in Pipelines, NEW b \in Branches, StartMergeRequest(p, b) PROVE Behind'
  BY <1>5, <1>7 DEF StartMergeRequest, Kinds, TypeOK, MergeRequest
<1>8. ASSUME NEW p \in Pipelines, NEW t \in Targets, SyncTarget(p, t) PROVE Behind'
  <2>1. UNCHANGED <<ironbank, main, mr, byHand>> /\ job[p] # None
    BY <1>8 DEF SyncTarget, Syncing
  <2>2. /\ job'[p].kind = job[p].kind /\ job'[p].checkout = job[p].checkout
        /\ job'[p].ws[t].version = ironbank[t].version
        /\ \A s \in Targets \ {t} : job'[p].ws[s] = job[p].ws[s]
        /\ \A q \in Pipelines \ {p} : job'[q] = job[q]
    BY <1>8, SyncTargetEffect
  <2>3. Scheduled(p) /\ t \notin byHand => job[p].checkout[t].version <= ironbank[t].version
    BY <2>1, VersionsAreNumbers DEF WorkspacesBehind
  <2>4. Scheduled(p) => \A s \in Targets \ byHand :
          /\ job'[p].checkout[s].version <= job'[p].ws[s].version
          /\ job'[p].ws[s].version <= ironbank[s].version
    BY <2>1, <2>2, <2>3, VersionsAreNumbers DEF WorkspacesBehind
  <2>5. WorkspacesBehind'
    BY <2>1, <2>2, <2>4 DEF WorkspacesBehind, Scheduled
  <2> QED
    BY <2>1, <2>5 DEF MainBehind, BranchesBehind
<1>9. ASSUME NEW p \in Pipelines, SyncFails(p) \/ Report(p) \/ Build(p) PROVE Behind'
  <2>1. job[p] # None /\ UNCHANGED <<ironbank, main, mr, byHand>>
    BY <1>9 DEF SyncFails, Report, Build, Synced, Syncing, Building
  <2>2. job' = [job EXCEPT ![p] = None] \/ job' = [job EXCEPT ![p].stage = "build"]
    BY <1>9 DEF SyncFails, Report, Build
  <2>3. WorkspacesBehind'
    BY <2>1, <2>2, JobBehind
  <2> QED
    BY <2>1, <2>3 DEF MainBehind, BranchesBehind
<1>10. ASSUME NEW p \in Pipelines, NEW d \in Dates, OpenMr(p, d) \/ OpenMrFails(p, d)
       PROVE  Behind'
  <2>1. job[p] # None /\ Scheduled(p) /\ UNCHANGED <<ironbank, main, byHand>>
    BY <1>10 DEF OpenMr, OpenMrFails, Synced, Syncing, Scheduled
  <2>2. job' = [job EXCEPT ![p] = None] \/ job' = [job EXCEPT ![p].stage = "build"]
    BY <1>10 DEF OpenMr, OpenMrFails
  <2>3. mr' = mr \/ mr' = [mr EXCEPT ![d] = [base |-> job[p].checkout, head |-> job[p].ws]]
    BY <1>10 DEF OpenMr, OpenMrFails
  <2>4. BranchesBehind'
    BY <2>1, <2>3, SyncBranchBehind
  <2>5. WorkspacesBehind'
    BY <2>1, <2>2, JobBehind
  <2> QED
    BY <2>1, <2>4, <2>5 DEF MainBehind
<1>11. ASSUME NEW p \in Pipelines, SkipMr(p) PROVE Behind'
  <2>1. job[p] \in Job /\ job[p] # None /\ UNCHANGED <<ironbank, main, mr, byHand>>
    BY <1>11 DEF TypeOK, SkipMr, Synced, Syncing
  <2>2. /\ job'[p].kind = job[p].kind /\ job'[p].checkout = job[p].checkout
        /\ job'[p].ws \in {job[p].ws, job[p].checkout}
        /\ \A q \in Pipelines \ {p} : job'[q] = job[q]
    BY <1>11, <2>1 DEF TypeOK, SkipMr, Job
  <2>3. Scheduled(p) => \A s \in Targets \ byHand :
          /\ job'[p].checkout[s].version <= job'[p].ws[s].version
          /\ job'[p].ws[s].version <= ironbank[s].version
    BY <2>1, <2>2, VersionsAreNumbers DEF WorkspacesBehind
  <2>4. WorkspacesBehind'
    BY <2>1, <2>2, <2>3 DEF WorkspacesBehind, Scheduled
  <2> QED
    BY <2>1, <2>4 DEF MainBehind, BranchesBehind
<1>12. CASE UNCHANGED vars
  BY <1>12 DEF vars, MainBehind, BranchesBehind, WorkspacesBehind, Scheduled
<1> QED
  BY <1>1, <1>2, <1>3, <1>4, <1>6, <1>7, <1>8, <1>9, <1>10, <1>11, <1>12 DEF Next, SyncStep

\* No sync, however stale when it is merged, takes a line back to an older
\* version, unless somebody has pinned that line by hand.
THEOREM SyncGoesForward == Spec => SyncNeverGoesBack
<1> DEFINE Forward == \A t \in Targets \ byHand : main'[t].version >= main[t].version
<1>1. Init => TypeOK /\ Behind
  BY InitTypeOK, InitBehind
<1>2. TypeOK /\ Behind /\ [Next]_vars => (TypeOK /\ Behind)'
  BY NextTypeOK, NextBehind
<1>3. TypeOK /\ Behind /\ [Next]_vars => [Forward]_vars
  <2> SUFFICES ASSUME TypeOK, Behind, [Next]_vars PROVE Forward \/ UNCHANGED vars
    OBVIOUS
  <2>1. ASSUME UNCHANGED main PROVE Forward
    BY <2>1, VersionsAreNumbers
  <2>2. ASSUME NEW b \in Branches, Merge(b) PROVE Forward
    BY <2>2, MergeGoesForward
  <2> QED
    BY <2>1, <2>2
    DEF Next, SyncStep, IronBankMoves, IronBankPins, PinVersion, PinResources, StartSchedule,
        StartPush, StartMergeRequest, Start, SyncTarget, SyncFails, Report, OpenMr,
        OpenMrFails, SkipMr, Build
<1> QED
  BY <1>1, <1>2, <1>3, PTL DEF Spec, SyncNeverGoesBack

\* ironbank.py adopts any version that differs, but only a line somebody has pinned
\* by hand can meet an older one: a scheduled rebuild builds no other line at less
\* than the version it has checked out.
THEOREM OnlyPinsAreUndone ==
  Spec => [](\A p \in Pipelines : Building(p) /\ Scheduled(p) =>
               \A t \in Targets \ byHand :
                 job[p].checkout[t].version <= job[p].ws[t].version)
<1>1. Init => TypeOK /\ Behind
  BY InitTypeOK, InitBehind
<1>2. TypeOK /\ Behind /\ [Next]_vars => (TypeOK /\ Behind)'
  BY NextTypeOK, NextBehind
<1>3. Behind => \A p \in Pipelines : Building(p) /\ Scheduled(p) =>
                  \A t \in Targets \ byHand :
                    job[p].checkout[t].version <= job[p].ws[t].version
  BY DEF Behind, WorkspacesBehind, Building
<1> QED
  BY <1>1, <1>2, <1>3, PTL DEF Spec

-----------------------------------------------------------------------------
(* A line that has caught up with Iron Bank stays there *)

Pinned(m) == m.product.sha # 0

\* A branch pins what it edits, and a sync pins every target it has visited.
EditsPinned ==
  \A b \in Branches : mr[b] # None =>
    \A t \in Targets : mr[b].head[t] # mr[b].base[t] => Pinned(mr[b].head[t])
VisitedPinned ==
  \A p \in Pipelines : Syncing(p) =>
    \A t \in Targets \ job[p].todo : Pinned(job[p].ws[t])

\* There are no branches and no pipelines at first.
LEMMA InitPinned == Init => EditsPinned /\ VisitedPinned
BY DEF Init, EditsPinned, VisitedPinned, Syncing

\* A proposed manifest that is pinned leaves every branch pinning its edits.
LEMMA ProposePinned ==
  ASSUME TypeOK, EditsPinned, NEW h \in Hand, NEW t \in Targets, NEW m \in Manifest,
         Pinned(m), Propose(h, t, m)
  PROVE  EditsPinned'
<1>1. mr' = [mr EXCEPT ![h] = [base |-> main, head |-> [main EXCEPT ![t] = m]]]
  BY DEF Propose
<1>2. \A b \in Branches \ {h} : mr'[b] = mr[b]
  BY <1>1 DEF TypeOK
<1>3. mr'[h].base = main /\ mr'[h].head = [main EXCEPT ![t] = m]
  BY <1>1 DEF TypeOK
<1>4. \A s \in Targets : mr'[h].head[s] # mr'[h].base[s] => Pinned(mr'[h].head[s])
  BY <1>3 DEF TypeOK, Checkout
<1> QED
  BY <1>2, <1>4 DEF EditsPinned

\* A sync opens its merge request only when it has visited every target.
LEMMA NextPinned ==
  TypeOK /\ EditsPinned /\ VisitedPinned /\ [Next]_vars => EditsPinned' /\ VisitedPinned'
<1> SUFFICES ASSUME TypeOK, EditsPinned, VisitedPinned, [Next]_vars
             PROVE  EditsPinned' /\ VisitedPinned'
  OBVIOUS
<1>1. CASE UNCHANGED <<mr, job>>
  BY <1>1 DEF EditsPinned, VisitedPinned, Syncing
<1>2. ASSUME NEW h \in Hand, NEW t \in Targets, NEW v \in Versions, PinVersion(h, t, v)
      PROVE  EditsPinned' /\ VisitedPinned'
  <2> DEFINE m == [main[t] EXCEPT !.version = v, !.product = Pin(v), !.annotated = FALSE]
  <2>1. m \in Manifest
    BY PinVersionTyped DEF TypeOK, Checkout
  <2>2. Pinned(m)
    BY BoundsAssumption DEF TypeOK, Checkout, Manifest, Pinned, Pin
  <2>3. EditsPinned'
    BY <1>2, <2>1, <2>2, ProposePinned DEF PinVersion
  <2> QED
    BY <1>2, <2>3 DEF PinVersion, VisitedPinned, Syncing
<1>3. ASSUME NEW h \in Hand, NEW t \in Targets, NEW r \in ToolReleases, PinResources(h, t, r)
      PROVE  EditsPinned' /\ VisitedPinned'
  <2> DEFINE m == [main[t] EXCEPT !.product = Pin(@.release), !.tool = Pin(r),
                                  !.annotated = FALSE]
  <2>1. m \in Manifest
    BY PinResourcesTyped DEF TypeOK, Checkout
  <2>2. Pinned(m)
    BY BoundsAssumption DEF TypeOK, Checkout, Manifest, Resource, Pinned, Pin
  <2>3. EditsPinned'
    BY <1>3, <2>1, <2>2, ProposePinned DEF PinResources
  <2> QED
    BY <1>3, <2>3 DEF PinResources, VisitedPinned, Syncing
<1>4. ASSUME NEW b \in Branches, Merge(b) PROVE EditsPinned' /\ VisitedPinned'
  BY <1>4 DEF Merge, TypeOK, EditsPinned, VisitedPinned, Syncing
<1>5. ASSUME NEW p \in Pipelines, NEW k \in Kinds, NEW c \in Checkout, Start(p, k, c)
      PROVE  EditsPinned' /\ VisitedPinned'
  BY <1>5 DEF Start, TypeOK, EditsPinned, VisitedPinned, Syncing
<1>6. ASSUME NEW p \in Pipelines, StartSchedule(p) \/ StartPush(p)
      PROVE  EditsPinned' /\ VisitedPinned'
  BY <1>5, <1>6 DEF StartSchedule, StartPush, Kinds, TypeOK
<1>7. ASSUME NEW p \in Pipelines, NEW b \in Branches, StartMergeRequest(p, b)
      PROVE  EditsPinned' /\ VisitedPinned'
  BY <1>5, <1>7 DEF StartMergeRequest, Kinds, TypeOK, MergeRequest
<1>8. ASSUME NEW p \in Pipelines, NEW t \in Targets, SyncTarget(p, t)
      PROVE  EditsPinned' /\ VisitedPinned'
  <2>1. /\ job'[p].todo = job[p].todo \ {t}
        /\ job'[p].ws[t].product = Pin(ironbank[t].version)
        /\ \A s \in Targets \ {t} : job'[p].ws[s] = job[p].ws[s]
        /\ \A q \in Pipelines \ {p} : job'[q] = job[q]
    BY <1>8, SyncTargetEffect
  <2>2. Pinned(job'[p].ws[t])
    BY <2>1, BoundsAssumption DEF TypeOK, Upstream, Pinned, Pin
  <2>3. Syncing(p) /\ UNCHANGED mr
    BY <1>8 DEF SyncTarget
  <2> QED
    BY <2>1, <2>2, <2>3 DEF EditsPinned, VisitedPinned, Syncing
<1>9. ASSUME NEW p \in Pipelines, job[p] # None,
             \/ job' = [job EXCEPT ![p] = None]
             \/ \E w \in Checkout : job' = [job EXCEPT ![p].stage = "build", ![p].ws = w]
      PROVE  VisitedPinned'
  BY <1>9 DEF TypeOK, Job, VisitedPinned, Syncing
<1>10. ASSUME NEW p \in Pipelines, SyncFails(p) \/ Report(p) \/ SkipMr(p) \/ Build(p)
       PROVE  EditsPinned' /\ VisitedPinned'
  <2>1. job[p] \in Job /\ job[p] # None /\ UNCHANGED mr
    BY <1>10 DEF TypeOK, SyncFails, Report, SkipMr, Build, Synced, Syncing, Building
  <2>2. VisitedPinned'
    BY <1>10, <2>1
    DEF TypeOK, Job, VisitedPinned, SyncFails, Report, SkipMr, Build, Syncing
  <2> QED
    BY <2>1, <2>2 DEF EditsPinned
<1>11. ASSUME NEW p \in Pipelines, NEW d \in Dates, OpenMr(p, d) \/ OpenMrFails(p, d)
       PROVE  EditsPinned' /\ VisitedPinned'
  <2>1. job[p] \in Job /\ Syncing(p) /\ job[p].todo = {}
    BY <1>11 DEF TypeOK, OpenMr, OpenMrFails, Synced, Syncing
  <2>2. VisitedPinned'
    BY <1>11, <2>1 DEF TypeOK, Job, VisitedPinned, OpenMr, OpenMrFails, Syncing
  <2>3. mr' = mr \/ mr' = [mr EXCEPT ![d] = [base |-> job[p].checkout, head |-> job[p].ws]]
    BY <1>11 DEF OpenMr, OpenMrFails
  <2>4. \A t \in Targets : Pinned(job[p].ws[t])
    BY <2>1 DEF VisitedPinned
  <2>5. EditsPinned'
    BY <2>3, <2>4 DEF TypeOK, EditsPinned
  <2> QED
    BY <2>2, <2>5
<1>12. ASSUME NEW t \in Targets, IronBankMoves(t) \/ IronBankPins(t)
       PROVE  UNCHANGED <<mr, job>>
  BY <1>12 DEF IronBankMoves, IronBankPins
<1>13. CASE UNCHANGED vars
  BY <1>1, <1>13 DEF vars
<1> QED
  BY <1>1, <1>2, <1>3, <1>4, <1>6, <1>7, <1>8, <1>10, <1>11, <1>12, <1>13
  DEF Next, SyncStep

\* A merge leaves a line that has caught up where it is, or takes it to a newer
\* version somebody pinned by hand.
LEMMA MergeKeepsConverged ==
  ASSUME TypeOK, ManifestsWhole, Behind, EditsPinned, NEW b \in Branches, Merge(b),
         NEW t \in Targets, t \notin byHand, Converged(t)
  PROVE  Converged(t)' \/ PinnedAhead(t)
<1>0. UNCHANGED ironbank
  BY DEF Merge
<1>1. /\ mr[b] # None
      /\ mr[b].base[t] \in Manifest /\ main[t] \in Manifest /\ mr[b].head[t] \in Manifest
      /\ Clean(mr[b].base[t], main[t], mr[b].head[t])
      /\ main'[t] = Combined(mr[b].base[t], main[t], mr[b].head[t])
      /\ main'[t] \in Manifest
  BY MergeTyped, CombinedTyped
<1>2. Whole(mr[b].base[t]) /\ Whole(main[t]) /\ Whole(mr[b].head[t])
  BY <1>1 DEF ManifestsWhole, AllWhole
<1>3. mr[b].head[t].product # mr[b].base[t].product => Pinned(mr[b].head[t])
  BY <1>1 DEF EditsPinned
<1>4. /\ Whole(main'[t])
      /\ mr[b].head[t].product = mr[b].base[t].product => main'[t].product = main[t].product
      /\ mr[b].head[t].product # mr[b].base[t].product =>
           main'[t].product = mr[b].head[t].product
  BY <1>1, <1>2, CombinedWhole
<1>5. Pinned(main'[t])
  BY <1>1, <1>3, <1>4, VersionsAreNumbers, BoundsAssumption
  DEF Pinned, Converged, Pin, TypeOK, Upstream
<1>6. main'[t].product = Pin(main'[t].version)
  BY <1>1, <1>4, <1>5 DEF Whole, Pinned, Pin, Manifest, Resource
<1>7. main'[t].version >= main[t].version /\ main'[t].version \in Int
  BY <1>1, MergeGoesForward DEF Manifest
<1>8. main[t].version = ironbank[t].version /\ main[t].version \in Int
  BY VersionsAreNumbers DEF Converged
<1>9. CASE main'[t].version = main[t].version
  BY <1>0, <1>6, <1>8, <1>9 DEF Converged
<1>10. CASE main'[t].version # main[t].version
  <2>1. main'[t].version > main[t].version
    BY <1>7, <1>8, <1>10
  <2>2. b \notin Dates
    <3> SUFFICES ASSUME b \in Dates PROVE FALSE
      OBVIOUS
    <3>1. mr[b].head[t].version <= ironbank[t].version
      BY <1>1 DEF Behind, BranchesBehind
    <3>2. main'[t].version = mr[b].head[t].version
      BY <1>10, MergedVersion
    <3> QED
      BY <1>7, <1>8, <2>1, <3>1, <3>2
  <2>3. t \in byHand'
    BY <1>10, <2>2 DEF Merge
  <2> QED
    BY <2>1, <2>3 DEF PinnedAhead
<1> QED
  BY <1>9, <1>10

\* Whatever branches are merged and however old: a line that pins what Iron Bank
\* pins, checksum included, does so until Iron Bank moves or somebody pins a
\* newer version by hand.
THEOREM ConvergedAlwaysStays == Spec => ConvergedStays
<1> DEFINE Inv == TypeOK /\ ManifestsWhole /\ Behind /\ EditsPinned /\ VisitedPinned
<1>1. Init => Inv
  BY InitTypeOK, InitWhole, InitBehind, InitPinned
<1>2. Inv /\ [Next]_vars => Inv'
  BY NextTypeOK, NextWhole, NextBehind, NextPinned
<1>3. Inv /\ [Next]_vars => [StayConverged]_vars
  <2> SUFFICES ASSUME Inv, [Next]_vars PROVE StayConverged \/ UNCHANGED vars
    OBVIOUS
  <2>1. ASSUME UNCHANGED main PROVE StayConverged
    BY <2>1 DEF StayConverged, Converged
  <2>2. ASSUME NEW b \in Branches, Merge(b) PROVE StayConverged
    BY <2>2, MergeKeepsConverged DEF StayConverged
  <2> QED
    BY <2>1, <2>2
    DEF Next, SyncStep, IronBankMoves, IronBankPins, PinVersion, PinResources, StartSchedule,
        StartPush, StartMergeRequest, Start, SyncTarget, SyncFails, Report, OpenMr,
        OpenMrFails, SkipMr, Build
<1> QED
  BY <1>1, <1>2, <1>3, PTL DEF Spec, ConvergedStays
=============================================================================
