--------------------------- MODULE ImagePipeline ---------------------------
(***************************************************************************)
(* One product image on its way from a build to the tags deployments use.  *)
(*                                                                         *)
(* Rebuild pipelines (build.sh, gate.sh, sign.sh as the build, gate and    *)
(* sign jobs of .gitlab-ci.yml or the stages of the Jenkinsfile) and daily *)
(* patch jobs (patch.sh, which calls gate.sh and sign.sh) share one        *)
(* registry repository and nothing else: no lock, no resource group, and   *)
(* GitLab and Jenkins push to the same repository.  Every command of a     *)
(* script that reads or writes the registry is one action here, so any two *)
(* runs interleave between any two commands, and a run may stop after any  *)
(* of them.  A tag is resolved each time a command is given the tag.  The  *)
(* jobs of a rebuild are retried whether they have failed or succeeded.    *)
(***************************************************************************)
EXTENDS Naturals

CONSTANTS
  Rebuilds,     \* rebuild pipelines; each build or retried build pushes an image
  Patches,      \* daily patch jobs; each pushes at most one image
  Suffix,       \* Suffix[r]: the CI_PIPELINE_IID or BUILD_NUMBER of rebuild r
  MaxRetries,   \* bound: retries of jobs, failed or not
  MaxVersion,   \* product versions are 1..MaxVersion, in release order
  Findings,     \* fixable findings an image can contain (an EOL base is one)
  OsFindings,   \* those in OS packages, which Copa can patch
  Blocking,     \* those the gate refuses: HIGH/CRITICAL, or EOL
  Seed,         \* the image that is live when the behaviour starts
  None          \* no image

Runs == Rebuilds \union Patches

\* An image is named after the run that pushes it and counted there.
Images == (Rebuilds \X (1..(MaxRetries + 1))) \union (Patches \X {1}) \union {Seed}

Versions == 1..MaxVersion

Suffixes == {Suffix[r] : r \in Rebuilds}

ASSUME RunsAssumption == Rebuilds \intersect Patches = {}
ASSUME ImagesAssumption == /\ Seed \notin Runs \X Nat
                           /\ None \notin Images
ASSUME RetriesAssumption == MaxRetries \in Nat
ASSUME VersionAssumption == MaxVersion \in Nat \ {0}
ASSUME FindingsAssumption == /\ OsFindings \subseteq Findings
                             /\ Blocking \subseteq Findings

VARIABLES
  git,          \* the version the default branch's manifest pins
  upstream,     \* the version Iron Bank's development branch pins
  published,    \* findings the Trivy database knows
  contents,     \* contents[i]: the fixable findings in image i
  builds,       \* builds[r]: images rebuild r has pushed
  retries,      \* retries so far
  buildTag,     \* <version>-<suffix>
  patchedTag,   \* <version>-patched
  verTag,       \* <version>
  lineTag,      \* lts
  historyTag,   \* <version>-patched-<date>, for the one day modelled
  signed,       \* images with a cosign signature
  vulnAtt,      \* vulnAtt[i]: images whose scan is attested on i
  sbomAtt,      \* sbomAtt[i]: images whose SBOM is attested on i
  pc,           \* pc[j]: the next command of run j
  ver,          \* ver[j]: the version run j works on (0: not started)
  report,       \* report[p]: findings in the Copa report of patch p
  dig,          \* dig[j]: the digest run j signs and promotes
  vuln,         \* vuln[j]: the image that run j's vuln.json describes
  sbom,         \* sbom[j]: the image that run j's sbom.cdx.json describes
  gated,        \* history: images a gate scan has passed
  overtaken,    \* history: runs whose tag was pushed again while it was in use
  half,         \* history: runs that have moved <version> and not yet the line
  raced         \* history: versions promoted last while another run was
                \* between its two tags

environment == <<git, upstream, published>>
images == <<contents, builds, retries>>
tags == <<buildTag, patchedTag, verTag, lineTag, historyTag>>
evidence == <<signed, vulnAtt, sbomAtt>>
files == <<report, dig, vuln, sbom>>
history == <<gated, overtaken, half, raced>>
vars == <<environment, images, tags, evidence, pc, ver, files, history>>

SignSteps == {"sign", "attestVuln", "attestSbom", "tagVersion", "tagLine"}
GateSteps == {"gate", "recordVuln", "recordSbom"}
Running == {"build", "scan", "copa", "digest", "history"}
             \union GateSteps \union SignSteps
Ended == {"done", "clean", "gateFailed", "signFailed", "failed"}

TypeOK ==
  /\ git \in Versions
  /\ upstream \in Versions
  /\ published \in SUBSET Findings
  /\ contents \in [Images -> SUBSET Findings]
  /\ builds \in [Rebuilds -> 0..(MaxRetries + 1)]
  /\ retries \in 0..MaxRetries
  /\ buildTag \in [Versions \X Suffixes -> Images \union {None}]
  /\ patchedTag \in [Versions -> Images \union {None}]
  /\ verTag \in [Versions -> Images \union {None}]
  /\ lineTag \in Images
  /\ historyTag \in [Versions -> Images \union {None}]
  /\ signed \in SUBSET Images
  /\ vulnAtt \in [Images -> SUBSET Images]
  /\ sbomAtt \in [Images -> SUBSET Images]
  /\ pc \in [Runs -> {"idle"} \union Running \union Ended]
  /\ ver \in [Runs -> Versions \union {0}]
  /\ report \in [Patches -> SUBSET OsFindings]
  /\ dig \in [Runs -> Images \union {None}]
  /\ vuln \in [Runs -> Images \union {None}]
  /\ sbom \in [Runs -> Images \union {None}]
  /\ gated \in SUBSET Images
  /\ overtaken \in SUBSET Runs
  /\ half \in SUBSET Runs
  /\ raced \in SUBSET Versions

\* The first release is out: built, gated, signed, attested and promoted.
Init ==
  /\ git = 1
  /\ upstream = 1
  /\ published = {}
  /\ \E F \in SUBSET Findings :
       contents = [i \in Images |-> IF i = Seed THEN F ELSE {}]
  /\ builds = [r \in Rebuilds |-> 0]
  /\ retries = 0
  /\ buildTag = [t \in Versions \X Suffixes |-> None]
  /\ patchedTag = [v \in Versions |-> None]
  /\ verTag = [v \in Versions |-> IF v = 1 THEN Seed ELSE None]
  /\ lineTag = Seed
  /\ historyTag = [v \in Versions |-> None]
  /\ signed = {Seed}
  /\ vulnAtt = [i \in Images |-> IF i = Seed THEN {Seed} ELSE {}]
  /\ sbomAtt = [i \in Images |-> IF i = Seed THEN {Seed} ELSE {}]
  /\ pc = [j \in Runs |-> "idle"]
  /\ ver = [j \in Runs |-> 0]
  /\ report = [p \in Patches |-> {}]
  /\ dig = [j \in Runs |-> None]
  /\ vuln = [j \in Runs |-> None]
  /\ sbom = [j \in Runs |-> None]
  /\ gated = {Seed}
  /\ overtaken = {}
  /\ half = {}
  /\ raced = {}

-----------------------------------------------------------------------------
(* Environment *)

\* Iron Bank moves the line to the next version.
UpstreamMoves ==
  /\ upstream < MaxVersion
  /\ upstream' = upstream + 1
  /\ UNCHANGED <<git, published, images, tags, evidence, pc, ver, files, history>>

\* A reviewer merges the merge request that rebuild r's sync stage opened.
MergeSync(r) ==
  /\ git < ver[r]
  /\ git' = ver[r]
  /\ UNCHANGED <<upstream, published, images, tags, evidence, pc, ver, files, history>>

\* The Trivy database learns of a finding.
Publish(f) ==
  /\ f \notin published
  /\ published' = published \union {f}
  /\ UNCHANGED <<git, upstream, images, tags, evidence, pc, ver, files, history>>

-----------------------------------------------------------------------------
(* build.sh, in a rebuild pipeline *)

\* The sync stage replaces the checkout's version with Iron Bank's.
StartRebuild(r) ==
  /\ pc[r] = "idle"
  /\ ver' = [ver EXCEPT ![r] = upstream]
  /\ pc' = [pc EXCEPT ![r] = "build"]
  /\ UNCHANGED <<environment, images, tags, evidence, files, history>>

\* REPO/product:<version>-<suffix>, the suffix being a pipeline's or a build's number.
BuildTag(r) == <<ver[r], Suffix[r]>>

\* buildctl pushes an image under the build tag.  Rebuilds that have pushed under
\* that tag before, r itself included, no longer find their own image there.
Push(r) ==
  LET i == <<r, builds[r] + 1>>
  IN  /\ \E F \in SUBSET Findings : contents' = [contents EXCEPT ![i] = F]
      /\ buildTag' = [buildTag EXCEPT ![BuildTag(r)] = i]
      /\ builds' = [builds EXCEPT ![r] = @ + 1]
      /\ overtaken' = overtaken \union
           {s \in Rebuilds : builds[s] > 0 /\ BuildTag(s) = BuildTag(r)}
      /\ UNCHANGED <<environment, patchedTag, verTag, lineTag, historyTag, evidence,
                     ver, files, gated, half, raced>>

Build(r) ==
  /\ pc[r] = "build"
  /\ Push(r)
  /\ pc' = [pc EXCEPT ![r] = "gate"]
  /\ UNCHANGED retries

\* Someone retries the build job, whatever the pipeline's gate and sign jobs are
\* at: the same version and suffix, so the same tag.
RetryBuild(r) ==
  /\ builds[r] > 0
  /\ retries < MaxRetries
  /\ retries' = retries + 1
  /\ Push(r)
  /\ UNCHANGED pc

-----------------------------------------------------------------------------
(* patch.sh, before it calls gate.sh and after *)

\* The patch job works on the version of its checkout of the default branch, or
\* on the synced manifest when its pipeline has run sync-ironbank as well.
StartPatch(p) ==
  /\ pc[p] = "idle"
  /\ \E v \in {git, upstream} : ver' = [ver EXCEPT ![p] = v]
  /\ pc' = [pc EXCEPT ![p] = "scan"]
  /\ UNCHANGED <<environment, images, tags, evidence, files, history>>

Known(i) == contents[i] \intersect published

\* trivy lists the fixable OS findings of the version tag; none ends the job.
Scan(p) ==
  /\ pc[p] = "scan"
  /\ verTag[ver[p]] # None
  /\ report' = [report EXCEPT ![p] = Known(verTag[ver[p]]) \intersect OsFindings]
  /\ pc' = [pc EXCEPT ![p] = IF report'[p] = {} THEN "clean" ELSE "copa"]
  /\ UNCHANGED <<environment, images, tags, evidence, ver, dig, vuln, sbom, history>>

\* Copa resolves the version tag again, fixes what the report lists and
\* pushes the result under the version's one working tag, from under any patch
\* job that has yet to resolve it.
Copa(p) ==
  /\ pc[p] = "copa"
  /\ contents' = [contents EXCEPT ![<<p, 1>>] = contents[verTag[ver[p]]] \ report[p]]
  /\ patchedTag' = [patchedTag EXCEPT ![ver[p]] = <<p, 1>>]
  /\ overtaken' = overtaken \union
       {q \in Patches \ {p} : pc[q] \in GateSteps \union {"digest"} /\ ver[q] = ver[p]}
  /\ pc' = [pc EXCEPT ![p] = "gate"]
  /\ UNCHANGED <<environment, builds, retries, buildTag, verTag, lineTag, historyTag,
                 evidence, ver, files, gated, half, raced>>

\* Mutant: the dated tag is resolved, which is only pushed at the end.
DigestOfHistoryTag(p) ==
  /\ pc[p] = "digest"
  /\ dig' = [dig EXCEPT ![p] = historyTag[ver[p]]]
  /\ pc' = [pc EXCEPT ![p] = "sign"]
  /\ UNCHANGED <<environment, images, tags, evidence, ver, report, vuln, sbom, history>>

\* crane digest: what the working tag points at once the gate has passed.
ResolveDigest(p) ==
  /\ pc[p] = "digest"
  /\ dig' = [dig EXCEPT ![p] = patchedTag[ver[p]]]
  /\ pc' = [pc EXCEPT ![p] = "sign"]
  /\ UNCHANGED <<environment, images, tags, evidence, ver, report, vuln, sbom, history>>

TagHistory(p) ==
  /\ pc[p] = "history"
  /\ historyTag' = [historyTag EXCEPT ![ver[p]] = dig[p]]
  /\ pc' = [pc EXCEPT ![p] = "done"]
  /\ UNCHANGED <<environment, images, buildTag, patchedTag, verTag, lineTag, evidence,
                 ver, files, history>>

-----------------------------------------------------------------------------
(* gate.sh <image-ref>, given a tag by both callers *)

\* Mutant: a patch gates the tag that is live, not the image it just pushed.
VersionTagOfPatch(j) ==
  IF j \in Rebuilds THEN buildTag[BuildTag(j)] ELSE verTag[ver[j]]

\* The image the gate's tag points at now.
GateImage(j) ==
  IF j \in Rebuilds THEN buildTag[BuildTag(j)] ELSE patchedTag[ver[j]]

\* Mutant: trivy's exit code is lost.
GateIgnoringExitCode(j) ==
  /\ pc[j] = "gate"
  /\ pc' = [pc EXCEPT ![j] = "recordVuln"]
  /\ gated' = IF Known(GateImage(j)) \intersect Blocking = {}
              THEN gated \union {GateImage(j)} ELSE gated
  /\ UNCHANGED <<environment, images, tags, evidence, ver, files, overtaken, half, raced>>

\* Mutant: the gate leaves no vuln.json behind.
GateSkippingVulnRecord(j) ==
  /\ pc[j] = "gate"
  /\ Known(GateImage(j)) \intersect Blocking = {}
  /\ pc' = [pc EXCEPT ![j] = "recordSbom"]
  /\ gated' = gated \union {GateImage(j)}
  /\ UNCHANGED <<environment, images, tags, evidence, ver, files, overtaken, half, raced>>

\* trivy_gate: exit 0 goes on; a finding or an EOL base ends the gate.
Gate(j) ==
  /\ pc[j] = "gate"
  /\ \/ /\ Known(GateImage(j)) \intersect Blocking = {}
        /\ pc' = [pc EXCEPT ![j] = "recordVuln"]
        /\ gated' = gated \union {GateImage(j)}
     \/ /\ Known(GateImage(j)) \intersect Blocking # {}
        /\ pc' = [pc EXCEPT ![j] = IF j \in Rebuilds THEN "gateFailed" ELSE "failed"]
        /\ gated' = gated
  /\ UNCHANGED <<environment, images, tags, evidence, ver, files, overtaken, half, raced>>

\* A second trivy run writes vuln.json, a third sbom.cdx.json.
RecordVuln(j) ==
  /\ pc[j] = "recordVuln"
  /\ vuln' = [vuln EXCEPT ![j] = GateImage(j)]
  /\ pc' = [pc EXCEPT ![j] = "recordSbom"]
  /\ UNCHANGED <<environment, images, tags, evidence, ver, report, dig, sbom, history>>

RecordSbom(j) ==
  /\ pc[j] = "recordSbom"
  /\ sbom' = [sbom EXCEPT ![j] = GateImage(j)]
  /\ pc' = [pc EXCEPT ![j] = IF j \in Rebuilds THEN "sign" ELSE "digest"]
  /\ UNCHANGED <<environment, images, tags, evidence, ver, report, dig, vuln, history>>

-----------------------------------------------------------------------------
(* sign.sh <digest> <version>, with EXTRA_TAGS=lts *)

\* The images a build of r has pushed.
BuildsOf(r) == {<<r, n>> : n \in 1..builds[r]}

\* The digest that sign.sh is called with.  A patch has resolved it; a sign job
\* starts with the DIGEST of the last build or of an earlier one, whose build.env
\* some gate job has uploaded again.
Digests(j) == IF j \in Rebuilds THEN BuildsOf(j) ELSE {dig[j]}

\* Mutant: the tags move before the attestations are attached.
SignThenTag(j) ==
  /\ pc[j] = "sign"
  /\ \E i \in Digests(j) : /\ dig' = [dig EXCEPT ![j] = i]
                           /\ signed' = signed \union {i}
  /\ pc' = [pc EXCEPT ![j] = "tagVersion"]
  /\ UNCHANGED <<environment, images, tags, vulnAtt, sbomAtt, ver, report, vuln, sbom,
                 history>>

Sign(j) ==
  /\ pc[j] = "sign"
  /\ \E i \in Digests(j) : /\ dig' = [dig EXCEPT ![j] = i]
                           /\ signed' = signed \union {i}
  /\ pc' = [pc EXCEPT ![j] = "attestVuln"]
  /\ UNCHANGED <<environment, images, tags, vulnAtt, sbomAtt, ver, report, vuln, sbom,
                 history>>

\* A record that is missing or empty is left out silently.
AttestVuln(j) ==
  /\ pc[j] = "attestVuln"
  /\ vulnAtt' = [vulnAtt EXCEPT ![dig[j]] = @ \union ({vuln[j]} \ {None})]
  /\ pc' = [pc EXCEPT ![j] = "attestSbom"]
  /\ UNCHANGED <<environment, images, tags, signed, sbomAtt, ver, files, history>>

AttestSbom(j) ==
  /\ pc[j] = "attestSbom"
  /\ sbomAtt' = [sbomAtt EXCEPT ![dig[j]] = @ \union ({sbom[j]} \ {None})]
  /\ pc' = [pc EXCEPT ![j] = "tagVersion"]
  /\ UNCHANGED <<environment, images, tags, signed, vulnAtt, ver, files, history>>

\* Another run has moved the version's tag and not yet the line tag.
HalfPromoted(j) == \E k \in Runs \ {j} : pc[k] = "tagLine" /\ ver[k] = ver[j]

\* Mutant: the version tag is named after the checkout, not after the build.
TagVersionOfCheckout(j) ==
  /\ pc[j] = "tagVersion"
  /\ verTag' = [verTag EXCEPT ![git] = dig[j]]
  /\ raced' = IF HalfPromoted(j) THEN raced \union {ver[j]} ELSE raced \ {ver[j]}
  /\ half' = half \union {j}
  /\ pc' = [pc EXCEPT ![j] = "tagLine"]
  /\ UNCHANGED <<environment, images, buildTag, patchedTag, lineTag, historyTag,
                 evidence, ver, files, gated, overtaken>>

\* The promotion loop: one crane tag for the version, then one for the line.
TagVersion(j) ==
  /\ pc[j] = "tagVersion"
  /\ verTag' = [verTag EXCEPT ![ver[j]] = dig[j]]
  /\ raced' = IF HalfPromoted(j) THEN raced \union {ver[j]} ELSE raced \ {ver[j]}
  /\ half' = half \union {j}
  /\ pc' = [pc EXCEPT ![j] = "tagLine"]
  /\ UNCHANGED <<environment, images, buildTag, patchedTag, lineTag, historyTag,
                 evidence, ver, files, gated, overtaken>>

\* Mutant: patches move the version tag only (no EXTRA_TAGS).
TagLineOfRebuilds(j) ==
  /\ pc[j] = "tagLine"
  /\ lineTag' = IF j \in Rebuilds THEN dig[j] ELSE lineTag
  /\ pc' = [pc EXCEPT ![j] = IF j \in Rebuilds THEN "done" ELSE "history"]
  /\ half' = half \ {j}
  /\ UNCHANGED <<environment, images, buildTag, patchedTag, verTag, historyTag,
                 evidence, ver, files, gated, overtaken, raced>>

TagLine(j) ==
  /\ pc[j] = "tagLine"
  /\ lineTag' = dig[j]
  /\ pc' = [pc EXCEPT ![j] = IF j \in Rebuilds THEN "done" ELSE "history"]
  /\ half' = half \ {j}
  /\ UNCHANGED <<environment, images, buildTag, patchedTag, verTag, historyTag,
                 evidence, ver, files, gated, overtaken, raced>>

-----------------------------------------------------------------------------
(* Failures *)

\* A command fails (set -e), or the job is cancelled or loses its pod, and its
\* workspace is gone.  A sign job works on the artifacts of the gate job, which stay.
Fail(j) ==
  /\ pc[j] \in Running
  /\ \/ /\ j \in Rebuilds /\ pc[j] \in SignSteps
        /\ pc' = [pc EXCEPT ![j] = "signFailed"]
        /\ UNCHANGED <<report, vuln, sbom>>
     \/ /\ j \in Rebuilds /\ pc[j] \notin SignSteps
        /\ pc' = [pc EXCEPT ![j] = IF pc[j] = "build" THEN "failed" ELSE "gateFailed"]
        /\ vuln' = [vuln EXCEPT ![j] = None]
        /\ sbom' = [sbom EXCEPT ![j] = None]
        /\ UNCHANGED report
     \/ /\ j \in Patches
        /\ pc' = [pc EXCEPT ![j] = "failed"]
        /\ report' = [report EXCEPT ![j] = {}]
        /\ vuln' = [vuln EXCEPT ![j] = None]
        /\ sbom' = [sbom EXCEPT ![j] = None]
  /\ UNCHANGED <<environment, images, tags, evidence, ver, dig, history>>

\* Someone retries a failed job: its script starts over, on the artifacts the
\* earlier jobs of the pipeline left.
RetryFailed(r) ==
  /\ retries < MaxRetries
  /\ retries' = retries + 1
  /\ \/ /\ pc[r] = "failed"
        /\ pc' = [pc EXCEPT ![r] = "build"]
     \/ /\ pc[r] = "gateFailed"
        /\ pc' = [pc EXCEPT ![r] = "gate"]
     \/ /\ pc[r] = "signFailed"
        /\ pc' = [pc EXCEPT ![r] = "sign"]
  /\ UNCHANGED <<environment, contents, builds, tags, evidence, ver, files, history>>

\* Someone retries a gate that has passed, before its sign job starts or after
\* that has ended, or a sign job that has succeeded.
RetryPassed(r) ==
  /\ retries < MaxRetries
  /\ retries' = retries + 1
  /\ \/ /\ pc[r] \in {"sign", "signFailed", "done"}
        /\ pc' = [pc EXCEPT ![r] = "gate"]
     \/ /\ pc[r] = "done"
        /\ pc' = [pc EXCEPT ![r] = "sign"]
  /\ UNCHANGED <<environment, contents, builds, tags, evidence, ver, files, history>>

RebuildStep(r) ==
  \/ StartRebuild(r) \/ Build(r) \/ MergeSync(r)
  \/ RetryBuild(r) \/ RetryFailed(r) \/ RetryPassed(r)

PatchStep(p) ==
  StartPatch(p) \/ Scan(p) \/ Copa(p) \/ ResolveDigest(p) \/ TagHistory(p)

SharedStep(j) ==
  \/ Gate(j) \/ RecordVuln(j) \/ RecordSbom(j)
  \/ Sign(j) \/ AttestVuln(j) \/ AttestSbom(j) \/ TagVersion(j) \/ TagLine(j)
  \/ Fail(j)

Next ==
  \/ UpstreamMoves
  \/ \E f \in Findings : Publish(f)
  \/ \E r \in Rebuilds : RebuildStep(r)
  \/ \E p \in Patches : PatchStep(p)
  \/ \E j \in Runs : SharedStep(j)

Spec == Init /\ [][Next]_vars

-----------------------------------------------------------------------------
(* Properties *)

Promoted == ({verTag[v] : v \in Versions} \union {lineTag}) \ {None}

Admissible(i) == i \in signed /\ vulnAtt[i] # {} /\ sbomAtt[i] # {}

\* Whatever runs interleave, fail and are retried, a version tag or the line
\* tag only ever points at an image that admission accepts: signed, with a
\* vulnerability and an SBOM attestation (sign.sh attests before it tags, and
\* gate.sh leaves both records behind before anything is signed).
PromotedIsAdmissible == \A i \in Promoted : Admissible(i)

\* "rejects anything that skipped the gate": the promoted digest itself was
\* scanned and passed, although the gate is given a tag and signing a digest.
PromotedWasGated == Promoted \subseteq gated

\* The images that a run's DIGEST can name: a rebuild's own, as often as it was
\* built; for a patch, what the working tag named when it was resolved.
TakenBy(j) == IF j \in Rebuilds THEN BuildsOf(j) ELSE {dig[j]} \ {None}

Excused == UNION {TakenBy(j) : j \in overtaken}

\* The promoted digest itself was scanned and passed, however many runs share a
\* tag, fail and are retried, unless another push (its own retried build's, or
\* that of a run with the same tag) came between a run and its tag.
GatedUnlessOvertaken == Promoted \subseteq gated \union Excused

\* An attestation attached to a digest describes that digest, although the
\* records are written from a tag, in two later scans of their own; with the
\* same exception.
AttestsItself ==
  \A i \in Images \ Excused : vulnAtt[i] \subseteq {i} /\ sbomAtt[i] \subseteq {i}

VersionOf(i) == IF i = Seed THEN 1 ELSE ver[i[1]]

\* A version tag only ever names an image of that version, although a patch
\* works on the version in git, a rebuild on the one it synced, and the digest a
\* patch promotes is whatever its working tag named when it was resolved.
TagsNameTheirVersion ==
  \A v \in Versions : verTag[v] # None => VersionOf(verTag[v]) = v

\* The line tag and the tag of the version it is at name the same image, unless
\* the version tag is where a promotion left it that has not come to the line
\* tag since (it is under way or was cut off between the two), or the version's
\* last promotion began between the two tags of another run's (no lock is taken).
TagsAgree ==
  LET v == VersionOf(lineTag)
  IN  \/ verTag[v] = lineTag
      \/ v \in raced
      \/ \E k \in half : ver[k] = v /\ verTag[v] \in TakenBy(k)

\* The line tag never goes back to an image of an older product version.
LineNeverGoesBack == [][VersionOf(lineTag)' >= VersionOf(lineTag)]_vars

\* The pipeline implements TrustedPromotion: an image is certified once admission
\* would accept it, and every step certifies, moves one tag, or does neither.
TP == INSTANCE TrustedPromotion
        WITH certified <- {i \in Images : Admissible(i)}

ImplementsTrustedPromotion == TP!Spec
=============================================================================
