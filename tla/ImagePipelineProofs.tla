------------------------ MODULE ImagePipelineProofs ------------------------
(***************************************************************************)
(* Theorems about ImagePipeline, for any number of rebuilds, patches,      *)
(* retries, versions and findings, whatever tags the runs share.           *)
(*                                                                         *)
(* Keeps and Moves say what a step does to one run; most invariants below  *)
(* are about one run at a time and follow from them.  Located strengthens  *)
(* the type invariant (a tag a script is about to read exists, a file it   *)
(* is about to attest was written), Evidenced says which evidence each     *)
(* step of sign.sh leaves behind, OwnTags which image the tag, the records *)
(* and the digest of a run name that no push has overtaken, VersionInv     *)
(* which version the image behind a tag or a digest has, and               *)
(* HalfPromotedHolds what a run finds between its two tags.                *)
(***************************************************************************)
EXTENDS ImagePipeline, TLAPS

USE DEF Versions, Suffixes, Runs

\* A run that has started has a version.
Started == \A j \in Runs : pc[j] # "idle" => ver[j] \in Versions

\* A rebuild that has pushed anything has a gate to run; its first push is no retry.
BuildsCounted ==
  \A r \in Rebuilds : /\ builds[r] <= retries + 1
                      /\ pc[r] \in {"idle", "build", "failed"} <=> builds[r] = 0

\* The image Copa is about to patch and the tag the gate is given exist.
SourceExists == \A p \in Patches : pc[p] = "copa" => verTag[ver[p]] # None
BuildTagExists == \A r \in Rebuilds : builds[r] > 0 => buildTag[BuildTag(r)] # None
PatchedTagExists ==
  \A p \in Patches : pc[p] \in GateSteps \union {"digest"} => patchedTag[ver[p]] # None

\* The files and the digest a later command reads were written by an earlier one.
RecordsWritten ==
  \A j \in Runs : /\ pc[j] \in {"recordSbom", "digest"} => vuln[j] # None
                  /\ pc[j] = "digest" => sbom[j] # None
SignInputs ==
  \A j \in Runs : pc[j] \in SignSteps \union {"signFailed", "history", "done"}
                    => vuln[j] # None /\ sbom[j] # None
DigestResolved ==
  /\ \A p \in Patches : pc[p] = "sign" => dig[p] # None
  /\ \A j \in Runs : pc[j] \in (SignSteps \ {"sign"}) \union {"history"} => dig[j] # None

Located ==
  /\ Started /\ BuildsCounted /\ SourceExists /\ BuildTagExists /\ PatchedTagExists
  /\ RecordsWritten /\ SignInputs /\ DigestResolved

TypeInv == TypeOK /\ Located

\* The state after the first promotion is typed and has nothing to read yet.
LEMMA InitTypeInv == Init => TypeInv
<1> SUFFICES ASSUME Init PROVE TypeInv
  OBVIOUS
<1> USE VersionAssumption, RetriesAssumption
<1>1. TypeOK
  BY DEF Init, TypeOK, Images, Running, Ended
<1>2. \A j \in Runs : pc[j] = "idle"
  BY DEF Init
<1>3. Started /\ SourceExists /\ PatchedTagExists
  BY <1>2 DEF Started, SourceExists, PatchedTagExists, GateSteps
<1>4. BuildsCounted /\ BuildTagExists
  <2>1. retries = 0 /\ \A r \in Rebuilds : builds[r] = 0
    BY DEF Init
  <2> QED BY <1>2, <2>1 DEF BuildsCounted, BuildTagExists
<1>5. RecordsWritten /\ SignInputs /\ DigestResolved
  BY <1>2 DEF RecordsWritten, SignInputs, DigestResolved, SignSteps
<1> QED BY <1>1, <1>3, <1>4, <1>5 DEF TypeInv, Located

\* The images a run builds, signs and resolves are among Images.
LEMMA BuildsAreImages ==
  ASSUME TypeOK, NEW r \in Rebuilds
  PROVE  BuildsOf(r) \subseteq Images
BY RetriesAssumption DEF TypeOK, BuildsOf, Images

LEMMA DigestsAreImages ==
  ASSUME TypeInv, NEW j \in Runs, pc[j] = "sign"
  PROVE  Digests(j) \subseteq Images
<1>1. dig[j] \in Images \union {None}
  BY DEF TypeInv, TypeOK
<1> QED BY <1>1, BuildsAreImages DEF TypeInv, Located, DigestResolved, Digests

LEMMA GateImageExists ==
  ASSUME TypeInv, NEW j \in Runs, pc[j] \in GateSteps \union {"digest"}
  PROVE  GateImage(j) \in Images
<1>1. /\ ver[j] \in Versions
      /\ buildTag \in [Versions \X Suffixes -> Images \union {None}]
      /\ patchedTag \in [Versions -> Images \union {None}]
  BY DEF TypeInv, TypeOK, Located, Started, GateSteps
<1>2. CASE j \in Rebuilds
  <2>1. builds[j] # 0 /\ builds[j] \in Nat
    <3>1. builds \in [Rebuilds -> 0..(MaxRetries + 1)]
      BY DEF TypeInv, TypeOK
    <3>2. pc[j] \notin {"idle", "build", "failed"}
      BY DEF GateSteps
    <3> QED BY <1>2, <3>1, <3>2, RetriesAssumption DEF TypeInv, Located, BuildsCounted
  <2>2. buildTag[BuildTag(j)] # None
    BY <1>2, <2>1 DEF TypeInv, Located, BuildTagExists
  <2>3. BuildTag(j) \in Versions \X Suffixes
    BY <1>1, <1>2 DEF BuildTag
  <2> QED BY <1>1, <1>2, <2>2, <2>3 DEF GateImage
<1>3. CASE j \in Patches
  <2>1. patchedTag[ver[j]] # None
    BY <1>3 DEF TypeInv, Located, PatchedTagExists
  <2> QED BY <1>1, <1>3, <2>1, RunsAssumption DEF GateImage
<1> QED BY <1>2, <1>3

Pushes(r) == Build(r) \/ RetryBuild(r)

\* A push goes to the next image of the run, under a tag of the run's version.
LEMMA PushTyped ==
  ASSUME TypeInv, NEW r \in Rebuilds, Pushes(r)
  PROVE  /\ <<r, builds[r] + 1>> \in Images
         /\ BuildTag(r) \in Versions \X Suffixes
         /\ builds'[r] = builds[r] + 1 /\ builds'[r] \in 1..(MaxRetries + 1)
         /\ builds'[r] <= retries' + 1
<1>1. /\ builds \in [Rebuilds -> 0..(MaxRetries + 1)] /\ retries \in 0..MaxRetries
      /\ builds[r] <= retries + 1 /\ (pc[r] = "build" => builds[r] = 0)
      /\ (pc[r] # "idle" => ver[r] \in Versions)
      /\ (builds[r] # 0 => pc[r] # "idle")
  BY DEF TypeInv, TypeOK, Located, Started, BuildsCounted
<1>2. builds' = [builds EXCEPT ![r] = @ + 1]
  BY DEF Pushes, Build, RetryBuild, Push
<1>3. builds'[r] = builds[r] + 1
  BY <1>1, <1>2
<1>4. builds[r] + 1 \in 1..(MaxRetries + 1) /\ builds[r] + 1 <= retries' + 1
  <2>1. CASE Build(r)
    BY <1>1, <2>1, RetriesAssumption DEF Build
  <2>2. CASE RetryBuild(r)
    BY <1>1, <2>2, RetriesAssumption DEF RetryBuild
  <2> QED BY <2>1, <2>2 DEF Pushes
<1>5. BuildTag(r) \in Versions \X Suffixes
  BY <1>1, RetriesAssumption DEF BuildTag, Pushes, Build, RetryBuild
<1> QED BY <1>3, <1>4, <1>5 DEF Images

\* No command of any script, failure or retry leaves the types.
LEMMA NextTypeOK == TypeInv /\ [Next]_vars => TypeOK'
<1> SUFFICES ASSUME TypeInv, [Next]_vars PROVE TypeOK'
  OBVIOUS
<1>a. TypeOK /\ Located
  BY DEF TypeInv
<1> USE <1>a
<1> USE DEF TypeOK, environment, images, tags, evidence, files, history, Started
<1>1. CASE UpstreamMoves
  BY <1>1, VersionAssumption DEF UpstreamMoves
<1>2. ASSUME NEW f \in Findings, Publish(f) PROVE TypeOK'
  BY <1>2 DEF Publish
<1>3. ASSUME NEW r \in Rebuilds, RebuildStep(r) PROVE TypeOK'
  <2>1. CASE StartRebuild(r)
    BY <2>1 DEF StartRebuild, Running
  <2>2. CASE Pushes(r)
    <3> DEFINE i == <<r, builds[r] + 1>>
    <3>1. /\ i \in Images /\ BuildTag(r) \in Versions \X Suffixes
          /\ builds[r] + 1 \in 1..(MaxRetries + 1)
      BY <2>2, PushTyped
    <3>2. PICK F \in SUBSET Findings : contents' = [contents EXCEPT ![i] = F]
      BY <2>2 DEF Pushes, Build, RetryBuild, Push
    <3>3. contents' \in [Images -> SUBSET Findings]
      BY <3>2
    <3>4. /\ buildTag' = [buildTag EXCEPT ![BuildTag(r)] = i]
          /\ builds' = [builds EXCEPT ![r] = @ + 1]
          /\ overtaken' \subseteq overtaken \union Rebuilds
          /\ UNCHANGED <<environment, patchedTag, verTag, lineTag, historyTag, evidence,
                         ver, files, gated, half, raced>>
      BY <2>2 DEF Pushes, Build, RetryBuild, Push
    <3>5. buildTag' \in [Versions \X Suffixes -> Images \union {None}]
      BY <3>1, <3>4
    <3>6. builds' \in [Rebuilds -> 0..(MaxRetries + 1)]
      BY <3>1, <3>4, RetriesAssumption
    <3>7. overtaken' \in SUBSET Runs
      BY <3>4
    <3>8. retries' \in 0..MaxRetries
      BY <2>2, RetriesAssumption DEF Pushes, Build, RetryBuild
    <3>9. pc' \in [Runs -> {"idle"} \union Running \union Ended]
      BY <2>2 DEF Pushes, Build, RetryBuild, Running, GateSteps
    <3> HIDE DEF i
    <3> QED BY <3>3, <3>4, <3>5, <3>6, <3>7, <3>8, <3>9
  <2>3. CASE RetryFailed(r)
    <3>1. retries' \in 0..MaxRetries
      BY <2>3, RetriesAssumption DEF RetryFailed
    <3>2. pc' \in [Runs -> {"idle"} \union Running \union Ended]
      BY <2>3 DEF RetryFailed, Running, GateSteps, SignSteps
    <3> QED BY <2>3, <3>1, <3>2 DEF RetryFailed
  <2>4. CASE RetryPassed(r)
    <3>1. retries' \in 0..MaxRetries
      BY <2>4, RetriesAssumption DEF RetryPassed
    <3>2. pc' \in [Runs -> {"idle"} \union Running \union Ended]
      BY <2>4 DEF RetryPassed, Running, GateSteps, SignSteps
    <3> QED BY <2>4, <3>1, <3>2 DEF RetryPassed
  <2>5. CASE MergeSync(r)
    <3>1. ver[r] \in Versions
      BY <2>5, VersionAssumption DEF MergeSync
    <3> QED BY <2>5, <3>1 DEF MergeSync
  <2> QED BY <1>3, <2>1, <2>2, <2>3, <2>4, <2>5 DEF RebuildStep, Pushes
<1>4. ASSUME NEW p \in Patches, PatchStep(p) PROVE TypeOK'
  <2>1. CASE StartPatch(p)
    <3>1. ver' \in [Runs -> Versions \union {0}]
      BY <2>1 DEF StartPatch
    <3>2. pc' \in [Runs -> {"idle"} \union Running \union Ended]
      BY <2>1 DEF StartPatch, Running
    <3> QED BY <2>1, <3>1, <3>2 DEF StartPatch
  <2>2. CASE Scan(p)
    BY <2>2 DEF Scan, Running, Ended
  <2>3. CASE Copa(p)
    <3>1. verTag[ver[p]] \in Images /\ ver[p] \in Versions
      BY <2>3 DEF Copa, Located, SourceExists
    <3>2. <<p, 1>> \in Images
      BY DEF Images
    <3>3. contents[verTag[ver[p]]] \ report[p] \in SUBSET Findings
      BY <3>1
    <3>4. contents' \in [Images -> SUBSET Findings] /\ overtaken' \in SUBSET Runs
      BY <2>3, <3>3 DEF Copa
    <3>5. patchedTag' \in [Versions -> Images \union {None}]
      BY <2>3, <3>1, <3>2 DEF Copa
    <3>6. pc' \in [Runs -> {"idle"} \union Running \union Ended]
      BY <2>3 DEF Copa, Running, GateSteps
    <3> QED BY <2>3, <3>4, <3>5, <3>6 DEF Copa
  <2>4. CASE ResolveDigest(p)
    BY <2>4 DEF ResolveDigest, Located, Running, SignSteps
  <2>5. CASE TagHistory(p)
    BY <2>5 DEF TagHistory, Located, Ended
  <2> QED BY <1>4, <2>1, <2>2, <2>3, <2>4, <2>5 DEF PatchStep
<1>5. ASSUME NEW j \in Runs, SharedStep(j) PROVE TypeOK'
  <2>0. pc[j] \in GateSteps => GateImage(j) \in Images
    BY GateImageExists
  <2>1. CASE Gate(j)
    BY <2>0, <2>1 DEF Gate, GateSteps, Running, Ended
  <2>2. CASE RecordVuln(j)
    BY <2>0, <2>2 DEF RecordVuln, GateSteps, Running
  <2>3. CASE RecordSbom(j)
    BY <2>0, <2>3 DEF RecordSbom, GateSteps, SignSteps, Running
  <2>4. CASE Sign(j)
    <3>1. PICK i \in Digests(j) : /\ dig' = [dig EXCEPT ![j] = i]
                                 /\ signed' = signed \union {i}
      BY <2>4 DEF Sign
    <3>2. i \in Images
      BY <2>4, DigestsAreImages DEF Sign
    <3> QED BY <2>4, <3>1, <3>2 DEF Sign, SignSteps, Running
  <2>5. CASE AttestVuln(j) \/ AttestSbom(j)
    <3>1. {vuln[j]} \ {None} \subseteq Images /\ {sbom[j]} \ {None} \subseteq Images
      OBVIOUS
    <3>2. vulnAtt' \in [Images -> SUBSET Images] /\ sbomAtt' \in [Images -> SUBSET Images]
      <4> HIDE DEF TypeOK, Started
      <4>1. vulnAtt \in [Images -> SUBSET Images] /\ sbomAtt \in [Images -> SUBSET Images]
        BY DEF TypeOK
      <4>2. CASE AttestVuln(j)
        BY <3>1, <4>1, <4>2 DEF AttestVuln
      <4>3. CASE AttestSbom(j)
        BY <3>1, <4>1, <4>3 DEF AttestSbom
      <4> QED BY <2>5, <4>2, <4>3
    <3>3. pc' \in [Runs -> {"idle"} \union Running \union Ended]
      BY <2>5 DEF AttestVuln, AttestSbom, Running, SignSteps
    <3> QED BY <2>5, <3>2, <3>3 DEF AttestVuln, AttestSbom
  <2>7. CASE TagVersion(j)
    BY <2>7 DEF TagVersion, Located, Running, SignSteps
  <2>8. CASE TagLine(j)
    BY <2>8 DEF TagLine, Located, DigestResolved, SignSteps, Running, Ended
  <2>9. CASE Fail(j)
    BY <2>9 DEF Fail, Ended
  <2> QED
    BY <1>5, <2>1, <2>2, <2>3, <2>4, <2>5, <2>7, <2>8, <2>9 DEF SharedStep
<1>6. CASE UNCHANGED vars
  BY <1>6 DEF vars
<1> QED BY <1>1, <1>2, <1>3, <1>4, <1>5, <1>6 DEF Next

\* What a step leaves alone of a run that is not the one to move.
Keeps(j) ==
  /\ pc'[j] = pc[j] /\ ver'[j] = ver[j] /\ dig'[j] = dig[j]
  /\ vuln'[j] = vuln[j] /\ sbom'[j] = sbom[j]

\* The commands that change nothing of their run but where it is.
Proceeds(j) ==
  \/ j \in Rebuilds /\ Build(j) /\ pc[j] = "build" /\ pc'[j] = "gate"
  \/ pc[j] = "scan" /\ pc'[j] \in {"clean", "copa"} /\ verTag[ver[j]] # None
  \/ j \in Patches /\ Copa(j) /\ pc[j] = "copa" /\ pc'[j] = "gate"
  \/ pc[j] = "gate" /\ pc'[j] = "recordVuln" /\ GateImage(j) \in gated'
  \/ pc[j] = "gate" /\ pc'[j] = IF j \in Rebuilds THEN "gateFailed" ELSE "failed"
  \/ AttestVuln(j) /\ pc[j] = "attestVuln" /\ pc'[j] = "attestSbom"
  \/ AttestSbom(j) /\ pc[j] = "attestSbom" /\ pc'[j] = "tagVersion"
  \/ TagVersion(j) /\ pc[j] = "tagVersion" /\ pc'[j] = "tagLine"
  \/ TagLine(j) /\ pc[j] = "tagLine" /\ pc'[j] = IF j \in Rebuilds THEN "done" ELSE "history"
  \/ j \in Patches /\ pc[j] = "history" /\ pc'[j] = "done"
  \/ j \in Rebuilds /\ pc[j] \in SignSteps /\ pc'[j] = "signFailed"

\* The retries that start a script of the run over.
StartsOver(j) ==
  /\ j \in Rebuilds
  /\ \/ pc[j] = "failed" /\ pc'[j] = "build"
     \/ pc[j] \in {"gateFailed", "sign", "signFailed", "done"} /\ pc'[j] = "gate"
     \/ pc[j] \in {"signFailed", "done"} /\ pc'[j] = "sign"

\* What a step does to the run it moves.
Moves(j) ==
  \/ /\ pc[j] = "idle" /\ pc'[j] = IF j \in Rebuilds THEN "build" ELSE "scan"
     /\ ver'[j] \in Versions
     /\ dig'[j] = dig[j] /\ vuln'[j] = vuln[j] /\ sbom'[j] = sbom[j]
  \/ /\ Proceeds(j) \/ StartsOver(j)
     /\ ver'[j] = ver[j] /\ dig'[j] = dig[j] /\ vuln'[j] = vuln[j] /\ sbom'[j] = sbom[j]
  \/ /\ pc[j] = "recordVuln" /\ pc'[j] = "recordSbom" /\ vuln'[j] = GateImage(j)
     /\ ver'[j] = ver[j] /\ dig'[j] = dig[j] /\ sbom'[j] = sbom[j]
  \/ /\ pc[j] = "recordSbom" /\ pc'[j] = IF j \in Rebuilds THEN "sign" ELSE "digest"
     /\ sbom'[j] = GateImage(j)
     /\ ver'[j] = ver[j] /\ dig'[j] = dig[j] /\ vuln'[j] = vuln[j]
  \/ /\ j \in Patches /\ pc[j] = "digest" /\ pc'[j] = "sign" /\ dig'[j] = GateImage(j)
     /\ ver'[j] = ver[j] /\ vuln'[j] = vuln[j] /\ sbom'[j] = sbom[j]
  \/ /\ Sign(j) /\ pc[j] = "sign" /\ pc'[j] = "attestVuln"
     /\ dig'[j] \in Digests(j) /\ dig'[j] \in signed'
     /\ ver'[j] = ver[j] /\ vuln'[j] = vuln[j] /\ sbom'[j] = sbom[j]
  \/ /\ \/ j \in Rebuilds /\ pc[j] = "build" /\ pc'[j] = "failed"
        \/ j \in Rebuilds /\ pc[j] \in Running \ {"build"} /\ pc'[j] = "gateFailed"
        \/ j \in Patches /\ pc[j] \in Running /\ pc'[j] = "failed"
     /\ ver'[j] = ver[j] /\ dig'[j] = dig[j] /\ vuln'[j] = None /\ sbom'[j] = None

\* Every step moves one run at most.
LEMMA EachRun ==
  ASSUME TypeOK, [Next]_vars, NEW j \in Runs
  PROVE  Keeps(j) \/ Moves(j)
<1>a. /\ pc \in [Runs -> {"idle"} \union Running \union Ended]
      /\ ver \in [Runs -> Versions \union {0}]
      /\ dig \in [Runs -> Images \union {None}]
      /\ vuln \in [Runs -> Images \union {None}]
      /\ sbom \in [Runs -> Images \union {None}]
      /\ upstream \in Versions /\ git \in Versions
  BY DEF TypeOK
<1> USE <1>a, RunsAssumption DEF files
<1>1. CASE UpstreamMoves \/ (\E f \in Findings : Publish(f)) \/ UNCHANGED vars
  BY <1>1 DEF UpstreamMoves, Publish, vars, Keeps
<1>2. ASSUME NEW r \in Rebuilds, RebuildStep(r) PROVE Keeps(j) \/ Moves(j)
  <2>1. CASE StartRebuild(r)
    BY <2>1 DEF StartRebuild, Keeps, Moves
  <2>2. CASE Build(r)
    <3>1. /\ pc[r] = "build" /\ pc' = [pc EXCEPT ![r] = "gate"] /\ UNCHANGED <<ver, files>>
      BY <2>2 DEF Build, Push
    <3> QED BY <2>2, <3>1 DEF Keeps, Moves, Proceeds
  <2>3. CASE RetryBuild(r) \/ MergeSync(r)
    BY <2>3 DEF RetryBuild, Push, MergeSync, Keeps
  <2>4. CASE RetryFailed(r)
    BY <2>4 DEF RetryFailed, Keeps, Moves, StartsOver
  <2>5. CASE RetryPassed(r)
    BY <2>5 DEF RetryPassed, Keeps, Moves, StartsOver
  <2> QED BY <1>2, <2>1, <2>2, <2>3, <2>4, <2>5 DEF RebuildStep
<1>3. ASSUME NEW p \in Patches, PatchStep(p) PROVE Keeps(j) \/ Moves(j)
  <2>1. CASE StartPatch(p)
    <3>1. PICK v \in Versions : ver' = [ver EXCEPT ![p] = v]
      BY <2>1 DEF StartPatch
    <3> QED BY <2>1, <3>1 DEF StartPatch, Keeps, Moves
  <2>2. CASE Scan(p)
    BY <2>2 DEF Scan, Keeps, Moves, Proceeds
  <2>3. CASE Copa(p)
    <3>1. pc[p] = "copa" /\ pc' = [pc EXCEPT ![p] = "gate"] /\ UNCHANGED <<ver, files>>
      BY <2>3 DEF Copa
    <3> QED BY <2>3, <3>1 DEF Keeps, Moves, Proceeds
  <2>4. CASE ResolveDigest(p)
    BY <2>4 DEF ResolveDigest, GateImage, Keeps, Moves
  <2>5. CASE TagHistory(p)
    BY <2>5 DEF TagHistory, Keeps, Moves, Proceeds
  <2> QED BY <1>3, <2>1, <2>2, <2>3, <2>4, <2>5 DEF PatchStep
<1>4. ASSUME NEW k \in Runs, SharedStep(k) PROVE Keeps(j) \/ Moves(j)
  <2>1. CASE Gate(k)
    <3>1. /\ pc[k] = "gate" /\ UNCHANGED <<ver, files>>
          /\ \/ pc' = [pc EXCEPT ![k] = "recordVuln"] /\ GateImage(k) \in gated'
             \/ pc' = [pc EXCEPT ![k] = IF k \in Rebuilds THEN "gateFailed" ELSE "failed"]
      BY <2>1 DEF Gate
    <3> QED BY <3>1 DEF Keeps, Moves, Proceeds
  <2>2. CASE RecordVuln(k)
    BY <2>2 DEF RecordVuln, Keeps, Moves
  <2>3. CASE RecordSbom(k)
    BY <2>3 DEF RecordSbom, Keeps, Moves
  <2>4. CASE Sign(k)
    <3>1. PICK i \in Digests(k) : /\ dig' = [dig EXCEPT ![k] = i]
                                 /\ signed' = signed \union {i}
      BY <2>4 DEF Sign
    <3>2. /\ pc[k] = "sign" /\ pc' = [pc EXCEPT ![k] = "attestVuln"]
          /\ UNCHANGED <<ver, vuln, sbom>>
      BY <2>4 DEF Sign
    <3> QED BY <2>4, <3>1, <3>2 DEF Keeps, Moves
  <2>5. CASE AttestVuln(k) \/ AttestSbom(k)
    <3>1. /\ UNCHANGED <<ver, files>>
          /\ \/ /\ AttestVuln(k) /\ pc[k] = "attestVuln"
                /\ pc' = [pc EXCEPT ![k] = "attestSbom"]
             \/ /\ AttestSbom(k) /\ pc[k] = "attestSbom"
                /\ pc' = [pc EXCEPT ![k] = "tagVersion"]
      BY <2>5 DEF AttestVuln, AttestSbom
    <3> QED BY <3>1 DEF Keeps, Moves, Proceeds
  <2>6. CASE TagVersion(k) \/ TagLine(k)
    <3>1. /\ UNCHANGED <<ver, files>>
          /\ \/ /\ TagVersion(k) /\ pc[k] = "tagVersion"
                /\ pc' = [pc EXCEPT ![k] = "tagLine"]
             \/ /\ TagLine(k) /\ pc[k] = "tagLine"
                /\ pc' = [pc EXCEPT ![k] = IF k \in Rebuilds THEN "done" ELSE "history"]
      BY <2>6 DEF TagVersion, TagLine
    <3> QED BY <3>1 DEF Keeps, Moves, Proceeds
  <2>7. CASE Fail(k)
    BY <2>7 DEF Fail, Keeps, Moves, Proceeds
  <2> QED BY <1>4, <2>1, <2>2, <2>3, <2>4, <2>5, <2>6, <2>7 DEF SharedStep
<1> QED BY <1>1, <1>2, <1>3, <1>4 DEF Next

\* Which commands write what the runs share.
LEMMA Writers ==
  ASSUME [Next]_vars
  PROVE  /\ UNCHANGED <<buildTag, builds>> \/ \E r \in Rebuilds : Pushes(r)
         /\ UNCHANGED patchedTag \/ \E p \in Patches : Copa(p)
         /\ \/ UNCHANGED <<verTag, lineTag, half, raced>>
            \/ \E j \in Runs : TagVersion(j) \/ TagLine(j)
         /\ UNCHANGED evidence \/ \E j \in Runs : Sign(j) \/ AttestVuln(j) \/ AttestSbom(j)
         /\ \/ UNCHANGED overtaken
            \/ \E r \in Rebuilds : Pushes(r)
            \/ \E p \in Patches : Copa(p)
         /\ UNCHANGED gated \/ \E j \in Runs : Gate(j)
         /\ UNCHANGED retries \/ retries' = retries + 1
<1> USE DEF environment, images, tags, evidence, files, history
<1>1. CASE UpstreamMoves \/ (\E f \in Findings : Publish(f)) \/ UNCHANGED vars
  BY <1>1 DEF UpstreamMoves, Publish, vars
<1>2. ASSUME NEW r \in Rebuilds, RebuildStep(r)
      PROVE  /\ UNCHANGED <<buildTag, builds>> \/ Pushes(r)
             /\ UNCHANGED overtaken \/ Pushes(r)
             /\ UNCHANGED <<patchedTag, verTag, lineTag, evidence, gated, half, raced>>
             /\ UNCHANGED retries \/ retries' = retries + 1
  BY <1>2 DEF RebuildStep, StartRebuild, Pushes, Build, RetryBuild, Push, RetryFailed,
              RetryPassed, MergeSync
<1>3. ASSUME NEW p \in Patches, PatchStep(p)
      PROVE  /\ UNCHANGED patchedTag \/ Copa(p)
             /\ UNCHANGED overtaken \/ Copa(p)
             /\ UNCHANGED <<buildTag, builds, retries, verTag, lineTag, evidence, gated,
                            half, raced>>
  BY <1>3 DEF PatchStep, StartPatch, Scan, Copa, ResolveDigest, TagHistory
<1>4. ASSUME NEW j \in Runs, SharedStep(j)
      PROVE  /\ UNCHANGED <<buildTag, builds, retries, patchedTag, overtaken>>
             /\ UNCHANGED <<verTag, lineTag, half, raced>> \/ TagVersion(j) \/ TagLine(j)
             /\ UNCHANGED evidence \/ Sign(j) \/ AttestVuln(j) \/ AttestSbom(j)
             /\ UNCHANGED gated \/ Gate(j)
  BY <1>4 DEF SharedStep, Gate, RecordVuln, RecordSbom, Sign, AttestVuln, AttestSbom,
              TagVersion, TagLine, Fail
<1> QED BY <1>1, <1>2, <1>3, <1>4 DEF Next

\* No step deletes a tag, and a push leaves one.
LEMMA TagsStay ==
  ASSUME TypeInv, [Next]_vars
  PROVE  /\ \A v \in Versions : /\ verTag[v] # None => verTag'[v] # None
                                /\ patchedTag[v] # None => patchedTag'[v] # None
         /\ \A t \in Versions \X Suffixes : buildTag[t] # None => buildTag'[t] # None
         /\ \A r \in Rebuilds : Pushes(r) => buildTag'[BuildTag(r)] # None
         /\ \A p \in Patches : Copa(p) => patchedTag'[ver[p]] # None
<1>a. /\ buildTag \in [Versions \X Suffixes -> Images \union {None}]
      /\ patchedTag \in [Versions -> Images \union {None}]
      /\ verTag \in [Versions -> Images \union {None}]
  BY DEF TypeInv, TypeOK
<1>1. \A v \in Versions : verTag[v] # None => verTag'[v] # None
  <2>1. CASE UNCHANGED verTag
    BY <2>1
  <2>2. ASSUME NEW j \in Runs, TagVersion(j) \/ TagLine(j), ~ UNCHANGED verTag
        PROVE  \A v \in Versions : verTag[v] # None => verTag'[v] # None
    <3>1. TagVersion(j)
      BY <2>2 DEF TagLine
    <3>2. dig[j] # None
      BY <3>1 DEF TagVersion, TypeInv, Located, DigestResolved, SignSteps
    <3> QED BY <1>a, <3>1, <3>2 DEF TagVersion
  <2> QED BY <2>1, <2>2, Writers
<1>2. ASSUME NEW p \in Patches, Copa(p)
      PROVE  /\ patchedTag'[ver[p]] # None
             /\ \A v \in Versions : patchedTag[v] # None => patchedTag'[v] # None
  <2>1. <<p, 1>> # None
    BY ImagesAssumption DEF Images
  <2>2. ver[p] \in Versions /\ patchedTag' = [patchedTag EXCEPT ![ver[p]] = <<p, 1>>]
    BY <1>2 DEF Copa, TypeInv, Located, Started
  <2> QED BY <1>a, <2>1, <2>2
<1>3. ASSUME NEW r \in Rebuilds, Pushes(r)
      PROVE  /\ buildTag'[BuildTag(r)] # None
             /\ \A t \in Versions \X Suffixes : buildTag[t] # None => buildTag'[t] # None
  <2>1. BuildTag(r) \in Versions \X Suffixes /\ <<r, builds[r] + 1>> # None
    BY <1>3, PushTyped, ImagesAssumption
  <2>2. buildTag' = [buildTag EXCEPT ![BuildTag(r)] = <<r, builds[r] + 1>>]
    BY <1>3 DEF Pushes, Build, RetryBuild, Push
  <2> QED BY <1>a, <2>1, <2>2
<1> QED BY <1>1, <1>2, <1>3, Writers

\* Tags are never deleted and files never emptied before they are read, so what
\* a later command reads is still there.
LEMMA NextLocated == TypeInv /\ [Next]_vars => Located'
<1> SUFFICES ASSUME TypeInv, TypeOK', [Next]_vars PROVE Located'
  BY NextTypeOK
<1>a. TypeOK /\ Located
  BY DEF TypeInv
<1>b. \A j \in Runs : Keeps(j) \/ Moves(j)
  BY <1>a, EachRun
<1>c. \A j \in Runs : pc[j] \in GateSteps \union {"digest"} => GateImage(j) # None
  BY GateImageExists, ImagesAssumption
<1>d. \A j \in Runs : pc[j] = "sign" => None \notin Digests(j)
  BY DigestsAreImages, ImagesAssumption
<1> USE RunsAssumption DEF Located
<1>1. Started'
  BY <1>a, <1>b DEF Started, Keeps, Moves, Proceeds, StartsOver, Running, GateSteps, SignSteps
<1>2. ASSUME NEW r \in Rebuilds
      PROVE  /\ builds'[r] <= retries' + 1
             /\ pc'[r] \in {"idle", "build", "failed"} <=> builds'[r] = 0
  <2>1. /\ builds \in [Rebuilds -> 0..(MaxRetries + 1)]
        /\ retries \in 0..MaxRetries /\ retries' \in 0..MaxRetries
        /\ builds[r] <= retries + 1
        /\ pc[r] \in {"idle", "build", "failed"} <=> builds[r] = 0
    BY <1>a DEF BuildsCounted, TypeOK
  <2>2. CASE Pushes(r)
    <3>1. builds'[r] \in 1..(MaxRetries + 1) /\ builds'[r] <= retries' + 1
      BY <2>2, PushTyped
    <3>2. pc'[r] \notin {"idle", "build", "failed"}
      <4>1. CASE Build(r)
        BY <1>a, <4>1 DEF Build, TypeOK
      <4>2. CASE RetryBuild(r)
        BY <2>1, <4>2, RetriesAssumption DEF RetryBuild
      <4> QED BY <2>2, <4>1, <4>2 DEF Pushes
    <3> QED BY <3>1, <3>2, RetriesAssumption
  <2>3. CASE ~ Pushes(r)
    <3>1. builds'[r] = builds[r]
      <4>1. ASSUME NEW s \in Rebuilds \ {r}, Pushes(s) PROVE builds'[r] = builds[r]
        BY <2>1, <4>1 DEF Pushes, Build, RetryBuild, Push
      <4> QED BY <2>3, <4>1, Writers
    <3>2. builds'[r] <= retries' + 1
      BY <2>1, <3>1, Writers, RetriesAssumption
    <3>3. pc'[r] \in {"idle", "build", "failed"} <=> builds[r] = 0
      BY <1>b, <2>1, <2>3 DEF Keeps, Moves, Proceeds, StartsOver, Pushes, Running, GateSteps,
                              SignSteps
    <3> QED BY <3>1, <3>2, <3>3
  <2> QED BY <2>2, <2>3
<1>3. SourceExists'
  <2> SUFFICES ASSUME NEW p \in Patches, pc'[p] = "copa" PROVE verTag'[ver'[p]] # None
    BY DEF SourceExists
  <2>1. ver'[p] = ver[p] /\ verTag[ver[p]] # None /\ ver[p] \in Versions
    BY <1>a, <1>b DEF SourceExists, Started, Keeps, Moves, Proceeds, StartsOver
  <2> QED BY <2>1, TagsStay
<1>4. ASSUME NEW r \in Rebuilds, builds'[r] > 0 PROVE (buildTag[BuildTag(r)] # None)'
  <2>1. builds[r] > 0 \/ Pushes(r)
    <3>1. ASSUME NEW s \in Rebuilds \ {r}, Pushes(s) PROVE builds'[r] = builds[r]
      BY <1>a, <3>1 DEF Pushes, Build, RetryBuild, Push, TypeOK
    <3> QED BY <1>4, <3>1, Writers
  <2>2. pc[r] # "idle" /\ builds \in [Rebuilds -> 0..(MaxRetries + 1)]
    BY <1>a, <2>1 DEF BuildsCounted, TypeOK, Pushes, Build, RetryBuild
  <2>3. ver'[r] = ver[r] /\ ver[r] \in Versions
    BY <1>a, <1>b, <2>2 DEF Started, Keeps, Moves
  <2>4. BuildTag(r)' = BuildTag(r) /\ BuildTag(r) \in Versions \X Suffixes
    BY <2>3 DEF BuildTag
  <2>5. buildTag'[BuildTag(r)] # None
    BY <1>a, <2>1, <2>4, TagsStay DEF BuildTagExists
  <2> QED BY <2>4, <2>5
<1>5. PatchedTagExists'
  <2> SUFFICES ASSUME NEW p \in Patches, pc'[p] \in GateSteps \union {"digest"}
               PROVE  patchedTag'[ver'[p]] # None
    BY DEF PatchedTagExists
  <2>1. /\ ver'[p] = ver[p] /\ pc[p] # "idle"
        /\ Copa(p) \/ pc[p] \in GateSteps \union {"digest"}
    BY <1>b DEF Keeps, Moves, Proceeds, StartsOver, GateSteps
  <2>2. ver[p] \in Versions
    BY <1>a, <2>1 DEF Started
  <2> QED BY <1>a, <2>1, <2>2, TagsStay DEF PatchedTagExists
<1>6. RecordsWritten'
  BY <1>a, <1>b, <1>c DEF RecordsWritten, Keeps, Moves, Proceeds, StartsOver, GateSteps
<1>7. SignInputs'
  BY <1>a, <1>b, <1>c DEF RecordsWritten, SignInputs, Keeps, Moves, Proceeds, StartsOver,
                          GateSteps, SignSteps
<1>8. DigestResolved'
  BY <1>a, <1>b, <1>c, <1>d DEF DigestResolved, Keeps, Moves, Proceeds, StartsOver, GateSteps,
                                SignSteps
<1> QED BY <1>1, <1>2, <1>3, <1>4, <1>5, <1>6, <1>7, <1>8 DEF BuildsCounted, BuildTagExists

\* Every variable keeps its type and no script step reads a tag that does not
\* exist or attests a file that was not written.
THEOREM Typing == Spec => []TypeInv
<1>1. TypeInv /\ [Next]_vars => TypeInv'
  BY NextTypeOK, NextLocated DEF TypeInv
<1> QED BY InitTypeInv, <1>1, PTL DEF Spec

\* Tags, evidence and files only ever hold images, None where one may be
\* missing, and every run is at one of its script's commands.
THEOREM AlwaysTyped == Spec => []TypeOK
<1>1. TypeInv => TypeOK
  BY DEF TypeInv
<1> QED BY Typing, <1>1, PTL

-----------------------------------------------------------------------------
(* Promoted images are admissible *)

\* What sign.sh has left behind on the digest when it reaches each command.
Evidenced ==
  \A j \in Runs :
    /\ pc[j] \in {"attestVuln", "attestSbom", "tagVersion", "tagLine", "history"}
         => dig[j] \in signed
    /\ pc[j] \in {"attestSbom", "tagVersion", "tagLine", "history"}
         => vulnAtt[dig[j]] # {}
    /\ pc[j] \in {"tagVersion", "tagLine", "history"} => sbomAtt[dig[j]] # {}

PromotionInv == Evidenced /\ PromotedIsAdmissible

\* The seed image has been signed, attested and promoted.
LEMMA InitPromotionInv == Init => PromotionInv
<1> SUFFICES ASSUME Init PROVE PromotionInv
  OBVIOUS
<1>1. Evidenced
  BY DEF Init, Evidenced
<1>2. Promoted \subseteq {Seed}
  BY DEF Init, Promoted
<1>3. Admissible(Seed)
  BY DEF Init, Admissible, Images
<1> QED BY <1>1, <1>2, <1>3 DEF PromotionInv, PromotedIsAdmissible

\* Evidence only grows, so what is admissible stays admissible.
LEMMA EvidenceGrows ==
  ASSUME TypeInv, [Next]_vars
  PROVE  \A i \in Images : /\ i \in signed => i \in signed'
                           /\ vulnAtt[i] \subseteq vulnAtt'[i]
                           /\ sbomAtt[i] \subseteq sbomAtt'[i]
<1>a. vulnAtt \in [Images -> SUBSET Images] /\ sbomAtt \in [Images -> SUBSET Images]
  BY DEF TypeInv, TypeOK
<1>1. CASE UNCHANGED evidence
  BY <1>1 DEF evidence
<1>2. ASSUME NEW j \in Runs, Sign(j) \/ AttestVuln(j) \/ AttestSbom(j)
      PROVE  \A i \in Images : /\ i \in signed => i \in signed'
                              /\ vulnAtt[i] \subseteq vulnAtt'[i]
                              /\ sbomAtt[i] \subseteq sbomAtt'[i]
  BY <1>a, <1>2 DEF Sign, AttestVuln, AttestSbom
<1> QED BY <1>1, <1>2, Writers

\* Each command of sign.sh leaves on the digest what the next one relies on.
LEMMA NextEvidenced == TypeInv /\ Evidenced /\ [Next]_vars => Evidenced'
<1> SUFFICES ASSUME TypeInv, Evidenced, [Next]_vars, NEW j \in Runs
             PROVE  Evidenced!(j)'
  BY DEF Evidenced
<1>a. /\ dig[j] \in Images \union {None}
      /\ vulnAtt \in [Images -> SUBSET Images] /\ sbomAtt \in [Images -> SUBSET Images]
  BY DEF TypeInv, TypeOK
<1> DEFINE Signing == {"attestVuln", "attestSbom", "tagVersion", "tagLine", "history"}
<1>b. pc[j] \in Signing => dig[j] \in Images /\ (pc[j] # "history" => vuln[j] # None /\ sbom[j] # None)
  BY <1>a DEF TypeInv, Located, SignInputs, DigestResolved, SignSteps
<1>c. dig[j] \in Images => /\ dig[j] \in signed => dig[j] \in signed'
                           /\ vulnAtt[dig[j]] \subseteq vulnAtt'[dig[j]]
                           /\ sbomAtt[dig[j]] \subseteq sbomAtt'[dig[j]]
  BY EvidenceGrows
<1>1. CASE Keeps(j)
  BY <1>1, <1>b, <1>c DEF Keeps, Evidenced
<1>2. CASE Moves(j)
  <2>1. AttestVuln(j) => vulnAtt'[dig[j]] # {}
    BY <1>a, <1>b DEF AttestVuln
  <2>2. AttestSbom(j) => sbomAtt'[dig[j]] # {}
    BY <1>a, <1>b DEF AttestSbom
  <2> QED
    BY <1>2, <1>b, <1>c, <2>1, <2>2 DEF Moves, Proceeds, StartsOver, Evidenced
<1> QED BY <1>1, <1>2, EachRun DEF TypeInv

\* The two commands that promote move a tag to the digest of their run.
LEMMA PromotedGrows ==
  ASSUME TypeInv, [Next]_vars, NEW i \in Promoted'
  PROVE  i \in Promoted \/ \E j \in Runs : (TagVersion(j) \/ TagLine(j)) /\ i = dig[j]
<1>a. verTag \in [Versions -> Images \union {None}]
  BY DEF TypeInv, TypeOK
<1>1. CASE UNCHANGED <<verTag, lineTag>>
  BY <1>1 DEF Promoted
<1>2. ASSUME NEW j \in Runs, TagVersion(j)
      PROVE  i \in Promoted \/ i = dig[j]
  BY <1>a, <1>2 DEF TagVersion, Promoted
<1>3. ASSUME NEW j \in Runs, TagLine(j)
      PROVE  i \in Promoted \/ i = dig[j]
  BY <1>3 DEF TagLine, Promoted
<1> QED BY <1>1, <1>2, <1>3, Writers

\* A tag only moves to a digest whose evidence is complete.
LEMMA NextPromoted ==
  TypeInv /\ PromotionInv /\ [Next]_vars => PromotedIsAdmissible'
<1> SUFFICES ASSUME TypeInv, PromotionInv, [Next]_vars, NEW i \in Promoted'
             PROVE  Admissible(i)'
  BY DEF PromotedIsAdmissible
<1>1. i \in Images /\ Admissible(i)
  <2>1. CASE i \in Promoted
    BY <2>1 DEF PromotionInv, PromotedIsAdmissible, Promoted, TypeInv, TypeOK
  <2>2. ASSUME NEW j \in Runs, TagVersion(j) \/ TagLine(j), i = dig[j]
        PROVE  i \in Images /\ Admissible(i)
    <3>1. pc[j] \in {"tagVersion", "tagLine"}
      BY <2>2 DEF TagVersion, TagLine
    <3>2. signed \subseteq Images
      BY DEF TypeInv, TypeOK
    <3> QED BY <2>2, <3>1, <3>2 DEF PromotionInv, Evidenced, Admissible
  <2> QED BY <2>1, <2>2, PromotedGrows
<1> QED BY <1>1, EvidenceGrows DEF Admissible

\* Whatever runs interleave, fail and are retried: a version tag or the line tag
\* only ever points at an image that is signed and carries both attestations.
THEOREM PromotedAlwaysAdmissible == Spec => []PromotedIsAdmissible
<1>1. TypeInv /\ PromotionInv /\ [Next]_vars => PromotionInv'
  BY NextEvidenced, NextPromoted DEF PromotionInv
<1>2. PromotionInv => PromotedIsAdmissible
  BY DEF PromotionInv
<1> QED BY InitPromotionInv, Typing, <1>1, <1>2, PTL DEF Spec

-----------------------------------------------------------------------------
(* The pipeline implements TrustedPromotion *)

\* Every behaviour of the pipeline is one of TrustedPromotion: evidence is never
\* taken back, and sign.sh moves tags one at a time, to certified images only.
THEOREM Refinement == Spec => ImplementsTrustedPromotion
<1> DEFINE certified == {i \in Images : Admissible(i)}
<1>1. Init => TP!Init
  <2> SUFFICES ASSUME Init PROVE TP!Init
    OBVIOUS
  <2>1. Seed \in certified
    BY DEF Init, Admissible, Images
  <2> QED BY <2>1 DEF Init, TP!Init
<1>2. TypeInv /\ PromotionInv /\ [Next]_vars => [TP!Next]_(TP!vars)
  <2> SUFFICES ASSUME TypeInv, PromotionInv, [Next]_vars
               PROVE  TP!Next \/ UNCHANGED <<certified, verTag, lineTag>>
    BY DEF TP!vars
  <2>1. CASE UNCHANGED <<evidence, verTag, lineTag>>
    BY <2>1 DEF evidence, Admissible
  <2>2. ASSUME NEW j \in Runs, Sign(j) \/ AttestVuln(j) \/ AttestSbom(j)
        PROVE  TP!Next \/ UNCHANGED <<certified, verTag, lineTag>>
    <3>1. PICK d \in Images : \A i \in Images \ {d} : Admissible(i)' <=> Admissible(i)
      <4>1. CASE Sign(j)
        <5>1. PICK d \in Digests(j) : signed' = signed \union {d}
          BY <4>1 DEF Sign
        <5>2. d \in Images
          BY <4>1, DigestsAreImages DEF Sign
        <5>3. UNCHANGED <<vulnAtt, sbomAtt>>
          BY <4>1 DEF Sign
        <5> QED BY <5>1, <5>2, <5>3 DEF Admissible
      <4>2. CASE AttestVuln(j) \/ AttestSbom(j)
        <5>1. dig[j] \in Images \union {None} /\ dig[j] # None
          BY <4>2 DEF TypeInv, TypeOK, Located, DigestResolved, SignSteps, AttestVuln,
                      AttestSbom
        <5>2. /\ vulnAtt \in [Images -> SUBSET Images]
              /\ sbomAtt \in [Images -> SUBSET Images]
          BY DEF TypeInv, TypeOK
        <5>3. \A i \in Images \ {dig[j]} : Admissible(i)' <=> Admissible(i)
          BY <4>2, <5>2 DEF Admissible, AttestVuln, AttestSbom
        <5> QED BY <5>1, <5>3
      <4> QED BY <2>2, <4>1, <4>2
    <3>2. Admissible(d) => d \in certified'
      BY EvidenceGrows DEF Admissible
    <3>3. UNCHANGED <<verTag, lineTag>>
      BY <2>2 DEF Sign, AttestVuln, AttestSbom, tags
    <3>4. certified' \in {certified, certified \union {d}}
      BY <3>1, <3>2
    <3> QED BY <3>3, <3>4 DEF TP!Next, TP!Certify
  <2>3. ASSUME NEW j \in Runs, TagVersion(j) \/ TagLine(j)
        PROVE  TP!Next
    <3>1. dig[j] \in certified /\ ver[j] \in Versions
      <4>1. pc[j] \in {"tagVersion", "tagLine"}
        BY <2>3 DEF TagVersion, TagLine
      <4>2. signed \subseteq Images /\ ver[j] \in Versions
        BY <4>1 DEF TypeInv, TypeOK, Located, Started
      <4> QED BY <4>1, <4>2 DEF PromotionInv, Evidenced, Admissible
    <3>2. UNCHANGED certified
      BY <2>3 DEF TagVersion, TagLine, evidence, Admissible
    <3>3. CASE TagVersion(j)
      BY <3>1, <3>2, <3>3 DEF TagVersion, tags, TP!Next, TP!PromoteVersion
    <3>4. CASE TagLine(j)
      BY <3>1, <3>2, <3>4 DEF TagLine, tags, TP!Next, TP!PromoteLine
    <3> QED BY <2>3, <3>3, <3>4
  <2> QED BY <2>1, <2>2, <2>3, Writers
<1>3. TypeInv /\ PromotionInv /\ [Next]_vars => PromotionInv'
  BY NextEvidenced, NextPromoted DEF PromotionInv
<1> QED BY InitPromotionInv, Typing, <1>1, <1>2, <1>3, PTL
        DEF Spec, ImplementsTrustedPromotion, TP!Spec

-----------------------------------------------------------------------------
(* What is promoted was gated, unless the run was overtaken at its tag *)

Resolved == {"history"} \union (SignSteps \ {"sign"})
Recorded == {"digest", "sign", "signFailed", "done"} \union Resolved
Scanned == {"recordVuln", "recordSbom"} \union Recorded

\* A patch resolves its digest once, after its gate; a sign job's is one of its
\* pipeline's own builds.
PatchDigestOnce ==
  \A p \in Patches : pc[p] \in {"idle", "scan", "copa", "digest"} \union GateSteps
                       => dig[p] = None
OwnBuilds == \A r \in Rebuilds : pc[r] \in Resolved => dig[r] \in BuildsOf(r)

\* Nobody pushes to the tag of a run that is not overtaken, itself included, so
\* gate, records and digest are about its one image.
OneBuild == \A r \in Rebuilds \ overtaken : builds[r] <= 1
OwnBuildTag ==
  \A r \in Rebuilds \ overtaken : builds[r] > 0 => buildTag[BuildTag(r)] = <<r, 1>>
OwnPatchedTag ==
  \A p \in Patches \ overtaken :
    pc[p] \in GateSteps \union {"digest"} => patchedTag[ver[p]] = <<p, 1>>
OwnGate == \A j \in Runs \ overtaken : pc[j] \in Scanned => <<j, 1>> \in gated
OwnVuln ==
  \A j \in Runs \ overtaken : pc[j] \in {"recordSbom"} \union Recorded => vuln[j] = <<j, 1>>
OwnSbom == \A j \in Runs \ overtaken : pc[j] \in Recorded => sbom[j] = <<j, 1>>
OwnDigest ==
  \A j \in Runs \ overtaken :
    pc[j] \in Resolved \/ (pc[j] = "sign" /\ j \in Patches) => dig[j] = <<j, 1>>

OwnTags ==
  /\ PatchDigestOnce /\ OwnBuilds
  /\ OneBuild /\ OwnBuildTag /\ OwnPatchedTag
  /\ OwnGate /\ OwnVuln /\ OwnSbom /\ OwnDigest

GatedInv == OwnTags /\ GatedUnlessOvertaken /\ AttestsItself

\* The seed image passed its gate and carries its own records.
LEMMA InitGatedInv == Init => GatedInv
<1> SUFFICES ASSUME Init PROVE GatedInv
  OBVIOUS
<1>a. /\ \A j \in Runs : pc[j] = "idle" /\ dig[j] = None
      /\ \A r \in Rebuilds : builds[r] = 0
  BY DEF Init
<1>1. PatchDigestOnce /\ OwnBuilds /\ OneBuild /\ OwnBuildTag /\ OwnPatchedTag
  BY <1>a DEF PatchDigestOnce, OwnBuilds, OneBuild, OwnBuildTag, OwnPatchedTag, Resolved,
              GateSteps, SignSteps
<1>2. OwnGate /\ OwnVuln /\ OwnSbom /\ OwnDigest
  BY <1>a DEF OwnGate, OwnVuln, OwnSbom, OwnDigest, Resolved, Recorded, Scanned, SignSteps
<1>3. GatedUnlessOvertaken
  BY DEF Init, GatedUnlessOvertaken, Promoted
<1>4. AttestsItself
  BY DEF Init, AttestsItself
<1> QED BY <1>1, <1>2, <1>3, <1>4 DEF GatedInv, OwnTags

\* A push overtakes the rebuilds that have pushed to the tag, a patch the other
\* patches that have yet to resolve the version's.
LEMMA Overtaking ==
  ASSUME [Next]_vars
  PROVE  /\ overtaken \subseteq overtaken'
         /\ \A r, s \in Rebuilds : Pushes(r) /\ builds[s] > 0 /\ BuildTag(s) = BuildTag(r)
                                     => s \in overtaken'
         /\ \A p, q \in Patches : /\ Copa(p) /\ q # p /\ ver[q] = ver[p]
                                  /\ pc[q] \in GateSteps \union {"digest"}
                                  => q \in overtaken'
<1>1. ASSUME NEW r \in Rebuilds, Pushes(r)
      PROVE  overtaken' = overtaken \union
               {s \in Rebuilds : builds[s] > 0 /\ BuildTag(s) = BuildTag(r)}
  BY <1>1 DEF Pushes, Build, RetryBuild, Push
<1>2. ASSUME NEW p \in Patches, Copa(p)
      PROVE  overtaken' = overtaken \union
               {q \in Patches \ {p} : pc[q] \in GateSteps \union {"digest"} /\ ver[q] = ver[p]}
  BY <1>2 DEF Copa
<1> QED BY <1>1, <1>2, Writers

\* The images that a run has taken it keeps.
LEMMA TakenByStays ==
  ASSUME TypeInv, OwnTags, [Next]_vars, NEW j \in Runs
  PROVE  TakenBy(j) \subseteq TakenBy(j)'
<1>1. CASE j \in Rebuilds
  <2>1. builds[j] \in Nat /\ builds \in [Rebuilds -> 0..(MaxRetries + 1)]
    BY <1>1, RetriesAssumption DEF TypeInv, TypeOK
  <2>2. builds'[j] = builds[j] \/ builds'[j] = builds[j] + 1
    <3>1. ASSUME NEW s \in Rebuilds \ {j}, Pushes(s) PROVE builds'[j] = builds[j]
      BY <1>1, <2>1, <3>1 DEF Pushes, Build, RetryBuild, Push
    <3> QED BY <1>1, <3>1, PushTyped, Writers
  <2> QED BY <1>1, <2>1, <2>2 DEF TakenBy, BuildsOf
<1>2. CASE j \notin Rebuilds
  <2>1. dig'[j] = dig[j] \/ dig[j] = None
    BY <1>2, EachRun DEF TypeInv, Keeps, Moves, Digests, OwnTags, PatchDigestOnce
  <2> QED BY <1>2, <2>1 DEF TakenBy
<1> QED BY <1>1, <1>2

\* So do the images that overtaken runs have taken.
LEMMA TakenStays ==
  ASSUME TypeInv, OwnTags, [Next]_vars
  PROVE  Excused \subseteq Excused'
<1>1. overtaken \subseteq overtaken' /\ overtaken \subseteq Runs
  BY Overtaking DEF TypeInv, TypeOK
<1> QED BY <1>1, TakenByStays DEF Excused

\* A run that no push overtakes keeps its tag, and its gate, records and digest
\* are about the image there.
LEMMA NextOwnTags ==
  ASSUME TypeInv, OwnTags, [Next]_vars
  PROVE  OwnTags'
<1>a. TypeOK /\ Located
  BY DEF TypeInv
<1>b. \A j \in Runs : Keeps(j) \/ Moves(j)
  BY <1>a, EachRun
<1>c. \A r \in Rebuilds : /\ builds[r] \in Nat
                          /\ pc[r] \in {"idle", "build", "failed"} <=> builds[r] = 0
  BY <1>a, RetriesAssumption DEF TypeOK, Located, BuildsCounted
<1>d. overtaken \subseteq overtaken' /\ overtaken \subseteq Runs
  BY <1>a, Overtaking DEF TypeOK
<1>e. \A j \in Runs : pc[j] # "idle" => ver[j] \in Versions
  BY <1>a DEF Located, Started
<1> USE RunsAssumption
<1>1. PatchDigestOnce'
  BY <1>b DEF OwnTags, PatchDigestOnce, Keeps, Moves, Proceeds, StartsOver, GateSteps,
              SignSteps
<1>2. ASSUME NEW r \in Rebuilds
      PROVE  /\ ~ Pushes(r) => builds'[r] = builds[r]
             /\ Pushes(r) => builds'[r] = builds[r] + 1
             /\ BuildsOf(r) \subseteq BuildsOf(r)'
  <2>1. CASE Pushes(r)
    <3>1. builds'[r] = builds[r] + 1
      BY <2>1, PushTyped
    <3> QED BY <1>c, <2>1, <3>1 DEF BuildsOf
  <2>2. ASSUME NEW s \in Rebuilds \ {r}, Pushes(s) PROVE builds'[r] = builds[r]
    BY <1>a, <2>2 DEF Pushes, Build, RetryBuild, Push, TypeOK
  <2> QED BY <2>1, <2>2, Writers DEF BuildsOf
<1>3. OwnBuilds'
  <2> SUFFICES ASSUME NEW r \in Rebuilds, pc'[r] \in Resolved PROVE dig'[r] \in BuildsOf(r)'
    BY DEF OwnBuilds
  <2>1. \/ pc[r] \in Resolved /\ dig'[r] = dig[r]
        \/ pc[r] = "sign" /\ dig'[r] \in BuildsOf(r)
    BY <1>b DEF Keeps, Moves, Proceeds, StartsOver, Digests, Resolved, GateSteps, SignSteps
  <2> QED BY <1>2, <2>1 DEF OwnTags, OwnBuilds
<1>4. ASSUME NEW r \in Rebuilds \ overtaken'
      PROVE  /\ builds'[r] <= 1
             /\ builds'[r] > 0 => buildTag'[BuildTag(r)'] = <<r, 1>>
  <2>1. r \notin overtaken /\ builds[r] \in Nat
    BY <1>c, <1>d
  <2>2. CASE Pushes(r)
    <3>1. builds[r] = 0 /\ builds'[r] = 1
      BY <1>2, <2>1, <2>2, Overtaking
    <3>2. /\ buildTag' = [buildTag EXCEPT ![BuildTag(r)] = <<r, builds[r] + 1>>]
          /\ ver' = ver
      BY <2>2 DEF Pushes, Build, RetryBuild, Push
    <3>3. BuildTag(r) \in Versions \X Suffixes
      BY <2>2, PushTyped
    <3> QED BY <1>a, <3>1, <3>2, <3>3 DEF BuildTag, TypeOK
  <2>3. CASE ~ Pushes(r)
    <3>1. builds'[r] = builds[r]
      BY <1>2, <2>3
    <3>2. ASSUME builds[r] > 0 PROVE buildTag'[BuildTag(r)'] = <<r, 1>>
      <4>1. buildTag[BuildTag(r)] = <<r, 1>>
        BY <2>1, <3>2 DEF OwnTags, OwnBuildTag
      <4>2. ver[r] \in Versions /\ ver'[r] = ver[r]
        BY <1>b, <1>c, <1>e, <3>2 DEF Keeps, Moves
      <4>3. BuildTag(r)' = BuildTag(r)
        BY <4>2 DEF BuildTag
      <4>4. ASSUME NEW s \in Rebuilds, Pushes(s)
            PROVE  buildTag'[BuildTag(r)] = buildTag[BuildTag(r)]
        <5>1. BuildTag(s) # BuildTag(r)
          BY <3>2, <4>4, Overtaking
        <5>2. buildTag' = [buildTag EXCEPT ![BuildTag(s)] = <<s, builds[s] + 1>>]
          BY <4>4 DEF Pushes, Build, RetryBuild, Push
        <5>3. BuildTag(r) \in Versions \X Suffixes
          BY <4>2 DEF BuildTag
        <5> QED BY <1>a, <5>1, <5>2, <5>3 DEF TypeOK
      <4> QED BY <4>1, <4>3, <4>4, Writers
    <3> QED BY <2>1, <3>1, <3>2 DEF OwnTags, OneBuild
  <2> QED BY <2>2, <2>3
<1>5. ASSUME NEW p \in Patches \ overtaken', pc'[p] \in GateSteps \union {"digest"}
      PROVE  patchedTag'[ver'[p]] = <<p, 1>>
  <2>1. /\ ver'[p] = ver[p] /\ pc[p] # "idle"
        /\ Copa(p) \/ pc[p] \in GateSteps \union {"digest"}
    BY <1>5, <1>b DEF Keeps, Moves, Proceeds, StartsOver, GateSteps
  <2>2. ver[p] \in Versions /\ patchedTag \in [Versions -> Images \union {None}]
    BY <1>a, <1>e, <2>1 DEF TypeOK
  <2>3. CASE Copa(p)
    BY <2>1, <2>2, <2>3 DEF Copa
  <2>4. CASE pc[p] \in GateSteps \union {"digest"}
    <3>1. patchedTag[ver[p]] = <<p, 1>>
      BY <1>d, <2>4 DEF OwnTags, OwnPatchedTag
    <3>2. ASSUME NEW q \in Patches \ {p}, Copa(q) PROVE patchedTag'[ver[p]] = patchedTag[ver[p]]
      <4>1. ver[q] # ver[p]
        BY <2>4, <3>2, Overtaking
      <4> QED BY <2>2, <3>2, <4>1 DEF Copa
    <3> QED BY <2>1, <2>3, <3>1, <3>2, Writers
  <2> QED BY <2>1, <2>3, <2>4
<1>6. ASSUME NEW j \in Runs \ overtaken, pc[j] \in GateSteps \union {"digest"}
      PROVE  GateImage(j) = <<j, 1>>
  <2>1. CASE j \in Rebuilds
    <3>1. builds[j] > 0
      BY <1>6, <1>c, <2>1 DEF GateSteps
    <3> QED BY <2>1, <3>1 DEF OwnTags, OwnBuildTag, GateImage
  <2>2. CASE j \in Patches
    BY <1>6, <2>2 DEF OwnTags, OwnPatchedTag, GateImage
  <2> QED BY <2>1, <2>2
<1>7. ASSUME NEW j \in Runs \ overtaken'
      PROVE  /\ pc'[j] \in Scanned => <<j, 1>> \in gated'
             /\ pc'[j] \in {"recordSbom"} \union Recorded => vuln'[j] = <<j, 1>>
             /\ pc'[j] \in Recorded => sbom'[j] = <<j, 1>>
             /\ pc'[j] \in Resolved \/ (pc'[j] = "sign" /\ j \in Patches)
                  => dig'[j] = <<j, 1>>
  <2>1. j \notin overtaken /\ (Keeps(j) \/ Moves(j))
    BY <1>b, <1>d
  <2>2. gated \subseteq gated'
    BY Writers DEF Gate
  <2>3. pc[j] \in GateSteps \union {"digest"} => GateImage(j) = <<j, 1>>
    BY <1>6, <2>1
  <2>4. j \in Rebuilds /\ Sign(j) => BuildsOf(j) \subseteq {<<j, 1>>}
    BY <1>c, <2>1 DEF OwnTags, OneBuild, BuildsOf
  <2>5. pc'[j] \in Scanned => <<j, 1>> \in gated'
    BY <2>1, <2>2, <2>3 DEF OwnTags, OwnGate, Keeps, Moves, Proceeds, StartsOver, GateSteps,
                            SignSteps, Resolved, Recorded, Scanned
  <2>6. pc'[j] \in {"recordSbom"} \union Recorded => vuln'[j] = <<j, 1>>
    BY <2>1, <2>3 DEF OwnTags, OwnVuln, Keeps, Moves, Proceeds, StartsOver, GateSteps,
                      SignSteps, Resolved, Recorded
  <2>7. pc'[j] \in Recorded => sbom'[j] = <<j, 1>>
    BY <2>1, <2>3 DEF OwnTags, OwnSbom, Keeps, Moves, Proceeds, StartsOver, GateSteps,
                      SignSteps, Resolved, Recorded
  <2>8. pc'[j] \in Resolved \/ (pc'[j] = "sign" /\ j \in Patches) => dig'[j] = <<j, 1>>
    BY <2>1, <2>3, <2>4 DEF OwnTags, OwnDigest, Digests, Keeps, Moves, Proceeds, StartsOver,
                            GateSteps, SignSteps, Resolved
  <2> QED BY <2>5, <2>6, <2>7, <2>8
<1>8. OneBuild' /\ OwnBuildTag' /\ OwnPatchedTag'
  BY <1>4, <1>5 DEF OneBuild, OwnBuildTag, OwnPatchedTag
<1>9. OwnGate' /\ OwnVuln' /\ OwnSbom' /\ OwnDigest'
  BY <1>7 DEF OwnGate, OwnVuln, OwnSbom, OwnDigest
<1> QED BY <1>1, <1>3, <1>8, <1>9 DEF OwnTags

\* What is tagged or attested on is the image of a run that gated it, or one
\* that an overtaken run has taken.
LEMMA DigestAccounted ==
  ASSUME TypeInv, OwnTags, NEW j \in Runs, pc[j] \in Resolved
  PROVE  \/ /\ j \notin overtaken
            /\ dig[j] = <<j, 1>> /\ <<j, 1>> \in gated
            /\ vuln[j] = <<j, 1>> /\ sbom[j] = <<j, 1>>
         \/ dig[j] \in Excused
<1>1. CASE j \notin overtaken
  BY <1>1 DEF OwnTags, OwnGate, OwnVuln, OwnSbom, OwnDigest, Recorded, Scanned
<1>2. CASE j \in overtaken
  <2>1. dig[j] # None
    BY DEF TypeInv, Located, DigestResolved, Resolved
  <2>2. dig[j] \in TakenBy(j)
    BY <2>1, RunsAssumption DEF OwnTags, OwnBuilds, TakenBy
  <2> QED BY <1>2, <2>2 DEF Excused
<1> QED BY <1>1, <1>2

\* What is tagged is a digest that its run gated, and what is attached to it are
\* the records of its own scans, but for the images of overtaken runs.
LEMMA NextGated ==
  ASSUME TypeInv, GatedInv, [Next]_vars
  PROVE  GatedUnlessOvertaken' /\ AttestsItself'
<1>a. gated \subseteq gated' /\ Excused \subseteq Excused'
  BY Writers, TakenStays DEF Gate, GatedInv
<1>1. ASSUME NEW i \in Promoted' PROVE i \in gated' \union Excused'
  <2>1. CASE i \in Promoted
    BY <1>a, <2>1 DEF GatedInv, GatedUnlessOvertaken
  <2>2. ASSUME NEW j \in Runs, TagVersion(j) \/ TagLine(j), i = dig[j]
        PROVE  i \in gated' \union Excused'
    <3>1. pc[j] \in Resolved
      BY <2>2 DEF TagVersion, TagLine, Resolved, SignSteps
    <3> QED BY <1>a, <2>2, <3>1, DigestAccounted DEF GatedInv
  <2> QED BY <2>1, <2>2, PromotedGrows
<1>2. ASSUME NEW i \in Images, i \notin Excused'
      PROVE  vulnAtt'[i] \subseteq {i} /\ sbomAtt'[i] \subseteq {i}
  <2>1. vulnAtt[i] \subseteq {i} /\ sbomAtt[i] \subseteq {i}
    BY <1>a, <1>2 DEF GatedInv, AttestsItself
  <2>2. CASE UNCHANGED <<vulnAtt, sbomAtt>>
    BY <2>1, <2>2
  <2>3. ASSUME NEW j \in Runs, AttestVuln(j) \/ AttestSbom(j)
        PROVE  vulnAtt'[i] \subseteq {i} /\ sbomAtt'[i] \subseteq {i}
    <3>1. pc[j] \in Resolved
      BY <2>3 DEF AttestVuln, AttestSbom, Resolved, SignSteps
    <3>2. dig[j] = i => vuln[j] = i /\ sbom[j] = i
      BY <1>a, <1>2, <3>1, DigestAccounted DEF GatedInv
    <3>3. vulnAtt \in [Images -> SUBSET Images] /\ sbomAtt \in [Images -> SUBSET Images]
      BY DEF TypeInv, TypeOK
    <3> QED BY <2>1, <2>3, <3>2, <3>3 DEF AttestVuln, AttestSbom
  <2>4. ASSUME NEW j \in Runs, Sign(j) PROVE UNCHANGED <<vulnAtt, sbomAtt>>
    BY <2>4 DEF Sign
  <2> QED BY <2>2, <2>3, <2>4, Writers DEF evidence
<1> QED BY <1>1, <1>2 DEF GatedUnlessOvertaken, AttestsItself

\* Although the gate is handed a tag and signing a digest: every promoted digest
\* is one that a gate scan passed, or was taken by a run whose tag another push
\* reached while the run was using it.
THEOREM PromotedAlwaysGated == Spec => []GatedUnlessOvertaken
<1>1. TypeInv /\ GatedInv /\ [Next]_vars => GatedInv'
  BY NextOwnTags, NextGated DEF GatedInv
<1>2. GatedInv => GatedUnlessOvertaken
  BY DEF GatedInv
<1> QED BY InitGatedInv, Typing, <1>1, <1>2, PTL DEF Spec

\* With the same exception every attestation describes the digest it is on.
THEOREM AlwaysAttestsItself == Spec => []AttestsItself
<1>1. TypeInv /\ GatedInv /\ [Next]_vars => GatedInv'
  BY NextOwnTags, NextGated DEF GatedInv
<1>2. GatedInv => AttestsItself
  BY DEF GatedInv
<1> QED BY InitGatedInv, Typing, <1>1, <1>2, PTL DEF Spec

-----------------------------------------------------------------------------
(* A version tag names an image of that version, and the two tags agree *)

\* A run takes its version when it starts, once, and has no digest before that.
Unstarted == \A j \in Runs : pc[j] = "idle" => ver[j] = 0 /\ dig[j] = None

\* What a script reads a digest from has the version the script works on.
WorkingTagsNameTheirVersion ==
  \A v \in Versions : patchedTag[v] # None => VersionOf(patchedTag[v]) = v
DigestsOfOwnVersion ==
  \A j \in Runs : dig[j] # None => VersionOf(dig[j]) = ver[j]
LineHasVersion == VersionOf(lineTag) \in Versions

VersionInv ==
  /\ Unstarted /\ WorkingTagsNameTheirVersion /\ DigestsOfOwnVersion
  /\ LineHasVersion /\ TagsNameTheirVersion

\* An image that a run pushes has the run's version.
LEMMA PushedHaveVersion ==
  ASSUME NEW j \in Runs, NEW n \in Nat
  PROVE  VersionOf(<<j, n>>) = ver[j]
<1>1. <<j, n>> # Seed
  BY ImagesAssumption
<1> QED BY <1>1 DEF VersionOf

\* Nothing but the seed has been tagged, and the seed has version 1.
LEMMA InitVersionInv == Init => VersionInv
<1> SUFFICES ASSUME Init PROVE VersionInv
  OBVIOUS
<1>1. Unstarted /\ WorkingTagsNameTheirVersion /\ DigestsOfOwnVersion
  BY DEF Init, Unstarted, WorkingTagsNameTheirVersion, DigestsOfOwnVersion
<1>2. None # Seed
  BY ImagesAssumption DEF Images
<1>3. LineHasVersion /\ TagsNameTheirVersion
  BY <1>2, VersionAssumption DEF Init, LineHasVersion, TagsNameTheirVersion, VersionOf
<1> QED BY <1>1, <1>3 DEF VersionInv

\* A run that has started keeps its version, whatever fails and is retried.
LEMMA VersionsKept ==
  ASSUME TypeInv, Unstarted, [Next]_vars
  PROVE  /\ \A j \in Runs : ver[j] # 0 => ver'[j] = ver[j]
         /\ Unstarted'
<1>1. \A j \in Runs : Keeps(j) \/ Moves(j)
  BY EachRun DEF TypeInv
<1> QED BY <1>1 DEF Unstarted, Keeps, Moves, Proceeds, StartsOver

\* So an image that has a version keeps it.
LEMMA ImageVersionsKept ==
  ASSUME TypeInv, Unstarted, [Next]_vars, NEW i \in Images, VersionOf(i) \in Versions
  PROVE  VersionOf(i)' = VersionOf(i)
<1>1. CASE i = Seed
  BY <1>1 DEF VersionOf
<1>2. CASE i # Seed
  <2>1. i[1] \in Runs
    BY <1>2 DEF Images
  <2>2. VersionOf(i) = ver[i[1]] /\ VersionOf(i)' = ver'[i[1]]
    BY <1>2 DEF VersionOf
  <2> QED BY <2>1, <2>2, VersionsKept
<1> QED BY <1>1, <1>2

\* A patch's image is of the version in whose working tag it is pushed; a digest
\* is one of the run's own builds or comes from that tag; tags are moved to it.
LEMMA NextVersionInv == TypeInv /\ VersionInv /\ [Next]_vars => VersionInv'
<1> SUFFICES ASSUME TypeInv, VersionInv, [Next]_vars PROVE VersionInv'
  OBVIOUS
<1>a. /\ patchedTag \in [Versions -> Images \union {None}]
      /\ verTag \in [Versions -> Images \union {None}]
      /\ dig \in [Runs -> Images \union {None}]
      /\ ver \in [Runs -> Versions \union {0}]
      /\ \A r \in Rebuilds : builds[r] \in Nat
      /\ lineTag \in Images
  BY RetriesAssumption DEF TypeInv, TypeOK
<1>b. \A j \in Runs : pc[j] # "idle" => ver[j] \in Versions
  BY DEF TypeInv, Located, Started
<1>1. Unstarted'
  BY VersionsKept DEF VersionInv
<1>2. \A i \in Images : VersionOf(i) \in Versions => VersionOf(i)' = VersionOf(i)
  BY ImageVersionsKept DEF VersionInv
<1>3. WorkingTagsNameTheirVersion'
  <2>1. CASE UNCHANGED patchedTag
    <3> SUFFICES ASSUME NEW v \in Versions, patchedTag[v] # None
                 PROVE  VersionOf(patchedTag[v])' = v
      BY <2>1 DEF WorkingTagsNameTheirVersion
    <3>1. patchedTag[v] \in Images /\ VersionOf(patchedTag[v]) = v
      BY <1>a DEF VersionInv, WorkingTagsNameTheirVersion
    <3> QED BY <1>2, <2>1, <3>1 DEF VersionOf
  <2>2. ASSUME NEW p \in Patches, Copa(p), NEW v \in Versions, patchedTag'[v] # None
        PROVE  VersionOf(patchedTag[v])' = v
    <3>1. /\ ver[p] \in Versions /\ ver' = ver
          /\ patchedTag' = [patchedTag EXCEPT ![ver[p]] = <<p, 1>>]
      BY <1>b, <2>2 DEF Copa
    <3>2. CASE v = ver[p]
      <4>1. patchedTag'[v] = <<p, 1>>
        BY <1>a, <3>1, <3>2
      <4>2. <<p, 1>> # Seed
        BY ImagesAssumption
      <4> QED BY <3>1, <3>2, <4>1, <4>2 DEF VersionOf
    <3>3. CASE v # ver[p]
      <4>1. patchedTag'[v] = patchedTag[v]
        BY <1>a, <3>1, <3>3
      <4>2. patchedTag[v] \in Images /\ VersionOf(patchedTag[v]) = v
        BY <1>a, <2>2, <4>1 DEF VersionInv, WorkingTagsNameTheirVersion
      <4> QED BY <1>2, <4>1, <4>2 DEF VersionOf
    <3> QED BY <3>2, <3>3
  <2> QED BY <2>1, <2>2, Writers DEF WorkingTagsNameTheirVersion
<1>4. ASSUME NEW j \in Runs, dig'[j] # None PROVE VersionOf(dig[j])' = ver'[j]
  <2>1. CASE dig'[j] = dig[j]
    <3>1. ver[j] \in Versions /\ ver'[j] = ver[j]
      BY <1>4, <1>b, <2>1, VersionsKept, VersionAssumption DEF VersionInv, Unstarted
    <3>2. dig[j] \in Images /\ VersionOf(dig[j]) = ver[j]
      BY <1>a, <1>4, <2>1 DEF VersionInv, DigestsOfOwnVersion
    <3> QED BY <1>2, <2>1, <3>1, <3>2 DEF VersionOf
  <2>2. CASE j \in Rebuilds /\ dig'[j] \in BuildsOf(j)
    <3>1. PICK n \in Nat : dig'[j] = <<j, n>>
      BY <1>a, <2>2 DEF BuildsOf
    <3>2. <<j, n>> # Seed
      BY ImagesAssumption
    <3> QED BY <3>1, <3>2 DEF VersionOf
  <2>3. CASE pc[j] = "digest" /\ j \in Patches /\ dig'[j] = GateImage(j) /\ ver'[j] = ver[j]
    <3>1. ver[j] \in Versions /\ dig'[j] = patchedTag[ver[j]]
      BY <1>b, <2>3, RunsAssumption DEF GateImage
    <3>2. dig'[j] \in Images /\ VersionOf(patchedTag[ver[j]]) = ver[j]
      BY <1>a, <1>4, <3>1 DEF VersionInv, WorkingTagsNameTheirVersion
    <3> QED BY <1>2, <2>3, <3>1, <3>2 DEF VersionOf
  <2> QED
    BY <2>1, <2>2, <2>3, EachRun DEF TypeInv, Keeps, Moves, Digests
<1>5. LineHasVersion' /\ TagsNameTheirVersion'
  <2>1. ASSUME NEW j \in Runs, TagVersion(j) \/ TagLine(j)
        PROVE  /\ ver[j] \in Versions /\ dig[j] \in Images /\ ver' = ver
               /\ VersionOf(dig[j])' = ver[j]
    <3>1. ver[j] \in Versions /\ dig[j] # None /\ ver' = ver
      BY <1>b, <2>1 DEF TagVersion, TagLine, TypeInv, Located, DigestResolved, SignSteps
    <3>2. dig[j] \in Images /\ VersionOf(dig[j]) = ver[j]
      BY <1>a, <3>1 DEF VersionInv, DigestsOfOwnVersion
    <3>3. dig' = dig
      BY <2>1 DEF TagVersion, TagLine, files
    <3> QED BY <1>2, <3>1, <3>2, <3>3 DEF VersionOf
  <2>2. LineHasVersion'
    <3>1. CASE UNCHANGED lineTag
      BY <1>2, <1>a, <3>1 DEF VersionInv, LineHasVersion, VersionOf
    <3>2. ASSUME NEW j \in Runs, TagLine(j) PROVE LineHasVersion'
      BY <2>1, <3>2 DEF TagLine, files, LineHasVersion, VersionOf
    <3> QED BY <3>1, <3>2, Writers DEF TagVersion
  <2>3. ASSUME NEW v \in Versions, verTag'[v] # None PROVE VersionOf(verTag[v])' = v
    <3>1. CASE verTag'[v] = verTag[v]
      <4>1. verTag[v] \in Images /\ VersionOf(verTag[v]) = v
        BY <1>a, <2>3, <3>1 DEF VersionInv, TagsNameTheirVersion
      <4> QED BY <1>2, <3>1, <4>1 DEF VersionOf
    <3>2. ASSUME NEW j \in Runs, TagVersion(j) PROVE VersionOf(verTag[v])' = v
      <4>1. CASE v = ver[j]
        <5>1. verTag'[v] = dig[j] /\ dig' = dig
          BY <1>a, <3>2, <4>1 DEF TagVersion, files
        <5> QED BY <2>1, <3>2, <4>1, <5>1 DEF VersionOf
      <4>2. CASE v # ver[j]
        <5>1. verTag'[v] = verTag[v]
          BY <1>a, <3>2, <4>2 DEF TagVersion
        <5> QED BY <3>1, <5>1
      <4> QED BY <4>1, <4>2
    <3> QED BY <3>1, <3>2, Writers DEF TagLine
  <2> QED BY <2>2, <2>3 DEF TagsNameTheirVersion
<1> QED BY <1>1, <1>3, <1>4, <1>5 DEF VersionInv, DigestsOfOwnVersion

\* With no condition at all, on however many runs and patches that share a
\* working tag: <version> only ever names an image of that version.
THEOREM AlwaysNameTheirVersion == Spec => []TagsNameTheirVersion
<1>1. VersionInv => TagsNameTheirVersion
  BY DEF VersionInv
<1> QED BY InitVersionInv, NextVersionInv, Typing, <1>1, PTL DEF Spec

\* Between its two tags a run finds the version tag as it left it, unless another
\* run's promotion of that version began in between.
HalfPromotedHolds ==
  \A j \in Runs : pc[j] = "tagLine" /\ ver[j] \notin raced => verTag[ver[j]] = dig[j]

\* A run that is half through a promotion is not one that has yet to start.
HalfStarted == \A k \in half : ver[k] \in Versions

AgreeInv == VersionInv /\ OwnTags /\ HalfPromotedHolds /\ HalfStarted /\ TagsAgree

\* Both tags start on the seed.
LEMMA InitAgreeInv == Init => AgreeInv
<1> SUFFICES ASSUME Init PROVE AgreeInv
  OBVIOUS
<1>1. HalfPromotedHolds /\ HalfStarted
  BY DEF Init, HalfPromotedHolds, HalfStarted
<1>2. TagsAgree
  BY VersionAssumption DEF Init, TagsAgree, VersionOf
<1> QED BY <1>1, <1>2, InitVersionInv, InitGatedInv DEF AgreeInv, GatedInv

\* TagVersion marks the version raced when another run is between its tags, and
\* otherwise leaves it as the only run there.
LEMMA NextHalfPromoted == TypeInv /\ AgreeInv /\ [Next]_vars => HalfPromotedHolds'
<1> SUFFICES ASSUME TypeInv, AgreeInv, [Next]_vars,
                    NEW k \in Runs, pc'[k] = "tagLine", ver'[k] \notin raced'
             PROVE  verTag'[ver'[k]] = dig'[k]
  BY DEF HalfPromotedHolds
<1>a. /\ verTag \in [Versions -> Images \union {None}]
      /\ \A j \in Runs : pc[j] # "idle" => ver[j] \in Versions
  BY DEF TypeInv, TypeOK, Located, Started
<1>b. TagVersion(k) \/ (pc[k] = "tagLine" /\ ver'[k] = ver[k] /\ dig'[k] = dig[k])
  BY EachRun DEF TypeInv, Keeps, Moves, Proceeds, StartsOver
<1>1. ASSUME TagVersion(k) PROVE verTag'[ver'[k]] = dig'[k]
  BY <1>1, <1>a DEF TagVersion, files
<1>2. ASSUME pc[k] = "tagLine", ver'[k] = ver[k], dig'[k] = dig[k],
             NEW j \in Runs, j # k, TagVersion(j)
      PROVE  verTag'[ver'[k]] = dig'[k]
  <2>1. ver[j] \in Versions /\ ver[k] \in Versions
    BY <1>2, <1>a DEF TagVersion
  <2>2. ver[j] # ver[k]
    BY <1>2, <2>1 DEF TagVersion, HalfPromoted
  <2>3. verTag'[ver[k]] = verTag[ver[k]] /\ ver[k] \notin raced
    BY <1>2, <1>a, <2>1, <2>2 DEF TagVersion
  <2> QED BY <1>2, <2>3 DEF AgreeInv, HalfPromotedHolds
<1>3. ASSUME pc[k] = "tagLine", ver'[k] = ver[k], dig'[k] = dig[k],
             UNCHANGED <<verTag, raced>>
      PROVE  verTag'[ver'[k]] = dig'[k]
  BY <1>3 DEF AgreeInv, HalfPromotedHolds
<1>4. (\E j \in Runs : TagLine(j)) => UNCHANGED <<verTag, raced>>
  BY DEF TagLine
<1> QED BY <1>b, <1>1, <1>2, <1>3, <1>4, Writers

\* A run that enters half has started, and keeps its version.
LEMMA NextHalfStarted == TypeInv /\ AgreeInv /\ [Next]_vars => HalfStarted'
<1> SUFFICES ASSUME TypeInv, AgreeInv, [Next]_vars, NEW k \in half'
             PROVE  ver'[k] \in Versions
  BY DEF HalfStarted
<1>1. k \in Runs /\ half \subseteq Runs
  BY NextTypeOK DEF TypeInv, TypeOK
<1>2. k \in half \/ TagVersion(k)
  BY <1>1, Writers DEF TagVersion, TagLine
<1>3. ver[k] \in Versions
  BY <1>1, <1>2 DEF AgreeInv, HalfStarted, TagVersion, TypeInv, Located, Started
<1> QED BY <1>1, <1>3, VersionsKept, VersionAssumption DEF AgreeInv, VersionInv

\* A version tag that has left the line tag behind belongs to a promotion that
\* has not come to the line tag; the line tag moves to the version tag's image.
LEMMA NextTagsAgree == TypeInv /\ AgreeInv /\ [Next]_vars => TagsAgree'
<1> SUFFICES ASSUME TypeInv, AgreeInv, [Next]_vars PROVE TagsAgree'
  OBVIOUS
<1> DEFINE v == VersionOf(lineTag)
<1>0. v \in Versions /\ lineTag \in Images
  BY DEF AgreeInv, VersionInv, LineHasVersion, TypeInv, TypeOK
<1>a. /\ verTag \in [Versions -> Images \union {None}]
      /\ half \subseteq Runs
      /\ \A j \in Runs : pc[j] # "idle" => ver[j] \in Versions
  BY DEF TypeInv, TypeOK, Located, Started
<1>b. ASSUME UNCHANGED lineTag PROVE VersionOf(lineTag)' = v
  BY <1>0, <1>b, ImageVersionsKept DEF AgreeInv, VersionInv, VersionOf
<1>c. ASSUME NEW k \in half PROVE ver'[k] = ver[k] /\ TakenBy(k) \subseteq TakenBy(k)'
  BY <1>a, <1>c, VersionsKept, TakenByStays, VersionAssumption DEF AgreeInv, HalfStarted, VersionInv
<1>d. ASSUME NEW j \in Runs, TagVersion(j) \/ TagLine(j)
      PROVE  /\ ver' = ver /\ dig' = dig /\ builds' = builds /\ ver[j] \in Versions
             /\ VersionOf(dig[j]) = ver[j] /\ dig[j] \in TakenBy(j)
  <2>1. pc[j] \in {"tagVersion", "tagLine"} /\ ver' = ver /\ dig' = dig /\ builds' = builds
    BY <1>d DEF TagVersion, TagLine, files, images
  <2>2. ver[j] \in Versions /\ dig[j] # None
    BY <1>a, <2>1 DEF TypeInv, Located, DigestResolved, SignSteps
  <2>3. dig[j] \in TakenBy(j)
    BY <2>1, <2>2 DEF AgreeInv, OwnTags, OwnBuilds, TakenBy, Resolved, SignSteps
  <2> QED BY <2>1, <2>2, <2>3 DEF AgreeInv, VersionInv, DigestsOfOwnVersion
<1>1. CASE UNCHANGED <<verTag, lineTag, half, raced>>
  <2>1. VersionOf(lineTag)' = v
    BY <1>1, <1>b
  <2>2. CASE verTag[v] = lineTag \/ v \in raced
    BY <1>1, <2>1, <2>2 DEF TagsAgree
  <2>3. ASSUME NEW k \in half, ver[k] = v, verTag[v] \in TakenBy(k) PROVE TagsAgree'
    <3>1. ver'[k] = v /\ verTag'[v] \in TakenBy(k)' /\ k \in half'
      BY <1>1, <1>c, <2>3
    <3> QED BY <2>1, <3>1 DEF TagsAgree
  <2> QED BY <2>2, <2>3 DEF AgreeInv, TagsAgree
<1>2. ASSUME NEW j \in Runs, TagVersion(j) PROVE TagsAgree'
  <2>1. lineTag' = lineTag /\ half' = half \union {j}
    BY <1>2 DEF TagVersion
  <2>2. VersionOf(lineTag)' = v
    BY <2>1, <1>b
  <2>3. TakenBy(j)' = TakenBy(j) /\ ver'[j] = ver[j]
    BY <1>2, <1>d DEF TakenBy, BuildsOf
  <2>4. CASE ver[j] = v
    <3>1. verTag'[v] = dig[j]
      BY <1>0, <1>2, <1>a, <2>4 DEF TagVersion
    <3>2. verTag'[v] \in TakenBy(j)' /\ ver'[j] = v /\ j \in half'
      BY <1>2, <1>d, <2>1, <2>3, <2>4, <3>1
    <3> QED BY <2>2, <3>2 DEF TagsAgree
  <2>5. CASE ver[j] # v
    <3>1. verTag'[v] = verTag[v] /\ (v \in raced => v \in raced')
      BY <1>0, <1>2, <1>a, <2>5 DEF TagVersion
    <3>2. CASE verTag[v] = lineTag \/ v \in raced
      BY <2>1, <2>2, <3>1, <3>2 DEF TagsAgree
    <3>3. ASSUME NEW k \in half, ver[k] = v, verTag[v] \in TakenBy(k) PROVE TagsAgree'
      <4>1. ver'[k] = v /\ verTag'[v] \in TakenBy(k)' /\ k \in half'
        BY <1>c, <2>1, <3>1, <3>3
      <4> QED BY <2>2, <4>1 DEF TagsAgree
    <3> QED BY <3>2, <3>3 DEF AgreeInv, TagsAgree
  <2> QED BY <2>4, <2>5
<1>3. ASSUME NEW j \in Runs, TagLine(j) PROVE TagsAgree'
  <2>1. lineTag' = dig[j] /\ UNCHANGED <<verTag, raced>>
    BY <1>3 DEF TagLine
  <2>2. VersionOf(lineTag)' = ver[j]
    BY <1>3, <1>d, <2>1 DEF VersionOf
  <2>3. ver[j] \in raced \/ verTag[ver[j]] = dig[j]
    BY <1>3 DEF TagLine, AgreeInv, HalfPromotedHolds
  <2> QED BY <2>1, <2>2, <2>3 DEF TagsAgree
<1> QED BY <1>1, <1>2, <1>3, Writers

\* With any number of rebuilds and patches, failures and retries: <version> and
\* the line tag name the same image, except where a promotion is under way or was
\* cut off, or when the last one began between the two tags of another.
THEOREM TagsAlwaysAgree == Spec => []TagsAgree
<1>1. TypeInv /\ AgreeInv /\ [Next]_vars => AgreeInv'
  BY NextVersionInv, NextOwnTags, NextHalfPromoted, NextHalfStarted, NextTagsAgree DEF AgreeInv
<1>2. AgreeInv => TagsAgree
  BY DEF AgreeInv
<1> QED BY InitAgreeInv, Typing, <1>1, <1>2, PTL DEF Spec
=============================================================================
