# Caracara: a verification project

Caracara builds hardened container images of Jira, Confluence and Bitbucket LTS
lines: it takes the product version from Iron Bank, builds on a Red Hat base,
gates the image on fixable findings, signs and attests it, promotes it to the
tags deployments use, and patches it daily with Copa. The programs are bash and
Python scripts in `src/scripts`, run side by side by GitLab CI and Jenkins
against one Artifactory repository; the containers start through Python
entrypoints in `src/shared` and `src/<product>`.

This directory models the parts with most of the program's own behaviour: the image
pipeline, the GitLab pipeline around it with its dated policy checks, the tools that
edit a manifest, the Iron Bank sync and the container entrypoints. It checks them with
TLC and proves their main properties with TLAPS. The rest is inventoried here.

## Inventory

| component | state it keeps | operations | modelled |
|---|---|---|---|
| Image pipeline (`build.sh`, `gate.sh`, `sign.sh`, `patch.sh`, `lib.sh`) | registry tags, signatures, attestations; per run a few files in `out/` | build and push; scan; patch; record; sign, attest; promote | `ImagePipeline` |
| GitLab pipeline (`.gitlab-ci.yml`) | pipelines, jobs, artifacts | select jobs, order them, pass artifacts, retry | `CiPipeline` |
| Policy checks (`check_trivyignore.py`, `eol_check.py`, called by `lint.sh` and `gate.sh`) | none | validate exceptions, compare dates | `PolicyChecks`, run by `CiPipeline` |
| Manifest tools (`manifest.py`, `pin-version.sh`, `pin-resource.sh`, Renovate's bump) | one `hardening_manifest.yaml`, saved several times by one tool | set a version, a tag, a url, a checksum; check before a build | `ManifestTools` |
| Iron Bank sync (`sync-ironbank.sh`, `ironbank.py`, `open-gitlab-mr.sh`) | manifests on the default branch, in branches and in each pipeline's checkout | fetch, apply, report, open a merge request | `IronBankSync`; `apply` in `ManifestTools` |
| Jenkins (`Jenkinsfile`, `Jenkinsfile.patch`) | builds, one workspace each | the same stages in one workspace, no retries | partly: runs of `ImagePipeline`, a pipeline of `IronBankSync` |
| Admission (`kyverno-atlassian-images.yaml`) | none | accept or refuse a pod's image | partly: signature and both attestations |
| Entrypoints (`entrypoint_helpers.py`, `<product>/entrypoint.py`) | home and shared-home volumes | chown or check, render, drop privileges, exec | `Entrypoint`, partly |
| Shutdown hook (`shutdown-wait.sh`) | none | stop, poll, time out | no |
| `pin-base.sh`, `open-gitlab-issue.sh`, certificates, Kubernetes manifests, Dockerfiles, support scripts | none of their own | one-shots and descriptions | no, see the end |

**How they interact.** A weekly schedule (GitLab or Jenkins) starts a rebuild
pipeline: sync, build, gate, sign, each target's manifest passing from one stage
to the next as an artifact (GitLab) or in the workspace (Jenkins). A daily
schedule starts a patch job per product, which scans the version tag, patches,
calls the same gate and the same sign script. Pushes and merge requests also
build and gate. All of them share the registry, and nothing else: no lock, no
`resource_group`, `disableConcurrentBuilds` only within one Jenkins job. The
sync's merge request brings git up to date some time later, if somebody merges
it; the patch job reads the version from git (or, in a GitLab pipeline that has also
run the sync job, from the manifest that job has left: the default branch's
`JOB=patch` schedule), the rebuild from Iron Bank.

**What is hard.** A tag is resolved again by every command it is given to, so a
script that gates a tag and signs "its" digest is a check followed by a use.
Promotion is two commands. Scripts die between any two commands, and a build,
gate or sign job is retried, failed or not, perhaps a week later: a retried build
pushes another image under the tag its pipeline has gated. The sync edits files in place,
one after the other, and dies on the first fetch that fails, in two kinds of
pipeline that treat this differently. Containers are killed at any point of their
start and start again on the files they left, and Bitbucket nodes start beside each
other on one shared home. In GitLab a job starts as soon as its needs allow, with the
artifacts of all products on top of each other, and exceptions lapse at midnight between
lint and a gate. The pin scripts save a manifest several times and die between two saves,
and another tool opens what they leave. Merge requests of several days, of people
and of Renovate are merged in any order.

**What makes each part correct.** *Image pipeline:* a tag deployments use only
points at images that admission accepts, that were themselves gated, and whose
attestations describe them (the code lets a second push to a run's tag break the last
two, and nothing else); evidence is never taken back; the line tag follows
the version tag and never goes back to an older release. *Sync:* no image is
tagged with one release and filled with another; a scheduled rebuild is what Iron
Bank pins or does not happen; a late merge takes nothing back; git converges to
Iron Bank. *GitLab pipeline:* what a sign job promotes is what its product's gate has
scanned, whichever artifacts reach it and whenever jobs are retried; a merge request
promotes nothing; a trigger runs the stages the documentation says; nothing waits for
ever. *Policy checks:* at the boundaries of expiry and support windows, no gate passes
under a lapsed exception. *Manifest tools:* a manifest the build accepts is whole and of
one release, wherever a tool has died; a checksum is that of its url. *Admission:*
an image nothing is wrong with stays admissible. *Entrypoints:* after a start as
root or as the user, in any order and with crashes, the product can read its own
configuration; what is rendered once is rendered whole. `PROJECT.json` lists the hazards by line.

## The modules

| module | what it is |
|---|---|
| `ImagePipeline` | rebuild and patch runs over one registry repository, command by command |
| `TrustedPromotion` | what the pipeline promises to whoever pulls a tag; implemented by `ImagePipeline` |
| `ImagePipelineProofs` | its theorems |
| `MCImagePipeline` | instances for TLC |
| `GatedRelease` | what one pipeline promises about what it releases; implemented by `CiPipeline` |
| `PolicyChecks` | the two dated checks as functions of a parsed file and a day |
| `CiPipeline` | one GitLab pipeline: rules, needs, artifacts, days, retries; uses `PolicyChecks` |
| `CiPipelineProofs` | theorems about both |
| `MCCiPipeline` | instances for TLC |
| `ManifestTools` | the tools that edit one manifest, save by save |
| `ManifestToolsProofs` | its theorems |
| `MCManifestTools` | an instance for TLC |
| `LineManifest` | a manifest as a rebuild sees it, and `apply` on it; shared by the two modules about manifests |
| `IronBankSync` | rebuild pipelines' sync stage, manifests, branches and merges |
| `IronBankSyncProofs` | its theorems |
| `MCIronBankSync` | instances for TLC |
| `Entrypoint` | containers that start on one persistent home |
| `ConfigFiles` | what the entrypoints promise about a rendered file; implemented by `Entrypoint` |
| `EntrypointProofs` | its theorems |
| `MCEntrypoint` | instances for TLC |

### ImagePipeline

One product, one repository. `Rebuilds` and `Patches` are runs; an image is
named after the run that pushed it and counted there, for a build can be retried. `pc[j]` is the next command of run `j`, so
every command that reads or writes the registry is one action, and any two runs
interleave between any two commands:

| code | actions |
|---|---|
| sync stage, `build.sh` | `StartRebuild` (the version Iron Bank pins), `Build` (`Push` under `<version>-<suffix>`); `RetryBuild` pushes there again, whatever the gate and sign jobs are at |
| `patch.sh` | `StartPatch` (the version git pins, or the synced one), `Scan`, `Copa` (push under `<version>-patched`), then the gate, `ResolveDigest`, then `sign.sh`, `TagHistory` |
| `gate.sh` | `Gate` (the scan that decides), `RecordVuln` and `RecordSbom` (two scans of their own, each resolving the tag again) |
| `sign.sh` | `Sign` (any `DIGEST` its pipeline has built), `AttestVuln`, `AttestSbom`, `TagVersion`, `TagLine` |
| `set -e`, cancelled jobs, lost pods | `Fail`; `RetryFailed` starts a failed job over, `RetryPassed` a gate or sign job that had passed |

The five kinds of tag are variables from versions (and suffixes) to images;
`signed`, `vulnAtt`, `sbomAtt` are what is attached to a digest, with the image
each record describes; `dig`, `vuln`, `sbom`, `report` are the files a run leaves
for its later commands. Four variables are history: `gated`, the images a gate scan
passed; `overtaken`, the runs whose tag has been pushed again while they were using it (by
their own retried build, by a rebuild with the same suffix, by another patch);
`half`, the runs that have moved `<version>` and not yet the line; and `raced`, the versions
whose last promotion began between the two tags of another run's (`HalfPromoted`), on which
`TagsAgree` depends. The docs' promise, `PromotedWasGated`, is false (`patch_race`, and a
retried build does it in one pipeline); `GatedUnlessOvertaken` says that a promoted image was
gated unless it is one that an overtaken run can have taken (`Excused`), and so that
there is no other way. A sign job takes the `DIGEST` of any build of its pipeline:
usually the last one's, but an earlier one's when a gate job has uploaded that
`build.env` again (see `CiPipeline`).
An image's contents are a set of `Findings`, which the Trivy database learns one
at a time (`Publish`); the gate refuses known findings in `Blocking`, and a base
that reaches end of life is one of them that is not in `OsFindings`, which is
what Copa can repair. Registry, Trivy, Copa, cosign and crane are external and
modelled from how the scripts use them: a command takes effect at once or fails
without one. The environment moves Iron Bank (`UpstreamMoves`) and merges the sync
merge request (`MergeSync`). The initial state is the one after a first promotion.
A Jenkins rebuild is a run that is not retried, so it is one of the behaviours
here. Runs are finitely many; each starts at any time.

Simplifications: a gate job is not retried while its own pipeline's sign job is running;
a retried sync job, which may bring a new version into the same pipeline, is left out; a
retried patch job is another run of `Patches`; a build that fails after its push
counts as built, so its retry is a `RetryBuild`.

### CiPipeline and PolicyChecks

`Init` chooses what created the pipeline (`trigger`: its source, `$JOB`, whether its ref
is the default branch, as `workflow: rules` allows) and the two policy files of its
commit. `Selected` are the jobs whose `rules` match, `Needs(j)` what `j` waits for:
`needs: [build]` names a job of the product matrix and so all its products, and a job
without `needs` waits for every earlier stage.

| code | actions |
|---|---|
| a runner takes a job, and it downloads the artifacts of what it needs | `StartPlain` (lint, sync, patch), `StartBuild`, `StartGate`, `StartSign` |
| `lint.sh`: both checks, on the day | `LintSucceeds` |
| the sync job; `build.sh`: push, write `build.env` | `SyncSucceeds`, `BuildSucceeds` |
| `gate.sh`: the ignore file once more, then the scan of what the tag points at | `GateSucceeds` |
| `sign.sh` with what the job has downloaded | `SignSucceeds` |
| `patch.sh`: clean, or gated again and promoted | `PatchSucceeds` |
| the script fails, the job is cancelled or loses its pod, before or after it has pushed or promoted | `JobFails` |
| a person retries a finished job; midnight | `Retry`, `NextDay` |

An image is the number of its push, `pushed[p]` is where `p`'s build tag points,
`built[p]` the `DIGEST` in the build job's artifacts and `carried[p][q]` the one in the
copy of `q`'s `build.env` that `p`'s gate job uploads: each gate uploads *all* of `out/`
again, although lines 23-25 say that matrix jobs never overwrite each other's variables.
Nothing fixes the order in which a sign job's downloads overwrite each other, so `work[p]`
is any of them. `passed` and `linted` are history, and so is `overtaken`: the
products whose build was started (retried) after a gate had. For these the promise of
`SignsWhatItGated` fails: the sign job may take a digest that is no longer what was
gated, or one no gate has scanned. For all others it holds, retries and midnights included.

`PolicyChecks` follows the two scripts' branches: what file is there at all, unknown keys,
a section that is no list, an entry without id, statement, expiry, or with one that is no
date; the base OS and the two shapes of a product. Two oddities are kept: a YAML-null
`statement` reads `"None"` and passes (line 59), and in `{lts: null, latest: {...}}` the
first key decides the shape, so `latest`'s end is not seen (`eol_check.py:67`).

What the scripts do to the registry command by command is `ImagePipeline`'s subject; here a
job is its start and its end, and the two modules share no state but the promise that a
gate passes only what it scanned. `GatedRelease` is the pipeline without jobs, artifacts,
retries and days: images are cleared and products released as cleared images; `CiPipeline`
implements it with `overtaken` as the products that are excepted.

### ManifestTools

One manifest in one checkout: `version`, `tags`, whether it has `ARTEFACT`, and per
resource the filename (the tool's own, with the release where the name has one), the
release its `url` names and the release its `sha256` belongs to.

| code | actions |
|---|---|
| `pin-version.sh` | `StartPinVersion` (reads `ARTEFACT`, fetches the checksum), `SetArg`, `SetProduct`, `SetTags`: three saves |
| `pin-resource.sh` | `StartPin` (names or `--all`), `StartPinUrl`, `SetUrl` (clears the checksum), `SetSha` for each resource |
| Renovate | `Bump` (the url only), before `pin-resource.sh --all` |
| `ironbank.py apply` | `Sync`, for any consistent manifest of Iron Bank's, with `Applied`, `Follow`, `Matches` |
| `manifest.save` | in each of them; `DiesInSave` and `SyncDiesInSave` leave the emptied file, the latter unless the sync is `UpToDate` |
| `set -e`, a failed download, a missing resource, a killed shell | `Dies` |
| `git checkout` | `Restore` |

`check` and `version` are `BuildAccepts`, the Dockerfile's `ADD --checksum` is in
`BuildSucceeds`. `due`, `named` and `torn` are history. `torn` is the state
between the first two saves of a `pin-version.sh` that died there: `VERSION` is new, the
`PRODUCT` resource the old one and still pinned, and the build accepts it and tags the old
tarball with the new release, until a later pin, sync or checkout repairs it.
`set-resource` keeps the old filename under a new url, and `apply` matches on filenames;
that this never loses a tool is `SyncAdoptsTools`. If only the tags differ, `apply` changes
them but reports no change, so nothing is saved. `Line` is `LineManifest` for the resources of
this module, and `Seen(m, t)` the file reduced to `PRODUCT` and tool `t`: `SyncIsApply` says that
on it the entry-by-entry `Applied` has the effect of the `Apply` that `IronBankSync` works with.

Simplifications: resources are gone through in any order; `PRODUCT` is not pinned with
`pin-resource.sh --url`, which the manifests' header leaves to `pin-version.sh`; the parsing
of Iron Bank's file is abstracted to what `ib_version` and `ib_sha` find in it
(`IsConsistent`: those agree with the tarball).

### IronBankSync

A manifest is reduced to what the properties tell apart: `version`
(`args.VERSION`), the `PRODUCT` resource and one other resource (tini or git) as
pairs of the release its url names and the release its `sha256` belongs to (0
while unpinned), and whether the file still has its `# renovate:` comments. That, and `Apply`,
is `LineManifest`.

| code | actions |
|---|---|
| Iron Bank | `IronBankMoves`, perhaps before the checksum is there, `IronBankPins` |
| `pin-version.sh`, `pin-resource.sh`, Renovate | `PinVersion`, `PinResources`: a branch with the result, `Propose`d as a merge request |
| pipelines | `StartSchedule` (a schedule, or a web pipeline with `JOB=rebuild`), `StartPush`, `StartMergeRequest` |
| `sync-ironbank.sh` with `ironbank.py apply` | `SyncTarget` for each target, `SyncFails` anywhere in the loop, `Report` |
| `open-gitlab-mr.sh` | `OpenMr`, `OpenMrFails` (before or after the push), `SkipMr` (no token) |
| `build.sh` | `Build` |
| merging | `Merge`: git combines the manifests (`Combined`) if each entry was edited on one side only, or to the same value on both (`Clean`) |

`manifest.save` writes what `yaml.safe_dump` makes of the file. The first save of a seed
manifest therefore rewrites all of it, comments included, and conflicts with any other edit
of the file; what later saves write differs only in the lines of what they set, and git merges
edits of different entries: a pin of the tool goes into the default branch beside a sync's new
`VERSION`, however old the branch. An entry is merged as a unit here, which for manifests the
tools write is what git does with its lines (`filename`, which lags behind, can cause
conflicts the model does not have, so it merges more).

A job keeps its checkout, its workspace, the targets still to do and the versions
it has read. A failed sync ends a scheduled pipeline; on pushes and merge requests
the `|| echo` of `.gitlab-ci.yml:96` swallows it and the workspace is built as it is.
Without `GITLAB_SYNC_TOKEN` nothing is committed; on Jenkins the
`git checkout -- .` of the same shell line then discards the synced manifests,
although the header of `open-gitlab-mr.sh` (lines 3-4) says the job goes on "with
the in-workspace change". `ScheduledBuildsFresh` is stated for GitLab and for
pipelines with the token.

Simplifications: targets are visited in any order (the loop's order is fixed, so
this allows more); Iron Bank's release of the other resource does not change during
a behaviour; bookkeeping fields of the manifest that no script reads back are left
out; a tag, url and sha256 of Iron Bank always belong together once pinned; a pin by hand is
committed only if its script has ended well, so `PinVersion` is one step (what a
script that dies half-way leaves is in `ManifestTools`).

### Entrypoint

`Nodes` are containers on one home. `Files` are the files rendered into it; `Once`
are those `main` renders with `force or not os.path.exists(...)`: `dbconfig.xml`,
`jira-config.properties`, `confluence.cfg.xml`, `bitbucket.properties`. A file is
its text, its owner and whether its mode is 0640 already.

| code | actions |
|---|---|
| the container is started or restarted, as root or as the run user, with some environment | `Start` |
| `prepare_home` | `PrepareAsRoot` (with or without `ATL_CHOWN_RECURSIVE`), `PrepareAsUser` (goes on, or ends the start) |
| `main` builds its specs | `ReadSpecs` |
| `render_all`, `gen_cfg` | `Keep`, or `Open`, `Write`, `Chmod`, `Replace`; `OpenDenied` and `NameLost` where an OSError ends the start |
| `exec_app` | `Exec` |
| killed, configuration refused, product stopped | `Crash` |

`target[f]` and `tmp[f]` are names, not files: `chmod` and `replace` act on whatever
has the name by then, while `Write` goes to the file the process has opened, which
another node may have moved to `target` or replaced since (`fd`, `Moved`). Text is
one write at the close: it fits the buffer, so a file is `Empty` until then; over
another node's longer text it leaves a `Mixed` one. `contended` is history: two
nodes have been rendering at the same time. What the code says about two nodes is
little, so `RenderedWhole` and `WrittenOnce` are stated for nodes that do not;
`AllGetToRun` is stated for all. A container that was `Crash`ed is `killed`, one whose
entrypoint failed at what it met on the home is `stopped`; the difference matters to
`AllGetToRun`, which assumes an end of the first and not of the second. `ConfigFiles` is what is
left when containers, crashes, temporary files and modes are hidden; it still promises after a
contention that no file disappears.

Simplifications: home and shared home are one directory; files are gone through in
any order; one `chown -R` is one step; what a spec enables (`have_db`, `clustered`)
is any set of files; files in the image's own install directory are not persistent
and not modelled.

## The runs

| run | instance | what it shows |
|---|---|---|
| `promotion` | 1 rebuild, 2 patches on one working tag, 2 versions, 1 retry of any job, 1 OS finding; 4,797,404 states with symmetry | every interleaving, failure and retry: `PromotedIsAdmissible`, `GatedUnlessOvertaken`, `AttestsItself`, `TagsNameTheirVersion`, `TagsAgree`, and `TrustedPromotion` is implemented |
| `patch_race` | 2 patches, an OS and a Java finding | violated: `PromotedWasGated` |
| `line_goes_back` | 1 rebuild, 1 patch, 2 versions | violated: `LineNeverGoesBack` |
| `ci` | every trigger, 2 products, 4 commits, 1 midnight, 1 retry, 2 images each, fair; 333,865 states | `ReviewNeverPromotes`, `SignsWhatItGated`, `GatedUnderExceptionsInForce`, `PromotedWhileSupported`, `NeverStuck`, `ComesToRest`, and `GatedRelease` is implemented |
| `fast_path` | 1 product, 1 day | violated: `PatchScheduleOnlyPatches` |
| `manifest` | product, tini, git, 3 releases, any consistent manifest of Iron Bank's; 251,618 states | `BuildsOneRelease`, `EmptyIsNeverBuilt`, `PinsWhatItNames`, `SyncAdoptsTools`, `OnlyABumpUnpairs`, `SyncIsApply` |
| `sync` | 1 target, 3 versions, GitLab and Jenkins both with the token, sync branches of 2 days, one hand branch, 2 tool releases; 2,257,991 states | `BuildsWhatItTags`, `SyncNeverGoesBack`, `ConvergedStays` |
| `sync_converges` | 2 targets, 2 versions, GitLab without and Jenkins with the token, sync branches of 2 days, fair; 309,831 states | `ScheduledBuildsFresh`, `SyncConverges` |
| `report_only` | 1 target, GitLab | violated: `ReportOnly` |
| `pin_holds` | 1 target, one pin by hand | violated: `PinHoldsUntilCaughtUp` |
| `entrypoint` | 2 nodes, 1 file written once, 2 texts, fair; 772,511 states | `RenderedWhole`, `WrittenOnce`, `AllGetToRun`, and `ConfigFiles` is implemented |
| `root_start` | 1 container | violated: `ProductReadsItsConfiguration` |

**Bounds.** A rebuild and two patches contain a race on a shared tag, a rebuild that is
overtaken by a patch and the other way round, and a patch gated on another's image; one
retry, of any job, is what a build that overtakes its own gate takes, or a
sign job that comes back after the others (`MaxRetries` bounds them together). Two
rebuilds at once are left to the theorems: they share a tag only with the same suffix, and
then do to each other what a retried build does to itself. Two versions are what a step back
needs. One OS finding, known or not yet, present or not in each build, makes the
gate pass, fail and change its mind between two scans; a second, Java finding is
needed only where a patched image must fail the gate that the other passes, in
`patch_race`. In `sync`, three versions are what a stale branch needs to lie behind a line that
nobody has pinned by hand (the mutant of `SyncNeverGoesBack` is found with sync branches
alone); two dates and two pipelines with the token are what branches of several days, and one that is
force-pushed by several pipelines, take; one edit by hand (`MaxEdits`) and a tool Iron Bank does not
pin give two sides that edit different entries. Two targets are needed for a loop that stops
half-way, so they are in `sync_converges`, which has no edits by hand to stay small enough for
liveness: there convergence is checked for syncs alone, and that a converged line
stays so beside pins is `ConvergedStays`. `MaxEdits`, `MaxVersion` and `MaxTool` bound the counters.
In `ci`, two products are what artifacts of others and a gate that holds up its neighbour
take; one retry is what a build that overtakes a gate, or a gate after midnight, takes; the
four ignore files lapse on the second day, stay in force, end too late until the second
day, and have no date, and the support window fails from the second day on (`MaxDays`,
`FailWithin` and the dates are scaled down together). `MaxDay`, `MaxBuilds` and `MaxRetries` are
the bounds. In `manifest`, three releases let the file, a pin and Iron Bank all differ, and git
and tini are the two ways a filename may look; tools start and die any number of times.
Two nodes are what sharing a `.tmp` takes, one file is what Bitbucket renders, and
two texts are a changed environment; `Entrypoint` has no counters and starts and
crashes are not limited.
`promotion` permutes the two patches, which nothing but their names tells apart; it
checks safety only, where that is sound. The `ImagePipeline` and `CiPipeline` instances end when all
their runs or jobs have ended, so they are checked without deadlock (and `ComesToRest` says how a
pipeline may end); `IronBankSync`, `ManifestTools` and `Entrypoint` never end and are checked with it.

**Fairness** (`sync_converges`). A schedule keeps coming round (`SF` on
`StartSchedule`: a pipeline slot may be busy with pushes in between), a script and
a build that can go on do (`WF`), somebody merges a sync branch that again and
again is mergeable (`SF`: a conflict may come and go), and Iron Bank adds a
missing checksum in the end (`WF`). Iron Bank need not move, nobody need edit, and
fetches and pushes may fail any number of times: the property promises
convergence only if they fail finitely often, which is its premise. Somebody
merging is an assumption about people; nothing in the repository merges by itself.

In `ci`, runners keep taking jobs and every job ends, by its timeout at the latest (`WF` on
`RunnerStep`, all their steps together: only that the pipeline as a whole goes on). Which of them
succeed is not assumed, nor that anybody retries.

In `entrypoint`, a stopped container is started again (Docker's restart policy, or
Kubernetes) and a running entrypoint goes on (`WF` on each node's `Step`). Crashes
are unfair, and `AllGetToRun` has their end as its premise, with starts as the run
user from some time on at which the home and every `f.tmp` in it are that user's
(`Repaired`). Failures of the entrypoint itself, which containers cause each other, are not
limited. The part about `f.tmp` is needed: a root start killed while it writes one leaves
a file that every later start as the run user fails at, until a start as root takes it
over or replaces it.

## What the violated runs say

Each is a disagreement between a sentence of the repository and its code; the
quotes and lines are in `PROJECT.json`.

- `patch_race`: the gate is given the tag `<version>-patched`, and the digest is
  looked up after it. Two patch jobs of one product, one from GitLab's schedule and one from
  Jenkins', push to the same tag: the second's push falls between the first's gate
  and its `crane digest`, and an image no gate has scanned is signed and promoted.
- `line_goes_back`: until the sync merge request is merged, `patch.sh` works on
  the version in git (on Jenkins, and in GitLab pipelines without a sync job) and moves
  `lts` from the newer release back to a patched image of the older one.
- `report_only`: `--check` rewrites the manifests before it exits 3, and the
  GitLab artifact hands them to the build: a push pipeline builds (and on the
  default branch signs and promotes) what is not in its commit: in the trace the checksums
  Iron Bank pins, and a newer version once Iron Bank has moved.
- `pin_holds`: `apply` adopts a version that differs, not one that is newer, so the
  first rebuild after an emergency pin undoes it before Iron Bank has caught up.
- `root_start`: `prepare_home` fixes the ownership before `render_all` writes, as
  root and with mode 0640, so after `drop_privileges` the product cannot read what
  has been rendered for it, on any start as root; where the file is written once,
  a later start as the run user keeps it, unreadable.

- `fast_path`: the daily schedule runs on the default branch, so it also matches the
  default-branch rules of sync, build, gate and sign: every day all products are rebuilt
  from the Iron Bank release of the day and promoted, before the patch job starts, and the
  patch job waits for all of it.

More that the project met. Two promotion loops in opposite orders leave `<version>` and
`lts` on different images with every job green (`sign.sh:30`; `docs/pipeline.md:60-62` has
the line tag move "along with the version tag"): `TagsAgree` says that this race and promotions that
were cut off are the only causes, and a later promotion that runs alone the cure. Saving a manifest drops its comments and
with them the `# renovate:` annotation Renovate looks for (`manifest.py:71`;
`docs/building.md:68-69`). Web rebuilds of other branches run without lint
(`.gitlab-ci.yml:78-81`; `support-windows.yaml:1` says "in every pipeline"), though their
signatures are another branch's and Kyverno's subject refuses them. And a build that is
retried after a gate has started can have a stale or ungated digest promoted, or one with
another's attestations: `overtaken` in `CiPipeline` and in `ImagePipeline`.

## What is proved

For any sets of runs, versions, findings, targets, pipelines, branches, products, policy files,
resources, releases, containers and files:

| theorem | statement |
|---|---|
| `ImagePipelineProofs!AlwaysTyped` | `Spec => []TypeOK` |
| `PromotedAlwaysAdmissible` | `Spec => []PromotedIsAdmissible`, however runs share tags |
| `Refinement` | `Spec => ImplementsTrustedPromotion` |
| `PromotedAlwaysGated`, `AlwaysAttestsItself` | `Spec => []GatedUnlessOvertaken`, `[]AttestsItself`, however runs share tags and are retried |
| `AlwaysNameTheirVersion`, `TagsAlwaysAgree` | `Spec => []TagsNameTheirVersion`, `[]TagsAgree`, however runs share tags |
| `IronBankSyncProofs!Typing` | `Spec => []TypeOK` |
| `AlwaysBuildsWhatItTags` | `Spec => []BuildsWhatItTags` |
| `ScheduledBuildsAlwaysFresh` | `Spec => []ScheduledBuildsFresh` |
| `SyncGoesForward` | `Spec => SyncNeverGoesBack` |
| `ConvergedAlwaysStays` | `Spec => ConvergedStays` |
| `OnlyPinsAreUndone` | no scheduled rebuild builds less than its checkout's version, of a line nobody has pinned by hand |
| `CiPipelineProofs!Typing` | `Spec => []TypeOK` |
| `PassingExceptionsInForce`, `PassingWindowsOpen` | what a file that passes a check guarantees, for any file and day |
| `PassingDaysAreUnbroken`, `WindowsOnlyClose` | the days on which an ignore file passes have no gap; support windows that pass, passed on every earlier day |
| `ReviewsNeverPromote` | `Spec => []ReviewNeverPromotes` |
| `AlwaysSignsWhatItGated` | `Spec => []SignsWhatItGated` |
| `AlwaysGatedUnderExceptionsInForce` | `Spec => []GatedUnderExceptionsInForce` |
| `AlwaysPromotedWhileSupported` | `Spec => []PromotedWhileSupported` |
| `ReleasesBehindAGate` | `Spec => ImplementsGatedRelease` |
| `AlwaysNeverStuck` | `Spec => []NeverStuck` |
| `ManifestToolsProofs!Typing` | `Spec => []TypeOK` |
| `AlwaysBuildsOneRelease`, `NeverBuildsEmpty` | `Spec => []BuildsOneRelease`, `[]EmptyIsNeverBuilt` |
| `AlwaysPinsWhatItNames`, `SyncAlwaysAdoptsTools` | `Spec => []PinsWhatItNames`, `[]SyncAdoptsTools` |
| `AlwaysOnlyABumpUnpairs` | `Spec => OnlyABumpUnpairs` |
| `SyncIsAlwaysApply` | `Spec => []SyncIsApply` |
| `EntrypointProofs!Typing` | `Spec => []TypeOK` |
| `AlwaysWhole` | `Spec => []RenderedWhole` |
| `AlwaysWrittenOnce` | `Spec => WrittenOnce` |
| `FilesAsPromised` | `Spec => ImplementsConfigFiles` |

They rest on the named assumptions of the modules: the sets of names are
disjoint, the bounds are positive, `Token` is a set of pipelines, `Once` a set of
files, the policy files have the shape YAML can give them, and Iron Bank's manifests are
consistent. None has a condition on the behaviour but what its property states: the runs
that were overtaken, the nodes that contend, the lines pinned by hand, the builds that were retried.
What can break the promises in those cases is shown by the violated runs.

*Arguments.*

- `ImagePipeline`. `TypeOK` alone is not inductive: `Copa` and the gate resolve a tag,
  which must exist, so `TypeInv` adds `Located`: what a later command reads was
  written by an earlier one, and no tag is deleted. `PromotedIsAdmissible` needs
  `Evidenced`, which says what each command of `sign.sh` has left on the digest, and
  the lemma that evidence only grows; the same two give the refinement, with
  `certified` mapped to the admissible images. `GatedUnlessOvertaken` and
  `AttestsItself` need `OwnTags`: as long as a run has not been overtaken, the tag it resolves still
  names the image it pushed, and its records and its digest are of that image; a patch's digest does
  not change once it is taken, and a run that has been overtaken stays excused. `TagsNameTheirVersion`
  holds without exception: `VersionInv` says that runs who share a tag share its version, too
  (working tags and digests are of the run's version, and a run's version does not change once it has
  pushed). `TagsAgree` adds `AgreeInv`: between its two tags a run finds the version tag as it
  left it, unless another promotion of the version began there. Most of a step's cases come from three
  lemmas (`Keeps`, `Moves`, `EachRun`) on what a step of one run leaves of another's.
- `IronBankSync`. `BuildsWhatItTags` follows from `ManifestsWhole` (every `PRODUCT`
  resource, on the default branch, in a branch, in what it was made from or in a workspace, is that
  of its manifest's version) and `CombinedWhole`: the version and the tarball of a whole manifest move
  together, so a merge of three takes both from one side, `ScheduledBuildsFresh` from `VisitedFresh` (a target of a scheduled
  job's loop that has been visited is at the version read), and `SyncNeverGoesBack`
  from `Behind`: for a target nobody has pinned by hand, neither the default
  branch nor a workspace is ahead of Iron Bank, and no open branch is
  behind the base it was made from, so a version a merge takes from the branch (`MergedVersion`:
  the default branch still has the base's) is no step back; `OnlyPinsAreUndone` is its part about workspaces, and shows
  that pins by hand are all that `pin_holds` is about. `ConvergedStays` needs in addition that a branch
  pins what it edits (`EditsPinned`) and a loop what it has visited (`VisitedPinned`): what a merge
  takes from a branch is pinned and not older.
- `CiPipeline`. `Dormant` says that a job the rules leave out
  never leaves `created`; `HandedOver` follows one product's digest and record through the stages
  (`BuiltIsPushed`, `Settled`: no build runs once a gate has started; `Carried`, `Scanned`,
  `Downloaded`, `PromotedAsGated`), needed because at the sign job any copy may arrive, so every copy
  must be the gated one; `Vetted` remembers what lint and the gates have seen, and the theorems
  about the checks turn it into dates. The refinement rests on `HandedOver` and `RealImages` (a
  sign job has downloaded an image), and on `AbstractWriters`: a step changes one of
  the abstract variables, of one product, or none. `NeverStuck` is proved stage by
  stage: what a selected job needs is selected and of an earlier stage, so the first stage that
  is not done is not waiting.
- `ManifestTools`. `IInv` says that a file with a version
  or an `ARTEFACT` has all its resources (`CompleteUnlessEmptied`), that each filename is its tool's
  (`Named`, which is why `Matches` finds it), that the file is of one release but between two saves
  (`OneRelease`), and what the running script has done (`Progress`) or promised (`Promises`).
  `SyncIsApply` follows from the first two: `LineApplies` computes what a sync makes of `VERSION`,
  `PRODUCT` and one tool, whatever stale names the file has; `SavedIfSeen` says that
  the names and tags alone never get a file saved.
- `Entrypoint`. `TypeOK` contains `OpenIsThere`
  (a file that is open under a name is there under it), and both properties follow
  from `IInv`: until two containers render at the same time, one that renders is
  `Alone`, `f.tmp` is its own file (`OwnTmp`), its decisions still hold when it acts on
  them (`Decided`), and targets are `Whole`. The refinement maps a file to its text; a step that
  changes it is a `Replace` or, only once two containers have met, a late `Write`.

*Only model-checked:* `SyncConverges`, `ComesToRest` and `AllGetToRun` (liveness under fairness)
and every violation.

## Not modelled, and why

- Shutdown hook: a stop command and a bounded polling loop beside one process; its one
  behaviour, the last look before the last sleep, is among the hazards.
- Jenkins' own pipeline: its matrix has one workspace, no artifacts and no retries, so of
  `CiPipeline` only the order of the stages is left, and that is in `ImagePipeline`.
- Expiry of artifacts (a week, a month): a job retried after it fails at its download.
- Groups: `check_perms` knows the run user's primary group only, so it refuses a volume that a
  Kubernetes `fsGroup` makes writable; permissions are a Boolean in `Entrypoint`.
- Templates, secrets and derived variables of the entrypoints: data that no step
  depends on but through `EntrypointError`, which is a `Crash`.
- The age of the scan, the signers' identities and the `scanner.result` condition of the admission
  policy: the first needs a clock beside all interleavings of `ImagePipeline`, the second is which
  branch a pipeline ran on, the third depends on Trivy's report format.
- Platforms: Trivy scans the runner's platform of a two-platform image; what it picks is its own affair.
- `unfixed.json`, issues and logs: nothing reads them back.
- Images that merge request pipelines push: their build tag is `<version>-<iid>`
  like any other and they are never signed, so they are rebuilds that stop.
- `pin-base.sh`, `open-gitlab-issue.sh`, the certificate and support scripts:
  one-shots without a second actor. Kubernetes manifests and Dockerfiles: descriptions.

## Plan

The modules above are done. What would come next, in this order:

1. Theorems: `GatedRelease` and `TrustedPromotion` as one release from commit to tag, which needs the
   record and the digest of `CiPipeline` as the runs of `ImagePipeline`.
2. `Entrypoint`: permission classes in place of `usable`.
3. A clock in `ImagePipeline`: which promoted images stay admissible, and for how long.

Checking: `tlc -config MC<name>.cfg <module>` and `tlapm <module>.tla`, in this directory.
