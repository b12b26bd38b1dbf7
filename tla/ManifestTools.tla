--------------------------- MODULE ManifestTools ---------------------------
(***************************************************************************)
(* The tools that edit one hardening_manifest.yaml in one checkout, save   *)
(* by save.  pin-version.sh and pin-resource.sh call manifest.py several   *)
(* times, ironbank.py saves once, and Renovate rewrites a url before it    *)
(* calls pin-resource.sh.  One tool runs at a time; it may die between two *)
(* saves or in one, and any other may be the next to open the file.        *)
(***************************************************************************)
EXTENDS Integers

CONSTANTS
  Product,    \* the PRODUCT resource
  Tools,      \* the other resources: TINI_AMD64, GIT, ...
  Numbered,   \* tools with their release in the filename (git, not tini)
  MaxRelease, \* releases of anything are 1..MaxRelease
  IronBank    \* the manifests Iron Bank's development branch may hold

Resources == Tools \union {Product}
Releases == 1..MaxRelease
None == 0     \* no release, no sha256

\* What apply looks for resources by: the name without digits and dots, which
\* is the tool's own, and the number in it.
Filename(t, r) == <<t, IF t \in Numbered THEN r ELSE None>>

\* A resource: its filename, the release its url names and the release its
\* sha256 belongs to.
Entry == [name : Resources \X (Releases \union {None}), url : Releases,
          sha : Releases \union {None}]

\* The parsed file. An empty one parses, too: no args, no resources.
Manifest == [version : Releases \union {None}, artefact : BOOLEAN,
             tags : Releases \union {None},
             res : [Resources -> Entry] \union [{} -> Entry]]
Empty == [version |-> None, artefact |-> FALSE, tags |-> None, res |-> [r \in {} |-> None]]

\* Iron Bank's manifest: the version among its tags and in its args, if any,
\* its tarball's release, whether that has a checksum, and its other files.
IronBankFile == [tool : Tools, release : Releases, pinned : BOOLEAN]
IronBankManifest == [tag : Releases \union {None}, arg : Releases \union {None},
                     product : Releases, pinned : BOOLEAN, files : SUBSET IronBankFile]

\* Iron Bank's manifests are what they say: the version ib_version finds first
\* is that of the tarball, and no two files have one name.
IsConsistent(ib) ==
  /\ ib.tag \in {ib.product, None}
  /\ ib.tag = None => ib.arg \in {ib.product, None}
  /\ \A f, g \in ib.files :
       Filename(f.tool, f.release) = Filename(g.tool, g.release) => f = g

ASSUME ReleaseAssumption == MaxRelease \in Nat \ {0}
ASSUME ToolAssumption == Product \notin Tools /\ Numbered \subseteq Tools
ASSUME IronBankAssumption ==
  IronBank \subseteq {ib \in IronBankManifest : IsConsistent(ib)}

VARIABLES
  file,    \* the hardening_manifest.yaml
  pc,      \* the next command of the script that runs
  target,  \* the release pin-version.sh pins, or pin-resource.sh --url names
  todo,    \* the resources pin-resource.sh has still to go through
  named,   \* those it was called with, until another tool starts
  due,     \* history: what Iron Bank pins alone of a tool, since a sync ended
  torn     \* history: pin-version.sh died after set-arg, nobody has repaired it

script == <<pc, target, todo, named>>
vars == <<file, script, due, torn>>

TypeOK ==
  /\ file \in Manifest
  /\ pc \in {"idle", "setArg", "setProduct", "setTags", "setUrl", "setSha"}
  /\ target \in Releases \union {None}
  /\ todo \in SUBSET Resources
  /\ named \in SUBSET Resources
  /\ due \in SUBSET IronBankFile
  /\ torn \in BOOLEAN

Pinned(e) == e.sha = e.url

\* The manifests of the repository: seed versions; tini is pinned, PRODUCT and
\* git are not yet.
SeedEntry(r) == [name |-> Filename(r, 1), url |-> 1,
                 sha |-> IF r \in Tools \ Numbered THEN 1 ELSE None]
Seed == [version |-> 1, artefact |-> TRUE, tags |-> 1,
         res |-> [r \in Resources |-> SeedEntry(r)]]

Init ==
  /\ file = Seed
  /\ pc = "idle"
  /\ target = None
  /\ todo = {}
  /\ named = {}
  /\ due = {}
  /\ torn = FALSE

-----------------------------------------------------------------------------
(* manifest.py *)

\* set-resource: the filename is kept, whatever the url; find_resource fails
\* on a file without the resource.
SetResource(r, url, sha) ==
  /\ r \in DOMAIN file.res
  /\ file' = [file EXCEPT !.res[r] = [@ EXCEPT !.url = url, !.sha = sha]]

SetVersion(v) == file' = [file EXCEPT !.version = v]

\* check, and version, which build.sh asks for next.
BuildAccepts == file.version # None /\ \A r \in DOMAIN file.res : file.res[r].sha # None

\* ADD --checksum, of every resource the Dockerfile declares.
BuildSucceeds ==
  /\ BuildAccepts
  /\ DOMAIN file.res = Resources
  /\ \A r \in Resources : Pinned(file.res[r])

-----------------------------------------------------------------------------
(* pin-version.sh *)

Goes(to) == pc' = to /\ UNCHANGED due

\* No script runs, and nothing is known of the last one.
Idle == pc' = "idle" /\ target' = None /\ todo' = {} /\ named' = {} /\ due' = {}

\* A script starts, on release v, with resources R to go through.
Starts(at, v, R) == pc' = at /\ target' = v /\ todo' = R /\ named' = R /\ due' = {}

\* Mutant: the name of the tarball is not read from the manifest first.
StartPinVersionUnread(v) ==
  /\ pc = "idle"
  /\ Starts("setArg", v, {})
  /\ UNCHANGED <<file, torn>>

\* ARTEFACT is read and the published sha256 fetched before anything changes.
StartPinVersion(v) ==
  /\ pc = "idle"
  /\ file.artefact
  /\ Starts("setArg", v, {})
  /\ UNCHANGED <<file, torn>>

SetArg ==
  /\ pc = "setArg"
  /\ SetVersion(target)
  /\ Goes("setProduct")
  /\ UNCHANGED <<target, todo, named, torn>>

\* Mutant: whatever the .sha256 file holds is stored.
SetProductUnchecked ==
  /\ pc = "setProduct"
  /\ SetResource(Product, target, -1)
  /\ torn' = FALSE
  /\ Goes("setTags")
  /\ UNCHANGED <<target, todo, named>>

SetProduct ==
  /\ pc = "setProduct"
  /\ SetResource(Product, target, target)
  /\ torn' = FALSE
  /\ Goes("setTags")
  /\ UNCHANGED <<target, todo, named>>

SetTags ==
  /\ pc = "setTags"
  /\ file' = [file EXCEPT !.tags = target]
  /\ Goes("idle")
  /\ target' = None
  /\ UNCHANGED <<todo, named, torn>>

-----------------------------------------------------------------------------
(* Renovate, and pin-resource.sh *)

\* Renovate puts a newer release into a tool's url, and nothing else.
Bump(t, r) ==
  /\ pc = "idle"
  /\ t \in DOMAIN file.res
  /\ r > file.res[t].url
  /\ file' = [file EXCEPT !.res[t].url = r]
  /\ Idle
  /\ UNCHANGED torn

\* <ARG> ..., or --all (which finds nothing to do in a file without resources).
StartPin(R) ==
  /\ pc = "idle"
  /\ R # {}
  /\ Starts("setSha", None, R)
  /\ UNCHANGED <<file, torn>>

\* <ARG> --url, for everything but the tarball, as the manifest's header says.
StartPinUrl(t, r) ==
  /\ pc = "idle"
  /\ Starts("setUrl", r, {t})
  /\ UNCHANGED <<file, torn>>

\* Mutant: the old sha256 stays beside the new url until the new one is known.
SetUrlOnly ==
  /\ pc = "setUrl"
  /\ \E t \in todo : SetResource(t, target, file.res[t].sha)
  /\ Goes("setSha")
  /\ UNCHANGED <<target, todo, named, torn>>

\* set-resource --url --sha256 "".
SetUrl ==
  /\ pc = "setUrl"
  /\ \E t \in todo : SetResource(t, target, None)
  /\ Goes("setSha")
  /\ UNCHANGED <<target, todo, named, torn>>

\* Mutant: a resource that has a sha256 already is passed over.
SetShaOfUnpinned ==
  /\ pc = "setSha"
  /\ \E r \in todo :
       /\ r \in DOMAIN file.res
       /\ IF file.res[r].sha = None THEN SetResource(r, file.res[r].url, file.res[r].url)
          ELSE UNCHANGED file
       /\ todo' = todo \ {r}
  /\ Goes(IF todo' = {} THEN "idle" ELSE "setSha")
  /\ target' = IF todo' = {} THEN None ELSE target
  /\ UNCHANGED <<named, torn>>

\* One round of the loop: what the url names is downloaded and summed.
SetSha ==
  /\ pc = "setSha"
  /\ \E r \in todo :
       /\ SetResource(r, file.res[r].url, file.res[r].url)
       /\ todo' = todo \ {r}
  /\ Goes(IF todo' = {} THEN "idle" ELSE "setSha")
  /\ target' = IF todo' = {} THEN None ELSE target
  /\ UNCHANGED <<named, torn>>

-----------------------------------------------------------------------------
(* ironbank.py apply *)

\* Mutant: any VERSION among the args goes before the tags.
ArgVersionFirst(ib) ==
  IF ib.arg # None THEN ib.arg ELSE IF ib.tag # None THEN ib.tag ELSE ib.product

IronBankVersion(ib) ==
  IF ib.tag # None THEN ib.tag ELSE IF ib.arg # None THEN ib.arg ELSE ib.product

\* Mutant: only a file of exactly our name is looked for.
MatchesExactly(e, t, ib) ==
  {f \in ib.files : Filename(f.tool, f.release) = e.name}

\* The file of Iron Bank's that entry e of tool t follows: the one of its
\* filename, or else the only one of the tool.
Matches(e, t, ib) ==
  LET exact == {f \in ib.files : Filename(f.tool, f.release) = e.name}
      alike == {f \in ib.files : f.tool = t}
  IN  IF exact # {} THEN exact
      ELSE IF \A f, g \in alike : f = g THEN alike ELSE {}

\* Mutant: a filename that is behind its url is brought up to date as well.
FollowFilename(e, t, ib) ==
  LET found == {f \in Matches(e, t, ib) : f.pinned}
      f == CHOOSE f \in found : TRUE
  IN  IF found = {} THEN e
      ELSE [name |-> Filename(t, f.release), url |-> f.release, sha |-> f.release]

\* Entry e of tool t after the sync; a match without a checksum is left alone.
Follow(e, t, ib) ==
  LET found == {f \in Matches(e, t, ib) : f.pinned}
      f == CHOOSE f \in found : TRUE
  IN  IF found = {} \/ (e.url = f.release /\ e.sha = f.release) THEN e
      ELSE [name |-> Filename(t, f.release), url |-> f.release, sha |-> f.release]

\* Manifest m after apply. Tags alone are no change, and nothing is saved.
Applied(m, ib) ==
  LET product == IF m.res[Product].url = ib.product /\ Pinned(m.res[Product])
                 THEN m.res[Product]
                 ELSE [name |-> Filename(Product, ib.product), url |-> ib.product,
                       sha |-> ib.product]
      new == [m EXCEPT !.version = IronBankVersion(ib),
                       !.res = [r \in Resources |-> IF r = Product THEN product
                                                    ELSE Follow(m.res[r], r, ib)]]
  IN  IF new = m THEN m ELSE [new EXCEPT !.tags = IronBankVersion(ib)]

\* A manifest of Iron Bank's whose tarball has no checksum, and a file of ours
\* without a PRODUCT, are errors that come before the save.
Sync(ib) ==
  /\ pc = "idle"
  /\ ib.pinned
  /\ Product \in DOMAIN file.res
  /\ file' = Applied(file, ib)
  /\ due' = {f \in ib.files : f.pinned /\ \A g \in ib.files : g.tool = f.tool => g = f}
  /\ named' = {}
  /\ torn' = FALSE
  /\ UNCHANGED <<pc, target, todo>>

-----------------------------------------------------------------------------
(* Failures and repairs *)

\* The script dies between two commands, a download fails or does not match
\* its published checksum, or the manifest lacks what it names.
Dies ==
  /\ pc # "idle"
  /\ Idle
  /\ torn' = (torn \/ pc = "setProduct")
  /\ UNCHANGED file

\* It dies in save, after write_text has opened the file and emptied it.
DiesInSave ==
  /\ pc # "idle"
  /\ Idle
  /\ file' = Empty
  /\ torn' = FALSE

\* No sync has anything to save.
UpToDate == \A ib \in IronBank : ib.pinned => Applied(file, ib) = file

\* The same for ironbank.py, when it has something to save.
SyncDiesInSave ==
  /\ pc = "idle"
  /\ Product \in DOMAIN file.res
  /\ ~UpToDate
  /\ Idle
  /\ file' = Empty
  /\ torn' = FALSE

\* git checkout.
Restore ==
  /\ pc = "idle"
  /\ file' = Seed
  /\ Idle
  /\ torn' = FALSE

Next ==
  \/ \E v \in Releases : StartPinVersion(v)
  \/ SetArg \/ SetProduct \/ SetTags
  \/ SetUrl \/ SetSha \/ \E R \in SUBSET Resources : StartPin(R)
  \/ \E t \in Tools, r \in Releases : Bump(t, r) \/ StartPinUrl(t, r)
  \/ \E ib \in IronBank : Sync(ib)
  \/ Dies \/ DiesInSave \/ SyncDiesInSave \/ Restore

Spec == Init /\ [][Next]_vars

-----------------------------------------------------------------------------
(* Properties *)

\* Whichever tools ran, in whatever order, and wherever they died: between two
\* tools, a manifest that builds builds the release it is tagged with, unless
\* the last pin-version.sh died between its first two saves; and a completed
\* pin or sync repairs that as well.
BuildsOneRelease ==
  pc = "idle" /\ ~torn /\ BuildSucceeds => file.res[Product].url = file.version

\* A file that save has emptied never comes back as a manifest the build
\* accepts without its resources.
EmptyIsNeverBuilt == BuildAccepts => DOMAIN file.res = Resources

\* pin-resource.sh ends well only with all it was called with pinned to what
\* their urls name now, whoever has changed those.
PinsWhatItNames ==
  pc = "idle" => \A r \in named : r \in DOMAIN file.res /\ Pinned(file.res[r])

\* No tool puts a checksum beside a url it is not of, nor leaves one there when
\* it dies between a new url and its checksum: only Renovate's bump does, and
\* the sha256 it leaves is one the build refuses.
Unpaired == {r \in DOMAIN file.res : file.res[r].sha \notin {None, file.res[r].url}}

OnlyABumpUnpairs ==
  [][Unpaired' \subseteq Unpaired \/ \E t \in Tools, r \in Releases : Bump(t, r)]_vars

\* A sync that ends well has adopted every tool Iron Bank pins in one release,
\* whatever filenames earlier bumps have left in our manifest.
SyncAdoptsTools ==
  \A f \in due : file.res[f.tool].url = f.release /\ file.res[f.tool].sha = f.release

\* The file as a rebuild sees it: VERSION, the tarball and one other resource.
Line == INSTANCE LineManifest WITH MaxVersion <- MaxRelease, MaxTool <- MaxRelease

Seen(m, t) == [version |-> m.version,
               product |-> [release |-> m.res[Product].url, sha |-> m.res[Product].sha],
               tool |-> [release |-> m.res[t].url, sha |-> m.res[t].sha],
               annotated |-> TRUE]

\* The releases Iron Bank pins t in: None if it does not pin it, and nothing if it
\* has two files of t, one to be chosen by its name.
PinnedIn(ib, t) ==
  LET alike == {f \in ib.files : f.tool = t}
  IN  IF \A f \in alike : ~f.pinned THEN {None}
      ELSE {f.release : f \in {g \in alike : alike = {g}}}

\* On every file the tools can leave behind, a sync does to each line of it what
\* IronBankSync takes it to do, and the file is saved (and loses its comments)
\* only when a version, a url or a checksum has changed.
SyncIsApply ==
  pc = "idle" /\ Product \in DOMAIN file.res =>
    \A ib \in IronBank : ib.pinned =>
      LET after == Applied(file, ib)
          upstream == [version |-> ib.product, pinned |-> TRUE]
      IN  /\ \A t \in Tools : \A r \in PinnedIn(ib, t) :
               Seen(after, t) =
                 [Line!Apply(Seen(file, t), upstream, r) EXCEPT !.annotated = TRUE]
          /\ after = file \/ \E t \in Resources : Seen(after, t) # Seen(file, t)
=============================================================================
