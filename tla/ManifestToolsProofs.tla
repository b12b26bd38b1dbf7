------------------------ MODULE ManifestToolsProofs ------------------------
(***************************************************************************)
(* Theorems about ManifestTools, for any resources, releases and Iron Bank *)
(* manifests.                                                              *)
(*                                                                         *)
(* The inductive invariant says of the file that it is Complete unless it  *)
(* has been emptied, that its entries keep their names (Named), and that   *)
(* it is of one release (OneRelease); of the script that runs, what it has *)
(* done so far (Progress), and of one that has ended, what it promised.    *)
(***************************************************************************)
EXTENDS ManifestTools, TLAPS

Complete == DOMAIN file.res = Resources

\* What has a version or an ARTEFACT has all its resources.
CompleteUnlessEmptied ==
  /\ file.version # None \/ file.artefact => Complete
  /\ pc \in {"setArg", "setProduct", "setTags"} => Complete

\* A filename may be behind its url, but it is the tool's own.
Named == \A r \in DOMAIN file.res : file.res[r].name[1] = r

OneRelease ==
  /\ pc # "setProduct" /\ ~torn /\ Complete => file.res[Product].url = file.version
  /\ pc = "setProduct" => file.version = target

Progress ==
  /\ pc \in {"setArg", "setProduct", "setUrl"} => target # None
  /\ pc \notin {"setUrl", "setSha"} => todo = {}
  /\ pc = "setUrl" => todo \subseteq Tools
  /\ pc # "idle" => due = {}

Promises ==
  /\ \A r \in named \ todo : r \in DOMAIN file.res /\ Pinned(file.res[r])
  /\ \A f \in due : /\ f.tool \in DOMAIN file.res
                    /\ file.res[f.tool].url = f.release /\ file.res[f.tool].sha = f.release

IInv == CompleteUnlessEmptied /\ Named /\ OneRelease /\ Progress /\ Promises

-----------------------------------------------------------------------------
(* What the operators return *)

\* What the assumptions say of releases and resources.
LEMMA ReleaseFacts == /\ 1 \in Releases /\ None \notin Releases
                      /\ Product \notin Tools /\ Resources = Tools \union {Product}
BY ReleaseAssumption, ToolAssumption DEF Releases, None, Resources

\* A filename is the tool's own.
LEMMA FilenameOfTool ==
  ASSUME NEW t \in Resources, NEW r \in Releases
  PROVE  Filename(t, r) \in Resources \X (Releases \union {None}) /\ Filename(t, r)[1] = t
BY DEF Filename

\* The domain of a manifest's resources is one of two.
LEMMA AllOrNone ==
  ASSUME TypeOK
  PROVE  /\ Complete \/ DOMAIN file.res = {}
         /\ \A r \in DOMAIN file.res : file.res[r] \in Entry
         /\ DOMAIN file.res \subseteq Resources
         /\ file.version \in Releases \union {None}
         /\ file.tags \in Releases \union {None}
         /\ file.artefact \in BOOLEAN
         /\ file.res \in [Resources -> Entry] \union [{} -> Entry]
<1> HIDE DEF Entry
<1> QED BY DEF TypeOK, Manifest, Complete

\* set-resource changes two fields of one resource.
LEMMA SetResourceEffect ==
  ASSUME TypeOK, NEW r, NEW url \in Releases, NEW sha \in Releases \union {None},
         SetResource(r, url, sha)
  PROVE  /\ r \in DOMAIN file.res
         /\ file' \in Manifest
         /\ DOMAIN file'.res = DOMAIN file.res
         /\ file'.res[r].url = url /\ file'.res[r].sha = sha
         /\ file'.res[r].name = file.res[r].name
         /\ \A q \in DOMAIN file.res : q # r => file'.res[q] = file.res[q]
         /\ file'.version = file.version /\ file'.artefact = file.artefact
<1> DEFINE e == [file.res[r] EXCEPT !.url = url, !.sha = sha]
           R == [file.res EXCEPT ![r] = e]
<1>1. r \in DOMAIN file.res /\ file' = [file EXCEPT !.res = R]
  BY DEF SetResource
<1>2. file.res[r] \in Entry
  BY <1>1, AllOrNone
<1>3. e \in Entry /\ e.url = url /\ e.sha = sha /\ e.name = file.res[r].name
  BY <1>2 DEF Entry
<1> HIDE DEF e
<1>4. /\ R \in [Resources -> Entry] \union [{} -> Entry]
      /\ DOMAIN R = DOMAIN file.res /\ R[r] = e
      /\ \A q \in DOMAIN file.res : q # r => R[q] = file.res[q]
  BY <1>1, <1>3, AllOrNone
<1> HIDE DEF R
<1>5. /\ file' \in Manifest /\ file'.res = R
      /\ file'.version = file.version /\ file'.artefact = file.artefact
  BY <1>1, <1>4 DEF TypeOK, Manifest
<1> QED BY <1>1, <1>3, <1>4, <1>5

\* set-resource of a url with the sha256 of the same release.
LEMMA SetPairedEffect ==
  ASSUME TypeOK, NEW r, NEW url \in Releases, SetResource(r, url, url)
  PROVE  /\ r \in DOMAIN file.res
         /\ file' \in Manifest
         /\ DOMAIN file'.res = DOMAIN file.res
         /\ file'.res[r].url = url /\ file'.res[r].sha = url
         /\ file'.res[r].name = file.res[r].name
         /\ \A q \in DOMAIN file.res : q # r => file'.res[q] = file.res[q]
         /\ file'.version = file.version /\ file'.artefact = file.artefact
<1>1. url \in Releases \union {None}
  OBVIOUS
<1> QED BY <1>1, SetResourceEffect

\* The version apply finds first is that of the tarball.
LEMMA VersionOfTarball ==
  ASSUME NEW ib \in IronBank
  PROVE  /\ IronBankVersion(ib) = ib.product /\ ib.product \in Releases
         /\ ib.files \subseteq IronBankFile
<1>1. ib \in IronBankManifest /\ IsConsistent(ib)
  BY IronBankAssumption
<1>2. ib.product \in Releases /\ ib.files \subseteq IronBankFile
  BY <1>1 DEF IronBankManifest
<1>3. IronBankVersion(ib) = ib.product
  BY <1>1, <1>2, ReleaseFacts DEF IronBankVersion, IsConsistent
<1> QED BY <1>2, <1>3

\* What follows Iron Bank's file is an entry of the same tool, and is paired.
LEMMA FollowEffect ==
  ASSUME NEW ib \in IronBank, NEW t \in Tools, NEW e \in Entry, e.name[1] = t
  PROVE  /\ Follow(e, t, ib) \in Entry
         /\ Follow(e, t, ib).name[1] = t
         /\ Follow(e, t, ib) = e \/ Follow(e, t, ib).sha = Follow(e, t, ib).url
<1> DEFINE found == {f \in Matches(e, t, ib) : f.pinned}
           f == CHOOSE f \in found : TRUE
<1>1. CASE found = {} \/ (e.url = f.release /\ e.sha = f.release)
  <2>1. Follow(e, t, ib) = e
    BY <1>1 DEF Follow
  <2> QED BY <2>1
<1>2. CASE ~(found = {} \/ (e.url = f.release /\ e.sha = f.release))
  <2>1. f \in Matches(e, t, ib)
    BY <1>2
  <2>2. f \in ib.files
    BY <2>1 DEF Matches
  <2>3. f.release \in Releases
    BY <2>2, VersionOfTarball DEF IronBankFile
  <2>4. Follow(e, t, ib) = [name |-> Filename(t, f.release), url |-> f.release, sha |-> f.release]
    BY <1>2 DEF Follow
  <2> HIDE DEF f
  <2>5. t \in Resources
    BY ReleaseFacts
  <2> QED BY <2>3, <2>4, <2>5, FilenameOfTool DEF Entry
<1> QED BY <1>1, <1>2

\* A tool Iron Bank pins in one release only is matched, by name or by tool.
LEMMA FollowAdopts ==
  ASSUME NEW ib \in IronBank, NEW e \in Entry, NEW g \in ib.files, e.name[1] = g.tool,
         g.pinned, \A h \in ib.files : h.tool = g.tool => h = g
  PROVE  Follow(e, g.tool, ib).url = g.release /\ Follow(e, g.tool, ib).sha = g.release
<1> DEFINE exact == {f \in ib.files : Filename(f.tool, f.release) = e.name}
           alike == {f \in ib.files : f.tool = g.tool}
<1>1. exact \subseteq {g}
  BY DEF Filename
<1>2. alike = {g}
  OBVIOUS
<1>3. Matches(e, g.tool, ib) = {g}
  BY <1>1, <1>2 DEF Matches
<1>4. {f \in Matches(e, g.tool, ib) : f.pinned} = {g}
  BY <1>3
<1> DEFINE f == CHOOSE f \in {h \in Matches(e, g.tool, ib) : h.pinned} : TRUE
<1>5. f = g
  BY <1>4
<1>6. Follow(e, g.tool, ib) =
        IF e.url = g.release /\ e.sha = g.release THEN e
        ELSE [name |-> Filename(g.tool, g.release), url |-> g.release, sha |-> g.release]
  BY <1>4, <1>5 DEF Follow
<1> QED BY <1>6

\* A sync makes the whole manifest Iron Bank's.
LEMMA AppliedEffect ==
  ASSUME TypeOK, Named, Product \in DOMAIN file.res, NEW ib \in IronBank, NEW n,
         n = Applied(file, ib)
  PROVE  /\ n \in Manifest /\ DOMAIN n.res = Resources
         /\ n.version = ib.product /\ n.res[Product].url = ib.product
         /\ n.res[Product].sha = ib.product /\ n.res[Product].name[1] = Product
         /\ \A t \in Tools : n.res[t] = Follow(file.res[t], t, ib)
<1> DEFINE Fresh == [name |-> Filename(Product, ib.product), url |-> ib.product,
                     sha |-> ib.product]
           product == IF file.res[Product].url = ib.product /\ Pinned(file.res[Product])
                      THEN file.res[Product] ELSE Fresh
           R == [r \in Resources |-> IF r = Product THEN product
                                     ELSE Follow(file.res[r], r, ib)]
           new == [file EXCEPT !.version = IronBankVersion(ib), !.res = R]
<1>1. Complete
  BY AllOrNone, ReleaseFacts
<1>2. IronBankVersion(ib) = ib.product /\ ib.product \in Releases
  BY VersionOfTarball
<1>3. /\ product \in Entry /\ product.url = ib.product /\ product.sha = ib.product
      /\ product.name[1] = Product
  <2>1. Fresh \in Entry /\ Fresh.name[1] = Product
    BY <1>2, FilenameOfTool, ReleaseFacts DEF Entry
  <2>2. file.res[Product] \in Entry /\ file.res[Product].name[1] = Product
    BY AllOrNone DEF Named
  <2> QED BY <2>1, <2>2 DEF Pinned
<1> HIDE DEF product
<1>4. \A t \in Tools : R[t] = Follow(file.res[t], t, ib) /\ R[t] \in Entry
  BY <1>1, FollowEffect, AllOrNone, ReleaseFacts DEF Complete, Named
<1>5. R[Product] = product
  BY ReleaseFacts
<1>6. R \in [Resources -> Entry]
  <2>1. \A r \in Resources : R[r] \in Entry
    BY <1>3, <1>4, <1>5, ReleaseFacts
  <2> HIDE DEF Entry
  <2> QED BY <2>1
<1>7. n = IF new = file THEN file ELSE [new EXCEPT !.tags = IronBankVersion(ib)]
  BY DEF Applied, product
<1> HIDE DEF R
<1>8. /\ n.res = R /\ n.version = ib.product /\ n.artefact = file.artefact
      /\ n.tags \in Releases \union {None} /\ n \in Manifest
  <2> HIDE DEF Entry
  <2>1. new.res = R /\ new.version = ib.product /\ new \in Manifest
    BY <1>2, <1>6 DEF TypeOK, Manifest
  <2>2. CASE new = file
    BY <1>7, <2>1, <2>2, AllOrNone
  <2>3. CASE new # file
    <3> DEFINE last == [new EXCEPT !.tags = IronBankVersion(ib)]
    <3>1. n = last
      BY <1>7, <2>3
    <3>2. /\ last.res = new.res /\ last.version = new.version /\ last.tags = ib.product
          /\ last.artefact = file.artefact /\ last \in Manifest
      BY <1>2, <2>1 DEF TypeOK, Manifest
    <3> QED BY <1>2, <2>1, <3>1, <3>2
  <2> QED BY <2>2, <2>3
<1> QED BY <1>3, <1>4, <1>5, <1>6, <1>8

-----------------------------------------------------------------------------
(* Types *)

\* The manifest of the repository is of its type, complete and of one release.
LEMMA SeedTyped ==
  /\ Seed \in Manifest /\ Seed.version = 1 /\ Seed.artefact
  /\ DOMAIN Seed.res = Resources
  /\ \A r \in Resources : /\ Seed.res[r].url = 1 /\ Seed.res[r].sha \in {None, 1}
                          /\ Seed.res[r].name[1] = r
<1>1. \A r \in Resources : SeedEntry(r) \in Entry /\ SeedEntry(r).name[1] = r
  BY FilenameOfTool, ReleaseFacts DEF SeedEntry, Entry
<1>2. \A r \in Resources : SeedEntry(r).url = 1 /\ SeedEntry(r).sha \in {None, 1}
  BY DEF SeedEntry
<1> HIDE DEF Entry
<1> QED BY <1>1, <1>2, ReleaseFacts DEF Seed, Manifest

\* A file that save has emptied parses, without version and resources.
LEMMA EmptyTyped ==
  /\ Empty \in Manifest /\ Empty.version = None /\ ~Empty.artefact
  /\ DOMAIN Empty.res = {}
<1>1. [r \in {} |-> None] \in [{} -> Entry]
  OBVIOUS
<1> HIDE DEF Entry
<1> QED BY <1>1 DEF Empty, Manifest

\* The first state is of its type.
LEMMA InitTypeOK == Init => TypeOK
BY SeedTyped, ReleaseFacts DEF Init, TypeOK

\* Every command of every tool keeps the types.
LEMMA NextTypeOK == TypeOK /\ IInv /\ [Next]_vars => TypeOK'
<1> SUFFICES ASSUME TypeOK, IInv, [Next]_vars PROVE TypeOK'
  OBVIOUS
<1> USE ReleaseFacts DEF script
<1> HIDE DEF Manifest, Entry
<1>1. ASSUME NEW v \in Releases, StartPinVersion(v) PROVE TypeOK'
  BY <1>1 DEF StartPinVersion, Starts, TypeOK
<1>2. CASE SetArg
  <2>1. target \in Releases
    BY <1>2 DEF SetArg, TypeOK, IInv, Progress
  <2>2. file' \in Manifest
    BY <1>2, <2>1 DEF SetArg, SetVersion, TypeOK, Manifest
  <2> QED BY <1>2, <2>2 DEF SetArg, Goes, TypeOK
<1>3. CASE SetProduct
  <2>1. target \in Releases
    BY <1>3 DEF SetProduct, TypeOK, IInv, Progress
  <2>2. file' \in Manifest
    BY <1>3, <2>1, SetResourceEffect DEF SetProduct
  <2> QED BY <1>3, <2>2 DEF SetProduct, Goes, TypeOK
<1>4. CASE SetTags
  <2>1. file' \in Manifest
    BY <1>4 DEF SetTags, TypeOK, Manifest
  <2> QED BY <1>4, <2>1 DEF SetTags, Goes, TypeOK
<1>5. ASSUME NEW R \in SUBSET Resources, StartPin(R) PROVE TypeOK'
  BY <1>5, AllOrNone DEF StartPin, Starts, TypeOK
<1>6. CASE SetUrl
  <2>1. PICK t \in todo : SetResource(t, target, None)
    BY <1>6 DEF SetUrl
  <2>2. target \in Releases
    BY <1>6 DEF SetUrl, TypeOK, IInv, Progress
  <2>3. file' \in Manifest
    BY <2>1, <2>2, SetResourceEffect
  <2> QED BY <1>6, <2>3 DEF SetUrl, Goes, TypeOK
<1>7. CASE SetSha
  <2>1. PICK r \in todo : /\ SetResource(r, file.res[r].url, file.res[r].url)
                         /\ todo' = todo \ {r}
    BY <1>7 DEF SetSha
  <2>2. file.res[r].url \in Releases
    BY <2>1, AllOrNone DEF SetResource, Entry
  <2>3. file' \in Manifest
    BY <2>1, <2>2, SetResourceEffect
  <2> QED BY <1>7, <2>1, <2>3 DEF SetSha, Goes, TypeOK
<1>8. ASSUME NEW t \in Tools, NEW r \in Releases, Bump(t, r) PROVE TypeOK'
  <2> DEFINE e == [file.res[t] EXCEPT !.url = r]
             R == [file.res EXCEPT ![t] = e]
  <2>1. t \in DOMAIN file.res /\ file' = [file EXCEPT !.res = R]
    BY <1>8 DEF Bump
  <2>2. e \in Entry
    BY <2>1, AllOrNone DEF Entry
  <2> HIDE DEF e
  <2>3. R \in [Resources -> Entry] \union [{} -> Entry]
    BY <2>1, <2>2, AllOrNone
  <2> HIDE DEF R
  <2>4. file' \in Manifest
    BY <2>1, <2>3 DEF TypeOK, Manifest
  <2> QED BY <1>8, <2>4 DEF Bump, Idle, TypeOK
<1>9. ASSUME NEW t \in Tools, NEW r \in Releases, StartPinUrl(t, r) PROVE TypeOK'
  BY <1>9 DEF StartPinUrl, Starts, TypeOK
<1>10. ASSUME NEW ib \in IronBank, Sync(ib) PROVE TypeOK'
  <2>1. file' \in Manifest
    BY <1>10, AppliedEffect DEF Sync, IInv
  <2>2. due' \in SUBSET IronBankFile
    BY <1>10, VersionOfTarball DEF Sync
  <2> QED BY <1>10, <2>1, <2>2 DEF Sync, TypeOK
<1>11. CASE SyncDiesInSave
  BY <1>11, EmptyTyped DEF SyncDiesInSave, Idle, TypeOK
<1>12. CASE Dies
  BY <1>12 DEF Dies, Idle, TypeOK
<1>13. CASE DiesInSave
  BY <1>13, EmptyTyped DEF DiesInSave, Idle, TypeOK
<1>14. CASE Restore
  BY <1>14, SeedTyped DEF Restore, Idle, TypeOK
<1>15. CASE UNCHANGED vars
  BY <1>15 DEF vars, TypeOK
<1> QED
  BY <1>1, <1>2, <1>3, <1>4, <1>5, <1>6, <1>7, <1>8, <1>9, <1>10, <1>11, <1>12, <1>13, <1>14,
     <1>15 DEF Next

-----------------------------------------------------------------------------
(* The inductive step *)

\* The repository's manifest is of one release, and nothing is promised of it.
LEMMA InitIInv == Init => IInv
BY SeedTyped, ReleaseFacts DEF Init, IInv, CompleteUnlessEmptied, Complete, Named, OneRelease, Progress, Promises

\* Every command of every tool keeps the inductive invariant.
LEMMA NextIInv == TypeOK /\ IInv /\ [Next]_vars => IInv'
<1> SUFFICES ASSUME TypeOK, IInv, [Next]_vars PROVE IInv'
  OBVIOUS
<1> USE ReleaseFacts
    DEF script, IInv, CompleteUnlessEmptied, Complete, Named, OneRelease, Progress, Promises,
        Pinned
<1> HIDE DEF Manifest, Entry
<1>1. ASSUME NEW v \in Releases, StartPinVersion(v) PROVE IInv'
  BY <1>1 DEF StartPinVersion, Starts
<1>2. CASE SetArg
  <2>1. /\ file'.version = target /\ file'.artefact = file.artefact /\ file'.res = file.res
        /\ pc = "setArg" /\ pc' = "setProduct" /\ UNCHANGED <<target, todo, named, due, torn>>
    BY <1>2 DEF SetArg, SetVersion, Goes, TypeOK, Manifest
  <2> QED BY <2>1
<1>3. CASE SetProduct
  <2>1. /\ pc = "setProduct" /\ pc' = "setTags" /\ ~torn'
        /\ UNCHANGED <<target, todo, named, due>>
        /\ SetResource(Product, target, target) /\ target \in Releases
    BY <1>3 DEF SetProduct, Goes, TypeOK
  <2>2. /\ DOMAIN file'.res = DOMAIN file.res
        /\ file'.res[Product].url = target /\ file'.res[Product].sha = target
        /\ file'.res[Product].name = file.res[Product].name
        /\ \A q \in DOMAIN file.res : q # Product => file'.res[q] = file.res[q]
        /\ file'.version = file.version /\ file'.artefact = file.artefact
    BY <2>1, SetPairedEffect
  <2> QED BY <2>1, <2>2
<1>4. CASE SetTags
  <2>1. /\ file'.version = file.version /\ file'.artefact = file.artefact
        /\ file'.res = file.res
        /\ pc = "setTags" /\ pc' = "idle" /\ UNCHANGED <<todo, named, due, torn>>
    BY <1>4 DEF SetTags, Goes, TypeOK, Manifest
  <2> QED BY <2>1
<1>5. ASSUME NEW R \in SUBSET Resources, StartPin(R) PROVE IInv'
  BY <1>5 DEF StartPin, Starts
<1>6. CASE SetUrl
  <2>1. PICK t \in todo : SetResource(t, target, None)
    BY <1>6 DEF SetUrl
  <2>2. /\ pc = "setUrl" /\ pc' = "setSha" /\ UNCHANGED <<target, todo, named, due, torn>>
        /\ target \in Releases /\ t \in Tools
    BY <1>6 DEF SetUrl, Goes, TypeOK
  <2>3. /\ DOMAIN file'.res = DOMAIN file.res
        /\ file'.res[t].name = file.res[t].name
        /\ \A q \in DOMAIN file.res : q # t => file'.res[q] = file.res[q]
        /\ file'.version = file.version /\ file'.artefact = file.artefact
    BY <2>1, <2>2, SetResourceEffect
  <2> QED BY <2>2, <2>3
<1>7. CASE SetSha
  <2>1. PICK r \in todo : /\ SetResource(r, file.res[r].url, file.res[r].url)
                         /\ todo' = todo \ {r}
    BY <1>7 DEF SetSha
  <2>2. /\ pc = "setSha" /\ pc' = (IF todo' = {} THEN "idle" ELSE "setSha")
        /\ UNCHANGED <<named, due, torn>>
    BY <1>7 DEF SetSha, Goes
  <2>3. file.res[r].url \in Releases
    BY <2>1, AllOrNone DEF SetResource, Entry
  <2>4. /\ r \in DOMAIN file.res /\ DOMAIN file'.res = DOMAIN file.res
        /\ file'.res[r].url = file.res[r].url /\ file'.res[r].sha = file.res[r].url
        /\ file'.res[r].name = file.res[r].name
        /\ \A q \in DOMAIN file.res : q # r => file'.res[q] = file.res[q]
        /\ file'.version = file.version /\ file'.artefact = file.artefact
    BY <2>1, <2>3, SetPairedEffect
  <2> QED BY <2>1, <2>2, <2>4
<1>8. ASSUME NEW t \in Tools, NEW r \in Releases, Bump(t, r) PROVE IInv'
  <2> DEFINE e == [file.res[t] EXCEPT !.url = r]
             R == [file.res EXCEPT ![t] = e]
  <2>1. t \in DOMAIN file.res /\ file' = [file EXCEPT !.res = R]
    BY <1>8 DEF Bump
  <2>2. e.name = file.res[t].name
    BY <2>1, AllOrNone DEF Entry
  <2> HIDE DEF e
  <2>3. /\ DOMAIN R = DOMAIN file.res /\ R[t] = e
        /\ \A q \in DOMAIN file.res : q # t => R[q] = file.res[q]
    BY <2>1, AllOrNone
  <2> HIDE DEF R
  <2>4. /\ file'.res = R /\ file'.version = file.version /\ file'.artefact = file.artefact
    BY <2>1 DEF TypeOK, Manifest
  <2>5. pc' = "idle" /\ todo' = {} /\ named' = {} /\ due' = {} /\ UNCHANGED torn /\ pc = "idle"
    BY <1>8 DEF Bump, Idle
  <2> QED BY <2>2, <2>3, <2>4, <2>5
<1>9. ASSUME NEW t \in Tools, NEW r \in Releases, StartPinUrl(t, r) PROVE IInv'
  BY <1>9 DEF StartPinUrl, Starts
<1>10. ASSUME NEW ib \in IronBank, Sync(ib) PROVE IInv'
  <2>1. /\ pc = "idle" /\ named' = {} /\ UNCHANGED <<pc, target, todo>>
        /\ due' = {f \in ib.files : f.pinned /\ \A g \in ib.files : g.tool = f.tool => g = f}
        /\ Product \in DOMAIN file.res /\ file' = Applied(file, ib)
    BY <1>10 DEF Sync
  <2>2. /\ DOMAIN file'.res = Resources
        /\ file'.version = ib.product /\ file'.res[Product].url = ib.product
        /\ file'.res[Product].name[1] = Product
        /\ \A t \in Tools : file'.res[t] = Follow(file.res[t], t, ib)
    BY <2>1, AppliedEffect
  <2>3. \A t \in Tools : file.res[t] \in Entry /\ file.res[t].name[1] = t
    BY <2>1, AllOrNone
  <2>4. \A t \in Tools : file'.res[t].name[1] = t
    BY <2>2, <2>3, FollowEffect
  <2>5. \A f \in due' : /\ f.tool \in Tools
                        /\ file'.res[f.tool].url = f.release
                        /\ file'.res[f.tool].sha = f.release
    <3> TAKE f \in due'
    <3>1. f \in ib.files /\ f.pinned /\ \A g \in ib.files : g.tool = f.tool => g = f
      BY <2>1
    <3>2. f.tool \in Tools
      BY <3>1, VersionOfTarball DEF IronBankFile
    <3> QED BY <2>2, <2>3, <3>1, <3>2, FollowAdopts
  <2> QED BY <2>1, <2>2, <2>4, <2>5
<1>11. CASE SyncDiesInSave
  BY <1>11, EmptyTyped DEF SyncDiesInSave, Idle
<1>12. CASE Dies
  BY <1>12 DEF Dies, Idle
<1>13. CASE DiesInSave
  BY <1>13, EmptyTyped DEF DiesInSave, Idle
<1>14. CASE Restore
  BY <1>14, SeedTyped DEF Restore, Idle
<1>15. CASE UNCHANGED vars
  BY <1>15 DEF vars
<1> QED
  BY <1>1, <1>2, <1>3, <1>4, <1>5, <1>6, <1>7, <1>8, <1>9, <1>10, <1>11, <1>12, <1>13, <1>14,
     <1>15 DEF Next

\* So it always holds, with the types.
LEMMA AlwaysIInv == Spec => [](TypeOK /\ IInv)
<1>1. Init => TypeOK /\ IInv
  BY InitTypeOK, InitIInv
<1>2. TypeOK /\ IInv /\ [Next]_vars => (TypeOK /\ IInv)'
  BY NextTypeOK, NextIInv
<1> QED BY <1>1, <1>2, PTL DEF Spec

-----------------------------------------------------------------------------
(* Theorems *)

\* Every manifest the tools can leave is of its type.
THEOREM Typing == Spec => []TypeOK
BY AlwaysIInv, PTL

\* Between two tools, a manifest that builds builds the release it is tagged
\* with, unless pin-version.sh has died between its first two saves.
THEOREM AlwaysBuildsOneRelease == Spec => []BuildsOneRelease
<1>1. IInv => BuildsOneRelease
  BY DEF IInv, OneRelease, BuildsOneRelease, BuildSucceeds, Complete
<1> QED BY <1>1, AlwaysIInv, PTL

\* A manifest that save has emptied is not accepted until it is restored.
THEOREM NeverBuildsEmpty == Spec => []EmptyIsNeverBuilt
<1>1. IInv => EmptyIsNeverBuilt
  BY DEF IInv, CompleteUnlessEmptied, Complete, EmptyIsNeverBuilt, BuildAccepts
<1> QED BY <1>1, AlwaysIInv, PTL

\* When pin-resource.sh ends well, all it was called with is pinned.
THEOREM AlwaysPinsWhatItNames == Spec => []PinsWhatItNames
<1>1. IInv => PinsWhatItNames
  BY DEF IInv, Progress, Promises, PinsWhatItNames
<1> QED BY <1>1, AlwaysIInv, PTL

\* A completed sync has adopted what Iron Bank pins alone of a tool.
THEOREM SyncAlwaysAdoptsTools == Spec => []SyncAdoptsTools
<1>1. IInv => SyncAdoptsTools
  BY DEF IInv, Promises, SyncAdoptsTools
<1> QED BY <1>1, AlwaysIInv, PTL

\* Only Renovate's bump leaves a checksum beside a url it is not of: SetUrl
\* clears it, and every other save stores the two together.
THEOREM AlwaysOnlyABumpUnpairs == Spec => OnlyABumpUnpairs
<1> DEFINE Bumps == \E t \in Tools, r \in Releases : Bump(t, r)
           Kept(q) == /\ q \in DOMAIN file.res
                      /\ file'.res[q].url = file.res[q].url
                      /\ file'.res[q].sha = file.res[q].sha
           Paired(q) == file'.res[q].sha \in {None, file'.res[q].url}
           Kind == \A q \in DOMAIN file'.res : Kept(q) \/ Paired(q)
<1>1. TypeOK /\ IInv /\ [Next]_vars => Kind \/ Bumps
  <2> SUFFICES ASSUME TypeOK, IInv, [Next]_vars PROVE Kind \/ Bumps
    OBVIOUS
  <2> HIDE DEF Manifest, Entry
  <2>1. CASE UNCHANGED file
    BY <2>1
  <2>2. CASE SetArg
    BY <2>2 DEF SetArg, SetVersion, TypeOK, Manifest
  <2>3. CASE SetTags
    BY <2>3 DEF SetTags, TypeOK, Manifest
  <2>4. CASE SetProduct
    <3>1. target \in Releases /\ SetResource(Product, target, target)
      BY <2>4 DEF SetProduct, TypeOK, IInv, Progress
    <3> QED BY <3>1, SetPairedEffect
  <2>5. CASE SetUrl
    <3>1. PICK t \in todo : SetResource(t, target, None)
      BY <2>5 DEF SetUrl
    <3>2. target \in Releases
      BY <2>5 DEF SetUrl, TypeOK, IInv, Progress
    <3> QED BY <3>1, <3>2, SetResourceEffect
  <2>6. CASE SetSha
    <3>1. PICK r \in todo : SetResource(r, file.res[r].url, file.res[r].url)
      BY <2>6 DEF SetSha
    <3>2. file.res[r].url \in Releases
      BY <3>1, AllOrNone DEF SetResource, Entry
    <3> QED BY <3>1, <3>2, SetPairedEffect
  <2>7. ASSUME NEW ib \in IronBank, Sync(ib) PROVE Kind
    <3>1. Product \in DOMAIN file.res /\ file' = Applied(file, ib)
      BY <2>7 DEF Sync
    <3>2. /\ DOMAIN file'.res = Resources
          /\ file'.res[Product].url = file'.res[Product].sha
          /\ \A t \in Tools : file'.res[t] = Follow(file.res[t], t, ib)
      BY <3>1, AppliedEffect DEF IInv
    <3>3. Complete
      BY <3>1, AllOrNone
    <3>4. \A t \in Tools : file'.res[t] = file.res[t] \/ file'.res[t].sha = file'.res[t].url
      BY <3>2, <3>3, AllOrNone, FollowEffect, ReleaseFacts DEF IInv, Named, Complete
    <3> QED BY <3>2, <3>3, <3>4, ReleaseFacts DEF Complete
  <2>8. CASE file' = Empty
    BY <2>8, EmptyTyped
  <2>9. CASE file' = Seed
    BY <2>9, SeedTyped
  <2> QED
    BY <2>1, <2>2, <2>3, <2>4, <2>5, <2>6, <2>7, <2>8, <2>9
    DEF Next, vars, StartPinVersion, StartPin, StartPinUrl, SyncDiesInSave, Dies, DiesInSave,
        Restore
<1>2. Kind => Unpaired' \subseteq Unpaired
  BY DEF Unpaired
<1>3. TypeOK /\ IInv /\ [Next]_vars =>
        [Unpaired' \subseteq Unpaired \/ \E t \in Tools, r \in Releases : Bump(t, r)]_vars
  BY <1>1, <1>2
<1> QED BY <1>3, AlwaysIInv, PTL DEF Spec, OnlyABumpUnpairs

-----------------------------------------------------------------------------
(* The sync of this module is the one of IronBankSync *)

\* A tool Iron Bank does not pin is left alone.
LEMMA FollowLeavesAlone ==
  ASSUME NEW ib \in IronBank, NEW t \in Tools, NEW e \in Entry, e.name[1] = t,
         \A f \in ib.files : f.tool = t => ~f.pinned
  PROVE  Follow(e, t, ib) = e
<1>1. \A f \in Matches(e, t, ib) : f \in ib.files /\ f.tool = t
  BY DEF Matches, Filename
<1>2. {f \in Matches(e, t, ib) : f.pinned} = {}
  BY <1>1
<1> QED BY <1>2 DEF Follow

\* A tool is pinned in one release or in none, as far as PinnedIn says.
LEMMA PinnedInOne ==
  ASSUME NEW ib \in IronBank, NEW t \in Tools, NEW r \in PinnedIn(ib, t)
  PROVE  \/ r = None /\ \A f \in ib.files : f.tool = t => ~f.pinned
         \/ /\ r \in Releases
            /\ \E g \in ib.files : /\ g.tool = t /\ g.pinned /\ g.release = r
                                   /\ \A h \in ib.files : h.tool = t => h = g
<1> DEFINE alike == {f \in ib.files : f.tool = t}
<1>1. CASE \A f \in alike : ~f.pinned
  BY <1>1 DEF PinnedIn
<1>2. CASE ~ \A f \in alike : ~f.pinned
  <2>1. PICK g \in alike : alike = {g} /\ r = g.release
    BY <1>2 DEF PinnedIn
  <2>2. g.pinned
    BY <1>2, <2>1
  <2>3. r \in Releases
    BY <2>1, VersionOfTarball DEF IronBankFile
  <2> QED BY <2>1, <2>2, <2>3
<1> QED BY <1>1, <1>2

\* An entry that has the url and the checksum it would get is not touched.
LEMMA FollowSettled ==
  ASSUME NEW ib, NEW t, NEW e,
         Follow(e, t, ib).url = e.url, Follow(e, t, ib).sha = e.sha
  PROVE  Follow(e, t, ib) = e
<1> DEFINE found == {f \in Matches(e, t, ib) : f.pinned}
           f == CHOOSE f \in found : TRUE
           new == [name |-> Filename(t, f.release), url |-> f.release, sha |-> f.release]
<1>1. Follow(e, t, ib) = IF found = {} \/ (e.url = f.release /\ e.sha = f.release)
                         THEN e ELSE new
  BY DEF Follow
<1>2. new.url = f.release /\ new.sha = f.release
  OBVIOUS
<1> HIDE DEF f, found, new
<1> QED BY <1>1, <1>2

\* What apply does to the line of the file that tool t is on.
LEMMA LineApplies ==
  ASSUME TypeOK, Named, Product \in DOMAIN file.res, NEW ib \in IronBank,
         NEW t \in Tools, NEW r \in PinnedIn(ib, t)
  PROVE  Seen(Applied(file, ib), t) =
           [Line!Apply(Seen(file, t), [version |-> ib.product, pinned |-> TRUE], r)
              EXCEPT !.annotated = TRUE]
<1> DEFINE m == Seen(file, t)
           u == [version |-> ib.product, pinned |-> TRUE]
           new == [m EXCEPT !.version = u.version, !.product = Line!Pin(u.version),
                            !.tool = IF r = 0 THEN @ ELSE Line!Pin(r)]
           after == Applied(file, ib)
<1>1. /\ after.version = ib.product
      /\ after.res[Product].url = ib.product /\ after.res[Product].sha = ib.product
      /\ after.res[t] = Follow(file.res[t], t, ib)
  BY AppliedEffect
<1>2. file.res[t] \in Entry /\ file.res[t].name[1] = t
  BY AllOrNone, ReleaseFacts DEF Complete, Named
<1>3. IF r = 0 THEN after.res[t] = file.res[t]
      ELSE after.res[t].url = r /\ after.res[t].sha = r
  <2>1. CASE r = None /\ \A f \in ib.files : f.tool = t => ~f.pinned
    BY <1>1, <1>2, <2>1, FollowLeavesAlone DEF None
  <2>2. CASE r \in Releases /\ \E g \in ib.files :
               /\ g.tool = t /\ g.pinned /\ g.release = r
               /\ \A h \in ib.files : h.tool = t => h = g
    <3>1. r # 0
      BY <2>2, ReleaseFacts DEF None
    <3> QED BY <1>1, <1>2, <2>2, <3>1, FollowAdopts
  <2> QED BY <2>1, <2>2, PinnedInOne
<1> DEFINE tool == [release |-> file.res[t].url, sha |-> file.res[t].sha]
           newTool == IF r = 0 THEN tool ELSE [release |-> r, sha |-> r]
<1>4. new = [version |-> ib.product,
             product |-> [release |-> ib.product, sha |-> ib.product],
             tool |-> newTool, annotated |-> TRUE]
  <2>1. m.tool = tool
    BY DEF Seen
  <2>2. /\ Line!Pin(u.version) = [release |-> ib.product, sha |-> ib.product]
        /\ Line!Pin(r) = [release |-> r, sha |-> r]
    BY DEF Line!Pin
  <2>3. (IF r = 0 THEN m.tool ELSE Line!Pin(r)) = newTool
    BY <2>1, <2>2
  <2> DEFINE product == [release |-> file.res[Product].url, sha |-> file.res[Product].sha]
  <2>4. m = [version |-> file.version, product |-> product, tool |-> tool,
             annotated |-> TRUE]
    BY DEF Seen
  <2>5. new = [m EXCEPT !.version = ib.product,
                        !.product = [release |-> ib.product, sha |-> ib.product],
                        !.tool = newTool]
    BY <2>2, <2>3
  <2> HIDE DEF m, new, tool, newTool, product
  <2> QED BY <2>4, <2>5
<1>5. Seen(after, t) = new
  BY <1>1, <1>3, <1>4 DEF Seen
<1>6. Line!Apply(m, u, r) = IF new = m THEN m ELSE [new EXCEPT !.annotated = FALSE]
  BY DEF Line!Apply
<1>7. [Line!Apply(m, u, r) EXCEPT !.annotated = TRUE] = new
  BY <1>4, <1>6
<1> QED BY <1>5, <1>7

\* A file whose versions, urls and checksums stay is not saved.
LEMMA SavedIfSeen ==
  ASSUME TypeOK, Named, Product \in DOMAIN file.res, NEW ib \in IronBank,
         \A t \in Resources : Seen(Applied(file, ib), t) = Seen(file, t)
  PROVE  Applied(file, ib) = file
<1> DEFINE after == Applied(file, ib)
           product == IF file.res[Product].url = ib.product /\ Pinned(file.res[Product])
                      THEN file.res[Product]
                      ELSE [name |-> Filename(Product, ib.product), url |-> ib.product,
                            sha |-> ib.product]
           R == [r \in Resources |-> IF r = Product THEN product
                                     ELSE Follow(file.res[r], r, ib)]
           new == [file EXCEPT !.version = IronBankVersion(ib), !.res = R]
<1>1. /\ after.version = ib.product
      /\ after.res[Product].url = ib.product /\ after.res[Product].sha = ib.product
      /\ \A t \in Tools : after.res[t] = Follow(file.res[t], t, ib)
  BY AppliedEffect
<1>2. \A t \in Resources : /\ after.version = file.version
                           /\ after.res[Product].url = file.res[Product].url
                           /\ after.res[Product].sha = file.res[Product].sha
                           /\ after.res[t].url = file.res[t].url
                           /\ after.res[t].sha = file.res[t].sha
  BY DEF Seen
<1>3. product = file.res[Product]
  BY <1>1, <1>2, ReleaseFacts DEF Pinned
<1>4. \A t \in Tools : Follow(file.res[t], t, ib) = file.res[t]
  BY <1>1, <1>2, ReleaseFacts, FollowSettled
<1>5. DOMAIN file.res = Resources /\ file.res \in [Resources -> Entry]
  BY AllOrNone, ReleaseFacts DEF Complete
<1>6. R = file.res
  <2> HIDE DEF product, Entry
  <2>1. \A r \in Resources : R[r] = file.res[r]
    BY <1>3, <1>4, ReleaseFacts
  <2> QED BY <1>5, <2>1
<1>7. IronBankVersion(ib) = file.version
  BY <1>1, <1>2, ReleaseFacts, VersionOfTarball
<1>8. after = IF new = file THEN file ELSE [new EXCEPT !.tags = IronBankVersion(ib)]
  BY DEF Applied
<1> HIDE DEF R
<1>9. new = file
  <2> HIDE DEF Entry
  <2> QED BY <1>6, <1>7 DEF TypeOK, Manifest
<1> QED BY <1>8, <1>9

\* On any file the tools can leave behind, the sync has on each line the effect
\* IronBankSync gives it, and saves only what has changed.
THEOREM SyncIsAlwaysApply == Spec => []SyncIsApply
<1>1. TypeOK /\ IInv => SyncIsApply
  <2> SUFFICES ASSUME TypeOK, IInv, Product \in DOMAIN file.res, NEW ib \in IronBank
               PROVE  /\ \A t \in Tools : \A r \in PinnedIn(ib, t) :
                           Seen(Applied(file, ib), t) =
                             [Line!Apply(Seen(file, t),
                                         [version |-> ib.product, pinned |-> TRUE], r)
                                EXCEPT !.annotated = TRUE]
                      /\ \/ Applied(file, ib) = file
                         \/ \E t \in Resources : Seen(Applied(file, ib), t) # Seen(file, t)
    BY DEF SyncIsApply
  <2> QED BY LineApplies, SavedIfSeen DEF IInv
<1> QED BY <1>1, AlwaysIInv, PTL
=============================================================================
