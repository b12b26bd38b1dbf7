-------------------------- MODULE EntrypointProofs --------------------------
(***************************************************************************)
(* Theorems about Entrypoint, for any number of containers and files.      *)
(*                                                                         *)
(* As long as no two containers have rendered at the same time, a          *)
(* container that is rendering is Alone, f.tmp is its own file (OwnTmp),   *)
(* what it decided from the files it saw still holds (Decided), and what   *)
(* has been moved to its place is Whole.                                   *)
(***************************************************************************)
EXTENDS Entrypoint, TLAPS

USE DEF Users, File

(* Types *)

\* A process that ends leaves nothing that is typed differently.
LEMMA LeaveTyped ==
  ASSUME TypeOK, NEW n \in Nodes, NEW p \in {"stopped", "killed", "running"}, Leave(n, p),
         UNCHANGED <<home, contended>>
  PROVE  TypeOK'
BY DEF TypeOK, Leave, home, Rendering, OpenIsThere

\* Every step of every container keeps the types.
LEMMA NextTypeOK == TypeOK /\ [Next]_vars => TypeOK'
<1> SUFFICES ASSUME TypeOK, [Next]_vars PROVE TypeOK'
  OBVIOUS
<1> USE FilesAssumption, NoneAssumption
<1> USE DEF TypeOK, home, start, render, Rendering
<1>1. ASSUME NEW n \in Nodes,
             \E u \in Users, forced \in BOOLEAN, e \in Texts : Start(n, u, forced, e)
      PROVE  TypeOK'
  BY <1>1 DEF Start, OpenIsThere
<1>2. ASSUME NEW n \in Nodes, NEW recursive \in BOOLEAN, PrepareAsRoot(n, recursive)
      PROVE  TypeOK'
  <2>1. Chowned(target) \in [Files -> File \union {None}]
    BY DEF Chowned
  <2>2. Chowned(tmp) \in [Files -> File \union {None}]
    BY DEF Chowned
  <2>3. target' \in [Files -> File \union {None}] /\ tmp' \in [Files -> File \union {None}]
    BY <1>2, <2>1, <2>2 DEF PrepareAsRoot
  <2>4. \A f \in Files : /\ target[f] # None => target'[f] # None
                         /\ tmp[f] # None => tmp'[f] # None
    <3>1. \A f \in Files : target[f] # None => target'[f] \in File
      BY <1>2 DEF PrepareAsRoot, Chowned
    <3>2. \A f \in Files : tmp[f] # None => tmp'[f] \in File
      BY <1>2 DEF PrepareAsRoot, Chowned
    <3> HIDE DEF File
    <3> QED BY <3>1, <3>2
  <2>5. \A m \in Nodes : fd[m] # "closed" => file[m] \in Files
    OBVIOUS
  <2>6. /\ usable' \in BOOLEAN /\ pc' = [pc EXCEPT ![n] = "specs"] /\ pc[n] = "prepare"
        /\ UNCHANGED <<start, render, contended>>
    BY <1>2 DEF PrepareAsRoot
  <2> HIDE DEF File
  <2>7. OpenIsThere'
    BY <2>4, <2>5, <2>6 DEF OpenIsThere
  <2> QED BY <2>3, <2>6, <2>7
<1>3. ASSUME NEW n \in Nodes, PrepareAsUser(n) PROVE TypeOK'
  <2>1. CASE Leave(n, "stopped")
    BY <1>3, <2>1, LeaveTyped DEF PrepareAsUser
  <2>2. CASE ~Leave(n, "stopped")
    BY <1>3, <2>2 DEF PrepareAsUser, OpenIsThere
  <2> QED BY <2>1, <2>2
<1>4. ASSUME NEW n \in Nodes, NEW enabled \in SUBSET Files, ReadSpecs(n, enabled)
      PROVE  TypeOK'
  BY <1>4 DEF ReadSpecs, OpenIsThere
<1>5. ASSUME NEW n \in Nodes, NEW f \in Files, Keep(n, f) PROVE TypeOK'
  BY <1>5 DEF Keep, OpenIsThere
<1>6. ASSUME NEW n \in Nodes, NEW f \in Files, Open(n, f) PROVE TypeOK'
  <2>1. tmp' \in [Files -> File \union {None}] /\ tmp'[f] \in File
    BY <1>6 DEF Open, Opened
  <2>2. \A g \in Files : tmp[g] # None => tmp'[g] # None
    BY <1>6, <2>1 DEF Open, Opened
  <2>3. \A m \in Nodes : fd[m] # "closed" => file[m] \in Files
    OBVIOUS
  <2>4. /\ file' = [file EXCEPT ![n] = f]
        /\ fd' = [fd EXCEPT ![n] = "tmp"]
        /\ pc' = [pc EXCEPT ![n] = "write"]
        /\ pc[n] = "render"
        /\ UNCHANGED <<usable, target, start, overwrite, todo, contended>>
    BY <1>6 DEF Open, Opened, Renders
  <2> HIDE DEF File
  <2>5. tmp'[f] # None
    BY <2>1
  <2>6. OpenIsThere'
    BY <2>2, <2>3, <2>4, <2>5 DEF OpenIsThere
  <2> QED BY <2>1, <2>4, <2>6
<1>7. ASSUME NEW n \in Nodes, Write(n) PROVE TypeOK'
  <2>1. file[n] \in Files /\ env[n] \in Texts
    BY <1>7 DEF Write
  <2>2. \A old : Written(old, env[n]) \subseteq Texts \union {Empty, Mixed}
    BY <2>1 DEF Written
  <2>3. CASE fd[n] = "tmp"
    <3>1. tmp[file[n]] \in File
      BY <2>1, <2>3 DEF OpenIsThere
    <3>2. PICK x \in Texts \union {Empty, Mixed} : tmp' = [tmp EXCEPT ![file[n]].text = x]
      BY <1>7, <2>2, <2>3 DEF Write
    <3>3. tmp' \in [Files -> File \union {None}] /\ tmp'[file[n]] \in File
      BY <2>1, <3>1, <3>2
    <3>4. \A f \in Files : tmp'[f] = None <=> tmp[f] = None
      BY <2>1, <3>1, <3>2, <3>3
    <3> QED BY <1>7, <2>3, <3>3, <3>4 DEF Write, OpenIsThere
  <2>4. CASE fd[n] = "target"
    <3>1. target[file[n]] \in File
      BY <2>1, <2>4 DEF OpenIsThere
    <3>2. PICK x \in Texts \union {Empty, Mixed} : target' = [target EXCEPT ![file[n]].text = x]
      BY <1>7, <2>2, <2>4 DEF Write
    <3>3. target' \in [Files -> File \union {None}] /\ target'[file[n]] \in File
      BY <2>1, <3>1, <3>2
    <3>4. \A f \in Files : target'[f] = None <=> target[f] = None
      BY <2>1, <3>1, <3>2, <3>3
    <3> QED BY <1>7, <2>4, <3>3, <3>4 DEF Write, OpenIsThere
  <2>5. CASE fd[n] = "gone"
    BY <1>7, <2>5 DEF Write, OpenIsThere
  <2> QED BY <1>7, <2>3, <2>4, <2>5 DEF Write
<1>8. ASSUME NEW n \in Nodes, Chmod(n) PROVE TypeOK'
  <2>1. file[n] \in Files /\ tmp[file[n]] \in File
    BY <1>8 DEF Chmod
  <2>2. tmp' = [tmp EXCEPT ![file[n]].restricted = TRUE]
    BY <1>8 DEF Chmod
  <2>3. tmp' \in [Files -> File \union {None}] /\ tmp'[file[n]] \in File
    BY <2>1, <2>2
  <2>4. \A f \in Files : tmp'[f] = None <=> tmp[f] = None
    BY <2>1, <2>2, <2>3
  <2> QED BY <1>8, <2>3, <2>4 DEF Chmod, OpenIsThere
<1>9. ASSUME NEW n \in Nodes, Replace(n) PROVE TypeOK'
  <2>1. fd' \in [Nodes -> {"closed", "tmp", "target", "gone"}]
    BY <1>9 DEF Replace, Moved
  <2>2. \A m \in Nodes : fd'[m] # "closed" <=> fd[m] # "closed"
    BY <1>9 DEF Replace, Moved
  <2>3. pc' = [pc EXCEPT ![n] = "render"] /\ pc[n] = "replace"
    BY <1>9 DEF Replace
  <2>4. file[n] \in Files /\ tmp[file[n]] \in File
    BY <1>9 DEF Replace
  <2>5. ASSUME NEW m \in Nodes
        PROVE  /\ fd'[m] = "tmp" => tmp'[file'[m]] # None
               /\ fd'[m] = "target" => target'[file'[m]] # None
    <3>1. m = n => fd'[m] \notin {"tmp", "target"}
      BY <1>9, <2>2, <2>3
    <3>2. CASE m # n /\ file[m] = file[n]
      BY <1>9, <2>4, <3>2 DEF Replace, Moved
    <3>3. CASE m # n /\ file[m] # file[n]
      <4>1. fd'[m] = fd[m] /\ file'[m] = file[m]
        BY <1>9, <3>3 DEF Replace, Moved
      <4>2. fd[m] # "closed" => file[m] \in Files
        OBVIOUS
      <4> QED BY <1>9, <2>4, <3>3, <4>1, <4>2 DEF Replace, OpenIsThere
    <3> QED BY <3>1, <3>2, <3>3
  <2>6. OpenIsThere'
    BY <2>5 DEF OpenIsThere
  <2>7. /\ file' = [file EXCEPT ![n] = None]
        /\ todo' = [todo EXCEPT ![n] = @ \ {file[n]}]
        /\ target' = [target EXCEPT ![file[n]] = tmp[file[n]]]
        /\ tmp' = [tmp EXCEPT ![file[n]] = None]
        /\ UNCHANGED <<usable, start, overwrite, contended>>
    BY <1>9 DEF Replace
  <2> HIDE DEF File
  <2>8. /\ target' \in [Files -> File \union {None}]
        /\ tmp' \in [Files -> File \union {None}]
    BY <2>4, <2>7
  <2>9. todo' \in [Nodes -> SUBSET Files] /\ file' \in [Nodes -> Files \union {None}]
    BY <2>7
  <2>10. /\ pc' \in [Nodes -> {"stopped", "killed", "prepare", "specs", "running"} \union Rendering]
         /\ \A m \in Nodes : pc'[m] \in {"write", "chmod", "replace"} => file'[m] \in Files
         /\ \A m \in Nodes : pc'[m] \in {"prepare", "specs"} \union Rendering
                              => env[m] \in Texts
    BY <2>3, <2>7
  <2>11. \A m \in Nodes : fd'[m] # "closed" <=> pc'[m] = "write"
    BY <2>2, <2>3
  <2> QED BY <2>1, <2>6, <2>7, <2>8, <2>9, <2>10, <2>11
<1>10. ASSUME NEW n \in Nodes,
              \/ \E f \in Files : OpenDenied(n, f)
              \/ NameLost(n) \/ Exec(n) \/ Crash(n)
       PROVE  TypeOK'
  BY <1>10, LeaveTyped DEF OpenDenied, NameLost, Exec, Crash
<1>11. CASE UNCHANGED vars
  BY <1>11 DEF vars, OpenIsThere
<1> QED
  BY <1>1, <1>2, <1>3, <1>4, <1>5, <1>6, <1>7, <1>8, <1>9, <1>10, <1>11
  DEF Next, Step, GenCfg

\* Every reachable state is well typed: among others, a file is open exactly
\* while it is being written.
THEOREM Typing == Spec => []TypeOK
<1>1. ASSUME Init PROVE TypeOK
  BY <1>1 DEF Init, TypeOK, Rendering, OpenIsThere
<1> QED BY <1>1, NextTypeOK, PTL DEF Spec

-----------------------------------------------------------------------------
(* Rendered files *)

Alone ==
  \A n, m \in Nodes : pc[n] \in Rendering /\ pc[m] \in Rendering => n = m

OwnTmp ==
  \A n \in Nodes :
    /\ pc[n] = "write" => fd[n] = "tmp" /\ tmp[file[n]].text = Empty
    /\ pc[n] \in {"chmod", "replace"} =>
         (tmp[file[n]] # None => tmp[file[n]].text \in Texts)

Decided ==
  \A n \in Nodes :
    /\ pc[n] \in Rendering =>
         \A f \in Once \cap overwrite[n] \cap todo[n] : target[f] # None => force[n]
    /\ pc[n] \in {"write", "chmod", "replace"} =>
         /\ file[n] \in todo[n]
         /\ target[file[n]] = None \/ file[n] \in overwrite[n]

Whole == \A f \in Files : target[f] # None => target[f].text \in Texts

Quiet == Alone /\ OwnTmp /\ Decided /\ Whole

IInv == ~contended => Quiet

\* A process that ends takes nothing with it that another relies on.
LEMMA LeaveQuiet ==
  ASSUME TypeOK, Quiet, NEW n \in Nodes, NEW p \in {"stopped", "killed", "running"}, Leave(n, p),
         UNCHANGED home
  PROVE  Quiet'
<1> USE DEF Rendering, home
<1> HIDE DEF File
<1>1. /\ pc'[n] \notin Rendering
      /\ \A m \in Nodes \ {n} :
           /\ pc'[m] = pc[m] /\ force'[m] = force[m] /\ fd'[m] = fd[m]
           /\ overwrite'[m] = overwrite[m] /\ todo'[m] = todo[m] /\ file'[m] = file[m]
  BY DEF TypeOK, Leave
<1>2. UNCHANGED <<target, tmp>>
  OBVIOUS
<1>3. Alone'
  BY <1>1 DEF Quiet, Alone
<1>4. OwnTmp'
  BY <1>1, <1>2 DEF Quiet, OwnTmp
<1>5. Decided'
  BY <1>1, <1>2 DEF Quiet, Decided
<1>6. Whole'
  BY <1>2 DEF Quiet, Whole
<1> QED BY <1>3, <1>4, <1>5, <1>6 DEF Quiet

\* While n renders alone, a step of n has to care for n only.
LEMMA RenderingStep ==
  ASSUME TypeOK, Quiet, NEW n \in Nodes, pc[n] \in Rendering,
         NEW p \in Rendering, pc' = [pc EXCEPT ![n] = p],
         p = "write" => fd'[n] = "tmp" /\ tmp'[file'[n]].text = Empty,
         p \in {"chmod", "replace"} =>
           (tmp'[file'[n]] # None => tmp'[file'[n]].text \in Texts),
         \A f \in Once \cap overwrite'[n] \cap todo'[n] : target'[f] # None => force'[n],
         p \in {"write", "chmod", "replace"} =>
           /\ file'[n] \in todo'[n]
           /\ target'[file'[n]] = None \/ file'[n] \in overwrite'[n],
         Whole'
  PROVE  Quiet'
<1> HIDE DEF File
<1>1. /\ pc'[n] = p
      /\ \A m \in Nodes : m # n => pc'[m] = pc[m]
  BY DEF TypeOK
<1>2. \A m \in Nodes : m # n => pc'[m] \notin Rendering
  BY <1>1 DEF Quiet, Alone
<1>3. Alone'
  BY <1>2 DEF Alone
<1>4. OwnTmp'
  BY <1>1, <1>2 DEF OwnTmp, Rendering
<1>5. Decided'
  BY <1>1, <1>2 DEF Decided, Rendering
<1> QED BY <1>3, <1>4, <1>5 DEF Quiet

\* No step breaks the invariant but by two containers rendering at a time.
LEMMA NextQuiet ==
  ASSUME TypeOK, Quiet, [Next]_vars, ~contended'
  PROVE  Quiet'
<1> USE FilesAssumption, TextsAssumption
<1> USE DEF home, start, render
<1> HIDE DEF File
<1>1. ASSUME NEW n \in Nodes,
             \E u \in Users, forced \in BOOLEAN, e \in Texts : Start(n, u, forced, e)
      PROVE  Quiet'
  BY <1>1 DEF Start, TypeOK, Rendering, Quiet, Alone, OwnTmp, Decided, Whole
<1>2. ASSUME NEW n \in Nodes, NEW recursive \in BOOLEAN, PrepareAsRoot(n, recursive)
      PROVE  Quiet'
  <2> USE DEF File
  <2>1. \A f \in Files : /\ target'[f] = None <=> target[f] = None
                         /\ tmp'[f] = None <=> tmp[f] = None
    <3>1. \A f \in Files : IF target[f] = None THEN target'[f] = None ELSE target'[f] \in File
      BY <1>2 DEF PrepareAsRoot, Chowned, TypeOK
    <3>2. \A f \in Files : IF tmp[f] = None THEN tmp'[f] = None ELSE tmp'[f] \in File
      BY <1>2 DEF PrepareAsRoot, Chowned, TypeOK
    <3> HIDE DEF File
    <3> QED BY <3>1, <3>2, NoneAssumption
  <2>2. \A f \in Files : /\ target[f] # None => target'[f].text = target[f].text
                         /\ tmp[f] # None => tmp'[f].text = tmp[f].text
    BY <1>2 DEF PrepareAsRoot, Chowned, TypeOK
  <2>3. /\ \A m \in Nodes : pc'[m] \in Rendering => m # n /\ pc'[m] = pc[m]
        /\ UNCHANGED <<start, render>>
    BY <1>2 DEF PrepareAsRoot, TypeOK, Rendering
  <2>4. \A m \in Nodes : pc[m] \in {"write", "chmod", "replace"} => file[m] \in Files
    BY DEF TypeOK
  <2> HIDE DEF File
  <2>5. Alone'
    BY <2>3 DEF Quiet, Alone
  <2>6. OwnTmp'
    BY <2>1, <2>2, <2>3, <2>4 DEF Quiet, OwnTmp, OpenIsThere, TypeOK, Rendering
  <2>7. Decided'
    BY <2>1, <2>3, <2>4 DEF Quiet, Decided, Rendering
  <2>8. Whole'
    BY <2>1, <2>2 DEF Quiet, Whole
  <2> QED BY <2>5, <2>6, <2>7, <2>8 DEF Quiet
<1>3. ASSUME NEW n \in Nodes, PrepareAsUser(n) PROVE Quiet'
  <2>1. CASE Leave(n, "stopped")
    BY <1>3, <2>1, LeaveQuiet DEF PrepareAsUser
  <2>2. CASE ~Leave(n, "stopped")
    BY <1>3, <2>2
    DEF PrepareAsUser, TypeOK, Rendering, Quiet, Alone, OwnTmp, Decided, Whole
  <2> QED BY <2>1, <2>2
<1>4. ASSUME NEW n \in Nodes, NEW enabled \in SUBSET Files, ReadSpecs(n, enabled)
      PROVE  Quiet'
  <2>1. /\ \A m \in Nodes : m # n => pc'[m] \notin Rendering
        /\ pc'[n] = "render" /\ UNCHANGED <<home, start>>
    BY <1>4 DEF ReadSpecs, TypeOK
  <2>2. \A f \in overwrite'[n] \cap Once : force[n] \/ target[f] = None
    BY <1>4 DEF ReadSpecs, TypeOK
  <2>3. Alone' /\ OwnTmp' /\ Whole'
    BY <2>1 DEF Quiet, Alone, OwnTmp, Whole, Rendering
  <2>4. Decided'
    BY <2>1, <2>2 DEF Decided, Rendering
  <2> QED BY <2>3, <2>4 DEF Quiet
<1>5. ASSUME NEW n \in Nodes, NEW f \in Files, Keep(n, f) PROVE Quiet'
  <2>1. /\ pc[n] = "render" /\ pc' = [pc EXCEPT ![n] = "render"]
        /\ todo'[n] \subseteq todo[n]
        /\ UNCHANGED <<home, start, overwrite>>
    BY <1>5 DEF Keep, TypeOK
  <2>2. \A g \in Once \cap overwrite[n] \cap todo[n] : target[g] # None => force[n]
    BY <2>1 DEF Quiet, Decided, Rendering
  <2>3. Whole'
    BY <2>1 DEF Quiet, Whole
  <2> QED BY <2>1, <2>2, <2>3, RenderingStep DEF Rendering
<1>6. ASSUME NEW n \in Nodes, NEW f \in Files, Open(n, f) PROVE Quiet'
  <2>1. /\ pc[n] = "render" /\ pc' = [pc EXCEPT ![n] = "write"]
        /\ fd'[n] = "tmp" /\ file'[n] = f /\ f \in todo[n]
        /\ target[f] = None \/ f \in overwrite[n]
        /\ UNCHANGED <<target, start, overwrite, todo>>
    BY <1>6 DEF Open, Opened, Renders, TypeOK
  <2>2. tmp'[f].text = Empty
    BY <1>6 DEF Open, Opened, TypeOK, File
  <2>3. \A g \in Once \cap overwrite[n] \cap todo[n] : target[g] # None => force[n]
    BY <2>1 DEF Quiet, Decided, Rendering
  <2>4. Whole'
    BY <2>1 DEF Quiet, Whole
  <2> QED BY <2>1, <2>2, <2>3, <2>4, RenderingStep DEF Rendering
<1>7. ASSUME NEW n \in Nodes, Write(n) PROVE Quiet'
  <2>1. /\ pc[n] = "write" /\ pc' = [pc EXCEPT ![n] = "chmod"]
        /\ fd[n] = "tmp" /\ tmp[file[n]].text = Empty
        /\ UNCHANGED <<target, start, overwrite, todo, file>>
    BY <1>7 DEF Write, Quiet, OwnTmp
  <2>2. /\ file[n] \in Files /\ env[n] \in Texts /\ tmp[file[n]] \in File
        /\ file[n] \in todo[n]
        /\ target[file[n]] = None \/ file[n] \in overwrite[n]
    BY <2>1 DEF TypeOK, OpenIsThere, Quiet, Decided, Rendering
  <2>3. tmp' = [tmp EXCEPT ![file[n]].text = env[n]]
    BY <1>7, <2>1 DEF Write, Written
  <2>4. tmp'[file[n]].text = env[n]
    BY <2>2, <2>3 DEF TypeOK, File
  <2>5. \A g \in Once \cap overwrite[n] \cap todo[n] : target[g] # None => force[n]
    BY <2>1 DEF Quiet, Decided, Rendering
  <2>6. Whole'
    BY <2>1 DEF Quiet, Whole
  <2> QED BY <2>1, <2>2, <2>4, <2>5, <2>6, RenderingStep DEF Rendering
<1>8. ASSUME NEW n \in Nodes, Chmod(n) PROVE Quiet'
  <2>1. /\ pc[n] = "chmod" /\ pc' = [pc EXCEPT ![n] = "replace"]
        /\ tmp[file[n]] # None
        /\ tmp' = [tmp EXCEPT ![file[n]].restricted = TRUE]
        /\ UNCHANGED <<target, start, overwrite, todo, file>>
    BY <1>8 DEF Chmod
  <2>2. /\ file[n] \in Files /\ tmp[file[n]] \in File /\ tmp[file[n]].text \in Texts
        /\ file[n] \in todo[n]
        /\ target[file[n]] = None \/ file[n] \in overwrite[n]
    BY <2>1 DEF TypeOK, Quiet, OwnTmp, Decided, Rendering
  <2>3. tmp'[file[n]].text \in Texts
    BY <2>1, <2>2 DEF TypeOK, File
  <2>4. \A g \in Once \cap overwrite[n] \cap todo[n] : target[g] # None => force[n]
    BY <2>1 DEF Quiet, Decided, Rendering
  <2>5. Whole'
    BY <2>1 DEF Quiet, Whole
  <2> QED BY <2>1, <2>2, <2>3, <2>4, <2>5, RenderingStep DEF Rendering
<1>9. ASSUME NEW n \in Nodes, Replace(n) PROVE Quiet'
  <2>1. /\ pc[n] = "replace" /\ pc' = [pc EXCEPT ![n] = "render"]
        /\ target' = [target EXCEPT ![file[n]] = tmp[file[n]]]
        /\ todo'[n] = todo[n] \ {file[n]}
        /\ file[n] \in Files /\ tmp[file[n]].text \in Texts
        /\ UNCHANGED <<start, overwrite>>
    BY <1>9 DEF Replace, TypeOK, Quiet, OwnTmp
  <2>2. \A g \in Files : g # file[n] => target'[g] = target[g]
    BY <2>1 DEF TypeOK
  <2>3. target'[file[n]].text \in Texts
    BY <2>1 DEF TypeOK
  <2>4. \A g \in Once \cap overwrite'[n] \cap todo'[n] : target'[g] # None => force'[n]
    BY <2>1, <2>2 DEF Quiet, Decided, Rendering
  <2>5. Whole'
    BY <2>2, <2>3 DEF Quiet, Whole
  <2> QED BY <2>1, <2>4, <2>5, RenderingStep DEF Rendering
<1>10. ASSUME NEW n \in Nodes,
              \/ \E f \in Files : OpenDenied(n, f)
              \/ NameLost(n) \/ Exec(n) \/ Crash(n)
       PROVE  Quiet'
  BY <1>10, LeaveQuiet DEF OpenDenied, NameLost, Exec, Crash
<1>11. CASE UNCHANGED vars
  BY <1>11 DEF vars, Quiet, Alone, OwnTmp, Decided, Whole
<1> QED
  BY <1>1, <1>2, <1>3, <1>4, <1>5, <1>6, <1>7, <1>8, <1>9, <1>10, <1>11
  DEF Next, Step, GenCfg

\* That containers have met is never forgotten.
LEMMA ContendedStays == [Next]_vars /\ contended => contended'
BY DEF Next, Step, GenCfg, vars, Start, PrepareAsRoot, PrepareAsUser, ReadSpecs, Keep,
       Open, Opened, OpenDenied, Write, Chmod, Replace, NameLost, Exec, Crash

\* The inductive invariant.
LEMMA Inductive == Spec => [](TypeOK /\ IInv)
<1>1. ASSUME Init PROVE TypeOK /\ IInv
  <2>1. IInv
    BY <1>1 DEF Init, IInv, Quiet, Alone, OwnTmp, Decided, Whole, Rendering
  <2>2. TypeOK
    BY <1>1 DEF Init, TypeOK, OpenIsThere, Rendering
  <2> QED BY <2>1, <2>2
<1>2. ASSUME TypeOK, IInv, [Next]_vars PROVE TypeOK' /\ IInv'
  <2>1. TypeOK'
    BY <1>2, NextTypeOK
  <2>2. IInv'
    BY <1>2, NextQuiet, ContendedStays DEF IInv
  <2> QED BY <2>1, <2>2
<1> QED BY <1>1, <1>2, PTL DEF Spec

\* Unless two containers render at the same time, a rendered file is there as a
\* whole or not at all, wherever containers are killed.
THEOREM AlwaysWhole == Spec => []RenderedWhole
<1>1. IInv => RenderedWhole
  BY DEF IInv, Quiet, Whole, RenderedWhole
<1> QED BY <1>1, Inductive, PTL

\* The step that WrittenOnce allows.
KeepsOnce ==
  \A f \in Once : target[f] # None /\ ~contended' =>
    \/ target'[f].text = target[f].text
    \/ \E n \in Nodes : force[n] /\ pc[n] = "replace"

\* Only preparing, writing and replacing touch a target; the first keeps texts,
\* the second writes to f.tmp, and the third does what n decided.
LEMMA NextKeepsOnce ==
  ASSUME TypeOK, IInv, [Next]_vars
  PROVE  KeepsOnce
<1> USE DEF KeepsOnce
<1> SUFFICES ASSUME NEW f \in Once, target[f] # None, ~contended', Quiet, f \in Files
             PROVE  \/ target'[f].text = target[f].text
                    \/ \E n \in Nodes : force[n] /\ pc[n] = "replace"
  BY ContendedStays, FilesAssumption DEF IInv
<1> HIDE DEF KeepsOnce
<1>1. ASSUME UNCHANGED target PROVE target'[f].text = target[f].text
  BY <1>1
<1>2. ASSUME NEW n \in Nodes, NEW recursive \in BOOLEAN, PrepareAsRoot(n, recursive)
      PROVE  target'[f].text = target[f].text
  BY <1>2 DEF PrepareAsRoot, Chowned, TypeOK
<1>3. ASSUME NEW n \in Nodes, Write(n) PROVE UNCHANGED target
  BY <1>3 DEF Write, Quiet, OwnTmp
<1>4. ASSUME NEW n \in Nodes, Replace(n), target'[f].text # target[f].text
      PROVE  force[n] /\ pc[n] = "replace"
  <2> HIDE DEF File
  <2>1. pc[n] = "replace" /\ file[n] = f
    BY <1>4 DEF Replace, TypeOK
  <2>2. f \in todo[n] /\ f \in overwrite[n]
    BY <2>1 DEF Quiet, Decided, Rendering
  <2> QED BY <2>1, <2>2 DEF Quiet, Decided, Rendering
<1>5. \/ UNCHANGED target
      \/ \E n \in Nodes : \/ \E recursive \in BOOLEAN : PrepareAsRoot(n, recursive)
                          \/ Write(n) \/ Replace(n)
  BY DEF Next, Step, GenCfg, vars, home, Start, PrepareAsUser, ReadSpecs, Keep,
         Open, OpenDenied, Chmod, NameLost, Exec, Crash
<1> QED BY <1>1, <1>2, <1>3, <1>4, <1>5

\* Unless two containers render at the same time, what is written once keeps its
\* text until an update is forced, over all crashes and restarts.
THEOREM AlwaysWrittenOnce == Spec => WrittenOnce
<1>1. TypeOK /\ IInv /\ [Next]_vars => [KeepsOnce]_vars
  BY NextKeepsOnce
<1> QED BY <1>1, Inductive, PTL DEF Spec, WrittenOnce, KeepsOnce

-----------------------------------------------------------------------------
(* What is seen from outside *)

Content == [f \in Files |-> IF target[f] = None THEN None ELSE target[f].text]

\* Only the files of that name, and their texts, are content.
LEMMA SameContent ==
  ASSUME \A f \in Files : IF target[f] = None THEN target'[f] = None
                         ELSE target'[f] # None /\ target'[f].text = target[f].text
  PROVE  Content' = Content
<1> HIDE DEF File
<1> QED BY DEF Content

\* A file that takes a name takes its content with it.
LEMMA NewContent ==
  ASSUME TypeOK, NEW f \in Files, NEW x \in File,
         target' = [target EXCEPT ![f] = x]
  PROVE  Content' = [Content EXCEPT ![f] = x.text]
<1> USE NoneAssumption
<1> HIDE DEF File
<1>1. target \in [Files -> File \union {None}]
  BY DEF TypeOK
<1>2. target'[f] = x /\ x # None
  BY <1>1
<1>3. \A g \in Files \ {f} : target'[g] = target[g]
  BY <1>1
<1>4. Content' = [g \in Files |-> IF g = f THEN x.text ELSE Content[g]]
  BY <1>2, <1>3 DEF Content
<1>5. [Content EXCEPT ![f] = x.text] = [g \in Files |-> IF g = f THEN x.text ELSE Content[g]]
  BY DEF Content
<1> QED BY <1>4, <1>5

\* No step but a replacement, or a late write to a file that another container
\* has moved away, changes what a name holds; neither takes the name away.
LEMMA ContentSteps ==
  ASSUME TypeOK, [Next]_vars
  PROVE  \/ Content' = Content
         \/ \E n \in Nodes :
              /\ Replace(n)
              /\ Content' = [Content EXCEPT ![file[n]] = tmp[file[n]].text]
         \/ \E n \in Nodes, x \in Texts \union {Empty, Mixed} :
              /\ Write(n) /\ fd[n] = "target"
              /\ Content' = [Content EXCEPT ![file[n]] = x]
<1> USE NoneAssumption
<1>1. ASSUME UNCHANGED target PROVE Content' = Content
  BY <1>1 DEF Content
<1>2. ASSUME NEW n \in Nodes, NEW recursive \in BOOLEAN, PrepareAsRoot(n, recursive)
      PROVE  Content' = Content
  <2>1. \A f \in Files : IF target[f] = None THEN target'[f] = None
                        ELSE target'[f] \in File /\ target'[f].text = target[f].text
    BY <1>2 DEF PrepareAsRoot, Chowned, TypeOK
  <2> HIDE DEF File
  <2> QED BY <2>1, SameContent
<1>3. ASSUME NEW n \in Nodes, Write(n), ~UNCHANGED target
      PROVE  \E x \in Texts \union {Empty, Mixed} :
               fd[n] = "target" /\ Content' = [Content EXCEPT ![file[n]] = x]
  <2>1. fd[n] = "target" /\ file[n] \in Files /\ env[n] \in Texts
    BY <1>3 DEF Write, TypeOK, Rendering
  <2>2. target[file[n]] \in File
    BY <2>1 DEF TypeOK, OpenIsThere
  <2>3. PICK x \in Texts \union {Empty, Mixed} : target' = [target EXCEPT ![file[n]].text = x]
    BY <1>3, <2>1 DEF Write, Written
  <2>4. [target[file[n]] EXCEPT !.text = x] \in File
    BY <2>2
  <2>5. target' = [target EXCEPT ![file[n]] = [target[file[n]] EXCEPT !.text = x]]
    BY <2>3
  <2>6. [target[file[n]] EXCEPT !.text = x].text = x
    BY <2>2
  <2> HIDE DEF File
  <2>7. Content' = [Content EXCEPT ![file[n]] = x]
    BY <2>1, <2>4, <2>5, <2>6, NewContent
  <2> QED BY <2>1, <2>7
<1>4. ASSUME NEW n \in Nodes, Replace(n)
      PROVE  Content' = [Content EXCEPT ![file[n]] = tmp[file[n]].text]
  <2> HIDE DEF File
  <2>1. /\ file[n] \in Files /\ tmp[file[n]] \in File
        /\ target' = [target EXCEPT ![file[n]] = tmp[file[n]]]
    BY <1>4 DEF Replace, TypeOK, Rendering
  <2> QED BY <2>1, NewContent
<1>5. \/ UNCHANGED target
      \/ \E n \in Nodes : \/ \E recursive \in BOOLEAN : PrepareAsRoot(n, recursive)
                          \/ Write(n) \/ Replace(n)
  BY DEF Next, Step, GenCfg, vars, home, Start, PrepareAsUser, ReadSpecs, Keep,
         Open, OpenDenied, Chmod, NameLost, Exec, Crash
<1> QED BY <1>1, <1>2, <1>3, <1>4, <1>5

\* A step that changes content changes neither who forces nor whether two have
\* met, and no step changes both of these.
LEMMA ForceOrMeet ==
  ASSUME TypeOK, [Next]_vars
  PROVE  /\ \A n \in Nodes : Replace(n) \/ Write(n) => UNCHANGED <<force, contended>>
         /\ \/ UNCHANGED contended
            \/ UNCHANGED <<force, target>> /\ contended' = TRUE
         /\ force' \in [Nodes -> BOOLEAN]
<1>1. force' \in [Nodes -> BOOLEAN]
  BY NextTypeOK DEF TypeOK
<1>2. \A n \in Nodes : Replace(n) \/ Write(n) => UNCHANGED <<force, contended>>
  BY DEF Replace, Write, start
<1>3. ASSUME NEW n \in Nodes, NEW enabled \in SUBSET Files, ReadSpecs(n, enabled)
      PROVE  UNCHANGED <<force, target>> /\ contended' \in {contended, TRUE}
  BY <1>3 DEF ReadSpecs, start, home, TypeOK
<1>4. \/ UNCHANGED contended
      \/ UNCHANGED <<force, target>> /\ contended' = TRUE
  BY <1>3
     DEF Next, Step, GenCfg, vars, Start, PrepareAsRoot, PrepareAsUser, Keep,
         Open, Opened, OpenDenied, Write, Chmod, Replace, NameLost, Exec, Crash
<1> QED BY <1>1, <1>2, <1>4

\* Containers, crashes and temporary files hidden, a rendered file is absent or
\* whole, never disappears and, written once, changes only by force.
THEOREM FilesAsPromised == Spec => ImplementsConfigFiles
<1> DEFINE forcing == {n \in Nodes : force[n]}
<1>1. Init => Abstract!Init
  BY DEF Init, Abstract!Init
<1>2. TypeOK /\ IInv /\ [Next]_vars => [Abstract!Next]_(Abstract!vars)
  <2> SUFFICES ASSUME TypeOK, IInv, [Next]_vars
               PROVE  Abstract!Next \/ UNCHANGED <<Content, forcing, contended>>
    BY DEF Abstract!vars, Content
  <2> USE DEF Content
  <2>1. ASSUME Content' = Content, UNCHANGED contended
        PROVE  Abstract!Next \/ UNCHANGED <<Content, forcing, contended>>
    <3>1. PICK S \in SUBSET Nodes : S = forcing'
      OBVIOUS
    <3>2. Abstract!Force(S)
      BY <2>1, <3>1 DEF Abstract!Force
    <3> QED BY <3>2 DEF Abstract!Next
  <2>2. ASSUME ~UNCHANGED contended
        PROVE  Abstract!Next
    <3>1. UNCHANGED <<Content, forcing>> /\ contended' = TRUE
      BY <2>2, ForceOrMeet
    <3> QED BY <3>1 DEF Abstract!Next, Abstract!Meet
  <2>3. ASSUME NEW n \in Nodes, Replace(n),
               Content' = [Content EXCEPT ![file[n]] = tmp[file[n]].text]
        PROVE  Abstract!Next
    <3>1. UNCHANGED <<forcing, contended>>
      BY <2>3, ForceOrMeet
    <3>2. PICK f \in Files, x \in Texts \union {Empty, Mixed} :
            f = file[n] /\ x = tmp[file[n]].text
      BY <2>3 DEF Replace, TypeOK, Rendering
    <3>3. CASE contended
      <4>1. Abstract!Scribble(f, x)
        BY <2>3, <3>1, <3>2, <3>3 DEF Abstract!Scribble
      <4> QED BY <4>1 DEF Abstract!Next
    <3>4. CASE ~contended
      <4> HIDE DEF File
      <4>1. x \in Texts
        BY <2>3, <3>2, <3>4 DEF Replace, IInv, Quiet, OwnTmp
      <4>2. f \in Once => target[f] = None \/ force[n]
        BY <2>3, <3>2, <3>4 DEF Replace, IInv, Quiet, Decided, Rendering
      <4>3. f \in Once => Content[f] = None \/ forcing # {}
        BY <3>2, <4>2
      <4>4. Abstract!Publish(f, x)
        BY <2>3, <3>1, <3>2, <4>3 DEF Abstract!Publish
      <4> QED BY <4>1, <4>4 DEF Abstract!Next
    <3> QED BY <3>3, <3>4
  <2>4. ASSUME NEW n \in Nodes, NEW x \in Texts \union {Empty, Mixed}, Write(n),
               fd[n] = "target", Content' = [Content EXCEPT ![file[n]] = x]
        PROVE  Abstract!Next
    <3>1. UNCHANGED <<forcing, contended>>
      BY <2>4, ForceOrMeet
    <3>2. contended
      BY <2>4 DEF Write, IInv, Quiet, OwnTmp
    <3>3. PICK f \in Files : f = file[n]
      BY <2>4 DEF Write, TypeOK
    <3>4. Abstract!Scribble(f, x)
      BY <2>4, <3>1, <3>2, <3>3 DEF Abstract!Scribble
    <3> QED BY <3>4 DEF Abstract!Next
  <2> HIDE DEF Content
  <2> QED BY <2>1, <2>2, <2>3, <2>4, ContentSteps
<1> QED BY Inductive, <1>1, <1>2, PTL DEF Spec, ImplementsConfigFiles, Abstract!Spec
=============================================================================
