----------------------------- MODULE Entrypoint -----------------------------
(***************************************************************************)
(* Containers that start on one persistent home directory.                 *)
(*                                                                         *)
(* A container's entrypoint prepares the home (as root: it fixes the       *)
(* ownership; as the run user: it checks it), renders configuration files  *)
(* with gen_cfg, each through <name>.tmp and os.replace, and becomes the   *)
(* product, which runs as the run user.  Files that are "written once" are *)
(* rendered when they are missing or an update is forced.  A container may *)
(* be killed between any two steps and is started again.  Bitbucket nodes  *)
(* share the directory their configuration is in, so they start beside     *)
(* each other.  A process writes to the file it has opened, wherever that  *)
(* has been moved; chmod and replace act on whatever has the name by then. *)
(***************************************************************************)
CONSTANTS
  Nodes,    \* containers
  Files,    \* rendered files in the home
  Once,     \* those that are normally written once
  Texts,    \* what the environment may render to
  Empty,    \* the text of a file that is not written yet
  Mixed,    \* a text that ends with a piece of another
  None      \* no file, no text

Users == {"root", "user"}

\* restricted: the mode is 0640 already.
File == [text : Texts \union {Empty, Mixed}, owner : Users, restricted : BOOLEAN]

ASSUME FilesAssumption == Once \subseteq Files /\ None \notin Files
ASSUME TextsAssumption == {Empty, Mixed, None} \cap Texts = {} /\ Empty # Mixed
ASSUME NoneAssumption == None \notin File

VARIABLES
  usable,     \* check_perms: the run user may write to the home directory
  target,     \* target[f]: the file of that name
  tmp,        \* tmp[f]: the file named f.tmp
  pc,         \* pc[n]: the next step of container n
  uid,        \* uid[n]: who the entrypoint of n runs as
  force,      \* force[n]: ATL_FORCE_CFG_UPDATE
  env,        \* env[n]: what n's environment renders to
  overwrite,  \* overwrite[n]: the files n decided to render
  todo,       \* todo[n]: the files n has still to go through
  file,       \* file[n]: the file n is rendering
  fd,         \* fd[n]: the name under which the file n writes is to be found now
  contended   \* history: two containers have rendered at the same time

home == <<usable, target, tmp>>
start == <<uid, force, env>>
render == <<overwrite, todo, file, fd>>
vars == <<home, pc, start, render, contended>>

Rendering == {"render", "write", "chmod", "replace"}

\* A file that is open under a name is there under that name.
OpenIsThere ==
  \A n \in Nodes : /\ fd[n] = "tmp" => tmp[file[n]] # None
                   /\ fd[n] = "target" => target[file[n]] # None

TypeOK ==
  /\ usable \in BOOLEAN
  /\ target \in [Files -> File \union {None}]
  /\ tmp \in [Files -> File \union {None}]
  /\ pc \in [Nodes -> {"stopped", "killed", "prepare", "specs", "running"} \union Rendering]
  /\ uid \in [Nodes -> Users]
  /\ force \in [Nodes -> BOOLEAN]
  /\ env \in [Nodes -> Texts \union {None}]
  /\ \A n \in Nodes : pc[n] \in {"prepare", "specs"} \union Rendering => env[n] \in Texts
  /\ overwrite \in [Nodes -> SUBSET Files]
  /\ todo \in [Nodes -> SUBSET Files]
  /\ file \in [Nodes -> Files \union {None}]
  /\ \A n \in Nodes : pc[n] \in {"write", "chmod", "replace"} => file[n] \in Files
  /\ fd \in [Nodes -> {"closed", "tmp", "target", "gone"}]
  /\ \A n \in Nodes : fd[n] # "closed" <=> pc[n] = "write"
  /\ OpenIsThere
  /\ contended \in BOOLEAN

\* A new volume, usable by the run user or created by another UID.
Init ==
  /\ usable \in BOOLEAN
  /\ target = [f \in Files |-> None]
  /\ tmp = [f \in Files |-> None]
  /\ pc = [n \in Nodes |-> "stopped"]
  /\ uid = [n \in Nodes |-> "user"]
  /\ force = [n \in Nodes |-> FALSE]
  /\ env = [n \in Nodes |-> None]
  /\ overwrite = [n \in Nodes |-> {}]
  /\ todo = [n \in Nodes |-> {}]
  /\ file = [n \in Nodes |-> None]
  /\ fd = [n \in Nodes |-> "closed"]
  /\ contended = FALSE

-----------------------------------------------------------------------------
(* Starting, preparing, stopping *)

\* What is left of a process that ends: nothing it has not written.
Leave(n, p) ==
  /\ pc' = [pc EXCEPT ![n] = p]
  /\ uid' = [uid EXCEPT ![n] = "user"]
  /\ force' = [force EXCEPT ![n] = FALSE]
  /\ env' = [env EXCEPT ![n] = None]
  /\ overwrite' = [overwrite EXCEPT ![n] = {}]
  /\ todo' = [todo EXCEPT ![n] = {}]
  /\ file' = [file EXCEPT ![n] = None]
  /\ fd' = [fd EXCEPT ![n] = "closed"]

Start(n, u, forced, e) ==
  /\ pc[n] \in {"stopped", "killed"}
  /\ pc' = [pc EXCEPT ![n] = "prepare"]
  /\ uid' = [uid EXCEPT ![n] = u]
  /\ force' = [force EXCEPT ![n] = forced]
  /\ env' = [env EXCEPT ![n] = e]
  /\ UNCHANGED <<home, render, contended>>

Chowned(name) ==
  [f \in Files |-> IF name[f] = None THEN None ELSE [name[f] EXCEPT !.owner = "user"]]

\* prepare_home as root: chown of the directory and, unless switched off, of
\* every file in it.
PrepareAsRoot(n, recursive) ==
  /\ pc[n] = "prepare" /\ uid[n] = "root"
  /\ usable' = TRUE
  /\ target' = IF recursive THEN Chowned(target) ELSE target
  /\ tmp' = IF recursive THEN Chowned(tmp) ELSE tmp
  /\ pc' = [pc EXCEPT ![n] = "specs"]
  /\ UNCHANGED <<start, render, contended>>

\* prepare_home as the run user: a directory of somebody else's ends the start.
PrepareAsUser(n) ==
  /\ pc[n] = "prepare" /\ uid[n] = "user"
  /\ \/ usable /\ pc' = [pc EXCEPT ![n] = "specs"] /\ UNCHANGED <<start, render>>
     \/ ~usable /\ Leave(n, "stopped")
  /\ UNCHANGED <<home, contended>>

\* Mutant: the specs of main forget to look whether the file is there.
ReadSpecsBlindly(n, enabled) ==
  /\ pc[n] = "specs"
  /\ overwrite' = [overwrite EXCEPT ![n] = Files]
  /\ todo' = [todo EXCEPT ![n] = enabled]
  /\ pc' = [pc EXCEPT ![n] = "render"]
  /\ contended' = (contended \/ \E m \in Nodes \ {n} : pc[m] \in Rendering)
  /\ UNCHANGED <<home, start, file, fd>>

\* main builds its specs: what its environment enables, to be overwritten if
\* force or not os.path.exists(...).
ReadSpecs(n, enabled) ==
  /\ pc[n] = "specs"
  /\ overwrite' = [overwrite EXCEPT ![n] =
                     {f \in Files : f \notin Once \/ force[n] \/ target[f] = None}]
  /\ todo' = [todo EXCEPT ![n] = enabled]
  /\ pc' = [pc EXCEPT ![n] = "render"]
  /\ contended' = (contended \/ \E m \in Nodes \ {n} : pc[m] \in Rendering)
  /\ UNCHANGED <<home, start, file, fd>>

-----------------------------------------------------------------------------
(* gen_cfg *)

\* It is there and is not to be overwritten.
Keep(n, f) ==
  /\ pc[n] = "render" /\ f \in todo[n]
  /\ target[f] # None /\ f \notin overwrite[n]
  /\ todo' = [todo EXCEPT ![n] = @ \ {f}]
  /\ UNCHANGED <<home, pc, start, overwrite, file, fd, contended>>

Renders(n, f) ==
  /\ pc[n] = "render" /\ f \in todo[n]
  /\ target[f] = None \/ f \in overwrite[n]

\* May n open for writing, or change the mode of, what is named f.tmp?
Owns(n, f) == uid[n] = "root" \/ tmp[f].owner = uid[n]

\* n has opened f; a file that was there already is empty now.
Opened(n, f) ==
  /\ tmp' = [tmp EXCEPT ![f] =
               IF @ = None THEN [text |-> Empty, owner |-> uid[n], restricted |-> FALSE]
                           ELSE [@ EXCEPT !.text = Empty]]
  /\ file' = [file EXCEPT ![n] = f]
  /\ pc' = [pc EXCEPT ![n] = "write"]
  /\ UNCHANGED <<usable, start, overwrite, todo, contended>>

\* Mutant: the file is written under its own name.
OpenInPlace(n, f) ==
  /\ Renders(n, f)
  /\ tmp[f] # None => Owns(n, f)
  /\ Opened(n, f)
  /\ target' = [target EXCEPT ![f] = tmp'[f]]
  /\ fd' = [fd EXCEPT ![n] = "target"]

\* Mutant: the temporary file must be new.
OpenNew(n, f) ==
  /\ Renders(n, f)
  /\ tmp[f] = None
  /\ Opened(n, f)
  /\ fd' = [fd EXCEPT ![n] = "tmp"]
  /\ UNCHANGED target

\* Mutant: the old file is removed before the new one is written.
OpenAfterUnlink(n, f) ==
  /\ Renders(n, f)
  /\ tmp[f] # None => Owns(n, f)
  /\ Opened(n, f)
  /\ fd' = [fd EXCEPT ![n] = "tmp"]
  /\ target' = [target EXCEPT ![f] = None]

\* write_text opens f.tmp: a new file, or the one left there.
Open(n, f) ==
  /\ Renders(n, f)
  /\ tmp[f] # None => Owns(n, f)
  /\ Opened(n, f)
  /\ fd' = [fd EXCEPT ![n] = "tmp"]
  /\ UNCHANGED target

\* It is somebody else's: PermissionError, which nothing catches.
OpenDenied(n, f) ==
  /\ Renders(n, f)
  /\ tmp[f] # None /\ ~Owns(n, f)
  /\ Leave(n, "stopped")
  /\ UNCHANGED <<home, contended>>

\* What is in a file after e is written from its start: somebody else's longer
\* text shows behind it.
Written(old, e) == IF old \in {Empty, e} THEN {e} ELSE {e, Mixed}

\* Mutant: the text is still in the buffer when the file gets its mode.
WriteBuffered(n) ==
  /\ pc[n] = "write"
  /\ pc' = [pc EXCEPT ![n] = "chmod"]
  /\ UNCHANGED <<home, start, render, contended>>

\* The text reaches the opened file, whatever its name is by now.
Write(n) ==
  /\ pc[n] = "write"
  /\ \/ /\ fd[n] = "tmp"
        /\ \E x \in Written(tmp[file[n]].text, env[n]) :
             tmp' = [tmp EXCEPT ![file[n]].text = x]
        /\ UNCHANGED target
     \/ /\ fd[n] = "target"
        /\ \E x \in Written(target[file[n]].text, env[n]) :
             target' = [target EXCEPT ![file[n]].text = x]
        /\ UNCHANGED tmp
     \/ fd[n] = "gone" /\ UNCHANGED <<target, tmp>>
  /\ fd' = [fd EXCEPT ![n] = "closed"]
  /\ pc' = [pc EXCEPT ![n] = "chmod"]
  /\ UNCHANGED <<usable, start, overwrite, todo, file, contended>>

\* os.chmod of the name.
Chmod(n) ==
  /\ pc[n] = "chmod"
  /\ tmp[file[n]] # None /\ Owns(n, file[n])
  /\ tmp' = [tmp EXCEPT ![file[n]].restricted = TRUE]
  /\ pc' = [pc EXCEPT ![n] = "replace"]
  /\ UNCHANGED <<usable, target, start, render, contended>>

\* Who writes to f.tmp goes on in f, and who wrote to f in a file without a name.
Moved(f) ==
  [m \in Nodes |-> IF file[m] # f THEN fd[m]
                   ELSE IF fd[m] = "tmp" THEN "target"
                   ELSE IF fd[m] = "target" THEN "gone" ELSE fd[m]]

\* os.replace of the name.
Replace(n) ==
  /\ pc[n] = "replace"
  /\ tmp[file[n]] # None
  /\ target' = [target EXCEPT ![file[n]] = tmp[file[n]]]
  /\ tmp' = [tmp EXCEPT ![file[n]] = None]
  /\ todo' = [todo EXCEPT ![n] = @ \ {file[n]}]
  /\ fd' = Moved(file[n])
  /\ file' = [file EXCEPT ![n] = None]
  /\ pc' = [pc EXCEPT ![n] = "render"]
  /\ UNCHANGED <<usable, start, overwrite, contended>>

\* Another container has moved f.tmp away, or put its own there.
NameLost(n) ==
  /\ \/ pc[n] \in {"chmod", "replace"} /\ tmp[file[n]] = None
     \/ pc[n] = "chmod" /\ tmp[file[n]] # None /\ ~Owns(n, file[n])
  /\ Leave(n, "stopped")
  /\ UNCHANGED <<home, contended>>

-----------------------------------------------------------------------------

\* exec_app: privileges are dropped, the product takes over.
Exec(n) ==
  /\ pc[n] = "render" /\ todo[n] = {}
  /\ Leave(n, "running")
  /\ UNCHANGED <<home, contended>>

\* The container is killed, its configuration is refused, or the product ends:
\* unlike "stopped", nothing the entrypoint met on the home is the reason.
Crash(n) ==
  /\ pc[n] \notin {"stopped", "killed"}
  /\ Leave(n, "killed")
  /\ UNCHANGED <<home, contended>>

GenCfg(n) ==
  \/ \E f \in Files : Keep(n, f) \/ Open(n, f) \/ OpenDenied(n, f)
  \/ Write(n) \/ Chmod(n) \/ Replace(n) \/ NameLost(n)

Step(n) ==
  \/ \E u \in Users, forced \in BOOLEAN, e \in Texts : Start(n, u, forced, e)
  \/ \E recursive \in BOOLEAN : PrepareAsRoot(n, recursive)
  \/ PrepareAsUser(n)
  \/ \E enabled \in SUBSET Files : ReadSpecs(n, enabled)
  \/ GenCfg(n)
  \/ Exec(n)

Next == \E n \in Nodes : Step(n) \/ Crash(n)

Spec == Init /\ [][Next]_vars

\* A stopped container is started again; a running entrypoint goes on.
Fairness == \A n \in Nodes : WF_vars(Step(n))

FairSpec == Spec /\ Fairness

-----------------------------------------------------------------------------
(* Properties *)

\* Wherever a container is killed, and whoever starts it again, a rendered file
\* is there as a whole or not at all, as long as no two containers have rendered
\* at the same time: a file written once would stay half-written for good.
RenderedWhole ==
  ~contended => \A f \in Files : target[f] # None => target[f].text \in Texts

\* What is written once keeps its text over crashes and restarts with another
\* environment, until a start with ATL_FORCE_CFG_UPDATE replaces it.
WrittenOnce ==
  [][\A f \in Once : target[f] # None /\ ~contended' =>
       \/ target'[f].text = target[f].text
       \/ \E n \in Nodes : force[n] /\ pc[n] = "replace"]_vars

\* Temporary files, modes, crashes and containers hidden, a rendered file is
\* what ConfigFiles says of it: it is moved to its place as a whole, and it never
\* disappears again, not even when containers move it away under each other.
Abstract == INSTANCE ConfigFiles
  WITH Writers <- Nodes, Scraps <- {Empty, Mixed}, Absent <- None,
       content <- [f \in Files |-> IF target[f] = None THEN None ELSE target[f].text],
       forcing <- {n \in Nodes : force[n]},
       met <- contended
ImplementsConfigFiles == Abstract!Spec

\* The volume is as the run user needs it: the directory, and every f.tmp in it.
Repaired == usable /\ \A f \in Files : tmp[f] # None => tmp[f].owner = "user"

\* Nothing but the ownership keeps containers from running: once the home and
\* every f.tmp left in it are the run user's, containers that are started as the
\* run user from then on all get to run the product when they are no longer
\* killed, whatever was left behind before and although they make each other
\* fail.  A root start that is killed at f.tmp is what ends Repaired.
AllGetToRun ==
  /\ <>(Repaired /\ [](\A n \in Nodes : uid[n] = "user"))
  /\ <>[][\A n \in Nodes : ~Crash(n)]_vars
  => \A n \in Nodes : <>[](pc[n] = "running")

\* The ownership is fixed before the product runs: whoever the container was
\* started as, the product can read the configuration rendered for it.
ProductReadsItsConfiguration ==
  \A n \in Nodes : pc[n] = "running" =>
    \A f \in Files : target[f] # None =>
      target[f].owner = "user" \/ ~target[f].restricted
=============================================================================
