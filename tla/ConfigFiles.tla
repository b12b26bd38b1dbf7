----------------------------- MODULE ConfigFiles -----------------------------
(***************************************************************************)
(* What the entrypoints promise about the rendered configuration, said     *)
(* without containers, crashes, temporary files or modes: a file is absent *)
(* or holds a whole text, goes from one to the next in one step, and never *)
(* disappears; one that is written once changes only while an update is    *)
(* forced. Once two writers have met, only its presence is promised.       *)
(***************************************************************************)
CONSTANTS
  Writers, \* who may force an update
  Files,   \* the configuration files
  Once,    \* those that are written once
  Texts,   \* the whole texts
  Scraps,  \* what a file may hold when two writers have met
  Absent   \* no file

VARIABLES
  content,  \* content[f]: the text of f
  forcing,  \* who forces an update
  met       \* two writers have met

vars == <<content, forcing, met>>

Init ==
  /\ content = [f \in Files |-> Absent]
  /\ forcing = {}
  /\ met = FALSE

Force(S) ==
  /\ forcing' = S
  /\ UNCHANGED <<content, met>>

Meet ==
  /\ met' = TRUE
  /\ UNCHANGED <<content, forcing>>

Publish(f, t) ==
  /\ f \in Once => content[f] = Absent \/ forcing # {}
  /\ content' = [content EXCEPT ![f] = t]
  /\ UNCHANGED <<forcing, met>>

Scribble(f, t) ==
  /\ met
  /\ content' = [content EXCEPT ![f] = t]
  /\ UNCHANGED <<forcing, met>>

Next ==
  \/ \E S \in SUBSET Writers : Force(S)
  \/ Meet
  \/ \E f \in Files :
       \/ \E t \in Texts : Publish(f, t)
       \/ \E t \in Texts \union Scraps : Scribble(f, t)

Spec == Init /\ [][Next]_vars
=============================================================================
