-------------------------- MODULE TrustedPromotion --------------------------
(***************************************************************************)
(* What the pipeline promises whoever pulls a version tag or the line tag, *)
(* said without runs, scans, gates or scripts: evidence about an image     *)
(* accumulates and is never taken back, tags move one at a time, and a tag *)
(* only moves to an image whose evidence is already complete.              *)
(***************************************************************************)
CONSTANTS Images, Versions, None

VARIABLES
  certified,  \* images with a signature and both attestations
  verTag,     \* the version tags
  lineTag     \* the tag deployments reference

vars == <<certified, verTag, lineTag>>

Init ==
  /\ certified \in SUBSET Images
  /\ verTag \in [Versions -> certified \union {None}]
  /\ lineTag \in certified

Certify(i) ==
  /\ certified' = certified \union {i}
  /\ UNCHANGED <<verTag, lineTag>>

PromoteVersion(v, i) ==
  /\ i \in certified
  /\ verTag' = [verTag EXCEPT ![v] = i]
  /\ UNCHANGED <<certified, lineTag>>

PromoteLine(i) ==
  /\ i \in certified
  /\ lineTag' = i
  /\ UNCHANGED <<certified, verTag>>

Next ==
  \E i \in Images :
    \/ Certify(i)
    \/ \E v \in Versions : PromoteVersion(v, i)
    \/ PromoteLine(i)

Spec == Init /\ [][Next]_vars
=============================================================================
