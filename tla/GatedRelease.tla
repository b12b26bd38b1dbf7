---------------------------- MODULE GatedRelease ----------------------------
(***************************************************************************)
(* What one pipeline promises about the images it releases, said without   *)
(* jobs, artifacts, retries or days: clearances accumulate and are never   *)
(* taken back, products are released one at a time, and what a product is  *)
(* released as has been cleared before, for that product, and goes out     *)
(* with its own record. A review releases nothing. A product may become an *)
(* exception, of which none of this is promised any more.                  *)
(***************************************************************************)
CONSTANTS Products, Images, NoImage

VARIABLES
  review,    \* is this a review
  cleared,   \* cleared[p]: the images cleared for p
  excepted,  \* the products that are exceptions
  released,  \* released[p]: the image p was last released as
  attested   \* attested[p]: the image whose record went out with it

vars == <<review, cleared, excepted, released, attested>>

Init ==
  /\ review \in BOOLEAN
  /\ cleared = [p \in Products |-> {}]
  /\ excepted = {}
  /\ released = [p \in Products |-> NoImage]
  /\ attested = [p \in Products |-> NoImage]

Clear(p, i) ==
  /\ cleared' = [cleared EXCEPT ![p] = @ \union {i}]
  /\ UNCHANGED <<review, excepted, released, attested>>

Except(p) ==
  /\ excepted' = excepted \union {p}
  /\ UNCHANGED <<review, cleared, released, attested>>

Release(p, i, record) ==
  /\ ~review
  /\ p \in excepted \/ (i \in cleared[p] /\ record = i)
  /\ released' = [released EXCEPT ![p] = i]
  /\ attested' = [attested EXCEPT ![p] = record]
  /\ UNCHANGED <<review, cleared, excepted>>

Next ==
  \E p \in Products :
    \/ Except(p)
    \/ \E i \in Images : Clear(p, i)
    \/ \E i, record \in Images \union {NoImage} : Release(p, i, record)

Spec == Init /\ [][Next]_vars
=============================================================================
