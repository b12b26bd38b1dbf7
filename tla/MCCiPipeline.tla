--------------------------- MODULE MCCiPipeline ---------------------------
(* Small instances of CiPipeline: two products, the files a commit may     *)
(* hold, and windows of a few days.                                        *)
EXTENDS CiPipeline

CONSTANTS p1, p2

TwoProducts == {p1, p2}
OneSection == {"vulnerabilities"}

File(shape, unknown, list, S) ==
  [shape |-> shape, unknown |-> unknown, list |-> [s \in Sections |-> list],
   entries |-> [s \in Sections |-> S]]

Exception(v) == [id |-> TRUE, statement |-> TRUE, expiry |-> v]

\* With MaxDays = 2: one lapses on day 1, one is in force throughout, one ends
\* too late until day 1, and one has no date.
SomeFiles == {File("mapping", FALSE, TRUE, {Exception(v)}) : v \in {1, 2, 3, NoDate}}

\* The windows of MCCiPipeline.cfg close on day 3 and fail from day 1 on.
Key(ends) == [kind |-> "mapping", ends |-> ends]
NoKey == [kind |-> "absent", ends |-> NoDate]
ClosingWindows == {[base |-> {NoDate, 3}, products |-> {[lts |-> Key(9), latest |-> NoKey, own |-> NoDate]}]}
=============================================================================
