--------------------------- MODULE MCIronBankSync ---------------------------
(* Small instances of IronBankSync.                                        *)
EXTENDS IronBankSync

CONSTANTS t1, t2

OneTarget == {t1}
TwoTargets == {t1, t2}

\* Iron Bank pins the tool for the second line only.
SecondOnly == [t \in Targets |-> IF t = t2 THEN 1 ELSE 0]
Everywhere == [t \in Targets |-> 1]
=============================================================================
