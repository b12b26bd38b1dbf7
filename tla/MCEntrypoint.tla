---------------------------- MODULE MCEntrypoint ----------------------------
(* Small instances of Entrypoint.                                          *)
EXTENDS Entrypoint

CONSTANTS props   \* bitbucket.properties

OneFile == {props}
=============================================================================
