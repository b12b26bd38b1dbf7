---------------------------- MODULE LineManifest ----------------------------
(***************************************************************************)
(* A product line's hardening_manifest.yaml as far as a rebuild depends on *)
(* it, and what ironbank.py makes of it.  IronBankSync works on manifests  *)
(* of this form; ManifestTools, which has the file entry by entry, shows   *)
(* that its sync has the effect of Apply on each of them.                  *)
(***************************************************************************)
EXTENDS Integers

CONSTANTS
  MaxVersion,  \* product releases are 1..MaxVersion
  MaxTool      \* releases of the other resource (tini, git) are 1..MaxTool

Versions == 1..MaxVersion
ToolReleases == 1..MaxTool

\* A resource entry: the release its url names and the release its sha256
\* belongs to, 0 while it is unpinned.
Resource(R) == [release : R, sha : R \union {0}]
Pin(r) == [release |-> r, sha |-> r]
Unpinned(r) == [release |-> r, sha |-> 0]

\* A hardening_manifest.yaml: args.VERSION, the PRODUCT resource, the other
\* resource, and whether the latter still has its "# renovate:" comment.
Manifest == [version : Versions, product : Resource(Versions),
             tool : Resource(ToolReleases), annotated : BOOLEAN]

\* Mutant: a resource Iron Bank does not pin is overwritten like the others.
ApplyToEveryResource(m, u, r) ==
  [m EXCEPT !.version = u.version, !.product = Pin(u.version), !.tool = Pin(r),
            !.annotated = FALSE]

\* Mutant: only a new VERSION counts as a change worth saving.
ApplyIfVersionMoved(m, u, r) ==
  IF u.version = m.version THEN m
  ELSE [m EXCEPT !.version = u.version, !.product = Pin(u.version), !.annotated = FALSE]

\* Mutant: the url follows VERSION, its checksum does not.
ApplyWithoutChecksum(m, u, r) ==
  LET new == [m EXCEPT !.version = u.version, !.product = Unpinned(u.version)]
  IN  IF new = m THEN m ELSE [new EXCEPT !.annotated = FALSE]

\* ironbank.py apply, on manifest m, upstream manifest u and its tool release r
\* (0: not pinned there): the file is saved only when something changed, and
\* saving loses its comments.
Apply(m, u, r) ==
  LET new == [m EXCEPT !.version = u.version,
                       !.product = Pin(u.version),
                       !.tool = IF r = 0 THEN @ ELSE Pin(r)]
  IN  IF new = m THEN m ELSE [new EXCEPT !.annotated = FALSE]
=============================================================================
