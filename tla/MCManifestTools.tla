-------------------------- MODULE MCManifestTools --------------------------
(* A small instance of ManifestTools: a tool with its release in its       *)
(* filename and one without, and three releases. Iron Bank pins any release *)
(* of the product, under any tag and arg, and one release of some tools,   *)
(* two of git, or git without a checksum.                                  *)
EXTENDS ManifestTools

Files(t, pinned) == [tool : {t}, release : Releases, pinned : {pinned}]

SomeFiles ==
  LET Git == Numbered  Tini == Tools \ Numbered
      One(T) == {{f} : f \in UNION {Files(t, TRUE) : t \in T}}
  IN  {{}} \union One(Tools)
      \union {F \union G : F \in One(Git), G \in One(Tini)}
      \union {Files(t, TRUE) : t \in Git}
      \union {{f} : f \in UNION {Files(t, FALSE) : t \in Git}}

SomeIronBank ==
  {ib \in [tag : 0..MaxRelease, arg : 0..MaxRelease, product : Releases, pinned : BOOLEAN,
           files : SomeFiles] : IsConsistent(ib)}
=============================================================================
