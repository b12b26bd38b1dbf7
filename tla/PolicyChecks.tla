---------------------------- MODULE PolicyChecks ----------------------------
(***************************************************************************)
(* The two dated policy checks, as functions of a parsed file and the day: *)
(* check_trivyignore.py (lint and every gate) and eol_check.py (lint).     *)
(* Dates are day numbers.                                                  *)
(***************************************************************************)
EXTENDS Integers

CONSTANTS
  Sections,    \* vulnerabilities, misconfigurations, secrets, licenses
  MaxDays,     \* --max-days: the longest exception, 90
  WarnWithin,  \* --warn-within, 90
  FailWithin,  \* --fail-within, 30
  NoDate,      \* a key that is absent
  Malformed    \* a value that is not a date

ASSUME WindowAssumption == /\ MaxDays \in Nat
                           /\ FailWithin \in Nat
                           /\ WarnWithin \in Nat
ASSUME DateAssumption == NoDate \notin Int /\ Malformed \notin Int

Dates == Int \union {NoDate, Malformed}

-----------------------------------------------------------------------------
(* check_trivyignore.py *)

\* An entry of a section: has it an id, is its statement blank or absent (a
\* YAML null is neither: it reads "None"), and its expired_at.
Entry == [id : BOOLEAN, statement : BOOLEAN, expiry : Dates]

\* The parsed file: no file, an empty one, something that is no mapping, or a
\* mapping; unknown: has it other keys; list[s]: is section s a list (an
\* absent section is an empty one); entries[s]: its entries.
IgnoreFile == [shape : {"missing", "empty", "other", "mapping"}, unknown : BOOLEAN,
               list : [Sections -> BOOLEAN], entries : [Sections -> SUBSET Entry]]

\* Mutant: an entry still counts on the day it expires.
ExpiryProblemsOffByOne(v, today) ==
  IF v = NoDate THEN {"no expiry"}
  ELSE IF v = Malformed THEN {"not a date"}
  ELSE IF v < today THEN {"expired"}
  ELSE IF v - today > MaxDays THEN {"too long"}
  ELSE {}

ExpiryProblems(v, today) ==
  IF v = NoDate THEN {"no expiry"}
  ELSE IF v = Malformed THEN {"not a date"}
  ELSE IF v <= today THEN {"expired"}
  ELSE IF v - today > MaxDays THEN {"too long"}
  ELSE {}

\* Without an id the entry is not looked at any further.
EntryProblems(e, today) ==
  IF ~e.id THEN {"no id"}
  ELSE (IF e.statement THEN {} ELSE {"no statement"}) \union ExpiryProblems(e.expiry, today)

SectionProblems(f, s, today) ==
  IF f.list[s] THEN UNION {EntryProblems(e, today) : e \in f.entries[s]} ELSE {"not a list"}

Validate(f, today) ==
  CASE f.shape \in {"missing", "empty"} -> {}
    [] f.shape = "other" -> {"not a mapping"}
    [] f.shape = "mapping" ->
         (IF f.unknown THEN {"unknown key"} ELSE {})
           \union UNION {SectionProblems(f, s, today) : s \in Sections}

IgnoreFilePasses(f, today) == Validate(f, today) = {}

-----------------------------------------------------------------------------
(* eol_check.py *)

\* A product's lts or latest key: absent, a plain value, or a mapping with the
\* day its support ends.
Line == [kind : {"absent", "plain", "mapping"}, ends : Dates]

\* own: the product's own support_ends, when it has no entry per line.
Product == [lts : Line, latest : Line, own : Dates]

\* support-windows.yaml: the two dates of the base OS (none without base_os).
Windows == [base : SUBSET Dates, products : SUBSET Product]

\* Mutant: the last day of the fail window only warns.
StatusOffByOne(ends, today) ==
  CASE ends = NoDate -> "unknown"
    [] ends # NoDate /\ ends - today < 0 -> "expired"
    [] ends # NoDate /\ ends - today \in 0..(FailWithin - 1) -> "fail"
    [] ends # NoDate /\ ends - today \in FailWithin..WarnWithin -> "warn"
    [] OTHER -> "ok"

\* The row of a window; "unknown", an empty value and an absent key are alike.
Status(ends, today) ==
  IF ends = NoDate THEN "unknown"
  ELSE IF ends - today < 0 THEN "expired"
  ELSE IF ends - today <= FailWithin THEN "fail"
  ELSE IF ends - today <= WarnWithin THEN "warn"
  ELSE "ok"

\* Two shapes: by line if the first of lts and latest present is a mapping.
ProductEnds(p) ==
  LET first == IF p.lts.kind # "absent" THEN p.lts ELSE p.latest
  IN  IF first.kind = "mapping"
      THEN {l.ends : l \in {k \in {p.lts, p.latest} : k.kind = "mapping"}}
      ELSE {p.own}

Ends(w) == w.base \union UNION {ProductEnds(p) : p \in w.products}

Rows(w, today) == {Status(ends, today) : ends \in Ends(w)}

\* Exit 0. A date that cannot be parsed ends the script with a traceback.
WindowsPass(w, today) ==
  /\ Malformed \notin Ends(w)
  /\ Rows(w, today) \intersect {"expired", "fail"} = {}
=============================================================================
