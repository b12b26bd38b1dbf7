-------------------------- MODULE CiPipelineProofs --------------------------
(***************************************************************************)
(* Theorems about CiPipeline, for any products, files and bounds.          *)
(*                                                                         *)
(* Three inductive invariants: Dormant (a job the rules leave out never    *)
(* leaves "created"), HandedOver (what an image's digest and its record    *)
(* are worth at each stage, for a product whose builds all started before  *)
(* the gates), and Vetted (what lint and the gates have seen, and that     *)
(* nothing outside a web pipeline gets past sync without lint).            *)
(***************************************************************************)
EXTENDS CiPipeline, TLAPS

(* The policy checks *)

\* A date check_trivyignore.py has no problem with is later than that day and
\* at most MaxDays away.
LEMMA NoExpiryProblem ==
  ASSUME NEW d \in Int, NEW v \in Dates, ExpiryProblems(v, d) = {}
  PROVE  v \in (d + 1)..(d + MaxDays)
<1> USE WindowAssumption, DateAssumption
<1>1. v \notin {NoDate, Malformed}
  BY DEF ExpiryProblems
<1>2. v \in Int
  BY <1>1 DEF Dates
<1>3. ~(v <= d) /\ ~(v - d > MaxDays)
  BY <1>1 DEF ExpiryProblems
<1> QED BY <1>2, <1>3

\* An ignore file that passes on a day has only exceptions in force that day.
THEOREM PassingExceptionsInForce ==
  ASSUME ignore \in IgnoreFile, NEW d \in Int, IgnoreFilePasses(ignore, d),
         NEW e \in Exceptions
  PROVE  InForce(e, d)
<1>1. ignore.shape = "mapping"
  BY DEF Exceptions
<1>2. PICK s \in Sections : e \in ignore.entries[s]
  BY <1>1 DEF Exceptions
<1>3. \A t \in Sections : SectionProblems(ignore, t, d) = {}
  BY <1>1 DEF IgnoreFilePasses, Validate
<1>4. e \in Entry
  BY <1>2 DEF IgnoreFile
<1>5. EntryProblems(e, d) = {}
  BY <1>2, <1>3 DEF SectionProblems
<1>6. ExpiryProblems(e.expiry, d) = {}
  BY <1>5 DEF EntryProblems
<1>7. e.expiry \in Dates
  BY <1>4 DEF Entry
<1> QED BY <1>6, <1>7, NoExpiryProblem DEF InForce

\* Windows that pass on a day close more than FailWithin days later, those
\* that anybody has filled in.
THEOREM PassingWindowsOpen ==
  ASSUME NEW w \in Windows, NEW d \in Int, WindowsPass(w, d), NEW ends \in Ends(w) \ {NoDate}
  PROVE  ends \in Int /\ ends > d + FailWithin
<1> USE WindowAssumption, DateAssumption
<1>1. ends \in Dates
  <2>1. CASE ends \in w.base
    BY <2>1 DEF Windows
  <2>2. CASE \E p \in w.products : ends \in ProductEnds(p)
    <3>1. PICK p \in w.products : ends \in ProductEnds(p)
      BY <2>2
    <3>2. p \in Product
      BY <3>1 DEF Windows
    <3>3. /\ p.own \in Dates
          /\ p.lts \in Line /\ p.latest \in Line
      BY <3>2 DEF Product
    <3>4. p.lts.ends \in Dates /\ p.latest.ends \in Dates
      BY <3>3 DEF Line
    <3> QED BY <3>1, <3>3, <3>4 DEF ProductEnds
  <2> QED BY <2>1, <2>2 DEF Ends
<1>2. ends \in Int
  BY <1>1 DEF Dates, WindowsPass
<1>3. Status(ends, d) \notin {"expired", "fail"}
  BY DEF WindowsPass, Rows
<1>4. ~(ends - d < 0) /\ ~(ends - d <= FailWithin)
  BY <1>3 DEF Status
<1> QED BY <1>2, <1>4

\* Whether a file passes depends on the day through its dates alone, and these
\* pass on an unbroken run of days: from the day on that brings them within
\* MaxDays, until the first of them lapses.
THEOREM PassingDaysAreUnbroken ==
  ASSUME NEW f \in IgnoreFile, NEW a \in Int, NEW c \in Int, NEW b \in a..c,
         IgnoreFilePasses(f, a), IgnoreFilePasses(f, c)
  PROVE  IgnoreFilePasses(f, b)
<1> USE WindowAssumption, DateAssumption
<1>1. ASSUME NEW s \in Sections, f.shape = "mapping" PROVE SectionProblems(f, s, b) = {}
  <2>1. SectionProblems(f, s, a) = {} /\ SectionProblems(f, s, c) = {}
    BY <1>1 DEF IgnoreFilePasses, Validate
  <2>2. f.list[s]
    BY <2>1 DEF SectionProblems
  <2>3. ASSUME NEW e \in f.entries[s] PROVE EntryProblems(e, b) = {}
    <3>1. EntryProblems(e, a) = {} /\ EntryProblems(e, c) = {}
      BY <2>1, <2>2 DEF SectionProblems
    <3>2. e.id /\ e.statement
      BY <3>1 DEF EntryProblems
    <3>3. ExpiryProblems(e.expiry, a) = {} /\ ExpiryProblems(e.expiry, c) = {}
      BY <3>1 DEF EntryProblems
    <3>4. e \in Entry
      BY <1>1 DEF IgnoreFile
    <3>5. e.expiry \in Dates
      BY <3>4 DEF Entry
    <3>6. e.expiry \in (a + 1)..(a + MaxDays) /\ e.expiry \in (c + 1)..(c + MaxDays)
      BY <3>3, <3>5, NoExpiryProblem
    <3>7. ExpiryProblems(e.expiry, b) = {}
      <4>1. e.expiry \in Int /\ ~(e.expiry <= b) /\ ~(e.expiry - b > MaxDays)
        BY <3>6
      <4>2. e.expiry \notin {NoDate, Malformed}
        BY <4>1
      <4> QED BY <4>1, <4>2 DEF ExpiryProblems
    <3> QED BY <3>2, <3>7 DEF EntryProblems
  <2> QED BY <2>2, <2>3 DEF SectionProblems
<1>2. CASE f.shape # "mapping"
  <2>1. f.shape \in {"missing", "empty", "other"}
    BY <1>2 DEF IgnoreFile
  <2>2. Validate(f, b) = Validate(f, a)
    BY <2>1 DEF Validate
  <2> QED BY <2>2 DEF IgnoreFilePasses
<1>3. CASE f.shape = "mapping"
  <2>1. ~f.unknown
    BY <1>3 DEF IgnoreFilePasses, Validate
  <2> QED BY <1>1, <1>3, <2>1 DEF IgnoreFilePasses, Validate
<1> QED BY <1>2, <1>3

\* Support windows only close: a file that fails on a day fails on every later
\* one, so a retried lint never passes what an earlier one has refused.
THEOREM WindowsOnlyClose ==
  ASSUME NEW w \in Windows, NEW a \in Int, NEW b \in Int, a <= b, WindowsPass(w, b)
  PROVE  WindowsPass(w, a)
<1> USE WindowAssumption, DateAssumption
<1>1. Malformed \notin Ends(w)
  BY DEF WindowsPass
<1>2. ASSUME NEW ends \in Ends(w) PROVE Status(ends, a) \notin {"expired", "fail"}
  <2>1. CASE ends = NoDate
    BY <2>1 DEF Status
  <2>2. CASE ends # NoDate
    <3>1. ends \in Int /\ ends > b + FailWithin
      BY <2>2, PassingWindowsOpen
    <3> QED BY <2>2, <3>1 DEF Status
  <2> QED BY <2>1, <2>2
<1> QED BY <1>1, <1>2 DEF WindowsPass, Rows

-----------------------------------------------------------------------------
(* Types *)

\* The jobs of the matrix have a product.
LEMMA MatrixJob ==
  ASSUME NEW j \in Jobs
  PROVE  j[1] \in {"build", "gate", "sign", "patch"} => j[2] \in Products /\ j = <<j[1], j[2]>>
BY DEF Jobs, Job

\* The jobs named in the actions are jobs.
LEMMA JobOf ==
  /\ \A p \in Products : {<<"build", p>>, <<"gate", p>>, <<"sign", p>>, <<"patch", p>>} \subseteq Jobs
  /\ {<<"lint", None>>, <<"sync", None>>} \subseteq Jobs
BY DEF Jobs, Job

\* Every step keeps the types.
LEMMA NextTypeOK == TypeOK /\ [Next]_vars => TypeOK'
<1> SUFFICES ASSUME TypeOK, [Next]_vars PROVE TypeOK'
  OBVIOUS
<1> USE BoundAssumption, JobOf DEF TypeOK, commit, artifacts, workspace, tags, history
<1>1. ASSUME NEW j \in Jobs, StartPlain(j) PROVE TypeOK'
  BY <1>1 DEF StartPlain, Starts
<1>2. ASSUME NEW p \in Products, StartBuild(p) PROVE TypeOK'
  BY <1>2 DEF StartBuild, Starts
<1>3. ASSUME NEW p \in Products, StartGate(p) PROVE TypeOK'
  BY <1>3 DEF StartGate, Starts
<1>4. ASSUME NEW p \in Products, StartSign(p) PROVE TypeOK'
  <2>1. PICK d \in {built[p]} \union {carried[q][p] : q \in Products} :
          work' = [work EXCEPT ![p] = d]
    BY <1>4 DEF StartSign
  <2>2. d \in Digests
    OBVIOUS
  <2>3. work' \in [Products -> Digests]
    BY <2>1, <2>2
  <2> QED BY <1>4, <2>3 DEF StartSign, Starts
<1>5. CASE LintSucceeds
  BY <1>5 DEF LintSucceeds, Finishes
<1>6. CASE SyncSucceeds
  BY <1>6 DEF SyncSucceeds, Finishes
<1>7. ASSUME NEW p \in Products, BuildSucceeds(p) PROVE TypeOK'
  <2>1. pushed[p] + 1 \in Digests
    BY <1>7 DEF BuildSucceeds, Digests
  <2> QED BY <1>7, <2>1 DEF BuildSucceeds, Finishes
<1>8. ASSUME NEW p \in Products, GateSucceeds(p) PROVE TypeOK'
  <2>1. passed' \in [Products -> SUBSET (Digests \X Days)]
    <3>1. <<pushed[p], startDay[<<"gate", p>>]>> \in Digests \X Days
      OBVIOUS
    <3>2. passed' = [passed EXCEPT ![p] = @ \union {<<pushed[p], startDay[<<"gate", p>>]>>}]
      BY <1>8 DEF GateSucceeds
    <3> QED BY <3>1, <3>2
  <2>2. vuln' \in [Products -> Digests]
    BY <1>8 DEF GateSucceeds
  <2> QED BY <1>8, <2>1, <2>2 DEF GateSucceeds, Finishes
<1>9. ASSUME NEW p \in Products, SignSucceeds(p) PROVE TypeOK'
  BY <1>9 DEF SignSucceeds, Finishes
<1>10. ASSUME NEW p \in Products, PatchSucceeds(p) PROVE TypeOK'
  BY <1>10 DEF PatchSucceeds, Finishes
<1>11. ASSUME NEW j \in Jobs, JobFails(j) PROVE TypeOK'
  <2>1. status' \in [Jobs -> {"created", "running", "success", "failed"}] /\ UNCHANGED startDay
    BY <1>11 DEF JobFails, Finishes
  <2>2. UNCHANGED <<commit, day, retries, artifacts, workspace, history>>
    BY <1>11 DEF JobFails
  <2>3. /\ pushed' \in [Products -> Digests]
        /\ promoted' \in [Products -> Digests]
        /\ attested' \in [Products -> Digests]
        /\ patched' \in SUBSET Products
    <3>1. CASE UNCHANGED tags
      BY <3>1
    <3>2. CASE j[1] = "build" /\ ~UNCHANGED tags
      <4>1. j[2] \in Products /\ pushed[j[2]] < MaxBuilds
        BY <1>11, <3>2, MatrixJob DEF JobFails
      <4>2. pushed[j[2]] + 1 \in Digests
        BY <4>1 DEF Digests
      <4>3. /\ pushed' = [pushed EXCEPT ![j[2]] = @ + 1]
            /\ UNCHANGED <<promoted, attested, patched>>
        BY <1>11, <3>2 DEF JobFails
      <4> QED BY <4>1, <4>2, <4>3
    <3>3. CASE j[1] = "sign" /\ ~UNCHANGED tags
      BY <1>11, <3>3, MatrixJob DEF JobFails
    <3>4. CASE j[1] = "patch" /\ ~UNCHANGED tags
      BY <1>11, <3>4, MatrixJob DEF JobFails
    <3> QED BY <1>11, <3>1, <3>2, <3>3, <3>4 DEF JobFails
  <2> QED BY <2>1, <2>2, <2>3
<1>12. ASSUME NEW j \in Jobs, Retry(j) PROVE TypeOK'
  BY <1>12 DEF Retry
<1>13. CASE NextDay
  BY <1>13 DEF NextDay, Days
<1>14. CASE UNCHANGED vars
  BY <1>14 DEF vars
<1> QED BY <1>1, <1>2, <1>3, <1>4, <1>5, <1>6, <1>7, <1>8, <1>9, <1>10, <1>11, <1>12, <1>13,
           <1>14 DEF Next, RunnerStep

\* A new pipeline is of its type.
LEMMA InitTypeOK == Init => TypeOK
BY BoundAssumption DEF Init, TypeOK, Nothing, Digests, Days

\* Every value a pipeline's state can take is of its type.
THEOREM Typing == Spec => []TypeOK
BY InitTypeOK, NextTypeOK, PTL DEF Spec

-----------------------------------------------------------------------------
(* Reviews *)

\* A job the rules leave out is never started, and a review promotes nothing.
Dormant ==
  /\ Creates(trigger)
  /\ \A j \in Jobs \ Selected : status[j] = "created"
  /\ ReviewNeverPromotes

\* What a job's start and end are for it and for the others.
LEMMA StartsOne ==
  ASSUME TypeOK, NEW j \in Jobs, Starts(j)
  PROVE  /\ j \in Selected
         /\ status[j] = "created" /\ status'[j] = "running"
         /\ \A k \in Jobs \ {j} : status'[k] = status[k]
BY DEF TypeOK, Starts, Ready

\* The end of a job, likewise.
LEMMA FinishesOne ==
  ASSUME TypeOK, NEW j \in Jobs, NEW s, Finishes(j, s)
  PROVE  /\ status[j] = "running" /\ status'[j] = s
         /\ \A k \in Jobs \ {j} : status'[k] = status[k]
BY DEF TypeOK, Finishes

\* And its being created anew.
LEMMA RetriesOne ==
  ASSUME TypeOK, NEW j \in Jobs, Retry(j)
  PROVE  /\ status[j] \in {"success", "failed"} /\ status'[j] = "created"
         /\ \A k \in Jobs \ {j} : status'[k] = status[k]
BY DEF TypeOK, Retry

\* The commit, and with it what the rules select, stays.
LEMMA CommitStays == [Next]_vars => UNCHANGED commit /\ Selected' = Selected
<1>1. [Next]_vars => UNCHANGED commit
  BY DEF Next, RunnerStep, StartPlain, StartBuild, StartGate, StartSign, LintSucceeds,
         SyncSucceeds, BuildSucceeds, GateSucceeds, SignSucceeds, PatchSucceeds, JobFails,
         Retry, NextDay, vars, commit
<1>2. UNCHANGED commit => Selected' = Selected
  BY DEF commit, Selected, Selects, LintRules, RebuildRules, SignRules, PatchRules, For, Review
<1> QED BY <1>1, <1>2

\* What one step does to the status of a job.
LEMMA StatusStep ==
  ASSUME TypeOK, [Next]_vars, NEW j \in Jobs
  PROVE  \/ status'[j] = status[j]
         \/ status[j] = "created" /\ status'[j] = "running" /\ j \in Selected
         \/ status[j] = "running" /\ status'[j] \in {"success", "failed"}
         \/ status[j] \in {"success", "failed"} /\ status'[j] = "created"
<1> USE JobOf
<1>1. ASSUME NEW k \in Jobs, Starts(k) PROVE status'[j] = status[j] \/ j = k
  BY <1>1, StartsOne
<1>2. ASSUME NEW k \in Jobs, NEW s, Finishes(k, s) PROVE status'[j] = status[j] \/ j = k
  BY <1>2, FinishesOne
<1>3. CASE \E k \in Jobs : Starts(k)
  BY <1>3, <1>1, StartsOne
<1>4. CASE \E k \in Jobs : Finishes(k, "success") \/ Finishes(k, "failed")
  BY <1>4, <1>2, FinishesOne
<1>5. CASE \E k \in Jobs : Retry(k)
  BY <1>5, RetriesOne
<1>6. CASE UNCHANGED status
  BY <1>6
<1> QED
  BY <1>3, <1>4, <1>5, <1>6
  DEF Next, RunnerStep, StartPlain, StartBuild, StartGate, StartSign, LintSucceeds,
      SyncSucceeds, BuildSucceeds, GateSucceeds, SignSucceeds, PatchSucceeds, JobFails,
      NextDay, vars

\* In a review, sign and patch are dormant, and nothing else moves those tags.
LEMMA NextDormant == TypeOK /\ Dormant /\ [Next]_vars => Dormant'
<1> SUFFICES ASSUME TypeOK, Dormant, [Next]_vars PROVE Dormant'
  OBVIOUS
<1>1. UNCHANGED commit /\ Selected' = Selected
  BY CommitStays
<1>2. Creates(trigger)'
  BY <1>1 DEF Dormant, Creates, commit
<1>3. \A j \in Jobs \ Selected : status'[j] = "created"
  BY StatusStep DEF Dormant
<1>4. ReviewNeverPromotes'
  <2> SUFFICES ASSUME Review PROVE promoted' = promoted /\ patched' = patched
    BY <1>1 DEF ReviewNeverPromotes, Review, commit, Dormant, Nothing
  <2>1. ~SignRules /\ ~PatchRules
    BY DEF Dormant, Creates, SignRules, PatchRules, Review, For
  <2>2. \A p \in Products : <<"sign", p>> \notin Selected /\ <<"patch", p>> \notin Selected
    BY <2>1 DEF Selected, Selects
  <2>3. \A j \in Jobs : j[1] \in {"sign", "patch"} => status[j] # "running"
    <3> TAKE j \in Jobs
    <3> HAVE j[1] \in {"sign", "patch"}
    <3>1. j \notin Selected
      BY <2>2, MatrixJob
    <3> QED BY <3>1 DEF Dormant
  <2>4. ASSUME NEW p \in Products PROVE ~SignSucceeds(p) /\ ~PatchSucceeds(p)
    BY <2>3, JobOf DEF SignSucceeds, PatchSucceeds, Finishes
  <2>5. ASSUME NEW j \in Jobs, JobFails(j) PROVE promoted' = promoted /\ patched' = patched
    BY <2>3, <2>5 DEF JobFails, Finishes, tags
  <2> QED
    BY <2>4, <2>5
    DEF Next, RunnerStep, StartPlain, StartBuild, StartGate, StartSign, LintSucceeds,
        SyncSucceeds, BuildSucceeds, GateSucceeds, Retry, NextDay, vars, tags
<1> QED BY <1>1, <1>2, <1>3, <1>4 DEF Dormant

\* No job has run in a new pipeline.
LEMMA InitDormant == Init => Dormant
BY DEF Init, Dormant, ReviewNeverPromotes

\* Jobs the rules leave out never run.
LEMMA AlwaysDormant == Spec => []Dormant
<1>1. Init => TypeOK /\ Dormant
  BY InitTypeOK, InitDormant
<1>2. TypeOK /\ Dormant /\ [Next]_vars => (TypeOK /\ Dormant)'
  BY NextTypeOK, NextDormant
<1> QED BY <1>1, <1>2, PTL DEF Spec

\* A merge request's pipeline moves no tag that deployments use.
THEOREM ReviewsNeverPromote == Spec => []ReviewNeverPromotes
<1>1. Dormant => ReviewNeverPromotes
  BY DEF Dormant
<1> QED BY <1>1, AlwaysDormant, PTL

-----------------------------------------------------------------------------
(* From the build to the promotion *)

GateStarted == \E q \in Products : status[<<"gate", q>>] # "created"

HasPassed(p, i) == \E d \in Days : <<i, d>> \in passed[p]

\* What a successful build hands on is what its tag points at.
BuiltIsPushed(p) ==
  status[<<"build", p>>] = "success" => built[p] = pushed[p] /\ pushed[p] # 0

\* Once a gate has started, the image is the one that was built before.
Settled(p) ==
  GateStarted => /\ status[<<"build", p>>] \in {"success", "created"}
                 /\ built[p] = pushed[p]
                 /\ pushed[p] # 0

Carried(p) ==
  \A q \in Products :
    status[<<"gate", q>>] \in {"running", "success"} => carried[q][p] = built[p]

Scanned(p) ==
  status[<<"gate", p>>] = "success" => vuln[p] = pushed[p] /\ HasPassed(p, vuln[p])

Downloaded(p) ==
  status[<<"sign", p>>] = "running" => work[p] = record[p] /\ HasPassed(p, work[p])

PromotedAsGated(p) ==
  promoted[p] # 0 => HasPassed(p, promoted[p]) /\ attested[p] = promoted[p]

HandedOver ==
  \A p \in Products :
    /\ BuiltIsPushed(p)
    /\ p \notin overtaken => /\ Settled(p)
                             /\ Carried(p)
                             /\ Scanned(p)
                             /\ Downloaded(p)
                             /\ PromotedAsGated(p)

\* A job that fails leaves artifacts and history alone, and writes only its own
\* product's tags.
LEMMA FailWrites ==
  ASSUME TypeOK, NEW j \in Jobs, JobFails(j), NEW p \in Products
  PROVE  /\ UNCHANGED <<built, carried, vuln, work, record, linted, passed, overtaken>>
         /\ pushed'[p] = pushed[p] \/ status[<<"build", p>>] = "running"
         /\ \/ promoted'[p] = promoted[p] /\ attested'[p] = attested[p]
            \/ /\ status[<<"sign", p>>] = "running"
               /\ promoted'[p] = work[p] /\ attested'[p] = record[p]
<1>1. UNCHANGED <<artifacts, workspace, history>>
  BY DEF JobFails
<1>2. status[j] = "running"
  BY DEF JobFails, Finishes
<1>3. CASE UNCHANGED tags
  BY <1>1, <1>3 DEF tags, artifacts, workspace, history
<1>4. CASE j[1] = "build" /\ ~UNCHANGED tags
  <2>1. j[2] \in Products /\ j = <<"build", j[2]>>
    BY <1>4, MatrixJob
  <2>2. pushed' = [pushed EXCEPT ![j[2]] = @ + 1] /\ UNCHANGED <<promoted, attested>>
    BY <1>4 DEF JobFails
  <2>3. pushed'[p] = pushed[p] \/ j = <<"build", p>>
    BY <2>1, <2>2 DEF TypeOK
  <2> QED BY <1>1, <1>2, <2>2, <2>3 DEF artifacts, workspace, history
<1>5. CASE j[1] = "sign" /\ ~UNCHANGED tags
  <2>1. j[2] \in Products /\ j = <<"sign", j[2]>>
    BY <1>5, MatrixJob
  <2>2. /\ promoted' = [promoted EXCEPT ![j[2]] = work[j[2]]]
        /\ attested' = [attested EXCEPT ![j[2]] = record[j[2]]]
        /\ UNCHANGED pushed
    BY <1>5 DEF JobFails
  <2>3. \/ promoted'[p] = promoted[p] /\ attested'[p] = attested[p]
        \/ j = <<"sign", p>> /\ promoted'[p] = work[p] /\ attested'[p] = record[p]
    BY <2>1, <2>2 DEF TypeOK
  <2> QED BY <1>1, <1>2, <2>2, <2>3 DEF artifacts, workspace, history
<1>6. CASE j[1] = "patch" /\ ~UNCHANGED tags
  <2>1. UNCHANGED <<pushed, promoted, attested>>
    BY <1>6 DEF JobFails
  <2> QED BY <1>1, <2>1 DEF artifacts, workspace, history
<1> QED BY <1>3, <1>4, <1>5, <1>6 DEF JobFails

\* Which step writes what of a product, and what it writes.
LEMMA Writers ==
  ASSUME TypeOK, [Next]_vars, NEW p \in Products
  PROVE  /\ pushed'[p] = pushed[p] \/ status[<<"build", p>>] = "running"
         /\ built'[p] = built[p] \/ BuildSucceeds(p)
         /\ carried'[p] = carried[p] \/ StartGate(p)
         /\ vuln'[p] = vuln[p] \/ GateSucceeds(p)
         /\ (work'[p] = work[p] /\ record'[p] = record[p]) \/ StartSign(p)
         /\ \/ promoted'[p] = promoted[p] /\ attested'[p] = attested[p]
            \/ /\ status[<<"sign", p>>] = "running"
               /\ promoted'[p] = work[p] /\ attested'[p] = record[p]
         /\ passed[p] \subseteq passed'[p]
         /\ overtaken \subseteq overtaken'
<1> DEFINE Written == /\ pushed'[p] = pushed[p] \/ status[<<"build", p>>] = "running"
                      /\ built'[p] = built[p] \/ BuildSucceeds(p)
                      /\ carried'[p] = carried[p] \/ StartGate(p)
                      /\ vuln'[p] = vuln[p] \/ GateSucceeds(p)
                      /\ (work'[p] = work[p] /\ record'[p] = record[p]) \/ StartSign(p)
                      /\ \/ promoted'[p] = promoted[p] /\ attested'[p] = attested[p]
                         \/ /\ status[<<"sign", p>>] = "running"
                            /\ promoted'[p] = work[p] /\ attested'[p] = record[p]
                      /\ passed[p] \subseteq passed'[p]
                      /\ overtaken \subseteq overtaken'
<1> USE DEF tags, artifacts, workspace, history
<1>1. CASE UNCHANGED <<artifacts, workspace, tags, passed>> /\ overtaken \subseteq overtaken'
  BY <1>1
<1>2. ASSUME NEW q \in Products, BuildSucceeds(q) PROVE Written
  <2>1. /\ pushed' = [pushed EXCEPT ![q] = @ + 1]
        /\ built' = [built EXCEPT ![q] = pushed'[q]]
        /\ status[<<"build", q>>] = "running"
        /\ UNCHANGED <<carried, vuln, workspace, promoted, attested, history>>
    BY <1>2 DEF BuildSucceeds, Finishes
  <2> QED BY <1>2, <2>1 DEF TypeOK
<1>3. ASSUME NEW q \in Products, GateSucceeds(q) PROVE Written
  <2>1. /\ vuln' = [vuln EXCEPT ![q] = pushed[q]]
        /\ passed' = [passed EXCEPT ![q] = @ \union {<<pushed[q], startDay[<<"gate", q>>]>>}]
        /\ UNCHANGED <<built, carried, workspace, tags, linted, overtaken>>
    BY <1>3 DEF GateSucceeds
  <2> QED BY <1>3, <2>1 DEF TypeOK
<1>4. ASSUME NEW q \in Products, SignSucceeds(q) PROVE Written
  <2>1. /\ promoted' = [promoted EXCEPT ![q] = work[q]]
        /\ attested' = [attested EXCEPT ![q] = record[q]]
        /\ status[<<"sign", q>>] = "running"
        /\ UNCHANGED <<artifacts, workspace, pushed, history>>
    BY <1>4 DEF SignSucceeds, Finishes
  <2> QED BY <2>1 DEF TypeOK
<1>5. ASSUME NEW q \in Products, StartGate(q) PROVE Written
  <2>1. /\ carried' = [carried EXCEPT ![q] = built]
        /\ UNCHANGED <<built, vuln, workspace, tags, history>>
    BY <1>5 DEF StartGate
  <2> QED BY <1>5, <2>1 DEF TypeOK
<1>6. ASSUME NEW q \in Products, StartSign(q) PROVE Written
  <2>1. PICK d : work' = [work EXCEPT ![q] = d]
    BY <1>6 DEF StartSign
  <2>2. /\ record' = [record EXCEPT ![q] = vuln[q]]
        /\ UNCHANGED <<artifacts, tags, history>>
    BY <1>6 DEF StartSign
  <2> QED BY <1>6, <2>1, <2>2 DEF TypeOK
<1>7. ASSUME NEW j \in Jobs, JobFails(j) PROVE Written
  BY <1>7, FailWrites
<1>8. ASSUME NEW q \in Products, PatchSucceeds(q) PROVE Written
  BY <1>8 DEF PatchSucceeds
<1> QED
  BY <1>1, <1>2, <1>3, <1>4, <1>5, <1>6, <1>7, <1>8
  DEF Next, RunnerStep, StartPlain, StartBuild, LintSucceeds, SyncSucceeds, Retry, NextDay, vars

\* Which step starts, or ends well, a job of the matrix.
LEMMA MatrixSteps ==
  ASSUME TypeOK, [Next]_vars, NEW p \in Products
  PROVE  /\ status[<<"build", p>>] = "created" /\ status'[<<"build", p>>] = "running"
              => StartBuild(p)
         /\ status[<<"gate", p>>] = "created" /\ status'[<<"gate", p>>] = "running"
              => StartGate(p)
         /\ status[<<"sign", p>>] = "created" /\ status'[<<"sign", p>>] = "running"
              => StartSign(p)
         /\ status[<<"build", p>>] = "running" /\ status'[<<"build", p>>] = "success"
              => BuildSucceeds(p)
         /\ status[<<"gate", p>>] = "running" /\ status'[<<"gate", p>>] = "success"
              => GateSucceeds(p)
<1> USE JobOf
<1>1. ASSUME NEW j \in Jobs, NEW k \in Jobs, Starts(k), status'[j] # status[j]
      PROVE  j = k /\ status'[j] = "running"
  BY <1>1, StartsOne
<1>2. ASSUME NEW j \in Jobs, NEW k \in Jobs, NEW s, Finishes(k, s), status'[j] # status[j]
      PROVE  j = k /\ status[j] = "running" /\ status'[j] = s
  BY <1>2, FinishesOne
<1>3. ASSUME NEW j \in Jobs, NEW k \in Jobs, Retry(k), status'[j] # status[j]
      PROVE  status'[j] = "created"
  BY <1>3, RetriesOne
<1>4. ASSUME NEW j \in Jobs, status[j] = "created", status'[j] = "running"
      PROVE  \/ StartPlain(j)
             \/ \E q \in Products :
                  \/ j = <<"build", q>> /\ StartBuild(q)
                  \/ j = <<"gate", q>> /\ StartGate(q)
                  \/ j = <<"sign", q>> /\ StartSign(q)
  <2>0. status'[j] # status[j]
    BY <1>4
  <2>1. \A k \in Jobs : ~Retry(k) /\ ~Finishes(k, "success") /\ ~Finishes(k, "failed")
    BY <1>2, <1>3, <1>4, <2>0
  <2>6. \A k \in Jobs : Starts(k) => j = k
    BY <1>1, <2>0
  <2>2. CASE \E k \in Jobs : StartPlain(k)
    <3>1. PICK k \in Jobs : StartPlain(k)
      BY <2>2
    <3>2. j = k
      BY <2>6, <3>1 DEF StartPlain
    <3> QED BY <3>1, <3>2
  <2>3. CASE \E q \in Products : StartBuild(q)
    <3>1. PICK q \in Products : StartBuild(q)
      BY <2>3
    <3>2. j = <<"build", q>>
      BY <2>6, <3>1 DEF StartBuild
    <3> QED BY <3>1, <3>2
  <2>4. CASE \E q \in Products : StartGate(q)
    <3>1. PICK q \in Products : StartGate(q)
      BY <2>4
    <3>2. j = <<"gate", q>>
      BY <2>6, <3>1 DEF StartGate
    <3> QED BY <3>1, <3>2
  <2>5. CASE \E q \in Products : StartSign(q)
    <3>1. PICK q \in Products : StartSign(q)
      BY <2>5
    <3>2. j = <<"sign", q>>
      BY <2>6, <3>1 DEF StartSign
    <3> QED BY <3>1, <3>2
  <2> QED
    BY <1>4, <2>1, <2>2, <2>3, <2>4, <2>5
    DEF Next, RunnerStep, LintSucceeds, SyncSucceeds, BuildSucceeds, GateSucceeds,
        SignSucceeds, PatchSucceeds, JobFails, NextDay, vars
<1>5. ASSUME NEW j \in Jobs, status[j] = "running", status'[j] = "success",
             j[1] \in {"build", "gate"}
      PROVE  \E q \in Products :
               \/ j = <<"build", q>> /\ BuildSucceeds(q)
               \/ j = <<"gate", q>> /\ GateSucceeds(q)
  <2>0. status'[j] # status[j]
    BY <1>5
  <2>1. \A k \in Jobs : ~Retry(k) /\ ~Starts(k) /\ ~Finishes(k, "failed")
    BY <1>1, <1>2, <1>3, <1>5, <2>0
  <2>2. \A k \in Jobs : Finishes(k, "success") => j = k
    BY <1>2, <2>0
  <2>3. CASE \E q \in Products : BuildSucceeds(q)
    <3>1. PICK q \in Products : BuildSucceeds(q)
      BY <2>3
    <3>2. j = <<"build", q>>
      BY <2>2, <3>1 DEF BuildSucceeds
    <3> QED BY <3>1, <3>2
  <2>4. CASE \E q \in Products : GateSucceeds(q)
    <3>1. PICK q \in Products : GateSucceeds(q)
      BY <2>4
    <3>2. j = <<"gate", q>>
      BY <2>2, <3>1 DEF GateSucceeds
    <3> QED BY <3>1, <3>2
  <2>5. ~LintSucceeds /\ ~SyncSucceeds
    BY <1>5, <2>2 DEF LintSucceeds, SyncSucceeds
  <2>6. ASSUME NEW q \in Products PROVE ~SignSucceeds(q) /\ ~PatchSucceeds(q)
    <3>1. j # <<"sign", q>> /\ j # <<"patch", q>>
      BY <1>5
    <3>2. ~Finishes(<<"sign", q>>, "success") /\ ~Finishes(<<"patch", q>>, "success")
      BY <2>2, <3>1
    <3> QED BY <3>2 DEF SignSucceeds, PatchSucceeds
  <2>7. \A q \in Products : ~StartBuild(q) /\ ~StartGate(q) /\ ~StartSign(q)
    BY <2>1 DEF StartBuild, StartGate, StartSign
  <2>8. \A k \in Jobs : ~StartPlain(k) /\ ~JobFails(k)
    BY <2>1 DEF StartPlain, JobFails
  <2> QED
    BY <2>0, <2>1, <2>3, <2>4, <2>5, <2>6, <2>7, <2>8 DEF Next, RunnerStep, NextDay, vars
<1>6. ASSUME NEW stage \in {"build", "gate", "sign"}, NEW j, j = <<stage, p>>
      PROVE  j \in Jobs /\ j[1] = stage /\ ~StartPlain(j)
  BY <1>6 DEF StartPlain
<1> QED BY <1>4, <1>5, <1>6

\* From the start of the first gate on, nobody replaces what a product built
\* before has handed on.
LEMMA GatedImageStays ==
  ASSUME TypeOK, HandedOver, [Next]_vars, GateStarted, NEW p \in Products \ overtaken
  PROVE  pushed'[p] = pushed[p] /\ built'[p] = built[p]
<1>1. status[<<"build", p>>] # "running"
  BY DEF HandedOver, Settled
<1>2. ~BuildSucceeds(p)
  BY <1>1 DEF BuildSucceeds, Finishes
<1> QED BY <1>1, <1>2, Writers

\* The gates of a pipeline start when all its builds have succeeded.
LEMMA GateStartsAfterBuilds ==
  ASSUME TypeOK, HandedOver, NEW q \in Products, StartGate(q), NEW p \in Products
  PROVE  /\ status[<<"build", p>>] = "success" /\ status'[<<"build", p>>] = "success"
         /\ built[p] = pushed[p] /\ pushed[p] # 0
         /\ pushed' = pushed /\ built' = built /\ carried'[q] = built
<1>1. status[<<"build", p>>] = "success"
  BY DEF StartGate, Starts, Ready, Needs, Job
<1>2. status'[<<"build", p>>] = "success"
  BY <1>1, StartsOne, JobOf DEF StartGate
<1>3. pushed' = pushed /\ built' = built /\ carried'[q] = built
  BY DEF StartGate, TypeOK, tags
<1> QED BY <1>1, <1>2, <1>3 DEF HandedOver, BuiltIsPushed

\* A product is overtaken from the moment on at which its build starts after a
\* gate has.
LEMMA NextSettled ==
  ASSUME TypeOK, HandedOver, [Next]_vars, NEW p \in Products, p \notin overtaken'
  PROVE  Settled(p)'
<1> USE JobOf
<1>1. p \notin overtaken
  BY Writers
<1> SUFFICES ASSUME GateStarted'
             PROVE  /\ status'[<<"build", p>>] \in {"success", "created"}
                    /\ built'[p] = pushed'[p]
                    /\ pushed'[p] # 0
  BY DEF Settled
<1>2. CASE GateStarted
  <2>1. /\ status[<<"build", p>>] \in {"success", "created"}
        /\ built[p] = pushed[p] /\ pushed[p] # 0
    BY <1>1, <1>2 DEF HandedOver, Settled
  <2>2. ~StartBuild(p)
    BY <1>2 DEF StartBuild, GateStarted, Job
  <2>3. status'[<<"build", p>>] \in {"success", "created"}
    BY <2>1, <2>2, StatusStep, MatrixSteps
  <2> QED BY <1>1, <1>2, <2>1, <2>3, GatedImageStays
<1>3. CASE ~GateStarted
  <2>1. PICK q \in Products : status'[<<"gate", q>>] # "created"
    BY DEF GateStarted
  <2>2. StartGate(q)
    BY <1>3, <2>1, StatusStep, MatrixSteps DEF GateStarted
  <2> QED BY <2>2, GateStartsAfterBuilds
<1> QED BY <1>2, <1>3

\* The digests that successful gates carry on are those of the builds.
LEMMA NextCarried ==
  ASSUME TypeOK, HandedOver, [Next]_vars, NEW p \in Products, p \notin overtaken'
  PROVE  Carried(p)'
<1> USE JobOf
<1>1. p \notin overtaken
  BY Writers
<1> SUFFICES ASSUME NEW q \in Products, status'[<<"gate", q>>] \in {"running", "success"}
             PROVE  carried'[q][p] = built'[p]
  BY DEF Carried
<1>2. CASE StartGate(q)
  BY <1>2, GateStartsAfterBuilds
<1>3. CASE ~StartGate(q)
  <2>1. status[<<"gate", q>>] \in {"running", "success"}
    BY <1>3, StatusStep, MatrixSteps
  <2>2. GateStarted
    BY <2>1 DEF GateStarted
  <2>3. carried[q][p] = built[p]
    BY <1>1, <2>1 DEF HandedOver, Carried
  <2>4. carried'[q] = carried[q]
    BY <1>3, Writers
  <2> QED BY <1>1, <2>2, <2>3, <2>4, GatedImageStays
<1> QED BY <1>2, <1>3

\* What has passed a gate has passed it for good.
LEMMA PassedStays ==
  ASSUME TypeOK, [Next]_vars, NEW p \in Products, NEW i, HasPassed(p, i)
  PROVE  HasPassed(p, i)'
BY Writers DEF HasPassed

\* A gate that succeeds has recorded, and passed, the image of its tag.
LEMMA NextScanned ==
  ASSUME TypeOK, HandedOver, [Next]_vars, NEW p \in Products, p \notin overtaken'
  PROVE  Scanned(p)'
<1> USE JobOf
<1>1. p \notin overtaken
  BY Writers
<1> SUFFICES ASSUME status'[<<"gate", p>>] = "success"
             PROVE  vuln'[p] = pushed'[p] /\ HasPassed(p, vuln[p])'
  BY DEF Scanned
<1>2. CASE GateSucceeds(p)
  <2>1. /\ vuln' = [vuln EXCEPT ![p] = pushed[p]]
        /\ passed' = [passed EXCEPT ![p] = @ \union {<<pushed[p], startDay[<<"gate", p>>]>>}]
        /\ pushed' = pushed
    BY <1>2 DEF GateSucceeds, tags
  <2>2. vuln'[p] = pushed[p] /\ <<pushed[p], startDay[<<"gate", p>>]>> \in passed'[p]
    BY <2>1 DEF TypeOK
  <2>3. startDay[<<"gate", p>>] \in Days
    BY DEF TypeOK
  <2> QED BY <2>1, <2>2, <2>3 DEF HasPassed
<1>3. CASE ~GateSucceeds(p)
  <2>1. status[<<"gate", p>>] = "success"
    BY <1>3, StatusStep, MatrixSteps
  <2>2. GateStarted
    BY <2>1 DEF GateStarted
  <2>3. vuln[p] = pushed[p] /\ HasPassed(p, vuln[p])
    BY <1>1, <2>1 DEF HandedOver, Scanned
  <2>4. vuln'[p] = vuln[p]
    BY <1>3, Writers
  <2>5. HasPassed(p, vuln[p])'
    BY <2>3, <2>4, PassedStays DEF HasPassed
  <2> QED BY <1>1, <2>2, <2>3, <2>4, <2>5, GatedImageStays
<1> QED BY <1>2, <1>3

\* Whichever artifact comes last, sign has the digest that its product's gate
\* has passed, and the record of that scan.
LEMMA NextDownloaded ==
  ASSUME TypeOK, HandedOver, [Next]_vars, NEW p \in Products, p \notin overtaken'
  PROVE  Downloaded(p)'
<1> USE JobOf
<1>1. p \notin overtaken
  BY Writers
<1> SUFFICES ASSUME status'[<<"sign", p>>] = "running"
             PROVE  work'[p] = record'[p] /\ HasPassed(p, work[p])'
  BY DEF Downloaded
<1>2. CASE StartSign(p)
  <2>1. \A q \in Products : status[<<"gate", q>>] = "success"
    BY <1>2 DEF StartSign, Starts, Ready, Needs, Job
  <2>2. GateStarted
    BY <2>1 DEF GateStarted
  <2>3. built[p] = pushed[p]
    BY <1>1, <2>2 DEF HandedOver, Settled
  <2>4. \A q \in Products : carried[q][p] = built[p]
    BY <1>1, <2>1 DEF HandedOver, Carried
  <2>5. vuln[p] = pushed[p] /\ HasPassed(p, vuln[p])
    BY <1>1, <2>1 DEF HandedOver, Scanned
  <2>6. PICK d \in {built[p]} \union {carried[q][p] : q \in Products} :
          work' = [work EXCEPT ![p] = d]
    BY <1>2 DEF StartSign
  <2>7. work'[p] = vuln[p]
    BY <2>3, <2>4, <2>5, <2>6 DEF TypeOK
  <2>8. record'[p] = vuln[p]
    BY <1>2 DEF StartSign, TypeOK
  <2>9. HasPassed(p, work[p])'
    BY <2>5, <2>7, PassedStays DEF HasPassed
  <2> QED BY <2>7, <2>8, <2>9
<1>3. CASE ~StartSign(p)
  <2>1. status[<<"sign", p>>] = "running"
    BY <1>3, StatusStep, MatrixSteps
  <2>2. work[p] = record[p] /\ HasPassed(p, work[p])
    BY <1>1, <2>1 DEF HandedOver, Downloaded
  <2>3. work'[p] = work[p] /\ record'[p] = record[p]
    BY <1>3, Writers
  <2>4. HasPassed(p, work[p])'
    BY <2>2, <2>3, PassedStays DEF HasPassed
  <2> QED BY <2>2, <2>3, <2>4
<1> QED BY <1>2, <1>3

\* sign promotes what it has downloaded, also when it fails after that.
LEMMA NextPromotedAsGated ==
  ASSUME TypeOK, HandedOver, [Next]_vars, NEW p \in Products, p \notin overtaken'
  PROVE  PromotedAsGated(p)'
<1>1. p \notin overtaken
  BY Writers
<1> SUFFICES ASSUME promoted'[p] # 0
             PROVE  HasPassed(p, promoted[p])' /\ attested'[p] = promoted'[p]
  BY DEF PromotedAsGated
<1>2. CASE promoted'[p] = promoted[p] /\ attested'[p] = attested[p]
  <2>1. HasPassed(p, promoted[p]) /\ attested[p] = promoted[p]
    BY <1>1, <1>2 DEF HandedOver, PromotedAsGated
  <2> QED BY <1>2, <2>1, PassedStays DEF HasPassed
<1>3. CASE status[<<"sign", p>>] = "running" /\ promoted'[p] = work[p] /\ attested'[p] = record[p]
  <2>1. work[p] = record[p] /\ HasPassed(p, work[p])
    BY <1>1, <1>3 DEF HandedOver, Downloaded
  <2> QED BY <1>3, <2>1, PassedStays DEF HasPassed
<1> QED BY <1>2, <1>3, Writers

\* Every step of a pipeline keeps what the jobs have handed each other.
LEMMA NextHandedOver == TypeOK /\ HandedOver /\ [Next]_vars => HandedOver'
<1> SUFFICES ASSUME TypeOK, HandedOver, [Next]_vars, NEW p \in Products
             PROVE  /\ BuiltIsPushed(p)'
                    /\ p \notin overtaken' => /\ Settled(p)' /\ Carried(p)' /\ Scanned(p)'
                                              /\ Downloaded(p)' /\ PromotedAsGated(p)'
  BY DEF HandedOver
<1>1. BuiltIsPushed(p)'
  <2> SUFFICES ASSUME status'[<<"build", p>>] = "success"
               PROVE  built'[p] = pushed'[p] /\ pushed'[p] # 0
    BY DEF BuiltIsPushed
  <2>1. CASE BuildSucceeds(p)
    <3>1. /\ pushed' = [pushed EXCEPT ![p] = @ + 1]
          /\ built' = [built EXCEPT ![p] = pushed'[p]]
      BY <2>1 DEF BuildSucceeds
    <3>2. pushed[p] \in Nat
      BY BoundAssumption DEF TypeOK, Digests
    <3> QED BY <3>1, <3>2 DEF TypeOK
  <2>2. CASE ~BuildSucceeds(p)
    <3>1. status[<<"build", p>>] = "success"
      BY <2>2, StatusStep, MatrixSteps, JobOf
    <3> QED BY <2>2, <3>1, Writers DEF HandedOver, BuiltIsPushed
  <2> QED BY <2>1, <2>2
<1> QED BY <1>1, NextSettled, NextCarried, NextScanned, NextDownloaded, NextPromotedAsGated

\* Nothing has been handed over in a new pipeline.
LEMMA InitHandedOver == Init => HandedOver
BY JobOf DEF Init, HandedOver, BuiltIsPushed, Settled, GateStarted, Carried, Scanned, Downloaded,
             PromotedAsGated, Nothing

\* So it always holds, with what it rests on.
LEMMA AlwaysHandedOver == Spec => []HandedOver
<1>1. Init => TypeOK /\ HandedOver
  BY InitTypeOK, InitHandedOver
<1>2. TypeOK /\ HandedOver /\ [Next]_vars => (TypeOK /\ HandedOver)'
  BY NextTypeOK, NextHandedOver
<1> QED BY <1>1, <1>2, PTL DEF Spec

\* What sign promotes is what the product's own gate has passed, with the
\* record of that scan, unless its build started after a gate had.
THEOREM AlwaysSignsWhatItGated == Spec => []SignsWhatItGated
<1>1. HandedOver => SignsWhatItGated
  BY DEF HandedOver, SignsWhatItGated, PromotedAsGated, HasPassed
<1> QED BY <1>1, AlwaysHandedOver, PTL

-----------------------------------------------------------------------------
(* A release behind a gate *)

\* What a gate of an image built in order has scanned, and sign has downloaded,
\* is an image: the tag of a successful build is there.
RealImages ==
  \A p \in Products \ overtaken :
    status[<<"sign", p>>] = "running" => work[p] \in Digests \ {0}

\* sign starts after gates that have started after builds.
LEMMA NextRealImages ==
  TypeOK /\ HandedOver /\ RealImages /\ [Next]_vars => RealImages'
<1> SUFFICES ASSUME TypeOK, HandedOver, RealImages, [Next]_vars, NEW p \in Products,
                    p \notin overtaken', status'[<<"sign", p>>] = "running"
             PROVE  work'[p] \in Digests \ {0}
  BY DEF RealImages
<1> USE JobOf
<1>1. p \notin overtaken
  BY Writers
<1>2. CASE StartSign(p)
  <2>1. HandedOver'
    BY NextHandedOver
  <2>2. work'[p] = record'[p]
    BY <2>1 DEF HandedOver, Downloaded
  <2>3. status[<<"gate", p>>] = "success"
    BY <1>2 DEF StartSign, Starts, Ready, Needs, Job
  <2>4. GateStarted
    BY <2>3 DEF GateStarted
  <2>5. vuln[p] = pushed[p] /\ pushed[p] # 0
    BY <1>1, <2>3, <2>4 DEF HandedOver, Scanned, Settled
  <2>6. record'[p] = vuln[p]
    BY <1>2 DEF StartSign, TypeOK
  <2> QED BY <2>2, <2>5, <2>6 DEF TypeOK
<1>3. CASE ~StartSign(p)
  <2>1. status[<<"sign", p>>] = "running"
    BY <1>3, StatusStep, MatrixSteps
  <2>2. work'[p] = work[p]
    BY <1>3, Writers
  <2> QED BY <1>1, <2>1, <2>2 DEF RealImages
<1> QED BY <1>2, <1>3

\* No sign job runs in a new pipeline.
LEMMA InitRealImages == Init => RealImages
BY JobOf DEF Init, RealImages

\* A sign job that runs is in a pipeline that is no review.
LEMMA ReviewsDoNotSign ==
  ASSUME TypeOK, Dormant, NEW p \in Products, status[<<"sign", p>>] = "running"
  PROVE  ~Review
<1>1. SignRules
  <2>1. <<"sign", p>> \in Selected
    BY JobOf DEF Dormant
  <2> QED BY <2>1 DEF Selected, Selects
<1> QED BY <1>1 DEF Dormant, Creates, SignRules, Review, For

Released(p) ==
  /\ status[<<"sign", p>>] = "running"
  /\ promoted' = [promoted EXCEPT ![p] = work[p]]
  /\ attested' = [attested EXCEPT ![p] = record[p]]
  /\ UNCHANGED <<passed, overtaken>>

\* Of the abstract state, a step of the pipeline adds one scan to what has
\* passed, or overtakes a product, or releases what a sign job has downloaded.
LEMMA AbstractWriters ==
  ASSUME TypeOK, [Next]_vars
  PROVE  \/ UNCHANGED <<passed, overtaken, promoted, attested>>
         \/ \E p \in Products :
              /\ overtaken' = overtaken \union {p}
              /\ UNCHANGED <<passed, promoted, attested>>
         \/ \E p \in Products, i \in Digests, d \in Days :
              /\ passed' = [passed EXCEPT ![p] = @ \union {<<i, d>>}]
              /\ UNCHANGED <<overtaken, promoted, attested>>
         \/ \E p \in Products : Released(p)
<1> USE JobOf DEF tags, history
<1>1. ASSUME NEW p \in Products, StartBuild(p)
      PROVE  /\ overtaken' \in {overtaken, overtaken \union {p}}
             /\ UNCHANGED <<passed, promoted, attested>>
  BY <1>1 DEF StartBuild
<1>2. ASSUME NEW p \in Products, GateSucceeds(p)
      PROVE  \E i \in Digests, d \in Days :
               /\ passed' = [passed EXCEPT ![p] = @ \union {<<i, d>>}]
               /\ UNCHANGED <<overtaken, promoted, attested>>
  <2>1. pushed[p] \in Digests /\ startDay[<<"gate", p>>] \in Days
    BY DEF TypeOK
  <2> QED BY <1>2, <2>1 DEF GateSucceeds
<1>3. ASSUME NEW p \in Products, SignSucceeds(p) PROVE Released(p)
  BY <1>3 DEF SignSucceeds, Finishes, Released
<1>4. ASSUME NEW j \in Jobs, JobFails(j)
      PROVE  \/ UNCHANGED <<passed, overtaken, promoted, attested>>
             \/ \E p \in Products : Released(p)
  <2>1. CASE j[1] = "sign" /\ ~UNCHANGED tags
    <3>1. j[2] \in Products /\ j = <<"sign", j[2]>>
      BY <2>1, MatrixJob
    <3>2. status[j] = "running"
      BY <1>4 DEF JobFails, Finishes
    <3>3. /\ promoted' = [promoted EXCEPT ![j[2]] = work[j[2]]]
          /\ attested' = [attested EXCEPT ![j[2]] = record[j[2]]]
          /\ UNCHANGED <<passed, overtaken>>
      BY <1>4, <2>1 DEF JobFails
    <3> QED BY <3>1, <3>2, <3>3 DEF Released
  <2>2. CASE j[1] # "sign" \/ UNCHANGED tags
    BY <1>4, <2>2 DEF JobFails
  <2> QED BY <2>1, <2>2
<1> QED
  BY <1>1, <1>2, <1>3, <1>4
  DEF Next, RunnerStep, StartPlain, StartGate, StartSign, LintSucceeds, SyncSucceeds,
      BuildSucceeds, PatchSucceeds, Retry, NextDay, vars

\* One more scan of p's that an image has passed clears that image for p.
LEMMA OneMoreScan ==
  ASSUME TypeOK, NEW p \in Products, NEW i \in Digests, NEW d \in Days,
         passed' = [passed EXCEPT ![p] = @ \union {<<i, d>>}]
  PROVE  \/ [q \in Products |-> ClearedImages(q)]' = [q \in Products |-> ClearedImages(q)]
         \/ /\ i # 0
            /\ [q \in Products |-> ClearedImages(q)]'
                 = [[q \in Products |-> ClearedImages(q)]
                      EXCEPT ![p] = @ \union {i}]
<1>1. \A q \in Products \ {p} : ClearedImages(q)' = ClearedImages(q)
  BY DEF TypeOK, ClearedImages
<1>2. passed'[p] = passed[p] \union {<<i, d>>}
  BY DEF TypeOK
<1>3. ClearedImages(p)' = (ClearedImages(p) \union {i}) \ {0}
  <2>1. {x[1] : x \in passed'[p]} = {x[1] : x \in passed[p]} \union {i}
    <3>1. \A x \in passed'[p] : x \in passed[p] \/ x[1] = i
      BY <1>2
    <3>2. passed[p] \subseteq passed'[p] /\ <<i, d>> \in passed'[p] /\ <<i, d>>[1] = i
      BY <1>2
    <3> QED BY <3>1, <3>2
  <2> QED BY <2>1 DEF ClearedImages
<1>4. 0 \notin ClearedImages(p)
  BY DEF ClearedImages
<1>5. CASE i = 0
  BY <1>1, <1>3, <1>4, <1>5
<1>6. CASE i # 0
  <2>1. ClearedImages(p)' = ClearedImages(p) \union {i}
    BY <1>3, <1>4, <1>6
  <2> QED BY <1>1, <1>6, <2>1
<1> QED BY <1>5, <1>6

\* Seen from outside, a pipeline with its overlapping artifacts, retries and
\* midnights is a release behind a gate: whatever it does is a clearance, an
\* exception, the release of what was cleared before, or nothing.
THEOREM ReleasesBehindAGate == Spec => ImplementsGatedRelease
<1> DEFINE cleared == [p \in Products |-> ClearedImages(p)]
<1>1. Init => Abstract!Init
  <2> SUFFICES ASSUME Init PROVE Abstract!Init
    OBVIOUS
  <2>1. cleared = [p \in Products |-> {}]
    BY DEF Init, ClearedImages
  <2> QED BY <2>1 DEF Init, Nothing, Review, Abstract!Init
<1>2. TypeOK /\ Dormant /\ HandedOver /\ RealImages /\ [Next]_vars
        => [Abstract!Next]_(Abstract!vars)
  <2> SUFFICES ASSUME TypeOK, Dormant, HandedOver, RealImages, [Next]_vars
               PROVE  Abstract!Next \/ UNCHANGED <<Review, cleared, overtaken, promoted, attested>>
    BY DEF Abstract!vars
  <2>0. UNCHANGED Review
    BY CommitStays DEF commit, Review
  <2>1. ASSUME UNCHANGED passed PROVE UNCHANGED cleared
    BY <2>1 DEF ClearedImages
  <2>2. CASE UNCHANGED <<passed, overtaken, promoted, attested>>
    BY <2>0, <2>1, <2>2
  <2>3. ASSUME NEW p \in Products, overtaken' = overtaken \union {p},
               UNCHANGED <<passed, promoted, attested>>
        PROVE  Abstract!Next
    <3>1. Abstract!Except(p)
      BY <2>0, <2>1, <2>3 DEF Abstract!Except
    <3> QED BY <3>1 DEF Abstract!Next
  <2>4. ASSUME NEW p \in Products, NEW i \in Digests, NEW d \in Days,
               passed' = [passed EXCEPT ![p] = @ \union {<<i, d>>}],
               UNCHANGED <<overtaken, promoted, attested>>
        PROVE  Abstract!Next \/ UNCHANGED <<Review, cleared, overtaken, promoted, attested>>
    <3>1. CASE UNCHANGED cleared
      BY <2>0, <2>4, <3>1
    <3>2. CASE i # 0 /\ cleared' = [cleared EXCEPT ![p] = @ \union {i}]
      <4>1. Abstract!Clear(p, i)
        BY <2>0, <2>4, <3>2 DEF Abstract!Clear
      <4> QED BY <3>2, <4>1 DEF Abstract!Next
    <3> QED BY <2>4, <3>1, <3>2, OneMoreScan
  <2>5. ASSUME NEW p \in Products, Released(p)
        PROVE  Abstract!Next
    <3>1. ~Review
      BY <2>5, ReviewsDoNotSign DEF Released
    <3>2. p \in overtaken \/ (work[p] \in cleared[p] /\ record[p] = work[p])
      <4> SUFFICES ASSUME p \notin overtaken
                   PROVE  work[p] \in ClearedImages(p) /\ record[p] = work[p]
        OBVIOUS
      <4>1. work[p] = record[p] /\ HasPassed(p, work[p])
        BY <2>5 DEF HandedOver, Downloaded, Released
      <4>2. work[p] # 0
        BY <2>5 DEF RealImages, Released
      <4>3. PICK d \in Days : <<work[p], d>> \in passed[p]
        BY <4>1 DEF HasPassed
      <4> QED BY <4>1, <4>2, <4>3 DEF ClearedImages
    <3>3. Abstract!Release(p, work[p], record[p])
      BY <2>0, <2>1, <2>5, <3>1, <3>2 DEF Released, Abstract!Release
    <3>4. work[p] \in (Digests \ {0}) \union {0} /\ record[p] \in (Digests \ {0}) \union {0}
      BY DEF TypeOK
    <3> QED BY <3>3, <3>4 DEF Abstract!Next
  <2> QED BY <2>2, <2>3, <2>4, <2>5, AbstractWriters
<1>3. TypeOK /\ HandedOver /\ RealImages /\ [Next]_vars => RealImages'
  BY NextRealImages
<1> QED BY InitRealImages, Typing, AlwaysDormant, AlwaysHandedOver, <1>1, <1>2, <1>3, PTL
        DEF Spec, ImplementsGatedRelease, Abstract!Spec

-----------------------------------------------------------------------------
(* No job waits for ever *)

\* The stages of the jobs there are.
LEMMA StageOf ==
  ASSUME NEW j \in Jobs
  PROVE  /\ j[1] \in {"lint", "sync", "build", "gate", "sign", "patch"}
         /\ j[1] \in {"lint", "sync"} => j = <<j[1], None>>
BY DEF Jobs, Job

\* The rules of sync, build and gate are the same.
LEMMA SelectedTogether ==
  RebuildRules => /\ Job("sync", {None}) \subseteq Selected
                  /\ Job("build", Products) \subseteq Selected
                  /\ Job("gate", Products) \subseteq Selected
<1> SUFFICES ASSUME RebuildRules,
                    NEW j \in Job("sync", {None}) \union Job("build", Products)
                                \union Job("gate", Products)
             PROVE  j \in Selected
  OBVIOUS
<1>1. j[1] \in {"sync", "build", "gate"}
  BY DEF Job
<1>2. j \in Jobs
  BY DEF Job, Jobs
<1> QED BY <1>1, <1>2 DEF Selected, Selects

\* When nothing runs and nothing has failed, a job that waits can be started,
\* or a job of an earlier stage waits as well: what is needed was selected, and
\* is of an earlier stage.
LEMMA WaitsForEarlier ==
  ASSUME TypeOK, NEW j \in Selected, status[j] = "created",
         \A k \in Selected : status[k] \notin {"running", "failed"}
  PROVE  Ready(j) \/ \E k \in Selected : status[k] = "created" /\ Rank(k[1]) < Rank(j[1])
<1>1. Needs(j) \subseteq {k \in Selected : Rank(k[1]) < Rank(j[1])}
  <2>1. j \in Jobs /\ Selects(j[1])
    BY DEF Selected
  <2>2. CASE j[1] = "build"
    <3>1. RebuildRules
      BY <2>1, <2>2 DEF Selects
    <3>2. Job("sync", {None}) \subseteq Selected
      BY <3>1, SelectedTogether
    <3> QED BY <2>2, <3>2 DEF Needs, Job, Rank
  <2>3. CASE j[1] = "gate"
    <3>1. RebuildRules
      BY <2>1, <2>3 DEF Selects
    <3>2. Job("build", Products) \subseteq Selected
      BY <3>1, SelectedTogether
    <3> QED BY <2>3, <3>2 DEF Needs, Job, Rank
  <2>4. CASE j[1] = "sign"
    <3>1. SignRules
      BY <2>1, <2>4 DEF Selects
    <3>2. RebuildRules
      BY <3>1 DEF SignRules, RebuildRules
    <3>3. Job("build", Products) \union Job("gate", Products) \subseteq Selected
      BY <3>2, SelectedTogether
    <3> QED BY <2>4, <3>3 DEF Needs, Job, Rank
  <2>5. CASE j[1] \notin {"build", "gate", "sign"}
    BY <2>5 DEF Needs
  <2> QED BY <2>2, <2>3, <2>4, <2>5
<1>2. \A k \in Selected : status[k] \in {"created", "success"}
  BY DEF TypeOK, Selected
<1> QED BY <1>1, <1>2 DEF Ready

\* Stage by stage from the first, so one of those that wait can be started.
LEMMA NeverStuckNow == TypeOK => NeverStuck
<1> SUFFICES ASSUME TypeOK, \A k \in Selected : status[k] \notin {"running", "failed"},
                    \A k \in Jobs : ~Ready(k)
             PROVE  \A j \in Selected : status[j] = "success"
  BY DEF NeverStuck
<1>1. \A j \in Selected : status[j] # "created" \/
        \E k \in Selected : status[k] = "created" /\ Rank(k[1]) < Rank(j[1])
  BY WaitsForEarlier DEF Selected
<1>2. \A j \in Selected : Rank(j[1]) \in 1..6
  BY StageOf DEF Selected, Rank
<1>3. \A j \in Selected : status[j] # "created"
  <2>1. \A j \in Selected : Rank(j[1]) <= 1 => status[j] # "created"
    BY <1>1, <1>2
  <2>2. \A j \in Selected : Rank(j[1]) <= 2 => status[j] # "created"
    BY <1>1, <1>2, <2>1
  <2>3. \A j \in Selected : Rank(j[1]) <= 3 => status[j] # "created"
    BY <1>1, <1>2, <2>2
  <2>4. \A j \in Selected : Rank(j[1]) <= 4 => status[j] # "created"
    BY <1>1, <1>2, <2>3
  <2>5. \A j \in Selected : Rank(j[1]) <= 5 => status[j] # "created"
    BY <1>1, <1>2, <2>4
  <2> QED BY <1>1, <1>2, <2>5
<1> QED BY <1>3 DEF TypeOK, Selected

\* In no pipeline that GitLab creates from these rules and needs does a job
\* wait for one that is not there, or for one that waits for it.
THEOREM AlwaysNeverStuck == Spec => []NeverStuck
BY NeverStuckNow, Typing, PTL

-----------------------------------------------------------------------------
(* The policies *)

PastLint ==
  \/ status[<<"lint", None>>] = "success"
  \/ status[<<"sync", None>>] # "created"
  \/ \E p \in Products, stage \in {"build", "gate", "sign"} : status[<<stage, p>>] # "created"

Vetted ==
  /\ \A p \in Products : \A x \in passed[p] : IgnoreFilePasses(ignore, x[2])
  /\ \A d \in linted : WindowsPass(support, d)
  /\ trigger.event # "web" \/ trigger.default =>
       (PastLint \/ promoted # Nothing => linted # {})

\* A gate passes an image on a day on which it has found the exceptions valid.
LEMMA NextPassedValid ==
  ASSUME TypeOK, [Next]_vars, NEW p \in Products, NEW x \in passed'[p], x \notin passed[p]
  PROVE  IgnoreFilePasses(ignore, x[2])
<1> USE DEF history
<1>1. ASSUME NEW q \in Products, GateSucceeds(q) PROVE IgnoreFilePasses(ignore, x[2])
  <2>1. passed' = [passed EXCEPT ![q] = @ \union {<<pushed[q], startDay[<<"gate", q>>]>>}]
    BY <1>1 DEF GateSucceeds
  <2>2. p = q /\ x = <<pushed[q], startDay[<<"gate", q>>]>>
    BY <2>1 DEF TypeOK
  <2> QED BY <1>1, <2>2 DEF GateSucceeds
<1>2. passed' # passed
  OBVIOUS
<1> QED
  BY <1>1, <1>2
  DEF Next, RunnerStep, StartPlain, StartBuild, StartGate, StartSign, LintSucceeds,
      SyncSucceeds, BuildSucceeds, SignSucceeds, PatchSucceeds, JobFails, Retry, NextDay, vars

\* Only lint makes a day one on which the windows have been seen.
LEMMA NextLinted ==
  ASSUME TypeOK, [Next]_vars
  PROVE  linted' = linted \/ LintSucceeds
BY DEF history, Next, RunnerStep, StartPlain, StartBuild, StartGate, StartSign,
       SyncSucceeds, BuildSucceeds, GateSucceeds, SignSucceeds, PatchSucceeds, JobFails, Retry,
       NextDay, vars

\* lint and sync, too, change their status in steps of their own only.
LEMMA LintEnds ==
  ASSUME TypeOK, [Next]_vars, status[<<"lint", None>>] = "running",
         status'[<<"lint", None>>] = "success"
  PROVE  LintSucceeds
<1> DEFINE j == <<"lint", None>>
<1> HIDE DEF j
<1>1. j \in Jobs /\ status[j] = "running" /\ status'[j] = "success"
  BY JobOf DEF j
<1>2. \A k \in Jobs : ~Starts(k) /\ ~Finishes(k, "failed") /\ ~Retry(k)
  BY <1>1, StartsOne, FinishesOne, RetriesOne
<1>3. \A k \in Jobs : Finishes(k, "success") => k = j
  BY <1>1, FinishesOne
<1>4. ASSUME NEW p \in Products
      PROVE  ~BuildSucceeds(p) /\ ~GateSucceeds(p) /\ ~SignSucceeds(p) /\ ~PatchSucceeds(p)
  <2>1. {<<"build", p>>, <<"gate", p>>, <<"sign", p>>, <<"patch", p>>} \subseteq Jobs
    BY JobOf
  <2>2. j \notin {<<"build", p>>, <<"gate", p>>, <<"sign", p>>, <<"patch", p>>}
    BY DEF j
  <2> QED BY <1>3, <2>1, <2>2 DEF BuildSucceeds, GateSucceeds, SignSucceeds, PatchSucceeds
<1>5. ~SyncSucceeds
  BY <1>3, JobOf DEF j, SyncSucceeds
<1>6. \A p \in Products : ~StartBuild(p) /\ ~StartGate(p) /\ ~StartSign(p)
  BY <1>2, JobOf DEF StartBuild, StartGate, StartSign
<1>7. \A k \in Jobs : ~StartPlain(k) /\ ~JobFails(k)
  BY <1>2 DEF StartPlain, JobFails
<1> QED BY <1>1, <1>2, <1>4, <1>5, <1>6, <1>7 DEF Next, RunnerStep, NextDay, vars

\* Only StartPlain starts the sync job.
LEMMA PlainStarts ==
  ASSUME TypeOK, [Next]_vars, status[<<"sync", None>>] = "created",
         status'[<<"sync", None>>] = "running"
  PROVE  StartPlain(<<"sync", None>>)
<1> DEFINE j == <<"sync", None>>
<1> HIDE DEF j
<1>1. j \in Jobs /\ status[j] = "created" /\ status'[j] = "running"
  BY JobOf DEF j
<1>2. \A k \in Jobs : ~Finishes(k, "success") /\ ~Finishes(k, "failed") /\ ~Retry(k)
  BY <1>1, FinishesOne, RetriesOne
<1>3. \A k \in Jobs : Starts(k) => k = j
  BY <1>1, StartsOne
<1>4. ASSUME NEW p \in Products PROVE ~StartBuild(p) /\ ~StartGate(p) /\ ~StartSign(p)
  <2>1. {<<"build", p>>, <<"gate", p>>, <<"sign", p>>} \subseteq Jobs
    BY JobOf
  <2>2. j \notin {<<"build", p>>, <<"gate", p>>, <<"sign", p>>}
    BY DEF j
  <2> QED BY <1>3, <2>1, <2>2 DEF StartBuild, StartGate, StartSign
<1>5. \A p \in Products :
        ~BuildSucceeds(p) /\ ~GateSucceeds(p) /\ ~SignSucceeds(p) /\ ~PatchSucceeds(p)
  BY <1>2, JobOf DEF BuildSucceeds, GateSucceeds, SignSucceeds, PatchSucceeds
<1>6. ~LintSucceeds /\ ~SyncSucceeds
  BY <1>2, JobOf DEF LintSucceeds, SyncSucceeds
<1>7. \A k \in Jobs : StartPlain(k) => k = j
  BY <1>3 DEF StartPlain
<1>8. \A k \in Jobs : ~JobFails(k)
  BY <1>2 DEF JobFails
<1>9. StartPlain(j)
  BY <1>1, <1>2, <1>4, <1>5, <1>6, <1>7, <1>8 DEF Next, RunnerStep, NextDay, vars
<1> QED BY <1>9 DEF j

\* Outside web pipelines of other branches, lint is selected with sync.
LEMMA SyncWaitsForLint ==
  ASSUME TypeOK, trigger.event # "web" \/ trigger.default, <<"sync", None>> \in Selected
  PROVE  <<"lint", None>> \in Needs(<<"sync", None>>)
<1>1. RebuildRules
  BY DEF Selected, Selects
<1>2. LintRules
  BY <1>1 DEF RebuildRules, LintRules, For, Review
<1>3. <<"lint", None>> \in Selected
  BY <1>2, JobOf DEF Selected, Selects
<1> QED BY <1>3 DEF Needs, Rank

\* So whatever has started has done so after a lint that succeeded.
LEMMA NextPastLint ==
  ASSUME TypeOK, [Next]_vars, trigger.event # "web" \/ trigger.default,
         PastLint => linted # {}, PastLint'
  PROVE  linted' # {}
<1> USE JobOf
<1>1. linted # {} => linted' # {}
  BY NextLinted DEF LintSucceeds
<1>2. LintSucceeds => linted' # {}
  BY DEF LintSucceeds
<1> SUFFICES ASSUME ~PastLint, ~LintSucceeds PROVE FALSE
  BY <1>1, <1>2
<1>3. status'[<<"lint", None>>] # "success"
  BY StatusStep, LintEnds DEF PastLint
<1>4. status'[<<"sync", None>>] = "created"
  <2>1. \/ status'[<<"sync", None>>] = "created"
        \/ StartPlain(<<"sync", None>>)
    BY StatusStep, PlainStarts DEF PastLint
  <2>2. ~StartPlain(<<"sync", None>>)
    BY SyncWaitsForLint DEF PastLint, StartPlain, Starts, Ready
  <2> QED BY <2>1, <2>2
<1>5. ASSUME NEW p \in Products
      PROVE  /\ status'[<<"build", p>>] = "created"
             /\ status'[<<"gate", p>>] = "created"
             /\ status'[<<"sign", p>>] = "created"
  <2>1. /\ status[<<"build", p>>] = "created" /\ status[<<"gate", p>>] = "created"
        /\ status[<<"sign", p>>] = "created" /\ status[<<"sync", None>>] = "created"
    BY DEF PastLint
  <2>2. ~StartBuild(p) /\ ~StartGate(p) /\ ~StartSign(p)
    BY <2>1 DEF StartBuild, StartGate, StartSign, Starts, Ready, Needs, Job
  <2> QED BY <2>1, <2>2, StatusStep, MatrixSteps
<1> QED BY <1>3, <1>4, <1>5 DEF PastLint

\* Every step of a pipeline keeps lint before the rest of it.
LEMMA NextVetted == TypeOK /\ Vetted /\ [Next]_vars => Vetted'
<1> SUFFICES ASSUME TypeOK, Vetted, [Next]_vars PROVE Vetted'
  OBVIOUS
<1>1. UNCHANGED <<trigger, ignore, support>>
  BY CommitStays DEF commit
<1>2. \A p \in Products : \A x \in passed'[p] : IgnoreFilePasses(ignore, x[2])
  BY NextPassedValid DEF Vetted
<1>3. \A d \in linted' : WindowsPass(support, d)
  BY NextLinted DEF Vetted, LintSucceeds
<1>4. ASSUME trigger.event # "web" \/ trigger.default, PastLint' \/ promoted' # Nothing
      PROVE  linted' # {}
  <2>1. CASE PastLint'
    BY <1>4, <2>1, NextPastLint DEF Vetted
  <2>2. CASE promoted' # Nothing
    <3>1. CASE promoted # Nothing
      BY <1>4, <3>1, NextLinted DEF Vetted, LintSucceeds
    <3>2. CASE promoted = Nothing
      <4>1. promoted' # promoted
        BY <2>2, <3>2
      <4>2. PICK p \in Products : status[<<"sign", p>>] = "running"
        <5>1. ASSUME NEW q \in Products, SignSucceeds(q) PROVE status[<<"sign", q>>] = "running"
          BY <5>1 DEF SignSucceeds, Finishes
        <5>2. ASSUME NEW j \in Jobs, JobFails(j)
              PROVE  \E q \in Products : status[<<"sign", q>>] = "running"
          <6>1. j[1] = "sign" /\ status[j] = "running"
            BY <4>1, <5>2 DEF JobFails, Finishes, tags
          <6> QED BY <6>1, MatrixJob
        <5> QED
          BY <4>1, <5>1, <5>2
          DEF Next, RunnerStep, StartPlain, StartBuild, StartGate, StartSign, LintSucceeds,
              SyncSucceeds, BuildSucceeds, GateSucceeds, PatchSucceeds, Retry, NextDay, vars,
              tags
      <4>3. PastLint
        BY <4>2 DEF PastLint
      <4> QED BY <1>4, <4>3, NextLinted DEF Vetted, LintSucceeds
    <3> QED BY <3>1, <3>2
  <2> QED BY <1>4, <2>1, <2>2
<1> QED BY <1>1, <1>2, <1>3, <1>4 DEF Vetted, Nothing

\* Nothing is past lint in a new pipeline.
LEMMA InitVetted == Init => Vetted
BY JobOf DEF Init, Vetted, PastLint

\* So it always holds.
LEMMA AlwaysVetted == Spec => []Vetted
<1>1. Init => TypeOK /\ Vetted
  BY InitTypeOK, InitVetted
<1>2. TypeOK /\ Vetted /\ [Next]_vars => (TypeOK /\ Vetted)'
  BY NextTypeOK, NextVetted
<1> QED BY <1>1, <1>2, PTL DEF Spec

\* Whatever day a gate is retried on, what it lets through was scanned on a day
\* on which every exception of the commit was in force.
THEOREM AlwaysGatedUnderExceptionsInForce == Spec => []GatedUnderExceptionsInForce
<1>1. TypeOK /\ HandedOver /\ Vetted => GatedUnderExceptionsInForce
  <2> SUFFICES ASSUME TypeOK, HandedOver, Vetted, NEW p \in Products \ overtaken,
                      promoted[p] # 0
               PROVE  \E d \in Days : /\ <<promoted[p], d>> \in passed[p]
                                     /\ \A e \in Exceptions : InForce(e, d)
    BY DEF GatedUnderExceptionsInForce
  <2>1. PICK d \in Days : <<promoted[p], d>> \in passed[p]
    BY DEF HandedOver, PromotedAsGated, HasPassed
  <2>2. IgnoreFilePasses(ignore, d)
    BY <2>1 DEF Vetted
  <2>3. ignore \in IgnoreFile /\ d \in Int
    BY FileAssumption, BoundAssumption DEF TypeOK, Days
  <2>4. \A e \in Exceptions : InForce(e, d)
    BY <2>2, <2>3, PassingExceptionsInForce
  <2> QED BY <2>1, <2>4
<1> QED BY <1>1, Typing, AlwaysHandedOver, AlwaysVetted, PTL

\* Outside web pipelines of other branches, what is promoted was linted on a
\* day on which the base OS and all products had support left.
THEOREM AlwaysPromotedWhileSupported == Spec => []PromotedWhileSupported
<1>1. TypeOK /\ Vetted => PromotedWhileSupported
  <2> SUFFICES ASSUME TypeOK, Vetted, trigger.event # "web" \/ trigger.default,
                      promoted # Nothing
               PROVE  \E d \in linted : \A ends \in Ends(support) \ {NoDate} :
                        ends \in Int /\ ends > d + FailWithin
    BY DEF PromotedWhileSupported
  <2>1. PICK d \in linted : WindowsPass(support, d)
    BY DEF Vetted
  <2>2. support \in Windows /\ d \in Int
    BY FileAssumption, BoundAssumption DEF TypeOK, Days
  <2> QED BY <2>1, <2>2, PassingWindowsOpen
<1> QED BY <1>1, Typing, AlwaysVetted, PTL
=============================================================================
