--------------------------- MODULE ReviewEvidence ---------------------------
(***************************************************************************)
(* What an execution has to show before a review of it is requested: a     *)
(* patch that is whole, tests that count for something, and a patch other  *)
(* than the one the review before has just sent back.                      *)
(*                                                                         *)
(* A suite is the set of the patterns its name matches, a patch the lines  *)
(* of each of its blocks, as far as the code tells lines apart.            *)
(***************************************************************************)
EXTENDS Naturals, FiniteSets, SequencesExt

CONSTANT NoPatch   \* in the place of a patch or a fingerprint that is not there

Grades == <<"placeholder", "compile-check", "unit", "integration">>
Suites == [patterns : SUBSET Range(Grades), status : {"passed", "failed", "skipped", "unknown"}]

\* Evidence is a record: the patch, [blocks: file -> lines, marked: does a note, the metadata or
\* its last line say that it was cut], or NoPatch; the declared files; the summary, line by line,
\* [bullet, links]; the tests; and the history, the reviews of the task so far in the order of time, with the
\* execution each was about (0 is this one) and the fingerprint of its patch, or NoPatch.
LineKinds == {"mark", "hunk", "add", "remove", "context", "metadata"}

-----------------------------------------------------------------------------
(* Tests.                                                                  *)

\* The patterns are tried in this order; a suite that matches none is a placeholder.
InferTestEvidenceGrade(patterns) ==
  LET tried == <<"placeholder", "integration", "compile-check", "unit">>
      found == {n \in 1 .. 4 : tried[n] \in patterns}
  IN IF found = {} THEN "placeholder" ELSE tried[Min(found)]

CountsTowardOverall(suite) == suite.status \in {"passed", "failed"}

Priority(grade) == CHOOSE n \in 1 .. 4 : Grades[n] = grade
\* The best grade of a suite that ran.
AssessTestEvidence(tests) ==
  LET counted == {InferTestEvidenceGrade(s.patterns) : s \in {t \in tests : CountsTowardOverall(t)}}
  IN Grades[Max({Priority(g) : g \in counted \cup {"placeholder"}})]

Strong(grade) == grade \in {"unit", "integration"}

-----------------------------------------------------------------------------
(* The patch.                                                              *)

\* collectPatchBlockDiagnostics: a line that says it all ("mark": binary, rename, mode), the header
\* of a hunk, a line of its body, or another one.
Body == {"add", "remove", "context"}
NextDiagnosis(block, line) ==
  CASE line = "mark" -> [payload |-> TRUE, dangling |-> FALSE]
    [] line = "hunk" -> [block EXCEPT !.dangling = TRUE]
    [] line \in Body /\ block.dangling -> [payload |-> TRUE, dangling |-> FALSE]
    [] OTHER -> block
Diagnosis(lines) ==
  LET after[n \in 0 .. Len(lines)] ==
        IF n = 0 THEN [payload |-> FALSE, dangling |-> FALSE]
        ELSE NextDiagnosis(after[n - 1], lines[n])
  IN after[Len(lines)]

\* assessPatchArtifactTruncation.
Truncated(patch) ==
  \/ patch.marked
  \/ \E file \in DOMAIN patch.blocks :
       LET block == Diagnosis(patch.blocks[file]) IN ~block.payload \/ block.dangling

\* extractExecutionSummaryPatchFiles: the files linked from the bullets of the patch list, up to
\* the first line of text after one of them.
NamedFiles(summary) ==
  LET bullets(end) == {n \in 1 .. end - 1 : summary[n].bullet}
      linked(end) == UNION {summary[n].links : n \in bullets(end)}
      ends == {n \in DOMAIN summary : ~summary[n].bullet /\ linked(n) # {}}
  IN linked(Min(ends \cup {Len(summary) + 1}))

\* normalizePatchEvidence: the files of the patch count; those the execution declares are asked
\* only whether there should be a patch.
PatchMissing(e) == e.patch = NoPatch /\ NamedFiles(e.summary) \cup e.declared # {}
PatchIncomplete(e) == e.patch # NoPatch /\ ~(NamedFiles(e.summary) \subseteq DOMAIN e.patch.blocks)
ChangedFiles(e) == IF e.patch = NoPatch THEN e.declared ELSE DOMAIN e.patch.blocks

-----------------------------------------------------------------------------
(* The history.                                                            *)

\* Mutant: of each execution the first review counts.
FirstAttempts(history) ==
  {n \in DOMAIN history : /\ history[n].execution # 0
                          /\ \A m \in DOMAIN history :
                               history[m].execution = history[n].execution => n <= m}
\* Of each execution the latest review; those of this one are passed over.
LatestAttempts(history) ==
  {n \in DOMAIN history : /\ history[n].execution # 0
                          /\ \A m \in DOMAIN history :
                               history[m].execution = history[n].execution => m <= n}

\* What the lines of a file change: without the context, where the hunks are and what the header
\* of the file says of versions.
IsChange(line) == line \notin {"context", "metadata"}
Changes(lines) == SelectSeq(lines, IsChange)

\* fingerprintPatch: a hash of the patch, and one of what it changes.
Fingerprint(patch) ==
  [raw |-> patch.blocks,
   semantic |-> [file \in DOMAIN patch.blocks |-> Changes(patch.blocks[file])]]

\* What is on record: the lines of a patch and the patterns of a suite are those the code tells
\* apart, and a review on file carries the fingerprint of its patch.
IsEvidence(e) ==
  /\ e.patch # NoPatch =>
       /\ e.patch.marked \in BOOLEAN
       /\ \A file \in DOMAIN e.patch.blocks : e.patch.blocks[file] \in Seq(LineKinds)
  /\ e.tests \subseteq Suites
  /\ e.history \in Seq(Range(e.history))
  /\ \A n \in DOMAIN e.history :
       LET print == e.history[n].print IN
       print # NoPatch => print = Fingerprint([blocks |-> print.raw])

\* comparePatchFingerprints: identical, or effectively so.
SamePatch(print, other) == print.raw = other.raw \/ print.semantic = other.semantic

\* A review that sent this patch back. The comparison ends at the first that did not.
SentBack(patch, attempt) ==
  /\ attempt.status \in {"changes_requested", "rejected"}
  /\ attempt.print # NoPatch /\ SamePatch(Fingerprint(patch), attempt.print)
MatchedHistory(e) ==
  LET latest == LatestAttempts(e.history) IN
  {n \in latest : \A m \in latest : m >= n => SentBack(e.patch, e.history[m])}

ConvergenceThreshold == 2
\* assertPatchConvergence.
Repeated(e) ==
  /\ e.patch # NoPatch
  /\ Cardinality(MatchedHistory(e)) + 1 >= ConvergenceThreshold

-----------------------------------------------------------------------------
\* buildRequest: each of these stops the request, for a human to look at.
Admissible(e) ==
  /\ ~PatchMissing(e) /\ ~PatchIncomplete(e)
  /\ ChangedFiles(e) # {} /\ e.tests # {}
  /\ ~Truncated(e.patch)
  /\ Strong(AssessTestEvidence(e.tests))
  /\ ~Repeated(e)

-----------------------------------------------------------------------------
(* What it comes to.                                                       *)

\* Every file the execution talks of is in the patch, and the patch shows what became of each.
Whole(e) ==
  /\ e.patch # NoPatch /\ ~e.patch.marked
  /\ DOMAIN e.patch.blocks # {} /\ NamedFiles(e.summary) \subseteq DOMAIN e.patch.blocks
  /\ \A file \in DOMAIN e.patch.blocks :
       LET lines == e.patch.blocks[file]
           shown == {i \in DOMAIN lines : \/ lines[i] = "mark"
                                          \/ lines[i] \in Body /\ \E j \in 1 .. i : lines[j] = "hunk"}
       IN /\ shown # {}
          /\ \A i \in DOMAIN lines : lines[i] = "hunk" => \E j \in shown : j > i

\* A suite ran that is known as integration, or as unit tests and nothing less.
Tested(e) ==
  \E s \in e.tests :
    /\ s.status \in {"passed", "failed"} /\ "placeholder" \notin s.patterns
    /\ "integration" \in s.patterns \/ s.patterns = {"unit"}

\* The last review of another execution has not just sent the same patch back.
New(e) ==
  LET others == {n \in DOMAIN e.history : e.history[n].execution # 0} IN
  others # {} =>
    LET last == e.history[Max(others)] IN
    last.status \in {"changes_requested", "rejected"} /\ last.print # NoPatch
      => \E file \in DOMAIN e.patch.blocks \cup DOMAIN last.print.semantic :
           \/ file \notin DOMAIN e.patch.blocks \cap DOMAIN last.print.semantic
           \/ Changes(e.patch.blocks[file]) # last.print.semantic[file]

Trustworthy(e) == Whole(e) /\ Tested(e) /\ New(e)
=============================================================================
