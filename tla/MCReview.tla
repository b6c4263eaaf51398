------------------------------ MODULE MCReview ------------------------------
(* Review for TLC, with evidence that differs from a good one in the patch,  *)
(* the tests, or the history of reviews.                                     *)
EXTENDS Review

Patch(block) == [blocks |-> [f \in {"f"} |-> block], marked |-> FALSE]
Good == [patch |-> Patch(<<"hunk", "add">>), declared |-> {"f"}, summary |-> <<[bullet |-> TRUE, links |-> {"f"}]>>,
         tests |-> {[patterns |-> {"unit"}, status |-> "passed"]}, history |-> <<>>]

SeqsUpTo(n, S) == UNION {[1 .. k -> S] : k \in 0 .. n}
Blocks == {<<>>} \cup [{"f"} -> SeqsUpTo(3, LineKinds)] \cup [{"f", "g"} -> {<<>>, <<"hunk", "add">>}]
Patches == {[Good EXCEPT !.patch = p] : p \in [blocks : Blocks, marked : BOOLEAN]}
Lists == {[Good EXCEPT !.patch = p, !.declared = d, !.summary = m] :
            p \in {NoPatch, Good.patch}, d \in SUBSET {"f"},
            m \in SeqsUpTo(3, [bullet : BOOLEAN, links : {{}, {"f"}, {"g"}}])}
Tests == {[Good EXCEPT !.tests = {s, t}] : s \in Suites, t \in Suites} \cup {[Good EXCEPT !.tests = {}]}
Earlier == {<<"hunk", "add">>, <<"hunk", "context", "add">>, <<"hunk", "remove">>}
Attempts == [execution : 0 .. 2, print : {Fingerprint(Patch(b)) : b \in Earlier} \cup {NoPatch},
             status : {"changes_requested", "rejected", "incomplete"}]
Histories == {[Good EXCEPT !.history = h] : h \in SeqsUpTo(2, Attempts)}

MCEvidence == Patches \cup Lists \cup Tests \cup Histories
=============================================================================
