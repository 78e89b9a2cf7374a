------------------------ MODULE MCApplicationSubmit ------------------------
(* Small instances of the application submission.                          *)
EXTENDS ApplicationSubmit, TLC

Plan(mode, limit, skips, tailors) ==
    [mode |-> mode, limit |-> limit, skips |-> skips, tailors |-> tailors]

TwoModes == {Plan("submit", 1, TRUE, FALSE), Plan("approval", 1, FALSE, FALSE),
             Plan("dry_run", 1, FALSE, FALSE)}
ChangingLimit == {Plan("submit", 1, FALSE, FALSE), Plan("submit", 2, FALSE, FALSE)}
Tailoring == {Plan("submit", 1, FALSE, TRUE)}

\* The owner edits while one application is at work: two at a time and an edit
\* are more states than a run can visit, and EditsKept is proved of both.
OneAtWork == drift > 0 => \E a \in Apps : h.app # a /\ app[a] = NoRow

AppSymmetry == Permutations(Apps)
ResumeSymmetry == AppSymmetry \cup Permutations(Texts)
=============================================================================
