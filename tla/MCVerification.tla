--------------------------- MODULE MCVerification ---------------------------
EXTENDS VerificationProperties

CONSTANTS absent, none

A == <<"src", "a">>
S == <<"src", "env">>
B == <<"lib", "b">>

MCPath == {A, S, B}
MCSensitive == {S}
MCScope == {<<"src", "*">>, <<"lib", "..", "lib">>}

Files(a, s, b) == [p \in MCPath |-> IF p = A THEN a ELSE IF p = S THEN s ELSE b]

WorkingCopy(hist, index, work) ==
    [hist |-> hist, branch |-> "main", index |-> index, work |-> work,
     stamp |-> [p \in MCPath |-> IF work[p] = absent \/ p = A THEN 0 ELSE IF p = S THEN -1 ELSE -2]]

None3 == Files(absent, absent, absent)
Base == Files(1, absent, absent)

\* Clean; a modified and two untracked files; a staged deletion; no commit yet.
MCRepos == {WorkingCopy(<<Base>>, Base, Base),
            WorkingCopy(<<Base>>, Base, Files(2, 1, 2)),
            WorkingCopy(<<Files(1, absent, 2)>>, Files(1, absent, absent), Files(1, absent, absent)),
            WorkingCopy(<<>>, None3, Files(1, absent, absent))}

Def(valid, enabled, timeout) == [valid |-> valid, enabled |-> enabled, timeout |-> timeout]
Quick == Def(TRUE, TRUE, 1)
Slow == Def(TRUE, TRUE, 2)

MCConfigs == {<<Quick, Slow, none, none>>,
              <<Def(FALSE, TRUE, 1), Def(TRUE, FALSE, 1), Quick, Quick>>,
              <<none, none, none, none>>}
=============================================================================
