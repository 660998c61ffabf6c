------------------------------- MODULE MCAdvice -------------------------------
EXTENDS Advice

CONSTANTS x, y, z, slice, login, feature, none

File(stamp, id) == [stamp |-> stamp, id |-> id]

\* Newest first; the second and the third were written in the same millisecond.
Names == <<File(6, 4), File(5, 2), File(5, 3), File(4, 7), File(3, 1), File(2, 5), File(1, 6)>>
MCFiles == {Names[i] : i \in 1 .. 7}

Clean == [blocking |-> FALSE, independent |-> TRUE, process |-> TRUE,
          attempted |-> TRUE, allPassed |-> TRUE]

Done(steps, often, verification, review, decision) ==
    [taskType |-> feature, steps |-> steps,
     text |-> [t \in {slice, login} |-> IF t = slice THEN often ELSE IF often > 1 THEN 1 ELSE 0],
     verification |-> verification, review |-> review, decision |-> decision]

Worked(steps, often) == Done(steps, often, Clean, "pass", "approve")
Failed(steps, often) == Done(steps, often, Clean, "pass", "reject")
Wanting(steps, often) == Done(steps, often, Clean, "pass", "feedback")

\* The store takes such a record; the learn node, past a decision, writes none.
Unbacked(steps, often) ==
    Done(steps, often, [Clean EXCEPT !.independent = FALSE, !.attempted = FALSE], none, none)

Corpus(iterations) ==
    [f \in MCFiles |-> LET i == CHOOSE i \in 1 .. 7 : Names[i] = f
                       IN  [run |-> IF i = 4 THEN 3 ELSE i, iteration |-> iterations[i]]]

\* The fourth file is what the learn node of the third wrote when it was resumed.
MCCorpora ==
    {Corpus(<<Worked({x}, 3), Worked({x, z}, 2), Worked({x}, 0), Worked({x}, 0),
              Failed({y}, 1), Failed({y}, 0), Wanting({x}, 1)>>),
     Corpus(<<Worked({x}, 1), Failed({x, y}, 2), Worked({x}, 1), Worked({x}, 1),
              Worked({x}, 12), Worked({z}, 1), Failed({z}, 1)>>),
     Corpus(<<Unbacked({x}, 2), Worked({x}, 1), Unbacked({y}, 1), Unbacked({y}, 1),
              Worked({y}, 1), Worked({x}, 1), Worked({x}, 0)>>)}

MCFiled == {MCFiles, MCFiles \ {Names[7]}, MCFiles \ {Names[4], Names[7]},
            MCFiles \ {Names[1], Names[3], Names[5]}, {}}
===============================================================================
