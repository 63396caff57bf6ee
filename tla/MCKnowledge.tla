----------------------------- MODULE MCKnowledge -----------------------------
(* Small instances of Knowledge for TLC.                                    *)
EXTENDS KnowledgeProps

CONSTANTS o1, o2, w1, g1, g2

OldText == <<"kafka", 1>>
NewText == <<"kafka", 2>>
OtherArticle == <<"redis", 1>>
ThreeArticles == {OldText, NewText, OtherArticle}

\* The second graph lacks more than a fifth of the nodes of the first.
TwoGraphs == {g1, g2}
FiveAndThree == [g \in TwoGraphs |-> IF g = g1 THEN 5 ELSE 3]

\* A first text; on the same day its correction, beside a new article; the next
\* day the correction again, then a smaller graph.
FourMoments ==
    << [day |-> 1, graph |-> g1, articles |-> {OldText}],
       [day |-> 1, graph |-> g1, articles |-> {NewText, OtherArticle}],
       [day |-> 2, graph |-> g1, articles |-> {NewText}],
       [day |-> 2, graph |-> g2, articles |-> {OldText, OtherArticle}] >>

=============================================================================
