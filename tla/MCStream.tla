------------------------------ MODULE MCStream ------------------------------
(* Small instances of Stream for TLC.                                       *)
EXTENDS StreamProps

TwoDigits == {"1", "9"}
Characters == TwoDigits \cup {"[", "c", "]", "insufficient"}
OneSource == << <<"1">> >>

\* Deltas that cut citations everywhere: two in a row, a known and an unknown
\* one, one inside another, brackets that are none.
Pieces == {<<"[">>, <<"c">>, <<"9", "]">>, <<"1", "]", "[", "c">>}

EarlierAnswers == {Answer(Citation(<<"1">>)), Answer(INSUFFICIENT)}

=============================================================================
