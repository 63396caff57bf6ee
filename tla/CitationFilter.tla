--------------------------- MODULE CitationFilter ---------------------------
(***************************************************************************)
(* The citations of an answer, app/rag/retrieval.py 205-256: how the whole   *)
(* answer is cleaned of those that no retrieved source has, and how the     *)
(* streaming filter does the same delta by delta.  A text is a sequence of   *)
(* characters, a citation "[c", digits, "]".                               *)
(***************************************************************************)
EXTENDS SequencesExt, Integers

CONSTANTS
    Char,       \* characters
    Digits,     \* those that \d matches
    Evidence,   \* the ids (sequences of digits) of the retrieved sources, in order
    Patience    \* how long an unclosed bracket is held back; 32 in the code

Known == ToSet(Evidence)
Text == Seq(Char)

ASSUME CharAssumption ==
    /\ {"[", "c", "]"} \cup Digits \subseteq Char
    /\ "]" \notin Digits

ASSUME FilterAssumption ==
    /\ Patience \in Nat
    /\ Evidence \in Seq(Seq(Digits))
    /\ \A id \in Known : Len(id) \in 1 .. Patience - 2

Citation(id) == <<"[", "c">> \o id \o <<"]">>
Id(citation) == SubSeq(citation, 3, Len(citation) - 1)
IsCitation(s) ==
    /\ Len(s) > 3
    /\ s = Citation(Id(s))
    /\ ToSet(Id(s)) \subseteq Digits

\* What remains of a citation.
Kept(citation) == IF Id(citation) \in Known THEN citation ELSE <<>>

First(t, n) == SubSeq(t, 1, n)
After(t, n) == SubSeq(t, n + 1, Len(t))

\* Where a citation at the beginning of a text ends.
Ends(t) == {n \in DOMAIN t : IsCitation(First(t, n))}

\* sanitize_citations: one substitution from left to right.
Sanitize[t \in Text] ==
    IF t = <<>> THEN <<>>
    ELSE IF Ends(t) = {} THEN First(t, 1) \o Sanitize[After(t, 1)]
    ELSE LET n == CHOOSE n \in Ends(t) : TRUE
         IN  Kept(First(t, n)) \o Sanitize[After(t, n)]

\* validated_citations.
Used(t) == {id \in Known : Citation(id) \in SubSeqs(t)}

\* An unclosed bracket this short may still become a citation.  Faulty variant:
\* it always may.
Held_Unbounded(t) == TRUE
Held(t) == Len(t) <= Patience

\* Where a character is first, 0 if nowhere.
Find(t, char) == SelectInSeq(t, LAMBDA ch : ch = char)

\* The loop of CitationStreamFilter.feed over the pending text: what it outputs
\* and what it keeps.
Drain[t \in Text] ==
    LET Output(out, n) == [Drain[After(t, n)] EXCEPT !.out = out \o @]
        opening == Find(t, "[")
        closing == Find(t, "]")
    IN  IF opening = 0 THEN [out |-> t, pending |-> <<>>]
        ELSE IF opening > 1 THEN Output(First(t, opening - 1), opening - 1)
        ELSE IF closing = 0 /\ Held(t) THEN [out |-> <<>>, pending |-> t]
        ELSE IF IsCitation(First(t, closing)) THEN Output(Kept(First(t, closing)), closing)
        ELSE Output(First(t, 1), 1)

\* feed.  Faulty variant: an unclosed bracket is not held back.
Feed_NothingHeld(pending, delta) ==
    LET d == Drain[pending \o delta] IN [out |-> d.out \o d.pending, pending |-> <<>>]
Feed(pending, delta) == Drain[pending \o delta]

\* A citation longer than the filter is patient.
TooLong(t) == \E s \in SubSeqs(t) : IsCitation(s) /\ Len(s) > Patience + 1

=============================================================================
