---------------------------- MODULE MCTranscript ----------------------------
(* A small instance of Transcript for TLC.                                  *)
EXTENDS TranscriptProps

CONSTANTS t1, t2, t3, w1

ThreeTasks == {t1, t2, t3}

\* One answer sorts behind its question in a tie, and one before it.
Ids == [m \in Messages |->
          CASE m = Question(t1) -> 1 [] m = Answer(t1) -> 4
            [] m = Question(t2) -> 6 [] m = Answer(t2) -> 2
            [] m = Question(t3) -> 5 [] m = Answer(t3) -> 3]

=============================================================================
