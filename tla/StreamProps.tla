----------------------------- MODULE StreamProps -----------------------------
(* What a client of the streaming route may rely on.                        *)
EXTENDS Stream

Sent(event) == \E i \in DOMAIN frames : frames[i].event = event

\* The text in the deltas of a sequence of events.
DeltaText(events) ==
    FlattenSeq([i \in DOMAIN events |->
                    IF events[i].event = "delta" THEN events[i].payload ELSE <<>>])

\* Every variable has the shape the code gives it; the filter never holds back
\* more than it promises.
TypeOK ==
    /\ handler \in {"start", "opened", "reading", "awaited", "replayed", "closed", "gone"}
    /\ \A i \in DOMAIN frames :
          frames[i].event \in {"retrieving", "citation", "delta", "complete", "error"}
    /\ emitted \in 0 .. Len(frames)
    /\ task \in {"none", "asking", "retrieving", "streaming", "finishing", "done"}
    /\ outcome \in {"none", "answer", "app_error", "error", "cancelled"}
    /\ outcome # "none" <=> task = "done"
    /\ Len(text) <= MaxText /\ Len(pending) <= Patience
    /\ answer.used \subseteq Known
    /\ committed \in BOOLEAN /\ called \in BOOLEAN
    /\ \A i \in DOMAIN queue : queue[i].event \in {"citation", "delta", "_done"}

\* However the model cuts its answer and the two coroutines take turns, no piece
\* of it is lost, doubled or out of place between the filter, the queue and the
\* client: at every moment what was sent, what is queued and what is held back
\* make up the sanitized answer, and what a complete stream has shown is the
\* whole of it, and the insufficient-evidence answer where that replaces it.
StreamFaithful ==
    ~TooLong(text) =>
        /\ task = "streaming" /\ handler = "reading" =>
              DeltaText(frames) \o DeltaText(queue) \o pending = Sanitize[text]
        /\ Sent("complete") =>
              DeltaText(frames) =
                  IF answer.used = {} THEN Sanitize[text] \o INSUFFICIENT ELSE answer.text

\* A "complete" frame is only sent when the answer is in the database, by the
\* transaction of this task or of the one whose answer is replayed.
CompleteDurable == Sent("complete") => committed

\* Sources come before text.
Ordered(events) ==
    \A i, j \in DOMAIN events :
        events[i].event = "citation" /\ events[j].event = "delta" => i < j

\* The client knows a source before the text that may cite it, and at the end
\* all that the answer uses, also when it is replayed.
SourcesAnnounced ==
    /\ Ordered(frames)
    /\ Sent("complete") =>
          \A id \in answer.used : Event("citation", id) \in ToSet(frames)

\* A stream whose task was started ends, with its task, whatever happens to
\* either: no client is left with heartbeats.
EveryStreamEnds ==
    handler = "reading" ~> handler \in {"closed", "gone"} /\ task = "done"

-----------------------------------------------------------------------------
\* docs/mobin-ai-backend-implementation-prompt.md, line 199: the two routes
\* "share ... citation checks".  What was streamed is the answer the plain route
\* would have returned.
StreamedIsAnswer == Sent("complete") => DeltaText(frames) = answer.text

=============================================================================
