------------------------------- MODULE Stream -------------------------------
(***************************************************************************)
(* One POST .../messages:stream, app/api/v1/routes.py 179-268: the handler's *)
(* generator reads events from a queue that the task it has started, an      *)
(* execution of RagService.ask, fills as the model answers.  RagService has   *)
(* what that task does to the database; here is what the client gets to see. *)
(***************************************************************************)
EXTENDS CitationFilter

CONSTANTS
    Deltas,         \* pieces a model's answer comes in
    MaxText,        \* bound on the length of an answer
    StoredAnswers   \* answers an earlier task has stored under the same key

INSUFFICIENT == <<"insufficient">>

\* What is stored has passed validated_citations; an answer that cites nothing
\* has been replaced.
ASSUME StreamAssumption ==
    /\ Deltas \cup {INSUFFICIENT} \subseteq Text
    /\ MaxText \in Nat
    /\ \A stored \in StoredAnswers :
          /\ stored.text \in Text
          /\ stored.used \subseteq Known
          /\ stored.used = {} => stored.text = INSUFFICIENT

VARIABLES
    (* the generator *)
    handler,
    frames,      \* yielded so far; the n-th has the sequence number n
    emitted,     \* frames that came out of the queue
    (* the task *)
    task,
    outcome,     \* how it ended: with an answer, an AppError, another exception, cancelled
    text,        \* "".join(parts)
    pending,     \* what the citation filter holds back
    answer,      \* the text returned and the citations it uses
    committed,   \* the answer is in the database
    (* between them *)
    queue,
    called       \* the done callback has run

generator == <<handler, frames, emitted>>
result == <<outcome, answer, committed>>
vars == <<generator, task, text, pending, result, queue, called>>

Event(event, payload) == [event |-> event, payload |-> payload]
Answer(t) == [text |-> t, used |-> Used(t)]

Init ==
    /\ handler = "start" /\ frames = <<>> /\ emitted = 0
    /\ task = "none" /\ outcome = "none"
    /\ text = <<>> /\ pending = <<>>
    /\ answer = Answer(<<>>) /\ committed = FALSE
    /\ queue = <<>> /\ called = FALSE

-----------------------------------------------------------------------------
(* The task.  emit never waits: the queue has no bound.                     *)

Emit(events) == queue' = queue \o events
Delta(t) == IF t = <<>> THEN <<>> ELSE <<Event("delta", t)>>

EndTask(how) == task' = "done" /\ outcome' = how

\* Txn 1 admits the question, finds an answer stored under its key, refuses,
\* or fails.
Ask ==
    /\ task = "asking"
    /\ \/ task' = "retrieving" /\ UNCHANGED result
       \/ \E stored \in StoredAnswers :
             EndTask("answer") /\ answer' = stored /\ committed' = TRUE
       \/ \E how \in {"app_error", "error"} :
             EndTask(how) /\ UNCHANGED <<answer, committed>>
    /\ UNCHANGED <<generator, text, pending, queue, called>>

\* The retriever has found the evidence, or nothing at all.
Citations(ids) == [i \in DOMAIN ids |-> Event("citation", ids[i])]

Retrieve ==
    /\ task = "retrieving"
    /\ \/ task' = "streaming" /\ Emit(Citations(Evidence)) /\ UNCHANGED answer
       \/ /\ task' = "finishing"
          /\ answer' = Answer(INSUFFICIENT)
          /\ Emit(Delta(INSUFFICIENT))
    /\ UNCHANGED <<generator, text, pending, outcome, committed, called>>

\* The model sends a delta.
Generate ==
    /\ task = "streaming"
    /\ \E delta \in Deltas :
          /\ Len(text) + Len(delta) <= MaxText
          /\ text' = text \o delta
          /\ \E fed \in {Feed(pending, delta)} :
                pending' = fed.pending /\ Emit(Delta(fed.out))
    /\ UNCHANGED <<generator, task, result, called>>

\* The model has ended; an answer that cites nothing is replaced.
EndGeneration ==
    /\ task = "streaming"
    /\ \E raw \in {Sanitize[text]} :
          IF Used(raw) # {}
          THEN answer' = Answer(raw) /\ Emit(Delta(pending))
          ELSE /\ answer' = Answer(INSUFFICIENT)
               /\ Emit(Delta(pending) \o Delta(INSUFFICIENT))
    /\ pending' = <<>>
    /\ task' = "finishing"
    /\ UNCHANGED <<generator, text, outcome, committed, called>>

\* _finish: whether the answer is stored when it returns.  Faulty variant: it
\* returns before the transaction has ended.
Stored_Early == BOOLEAN
Stored == {TRUE}

Finish ==
    /\ task = "finishing"
    /\ committed' \in Stored
    /\ EndTask("answer")
    /\ UNCHANGED <<generator, text, pending, answer, queue, called>>

\* The provider or the database fails, or recovery was faster: _fail, then an
\* AppError unless _fail fails too.  The commit of _finish may have got through.
TaskFails ==
    /\ task \in {"retrieving", "streaming", "finishing"}
    /\ \E how \in {"app_error", "error"} : EndTask(how)
    /\ committed' \in IF task = "finishing" THEN BOOLEAN ELSE {FALSE}
    /\ UNCHANGED <<generator, text, pending, answer, queue, called>>

\* The event loop calls back when the task is done.  Faulty variant: when it
\* has returned.
CallbackDue_Returned == task = "done" /\ ~called /\ outcome = "answer"
CallbackDue == task = "done" /\ ~called

DoneCallback ==
    /\ CallbackDue
    /\ called' = TRUE
    /\ Emit(<<Event("_done", <<>>)>>)
    /\ UNCHANGED <<generator, task, text, pending, result>>

-----------------------------------------------------------------------------
(* The generator.                                                           *)

Send(fs) == frames' = frames \o fs

Open ==
    /\ handler = "start"
    /\ handler' = "opened"
    /\ Send(<<Event("retrieving", <<>>)>>)
    /\ UNCHANGED <<emitted, task, text, pending, result, queue, called>>

\* There is a loaded release, or there is none.
Begin ==
    /\ handler = "opened"
    /\ \/ handler' = "reading" /\ task' = "asking" /\ UNCHANGED frames
       \/ handler' = "closed" /\ Send(<<Event("error", <<>>)>>) /\ UNCHANGED task
    /\ UNCHANGED <<emitted, text, pending, result, queue, called>>

\* The next event is "_done".
AtEnd == queue # <<>> /\ Head(queue).event = "_done"

\* A heartbeat in between changes nothing.
Relay ==
    /\ handler = "reading"
    /\ queue # <<>>
    /\ ~AtEnd
    /\ Send(<<Head(queue)>>)
    /\ emitted' = emitted + 1
    /\ queue' = Tail(queue)
    /\ UNCHANGED <<handler, task, text, pending, result, called>>

StopReading ==
    /\ handler = "reading"
    /\ AtEnd
    /\ handler' = "awaited"
    /\ queue' = <<>>
    /\ UNCHANGED <<frames, emitted, task, text, pending, result, called>>

\* A stored answer was not emitted: it is sent from the result, its citations
\* in one order or another.  Faulty variant: its text only.
Replayed_TextOnly == Delta(answer.text)
Replayed == Citations(SetToSeq(answer.used)) \o Delta(answer.text)

Replay ==
    /\ handler = "awaited" /\ outcome = "answer"
    /\ emitted = 0
    /\ handler' = "replayed"
    /\ Send(Replayed)
    /\ UNCHANGED <<emitted, task, text, pending, result, queue, called>>

\* "complete" for an answer, "error" for an AppError, nothing otherwise.
Close ==
    /\ \/ /\ handler = "replayed" \/ (handler = "awaited" /\ emitted > 0)
          /\ outcome = "answer"
          /\ Send(<<Event("complete", answer.text)>>)
       \/ handler = "awaited" /\ outcome = "app_error" /\ Send(<<Event("error", <<>>)>>)
       \/ handler = "awaited" /\ outcome = "error" /\ UNCHANGED frames
    /\ handler' = "closed"
    /\ UNCHANGED <<emitted, task, text, pending, result, queue, called>>

\* The client goes away; the generator is closed, at once where it waits for
\* the queue, else when it is collected.
Disconnect ==
    /\ handler \in {"opened", "reading", "awaited", "replayed"}
    /\ handler' = "gone"
    /\ UNCHANGED <<frames, emitted, task, text, pending, result, queue, called>>

\* The finally block: the task is cancelled, and ends at the await it is at.
Finally ==
    /\ handler = "gone"
    /\ task \notin {"none", "done"}
    /\ EndTask("cancelled")
    /\ committed' \in IF task = "finishing" THEN BOOLEAN ELSE {committed}
    /\ UNCHANGED <<generator, text, pending, answer, queue, called>>

-----------------------------------------------------------------------------

TaskStep == Ask \/ Retrieve \/ Generate \/ EndGeneration \/ Finish
GeneratorStep == Open \/ Begin \/ Relay \/ StopReading \/ Replay \/ Close \/ Finally

Next == TaskStep \/ TaskFails \/ DoneCallback \/ GeneratorStep \/ Disconnect

Spec == Init /\ [][Next]_vars

\* The event loop runs what is ready; a model's answer ends, by ai_max_tokens
\* and the timeout of a read.
FairSpec ==
    /\ Spec
    /\ WF_vars(Ask \/ Retrieve \/ EndGeneration \/ Finish)
    /\ WF_vars(DoneCallback)
    /\ WF_vars(GeneratorStep)

=============================================================================
