---------------------------- MODULE StreamProofs ----------------------------
(***************************************************************************)
(* Proofs about Stream: what a complete stream says is stored, its sources   *)
(* come before its text and are complete, and its text is the sanitized      *)
(* answer, for any evidence, answers, deltas and cuts.                     *)
(***************************************************************************)
EXTENDS StreamProps, FilterProofs

(***************************************************************************)
(* Sequences of events.                                                    *)
(***************************************************************************)

IsSeq(s) == s \in Seq(ToSet(s))
Kinds(s) == {e.event : e \in ToSet(s)}

\* Nothing is behind the event that ends the queue.
EndsWithDone(s) == \A i \in DOMAIN s : s[i].event = "_done" => i = Len(s)

\* A sequence over some set is one over its elements.
LEMMA SeqIsSeq ==
    ASSUME NEW S, NEW s \in Seq(S)
    PROVE  IsSeq(s) /\ ToSet(s) \subseteq S
  <1>1. /\ Len(s) \in Nat /\ DOMAIN s = 1..Len(s)
        /\ \A i \in 1..Len(s) : s[i] \in S /\ s[i] \in ToSet(s)
    BY DEF ToSet
  <1>2. s = [i \in 1..Len(s) |-> s[i]]
    OBVIOUS
  <1> QED
    BY <1>1, <1>2 DEF IsSeq, ToSet

\* Putting one sequence behind another.
LEMMA Joined ==
    ASSUME NEW s, NEW t, IsSeq(s), IsSeq(t)
    PROVE  /\ IsSeq(s \o t) /\ Len(s \o t) = Len(s) + Len(t)
           /\ ToSet(s \o t) = ToSet(s) \cup ToSet(t)
           /\ Kinds(s \o t) = Kinds(s) \cup Kinds(t)
           /\ \A i \in DOMAIN s : (s \o t)[i] = s[i]
           /\ \A i \in DOMAIN t : (s \o t)[Len(s) + i] = t[i]
           /\ \A k \in DOMAIN (s \o t) :
                 k \in DOMAIN s \/ \E i \in DOMAIN t : k = Len(s) + i
  <1> DEFINE S == ToSet(s) \cup ToSet(t)
  <1>1. s \in Seq(S) /\ t \in Seq(S)
    BY DEF IsSeq
  <1>2. /\ s \o t \in Seq(S) /\ Len(s \o t) = Len(s) + Len(t)
        /\ Len(s) \in Nat /\ Len(t) \in Nat
        /\ DOMAIN s = 1..Len(s) /\ DOMAIN t = 1..Len(t)
        /\ DOMAIN (s \o t) = 1..(Len(s) + Len(t))
    BY <1>1
  <1>3. \A i \in DOMAIN s : (s \o t)[i] = s[i]
    BY <1>1, <1>2
  <1>4. \A i \in DOMAIN t : (s \o t)[Len(s) + i] = t[i] /\ Len(s) + i \in DOMAIN (s \o t)
    BY <1>1, <1>2
  <1>5. \A k \in DOMAIN (s \o t) :
           k \in DOMAIN s \/ \E i \in DOMAIN t : k = Len(s) + i
    <2> SUFFICES ASSUME NEW k \in DOMAIN (s \o t), k \notin DOMAIN s
                 PROVE  \E i \in DOMAIN t : k = Len(s) + i
      OBVIOUS
    <2>1. k - Len(s) \in DOMAIN t /\ k = Len(s) + (k - Len(s))
      BY <1>2
    <2> QED
      BY <2>1
  <1>6. ToSet(s \o t) = ToSet(s) \cup ToSet(t)
    <2>1. DOMAIN s \subseteq DOMAIN (s \o t)
      BY <1>2
    <2> QED
      BY <2>1, <1>3, <1>4, <1>5 DEF ToSet
  <1>7. Kinds(s \o t) = Kinds(s) \cup Kinds(t)
    BY <1>6 DEF Kinds
  <1> QED
    BY <1>1, <1>2, <1>3, <1>4, <1>5, <1>6, <1>7 DEF IsSeq

\* Order survives it, unless sources are put behind text.
LEMMA OrderJoined ==
    ASSUME NEW s, NEW t, IsSeq(s), IsSeq(t), Ordered(s), Ordered(t),
           ~("delta" \in Kinds(s) /\ "citation" \in Kinds(t))
    PROVE  Ordered(s \o t)
  <1>1. Len(s) \in Nat /\ DOMAIN s = 1..Len(s) /\ Len(t) \in Nat /\ DOMAIN t = 1..Len(t)
    BY DEF IsSeq
  <1> SUFFICES ASSUME NEW i \in DOMAIN (s \o t), NEW j \in DOMAIN (s \o t),
                      (s \o t)[i].event = "citation", (s \o t)[j].event = "delta"
               PROVE  i < j
    BY DEF Ordered
  <1>2. /\ \A k \in DOMAIN s : (s \o t)[k] = s[k]
        /\ \A k \in DOMAIN t : (s \o t)[Len(s) + k] = t[k]
        /\ \A k \in DOMAIN (s \o t) :
              k \in DOMAIN s \/ \E l \in DOMAIN t : k = Len(s) + l
    BY Joined
  <1>3. CASE i \in DOMAIN s /\ j \in DOMAIN s
    BY <1>2, <1>3 DEF Ordered
  <1>4. ASSUME i \in DOMAIN s, NEW k \in DOMAIN t, j = Len(s) + k
        PROVE  i < j
    BY <1>1, <1>4
  <1>5. ASSUME NEW k \in DOMAIN t, i = Len(s) + k, j \in DOMAIN s
        PROVE  FALSE
    <2>1. t[k].event = "citation" /\ s[j].event = "delta"
      BY <1>2, <1>5
    <2>2. t[k] \in ToSet(t) /\ s[j] \in ToSet(s)
      BY <1>5 DEF ToSet
    <2>3. "citation" \in Kinds(t) /\ "delta" \in Kinds(s)
      BY <2>1, <2>2 DEF Kinds
    <2> QED
      BY <2>3
  <1>6. ASSUME NEW k \in DOMAIN t, i = Len(s) + k, NEW l \in DOMAIN t, j = Len(s) + l
        PROVE  i < j
    <2>1. t[k].event = "citation" /\ t[l].event = "delta"
      BY <1>2, <1>6
    <2>2. k < l
      BY <2>1 DEF Ordered
    <2> QED
      BY <1>1, <1>6, <2>2
  <1> QED
    BY <1>2, <1>3, <1>4, <1>5, <1>6

\* One event.
LEMMA OneEvent ==
    ASSUME NEW e
    PROVE  /\ IsSeq(<<e>>) /\ ToSet(<<e>>) = {e} /\ Kinds(<<e>>) = {e.event}
           /\ Ordered(<<e>>) /\ EndsWithDone(<<e>>)
  <1>1. /\ <<e>> \in Seq({e}) /\ Len(<<e>>) = 1 /\ <<e>>[1] = e
        /\ DOMAIN <<e>> = {1}
    <2>1. <<e>> \in Seq({e}) /\ Len(<<e>>) = 1 /\ <<e>>[1] = e
      OBVIOUS
    <2>2. DOMAIN <<e>> = 1..1
      BY <2>1, LenProperties
    <2> QED
      BY <2>1, <2>2
  <1>2. IsSeq(<<e>>) /\ ToSet(<<e>>) = {e}
    <2>1. ToSet(<<e>>) = {e}
      BY <1>1 DEF ToSet
    <2> QED
      BY <1>1, <2>1 DEF IsSeq
  <1>3. Kinds(<<e>>) = {e.event}
    BY <1>2 DEF Kinds
  <1>4. Ordered(<<e>>) /\ EndsWithDone(<<e>>)
    BY <1>1 DEF Ordered, EndsWithDone
  <1> QED
    BY <1>2, <1>3, <1>4

\* None.
LEMMA NoEvent ==
    /\ IsSeq(<<>>) /\ ToSet(<<>>) = {} /\ Kinds(<<>>) = {}
    /\ Ordered(<<>>) /\ EndsWithDone(<<>>)
  <1>1. <<>> \in Seq({}) /\ DOMAIN <<>> = {}
    OBVIOUS
  <1>2. ToSet(<<>>) = {}
    BY <1>1 DEF ToSet
  <1> QED
    BY <1>1, <1>2 DEF IsSeq, Kinds, Ordered, EndsWithDone

\* Text, if there is any.
LEMMA DeltaEvents ==
    ASSUME NEW t
    PROVE  /\ IsSeq(Delta(t)) /\ Kinds(Delta(t)) \subseteq {"delta"}
           /\ Ordered(Delta(t)) /\ EndsWithDone(Delta(t))
  <1>1. Event("delta", t).event = "delta"
    BY DEF Event
  <1> QED
    BY <1>1, OneEvent, NoEvent DEF Delta

\* Sources.
LEMMA CitationEvents ==
    ASSUME NEW X, NEW ids \in Seq(X)
    PROVE  /\ IsSeq(Citations(ids)) /\ Kinds(Citations(ids)) \subseteq {"citation"}
           /\ Ordered(Citations(ids)) /\ EndsWithDone(Citations(ids))
           /\ \A id \in ToSet(ids) : Event("citation", id) \in ToSet(Citations(ids))
  <1> DEFINE es == Citations(ids)
             E == {Event("citation", x) : x \in X}
  <1>1. /\ DOMAIN es = DOMAIN ids /\ DOMAIN ids = 1..Len(ids) /\ Len(ids) \in Nat
        /\ \A i \in DOMAIN ids : es[i] = Event("citation", ids[i]) /\ ids[i] \in X
    BY DEF Citations
  <1>2. es \in Seq(E)
    BY <1>1 DEF Citations
  <1>3. IsSeq(es) /\ ToSet(es) \subseteq E
    BY <1>2, SeqIsSeq
  <1>4. \A e \in E : e.event = "citation"
    BY DEF Event
  <1>5. Kinds(es) \subseteq {"citation"}
    BY <1>3, <1>4 DEF Kinds
  <1>6. \A i \in DOMAIN es : es[i].event = "citation"
    BY <1>1 DEF Event
  <1>7. Ordered(es) /\ EndsWithDone(es)
    BY <1>6 DEF Ordered, EndsWithDone
  <1>8. \A id \in ToSet(ids) : Event("citation", id) \in ToSet(es)
    BY <1>1 DEF ToSet
  <1> QED
    BY <1>3, <1>5, <1>7, <1>8

\* Taking the first event off.
LEMMA FirstOff ==
    ASSUME NEW q, IsSeq(q), q # <<>>
    PROVE  /\ IsSeq(Tail(q)) /\ ToSet(q) = {Head(q)} \cup ToSet(Tail(q))
           /\ Kinds(q) = {Head(q).event} \cup Kinds(Tail(q))
           /\ Ordered(q) => /\ Ordered(Tail(q))
                            /\ Head(q).event = "delta" => "citation" \notin Kinds(Tail(q))
           /\ EndsWithDone(q) => /\ EndsWithDone(Tail(q))
                                 /\ Head(q).event = "_done" => Tail(q) = <<>>
  <1>1. /\ Len(q) \in Nat \ {0} /\ DOMAIN q = 1..Len(q) /\ Head(q) = q[1]
        /\ Tail(q) \in Seq(ToSet(q)) /\ Len(Tail(q)) = Len(q) - 1
        /\ DOMAIN Tail(q) = 1..(Len(q) - 1)
        /\ \A i \in DOMAIN Tail(q) : Tail(q)[i] = q[i + 1] /\ i + 1 \in DOMAIN q
    <2>1. Len(q) \in Nat \ {0} /\ DOMAIN q = 1..Len(q)
      BY EmptySeq, LenProperties DEF IsSeq
    <2>2. Head(q) = q[1]
      BY DEF IsSeq
    <2>3. /\ Tail(q) \in Seq(ToSet(q)) /\ Len(Tail(q)) = Len(q) - 1
          /\ \A i \in 1 .. Len(Tail(q)) : Tail(q)[i] = q[i + 1]
      BY HeadTailProperties DEF IsSeq
    <2>4. DOMAIN Tail(q) = 1..Len(Tail(q))
      BY <2>3, LenProperties
    <2> QED
      BY <2>1, <2>2, <2>3, <2>4
  <1>2. \A i \in DOMAIN q : i = 1 \/ (i - 1 \in DOMAIN Tail(q) /\ q[i] = Tail(q)[i - 1])
    <2> SUFFICES ASSUME NEW i \in DOMAIN q, i # 1
                 PROVE  i - 1 \in DOMAIN Tail(q) /\ q[i] = Tail(q)[i - 1]
      OBVIOUS
    <2> DEFINE k == i - 1
    <2>1. k \in DOMAIN Tail(q) /\ k + 1 = i
      BY <1>1
    <2>2. Tail(q)[k] = q[k + 1]
      BY <1>1, <2>1
    <2> QED
      BY <2>1, <2>2
  <1>3. ToSet(q) = {Head(q)} \cup ToSet(Tail(q))
    <2>1. ASSUME NEW e \in ToSet(q) PROVE e = Head(q) \/ e \in ToSet(Tail(q))
      <3>1. PICK i \in DOMAIN q : e = q[i]
        BY DEF ToSet
      <3> QED
        BY <1>1, <1>2, <3>1 DEF ToSet
    <2>2. ASSUME NEW e \in ToSet(Tail(q)) PROVE e \in ToSet(q)
      BY <1>1 DEF ToSet
    <2>3. Head(q) \in ToSet(q)
      BY <1>1 DEF ToSet
    <2> QED
      BY <2>1, <2>2, <2>3
  <1>4. IsSeq(Tail(q))
    BY <1>1, SeqIsSeq
  <1>5. Kinds(q) = {Head(q).event} \cup Kinds(Tail(q))
    BY <1>3 DEF Kinds
  <1>6. ASSUME Ordered(q)
        PROVE  /\ Ordered(Tail(q))
               /\ Head(q).event = "delta" => "citation" \notin Kinds(Tail(q))
    <2>1. Ordered(Tail(q))
      BY <1>1, <1>6 DEF Ordered
    <2>2. ASSUME Head(q).event = "delta", "citation" \in Kinds(Tail(q)) PROVE FALSE
      <3>1. PICK i \in DOMAIN Tail(q) : Tail(q)[i].event = "citation"
        BY <2>2 DEF Kinds, ToSet
      <3>2. q[i + 1].event = "citation" /\ i + 1 \in DOMAIN q /\ 1 \in DOMAIN q
        BY <1>1, <3>1
      <3>3. i + 1 < 1
        BY <1>1, <1>6, <2>2, <3>2 DEF Ordered
      <3> QED
        BY <1>1, <3>3
    <2> QED
      BY <2>1, <2>2
  <1>7. ASSUME EndsWithDone(q)
        PROVE  /\ EndsWithDone(Tail(q))
               /\ Head(q).event = "_done" => Tail(q) = <<>>
    <2>1. EndsWithDone(Tail(q))
      BY <1>1, <1>7 DEF EndsWithDone
    <2>2. Head(q).event = "_done" => Len(q) = 1
      BY <1>1, <1>7 DEF EndsWithDone
    <2>3. Len(Tail(q)) = 0 => Tail(q) = <<>>
      BY <1>1, EmptySeq
    <2> QED
      BY <1>1, <2>1, <2>2, <2>3
  <1> QED
    BY <1>3, <1>4, <1>5, <1>6, <1>7

\* A finite set in one order or another.
LEMMA InSomeOrder ==
    ASSUME NEW S, IsFiniteSet(S)
    PROVE  SetToSeq(S) \in Seq(S) /\ ToSet(SetToSeq(S)) = S
  <1> DEFINE n == Cardinality(S)
             f == SetToSeq(S)
  <1>1. n \in Nat /\ ExistsBijection(1..n, S)
    BY FS_CardinalityType
  <1>2. \E g \in [1..n -> S] : IsInjective(g)
    BY <1>1 DEF ExistsBijection, Bijection, Injection
  <1>3. f \in [1..n -> S] /\ IsInjective(f)
    BY <1>2 DEF SetToSeq
  <1>4. f \in Injection(1..n, S)
    BY <1>3 DEF Injection
  <1>5. IsFiniteSet(1..n) /\ Cardinality(1..n) = n
    BY <1>1, FS_Interval
  <1>6. f \in Surjection(1..n, S)
    BY <1>4, <1>5, FS_Injection
  <1>7. \A x \in S : \E i \in 1..n : f[i] = x
    BY <1>6 DEF Surjection
  <1> HIDE DEF f, n
  <1> QED
    BY <1>1, <1>3, <1>7 DEF ToSet, f

(***************************************************************************)
(* The invariant.                                                          *)
(***************************************************************************)

\* Sent or on its way.
Announced(ids) == \A id \in ids : Event("citation", id) \in ToSet(frames) \cup ToSet(queue)
Shown(ids) == \A id \in ids : Event("citation", id) \in ToSet(frames)

Shape ==
    /\ handler \in {"start", "opened", "reading", "awaited", "replayed", "closed", "gone"}
    /\ task \in {"none", "asking", "retrieving", "streaming", "finishing", "done"}
    /\ outcome \in {"none", "answer", "app_error", "error", "cancelled"}
    /\ outcome # "none" <=> task = "done"
    /\ emitted \in Nat
    /\ answer.used \subseteq Known
    /\ IsSeq(frames) /\ IsSeq(queue)

\* "_done" is the last event, and the callback's; until a task has retrieved,
\* nothing is in the queue.
QueueRight ==
    /\ Kinds(queue) \subseteq {"citation", "delta", "_done"}
    /\ EndsWithDone(queue)
    /\ "_done" \in Kinds(queue) => called
    /\ called => task = "done"
    /\ handler \in {"start", "opened"} => task = "none"
    /\ handler \in {"awaited", "replayed"} => called /\ queue = <<>>
    /\ task \in {"none", "asking", "retrieving"} =>
          /\ queue = <<>> /\ emitted = 0
          /\ Kinds(frames) \cap {"citation", "delta"} = {}

\* A complete frame is the last one, of a task that has answered.
CompleteRight ==
    /\ outcome = "answer" => committed = TRUE
    /\ "complete" \in Kinds(frames) => handler = "closed" /\ outcome = "answer"

\* Where the sources of an answer are, from retrieval to the end.
SourcesRight ==
    /\ Ordered(frames) /\ Ordered(queue)
    /\ ~("delta" \in Kinds(frames) /\ "citation" \in Kinds(queue))
    /\ emitted = 0 /\ handler \notin {"replayed", "closed", "gone"} =>
          Kinds(frames) \cap {"citation", "delta"} = {}
    /\ task = "streaming" => Announced(Known)
    /\ task = "finishing" => Announced(answer.used)
    /\ outcome = "answer" =>
          Announced(answer.used) \/ (emitted = 0 /\ Kinds(queue) \subseteq {"_done"})
    /\ handler = "replayed" => Shown(answer.used)
    /\ "complete" \in Kinds(frames) => Shown(answer.used)

StreamInv == Shape /\ QueueRight /\ CompleteRight /\ SourcesRight

(***************************************************************************)
(* The sources an answer can use.                                          *)
(***************************************************************************)

\* There are finitely many.
LEMMA KnownIsFinite == IsFiniteSet(Known)
  <1> DEFINE n == Len(Evidence)
  <1>1. n \in Nat /\ DOMAIN Evidence = 1..n /\ Evidence \in [1..n -> Known]
        /\ \A id \in Known : \E i \in 1..n : Evidence[i] = id
    <2>1. Evidence \in Seq(Seq(Digits))
      BY FilterAssumption
    <2>2. n \in Nat /\ DOMAIN Evidence = 1..n
      BY <2>1, LenProperties
    <2>3. Evidence \in [1..n -> Seq(Digits)]
      BY <2>1, LenProperties
    <2> QED
      BY <2>2, <2>3 DEF Known, ToSet
  <1>2. Evidence \in Surjection(1..n, Known)
    BY <1>1 DEF Surjection
  <1>3. IsFiniteSet(1..n)
    BY <1>1, FS_Interval
  <1> QED
    BY <1>2, <1>3, FS_Surjection

\* An answer uses only those that were retrieved.
LEMMA AnswerUses == \A t : Answer(t).used \subseteq Known
  BY DEF Answer, Used

\* The answer that replaces one without evidence cites nothing.
LEMMA InsufficientUsesNothing == Answer(INSUFFICIENT).used = {}
  <1> SUFFICES ASSUME NEW id \in Known, Citation(id) \in SubSeqs(INSUFFICIENT)
               PROVE  FALSE
    BY DEF Answer, Used
  <1>1. PICK i \in 0..1, j \in 0..1 : Citation(id) = SubSeq(INSUFFICIENT, i + 1, j)
    BY DEF SubSeqs, INSUFFICIENT
  <1>2. id \in Seq(Digits)
    BY FilterAssumption DEF Known, ToSet
  <1>3. Len(Citation(id)) >= 3
    BY <1>2 DEF Citation
  <1>4. Len(SubSeq(INSUFFICIENT, i + 1, j)) <= 1
    BY DEF INSUFFICIENT
  <1> QED
    BY <1>1, <1>3, <1>4

(***************************************************************************)
(* Every step keeps the invariant.                                         *)
(***************************************************************************)

\* It holds when the request arrives.
LEMMA StreamInit == Init => StreamInv
  BY NoEvent, AnswerUses DEF Init, StreamInv, Shape, QueueRight, CompleteRight,
     SourcesRight

\* What a step does to the queue, in terms of sets.
LEMMA Emitted ==
    ASSUME IsSeq(queue), NEW es, IsSeq(es), queue' = queue \o es
    PROVE  /\ IsSeq(queue') /\ ToSet(queue') = ToSet(queue) \cup ToSet(es)
           /\ Kinds(queue') = Kinds(queue) \cup Kinds(es)
           /\ Ordered(queue) /\ Ordered(es)
                 /\ ~("delta" \in Kinds(queue) /\ "citation" \in Kinds(es))
                 => Ordered(queue')
           /\ "_done" \notin Kinds(queue) /\ EndsWithDone(es) => EndsWithDone(queue')
  <1>1. /\ IsSeq(queue') /\ Len(queue') = Len(queue) + Len(es)
        /\ ToSet(queue') = ToSet(queue) \cup ToSet(es)
        /\ Kinds(queue') = Kinds(queue) \cup Kinds(es)
        /\ \A i \in DOMAIN queue : queue'[i] = queue[i]
        /\ \A i \in DOMAIN es : queue'[Len(queue) + i] = es[i]
        /\ \A k \in DOMAIN queue' :
              k \in DOMAIN queue \/ \E i \in DOMAIN es : k = Len(queue) + i
    BY Joined
  <1>2. ASSUME "_done" \notin Kinds(queue), EndsWithDone(es),
               NEW k \in DOMAIN queue', queue'[k].event = "_done"
        PROVE  k = Len(queue')
    <2>1. k \notin DOMAIN queue
      BY <1>1, <1>2 DEF Kinds, ToSet
    <2>2. PICK i \in DOMAIN es : k = Len(queue) + i
      BY <1>1, <2>1
    <2>3. i = Len(es)
      BY <1>1, <1>2, <2>2 DEF EndsWithDone
    <2> QED
      BY <1>1, <2>2, <2>3
  <1> QED
    BY <1>1, <1>2, OrderJoined DEF EndsWithDone

\* And to the frames.
LEMMA Yielded ==
    ASSUME IsSeq(frames), NEW es, IsSeq(es), Send(es)
    PROVE  /\ IsSeq(frames') /\ ToSet(frames') = ToSet(frames) \cup ToSet(es)
           /\ Kinds(frames') = Kinds(frames) \cup Kinds(es)
           /\ Ordered(frames) /\ Ordered(es)
                 /\ ~("delta" \in Kinds(frames) /\ "citation" \in Kinds(es))
                 => Ordered(frames')
  BY Joined, OrderJoined DEF Send

\* The steps of the task.
LEMMA TaskSteps ==
    ASSUME StreamInv, TaskStep \/ TaskFails \/ DoneCallback
    PROVE  StreamInv'
  <1> USE DEF StreamInv, Shape, QueueRight, CompleteRight, SourcesRight, Announced,
              Shown, generator, result
  <1>1. CASE Ask
    BY <1>1, StreamAssumption, NoEvent DEF Ask, EndTask
  <1>2. CASE Retrieve
    <2>1. CASE /\ task' = "streaming" /\ Emit(Citations(Evidence))
               /\ UNCHANGED answer
      <3>1. /\ IsSeq(Citations(Evidence))
            /\ Kinds(Citations(Evidence)) \subseteq {"citation"}
            /\ Ordered(Citations(Evidence)) /\ EndsWithDone(Citations(Evidence))
            /\ \A id \in Known : Event("citation", id) \in ToSet(Citations(Evidence))
        BY FilterAssumption, CitationEvents DEF Known
      <3>2. queue = <<>> /\ Kinds(queue) = {}
        BY <1>2, NoEvent DEF Retrieve
      <3> QED
        BY <1>2, <2>1, <3>1, <3>2, Emitted DEF Retrieve, Emit
    <2>2. CASE /\ task' = "finishing" /\ answer' = Answer(INSUFFICIENT)
               /\ Emit(Delta(INSUFFICIENT))
      <3>1. Kinds(queue) = {}
        BY <1>2, NoEvent DEF Retrieve
      <3> QED
        BY <1>2, <2>2, <3>1, Emitted, DeltaEvents, InsufficientUsesNothing
           DEF Retrieve, Emit
    <2> QED
      BY <1>2, <2>1, <2>2 DEF Retrieve
  <1>3. CASE Generate
    <2>1. PICK es : /\ Emit(es) /\ IsSeq(es) /\ Kinds(es) \subseteq {"delta"}
                    /\ Ordered(es) /\ EndsWithDone(es)
      BY <1>3, DeltaEvents DEF Generate
    <2>2. /\ task = "streaming" /\ ~called
          /\ UNCHANGED <<handler, frames, emitted, task, outcome, answer, committed, called>>
      BY <1>3 DEF Generate
    <2> QED
      BY <2>1, <2>2, Emitted DEF Emit
  <1>4. CASE EndGeneration
    <2>1. PICK es : /\ Emit(es) /\ IsSeq(es) /\ Kinds(es) \subseteq {"delta"}
                    /\ Ordered(es) /\ EndsWithDone(es)
      <3>1. CASE Emit(Delta(pending))
        BY <3>1, DeltaEvents
      <3>2. CASE Emit(Delta(pending) \o Delta(INSUFFICIENT))
        <4> DEFINE es == Delta(pending) \o Delta(INSUFFICIENT)
        <4>1. IsSeq(es) /\ Kinds(es) \subseteq {"delta"} /\ Ordered(es)
          BY DeltaEvents, Joined, OrderJoined
        <4>2. EndsWithDone(es)
          BY <4>1 DEF EndsWithDone, Kinds, ToSet
        <4> QED
          BY <3>2, <4>1, <4>2
      <3> QED
        BY <1>4, <3>1, <3>2 DEF EndGeneration
    <2>2. answer'.used \subseteq Known
      BY <1>4, AnswerUses DEF EndGeneration
    <2> QED
      BY <1>4, <2>1, <2>2, Emitted DEF EndGeneration, Emit
  <1>5. CASE Finish
    BY <1>5 DEF Finish, EndTask, Stored
  <1>6. CASE TaskFails
    BY <1>6 DEF TaskFails, EndTask
  <1>7. CASE DoneCallback
    <2> DEFINE es == <<Event("_done", <<>>)>>
    <2>1. IsSeq(es) /\ Kinds(es) = {"_done"} /\ Ordered(es) /\ EndsWithDone(es)
      BY OneEvent DEF Event
    <2> HIDE DEF es
    <2>2. queue' = queue \o es
      BY <1>7 DEF DoneCallback, Emit, es
    <2> QED
      BY <1>7, <2>1, <2>2, Emitted DEF DoneCallback, CallbackDue
  <1> QED
    BY <1>1, <1>2, <1>3, <1>4, <1>5, <1>6, <1>7 DEF TaskStep

\* The steps of the generator.
LEMMA GeneratorSteps ==
    ASSUME StreamInv, GeneratorStep \/ Disconnect
    PROVE  StreamInv'
  <1> USE DEF StreamInv, Shape, QueueRight, CompleteRight, SourcesRight, Announced,
              Shown, generator, result
  <1>1. CASE Open
    <2> DEFINE es == <<Event("retrieving", <<>>)>>
    <2>1. IsSeq(es) /\ Kinds(es) = {"retrieving"} /\ Ordered(es)
      BY OneEvent DEF Event
    <2> HIDE DEF es
    <2>2. Send(es)
      BY <1>1 DEF Open, es
    <2> QED
      BY <1>1, <2>1, <2>2, Yielded DEF Open
  <1>2. CASE Begin
    <2> DEFINE es == <<Event("error", <<>>)>>
    <2>1. IsSeq(es) /\ Kinds(es) = {"error"} /\ Ordered(es)
      BY OneEvent DEF Event
    <2> HIDE DEF es
    <2>2. Send(es) \/ UNCHANGED frames
      BY <1>2 DEF Begin, es
    <2> QED
      BY <1>2, <2>1, <2>2, Yielded DEF Begin
  <1>3. CASE Relay
    <2> DEFINE e == Head(queue)
    <2>1. /\ IsSeq(queue') /\ ToSet(queue) = {e} \cup ToSet(queue')
          /\ Kinds(queue) = {e.event} \cup Kinds(queue')
          /\ Ordered(queue') /\ (e.event = "delta" => "citation" \notin Kinds(queue'))
          /\ EndsWithDone(queue')
      BY <1>3, FirstOff DEF Relay
    <2>2. e.event \in {"citation", "delta"}
      BY <1>3, <2>1 DEF Relay, AtEnd
    <2>3. /\ IsSeq(frames') /\ ToSet(frames') = ToSet(frames) \cup {e}
          /\ Kinds(frames') = Kinds(frames) \cup {e.event}
          /\ Ordered(frames')
      BY <1>3, <2>1, OneEvent, Yielded DEF Relay
    <2>4. queue # <<>> /\ task \notin {"none", "asking", "retrieving"}
      BY <1>3 DEF Relay
    <2>5. ~(Kinds(queue) \subseteq {"_done"})
      BY <2>1, <2>2
    <2>6. /\ handler = "reading" /\ emitted' = emitted + 1
          /\ UNCHANGED <<handler, task, outcome, answer, committed, called>>
      BY <1>3 DEF Relay
    <2> HIDE DEF e
    <2> QED
      BY <2>1, <2>2, <2>3, <2>4, <2>5, <2>6
  <1>4. CASE StopReading
    <2>1. /\ queue # <<>> /\ Head(queue).event = "_done" /\ Tail(queue) = <<>>
          /\ ToSet(queue) = {Head(queue)} \cup ToSet(Tail(queue))
          /\ Kinds(queue) = {Head(queue).event} \cup Kinds(Tail(queue))
      BY <1>4, FirstOff DEF StopReading, AtEnd
    <2>2. called /\ task = "done"
      BY <2>1
    <2>3. \A id : Event("citation", id) \notin ToSet(queue)
      <3>1. ToSet(queue) = {Head(queue)}
        BY <2>1, NoEvent
      <3>2. \A id : Event("citation", id).event = "citation"
        BY DEF Event
      <3> QED
        BY <2>1, <3>1, <3>2
    <2> QED
      BY <1>4, <2>2, <2>3, NoEvent DEF StopReading
  <1>5. CASE Replay
    <2> DEFINE ids == SetToSeq(answer.used)
    <2>1. ids \in Seq(answer.used) /\ ToSet(ids) = answer.used
      BY KnownIsFinite, FS_Subset, InSomeOrder
    <2> HIDE DEF ids
    <2>2. /\ IsSeq(Citations(ids)) /\ Kinds(Citations(ids)) \subseteq {"citation"}
          /\ Ordered(Citations(ids))
          /\ \A id \in answer.used : Event("citation", id) \in ToSet(Citations(ids))
      BY <2>1, CitationEvents
    <2>3. /\ IsSeq(Delta(answer.text)) /\ Kinds(Delta(answer.text)) \subseteq {"delta"}
          /\ Ordered(Delta(answer.text))
      BY DeltaEvents
    <2> DEFINE es == Citations(ids) \o Delta(answer.text)
    <2>4. /\ IsSeq(es) /\ Kinds(es) \subseteq {"citation", "delta"} /\ Ordered(es)
          /\ \A id \in answer.used : Event("citation", id) \in ToSet(es)
      BY <2>2, <2>3, Joined, OrderJoined
    <2> HIDE DEF es
    <2>5. Send(es)
      BY <1>5 DEF Replay, Replayed, es, ids
    <2>6. /\ handler = "awaited" /\ handler' = "replayed" /\ emitted = 0 /\ queue = <<>>
          /\ UNCHANGED <<emitted, task, outcome, answer, committed, queue, called>>
      BY <1>5 DEF Replay
    <2>7. "delta" \notin Kinds(frames)
      BY <2>6
    <2>8. /\ IsSeq(frames') /\ Ordered(frames') /\ Shown(answer.used)'
          /\ Kinds(frames') \subseteq Kinds(frames) \cup {"citation", "delta"}
      BY <2>4, <2>5, <2>6, <2>7, Yielded
    <2>9. task = "done" /\ Kinds(queue) = {}
      BY <2>6, NoEvent
    <2> QED
      BY <2>6, <2>8, <2>9
  <1>6. CASE Close
    <2>1. CASE /\ handler = "replayed" \/ (handler = "awaited" /\ emitted > 0)
               /\ outcome = "answer"
               /\ Send(<<Event("complete", answer.text)>>)
      <3> DEFINE es == <<Event("complete", answer.text)>>
      <3>1. IsSeq(es) /\ Kinds(es) = {"complete"} /\ Ordered(es)
        BY OneEvent DEF Event
      <3> HIDE DEF es
      <3>2. Send(es)
        BY <2>1 DEF es
      <3>3. Shown(answer.used)
        <4>1. handler = "awaited" /\ emitted > 0 => ToSet(queue) = {}
          BY NoEvent
        <4> QED
          BY <2>1, <4>1
      <3> QED
        BY <1>6, <2>1, <3>1, <3>2, <3>3, Yielded DEF Close
    <2>2. CASE handler = "awaited" /\ outcome = "app_error" /\ Send(<<Event("error", <<>>)>>)
      <3> DEFINE es == <<Event("error", <<>>)>>
      <3>1. IsSeq(es) /\ Kinds(es) = {"error"} /\ Ordered(es)
        BY OneEvent DEF Event
      <3> HIDE DEF es
      <3>2. Send(es)
        BY <2>2 DEF es
      <3> QED
        BY <1>6, <2>2, <3>1, <3>2, Yielded DEF Close
    <2>3. CASE handler = "awaited" /\ outcome = "error" /\ UNCHANGED frames
      BY <1>6, <2>3 DEF Close
    <2> QED
      BY <1>6, <2>1, <2>2, <2>3 DEF Close
  <1>7. CASE Finally
    BY <1>7 DEF Finally, EndTask
  <1>8. CASE Disconnect
    BY <1>8 DEF Disconnect
  <1> QED
    BY <1>1, <1>2, <1>3, <1>4, <1>5, <1>6, <1>7, <1>8 DEF GeneratorStep

\* The invariant holds.
LEMMA StreamInvariance == Spec => []StreamInv
  <1>1. StreamInv /\ [Next]_vars => StreamInv'
    <2>1. StreamInv /\ UNCHANGED vars => StreamInv'
      BY DEF vars, generator, result, StreamInv, Shape, QueueRight, CompleteRight,
             SourcesRight, Announced, Shown
    <2> QED
      BY <2>1, TaskSteps, GeneratorSteps DEF Next
  <1> QED
    BY StreamInit, <1>1, PTL DEF Spec

(***************************************************************************)
(* What a client may rely on.                                              *)
(***************************************************************************)

\* A complete frame is about a stored answer, whatever the faults and however
\* the task and the generator take turns.
THEOREM CompleteIsDurable == Spec => []CompleteDurable
  <1>1. StreamInv => CompleteDurable
    BY DEF StreamInv, CompleteRight, CompleteDurable, Sent, Kinds, ToSet
  <1> QED
    BY StreamInvariance, <1>1, PTL

\* Sources come before text, and a complete answer's are all there, for any
\* evidence, deltas and stored answers.
THEOREM SourcesAreAnnounced == Spec => []SourcesAnnounced
  <1>1. StreamInv => SourcesAnnounced
    BY DEF StreamInv, SourcesRight, SourcesAnnounced, Shown, Sent, Kinds, ToSet
  <1> QED
    BY StreamInvariance, <1>1, PTL

(***************************************************************************)
(* The text of the deltas.                                                 *)
(***************************************************************************)

\* The texts of the first events.
PrefixTexts(g, ss) ==
    /\ g \in [0 .. Len(ss) -> Seq(Char)]
    /\ g[0] = <<>>
    /\ \A i \in 1 .. Len(ss) : g[i] = g[i - 1] \o ss[i]

\* There is one such sequence of texts.
LEMMA OnePrefix ==
    ASSUME NEW ss \in Seq(Seq(Char)), NEW g, NEW h, PrefixTexts(g, ss), PrefixTexts(h, ss)
    PROVE  g[Len(ss)] = h[Len(ss)]
  <1> DEFINE T == {n \in Nat : n <= Len(ss) => g[n] = h[n]}
  <1>1. Len(ss) \in Nat
    BY LenProperties
  <1>2. ASSUME NEW n \in Nat, \A m \in 0 .. n - 1 : m \in T PROVE n \in T
    <2>1. CASE n = 0
      BY <2>1 DEF PrefixTexts
    <2>2. CASE n > 0
      <3> SUFFICES ASSUME n <= Len(ss) PROVE g[n] = h[n]
        OBVIOUS
      <3>1. n \in 1 .. Len(ss) /\ n - 1 \in 0 .. n - 1
        BY <1>1, <2>2
      <3>2. g[n - 1] = h[n - 1]
        BY <1>1, <1>2, <3>1
      <3> QED
        BY <3>1, <3>2 DEF PrefixTexts
    <2> QED
      BY <2>1, <2>2
  <1>3. \A n \in Nat : n \in T
    <2> HIDE DEF T
    <2> QED
      BY <1>2, NatInd
  <1> QED
    BY <1>1, <1>3

\* The last of them is the whole text.
LEMMA Flat ==
    ASSUME NEW ss \in Seq(Seq(Char))
    PROVE  \E g : PrefixTexts(g, ss) /\ FlattenSeq(ss) = g[Len(ss)]
  <1>1. Len(ss) \in Nat /\ \A i \in 1 .. Len(ss) : ss[i] \in Seq(Char)
    BY LenProperties
  <1>2. CASE Len(ss) = 0
    <2> DEFINE g == [i \in 0 .. 0 |-> <<>>]
    <2>1. ss = <<>> /\ FlattenSeq(ss) = <<>>
      BY <1>2, EmptySeq DEF FlattenSeq
    <2>2. <<>> \in Seq(Char)
      BY EmptySeq
    <2>3. PrefixTexts(g, ss)
      BY <1>2, <2>2 DEF PrefixTexts
    <2> QED
      BY <1>2, <2>1, <2>3
  <1>3. CASE Len(ss) # 0
    <2> DEFINE n == Len(ss)
               S == 1 .. n
               size == [i \in S |-> i]
               next == [i \in S |-> IF i = 1 THEN 1 ELSE i - 1]
               base == [i \in S |-> ss[i]]
               comb == [i \in S |-> [t \in Seq(Char) |-> t \o ss[i]]]
               V == Seq(Char)
               Is(f) == f = [i \in S |-> IF i = 1 THEN ss[i] ELSE f[i - 1] \o ss[i]]
    <2>1. \E f \in [S -> V] : Equation(f, S, {1}, next, base, comb)
      <3>1. /\ {1} \in SUBSET S /\ size \in [S -> Nat] /\ next \in [S -> S]
            /\ \A x \in S \ {1} : size[next[x]] < size[x]
        BY <1>1, <1>3
      <3>2. base \in [S -> V]
        BY <1>1
      <3>3. comb \in [S -> [V -> V]]
        <4>1. ASSUME NEW i \in S, NEW t \in V PROVE t \o ss[i] \in V
          <5>1. ss[i] \in Seq(Char)
            BY <1>1
          <5> QED
            BY <5>1, Both
        <4> QED
          BY <4>1
      <3> HIDE DEF S, V, size, next, base, comb
      <3> QED
        BY <3>1, <3>2, <3>3, Recursion
    <2>2. PICK f \in [S -> V] : Equation(f, S, {1}, next, base, comb)
      BY <2>1
    <2>3. Is(f)
      <3>1. ASSUME NEW i \in S
            PROVE  f[i] = IF i = 1 THEN ss[i] ELSE f[i - 1] \o ss[i]
        <4>1. f[i] = IF i \in {1} THEN base[i] ELSE comb[i][f[next[i]]]
          BY <2>2 DEF Equation
        <4>2. CASE i = 1
          BY <4>1, <4>2
        <4>3. CASE i # 1
          <5>1. next[i] = i - 1 /\ i - 1 \in S
            BY <1>1, <4>3
          <5>2. f[i - 1] \in V
            BY <2>2, <5>1
          <5>3. comb[i][f[i - 1]] = f[i - 1] \o ss[i]
            BY <5>2
          <5> QED
            BY <4>1, <4>3, <5>1, <5>3
        <4> QED
          BY <4>2, <4>3
      <3> QED
        BY <3>1
    <2> DEFINE F == CHOOSE h : Is(h)
    <2>4. FlattenSeq(ss) = F[n]
      BY <1>3 DEF FlattenSeq
    <2>5. Is(F)
      <3> HIDE DEF Is
      <3> QED
        BY <2>3
    <2> HIDE DEF F
    <2> DEFINE g == [i \in 0 .. n |-> IF i = 0 THEN <<>> ELSE f[i]]
               T == {k \in Nat : k \in S => F[k] = f[k]}
    <2>6. ASSUME NEW k \in Nat, \A m \in 0 .. k - 1 : m \in T PROVE k \in T
      <3> SUFFICES ASSUME k \in S PROVE F[k] = f[k]
        OBVIOUS
      <3>1. /\ F[k] = IF k = 1 THEN ss[k] ELSE F[k - 1] \o ss[k]
            /\ f[k] = IF k = 1 THEN ss[k] ELSE f[k - 1] \o ss[k]
        BY <2>3, <2>5
      <3>2. k # 1 => k - 1 \in S /\ k - 1 \in 0 .. k - 1
        BY <1>1
      <3> QED
        BY <2>6, <3>1, <3>2
    <2>7. \A k \in Nat : k \in T
      <3> HIDE DEF T
      <3> QED
        BY <2>6, NatInd
    <2>8. F[n] = f[n] /\ g[n] = f[n]
      <3>1. n \in S /\ n \in Nat /\ n \in 0 .. n
        BY <1>1, <1>3
      <3>2. n \in T
        BY <2>7, <3>1
      <3> QED
        BY <1>3, <3>1, <3>2
    <2>9. PrefixTexts(g, ss)
      <3>1. <<>> \in Seq(Char)
        BY EmptySeq
      <3>2. g \in [0 .. n -> Seq(Char)]
        BY <1>1, <3>1
      <3>3. ASSUME NEW i \in 1 .. n PROVE g[i] = g[i - 1] \o ss[i]
        <4>1. g[i] = f[i] /\ ss[i] \in Seq(Char)
          BY <1>1
        <4>2. f[i] = IF i = 1 THEN ss[i] ELSE f[i - 1] \o ss[i]
          BY <2>3
        <4>3. CASE i = 1
          <5>1. g[i - 1] = <<>> /\ <<>> \o ss[i] = ss[i]
            BY <1>1, <4>1, <4>3, ConcatEmptySeq
          <5> QED
            BY <4>1, <4>2, <4>3, <5>1
        <4>4. CASE i # 1
          <5>1. g[i - 1] = f[i - 1]
            BY <1>1, <4>4
          <5> QED
            BY <4>1, <4>2, <4>4, <5>1
        <4> QED
          BY <4>3, <4>4
      <3>4. g[0] = <<>>
        BY <1>1
      <3> HIDE DEF g
      <3> QED
        BY <3>2, <3>3, <3>4 DEF PrefixTexts
    <2> HIDE DEF g
    <2> QED
      BY <2>4, <2>8, <2>9
  <1> QED
    BY <1>2, <1>3

\* Its first text and its last.
LEMMA PrefixTypes ==
    ASSUME NEW ss \in Seq(Seq(Char)), NEW g, PrefixTexts(g, ss)
    PROVE  /\ g \in [0 .. Len(ss) -> Seq(Char)] /\ g[0] = <<>>
           /\ g[Len(ss)] \in Seq(Char) /\ Len(ss) \in Nat
  <1>1. Len(ss) \in Nat
    BY LenProperties
  <1>2. g \in [0 .. Len(ss) -> Seq(Char)] /\ g[0] = <<>>
    BY DEF PrefixTexts
  <1>3. Len(ss) \in 0 .. Len(ss)
    BY <1>1
  <1> QED
    BY <1>1, <1>2, <1>3

\* The text of two sequences is that of the first and that of the second.
LEMMA FlattenJoined ==
    ASSUME NEW ss \in Seq(Seq(Char)), NEW tt \in Seq(Seq(Char))
    PROVE  /\ FlattenSeq(ss) \in Seq(Char) /\ FlattenSeq(tt) \in Seq(Char)
           /\ FlattenSeq(ss \o tt) = FlattenSeq(ss) \o FlattenSeq(tt)
  <1>1. PICK uu \in Seq(Seq(Char)) : uu = ss \o tt
    BY Both
  <1>2. /\ Len(uu) = Len(ss) + Len(tt) /\ Len(ss) \in Nat /\ Len(tt) \in Nat
        /\ \A i \in 1 .. Len(ss) : uu[i] = ss[i]
        /\ \A i \in 1 .. Len(tt) : uu[Len(ss) + i] = tt[i]
    BY <1>1, Both
  <1>3. PICK f : PrefixTexts(f, ss) /\ FlattenSeq(ss) = f[Len(ss)]
    BY Flat
  <1>4. PICK g : PrefixTexts(g, tt) /\ FlattenSeq(tt) = g[Len(tt)]
    BY Flat
  <1>5. PICK h : PrefixTexts(h, uu) /\ FlattenSeq(uu) = h[Len(uu)]
    BY Flat
  <1>6. PICK m \in Nat, n \in Nat : m = Len(ss) /\ n = Len(tt)
    BY <1>2
  <1> DEFINE c == [i \in 0 .. m + n |-> IF i <= m THEN f[i] ELSE f[m] \o g[i - m]]
  <1>7. /\ f \in [0 .. m -> Seq(Char)] /\ f[0] = <<>>
        /\ g \in [0 .. n -> Seq(Char)] /\ g[0] = <<>>
        /\ f[m] \in Seq(Char) /\ g[n] \in Seq(Char)
    BY <1>3, <1>4, <1>6, PrefixTypes
  <1>8. Len(uu) = m + n
    BY <1>2, <1>6
  <1>9. \A i \in 0 .. n : f[m] \o g[i] \in Seq(Char) /\ c[m + i] = f[m] \o g[i]
    <2> SUFFICES ASSUME NEW i \in 0 .. n
                 PROVE  f[m] \o g[i] \in Seq(Char) /\ c[m + i] = f[m] \o g[i]
      OBVIOUS
    <2>1. f[m] \o g[i] \in Seq(Char)
      <3>1. g[i] \in Seq(Char)
        BY <1>7
      <3> QED
        BY <1>7, <3>1, Both
    <2>2. CASE i = 0
      <3>1. f[m] \o <<>> = f[m]
        BY <1>7, ConcatEmptySeq
      <3>2. c[m + i] = f[m]
        BY <1>2, <2>2
      <3> QED
        BY <1>7, <2>1, <2>2, <3>1, <3>2
    <2>3. CASE i > 0
      <3>1. m + i \in 0 .. m + n /\ ~(m + i <= m) /\ (m + i) - m = i
        BY <1>2, <2>3
      <3> QED
        BY <2>1, <3>1
    <2>4. i = 0 \/ i > 0
      OBVIOUS
    <2> QED
      BY <2>2, <2>3, <2>4, Zenon
  <1>10. PrefixTexts(c, uu)
    <2>1. ASSUME NEW i \in 0 .. m + n PROVE c[i] \in Seq(Char)
      <3>1. CASE i <= m
        <4>1. i \in 0 .. m
          BY <1>2, <3>1
        <4> QED
          BY <1>7, <3>1, <4>1
      <3>2. CASE i > m
        <4>1. i - m \in 0 .. n /\ m + (i - m) = i
          BY <1>2, <3>2
        <4>2. c[m + (i - m)] \in Seq(Char)
          BY <1>9, <4>1
        <4> QED
          BY <4>1, <4>2
      <3>3. i <= m \/ i > m
        OBVIOUS
      <3> QED
        BY <3>1, <3>2, <3>3, Zenon
    <2>2. c[0] = <<>>
      BY <1>2, <1>7
    <2>3. ASSUME NEW i \in 1 .. m + n PROVE c[i] = c[i - 1] \o uu[i]
      <3>1. CASE i <= m
        <4>1. c[i] = f[i] /\ c[i - 1] = f[i - 1] /\ i \in 1 .. m
          BY <1>2, <3>1
        <4>2. f[i] = f[i - 1] \o ss[i] /\ uu[i] = ss[i]
          BY <1>2, <1>6, <1>3, <4>1 DEF PrefixTexts
        <4> QED
          BY <4>1, <4>2
      <3>2. CASE i > m
        <4>1. PICK k \in 1 .. n : i = m + k /\ k \in 0 .. n /\ k - 1 \in 0 .. n
                                  /\ i - 1 = m + (k - 1)
          <5>1. /\ i - m \in 1 .. n /\ i = m + (i - m) /\ i - m \in 0 .. n
                /\ (i - m) - 1 \in 0 .. n /\ i - 1 = m + ((i - m) - 1)
            BY <1>2, <3>2
          <5> QED
            BY <5>1
        <4>2. c[i] = f[m] \o g[k] /\ c[i - 1] = f[m] \o g[k - 1]
          BY <1>9, <4>1
        <4>3. g[k] = g[k - 1] \o tt[k] /\ uu[i] = tt[k]
          BY <1>2, <1>6, <1>4, <4>1 DEF PrefixTexts
        <4>4. PICK x \in Seq(Char), y \in Seq(Char), z \in Seq(Char) :
                 x = f[m] /\ y = g[k - 1] /\ z = tt[k]
          <5>1. tt[k] \in Seq(Char)
            <6>1. k \in 1 .. Len(tt)
              BY <1>6
            <6> QED
              BY <6>1, ElementOfSeq
          <5>2. g[k - 1] \in Seq(Char)
            BY <1>7, <4>1
          <5> QED
            BY <1>7, <5>1, <5>2
        <4>5. Associate(x, y, z)
          BY Grouped
        <4> HIDE DEF c
        <4> QED
          BY <4>2, <4>3, <4>4, <4>5 DEF Associate
      <3>3. i <= m \/ i > m
        OBVIOUS
      <3> QED
        BY <3>1, <3>2, <3>3, Zenon
    <2>4. c \in [0 .. m + n -> Seq(Char)]
      BY <2>1
    <2> HIDE DEF c
    <2> QED
      BY <1>8, <2>2, <2>3, <2>4 DEF PrefixTexts
  <1>11. c[Len(uu)] = f[m] \o g[n]
    <2>1. n \in 0 .. n
      OBVIOUS
    <2>2. c[m + n] = f[m] \o g[n]
      BY <1>9, <2>1
    <2> QED
      BY <1>8, <2>2
  <1>12. h[Len(uu)] = c[Len(uu)]
    <2> HIDE DEF c
    <2> QED
      BY <1>5, <1>10, OnePrefix
  <1> QED
    BY <1>1, <1>3, <1>4, <1>5, <1>7, <1>11, <1>12, <1>6

\* Events whose deltas are texts.
Spoken(es) == \A e \in ToSet(es) : e.event = "delta" => e.payload \in Seq(Char)

\* What an event adds to the text.
Piece(e) == IF e.event = "delta" THEN e.payload ELSE <<>>
PieceTexts(es) == [i \in DOMAIN es |-> Piece(es[i])]

\* Their texts.
LEMMA PiecesAreTexts ==
    ASSUME NEW es, IsSeq(es), Spoken(es)
    PROVE  /\ PieceTexts(es) \in Seq(Seq(Char)) /\ Len(PieceTexts(es)) = Len(es)
           /\ \A i \in 1 .. Len(es) : PieceTexts(es)[i] = Piece(es[i])
           /\ DeltaText(es) = FlattenSeq(PieceTexts(es))
  <1>1. Len(es) \in Nat /\ DOMAIN es = 1 .. Len(es)
    BY LenProperties DEF IsSeq
  <1>2. <<>> \in Seq(Char)
    BY EmptySeq
  <1>3. \A i \in 1 .. Len(es) : Piece(es[i]) \in Seq(Char)
    BY <1>1, <1>2 DEF Spoken, Piece, ToSet
  <1>4. PieceTexts(es) = [i \in 1 .. Len(es) |-> Piece(es[i])]
    BY <1>1 DEF PieceTexts
  <1>5. DeltaText(es) = FlattenSeq(PieceTexts(es))
    BY DEF DeltaText, PieceTexts, Piece
  <1>6. PieceTexts(es) \in Seq(Seq(Char)) /\ Len(PieceTexts(es)) = Len(es)
    BY <1>1, <1>3, <1>4
  <1> QED
    BY <1>4, <1>5, <1>6

\* The text of two sequences of events.
LEMMA TextJoined ==
    ASSUME NEW s, NEW t, IsSeq(s), IsSeq(t), Spoken(s), Spoken(t)
    PROVE  /\ Spoken(s \o t)
           /\ DeltaText(s) \in Seq(Char) /\ DeltaText(t) \in Seq(Char)
           /\ DeltaText(s \o t) = DeltaText(s) \o DeltaText(t)
  <1>1. /\ IsSeq(s \o t) /\ Len(s \o t) = Len(s) + Len(t)
        /\ ToSet(s \o t) = ToSet(s) \cup ToSet(t)
        /\ Kinds(s \o t) = Kinds(s) \cup Kinds(t)
        /\ \A i \in DOMAIN s : (s \o t)[i] = s[i]
        /\ \A i \in DOMAIN t : (s \o t)[Len(s) + i] = t[i]
        /\ \A k \in DOMAIN (s \o t) :
              k \in DOMAIN s \/ \E i \in DOMAIN t : k = Len(s) + i
    BY Joined, Zenon
  <1>2. Spoken(s \o t)
    BY <1>1 DEF Spoken
  <1>3. /\ Len(s) \in Nat /\ DOMAIN s = 1 .. Len(s)
        /\ Len(t) \in Nat /\ DOMAIN t = 1 .. Len(t)
    BY LenProperties DEF IsSeq
  <1>4. PICK ss \in Seq(Seq(Char)) : ss = PieceTexts(s) /\ Len(ss) = Len(s)
                                     /\ \A i \in 1 .. Len(s) : ss[i] = Piece(s[i])
    BY PiecesAreTexts
  <1>5. PICK tt \in Seq(Seq(Char)) : tt = PieceTexts(t) /\ Len(tt) = Len(t)
                                     /\ \A i \in 1 .. Len(t) : tt[i] = Piece(t[i])
    BY PiecesAreTexts
  <1>6. PICK uu \in Seq(Seq(Char)) :
           /\ uu = PieceTexts(s \o t) /\ Len(uu) = Len(s) + Len(t)
           /\ \A i \in 1 .. Len(s) + Len(t) : uu[i] = Piece((s \o t)[i])
    BY <1>1, <1>2, PiecesAreTexts
  <1>7. PICK vv \in Seq(Seq(Char)) : vv = ss \o tt
    BY Both
  <1>8. /\ Len(vv) = Len(s) + Len(t)
        /\ \A i \in 1 .. Len(s) : vv[i] = ss[i]
        /\ \A i \in 1 .. Len(t) : vv[Len(s) + i] = tt[i]
    <2>1. /\ Len(vv) = Len(ss) + Len(tt)
          /\ \A i \in 1 .. Len(ss) : vv[i] = ss[i]
          /\ \A i \in 1 .. Len(tt) : vv[Len(ss) + i] = tt[i]
      BY <1>7, Both
    <2> QED
      BY <1>4, <1>5, <2>1
  <1>9. ASSUME NEW i \in 1 .. Len(uu) PROVE uu[i] = vv[i]
    <2>1. uu[i] = Piece((s \o t)[i])
      BY <1>6
    <2>2. CASE i <= Len(s)
      <3>1. i \in 1 .. Len(s)
        BY <1>3, <1>6, <2>2
      <3> QED
        BY <1>1, <1>3, <1>4, <1>8, <2>1, <3>1
    <2>3. CASE i > Len(s)
      <3>1. PICK k \in 1 .. Len(t) : i = Len(s) + k
        <4>1. i - Len(s) \in 1 .. Len(t) /\ i = Len(s) + (i - Len(s))
          BY <1>3, <1>6, <2>3
        <4> QED
          BY <4>1
      <3> QED
        BY <1>1, <1>3, <1>5, <1>8, <2>1, <3>1
    <2> QED
      BY <1>3, <1>6, <2>2, <2>3
  <1>10. uu = vv
    BY <1>6, <1>8, <1>9, SeqEqual
  <1>11. /\ DeltaText(s) = FlattenSeq(ss) /\ DeltaText(t) = FlattenSeq(tt)
         /\ DeltaText(s \o t) = FlattenSeq(uu)
    BY <1>1, <1>2, <1>4, <1>5, <1>6, PiecesAreTexts
  <1>12. /\ FlattenSeq(ss) \in Seq(Char) /\ FlattenSeq(tt) \in Seq(Char)
         /\ FlattenSeq(vv) = FlattenSeq(ss) \o FlattenSeq(tt)
    BY <1>7, FlattenJoined
  <1> QED
    BY <1>2, <1>10, <1>11, <1>12

\* Events without a delta have no text.
LEMMA Silent ==
    ASSUME NEW es, IsSeq(es), "delta" \notin Kinds(es)
    PROVE  Spoken(es) /\ DeltaText(es) = <<>>
  <1>1. Spoken(es) /\ \A e \in ToSet(es) : Piece(e) = <<>>
    BY DEF Spoken, Piece, Kinds
  <1>2. Len(es) \in Nat /\ DOMAIN es = 1 .. Len(es) /\ <<>> \in Seq(Char)
    BY LenProperties, EmptySeq DEF IsSeq
  <1>3. PICK ss \in Seq(Seq(Char)) :
           /\ ss = PieceTexts(es) /\ Len(ss) = Len(es) /\ DeltaText(es) = FlattenSeq(ss)
           /\ \A i \in 1 .. Len(es) : ss[i] = Piece(es[i])
    BY <1>1, PiecesAreTexts
  <1>4. \A i \in 1 .. Len(ss) : ss[i] = <<>>
    BY <1>1, <1>2, <1>3 DEF ToSet
  <1> DEFINE g == [i \in 0 .. Len(ss) |-> <<>>]
  <1>5. PrefixTexts(g, ss)
    <2>1. <<>> \o <<>> = <<>>
      OBVIOUS
    <2>2. \A i \in 1 .. Len(ss) : g[i] = <<>> /\ g[i - 1] = <<>>
      BY <1>2, <1>3
    <2>3. g \in [0 .. Len(ss) -> Seq(Char)] /\ g[0] = <<>>
      BY <1>2, <1>3
    <2> HIDE DEF g
    <2> QED
      BY <1>4, <2>1, <2>2, <2>3 DEF PrefixTexts
  <1>6. g[Len(ss)] = <<>>
    BY <1>2, <1>3
  <1>7. PICK h : PrefixTexts(h, ss) /\ FlattenSeq(ss) = h[Len(ss)]
    BY Flat
  <1> HIDE DEF g
  <1> QED
    BY <1>1, <1>3, <1>5, <1>6, <1>7, OnePrefix

\* A delta's text is its payload.
LEMMA TextOfDelta ==
    ASSUME NEW t \in Seq(Char)
    PROVE  Spoken(Delta(t)) /\ DeltaText(Delta(t)) = t
  <1>1. CASE t = <<>>
    <2>1. IsSeq(<<>>) /\ Kinds(<<>>) = {}
      BY NoEvent
    <2> QED
      BY <1>1, <2>1, Silent DEF Delta
  <1>2. CASE t # <<>>
    <2> DEFINE e == Event("delta", t)
    <2>1. e.event = "delta" /\ e.payload = t
      BY DEF Event
    <2> HIDE DEF e
    <2>2. IsSeq(<<e>>) /\ ToSet(<<e>>) = {e} /\ Delta(t) = <<e>>
      BY <1>2, OneEvent DEF Delta, e
    <2>3. Spoken(<<e>>)
      BY <2>1, <2>2 DEF Spoken
    <2>4. Len(<<e>>) = 1 /\ <<e>>[1] = e
      OBVIOUS
    <2>5. PICK ss \in Seq(Seq(Char)) :
             Len(ss) = 1 /\ ss[1] = t /\ DeltaText(<<e>>) = FlattenSeq(ss)
      BY <2>1, <2>2, <2>3, <2>4, PiecesAreTexts DEF Piece
    <2>6. PICK h : PrefixTexts(h, ss) /\ FlattenSeq(ss) = h[Len(ss)]
      BY Flat
    <2>7. h[0] = <<>> /\ h[1] = h[1 - 1] \o ss[1]
      BY <2>5, <2>6 DEF PrefixTexts
    <2>8. <<>> \o t = t
      BY ConcatEmptySeq
    <2>9. DeltaText(<<e>>) = h[1]
      BY <2>5, <2>6
    <2>10. 1 - 1 = 0
      OBVIOUS
    <2>11. h[1] = t
      BY <2>5, <2>7, <2>8, <2>10, Zenon
    <2> QED
      BY <2>2, <2>3, <2>9, <2>11, Zenon
  <1> QED
    BY <1>1, <1>2

(***************************************************************************)
(* The invariant about the text.                                           *)
(***************************************************************************)

\* The text sent and on its way.
Streamed == DeltaText(frames) \o DeltaText(queue)

\* It is the answer, before the insufficient-evidence one where that follows.
Told ==
    ~TooLong(text) =>
        Streamed = IF answer.used = {} THEN Sanitize[text] \o INSUFFICIENT ELSE answer.text

\* The answer is a stored one that was not streamed and not yet replayed.
NotTold ==
    /\ emitted = 0 /\ handler # "replayed" /\ "complete" \notin Kinds(frames)
    /\ Kinds(queue) \subseteq {"_done"}
    /\ text = <<>>
    /\ answer.used = {} => answer.text = INSUFFICIENT

\* The shapes, in terms of texts and sets of kinds.
TextShape ==
    /\ Kinds(frames) \subseteq {"retrieving", "citation", "delta", "complete", "error"}
    /\ emitted <= Len(frames)
    /\ committed \in BOOLEAN /\ called \in BOOLEAN
    /\ text \in Text /\ Len(text) <= MaxText
    /\ pending \in Text /\ Len(pending) <= Patience
    /\ answer.text \in Text
    /\ Spoken(frames) /\ Spoken(queue)

\* While the model answers, what was put out is right whatever it still says; from
\* then on it is what the answer will be.
TextRight ==
    /\ task \in {"none", "asking", "retrieving"} => text = <<>> /\ pending = <<>>
    /\ task = "streaming" => Right(text, [out |-> Streamed, pending |-> pending])
    /\ task = "finishing" => Told
    /\ outcome = "answer" => Told \/ NotTold
    /\ "complete" \in Kinds(frames) => called /\ queue = <<>>

TextInv == TextShape /\ TextRight

\* The empty text and the one that replaces an answer.
LEMMA FixedTexts ==
    /\ <<>> \in Text /\ Len(<<>>) <= MaxText /\ Len(<<>>) <= Patience
    /\ INSUFFICIENT \in Text
  <1>1. <<>> \in Text /\ Len(<<>>) = 0
    BY EmptySeq DEF Text
  <1>2. MaxText \in Nat /\ Patience \in Nat /\ INSUFFICIENT \in Text
    BY StreamAssumption, FilterAssumption
  <1> QED
    BY <1>1, <1>2

\* Sanitizing gives a text.
LEMMA AnswerText == \A t \in Text : Answer(t).text \in Text /\ Sanitize[t] \in Text
  BY SanitizeUnfolds DEF Answer

\* It holds when the request arrives.
LEMMA TextInit == Init => TextInv
  <1> SUFFICES ASSUME Init PROVE TextInv
    OBVIOUS
  <1>1. IsSeq(<<>>) /\ Kinds(<<>>) = {} /\ Spoken(<<>>)
    BY NoEvent, Silent
  <1>2. TextShape
    <2>1. answer.text = <<>>
      BY DEF Init, Answer
    <2>2. Spoken(frames) /\ Spoken(queue) /\ Kinds(frames) = {}
      BY <1>1 DEF Init
    <2>3. emitted = 0 /\ Len(frames) = 0
      BY DEF Init
    <2>4. text = <<>> /\ pending = <<>> /\ committed \in BOOLEAN /\ called \in BOOLEAN
      BY DEF Init
    <2> QED
      BY <2>1, <2>2, <2>3, <2>4, FixedTexts DEF TextShape
  <1>3. TextRight
    BY <1>1 DEF Init, TextRight
  <1> QED
    BY <1>2, <1>3 DEF TextInv

\* It is about texts.
LEMMA TextType == StreamInv /\ TextInv => Streamed \in Seq(Char)
  <1> SUFFICES ASSUME StreamInv, TextInv PROVE Streamed \in Seq(Char)
    OBVIOUS
  <1>1. IsSeq(frames) /\ IsSeq(queue) /\ Spoken(frames) /\ Spoken(queue)
    BY DEF StreamInv, Shape, TextInv, TextShape
  <1>2. DeltaText(frames) \in Seq(Char) /\ DeltaText(queue) \in Seq(Char)
    BY <1>1, TextJoined
  <1> QED
    BY <1>2, Both DEF Streamed

\* Events that go into the queue.
LEMMA TextQueued ==
    ASSUME StreamInv, TextInv, NEW es, IsSeq(es), Spoken(es), Emit(es), UNCHANGED frames
    PROVE  /\ Spoken(queue') /\ Streamed \in Seq(Char) /\ DeltaText(es) \in Seq(Char)
           /\ Streamed' = Streamed \o DeltaText(es)
  <1>1. IsSeq(queue) /\ IsSeq(frames) /\ Spoken(queue) /\ Spoken(frames)
    BY DEF StreamInv, Shape, TextInv, TextShape
  <1>2. queue' = queue \o es
    BY DEF Emit
  <1>3. PICK f \in Seq(Char), q \in Seq(Char), e \in Seq(Char) :
           f = DeltaText(frames) /\ q = DeltaText(queue) /\ e = DeltaText(es)
    BY <1>1, TextJoined
  <1>4. Spoken(queue') /\ DeltaText(queue') = q \o e
    BY <1>1, <1>2, <1>3, TextJoined
  <1>5. Associate(f, q, e) /\ f \o q \in Seq(Char)
    BY Grouped, Both
  <1> QED
    BY <1>3, <1>4, <1>5 DEF Streamed, Associate

\* Frames that are sent when the queue is empty.
LEMMA TextSent ==
    ASSUME StreamInv, TextInv, NEW es, IsSeq(es), Spoken(es), Send(es),
           queue = <<>>, UNCHANGED queue
    PROVE  /\ Spoken(frames') /\ Streamed \in Seq(Char) /\ DeltaText(es) \in Seq(Char)
           /\ Streamed' = Streamed \o DeltaText(es)
           /\ Streamed = DeltaText(frames) /\ Streamed' = DeltaText(frames')
           /\ Len(frames') >= Len(frames)
  <1>1. IsSeq(frames) /\ Spoken(frames)
    BY DEF StreamInv, Shape, TextInv, TextShape
  <1>2. frames' = frames \o es
    BY DEF Send
  <1>3. PICK f \in Seq(Char), e \in Seq(Char) : f = DeltaText(frames) /\ e = DeltaText(es)
    BY <1>1, TextJoined
  <1>4. Spoken(frames') /\ DeltaText(frames') = f \o e
    BY <1>1, <1>2, <1>3, TextJoined
  <1>5. DeltaText(queue) = <<>> /\ f \o e \in Seq(Char)
    BY NoEvent, Silent, Both
  <1>6. f \o <<>> = f /\ (f \o e) \o <<>> = f \o e
    BY <1>5, ConcatEmptySeq
  <1>7. Len(frames') = Len(frames) + Len(es) /\ Len(frames) \in Nat /\ Len(es) \in Nat
    <2>1. Len(frames \o es) = Len(frames) + Len(es)
      BY <1>1, Joined
    <2>2. Len(frames) \in Nat /\ Len(es) \in Nat
      BY <1>1, LenProperties DEF IsSeq
    <2> QED
      BY <1>2, <2>1, <2>2
  <1>8. DeltaText(queue') = <<>>
    BY <1>5
  <1>9. Streamed = f /\ Streamed' = f \o e
    BY <1>3, <1>4, <1>5, <1>6, <1>8 DEF Streamed
  <1>10. Len(frames') >= Len(frames)
    BY <1>7
  <1> QED
    BY <1>3, <1>4, <1>9, <1>10

\* The steps of the task.
LEMMA TextOfTask ==
    ASSUME StreamInv, TextInv, TaskStep \/ TaskFails \/ DoneCallback
    PROVE  TextInv'
  <1> USE DEF TextInv
  <1>1. CASE Ask
    <2>1. /\ task = "asking" /\ queue = <<>> /\ emitted = 0 /\ text = <<>> /\ pending = <<>>
          /\ Kinds(queue) = {} /\ handler # "replayed" /\ "complete" \notin Kinds(frames)
      BY <1>1, NoEvent DEF Ask, StreamInv, Shape, QueueRight, CompleteRight, TextRight
    <2>2. UNCHANGED <<handler, frames, emitted, text, pending, queue, called>>
      BY <1>1 DEF Ask, generator
    <2>3. \/ task' = "retrieving" /\ UNCHANGED <<outcome, answer, committed>>
          \/ /\ task' = "done" /\ outcome' = "answer" /\ committed' = TRUE
             /\ answer' \in StoredAnswers
          \/ /\ task' = "done" /\ outcome' \in {"app_error", "error"}
             /\ UNCHANGED <<answer, committed>>
      BY <1>1 DEF Ask, EndTask, result
    <2>4. TextShape'
      BY <2>2, <2>3, StreamAssumption DEF TextShape
    <2>5. outcome' = "answer" => NotTold'
      <3> SUFFICES ASSUME outcome' = "answer" PROVE NotTold'
        OBVIOUS
      <3>1. answer' \in StoredAnswers
        BY <1>1, <2>3 DEF Ask, StreamInv, Shape
      <3>2. answer'.used = {} => answer'.text = INSUFFICIENT
        BY <3>1, StreamAssumption
      <3> QED
        BY <2>1, <2>2, <3>2 DEF NotTold
    <2>6. TextRight'
      BY <2>1, <2>2, <2>3, <2>5 DEF TextRight
    <2> QED
      BY <2>4, <2>6
  <1>2. CASE Retrieve
    <2>1. /\ task = "retrieving" /\ queue = <<>> /\ text = <<>> /\ pending = <<>>
          /\ "delta" \notin Kinds(frames) /\ "complete" \notin Kinds(frames)
          /\ outcome # "answer" /\ IsSeq(frames)
      BY <1>2 DEF Retrieve, StreamInv, Shape, QueueRight, CompleteRight, TextRight
    <2>2. UNCHANGED <<handler, frames, emitted, text, pending, outcome, committed, called>>
      BY <1>2 DEF Retrieve, generator
    <2>3. Streamed = <<>>
      <3>1. DeltaText(frames) = <<>> /\ DeltaText(queue) = <<>>
        BY <2>1, NoEvent, Silent
      <3>2. <<>> \o <<>> = <<>>
        OBVIOUS
      <3> QED
        BY <3>1, <3>2 DEF Streamed
    <2>4. CASE task' = "streaming" /\ Emit(Citations(Evidence)) /\ UNCHANGED answer
      <3>1. /\ IsSeq(Citations(Evidence)) /\ Spoken(Citations(Evidence))
            /\ DeltaText(Citations(Evidence)) = <<>>
        <4>1. /\ IsSeq(Citations(Evidence))
              /\ Kinds(Citations(Evidence)) \subseteq {"citation"}
          BY FilterAssumption, CitationEvents
        <4> QED
          BY <4>1, Silent
      <3>2. Spoken(queue') /\ Streamed' = Streamed \o <<>>
        BY <2>2, <2>4, <3>1, TextQueued
      <3>3. Streamed' = <<>>
        BY <2>3, <3>2
      <3>4. TextShape'
        BY <2>2, <2>4, <3>2 DEF TextShape
      <3>5. Right(text', [out |-> Streamed', pending |-> pending'])
        BY <2>1, <2>2, <3>3, NothingFed, Zenon
      <3>6. TextRight'
        BY <2>1, <2>2, <2>4, <3>5 DEF TextRight
      <3> QED
        BY <3>4, <3>6
    <2>5. CASE /\ task' = "finishing" /\ answer' = Answer(INSUFFICIENT)
               /\ Emit(Delta(INSUFFICIENT))
      <3>1. INSUFFICIENT \in Seq(Char)
        BY FixedTexts DEF Text
      <3>2. Spoken(Delta(INSUFFICIENT)) /\ DeltaText(Delta(INSUFFICIENT)) = INSUFFICIENT
        BY <3>1, TextOfDelta
      <3>3. Spoken(queue') /\ Streamed' = Streamed \o INSUFFICIENT
        BY <2>2, <2>5, <3>2, DeltaEvents, TextQueued
      <3>4. TextShape'
        BY <2>2, <2>5, <3>3, FixedTexts, AnswerText DEF TextShape
      <3>5. Told'
        <4>1. Sanitize[text'] = <<>>
          BY <2>1, <2>2, SanitizeUnfolds
        <4>2. answer'.used = {}
          BY <2>5, InsufficientUsesNothing
        <4> QED
          BY <2>3, <3>3, <4>1, <4>2 DEF Told
      <3>6. TextRight'
        BY <2>1, <2>2, <2>5, <3>5 DEF TextRight
      <3> QED
        BY <3>4, <3>6
    <2> QED
      BY <1>2, <2>4, <2>5 DEF Retrieve
  <1>3. CASE Generate
    <2>1. PICK delta \in Deltas :
             /\ Len(text) + Len(delta) <= MaxText
             /\ text' = text \o delta
             /\ pending' = Feed(pending, delta).pending
             /\ Emit(Delta(Feed(pending, delta).out))
      BY <1>3 DEF Generate
    <2>2. /\ task = "streaming"
          /\ UNCHANGED <<handler, frames, emitted, task, outcome, answer, committed, called>>
      BY <1>3 DEF Generate, generator, result
    <2>3. outcome # "answer" /\ "complete" \notin Kinds(frames)
      BY <2>2 DEF StreamInv, Shape, CompleteRight
    <2>4. delta \in Text /\ text \in Text /\ pending \in Text
      BY StreamAssumption DEF TextShape
    <2>5. Right(text, [out |-> Streamed, pending |-> pending])
      BY <2>2 DEF TextRight
    <2>6. Streamed \in Text
      BY TextType DEF Text
    <2>7. Right(text', [out |-> Streamed \o Feed(pending, delta).out, pending |-> pending'])
      BY <2>1, <2>4, <2>5, <2>6, FeedIsRight
    <2>8. PICK o \in Seq(Char) : o = Feed(pending, delta).out
      <3>1. pending \o delta \in Text
        BY <2>4, Both DEF Text
      <3> QED
        BY <3>1, DrainIsRight DEF Feed, Right
    <2>9. Spoken(Delta(o)) /\ DeltaText(Delta(o)) = o /\ IsSeq(Delta(o))
      BY TextOfDelta, DeltaEvents
    <2>10. Spoken(queue') /\ Streamed' = Streamed \o o
      BY <2>1, <2>2, <2>8, <2>9, TextQueued
    <2>11. Right(text', [out |-> Streamed', pending |-> pending'])
      BY <2>7, <2>8, <2>10
    <2>12. text' \in Text /\ Len(text') <= MaxText
      BY <2>1, <2>4, Both DEF Text
    <2>13. pending' \in Text /\ Len(pending') <= Patience
      BY <2>11 DEF Right, Text
    <2>14. TextShape'
      BY <2>2, <2>10, <2>12, <2>13 DEF TextShape
    <2>15. TextRight'
      BY <2>2, <2>3, <2>11 DEF TextRight
    <2> QED
      BY <2>14, <2>15
  <1>4. CASE EndGeneration
    <2>1. /\ task = "streaming" /\ task' = "finishing" /\ pending' = <<>>
          /\ UNCHANGED <<handler, frames, emitted, text, outcome, committed, called>>
      BY <1>4 DEF EndGeneration, generator
    <2>2. outcome # "answer" /\ "complete" \notin Kinds(frames) /\ text \in Text
          /\ pending \in Seq(Char) /\ INSUFFICIENT \in Seq(Char)
      BY <2>1, FixedTexts DEF StreamInv, Shape, CompleteRight, TextShape, Text
    <2>3. PICK raw \in Text : raw = Sanitize[text]
      BY <2>2, AnswerText
    <2>4. /\ IsSeq(Delta(pending)) /\ Spoken(Delta(pending))
          /\ DeltaText(Delta(pending)) = pending
          /\ IsSeq(Delta(INSUFFICIENT)) /\ Spoken(Delta(INSUFFICIENT))
          /\ DeltaText(Delta(INSUFFICIENT)) = INSUFFICIENT
      BY <2>2, TextOfDelta, DeltaEvents
    <2>5. Streamed \in Seq(Char)
      BY TextType
    <2>6. ~TooLong(text) => raw = Streamed \o pending
      <3>1. Right(text, [out |-> Streamed, pending |-> pending])
        BY <2>1 DEF TextRight
      <3> QED
        BY <2>2, <2>3, <2>5, <3>1, FilterIsSanitize DEF Text
    <2>7. CASE Used(raw) # {} /\ answer' = Answer(raw) /\ Emit(Delta(pending))
      <3>1. Spoken(queue') /\ Streamed' = Streamed \o pending
        BY <2>1, <2>4, <2>7, TextQueued
      <3>2. answer'.used # {} /\ answer'.text = raw
        BY <2>7 DEF Answer
      <3>3. Told'
        BY <2>1, <2>6, <3>1, <3>2 DEF Told
      <3>4. TextShape'
        BY <2>1, <2>3, <3>1, <3>2, FixedTexts DEF TextShape
      <3>5. TextRight'
        BY <2>1, <2>2, <3>3 DEF TextRight
      <3> QED
        BY <3>4, <3>5
    <2>8. CASE /\ answer' = Answer(INSUFFICIENT)
               /\ Emit(Delta(pending) \o Delta(INSUFFICIENT))
      <3>1. PICK es : es = Delta(pending) \o Delta(INSUFFICIENT)
        OBVIOUS
      <3>2. IsSeq(es) /\ Spoken(es) /\ DeltaText(es) = pending \o INSUFFICIENT
        BY <2>4, <3>1, Joined, TextJoined
      <3>3. Spoken(queue') /\ Streamed' = Streamed \o (pending \o INSUFFICIENT)
        BY <2>1, <2>8, <3>1, <3>2, TextQueued
      <3>4. Associate(Streamed, pending, INSUFFICIENT)
        BY <2>2, <2>5, Grouped
      <3>5. answer'.used = {} /\ answer'.text \in Text
        BY <2>8, InsufficientUsesNothing, AnswerText, FixedTexts
      <3>6. ~TooLong(text) => Streamed' = raw \o INSUFFICIENT
        BY <2>6, <3>3, <3>4 DEF Associate
      <3>7. Told'
        BY <2>1, <2>3, <3>5, <3>6 DEF Told
      <3>8. TextShape'
        BY <2>1, <3>3, <3>5, FixedTexts DEF TextShape
      <3>9. TextRight'
        BY <2>1, <2>2, <3>7 DEF TextRight
      <3> QED
        BY <3>8, <3>9
    <2> QED
      BY <1>4, <2>3, <2>7, <2>8 DEF EndGeneration
  <1>5. CASE Finish
    <2>1. /\ task = "finishing" /\ task' = "done" /\ outcome' = "answer" /\ committed' = TRUE
          /\ UNCHANGED <<handler, frames, emitted, text, pending, answer, queue, called>>
      BY <1>5 DEF Finish, EndTask, Stored, generator
    <2>2. Told'
      BY <2>1 DEF TextRight, Told, Streamed
    <2>3. TextShape'
      BY <2>1 DEF TextShape
    <2>4. TextRight'
      BY <2>1, <2>2 DEF TextRight
    <2> QED
      BY <2>3, <2>4
  <1>6. CASE TaskFails
    <2>1. /\ task \in {"retrieving", "streaming", "finishing"}
          /\ task' = "done" /\ outcome' # "answer" /\ committed' \in BOOLEAN
          /\ UNCHANGED <<handler, frames, emitted, text, pending, answer, queue, called>>
      BY <1>6 DEF TaskFails, EndTask, generator
    <2>2. TextShape' /\ TextRight'
      BY <2>1 DEF TextShape, TextRight
    <2> QED
      BY <2>2
  <1>7. CASE DoneCallback
    <2> DEFINE es == <<Event("_done", <<>>)>>
    <2>1. IsSeq(es) /\ Kinds(es) = {"_done"}
      BY OneEvent DEF Event
    <2>2. Spoken(es) /\ DeltaText(es) = <<>>
      BY <2>1, Silent
    <2>3. /\ task = "done" /\ called' = TRUE /\ Emit(es) /\ ~called
          /\ UNCHANGED <<handler, frames, emitted, task, text, pending, outcome, answer,
                         committed>>
      BY <1>7 DEF DoneCallback, CallbackDue, generator, result
    <2> HIDE DEF es
    <2>4. Spoken(queue') /\ Streamed' = Streamed \o <<>> /\ Streamed \in Seq(Char)
      BY <2>1, <2>2, <2>3, TextQueued
    <2>5. Streamed' = Streamed
      BY <2>4, ConcatEmptySeq
    <2>6. IsSeq(queue) /\ Kinds(queue') = Kinds(queue) \cup {"_done"}
      BY <2>1, <2>3, Emitted DEF StreamInv, Shape, Emit
    <2>7. TextShape'
      BY <2>3, <2>4 DEF TextShape
    <2>8. outcome' = "answer" => Told' \/ NotTold'
      <3>1. CASE outcome = "answer" /\ Told
        BY <2>3, <2>5, <3>1 DEF Told
      <3>2. CASE outcome = "answer" /\ NotTold
        BY <2>3, <2>6, <3>2 DEF NotTold
      <3> QED
        BY <2>3, <3>1, <3>2 DEF TextRight
    <2>9. TextRight'
      BY <2>3, <2>8 DEF TextRight
    <2> QED
      BY <2>7, <2>9
  <1> QED
    BY <1>1, <1>2, <1>3, <1>4, <1>5, <1>6, <1>7 DEF TaskStep

\* The steps of the generator.
LEMMA TextOfGenerator ==
    ASSUME StreamInv, TextInv, GeneratorStep \/ Disconnect
    PROVE  TextInv'
  <1> USE DEF TextInv
  <1>1. ASSUME queue = <<>>, NEW es, IsSeq(es), Send(es), outcome # "answer",
               Kinds(es) \subseteq {"retrieving", "error"},
               task \notin {"streaming", "finishing"}, task' = task,
               UNCHANGED <<emitted, text, pending, outcome, answer, committed, queue, called>>
        PROVE  TextInv'
    <2>1. Spoken(es)
      BY <1>1, Silent
    <2>2. Spoken(frames') /\ Len(frames') >= Len(frames)
      BY <1>1, <2>1, TextSent
    <2>3. Kinds(frames') = Kinds(frames) \cup Kinds(es)
      BY <1>1, Yielded DEF StreamInv, Shape
    <2>4. Len(frames) \in Nat /\ Len(frames') \in Nat /\ emitted \in Nat
      <3>1. IsSeq(frames) /\ IsSeq(frames')
        BY <1>1, Yielded DEF StreamInv, Shape
      <3> QED
        BY <3>1, LenProperties DEF IsSeq, StreamInv, Shape
    <2>5. TextShape'
      BY <1>1, <2>2, <2>3, <2>4 DEF TextShape
    <2>6. TextRight'
      BY <1>1, <2>3 DEF TextRight
    <2> QED
      BY <2>5, <2>6
  <1>2. CASE Open
    <2> DEFINE es == <<Event("retrieving", <<>>)>>
    <2>1. IsSeq(es) /\ Kinds(es) = {"retrieving"}
      BY OneEvent DEF Event
    <2> HIDE DEF es
    <2>2. Send(es) /\ handler = "start"
          /\ UNCHANGED <<emitted, task, text, pending, outcome, answer, committed, queue, called>>
      BY <1>2 DEF Open, es, result
    <2>3. task = "none" /\ queue = <<>> /\ outcome # "answer"
      BY <2>2 DEF StreamInv, Shape, QueueRight
    <2> QED
      BY <1>1, <2>1, <2>2, <2>3
  <1>3. CASE Begin
    <2>1. /\ handler = "opened"
          /\ UNCHANGED <<emitted, text, pending, outcome, answer, committed, queue, called>>
      BY <1>3 DEF Begin, result
    <2>2. task = "none" /\ queue = <<>> /\ outcome # "answer"
      BY <2>1 DEF StreamInv, Shape, QueueRight
    <2>3. CASE task' = "asking" /\ UNCHANGED frames
      <3>1. TextShape'
        BY <2>1, <2>3 DEF TextShape
      <3>2. TextRight'
        BY <2>1, <2>2, <2>3 DEF TextRight
      <3> QED
        BY <3>1, <3>2
    <2>4. CASE Send(<<Event("error", <<>>)>>) /\ UNCHANGED task
      <3> DEFINE es == <<Event("error", <<>>)>>
      <3>1. IsSeq(es) /\ Kinds(es) = {"error"}
        BY OneEvent DEF Event
      <3> HIDE DEF es
      <3>2. Send(es)
        BY <2>4 DEF es
      <3> QED
        BY <1>1, <2>1, <2>2, <2>4, <3>1, <3>2
    <2> QED
      BY <1>3, <2>3, <2>4 DEF Begin
  <1>4. CASE Relay
    <2> DEFINE e == Head(queue)
    <2>1. /\ handler = "reading" /\ queue # <<>> /\ e.event # "_done"
          /\ Send(<<e>>) /\ emitted' = emitted + 1 /\ queue' = Tail(queue)
          /\ UNCHANGED <<handler, task, text, pending, outcome, answer, committed, called>>
      BY <1>4 DEF Relay, AtEnd, result
    <2>2. /\ IsSeq(frames) /\ IsSeq(queue) /\ Spoken(frames) /\ Spoken(queue)
          /\ emitted \in Nat
      BY DEF StreamInv, Shape, TextShape
    <2>3. /\ IsSeq(<<e>>) /\ ToSet(<<e>>) = {e} /\ Kinds(<<e>>) = {e.event}
      BY OneEvent
    <2>4. /\ IsSeq(queue') /\ ToSet(queue) = {e} \cup ToSet(queue')
          /\ Kinds(queue) = {e.event} \cup Kinds(queue')
      BY <2>1, <2>2, FirstOff
    <2>5. Spoken(<<e>>) /\ Spoken(queue')
      BY <2>2, <2>3, <2>4 DEF Spoken
    <2>6. queue = <<e>> \o queue'
      <3>1. queue \in Seq(ToSet(queue))
        BY <2>2 DEF IsSeq
      <3> QED
        BY <2>1, <3>1
    <2> HIDE DEF e
    <2>7. PICK f \in Seq(Char), h \in Seq(Char), q \in Seq(Char) :
             f = DeltaText(frames) /\ h = DeltaText(<<e>>) /\ q = DeltaText(queue')
      BY <2>2, <2>3, <2>4, <2>5, TextJoined
    <2>8. DeltaText(queue) = h \o q
      BY <2>3, <2>4, <2>5, <2>6, <2>7, TextJoined
    <2>9. frames' = frames \o <<e>> /\ Spoken(frames') /\ DeltaText(frames') = f \o h
      <3>1. frames' = frames \o <<e>>
        BY <2>1 DEF Send
      <3>2. Spoken(frames \o <<e>>) /\ DeltaText(frames \o <<e>>) = f \o h
        BY <2>2, <2>3, <2>5, <2>7, TextJoined
      <3> QED
        BY <3>1, <3>2
    <2>10. Streamed' = Streamed
      <3>1. Associate(f, h, q)
        BY Grouped
      <3> QED
        BY <2>7, <2>8, <2>9, <3>1 DEF Streamed, Associate
    <2>11. /\ Kinds(frames') = Kinds(frames) \cup {e.event}
           /\ Len(frames') = Len(frames) + 1 /\ Len(frames) \in Nat
      <3>1. Kinds(frames') = Kinds(frames) \cup Kinds(<<e>>)
        BY <2>1, <2>2, <2>3, Yielded
      <3>2. Len(frames \o <<e>>) = Len(frames) + Len(<<e>>)
        BY <2>2, <2>3, Joined
      <3>3. Len(<<e>>) = 1 /\ Len(frames) \in Nat
        BY <2>2, LenProperties DEF IsSeq
      <3> QED
        BY <2>3, <2>9, <3>1, <3>2, <3>3
    <2>12. e.event \in {"citation", "delta"}
      BY <2>1, <2>4 DEF StreamInv, QueueRight
    <2>13. TextShape'
      <3>1. emitted' <= Len(frames')
        BY <2>1, <2>2, <2>11 DEF TextShape
      <3>2. Kinds(frames') \subseteq {"retrieving", "citation", "delta", "complete", "error"}
        BY <2>11, <2>12 DEF TextShape
      <3> QED
        BY <2>1, <2>5, <2>9, <3>1, <3>2 DEF TextShape
    <2>14. "complete" \notin Kinds(frames') /\ ~(Kinds(queue) \subseteq {"_done"})
      BY <2>1, <2>4, <2>11, <2>12 DEF StreamInv, CompleteRight
    <2>15. TextRight'
      <3>1. task = "finishing" => Told'
        BY <2>1, <2>10 DEF TextRight, Told
      <3>2. outcome = "answer" => Told'
        BY <2>1, <2>10, <2>14 DEF TextRight, Told, NotTold
      <3>3. task = "streaming" => Right(text', [out |-> Streamed', pending |-> pending'])
        BY <2>1, <2>10 DEF TextRight
      <3> QED
        BY <2>1, <2>14, <3>1, <3>2, <3>3 DEF TextRight
    <2> QED
      BY <2>13, <2>15
  <1>5. CASE StopReading
    <2>1. /\ handler = "reading" /\ queue # <<>> /\ Head(queue).event = "_done"
          /\ handler' = "awaited" /\ queue' = <<>>
          /\ UNCHANGED <<frames, emitted, task, text, pending, outcome, answer, committed,
                         called>>
      BY <1>5 DEF StopReading, AtEnd, result
    <2>2. IsSeq(queue) /\ EndsWithDone(queue)
      BY DEF StreamInv, Shape, QueueRight
    <2>3. Kinds(queue) = {"_done"} /\ called
      <3>1. /\ Kinds(queue) = {Head(queue).event} \cup Kinds(Tail(queue))
            /\ Tail(queue) = <<>>
        BY <2>1, <2>2, FirstOff
      <3>2. Kinds(queue) = {"_done"}
        BY <2>1, <3>1, NoEvent
      <3> QED
        BY <3>2 DEF StreamInv, QueueRight
    <2>4. DeltaText(queue) = <<>> /\ DeltaText(<<>>) = <<>> /\ Spoken(<<>>)
      BY <2>2, <2>3, NoEvent, Silent
    <2>5. Streamed' = Streamed
      BY <2>1, <2>4 DEF Streamed
    <2>6. TextShape'
      BY <2>1, <2>4 DEF TextShape
    <2>7. "complete" \notin Kinds(frames)
      BY <2>1 DEF StreamInv, CompleteRight
    <2>8. task = "done"
      BY <2>3 DEF StreamInv, QueueRight
    <2>9. outcome = "answer" => Told' \/ NotTold'
      <3>1. CASE outcome = "answer" /\ Told
        BY <2>1, <2>5, <3>1 DEF Told
      <3>2. CASE outcome = "answer" /\ NotTold
        BY <2>1, <3>2, NoEvent DEF NotTold
      <3> QED
        BY <3>1, <3>2 DEF TextRight
    <2>10. TextRight'
      BY <2>1, <2>7, <2>8, <2>9 DEF TextRight
    <2> QED
      BY <2>6, <2>10
  <1>6. CASE Replay
    <2>1. /\ handler = "awaited" /\ outcome = "answer" /\ emitted = 0
          /\ handler' = "replayed"
          /\ Send(Citations(SetToSeq(answer.used)) \o Delta(answer.text))
          /\ UNCHANGED <<emitted, task, text, pending, outcome, answer, committed, queue, called>>
      BY <1>6 DEF Replay, Replayed, result
    <2>2. /\ queue = <<>> /\ task = "done" /\ called /\ IsSeq(frames)
          /\ "delta" \notin Kinds(frames) /\ "complete" \notin Kinds(frames)
      BY <2>1 DEF StreamInv, Shape, QueueRight, CompleteRight, SourcesRight
    <2>3. PICK cs : cs = Citations(SetToSeq(answer.used))
      OBVIOUS
    <2>4. IsSeq(cs) /\ Kinds(cs) \subseteq {"citation"}
      <3>1. SetToSeq(answer.used) \in Seq(answer.used)
        BY KnownIsFinite, FS_Subset, InSomeOrder DEF StreamInv, Shape
      <3> QED
        BY <2>3, <3>1, CitationEvents
    <2>5. Spoken(cs) /\ DeltaText(cs) = <<>>
      BY <2>4, Silent
    <2>6. answer.text \in Seq(Char)
      BY DEF TextShape, Text
    <2>7. PICK ds : ds = Delta(answer.text)
      OBVIOUS
    <2>8. /\ IsSeq(ds) /\ Kinds(ds) \subseteq {"delta"} /\ Spoken(ds)
          /\ DeltaText(ds) = answer.text
      BY <2>6, <2>7, TextOfDelta, DeltaEvents
    <2>9. PICK es : es = cs \o ds
      OBVIOUS
    <2>10. /\ IsSeq(es) /\ Kinds(es) \subseteq {"citation", "delta"} /\ Spoken(es)
           /\ DeltaText(es) = <<>> \o answer.text
      <3>1. Spoken(es) /\ DeltaText(es) = <<>> \o answer.text
        BY <2>4, <2>5, <2>8, <2>9, TextJoined
      <3>2. IsSeq(es) /\ Kinds(es) = Kinds(cs) \cup Kinds(ds)
        BY <2>4, <2>8, <2>9, Joined
      <3> QED
        BY <2>4, <2>8, <3>1, <3>2
    <2>11. Send(es)
      BY <2>1, <2>3, <2>7, <2>9
    <2>12. /\ Spoken(frames') /\ Streamed' = Streamed \o DeltaText(es)
           /\ Streamed = DeltaText(frames) /\ Len(frames') >= Len(frames)
      BY <2>1, <2>2, <2>10, <2>11, TextSent
    <2>13. Streamed = <<>> /\ Streamed' = answer.text
      <3>1. Streamed = <<>>
        BY <2>2, <2>12, Silent
      <3>2. <<>> \o answer.text = answer.text
        BY <2>6, ConcatEmptySeq
      <3> QED
        BY <2>10, <2>12, <3>1, <3>2
    <2>14. IsSeq(frames') /\ Kinds(frames') \subseteq Kinds(frames) \cup {"citation", "delta"}
      BY <2>2, <2>10, <2>11, Yielded
    <2>15. Len(frames) \in Nat /\ Len(frames') \in Nat /\ 0 <= Len(frames')
      BY <2>2, <2>14, LenProperties DEF IsSeq
    <2>16. TextShape'
      BY <2>1, <2>12, <2>14, <2>15 DEF TextShape
    <2>17. Told'
      <3>1. CASE Told
        <4>1. answer.used = {} => TooLong(text)
          <5> SUFFICES ASSUME answer.used = {}, ~TooLong(text) PROVE FALSE
            OBVIOUS
          <5>1. <<>> = Sanitize[text] \o INSUFFICIENT
            BY <2>13, <3>1 DEF Told
          <5>2. Sanitize[text] \in Seq(Char) /\ INSUFFICIENT \in Seq(Char)
            BY AnswerText, FixedTexts DEF TextShape, Text
          <5>3. INSUFFICIENT = <<>>
            BY <5>1, <5>2, ConcatEqualIffEmpty
          <5> QED
            BY <5>3 DEF INSUFFICIENT
        <4> QED
          BY <2>1, <2>13, <4>1 DEF Told
      <3>2. CASE NotTold
        <4>1. Sanitize[text] = <<>> /\ <<>> \o INSUFFICIENT = INSUFFICIENT
          BY <3>2, SanitizeUnfolds, FixedTexts, ConcatEmptySeq DEF NotTold, Text
        <4> QED
          BY <2>1, <2>13, <3>2, <4>1 DEF Told, NotTold
      <3> QED
        BY <2>1, <3>1, <3>2 DEF TextRight
    <2>18. TextRight'
      BY <2>1, <2>2, <2>14, <2>17 DEF TextRight
    <2> QED
      BY <2>16, <2>18
  <1>7. CASE Close
    <2>1. /\ handler' = "closed"
          /\ UNCHANGED <<emitted, task, text, pending, outcome, answer, committed, queue, called>>
      BY <1>7 DEF Close, result
    <2>2. CASE /\ handler = "replayed" \/ (handler = "awaited" /\ emitted > 0)
               /\ outcome = "answer"
               /\ Send(<<Event("complete", answer.text)>>)
      <3> DEFINE es == <<Event("complete", answer.text)>>
      <3>1. IsSeq(es) /\ Kinds(es) = {"complete"}
        BY OneEvent DEF Event
      <3> HIDE DEF es
      <3>2. Send(es)
        BY <2>2 DEF es
      <3>3. queue = <<>> /\ called /\ task = "done" /\ IsSeq(frames) /\ emitted \in Nat
        BY <2>2 DEF StreamInv, Shape, QueueRight
      <3>4. Spoken(es) /\ DeltaText(es) = <<>>
        BY <3>1, Silent
      <3>5. /\ Spoken(frames') /\ Streamed \in Seq(Char)
            /\ Streamed' = Streamed \o <<>> /\ Len(frames') >= Len(frames)
        BY <2>1, <3>1, <3>2, <3>3, <3>4, TextSent
      <3>6. Streamed' = Streamed
        BY <3>5, ConcatEmptySeq
      <3>7. IsSeq(frames') /\ Kinds(frames') = Kinds(frames) \cup {"complete"}
        BY <3>1, <3>2, <3>3, Yielded
      <3>8. Len(frames) \in Nat /\ Len(frames') \in Nat
        BY <3>3, <3>7, LenProperties DEF IsSeq
      <3>9. TextShape'
        BY <2>1, <3>3, <3>5, <3>7, <3>8 DEF TextShape
      <3>10. Told
        BY <2>2, <3>3 DEF TextRight, NotTold
      <3>11. Told'
        BY <2>1, <3>6, <3>10 DEF Told
      <3>12. TextRight'
        BY <2>1, <3>3, <3>11 DEF TextRight
      <3> QED
        BY <3>9, <3>12
    <2>3. CASE handler = "awaited" /\ outcome = "app_error" /\ Send(<<Event("error", <<>>)>>)
      <3> DEFINE es == <<Event("error", <<>>)>>
      <3>1. IsSeq(es) /\ Kinds(es) = {"error"}
        BY OneEvent DEF Event
      <3> HIDE DEF es
      <3>2. Send(es)
        BY <2>3 DEF es
      <3>3. queue = <<>> /\ task = "done" /\ outcome # "answer"
        BY <2>3 DEF StreamInv, QueueRight
      <3> QED
        BY <1>1, <2>1, <3>1, <3>2, <3>3
    <2>4. CASE handler = "awaited" /\ outcome = "error" /\ UNCHANGED frames
      <3>1. queue = <<>> /\ task = "done" /\ outcome # "answer"
        BY <2>4 DEF StreamInv, QueueRight
      <3>2. TextShape'
        BY <2>1, <2>4 DEF TextShape
      <3>3. TextRight'
        BY <2>1, <2>4, <3>1 DEF TextRight
      <3> QED
        BY <3>2, <3>3
    <2> QED
      BY <1>7, <2>2, <2>3, <2>4 DEF Close
  <1>8. CASE Finally
    <2>1. /\ task' = "done" /\ outcome' = "cancelled" /\ committed' \in BOOLEAN
          /\ task # "done"
          /\ UNCHANGED <<handler, frames, emitted, text, pending, answer, queue, called>>
      BY <1>8 DEF Finally, EndTask, generator, TextShape
    <2>2. TextShape' /\ TextRight'
      BY <2>1 DEF TextShape, TextRight
    <2> QED
      BY <2>2
  <1>9. CASE Disconnect
    <2>1. /\ handler' = "gone" /\ handler \in {"opened", "reading", "awaited", "replayed"}
          /\ UNCHANGED <<frames, emitted, task, text, pending, outcome, answer, committed, queue,
                         called>>
      BY <1>9 DEF Disconnect, result
    <2>2. TextShape'
      BY <2>1 DEF TextShape
    <2>3. TextRight'
      BY <2>1 DEF TextRight, Told, NotTold, Streamed
    <2> QED
      BY <2>2, <2>3
  <1> QED
    BY <1>2, <1>3, <1>4, <1>5, <1>6, <1>7, <1>8, <1>9 DEF GeneratorStep

\* The invariant holds.
LEMMA TextInvariance == Spec => [](StreamInv /\ TextInv)
  <1>1. StreamInv /\ TextInv /\ [Next]_vars => TextInv'
    <2>1. TextInv /\ UNCHANGED vars => TextInv'
      <3> SUFFICES ASSUME TextInv, UNCHANGED vars PROVE TextInv'
        OBVIOUS
      <3>1. UNCHANGED <<handler, frames, emitted, task, text, pending, outcome, answer,
                        committed, queue, called>>
        BY DEF vars, generator, result
      <3>2. TextShape'
        BY <3>1 DEF TextInv, TextShape
      <3>3. UNCHANGED <<Streamed, Told, NotTold>>
        BY <3>1 DEF Streamed, Told, NotTold
      <3>4. TextRight'
        BY <3>1, <3>3 DEF TextInv, TextRight
      <3> QED
        BY <3>2, <3>4 DEF TextInv
    <2> QED
      BY <2>1, TextOfTask, TextOfGenerator DEF Next
  <1> QED
    BY TextInit, StreamInvariance, <1>1, PTL DEF Spec

\* Every variable has the shape the code gives it, and the filter never holds
\* back more than it promises, whatever the model sends.
THEOREM StreamTypes == Spec => []TypeOK
  <1>1. StreamInv /\ TextInv => TypeOK
    <2> SUFFICES ASSUME StreamInv, TextInv PROVE TypeOK
      OBVIOUS
    <2>1. \A i \in DOMAIN frames :
             frames[i].event \in {"retrieving", "citation", "delta", "complete", "error"}
      BY DEF TextInv, TextShape, Kinds, ToSet
    <2>2. \A i \in DOMAIN queue : queue[i].event \in {"citation", "delta", "_done"}
      BY DEF StreamInv, QueueRight, Kinds, ToSet
    <2>3. emitted \in 0 .. Len(frames)
      <3>1. IsSeq(frames) /\ emitted \in Nat /\ emitted <= Len(frames)
        BY DEF StreamInv, Shape, TextInv, TextShape
      <3>2. Len(frames) \in Nat
        BY <3>1, LenProperties DEF IsSeq
      <3> QED
        BY <3>1, <3>2
    <2> QED
      BY <2>1, <2>2, <2>3 DEF StreamInv, Shape, TextInv, TextShape, TypeOK
  <1> QED
    BY TextInvariance, <1>1, PTL

\* For any model, any cut of its answer into deltas and any interleaving of the
\* task and the generator, the client has been sent, up to what is queued and
\* held back, the sanitized answer, and at the end all of it.
THEOREM StreamIsFaithful == Spec => []StreamFaithful
  <1>1. StreamInv /\ TextInv => StreamFaithful
    <2> SUFFICES ASSUME StreamInv, TextInv, ~TooLong(text)
                 PROVE  /\ task = "streaming" /\ handler = "reading" =>
                              DeltaText(frames) \o DeltaText(queue) \o pending = Sanitize[text]
                        /\ Sent("complete") =>
                              DeltaText(frames) = IF answer.used = {}
                                                  THEN Sanitize[text] \o INSUFFICIENT
                                                  ELSE answer.text
      BY DEF StreamFaithful
    <2>1. ASSUME task = "streaming"
          PROVE  DeltaText(frames) \o DeltaText(queue) \o pending = Sanitize[text]
      <3>1. Right(text, [out |-> Streamed, pending |-> pending])
        BY <2>1 DEF TextInv, TextRight
      <3>2. text \in Text /\ pending \in Text /\ Streamed \in Text
        BY TextType DEF TextInv, TextShape, Text
      <3>3. Sanitize[text] = Streamed \o pending
        BY <3>1, <3>2, FilterIsSanitize
      <3> QED
        BY <3>3 DEF Streamed
    <2>2. ASSUME Sent("complete")
          PROVE  DeltaText(frames) = IF answer.used = {}
                                     THEN Sanitize[text] \o INSUFFICIENT ELSE answer.text
      <3>1. "complete" \in Kinds(frames)
        BY <2>2 DEF Sent, Kinds, ToSet
      <3>2. queue = <<>> /\ outcome = "answer" /\ Told
        BY <3>1 DEF StreamInv, CompleteRight, TextInv, TextRight, NotTold
      <3>3. Streamed = DeltaText(frames)
        <4>1. DeltaText(queue) = <<>>
          BY <3>2, NoEvent, Silent
        <4>2. DeltaText(frames) \in Seq(Char)
          <5>1. IsSeq(frames) /\ Spoken(frames)
            BY DEF StreamInv, Shape, TextInv, TextShape
          <5> QED
            BY <5>1, TextJoined
        <4> QED
          BY <4>1, <4>2, ConcatEmptySeq DEF Streamed
      <3> QED
        BY <3>2, <3>3 DEF Told
    <2> QED
      BY <2>1, <2>2
  <1> QED
    BY TextInvariance, <1>1, PTL

=============================================================================
