--------------------------- MODULE KnowledgeProps ---------------------------
(* What operators and visitors may rely on when releases change.            *)
EXTENDS Knowledge

Loaded == {w \in Workers : worker[w] \in {"loading", "serving"}}

\* Every variable has the shape the code gives it, and who works on a release
\* or has loaded one has one.
TypeOK ==
    /\ moment \in 1 .. Last
    /\ dir \in [Versions -> {"absent", "partial", "torn", "whole"}]
    /\ articles \in [Versions -> SUBSET Articles]
    /\ baseline \in [Versions -> Nat]
    /\ releases \subseteq Versions /\ active \subseteq Versions
    /\ chunks \in [Versions -> SUBSET Articles]
    /\ embedded \in [Versions -> SUBSET Articles]
    /\ pc \in [Operators -> {"idle", "staging", "staged", "writing", "embedding", "embedded",
                             "inserting", "activating"}]
    /\ target \in [Operators -> Versions \cup {NoVersion}]
    /\ prepared \in [Operators -> [articles : SUBSET Articles, embedded : SUBSET Articles]]
    /\ worker \in [Workers -> {"down", "loading", "serving", "unavailable"}]
    /\ loaded \in [Workers -> Versions \cup {NoVersion}]
    /\ \A o \in Operators : pc[o] # "idle" => target[o] \in Versions
    /\ \A w \in Loaded : loaded[w] \in Versions

\* What is active, and what a worker still has loaded, is in the database with
\* all the articles of its directory, each with its vector in production, and
\* its directory is complete: it can be loaded again at any time, and what a
\* worker answers from has no gaps, although nobody looks at any of this when a
\* question comes.
InService == active \cup {loaded[w] : w \in Loaded}
ServedWhole ==
    /\ \A v \in InService :
          /\ v \in releases /\ chunks[v] = articles[v]
          /\ dir[v] = "whole" /\ GraphOf(v) \in Sound /\ UniqueIds(articles[v])
          /\ Production => embedded[v] = chunks[v]
    /\ \A w \in Loaded : Evidence(w) = articles[loaded[w]]

\* A release that could be activated can be for ever: no later staging,
\* ingestion or interrupted command takes the way back from the operator
\* (README: for rollback, activate the prior ingested version).
Activatable(v) == Valid(v) /\ v \in releases /\ Indexed(v)
RollbackKept == [][\A v \in Versions : Activatable(v) => Activatable(v)']_vars

\* An ingested release is what it was: its articles, chunks and vectors change
\* no more, so that answers of one version rest on one text.
ReleaseImmutable ==
    [][\A v \in releases :
          /\ v \in releases'
          /\ <<articles[v], chunks[v], embedded[v]>>' = <<articles[v], chunks[v], embedded[v]>>]_vars

\* When the operators leave it at one release, every worker serves it again and
\* again, and its readiness says so, however often workers crash.
WorkersCatchUp ==
    \A v \in Versions, w \in Workers :
        <>[](active = {v}) => []<>(worker[w] = "serving" /\ loaded[w] = v /\ Ready(w))

=============================================================================
