------------------------------ MODULE Knowledge ------------------------------
(***************************************************************************)
(* How a release of the knowledge base comes into service: the commands of  *)
(* scripts/knowledge.py, which operators run by hand and may interrupt, a    *)
(* directory per release, the tables knowledge_releases and article_chunks,  *)
(* and the API's workers, which load the active release when they start      *)
(* (app/main.py).  A command that ends at once and changes nothing has no    *)
(* step here.  An article is a pair of its id and its content, and is one    *)
(* chunk.                                                                    *)
(***************************************************************************)
EXTENDS Integers

CONSTANTS
    Operators,
    Workers,
    Graphs,
    NodeCount,    \* of each graph
    Sound,        \* the graphs whose ids are unique and whose edges have both ends
    Articles,     \* pairs <<id, content>>
    Last,
    Calendar,     \* of moments 1 .. Last: the day, and what the website publishes
    Production    \* APP_ENV of activate

ASSUME KnowledgeAssumption ==
    /\ NodeCount \in [Graphs -> Nat]
    /\ Last \in Nat \ {0}
    /\ Calendar \in [1 .. Last -> [day : Nat, graph : Graphs, articles : SUBSET Articles]]
    /\ Production \in BOOLEAN

VARIABLES
    moment,
    (* release directories *)
    dir,                   \* no manifest, half of one, or all files
    articles, baseline,    \* what their files say
    (* the database *)
    releases, active,      \* rows of knowledge_releases; those with the flag
    chunks, embedded,      \* rows of article_chunks; those with a vector
    (* commands *)
    pc, target, prepared,
    (* workers *)
    worker, loaded

directories == <<dir, articles, baseline>>
database == <<releases, active, chunks, embedded>>
commands == <<pc, target, prepared>>
api == <<worker, loaded>>
vars == <<moment, directories, database, commands, api>>

\* The version of a release is the date and the digest of its graph.
Versions == {<<Calendar[m].day, Calendar[m].graph>> : m \in 1 .. Last}
GraphOf(v) == v[2]
NoVersion == <<>>
Nothing == [articles |-> {}, embedded |-> {}]

Init ==
    /\ moment = 1
    /\ dir = [v \in Versions |-> "absent"]
    /\ articles = [v \in Versions |-> {}]
    /\ baseline = [v \in Versions |-> 0]
    /\ releases = {} /\ active = {}
    /\ chunks = [v \in Versions |-> {}]
    /\ embedded = [v \in Versions |-> {}]
    /\ pc = [o \in Operators |-> "idle"]
    /\ target = [o \in Operators |-> NoVersion]
    /\ prepared = [o \in Operators |-> Nothing]
    /\ worker = [w \in Workers |-> "down"]
    /\ loaded = [w \in Workers |-> NoVersion]

Goto(o, label) == pc' = [pc EXCEPT ![o] = label] /\ UNCHANGED target

Quit(o) ==
    /\ pc' = [pc EXCEPT ![o] = "idle"]
    /\ target' = [target EXCEPT ![o] = NoVersion]
    /\ prepared' = [prepared EXCEPT ![o] = Nothing]

Enter(o, label, v) ==
    /\ pc[o] = "idle"
    /\ pc' = [pc EXCEPT ![o] = label]
    /\ target' = [target EXCEPT ![o] = v]

-----------------------------------------------------------------------------
(* Time goes by, and the website is published anew.                         *)

Tick ==
    /\ moment < Last
    /\ moment' = moment + 1
    /\ UNCHANGED <<directories, database, commands, api>>

-----------------------------------------------------------------------------
(* stage.                                                                   *)

VersionNow == <<Calendar[moment].day, Calendar[moment].graph>>

\* There is no directory of that name.  Faulty variant: what is there is written
\* again.
TargetFree_Overwrites(v) == dir[v] # "torn"
TargetFree(v) == dir[v] = "absent"

\* mkdir, and the graph and the articles in some order.
StageBegin(o) ==
    /\ Enter(o, "staging", VersionNow)
    /\ NodeCount[Calendar[moment].graph] > 0 /\ Calendar[moment].articles # {}
    /\ TargetFree(VersionNow)
    /\ dir' = [dir EXCEPT ![VersionNow] = "partial"]
    /\ articles' = [articles EXCEPT ![VersionNow] = Calendar[moment].articles]
    /\ UNCHANGED <<moment, baseline, database, prepared, api>>

\* The manifests of the other releases are read; half a manifest cannot be
\* parsed and ends the command.
Manifests(version) == {v \in Versions \ {version} : dir[v] \in {"torn", "whole"}}
Counts(version) == {NodeCount[GraphOf(v)] : v \in Manifests(version)} \cup {0}

StageBaseline(o) ==
    /\ pc[o] = "staging"
    /\ IF \E v \in Manifests(target[o]) : dir[v] = "torn"
       THEN Quit(o) /\ UNCHANGED baseline
       ELSE /\ \E n \in Counts(target[o]) :
                  /\ \A k \in Counts(target[o]) : k <= n
                  /\ baseline' = [baseline EXCEPT ![target[o]] = n]
            /\ Goto(o, "staged") /\ UNCHANGED prepared
    /\ UNCHANGED <<moment, dir, articles, database, api>>

StageManifest(o) ==
    /\ pc[o] = "staged"
    /\ dir' = [dir EXCEPT ![target[o]] = "torn"]
    /\ Goto(o, "writing")
    /\ UNCHANGED <<moment, articles, baseline, database, prepared, api>>

StageEnd(o) ==
    /\ pc[o] = "writing"
    /\ dir' = [dir EXCEPT ![target[o]] = "whole"]
    /\ Quit(o)
    /\ UNCHANGED <<moment, articles, baseline, database, api>>

-----------------------------------------------------------------------------
(* validate, ingest and activate.                                           *)

UniqueIds(set) == \A a, b \in set : a[1] = b[1] => a = b

\* validate passes.  Faulty variant: it can do without a manifest.
Valid_Unfinished(v) ==
    /\ dir[v] # "absent"
    /\ GraphOf(v) \in Sound /\ NodeCount[GraphOf(v)] > 0
Valid(v) ==
    /\ dir[v] = "whole"
    /\ GraphOf(v) \in Sound /\ NodeCount[GraphOf(v)] > 0
    /\ articles[v] # {} /\ UniqueIds(articles[v])
    /\ 10 * NodeCount[GraphOf(v)] >= 8 * baseline[v]

\* Vectors are taken over from chunks of the same article and content.
Cached(set) == {a \in set : \E v \in releases : a \in embedded[v]}

IngestBegin(o, v) ==
    /\ Enter(o, "embedding", v)
    /\ Valid(v)
    /\ v \notin releases
    /\ prepared' = [prepared EXCEPT ![o] =
          [articles |-> articles[v], embedded |-> Cached(articles[v])]]
    /\ UNCHANGED <<moment, directories, database, api>>

\* The gateway returns a vector for every other chunk, or, for an operator
\* without the settings of production, there is none to ask.  An error ends the
\* command (Interrupted).
IngestEmbed(o) ==
    /\ pc[o] = "embedding"
    /\ \/ prepared' = [prepared EXCEPT ![o].embedded = prepared[o].articles]
       \/ UNCHANGED prepared
    /\ Goto(o, "embedded")
    /\ UNCHANGED <<moment, directories, database, api>>

\* pg_advisory_xact_lock(740091).
LockFree == \A o \in Operators : pc[o] \notin {"inserting", "activating"}

\* Faulty variant: the check before the lock is thought to be enough.
Ingested_Before(v) == FALSE
Ingested(v) == v \in releases

IngestLock(o) ==
    /\ pc[o] = "embedded"
    /\ LockFree
    /\ IF Ingested(target[o])
       THEN Quit(o)
       ELSE Goto(o, "inserting") /\ UNCHANGED prepared
    /\ UNCHANGED <<moment, directories, database, api>>

IngestCommit(o) ==
    /\ pc[o] = "inserting"
    /\ releases' = releases \cup {target[o]}
    /\ chunks' = [chunks EXCEPT ![target[o]] = prepared[o].articles]
    /\ embedded' = [embedded EXCEPT ![target[o]] = prepared[o].embedded]
    /\ Quit(o)
    /\ UNCHANGED <<moment, directories, active, api>>

\* The release has chunks and, in production, a vector for each.
Indexed(v) == chunks[v] # {} /\ (Production => embedded[v] = chunks[v])

ActivateLock(o, v) ==
    /\ Enter(o, "activating", v)
    /\ Valid(v)
    /\ LockFree
    /\ v \in releases /\ Indexed(v)
    /\ UNCHANGED <<moment, directories, database, prepared, api>>

ActivateCommit(o) ==
    /\ pc[o] = "activating"
    /\ active' = {target[o]}
    /\ Quit(o)
    /\ UNCHANGED <<moment, directories, releases, chunks, embedded, api>>

\* A command is interrupted, or loses its connection: its transaction is rolled
\* back, its files stay.
Interrupted(o) ==
    /\ pc[o] # "idle"
    /\ Quit(o)
    /\ UNCHANGED <<moment, directories, database, api>>

-----------------------------------------------------------------------------
(* The API.                                                                 *)

\* lifespan: the active release is read from the database, if there is one ...
\* Faulty variant: there always is.
AfterRead_Unchecked(v) == "loading"
AfterRead(v) == IF v = NoVersion THEN "unavailable" ELSE "loading"

StartRead(w) ==
    /\ worker[w] = "down"
    /\ \E v \in IF active = {} THEN {NoVersion} ELSE active :
          /\ loaded' = [loaded EXCEPT ![w] = v]
          /\ worker' = [worker EXCEPT ![w] = AfterRead(v)]
    /\ UNCHANGED <<moment, directories, database, commands>>

\* ... and its graph from the directory.
StartLoad(w) ==
    /\ worker[w] = "loading"
    /\ worker' = [worker EXCEPT ![w] =
          IF dir[loaded[w]] # "absent" /\ GraphOf(loaded[w]) \in Sound
          THEN "serving" ELSE "unavailable"]
    /\ UNCHANGED <<moment, directories, database, commands, loaded>>

\* Whatever goes wrong is logged and leaves the worker without a release.
StartFails(w) ==
    /\ worker[w] \in {"down", "loading"}
    /\ worker' = [worker EXCEPT ![w] = "unavailable"]
    /\ UNCHANGED <<moment, directories, database, commands, loaded>>

Stop(w) ==
    /\ worker[w] # "down"
    /\ worker' = [worker EXCEPT ![w] = "down"]
    /\ loaded' = [loaded EXCEPT ![w] = NoVersion]
    /\ UNCHANGED <<moment, directories, database, commands>>

\* /health/ready.  Faulty variant: it compares nothing.
Ready_Loaded(w) == worker[w] = "serving"
Ready(w) == worker[w] = "serving" /\ active = {loaded[w]}

\* The operator restarts a worker that is not ready.
Restart(w) == ~Ready(w) /\ Stop(w)

\* The chunks a question to this worker is answered from (Retriever.retrieve).
Evidence(w) == chunks[loaded[w]]

-----------------------------------------------------------------------------

Command(o) ==
    \/ StageBegin(o) \/ StageBaseline(o) \/ StageManifest(o) \/ StageEnd(o)
    \/ IngestEmbed(o) \/ IngestLock(o) \/ IngestCommit(o)
    \/ ActivateCommit(o)
    \/ \E v \in Versions : IngestBegin(o, v) \/ ActivateLock(o, v)

Api(w) == StartRead(w) \/ StartLoad(w) \/ StartFails(w) \/ Stop(w)

Next ==
    \/ \E o \in Operators : Command(o) \/ Interrupted(o)
    \/ \E w \in Workers : Api(w)
    \/ Tick

Spec == Init /\ [][Next]_vars

\* Starting a worker may fail, but not every time; who is not ready is started
\* again.  Nothing is assumed of operators and their commands.
FairSpec ==
    /\ Spec
    /\ \A w \in Workers :
          /\ SF_vars(StartRead(w))
          /\ SF_vars(StartLoad(w))
          /\ WF_vars(Restart(w))

=============================================================================
