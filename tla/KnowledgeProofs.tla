--------------------------- MODULE KnowledgeProofs ---------------------------
(* Releases for every number of operators, workers, graphs and articles, and  *)
(* every calendar.                                                            *)
EXTENDS KnowledgeProps, TLAPS

Staging == {o \in Operators : pc[o] \in {"staging", "staged", "writing"}}
Ingesting == {o \in Operators : pc[o] \in {"embedding", "embedded", "inserting"}}
Activating == {o \in Operators : pc[o] = "activating"}

(* A directory that is being written is not finished and has one writer.     *)
StagersApart ==
    /\ \A o \in Staging : dir[target[o]] \in {"partial", "torn"}
    /\ \A o, p \in Staging : target[o] = target[p] => o = p

(* What is about to be inserted is what the finished directory says.         *)
PreparedRight ==
    \A o \in Ingesting :
        /\ Valid(target[o])
        /\ prepared[o].articles = articles[target[o]]
        /\ prepared[o].embedded \subseteq prepared[o].articles

(* The advisory lock, and what the check under it found.                     *)
LockRight ==
    /\ \A o, p \in Operators :
          {pc[o], pc[p]} \subseteq {"inserting", "activating"} => o = p
    /\ \A o \in Operators : pc[o] = "inserting" => target[o] \notin releases

(* A row stands for a valid directory and has its articles.                  *)
ReleasesRight == \A v \in releases : Valid(v) /\ chunks[v] = articles[v]

(* What is active, about to be, or loaded, passed the checks of activate.    *)
Checked == InService \cup {target[o] : o \in Activating}
CheckedRight == \A v \in Checked : v \in Versions /\ Activatable(v)

IInv ==
    /\ TypeOK /\ StagersApart /\ PreparedRight /\ LockRight
    /\ ReleasesRight /\ CheckedRight

-----------------------------------------------------------------------------

LEMMA NowIsVersion == ASSUME moment \in 1 .. Last PROVE VersionNow \in Versions
BY DEF Versions, VersionNow

LEMMA CountsTyped == ASSUME NEW v \in Versions PROVE Counts(v) \subseteq Nat
<1>1. \A u \in Versions : GraphOf(u) \in Graphs
  BY KnowledgeAssumption DEF Versions, GraphOf
<1> QED  BY <1>1, KnowledgeAssumption DEF Counts, Manifests

LEMMA TypeInit == Init => TypeOK
BY KnowledgeAssumption DEF Init, TypeOK, Loaded, Nothing

LEMMA TypeNext == TypeOK /\ [Next]_vars => TypeOK'
<1> SUFFICES ASSUME TypeOK, [Next]_vars PROVE TypeOK'
  OBVIOUS
<1> USE DEF TypeOK, Loaded
<1>1. ASSUME NEW o \in Operators, StageBegin(o) PROVE TypeOK'
  <2>1. VersionNow \in Versions /\ Calendar[moment].articles \subseteq Articles
    BY NowIsVersion, KnowledgeAssumption
  <2> QED  BY <1>1, <2>1 DEF StageBegin, Enter, database, api
<1>2. ASSUME NEW o \in Operators, StageBaseline(o) PROVE TypeOK'
  <2>1. target[o] \in Versions
    BY <1>2 DEF StageBaseline
  <2>2. Counts(target[o]) \subseteq Nat
    BY <2>1, CountsTyped
  <2>3. baseline' \in [Versions -> Nat]
    <3>1. CASE UNCHANGED baseline
      BY <3>1
    <3>2. CASE \E n \in Counts(target[o]) : baseline' = [baseline EXCEPT ![target[o]] = n]
      BY <3>2, <2>2
    <3> QED  BY <1>2, <3>1, <3>2 DEF StageBaseline
  <2>4. Quit(o) \/ (Goto(o, "staged") /\ UNCHANGED prepared)
    BY <1>2 DEF StageBaseline
  <2>5. UNCHANGED <<moment, dir, articles, releases, active, chunks, embedded, worker, loaded>>
    BY <1>2 DEF StageBaseline, database, api
  <2>6. CASE Quit(o)
    BY <2>1, <2>3, <2>5, <2>6 DEF Quit, Nothing
  <2>7. CASE Goto(o, "staged") /\ UNCHANGED prepared
    BY <2>1, <2>3, <2>5, <2>7 DEF Goto
  <2> QED  BY <2>4, <2>6, <2>7
<1>3. ASSUME NEW o \in Operators, StageManifest(o) PROVE TypeOK'
  BY <1>3 DEF StageManifest, Goto, database, api
<1>4. ASSUME NEW o \in Operators, StageEnd(o) PROVE TypeOK'
  BY <1>4 DEF StageEnd, Quit, Nothing, database, api
<1>5. ASSUME NEW o \in Operators, NEW v \in Versions, IngestBegin(o, v) PROVE TypeOK'
  BY <1>5 DEF IngestBegin, Enter, Cached, directories, database, api
<1>6. ASSUME NEW o \in Operators, IngestEmbed(o) PROVE TypeOK'
  BY <1>6 DEF IngestEmbed, Goto, directories, database, api
<1>7. ASSUME NEW o \in Operators, IngestLock(o) PROVE TypeOK'
  <2>1. CASE Quit(o)
    BY <1>7, <2>1 DEF IngestLock, Quit, Nothing, directories, database, api
  <2>2. CASE Goto(o, "inserting") /\ UNCHANGED prepared
    BY <1>7, <2>2 DEF IngestLock, Goto, directories, database, api
  <2> QED  BY <1>7, <2>1, <2>2 DEF IngestLock
<1>8. ASSUME NEW o \in Operators, IngestCommit(o) PROVE TypeOK'
  BY <1>8 DEF IngestCommit, Quit, Nothing, directories, api
<1>9. ASSUME NEW o \in Operators, NEW v \in Versions, ActivateLock(o, v) PROVE TypeOK'
  BY <1>9 DEF ActivateLock, Enter, directories, database, api
<1>10. ASSUME NEW o \in Operators, ActivateCommit(o) PROVE TypeOK'
  BY <1>10 DEF ActivateCommit, Quit, Nothing, directories, api
<1>11. ASSUME NEW o \in Operators, Interrupted(o) PROVE TypeOK'
  BY <1>11 DEF Interrupted, Quit, Nothing, directories, database, api
<1>12. ASSUME NEW w \in Workers, StartRead(w) PROVE TypeOK'
  BY <1>12 DEF StartRead, AfterRead, directories, database, commands
<1>13. ASSUME NEW w \in Workers, StartLoad(w) \/ StartFails(w) \/ Stop(w) PROVE TypeOK'
  BY <1>13 DEF StartLoad, StartFails, Stop, directories, database, commands
<1>14. CASE Tick
  BY <1>14, KnowledgeAssumption DEF Tick, directories, database, commands, api
<1>15. CASE UNCHANGED vars
  BY <1>15 DEF vars, directories, database, commands, api
<1> QED
  BY <1>1, <1>2, <1>3, <1>4, <1>5, <1>6, <1>7, <1>8, <1>9, <1>10, <1>11, <1>12,
     <1>13, <1>14, <1>15 DEF Next, Command, Api

-----------------------------------------------------------------------------
(* What no step changes.                                                     *)

\* A finished directory stays as it is.
LEMMA FilesStay ==
    ASSUME IInv, [Next]_vars, NEW v \in Versions, dir[v] = "whole"
    PROVE  <<dir[v], articles[v], baseline[v]>>' = <<dir[v], articles[v], baseline[v]>>
<1> USE DEF IInv, TypeOK
<1>1. ASSUME NEW o \in Operators, StageBegin(o) PROVE v # VersionNow
  BY <1>1 DEF StageBegin, TargetFree
<1>2. ASSUME NEW o \in Operators, pc[o] \in {"staging", "staged", "writing"}
      PROVE  v # target[o]
  BY <1>2 DEF StagersApart, Staging
<1>3. ASSUME NEW o \in Operators, StageBegin(o)
      PROVE  <<dir[v], articles[v], baseline[v]>>' = <<dir[v], articles[v], baseline[v]>>
  BY <1>1, <1>3 DEF StageBegin
<1>4. ASSUME NEW o \in Operators, StageBaseline(o) \/ StageManifest(o) \/ StageEnd(o)
      PROVE  <<dir[v], articles[v], baseline[v]>>' = <<dir[v], articles[v], baseline[v]>>
  BY <1>2, <1>4 DEF StageBaseline, StageManifest, StageEnd
<1>5. CASE UNCHANGED directories
  BY <1>5 DEF directories
<1>6. CASE \E o \in Operators : Interrupted(o)
  BY <1>5, <1>6 DEF Interrupted
<1>7. CASE (\E w \in Workers : Api(w)) \/ Tick
  BY <1>5, <1>7 DEF Api, StartRead, StartLoad, StartFails, Stop, Tick
<1>8. ASSUME NEW o \in Operators, Command(o)
      PROVE  \/ StageBegin(o) \/ StageBaseline(o) \/ StageManifest(o) \/ StageEnd(o)
             \/ UNCHANGED directories
  BY <1>8 DEF Command, IngestBegin, IngestEmbed, IngestLock, IngestCommit, ActivateLock,
              ActivateCommit
<1> QED  BY <1>3, <1>4, <1>5, <1>6, <1>7, <1>8 DEF Next, vars

\* A row that is there stays, with its chunks and their vectors.
LEMMA RowsStay ==
    ASSUME IInv, [Next]_vars, NEW v \in releases
    PROVE  v \in releases' /\ <<chunks[v], embedded[v]>>' = <<chunks[v], embedded[v]>>
<1> USE DEF IInv, TypeOK
<1>1. ASSUME NEW o \in Operators, IngestCommit(o)
      PROVE  v \in releases' /\ <<chunks[v], embedded[v]>>' = <<chunks[v], embedded[v]>>
  <2>1. v # target[o]
    BY <1>1 DEF IngestCommit, LockRight
  <2> QED  BY <1>1, <2>1 DEF IngestCommit
<1>2. CASE UNCHANGED <<releases, chunks, embedded>>
  BY <1>2
<1>3. ASSUME NEW o \in Operators, Command(o) \/ Interrupted(o)
      PROVE  IngestCommit(o) \/ UNCHANGED <<releases, chunks, embedded>>
  BY <1>3 DEF Command, Interrupted, StageBegin, StageBaseline, StageManifest, StageEnd,
              IngestBegin, IngestEmbed, IngestLock, ActivateLock, ActivateCommit, database
<1>4. CASE (\E w \in Workers : Api(w)) \/ Tick \/ UNCHANGED vars
  BY <1>2, <1>4 DEF Api, StartRead, StartLoad, StartFails, Stop, Tick, vars, database
<1> QED  BY <1>1, <1>2, <1>3, <1>4 DEF Next

LEMMA ValidStays ==
    ASSUME IInv, [Next]_vars, NEW v \in Versions, Valid(v)
    PROVE  Valid(v)' /\ articles'[v] = articles[v]
BY FilesStay DEF Valid, UniqueIds, GraphOf

LEMMA ActivatableStays ==
    ASSUME IInv, [Next]_vars, NEW v \in Versions, Activatable(v)
    PROVE  Activatable(v)'
BY ValidStays, RowsStay DEF Activatable, Indexed

-----------------------------------------------------------------------------
(* Every part of the invariant is kept.                                      *)

LEMMA StagersStep == IInv /\ [Next]_vars => StagersApart'
<1> SUFFICES ASSUME IInv, [Next]_vars PROVE StagersApart'
  OBVIOUS
<1> USE DEF IInv, TypeOK, StagersApart, Staging
<1>1. ASSUME NEW o \in Operators, StageBegin(o) PROVE StagersApart'
  <2>1. VersionNow \in Versions /\ \A p \in Staging : target[p] # VersionNow
    BY <1>1, NowIsVersion DEF StageBegin, TargetFree
  <2> QED  BY <1>1, <2>1 DEF StageBegin, Enter
<1>2. ASSUME NEW o \in Operators, StageBaseline(o) \/ StageManifest(o) PROVE StagersApart'
  <2>1. CASE Quit(o) /\ UNCHANGED dir
    BY <2>1 DEF Quit
  <2>2. CASE Goto(o, "staged") /\ UNCHANGED dir /\ pc[o] = "staging"
    BY <2>2 DEF Goto
  <2>3. CASE StageManifest(o)
    BY <2>3 DEF StageManifest, Goto
  <2> QED  BY <1>2, <2>1, <2>2, <2>3 DEF StageBaseline
<1>3. ASSUME NEW o \in Operators, StageEnd(o) PROVE StagersApart'
  BY <1>3 DEF StageEnd, Quit
<1>4. CASE UNCHANGED dir /\ Staging' \subseteq Staging /\ \A o \in Staging' : target'[o] = target[o]
  BY <1>4
<1>5. ASSUME NEW o \in Operators,
             \/ \E v \in Versions : IngestBegin(o, v) \/ ActivateLock(o, v)
             \/ IngestEmbed(o) \/ IngestLock(o) \/ IngestCommit(o)
             \/ ActivateCommit(o) \/ Interrupted(o)
      PROVE  StagersApart'
  <2>1. UNCHANGED dir
    BY <1>5 DEF IngestBegin, ActivateLock, IngestEmbed, IngestLock, IngestCommit,
                ActivateCommit, Interrupted, directories
  <2>2. \A p \in Operators \ {o} : pc'[p] = pc[p] /\ target'[p] = target[p]
    BY <1>5 DEF IngestBegin, ActivateLock, IngestEmbed, IngestLock, IngestCommit,
                ActivateCommit, Interrupted, Enter, Goto, Quit
  <2>3. o \notin Staging'
    BY <1>5 DEF IngestBegin, ActivateLock, IngestEmbed, IngestLock, IngestCommit,
                ActivateCommit, Interrupted, Enter, Goto, Quit
  <2> QED  BY <1>4, <2>1, <2>2, <2>3
<1>6. CASE (\E w \in Workers : Api(w)) \/ Tick \/ UNCHANGED vars
  BY <1>6, <1>4 DEF Api, StartRead, StartLoad, StartFails, Stop, Tick, vars, directories, commands
<1> QED  BY <1>1, <1>2, <1>3, <1>5, <1>6 DEF Next, Command

LEMMA PreparedStep == IInv /\ [Next]_vars => PreparedRight'
<1> SUFFICES ASSUME IInv, [Next]_vars, NEW o \in Operators, o \in Ingesting'
             PROVE  /\ Valid(target[o])'
                    /\ prepared'[o].articles = articles'[target'[o]]
                    /\ prepared'[o].embedded \subseteq prepared'[o].articles
  BY DEF PreparedRight, Ingesting
<1> USE DEF IInv, TypeOK, PreparedRight, Ingesting
<1>1. CASE o \in Ingesting /\ target'[o] = target[o] /\ prepared'[o] = prepared[o]
  BY <1>1, ValidStays
<1>2. ASSUME NEW v \in Versions, IngestBegin(o, v)
      PROVE  /\ Valid(target[o])'
             /\ prepared'[o].articles = articles'[target'[o]]
             /\ prepared'[o].embedded \subseteq prepared'[o].articles
  <2>1. target'[o] = v /\ Valid(v)
    BY <1>2 DEF IngestBegin, Enter
  <2>2. /\ prepared'[o].articles = articles[v]
        /\ prepared'[o].embedded \subseteq prepared'[o].articles
    BY <1>2 DEF IngestBegin, Cached
  <2> QED  BY <2>1, <2>2, ValidStays
<1>3. CASE IngestEmbed(o)
  <2>1. o \in Ingesting /\ target'[o] = target[o]
    BY <1>3 DEF IngestEmbed, Goto
  <2>2. /\ prepared'[o].articles = prepared[o].articles
        /\ prepared'[o].embedded \subseteq prepared'[o].articles
    BY <1>3, <2>1 DEF IngestEmbed
  <2> QED  BY <2>1, <2>2, ValidStays
<1>4. CASE IngestLock(o)
  BY <1>1, <1>4 DEF IngestLock, Goto, Quit
<1>5. ASSUME NEW p \in Operators, Command(p) \/ Interrupted(p), p # o
      PROVE  pc'[o] = pc[o] /\ target'[o] = target[o] /\ prepared'[o] = prepared[o]
  BY <1>5 DEF Command, StageBegin, StageBaseline, StageManifest, StageEnd, IngestBegin,
              IngestEmbed, IngestLock, IngestCommit, ActivateLock, ActivateCommit, Interrupted,
              Enter, Goto, Quit
<1>6. CASE Command(o) \/ Interrupted(o)
  <2>1. ~(\/ StageBegin(o) \/ StageBaseline(o) \/ StageManifest(o) \/ StageEnd(o)
          \/ IngestCommit(o) \/ ActivateCommit(o) \/ Interrupted(o)
          \/ \E v \in Versions : ActivateLock(o, v))
    BY DEF StageBegin, StageBaseline, StageManifest, StageEnd, IngestCommit, ActivateCommit,
           Interrupted, ActivateLock, Enter, Goto, Quit
  <2> QED  BY <1>2, <1>3, <1>4, <1>6, <2>1 DEF Command
<1>7. CASE (\E w \in Workers : Api(w)) \/ Tick \/ UNCHANGED vars
  BY <1>1, <1>7 DEF Api, StartRead, StartLoad, StartFails, Stop, Tick, vars, commands
<1> QED  BY <1>1, <1>5, <1>6, <1>7 DEF Next

LEMMA LockStep == IInv /\ [Next]_vars => LockRight'
<1> SUFFICES ASSUME IInv, [Next]_vars PROVE LockRight'
  OBVIOUS
<1> USE DEF IInv, TypeOK, LockRight
<1>1. ASSUME NEW o \in Operators, IngestLock(o) PROVE LockRight'
  <2>1. CASE Quit(o)
    BY <1>1, <2>1 DEF IngestLock, Quit, database
  <2>2. CASE Goto(o, "inserting") /\ target[o] \notin releases
    BY <1>1, <2>2 DEF IngestLock, LockFree, Goto, database
  <2> QED  BY <1>1, <2>1, <2>2 DEF IngestLock, Ingested
<1>2. ASSUME NEW o \in Operators, NEW v \in Versions, ActivateLock(o, v) PROVE LockRight'
  BY <1>2 DEF ActivateLock, LockFree, Enter, database
<1>3. ASSUME NEW o \in Operators, IngestCommit(o) PROVE LockRight'
  <2>1. \A p \in Operators : pc'[p] # "inserting"
    BY <1>3 DEF IngestCommit, Quit
  <2> QED  BY <1>3, <2>1 DEF IngestCommit, Quit
<1>4. ASSUME NEW o \in Operators, pc'[o] \notin {"inserting", "activating"},
             UNCHANGED releases,
             \A p \in Operators \ {o} : pc'[p] = pc[p] /\ target'[p] = target[p]
      PROVE  LockRight'
  BY <1>4
<1>5. ASSUME NEW o \in Operators,
             \/ StageBegin(o) \/ StageBaseline(o) \/ StageManifest(o) \/ StageEnd(o)
             \/ IngestEmbed(o) \/ ActivateCommit(o) \/ Interrupted(o)
             \/ \E v \in Versions : IngestBegin(o, v)
      PROVE  LockRight'
  <2>1. /\ pc'[o] \notin {"inserting", "activating"}
        /\ UNCHANGED releases
        /\ \A p \in Operators \ {o} : pc'[p] = pc[p] /\ target'[p] = target[p]
    BY <1>5 DEF StageBegin, StageBaseline, StageManifest, StageEnd, IngestEmbed, ActivateCommit,
                Interrupted, IngestBegin, Enter, Goto, Quit, database
  <2> QED  BY <1>4, <2>1
<1>6. CASE (\E w \in Workers : Api(w)) \/ Tick \/ UNCHANGED vars
  BY <1>6 DEF Api, StartRead, StartLoad, StartFails, Stop, Tick, vars, commands, database
<1> QED  BY <1>1, <1>2, <1>3, <1>5, <1>6 DEF Next, Command

LEMMA ReleasesStep == IInv /\ [Next]_vars => ReleasesRight'
<1> SUFFICES ASSUME IInv, [Next]_vars, NEW v \in releases'
             PROVE  Valid(v)' /\ chunks'[v] = articles'[v]
  BY DEF ReleasesRight
<1> USE DEF IInv, TypeOK
<1>1. CASE v \in releases
  BY <1>1, ValidStays, RowsStay DEF ReleasesRight
<1>2. ASSUME NEW o \in Operators, IngestCommit(o), v \notin releases
      PROVE  Valid(v)' /\ chunks'[v] = articles'[v]
  <2>1. v = target[o] /\ o \in Ingesting
    BY <1>2 DEF IngestCommit, Ingesting
  <2>2. Valid(v) /\ v \in Versions /\ prepared[o].articles = articles[v]
    BY <2>1 DEF PreparedRight, Ingesting
  <2>3. chunks'[v] = articles[v]
    BY <1>2, <2>1, <2>2 DEF IngestCommit
  <2> QED  BY <2>2, <2>3, ValidStays
<1>3. ASSUME NEW o \in Operators, Command(o) \/ Interrupted(o)
      PROVE  IngestCommit(o) \/ UNCHANGED releases
  BY <1>3 DEF Command, Interrupted, StageBegin, StageBaseline, StageManifest, StageEnd,
              IngestBegin, IngestEmbed, IngestLock, ActivateLock, ActivateCommit, database
<1>4. CASE (\E w \in Workers : Api(w)) \/ Tick \/ UNCHANGED vars
  BY <1>1, <1>4 DEF Api, StartRead, StartLoad, StartFails, Stop, Tick, vars, database
<1> QED  BY <1>1, <1>2, <1>3, <1>4 DEF Next

LEMMA CheckedStep == IInv /\ [Next]_vars => CheckedRight'
<1> SUFFICES ASSUME IInv, [Next]_vars, NEW v, v \in Checked'
             PROVE  v \in Versions /\ Activatable(v)'
  BY DEF CheckedRight
<1> USE DEF IInv, TypeOK
<1>1. CASE v \in Checked
  BY <1>1, ActivatableStays DEF CheckedRight
<1>2. ASSUME NEW o \in Operators, ActivateLock(o, v), v \in Versions
      PROVE  Activatable(v)
  BY <1>2 DEF ActivateLock, Activatable
<1>3. ASSUME v \notin Checked
      PROVE  v \in Versions /\ \E o \in Operators : ActivateLock(o, v)
  <2> USE DEF Checked, InService, Loaded, Activating
  <2>1. ASSUME NEW o \in Operators, NEW u \in Versions, ActivateLock(o, u)
        PROVE  v = u
    BY <1>3, <2>1 DEF ActivateLock, Enter, database, api
  <2>2. ASSUME NEW o \in Operators,
               \/ StageBegin(o) \/ StageBaseline(o) \/ StageManifest(o) \/ StageEnd(o)
               \/ IngestEmbed(o) \/ IngestLock(o) \/ IngestCommit(o)
               \/ ActivateCommit(o) \/ Interrupted(o)
               \/ \E u \in Versions : IngestBegin(o, u)
        PROVE  FALSE
    <3>1. /\ pc'[o] # "activating"
          /\ \A p \in Operators \ {o} : pc'[p] = pc[p] /\ target'[p] = target[p]
          /\ UNCHANGED api
          /\ UNCHANGED active \/ (pc[o] = "activating" /\ active' = {target[o]})
      BY <2>2 DEF StageBegin, StageBaseline, StageManifest, StageEnd, IngestEmbed, IngestLock,
                  IngestCommit, ActivateCommit, Interrupted, IngestBegin, Enter, Goto, Quit,
                  database
    <3> QED  BY <1>3, <3>1 DEF api
  <2>3. ASSUME NEW w \in Workers, Api(w) PROVE FALSE
    <3>1. UNCHANGED <<database, commands>>
      BY <2>3 DEF Api, StartRead, StartLoad, StartFails, Stop
    <3>2. \A u \in Workers \ {w} : worker'[u] = worker[u] /\ loaded'[u] = loaded[u]
      BY <2>3 DEF Api, StartRead, StartLoad, StartFails, Stop
    <3>3. w \in Loaded' => loaded'[w] \in InService
      BY <2>3 DEF Api, StartRead, AfterRead, StartLoad, StartFails, Stop
    <3> QED  BY <1>3, <3>1, <3>2, <3>3 DEF database, commands
  <2>4. CASE Tick \/ UNCHANGED vars
    BY <1>3, <2>4 DEF Tick, vars, database, commands, api
  <2> QED  BY <2>1, <2>2, <2>3, <2>4 DEF Next, Command
<1> QED  BY <1>1, <1>2, <1>3, ActivatableStays

-----------------------------------------------------------------------------

THEOREM Invariance == Spec => []IInv
<1>1. Init => IInv
  <2> SUFFICES ASSUME Init PROVE IInv
    OBVIOUS
  <2>1. TypeOK
    BY TypeInit
  <2>2. StagersApart /\ PreparedRight /\ LockRight /\ ReleasesRight /\ CheckedRight
    BY DEF Init, StagersApart, PreparedRight, LockRight, ReleasesRight, CheckedRight, Staging,
           Ingesting, Checked, InService, Loaded, Activating
  <2> QED  BY <2>1, <2>2 DEF IInv
<1>2. IInv /\ [Next]_vars => IInv'
  BY TypeNext, StagersStep, PreparedStep, LockStep, ReleasesStep, CheckedStep DEF IInv
<1> QED  BY <1>1, <1>2, PTL DEF Spec

\* TypeOK, for everything a command and a worker holds.
THEOREM TypeCorrect == Spec => []TypeOK
BY Invariance, PTL DEF IInv

\* ServedWhole: what is active or loaded has all its articles and, in
\* production, their vectors.
THEOREM ServedWholeHolds == Spec => []ServedWhole
<1>1. IInv => ServedWhole
  <2> SUFFICES ASSUME IInv PROVE ServedWhole
    OBVIOUS
  <2>1. \A v \in InService : v \in releases /\ Valid(v) /\ Indexed(v) /\ chunks[v] = articles[v]
    BY DEF IInv, CheckedRight, Checked, Activatable, ReleasesRight
  <2>2. \A w \in Loaded : loaded[w] \in InService
    BY DEF InService
  <2> QED  BY <2>1, <2>2 DEF ServedWhole, Valid, Indexed, Evidence
<1> QED  BY <1>1, Invariance, PTL

\* RollbackKept and ReleaseImmutable, from the frame of every step.
THEOREM RollbackStays == Spec => RollbackKept
<1>1. IInv /\ [Next]_vars => \A v \in Versions : Activatable(v) => Activatable(v)'
  BY ActivatableStays
<1>2. Spec => [][\A v \in Versions : Activatable(v) => Activatable(v)']_vars
  BY <1>1, Invariance, PTL DEF Spec
<1> QED  BY <1>2 DEF RollbackKept

THEOREM ReleasesStay == Spec => ReleaseImmutable
<1> DEFINE Same == \A v \in releases :
              /\ v \in releases'
              /\ <<articles[v], chunks[v], embedded[v]>>' = <<articles[v], chunks[v], embedded[v]>>
<1>1. IInv /\ [Next]_vars => Same
  <2> SUFFICES ASSUME IInv, [Next]_vars, NEW v \in releases
               PROVE  /\ v \in releases'
                      /\ articles'[v] = articles[v]
                      /\ <<chunks[v], embedded[v]>>' = <<chunks[v], embedded[v]>>
    OBVIOUS
  <2>1. v \in Versions /\ Valid(v)
    BY DEF IInv, TypeOK, ReleasesRight
  <2> QED  BY <2>1, ValidStays, RowsStay
<1> HIDE DEF Same
<1>2. Spec => [][Same]_vars
  BY <1>1, Invariance, PTL DEF Spec
<1> QED  BY <1>2 DEF ReleaseImmutable, Same

=============================================================================
