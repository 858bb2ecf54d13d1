--------------------------- MODULE StatusCacheProofs ---------------------------
(***************************************************************************)
(* Proofs about StatusCache for any number of requests, builds and changes *)
(* of the data.  The invariant ties three things together that different   *)
(* steps change: the version, the cached build, and what builds have read. *)
(***************************************************************************)
EXTENDS StatusCache, TLAPS

\* A request never changes the data, the version or a build that runs already,
\* and forgets no build: all the invariant needs to know of most request steps.
LEMMA RequestKeeps ==
    ASSUME TypeOK, NEW r \in Requests,
           HearBuild(r) \/ TimeOut(r) \/ Leave(r) \/ Join(r)
    PROVE  /\ UNCHANGED <<data, clearing, cleared, build>>
           /\ cache'.task = cache.task /\ cache'.version = cache.version
           /\ cache' \in Cache
           /\ waits' \in [Requests -> Builds \cup {None}]
<1>1. cache \in Cache /\ waits \in [Requests -> Builds \cup {None}]
  BY DEF TypeOK
<1>2. CASE HearBuild(r)
  <2>1. waits[r] \in Builds
    BY <1>1, <1>2, NoneAssumption DEF HearBuild
  <2>2. build[waits[r]].read \in Nat \cup {Unread}
    BY <2>1 DEF TypeOK, Build
  <2>3. cache' = cache
        \/ \E p \in Nat : cache' = [cache EXCEPT !.payload = p, !.live = TRUE]
    BY <1>2, <2>2 DEF HearBuild, Store
  <2> QED BY <1>1, <1>2, <2>3 DEF HearBuild, Cache
<1>3. CASE TimeOut(r)
  <2>1. \E s \in StandIns : cache' = [cache EXCEPT !.payload = s, !.live = TRUE]
    BY <1>3 DEF TimeOut, Store
  <2> QED BY <1>1, <1>3, <2>1 DEF TimeOut, Cache
<1>4. CASE Leave(r)
  BY <1>1, <1>4 DEF Leave
<1>5. CASE Join(r)
  <2>1. cache.task \in Builds
    BY <1>1, <1>5 DEF Join, Pending, Cache
  <2> QED BY <1>1, <1>5, <2>1 DEF Join
<1> QED BY <1>2, <1>3, <1>4, <1>5

\* What a new build is, and where the cache and the caller find it.
LEMMA StartedBuild ==
    ASSUME TypeOK, NEW r \in Requests, NEW b \in Builds, StartBuild(r, b)
    PROVE  /\ UNCHANGED <<data, clearing, cleared>>
           /\ build' \in [Builds -> Build]
           /\ build'[b] = [state |-> "running", version |-> cache.version, read |-> Unread]
           /\ \A c \in Builds \ {b} : build'[c] = build[c]
           /\ cache' \in Cache
           /\ cache'.task = b /\ cache'.version = cache.version
           /\ waits' \in [Requests -> Builds \cup {None}]
<1>1. cache \in Cache /\ cache.version \in Nat
  BY DEF TypeOK, Cache
<1>2. [state |-> "running", version |-> cache.version, read |-> Unread] \in Build
  BY <1>1 DEF Build
<1> QED BY <1>1, <1>2 DEF StartBuild, TypeOK, Cache

\* The callback ends a build; the cache forgets that build and no other.
LEMMA ReportedBuild ==
    ASSUME TypeOK, NEW b \in Builds, Report(b)
    PROVE  /\ UNCHANGED <<data, clearing, cleared, waits>>
           /\ build' = [build EXCEPT ![b].state = "over", ![b].version = 0]
           /\ build' \in [Builds -> Build]
           /\ cache' \in Cache
           /\ cache'.version = cache.version
           /\ cache'.task = IF build[b].version = cache.version /\ cache.task = b
                            THEN None ELSE cache.task
<1>1. cache \in Cache /\ build \in [Builds -> Build] /\ build[b] \in Build
  BY DEF TypeOK
<1>2. UNCHANGED <<data, clearing, cleared, waits>>
      /\ build' = [build EXCEPT ![b].state = "over", ![b].version = 0]
  BY DEF Report
<1>3. build' \in [Builds -> Build]
  BY <1>1, <1>2 DEF Build
<1>4. CASE build[b].version # cache.version
  BY <1>1, <1>2, <1>3, <1>4 DEF Report
<1>5. CASE build[b].version = cache.version
  <2> DEFINE stored == IF build[b].state = "returned" THEN Store(build[b].read) ELSE cache
  <2>1. cache' = Forget(b, stored)
    BY <1>5 DEF Report
  <2>2. stored \in Cache /\ stored.task = cache.task /\ stored.version = cache.version
    BY <1>1 DEF Store, Cache, Build
  <2> QED BY <1>1, <1>2, <1>3, <1>5, <2>1, <2>2 DEF Forget, Cache
<1> QED BY <1>4, <1>5

(***************************************************************************)
(* Type correctness                                                        *)
(***************************************************************************)
\* Every step keeps every variable in its set.
LEMMA TypeStep == TypeOK /\ [Next]_vars => TypeOK'
<1> SUFFICES ASSUME TypeOK, [Next]_vars PROVE TypeOK'
  OBVIOUS
<1>1. CASE Change
  BY <1>1 DEF Change, TypeOK
<1>2. CASE Clear
  <2>1. cache' \in Cache
    BY <1>2 DEF Clear, TypeOK, Cache
  <2> QED BY <1>2, <2>1 DEF Clear, TypeOK
<1>3. CASE Expire
  <2>1. cache' \in Cache
    BY <1>3 DEF Expire, TypeOK, Cache
  <2> QED BY <1>3, <2>1 DEF Expire, TypeOK
<1>4. ASSUME NEW r \in Requests, Request(r) PROVE TypeOK'
  <2>1. CASE HearBuild(r) \/ TimeOut(r) \/ Leave(r) \/ Join(r)
    BY <2>1, RequestKeeps DEF TypeOK
  <2>2. ASSUME NEW b \in Builds, StartBuild(r, b) PROVE TypeOK'
    BY <2>2, StartedBuild DEF TypeOK
  <2>3. CASE Serve(r)
    BY <2>3 DEF Serve, vars, TypeOK
  <2> QED BY <1>4, <2>1, <2>2, <2>3 DEF Request
<1>5. ASSUME NEW b \in Builds, Read(b) PROVE TypeOK'
  <2>1. build' \in [Builds -> Build]
    BY <1>5 DEF Read, TypeOK, Build
  <2> QED BY <1>5, <2>1 DEF Read, TypeOK
<1>6. ASSUME NEW b \in Builds, End(b) PROVE TypeOK'
  <2>1. build' \in [Builds -> Build]
    BY <1>6 DEF End, TypeOK, Build, Unread
  <2> QED BY <1>6, <2>1 DEF End, TypeOK
<1>7. ASSUME NEW b \in Builds, Report(b) PROVE TypeOK'
  BY <1>7, ReportedBuild DEF TypeOK
<1>8. CASE UNCHANGED vars
  BY <1>8 DEF vars, TypeOK
<1> QED BY <1>1, <1>2, <1>3, <1>4, <1>5, <1>6, <1>7, <1>8 DEF Next

(***************************************************************************)
(* The inductive invariant                                                 *)
(***************************************************************************)
\* It holds of an empty cache.
LEMMA InvInit == Init => IndInv
<1> SUFFICES ASSUME Init PROVE IndInv
  OBVIOUS
<1>1. TypeOK
  BY DEF Init, TypeOK, Cache, Build
<1>2. \A b \in Builds : build[b].state = "over" /\ build[b].version = 0
  BY DEF Init
<1> QED BY <1>1, <1>2 DEF Init, IndInv, VersionsOK, ReadsOK, SingleFlight, Pending

\* Every step preserves it.
LEMMA InvStep == IndInv /\ [Next]_vars => IndInv'
<1> SUFFICES ASSUME IndInv, [Next]_vars PROVE IndInv'
  OBVIOUS
<1>1. TypeOK /\ VersionsOK /\ ReadsOK /\ SingleFlight
  BY DEF IndInv
<1>2. TypeOK'
  BY <1>1, TypeStep
<1>3. SUFFICES VersionsOK' /\ ReadsOK' /\ SingleFlight'
  BY <1>2 DEF IndInv
<1>4. /\ cache.version \in Nat /\ data \in Nat /\ cleared \in Nat
      /\ cache.task \in Builds \cup {None}
      /\ build \in [Builds -> Build]
      /\ \A b \in Builds : build[b].version \in Nat /\ build[b].read \in Nat \cup {Unread}
  BY <1>1 DEF TypeOK, Cache, Build
<1>5. None \notin Builds
  BY NoneAssumption
\* Nothing the three parts speak of changes, or the data only grow.
<1>6. ASSUME UNCHANGED <<cleared, build>>, data' \in {data, data + 1},
             cache'.task = cache.task, cache'.version = cache.version
      PROVE  VersionsOK' /\ ReadsOK' /\ SingleFlight'
  BY <1>1, <1>4, <1>6 DEF VersionsOK, ReadsOK, SingleFlight, Pending
<1>7. CASE Change
  BY <1>6, <1>7 DEF Change
\* A new version: no build is of it, so nothing is claimed of any build.
<1>8. CASE Clear
  <2>1. \A b \in Builds : build[b].version < cache'.version
    BY <1>1, <1>4, <1>8 DEF Clear, VersionsOK
  <2>2. VersionsOK' /\ ReadsOK'
    BY <1>4, <1>8, <2>1 DEF Clear, VersionsOK, ReadsOK
  <2>3. SingleFlight'
    BY <1>1, <1>4, <1>8, <2>1 DEF Clear, SingleFlight, Pending
  <2> QED BY <2>2, <2>3
<1>9. CASE Expire
  BY <1>4, <1>6, <1>9 DEF Expire
<1>10. ASSUME NEW r \in Requests, Request(r)
       PROVE  VersionsOK' /\ ReadsOK' /\ SingleFlight'
  <2>1. CASE HearBuild(r) \/ TimeOut(r) \/ Leave(r) \/ Join(r)
    BY <1>1, <1>6, <2>1, RequestKeeps
  \* No build of this version runs: it would be the cached task.
  <2>2. ASSUME NEW b \in Builds, StartBuild(r, b)
        PROVE  VersionsOK' /\ ReadsOK' /\ SingleFlight'
    <3>1. /\ UNCHANGED <<data, clearing, cleared>>
          /\ build'[b] = [state |-> "running", version |-> cache.version, read |-> Unread]
          /\ \A c \in Builds \ {b} : build'[c] = build[c]
          /\ cache'.task = b /\ cache'.version = cache.version
      BY <1>1, <2>2, StartedBuild
    <3>2. \A c \in Builds : Pending(c) => build[c].version # cache.version
      BY <1>1, <2>2 DEF StartBuild, SingleFlight
    <3>3. VersionsOK' /\ ReadsOK'
      BY <1>1, <1>4, <3>1 DEF VersionsOK, ReadsOK
    <3>4. SingleFlight'
      BY <1>1, <1>5, <3>1, <3>2 DEF SingleFlight, Pending
    <3> QED BY <3>3, <3>4
  <2>3. CASE Serve(r)
    BY <1>6, <2>3 DEF Serve, vars
  <2> QED BY <1>10, <2>1, <2>2, <2>3 DEF Request
\* A build reads the data of now, which no clear is ahead of.
<1>11. ASSUME NEW b \in Builds, Read(b)
       PROVE  VersionsOK' /\ ReadsOK' /\ SingleFlight'
  <2>1. /\ UNCHANGED <<data, cleared, cache>>
        /\ build'[b].read = data
        /\ \A c \in Builds : build'[c].state = build[c].state
                            /\ build'[c].version = build[c].version
        /\ \A c \in Builds \ {b} : build'[c].read = build[c].read
    BY <1>4, <1>11 DEF Read
  <2> QED BY <1>1, <1>4, <2>1 DEF VersionsOK, ReadsOK, SingleFlight, Pending
<1>12. ASSUME NEW b \in Builds, End(b)
       PROVE  VersionsOK' /\ ReadsOK' /\ SingleFlight'
  <2>1. /\ UNCHANGED <<data, cleared, cache>>
        /\ build'[b].state \in {"returned", "raised"}
        /\ build'[b].read \in {build[b].read, Unread}
        /\ build'[b].version = build[b].version
        /\ build[b].state = "running"
        /\ \A c \in Builds \ {b} : build'[c] = build[c]
    BY <1>4, <1>12 DEF End, Build
  <2> QED BY <1>1, <1>4, <2>1 DEF VersionsOK, ReadsOK, SingleFlight, Pending
<1>13. ASSUME NEW b \in Builds, Report(b)
       PROVE  VersionsOK' /\ ReadsOK' /\ SingleFlight'
  <2>1. /\ UNCHANGED <<data, cleared>>
        /\ build'[b].state = "over" /\ build'[b].version = 0
        /\ \A c \in Builds \ {b} : build'[c] = build[c]
        /\ cache'.version = cache.version
        /\ cache'.task = IF build[b].version = cache.version /\ cache.task = b
                         THEN None ELSE cache.task
    <3>1. /\ UNCHANGED <<data, cleared>>
          /\ build' = [build EXCEPT ![b].state = "over", ![b].version = 0]
          /\ cache'.version = cache.version
          /\ cache'.task = IF build[b].version = cache.version /\ cache.task = b
                           THEN None ELSE cache.task
      BY <1>1, <1>13, ReportedBuild
    <3>2. build[b] \in Build
      BY <1>4
    <3>3. build'[b] = [build[b] EXCEPT !.state = "over", !.version = 0]
          /\ \A c \in Builds \ {b} : build'[c] = build[c]
      BY <1>4, <3>1
    <3>4. build'[b].state = "over" /\ build'[b].version = 0
      BY <3>2, <3>3 DEF Build
    <3> QED BY <3>1, <3>3, <3>4
  \* The cached task is of this version, so the cache keeps no ended build.
  <2>2. cache'.task # b
    BY <1>1, <1>5, <2>1 DEF VersionsOK
  <2>3. build[b].state # "running"
    BY <1>13 DEF Report
  <2>4. VersionsOK'
    BY <1>1, <1>4, <2>1, <2>2 DEF VersionsOK
  <2>5. ReadsOK'
    BY <1>1, <1>4, <2>1 DEF ReadsOK
  <2>6. SingleFlight'
    BY <1>1, <1>5, <2>1, <2>3 DEF SingleFlight, Pending
  <2> QED BY <2>4, <2>5, <2>6
<1>14. CASE UNCHANGED vars
  BY <1>6, <1>14 DEF vars
<1> QED BY <1>7, <1>8, <1>9, <1>10, <1>11, <1>12, <1>13, <1>14 DEF Next

(***************************************************************************)
(* Theorems                                                                *)
(***************************************************************************)
\* The inductive invariant holds of every reachable state.
THEOREM Inductive == Spec => []IndInv
BY InvInit, InvStep, PTL DEF Spec

\* Every variable keeps its type.
THEOREM TypeCorrect == Spec => []TypeOK
<1>1. IndInv => TypeOK
  BY DEF IndInv
<1> QED BY <1>1, Inductive, PTL

\* One version of the cache has at most one build in progress, and later
\* requests find it, however many builds and requests there are.
THEOREM OneBuildPerVersion == Spec => []SingleFlight
<1>1. IndInv => SingleFlight
  BY DEF IndInv
<1> QED BY <1>1, Inductive, PTL

\* Who joins the build in the cache sees the last operator's change.
THEOREM JoinersSeeTheChange == Spec => []JoinedBuildIsFresh
<1>1. IndInv => JoinedBuildIsFresh
  <2> SUFFICES ASSUME IndInv, Pending(cache.task), build[cache.task].read # Unread
               PROVE  build[cache.task].read >= cleared
    BY DEF JoinedBuildIsFresh
  <2>1. cache.task \in Builds
    BY DEF IndInv, TypeOK, Cache, Pending
  <2> QED BY <2>1, NoneAssumption DEF IndInv, VersionsOK, ReadsOK, Pending
<1> QED BY <1>1, Inductive, PTL

\* A callback never puts a payload back that an operator's change outdated.
THEOREM CallbacksRespectClears == Spec => ReportIsFresh
<1>1. ASSUME IndInv,
             NEW b \in Builds, Report(b), cache'.payload \in Nat,
             cache'.payload # cache.payload
      PROVE  cache'.payload >= cleared
  <2>1. cache \in Cache /\ build[b] \in Build
    BY <1>1 DEF IndInv, TypeOK
  <2>2. build[b].version = cache.version
    BY <1>1 DEF Report
  <2>3. build[b].state = "returned"
    BY <1>1, <2>1, <2>2 DEF Report, Forget, Cache
  <2>4. cache'.payload = build[b].read /\ build[b].read # Unread
    BY <1>1, <2>1, <2>2, <2>3 DEF Report, Forget, Store, Cache, Build
  <2> QED BY <1>1, <2>2, <2>3, <2>4 DEF IndInv, ReadsOK
<1> DEFINE A == \A b \in Builds :
                  Report(b) /\ cache'.payload \in Nat /\ cache'.payload # cache.payload =>
                      cache'.payload >= cleared
<1>2. IndInv /\ [Next]_vars => [A]_vars
  BY <1>1
<1> HIDE DEF A
<1>3. [][A]_vars => ReportIsFresh
  BY PTL DEF ReportIsFresh, A
<1> QED BY <1>2, <1>3, Inductive, PTL DEF Spec
===============================================================================
