------------------------------ MODULE StatusCache ------------------------------
(***************************************************************************)
(* One status cache of the dashboard: the last payload and its expiry, the *)
(* build in progress, and a version that an operator's change advances.    *)
(* Three routes have such a cache each, all with this protocol.            *)
(*                                                                         *)
(* Requests are coroutines and interleave where they wait for the build;   *)
(* the lookup, with the lock it takes, has no await and is one step.  The  *)
(* build runs in a thread.  When it ends its callback stores the payload,  *)
(* and only then do the requests that wait for it wake, one by one, and    *)
(* store it again.                                                         *)
(***************************************************************************)
EXTENDS Integers, FiniteSets

CONSTANTS
    Requests,     \* requests in progress together
    Builds,       \* builds alive together: those an old version left behind too
    None,         \* no payload, no build
    StandIns,     \* payloads of the timeout factory
    Recognised,   \* those of them that _is_status_timeout_payload recognises
    MaxData       \* bound: changes of the data in a behaviour

ASSUME NoneAssumption == None \notin Builds /\ None \notin Nat /\ None \notin StandIns
ASSUME StandInAssumption == StandIns \cap Nat = {} /\ Recognised \subseteq StandIns
ASSUME BoundAssumption == MaxData \in Nat

VARIABLES
    data,       \* the version of what a build reads
    clearing,   \* operator handlers between their commit and their clear
    cleared,    \* history: the data at the last clear
    cache,      \* payload, whether it has not expired, build task, version
    build,      \* each build: its state, cache version, what it read
    waits       \* the build each request waits for

vars == <<data, clearing, cleared, cache, build, waits>>

Unread == -1

Cache == [payload : Nat \cup StandIns \cup {None}, live : BOOLEAN,
          task : Builds \cup {None}, version : Nat]

Build == {b \in [state : {"running", "returned", "raised", "over"},
                 version : Nat, read : Nat \cup {Unread}] :
            b.state = "returned" => b.read # Unread}

TypeOK ==
    /\ data \in Nat
    /\ clearing \in Nat
    /\ cleared \in Nat
    /\ cache \in Cache
    /\ build \in [Builds -> Build]
    /\ waits \in [Requests -> Builds \cup {None}]

Init ==
    /\ data = 0
    /\ clearing = 0
    /\ cleared = 0
    /\ cache = [payload |-> None, live |-> FALSE, task |-> None, version |-> 0]
    /\ build = [b \in Builds |-> [state |-> "over", version |-> 0, read |-> Unread]]
    /\ waits = [r \in Requests |-> None]

(***************************************************************************)
(* Changes of the data, the operator's clear, time                         *)
(***************************************************************************)
\* A refresh changes the data and clears nothing; an operator's handler
\* commits and clears some awaits later, if it lives.
Change ==
    /\ data < MaxData
    /\ data' = data + 1
    /\ clearing' \in {clearing, clearing + 1}
    /\ UNCHANGED <<cleared, cache, build, waits>>

\* Mutant: a clear leaves the build in progress to the requests that follow.
Mut_Clear ==
    /\ clearing > 0
    /\ clearing' = clearing - 1
    /\ cleared' = data
    /\ cache' = [cache EXCEPT !.payload = None, !.live = FALSE, !.version = @ + 1]
    /\ UNCHANGED <<data, build, waits>>

Clear ==
    /\ clearing > 0
    /\ clearing' = clearing - 1
    /\ cleared' = data
    /\ cache' = [payload |-> None, live |-> FALSE, task |-> None,
                 version |-> cache.version + 1]
    /\ UNCHANGED <<data, build, waits>>

Expire ==
    /\ cache.live
    /\ cache' = [cache EXCEPT !.live = FALSE]
    /\ UNCHANGED <<data, clearing, cleared, build, waits>>

(***************************************************************************)
(* Requests                                                                *)
(***************************************************************************)
Mut_Servable == cache.payload # None     \* Mutant: expires_at is not looked at
Servable == cache.payload # None /\ cache.live

Pending(b) == b # None /\ build[b].state = "running"

\* A recognised timeout payload does not hide a build that may still answer.
Hit == Servable /\ ~(cache.payload \in Recognised /\ Pending(cache.task))

\* Answered from the cache.
Serve(r) ==
    /\ waits[r] = None
    /\ Hit
    /\ UNCHANGED vars

\* A build nobody can reach any more: its place may be used again.
Free(b) == build[b].state = "over" /\ \A r \in Requests : waits[r] # b

Join(r) ==
    /\ waits[r] = None
    /\ ~Hit
    /\ Pending(cache.task)
    /\ waits' = [waits EXCEPT ![r] = cache.task]
    /\ UNCHANGED <<data, clearing, cleared, cache, build>>

\* Mutant: the caller does not see a build that another request began.
Mut_StartBuild(r, b) ==
    /\ waits[r] = None
    /\ ~Hit
    /\ Free(b)
    /\ build' = [build EXCEPT ![b] = [state |-> "running", version |-> cache.version,
                                      read |-> Unread]]
    /\ cache' = [cache EXCEPT !.task = b]
    /\ waits' = [waits EXCEPT ![r] = b]
    /\ UNCHANGED <<data, clearing, cleared>>

StartBuild(r, b) ==
    /\ waits[r] = None
    /\ ~Hit
    /\ ~Pending(cache.task)
    /\ Free(b)
    /\ build' = [build EXCEPT ![b] = [state |-> "running", version |-> cache.version,
                                      read |-> Unread]]
    /\ cache' = [cache EXCEPT !.task = b]
    /\ waits' = [waits EXCEPT ![r] = b]
    /\ UNCHANGED <<data, clearing, cleared>>

Store(payload) == [cache EXCEPT !.payload = payload, !.live = TRUE]

\* Mutant: an exception of the build is stored like a payload.
Mut_HearBuild(r) ==
    /\ waits[r] # None
    /\ build[waits[r]].state = "over"
    /\ cache' = Store(build[waits[r]].read)
    /\ waits' = [waits EXCEPT ![r] = None]
    /\ UNCHANGED <<data, clearing, cleared, build>>

\* The build is over: a payload is stored whatever the cache's version is by
\* now; an exception goes to the caller.
HearBuild(r) ==
    /\ waits[r] # None
    /\ build[waits[r]].state = "over"
    /\ cache' = IF build[waits[r]].read = Unread THEN cache
                ELSE Store(build[waits[r]].read)
    /\ waits' = [waits EXCEPT ![r] = None]
    /\ UNCHANGED <<data, clearing, cleared, build>>

\* Mutant: a request waits for its build without a limit.
Mut_TimeOut(r) ==
    /\ waits[r] # None
    /\ build[waits[r]].state = "raised"
    /\ \E s \in StandIns : cache' = Store(s)
    /\ waits' = [waits EXCEPT ![r] = None]
    /\ UNCHANGED <<data, clearing, cleared, build>>

\* The wait is given up, the shielded build is not.
TimeOut(r) ==
    /\ waits[r] # None
    /\ \E s \in StandIns : cache' = Store(s)
    /\ waits' = [waits EXCEPT ![r] = None]
    /\ UNCHANGED <<data, clearing, cleared, build>>

\* The client goes away.
Leave(r) ==
    /\ waits[r] # None
    /\ waits' = [waits EXCEPT ![r] = None]
    /\ UNCHANGED <<data, clearing, cleared, cache, build>>

(***************************************************************************)
(* Builds                                                                  *)
(***************************************************************************)
\* The thread reads what its payload will show.
Read(b) ==
    /\ build[b].state = "running" /\ build[b].read = Unread
    /\ build' = [build EXCEPT ![b].read = data]
    /\ UNCHANGED <<data, clearing, cleared, cache, waits>>

End(b) ==
    /\ build[b].state = "running"
    /\ \/ /\ build[b].read # Unread
          /\ build' = [build EXCEPT ![b].state = "returned"]
       \/ build' = [build EXCEPT ![b].state = "raised", ![b].read = Unread]
    /\ UNCHANGED <<data, clearing, cleared, cache, waits>>

Forget(b, c) == IF c.task = b THEN [c EXCEPT !.task = None] ELSE c

\* Mutant: the callback does not compare versions.
Mut_Report(b) ==
    /\ build[b].state \in {"returned", "raised"}
    /\ cache' = Forget(b, IF build[b].state = "returned" THEN Store(build[b].read) ELSE cache)
    /\ build' = [build EXCEPT ![b].state = "over", ![b].version = 0]
    /\ UNCHANGED <<data, clearing, cleared, waits>>

\* The done callback, scheduled when the build ended: it stores what belongs
\* to the version the build began in.
Report(b) ==
    /\ build[b].state \in {"returned", "raised"}
    /\ cache' = IF build[b].version # cache.version THEN cache
                ELSE Forget(b, IF build[b].state = "returned" THEN Store(build[b].read)
                               ELSE cache)
    /\ build' = [build EXCEPT ![b].state = "over", ![b].version = 0]
    /\ UNCHANGED <<data, clearing, cleared, waits>>

(***************************************************************************)
(* Specification                                                           *)
(***************************************************************************)
Request(r) == Serve(r) \/ Join(r) \/ (\E b \in Builds : StartBuild(r, b))
              \/ HearBuild(r) \/ TimeOut(r) \/ Leave(r)

Next ==
    \/ Change
    \/ Clear
    \/ Expire
    \/ \E r \in Requests : Request(r)
    \/ \E b \in Builds : Read(b) \/ End(b) \/ Report(b)

\* Timers fire and the event loop runs its callbacks.  A build may hang, and
\* nobody need ask.
Fairness ==
    /\ WF_vars(Expire)
    /\ \A r \in Requests : WF_vars(HearBuild(r) \/ TimeOut(r))

Spec == Init /\ [][Next]_vars /\ Fairness

(***************************************************************************)
(* Properties                                                              *)
(***************************************************************************)
\* At most one build per version of the cache, and a later request can find
\* it: callbacks and waiters of older builds never make the cache forget it.
SingleFlight ==
    /\ \A a, b \in Builds :
          /\ Pending(a) /\ Pending(b) /\ build[a].version = build[b].version
          => a = b
    /\ \A b \in Builds :
          Pending(b) /\ build[b].version = cache.version => cache.task = b

\* Whoever joins a build after an operator's clear sees the operator's change:
\* the build in the cache has read nothing older.
JoinedBuildIsFresh ==
    Pending(cache.task) /\ build[cache.task].read # Unread =>
        build[cache.task].read >= cleared

\* The callback of a build that an operator's clear overtook does not put the
\* old payload back.
ReportIsFresh ==
    [][\A b \in Builds :
          Report(b) /\ cache'.payload \in Nat /\ cache'.payload # cache.payload =>
              cache'.payload >= cleared]_vars

\* A stale payload that a waiting request did put back is not served for ever:
\* when the data stand still, the cache comes to serve nothing from before the
\* last clear.
EventuallyFresh ==
    <>[](Servable /\ cache.payload \in Nat => cache.payload >= cleared)

\* A request that waits is answered, though its build may hang.
WaitsEnd == \A r \in Requests : waits[r] # None ~> waits[r] = None

(***************************************************************************)
(* The inductive invariant                                                 *)
(***************************************************************************)
\* No build is of a version to come, and the cached task, if any, is of the
\* current one and not yet over.
VersionsOK ==
    /\ \A b \in Builds : build[b].version <= cache.version
    /\ cache.task # None =>
          /\ build[cache.task].version = cache.version
          /\ build[cache.task].state # "over"

\* What a build of the current version has read is no older than the clear
\* that began this version.
ReadsOK ==
    /\ cleared <= data
    /\ \A b \in Builds :
          /\ build[b].version = cache.version
          /\ build[b].state # "over"
          /\ build[b].read # Unread
          => build[b].read >= cleared

IndInv == TypeOK /\ VersionsOK /\ ReadsOK /\ SingleFlight
===============================================================================
