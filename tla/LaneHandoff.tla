------------------------------ MODULE LaneHandoff ------------------------------
(***************************************************************************)
(* The hand-off between two Massive lanes.  A pull of the live lane        *)
(* downloads trade slices and writes the lane's manifest; a derivation     *)
(* reads that manifest and writes the block feed with a manifest of its    *)
(* own.  The work queue judges both lanes by their manifests alone, the    *)
(* scheduler's tick and the manual refresh run what it finds due, and a    *)
(* signal is let through when both lanes satisfy its requirement.          *)
(*                                                                         *)
(* The progress files of the two jobs play no part.  The queue asks of a   *)
(* progress row that its window be the lane's, and the rows it is given    *)
(* carry none: no lane with a window ever shows as RUNNING.                *)
(*                                                                         *)
(* A manifest is written in place, so it is first cut short, which reads   *)
(* as absent, then whole.  Time is counted in spans of the lanes'          *)
(* freshness requirement: what was stamped in an earlier span is stale.    *)
(***************************************************************************)
EXTENDS Integers

CONSTANTS
    Tickers,    \* the active universe: all tickers of the lanes' tiers
    Slices,     \* what the provider may answer for each ticker
    Sessions,   \* the market sessions a behaviour may begin in
    Requests,   \* requests for a manual refresh, each made at most once
    MaxTurns,   \* bound: changes of the market session
    MaxAge,     \* bound: spans of time that pass
    MaxFaults   \* bound: kills, slices without a result, unreadable partitions

Tick == "tick"
Workers == {Tick} \cup Requests
Lanes == {"live", "feed"}
Phases == {"pre_market", "regular_market", "after_hours", "closed", "night"}

\* From the end of extended hours; a night, a weekend or a holiday has another
\* date than the last trading day.
Shut == {"closed", "night"}

\* The result of a ticker's slice.  An empty one is partial without rows; one
\* that raises leaves no row but an issue.
Outcomes == {"complete", "usable", "empty", "failed", "raised"}

ASSUME ScopeAssumption ==
    /\ Tickers # {} /\ Slices \in [Tickers -> SUBSET Outcomes]
    /\ Sessions \subseteq Phases /\ Tick \notin Requests
ASSUME BoundsAssumption == {MaxTurns, MaxAge, MaxFaults} \subseteq Nat

VARIABLES
    phase, day,     \* the market session, and the day the lanes' window is
    skip,           \* the extraction plan finds the live lane covered
    turns, age,     \* changes of session; spans passed
    clock,          \* the last time stamp given
    live, feed,     \* the lane manifests
    done,           \* executed_job_ids: the tick runs while there are any
    pc,             \* each worker's next step
    task,           \* what its command line says
    held,           \* what it has read and will write
    asked,          \* the requests made
    mixed,          \* history: derivations that ran beside a pull
    faults

session == <<phase, day, skip, turns, age>>
disk == <<live, feed>>
vars == <<session, clock, disk, done, pc, task, held, asked, mixed, faults>>

-------------------------------------------------------------------------------
\* A ticker's row in the coverage of a live manifest.
NoRow == [got |-> "none", at |-> 0]
Rows == [got : (Outcomes \ {"raised"}) \cup {"none"}, at : 0 .. MaxAge]

\* Manifests: the day of the window, 0 when none can be read; the stamp of
\* fetched_at and its span.
NoLive == [day |-> 0, stamp |-> 0, at |-> 0, issues |-> FALSE,
           rows |-> [t \in Tickers |-> NoRow]]
NoFeed == [day |-> 0, stamp |-> 0, at |-> 0, blocked |-> FALSE, from |-> 0,
           covers |-> {}, mixed |-> FALSE]

Idle == [lane |-> "live", day |-> 0, tickers |-> {}]
Nothing == [live |-> NoLive, feed |-> NoFeed]

LiveManifests == [day : Nat, stamp : Nat, at : 0 .. MaxAge, issues : BOOLEAN,
                  rows : [Tickers -> Rows]]
FeedManifests == [day : Nat, stamp : Nat, at : 0 .. MaxAge, blocked : BOOLEAN,
                  from : Nat, covers : SUBSET Tickers, mixed : BOOLEAN]

TypeOK ==
    /\ phase \in Phases /\ day \in Nat \ {0} /\ skip \in BOOLEAN
    /\ phase \in Shut => ~skip
    /\ turns \in 0 .. MaxTurns /\ age \in 0 .. MaxAge /\ clock \in Nat
    /\ live \in LiveManifests /\ feed \in FeedManifests
    /\ done \subseteq Lanes
    /\ pc \in [Workers -> {"idle", "asked", "pull", "read", "derive", "open", "close"}]
    /\ task \in [Workers -> [lane : Lanes, day : Nat, tickers : SUBSET Tickers]]
    /\ held \in [Workers -> [live : LiveManifests, feed : FeedManifests]]
    /\ asked \subseteq Requests /\ mixed \subseteq Workers
    /\ faults \in 0 .. MaxFaults

Init ==
    /\ phase \in Sessions /\ day = 1
    /\ skip \in {b \in BOOLEAN : b => phase \notin Shut}
    /\ turns = 0 /\ age = 0 /\ clock = 0
    /\ live = NoLive /\ feed = NoFeed
    /\ done = {}
    /\ pc = [w \in Workers |-> "idle"]
    /\ task = [w \in Workers |-> Idle]
    /\ held = [w \in Workers |-> Nothing]
    /\ asked = {} /\ mixed = {} /\ faults = 0

(***************************************************************************)
(* The work queue                                                          *)
(***************************************************************************)
\* _live_lane_coverage_usable
Usable(m) == {t \in Tickers : m.rows[t].got \in {"complete", "usable"}}
Failed(m) == {t \in Tickers : m.rows[t].got = "failed"}
Covered(m) == {t \in Tickers : m.rows[t].got # "none"}

\* The status a pull gives its manifest, _live_lane_status.
LiveWord(m) ==
    IF m.issues \/ Covered(m) = {} \/ Usable(m) # Covered(m) THEN "partial"
    ELSE IF \A t \in Covered(m) : m.rows[t].got = "complete" THEN "complete"
    ELSE "partial_usable"

\* _closed_market_lane_manifest_current
ClosedCurrent(m) == phase \in Shut /\ m.day >= day

Current(m) == m.at = age \/ ClosedCurrent(m)

\* _fresh_massive_lane_tickers
Fresh == {t \in Usable(live) : live.day = day /\ (live.rows[t].at = age \/ ClosedCurrent(live))}

\* Mutant: an empty slice counts as attempted too.
Mut_Attempted ==
    {t \in Tickers : live.day = day /\ live.rows[t].got \in {"failed", "empty"}}

\* _failed_massive_lane_tickers
Attempted == {t \in Failed(live) : live.day = day}

\* _command_scope_tickers: a failed slice is not tried again in its window.
Pending == Tickers \ (Fresh \cup Attempted)

LiveStatus == IF skip \/ Pending = {} THEN "SKIPPED" ELSE "DUE_NOW"

\* _local_derivation_action
Derives == phase \in {"regular_market"} \cup Shut

\* _lane_manifest_usable of the source, for the window of the feed: that is
\* the date, where the window of the live lane is the trading day.
SourceReady ==
    phase # "night" /\ live.day # 0 /\ live.day = day /\ LiveWord(live) # "partial"

\* Mutant: a feed older than its source is taken for current.
Mut_FeedStatus ==
    IF ~Derives THEN "DEFERRED"
    ELSE IF ~SourceReady THEN "WAITING"
    ELSE IF feed.day # day \/ feed.blocked THEN "DUE_NOW"
    ELSE "READY_FROM_RAW"

\* _local_derivation_lane_status
FeedStatus ==
    IF ~Derives THEN "DEFERRED"
    ELSE IF ~SourceReady THEN "WAITING"
    ELSE IF feed.day # day \/ feed.blocked \/ feed.stamp < live.stamp THEN "DUE_NOW"
    ELSE "READY_FROM_RAW"

Due == {l \in Lanes : IF l = "live" THEN LiveStatus = "DUE_NOW" ELSE FeedStatus = "DUE_NOW"}

\* _massive_manifest_health: the lanes block execution.
LiveHealth ==
    IF live.day = 0 THEN "block"
    ELSE IF LiveWord(live) = "complete" /\ live.at = age THEN "pass"
    ELSE IF ~Current(live) THEN "block"
    ELSE IF LiveWord(live) = "partial_usable" THEN "pass"
    ELSE "warn"

FeedBlocks == feed.day = 0 \/ feed.blocked \/ ~Current(feed)

\* _raw_requirement_gate of block_trade_pressure, which needs both lanes.
LiveSatisfied ==
    /\ LiveStatus = "SKIPPED"
    /\ skip \/ (Fresh = Tickers /\ LiveHealth = "pass")

SignalReady ==
    /\ LiveSatisfied /\ FeedStatus = "READY_FROM_RAW"
    /\ LiveHealth # "block" /\ ~FeedBlocks

-------------------------------------------------------------------------------
Goto(w, step) == pc' = [pc EXCEPT ![w] = step]

Fault == faults < MaxFaults /\ faults' = faults + 1

Busy(w) == pc[w] \notin {"idle", "asked"}
Pulling(w) == Busy(w) /\ task[w].lane = "live"
Deriving(w) == Busy(w) /\ task[w].lane = "feed"

\* The process of a command starts: its lane, the window, and for a pull the
\* tickers that are pending.
Start(w, l) ==
    /\ Goto(w, IF l = "live" THEN "pull" ELSE "read")
    /\ task' = [task EXCEPT ![w] =
            [lane |-> l, day |-> day, tickers |-> IF l = "live" THEN Pending ELSE Tickers]]
    /\ mixed' = IF l = "live" THEN mixed \cup {v \in Workers : Deriving(v)}
                ELSE IF \E v \in Workers : Pulling(v) THEN mixed \cup {w}
                ELSE mixed \ {w}
    /\ UNCHANGED <<session, clock, disk, held, faults>>

\* It ends; a failed command ends the tick that ran it.
Finish(w, ok) ==
    /\ Goto(w, "idle")
    /\ task' = [task EXCEPT ![w] = Idle]
    /\ held' = [held EXCEPT ![w] = Nothing]
    /\ mixed' = mixed \ {w}
    /\ done' = IF w = Tick /\ ~ok THEN {} ELSE done

(***************************************************************************)
(* The tick and the manual refresh                                         *)
(***************************************************************************)
\* The first due lane the tick has not run: the live lane has the higher
\* priority in every session.
TickLaunch ==
    /\ pc[Tick] = "idle"
    /\ \E l \in Due \ done :
        /\ l = "feed" => "live" \notin Due \ done
        /\ Start(Tick, l)
        /\ done' = done \cup {l}
    /\ UNCHANGED asked

EndTick ==
    /\ pc[Tick] = "idle" /\ done # {} /\ Due \subseteq done
    /\ done' = {}
    /\ UNCHANGED <<session, clock, disk, pc, task, held, asked, mixed, faults>>

\* The manual refresh tests once whether a tick runs, then reads the queue.
Ask(w) ==
    /\ w \in Requests \ asked /\ pc[w] = "idle" /\ done = {}
    /\ asked' = asked \cup {w}
    /\ Goto(w, "asked")
    /\ UNCHANGED <<session, clock, disk, done, task, held, mixed, faults>>

ManualLaunch(w) ==
    /\ pc[w] = "asked"
    /\ \E l \in Due : Start(w, l)
    /\ UNCHANGED <<done, asked>>

Refuse(w) ==
    /\ pc[w] = "asked" /\ Due # Lanes
    /\ Goto(w, "idle")
    /\ UNCHANGED <<session, clock, disk, done, task, held, asked, mixed, faults>>

(***************************************************************************)
(* pull_massive_stock_trades.py                                            *)
(***************************************************************************)
\* Mutant: a slice that raised gets a row.
Mut_Merged(w, got) ==
    LET base == IF live.day = task[w].day THEN live.rows ELSE NoLive.rows IN
    [day |-> task[w].day, stamp |-> clock + 1, at |-> age,
     issues |-> \E t \in task[w].tickers : got[t] = "raised",
     rows |-> [t \in Tickers |->
        IF t \in task[w].tickers THEN [got |-> got[t], at |-> age] ELSE base[t]]]

\* The slices arrive and are merged into the manifest of the same window.
Merged(w, got) ==
    LET base == IF live.day = task[w].day THEN live.rows ELSE NoLive.rows IN
    [day |-> task[w].day, stamp |-> clock + 1, at |-> age,
     issues |-> \E t \in task[w].tickers : got[t] = "raised",
     rows |-> [t \in Tickers |->
        IF t \in task[w].tickers /\ got[t] # "raised" THEN [got |-> got[t], at |-> age]
        ELSE base[t]]]

Download(w) ==
    /\ pc[w] = "pull"
    /\ \E got \in [task[w].tickers -> Outcomes] :
        /\ \A t \in task[w].tickers : got[t] \in Slices[t]
        /\ held' = [held EXCEPT ![w] = [live |-> Merged(w, got), feed |-> NoFeed]]
        /\ IF \E t \in task[w].tickers : got[t] \in {"empty", "raised"}
           THEN Fault ELSE UNCHANGED faults
    /\ clock' = clock + 1
    /\ Goto(w, "open")
    /\ UNCHANGED <<session, disk, done, task, asked, mixed>>

(***************************************************************************)
(* derive_massive_block_trade_feed.py                                      *)
(***************************************************************************)
FeedOf(w, from, covers, blocked) ==
    [day |-> task[w].day, stamp |-> clock + 1, at |-> age, blocked |-> blocked,
     from |-> from, covers |-> covers, mixed |-> FALSE]

\* The source manifest is read; one that is missing or of another window
\* leaves a blocked manifest.
ReadSource(w) ==
    /\ pc[w] = "read"
    /\ IF live.day = task[w].day
       THEN /\ held' = [held EXCEPT ![w] = [live |-> live, feed |-> NoFeed]]
            /\ Goto(w, "derive")
            /\ UNCHANGED clock
       ELSE /\ held' = [held EXCEPT ![w] = [live |-> NoLive, feed |-> FeedOf(w, 0, {}, TRUE)]]
            /\ Goto(w, "open")
            /\ clock' = clock + 1
    /\ UNCHANGED <<session, disk, done, task, asked, mixed, faults>>

\* The rows of the usable tickers are derived, then the manifest is stamped.
Derive(w) ==
    /\ pc[w] = "derive"
    /\ held' = [held EXCEPT ![w] = [live |-> held[w].live, feed |->
            FeedOf(w, held[w].live.stamp, Usable(held[w].live) \cap task[w].tickers, FALSE)]]
    /\ clock' = clock + 1
    /\ Goto(w, "open")
    /\ UNCHANGED <<session, disk, done, task, asked, mixed, faults>>

(***************************************************************************)
(* write_lane_manifest                                                     *)
(***************************************************************************)
OnDisk(w) == IF task[w].lane = "live" THEN live.day ELSE feed.day

\* _preserve_existing_newer_window
Superseded(w) == OnDisk(w) > task[w].day

\* The process exits: a pull with 0 whatever its slices say, a derivation only if
\* every ticker of the command could be read, from its source and from disk.
Exit(w) ==
    \E unread \in BOOLEAN :
        /\ unread => task[w].lane = "feed" /\ ~held[w].feed.blocked
        /\ IF unread THEN Fault ELSE UNCHANGED faults
        /\ Finish(w, task[w].lane = "live" \/ (held[w].feed.covers = task[w].tickers /\ ~unread))

\* A newer window is left in place; else the file is opened, which empties it.
Open(w) ==
    /\ pc[w] = "open"
    /\ \/ Superseded(w) /\ Exit(w) /\ UNCHANGED disk
       \/ /\ ~Superseded(w)
          /\ Goto(w, "close")
          /\ IF task[w].lane = "live" THEN live' = NoLive /\ feed' = feed
             ELSE feed' = NoFeed /\ live' = live
          /\ UNCHANGED <<done, task, held, mixed, faults>>
    /\ UNCHANGED <<session, clock, asked>>

Close(w) ==
    /\ pc[w] = "close"
    /\ IF task[w].lane = "live" THEN live' = held[w].live /\ feed' = feed
       ELSE feed' = [held[w].feed EXCEPT !.mixed = w \in mixed] /\ live' = live
    /\ Exit(w)
    /\ UNCHANGED <<session, clock, asked>>

\* A process is killed, by its timeout or with the host, or raises.
Kill(w) ==
    /\ Busy(w) /\ Fault /\ Finish(w, FALSE)
    /\ UNCHANGED <<session, clock, disk, asked>>

(***************************************************************************)
(* The session and time                                                    *)
(***************************************************************************)
After == [pre_market |-> "regular_market", regular_market |-> "after_hours",
               after_hours |-> "closed", closed |-> "night", night |-> "pre_market"]

Turn ==
    /\ turns < MaxTurns /\ turns' = turns + 1
    /\ phase' = After[phase]
    /\ day' = IF phase = "night" THEN day + 1 ELSE day
    /\ skip' \in {b \in BOOLEAN : b => phase' \notin Shut}
    /\ UNCHANGED <<age, clock, disk, done, pc, task, held, asked, mixed, faults>>

Pass ==
    /\ age < MaxAge /\ age' = age + 1
    /\ UNCHANGED <<phase, day, skip, turns, clock, disk, done, pc, task, held, asked, mixed, faults>>

Step(w) == Download(w) \/ ReadSource(w) \/ Derive(w) \/ Open(w) \/ Close(w)

Next ==
    \/ TickLaunch \/ EndTick \/ Turn \/ Pass
    \/ \E w \in Requests : Ask(w) \/ ManualLaunch(w) \/ Refuse(w)
    \/ \E w \in Workers : Step(w) \/ Kill(w)

Spec == Init /\ [][Next]_vars

\* The tick is an interval job, and a process that is not killed gets on.
Fairness ==
    /\ WF_vars(TickLaunch) /\ WF_vars(EndTick)
    /\ \A w \in Workers : WF_vars(Step(w))

FairSpec == Spec /\ Fairness

-------------------------------------------------------------------------------
(***************************************************************************)
(* Properties                                                              *)
(***************************************************************************)
\* A signal that is let through reads a block feed derived from the very slices
\* the queue counted: from this manifest of the live lane, of this day, and of
\* every ticker usable in it, which are all when the lane is not skipped.
\* Unless a pull ran beside the derivation: the derivation reads its source
\* before it stamps its manifest, so slices written in between look older.
HandOffIsWhole ==
    SignalReady /\ ~feed.mixed =>
        /\ feed.day = day /\ live.day = day
        /\ feed.from = live.stamp
        /\ feed.covers = Usable(live)
        /\ skip \/ feed.covers = Tickers

\* The lanes settle: the tick gets the live lane to where nothing is due, and
\* the feed to READY_FROM_RAW, through kills, torn manifests, lost updates, and
\* changes of session.  The code itself gives up the feed at night, and when a
\* slice failed, which is not tried again in its window, or left an issue behind.
FeedIsDerivable ==
    Derives /\ phase # "night" /\ ~skip /\ Failed(live) = {} /\ ~live.issues

Settled ==
    /\ LiveStatus = "SKIPPED"
    /\ FeedIsDerivable => FeedStatus = "READY_FROM_RAW"

LanesSettle == []<>Settled
===============================================================================
