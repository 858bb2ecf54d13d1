--------------------------- MODULE LaneHandoffProofs ---------------------------
(***************************************************************************)
(* Proofs about LaneHandoff, for any tickers, requests and bounds: its     *)
(* type invariant, and that a signal let through reads a feed derived from *)
(* the slices the queue counted.                                           *)
(*                                                                         *)
(* The argument: while a derivation that no pull ran beside is under way,  *)
(* the live manifest is the one it read; and the manifest a pull is about  *)
(* to write is stamped later than any feed derived so.                     *)
(***************************************************************************)
EXTENDS LaneHandoff, TLAPS

\* What a worker's step says about its task and what it holds.
Locals ==
    \A w \in Workers :
        /\ pc[w] = "pull" => task[w].lane = "live"
        /\ pc[w] \in {"read", "derive"} => task[w].lane = "feed"
        /\ task[w].lane = "feed" => task[w].tickers = Tickers
        /\ held[w].feed.stamp <= clock

\* A derivation is marked as soon as a pull runs beside it.
Overlaps == \A v, w \in Workers : Pulling(v) /\ Deriving(w) => w \in mixed

\* What a feed manifest must say of its source.
Tells(m) == ~m.blocked => m.from = live.stamp /\ m.covers = Usable(live)

\* An unmarked derivation holds the live manifest, then tells of it.
Sources ==
    \A w \in Workers : Deriving(w) /\ w \notin mixed =>
        /\ pc[w] = "derive" => held[w].live = live
        /\ pc[w] \in {"open", "close"} => Tells(held[w].feed)

\* The feed on disk tells of the live manifest, unless a later one was written.
FeedTells ==
    feed.day # 0 /\ live.day # 0 /\ ~feed.mixed /\ feed.stamp >= live.stamp => Tells(feed)

\* What a pull will write is stamped later than the feed on disk.
Pulls ==
    /\ feed.stamp <= clock
    /\ \A w \in Workers :
        Pulling(w) /\ pc[w] # "pull" /\ feed.day # 0 /\ ~feed.mixed /\ ~feed.blocked
            => feed.stamp < held[w].live.stamp

(***************************************************************************)
(* Types                                                                   *)
(***************************************************************************)
LEMMA RecordsTyped ==
    /\ NoLive \in LiveManifests /\ NoFeed \in FeedManifests
    /\ Idle \in [lane : Lanes, day : Nat, tickers : SUBSET Tickers]
    /\ Nothing \in [live : LiveManifests, feed : FeedManifests]
<1>1. 0 \in 0 .. MaxAge
  BY BoundsAssumption
<1>2. NoRow \in Rows
  BY <1>1 DEF NoRow, Rows
<1>3. NoLive \in LiveManifests /\ NoFeed \in FeedManifests
  BY <1>1, <1>2 DEF NoLive, NoFeed, LiveManifests, FeedManifests
<1> QED
  BY <1>3 DEF Idle, Nothing, Lanes

LEMMA InitTyped == Init => TypeOK
<1>1. SUFFICES ASSUME Init PROVE TypeOK
  OBVIOUS
<1>2. 0 \in 0 .. MaxTurns /\ 0 \in 0 .. MaxAge /\ 0 \in 0 .. MaxFaults
  BY BoundsAssumption
<1>3. phase \in Phases /\ skip \in BOOLEAN /\ (phase \in Shut => ~skip)
  BY <1>1, ScopeAssumption DEF Init
<1> QED
  BY <1>1, <1>2, <1>3, RecordsTyped DEF Init, TypeOK

\* A process that starts or exits leaves its variables typed.
LEMMA StartTyped ==
    ASSUME TypeOK, NEW w \in Workers, NEW l \in Lanes, Start(w, l)
    PROVE  /\ pc' \in [Workers -> {"idle", "asked", "pull", "read", "derive", "open", "close"}]
           /\ task' \in [Workers -> [lane : Lanes, day : Nat, tickers : SUBSET Tickers]]
           /\ mixed' \subseteq Workers
<1>1. Pending \subseteq Tickers
  BY DEF Pending
<1>2. [lane |-> l, day |-> day, tickers |-> IF l = "live" THEN Pending ELSE Tickers]
        \in [lane : Lanes, day : Nat, tickers : SUBSET Tickers]
  BY <1>1 DEF TypeOK
<1>3. task' \in [Workers -> [lane : Lanes, day : Nat, tickers : SUBSET Tickers]]
  BY <1>2 DEF Start, TypeOK
<1>4. pc' \in [Workers -> {"idle", "asked", "pull", "read", "derive", "open", "close"}]
  BY DEF Start, Goto, TypeOK
<1>5. mixed' \subseteq Workers
  BY DEF Start, TypeOK
<1> QED
  BY <1>3, <1>4, <1>5

LEMMA FinishTyped ==
    ASSUME TypeOK, NEW w \in Workers, NEW ok, Finish(w, ok)
    PROVE  /\ pc' \in [Workers -> {"idle", "asked", "pull", "read", "derive", "open", "close"}]
           /\ task' \in [Workers -> [lane : Lanes, day : Nat, tickers : SUBSET Tickers]]
           /\ held' \in [Workers -> [live : LiveManifests, feed : FeedManifests]]
           /\ mixed' \subseteq Workers /\ done' \subseteq Lanes
<1>1. pc' \in [Workers -> {"idle", "asked", "pull", "read", "derive", "open", "close"}]
  BY DEF Finish, Goto, TypeOK
<1>2. /\ task' \in [Workers -> [lane : Lanes, day : Nat, tickers : SUBSET Tickers]]
      /\ held' \in [Workers -> [live : LiveManifests, feed : FeedManifests]]
  BY RecordsTyped DEF Finish, TypeOK
<1>3. mixed' \subseteq Workers /\ done' \subseteq Lanes
  BY DEF Finish, TypeOK
<1> QED
  BY <1>1, <1>2, <1>3

LEMMA FaultTyped == ASSUME TypeOK, Fault PROVE faults' \in 0 .. MaxFaults
  BY BoundsAssumption DEF TypeOK, Fault

\* An exit is a Finish, with or without a fault.
LEMMA ExitFinishes ==
    ASSUME TypeOK, NEW w \in Workers, Exit(w)
    PROVE  /\ \E ok \in BOOLEAN : Finish(w, ok)
           /\ faults' \in 0 .. MaxFaults
<1>1. PICK unread \in BOOLEAN :
        /\ IF unread THEN Fault ELSE UNCHANGED faults
        /\ Finish(w, task[w].lane = "live"
                     \/ (held[w].feed.covers = task[w].tickers /\ ~unread))
  BY DEF Exit
<1>2. \E ok \in BOOLEAN : Finish(w, ok)
  BY <1>1
<1>3. faults' \in 0 .. MaxFaults
  BY <1>1, FaultTyped DEF TypeOK
<1> QED
  BY <1>2, <1>3

LEMMA DownloadTyped ==
    ASSUME TypeOK, NEW w \in Workers, Download(w) PROVE TypeOK'
<1>1. PICK got \in [task[w].tickers -> Outcomes] :
        /\ held' = [held EXCEPT ![w] = [live |-> Merged(w, got), feed |-> NoFeed]]
        /\ IF \E t \in task[w].tickers : got[t] \in {"empty", "raised"}
           THEN Fault ELSE UNCHANGED faults
  BY DEF Download
<1>2. task[w] \in [lane : Lanes, day : Nat, tickers : SUBSET Tickers]
      /\ live \in LiveManifests /\ age \in 0 .. MaxAge /\ clock \in Nat
  BY DEF TypeOK
<1>3. live.rows \in [Tickers -> Rows] /\ NoLive.rows \in [Tickers -> Rows]
  BY <1>2, RecordsTyped DEF LiveManifests
<1>4. Merged(w, got).rows \in [Tickers -> Rows]
  <2>1. ASSUME NEW t \in Tickers, t \in task[w].tickers, got[t] # "raised"
        PROVE  [got |-> got[t], at |-> age] \in Rows
    BY <2>1, <1>1, <1>2 DEF Rows
  <2> QED
    BY <2>1, <1>3 DEF Merged
<1>5. /\ Merged(w, got).day = task[w].day /\ Merged(w, got).stamp = clock + 1
      /\ Merged(w, got).at = age
      /\ Merged(w, got).issues \in BOOLEAN
      /\ Merged(w, got) = [day |-> Merged(w, got).day, stamp |-> Merged(w, got).stamp,
                           at |-> Merged(w, got).at, issues |-> Merged(w, got).issues,
                           rows |-> Merged(w, got).rows]
  BY DEF Merged
<1>6. Merged(w, got) \in LiveManifests
  BY <1>2, <1>4, <1>5 DEF LiveManifests
<1>7. held' \in [Workers -> [live : LiveManifests, feed : FeedManifests]]
  BY <1>1, <1>6, RecordsTyped DEF TypeOK
<1>8. pc' \in [Workers -> {"idle", "asked", "pull", "read", "derive", "open", "close"}]
  BY DEF Download, Goto, TypeOK
<1>9. faults' \in 0 .. MaxFaults
  BY <1>1, FaultTyped DEF TypeOK
<1> QED
  BY <1>2, <1>7, <1>8, <1>9 DEF Download, TypeOK, session, disk

LEMMA FeedOfTyped ==
    ASSUME TypeOK, NEW w \in Workers, NEW from \in Nat, NEW covers \in SUBSET Tickers,
           NEW blocked \in BOOLEAN
    PROVE  FeedOf(w, from, covers, blocked) \in FeedManifests
<1>1. task[w].day \in Nat /\ clock + 1 \in Nat /\ age \in 0 .. MaxAge
  BY DEF TypeOK
<1> QED
  BY <1>1 DEF FeedOf, FeedManifests

LEMMA ReadSourceTyped ==
    ASSUME TypeOK, NEW w \in Workers, ReadSource(w) PROVE TypeOK'
<1>1. FeedOf(w, 0, {}, TRUE) \in FeedManifests
  BY FeedOfTyped
<1>2. held' \in [Workers -> [live : LiveManifests, feed : FeedManifests]] /\ clock' \in Nat
  <2>1. CASE live.day = task[w].day
    <3>1. /\ held' = [held EXCEPT ![w] = [live |-> live, feed |-> NoFeed]]
          /\ UNCHANGED clock
      BY <2>1 DEF ReadSource
    <3> QED
      BY <3>1, RecordsTyped DEF TypeOK
  <2>2. CASE live.day # task[w].day
    <3>1. \E m \in FeedManifests : held' = [held EXCEPT ![w] = [live |-> NoLive, feed |-> m]]
      BY <2>2, <1>1, ZenonT(30) DEF ReadSource
    <3>2. held' \in [Workers -> [live : LiveManifests, feed : FeedManifests]]
      BY <3>1, RecordsTyped DEF TypeOK
    <3> QED
      BY <2>2, <3>2 DEF ReadSource, TypeOK
  <2> QED
    BY <2>1, <2>2
<1>3. pc' \in [Workers -> {"idle", "asked", "pull", "read", "derive", "open", "close"}]
  BY DEF ReadSource, Goto, TypeOK
<1> QED
  BY <1>2, <1>3 DEF ReadSource, TypeOK, session, disk

LEMMA DeriveTyped ==
    ASSUME TypeOK, NEW w \in Workers, Derive(w) PROVE TypeOK'
<1>1. held[w] \in [live : LiveManifests, feed : FeedManifests]
      /\ task[w].tickers \in SUBSET Tickers
  BY DEF TypeOK
<1>2. held[w].live.stamp \in Nat
      /\ Usable(held[w].live) \cap task[w].tickers \in SUBSET Tickers
  BY <1>1 DEF LiveManifests
<1>3. FeedOf(w, held[w].live.stamp, Usable(held[w].live) \cap task[w].tickers, FALSE)
        \in FeedManifests
  BY <1>2, FeedOfTyped
<1>4. held' \in [Workers -> [live : LiveManifests, feed : FeedManifests]]
  BY <1>1, <1>3 DEF Derive, TypeOK
<1>5. pc' \in [Workers -> {"idle", "asked", "pull", "read", "derive", "open", "close"}]
      /\ clock' \in Nat
  BY DEF Derive, Goto, TypeOK
<1> QED
  BY <1>4, <1>5 DEF Derive, TypeOK, session, disk

LEMMA OpenTyped ==
    ASSUME TypeOK, NEW w \in Workers, Open(w) PROVE TypeOK'
<1>1. CASE Exit(w) /\ UNCHANGED disk
  <2>1. PICK ok \in BOOLEAN : Finish(w, ok)
    BY <1>1, ExitFinishes
  <2>2. faults' \in 0 .. MaxFaults
    BY <1>1, ExitFinishes
  <2> QED
    BY <1>1, <2>1, <2>2, FinishTyped DEF Open, TypeOK, session, disk
<1>2. CASE /\ Goto(w, "close")
           /\ IF task[w].lane = "live" THEN live' = NoLive /\ feed' = feed
              ELSE feed' = NoFeed /\ live' = live
           /\ UNCHANGED <<done, task, held, mixed, faults>>
  <2>1. pc' \in [Workers -> {"idle", "asked", "pull", "read", "derive", "open", "close"}]
    BY <1>2 DEF Goto, TypeOK
  <2>2. live' \in LiveManifests /\ feed' \in FeedManifests
    BY <1>2, RecordsTyped DEF TypeOK
  <2> QED
    BY <1>2, <2>1, <2>2 DEF Open, TypeOK, session
<1> QED
  BY <1>1, <1>2 DEF Open

LEMMA CloseTyped ==
    ASSUME TypeOK, NEW w \in Workers, Close(w) PROVE TypeOK'
<1>1. held[w] \in [live : LiveManifests, feed : FeedManifests]
  BY DEF TypeOK
<1>2. ASSUME NEW m \in FeedManifests, NEW b \in BOOLEAN
      PROVE  [m EXCEPT !.mixed = b] \in FeedManifests
  BY DEF FeedManifests
<1>3. live' \in LiveManifests /\ feed' \in FeedManifests
  <2>1. (w \in mixed) \in BOOLEAN
    OBVIOUS
  <2>2. [held[w].feed EXCEPT !.mixed = w \in mixed] \in FeedManifests
    BY <1>1, <1>2, <2>1
  <2> QED
    BY <1>1, <2>2 DEF Close, TypeOK
<1>4. PICK ok \in BOOLEAN : Finish(w, ok)
  BY ExitFinishes DEF Close
<1>5. faults' \in 0 .. MaxFaults
  BY ExitFinishes DEF Close
<1> QED
  BY <1>3, <1>4, <1>5, FinishTyped DEF Close, TypeOK, session

LEMMA StepTyped == TypeOK /\ [Next]_vars => TypeOK'
<1> SUFFICES ASSUME TypeOK, [Next]_vars PROVE TypeOK'
  OBVIOUS
<1>1. CASE TickLaunch
  <2>1. PICK l \in Lanes : Start(Tick, l) /\ done' = done \cup {l}
    BY <1>1 DEF TickLaunch, Due
  <2>2. Tick \in Workers
    BY DEF Workers
  <2> QED
    BY <1>1, <2>1, <2>2, StartTyped DEF TickLaunch, Start, TypeOK, session, disk
<1>2. CASE EndTick
  BY <1>2 DEF EndTick, TypeOK, session, disk
<1>3. CASE Turn
  <2>1. phase' \in Phases /\ day' \in Nat \ {0} /\ turns' \in 0 .. MaxTurns
    BY <1>3, BoundsAssumption DEF Turn, TypeOK, After, Phases
  <2>2. skip' \in BOOLEAN /\ (phase' \in Shut => ~skip')
    BY <1>3 DEF Turn
  <2> QED
    BY <1>3, <2>1, <2>2 DEF Turn, TypeOK, disk
<1>4. CASE Pass
  BY <1>4, BoundsAssumption DEF Pass, TypeOK, disk
<1>5. ASSUME NEW w \in Requests, Ask(w) \/ ManualLaunch(w) \/ Refuse(w)
      PROVE  TypeOK'
  <2>1. w \in Workers
    BY DEF Workers
  <2>2. CASE Ask(w)
    BY <2>1, <2>2 DEF Ask, Goto, TypeOK, session, disk
  <2>3. CASE ManualLaunch(w)
    <3>1. PICK l \in Lanes : Start(w, l)
      BY <2>3 DEF ManualLaunch, Due
    <3> QED
      BY <2>1, <2>3, <3>1, StartTyped DEF ManualLaunch, Start, TypeOK, session, disk
  <2>4. CASE Refuse(w)
    BY <2>1, <2>4 DEF Refuse, Goto, TypeOK, session, disk
  <2> QED
    BY <1>5, <2>2, <2>3, <2>4
<1>6. ASSUME NEW w \in Workers, Step(w) \/ Kill(w)
      PROVE  TypeOK'
  <2>1. CASE Kill(w)
    BY <2>1, FinishTyped, FaultTyped DEF Kill, TypeOK, session, disk
  <2> QED
    BY <1>6, <2>1, DownloadTyped, ReadSourceTyped, DeriveTyped, OpenTyped, CloseTyped DEF Step
<1>7. CASE UNCHANGED vars
  BY <1>7 DEF vars, session, disk, TypeOK
<1> QED
  BY <1>1, <1>2, <1>3, <1>4, <1>5, <1>6, <1>7 DEF Next

\* TypeOK is an invariant.
THEOREM TypeCorrect == Spec => []TypeOK
<1> QED
  BY InitTyped, StepTyped, PTL DEF Spec

(***************************************************************************)
(* The hand-off.  Every step is the step of one worker w: what it does to  *)
(* w, and that it leaves the others alone, is all the parts need.          *)
(***************************************************************************)
Rest == Locals /\ Overlaps /\ Sources /\ FeedTells /\ Pulls

\* The other workers stay as they are.
OthersStay(w) ==
    \A u \in Workers \ {w} :
        /\ pc'[u] = pc[u] /\ task'[u] = task[u] /\ held'[u] = held[u]
        /\ u \in mixed => u \in mixed'

LEMMA InitRest == Init => Rest
<1>1. SUFFICES ASSUME Init PROVE Rest
  OBVIOUS
<1>2. \A w \in Workers : pc[w] = "idle" /\ task[w] = Idle /\ held[w] = Nothing
  BY <1>1 DEF Init
<1>3. NoFeed.stamp = 0 /\ NoFeed.day = 0 /\ Idle.lane = "live" /\ Nothing.feed = NoFeed
  BY DEF NoFeed, Idle, Nothing
<1>4. Locals
  BY <1>1, <1>2, <1>3 DEF Locals, Init
<1>5. Overlaps /\ Sources
  BY <1>2 DEF Overlaps, Sources, Pulling, Deriving, Busy
<1>6. FeedTells /\ Pulls
  BY <1>1, <1>2, <1>3 DEF FeedTells, Pulls, Pulling, Busy, Init
<1> QED
  BY <1>4, <1>5, <1>6 DEF Rest

\* Nothing the parts speak of changes, save a worker asking or refused.
LEMMA QuietRest ==
    ASSUME TypeOK, Rest, UNCHANGED <<clock, disk, task, held, mixed>>,
           \A u \in Workers : pc'[u] = pc[u] \/ {pc[u], pc'[u]} \subseteq {"idle", "asked"}
    PROVE  Rest'
<1>1. UNCHANGED <<clock, live, feed, task, held, mixed>>
  BY DEF disk
<1>2. \A u \in Workers : Busy(u)' = Busy(u) /\ (Busy(u) => pc'[u] = pc[u])
  BY DEF Busy
<1>3. \A u \in Workers : Pulling(u)' = Pulling(u) /\ Deriving(u)' = Deriving(u)
  BY <1>1, <1>2 DEF Pulling, Deriving
<1>4. \A m : Tells(m)' = Tells(m)
  BY <1>1 DEF Tells, Usable
<1>5. Locals'
  BY <1>1, <1>2 DEF Rest, Locals, Busy
<1>6. Overlaps'
  BY <1>1, <1>3 DEF Rest, Overlaps
<1>7. Sources'
  BY <1>1, <1>2, <1>3, <1>4 DEF Rest, Sources, Deriving
<1>8. FeedTells'
  BY <1>1, <1>4 DEF Rest, FeedTells
<1>9. Pulls'
  BY <1>1, <1>2, <1>3 DEF Rest, Pulls, Pulling
<1> QED
  BY <1>5, <1>6, <1>7, <1>8, <1>9 DEF Rest

\* A command that starts marks the derivations it runs beside.
LEMMA StartRest ==
    ASSUME TypeOK, Rest, NEW w \in Workers, NEW l \in Lanes, Start(w, l), ~Busy(w)
    PROVE  Rest'
<1>1. UNCHANGED <<clock, live, feed, held>>
  BY DEF Start, session, disk
<1>2. OthersStay(w)
  BY DEF OthersStay, Start, Goto, TypeOK
<1>3. /\ pc'[w] = IF l = "live" THEN "pull" ELSE "read"
      /\ task'[w].lane = l /\ (l = "feed" => task'[w].tickers = Tickers)
  BY DEF Start, Goto, TypeOK, Lanes
<1>4. \A u \in Workers \ {w} : Pulling(u)' = Pulling(u) /\ Deriving(u)' = Deriving(u)
  BY <1>2 DEF OthersStay, Pulling, Deriving, Busy
<1>5. \A m : Tells(m)' = Tells(m)
  BY <1>1 DEF Tells, Usable
<1>6. Locals'
  BY <1>1, <1>2, <1>3 DEF Rest, Locals, OthersStay, Lanes
<1>7. Overlaps'
  <2>1. SUFFICES ASSUME NEW v \in Workers, NEW u \in Workers, Pulling(v)', Deriving(u)'
                 PROVE  u \in mixed'
    BY DEF Overlaps
  <2>2. v # u
    BY <2>1 DEF Pulling, Deriving
  <2>3. CASE v = w
    <3>1. l = "live" /\ Deriving(u)
      BY <1>3, <1>4, <2>1, <2>2, <2>3 DEF Pulling
    <3> QED
      BY <3>1 DEF Start
  <2>4. CASE u = w
    <3>1. l = "feed" /\ Pulling(v)
      BY <1>3, <1>4, <2>1, <2>2, <2>4 DEF Deriving
    <3> QED
      BY <2>4, <3>1 DEF Start
  <2>5. CASE v # w /\ u # w
    BY <1>2, <1>4, <2>1, <2>5 DEF Rest, Overlaps, OthersStay
  <2> QED
    BY <2>3, <2>4, <2>5
<1>8. Sources'
  BY <1>1, <1>2, <1>3, <1>4, <1>5 DEF Rest, Sources, OthersStay
<1>9. FeedTells'
  BY <1>1, <1>5 DEF Rest, FeedTells
<1>10. Pulls'
  BY <1>1, <1>2, <1>3, <1>4 DEF Rest, Pulls, OthersStay, Pulling
<1> QED
  BY <1>6, <1>7, <1>8, <1>9, <1>10 DEF Rest

\* The workers that stay are busy as they were.
LEMMA OthersBusy ==
    ASSUME NEW w \in Workers, OthersStay(w)
    PROVE  \A u \in Workers \ {w} : Pulling(u)' = Pulling(u) /\ Deriving(u)' = Deriving(u)
  BY DEF OthersStay, Pulling, Deriving, Busy

\* A process that ends leaves the others alone and holds nothing.
LEMMA FinishStays ==
    ASSUME TypeOK, Rest, NEW w \in Workers, NEW ok, Finish(w, ok), clock' = clock
    PROVE  OthersStay(w) /\ ~Busy(w)' /\ Locals' /\ Overlaps'
<1>1. OthersStay(w)
  BY DEF OthersStay, Finish, Goto, TypeOK
<1>2. pc'[w] = "idle" /\ task'[w] = Idle /\ held'[w] = Nothing
  BY DEF Finish, Goto, TypeOK
<1>3. Idle.lane = "live" /\ Nothing.feed.stamp = 0
  BY DEF Idle, Nothing, NoFeed
<1>4. clock \in Nat
  BY DEF TypeOK
<1>5. ~Busy(w)'
  BY <1>2 DEF Busy
<1>6. Locals'
  BY <1>1, <1>2, <1>3, <1>4 DEF Rest, Locals, OthersStay
<1>7. Overlaps'
  BY <1>1, <1>5, OthersBusy DEF Rest, Overlaps, OthersStay, Pulling, Deriving
<1> QED
  BY <1>1, <1>5, <1>6, <1>7

\* An end that leaves the manifests in place.
LEMMA FinishRest ==
    ASSUME TypeOK, Rest, NEW w \in Workers, NEW ok, Finish(w, ok), UNCHANGED <<clock, disk>>
    PROVE  Rest'
<1>1. UNCHANGED <<clock, live, feed>>
  BY DEF disk
<1>2. OthersStay(w) /\ ~Busy(w)' /\ Locals' /\ Overlaps'
  BY <1>1, FinishStays
<1>3. ~Pulling(w)' /\ ~Deriving(w)'
  BY <1>2 DEF Pulling, Deriving
<1>4. \A m : Tells(m)' = Tells(m)
  BY <1>1 DEF Tells, Usable
<1>5. Sources'
  BY <1>2, <1>3, <1>4, <1>1, OthersBusy DEF Rest, Sources, OthersStay
<1>6. FeedTells'
  BY <1>1, <1>4 DEF Rest, FeedTells
<1>7. Pulls'
  BY <1>1, <1>2, <1>3, OthersBusy DEF Rest, Pulls, OthersStay
<1> QED
  BY <1>2, <1>5, <1>6, <1>7 DEF Rest

\* While a pull is under way every derivation is marked.
LEMMA PullMarks ==
    ASSUME Rest, NEW w \in Workers, Pulling(w)
    PROVE  \A u \in Workers : Deriving(u) => u # w /\ u \in mixed
  BY DEF Rest, Overlaps, Pulling, Deriving

LEMMA OpenRest ==
    ASSUME TypeOK, Rest, NEW w \in Workers, Open(w)
    PROVE  Rest'
<1>1. CASE Exit(w) /\ UNCHANGED disk
  <2>1. PICK ok \in BOOLEAN : Finish(w, ok)
    BY <1>1, ExitFinishes
  <2> QED
    BY <1>1, <2>1, FinishRest DEF Open
<1>2. CASE /\ Goto(w, "close")
           /\ IF task[w].lane = "live" THEN live' = NoLive /\ feed' = feed
              ELSE feed' = NoFeed /\ live' = live
           /\ UNCHANGED <<done, task, held, mixed, faults>>
  <2>1. pc[w] = "open" /\ pc'[w] = "close" /\ UNCHANGED <<clock, task, held, mixed>>
    BY <1>2 DEF Open, Goto, TypeOK
  <2>2. OthersStay(w)
    BY <1>2 DEF OthersStay, Goto, TypeOK
  <2>3. \A u \in Workers : Pulling(u)' = Pulling(u) /\ Deriving(u)' = Deriving(u)
    <3>1. Busy(w) /\ Busy(w)'
      BY <2>1 DEF Busy
    <3> QED
      BY <2>1, <2>2, <3>1, OthersBusy DEF Pulling, Deriving
  <2>4. Locals'
    BY <2>1, <2>2 DEF Rest, Locals, OthersStay
  <2>5. Overlaps'
    BY <2>1, <2>3 DEF Rest, Overlaps
  <2>6. CASE task[w].lane = "live"
    <3>1. live' = NoLive /\ feed' = feed
      BY <1>2, <2>6
    <3>2. \A u \in Workers : Deriving(u)' => u \in mixed'
      <4>1. Pulling(w)
        BY <2>1, <2>6 DEF Pulling, Busy
      <4> QED
        BY <2>1, <2>3, <4>1, PullMarks
    <3>3. Sources'
      BY <3>2 DEF Sources
    <3>4. FeedTells'
      BY <3>1 DEF FeedTells, NoLive
    <3>5. Pulls'
      BY <2>1, <2>2, <2>3, <3>1 DEF Rest, Pulls, OthersStay
    <3> QED
      BY <2>4, <2>5, <3>3, <3>4, <3>5 DEF Rest
  <2>7. CASE task[w].lane # "live"
    <3>1. feed' = NoFeed /\ live' = live
      BY <1>2, <2>7
    <3>2. \A m : Tells(m)' = Tells(m)
      BY <3>1 DEF Tells, Usable
    <3>3. Sources'
      BY <2>1, <2>2, <2>3, <3>1, <3>2 DEF Rest, Sources, OthersStay
    <3>4. NoFeed.day = 0 /\ NoFeed.stamp = 0 /\ clock' \in Nat
      BY <2>1 DEF NoFeed, TypeOK
    <3>5. FeedTells' /\ Pulls'
      BY <3>1, <3>4 DEF FeedTells, Pulls
    <3> QED
      BY <2>4, <2>5, <3>3, <3>5 DEF Rest
  <2> QED
    BY <2>6, <2>7
<1> QED
  BY <1>1, <1>2 DEF Open

LEMMA CloseRest ==
    ASSUME TypeOK, Rest, NEW w \in Workers, Close(w)
    PROVE  Rest'
<1>1. PICK ok \in BOOLEAN : Finish(w, ok)
  BY ExitFinishes DEF Close
<1>2. pc[w] = "close" /\ Busy(w) /\ clock' = clock /\ clock \in Nat
  BY DEF Close, Busy, TypeOK
<1>3. OthersStay(w) /\ ~Busy(w)' /\ Locals' /\ Overlaps'
  BY <1>1, <1>2, FinishStays
<1>4. ~Pulling(w)' /\ ~Deriving(w)'
  BY <1>3 DEF Pulling, Deriving
<1>5. CASE task[w].lane = "live"
  <2>1. live' = held[w].live /\ feed' = feed /\ Pulling(w)
    BY <1>2, <1>5 DEF Close, Pulling
  <2>2. \A u \in Workers : Deriving(u)' => u \in mixed'
    BY <1>3, <1>4, <2>1, PullMarks, OthersBusy DEF OthersStay
  <2>3. Sources'
    BY <2>2 DEF Sources
  <2>4. /\ feed.stamp \in Nat /\ held[w].live.stamp \in Nat
        /\ feed.day # 0 /\ ~feed.mixed /\ ~feed.blocked => feed.stamp < held[w].live.stamp
    BY <1>2, <2>1 DEF Rest, Pulls, TypeOK, LiveManifests, FeedManifests
  <2>5. FeedTells'
    BY <2>1, <2>4 DEF FeedTells, Tells
  <2>6. Pulls'
    BY <1>2, <1>3, <1>4, <2>1, OthersBusy DEF Rest, Pulls, OthersStay
  <2> QED
    BY <1>3, <2>3, <2>5, <2>6 DEF Rest
<1>6. CASE task[w].lane # "live"
  <2>1. live' = live /\ feed' = [held[w].feed EXCEPT !.mixed = w \in mixed] /\ Deriving(w)
    BY <1>2, <1>6 DEF Close, Deriving, TypeOK, Lanes
  <2>2. /\ feed'.stamp = held[w].feed.stamp /\ feed'.blocked = held[w].feed.blocked
        /\ feed'.from = held[w].feed.from /\ feed'.covers = held[w].feed.covers
        /\ feed'.mixed <=> w \in mixed
    <3>1. held[w].feed \in FeedManifests
      BY DEF TypeOK
    <3>2. ASSUME NEW m \in FeedManifests, NEW b, feed' = [m EXCEPT !.mixed = b]
          PROVE  /\ feed'.stamp = m.stamp /\ feed'.blocked = m.blocked
                 /\ feed'.from = m.from /\ feed'.covers = m.covers
                 /\ feed'.mixed = b
      BY <3>2 DEF FeedManifests
    <3>3. /\ feed'.stamp = held[w].feed.stamp /\ feed'.blocked = held[w].feed.blocked
          /\ feed'.from = held[w].feed.from /\ feed'.covers = held[w].feed.covers
          /\ feed'.mixed = (w \in mixed)
      BY <2>1, <3>1, <3>2, Zenon
    <3> QED
      BY <3>3, Zenon
  <2>3. \A m : Tells(m)' = Tells(m)
    BY <2>1 DEF Tells, Usable
  <2>4. Sources'
    BY <1>3, <1>4, <2>1, <2>3, OthersBusy DEF Rest, Sources, OthersStay
  <2>5. FeedTells'
    <3>1. w \notin mixed => Tells(held[w].feed)
      BY <1>2, <2>1 DEF Rest, Sources
    <3> QED
      BY <2>1, <2>2, <3>1 DEF FeedTells, Tells, Usable
  <2>6. Pulls'
    <3>1. feed'.stamp <= clock'
      BY <1>2, <2>2 DEF Rest, Locals
    <3>2. \A u \in Workers : Pulling(u)' => feed'.mixed
      BY <1>3, <1>4, <2>1, <2>2, PullMarks, OthersBusy
    <3> QED
      BY <3>1, <3>2 DEF Pulls
  <2> QED
    BY <1>3, <2>4, <2>5, <2>6 DEF Rest
<1> QED
  BY <1>5, <1>6

\* A step of a busy worker that leaves its task and the manifests as they are
\* and stays busy.
WorksOn(w) ==
    /\ OthersStay(w) /\ UNCHANGED <<live, feed, task, mixed>>
    /\ Busy(w) /\ Busy(w)'

LEMMA WorkingStays ==
    ASSUME TypeOK, Rest, NEW w \in Workers, WorksOn(w)
    PROVE  /\ \A u \in Workers : Pulling(u)' = Pulling(u) /\ Deriving(u)' = Deriving(u)
           /\ \A m : Tells(m)' = Tells(m)
           /\ Overlaps' /\ FeedTells'
<1>1. \A u \in Workers : Pulling(u)' = Pulling(u) /\ Deriving(u)' = Deriving(u)
  BY OthersBusy DEF WorksOn, Pulling, Deriving
<1>2. \A m : Tells(m)' = Tells(m)
  BY DEF WorksOn, Tells, Usable
<1>3. Overlaps'
  BY <1>1 DEF WorksOn, Rest, Overlaps
<1>4. FeedTells'
  BY <1>2 DEF WorksOn, Rest, FeedTells
<1> QED
  BY <1>1, <1>2, <1>3, <1>4

LEMMA DownloadRest ==
    ASSUME TypeOK, Rest, NEW w \in Workers, Download(w)
    PROVE  Rest'
<1>1. PICK got : held' = [held EXCEPT ![w] = [live |-> Merged(w, got), feed |-> NoFeed]]
  BY DEF Download
<1>2. /\ pc[w] = "pull" /\ pc'[w] = "open" /\ clock' = clock + 1 /\ clock \in Nat
      /\ held'[w].live.stamp = clock + 1 /\ held'[w].feed.stamp = 0
      /\ task[w].lane = "live"
  BY <1>1 DEF Download, Goto, TypeOK, Merged, NoFeed, Rest, Locals
<1>3. WorksOn(w)
  BY <1>1, <1>2 DEF WorksOn, OthersStay, Busy, Download, Goto, TypeOK, disk
<1>4. /\ \A u \in Workers : Pulling(u)' = Pulling(u) /\ Deriving(u)' = Deriving(u)
      /\ \A m : Tells(m)' = Tells(m)
      /\ Overlaps' /\ FeedTells'
  BY <1>3, WorkingStays
<1>5. \A u \in Workers : held[u].feed.stamp \in Nat
  BY DEF TypeOK, FeedManifests
<1>6. Locals'
  BY <1>2, <1>3, <1>5 DEF Rest, Locals, WorksOn, OthersStay
<1>7. Sources'
  BY <1>2, <1>3, <1>4 DEF Rest, Sources, WorksOn, OthersStay, Deriving
<1>8. Pulls'
  <2>1. feed'.stamp <= clock' /\ feed.stamp < clock + 1 /\ feed' = feed
    BY <1>2, <1>3 DEF Rest, Pulls, WorksOn, TypeOK, FeedManifests
  <2> QED
    BY <1>2, <1>3, <1>4, <2>1 DEF Rest, Pulls, WorksOn, OthersStay
<1> QED
  BY <1>4, <1>6, <1>7, <1>8 DEF Rest

\* What a derivation holds and writes, when it reads its source or derives.
LEMMA DerivingRest ==
    ASSUME TypeOK, Rest, NEW w \in Workers, WorksOn(w), task[w].lane = "feed",
           pc'[w] \in {"derive", "open"}, clock' \in {clock, clock + 1},
           held'[w].feed.stamp <= clock',
           w \notin mixed /\ pc'[w] = "derive" => held'[w].live = live,
           w \notin mixed /\ pc'[w] = "open" => Tells(held'[w].feed)
    PROVE  Rest'
<1>1. /\ \A u \in Workers : Pulling(u)' = Pulling(u) /\ Deriving(u)' = Deriving(u)
      /\ \A m : Tells(m)' = Tells(m)
      /\ Overlaps' /\ FeedTells'
  BY WorkingStays
<1>2. /\ \A u \in Workers : held[u].feed.stamp \in Nat
      /\ feed.stamp \in Nat /\ clock \in Nat /\ clock <= clock'
  BY DEF TypeOK, FeedManifests
<1>3. Locals'
  BY <1>2 DEF Rest, Locals, WorksOn, OthersStay
<1>4. Sources'
  <2>1. SUFFICES ASSUME NEW u \in Workers, Deriving(u)', u \notin mixed'
                 PROVE  /\ pc'[u] = "derive" => held'[u].live = live'
                        /\ pc'[u] \in {"open", "close"} => Tells(held[u].feed)'
    BY DEF Sources
  <2>2. Tells(held[u].feed)' = Tells(held'[u].feed)
    BY DEF WorksOn, Tells, Usable
  <2>3. CASE u = w
    <3>1. w \notin mixed /\ live' = live /\ pc'[w] # "close"
      BY <2>1, <2>3 DEF WorksOn
    <3> QED
      BY <2>2, <2>3, <3>1
  <2>4. CASE u # w
    BY <1>1, <2>1, <2>2, <2>4 DEF Rest, Sources, WorksOn, OthersStay
  <2> QED
    BY <2>3, <2>4
<1>5. Pulls'
  <2>1. ~Pulling(w)
    BY DEF Pulling
  <2> QED
    BY <1>1, <1>2, <2>1 DEF Rest, Pulls, WorksOn, OthersStay
<1> QED
  BY <1>1, <1>3, <1>4, <1>5 DEF Rest

LEMMA ReadSourceRest ==
    ASSUME TypeOK, Rest, NEW w \in Workers, ReadSource(w)
    PROVE  Rest'
<1>1. /\ task[w].lane = "feed" /\ pc[w] = "read" /\ clock \in Nat
      /\ UNCHANGED <<live, feed, task, mixed>>
  BY DEF ReadSource, Rest, Locals, TypeOK, disk
<1>2. CASE live.day = task[w].day
  <2>1. /\ held' = [held EXCEPT ![w] = [live |-> live, feed |-> NoFeed]]
        /\ Goto(w, "derive") /\ clock' = clock
    BY <1>2 DEF ReadSource
  <2>2. held'[w].live = live /\ held'[w].feed.stamp = 0 /\ pc'[w] = "derive"
    BY <2>1 DEF TypeOK, Goto, NoFeed
  <2>3. WorksOn(w)
    BY <1>1, <2>1, <2>2 DEF WorksOn, OthersStay, Busy, Goto, TypeOK
  <2> QED
    BY <1>1, <2>1, <2>2, <2>3, DerivingRest
<1>3. CASE live.day # task[w].day
  <2>1. /\ held' = [held EXCEPT ![w] = [live |-> NoLive, feed |-> FeedOf(w, 0, {}, TRUE)]]
        /\ Goto(w, "open") /\ clock' = clock + 1
    BY <1>3, Zenon DEF ReadSource
  <2>2. held'[w].feed = FeedOf(w, 0, {}, TRUE) /\ pc'[w] = "open"
    BY <2>1 DEF TypeOK, Goto
  <2>3. FeedOf(w, 0, {}, TRUE).stamp = clock + 1 /\ FeedOf(w, 0, {}, TRUE).blocked
    BY DEF FeedOf
  <2>4. held'[w].feed.stamp = clock + 1 /\ Tells(held'[w].feed)
    BY <2>2, <2>3, Zenon DEF Tells
  <2>5. WorksOn(w)
    <3>1. OthersStay(w)
      BY <1>1, <2>1, Zenon DEF OthersStay, Goto, TypeOK
    <3> QED
      BY <1>1, <2>2, <3>1 DEF WorksOn, Busy
  <2>6. clock' = clock + 1 /\ pc'[w] = "open"
    BY <2>1, <2>2, Zenon
  <2>7. pc'[w] # "derive" /\ held'[w].feed.stamp <= clock'
    BY <1>1, <2>4, <2>6
  <2> QED
    BY <1>1, <2>4, <2>5, <2>6, <2>7, DerivingRest
<1> QED
  BY <1>2, <1>3

LEMMA DeriveRest ==
    ASSUME TypeOK, Rest, NEW w \in Workers, Derive(w)
    PROVE  Rest'
<1> DEFINE new == FeedOf(w, held[w].live.stamp, Usable(held[w].live) \cap task[w].tickers, FALSE)
<1>1. /\ task[w].lane = "feed" /\ task[w].tickers = Tickers /\ pc[w] = "derive"
      /\ clock \in Nat /\ clock' = clock + 1 /\ pc'[w] = "open"
      /\ UNCHANGED <<live, feed, task, mixed>>
  BY DEF Derive, Rest, Locals, TypeOK, disk, Goto
<1>2. held'[w].feed = new
  BY DEF Derive, TypeOK
<1>3. /\ new.stamp = clock + 1 /\ new.from = held[w].live.stamp
      /\ new.covers = Usable(held[w].live)
  BY <1>1 DEF FeedOf, Usable
<1>4. w \notin mixed => held[w].live = live
  BY <1>1 DEF Rest, Sources, Deriving, Busy
<1>5. w \notin mixed => Tells(held'[w].feed)
  BY <1>2, <1>3, <1>4 DEF Tells
<1>6. WorksOn(w)
  <2>1. OthersStay(w)
    BY <1>1 DEF OthersStay, Derive, Goto, TypeOK
  <2> QED
    BY <1>1, <2>1 DEF WorksOn, Busy
<1> HIDE DEF new
<1> QED
  BY <1>1, <1>2, <1>3, <1>5, <1>6, DerivingRest

LEMMA StepRest == TypeOK /\ Rest /\ [Next]_vars => Rest'
<1> SUFFICES ASSUME TypeOK, Rest, [Next]_vars PROVE Rest'
  OBVIOUS
<1>1. CASE TickLaunch
  <2>1. PICK l \in Lanes : Start(Tick, l)
    BY <1>1 DEF TickLaunch, Due
  <2>2. Tick \in Workers /\ ~Busy(Tick)
    BY <1>1 DEF TickLaunch, Workers, Busy
  <2> QED
    BY <2>1, <2>2, StartRest
<1>2. CASE EndTick \/ Turn \/ Pass \/ UNCHANGED vars
  BY <1>2, QuietRest DEF EndTick, Turn, Pass, vars
<1>3. ASSUME NEW w \in Requests, Ask(w) \/ ManualLaunch(w) \/ Refuse(w)
      PROVE  Rest'
  <2>1. w \in Workers
    BY DEF Workers
  <2>2. CASE Ask(w)
    <3>1. \A u \in Workers : pc'[u] = pc[u] \/ {pc[u], pc'[u]} \subseteq {"idle", "asked"}
      BY <2>1, <2>2 DEF Ask, Goto, TypeOK
    <3> QED
      BY <2>2, <3>1, QuietRest DEF Ask
  <2>3. CASE ManualLaunch(w)
    <3>1. PICK l \in Lanes : Start(w, l)
      BY <2>3 DEF ManualLaunch, Due
    <3> QED
      BY <2>1, <2>3, <3>1, StartRest DEF ManualLaunch, Busy
  <2>4. CASE Refuse(w)
    <3>1. \A u \in Workers : pc'[u] = pc[u] \/ {pc[u], pc'[u]} \subseteq {"idle", "asked"}
      BY <2>1, <2>4 DEF Refuse, Goto, TypeOK
    <3> QED
      BY <2>4, <3>1, QuietRest DEF Refuse
  <2> QED
    BY <1>3, <2>2, <2>3, <2>4
<1>4. ASSUME NEW w \in Workers, Step(w) \/ Kill(w)
      PROVE  Rest'
  <2>1. CASE Kill(w)
    BY <2>1, FinishRest DEF Kill
  <2> QED
    BY <1>4, <2>1, DownloadRest, ReadSourceRest, DeriveRest, OpenRest, CloseRest DEF Step
<1> QED
  BY <1>1, <1>2, <1>3, <1>4 DEF Next

\* The parts say that a signal let through reads the slices that were counted.
LEMMA RestImplies == TypeOK /\ Rest => HandOffIsWhole
<1> SUFFICES ASSUME TypeOK, Rest, SignalReady, ~feed.mixed
             PROVE  /\ feed.day = day /\ live.day = day
                    /\ feed.from = live.stamp
                    /\ feed.covers = Usable(live)
                    /\ skip \/ feed.covers = Tickers
  BY DEF HandOffIsWhole
<1>1. Derives /\ SourceReady /\ feed.day = day /\ ~feed.blocked /\ ~(feed.stamp < live.stamp)
  BY DEF SignalReady, FeedStatus
<1>2. live.day = day /\ day # 0 /\ feed.stamp \in Nat /\ live.stamp \in Nat
  BY <1>1 DEF SourceReady, TypeOK, LiveManifests, FeedManifests
<1>3. Tells(feed)
  BY <1>1, <1>2 DEF Rest, FeedTells
<1>4. skip \/ Usable(live) = Tickers
  BY DEF SignalReady, LiveSatisfied, Fresh, Usable
<1> QED
  BY <1>1, <1>2, <1>3, <1>4 DEF Tells

\* HandOffIsWhole is an invariant.
THEOREM HandOffWhole == Spec => []HandOffIsWhole
<1>1. Init => TypeOK /\ Rest
  BY InitTyped, InitRest
<1>2. TypeOK /\ Rest /\ [Next]_vars => (TypeOK /\ Rest)'
  BY StepTyped, StepRest
<1> QED
  BY <1>1, <1>2, RestImplies, PTL DEF Spec
===============================================================================
