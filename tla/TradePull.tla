------------------------------- MODULE TradePull -------------------------------
(***************************************************************************)
(* The pull of one ticker-day of Massive trade prints: pages are fetched   *)
(* from the provider, merged into the ticker's parquet partition and       *)
(* accounted for in the coverage file, from which the repair lane decides  *)
(* what is left to download and where to resume.                           *)
(*                                                                         *)
(* Two kinds of lane pull the same ticker-day.  The repair lane downloads  *)
(* the whole day once it is over, in sub-day windows or as one interval,   *)
(* and resumes where it stopped.  A live slice takes the newest prints of  *)
(* its session while the day runs and never resumes.  One pull runs at a   *)
(* time.  A slot stands for the print of one instant of the day.           *)
(***************************************************************************)
EXTENDS Integers, FiniteSets

CONSTANTS
    N,             \* slots of a day
    W,             \* windows of a day
    WindowOf,      \* the window of each slot
    PageSize,      \* limit: rows of a page
    Repairs,       \* configurations the repair lane may be run with
    Slices,        \* configurations of the live lanes
    MaxSlices,     \* bound: live slices pulled in a behaviour
    MaxFaults,     \* bound: failures and kills in a behaviour
    None           \* no window, no cursor

Slots == 1 .. N
Windows == 1 .. W

\* MassiveTradesConfig: a cap of 0 is max_pages_per_day = None; again is the
\* planner's include_existing.
Lanes == [windowed : BOOLEAN, cap : Nat, desc : BOOLEAN,
          session : SUBSET Slots, again : BOOLEAN]

ASSUME SizesAssumption == N \in Nat /\ W \in Nat \ {0} /\ PageSize \in Nat \ {0}
ASSUME WindowAssumption == WindowOf \in [Slots -> Windows]
ASSUME LaneAssumption ==
    /\ Repairs \subseteq {l \in Lanes : l.session = Slots}
    /\ Slices \subseteq {l \in Lanes : ~l.windowed}
ASSUME BoundsAssumption == MaxSlices \in Nat /\ MaxFaults \in Nat

\* What the provider's opaque cursor stands for: the slots of the query it
\* has not served yet, and the order of the query.
Cursors == [ahead : SUBSET Slots, desc : BOOLEAN]

ASSUME NoneAssumption == None \notin Windows /\ None \notin Cursors

VARIABLES
    repair,        \* the configuration of the repair lane
    now, tape,     \* slots of the day gone by, and those that traded
    disk,          \* rows of the ticker-day in the partition
    cov,           \* the ticker-day's row of the coverage file
    run,           \* the pull in progress
    slices, faults,
    misled, lost   \* history: a slice misled the repairs; stored rows were lost

marketVars == <<repair, now, tape>>
countVars == <<slices, faults, misled, lost>>
vars == <<marketVars, disk, cov, run, countVars>>

\* rows, activeRows: the row counts of the day and of the window in progress
\* are positive.
Coverage == [status : {"missing", "partial", "failed", "complete"},
             cursor : Cursors \cup {None}, rows : BOOLEAN,
             done : SUBSET Windows, active : Windows \cup {None}, activeRows : BOOLEAN]

NoRow == [status |-> "missing", cursor |-> None, rows |-> FALSE,
          done |-> {}, active |-> None, activeRows |-> FALSE]

\* Locals of the pull.  had, new: rows of the interval counted before this
\* pull and by it; total: rows of earlier intervals and pulls; next: the
\* cursor of the page in hand; result: the row the day ends with.
Runs == [pc : {"idle", "open", "fetch", "save", "note", "end"}, lane : Repairs \cup Slices \cup {None},
         done : SUBSET Windows, window : Windows \cup {None},
         cursor : Cursors \cup {None}, next : Cursors \cup {None}, page : SUBSET Slots,
         pages : Nat, had : BOOLEAN, new : BOOLEAN, total : BOOLEAN,
         result : {"partial", "failed", "complete"}]

NoRun == [pc |-> "idle", lane |-> None, done |-> {}, window |-> None,
          cursor |-> None, next |-> None, page |-> {}, pages |-> 0,
          had |-> FALSE, new |-> FALSE, total |-> FALSE, result |-> "partial"]

TypeOK ==
    /\ repair \in Repairs
    /\ now \in 0 .. N
    /\ tape \subseteq 1 .. now
    /\ disk \subseteq Slots
    /\ cov \in Coverage
    /\ run \in Runs
    /\ run.pc # "idle" => run.lane \in Repairs \cup Slices
    /\ run.pc = "fetch" => run.cursor # None
    /\ run.pc \in {"fetch", "save", "note"} /\ run.lane.windowed => run.window # None
    /\ slices \in 0 .. MaxSlices
    /\ faults \in 0 .. MaxFaults
    /\ misled \in BOOLEAN /\ lost \in BOOLEAN

Init ==
    /\ repair \in Repairs
    /\ now = 0 /\ tape = {}
    /\ disk = {} /\ cov = NoRow /\ run = NoRun
    /\ slices = 0 /\ faults = 0
    /\ misled = FALSE /\ lost = FALSE

\* The market: time goes on and the ticker trades or not.
MarketPrints ==
    /\ now < N
    /\ now' = now + 1
    /\ tape' \in {tape, tape \cup {now + 1}}
    /\ UNCHANGED <<repair, disk, cov, run, countVars>>

(***************************************************************************)
(* The coverage file                                                       *)
(***************************************************************************)
Mut_Merged(row) == row            \* Mutant: the last writer wins

\* update_stock_trade_coverage_metadata: the row merged over the previous one;
\* a complete day stays complete.
Merged(row) ==
    IF cov.status = "complete" /\ row.status # "complete"
    THEN [row EXCEPT !.status = "complete", !.cursor = None, !.rows = cov.rows]
    ELSE row

\* Mutant: the window in progress is listed as completed.
Mut_RowOf(r, status, cursor) ==
    [cov EXCEPT !.status = status, !.cursor = cursor,
                !.done = r.done \cup {w \in Windows : w = r.window},
                !.active = r.window]

\* The row a pull r writes: a windowed pull adds its windows, a plain one
\* leaves those of earlier rows as they are.
RowOf(r, status, cursor) ==
    LET row == [cov EXCEPT !.status = status, !.cursor = cursor, !.rows = r.total \/ r.new]
    IN  IF r.lane.windowed
        THEN [row EXCEPT !.done = r.done, !.active = r.window,
                         !.activeRows = cursor # None /\ (r.had \/ r.new)]
        ELSE row

\* The row that ends the day.  A failed one has neither cursor nor windows, so
\* those of the previous row survive the merge.
Ended(r) ==
    CASE r.result = "failed" -> [cov EXCEPT !.status = "failed", !.rows = FALSE]
      [] r.result = "partial" -> RowOf(r, "partial", r.cursor)
      [] r.result = "complete" -> RowOf([r EXCEPT !.window = None], "complete", None)

\* A slice that marks the day complete keeps the repairs away.
Finish ==
    /\ run.pc = "end"
    /\ cov' = Merged(Ended(run))
    /\ run' = NoRun
    /\ misled' = (misled \/ (run.lane # repair /\ run.result = "complete"
                                              /\ cov.status # "complete"))
    /\ UNCHANGED <<marketVars, disk, slices, faults, lost>>

(***************************************************************************)
(* Starting a pull                                                         *)
(***************************************************************************)
\* Mutant: no fallback to a fresh query.
Mut_Resumed(lane, row) ==
    [NoRun EXCEPT !.pc = IF lane.windowed THEN "open" ELSE "fetch", !.lane = lane,
                  !.done = row.done, !.window = row.active, !.cursor = row.cursor]

\* Windows give a meaning to a cursor only together with the window it is of.
Resumed(lane, row) ==
    LET cursor == IF lane.windowed /\ row.active = None THEN None ELSE row.cursor
        fresh == [ahead |-> lane.session, desc |-> lane.desc]
    IN  IF lane.windowed
        THEN [NoRun EXCEPT !.pc = "open", !.lane = lane, !.done = row.done,
                           !.window = row.active, !.cursor = cursor,
                           !.had = row.activeRows /\ cursor # None,
                           !.total = row.rows /\ (row.done # {} \/ cursor # None)]
        ELSE [NoRun EXCEPT !.pc = "fetch", !.lane = lane,
                           !.cursor = IF cursor = None THEN fresh ELSE cursor,
                           !.had = row.rows /\ cursor # None,
                           !.total = row.rows /\ cursor # None]

\* Mutant: a day with some coverage is left out.
Mut_BeginRepair ==
    /\ run.pc = "idle" /\ now = N
    /\ repair.again \/ cov.status = "missing"
    /\ run' = Resumed(repair, cov)
    /\ UNCHANGED <<marketVars, disk, cov, countVars>>

\* The planner leaves complete days out; the day it plans is over.
BeginRepair ==
    /\ run.pc = "idle" /\ now = N
    /\ repair.again \/ cov.status # "complete"
    /\ run' = Resumed(repair, cov)
    /\ UNCHANGED <<marketVars, disk, cov, countVars>>

\* A slice does not resume: resume_partial is off.  The cursor it leaves in the
\* row is taken for the repair's by a repair without windows, and by one that
\* was interrupted in a window; without a window in progress nobody reads it.
BeginSlice ==
    /\ run.pc = "idle" /\ slices < MaxSlices
    /\ \E lane \in Slices : run' = Resumed(lane, NoRow)
    /\ slices' = slices + 1
    /\ misled' = (misled \/ ~repair.windowed \/ cov.active # None)
    /\ UNCHANGED <<marketVars, disk, cov, faults, lost>>

(***************************************************************************)
(* Pages                                                                   *)
(***************************************************************************)
Before(a, b, desc) == IF desc THEN a > b ELSE a < b

Interval(r) ==
    IF r.lane.windowed THEN {s \in Slots : WindowOf[s] = r.window} ELSE r.lane.session

\* The provider's answer to a query: its next rows in order, and a cursor
\* while there are more.
Served(cursor) ==
    {s \in tape \cap cursor.ahead :
        Cardinality({t \in tape \cap cursor.ahead : Before(t, s, cursor.desc)}) < PageSize}

Beyond(cursor) ==
    [cursor EXCEPT !.ahead = {s \in @ : \A p \in Served(cursor) : Before(p, s, cursor.desc)}]

Continuation(cursor) ==
    IF tape \cap cursor.ahead \subseteq Served(cursor) THEN None ELSE Beyond(cursor)

\* The pull ends with an unfinished interval; a windowed one has just written
\* the row its end writes again.
StopWith(r) ==
    /\ run' = [r EXCEPT !.pc = "end", !.result = "partial"]
    /\ cov' = IF r.lane.windowed \/ r.pc = "note" THEN Merged(Ended([r EXCEPT !.result = "partial"]))
              ELSE cov

CapReached(r) == r.lane.cap # 0 /\ r.pages >= r.lane.cap

\* The next window in the order of the day, from the cursor if it is of this
\* window.
OpenWindow ==
    /\ run.pc = "open" /\ ~CapReached(run)
    /\ \E w \in Windows \ run.done :
        /\ \A v \in Windows \ run.done : w <= v
        /\ LET resumed == run.window = w /\ run.cursor # None
               r == [run EXCEPT !.window = w, !.had = @ /\ resumed]
           IN  run' = [r EXCEPT !.pc = "fetch",
                                !.cursor = IF resumed THEN @
                                           ELSE [ahead |-> Interval(r), desc |-> r.lane.desc]]
    /\ UNCHANGED <<marketVars, disk, cov, countVars>>

\* Mutant: running out of pages ends the day as complete.
Mut_CapBetweenWindows ==
    /\ run.pc = "open" /\ CapReached(run)
    /\ run' = [run EXCEPT !.pc = "end", !.result = "complete"]
    /\ UNCHANGED <<marketVars, disk, cov, countVars>>

\* The budget of pages ran out between two windows.
CapBetweenWindows ==
    /\ run.pc = "open" /\ CapReached(run)
    /\ \E w \in Windows \ run.done :
        /\ \A v \in Windows \ run.done : w <= v
        /\ StopWith([run EXCEPT !.window = w, !.cursor = None])
    /\ UNCHANGED <<marketVars, disk, countVars>>

AllWindowsDone ==
    /\ run.pc = "open" /\ run.done = Windows
    /\ run' = [run EXCEPT !.pc = "end", !.result = "complete"]
    /\ UNCHANGED <<marketVars, disk, cov, countVars>>

\* A page with rows of the interval; rows outside it are dropped, and such a
\* page is taken for the last one.
Fetch ==
    /\ run.pc = "fetch"
    /\ LET page == Served(run.cursor) \cap Interval(run)
       IN  /\ page # {} \/ Served(run.cursor) = {}
           /\ run' = [run EXCEPT !.pc = "save", !.page = page, !.pages = @ + 1,
                                 !.next = IF page # Served(run.cursor) THEN None
                                          ELSE Continuation(run.cursor)]
    /\ UNCHANGED <<marketVars, disk, cov, countVars>>

\* A page of which no row is of the interval ends it with nothing stored.
FetchOutside ==
    /\ run.pc = "fetch"
    /\ Served(run.cursor) # {} /\ Served(run.cursor) \cap Interval(run) = {}
    /\ run' = IF run.lane.windowed
              THEN [run EXCEPT !.pc = "note", !.pages = @ + 1, !.next = None]
              ELSE [run EXCEPT !.pc = "end", !.result = "complete"]
    /\ UNCHANGED <<marketVars, disk, cov, countVars>>

\* persist_page: the page is merged into the partition.
SavePage ==
    /\ run.pc = "save"
    /\ disk' = disk \cup run.page
    /\ run' = [run EXCEPT !.pc = "note", !.new = @ \/ run.page # {}]
    /\ UNCHANGED <<marketVars, cov, countVars>>

\* A plain pull notes every page in the coverage file, a windowed one every
\* window.
Noted(cursor) == Merged(RowOf(run, "partial", cursor))

NextPage ==
    /\ run.pc = "note" /\ run.next # None /\ ~CapReached(run)
    /\ cov' = IF run.lane.windowed THEN cov ELSE Noted(run.next)
    /\ run' = [run EXCEPT !.pc = "fetch", !.cursor = run.next, !.page = {}]
    /\ UNCHANGED <<marketVars, disk, countVars>>

\* max_pages_per_day or max_seconds_per_day.
StopEarly ==
    /\ run.pc = "note" /\ run.next # None
    /\ StopWith([run EXCEPT !.cursor = run.next])
    /\ UNCHANGED <<marketVars, disk, countVars>>

DayDone ==
    /\ run.pc = "note" /\ run.next = None /\ ~run.lane.windowed
    /\ cov' = Noted(None)
    /\ run' = [run EXCEPT !.pc = "end", !.result = "complete"]
    /\ UNCHANGED <<marketVars, disk, countVars>>

WindowDone ==
    /\ run.pc = "note" /\ run.next = None /\ run.lane.windowed
    /\ LET r == [run EXCEPT !.pc = "open", !.done = @ \cup {run.window},
                            !.window = None, !.cursor = None, !.page = {},
                            !.total = @ \/ run.new, !.new = FALSE]
       IN  /\ run' = r
           /\ cov' = IF r.done = Windows THEN cov
                     ELSE Merged(RowOf(r, "partial", None))
    /\ UNCHANGED <<marketVars, disk, countVars>>

(***************************************************************************)
(* Failures and kills                                                      *)
(***************************************************************************)
Fault == faults < MaxFaults /\ faults' = faults + 1

\* The request fails after rows were counted: the cursor is kept.
RequestFails ==
    /\ run.pc = "fetch" /\ (run.had \/ run.new)
    /\ Fault
    /\ StopWith(run)
    /\ UNCHANGED <<marketVars, disk, slices, misled, lost>>

\* Mutant: the cursor of the page that was not stored is kept.
Mut_IntervalRaises ==
    /\ run.pc = "fetch" \/ run.pc = "save"
    /\ Fault
    /\ StopWith([run EXCEPT !.cursor = run.next, !.new = FALSE])
    /\ UNCHANGED <<marketVars, disk, slices, misled, lost>>

\* A request without rows before it, a malformed answer or a failing write of
\* the partition: a windowed pull with something to show restarts the window.
IntervalRaises ==
    /\ run.pc = "fetch" \/ run.pc = "save"
    /\ Fault
    /\ IF run.lane.windowed /\ (run.total \/ run.done # {})
       THEN StopWith([run EXCEPT !.cursor = None, !.new = FALSE])
       ELSE /\ run' = [run EXCEPT !.pc = "end", !.result = "failed"]
            /\ UNCHANGED cov
    /\ UNCHANGED <<marketVars, disk, slices, misled, lost>>

\* The coverage file cannot be written.
NoteFails ==
    /\ run.pc = "note"
    /\ Fault
    /\ run' = [run EXCEPT !.pc = "end", !.result = "failed"]
    /\ UNCHANGED <<marketVars, disk, cov, slices, misled, lost>>

Crash ==
    /\ run.pc # "idle"
    /\ Fault
    /\ run' = NoRun
    /\ UNCHANGED <<marketVars, disk, cov, slices, misled, lost>>

\* Neither file is replaced atomically.  A torn partition, which holds other
\* days of the ticker too, is set aside by the next write; a torn coverage
\* file, which holds all ticker-days, reads as empty.
KillInPartitionWrite ==
    /\ run.pc = "idle" \/ run.pc = "save"
    /\ Fault
    /\ disk' = {}
    /\ lost' = (lost \/ disk # {})
    /\ run' = NoRun
    /\ UNCHANGED <<marketVars, cov, slices, misled>>

KillInCoverageWrite ==
    /\ run.pc \in {"idle", "note", "end"}
    /\ Fault
    /\ cov' = NoRow
    /\ run' = NoRun
    /\ UNCHANGED <<marketVars, disk, slices, misled, lost>>

(***************************************************************************)
(* Specification                                                           *)
(***************************************************************************)
Step ==
    \/ OpenWindow \/ CapBetweenWindows \/ AllWindowsDone
    \/ Fetch \/ FetchOutside \/ SavePage
    \/ NextPage \/ StopEarly \/ DayDone \/ WindowDone
    \/ Finish

Failure ==
    \/ RequestFails \/ IntervalRaises \/ NoteFails \/ Crash
    \/ KillInPartitionWrite \/ KillInCoverageWrite

Next == MarketPrints \/ BeginRepair \/ BeginSlice \/ Step \/ Failure

Spec == Init /\ [][Next]_vars

\* The day passes, a running pull goes on, and the scheduler's quiet hours
\* come round again: the repair of an incomplete day is started.
FairSpec == Spec /\ WF_vars(MarketPrints) /\ WF_vars(Step) /\ WF_vars(BeginRepair)

(***************************************************************************)
(* What the coverage file promises                                         *)
(***************************************************************************)
\* The row of a day that is marked complete, in a partition that lost no rows,
\* has every trade of the day in it: the distinction between "live usable" and
\* "historical complete" of the recovery plan.  The repair planner never looks
\* at such a day again, and the point-in-time loader trusts it.
CompleteDayIsFullDepth == ~lost /\ cov.status = "complete" => tape \subseteq disk

\* A day marked complete by the repair lane is full-depth, whatever pages,
\* caps, timeouts, failed requests and kills the repair took (the marks of
\* _download_interval and the windowed loop) and whatever live slices a
\* repair in windows found in the row, as long as none interrupted it.
CompleteDayIsStored == ~misled => CompleteDayIsFullDepth

\* A window listed as completed is never fetched again (the windowed loop skips
\* it), so all its trades must be in the partition already.
CompletedWindowsAreStored ==
    ~lost /\ ~misled =>
        \A s \in tape : WindowOf[s] \in cov.done => s \in disk

\* The saved cursor is where the next repair goes on: no trade of its interval
\* that it skips is missing from the partition.  Rows are stored before they
\* are noted, page by page.
CursorSkipsOnlyStored ==
    ~lost /\ ~misled /\ cov.cursor # None =>
        \A s \in tape :
            \/ s \in cov.cursor.ahead
            \/ s \in disk
            \/ repair.windowed /\ WindowOf[s] # cov.active

\* A day once complete stays complete, also while a slice or a repeated repair
\* of it is written (_preserve_complete_coverage); only the loss of the whole
\* coverage file undoes it.
CompleteIsKept ==
    [][cov.status = "complete" => cov'.status = "complete" \/ cov' = NoRow]_vars

\* Every repair that is started anew takes the day further: after the last
\* failure and the last slice the day is marked complete in the end.
DayIsCompleted == <>[](cov.status = "complete")

(***************************************************************************)
(* The inductive invariant                                                 *)
(***************************************************************************)
Span(w) == IF repair.windowed THEN {s \in Slots : WindowOf[s] = w} ELSE Slots

Stored(w) == \A s \in tape : WindowOf[s] = w => s \in disk

\* Of the trades of an interval only those ahead of the cursor are not in rows.
\* Without a cursor all of them are.
SafeAt(cursor, interval, rows) ==
    /\ cursor # None => cursor.ahead \subseteq interval
    /\ \A s \in tape \cap interval : s \in rows \/ (cursor # None /\ s \in cursor.ahead)

\* Before the day is over no repair has begun, and what slices wrote is of no
\* use to one.  A slice runs only beside a row without a window in progress.
RepairOwnsTheDay ==
    ~misled =>
        /\ now # N => /\ cov.status # "complete" /\ cov.done = {} /\ cov.active = None
                      /\ ~repair.windowed => cov.cursor = None
                      /\ run.pc # "idle" => run.lane # repair
        /\ run.pc # "idle" /\ run.lane # repair =>
            repair.windowed /\ ~run.lane.windowed /\ run.pc # "open" /\ cov.active = None
        /\ run.pc = "open" => repair.windowed

RowIsTrue ==
    /\ cov.status = "complete" => tape \subseteq disk
    /\ \A w \in cov.done : Stored(w)
    /\ cov.cursor # None /\ (repair.windowed => cov.active # None) =>
        SafeAt(cov.cursor, Span(cov.active), disk)

\* What the pull in progress may rely on at each of its steps.
PullIsTrue ==
    /\ \A w \in run.done : Stored(w)
    /\ (run.pc = "open" \/ (run.pc = "end" /\ run.result = "partial")) /\ run.cursor # None =>
        /\ SafeAt(run.cursor, Span(run.window), disk)
        /\ repair.windowed => run.window # None
    /\ run.pc = "fetch" => SafeAt(run.cursor, Span(run.window), disk)
    /\ run.pc = "save" => SafeAt(run.next, Span(run.window), disk \cup run.page)
    /\ run.pc = "note" => SafeAt(run.next, Span(run.window), disk)
    /\ run.pc = "end" /\ run.result = "complete" => tape \subseteq disk

\* While no slice has misled the repairs and no stored row was lost, the
\* coverage row and the locals of a repair describe what the partition holds.
IndInv ==
    /\ TypeOK
    /\ RepairOwnsTheDay
    /\ ~lost /\ ~misled => RowIsTrue /\ (run.pc # "idle" /\ run.lane = repair => PullIsTrue)

(***************************************************************************)
(* Why a pull ends                                                         *)
(***************************************************************************)
Stage == [open |-> 4, fetch |-> 3, save |-> 2, note |-> 1, end |-> 0]

\* What a pull has before it: windows, and slots of the interval in progress.
Left(r) == IF r.lane.windowed THEN Windows \ r.done ELSE {}

Ahead(r) == CASE r.pc = "open"                      -> Slots
              [] r.pc \in {"fetch", "save", "note"} -> r.cursor.ahead
              [] r.pc = "end"                       -> {}

\* q is nearer its end than r: fewer windows, or fewer slots of the window, or
\* a later stage of the same page.
Nearer(q, r) ==
    \/ Left(q) \subseteq Left(r) /\ Left(q) # Left(r)
    \/ /\ Left(q) = Left(r)
       /\ Ahead(q) \subseteq Ahead(r)
       /\ Ahead(q) # Ahead(r) \/ Stage[q.pc] < Stage[r.pc]

\* Every step of a pull, a failing one too, takes it nearer its end, without a
\* cap of pages as well: no page is asked for twice and no window opened twice.
PullsEnd ==
    [][run.pc # "idle" /\ run' # run =>
        run' = NoRun \/ (run'.lane = run.lane /\ Nearer(run', run))]_vars

\* A page's continuation is a smaller query, and a window in progress is open.
Advances ==
    /\ run.pc \in {"fetch", "save", "note"} => run.cursor # None /\ run.window \notin run.done
    /\ run.pc \in {"save", "note"} /\ run.next # None =>
        run.next.ahead \subseteq run.cursor.ahead /\ run.next.ahead # run.cursor.ahead
    /\ run.pc = "open" => run.lane.windowed
====
