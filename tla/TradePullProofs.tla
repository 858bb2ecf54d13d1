---------------------------- MODULE TradePullProofs ----------------------------
(***************************************************************************)
(* Theorems about TradePull, for any day, windows, page size and           *)
(* configurations of the lanes.                                            *)
(***************************************************************************)
EXTENDS TradePull, FiniteSetTheorems, WellFoundedInduction, NaturalsInduction, TLAPS

-------------------------------------------------------------------------------
(* Numbers. *)

\* A set of numbers that is not empty has a least element.
LEMMA LeastNumber ==
  ASSUME NEW T \in SUBSET Nat, T # {}
  PROVE  \E n \in T : \A m \in T : n <= m
<1> DEFINE R == OpToRel(<, Nat)
<1>1. IsWellFoundedOn(R, Nat)
  BY Zenon, NatLessThanWellFounded
<1>2. \A m, n \in Nat : m < n => <<m, n>> \in R
  BY Zenon DEF OpToRel
<1> HIDE DEF R
<1>3. PICK n \in T : \A m \in T : <<m, n>> \notin R
  BY <1>1, WFMin, Zenon
<1>4. \A m \in T : ~(m < n)
  BY <1>2, <1>3, Zenon
<1>5. \A m \in T : n <= m
  BY <1>4
<1> QED
  BY <1>5

-------------------------------------------------------------------------------
(* What the provider serves. *)

\* A page holds rows ahead of its cursor, and every row ahead that is not in
\* the page comes after all of it.
LEMMA PageIsNext ==
  ASSUME NEW S \in SUBSET Slots, NEW desc \in BOOLEAN,
         NEW Page, Page = {s \in S : Cardinality({t \in S : Before(t, s, desc)}) < PageSize},
         NEW s \in S, s \notin Page, NEW p \in Page
  PROVE  Before(p, s, desc)
<1> DEFINE Prior(x) == {t \in S : Before(t, x, desc)}
<1>1. N \in Nat /\ PageSize \in Nat
  BY SizesAssumption
<1>2. IsFiniteSet(S)
  <2>1. IsFiniteSet(1 .. N)
    BY <1>1, FS_Interval
  <2> QED
    BY <2>1, FS_Subset DEF Slots
<1>3. IsFiniteSet(Prior(s)) /\ IsFiniteSet(Prior(p))
  BY <1>2, FS_Subset
<1>4. Cardinality(Prior(s)) \in Nat /\ Cardinality(Prior(p)) \in Nat
  BY <1>3, FS_CardinalityType
<1>5. ~(Cardinality(Prior(s)) < PageSize) /\ Cardinality(Prior(p)) < PageSize
  OBVIOUS
<1>6. SUFFICES ASSUME ~Before(p, s, desc)
               PROVE  FALSE
  OBVIOUS
<1>7. p \in S /\ p # s
  OBVIOUS
<1>8. s \in Int /\ p \in Int /\ S \subseteq Int
  BY <1>1, <1>7 DEF Slots
<1>9. Prior(s) \subseteq Prior(p)
  <2>1. SUFFICES ASSUME NEW t \in Prior(s)
                 PROVE  t \in Prior(p)
    OBVIOUS
  <2>2. t \in S /\ t \in Int /\ Before(t, s, desc)
    BY <1>8, <2>1
  <2>3. Before(t, p, desc)
    BY <1>6, <1>7, <1>8, <2>2 DEF Before
  <2> QED
    BY <2>2, <2>3
<1>10. Cardinality(Prior(s)) <= Cardinality(Prior(p))
  BY <1>3, <1>9, FS_Subset
<1> HIDE DEF Prior
<1> QED
  BY <1>1, <1>4, <1>5, <1>10

\* The cursor a page comes with skips nothing but the page.
LEMMA ContinuationIsSafe ==
  ASSUME NEW cursor \in Cursors, tape \subseteq Slots,
         NEW s \in tape, s \in cursor.ahead, s \notin Served(cursor)
  PROVE  /\ Continuation(cursor) # None
         /\ s \in Continuation(cursor).ahead
<1>1. cursor.ahead \subseteq Slots /\ cursor.desc \in BOOLEAN
  BY DEF Cursors
<1>2. ASSUME NEW p \in Served(cursor)
      PROVE  Before(p, s, cursor.desc)
  <2> DEFINE S == tape \cap cursor.ahead
             Page == {x \in S : Cardinality({t \in S : Before(t, x, cursor.desc)}) < PageSize}
  <2>1. S \in SUBSET Slots /\ s \in S
    BY <1>1
  <2>2. Page = Served(cursor)
    BY DEF Served
  <2> HIDE DEF S, Page
  <2>3. s \notin Page /\ p \in Page
    BY <1>2, <2>2
  <2>4. Page = {x \in S : Cardinality({t \in S : Before(t, x, cursor.desc)}) < PageSize}
    BY DEF Page
  <2> QED
    BY <1>1, <2>1, <2>3, <2>4, PageIsNext
<1>3. Continuation(cursor) = Beyond(cursor)
  BY DEF Continuation
<1>4. Beyond(cursor) \in Cursors /\ s \in Beyond(cursor).ahead
  BY <1>1, <1>2 DEF Beyond, Cursors
<1> QED
  BY <1>3, <1>4, NoneAssumption

\* A cursor leads to a cursor of the same interval, or to none.
LEMMA ContinuationType ==
  ASSUME NEW cursor \in Cursors
  PROVE  /\ Continuation(cursor) \in Cursors \cup {None}
         /\ Continuation(cursor) # None => Continuation(cursor).ahead \subseteq cursor.ahead
<1>1. cursor.ahead \subseteq Slots /\ cursor.desc \in BOOLEAN
  BY DEF Cursors
<1>2. Beyond(cursor) \in Cursors /\ Beyond(cursor).ahead \subseteq cursor.ahead
  BY <1>1 DEF Beyond, Cursors
<1> QED
  BY <1>2 DEF Continuation

\* A query that has trades ahead is served some: the provider's cursor advances.
LEMMA SomeServed ==
  ASSUME NEW cursor \in Cursors, tape \subseteq Slots, tape \cap cursor.ahead # {}
  PROVE  Served(cursor) # {}
<1> DEFINE S == tape \cap cursor.ahead
           Prior(s) == {t \in S : Before(t, s, cursor.desc)}
           Counts == {Cardinality(Prior(s)) : s \in S}
<1>1. S \subseteq Int /\ IsFiniteSet(S) /\ S # {}
  <2>1. IsFiniteSet(Slots) /\ Slots \subseteq Int
    BY SizesAssumption, FS_Interval DEF Slots
  <2> QED
    BY <2>1, FS_Subset
<1>2. ASSUME NEW s \in S
      PROVE  IsFiniteSet(Prior(s)) /\ Cardinality(Prior(s)) \in Nat
  BY <1>1, FS_Subset, FS_CardinalityType
<1>3. Counts \in SUBSET Nat /\ Counts # {}
  BY <1>1, <1>2
<1>4. PICK s \in S : \A t \in S : Cardinality(Prior(s)) <= Cardinality(Prior(t))
  <2> HIDE DEF Prior, S
  <2>1. PICK n \in Counts : \A m \in Counts : n <= m
    <3> HIDE DEF Counts
    <3> QED
      BY <1>3, LeastNumber
  <2>2. PICK s \in S : n = Cardinality(Prior(s))
    OBVIOUS
  <2> QED
    BY <2>1, <2>2
<1>5. Prior(s) = {}
  <2>1. SUFFICES ASSUME NEW t \in Prior(s)
                 PROVE  FALSE
    OBVIOUS
  <2>2. t \in S /\ t \in Int /\ s \in Int /\ Before(t, s, cursor.desc)
    BY <1>1, <2>1
  <2>3. Prior(t) \subseteq Prior(s) /\ t \notin Prior(t)
    BY <1>1, <2>2 DEF Before
  <2>4. Cardinality(Prior(t)) < Cardinality(Prior(s))
    <3>1. IsFiniteSet(Prior(s)) /\ Prior(t) # Prior(s)
      BY <1>2, <2>1, <2>3
    <3>2. Cardinality(Prior(t)) \in Nat /\ Cardinality(Prior(s)) \in Nat
      BY <1>2, <2>2
    <3> HIDE DEF Prior
    <3>3. /\ Cardinality(Prior(t)) <= Cardinality(Prior(s))
          /\ Cardinality(Prior(t)) # Cardinality(Prior(s))
      BY <2>3, <3>1, FS_Subset
    <3> QED
      BY <3>2, <3>3
  <2> HIDE DEF Prior
  <2> QED
    BY <1>2, <1>4, <2>2, <2>4
<1>6. Cardinality(Prior(s)) < PageSize
  BY <1>5, FS_EmptySet, SizesAssumption
<1> QED
  BY <1>6 DEF Served

\* The query that continues another asks for less.
LEMMA ContinuationIsLess ==
  ASSUME NEW cursor \in Cursors, tape \subseteq Slots, Continuation(cursor) # None
  PROVE  /\ Continuation(cursor).ahead \subseteq cursor.ahead
         /\ Continuation(cursor).ahead # cursor.ahead
<1>1. PICK p : p \in Served(cursor)
  BY SomeServed DEF Continuation
<1>2. p \in cursor.ahead /\ p \in Int /\ cursor.desc \in BOOLEAN
  BY <1>1, SizesAssumption DEF Served, Cursors, Slots
<1>3. p \notin Beyond(cursor).ahead
  BY <1>1, <1>2 DEF Beyond, Before, Cursors
<1> QED
  BY <1>2, <1>3, ContinuationType DEF Continuation

-------------------------------------------------------------------------------
(* Type correctness. *)

LEMMA LaneType ==
  ASSUME NEW lane \in Repairs \cup Slices
  PROVE  lane \in Lanes
BY LaneAssumption DEF Lanes

\* What is written to the coverage file is a row of it.
LEMMA RowTypes ==
  ASSUME TypeOK, NEW r \in Runs, r.lane \in Repairs \cup Slices
  PROVE  /\ \A status \in {"partial", "complete"}, cursor \in Cursors \cup {None} :
              Merged(RowOf(r, status, cursor)) \in Coverage
         /\ Merged(Ended(r)) \in Coverage
         /\ \A status \in {"partial", "complete"}, cursor \in Cursors \cup {None} :
              RowOf(r, status, cursor) \in Coverage
         /\ Ended(r) \in Coverage
<1>1. ASSUME NEW row \in Coverage
      PROVE  Merged(row) \in Coverage
  BY <1>1 DEF TypeOK, Coverage, Merged
<1>2. ASSUME NEW q \in Runs, NEW status \in {"partial", "complete"},
             NEW cursor \in Cursors \cup {None}
      PROVE  RowOf(q, status, cursor) \in Coverage
  <2> DEFINE rows == q.total \/ q.new
             activeRows == cursor # None /\ (q.had \/ q.new)
             row == [cov EXCEPT !.status = status, !.cursor = cursor, !.rows = rows]
  <2>1. rows \in BOOLEAN /\ activeRows \in BOOLEAN
    OBVIOUS
  <2>2. q.done \in SUBSET Windows /\ q.window \in Windows \cup {None}
    BY DEF Runs
  <2>3. RowOf(q, status, cursor) =
          IF q.lane.windowed
          THEN [row EXCEPT !.done = q.done, !.active = q.window, !.activeRows = activeRows]
          ELSE row
    BY DEF RowOf
  <2> HIDE DEF rows, activeRows
  <2> QED
    BY <1>2, <2>1, <2>2, <2>3 DEF TypeOK, Coverage
<1>3. [r EXCEPT !.window = None] \in Runs
  BY DEF Runs
<1>4. Ended(r) \in Coverage
  <2>1. CASE r.result = "failed"
    BY <2>1 DEF Ended, TypeOK, Coverage
  <2>2. CASE r.result = "partial"
    BY <1>2, <2>2 DEF Ended, Runs
  <2>3. CASE r.result = "complete"
    BY <1>2, <1>3, <2>3 DEF Ended, Runs
  <2> QED
    BY <2>1, <2>2, <2>3 DEF Runs
<1> QED
  BY <1>1, <1>2, <1>4

\* A pull that starts is a pull.
LEMMA ResumedType ==
  ASSUME NEW lane \in Repairs \cup Slices, NEW row \in Coverage
  PROVE  /\ Resumed(lane, row) \in Runs
         /\ Resumed(lane, row).pc # "idle" /\ Resumed(lane, row).lane = lane
         /\ Resumed(lane, row).pc = "fetch" => Resumed(lane, row).cursor # None
         /\ Resumed(lane, row).pc \in {"fetch", "save", "note"} => ~lane.windowed
<1>1. lane \in Lanes
  BY LaneType
<1>2. [ahead |-> lane.session, desc |-> lane.desc] \in Cursors
  BY <1>1 DEF Lanes, Cursors
<1>3. CASE lane.windowed
  BY <1>1, <1>3 DEF Resumed, NoRun, Runs, Coverage
<1>4. CASE ~lane.windowed
  BY <1>1, <1>2, <1>4, NoneAssumption DEF Resumed, NoRun, Runs, Coverage
<1> QED
  BY <1>3, <1>4

\* A pull that stops with an unfinished interval.
LEMMA StopType ==
  ASSUME TypeOK, NEW r \in Runs, r.lane \in Repairs \cup Slices, StopWith(r)
  PROVE  cov' \in Coverage /\ run' \in Runs /\ run'.pc = "end" /\ run'.lane = r.lane
<1>1. run' = [r EXCEPT !.pc = "end", !.result = "partial"]
  BY DEF StopWith
<1>2. [r EXCEPT !.result = "partial"] \in Runs
  BY DEF Runs
<1>3. [r EXCEPT !.result = "partial"].lane = r.lane
  BY DEF Runs
<1>4. Merged(Ended([r EXCEPT !.result = "partial"])) \in Coverage
  BY <1>2, <1>3, RowTypes
<1>5. cov' \in Coverage
  BY <1>4 DEF StopWith, TypeOK
<1> QED
  BY <1>1, <1>5 DEF Runs

LEMMA TypeInit == Init => TypeOK
<1> SUFFICES ASSUME Init PROVE TypeOK
  OBVIOUS
<1>1. NoRow \in Coverage
  BY DEF NoRow, Coverage
<1>2. NoRun \in Runs /\ NoRun.pc = "idle"
  BY DEF NoRun, Runs
<1>3. now \in 0 .. N /\ slices \in 0 .. MaxSlices /\ faults \in 0 .. MaxFaults
  BY SizesAssumption, BoundsAssumption DEF Init
<1> QED
  BY <1>1, <1>2, <1>3 DEF Init, TypeOK

\* Every step but a failure keeps the types.
LEMMA TypeStep ==
  ASSUME TypeOK, MarketPrints \/ BeginRepair \/ BeginSlice \/ Step
  PROVE  TypeOK'
<1> USE DEF TypeOK, marketVars, countVars
<1>0. run \in Runs /\ cov \in Coverage
  OBVIOUS
<1>1. CASE MarketPrints
  BY <1>1, SizesAssumption DEF MarketPrints
<1>2. CASE BeginRepair
  BY <1>2, ResumedType DEF BeginRepair
<1>3. CASE BeginSlice
  <2>1. NoRow \in Coverage
    BY DEF NoRow, Coverage
  <2> QED
    BY <1>3, <2>1, ResumedType, BoundsAssumption DEF BeginSlice
<1>4. CASE OpenWindow
  <2>1. PICK w \in Windows \ run.done :
          LET resumed == run.window = w /\ run.cursor # None
              r == [run EXCEPT !.window = w, !.had = @ /\ resumed]
          IN  run' = [r EXCEPT !.pc = "fetch",
                               !.cursor = IF resumed THEN @
                                          ELSE [ahead |-> Interval(r), desc |-> r.lane.desc]]
    BY <1>4 DEF OpenWindow
  <2>2. run.lane \in Lanes
    BY <1>4, LaneType DEF OpenWindow
  <2> DEFINE r == [run EXCEPT !.window = w, !.had = @ /\ (run.window = w /\ run.cursor # None)]
             fresh == [ahead |-> Interval(r), desc |-> r.lane.desc]
  <2>3. r \in Runs /\ r.lane = run.lane
    BY DEF Runs
  <2>4. fresh \in Cursors /\ fresh # None
    BY <2>2, <2>3, NoneAssumption DEF Interval, Lanes, Cursors
  <2>5. run' = [r EXCEPT !.pc = "fetch",
                         !.cursor = IF run.window = w /\ run.cursor # None THEN @ ELSE fresh]
    BY <2>1
  <2> HIDE DEF r, fresh
  <2>6. run' \in Runs /\ run'.lane = r.lane /\ run'.window = r.window
    BY <2>3, <2>4, <2>5 DEF Runs
  <2>8. r.window # None
    BY NoneAssumption DEF r, Runs
  <2>7. run'.cursor # None
    <3>1. r.cursor = run.cursor
      BY DEF r, Runs
    <3> QED
      BY <2>3, <2>4, <2>5, <3>1 DEF Runs
  <2> QED
    BY <1>4, <2>3, <2>6, <2>7, <2>8 DEF OpenWindow
<1>5. CASE CapBetweenWindows
  <2>1. PICK w \in Windows : StopWith([run EXCEPT !.window = w, !.cursor = None])
    BY <1>5 DEF CapBetweenWindows
  <2>2. [run EXCEPT !.window = w, !.cursor = None] \in Runs
    BY DEF Runs
  <2>3. [run EXCEPT !.window = w, !.cursor = None].lane = run.lane
    BY DEF Runs
  <2> QED
    BY <1>5, <2>1, <2>2, <2>3, StopType DEF CapBetweenWindows
<1>6. CASE AllWindowsDone
  BY <1>6 DEF AllWindowsDone, Runs
<1>7. CASE Fetch
  <2>1. run.cursor \in Cursors
    BY <1>7 DEF Fetch, Runs
  <2>2. Continuation(run.cursor) \in Cursors \cup {None}
    BY <2>1, ContinuationType
  <2>3. Served(run.cursor) \cap Interval(run) \subseteq Slots
    BY <2>1 DEF Served, Cursors
  <2>4. PICK next \in {None, Continuation(run.cursor)} :
          run' = [run EXCEPT !.pc = "save", !.page = Served(run.cursor) \cap Interval(run),
                             !.pages = @ + 1, !.next = next]
    BY <1>7 DEF Fetch
  <2>5. run.pc = "fetch" /\ UNCHANGED <<marketVars, disk, cov, countVars>>
    BY <1>7 DEF Fetch
  <2> DEFINE page == Served(run.cursor) \cap Interval(run)
  <2> HIDE DEF page
  <2>6. next \in Cursors \cup {None} /\ page \subseteq Slots
    BY <2>2, <2>3 DEF page
  <2>7. run' = [run EXCEPT !.pc = "save", !.page = page, !.pages = @ + 1, !.next = next]
    BY <2>4 DEF page
  <2>8. run' \in Runs
    <3>1. \A k \in Nat : [run EXCEPT !.pc = "save", !.page = page, !.pages = k, !.next = next] \in Runs
      BY <2>6 DEF Runs
    <3>2. run.pages \in Nat /\ run.pages + 1 \in Nat
      BY DEF Runs
    <3> QED
      BY <2>7, <3>1, <3>2, Zenon
  <2>9. run'.pc = "save" /\ run'.lane = run.lane /\ run'.window = run.window
    BY <2>7 DEF Runs
  <2> QED
    BY <2>5, <2>8, <2>9
<1>8. CASE FetchOutside
  <2>1. PICK r \in {[run EXCEPT !.pc = "note", !.pages = @ + 1, !.next = None],
                    [run EXCEPT !.pc = "end", !.result = "complete"]} : run' = r
    BY <1>8 DEF FetchOutside
  <2>2. run' \in Runs
    <3>1. \A k \in Nat : [run EXCEPT !.pc = "note", !.pages = k, !.next = None] \in Runs
      BY DEF Runs
    <3>2. run.pages \in Nat /\ run.pages + 1 \in Nat
      BY DEF Runs
    <3>3. [run EXCEPT !.pc = "end", !.result = "complete"] \in Runs
      BY DEF Runs
    <3> QED
      BY <2>1, <3>1, <3>2, <3>3, Zenon
  <2>3. run'.lane = run.lane /\ run'.window = run.window /\ run'.pc \in {"note", "end"}
    BY <2>1 DEF Runs
  <2> QED
    BY <1>8, <2>2, <2>3 DEF FetchOutside
<1>9. CASE SavePage
  BY <1>9 DEF SavePage, Runs
<1>10. CASE NextPage
  <2>1. Noted(run.next) \in Coverage
    BY <1>10, RowTypes DEF NextPage, Noted, Runs
  <2> QED
    BY <1>10, <2>1 DEF NextPage, Runs
<1>11. CASE StopEarly
  <2>1. [run EXCEPT !.cursor = run.next] \in Runs
    BY DEF Runs
  <2>2. [run EXCEPT !.cursor = run.next].lane = run.lane
    BY DEF Runs
  <2> QED
    BY <1>11, <2>1, <2>2, StopType DEF StopEarly
<1>12. CASE DayDone
  <2>1. Noted(None) \in Coverage
    BY <1>12, RowTypes DEF DayDone, Noted
  <2> QED
    BY <1>12, <2>1 DEF DayDone, Runs
<1>13. CASE WindowDone
  <2> DEFINE r == [run EXCEPT !.pc = "open", !.done = @ \cup {run.window},
                              !.window = None, !.cursor = None, !.page = {},
                              !.total = @ \/ run.new, !.new = FALSE]
  <2>1. run.window \in Windows
    BY <1>13 DEF WindowDone, Runs
  <2>2. r \in Runs /\ r.lane = run.lane /\ r.pc = "open"
    BY <2>1 DEF Runs
  <2>3. Merged(RowOf(r, "partial", None)) \in Coverage
    BY <1>13, <2>2, RowTypes DEF WindowDone
  <2> QED
    BY <1>13, <2>2, <2>3 DEF WindowDone
<1>14. CASE Finish
  <2>1. Merged(Ended(run)) \in Coverage
    BY <1>14, RowTypes DEF Finish
  <2> QED
    BY <1>14, <2>1 DEF Finish, NoRun, Runs
<1> QED
  BY <1>1, <1>2, <1>3, <1>4, <1>5, <1>6, <1>7, <1>8, <1>9, <1>10, <1>11, <1>12,
     <1>13, <1>14 DEF Step

\* So do failures and kills.
LEMMA TypeFailure ==
  ASSUME TypeOK, Failure
  PROVE  TypeOK'
<1> USE DEF TypeOK, marketVars, countVars
<1>0. run \in Runs /\ cov \in Coverage
  OBVIOUS
<1>1. ASSUME Fault
      PROVE  faults' \in 0 .. MaxFaults
  BY <1>1, BoundsAssumption DEF Fault
<1>2. NoRun \in Runs /\ NoRun.pc = "idle"
  BY DEF NoRun, Runs
<1>3. NoRow \in Coverage
  BY DEF NoRow, Coverage
<1>4. [run EXCEPT !.pc = "end", !.result = "failed"] \in Runs
  BY DEF Runs
<1>5. CASE RequestFails
  BY <1>1, <1>5, StopType DEF RequestFails
<1>6. CASE IntervalRaises
  <2>1. CASE run.lane.windowed /\ (run.total \/ run.done # {})
    <3>1. [run EXCEPT !.cursor = None, !.new = FALSE] \in Runs
      BY DEF Runs
    <3>2. [run EXCEPT !.cursor = None, !.new = FALSE].lane = run.lane
      BY DEF Runs
    <3>3. StopWith([run EXCEPT !.cursor = None, !.new = FALSE])
      BY <1>6, <2>1 DEF IntervalRaises
    <3>4. run.lane \in Repairs \cup Slices
      BY <1>6 DEF IntervalRaises
    <3>5. cov' \in Coverage /\ run' \in Runs /\ run'.pc = "end" /\ run'.lane = run.lane
      BY <3>1, <3>2, <3>3, <3>4, StopType
    <3> QED
      BY <1>1, <1>6, <3>4, <3>5 DEF IntervalRaises
  <2>2. CASE ~(run.lane.windowed /\ (run.total \/ run.done # {}))
    <3>1. run' = [run EXCEPT !.pc = "end", !.result = "failed"] /\ cov' = cov
      BY <1>6, <2>2 DEF IntervalRaises
    <3>2. run'.pc = "end" /\ run'.lane = run.lane
      BY <3>1 DEF Runs
    <3> QED
      BY <1>1, <1>4, <1>6, <3>1, <3>2 DEF IntervalRaises
  <2> QED
    BY <2>1, <2>2
<1>7. CASE NoteFails
  <2>1. run'.pc = "end" /\ run'.lane = run.lane
    BY <1>7 DEF NoteFails, Runs
  <2> QED
    BY <1>1, <1>4, <1>7, <2>1 DEF NoteFails
<1>8. CASE Crash
  BY <1>1, <1>2, <1>8 DEF Crash
<1>9. CASE KillInPartitionWrite
  BY <1>1, <1>2, <1>9 DEF KillInPartitionWrite
<1>10. CASE KillInCoverageWrite
  BY <1>1, <1>2, <1>3, <1>10 DEF KillInCoverageWrite
<1> QED
  BY <1>5, <1>6, <1>7, <1>8, <1>9, <1>10 DEF Failure

\* Every state is well typed, for every day, page size and lane configuration.
THEOREM TypeCorrect == Spec => []TypeOK
<1>1. TypeOK /\ [Next]_vars => TypeOK'
  <2> SUFFICES ASSUME TypeOK, [Next]_vars
               PROVE  TypeOK'
    OBVIOUS
  <2>1. CASE Next
    BY <2>1, TypeStep, TypeFailure DEF Next
  <2>2. CASE UNCHANGED vars
    BY <2>2 DEF TypeOK, vars, marketVars, countVars
  <2> QED
    BY <2>1, <2>2
<1> QED
  BY <1>1, TypeInit, PTL DEF Spec

-------------------------------------------------------------------------------
(* What repair and slices find of each other. *)

LEMMA RepairSession ==
  ASSUME TypeOK
  PROVE  repair \in Lanes /\ repair.session = Slots /\ repair.windowed \in BOOLEAN
BY LaneAssumption DEF TypeOK, Lanes

LEMMA OwnsInit == Init => RepairOwnsTheDay
  BY DEF Init, RepairOwnsTheDay, NoRun, NoRow

\* What happened to the day stays known.
LEMMA HistoryGrows ==
  ASSUME Next
  PROVE  repair' = repair /\ (misled => misled') /\ (lost => lost')
<1> USE DEF marketVars, countVars
<1>1. CASE MarketPrints
  BY <1>1 DEF MarketPrints
<1>2. CASE BeginRepair
  BY <1>2 DEF BeginRepair
<1>3. CASE BeginSlice
  BY <1>3 DEF BeginSlice
<1>4. CASE OpenWindow
  BY <1>4 DEF OpenWindow
<1>5. CASE CapBetweenWindows
  BY <1>5 DEF CapBetweenWindows
<1>6. CASE AllWindowsDone
  BY <1>6 DEF AllWindowsDone
<1>7. CASE Fetch
  BY <1>7 DEF Fetch
<1>8. CASE FetchOutside
  BY <1>8 DEF FetchOutside
<1>9. CASE SavePage
  BY <1>9 DEF SavePage
<1>10. CASE NextPage
  BY <1>10 DEF NextPage
<1>11. CASE StopEarly
  BY <1>11 DEF StopEarly
<1>12. CASE DayDone
  BY <1>12 DEF DayDone
<1>13. CASE WindowDone
  BY <1>13 DEF WindowDone
<1>14. CASE Finish
  BY <1>14 DEF Finish
<1>15. CASE RequestFails
  BY <1>15 DEF RequestFails
<1>16. CASE IntervalRaises
  BY <1>16 DEF IntervalRaises
<1>17. CASE NoteFails
  BY <1>17 DEF NoteFails
<1>18. CASE Crash
  BY <1>18 DEF Crash
<1>19. CASE KillInPartitionWrite
  BY <1>19 DEF KillInPartitionWrite
<1>20. CASE KillInCoverageWrite
  BY <1>20 DEF KillInCoverageWrite
<1> QED
  BY <1>1, <1>2, <1>3, <1>4, <1>5, <1>6, <1>7, <1>8, <1>9, <1>10,
     <1>11, <1>12, <1>13, <1>14, <1>15, <1>16, <1>17, <1>18, <1>19, <1>20 DEF Next, Step, Failure

\* The row that a pull without windows writes tells of windows what the row
\* before it told.
LEMMA PlainRow ==
  ASSUME TypeOK, NEW r \in Runs, ~r.lane.windowed,
         NEW status \in {"partial", "complete"}, NEW cursor \in Cursors \cup {None}
  PROVE  LET row == RowOf(r, status, cursor)
         IN  /\ row.status = status /\ row.done = cov.done /\ row.active = cov.active
             /\ Merged(row).done = cov.done /\ Merged(row).active = cov.active
             /\ Merged(row).status = "complete" => status = "complete" \/ cov.status = "complete"
BY DEF RowOf, Merged, TypeOK, Coverage

\* Likewise the row it ends with.
LEMMA PlainEnd ==
  ASSUME TypeOK, NEW r \in Runs, ~r.lane.windowed
  PROVE  /\ Merged(Ended(r)).done = cov.done /\ Merged(Ended(r)).active = cov.active
         /\ Merged(Ended(r)).status = "complete" =>
              r.result = "complete" \/ cov.status = "complete"
<1>1. CASE r.result = "failed"
  BY <1>1 DEF Ended, Merged, TypeOK, Coverage
<1>2. CASE r.result = "partial"
  <2>1. r.cursor \in Cursors \cup {None}
    BY DEF Runs
  <2>2. Ended(r) = RowOf(r, "partial", r.cursor)
    BY <1>2 DEF Ended
  <2> QED
    BY <2>1, <2>2, PlainRow
<1>3. CASE r.result = "complete"
  <2> DEFINE q == [r EXCEPT !.window = None]
  <2>1. q \in Runs /\ q.lane = r.lane
    BY DEF Runs
  <2>2. Ended(r) = RowOf(q, "complete", None)
    BY <1>3 DEF Ended
  <2> HIDE DEF q
  <2> QED
    BY <1>3, <2>1, <2>2, PlainRow
<1> QED
  BY <1>1, <1>2, <1>3 DEF Runs

\* A slice in progress: what it may do to the row and to itself.
SliceRuns ==
    /\ run.pc # "idle" /\ run.lane # repair
    /\ repair.windowed /\ ~run.lane.windowed /\ run.pc # "open" /\ cov.active = None

SliceStep ==
    /\ UNCHANGED <<repair, now, tape>>
    /\ cov' = NoRow
       \/ /\ cov'.done = cov.done /\ cov'.active = cov.active
          /\ cov'.status = "complete" => cov.status = "complete"
    /\ run' = NoRun \/ (run'.lane = run.lane /\ run'.pc \notin {"idle", "open"})
    /\ disk \subseteq disk' \/ (lost' /\ ~lost) \/ lost

LEMMA SliceSteps ==
  ASSUME TypeOK, SliceRuns, Step \/ Failure, ~misled'
  PROVE  SliceStep
<1> USE DEF SliceRuns, marketVars, countVars
<1>0. run \in Runs /\ cov \in Coverage /\ run.lane \in Repairs \cup Slices
  BY DEF TypeOK
<1>1. ASSUME NEW r \in Runs, r.lane = run.lane, StopWith(r)
      PROVE  /\ cov'.done = cov.done /\ cov'.active = cov.active
             /\ cov'.status = "complete" => cov.status = "complete"
             /\ run'.lane = run.lane /\ run'.pc = "end"
  <2> DEFINE q == [r EXCEPT !.result = "partial"]
  <2>1. q \in Runs /\ q.lane = r.lane /\ q.result = "partial"
    BY DEF Runs
  <2>2. cov' = cov \/ cov' = Merged(Ended(q))
    BY <1>1 DEF StopWith
  <2>3. run'.lane = run.lane /\ run'.pc = "end"
    BY <1>1 DEF StopWith, Runs
  <2> HIDE DEF q
  <2>4. /\ Merged(Ended(q)).done = cov.done /\ Merged(Ended(q)).active = cov.active
        /\ Merged(Ended(q)).status = "complete" => cov.status = "complete"
    BY <1>1, <2>1, PlainEnd
  <2> QED
    BY <2>2, <2>3, <2>4
<1>2. CASE OpenWindow \/ CapBetweenWindows \/ AllWindowsDone \/ WindowDone
  BY <1>2 DEF OpenWindow, CapBetweenWindows, AllWindowsDone, WindowDone
<1>3. CASE Fetch \/ FetchOutside
  BY <1>0, <1>3 DEF Fetch, FetchOutside, SliceStep, Runs
<1>4. CASE SavePage
  BY <1>0, <1>4 DEF SavePage, SliceStep, Runs
<1>5. ASSUME NEW cursor \in Cursors \cup {None}, cov' = Noted(cursor)
      PROVE  /\ cov'.done = cov.done /\ cov'.active = cov.active
             /\ cov'.status = "complete" => cov.status = "complete"
  BY <1>0, <1>5, PlainRow DEF Noted
<1>6. CASE NextPage
  <2>1. cov' = Noted(run.next) /\ run.next \in Cursors \cup {None}
    BY <1>0, <1>6 DEF NextPage, Runs
  <2>2. UNCHANGED <<repair, now, tape, disk>> /\ run'.lane = run.lane /\ run'.pc = "fetch"
    BY <1>0, <1>6 DEF NextPage, Runs
  <2> QED
    BY <1>5, <2>1, <2>2 DEF SliceStep
<1>7. CASE DayDone
  <2>1. cov' = Noted(None)
    BY <1>7 DEF DayDone
  <2>2. UNCHANGED <<repair, now, tape, disk>> /\ run'.lane = run.lane /\ run'.pc = "end"
    BY <1>0, <1>7 DEF DayDone, Runs
  <2> QED
    BY <1>5, <2>1, <2>2 DEF SliceStep
<1>8. CASE StopEarly
  <2> DEFINE r == [run EXCEPT !.cursor = run.next]
  <2>1. r \in Runs /\ r.lane = run.lane
    BY <1>0 DEF Runs
  <2>2. StopWith(r) /\ UNCHANGED <<repair, now, tape, disk>>
    BY <1>8 DEF StopEarly
  <2> HIDE DEF r
  <2> QED
    BY <1>1, <2>1, <2>2 DEF SliceStep
<1>9. CASE RequestFails
  <2>1. StopWith(run) /\ UNCHANGED <<repair, now, tape, disk>>
    BY <1>9 DEF RequestFails
  <2> QED
    BY <1>0, <1>1, <2>1 DEF SliceStep
<1>10. CASE IntervalRaises \/ NoteFails
  <2>1. run' = [run EXCEPT !.pc = "end", !.result = "failed"] /\ cov' = cov
    BY <1>10 DEF IntervalRaises, NoteFails
  <2>2. UNCHANGED <<repair, now, tape, disk>>
    BY <1>10 DEF IntervalRaises, NoteFails
  <2>3. run'.lane = run.lane /\ run'.pc = "end"
    BY <1>0, <2>1 DEF Runs
  <2> QED
    BY <2>1, <2>2, <2>3 DEF SliceStep
<1>11. CASE Crash \/ KillInPartitionWrite \/ KillInCoverageWrite
  BY <1>0, <1>11 DEF Crash, KillInPartitionWrite, KillInCoverageWrite, SliceStep
<1>12. CASE Finish
  <2>1. run.result # "complete" \/ cov.status = "complete"
    BY <1>12 DEF Finish
  <2>2. cov' = Merged(Ended(run)) /\ run' = NoRun /\ UNCHANGED <<repair, now, tape, disk>>
    BY <1>12 DEF Finish
  <2> QED
    BY <1>0, <2>1, <2>2, PlainEnd DEF SliceStep
<1> QED
  BY <1>2, <1>3, <1>4, <1>6, <1>7, <1>8, <1>9, <1>10, <1>11, <1>12 DEF Step, Failure

LEMMA OwnsRepairStep ==
  ASSUME IndInv, Step \/ Failure, ~misled', run.pc # "idle" => run.lane = repair
  PROVE  RepairOwnsTheDay'
<1> USE DEF IndInv, marketVars, countVars
<1>1. ~misled /\ repair' = repair
  BY HistoryGrows DEF Next
<1>2. now \in Int /\ N \in Int /\ now <= N /\ run \in Runs
  BY SizesAssumption DEF TypeOK
<1>3. /\ NoRun.pc = "idle"
      /\ NoRow.status # "complete" /\ NoRow.done = {} /\ NoRow.active = None
      /\ NoRow.cursor = None
  BY DEF NoRun, NoRow
<1>6. CASE Crash \/ KillInPartitionWrite \/ KillInCoverageWrite \/ Finish
  <2>1. run' = NoRun /\ now' = now /\ (cov' = cov \/ cov' = NoRow \/ run.pc = "end")
    BY <1>6 DEF Crash, KillInPartitionWrite, KillInCoverageWrite, Finish
  <2> QED
    BY <1>1, <1>3, <2>1 DEF RepairOwnsTheDay
<1>7. ASSUME run.pc # "idle", now' = now, run'.lane = run.lane, run'.pc # "open"
      PROVE  RepairOwnsTheDay'
  BY <1>1, <1>3, <1>7 DEF RepairOwnsTheDay
<1>9. CASE OpenWindow
  BY <1>7, <1>9, <1>1, <1>2 DEF OpenWindow, Runs, RepairOwnsTheDay
<1>10. ASSUME NEW r \in Runs, r.lane = run.lane, StopWith(r)
       PROVE  run'.lane = run.lane /\ run'.pc = "end"
  BY <1>10 DEF StopWith, Runs
<1>11. CASE CapBetweenWindows \/ StopEarly \/ RequestFails \/ IntervalRaises
  <2>1. run.pc # "idle" /\ now' = now
    BY <1>11 DEF CapBetweenWindows, StopEarly, RequestFails, IntervalRaises
  <2>2. \A w \in Windows : LET r == [run EXCEPT !.window = w, !.cursor = None]
                          IN  r \in Runs /\ r.lane = run.lane
    BY <1>2 DEF Runs
  <2>3. LET r == [run EXCEPT !.cursor = run.next] IN r \in Runs /\ r.lane = run.lane
    BY <1>2 DEF Runs
  <2>4. LET r == [run EXCEPT !.cursor = None, !.new = FALSE] IN r \in Runs /\ r.lane = run.lane
    BY <1>2 DEF Runs
  <2>5. LET r == [run EXCEPT !.pc = "end", !.result = "failed"]
        IN  r.lane = run.lane /\ r.pc = "end"
    BY <1>2 DEF Runs
  <2>6. run'.lane = run.lane /\ run'.pc = "end"
    <3>1. CASE CapBetweenWindows
      BY <1>10, <2>2, <3>1 DEF CapBetweenWindows
    <3>2. CASE StopEarly
      BY <1>10, <2>3, <3>2 DEF StopEarly
    <3>3. CASE RequestFails
      BY <1>2, <1>10, <3>3 DEF RequestFails
    <3>4. CASE IntervalRaises
      BY <1>10, <2>4, <2>5, <3>4 DEF IntervalRaises
    <3> QED
      BY <1>11, <3>1, <3>2, <3>3, <3>4
  <2>7. run'.pc # "open"
    BY <2>6
  <2> QED
    BY <1>1, <1>7, <2>1, <2>6, <2>7
<1>12. CASE AllWindowsDone \/ FetchOutside \/ DayDone \/ NoteFails \/ SavePage \/ NextPage
  <2>1. run.pc # "idle" /\ now' = now
    BY <1>12 DEF AllWindowsDone, FetchOutside, DayDone, NoteFails, SavePage, NextPage
  <2>2. run'.lane = run.lane /\ run'.pc # "open"
    <3>1. CASE AllWindowsDone
      BY <1>2, <3>1 DEF AllWindowsDone, Runs
    <3>2. CASE FetchOutside
      BY <1>2, <3>2 DEF FetchOutside, Runs
    <3>3. CASE DayDone \/ NoteFails
      BY <1>2, <3>3 DEF DayDone, NoteFails, Runs
    <3>4. CASE SavePage
      BY <1>2, <3>4 DEF SavePage, Runs
    <3>5. CASE NextPage
      BY <1>2, <3>5 DEF NextPage, Runs
    <3> QED
      BY <1>12, <3>1, <3>2, <3>3, <3>4, <3>5
  <2> QED
    BY <1>1, <1>7, <2>1, <2>2
<1>13. CASE WindowDone
  <2>1. run'.lane = run.lane /\ run.lane.windowed /\ run.pc # "idle" /\ now' = now
    BY <1>13, <1>2 DEF WindowDone, Runs
  <2> QED
    BY <1>1, <1>3, <2>1 DEF RepairOwnsTheDay
<1>14. CASE Fetch
  BY <1>7, <1>14, <1>2 DEF Fetch, Runs
<1> QED
  BY <1>6, <1>9, <1>11, <1>12, <1>13, <1>14 DEF Step, Failure

LEMMA OwnsStep ==
  ASSUME IndInv, Next, ~misled'
  PROVE  RepairOwnsTheDay' /\ ~misled
<1> USE DEF IndInv, marketVars, countVars
<1>1. ~misled /\ repair' = repair
  BY HistoryGrows
<1>2. now \in Int /\ N \in Int /\ now <= N /\ run \in Runs
  BY SizesAssumption DEF TypeOK
<1>3. CASE MarketPrints
  <2>1. now # N /\ UNCHANGED <<cov, run>>
    BY <1>2, <1>3 DEF MarketPrints
  <2> QED
    BY <1>1, <2>1 DEF RepairOwnsTheDay
<1>4. CASE BeginRepair
  <2>1. /\ now' = N /\ run'.pc # "idle" /\ run'.lane = repair
        /\ run'.pc = "open" => repair.windowed
    BY <1>4 DEF BeginRepair, Resumed, NoRun
  <2> QED
    BY <1>1, <2>1 DEF RepairOwnsTheDay
<1>5. CASE BeginSlice
  <2>1. repair.windowed /\ cov.active = None /\ UNCHANGED <<cov, now>>
    BY <1>5 DEF BeginSlice
  <2>2. PICK lane \in Slices : run' = Resumed(lane, NoRow)
    BY <1>5 DEF BeginSlice
  <2>3. ~lane.windowed
    BY LaneAssumption
  <2>4. run'.pc = "fetch" /\ run'.lane = lane
    BY <2>2, <2>3 DEF Resumed, NoRun
  <2> QED
    BY <1>1, <2>1, <2>3, <2>4 DEF RepairOwnsTheDay
<1>6. CASE (Step \/ Failure) /\ run.pc # "idle" /\ run.lane # repair
  <2>1. SliceRuns
    BY <1>1, <1>6 DEF SliceRuns, RepairOwnsTheDay
  <2>2. SliceStep
    BY <1>6, <2>1, SliceSteps
  <2>3. NoRun.pc = "idle" /\ NoRow.status # "complete" /\ NoRow.done = {} /\ NoRow.active = None
    BY DEF NoRun, NoRow
  <2> QED
    BY <1>1, <2>1, <2>2, <2>3 DEF SliceRuns, SliceStep, RepairOwnsTheDay
<1>7. CASE (Step \/ Failure) /\ (run.pc # "idle" => run.lane = repair)
  BY <1>1, <1>7, OwnsRepairStep
<1> QED
  BY <1>1, <1>3, <1>4, <1>5, <1>6, <1>7 DEF Next

-------------------------------------------------------------------------------
(* What the coverage row and the pull say of the partition is true.        *)

\* Nothing in force is lost when rows are added.
LEMMA SafeGrows ==
  ASSUME NEW cursor, NEW interval, NEW rows, NEW more, rows \subseteq more,
         SafeAt(cursor, interval, rows)
  PROVE  SafeAt(cursor, interval, more)
BY DEF SafeAt

\* A row written from a pull that keeps to PullIsTrue is true.
LEMMA WrittenIsTrue ==
  ASSUME TypeOK, RowIsTrue, NEW r \in Runs, r.lane = repair,
         NEW status \in {"partial", "complete"}, NEW cursor \in Cursors \cup {None},
         status = "complete" => tape \subseteq disk /\ cursor = None,
         \A w \in r.done : Stored(w),
         cursor # None => SafeAt(cursor, Span(r.window), disk),
         repair.windowed /\ cursor # None => r.window # None,
         cov' = Merged(RowOf(r, status, cursor)),
         UNCHANGED <<repair, tape, disk>>
  PROVE  RowIsTrue'
<1> DEFINE row == RowOf(r, status, cursor)
<1>1. cov \in Coverage
  BY DEF TypeOK
<1>2. row.status = status /\ row.cursor = cursor
  BY <1>1 DEF RowOf, Coverage
<1>3. CASE repair.windowed
  <2>1. row.done = r.done /\ row.active = r.window
    BY <1>1, <1>3 DEF RowOf, Coverage
  <2>2. row.done = cov'.done /\ row.active = cov'.active
    BY <1>1 DEF RowOf, Merged, Coverage
  <2>3. /\ cov'.cursor # None => cov'.cursor = cursor
        /\ cov'.status = "complete" => status = "complete" \/ cov.status = "complete"
    BY <1>1, <1>2 DEF RowOf, Merged, Coverage
  <2> QED
    BY <2>1, <2>2, <2>3 DEF RowIsTrue, Stored, SafeAt, Span
<1>4. CASE ~repair.windowed
  <2>1. row.done = cov.done
    BY <1>1, <1>4 DEF RowOf, Coverage
  <2>2. row.done = cov'.done
    BY <1>1 DEF RowOf, Merged, Coverage
  <2>3. /\ cov'.cursor # None => cov'.cursor = cursor
        /\ cov'.status = "complete" => status = "complete" \/ cov.status = "complete"
    BY <1>1, <1>2 DEF RowOf, Merged, Coverage
  <2> QED
    BY <1>4, <2>1, <2>2, <2>3 DEF RowIsTrue, Stored, SafeAt, Span
<1> QED
  BY <1>3, <1>4

\* A failed row says nothing new of what is stored.
LEMMA FailedRowIsTrue ==
  ASSUME TypeOK, RowIsTrue,
         cov' = Merged([cov EXCEPT !.status = "failed", !.rows = FALSE]),
         UNCHANGED <<repair, tape, disk>>
  PROVE  RowIsTrue'
<1>1. cov \in Coverage
  BY DEF TypeOK
<1>2. /\ cov'.done = cov.done /\ cov'.active = cov.active
      /\ cov'.cursor \in {cov.cursor, None}
      /\ cov'.status = "complete" => cov.status = "complete"
  BY <1>1 DEF Merged, Coverage
<1> QED
  BY <1>2 DEF RowIsTrue, Stored, SafeAt, Span

LEMMA Unwritten ==
  ASSUME RowIsTrue, UNCHANGED <<repair, tape, cov>>, disk \subseteq disk'
  PROVE  RowIsTrue'
BY SafeGrows DEF RowIsTrue, Stored, SafeAt, Span

\* A pull that is not running claims nothing.
LEMMA IdleIsTrue ==
  ASSUME run' = NoRun
  PROVE  PullIsTrue'
BY DEF NoRun, PullIsTrue

\* The interval of the repair's pull.
LEMMA RepairInterval ==
  ASSUME TypeOK, NEW r, r.lane = repair
  PROVE  Interval(r) = Span(r.window)
BY RepairSession DEF Interval, Span

\* A pull that stops with a cursor that is safe leaves a row that is true.
LEMMA StopIsTrue ==
  ASSUME TypeOK, RowIsTrue, NEW r \in Runs, r.lane = repair, StopWith(r),
         \A w \in r.done : Stored(w),
         r.cursor # None => SafeAt(r.cursor, Span(r.window), disk),
         repair.windowed /\ r.cursor # None => r.window # None,
         UNCHANGED <<repair, tape, disk>>
  PROVE  RowIsTrue' /\ PullIsTrue'
<1> DEFINE q == [r EXCEPT !.result = "partial"]
<1>1. /\ run' = [r EXCEPT !.pc = "end", !.result = "partial"]
      /\ cov' = cov \/ cov' = Merged(Ended(q))
  BY DEF StopWith
<1>2. /\ q \in Runs /\ q.result = "partial" /\ q.lane = r.lane /\ q.done = r.done
      /\ q.window = r.window /\ q.cursor = r.cursor
  BY DEF Runs
<1>3. Ended(q) = RowOf(q, "partial", q.cursor)
  BY <1>2 DEF Ended
<1>4. q.cursor \in Cursors \cup {None}
  BY <1>2 DEF Runs
<1> HIDE DEF q
<1>5. RowIsTrue'
  <2>1. CASE cov' = cov
    BY <2>1, Unwritten
  <2>2. CASE cov' = Merged(Ended(q))
    BY <1>2, <1>3, <1>4, <2>2, WrittenIsTrue
  <2> QED
    BY <1>1, <2>1, <2>2
<1>6. /\ run'.pc = "end" /\ run'.result = "partial" /\ run'.done = r.done
      /\ run'.cursor = r.cursor /\ run'.window = r.window
  BY <1>1 DEF Runs
<1>7. PullIsTrue'
  BY <1>6 DEF PullIsTrue, Stored, SafeAt, Span
<1> QED
  BY <1>5, <1>7

\* Starting the repair, from the row's windows and cursor.
LEMMA BeginIsTrue ==
  ASSUME TypeOK, RowIsTrue, BeginRepair
  PROVE  RowIsTrue' /\ PullIsTrue'
<1>1. UNCHANGED <<repair, tape, disk, cov>> /\ run' = Resumed(repair, cov)
  BY DEF BeginRepair, marketVars
<1>2. RowIsTrue'
  BY <1>1, Unwritten
<1>3. repair.session = Slots /\ tape \subseteq Slots /\ cov \in Coverage
  BY RepairSession, SizesAssumption DEF TypeOK, Slots
<1>4. CASE repair.windowed
  <2>1. /\ run'.pc = "open" /\ run'.done = cov.done /\ run'.window = cov.active
        /\ run'.cursor # None => run'.cursor = cov.cursor /\ cov.active # None
    BY <1>1, <1>4 DEF Resumed, NoRun
  <2> QED
    BY <1>1, <2>1 DEF RowIsTrue, PullIsTrue, Stored, SafeAt, Span
<1>5. CASE ~repair.windowed
  <2> DEFINE fresh == [ahead |-> repair.session, desc |-> repair.desc]
  <2>1. /\ run'.pc = "fetch" /\ run'.done = {}
        /\ run'.cursor = IF cov.cursor = None THEN fresh ELSE cov.cursor
    BY <1>1, <1>5 DEF Resumed, NoRun
  <2>2. SafeAt(fresh, Slots, disk)
    <3>1. fresh \in Cursors /\ fresh.ahead = Slots
      BY <1>3, RepairSession DEF Lanes, Cursors
    <3>2. fresh # None
      BY <3>1, NoneAssumption
    <3> HIDE DEF fresh
    <3> QED
      BY <1>3, <3>1, <3>2 DEF SafeAt
  <2>3. cov.cursor # None => SafeAt(cov.cursor, Slots, disk)
    BY <1>5 DEF RowIsTrue, Span
  <2>4. SafeAt(run'.cursor, Slots, disk)
    BY <2>1, <2>2, <2>3
  <2> HIDE DEF fresh
  <2>5. SafeAt(run.cursor, Span(run.window), disk)'
    BY <1>1, <1>5, <2>4 DEF SafeAt, Span
  <2>6. PullIsTrue'
    BY <2>1, <2>5 DEF PullIsTrue
  <2> QED
    BY <1>2, <2>6
<1> QED
  BY <1>2, <1>4, <1>5

\* Opening a window: everything of it is ahead, or what its cursor says.
LEMMA OpenIsTrue ==
  ASSUME TypeOK, RowIsTrue, PullIsTrue, run.lane = repair, repair.windowed, OpenWindow
  PROVE  RowIsTrue' /\ PullIsTrue'
<1>1. UNCHANGED <<repair, tape, disk, cov>> /\ run \in Runs /\ run.pc = "open"
  BY DEF OpenWindow, marketVars, TypeOK
<1>2. RowIsTrue'
  BY <1>1, Unwritten
<1>3. PICK w \in Windows \ run.done :
        LET resumed == run.window = w /\ run.cursor # None
            r == [run EXCEPT !.window = w, !.had = @ /\ resumed]
        IN  run' = [r EXCEPT !.pc = "fetch",
                             !.cursor = IF resumed THEN @
                                        ELSE [ahead |-> Interval(r), desc |-> r.lane.desc]]
  BY DEF OpenWindow
<1> DEFINE resumed == run.window = w /\ run.cursor # None
           r == [run EXCEPT !.window = w, !.had = @ /\ resumed]
           fresh == [ahead |-> Interval(r), desc |-> r.lane.desc]
<1>4. r \in Runs /\ r.lane = repair /\ r.window = w /\ r.done = run.done /\ r.cursor = run.cursor
  BY <1>1 DEF Runs
<1>5. run' = [r EXCEPT !.pc = "fetch", !.cursor = IF resumed THEN @ ELSE fresh]
  BY <1>3
<1>6. fresh.ahead = Span(w) /\ fresh # None
  <2>1. fresh.ahead = Span(w)
    BY <1>4, RepairInterval
  <2>2. fresh \in Cursors
    BY <1>4, <2>1, RepairSession DEF Span, Lanes, Cursors
  <2> QED
    BY <2>1, <2>2, NoneAssumption
<1> HIDE DEF r, fresh
<1>7. /\ run'.pc = "fetch" /\ run'.done = run.done /\ run'.window = w
      /\ run'.cursor = IF resumed THEN run.cursor ELSE fresh
  BY <1>4, <1>5 DEF Runs
<1>8. SafeAt(run'.cursor, Span(w), disk)
  <2>1. CASE resumed
    <3>1. run.window = w /\ run.cursor # None /\ run'.cursor = run.cursor
      BY <1>7, <2>1
    <3>2. SafeAt(run.cursor, Span(run.window), disk)
      BY <1>1, <3>1 DEF PullIsTrue
    <3> QED
      BY <3>1, <3>2
  <2>2. CASE ~resumed
    <3>1. run'.cursor = fresh
      BY <1>7, <2>2
    <3> QED
      BY <1>6, <3>1 DEF SafeAt
  <2> QED
    BY <2>1, <2>2
<1>9. PullIsTrue'
  BY <1>1, <1>7, <1>8 DEF PullIsTrue, Stored, SafeAt, Span
<1> QED
  BY <1>2, <1>9

\* A page in hand and its cursor cover what was ahead.
LEMMA FetchIsTrue ==
  ASSUME TypeOK, RowIsTrue, PullIsTrue, run.lane = repair, Fetch
  PROVE  RowIsTrue' /\ PullIsTrue'
<1>1. /\ UNCHANGED <<repair, tape, disk, cov>> /\ run \in Runs /\ run.pc = "fetch"
      /\ run.cursor \in Cursors /\ tape \subseteq Slots
  BY SizesAssumption DEF Fetch, marketVars, TypeOK, Runs, Slots
<1>2. RowIsTrue'
  BY <1>1, Unwritten
<1>3. SafeAt(run.cursor, Span(run.window), disk) /\ run.cursor # None
  BY <1>1, NoneAssumption DEF PullIsTrue
<1>4. Interval(run) = Span(run.window)
  BY RepairInterval
<1> DEFINE page == Served(run.cursor) \cap Interval(run)
<1>5. Served(run.cursor) \subseteq tape \cap run.cursor.ahead
  BY DEF Served
<1>6. page = Served(run.cursor)
  BY <1>3, <1>4, <1>5 DEF SafeAt
<1>7. /\ run'.pc = "save" /\ run'.page = page /\ run'.next = Continuation(run.cursor)
      /\ run'.done = run.done /\ run'.window = run.window
  BY <1>1, <1>6 DEF Fetch, Runs
<1>8. SafeAt(Continuation(run.cursor), Span(run.window), disk \cup page)
  <2>1. ASSUME NEW s \in tape \cap Span(run.window), s \notin disk \cup page
        PROVE  Continuation(run.cursor) # None /\ s \in Continuation(run.cursor).ahead
    <3>1. s \in run.cursor.ahead /\ s \notin Served(run.cursor) /\ s \in tape
      BY <1>3, <1>6, <2>1 DEF SafeAt
    <3> QED
      BY <1>1, <3>1, ContinuationIsSafe
  <2>2. Continuation(run.cursor) # None => Continuation(run.cursor).ahead \subseteq Span(run.window)
    BY <1>1, <1>3, ContinuationType DEF SafeAt
  <2> QED
    BY <2>1, <2>2 DEF SafeAt
<1>9. PullIsTrue'
  BY <1>1, <1>7, <1>8 DEF PullIsTrue, Stored, SafeAt, Span
<1> QED
  BY <1>2, <1>9

\* The repair never meets a page outside its interval.
LEMMA FetchOutsideIsTrue ==
  ASSUME TypeOK, PullIsTrue, run.lane = repair
  PROVE  ~FetchOutside
<1> SUFFICES ASSUME FetchOutside PROVE FALSE
  OBVIOUS
<1>1. SafeAt(run.cursor, Span(run.window), disk) /\ run.cursor # None
  BY DEF FetchOutside, PullIsTrue, TypeOK
<1>2. Interval(run) = Span(run.window)
  BY RepairInterval
<1>3. Served(run.cursor) \subseteq Interval(run)
  BY <1>1, <1>2 DEF Served, SafeAt
<1> QED
  BY <1>3 DEF FetchOutside

\* Storing a page.
LEMMA SaveIsTrue ==
  ASSUME TypeOK, RowIsTrue, PullIsTrue, run.lane = repair, SavePage
  PROVE  RowIsTrue' /\ PullIsTrue'
<1>1. /\ UNCHANGED <<repair, tape, cov>> /\ disk' = disk \cup run.page
      /\ run \in Runs /\ run.pc = "save"
  BY DEF SavePage, marketVars, TypeOK
<1>2. RowIsTrue'
  BY <1>1, Unwritten
<1>3. /\ run'.pc = "note" /\ run'.next = run.next
      /\ run'.done = run.done /\ run'.window = run.window
  BY <1>1 DEF SavePage, Runs
<1>4. PullIsTrue'
  BY <1>1, <1>3 DEF PullIsTrue, Stored, SafeAt, Span
<1> QED
  BY <1>2, <1>4

\* The row of a note, and what the pull does next.
LEMMA NoteIsTrue ==
  ASSUME TypeOK, RowIsTrue, PullIsTrue, run.lane = repair,
         NextPage \/ StopEarly \/ DayDone \/ WindowDone
  PROVE  RowIsTrue' /\ PullIsTrue'
<1>1. /\ UNCHANGED <<repair, tape, disk>> /\ run \in Runs /\ run.pc = "note"
      /\ tape \subseteq Slots /\ run.next \in Cursors \cup {None}
  BY SizesAssumption DEF NextPage, StopEarly, DayDone, WindowDone, marketVars, TypeOK, Runs, Slots
<1>2. SafeAt(run.next, Span(run.window), disk) /\ \A w \in run.done : Stored(w)
  BY <1>1 DEF PullIsTrue
<1>3. repair.windowed => run.window # None
  BY <1>1 DEF TypeOK
<1>4. CASE NextPage
  <2>1. /\ run'.pc = "fetch" /\ run'.cursor = run.next
        /\ run'.done = run.done /\ run'.window = run.window
    BY <1>1, <1>4 DEF NextPage, Runs
  <2>2. PullIsTrue'
    BY <1>1, <1>2, <2>1 DEF PullIsTrue, Stored, SafeAt, Span
  <2>3. RowIsTrue'
    <3>1. CASE repair.windowed
      BY <1>1, <1>4, <3>1, Unwritten DEF NextPage
    <3>2. CASE ~repair.windowed
      <4>1. cov' = Merged(RowOf(run, "partial", run.next))
        BY <1>4, <3>2 DEF NextPage, Noted
      <4> QED
        BY <1>1, <1>2, <3>2, <4>1, WrittenIsTrue
    <3> QED
      BY <3>1, <3>2
  <2> QED
    BY <2>2, <2>3
<1>5. CASE StopEarly
  <2> DEFINE r == [run EXCEPT !.cursor = run.next]
  <2>1. /\ r \in Runs /\ r.lane = run.lane /\ r.done = run.done
        /\ r.window = run.window /\ r.cursor = run.next
    BY <1>1 DEF Runs
  <2>2. StopWith(r)
    BY <1>5 DEF StopEarly
  <2> HIDE DEF r
  <2> QED
    BY <1>1, <1>2, <1>3, <2>1, <2>2, StopIsTrue
<1>6. CASE DayDone
  <2>1. /\ run'.pc = "end" /\ run'.result = "complete"
        /\ run'.done = run.done /\ run'.window = run.window
    BY <1>1, <1>6 DEF DayDone, Runs
  <2>2. tape \subseteq disk
    BY <1>1, <1>2, <1>6 DEF DayDone, SafeAt, Span
  <2>3. PullIsTrue'
    BY <1>1, <1>2, <2>1, <2>2 DEF PullIsTrue, Stored
  <2>4. cov' = Merged(RowOf(run, "partial", None))
    BY <1>6 DEF DayDone, Noted
  <2>5. RowIsTrue'
    BY <1>1, <1>2, <2>4, WrittenIsTrue
  <2> QED
    BY <2>3, <2>5
<1>7. CASE WindowDone
  <2> DEFINE r == [run EXCEPT !.pc = "open", !.done = @ \cup {run.window},
                              !.window = None, !.cursor = None, !.page = {},
                              !.total = @ \/ run.new, !.new = FALSE]
  <2>1. run' = r /\ repair.windowed /\ run.next = None
        /\ cov' \in {cov, Merged(RowOf(r, "partial", None))}
    BY <1>7 DEF WindowDone
  <2>2. run.window \in Windows
    BY <1>1, <1>3, <2>1 DEF Runs
  <2>3. /\ r \in Runs /\ r.lane = run.lane /\ r.done = run.done \cup {run.window}
        /\ r.pc = "open" /\ r.cursor = None
    BY <1>1, <2>2 DEF Runs
  <2> HIDE DEF r
  <2>4. Stored(run.window)
    BY <1>1, <1>2, <2>1 DEF Stored, SafeAt, Span
  <2>5. \A w \in r.done : Stored(w)
    BY <1>2, <2>3, <2>4
  <2>6. PullIsTrue'
    BY <1>1, <2>1, <2>3, <2>5 DEF PullIsTrue, Stored
  <2>7. RowIsTrue'
    <3>1. CASE cov' = cov
      BY <1>1, <3>1, Unwritten
    <3>2. CASE cov' = Merged(RowOf(r, "partial", None))
      BY <1>1, <2>3, <2>5, <3>2, WrittenIsTrue
    <3> QED
      BY <2>1, <3>1, <3>2
  <2> QED
    BY <2>6, <2>7
<1> QED
  BY <1>4, <1>5, <1>6, <1>7

\* The end of the day's windows, the end of the pull.
LEMMA EndIsTrue ==
  ASSUME TypeOK, RowIsTrue, PullIsTrue, run.lane = repair,
         run.pc = "open" => repair.windowed,
         CapBetweenWindows \/ AllWindowsDone \/ Finish
  PROVE  RowIsTrue' /\ PullIsTrue'
<1>1. /\ UNCHANGED <<repair, tape, disk>> /\ run \in Runs /\ tape \subseteq Slots
  <2>1. UNCHANGED <<repair, tape, disk>>
    BY DEF CapBetweenWindows, AllWindowsDone, Finish, marketVars
  <2> QED
    BY <2>1, SizesAssumption DEF TypeOK, Slots
<1>2. \A w \in run.done : Stored(w)
  BY DEF PullIsTrue
<1>3. CASE CapBetweenWindows
  <2>1. PICK w \in Windows : StopWith([run EXCEPT !.window = w, !.cursor = None])
    BY <1>3 DEF CapBetweenWindows
  <2> DEFINE r == [run EXCEPT !.window = w, !.cursor = None]
  <2>2. r \in Runs /\ r.lane = run.lane /\ r.done = run.done /\ r.cursor = None
    BY <1>1 DEF Runs
  <2>3. StopWith(r)
    BY <2>1
  <2> HIDE DEF r
  <2> QED
    BY <1>1, <1>2, <2>2, <2>3, StopIsTrue
<1>4. CASE AllWindowsDone
  <2>1. /\ run'.pc = "end" /\ run'.result = "complete" /\ run'.done = run.done
        /\ cov' = cov /\ run.done = Windows
    BY <1>1, <1>4 DEF AllWindowsDone, Runs
  <2>2. tape \subseteq disk
    BY <1>1, <1>2, <2>1, WindowAssumption DEF Stored
  <2>3. PullIsTrue'
    BY <1>1, <1>2, <2>1, <2>2 DEF PullIsTrue, Stored
  <2> QED
    BY <1>1, <2>1, <2>3, Unwritten
<1>5. CASE Finish
  <2>1. run.pc = "end" /\ cov' = Merged(Ended(run)) /\ run' = NoRun
    BY <1>5 DEF Finish
  <2>2. RowIsTrue'
    <3>1. CASE run.result = "failed"
      BY <1>1, <2>1, <3>1, FailedRowIsTrue DEF Ended
    <3>2. CASE run.result = "partial"
      <4>1. cov' = Merged(RowOf(run, "partial", run.cursor))
        BY <2>1, <3>2 DEF Ended
      <4>2. run.cursor \in Cursors \cup {None}
        BY <1>1 DEF Runs
      <4>3. run.cursor # None => /\ SafeAt(run.cursor, Span(run.window), disk)
                                 /\ repair.windowed => run.window # None
        BY <2>1, <3>2 DEF PullIsTrue
      <4> QED
        BY <1>1, <1>2, <4>1, <4>2, <4>3, WrittenIsTrue
    <3>3. CASE run.result = "complete"
      <4> DEFINE r == [run EXCEPT !.window = None]
      <4>1. cov' = Merged(RowOf(r, "complete", None))
        BY <2>1, <3>3 DEF Ended
      <4>2. r \in Runs /\ r.lane = run.lane /\ r.done = run.done
        BY <1>1 DEF Runs
      <4>3. tape \subseteq disk
        BY <2>1, <3>3 DEF PullIsTrue
      <4> HIDE DEF r
      <4> QED
        BY <1>1, <1>2, <4>1, <4>2, <4>3, WrittenIsTrue
    <3> QED
      BY <1>1, <3>1, <3>2, <3>3 DEF Runs
  <2> QED
    BY <2>1, <2>2, IdleIsTrue
<1> QED
  BY <1>3, <1>4, <1>5

\* Failures leave what is stored and what is said of it.
LEMMA FailureIsTrue ==
  ASSUME TypeOK, RowIsTrue, run.pc # "idle" => run.lane = repair /\ PullIsTrue,
         Failure, ~lost, ~lost'
  PROVE  RowIsTrue' /\ PullIsTrue'
<1>1. run \in Runs /\ (run.pc # "idle" => \A w \in run.done : Stored(w))
  BY DEF TypeOK, PullIsTrue
<1>2. CASE RequestFails
  <2>1. /\ UNCHANGED <<repair, tape, disk>> /\ run.pc = "fetch" /\ StopWith(run)
    BY <1>2 DEF RequestFails, marketVars
  <2>2. /\ SafeAt(run.cursor, Span(run.window), disk) /\ run.lane = repair
        /\ repair.windowed => run.window # None
    BY <2>1 DEF PullIsTrue, TypeOK
  <2> QED
    BY <1>1, <2>1, <2>2, StopIsTrue
<1>3. ASSUME UNCHANGED <<repair, tape, disk, cov>>, run.pc # "idle",
             run' = [run EXCEPT !.pc = "end", !.result = "failed"]
      PROVE  RowIsTrue' /\ PullIsTrue'
  <2>1. run'.pc = "end" /\ run'.result = "failed" /\ run'.done = run.done
    BY <1>1, <1>3 DEF Runs
  <2>2. PullIsTrue'
    BY <1>1, <1>3, <2>1 DEF PullIsTrue, Stored
  <2> QED
    BY <1>3, <2>2, Unwritten
<1>4. CASE IntervalRaises
  <2>1. UNCHANGED <<repair, tape, disk>> /\ run.pc # "idle"
    BY <1>4 DEF IntervalRaises, marketVars
  <2>2. CASE run.lane.windowed /\ (run.total \/ run.done # {})
    <3> DEFINE r == [run EXCEPT !.cursor = None, !.new = FALSE]
    <3>1. r \in Runs /\ r.lane = run.lane /\ r.done = run.done /\ r.cursor = None
      BY <1>1 DEF Runs
    <3>2. StopWith(r)
      BY <1>4, <2>2 DEF IntervalRaises
    <3> HIDE DEF r
    <3> QED
      BY <1>1, <2>1, <3>1, <3>2, StopIsTrue
  <2>3. CASE ~(run.lane.windowed /\ (run.total \/ run.done # {}))
    BY <1>3, <1>4, <2>1, <2>3 DEF IntervalRaises
  <2> QED
    BY <2>2, <2>3
<1>5. CASE NoteFails
  BY <1>3, <1>5 DEF NoteFails, marketVars
<1>6. CASE Crash
  BY <1>6, IdleIsTrue, Unwritten DEF Crash, marketVars
<1>7. CASE KillInPartitionWrite
  <2>1. disk = {} /\ disk' = {} /\ UNCHANGED <<repair, tape, cov>> /\ run' = NoRun
    BY <1>7 DEF KillInPartitionWrite, marketVars
  <2> QED
    BY <2>1, IdleIsTrue, Unwritten
<1>8. CASE KillInCoverageWrite
  <2>1. cov' = NoRow /\ run' = NoRun
    BY <1>8 DEF KillInCoverageWrite
  <2>2. RowIsTrue'
    BY <2>1 DEF NoRow, RowIsTrue
  <2> QED
    BY <2>1, <2>2, IdleIsTrue
<1> QED
  BY <1>2, <1>4, <1>5, <1>6, <1>7, <1>8 DEF Failure

\* A slice that misleads nobody leaves a row that is true: it stores trades, and
\* what it says of them no repair relies on.
LEMMA SliceIsTrue ==
  ASSUME TypeOK, RowIsTrue, SliceRuns, SliceStep, ~lost, ~lost'
  PROVE  RowIsTrue'
<1>1. UNCHANGED <<repair, tape>> /\ disk \subseteq disk' /\ repair.windowed
  BY DEF SliceRuns, SliceStep
<1>2. CASE cov' = NoRow
  BY <1>2 DEF NoRow, RowIsTrue
<1>3. CASE /\ cov'.done = cov.done /\ cov'.active = cov.active
           /\ cov'.status = "complete" => cov.status = "complete"
  <2>1. cov'.active = None
    BY <1>3 DEF SliceRuns
  <2> QED
    BY <1>1, <1>3, <2>1 DEF RowIsTrue, Stored
<1> QED
  BY <1>2, <1>3 DEF SliceStep

\* The inductive invariant holds of every behaviour.
THEOREM Invariance == Spec => []IndInv
<1>1. Init => IndInv
  <2> SUFFICES ASSUME Init PROVE IndInv
    OBVIOUS
  <2>1. run = NoRun /\ cov = NoRow
    BY DEF Init
  <2>2. RowIsTrue /\ PullIsTrue
    BY <2>1 DEF NoRow, NoRun, RowIsTrue, PullIsTrue
  <2> QED
    BY <2>2, TypeInit, OwnsInit DEF IndInv
<1>2. IndInv /\ [Next]_vars => IndInv'
  <2> SUFFICES ASSUME IndInv, [Next]_vars
               PROVE  IndInv'
    OBVIOUS
  <2>1. CASE UNCHANGED vars
    BY <2>1 DEF IndInv, TypeOK, RepairOwnsTheDay, RowIsTrue, PullIsTrue, Stored, SafeAt,
                Span, vars, marketVars, countVars
  <2>2. CASE Next
    <3>1. TypeOK /\ TypeOK'
      BY <2>2, TypeStep, TypeFailure DEF IndInv, Next
    <3>2. RepairOwnsTheDay'
      BY <2>2, OwnsStep DEF IndInv, RepairOwnsTheDay
    <3>3. ASSUME ~lost', ~misled'
          PROVE  RowIsTrue' /\ (run'.pc # "idle" /\ run'.lane = repair' => PullIsTrue')
      <4>1. ~lost /\ ~misled /\ repair' = repair
        BY <2>2, <3>3, HistoryGrows
      <4>2. RowIsTrue /\ (run.pc # "idle" /\ run.lane = repair => PullIsTrue)
        BY <4>1 DEF IndInv
      <4>3. /\ now # N => /\ cov.status # "complete" /\ cov.done = {} /\ cov.active = None
                          /\ ~repair.windowed => cov.cursor = None
                          /\ run.pc # "idle" => run.lane # repair
            /\ run.pc # "idle" /\ run.lane # repair => SliceRuns
            /\ run.pc = "open" => repair.windowed
        BY <4>1 DEF IndInv, RepairOwnsTheDay, SliceRuns
      <4>4. CASE MarketPrints
        <5>1. now # N /\ UNCHANGED <<repair, cov, run>>
          BY <3>1, <4>4, SizesAssumption DEF MarketPrints, TypeOK
        <5>2. RowIsTrue'
          BY <4>3, <5>1 DEF RowIsTrue
        <5>3. ~(run'.pc # "idle" /\ run'.lane = repair')
          BY <4>3, <5>1
        <5> QED
          BY <5>2, <5>3
      <4>5. CASE BeginRepair
        BY <3>1, <4>2, <4>5, BeginIsTrue
      <4>6. CASE BeginSlice
        <5>1. RowIsTrue'
          BY <4>2, <4>6, Unwritten DEF BeginSlice, marketVars
        <5>2. run'.lane # repair
          <6>1. repair.windowed
            BY <3>3, <4>6 DEF BeginSlice
          <6>2. PICK lane \in Slices : run' = Resumed(lane, NoRow)
            BY <4>6 DEF BeginSlice
          <6>3. ~lane.windowed /\ run'.lane = lane
            BY <6>2, LaneAssumption DEF Resumed, NoRun
          <6> QED
            BY <6>1, <6>3
        <5> QED
          BY <4>1, <5>1, <5>2
      <4>7. CASE (Step \/ Failure) /\ run.pc # "idle" /\ run.lane # repair
        <5>1. SliceRuns /\ SliceStep
          BY <3>1, <3>3, <4>3, <4>7, SliceSteps
        <5>2. RowIsTrue'
          BY <3>1, <3>3, <4>1, <4>2, <5>1, SliceIsTrue
        <5>3. run' = NoRun \/ run'.lane # repair
          BY <4>7, <5>1 DEF SliceStep
        <5> QED
          BY <4>1, <5>2, <5>3, IdleIsTrue
      <4>8. Step => run.pc # "idle"
        BY DEF Step, OpenWindow, CapBetweenWindows, AllWindowsDone, Fetch, FetchOutside,
               SavePage, NextPage, StopEarly, DayDone, WindowDone, Finish
      <4>9. CASE Step /\ run.lane = repair
        <5> USE <4>2, <4>8, <4>9
        <5>1. CASE OpenWindow
          BY <3>1, <4>3, <5>1, OpenIsTrue DEF OpenWindow
        <5>2. CASE CapBetweenWindows \/ AllWindowsDone \/ Finish
          BY <3>1, <4>3, <5>2, EndIsTrue
        <5>3. CASE Fetch
          BY <3>1, <5>3, FetchIsTrue
        <5>4. CASE FetchOutside
          BY <3>1, <5>4, FetchOutsideIsTrue
        <5>5. CASE SavePage
          BY <3>1, <5>5, SaveIsTrue
        <5>6. CASE NextPage \/ StopEarly \/ DayDone \/ WindowDone
          BY <3>1, <5>6, NoteIsTrue
        <5> QED
          BY <5>1, <5>2, <5>3, <5>4, <5>5, <5>6 DEF Step
      <4>10. CASE Failure /\ (run.pc = "idle" \/ run.lane = repair)
        BY <3>1, <3>3, <4>1, <4>2, <4>10, FailureIsTrue
      <4> QED
        BY <2>2, <4>4, <4>5, <4>6, <4>7, <4>8, <4>9, <4>10 DEF Next
    <3> QED
      BY <3>1, <3>2, <3>3 DEF IndInv
  <2> QED
    BY <2>1, <2>2
<1> QED
  BY <1>1, <1>2, PTL DEF Spec

\* A day marked complete has every trade in the partition, as long as no slice
\* misled the repairs and no stored row was lost.
THEOREM CompleteIsFullDepth == Spec => []CompleteDayIsStored
<1>1. IndInv => CompleteDayIsStored
  BY DEF IndInv, RowIsTrue, CompleteDayIsStored, CompleteDayIsFullDepth
<1> QED
  BY <1>1, Invariance, PTL

\* No window is skipped that has a trade missing from the partition.
THEOREM WindowsAreStored == Spec => []CompletedWindowsAreStored
<1>1. IndInv => CompletedWindowsAreStored
  BY DEF IndInv, RowIsTrue, Stored, CompletedWindowsAreStored
<1> QED
  BY <1>1, Invariance, PTL

\* No saved cursor skips a trade missing from the partition.
THEOREM CursorIsSafe == Spec => []CursorSkipsOnlyStored
<1>1. IndInv => CursorSkipsOnlyStored
  <2> SUFFICES ASSUME IndInv, ~lost, ~misled, cov.cursor # None, NEW s \in tape
               PROVE  \/ s \in cov.cursor.ahead
                      \/ s \in disk
                      \/ repair.windowed /\ WindowOf[s] # cov.active
    BY DEF CursorSkipsOnlyStored
  <2>1. s \in Slots /\ WindowOf[s] \in Windows
    BY SizesAssumption, WindowAssumption DEF IndInv, TypeOK, Slots
  <2>2. CASE repair.windowed /\ cov.active = None
    BY <2>1, <2>2, NoneAssumption
  <2>3. CASE repair.windowed => cov.active # None
    <3>1. SafeAt(cov.cursor, Span(cov.active), disk)
      BY <2>3 DEF IndInv, RowIsTrue
    <3> QED
      BY <2>1, <3>1 DEF SafeAt, Span
  <2> QED
    BY <2>2, <2>3
<1> QED
  BY <1>1, Invariance, PTL

\* No step but the loss of the coverage file takes the mark back.
THEOREM CompleteMarkIsKept == Spec => CompleteIsKept
<1> DEFINE Kept == cov.status = "complete" => cov'.status = "complete" \/ cov' = NoRow
<1>1. TypeOK /\ [Next]_vars => [Kept]_vars
  <2> SUFFICES ASSUME TypeOK, Next, cov.status = "complete"
               PROVE  cov'.status = "complete" \/ cov' = NoRow
    OBVIOUS
  <2>1. run \in Runs /\ cov \in Coverage
    BY DEF TypeOK
  <2>2. ASSUME NEW row \in Coverage, cov' = Merged(row)
        PROVE  cov'.status = "complete"
    BY <2>2 DEF Merged, Coverage
  <2>3. ASSUME NEW r \in Runs, r.lane \in Repairs \cup Slices, StopWith(r)
        PROVE  cov'.status = "complete"
    <3>1. LET q == [r EXCEPT !.result = "partial"] IN q \in Runs /\ q.lane = r.lane
      BY DEF Runs
    <3>2. Ended([r EXCEPT !.result = "partial"]) \in Coverage
      BY <2>3, <3>1, RowTypes
    <3> QED
      BY <2>2, <2>3, <3>2 DEF StopWith
  <2>4. CASE CapBetweenWindows
    <3>1. PICK w \in Windows : StopWith([run EXCEPT !.window = w, !.cursor = None])
      BY <2>4 DEF CapBetweenWindows
    <3>2. LET r == [run EXCEPT !.window = w, !.cursor = None] IN r \in Runs /\ r.lane = run.lane
      BY <2>1 DEF Runs
    <3>3. run.lane \in Repairs \cup Slices
      BY <2>4 DEF CapBetweenWindows, TypeOK
    <3> QED
      BY <2>3, <3>1, <3>2, <3>3
  <2>5. CASE StopEarly
    <3>1. LET r == [run EXCEPT !.cursor = run.next] IN r \in Runs /\ r.lane = run.lane
      BY <2>1 DEF Runs
    <3>2. run.lane \in Repairs \cup Slices
      BY <2>5 DEF StopEarly, TypeOK
    <3> QED
      BY <2>3, <2>5, <3>1, <3>2 DEF StopEarly
  <2>6. CASE RequestFails
    <3>1. run.lane \in Repairs \cup Slices
      BY <2>6 DEF RequestFails, TypeOK
    <3> QED
      BY <2>1, <2>3, <2>6, <3>1 DEF RequestFails
  <2>7. CASE IntervalRaises
    <3>1. LET r == [run EXCEPT !.cursor = None, !.new = FALSE] IN r \in Runs /\ r.lane = run.lane
      BY <2>1 DEF Runs
    <3>2. run.lane \in Repairs \cup Slices
      BY <2>7 DEF IntervalRaises, TypeOK
    <3>3. cov' = cov \/ StopWith([run EXCEPT !.cursor = None, !.new = FALSE])
      BY <2>7 DEF IntervalRaises
    <3> QED
      BY <2>3, <3>1, <3>2, <3>3
  <2>8. CASE NextPage
    <3>1. RowOf(run, "partial", run.next) \in Coverage
      BY <2>1, <2>8, RowTypes DEF NextPage, TypeOK, Runs
    <3> QED
      BY <2>2, <2>8, <3>1 DEF NextPage, Noted
  <2>9. CASE DayDone
    <3>1. RowOf(run, "partial", None) \in Coverage
      BY <2>1, <2>9, RowTypes DEF DayDone, TypeOK
    <3> QED
      BY <2>2, <2>9, <3>1 DEF DayDone, Noted
  <2>10. CASE WindowDone
    <3> DEFINE r == [run EXCEPT !.pc = "open", !.done = @ \cup {run.window},
                                !.window = None, !.cursor = None, !.page = {},
                                !.total = @ \/ run.new, !.new = FALSE]
    <3>1. run.window \in Windows /\ run.lane \in Repairs \cup Slices
      BY <2>1, <2>10 DEF WindowDone, TypeOK, Runs
    <3>2. r \in Runs /\ r.lane = run.lane
      BY <2>1, <3>1 DEF Runs
    <3>3. cov' = cov \/ cov' = Merged(RowOf(r, "partial", None))
      BY <2>10 DEF WindowDone
    <3> HIDE DEF r
    <3>4. RowOf(r, "partial", None) \in Coverage
      BY <3>1, <3>2, RowTypes
    <3> QED
      BY <2>2, <3>3, <3>4
  <2>11. CASE Finish
    <3>1. Ended(run) \in Coverage
      BY <2>1, <2>11, RowTypes DEF Finish, TypeOK
    <3> QED
      BY <2>2, <2>11, <3>1 DEF Finish
  <2>12. CASE MarketPrints \/ BeginRepair \/ BeginSlice \/ OpenWindow \/ AllWindowsDone
    BY <2>12 DEF MarketPrints, BeginRepair, BeginSlice, OpenWindow, AllWindowsDone
  <2>13. CASE Fetch \/ FetchOutside \/ SavePage
    BY <2>13 DEF Fetch, FetchOutside, SavePage
  <2>14. CASE NoteFails \/ Crash \/ KillInPartitionWrite \/ KillInCoverageWrite
    BY <2>14 DEF NoteFails, Crash, KillInPartitionWrite, KillInCoverageWrite
  <2> QED
    BY <2>4, <2>5, <2>6, <2>7, <2>8, <2>9, <2>10, <2>11, <2>12, <2>13, <2>14
       DEF Next, Step, Failure
<1> QED
  BY <1>1, TypeCorrect, PTL DEF Spec, CompleteIsKept

-------------------------------------------------------------------------------
(* Every pull ends. *)

LEMMA AdvancesInit == Init => Advances
  BY DEF Init, NoRun, Advances

\* A pull that starts has its first window or its whole session before it.
LEMMA AdvancesBegin ==
  ASSUME NEW lane \in Repairs \cup Slices, NEW row \in Coverage, run' = Resumed(lane, row)
  PROVE  Advances'
<1>1. lane \in Lanes
  BY LaneType
<1>2. [ahead |-> lane.session, desc |-> lane.desc] \in Cursors
  BY <1>1 DEF Lanes, Cursors
<1>3. CASE lane.windowed
  BY <1>3 DEF Resumed, NoRun, Advances
<1>4. CASE ~lane.windowed
  BY <1>2, <1>4, NoneAssumption DEF Resumed, NoRun, Advances
<1> QED
  BY <1>3, <1>4

\* A step that goes on with the pull.
Moved == Advances' /\ run'.lane = run.lane /\ Nearer(run', run)

\* A step that stops takes the pull to its end.
LEMMA StopIsNearer ==
  ASSUME NEW r \in Runs, r.lane = run.lane, r.done = run.done, run.pc # "end",
         StopWith(r), run \in Runs, run.pc # "idle"
  PROVE  Moved
<1>1. /\ run'.pc = "end" /\ run'.lane = run.lane /\ run'.done = run.done
  BY DEF StopWith, Runs
<1>2. Stage["end"] < Stage[run.pc]
  BY DEF Stage, Runs
<1>3. Ahead(run') = {} /\ Left(run') = Left(run)
  BY <1>1 DEF Ahead, Left
<1> QED
  BY <1>1, <1>2, <1>3 DEF Moved, Nearer, Advances

\* So does one that ends it with another result.
LEMMA EndIsNearer ==
  ASSUME run \in Runs, run.pc \notin {"idle", "end"},
         NEW result \in {"complete", "failed"},
         run' = [run EXCEPT !.pc = "end", !.result = result]
  PROVE  Moved
<1>1. /\ run'.pc = "end" /\ run'.lane = run.lane /\ run'.done = run.done
  BY DEF Runs
<1>2. Stage["end"] < Stage[run.pc]
  BY DEF Stage, Runs
<1>3. Ahead(run') = {} /\ Left(run') = Left(run)
  BY <1>1 DEF Ahead, Left
<1> QED
  BY <1>1, <1>2, <1>3 DEF Moved, Nearer, Advances

\* One step per page and window.
LEMMA PageIsNearer ==
  ASSUME TypeOK, Advances,
         OpenWindow \/ Fetch \/ FetchOutside \/ SavePage \/ NextPage \/ WindowDone
  PROVE  Moved
<1>0. run \in Runs /\ tape \subseteq Slots
  BY SizesAssumption DEF TypeOK, Slots
<1>1. ASSUME run'.done = run.done, run'.lane = run.lane
      PROVE  Left(run') = Left(run)
  BY <1>1 DEF Left
<1>2. CASE OpenWindow
  <2>1. PICK w \in Windows \ run.done :
          LET resumed == run.window = w /\ run.cursor # None
              r == [run EXCEPT !.window = w, !.had = @ /\ resumed]
          IN  run' = [r EXCEPT !.pc = "fetch",
                               !.cursor = IF resumed THEN @
                                          ELSE [ahead |-> Interval(r), desc |-> r.lane.desc]]
    BY <1>2 DEF OpenWindow
  <2> DEFINE r == [run EXCEPT !.window = w, !.had = @ /\ (run.window = w /\ run.cursor # None)]
             fresh == [ahead |-> Interval(r), desc |-> r.lane.desc]
  <2>2. r \in Runs /\ r.lane = run.lane /\ r.done = run.done /\ r.window = w /\ r.cursor = run.cursor
    BY <1>0 DEF Runs
  <2>3. run.pc = "open" /\ run.lane \in Lanes
    BY <1>2, LaneType DEF OpenWindow, TypeOK
  <2>4. fresh \in Cursors /\ fresh # None
    BY <2>2, <2>3, NoneAssumption DEF Interval, Lanes, Cursors
  <2>5. run' = [r EXCEPT !.pc = "fetch",
                         !.cursor = IF run.window = w /\ run.cursor # None THEN @ ELSE fresh]
    BY <2>1
  <2> HIDE DEF r, fresh
  <2>6. /\ run'.pc = "fetch" /\ run'.done = run.done /\ run'.lane = run.lane /\ run'.window = w
        /\ (run'.cursor = run.cursor /\ run.cursor # None) \/ run'.cursor = fresh
    BY <2>2, <2>5 DEF Runs
  <2>7. run'.cursor \in Cursors /\ run'.cursor # None
    BY <1>0, <2>4, <2>6 DEF Runs
  <2>8. Advances'
    BY <2>6, <2>7 DEF Advances
  <2>9. Ahead(run') \subseteq Ahead(run)
    BY <2>3, <2>6, <2>7 DEF Ahead, Cursors
  <2>10. Stage[run'.pc] < Stage[run.pc]
    BY <2>3, <2>6 DEF Stage
  <2> QED
    BY <1>1, <2>6, <2>8, <2>9, <2>10 DEF Moved, Nearer
<1>3. ASSUME run.pc \in {"fetch", "save"}, run'.pc \in {"save", "note"},
             Stage[run'.pc] < Stage[run.pc],
             run'.done = run.done, run'.lane = run.lane, run'.window = run.window,
             run'.cursor = run.cursor,
             run'.next # None => /\ run'.next.ahead \subseteq run.cursor.ahead
                                 /\ run'.next.ahead # run.cursor.ahead
      PROVE  Moved
  <2>1. Ahead(run') = Ahead(run)
    BY <1>3 DEF Ahead
  <2>2. Advances'
    BY <1>3 DEF Advances
  <2> QED
    BY <1>1, <1>3, <2>1, <2>2 DEF Moved, Nearer
<1>4. CASE Fetch
  <2>1. PICK next \in {None, Continuation(run.cursor)} :
          run' = [run EXCEPT !.pc = "save", !.page = Served(run.cursor) \cap Interval(run),
                             !.pages = @ + 1, !.next = next]
    BY <1>4 DEF Fetch
  <2>2. run.pc = "fetch" /\ run.cursor \in Cursors
    BY <1>0, <1>4 DEF Fetch, TypeOK, Runs
  <2>3. /\ run'.pc = "save" /\ run'.done = run.done /\ run'.lane = run.lane
        /\ run'.window = run.window /\ run'.cursor = run.cursor /\ run'.next = next
    BY <1>0, <2>1 DEF Runs
  <2>4. next # None => next.ahead \subseteq run.cursor.ahead /\ next.ahead # run.cursor.ahead
    BY <1>0, <2>2, ContinuationIsLess
  <2>5. Stage[run'.pc] < Stage[run.pc]
    BY <2>2, <2>3 DEF Stage
  <2> QED
    BY <1>3, <2>2, <2>3, <2>4, <2>5
<1>5. CASE FetchOutside
  <2>1. CASE run.lane.windowed
    <3>1. run' = [run EXCEPT !.pc = "note", !.pages = @ + 1, !.next = None]
      BY <1>5, <2>1 DEF FetchOutside
    <3>2. /\ run.pc = "fetch" /\ run'.pc = "note" /\ run'.done = run.done
          /\ run'.lane = run.lane /\ run'.window = run.window
          /\ run'.cursor = run.cursor /\ run'.next = None
      BY <1>0, <1>5, <3>1 DEF FetchOutside, Runs
    <3>3. Stage[run'.pc] < Stage[run.pc]
      BY <3>2 DEF Stage
    <3> QED
      BY <1>3, <3>2, <3>3
  <2>2. CASE ~run.lane.windowed
    <3>1. run' = [run EXCEPT !.pc = "end", !.result = "complete"] /\ run.pc = "fetch"
      BY <1>5, <2>2 DEF FetchOutside
    <3> QED
      BY <1>0, <3>1, EndIsNearer
  <2> QED
    BY <2>1, <2>2
<1>6. CASE SavePage
  <2>1. /\ run.pc = "save" /\ run'.pc = "note" /\ run'.done = run.done
        /\ run'.lane = run.lane /\ run'.window = run.window
        /\ run'.cursor = run.cursor /\ run'.next = run.next
    BY <1>0, <1>6 DEF SavePage, Runs
  <2>2. Stage[run'.pc] < Stage[run.pc]
    BY <2>1 DEF Stage
  <2> QED
    BY <1>3, <2>1, <2>2 DEF Advances
<1>7. CASE NextPage
  <2>1. /\ run.pc = "note" /\ run.next # None /\ run'.pc = "fetch" /\ run'.done = run.done
        /\ run'.lane = run.lane /\ run'.window = run.window /\ run'.cursor = run.next
    BY <1>0, <1>7 DEF NextPage, Runs
  <2>2. Ahead(run') \subseteq Ahead(run) /\ Ahead(run') # Ahead(run)
    BY <2>1 DEF Ahead, Advances
  <2>3. Advances'
    BY <2>1 DEF Advances
  <2> QED
    BY <1>1, <2>1, <2>2, <2>3 DEF Moved, Nearer
<1>8. CASE WindowDone
  <2>1. /\ run.pc = "note" /\ run.lane.windowed /\ run'.pc = "open"
        /\ run'.lane = run.lane /\ run'.done = run.done \cup {run.window}
    BY <1>0, <1>8 DEF WindowDone, Runs
  <2>2. run.window \in Windows \ run.done
    BY <1>0, <2>1 DEF TypeOK, Runs, Advances
  <2>3. Left(run') \subseteq Left(run) /\ Left(run') # Left(run)
    BY <2>1, <2>2 DEF Left
  <2>4. Advances'
    BY <2>1 DEF Advances
  <2> QED
    BY <2>1, <2>3, <2>4 DEF Moved, Nearer
<1> QED
  BY <1>2, <1>4, <1>5, <1>6, <1>7, <1>8

\* And one for each way it can end.
LEMMA LastStepIsNearer ==
  ASSUME TypeOK, CapBetweenWindows \/ AllWindowsDone \/ StopEarly \/ DayDone
                 \/ RequestFails \/ IntervalRaises \/ NoteFails
  PROVE  Moved
<1>0. run \in Runs
  BY DEF TypeOK
<1>1. run.pc \in {"open", "fetch", "save", "note"}
  BY DEF CapBetweenWindows, AllWindowsDone, StopEarly, DayDone, RequestFails,
         IntervalRaises, NoteFails
<1>2. ASSUME NEW result \in {"complete", "failed"},
             run' = [run EXCEPT !.pc = "end", !.result = result]
      PROVE  Moved
  BY <1>0, <1>1, <1>2, EndIsNearer
<1>3. ASSUME NEW r \in Runs, r.lane = run.lane, r.done = run.done, StopWith(r)
      PROVE  Moved
  BY <1>0, <1>1, <1>3, StopIsNearer
<1>4. CASE CapBetweenWindows
  <2>1. PICK w \in Windows : StopWith([run EXCEPT !.window = w, !.cursor = None])
    BY <1>4 DEF CapBetweenWindows
  <2>2. LET r == [run EXCEPT !.window = w, !.cursor = None]
        IN  r \in Runs /\ r.lane = run.lane /\ r.done = run.done
    BY <1>0 DEF Runs
  <2> QED
    BY <1>3, <2>1, <2>2
<1>5. CASE StopEarly
  <2>1. LET r == [run EXCEPT !.cursor = run.next]
        IN  r \in Runs /\ r.lane = run.lane /\ r.done = run.done
    BY <1>0 DEF Runs
  <2> QED
    BY <1>3, <1>5, <2>1 DEF StopEarly
<1>6. CASE RequestFails
  BY <1>0, <1>3, <1>6 DEF RequestFails
<1>7. CASE IntervalRaises
  <2>1. LET r == [run EXCEPT !.cursor = None, !.new = FALSE]
        IN  r \in Runs /\ r.lane = run.lane /\ r.done = run.done
    BY <1>0 DEF Runs
  <2>2. \/ StopWith([run EXCEPT !.cursor = None, !.new = FALSE])
        \/ run' = [run EXCEPT !.pc = "end", !.result = "failed"]
    BY <1>7 DEF IntervalRaises
  <2> QED
    BY <1>2, <1>3, <2>1, <2>2
<1>8. CASE AllWindowsDone \/ DayDone \/ NoteFails
  BY <1>2, <1>8 DEF AllWindowsDone, DayDone, NoteFails
<1> QED
  BY <1>4, <1>5, <1>6, <1>7, <1>8

\* Each step of a pull takes it nearer its end: no page is asked for twice, no
\* window opened twice, and a pull without a cap of pages ends like a capped one.
THEOREM PullsAreFinite == Spec => PullsEnd
<1> DEFINE Step1 == run.pc # "idle" /\ run' # run =>
                      run' = NoRun \/ (run'.lane = run.lane /\ Nearer(run', run))
<1>1. ASSUME TypeOK, Advances, Next
      PROVE  Advances' /\ Step1
  <2>1. CASE MarketPrints
    BY <1>1, <2>1 DEF MarketPrints, Advances
  <2>2. CASE BeginRepair
    BY <1>1, <2>2, AdvancesBegin DEF BeginRepair, TypeOK
  <2>3. CASE BeginSlice
    <3>1. NoRow \in Coverage
      BY DEF NoRow, Coverage
    <3> QED
      BY <1>1, <2>3, <3>1, AdvancesBegin DEF BeginSlice
  <2>4. CASE OpenWindow \/ Fetch \/ FetchOutside \/ SavePage \/ NextPage \/ WindowDone
    BY <1>1, <2>4, PageIsNearer DEF Moved
  <2>5. CASE CapBetweenWindows \/ AllWindowsDone \/ StopEarly \/ DayDone
             \/ RequestFails \/ IntervalRaises \/ NoteFails
    BY <1>1, <2>5, LastStepIsNearer DEF Moved
  <2>6. CASE Finish \/ Crash \/ KillInPartitionWrite \/ KillInCoverageWrite
    <3>1. run' = NoRun
      BY <2>6 DEF Finish, Crash, KillInPartitionWrite, KillInCoverageWrite
    <3> QED
      BY <3>1 DEF NoRun, Advances
  <2> QED
    BY <1>1, <2>1, <2>2, <2>3, <2>4, <2>5, <2>6 DEF Next, Step, Failure
<1>2. TypeOK /\ Advances /\ [Next]_vars => Advances' /\ [Step1]_vars
  <2> HIDE DEF Step1
  <2>1. CASE UNCHANGED vars
    BY <2>1 DEF vars, Advances
  <2> QED
    BY <1>1, <2>1
<1> QED
  BY <1>2, AdvancesInit, TypeCorrect, PTL DEF Spec, PullsEnd
====
