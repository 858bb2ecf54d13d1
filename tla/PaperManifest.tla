----------------------------- MODULE PaperManifest -----------------------------
(***************************************************************************)
(* The cockpit's paper manifest: one POST /cockpit/submit carries several  *)
(* order rows, all checked against one execution preview context that is   *)
(* built before the first order leaves.  The context is where the          *)
(* portfolio's limits are enforced: the broker's exposure, the promotion   *)
(* of approved WATCH reports and the risk decisions of a whole cycle.      *)
(*                                                                         *)
(* Every order opens a position of one ticker.  An order intent is what    *)
(* its hash tells apart; the awaits inside the submission of one row are   *)
(* the subject of OrderSubmission and are coarser here.  Manifests are     *)
(* coroutines of one event loop and nothing locks the portfolio.           *)
(***************************************************************************)
EXTENDS Integers, Sequences, FiniteSets

CONSTANTS
    Manifests,     \* submits of a behaviour
    Tickers,
    Sources,       \* the data sources
    LastCycle,     \* bound: selection cycles
    Reports,       \* the selection reports of each cycle, in list order
    Policies,      \* portfolio policies a behaviour may run under
    Terms,         \* what a preview takes from the account and the sources
    MaxRows,       \* bound: rows of a manifest
    None           \* no row, no manifest

Cycles == 1 .. LastCycle

\* caution: risk flags, or a WARN policy gate of a BUY.  HOLD stands for every
\* report that opens nothing, also a BUY below the minimum conviction.  rank:
\* place in the order of promotion, falling conviction and then ticker.
\* sources: those its evidence pack names.
Report == [ticker : Tickers, action : {"BUY", "WATCH", "HOLD"},
           caution : BOOLEAN, rank : Nat, sources : SUBSET Sources]

\* max_gross_exposure_pct counted in positions of default_position_pct, and
\* the two limits per cycle.
Policy == [cap : Nat, maxNew : Nat, maxPromotions : Nat]

Distinct(list) ==
    \A a, b \in DOMAIN list :
        list[a].ticker = list[b].ticker \/ list[a].rank = list[b].rank => a = b

\* Of one data source; absent: the preview has no row of it.
Health == {"healthy", "degraded", "absent"}

\* The data sources' health, and the notional that the account's equity makes
\* of default_position_pct.
Term == [health : [Sources -> Health], notional : Nat]

ASSUME BoundsAssumption == LastCycle \in Nat \ {0} /\ MaxRows \in Nat
ASSUME ReportsAssumption ==
    /\ Reports \in [Cycles -> Seq(Report)]
    /\ \A c \in Cycles : Distinct(Reports[c])
ASSUME PoliciesAssumption == Policies \subseteq Policy
ASSUME TermsAssumption == Terms \subseteq Term

\* A report by its cycle and its place in the list.
Keys == UNION {{[cycle |-> c, place |-> n] : n \in DOMAIN Reports[c]} : c \in Cycles}
ReportOf(k) == Reports[k.cycle][k.place]

\* The order_intent_hash of a row without position or open order is made of
\* its report, its notional and the reasons of its risk decision.  Those are
\* the report's cautions and whether one of its data sources is degraded.
Intents == [key : Keys, degraded : BOOLEAN, notional : {t.notional : t \in Terms}]
Ticker(i) == ReportOf(i.key).ticker
Warned(i) == ReportOf(i.key).caution \/ i.degraded

ASSUME NoneAssumption == None \notin Intents /\ None \notin Manifests

VARIABLES
    policy, cycle,     \* the portfolio's policy, the current cycle
    doubted,           \* history: clean BUY reports that some preview of their
                       \* cycle found without healthy sources
    ready,             \* intents with a durable READY row
    status,            \* the broker's order of each intent
    blind, by,         \* history: how each order came to be placed
    wire, reply,       \* requests on their way, the broker's answers
    pc, ctx

inputVars == <<policy, cycle, doubted>>
brokerVars == <<status, blind, by>>
vars == <<inputVars, ready, brokerVars, wire, reply, pc, ctx>>

\* gone: canceled, or the position sold.
BrokerStates == {"none", "open", "held", "gone"}

Message == [manifest : Manifests, intent : Intents, known : SUBSET Intents]

\* Locals of a manifest: the broker snapshot, the intents whose exposure it
\* accounts for, the rows it may submit, the row in progress and the lists the
\* answer is made from (rejected: there is such a row).
Context == [read : SUBSET {"positions", "orders"},
            positions : SUBSET Intents, orders : SUBSET Intents,
            known : SUBSET Intents, enabled : SUBSET Intents,
            row : Intents \cup {None}, count : Nat,
            accepted : SUBSET Intents, unheard : SUBSET Intents,
            rejected : BOOLEAN, pending : BOOLEAN]

EmptyContext == [read |-> {}, positions |-> {}, orders |-> {},
                 known |-> {}, enabled |-> {}, row |-> None, count |-> 0,
                 accepted |-> {}, unheard |-> {}, rejected |-> FALSE, pending |-> FALSE]

Active == {"snapshot", "rows", "await"}
Answers == {"accepted", "reconcile_pending", "partial", "rejected"}
Ended == Answers \cup {"broken_off"}

TypeOK ==
    /\ policy \in Policies
    /\ cycle \in Cycles
    /\ doubted \subseteq Keys
    /\ ready \subseteq Intents
    /\ status \in [Intents -> BrokerStates]
    /\ blind \subseteq Intents
    /\ by \in [Intents -> Manifests \cup {None}]
    /\ wire \subseteq Message
    /\ reply \in [Manifests -> {"none", "accepted", "rejected"}]
    /\ pc \in [Manifests -> Active \cup Ended]
    /\ ctx \in [Manifests -> Context]
    /\ \A m \in Manifests : pc[m] = "await" => ctx[m].row \in Intents

Init ==
    /\ policy \in Policies
    /\ cycle = 1 /\ doubted = {}
    /\ ready = {}
    /\ status = [i \in Intents |-> "none"]
    /\ blind = {} /\ by = [i \in Intents |-> None]
    /\ wire = {}
    /\ reply = [m \in Manifests |-> "none"]
    /\ pc = [m \in Manifests |-> "snapshot"]
    /\ ctx = [m \in Manifests |-> EmptyContext]

(***************************************************************************)
(* From reports to order rows                                              *)
(*                                                                         *)
(* x is what a preview is built from: the broker's positions and orders as *)
(* read, the health of the data sources and the reports cleared, that is   *)
(* approved by a human and, where promotion takes it, advanced by hand.    *)
(***************************************************************************)
CycleKeys == {k \in Keys : k.cycle = cycle}
WatchKeys == {k \in CycleKeys : ReportOf(k).action = "WATCH"}
CleanBuys(c) ==
    {k \in Keys : k.cycle = c /\ ReportOf(k).action = "BUY" /\ ~ReportOf(k).caution}

Mut_Flat(x, k) ==                 \* Mutant: active orders are not looked at
    \A i \in x.positions : Ticker(i) # ReportOf(k).ticker

\* Neither position nor active order of the report's ticker.
Flat(x, k) == \A i \in x.positions \cup x.orders : Ticker(i) # ReportOf(k).ticker

\* _promotion_checks.  The manual advance of a report stands in for the checks
\* an operator may override.
Eligible(x, k) == k \in WatchKeys /\ Flat(x, k) /\ k \in x.cleared

\* The first eligible reports, up to max_promotions_per_cycle.
Promoted(x) ==
    LET eligible == {k \in CycleKeys : Eligible(x, k)}
        before(k) == {l \in eligible : ReportOf(l).rank < ReportOf(k).rank}
    IN  {k \in eligible : Cardinality(before(k)) < policy.maxPromotions}

Opens(x, k) == ReportOf(k).action = "BUY" \/ k \in Promoted(x)

Mut_SourceCheck(x, k) ==          \* Mutant: the sources of all reports
    IF \E s \in Sources : x.terms.health[s] = "absent" THEN "BLOCK"
    ELSE IF \E s \in Sources : x.terms.health[s] = "degraded" THEN "WARN"
    ELSE "PASS"

\* _runtime_source_check of a report: every source it uses must be there, and
\* one that uses none looks at all there are.
SourceCheck(x, k) ==
    LET used == ReportOf(k).sources
        present == {s \in Sources : x.terms.health[s] # "absent"}
        relevant == IF used = {} THEN present ELSE used \cap present
    IN  IF relevant = {} \/ ~(used \subseteq present) THEN "BLOCK"
        ELSE IF \E s \in relevant : x.terms.health[s] = "degraded" THEN "WARN"
        ELSE "PASS"

\* What the check is to find out, for the history and the properties.
HealthySources(x, k) ==
    LET used == ReportOf(k).sources
        is(s, health) == x.terms.health[s] = health
    IN  IF used # {} THEN \A s \in used : is(s, "healthy")
        ELSE /\ \E s \in Sources : is(s, "healthy")
             /\ \A s \in Sources : ~is(s, "degraded")

IntentOf(x, k) == [key |-> k, degraded |-> SourceCheck(x, k) = "WARN",
                   notional |-> x.terms.notional]

Mut_Counted(x) == Cardinality(x.positions)    \* Mutant: pending orders left out

\* An order that fills between the two reads counts twice, or not at all.
Counted(x) == Cardinality(x.positions) + Cardinality(x.orders)

\* build_risk_decision of a report with so many ALLOW rows before it: capacity
\* and projected gross exposure.
NotBlocked(x, k, ahead) ==
    /\ Opens(x, k)
    /\ SourceCheck(x, k) # "BLOCK"
    /\ ahead < policy.maxNew
    /\ Counted(x) + ahead + 1 <= policy.cap

\* Mutant: a row that cannot be ordered again gives its place away.
Mut_Allowed(x, k, ahead) ==
    NotBlocked(x, k, ahead) /\ ~Warned(IntentOf(x, k)) /\ Flat(x, k)

\* Decided ALLOW.
Allowed(x, k, ahead) == NotBlocked(x, k, ahead) /\ ~Warned(IntentOf(x, k))

\* build_risk_decisions: opening_trade_index at each place of the list.  Only
\* an ALLOW moves it.
Ahead(x) ==
    LET index[n \in 1 .. Len(Reports[cycle])] ==
            IF n = 1 THEN 0
            ELSE LET k == [cycle |-> cycle, place |-> n - 1]
                 IN  index[n - 1] + IF Allowed(x, k, index[n - 1]) THEN 1 ELSE 0
    IN  index

\* The rows decided ALLOW, and the READY rows that are flat.
Plan(x) ==
    LET ahead == Ahead(x)
    IN  {IntentOf(x, k) : k \in {l \in CycleKeys : Allowed(x, l, ahead[l.place])}}

ReadyRows(x) ==
    LET ahead == Ahead(x)
    IN  {IntentOf(x, k) : k \in {l \in CycleKeys :
            NotBlocked(x, l, ahead[l.place]) /\ Flat(x, l)}}

(***************************************************************************)
(* The world around the manifests                                          *)
(***************************************************************************)
Refresh ==
    /\ cycle + 1 \in Cycles
    /\ cycle' = cycle + 1
    /\ UNCHANGED <<policy, doubted, ready, brokerVars, wire, reply, pc, ctx>>

HeldNow == {i \in Intents : status[i] = "held"}
OpenNow == {i \in Intents : status[i] = "open"}
Exposed == HeldNow \cup OpenNow

Waits(w) == pc[w.manifest] = "await" /\ ctx[w.manifest].row = w.intent

\* Alpaca takes an order whose client_order_id, a function of the intent, it
\* has not seen.  The order is blind when the broker carries exposure its
\* context did not count.
BrokerTake(w) ==
    /\ w \in wire
    /\ status[w.intent] = "none"
    /\ status' = [status EXCEPT ![w.intent] = "open"]
    /\ by' = [by EXCEPT ![w.intent] = w.manifest]
    /\ blind' = IF Exposed \subseteq w.known THEN blind ELSE blind \cup {w.intent}
    /\ wire' = wire \ {w}
    /\ reply' = IF Waits(w) THEN [reply EXCEPT ![w.manifest] = "accepted"] ELSE reply
    /\ UNCHANGED <<inputVars, ready, pc, ctx>>

\* A duplicate client_order_id, or any reason of the broker's own.
BrokerRefuse(w) ==
    /\ w \in wire
    /\ wire' = wire \ {w}
    /\ reply' = IF Waits(w) THEN [reply EXCEPT ![w.manifest] = "rejected"] ELSE reply
    /\ UNCHANGED <<inputVars, ready, brokerVars, pc, ctx>>

\* The order fills or is canceled; the position is sold.
BrokerMove(i) ==
    /\ \E move \in {<<"open", "held">>, <<"open", "gone">>, <<"held", "gone">>} :
        /\ status[i] = move[1]
        /\ status' = [status EXCEPT ![i] = move[2]]
    /\ UNCHANGED <<inputVars, ready, blind, by, wire, reply, pc, ctx>>

(***************************************************************************)
(* POST /cockpit/submit                                                    *)
(***************************************************************************)
Goto(m, step) == pc' = [pc EXCEPT ![m] = step]

\* Positions and open orders are asked for together and answered in either
\* order.  A manifest begins, at any time, with the first of its reads.
ReadPositions(m) ==
    /\ pc[m] = "snapshot" /\ "positions" \notin ctx[m].read
    /\ ctx' = [ctx EXCEPT ![m].positions = HeldNow, ![m].read = @ \cup {"positions"}]
    /\ UNCHANGED <<inputVars, ready, brokerVars, wire, reply, pc>>

ReadOrders(m) ==
    /\ pc[m] = "snapshot" /\ "orders" \notin ctx[m].read
    /\ ctx' = [ctx EXCEPT ![m].orders = OpenNow, ![m].read = @ \cup {"orders"}]
    /\ UNCHANGED <<inputVars, ready, brokerVars, wire, reply, pc>>

\* The reviews and the health of the sources as read, then promotion, risk and
\* previews of the current reports without an await.  Which of the READY rows
\* have their research and order approvals and no recorded state is open here:
\* SendRow takes any.
Built(m, terms, cleared) ==
    [positions |-> ctx[m].positions, orders |-> ctx[m].orders,
     terms |-> terms, cleared |-> cleared]

HasSnapshot(m) == pc[m] = "snapshot" /\ ctx[m].read = {"positions", "orders"}

BuildPreview(m) ==
    /\ HasSnapshot(m)
    /\ \E terms \in Terms, cleared \in SUBSET WatchKeys :
        LET x == Built(m, terms, cleared)
        IN  /\ ctx' = [ctx EXCEPT ![m] = [EmptyContext EXCEPT
                !.known = x.positions \cup x.orders \cup Plan(x),
                !.enabled = ReadyRows(x)]]
            /\ doubted' = doubted \cup {k \in CleanBuys(cycle) : ~HealthySources(x, k)}
    /\ Goto(m, "rows")
    /\ UNCHANGED <<policy, cycle, ready, brokerVars, wire, reply>>

NextRow(m) == pc[m] = "rows" /\ ctx[m].count < MaxRows

\* 404 or 409: the context has no such row, or one with another hash.  The
\* rows before it stay submitted and the answer does not name them.
AbortManifest(m) ==
    /\ NextRow(m)
    /\ Goto(m, "broken_off")
    /\ ctx' = [ctx EXCEPT ![m] = EmptyContext]
    /\ UNCHANGED <<inputVars, ready, brokerVars, wire, reply>>

\* The row itself says no, or the policy, or the audit database before
\* anything is sent.
RefuseRow(m) ==
    /\ NextRow(m)
    /\ ctx' = [ctx EXCEPT ![m].count = @ + 1, ![m].rejected = TRUE]
    /\ UNCHANGED <<inputVars, ready, brokerVars, wire, reply, pc>>

\* Mutant: the row in progress is not kept over the await.
Mut_SendRow(m) ==
    /\ NextRow(m)
    /\ \E i \in ctx[m].enabled :
        /\ ready' = ready \cup {i}
        /\ wire' = wire \cup {[manifest |-> m, intent |-> i, known |-> ctx[m].known]}
        /\ ctx' = [ctx EXCEPT ![m].count = @ + 1]
    /\ Goto(m, "await")
    /\ UNCHANGED <<inputVars, brokerVars, reply>>

\* Mutant: a row whose READY record cannot be stored is sent all the same.
Mut_SendUnrecorded(m) ==
    /\ NextRow(m)
    /\ \E i \in ctx[m].enabled :
        /\ ready' \in {ready, ready \cup {i}}
        /\ wire' = wire \cup {[manifest |-> m, intent |-> i, known |-> ctx[m].known]}
        /\ ctx' = [ctx EXCEPT ![m].count = @ + 1, ![m].row = i]
    /\ Goto(m, "await")
    /\ UNCHANGED <<inputVars, brokerVars, reply>>

\* The READY row is made durable and the order leaves; a FAILED or broker
\* state recorded later only narrows what a later preview offers.
SendRow(m) ==
    /\ NextRow(m)
    /\ \E i \in ctx[m].enabled :
        /\ ready' = ready \cup {i}
        /\ wire' = wire \cup {[manifest |-> m, intent |-> i, known |-> ctx[m].known]}
        /\ ctx' = [ctx EXCEPT ![m].count = @ + 1, ![m].row = i]
    /\ Goto(m, "await")
    /\ UNCHANGED <<inputVars, brokerVars, reply>>

\* The row is done: its lists, and its locals are gone.
RowDone(m, accepted, rejected, unheard, pending) ==
    /\ LET x == ctx[m]
       IN  ctx' = [ctx EXCEPT ![m] = [x EXCEPT
            !.row = None, !.accepted = x.accepted \cup accepted,
            !.rejected = x.rejected \/ rejected, !.unheard = x.unheard \cup unheard,
            !.pending = x.pending \/ pending]]
    /\ reply' = [reply EXCEPT ![m] = "none"]
    /\ Goto(m, "rows")

\* The order is reconciled and recorded; or 202, one of the two failed.
HearAccepted(m) ==
    /\ pc[m] = "await" /\ reply[m] = "accepted"
    /\ \E pending \in BOOLEAN : RowDone(m, {ctx[m].row}, FALSE, {}, pending)
    /\ UNCHANGED <<inputVars, ready, brokerVars, wire>>

\* 502: the broker refused, or its answer is lost or late.
HearFailure(m) ==
    /\ pc[m] = "await"
    /\ RowDone(m, {}, TRUE, IF reply[m] = "rejected" THEN {} ELSE {ctx[m].row}, FALSE)
    /\ UNCHANGED <<inputVars, ready, brokerVars, wire>>

Mut_Answer(x) ==                  \* Mutant: 202 whenever a row is pending
    CASE x.pending                              -> "reconcile_pending"
      [] ~x.pending /\ x.rejected               -> "rejected"
      [] ~x.pending /\ ~x.rejected              -> "accepted"

Answer(x) ==
    CASE x.pending /\ ~x.rejected               -> "reconcile_pending"
      [] x.accepted # {} /\ x.rejected          -> "partial"
      [] x.accepted = {} /\ x.rejected          -> "rejected"
      [] ~x.pending /\ ~x.rejected              -> "accepted"

\* All rows are done; the answer is made from the lists.
FinishManifest(m) ==
    /\ pc[m] = "rows" /\ ctx[m].count > 0
    /\ Goto(m, Answer(ctx[m]))
    /\ ctx' = [ctx EXCEPT ![m] = [EmptyContext EXCEPT !.accepted = ctx[m].accepted,
                                                      !.unheard = ctx[m].unheard]]
    /\ UNCHANGED <<inputVars, ready, brokerVars, wire, reply>>

\* The process stops, or the client goes away.
Die(m) ==
    /\ pc[m] \in Active
    /\ Goto(m, "broken_off")
    /\ reply' = [reply EXCEPT ![m] = "none"]
    /\ ctx' = [ctx EXCEPT ![m] = EmptyContext]
    /\ UNCHANGED <<inputVars, ready, brokerVars, wire>>

(***************************************************************************)
(* Specification                                                           *)
(***************************************************************************)
Handle(m) == \/ ReadPositions(m) \/ ReadOrders(m) \/ BuildPreview(m)
             \/ AbortManifest(m) \/ RefuseRow(m) \/ SendRow(m)
             \/ HearAccepted(m) \/ HearFailure(m) \/ FinishManifest(m)

Broker == \/ \E w \in wire : BrokerTake(w) \/ BrokerRefuse(w)
          \/ \E i \in Intents : BrokerMove(i)

Next == \/ Refresh
        \/ Broker
        \/ \E m \in Manifests : Handle(m) \/ Die(m)

Spec == Init /\ [][Next]_vars

(***************************************************************************)
(* Properties                                                              *)
(***************************************************************************)
\* Orders the exposure cap cannot answer for: those decided WARN, which move
\* no index, and blind ones.
Excused == {i \in Intents : Warned(i) \/ i \in blind}

\* "Gross exposure cap breaches produce BLOCK": whatever the manifests, their
\* order and the fills between them, the account exceeds the cap by no more
\* than the excused orders.
GrossExposureCapped ==
    Cardinality(Exposed) <= policy.cap + Cardinality(Exposed \cap Excused)

\* Two live orders or positions of one ticker: one of them was placed blind.
\* No cycle, promotion or second manifest doubles a position otherwise.
OneExposurePerTicker ==
    \A i, j \in Exposed : Ticker(i) = Ticker(j) /\ i # j => i \in blind \/ j \in blind

\* max_new_positions_per_cycle over all previews of a cycle: a BUY report
\* allowed once keeps its place in the list after its order is placed, so
\* later previews let no other BUY report take it.  The limit is exceeded by
\* no more than the reports which some preview passed over because a source of
\* theirs was degraded or missing: such a report takes no index then, and its
\* own one when the source is back.
DirectBuys(c) ==
    {i.key : i \in {j \in Intents :
        /\ j.key.cycle = c /\ ReportOf(j.key).action = "BUY"
        /\ ~Warned(j) /\ status[j] # "none"}}

DirectBuysPerCycle ==
    \A c \in Cycles : Cardinality(DirectBuys(c) \ doubted) <= policy.maxNew

\* What the answer tells the operator about the account: an order it calls
\* accepted is at the broker, and one that its manifest placed is among the
\* accepted unless the broker's answer never came.
AnswerAccountsForOrders ==
    \A m \in Manifests : pc[m] \in Answers =>
        /\ \A i \in ctx[m].accepted : by[i] = m
        /\ \A i \in Intents : by[i] = m => i \in ctx[m].accepted \cup ctx[m].unheard
        /\ pc[m] \in {"accepted", "reconcile_pending"} =>
            ctx[m].accepted # {} /\ ctx[m].unheard = {}
        /\ pc[m] = "rejected" => \A i \in Intents : by[i] = m => i \in ctx[m].unheard

\* The ALLOW rows of a preview are the first openings of the cycle's list that
\* are clean and have healthy sources, as many as the limits leave room for: no
\* later row overtakes one, and what is wrong with the sources of one report
\* costs no other its row.
PlanIsFirstThatFit ==
    \A m \in Manifests : HasSnapshot(m) =>
        \A terms \in Terms, cleared \in SUBSET WatchKeys :
            LET x == Built(m, terms, cleared)
                clean == {k \in CycleKeys : /\ Opens(x, k) /\ ~ReportOf(k).caution
                                            /\ HealthySources(x, k)}
                upTo(k) == {l \in clean : l.place <= k.place}
                fits(n) == n <= policy.maxNew /\ Counted(x) + n <= policy.cap
            IN  Plan(x) =
                {IntentOf(x, k) : k \in {l \in clean : fits(Cardinality(upTo(l)))}}

\* Whatever became of the answer, an order at the broker is on record: also
\* one of a manifest that broke off at a later row or died.
OrdersAreOnRecord == \A i \in Intents : status[i] # "none" => i \in ready

(***************************************************************************)
(* Why they hold: the inductive invariant                                  *)
(***************************************************************************)
\* Of the exposure accounted for, only i itself has its ticker.
Lone(known, i) == \A j \in known : Ticker(j) = Ticker(i) => j = i

ContextsOK == \A m \in Manifests : \A i \in ctx[m].enabled : Lone(ctx[m].known, i)

\* What is on its way is on record, and checked against the context its
\* manifest still works with.
WireOK ==
    \A w \in wire :
        /\ w.intent \in ready /\ Lone(w.known, w.intent)
        /\ pc[w.manifest] \in {"rows", "await"} => w.known = ctx[w.manifest].known

RepliesOK == \A m \in Manifests : pc[m] # "await" => reply[m] = "none"

PlacedOK == \A i \in Intents : by[i] = None <=> status[i] = "none"

\* What the lists of a manifest hold at each point of its code.
ListsHold(m) ==
    LET x == ctx[m]
    IN  /\ pc[m] \in {"rows", "await"} =>
            /\ ~x.rejected => x.unheard = {}
            /\ x.pending => x.accepted # {}
        /\ pc[m] = "rows" /\ x.count > 0 => x.rejected \/ x.accepted # {}
        /\ pc[m] \in {"accepted", "reconcile_pending"} =>
            x.accepted # {} /\ x.unheard = {}
        /\ pc[m] = "rejected" => x.accepted = {}

ListsOK == \A m \in Manifests : ListsHold(m)

\* A manifest's orders, and those of its requests still on their way, are in
\* its lists or the row in progress.
OrderListed(m, i) ==
    LET listed == i \in ctx[m].accepted \cup ctx[m].unheard
    IN  \/ pc[m] \in {"rows"} \cup Answers /\ listed
        \/ pc[m] = "await" /\ (listed \/ (i = ctx[m].row /\ reply[m] = "accepted"))
        \/ pc[m] = "broken_off"

RequestListed(m, i) ==
    LET unheard == i \in ctx[m].unheard
    IN  \/ pc[m] \in {"rows"} \cup Answers /\ unheard
        \/ pc[m] = "await" /\ (unheard \/ (i = ctx[m].row /\ reply[m] = "none"))
        \/ pc[m] = "broken_off"

OrdersListed == \A m \in Manifests : \A i \in Intents : by[i] = m => OrderListed(m, i)

RequestsListed == \A w \in wire : RequestListed(w.manifest, w.intent)

PlacedByIt(m) ==
    /\ \A i \in ctx[m].accepted : by[i] = m
    /\ pc[m] = "await" /\ reply[m] = "accepted" => by[ctx[m].row] = m

AcceptedIsPlaced == \A m \in Manifests : PlacedByIt(m)

IndInv ==
    /\ OrdersAreOnRecord
    /\ OneExposurePerTicker
    /\ ContextsOK
    /\ WireOK
    /\ RepliesOK
    /\ PlacedOK
    /\ ListsOK
    /\ OrdersListed
    /\ RequestsListed
    /\ AcceptedIsPlaced

(***************************************************************************)
(* Why the limits hold: a second invariant                                 *)
(***************************************************************************)
\* A preview decides a clean BUY report ALLOW only while no more than maxNew of
\* those up to it, in list order, have never been doubted.
BuysUpTo(k) == {l \in CleanBuys(k.cycle) : l.place <= k.place}
AmongFirst(k) == Cardinality(BuysUpTo(k) \ doubted) <= policy.maxNew

FirstBuy(i) ==
    ReportOf(i.key).action = "BUY" /\ ~Warned(i) => AmongFirst(i.key)

\* An order that is not decided WARN is part of the exposure its context
\* accounts for, and that exposure fits under the cap.
Covered(known, i) ==
    ~Warned(i) => i \in known /\ IsFiniteSet(known) /\ Cardinality(known) <= policy.cap

PlacedNow == {i \in Intents : status[i] # "none"}

SnapshotsFinite ==
    \A m \in Manifests : IsFiniteSet(ctx[m].positions) /\ IsFiniteSet(ctx[m].orders)

OfferedFits ==
    \A m \in Manifests : \A i \in ctx[m].enabled :
        Covered(ctx[m].known, i) /\ FirstBuy(i)

RequestsFit == \A w \in wire : Covered(w.known, w.intent) /\ FirstBuy(w.intent)

LimitsInv ==
    /\ IsFiniteSet(PlacedNow)
    /\ SnapshotsFinite
    /\ OfferedFits
    /\ RequestsFit
    /\ Cardinality(Exposed \ Excused) <= policy.cap
    /\ \A i \in PlacedNow : FirstBuy(i)
===============================================================================
