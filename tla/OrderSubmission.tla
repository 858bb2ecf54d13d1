---------------------------- MODULE OrderSubmission ----------------------------
(***************************************************************************)
(* The supervised paper-order path for one preview row (one cycle, ticker  *)
(* and as_of, opening a position from flat): the HTTP handlers that        *)
(* approve and submit an order intent, the review and audit stores they    *)
(* read, and the Alpaca paper broker.                                      *)
(*                                                                         *)
(* Handlers are coroutines of one event loop, so they interleave exactly   *)
(* where they await: every action below is the code from one await to the  *)
(* next.  Nothing locks a row: two handlers may hold contexts of the same  *)
(* row.  The audit database may fail at each call, the broker may receive  *)
(* a request late or never, its answer may be lost, and a handler may die  *)
(* between any two steps.                                                  *)
(***************************************************************************)
EXTENDS Integers

CONSTANTS
    Requests,          \* handler slots: requests in progress together
    Revisions,         \* versions of what an order intent is hashed from
    Reports,           \* versions of the selection report a human reviews
    None,              \* no report, no intent, no order
    AuditReadMayFail   \* whether the recorded-order lookup may fail open

ASSUME NoneAssumption == None \notin Reports \cup Revisions
ASSUME AuditReadAssumption == AuditReadMayFail \in BOOLEAN

VARIABLES
    revision, report,   \* what a preview built now would be built from
    reviewDb,           \* report approved by the newest review in the database
    reviewArtifact,     \* the same for the local lifecycle artifact file
    reviewNewest,       \* which store holds the newest review event
    approvals,          \* intents with a durable ORDER_APPROVAL event
    history,            \* rows of execution_state_history
    orders, wire,       \* the broker's orders, and requests on their way to it
    reply,              \* the broker's answer to a request that waits for it
    pc, ctx,            \* where each handler is, and its local variables
    clock               \* time of the last recorded or broker event

inputVars  == <<revision, report>>
reviewVars == <<reviewDb, reviewArtifact, reviewNewest>>
brokerVars == <<orders, wire, reply>>
vars == <<inputVars, reviewVars, approvals, history, brokerVars, pc, ctx, clock>>

(***************************************************************************)
(* Values                                                                  *)
(***************************************************************************)
\* The order_intent_hash of a flat row without open orders is a function of
\* the revision.  With a position or an open order it is another hash, but
\* such a row is refused before the hash is used.
Intents == Revisions

BrokerStates == {"ACCEPTED", "FILLED", "CANCELED"}
RecordedOrderStates == BrokerStates

HistoryRow == [intent : Intents, state : BrokerStates \cup {"READY", "FAILED"},
               at : Nat]

\* request is not in the broker's data: it names the call that placed the order.
BrokerOrder == [id : Intents, intent : Intents, request : Requests,
                status : BrokerStates, submitted_at : Nat, filled_at : Nat]
Message == [id : Intents, intent : Intents, request : Requests]

Context == [kind : {"approve", "submit"}, intent : Intents \cup {None},
            read : SUBSET {"positions", "orders"}, conflict : BOOLEAN,
            matches : BOOLEAN, report : Reports \cup {None}, human : BOOLEAN,
            order : BrokerOrder \cup {None}]

EmptyContext == [kind |-> "approve", intent |-> None,
                 read |-> {}, conflict |-> FALSE,
                 matches |-> FALSE, report |-> None, human |-> FALSE,
                 order |-> None]

Reading == {"snapshot", "reports", "review", "audit"}
Submitting == {"intent", "send", "await", "reconcile", "record", "record_failed"}
Active == Reading \cup {"approve"} \cup Submitting
Outcomes == {"accepted", "reconcile_pending", "failed", "dead"}

TypeOK ==
    /\ revision \in Revisions
    /\ report \in Reports
    /\ reviewDb \in Reports \cup {None}
    /\ reviewArtifact \in Reports \cup {None}
    /\ reviewNewest \in {"database", "artifact"}
    /\ approvals \subseteq Intents
    /\ history \subseteq HistoryRow
    /\ orders \subseteq BrokerOrder
    /\ wire \subseteq Message
    /\ reply \in [Requests -> {"none", "accepted", "rejected"}]
    /\ pc \in [Requests -> {"idle"} \cup Active \cup Outcomes]
    /\ ctx \in [Requests -> Context]
    /\ clock \in Nat

Init ==
    /\ revision \in Revisions
    /\ report \in Reports
    /\ reviewDb = None
    /\ reviewArtifact = None
    /\ reviewNewest = "database"
    /\ approvals = {}
    /\ history = {}
    /\ orders = {}
    /\ wire = {}
    /\ reply = [r \in Requests |-> "none"]
    /\ pc = [r \in Requests |-> "idle"]
    /\ ctx = [r \in Requests |-> EmptyContext]
    /\ clock = 0

(***************************************************************************)
(* Helpers                                                                 *)
(***************************************************************************)
Goto(r, step) == pc' = [pc EXCEPT ![r] = step]

\* The handler returns: its locals are gone.
Return(r, outcome) ==
    /\ Goto(r, outcome)
    /\ ctx' = [ctx EXCEPT ![r] = EmptyContext]

Record(row) ==
    /\ history' = history \cup {row}
    /\ clock' = IF row.at > clock THEN row.at ELSE clock

\* execution_states_for_previews keeps the newest row per intent.
LatestRows(i) ==
    {h \in history : h.intent = i /\ \A g \in history : g.intent = i => g.at <= h.at}

\* A recorded order disables approval and submission of its intent.
ExecutionBlocks(i) == \E h \in LatestRows(i) : h.state \in RecordedOrderStates

\* What a newest-first read of both review stores returns.
LatestReview == IF reviewNewest = "database" THEN reviewDb ELSE reviewArtifact

(***************************************************************************)
(* The world around the handlers                                           *)
(***************************************************************************)
\* A refreshed cycle replaces the report; prices, cash or the risk decision
\* change what the order intent is hashed from.
Refresh ==
    /\ \E v \in Revisions, p \in Reports :
        /\ <<v, p>> # <<revision, report>>
        /\ revision' = v
        /\ report' = p
    /\ UNCHANGED <<reviewVars, approvals, history, brokerVars, pc, ctx, clock>>

\* record_candidate_review: an APPROVE of report p, or a DEFER or REJECT
\* (None).  The report is looked up some awaits before the event is stored,
\* so p need not be the current one.  The event goes to the database, or to
\* the artifact file when the database fails.
Review ==
    /\ \E p \in Reports \cup {None} :
        \/ reviewDb' = p /\ reviewNewest' = "database" /\ UNCHANGED reviewArtifact
        \/ reviewArtifact' = p /\ reviewNewest' = "artifact" /\ UNCHANGED reviewDb
    /\ UNCHANGED <<inputVars, approvals, history, brokerVars, pc, ctx, clock>>

\* Alpaca takes an order whose client_order_id it has not seen.
BrokerAccept(m) ==
    /\ m \in wire
    /\ \A o \in orders : o.id # m.id
    /\ orders' = orders \cup
        {[id |-> m.id, intent |-> m.intent, request |-> m.request,
          status |-> "ACCEPTED", submitted_at |-> clock + 1, filled_at |-> 0]}
    /\ clock' = clock + 1
    /\ wire' = wire \ {m}
    /\ reply' = [reply EXCEPT ![m.request] =
                    IF pc[m.request] = "await" THEN "accepted" ELSE @]
    /\ UNCHANGED <<inputVars, reviewVars, approvals, history, pc, ctx>>

\* A duplicate client_order_id, or any reason of the broker's own.
BrokerRefuse(m) ==
    /\ m \in wire
    /\ wire' = wire \ {m}
    /\ reply' = [reply EXCEPT ![m.request] =
                    IF pc[m.request] = "await" THEN "rejected" ELSE @]
    /\ UNCHANGED <<inputVars, reviewVars, approvals, history, orders, pc, ctx, clock>>

BrokerFill(o) ==
    /\ o \in orders /\ o.status = "ACCEPTED"
    /\ orders' = (orders \ {o}) \cup
        {[o EXCEPT !.status = "FILLED", !.filled_at = clock + 1]}
    /\ clock' = clock + 1
    /\ UNCHANGED <<inputVars, reviewVars, approvals, history, wire, reply, pc, ctx>>

BrokerCancel(o) ==
    /\ o \in orders /\ o.status = "ACCEPTED"
    /\ orders' = (orders \ {o}) \cup {[o EXCEPT !.status = "CANCELED"]}
    /\ UNCHANGED <<inputVars, reviewVars, approvals, history, wire, reply, pc, ctx, clock>>

(***************************************************************************)
(* Both handlers: build a fresh execution preview                          *)
(***************************************************************************)
\* POST /execution-preview/orders/approve or /execution-preview/orders, for
\* the hash the operator's page shows.
StartRequest(r) ==
    /\ pc[r] = "idle"
    /\ \E k \in {"approve", "submit"}, i \in Intents :
        ctx' = [ctx EXCEPT ![r] = [EmptyContext EXCEPT !.kind = k, !.intent = i]]
    /\ Goto(r, "snapshot")
    /\ UNCHANGED <<inputVars, reviewVars, approvals, history, brokerVars, clock>>

\* broker_snapshot asks for positions and open orders in two concurrent
\* calls, answered in either order.
ReadBroker(r, part, conflict) ==
    /\ pc[r] = "snapshot"
    /\ part \notin ctx[r].read
    /\ ctx' = [ctx EXCEPT ![r].read = @ \cup {part},
                          ![r].conflict = @ \/ conflict]
    /\ IF ctx[r].read = {} THEN UNCHANGED pc ELSE Goto(r, "reports")
    /\ UNCHANGED <<inputVars, reviewVars, approvals, history, brokerVars, clock>>

ReadPositions(r) == ReadBroker(r, "positions", \E o \in orders : o.status = "FILLED")
ReadOrders(r) == ReadBroker(r, "orders", \E o \in orders : o.status = "ACCEPTED")

\* The reports, the policy and the account, and with them the intent hash.
ReadReports(r) ==
    /\ pc[r] = "reports"
    /\ ctx' = [ctx EXCEPT ![r].report = report,
                          ![r].matches = (revision = ctx[r].intent)]
    /\ Goto(r, "review")
    /\ UNCHANGED <<inputVars, reviewVars, approvals, history, brokerVars, clock>>

\* The newest review of both stores; when the database fails or takes longer
\* than its timeout, that of the artifact file; or none at all.
ReadReview(r) ==
    /\ pc[r] = "review"
    /\ \E seen \in {LatestReview, reviewArtifact, None} :
        ctx' = [ctx EXCEPT ![r].human = (seen = ctx[r].report)]
    /\ Goto(r, "audit")
    /\ UNCHANGED <<inputVars, reviewVars, approvals, history, brokerVars, clock>>

\* submit_enabled of the preview: an approved report, and no order conflict.
PreviewSubmitEnabled(c) == c.human /\ ~c.conflict

Mut_OrderApproved(i) == TRUE      \* Mutant: the order approval is not required
OrderApproved(i) == i \in approvals

\* Approvals and execution states are read together and the row is decided:
\* the current hash must be the requested one, no recorded order may block
\* it, and a submission needs the durable approval of this very hash.
Decide(r) ==
    /\ pc[r] = "audit"
    /\ ctx[r].matches
    /\ PreviewSubmitEnabled(ctx[r])
    /\ AuditReadMayFail \/ ~ExecutionBlocks(ctx[r].intent)
    /\ \/ ctx[r].kind = "approve" /\ Goto(r, "approve")
       \/ ctx[r].kind = "submit" /\ OrderApproved(ctx[r].intent) /\ Goto(r, "intent")
    /\ ctx' = [ctx EXCEPT ![r] = [EmptyContext EXCEPT !.kind = ctx[r].kind,
                                                      !.intent = ctx[r].intent]]
    /\ UNCHANGED <<inputVars, reviewVars, approvals, history, brokerVars, clock>>

\* A 4xx before anything is written: a condition of Decide is false, a gate
\* outside this model is closed (freshness, scheduler, policy, phrase), or a
\* read failed.  The operator may try again.
Refuse(r) ==
    /\ pc[r] \in Reading
    /\ Return(r, "idle")
    /\ UNCHANGED <<inputVars, reviewVars, approvals, history, brokerVars, clock>>

(***************************************************************************)
(* Approve: store the approval of the exact intent                         *)
(***************************************************************************)
PersistApproval(r) ==
    /\ pc[r] = "approve"
    /\ \/ approvals' = approvals \cup {ctx[r].intent}
       \/ UNCHANGED approvals                            \* 503
    /\ Return(r, "idle")
    /\ UNCHANGED <<inputVars, reviewVars, history, brokerVars, clock>>

(***************************************************************************)
(* Submit: record the intent, send, reconcile, record the order            *)
(***************************************************************************)
Mut_ClientOrderId(i, r) == r      \* Mutant: a fresh client_order_id per request
ClientOrderId(i, r) == i

\* Mutant: an intent that cannot be persisted is sent all the same.
Mut_RecordIntent(r) ==
    /\ pc[r] = "intent"
    /\ \/ Record([intent |-> ctx[r].intent, state |-> "READY", at |-> clock + 1])
       \/ UNCHANGED <<history, clock>>
    /\ Goto(r, "send")
    /\ UNCHANGED <<inputVars, reviewVars, approvals, brokerVars, ctx>>

\* The READY row must be durable before the order leaves the process.
RecordIntent(r) ==
    /\ pc[r] = "intent"
    /\ \/ /\ Record([intent |-> ctx[r].intent, state |-> "READY", at |-> clock + 1])
          /\ Goto(r, "send")
          /\ UNCHANGED ctx
       \/ Return(r, "idle") /\ UNCHANGED <<history, clock>>      \* 503
    /\ UNCHANGED <<inputVars, reviewVars, approvals, brokerVars>>

SendOrder(r) ==
    /\ pc[r] = "send"
    /\ wire' = wire \cup {[id |-> ClientOrderId(ctx[r].intent, r),
                           intent |-> ctx[r].intent, request |-> r]}
    /\ Goto(r, "await")
    /\ UNCHANGED <<inputVars, reviewVars, approvals, history, orders, reply, ctx, clock>>

HearAccepted(r) ==
    /\ pc[r] = "await" /\ reply[r] = "accepted"
    /\ reply' = [reply EXCEPT ![r] = "none"]
    /\ Goto(r, "reconcile")
    /\ UNCHANGED <<inputVars, reviewVars, approvals, history, orders, wire, ctx, clock>>

\* Mutant: the HTTP client has no timeout.
Mut_HearFailure(r) ==
    /\ pc[r] = "await" /\ reply[r] = "rejected"
    /\ reply' = [reply EXCEPT ![r] = "none"]
    /\ Goto(r, "record_failed")
    /\ UNCHANGED <<inputVars, reviewVars, approvals, history, orders, wire, ctx, clock>>

\* An HTTP error status, a broken connection or the client's timeout: one
\* exception for all three, whatever became of the order.
HearFailure(r) ==
    /\ pc[r] = "await"
    /\ reply' = [reply EXCEPT ![r] = "none"]
    /\ Goto(r, "record_failed")
    /\ UNCHANGED <<inputVars, reviewVars, approvals, history, orders, wire, ctx, clock>>

\* Mutant: an unconfirmed order is taken for a filled one.
Mut_SubmittedCopy(o) == [o EXCEPT !.status = "FILLED", !.filled_at = o.submitted_at]
\* The order as the submit call returned it.
SubmittedCopy(o) == [o EXCEPT !.status = "ACCEPTED", !.filled_at = 0]

\* Looks the order up by client_order_id, a few times; when a lookup fails
\* the submit call's own answer stands in for it.
Reconcile(r) ==
    /\ pc[r] = "reconcile"
    /\ \E o \in orders :
        /\ o.id = ClientOrderId(ctx[r].intent, r)
        /\ \E seen \in {o, SubmittedCopy(o)} :
            ctx' = [ctx EXCEPT ![r].order = seen]
    /\ Goto(r, "record")
    /\ UNCHANGED <<inputVars, reviewVars, approvals, history, brokerVars, clock>>

Mut_OrderState(o) == "NEW"        \* Mutant: the broker's raw status is recorded
OrderState(o) == o.status

OrderEventTime(o) == IF o.status = "FILLED" THEN o.filled_at ELSE o.submitted_at

RecordOrder(r) ==
    /\ pc[r] = "record"
    /\ LET o == ctx[r].order
       IN Record([intent |-> ctx[r].intent, state |-> OrderState(o),
                  at |-> OrderEventTime(o)])
    /\ Return(r, "accepted")
    /\ UNCHANGED <<inputVars, reviewVars, approvals, brokerVars>>

\* 202: the order is placed, but its lookup contradicts the request or the
\* audit row cannot be stored.
LoseOrderRecord(r) ==
    /\ pc[r] \in {"reconcile", "record"}
    /\ Return(r, "reconcile_pending")
    /\ UNCHANGED <<inputVars, reviewVars, approvals, history, brokerVars, clock>>

\* 502: a FAILED row, whose own persistence failure is suppressed.
RecordFailed(r) ==
    /\ pc[r] = "record_failed"
    /\ \/ Record([intent |-> ctx[r].intent, state |-> "FAILED", at |-> clock + 1])
       \/ UNCHANGED <<history, clock>>
    /\ Return(r, "failed")
    /\ UNCHANGED <<inputVars, reviewVars, approvals, brokerVars>>

\* The process stops, the client goes away, or an exception nobody catches.
Die(r) ==
    /\ pc[r] \in Active
    /\ Return(r, "dead")
    /\ reply' = [reply EXCEPT ![r] = "none"]
    /\ UNCHANGED <<inputVars, reviewVars, approvals, history, orders, wire, clock>>

(***************************************************************************)
(* Specification                                                           *)
(***************************************************************************)
Preview(r) == ReadPositions(r) \/ ReadOrders(r) \/ ReadReports(r) \/ ReadReview(r)
              \/ Decide(r) \/ Refuse(r)
Submit(r) == RecordIntent(r) \/ SendOrder(r) \/ HearAccepted(r) \/ HearFailure(r)
             \/ Reconcile(r) \/ RecordOrder(r) \/ LoseOrderRecord(r) \/ RecordFailed(r)
Handle(r) == Preview(r) \/ PersistApproval(r) \/ Submit(r)

Broker == \/ \E m \in wire : BrokerAccept(m) \/ BrokerRefuse(m)
          \/ \E o \in orders : BrokerFill(o) \/ BrokerCancel(o)

Next == \/ Refresh
        \/ Review
        \/ Broker
        \/ \E r \in Requests : StartRequest(r) \/ Handle(r) \/ Die(r)

\* Each awaited call of a handler returns or times out; nothing obliges the
\* operator, the broker or the network.
Fairness == \A r \in Requests : WF_vars(Handle(r))

Spec == Init /\ [][Next]_vars /\ Fairness

(***************************************************************************)
(* Properties                                                              *)
(***************************************************************************)
\* However many handlers pass the checks together, and whatever is retried
\* after an answer was lost, the broker never holds two orders of one intent.
OneOrderPerIntent ==
    \A o, p \in orders : o.intent = p.intent => o = p

\* Whatever reached the broker, or is still on its way there, has a READY row
\* that was durable before: no order is unknown to the audit trail.
IntentRecordedFirst ==
    /\ \A m \in wire :
        \E h \in history : h.intent = m.intent /\ h.state = "READY"
    /\ \A o \in orders :
        \E h \in history :
            h.intent = o.intent /\ h.state = "READY" /\ h.at < o.submitted_at

\* Every order at the broker, every request on its way there and every row of
\* the execution history carries the very intent an operator approved,
\* although the row may have been repriced between the approval, the checks
\* and the order's arrival.
OrderAuthorised == \A x \in orders \cup wire \cup history : x.intent \in approvals

\* A row with a broker state is about an order the broker really has: a
\* FILLED or CANCELED row about one that did end so, at the row's time.
HistoryIsTrue ==
    \A h \in history : h.state \in RecordedOrderStates =>
        \E o \in orders :
            /\ o.intent = h.intent
            /\ h.state # "ACCEPTED" => o.status = h.state
            /\ h.at = IF h.state = "FILLED" THEN o.filled_at ELSE o.submitted_at

\* A request that began comes back to its caller, or dies.
EveryRequestReturns ==
    \A r \in Requests : []<>(pc[r] \notin Active)

\* The documented duplicate prevention: once the broker state of an intent's
\* order is recorded, no handler gets past the checks with that intent.  The
\* code looks at the newest row only, and the READY or FAILED row of another
\* request may be newer than the order's.
RecordedOrderDisablesSubmit ==
    [][\A r \in Requests :
          pc[r] = "audit" /\ pc'[r] \in {"approve", "intent"} =>
              \A h \in history :
                  h.intent = ctx[r].intent => h.state \notin RecordedOrderStates]_vars

\* What the cockpit tells the operator when every row failed: "No paper
\* orders were submitted."  The broker may have taken the order, its answer
\* lost or later than the client's timeout.
FailedMeansNotPlaced ==
    \A o \in orders : pc[o.request] # "failed"

(***************************************************************************)
(* Why they hold: the inductive invariant                                  *)
(***************************************************************************)
HasReady(i) == \E h \in history : h.intent = i /\ h.state = "READY"

\* What the locals of a handler amount to at each point of its code.
LocalsOK ==
    \A r \in Requests :
        /\ pc[r] \in Active => ctx[r].intent \in Intents
        /\ pc[r] \in Submitting => ctx[r].intent \in approvals
        /\ pc[r] \in Submitting \ {"intent"} => HasReady(ctx[r].intent)
        /\ pc[r] = "record" => ctx[r].order \in BrokerOrder

WireOK ==
    \A m \in wire : m.id = m.intent /\ m.intent \in approvals /\ HasReady(m.intent)

OrdersOK ==
    /\ \A o \in orders : o.id = o.intent
    /\ \A o, p \in orders : o.id = p.id => o = p

HistoryInPast == \A h \in history : h.at <= clock

\* The broker has an order of intent i that a row with this state and time
\* tells the truth about, whatever becomes of the order.
Tells(i, state, at) ==
    \E o \in orders :
        /\ o.intent = i
        /\ state # "ACCEPTED" => o.status = state
        /\ at = IF state = "FILLED" THEN o.filled_at ELSE o.submitted_at

\* The copy of the order that a handler is about to record may be stale, but
\* nothing a row says of it can turn false.
CopiesTell ==
    \A r \in Requests : pc[r] = "record" =>
        LET o == ctx[r].order IN Tells(ctx[r].intent, OrderState(o), OrderEventTime(o))

\* Holds initially and is preserved by every step, whatever the constants are;
\* it implies the invariants above.
IndInv ==
    /\ LocalsOK
    /\ WireOK
    /\ OrdersOK
    /\ HistoryInPast
    /\ CopiesTell
    /\ HistoryIsTrue
    /\ IntentRecordedFirst
    /\ OrderAuthorised

(***************************************************************************)
(* Refinement                                                              *)
(***************************************************************************)
\* Where an intent stands, read off the broker, the audit rows and approvals.
Placed(i, status) == \E o \in orders : o.intent = i /\ o.status = status
Unplaced(i) == \A o \in orders : o.intent # i

Phase(i) ==
    CASE Placed(i, "FILLED")                                -> "filled"
      [] Placed(i, "CANCELED")                              -> "canceled"
      [] Placed(i, "ACCEPTED")                              -> "working"
      [] Unplaced(i) /\ HasReady(i)                         -> "recorded"
      [] Unplaced(i) /\ ~HasReady(i) /\ i \in approvals     -> "approved"
      [] Unplaced(i) /\ ~HasReady(i) /\ i \notin approvals  -> "proposed"

Lifecycle == INSTANCE OrderLifecycle WITH phase <- [i \in Intents |-> Phase(i)]

\* The submit path implements the abstract life of an order intent: approved,
\* recorded, placed at most once and settled once, never skipping a stage.
ImplementsLifecycle == Lifecycle!Spec

(***************************************************************************)
(* The length of a request                                                 *)
(***************************************************************************)
Ordered ==
    [snapshot |-> 9, reports |-> 8, review |-> 7, audit |-> 6, approve |-> 5,
     intent |-> 5, send |-> 4, await |-> 3, reconcile |-> 2, record |-> 1,
     record_failed |-> 1]

\* The awaits between a request and its answer; the broker snapshot is two.
Ahead(r) == Ordered[pc[r]] + IF pc[r] = "snapshot" /\ ctx[r].read = {} THEN 1 ELSE 0

\* Every step of a handler answers its caller or is the last of its kind in the
\* request: the intent is recorded once, the order sent once, and no other
\* request, nor the broker or the operator, sends it back to an earlier await.
RequestsRunDown ==
    [][\A r \in Requests : pc[r] \in Active =>
          IF Handle(r) \/ Die(r)
          THEN pc'[r] \notin Active \/ Ahead(r)' < Ahead(r)
          ELSE pc'[r] = pc[r] /\ ctx'[r] = ctx[r]]_vars
===============================================================================
