------------------------- MODULE OrderSubmissionProofs -------------------------
(***************************************************************************)
(* Theorems about OrderSubmission, for any number of requests, revisions   *)
(* and reports.  The type invariant and the inductive invariant are proved *)
(* together: what a handler records is well typed because of what its      *)
(* locals hold.                                                            *)
(***************************************************************************)
EXTENDS OrderSubmission, TLAPS

Inv == TypeOK /\ IndInv

\* The initial state is well typed and satisfies the inductive invariant.
LEMMA InitInv == Init => Inv
  BY DEF Init, Inv, TypeOK, IndInv, LocalsOK, WireOK, OrdersOK, HistoryInPast,
         CopiesTell, HistoryIsTrue, IntentRecordedFirst, OrderAuthorised,
         EmptyContext, Context, Active, Reading, Submitting, Outcomes, Intents

\* Locals of a handler that keep to their types.
LEMMA EmptyContextOK == EmptyContext \in Context
  BY DEF EmptyContext, Context

-------------------------------------------------------------------------------
(* Type correctness, action by action. *)

\* Refreshes, reviews and the broker keep the types.
LEMMA TypeWorld ==
  ASSUME Inv, Refresh \/ Review \/ Broker
  PROVE  TypeOK'
<1>1. CASE Refresh
  BY <1>1 DEF Inv, TypeOK, Refresh, reviewVars, brokerVars
<1>2. CASE Review
  BY <1>2 DEF Inv, TypeOK, Review, inputVars, brokerVars
<1>3. ASSUME NEW m \in wire, BrokerAccept(m)
      PROVE  TypeOK'
  BY <1>3 DEF Inv, TypeOK, BrokerAccept, inputVars, reviewVars, Message,
              BrokerOrder, BrokerStates
<1>4. ASSUME NEW m \in wire, BrokerRefuse(m)
      PROVE  TypeOK'
  BY <1>4 DEF Inv, TypeOK, BrokerRefuse, inputVars, reviewVars
<1>5. ASSUME NEW o \in orders, BrokerFill(o)
      PROVE  TypeOK'
  <2> DEFINE f == [o EXCEPT !.status = "FILLED", !.filled_at = clock + 1]
  <2>1. o \in BrokerOrder /\ clock \in Nat
    BY DEF Inv, TypeOK
  <2>2. f \in BrokerOrder
    <3>1. ASSUME NEW n \in Nat
          PROVE  [o EXCEPT !.status = "FILLED", !.filled_at = n] \in BrokerOrder
      BY <2>1 DEF BrokerOrder, BrokerStates
    <3>2. clock + 1 \in Nat
      BY <2>1
    <3> QED
      BY <3>1, <3>2, Zenon
  <2>3. orders' \subseteq BrokerOrder
    BY <1>5, <2>2 DEF Inv, TypeOK, BrokerFill
  <2> QED
    BY <1>5, <2>1, <2>3 DEF Inv, TypeOK, BrokerFill, inputVars, reviewVars
<1>6. ASSUME NEW o \in orders, BrokerCancel(o)
      PROVE  TypeOK'
  <2> DEFINE c == [o EXCEPT !.status = "CANCELED"]
  <2>1. o \in BrokerOrder
    BY DEF Inv, TypeOK
  <2>2. c \in BrokerOrder
    BY <2>1 DEF BrokerOrder, BrokerStates
  <2>3. orders' \subseteq BrokerOrder
    BY <1>6, <2>2 DEF Inv, TypeOK, BrokerCancel
  <2> QED
    BY <1>6, <2>3 DEF Inv, TypeOK, BrokerCancel, inputVars, reviewVars
<1> QED
  BY <1>1, <1>2, <1>3, <1>4, <1>5, <1>6 DEF Broker

\* A step that only moves a handler and rewrites its locals.
LEMMA TypeLocals ==
  ASSUME Inv, NEW r \in Requests, NEW step \in {"idle"} \cup Active \cup Outcomes,
         NEW c \in Context,
         pc' = pc \/ pc' = [pc EXCEPT ![r] = step],
         ctx' = [ctx EXCEPT ![r] = c],
         UNCHANGED <<inputVars, reviewVars, approvals, history, brokerVars, clock>>
  PROVE  TypeOK'
  BY DEF Inv, TypeOK, inputVars, reviewVars, brokerVars

\* Building the preview and deciding the request keep the types.
LEMMA TypePreview ==
  ASSUME Inv, NEW r \in Requests, StartRequest(r) \/ Preview(r)
  PROVE  TypeOK'
<1> DEFINE c == ctx'[r]
<1>0. ctx[r] \in Context /\ DOMAIN ctx = Requests
  BY DEF Inv, TypeOK
<1>1. CASE StartRequest(r)
  <2>1. PICK k \in {"approve", "submit"}, i \in Intents :
           ctx' = [ctx EXCEPT ![r] = [EmptyContext EXCEPT !.kind = k, !.intent = i]]
    BY <1>1 DEF StartRequest
  <2>2. [EmptyContext EXCEPT !.kind = k, !.intent = i] \in Context
    BY EmptyContextOK DEF Context
  <2> QED
    BY <1>1, <2>1, <2>2, TypeLocals DEF StartRequest, Goto, Active, Reading
<1>2. ASSUME NEW part \in {"positions", "orders"}, NEW b \in BOOLEAN,
             ReadBroker(r, part, b)
      PROVE  TypeOK'
  <2>1. [ctx[r] EXCEPT !.read = @ \cup {part}, !.conflict = @ \/ b] \in Context
    BY <1>0 DEF Context
  <2>2. ctx' = [ctx EXCEPT ![r] = [ctx[r] EXCEPT !.read = @ \cup {part},
                                                 !.conflict = @ \/ b]]
    BY <1>2, <1>0 DEF ReadBroker
  <2> QED
    BY <1>2, <2>1, <2>2, TypeLocals DEF ReadBroker, Goto, Active, Reading
<1>3. CASE ReadPositions(r)
  BY <1>2, <1>3 DEF ReadPositions
<1>4. CASE ReadOrders(r)
  BY <1>2, <1>4 DEF ReadOrders
<1>5. CASE ReadReports(r)
  <2>1. [ctx[r] EXCEPT !.report = report, !.matches = (revision = ctx[r].intent)]
           \in Context
    BY <1>0 DEF Inv, TypeOK, Context
  <2>2. ctx' = [ctx EXCEPT ![r] = [ctx[r] EXCEPT !.report = report,
                                      !.matches = (revision = ctx[r].intent)]]
    BY <1>5, <1>0 DEF ReadReports
  <2> QED
    BY <1>5, <2>1, <2>2, TypeLocals DEF ReadReports, Goto, Active, Reading
<1>6. CASE ReadReview(r)
  <2>1. PICK seen : ctx' = [ctx EXCEPT ![r].human = (seen = ctx[r].report)]
    BY <1>6 DEF ReadReview
  <2>2. [ctx[r] EXCEPT !.human = (seen = ctx[r].report)] \in Context
    BY <1>0 DEF Context
  <2>3. ctx' = [ctx EXCEPT ![r] = [ctx[r] EXCEPT !.human = (seen = ctx[r].report)]]
    BY <2>1, <1>0
  <2> QED
    BY <1>6, <2>2, <2>3, TypeLocals DEF ReadReview, Goto, Active, Reading
<1>7. CASE Decide(r)
  <2>1. [EmptyContext EXCEPT !.kind = ctx[r].kind, !.intent = ctx[r].intent] \in Context
    BY <1>0, EmptyContextOK DEF Context
  <2>2. "approve" \in Active /\ "intent" \in Active
    BY DEF Active, Submitting
  <2> QED
    BY <1>7, <2>1, <2>2, TypeLocals DEF Decide, Goto
<1>8. CASE Refuse(r)
  BY <1>8, EmptyContextOK, TypeLocals DEF Refuse, Return, Goto
<1> QED
  BY <1>1, <1>3, <1>4, <1>5, <1>6, <1>7, <1>8 DEF Preview

\* A handler writes a history row and moves on.
LEMMA TypeRecord ==
  ASSUME Inv, NEW r \in Requests, NEW step \in {"idle"} \cup Active \cup Outcomes,
         NEW row \in HistoryRow,
         Record(row) \/ UNCHANGED <<history, clock>>,
         pc' = [pc EXCEPT ![r] = step],
         ctx' = ctx \/ ctx' = [ctx EXCEPT ![r] = EmptyContext],
         UNCHANGED <<inputVars, reviewVars, approvals, brokerVars>>
  PROVE  TypeOK'
  BY EmptyContextOK DEF Inv, TypeOK, inputVars, reviewVars, brokerVars, Record, HistoryRow

\* Storing an approval, every submit step and a crash keep the types.
LEMMA TypeSubmit ==
  ASSUME Inv, NEW r \in Requests, PersistApproval(r) \/ Submit(r) \/ Die(r)
  PROVE  TypeOK'
<1>0. /\ pc[r] \in Active => ctx[r].intent \in Intents
      /\ pc[r] = "record" => ctx[r].order \in BrokerOrder
  BY DEF Inv, IndInv, LocalsOK
<1>1. clock + 1 \in Nat
  BY DEF Inv, TypeOK
<1>2. CASE PersistApproval(r)
  BY <1>0, <1>2, EmptyContextOK
     DEF PersistApproval, Inv, TypeOK, Return, Goto, inputVars, reviewVars,
         brokerVars, Active
<1>3. CASE RecordIntent(r)
  <2>1. [intent |-> ctx[r].intent, state |-> "READY", at |-> clock + 1] \in HistoryRow
    BY <1>0, <1>1, <1>3 DEF RecordIntent, HistoryRow, Active, Submitting
  <2> QED
    BY <1>3, <2>1, TypeRecord DEF RecordIntent, Return, Goto, Active, Submitting
<1>4. CASE SendOrder(r)
  BY <1>0, <1>4 DEF SendOrder, Inv, TypeOK, Goto, inputVars, reviewVars, Message,
                    ClientOrderId, Active, Submitting
<1>5. CASE HearAccepted(r) \/ HearFailure(r)
  BY <1>5 DEF HearAccepted, HearFailure, Inv, TypeOK, Goto, inputVars, reviewVars,
              Active, Submitting
<1>6. CASE Reconcile(r)
  <2>1. PICK o \in orders : \E seen \in {o, SubmittedCopy(o)} :
           ctx' = [ctx EXCEPT ![r].order = seen]
    BY <1>6 DEF Reconcile
  <2>0. PICK seen \in {o, SubmittedCopy(o)} : ctx' = [ctx EXCEPT ![r].order = seen]
    BY <2>1
  <2>2. o \in BrokerOrder /\ ctx[r] \in Context
    BY DEF Inv, TypeOK
  <2>3. SubmittedCopy(o) \in BrokerOrder
    BY <2>2 DEF SubmittedCopy, BrokerOrder, BrokerStates
  <2>4. [ctx[r] EXCEPT !.order = seen] \in Context
    BY <2>2, <2>3 DEF Context
  <2>5. ctx' = [ctx EXCEPT ![r] = [ctx[r] EXCEPT !.order = seen]]
    BY <2>0 DEF Inv, TypeOK
  <2> QED
    BY <1>6, <2>4, <2>5, TypeLocals DEF Reconcile, Goto, Active, Submitting
<1>7. CASE RecordOrder(r)
  <2> DEFINE row == [intent |-> ctx[r].intent, state |-> OrderState(ctx[r].order),
                     at |-> OrderEventTime(ctx[r].order)]
  <2>1. ctx[r].intent \in Intents /\ ctx[r].order \in BrokerOrder
    BY <1>0, <1>7 DEF RecordOrder, Active, Submitting
  <2>2. row \in HistoryRow
    BY <2>1 DEF HistoryRow, BrokerOrder, OrderState, OrderEventTime
  <2>3. Record(row) /\ Return(r, "accepted")
    BY <1>7 DEF RecordOrder
  <2> HIDE DEF row
  <2> QED
    BY <1>7, <2>2, <2>3, TypeRecord DEF RecordOrder, Return, Goto, Outcomes
<1>8. CASE LoseOrderRecord(r)
  BY <1>8, EmptyContextOK, TypeLocals DEF LoseOrderRecord, Return, Goto, Outcomes
<1>9. CASE RecordFailed(r)
  <2>1. [intent |-> ctx[r].intent, state |-> "FAILED", at |-> clock + 1] \in HistoryRow
    BY <1>0, <1>1, <1>9 DEF RecordFailed, HistoryRow, Active, Submitting
  <2> QED
    BY <1>9, <2>1, TypeRecord DEF RecordFailed, Return, Goto, Outcomes
<1>10. CASE Die(r)
  BY <1>10, EmptyContextOK DEF Die, Inv, TypeOK, Return, Goto, inputVars, reviewVars,
                               Outcomes
<1> QED
  BY <1>2, <1>3, <1>4, <1>5, <1>6, <1>7, <1>8, <1>9, <1>10 DEF Submit

\* Every step keeps the types.
LEMMA TypeStep == Inv /\ [Next]_vars => TypeOK'
<1> SUFFICES ASSUME Inv, [Next]_vars
             PROVE  TypeOK'
  OBVIOUS
<1>1. CASE UNCHANGED vars
  BY <1>1 DEF Inv, TypeOK, vars, inputVars, reviewVars, brokerVars
<1>2. CASE Next
  BY <1>2, TypeWorld, TypePreview, TypeSubmit DEF Next, Handle
<1> QED
  BY <1>1, <1>2

-------------------------------------------------------------------------------
(* Frames: what a step leaves alone, and what only grows. *)

Handler(r) == StartRequest(r) \/ Handle(r) \/ Die(r)
World == Refresh \/ Review \/ Broker

\* A step is one of the world around the handlers or of one handler.
LEMMA NextCases == Next <=> World \/ \E r \in Requests : Handler(r)
  BY DEF Next, World, Handler

\* The world moves no handler and writes neither approvals nor audit rows.
LEMMA WorldFrame == World => UNCHANGED <<pc, ctx, approvals, history>>
  BY DEF World, Refresh, Review, Broker, BrokerAccept, BrokerRefuse, BrokerFill,
         BrokerCancel, inputVars, reviewVars, brokerVars

\* A handler moves no other handler and changes no order.
LEMMA HandlerFrame ==
  ASSUME Inv, NEW r \in Requests, Handler(r)
  PROVE  /\ \A s \in Requests \ {r} : pc'[s] = pc[s] /\ ctx'[s] = ctx[s]
         /\ orders' = orders
<1> USE DEF Inv, TypeOK, Goto, Return, brokerVars
<1>1. CASE StartRequest(r)
  BY <1>1 DEF StartRequest
<1>2. CASE ReadPositions(r) \/ ReadOrders(r)
  BY <1>2 DEF ReadPositions, ReadOrders, ReadBroker
<1>3. CASE ReadReports(r) \/ ReadReview(r)
  BY <1>3 DEF ReadReports, ReadReview
<1>4. CASE Decide(r) \/ Refuse(r) \/ PersistApproval(r) \/ Die(r)
  BY <1>4 DEF Decide, Refuse, PersistApproval, Die
<1>5. CASE RecordIntent(r) \/ SendOrder(r) \/ HearAccepted(r) \/ HearFailure(r)
  BY <1>5 DEF RecordIntent, SendOrder, HearAccepted, HearFailure
<1>6. CASE Reconcile(r) \/ RecordOrder(r) \/ LoseOrderRecord(r) \/ RecordFailed(r)
  BY <1>6 DEF Reconcile, RecordOrder, LoseOrderRecord, RecordFailed
<1> QED
  BY <1>1, <1>2, <1>3, <1>4, <1>5, <1>6 DEF Handler, Handle, Preview, Submit

\* Approvals and audit rows are never withdrawn.
LEMMA Grows ==
  ASSUME Inv, Next
  PROVE  /\ approvals \subseteq approvals'
         /\ history \subseteq history'
         /\ \A i : HasReady(i) => HasReady(i)'
<1>1. CASE World
  BY <1>1, WorldFrame
     DEF HasReady
<1>2. ASSUME NEW r \in Requests, Handler(r)
      PROVE  approvals \subseteq approvals' /\ history \subseteq history'
  <2>1. CASE StartRequest(r) \/ Preview(r) \/ Die(r)
    BY <2>1 DEF StartRequest, Preview, Die, ReadPositions, ReadOrders, ReadBroker,
                ReadReports, ReadReview, Decide, Refuse
  <2>2. CASE PersistApproval(r)
    BY <2>2 DEF PersistApproval
  <2>3. CASE RecordIntent(r) \/ SendOrder(r) \/ HearAccepted(r) \/ HearFailure(r)
    BY <2>3 DEF RecordIntent, SendOrder, HearAccepted, HearFailure, Record
  <2>4. CASE Reconcile(r) \/ RecordOrder(r) \/ LoseOrderRecord(r) \/ RecordFailed(r)
    BY <2>4 DEF Reconcile, RecordOrder, LoseOrderRecord, RecordFailed, Record
  <2> QED
    BY <1>2, <2>1, <2>2, <2>3, <2>4 DEF Handler, Handle, Submit
<1>3. approvals \subseteq approvals' /\ history \subseteq history'
  BY <1>1, <1>2, WorldFrame, NextCases
<1> QED
  BY <1>3 DEF HasReady

\* Orders change only when the broker takes a request on the wire or settles an order.
LEMMA WorldOrders ==
  ASSUME Inv, World
  PROVE  /\ wire' \subseteq wire
         /\ \/ \E m \in wire : BrokerAccept(m)
            \/ \E o \in orders : BrokerFill(o) \/ BrokerCancel(o)
            \/ UNCHANGED <<orders, clock>>
  BY DEF World, Refresh, Review, Broker, BrokerAccept, BrokerRefuse, BrokerFill,
         BrokerCancel, brokerVars

-------------------------------------------------------------------------------
(* The conjuncts of the inductive invariant. *)

\* What LocalsOK says of one handler.
LocalOK(r) ==
    /\ pc[r] \in Active => ctx[r].intent \in Intents
    /\ pc[r] \in Submitting => ctx[r].intent \in approvals
    /\ pc[r] \in Submitting \ {"intent"} => HasReady(ctx[r].intent)
    /\ pc[r] = "record" => ctx[r].order \in BrokerOrder

\* What the locals of a handler amount to survives every step.
LEMMA LocalsStep ==
  ASSUME Inv, TypeOK', Next
  PROVE  LocalsOK'
<1>1. \A r \in Requests : LocalOK(r)
  BY DEF Inv, IndInv, LocalsOK, LocalOK
<1>2. ASSUME NEW r \in Requests, pc'[r] = pc[r], ctx'[r] = ctx[r]
      PROVE  LocalOK(r)'
  BY <1>1, <1>2, Grows DEF LocalOK
<1>3. ASSUME NEW r \in Requests, Handler(r)
      PROVE  LocalOK(r)'
  <2> USE <1>1, Grows DEF LocalOK, Active, Submitting, Reading
  <2>0. ctx[r] \in Context /\ DOMAIN ctx = Requests /\ DOMAIN pc = Requests
    BY DEF Inv, TypeOK
  <2>1. CASE StartRequest(r)
    <3>1. PICK k \in {"approve", "submit"}, i \in Intents :
             ctx' = [ctx EXCEPT ![r] = [EmptyContext EXCEPT !.kind = k, !.intent = i]]
      BY <2>1 DEF StartRequest
    <3>2. ctx'[r].intent = i
      BY <3>1, <2>0 DEF EmptyContext
    <3> QED
      BY <2>0, <2>1, <3>2 DEF StartRequest, Goto
  <2>2. CASE ReadPositions(r) \/ ReadOrders(r) \/ ReadReports(r) \/ ReadReview(r)
    <3>1. pc[r] \in Reading /\ pc'[r] \in Reading
      BY <2>0, <2>2 DEF ReadPositions, ReadOrders, ReadBroker, ReadReports,
                        ReadReview, Goto
    <3>2. ctx'[r].intent = ctx[r].intent
      BY <2>0, <2>2 DEF ReadPositions, ReadOrders, ReadBroker, ReadReports,
                        ReadReview, Context
    <3> QED
      BY <3>1, <3>2
  <2>3. CASE Decide(r)
    <3>1. ctx'[r].intent = ctx[r].intent
      BY <2>0, <2>3 DEF Decide, EmptyContext
    <3>2. pc[r] = "audit" /\ (pc'[r] = "approve" \/ pc'[r] = "intent")
      BY <2>0, <2>3 DEF Decide, Goto
    <3>3. pc'[r] = "intent" => ctx[r].intent \in approvals
      BY <2>0, <2>3 DEF Decide, Goto, OrderApproved
    <3> QED
      BY <3>1, <3>2, <3>3
  <2>4. CASE RecordIntent(r)
    <3>1. CASE pc'[r] = "idle"
      BY <3>1
    <3>2. CASE pc'[r] = "send" /\ ctx' = ctx /\ HasReady(ctx[r].intent)'
      BY <2>4, <3>2 DEF RecordIntent
    <3> QED
      BY <2>0, <2>4, <3>1, <3>2 DEF RecordIntent, Record, Return, Goto, HasReady
  <2>5. CASE SendOrder(r) \/ HearAccepted(r) \/ HearFailure(r)
    <3>1. /\ pc[r] \in {"send", "await"}
          /\ pc'[r] \in {"await", "reconcile", "record_failed"}
          /\ ctx' = ctx
      BY <2>0, <2>5 DEF SendOrder, HearAccepted, HearFailure, Goto
    <3> QED
      BY <3>1
  <2>6. CASE Reconcile(r)
    <3>1. PICK o \in orders : \E seen \in {o, SubmittedCopy(o)} :
             ctx' = [ctx EXCEPT ![r].order = seen]
      BY <2>6 DEF Reconcile
    <3>2. o \in BrokerOrder
      BY DEF Inv, TypeOK
    <3>3. SubmittedCopy(o) \in BrokerOrder
      BY <3>2 DEF SubmittedCopy, BrokerOrder, BrokerStates
    <3>4. ctx'[r].order \in BrokerOrder /\ ctx'[r].intent = ctx[r].intent
      BY <2>0, <3>1, <3>2, <3>3 DEF Context
    <3>5. pc[r] = "reconcile" /\ pc'[r] = "record"
      BY <2>0, <2>6 DEF Reconcile, Goto
    <3> QED
      BY <3>4, <3>5
  <2>7. CASE Refuse(r) \/ PersistApproval(r) \/ RecordOrder(r) \/ LoseOrderRecord(r)
             \/ RecordFailed(r) \/ Die(r)
    <3>1. pc'[r] \in {"idle"} \cup Outcomes
      BY <2>0, <2>7 DEF Refuse, PersistApproval, RecordOrder, LoseOrderRecord,
                        RecordFailed, Die, Return, Goto, Outcomes
    <3> QED
      BY <3>1 DEF Outcomes
  <2> QED
    BY <1>3, <2>1, <2>2, <2>3, <2>4, <2>5, <2>6, <2>7
       DEF Handler, Handle, Preview, Submit
<1>4. \A r \in Requests : LocalOK(r)'
  BY <1>2, <1>3, WorldFrame, HandlerFrame, NextCases
<1> QED
  BY <1>4 DEF LocalOK, LocalsOK

\* Every request on its way stays approved and recorded.
LEMMA WireStep ==
  ASSUME Inv, Next
  PROVE  WireOK'
<1>1. WireOK
  BY DEF Inv, IndInv
<1>2. CASE World
  BY <1>1, <1>2, WorldOrders, Grows DEF WireOK
<1>3. ASSUME NEW r \in Requests, Handler(r)
      PROVE  WireOK'
  <2>1. CASE SendOrder(r)
    <3>1. ctx[r].intent \in approvals /\ HasReady(ctx[r].intent)
      BY <2>1 DEF SendOrder, Inv, IndInv, LocalsOK, Submitting
    <3>2. wire' = wire \cup {[id |-> ctx[r].intent, intent |-> ctx[r].intent,
                              request |-> r]}
      BY <2>1 DEF SendOrder, ClientOrderId
    <3> QED
      BY <1>1, <3>1, <3>2, Grows DEF WireOK
  <2>2. CASE ~SendOrder(r)
    <3>1. wire' = wire
      BY <1>3, <2>2
         DEF Handler, Handle, Preview, Submit, StartRequest, ReadPositions, ReadOrders,
             ReadBroker, ReadReports, ReadReview, Decide, Refuse, PersistApproval,
             RecordIntent, HearAccepted, HearFailure, Reconcile, RecordOrder,
             LoseOrderRecord, RecordFailed, Die, brokerVars
    <3> QED
      BY <1>1, <3>1, Grows DEF WireOK
  <2> QED
    BY <2>1, <2>2
<1> QED
  BY <1>2, <1>3, NextCases

\* What one order has to satisfy, and the audit rows.
OrderOK(o) ==
    /\ o.id = o.intent
    /\ o.intent \in approvals
    /\ \E h \in history : h.intent = o.intent /\ h.state = "READY" /\ h.at < o.submitted_at

\* No step places a second order of an id, or one not recorded before.
LEMMA OrderStep ==
  ASSUME Inv, Next
  PROVE  /\ \A o \in orders' : OrderOK(o)'
         /\ \A o, p \in orders' : o.id = p.id => o = p
<1>0. /\ \A o \in orders : OrderOK(o)
      /\ \A o, p \in orders : o.id = p.id => o = p
      /\ orders \subseteq BrokerOrder
  BY DEF Inv, TypeOK, IndInv, OrdersOK, IntentRecordedFirst, OrderAuthorised, OrderOK
<1>1. \A o \in orders : OrderOK(o)'
  BY <1>0, Grows DEF OrderOK
<1>2. ASSUME NEW m \in wire, BrokerAccept(m)
      PROVE  /\ \A o \in orders' : OrderOK(o)'
             /\ \A o, p \in orders' : o.id = p.id => o = p
  <2>0. PICK n : n = [id |-> m.id, intent |-> m.intent, request |-> m.request,
                      status |-> "ACCEPTED", submitted_at |-> clock + 1,
                      filled_at |-> 0]
    OBVIOUS
  <2>1. m.id = m.intent /\ m.intent \in approvals /\ HasReady(m.intent)
    BY DEF Inv, IndInv, WireOK
  <2>2. PICK h \in history : h.intent = m.intent /\ h.state = "READY"
    BY <2>1 DEF HasReady
  <2>3. h.at < clock + 1
    BY DEF Inv, TypeOK, IndInv, HistoryInPast, HistoryRow
  <2>4. OrderOK(n)'
    BY <2>0, <2>1, <2>2, <2>3, Grows DEF OrderOK
  <2>5. orders' = orders \cup {n} /\ \A o \in orders : o.id # n.id
    BY <1>2, <2>0 DEF BrokerAccept
  <2> QED
    BY <1>0, <1>1, <2>4, <2>5
<1>3. ASSUME NEW o \in orders, NEW n, orders' = (orders \ {o}) \cup {n},
             n.id = o.id, n.intent = o.intent, n.submitted_at = o.submitted_at
      PROVE  /\ \A x \in orders' : OrderOK(x)'
             /\ \A x, y \in orders' : x.id = y.id => x = y
  <2>1. OrderOK(n)'
    BY <1>1, <1>3 DEF OrderOK
  <2> QED
    BY <1>0, <1>1, <1>3, <2>1
<1>4. ASSUME NEW o \in orders, BrokerFill(o) \/ BrokerCancel(o)
      PROVE  /\ \A x \in orders' : OrderOK(x)'
             /\ \A x, y \in orders' : x.id = y.id => x = y
  <2>1. o \in BrokerOrder
    BY <1>0
  <2>2. CASE BrokerFill(o)
    <3>1. PICK n : n = [o EXCEPT !.status = "FILLED", !.filled_at = clock + 1]
      OBVIOUS
    <3>2. n.id = o.id /\ n.intent = o.intent /\ n.submitted_at = o.submitted_at
      BY <2>1, <3>1 DEF BrokerOrder
    <3> QED
      BY <1>3, <2>2, <3>1, <3>2 DEF BrokerFill
  <2>3. CASE BrokerCancel(o)
    <3>1. PICK n : n = [o EXCEPT !.status = "CANCELED"]
      OBVIOUS
    <3>2. n.id = o.id /\ n.intent = o.intent /\ n.submitted_at = o.submitted_at
      BY <2>1, <3>1 DEF BrokerOrder
    <3> QED
      BY <1>3, <2>3, <3>1, <3>2 DEF BrokerCancel
  <2> QED
    BY <1>4, <2>2, <2>3
<1>5. CASE UNCHANGED orders
  BY <1>0, <1>1, <1>5
<1> QED
  BY <1>2, <1>4, <1>5, WorldOrders, HandlerFrame, NextCases

\* No audit row lies ahead of the clock.
LEMMA PastStep ==
  ASSUME Inv, TypeOK', Next
  PROVE  HistoryInPast'
<1>0. clock \in Nat /\ clock' \in Nat /\ HistoryInPast
      /\ history \subseteq HistoryRow /\ history' \subseteq HistoryRow
  BY DEF Inv, TypeOK, IndInv
<1>1. CASE history' = history /\ clock <= clock'
  BY <1>0, <1>1 DEF HistoryInPast, HistoryRow
<1>2. ASSUME NEW row, Record(row)
      PROVE  HistoryInPast'
  BY <1>0, <1>2 DEF HistoryInPast, HistoryRow, Record
<1>3. CASE World
  <2>1. clock <= clock'
    <3>1. clock' = clock \/ clock' = clock + 1
      BY <1>3 DEF World, Refresh, Review, Broker, BrokerAccept, BrokerRefuse,
                  BrokerFill, BrokerCancel
    <3> QED
      BY <1>0, <3>1
  <2> QED
    BY <1>1, <1>3, <2>1, WorldFrame
<1>4. ASSUME NEW r \in Requests, Handler(r)
      PROVE  HistoryInPast'
  <2>1. CASE StartRequest(r) \/ Preview(r) \/ Die(r) \/ PersistApproval(r)
    <3>1. history' = history /\ clock' = clock
      BY <2>1 DEF StartRequest, Preview, Die, PersistApproval, ReadPositions,
                  ReadOrders, ReadBroker, ReadReports, ReadReview, Decide, Refuse
    <3> QED
      BY <1>0, <1>1, <3>1
  <2>2. CASE RecordIntent(r) \/ RecordOrder(r) \/ RecordFailed(r)
    BY <1>0, <1>1, <1>2, <2>2 DEF RecordIntent, RecordOrder, RecordFailed
  <2>3. CASE SendOrder(r) \/ HearAccepted(r) \/ HearFailure(r) \/ Reconcile(r)
             \/ LoseOrderRecord(r)
    <3>1. history' = history /\ clock' = clock
      BY <2>3 DEF SendOrder, HearAccepted, HearFailure, Reconcile, LoseOrderRecord,
                  brokerVars
    <3> QED
      BY <1>0, <1>1, <3>1
  <2> QED
    BY <1>4, <2>1, <2>2, <2>3 DEF Handler, Handle, Submit
<1> QED
  BY <1>3, <1>4, NextCases

\* An order that was seen in a state stays a witness of what was seen: it fills
\* or is canceled once, and keeps the time of its submission.
LEMMA StillTells ==
  ASSUME Inv, Next, NEW i, NEW state \in BrokerStates, NEW at, Tells(i, state, at)
  PROVE  Tells(i, state, at)'
<1>0. orders \subseteq BrokerOrder
  BY DEF Inv, TypeOK
<1>1. PICK o \in orders : /\ o.intent = i
                          /\ state # "ACCEPTED" => o.status = state
                          /\ at = IF state = "FILLED" THEN o.filled_at ELSE o.submitted_at
  BY DEF Tells
<1>2. CASE o \in orders'
  BY <1>1, <1>2 DEF Tells
<1>3. CASE o \notin orders'
  <2>1. PICK p \in orders : BrokerFill(p) \/ BrokerCancel(p)
    <3>1. World
      BY <1>3, HandlerFrame, NextCases
    <3>2. \A m \in wire : BrokerAccept(m) => o \in orders'
      BY <1>1 DEF BrokerAccept
    <3> QED
      BY <1>1, <1>3, <3>1, <3>2, WorldOrders
  <2>2. p = o /\ o.status = "ACCEPTED"
    BY <1>1, <1>3, <2>1 DEF BrokerFill, BrokerCancel
  <2>3. state = "ACCEPTED" /\ at = o.submitted_at
    BY <1>1, <2>2 DEF BrokerStates
  <2>4. PICK n \in orders' : n.intent = o.intent /\ n.submitted_at = o.submitted_at
    <3>1. CASE BrokerFill(o)
      <4>1. PICK n : n = [o EXCEPT !.status = "FILLED", !.filled_at = clock + 1]
        OBVIOUS
      <4>2. n.intent = o.intent /\ n.submitted_at = o.submitted_at
        BY <1>0, <4>1 DEF BrokerOrder
      <4> QED
        BY <3>1, <4>1, <4>2 DEF BrokerFill
    <3>2. CASE BrokerCancel(o)
      <4>1. PICK n : n = [o EXCEPT !.status = "CANCELED"]
        OBVIOUS
      <4>2. n.intent = o.intent /\ n.submitted_at = o.submitted_at
        BY <1>0, <4>1 DEF BrokerOrder
      <4> QED
        BY <3>2, <4>1, <4>2 DEF BrokerCancel
    <3> QED
      BY <2>1, <2>2, <3>1, <3>2
  <2> QED
    BY <1>1, <2>3, <2>4 DEF Tells
<1> QED
  BY <1>2, <1>3

\* What one handler is about to record.
CopyTells(r) ==
    pc[r] = "record" =>
        Tells(ctx[r].intent, OrderState(ctx[r].order), OrderEventTime(ctx[r].order))

\* The copy a handler gets, from the lookup or from the submit call, tells the
\* truth, and keeps telling it until it is recorded.
LEMMA CopyStep ==
  ASSUME Inv, Next, NEW r \in Requests
  PROVE  CopyTells(r)'
<1>0. CopyTells(r) /\ (pc[r] = "record" => ctx[r].order \in BrokerOrder)
  BY DEF Inv, IndInv, CopiesTell, CopyTells, LocalsOK
<1>1. CASE pc'[r] = pc[r] /\ ctx'[r] = ctx[r]
  <2> SUFFICES ASSUME pc[r] = "record"
               PROVE  Tells(ctx[r].intent, OrderState(ctx[r].order),
                            OrderEventTime(ctx[r].order))'
    BY <1>1 DEF CopyTells
  <2> DEFINE state == OrderState(ctx[r].order)
             at == OrderEventTime(ctx[r].order)
  <2>1. state \in BrokerStates /\ Tells(ctx[r].intent, state, at)
    BY <1>0 DEF CopyTells, OrderState, BrokerOrder
  <2>2. state' = state /\ at' = at
    BY <1>1 DEF OrderState, OrderEventTime
  <2> HIDE DEF state, at
  <2>3. Tells(ctx[r].intent, state, at)'
    <3>1. \E o \in orders' :
            /\ o.intent = ctx[r].intent
            /\ state # "ACCEPTED" => o.status = state
            /\ at = IF state = "FILLED" THEN o.filled_at ELSE o.submitted_at
      BY <2>1, StillTells DEF Tells
    <3> QED
      BY <1>1, <2>2, <3>1 DEF Tells
  <2> QED
    BY <2>3 DEF state, at
<1>2. CASE Reconcile(r)
  <2>0. PICK o \in orders : /\ o.id = ctx[r].intent
                            /\ \E seen \in {o, SubmittedCopy(o)} :
                                 ctx' = [ctx EXCEPT ![r].order = seen]
    BY <1>2 DEF Reconcile, ClientOrderId
  <2>1. PICK seen \in {o, SubmittedCopy(o)} : ctx' = [ctx EXCEPT ![r].order = seen]
    BY <2>0
  <2>2. o \in BrokerOrder /\ o.id = o.intent /\ orders' = orders
    BY <1>2 DEF Inv, TypeOK, IndInv, OrdersOK, Reconcile, brokerVars
  <2>3. ctx'[r].order = seen /\ ctx'[r].intent = ctx[r].intent
    BY <2>1 DEF Inv, TypeOK, Context
  <2>4. CASE seen = o
    BY <2>0, <2>2, <2>3, <2>4 DEF CopyTells, Tells, OrderState, OrderEventTime
  <2>5. CASE seen = SubmittedCopy(o)
    <3>1. seen.status = "ACCEPTED" /\ seen.submitted_at = o.submitted_at
      BY <2>2, <2>5 DEF SubmittedCopy, BrokerOrder
    <3> QED
      BY <2>0, <2>2, <2>3, <3>1 DEF CopyTells, Tells, OrderState, OrderEventTime
  <2> QED
    BY <2>1, <2>4, <2>5
<1>3. CASE pc'[r] # "record"
  BY <1>3 DEF CopyTells
<1>4. CASE Handler(r)
  <2> USE DEF Inv, TypeOK, Goto, Return
  <2>1. CASE StartRequest(r) \/ Preview(r) \/ Die(r) \/ PersistApproval(r)
    <3>1. CASE StartRequest(r) \/ Die(r) \/ PersistApproval(r) \/ Decide(r) \/ Refuse(r)
      BY <1>3, <3>1 DEF StartRequest, Die, PersistApproval, Decide, Refuse
    <3>2. CASE ReadPositions(r) \/ ReadOrders(r)
      BY <1>3, <3>2 DEF ReadPositions, ReadOrders, ReadBroker
    <3>3. CASE ReadReports(r) \/ ReadReview(r)
      BY <1>3, <3>3 DEF ReadReports, ReadReview
    <3> QED
      BY <2>1, <3>1, <3>2, <3>3 DEF Preview
  <2>2. CASE RecordIntent(r) \/ SendOrder(r) \/ HearAccepted(r) \/ HearFailure(r)
    BY <1>3, <2>2 DEF RecordIntent, SendOrder, HearAccepted, HearFailure
  <2>3. CASE RecordOrder(r) \/ LoseOrderRecord(r) \/ RecordFailed(r)
    BY <1>3, <2>3 DEF RecordOrder, LoseOrderRecord, RecordFailed
  <2> QED
    BY <1>2, <1>4, <2>1, <2>2, <2>3 DEF Handler, Handle, Submit
<1>5. CASE World
  BY <1>1, <1>5, WorldFrame
<1>6. ASSUME NEW s \in Requests \ {r}, Handler(s)
      PROVE  CopyTells(r)'
  BY <1>1, <1>6, HandlerFrame
<1> QED
  BY <1>4, <1>5, <1>6, NextCases

\* The history gets its rows from the three steps of a handler that record.
LEMMA RowsFrom ==
  ASSUME Next, NEW h \in history', h \notin history
  PROVE  \E r \in Requests :
           /\ RecordIntent(r) \/ RecordOrder(r) \/ RecordFailed(r)
           /\ pc[r] \in Submitting /\ h.intent = ctx[r].intent
<1>1. PICK r \in Requests : Handler(r)
  BY WorldFrame, NextCases
<1>2. RecordIntent(r) \/ RecordOrder(r) \/ RecordFailed(r)
  <2>1. CASE StartRequest(r) \/ Preview(r) \/ Die(r) \/ PersistApproval(r)
    BY <2>1 DEF StartRequest, Preview, Die, PersistApproval, ReadPositions,
                ReadOrders, ReadBroker, ReadReports, ReadReview, Decide, Refuse
  <2>2. CASE SendOrder(r) \/ HearAccepted(r) \/ HearFailure(r) \/ Reconcile(r)
             \/ LoseOrderRecord(r)
    BY <2>2 DEF SendOrder, HearAccepted, HearFailure, Reconcile, LoseOrderRecord
  <2> QED
    BY <1>1, <2>1, <2>2 DEF Handler, Handle, Submit
<1>3. pc[r] \in Submitting /\ h.intent = ctx[r].intent
  BY <1>2 DEF RecordIntent, RecordOrder, RecordFailed, Record, Submitting
<1> QED
  BY <1>2, <1>3

\* No row is written of an intent that nobody approved.
LEMMA RowsApproved ==
  ASSUME Inv, Next, NEW h \in history'
  PROVE  h.intent \in approvals'
<1>1. CASE h \in history
  BY <1>1, Grows DEF Inv, IndInv, OrderAuthorised
<1>2. CASE h \notin history
  <2>1. PICK r \in Requests : pc[r] \in Submitting /\ h.intent = ctx[r].intent
    BY <1>2, RowsFrom
  <2> QED
    BY <2>1, Grows DEF Inv, IndInv, LocalsOK
<1> QED
  BY <1>1, <1>2

\* No row with a broker state is ever about an order the broker does not have,
\* or in a state the order never had.
LEMMA TruthStep ==
  ASSUME Inv, TypeOK', Next
  PROVE  HistoryIsTrue'
<1>0. history' \subseteq HistoryRow /\ RecordedOrderStates = BrokerStates
  BY DEF TypeOK, RecordedOrderStates
<1>1. SUFFICES ASSUME NEW h \in history', h.state \in BrokerStates
               PROVE  Tells(h.intent, h.state, h.at)'
  BY <1>0 DEF HistoryIsTrue, Tells
<1>2. CASE h \in history
  <2>1. Tells(h.intent, h.state, h.at)
    BY <1>0, <1>1, <1>2 DEF Inv, IndInv, HistoryIsTrue, Tells
  <2> QED
    BY <1>1, <2>1, StillTells
<1>3. CASE h \notin history
  <2>1. PICK r \in Requests : RecordIntent(r) \/ RecordOrder(r) \/ RecordFailed(r)
    BY <1>1, <1>3, RowsFrom
  <2>2. CASE RecordIntent(r) \/ RecordFailed(r)
    <3>1. h.state \in {"READY", "FAILED"}
      BY <1>1, <1>3, <2>2 DEF RecordIntent, RecordFailed, Record
    <3> QED
      BY <1>1, <3>1 DEF BrokerStates
  <2>3. CASE RecordOrder(r)
    <3>1. /\ h.intent = ctx[r].intent
          /\ h.state = OrderState(ctx[r].order)
          /\ h.at = OrderEventTime(ctx[r].order)
      BY <1>1, <1>3, <2>3 DEF RecordOrder, Record
    <3>2. Tells(h.intent, h.state, h.at)
      BY <2>3, <3>1 DEF RecordOrder, Inv, IndInv, CopiesTell
    <3> QED
      BY <1>1, <3>2, StillTells
  <2> QED
    BY <2>1, <2>2, <2>3
<1> QED
  BY <1>2, <1>3

\* The inductive invariant survives every step.
LEMMA InvStep == Inv /\ [Next]_vars => Inv'
<1> SUFFICES ASSUME Inv, [Next]_vars
             PROVE  Inv'
  OBVIOUS
<1>1. TypeOK'
  BY TypeStep
<1>2. CASE UNCHANGED vars
  BY <1>1, <1>2 DEF Inv, IndInv, LocalsOK, WireOK, OrdersOK, HistoryInPast, HasReady,
                    CopiesTell, Tells, HistoryIsTrue, IntentRecordedFirst,
                    OrderAuthorised, vars, brokerVars
<1>3. CASE Next
  <2>1. LocalsOK' /\ WireOK' /\ HistoryInPast'
    BY <1>1, <1>3, LocalsStep, WireStep, PastStep
  <2>2. OrdersOK' /\ OrderAuthorised'
    BY <1>3, <2>1, OrderStep, RowsApproved DEF OrdersOK, OrderAuthorised, OrderOK, WireOK
  <2>3. IntentRecordedFirst'
    BY <1>3, <2>1, OrderStep DEF IntentRecordedFirst, OrderOK, WireOK, HasReady
  <2>4. CopiesTell' /\ HistoryIsTrue'
    BY <1>1, <1>3, CopyStep, TruthStep DEF CopiesTell, CopyTells
  <2> QED
    BY <1>1, <2>1, <2>2, <2>3, <2>4 DEF Inv, IndInv
<1> QED
  BY <1>2, <1>3

-------------------------------------------------------------------------------
(* The theorems. *)

\* Every reachable state satisfies the type and the inductive invariant.
THEOREM Invariance == Spec => []Inv
  BY InitInv, InvStep, PTL DEF Spec

\* Type correctness.
THEOREM TypeCorrect == Spec => []TypeOK
<1>1. Inv => TypeOK
  BY DEF Inv
<1> QED
  BY <1>1, Invariance, PTL

\* The inductive invariant that a run also checks.
THEOREM Inductive == Spec => []IndInv
<1>1. Inv => IndInv
  BY DEF Inv
<1> QED
  BY <1>1, Invariance, PTL

\* Two handlers that pass the checks together, and any retry, place at most
\* one order of an intent: the order's id is a function of the intent.
THEOREM AtMostOneOrder == Spec => []OneOrderPerIntent
<1>1. Inv => OneOrderPerIntent
  BY DEF Inv, IndInv, OrdersOK, OneOrderPerIntent
<1> QED
  BY <1>1, Invariance, PTL

\* No order and no message without an earlier durable READY row.
THEOREM RecordedBeforeSent == Spec => []IntentRecordedFirst
<1>1. Inv => IntentRecordedFirst
  BY DEF Inv, IndInv
<1> QED
  BY <1>1, Invariance, PTL

\* No order without the operator's approval of its very intent.
THEOREM OnlyApprovedOrders == Spec => []OrderAuthorised
<1>1. Inv => OrderAuthorised
  BY DEF Inv, IndInv
<1> QED
  BY <1>1, Invariance, PTL

\* What a row with a broker state says of an order is true when it is written
\* and stays true, though the copy it is made from may be stale by then.
THEOREM RecordedStatesAreTrue == Spec => []HistoryIsTrue
<1>1. Inv => HistoryIsTrue
  BY DEF Inv, IndInv
<1> QED
  BY <1>1, Invariance, PTL

-------------------------------------------------------------------------------
(* The submit path implements the abstract life of an order intent. *)

phase == [i \in Intents |-> Phase(i)]

\* The guards of Phase exclude each other: one order per intent.
PhaseOf(i) ==
    /\ Placed(i, "FILLED") => Phase(i) = "filled"
    /\ Placed(i, "CANCELED") => Phase(i) = "canceled"
    /\ Placed(i, "ACCEPTED") => Phase(i) = "working"
    /\ Unplaced(i) /\ HasReady(i) => Phase(i) = "recorded"
    /\ Unplaced(i) /\ ~HasReady(i) /\ i \in approvals => Phase(i) = "approved"
    /\ Unplaced(i) /\ ~HasReady(i) /\ i \notin approvals => Phase(i) = "proposed"
    /\ Unplaced(i) \/ Placed(i, "FILLED") \/ Placed(i, "CANCELED") \/ Placed(i, "ACCEPTED")
    /\ \A s : Placed(i, s) => ~Unplaced(i)

PhasesOK == \A i : PhaseOf(i)

\* Under the invariant Phase is decided by orders, READY rows and approvals.
LEMMA PhaseIs == Inv => PhasesOK
<1> SUFFICES ASSUME Inv, NEW i
             PROVE  PhaseOf(i)
  BY DEF PhasesOK
<1>1. \A o, p \in orders : o.intent = p.intent => o = p
  BY DEF Inv, IndInv, OrdersOK
<1>2. \A s, t : Placed(i, s) /\ Placed(i, t) => s = t
  BY <1>1 DEF Placed
<1>3. \A s : Placed(i, s) => ~Unplaced(i)
  BY DEF Placed, Unplaced
<1>4. Unplaced(i) \/ Placed(i, "FILLED") \/ Placed(i, "CANCELED") \/ Placed(i, "ACCEPTED")
  BY DEF Inv, TypeOK, BrokerOrder, BrokerStates, Placed, Unplaced
<1> QED
  BY <1>2, <1>3, <1>4 DEF Phase, PhaseOf

\* The same before and after a step.
LEMMA PhasesNow ==
  ASSUME Inv, Inv'
  PROVE  \A i : PhaseOf(i) /\ PhaseOf(i)'
<1>1. Inv' => PhasesOK'
  BY PhaseIs, PTL
<1> QED
  BY <1>1, PhaseIs DEF PhasesOK

\* An intent whose orders, READY row and approval stand as they did keeps its phase.
LEMMA PhaseKept ==
  ASSUME Inv, Inv', NEW i,
         \A s : Placed(i, s) <=> Placed(i, s)',
         HasReady(i) <=> HasReady(i)',
         i \in approvals <=> i \in approvals'
  PROVE  Phase(i)' = Phase(i)
<1>1. PhaseOf(i) /\ PhaseOf(i)'
  BY PhasesNow
<1>2. Unplaced(i) <=> Unplaced(i)'
  BY <1>1 DEF PhaseOf
<1> QED
  BY <1>1, <1>2 DEF PhaseOf

\* The moves of the abstract specification, one intent at a time.
Moves ==
    {<<"proposed", "approved">>, <<"approved", "recorded">>, <<"recorded", "working">>,
     <<"working", "filled">>, <<"working", "canceled">>}

\* An intent that advances while the others stay is an abstract step.
LEMMA MoveIsStep ==
  ASSUME NEW i \in Intents,
         \A j \in Intents \ {i} : Phase(j)' = Phase(j),
         Phase(i)' = Phase(i) \/ <<Phase(i), Phase(i)'>> \in Moves
  PROVE  Lifecycle!Next \/ UNCHANGED phase
<1>1. CASE Phase(i)' = Phase(i)
  BY <1>1 DEF phase
<1>2. ASSUME NEW a, NEW b, Phase(i) = a, Phase(i)' = b
      PROVE  Lifecycle!Advance(i, a, b)
  BY <1>2 DEF Lifecycle!Advance
<1>3. CASE <<Phase(i), Phase(i)'>> \in Moves
  BY <1>2, <1>3 DEF Moves, Lifecycle!Next, Lifecycle!Approve, Lifecycle!Record,
                    Lifecycle!Place, Lifecycle!Settle
<1> QED
  BY <1>1, <1>3

\* Steps of the broker.
LEMMA BrokerMoves ==
  ASSUME Inv, Inv', World
  PROVE  Lifecycle!Next \/ UNCHANGED phase
<1>1. approvals' = approvals /\ history' = history
  BY WorldFrame
<1>2. \A i : HasReady(i)' <=> HasReady(i)
  BY <1>1 DEF HasReady
<1>3. CASE UNCHANGED orders
  <2>1. \A i : Phase(i)' = Phase(i)
    BY <1>1, <1>2, <1>3, PhaseKept DEF Placed
  <2> QED
    BY <2>1 DEF phase
<1>4. ASSUME NEW m \in wire, BrokerAccept(m)
      PROVE  Lifecycle!Next \/ UNCHANGED phase
  <2>0. PICK n : n = [id |-> m.id, intent |-> m.intent, request |-> m.request,
                      status |-> "ACCEPTED", submitted_at |-> clock + 1,
                      filled_at |-> 0]
    OBVIOUS
  <2>1. /\ m.intent \in Intents /\ HasReady(m.intent) /\ m.id = m.intent
        /\ n.intent = m.intent /\ n.status = "ACCEPTED"
    BY <2>0 DEF Inv, TypeOK, Message, IndInv, WireOK
  <2>2. orders' = orders \cup {n}
    BY <1>4, <2>0 DEF BrokerAccept
  <2>3. Unplaced(m.intent)
    BY <1>4, <2>1 DEF BrokerAccept, Unplaced, Inv, IndInv, OrdersOK
  <2>4. \A j \in Intents \ {m.intent} : Phase(j)' = Phase(j)
    <3> SUFFICES ASSUME NEW j \in Intents \ {m.intent}
                 PROVE  Phase(j)' = Phase(j)
      OBVIOUS
    <3>1. \A s : Placed(j, s)' <=> Placed(j, s)
      BY <2>1, <2>2 DEF Placed
    <3> QED
      BY <1>1, <1>2, <3>1, PhaseKept
  <2>5. Placed(m.intent, "ACCEPTED")'
    BY <2>1, <2>2 DEF Placed
  <2>6. Phase(m.intent) = "recorded" /\ Phase(m.intent)' = "working"
    BY <2>1, <2>3, <2>5, PhasesNow DEF PhaseOf
  <2> QED
    BY <2>1, <2>4, <2>6, MoveIsStep DEF Moves
<1>5. ASSUME NEW o \in orders, NEW n, o.status = "ACCEPTED",
             orders' = (orders \ {o}) \cup {n}, n.intent = o.intent,
             n.status \in {"FILLED", "CANCELED"}
      PROVE  Lifecycle!Next \/ UNCHANGED phase
  <2>1. o.intent \in Intents
    BY DEF Inv, TypeOK, BrokerOrder
  <2>2. \A j \in Intents \ {o.intent} : Phase(j)' = Phase(j)
    <3> SUFFICES ASSUME NEW j \in Intents \ {o.intent}
                 PROVE  Phase(j)' = Phase(j)
      OBVIOUS
    <3>1. \A s : Placed(j, s)' <=> Placed(j, s)
      BY <1>5 DEF Placed
    <3> QED
      BY <1>1, <1>2, <3>1, PhaseKept
  <2>3. Placed(o.intent, "ACCEPTED") /\ Placed(o.intent, n.status)'
    BY <1>5 DEF Placed
  <2>4. Phase(o.intent) = "working" /\ Phase(o.intent)' \in {"filled", "canceled"}
    BY <1>5, <2>3, PhasesNow DEF PhaseOf
  <2> QED
    BY <2>1, <2>2, <2>4, MoveIsStep DEF Moves
<1>6. ASSUME NEW o \in orders, BrokerFill(o) \/ BrokerCancel(o)
      PROVE  Lifecycle!Next \/ UNCHANGED phase
  <2>1. o \in BrokerOrder
    BY DEF Inv, TypeOK
  <2>2. CASE BrokerFill(o)
    <3>1. PICK n : n = [o EXCEPT !.status = "FILLED", !.filled_at = clock + 1]
      OBVIOUS
    <3>2. n.intent = o.intent /\ n.status = "FILLED"
      BY <2>1, <3>1 DEF BrokerOrder
    <3> QED
      BY <1>5, <2>2, <3>1, <3>2 DEF BrokerFill
  <2>3. CASE BrokerCancel(o)
    <3>1. PICK n : n = [o EXCEPT !.status = "CANCELED"]
      OBVIOUS
    <3>2. n.intent = o.intent /\ n.status = "CANCELED"
      BY <2>1, <3>1 DEF BrokerOrder
    <3> QED
      BY <1>5, <2>3, <3>1, <3>2 DEF BrokerCancel
  <2> QED
    BY <1>6, <2>2, <2>3
<1> QED
  BY <1>3, <1>4, <1>6, WorldOrders

\* Steps of a handler: it approves an intent, records it, or moves none.
LEMMA HandlerMoves ==
  ASSUME Inv, Inv', NEW r \in Requests, Handler(r)
  PROVE  Lifecycle!Next \/ UNCHANGED phase
<1>i. PICK i : i = ctx[r].intent
  OBVIOUS
<1>0. /\ \A j, s : Placed(j, s)' <=> Placed(j, s)
      /\ \A j : Unplaced(j)' <=> Unplaced(j)
  BY HandlerFrame DEF Placed, Unplaced
<1>1. /\ pc[r] \in Active => i \in Intents
      /\ pc[r] \in Submitting => i \in approvals
      /\ pc[r] = "record" => ctx[r].order \in BrokerOrder
  BY <1>i DEF Inv, IndInv, LocalsOK
<1>2. CASE /\ approvals' = approvals
           /\ \A j : HasReady(j)' <=> HasReady(j)
  <2>1. \A j : Phase(j)' = Phase(j)
    BY <1>0, <1>2, PhaseKept
  <2> QED
    BY <2>1 DEF phase
<1>3. ASSUME NEW row, Record(row), row.state # "READY", approvals' = approvals
      PROVE  Lifecycle!Next \/ UNCHANGED phase
  <2>1. \A j : HasReady(j)' <=> HasReady(j)
    BY <1>3 DEF Record, HasReady
  <2> QED
    BY <1>2, <1>3, <2>1
<1>4. CASE UNCHANGED <<approvals, history>>
  BY <1>2, <1>4 DEF HasReady
<1>5. ASSUME i \in Intents,
             \A j \in Intents \ {i} :
                (j \in approvals' <=> j \in approvals) /\ (HasReady(j)' <=> HasReady(j))
      PROVE  \A j \in Intents \ {i} : Phase(j)' = Phase(j)
  BY <1>0, <1>5, PhaseKept
<1>6. CASE PersistApproval(r) /\ approvals' = approvals \cup {i}
  <2>1. i \in Intents /\ history' = history
    BY <1>1, <1>6 DEF PersistApproval, Active
  <2>2. \A j : HasReady(j)' <=> HasReady(j)
    BY <2>1 DEF HasReady
  <2>3. \A j \in Intents \ {i} : Phase(j)' = Phase(j)
    BY <1>5, <1>6, <2>1, <2>2
  <2>4. Phase(i)' = Phase(i) \/ (Phase(i) = "proposed" /\ Phase(i)' = "approved")
    BY <1>0, <1>6, <2>2, PhasesNow DEF PhaseOf
  <2> QED
    BY <2>1, <2>3, <2>4, MoveIsStep DEF Moves
<1>7. CASE RecordIntent(r)
  <2>1. CASE UNCHANGED history
    BY <1>4, <1>7, <2>1 DEF RecordIntent
  <2>2. CASE Record([intent |-> ctx[r].intent, state |-> "READY", at |-> clock + 1])
    <3>1. i \in Intents /\ i \in approvals /\ approvals' = approvals
      BY <1>1, <1>7 DEF RecordIntent, Active, Submitting
    <3>2. HasReady(i)' /\ \A j \in Intents \ {i} : HasReady(j)' <=> HasReady(j)
      <4>1. PICK row : row = [intent |-> ctx[r].intent, state |-> "READY",
                              at |-> clock + 1]
        OBVIOUS
      <4>2. row.intent = i /\ row.state = "READY"
        BY <1>i, <4>1
      <4>3. history' = history \cup {row}
        BY <2>2, <4>1 DEF Record
      <4> QED
        BY <4>2, <4>3 DEF HasReady
    <3>3. \A j \in Intents \ {i} : Phase(j)' = Phase(j)
      BY <1>5, <3>1, <3>2
    <3>4. Phase(i)' = Phase(i) \/ (Phase(i) = "approved" /\ Phase(i)' = "recorded")
      BY <1>0, <3>1, <3>2, PhasesNow DEF PhaseOf
    <3> QED
      BY <3>1, <3>3, <3>4, MoveIsStep DEF Moves
  <2> QED
    BY <1>7, <2>1, <2>2 DEF RecordIntent
<1>8. CASE RecordOrder(r)
  <2>1. OrderState(ctx[r].order) \in BrokerStates
    BY <1>1, <1>8 DEF RecordOrder, OrderState, BrokerOrder
  <2> QED
    BY <1>3, <1>8, <2>1 DEF RecordOrder, BrokerStates
<1>9. CASE RecordFailed(r)
  BY <1>3, <1>4, <1>9 DEF RecordFailed
<1>10. CASE PersistApproval(r) /\ UNCHANGED approvals
  BY <1>4, <1>10 DEF PersistApproval
<1>11. CASE StartRequest(r) \/ Preview(r) \/ Die(r)
  BY <1>4, <1>11 DEF StartRequest, Preview, Die, ReadPositions, ReadOrders, ReadBroker,
                     ReadReports, ReadReview, Decide, Refuse
<1>12. CASE SendOrder(r) \/ HearAccepted(r) \/ HearFailure(r) \/ Reconcile(r)
            \/ LoseOrderRecord(r)
  BY <1>4, <1>12 DEF SendOrder, HearAccepted, HearFailure, Reconcile, LoseOrderRecord
<1>13. PersistApproval(r) => approvals' = approvals \cup {i} \/ UNCHANGED approvals
  BY <1>i DEF PersistApproval
<1> QED
  BY <1>6, <1>7, <1>8, <1>9, <1>10, <1>11, <1>12, <1>13 DEF Handler, Handle, Submit

\* Initially every intent is proposed.
LEMMA PhaseInit == Init => Lifecycle!Init
<1> SUFFICES ASSUME Init
             PROVE  phase = [i \in Intents |-> "proposed"]
  BY DEF Lifecycle!Init, phase
<1>1. Inv
  BY InitInv
<1>2. \A i : Unplaced(i) /\ ~HasReady(i) /\ i \notin approvals
  BY DEF Init, Unplaced, HasReady
<1> QED
  BY <1>1, <1>2, PhaseIs DEF PhasesOK, PhaseOf, phase

\* Every step is an abstract step or stutters.
LEMMA PhaseStep == Inv /\ Inv' /\ [Next]_vars => [Lifecycle!Next]_phase
<1> SUFFICES ASSUME Inv, Inv', [Next]_vars
             PROVE  Lifecycle!Next \/ UNCHANGED phase
  OBVIOUS
<1>1. CASE Next
  BY <1>1, BrokerMoves, HandlerMoves, NextCases
<1>2. CASE UNCHANGED vars
  <2>1. \A i : Phase(i)' = Phase(i)
    BY <1>2, PhaseKept DEF vars, brokerVars, Placed, HasReady
  <2> QED
    BY <2>1 DEF phase
<1> QED
  BY <1>1, <1>2

\* Every behaviour of the handlers, the stores and the broker is one of the
\* abstract life of order intents.
THEOREM Refinement == Spec => ImplementsLifecycle
<1>1. Init => Lifecycle!Init
  BY PhaseInit
<1>2. Inv /\ Inv' /\ [Next]_vars => [Lifecycle!Next]_phase
  BY PhaseStep
<1>3. Spec => []Inv
  BY Invariance
<1> QED
  BY <1>1, <1>2, <1>3, PTL DEF Spec, ImplementsLifecycle, Lifecycle!Spec, phase

-------------------------------------------------------------------------------
(* The length of a request. *)

\* The reads of the preview.
LEMMA PreviewIsNearer ==
  ASSUME Inv, NEW r \in Requests, Preview(r)
  PROVE  pc'[r] \notin Active \/ Ahead(r)' < Ahead(r)
<1>0. /\ pc \in [Requests -> {"idle"} \cup Active \cup Outcomes]
      /\ ctx \in [Requests -> Context]
  BY DEF Inv, TypeOK
<1>1. ASSUME NEW part \in {"positions", "orders"}, NEW b \in BOOLEAN, ReadBroker(r, part, b)
      PROVE  Ahead(r)' < Ahead(r)
  <2>1. pc[r] = "snapshot" /\ ctx'[r].read # {}
    BY <1>0, <1>1 DEF ReadBroker, Context
  <2>2. CASE ctx[r].read = {}
    <3>1. pc'[r] = "snapshot"
      BY <1>1, <2>1, <2>2 DEF ReadBroker
    <3> QED BY <2>1, <2>2, <3>1 DEF Ahead, Ordered
  <2>3. CASE ctx[r].read # {}
    <3>1. pc'[r] = "reports"
      BY <1>0, <1>1, <2>3 DEF ReadBroker, Goto
    <3> QED BY <2>1, <2>3, <3>1 DEF Ahead, Ordered
  <2> QED BY <2>2, <2>3
<1>2. CASE ReadPositions(r) \/ ReadOrders(r)
  BY <1>1, <1>2 DEF ReadPositions, ReadOrders
<1>3. CASE ReadReports(r)
  <2>1. pc[r] = "reports" /\ pc'[r] = "review"
    BY <1>0, <1>3 DEF ReadReports, Goto
  <2> QED BY <2>1 DEF Ahead, Ordered
<1>4. CASE ReadReview(r)
  <2>1. pc[r] = "review" /\ pc'[r] = "audit"
    BY <1>0, <1>4 DEF ReadReview, Goto
  <2> QED BY <2>1 DEF Ahead, Ordered
<1>5. CASE Decide(r)
  <2>1. pc[r] = "audit" /\ pc'[r] \in {"approve", "intent"}
    BY <1>0, <1>5 DEF Decide, Goto
  <2> QED BY <2>1 DEF Ahead, Ordered
<1>6. CASE Refuse(r)
  BY <1>0, <1>6 DEF Refuse, Return, Goto, Active, Reading, Submitting
<1> QED
  BY <1>2, <1>3, <1>4, <1>5, <1>6 DEF Preview

\* The writes and the calls of the submission.
LEMMA SubmitIsNearer ==
  ASSUME Inv, NEW r \in Requests, PersistApproval(r) \/ Submit(r) \/ Die(r)
  PROVE  pc'[r] \notin Active \/ Ahead(r)' < Ahead(r)
<1>0. pc \in [Requests -> {"idle"} \cup Active \cup Outcomes]
  BY DEF Inv, TypeOK
<1>1. ASSUME NEW outcome \in {"idle"} \cup Outcomes, Return(r, outcome)
      PROVE  pc'[r] \notin Active
  BY <1>0, <1>1 DEF Return, Goto, Active, Reading, Submitting, Outcomes
<1>2. CASE PersistApproval(r) \/ RecordOrder(r) \/ LoseOrderRecord(r) \/ RecordFailed(r) \/ Die(r)
  <2>1. \E outcome \in {"idle"} \cup Outcomes : Return(r, outcome)
    BY <1>2 DEF PersistApproval, RecordOrder, LoseOrderRecord, RecordFailed, Die, Outcomes
  <2> QED BY <1>1, <2>1
<1>3. CASE RecordIntent(r)
  <2>1. CASE Return(r, "idle")
    BY <1>1, <2>1
  <2>2. CASE ~Return(r, "idle")
    <3>1. pc[r] = "intent" /\ pc'[r] = "send"
      BY <1>0, <1>3, <2>2 DEF RecordIntent, Goto
    <3> QED BY <3>1 DEF Ahead, Ordered
  <2> QED BY <2>1, <2>2
<1>4. CASE SendOrder(r)
  <2>1. pc[r] = "send" /\ pc'[r] = "await"
    BY <1>0, <1>4 DEF SendOrder, Goto
  <2> QED BY <2>1 DEF Ahead, Ordered
<1>5. CASE HearAccepted(r) \/ HearFailure(r)
  <2>1. pc[r] = "await" /\ pc'[r] \in {"reconcile", "record_failed"}
    BY <1>0, <1>5 DEF HearAccepted, HearFailure, Goto
  <2> QED BY <2>1 DEF Ahead, Ordered
<1>6. CASE Reconcile(r)
  <2>1. pc[r] = "reconcile" /\ pc'[r] = "record"
    BY <1>0, <1>6 DEF Reconcile, Goto
  <2> QED BY <2>1 DEF Ahead, Ordered
<1> QED
  BY <1>2, <1>3, <1>4, <1>5, <1>6 DEF Submit

\* A request is finite: each of its steps answers it or leaves fewer awaits
\* ahead, whatever the other requests, the broker and the operator do between.
\* EveryRequestReturns adds that every await ends.
THEOREM RequestsAreFinite == Spec => RequestsRunDown
<1> DEFINE Down ==
    \A r \in Requests : pc[r] \in Active =>
          IF Handle(r) \/ Die(r)
          THEN pc'[r] \notin Active \/ Ahead(r)' < Ahead(r)
          ELSE pc'[r] = pc[r] /\ ctx'[r] = ctx[r]
<1>1. ASSUME Inv, [Next]_vars PROVE [Down]_vars
  <2> SUFFICES ASSUME Next, NEW r \in Requests, pc[r] \in Active, ~(Handle(r) \/ Die(r))
               PROVE  pc'[r] = pc[r] /\ ctx'[r] = ctx[r]
    BY <1>1, PreviewIsNearer, SubmitIsNearer DEF Handle
  <2>1. CASE World
    BY <2>1, WorldFrame
  <2>2. ~Handler(r)
    BY DEF Handler, StartRequest, Active, Reading, Submitting
  <2>3. ASSUME NEW s \in Requests \ {r}, Handler(s)
        PROVE  pc'[r] = pc[r] /\ ctx'[r] = ctx[r]
    BY <1>1, <2>3, HandlerFrame
  <2> QED BY <2>1, <2>2, <2>3, NextCases
<1>2. Spec => [][Down]_vars
  BY Invariance, <1>1, PTL DEF Spec
<1> QED BY <1>2 DEF RequestsRunDown
===============================================================================
