------------------------- MODULE PaperManifestProofs -------------------------
(***************************************************************************)
(* Theorems about PaperManifest, for any reports, policies, manifests and  *)
(* bounds.                                                                 *)
(***************************************************************************)
EXTENDS PaperManifest, TLAPS

-------------------------------------------------------------------------------
(* What a preview offers. *)

\* A report of the current cycle makes an intent.
LEMMA IntentType ==
  ASSUME NEW x, x.terms \in Terms, NEW k \in Keys
  PROVE  IntentOf(x, k) \in Intents
BY DEF IntentOf, Intents

\* The rows of a preview are intents.
LEMMA PreviewType ==
  ASSUME NEW x, x.terms \in Terms
  PROVE  Plan(x) \subseteq Intents /\ ReadyRows(x) \subseteq Intents
<1>1. \A k \in CycleKeys : IntentOf(x, k) \in Intents
  BY IntentType DEF CycleKeys
<1> QED
  BY <1>1 DEF Plan, ReadyRows

\* Two keys of one cycle and one ticker are the same report.
LEMMA OneKeyPerTicker ==
  ASSUME NEW k \in CycleKeys, NEW l \in CycleKeys,
         ReportOf(k).ticker = ReportOf(l).ticker
  PROVE  k = l
<1>1. PICK c \in Cycles : k \in {[cycle |-> c, place |-> n] : n \in DOMAIN Reports[c]}
  BY DEF CycleKeys, Keys
<1>2. PICK d \in Cycles : l \in {[cycle |-> d, place |-> n] : n \in DOMAIN Reports[d]}
  BY DEF CycleKeys, Keys
<1>3. PICK a \in DOMAIN Reports[c] : k = [cycle |-> c, place |-> a]
  BY <1>1
<1>4. PICK b \in DOMAIN Reports[d] : l = [cycle |-> d, place |-> b]
  BY <1>2
<1>5. c = cycle /\ d = cycle
  BY <1>3, <1>4 DEF CycleKeys
<1>6. Reports[c][a].ticker = Reports[c][b].ticker
  BY <1>3, <1>4, <1>5 DEF ReportOf
<1>7. a = b
  BY <1>5, <1>6, ReportsAssumption DEF Distinct
<1> QED
  BY <1>3, <1>4, <1>5, <1>7

\* Of all that a preview accounts for, a row it offers has its ticker to
\* itself: nothing the broker was seen to carry, and no other planned row.
LEMMA OfferedIsLone ==
  ASSUME NEW x, NEW i \in ReadyRows(x)
  PROVE  Lone(x.positions \cup x.orders \cup Plan(x), i)
<1>1. PICK k \in CycleKeys : Flat(x, k) /\ i = IntentOf(x, k)
  BY DEF ReadyRows
<1>2. SUFFICES ASSUME NEW j \in x.positions \cup x.orders \cup Plan(x),
                      Ticker(j) = Ticker(i)
               PROVE  j = i
  BY DEF Lone
<1>3. Ticker(i) = ReportOf(k).ticker
  BY <1>1 DEF Ticker, IntentOf
<1>4. j \in Plan(x)
  BY <1>1, <1>2, <1>3 DEF Flat
<1>5. PICK l \in CycleKeys : j = IntentOf(x, l)
  BY <1>4 DEF Plan
<1>6. Ticker(j) = ReportOf(l).ticker
  BY <1>5 DEF Ticker, IntentOf
<1>7. l = k
  BY <1>2, <1>3, <1>6, OneKeyPerTicker
<1> QED
  BY <1>1, <1>5, <1>7

-------------------------------------------------------------------------------
(* Type correctness. *)

\* The lists of a manifest always have an answer.
LEMMA AnswerType ==
  ASSUME NEW x, x.rejected \in BOOLEAN, x.pending \in BOOLEAN
  PROVE  Answer(x) \in Answers
<1>1. CASE x.pending /\ ~x.rejected
  BY <1>1 DEF Answer, Answers
<1>2. CASE x.rejected /\ x.accepted # {}
  BY <1>2 DEF Answer, Answers
<1>3. CASE x.rejected /\ x.accepted = {}
  BY <1>3 DEF Answer, Answers
<1>4. CASE ~x.pending /\ ~x.rejected
  BY <1>4 DEF Answer, Answers
<1> QED
  BY <1>1, <1>2, <1>3, <1>4

\* A step from a well typed state leads to one.
LEMMA TypeStep ==
  ASSUME TypeOK, [Next]_vars
  PROVE  TypeOK'
<1>0. EmptyContext \in Context
  BY DEF EmptyContext, Context
<1>1. CASE Refresh
  BY <1>1 DEF TypeOK, Refresh, brokerVars
<1>2. CASE Broker
  <2>1. ASSUME NEW w \in wire, BrokerTake(w) PROVE TypeOK'
    <3>1. w.intent \in Intents /\ w.manifest \in Manifests
      BY <2>1 DEF TypeOK, Message
    <3> QED
      BY <2>1, <3>1 DEF TypeOK, BrokerTake, inputVars, BrokerStates
  <2>2. ASSUME NEW w \in wire, BrokerRefuse(w) PROVE TypeOK'
    <3>1. w.manifest \in Manifests
      BY <2>2 DEF TypeOK, Message
    <3> QED
      BY <2>2, <3>1 DEF TypeOK, BrokerRefuse, inputVars, brokerVars
  <2>3. ASSUME NEW i \in Intents, BrokerMove(i) PROVE TypeOK'
    BY <2>3 DEF TypeOK, BrokerMove, inputVars, BrokerStates
  <2> QED
    BY <1>2, <2>1, <2>2, <2>3 DEF Broker
<1>3. ASSUME NEW m \in Manifests, Handle(m) \/ Die(m)
      PROVE  TypeOK'
  <2>0. ctx[m] \in Context /\ pc[m] \in Active \cup Ended
    BY DEF TypeOK
  <2>2. CASE ReadPositions(m)
    <3>1. [ctx[m] EXCEPT !.positions = HeldNow, !.read = @ \cup {"positions"}] \in Context
      BY <2>0 DEF Context, HeldNow
    <3>2. ctx' = [ctx EXCEPT ![m] =
              [ctx[m] EXCEPT !.positions = HeldNow, !.read = @ \cup {"positions"}]]
      BY <2>2 DEF ReadPositions, TypeOK
    <3> QED
      BY <2>2, <3>1, <3>2 DEF TypeOK, ReadPositions, inputVars, brokerVars
  <2>3. CASE ReadOrders(m)
    <3>1. [ctx[m] EXCEPT !.orders = OpenNow, !.read = @ \cup {"orders"}] \in Context
      BY <2>0 DEF Context, OpenNow
    <3>2. ctx' = [ctx EXCEPT ![m] =
              [ctx[m] EXCEPT !.orders = OpenNow, !.read = @ \cup {"orders"}]]
      BY <2>3 DEF ReadOrders, TypeOK
    <3> QED
      BY <2>3, <3>1, <3>2 DEF TypeOK, ReadOrders, inputVars, brokerVars
  <2>4. CASE BuildPreview(m)
    <3>1. PICK terms \in Terms, cleared \in SUBSET WatchKeys :
             ctx' = [ctx EXCEPT ![m] = [EmptyContext EXCEPT
                !.known = Built(m, terms, cleared).positions
                          \cup Built(m, terms, cleared).orders
                          \cup Plan(Built(m, terms, cleared)),
                !.enabled = ReadyRows(Built(m, terms, cleared))]]
      BY <2>4 DEF BuildPreview
    <3> DEFINE x == Built(m, terms, cleared)
    <3>2. x.positions \subseteq Intents /\ x.orders \subseteq Intents
      BY <2>0 DEF Built, Context
    <3>3. x.terms \in Terms
      BY DEF Built
    <3>4. /\ x.positions \cup x.orders \cup Plan(x) \in SUBSET Intents
          /\ ReadyRows(x) \in SUBSET Intents
      BY <3>2, <3>3, PreviewType
    <3> HIDE DEF x
    <3>5. [EmptyContext EXCEPT !.known = x.positions \cup x.orders \cup Plan(x),
              !.enabled = ReadyRows(x)] \in Context
      BY <3>4 DEF EmptyContext, Context
    <3>6. ctx' \in [Manifests -> Context]
      BY <3>1, <3>5 DEF TypeOK, x
    <3>7. doubted' \subseteq Keys
      BY <2>4 DEF TypeOK, BuildPreview, CleanBuys
    <3> QED
      BY <2>4, <3>6, <3>7 DEF TypeOK, BuildPreview, Goto, Active, brokerVars
  <2>5. CASE AbortManifest(m)
    BY <1>0, <2>5 DEF TypeOK, AbortManifest, Goto, Ended, inputVars, brokerVars
  <2>6. CASE RefuseRow(m)
    <3>0. ctx[m].count + 1 \in Nat
      BY <2>0 DEF Context
    <3>1. [ctx[m] EXCEPT !.count = @ + 1, !.rejected = TRUE] \in Context
      <4> DEFINE n == ctx[m].count + 1
      <4>1. n \in Nat
        BY <3>0
      <4> HIDE DEF n
      <4>2. [ctx[m] EXCEPT !.count = n, !.rejected = TRUE] \in Context
        BY <2>0, <4>1 DEF Context
      <4> QED
        BY <4>2 DEF n
    <3>2. ctx' = [ctx EXCEPT ![m] = [ctx[m] EXCEPT !.count = @ + 1, !.rejected = TRUE]]
      BY <2>6 DEF RefuseRow, TypeOK
    <3> QED
      BY <2>6, <3>1, <3>2 DEF TypeOK, RefuseRow, NextRow, inputVars, brokerVars
  <2>7. CASE SendRow(m)
    <3>1. PICK i \in ctx[m].enabled :
            /\ ready' = ready \cup {i}
            /\ wire' = wire \cup {[manifest |-> m, intent |-> i, known |-> ctx[m].known]}
            /\ ctx' = [ctx EXCEPT ![m].count = @ + 1, ![m].row = i]
      BY <2>7 DEF SendRow
    <3>2. i \in Intents /\ ctx[m].known \in SUBSET Intents
      BY <2>0 DEF Context
    <3>3. [ctx[m] EXCEPT !.count = @ + 1, !.row = i] \in Context
      <4> DEFINE n == ctx[m].count + 1
      <4>1. n \in Nat
        BY <2>0 DEF Context
      <4> HIDE DEF n
      <4>2. [ctx[m] EXCEPT !.count = n, !.row = i] \in Context
        BY <2>0, <3>2, <4>1 DEF Context
      <4> QED
        BY <4>2 DEF n
    <3>4. ctx' = [ctx EXCEPT ![m] = [ctx[m] EXCEPT !.count = @ + 1, !.row = i]]
      BY <3>1 DEF TypeOK
    <3>5. wire' \subseteq Message /\ ready' \subseteq Intents
      BY <3>1, <3>2 DEF TypeOK, Message
    <3>6. ctx'[m].row = i /\ \A n \in Manifests \ {m} : ctx'[n] = ctx[n]
      BY <2>0, <3>4 DEF TypeOK, Context
    <3>7. pc' = [pc EXCEPT ![m] = "await"]
      BY <2>7 DEF SendRow, Goto
    <3>8. UNCHANGED <<inputVars, brokerVars, reply>>
      BY <2>7 DEF SendRow
    <3> QED
      BY <3>2, <3>3, <3>4, <3>5, <3>6, <3>7, <3>8 DEF TypeOK, Active, inputVars, brokerVars
  <2>8. CASE HearAccepted(m) \/ HearFailure(m)
    <3>1. PICK accepted \in SUBSET Intents, rejected \in BOOLEAN,
               unheard \in SUBSET Intents, pending \in BOOLEAN :
            RowDone(m, accepted, rejected, unheard, pending)
      <4>1. ctx[m].row \in Intents
        BY <2>8 DEF HearAccepted, HearFailure, TypeOK
      <4> QED
        BY <2>8, <4>1 DEF HearAccepted, HearFailure
    <3> DEFINE y == [ctx[m] EXCEPT !.row = None, !.accepted = @ \cup accepted,
                        !.rejected = @ \/ rejected, !.unheard = @ \cup unheard,
                        !.pending = @ \/ pending]
    <3>2. y \in Context
      BY <2>0 DEF Context
    <3>3. ctx' = [ctx EXCEPT ![m] = y]
      BY <3>1 DEF RowDone, TypeOK
    <3>4. pc' = [pc EXCEPT ![m] = "rows"] /\ reply' = [reply EXCEPT ![m] = "none"]
      BY <3>1 DEF RowDone, Goto
    <3>5. UNCHANGED <<inputVars, ready, brokerVars, wire>>
      BY <2>8 DEF HearAccepted, HearFailure
    <3> HIDE DEF y
    <3> QED
      BY <3>2, <3>3, <3>4, <3>5 DEF TypeOK, Active, inputVars, brokerVars
  <2>9. CASE FinishManifest(m)
    <3>1. [EmptyContext EXCEPT !.accepted = ctx[m].accepted, !.unheard = ctx[m].unheard]
            \in Context
      BY <2>0 DEF EmptyContext, Context
    <3>2. Answer(ctx[m]) \in Answers
      <4>1. ctx[m].rejected \in BOOLEAN /\ ctx[m].pending \in BOOLEAN
        BY <2>0 DEF Context
      <4> QED
        BY <4>1, AnswerType
    <3>3. Answer(ctx[m]) # "await"
      BY <3>2 DEF Answers
    <3> QED
      BY <2>9, <3>1, <3>2, <3>3 DEF TypeOK, FinishManifest, Goto, Ended, inputVars, brokerVars
  <2>10. CASE Die(m)
    BY <1>0, <2>10 DEF TypeOK, Die, Goto, Ended, inputVars, brokerVars
  <2> QED
    BY <1>3, <2>2, <2>3, <2>4, <2>5, <2>6, <2>7, <2>8, <2>9, <2>10 DEF Handle
<1>4. CASE UNCHANGED vars
  BY <1>4 DEF TypeOK, vars, inputVars, brokerVars
<1> QED
  BY <1>1, <1>2, <1>3, <1>4 DEF Next

\* Every state of every behaviour is well typed.
THEOREM TypeCorrect == Spec => []TypeOK
<1>1. Init => TypeOK
  <2> SUFFICES ASSUME Init PROVE TypeOK
    OBVIOUS
  <2>1. EmptyContext \in Context
    BY DEF EmptyContext, Context
  <2>2. cycle \in Cycles
    BY BoundsAssumption DEF Init, Cycles
  <2> QED
    BY <2>1, <2>2 DEF Init, TypeOK, BrokerStates, Active
<1> QED
  BY <1>1, TypeStep, PTL DEF Spec

-------------------------------------------------------------------------------
(* The inductive invariant: the world around the manifests. *)

\* The inductive invariant holds initially.
LEMMA InitInd == Init => IndInv
<1> SUFFICES ASSUME Init PROVE IndInv
  OBVIOUS
<1>1. /\ wire = {} /\ ready = {}
      /\ \A i \in Intents : status[i] = "none" /\ by[i] = None
      /\ \A m \in Manifests : pc[m] = "snapshot" /\ ctx[m] = EmptyContext /\ reply[m] = "none"
  BY DEF Init
<1>2. /\ EmptyContext.enabled = {} /\ EmptyContext.accepted = {}
  BY DEF EmptyContext
<1>3. OrdersAreOnRecord /\ OneExposurePerTicker /\ PlacedOK
  BY <1>1 DEF OrdersAreOnRecord, OneExposurePerTicker, PlacedOK, Exposed, HeldNow, OpenNow
<1>4. ContextsOK /\ WireOK /\ RepliesOK /\ RequestsListed
  BY <1>1, <1>2 DEF ContextsOK, WireOK, RepliesOK, RequestsListed
<1>5. OrdersListed
  BY <1>1, NoneAssumption DEF OrdersListed
<1>6. ListsOK /\ AcceptedIsPlaced
  BY <1>1, <1>2 DEF ListsOK, ListsHold, AcceptedIsPlaced, PlacedByIt
<1> QED
  BY <1>3, <1>4, <1>5, <1>6 DEF IndInv

\* A broker that takes an order: the one step that adds exposure.  If the
\* order is not blind, everything carried was accounted for when its row was
\* offered, and the row had its ticker to itself.
LEMMA BrokerTakeInd ==
  ASSUME TypeOK, IndInv, NEW w \in wire, BrokerTake(w)
  PROVE  IndInv'
<1> DEFINE i == w.intent
           m == w.manifest
<1>0. i \in Intents /\ m \in Manifests
  BY DEF TypeOK, Message
<1>1. /\ status[i] = "none"
      /\ status' = [status EXCEPT ![i] = "open"]
      /\ by' = [by EXCEPT ![i] = m]
      /\ wire' = wire \ {w}
      /\ UNCHANGED <<ready, pc, ctx>>
  BY DEF BrokerTake
<1>2. /\ status'[i] = "open" /\ by'[i] = m
      /\ \A j \in Intents : j # i => status'[j] = status[j] /\ by'[j] = by[j]
  BY <1>0, <1>1 DEF TypeOK
<1>3. /\ Waits(w) => reply'[m] = "accepted"
      /\ ~Waits(w) => reply' = reply
      /\ \A n \in Manifests : n # m => reply'[n] = reply[n]
  BY <1>0 DEF BrokerTake, TypeOK
<1>4. i \in ready /\ Lone(w.known, i)
  BY DEF IndInv, WireOK
<1>5. by[i] = None
  BY <1>0, <1>1 DEF IndInv, PlacedOK
<1> HIDE DEF i, m
<1>6. OrdersAreOnRecord'
  BY <1>1, <1>2, <1>4 DEF IndInv, OrdersAreOnRecord
<1>7. OneExposurePerTicker'
  <2>1. Exposed' = Exposed \cup {i}
    BY <1>0, <1>2 DEF Exposed, HeldNow, OpenNow
  <2>2. blind \subseteq blind' /\ (Exposed \subseteq w.known \/ i \in blind')
    BY DEF BrokerTake, i
  <2>3. SUFFICES ASSUME NEW j \in Exposed', NEW k \in Exposed', Ticker(j) = Ticker(k), j # k
                 PROVE  j \in blind' \/ k \in blind'
    BY DEF OneExposurePerTicker
  <2>4. CASE j \in Exposed /\ k \in Exposed
    BY <2>2, <2>3, <2>4 DEF IndInv, OneExposurePerTicker
  <2>5. CASE j = i /\ k \in Exposed
    BY <1>4, <2>2, <2>3, <2>5 DEF Lone
  <2>6. CASE k = i /\ j \in Exposed
    BY <1>4, <2>2, <2>3, <2>6 DEF Lone
  <2> QED
    BY <2>1, <2>3, <2>4, <2>5, <2>6
<1>8. ContextsOK'
  BY <1>1 DEF IndInv, ContextsOK
<1>9. WireOK'
  BY <1>1 DEF IndInv, WireOK
<1>10. RepliesOK'
  BY <1>1, <1>3 DEF IndInv, RepliesOK, Waits, m
<1>11. PlacedOK'
  BY <1>0, <1>1, <1>2, NoneAssumption DEF IndInv, PlacedOK
<1>12. ListsOK'
  BY <1>1 DEF IndInv, ListsOK, ListsHold
<1>13. OrdersListed'
  <2>1. SUFFICES ASSUME NEW n \in Manifests, NEW j \in Intents, by'[j] = n
                 PROVE  OrderListed(n, j)'
    BY <1>1 DEF OrdersListed
  <2>2. CASE j = i
    <3>1. n = m
      BY <1>2, <2>1, <2>2
    <3>2. RequestListed(m, i)
      BY DEF IndInv, RequestsListed, i, m
    <3> QED
      BY <1>1, <1>3, <2>2, <3>1, <3>2 DEF RequestListed, OrderListed, Waits, Answers, i, m
  <2>3. CASE j # i
    <3>1. by[j] = n
      BY <1>2, <2>1, <2>3
    <3>2. OrderListed(n, j)
      BY <3>1 DEF IndInv, OrdersListed
    <3>3. reply[n] = "accepted" => reply'[n] = "accepted"
      BY <1>3
    <3> QED
      BY <1>1, <3>2, <3>3 DEF OrderListed
  <2> QED
    BY <2>2, <2>3
<1>14. RequestsListed'
  <2>1. SUFFICES ASSUME NEW v \in wire, v # w
                 PROVE  RequestListed(v.manifest, v.intent)'
    BY <1>1 DEF RequestsListed
  <2> DEFINE n == v.manifest
  <2>2. n \in Manifests
    BY DEF TypeOK, Message
  <2>3. RequestListed(n, v.intent)
    BY DEF IndInv, RequestsListed
  <2>4. CASE reply'[n] = reply[n]
    BY <1>1, <2>3, <2>4 DEF RequestListed
  <2>5. CASE n = m /\ Waits(w)
    <3>1. pc[n] = "await" /\ ctx[n].row = i
      BY <2>5 DEF Waits, i, m
    <3>2. v.intent # ctx[n].row
      <4>1. v.known = ctx[n].known /\ w.known = ctx[n].known
        BY <2>5, <3>1 DEF IndInv, WireOK, m
      <4>2. v = [manifest |-> v.manifest, intent |-> v.intent, known |-> v.known]
        BY DEF TypeOK, Message
      <4>3. w = [manifest |-> w.manifest, intent |-> w.intent, known |-> w.known]
        BY DEF TypeOK, Message
      <4> QED
        BY <2>1, <2>5, <3>1, <4>1, <4>2, <4>3 DEF i, m
    <3> QED
      BY <1>1, <2>3, <3>1, <3>2 DEF RequestListed, Answers
  <2> QED
    BY <1>3, <2>2, <2>4, <2>5
<1>15. AcceptedIsPlaced'
  <2>1. SUFFICES ASSUME NEW n \in Manifests
                 PROVE  PlacedByIt(n)'
    BY DEF AcceptedIsPlaced
  <2> USE <1>1 DEF PlacedByIt
  <2>2. \A j \in Intents : by[j] = n => by'[j] = n
    BY <1>2, <1>5, <2>1, NoneAssumption
  <2>3. ctx[n].accepted \subseteq Intents
    BY DEF TypeOK, Context
  <2>4. pc[n] = "await" => ctx[n].row \in Intents
    BY DEF TypeOK
  <2>5. CASE reply'[n] = reply[n]
    BY <2>2, <2>3, <2>4, <2>5 DEF IndInv, AcceptedIsPlaced
  <2>6. CASE n = m /\ Waits(w)
    <3>1. ctx[n].row = i
      BY <2>6 DEF Waits, i, m
    <3> QED
      BY <1>2, <2>2, <2>3, <2>6, <3>1 DEF IndInv, AcceptedIsPlaced
  <2> QED
    BY <1>3, <2>5, <2>6
<1> QED
  BY <1>6, <1>7, <1>8, <1>9, <1>10, <1>11, <1>12, <1>13, <1>14, <1>15 DEF IndInv

\* A broker that refuses tells the manifest, if the manifest still waits.
LEMMA BrokerRefuseInd ==
  ASSUME TypeOK, IndInv, NEW w \in wire, BrokerRefuse(w)
  PROVE  IndInv'
<1> DEFINE m == w.manifest
<1>0. m \in Manifests
  BY DEF TypeOK, Message
<1>1. /\ wire' = wire \ {w}
      /\ UNCHANGED <<ready, status, blind, by, pc, ctx>>
  BY DEF BrokerRefuse, brokerVars
<1>2. /\ Waits(w) => reply'[m] = "rejected"
      /\ ~Waits(w) => reply' = reply
      /\ \A n \in Manifests : n # m => reply'[n] = reply[n]
  BY <1>0 DEF BrokerRefuse, TypeOK
<1> HIDE DEF m
<1>3. OrdersAreOnRecord' /\ PlacedOK' /\ ContextsOK' /\ ListsOK'
  BY <1>1 DEF IndInv, OrdersAreOnRecord, PlacedOK, ContextsOK,
              ListsOK, ListsHold
<1>4. OneExposurePerTicker'
  BY <1>1 DEF IndInv, OneExposurePerTicker, Exposed, HeldNow, OpenNow
<1>5. WireOK'
  BY <1>1 DEF IndInv, WireOK
<1>6. RepliesOK'
  BY <1>1, <1>2 DEF IndInv, RepliesOK, Waits, m
<1>7. OrdersListed'
  <2>1. SUFFICES ASSUME NEW n \in Manifests, NEW j \in Intents, by[j] = n
                 PROVE  OrderListed(n, j)'
    BY <1>1 DEF OrdersListed
  <2>2. OrderListed(n, j)
    BY <2>1 DEF IndInv, OrdersListed
  <2>3. CASE reply'[n] = reply[n]
    BY <1>1, <2>2, <2>3 DEF OrderListed
  <2>4. CASE n = m /\ Waits(w)
    <3>1. pc[m] = "await" /\ ctx[m].row = w.intent
      BY <2>4 DEF Waits, m
    <3>2. w.intent \in ctx[m].unheard \/ reply[m] = "none"
      BY <3>1 DEF IndInv, RequestsListed, RequestListed, Answers, m
    <3> QED
      BY <1>1, <2>2, <2>4, <3>1, <3>2 DEF OrderListed, Answers
  <2> QED
    BY <1>2, <2>3, <2>4
<1>8. RequestsListed'
  <2>1. SUFFICES ASSUME NEW v \in wire, v # w
                 PROVE  RequestListed(v.manifest, v.intent)'
    BY <1>1 DEF RequestsListed
  <2> DEFINE n == v.manifest
  <2>2. n \in Manifests
    BY DEF TypeOK, Message
  <2>3. RequestListed(n, v.intent)
    BY DEF IndInv, RequestsListed
  <2>4. CASE reply'[n] = reply[n]
    BY <1>1, <2>3, <2>4 DEF RequestListed
  <2>5. CASE n = m /\ Waits(w)
    <3>1. pc[n] = "await" /\ ctx[n].row = w.intent
      BY <2>5 DEF Waits, m
    <3>2. v.intent # ctx[n].row
      <4>1. v.known = ctx[n].known /\ w.known = ctx[n].known
        BY <2>5, <3>1 DEF IndInv, WireOK, m
      <4>2. v = [manifest |-> v.manifest, intent |-> v.intent, known |-> v.known]
        BY DEF TypeOK, Message
      <4>3. w = [manifest |-> w.manifest, intent |-> w.intent, known |-> w.known]
        BY DEF TypeOK, Message
      <4> QED
        BY <2>1, <2>5, <3>1, <4>1, <4>2, <4>3 DEF m
    <3> QED
      BY <1>1, <2>3, <3>1, <3>2 DEF RequestListed, Answers
  <2> QED
    BY <1>2, <2>2, <2>4, <2>5
<1>9. AcceptedIsPlaced'
  <2>1. \A n \in Manifests : reply'[n] = "accepted" => reply[n] = "accepted"
    BY <1>2
  <2> QED
    BY <1>1, <2>1 DEF IndInv, AcceptedIsPlaced, PlacedByIt
<1> QED
  BY <1>3, <1>4, <1>5, <1>6, <1>7, <1>8, <1>9 DEF IndInv

\* Fills, cancels, sales and a new cycle.
LEMMA WorldInd ==
  ASSUME TypeOK, IndInv, Refresh \/ \E i \in Intents : BrokerMove(i)
  PROVE  IndInv'
<1>1. UNCHANGED <<ready, blind, by, wire, reply, pc, ctx>>
  BY DEF Refresh, BrokerMove, brokerVars
<1>2. /\ \A j \in Intents : status'[j] = "none" <=> status[j] = "none"
      /\ Exposed' \subseteq Exposed
  <2>1. CASE Refresh
    BY <2>1 DEF Refresh, brokerVars, Exposed, HeldNow, OpenNow
  <2>2. ASSUME NEW i \in Intents, BrokerMove(i)
        PROVE  /\ \A j \in Intents : status'[j] = "none" <=> status[j] = "none"
               /\ Exposed' \subseteq Exposed
    <3>1. PICK move \in {<<"open", "held">>, <<"open", "gone">>, <<"held", "gone">>} :
            status[i] = move[1] /\ status' = [status EXCEPT ![i] = move[2]]
      BY <2>2 DEF BrokerMove
    <3>2. move[1] \in {"open", "held"} /\ move[2] \in {"held", "gone"}
      OBVIOUS
    <3> QED
      BY <2>2, <3>1, <3>2 DEF TypeOK, Exposed, HeldNow, OpenNow
  <2> QED
    BY <2>1, <2>2
<1>3. OrdersAreOnRecord' /\ PlacedOK'
  BY <1>1, <1>2 DEF IndInv, OrdersAreOnRecord, PlacedOK
<1>4. OneExposurePerTicker'
  BY <1>1, <1>2 DEF IndInv, OneExposurePerTicker
<1>5. ContextsOK' /\ WireOK' /\ RepliesOK' /\ ListsOK'
  BY <1>1 DEF IndInv, ContextsOK, WireOK, RepliesOK, ListsOK, ListsHold
<1>6. OrdersListed' /\ RequestsListed' /\ AcceptedIsPlaced'
  BY <1>1 DEF IndInv, OrdersListed, OrderListed, RequestsListed, RequestListed,
              AcceptedIsPlaced, PlacedByIt
<1> QED
  BY <1>3, <1>4, <1>5, <1>6 DEF IndInv

-------------------------------------------------------------------------------
(* The inductive invariant: the manifests. *)

\* A step of manifest m that leaves the broker and the other manifests alone.
\* What m knows may change only while none of its requests is on its way.
LEMMA LocalInd ==
  ASSUME TypeOK, IndInv, NEW m \in Manifests,
         UNCHANGED <<status, blind, by>>,
         ready \subseteq ready',
         \A n \in Manifests \ {m} : pc'[n] = pc[n] /\ ctx'[n] = ctx[n] /\ reply'[n] = reply[n],
         \A w \in wire' : \/ w \in wire
                          \/ /\ w.manifest = m /\ w.intent \in ready'
                             /\ Lone(w.known, w.intent) /\ w.known = ctx'[m].known
                             /\ RequestListed(m, w.intent)',
         \A i \in ctx'[m].enabled : Lone(ctx'[m].known, i),
         pc'[m] \in {"rows", "await"} =>
            \/ pc[m] = "snapshot"
            \/ pc[m] \in {"rows", "await"} /\ ctx'[m].known = ctx[m].known,
         pc'[m] # "await" => reply'[m] = "none",
         ListsHold(m)',
         \A i \in Intents : OrderListed(m, i) => OrderListed(m, i)',
         \A i \in Intents : RequestListed(m, i) => RequestListed(m, i)',
         PlacedByIt(m)'
  PROVE  IndInv'
<1>1. OrdersAreOnRecord' /\ PlacedOK'
  BY DEF IndInv, OrdersAreOnRecord, PlacedOK
<1>2. OneExposurePerTicker'
  BY DEF IndInv, OneExposurePerTicker, Exposed, HeldNow, OpenNow
<1>3. ContextsOK'
  BY DEF IndInv, ContextsOK
<1>4. RepliesOK'
  BY DEF IndInv, RepliesOK
<1>5. ListsOK'
  <2>1. ASSUME NEW n \in Manifests, n # m
        PROVE  ListsHold(n)'
    BY <2>1 DEF IndInv, ListsOK, ListsHold
  <2> QED
    BY <2>1 DEF ListsOK
<1>6. OrdersListed'
  <2>1. ASSUME NEW n \in Manifests, n # m, NEW i \in Intents, OrderListed(n, i)
        PROVE  OrderListed(n, i)'
    BY <2>1 DEF OrderListed
  <2> QED
    BY <2>1 DEF IndInv, OrdersListed
<1>7. RequestsListed' /\ WireOK'
  <2>1. ASSUME NEW n \in Manifests, n # m, NEW i \in Intents, RequestListed(n, i)
        PROVE  RequestListed(n, i)'
    BY <2>1 DEF RequestListed
  <2>2. ASSUME NEW w \in wire
        PROVE  /\ RequestListed(w.manifest, w.intent)'
               /\ w.intent \in ready' /\ Lone(w.known, w.intent)
               /\ pc'[w.manifest] \in {"rows", "await"} => w.known = ctx'[w.manifest].known
    <3>1. w.manifest \in Manifests /\ w.intent \in Intents
      BY DEF TypeOK, Message
    <3>2. RequestListed(w.manifest, w.intent)
      BY DEF IndInv, RequestsListed
    <3>3. pc[w.manifest] # "snapshot"
      BY <3>2 DEF RequestListed, Answers
    <3>4. w.intent \in ready /\ Lone(w.known, w.intent)
      BY DEF IndInv, WireOK
    <3>5. pc[w.manifest] \in {"rows", "await"} => w.known = ctx[w.manifest].known
      BY DEF IndInv, WireOK
    <3>6. CASE w.manifest = m
      BY <3>1, <3>2, <3>3, <3>4, <3>5, <3>6
    <3>7. CASE w.manifest # m
      BY <2>1, <3>1, <3>2, <3>4, <3>5, <3>7
    <3> QED
      BY <3>6, <3>7
  <2> QED
    BY <2>2 DEF RequestsListed, WireOK
<1>8. AcceptedIsPlaced'
  <2>1. ASSUME NEW n \in Manifests, n # m
        PROVE  PlacedByIt(n)'
    BY <2>1 DEF IndInv, AcceptedIsPlaced, PlacedByIt
  <2> QED
    BY <2>1 DEF AcceptedIsPlaced
<1> QED
  BY <1>1, <1>2, <1>3, <1>4, <1>5, <1>6, <1>7, <1>8 DEF IndInv

\* Before its preview a manifest has neither lists nor requests.
LEMMA SnapshotInd ==
  ASSUME TypeOK, IndInv, NEW m \in Manifests,
         ReadPositions(m) \/ ReadOrders(m)
  PROVE  IndInv'
<1>1. /\ UNCHANGED <<status, blind, by, ready, wire, reply>>
      /\ pc[m] = "snapshot" /\ pc'[m] = "snapshot"
      /\ \A n \in Manifests \ {m} : pc'[n] = pc[n] /\ ctx'[n] = ctx[n]
  BY DEF ReadPositions, ReadOrders, Goto, brokerVars, TypeOK
<1>2. /\ ctx'[m].known = ctx[m].known
      /\ ctx'[m].enabled = ctx[m].enabled
      /\ ctx'[m].accepted = ctx[m].accepted
  BY DEF ReadPositions, ReadOrders, TypeOK, Context
<1>3. \A w \in wire' : w \in wire
  BY <1>1
<1>4. \A i \in ctx'[m].enabled : Lone(ctx'[m].known, i)
  BY <1>2 DEF IndInv, ContextsOK
<1>5. reply'[m] = "none"
  BY <1>1 DEF IndInv, RepliesOK
<1>6. ListsHold(m)'
  BY <1>1 DEF ListsHold
<1>7. \A i \in Intents : ~OrderListed(m, i) /\ ~RequestListed(m, i)
  BY <1>1 DEF OrderListed, RequestListed, Answers
<1>8. PlacedByIt(m)'
  BY <1>1, <1>2 DEF IndInv, AcceptedIsPlaced, PlacedByIt
<1>9. /\ UNCHANGED <<status, blind, by>>
       /\ ready \subseteq ready'
       /\ \A n \in Manifests \ {m} : pc'[n] = pc[n] /\ ctx'[n] = ctx[n] /\ reply'[n] = reply[n]
  BY <1>1
<1>10. pc'[m] \in {"rows", "await"} =>
            \/ pc[m] = "snapshot"
            \/ pc[m] \in {"rows", "await"} /\ ctx'[m].known = ctx[m].known
  BY <1>1
<1> QED
  BY <1>3, <1>4, <1>5, <1>6, <1>7, <1>8, <1>9, <1>10, LocalInd

\* The rows a preview offers have their tickers to themselves.
LEMMA BuildPreviewInd ==
  ASSUME TypeOK, IndInv, NEW m \in Manifests, BuildPreview(m)
  PROVE  IndInv'
<1>1. /\ UNCHANGED <<status, blind, by, ready, wire, reply>>
      /\ pc[m] = "snapshot" /\ pc'[m] = "rows"
      /\ \A n \in Manifests \ {m} : pc'[n] = pc[n]
  BY DEF BuildPreview, HasSnapshot, Goto, brokerVars, TypeOK
<1>2. PICK terms \in Terms, cleared \in SUBSET WatchKeys :
         ctx' = [ctx EXCEPT ![m] = [EmptyContext EXCEPT
            !.known = Built(m, terms, cleared).positions
                      \cup Built(m, terms, cleared).orders
                      \cup Plan(Built(m, terms, cleared)),
            !.enabled = ReadyRows(Built(m, terms, cleared))]]
  BY DEF BuildPreview
<1> DEFINE x == Built(m, terms, cleared)
           known == x.positions \cup x.orders \cup Plan(x)
           enabled == ReadyRows(x)
<1>3. \A i \in enabled : Lone(known, i)
  BY OfferedIsLone
<1> HIDE DEF known, enabled
<1>4. ctx' = [ctx EXCEPT ![m] = [EmptyContext EXCEPT !.known = known, !.enabled = enabled]]
  BY <1>2 DEF known, enabled
<1>5. /\ ctx'[m].known = known /\ ctx'[m].enabled = enabled
      /\ ctx'[m].accepted = {} /\ ctx'[m].unheard = {} /\ ctx'[m].count = 0
      /\ ctx'[m].pending = FALSE
      /\ \A n \in Manifests \ {m} : ctx'[n] = ctx[n]
  BY <1>4 DEF TypeOK, EmptyContext
<1>6. \A w \in wire' : w \in wire
  BY <1>1
<1>7. reply'[m] = "none"
  BY <1>1 DEF IndInv, RepliesOK
<1>8. ListsHold(m)'
  BY <1>1, <1>5 DEF ListsHold
<1>9. \A i \in Intents : ~OrderListed(m, i) /\ ~RequestListed(m, i)
  BY <1>1 DEF OrderListed, RequestListed, Answers
<1>10. PlacedByIt(m)'
  BY <1>1, <1>5 DEF PlacedByIt
<1> QED
  BY <1>1, <1>3, <1>5, <1>6, <1>7, <1>8, <1>9, <1>10, LocalInd

\* A manifest that breaks off forgets its lists: nothing is promised of it.
LEMMA BreakOffInd ==
  ASSUME TypeOK, IndInv, NEW m \in Manifests, AbortManifest(m) \/ Die(m)
  PROVE  IndInv'
<1>1. /\ UNCHANGED <<status, blind, by, ready, wire>>
      /\ pc'[m] = "broken_off" /\ ctx'[m] = EmptyContext
      /\ \A n \in Manifests \ {m} : pc'[n] = pc[n] /\ ctx'[n] = ctx[n] /\ reply'[n] = reply[n]
  BY DEF AbortManifest, Die, Goto, brokerVars, TypeOK
<1>2. reply'[m] = "none"
  <2>1. CASE AbortManifest(m)
    BY <2>1 DEF AbortManifest, NextRow, IndInv, RepliesOK
  <2>2. CASE Die(m)
    BY <2>2 DEF Die, TypeOK
  <2> QED
    BY <2>1, <2>2
<1>3. \A w \in wire' : w \in wire
  BY <1>1
<1>4. EmptyContext.enabled = {} /\ EmptyContext.accepted = {}
  BY DEF EmptyContext
<1>5. ListsHold(m)' /\ PlacedByIt(m)'
  BY <1>1, <1>4 DEF ListsHold, PlacedByIt
<1>6. \A i \in Intents : OrderListed(m, i)' /\ RequestListed(m, i)'
  BY <1>1 DEF OrderListed, RequestListed
<1> QED
  BY <1>1, <1>2, <1>3, <1>4, <1>5, <1>6, LocalInd

\* A refused row only counts.
LEMMA RefuseRowInd ==
  ASSUME TypeOK, IndInv, NEW m \in Manifests, RefuseRow(m)
  PROVE  IndInv'
<1>1. /\ UNCHANGED <<status, blind, by, ready, wire, reply, pc>>
      /\ pc[m] = "rows"
      /\ \A n \in Manifests \ {m} : ctx'[n] = ctx[n]
  BY DEF RefuseRow, NextRow, brokerVars, TypeOK
<1>2. /\ ctx'[m].known = ctx[m].known
      /\ ctx'[m].enabled = ctx[m].enabled
      /\ ctx'[m].accepted = ctx[m].accepted
      /\ ctx'[m].unheard = ctx[m].unheard
      /\ ctx'[m].pending = ctx[m].pending
      /\ ctx'[m].rejected = TRUE
  BY DEF RefuseRow, TypeOK, Context
<1>3. \A w \in wire' : w \in wire
  BY <1>1
<1>4. \A i \in ctx'[m].enabled : Lone(ctx'[m].known, i)
  BY <1>2 DEF IndInv, ContextsOK
<1>5. reply'[m] = "none"
  BY <1>1 DEF IndInv, RepliesOK
<1>6. ListsHold(m)'
  BY <1>1, <1>2 DEF ListsHold, IndInv, ListsOK
<1>7. \A i \in Intents : /\ OrderListed(m, i) => OrderListed(m, i)'
                         /\ RequestListed(m, i) => RequestListed(m, i)'
  BY <1>1, <1>2 DEF OrderListed, RequestListed
<1>8. PlacedByIt(m)'
  BY <1>1, <1>2 DEF IndInv, AcceptedIsPlaced, PlacedByIt
<1>9. /\ UNCHANGED <<status, blind, by>>
       /\ ready \subseteq ready'
       /\ \A n \in Manifests \ {m} : pc'[n] = pc[n] /\ ctx'[n] = ctx[n] /\ reply'[n] = reply[n]
  BY <1>1
<1>10. pc'[m] \in {"rows", "await"} =>
            \/ pc[m] = "snapshot"
            \/ pc[m] \in {"rows", "await"} /\ ctx'[m].known = ctx[m].known
  BY <1>1, <1>2
<1> QED
  BY <1>3, <1>4, <1>5, <1>6, <1>7, <1>8, <1>9, <1>10, LocalInd

\* The order that leaves is on record and has its ticker to itself.
LEMMA SendRowInd ==
  ASSUME TypeOK, IndInv, NEW m \in Manifests, SendRow(m)
  PROVE  IndInv'
<1>1. PICK i \in ctx[m].enabled :
         /\ ready' = ready \cup {i}
         /\ wire' = wire \cup {[manifest |-> m, intent |-> i, known |-> ctx[m].known]}
         /\ ctx' = [ctx EXCEPT ![m].count = @ + 1, ![m].row = i]
  BY DEF SendRow
<1>2. /\ UNCHANGED <<status, blind, by, reply>>
      /\ pc[m] = "rows" /\ pc'[m] = "await"
      /\ \A n \in Manifests \ {m} : pc'[n] = pc[n] /\ ctx'[n] = ctx[n]
  BY <1>1 DEF SendRow, NextRow, Goto, brokerVars, TypeOK
<1>3. /\ ctx'[m].known = ctx[m].known
      /\ ctx'[m].enabled = ctx[m].enabled
      /\ ctx'[m].accepted = ctx[m].accepted
      /\ ctx'[m].unheard = ctx[m].unheard
      /\ ctx'[m].pending = ctx[m].pending
      /\ ctx'[m].rejected = ctx[m].rejected
      /\ ctx'[m].row = i
  BY <1>1 DEF TypeOK, Context
<1>5. \A j \in ctx[m].enabled : Lone(ctx[m].known, j)
  BY DEF IndInv, ContextsOK
<1>6. reply[m] = "none"
  BY <1>2 DEF IndInv, RepliesOK
<1>7. RequestListed(m, i)'
  BY <1>2, <1>3, <1>6 DEF RequestListed
<1>8. \A w \in wire' : \/ w \in wire
                       \/ /\ w.manifest = m /\ w.intent \in ready'
                          /\ Lone(w.known, w.intent) /\ w.known = ctx'[m].known
                          /\ RequestListed(m, w.intent)'
  BY <1>1, <1>3, <1>5, <1>7
<1>9. ListsHold(m)'
  BY <1>2, <1>3 DEF ListsHold, IndInv, ListsOK
<1>10. \A j \in Intents : /\ OrderListed(m, j) => OrderListed(m, j)'
                          /\ RequestListed(m, j) => RequestListed(m, j)'
  BY <1>2, <1>3 DEF OrderListed, RequestListed, Answers
<1>11. PlacedByIt(m)'
  BY <1>2, <1>3, <1>6 DEF IndInv, AcceptedIsPlaced, PlacedByIt
<1>12. \A j \in ctx'[m].enabled : Lone(ctx'[m].known, j)
  BY <1>3, <1>5
<1>13. ready \subseteq ready'
  BY <1>1
<1> QED
  BY <1>2, <1>3, <1>8, <1>9, <1>10, <1>11, <1>12, <1>13, LocalInd

\* What a manifest hears, or does not hear, of a row goes into its lists.
LEMMA HearInd ==
  ASSUME TypeOK, IndInv, NEW m \in Manifests, HearAccepted(m) \/ HearFailure(m)
  PROVE  IndInv'
<1> DEFINE row == ctx[m].row
<1>1. PICK accepted \in SUBSET Intents, rejected \in BOOLEAN,
           unheard \in SUBSET Intents, pending \in BOOLEAN :
         /\ RowDone(m, accepted, rejected, unheard, pending)
         /\ \/ /\ reply[m] = "accepted" /\ accepted = {row} /\ unheard = {}
            \/ /\ accepted = {} /\ rejected /\ ~pending
               /\ unheard = IF reply[m] = "rejected" THEN {} ELSE {row}
  <2>1. row \in Intents
    BY DEF HearAccepted, HearFailure, TypeOK
  <2> QED
    BY <2>1 DEF HearAccepted, HearFailure
<1>2. UNCHANGED <<status, blind, by, ready, wire>> /\ pc[m] = "await"
  BY DEF HearAccepted, HearFailure, brokerVars
<1>3. /\ pc'[m] = "rows" /\ reply'[m] = "none"
      /\ \A n \in Manifests \ {m} : pc'[n] = pc[n] /\ ctx'[n] = ctx[n] /\ reply'[n] = reply[n]
  BY <1>1 DEF RowDone, Goto, TypeOK
<1>4. /\ ctx'[m].known = ctx[m].known
      /\ ctx'[m].enabled = ctx[m].enabled
      /\ ctx'[m].accepted = ctx[m].accepted \cup accepted
      /\ ctx'[m].unheard = ctx[m].unheard \cup unheard
      /\ ctx'[m].pending = (ctx[m].pending \/ pending)
      /\ ctx'[m].rejected = (ctx[m].rejected \/ rejected)
  BY <1>1 DEF RowDone, TypeOK, Context
<1>5. \A w \in wire' : w \in wire
  BY <1>2
<1>6. \A i \in ctx'[m].enabled : Lone(ctx'[m].known, i)
  BY <1>4 DEF IndInv, ContextsOK
<1>7. ListsHold(m)'
  <2>1. ListsHold(m)
    BY DEF IndInv, ListsOK
  <2> QED
    BY <1>1, <1>2, <1>3, <1>4, <2>1 DEF ListsHold
<1>8. \A i \in Intents : /\ OrderListed(m, i) => OrderListed(m, i)'
                         /\ RequestListed(m, i) => RequestListed(m, i)'
  BY <1>1, <1>2, <1>3, <1>4 DEF OrderListed, RequestListed, Answers
<1>9. PlacedByIt(m)'
  <2>1. PlacedByIt(m)
    BY DEF IndInv, AcceptedIsPlaced
  <2> QED
    BY <1>1, <1>2, <1>3, <1>4, <2>1 DEF PlacedByIt
<1>10. /\ UNCHANGED <<status, blind, by>>
       /\ ready \subseteq ready'
       /\ \A n \in Manifests \ {m} : pc'[n] = pc[n] /\ ctx'[n] = ctx[n] /\ reply'[n] = reply[n]
  BY <1>2, <1>3
<1>11. pc'[m] \in {"rows", "await"} =>
            \/ pc[m] = "snapshot"
            \/ pc[m] \in {"rows", "await"} /\ ctx'[m].known = ctx[m].known
  BY <1>2, <1>4
<1>12. reply'[m] = "none"
  BY <1>3
<1> QED
  BY <1>5, <1>6, <1>7, <1>8, <1>9, <1>10, <1>11, <1>12, LocalInd

\* The answer follows from the lists.
LEMMA FinishInd ==
  ASSUME TypeOK, IndInv, NEW m \in Manifests, FinishManifest(m)
  PROVE  IndInv'
<1>1. /\ UNCHANGED <<status, blind, by, ready, wire, reply>>
      /\ pc[m] = "rows" /\ ctx[m].count > 0 /\ pc'[m] = Answer(ctx[m])
      /\ \A n \in Manifests \ {m} : pc'[n] = pc[n] /\ ctx'[n] = ctx[n]
  BY DEF FinishManifest, Goto, brokerVars, TypeOK
<1>2. /\ ctx'[m].accepted = ctx[m].accepted
      /\ ctx'[m].unheard = ctx[m].unheard
      /\ ctx'[m].enabled = {}
  BY DEF FinishManifest, EmptyContext, TypeOK
<1>3. ctx[m].rejected \in BOOLEAN /\ ctx[m].pending \in BOOLEAN
  BY DEF TypeOK, Context
<1>4. pc'[m] \in Answers
  BY <1>1, <1>3, AnswerType
<1>5. \A w \in wire' : w \in wire
  BY <1>1
<1>6. reply'[m] = "none"
  BY <1>1 DEF IndInv, RepliesOK
<1>7. ListsHold(m)'
  <2>1. ListsHold(m)
    BY DEF IndInv, ListsOK
  <2> DEFINE x == ctx[m]
  <2>2. CASE x.pending /\ ~x.rejected
    <3>1. pc'[m] = "reconcile_pending"
      BY <1>1, <2>2 DEF Answer
    <3> QED
      BY <1>1, <1>2, <2>1, <2>2, <3>1 DEF ListsHold
  <2>3. CASE x.rejected /\ x.accepted # {}
    <3>1. pc'[m] = "partial"
      BY <1>1, <2>3 DEF Answer
    <3> QED
      BY <3>1 DEF ListsHold
  <2>4. CASE x.rejected /\ x.accepted = {}
    <3>1. pc'[m] = "rejected"
      BY <1>1, <2>4 DEF Answer
    <3> QED
      BY <1>2, <2>4, <3>1 DEF ListsHold
  <2>5. CASE ~x.pending /\ ~x.rejected
    <3>1. pc'[m] = "accepted"
      BY <1>1, <2>5 DEF Answer
    <3> QED
      BY <1>1, <1>2, <2>1, <2>5, <3>1 DEF ListsHold
  <2> QED
    BY <1>3, <2>2, <2>3, <2>4, <2>5
<1>8. \A i \in Intents : /\ OrderListed(m, i) => OrderListed(m, i)'
                         /\ RequestListed(m, i) => RequestListed(m, i)'
  BY <1>1, <1>2, <1>4 DEF OrderListed, RequestListed, Answers
<1>9. PlacedByIt(m)'
  BY <1>1, <1>2, <1>4 DEF IndInv, AcceptedIsPlaced, PlacedByIt, Answers
<1>10. pc'[m] \notin {"rows", "await"}
  BY <1>4 DEF Answers
<1> QED
  BY <1>1, <1>2, <1>5, <1>6, <1>7, <1>8, <1>9, <1>10, LocalInd

\* Every step preserves the inductive invariant.
LEMMA StepInd ==
  ASSUME TypeOK, IndInv, [Next]_vars
  PROVE  IndInv'
<1>1. CASE Refresh
  BY <1>1, WorldInd
<1>2. CASE Broker
  BY <1>2, BrokerTakeInd, BrokerRefuseInd, WorldInd DEF Broker
<1>3. ASSUME NEW m \in Manifests, Handle(m) \/ Die(m)
      PROVE  IndInv'
  <2>1. CASE ReadPositions(m) \/ ReadOrders(m)
    BY <2>1, SnapshotInd
  <2>2. CASE BuildPreview(m)
    BY <2>2, BuildPreviewInd
  <2>3. CASE AbortManifest(m) \/ Die(m)
    BY <2>3, BreakOffInd
  <2>4. CASE RefuseRow(m)
    BY <2>4, RefuseRowInd
  <2>5. CASE SendRow(m)
    BY <2>5, SendRowInd
  <2>6. CASE HearAccepted(m) \/ HearFailure(m)
    BY <2>6, HearInd
  <2>7. CASE FinishManifest(m)
    BY <2>7, FinishInd
  <2> QED
    BY <1>3, <2>1, <2>2, <2>3, <2>4, <2>5, <2>6, <2>7 DEF Handle
<1>4. CASE UNCHANGED vars
  <2>1. UNCHANGED <<ready, status, blind, by, wire, reply, pc, ctx>>
    BY <1>4 DEF vars, brokerVars
  <2>2. OrdersAreOnRecord' /\ PlacedOK' /\ OneExposurePerTicker'
    BY <2>1 DEF IndInv, OrdersAreOnRecord, PlacedOK, OneExposurePerTicker, Exposed,
                HeldNow, OpenNow
  <2>3. ContextsOK' /\ WireOK' /\ RepliesOK' /\ ListsOK'
    BY <2>1 DEF IndInv, ContextsOK, WireOK, RepliesOK, ListsOK, ListsHold
  <2>4. OrdersListed' /\ RequestsListed' /\ AcceptedIsPlaced'
    BY <2>1 DEF IndInv, OrdersListed, OrderListed, RequestsListed, RequestListed,
                AcceptedIsPlaced, PlacedByIt
  <2> QED
    BY <2>2, <2>3, <2>4 DEF IndInv
<1> QED
  BY <1>1, <1>2, <1>3, <1>4 DEF Next

\* The inductive invariant holds in every state: no row is offered, and no
\* request is on its way, whose ticker its context accounts for otherwise, and
\* the lists of a manifest account for its orders and requests.
THEOREM InductiveInvariant == Spec => []IndInv
<1>1. Init => IndInv
  BY InitInd
<1>2. TypeOK /\ IndInv /\ [Next]_vars => IndInv'
  BY StepInd
<1> QED
  BY <1>1, <1>2, TypeCorrect, PTL DEF Spec

-------------------------------------------------------------------------------
(* What the manifests promise. *)

\* An order at the broker has its durable READY row, also when the manifest
\* that sent it broke off or died.
THEOREM OrdersOnRecord == Spec => []OrdersAreOnRecord
<1>1. IndInv => OrdersAreOnRecord
  BY DEF IndInv
<1> QED
  BY <1>1, InductiveInvariant, PTL

\* No two live orders or positions of one ticker, unless one was placed blind:
\* for any reports, policies and number of manifests.
THEOREM OneExposure == Spec => []OneExposurePerTicker
<1>1. IndInv => OneExposurePerTicker
  BY DEF IndInv
<1> QED
  BY <1>1, InductiveInvariant, PTL

\* The answer of a manifest accounts for the orders it placed, however the
\* broker's answers were lost or late.
THEOREM AnswerAccounts == Spec => []AnswerAccountsForOrders
<1>1. IndInv => AnswerAccountsForOrders
  <2> SUFFICES ASSUME IndInv, NEW m \in Manifests, pc[m] \in Answers
               PROVE  /\ \A i \in ctx[m].accepted : by[i] = m
                      /\ \A i \in Intents : by[i] = m => i \in ctx[m].accepted \cup ctx[m].unheard
                      /\ pc[m] \in {"accepted", "reconcile_pending"} =>
                            ctx[m].accepted # {} /\ ctx[m].unheard = {}
                      /\ pc[m] = "rejected" => \A i \in Intents : by[i] = m => i \in ctx[m].unheard
    BY DEF AnswerAccountsForOrders
  <2>1. \A i \in ctx[m].accepted : by[i] = m
    BY DEF IndInv, AcceptedIsPlaced, PlacedByIt
  <2>2. \A i \in Intents : by[i] = m => i \in ctx[m].accepted \cup ctx[m].unheard
    BY DEF IndInv, OrdersListed, OrderListed, Answers
  <2>3. ListsHold(m)
    BY DEF IndInv, ListsOK
  <2> QED
    BY <2>1, <2>2, <2>3 DEF ListsHold
<1> QED
  BY <1>1, InductiveInvariant, PTL
===============================================================================
