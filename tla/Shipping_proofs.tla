-------------------------- MODULE Shipping_proofs --------------------------
(***************************************************************************)
(* Proofs about Shipping for any number of requests and webhooks.          *)
(*                                                                         *)
(* That the carrier registers one parcel is not inductive: it rests on the *)
(* unique index of the row a request inserts before it asks the carrier.   *)
(* The invariant says that a request past its insertion left a row, that   *)
(* rows are never removed, and that the one request waiting for the        *)
(* carrier is the first to ask.                                            *)
(***************************************************************************)
EXTENDS Shipping, TLAPS

\* A row stays once there is a request that inserted it.
RowRemains ==
  parcels > 0 \/ (\E c \in Call : calls[c] = "asking" \/ Answering(c))
    => shipment # "NONE"

\* One request asks the carrier, and nobody asked before it.
AskedOnce ==
  \A c \in Call : calls[c] = "asking" =>
    /\ parcels = 0
    /\ \A d \in Call : calls[d] = "asking" => d = c

IInv ==
  /\ TypeOK
  /\ RegisteredOnce
  /\ RowRemains
  /\ AskedOnce

-----------------------------------------------------------------------------
LEMMA InitIInv == Init => IInv
<1> SUFFICES ASSUME Init PROVE IInv
  OBVIOUS
<1> USE ShippingAssumption DEF Init
<1>1. hooks \in [Hook -> [step : Step, report : Report \cup {NoReport}]]
  BY DEF Step, AtRest
<1>2. TypeOK
  BY <1>1 DEF TypeOK, Status, ShipStatus, Phase
<1>3. RegisteredOnce /\ RowRemains /\ AskedOnce
  BY DEF RegisteredOnce, RowRemains, AskedOnce, Answering
<1> QED BY <1>2, <1>3 DEF IInv

\* A request that goes on with the row it has, and asks for nothing.
LEMMA CallStep ==
  ASSUME IInv, NEW c \in Call, NEW to \in Phase \ {"asking"},
         calls' = [calls EXCEPT ![c] = to],
         shipment' \in ShipStatus, tracked' \in BOOLEAN,
         UNCHANGED <<order, parcels, stage, sent, log, hooks>>,
         \/ shipment' = shipment /\ to \in {"idle", "checked"}
         \/ shipment' = shipment /\ (calls[c] = "asking" \/ Answering(c))
         \/ shipment' # "NONE"
  PROVE  IInv'
<1> USE DEF IInv
<1>1. TypeOK'
  BY DEF TypeOK
<1>2. \A d \in Call : /\ calls'[d] = "asking" => calls[d] = "asking"
                      /\ d # c => calls'[d] = calls[d]
  BY DEF TypeOK
<1>3. RegisteredOnce' /\ AskedOnce'
  BY <1>2 DEF RegisteredOnce, AskedOnce
<1>4. RowRemains'
  BY <1>2 DEF RowRemains, Answering, TypeOK
<1> QED BY <1>1, <1>3, <1>4

\* The row is inserted by the only request that will ask the carrier.
LEMMA InsertStep ==
  ASSUME IInv, NEW c \in Call, InsertShipment(c)
  PROVE  IInv'
<1> USE DEF IInv, InsertShipment, Advance, NoRowYet
<1>1. TypeOK'
  BY DEF TypeOK, ShipStatus, Phase
<1>2. parcels = 0 /\ \A d \in Call : calls[d] # "asking"
  BY DEF RowRemains, TypeOK
<1>3. AskedOnce'
  BY <1>2 DEF AskedOnce, TypeOK
<1> QED BY <1>1, <1>3 DEF RegisteredOnce, RowRemains

\* The carrier registers the parcel of the first request that asks.
LEMMA AcceptStep ==
  ASSUME IInv, NEW c \in Call, CarrierAccepts(c)
  PROVE  IInv'
<1> USE DEF IInv, CarrierAccepts, Advance
<1>1. calls[c] = "asking" /\ parcels = 0 /\ shipment # "NONE"
  BY DEF AskedOnce, RowRemains
<1>2. PICK to \in {"accepted", "failed"} : calls' = [calls EXCEPT ![c] = to]
  OBVIOUS
<1>3. TypeOK'
  BY <1>1, <1>2 DEF TypeOK, Phase
<1>4. \A d \in Call : calls'[d] # "asking"
  BY <1>1, <1>2 DEF AskedOnce, TypeOK
<1> QED BY <1>1, <1>3, <1>4 DEF RegisteredOnce, RowRemains, AskedOnce

\* A status the table allows is one of a shipment that is there already.
LEMMA MoveKeepsRow ==
  ASSUME NEW to, MayTransit(to)
  PROVE  shipment # "NONE" /\ to \in ShipStatus \ {"NONE"}
BY DEF MayTransit, Transitions, ShipStatus

\* What the administrator, the order and the webhooks do to the row.
LEMMA OtherStep ==
  ASSUME IInv, TypeOK', UNCHANGED <<calls, parcels>>,
         shipment' = shipment \/ shipment' # "NONE"
  PROVE  IInv'
BY DEF IInv, RegisteredOnce, RowRemains, AskedOnce, Answering

\* A report is handled as a status of the table or changes nothing.
LEMMA ReportIsStatus ==
  ASSUME TypeOK, NEW h \in Hook, HandleReport(h)
  PROVE  shipment' = shipment \/ MayTransit(shipment')
BY DEF HandleReport, ApplyReport

-----------------------------------------------------------------------------
\* IInv is an invariant.
THEOREM Inductive == Spec => []IInv
<1>1. IInv /\ [Next]_vars => IInv'
  <2> SUFFICES ASSUME IInv, [Next]_vars PROVE IInv'
    OBVIOUS
  <2> USE DEF IInv
  <2>1. ASSUME NEW c \in Call,
               CheckShippable(c) \/ InsertRefused(c) \/ WriteHistory(c)
        PROVE  IInv'
    <3>1. PICK to \in {"checked", "idle"} : calls' = [calls EXCEPT ![c] = to]
      BY <2>1 DEF CheckShippable, InsertRefused, WriteHistory, Advance
    <3> QED BY <2>1, <3>1, CallStep
            DEF CheckShippable, InsertRefused, WriteHistory, Phase, TypeOK
  <2>2. ASSUME NEW c \in Call, InsertShipment(c) PROVE IInv'
    BY <2>2, InsertStep
  <2>3. ASSUME NEW c \in Call, CarrierAccepts(c) PROVE IInv'
    BY <2>3, AcceptStep
  <2>4. ASSUME NEW c \in Call, CarrierFails(c) \/ WriteRefused(c) PROVE IInv'
    <3>1. /\ calls' = [calls EXCEPT ![c] = "failed"]
          /\ calls[c] = "asking" \/ Answering(c)
      BY <2>4 DEF CarrierFails, WriteRefused, Advance, Answering
    <3> QED BY <2>4, <3>1, CallStep DEF CarrierFails, WriteRefused, Phase, TypeOK
  <2>5. ASSUME NEW c \in Call, WriteWaiting(c) \/ WriteFailed(c) PROVE IInv'
    <3>1. PICK to \in {"noting", "idle"} : calls' = [calls EXCEPT ![c] = to]
      BY <2>5 DEF WriteWaiting, WriteFailed, Advance
    <3>2. shipment' \in ShipStatus \ {"NONE"} /\ tracked' \in BOOLEAN
      BY <2>5 DEF WriteWaiting, WriteFailed, ShipStatus, TypeOK
    <3> QED BY <2>5, <3>1, <3>2, CallStep DEF WriteWaiting, WriteFailed, Phase
  <2>6. ASSUME NEW to \in ShipStatus, UpdateStatus(to) PROVE IInv'
    <3>1. shipment' \in ShipStatus \ {"NONE"}
      BY <2>6, MoveKeepsRow DEF UpdateStatus
    <3> QED BY <2>6, <3>1, OtherStep DEF UpdateStatus, TypeOK
  <2>7. ASSUME NEW to \in Status, MoveOrder(to) PROVE IInv'
    <3>1. TypeOK'
      BY <2>7 DEF MoveOrder, TypeOK
    <3> QED BY <2>7, <3>1, OtherStep DEF MoveOrder
  <2>8. CASE \/ \E to \in Report : CarrierMovesOn(to)
             \/ CarrierSaysMore
    <3>1. TypeOK'
      BY <2>8 DEF CarrierMovesOn, CarrierSaysMore, TypeOK, Report
    <3> QED BY <2>8, <3>1, OtherStep DEF CarrierMovesOn, CarrierSaysMore
  <2>9. ASSUME NEW h \in Hook, NEW o \in Report,
               \/ VerifyFails(h, o)
               \/ SkipSeen(h, o)
               \/ RejectUnknown(h, o)
               \/ AcceptReport(h, o)
        PROVE  IInv'
    <3>1. TypeOK'
      BY <2>9 DEF VerifyFails, SkipSeen, RejectUnknown, AcceptReport, TypeOK, Step
    <3> QED BY <2>9, <3>1, OtherStep
            DEF VerifyFails, SkipSeen, RejectUnknown, AcceptReport
  <2>10. ASSUME NEW h \in Hook, HandleReport(h) PROVE IInv'
    <3>1. shipment' = shipment \/ shipment' \in ShipStatus \ {"NONE"}
      BY <2>10, ReportIsStatus, MoveKeepsRow
    <3>2. TypeOK'
      BY <2>10, <3>1 DEF HandleReport, TypeOK, Step
    <3> QED BY <2>10, <3>1, <3>2, OtherStep DEF HandleReport
  <2>11. ASSUME NEW h \in Hook, RejectReport(h) \/ RecordEvent(h) PROVE IInv'
    <3>1. TypeOK'
      BY <2>11 DEF RejectReport, RecordEvent, TypeOK, Step, AtRest
    <3> QED BY <2>11, <3>1, OtherStep DEF RejectReport, RecordEvent
  <2>12. CASE UNCHANGED vars
    <3>1. TypeOK'
      BY <2>12 DEF vars, TypeOK
    <3> QED BY <2>12, <3>1, OtherStep DEF vars
  <2> QED BY <2>1, <2>2, <2>3, <2>4, <2>5, <2>6, <2>7, <2>8, <2>9, <2>10, <2>11, <2>12
          DEF Next
<1> QED BY <1>1, InitIInv, PTL DEF Spec

\* Every variable keeps its type.
THEOREM TypeCorrect == Spec => []TypeOK
<1>1. IInv => TypeOK
  BY DEF IInv
<1> QED BY <1>1, Inductive, PTL

\* The carrier registers at most one parcel for an order.
THEOREM OneParcel == Spec => []RegisteredOnce
<1>1. IInv => RegisteredOnce
  BY DEF IInv
<1> QED BY <1>1, Inductive, PTL

\* No report and no administrator takes a shipment back; only the answer of a
\* request that has asked the carrier can.
THEOREM NothingRegresses == Spec => NeverRegresses
<1> DEFINE Quiet == \A c \in Call : ~Answering(c)
<1>1. ASSUME NEW to, MayTransit(to)
      PROVE  Rank[to] >= Rank[shipment]
  BY <1>1 DEF MayTransit, Transitions, Rank, ShipStatus
<1>2. ASSUME TypeOK, shipment' = shipment
      PROVE  Rank[shipment'] >= Rank[shipment]
  <2>1. Rank[shipment] \in Nat
    BY <1>2 DEF Rank, TypeOK, ShipStatus
  <2> QED BY <1>2, <2>1
<1>3. IInv /\ [Next]_vars => [Quiet => Rank[shipment'] >= Rank[shipment]]_vars
  <2> SUFFICES ASSUME IInv, Next, Quiet
               PROVE  Rank[shipment'] >= Rank[shipment]
    OBVIOUS
  <2> USE DEF IInv
  <2>1. \A c \in Call : ~WriteWaiting(c) /\ ~WriteFailed(c)
    BY DEF WriteWaiting, WriteFailed, Advance, Answering
  <2>2. ASSUME NEW c \in Call, InsertShipment(c)
        PROVE  Rank[shipment'] >= Rank[shipment]
    BY <2>2 DEF InsertShipment, NoRowYet, Rank, ShipStatus
  <2>3. ASSUME NEW to \in ShipStatus, UpdateStatus(to)
        PROVE  Rank[shipment'] >= Rank[shipment]
    BY <2>3, <1>1 DEF UpdateStatus
  <2>4. ASSUME NEW h \in Hook, HandleReport(h)
        PROVE  Rank[shipment'] >= Rank[shipment]
    BY <2>4, <1>1, <1>2, ReportIsStatus
  <2>5. \/ UNCHANGED shipment
        \/ \E c \in Call : InsertShipment(c)
        \/ \E to \in ShipStatus : UpdateStatus(to)
        \/ \E h \in Hook : HandleReport(h)
    BY <2>1 DEF Next, CheckShippable, InsertRefused, CarrierAccepts, CarrierFails,
         WriteRefused, WriteHistory, MoveOrder, CarrierMovesOn, CarrierSaysMore,
         VerifyFails, SkipSeen, RejectUnknown, AcceptReport, RejectReport, RecordEvent
  <2> QED BY <1>2, <2>2, <2>3, <2>4, <2>5
<1> QED BY <1>3, Inductive, PTL DEF Spec, NeverRegresses
=============================================================================
