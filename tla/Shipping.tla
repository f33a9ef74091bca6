------------------------------ MODULE Shipping ------------------------------
(***************************************************************************)
(* The shipment of one order: ShippingService with the carrier (GHN) it    *)
(* registers the parcel with and the webhooks the carrier sends back.      *)
(*                                                                         *)
(* createShipment is not a transaction: it looks at the order and at the   *)
(* order's shipment, inserts a row, calls the carrier and writes what the  *)
(* carrier answered without looking again.  handleWebhook moves the status *)
(* in one transaction and records the event in another.  The carrier calls *)
(* every event of a parcel by the parcel's own code (ghn.gateway.ts), so   *)
(* the log has one row for all of them.  A process that dies is one that   *)
(* takes no further step.                                                  *)
(*                                                                         *)
(* Addresses, weights, fees, labels, items and history are left out.       *)
(* Definitions no action uses are mutants: the definition after each, with *)
(* a plausible bug.                                                        *)
(***************************************************************************)
EXTENDS Naturals, OrderStatus

CONSTANTS
  Call,         \* createShipment requests
  Hook,         \* webhook requests handled at the same time
  NoReport,
  Flaky         \* may the verification of a callback fail for a while?

\* What the carrier reports of a parcel, in words the gateway knows; OTHER is
\* any word it does not.
Report ==
  {"PICKED", "TRANSIT", "OUT_FOR_DELIVERY", "DELIVERED", "EXCEPTION",
   "RETURNED", "CANCELLED", "OTHER"}

ASSUME ShippingAssumption ==
  /\ NoReport \notin Report
  /\ Flaky \in BOOLEAN

VARIABLES
  order,     \* order.status
  shipment,  \* shipment.status, "NONE" without a row
  tracked,   \* has the row the carrier's order code?
  calls,     \* how far each createShipment request is
  parcels,   \* external: parcels the carrier has registered
  stage,     \* external: where the parcel is
  sent,      \* external: the reports the carrier has for the shop
  log,       \* shipping_webhook_log of the parcel: its row and `processed`
  hooks      \* the report each webhook request works on, and how far it is

vars == <<order, shipment, tracked, calls, parcels, stage, sent, log, hooks>>

ShipStatus ==
  {"NONE", "CREATED", "WAITING_PICKUP", "PICKED_UP", "IN_TRANSIT",
   "OUT_FOR_DELIVERY", "DELIVERED", "FAILED", "RETURNING", "RETURNED",
   "CANCELLED"}
Phase == {"idle", "checked", "asking", "accepted", "noting", "failed"}
Step == {"idle", "checked", "applied"}
AtRest == [step |-> "idle", report |-> NoReport]

TypeOK ==
  /\ order \in Status
  /\ shipment \in ShipStatus
  /\ tracked \in BOOLEAN
  /\ calls \in [Call -> Phase]
  /\ parcels \in Nat
  /\ stage \in Report \cup {"NONE", "REGISTERED"}
  /\ sent \subseteq Report
  /\ log \in {"NONE", "OPEN", "PROCESSED"}
  /\ hooks \in [Hook -> [step : Step, report : Report \cup {NoReport}]]

\* Shipping begins with an order that was paid for.
Init ==
  /\ order = "PAID"
  /\ shipment = "NONE"
  /\ tracked = FALSE
  /\ calls = [c \in Call |-> "idle"]
  /\ parcels = 0
  /\ stage = "NONE"
  /\ sent = {}
  /\ log = "NONE"
  /\ hooks = [h \in Hook |-> AtRest]

-----------------------------------------------------------------------------
(* createShipment. *)

Shippable == {"PROCESSING", "PACKED", "SHIPPED", "DELIVERING", "DELIVERED"}
Closed == {"NONE", "DELIVERED", "RETURNED", "CANCELLED"}

Advance(c, from, to) ==
  /\ calls[c] = from
  /\ calls' = [calls EXCEPT ![c] = to]

\* Steps 1 to 3: the order is shippable and no shipment of it is active.
CheckShippable(c) ==
  /\ Advance(c, "idle", "checked")
  /\ order \in Shippable
  /\ shipment \in Closed
  /\ UNCHANGED <<order, shipment, tracked, parcels, stage, sent, log, hooks>>

\* INSERT fails when the order has a shipment row: order_id is unique.
NoRowActive == shipment \in Closed
NoRowYet == shipment = "NONE"

InsertShipment(c) ==
  /\ Advance(c, "checked", "asking")
  /\ NoRowYet
  /\ shipment' = "CREATED"
  /\ UNCHANGED <<order, tracked, parcels, stage, sent, log, hooks>>

InsertRefused(c) ==
  /\ Advance(c, "checked", "idle")
  /\ ~NoRowYet
  /\ UNCHANGED <<order, shipment, tracked, parcels, stage, sent, log, hooks>>

\* External: the carrier registers the parcel; its answer may be lost.
CarrierAccepts(c) ==
  /\ \E to \in {"accepted", "failed"} : Advance(c, "asking", to)
  /\ parcels' = parcels + 1
  /\ stage' = "REGISTERED"
  /\ UNCHANGED <<order, shipment, tracked, sent, log, hooks>>

CarrierFails(c) ==
  /\ Advance(c, "asking", "failed")
  /\ UNCHANGED <<order, shipment, tracked, parcels, stage, sent, log, hooks>>

\* The carrier answered: status WAITING_PICKUP, whatever it is by now.
WriteWaiting(c) ==
  /\ Advance(c, "accepted", "noting")
  /\ shipment' = "WAITING_PICKUP"
  /\ tracked' = TRUE
  /\ UNCHANGED <<order, parcels, stage, sent, log, hooks>>

\* The database refuses the answer, or the history of it: same catch block.
WriteRefused(c) ==
  /\ \E from \in {"accepted", "noting"} : Advance(c, from, "failed")
  /\ UNCHANGED <<order, shipment, tracked, parcels, stage, sent, log, hooks>>

WriteHistory(c) ==
  /\ Advance(c, "noting", "idle")
  /\ UNCHANGED <<order, shipment, tracked, parcels, stage, sent, log, hooks>>

\* The catch block: status FAILED, whatever it is by now.
WriteFailed(c) ==
  /\ Advance(c, "failed", "idle")
  /\ shipment' = "FAILED"
  /\ UNCHANGED <<order, tracked, parcels, stage, sent, log, hooks>>

-----------------------------------------------------------------------------
(* The status machine of transitionStatus. *)

TransitionsBothWays ==
  {<<"PICKED_UP", "IN_TRANSIT">>, <<"IN_TRANSIT", "PICKED_UP">>}

Transitions ==
  {<<"CREATED", "WAITING_PICKUP">>, <<"CREATED", "CANCELLED">>,
   <<"WAITING_PICKUP", "PICKED_UP">>, <<"WAITING_PICKUP", "CANCELLED">>,
   <<"PICKED_UP", "IN_TRANSIT">>, <<"PICKED_UP", "FAILED">>,
   <<"PICKED_UP", "RETURNING">>,
   <<"IN_TRANSIT", "OUT_FOR_DELIVERY">>, <<"IN_TRANSIT", "FAILED">>,
   <<"IN_TRANSIT", "RETURNING">>,
   <<"OUT_FOR_DELIVERY", "DELIVERED">>, <<"OUT_FOR_DELIVERY", "FAILED">>,
   <<"OUT_FOR_DELIVERY", "RETURNING">>,
   <<"FAILED", "RETURNING">>, <<"FAILED", "CANCELLED">>,
   <<"RETURNING", "RETURNED">>}

MayTransit(to) ==
  /\ to = "CANCELLED" => shipment \in {"CREATED", "WAITING_PICKUP"}
  /\ shipment = "DELIVERED" => to = "DELIVERED"
  /\ <<shipment, to>> \in Transitions

\* The administrator names the status; cancelShipment is the move to CANCELLED.
UpdateStatus(to) ==
  /\ MayTransit(to)
  /\ shipment' = to
  /\ UNCHANGED <<order, tracked, calls, parcels, stage, sent, log, hooks>>

\* OrdersService: it knows nothing of shipments.
MoveOrder(to) ==
  /\ MayMove(order, to)
  /\ order' = to
  /\ UNCHANGED <<shipment, tracked, calls, parcels, stage, sent, log, hooks>>

-----------------------------------------------------------------------------
(* The carrier and handleWebhook. *)

CarrierMoves ==
  {<<"REGISTERED", "PICKED">>, <<"REGISTERED", "CANCELLED">>,
   <<"PICKED", "TRANSIT">>, <<"TRANSIT", "OUT_FOR_DELIVERY">>,
   <<"TRANSIT", "EXCEPTION">>, <<"OUT_FOR_DELIVERY", "DELIVERED">>,
   <<"OUT_FOR_DELIVERY", "EXCEPTION">>, <<"EXCEPTION", "RETURNED">>}

\* External: the parcel moves on, and the carrier reports it.
CarrierMovesOn(to) ==
  /\ <<stage, to>> \in CarrierMoves
  /\ stage' = to
  /\ sent' = sent \cup {to}
  /\ UNCHANGED <<order, shipment, tracked, calls, parcels, log, hooks>>

\* External: the carrier says something else of the parcel, at any stage.
CarrierSaysMore ==
  /\ stage # "NONE"
  /\ sent' = sent \cup {"OTHER"}
  /\ UNCHANGED <<order, shipment, tracked, calls, parcels, stage, log, hooks>>

\* Reports arrive in any order, late and more than once.
Delivered(h, o) ==
  /\ hooks[h] = AtRest
  /\ o \in sent

\* verifyCallback throws: a row under the code in the payload, unless it is there.
VerifyFails(h, o) ==
  /\ Flaky
  /\ Delivered(h, o)
  /\ log' = IF log = "NONE" THEN "OPEN" ELSE log
  /\ UNCHANGED <<order, shipment, tracked, calls, parcels, stage, sent, hooks>>

\* An event whose code is in the log is not looked at.
SkipSeen(h, o) ==
  /\ Delivered(h, o)
  /\ log # "NONE"
  /\ log' = "PROCESSED"
  /\ UNCHANGED <<order, shipment, tracked, calls, parcels, stage, sent, hooks>>

\* No shipment has the carrier's code yet.
RejectUnknown(h, o) ==
  /\ Delivered(h, o)
  /\ log = "NONE"
  /\ ~tracked
  /\ log' = "OPEN"
  /\ UNCHANGED <<order, shipment, tracked, calls, parcels, stage, sent, hooks>>

AcceptReport(h, o) ==
  /\ Delivered(h, o)
  /\ log = "NONE"
  /\ tracked
  /\ hooks' = [hooks EXCEPT ![h] = [step |-> "checked", report |-> o]]
  /\ UNCHANGED <<order, shipment, tracked, calls, parcels, stage, sent, log>>

\* mapGHNStatus: the carrier's word as a status, an unknown word IN_TRANSIT.
StatusOf(o) ==
  CASE o = "PICKED" -> "PICKED_UP"
    [] o \in {"TRANSIT", "OTHER"} -> "IN_TRANSIT"
    [] o = "EXCEPTION" -> "FAILED"
    [] OTHER -> o

\* transitionStatus; a report of the status the row has changes nothing, but
\* a cancelled shipment is not cancelled again.
ApplyUnmapped(h) == shipment' = hooks[h].report
ApplyUnchecked(h) == shipment' = StatusOf(hooks[h].report)
ApplyReport(h) ==
  LET to == StatusOf(hooks[h].report)
  IN  \/ shipment = to /\ to # "CANCELLED" /\ UNCHANGED shipment
      \/ MayTransit(to) /\ shipment' = to

HandleReport(h) ==
  /\ hooks[h].step = "checked"
  /\ ApplyReport(h)
  /\ hooks' = [hooks EXCEPT ![h].step = "applied"]
  /\ UNCHANGED <<order, tracked, calls, parcels, stage, sent, log>>

\* The move is not allowed or the transaction aborts: nothing is recorded.
RejectReport(h) ==
  /\ hooks[h].step = "checked"
  /\ hooks' = [hooks EXCEPT ![h] = AtRest]
  /\ UNCHANGED <<order, shipment, tracked, calls, parcels, stage, sent, log>>

\* The event is recorded, unless a request beside this one recorded it, and
\* then marked as processed, unless the request dies before that.
RecordEvent(h) ==
  /\ hooks[h].step = "applied"
  /\ hooks' = [hooks EXCEPT ![h] = AtRest]
  /\ log' \in IF log = "NONE" THEN {"OPEN", "PROCESSED"} ELSE {log}
  /\ UNCHANGED <<order, shipment, tracked, calls, parcels, stage, sent>>

-----------------------------------------------------------------------------
Next ==
  \/ \E c \in Call : \/ CheckShippable(c)
                     \/ InsertShipment(c)
                     \/ InsertRefused(c)
                     \/ CarrierAccepts(c)
                     \/ CarrierFails(c)
                     \/ WriteWaiting(c)
                     \/ WriteRefused(c)
                     \/ WriteHistory(c)
                     \/ WriteFailed(c)
  \/ \E to \in ShipStatus : UpdateStatus(to)
  \/ \E to \in Status : MoveOrder(to)
  \/ \E to \in Report : CarrierMovesOn(to)
  \/ CarrierSaysMore
  \/ \E h \in Hook : \/ \E o \in Report : \/ VerifyFails(h, o)
                                          \/ SkipSeen(h, o)
                                          \/ RejectUnknown(h, o)
                                          \/ AcceptReport(h, o)
                     \/ HandleReport(h)
                     \/ RejectReport(h)
                     \/ RecordEvent(h)

Spec == Init /\ [][Next]_vars

\* The carrier delivers every report again until it is answered with a 200,
\* and a request that works on one comes to its end.
FairSpec ==
  /\ Spec
  /\ \A h \in Hook :
       /\ \A o \in Report : SF_vars(SkipSeen(h, o) \/ RejectUnknown(h, o) \/ AcceptReport(h, o))
       /\ SF_vars(HandleReport(h))
       /\ WF_vars(RejectReport(h))
       /\ WF_vars(RecordEvent(h))

-----------------------------------------------------------------------------
(* The properties. *)

\* Whatever requests race, whether they fail, are retried or die in the
\* middle, the carrier registers one parcel for an order.
RegisteredOnce == parcels <= 1

\* How far a shipment is.
Rank ==
  [s \in ShipStatus |->
     CASE s = "NONE" -> 0
       [] s = "CREATED" -> 1
       [] s = "WAITING_PICKUP" -> 2
       [] s = "PICKED_UP" -> 3
       [] s = "IN_TRANSIT" -> 4
       [] s = "OUT_FOR_DELIVERY" -> 5
       [] s \in {"DELIVERED", "FAILED"} -> 6
       [] s = "RETURNING" -> 7
       [] s \in {"RETURNED", "CANCELLED"} -> 8]

\* A request that has asked the carrier and has a status to write.
Answering(c) == calls[c] \in {"accepted", "noting", "failed"}

\* Reports that come late, twice or in the wrong order never take a shipment
\* back: only the answer of a createShipment in flight does.
NeverRegresses ==
  [][(\A c \in Call : ~Answering(c)) => Rank[shipment'] >= Rank[shipment]]_vars

\* WEBHOOK_SPECIFICATION.md 6.1: a parcel reported in transit does not stay
\* PICKED_UP for ever.
TransitRecorded == "TRANSIT" \in sent ~> shipment # "PICKED_UP"
=============================================================================
