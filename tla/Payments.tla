------------------------------ MODULE Payments ------------------------------
(***************************************************************************)
(* The payment of one order: PaymentsService with the gateway it calls and *)
(* the webhooks the gateway sends back.  Nothing in the service joins two  *)
(* orders (payment.order_id is unique), so one order shows everything.     *)
(*                                                                         *)
(* createPayment is not a transaction: between its look at the order, the  *)
(* insertion of the row, the call of the gateway and the write of what the *)
(* gateway answered, anything may happen, and the write looks at nothing   *)
(* again.  handleWebhook looks at the log and at the payment first and     *)
(* applies the event in a SERIALIZABLE transaction later.  A process that  *)
(* dies is one that takes no further step.                                 *)
(*                                                                         *)
(* The status FAILED stands for CANCELLED as well, which the service treats*)
(* alike.  Amounts, currencies, the texts kept beside a status, order      *)
(* history and the idempotency key are left out.  Definitions no action    *)
(* uses are mutants: the definition after each, with a plausible bug.      *)
(***************************************************************************)
EXTENDS Naturals, OrderStatus

CONSTANTS
  Call,         \* createPayment requests
  Hook,         \* webhook requests handled at the same time
  Decline,      \* events: an attempt to pay fails or is called off
  Charge,       \* events: the customer's money is taken
  NoEvent,
  Flaky,        \* may the verification of a callback fail for a while?
  SameTxn,      \* events that carry the transaction id of the intent (PayPal's
                \* CHECKOUT.ORDER events)
  Unmatched,    \* events that locatePayment finds no payment for (PayPal's
                \* PAYMENT.CAPTURE events: an id of their own, and the payment's
                \* id where an order's is looked for)
  Misstated     \* events of another amount than the payment's (MoMo reports whole
                \* dong, PayPal's amount is read from another field)

Event == Decline \cup Charge

\* Charges that find their payment and fit in beside its intent: MoMo's and VNPay's.
Bookable == Charge \ (SameTxn \cup Unmatched \cup Misstated)

ASSUME PaymentsAssumption ==
  /\ Charge \cap Decline = {}
  /\ NoEvent \notin Event
  /\ Flaky \in BOOLEAN
  /\ SameTxn \cup Unmatched \cup Misstated \subseteq Event

VARIABLES
  order,     \* order.status
  paid,      \* order.payment_status = PAID
  pay,       \* the payment row: its status and provider
  calls,     \* how far each createPayment request is
  link,      \* has the customer got the gateway's checkout URL?
  sent,      \* events the gateway has for the shop
  log,       \* payment_webhook_log.status of each event
  hooks,     \* the event each webhook request is about to apply
  captures   \* payment_transaction: successful captures

vars == <<order, paid, pay, calls, link, sent, log, hooks, captures>>

PayStatus == {"NONE", "CREATED", "PENDING", "SUCCESS", "FAILED"}
Active == {"CREATED", "PENDING"}
Provider == {"NONE", "GATEWAY", "MANUAL"}
Phase == {"idle", "checked", "retrying", "asking", "replying"}
LogStatus == {"NONE", "PROCESSED", "FAILED", "DUPLICATE"}

NoPayment == [status |-> "NONE", provider |-> "NONE"]

TypeOK ==
  /\ order \in Status
  /\ paid \in BOOLEAN
  /\ pay \in [status : PayStatus, provider : Provider]
  /\ calls \in [Call -> Phase]
  /\ link \in BOOLEAN
  /\ sent \subseteq Event
  /\ log \in [Event -> LogStatus]
  /\ hooks \in [Hook -> Event \cup {NoEvent}]
  /\ captures \in Nat

Init ==
  /\ order = "PENDING_PAYMENT"
  /\ paid = FALSE
  /\ pay = NoPayment
  /\ calls = [c \in Call |-> "idle"]
  /\ link = FALSE
  /\ sent = {}
  /\ log = [e \in Event |-> "NONE"]
  /\ hooks = [h \in Hook |-> NoEvent]
  /\ captures = 0

-----------------------------------------------------------------------------
(* createPayment and retryPayment. *)

Advance(c, from, to) ==
  /\ calls[c] = from
  /\ calls' = [calls EXCEPT ![c] = to]

\* Steps 1 to 3; a second payment is refused while the first is active.
CheckPayable(c) ==
  /\ Advance(c, "idle", "checked")
  /\ order = "PENDING_PAYMENT"
  /\ pay.status \notin Active
  /\ UNCHANGED <<order, paid, pay, link, sent, log, hooks, captures>>

\* retryPayment, which calls createPayment for the order of a FAILED payment.
RetryPayment(c) ==
  /\ Advance(c, "idle", "retrying")
  /\ pay.status = "FAILED"
  /\ order = "PENDING_PAYMENT"
  /\ UNCHANGED <<order, paid, pay, link, sent, log, hooks, captures>>

\* INSERT fails when the order has a payment row: order_id is unique.
NoRowYet == pay = NoPayment

InsertPayment(c) ==
  /\ \E from \in {"checked", "retrying"} : Advance(c, from, "asking")
  /\ NoRowYet
  /\ pay' = [status |-> "CREATED", provider |-> "GATEWAY"]
  /\ UNCHANGED <<order, paid, link, sent, log, hooks, captures>>

InsertRefused(c) ==
  /\ \E from \in {"checked", "retrying"} : Advance(c, from, "idle")
  /\ ~NoRowYet
  /\ UNCHANGED <<order, paid, pay, link, sent, log, hooks, captures>>

\* The gateway answered: status PENDING, whatever it is by now.
IntentReady(c) ==
  /\ Advance(c, "asking", "replying")
  /\ pay' = [pay EXCEPT !.status = "PENDING"]
  /\ UNCHANGED <<order, paid, link, sent, log, hooks, captures>>

\* The gateway failed: status FAILED, whatever it is by now.
IntentFailed(c) ==
  /\ Advance(c, "asking", "idle")
  /\ pay' = [pay EXCEPT !.status = "FAILED"]
  /\ UNCHANGED <<order, paid, link, sent, log, hooks, captures>>

\* The INITIATED transaction is recorded and the URL returned.
ReturnLink(c) ==
  /\ Advance(c, "replying", "idle")
  /\ link' = TRUE
  /\ UNCHANGED <<order, paid, pay, sent, log, hooks, captures>>

-----------------------------------------------------------------------------
(* The administrator, the customer and the gateway. *)

ConfirmOfflinePayment ==
  /\ order = "PENDING_PAYMENT"
  /\ pay.status # "SUCCESS"
  /\ pay' = [status |-> "SUCCESS", provider |-> "MANUAL"]
  /\ order' = "PAID"
  /\ paid' = TRUE
  /\ captures' = captures + 1
  /\ UNCHANGED <<calls, link, sent, log, hooks>>

\* transitionStatus, which leaves payment_status and the payment row alone.
MoveOrder(to) ==
  /\ MayMove(order, to)
  /\ order' = to
  /\ UNCHANGED <<paid, pay, calls, link, sent, log, hooks, captures>>

\* External: the customer tries to pay at the gateway, again and again.
GatewayEvent(e) ==
  /\ link
  /\ e \notin sent
  /\ sent' = sent \cup {e}
  /\ UNCHANGED <<order, paid, pay, calls, link, log, hooks, captures>>

-----------------------------------------------------------------------------
(* handleWebhook.  The gateway delivers an event again and again until it  *)
(* is answered with a 200, and perhaps once more when the answer is lost.  *)

Delivered(h, e) ==
  /\ hooks[h] = NoEvent
  /\ e \in sent

\* createWebhookLog fails, and so changes nothing, when the event has a row.
LogFailure(e) == log' = [log EXCEPT ![e] = IF @ = "NONE" THEN "FAILED" ELSE @]

\* verifyCallback throws: the event is logged under the id in its payload.
VerifyFails(h, e) ==
  /\ Flaky
  /\ Delivered(h, e)
  /\ LogFailure(e)
  /\ UNCHANGED <<order, paid, pay, calls, link, sent, hooks, captures>>

\* An event with a row in the log is not looked at again, processed or not.
SkipSeen(h, e) ==
  /\ Delivered(h, e)
  /\ log[e] # "NONE"
  /\ log' = [log EXCEPT ![e] = IF @ = "PROCESSED" THEN @ ELSE "DUPLICATE"]
  /\ UNCHANGED <<order, paid, pay, calls, link, sent, hooks, captures>>

\* locatePayment finds the payment, and its provider is the sender: not so when it
\* was confirmed by hand in between.
Located(e) == e \notin Unmatched /\ pay.provider = "GATEWAY"

\* The answer is an error; the redelivery it provokes meets the row in the log.
Reject(h, e) ==
  /\ Delivered(h, e)
  /\ log[e] = "NONE"
  /\ LogFailure(e)
  /\ UNCHANGED <<order, paid, pay, calls, link, sent, hooks, captures>>

RejectUnlocated(h, e) == ~Located(e) /\ Reject(h, e)
RejectAmount(h, e) == Located(e) /\ e \in Misstated /\ Reject(h, e)

\* Steps 2 to 5, outside the transaction.
AcceptWebhook(h, e) ==
  /\ Delivered(h, e)
  /\ log[e] = "NONE"
  /\ Located(e)
  /\ e \notin Misstated
  /\ hooks' = [hooks EXCEPT ![h] = e]
  /\ UNCHANGED <<order, paid, pay, calls, link, sent, log, captures>>

OutcomeOfOrder(e) == IF e \in Charge THEN "PAID" ELSE "FAILED"
Outcome(e) == IF e \in Charge THEN "SUCCESS" ELSE "FAILED"

\* What a success does to the order, in the transaction of the payment.
SyncAnyOutcome(e) ==
  IF order = "PENDING_PAYMENT"
  THEN order' = "PAID" /\ paid' = TRUE
  ELSE UNCHANGED <<order, paid>>
SyncOrder(e) ==
  IF e \in Charge /\ order = "PENDING_PAYMENT"
  THEN order' = "PAID" /\ paid' = TRUE
  ELSE UNCHANGED <<order, paid>>

AlreadyPaidUnchecked == FALSE
AlreadySettled == pay.status \in {"SUCCESS", "FAILED"}
AlreadyPaid == pay.status = "SUCCESS"

\* The inserts of applyCallback that a unique index may refuse: the log row
\* (provider, event id) and the transaction row (payment, transaction id).
InsertsFit(e) ==
  /\ log[e] = "NONE"
  /\ AlreadyPaid \/ e \notin SameTxn

\* The event of a payment confirmed by hand meanwhile is logged under MANUAL,
\* where no redelivery looks for it.
ApplyCallback(h) ==
  LET e == hooks[h]
  IN  /\ e # NoEvent
      /\ InsertsFit(e)
      /\ hooks' = [hooks EXCEPT ![h] = NoEvent]
      /\ IF AlreadyPaid
         THEN /\ log' = [log EXCEPT ![e] =
                            IF pay.provider = "GATEWAY" THEN "DUPLICATE" ELSE @]
              /\ UNCHANGED <<order, paid, pay, captures>>
         ELSE /\ log' = [log EXCEPT ![e] = "PROCESSED"]
              /\ pay' = [pay EXCEPT !.status = Outcome(e)]
              /\ captures' = IF e \in Charge THEN captures + 1 ELSE captures
              /\ SyncOrder(e)
      /\ UNCHANGED <<calls, link, sent>>

\* The transaction does not serialize, times out or meets a unique index.
AbortCallback(h) ==
  /\ hooks[h] # NoEvent
  /\ hooks' = [hooks EXCEPT ![h] = NoEvent]
  /\ UNCHANGED <<order, paid, pay, calls, link, sent, log, captures>>

-----------------------------------------------------------------------------
Next ==
  \/ \E c \in Call : \/ CheckPayable(c)
                     \/ RetryPayment(c)
                     \/ InsertPayment(c)
                     \/ InsertRefused(c)
                     \/ IntentReady(c)
                     \/ IntentFailed(c)
                     \/ ReturnLink(c)
  \/ ConfirmOfflinePayment
  \/ \E to \in Status : MoveOrder(to)
  \/ \E e \in Event : GatewayEvent(e)
  \/ \E h \in Hook : \/ \E e \in Event : \/ VerifyFails(h, e)
                                         \/ SkipSeen(h, e)
                                         \/ RejectUnlocated(h, e)
                                         \/ RejectAmount(h, e)
                                         \/ AcceptWebhook(h, e)
                     \/ ApplyCallback(h)
                     \/ AbortCallback(h)

Spec == Init /\ [][Next]_vars

\* The gateway redelivers each charge until it is answered with a 200, and a
\* transaction tried again and again commits in the end.  The other parties
\* owe nothing, and a createPayment may die at any step.
Redelivery(e) ==
  \E h \in Hook : \/ SkipSeen(h, e)
                  \/ RejectUnlocated(h, e)
                  \/ RejectAmount(h, e)
                  \/ AcceptWebhook(h, e)

FairSpec ==
  /\ Spec
  /\ \A e \in Charge : SF_vars(Redelivery(e))
  /\ \A h \in Hook : SF_vars(ApplyCallback(h)) /\ WF_vars(AbortCallback(h))

-----------------------------------------------------------------------------
(* The properties. *)

\* Whatever is delivered twice, late or while the administrator confirms by
\* hand, the money of an order is booked once.
CapturedOnce == captures <= 1

\* The order leaves PENDING_PAYMENT with the payment: no state of the database
\* shows a successful payment and an order that may be paid again.
SuccessClosesOrder == pay.status = "SUCCESS" => order # "PENDING_PAYMENT"

\* payment_status says PAID only when money was booked, by whichever way.
PaidWasCaptured == paid => captures > 0

\* BR-PAY-007: no webhook, late or duplicated, undoes a success; only a
\* createPayment still waiting for its gateway does.
SuccessSurvivesWebhooks ==
  [][pay.status = "SUCCESS" /\ (\A c \in Call : calls[c] # "asking")
       => pay'.status = "SUCCESS"]_vars

\* A charge that finds its payment, states its amount and has a transaction id of
\* its own is booked in the end, whatever failures, repetitions and aborted
\* transactions come in between, unless a verification of the report failed once.
\* PayPal sends no such charge: see ChargeBooked.
ChargeNotLost ==
  \A e \in Bookable :
    (e \in sent /\ log[e] \notin {"FAILED", "DUPLICATE"})
      ~> (captures > 0 \/ log[e] = "FAILED")

\* src/docs/04-api-design/API_TRACEABILITY.md:293, of the webhook of PayPal:
\* "payment.captured | Order confirmed".  A customer whose money was taken is in the
\* end one whose payment is booked.  Not so with PayPal, when all of its events are
\* reported: that of the capture finds no payment, and those of the order collide with
\* the transaction of the intent.
ChargeBooked == Charge \subseteq sent ~> captures > 0
=============================================================================
