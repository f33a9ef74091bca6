-------------------------- MODULE Payments_proofs --------------------------
(***************************************************************************)
(* Proofs about Payments for any number of requests, webhooks and events.  *)
(* That money is booked once is not inductive: the write at the end of     *)
(* createPayment erases a success, and only the order of events saves it.  *)
(* The invariant says that the gateway is asked once per order, that the   *)
(* customer has the link only after that, and that every event comes after *)
(* the link; so what is erased can only be a confirmation by hand, which   *)
(* changed the provider and closed the order.                              *)
(***************************************************************************)
EXTENDS Payments, TLAPS

Working(c) == calls[c] \in {"asking", "replying"}

\* One request works at the payment row, none before there is a row and none
\* after the customer has the link.
OneIntent ==
  /\ \A c, d \in Call : Working(c) /\ Working(d) => c = d
  /\ pay = NoPayment \/ link => \A c \in Call : ~Working(c)
  /\ pay = NoPayment => ~link

\* Events come after the link, webhooks after their events; a success was
\* reported by the gateway or confirmed by hand.
EventsFollowLink ==
  /\ sent # {} => link
  /\ \A h \in Hook : hooks[h] # NoEvent => hooks[h] \in sent
  /\ pay.status = "SUCCESS" => link \/ pay.provider = "MANUAL"

\* A webhook past its checks works on the gateway's payment or finds a success.
HandledIsGateways ==
  \A h \in Hook : hooks[h] # NoEvent =>
    pay.provider = "GATEWAY" \/ pay.status = "SUCCESS"

\* Once money is booked the order is closed, and the row says how: it is a
\* success, or one confirmed by hand whose status was overwritten.
BookedIsClosed ==
  captures # 0 =>
    /\ captures = 1
    /\ order # "PENDING_PAYMENT"
    /\ pay.status = "SUCCESS" \/ pay.provider = "MANUAL"

IInv ==
  /\ TypeOK
  /\ SuccessClosesOrder
  /\ PaidWasCaptured
  /\ OneIntent
  /\ EventsFollowLink
  /\ HandledIsGateways
  /\ BookedIsClosed

-----------------------------------------------------------------------------
LEMMA InitIInv == Init => IInv
<1> SUFFICES ASSUME Init PROVE IInv
  OBVIOUS
<1> USE PaymentsAssumption DEF Init
<1>1. TypeOK
  BY DEF TypeOK, Status, PayStatus, Provider, Phase, LogStatus, NoPayment, Event
<1>2. SuccessClosesOrder /\ PaidWasCaptured /\ BookedIsClosed
  BY DEF NoPayment, SuccessClosesOrder, PaidWasCaptured, BookedIsClosed
<1>3. OneIntent
  BY DEF OneIntent, Working
<1>4. EventsFollowLink /\ HandledIsGateways
  BY DEF EventsFollowLink, HandledIsGateways, NoPayment
<1> QED BY <1>1, <1>2, <1>3, <1>4 DEF IInv

-----------------------------------------------------------------------------
(* The requests of createPayment. *)

\* A request moves without touching the row, and does not start to work at it.
LEMMA QuietCall ==
  ASSUME IInv, NEW c \in Call, NEW to \in Phase \ {"asking", "replying"},
         calls' = [calls EXCEPT ![c] = to],
         UNCHANGED <<order, paid, pay, sent, log, hooks, captures>>,
         link' = link \/ (link' = TRUE /\ Working(c) /\ pay # NoPayment)
  PROVE  IInv'
<1> USE DEF IInv
<1>1. TypeOK'
  BY DEF TypeOK
<1>2. (SuccessClosesOrder /\ PaidWasCaptured /\ HandledIsGateways /\ BookedIsClosed)'
  BY DEF SuccessClosesOrder, PaidWasCaptured, HandledIsGateways, BookedIsClosed
<1>3. \A d \in Call : Working(d)' => Working(d) /\ d # c
  BY DEF Working, TypeOK
<1>4. OneIntent'
  BY <1>3 DEF OneIntent
<1>5. EventsFollowLink'
  BY DEF EventsFollowLink
<1> QED BY <1>1, <1>2, <1>4, <1>5

\* The row is inserted by the only request that will ask the gateway.
LEMMA InsertStep ==
  ASSUME IInv, NEW c \in Call, InsertPayment(c)
  PROVE  IInv'
<1> USE DEF IInv, InsertPayment, Advance, NoRowYet
<1>1. calls' = [calls EXCEPT ![c] = "asking"] /\ pay = NoPayment
  OBVIOUS
<1>2. ~link /\ sent = {} /\ captures = 0 /\ \A h \in Hook : hooks[h] = NoEvent
  BY <1>1 DEF OneIntent, EventsFollowLink, BookedIsClosed, NoPayment
<1>3. TypeOK'
  BY <1>1 DEF TypeOK, PayStatus, Provider, Phase
<1>4. OneIntent'
  <2>1. \A d \in Call : Working(d)' => d = c
    BY <1>1 DEF OneIntent, Working, TypeOK
  <2> QED BY <2>1, <1>2 DEF OneIntent, NoPayment
<1>5. (SuccessClosesOrder /\ PaidWasCaptured)'
  BY DEF SuccessClosesOrder, PaidWasCaptured
<1>6. (EventsFollowLink /\ HandledIsGateways /\ BookedIsClosed)'
  BY <1>2 DEF EventsFollowLink, HandledIsGateways, BookedIsClosed
<1> QED BY <1>3, <1>4, <1>5, <1>6

\* The unconditional write of the gateway's answer: what it may erase is a
\* confirmation by hand.
LEMMA AnswerStep ==
  ASSUME IInv, NEW c \in Call, IntentReady(c) \/ IntentFailed(c)
  PROVE  IInv'
<1> USE DEF IInv, IntentReady, IntentFailed, Advance
<1>1. /\ Working(c)
      /\ calls' = [calls EXCEPT ![c] = "replying"] \/ calls' = [calls EXCEPT ![c] = "idle"]
  BY DEF Working
<1>2. ~link /\ sent = {} /\ pay # NoPayment /\ \A h \in Hook : hooks[h] = NoEvent
  BY <1>1 DEF OneIntent, EventsFollowLink
<1>3. PICK st \in Active \cup {"FAILED"} : pay' = [pay EXCEPT !.status = st]
  BY DEF Active
<1>4. /\ pay' \in [status : PayStatus, provider : Provider]
      /\ pay'.status \notin {"SUCCESS", "NONE"} /\ pay'.provider = pay.provider
  BY <1>3 DEF TypeOK, PayStatus, Active
<1>5. TypeOK'
  BY <1>1, <1>4 DEF TypeOK, Phase
<1>6. \A d \in Call : Working(d)' => Working(d)
  BY <1>1 DEF Working, TypeOK
<1>7. OneIntent'
  BY <1>2, <1>4, <1>6 DEF OneIntent, NoPayment
<1>8. (SuccessClosesOrder /\ PaidWasCaptured)'
  BY <1>4 DEF SuccessClosesOrder, PaidWasCaptured
<1>9. (EventsFollowLink /\ HandledIsGateways)'
  BY <1>2, <1>4 DEF EventsFollowLink, HandledIsGateways
<1>10. BookedIsClosed'
  BY <1>2, <1>4 DEF BookedIsClosed, EventsFollowLink
<1> QED BY <1>5, <1>7, <1>8, <1>9, <1>10

-----------------------------------------------------------------------------
(* The administrator, the customer and the gateway. *)

LEMMA OfflineStep ==
  ASSUME IInv, ConfirmOfflinePayment
  PROVE  IInv'
<1> USE DEF IInv, ConfirmOfflinePayment
<1>1. TypeOK'
  BY DEF TypeOK, Status, PayStatus, Provider
<1>2. captures = 0
  BY DEF BookedIsClosed
<1>3. (SuccessClosesOrder /\ PaidWasCaptured /\ BookedIsClosed /\ HandledIsGateways)'
  BY <1>2 DEF SuccessClosesOrder, PaidWasCaptured, BookedIsClosed, HandledIsGateways
<1>4. OneIntent'
  BY DEF OneIntent, NoPayment, Working
<1>5. EventsFollowLink'
  BY DEF EventsFollowLink
<1> QED BY <1>1, <1>3, <1>4, <1>5

\* No endpoint moves an order back to PENDING_PAYMENT.
LEMMA MoveStep ==
  ASSUME IInv, NEW to \in Status, MoveOrder(to)
  PROVE  IInv'
<1> USE DEF IInv, MoveOrder
<1>1. to # "PENDING_PAYMENT"
  BY DEF MayMove, CustomerAllowed, AdminAllowed
<1>2. TypeOK'
  BY DEF TypeOK
<1>3. (SuccessClosesOrder /\ PaidWasCaptured /\ BookedIsClosed /\ HandledIsGateways)'
  BY <1>1 DEF SuccessClosesOrder, PaidWasCaptured, BookedIsClosed, HandledIsGateways
<1>4. OneIntent' /\ EventsFollowLink'
  BY DEF OneIntent, Working, EventsFollowLink
<1> QED BY <1>2, <1>3, <1>4

LEMMA EventStep ==
  ASSUME IInv, NEW e \in Event, GatewayEvent(e)
  PROVE  IInv'
<1> USE DEF IInv, GatewayEvent
<1>1. TypeOK'
  BY DEF TypeOK
<1>2. (SuccessClosesOrder /\ PaidWasCaptured /\ BookedIsClosed /\ HandledIsGateways)'
  BY DEF SuccessClosesOrder, PaidWasCaptured, BookedIsClosed, HandledIsGateways
<1>3. OneIntent' /\ EventsFollowLink'
  BY DEF OneIntent, Working, EventsFollowLink
<1> QED BY <1>1, <1>2, <1>3

-----------------------------------------------------------------------------
(* The webhooks. *)

\* A webhook that only writes the log, begins or gives up.
LEMMA QuietHook ==
  ASSUME IInv, NEW h \in Hook, NEW to \in {NoEvent} \cup sent,
         hooks' = hooks \/ hooks' = [hooks EXCEPT ![h] = to],
         to # NoEvent => pay.provider = "GATEWAY",
         log' \in [Event -> LogStatus],
         UNCHANGED <<order, paid, pay, calls, link, sent, captures>>
  PROVE  IInv'
<1> USE DEF IInv
<1>1. \A g \in Hook : hooks'[g] = hooks[g] \/ hooks'[g] = to
  BY DEF TypeOK
<1>2. TypeOK'
  BY DEF TypeOK
<1>3. (SuccessClosesOrder /\ PaidWasCaptured /\ BookedIsClosed)'
  BY DEF SuccessClosesOrder, PaidWasCaptured, BookedIsClosed
<1>4. OneIntent' /\ HandledIsGateways'
  BY <1>1 DEF OneIntent, Working, HandledIsGateways
<1>5. EventsFollowLink'
  BY <1>1 DEF EventsFollowLink
<1> QED BY <1>2, <1>3, <1>4, <1>5

\* A callback whose checks were made earlier, applied in its transaction.
LEMMA ApplyStep ==
  ASSUME IInv, NEW h \in Hook, ApplyCallback(h)
  PROVE  IInv'
<1> USE DEF IInv
<1> DEFINE e == hooks[h]
<1>1. /\ e # NoEvent /\ e \in Event /\ e \in sent
      /\ hooks' = [hooks EXCEPT ![h] = NoEvent]
      /\ UNCHANGED <<calls, link, sent>>
  BY DEF ApplyCallback, EventsFollowLink, TypeOK
<1>2. link /\ pay # NoPayment
  BY <1>1 DEF EventsFollowLink, OneIntent
<1>3. CASE AlreadyPaid
  <2>1. /\ log' = log \/ log' = [log EXCEPT ![e] = "DUPLICATE"]
        /\ UNCHANGED <<order, paid, pay, captures>>
    <3>1. pay.provider = "GATEWAY" \/ log' = [log EXCEPT ![e] = log[e]]
      BY <1>3 DEF ApplyCallback
    <3>2. log' = log \/ log' = [log EXCEPT ![e] = "DUPLICATE"]
      BY <1>1, <1>3, <3>1 DEF ApplyCallback, TypeOK
    <3> QED BY <1>3, <3>2 DEF ApplyCallback
  <2>2. log' \in [Event -> LogStatus]
    BY <1>1, <2>1 DEF TypeOK, LogStatus
  <2> QED BY <1>1, <2>1, <2>2, QuietHook
<1>4. CASE ~AlreadyPaid
  <2>1. /\ log' = [log EXCEPT ![e] = "PROCESSED"]
        /\ pay' = [pay EXCEPT !.status = Outcome(e)]
        /\ captures' = IF e \in Charge THEN captures + 1 ELSE captures
        /\ SyncOrder(e)
    BY <1>4 DEF ApplyCallback
  <2>2. pay.provider = "GATEWAY" /\ captures = 0
    BY <1>1, <1>4 DEF HandledIsGateways, AlreadyPaid, BookedIsClosed
  <2>3. /\ pay' \in [status : PayStatus, provider : Provider]
        /\ pay'.status = Outcome(e) /\ pay'.provider = "GATEWAY"
        /\ Outcome(e) \in {"SUCCESS", "FAILED"}
        /\ Outcome(e) = "SUCCESS" <=> e \in Charge
    BY <2>1, <2>2 DEF TypeOK, Outcome, PayStatus
  <2>4. /\ order' \in Status /\ paid' \in BOOLEAN
        /\ e \in Charge => order' # "PENDING_PAYMENT"
        /\ order # "PENDING_PAYMENT" => order' # "PENDING_PAYMENT"
        /\ paid' => paid \/ e \in Charge
    BY <2>1 DEF SyncOrder, TypeOK, Status
  <2>5. log' \in [Event -> LogStatus] /\ hooks' \in [Hook -> Event \cup {NoEvent}]
    BY <1>1, <2>1 DEF TypeOK, LogStatus
  <2>6. captures' = IF e \in Charge THEN 1 ELSE 0
    BY <2>1, <2>2
  <2>7. TypeOK'
    BY <1>1, <2>3, <2>4, <2>5, <2>6 DEF TypeOK
  <2>8. SuccessClosesOrder' /\ BookedIsClosed'
    BY <2>3, <2>4, <2>6 DEF SuccessClosesOrder, BookedIsClosed
  <2>9. PaidWasCaptured'
    BY <2>2, <2>4, <2>6 DEF PaidWasCaptured
  <2>10. OneIntent'
    BY <1>1, <1>2, <2>3 DEF OneIntent, Working, NoPayment
  <2>11. EventsFollowLink' /\ HandledIsGateways'
    BY <1>1, <1>2, <2>3 DEF EventsFollowLink, HandledIsGateways, TypeOK
  <2> QED BY <2>7, <2>8, <2>9, <2>10, <2>11
<1> QED BY <1>3, <1>4

-----------------------------------------------------------------------------
\* The invariant holds in every reachable state.
THEOREM Inductive == Spec => []IInv
<1>1. IInv /\ [Next]_vars => IInv'
  <2> SUFFICES ASSUME IInv, [Next]_vars PROVE IInv'
    OBVIOUS
  <2> USE DEF Advance
  <2>1. ASSUME NEW c \in Call, CheckPayable(c) \/ RetryPayment(c) \/ InsertRefused(c)
        PROVE  IInv'
    <3>1. PICK to \in {"checked", "retrying", "idle"} :
            calls' = [calls EXCEPT ![c] = to]
      BY <2>1 DEF CheckPayable, RetryPayment, InsertRefused
    <3>2. UNCHANGED <<order, paid, pay, sent, log, hooks, captures>> /\ link' = link
      BY <2>1 DEF CheckPayable, RetryPayment, InsertRefused
    <3>3. to \in Phase \ {"asking", "replying"}
      BY DEF Phase
    <3> QED BY <3>1, <3>2, <3>3, QuietCall
  <2>2. ASSUME NEW c \in Call, ReturnLink(c) PROVE IInv'
    <3>1. Working(c) /\ pay # NoPayment
      BY <2>2 DEF ReturnLink, Working, IInv, OneIntent
    <3>2. "idle" \in Phase \ {"asking", "replying"}
      BY DEF Phase
    <3> QED BY <2>2, <3>1, <3>2, QuietCall DEF ReturnLink
  <2>3. ASSUME NEW c \in Call, InsertPayment(c) PROVE IInv'
    BY <2>3, InsertStep
  <2>4. ASSUME NEW c \in Call, IntentReady(c) \/ IntentFailed(c) PROVE IInv'
    BY <2>4, AnswerStep
  <2>5. CASE ConfirmOfflinePayment
    BY <2>5, OfflineStep
  <2>6. ASSUME NEW to \in Status, MoveOrder(to) PROVE IInv'
    BY <2>6, MoveStep
  <2>7. ASSUME NEW e \in Event, GatewayEvent(e) PROVE IInv'
    BY <2>7, EventStep
  <2>8. ASSUME NEW h \in Hook, NEW e \in Event,
               VerifyFails(h, e) \/ SkipSeen(h, e) \/ RejectUnlocated(h, e) \/ RejectAmount(h, e)
        PROVE  IInv'
    <3>1. hooks' = hooks /\ UNCHANGED <<order, paid, pay, calls, link, sent, captures>>
      BY <2>8 DEF VerifyFails, SkipSeen, RejectUnlocated, RejectAmount, Reject
    <3>2. log' \in [Event -> LogStatus]
      BY <2>8 DEF VerifyFails, SkipSeen, RejectUnlocated, RejectAmount, Reject, LogFailure,
                  IInv, TypeOK, LogStatus
    <3> QED BY <3>1, <3>2, QuietHook
  <2>9. ASSUME NEW h \in Hook, NEW e \in Event, AcceptWebhook(h, e) PROVE IInv'
    <3>1. log' \in [Event -> LogStatus]
      BY <2>9 DEF AcceptWebhook, IInv, TypeOK
    <3> QED BY <2>9, <3>1, QuietHook DEF AcceptWebhook, Delivered, Located
  <2>10. ASSUME NEW h \in Hook, ApplyCallback(h) PROVE IInv'
    BY <2>10, ApplyStep
  <2>11. ASSUME NEW h \in Hook, AbortCallback(h) PROVE IInv'
    <3>1. log' \in [Event -> LogStatus]
      BY <2>11 DEF AbortCallback, IInv, TypeOK
    <3> QED BY <2>11, <3>1, QuietHook DEF AbortCallback
  <2>12. CASE UNCHANGED vars
    BY <2>12 DEF vars, IInv, TypeOK, SuccessClosesOrder, PaidWasCaptured, OneIntent,
              Working, EventsFollowLink, HandledIsGateways, BookedIsClosed
  <2> QED BY <2>1, <2>2, <2>3, <2>4, <2>5, <2>6, <2>7, <2>8, <2>9, <2>10, <2>11, <2>12
          DEF Next
<1> QED BY <1>1, InitIInv, PTL DEF Spec

\* Every variable keeps its type.
THEOREM TypeCorrect == Spec => []TypeOK
<1>1. IInv => TypeOK
  BY DEF IInv
<1> QED BY <1>1, Inductive, PTL

\* The money of an order is booked at most once.
THEOREM BookedOnce == Spec => []CapturedOnce
<1>1. IInv => CapturedOnce
  BY DEF IInv, BookedIsClosed, CapturedOnce, TypeOK
<1> QED BY <1>1, Inductive, PTL

\* A successful payment and an order open for payment never coexist.
THEOREM SuccessCloses == Spec => []SuccessClosesOrder
<1>1. IInv => SuccessClosesOrder
  BY DEF IInv
<1> QED BY <1>1, Inductive, PTL

\* payment_status is PAID only after money was booked.
THEOREM PaidCaptured == Spec => []PaidWasCaptured
<1>1. IInv => PaidWasCaptured
  BY DEF IInv
<1> QED BY <1>1, Inductive, PTL

\* No webhook, no move of the order and no other request undoes a success; the
\* unconditional write of a request that waits for its gateway alone can.
THEOREM SuccessSurvives == Spec => SuccessSurvivesWebhooks
<1> DEFINE Quiet == \A c \in Call : calls[c] # "asking"
<1>1. IInv /\ [Next]_vars => [pay.status = "SUCCESS" /\ Quiet => pay'.status = "SUCCESS"]_vars
  <2> SUFFICES ASSUME IInv, Next, pay.status = "SUCCESS", Quiet
               PROVE  pay'.status = "SUCCESS"
    OBVIOUS
  <2>1. pay # NoPayment
    BY DEF NoPayment
  <2>2. \A c \in Call : ~InsertPayment(c) /\ ~IntentReady(c) /\ ~IntentFailed(c)
    BY <2>1 DEF InsertPayment, NoRowYet, IntentReady, IntentFailed, Advance
  <2>3. ASSUME NEW h \in Hook, ApplyCallback(h) PROVE pay' = pay
    BY <2>3 DEF ApplyCallback, AlreadyPaid
  <2>4. ~ConfirmOfflinePayment
    BY DEF ConfirmOfflinePayment
  <2> QED BY <2>2, <2>3, <2>4 DEF Next, CheckPayable, RetryPayment, InsertRefused,
          ReturnLink, MoveOrder, GatewayEvent, VerifyFails, SkipSeen, RejectUnlocated,
          RejectAmount, Reject, AcceptWebhook, AbortCallback
<1> QED BY <1>1, Inductive, PTL DEF Spec, SuccessSurvivesWebhooks

-----------------------------------------------------------------------------
(* The safety half of ChargeNotLost: a charge not yet booked can be booked. *)

\* A row in the table names its provider, and a settled one its money.
RowsExplained ==
  /\ pay # NoPayment => pay.provider # "NONE"
  /\ pay.status = "SUCCESS" \/ pay.provider = "MANUAL" => captures # 0

\* While no money is booked, only a failed verification has logged a charge that can
\* be booked.
ChargesUnseen ==
  \A e \in Bookable :
    captures = 0 => log[e] = "NONE" \/ (Flaky /\ log[e] \in {"FAILED", "DUPLICATE"})

DueInv == IInv /\ RowsExplained /\ ChargesUnseen

\* A reported charge that is not booked is found its payment, agrees with it, and
\* meets a log without a row that would make handleWebhook pass it over.
ChargeDue(e) ==
  e \in sent /\ captures = 0 =>
    /\ Located(e)
    /\ e \notin Misstated
    /\ log[e] = "NONE" \/ (Flaky /\ log[e] \in {"FAILED", "DUPLICATE"})

\* A step of createPayment, of the administrator or of the gateway logs nothing.
LEMMA DueQuiet ==
  ASSUME DueInv, [Next]_vars, UNCHANGED log
  PROVE  ChargesUnseen'
<1>1. captures' = 0 => captures = 0
  BY DEF DueInv, IInv, TypeOK, Next, vars, CheckPayable, RetryPayment, InsertPayment,
         InsertRefused, IntentReady, IntentFailed, ReturnLink, ConfirmOfflinePayment,
         MoveOrder, GatewayEvent, VerifyFails, SkipSeen, RejectUnlocated, RejectAmount,
         Reject, AcceptWebhook, ApplyCallback, AbortCallback
<1> QED BY <1>1 DEF DueInv, ChargesUnseen

\* An event the shop was sent belongs to a payment with a row.
LEMMA EventHasRow ==
  ASSUME DueInv, NEW e \in sent
  PROVE  pay # NoPayment /\ pay.provider \in {"GATEWAY", "MANUAL"}
<1>1. pay # NoPayment
  BY DEF DueInv, IInv, EventsFollowLink, OneIntent
<1> QED BY <1>1 DEF DueInv, IInv, TypeOK, RowsExplained, Provider

\* What a delivery of e logs: a second look, a rejection or a failed verification.
\* A rejection is not for a charge that can be booked.
LEMMA DueDelivery ==
  ASSUME DueInv, NEW h \in Hook, NEW e \in Event,
         VerifyFails(h, e) \/ SkipSeen(h, e) \/ RejectUnlocated(h, e) \/ RejectAmount(h, e)
  PROVE  RowsExplained' /\ ChargesUnseen'
<1>1. UNCHANGED <<pay, captures>>
  BY DEF VerifyFails, SkipSeen, RejectUnlocated, RejectAmount, Reject
<1>2. RowsExplained'
  BY <1>1 DEF DueInv, RowsExplained
<1>3. ASSUME NEW c \in Bookable, captures = 0
      PROVE  log'[c] = "NONE" \/ (Flaky /\ log'[c] \in {"FAILED", "DUPLICATE"})
  <2>1. log[c] = "NONE" \/ (Flaky /\ log[c] \in {"FAILED", "DUPLICATE"})
    BY <1>3 DEF DueInv, ChargesUnseen
  <2>2. log \in [Event -> LogStatus] /\ c \in Event
    BY DEF DueInv, IInv, TypeOK, Event, Bookable
  <2>3. CASE VerifyFails(h, e)
    BY <2>1, <2>2, <2>3 DEF VerifyFails, LogFailure
  <2>4. CASE SkipSeen(h, e)
    BY <2>1, <2>2, <2>4 DEF SkipSeen
  <2>5. CASE RejectUnlocated(h, e) \/ RejectAmount(h, e)
    <3>1. log' = [log EXCEPT ![e] = log'[e]]
      BY <2>2, <2>5 DEF RejectUnlocated, RejectAmount, Reject, LogFailure
    <3>2. e \in sent
      BY <2>5 DEF RejectUnlocated, RejectAmount, Reject, Delivered
    <3>3. pay.provider = "GATEWAY"
      BY <1>3, <3>2, EventHasRow DEF DueInv, RowsExplained
    <3>4. e # c
      BY <2>5, <3>3 DEF RejectUnlocated, RejectAmount, Located, Bookable
    <3> QED BY <2>1, <2>2, <3>1, <3>4
  <2> QED BY <2>3, <2>4, <2>5
<1> QED BY <1>1, <1>2, <1>3 DEF ChargesUnseen

\* What the transaction of a callback logs it books, or it was booked before.
LEMMA DueApply ==
  ASSUME DueInv, NEW h \in Hook, ApplyCallback(h)
  PROVE  RowsExplained' /\ ChargesUnseen'
<1> DEFINE e == hooks[h]
<1>1. e \in sent /\ e \in Event /\ pay # NoPayment
  BY EventHasRow DEF ApplyCallback, DueInv, IInv, EventsFollowLink, TypeOK
<1>2. CASE AlreadyPaid
  <2>1. UNCHANGED <<pay, captures>> /\ captures # 0
    BY <1>2 DEF ApplyCallback, AlreadyPaid, DueInv, RowsExplained
  <2> QED BY <2>1 DEF DueInv, RowsExplained, ChargesUnseen
<1>3. CASE ~AlreadyPaid
  <2>1. /\ log' = [log EXCEPT ![e] = "PROCESSED"]
        /\ pay' = [pay EXCEPT !.status = Outcome(e)]
        /\ captures' = IF e \in Charge THEN captures + 1 ELSE captures
    BY <1>3 DEF ApplyCallback
  <2>2. captures \in Nat /\ log \in [Event -> LogStatus]
    BY DEF DueInv, IInv, TypeOK
  <2>3. pay'.provider = pay.provider /\ pay'.status = Outcome(e)
    BY <2>1 DEF DueInv, IInv, TypeOK
  <2>4. pay.provider # "NONE"
    BY <1>1 DEF DueInv, RowsExplained
  <2>5. Outcome(e) = "SUCCESS" <=> e \in Charge
    BY DEF Outcome
  <2> HIDE DEF e
  <2>6. RowsExplained'
    BY <2>1, <2>2, <2>3, <2>4, <2>5 DEF DueInv, RowsExplained
  <2>7. ChargesUnseen'
    <3>1. CASE e \in Charge
      BY <2>1, <2>2, <3>1 DEF ChargesUnseen
    <3>2. CASE e \notin Charge
      <4>1. captures' = captures /\ \A c \in Bookable : log'[c] = log[c]
        BY <1>1, <2>1, <2>2, <3>2 DEF Event, Bookable
      <4> QED BY <4>1 DEF DueInv, ChargesUnseen
    <3> QED BY <3>1, <3>2
  <2> QED BY <2>6, <2>7
<1> QED BY <1>2, <1>3

LEMMA DueNext == DueInv /\ IInv' /\ [Next]_vars => DueInv'
<1> SUFFICES ASSUME DueInv, [Next]_vars PROVE RowsExplained' /\ ChargesUnseen'
  BY DEF DueInv
<1> USE DEF Advance
<1>1. ASSUME NEW c \in Call,
             CheckPayable(c) \/ RetryPayment(c) \/ InsertRefused(c) \/ ReturnLink(c)
      PROVE  RowsExplained' /\ ChargesUnseen'
  <2>1. UNCHANGED <<pay, captures, log>>
    BY <1>1 DEF CheckPayable, RetryPayment, InsertRefused, ReturnLink
  <2> QED BY <2>1, DueQuiet DEF DueInv, RowsExplained
<1>2. ASSUME NEW c \in Call, InsertPayment(c) PROVE RowsExplained' /\ ChargesUnseen'
  <2>1. UNCHANGED log /\ pay' = [status |-> "CREATED", provider |-> "GATEWAY"]
    BY <1>2 DEF InsertPayment
  <2> QED BY <2>1, DueQuiet DEF RowsExplained
<1>3. ASSUME NEW c \in Call, IntentReady(c) \/ IntentFailed(c)
      PROVE  RowsExplained' /\ ChargesUnseen'
  <2>1. pay # NoPayment
    BY <1>3 DEF IntentReady, IntentFailed, DueInv, IInv, OneIntent, Working
  <2>2. /\ UNCHANGED <<log, captures>> /\ pay'.provider = pay.provider
        /\ pay'.status # "SUCCESS"
    BY <1>3 DEF IntentReady, IntentFailed, DueInv, IInv, TypeOK
  <2> QED BY <2>1, <2>2, DueQuiet DEF DueInv, RowsExplained
<1>4. CASE ConfirmOfflinePayment
  <2>1. captures' # 0 /\ pay'.provider # "NONE"
    BY <1>4 DEF ConfirmOfflinePayment, DueInv, IInv, TypeOK
  <2> QED BY <2>1 DEF RowsExplained, ChargesUnseen
<1>5. ASSUME NEW to \in Status, MoveOrder(to) PROVE RowsExplained' /\ ChargesUnseen'
  <2>1. UNCHANGED <<pay, captures, log>>
    BY <1>5 DEF MoveOrder
  <2> QED BY <2>1, DueQuiet DEF DueInv, RowsExplained
<1>6. ASSUME NEW e \in Event, GatewayEvent(e) PROVE RowsExplained' /\ ChargesUnseen'
  <2>1. UNCHANGED <<pay, captures, log>>
    BY <1>6 DEF GatewayEvent
  <2> QED BY <2>1, DueQuiet DEF DueInv, RowsExplained
<1>7. ASSUME NEW h \in Hook, NEW e \in Event,
             VerifyFails(h, e) \/ SkipSeen(h, e) \/ RejectUnlocated(h, e) \/ RejectAmount(h, e)
      PROVE  RowsExplained' /\ ChargesUnseen'
  BY <1>7, DueDelivery
<1>8. ASSUME NEW h \in Hook, ApplyCallback(h) PROVE RowsExplained' /\ ChargesUnseen'
  BY <1>8, DueApply
<1>9. ASSUME NEW h \in Hook, AbortCallback(h) \/ \E e \in Event : AcceptWebhook(h, e)
      PROVE  RowsExplained' /\ ChargesUnseen'
  <2>1. UNCHANGED <<pay, captures, log>>
    BY <1>9 DEF AbortCallback, AcceptWebhook
  <2> QED BY <2>1, DueQuiet DEF DueInv, RowsExplained
<1>10. CASE UNCHANGED vars
  <2>1. UNCHANGED <<pay, captures, log>>
    BY <1>10 DEF vars
  <2> QED BY <2>1, DueQuiet DEF DueInv, RowsExplained
<1> QED BY <1>1, <1>2, <1>3, <1>4, <1>5, <1>6, <1>7, <1>8, <1>9, <1>10 DEF Next

\* A charge that finds its payment, states its amount and has a transaction id of its
\* own stays one that can be booked until it is, or until a verification of it has
\* failed: no webhook handled meanwhile, none rejected, no abort, no retry of the
\* payment and no administrator makes the shop pass it over.  With a verification that
\* never fails, the next delivery is accepted.
THEOREM ChargesStayDue == Spec => [](\A e \in Bookable : ChargeDue(e))
<1>1. Init => RowsExplained /\ ChargesUnseen
  BY DEF Init, RowsExplained, ChargesUnseen, NoPayment, Event, Bookable
<1>2. DueInv => \A e \in Bookable : ChargeDue(e)
  <2> SUFFICES ASSUME DueInv, NEW e \in Bookable, e \in sent, captures = 0
               PROVE  Located(e) /\ e \notin Misstated
    BY DEF DueInv, ChargesUnseen, ChargeDue
  <2> QED BY EventHasRow DEF DueInv, RowsExplained, Located, Bookable
<1>3. Init => DueInv
  BY <1>1, InitIInv DEF DueInv
<1>4. Spec => []IInv
  BY Inductive
<1> QED BY <1>2, <1>3, <1>4, DueNext, PTL DEF Spec

-----------------------------------------------------------------------------
(* A gateway none of whose charges can be booked: PayPal. *)

\* What passed the checks of handleWebhook is of a payment and states its amount.
HandledPassed ==
  \A h \in Hook : hooks[h] # NoEvent => hooks[h] \notin Unmatched \cup Misstated

ByHand == captures # 0 => pay.provider = "MANUAL"

\* Whatever such a gateway reports, how often and in whatever order, it is an
\* administrator who has booked the money of an order, or nobody has.
THEOREM BookedByHandOnly ==
  ASSUME Bookable = {}
  PROVE  Spec => [](captures # 0 => pay.provider = "MANUAL")
<1> DEFINE HandInv == IInv /\ HandledPassed /\ ByHand
<1>1. Init => HandInv
  BY InitIInv DEF Init, HandledPassed, ByHand
<1>2. HandInv /\ IInv' /\ [Next]_vars => HandInv'
  <2> SUFFICES ASSUME HandInv, [Next]_vars PROVE HandledPassed' /\ ByHand'
    OBVIOUS
  <2> USE DEF HandledPassed, ByHand
  <2>1. ASSUME NEW c \in Call, InsertPayment(c) PROVE HandledPassed' /\ ByHand'
    <3>1. captures = 0
      BY <2>1 DEF InsertPayment, NoRowYet, NoPayment
    <3> QED BY <2>1, <3>1 DEF InsertPayment
  <2>2. ASSUME NEW c \in Call, IntentReady(c) \/ IntentFailed(c)
        PROVE  HandledPassed' /\ ByHand'
    BY <2>2 DEF IntentReady, IntentFailed, IInv, TypeOK
  <2>3. CASE ConfirmOfflinePayment
    BY <2>3 DEF ConfirmOfflinePayment
  <2>4. ASSUME NEW h \in Hook, NEW e \in Event, AcceptWebhook(h, e)
        PROVE  HandledPassed' /\ ByHand'
    BY <2>4 DEF AcceptWebhook, Located, IInv, TypeOK
  <2>5. ASSUME NEW h \in Hook, ApplyCallback(h) PROVE HandledPassed' /\ ByHand'
    <3>1. HandledPassed'
      BY <2>5 DEF ApplyCallback, IInv, TypeOK
    <3>2. hooks[h] \in Charge => AlreadyPaid
      BY <2>5 DEF ApplyCallback, InsertsFit, Bookable
    <3>3. captures' = captures /\ pay'.provider = pay.provider
      BY <2>5, <3>2 DEF ApplyCallback, IInv, TypeOK
    <3> QED BY <3>1, <3>3
  <2>6. ASSUME NEW h \in Hook, AbortCallback(h) PROVE HandledPassed' /\ ByHand'
    BY <2>6 DEF AbortCallback, IInv, TypeOK
  <2>7. CASE UNCHANGED <<pay, captures, hooks>>
    BY <2>7
  <2> QED BY <2>1, <2>2, <2>3, <2>4, <2>5, <2>6, <2>7
          DEF Next, vars, CheckPayable, RetryPayment, InsertRefused, ReturnLink, MoveOrder,
              GatewayEvent, VerifyFails, SkipSeen, RejectUnlocated, RejectAmount, Reject
<1>3. HandInv => (captures # 0 => pay.provider = "MANUAL")
  BY DEF ByHand
<1>4. Spec => []IInv
  BY Inductive
<1> QED BY <1>1, <1>2, <1>3, <1>4, PTL DEF Spec
=============================================================================
