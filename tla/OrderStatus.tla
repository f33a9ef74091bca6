---------------------------- MODULE OrderStatus ----------------------------
(***************************************************************************)
(* The status of an order and the moves OrdersService.transitionStatus     *)
(* lets a customer or an administrator make.  Payments make the move       *)
(* PENDING_PAYMENT -> PAID on their own, without asking these tables.      *)
(***************************************************************************)

Status ==
  {"PENDING_PAYMENT", "PAID", "PROCESSING", "PACKED", "SHIPPED", "DELIVERING",
   "DELIVERED", "CANCELLED", "REFUNDED", "RETURN_REQUESTED", "RETURNED"}

CustomerAllowed ==
  {<<"PENDING_PAYMENT", "CANCELLED">>, <<"DELIVERED", "RETURN_REQUESTED">>,
   <<"RETURN_REQUESTED", "RETURNED">>}

AdminMayReopen ==
  {<<"PENDING_PAYMENT", "PAID">>, <<"CANCELLED", "PENDING_PAYMENT">>}

AdminAllowed ==
  {<<"PENDING_PAYMENT", "PAID">>, <<"PENDING_PAYMENT", "CANCELLED">>,
   <<"PAID", "PROCESSING">>,
   <<"PROCESSING", "PACKED">>, <<"PROCESSING", "CANCELLED">>,
   <<"PACKED", "SHIPPED">>, <<"SHIPPED", "DELIVERING">>,
   <<"DELIVERING", "DELIVERED">>, <<"DELIVERED", "REFUNDED">>,
   <<"RETURNED", "REFUNDED">>}

\* The two endpoints: a customer asks for CANCELLED only, an administrator
\* names the status.
MayMove(from, to) ==
  \/ to = "CANCELLED" /\ <<from, to>> \in CustomerAllowed
  \/ <<from, to>> \in AdminAllowed
=============================================================================
