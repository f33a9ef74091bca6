----------------------------- MODULE MCPayments -----------------------------
(* Small instances of Payments for TLC. *)
EXTENDS Payments, TLC

CONSTANTS c1, c2, h1, h2, d1, x1, x2, x3
=============================================================================
