------------------------------ MODULE Amounts ------------------------------
(***************************************************************************)
(* LEAST and GREATEST of two amounts, which SQL and Math.min and Math.max  *)
(* share.                                                                  *)
(***************************************************************************)
EXTENDS Integers

Least(a, b) == IF a <= b THEN a ELSE b
Greatest(a, b) == IF a >= b THEN a ELSE b
=============================================================================
