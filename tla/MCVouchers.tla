---------------------------- MODULE MCVouchers ----------------------------
(* Small instances of Vouchers for TLC. *)
EXTENDS Vouchers, TLC

CONSTANTS v1, v2, sale, o1, o2, o3, ann, bob

\* Two vouchers of one promotion; ann places two of the three orders.
BothOfSale == [v \in Voucher |-> sale]
AnnTwice == [o \in Order |-> IF o = o3 THEN bob ELSE ann]

Interchangeable == Permutations(Voucher) \cup Permutations(Order \ {o3})
=============================================================================
