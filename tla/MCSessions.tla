----------------------------- MODULE MCSessions -----------------------------
(* Small instances of Sessions for TLC: a browser with two tabs. *)
EXTENDS Sessions, TLC

CONSTANTS b1, t1, t2, r1, r2

\* Requests and tabs are interchangeable.
Interchangeable == Permutations(Request) \cup Permutations(Tab)

TwoTabs == (t1 :> b1) @@ (t2 :> b1)
=============================================================================
