------------------------------- MODULE Totals -------------------------------
(***************************************************************************)
(* Sums over a numbered family, said without recursion so that the proof   *)
(* system can reason about them: `n` is the total of f[1], ..., f[N] when  *)
(* there is a running total that starts at 0, grows by f[i] at step i and  *)
(* ends at n.  The terms are natural numbers, so the running total ascends.*)
(* Max bounds the totals that are looked for.                              *)
(***************************************************************************)
EXTENDS Integers

RunningTotal(total, f, N) ==
  /\ total[0] = 0
  /\ \A i \in 1 .. N : total[i] = total[i - 1] + f[i]
  /\ \A i, j \in 0 .. N : i <= j => total[i] <= total[j]

IsTotal(n, f, N, Max) ==
  \E total \in [0 .. N -> 0 .. Max] :
    /\ RunningTotal(total, f, N)
    /\ total[N] = n
=============================================================================
