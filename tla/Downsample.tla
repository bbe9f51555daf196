----------------------------- MODULE Downsample -----------------------------
(***************************************************************************)
(* LTTB and DownsampleFollowerNum (services/anchor_follower_num.go): thin  *)
(* a time series to threshold points, the point of each bucket that spans  *)
(* the largest triangle.  A point is its index in the series; which point  *)
(* of a bucket wins depends on the numbers, so every one may.              *)
(***************************************************************************)
EXTENDS Naturals, Sequences

CONSTANT MaxPoints   \* bound: the points of a series

ASSUME DownsampleAssumption == MaxPoints \in Nat

VARIABLE thin   \* a series of n points under way, its threshold and its result

NoSeries == [at |-> "none", n |-> 0, threshold |-> 2, result |-> <<>>]
ThinInit == thin = NoSeries

Low(m, n) == IF m < n THEN m ELSE n

\* Bucket i, counted from 0 as in the code: the size is rounded down, the first
\* bucket is passed over, the end is cut.
Size(n, threshold) == (n - 2) \div (threshold - 2)
BucketUncut(n, threshold, i) ==
  ((i + 1) * Size(n, threshold) + 1)..((i + 2) * Size(n, threshold))
Bucket(n, threshold, i) ==
  ((i + 1) * Size(n, threshold) + 1)..(Low((i + 2) * Size(n, threshold) + 1, n) - 1)

\* DownsampleFollowerNum: no points give none, and no threshold is below two; a
\* series that is short enough is returned as it is.
DownsampleFollowerNum(n, threshold) ==
  LET least == IF threshold < 2 THEN 2 ELSE threshold
  IN /\ thin.at = "none"
     /\ thin' = IF n <= least
                THEN [at |-> "done", n |-> n, threshold |-> least,
                      result |-> [i \in 1..n |-> i - 1]]
                ELSE [at |-> "loop", n |-> n, threshold |-> least, result |-> <<0>>]

\* One turn of the loop of LTTB, which has made Len(result) - 1 of them; and what
\* follows the last.
LTTB ==
  LET i == Len(thin.result) - 1
  IN /\ thin.at = "loop"
     /\ IF i < thin.threshold - 2
        THEN \E point \in Bucket(thin.n, thin.threshold, i) :
               thin' = [thin EXCEPT !.result = Append(@, point)]
        ELSE thin' = [thin EXCEPT !.at = "done", !.result = Append(@, thin.n - 1)]

ThinStep ==
  \/ \E n, threshold \in 0..MaxPoints : DownsampleFollowerNum(n, threshold)
  \/ LTTB
  \/ thin.at = "done" /\ thin' = NoSeries

-----------------------------------------------------------------------------
(* Properties.                                                             *)

\* Though the buckets are cut by truncated division, none is empty and none runs
\* past the series: whatever the numbers, what is left of it is as long as asked
\* for, or as the series, and keeps its first point, its last and its order.
\* (The last point may come twice: the last bucket reaches up to it.)
Thinned ==
  LET s == thin.result
  IN /\ thin.at = "loop" /\ Len(s) - 1 < thin.threshold - 2 =>
          Bucket(thin.n, thin.threshold, Len(s) - 1) # {}
     /\ thin.at = "done" =>
          /\ Len(s) = Low(thin.n, thin.threshold)
          /\ thin.n > 0 => s[1] = 0 /\ s[Len(s)] = thin.n - 1
     /\ \A i \in 1..(Len(s) - 1) : s[i] <= s[i + 1]
     /\ \A i \in 1..Len(s) : s[i] < thin.n
=============================================================================
