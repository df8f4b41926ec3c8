--------------------------- MODULE SkippingStream ---------------------------
(***************************************************************************)
(* What is left of a byte stream, cut into chunks 1, 2, 3, ..., when both  *)
(* ends of the connection write: chunks may be skipped for good, but those *)
(* that are received come in the order in which they were written, each    *)
(* once.                                                                   *)
(***************************************************************************)
EXTENDS Naturals, Sequences

CONSTANT WriteSizes   \* numbers of chunks of one write

VARIABLES
  written,    \* number of chunks written so far
  received    \* chunks the receiver has taken, oldest first

vars == <<written, received>>

Ascending(s) == \A i, j \in 1 .. Len(s) : i < j => s[i] < s[j]

Init ==
  /\ written = 0
  /\ received = << >>

Write(k) ==
  /\ written' = written + k
  /\ UNCHANGED received

\* One or more chunks that were written, and all after the ones received before.
Take(cs) ==
  /\ Ascending(received \o cs)
  /\ received' = received \o cs
  /\ UNCHANGED written

Next ==
  \/ \E k \in WriteSizes : Write(k)
  \/ \E n \in 1 .. written : \E cs \in [1 .. n -> 1 .. written] : Take(cs)

Spec == Init /\ [][Next]_vars
=============================================================================
