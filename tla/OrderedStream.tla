--------------------------- MODULE OrderedStream ---------------------------
(***************************************************************************)
(* What a connection promises to one direction of a byte stream cut into   *)
(* chunks 1, 2, 3, ...: the receiver takes the chunks in the order they    *)
(* were written, each once, and the sender forgets a chunk only when the   *)
(* receiver has it.  There are no packets, acknowledgements or losses.     *)
(***************************************************************************)
EXTENDS Naturals, Sequences

CONSTANT WriteSizes   \* numbers of chunks of one write

VARIABLES
  written,    \* number of chunks written so far
  unacked,    \* chunks the sender still keeps
  stored,     \* chunks the receiver keeps ahead of a gap
  received    \* chunks the receiver has taken, oldest first

vars == <<written, unacked, stored, received>>

Held(c) == c <= Len(received) \/ c \in stored

Init ==
  /\ written = 0
  /\ unacked = {} /\ stored = {}
  /\ received = << >>

Write(k) ==
  /\ written' = written + k
  /\ unacked' = unacked \cup (written + 1 .. written + k)
  /\ UNCHANGED <<stored, received>>

\* A chunk arrives ahead of a gap.
Store(c) ==
  /\ c \in Len(received) + 2 .. written
  /\ stored' = stored \cup {c}
  /\ UNCHANGED <<written, unacked, received>>

\* The next chunk arrives, and takes with it the stored ones up to the next gap.
Take(n) ==
  /\ n \in Len(received) + 1 .. written
  /\ Len(received) + 2 .. n \subseteq stored
  /\ n + 1 \notin stored
  /\ received' = [i \in 1 .. n |-> i]
  /\ stored' = {c \in stored : c > n}
  /\ UNCHANGED <<written, unacked>>

Forget(S) ==
  /\ \A c \in S : Held(c)
  /\ unacked' = unacked \ S
  /\ UNCHANGED <<written, stored, received>>

Next ==
  \/ \E k \in WriteSizes : Write(k)
  \/ \E n \in 1 .. written : Store(n) \/ Take(n)
  \/ \E S \in SUBSET unacked : Forget(S)

Spec == Init /\ [][Next]_vars
=============================================================================
