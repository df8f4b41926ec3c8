----------------------------- MODULE UtpClaims -----------------------------
(***************************************************************************)
(* What comments of socket.rs say of the connection and the program does   *)
(* not do.  Each claim is refuted by a run of its own.                     *)
(***************************************************************************)
EXTENDS UtpConnection

\* "I got a packet ... that has already been acknowledged" (socket.rs:617):
\* the data that the last branch ignores was delivered before.
IgnoredDataWasAcknowledged ==
  [][\A e \in Endpoint : \A p \in net[e] :
       RecvDataOld(e, p) => \E i \in DOMAIN delivered[e] : delivered[e][i] = p.data]_vars

\* "Handling an ACK for a previously sent SYN" (socket.rs:481): the State packet
\* of the handshake takes nothing but the Syn out of the window.
OnlyTheSynIsAcked ==
  [][\A p \in net[Client] :
       RecvStateSynSent(Client, p) =>
         {q \in sent_window[Client] : q.type = "Data"} \subseteq sent_window'[Client]]_vars
=============================================================================
