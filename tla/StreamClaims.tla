---------------------------- MODULE StreamClaims ----------------------------
(***************************************************************************)
(* What an example expects of the stream and the program does not do.      *)
(***************************************************************************)
EXTENDS StreamTasks

\* "Exit if the connection closes" (examples/server.rs:67): when the receive
\* task has ended, a read comes back instead of waiting.
ReaderLearnsOfTheEnd == pc[Receiver] = "ended" ~> pc[App] # "reading"
=============================================================================
