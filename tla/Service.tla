------------------------------- MODULE Service -------------------------------
(***************************************************************************)
(* The main thread from the command line to its replies: Startup, and then *)
(* one request after the other, each answered by one of the functions of   *)
(* Replies or, like signOut and a request that does not parse, by none.    *)
(***************************************************************************)
EXTENDS Startup, Replies

vars == <<startupVars, replyVars>>

Init == StartupInit /\ RepliesInit

\* The thread is at startup or in accept().
Prepare == step = "idle" /\ StartupNext /\ UNCHANGED replyVars

\* A client was accepted: its request is answered.
Serve ==
    /\ clients = "client"
    /\ RepliesNext
    /\ clients' = IF step' = "idle" THEN "none" ELSE clients
    /\ UNCHANGED <<asserts, pc, g_serverIp, g_httpsPort, m_handle, bound, listening, failed>>

Next == Prepare \/ Serve

Spec == Init /\ [][Next]_vars

\* main() goes on after a failed create(), bind() or listen(), whose results it
\* ignores.  It never replies on a socket that was set up in part only.
RepliesOnlyIfReady == reply.kind # "none" => failed = {}
=============================================================================
