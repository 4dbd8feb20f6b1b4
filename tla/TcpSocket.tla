------------------------------ MODULE TcpSocket ------------------------------
(***************************************************************************)
(* The heap objects of class TcpSocket (platform_socket.h, .cpp) that the  *)
(* server accepts, and the OS handle and SSL session each one stands for.  *)
(*                                                                         *)
(* A member of Sockets is a heap address: it is used again after its       *)
(* object was deleted, so a stale pointer may point to somebody else's     *)
(* socket and not only to nothing.  The bytes are abstracted away: written *)
(* counts the HTTP replies put on the socket since it was accepted.  The   *)
(* callers ignore what Socket::write returns, so a reply that the network  *)
(* loses takes the same steps as one that arrives.                         *)
(***************************************************************************)
EXTENDS Naturals

CONSTANTS Sockets,   \* the addresses a TcpSocket may have: a bound on the sockets open at once
          NoSocket   \* nullptr

ASSUME SocketsAssumption == NoSocket \notin Sockets

VARIABLES handle,    \* [Sockets -> HandleStates]
          written,   \* [Sockets -> Nat]
          wanted     \* [Sockets -> Nat]: the peer whose messages its request waits for, or 0

socketVars == <<handle, written, wanted>>

\* "open": a live TcpSocket object.  "orphaned": accept() gave up after the
\* OS had handed over the connection, so no object stands for the handle.
HandleStates == {"closed", "open", "orphaned"}

SocketTypeOK ==
    /\ handle \in [Sockets -> HandleStates]
    /\ written \in [Sockets -> Nat]
    /\ wanted \in [Sockets -> Nat]

SocketInit ==
    /\ handle = [s \in Sockets |-> "closed"]
    /\ written = [s \in Sockets |-> 0]
    /\ wanted = [s \in Sockets |-> 0]

\* TcpSocket::accept returns a new object.
AcceptSocket(s) ==
    /\ handle[s] = "closed"
    /\ handle' = [handle EXCEPT ![s] = "open"]
    /\ UNCHANGED <<written, wanted>>

\* TcpSocket::accept returns nullptr because SSL_new or SSL_accept failed;
\* neither the SSL session nor the handle is released on that path.
OrphanSocket(s) ==
    /\ handle[s] = "closed"
    /\ handle' = [handle EXCEPT ![s] = "orphaned"]
    /\ UNCHANGED <<written, wanted>>

\* Socket::read of a request that waits for the messages of peer p (0: does not).
ReadSocket(s, p) ==
    /\ wanted' = [wanted EXCEPT ![s] = p]
    /\ UNCHANGED <<handle, written>>

\* Socket::write of one reply (header and body).
WriteSocket(s) ==
    /\ written' = [written EXCEPT ![s] = @ + 1]
    /\ UNCHANGED <<handle, wanted>>

\* Socket::~Socket: SSL_free and closesocket.
DeleteSocket(s) ==
    /\ handle' = [handle EXCEPT ![s] = "closed"]
    /\ written' = [written EXCEPT ![s] = 0]
    /\ wanted' = [wanted EXCEPT ![s] = 0]
=============================================================================
