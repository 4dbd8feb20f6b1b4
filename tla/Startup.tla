------------------------------- MODULE Startup -------------------------------
(***************************************************************************)
(* From the command line to the first client: main() of server.cpp up to   *)
(* its loop, and create, bind, listen and accept of the server's TcpSocket *)
(* (platform_socket.cpp).  main() looks at none of the results of the      *)
(* three calls; what a later call does after a failure is up to the OS.    *)
(*                                                                         *)
(* The OS is external.  It refuses a handle that is no socket, an address  *)
(* that is not one of its own and a listen() without a bind(), and may     *)
(* refuse anything else at any time.  It chooses a port for port 0.        *)
(***************************************************************************)
EXTENDS Naturals

CONSTANT Ports       \* bound: the numbers given with -p

ASSUME StartupAssumption == Ports \subseteq Nat

DefaultPort == 4433

VARIABLES
    asserts,     \* the build has assertions
    pc,          \* "getopt", "certificate", "create", "bind", "listen", "loop", "exited"
    g_serverIp,  \* "", "any", "own" (an address of this computer), "foreign" (any other text)
    g_httpsPort,
    m_handle,    \* 0 or 1, a socket
    bound,       \* [ip, port] the socket is bound to, or Unbound
    listening,
    failed,      \* ghost: the calls that returned -1
    clients      \* how accept() returned: "error", "timeout", "client"; "none" before and
                 \* after a client

startupVars == <<asserts, pc, g_serverIp, g_httpsPort, m_handle, bound, listening, failed, clients>>

Unbound == [ip |-> "none", port |-> 0]
AnyPort == 65536     \* the port that the OS chooses

StartupInit ==
    /\ asserts \in BOOLEAN
    /\ pc = "getopt"
    /\ g_serverIp = ""
    /\ g_httpsPort = DefaultPort
    /\ m_handle = 0
    /\ bound = Unbound
    /\ listening = FALSE
    /\ failed = {}
    /\ clients = "none"

-----------------------------------------------------------------------------
\* argc < 3, or an option that getopt does not know.
Usage ==
    /\ pc = "getopt"
    /\ pc' = "exited"
    /\ UNCHANGED <<asserts, g_serverIp, g_httpsPort, m_handle, bound, listening, failed, clients>>

\* (uint16_t)atoi(optarg)
AsPort(p) == p % 65536

\* Any options, one at least.
GetOpt ==
    /\ pc = "getopt"
    /\ g_serverIp' \in {"", "any", "own", "foreign"}
    /\ g_httpsPort' \in {DefaultPort} \cup {AsPort(p) : p \in Ports}
    /\ pc' = "certificate"
    /\ UNCHANGED <<asserts, m_handle, bound, listening, failed, clients>>

CertificateLoaded ==
    /\ pc = "certificate"
    /\ pc' = "create"
    /\ UNCHANGED <<asserts, g_serverIp, g_httpsPort, m_handle, bound, listening, failed, clients>>

CertificateFails ==
    /\ pc = "certificate"
    /\ pc' = "exited"
    /\ UNCHANGED <<asserts, g_serverIp, g_httpsPort, m_handle, bound, listening, failed, clients>>

-----------------------------------------------------------------------------
\* assert(m_handle == 0 && !m_ip.empty() && m_port != 0)
Precondition == m_handle = 0 /\ g_serverIp # "" /\ g_httpsPort # 0

AssertFails ==
    /\ pc = "create"
    /\ asserts /\ ~Precondition
    /\ pc' = "exited"
    /\ UNCHANGED <<asserts, g_serverIp, g_httpsPort, m_handle, bound, listening, failed, clients>>

create ==
    /\ pc = "create"
    /\ ~asserts \/ Precondition
    /\ m_handle' = 1
    /\ pc' = "bind"
    /\ UNCHANGED <<asserts, g_serverIp, g_httpsPort, bound, listening, failed, clients>>

\* Mutant: m_handle is set before SO_REUSEADDR is.
createFailsLate ==
    /\ pc = "create"
    /\ ~asserts \/ Precondition
    /\ m_handle' = 1
    /\ failed' = failed \cup {"create"}
    /\ pc' = "bind"
    /\ UNCHANGED <<asserts, g_serverIp, g_httpsPort, bound, listening, clients>>

\* WSAStartup, socket or setsockopt(SO_REUSEADDR) fails.
createFails ==
    /\ pc = "create"
    /\ ~asserts \/ Precondition
    /\ failed' = failed \cup {"create"}
    /\ pc' = "bind"
    /\ UNCHANGED <<asserts, g_serverIp, g_httpsPort, m_handle, bound, listening, clients>>

bind ==
    /\ pc = "bind"
    /\ m_handle = 1
    /\ g_serverIp # "foreign"
    /\ bound' = [ip |-> g_serverIp, port |-> IF g_httpsPort = 0 THEN AnyPort ELSE g_httpsPort]
    /\ pc' = "listen"
    /\ UNCHANGED <<asserts, g_serverIp, g_httpsPort, m_handle, listening, failed, clients>>

bindFails ==
    /\ pc = "bind"
    /\ failed' = failed \cup {"bind"}
    /\ pc' = "listen"
    /\ UNCHANGED <<asserts, g_serverIp, g_httpsPort, m_handle, bound, listening, clients>>

listen ==
    /\ pc = "listen"
    /\ bound # Unbound
    /\ listening' = TRUE
    /\ pc' = "loop"
    /\ UNCHANGED <<asserts, g_serverIp, g_httpsPort, m_handle, bound, failed, clients>>

listenFails ==
    /\ pc = "listen"
    /\ failed' = failed \cup {"listen"}
    /\ pc' = "loop"
    /\ UNCHANGED <<asserts, g_serverIp, g_httpsPort, m_handle, bound, listening, clients>>

-----------------------------------------------------------------------------
\* The loop around accept(), which goes on whatever it returns.
acceptReturns(how) ==
    /\ pc = "loop"
    /\ how = "timeout" => m_handle = 1
    /\ how = "client" => listening
    /\ clients' = how
    /\ UNCHANGED <<asserts, pc, g_serverIp, g_httpsPort, m_handle, bound, listening, failed>>

Exited == pc = "exited" /\ UNCHANGED startupVars

StartupNext ==
    \/ Usage
    \/ GetOpt
    \/ CertificateLoaded
    \/ CertificateFails
    \/ AssertFails
    \/ create
    \/ createFails
    \/ bind
    \/ bindFails
    \/ listen
    \/ listenFails
    \/ \E how \in {"error", "timeout", "client"} : acceptReturns(how)
    \/ Exited

-----------------------------------------------------------------------------
\* What a failed call leaves behind makes the next one fail.
StartupInv ==
    /\ m_handle = 1 /\ pc = "bind" => failed = {}
    /\ bound # Unbound /\ pc \in {"bind", "listen"} => failed = {} /\ pc # "bind"
    /\ listening => failed = {} /\ pc = "loop"
    /\ pc \in {"getopt", "certificate", "create"} => failed = {} /\ m_handle = 0 /\ bound = Unbound
    /\ clients = "client" => failed = {} /\ pc = "loop"
=============================================================================
