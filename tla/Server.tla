------------------------------- MODULE Server -------------------------------
(***************************************************************************)
(* osrm-routed as a server (Server/Server.h, routed.cpp): the acceptor     *)
(* waits for clients, the threads of the io_service run the handlers of    *)
(* connections, and main() waits for a signal, stops the io_service and    *)
(* gives the threads two seconds.  One connection is followed.             *)
(***************************************************************************)
EXTENDS HttpConnection

VARIABLES
    acceptor,       \* "accepting", or "idle" when no accept is pending
    process         \* main(): "running", "stopping", "exited", "aborted"

serverVars == <<vars, acceptor, process>>

Init == ConnectionInit /\ acceptor = "accepting" /\ process = "running"

\* HandleAccept starts the connection and accepts the next one.
HandleAccept ==
    /\ process = "running" /\ acceptor = "accepting"
    /\ Start
    /\ UNCHANGED <<acceptor, process>>

\* After an error no further accept is started.
AcceptFails ==
    /\ process = "running" /\ acceptor = "accepting" /\ errors < MaxErrors
    /\ acceptor' = "idle" /\ errors' = errors + 1
    /\ UNCHANGED <<request, unread, parser, phase, asked, reply, output, alive, sent, process>>

\* A thread of the io_service runs a handler.
RunHandler == process = "running" /\ (Handle \/ Fail) /\ UNCHANGED <<acceptor, process>>

\* Nothing catches what a handler throws in a thread.
HandlerThrows ==
    /\ process = "running"
    /\ RemoteEndpointThrows
    /\ process' = "aborted"
    /\ UNCHANGED acceptor

\* A signal arrives and sigwait returns: no handler is started any more.
Stop ==
    /\ process = "running"
    /\ process' = "stopping"
    /\ UNCHANGED <<vars, acceptor>>

\* Threads end when their handlers have returned.  If this takes longer than two seconds
\* the process is aborted: server_task was moved away, so that its reset() throws.
Shutdown ==
    /\ process = "stopping"
    /\ process' \in {"exited", "aborted"}
    /\ UNCHANGED <<vars, acceptor>>

Next == HandleAccept \/ AcceptFails \/ RunHandler \/ HandlerThrows \/ Stop \/ Shutdown

\* The threads run the handlers that are due, and main() ends what it began; nothing makes
\* clients connect or signals arrive.
Spec ==
    /\ Init /\ [][Next]_serverVars
    /\ WF_serverVars(RunHandler) /\ WF_serverVars(Shutdown)

-----------------------------------------------------------------------------
\* A complete request of an accepted connection is answered and the connection closed,
\* unless the process ends (Connection, Server): no sequence of partial reads leaves the
\* server waiting for more, and a failed accept does not disturb connections that are open.
RequestsAreAnswered ==
    phase = "reading" /\ request.valid ~> phase = "closed" \/ process \in {"exited", "aborted"}
=============================================================================
