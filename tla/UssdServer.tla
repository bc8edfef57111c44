------------------------------ MODULE UssdServer ------------------------------
(***************************************************************************)
(* The socket servers of the USSD gateway (SocketTCPServer.cs with the     *)
(* HandleClientAsync that AirtelSocketServer.cs and TNMSocketServer.cs     *)
(* share): the accept loop, one task per client, the session table that    *)
(* the tasks share without a lock, and Stop, which runs beside all of it.  *)
(*                                                                         *)
(* A message is abstracted to what the handler tells apart: "dial" is the  *)
(* message that opens a session, "input" a later one, "junk" one that      *)
(* Process returns null for, "broken" one that makes it or Map throw.      *)
(* Framing.tla models how messages are cut from the stream.                *)
(***************************************************************************)
EXTENDS Naturals, FiniteSets, SequencesExt

CONSTANTS
    Clients,      \* connections
    Sessions,     \* USSD session ids
    NoMessage,    \* what an idle handler holds
    MaxMessages   \* bound: messages read from all connections

ASSUME BoundAssumption == MaxMessages \in Nat

VARIABLES
    acceptor,   \* where the loop of StartAsync is
    incoming,   \* the client it has accepted
    cancelled,  \* _cts is cancelled
    stop,       \* where Stop is
    toClose,    \* the clients Stop's foreach has still to see
    clients,    \* ConnectedClients
    sock,       \* each client's socket
    task,       \* where each client's HandleClientAsync is
    current,    \* the request it is handling
    reads,      \* messages read so far
    sessions,   \* the keys of _sessions
    torn,       \* two threads have written _sessions at once
    owner,      \* history: the one connection of a session that began with a dial
    calls,      \* history: the FirstRequest flags sent to the API for each session
    known       \* history: ConnectedClients when Stop began

serverVars == <<acceptor, incoming, cancelled, stop, toClose, clients, known>>
tableVars == <<sessions, torn>>
history == <<owner, calls>>
vars == <<serverVars, sock, task, current, reads, tableVars, history>>

------------------------------------------------------------------------------

Kinds == {"dial", "input", "junk", "broken"}

Request == [session : Sessions, first : BOOLEAN]

SocketStates == {"absent", "backlog", "open", "closed"}

\* owner[s] before the first request of s, and when s is not one connection's.
Unasked == "unasked"
Shared == "shared"

\* Neither is a connection.
ASSUME OwnerAssumption == Clients \cap {Unasked, Shared} = {}

\* HandleClientAsync is under way.
Running == {"reading", "mapping", "unknown", "adding", "calling", "replying", "cleanup"}

Goto(c, place) == task' = [task EXCEPT ![c] = place]

CloseSocket(c) == sock' = [sock EXCEPT ![c] = "closed"]

------------------------------------------------------------------------------

Init ==
    /\ acceptor = "off"
    /\ incoming = NoMessage
    /\ cancelled = FALSE
    /\ stop = "no"
    /\ toClose = {}
    /\ clients = {}
    /\ sock = [c \in Clients |-> "absent"]
    /\ task = [c \in Clients |-> "none"]
    /\ current = [c \in Clients |-> NoMessage]
    /\ reads = 0
    /\ sessions = {}
    /\ torn = FALSE
    /\ owner = [s \in Sessions |-> Unasked]
    /\ calls = [s \in Sessions |-> <<>>]
    /\ known = {}

handlerVars == <<task, current, reads, tableVars, history>>
stopVars == <<cancelled, stop, toClose, known>>

\* StartAsync binds and listens.
Start ==
    /\ acceptor = "off"
    /\ acceptor' = "waiting"
    /\ UNCHANGED <<incoming, stopVars, clients, sock, handlerVars>>

\* A peer connects; the kernel queues it while the listener is open.
Connect(c) ==
    /\ acceptor # "off"
    /\ stop # "stopped"
    /\ sock[c] = "absent"
    /\ sock' = [sock EXCEPT ![c] = "backlog"]
    /\ UNCHANGED <<serverVars, handlerVars>>

\* A peer closes or resets its connection.
PeerCloses(c) ==
    /\ sock[c] = "open"
    /\ CloseSocket(c)
    /\ UNCHANGED <<serverVars, handlerVars>>

\* EndAccept returns a socket.
Accept(c) ==
    /\ acceptor = "waiting"
    /\ sock[c] = "backlog"
    /\ acceptor' = "accepted"
    /\ incoming' = c
    /\ sock' = [sock EXCEPT ![c] = "open"]
    /\ UNCHANGED <<stopVars, clients, handlerVars>>

\* ConnectedClients[clientId] = clientSocket.
Track ==
    /\ acceptor = "accepted"
    /\ acceptor' = "tracked"
    /\ clients' = clients \cup {incoming}
    /\ UNCHANGED <<incoming, stopVars, sock, handlerVars>>

\* Task.Run with _cts.Token: a cancelled token means that the task never runs.
\* Then the loop tests the token.
SpawnAlways ==                                                     \* mutant
    /\ acceptor = "tracked"
    /\ Goto(incoming, "queued")
    /\ acceptor' = IF cancelled THEN "ended" ELSE "waiting"
    /\ incoming' = NoMessage
    /\ UNCHANGED <<stopVars, clients, sock, current, reads, tableVars, history>>
Spawn ==
    /\ acceptor = "tracked"
    /\ Goto(incoming, IF cancelled THEN "cancelled" ELSE "queued")
    /\ acceptor' = IF cancelled THEN "ended" ELSE "waiting"
    /\ incoming' = NoMessage
    /\ UNCHANGED <<stopVars, clients, sock, current, reads, tableVars, history>>

\* EndAccept throws: ObjectDisposedException once Stop has closed the listener,
\* which the loop catches, or a SocketException, which ends StartAsync (some
\* runtimes report the closed listener so, too).
AcceptEnds ==
    /\ acceptor = "waiting"
    /\ \/ acceptor' = "ended" /\ stop = "stopped"
       \/ acceptor' = "failed"
    /\ UNCHANGED <<incoming, stopVars, clients, sock, handlerVars>>

------------------------------------------------------------------------------

\* Stop: _cts.Cancel().  The foreach sees at least the clients there are now; the
\* enumerator of a ConcurrentDictionary may or may not see later ones.
StopCancel ==
    /\ acceptor # "off"
    /\ stop = "no"
    /\ stop' = "closing"
    /\ cancelled' = TRUE
    /\ toClose' = clients
    /\ known' = clients
    /\ UNCHANGED <<acceptor, incoming, clients, sock, handlerVars>>

\* Shutdown and Close of one client.
StopClose(c) ==
    /\ stop = "closing"
    /\ c \in clients
    /\ CloseSocket(c)
    /\ toClose' = toClose \ {c}
    /\ UNCHANGED <<acceptor, incoming, cancelled, stop, clients, known, handlerVars>>

\* ConnectedClients.Clear(), when no client is left that the foreach must see:
\* one that is removed meanwhile is skipped.
StopClearAtOnce ==                                                 \* mutant
    /\ stop = "closing"
    /\ stop' = "cleared"
    /\ toClose' = {}
    /\ clients' = {}
    /\ UNCHANGED <<acceptor, incoming, cancelled, known, sock, handlerVars>>
StopClear ==
    /\ stop = "closing"
    /\ toClose \cap clients = {}
    /\ stop' = "cleared"
    /\ toClose' = {}
    /\ clients' = {}
    /\ UNCHANGED <<acceptor, incoming, cancelled, known, sock, handlerVars>>

\* _listenerSocket.Close(): the kernel resets what is still in the backlog.
StopListener ==
    /\ stop = "cleared"
    /\ stop' = "stopped"
    /\ sock' = [c \in Clients |-> IF sock[c] = "backlog" THEN "closed" ELSE sock[c]]
    /\ UNCHANGED <<acceptor, incoming, cancelled, toClose, clients, known, handlerVars>>

------------------------------------------------------------------------------

\* The thread pool starts the task, or finds its token cancelled.
Begin(c) ==
    /\ task[c] = "queued"
    /\ Goto(c, IF cancelled THEN "cancelled" ELSE "reading")
    /\ UNCHANGED <<serverVars, sock, current, reads, tableVars, history>>

\* Whose session s is once c has sent a request for it.
OwnerAfter(c, kind, s) ==
    IF owner[s] = c \/ (owner[s] = Unasked /\ kind = "dial") THEN c ELSE Shared

\* ReadMessageAsync returns a message of session s.  The handler skips what
\* Process does not recognise, and ends on what throws.
ReadMessage(c, kind, s) ==
    /\ task[c] = "reading"
    /\ sock[c] = "open"
    /\ reads < MaxMessages
    /\ reads' = reads + 1
    /\ CASE kind = "junk" -> UNCHANGED <<task, current, owner>>
         [] kind = "broken" -> Goto(c, "cleanup") /\ UNCHANGED <<current, owner>>
         [] OTHER ->
              /\ Goto(c, "mapping")
              /\ current' = [current EXCEPT ![c] = [session |-> s, first |-> kind = "dial"]]
              /\ owner' = [owner EXCEPT ![s] = OwnerAfter(c, kind, s)]
    /\ UNCHANGED <<serverVars, sock, tableVars, calls>>

\* ReadMessageAsync throws: the handler breaks out of its loop.
ReadFailsContinues(c) ==                                           \* mutant
    /\ task[c] = "reading"
    /\ sock[c] = "closed"
    /\ Goto(c, "reading")
    /\ UNCHANGED <<serverVars, sock, current, reads, tableVars, history>>
ReadFails(c) ==
    /\ task[c] = "reading"
    /\ sock[c] = "closed"
    /\ Goto(c, "cleanup")
    /\ UNCHANGED <<serverVars, sock, current, reads, tableVars, history>>

\* Process(serverRequest): the call of the API starts.
StartCall(c, r) ==
    /\ Goto(c, "calling")
    /\ current' = [current EXCEPT ![c] = r]
    /\ calls' = [calls EXCEPT ![r.session] = Append(@, r.first)]

\* Another thread is inside _sessions.Add.
OtherAdds(c) == \E d \in Clients \ {c} : task[d] = "adding"

\* A Dictionary that is being written, or that two threads have written at once,
\* may answer anything.
Unreliable(c) == torn \/ OtherAdds(c)

\* After Map: ContainsKey finds the session, so this is not its first request.
KnownSessionKeepsFlag(c) ==                                        \* mutant
    /\ task[c] = "mapping"
    /\ current[c].session \in sessions
    /\ StartCall(c, current[c])
    /\ UNCHANGED <<serverVars, sock, reads, tableVars, owner>>
KnownSession(c) ==
    /\ task[c] = "mapping"
    /\ current[c].session \in sessions
    /\ StartCall(c, [current[c] EXCEPT !.first = FALSE])
    /\ UNCHANGED <<serverVars, sock, reads, tableVars, owner>>

\* ContainsKey does not find it: the handler goes on to Add.
UnknownSession(c) ==
    /\ task[c] = "mapping"
    /\ current[c].session \notin sessions \/ Unreliable(c)
    /\ Goto(c, "unknown")
    /\ UNCHANGED <<serverVars, sock, current, reads, tableVars, history>>

\* ContainsKey, or the indexer after it, throws.
LookupFails(c) ==
    /\ task[c] = "mapping"
    /\ Unreliable(c)
    /\ Goto(c, "cleanup")
    /\ UNCHANGED <<serverVars, sock, current, reads, tableVars, history>>

\* The thread enters _sessions.Add; two at once tear the table.
BeginAdd(c) ==
    /\ task[c] = "unknown"
    /\ Goto(c, "adding")
    /\ torn' = (torn \/ OtherAdds(c))
    /\ UNCHANGED <<serverVars, sock, current, reads, sessions, history>>

\* Add inserts the session, or throws because the key is there.
AddSessionQuietly(c) ==                                            \* mutant
    /\ task[c] = "adding"
    /\ ~torn
    /\ sessions' = sessions \cup {current[c].session}
    /\ StartCall(c, current[c])
    /\ UNCHANGED <<serverVars, sock, reads, torn, owner>>
AddSession(c) ==
    /\ task[c] = "adding"
    /\ ~torn
    /\ IF current[c].session \in sessions
       THEN Goto(c, "cleanup") /\ UNCHANGED <<sessions, current, calls>>
       ELSE /\ sessions' = sessions \cup {current[c].session}
            /\ StartCall(c, current[c])
    /\ UNCHANGED <<serverVars, sock, reads, torn, owner>>

\* Add on a torn table: any key may be lost, and it may throw or not.
AddTorn(c) ==
    /\ task[c] = "adding"
    /\ torn
    /\ sessions' \in SUBSET (sessions \cup {current[c].session})
    /\ \/ StartCall(c, current[c])
       \/ Goto(c, "cleanup") /\ UNCHANGED <<current, calls>>
    /\ UNCHANGED <<serverVars, sock, reads, torn, owner>>

\* The API answers, or the call fails, returns null and the request is skipped.
AnswerKeepsRequest(c) ==                                           \* mutant
    /\ task[c] = "calling"
    /\ Goto(c, "replying") \/ Goto(c, "reading")
    /\ UNCHANGED <<serverVars, sock, current, reads, tableVars, history>>
Answer(c) ==
    /\ task[c] = "calling"
    /\ \/ Goto(c, "replying") /\ UNCHANGED current
       \/ /\ Goto(c, "reading")
          /\ current' = [current EXCEPT ![c] = NoMessage]
    /\ UNCHANGED <<serverVars, sock, reads, tableVars, history>>

\* The answer is mapped and serialised, which may throw, and WriteMessageAsync
\* sends it, or throws: surely when the socket is closed.
ReplyRetries(c) ==                                                 \* mutant
    /\ task[c] = "replying"
    /\ IF sock[c] = "open"
       THEN Goto(c, "reading") /\ current' = [current EXCEPT ![c] = NoMessage]
       ELSE UNCHANGED <<task, current>>
    /\ UNCHANGED <<serverVars, sock, reads, tableVars, history>>
Reply(c) ==
    /\ task[c] = "replying"
    /\ \/ sock[c] = "open" /\ Goto(c, "reading")
       \/ Goto(c, "cleanup")
    /\ current' = [current EXCEPT ![c] = NoMessage]
    /\ UNCHANGED <<serverVars, sock, reads, tableVars, history>>

\* The finally of HandleClientWrapperAsync.
CleanupIfConnected(c) ==                                           \* mutant
    /\ task[c] = "cleanup"
    /\ CloseSocket(c)
    /\ clients' = IF sock[c] = "open" THEN clients \ {c} ELSE clients
    /\ Goto(c, "done")
    /\ current' = [current EXCEPT ![c] = NoMessage]
    /\ UNCHANGED <<acceptor, incoming, stopVars, reads, tableVars, history>>
Cleanup(c) ==
    /\ task[c] = "cleanup"
    /\ CloseSocket(c)
    /\ clients' = clients \ {c}
    /\ Goto(c, "done")
    /\ current' = [current EXCEPT ![c] = NoMessage]
    /\ UNCHANGED <<acceptor, incoming, stopVars, reads, tableVars, history>>

Handle(c) ==
    \/ Begin(c) \/ ReadFails(c)
    \/ KnownSession(c) \/ UnknownSession(c) \/ LookupFails(c)
    \/ BeginAdd(c) \/ AddSession(c) \/ AddTorn(c)
    \/ Answer(c) \/ Reply(c) \/ Cleanup(c)

StopStep == (\E c \in Clients : StopClose(c)) \/ StopClear \/ StopListener

Next ==
    \/ Start \/ Track \/ Spawn \/ AcceptEnds
    \/ StopCancel \/ StopStep
    \/ \E c \in Clients :
          \/ Connect(c) \/ PeerCloses(c) \/ Accept(c)
          \/ \E kind \in Kinds, s \in Sessions : ReadMessage(c, kind, s)
          \/ Handle(c)

\* The threads of the handlers and of Stop run, and the API's calls return (the
\* HTTP client of ApiCall times out; TcpCall relies on the API to answer or to
\* close).
Fairness ==
    /\ WF_vars(Track \/ Spawn)
    /\ WF_vars(StopClear)
    /\ WF_vars(StopListener)
    /\ \A c \in Clients :
          /\ WF_vars(c \in toClose /\ StopClose(c))
          /\ WF_vars(Handle(c))

Spec == Init /\ [][Next]_vars

FairSpec == Spec /\ Fairness

------------------------------------------------------------------------------

\* The loop, the tasks and the session table hold what the code can put there,
\* and only a handler that is between a read and its reply holds a request.
TypeOK ==
    /\ acceptor \in {"off", "waiting", "accepted", "tracked", "ended", "failed"}
    /\ incoming \in Clients \cup {NoMessage}
    /\ cancelled \in BOOLEAN
    /\ stop \in {"no", "closing", "cleared", "stopped"}
    /\ toClose \subseteq Clients
    /\ clients \subseteq Clients
    /\ sock \in [Clients -> SocketStates]
    /\ task \in [Clients -> Running \cup {"none", "queued", "cancelled", "done"}]
    /\ \A c \in Clients : task[c] \in Running \ {"reading", "cleanup"} =>
                              current[c] \in Request
    /\ \A c \in Clients : task[c] = "reading" => current[c] = NoMessage
    /\ sessions \subseteq Sessions
    /\ torn \in BOOLEAN
    /\ owner \in [Sessions -> Clients \cup {Unasked, Shared}]
    /\ calls \in [Sessions -> Seq(BOOLEAN)]

\* The API is told at most once that a request is the first of its session,
\* however many connections ask for the session at once: between ContainsKey
\* and Add another handler may add it, and then Add fails.  This needs that the
\* table was never written by two threads at once.
FirstRequestOnce ==
    ~torn => \A s \in Sessions : Cardinality({i \in DOMAIN calls[s] : calls[s][i]}) <= 1

\* A session that stays on one connection and begins with a dial: the API's
\* first call is marked as the first request, and no later one is, failed
\* calls and repeated dials included.
FirstRequestLeads ==
    ~torn => \A s \in Sessions : owner[s] \in Clients =>
                \A i \in DOMAIN calls[s] : calls[s][i] <=> i = 1

\* Until Stop, ConnectedClients holds exactly the clients that have a handler:
\* Stop can reach every one, and a connection that ends leaves nothing behind.
TableMatchesHandlers ==
    stop = "no" =>
        \A c \in Clients :
            c \in clients <=> \/ task[c] \in Running \cup {"queued"}
                              \/ acceptor = "tracked" /\ incoming = c

\* After Stop a socket can still be open, but only that of a client which Stop
\* did not find in ConnectedClients when it began; such a client has no handler,
\* and gets none that runs.
OnlyLateClientsLeft ==
    stop = "stopped" =>
        \A c \in Clients : sock[c] = "open" =>
            c \notin known /\ task[c] \in {"none", "cancelled"}

\* After Stop every handler comes to an end, although none of them is given the
\* token: their sockets are closed under them.
HandlersEnd == cancelled ~> \A c \in Clients : task[c] \notin Running \cup {"queued"}

\* A request that was read is answered or skipped, or its connection ends; no
\* handler is stuck behind another.
RequestsFinish ==
    \A c \in Clients : current[c] # NoMessage ~> current[c] = NoMessage

=============================================================================
