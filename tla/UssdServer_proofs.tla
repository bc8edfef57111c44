-------------------------- MODULE UssdServer_proofs --------------------------
(* Proofs about UssdServer, for any number of connections, sessions and       *)
(* messages.                                                                  *)
EXTENDS UssdServer, FiniteSetTheorems, TLAPS

\* What TypeOK leaves open: where the accepted client is, what the clients that
\* were not accepted are not in, and who holds no request.
ServerInv ==
  /\ current \in [Clients -> Request \cup {NoMessage}]
  /\ known \subseteq Clients
  /\ cancelled = (stop # "no")
  /\ acceptor \in {"accepted", "tracked"} =>
        /\ incoming \in Clients
        /\ task[incoming] = "none"
        /\ sock[incoming] \in {"open", "closed"}
  /\ \A c \in Clients : sock[c] \in {"absent", "backlog"} =>
        task[c] = "none" /\ c \notin clients /\ c \notin known
  /\ \A c \in Clients : task[c] \in {"none", "queued", "cancelled"} => current[c] = NoMessage
  /\ \A c \in Clients : task[c] = "done" => sock[c] = "closed"

TypeInv == TypeOK /\ ServerInv

LEMMA InitType == Init => TypeInv
<1> SUFFICES ASSUME Init PROVE TypeInv
  OBVIOUS
<1>1. task = [c \in Clients |-> "none"] /\ current = [c \in Clients |-> NoMessage]
      /\ sock = [c \in Clients |-> "absent"]
  BY DEF Init
<1>2. calls \in [Sessions -> Seq(BOOLEAN)]
  BY DEF Init
<1>3. TypeOK
  BY <1>1, <1>2 DEF Init, TypeOK, Running, SocketStates
<1>4. ServerInv
  BY <1>1 DEF Init, ServerInv
<1> QED
  BY <1>3, <1>4 DEF TypeInv

\* The steps of the accept loop, of the peers and of Stop.
ServerStep ==
  \/ Start \/ Track \/ Spawn \/ AcceptEnds \/ StopCancel \/ StopStep
  \/ \E c \in Clients : Connect(c) \/ PeerCloses(c) \/ Accept(c)

\* The steps of the handler of c.
HandlerStep(c) ==
  Handle(c) \/ \E kind \in Kinds, s \in Sessions : ReadMessage(c, kind, s)

LEMMA Steps == Next <=> ServerStep \/ \E c \in Clients : HandlerStep(c)
BY Zenon DEF Next, ServerStep, HandlerStep

LEMMA ServerStepType == TypeInv /\ ServerStep => TypeInv'
<1> SUFFICES ASSUME TypeInv, ServerStep
             PROVE  TypeInv'
  OBVIOUS
<1> USE DEF TypeInv, TypeOK, ServerInv, handlerVars, tableVars, history, stopVars
<1>1. CASE Start
  BY <1>1 DEF Start
<1>2. CASE Track
  BY <1>2 DEF Track
<1>3. CASE Spawn
  BY <1>3 DEF Spawn, Goto, Running
<1>4. CASE AcceptEnds
  BY <1>4 DEF AcceptEnds
<1>5. CASE StopCancel
  BY <1>5 DEF StopCancel
<1>6. ASSUME NEW c \in Clients, StopClose(c)
      PROVE  TypeInv'
  BY <1>6 DEF StopClose, CloseSocket, SocketStates
<1>7. CASE StopClear
  BY <1>7 DEF StopClear
<1>8. CASE StopListener
  BY <1>8 DEF StopListener, SocketStates
<1>9. ASSUME NEW c \in Clients, Connect(c)
      PROVE  TypeInv'
  BY <1>9 DEF Connect, serverVars, SocketStates
<1>10. ASSUME NEW c \in Clients, PeerCloses(c)
       PROVE  TypeInv'
  BY <1>10 DEF PeerCloses, CloseSocket, serverVars, SocketStates
<1>11. ASSUME NEW c \in Clients, Accept(c)
       PROVE  TypeInv'
  BY <1>11 DEF Accept, SocketStates
<1> QED
  BY <1>1, <1>2, <1>3, <1>4, <1>5, <1>6, <1>7, <1>8, <1>9, <1>10, <1>11
     DEF ServerStep, StopStep

LEMMA HandlerStepType == ASSUME NEW c \in Clients, TypeInv, HandlerStep(c) PROVE TypeInv'
<1> USE DEF TypeInv, TypeOK, ServerInv, serverVars, tableVars, history, stopVars, Goto, Running
<1>1. CASE Begin(c)
  BY <1>1 DEF Begin
<1>2. CASE ReadFails(c)
  BY <1>2 DEF ReadFails
<1>3. ASSUME NEW kind \in Kinds, NEW s \in Sessions, ReadMessage(c, kind, s)
      PROVE  TypeInv'
  <2>1. [session |-> s, first |-> kind = "dial"] \in Request
    BY DEF Request
  <2>2. OwnerAfter(c, kind, s) \in Clients \cup {Unasked, Shared}
    BY DEF OwnerAfter
  <2>3. CASE kind = "junk"
    BY <1>3, <2>3 DEF ReadMessage
  <2>4. CASE kind = "broken"
    BY <1>3, <2>4 DEF ReadMessage
  <2>5. CASE kind \notin {"junk", "broken"}
    <3>1. /\ task[c] = "reading" /\ sock[c] = "open"
          /\ task' = [task EXCEPT ![c] = "mapping"]
          /\ current' = [current EXCEPT ![c] = [session |-> s, first |-> kind = "dial"]]
          /\ owner' = [owner EXCEPT ![s] = OwnerAfter(c, kind, s)]
          /\ UNCHANGED <<serverVars, sock, tableVars, calls>>
      BY <1>3, <2>5 DEF ReadMessage
    <3>2. /\ owner' \in [Sessions -> Clients \cup {Unasked, Shared}]
          /\ current' \in [Clients -> Request \cup {NoMessage}]
      BY <2>1, <2>2, <3>1
    <3>3. /\ current'[c] \in Request
          /\ \A d \in Clients \ {c} : current'[d] = current[d] /\ task'[d] = task[d]
      BY <2>1, <3>1
    <3> QED
      BY <3>1, <3>2, <3>3
  <2> QED
    BY <2>3, <2>4, <2>5
<1>4. ASSUME NEW r \in Request, StartCall(c, r), UNCHANGED <<serverVars, sock, reads, owner>>,
             sessions' \subseteq Sessions, torn' \in BOOLEAN,
             task[c] \notin {"none", "queued", "cancelled", "done"}
      PROVE  TypeInv'
  <2>1. Append(calls[r.session], r.first) \in Seq(BOOLEAN) /\ r.session \in Sessions
    BY DEF Request
  <2>2. calls' \in [Sessions -> Seq(BOOLEAN)]
    BY <1>4, <2>1 DEF StartCall
  <2> QED
    BY <1>4, <2>2 DEF StartCall
<1>5. CASE KnownSession(c)
  <2>1. [current[c] EXCEPT !.first = FALSE] \in Request
    BY <1>5 DEF KnownSession, Request
  <2> QED
    BY <1>4, <1>5, <2>1 DEF KnownSession
<1>6. CASE UnknownSession(c)
  BY <1>6 DEF UnknownSession
<1>7. CASE LookupFails(c)
  BY <1>7 DEF LookupFails
<1>8. CASE BeginAdd(c)
  BY <1>8 DEF BeginAdd, OtherAdds
<1>9. CASE AddSession(c)
  <2>1. current[c] \in Request /\ current[c].session \in Sessions
    BY <1>9 DEF AddSession, Request
  <2>2. CASE current[c].session \in sessions
    BY <1>9, <2>2 DEF AddSession
  <2>3. CASE current[c].session \notin sessions
    BY <1>4, <1>9, <2>1, <2>3 DEF AddSession
  <2> QED
    BY <2>2, <2>3
<1>10. CASE AddTorn(c)
  <2>1. current[c] \in Request /\ current[c].session \in Sessions
    BY <1>10 DEF AddTorn, Request
  <2>2. sessions' \subseteq Sessions /\ torn' \in BOOLEAN
    BY <1>10, <2>1 DEF AddTorn
  <2>3. CASE StartCall(c, current[c])
    BY <1>4, <1>10, <2>1, <2>2, <2>3 DEF AddTorn
  <2>4. CASE Goto(c, "cleanup") /\ UNCHANGED <<current, calls>>
    BY <1>10, <2>2, <2>4 DEF AddTorn
  <2> QED
    BY <1>10, <2>3, <2>4 DEF AddTorn
<1>11. CASE Answer(c)
  <2>1. CASE Goto(c, "replying") /\ UNCHANGED current
    BY <1>11, <2>1 DEF Answer
  <2>2. CASE Goto(c, "reading") /\ current' = [current EXCEPT ![c] = NoMessage]
    BY <1>11, <2>2 DEF Answer
  <2> QED
    BY <1>11, <2>1, <2>2 DEF Answer
<1>12. CASE Reply(c)
  BY <1>12 DEF Reply
<1>13. CASE Cleanup(c)
  BY <1>13 DEF Cleanup, CloseSocket, SocketStates
<1> QED
  BY <1>1, <1>2, <1>3, <1>5, <1>6, <1>7, <1>8, <1>9, <1>10, <1>11, <1>12, <1>13
     DEF HandlerStep, Handle

LEMMA TypeStep == TypeInv /\ [Next]_vars => TypeInv'
<1>1. CASE UNCHANGED vars
  BY <1>1 DEF vars, serverVars, tableVars, history, TypeInv, TypeOK, ServerInv
<1> QED
  BY <1>1, Steps, ServerStepType, HandlerStepType

LEMMA TypeInvariance == Spec => []TypeInv
BY InitType, TypeStep, PTL DEF Spec

\* The accept loop, the handlers, Stop and the session table keep their types,
\* and only a handler between a read and its reply holds a request.
THEOREM TypeCorrect == Spec => []TypeOK
<1>1. TypeInv => TypeOK
  BY DEF TypeInv
<1> QED
  BY <1>1, TypeInvariance, PTL
\* What Stop has seen to: every handler that can still run is that of a client
\* it knew, and each of those it has closed or has still to close.
StopInv ==
  /\ TableMatchesHandlers
  /\ stop # "no" => \A c \in Clients : task[c] \in Running \cup {"queued"} => c \in known
  /\ stop = "closing" => \A c \in known : c \in toClose \cap clients \/ sock[c] = "closed"
  /\ stop \in {"cleared", "stopped"} => \A c \in known : sock[c] = "closed"

LEMMA InitStop == Init => StopInv
BY DEF Init, StopInv, TableMatchesHandlers, Running

LEMMA ServerStepStop == TypeInv /\ StopInv /\ ServerStep => StopInv'
<1> SUFFICES ASSUME TypeInv, StopInv, ServerStep
             PROVE  StopInv'
  OBVIOUS
<1> USE DEF StopInv, TypeInv, TypeOK, ServerInv, TableMatchesHandlers, handlerVars, stopVars
<1>1. CASE Start
  BY <1>1 DEF Start
<1>2. CASE Track
  BY <1>2 DEF Track
<1>3. CASE Spawn
  <2>1. CASE cancelled
    BY <1>3, <2>1 DEF Spawn, Goto, Running
  <2>2. CASE ~cancelled
    BY <1>3, <2>2 DEF Spawn, Goto, Running
  <2> QED
    BY <2>1, <2>2
<1>4. CASE AcceptEnds
  BY <1>4 DEF AcceptEnds
<1>5. CASE StopCancel
  BY <1>5 DEF StopCancel
<1>6. ASSUME NEW c \in Clients, StopClose(c)
      PROVE  StopInv'
  BY <1>6 DEF StopClose, CloseSocket, SocketStates
<1>7. CASE StopClear
  BY <1>7 DEF StopClear
<1>8. CASE StopListener
  BY <1>8 DEF StopListener, SocketStates
<1>9. ASSUME NEW c \in Clients, Connect(c)
      PROVE  StopInv'
  BY <1>9 DEF Connect, serverVars, SocketStates
<1>10. ASSUME NEW c \in Clients, PeerCloses(c)
       PROVE  StopInv'
  BY <1>10 DEF PeerCloses, CloseSocket, serverVars, SocketStates
<1>11. ASSUME NEW c \in Clients, Accept(c)
       PROVE  StopInv'
  BY <1>11 DEF Accept, SocketStates
<1> QED
  BY <1>1, <1>2, <1>3, <1>4, <1>5, <1>6, <1>7, <1>8, <1>9, <1>10, <1>11
     DEF ServerStep, StopStep

\* A step of the handler of c that is not its last.
Moves(c) ==
  /\ UNCHANGED <<serverVars, sock>>
  /\ \E place \in Running \cup {"cancelled"} :
        /\ place = "cancelled" => cancelled
        /\ Goto(c, place)

\* A handler runs on from where it is, or cleans up.
LEMMA HandlerMoves ==
  ASSUME NEW c \in Clients, TypeInv, HandlerStep(c)
  PROVE  task[c] \in Running \cup {"queued"} /\ (Moves(c) \/ Cleanup(c))
<1> USE DEF Running
<1>1. CASE Begin(c)
  BY <1>1 DEF Begin, Moves
<1>2. CASE ReadFails(c)
  BY <1>2 DEF ReadFails, Moves
<1>3. ASSUME NEW kind \in Kinds, NEW s \in Sessions, ReadMessage(c, kind, s)
      PROVE  task[c] = "reading" /\ Moves(c)
  <2>1. task[c] = "reading" /\ UNCHANGED <<serverVars, sock>>
    BY <1>3 DEF ReadMessage
  <2>2. Goto(c, "reading") \/ Goto(c, "cleanup") \/ Goto(c, "mapping")
    <3>1. CASE kind = "junk"
      BY <1>3, <2>1, <3>1 DEF ReadMessage, Goto, TypeInv, TypeOK
    <3>2. CASE kind = "broken"
      BY <1>3, <3>2 DEF ReadMessage
    <3>3. CASE kind \notin {"junk", "broken"}
      BY <1>3, <3>3 DEF ReadMessage
    <3> QED
      BY <3>1, <3>2, <3>3
  <2> QED
    BY <2>1, <2>2 DEF Moves
<1>4. CASE KnownSession(c)
  BY <1>4 DEF KnownSession, StartCall, Moves
<1>5. CASE UnknownSession(c) \/ LookupFails(c)
  BY <1>5 DEF UnknownSession, LookupFails, Moves
<1>6. CASE BeginAdd(c)
  BY <1>6 DEF BeginAdd, Moves
<1>7. CASE AddSession(c) \/ AddTorn(c)
  BY <1>7 DEF AddSession, AddTorn, StartCall, Moves
<1>8. CASE Answer(c)
  BY <1>8 DEF Answer, Moves
<1>9. CASE Reply(c)
  BY <1>9 DEF Reply, Moves
<1>10. CASE Cleanup(c)
  BY <1>10 DEF Cleanup
<1> QED
  BY <1>1, <1>2, <1>3, <1>4, <1>5, <1>6, <1>7, <1>8, <1>9, <1>10 DEF HandlerStep, Handle

LEMMA HandlerStepStop ==
  ASSUME NEW c \in Clients, TypeInv, StopInv, HandlerStep(c)
  PROVE  StopInv'
<1> USE DEF TypeInv, TypeOK, ServerInv, StopInv, TableMatchesHandlers
<1>1. task[c] \in Running \cup {"queued"} /\ (Moves(c) \/ Cleanup(c))
  BY HandlerMoves
<1>2. CASE Moves(c)
  <2>1. PICK place \in Running \cup {"cancelled"} :
           (place = "cancelled" => cancelled) /\ Goto(c, place)
    BY <1>2 DEF Moves
  <2>2. UNCHANGED <<serverVars, sock>>
    BY <1>2 DEF Moves
  <2>3. /\ \A d \in Clients \ {c} : task'[d] = task[d]
        /\ task'[c] \in Running \/ (task'[c] = "cancelled" /\ cancelled)
    BY <2>1 DEF Goto
  <2> QED
    BY <1>1, <2>2, <2>3 DEF serverVars
<1>3. CASE Cleanup(c)
  <2>1. /\ clients' = clients \ {c} /\ sock' = [sock EXCEPT ![c] = "closed"]
        /\ task' = [task EXCEPT ![c] = "done"] /\ task[c] = "cleanup"
        /\ UNCHANGED <<acceptor, incoming, cancelled, stop, toClose, known>>
    BY <1>3 DEF Cleanup, CloseSocket, Goto, stopVars
  <2> QED
    BY <2>1 DEF Running
<1> QED
  BY <1>1, <1>2, <1>3

LEMMA StopStepInv == TypeInv /\ StopInv /\ [Next]_vars => StopInv'
<1>1. CASE UNCHANGED vars
  BY <1>1 DEF vars, serverVars, StopInv, TableMatchesHandlers
<1> QED
  BY <1>1, Steps, ServerStepStop, HandlerStepStop

LEMMA StopInvariance == Spec => [](TypeInv /\ StopInv)
BY InitType, TypeStep, InitStop, StopStepInv, PTL DEF Spec

\* Until Stop the table of clients is exact.
THEOREM TableExact == Spec => []TableMatchesHandlers
<1>1. StopInv => TableMatchesHandlers
  BY DEF StopInv
<1> QED
  BY <1>1, StopInvariance, PTL

\* After Stop no socket is open but those of clients that came too late for it.
THEOREM StopClosesAll == Spec => []OnlyLateClientsLeft
<1>1. TypeInv /\ StopInv => OnlyLateClientsLeft
  BY DEF TypeInv, TypeOK, ServerInv, StopInv, OnlyLateClientsLeft
<1> QED
  BY <1>1, StopInvariance, PTL

\* The handler of c has a request for s.
Asks(c, s) ==
  /\ task[c] \in {"mapping", "unknown", "adding", "calling", "replying"}
  /\ current[c].session = s

\* While the table is whole, a session is in it exactly when the API was asked.
\* The one connection of a session has sent its dial and is on its way to add
\* the session, unless it has ended or the API was asked.
SessionInv(s) ==
  /\ s \in sessions <=> calls[s] # <<>>
  /\ \A i, j \in DOMAIN calls[s] : calls[s][i] /\ calls[s][j] => i = j
  /\ owner[s] = Unasked => calls[s] = <<>> /\ \A c \in Clients : ~Asks(c, s)
  /\ owner[s] \in Clients =>
        /\ \A c \in Clients : Asks(c, s) => c = owner[s]
        /\ \A i \in DOMAIN calls[s] : calls[s][i] <=> i = 1
        /\ calls[s] = <<>> =>
              \/ task[owner[s]] \in {"cleanup", "done"}
              \/ /\ task[owner[s]] \in {"mapping", "unknown", "adding"}
                 /\ current[owner[s]] = [session |-> s, first |-> TRUE]

FirstInv == ~torn => \A s \in Sessions : SessionInv(s)

LEMMA InitFirst == Init => FirstInv
<1> SUFFICES ASSUME Init, NEW s \in Sessions PROVE SessionInv(s)
  BY DEF FirstInv
<1>1. s \notin sessions /\ calls[s] = <<>> /\ owner[s] = Unasked
  BY DEF Init
<1>2. \A c \in Clients : ~Asks(c, s)
  BY DEF Init, Asks
<1> QED
  BY <1>1, <1>2, OwnerAssumption DEF SessionInv

\* A step of c that neither begins a request nor asks the API.
Quiet(c) ==
  /\ UNCHANGED <<sessions, calls, owner>>
  /\ \A d \in Clients \ {c} : task'[d] = task[d] /\ current'[d] = current[d]
  /\ \/ task'[c] \in {"cleanup", "done"}
     \/ /\ task[c] \in {"mapping", "unknown"}
        /\ task'[c] \in {"unknown", "adding"}
        /\ current'[c] = current[c]
     \/ /\ task[c] \in {"none", "queued", "reading", "calling", "replying"}
        /\ task'[c] \in {"queued", "reading", "cancelled"}
     \/ /\ task[c] = "calling" /\ task'[c] = "replying"
        /\ current'[c] = current[c]

LEMMA QuietStep ==
  ASSUME NEW c \in Clients, NEW s \in Sessions, Quiet(c), SessionInv(s)
  PROVE  SessionInv(s)'
<1>1. \A d \in Clients : Asks(d, s)' => Asks(d, s)
  BY DEF Quiet, Asks
<1>2. sessions' = sessions /\ calls' = calls /\ owner' = owner
  BY DEF Quiet
<1>3. ASSUME owner[s] \in Clients, calls[s] = <<>>
      PROVE  \/ task'[owner[s]] \in {"cleanup", "done"}
             \/ /\ task'[owner[s]] \in {"mapping", "unknown", "adding"}
                /\ current'[owner[s]] = [session |-> s, first |-> TRUE]
  BY <1>3 DEF Quiet, SessionInv
<1> QED
  BY <1>1, <1>2, <1>3, Zenon DEF SessionInv

\* A step of c that asks the API with r, a session the table has just got or has.
LEMMA CallStep ==
  ASSUME NEW c \in Clients, NEW s \in Sessions, NEW r \in Request, TypeInv,
         SessionInv(s), StartCall(c, r), owner' = owner,
         Asks(c, r.session), task[c] \in {"mapping", "unknown", "adding"},
         sessions' = sessions \cup {r.session},
         r.session \in sessions => ~r.first,
         r.session \notin sessions => r = current[c]
  PROVE  SessionInv(s)'
<1>1. /\ task' = [task EXCEPT ![c] = "calling"] /\ current' = [current EXCEPT ![c] = r]
      /\ calls' = [calls EXCEPT ![r.session] = Append(calls[r.session], r.first)]
  BY DEF StartCall, Goto
<1>2. /\ task \in [Clients -> Running \cup {"none", "queued", "cancelled", "done"}]
      /\ calls \in [Sessions -> Seq(BOOLEAN)]
      /\ current \in [Clients -> Request \cup {NoMessage}]
  BY DEF TypeInv, TypeOK, ServerInv
<1>3. \A d \in Clients : Asks(d, s)' => Asks(d, s)
  BY <1>1, <1>2 DEF Asks
<1>4. CASE s # r.session
  <2>1. calls'[s] = calls[s] /\ (s \in sessions' <=> s \in sessions)
    BY <1>1, <1>2, <1>4
  <2>2. ASSUME owner[s] \in Clients, calls[s] = <<>>
        PROVE  owner[s] # c
    BY <1>4, <2>2 DEF SessionInv, Asks
  <2> QED
    BY <1>1, <1>2, <1>3, <2>1, <2>2 DEF SessionInv
<1>5. CASE s = r.session
  <2>1. calls'[s] = Append(calls[s], r.first) /\ calls[s] \in Seq(BOOLEAN)
        /\ r.first \in BOOLEAN /\ s \in sessions'
    BY <1>1, <1>2, <1>5 DEF Request
  <2>2. Asks(c, s) /\ owner[s] # Unasked
    BY <1>5 DEF SessionInv
  <2>3. CASE s \in sessions
    <3> DEFINE n == Len(calls[s])
    <3>1. calls[s] # <<>> /\ r.first = FALSE /\ n \in Nat \ {0}
      BY <1>5, <2>1, <2>3 DEF SessionInv
    <3>2. /\ DOMAIN calls'[s] = 1..(n + 1) /\ DOMAIN calls[s] = 1..n
          /\ \A i \in 1..n : calls'[s][i] = calls[s][i]
          /\ calls'[s][n + 1] = FALSE
          /\ calls'[s] # <<>>
      BY <2>1, <3>1
    <3> HIDE DEF n
    <3>3. \A i \in DOMAIN calls'[s] : calls'[s][i] => i \in 1..n /\ calls[s][i]
      BY <3>1, <3>2
    <3>4. \A i, j \in DOMAIN calls'[s] : calls'[s][i] /\ calls'[s][j] => i = j
      BY <3>2, <3>3 DEF SessionInv
    <3>5. ASSUME owner[s] \in Clients
          PROVE  \A i \in DOMAIN calls'[s] : calls'[s][i] <=> i = 1
      <4>1. \A i \in 1..n : calls[s][i] <=> i = 1
        BY <3>2, <3>5 DEF SessionInv
      <4> QED
        BY <3>1, <3>2, <3>3, <4>1
    <3> QED
      BY <1>3, <2>1, <2>2, <3>2, <3>4, <3>5 DEF SessionInv
  <2>4. CASE s \notin sessions
    <3>1. calls[s] = <<>>
      BY <2>4 DEF SessionInv
    <3>2. owner[s] \in Clients => r.first = TRUE
      BY <1>5, <2>2, <2>4, <3>1 DEF SessionInv
    <3> QED
      BY <1>3, <2>1, <2>2, <3>1, <3>2 DEF SessionInv
  <2> QED
    BY <2>3, <2>4
<1> QED
  BY <1>4, <1>5

\* A message that is recognised makes its sender the session's one connection,
\* or shares the session.
LEMMA RequestStep ==
  ASSUME NEW c \in Clients, NEW s \in Sessions, NEW kind, NEW asked \in Sessions,
         TypeInv, SessionInv(s), task[c] = "reading",
         task' = [task EXCEPT ![c] = "mapping"],
         current' = [current EXCEPT ![c] = [session |-> asked, first |-> kind = "dial"]],
         owner' = [owner EXCEPT ![asked] = OwnerAfter(c, kind, asked)],
         UNCHANGED <<sessions, calls>>
  PROVE  SessionInv(s)'
<1>1. /\ task \in [Clients -> Running \cup {"none", "queued", "cancelled", "done"}]
      /\ current \in [Clients -> Request \cup {NoMessage}]
      /\ owner \in [Sessions -> Clients \cup {Unasked, Shared}]
  BY DEF TypeInv, TypeOK, ServerInv
<1>2. /\ task'[c] = "mapping"
      /\ current'[c] = [session |-> asked, first |-> kind = "dial"]
      /\ \A d \in Clients \ {c} : Asks(d, s)' <=> Asks(d, s)
      /\ Asks(c, s)' <=> s = asked
  BY <1>1 DEF Asks
<1>3. \A d \in Clients \ {c} : task'[d] = task[d] /\ current'[d] = current[d]
  BY <1>1
<1>4. ~Asks(c, s)
  BY DEF Asks
<1>5. ASSUME owner[s] = c
      PROVE  calls[s] # <<>>
  BY <1>5 DEF SessionInv
<1>6. CASE s # asked
  <2>1. owner'[s] = owner[s]
    BY <1>1, <1>6
  <2> QED
    BY <1>2, <1>3, <1>5, <1>6, <2>1 DEF SessionInv
<1>7. CASE s = asked
  <2>1. owner'[s] = OwnerAfter(c, kind, s)
    BY <1>1, <1>7
  <2>2. CASE owner[s] = c
    BY <1>2, <1>5, <2>1, <2>2, OwnerAssumption DEF SessionInv, OwnerAfter
  <2>3. CASE owner[s] = Unasked /\ kind = "dial"
    <3>1. owner'[s] = c /\ calls[s] = <<>> /\ \A d \in Clients : ~Asks(d, s)
      BY <2>1, <2>3 DEF SessionInv, OwnerAfter
    <3>2. task'[c] = "mapping" /\ current'[c] = [session |-> s, first |-> TRUE]
      BY <1>2, <1>7, <2>3
    <3>3. \A d \in Clients : Asks(d, s)' => d = c
      BY <1>2, <3>1
    <3>4. calls'[s] = <<>> /\ DOMAIN calls'[s] = {} /\ c # Unasked /\ s \notin sessions'
      BY <2>3, <3>1, OwnerAssumption DEF SessionInv
    <3> QED
      BY <3>1, <3>2, <3>3, <3>4 DEF SessionInv
  <2>4. CASE owner[s] # c /\ ~(owner[s] = Unasked /\ kind = "dial")
    <3>1. owner'[s] = Shared /\ Shared # Unasked /\ Shared \notin Clients
      BY <2>1, <2>4, OwnerAssumption DEF OwnerAfter, Unasked, Shared
    <3> QED
      BY <3>1 DEF SessionInv
  <2> QED
    BY <2>2, <2>3, <2>4
<1> QED
  BY <1>6, <1>7

LEMMA HandlerStepFirst ==
  ASSUME NEW c \in Clients, TypeInv, FirstInv, HandlerStep(c)
  PROVE  FirstInv'
<1>1. torn => torn'
  BY DEF HandlerStep, Handle, Begin, ReadFails, ReadMessage, KnownSession, UnknownSession,
         LookupFails, BeginAdd, AddSession, AddTorn, Answer, Reply, Cleanup, tableVars
<1> SUFFICES ASSUME ~torn', NEW s \in Sessions PROVE SessionInv(s)'
  BY DEF FirstInv
<1>2. ~torn /\ SessionInv(s)
  BY <1>1 DEF FirstInv
<1>3. /\ task \in [Clients -> Running \cup {"none", "queued", "cancelled", "done"}]
      /\ current \in [Clients -> Request \cup {NoMessage}]
      /\ task[c] \in Running \ {"reading", "cleanup"} => current[c] \in Request
  BY DEF TypeInv, TypeOK, ServerInv
<1> USE DEF Goto, tableVars, history
<1>4. CASE Begin(c)
  BY <1>2, <1>3, <1>4, QuietStep DEF Begin, Quiet
<1>5. CASE ReadFails(c)
  BY <1>2, <1>3, <1>5, QuietStep DEF ReadFails, Quiet
<1>6. ASSUME NEW kind \in Kinds, NEW asked \in Sessions, ReadMessage(c, kind, asked)
      PROVE  SessionInv(s)'
  <2>1. CASE kind = "junk"
    BY <1>2, <1>3, <1>6, <2>1, QuietStep DEF ReadMessage, Quiet
  <2>2. CASE kind = "broken"
    BY <1>2, <1>3, <1>6, <2>2, QuietStep DEF ReadMessage, Quiet
  <2>3. CASE kind \notin {"junk", "broken"}
    BY <1>2, <1>6, <2>3, RequestStep DEF ReadMessage
  <2> QED
    BY <2>1, <2>2, <2>3
<1>7. CASE KnownSession(c)
  <2> DEFINE r == [current[c] EXCEPT !.first = FALSE]
  <2>1. current[c] \in Request /\ task[c] = "mapping"
    BY <1>3, <1>7 DEF KnownSession, Running
  <2>2. r \in Request /\ r.session = current[c].session /\ r.first = FALSE
    BY <2>1 DEF Request
  <2>3. /\ StartCall(c, r) /\ owner' = owner
        /\ sessions' = sessions \cup {r.session} /\ r.session \in sessions
    BY <1>7, <2>2 DEF KnownSession
  <2>4. Asks(c, r.session)
    BY <2>1, <2>2 DEF Asks
  <2> HIDE DEF r
  <2> QED
    BY <1>2, <2>1, <2>2, <2>3, <2>4, CallStep
<1>8. CASE UnknownSession(c)
  BY <1>2, <1>3, <1>8, QuietStep DEF UnknownSession, Quiet
<1>9. CASE LookupFails(c)
  BY <1>2, <1>3, <1>9, QuietStep DEF LookupFails, Quiet
<1>10. CASE BeginAdd(c)
  BY <1>2, <1>3, <1>10, QuietStep DEF BeginAdd, Quiet
<1>11. CASE AddSession(c)
  <2>1. current[c] \in Request /\ task[c] = "adding" /\ owner' = owner
    BY <1>3, <1>11 DEF AddSession, Running
  <2>2. CASE current[c].session \in sessions
    BY <1>2, <1>3, <1>11, <2>2, QuietStep DEF AddSession, Quiet
  <2>3. CASE current[c].session \notin sessions
    <3>1. StartCall(c, current[c]) /\ sessions' = sessions \cup {current[c].session}
      BY <1>11, <2>3 DEF AddSession
    <3>2. Asks(c, current[c].session)
      BY <2>1 DEF Asks
    <3> QED
      BY <1>2, <2>1, <2>3, <3>1, <3>2, CallStep
  <2> QED
    BY <2>2, <2>3
<1>12. CASE AddTorn(c)
  BY <1>2, <1>12 DEF AddTorn
<1>13. CASE Answer(c)
  BY <1>2, <1>3, <1>13, QuietStep DEF Answer, Quiet
<1>14. CASE Reply(c)
  BY <1>2, <1>3, <1>14, QuietStep DEF Reply, Quiet
<1>15. CASE Cleanup(c)
  BY <1>2, <1>3, <1>15, QuietStep DEF Cleanup, Quiet
<1> QED
  BY <1>4, <1>5, <1>6, <1>7, <1>8, <1>9, <1>10, <1>11, <1>12, <1>13, <1>14, <1>15
     DEF HandlerStep, Handle

LEMMA ServerStepFirst == TypeInv /\ FirstInv /\ ServerStep => FirstInv'
<1> SUFFICES ASSUME TypeInv, FirstInv, ServerStep, ~torn', NEW s \in Sessions
             PROVE  SessionInv(s)'
  BY DEF FirstInv
<1>1. CASE Spawn
  <2>1. incoming \in Clients /\ task[incoming] = "none"
        /\ task \in [Clients -> Running \cup {"none", "queued", "cancelled", "done"}]
    BY <1>1 DEF Spawn, TypeInv, TypeOK, ServerInv
  <2>2. Quiet(incoming) /\ torn' = torn
    BY <1>1, <2>1 DEF Spawn, Goto, Quiet, tableVars, history
  <2>3. SessionInv(s)
    BY <2>2 DEF FirstInv
  <2> QED
    BY <2>1, <2>2, <2>3, QuietStep
<1>2. CASE ~Spawn
  <2>1. UNCHANGED handlerVars
    BY <1>2 DEF ServerStep, StopStep, Start, Track, AcceptEnds, StopCancel, StopClose, StopClear,
                StopListener, Connect, PeerCloses, Accept
  <2>2. torn' = torn /\ UNCHANGED <<task, current, sessions, calls, owner>>
    BY <2>1 DEF handlerVars, tableVars, history
  <2> QED
    BY <2>2 DEF FirstInv, SessionInv, Asks
<1> QED
  BY <1>1, <1>2

LEMMA FirstStep == TypeInv /\ FirstInv /\ [Next]_vars => FirstInv'
<1>1. CASE UNCHANGED vars
  BY <1>1 DEF vars, tableVars, history, FirstInv, SessionInv, Asks
<1> QED
  BY <1>1, Steps, ServerStepFirst, HandlerStepFirst

LEMMA FirstInvariance == Spec => [](TypeInv /\ FirstInv)
BY InitType, TypeStep, InitFirst, FirstStep, PTL DEF Spec

\* The API is told at most once that a request is the first of its session.
THEOREM FirstOnce == Spec => []FirstRequestOnce
<1>1. TypeInv /\ FirstInv => FirstRequestOnce
  <2> SUFFICES ASSUME FirstInv, ~torn, NEW s \in Sessions
               PROVE  Cardinality({i \in DOMAIN calls[s] : calls[s][i]}) <= 1
    BY DEF FirstRequestOnce
  <2> DEFINE firsts == {i \in DOMAIN calls[s] : calls[s][i]}
  <2>1. \A i, j \in firsts : i = j
    BY DEF FirstInv, SessionInv
  <2>2. firsts = {} \/ \E i : firsts = {i}
    BY <2>1
  <2> HIDE DEF firsts
  <2>3. Cardinality(firsts) <= 1
    <3>1. CASE firsts = {}
      BY <3>1, FS_EmptySet
    <3>2. ASSUME NEW i, firsts = {i}
          PROVE  Cardinality(firsts) <= 1
      BY <3>2, FS_Singleton
    <3> QED
      BY <2>2, <3>1, <3>2
  <2> QED
    BY <2>3 DEF firsts
<1> QED
  BY <1>1, FirstInvariance, PTL

\* A session that stays on one connection and begins with a dial is announced by
\* its first call and by no other.
THEOREM FirstLeads == Spec => []FirstRequestLeads
<1>1. FirstInv => FirstRequestLeads
  BY DEF FirstInv, SessionInv, FirstRequestLeads
<1> QED
  BY <1>1, FirstInvariance, PTL
=============================================================================
