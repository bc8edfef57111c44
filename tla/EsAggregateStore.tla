--------------------------- MODULE EsAggregateStore ---------------------------
(***************************************************************************)
(* The event store on EventStoreDB (EsAggregateStore.cs) under the command *)
(* handlers that use it (ApplicationService.cs). An append is one write of *)
(* the server and carries the version the stream is expected to have; Save *)
(* passes the Version of the aggregate, which is -1 for every aggregate,   *)
(* since neither Load nor Apply advances it: "there is no stream".         *)
(*                                                                         *)
(* Each command runs once; the awaits on the server are the points where   *)
(* other commands run, where a call fails and where an answer is lost      *)
(* after the server has done the write. A stream is abstracted to the      *)
(* command that wrote it and to how many events it holds.                  *)
(***************************************************************************)
EXTENDS Integers, FiniteSets

CONSTANTS
    Commands,       \* the commands, each handled once
    Aggregates,     \* the ids they name
    BlankId,        \* Guid.Empty, the id of an aggregate that applied no event
    PageSize,       \* the 1024 of Load
    MaxChanges,     \* bound: the events one command raises
    Nothing         \* no writer, no request

ASSUME CommandsAssumption ==
    /\ BlankId \notin Aggregates
    /\ Nothing \notin Commands
    /\ PageSize \in Nat \ {0}
    /\ MaxChanges \in Nat

VARIABLES
    writer,   \* the command that wrote each stream, or Nothing
    length,   \* the events in each stream
    pc,       \* where each command is
    request   \* its local variables, from the first await on

vars == <<writer, length, pc, request>>
server == <<writer, length>>

Streams == Aggregates \cup {BlankId}

Phases == {"new", "saving", "written", "returned", "thrown"}

\* The stream Save writes to, whether the aggregate was created, how many
\* events Load replayed into it and how many changes it holds.
Request == [stream : Streams, creates : BOOLEAN, loaded : Nat, changes : Nat]

TypeOK ==
    /\ writer \in [Streams -> Commands \cup {Nothing}]
    /\ length \in [Streams -> Nat]
    /\ pc \in [Commands -> Phases]
    /\ request \in [Commands -> Request \cup {Nothing}]
    /\ \A c \in Commands : pc[c] \in {"saving", "written", "returned"} => request[c] \in Request

Init ==
    /\ writer = [s \in Streams |-> Nothing]
    /\ length = [s \in Streams |-> 0]
    /\ pc = [c \in Commands |-> "new"]
    /\ request = [c \in Commands |-> Nothing]

------------------------------------------------------------------------------

Goto(c, phase) == pc' = [pc EXCEPT ![c] = phase]

\* ReadEvent tells a stream that is not there from an event that is not.
Exists(s) == writer[s] # Nothing

\* Load reads one page from the start of the stream; a longer stream is cut
\* there. Mutants: the number of the last event is taken for how many there
\* are; the page starts at the second event.
ReplayedUpTo(s) == (IF length[s] <= PageSize THEN length[s] ELSE PageSize) - 1
ReplayedFromOne(s) ==
    IF length[s] = 0 THEN 0
    ELSE IF length[s] - 1 <= PageSize THEN length[s] - 1 ELSE PageSize
Replayed(s) == IF length[s] <= PageSize THEN length[s] ELSE PageSize

\* CreateWhen, up to the await in Save.
Create(c, a, changes) ==
    /\ pc[c] = "new"
    /\ ~Exists(a)
    /\ Goto(c, "saving")
    /\ request' = [request EXCEPT ![c] =
          [stream |-> a, creates |-> TRUE, loaded |-> 0, changes |-> changes]]
    /\ UNCHANGED server

\* UpdateWhen, up to the await in Save. Load never returns null: for a stream
\* that is not there the aggregate is blank, and so is its id.
Update(c, a, changes) ==
    /\ pc[c] = "new"
    /\ Goto(c, "saving")
    /\ request' = [request EXCEPT ![c] =
          [stream |-> IF Exists(a) THEN a ELSE BlankId, creates |-> FALSE,
           loaded |-> Replayed(a), changes |-> changes]]
    /\ UNCHANGED server

\* AppendEvents without events: Save returns at once.
SaveNothing(c) ==
    /\ pc[c] = "saving"
    /\ request[c].changes = 0
    /\ Goto(c, "returned")
    /\ UNCHANGED <<server, request>>

\* Mutant: an append that expects any version.
AnyVersion(s) == TRUE

\* The version the append expects: -1, which the server takes as "no stream".
AsExpected(s) == writer[s] = Nothing

Append(c) ==
    /\ pc[c] = "saving"
    /\ request[c].changes > 0
    /\ AsExpected(request[c].stream)
    /\ writer' = [writer EXCEPT ![request[c].stream] = c]
    /\ length' = [length EXCEPT ![request[c].stream] = @ + request[c].changes]
    /\ Goto(c, "written")
    /\ UNCHANGED request

\* The server refuses an append to a stream it did not expect.
WrongExpectedVersion(c) ==
    /\ pc[c] = "saving"
    /\ request[c].changes > 0
    /\ ~AsExpected(request[c].stream)
    /\ Goto(c, "thrown")
    /\ UNCHANGED <<server, request>>

\* Mutant: the answer does not wait for the write.
ReturnAtOnce(c) ==
    /\ pc[c] \in {"saving", "written"}
    /\ Goto(c, "returned")
    /\ UNCHANGED <<server, request>>

\* The server's answer arrives: Save clears the changes and the handler returns.
Return(c) ==
    /\ pc[c] = "written"
    /\ Goto(c, "returned")
    /\ UNCHANGED <<server, request>>

\* A command throws: the entity exists, the updater refuses, a call fails
\* before or after the server has written.
Throw(c) ==
    /\ pc[c] \in {"new", "saving", "written"}
    /\ Goto(c, "thrown")
    /\ UNCHANGED <<server, request>>

Next ==
    \E c \in Commands :
        \/ \E a \in Aggregates :
              \/ \E n \in 1..MaxChanges : Create(c, a, n)
              \/ \E n \in 0..MaxChanges : Update(c, a, n)
        \/ SaveNothing(c)
        \/ Append(c)
        \/ WrongExpectedVersion(c)
        \/ Return(c)
        \/ Throw(c)

Spec == Init /\ [][Next]_vars

------------------------------------------------------------------------------
(* Properties *)

\* The stream of an aggregate is the whole of what one create wrote, however
\* creates and updates race: no update, acknowledged or not, ever reaches it.
StreamsAreCreations ==
    \A a \in Aggregates : writer[a] # Nothing =>
        /\ request[writer[a]].creates
        /\ length[a] = request[writer[a]].changes

\* An update of an aggregate about to be saved holds its stream from the first
\* event on, all of it unless it is longer than the one page Load reads: nothing
\* was added since Load. And an update that had to decide on less than its
\* stream, for which nothing in the code warns, is never stored and never
\* answered as if it were (EsAggregateStore.Load and Save).
ShortLoadStoresNothing ==
    \A c \in Commands :
        request[c] # Nothing /\ ~request[c].creates /\ request[c].stream # BlankId =>
            LET held == request[c].loaded
                all == length[request[c].stream]
            IN  /\ pc[c] = "saving" => held = all \/ (held = PageSize /\ all > PageSize)
                /\ held < all => /\ pc[c] # "written"
                                 /\ pc[c] = "returned" => request[c].changes = 0

\* The commands whose handler returned after raising events.
Answered == {c \in Commands : pc[c] = "returned" /\ request[c].changes > 0}

\* The streams are registers that are written once: of the commands racing for
\* one stream at most one is told that it succeeded, and its events are there.
Registers == INSTANCE WriteOnce WITH
    Keys <- Streams, Writers <- Commands, value <- writer, answered <- Answered

WrittenOnce == Registers!Spec
=============================================================================
