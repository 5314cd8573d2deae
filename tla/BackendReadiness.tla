--------------------------- MODULE BackendReadiness ---------------------------
(***************************************************************************)
(* Readiness of third-party-backend/app.py: main, ReadyServer,             *)
(* ReadyHandler and check_ready.  The docker health check and the launcher *)
(* (check_backend_once) run check_ready side by side; ReadyServer serves   *)
(* one connection after the other, in the order in which they arrived, and *)
(* a client may stop between connect and send.  Supervisor sees this       *)
(* component as its variable backend.                                      *)
(*                                                                         *)
(* The identity files are one content at a time: which certificates they   *)
(* hold, and whether create_contexts accepts them with their keys.  The    *)
(* public hash covers the certificates only.                               *)
(***************************************************************************)
EXTENDS Naturals, Sequences, FiniteSets

CONSTANTS
    Checkers,   \* processes that run check_ready
    Contents,   \* certificates the files can hold
    None,
    Backlog,    \* connections the socket holds (request_queue_size)
    MaxChanges, \* bound: changes of the files
    MaxStarts   \* bound: starts of the backend

ASSUME BackendAssumption ==
    /\ None \notin Contents \cup Checkers
    /\ Backlog \in Nat /\ MaxChanges \in Nat /\ MaxStarts \in Nat

VARIABLES
    disk,    \* [content, usable]: the identity files
    changes, \* changes so far
    server,  \* [step, loaded, hashed, generation]: the process
    queue,   \* connections of the socket, the one being handled first: whose (None
             \* once the client has given up), and whether the request was sent
    handler, \* where serve_forever is with the first of them
    check    \* check[c]: a run of check_ready

backendVars == <<disk, changes, server, queue, handler, check>>

Steps == {"down", "loaded", "ready"}
Entries == [checker : Checkers \cup {None}, sent : BOOLEAN]

\* matched: since this check connected the certificates have at some time been
\* the hashed ones; usable: the files have at some time been usable (history).
NoCheck == [state |-> "none", answer |-> None, matched |-> FALSE, usable |-> FALSE]

\* The check has a connection; it is "waiting" once it has sent its request.
Connected(c) == check[c].state \in {"connected", "waiting"}

\* Every check under way observes the new files.
Observed(content, usable) ==
    [ c \in Checkers |->
        IF ~Connected(c) THEN check[c]
        ELSE [check[c] EXCEPT !.matched = @ \/ content = server.hashed,
                              !.usable = @ \/ usable] ]

Down(generation) ==
    [step |-> "down", loaded |-> None, hashed |-> None, generation |-> generation]
-----------------------------------------------------------------------------
(***************************************************************************)
(* main                                                                    *)
(***************************************************************************)
\* create_server loads the identities and binds the TLS port.
create_server ==
    /\ server.step = "down" /\ server.generation < MaxStarts
    /\ disk.usable
    /\ server' = [server EXCEPT !.step = "loaded", !.loaded = disk.content]
    /\ UNCHANGED <<disk, changes, queue, handler, check>>

\* ReadyServer.__init__ reads the files again for the hash, draws a generation
\* and binds the socket; serve_forever starts.
ReadyServer ==
    /\ server.step = "loaded"
    /\ server' = [server EXCEPT !.step = "ready", !.hashed = disk.content,
                                !.generation = @ + 1]
    /\ UNCHANGED <<disk, changes, queue, handler, check>>

\* Stopped, killed, or an exception in main.  The socket is in a tmpfs of the
\* container and is gone; connected clients see the end of the stream.
Exit ==
    /\ server.step # "down"
    /\ server' = Down(server.generation)
    /\ queue' = <<>> /\ handler' = "accept"
    /\ check' = [c \in Checkers |-> IF Connected(c)
                                      THEN [check[c] EXCEPT !.state = "failed"] ELSE check[c]]
    /\ UNCHANGED <<disk, changes>>
-----------------------------------------------------------------------------
(***************************************************************************)
(* check_ready and ReadyHandler                                            *)
(***************************************************************************)
\* connect: refused when nothing listens, and without success when the socket holds
\* as many connections as it can
ConnectCheck(c) ==
    /\ ~Connected(c)
    /\ IF server.step = "ready" /\ Len(queue) < Backlog
         THEN /\ queue' = Append(queue, [checker |-> c, sent |-> FALSE])
              /\ check' = [check EXCEPT ![c] =
                   [NoCheck EXCEPT !.state = "connected", !.usable = disk.usable,
                                   !.matched = disk.content = server.hashed]]
         ELSE /\ check' = [check EXCEPT ![c] = [NoCheck EXCEPT !.state = "failed"]]
              /\ UNCHANGED queue
    /\ UNCHANGED <<disk, changes, server, handler>>

\* The connection of c becomes e.
Entry(c, e) == [i \in DOMAIN queue |-> IF queue[i].checker = c THEN e ELSE queue[i]]

\* sendall
Send(c) ==
    /\ check[c].state = "connected"
    /\ check' = [check EXCEPT ![c].state = "waiting"]
    /\ queue' = Entry(c, [checker |-> c, sent |-> TRUE])
    /\ UNCHANGED <<disk, changes, server, handler>>

\* Two seconds in connect, send or recv: the client closes its end.  The handler may
\* already be working for it; a request that was sent stays readable.
Timeout(c) ==
    /\ Connected(c)
    /\ check' = [check EXCEPT ![c].state = "failed"]
    /\ queue' = Entry(c, [checker |-> None, sent |-> check[c].state = "waiting"])
    /\ UNCHANGED <<disk, changes, server, handler>>

At(step) == queue # <<>> /\ handler = step
Handle(step) == handler' = step /\ UNCHANGED <<disk, changes, server, queue, check>>

\* serve_forever accepts the next connection.
AcceptCheck == At("accept") /\ Handle("recv")

\* The handler returns; the client that waits gets the answer, or nothing.
Close(answer) ==
    LET c == Head(queue).checker IN
    /\ queue' = Tail(queue) /\ handler' = "accept"
    /\ check' = IF c = None THEN check
                ELSE [check EXCEPT ![c].state = IF answer = None THEN "failed" ELSE "answered",
                                   ![c].answer = answer]
    /\ UNCHANGED <<disk, changes, server>>

\* recv(16): the request, or the end of the stream of a client that has gone
Recv ==
    /\ At("recv")
    /\ \/ Head(queue).sent /\ Handle("revalidate")
       \/ ~Head(queue).sent /\ Head(queue).checker = None /\ Close(None)

\* Mutation: without settimeout(2), recv waits for as long as the client does.
RecvTimeoutOfNobody ==
    /\ At("recv") /\ ~Head(queue).sent /\ Head(queue).checker = None
    /\ Close(None)

\* settimeout(2): a client that has connected and says nothing
RecvTimeout ==
    /\ At("recv") /\ ~Head(queue).sent
    /\ Close(None)

\* create_contexts on the files as they are now
Revalidate ==
    /\ At("revalidate")
    /\ IF disk.usable THEN Handle("hash") ELSE Close(None)

Status == [generation |-> server.generation, config_sha256 |-> server.hashed]

\* Mutation: the hash is not compared.
AnswerAlways ==
    /\ At("hash")
    /\ Close(Status)

\* public_config_hash on the files as they are now, and the status
CompareAndAnswer ==
    /\ At("hash")
    /\ Close(IF disk.content = server.hashed THEN Status ELSE None)

HandlerStep == AcceptCheck \/ Recv \/ RecvTimeout \/ Revalidate \/ CompareAndAnswer

\* The files change under the running process.
Change(content, usable) ==
    /\ changes < MaxChanges
    /\ disk' = [content |-> content, usable |-> usable]
    /\ disk' # disk
    /\ changes' = changes + 1
    /\ check' = Observed(content, usable)
    /\ UNCHANGED <<server, queue, handler>>

BackendInit ==
    /\ disk \in [content : Contents, usable : BOOLEAN]
    /\ changes = 0
    /\ server = Down(0)
    /\ queue = <<>> /\ handler = "accept"
    /\ check = [c \in Checkers |-> NoCheck]

BackendNext ==
    \/ create_server \/ ReadyServer \/ Exit
    \/ \E c \in Checkers : ConnectCheck(c) \/ Send(c) \/ Timeout(c)
    \/ HandlerStep
    \/ \E content \in Contents, usable \in BOOLEAN : Change(content, usable)

\* serve_forever and the handler run on, and time passes in them.  Nothing is assumed
\* of a client: it need not send, and its own time limit need not strike.
BackendFairness == WF_backendVars(HandlerStep)

BackendSpec == BackendInit /\ [][BackendNext]_backendVars /\ BackendFairness
-----------------------------------------------------------------------------
(***************************************************************************)
(* Properties.                                                             *)
(***************************************************************************)
Answers == [generation : Nat, config_sha256 : Contents]

\* Every variable keeps its type, and only a ready process handles connections.
BackendTypeOK ==
    /\ disk \in [content : Contents, usable : BOOLEAN]
    /\ changes \in 0 .. MaxChanges
    /\ server \in [step : Steps, loaded : Contents \cup {None},
                   hashed : Contents \cup {None}, generation : 0 .. MaxStarts]
    /\ queue \in Seq(Entries) /\ handler \in {"accept", "recv", "revalidate", "hash"}
    /\ queue # <<>> => server.step = "ready"
    /\ check \in [Checkers -> [state : {"none", "connected", "waiting", "answered", "failed"},
                               answer : Answers \cup {None},
                               matched : BOOLEAN, usable : BOOLEAN]]

\* A check that says ready is no older than its own start: while it ran the files
\* have held the certificates it names, and have been usable with their keys.  In
\* particular once the files have drifted no later check succeeds
\* (ReadyHandler.handle).
ReadyIsCurrent ==
    \A c \in Checkers : check[c].state = "answered" => check[c].matched /\ check[c].usable

\* A check that has sent its request is answered or refused by the server alone, also
\* when clients ahead of it have connected and stay silent: no client keeps the one
\* readiness thread for itself (the settimeout of ReadyHandler.handle).
CheckServed == \A c \in Checkers : check[c].state = "waiting" ~> check[c].state # "waiting"
=============================================================================
