------------------------------ MODULE HttpServer ------------------------------
(***************************************************************************)
(* The playground's server (src/src/playground/http_server.cpp) and the    *)
(* clients that connect to it.  The server is one loop and serves one      *)
(* connection at a time; the clients send, wait and leave as they please.  *)
(*                                                                         *)
(* A request is a stream of header + body bytes, cut anywhere on its way.  *)
(* The header says that length bytes follow (Content-Length); body is how  *)
(* many the client does send.  program[level][n] is the program that the   *)
(* first n bytes of the body spell.  A socket is how much the client has   *)
(* sent and whether it has closed its end.                                 *)
(***************************************************************************)
EXTENDS Session

CONSTANTS
  Clients,                   \* who may connect
  Requests,                  \* Requests[c]: what client c may ask
  kMaxRequestBytes,          \* the largest request
  ChunkBytes,                \* what one recv() takes at most
  kDefaultPlaygroundBudget,  \* RunRequest's budget
  Nobody                     \* no client is being served

ASSUME HttpServerAssumption ==
  /\ kMaxRequestBytes \in Nat /\ ChunkBytes \in Nat \ {0}
  /\ kDefaultPlaygroundBudget \in 1 .. kMaxPlaygroundBudget
  /\ Nobody \notin Clients
  /\ \A c \in Clients : \A request \in Requests[c] :
       /\ request.header \in Nat /\ request.length \in Nat /\ request.body \in Nat
       /\ \A k \in 1 .. Len(request.query) : request.query[k].value \in Seq(Byte)
       /\ \A level \in {"O0", "O1"} : \A n \in 0 .. request.body :
            IsProgram(request.program[level][n])

VARIABLES
  server,     \* where serve() is: socket, address, bind, listen, accept, read,
              \* run, head, body, close; exited if it returned, killed if a
              \* signal ended the process
  backlog,    \* the connections to be accepted, oldest first
  peer,       \* the client being served
  received,   \* readRequest(): the bytes of the request so far
  response,   \* the HttpResponse to be sent
  client      \* [state, request, sent, answer, reset] of each client; the state
              \* is away, connected, gone (it closed first) or closed

http == <<server, backlog, peer, received, response, client>>
vars == <<session, http>>

NoAnswer == [status |-> 0]

Init ==
  /\ SessionInit
  /\ server = "socket" /\ backlog = <<>> /\ peer = Nobody /\ received = 0
  /\ response = NoAnswer
  /\ client \in [Clients -> [state : {"away"}, request : UNION {Requests[c] : c \in Clients},
                             sent : {0}, answer : {NoAnswer}, reset : {FALSE}]]
  /\ \A c \in Clients : client[c].request \in Requests[c]

-----------------------------------------------------------------------------
(***************************************************************************)
(* handleRequest(): the response, or the job that makes it.                *)
(***************************************************************************)
Plain(status) == [status |-> status, report |-> NoAnswer, output |-> <<>>]

\* The value of the first pair with this key, decoded.
queryValue(query, key) ==
  LET pairs == {k \in 1 .. Len(query) : query[k].key = key} IN
  IF pairs = {} THEN <<>>
  ELSE urlDecode(query[CHOOSE k \in pairs : \A j \in pairs : k <= j].value)

One == <<49>>
opt_level(query) == IF queryValue(query, "opt") = One THEN "O1" ELSE "O0"

IsRun(method, path) == path = "/api/run" /\ method = "POST"

Status(method, path, size) ==
  IF path \in {"/", "/index.html"} THEN (IF method = "GET" THEN 200 ELSE 405)
  ELSE IF path = "/api/run"
    THEN (IF method # "POST" THEN 405 ELSE IF size > kMaxSourceBytes THEN 413 ELSE 200)
  ELSE 404

\* toJson(): every text goes through appendJsonString().
toJson(made) ==
  [ok |-> made.ok, stage |-> made.stage, error |-> made.error,
   diagnostics |-> made.diagnostics, output_truncated |-> made.output_truncated,
   ran |-> made.stage \in {"Execute", "Finished"}, instructions |-> made.instructions]

Report(made) ==
  [status |-> 200, report |-> toJson(made), output |-> appendJsonString(made.output)]

-----------------------------------------------------------------------------
(***************************************************************************)
(* serve()                                                                 *)
(***************************************************************************)
Asked == client[peer].request

\* A call that fails ends the server before it serves anyone.
Opens(call, next) ==
  /\ server = call /\ server' \in {next, "exited"}
  /\ UNCHANGED <<session, backlog, peer, received, response, client>>

Setup == \/ Opens("socket", "address") \/ Opens("address", "bind")
         \/ Opens("bind", "listen") \/ Opens("listen", "accept")

Accept ==
  /\ server = "accept" /\ backlog # <<>>
  /\ peer' = Head(backlog) /\ backlog' = Tail(backlog)
  /\ received' = 0 /\ response' = NoAnswer /\ server' = "read"
  /\ UNCHANGED <<session, client>>

\* readRequest(), before each recv().
HeadersComplete == received >= Asked.header

IsCompleteAtHeaders == HeadersComplete

IsComplete == HeadersComplete /\ received >= Asked.header + Asked.length

DeclaredTooLong == HeadersComplete /\ Asked.length > kMaxRequestBytes

TooLongEarly ==
  DeclaredTooLong \/ received + ChunkBytes > kMaxRequestBytes

TooLong == DeclaredTooLong \/ (~IsComplete /\ received > kMaxRequestBytes)

Pending == client[peer].sent - received

Refuse ==
  /\ server = "read" /\ TooLong
  /\ server' = "close"
  /\ UNCHANGED <<session, backlog, peer, received, response, client>>

Receive ==
  /\ server = "read" /\ ~TooLong /\ ~IsComplete /\ Pending > 0
  /\ received' = received + (IF Pending < ChunkBytes THEN Pending ELSE ChunkBytes)
  /\ UNCHANGED <<session, server, backlog, peer, response, client>>

DisconnectedWaits ==
  /\ server = "read" /\ ~TooLong /\ ~IsComplete /\ Pending = 0
  /\ client[peer].state = "gone"
  /\ UNCHANGED vars

\* recv() returns 0.
Disconnected ==
  /\ server = "read" /\ ~TooLong /\ ~IsComplete /\ Pending = 0
  /\ client[peer].state = "gone"
  /\ server' = "close"
  /\ UNCHANGED <<session, backlog, peer, received, response, client>>

\* The request line is taken apart; the body is all that came after the headers,
\* which may be more than Content-Length says.
Dispatch ==
  LET body   == received - Asked.header
      status == IF Asked.line THEN Status(Asked.method, Asked.path, body) ELSE 400
      runs   == status = 200 /\ IsRun(Asked.method, Asked.path)
  IN  /\ server = "read" /\ ~TooLong /\ IsComplete
      /\ IF runs
           THEN /\ runSource(Asked.program[opt_level(Asked.query)][body], body,
                             queryValue(Asked.query, "stdin"), kDefaultPlaygroundBudget)
                /\ server' = "run" /\ UNCHANGED response
           ELSE /\ response' = Plain(status) /\ server' = "head" /\ UNCHANGED session
      /\ UNCHANGED <<backlog, peer, received, client>>

RunJob ==
  /\ server = "run" /\ SessionStep /\ UNCHANGED http

JobDone ==
  /\ server = "run" /\ job.phase = "done"
  /\ response' = Report(report) /\ server' = "head"
  /\ job' = NoJob
  /\ UNCHANGED <<machine, provider, report, backlog, peer, received, client>>

\* sendResponse(): two calls of sendAll().  What is sent to a client that has
\* gone is lost.
SendHead ==
  /\ server = "head"
  /\ server' = "body"
  /\ UNCHANGED <<session, backlog, peer, received, response, client>>

SendBody ==
  /\ server = "body" /\ ~client[peer].reset
  /\ client' = [client EXCEPT ![peer].answer =
                  IF client[peer].state = "gone" THEN @ ELSE response]
  /\ server' = "close"
  /\ UNCHANGED <<session, backlog, peer, received, response>>

Close ==
  /\ server = "close"
  /\ client' = [client EXCEPT ![peer].state = "closed"]
  /\ peer' = Nobody /\ server' = "accept"
  /\ UNCHANGED <<session, backlog, received, response>>

ServerStep ==
  \/ Setup \/ Accept \/ Refuse \/ Receive \/ Disconnected \/ Dispatch
  \/ RunJob \/ JobDone \/ SendHead \/ SendBody \/ Close

-----------------------------------------------------------------------------
(***************************************************************************)
(* The clients.                                                            *)
(***************************************************************************)
Listening == server \notin {"socket", "address", "bind", "listen", "exited", "killed"}

Stream(request) == request.header + request.body

\* All that Content-Length promises has been sent.
AllSent(c) ==
  client[c].sent >= client[c].request.header + client[c].request.length

Connect(c) ==
  /\ Listening /\ client[c].state = "away"
  /\ client' = [client EXCEPT ![c].state = "connected"]
  /\ backlog' = Append(backlog, c)
  /\ UNCHANGED <<session, server, peer, received, response>>

Send(c) ==
  /\ client[c].state = "connected"
  /\ \E n \in 1 .. Stream(client[c].request) - client[c].sent :
       client' = [client EXCEPT ![c].sent = @ + n]
  /\ UNCHANGED <<session, server, backlog, peer, received, response>>

Goes(c) ==
  /\ client[c].state = "connected"
  /\ client' = [client EXCEPT ![c].state = "gone"]
  /\ UNCHANGED <<session, server, backlog, peer, received, response>>

\* It closes its end with the request half sent.
LeaveHalfway(c) == ~AllSent(c) /\ Goes(c)

ClientStep(c) == Connect(c) \/ Send(c) \/ LeaveHalfway(c)

Next == ServerStep \/ \E c \in Clients : ClientStep(c)

\* The calls that block for as long as the peer likes, there being no timeout:
\* recv() when nothing has come, and send() when the peer does not take the body.
AwaitsPeer ==
  /\ peer # Nobody /\ client[peer].state = "connected"
  /\ \/ server = "read" /\ ~TooLong /\ ~IsComplete /\ Pending = 0
     \/ server = "body"

\* The server goes on unless it waits for its peer.  The clients need not.
Fairness == WF_vars(~AwaitsPeer /\ ServerStep)

Spec == Init /\ [][Next]_vars /\ Fairness

-----------------------------------------------------------------------------
(***************************************************************************)
(* On POSIX, with clients that may close the connection without waiting    *)
(* for the answer.  What the server sends then is answered with a reset,   *)
(* and a send() after that raises SIGPIPE, which nothing handles.          *)
(***************************************************************************)
LeaveEarly(c) == AllSent(c) /\ Goes(c)

Reset(c) ==
  /\ c = peer /\ client[c].state = "gone" /\ ~client[c].reset
  /\ server = "body"
  /\ client' = [client EXCEPT ![c].reset = TRUE]
  /\ UNCHANGED <<session, server, backlog, peer, received, response>>

Sigpipe ==
  /\ server = "body" /\ client[peer].reset
  /\ server' = "killed"
  /\ UNCHANGED <<session, backlog, peer, received, response, client>>

ImpatientNext ==
  Next \/ Sigpipe \/ \E c \in Clients : LeaveEarly(c) \/ Reset(c)

ImpatientSpec == Init /\ [][ImpatientNext]_vars

-----------------------------------------------------------------------------
\* The n bytes of a request that may have been answered: at least all that were
\* announced and, as the next client's bytes never mix in, no more than it sent.
Answered(request) == request.header + request.length .. Stream(request)

\* The answer to the first n bytes of a request.
IsAnswer(request, n, answer) ==
  LET body   == n - request.header
      status == IF request.line THEN Status(request.method, request.path, body) ELSE 400
      due    == Verdict(request.program[request.level][body], request.typed,
                        kDefaultPlaygroundBudget)
      ran    == due.stage \in {"Execute", "Finished"}
  IN  /\ answer.status = status
      /\ status = 200 /\ IsRun(request.method, request.path) =>
           /\ answer.report.ok = due.ok /\ answer.report.stage = due.stage
           /\ answer.report.ran = ran
           /\ answer.report.error \notin answer.report.diagnostics
           /\ due.ok <=> answer.report.error = "" /\ answer.report.diagnostics = {}
           /\ ran => /\ answer.report.instructions = due.instructions
                     /\ answer.report.output_truncated <=> Len(due.said) > kMaxOutputBytes
                     /\ JsonParse(answer.output)
                          = Characters(Taken(due.said, kMaxOutputBytes))

\* Queries that say what their clients mean: the level and the input that the
\* server reads from a query are those its client chose and typed.
QueriesMeanWhatTheySay ==
  \A c \in Clients : \A request \in Requests[c] :
    /\ request.level = opt_level(request.query)
    /\ request.typed = queryValue(request.query, "stdin")

\* A client's answer is the one to its own request, whole: not to a part of it
\* that came in first, not to another client's, and with the input it typed, the
\* options it chose and the output its program wrote.
AnswersAreTheirOwn ==
  \A c \in Clients :
    client[c].answer # NoAnswer =>
      \E n \in Answered(client[c].request) :
        IsAnswer(client[c].request, n, client[c].answer)

\* docs/playground.md, "The JSON contract": "the server can never emit a string
\* the browser will refuse".  Even where the limit on output cuts a character.
BrowserAccepts ==
  \A c \in Clients :
    client[c].answer # NoAnswer =>
      LET output == client[c].answer.output IN
      IsUtf8(output) /\ \A k \in DOMAIN JsonParse(output) : JsonParse(output)[k] # Refused

\* http_server.hpp, kMaxRequestBytes: the cap stops a request "from growing the
\* buffer without bound".  It is looked at between two recv() calls, so the buffer
\* may outgrow it by what one call takes; and a connection closed without an
\* answer had a reason that does not depend on how the network cut the request:
\* its client left half-way, or the request is longer than kMaxRequestBytes by
\* more than the one byte that is let through.
LengthLimitHolds ==
  /\ received <= kMaxRequestBytes + ChunkBytes
  /\ \A c \in Clients :
       LET request == client[c].request IN
       client[c].state = "closed" /\ client[c].answer = NoAnswer =>
         \/ ~AllSent(c)
         \/ request.length > kMaxRequestBytes
         \/ request.header + request.length > kMaxRequestBytes + 1

\* session.hpp: a job "never blocks indefinitely".  No program, no length or order
\* of requests and no client that has left holds the server: every connection is
\* closed in the end, unless the server waits for good for the client it is
\* serving, which neither sends (or takes its answer) nor leaves.
OnlyThePeerHoldsTheServer ==
  \/ <>[]AwaitsPeer
  \/ \A c \in Clients :
       client[c].state = "connected" ~> client[c].state = "closed"

\* http_server.hpp, serve(): "Runs the server until the process is interrupted."
RunsUntilInterrupted == server # "killed"

=============================================================================
