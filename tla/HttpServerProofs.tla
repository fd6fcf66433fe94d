--------------------------- MODULE HttpServerProofs ---------------------------
(***************************************************************************)
(* The playground for every set of clients, every request, every limit and *)
(* every way the network cuts a request: the limit on requests, whom an    *)
(* answer is for, what appendJsonString() makes of any bytes, and that an  *)
(* answer holds what its program did.                                      *)
(***************************************************************************)
EXTENDS HttpServer, WellFoundedInduction, SequenceTheorems, TLAPS

Serving == {"read", "run", "head", "body", "close"}

ClientFields == {"state", "request", "sent", "answer", "reset"}

LongerThanLetThrough(c) ==
  \/ client[c].request.length > kMaxRequestBytes
  \/ client[c].request.header + client[c].request.length > kMaxRequestBytes + 1

\* Why the server may close its end without having answered.
Excused(c) ==
  client[c].answer # NoAnswer \/ client[c].state = "gone" \/ LongerThanLetThrough(c)

ClientInv(c) ==
  /\ DOMAIN client[c] = ClientFields
  /\ client[c].request \in Requests[c] /\ client[c].sent \in Nat
  /\ client[c].state = "gone" => ~AllSent(c)
  /\ client[c].state = "closed" /\ client[c].answer = NoAnswer =>
       ~AllSent(c) \/ LongerThanLetThrough(c)

\* The inductive invariant: it adds to the property whom the server serves, that
\* it has an answer when it sends one, and that it has an excuse when it closes.
ServerInv ==
  /\ received \in 0 .. kMaxRequestBytes + ChunkBytes
  /\ backlog \in Seq(Clients)
  /\ server \in Serving => peer \in Clients
  /\ server \in {"head", "body"} => response # NoAnswer
  /\ server = "close" => Excused(peer)
  /\ DOMAIN client = Clients
  /\ \A c \in Clients : ClientInv(c)

LEMMA Limits ==
  kMaxRequestBytes \in Nat /\ ChunkBytes \in Nat /\ ChunkBytes > 0
BY HttpServerAssumption

LEMMA RequestSizes ==
  ASSUME NEW c \in Clients, client[c].request \in Requests[c]
  PROVE  /\ client[c].request.header \in Nat /\ client[c].request.length \in Nat
         /\ client[c].request.body \in Nat
BY HttpServerAssumption

LEMMA InvariantImpliesLimit == ServerInv => LengthLimitHolds
<1>. SUFFICES ASSUME ServerInv PROVE LengthLimitHolds
  OBVIOUS
<1>1. received <= kMaxRequestBytes + ChunkBytes
  BY Limits DEF ServerInv
<1>. QED
  BY <1>1 DEF LengthLimitHolds, ServerInv, ClientInv, LongerThanLetThrough

LEMMA InitialInvariant == Init => ServerInv
<1>. SUFFICES ASSUME Init PROVE ServerInv
  OBVIOUS
<1>. USE DEF Init
<1>1. received \in 0 .. kMaxRequestBytes + ChunkBytes
  BY Limits
<1>2. backlog \in Seq(Clients)
  OBVIOUS
<1>3. DOMAIN client = Clients
  OBVIOUS
<1>4. ASSUME NEW c \in Clients PROVE ClientInv(c)
  <2>1. client[c] \in [state : {"away"}, request : UNION {Requests[d] : d \in Clients},
                       sent : {0}, answer : {NoAnswer}, reset : {FALSE}]
    OBVIOUS
  <2>. QED
    BY <2>1 DEF ClientInv, ClientFields
<1>. QED
  BY <1>1, <1>2, <1>3, <1>4 DEF ServerInv, Serving

-----------------------------------------------------------------------------
\* The steps that leave the clients and the buffer alone need only say where the
\* server is afterwards.
LEMMA ServerMoves ==
  ASSUME ServerInv, UNCHANGED <<client, backlog, received>>,
         server' \in Serving => peer' \in Clients,
         server' \in {"head", "body"} => response' # NoAnswer,
         server' = "close" => Excused(peer')
  PROVE  ServerInv'
<1>1. \A c \in Clients : ClientInv(c)'
  BY DEF ServerInv, ClientInv, AllSent, LongerThanLetThrough
<1>2. server' = "close" => Excused(peer)'
  BY DEF Excused, LongerThanLetThrough
<1>. QED
  BY <1>1, <1>2 DEF ServerInv

\* The steps that change one client's record, and neither its request nor, but
\* for the server's answer, what excuses the server.
LEMMA ClientMoves ==
  ASSUME ServerInv, NEW c \in Clients, UNCHANGED received,
         backlog' \in Seq(Clients),
         server' \in Serving => peer' \in Clients,
         server' \in {"head", "body"} => response' # NoAnswer,
         NEW next, client' = [client EXCEPT ![c] = next],
         DOMAIN next = ClientFields, next.request = client[c].request, next.sent \in Nat,
         next.state = "gone" => next.sent < next.request.header + next.request.length,
         next.state = "closed" /\ next.answer = NoAnswer =>
           \/ next.sent < next.request.header + next.request.length
           \/ LongerThanLetThrough(c),
         server' = "close" =>
           \/ peer' = c /\ (next.answer # NoAnswer \/ next.state = "gone"
                              \/ LongerThanLetThrough(c))
           \/ peer' # c /\ Excused(peer')
  PROVE  ServerInv'
<1>. USE DEF ServerInv
<1>1. /\ DOMAIN client' = Clients
      /\ \A d \in Clients \ {c} : client'[d] = client[d]
      /\ client'[c] = next
  OBVIOUS
<1>2. ClientInv(c)'
  <2>1. client[c].request.header \in Nat /\ client[c].request.length \in Nat
    BY RequestSizes DEF ClientInv
  <2>. QED
    BY <1>1, <2>1 DEF ClientInv, AllSent, LongerThanLetThrough
<1>3. ASSUME NEW d \in Clients \ {c} PROVE ClientInv(d)'
  BY <1>1 DEF ClientInv, AllSent, LongerThanLetThrough
<1>4. server' = "close" => Excused(peer)'
  BY <1>1 DEF Excused, LongerThanLetThrough, Serving
<1>. QED
  BY <1>1, <1>2, <1>3, <1>4

-----------------------------------------------------------------------------
LEMMA AcceptKeeps == ASSUME ServerInv, Accept PROVE ServerInv'
<1>1. peer' \in Clients /\ backlog' \in Seq(Clients)
  BY DEF Accept, ServerInv
<1>2. \A c \in Clients : ClientInv(c)'
  BY DEF Accept, ServerInv, ClientInv, AllSent, LongerThanLetThrough
<1>3. received' \in 0 .. kMaxRequestBytes + ChunkBytes
  BY Limits DEF Accept
<1>. QED
  BY <1>1, <1>2, <1>3 DEF Accept, ServerInv, Serving

\* Whatever the buffer holds then, the announced request is longer than the limit
\* lets through.
LEMMA RefuseKeeps == ASSUME ServerInv, Refuse PROVE ServerInv'
<1>1. peer \in Clients /\ received \in Nat
  BY Limits DEF Refuse, ServerInv, Serving
<1>2. client[peer].request.header \in Nat /\ client[peer].request.length \in Nat
  BY <1>1, RequestSizes DEF ServerInv, ClientInv
<1>3. LongerThanLetThrough(peer)
  BY <1>1, <1>2, Limits
  DEF Refuse, TooLong, DeclaredTooLong, IsComplete, HeadersComplete, Asked,
      LongerThanLetThrough
<1>. QED
  BY <1>1, <1>3, ServerMoves DEF Refuse, Excused

\* recv() is called only while the buffer is within the limit.
LEMMA ReceiveKeeps == ASSUME ServerInv, Receive PROVE ServerInv'
<1>1. peer \in Clients /\ received \in Nat
  BY Limits DEF Receive, ServerInv, Serving
<1>2. client[peer].sent \in Nat
  BY <1>1 DEF ServerInv, ClientInv
<1>3. received <= kMaxRequestBytes
  BY <1>1, Limits DEF Receive, TooLong
<1>4. received' \in 0 .. kMaxRequestBytes + ChunkBytes
  BY <1>1, <1>2, <1>3, Limits DEF Receive, Pending
<1>5. \A c \in Clients : ClientInv(c)'
  BY DEF Receive, ServerInv, ClientInv, AllSent, LongerThanLetThrough
<1>. QED
  BY <1>4, <1>5 DEF Receive, ServerInv

LEMMA DisconnectedKeeps == ASSUME ServerInv, Disconnected PROVE ServerInv'
BY ServerMoves DEF Disconnected, ServerInv, Serving, Excused

LEMMA ResponsesAreAnswers ==
  /\ \A status : status # 0 => Plain(status) # NoAnswer
  /\ \A made : Report(made) # NoAnswer
<1>1. NoAnswer.status = 0
  BY DEF NoAnswer
<1>2. \A status : Plain(status).status = status
  BY DEF Plain
<1>3. \A made : Report(made).status = 200
  BY DEF Report
<1>. QED
  BY <1>1, <1>2, <1>3

LEMMA DispatchKeeps == ASSUME ServerInv, Dispatch PROVE ServerInv'
<1>1. peer \in Clients
  BY DEF Dispatch, ServerInv, Serving
<1>2. \A method, path, size : Status(method, path, size) # 0
  BY DEF Status
<1>3. server' \in {"head", "body"} => response' # NoAnswer
  BY <1>2, ResponsesAreAnswers DEF Dispatch
<1>. QED
  BY <1>1, <1>3, ServerMoves DEF Dispatch

LEMMA JobKeeps == ASSUME ServerInv, RunJob \/ JobDone PROVE ServerInv'
<1>1. CASE RunJob
  BY <1>1, ServerMoves DEF RunJob, http, ServerInv
<1>2. CASE JobDone
  BY <1>2, ServerMoves, ResponsesAreAnswers DEF JobDone, ServerInv, Serving
<1>. QED
  BY <1>1, <1>2

\* A client that has gone did so half-way, and one that has not gets an answer.
LEMMA SendKeeps == ASSUME ServerInv, SendHead \/ SendBody PROVE ServerInv'
<1>1. CASE SendHead
  BY <1>1, ServerMoves DEF SendHead, ServerInv, Serving
<1>2. CASE SendBody
  <2>. DEFINE old == client[peer]
              next == [old EXCEPT !.answer = IF old.state = "gone" THEN @ ELSE response]
  <2>1. peer \in Clients /\ response # NoAnswer
    BY <1>2 DEF SendBody, ServerInv, Serving
  <2>2. /\ DOMAIN old = ClientFields /\ ClientInv(peer)
    BY <2>1 DEF ServerInv, ClientInv
  <2>3. /\ DOMAIN next = ClientFields
        /\ next.state = old.state /\ next.request = old.request /\ next.sent = old.sent
        /\ next.answer = IF old.state = "gone" THEN old.answer ELSE response
    BY <2>2 DEF ClientFields
  <2>4. client' = [client EXCEPT ![peer] = next]
    BY <1>2 DEF SendBody
  <2>5. old.request.header \in Nat /\ old.request.length \in Nat
    BY <2>1, <2>2, RequestSizes DEF ClientInv
  <2>. HIDE DEF next
  <2>6. next.state = "gone" => next.sent < next.request.header + next.request.length
    BY <2>2, <2>3, <2>5 DEF ClientInv, AllSent
  <2>7. next.state = "closed" => next.answer # NoAnswer
    BY <2>1, <2>3
  <2>8. next.answer # NoAnswer \/ next.state = "gone"
    BY <2>1, <2>3
  <2>9. /\ backlog' \in Seq(Clients) /\ server' = "close" /\ peer' = peer
        /\ UNCHANGED received /\ next.sent \in Nat
    BY <1>2, <2>2, <2>3 DEF SendBody, ServerInv, ClientInv
  <2>. QED
    BY <2>1, <2>3, <2>4, <2>6, <2>7, <2>8, <2>9, ClientMoves
<1>. QED
  BY <1>1, <1>2

LEMMA CloseKeeps == ASSUME ServerInv, Close PROVE ServerInv'
<1>. DEFINE old == client[peer]
            next == [old EXCEPT !.state = "closed"]
<1>1. peer \in Clients /\ Excused(peer)
  BY DEF Close, ServerInv, Serving
<1>2. /\ DOMAIN old = ClientFields /\ ClientInv(peer)
  BY <1>1 DEF ServerInv, ClientInv
<1>3. /\ DOMAIN next = ClientFields /\ next.state = "closed"
      /\ next.request = old.request /\ next.sent = old.sent /\ next.answer = old.answer
  BY <1>2 DEF ClientFields
<1>4. client' = [client EXCEPT ![peer] = next]
  BY DEF Close
<1>5. old.request.header \in Nat /\ old.request.length \in Nat
  BY <1>1, <1>2, RequestSizes DEF ClientInv
<1>. HIDE DEF next
<1>6. next.answer = NoAnswer =>
        \/ next.sent < next.request.header + next.request.length
        \/ LongerThanLetThrough(peer)
  BY <1>1, <1>2, <1>3, <1>5 DEF ClientInv, AllSent, Excused
<1>7. /\ backlog' \in Seq(Clients) /\ server' = "accept"
      /\ UNCHANGED received /\ next.sent \in Nat
  BY <1>2, <1>3 DEF Close, ServerInv, ClientInv
<1>. QED
  BY <1>1, <1>3, <1>4, <1>6, <1>7, ClientMoves DEF Serving

-----------------------------------------------------------------------------
\* What a client does: it changes its state and what it has sent, and only from
\* away or connected.
LEMMA ClientStepKeeps ==
  ASSUME ServerInv, NEW c \in Clients, ClientStep(c) PROVE ServerInv'
<1>. DEFINE old == client[c]
<1>1. /\ DOMAIN old = ClientFields /\ ClientInv(c)
  BY DEF ServerInv, ClientInv
<1>2. /\ old.request.header \in Nat /\ old.request.length \in Nat
      /\ old.request.body \in Nat /\ old.sent \in Nat
  BY <1>1, RequestSizes DEF ClientInv
<1>3. /\ UNCHANGED <<server, peer, received, response>>
      /\ backlog' \in Seq(Clients)
  <2>1. UNCHANGED <<server, peer, received, response>>
    BY DEF ClientStep, Connect, Send, LeaveHalfway, Goes
  <2>2. backlog' = Append(backlog, c) \/ backlog' = backlog
    BY DEF ClientStep, Connect, Send, LeaveHalfway, Goes
  <2>3. backlog \in Seq(Clients)
    BY DEF ServerInv
  <2>4. QED
    BY <2>1, <2>2, <2>3
<1>4. old.state \in {"away", "connected"}
  BY DEF ClientStep, Connect, Send, LeaveHalfway, Goes
<1>5. ASSUME NEW next, client' = [client EXCEPT ![c] = next],
             DOMAIN next = ClientFields, next.request = old.request, next.sent \in Nat,
             next.answer = old.answer, next.state # "closed",
             next.state = "gone" =>
               next.sent < next.request.header + next.request.length
      PROVE  ServerInv'
  <2>1. server' = "close" =>
          \/ peer' = c /\ (next.answer # NoAnswer \/ LongerThanLetThrough(c))
          \/ peer' # c /\ Excused(peer')
    BY <1>3, <1>4, <1>5 DEF ServerInv, Excused
  <2>2. /\ server' \in Serving => peer' \in Clients
        /\ server' \in {"head", "body"} => response' # NoAnswer
    BY <1>3 DEF ServerInv
  <2>. QED
    BY <1>3, <1>5, <2>1, <2>2, ClientMoves
<1>6. CASE Connect(c)
  <2>. DEFINE next == [old EXCEPT !.state = "connected"]
  <2>1. client' = [client EXCEPT ![c] = next]
    BY <1>6 DEF Connect
  <2>2. /\ DOMAIN next = ClientFields /\ next.state = "connected"
        /\ next.request = old.request /\ next.sent = old.sent /\ next.answer = old.answer
    BY <1>1 DEF ClientFields
  <2>. HIDE DEF next
  <2>. QED
    BY <1>2, <1>5, <2>1, <2>2
<1>7. CASE Send(c)
  <2>1. PICK n \in 1 .. Stream(old.request) - old.sent :
          client' = [client EXCEPT ![c].sent = @ + n]
    BY <1>7 DEF Send
  <2>. DEFINE next == [old EXCEPT !.sent = @ + n]
  <2>2. client' = [client EXCEPT ![c] = next]
    BY <2>1
  <2>3. /\ DOMAIN next = ClientFields /\ next.state = old.state
        /\ next.request = old.request /\ next.sent = old.sent + n
        /\ next.answer = old.answer
    BY <1>1 DEF ClientFields
  <2>4. next.sent \in Nat
    BY <1>2, <2>1, <2>3 DEF Stream
  <2>. HIDE DEF next
  <2>. QED
    BY <1>4, <1>5, <2>2, <2>3, <2>4
<1>8. CASE LeaveHalfway(c)
  <2>. DEFINE next == [old EXCEPT !.state = "gone"]
  <2>1. client' = [client EXCEPT ![c] = next]
    BY <1>8 DEF LeaveHalfway, Goes
  <2>2. /\ DOMAIN next = ClientFields /\ next.state = "gone"
        /\ next.request = old.request /\ next.sent = old.sent /\ next.answer = old.answer
    BY <1>1 DEF ClientFields
  <2>3. old.sent < old.request.header + old.request.length
    BY <1>2, <1>8 DEF LeaveHalfway, AllSent
  <2>. HIDE DEF next
  <2>. QED
    BY <1>2, <1>5, <2>1, <2>2, <2>3
<1>. QED
  BY <1>6, <1>7, <1>8 DEF ClientStep

LEMMA InvariantIsKept == ServerInv /\ [Next]_vars => ServerInv'
<1>. SUFFICES ASSUME ServerInv, [Next]_vars PROVE ServerInv'
  OBVIOUS
<1>1. CASE Setup
  BY <1>1, ServerMoves DEF Setup, Opens, Serving
<1>2. CASE \E c \in Clients : ClientStep(c)
  BY <1>2, ClientStepKeeps
<1>3. CASE UNCHANGED vars
  BY <1>3, ServerMoves DEF vars, http, ServerInv
<1>. QED
  BY <1>1, <1>2, <1>3, AcceptKeeps, RefuseKeeps, ReceiveKeeps, DisconnectedKeeps,
     DispatchKeeps, JobKeeps, SendKeeps, CloseKeeps
  DEF Next, ServerStep

\* http_server.hpp, kMaxRequestBytes: however a request arrives, readRequest()
\* never holds more than one recv() beyond the limit, and a client that sent all
\* it announced is turned away only if that was too much.
THEOREM RequestLimitAlwaysHolds == Spec => []LengthLimitHolds
<1>1. Init => ServerInv
  BY InitialInvariant
<1>2. ServerInv /\ [Next]_vars => ServerInv'
  BY InvariantIsKept
<1>3. ServerInv => LengthLimitHolds
  BY InvariantImpliesLimit
<1>. QED
  BY <1>1, <1>2, <1>3, PTL DEF Spec

-----------------------------------------------------------------------------
(***************************************************************************)
(* Whom an answer is for.                                                  *)
(***************************************************************************)

\* What handleRequest() owes the first n bytes of a request.
DueStatus(request, n) ==
  IF request.line THEN Status(request.method, request.path, n - request.header)
  ELSE 400
Runs(request, n) == DueStatus(request, n) = 200 /\ IsRun(request.method, request.path)
Submitted(request, n) ==
  request.program[opt_level(request.query)][n - request.header]

Budget == Clamped(kDefaultPlaygroundBudget)

\* A report names the first stage that the program does not get through, counts
\* no more instructions than the budget, and has an error or a diagnostic exactly
\* when the job failed, never the same text in both.
ReportFits(program, made) ==
  /\ ~program.assembles => made.stage = "Assemble"
  /\ program.assembles /\ ~program.links => made.stage = "Link"
  /\ program.assembles /\ program.links /\ ~program.loads => made.stage = "Load"
  /\ program.assembles /\ program.links /\ program.loads =>
       made.stage \in {"Execute", "Finished"} /\ made.instructions \in 1 .. Budget
  /\ made.ok <=> made.stage = "Finished"
  /\ made.ok <=> made.error = "" /\ made.diagnostics = {}
  /\ made.error \notin made.diagnostics

FitsRequest(request, n, answer) ==
  /\ answer.status = DueStatus(request, n)
  /\ Runs(request, n) => ReportFits(Submitted(request, n), answer.report)

\* Every answer a client got is one to its own request, whole: the status its
\* request line and size deserve and, for a job, the report on the program it
\* sent, compiled with the options it chose.
AnswersFitTheirRequests ==
  \A c \in Clients :
    client[c].answer # NoAnswer =>
      \E n \in Answered(client[c].request) :
        FitsRequest(client[c].request, n, client[c].answer)

\* How far runSource() has come with the program.
JobFits(program) ==
  /\ DOMAIN job = {"phase", "program", "budget"}
  /\ job.program = program /\ job.budget = Budget
  /\ job.phase \in {"Assemble", "Link", "Load", "Execute", "done"}
  /\ DOMAIN machine = {"at", "instructions", "memory"}
  /\ machine.instructions \in 0 .. Budget
  /\ job.phase # "done" => report = NewReport
  /\ job.phase \in {"Link", "Load", "Execute"} => program.assembles
  /\ job.phase \in {"Load", "Execute"} => program.links
  /\ job.phase = "Execute" => program.loads
  /\ job.phase = "done" => ReportFits(program, report)

\* What the server holds while it serves a request: some bytes the client sent,
\* then the whole request and the job on it, then the answer to it.
HoldsRequest ==
  /\ server \in Serving => received <= client[peer].sent
  /\ server = "run" => /\ received \in Answered(Asked) /\ Runs(Asked, received)
                       /\ JobFits(Submitted(Asked, received))
  /\ server \in {"head", "body"} => /\ received \in Answered(Asked)
                                    /\ FitsRequest(Asked, received, response)

SentWithinStream == \A c \in Clients : client[c].sent <= Stream(client[c].request)

AnswerInv == ServerInv /\ SentWithinStream /\ HoldsRequest /\ AnswersFitTheirRequests

-----------------------------------------------------------------------------
LEMMA BudgetType == Budget \in Nat /\ Budget > 0
BY HttpServerAssumption, SessionAssumption DEF Budget, Clamped

\* The fields of a report that runSource() fills in.
LEMMA NewReportFields ==
  /\ DOMAIN NewReport = {"ok", "stage", "diagnostics", "error", "output",
                         "output_truncated", "instructions"}
  /\ NewReport.ok = FALSE /\ NewReport.diagnostics = {} /\ NewReport.error = ""
BY DEF NewReport

\* A job that ends keeps its program and its budget.
LEMMA JobEnds ==
  ASSUME NEW program, JobFits(program), NEW made, Ends(made), ReportFits(program, made),
         DOMAIN machine' = {"at", "instructions", "memory"},
         machine'.instructions \in 0 .. Budget
  PROVE  JobFits(program)'
<1>1. /\ DOMAIN job' = {"phase", "program", "budget"} /\ job'.phase = "done"
      /\ job'.program = program /\ job'.budget = Budget /\ report' = made
  BY DEF Ends, JobFits
<1>. QED
  BY <1>1 DEF JobFits

\* So does one that goes on to its next stage.
LEMMA JobAdvances ==
  ASSUME NEW program, JobFits(program), NEW phase \in {"Link", "Load", "Execute"},
         job' = [job EXCEPT !.phase = phase], job.phase # "done",
         UNCHANGED <<report, machine>>,
         program.assembles,
         phase \in {"Load", "Execute"} => program.links,
         phase = "Execute" => program.loads
  PROVE  JobFits(program)'
<1>1. /\ DOMAIN job' = {"phase", "program", "budget"} /\ job'.phase = phase
      /\ job'.program = program /\ job'.budget = Budget
  BY DEF JobFits
<1>. QED
  BY <1>1 DEF JobFits

\* The three stages before the run: each either hands over to the next or ends
\* the job with a report that names it.
LEMMA StagesFit ==
  ASSUME NEW program, JobFits(program), Assemble \/ Link \/ Load
  PROVE  JobFits(program)'
<1>1. UNCHANGED machine
  BY DEF Assemble, Link, Load
<1>2. /\ DOMAIN machine' = {"at", "instructions", "memory"}
      /\ machine'.instructions \in 0 .. Budget
      /\ job.program = program /\ report = NewReport
  BY <1>1 DEF JobFits, Assemble, Link, Load
<1>3. CASE Assemble
  <2>1. CASE program.assembles
    BY <1>1, <1>2, <1>3, <2>1, JobAdvances DEF Assemble
  <2>2. CASE ~program.assembles
    <3>. DEFINE made == Failed([report EXCEPT !.diagnostics = {"at this line"}],
                               "Assemble", "semantic analysis failed")
    <3>1. /\ made.ok = FALSE /\ made.stage = "Assemble"
          /\ made.diagnostics = {"at this line"}
          /\ made.error = "semantic analysis failed"
      BY <1>2, NewReportFields DEF Failed, setError
    <3>2. Ends(made)
      BY <1>2, <1>3, <2>2 DEF Assemble
    <3>. HIDE DEF made
    <3>3. ReportFits(program, made)
      BY <2>2, <3>1 DEF ReportFits
    <3>. QED
      BY <1>2, <3>2, <3>3, JobEnds
  <2>. QED
    BY <2>1, <2>2
<1>4. CASE Link
  <2>0. program.assembles
    BY <1>4 DEF Link, JobFits
  <2>1. CASE program.links
    BY <1>1, <1>2, <1>4, <2>0, <2>1, JobAdvances DEF Link
  <2>2. CASE ~program.links
    <3>. DEFINE made == Failed([report EXCEPT !.diagnostics = @ \cup {"link error"}],
                               "Link", "link error")
    <3>1. /\ made.ok = FALSE /\ made.stage = "Link"
          /\ made.diagnostics = {"link error"} /\ made.error = ""
      BY <1>2, NewReportFields DEF Failed, setError
    <3>2. Ends(made)
      BY <1>2, <1>4, <2>2 DEF Link
    <3>. HIDE DEF made
    <3>3. ReportFits(program, made)
      BY <2>0, <2>2, <3>1 DEF ReportFits
    <3>. QED
      BY <1>2, <3>2, <3>3, JobEnds
  <2>. QED
    BY <2>1, <2>2
<1>5. CASE Load
  <2>0. program.assembles /\ program.links
    BY <1>5 DEF Load, JobFits
  <2>1. CASE program.loads
    BY <1>1, <1>2, <1>5, <2>0, <2>1, JobAdvances DEF Load
  <2>2. CASE ~program.loads
    <3>. DEFINE made == Failed(report, "Load", "load error")
    <3>1. /\ made.ok = FALSE /\ made.stage = "Load"
          /\ made.diagnostics = {} /\ made.error = "load error"
      BY <1>2, NewReportFields DEF Failed, setError
    <3>2. Ends(made)
      BY <1>2, <1>5, <2>2 DEF Load
    <3>. HIDE DEF made
    <3>3. ReportFits(program, made)
      BY <2>0, <2>2, <3>1 DEF ReportFits
    <3>. QED
      BY <1>2, <3>2, <3>3, JobEnds
  <2>. QED
    BY <2>1, <2>2
<1>. QED
  BY <1>3, <1>4, <1>5

\* The run: each instruction is counted within the budget, and the report at its
\* end is that of a program that got as far as running.
LEMMA RunFits ==
  ASSUME NEW program, JobFits(program),
         Work \/ Loop \/ Write \/ Read \/ Trap \/ BudgetExhausted \/ Halt
  PROVE  JobFits(program)'
<1>1. /\ job.phase = "Execute" /\ report = NewReport
      /\ program.assembles /\ program.links /\ program.loads
      /\ DOMAIN machine = {"at", "instructions", "memory"}
      /\ machine.instructions \in 0 .. Budget /\ job.budget = Budget
  BY DEF JobFits, Work, Loop, Write, Read, Running, Trap, BudgetExhausted, Halt
<1>2. CASE Work \/ Loop \/ Write \/ Read
  <2>1. /\ UNCHANGED <<job, report>> /\ machine.instructions < Budget
    BY <1>1, <1>2 DEF Work, Loop, Write, Read, Running
  <2>2. /\ DOMAIN machine' = {"at", "instructions", "memory"}
        /\ machine'.instructions = machine.instructions + 1
    <3>1. CASE Work \/ Write
      BY <1>1, <3>1 DEF Work, Write, Onwards, Counted
    <3>2. CASE Loop
      BY <1>1, <3>2 DEF Loop, Counted
    <3>3. CASE Read
      BY <1>1, <3>3 DEF Read, Onwards, Counted
    <3>. QED
      BY <1>2, <3>1, <3>2, <3>3
  <2>3. machine'.instructions \in 0 .. Budget
    BY <1>1, <2>1, <2>2, BudgetType
  <2>. QED
    BY <1>1, <2>1, <2>2, <2>3 DEF JobFits
<1>3. CASE Trap
  <2>. DEFINE count == machine.instructions + 1
              made == Failed(Recorded(count), "Execute", "trap")
  <2>1. Ends(made) /\ machine' = Counted(machine) /\ machine.instructions < Budget
    BY <1>1, <1>3 DEF Trap
  <2>2. /\ DOMAIN machine' = {"at", "instructions", "memory"}
        /\ machine'.instructions = count
    BY <1>1, <2>1 DEF Counted
  <2>3. count \in 1 .. Budget /\ count \in 0 .. Budget
    BY <1>1, <2>1, BudgetType
  <2>. HIDE DEF count
  <2>4. /\ made.ok = FALSE /\ made.stage = "Execute" /\ made.diagnostics = {}
        /\ made.error = "trap" /\ made.instructions = count
    BY <1>1, NewReportFields DEF Failed, setError, Recorded
  <2>. HIDE DEF made
  <2>5. ReportFits(program, made)
    BY <1>1, <2>3, <2>4 DEF ReportFits
  <2>. QED
    BY <2>1, <2>2, <2>3, <2>5, JobEnds
<1>4. CASE BudgetExhausted
  <2>. DEFINE count == machine.instructions
              made == Failed(Recorded(count), "Execute", "budget exhausted")
  <2>1. Ends(made) /\ UNCHANGED machine /\ machine.instructions = Budget
    BY <1>1, <1>4 DEF BudgetExhausted
  <2>2. Budget \in 1 .. Budget
    BY BudgetType
  <2>3. count \in 1 .. Budget
    BY <2>1, <2>2
  <2>. HIDE DEF count
  <2>4. /\ made.ok = FALSE /\ made.stage = "Execute" /\ made.diagnostics = {}
        /\ made.error = "budget exhausted" /\ made.instructions = count
    BY <1>1, NewReportFields DEF Failed, setError, Recorded
  <2>. HIDE DEF made
  <2>5. ReportFits(program, made)
    BY <1>1, <2>3, <2>4 DEF ReportFits
  <2>. QED
    BY <1>1, <2>1, <2>5, JobEnds
<1>5. CASE Halt
  <2>. DEFINE count == machine.instructions + 1
              made == [Recorded(count) EXCEPT !.ok = TRUE, !.stage = "Finished"]
  <2>1. Ends(made) /\ machine' = Counted(machine) /\ machine.instructions < Budget
    BY <1>1, <1>5 DEF Halt
  <2>2. /\ DOMAIN machine' = {"at", "instructions", "memory"}
        /\ machine'.instructions = count
    BY <1>1, <2>1 DEF Counted
  <2>3. count \in 1 .. Budget /\ count \in 0 .. Budget
    BY <1>1, <2>1, BudgetType
  <2>. HIDE DEF count
  <2>4. /\ made.ok = TRUE /\ made.stage = "Finished" /\ made.diagnostics = {}
        /\ made.error = "" /\ made.instructions = count
    BY <1>1, NewReportFields DEF Recorded
  <2>. HIDE DEF made
  <2>5. ReportFits(program, made)
    BY <1>1, <2>3, <2>4 DEF ReportFits
  <2>. QED
    BY <2>1, <2>2, <2>3, <2>5, JobEnds
<1>. QED
  BY <1>2, <1>3, <1>4, <1>5

-----------------------------------------------------------------------------
\* Whatever happens, a client's request stays, what it has sent grows up to the
\* whole of it, and it gets no answer but the response of the server serving it.
LEMMA ClientsMove ==
  ASSUME ServerInv, SentWithinStream, [Next]_vars, NEW c \in Clients
  PROVE  /\ client'[c].request = client[c].request
         /\ client'[c].sent >= client[c].sent
         /\ client'[c].sent <= Stream(client[c].request)
         /\ \/ client'[c].answer = client[c].answer
            \/ c = peer /\ server = "body" /\ client'[c].answer = response
<1>1. /\ DOMAIN client = Clients /\ DOMAIN client[c] = ClientFields
      /\ client[c].sent \in Nat /\ client[c].sent <= Stream(client[c].request)
      /\ Stream(client[c].request) \in Nat
  <2>1. ClientInv(c)
    BY DEF ServerInv
  <2>2. client[c].request.header \in Nat /\ client[c].request.body \in Nat
    BY <2>1, RequestSizes DEF ClientInv
  <2>. QED
    BY <2>1, <2>2 DEF ServerInv, ClientInv, SentWithinStream, Stream
<1>2. CASE UNCHANGED client
  BY <1>1, <1>2
<1>3. CASE SendBody
  BY <1>1, <1>3 DEF SendBody, ClientFields
<1>4. CASE Close
  BY <1>1, <1>4 DEF Close, ClientFields
<1>5. ASSUME NEW d \in Clients, Connect(d) \/ LeaveHalfway(d)
      PROVE  /\ client'[c].request = client[c].request
             /\ client'[c].sent = client[c].sent
             /\ client'[c].answer = client[c].answer
  BY <1>1, <1>5 DEF Connect, LeaveHalfway, Goes, ClientFields
<1>6. ASSUME NEW d \in Clients, Send(d)
      PROVE  /\ client'[c].request = client[c].request
             /\ client'[c].sent >= client[c].sent
             /\ client'[c].sent <= Stream(client[c].request)
             /\ client'[c].answer = client[c].answer
  <2>1. PICK n \in 1 .. Stream(client[d].request) - client[d].sent :
          client' = [client EXCEPT ![d].sent = @ + n]
    BY <1>6 DEF Send
  <2>2. CASE c = d
    <3>1. /\ client'[c].request = client[c].request
          /\ client'[c].sent = client[c].sent + n
          /\ client'[c].answer = client[c].answer
      BY <1>1, <2>1, <2>2 DEF ClientFields
    <3>2. n \in 1 .. Stream(client[c].request) - client[c].sent
      BY <2>2
    <3>. QED
      BY <1>1, <3>1, <3>2
  <2>3. CASE c # d
    <3>1. client'[c] = client[c]
      BY <1>1, <2>1, <2>3
    <3>. QED
      BY <1>1, <3>1
  <2>. QED
    BY <2>2, <2>3
<1>7. CASE \E d \in Clients : ClientStep(d)
  BY <1>1, <1>5, <1>6, <1>7 DEF ClientStep
<1>8. \/ UNCHANGED client \/ SendBody \/ Close
      \/ \E d \in Clients : ClientStep(d)
  BY DEF Next, ServerStep, Setup, Opens, Accept, Refuse, Receive, Disconnected,
         Dispatch, RunJob, JobDone, SendHead, vars, http
<1>. QED
  BY <1>2, <1>3, <1>4, <1>7, <1>8

LEMMA SentStays ==
  ASSUME ServerInv, SentWithinStream, [Next]_vars PROVE SentWithinStream'
BY ClientsMove DEF SentWithinStream

\* The bytes the server holds when the request is complete.
LEMMA WholeRequest ==
  ASSUME ServerInv, SentWithinStream, HoldsRequest, server = "read", IsComplete
  PROVE  received \in Answered(Asked)
<1>1. peer \in Clients /\ received \in Nat /\ received <= client[peer].sent
  BY Limits DEF ServerInv, Serving, HoldsRequest
<1>2. ClientInv(peer) /\ client[peer].sent <= Stream(client[peer].request)
  BY <1>1 DEF ServerInv, SentWithinStream
<1>3. /\ client[peer].request.header \in Nat /\ client[peer].request.length \in Nat
      /\ client[peer].request.body \in Nat /\ client[peer].sent \in Nat
  BY <1>1, <1>2, RequestSizes DEF ClientInv
<1>4. received >= Asked.header + Asked.length
  BY DEF IsComplete
<1>. QED
  BY <1>1, <1>2, <1>3, <1>4 DEF Answered, Asked, Stream

\* The steps that keep the server where it is with the request it has.
LEMMA RequestIsHeld ==
  ASSUME ServerInv, SentWithinStream, HoldsRequest, [Next]_vars,
         UNCHANGED <<session, server, peer, received, response>>
  PROVE  HoldsRequest'
<1>1. CASE server \notin Serving
  BY <1>1 DEF HoldsRequest, Serving
<1>2. CASE server \in Serving
  <2>1. peer \in Clients
    BY <1>2 DEF ServerInv
  <2>2. Asked' = Asked /\ client'[peer].sent >= client[peer].sent
    BY <2>1, ClientsMove DEF Asked
  <2>3. received' <= client'[peer'].sent
    <3>1. /\ received <= client[peer].sent /\ received \in Nat
          /\ client[peer].sent \in Nat
      BY <1>2, <2>1, Limits DEF HoldsRequest, ServerInv, ClientInv
    <3>2. client'[peer].sent \in Nat
      BY <2>1, InvariantIsKept DEF ServerInv, ClientInv
    <3>. QED
      BY <2>2, <3>1, <3>2
  <2>4. \A program : JobFits(program) => JobFits(program)'
    BY DEF JobFits, session
  <2>. QED
    BY <2>2, <2>3, <2>4 DEF HoldsRequest
<1>. QED
  BY <1>1, <1>2

\* Every step of the server and the clients keeps the request and what is made of
\* it together.
LEMMA HoldsRequestStays ==
  ASSUME ServerInv, SentWithinStream, HoldsRequest, [Next]_vars
  PROVE  HoldsRequest'
<1>0. ASSUME server \in Serving, UNCHANGED <<peer, received>>
      PROVE  /\ peer \in Clients /\ received' <= client'[peer'].sent
             /\ Asked' = Asked
  <2>1. peer \in Clients
    BY <1>0 DEF ServerInv
  <2>2. /\ received <= client[peer].sent /\ received \in Nat
        /\ client[peer].sent \in Nat
    BY <1>0, <2>1, Limits DEF HoldsRequest, ServerInv, ClientInv
  <2>3. client'[peer].sent \in Nat
    BY <2>1, InvariantIsKept DEF ServerInv, ClientInv
  <2>. QED
    BY <1>0, <2>1, <2>2, <2>3, ClientsMove DEF Asked
<1>1. CASE Setup \/ Close
  BY <1>1 DEF Setup, Opens, Close, HoldsRequest, Serving
<1>2. CASE Accept
  <2>1. server' = "read" /\ received' = 0
    BY <1>2 DEF Accept
  <2>2. peer' \in Clients /\ client'[peer'].sent \in Nat
    BY <2>1, InvariantIsKept DEF ServerInv, ClientInv, Serving
  <2>. QED
    BY <2>1, <2>2 DEF HoldsRequest
<1>3. CASE Refuse \/ Disconnected \/ SendBody
  BY <1>0, <1>3 DEF Refuse, Disconnected, SendBody, HoldsRequest, Serving
<1>4. CASE Receive
  <2>1. peer \in Clients /\ UNCHANGED <<client, peer, server>> /\ server = "read"
    BY <1>4 DEF Receive, ServerInv, Serving
  <2>2. received \in Nat /\ client[peer].sent \in Nat
    BY <2>1, Limits DEF ServerInv, ClientInv
  <2>3. received' <= client[peer].sent
    BY <1>4, <2>2, Limits DEF Receive, Pending
  <2>. QED
    BY <2>1, <2>3 DEF HoldsRequest
<1>5. CASE Dispatch
  <2>. DEFINE body == received - Asked.header
  <2>1. /\ server = "read" /\ UNCHANGED <<peer, received, client>>
        /\ received \in Answered(Asked)
    BY <1>5, WholeRequest DEF Dispatch
  <2>2. /\ peer \in Clients /\ received' <= client'[peer'].sent /\ Asked' = Asked
    BY <1>0, <2>1 DEF Serving
  <2>3. CASE Runs(Asked, received)
    <3>1. /\ runSource(Submitted(Asked, received), body,
                       queryValue(Asked.query, "stdin"), kDefaultPlaygroundBudget)
          /\ server' = "run"
      BY <1>5, <2>3 DEF Dispatch, Runs, DueStatus, Submitted
    <3>2. ~(body > kMaxSourceBytes)
      BY <2>3 DEF Runs, DueStatus, Status, IsRun
    <3>3. /\ job' = [phase |-> "Assemble", program |-> Submitted(Asked, received),
                     budget |-> Budget]
          /\ report' = NewReport /\ machine' = Booted
      BY <3>1, <3>2 DEF runSource, Budget
    <3>4. /\ DOMAIN Booted = {"at", "instructions", "memory"}
          /\ Booted.instructions = 0
      BY DEF Booted
    <3>5. 0 \in 0 .. Budget
      BY BudgetType
    <3>6. JobFits(Submitted(Asked, received))'
      BY <2>1, <2>2, <3>3, <3>4, <3>5 DEF JobFits
    <3>. QED
      BY <2>1, <2>2, <2>3, <3>1, <3>6 DEF HoldsRequest
  <2>4. CASE ~Runs(Asked, received)
    <3>1. response' = Plain(DueStatus(Asked, received)) /\ server' = "head"
      BY <1>5, <2>4 DEF Dispatch, Runs, DueStatus
    <3>2. FitsRequest(Asked, received, response')
      BY <2>4, <3>1 DEF FitsRequest, Plain
    <3>. QED
      BY <2>1, <2>2, <3>1, <3>2 DEF HoldsRequest
  <2>. QED
    BY <2>3, <2>4
<1>6. CASE RunJob
  <2>1. /\ server = "run" /\ SessionStep
        /\ UNCHANGED <<server, peer, received, response, client>>
    BY <1>6 DEF RunJob, http
  <2>2. /\ received' <= client'[peer'].sent /\ Asked' = Asked
    BY <1>0, <2>1 DEF Serving
  <2>3. /\ received \in Answered(Asked) /\ Runs(Asked, received)
        /\ JobFits(Submitted(Asked, received))
    BY <2>1 DEF HoldsRequest
  <2>4. PICK program : program = Submitted(Asked, received)
    OBVIOUS
  <2>5. JobFits(program)'
    BY <2>1, <2>3, <2>4, StagesFit, RunFits DEF SessionStep
  <2>6. JobFits(Submitted(Asked, received))'
    <3>1. Submitted(Asked, received)' = program
      BY <2>1, <2>2, <2>4 DEF Submitted
    <3>. QED
      BY <2>5, <3>1 DEF JobFits
  <2>. QED
    BY <2>1, <2>2, <2>3, <2>6 DEF HoldsRequest
<1>7. CASE JobDone
  <2>1. /\ server = "run" /\ server' = "head" /\ response' = Report(report)
        /\ job.phase = "done" /\ UNCHANGED <<peer, received, client>>
    BY <1>7 DEF JobDone
  <2>2. /\ received' <= client'[peer'].sent /\ Asked' = Asked
    BY <1>0, <2>1 DEF Serving
  <2>3. /\ received \in Answered(Asked) /\ Runs(Asked, received)
        /\ ReportFits(Submitted(Asked, received), report)
    BY <2>1 DEF HoldsRequest, JobFits
  <2>4. /\ response'.status = 200
        /\ response'.report.ok = report.ok /\ response'.report.stage = report.stage
        /\ response'.report.error = report.error
        /\ response'.report.diagnostics = report.diagnostics
        /\ response'.report.instructions = report.instructions
    BY <2>1 DEF Report, toJson
  <2>5. ReportFits(Submitted(Asked, received), response'.report)
    BY <2>3, <2>4 DEF ReportFits
  <2>6. FitsRequest(Asked, received, response')
    BY <2>3, <2>4, <2>5 DEF FitsRequest, Runs
  <2>. QED
    BY <2>1, <2>2, <2>3, <2>6 DEF HoldsRequest
<1>8. CASE SendHead
  <2>1. /\ server = "head" /\ server' = "body"
        /\ UNCHANGED <<peer, received, response, client>>
    BY <1>8 DEF SendHead
  <2>2. /\ received' <= client'[peer'].sent /\ Asked' = Asked
    BY <1>0, <2>1 DEF Serving
  <2>. QED
    BY <2>1, <2>2 DEF HoldsRequest
<1>9. CASE \E c \in Clients : ClientStep(c)
  BY <1>9, RequestIsHeld DEF ClientStep, Connect, Send, LeaveHalfway, Goes
<1>10. CASE UNCHANGED vars
  BY <1>10, RequestIsHeld DEF vars, http
<1>. QED
  BY <1>1, <1>2, <1>3, <1>4, <1>5, <1>6, <1>7, <1>8, <1>9, <1>10
  DEF Next, ServerStep

LEMMA AnswersStay ==
  ASSUME ServerInv, SentWithinStream, HoldsRequest, AnswersFitTheirRequests,
         [Next]_vars
  PROVE  AnswersFitTheirRequests'
<1>. SUFFICES ASSUME NEW c \in Clients, client'[c].answer # NoAnswer
              PROVE  \E n \in Answered(client'[c].request) :
                       FitsRequest(client'[c].request, n, client'[c].answer)
  BY DEF AnswersFitTheirRequests
<1>1. client'[c].request = client[c].request
  BY ClientsMove
<1>2. CASE client'[c].answer = client[c].answer
  BY <1>1, <1>2 DEF AnswersFitTheirRequests
<1>3. CASE c = peer /\ server = "body" /\ client'[c].answer = response
  <2>1. received \in Answered(Asked) /\ FitsRequest(Asked, received, response)
    BY <1>3 DEF HoldsRequest
  <2>. QED
    BY <1>1, <1>3, <2>1 DEF Asked
<1>. QED
  BY <1>2, <1>3, ClientsMove

LEMMA InitialAnswers == Init => AnswerInv
<1>. SUFFICES ASSUME Init PROVE AnswerInv
  OBVIOUS
<1>1. ServerInv
  BY InitialInvariant
<1>2. ASSUME NEW c \in Clients
      PROVE  client[c].sent = 0 /\ client[c].answer = NoAnswer
  <2>1. client[c] \in [state : {"away"}, request : UNION {Requests[d] : d \in Clients},
                       sent : {0}, answer : {NoAnswer}, reset : {FALSE}]
    BY DEF Init
  <2>. QED
    BY <2>1
<1>3. SentWithinStream
  <2>1. \A c \in Clients : Stream(client[c].request) \in Nat
    BY <1>1, RequestSizes DEF ServerInv, ClientInv, Stream
  <2>. QED
    BY <1>2, <2>1 DEF SentWithinStream
<1>4. HoldsRequest
  BY DEF Init, HoldsRequest, Serving
<1>5. AnswersFitTheirRequests
  BY <1>2 DEF AnswersFitTheirRequests
<1>. QED
  BY <1>1, <1>3, <1>4, <1>5 DEF AnswerInv

LEMMA AnswersAreKept == AnswerInv /\ [Next]_vars => AnswerInv'
BY InvariantIsKept, SentStays, HoldsRequestStays, AnswersStay DEF AnswerInv

\* No client is ever answered for a part of its request, for bytes of another
\* connection or with the report of another job, whatever the clients send, in
\* what pieces it arrives and in whatever order they connect and leave: the
\* server's buffer, job and response always belong to the client it serves.
THEOREM AnswersAlwaysFitTheirRequests == Spec => []AnswersFitTheirRequests
<1>1. Init => AnswerInv
  BY InitialAnswers
<1>2. AnswerInv /\ [Next]_vars => AnswerInv'
  BY AnswersAreKept
<1>3. AnswerInv => AnswersFitTheirRequests
  BY DEF AnswerInv
<1>. QED
  BY <1>1, <1>2, <1>3, PTL DEF Spec

-----------------------------------------------------------------------------
(***************************************************************************)
(* Induction over the counters of loops.                                   *)
(***************************************************************************)

\* A non-empty set of numbers has a least element.
LEMMA LeastNumber ==
  ASSUME NEW S, S \subseteq Nat, S # {}
  PROVE  \E x \in S : \A y \in S : x <= y
<1>1. PICK x \in S : \A y \in S : ~(<<y, x>> \in OpToRel(<, Nat))
  BY NatLessThanWellFounded, WFMin
<1>2. ASSUME NEW y \in S PROVE x <= y
  <2>1. SUFFICES ASSUME y < x PROVE FALSE
    OBVIOUS
  <2>2. <<y, x>> \in Nat \X Nat /\ <<y, x>>[1] < <<y, x>>[2]
    BY <2>1
  <2>3. <<y, x>> \in OpToRel(<, Nat)
    BY <2>2, Zenon DEF OpToRel
  <2>4. QED
    BY <1>1, <2>3
<1>3. QED
  BY <1>2

\* A set that has a, and with every number below b the next, has all up to b.
LEMMA Induction ==
  ASSUME NEW S, NEW a \in Int, NEW b \in Int, a \in S,
         \A k \in a .. b - 1 : k \in S => k + 1 \in S
  PROVE  \A k \in a .. b : k \in S
<1> SUFFICES ASSUME NEW bad \in a .. b, bad \notin S PROVE FALSE
  OBVIOUS
<1> DEFINE D == {d \in Nat : a + d <= b /\ a + d \notin S}
<1>1. bad - a \in D
  <2>1. a + (bad - a) = bad /\ bad - a \in Nat /\ bad <= b
    OBVIOUS
  <2>2. QED
    BY <2>1
<1>2. PICK d \in D : \A e \in D : d <= e
  <2>1. D \subseteq Nat /\ D # {}
    BY <1>1
  <2> HIDE DEF D
  <2>2. QED
    BY <2>1, LeastNumber
<1>3. d # 0
  <2>1. a + 0 = a
    OBVIOUS
  <2>2. QED
    BY <2>1, <1>2
<1>4. d - 1 \notin D
  <2> HIDE DEF D
  <2>1. d \in Nat
    BY <1>2 DEF D
  <2>2. QED
    BY <1>2, <2>1
<1>5. d \in Nat /\ a + d <= b /\ a + d \notin S
  BY <1>2
<1>6. a + (d - 1) \in S
  BY <1>3, <1>4, <1>5
<1>7. (a + (d - 1)) + 1 = a + d /\ a + (d - 1) \in a .. b - 1
  BY <1>3, <1>5
<1>8. QED
  BY <1>5, <1>6, <1>7

-----------------------------------------------------------------------------
(***************************************************************************)
(* The loops that visit a text.                                            *)
(***************************************************************************)

At(o) == [out |-> o, skip |-> 0]

\* A loop takes the steps one after the other.
LEMMA VisitingSteps ==
  ASSUME NEW steps, Len(steps) \in Nat
  PROVE  /\ Visiting(steps)[0] = At(<<>>)
         /\ \A k \in 1 .. Len(steps) :
              Visiting(steps)[k] = Visited(Visiting(steps)[k - 1], steps[k])
<1> DEFINE lo == 0
           hi == Len(steps)
           first == [out |-> <<>>, skip |-> 0]
           step(before, k) == Visited(before, steps[k])
           Is(g, n) ==
             g = [k \in lo .. n |-> IF k = lo THEN first ELSE step(g[k - 1], k)]
           S == {n \in lo .. hi : \E g : Is(g, n)}
           next(g, n) ==
             [k \in lo .. n + 1 |-> IF k = n + 1 THEN step(g[n], n + 1) ELSE g[k]]
<1>1. lo \in Int /\ hi \in Int /\ lo <= hi
  OBVIOUS
<1>2. ASSUME \E g : Is(g, hi) PROVE Is(Visiting(steps), hi)
  BY <1>2, Zenon DEF Visiting
<1>a. first = At(<<>>)
  BY DEF At
<1> HIDE DEF lo, hi, first, step, Is, S, next
<1>3. Is([k \in lo .. lo |-> first], lo)
  BY <1>1 DEF Is
<1>4. lo \in S
  BY <1>1, <1>3 DEF S
<1>5. ASSUME NEW n \in lo .. hi - 1, NEW g, Is(g, n) PROVE Is(next(g, n), n + 1)
  BY <1>1, <1>5 DEF Is, next
<1>6. \A n \in lo .. hi - 1 : n \in S => n + 1 \in S
  BY <1>1, <1>5 DEF S
<1>7. \A n \in lo .. hi : n \in S
  BY <1>1, <1>4, <1>6, Induction, Zenon
<1>8. \E g : Is(g, hi)
  BY <1>1, <1>7 DEF S
<1>9. /\ Visiting(steps)[lo] = first
      /\ \A k \in lo + 1 .. hi : Visiting(steps)[k] = step(Visiting(steps)[k - 1], k)
  BY <1>1, <1>2, <1>8 DEF Is
<1>10. QED
  BY <1>9, <1>a DEF lo, hi, step

LEMMA VisitedSkips ==
  ASSUME NEW x, NEW n \in Nat \ {0}, NEW step
  PROVE  Visited([out |-> x, skip |-> n], step) = [out |-> x, skip |-> n - 1]
BY DEF Visited

LEMMA VisitedTakes ==
  ASSUME NEW x, NEW step
  PROVE  Visited(At(x), step) = [out |-> x \o step.bytes, skip |-> step.length - 1]
<1>1. At(x).skip = 0 /\ At(x).out = x
  BY DEF At
<1>2. ~(At(x).skip > 0)
  BY <1>1
<1>3. QED
  BY <1>1, <1>2, Zenon DEF Visited

\* With o put out, the loop has come to a step of length m.
ComesTo(steps, a, m, o, piece) ==
  /\ Len(steps) \in Nat /\ a \in Nat /\ m \in Nat \ {0} /\ a + m <= Len(steps)
  /\ Visiting(steps)[a] = At(o)
  /\ steps[a + 1].bytes = piece /\ steps[a + 1].length = m

\* It takes the step and skips the rest of what it covers.
LEMMA StepTaken ==
  ASSUME NEW steps, NEW a, NEW m, NEW o, NEW piece, ComesTo(steps, a, m, o, piece)
  PROVE  Visiting(steps)[a + m] = At(o \o piece)
<1> USE DEF ComesTo
<1> DEFINE loop == Visiting(steps)
           left(k) == [out |-> o \o piece, skip |-> (a + m) - k]
           S == {k \in a + 1 .. a + m : loop[k] = left(k)}
<1>1. \A k \in 1 .. Len(steps) : loop[k] = Visited(loop[k - 1], steps[k])
  BY VisitingSteps
<1>2. a + 1 \in S
  <2>1. a + 1 \in 1 .. Len(steps) /\ (a + 1) - 1 = a /\ a + 1 \in a + 1 .. a + m
    OBVIOUS
  <2>2. loop[a + 1] = Visited(At(o), steps[a + 1])
    BY <1>1, <2>1
  <2>3. m - 1 = (a + m) - (a + 1)
    OBVIOUS
  <2>4. Visited(At(o), steps[a + 1]) = left(a + 1)
    BY <2>3, VisitedTakes
  <2>5. QED
    BY <2>1, <2>2, <2>4
<1>3. ASSUME NEW k \in a + 1 .. (a + m) - 1, k \in S PROVE k + 1 \in S
  <2>1. k + 1 \in 1 .. Len(steps) /\ (k + 1) - 1 = k /\ k + 1 \in a + 1 .. a + m
    OBVIOUS
  <2>2. loop[k] = left(k)
    BY <1>3
  <2>3. loop[k + 1] = Visited(left(k), steps[k + 1])
    BY <1>1, <2>1, <2>2
  <2>4. (a + m) - k \in Nat \ {0} /\ ((a + m) - k) - 1 = (a + m) - (k + 1)
    OBVIOUS
  <2>5. Visited(left(k), steps[k + 1]) = left(k + 1)
    BY <2>4, VisitedSkips
  <2>6. QED
    BY <2>1, <2>3, <2>5
<1>4. \A k \in a + 1 .. (a + m) - 1 : k \in S => k + 1 \in S
  BY <1>3
<1>5. a + 1 \in Int /\ a + m \in Int
  OBVIOUS
<1> HIDE DEF S
<1>6. \A k \in a + 1 .. a + m : k \in S
  BY <1>2, <1>4, <1>5, Induction, Zenon
<1>7. a + m \in a + 1 .. a + m /\ (a + m) - (a + m) = 0
  OBVIOUS
<1>8. QED
  BY <1>6, <1>7 DEF S, At

-----------------------------------------------------------------------------
(***************************************************************************)
(* UTF-8: which bytes stand for a character.                               *)
(***************************************************************************)

\* How many bytes follow a first byte, and where the second lies.
LEMMA LeadFour ==
  ASSUME NEW b \in 240 .. 244
  PROVE  /\ Lead(b).length = 4
         /\ Lead(b).low = (IF b = 240 THEN 144 ELSE 128)
         /\ Lead(b).high = (IF b = 244 THEN 143 ELSE 191)
<1>1. CASE b = 240
  BY <1>1, SMT DEF Lead, LeadByte
<1>2. CASE b = 244
  BY <1>2, SMT DEF Lead, LeadByte
<1>3. CASE b \in 241 .. 243
  BY <1>3, SMT DEF Lead, LeadByte
<1>4. QED
  BY <1>1, <1>2, <1>3

LEMMA LeadThree ==
  ASSUME NEW b \in 224 .. 239
  PROVE  /\ Lead(b).length = 3
         /\ Lead(b).low = (IF b = 224 THEN 160 ELSE 128)
         /\ Lead(b).high = (IF b = 237 THEN 159 ELSE 191)
<1>1. CASE b = 224
  BY <1>1, SMT DEF Lead, LeadByte
<1>2. CASE b = 237
  BY <1>2, SMT DEF Lead, LeadByte
<1>3. CASE b \notin {224, 237}
  BY <1>3, SMT DEF Lead, LeadByte
<1>4. QED
  BY <1>1, <1>2, <1>3

LEMMA LeadTwo ==
  ASSUME NEW b \in 194 .. 223
  PROVE  Lead(b).length = 2 /\ Lead(b).low = 128 /\ Lead(b).high = 191
BY SMT DEF Lead, LeadByte

LEMMA LeadNone ==
  ASSUME NEW b \in Byte \ 194 .. 244
  PROVE  Lead(b).length = 0
BY SMT DEF Lead, LeadByte, Byte

LEMMA Digits ==
  ASSUME NEW q \in Nat, NEW r \in 0 .. 63, NEW s, s = 64 * q + r
  PROVE  s \div 64 = q /\ s % 64 = r /\ s \in Nat
BY SMT

LEMMA Remainders ==
  ASSUME NEW b \in Byte
  PROVE  /\ b % 64 \in 0 .. 63 /\ b % 32 \in 0 .. 31 /\ b % 16 \in 0 .. 15 /\ b % 8 \in 0 .. 7
         /\ b \in 128 .. 191 => b % 64 = b - 128
         /\ b \in 192 .. 223 => b % 32 = b - 192
         /\ b \in 224 .. 239 => b % 16 = b - 224
         /\ b \in 240 .. 247 => b % 8 = b - 240
<1>1. /\ b % 64 \in 0 .. 63 /\ b % 32 \in 0 .. 31 /\ b % 16 \in 0 .. 15 /\ b % 8 \in 0 .. 7
  BY SMT DEF Byte
<1>2. b \in 128 .. 191 => b % 64 = b - 128
  BY SMT DEF Byte
<1>3. b \in 192 .. 223 => b % 32 = b - 192
  BY SMT DEF Byte
<1>4. b \in 224 .. 239 => b % 16 = b - 224
  BY SMT DEF Byte
<1>5. b \in 240 .. 247 => b % 8 = b - 240
  BY SMT DEF Byte
<1>6. QED
  BY <1>1, <1>2, <1>3, <1>4, <1>5

\* The four forms of a character.
LEMMA TwoByteForm ==
  ASSUME NEW s \in Nat, s >= 128, s < 2048
  PROVE  Utf8(s) = <<192 + s \div 64, 128 + (s % 64)>>
BY SMT DEF Utf8

LEMMA ThreeByteForm ==
  ASSUME NEW s \in Nat, s >= 2048, s < 65536
  PROVE  Utf8(s) = <<224 + s \div 4096, 128 + ((s \div 64) % 64), 128 + (s % 64)>>
BY SMT DEF Utf8

LEMMA FourByteForm ==
  ASSUME NEW s \in Nat, s >= 65536
  PROVE  Utf8(s) = <<240 + s \div 262144, 128 + ((s \div 4096) % 64),
                     128 + ((s \div 64) % 64), 128 + (s % 64)>>
BY SMT DEF Utf8

LEMMA Utf8Lengths ==
  ASSUME NEW s \in Nat
  PROVE  /\ s < 128 => Len(Utf8(s)) = 1
         /\ s >= 128 /\ s < 2048 => Len(Utf8(s)) = 2
         /\ s >= 2048 /\ s < 65536 => Len(Utf8(s)) = 3
         /\ s >= 65536 => Len(Utf8(s)) = 4
<1>1. CASE s < 128
  BY <1>1, SMT DEF Utf8
<1>2. CASE s >= 128 /\ s < 2048
  BY <1>2, SMT DEF Utf8
<1>3. CASE s >= 2048 /\ s < 65536
  BY <1>3, SMT DEF Utf8
<1>4. CASE s >= 65536
  BY <1>4, SMT DEF Utf8
<1>5. QED
  BY <1>1, <1>2, <1>3, <1>4, SMT

\* A number of three digits of six bits, and one of four.
ThreeDigits(s, x, y, z) == s = 4096 * x + 64 * y + z
FourDigits(s, w, x, y, z) == s = 262144 * w + 4096 * x + 64 * y + z

Three(s, x, y, z) ==
  s \div 4096 = x /\ (s \div 64) % 64 = y /\ s % 64 = z
Four(s, w, x, y, z) ==
  /\ s \div 262144 = w /\ (s \div 4096) % 64 = x
  /\ (s \div 64) % 64 = y /\ s % 64 = z

LEMMA DigitsOfThree ==
  ASSUME NEW x \in Nat, NEW y \in 0 .. 63, NEW z \in 0 .. 63, NEW s,
         ThreeDigits(s, x, y, z)
  PROVE  s \in Nat /\ Three(s, x, y, z)
<1>1. PICK h \in Nat : h = 64 * x + y
  BY SMT
<1>2. h \div 64 = x /\ h % 64 = y
  BY <1>1, Digits, Zenon
<1>3. s = 64 * h + z
  BY <1>1, SMT DEF ThreeDigits
<1>4. s \div 64 = h /\ s % 64 = z /\ s \in Nat
  BY <1>3, Digits, Zenon
<1>5. s \div 4096 = (s \div 64) \div 64
  BY <1>4, SMT
<1>6. QED
  BY <1>2, <1>4, <1>5, SMT DEF Three

LEMMA DigitsOfFour ==
  ASSUME NEW w \in Nat, NEW x \in 0 .. 63, NEW y \in 0 .. 63, NEW z \in 0 .. 63, NEW s,
         FourDigits(s, w, x, y, z)
  PROVE  s \in Nat /\ Four(s, w, x, y, z)
<1>1. PICK h \in Nat : h = 4096 * w + 64 * x + y
  BY SMT
<1>2. ThreeDigits(h, w, x, y)
  BY <1>1, SMT DEF ThreeDigits
<1>3. Three(h, w, x, y)
  BY <1>2, DigitsOfThree, Zenon
<1>4. s = 64 * h + z
  BY <1>1, SMT DEF FourDigits
<1>5. s \div 64 = h /\ s % 64 = z /\ s \in Nat
  BY <1>4, Digits, Zenon
<1>6. s \div 4096 = (s \div 64) \div 64 /\ s \div 262144 = (s \div 64) \div 4096
  BY <1>5, SMT
<1>7. QED
  BY <1>3, <1>5, <1>6, SMT DEF Three, Four

LEMMA TwoBytes ==
  ASSUME NEW b \in Byte, NEW c \in Byte, NEW s, s = 64 * (b % 32) + (c % 64)
  PROVE  IsScalar(s) /\ Utf8(s) = <<b, c>> <=> b \in 194 .. 223 /\ c \in 128 .. 191
<1>1. s \div 64 = b % 32 /\ s % 64 = c % 64 /\ s \in Nat
  <2>1. PICK x \in Nat, y \in 0 .. 63 : x = b % 32 /\ y = c % 64
    BY Remainders, SMT
  <2>2. s = 64 * x + y
    BY <2>1
  <2>3. s \div 64 = x /\ s % 64 = y /\ s \in Nat
    BY <2>2, Digits, Zenon
  <2>4. QED
    BY <2>1, <2>3, SMT
<1>2. b % 32 \in 0 .. 31 /\ c % 64 \in 0 .. 63
  BY Remainders, SMT
<1>3. ASSUME b \in 194 .. 223, c \in 128 .. 191
      PROVE  IsScalar(s) /\ Utf8(s) = <<b, c>>
  <2>1. b % 32 = b - 192 /\ c % 64 = c - 128
    BY <1>3, Remainders, SMT
  <2>2. s >= 128 /\ s < 2048
    BY <1>3, <2>1, SMT
  <2>3. Utf8(s) = <<192 + s \div 64, 128 + (s % 64)>>
    BY <1>1, <2>2, TwoByteForm, SMT
  <2>4. 192 + s \div 64 = b /\ 128 + (s % 64) = c
    BY <1>1, <1>3, <2>1, SMT
  <2>5. IsScalar(s)
    BY <1>1, <2>2, SMT DEF IsScalar
  <2>6. QED
    BY <2>3, <2>4, <2>5
<1>4. ASSUME Utf8(s) = <<b, c>> PROVE b \in 194 .. 223 /\ c \in 128 .. 191
  <2>0. Len(Utf8(s)) = 2
    BY <1>4
  <2>1. s >= 128 /\ s < 2048
    BY <1>1, <2>0, Utf8Lengths, SMT
  <2>2. Utf8(s) = <<192 + s \div 64, 128 + (s % 64)>>
    BY <1>1, <2>1, TwoByteForm, SMT
  <2>3. b = 192 + s \div 64 /\ c = 128 + (s % 64)
    BY <1>4, <2>2
  <2>4. s \div 64 \in 2 .. 31
    BY <1>1, <2>1, SMT
  <2>5. QED
    BY <1>1, <1>2, <2>3, <2>4, SMT
<1>5. QED
  BY <1>3, <1>4

\* The second byte keeps overlong forms, surrogates and numbers that are too large out.
LEMMA ThreeBytes ==
  ASSUME NEW b \in Byte, NEW c \in Byte, NEW d \in Byte, NEW s,
         ThreeDigits(s, b % 16, c % 64, d % 64)
  PROVE  IsScalar(s) /\ Utf8(s) = <<b, c, d>> <=>
           /\ b \in 224 .. 239 /\ c \in Lead(b).low .. Lead(b).high /\ d \in 128 .. 191
<1>1. /\ b % 16 \in 0 .. 15 /\ b % 16 \in Nat /\ c % 64 \in 0 .. 63 /\ d % 64 \in 0 .. 63
  BY Remainders, SMT
<1>2. s \in Nat /\ Three(s, b % 16, c % 64, d % 64)
  <2>1. PICK x \in Nat, y \in 0 .. 63, z \in 0 .. 63 : x = b % 16 /\ y = c % 64 /\ z = d % 64
    BY <1>1
  <2>2. ThreeDigits(s, x, y, z)
    BY <2>1
  <2>3. s \in Nat /\ Three(s, x, y, z)
    BY <2>2, DigitsOfThree, Zenon
  <2>4. QED
    BY <2>1, <2>3
<1>3. s \div 4096 = b % 16 /\ (s \div 64) % 64 = c % 64 /\ s % 64 = d % 64
  BY <1>2, SMT DEF Three
<1>6. ASSUME b \in 224 .. 239, c \in Lead(b).low .. Lead(b).high, d \in 128 .. 191
      PROVE  IsScalar(s) /\ Utf8(s) = <<b, c, d>>
  <2>1. c \in 128 .. 191 /\ (b = 224 => c >= 160) /\ (b = 237 => c <= 159)
    BY <1>6, LeadThree, SMT DEF Byte
  <2>2. b % 16 = b - 224 /\ c % 64 = c - 128 /\ d % 64 = d - 128
    BY <1>6, <2>1, Remainders, SMT
  <2>3. s = 4096 * (b - 224) + 64 * (c - 128) + (d - 128)
    BY <2>2, SMT DEF ThreeDigits
  <2>4. s >= 2048 /\ s < 65536
    BY <1>6, <2>1, <2>3, SMT
  <2>5. s < 55296 \/ s > 57343
    BY <1>6, <2>1, <2>3, SMT
  <2>6. Utf8(s) = <<224 + s \div 4096, 128 + ((s \div 64) % 64), 128 + (s % 64)>>
    BY <1>2, <2>4, ThreeByteForm, SMT
  <2>7. IsScalar(s)
    BY <1>2, <2>4, <2>5, SMT DEF IsScalar
  <2>8. 224 + s \div 4096 = b
    BY <1>3, <1>6, <2>2, SMT
  <2>9. 128 + ((s \div 64) % 64) = c
    BY <1>3, <2>1, <2>2, SMT
  <2>10. 128 + (s % 64) = d
    BY <1>3, <1>6, <2>2, SMT
  <2>11. QED
    BY <2>6, <2>7, <2>8, <2>9, <2>10, SMT
<1>7. ASSUME IsScalar(s), Utf8(s) = <<b, c, d>>
      PROVE  b \in 224 .. 239 /\ c \in Lead(b).low .. Lead(b).high /\ d \in 128 .. 191
  <2>0. Len(Utf8(s)) = 3
    BY <1>7, SMT
  <2>1. s >= 2048 /\ s < 65536
    BY <1>2, <2>0, Utf8Lengths, SMT
  <2>2. Utf8(s) = <<224 + s \div 4096, 128 + ((s \div 64) % 64), 128 + (s % 64)>>
    BY <1>2, <2>1, ThreeByteForm, SMT
  <2>3. b = 224 + s \div 4096 /\ c = 128 + ((s \div 64) % 64) /\ d = 128 + (s % 64)
    BY <1>7, <2>2, SMT
  <2>4. b = 224 + (b % 16) /\ c = 128 + (c % 64) /\ d = 128 + (d % 64)
    BY <1>3, <2>3, SMT
  <2>5. s < 55296 \/ s > 57343
    BY <1>2, <1>7, SMT DEF IsScalar
  <2>6. /\ b \in 224 .. 239 /\ c \in 128 .. 191 /\ d \in 128 .. 191
    BY <1>1, <2>4, SMT
  <2>7. s = 4096 * (b - 224) + 64 * (c - 128) + (d - 128)
    <3>1. b % 16 = b - 224 /\ c % 64 = c - 128 /\ d % 64 = d - 128
      BY <2>6, Remainders, SMT
    <3>2. QED
      BY <3>1, SMT DEF ThreeDigits
  <2>8. (b = 224 => c >= 160) /\ (b = 237 => c <= 159)
    BY <2>1, <2>5, <2>6, <2>7, SMT
  <2>9. QED
    BY <2>6, <2>8, LeadThree, SMT
<1>8. QED
  BY <1>6, <1>7

LEMMA FourBytes ==
  ASSUME NEW b \in Byte, NEW c \in Byte, NEW d \in Byte, NEW e \in Byte, NEW s,
         FourDigits(s, b % 8, c % 64, d % 64, e % 64)
  PROVE  IsScalar(s) /\ Utf8(s) = <<b, c, d, e>> <=>
           /\ b \in 240 .. 244 /\ c \in Lead(b).low .. Lead(b).high
           /\ d \in 128 .. 191 /\ e \in 128 .. 191
<1>1. /\ b % 8 \in 0 .. 7 /\ b % 8 \in Nat /\ c % 64 \in 0 .. 63 /\ d % 64 \in 0 .. 63
      /\ e % 64 \in 0 .. 63
  BY Remainders, SMT
<1>5. s \in Nat /\ Four(s, b % 8, c % 64, d % 64, e % 64)
  <2>1. PICK w \in Nat : w = b % 8
    BY <1>1, Zenon
  <2>2. PICK x \in 0 .. 63 : x = c % 64
    BY <1>1, Zenon
  <2>3. PICK y \in 0 .. 63 : y = d % 64
    BY <1>1, Zenon
  <2>4. PICK z \in 0 .. 63 : z = e % 64
    BY <1>1, Zenon
  <2>5. FourDigits(s, w, x, y, z)
    BY <2>1, <2>2, <2>3, <2>4, Zenon
  <2>6. s \in Nat /\ Four(s, w, x, y, z)
    BY <2>5, DigitsOfFour, Zenon
  <2>7. QED
    BY <2>1, <2>2, <2>3, <2>4, <2>6, Zenon
<1>6. /\ s \div 262144 = b % 8 /\ (s \div 4096) % 64 = c % 64 /\ (s \div 64) % 64 = d % 64
      /\ s % 64 = e % 64
  BY <1>5, SMT DEF Four
<1>7. ASSUME b \in 240 .. 244, c \in Lead(b).low .. Lead(b).high, d \in 128 .. 191,
             e \in 128 .. 191
      PROVE  IsScalar(s) /\ Utf8(s) = <<b, c, d, e>>
  <2>1. c \in 128 .. 191 /\ (b = 240 => c >= 144) /\ (b = 244 => c <= 143)
    BY <1>7, LeadFour, SMT DEF Byte
  <2>2. b % 8 = b - 240 /\ c % 64 = c - 128 /\ d % 64 = d - 128 /\ e % 64 = e - 128
    BY <1>7, <2>1, Remainders, SMT
  <2>3. s = 262144 * (b - 240) + 4096 * (c - 128) + 64 * (d - 128) + (e - 128)
    BY <2>2, SMT DEF FourDigits
  <2>4. s >= 65536 /\ s < 1114112
    BY <1>7, <2>1, <2>3, SMT
  <2>5. Utf8(s) = <<240 + s \div 262144, 128 + ((s \div 4096) % 64),
                    128 + ((s \div 64) % 64), 128 + (s % 64)>>
    BY <1>5, <2>4, FourByteForm, SMT
  <2>6. IsScalar(s)
    BY <1>5, <2>4, SMT DEF IsScalar
  <2>7. 240 + s \div 262144 = b /\ 128 + ((s \div 4096) % 64) = c
    BY <1>6, <1>7, <2>1, <2>2, SMT
  <2>8. 128 + ((s \div 64) % 64) = d /\ 128 + (s % 64) = e
    BY <1>6, <1>7, <2>2, SMT
  <2>9. QED
    BY <2>5, <2>6, <2>7, <2>8, SMT
<1>8. ASSUME IsScalar(s), Utf8(s) = <<b, c, d, e>>
      PROVE  /\ b \in 240 .. 244 /\ c \in Lead(b).low .. Lead(b).high
             /\ d \in 128 .. 191 /\ e \in 128 .. 191
  <2>0. Len(Utf8(s)) = 4
    BY <1>8, SMT
  <2>1. s >= 65536
    BY <1>5, <2>0, Utf8Lengths, SMT
  <2>a. s < 1114112
    BY <1>5, <1>8, SMT DEF IsScalar
  <2>2. Utf8(s) = <<240 + s \div 262144, 128 + ((s \div 4096) % 64),
                    128 + ((s \div 64) % 64), 128 + (s % 64)>>
    BY <1>5, <2>1, FourByteForm, SMT
  <2>b. /\ b = 240 + s \div 262144 /\ c = 128 + ((s \div 4096) % 64)
        /\ d = 128 + ((s \div 64) % 64) /\ e = 128 + (s % 64)
    BY <1>8, <2>2, SMT
  <2>3. b = 240 + (b % 8) /\ c = 128 + (c % 64) /\ d = 128 + (d % 64) /\ e = 128 + (e % 64)
    BY <1>6, <2>b, SMT
  <2>4. b \in 240 .. 247 /\ c \in 128 .. 191 /\ d \in 128 .. 191 /\ e \in 128 .. 191
    BY <1>1, <2>3, SMT
  <2>5. s = 262144 * (b - 240) + 4096 * (c - 128) + 64 * (d - 128) + (e - 128)
    <3>1. b % 8 = b - 240 /\ c % 64 = c - 128 /\ d % 64 = d - 128 /\ e % 64 = e - 128
      BY <2>4, Remainders, SMT
    <3>2. QED
      BY <3>1, SMT DEF FourDigits
  <2>6. b <= 244 /\ (b = 240 => c >= 144) /\ (b = 244 => c <= 143)
    BY <2>1, <2>a, <2>4, <2>5, SMT
  <2>7. QED
    BY <2>4, <2>6, LeadFour, SMT
<1>9. QED
  BY <1>7, <1>8

-----------------------------------------------------------------------------
(***************************************************************************)
(* Which bytes of a text a browser takes for a character: the very ones    *)
(* that appendJsonString() does.                                           *)
(***************************************************************************)

LEMMA Tuples ==
  ASSUME NEW S, NEW x \in Seq(S)
  PROVE  /\ Len(x) = 1 => x = <<x[1]>>
         /\ Len(x) = 2 => x = <<x[1], x[2]>>
         /\ Len(x) = 3 => x = <<x[1], x[2], x[3]>>
         /\ Len(x) = 4 => x = <<x[1], x[2], x[3], x[4]>>
<1>1. ASSUME Len(x) = 1 PROVE x = <<x[1]>>
  BY <1>1
<1>2. ASSUME Len(x) = 2 PROVE x = <<x[1], x[2]>>
  BY <1>2
<1>3. ASSUME Len(x) = 3 PROVE x = <<x[1], x[2], x[3]>>
  BY <1>3
<1>4. ASSUME Len(x) = 4 PROVE x = <<x[1], x[2], x[3], x[4]>>
  BY <1>4
<1>5. QED
  BY <1>1, <1>2, <1>3, <1>4

\* The bytes of a text from i on, one by one.
LEMMA Parts ==
  ASSUME NEW S, NEW t \in Seq(S), NEW i \in 1 .. Len(t)
  PROVE  /\ SubSeq(t, i, i) = <<t[i]>>
         /\ i + 1 <= Len(t) => SubSeq(t, i, i + 1) = <<t[i], t[i + 1]>>
         /\ i + 2 <= Len(t) => SubSeq(t, i, i + 2) = <<t[i], t[i + 1], t[i + 2]>>
         /\ i + 3 <= Len(t) =>
              SubSeq(t, i, i + 3) = <<t[i], t[i + 1], t[i + 2], t[i + 3]>>
<1>1. ASSUME i + 0 <= Len(t) PROVE SubSeq(t, i, i) = <<t[i]>>
  <2> DEFINE x == SubSeq(t, i, i)
  <2>1. x \in Seq(S) /\ Len(x) = 1 /\ x[1] = t[i]
    OBVIOUS
  <2> HIDE DEF x
  <2>2. x = <<x[1]>>
    BY <2>1, Tuples
  <2>3. QED
    BY <2>1, <2>2 DEF x
<1>2. ASSUME i + 1 <= Len(t) PROVE SubSeq(t, i, i + 1) = <<t[i], t[i + 1]>>
  <2> DEFINE x == SubSeq(t, i, i + 1)
  <2>1. x \in Seq(S) /\ Len(x) = 2 /\ x[1] = t[i] /\ x[2] = t[i + 1]
    BY <1>2
  <2> HIDE DEF x
  <2>2. x = <<x[1], x[2]>>
    BY <2>1, Tuples
  <2>3. QED
    BY <2>1, <2>2 DEF x
<1>3. ASSUME i + 2 <= Len(t) PROVE SubSeq(t, i, i + 2) = <<t[i], t[i + 1], t[i + 2]>>
  <2> DEFINE x == SubSeq(t, i, i + 2)
  <2>1. x \in Seq(S) /\ Len(x) = 3 /\ x[1] = t[i] /\ x[2] = t[i + 1] /\ x[3] = t[i + 2]
    BY <1>3
  <2> HIDE DEF x
  <2>2. x = <<x[1], x[2], x[3]>>
    BY <2>1, Tuples
  <2>3. QED
    BY <2>1, <2>2 DEF x
<1>4. ASSUME i + 3 <= Len(t)
      PROVE  SubSeq(t, i, i + 3) = <<t[i], t[i + 1], t[i + 2], t[i + 3]>>
  <2> DEFINE x == SubSeq(t, i, i + 3)
  <2>1. /\ x \in Seq(S) /\ Len(x) = 4
        /\ x[1] = t[i] /\ x[2] = t[i + 1] /\ x[3] = t[i + 2] /\ x[4] = t[i + 3]
    BY <1>4
  <2> HIDE DEF x
  <2>2. x = <<x[1], x[2], x[3], x[4]>>
    BY <2>1, Tuples
  <2>3. QED
    BY <2>1, <2>2 DEF x
<1>7. QED
  BY <1>1, <1>2, <1>3, <1>4

LEMMA ByteBounds ==
  ASSUME NEW b \in Byte
  PROVE  b \in Nat /\ b < 256
BY SMT DEF Byte

LEMMA ByteIsScalar ==
  ASSUME NEW b \in Byte
  PROVE  IsScalar(b)
BY SMT DEF Byte, IsScalar

LEMMA OneByte ==
  ASSUME NEW b \in Byte
  PROVE  Utf8(b) = <<b>> <=> b < 128
<1>1. b \in Nat /\ b < 256
  BY ByteBounds
<1>2. CASE b < 128
  BY <1>1, <1>2, SMT DEF Utf8
<1>3. CASE b >= 128
  <2>1. Len(Utf8(b)) = 2
    BY <1>1, <1>3, Utf8Lengths, SMT
  <2>2. Utf8(b) # <<b>>
    BY <2>1
  <2>3. QED
    BY <1>1, <1>3, <2>2, SMT
<1>4. QED
  BY <1>1, <1>2, <1>3, SMT

LEMMA LengthOne ==
  ASSUME NEW t \in Seq(Byte), NEW i \in 1 .. Len(t)
  PROVE  1 \in CharacterLengths(t, i) <=> t[i] < 128
<1>1. Spelled(t, i, 1) = t[i]
  BY SMT DEF Spelled
<1>2. t[i] \in Byte
  OBVIOUS
<1>3. IsScalar(t[i]) /\ (Utf8(t[i]) = <<t[i]>> <=> t[i] < 128)
  BY <1>2, ByteIsScalar, OneByte, Zenon
<1>4. (i + 1) - 1 = i /\ 1 \in 1 .. 4 /\ i <= Len(t)
  OBVIOUS
<1>5. SubSeq(t, i, i) = <<t[i]>>
  BY Parts
<1>6. 1 \in CharacterLengths(t, i) <=>
        i <= Len(t) /\ IsScalar(t[i]) /\ Utf8(t[i]) = SubSeq(t, i, i)
  BY <1>1, <1>4 DEF CharacterLengths
<1>7. QED
  BY <1>3, <1>4, <1>5, <1>6

LEMMA LengthTwo ==
  ASSUME NEW t \in Seq(Byte), NEW i \in 1 .. Len(t)
  PROVE  2 \in CharacterLengths(t, i) <=>
           i + 1 <= Len(t) /\ t[i] \in 194 .. 223 /\ t[i + 1] \in 128 .. 191
<1> SUFFICES ASSUME i + 1 <= Len(t)
             PROVE  2 \in CharacterLengths(t, i) <=>
                      t[i] \in 194 .. 223 /\ t[i + 1] \in 128 .. 191
  <2>1. 2 \in 1 .. 4 /\ (i + 2) - 1 = i + 1
    OBVIOUS
  <2>2. PICK s : s = Spelled(t, i, 2)
    OBVIOUS
  <2>3. QED
    BY <2>1, <2>2 DEF CharacterLengths
<1>1. t[i] \in Byte /\ t[i + 1] \in Byte
  OBVIOUS
<1>2. Spelled(t, i, 2) = 64 * (t[i] % 32) + (t[i + 1] % 64)
  BY SMT DEF Spelled
<1>3. PICK b \in Byte : b = t[i]
  BY <1>1
<1>4. PICK c \in Byte : c = t[i + 1]
  BY <1>1
<1>5. PICK s : s = Spelled(t, i, 2)
  OBVIOUS
<1>6. s = 64 * (b % 32) + (c % 64)
  BY <1>2, <1>3, <1>4, <1>5, Zenon
<1>7. IsScalar(s) /\ Utf8(s) = <<b, c>> <=> b \in 194 .. 223 /\ c \in 128 .. 191
  BY <1>6, TwoBytes
<1>8. (i + 2) - 1 = i + 1 /\ 2 \in 1 .. 4
  OBVIOUS
<1>9. SubSeq(t, i, i + 1) = <<b, c>>
  BY <1>3, <1>4, Parts
<1>10. 2 \in CharacterLengths(t, i) <=>
         i + 1 <= Len(t) /\ IsScalar(s) /\ Utf8(s) = SubSeq(t, i, i + 1)
  BY <1>5, <1>8 DEF CharacterLengths
<1>11. QED
  BY <1>3, <1>4, <1>7, <1>8, <1>9, <1>10

LEMMA LengthThree ==
  ASSUME NEW t \in Seq(Byte), NEW i \in 1 .. Len(t)
  PROVE  3 \in CharacterLengths(t, i) <=>
           /\ i + 2 <= Len(t) /\ t[i] \in 224 .. 239
           /\ t[i + 1] \in Lead(t[i]).low .. Lead(t[i]).high /\ t[i + 2] \in 128 .. 191
<1> SUFFICES ASSUME i + 2 <= Len(t)
             PROVE  3 \in CharacterLengths(t, i) <=>
                      /\ t[i] \in 224 .. 239
                      /\ t[i + 1] \in Lead(t[i]).low .. Lead(t[i]).high
                      /\ t[i + 2] \in 128 .. 191
  <2>1. 3 \in 1 .. 4 /\ (i + 3) - 1 = i + 2
    OBVIOUS
  <2>2. PICK s : s = Spelled(t, i, 3)
    OBVIOUS
  <2>3. QED
    BY <2>1, <2>2 DEF CharacterLengths
<1>1. t[i] \in Byte /\ t[i + 1] \in Byte /\ t[i + 2] \in Byte
  OBVIOUS
<1>2. Spelled(t, i, 3) = 4096 * (t[i] % 16) + 64 * (t[i + 1] % 64) + (t[i + 2] % 64)
  BY SMT DEF Spelled
<1>3. PICK b \in Byte : b = t[i]
  BY <1>1
<1>4. PICK c \in Byte : c = t[i + 1]
  BY <1>1
<1>5. PICK d \in Byte : d = t[i + 2]
  BY <1>1
<1>6. PICK s : s = Spelled(t, i, 3)
  OBVIOUS
<1>7. ThreeDigits(s, b % 16, c % 64, d % 64)
  BY <1>2, <1>3, <1>4, <1>5, <1>6, SMT DEF ThreeDigits
<1>8. IsScalar(s) /\ Utf8(s) = <<b, c, d>> <=>
        b \in 224 .. 239 /\ c \in Lead(b).low .. Lead(b).high /\ d \in 128 .. 191
  BY <1>7, ThreeBytes
<1>9. (i + 3) - 1 = i + 2 /\ 3 \in 1 .. 4
  OBVIOUS
<1>10. SubSeq(t, i, i + 2) = <<b, c, d>>
  BY <1>3, <1>4, <1>5, Parts
<1>11. 3 \in CharacterLengths(t, i) <=>
         i + 2 <= Len(t) /\ IsScalar(s) /\ Utf8(s) = SubSeq(t, i, i + 2)
  BY <1>6, <1>9 DEF CharacterLengths
<1>12. QED
  BY <1>3, <1>4, <1>5, <1>8, <1>9, <1>10, <1>11

LEMMA LengthFour ==
  ASSUME NEW t \in Seq(Byte), NEW i \in 1 .. Len(t)
  PROVE  4 \in CharacterLengths(t, i) <=>
           /\ i + 3 <= Len(t) /\ t[i] \in 240 .. 244
           /\ t[i + 1] \in Lead(t[i]).low .. Lead(t[i]).high
           /\ t[i + 2] \in 128 .. 191 /\ t[i + 3] \in 128 .. 191
<1> SUFFICES ASSUME i + 3 <= Len(t)
             PROVE  4 \in CharacterLengths(t, i) <=>
                      /\ t[i] \in 240 .. 244
                      /\ t[i + 1] \in Lead(t[i]).low .. Lead(t[i]).high
                      /\ t[i + 2] \in 128 .. 191 /\ t[i + 3] \in 128 .. 191
  <2>1. 4 \in 1 .. 4 /\ (i + 4) - 1 = i + 3
    OBVIOUS
  <2>2. PICK s : s = Spelled(t, i, 4)
    OBVIOUS
  <2>3. QED
    BY <2>1, <2>2 DEF CharacterLengths
<1>1. t[i] \in Byte /\ t[i + 1] \in Byte /\ t[i + 2] \in Byte /\ t[i + 3] \in Byte
  OBVIOUS
<1>2. Spelled(t, i, 4) = 262144 * (t[i] % 8) + 4096 * (t[i + 1] % 64)
                           + 64 * (t[i + 2] % 64) + (t[i + 3] % 64)
  BY SMT DEF Spelled
<1>3. PICK b \in Byte : b = t[i]
  BY <1>1
<1>4. PICK c \in Byte : c = t[i + 1]
  BY <1>1
<1>5. PICK d \in Byte : d = t[i + 2]
  BY <1>1
<1>6. PICK e \in Byte : e = t[i + 3]
  BY <1>1
<1>7. PICK s : s = Spelled(t, i, 4)
  OBVIOUS
<1>8. FourDigits(s, b % 8, c % 64, d % 64, e % 64)
  BY <1>2, <1>3, <1>4, <1>5, <1>6, <1>7, SMT DEF FourDigits
<1>9. IsScalar(s) /\ Utf8(s) = <<b, c, d, e>> <=>
        /\ b \in 240 .. 244 /\ c \in Lead(b).low .. Lead(b).high
        /\ d \in 128 .. 191 /\ e \in 128 .. 191
  BY <1>8, FourBytes
<1>10. (i + 4) - 1 = i + 3 /\ 4 \in 1 .. 4
  OBVIOUS
<1>11. SubSeq(t, i, i + 3) = <<b, c, d, e>>
  BY <1>3, <1>4, <1>5, <1>6, Parts
<1>12. 4 \in CharacterLengths(t, i) <=>
         i + 3 <= Len(t) /\ IsScalar(s) /\ Utf8(s) = SubSeq(t, i, i + 3)
  BY <1>7, <1>10 DEF CharacterLengths
<1>13. QED
  BY <1>3, <1>4, <1>5, <1>6, <1>9, <1>10, <1>11, <1>12

LEMMA LengthsAreFew ==
  ASSUME NEW t, NEW i
  PROVE  \A n \in CharacterLengths(t, i) : n = 1 \/ n = 2 \/ n = 3 \/ n = 4
BY DEF CharacterLengths

\* By the first byte.
LEMMA MultiByteTwo ==
  ASSUME NEW t \in Seq(Byte), NEW i \in 1 .. Len(t), t[i] \in 194 .. 223
  PROVE  MultiByteAt(t, i) <=> i + 1 <= Len(t) /\ t[i + 1] \in 128 .. 191
<1>1. Lead(t[i]).length = 2 /\ Lead(t[i]).low = 128 /\ Lead(t[i]).high = 191
  BY LeadTwo
<1>2. \A k \in 2 .. 2 - 1 : t[i + k] \in 128 .. 191
  OBVIOUS
<1>3. (i + 2) - 1 = i + 1
  OBVIOUS
<1>4. QED
  BY <1>1, <1>2, <1>3 DEF MultiByteAt

LEMMA MultiByteThree ==
  ASSUME NEW t \in Seq(Byte), NEW i \in 1 .. Len(t), t[i] \in 224 .. 239
  PROVE  MultiByteAt(t, i) <=>
           /\ i + 2 <= Len(t)
           /\ t[i + 1] \in Lead(t[i]).low .. Lead(t[i]).high /\ t[i + 2] \in 128 .. 191
<1>1. Lead(t[i]).length = 3
  BY LeadThree
<1>2. (\A k \in 2 .. 3 - 1 : t[i + k] \in 128 .. 191) <=> t[i + 2] \in 128 .. 191
  OBVIOUS
<1>3. (i + 3) - 1 = i + 2
  OBVIOUS
<1>4. QED
  BY <1>1, <1>2, <1>3 DEF MultiByteAt

LEMMA MultiByteFour ==
  ASSUME NEW t \in Seq(Byte), NEW i \in 1 .. Len(t), t[i] \in 240 .. 244
  PROVE  MultiByteAt(t, i) <=>
           /\ i + 3 <= Len(t)
           /\ t[i + 1] \in Lead(t[i]).low .. Lead(t[i]).high
           /\ t[i + 2] \in 128 .. 191 /\ t[i + 3] \in 128 .. 191
<1>1. Lead(t[i]).length = 4
  BY LeadFour
<1>2. (\A k \in 2 .. 4 - 1 : t[i + k] \in 128 .. 191) <=>
        t[i + 2] \in 128 .. 191 /\ t[i + 3] \in 128 .. 191
  OBVIOUS
<1>3. (i + 4) - 1 = i + 3
  OBVIOUS
<1>4. QED
  BY <1>1, <1>2, <1>3 DEF MultiByteAt

\* No two lengths fit, and the one that does is the one that the loop finds.
LEMMA LengthsAt ==
  ASSUME NEW t \in Seq(Byte), NEW i \in 1 .. Len(t)
  PROVE  /\ t[i] < 128 => CharacterLengths(t, i) = {1}
         /\ t[i] >= 128 /\ MultiByteAt(t, i) =>
              CharacterLengths(t, i) = {Lead(t[i]).length} /\ Lead(t[i]).length \in 2 .. 4
         /\ t[i] >= 128 /\ ~MultiByteAt(t, i) => CharacterLengths(t, i) = {}
<1> DEFINE lengths == CharacterLengths(t, i)
           b == t[i]
<1>0. b \in Byte /\ b \in Nat /\ b < 256
  <2>1. b \in Byte
    OBVIOUS
  <2>2. QED
    BY <2>1, ByteBounds
<1>1. 1 \in lengths <=> b < 128
  BY LengthOne
<1>2. 2 \in lengths <=> i + 1 <= Len(t) /\ b \in 194 .. 223 /\ t[i + 1] \in 128 .. 191
  BY LengthTwo
<1>3. 3 \in lengths <=> /\ i + 2 <= Len(t) /\ b \in 224 .. 239
                        /\ t[i + 1] \in Lead(b).low .. Lead(b).high
                        /\ t[i + 2] \in 128 .. 191
  BY LengthThree
<1>4. 4 \in lengths <=> /\ i + 3 <= Len(t) /\ b \in 240 .. 244
                        /\ t[i + 1] \in Lead(b).low .. Lead(b).high
                        /\ t[i + 2] \in 128 .. 191 /\ t[i + 3] \in 128 .. 191
  BY LengthFour
<1>5. \A n \in lengths : n = 1 \/ n = 2 \/ n = 3 \/ n = 4
  BY LengthsAreFew
<1>6. b \in 194 .. 223 =>
        /\ MultiByteAt(t, i) <=> i + 1 <= Len(t) /\ t[i + 1] \in 128 .. 191
        /\ Lead(b).length = 2
  <2>1. ASSUME b \in 194 .. 223 PROVE Lead(b).length = 2
    BY <2>1, LeadTwo
  <2>2. QED
    BY <2>1, MultiByteTwo
<1>7. b \in 224 .. 239 =>
        /\ MultiByteAt(t, i) <=>
             /\ i + 2 <= Len(t) /\ t[i + 1] \in Lead(b).low .. Lead(b).high
             /\ t[i + 2] \in 128 .. 191
        /\ Lead(b).length = 3
  <2>1. ASSUME b \in 224 .. 239 PROVE Lead(b).length = 3
    BY <2>1, LeadThree
  <2>2. QED
    BY <2>1, MultiByteThree
<1>8. b \in 240 .. 244 =>
        /\ MultiByteAt(t, i) <=>
             /\ i + 3 <= Len(t) /\ t[i + 1] \in Lead(b).low .. Lead(b).high
             /\ t[i + 2] \in 128 .. 191 /\ t[i + 3] \in 128 .. 191
        /\ Lead(b).length = 4
  <2>1. ASSUME b \in 240 .. 244 PROVE Lead(b).length = 4
    BY <2>1, LeadFour
  <2>2. QED
    BY <2>1, MultiByteFour
<1>9. b \notin 194 .. 244 => ~MultiByteAt(t, i)
  <2>1. ASSUME b \notin 194 .. 244 PROVE Lead(b).length = 0
    <3>1. b \in Byte \ 194 .. 244
      BY <1>0, <2>1
    <3>2. QED
      BY <3>1, LeadNone
  <2>2. QED
    BY <2>1 DEF MultiByteAt
<1> HIDE DEF lengths, b
<1>10. CASE b < 128
  <2>1. 1 \in lengths /\ 2 \notin lengths /\ 3 \notin lengths /\ 4 \notin lengths
    BY <1>0, <1>1, <1>2, <1>3, <1>4, <1>10, SMT
  <2>2. lengths = {1}
    BY <1>5, <2>1
  <2>3. QED
    BY <1>0, <1>10, <2>2, SMT DEF lengths, b
<1>11. CASE b \in 194 .. 223
  <2>1. 1 \notin lengths /\ 3 \notin lengths /\ 4 \notin lengths
    BY <1>0, <1>1, <1>3, <1>4, <1>11, SMT
  <2>2. 2 \in lengths <=> MultiByteAt(t, i)
    BY <1>2, <1>6, <1>11
  <2>3. (MultiByteAt(t, i) => lengths = {2}) /\ (~MultiByteAt(t, i) => lengths = {})
    BY <1>5, <2>1, <2>2
  <2>4. Lead(b).length = 2 /\ ~(b < 128) /\ 2 \in 2 .. 4
    BY <1>6, <1>11
  <2>5. QED
    BY <2>3, <2>4, Zenon DEF lengths, b
<1>12. CASE b \in 224 .. 239
  <2>1. 1 \notin lengths /\ 2 \notin lengths /\ 4 \notin lengths
    BY <1>0, <1>1, <1>2, <1>4, <1>12, SMT
  <2>2. 3 \in lengths <=> MultiByteAt(t, i)
    BY <1>3, <1>7, <1>12
  <2>3. (MultiByteAt(t, i) => lengths = {3}) /\ (~MultiByteAt(t, i) => lengths = {})
    BY <1>5, <2>1, <2>2
  <2>4. Lead(b).length = 3 /\ ~(b < 128) /\ 3 \in 2 .. 4
    BY <1>7, <1>12
  <2>5. QED
    BY <2>3, <2>4, Zenon DEF lengths, b
<1>13. CASE b \in 240 .. 244
  <2>1. 1 \notin lengths /\ 2 \notin lengths /\ 3 \notin lengths
    BY <1>0, <1>1, <1>2, <1>3, <1>13, SMT
  <2>2. 4 \in lengths <=> MultiByteAt(t, i)
    BY <1>4, <1>8, <1>13
  <2>3. (MultiByteAt(t, i) => lengths = {4}) /\ (~MultiByteAt(t, i) => lengths = {})
    BY <1>5, <2>1, <2>2
  <2>4. Lead(b).length = 4 /\ ~(b < 128) /\ 4 \in 2 .. 4
    BY <1>8, <1>13
  <2>5. QED
    BY <2>3, <2>4, Zenon DEF lengths, b
<1>14. CASE b >= 128 /\ b \notin 194 .. 244
  <2>1. 1 \notin lengths /\ 2 \notin lengths /\ 3 \notin lengths /\ 4 \notin lengths
    BY <1>0, <1>1, <1>2, <1>3, <1>4, <1>14, SMT
  <2>2. lengths = {}
    BY <1>5, <2>1
  <2>3. QED
    <3>1. ~(b < 128) /\ ~MultiByteAt(t, i)
      BY <1>0, <1>9, <1>14, SMT
    <3>2. QED
      BY <2>2, <3>1, Zenon DEF lengths, b
<1>15. b < 128 \/ b \in 194 .. 223 \/ b \in 224 .. 239 \/ b \in 240 .. 244
         \/ (b >= 128 /\ b \notin 194 .. 244)
  BY <1>0, SMT
<1>16. QED
  BY <1>10, <1>11, <1>12, <1>13, <1>14, <1>15, Zenon

LEMMA OneCharacter ==
  ASSUME NEW t, NEW i, NEW n, CharacterLengths(t, i) = {n}
  PROVE  CharacterAt(t, i) = [bytes |-> <<Spelled(t, i, n)>>, length |-> n]
<1>1. (CHOOSE m \in {n} : TRUE) = n
  OBVIOUS
<1>2. {n} # {}
  OBVIOUS
<1>3. QED
  BY <1>1, <1>2, Zenon DEF CharacterAt

LEMMA NoCharacter ==
  ASSUME NEW t, NEW i, CharacterLengths(t, i) = {}
  PROVE  CharacterAt(t, i) = [bytes |-> <<Unreadable>>, length |-> 1]
BY DEF CharacterAt

\* These bytes are in the text from i on.
Occurs(e, t, i) ==
  /\ i + Len(e) - 1 <= Len(t)
  /\ \A j \in 1 .. Len(e) : t[(i + j) - 1] = e[j]

\* The bytes of one character, which every reader takes for it.
IsCharacter(e, c) ==
  /\ e \in Seq(Byte) /\ Len(e) # 0 /\ c \in Nat /\ Utf8(c) = e
  /\ \A t \in Seq(Byte) : \A i \in 1 .. Len(t) :
       Occurs(e, t, i) => CharacterAt(t, i) = [bytes |-> <<c>>, length |-> Len(e)]

LEMMA AsciiCharacter ==
  ASSUME NEW b \in 0 .. 127
  PROVE  IsCharacter(<<b>>, b)
<1>1. b \in Byte /\ b \in Nat /\ b < 128
  BY DEF Byte
<1>2. Utf8(b) = <<b>>
  BY <1>1, OneByte
<1>3. ASSUME NEW t \in Seq(Byte), NEW i \in 1 .. Len(t), Occurs(<<b>>, t, i)
      PROVE  CharacterAt(t, i) = [bytes |-> <<b>>, length |-> 1]
  <2>1. t[i] = b
    <3>1. 1 \in 1 .. Len(<<b>>) /\ (i + 1) - 1 = i /\ <<b>>[1] = b
      OBVIOUS
    <3>2. QED
      BY <1>3, <3>1, Zenon DEF Occurs
  <2>2. CharacterLengths(t, i) = {1}
    BY <1>1, <2>1, LengthsAt
  <2>3. Spelled(t, i, 1) = b
    BY <2>1, SMT DEF Spelled
  <2>4. QED
    BY <2>2, <2>3, OneCharacter, Zenon
<1>4. <<b>> \in Seq(Byte) /\ Len(<<b>>) = 1
  BY <1>1
<1>5. Len(<<b>>) # 0
  BY <1>4
<1>6. QED
  BY <1>1, <1>2, <1>3, <1>4, <1>5, Zenon DEF IsCharacter

\* What is spelled and whether it is a character depends on these bytes alone.
LEMMA SpelledTwo ==
  ASSUME NEW t, NEW i, NEW u, NEW k, t[i] = u[k], t[i + 1] = u[k + 1]
  PROVE  Spelled(t, i, 2) = Spelled(u, k, 2)
BY SMT DEF Spelled

LEMMA SpelledThree ==
  ASSUME NEW t, NEW i, NEW u, NEW k,
         t[i] = u[k], t[i + 1] = u[k + 1], t[i + 2] = u[k + 2]
  PROVE  Spelled(t, i, 3) = Spelled(u, k, 3)
BY SMT DEF Spelled

LEMMA SpelledFour ==
  ASSUME NEW t, NEW i, NEW u, NEW k,
         t[i] = u[k], t[i + 1] = u[k + 1], t[i + 2] = u[k + 2], t[i + 3] = u[k + 3]
  PROVE  Spelled(t, i, 4) = Spelled(u, k, 4)
BY SMT DEF Spelled

\* The n bytes from k on are those of the other text from i on.
Alike(t, i, u, k, n) ==
  (k + n) - 1 <= Len(u) /\ \A j \in 0 .. n - 1 : u[k + j] = t[i + j]

\* A character of n bytes, n more than one, is at i.
Spans(t, i, n) == MultiByteAt(t, i) /\ Lead(t[i]).length = n

LEMMA SameCharacter ==
  ASSUME NEW t \in Seq(Byte), NEW i \in 1 .. Len(t), NEW u \in Seq(Byte),
         NEW k \in 1 .. Len(u), NEW n \in 2 .. 4, Spans(t, i, n), Alike(t, i, u, k, n)
  PROVE  Spans(u, k, n) /\ Spelled(u, k, n) = Spelled(t, i, n)
<1>1. u[k] = t[i]
  <2>1. 0 \in 0 .. n - 1 /\ k + 0 = k /\ i + 0 = i
    OBVIOUS
  <2>2. QED
    BY <2>1, Zenon DEF Alike
<1>2. u[k + 1] = t[i + 1]
  <2>1. 1 \in 0 .. n - 1
    OBVIOUS
  <2>2. QED
    BY <2>1 DEF Alike
<1>3. \A j \in 2 .. n - 1 : u[k + j] = t[i + j]
  BY DEF Alike
<1>4. Spans(u, k, n)
  <2>1. Lead(u[k]) = Lead(t[i])
    BY <1>1
  <2>2. Lead(u[k]).length = n
    BY <2>1 DEF Spans
  <2>3. Lead(u[k]).length # 0
    BY <2>2
  <2>4. k + Lead(u[k]).length - 1 <= Len(u)
    BY <2>2 DEF Alike
  <2>5. u[k + 1] \in Lead(u[k]).low .. Lead(u[k]).high
    BY <1>2, <2>1 DEF MultiByteAt, Spans
  <2>6. \A j \in 2 .. Lead(u[k]).length - 1 : u[k + j] \in 128 .. 191
    BY <1>3, <2>2 DEF MultiByteAt, Spans
  <2>7. QED
    BY <2>2, <2>3, <2>4, <2>5, <2>6, Zenon DEF MultiByteAt, Spans
<1>5. Spelled(u, k, n) = Spelled(t, i, n)
  <2>1. CASE n = 2
    <3>1. Spelled(u, k, 2) = Spelled(t, i, 2)
      BY <1>1, <1>2, SpelledTwo
    <3>2. QED
      BY <2>1, <3>1
  <2>2. CASE n = 3
    <3>1. u[k + 2] = t[i + 2]
      BY <1>3, <2>2
    <3>2. Spelled(u, k, 3) = Spelled(t, i, 3)
      BY <1>1, <1>2, <3>1, SMT DEF Spelled
    <3>3. QED
      BY <2>2, <3>2
  <2>3. CASE n = 4
    <3>1. u[k + 2] = t[i + 2] /\ u[k + 3] = t[i + 3]
      BY <1>3, <2>3
    <3>2. Spelled(u, k, 4) = Spelled(t, i, 4)
      BY <1>1, <1>2, <3>1, SMT DEF Spelled
    <3>3. QED
      BY <2>3, <3>2
  <2>4. QED
    BY <2>1, <2>2, <2>3
<1>6. QED
  BY <1>4, <1>5

LEMMA RemaindersAreNumbers ==
  ASSUME NEW b \in Byte
  PROVE  b % 64 \in Nat /\ b % 32 \in Nat /\ b % 16 \in Nat /\ b % 8 \in Nat
BY SMT DEF Byte

LEMMA SpelledIsANumber ==
  ASSUME NEW t \in Seq(Byte), NEW i \in 1 .. Len(t), NEW n \in 2 .. 4,
         (i + n) - 1 <= Len(t)
  PROVE  Spelled(t, i, n) \in Nat
<1>1. t[i] \in Byte /\ t[i + 1] \in Byte
  OBVIOUS
<1>2. PICK v \in Nat, w \in Nat, x \in Nat, y \in Nat :
        v = t[i] % 32 /\ w = t[i] % 16 /\ x = t[i] % 8 /\ y = t[i + 1] % 64
  BY <1>1, RemaindersAreNumbers
<1>3. CASE n = 2
  <2>1. Spelled(t, i, 2) = 64 * (t[i] % 32) + (t[i + 1] % 64)
    BY SMT DEF Spelled
  <2>2. Spelled(t, i, 2) = 64 * v + y
    BY <1>2, <2>1
  <2>3. QED
    BY <1>3, <2>2
<1>4. CASE n = 3
  <2>1. t[i + 2] \in Byte
    BY <1>4
  <2>2. PICK z \in Nat : z = t[i + 2] % 64
    BY <2>1, RemaindersAreNumbers
  <2>3. Spelled(t, i, 3) = 4096 * (t[i] % 16) + 64 * (t[i + 1] % 64) + (t[i + 2] % 64)
    BY SMT DEF Spelled
  <2>4. Spelled(t, i, 3) = 4096 * w + 64 * y + z
    BY <1>2, <2>2, <2>3
  <2>5. QED
    BY <1>4, <2>4
<1>5. CASE n = 4
  <2>1. t[i + 2] \in Byte /\ t[i + 3] \in Byte
    BY <1>5
  <2>2. PICK z \in Nat, last \in Nat : z = t[i + 2] % 64 /\ last = t[i + 3] % 64
    BY <2>1, RemaindersAreNumbers
  <2>3. Spelled(t, i, 4) = 262144 * (t[i] % 8) + 4096 * (t[i + 1] % 64)
                             + 64 * (t[i + 2] % 64) + (t[i + 3] % 64)
    BY SMT DEF Spelled
  <2>4. Spelled(t, i, 4) = 262144 * x + 4096 * y + 64 * z + last
    BY <1>2, <2>2, <2>3
  <2>5. QED
    BY <1>5, <2>4
<1>6. QED
  BY <1>3, <1>4, <1>5

\* What the loop copies is one character.
LEMMA MultiByteCharacter ==
  ASSUME NEW t \in Seq(Byte), NEW i \in 1 .. Len(t), t[i] >= 128,
         NEW n \in 2 .. 4, Spans(t, i, n)
  PROVE  /\ (i + n) - 1 <= Len(t)
         /\ IsCharacter(SubSeq(t, i, (i + n) - 1), Spelled(t, i, n))
         /\ Len(SubSeq(t, i, (i + n) - 1)) = n /\ Spelled(t, i, n) >= 128
         /\ CharacterAt(t, i) = [bytes |-> <<Spelled(t, i, n)>>, length |-> n]
<1> DEFINE e == SubSeq(t, i, (i + n) - 1)
           c == Spelled(t, i, n)
<1>1. CharacterLengths(t, i) = {n}
  BY LengthsAt DEF Spans
<1>2. (i + n) - 1 <= Len(t) /\ IsScalar(c) /\ Utf8(c) = e
  <2>1. n \in CharacterLengths(t, i)
    BY <1>1
  <2>2. QED
    BY <2>1 DEF CharacterLengths
<1>3. c \in Nat
  BY <1>1, <1>2, SpelledIsANumber
<1>4. e \in Seq(Byte) /\ Len(e) = n /\ \A j \in 1 .. n : e[j] = t[(i + j) - 1]
  <2>1. \A j \in i .. (i + n) - 1 : t[j] \in Byte
    BY <1>1, <1>2
  <2>2. PICK last \in Int : last = (i + n) - 1
    OBVIOUS
  <2>3. i \in Int /\ i <= last /\ (last - i) + 1 = n
    BY <2>2
  <2>4. \A j \in i .. last : t[j] \in Byte
    BY <2>1, <2>2
  <2>5. /\ SubSeq(t, i, last) \in Seq(Byte)
        /\ Len(SubSeq(t, i, last)) = (IF i <= last THEN last - i + 1 ELSE 0)
        /\ \A j \in 1 .. last - i + 1 : SubSeq(t, i, last)[j] = t[i + j - 1]
    BY <2>3, <2>4, SubSeqProperties
  <2>6. e = SubSeq(t, i, last)
    BY <2>2
  <2> HIDE DEF e
  <2>7. QED
    BY <2>3, <2>5, <2>6
<1> HIDE DEF e, c
<1>5. c >= 128
  <2>1. Len(Utf8(c)) = n
    BY <1>2, <1>4
  <2>2. c < 128 => Len(Utf8(c)) = 1
    BY <1>3, Utf8Lengths
  <2>3. QED
    BY <1>3, <2>1, <2>2
<1>6. CharacterAt(t, i) = [bytes |-> <<c>>, length |-> n]
  BY <1>1, OneCharacter, Zenon DEF c
<1>7. ASSUME NEW u \in Seq(Byte), NEW k \in 1 .. Len(u), Occurs(e, u, k)
      PROVE  CharacterAt(u, k) = [bytes |-> <<c>>, length |-> n]
  <2>1. (k + n) - 1 <= Len(u)
    BY <1>4, <1>7 DEF Occurs
  <2>2. ASSUME NEW j \in 0 .. n - 1 PROVE u[k + j] = t[i + j]
    <3>1. j + 1 \in 1 .. n /\ (k + (j + 1)) - 1 = k + j /\ (i + (j + 1)) - 1 = i + j
      BY <1>1
    <3>2. u[(k + (j + 1)) - 1] = e[j + 1]
      BY <1>4, <1>7, <3>1, Zenon DEF Occurs
    <3>3. e[j + 1] = t[(i + (j + 1)) - 1]
      BY <1>4, <3>1
    <3>4. QED
      BY <3>1, <3>2, <3>3
  <2>3. Spans(u, k, n) /\ Spelled(u, k, n) = c
    <3>1. Alike(t, i, u, k, n)
      BY <2>1, <2>2 DEF Alike
    <3>2. /\ t \in Seq(Byte) /\ i \in 1 .. Len(t) /\ u \in Seq(Byte) /\ k \in 1 .. Len(u)
          /\ n \in 2 .. 4 /\ Spans(t, i, n)
      OBVIOUS
    <3>3. Spans(u, k, n) /\ Spelled(u, k, n) = Spelled(t, i, n)
      BY <3>1, <3>2, SameCharacter
    <3>4. QED
      BY <3>3 DEF c
  <2>4. u[k] >= 128
    <3>1. 0 \in 0 .. n - 1 /\ k + 0 = k /\ i + 0 = i
      BY <1>1
    <3>2. QED
      BY <2>2, <3>1
  <2>5. CharacterLengths(u, k) = {n}
    BY <2>3, <2>4, LengthsAt DEF Spans
  <2>6. QED
    BY <2>3, <2>5, OneCharacter, Zenon
<1>8. IsCharacter(e, c)
  <2>1. e \in Seq(Byte) /\ Len(e) # 0 /\ c \in Nat /\ Utf8(c) = e /\ Len(e) = n
    BY <1>2, <1>3, <1>4
  <2>2. QED
    BY <1>7, <2>1, Zenon DEF IsCharacter
<1>9. QED
  BY <1>1, <1>2, <1>4, <1>5, <1>6, <1>8 DEF e, c

\* So is what it puts in place of bytes that are none.
LEMMA ReplacementCharacter ==
  IsCharacter(Replacement, Unreadable) /\ Len(Replacement) = 3
<1> DEFINE t == Replacement
<1>1. t \in Seq(Byte) /\ Len(t) = 3 /\ t[1] = 239 /\ t[2] = 191 /\ t[3] = 189
  BY DEF Replacement, Byte
<1> HIDE DEF t
<1>2. 1 \in 1 .. Len(t) /\ t[1] >= 128 /\ t[1] \in 224 .. 239
  BY <1>1
<1>3. Lead(t[1]).length = 3 /\ Lead(t[1]).low = 128 /\ Lead(t[1]).high = 191
  BY <1>1, <1>2, LeadThree
<1>4. Spans(t, 1, 3) /\ 3 \in 2 .. 4
  <2>1. /\ 1 + 2 <= Len(t) /\ t[1 + 2] \in 128 .. 191
        /\ t[1 + 1] \in Lead(t[1]).low .. Lead(t[1]).high
    BY <1>1, <1>3
  <2>2. MultiByteAt(t, 1)
    BY <1>1, <1>2, <2>1, MultiByteThree
  <2>3. QED
    BY <1>3, <2>2 DEF Spans
<1>5. Spelled(t, 1, 3) = Unreadable
  <2>1. t[1] % 16 = 15 /\ t[1 + 1] % 64 = 63 /\ t[1 + 2] % 64 = 61
    BY <1>1, SMT
  <2>2. Spelled(t, 1, 3) = 4096 * (t[1] % 16) + 64 * (t[1 + 1] % 64) + (t[1 + 2] % 64)
    BY SMT DEF Spelled
  <2>3. QED
    BY <2>1, <2>2, SMT DEF Unreadable
<1>6. SubSeq(t, 1, (1 + 3) - 1) = t
  BY <1>1, SubSeqFull
<1>7. IsCharacter(SubSeq(t, 1, (1 + 3) - 1), Spelled(t, 1, 3))
  <2>1. t \in Seq(Byte) /\ 1 \in 1 .. Len(t) /\ t[1] >= 128
    BY <1>1, <1>2, Zenon
  <2>2. QED
    BY <1>4, <2>1, MultiByteCharacter, Zenon
<1>8. QED
  BY <1>1, <1>5, <1>6, <1>7 DEF t

-----------------------------------------------------------------------------
(***************************************************************************)
(* What the beginning of a text is read as, whatever follows it.           *)
(***************************************************************************)
Starts(t, u) == Len(u) <= Len(t) /\ \A j \in 1 .. Len(u) : t[j] = u[j]

\* As characters; as what these characters mean in JSON; as their bytes.
ReadsAs(u, x) ==
  \A t \in Seq(Byte) : Starts(t, u) => Visiting(CharacterSteps(t))[Len(u)] = At(x)
ParsesTo(u, x) ==
  \A t \in Seq(Nat) : Starts(t, u) => Visiting(ParseSteps(t))[Len(u)] = At(x)
SpellsOut(u, x) ==
  \A t \in Seq(Nat) : Starts(t, u) => Visiting(Utf8Steps(t))[Len(u)] = At(x)

LEMMA StartsWithBoth ==
  ASSUME NEW S, NEW t \in Seq(S), NEW u \in Seq(S), NEW e \in Seq(S), Starts(t, u \o e)
  PROVE  /\ Starts(t, u) /\ Occurs(e, t, Len(u) + 1) /\ Len(u) + Len(e) <= Len(t)
         /\ Len(u \o e) = Len(u) + Len(e)
         /\ Len(t) \in Nat /\ (Len(e) # 0 => Len(u) + 1 \in 1 .. Len(t))
<1>1. /\ Len(u \o e) = Len(u) + Len(e) /\ Len(u) \in Nat /\ Len(e) \in Nat /\ Len(t) \in Nat
      /\ \A j \in 1 .. Len(u) + Len(e) :
           (u \o e)[j] = IF j <= Len(u) THEN u[j] ELSE e[j - Len(u)]
  BY ConcatProperties, LenProperties
<1>2. /\ Len(u) + Len(e) <= Len(t)
      /\ \A j \in 1 .. Len(u) + Len(e) : t[j] = (u \o e)[j]
  BY <1>1 DEF Starts
<1>3. ASSUME NEW j \in 1 .. Len(u) PROVE t[j] = u[j]
  <2>1. j \in 1 .. Len(u) + Len(e) /\ j <= Len(u)
    BY <1>1
  <2>2. QED
    BY <1>1, <1>2, <2>1
<1>4. ASSUME NEW j \in 1 .. Len(e) PROVE t[(Len(u) + 1 + j) - 1] = e[j]
  <2>1. /\ (Len(u) + 1 + j) - 1 = Len(u) + j /\ Len(u) + j \in 1 .. Len(u) + Len(e)
        /\ ~(Len(u) + j <= Len(u)) /\ (Len(u) + j) - Len(u) = j
    BY <1>1
  <2>2. QED
    BY <1>1, <1>2, <2>1
<1>5. (Len(u) + 1) + Len(e) - 1 <= Len(t)
  BY <1>1, <1>2
<1>6. Len(e) # 0 => Len(u) + 1 \in 1 .. Len(t)
  BY <1>1, <1>2
<1>7. QED
  BY <1>1, <1>2, <1>3, <1>4, <1>5, <1>6 DEF Starts, Occurs

LEMMA ReadsMore ==
  ASSUME NEW u \in Seq(Byte), NEW x, ReadsAs(u, x), NEW e, NEW c, IsCharacter(e, c)
  PROVE  ReadsAs(u \o e, x \o <<c>>)
<1>1. e \in Seq(Byte) /\ Len(e) \in Nat \ {0} /\ Len(u) \in Nat
  <2>1. e \in Seq(Byte)
    BY DEF IsCharacter
  <2>2. Len(e) # 0
    BY DEF IsCharacter
  <2>3. QED
    BY <2>1, <2>2, LenProperties
<1>2. ASSUME NEW t \in Seq(Byte), Starts(t, u \o e)
      PROVE  Visiting(CharacterSteps(t))[Len(u \o e)] = At(x \o <<c>>)
  <2> DEFINE steps == CharacterSteps(t)
             a == Len(u)
             m == Len(e)
  <2>1. Starts(t, u) /\ Occurs(e, t, a + 1) /\ a + m <= Len(t) /\ Len(u \o e) = a + m
    BY <1>1, <1>2, StartsWithBoth
  <2>2. Len(t) \in Nat /\ a + 1 \in 1 .. Len(t)
    BY <1>1, <1>2, StartsWithBoth
  <2>3. Len(steps) = Len(t) /\ steps[a + 1] = CharacterAt(t, a + 1)
    BY <2>2 DEF CharacterSteps
  <2>4. CharacterAt(t, a + 1) = [bytes |-> <<c>>, length |-> m]
    BY <2>1, <2>2 DEF IsCharacter
  <2>5. Visiting(steps)[a] = At(x)
    BY <2>1 DEF ReadsAs
  <2>6. steps[a + 1].bytes = <<c>> /\ steps[a + 1].length = m
    BY <2>3, <2>4
  <2>7. /\ Len(steps) \in Nat /\ a \in Nat /\ m \in Nat \ {0} /\ a + m <= Len(steps)
    BY <1>1, <2>1, <2>2, <2>3
  <2> HIDE DEF steps, a, m
  <2>8. ComesTo(steps, a, m, x, <<c>>)
    BY <2>5, <2>6, <2>7 DEF ComesTo
  <2>9. Visiting(steps)[a + m] = At(x \o <<c>>)
    BY <2>8, StepTaken, SMT
  <2>10. QED
    BY <2>1, <2>9 DEF steps, a, m
<1>3. QED
  BY <1>2 DEF ReadsAs

\* Characters that mean one character in JSON.
Means(p, c) ==
  /\ p \in Seq(Nat) /\ Len(p) # 0
  /\ \A t \in Seq(Nat) : \A i \in 1 .. Len(t) :
       Occurs(p, t, i) => ParseAt(t, i) = [bytes |-> <<c>>, length |-> Len(p)]

LEMMA ParsesMore ==
  ASSUME NEW u \in Seq(Nat), NEW x, ParsesTo(u, x), NEW p, NEW c, Means(p, c)
  PROVE  ParsesTo(u \o p, x \o <<c>>)
<1>1. p \in Seq(Nat) /\ Len(p) \in Nat \ {0} /\ Len(u) \in Nat
  BY DEF Means
<1>2. ASSUME NEW t \in Seq(Nat), Starts(t, u \o p)
      PROVE  Visiting(ParseSteps(t))[Len(u \o p)] = At(x \o <<c>>)
  <2> DEFINE steps == ParseSteps(t)
             a == Len(u)
             m == Len(p)
  <2>1. Starts(t, u) /\ Occurs(p, t, a + 1) /\ a + m <= Len(t) /\ Len(u \o p) = a + m
    BY <1>1, <1>2, StartsWithBoth
  <2>2. Len(t) \in Nat /\ a + 1 \in 1 .. Len(t)
    BY <1>1, <1>2, StartsWithBoth
  <2>3. Len(steps) = Len(t) /\ steps[a + 1] = ParseAt(t, a + 1)
    BY <2>2 DEF ParseSteps
  <2>4. ParseAt(t, a + 1) = [bytes |-> <<c>>, length |-> m]
    BY <2>1, <2>2 DEF Means
  <2>5. Visiting(steps)[a] = At(x)
    BY <2>1 DEF ParsesTo
  <2>6. steps[a + 1].bytes = <<c>> /\ steps[a + 1].length = m
    BY <2>3, <2>4
  <2>7. /\ Len(steps) \in Nat /\ a \in Nat /\ m \in Nat \ {0} /\ a + m <= Len(steps)
    BY <1>1, <2>1, <2>2, <2>3
  <2> HIDE DEF steps, a, m
  <2>8. ComesTo(steps, a, m, x, <<c>>)
    BY <2>5, <2>6, <2>7 DEF ComesTo
  <2>9. Visiting(steps)[a + m] = At(x \o <<c>>)
    BY <2>8, StepTaken, SMT
  <2>10. QED
    BY <2>1, <2>9 DEF steps, a, m
<1>3. QED
  BY <1>2 DEF ParsesTo

LEMMA SpellsMore ==
  ASSUME NEW u \in Seq(Nat), NEW x, SpellsOut(u, x), NEW e \in Seq(Nat), Len(e) = 1,
         NEW c, c = e[1]
  PROVE  SpellsOut(u \o e, x \o Utf8(c))
<1>a. Len(e) = 1 /\ e[1] = c
  OBVIOUS
<1>2. ASSUME NEW t \in Seq(Nat), Starts(t, u \o e)
      PROVE  Visiting(Utf8Steps(t))[Len(u \o e)] = At(x \o Utf8(c))
  <2> DEFINE steps == Utf8Steps(t)
             a == Len(u)
             piece == Utf8(c)
  <2>0. /\ Starts(t, u) /\ Occurs(e, t, Len(u) + 1) /\ Len(u) + Len(e) <= Len(t)
        /\ Len(u \o e) = Len(u) + Len(e)
        /\ Len(t) \in Nat /\ (Len(e) # 0 => Len(u) + 1 \in 1 .. Len(t))
    BY <1>2, StartsWithBoth
  <2>1. Starts(t, u) /\ Occurs(e, t, a + 1) /\ a + 1 <= Len(t) /\ Len(u \o e) = a + 1
    BY <1>a, <2>0
  <2>2. Len(t) \in Nat /\ Len(u) \in Nat /\ a + 1 \in 1 .. Len(t)
    BY <1>a, <2>0, LenProperties
  <2>3. Len(steps) = Len(t) /\ steps[a + 1] = [bytes |-> Utf8(t[a + 1]), length |-> 1]
    BY <2>2 DEF Utf8Steps
  <2>4. t[a + 1] = c
    <3>1. 1 \in 1 .. Len(e) /\ (a + 1 + 1) - 1 = a + 1
      BY <1>a
    <3>2. QED
      BY <1>a, <2>1, <3>1 DEF Occurs
  <2>5. Visiting(steps)[a] = At(x)
    BY <2>1 DEF SpellsOut
  <2>6. steps[a + 1].bytes = piece /\ steps[a + 1].length = 1
    BY <2>3, <2>4
  <2>7. /\ Len(steps) \in Nat /\ a \in Nat /\ 1 \in Nat \ {0} /\ a + 1 <= Len(steps)
    BY <2>1, <2>2, <2>3
  <2> HIDE DEF steps, a, piece
  <2>8. ComesTo(steps, a, 1, x, piece)
    BY <2>5, <2>6, <2>7 DEF ComesTo
  <2>9. Visiting(steps)[a + 1] = At(x \o piece)
    BY <2>8, StepTaken, SMT
  <2>10. QED
    BY <2>1, <2>9 DEF steps, a, piece
<1>3. QED
  BY <1>2 DEF SpellsOut

\* A text that a browser reads as these characters, none of its bytes lost.
Shown(o, x) ==
  /\ o \in Seq(Byte) /\ x \in Seq(Nat)
  /\ \E u \in Seq(Nat) : ReadsAs(o, u) /\ ParsesTo(u, x) /\ SpellsOut(u, o)

LEMMA NothingShown == Shown(<<>>, <<>>)
<1>1. Len(<<>>) = 0 /\ <<>> \in Seq(Byte) /\ <<>> \in Seq(Nat)
  OBVIOUS
<1>2. ASSUME NEW t \in Seq(Byte) PROVE Visiting(CharacterSteps(t))[0] = At(<<>>)
  <2>1. Len(CharacterSteps(t)) \in Nat
    BY DEF CharacterSteps
  <2>2. QED
    BY <2>1, VisitingSteps
<1>3. ASSUME NEW t \in Seq(Nat)
      PROVE  Visiting(ParseSteps(t))[0] = At(<<>>) /\ Visiting(Utf8Steps(t))[0] = At(<<>>)
  <2>1. Len(ParseSteps(t)) \in Nat /\ Len(Utf8Steps(t)) \in Nat
    BY DEF ParseSteps, Utf8Steps
  <2>2. QED
    BY <2>1, VisitingSteps
<1>4. ReadsAs(<<>>, <<>>) /\ ParsesTo(<<>>, <<>>) /\ SpellsOut(<<>>, <<>>)
  BY <1>1, <1>2, <1>3 DEF ReadsAs, ParsesTo, SpellsOut
<1>5. QED
  BY <1>1, <1>4 DEF Shown

LEMMA RegroupedBytes ==
  ASSUME NEW u \in Seq(Byte), NEW v \in Seq(Byte), NEW w \in Seq(Byte)
  PROVE  (u \o v) \o w = u \o (v \o w)
BY ConcatAssociative

LEMMA RegroupedNumbers ==
  ASSUME NEW u \in Seq(Nat), NEW v \in Seq(Nat), NEW w \in Seq(Nat)
  PROVE  (u \o v) \o w = u \o (v \o w)
BY ConcatAssociative

\* ASCII is read byte by byte.
LEMMA AsciiIsRead ==
  ASSUME NEW o \in Seq(Byte), NEW u \in Seq(Nat), ReadsAs(o, u), SpellsOut(u, o),
         NEW p \in Seq(0 .. 127)
  PROVE  /\ ReadsAs(o \o p, u \o p) /\ SpellsOut(u \o p, o \o p)
         /\ o \o p \in Seq(Byte) /\ u \o p \in Seq(Nat)
<1> DEFINE q(k) == SubSeq(p, 1, k)
           S == {k \in 0 .. Len(p) : /\ ReadsAs(o \o q(k), u \o q(k))
                                     /\ SpellsOut(u \o q(k), o \o q(k))}
<1>1. Len(p) \in Nat /\ p \in Seq(Byte) /\ p \in Seq(Nat)
  <2>1. 0 .. 127 \subseteq Byte /\ 0 .. 127 \subseteq Nat
    BY DEF Byte
  <2>2. p \in Seq(Byte) /\ p \in Seq(Nat)
    BY <2>1, SeqMonotonic
  <2>3. QED
    BY <2>2
<1>2. 0 \in S
  <2>1. q(0) = <<>>
    BY SubSeqEmpty
  <2>2. o \o <<>> = o /\ u \o <<>> = u
    OBVIOUS
  <2>3. 0 \in 0 .. Len(p)
    BY <1>1
  <2> HIDE DEF q
  <2>4. QED
    BY <2>1, <2>2, <2>3
<1>3. ASSUME NEW k \in 0 .. Len(p) - 1, k \in S PROVE k + 1 \in S
  <2>1. k + 1 \in 1 .. Len(p) /\ 1 \in 1 .. Len(p) /\ k + 1 \in 0 .. Len(p) /\ (k + 1) - 1 = k
    BY <1>1
  <2>2. PICK b \in 0 .. 127 : b = p[k + 1]
    <3>1. p[k + 1] \in 0 .. 127
      BY <2>1, ElementOfSeq
    <3>2. QED
      BY <3>1
  <2>3. q(k + 1) = q(k) \o <<b>>
    <3>1. SubSeq(p, 1, k + 1) = SubSeq(p, 1, (k + 1) - 1) \o <<p[k + 1]>>
      BY <2>1, SubSeqRecursiveSecond
    <3>2. QED
      BY <2>1, <2>2, <3>1
  <2>4. q(k) \in Seq(Byte) /\ q(k) \in Seq(Nat)
    <3>1. \A j \in 1 .. k : p[j] \in Byte /\ p[j] \in Nat
      BY <1>1
    <3>2. QED
      BY <3>1, SubSeqProperties
  <2> DEFINE e == <<b>>
  <2>5. e \in Seq(Byte) /\ e \in Seq(Nat) /\ Len(e) = 1 /\ e[1] = b /\ b \in Nat /\ b \in Byte
    BY DEF Byte
  <2>6. IsCharacter(e, b) /\ Utf8(b) = e
    <3>1. IsCharacter(<<b>>, b)
      BY AsciiCharacter
    <3>2. QED
      BY <3>1 DEF IsCharacter
  <2> HIDE DEF q
  <2>7. ReadsAs(o \o q(k), u \o q(k)) /\ SpellsOut(u \o q(k), o \o q(k))
    BY <1>3
  <2>8. o \o q(k) \in Seq(Byte) /\ u \o q(k) \in Seq(Nat)
    BY <2>4, ConcatProperties
  <2>9. ReadsAs((o \o q(k)) \o e, (u \o q(k)) \o <<b>>)
    BY <2>6, <2>7, <2>8, ReadsMore
  <2> HIDE DEF e
  <2>10. SpellsOut((u \o q(k)) \o e, (o \o q(k)) \o Utf8(b))
    BY <2>5, <2>7, <2>8, SpellsMore
  <2>11. (o \o q(k)) \o e = o \o (q(k) \o e)
    BY <2>4, <2>5, RegroupedBytes
  <2>12. (u \o q(k)) \o e = u \o (q(k) \o e)
    BY <2>4, <2>5, RegroupedNumbers
  <2>13. q(k) \o e = q(k + 1) /\ e = <<b>>
    BY <2>3 DEF e
  <2>14. ReadsAs(o \o q(k + 1), u \o q(k + 1))
    BY <2>9, <2>11, <2>12, <2>13
  <2>15. SpellsOut(u \o q(k + 1), o \o q(k + 1))
    BY <2>6, <2>10, <2>11, <2>12, <2>13
  <2>16. QED
    BY <2>1, <2>14, <2>15
<1>4. \A k \in 0 .. Len(p) - 1 : k \in S => k + 1 \in S
  BY <1>3
<1>5. 0 \in Int /\ Len(p) \in Int
  BY <1>1
<1>6. q(Len(p)) = p
  BY SubSeqFull
<1> HIDE DEF S
<1>7. \A k \in 0 .. Len(p) : k \in S
  BY <1>2, <1>4, <1>5, Induction, Zenon
<1>8. Len(p) \in S
  BY <1>1, <1>7
<1> HIDE DEF q
<1>9. ReadsAs(o \o p, u \o p) /\ SpellsOut(u \o p, o \o p)
  BY <1>6, <1>8 DEF S
<1>10. QED
  BY <1>1, <1>9, ConcatProperties

LEMMA ShownMore ==
  ASSUME NEW o, NEW x, Shown(o, x), NEW p \in Seq(0 .. 127), NEW c \in Nat, Means(p, c)
  PROVE  Shown(o \o p, x \o <<c>>)
<1>1. o \in Seq(Byte) /\ x \in Seq(Nat)
  BY DEF Shown
<1>2. PICK u \in Seq(Nat) : ReadsAs(o, u) /\ ParsesTo(u, x) /\ SpellsOut(u, o)
  BY DEF Shown
<1>3. /\ ReadsAs(o \o p, u \o p) /\ SpellsOut(u \o p, o \o p)
      /\ o \o p \in Seq(Byte) /\ u \o p \in Seq(Nat)
  BY <1>1, <1>2, AsciiIsRead
<1>4. ParsesTo(u \o p, x \o <<c>>)
  BY <1>2, ParsesMore
<1>5. x \o <<c>> \in Seq(Nat)
  BY <1>1
<1>6. QED
  BY <1>3, <1>4, <1>5 DEF Shown

LEMMA CharacterShown ==
  ASSUME NEW o, NEW x, Shown(o, x), NEW e, NEW c, IsCharacter(e, c), Means(<<c>>, c)
  PROVE  Shown(o \o e, x \o <<c>>)
<1>1. o \in Seq(Byte) /\ x \in Seq(Nat)
  BY DEF Shown
<1>2. PICK u \in Seq(Nat) : ReadsAs(o, u) /\ ParsesTo(u, x) /\ SpellsOut(u, o)
  BY DEF Shown
<1>3. e \in Seq(Byte) /\ c \in Nat /\ Utf8(c) = e
  BY DEF IsCharacter
<1>4. PICK p \in Seq(Nat) : p = <<c>>
  <2>1. <<c>> \in Seq(Nat)
    BY <1>3
  <2>2. QED
    BY <2>1
<1>5. Len(p) = 1 /\ c = p[1]
  BY <1>4
<1>6. ReadsAs(o \o e, u \o <<c>>)
  BY <1>1, <1>2, ReadsMore
<1>7. ParsesTo(u \o <<c>>, x \o <<c>>)
  BY <1>2, ParsesMore
<1>8. SpellsOut(u \o p, o \o Utf8(c))
  BY <1>2, <1>5, SpellsMore
<1>9. o \o e \in Seq(Byte)
  BY <1>1, <1>3, ConcatProperties
<1>10. x \o <<c>> \in Seq(Nat) /\ u \o <<c>> \in Seq(Nat)
  BY <1>1, <1>3
<1>11. SpellsOut(u \o <<c>>, o \o e)
  BY <1>3, <1>4, <1>8
<1>12. QED
  BY <1>6, <1>7, <1>9, <1>10, <1>11 DEF Shown

-----------------------------------------------------------------------------
(***************************************************************************)
(* JSON: what stands for itself, and what the escapes mean.                *)
(***************************************************************************)

LEMMA MeansItself ==
  ASSUME NEW c \in Nat, c >= 32, c # Quote, c # Backslash
  PROVE  Means(<<c>>, c)
<1>1. ASSUME NEW t \in Seq(Nat), NEW i \in 1 .. Len(t), Occurs(<<c>>, t, i)
      PROVE  ParseAt(t, i) = [bytes |-> <<c>>, length |-> 1]
  <2>1. t[i] = c
    <3>1. 1 \in 1 .. Len(<<c>>) /\ (i + 1) - 1 = i /\ <<c>>[1] = c
      OBVIOUS
    <3>2. QED
      BY <1>1, <3>1, Zenon DEF Occurs
  <2>2. ~(c < 32)
    OBVIOUS
  <2>3. QED
    BY <2>1, <2>2 DEF ParseAt
<1>2. <<c>> \in Seq(Nat) /\ Len(<<c>>) = 1
  OBVIOUS
<1>3. QED
  BY <1>1, <1>2 DEF Means

\* A pair of characters that begins with a backslash.
LEMMA PairMeans ==
  ASSUME NEW b \in Nat, NEW c \in Nat,
         \/ b \in {Quote, Backslash} /\ c = b
         \/ b = 110 /\ c = 10
         \/ b = 114 /\ c = 13
         \/ b = 116 /\ c = 9
  PROVE  Means(<<Backslash, b>>, c)
<1> DEFINE p == <<Backslash, b>>
<1>1. p \in Seq(Nat) /\ Len(p) = 2 /\ p[1] = Backslash /\ p[2] = b
  BY DEF Backslash
<1> HIDE DEF p
<1>2. ASSUME NEW t \in Seq(Nat), NEW i \in 1 .. Len(t), Occurs(p, t, i)
      PROVE  ParseAt(t, i) = [bytes |-> <<c>>, length |-> 2]
  <2>1. /\ 1 \in 1 .. Len(p) /\ (i + 1) - 1 = i
        /\ 2 \in 1 .. Len(p) /\ (i + 2) - 1 = i + 1
    BY <1>1
  <2>2. t[i] = Backslash /\ t[i + 1] = b
    BY <1>1, <1>2, <2>1 DEF Occurs
  <2>3. i < Len(t)
    BY <1>1, <1>2 DEF Occurs
  <2>4. Unescaped(t, i) = [bytes |-> <<c>>, length |-> 2]
    <3>1. CASE b \in {Quote, Backslash} /\ c = b
      <4>1. b = 34 \/ b = 92
        BY <3>1 DEF Quote, Backslash
      <4>2. CASE b = 34
        BY <2>2, <2>3, <3>1, <4>2 DEF Unescaped, Quote, Backslash
      <4>3. CASE b = 92
        BY <2>2, <2>3, <3>1, <4>3 DEF Unescaped, Quote, Backslash
      <4>4. QED
        BY <4>1, <4>2, <4>3
    <3>2. CASE b = 110 /\ c = 10
      BY <2>2, <2>3, <3>2 DEF Unescaped, Quote, Backslash
    <3>3. CASE b = 114 /\ c = 13
      BY <2>2, <2>3, <3>3 DEF Unescaped, Quote, Backslash
    <3>4. CASE b = 116 /\ c = 9
      BY <2>2, <2>3, <3>4 DEF Unescaped, Quote, Backslash
    <3>5. QED
      BY <3>1, <3>2, <3>3, <3>4
  <2>5. QED
    BY <2>2, <2>4 DEF ParseAt
<1>3. Means(p, c)
  BY <1>1, <1>2 DEF Means
<1>4. QED
  BY <1>3 DEF p

LEMMA HexDigits ==
  ASSUME NEW n \in 0 .. 15
  PROVE  HexCharacter(n) \in 0 .. 127 /\ hexDigit(HexCharacter(n)) = n
<1>1. CASE n < 10
  <2>1. HexCharacter(n) = 48 + n /\ 48 + n \in 48 .. 57 /\ (48 + n) - 48 = n
    BY <1>1 DEF HexCharacter
  <2>2. QED
    BY <2>1, SMT DEF hexDigit
<1>2. CASE n >= 10
  <2>1. HexCharacter(n) = 87 + n /\ 87 + n \in 97 .. 102 /\ (87 + n) - 87 = n
    BY <1>2 DEF HexCharacter
  <2>2. QED
    BY <2>1, SMT DEF hexDigit
<1>3. QED
  BY <1>1, <1>2

\* The long escape of a control character.
LEMMA LongEscapeMeans ==
  ASSUME NEW b \in 0 .. 31
  PROVE  Means(<<Backslash, 117, 48, 48, HexCharacter(b \div 16), HexCharacter(b % 16)>>, b)
<1>1. PICK g \in 0 .. 15, h \in 0 .. 15 : g = b \div 16 /\ h = b % 16 /\ 16 * g + h = b
  <2>1. b \div 16 \in 0 .. 15 /\ b % 16 \in 0 .. 15 /\ 16 * (b \div 16) + (b % 16) = b
    BY SMT
  <2>2. QED
    BY <2>1
<1>2. PICK v \in 0 .. 127, w \in 0 .. 127 :
        /\ v = HexCharacter(g) /\ w = HexCharacter(h)
        /\ hexDigit(v) = g /\ hexDigit(w) = h
  BY HexDigits
<1> DEFINE p == <<Backslash, 117, 48, 48, v, w>>
<1>3. /\ p \in Seq(Nat) /\ Len(p) = 6 /\ p[1] = Backslash /\ p[2] = 117
      /\ p[3] = 48 /\ p[4] = 48 /\ p[5] = v /\ p[6] = w
  BY DEF Backslash
<1> HIDE DEF p
<1>4. hexDigit(48) = 0
  BY SMT DEF hexDigit
<1>5. ASSUME NEW t \in Seq(Nat), NEW i \in 1 .. Len(t), Occurs(p, t, i)
      PROVE  ParseAt(t, i) = [bytes |-> <<b>>, length |-> 6]
  <2>1. /\ (i + 1) - 1 = i /\ (i + 2) - 1 = i + 1 /\ (i + 3) - 1 = i + 2
        /\ (i + 4) - 1 = i + 3 /\ (i + 5) - 1 = i + 4 /\ (i + 6) - 1 = i + 5
    OBVIOUS
  <2>2. \A j \in 1 .. 6 : t[(i + j) - 1] = p[j]
    BY <1>3, <1>5 DEF Occurs
  <2>3. t[i] = Backslash /\ t[i + 1] = 117 /\ t[i + 2] = 48
    BY <1>3, <2>1, <2>2
  <2>4. t[i + 3] = 48 /\ t[i + 4] = v /\ t[i + 5] = w
    BY <1>3, <2>1, <2>2
  <2>5. i + 5 <= Len(t)
    BY <1>3, <1>5 DEF Occurs
  <2>6. HexAt(t, i + 2) = 0 /\ HexAt(t, i + 3) = 0
    BY <1>4, <2>3, <2>4, <2>5 DEF HexAt
  <2>7. HexAt(t, i + 4) = g /\ HexAt(t, i + 5) = h
    BY <1>2, <2>4, <2>5 DEF HexAt
  <2>8. i < Len(t)
    BY <2>5
  <2>9. ASSUME NEW k \in 2 .. 5 PROVE HexAt(t, i + k) >= 0
    <3>1. k = 2 \/ k = 3 \/ k = 4 \/ k = 5
      OBVIOUS
    <3>2. g >= 0 /\ h >= 0 /\ 0 >= 0
      OBVIOUS
    <3>3. QED
      BY <2>6, <2>7, <3>1, <3>2
  <2>10. 4096 * HexAt(t, i + 2) + 256 * HexAt(t, i + 3) + 16 * HexAt(t, i + 4)
           + HexAt(t, i + 5) = b
    BY <1>1, <2>6, <2>7
  <2>11. Unescaped(t, i) = [bytes |-> <<b>>, length |-> 6]
    <3>1. Unescaped(t, i) =
            [bytes |-> <<4096 * HexAt(t, i + 2) + 256 * HexAt(t, i + 3)
                           + 16 * HexAt(t, i + 4) + HexAt(t, i + 5)>>, length |-> 6]
      BY <2>3, <2>8, <2>9, SMT DEF Unescaped, Quote, Backslash
    <3>2. QED
      BY <2>10, <3>1
  <2>12. QED
    BY <2>3, <2>11 DEF ParseAt
<1>6. Means(p, b)
  BY <1>3, <1>5 DEF Means
<1>7. QED
  BY <1>1, <1>2, <1>6 DEF p

LEMMA EscapeMeans ==
  ASSUME NEW b \in Byte, NeedsEscape(b)
  PROVE  Escaped(b) \in Seq(0 .. 127) /\ Means(Escaped(b), b)
<1>1. b \in 0 .. 31 \/ b = 34 \/ b = 92
  BY DEF NeedsEscape, Byte, Quote, Backslash
<1>2. CASE b = 34 \/ b = 92
  <2>1. Escaped(b) = <<Backslash, b>>
    BY <1>2 DEF Escaped, Quote, Backslash
  <2>2. <<Backslash, b>> \in Seq(0 .. 127)
    BY <1>2 DEF Backslash
  <2>3. Means(<<Backslash, b>>, b)
    BY <1>2, PairMeans DEF Quote, Backslash
  <2>4. QED
    BY <2>1, <2>2, <2>3
<1>3. CASE b = 10
  <2>1. Escaped(b) = <<Backslash, 110>>
    BY <1>3 DEF Escaped, Quote, Backslash
  <2>2. <<Backslash, 110>> \in Seq(0 .. 127)
    BY DEF Backslash
  <2>3. Means(<<Backslash, 110>>, b)
    BY <1>3, PairMeans
  <2>4. QED
    BY <2>1, <2>2, <2>3
<1>4. CASE b = 13
  <2>1. Escaped(b) = <<Backslash, 114>>
    BY <1>4 DEF Escaped, Quote, Backslash
  <2>2. <<Backslash, 114>> \in Seq(0 .. 127)
    BY DEF Backslash
  <2>3. Means(<<Backslash, 114>>, b)
    BY <1>4, PairMeans
  <2>4. QED
    BY <2>1, <2>2, <2>3
<1>5. CASE b = 9
  <2>1. Escaped(b) = <<Backslash, 116>>
    BY <1>5 DEF Escaped, Quote, Backslash
  <2>2. <<Backslash, 116>> \in Seq(0 .. 127)
    BY DEF Backslash
  <2>3. Means(<<Backslash, 116>>, b)
    BY <1>5, PairMeans
  <2>4. QED
    BY <2>1, <2>2, <2>3
<1>6. CASE b \in 0 .. 31 /\ b # 10 /\ b # 13 /\ b # 9
  <2> DEFINE v == HexCharacter(b \div 16)
             w == HexCharacter(b % 16)
  <2>1. v \in 0 .. 127 /\ w \in 0 .. 127
    <3>1. b \div 16 \in 0 .. 15 /\ b % 16 \in 0 .. 15
      BY <1>6, SMT
    <3>2. QED
      BY <3>1, HexDigits, Zenon
  <2>2. Escaped(b) = <<Backslash, 117, 48, 48, v, w>>
    BY <1>6 DEF Escaped, Quote, Backslash
  <2>3. <<Backslash, 117, 48, 48, v, w>> \in Seq(0 .. 127)
    <3> HIDE DEF v, w
    <3>1. QED
      BY <2>1 DEF Backslash
  <2>4. Means(<<Backslash, 117, 48, 48, v, w>>, b)
    BY <1>6, LongEscapeMeans
  <2>5. QED
    BY <2>2, <2>3, <2>4
<1>7. QED
  BY <1>1, <1>2, <1>3, <1>4, <1>5, <1>6

-----------------------------------------------------------------------------
(***************************************************************************)
(* appendJsonString() shows a program's bytes as they are.                 *)
(***************************************************************************)

\* Both loops have come to k, and the one's text shows the other's characters.
Agree(t, k) ==
  \E o, x : /\ Shown(o, x)
            /\ Visiting(JsonSteps(t))[k] = At(o)
            /\ Visiting(CharacterSteps(t))[k] = At(x)

\* They go on together.
LEMMA GoOnTogether ==
  ASSUME NEW t \in Seq(Byte), NEW k \in 0 .. Len(t) - 1, Agree(t, k),
         NEW m \in Nat \ {0}, k + m <= Len(t), NEW e, NEW c,
         JsonAt(t, k + 1) = [bytes |-> e, length |-> m],
         CharacterAt(t, k + 1) = [bytes |-> <<c>>, length |-> m],
         \A o, x : Shown(o, x) => Shown(o \o e, x \o <<c>>)
  PROVE  Agree(t, k + m)
<1>1. PICK o, x : /\ Shown(o, x)
                  /\ Visiting(JsonSteps(t))[k] = At(o)
                  /\ Visiting(CharacterSteps(t))[k] = At(x)
  BY DEF Agree
<1>2. Len(t) \in Nat /\ k \in Nat /\ k + 1 \in 1 .. Len(t)
  OBVIOUS
<1>3. /\ Len(JsonSteps(t)) = Len(t) /\ JsonSteps(t)[k + 1] = JsonAt(t, k + 1)
      /\ Len(CharacterSteps(t)) = Len(t)
      /\ CharacterSteps(t)[k + 1] = CharacterAt(t, k + 1)
  BY <1>2 DEF JsonSteps, CharacterSteps
<1>4. ComesTo(JsonSteps(t), k, m, o, e)
  BY <1>1, <1>2, <1>3 DEF ComesTo
<1>5. ComesTo(CharacterSteps(t), k, m, x, <<c>>)
  BY <1>1, <1>2, <1>3 DEF ComesTo
<1>6. Visiting(JsonSteps(t))[k + m] = At(o \o e)
  BY <1>4, StepTaken, SMT
<1>7. Visiting(CharacterSteps(t))[k + m] = At(x \o <<c>>)
  BY <1>5, StepTaken, SMT
<1>8. Shown(o \o e, x \o <<c>>)
  BY <1>1
<1>9. QED
  BY <1>6, <1>7, <1>8 DEF Agree

\* appendJsonString() copies the n bytes of a character.
Copies(t, i, n) ==
  /\ i \in Nat /\ n \in 2 .. 4
  /\ ~NeedsEscape(t[i]) /\ ~(t[i] < 128)
  /\ MultiByteAt(t, i) /\ Lead(t[i]).length = n

LEMMA JsonCopies ==
  ASSUME NEW t, NEW i, NEW n, Copies(t, i, n)
  PROVE  JsonAt(t, i) = [bytes |-> SubSeq(t, i, (i + n) - 1), length |-> n]
BY DEF JsonAt, Copies

LEMMA NextAgrees ==
  ASSUME NEW t \in Seq(Byte), NEW k \in 0 .. Len(t) - 1, Agree(t, k)
  PROVE  \E m \in Nat \ {0} : k + m <= Len(t) /\ Agree(t, k + m)
<1> DEFINE i == k + 1
<1>1. i \in 1 .. Len(t) /\ k + 1 <= Len(t) /\ 1 \in Nat \ {0}
  OBVIOUS
<1>2. PICK b \in Byte : b = t[i]
  BY <1>1
<1>3. b \in Nat /\ b < 256
  BY ByteBounds
<1> HIDE DEF i
<1>4. CASE NeedsEscape(b)
  <2>1. JsonAt(t, i) = [bytes |-> Escaped(b), length |-> 1]
    BY <1>2, <1>4 DEF JsonAt
  <2>2. b < 128
    BY <1>3, <1>4 DEF NeedsEscape, Quote, Backslash
  <2>3. CharacterAt(t, i) = [bytes |-> <<b>>, length |-> 1]
    <3>1. CharacterLengths(t, i) = {1}
      BY <1>1, <1>2, <2>2, LengthsAt
    <3>2. Spelled(t, i, 1) = b
      BY <1>2, SMT DEF Spelled
    <3>3. QED
      BY <3>1, <3>2, OneCharacter, Zenon
  <2>4. Escaped(b) \in Seq(0 .. 127) /\ Means(Escaped(b), b)
    BY <1>4, EscapeMeans
  <2>5. ASSUME NEW o, NEW x, Shown(o, x) PROVE Shown(o \o Escaped(b), x \o <<b>>)
    BY <1>3, <2>4, <2>5, ShownMore
  <2>6. Agree(t, k + 1)
    BY <1>1, <2>1, <2>3, <2>5, GoOnTogether DEF i
  <2>7. QED
    BY <1>1, <2>6
<1>5. CASE ~NeedsEscape(b) /\ b < 128
  <2>1. JsonAt(t, i) = [bytes |-> <<b>>, length |-> 1]
    BY <1>2, <1>5 DEF JsonAt
  <2>2. b \in 0 .. 127 /\ b >= 32 /\ b # Quote /\ b # Backslash
    BY <1>3, <1>5 DEF NeedsEscape
  <2>3. CharacterAt(t, i) = [bytes |-> <<b>>, length |-> 1]
    <3>1. CharacterLengths(t, i) = {1}
      BY <1>1, <1>2, <1>5, LengthsAt
    <3>2. Spelled(t, i, 1) = b
      BY <1>2, SMT DEF Spelled
    <3>3. QED
      BY <3>1, <3>2, OneCharacter, Zenon
  <2>4. IsCharacter(<<b>>, b) /\ Means(<<b>>, b)
    BY <1>3, <2>2, AsciiCharacter, MeansItself
  <2>5. ASSUME NEW o, NEW x, Shown(o, x) PROVE Shown(o \o <<b>>, x \o <<b>>)
    BY <2>4, <2>5, CharacterShown
  <2>6. Agree(t, k + 1)
    BY <1>1, <2>1, <2>3, <2>5, GoOnTogether DEF i
  <2>7. QED
    BY <1>1, <2>6
<1>6. CASE b >= 128 /\ MultiByteAt(t, i)
  <2>1. PICK n \in 2 .. 4 : Spans(t, i, n)
    BY <1>1, <1>2, <1>6, LengthsAt DEF Spans
  <2> DEFINE e == SubSeq(t, i, (i + n) - 1)
             c == Spelled(t, i, n)
  <2>2. ~NeedsEscape(b) /\ ~(b < 128)
    BY <1>3, <1>6 DEF NeedsEscape, Quote, Backslash
  <2>3. JsonAt(t, i) = [bytes |-> e, length |-> n]
    <3>1. ~NeedsEscape(t[i]) /\ ~(t[i] < 128)
      BY <1>2, <2>2
    <3>2. Lead(t[i]).length = n
      BY <2>1 DEF Spans
    <3>3. Copies(t, i, n)
      BY <1>1, <1>6, <3>1, <3>2 DEF Copies
    <3>4. QED
      BY <3>3, JsonCopies, Zenon
  <2>4. /\ (i + n) - 1 <= Len(t) /\ IsCharacter(e, c) /\ c >= 128
        /\ CharacterAt(t, i) = [bytes |-> <<c>>, length |-> n]
    BY <1>1, <1>2, <1>6, <2>1, MultiByteCharacter
  <2> HIDE DEF e, c
  <2>5. Means(<<c>>, c)
    <3>1. c \in Nat
      BY <2>4 DEF IsCharacter
    <3>2. QED
      BY <2>4, <3>1, MeansItself DEF Quote, Backslash
  <2>6. ASSUME NEW o, NEW x, Shown(o, x) PROVE Shown(o \o e, x \o <<c>>)
    BY <2>4, <2>5, <2>6, CharacterShown
  <2>7. n \in Nat \ {0} /\ k + n <= Len(t)
    BY <2>1, <2>4 DEF i
  <2>8. Agree(t, k + n)
    BY <2>3, <2>4, <2>6, <2>7, GoOnTogether DEF i
  <2>9. QED
    BY <2>7, <2>8
<1>7. CASE b >= 128 /\ ~MultiByteAt(t, i)
  <2>1. ~NeedsEscape(b) /\ ~(b < 128)
    BY <1>3, <1>7 DEF NeedsEscape, Quote, Backslash
  <2>2. JsonAt(t, i) = [bytes |-> Replacement, length |-> 1]
    BY <1>2, <1>7, <2>1 DEF JsonAt
  <2>3. CharacterAt(t, i) = [bytes |-> <<Unreadable>>, length |-> 1]
    <3>1. CharacterLengths(t, i) = {}
      BY <1>1, <1>2, <1>7, LengthsAt
    <3>2. QED
      BY <3>1, NoCharacter
  <2>4. IsCharacter(Replacement, Unreadable) /\ Means(<<Unreadable>>, Unreadable)
    <3>1. /\ Unreadable \in Nat /\ Unreadable >= 32
          /\ Unreadable # Quote /\ Unreadable # Backslash
      BY DEF Unreadable, Quote, Backslash
    <3>2. QED
      BY <3>1, ReplacementCharacter, MeansItself
  <2>5. ASSUME NEW o, NEW x, Shown(o, x)
        PROVE  Shown(o \o Replacement, x \o <<Unreadable>>)
    BY <2>4, <2>5, CharacterShown
  <2>6. Agree(t, k + 1)
    BY <1>1, <2>2, <2>3, <2>5, GoOnTogether DEF i
  <2>7. QED
    BY <1>1, <2>6
<1>8. QED
  BY <1>3, <1>4, <1>5, <1>6, <1>7

LEMMA BothEndTogether ==
  ASSUME NEW t \in Seq(Byte)
  PROVE  Agree(t, Len(t))
<1> DEFINE D == {d \in Nat : d <= Len(t) /\ Agree(t, Len(t) - d)}
<1>1. Len(t) \in D
  <2>1. Len(t) \in Nat /\ Len(t) - Len(t) = 0
    OBVIOUS
  <2>2. Visiting(JsonSteps(t))[0] = At(<<>>) /\ Visiting(CharacterSteps(t))[0] = At(<<>>)
    <3>1. Len(JsonSteps(t)) \in Nat /\ Len(CharacterSteps(t)) \in Nat
      BY <2>1 DEF JsonSteps, CharacterSteps
    <3>2. QED
      BY <3>1, VisitingSteps
  <2>3. Agree(t, 0)
    BY <2>2, NothingShown DEF Agree
  <2>4. QED
    BY <2>1, <2>3
<1>2. PICK d \in D : \A e \in D : d <= e
  <2>1. D \subseteq Nat /\ D # {}
    BY <1>1
  <2> HIDE DEF D
  <2>2. QED
    BY <2>1, LeastNumber
<1>3. d \in Nat /\ d <= Len(t) /\ Agree(t, Len(t) - d) /\ Len(t) \in Nat
  BY <1>2
<1>4. d = 0
  <2>1. SUFFICES ASSUME d > 0 PROVE FALSE
    BY <1>3
  <2>2. Len(t) - d \in 0 .. Len(t) - 1
    BY <1>3, <2>1
  <2>3. PICK m \in Nat \ {0} :
          (Len(t) - d) + m <= Len(t) /\ Agree(t, (Len(t) - d) + m)
    BY <1>3, <2>2, NextAgrees
  <2>4. d - m \in Nat /\ d - m <= Len(t) /\ (Len(t) - d) + m = Len(t) - (d - m)
        /\ ~(d <= d - m)
    BY <1>3, <2>3
  <2>5. d - m \in D
    BY <2>3, <2>4
  <2> HIDE DEF D
  <2>6. QED
    BY <1>2, <2>4, <2>5
<1>5. Len(t) - 0 = Len(t)
  BY <1>3
<1>6. QED
  BY <1>3, <1>4, <1>5

LEMMA OutputIsShown ==
  ASSUME NEW t \in Seq(Byte)
  PROVE  Shown(appendJsonString(t), Characters(t))
<1>1. PICK o, x : /\ Shown(o, x)
                  /\ Visiting(JsonSteps(t))[Len(t)] = At(o)
                  /\ Visiting(CharacterSteps(t))[Len(t)] = At(x)
  BY BothEndTogether DEF Agree
<1>2. Len(JsonSteps(t)) = Len(t) /\ Len(CharacterSteps(t)) = Len(t)
  <2>1. Len(t) \in Nat
    OBVIOUS
  <2>2. QED
    BY <2>1 DEF JsonSteps, CharacterSteps
<1>3. At(o).out = o /\ At(x).out = x
  BY DEF At
<1>4. appendJsonString(t) = o
  BY <1>1, <1>2, <1>3 DEF appendJsonString, Visit
<1>5. Characters(t) = x
  BY <1>1, <1>2, <1>3 DEF Characters, Visit
<1>6. QED
  BY <1>1, <1>4, <1>5

LEMMA ShownIsAccepted ==
  ASSUME NEW o, NEW x, Shown(o, x)
  PROVE  IsUtf8(o) /\ JsonParse(o) = x
<1>1. o \in Seq(Byte)
  BY DEF Shown
<1>2. PICK u \in Seq(Nat) : ReadsAs(o, u) /\ ParsesTo(u, x) /\ SpellsOut(u, o)
  BY DEF Shown
<1>3. Starts(o, o) /\ Starts(u, u) /\ Len(o) \in Nat /\ Len(u) \in Nat
  BY <1>1, <1>2, LenProperties DEF Starts
<1>4. /\ Len(CharacterSteps(o)) = Len(o) /\ Len(ParseSteps(u)) = Len(u)
      /\ Len(Utf8Steps(u)) = Len(u)
  BY <1>3 DEF CharacterSteps, ParseSteps, Utf8Steps
<1>5. At(o).out = o /\ At(x).out = x /\ At(u).out = u
  BY DEF At
<1>6. Characters(o) = u
  <2>1. Visiting(CharacterSteps(o))[Len(o)] = At(u)
    BY <1>1, <1>2, <1>3 DEF ReadsAs
  <2>2. QED
    BY <1>4, <1>5, <2>1 DEF Characters, Visit
<1>7. JsonParse(o) = x
  <2>1. Visiting(ParseSteps(u))[Len(u)] = At(x)
    BY <1>2, <1>3 DEF ParsesTo
  <2>2. QED
    BY <1>4, <1>5, <1>6, <2>1 DEF JsonParse, Visit
<1>8. IsUtf8(o)
  <2>1. Visiting(Utf8Steps(u))[Len(u)] = At(o)
    BY <1>2, <1>3 DEF SpellsOut
  <2>2. QED
    BY <1>4, <1>5, <1>6, <2>1 DEF IsUtf8, Visit
<1>9. QED
  BY <1>7, <1>8

\* appendJsonString(): whatever bytes it is given, what it appends is UTF-8 and
\* the inside of a JSON string, and the browser makes of it the characters that
\* these bytes are.
THEOREM OutputIsAccepted ==
  ASSUME NEW t \in Seq(Byte)
  PROVE  /\ IsUtf8(appendJsonString(t))
         /\ JsonParse(appendJsonString(t)) = Characters(t)
         /\ \A k \in DOMAIN JsonParse(appendJsonString(t)) :
              JsonParse(appendJsonString(t))[k] # Refused
<1>1. Shown(appendJsonString(t), Characters(t))
  BY OutputIsShown
<1>2. IsUtf8(appendJsonString(t)) /\ JsonParse(appendJsonString(t)) = Characters(t)
  BY <1>1, ShownIsAccepted
<1>3. Characters(t) \in Seq(Nat)
  BY <1>1 DEF Shown
<1>4. ASSUME NEW k \in DOMAIN Characters(t) PROVE Characters(t)[k] # Refused
  <2>1. Characters(t)[k] \in Nat
    BY <1>3
  <2>2. QED
    BY <2>1 DEF Refused
<1>5. QED
  BY <1>2, <1>4

-----------------------------------------------------------------------------
(***************************************************************************)
(* What a job comes to.                                                    *)
(***************************************************************************)

\* A program's run takes its steps one after the other.
LEMMA ExecutingSteps ==
  ASSUME NEW program, NEW input, NEW budget \in Nat
  PROVE  /\ Executing(program, input, budget)[0] = Started(input)
         /\ \A k \in 1 .. budget :
              Executing(program, input, budget)[k]
                = Executes(program, Executing(program, input, budget)[k - 1])
<1> DEFINE lo == 0
           hi == budget
           first == Started(input)
           run == Executing(program, input, budget)
           step(before) == Executes(program, before)
           Is(g, n) ==
             g = [k \in lo .. n |-> IF k = lo THEN first ELSE step(g[k - 1])]
           S == {n \in lo .. hi : \E g : Is(g, n)}
           next(g, n) == [k \in lo .. n + 1 |-> IF k = n + 1 THEN step(g[n]) ELSE g[k]]
<1>1. lo \in Int /\ hi \in Int /\ lo <= hi
  OBVIOUS
<1>2. ASSUME \E g : Is(g, hi) PROVE Is(run, hi)
  BY <1>2, Zenon DEF Executing
<1> HIDE DEF lo, hi, first, run, step, Is, S, next
<1>3. Is([k \in lo .. lo |-> first], lo)
  BY <1>1 DEF Is
<1>4. lo \in S
  BY <1>1, <1>3 DEF S
<1>5. ASSUME NEW n \in lo .. hi - 1, NEW g, Is(g, n) PROVE Is(next(g, n), n + 1)
  BY <1>1, <1>5 DEF Is, next
<1>6. \A n \in lo .. hi - 1 : n \in S => n + 1 \in S
  BY <1>1, <1>5 DEF S
<1>7. \A n \in lo .. hi : n \in S
  BY <1>1, <1>4, <1>6, Induction, Zenon
<1>8. \E g : Is(g, hi)
  BY <1>1, <1>7 DEF S
<1>9. run[lo] = first /\ \A k \in lo + 1 .. hi : run[k] = step(run[k - 1])
  BY <1>1, <1>2, <1>8 DEF Is
<1>10. QED
  BY <1>9 DEF lo, hi, first, run, step

\* One that has ended stays as it is.
LEMMA EndedRunStays ==
  ASSUME NEW program, NEW input, NEW budget \in Nat, NEW k \in 0 .. budget,
         Executing(program, input, budget)[k].end # "running"
  PROVE  Executed(program, input, budget) = Executing(program, input, budget)[k]
<1> DEFINE run == Executing(program, input, budget)
           S == {n \in k .. budget : run[n] = run[k]}
<1>1. k \in S
  OBVIOUS
<1>2. ASSUME NEW n \in k .. budget - 1, n \in S PROVE n + 1 \in S
  <2>1. n + 1 \in 1 .. budget /\ n + 1 \in k .. budget /\ (n + 1) - 1 = n
    OBVIOUS
  <2>2. run[n + 1] = Executes(program, run[n])
    BY <2>1, ExecutingSteps
  <2>3. run[n] = run[k]
    BY <1>2
  <2>4. run[k].end # "running"
    OBVIOUS
  <2> HIDE DEF run
  <2>5. Executes(program, run[k]) = run[k]
    BY <2>4, Zenon DEF Executes
  <2>6. QED
    BY <2>1, <2>2, <2>3, <2>5 DEF S
<1>3. \A n \in k .. budget - 1 : n \in S => n + 1 \in S
  BY <1>2
<1>4. k \in Int /\ budget \in Int /\ budget \in k .. budget
  OBVIOUS
<1> HIDE DEF S
<1>5. \A n \in k .. budget : n \in S
  BY <1>1, <1>3, <1>4, Induction, Zenon
<1>6. QED
  BY <1>4, <1>5 DEF S, Executed

\* The first n bytes of a text.
LEMMA TakenIsAPrefix ==
  ASSUME NEW s \in Seq(Byte), NEW n \in Nat
  PROVE  /\ Taken(s, n) \in Seq(Byte)
         /\ Len(Taken(s, n)) = (IF n < Len(s) THEN n ELSE Len(s))
         /\ \A k \in 1 .. Len(Taken(s, n)) : Taken(s, n)[k] = s[k]
<1>1. PICK last \in Nat : last = (IF n < Len(s) THEN n ELSE Len(s))
  OBVIOUS
<1>2. \A k \in 1 .. last : s[k] \in Byte
  BY <1>1
<1>3. /\ SubSeq(s, 1, last) \in Seq(Byte) /\ Len(SubSeq(s, 1, last)) = last
      /\ \A k \in 1 .. last : SubSeq(s, 1, last)[k] = s[k]
  <2>1. /\ SubSeq(s, 1, last) \in Seq(Byte)
        /\ Len(SubSeq(s, 1, last)) = (IF 1 <= last THEN last - 1 + 1 ELSE 0)
        /\ \A k \in 1 .. last - 1 + 1 : SubSeq(s, 1, last)[k] = s[1 + k - 1]
    BY <1>2, SubSeqProperties
  <2>2. QED
    BY <2>1
<1>4. Taken(s, n) = SubSeq(s, 1, last)
  BY <1>1 DEF Taken
<1>5. QED
  BY <1>1, <1>3, <1>4

\* Two texts are the same if they have the same bytes.
LEMMA SameBytes ==
  ASSUME NEW s \in Seq(Byte), NEW u \in Seq(Byte), Len(s) = Len(u),
         \A k \in 1 .. Len(s) : s[k] = u[k]
  PROVE  s = u
BY SeqEqual

\* CappedSyscallProvider: what is kept of a text and of what follows it are the
\* first bytes of both together.
CapHolds(s, b) ==
  LET n == kMaxOutputBytes
      p == Taken(s, n) \o b
  IN  /\ p \in Seq(Byte) /\ s \o b \in Seq(Byte)
      /\ Len(p) > n => /\ SubSeq(p, 1, n) = Taken(s \o b, n)
                       /\ Len(s \o b) > n
      /\ ~(Len(p) > n) => /\ p = Taken(s \o b, n)
                          /\ Len(s \o b) > n <=> Len(s) > n

LEMMA CapKeepsThePrefix ==
  ASSUME NEW s \in Seq(Byte), NEW b \in Seq(Byte)
  PROVE  CapHolds(s, b)
<1>a. PICK n \in Nat : n = kMaxOutputBytes
  BY SessionAssumption
<1>b. PICK p : p = Taken(s, n) \o b
  OBVIOUS
<1>0. n = kMaxOutputBytes /\ p = Taken(s, n) \o b
  BY <1>a, <1>b
<1>1. PICK kept \in Seq(Byte) : kept = Taken(s, n)
  BY <1>0, TakenIsAPrefix
<1>2. /\ Len(kept) = (IF n < Len(s) THEN n ELSE Len(s))
      /\ \A k \in 1 .. Len(kept) : kept[k] = s[k]
  BY <1>1, TakenIsAPrefix
<1>3. /\ p \in Seq(Byte) /\ Len(p) = Len(kept) + Len(b)
      /\ \A k \in 1 .. Len(kept) + Len(b) :
           p[k] = (IF k <= Len(kept) THEN kept[k] ELSE b[k - Len(kept)])
  BY <1>0, <1>1, ConcatProperties
<1>4. PICK w \in Seq(Byte) : w = s \o b
  BY ConcatProperties
<1>5. /\ Len(w) = Len(s) + Len(b)
      /\ \A k \in 1 .. Len(s) + Len(b) :
           w[k] = (IF k <= Len(s) THEN s[k] ELSE b[k - Len(s)])
  BY <1>4, ConcatProperties
<1>6. Len(s) \in Nat /\ Len(b) \in Nat /\ Len(p) \in Nat /\ Len(w) \in Nat
      /\ Len(kept) \in Nat
  BY <1>3
<1>7. PICK shown \in Seq(Byte) : shown = Taken(w, n)
  BY TakenIsAPrefix
<1>8. /\ Len(shown) = (IF n < Len(w) THEN n ELSE Len(w))
      /\ \A k \in 1 .. Len(shown) : shown[k] = w[k]
  BY <1>7, TakenIsAPrefix
<1>9. Len(shown) <= Len(p) /\ \A k \in 1 .. Len(shown) : p[k] = w[k]
  <2>1. Len(shown) <= Len(p)
    BY <1>2, <1>3, <1>5, <1>6, <1>8
  <2>2. ASSUME NEW k \in 1 .. Len(shown) PROVE p[k] = w[k]
    <3>1. k \in 1 .. Len(kept) + Len(b) /\ k \in 1 .. Len(s) + Len(b)
      BY <1>3, <1>5, <1>6, <1>8, <2>1
    <3>2. CASE k <= Len(kept)
      BY <1>2, <1>3, <1>5, <1>6, <3>1, <3>2
    <3>3. CASE ~(k <= Len(kept))
      <4>1. Len(kept) = Len(s) /\ ~(k <= Len(s))
        BY <1>2, <1>6, <1>8, <3>3
      <4>2. QED
        BY <1>3, <1>5, <3>1, <3>3, <4>1
    <3>4. QED
      BY <3>2, <3>3
  <2>3. QED
    BY <2>1, <2>2
<1>10. CASE Len(p) > n
  <2>1. Len(w) > n
    BY <1>2, <1>3, <1>5, <1>6, <1>10
  <2>2. Len(shown) = n
    BY <1>6, <1>8, <2>1
  <2>3. PICK cut \in Seq(Byte) : cut = Taken(p, n)
    BY <1>3, TakenIsAPrefix
  <2>4. Len(cut) = n /\ \A k \in 1 .. n : cut[k] = p[k]
    BY <1>3, <1>6, <1>10, <2>3, TakenIsAPrefix
  <2>5. cut = SubSeq(p, 1, n)
    BY <1>6, <1>10, <2>3 DEF Taken
  <2>6. cut = shown
    <3>1. \A k \in 1 .. Len(cut) : cut[k] = shown[k]
      BY <1>8, <1>9, <2>2, <2>4
    <3>2. QED
      BY <2>2, <2>4, <3>1, SameBytes
  <2>7. QED
    BY <1>0, <1>3, <1>4, <1>7, <1>10, <2>1, <2>5, <2>6 DEF CapHolds
<1>11. CASE ~(Len(p) > n)
  <2>1. Len(w) > n <=> Len(s) > n
    BY <1>2, <1>3, <1>5, <1>6, <1>11
  <2>2. Len(shown) = Len(p)
    BY <1>2, <1>3, <1>5, <1>6, <1>8, <1>11
  <2>3. p = shown
    <3>1. \A k \in 1 .. Len(p) : p[k] = shown[k]
      BY <1>8, <1>9, <2>2
    <3>2. QED
      BY <1>3, <2>2, <3>1, SameBytes
  <2>4. QED
    BY <1>0, <1>3, <1>4, <1>7, <1>11, <2>1, <2>3 DEF CapHolds
<1>12. QED
  BY <1>10, <1>11

\* urlDecode() makes bytes of bytes.
LEMMA UrlStepsAreBytes ==
  ASSUME NEW t \in Seq(Byte), NEW i \in 1 .. Len(t)
  PROVE  UrlAt(t, i).bytes \in Seq(Byte) /\ UrlAt(t, i).length \in {1, 3}
<1>1. t[i] \in Byte
  OBVIOUS
<1>2. CASE t[i] = Plus
  <2>1. UrlAt(t, i) = [bytes |-> <<Space>>, length |-> 1]
    BY <1>2 DEF UrlAt
  <2>2. QED
    BY <2>1 DEF Space, Byte
<1>3. CASE /\ t[i] # Plus /\ t[i] = Percent /\ i + 2 <= Len(t)
           /\ hexDigit(t[i + 1]) >= 0 /\ hexDigit(t[i + 2]) >= 0
  <2>1. PICK h \in 0 .. 15 : h = hexDigit(t[i + 1])
    <3>1. t[i + 1] \in Byte
      BY <1>3
    <3>2. QED
      BY <1>3, <3>1 DEF hexDigit, NotADigit, Byte
  <2>2. PICK l \in 0 .. 15 : l = hexDigit(t[i + 2])
    <3>1. t[i + 2] \in Byte
      BY <1>3
    <3>2. QED
      BY <1>3, <3>1 DEF hexDigit, NotADigit, Byte
  <2>3. UrlAt(t, i) = [bytes |-> <<16 * h + l>>, length |-> 3]
    BY <1>3, <2>1, <2>2 DEF UrlAt
  <2>4. 16 * h + l \in Byte
    BY SMT DEF Byte
  <2>5. QED
    BY <2>3, <2>4
<1>4. CASE /\ t[i] # Plus
           /\ ~ /\ t[i] = Percent /\ i + 2 <= Len(t)
                /\ hexDigit(t[i + 1]) >= 0 /\ hexDigit(t[i + 2]) >= 0
  <2>1. UrlAt(t, i) = [bytes |-> <<t[i]>>, length |-> 1]
    BY <1>4, Zenon DEF UrlAt
  <2>2. QED
    BY <1>1, <2>1
<1>5. QED
  BY <1>2, <1>3, <1>4

LEMMA UrlDecodesToBytes ==
  ASSUME NEW t \in Seq(Byte)
  PROVE  urlDecode(t) \in Seq(Byte)
<1> DEFINE steps == UrlSteps(t)
           loop  == Visiting(steps)
           S == {k \in 0 .. Len(t) : loop[k].out \in Seq(Byte) /\ loop[k].skip \in Nat}
<1>1. Len(t) \in Nat /\ Len(steps) = Len(t)
      /\ \A k \in 1 .. Len(t) : steps[k] = UrlAt(t, k)
  <2>1. Len(t) \in Nat
    OBVIOUS
  <2>2. QED
    BY <2>1 DEF UrlSteps
<1> HIDE DEF steps
<1>2. /\ loop[0] = At(<<>>)
      /\ \A k \in 1 .. Len(t) : loop[k] = Visited(loop[k - 1], steps[k])
  BY <1>1, VisitingSteps
<1> HIDE DEF loop
<1>3. 0 \in S
  <2>1. loop[0].out = <<>> /\ loop[0].skip = 0
    BY <1>2 DEF At
  <2>2. PICK none \in Seq(Byte) : none = <<>>
    BY EmptySeq, Zenon
  <2>3. 0 \in 0 .. Len(t) /\ 0 \in Nat
    BY <1>1
  <2>4. QED
    BY <2>1, <2>2, <2>3
<1>4. ASSUME NEW k \in 0 .. Len(t) - 1, k \in S PROVE k + 1 \in S
  <2>1. k + 1 \in 1 .. Len(t) /\ k + 1 \in 0 .. Len(t) /\ (k + 1) - 1 = k
    BY <1>1
  <2>2. loop[k + 1] = Visited(loop[k], steps[k + 1])
    BY <1>2, <2>1
  <2>3. PICK o \in Seq(Byte), n \in Nat : o = loop[k].out /\ n = loop[k].skip
    BY <1>4
  <2>4. PICK e \in Seq(Byte), m \in {1, 3} :
          e = steps[k + 1].bytes /\ m = steps[k + 1].length
    BY <1>1, <2>1, UrlStepsAreBytes
  <2>5. o \o e \in Seq(Byte)
    BY ConcatProperties
  <2>6. CASE n > 0
    <3>1. loop[k + 1] = [out |-> o, skip |-> n - 1]
      BY <2>2, <2>3, <2>6 DEF Visited
    <3>2. QED
      BY <2>1, <2>6, <3>1
  <2>7. CASE n = 0
    <3>1. loop[k + 1] = [out |-> o \o e, skip |-> m - 1]
      BY <2>2, <2>3, <2>4, <2>7 DEF Visited
    <3>2. m - 1 \in Nat
      OBVIOUS
    <3>3. loop[k + 1].out = o \o e /\ loop[k + 1].skip = m - 1
      BY <3>1
    <3>4. QED
      BY <2>1, <2>5, <3>2, <3>3
  <2>8. QED
    BY <2>6, <2>7
<1>5. \A k \in 0 .. Len(t) - 1 : k \in S => k + 1 \in S
  BY <1>4
<1>6. 0 \in Int /\ Len(t) \in Int /\ Len(t) \in 0 .. Len(t)
  BY <1>1
<1> HIDE DEF S
<1>7. \A k \in 0 .. Len(t) : k \in S
  BY <1>3, <1>5, <1>6, Induction, Zenon
<1>8. loop[Len(t)].out \in Seq(Byte)
  BY <1>6, <1>7 DEF S
<1>9. QED
  BY <1>1, <1>8 DEF urlDecode, Visit, loop, steps

\* What the program of a request is to read.
Input(request) == queryValue(request.query, "stdin")

LEMMA InputIsBytes ==
  ASSUME NEW c \in Clients, NEW request \in Requests[c]
  PROVE  Input(request) \in Seq(Byte)
<1> DEFINE query == request.query
           pairs == {k \in 1 .. Len(query) : query[k].key = "stdin"}
<1>1. \A k \in 1 .. Len(query) : query[k].value \in Seq(Byte)
  BY HttpServerAssumption
<1>2. CASE pairs = {}
  BY <1>2 DEF Input, queryValue
<1>3. CASE pairs # {}
  <2> DEFINE first == CHOOSE k \in pairs : \A j \in pairs : k <= j
  <2>1. pairs \subseteq Nat
    OBVIOUS
  <2>2. first \in pairs
    <3> HIDE DEF pairs
    <3>1. \E k \in pairs : \A j \in pairs : k <= j
      BY <1>3, <2>1, LeastNumber
    <3>2. QED
      BY <3>1
  <2>3. urlDecode(query[first].value) \in Seq(Byte)
    <3>1. query[first].value \in Seq(Byte)
      BY <1>1, <2>2
    <3>2. QED
      BY <3>1, UrlDecodesToBytes
  <2>4. Input(request) = urlDecode(query[first].value)
    BY <1>3 DEF Input, queryValue
  <2>5. QED
    BY <2>3, <2>4
<1>4. QED
  BY <1>2, <1>3

LEMMA SubmittedIsProgram ==
  ASSUME NEW c \in Clients, NEW request \in Requests[c], NEW n \in Answered(request)
  PROVE  IsProgram(Submitted(request, n))
<1>1. /\ request.header \in Nat /\ request.length \in Nat /\ request.body \in Nat
      /\ \A level \in {"O0", "O1"} : \A k \in 0 .. request.body :
           IsProgram(request.program[level][k])
  BY HttpServerAssumption
<1>2. opt_level(request.query) \in {"O0", "O1"}
  BY DEF opt_level
<1>3. n - request.header \in 0 .. request.body
  BY <1>1 DEF Answered, Stream
<1>4. QED
  BY <1>1, <1>2, <1>3 DEF Submitted

-----------------------------------------------------------------------------
\* What a program does within the budget.
RunOf(program, input) == Executing(program, input, Budget)
Runnable(program) == program.assembles /\ program.links /\ program.loads

\* The machine and its provider are where the program should be by now.
Follows(program, input) ==
  LET run == RunOf(program, input)[machine.instructions] IN
  /\ run.end = "running" /\ run.steps = machine.instructions
  /\ run.at = machine.at /\ machine.at \in DOMAIN program.code
  /\ run.got = machine.memory /\ machine.memory \in Seq(Byte)
  /\ run.input = provider.input /\ provider.input \in Seq(Byte)
  /\ run.said \in Seq(Byte)
  /\ provider.output = Taken(run.said, kMaxOutputBytes)
  /\ provider.truncated <=> Len(run.said) > kMaxOutputBytes

\* A report, and the output it comes with, are those of the program's run.
Tells(program, input, made, output) ==
  /\ Runnable(program) =>
       LET run == RunOf(program, input)[Budget] IN
       /\ made.ok = (run.end = "halt")
       /\ made.instructions = run.steps
       /\ run.said \in Seq(Byte) /\ output = Taken(run.said, kMaxOutputBytes)
       /\ made.output_truncated <=> Len(run.said) > kMaxOutputBytes
  /\ ~Runnable(program) => made.ok = FALSE /\ output = <<>>

RunFollows(program, input) ==
  /\ job.phase \in {"Assemble", "Link", "Load"} =>
       machine = Booted /\ provider = NewProvider(input)
  /\ DOMAIN provider = {"input", "output", "error_output", "truncated"}
  /\ job.phase = "Execute" => Follows(program, input)
  /\ job.phase = "done" => Tells(program, input, report, report.output)

\* Nothing has been said yet.
LEMMA NothingTaken == Taken(<<>>, kMaxOutputBytes) = <<>>
<1>1. PICK none \in Seq(Byte) : none = <<>>
  BY EmptySeq, Zenon
<1>2. Len(none) = 0 /\ ~(kMaxOutputBytes < 0)
  BY <1>1, SessionAssumption
<1>3. Taken(none, kMaxOutputBytes) \in Seq(Byte) /\ Len(Taken(none, kMaxOutputBytes)) = 0
  BY <1>2, SessionAssumption, TakenIsAPrefix
<1>4. Taken(none, kMaxOutputBytes) = <<>>
  BY <1>3, EmptySeq
<1>5. QED
  BY <1>1, <1>4

\* Up to the run the machine is as it was booted.
LEMMA StagesFollow ==
  ASSUME NEW program, NEW input \in Seq(Byte), IsProgram(program), JobFits(program),
         RunFollows(program, input), Assemble \/ Link \/ Load
  PROVE  RunFollows(program, input)'
<1>1. /\ machine = Booted /\ provider = NewProvider(input) /\ UNCHANGED <<machine, provider>>
      /\ report = NewReport /\ job.program = program
      /\ DOMAIN job = {"phase", "program", "budget"}
      /\ DOMAIN provider = {"input", "output", "error_output", "truncated"}
  BY DEF RunFollows, JobFits, Assemble, Link, Load
<1>2. ASSUME NEW made, made.ok = FALSE, made.output = <<>>, Ends(made), ~Runnable(program)
      PROVE  RunFollows(program, input)'
  <2>1. job'.phase = "done" /\ report' = made
    BY <1>1, <1>2 DEF Ends
  <2>2. QED
    BY <1>1, <1>2, <2>1 DEF RunFollows, Tells
<1>3. CASE Assemble
  <2>1. CASE program.assembles
    <3>1. job'.phase = "Link"
      BY <1>1, <1>3, <2>1 DEF Assemble
    <3>2. QED
      BY <1>1, <3>1 DEF RunFollows
  <2>2. CASE ~program.assembles
    <3> DEFINE made == Failed([report EXCEPT !.diagnostics = {"at this line"}],
                              "Assemble", "semantic analysis failed")
    <3>1. Ends(made)
      BY <1>1, <1>3, <2>2 DEF Assemble
    <3>2. made.ok = FALSE /\ made.output = <<>>
      BY <1>1 DEF Failed, setError, NewReport
    <3> HIDE DEF made
    <3>3. QED
      BY <1>2, <2>2, <3>1, <3>2 DEF Runnable
  <2>3. QED
    BY <2>1, <2>2
<1>4. CASE Link
  <2>1. CASE program.links
    <3>1. job'.phase = "Load"
      BY <1>1, <1>4, <2>1 DEF Link
    <3>2. QED
      BY <1>1, <3>1 DEF RunFollows
  <2>2. CASE ~program.links
    <3> DEFINE made == Failed([report EXCEPT !.diagnostics = @ \cup {"link error"}],
                              "Link", "link error")
    <3>1. Ends(made)
      BY <1>1, <1>4, <2>2 DEF Link
    <3>2. made.ok = FALSE /\ made.output = <<>>
      BY <1>1 DEF Failed, setError, NewReport
    <3> HIDE DEF made
    <3>3. QED
      BY <1>2, <2>2, <3>1, <3>2 DEF Runnable
  <2>3. QED
    BY <2>1, <2>2
<1>5. CASE Load
  <2>1. CASE program.loads
    <3>1. job'.phase = "Execute" /\ Runnable(program)
      BY <1>1, <1>5, <2>1 DEF Load, JobFits, Runnable
    <3>2. RunOf(program, input)[0] = Started(input)
      BY BudgetType, ExecutingSteps DEF RunOf
    <3>3. machine'.instructions = 0 /\ machine'.at = 1 /\ machine'.memory = <<>>
      BY <1>1 DEF Booted
    <3>4. /\ provider'.input = input /\ provider'.output = <<>>
          /\ provider'.truncated = FALSE
      BY <1>1 DEF NewProvider
    <3>5. 1 \in DOMAIN program.code
      BY <3>1 DEF Runnable, IsProgram
    <3>6. PICK run : run = Started(input)
      OBVIOUS
    <3>7. /\ run.end = "running" /\ run.steps = 0 /\ run.at = 1 /\ run.got = <<>>
          /\ run.input = input /\ run.said = <<>>
      BY <3>6 DEF Started
    <3>8. <<>> \in Seq(Byte) /\ ~(Len(<<>>) > kMaxOutputBytes)
      BY SessionAssumption, EmptySeq
    <3>9. Follows(program, input)'
      BY <3>2, <3>3, <3>4, <3>5, <3>6, <3>7, <3>8, NothingTaken DEF Follows, RunOf
    <3>10. QED
      BY <1>1, <3>1, <3>9 DEF RunFollows
  <2>2. CASE ~program.loads
    <3> DEFINE made == Failed(report, "Load", "load error")
    <3>1. Ends(made)
      BY <1>1, <1>5, <2>2 DEF Load
    <3>2. made.ok = FALSE /\ made.output = <<>>
      BY <1>1 DEF Failed, setError, NewReport
    <3> HIDE DEF made
    <3>3. QED
      BY <1>2, <2>2, <3>1, <3>2 DEF Runnable
  <2>3. QED
    BY <2>1, <2>2
<1>6. QED
  BY <1>3, <1>4, <1>5

\* One more step of a program's run.
RunsOn(program, input, k, run, step, got) ==
  /\ k \in 0 .. Budget - 1 /\ run = RunOf(program, input)[k] /\ run.end = "running"
  /\ step = program.code[run.at]
  /\ got = (IF step.op = "read" THEN Taken(run.input, step.count) ELSE <<>>)

RunsTo(run, step, got, next) ==
  /\ next.at = (IF step.op = "loop" THEN 1 ELSE run.at + 1)
  /\ next.steps = run.steps + 1
  /\ next.input = SubSeq(run.input, Len(got) + 1, Len(run.input))
  /\ next.got = (IF step.op = "read" THEN got ELSE run.got)
  /\ next.said = run.said \o Said(step, run.got)
  /\ next.end = (IF step.op \in {"halt", "trap"} THEN step.op ELSE "running")

LEMMA StepOfRun ==
  ASSUME NEW program, NEW input, NEW k, NEW run, NEW step, NEW got,
         RunsOn(program, input, k, run, step, got)
  PROVE  RunsTo(run, step, got, RunOf(program, input)[k + 1])
<1> USE DEF RunsOn
<1>1. k + 1 \in 1 .. Budget /\ (k + 1) - 1 = k
  BY BudgetType
<1>2. RunOf(program, input)[k + 1] = Executes(program, RunOf(program, input)[k])
  BY <1>1, BudgetType, ExecutingSteps DEF RunOf
<1>3. QED
  <2>1. RunOf(program, input)[k + 1] = Executes(program, run)
    BY <1>2
  <2>0. PICK said : said = run.said \o Said(step, run.got)
    OBVIOUS
  <2>2. Executes(program, run) =
          [at    |-> IF step.op = "loop" THEN 1 ELSE run.at + 1,
           steps |-> run.steps + 1,
           input |-> SubSeq(run.input, Len(got) + 1, Len(run.input)),
           got   |-> IF step.op = "read" THEN got ELSE run.got,
           said  |-> said,
           end   |-> IF step.op \in {"halt", "trap"} THEN step.op ELSE "running"]
    <3>1. CASE step.op = "read"
      BY <2>0, <3>1 DEF Executes
    <3>2. CASE step.op # "read"
      BY <2>0, <3>2 DEF Executes
    <3>3. QED
      BY <3>1, <3>2
  <2> HIDE DEF RunsOn
  <2>3. PICK next : next = Executes(program, run)
    OBVIOUS
  <2>4. next.at = (IF step.op = "loop" THEN 1 ELSE run.at + 1)
    BY <2>2, <2>3
  <2>5. next.steps = run.steps + 1
    BY <2>2, <2>3
  <2>6. next.input = SubSeq(run.input, Len(got) + 1, Len(run.input))
    BY <2>2, <2>3
  <2>7. next.got = (IF step.op = "read" THEN got ELSE run.got)
    BY <2>2, <2>3
  <2>8. next.said = run.said \o Said(step, run.got)
    <3>1. next.said = said
      BY <2>2, <2>3
    <3>2. QED
      BY <2>0, <3>1, Zenon
  <2>9. next.end = (IF step.op \in {"halt", "trap"} THEN step.op ELSE "running")
    <3>1. CASE step.op \in {"halt", "trap"}
      BY <2>2, <2>3, <3>1
    <3>2. CASE step.op \notin {"halt", "trap"}
      BY <2>2, <2>3, <3>2
    <3>3. QED
      BY <3>1, <3>2
  <2>10. QED
    BY <2>1, <2>3, <2>4, <2>5, <2>6, <2>7, <2>8, <2>9 DEF RunsTo

\* All the bytes from the first to the last.
LEMMA WholeText ==
  ASSUME NEW s \in Seq(Byte)
  PROVE  SubSeq(s, Len(<<>>) + 1, Len(s)) = s
<1>1. Len(s) \in Nat /\ Len(<<>>) + 1 = 1
  OBVIOUS
<1>2. Taken(s, Len(s)) = SubSeq(s, 1, Len(s))
  BY <1>1 DEF Taken
<1>3. PICK w \in Seq(Byte) : w = Taken(s, Len(s))
  BY <1>1, TakenIsAPrefix
<1>4. Len(w) = Len(s) /\ \A k \in 1 .. Len(w) : w[k] = s[k]
  BY <1>1, <1>3, TakenIsAPrefix
<1>5. w = s
  BY <1>4, SameBytes
<1>6. QED
  BY <1>1, <1>2, <1>3, <1>5

\* The rest of a text.
LEMMA RestOfText ==
  ASSUME NEW s \in Seq(Byte), NEW n \in Nat, n <= Len(s)
  PROVE  SubSeq(s, n + 1, Len(s)) \in Seq(Byte)
<1>1. \A k \in n + 1 .. Len(s) : s[k] \in Byte
  OBVIOUS
<1>2. n + 1 \in Int /\ Len(s) \in Int
  OBVIOUS
<1>3. QED
  BY <1>1, <1>2, SubSeqProperties

ProviderFields == {"input", "output", "error_output", "truncated"}

\* What CappedSyscallProvider::invoke() does to what the call left.
LEMMA CappedFields ==
  ASSUME NEW p, DOMAIN p = ProviderFields
  PROVE  /\ DOMAIN Capped(p) = ProviderFields /\ Capped(p).input = p.input
         /\ Len(p.output) > kMaxOutputBytes =>
              /\ Capped(p).output = SubSeq(p.output, 1, kMaxOutputBytes)
              /\ Capped(p).truncated = TRUE
         /\ ~(Len(p.output) > kMaxOutputBytes) =>
              Capped(p).output = p.output /\ Capped(p).truncated = p.truncated
BY DEF Capped, ProviderFields

\* The state goes on as the program's run does.
GoesOn(got, bytes) ==
  /\ UNCHANGED job
  /\ machine'.instructions = machine.instructions + 1
  /\ machine'.at = (IF Step.op = "loop" THEN 1 ELSE machine.at + 1)
  /\ got = (IF Step.op = "read" THEN Taken(provider.input, Step.count) ELSE <<>>)
  /\ machine'.memory = (IF Step.op = "read" THEN got ELSE machine.memory)
  /\ DOMAIN provider' = ProviderFields
  /\ provider'.input = SubSeq(provider.input, Len(got) + 1, Len(provider.input))
  /\ bytes = Said(Step, machine.memory)
  /\ LET p == provider.output \o bytes IN
     /\ Len(p) > kMaxOutputBytes =>
          /\ provider'.output = SubSeq(p, 1, kMaxOutputBytes)
          /\ provider'.truncated = TRUE
     /\ ~(Len(p) > kMaxOutputBytes) =>
          provider'.output = p /\ provider'.truncated = provider.truncated

LEMMA RunGoesOn ==
  ASSUME NEW program, NEW input, IsProgram(program), JobFits(program),
         RunFollows(program, input), job.phase = "Execute",
         machine.instructions < Budget, Step.op \notin {"halt", "trap"},
         NEW got \in Seq(Byte), NEW bytes \in Seq(Byte), GoesOn(got, bytes)
  PROVE  RunFollows(program, input)'
<1> DEFINE k == machine.instructions
           next == RunOf(program, input)[k + 1]
<1>1. PICK run : run = RunOf(program, input)[k]
  OBVIOUS
<1>2. /\ k \in 0 .. Budget - 1 /\ job.program = program /\ Runnable(program)
  BY BudgetType DEF JobFits, Runnable
<1>3. /\ run.end = "running" /\ run.steps = k
      /\ run.at = machine.at /\ machine.at \in DOMAIN program.code
      /\ run.got = machine.memory /\ machine.memory \in Seq(Byte)
      /\ run.input = provider.input /\ provider.input \in Seq(Byte)
      /\ run.said \in Seq(Byte)
      /\ provider.output = Taken(run.said, kMaxOutputBytes)
      /\ provider.truncated <=> Len(run.said) > kMaxOutputBytes
  BY <1>1 DEF RunFollows, Follows
<1>4. Step = program.code[run.at]
  BY <1>2, <1>3 DEF Step
<1>5. got = (IF Step.op = "read" THEN Taken(run.input, Step.count) ELSE <<>>)
  BY <1>3 DEF GoesOn
<1>6. /\ next.at = (IF Step.op = "loop" THEN 1 ELSE run.at + 1)
      /\ next.steps = k + 1
      /\ next.input = SubSeq(run.input, Len(got) + 1, Len(run.input))
      /\ next.got = (IF Step.op = "read" THEN got ELSE run.got)
      /\ next.said = run.said \o Said(Step, run.got)
      /\ next.end = "running"
  <2>1. RunsOn(program, input, k, run, Step, got)
    BY <1>1, <1>2, <1>3, <1>4, <1>5 DEF RunsOn
  <2>2. RunsTo(run, Step, got, next)
    BY <2>1, StepOfRun, Zenon
  <2>3. QED
    BY <1>3, <2>2 DEF RunsTo
<1> HIDE DEF next
<1>7. machine'.at \in DOMAIN program.code /\ next.at = machine'.at
  BY <1>2, <1>3, <1>4, <1>6 DEF GoesOn, IsProgram, Runnable
<1>8. machine'.memory \in Seq(Byte) /\ next.got = machine'.memory
  BY <1>3, <1>6 DEF GoesOn
<1>9. provider'.input \in Seq(Byte) /\ next.input = provider'.input
  <2>1. Len(got) \in Nat /\ Len(got) <= Len(provider.input)
    <3>1. CASE Step.op = "read"
      <4>1. Step.count \in Nat
        BY <1>2, <1>3, <1>4, <3>1 DEF IsProgram, Runnable
      <4>2. got = Taken(provider.input, Step.count)
        BY <3>1 DEF GoesOn
      <4>3. QED
        BY <1>3, <4>1, <4>2, TakenIsAPrefix
    <3>2. CASE Step.op # "read"
      BY <1>3, <3>2 DEF GoesOn
    <3>3. QED
      BY <3>1, <3>2
  <2>2. provider'.input = SubSeq(provider.input, Len(got) + 1, Len(provider.input))
    BY DEF GoesOn
  <2>3. QED
    BY <1>3, <1>6, <2>1, <2>2, RestOfText
<1>10. /\ next.said \in Seq(Byte)
       /\ provider'.output = Taken(next.said, kMaxOutputBytes)
       /\ provider'.truncated <=> Len(next.said) > kMaxOutputBytes
  <2>1. PICK said \in Seq(Byte) : said = run.said
    BY <1>3
  <2>2. next.said = said \o bytes
    BY <1>3, <1>6, <2>1 DEF GoesOn
  <2>3. PICK p : p = Taken(said, kMaxOutputBytes) \o bytes
    OBVIOUS
  <2>4. /\ p \in Seq(Byte) /\ said \o bytes \in Seq(Byte)
        /\ Len(p) > kMaxOutputBytes =>
             /\ SubSeq(p, 1, kMaxOutputBytes) = Taken(said \o bytes, kMaxOutputBytes)
             /\ Len(said \o bytes) > kMaxOutputBytes
        /\ ~(Len(p) > kMaxOutputBytes) =>
             /\ p = Taken(said \o bytes, kMaxOutputBytes)
             /\ Len(said \o bytes) > kMaxOutputBytes <=> Len(said) > kMaxOutputBytes
    <3>1. CapHolds(said, bytes)
      BY CapKeepsThePrefix
    <3>2. QED
      BY <2>3, <3>1 DEF CapHolds
  <2>5. /\ Len(p) > kMaxOutputBytes =>
             /\ provider'.output = SubSeq(p, 1, kMaxOutputBytes)
             /\ provider'.truncated = TRUE
        /\ ~(Len(p) > kMaxOutputBytes) =>
             provider'.output = p /\ provider'.truncated = provider.truncated
    BY <1>3, <2>1, <2>3 DEF GoesOn
  <2>6. CASE Len(p) > kMaxOutputBytes
    BY <2>2, <2>4, <2>5, <2>6
  <2>7. CASE ~(Len(p) > kMaxOutputBytes)
    BY <1>3, <2>1, <2>2, <2>4, <2>5, <2>7
  <2>8. QED
    BY <2>6, <2>7
<1>11. machine'.instructions = k + 1
  BY DEF GoesOn
<1>12. Follows(program, input)'
  BY <1>6, <1>7, <1>8, <1>9, <1>10, <1>11 DEF Follows, RunOf, next
<1>13. job'.phase = "Execute" /\ DOMAIN provider' = ProviderFields
  BY DEF GoesOn
<1>14. QED
  BY <1>12, <1>13 DEF RunFollows, ProviderFields

\* A run that ended has the report it should have.
LEMMA RunEnds ==
  ASSUME NEW program, NEW input, JobFits(program), RunFollows(program, input),
         job.phase = "Execute", UNCHANGED provider,
         NEW made, Ends(made), made.output = provider.output,
         made.output_truncated = provider.truncated,
         \/ /\ machine.instructions < Budget /\ Step.op \in {"halt", "trap"}
            /\ made.ok = (Step.op = "halt")
            /\ made.instructions = machine.instructions + 1
         \/ /\ machine.instructions = Budget /\ made.ok = FALSE
            /\ made.instructions = machine.instructions
  PROVE  RunFollows(program, input)'
<1> DEFINE k == machine.instructions
           last == RunOf(program, input)[Budget]
<1>1. PICK run : run = RunOf(program, input)[k]
  OBVIOUS
<1>2. /\ k \in 0 .. Budget /\ job.program = program /\ Runnable(program)
      /\ DOMAIN job = {"phase", "program", "budget"}
  BY BudgetType DEF JobFits, Runnable
<1>3. /\ run.end = "running" /\ run.steps = k /\ run.at = machine.at
      /\ run.said \in Seq(Byte)
      /\ provider.output = Taken(run.said, kMaxOutputBytes)
      /\ provider.truncated <=> Len(run.said) > kMaxOutputBytes
  BY <1>1 DEF RunFollows, Follows
<1>4. /\ made.ok = (last.end = "halt")
      /\ made.instructions = last.steps
      /\ last.said = run.said
  <2>1. CASE k < Budget /\ Step.op \in {"halt", "trap"}
    <3> DEFINE next == RunOf(program, input)[k + 1]
    <3>1. PICK got : got = (IF Step.op = "read" THEN Taken(run.input, Step.count) ELSE <<>>)
      OBVIOUS
    <3>2. RunsOn(program, input, k, run, Step, got)
      <4>1. k \in 0 .. Budget - 1
        BY <1>2, <2>1, BudgetType
      <4>2. Step = program.code[run.at]
        BY <1>2, <1>3 DEF Step
      <4>3. QED
        BY <1>1, <1>3, <3>1, <4>1, <4>2 DEF RunsOn
    <3>3. RunsTo(run, Step, got, next)
      BY <3>2, StepOfRun, Zenon
    <3>4. next.end = Step.op /\ next.steps = k + 1
      BY <1>3, <2>1, <3>3 DEF RunsTo
    <3>5. next.said = run.said
      <4>1. next.said = run.said \o Said(Step, run.got)
        BY <3>3 DEF RunsTo
      <4>2. Said(Step, run.got) = <<>>
        BY <2>1 DEF Said
      <4>3. run.said \o <<>> = run.said
        BY <1>3, ConcatEmptySeq
      <4>4. QED
        BY <4>1, <4>2, <4>3
    <3>6. last = next
      <4>1. k + 1 \in 0 .. Budget /\ next.end # "running" /\ Budget \in Nat
        BY <1>2, <2>1, <3>4, BudgetType
      <4>2. Executed(program, input, Budget) = next
        BY <4>1, EndedRunStays DEF RunOf
      <4>3. QED
        BY <4>2 DEF Executed, RunOf
    <3> HIDE DEF next, last
    <3>7. made.ok = (Step.op = "halt") /\ made.instructions = k + 1
      BY <1>2, <2>1, BudgetType
    <3>8. QED
      BY <3>4, <3>5, <3>6, <3>7
  <2>2. CASE k = Budget /\ made.ok = FALSE /\ made.instructions = k
    BY <1>1, <1>3, <2>2
  <2>3. QED
    BY <2>1, <2>2, <1>2
<1> HIDE DEF last
<1>5. Tells(program, input, made, made.output)
  BY <1>2, <1>3, <1>4 DEF Tells, last
<1>6. job'.phase = "done" /\ report' = made
  BY <1>2 DEF Ends
<1>7. DOMAIN provider' = ProviderFields
  BY DEF RunFollows, ProviderFields
<1>8. Tells(program, input, report, report.output)'
  BY <1>5, <1>6 DEF Tells, RunOf
<1>9. QED
  BY <1>6, <1>7, <1>8 DEF RunFollows, ProviderFields

\* Every instruction takes the machine where the program's run goes.
LEMMA InstructionsFollow ==
  ASSUME NEW program, NEW input \in Seq(Byte), IsProgram(program), JobFits(program),
         RunFollows(program, input), Work \/ Loop \/ Write \/ Read
  PROVE  RunFollows(program, input)'
<1>1. /\ job.phase = "Execute" /\ UNCHANGED job /\ machine.instructions < Budget
      /\ job.program = program /\ Runnable(program)
      /\ DOMAIN machine = {"at", "instructions", "memory"}
      /\ DOMAIN provider = ProviderFields
  BY DEF Work, Loop, Write, Read, Running, JobFits, Runnable, RunFollows, ProviderFields
<1>2. PICK said \in Seq(Byte) :
        /\ provider.output = Taken(said, kMaxOutputBytes)
        /\ provider.input \in Seq(Byte) /\ machine.memory \in Seq(Byte)
        /\ machine.at \in DOMAIN program.code
  BY <1>1 DEF RunFollows, Follows
<1>3. PICK output \in Seq(Byte) : output = provider.output
  BY <1>2, SessionAssumption, TakenIsAPrefix
<1>4. ~(Len(output) > kMaxOutputBytes)
  BY <1>2, <1>3, SessionAssumption, TakenIsAPrefix
<1>5. PICK none \in Seq(Byte) : none = <<>>
  BY EmptySeq, Zenon
<1>6. /\ output \o none = output
      /\ SubSeq(provider.input, Len(none) + 1, Len(provider.input)) = provider.input
  BY <1>2, <1>5, ConcatEmptySeq, WholeText
<1>7. CASE Work \/ Loop
  <2>1. GoesOn(none, none)
    <3>1. /\ Step.op \in {"work", "loop"} /\ UNCHANGED provider
          /\ machine'.instructions = machine.instructions + 1
          /\ machine'.at = (IF Step.op = "loop" THEN 1 ELSE machine.at + 1)
          /\ machine'.memory = machine.memory
      BY <1>1, <1>7 DEF Work, Loop, Onwards, Counted
    <3>2. Said(Step, machine.memory) = none
      BY <1>5, <3>1 DEF Said
    <3>3. QED
      BY <1>1, <1>3, <1>4, <1>5, <1>6, <3>1, <3>2 DEF GoesOn
  <2>2. Step.op \notin {"halt", "trap"}
    BY <1>7 DEF Work, Loop
  <2>3. QED
    BY <1>1, <2>1, <2>2, RunGoesOn
<1>8. CASE Write
  <2>1. Step.op \in {"write", "echo"} /\ machine' = Onwards(machine)
    BY <1>8 DEF Write
  <2>2. PICK bytes \in Seq(Byte) :
          bytes = (IF Step.op = "write" THEN Step.bytes ELSE machine.memory)
    BY <1>1, <1>2, <2>1 DEF Step, IsProgram, Runnable
  <2>3. /\ machine'.instructions = machine.instructions + 1
        /\ machine'.at = machine.at + 1 /\ machine'.memory = machine.memory
    BY <1>1, <2>1 DEF Onwards, Counted
  <2>4. CASE Step.fd = 1
    <3>1. Said(Step, machine.memory) = bytes
      BY <2>1, <2>2, <2>4 DEF Said
    <3>2. PICK p : p = [provider EXCEPT !.output = @ \o bytes]
      OBVIOUS
    <3>3. /\ DOMAIN p = ProviderFields /\ p.output = provider.output \o bytes
          /\ p.input = provider.input /\ p.truncated = provider.truncated
      BY <1>1, <3>2 DEF ProviderFields
    <3>4. provider' = Capped(p)
      BY <1>8, <2>2, <2>4, <3>2 DEF Write, Writes
    <3>5. GoesOn(none, bytes)
      BY <1>1, <1>5, <1>6, <2>1, <2>3, <3>1, <3>3, <3>4, CappedFields DEF GoesOn
    <3>6. QED
      BY <1>1, <2>1, <3>5, RunGoesOn
  <2>5. CASE Step.fd # 1
    <3>1. Said(Step, machine.memory) = none
      BY <1>5, <2>5 DEF Said
    <3>2. PICK p : p = [provider EXCEPT !.error_output = @ \o bytes]
      OBVIOUS
    <3>3. /\ DOMAIN p = ProviderFields /\ p.output = output
          /\ p.input = provider.input /\ p.truncated = provider.truncated
      BY <1>1, <1>3, <3>2 DEF ProviderFields
    <3>4. provider' = Capped(p)
      BY <1>8, <2>2, <2>5, <3>2 DEF Write, Writes
    <3>5. /\ DOMAIN provider' = ProviderFields /\ provider'.input = provider.input
          /\ provider'.output = output /\ provider'.truncated = provider.truncated
      BY <1>4, <3>3, <3>4, CappedFields
    <3>6. GoesOn(none, none)
      BY <1>1, <1>3, <1>4, <1>5, <1>6, <2>1, <2>3, <3>1, <3>5 DEF GoesOn
    <3>7. QED
      BY <1>1, <2>1, <3>6, RunGoesOn
  <2>6. QED
    BY <2>4, <2>5
<1>9. CASE Read
  <2> DEFINE taken == Taken(provider.input, Step.count)
  <2>1. Step.op = "read" /\ machine' = [Onwards(machine) EXCEPT !.memory = taken]
    BY <1>9 DEF Read
  <2>2. Step.count \in Nat
    BY <1>1, <1>2, <2>1 DEF Step, IsProgram, Runnable
  <2>3. PICK got \in Seq(Byte) : got = taken
    BY <1>2, <2>2, TakenIsAPrefix
  <2>4. /\ machine'.instructions = machine.instructions + 1
        /\ machine'.at = machine.at + 1 /\ machine'.memory = got
    BY <1>1, <2>1, <2>3 DEF Onwards, Counted
  <2>5. PICK p : p = [provider EXCEPT !.input = SubSeq(@, Len(got) + 1, Len(@))]
    OBVIOUS
  <2>6. /\ DOMAIN p = ProviderFields /\ p.output = output
        /\ p.input = SubSeq(provider.input, Len(got) + 1, Len(provider.input))
        /\ p.truncated = provider.truncated
    BY <1>1, <1>3, <2>5 DEF ProviderFields
  <2>7. provider' = Capped(p)
    BY <1>9, <2>3, <2>5 DEF Read
  <2>8. /\ DOMAIN provider' = ProviderFields
        /\ provider'.input = SubSeq(provider.input, Len(got) + 1, Len(provider.input))
        /\ provider'.output = output /\ provider'.truncated = provider.truncated
    BY <1>4, <2>6, <2>7, CappedFields
  <2>9. Said(Step, machine.memory) = none
    BY <1>5, <2>1 DEF Said
  <2>10. GoesOn(got, none)
    BY <1>1, <1>3, <1>4, <1>6, <2>1, <2>3, <2>4, <2>8, <2>9 DEF GoesOn
  <2>11. QED
    BY <1>1, <2>1, <2>10, RunGoesOn
<1>10. QED
  BY <1>7, <1>8, <1>9

\* So does the end of the run, whichever it is.
LEMMA EndFollows ==
  ASSUME NEW program, NEW input, JobFits(program), RunFollows(program, input),
         Trap \/ BudgetExhausted \/ Halt
  PROVE  RunFollows(program, input)'
<1>1. /\ job.phase = "Execute" /\ UNCHANGED provider /\ report = NewReport
      /\ job.budget = Budget
  BY DEF Trap, BudgetExhausted, Halt, JobFits
<1>2. /\ report.diagnostics = {} /\ report.ok = FALSE
      /\ DOMAIN report = {"ok", "stage", "diagnostics", "error", "output",
                          "output_truncated", "instructions"}
  BY <1>1, NewReportFields
<1>3. CASE Trap
  <2> DEFINE made == Failed(Recorded(machine.instructions + 1), "Execute", "trap")
  <2>1. made.ok = FALSE /\ made.instructions = machine.instructions + 1
        /\ made.output = provider.output /\ made.output_truncated = provider.truncated
    BY <1>2 DEF Failed, setError, Recorded
  <2>2. Ends(made) /\ Step.op = "trap" /\ machine.instructions < Budget
    BY <1>1, <1>3 DEF Trap
  <2> HIDE DEF made
  <2>3. QED
    BY <1>1, <2>1, <2>2, RunEnds
<1>4. CASE BudgetExhausted
  <2> DEFINE made == Failed(Recorded(machine.instructions), "Execute", "budget exhausted")
  <2>1. made.ok = FALSE /\ made.instructions = machine.instructions
        /\ made.output = provider.output /\ made.output_truncated = provider.truncated
    BY <1>2 DEF Failed, setError, Recorded
  <2>2. Ends(made) /\ machine.instructions = Budget
    BY <1>1, <1>4 DEF BudgetExhausted
  <2> HIDE DEF made
  <2>3. QED
    BY <1>1, <2>1, <2>2, RunEnds
<1>5. CASE Halt
  <2> DEFINE made == [Recorded(machine.instructions + 1) EXCEPT !.ok = TRUE,
                                                                !.stage = "Finished"]
  <2>1. made.ok = TRUE /\ made.instructions = machine.instructions + 1
        /\ made.output = provider.output /\ made.output_truncated = provider.truncated
    BY <1>2 DEF Recorded
  <2>2. Ends(made) /\ Step.op = "halt" /\ machine.instructions < Budget
    BY <1>1, <1>5 DEF Halt
  <2> HIDE DEF made
  <2>3. QED
    BY <1>1, <2>1, <2>2, RunEnds
<1>6. QED
  BY <1>3, <1>4, <1>5

LEMMA JobFollows ==
  ASSUME NEW program, NEW input \in Seq(Byte), IsProgram(program), JobFits(program),
         RunFollows(program, input), SessionStep
  PROVE  RunFollows(program, input)'
BY StagesFollow, InstructionsFollow, EndFollows DEF SessionStep

-----------------------------------------------------------------------------
(***************************************************************************)
(* What the browser gets.                                                  *)
(***************************************************************************)

\* An answer to the first n bytes of a request tells what their program did.
TellsRun(request, n, answer) ==
  IF Runs(request, n)
    THEN /\ answer.report.ran = (answer.report.stage \in {"Execute", "Finished"})
         /\ \E output \in Seq(Byte) :
              /\ Tells(Submitted(request, n), Input(request), answer.report, output)
              /\ answer.output = appendJsonString(output)
    ELSE answer.output = <<>>

\* While the server serves a request, the job and the response are its program's.
HoldsRun ==
  /\ server = "run" => RunFollows(Submitted(Asked, received), Input(Asked))
  /\ server \in {"head", "body"} => TellsRun(Asked, received, response)

AnswersTell ==
  \A c \in Clients :
    client[c].answer # NoAnswer =>
      \E n \in Answered(client[c].request) :
        /\ FitsRequest(client[c].request, n, client[c].answer)
        /\ TellsRun(client[c].request, n, client[c].answer)

OutputInv == AnswerInv /\ HoldsRun /\ AnswersTell

\* The steps of the server that leave its job and its response alone.
LEMMA RunIsHeld ==
  ASSUME AnswerInv, HoldsRun, [Next]_vars,
         UNCHANGED <<session, server, peer, received, response>>
  PROVE  HoldsRun'
<1>1. CASE server \notin Serving
  BY <1>1 DEF HoldsRun, Serving
<1>2. CASE server \in Serving
  <2>1. Asked' = Asked
    BY <1>2, ClientsMove DEF AnswerInv, ServerInv, Asked
  <2>2. \A program, input : RunFollows(program, input) => RunFollows(program, input)'
    BY DEF RunFollows, session, Follows, Tells, RunOf
  <2>3. QED
    BY <2>1, <2>2 DEF HoldsRun
<1>3. QED
  BY <1>1, <1>2

LEMMA HoldsRunStays ==
  ASSUME AnswerInv, HoldsRun, [Next]_vars
  PROVE  HoldsRun'
<1>0. ASSUME server \in Serving, UNCHANGED peer
      PROVE  peer \in Clients /\ Asked' = Asked /\ Asked \in Requests[peer]
  BY <1>0, ClientsMove DEF AnswerInv, ServerInv, ClientInv, Asked
<1>1. CASE Setup \/ Close \/ Accept \/ Refuse \/ Disconnected \/ SendBody
  BY <1>1 DEF Setup, Opens, Close, Accept, Refuse, Disconnected, SendBody, HoldsRun
<1>2. CASE Receive
  BY <1>2 DEF Receive, HoldsRun
<1>3. CASE Dispatch
  <2>1. /\ server = "read" /\ UNCHANGED <<peer, received, client>>
        /\ received \in Answered(Asked)
    BY <1>3, WholeRequest DEF Dispatch, AnswerInv
  <2>2. peer \in Clients /\ Asked' = Asked
    BY <1>0, <2>1 DEF Serving
  <2>3. CASE Runs(Asked, received)
    <3> DEFINE body == received - Asked.header
    <3>1. /\ runSource(Submitted(Asked, received), body, Input(Asked),
                       kDefaultPlaygroundBudget)
          /\ server' = "run"
      BY <1>3, <2>3 DEF Dispatch, Runs, DueStatus, Submitted, Input
    <3>2. ~(body > kMaxSourceBytes)
      BY <2>3 DEF Runs, DueStatus, Status, IsRun
    <3>3. /\ job'.phase = "Assemble" /\ machine' = Booted
          /\ provider' = NewProvider(Input(Asked))
      BY <3>1, <3>2 DEF runSource
    <3>4. RunFollows(Submitted(Asked, received), Input(Asked))'
      BY <2>1, <2>2, <3>3 DEF RunFollows, NewProvider, Submitted, Input
    <3>5. QED
      BY <2>1, <2>2, <3>1, <3>4 DEF HoldsRun
  <2>4. CASE ~Runs(Asked, received)
    <3>1. response' = Plain(DueStatus(Asked, received)) /\ server' = "head"
      BY <1>3, <2>4 DEF Dispatch, Runs, DueStatus
    <3>2. TellsRun(Asked, received, response')
      BY <2>4, <3>1 DEF TellsRun, Plain
    <3>3. QED
      BY <2>1, <2>2, <3>1, <3>2 DEF HoldsRun
  <2>5. QED
    BY <2>3, <2>4
<1>4. CASE RunJob
  <2>1. /\ server = "run" /\ SessionStep
        /\ UNCHANGED <<server, peer, received, response, client>>
    BY <1>4 DEF RunJob, http
  <2>2. peer \in Clients /\ Asked' = Asked /\ Asked \in Requests[peer]
    BY <1>0, <2>1 DEF Serving
  <2>3. PICK input \in Seq(Byte) : input = Input(Asked)
    BY <2>2, InputIsBytes
  <2>10. PICK program : program = Submitted(Asked, received)
    OBVIOUS
  <2>4. JobFits(program) /\ RunFollows(program, input) /\ received \in Answered(Asked)
    BY <2>1, <2>3, <2>10 DEF AnswerInv, HoldsRequest, HoldsRun
  <2>5. IsProgram(program)
    BY <2>2, <2>4, <2>10, SubmittedIsProgram
  <2>6. RunFollows(program, input)'
    BY <2>1, <2>4, <2>5, JobFollows
  <2>7. Submitted(Asked, received)' = program /\ Input(Asked)' = input
    BY <2>1, <2>2, <2>3, <2>10 DEF Submitted, Input
  <2>8. RunFollows(Submitted(Asked, received), Input(Asked))'
    BY <2>6, <2>7 DEF RunFollows, Follows, Tells, RunOf
  <2>9. QED
    BY <2>1, <2>8 DEF HoldsRun
<1>5. CASE JobDone
  <2>1. /\ server = "run" /\ server' = "head" /\ response' = Report(report)
        /\ job.phase = "done" /\ UNCHANGED <<peer, received, client>>
    BY <1>5 DEF JobDone
  <2>2. peer \in Clients /\ Asked' = Asked /\ Asked \in Requests[peer]
    BY <1>0, <2>1 DEF Serving
  <2>3. PICK program, input : program = Submitted(Asked, received) /\ input = Input(Asked)
    OBVIOUS
  <2>4. Tells(program, input, report, report.output)
    BY <2>1, <2>3 DEF HoldsRun, RunFollows
  <2>5. /\ response'.report.ok = report.ok
        /\ response'.report.instructions = report.instructions
        /\ response'.report.output_truncated = report.output_truncated
        /\ response'.report.ran = (response'.report.stage \in {"Execute", "Finished"})
        /\ response'.output = appendJsonString(report.output)
    BY <2>1 DEF Report, toJson
  <2>6. report.output \in Seq(Byte)
    <3>1. CASE Runnable(program)
      BY <2>4, <3>1, SessionAssumption, TakenIsAPrefix DEF Tells
    <3>2. CASE ~Runnable(program)
      BY <2>4, <3>2, EmptySeq, Zenon DEF Tells
    <3>3. QED
      BY <3>1, <3>2
  <2>7. Tells(program, input, response'.report, report.output)
    BY <2>4, <2>5 DEF Tells
  <2>8. Runs(Asked, received)
    BY <2>1 DEF AnswerInv, HoldsRequest
  <2>9. TellsRun(Asked, received, response')
    BY <2>3, <2>5, <2>6, <2>7, <2>8 DEF TellsRun
  <2>10. QED
    BY <2>1, <2>2, <2>9 DEF HoldsRun
<1>6. CASE SendHead
  <2>1. /\ server = "head" /\ server' = "body"
        /\ UNCHANGED <<peer, received, response, client>>
    BY <1>6 DEF SendHead
  <2>2. Asked' = Asked
    BY <1>0, <2>1 DEF Serving
  <2>3. QED
    BY <2>1, <2>2 DEF HoldsRun
<1>7. CASE \E c \in Clients : ClientStep(c)
  BY <1>7, RunIsHeld DEF ClientStep, Connect, Send, LeaveHalfway, Goes
<1>8. CASE UNCHANGED vars
  BY <1>8, RunIsHeld DEF vars, http
<1>9. QED
  BY <1>1, <1>2, <1>3, <1>4, <1>5, <1>6, <1>7, <1>8 DEF Next, ServerStep

LEMMA AnswersTellStays ==
  ASSUME AnswerInv, HoldsRun, AnswersTell, [Next]_vars
  PROVE  AnswersTell'
<1> SUFFICES ASSUME NEW c \in Clients, client'[c].answer # NoAnswer
             PROVE  \E n \in Answered(client'[c].request) :
                      /\ FitsRequest(client'[c].request, n, client'[c].answer)
                      /\ TellsRun(client'[c].request, n, client'[c].answer)
  BY DEF AnswersTell
<1>1. client'[c].request = client[c].request
  BY ClientsMove DEF AnswerInv
<1>2. CASE client'[c].answer = client[c].answer
  BY <1>1, <1>2 DEF AnswersTell
<1>3. CASE c = peer /\ server = "body" /\ client'[c].answer = response
  <2>1. /\ received \in Answered(Asked) /\ FitsRequest(Asked, received, response)
        /\ TellsRun(Asked, received, response)
    BY <1>3 DEF AnswerInv, HoldsRequest, HoldsRun
  <2>2. QED
    BY <1>1, <1>3, <2>1 DEF Asked
<1>4. QED
  BY <1>2, <1>3, ClientsMove DEF AnswerInv

LEMMA OutputInvariant == Spec => []OutputInv
<1>1. Init => OutputInv
  <2> SUFFICES ASSUME Init PROVE OutputInv
    OBVIOUS
  <2>1. AnswerInv
    BY InitialAnswers
  <2>2. ASSUME NEW c \in Clients PROVE client[c].answer = NoAnswer
    <3>1. client[c] \in [state : {"away"}, request : UNION {Requests[d] : d \in Clients},
                         sent : {0}, answer : {NoAnswer}, reset : {FALSE}]
      BY DEF Init
    <3>2. QED
      BY <3>1
  <2>3. HoldsRun /\ AnswersTell
    BY <2>2 DEF Init, HoldsRun, AnswersTell
  <2>4. QED
    BY <2>1, <2>3 DEF OutputInv
<1>2. OutputInv /\ [Next]_vars => OutputInv'
  BY AnswersAreKept, HoldsRunStays, AnswersTellStays DEF OutputInv
<1>3. QED
  BY <1>1, <1>2, PTL DEF Spec

LEMMA NothingToAppend == appendJsonString(<<>>) = <<>>
<1>1. Len(JsonSteps(<<>>)) = 0
  BY DEF JsonSteps
<1>2. Visiting(JsonSteps(<<>>))[0] = At(<<>>)
  BY <1>1, VisitingSteps
<1>3. At(<<>>).out = <<>>
  BY DEF At
<1>4. QED
  BY <1>1, <1>2, <1>3 DEF appendJsonString, Visit

\* docs/playground.md, "The JSON contract": whatever programs the clients send,
\* whatever bytes these write and wherever the limit on output cuts them, the
\* output of every answer is UTF-8 and the inside of a JSON string.
THEOREM BrowserAlwaysAccepts == Spec => []BrowserAccepts
<1>1. OutputInv => BrowserAccepts
  <2> SUFFICES ASSUME OutputInv, NEW c \in Clients, client[c].answer # NoAnswer
               PROVE  LET output == client[c].answer.output IN
                      /\ IsUtf8(output)
                      /\ \A k \in DOMAIN JsonParse(output) : JsonParse(output)[k] # Refused
    BY DEF BrowserAccepts
  <2>1. PICK n \in Answered(client[c].request) :
          TellsRun(client[c].request, n, client[c].answer)
    BY DEF OutputInv, AnswersTell
  <2>2. \E t \in Seq(Byte) : client[c].answer.output = appendJsonString(t)
    <3>1. <<>> \in Seq(Byte) /\ appendJsonString(<<>>) = <<>>
      BY EmptySeq, NothingToAppend
    <3>2. QED
      BY <2>1, <3>1, Zenon DEF TellsRun
  <2>3. QED
    BY <2>2, OutputIsAccepted
<1>2. QED
  BY <1>1, OutputInvariant, PTL

\* An answer that fits a request and tells the run of its program is its answer.
LEMMA TellingAnswersAreAnswers ==
  ASSUME QueriesMeanWhatTheySay, NEW c \in Clients, NEW request \in Requests[c],
         NEW n, NEW answer, FitsRequest(request, n, answer), TellsRun(request, n, answer)
  PROVE  IsAnswer(request, n, answer)
<1> DEFINE status == IF request.line
                       THEN Status(request.method, request.path, n - request.header) ELSE 400
<1>1. status = DueStatus(request, n) /\ answer.status = status
  BY DEF DueStatus, FitsRequest
<1>2. CASE ~Runs(request, n)
  BY <1>1, <1>2, Zenon DEF IsAnswer, Runs, DueStatus
<1>3. CASE Runs(request, n)
  <2>1. PICK program, input : program = Submitted(request, n) /\ input = Input(request)
    OBVIOUS
  <2>2. Budget = kDefaultPlaygroundBudget
    BY HttpServerAssumption, SessionAssumption DEF Budget, Clamped
  <2>3. PICK due : due = Verdict(program, input, Budget)
    OBVIOUS
  <2>4. due = Verdict(request.program[request.level][n - request.header], request.typed,
                      kDefaultPlaygroundBudget)
    BY <2>1, <2>2, <2>3 DEF QueriesMeanWhatTheySay, Submitted, Input
  <2>5. PICK output \in Seq(Byte) :
          /\ Tells(program, input, answer.report, output)
          /\ answer.output = appendJsonString(output)
    BY <1>3, <2>1 DEF TellsRun
  <2>6. ReportFits(program, answer.report)
        /\ answer.report.ran = (answer.report.stage \in {"Execute", "Finished"})
    BY <1>3, <2>1 DEF FitsRequest, TellsRun
  <2>7. JsonParse(answer.output) = Characters(output)
    BY <2>5, OutputIsAccepted
  <2>8. /\ answer.report.ok = due.ok /\ answer.report.stage = due.stage
        /\ due.stage \in {"Execute", "Finished"} =>
             /\ answer.report.instructions = due.instructions
             /\ answer.report.output_truncated <=> Len(due.said) > kMaxOutputBytes
             /\ output = Taken(due.said, kMaxOutputBytes)
    <3>1. CASE Runnable(program)
      <4>1. PICK run : run = Executed(program, input, Budget)
        OBVIOUS
      <4>2. /\ due.ok = (run.end = "halt")
            /\ due.stage = (IF run.end = "halt" THEN "Finished" ELSE "Execute")
            /\ due.instructions = run.steps /\ due.said = run.said
        BY <2>3, <3>1, <4>1 DEF Verdict, Runnable
      <4>3. run = RunOf(program, input)[Budget]
        BY <4>1 DEF Executed, RunOf
      <4>4. /\ answer.report.ok = (run.end = "halt")
            /\ answer.report.instructions = run.steps
            /\ output = Taken(run.said, kMaxOutputBytes)
            /\ answer.report.output_truncated <=> Len(run.said) > kMaxOutputBytes
        BY <2>5, <3>1, <4>3 DEF Tells
      <4>5. QED
        BY <2>6, <3>1, <4>2, <4>4 DEF ReportFits, Runnable
    <3>2. CASE ~Runnable(program)
      <4>1. due.ok = FALSE /\ due.stage \in {"Assemble", "Link", "Load"}
        BY <2>3, <3>2 DEF Verdict, Runnable
      <4>2. answer.report.ok = FALSE
        BY <2>5, <3>2 DEF Tells
      <4>3. answer.report.stage = due.stage
        BY <2>3, <2>6, <3>2 DEF ReportFits, Runnable, Verdict
      <4>4. QED
        BY <4>1, <4>2, <4>3
    <3>3. QED
      BY <3>1, <3>2
  <2>9. QED
    BY <1>1, <2>4, <2>6, <2>7, <2>8 DEF IsAnswer, ReportFits
<1>4. QED
  BY <1>2, <1>3

\* Every answer is the one to its client's own request, whole, and with the
\* output that its program wrote: with the input the client typed and the level
\* it chose, as many instructions as the budget allows, the first bytes that fit
\* under the limit, and nothing of another client's job.
THEOREM AnswersAreAlwaysTheirOwn ==
  ASSUME QueriesMeanWhatTheySay
  PROVE  Spec => []AnswersAreTheirOwn
<1>1. OutputInv => AnswersAreTheirOwn
  <2> SUFFICES ASSUME OutputInv, NEW c \in Clients, client[c].answer # NoAnswer
               PROVE  \E n \in Answered(client[c].request) :
                        IsAnswer(client[c].request, n, client[c].answer)
    BY DEF AnswersAreTheirOwn
  <2>1. client[c].request \in Requests[c]
    BY DEF OutputInv, AnswerInv, ServerInv, ClientInv
  <2>2. PICK n \in Answered(client[c].request) :
          /\ FitsRequest(client[c].request, n, client[c].answer)
          /\ TellsRun(client[c].request, n, client[c].answer)
    BY DEF OutputInv, AnswersTell
  <2>3. IsAnswer(client[c].request, n, client[c].answer)
    BY <2>1, <2>2, TellingAnswersAreAnswers
  <2>4. QED
    BY <2>3
<1>2. QED
  BY <1>1, OutputInvariant, PTL

=============================================================================
