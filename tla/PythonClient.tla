------------------------------ MODULE PythonClient ------------------------------
(* The Python JSON-RPC clients (ipc/client.py) and the one-shot command line  *)
(* over them (ipc/rpc_cli.py), with the backend they talk to reduced to what  *)
(* a client sees of it: requests served one at a time and in order, progress  *)
(* lines before the answer of a streaming apply, an end of file when it goes. *)
(* A stdio client owns its backend: a child whose stderr is a pipe that       *)
(* nobody reads.  A socket client has a timeout on every read, and Python     *)
(* refuses every read of a stream that has once timed out.                    *)
EXTENDS Naturals, Sequences

CONSTANTS
  Methods,     \* the methods a user of the client calls
  MaxCalls,    \* bound: calls of one user
  MaxReports,  \* bound: progress lines of one apply
  StderrRoom   \* tracebacks the undrained stderr pipe of a child holds

Applies   == {"apply_updates", "apply_updates_stream"}
Streaming == "apply_updates_stream"

ASSUME ClientAssumption ==
  /\ Methods \subseteq Applies \union {"query", "shutdown"}
  /\ MaxCalls \in Nat \ {0} /\ MaxReports \in Nat /\ StderrRoom \in Nat

VARIABLES
  transport,  \* "stdio" or "socket"
  cli,        \* whether rpc_cli is the user: one call, then close
  at,         \* where the client is
  closing,    \* whether close() runs
  spent,      \* a read of the socket has timed out
  stuck,      \* an unsent request is left in the buffer of a broken stdin
  calls,      \* the calls made, numbered from 1 as _request_id numbers them
  requests,   \* lines sent and not yet read by the backend
  answers,    \* lines answered and not yet read by the client
  peer,       \* "up", "blocked" on its stderr, "exiting" or "gone"
  task,       \* the request the backend serves, 0 for none
  reports,    \* progress lines left to the streaming apply it serves
  noise,      \* tracebacks in the stderr pipe
  killed      \* the request that close() killed the backend in, 0 for none

conn == <<transport, cli, closing>>
wire == <<requests, answers>>
back == <<peer, task, reports, noise>>
vars == <<conn, at, spent, stuck, calls, wire, back, killed>>

Reading == {"line", "stream"}
Ends    == {"pending", "returned", "refused", "unexpected", "empty", "timeout",
            "abandoned", "broken"}
Message == [of : Nat \ {0}, kind : {"progress", "result", "error"}]
Call    == [method : Methods \union {"shutdown"}, end : Ends, of : Nat]

TypeOK ==
  /\ transport \in {"stdio", "socket"} /\ cli \in BOOLEAN /\ closing \in BOOLEAN
  /\ at \in Reading \union {"new", "idle", "hangup", "waiting", "closed", "broken"}
  /\ spent \in BOOLEAN /\ stuck \in BOOLEAN
  /\ calls \in Seq(Call) /\ requests \in Seq(1..Len(calls)) /\ answers \in Seq(Message)
  /\ peer \in {"up", "blocked", "exiting", "gone"}
  /\ task \in 0..Len(calls) /\ killed \in 0..Len(calls)
  /\ reports \in 0..MaxReports /\ noise \in 0..StderrRoom

(* resolve_ipc_port: a variable that is set hides the file, even when it is  *)
(* no number.                                                                *)
ResolveIpcPort(env, file) ==
  IF env # "unset" THEN env ELSE file

(* get_client: no port, or port 0, means a backend of one's own.             *)
GetClient(arg, env, file) ==
  LET port == IF arg # "unset" THEN arg ELSE ResolveIpcPort(env, file)
  IN  IF port = "port" THEN "socket" ELSE "stdio"

Init ==
  /\ \E arg \in {"unset", "zero", "port"}, env, file \in {"unset", "invalid", "zero", "port"} :
        transport = GetClient(arg, env, file)
  /\ cli \in BOOLEAN /\ at = "new" /\ closing = FALSE
  /\ spent = FALSE /\ stuck = FALSE /\ calls = <<>>
  /\ requests = <<>> /\ answers = <<>>
  /\ peer = "gone" /\ task = 0 /\ reports = 0 /\ noise = 0 /\ killed = 0

(* start spawns the backend; connect finds a server listening, or does not.  *)
Open ==
  /\ at = "new"
  /\ \/ at' = "idle" /\ peer' = "up"
     \/ transport = "socket" /\ at' = "closed" /\ UNCHANGED peer
  /\ UNCHANGED <<conn, spent, stuck, calls, wire, task, reports, noise, killed>>

Running == peer \in {"up", "blocked"}

(* call: number the request, write it, go and read.  A broken stdin raises   *)
(* at once and keeps the line; a dying peer may take it all the same.        *)
Send(method) ==
  LET id == Len(calls) + 1
      new(end) == calls' = Append(calls, [method |-> method, end |-> end, of |-> 0])
  IN  \/ /\ Running
         /\ new("pending") /\ requests' = Append(requests, id)
         /\ at' = IF method = Streaming THEN "stream" ELSE "line"
         /\ UNCHANGED stuck
      \/ /\ ~Running /\ (transport = "socket" \/ peer = "exiting")
         /\ new("pending")
         /\ at' = IF method = Streaming THEN "stream" ELSE "line"
         /\ UNCHANGED <<requests, stuck>>
      \/ /\ ~Running
         /\ new("broken") /\ stuck' = (transport = "stdio")
         /\ at' = IF closing' THEN "hangup" ELSE "idle"
         /\ UNCHANGED requests

CallMethod ==
  /\ at = "idle" /\ Len(calls) < IF cli THEN 1 ELSE MaxCalls
  /\ closing' = closing
  /\ \E method \in Methods : Send(method)
  /\ UNCHANGED <<transport, cli, spent, answers, back, killed>>

Return(end, of) ==
  /\ calls' = [calls EXCEPT ![Len(calls)] = [method |-> @.method, end |-> end, of |-> of]]
  /\ at' = IF closing THEN "hangup" ELSE "idle"

(* A call that is not streaming takes the next line for its answer.          *)
TakeLine(m) == Return(IF m.kind = "error" THEN "refused" ELSE "returned", m.of)

ReadLine ==
  /\ at = "line" /\ ~spent /\ answers # <<>>
  /\ TakeLine(Head(answers)) /\ answers' = Tail(answers)
  /\ UNCHANGED <<conn, spent, stuck, requests, back, killed>>

\* Slip: the reader goes on from a progress line to the id check.
SkipProgressNot == Return("unexpected", 0)

(* _read_stream_response: the callback sees a progress line and may raise.   *)
SkipProgress == at' = at /\ calls' = calls

ReadProgress ==
  /\ at = "stream" /\ ~spent /\ answers # <<>> /\ Head(answers).kind = "progress"
  /\ SkipProgress \/ Return("abandoned", 0)
  /\ answers' = Tail(answers)
  /\ UNCHANGED <<conn, spent, stuck, requests, back, killed>>

\* Slip: the id compared is that of the next request.
TakeStreamedNext(m) ==
  IF m.of = Len(calls) + 1 THEN TakeLine(m) ELSE Return("unexpected", m.of)

TakeStreamed(m) ==
  IF m.of = Len(calls) THEN TakeLine(m) ELSE Return("unexpected", m.of)

ReadStreamed ==
  /\ at = "stream" /\ ~spent /\ answers # <<>> /\ Head(answers).kind # "progress"
  /\ TakeStreamed(Head(answers)) /\ answers' = Tail(answers)
  /\ UNCHANGED <<conn, spent, stuck, requests, back, killed>>

\* Slip: the stream reader skips empty lines.
ReadEndSkipped ==
  /\ at = "line" /\ ~spent /\ answers = <<>> /\ ~Running
  /\ Return("empty", 0)
  /\ UNCHANGED <<conn, spent, stuck, wire, back, killed>>

ReadEnd ==
  /\ at \in Reading /\ ~spent /\ answers = <<>> /\ ~Running
  /\ Return("empty", 0)
  /\ UNCHANGED <<conn, spent, stuck, wire, back, killed>>

\* Slip: a stream that timed out is read again.
ExpireNot == spent' = spent

(* Only a socket read gives up; after that every read raises at once.        *)
Expire == spent' = TRUE

ReadTimesOut ==
  /\ at \in Reading /\ transport = "socket"
  /\ spent \/ (answers = <<>> /\ Running)
  /\ Expire /\ Return("timeout", 0)
  /\ UNCHANGED <<conn, stuck, wire, back, killed>>

(* close of a stdio client: ask a backend that has not been seen to end to   *)
(* shut down, and read one line whatever it is.                              *)
Close ==
  /\ at = "idle" /\ transport = "stdio" /\ (cli => calls # <<>>)
  /\ closing' = TRUE
  /\ \/ peer # "gone" /\ Send("shutdown")
     \/ peer = "gone" /\ at' = "hangup" /\ UNCHANGED <<calls, requests, stuck>>
  /\ UNCHANGED <<transport, cli, spent, answers, back, killed>>

CloseSocket ==
  /\ at = "idle" /\ transport = "socket" /\ (cli => calls # <<>>)
  /\ at' = "closed"
  /\ UNCHANGED <<conn, spent, stuck, calls, wire, back, killed>>

(* stdin.close flushes once more: with an unsent line it raises again, and   *)
(* _proc stays.                                                              *)
CloseStdin ==
  /\ at = "hangup"
  /\ at' = IF stuck THEN "broken" ELSE "waiting"
  /\ UNCHANGED <<conn, spent, stuck, calls, wire, back, killed>>

Reap ==
  /\ at = "waiting" /\ peer = "gone"
  /\ at' = "closed"
  /\ UNCHANGED <<conn, spent, stuck, calls, wire, back, killed>>

\* Slip: the backend that outlived the wait is left alone.
KillNot ==
  /\ at = "waiting" /\ Running /\ (peer = "up" => task # 0 \/ requests # <<>>)
  /\ at' = "closed"
  /\ UNCHANGED <<conn, spent, stuck, calls, wire, back, killed>>

(* wait(timeout) runs out on a backend that still works.                     *)
Kill ==
  /\ at = "waiting" /\ Running /\ (peer = "up" => task # 0 \/ requests # <<>>)
  /\ peer' = "gone" /\ task' = 0 /\ reports' = 0 /\ killed' = task
  /\ at' = "closed"
  /\ UNCHANGED <<conn, spent, stuck, calls, wire, noise>>

\* ------------------------------------------------------------------ the backend

Method(id) == calls[id].method

PeerTakes ==
  /\ peer = "up" /\ task = 0 /\ requests # <<>>
  /\ task' = Head(requests) /\ requests' = Tail(requests)
  /\ reports' \in IF Method(task') = Streaming THEN 0..MaxReports ELSE {0}
  /\ UNCHANGED <<conn, at, spent, stuck, calls, answers, peer, noise, killed>>

PeerReports ==
  /\ peer = "up" /\ task # 0 /\ reports > 0
  /\ answers' = Append(answers, [of |-> task, kind |-> "progress"])
  /\ reports' = reports - 1
  /\ UNCHANGED <<conn, at, spent, stuck, calls, requests, peer, task, noise, killed>>

(* An answer: a result, a refusal, or the error of a handler that raised.    *)
Answer(kind) ==
  /\ peer' = IF Method(task) = "shutdown" THEN "exiting" ELSE "up"
  /\ answers' = Append(answers, [of |-> task, kind |-> kind])
  /\ task' = 0 /\ reports' = 0

PeerAnswers ==
  /\ peer = "up" /\ task # 0 /\ reports = 0
  /\ \E kind \in IF Method(task) = "shutdown" THEN {"result"} ELSE {"result", "error"} :
        Answer(kind)
  /\ UNCHANGED <<conn, at, spent, stuck, calls, requests, noise, killed>>

(* log.exception writes the traceback before the error is answered.          *)
PeerRaises ==
  /\ peer = "up" /\ task # 0 /\ Method(task) # "shutdown"
  /\ \/ transport = "socket" /\ Answer("error") /\ UNCHANGED noise
     \/ transport = "stdio" /\ noise < StderrRoom /\ noise' = noise + 1 /\ Answer("error")
     \/ /\ transport = "stdio" /\ noise = StderrRoom
        /\ peer' = "blocked" /\ UNCHANGED <<answers, task, reports, noise>>
  /\ UNCHANGED <<conn, at, spent, stuck, calls, requests, killed>>

(* End of input, after what was sent; the client also hangs up when it dies. *)
PeerSeesEnd ==
  /\ peer = "up" /\ task = 0 /\ requests = <<>> /\ at \in {"waiting", "closed"}
  /\ peer' = "exiting"
  /\ UNCHANGED <<conn, at, spent, stuck, calls, wire, task, reports, noise, killed>>

PeerExits ==
  /\ peer = "exiting" /\ peer' = "gone" /\ requests' = <<>>
  /\ UNCHANGED <<conn, at, spent, stuck, calls, answers, task, reports, noise, killed>>

(* The backend process dies, or the server's machine closes the connection.  *)
PeerDies ==
  /\ Running /\ at # "new"
  /\ peer' = "exiting" /\ task' = 0 /\ reports' = 0
  /\ UNCHANGED <<conn, at, spent, stuck, calls, wire, noise, killed>>

PeerServes ==
  PeerTakes \/ PeerReports \/ PeerAnswers \/ PeerRaises \/ PeerSeesEnd \/ PeerExits
ClientReads == ReadLine \/ ReadProgress \/ ReadStreamed \/ ReadEnd
ClientCloses == CloseStdin \/ Reap \/ Kill

Next ==
  \/ Open \/ CallMethod \/ ClientReads \/ ReadTimesOut \/ Close \/ CloseSocket
  \/ ClientCloses \/ PeerServes \/ PeerDies

Spec == Init /\ [][Next]_vars

(* The client's thread and the backend run; the user need not ever call.     *)
FairSpec == Spec /\ WF_vars(ClientReads \/ ClientCloses) /\ WF_vars(PeerServes)
                 /\ WF_vars(ReadTimesOut /\ spent)

\* ------------------------------------------------------------------- properties

(* What a call returns or raises as the backend's error was answered to its  *)
(* own request: always for a streaming call and for rpc_cli, and for any     *)
(* other call unless the callback of an earlier stream raised and left that  *)
(* stream's lines unread.  Only the stream reader compares ids               *)
(* (client.py:107); elsewhere a late answer is kept from the next caller     *)
(* because a timed-out stream cannot be read again.                          *)
AnswerIsOwn ==
  \A i \in 1..Len(calls) :
    (calls[i].end \in {"returned", "refused"} /\ calls[i].of # i) =>
      /\ calls[i].method # Streaming /\ (cli => i = 2)
      /\ \E j \in 1..(i - 1) : calls[j].end = "abandoned"

(* A stdio client that has closed leaves no backend behind; when close()     *)
(* raised instead, the backend had gone before and only was not waited for.  *)
(* And close() kills its backend in the middle of a request only when a      *)
(* callback had raised out of a stream: otherwise the call that close()      *)
(* makes has waited for it.                                                  *)
CloseIsClean ==
  /\ (transport = "stdio" /\ at = "closed") => peer = "gone"
  /\ (transport = "stdio" /\ at = "broken") => ~Running
  /\ killed # 0 => \E j \in 1..Len(calls) : calls[j].end = "abandoned"

(* run_rpc: 0 with the result printed; an exception that close() raises      *)
(* replaces the 0.                                                           *)
ExitCode == IF at = "closed" /\ calls # <<>> /\ calls[1].end = "returned" THEN 0 ELSE 1

(* rpc_cli exits 0 only with the answer to its request; it exits 1 only when *)
(* the backend refused, went without answering, was given up on, or broke    *)
(* the pipe while it was being closed.                                       *)
CliExitIsHonest ==
  cli /\ calls # <<>> /\ at \in {"closed", "broken"} =>
    /\ ExitCode = 0 => calls[1].of = 1
    /\ ExitCode = 1 =>
         \/ at = "broken"
         \/ calls[1].end \in {"timeout", "abandoned", "broken"}
         \/ calls[1].end = "refused" /\ calls[1].of = 1
         \/ calls[1].end = "empty" /\ ~Running

(* Every call ends, whatever the backend does, unless the tracebacks that    *)
(* nobody reads have filled the backend's stderr: then both wait for good.   *)
CallsEnd == (at \in Reading) ~> (at \notin Reading \/ peer = "blocked")

\* ------------------------------------------------------- the inductive invariant

AnyAbandoned == \E j \in 1..Len(calls) : calls[j].end = "abandoned"

(* Where the client is, and what it keeps of its transport.                  *)
ClientInv ==
  /\ at = "new" => calls = <<>> /\ requests = <<>> /\ answers = <<>> /\ peer = "gone" /\ ~stuck
  /\ closing => transport = "stdio" /\ at \notin {"new", "idle"}
  /\ (transport = "stdio" /\ at \in {"hangup", "waiting", "closed", "broken"}) => closing
  /\ at \in {"hangup", "waiting", "broken"} => transport = "stdio"
  /\ (transport = "stdio" /\ at = "closed") => peer = "gone"
  /\ spent => transport = "socket"
  /\ stuck => ~Running
  /\ at = "broken" => stuck
  /\ cli => Len(calls) <= 2 /\ (~closing => Len(calls) <= 1)

(* Only the last call may be pending, and it is while the client reads.      *)
CallInv ==
  /\ at \in Reading => calls # <<>> /\ calls[Len(calls)].end = "pending"
  /\ at = "line" => calls[Len(calls)].method # Streaming
  /\ at = "stream" => calls[Len(calls)].method = Streaming
  /\ \A i \in 1..Len(calls) : calls[i].end = "pending" => i = Len(calls) /\ at \in Reading
  /\ \A i \in 1..Len(calls) : calls[i].end = "empty" => ~Running
  /\ \A i \in 1..Len(calls) : calls[i].end = "unexpected" =>
       \E j \in 1..(i - 1) : calls[j].end = "abandoned"

BackInv ==
  /\ ~Running => task = 0 /\ reports = 0
  /\ peer = "blocked" => task # 0
  /\ reports # 0 => task # 0 /\ Method(task) = Streaming

(* As long as no stream was left and no read timed out, one request is under *)
(* way while the client reads, and none while it does not.                   *)
FlowInv ==
  /\ at \notin Reading => answers = <<>> /\ (Running => requests = <<>> /\ task = 0)
  /\ at \in Reading =>
       /\ \A k \in 1..Len(answers) :
            /\ answers[k].of = Len(calls)
            /\ answers[k].kind = "progress" => at = "stream"
            /\ answers[k].kind # "progress" =>
                 k = Len(answers) /\ (Running => requests = <<>> /\ task = 0)
       /\ Running /\ requests # <<>> => requests = <<Len(calls)>> /\ task = 0 /\ answers = <<>>
       /\ Running /\ task # 0 => task = Len(calls)

Inv ==
  /\ TypeOK /\ ClientInv /\ CallInv /\ BackInv
  /\ AnyAbandoned \/ spent \/ FlowInv
  /\ AnswerIsOwn
  /\ killed # 0 => AnyAbandoned
=============================================================================
