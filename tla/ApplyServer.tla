------------------------------ MODULE ApplyServer ------------------------------
(***************************************************************************)
(* The JSON-RPC backend (backend/veripatch/ipc/server.py and               *)
(* socket_server.py): one thread and one JsonRpcServer per connection, the *)
(* gate before a real apply, the applies of all the connections on one     *)
(* machine, and clients that send several lines ahead and leave at will.   *)
(* With one session it is also the server on stdin and stdout.             *)
(*                                                                         *)
(* An apply is what UpdaterApply shows of it: lines to pass on, changes to *)
(* the machine unless it is a dry-run, and a result or an exception.       *)
(***************************************************************************)
EXTENDS Integers, Sequences, FiniteSets, Ranks

CONSTANTS
  Session,     \* the connections
  Request,     \* the lines a client may send, see RequestAssumption
  MaxSent,     \* bound of the model: lines one client sends
  MaxProgress  \* bound of the model: progress lines of one apply

\* "query" stands for the methods that only answer: ping, detect_os, list_sources,
\* check_updates, diagnostics, request_elevation.
\* "unknown" is a name no handler has, "unhashable" a list or an object in its place.
Methods == {"query", "shutdown", "apply_updates", "apply_updates_stream", "unknown", "unhashable"}

\* The lines a session ends on, with no answer: bytes that are no UTF-8, JSON nested
\* too deeply for the parser, and a method that no table can be searched for.
Fatal == {"undecodable", "too deep", "unhashable"}

\* A line: blank, not a request, or a request; an absent flag is its default.
Lines == [method : Methods \union Fatal \union {"blank", "invalid"}, dry : BOOLEAN, confirm : BOOLEAN,
          token : BOOLEAN, only : {"unset", "empty", "some"}, skip : BOOLEAN]

ASSUME RequestAssumption == Request \subseteq Lines
ASSUME BoundAssumption   == MaxSent \in Nat /\ MaxProgress \in Nat

VARIABLES
  elevated,  \* is_elevated() of the backend process
  sent,      \* the lines each client has sent; a request's id is its place
  gone,      \* the clients that closed their end
  got,       \* how many lines each session has read
  state,     \* "reading", "handling", "admitted", "applying", "answering", "ended"
  reply,     \* the response being written
  out,       \* the messages written on each connection
  count,     \* request_count
  stopping,  \* _shutdown_requested
  orphan,    \* real applies over for the server, with a command or its helper still running
  changed,   \* the requests on whose behalf the machine was changed (history)
  audit      \* .veripatch/audit.log, shared by all

clientVars == <<sent, gone>>
vars == <<elevated, clientVars, got, state, reply, out, count, stopping, orphan, changed, audit>>

Message(kind, id, served) == [kind |-> kind, id |-> id, served |-> served]
NoReply == Message("none", 0, 0)

Current(s)  == sent[s][got[s]]
RequestOf(r) == sent[r.session][r.id]
Here(s)     == [session |-> s, id |-> got[s]]
Log(s, event) == audit' = Append(audit, [session |-> s, id |-> got[s], event |-> event])

Init ==
  /\ elevated \in BOOLEAN
  /\ sent = [s \in Session |-> <<>>] /\ gone = {}
  /\ got = [s \in Session |-> 0]
  /\ state = [s \in Session |-> "reading"]
  /\ reply = [s \in Session |-> NoReply]
  /\ out = [s \in Session |-> <<>>]
  /\ count = [s \in Session |-> 0]
  /\ stopping = {} /\ orphan = {} /\ changed = {} /\ audit = <<>>

-----------------------------------------------------------------------------
(* The clients.                                                            *)

Send(s, line) ==
  /\ s \notin gone /\ Len(sent[s]) < MaxSent
  /\ sent' = [sent EXCEPT ![s] = Append(@, line)]
  /\ UNCHANGED <<elevated, gone, got, state, reply, out, count, stopping, orphan, changed, audit>>

Leave(s) ==
  /\ s \notin gone
  /\ gone' = gone \union {s}
  /\ UNCHANGED <<elevated, sent, got, state, reply, out, count, stopping, orphan, changed, audit>>

-----------------------------------------------------------------------------
(* A session: read a line, handle it, write the response.                  *)

At(s, label)   == state[s] = label
Goto(s, label) == state' = [state EXCEPT ![s] = label]
Write(s, m)    == out' = [out EXCEPT ![s] = Append(@, m)]

Answer(s, m) == Goto(s, "answering") /\ reply' = [reply EXCEPT ![s] = m]

ReadBlank(s) ==
  /\ At(s, "reading") /\ got[s] < Len(sent[s]) /\ sent[s][got[s] + 1].method = "blank"
  /\ got' = [got EXCEPT ![s] = @ + 1]
  /\ UNCHANGED <<elevated, clientVars, state, reply, out, count, stopping, orphan, changed, audit>>

\* INVALID_REQUEST, with a null id and without being counted.
ReadInvalid(s) ==
  /\ At(s, "reading") /\ got[s] < Len(sent[s]) /\ sent[s][got[s] + 1].method = "invalid"
  /\ got' = [got EXCEPT ![s] = @ + 1]
  /\ \/ Write(s, Message("error", 0, 0)) /\ UNCHANGED state
     \/ s \in gone /\ Goto(s, "ended") /\ UNCHANGED out
  /\ UNCHANGED <<elevated, clientVars, reply, count, stopping, orphan, changed, audit>>

ReadRequest(s) ==
  /\ At(s, "reading") /\ got[s] < Len(sent[s]) /\ sent[s][got[s] + 1].method \in Methods
  /\ got' = [got EXCEPT ![s] = @ + 1]
  /\ Goto(s, "handling")
  /\ UNCHANGED <<elevated, clientVars, reply, out, count, stopping, orphan, changed, audit>>

\* RecursionError is none of the errors the loop answers: the thread ends.
ReadTooDeep(s) ==
  /\ At(s, "reading") /\ got[s] < Len(sent[s]) /\ sent[s][got[s] + 1].method = "too deep"
  /\ got' = [got EXCEPT ![s] = @ + 1]
  /\ Goto(s, "ended")
  /\ UNCHANGED <<elevated, clientVars, reply, out, count, stopping, orphan, changed, audit>>

\* The stream is decoded in chunks, and a chunk that cannot be raises before any of
\* its lines is returned: how many lines before the bad one go with it is the network's.
ReadUndecodable(s) ==
  /\ At(s, "reading")
  /\ \E k \in got[s] + 1 .. Len(sent[s]) : sent[s][k].method = "undecodable"
  /\ Goto(s, "ended")
  /\ UNCHANGED <<elevated, clientVars, got, reply, out, count, stopping, orphan, changed, audit>>

\* End of file, or a connection reset with lines still unread.
Hangup(s) ==
  /\ At(s, "reading") /\ s \in gone
  /\ Goto(s, "ended")
  /\ UNCHANGED <<elevated, clientVars, got, reply, out, count, stopping, orphan, changed, audit>>

\* The response is written and counted; a session told to shut down ends.
Respond(s) ==
  /\ At(s, "answering")
  /\ Write(s, reply[s])
  /\ count' = [count EXCEPT ![s] = @ + 1]
  /\ Goto(s, IF s \in stopping THEN "ended" ELSE "reading")
  /\ reply' = [reply EXCEPT ![s] = NoReply]
  /\ UNCHANGED <<elevated, clientVars, got, stopping, orphan, changed, audit>>

\* The write raises: the thread ends.
RespondFails(s) ==
  /\ At(s, "answering") /\ s \in gone
  /\ Goto(s, "ended")
  /\ UNCHANGED <<elevated, clientVars, got, reply, out, count, stopping, orphan, changed, audit>>

-----------------------------------------------------------------------------
(* The handlers.                                                           *)

\* The handler returns, or raises and INTERNAL_ERROR is the answer.
Query(s) ==
  /\ At(s, "handling") /\ Current(s).method = "query"
  /\ \E kind \in {"result", "error"} : Answer(s, Message(kind, got[s], 0))
  /\ UNCHANGED <<elevated, clientVars, got, out, count, stopping, orphan, changed, audit>>

\* Mutated form: an unknown method is passed over, as a notification would be.
MethodNotFoundSilent(s) ==
  /\ At(s, "handling") /\ Current(s).method = "unknown"
  /\ Goto(s, "reading")
  /\ UNCHANGED <<elevated, clientVars, got, reply, out, count, stopping, orphan, changed, audit>>

MethodNotFound(s) ==
  /\ At(s, "handling") /\ Current(s).method = "unknown"
  /\ Answer(s, Message("error", got[s], 0))
  /\ UNCHANGED <<elevated, clientVars, got, out, count, stopping, orphan, changed, audit>>

\* Looking the method up raises TypeError outside of every try: the thread ends.
MethodUnhashable(s) ==
  /\ At(s, "handling") /\ Current(s).method = "unhashable"
  /\ Goto(s, "ended")
  /\ UNCHANGED <<elevated, clientVars, got, reply, out, count, stopping, orphan, changed, audit>>

\* Mutated form: the count before this request.
ShutdownUncounted(s) ==
  /\ At(s, "handling") /\ Current(s).method = "shutdown"
  /\ stopping' = stopping \union {s}
  /\ Answer(s, Message("result", got[s], count[s]))
  /\ UNCHANGED <<elevated, clientVars, got, out, count, orphan, changed, audit>>

\* Mutated form: one flag for all the connections.
ShutdownAll(s) ==
  /\ At(s, "handling") /\ Current(s).method = "shutdown"
  /\ stopping' = Session
  /\ Answer(s, Message("result", got[s], count[s] + 1))
  /\ UNCHANGED <<elevated, clientVars, got, out, count, orphan, changed, audit>>

Shutdown(s) ==
  /\ At(s, "handling") /\ Current(s).method = "shutdown"
  /\ stopping' = stopping \union {s}
  /\ Answer(s, Message("result", got[s], count[s] + 1))
  /\ UNCHANGED <<elevated, clientVars, got, out, count, orphan, changed, audit>>

IsApply(line)  == line.method \in {"apply_updates", "apply_updates_stream"}
Streams(line)  == line.method = "apply_updates_stream"
Confirmed(line) == line.confirm /\ line.token

\* What the updater is asked for.  apply_updates tests the filters for truth, and
\* an empty frozenset is false; apply_updates_stream passes them on as they are.
Asked(line) ==
  IF Streams(line) THEN IF line.only = "unset" THEN "the rest"
                        ELSE IF line.only = "empty" THEN "nothing" ELSE "selection"
  ELSE IF line.skip \/ line.only = "some"
         THEN IF line.only = "unset" THEN "the rest"
              ELSE IF line.only = "empty" THEN "nothing" ELSE "selection"
         ELSE "everything"

\* A refusal is a result with success false, not an error.
GateRejects(s) ==
  /\ At(s, "handling") /\ IsApply(Current(s)) /\ ~Current(s).dry
  /\ ~Confirmed(Current(s))
  /\ Log(s, "apply_rejected")
  /\ Answer(s, Message("result", got[s], 0))
  /\ UNCHANGED <<elevated, clientVars, got, out, count, stopping, orphan, changed>>

GateUnprivileged(s) ==
  /\ At(s, "handling") /\ IsApply(Current(s)) /\ ~Current(s).dry
  /\ Confirmed(Current(s)) /\ ~elevated
  /\ Log(s, "privilege_check")
  /\ Answer(s, Message("result", got[s], 0))
  /\ UNCHANGED <<elevated, clientVars, got, out, count, stopping, orphan, changed>>

\* Mutated form of GatePasses: only a missing confirmation is refused.
GatePassesUnprivileged(s) ==
  /\ At(s, "handling") /\ IsApply(Current(s))
  /\ Current(s).dry \/ Confirmed(Current(s))
  /\ Goto(s, "admitted")
  /\ UNCHANGED <<elevated, clientVars, got, reply, out, count, stopping, orphan, changed, audit>>

GatePasses(s) ==
  /\ At(s, "handling") /\ IsApply(Current(s))
  /\ Current(s).dry \/ (Confirmed(Current(s)) /\ elevated)
  /\ Goto(s, "admitted")
  /\ UNCHANGED <<elevated, clientVars, got, reply, out, count, stopping, orphan, changed, audit>>

\* The system has no updater, or an audit write - the gate's or the updater's first -
\* raises.
ApplyRaises(s) ==
  /\ At(s, "admitted") \/ (At(s, "handling") /\ IsApply(Current(s)) /\ ~Current(s).dry)
  /\ Answer(s, Message("error", got[s], 0))
  /\ UNCHANGED <<elevated, clientVars, got, out, count, stopping, orphan, changed, audit>>

\* Mutated form: the updater is started without its audit entry.
ApplyStartsUnlogged(s) ==
  /\ At(s, "admitted")
  /\ Goto(s, "applying")
  /\ UNCHANGED <<elevated, clientVars, got, reply, out, count, stopping, orphan, changed, audit>>

\* The updater is made and logs the apply before its first command.
ApplyStarts(s) ==
  /\ At(s, "admitted")
  /\ Log(s, "apply_updates")
  /\ Goto(s, "applying")
  /\ UNCHANGED <<elevated, clientVars, got, reply, out, count, stopping, orphan, changed>>

\* Mutated form of ApplyEnds: the id of the last line sent, not of the one handled.
ApplyEndsLatest(s) ==
  /\ At(s, "applying")
  /\ \E kind \in {"result", "error"} : Answer(s, Message(kind, Len(sent[s]), 0))
  /\ UNCHANGED <<elevated, clientVars, got, out, count, stopping, orphan, changed, audit>>

\* The updater's report, or an exception turned into INTERNAL_ERROR.  Something may go
\* on: killing a command leaves its helpers, an exception the command itself.
ApplyEnds(s) ==
  /\ At(s, "applying")
  /\ \E kind \in {"result", "error"} : Answer(s, Message(kind, got[s], 0))
  /\ \/ UNCHANGED orphan
     \/ ~Current(s).dry /\ orphan' = orphan \union {Here(s)}
  /\ UNCHANGED <<elevated, clientVars, got, out, count, stopping, changed, audit>>

ProgressOf(s) == Len(SelectSeq(out[s], LAMBDA m : m.kind = "progress" /\ m.id = got[s]))

\* Mutated form: apply_updates writes the lines it draws, too.
ProgressAlways(s) ==
  /\ At(s, "applying") /\ ProgressOf(s) < MaxProgress
  /\ Write(s, Message("progress", got[s], 0))
  /\ UNCHANGED <<elevated, clientVars, got, state, reply, count, stopping, orphan, changed, audit>>

\* apply_updates draws the lines and drops them; apply_updates_stream writes each one.
Progress(s) ==
  /\ At(s, "applying") /\ Streams(Current(s)) /\ ProgressOf(s) < MaxProgress
  /\ Write(s, Message("progress", got[s], 0))
  /\ UNCHANGED <<elevated, clientVars, got, state, reply, count, stopping, orphan, changed, audit>>

\* The write raises and INTERNAL_ERROR is the answer; the generator is dropped with
\* its command running.
ProgressFails(s) ==
  /\ At(s, "applying") /\ Streams(Current(s)) /\ s \in gone
  /\ orphan' = IF Current(s).dry THEN orphan ELSE orphan \union {Here(s)}
  /\ Answer(s, Message("error", got[s], 0))
  /\ UNCHANGED <<elevated, clientVars, got, out, count, stopping, changed, audit>>

-----------------------------------------------------------------------------
(* The update commands on the machine (external).                          *)

Installs(line) == ~line.dry /\ Asked(line) # "nothing"

\* The commands that may change the machine now.
Active == { Here(s) : s \in {t \in Session : At(t, "applying")} } \union orphan

Change(r) ==
  /\ r \in Active /\ Installs(RequestOf(r))
  /\ changed' = changed \union {r}
  /\ UNCHANGED <<elevated, clientVars, got, state, reply, out, count, stopping, orphan, audit>>

OrphanEnds(r) ==
  /\ r \in orphan
  /\ orphan' = orphan \ {r}
  /\ UNCHANGED <<elevated, clientVars, got, state, reply, out, count, stopping, changed, audit>>

-----------------------------------------------------------------------------
\* What the package manager is run for, and takes its time.
Operate(s) == Query(s) \/ ApplyEnds(s) \/ Progress(s) \/ ProgressFails(s)

\* What the thread of a session does by itself.
Serve(s) ==
  \/ ReadBlank(s) \/ ReadInvalid(s) \/ ReadTooDeep(s) \/ ReadUndecodable(s) \/ ReadRequest(s)
  \/ Hangup(s)
  \/ MethodNotFound(s) \/ MethodUnhashable(s) \/ Shutdown(s)
  \/ GateRejects(s) \/ GateUnprivileged(s) \/ GatePasses(s) \/ ApplyRaises(s) \/ ApplyStarts(s)
  \/ Respond(s) \/ RespondFails(s)

Next ==
  \/ \E s \in Session : Serve(s) \/ Operate(s) \/ Leave(s)
  \/ \E s \in Session, line \in Request : Send(s, line)
  \/ \E r \in Active : Change(r) \/ OrphanEnds(r)

Spec == Init /\ [][Next]_vars

\* The threads run.  Nothing is assumed of an operation: on Windows the runner may
\* wait for a helper of its command without a limit.
FairSpec == Spec /\ \A s \in Session : WF_vars(Serve(s))
-----------------------------------------------------------------------------
(* Properties.                                                             *)

States == {"reading", "handling", "admitted", "applying", "answering", "ended"}

Messages == [kind : {"none", "progress", "result", "error"}, id : Nat, served : Nat]

References == [session : Session, id : Nat]

Events == {"apply_rejected", "privilege_check", "apply_updates"}

\* Every variable keeps to the values of its counterpart in the sessions; a session
\* never reads beyond what its client has sent.
TypeOK ==
  /\ elevated \in BOOLEAN
  /\ sent \in [Session -> Seq(Lines)] /\ gone \subseteq Session
  /\ got \in [Session -> Nat] /\ \A s \in Session : got[s] <= Len(sent[s])
  /\ state \in [Session -> States]
  /\ reply \in [Session -> Messages] /\ out \in [Session -> Seq(Messages)]
  /\ count \in [Session -> Nat]
  /\ stopping \subseteq Session
  /\ orphan \subseteq References /\ changed \subseteq References
  /\ audit \in Seq([session : Session, id : Nat, event : Events])

\* The answers written on a connection, by their places among its messages.
Answers(s) == {j \in 1 .. Len(out[s]) : out[s][j].kind # "progress"}

\* The lines a session has dealt with, and those among them that are owed an answer.
Done(s) == IF state[s] = "reading" \/ (state[s] = "ended" /\ reply[s] = NoReply)
             THEN got[s] ELSE got[s] - 1

Owed(s) == {i \in 1 .. Done(s) : sent[s][i].method \notin Fatal \union {"blank"}}

IdOf(s, i) == IF sent[s][i].method = "invalid" THEN 0 ELSE i

\* The n-th answer is that of the n-th line owed one.
InOrder(s) ==
  \A i \in Owed(s), j \in Answers(s) :
    Rank(Owed(s), i) = Rank(Answers(s), j) => out[s][j].id = IdOf(s, i)

\* Each line a session has dealt with is answered once, with its own id and in the order
\* sent, however many lines its client sent ahead; the line a session ended on is owed no
\* answer, the one a vanished client cannot take may be missing, and either is the last.
AnswersInOrder ==
  \A s \in Session :
    /\ InOrder(s)
    /\ \/ Cardinality(Owed(s)) = Cardinality(Answers(s))
       \/ s \in gone /\ Cardinality(Owed(s)) = Cardinality(Answers(s)) + 1

\* The answers request_count counts: all but those to lines that are no request.
Counted(s) == {j \in Answers(s) : out[s][j].id # 0}

\* Progress lines stand before the response of their own request and after the one
\* before it: a client that reads up to a response has all its progress, and no
\* other's.
ProgressBelongs ==
  \A s \in Session : \A i \in 1 .. Len(out[s]) : out[s][i].kind = "progress" =>
    /\ Streams(sent[s][out[s][i].id])
    /\ \A j \in 1 .. Len(out[s]) :
         /\ j > i => out[s][j].id >= out[s][i].id \/ out[s][j].id = 0
         /\ out[s][j].id = out[s][i].id /\ out[s][j].kind # "progress" => j > i

\* Whatever the other connections do, the machine is changed only on behalf of a
\* request that is no dry-run, carries confirm and the token, and was served by an
\* elevated backend.
ChangesAreGated ==
  \A r \in changed :
    /\ elevated
    /\ Installs(RequestOf(r)) /\ Confirmed(RequestOf(r))

Audited(r) ==
  \E i \in 1 .. Len(audit) :
    audit[i] = [session |-> r.session, id |-> r.id, event |-> "apply_updates"]

\* docs/ARCHITECTURE.md, "Audit trail": a change, and a command left running, has an
\* entry of its own request in the log before it.
ChangesAreAudited ==
  \A r \in changed \union orphan : Audited(r)

\* shutdown's answer is the last message of its session, and the number it gives is
\* that of the requests the session answered, itself included.
ShutdownIsLast ==
  \A s \in Session : \A i \in 1 .. Len(out[s]) :
    out[s][i].id # 0 /\ sent[s][out[s][i].id].method = "shutdown" =>
      /\ i = Len(out[s]) /\ state[s] = "ended"
      /\ out[s][i].served = Cardinality(Counted(s))

AskedToEnd(s) == \E i \in 1 .. got[s] : sent[s][i].method = "shutdown"

\* One of the lines its client sent broke the session.
Broken(s) == \E k \in 1 .. Len(sent[s]) : sent[s][k].method \in Fatal

\* A session ends because its own client left, asked it to or sent a line it ends on,
\* never because of what another connection asked, failed at, or left running.
EndsForItsOwnCause ==
  \A s \in Session : state[s] = "ended" => s \in gone \/ AskedToEnd(s) \/ Broken(s)

AnswersTo(s, i) == \E j \in Answers(s) : out[s][j].id = i

\* A bad line takes the lines after it along, one that is not UTF-8 also those before it.
Spoiled(s, i) ==
  \E k \in 1 .. Len(sent[s]) :
    sent[s][k].method = "undecodable" \/ (k <= i /\ sent[s][k].method \in Fatal)

InOperation(s) == At(s, "applying") \/ (At(s, "handling") /\ Current(s).method = "query")

\* While the operations of its own session come to their ends, a client that stays gets
\* an answer to every request it sent before a shutdown and before a line that breaks
\* the session.
EveryRequestAnswered ==
  \A s \in Session : \A i \in 1 .. MaxSent :
    []<>~InOperation(s) =>
      ((Len(sent[s]) >= i /\ sent[s][i].method \in Methods)
         ~> (AnswersTo(s, i) \/ s \in gone \/ AskedToEnd(s) \/ Spoiled(s, i)))

-----------------------------------------------------------------------------
(* The inductive invariant.                                                *)

\* What the gate found stays true of a request while its command may run.
Passed(r) ==
  /\ r.id \in 1 .. Len(sent[r.session])
  /\ RequestOf(r).dry \/ (Confirmed(RequestOf(r)) /\ elevated)

Admitted(r) == Passed(r) /\ Audited(r)

GateInv ==
  /\ \A s \in Session : state[s] = "admitted" => Passed(Here(s))
  /\ \A r \in Active \union changed : Admitted(r)
  /\ \A r \in changed : Installs(RequestOf(r))

\* A request in hand has been read, and only its own session's shutdown ends a session.
SessionInv ==
  /\ \A s \in Session : state[s] \in {"handling", "admitted", "applying", "answering"} => got[s] >= 1
  /\ \A s \in stopping : AskedToEnd(s)

\* What has been written belongs to what has been read, and the request in hand has
\* had no answer.
OutInv ==
  \A s \in Session :
    /\ \A i \in 1 .. Len(out[s]) :
         /\ out[s][i].id <= got[s]
         /\ out[s][i].kind = "progress" => out[s][i].id >= 1
         /\ state[s] \in {"handling", "admitted", "applying", "answering"} /\ out[s][i].kind # "progress" =>
              out[s][i].id < got[s]
    /\ state[s] = "answering" => reply[s].id = got[s] /\ reply[s].kind # "progress"

\* A session that still runs has answered all it has dealt with, and what it has in
\* hand is a request.
OrderInv ==
  \A s \in Session :
    /\ state[s] = "reading" => reply[s] = NoReply
    /\ state[s] \in {"handling", "admitted", "applying", "answering"} => Current(s).method \in Methods
    /\ state[s] \in {"admitted", "applying", "answering"} => Current(s).method \notin Fatal
    /\ state[s] # "ended" => Cardinality(Owed(s)) = Cardinality(Answers(s))

\* request_count counts the answers that bear an id; a shutdown is the last line its
\* session reads, and its answer gives the count the session will end with.
CountInv ==
  \A s \in Session :
    /\ count[s] = Cardinality(Counted(s))
    /\ \A i \in 1 .. got[s] : sent[s][i].method = "shutdown" =>
         i = got[s] /\ state[s] \in {"handling", "answering", "ended"}
    /\ state[s] = "answering" /\ Current(s).method = "shutdown" =>
         s \in stopping /\ reply[s].served = count[s] + 1

Inv ==
  /\ TypeOK /\ GateInv /\ SessionInv /\ OutInv
  /\ EndsForItsOwnCause /\ ProgressBelongs
=============================================================================
