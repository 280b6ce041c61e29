---------------------------- MODULE CommandRunner ----------------------------
(***************************************************************************)
(* One call of CommandRunner.run or CommandRunner.run_streaming            *)
(* (backend/veripatch/execution/runner.py).                                *)
(*                                                                         *)
(* Five parties move: the thread that runs the call, the consumer of the   *)
(* generator run_streaming returns (the updaters and, behind them, the     *)
(* RPC session), the daemon reader thread, the operating system process    *)
(* with any process it forks, and the clock.  The calling thread's program *)
(* counter is pc; each value of pc is the code between two points where    *)
(* another party's step can be seen or an audit write can raise.           *)
(***************************************************************************)
EXTENDS Integers, Sequences, FiniteSets, Ranks

CONSTANTS
  Command,       \* the commands a caller may pass
  Approved,      \* those SourceValidator.validate_command approves
  RunnerDryRun,  \* CommandRunner(dry_run=...), used when a call names no mode
  Line,          \* output lines
  Blank,         \* lines _clean_output_line reduces to nothing
  EOF,           \* the None the reader enqueues last
  ExitCode,      \* what a process may exit with; 0 is success
  Timeout,       \* self.timeout, in polls of the queue (1 second each)
  Grace,         \* process.wait(timeout=5) after a kill
  Windows,       \* subprocess.run drains the pipe after a kill on Windows
  MaxLines       \* bound of the model: lines one command writes

ASSUME CommandAssumption == Approved \subseteq Command
ASSUME LineAssumption    == Blank \subseteq Line /\ EOF \notin Line
ASSUME ExitAssumption    == 0 \in ExitCode /\ ExitCode \subseteq Int
ASSUME TimeAssumption    == Timeout \in Nat \ {0} /\ Grace \in Nat \ {0}
ASSUME FlagAssumption    == RunnerDryRun \in BOOLEAN /\ Windows \in BOOLEAN
ASSUME BoundAssumption   == MaxLines \in Nat

VARIABLES
  call,      \* the arguments: method, command, dry_run parameter
  pc,        \* where the call is
  result,    \* the ExecutionResult, or NoResult
  trail,     \* the audit entries this call wrote, oldest first
  acc,       \* stdout_acc
  delivered, \* the lines yielded to the consumer
  queue,     \* line_queue
  reader,    \* the reader thread: "none", "reading", "done"
  proc,      \* the process: "none", "running", "killed" (signalled), "exited"
  exitCode,  \* its exit code once exited
  writers,   \* who holds the write end of its stdout pipe
  pipe,      \* lines written and not yet read
  written,   \* every line written so far (history)
  now,       \* time since the deadline was computed
  wakeAt     \* when the call's current bounded wait gives up

callVars == <<call, pc, result, trail, acc, delivered, wakeAt>>
procVars == <<proc, exitCode, writers, pipe, written>>
vars == <<callVars, procVars, queue, reader, now>>

NoResult == [why |-> "none"]
Notice   == "dry-run notice"          \* "[Dry-run] would execute: ..."
Killed   == -9                        \* the exit code of a killed process

Streaming == call.method = "run_streaming"

\* self.dry_run if dry_run is None else dry_run
EffectiveDryRun == IF call.dry = "unset" THEN RunnerDryRun ELSE call.dry = "true"

\* The places of the lines that are not empty once cleaned.
Visible(lines) == { i \in 1 .. Len(lines) : lines[i] \notin Blank }

Init ==
  /\ call \in [method : {"run", "run_streaming"}, cmd : Command,
               dry : {"unset", "true", "false"}]
  /\ pc = "validate" /\ result = NoResult /\ trail = <<>>
  /\ acc = <<>> /\ delivered = <<>> /\ queue = <<>> /\ reader = "none"
  /\ proc = "none" /\ exitCode = 0 /\ writers = {} /\ pipe = <<>> /\ written = <<>>
  /\ now = 0 /\ wakeAt = 0

-----------------------------------------------------------------------------
(* The calling thread's moves.                                             *)

At(label)   == pc = label
Goto(label) == pc' = label
Audit(entry) == trail' = Append(trail, entry)

Return(why, success, output) ==
  /\ Goto("returned")
  /\ result' = [why |-> why, success |-> success, dry |-> EffectiveDryRun, out |-> output]

\* process.kill(): nothing happens to a process that has already exited.
Kill == proc' = IF proc = "running" THEN "killed" ELSE proc

\* Mutated form of GiveUp: the except arm reports without killing.
GiveUpUnkilled(next) ==
  /\ Goto("timeout")
  /\ wakeAt' = now + Grace
  /\ UNCHANGED <<call, result, trail, acc, delivered, procVars>>

\* The except arm for TimeoutExpired: kill, then process.wait(timeout=5).
GiveUp(next) ==
  /\ Kill
  /\ Goto(next)
  /\ wakeAt' = now + Grace
  /\ UNCHANGED <<call, result, trail, acc, delivered, exitCode, writers, pipe, written>>

-----------------------------------------------------------------------------
(* Mutated forms: each is what a definition below would be after a plausible  *)
(* slip in the code; PROJECT.json names the property that notices it.         *)

\* stdout_acc.append moved under "if cleaned".
GetLineCleanedOnly ==
  /\ At("get") /\ queue # <<>> /\ Head(queue) # EOF
  /\ queue' = Tail(queue)
  /\ IF Head(queue) \in Blank
       THEN Goto("loop") /\ UNCHANGED <<acc, delivered>>
       ELSE /\ Goto("yield")
            /\ acc' = Append(acc, Head(queue)) /\ delivered' = Append(delivered, Head(queue))
  /\ UNCHANGED <<call, result, trail, wakeAt, procVars, reader, now>>

\* An empty queue of an exited process ends the loop.
GetEmptyPolls ==
  /\ At("get") /\ queue = <<>> /\ now >= wakeAt
  /\ Goto(IF proc = "exited" THEN "wait" ELSE "loop")
  /\ UNCHANGED <<call, result, trail, acc, delivered, wakeAt, procVars, queue, reader, now>>

\* line_queue.get() without a timeout.
GetEmptyBlocks == At("get") /\ FALSE /\ UNCHANGED vars

\* One poll without output is taken for the timeout.
GetEmptyIsTimeout ==
  /\ At("get") /\ queue = <<>> /\ now >= wakeAt
  /\ GiveUp("reap")
  /\ UNCHANGED <<queue, reader, now>>

\* The pipe's end is taken for the process's end.
WaitDoneUnwaited ==
  /\ At("wait")
  /\ Goto("complete")
  /\ UNCHANGED <<call, result, trail, acc, delivered, wakeAt, procVars, queue, reader, now>>

\* An audit error is swallowed before the launch.
AuditFailsOpen ==
  /\ pc \in {"validate", "blocked", "dry_run", "execute", "failed", "timeout", "complete"}
  /\ Goto(IF At("execute") THEN "launch" ELSE "raised")
  /\ UNCHANGED <<call, result, trail, acc, delivered, wakeAt, procVars, queue, reader, now>>

-----------------------------------------------------------------------------
(* The calling thread up to the launch.                                    *)

ValidateCommand ==
  /\ At("validate")
  /\ IF call.cmd \in Approved
       THEN /\ Audit("source_approved")
            /\ Goto(IF EffectiveDryRun THEN "dry_run" ELSE "execute")
       ELSE Audit("source_rejected") /\ Goto("blocked")
  /\ UNCHANGED <<call, result, acc, delivered, wakeAt, procVars, queue, reader, now>>

Blocked ==
  /\ At("blocked")
  /\ Audit("command_blocked")
  /\ Return("rejected", FALSE, <<>>)
  /\ UNCHANGED <<call, acc, delivered, wakeAt, procVars, queue, reader, now>>

\* run returns at once; run_streaming first yields the notice.
DryRun ==
  /\ At("dry_run")
  /\ Audit("command_dry_run")
  /\ IF Streaming
       THEN Goto("notice") /\ delivered' = Append(delivered, Notice) /\ UNCHANGED result
       ELSE Return("dry_run", TRUE, <<>>) /\ UNCHANGED delivered
  /\ UNCHANGED <<call, acc, wakeAt, procVars, queue, reader, now>>



RecordExecute ==
  /\ At("execute")
  /\ Audit("command_execute")
  /\ Goto("launch")
  /\ UNCHANGED <<call, result, acc, delivered, wakeAt, procVars, queue, reader, now>>

Launch ==
  /\ At("launch")
  /\ proc' = "running" /\ writers' = {"child"}
  /\ IF Streaming THEN reader' = "reading" /\ Goto("loop")
                  ELSE reader' = reader /\ Goto("communicate")
  /\ UNCHANGED <<call, result, trail, acc, delivered, wakeAt, exitCode, pipe, written, queue, now>>

\* Popen raises OSError: no such executable, not executable.
LaunchFails ==
  /\ At("launch")
  /\ Goto("failed")
  /\ UNCHANGED <<call, result, trail, acc, delivered, wakeAt, procVars, queue, reader, now>>

Failed ==
  /\ At("failed")
  /\ Audit("command_failed")
  /\ Return("os_error", FALSE, <<>>)
  /\ UNCHANGED <<call, acc, delivered, wakeAt, procVars, queue, reader, now>>

-----------------------------------------------------------------------------
(* run_streaming's loop.                                                   *)

\* The uncleaned line is yielded.
GetLineUncleaned ==
  /\ At("get") /\ queue # <<>> /\ Head(queue) # EOF
  /\ queue' = Tail(queue)
  /\ Goto("yield")
  /\ acc' = Append(acc, Head(queue)) /\ delivered' = Append(delivered, Head(queue))
  /\ UNCHANGED <<call, result, trail, wakeAt, procVars, reader, now>>

\* The top of the while loop: only here is the deadline looked at.
CheckDeadline ==
  /\ At("loop")
  /\ IF now >= Timeout
       THEN GiveUp("reap")
       ELSE /\ Goto("get")
            /\ wakeAt' = now + 1
            /\ UNCHANGED <<call, result, trail, acc, delivered, procVars>>
  /\ UNCHANGED <<queue, reader, now>>

GetLine ==
  /\ At("get") /\ queue # <<>> /\ Head(queue) # EOF
  /\ queue' = Tail(queue)
  /\ acc' = Append(acc, Head(queue))
  /\ IF Head(queue) \in Blank
       THEN Goto("loop") /\ UNCHANGED delivered
       ELSE Goto("yield") /\ delivered' = Append(delivered, Head(queue))
  /\ UNCHANGED <<call, result, trail, wakeAt, procVars, reader, now>>

GetEOF ==
  /\ At("get") /\ queue # <<>> /\ Head(queue) = EOF
  /\ queue' = Tail(queue)
  /\ Goto("wait")
  /\ UNCHANGED <<call, result, trail, acc, delivered, wakeAt, procVars, reader, now>>

\* queue.Empty after min(remaining, 1.0) seconds
GetEmpty ==
  /\ At("get") /\ queue = <<>> /\ now >= wakeAt
  /\ Goto("loop")
  /\ UNCHANGED <<call, result, trail, acc, delivered, wakeAt, procVars, queue, reader, now>>

\* exit_code = process.wait(timeout=max(0.0, deadline - now))
WaitDone ==
  /\ At("wait") /\ proc = "exited"
  /\ Goto("complete")
  /\ UNCHANGED <<call, result, trail, acc, delivered, wakeAt, procVars, queue, reader, now>>

WaitExpires ==
  /\ At("wait") /\ proc = "running" /\ now >= Timeout
  /\ GiveUp("reap")
  /\ UNCHANGED <<queue, reader, now>>

Reaped ==
  /\ At("reap") /\ proc = "exited"
  /\ Goto("timeout")
  /\ UNCHANGED <<call, result, trail, acc, delivered, wakeAt, procVars, queue, reader, now>>

\* The second wait expires too: the exception leaves run_streaming.
ReapExpires ==
  /\ At("reap") /\ proc = "killed" /\ now >= wakeAt
  /\ Goto("raised")
  /\ UNCHANGED <<call, result, trail, acc, delivered, wakeAt, procVars, queue, reader, now>>

TimedOut ==
  /\ At("timeout")
  /\ Audit("command_timeout")
  /\ Return("timeout", FALSE, <<>>)
  /\ UNCHANGED <<call, acc, delivered, wakeAt, procVars, queue, reader, now>>

Complete ==
  /\ At("complete")
  /\ Audit("command_complete")
  /\ Return("complete", exitCode = 0, acc)
  /\ UNCHANGED <<call, acc, delivered, wakeAt, procVars, queue, reader, now>>

-----------------------------------------------------------------------------
(* run: subprocess.run reads the whole output, then waits.                 *)

Communicate ==
  /\ At("communicate") /\ proc = "exited" /\ writers = {}
  /\ acc' = acc \o pipe
  /\ pipe' = <<>>
  /\ Goto("complete")
  /\ UNCHANGED <<call, result, trail, delivered, wakeAt, proc, exitCode, writers, written,
                 queue, reader, now>>

CommunicateExpires ==
  /\ At("communicate") /\ now >= Timeout /\ ~(proc = "exited" /\ writers = {})
  /\ GiveUp("drain")
  /\ UNCHANGED <<queue, reader, now>>

\* After the kill subprocess.run waits with no limit: for the process, and on
\* Windows for the pipe to close as well.
Drained ==
  /\ At("drain") /\ proc = "exited" /\ (Windows => writers = {})
  /\ Goto("timeout")
  /\ UNCHANGED <<call, result, trail, acc, delivered, wakeAt, procVars, queue, reader, now>>

\* AuditLogger._write raises (disk full, log not writable): the entry is not
\* written and the exception leaves the call.
AuditFails ==
  /\ pc \in {"validate", "blocked", "dry_run", "execute", "failed", "timeout", "complete"}
  /\ Goto("raised")
  /\ UNCHANGED <<call, result, trail, acc, delivered, wakeAt, procVars, queue, reader, now>>

-----------------------------------------------------------------------------
(* The consumer of the generator.                                          *)

Pull ==
  /\ \/ At("yield") /\ Goto("loop") /\ UNCHANGED result
     \/ At("notice") /\ Return("dry_run", TRUE, <<>>)
  /\ UNCHANGED <<call, trail, acc, delivered, wakeAt, procVars, queue, reader, now>>

\* The consumer drops the generator: GeneratorExit at the yield, caught nowhere.
Close ==
  /\ pc \in {"yield", "notice"}
  /\ Goto("closed")
  /\ UNCHANGED <<call, result, trail, acc, delivered, wakeAt, procVars, queue, reader, now>>

-----------------------------------------------------------------------------
(* The reader thread, _enqueue_stdout.                                     *)

ReadLine ==
  /\ reader = "reading" /\ pipe # <<>>
  /\ queue' = Append(queue, Head(pipe))
  /\ pipe' = Tail(pipe)
  /\ UNCHANGED <<callVars, proc, exitCode, writers, written, reader, now>>

ReadEOF ==
  /\ reader = "reading" /\ pipe = <<>> /\ writers = {}
  /\ queue' = Append(queue, EOF)
  /\ reader' = "done"
  /\ UNCHANGED <<callVars, procVars, now>>

-----------------------------------------------------------------------------
(* The operating system (external).                                        *)

Write(w, l) ==
  /\ w \in writers /\ Len(written) < MaxLines
  /\ w = "child" => proc = "running"
  /\ pipe' = Append(pipe, l)
  /\ written' = Append(written, l)
  /\ UNCHANGED <<callVars, proc, exitCode, writers, queue, reader, now>>

\* The command starts a helper that inherits its stdout.
Fork ==
  /\ proc = "running" /\ "child" \in writers
  /\ writers' = writers \union {"helper"}
  /\ UNCHANGED <<callVars, proc, exitCode, pipe, written, queue, reader, now>>

\* A process closes its stdout and may live on, or the helper ends.
CloseOutput(w) ==
  /\ w \in writers
  /\ w = "child" => proc = "running"
  /\ writers' = writers \ {w}
  /\ UNCHANGED <<callVars, proc, exitCode, pipe, written, queue, reader, now>>

Exit(code) ==
  /\ proc = "running"
  /\ proc' = "exited" /\ exitCode' = code
  /\ writers' = writers \ {"child"}
  /\ UNCHANGED <<callVars, pipe, written, queue, reader, now>>

Die ==
  /\ proc = "killed"
  /\ proc' = "exited" /\ exitCode' = Killed
  /\ writers' = writers \ {"child"}
  /\ UNCHANGED <<callVars, pipe, written, queue, reader, now>>

\* Time only matters up to the deadline, and after it up to the end of the
\* grace period: that bounds the clock without hiding an outcome.
Tick ==
  /\ proc # "none"
  /\ now < Timeout \/ (At("reap") /\ now < wakeAt)
  /\ now' = now + 1
  /\ UNCHANGED <<callVars, procVars, queue, reader>>

-----------------------------------------------------------------------------
Caller ==
  \/ ValidateCommand \/ Blocked \/ DryRun \/ RecordExecute \/ Launch \/ LaunchFails \/ Failed
  \/ CheckDeadline \/ GetLine \/ GetEOF \/ GetEmpty \/ WaitDone \/ WaitExpires
  \/ Reaped \/ ReapExpires \/ TimedOut \/ Complete
  \/ Communicate \/ CommunicateExpires \/ Drained

Reader == ReadLine \/ ReadEOF

Environment ==
  \/ \E w \in writers : CloseOutput(w) \/ \E l \in Line : Write(w, l)
  \/ Fork \/ Die \/ \E code \in ExitCode : Exit(code)

Ended == pc \in {"returned", "raised", "closed"}

Next == Caller \/ Reader \/ Environment \/ AuditFails \/ Pull \/ Close \/ Tick

Spec == Init /\ [][Next]_vars

\* The threads run and time passes; the consumer keeps asking until it closes;
\* a kill takes effect.  Nothing makes the command write, exit or end its helper.
FairSpec ==
  /\ Spec
  /\ WF_vars(Caller) /\ WF_vars(Reader) /\ WF_vars(Tick) /\ WF_vars(Pull) /\ WF_vars(Die)
-----------------------------------------------------------------------------
(* Properties.                                                             *)

AuditEntry == {"source_approved", "source_rejected", "command_blocked", "command_dry_run",
               "command_execute", "command_failed", "command_timeout", "command_complete"}

Label == {"validate", "blocked", "dry_run", "notice", "execute", "launch", "failed", "loop",
          "get", "yield", "wait", "reap", "timeout", "complete", "communicate", "drain",
          "returned", "raised", "closed"}

Verdict == {"rejected", "dry_run", "os_error", "timeout", "complete"}

Result == [why : Verdict, success : BOOLEAN, dry : BOOLEAN, out : Seq(Line)]

\* Every variable keeps to the values its field or local of runner.py can have.
TypeOK ==
  /\ call \in [method : {"run", "run_streaming"}, cmd : Command,
               dry : {"unset", "true", "false"}]
  /\ pc \in Label
  /\ result \in Result \union {NoResult}
  /\ trail \in Seq(AuditEntry)
  /\ acc \in Seq(Line) /\ pipe \in Seq(Line) /\ written \in Seq(Line)
  /\ delivered \in Seq(Line \union {Notice})
  /\ queue \in Seq(Line \union {EOF})
  /\ reader \in {"none", "reading", "done"}
  /\ proc \in {"none", "running", "killed", "exited"}
  /\ exitCode \in ExitCode \union {Killed}
  /\ writers \subseteq {"child", "helper"}
  /\ now \in Nat /\ wakeAt \in Nat

\* The lines of a queue: all of it, but for a sentinel in the last place.
LinesOf(q) ==
  IF q # <<>> /\ q[Len(q)] = EOF THEN SubSeq(q, 1, Len(q) - 1) ELSE q

\* No line is lost, duplicated or reordered between the process and stdout_acc,
\* and the sentinel overtakes none: what the call holds, what the queue holds and
\* what is still in the pipe are, in that order, what the command wrote.
OutputConserved ==
  acc \o LinesOf(queue) \o pipe = written

\* A consumer of run_streaming has seen the visible lines of stdout_acc, no
\* others, in order: the n-th line it was given is the n-th visible one, and
\* nothing is yielded twice or skipped when the call blocks, polls or is resumed.
ShownIsVisible ==
  Streaming /\ proc # "none" =>
    /\ Len(delivered) = Cardinality(Visible(acc))
    /\ \A i \in Visible(acc) : delivered[Rank(Visible(acc), i)] = acc[i]

\* A call that reports completion holds the whole output: the process has
\* exited, nobody can write any more, and success says that it exited with 0.
CompleteMeansAll ==
  result.why = "complete" =>
    /\ proc = "exited" /\ writers = {}
    /\ result.out = written
    /\ result.success <=> exitCode = 0

\* However the call ends towards its caller, with a result or an exception, the
\* process it launched is not left running: it has exited or been killed.
NoRunawayChild ==
  pc \in {"returned", "raised"} => proc # "running"

\* The audit trail of a call that returned tells what it returned, one line per
\* decision: validated, then blocked, dry-run, or executed and concluded once.
AuditTellsOutcome ==
  pc = "returned" =>
    trail = CASE result.why = "rejected" -> <<"source_rejected", "command_blocked">>
              [] result.why = "dry_run"  -> <<"source_approved", "command_dry_run">>
              [] result.why = "os_error" -> <<"source_approved", "command_execute", "command_failed">>
              [] result.why = "timeout"  -> <<"source_approved", "command_execute", "command_timeout">>
              [] result.why = "complete" -> <<"source_approved", "command_execute", "command_complete">>

\* A process exists only for a validated command, outside dry-run, and after
\* "command_execute" reached the audit log: an audit log that cannot be written
\* stops the launch.
NothingBeforeRecord ==
  proc # "none" =>
    /\ call.cmd \in Approved /\ ~EffectiveDryRun
    /\ Len(trail) >= 2 /\ trail[1] = "source_approved" /\ trail[2] = "command_execute"

\* A command is killed, and reported as timed out, only once its time is up,
\* whatever the queue's own one-second polls did.
NotCutShort ==
  proc = "killed" \/ result.why = "timeout" => now >= Timeout

\* A call whose consumer keeps pulling ends, even when the command hangs or a
\* helper it started keeps the pipe open for ever.
EventuallyEnds == <>Ended

\* CommandPromise's variables in terms of the runner's.
PromiseChild   == CASE proc = "none" -> "none" [] proc = "exited" -> "over" [] OTHER -> "alive"
PromiseShown   == IF proc = "none" THEN <<>> ELSE delivered
PromiseVerdict == CASE pc = "returned" -> result.why
                    [] pc \in {"raised", "closed"} -> "abandoned"
                    [] OTHER -> "pending"

Promise == INSTANCE CommandPromise WITH
  child <- PromiseChild, shown <- PromiseShown, verdict <- PromiseVerdict

\* The runner implements CommandPromise: one launch at most, output shown only
\* while the call is open, a verdict on a process only when it is over.
KeepsPromise == Promise!Spec

-----------------------------------------------------------------------------
(* The inductive invariant: what each point of the calling thread knows.   *)

BeforeLaunch == {"validate", "blocked", "dry_run", "notice", "execute", "launch", "failed"}
InLoop       == {"loop", "get", "yield", "wait"}
AfterLaunch  == InLoop \union {"communicate", "reap", "drain", "timeout", "complete"}

\* Where the process is when the calling thread is at pc.
ProcInv ==
  /\ pc \in BeforeLaunch => proc = "none"
  /\ pc \in InLoop \union {"communicate"} => proc \in {"running", "exited"}
  /\ pc \in {"reap", "drain"} => proc \in {"killed", "exited"} /\ now >= Timeout
  /\ pc = "timeout" => proc = "exited" /\ now >= Timeout
  /\ pc = "complete" => proc = "exited" /\ writers = {}
  /\ proc = "none" => writers = {} /\ reader = "none"
  /\ proc = "exited" => "child" \notin writers
  /\ proc = "killed" => now >= Timeout

\* The sentinel is the last thing the reader enqueues, when nobody can write.
QueueInv ==
  /\ reader # "done" => queue \in Seq(Line)
  /\ reader = "done" =>
       /\ pipe = <<>> /\ writers = {}
       /\ queue # <<>> =>
            queue[Len(queue)] = EOF /\ \A i \in 1 .. Len(queue) - 1 : queue[i] \in Line
  /\ pc = "wait" => reader = "done" /\ queue = <<>>
  /\ pc = "communicate" => queue = <<>> /\ reader = "none"
  /\ proc = "none" => queue = <<>> /\ pipe = <<>> /\ acc = <<>> /\ written = <<>>
  /\ pc = "complete" => acc = written
  /\ pc \in {"validate", "dry_run", "execute", "launch"} => delivered = <<>>

\* What is on the audit log when the calling thread is at pc.
TrailInv ==
  /\ pc = "validate" => trail = <<>>
  /\ pc = "blocked" => trail = <<"source_rejected">>
  /\ pc \in {"dry_run", "execute"} => trail = <<"source_approved">>
  /\ pc = "notice" => trail = <<"source_approved", "command_dry_run">>
  /\ pc \in {"launch", "failed"} \union AfterLaunch =>
       trail = <<"source_approved", "command_execute">>
  /\ pc \in {"execute", "launch", "failed"} \union AfterLaunch =>
       call.cmd \in Approved /\ ~EffectiveDryRun

ResultInv ==
  /\ pc # "returned" => result = NoResult
  /\ pc = "returned" =>
       /\ result \in Result
       /\ result.why \in {"rejected", "dry_run", "os_error"} => proc = "none"
       /\ result.why = "timeout" => proc = "exited" /\ now >= Timeout
       /\ result.why = "complete" => CompleteMeansAll

ControlInv ==
  /\ ProcInv /\ QueueInv /\ TrailInv /\ ResultInv
  /\ NoRunawayChild /\ AuditTellsOutcome /\ NothingBeforeRecord

\* Only run reads the whole output at once, and it shows none.
ShownInv ==
  /\ ShownIsVisible
  /\ pc = "communicate" => ~Streaming

Inv == TypeOK /\ ControlInv /\ OutputConserved /\ ShownInv
=============================================================================
