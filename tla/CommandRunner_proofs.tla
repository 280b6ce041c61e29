------------------------- MODULE CommandRunner_proofs -------------------------
(***************************************************************************)
(* Proofs about CommandRunner for every set of commands and lines, every   *)
(* timeout, and any number of output lines.                                *)
(***************************************************************************)
EXTENDS CommandRunner, Ranks_proofs, SequenceTheorems, TLAPS

\* Taking the head of one sequence to the end of another changes nothing in the whole.
LEMMA HeadMoves ==
  ASSUME NEW S, NEW a \in Seq(S), NEW q \in Seq(S), q # <<>>
  PROVE  Append(a, Head(q)) \o Tail(q) = a \o q
<1> DEFINE left == Append(a, Head(q)) \o Tail(q)  right == a \o q
<1>1. left \in Seq(S) /\ right \in Seq(S) /\ Len(left) = Len(right)
  OBVIOUS
<1>2. ASSUME NEW i \in 1..Len(left) PROVE left[i] = right[i]
  OBVIOUS
<1>3. QED BY <1>1, <1>2, SeqEqual

\* Appending to the last part appends to the whole.
LEMMA AppendMoves ==
  ASSUME NEW S, NEW a \in Seq(S), NEW p \in Seq(S), NEW l \in S
  PROVE  a \o Append(p, l) = Append(a \o p, l)
<1> DEFINE left == a \o Append(p, l)  right == Append(a \o p, l)
<1>1. left \in Seq(S) /\ right \in Seq(S) /\ Len(left) = Len(right)
  OBVIOUS
<1>2. ASSUME NEW i \in 1..Len(left) PROVE left[i] = right[i]
  OBVIOUS
<1>3. QED BY <1>1, <1>2, SeqEqual

\* A sequence with a sentinel after it, without its last element, is itself.
LEMMA WithoutLast ==
  ASSUME NEW S, NEW e, e \notin S, NEW q \in Seq(S)
  PROVE  SubSeq(Append(q, e), 1, Len(Append(q, e)) - 1) = q
<1>1. q \in Seq(S \union {e}) /\ Append(q,e) \in Seq(S \union {e})
  OBVIOUS
<1>2. Len(Append(q, e)) - 1 = Len(q)
  OBVIOUS
<1>3. SubSeq(Append(q, e), 1, Len(q)) = q
  OBVIOUS
<1>4. QED BY <1>2, <1>3

\* A sequence that ends in a sentinel, and its tail, without the sentinel.
LEMMA EndOfTail ==
  ASSUME NEW S, NEW e, e \notin S, NEW q \in Seq(S \union {e}), q # <<>>, Head(q) # e,
         q[Len(q)] = e, \A i \in 1 .. Len(q) - 1 : q[i] \in S
  PROVE  /\ Tail(q) # <<>> /\ Tail(q)[Len(Tail(q))] = e
         /\ \A i \in 1 .. Len(Tail(q)) - 1 : Tail(q)[i] \in S
         /\ SubSeq(q, 1, Len(q) - 1) \in Seq(S) /\ SubSeq(q, 1, Len(q) - 1) # <<>>
         /\ Head(SubSeq(q, 1, Len(q) - 1)) = Head(q)
         /\ Tail(SubSeq(q, 1, Len(q) - 1)) = SubSeq(Tail(q), 1, Len(Tail(q)) - 1)
<1> DEFINE b == SubSeq(q, 1, Len(q) - 1)  t == Tail(q)
<1>1. Len(q) \in Nat /\ Len(q) >= 2 /\ Head(q) = q[1]
  OBVIOUS
<1>2. t \in Seq(S \union {e}) /\ Len(t) = Len(q) - 1 /\ \A i \in 1 .. Len(t) : t[i] = q[i + 1]
  BY HeadTailProperties
<1>3. b \in Seq(S) /\ Len(b) = Len(q) - 1 /\ \A i \in 1 .. Len(b) : b[i] = q[i]
  BY <1>1
<1> HIDE DEF b, t
<1>4. t # <<>> /\ t[Len(t)] = e /\ \A i \in 1 .. Len(t) - 1 : t[i] \in S
  <2>1. Len(t) >= 1
    BY <1>1, <1>2
  <2>2. t[Len(t)] = q[Len(q)]
    BY <1>1, <1>2, <2>1
  <2>3. QED BY <1>1, <1>2, <2>1, <2>2
<1>5. b # <<>> /\ Head(b) = Head(q)
  <2>1. Len(b) >= 1 /\ b[1] = q[1]
    BY <1>1, <1>3
  <2>2. QED BY <1>1, <1>3, <2>1
<1> USE DEF b, t
<1>6. Tail(b) = SubSeq(t, 1, Len(t) - 1)
  <2> DEFINE u == SubSeq(t, 1, Len(t) - 1)
  <2>1. Tail(b) \in Seq(S) /\ Len(Tail(b)) = Len(q) - 2 /\ \A i \in 1 .. Len(q) - 2 : Tail(b)[i] = q[i + 1]
    BY <1>1, <1>3, <1>5, HeadTailProperties
  <2>2. u \in Seq(S) /\ Len(u) = Len(q) - 2 /\ \A i \in 1 .. Len(q) - 2 : u[i] = q[i + 1]
    BY <1>1, <1>2, <1>4, SubSeqProperties
  <2>3. QED BY <2>1, <2>2, SeqEqual
<1>7. QED BY <1>3, <1>4, <1>5, <1>6

\* When the sentinel is first, nothing is left behind it.
LEMMA SentinelAlone ==
  ASSUME NEW S, NEW e, e \notin S, NEW q \in Seq(S \union {e}), q # <<>>, Head(q) = e,
         q[Len(q)] = e, \A i \in 1 .. Len(q) - 1 : q[i] \in S
  PROVE  Tail(q) = <<>> /\ SubSeq(q, 1, Len(q) - 1) = <<>>
<1>1. Len(q) \in Nat /\ Len(q) >= 1 /\ Head(q) = q[1]
  OBVIOUS
<1>2. Len(q) = 1
  <2>1. ASSUME Len(q) # 1 PROVE FALSE
    <3> \A n \in Nat : n >= 1 /\ n # 1 => 1 \in 1 .. n - 1
      OBVIOUS
    <3>1. 1 \in 1 .. Len(q) - 1
      BY <1>1, <2>1, Zenon
    <3>2. q[1] \in S
      BY <3>1
    <3>3. QED BY <1>1, <3>2
  <2>2. QED BY <2>1
<1>3. Tail(q) \in Seq(S \union {e}) /\ Len(Tail(q)) = 0
  BY <1>2, HeadTailProperties
<1>4. SubSeq(q, 1, Len(q) - 1) \in Seq(S) /\ Len(SubSeq(q, 1, Len(q) - 1)) = 0
  BY <1>2
<1>5. \A t : t \in Seq(S \union {e}) /\ Len(t) = 0 => t = <<>>
  BY EmptySeq
<1>6. \A t : t \in Seq(S) /\ Len(t) = 0 => t = <<>>
  BY EmptySeq
<1>7. QED BY <1>3, <1>4, <1>5, <1>6


\* The lines of a queue, before and after the sentinel.
LEMMA LinesPlain == ASSUME NEW q \in Seq(Line) PROVE LinesOf(q) = q
  BY LineAssumption DEF LinesOf

LEMMA LinesMarked == ASSUME NEW q \in Seq(Line) PROVE LinesOf(Append(q, EOF)) = q
<1>1. Append(q, EOF) # <<>> /\ Append(q, EOF)[Len(Append(q, EOF))] = EOF
  OBVIOUS
<1>2. QED BY <1>1, LineAssumption, WithoutLast DEF LinesOf

\* Taking a line from the queue.
LEMMA GetKeepsOrder ==
  ASSUME NEW a \in Seq(Line), NEW q \in Seq(Line \union {EOF}), q # <<>>, Head(q) # EOF,
         \/ q \in Seq(Line)
         \/ q[Len(q)] = EOF /\ \A i \in 1 .. Len(q) - 1 : q[i] \in Line
  PROVE  Append(a, Head(q)) \o LinesOf(Tail(q)) = a \o LinesOf(q)
<1>1. CASE q \in Seq(Line)
  <2>1. Tail(q) \in Seq(Line)
    BY <1>1
  <2>2. LinesOf(q) = q /\ LinesOf(Tail(q)) = Tail(q)
    BY <1>1, <2>1, LinesPlain
  <2>3. QED BY <1>1, <2>2, HeadMoves
<1>2. CASE q[Len(q)] = EOF /\ \A i \in 1 .. Len(q) - 1 : q[i] \in Line
  <2> DEFINE t == Tail(q)  b == SubSeq(q, 1, Len(q) - 1)
  <2>1. /\ t # <<>> /\ t[Len(t)] = EOF
        /\ b \in Seq(Line) /\ b # <<>> /\ Head(b) = Head(q) /\ Tail(b) = SubSeq(t, 1, Len(t) - 1)
    BY <1>2, LineAssumption, EndOfTail
  <2>2. LinesOf(q) = b /\ LinesOf(t) = Tail(b)
    BY <1>2, <2>1 DEF LinesOf
  <2>3. Append(a, Head(b)) \o Tail(b) = a \o b
    BY <2>1, HeadMoves
  <2>4. QED BY <2>1, <2>2, <2>3
<1>3. QED BY <1>1, <1>2

\* Reading a line into the queue.
LEMMA ReadKeepsOrder ==
  ASSUME NEW a \in Seq(Line), NEW q \in Seq(Line), NEW p \in Seq(Line), p # <<>>
  PROVE  a \o LinesOf(Append(q, Head(p))) \o Tail(p) = a \o LinesOf(q) \o p
<1>1. Head(p) \in Line /\ Append(q, Head(p)) \in Seq(Line) /\ a \o q \in Seq(Line)
  OBVIOUS
<1>2. LinesOf(q) = q /\ LinesOf(Append(q, Head(p))) = Append(q, Head(p))
  BY <1>1, LinesPlain
<1>3. a \o Append(q, Head(p)) = Append(a \o q, Head(p))
  BY <1>1, AppendMoves
<1>4. Append(a \o q, Head(p)) \o Tail(p) = (a \o q) \o p
  BY <1>1, HeadMoves
<1>5. QED BY <1>2, <1>3, <1>4

\* Trails written out.
LEMMA AppendOne == ASSUME NEW a, NEW b PROVE Append(<<a>>, b) = <<a, b>>
<1>1. <<a>> \in Seq({a, b}) /\ <<a, b>> \in Seq({a, b}) /\ Len(<<a>>) = 1 /\ Len(<<a, b>>) = 2
  OBVIOUS
<1>2. Append(<<a>>, b) \in Seq({a, b}) /\ Len(Append(<<a>>, b)) = 2
  BY <1>1
<1>3. \A i \in 1 .. 2 : Append(<<a>>, b)[i] = <<a, b>>[i]
  BY <1>1
<1>4. QED BY <1>1, <1>2, <1>3, SeqEqual

LEMMA AppendTwo == ASSUME NEW a, NEW b, NEW c PROVE Append(<<a, b>>, c) = <<a, b, c>>
<1>1. /\ <<a, b>> \in Seq({a, b, c}) /\ <<a, b, c>> \in Seq({a, b, c})
      /\ Len(<<a, b>>) = 2 /\ Len(<<a, b, c>>) = 3
  OBVIOUS
<1>2. Append(<<a, b>>, c) \in Seq({a, b, c}) /\ Len(Append(<<a, b>>, c)) = 3
  BY <1>1
<1>3. \A i \in 1 .. 3 : Append(<<a, b>>, c)[i] = <<a, b, c>>[i]
  BY <1>1
<1>4. QED BY <1>1, <1>2, <1>3, SeqEqual
-----------------------------------------------------------------------------
(* The type invariant. *)

\* The mode a call takes is a Boolean, whichever way it is given.
LEMMA DryRunIsBoolean == EffectiveDryRun \in BOOLEAN
  BY FlagAssumption DEF EffectiveDryRun

\* What Return builds is an ExecutionResult.
LEMMA ReturnTyped ==
  ASSUME NEW why \in Verdict, NEW success \in BOOLEAN, NEW output \in Seq(Line),
         Return(why, success, output)
  PROVE  result' \in Result /\ pc' = "returned" /\ result'.why = why /\ result'.out = output
         /\ result'.success = success
  BY DryRunIsBoolean DEF Return, Result, Goto

\* Every variable keeps to the values runner.py can give it.
THEOREM TypeCorrect == Spec => []TypeOK
<1> USE LineAssumption, ExitAssumption, TimeAssumption
    DEF TypeOK, At, Goto, Audit, Kill, GiveUp, callVars, procVars, Label, AuditEntry, NoResult
<1>1. Init => TypeOK
  BY DEF Init
<1>2. TypeOK /\ [Next]_vars => TypeOK'
  <2> SUFFICES ASSUME TypeOK, [Next]_vars PROVE TypeOK'
    OBVIOUS
  <2>1. CASE ValidateCommand
    <3>1. pc' \in Label
      BY <2>1, DryRunIsBoolean DEF ValidateCommand
    <3>2. trail' \in Seq(AuditEntry)
      <4>1. \/ trail' = Append(trail, "source_approved")
            \/ trail' = Append(trail, "source_rejected")
        BY <2>1 DEF ValidateCommand
      <4>2. CASE trail' = Append(trail, "source_approved")
        BY <4>2
      <4>3. CASE trail' = Append(trail, "source_rejected")
        BY <4>3
      <4>4. QED BY <4>1, <4>2, <4>3
    <3>3. QED BY <2>1, <3>1, <3>2 DEF ValidateCommand
  <2>2. CASE Blocked
    <3>1. <<>> \in Seq(Line) /\ "rejected" \in Verdict
      BY DEF Verdict
    <3>2. (FALSE) \in BOOLEAN
      OBVIOUS
    <3>3. result' \in Result /\ pc' = "returned"
      BY <2>2, <3>1, <3>2, ReturnTyped DEF Blocked
    <3>4. QED BY <2>2, <3>3 DEF Blocked
  <2>3. CASE DryRun
    <3>1. trail' \in Seq(AuditEntry)
      BY <2>3 DEF DryRun
    <3>2. CASE Streaming
      <4>1. pc' = "notice" /\ delivered' = Append(delivered, Notice) /\ result' = result
        BY <2>3, <3>2 DEF DryRun
      <4>2. delivered' \in Seq(Line \union {Notice})
        BY <4>1
      <4>3. QED BY <2>3, <3>1, <4>1, <4>2 DEF DryRun
    <3>3. CASE ~Streaming
      <4>1. "dry_run" \in Verdict /\ <<>> \in Seq(Line) /\ TRUE \in BOOLEAN
        BY DEF Verdict
      <4>2. Return("dry_run", TRUE, <<>>) /\ UNCHANGED delivered
        BY <2>3, <3>3 DEF DryRun
      <4>3. result' \in Result /\ pc' = "returned"
        BY <4>1, <4>2, ReturnTyped
      <4>4. QED BY <2>3, <3>1, <4>2, <4>3 DEF DryRun
    <3>4. QED BY <3>2, <3>3
  <2>4. CASE RecordExecute
    BY <2>4 DEF RecordExecute
  <2>5. CASE Launch
    BY <2>5 DEF Launch
  <2>6. CASE LaunchFails
    BY <2>6 DEF LaunchFails
  <2>7. CASE Failed
    <3>1. <<>> \in Seq(Line) /\ "os_error" \in Verdict
      BY DEF Verdict
    <3>2. (FALSE) \in BOOLEAN
      OBVIOUS
    <3>3. result' \in Result /\ pc' = "returned"
      BY <2>7, <3>1, <3>2, ReturnTyped DEF Failed
    <3>4. QED BY <2>7, <3>3 DEF Failed
  <2>8. CASE CheckDeadline
    <3>1. UNCHANGED <<call, result, trail, acc, delivered, exitCode, writers, pipe, written,
                      queue, reader, now>>
      BY <2>8 DEF CheckDeadline
    <3>2. pc' \in {"reap", "get"} /\ wakeAt' \in {now + Grace, now + 1}
      BY <2>8 DEF CheckDeadline
    <3>3. proc' \in {proc, "killed"}
      BY <2>8 DEF CheckDeadline
    <3>4. QED BY <3>1, <3>2, <3>3
  <2>9. CASE GetLine
    <3>1. Head(queue) \in Line /\ queue' \in Seq(Line \union {EOF})
      BY <2>9 DEF GetLine
    <3>2. acc' \in Seq(Line)
      BY <2>9, <3>1 DEF GetLine
    <3>3. delivered' \in Seq(Line \union {Notice}) /\ pc' \in Label
      <4>1. \/ pc' = "loop" /\ delivered' = delivered
            \/ pc' = "yield" /\ delivered' = Append(delivered, Head(queue))
        BY <2>9 DEF GetLine
      <4>2. CASE pc' = "loop" /\ delivered' = delivered
        BY <4>2
      <4>3. CASE pc' = "yield" /\ delivered' = Append(delivered, Head(queue))
        BY <3>1, <4>3
      <4>4. QED BY <4>1, <4>2, <4>3
    <3>4. QED BY <2>9, <3>1, <3>2, <3>3 DEF GetLine
  <2>10. CASE GetEOF
    BY <2>10 DEF GetEOF
  <2>11. CASE GetEmpty
    BY <2>11 DEF GetEmpty
  <2>12. CASE WaitDone
    BY <2>12 DEF WaitDone
  <2>13. CASE WaitExpires
    BY <2>13 DEF WaitExpires
  <2>14. CASE Reaped
    BY <2>14 DEF Reaped
  <2>15. CASE ReapExpires
    BY <2>15 DEF ReapExpires
  <2>16. CASE TimedOut
    <3>1. <<>> \in Seq(Line) /\ "timeout" \in Verdict
      BY DEF Verdict
    <3>2. (FALSE) \in BOOLEAN
      OBVIOUS
    <3>3. result' \in Result /\ pc' = "returned"
      BY <2>16, <3>1, <3>2, ReturnTyped DEF TimedOut
    <3>4. QED BY <2>16, <3>3 DEF TimedOut
  <2>17. CASE Complete
    <3>1. acc \in Seq(Line) /\ "complete" \in Verdict
      BY DEF Verdict
    <3>2. (exitCode = 0) \in BOOLEAN
      OBVIOUS
    <3>3. result' \in Result /\ pc' = "returned"
      BY <2>17, <3>1, <3>2, ReturnTyped DEF Complete
    <3>4. QED BY <2>17, <3>3 DEF Complete
  <2>18. CASE Communicate
    BY <2>18 DEF Communicate
  <2>19. CASE CommunicateExpires
    BY <2>19 DEF CommunicateExpires
  <2>20. CASE Drained
    BY <2>20 DEF Drained
  <2>21. CASE ReadLine
    BY <2>21 DEF ReadLine
  <2>22. CASE ReadEOF
    BY <2>22 DEF ReadEOF
  <2>23. ASSUME NEW w \in writers, CloseOutput(w) PROVE TypeOK'
    BY <2>23 DEF CloseOutput
  <2>24. ASSUME NEW w \in writers, NEW l \in Line, Write(w, l) PROVE TypeOK'
    BY <2>24 DEF Write
  <2>25. CASE Fork
    BY <2>25 DEF Fork
  <2>26. CASE Die
    BY <2>26 DEF Die
  <2>27. ASSUME NEW code \in ExitCode, Exit(code) PROVE TypeOK'
    BY <2>27 DEF Exit
  <2>28. CASE AuditFails
    BY <2>28 DEF AuditFails
  <2>29. CASE Pull
    <3>1. CASE At("yield")
      BY <2>29, <3>1 DEF Pull
    <3>2. CASE At("notice")
      <4>1. "dry_run" \in Verdict /\ <<>> \in Seq(Line) /\ TRUE \in BOOLEAN
        BY DEF Verdict
      <4>2. result' \in Result /\ pc' = "returned"
        BY <2>29, <3>2, <4>1, ReturnTyped DEF Pull
      <4>3. QED BY <2>29, <4>2 DEF Pull
    <3>3. QED BY <2>29, <3>1, <3>2 DEF Pull
  <2>30. CASE Close
    BY <2>30 DEF Close
  <2>31. CASE Tick
    BY <2>31 DEF Tick
  <2>32. CASE UNCHANGED vars
    BY <2>32 DEF vars, callVars, procVars
  <2> QED
    BY <2>1, <2>2, <2>3, <2>4, <2>5, <2>6, <2>7, <2>8, <2>9, <2>10, <2>11, <2>12, <2>13, <2>14, <2>15, <2>16, <2>17, <2>18, <2>19, <2>20, <2>21, <2>22, <2>23, <2>24, <2>25, <2>26, <2>27, <2>28, <2>29, <2>30, <2>31, <2>32
    DEF Next, Caller, Reader, Environment
<1>3. QED BY <1>1, <1>2, PTL DEF Spec

-----------------------------------------------------------------------------
(* Where the process is. *)

\* Every step keeps ProcInv; a waited-for process left the pipe closed (QueueInv).
LEMMA ProcStep ==
  TypeOK /\ ProcInv /\ QueueInv /\ [Next]_vars => ProcInv'
<1> SUFFICES ASSUME TypeOK, ProcInv, QueueInv, [Next]_vars
            PROVE  ProcInv'
  OBVIOUS
<1> USE TimeAssumption DEF TypeOK, ProcInv, QueueInv, BeforeLaunch, InLoop, At, Goto, Audit, Return, Kill, GiveUp, callVars, procVars
<1>1. CASE ValidateCommand
  BY <1>1 DEF ValidateCommand
<1>2. CASE Blocked
  BY <1>2 DEF Blocked
<1>3. CASE DryRun
  BY <1>3 DEF DryRun
<1>4. CASE RecordExecute
  BY <1>4 DEF RecordExecute
<1>5. CASE Launch
  BY <1>5 DEF Launch
<1>6. CASE LaunchFails
  BY <1>6 DEF LaunchFails
<1>7. CASE Failed
  BY <1>7 DEF Failed
<1>8. CASE CheckDeadline
  BY <1>8 DEF CheckDeadline
<1>9. CASE GetLine
  BY <1>9 DEF GetLine
<1>10. CASE GetEOF
  BY <1>10 DEF GetEOF
<1>11. CASE GetEmpty
  BY <1>11 DEF GetEmpty
<1>12. CASE WaitDone
  BY <1>12 DEF WaitDone
<1>13. CASE WaitExpires
  BY <1>13 DEF WaitExpires
<1>14. CASE Reaped
  BY <1>14 DEF Reaped
<1>15. CASE ReapExpires
  BY <1>15 DEF ReapExpires
<1>16. CASE TimedOut
  BY <1>16 DEF TimedOut
<1>17. CASE Complete
  BY <1>17 DEF Complete
<1>18. CASE Communicate
  BY <1>18 DEF Communicate
<1>19. CASE CommunicateExpires
  BY <1>19 DEF CommunicateExpires
<1>20. CASE Drained
  BY <1>20 DEF Drained
<1>21. CASE ReadLine
  BY <1>21 DEF ReadLine
<1>22. CASE ReadEOF
  BY <1>22 DEF ReadEOF
<1>23. ASSUME NEW w \in writers, CloseOutput(w) PROVE ProcInv'
  BY <1>23 DEF CloseOutput
<1>24. ASSUME NEW w \in writers, NEW l \in Line, Write(w, l) PROVE ProcInv'
  BY <1>24 DEF Write
<1>25. CASE Fork
  BY <1>25 DEF Fork
<1>26. CASE Die
  BY <1>26 DEF Die
<1>27. ASSUME NEW code \in ExitCode, Exit(code) PROVE ProcInv'
  BY <1>27 DEF Exit
<1>28. CASE AuditFails
  BY <1>28 DEF AuditFails
<1>29. CASE Pull
  BY <1>29 DEF Pull
<1>30. CASE Close
  BY <1>30 DEF Close
<1>31. CASE Tick
  BY <1>31 DEF Tick
<1>32. CASE UNCHANGED vars
  BY <1>32 DEF vars, callVars, procVars
<1> QED
  BY <1>1, <1>2, <1>3, <1>4, <1>5, <1>6, <1>7, <1>8, <1>9, <1>10, <1>11, <1>12, <1>13, <1>14, <1>15, <1>16, <1>17, <1>18, <1>19, <1>20, <1>21, <1>22, <1>23, <1>24, <1>25, <1>26, <1>27, <1>28, <1>29, <1>30, <1>31, <1>32
  DEF Next, Caller, Reader, Environment

-----------------------------------------------------------------------------
(* The audit trail. *)

\* No step changes what the call was asked to do.
LEMMA CallFixed == [Next]_vars => call' = call /\ EffectiveDryRun' = EffectiveDryRun
<1>1. [Next]_vars => call' = call
  BY DEF vars, callVars, Next, Caller, Reader, Environment, ValidateCommand, Blocked, DryRun,
         RecordExecute, Launch, LaunchFails, Failed, CheckDeadline, GiveUp, GetLine, GetEOF,
         GetEmpty, WaitDone, WaitExpires, Reaped, ReapExpires, TimedOut, Complete, Communicate,
         CommunicateExpires, Drained, AuditFails, Pull, Close, ReadLine, ReadEOF, Write, Fork,
         CloseOutput, Exit, Die, Tick
<1>2. QED BY <1>1 DEF EffectiveDryRun

\* Every step keeps TrailInv.
LEMMA TrailStep ==
  TypeOK /\ TrailInv /\ [Next]_vars => TrailInv'
<1> SUFFICES ASSUME TypeOK, TrailInv, [Next]_vars, call' = call,
                   EffectiveDryRun' = EffectiveDryRun
            PROVE  TrailInv'
  BY CallFixed
<1> USE DEF TypeOK, TrailInv, AfterLaunch, InLoop, At, Goto, Audit, Return, Kill, GiveUp, callVars, procVars
<1>1. CASE ValidateCommand
  BY <1>1 DEF ValidateCommand
<1>2. CASE Blocked
  BY <1>2 DEF Blocked
<1>3. CASE DryRun
  BY <1>3, AppendOne DEF DryRun
<1>4. CASE RecordExecute
  BY <1>4, AppendOne DEF RecordExecute
<1>5. CASE Launch
  BY <1>5 DEF Launch
<1>6. CASE LaunchFails
  BY <1>6 DEF LaunchFails
<1>7. CASE Failed
  BY <1>7 DEF Failed
<1>8. CASE CheckDeadline
  BY <1>8 DEF CheckDeadline
<1>9. CASE GetLine
  BY <1>9 DEF GetLine
<1>10. CASE GetEOF
  BY <1>10 DEF GetEOF
<1>11. CASE GetEmpty
  BY <1>11 DEF GetEmpty
<1>12. CASE WaitDone
  BY <1>12 DEF WaitDone
<1>13. CASE WaitExpires
  BY <1>13 DEF WaitExpires
<1>14. CASE Reaped
  BY <1>14 DEF Reaped
<1>15. CASE ReapExpires
  BY <1>15 DEF ReapExpires
<1>16. CASE TimedOut
  BY <1>16 DEF TimedOut
<1>17. CASE Complete
  BY <1>17 DEF Complete
<1>18. CASE Communicate
  BY <1>18 DEF Communicate
<1>19. CASE CommunicateExpires
  BY <1>19 DEF CommunicateExpires
<1>20. CASE Drained
  BY <1>20 DEF Drained
<1>21. CASE ReadLine
  BY <1>21 DEF ReadLine
<1>22. CASE ReadEOF
  BY <1>22 DEF ReadEOF
<1>23. ASSUME NEW w \in writers, CloseOutput(w) PROVE TrailInv'
  BY <1>23 DEF CloseOutput
<1>24. ASSUME NEW w \in writers, NEW l \in Line, Write(w, l) PROVE TrailInv'
  BY <1>24 DEF Write
<1>25. CASE Fork
  BY <1>25 DEF Fork
<1>26. CASE Die
  BY <1>26 DEF Die
<1>27. ASSUME NEW code \in ExitCode, Exit(code) PROVE TrailInv'
  BY <1>27 DEF Exit
<1>28. CASE AuditFails
  BY <1>28 DEF AuditFails
<1>29. CASE Pull
  BY <1>29 DEF Pull
<1>30. CASE Close
  BY <1>30 DEF Close
<1>31. CASE Tick
  BY <1>31 DEF Tick
<1>32. CASE UNCHANGED vars
  BY <1>32 DEF vars, callVars, procVars
<1> QED
  BY <1>1, <1>2, <1>3, <1>4, <1>5, <1>6, <1>7, <1>8, <1>9, <1>10, <1>11, <1>12, <1>13, <1>14, <1>15, <1>16, <1>17, <1>18, <1>19, <1>20, <1>21, <1>22, <1>23, <1>24, <1>25, <1>26, <1>27, <1>28, <1>29, <1>30, <1>31, <1>32
  DEF Next, Caller, Reader, Environment

-----------------------------------------------------------------------------
(* The output. *)

\* Every step keeps QueueInv; what is complete is all that was written.
LEMMA QueueStep ==
  TypeOK /\ ProcInv /\ QueueInv /\ OutputConserved /\ [Next]_vars => QueueInv'
<1> SUFFICES ASSUME TypeOK, ProcInv, QueueInv, OutputConserved, [Next]_vars
            PROVE  QueueInv'
  OBVIOUS
<1> USE DEF TypeOK, ProcInv, QueueInv, BeforeLaunch, InLoop, At, Goto, Audit, Return, Kill, GiveUp, callVars, procVars
<1>1. CASE ValidateCommand
  BY <1>1 DEF ValidateCommand
<1>2. CASE Blocked
  BY <1>2 DEF Blocked
<1>3. CASE DryRun
  BY <1>3 DEF DryRun
<1>4. CASE RecordExecute
  BY <1>4 DEF RecordExecute
<1>5. CASE Launch
  BY <1>5 DEF Launch
<1>6. CASE LaunchFails
  BY <1>6 DEF LaunchFails
<1>7. CASE Failed
  BY <1>7 DEF Failed
<1>8. CASE CheckDeadline
  BY <1>8 DEF CheckDeadline
<1>9. CASE GetLine
  BY <1>9 DEF GetLine
<1>10. CASE GetEOF
  <2>1. reader = "done"
    BY <1>10, LineAssumption DEF GetEOF
  <2>2. Tail(queue) = <<>>
    BY <1>10, <2>1, LineAssumption, SentinelAlone DEF GetEOF
  <2>3. QED BY <1>10, <2>1, <2>2 DEF GetEOF
<1>11. CASE GetEmpty
  BY <1>11 DEF GetEmpty
<1>12. CASE WaitDone
  <2>1. LinesOf(queue) = <<>> /\ pipe = <<>>
    BY <1>12 DEF WaitDone, LinesOf
  <2>2. acc = written
    BY <2>1, ConcatEmptySeq DEF OutputConserved
  <2>3. QED BY <1>12, <2>2 DEF WaitDone
<1>13. CASE WaitExpires
  BY <1>13 DEF WaitExpires
<1>14. CASE Reaped
  BY <1>14 DEF Reaped
<1>15. CASE ReapExpires
  BY <1>15 DEF ReapExpires
<1>16. CASE TimedOut
  BY <1>16 DEF TimedOut
<1>17. CASE Complete
  BY <1>17 DEF Complete
<1>18. CASE Communicate
  <2>1. LinesOf(queue) = <<>>
    BY <1>18 DEF Communicate, LinesOf
  <2>2. acc \o pipe = written
    BY <2>1, ConcatEmptySeq DEF OutputConserved
  <2>3. QED BY <1>18, <2>2 DEF Communicate
<1>19. CASE CommunicateExpires
  BY <1>19 DEF CommunicateExpires
<1>20. CASE Drained
  BY <1>20 DEF Drained
<1>21. CASE ReadLine
  BY <1>21 DEF ReadLine
<1>22. CASE ReadEOF
  BY <1>22 DEF ReadEOF
<1>23. ASSUME NEW w \in writers, CloseOutput(w) PROVE QueueInv'
  BY <1>23 DEF CloseOutput
<1>24. ASSUME NEW w \in writers, NEW l \in Line, Write(w, l) PROVE QueueInv'
  BY <1>24 DEF Write
<1>25. CASE Fork
  BY <1>25 DEF Fork
<1>26. CASE Die
  BY <1>26 DEF Die
<1>27. ASSUME NEW code \in ExitCode, Exit(code) PROVE QueueInv'
  BY <1>27 DEF Exit
<1>28. CASE AuditFails
  BY <1>28 DEF AuditFails
<1>29. CASE Pull
  BY <1>29 DEF Pull
<1>30. CASE Close
  BY <1>30 DEF Close
<1>31. CASE Tick
  BY <1>31 DEF Tick
<1>32. CASE UNCHANGED vars
  BY <1>32 DEF vars, callVars, procVars
<1> QED
  BY <1>1, <1>2, <1>3, <1>4, <1>5, <1>6, <1>7, <1>8, <1>9, <1>10, <1>11, <1>12, <1>13, <1>14, <1>15, <1>16, <1>17, <1>18, <1>19, <1>20, <1>21, <1>22, <1>23, <1>24, <1>25, <1>26, <1>27, <1>28, <1>29, <1>30, <1>31, <1>32
  DEF Next, Caller, Reader, Environment

\* Every step keeps the order of the output.
LEMMA OutputStep ==
  TypeOK /\ ProcInv /\ QueueInv /\ OutputConserved /\ [Next]_vars => OutputConserved'
<1> SUFFICES ASSUME TypeOK, ProcInv, QueueInv, OutputConserved, [Next]_vars
            PROVE  OutputConserved'
  OBVIOUS
<1> USE DEF TypeOK, ProcInv, QueueInv, BeforeLaunch, OutputConserved, At, Goto, Audit, Return, Kill, GiveUp, callVars, procVars
<1>1. CASE ValidateCommand
  BY <1>1 DEF ValidateCommand
<1>2. CASE Blocked
  BY <1>2 DEF Blocked
<1>3. CASE DryRun
  BY <1>3 DEF DryRun
<1>4. CASE RecordExecute
  BY <1>4 DEF RecordExecute
<1>5. CASE Launch
  BY <1>5 DEF Launch
<1>6. CASE LaunchFails
  BY <1>6 DEF LaunchFails
<1>7. CASE Failed
  BY <1>7 DEF Failed
<1>8. CASE CheckDeadline
  BY <1>8 DEF CheckDeadline
<1>9. CASE GetLine
  <2>1. \/ queue \in Seq(Line)
        \/ queue[Len(queue)] = EOF /\ \A i \in 1 .. Len(queue) - 1 : queue[i] \in Line
    BY <1>9 DEF GetLine
  <2>2. /\ queue # <<>> /\ Head(queue) # EOF /\ queue' = Tail(queue)
        /\ acc' = Append(acc, Head(queue)) /\ pipe' = pipe /\ written' = written
    BY <1>9 DEF GetLine
  <2>3. Append(acc, Head(queue)) \o LinesOf(Tail(queue)) = acc \o LinesOf(queue)
    BY <2>1, <2>2, GetKeepsOrder
  <2>4. LinesOf(queue)' = LinesOf(Tail(queue))
    BY <2>2 DEF LinesOf
  <2>5. QED BY <2>2, <2>3, <2>4
<1>10. CASE GetEOF
  <2>1. reader = "done"
    BY <1>10, LineAssumption DEF GetEOF
  <2>2. LinesOf(queue) = <<>> /\ queue' = <<>>
    BY <1>10, <2>1, LineAssumption, SentinelAlone DEF GetEOF, LinesOf
  <2>3. LinesOf(queue)' = <<>>
    BY <2>2 DEF LinesOf
  <2>4. QED BY <1>10, <2>2, <2>3 DEF GetEOF
<1>11. CASE GetEmpty
  BY <1>11 DEF GetEmpty
<1>12. CASE WaitDone
  BY <1>12 DEF WaitDone
<1>13. CASE WaitExpires
  BY <1>13 DEF WaitExpires
<1>14. CASE Reaped
  BY <1>14 DEF Reaped
<1>15. CASE ReapExpires
  BY <1>15 DEF ReapExpires
<1>16. CASE TimedOut
  BY <1>16 DEF TimedOut
<1>17. CASE Complete
  BY <1>17 DEF Complete
<1>18. CASE Communicate
  <2>1. LinesOf(queue) = <<>> /\ LinesOf(queue)' = <<>>
    BY <1>18 DEF Communicate, LinesOf
  <2>2. acc \o pipe = written /\ acc' = acc \o pipe /\ pipe' = <<>> /\ written' = written
    BY <1>18, <2>1, ConcatEmptySeq DEF Communicate
  <2>3. acc' \in Seq(Line)
    BY <2>2
  <2>4. QED BY <2>1, <2>2, <2>3, ConcatEmptySeq
<1>19. CASE CommunicateExpires
  BY <1>19 DEF CommunicateExpires
<1>20. CASE Drained
  BY <1>20 DEF Drained
<1>21. CASE ReadLine
  <2>1. queue \in Seq(Line) /\ acc \in Seq(Line) /\ pipe \in Seq(Line) /\ pipe # <<>>
    BY <1>21 DEF ReadLine
  <2>2. queue' = Append(queue, Head(pipe)) /\ pipe' = Tail(pipe)
        /\ acc' = acc /\ written' = written
    BY <1>21 DEF ReadLine
  <2>3. LinesOf(queue)' = LinesOf(Append(queue, Head(pipe)))
    BY <2>2 DEF LinesOf
  <2>4. acc \o LinesOf(Append(queue, Head(pipe))) \o Tail(pipe) = acc \o LinesOf(queue) \o pipe
    BY ONLY <2>1, ReadKeepsOrder
  <2>5. QED BY <2>2, <2>3, <2>4
<1>22. CASE ReadEOF
  <2>1. queue \in Seq(Line) /\ queue' = Append(queue, EOF)
    BY <1>22 DEF ReadEOF
  <2>2. LinesOf(queue)' = LinesOf(queue)
    BY <2>1, LinesPlain, LinesMarked DEF LinesOf
  <2>3. QED BY <1>22, <2>2 DEF ReadEOF
<1>23. ASSUME NEW w \in writers, CloseOutput(w) PROVE OutputConserved'
  BY <1>23 DEF CloseOutput
<1>24. ASSUME NEW w \in writers, NEW l \in Line, Write(w, l) PROVE OutputConserved'
  <2>1. queue \in Seq(Line) /\ LinesOf(queue) = queue /\ LinesOf(queue)' = queue
    BY <1>24, LinesPlain DEF Write, LinesOf
  <2>2. acc \o queue \in Seq(Line)
    BY <2>1
  <2>3. (acc \o queue) \o Append(pipe, l) = Append((acc \o queue) \o pipe, l)
    BY <2>2, AppendMoves
  <2>4. QED BY <1>24, <2>1, <2>3 DEF Write
<1>25. CASE Fork
  BY <1>25 DEF Fork
<1>26. CASE Die
  BY <1>26 DEF Die
<1>27. ASSUME NEW code \in ExitCode, Exit(code) PROVE OutputConserved'
  BY <1>27 DEF Exit
<1>28. CASE AuditFails
  BY <1>28 DEF AuditFails
<1>29. CASE Pull
  BY <1>29 DEF Pull
<1>30. CASE Close
  BY <1>30 DEF Close
<1>31. CASE Tick
  BY <1>31 DEF Tick
<1>32. CASE UNCHANGED vars
  BY <1>32 DEF vars, callVars, procVars
<1> QED
  BY <1>1, <1>2, <1>3, <1>4, <1>5, <1>6, <1>7, <1>8, <1>9, <1>10, <1>11, <1>12, <1>13, <1>14, <1>15, <1>16, <1>17, <1>18, <1>19, <1>20, <1>21, <1>22, <1>23, <1>24, <1>25, <1>26, <1>27, <1>28, <1>29, <1>30, <1>31, <1>32
  DEF Next, Caller, Reader, Environment

-----------------------------------------------------------------------------
(* The result. *)

\* Every step keeps ResultInv.
LEMMA ResultStep ==
  TypeOK /\ ProcInv /\ QueueInv /\ ResultInv /\ [Next]_vars => ResultInv'
<1> SUFFICES ASSUME TypeOK, ProcInv, QueueInv, ResultInv, [Next]_vars
            PROVE  ResultInv'
  OBVIOUS
<1> USE TimeAssumption DEF TypeOK, ProcInv, QueueInv, ResultInv, CompleteMeansAll, BeforeLaunch, InLoop, At, Goto, Audit, Kill, GiveUp, callVars, procVars
<1>1. CASE ValidateCommand
  BY <1>1 DEF ValidateCommand
<1>2. CASE Blocked
  <2>1. <<>> \in Seq(Line) /\ "rejected" \in Verdict /\ (FALSE) \in BOOLEAN
    BY DEF Verdict
  <2>2. result' \in Result /\ pc' = "returned" /\ result'.why = "rejected" /\ result'.out = <<>>
        /\ result'.success = (FALSE)
    BY <1>2, <2>1, ReturnTyped DEF Blocked
  <2>3. QED BY <1>2, <2>2 DEF Blocked, CompleteMeansAll
<1>3. CASE DryRun
  <2>1. CASE Streaming
    <3>1. pc' = "notice" /\ result' = result
      BY <1>3, <2>1 DEF DryRun
    <3>2. QED BY <1>3, <3>1 DEF DryRun
  <2>2. CASE ~Streaming
    <3>1. "dry_run" \in Verdict /\ <<>> \in Seq(Line) /\ TRUE \in BOOLEAN
      BY DEF Verdict
    <3>2. Return("dry_run", TRUE, <<>>)
      BY <1>3, <2>2 DEF DryRun
    <3>3. result' \in Result /\ pc' = "returned" /\ result'.why = "dry_run"
      BY <3>1, <3>2, ReturnTyped
    <3>4. QED BY <1>3, <3>3 DEF DryRun
  <2>3. QED BY <2>1, <2>2
<1>4. CASE RecordExecute
  BY <1>4 DEF RecordExecute
<1>5. CASE Launch
  BY <1>5 DEF Launch
<1>6. CASE LaunchFails
  BY <1>6 DEF LaunchFails
<1>7. CASE Failed
  <2>1. <<>> \in Seq(Line) /\ "os_error" \in Verdict /\ (FALSE) \in BOOLEAN
    BY DEF Verdict
  <2>2. result' \in Result /\ pc' = "returned" /\ result'.why = "os_error" /\ result'.out = <<>>
        /\ result'.success = (FALSE)
    BY <1>7, <2>1, ReturnTyped DEF Failed
  <2>3. QED BY <1>7, <2>2 DEF Failed, CompleteMeansAll
<1>8. CASE CheckDeadline
  BY <1>8 DEF CheckDeadline
<1>9. CASE GetLine
  BY <1>9 DEF GetLine
<1>10. CASE GetEOF
  BY <1>10 DEF GetEOF
<1>11. CASE GetEmpty
  BY <1>11 DEF GetEmpty
<1>12. CASE WaitDone
  BY <1>12 DEF WaitDone
<1>13. CASE WaitExpires
  BY <1>13 DEF WaitExpires
<1>14. CASE Reaped
  BY <1>14 DEF Reaped
<1>15. CASE ReapExpires
  BY <1>15 DEF ReapExpires
<1>16. CASE TimedOut
  <2>1. <<>> \in Seq(Line) /\ "timeout" \in Verdict /\ (FALSE) \in BOOLEAN
    BY DEF Verdict
  <2>2. result' \in Result /\ pc' = "returned" /\ result'.why = "timeout" /\ result'.out = <<>>
        /\ result'.success = (FALSE)
    BY <1>16, <2>1, ReturnTyped DEF TimedOut
  <2>3. QED BY <1>16, <2>2 DEF TimedOut, CompleteMeansAll
<1>17. CASE Complete
  <2>1. acc \in Seq(Line) /\ "complete" \in Verdict /\ (exitCode = 0) \in BOOLEAN
    BY DEF Verdict
  <2>2. result' \in Result /\ pc' = "returned" /\ result'.why = "complete" /\ result'.out = acc
        /\ result'.success = (exitCode = 0)
    BY <1>17, <2>1, ReturnTyped DEF Complete
  <2>3. QED BY <1>17, <2>2 DEF Complete, CompleteMeansAll
<1>18. CASE Communicate
  BY <1>18 DEF Communicate
<1>19. CASE CommunicateExpires
  BY <1>19 DEF CommunicateExpires
<1>20. CASE Drained
  BY <1>20 DEF Drained
<1>21. CASE ReadLine
  BY <1>21 DEF ReadLine
<1>22. CASE ReadEOF
  BY <1>22 DEF ReadEOF
<1>23. ASSUME NEW w \in writers, CloseOutput(w) PROVE ResultInv'
  BY <1>23 DEF CloseOutput
<1>24. ASSUME NEW w \in writers, NEW l \in Line, Write(w, l) PROVE ResultInv'
  BY <1>24 DEF Write
<1>25. CASE Fork
  BY <1>25 DEF Fork
<1>26. CASE Die
  BY <1>26 DEF Die
<1>27. ASSUME NEW code \in ExitCode, Exit(code) PROVE ResultInv'
  BY <1>27 DEF Exit
<1>28. CASE AuditFails
  BY <1>28 DEF AuditFails
<1>29. CASE Pull
  <2>1. CASE At("yield")
    BY <1>29, <2>1 DEF Pull
  <2>2. CASE At("notice")
    <3>1. "dry_run" \in Verdict /\ <<>> \in Seq(Line) /\ TRUE \in BOOLEAN
      BY DEF Verdict
    <3>2. result' \in Result /\ pc' = "returned" /\ result'.why = "dry_run"
      BY <1>29, <2>2, <3>1, ReturnTyped DEF Pull
    <3>3. QED BY <1>29, <2>2, <3>2 DEF Pull
  <2>3. QED BY <1>29, <2>1, <2>2 DEF Pull
<1>30. CASE Close
  BY <1>30 DEF Close
<1>31. CASE Tick
  BY <1>31 DEF Tick
<1>32. CASE UNCHANGED vars
  BY <1>32 DEF vars, callVars, procVars
<1> QED
  BY <1>1, <1>2, <1>3, <1>4, <1>5, <1>6, <1>7, <1>8, <1>9, <1>10, <1>11, <1>12, <1>13, <1>14, <1>15, <1>16, <1>17, <1>18, <1>19, <1>20, <1>21, <1>22, <1>23, <1>24, <1>25, <1>26, <1>27, <1>28, <1>29, <1>30, <1>31, <1>32
  DEF Next, Caller, Reader, Environment

\* Every step keeps NoRunawayChild.
LEMMA RunawayStep ==
  TypeOK /\ ProcInv /\ NoRunawayChild /\ [Next]_vars => NoRunawayChild'
<1> SUFFICES ASSUME TypeOK, ProcInv, NoRunawayChild, [Next]_vars
            PROVE  NoRunawayChild'
  OBVIOUS
<1> USE DEF TypeOK, ProcInv, NoRunawayChild, BeforeLaunch, InLoop, At, Goto, Audit, Return, Kill, GiveUp, callVars, procVars
<1>1. CASE ValidateCommand
  BY <1>1 DEF ValidateCommand
<1>2. CASE Blocked
  BY <1>2 DEF Blocked
<1>3. CASE DryRun
  BY <1>3 DEF DryRun
<1>4. CASE RecordExecute
  BY <1>4 DEF RecordExecute
<1>5. CASE Launch
  BY <1>5 DEF Launch
<1>6. CASE LaunchFails
  BY <1>6 DEF LaunchFails
<1>7. CASE Failed
  BY <1>7 DEF Failed
<1>8. CASE CheckDeadline
  BY <1>8 DEF CheckDeadline
<1>9. CASE GetLine
  BY <1>9 DEF GetLine
<1>10. CASE GetEOF
  BY <1>10 DEF GetEOF
<1>11. CASE GetEmpty
  BY <1>11 DEF GetEmpty
<1>12. CASE WaitDone
  BY <1>12 DEF WaitDone
<1>13. CASE WaitExpires
  BY <1>13 DEF WaitExpires
<1>14. CASE Reaped
  BY <1>14 DEF Reaped
<1>15. CASE ReapExpires
  BY <1>15 DEF ReapExpires
<1>16. CASE TimedOut
  BY <1>16 DEF TimedOut
<1>17. CASE Complete
  BY <1>17 DEF Complete
<1>18. CASE Communicate
  BY <1>18 DEF Communicate
<1>19. CASE CommunicateExpires
  BY <1>19 DEF CommunicateExpires
<1>20. CASE Drained
  BY <1>20 DEF Drained
<1>21. CASE ReadLine
  BY <1>21 DEF ReadLine
<1>22. CASE ReadEOF
  BY <1>22 DEF ReadEOF
<1>23. ASSUME NEW w \in writers, CloseOutput(w) PROVE NoRunawayChild'
  BY <1>23 DEF CloseOutput
<1>24. ASSUME NEW w \in writers, NEW l \in Line, Write(w, l) PROVE NoRunawayChild'
  BY <1>24 DEF Write
<1>25. CASE Fork
  BY <1>25 DEF Fork
<1>26. CASE Die
  BY <1>26 DEF Die
<1>27. ASSUME NEW code \in ExitCode, Exit(code) PROVE NoRunawayChild'
  BY <1>27 DEF Exit
<1>28. CASE AuditFails
  BY <1>28 DEF AuditFails
<1>29. CASE Pull
  BY <1>29 DEF Pull
<1>30. CASE Close
  BY <1>30 DEF Close
<1>31. CASE Tick
  BY <1>31 DEF Tick
<1>32. CASE UNCHANGED vars
  BY <1>32 DEF vars, callVars, procVars
<1> QED
  BY <1>1, <1>2, <1>3, <1>4, <1>5, <1>6, <1>7, <1>8, <1>9, <1>10, <1>11, <1>12, <1>13, <1>14, <1>15, <1>16, <1>17, <1>18, <1>19, <1>20, <1>21, <1>22, <1>23, <1>24, <1>25, <1>26, <1>27, <1>28, <1>29, <1>30, <1>31, <1>32
  DEF Next, Caller, Reader, Environment

\* Every step keeps NothingBeforeRecord.
LEMMA RecordStep ==
  TypeOK /\ ProcInv /\ TrailInv /\ NothingBeforeRecord /\ [Next]_vars => NothingBeforeRecord'
<1> SUFFICES ASSUME TypeOK, ProcInv, TrailInv, NothingBeforeRecord, [Next]_vars, call' = call,
                   EffectiveDryRun' = EffectiveDryRun
            PROVE  NothingBeforeRecord'
  BY CallFixed
<1> USE DEF TypeOK, ProcInv, TrailInv, NothingBeforeRecord, BeforeLaunch, InLoop, AfterLaunch, At, Goto, Audit, Return, Kill, GiveUp, callVars, procVars
<1>1. CASE ValidateCommand
  BY <1>1 DEF ValidateCommand
<1>2. CASE Blocked
  BY <1>2 DEF Blocked
<1>3. CASE DryRun
  BY <1>3 DEF DryRun
<1>4. CASE RecordExecute
  BY <1>4 DEF RecordExecute
<1>5. CASE Launch
  <2>1. trail = <<"source_approved", "command_execute">> /\ trail' = trail
    BY <1>5 DEF Launch
  <2>2. Len(trail') >= 2 /\ trail'[1] = "source_approved" /\ trail'[2] = "command_execute"
    BY <2>1
  <2>3. QED BY <1>5, <2>2 DEF Launch
<1>6. CASE LaunchFails
  BY <1>6 DEF LaunchFails
<1>7. CASE Failed
  BY <1>7 DEF Failed
<1>8. CASE CheckDeadline
  BY <1>8 DEF CheckDeadline
<1>9. CASE GetLine
  BY <1>9 DEF GetLine
<1>10. CASE GetEOF
  BY <1>10 DEF GetEOF
<1>11. CASE GetEmpty
  BY <1>11 DEF GetEmpty
<1>12. CASE WaitDone
  BY <1>12 DEF WaitDone
<1>13. CASE WaitExpires
  BY <1>13 DEF WaitExpires
<1>14. CASE Reaped
  BY <1>14 DEF Reaped
<1>15. CASE ReapExpires
  BY <1>15 DEF ReapExpires
<1>16. CASE TimedOut
  BY <1>16 DEF TimedOut
<1>17. CASE Complete
  BY <1>17 DEF Complete
<1>18. CASE Communicate
  BY <1>18 DEF Communicate
<1>19. CASE CommunicateExpires
  BY <1>19 DEF CommunicateExpires
<1>20. CASE Drained
  BY <1>20 DEF Drained
<1>21. CASE ReadLine
  BY <1>21 DEF ReadLine
<1>22. CASE ReadEOF
  BY <1>22 DEF ReadEOF
<1>23. ASSUME NEW w \in writers, CloseOutput(w) PROVE NothingBeforeRecord'
  BY <1>23 DEF CloseOutput
<1>24. ASSUME NEW w \in writers, NEW l \in Line, Write(w, l) PROVE NothingBeforeRecord'
  BY <1>24 DEF Write
<1>25. CASE Fork
  BY <1>25 DEF Fork
<1>26. CASE Die
  BY <1>26 DEF Die
<1>27. ASSUME NEW code \in ExitCode, Exit(code) PROVE NothingBeforeRecord'
  BY <1>27 DEF Exit
<1>28. CASE AuditFails
  BY <1>28 DEF AuditFails
<1>29. CASE Pull
  BY <1>29 DEF Pull
<1>30. CASE Close
  BY <1>30 DEF Close
<1>31. CASE Tick
  BY <1>31 DEF Tick
<1>32. CASE UNCHANGED vars
  BY <1>32 DEF vars, callVars, procVars
<1> QED
  BY <1>1, <1>2, <1>3, <1>4, <1>5, <1>6, <1>7, <1>8, <1>9, <1>10, <1>11, <1>12, <1>13, <1>14, <1>15, <1>16, <1>17, <1>18, <1>19, <1>20, <1>21, <1>22, <1>23, <1>24, <1>25, <1>26, <1>27, <1>28, <1>29, <1>30, <1>31, <1>32
  DEF Next, Caller, Reader, Environment

\* Every step keeps AuditTellsOutcome.
LEMMA TellsStep ==
  TypeOK /\ TrailInv /\ AuditTellsOutcome /\ [Next]_vars => AuditTellsOutcome'
<1> SUFFICES ASSUME TypeOK, TrailInv, AuditTellsOutcome, [Next]_vars
            PROVE  AuditTellsOutcome'
  OBVIOUS
<1> USE DEF TypeOK, TrailInv, AuditTellsOutcome, InLoop, AfterLaunch, At, Goto, Audit, Return, Kill, GiveUp, callVars, procVars
<1>1. CASE ValidateCommand
  BY <1>1 DEF ValidateCommand
<1>2. CASE Blocked
  <2>1. trail' = <<"source_rejected", "command_blocked">>
    BY <1>2, AppendOne DEF Blocked
  <2>2. result'.why = "rejected"
    BY <1>2 DEF Blocked
  <2>3. QED BY <2>1, <2>2
<1>3. CASE DryRun
  <2>1. trail' = <<"source_approved", "command_dry_run">>
    BY <1>3, AppendOne DEF DryRun
  <2>2. CASE Streaming
    BY <1>3, <2>2 DEF DryRun
  <2>3. CASE ~Streaming
    <3>1. result'.why = "dry_run"
      BY <1>3, <2>3 DEF DryRun
    <3>2. QED BY <2>1, <3>1
  <2>4. QED BY <2>2, <2>3
<1>4. CASE RecordExecute
  BY <1>4 DEF RecordExecute
<1>5. CASE Launch
  BY <1>5 DEF Launch
<1>6. CASE LaunchFails
  BY <1>6 DEF LaunchFails
<1>7. CASE Failed
  <2>1. trail' = <<"source_approved", "command_execute", "command_failed">>
    BY <1>7, AppendTwo DEF Failed
  <2>2. result'.why = "os_error"
    BY <1>7 DEF Failed
  <2>3. QED BY <2>1, <2>2
<1>8. CASE CheckDeadline
  BY <1>8 DEF CheckDeadline
<1>9. CASE GetLine
  BY <1>9 DEF GetLine
<1>10. CASE GetEOF
  BY <1>10 DEF GetEOF
<1>11. CASE GetEmpty
  BY <1>11 DEF GetEmpty
<1>12. CASE WaitDone
  BY <1>12 DEF WaitDone
<1>13. CASE WaitExpires
  BY <1>13 DEF WaitExpires
<1>14. CASE Reaped
  BY <1>14 DEF Reaped
<1>15. CASE ReapExpires
  BY <1>15 DEF ReapExpires
<1>16. CASE TimedOut
  <2>1. trail' = <<"source_approved", "command_execute", "command_timeout">>
    BY <1>16, AppendTwo DEF TimedOut
  <2>2. result'.why = "timeout"
    BY <1>16 DEF TimedOut
  <2>3. QED BY <2>1, <2>2
<1>17. CASE Complete
  <2>1. trail' = <<"source_approved", "command_execute", "command_complete">>
    BY <1>17, AppendTwo DEF Complete
  <2>2. result'.why = "complete"
    BY <1>17 DEF Complete
  <2>3. QED BY <2>1, <2>2
<1>18. CASE Communicate
  BY <1>18 DEF Communicate
<1>19. CASE CommunicateExpires
  BY <1>19 DEF CommunicateExpires
<1>20. CASE Drained
  BY <1>20 DEF Drained
<1>21. CASE ReadLine
  BY <1>21 DEF ReadLine
<1>22. CASE ReadEOF
  BY <1>22 DEF ReadEOF
<1>23. ASSUME NEW w \in writers, CloseOutput(w) PROVE AuditTellsOutcome'
  BY <1>23 DEF CloseOutput
<1>24. ASSUME NEW w \in writers, NEW l \in Line, Write(w, l) PROVE AuditTellsOutcome'
  BY <1>24 DEF Write
<1>25. CASE Fork
  BY <1>25 DEF Fork
<1>26. CASE Die
  BY <1>26 DEF Die
<1>27. ASSUME NEW code \in ExitCode, Exit(code) PROVE AuditTellsOutcome'
  BY <1>27 DEF Exit
<1>28. CASE AuditFails
  BY <1>28 DEF AuditFails
<1>29. CASE Pull
  BY <1>29 DEF Pull
<1>30. CASE Close
  BY <1>30 DEF Close
<1>31. CASE Tick
  BY <1>31 DEF Tick
<1>32. CASE UNCHANGED vars
  BY <1>32 DEF vars, callVars, procVars
<1> QED
  BY <1>1, <1>2, <1>3, <1>4, <1>5, <1>6, <1>7, <1>8, <1>9, <1>10, <1>11, <1>12, <1>13, <1>14, <1>15, <1>16, <1>17, <1>18, <1>19, <1>20, <1>21, <1>22, <1>23, <1>24, <1>25, <1>26, <1>27, <1>28, <1>29, <1>30, <1>31, <1>32
  DEF Next, Caller, Reader, Environment

-----------------------------------------------------------------------------
(* What the consumer has seen. *)

\* A line appended is visible in the last place, or nowhere.
LEMMA VisibleGrows ==
  ASSUME NEW lines \in Seq(Line), NEW l \in Line
  PROVE  /\ Visible(lines) \subseteq 1 .. Len(lines) /\ Len(lines) \in Nat
         /\ Append(lines, l)[Len(lines) + 1] = l
         /\ \A i \in 1 .. Len(lines) : Append(lines, l)[i] = lines[i]
         /\ l \in Blank => Visible(Append(lines, l)) = Visible(lines)
         /\ l \notin Blank => Visible(Append(lines, l)) = Visible(lines) \union {Len(lines) + 1}
<1> DEFINE longer == Append(lines, l)  n == Len(lines)
<1>1. /\ n \in Nat /\ Len(longer) = n + 1 /\ longer[n + 1] = l
      /\ \A i \in 1 .. n : longer[i] = lines[i]
  OBVIOUS
<1>2. Visible(lines) \subseteq 1 .. n
  BY DEF Visible
<1> HIDE DEF longer, n
<1>3. l \in Blank => Visible(longer) = {i \in 1 .. n : lines[i] \notin Blank}
  BY <1>1 DEF Visible
<1>4. l \notin Blank => Visible(longer) = {i \in 1 .. n : lines[i] \notin Blank} \union {n + 1}
  BY <1>1 DEF Visible
<1>5. QED BY <1>1, <1>2, <1>3, <1>4 DEF Visible, longer, n

\* Only these steps touch what was read or shown, or start a process.
LEMMA OutputMoves ==
  ASSUME [Next]_vars
  PROVE  \/ DryRun \/ Launch \/ GetLine \/ Communicate
         \/ acc' = acc /\ delivered' = delivered /\ (proc = "none" => proc' = "none")
BY DEF vars, callVars, procVars, Next, Caller, Reader, Environment, ValidateCommand, Blocked,
       RecordExecute, LaunchFails, Failed, CheckDeadline, GiveUp, Kill, GetEOF, GetEmpty, WaitDone,
       WaitExpires, Reaped, ReapExpires, TimedOut, Complete, CommunicateExpires, Drained,
       AuditFails, Pull, Close, ReadLine, ReadEOF, Write, Fork, CloseOutput, Exit, Die, Tick

\* A visible line is shown as it is taken, and takes the next place in both sequences.
LEMMA GetShows ==
  ASSUME TypeOK, ShownIsVisible, GetLine, Streaming, proc # "none"
  PROVE  /\ Len(delivered') = Cardinality(Visible(acc'))
         /\ \A i \in Visible(acc') : delivered'[Rank(Visible(acc'), i)] = acc'[i]
<1> DEFINE l == Head(queue)  n == Len(acc)  shown == Visible(acc)
<1>1. l \in Line /\ acc \in Seq(Line) /\ delivered \in Seq(Line \union {Notice})
  BY DEF GetLine, TypeOK
<1>2. /\ acc' = Append(acc, l)
      /\ l \in Blank => delivered' = delivered
      /\ l \notin Blank => delivered' = Append(delivered, l)
  BY DEF GetLine
<1>3. /\ shown \subseteq 1 .. n /\ n \in Nat /\ acc'[n + 1] = l
      /\ \A i \in 1 .. n : acc'[i] = acc[i]
      /\ l \in Blank => Visible(acc') = shown
      /\ l \notin Blank => Visible(acc') = shown \union {n + 1}
  BY <1>1, <1>2, VisibleGrows
<1>4. Len(delivered) = Cardinality(shown) /\ \A i \in shown : delivered[Rank(shown, i)] = acc[i]
  BY DEF ShownIsVisible
<1>5. Cardinality(shown) \in Nat /\ \A i \in shown : Rank(shown, i) \in 1 .. Cardinality(shown)
  BY <1>3, PositionsFinite, RankBounds
<1>6. CASE l \in Blank
  BY <1>2, <1>3, <1>4, <1>6
<1>7. CASE l \notin Blank
  <2>1. /\ Len(delivered') = Cardinality(shown) + 1
        /\ delivered'[Cardinality(shown) + 1] = l
        /\ \A k \in 1 .. Cardinality(shown) : delivered'[k] = delivered[k]
    <3>1. delivered' = Append(delivered, l) /\ l \in Line \union {Notice}
      BY <1>1, <1>2, <1>7
    <3>2. Len(delivered) = Cardinality(shown) /\ delivered \in Seq(Line \union {Notice})
      BY <1>1, <1>4
    <3> HIDE DEF l, n, shown
    <3>3. QED BY <3>1, <3>2
  <2>2. /\ Cardinality(shown \union {n + 1}) = Cardinality(shown) + 1
        /\ Rank(shown \union {n + 1}, n + 1) = Cardinality(shown) + 1
        /\ \A i \in shown : Rank(shown \union {n + 1}, i) = Rank(shown, i)
    BY <1>3, RankAdded
  <2> HIDE DEF l, n, shown
  <2>3. Visible(acc') = shown \union {n + 1}
    BY <1>3, <1>7
  <2>4. ASSUME NEW i \in shown PROVE delivered'[Rank(Visible(acc'), i)] = acc'[i]
    <3>1. Rank(Visible(acc'), i) = Rank(shown, i) /\ Rank(shown, i) \in 1 .. Cardinality(shown)
      BY <1>5, <2>2, <2>3
    <3>2. delivered'[Rank(shown, i)] = acc[i]
      BY <3>1, <2>1, <1>4
    <3>3. acc'[i] = acc[i]
      BY <1>3
    <3>4. QED BY <3>1, <3>2, <3>3
  <2>5. delivered'[Rank(Visible(acc'), n + 1)] = acc'[n + 1]
    BY <1>3, <2>1, <2>2, <2>3
  <2>6. QED BY <2>1, <2>2, <2>3, <2>4, <2>5
<1>8. QED BY <1>6, <1>7

\* Every step keeps what the consumer has seen equal to what is visible.
LEMMA ShownStep ==
  TypeOK /\ ProcInv /\ QueueInv /\ ShownInv /\ [Next]_vars => ShownInv'
<1> SUFFICES ASSUME TypeOK, ProcInv, QueueInv, ShownInv, [Next]_vars
             PROVE  ShownInv'
  OBVIOUS
<1>1. Streaming' = Streaming
  BY CallFixed DEF Streaming
<1>2. pc' = "communicate" => ~Streaming'
  <2>1. pc' = "communicate" => pc = "communicate" \/ ~Streaming
    BY DEF vars, callVars, procVars, Next, Caller, Reader, Environment, ValidateCommand, Blocked,
       DryRun, RecordExecute, Launch, LaunchFails, Failed, CheckDeadline, GiveUp, GetLine, GetEOF,
       GetEmpty, WaitDone, WaitExpires, Reaped, ReapExpires, TimedOut, Complete, Communicate,
       CommunicateExpires, Drained, AuditFails, Pull, Close, ReadLine, ReadEOF, Write, Fork,
       CloseOutput, Exit, Die, Tick, At, Goto, Return
  <2>2. QED BY <1>1, <2>1 DEF ShownInv
<1>3. ShownIsVisible'
  <2>1. CASE DryRun
    <3>1. proc' = "none"
      BY <2>1 DEF DryRun, At, ProcInv, BeforeLaunch, procVars
    <3>2. QED BY <3>1 DEF ShownIsVisible
  <2>2. CASE Launch
    <3>1. acc' = <<>> /\ delivered' = <<>>
      BY <2>2 DEF Launch, At, ProcInv, BeforeLaunch, QueueInv
    <3>2. Visible(<<>>) = {}
      BY DEF Visible
    <3>3. QED BY <3>1, <3>2, FS_EmptySet DEF ShownIsVisible
  <2>3. CASE GetLine
    <3>1. proc' = proc
      BY <2>3 DEF GetLine, procVars
    <3>2. QED BY <1>1, <2>3, <3>1, GetShows DEF ShownIsVisible, ShownInv
  <2>4. CASE Communicate
    BY <1>1, <2>4 DEF Communicate, At, ShownIsVisible, ShownInv
  <2>5. CASE acc' = acc /\ delivered' = delivered /\ (proc = "none" => proc' = "none")
    <3>1. Visible(acc') = Visible(acc)
      BY <2>5
    <3>2. QED BY <1>1, <2>5, <3>1 DEF ShownIsVisible, ShownInv
  <2>6. QED BY <2>1, <2>2, <2>3, <2>4, <2>5, OutputMoves
<1>4. QED BY <1>2, <1>3 DEF ShownInv

-----------------------------------------------------------------------------
(* What holds in every state of every run. *)

\* The invariant holds for every set of commands and lines, every timeout and any
\* number of lines.
THEOREM Invariance == Spec => []Inv
<1>1. Init => Inv
  <2> SUFFICES ASSUME Init PROVE Inv
    OBVIOUS
  <2>1. TypeOK
    BY LineAssumption, ExitAssumption DEF Init, TypeOK, Label
  <2>2. ProcInv /\ TrailInv /\ ResultInv
    BY DEF Init, ProcInv, TrailInv, ResultInv, BeforeLaunch, InLoop, AfterLaunch
  <2>3. QueueInv
    BY DEF Init, QueueInv
  <2>4. NoRunawayChild /\ AuditTellsOutcome /\ NothingBeforeRecord
    BY DEF Init, NoRunawayChild, AuditTellsOutcome, NothingBeforeRecord
  <2>5. OutputConserved
    <3>1. LinesOf(queue) = <<>>
      BY DEF Init, LinesOf
    <3>2. <<>> \o <<>> = <<>>
      BY ConcatEmptySeq, EmptySeq
    <3>3. QED BY <3>1, <3>2 DEF Init, OutputConserved
  <2>6. ShownInv
    BY DEF Init, ShownInv, ShownIsVisible
  <2>7. QED BY <2>1, <2>2, <2>3, <2>4, <2>5, <2>6 DEF Inv, ControlInv
<1>2. Inv /\ TypeOK' /\ [Next]_vars => Inv'
  BY ProcStep, QueueStep, TrailStep, ResultStep, RunawayStep, TellsStep, RecordStep, OutputStep,
     ShownStep
  DEF Inv, ControlInv
<1>3. QED BY <1>1, <1>2, TypeCorrect, PTL DEF Spec

\* The output reaches the result whole and in order.
THEOREM OutputIsConserved == Spec => []OutputConserved
  BY Invariance, PTL DEF Inv

\* The consumer of a stream has seen the visible lines, no others, in order.
THEOREM VisibleLinesShown == Spec => []ShownIsVisible
  BY Invariance, PTL DEF Inv, ShownInv

\* A call that reports completion holds all of an exited command's output.
THEOREM CompletionMeansAll == Spec => []CompleteMeansAll
<1>1. Inv => CompleteMeansAll
  BY DEF Inv, ControlInv, ResultInv, CompleteMeansAll, NoResult
<1>2. QED BY <1>1, Invariance, PTL

\* No call leaves its process running behind a result or an exception.
THEOREM NoRunawayChildren == Spec => []NoRunawayChild
  BY Invariance, PTL DEF Inv, ControlInv

\* The audit trail of a call tells its outcome.
THEOREM AuditIsFaithful == Spec => []AuditTellsOutcome
  BY Invariance, PTL DEF Inv, ControlInv

\* Nothing is launched that was not approved and recorded.
THEOREM RecordComesFirst == Spec => []NothingBeforeRecord
  BY Invariance, PTL DEF Inv, ControlInv

\* Nothing is killed or called a timeout before its time.
THEOREM NothingCutShort == Spec => []NotCutShort
<1>1. Inv => NotCutShort
  BY DEF Inv, ControlInv, ProcInv, ResultInv, NotCutShort, NoResult
<1>2. QED BY <1>1, Invariance, PTL

-----------------------------------------------------------------------------
(* The runner implements CommandPromise. *)

\* While the mapped variables keep their values the abstract step is a stutter.
LEMMA MapStutters ==
  ASSUME UNCHANGED <<PromiseChild, PromiseShown, PromiseVerdict>>
  PROVE  [Promise!Next]_(Promise!vars)
  BY DEF Promise!vars

\* Every step of the runner is a step of the promise, or changes none of it.
LEMMA PromiseStep ==
  Inv /\ [Next]_vars => [Promise!Next]_(Promise!vars)
<1> SUFFICES ASSUME Inv, [Next]_vars
            PROVE  [Promise!Next]_(Promise!vars)
  OBVIOUS
<1> USE DEF Inv, ControlInv, TypeOK, ProcInv, QueueInv, BeforeLaunch, InLoop, At, Goto, Audit, Return, Kill, GiveUp, callVars, procVars
<1>1. CASE ValidateCommand
  <2>1. UNCHANGED <<PromiseChild, PromiseShown, PromiseVerdict>>
    BY <1>1 DEF ValidateCommand, PromiseChild, PromiseShown, PromiseVerdict
  <2>2. QED BY <2>1, MapStutters
<1>2. CASE Blocked
  <2>1. PromiseVerdict = "pending" /\ PromiseVerdict' = "rejected"
    BY <1>2 DEF Blocked, PromiseVerdict
  <2>2. UNCHANGED <<PromiseChild, PromiseShown>>
    BY <1>2 DEF Blocked, PromiseChild, PromiseShown
  <2>3. PromiseChild = "none"
    BY <1>2 DEF Blocked, PromiseChild
  <2>4. Promise!Conclude
    BY <2>1, <2>2, <2>3 DEF Promise!Conclude
  <2>5. QED BY <2>4 DEF Promise!Next
<1>3. CASE DryRun
  <2>1. UNCHANGED <<PromiseChild, PromiseShown>> /\ PromiseChild = "none" /\ PromiseVerdict = "pending"
    BY <1>3 DEF DryRun, PromiseChild, PromiseShown, PromiseVerdict
  <2>2. CASE Streaming
    <3>1. pc' = "notice"
      BY <1>3, <2>2 DEF DryRun
    <3>2. PromiseVerdict' = "pending"
      BY <3>1 DEF PromiseVerdict
    <3>3. QED BY <2>1, <3>2, MapStutters
  <2>3. CASE ~Streaming
    <3>1. pc' = "returned" /\ result'.why = "dry_run"
      BY <1>3, <2>3 DEF DryRun
    <3>2. PromiseVerdict' = "dry_run"
      BY <3>1 DEF PromiseVerdict
    <3>3. QED BY <2>1, <3>2 DEF Promise!Conclude, Promise!Next
  <2>4. QED BY <2>2, <2>3
<1>4. CASE RecordExecute
  <2>1. UNCHANGED <<PromiseChild, PromiseShown, PromiseVerdict>>
    BY <1>4 DEF RecordExecute, PromiseChild, PromiseShown, PromiseVerdict
  <2>2. QED BY <2>1, MapStutters
<1>5. CASE Launch
  <2>1. PromiseVerdict = "pending" /\ PromiseVerdict' = "pending"
    BY <1>5 DEF Launch, PromiseVerdict
  <2>2. PromiseChild = "none" /\ PromiseChild' = "alive"
    BY <1>5 DEF Launch, PromiseChild
  <2>3. PromiseShown' = PromiseShown
    BY <1>5 DEF Launch, PromiseShown
  <2>4. QED BY <2>1, <2>2, <2>3 DEF Promise!Launch, Promise!Next
<1>6. CASE LaunchFails
  <2>1. UNCHANGED <<PromiseChild, PromiseShown, PromiseVerdict>>
    BY <1>6 DEF LaunchFails, PromiseChild, PromiseShown, PromiseVerdict
  <2>2. QED BY <2>1, MapStutters
<1>7. CASE Failed
  <2>1. PromiseVerdict = "pending" /\ PromiseVerdict' = "os_error"
    BY <1>7 DEF Failed, PromiseVerdict
  <2>2. UNCHANGED <<PromiseChild, PromiseShown>>
    BY <1>7 DEF Failed, PromiseChild, PromiseShown
  <2>3. PromiseChild = "none"
    BY <1>7 DEF Failed, PromiseChild
  <2>4. Promise!Conclude
    BY <2>1, <2>2, <2>3 DEF Promise!Conclude
  <2>5. QED BY <2>4 DEF Promise!Next
<1>8. CASE CheckDeadline
  <2>1. UNCHANGED <<PromiseChild, PromiseShown, PromiseVerdict>>
    BY <1>8 DEF CheckDeadline, PromiseChild, PromiseShown, PromiseVerdict
  <2>2. QED BY <2>1, MapStutters
<1>9. CASE GetLine
  <2>1. UNCHANGED <<PromiseChild, PromiseVerdict>> /\ PromiseVerdict = "pending"
    BY <1>9 DEF GetLine, PromiseChild, PromiseVerdict
  <2>2. Head(queue) \in Line /\ proc # "none" /\ proc' = proc
    BY <1>9 DEF GetLine
  <2>3. delivered' = delivered \/ delivered' = Append(delivered, Head(queue))
    BY <1>9 DEF GetLine
  <2>4. CASE delivered' = delivered
    BY <2>1, <2>2, <2>4, MapStutters DEF PromiseShown
  <2>5. CASE delivered' = Append(delivered, Head(queue))
    <3>1. PromiseShown' = Append(PromiseShown, Head(queue)) /\ PromiseChild # "none"
      BY <2>2, <2>5 DEF PromiseShown, PromiseChild
    <3>2. Promise!Show
      BY <2>1, <2>2, <3>1 DEF Promise!Show
    <3>3. QED BY <3>2 DEF Promise!Next
  <2>6. QED BY <2>3, <2>4, <2>5
<1>10. CASE GetEOF
  <2>1. UNCHANGED <<PromiseChild, PromiseShown, PromiseVerdict>>
    BY <1>10 DEF GetEOF, PromiseChild, PromiseShown, PromiseVerdict
  <2>2. QED BY <2>1, MapStutters
<1>11. CASE GetEmpty
  <2>1. UNCHANGED <<PromiseChild, PromiseShown, PromiseVerdict>>
    BY <1>11 DEF GetEmpty, PromiseChild, PromiseShown, PromiseVerdict
  <2>2. QED BY <2>1, MapStutters
<1>12. CASE WaitDone
  <2>1. UNCHANGED <<PromiseChild, PromiseShown, PromiseVerdict>>
    BY <1>12 DEF WaitDone, PromiseChild, PromiseShown, PromiseVerdict
  <2>2. QED BY <2>1, MapStutters
<1>13. CASE WaitExpires
  <2>1. UNCHANGED <<PromiseChild, PromiseShown, PromiseVerdict>>
    BY <1>13 DEF WaitExpires, PromiseChild, PromiseShown, PromiseVerdict
  <2>2. QED BY <2>1, MapStutters
<1>14. CASE Reaped
  <2>1. UNCHANGED <<PromiseChild, PromiseShown, PromiseVerdict>>
    BY <1>14 DEF Reaped, PromiseChild, PromiseShown, PromiseVerdict
  <2>2. QED BY <2>1, MapStutters
<1>15. CASE ReapExpires
  <2>1. PromiseVerdict = "pending" /\ PromiseVerdict' = "abandoned"
    BY <1>15 DEF ReapExpires, PromiseVerdict
  <2>2. UNCHANGED <<PromiseChild, PromiseShown>>
    BY <1>15 DEF ReapExpires, PromiseChild, PromiseShown
  <2>3. QED BY <2>1, <2>2 DEF Promise!Abandon, Promise!Next
<1>16. CASE TimedOut
  <2>1. PromiseVerdict = "pending" /\ PromiseVerdict' = "timeout"
    BY <1>16 DEF TimedOut, PromiseVerdict
  <2>2. UNCHANGED <<PromiseChild, PromiseShown>>
    BY <1>16 DEF TimedOut, PromiseChild, PromiseShown
  <2>3. PromiseChild = "over"
    BY <1>16 DEF TimedOut, PromiseChild
  <2>4. Promise!Conclude
    BY <2>1, <2>2, <2>3 DEF Promise!Conclude
  <2>5. QED BY <2>4 DEF Promise!Next
<1>17. CASE Complete
  <2>1. PromiseVerdict = "pending" /\ PromiseVerdict' = "complete"
    BY <1>17 DEF Complete, PromiseVerdict
  <2>2. UNCHANGED <<PromiseChild, PromiseShown>>
    BY <1>17 DEF Complete, PromiseChild, PromiseShown
  <2>3. PromiseChild = "over"
    BY <1>17 DEF Complete, PromiseChild
  <2>4. Promise!Conclude
    BY <2>1, <2>2, <2>3 DEF Promise!Conclude
  <2>5. QED BY <2>4 DEF Promise!Next
<1>18. CASE Communicate
  <2>1. UNCHANGED <<PromiseChild, PromiseShown, PromiseVerdict>>
    BY <1>18 DEF Communicate, PromiseChild, PromiseShown, PromiseVerdict
  <2>2. QED BY <2>1, MapStutters
<1>19. CASE CommunicateExpires
  <2>1. UNCHANGED <<PromiseChild, PromiseShown, PromiseVerdict>>
    BY <1>19 DEF CommunicateExpires, PromiseChild, PromiseShown, PromiseVerdict
  <2>2. QED BY <2>1, MapStutters
<1>20. CASE Drained
  <2>1. UNCHANGED <<PromiseChild, PromiseShown, PromiseVerdict>>
    BY <1>20 DEF Drained, PromiseChild, PromiseShown, PromiseVerdict
  <2>2. QED BY <2>1, MapStutters
<1>21. CASE ReadLine
  <2>1. UNCHANGED <<PromiseChild, PromiseShown, PromiseVerdict>>
    BY <1>21 DEF ReadLine, PromiseChild, PromiseShown, PromiseVerdict
  <2>2. QED BY <2>1, MapStutters
<1>22. CASE ReadEOF
  <2>1. UNCHANGED <<PromiseChild, PromiseShown, PromiseVerdict>>
    BY <1>22 DEF ReadEOF, PromiseChild, PromiseShown, PromiseVerdict
  <2>2. QED BY <2>1, MapStutters
<1>23. ASSUME NEW w \in writers, CloseOutput(w) PROVE [Promise!Next]_(Promise!vars)
  <2>1. UNCHANGED <<PromiseChild, PromiseShown, PromiseVerdict>>
    BY <1>23 DEF CloseOutput, PromiseChild, PromiseShown, PromiseVerdict
  <2>2. QED BY <2>1, MapStutters
<1>24. ASSUME NEW w \in writers, NEW l \in Line, Write(w, l) PROVE [Promise!Next]_(Promise!vars)
  <2>1. UNCHANGED <<PromiseChild, PromiseShown, PromiseVerdict>>
    BY <1>24 DEF Write, PromiseChild, PromiseShown, PromiseVerdict
  <2>2. QED BY <2>1, MapStutters
<1>25. CASE Fork
  <2>1. UNCHANGED <<PromiseChild, PromiseShown, PromiseVerdict>>
    BY <1>25 DEF Fork, PromiseChild, PromiseShown, PromiseVerdict
  <2>2. QED BY <2>1, MapStutters
<1>26. CASE Die
  <2>1. PromiseChild = "alive" /\ PromiseChild' = "over"
    BY <1>26 DEF Die, PromiseChild
  <2>2. UNCHANGED <<PromiseShown, PromiseVerdict>>
    BY <1>26 DEF Die, PromiseShown, PromiseVerdict
  <2>3. QED BY <2>1, <2>2 DEF Promise!ChildOver, Promise!Next
<1>27. ASSUME NEW code \in ExitCode, Exit(code) PROVE [Promise!Next]_(Promise!vars)
  <2>1. PromiseChild = "alive" /\ PromiseChild' = "over"
    BY <1>27 DEF Exit, PromiseChild
  <2>2. UNCHANGED <<PromiseShown, PromiseVerdict>>
    BY <1>27 DEF Exit, PromiseShown, PromiseVerdict
  <2>3. QED BY <2>1, <2>2 DEF Promise!ChildOver, Promise!Next
<1>28. CASE AuditFails
  <2>1. PromiseVerdict = "pending" /\ PromiseVerdict' = "abandoned"
    BY <1>28 DEF AuditFails, PromiseVerdict
  <2>2. UNCHANGED <<PromiseChild, PromiseShown>>
    BY <1>28 DEF AuditFails, PromiseChild, PromiseShown
  <2>3. QED BY <2>1, <2>2 DEF Promise!Abandon, Promise!Next
<1>29. CASE Pull
  <2>1. UNCHANGED <<PromiseChild, PromiseShown>> /\ PromiseVerdict = "pending"
    BY <1>29 DEF Pull, PromiseChild, PromiseShown, PromiseVerdict
  <2>2. CASE At("yield")
    <3>1. PromiseVerdict' = "pending"
      BY <1>29, <2>2 DEF Pull, PromiseVerdict
    <3>2. QED BY <2>1, <3>1, MapStutters
  <2>3. CASE At("notice")
    <3>1. PromiseVerdict' = "dry_run" /\ PromiseChild = "none"
      BY <1>29, <2>3 DEF Pull, PromiseVerdict, PromiseChild
    <3>2. QED BY <2>1, <3>1 DEF Promise!Conclude, Promise!Next
  <2>4. QED BY <1>29, <2>2, <2>3 DEF Pull
<1>30. CASE Close
  <2>1. PromiseVerdict = "pending" /\ PromiseVerdict' = "abandoned"
    BY <1>30 DEF Close, PromiseVerdict
  <2>2. UNCHANGED <<PromiseChild, PromiseShown>>
    BY <1>30 DEF Close, PromiseChild, PromiseShown
  <2>3. QED BY <2>1, <2>2 DEF Promise!Abandon, Promise!Next
<1>31. CASE Tick
  <2>1. UNCHANGED <<PromiseChild, PromiseShown, PromiseVerdict>>
    BY <1>31 DEF Tick, PromiseChild, PromiseShown, PromiseVerdict
  <2>2. QED BY <2>1, MapStutters
<1>32. CASE UNCHANGED vars
  BY <1>32, MapStutters DEF vars, callVars, procVars, PromiseChild, PromiseShown, PromiseVerdict
<1> QED
  BY <1>1, <1>2, <1>3, <1>4, <1>5, <1>6, <1>7, <1>8, <1>9, <1>10, <1>11, <1>12, <1>13, <1>14, <1>15, <1>16, <1>17, <1>18, <1>19, <1>20, <1>21, <1>22, <1>23, <1>24, <1>25, <1>26, <1>27, <1>28, <1>29, <1>30, <1>31, <1>32
  DEF Next, Caller, Reader, Environment

\* The refinement.
THEOREM RunnerKeepsPromise == Spec => KeepsPromise
<1>1. Init => Promise!Init
  BY DEF Init, Promise!Init, PromiseChild, PromiseShown, PromiseVerdict
<1>2. Inv /\ [Next]_vars => [Promise!Next]_(Promise!vars)
  BY PromiseStep
<1>3. QED BY <1>1, <1>2, Invariance, PTL DEF Spec, KeepsPromise, Promise!Spec
=============================================================================
