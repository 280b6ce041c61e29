-------------------------- MODULE ApplyServer_proofs ---------------------------
(***************************************************************************)
(* Proofs about ApplyServer for any number of sessions, any requests and   *)
(* any number of lines sent ahead.                                         *)
(***************************************************************************)
EXTENDS ApplyServer, Ranks_proofs

\* Appending keeps what a sequence holds.
LEMMA AppendKeeps ==
  ASSUME NEW S, NEW q \in Seq(S), NEW e \in S
  PROVE  /\ Append(q, e) \in Seq(S) /\ Len(Append(q, e)) = Len(q) + 1
         /\ \A i \in 1 .. Len(q) : Append(q, e)[i] = q[i]
         /\ Append(q, e)[Len(q) + 1] = e
OBVIOUS

\* A message with a kind and an id is one of Messages.
LEMMA MessageType ==
  ASSUME NEW kind \in {"none", "progress", "result", "error"}, NEW id \in Nat, NEW served \in Nat
  PROVE  /\ Message(kind, id, served) \in Messages
         /\ Message(kind, id, served).kind = kind /\ Message(kind, id, served).id = id
BY DEF Message, Messages

-----------------------------------------------------------------------------
(* What the steps have in common. *)

\* A client's lines are only added to.
LEMMA SentGrows ==
  ASSUME TypeOK, [Next]_vars
  PROVE  /\ sent' \in [Session -> Seq(Lines)]
         /\ \A t \in Session : /\ Len(sent'[t]) >= Len(sent[t])
                               /\ \A i \in 1 .. Len(sent[t]) : sent'[t][i] = sent[t][i]
<1>1. CASE UNCHANGED sent
  BY <1>1 DEF TypeOK
<1>2. ASSUME NEW s \in Session, NEW line \in Request, Send(s, line)
      PROVE  /\ sent' \in [Session -> Seq(Lines)]
             /\ \A t \in Session : /\ Len(sent'[t]) >= Len(sent[t])
                                   /\ \A i \in 1 .. Len(sent[t]) : sent'[t][i] = sent[t][i]
  <2>1. sent' = [sent EXCEPT ![s] = Append(sent[s], line)] /\ line \in Lines
    BY <1>2, RequestAssumption DEF Send
  <2>2. sent[s] \in Seq(Lines)
    BY DEF TypeOK
  <2>3. /\ Append(sent[s], line) \in Seq(Lines) /\ Len(Append(sent[s], line)) = Len(sent[s]) + 1
        /\ \A i \in 1 .. Len(sent[s]) : Append(sent[s], line)[i] = sent[s][i]
    BY <2>1, <2>2, AppendKeeps
  <2>4. sent' \in [Session -> Seq(Lines)]
    BY <2>1, <2>3 DEF TypeOK
  <2>5. ASSUME NEW t \in Session
        PROVE  /\ Len(sent'[t]) >= Len(sent[t])
               /\ \A i \in 1 .. Len(sent[t]) : sent'[t][i] = sent[t][i]
    <3>1. CASE t = s
      BY <3>1, <2>1, <2>2, <2>3 DEF TypeOK
    <3>2. CASE t # s
      <4>1. sent'[t] = sent[t] /\ sent[t] \in Seq(Lines)
        BY <3>2, <2>1 DEF TypeOK
      <4>2. QED BY <4>1
    <3>3. QED BY <3>1, <3>2
  <2>6. QED BY <2>4, <2>5
<1>3. UNCHANGED sent \/ \E s \in Session, line \in Request : Send(s, line)
  BY DEF Next, Serve, Operate, ReadBlank, ReadInvalid, ReadTooDeep, ReadUndecodable, ReadRequest,
         Hangup, Query, MethodNotFound, MethodUnhashable, Shutdown,
         GateRejects, GateUnprivileged, GatePasses, ApplyRaises, ApplyStarts, ApplyEnds, Respond,
         RespondFails,
         Progress, ProgressFails, Leave, Change, OrphanEnds, vars, clientVars
<1>4. QED BY <1>1, <1>2, <1>3

\* The log is only added to, one entry at a time.
LEMMA AuditGrows ==
  ASSUME TypeOK, [Next]_vars
  PROVE  /\ audit' \in Seq([session : Session, id : Nat, event : Events])
         /\ \A r : Audited(r) => Audited(r)'
<1> DEFINE Entries == [session : Session, id : Nat, event : Events]
<1>1. CASE UNCHANGED audit
  BY <1>1 DEF TypeOK, Audited
<1>2. ASSUME NEW s \in Session, NEW event \in Events, Log(s, event)
      PROVE  audit' \in Seq(Entries) /\ \A r : Audited(r) => Audited(r)'
  <2>1. [session |-> s, id |-> got[s], event |-> event] \in Entries
    BY DEF TypeOK
  <2>2. audit \in Seq(Entries)
    BY DEF TypeOK
  <2> HIDE DEF Entries
  <2>3. /\ audit' \in Seq(Entries) /\ Len(audit') = Len(audit) + 1
        /\ \A i \in 1 .. Len(audit) : audit'[i] = audit[i]
    BY <1>2, <2>1, <2>2, AppendKeeps DEF Log
  <2>4. Len(audit) \in Nat
    BY <2>2
  <2>5. QED BY <2>3, <2>4 DEF Audited
<1>3. UNCHANGED audit \/ \E s \in Session, event \in Events : Log(s, event)
  BY DEF Next, Serve, Operate, ReadBlank, ReadInvalid, ReadTooDeep, ReadUndecodable, ReadRequest,
         Hangup, Query, MethodNotFound, MethodUnhashable, Shutdown,
         GateRejects, GateUnprivileged, GatePasses, ApplyRaises, ApplyStarts, ApplyEnds, Respond,
         RespondFails,
         Progress, ProgressFails, Leave, Send, Change, OrphanEnds, vars, Events
<1>4. QED BY <1>1, <1>2, <1>3

\* What was admitted stays admitted.
LEMMA AdmittedStays ==
  ASSUME TypeOK, [Next]_vars, NEW r, r.session \in Session, Admitted(r)
  PROVE  Admitted(r)' /\ RequestOf(r)' = RequestOf(r)
<1>1. Audited(r)'
  BY AuditGrows DEF Admitted
<1>2. r.id \in 1 .. Len(sent[r.session])
  BY DEF Admitted, Passed
<1>3. Len(sent[r.session]) \in Nat /\ Len(sent'[r.session]) \in Nat
  BY SentGrows DEF TypeOK
<1>4. sent'[r.session][r.id] = sent[r.session][r.id] /\ r.id \in 1 .. Len(sent'[r.session])
  BY <1>2, <1>3, SentGrows
<1>5. elevated' = elevated
  BY DEF Next, Serve, Operate, ReadBlank, ReadInvalid, ReadTooDeep, ReadUndecodable, ReadRequest,
         Hangup, Query, MethodNotFound, MethodUnhashable, Shutdown,
         GateRejects, GateUnprivileged, GatePasses, ApplyRaises, ApplyStarts, ApplyEnds, Respond,
         RespondFails,
         Progress, ProgressFails, Leave, Send, Change, OrphanEnds, vars
<1>6. QED BY <1>1, <1>4, <1>5 DEF Admitted, Passed, RequestOf

\* What passed the gate has passed it for good.
LEMMA PassedStays ==
  ASSUME TypeOK, [Next]_vars, NEW r, r.session \in Session, Passed(r)
  PROVE  Passed(r)'
<1>1. r.id \in 1 .. Len(sent[r.session])
  BY DEF Passed
<1>2. Len(sent[r.session]) \in Nat /\ Len(sent'[r.session]) \in Nat
  BY SentGrows DEF TypeOK
<1>3. sent'[r.session][r.id] = sent[r.session][r.id] /\ r.id \in 1 .. Len(sent'[r.session])
  BY <1>1, <1>2, SentGrows
<1>4. elevated' = elevated
  BY DEF Next, Serve, Operate, ReadBlank, ReadInvalid, ReadTooDeep, ReadUndecodable, ReadRequest,
         Hangup, Query, MethodNotFound, MethodUnhashable, Shutdown, GateRejects, GateUnprivileged,
         GatePasses, ApplyRaises, ApplyStarts, ApplyEnds, Respond, RespondFails,
         Progress, ProgressFails, Leave, Send, Change, OrphanEnds, vars
<1>5. QED BY <1>3, <1>4 DEF Passed, RequestOf
-----------------------------------------------------------------------------
(* The types. *)

\* The invariant's parts that speak of the session whose turn it is.
LEMMA SessionTypes ==
  ASSUME TypeOK, NEW s \in Session
  PROVE  /\ sent[s] \in Seq(Lines) /\ out[s] \in Seq(Messages) /\ got[s] \in Nat
         /\ Len(sent[s]) \in Nat /\ Len(out[s]) \in Nat /\ got[s] <= Len(sent[s])
         /\ state[s] \in States /\ reply[s] \in Messages /\ count[s] \in Nat
         /\ Here(s) \in References /\ Here(s).session = s /\ Here(s).id = got[s]
BY DEF TypeOK, Here, References

\* A message written extends its session's output.
LEMMA WriteType ==
  ASSUME TypeOK, NEW s \in Session, NEW m \in Messages, Write(s, m)
  PROVE  /\ out' \in [Session -> Seq(Messages)]
         /\ out'[s] = Append(out[s], m) /\ Len(out'[s]) = Len(out[s]) + 1
         /\ \A i \in 1 .. Len(out[s]) : out'[s][i] = out[s][i]
         /\ out'[s][Len(out[s]) + 1] = m
         /\ \A t \in Session \ {s} : out'[t] = out[t]
<1>1. out[s] \in Seq(Messages) /\ out' = [out EXCEPT ![s] = Append(out[s], m)]
  BY DEF TypeOK, Write
<1> DEFINE longer == Append(out[s], m)
<1>2. /\ longer \in Seq(Messages) /\ Len(longer) = Len(out[s]) + 1
      /\ \A i \in 1 .. Len(out[s]) : longer[i] = out[s][i]
      /\ longer[Len(out[s]) + 1] = m
  BY <1>1, AppendKeeps
<1>3. out' = [out EXCEPT ![s] = longer] /\ longer = Append(out[s], m)
  BY <1>1
<1> HIDE DEF longer
<1>4. QED BY <1>2, <1>3 DEF TypeOK

\* An answer is one of the kinds and bears the id of the request in hand.
LEMMA AnswerType ==
  ASSUME TypeOK, NEW s \in Session, NEW kind \in {"result", "error"}, NEW served \in Nat,
         Answer(s, Message(kind, got[s], served))
  PROVE  /\ state' \in [Session -> States] /\ reply' \in [Session -> Messages]
         /\ state' = [state EXCEPT ![s] = "answering"]
         /\ reply'[s].id = got[s] /\ reply'[s].kind = kind
         /\ \A t \in Session \ {s} : reply'[t] = reply[t]
<1>1. PICK m : m = Message(kind, got[s], served)
  OBVIOUS
<1>2. m \in Messages /\ m.kind = kind /\ m.id = got[s]
  BY <1>1, MessageType, SessionTypes
<1>3. state' = [state EXCEPT ![s] = "answering"] /\ reply' = [reply EXCEPT ![s] = m]
  BY <1>1 DEF Answer, Goto
<1>4. QED BY <1>2, <1>3 DEF TypeOK, States

\* Every step keeps the types.
LEMMA TypeStep == Inv /\ [Next]_vars => TypeOK'
<1> SUFFICES ASSUME Inv, [Next]_vars PROVE TypeOK'
  OBVIOUS
<1>1. TypeOK
  BY DEF Inv
<1>2. sent' \in [Session -> Seq(Lines)] /\ audit' \in Seq([session : Session, id : Nat,
event : Events])
  BY <1>1, SentGrows, AuditGrows
<1>3. \A s \in Session : /\ Len(sent'[s]) \in Nat /\ Len(sent[s]) \in Nat
                         /\ Len(sent'[s]) >= Len(sent[s])
  BY <1>1, <1>2, SentGrows DEF TypeOK
<1>4. ASSUME NEW s \in Session, ReadBlank(s) PROVE TypeOK'
  BY <1>4, <1>1, <1>2 DEF ReadBlank, Goto, TypeOK, States, clientVars
<1>30. ASSUME NEW s \in Session, ReadTooDeep(s) PROVE TypeOK'
  <2>1. /\ got' = [got EXCEPT ![s] = @ + 1] /\ state' = [state EXCEPT ![s] = "ended"]
        /\ got[s] < Len(sent[s]) /\ sent' = sent
        /\ UNCHANGED <<elevated, gone, reply, out, count, stopping, orphan, changed, audit>>
    BY <1>30 DEF ReadTooDeep, Goto, clientVars
  <2>2. got[s] \in Nat /\ Len(sent[s]) \in Nat
    BY <1>1, SessionTypes
  <2>3. got' \in [Session -> Nat] /\ \A t \in Session : got'[t] <= Len(sent'[t])
    BY <1>1, <2>1, <2>2 DEF TypeOK
  <2>4. QED BY <1>1, <1>2, <2>1, <2>3 DEF TypeOK, States
<1>31. ASSUME NEW s \in Session, ReadUndecodable(s) \/ MethodUnhashable(s) PROVE TypeOK'
  BY <1>31, <1>1, <1>2 DEF ReadUndecodable, MethodUnhashable, Goto, TypeOK, States, clientVars
<1>32. ASSUME NEW s \in Session, GatePasses(s) PROVE TypeOK'
  BY <1>32, <1>1, <1>2 DEF GatePasses, Goto, TypeOK, States, clientVars
<1>5. ASSUME NEW s \in Session, ReadInvalid(s) PROVE TypeOK'
  <2>1. Message("error", 0, 0) \in Messages
    BY <1>1, MessageType, SessionTypes
  <2>2. Write(s, Message("error", 0, 0)) \/ UNCHANGED out
    BY <1>5 DEF ReadInvalid
  <2>3. out' \in [Session -> Seq(Messages)]
    BY <1>1, <2>1, <2>2, WriteType DEF TypeOK
  <2>4. state' \in [Session -> States]
    BY <1>5, <1>1 DEF ReadInvalid, Goto, TypeOK, States
  <2>5. got' \in [Session -> Nat] /\ \A t \in Session : got'[t] <= Len(sent'[t])
    BY <1>5, <1>1 DEF ReadInvalid, TypeOK, clientVars
  <2>6. QED BY <1>5, <1>1, <1>2, <2>3, <2>4, <2>5 DEF ReadInvalid, TypeOK, clientVars
<1>6. ASSUME NEW s \in Session, ReadRequest(s) PROVE TypeOK'
  BY <1>6, <1>1, <1>2 DEF ReadRequest, Goto, TypeOK, States, clientVars
<1>7. ASSUME NEW s \in Session, Hangup(s) PROVE TypeOK'
  BY <1>7, <1>1, <1>2 DEF Hangup, Goto, TypeOK, States, clientVars
<1>8. ASSUME NEW s \in Session, Query(s) PROVE TypeOK'
  <2>1. \E kind \in {"result", "error"} : Answer(s, Message(kind, got[s], 0))
    BY <1>8 DEF Query
  <2>2. 0 \in Nat
    BY <1>1, SessionTypes
  <2>3. state' \in [Session -> States] /\ reply' \in [Session -> Messages]
    BY <1>1, <2>1, <2>2, AnswerType
  <2>4. QED BY <1>8, <1>1, <1>2, <2>3, SessionTypes DEF Query, TypeOK, clientVars
<1>9. ASSUME NEW s \in Session, MethodNotFound(s) PROVE TypeOK'
  <2>1. \E kind \in {"result", "error"} : Answer(s, Message(kind, got[s], 0))
    BY <1>9 DEF MethodNotFound
  <2>2. 0 \in Nat
    BY <1>1, SessionTypes
  <2>3. state' \in [Session -> States] /\ reply' \in [Session -> Messages]
    BY <1>1, <2>1, <2>2, AnswerType
  <2>4. QED BY <1>9, <1>1, <1>2, <2>3, SessionTypes DEF MethodNotFound, TypeOK, clientVars
<1>10. ASSUME NEW s \in Session, Shutdown(s) PROVE TypeOK'
  <2>1. \E kind \in {"result", "error"} : Answer(s, Message(kind, got[s], count[s] + 1))
    BY <1>10 DEF Shutdown
  <2>2. count[s] + 1 \in Nat
    BY <1>1, SessionTypes
  <2>3. state' \in [Session -> States] /\ reply' \in [Session -> Messages]
    BY <1>1, <2>1, <2>2, AnswerType
  <2>4. QED BY <1>10, <1>1, <1>2, <2>3, SessionTypes DEF Shutdown, TypeOK, clientVars
<1>11. ASSUME NEW s \in Session, GateRejects(s) PROVE TypeOK'
  <2>1. \E kind \in {"result", "error"} : Answer(s, Message(kind, got[s], 0))
    BY <1>11 DEF GateRejects
  <2>2. 0 \in Nat
    BY <1>1, SessionTypes
  <2>3. state' \in [Session -> States] /\ reply' \in [Session -> Messages]
    BY <1>1, <2>1, <2>2, AnswerType
  <2>4. QED BY <1>11, <1>1, <1>2, <2>3, SessionTypes DEF GateRejects, TypeOK, clientVars
<1>12. ASSUME NEW s \in Session, GateUnprivileged(s) PROVE TypeOK'
  <2>1. \E kind \in {"result", "error"} : Answer(s, Message(kind, got[s], 0))
    BY <1>12 DEF GateUnprivileged
  <2>2. 0 \in Nat
    BY <1>1, SessionTypes
  <2>3. state' \in [Session -> States] /\ reply' \in [Session -> Messages]
    BY <1>1, <2>1, <2>2, AnswerType
  <2>4. QED BY <1>12, <1>1, <1>2, <2>3, SessionTypes DEF GateUnprivileged, TypeOK, clientVars
<1>13. ASSUME NEW s \in Session, ApplyRaises(s) PROVE TypeOK'
  <2>1. \E kind \in {"result", "error"} : Answer(s, Message(kind, got[s], 0))
    BY <1>13 DEF ApplyRaises
  <2>2. 0 \in Nat
    BY <1>1, SessionTypes
  <2>3. state' \in [Session -> States] /\ reply' \in [Session -> Messages]
    BY <1>1, <2>1, <2>2, AnswerType
  <2>4. QED BY <1>13, <1>1, <1>2, <2>3, SessionTypes DEF ApplyRaises, TypeOK, clientVars
<1>14. ASSUME NEW s \in Session, ApplyStarts(s) PROVE TypeOK'
  BY <1>14, <1>1, <1>2 DEF ApplyStarts, Goto, TypeOK, States, clientVars
<1>15. ASSUME NEW s \in Session, ApplyEnds(s) PROVE TypeOK'
  <2>1. \E kind \in {"result", "error"} : Answer(s, Message(kind, got[s], 0))
    BY <1>15 DEF ApplyEnds
  <2>2. 0 \in Nat
    BY <1>1, SessionTypes
  <2>3. state' \in [Session -> States] /\ reply' \in [Session -> Messages]
    BY <1>1, <2>1, <2>2, AnswerType
  <2>4. orphan' \subseteq References
    <3>1. orphan' \subseteq orphan \union {Here(s)}
      BY <1>15 DEF ApplyEnds
    <3>2. Here(s) \in References
      BY <1>1, SessionTypes
    <3>3. QED BY <1>1, <3>1, <3>2 DEF TypeOK
  <2>5. QED BY <1>15, <1>1, <1>2, <2>3, <2>4, SessionTypes DEF ApplyEnds, TypeOK, clientVars
<1>16. ASSUME NEW s \in Session, Respond(s) PROVE TypeOK'
  <2>1. out' \in [Session -> Seq(Messages)]
    BY <1>16, <1>1, WriteType, SessionTypes DEF Respond
  <2>2. NoReply \in Messages
    BY MessageType DEF NoReply
  <2>3. QED BY <1>16, <1>1, <1>2, <2>1, <2>2 DEF Respond, Goto, TypeOK, States, clientVars
<1>17. ASSUME NEW s \in Session, RespondFails(s) PROVE TypeOK'
  BY <1>17, <1>1, <1>2 DEF RespondFails, Goto, TypeOK, States, clientVars
<1>18. ASSUME NEW s \in Session, Progress(s) PROVE TypeOK'
  <2>1. Message("progress", got[s], 0) \in Messages
    BY <1>1, MessageType, SessionTypes
  <2>2. Write(s, Message("progress", got[s], 0)) \/ UNCHANGED out
    BY <1>18 DEF Progress
  <2>3. out' \in [Session -> Seq(Messages)]
    BY <1>1, <2>1, <2>2, WriteType DEF TypeOK
  <2>4. state' \in [Session -> States]
    BY <1>18, <1>1 DEF Progress, Goto, TypeOK, States
  <2>5. got' \in [Session -> Nat] /\ \A t \in Session : got'[t] <= Len(sent'[t])
    BY <1>18, <1>1 DEF Progress, TypeOK, clientVars
  <2>6. QED BY <1>18, <1>1, <1>2, <2>3, <2>4, <2>5 DEF Progress, TypeOK, clientVars
<1>19. ASSUME NEW s \in Session, ProgressFails(s) PROVE TypeOK'
  <2>1. \E kind \in {"result", "error"} : Answer(s, Message(kind, got[s], 0))
    BY <1>19 DEF ProgressFails
  <2>2. 0 \in Nat
    BY <1>1, SessionTypes
  <2>3. state' \in [Session -> States] /\ reply' \in [Session -> Messages]
    BY <1>1, <2>1, <2>2, AnswerType
  <2>4. QED BY <1>19, <1>1, <1>2, <2>3, SessionTypes DEF ProgressFails, TypeOK, clientVars
<1>20. ASSUME NEW s \in Session, Leave(s) PROVE TypeOK'
  BY <1>20, <1>1, <1>2 DEF Leave, Goto, TypeOK, States, clientVars
<1>21. ASSUME NEW s \in Session, NEW line \in Request, Send(s, line) PROVE TypeOK'
  BY <1>21, <1>1, <1>2, <1>3 DEF Send, TypeOK
<1>22. ASSUME NEW r \in Active, Change(r) \/ OrphanEnds(r) PROVE TypeOK'
  <2>1. r \in References
    BY <1>1, SessionTypes DEF Active, TypeOK
  <2>2. QED BY <1>22, <1>1, <1>2, <2>1 DEF Change, OrphanEnds, TypeOK, clientVars
<1>23. CASE UNCHANGED vars
  BY <1>23, <1>1 DEF vars, clientVars, TypeOK
<1> QED
  BY <1>4, <1>5, <1>6, <1>7, <1>8, <1>9, <1>10, <1>11, <1>12, <1>13, <1>14, <1>15, <1>16, <1>17,
         <1>18, <1>19, <1>20, <1>21, <1>22, <1>23,
     <1>30, <1>31, <1>32 DEF Next, Serve, Operate

-----------------------------------------------------------------------------
(* The gate. *)

\* What runs in a session or outlives it belongs to one of the sessions.
LEMMA ActiveSessions ==
  ASSUME TypeOK, NEW r \in Active \union changed
  PROVE  r.session \in Session /\ r \in References
BY SessionTypes DEF TypeOK, Active, References

\* When nothing is let in or starts to run and no request is added to changed, what was
\* admitted covers what may run.
LEMMA GateStays ==
  ASSUME Inv, [Next]_vars, changed' = changed, Active' \subseteq Active,
         \A s \in Session : state'[s] = "admitted" => state[s] = "admitted" /\ got'[s] = got[s]
  PROVE  GateInv'
<1>1. \A r \in Active \union changed : Admitted(r)' /\ RequestOf(r)' = RequestOf(r)
  BY ActiveSessions, AdmittedStays DEF Inv, GateInv
<1>2. ASSUME NEW s \in Session, state'[s] = "admitted" PROVE Passed(Here(s))'
  <2>1. Here(s)' = Here(s) /\ Passed(Here(s)) /\ Here(s).session \in Session
    BY <1>2 DEF Here, Inv, GateInv
  <2>2. PICK r : r = Here(s)
    OBVIOUS
  <2>3. Passed(r)'
    BY <2>1, <2>2, PassedStays DEF Inv
  <2>4. QED BY <2>1, <2>2, <2>3
<1>3. QED BY <1>1, <1>2 DEF Inv, GateInv, Installs, Asked

\* Nothing runs in a session but what was let in, and nothing is changed by anything
\* else.
LEMMA GateStep == Inv /\ [Next]_vars => GateInv'
<1> SUFFICES ASSUME Inv, [Next]_vars PROVE GateInv'
  OBVIOUS
<1>1. TypeOK
  BY DEF Inv
<1>2. ASSUME NEW s \in Session,
             \/ ReadBlank(s) \/ ReadInvalid(s) \/ ReadTooDeep(s) \/ ReadUndecodable(s)
             \/ ReadRequest(s) \/ Hangup(s)
             \/ Query(s) \/ MethodNotFound(s) \/ MethodUnhashable(s) \/ Shutdown(s)
             \/ GateRejects(s) \/ GateUnprivileged(s) \/ ApplyRaises(s)
             \/ Respond(s) \/ RespondFails(s)
      PROVE  GateInv'
  <2>1. /\ state[s] # "applying" /\ state'[s] \notin {"admitted", "applying"}
        /\ UNCHANGED <<orphan, changed>>
        /\ \A t \in Session \ {s} : state'[t] = state[t] /\ got'[t] = got[t]
    <3>1. CASE ReadBlank(s) \/ ReadInvalid(s) \/ ReadTooDeep(s) \/ ReadUndecodable(s)
      BY <1>1, <3>1 DEF ReadBlank, ReadInvalid, ReadTooDeep, ReadUndecodable, Goto, At, TypeOK
    <3>2. CASE ReadRequest(s) \/ Hangup(s) \/ MethodUnhashable(s) \/ Respond(s) \/ RespondFails(s)
      BY <1>1, <3>2 DEF ReadRequest, Hangup, MethodUnhashable, Respond, RespondFails, Goto, At,
             TypeOK
    <3>3. CASE Query(s) \/ MethodNotFound(s) \/ Shutdown(s)
      BY <1>1, <3>3 DEF Query, MethodNotFound, Shutdown, Answer, Goto, At, TypeOK
    <3>4. CASE GateRejects(s) \/ GateUnprivileged(s) \/ ApplyRaises(s)
      BY <1>1, <3>4 DEF GateRejects, GateUnprivileged, ApplyRaises, Answer, Goto, At, TypeOK
    <3>5. QED BY <1>2, <3>1, <3>2, <3>3, <3>4
  <2>2. Active' \subseteq Active
    BY <2>1 DEF Active, At, Here
  <2>3. QED BY <2>1, <2>2, GateStays
<1>3. ASSUME NEW s \in Session, ApplyStarts(s) PROVE GateInv'
  <2>1. /\ Log(s, "apply_updates") /\ state[s] = "admitted" /\ got' = got
        /\ state' = [state EXCEPT ![s] = "applying"]
        /\ UNCHANGED <<sent, elevated, orphan, changed>>
    BY <1>3 DEF ApplyStarts, Goto, At, clientVars
  <2>2. Active' = Active \union {Here(s)} /\ Here(s)' = Here(s)
    BY <2>1 DEF Active, At, Here, TypeOK, Inv
  <2>3. Audited(Here(s))'
    <3>1. audit \in Seq([session : Session, id : Nat, event : Events])
      BY <1>1 DEF TypeOK
    <3>2. /\ audit' = Append(audit, [session |-> s, id |-> got[s], event |-> "apply_updates"])
          /\ [session |-> s, id |-> got[s], event |-> "apply_updates"]
               \in [session : Session, id : Nat, event : Events]
      BY <2>1, <1>1 DEF Log, TypeOK, Events
    <3>3. /\ Len(audit') = Len(audit) + 1 /\ Len(audit) \in Nat
          /\ audit'[Len(audit) + 1] = [session |-> s, id |-> got[s], event |-> "apply_updates"]
      BY <3>1, <3>2, AppendKeeps
    <3>4. QED BY <3>3, <2>1 DEF Audited, Here
  <2>4. Passed(Here(s))
    BY <2>1 DEF Inv, GateInv
  <2>5. Admitted(Here(s))'
    BY <2>1, <2>3, <2>4 DEF Admitted, Passed, RequestOf, Here
  <2>6. \A r \in Active \union changed : Admitted(r)' /\ RequestOf(r)' = RequestOf(r)
    BY <1>1, ActiveSessions, AdmittedStays DEF Inv, GateInv
  <2>7. \A t \in Session : state'[t] = "admitted" => Passed(Here(t))'
    BY <1>1, <2>1 DEF Inv, GateInv, TypeOK, Passed, Here, RequestOf
  <2>8. QED BY <2>1, <2>2, <2>5, <2>6, <2>7 DEF Inv, GateInv, Installs, Asked
<1>4. ASSUME NEW s \in Session, Progress(s) \/ Leave(s) PROVE GateInv'
  <2>1. UNCHANGED <<state, got, orphan, changed>>
    BY <1>4 DEF Progress, Leave
  <2>2. QED BY <2>1, GateStays DEF Active, At, Here
<1>5. ASSUME NEW s \in Session, ProgressFails(s) \/ ApplyEnds(s) PROVE GateInv'
  <2>1. /\ orphan' \subseteq orphan \union {Here(s)} /\ At(s, "applying") /\ UNCHANGED <<got, changed>>
        /\ state'[s] = "answering" /\ \A t \in Session \ {s} : state'[t] = state[t]
    BY <1>1, <1>5 DEF ProgressFails, ApplyEnds, Answer, Goto, TypeOK
  <2>2. Active' \subseteq Active
    BY <2>1 DEF Active, At, Here
  <2>3. QED BY <2>1, <2>2, GateStays
<1>6. ASSUME NEW s \in Session, NEW line \in Request, Send(s, line) PROVE GateInv'
  <2>1. UNCHANGED <<state, got, orphan, changed>>
    BY <1>6 DEF Send
  <2>2. QED BY <2>1, GateStays DEF Active, At, Here
<1>7. ASSUME NEW r \in Active, Change(r) PROVE GateInv'
  <2>1. /\ Installs(RequestOf(r)) /\ changed' = changed \union {r}
        /\ UNCHANGED <<state, got, orphan, sent, elevated>>
    BY <1>7 DEF Change, clientVars
  <2>2. Active' = Active
    BY <2>1 DEF Active, At, Here
  <2>3. \A t \in Active \union changed : Admitted(t)' /\ RequestOf(t)' = RequestOf(t)
    BY <1>1, ActiveSessions, AdmittedStays DEF Inv, GateInv
  <2>4. \A t \in Session : state'[t] = "admitted" => Passed(Here(t))'
    BY <2>1 DEF Inv, GateInv, Passed, Here, RequestOf
  <2>5. QED BY <2>1, <2>2, <2>3, <2>4 DEF Inv, GateInv, Installs, Asked
<1>8. ASSUME NEW r \in Active, OrphanEnds(r) PROVE GateInv'
  <2>1. orphan' \subseteq orphan /\ UNCHANGED <<state, got, changed>>
    BY <1>8 DEF OrphanEnds
  <2>2. QED BY <2>1, GateStays DEF Active, At, Here
<1>9. CASE UNCHANGED vars
  <2>1. UNCHANGED <<state, got, orphan, changed>>
    BY <1>9 DEF vars
  <2>2. QED BY <2>1, GateStays DEF Active, At, Here
<1>10. ASSUME NEW s \in Session, GatePasses(s) PROVE GateInv'
  <2>1. /\ state[s] = "handling" /\ state' = [state EXCEPT ![s] = "admitted"]
        /\ UNCHANGED <<sent, elevated, got, orphan, changed, audit>>
        /\ Current(s).dry \/ (Confirmed(Current(s)) /\ elevated)
    BY <1>10 DEF GatePasses, Goto, At, clientVars
  <2>2. Active' = Active
    BY <1>1, <2>1 DEF Active, At, Here, TypeOK
  <2>3. got[s] \in 1 .. Len(sent[s])
    BY <1>1, <2>1, SessionTypes DEF Inv, SessionInv
  <2>4. Passed(Here(s))
    BY <2>1, <2>3 DEF Passed, Here, RequestOf, Current
  <2>5. \A t \in Session : state'[t] = "admitted" => Passed(Here(t))'
    BY <1>1, <2>1, <2>4 DEF Inv, GateInv, TypeOK, Passed, Here, RequestOf
  <2>6. \A r \in Active \union changed : Admitted(r)' /\ RequestOf(r)' = RequestOf(r)
    BY <1>1, ActiveSessions, AdmittedStays DEF Inv, GateInv
  <2>7. QED BY <2>1, <2>2, <2>5, <2>6 DEF Inv, GateInv, Installs, Asked
<1> QED
  BY <1>2, <1>3, <1>4, <1>5, <1>6, <1>7, <1>8, <1>9, <1>10 DEF Next, Serve, Operate

-----------------------------------------------------------------------------
(* The sessions. *)

\* A shutdown that has been read stays read.
LEMMA AskedStays ==
  ASSUME TypeOK, [Next]_vars, NEW t \in Session, AskedToEnd(t)
  PROVE  AskedToEnd(t)'
<1>1. got'[t] \in {got[t], got[t] + 1}
  BY DEF Next, Serve, Operate, ReadBlank, ReadInvalid, ReadTooDeep, ReadUndecodable, ReadRequest,
         Hangup, Query, MethodNotFound, MethodUnhashable, Shutdown,
         GateRejects, GateUnprivileged, GatePasses, ApplyRaises, ApplyStarts, ApplyEnds, Respond,
         RespondFails,
         Progress, ProgressFails, Leave, Send, Change, OrphanEnds, vars, TypeOK
<1>2. PICK i \in 1 .. got[t] : sent[t][i].method = "shutdown"
  BY DEF AskedToEnd
<1>3. got[t] \in Nat /\ Len(sent[t]) \in Nat /\ got[t] <= Len(sent[t])
  BY SessionTypes
<1>4. sent'[t][i] = sent[t][i] /\ i \in 1 .. got'[t]
  BY <1>1, <1>2, <1>3, SentGrows
<1>5. QED BY <1>2, <1>4 DEF AskedToEnd

\* A line that breaks a session stays sent.
LEMMA BrokenStays ==
  ASSUME TypeOK, [Next]_vars, NEW t \in Session, Broken(t)
  PROVE  Broken(t)'
<1>1. PICK k \in 1 .. Len(sent[t]) : sent[t][k].method \in Fatal
  BY DEF Broken
<1>2. Len(sent[t]) \in Nat /\ Len(sent'[t]) \in Nat
  BY SentGrows DEF TypeOK
<1>3. sent'[t][k] = sent[t][k] /\ k \in 1 .. Len(sent'[t])
  BY <1>2, SentGrows
<1>4. QED BY <1>1, <1>3 DEF Broken

\* A step that ends no session, takes none in hand and stops none.
LEMMA SessionStays ==
  ASSUME Inv, [Next]_vars, gone \subseteq gone', got' = got, stopping' = stopping,
         \A t \in Session : state'[t] = state[t]
  PROVE  SessionInv' /\ EndsForItsOwnCause'
<1>1. \A t \in Session : AskedToEnd(t) => AskedToEnd(t)'
  BY AskedStays DEF Inv
<1>2. stopping \subseteq Session
  BY DEF Inv, TypeOK
<1>3. \A t \in Session : Broken(t) => Broken(t)'
  BY BrokenStays DEF Inv
<1>4. SessionInv'
  BY <1>1, <1>2 DEF Inv, SessionInv
<1>5. EndsForItsOwnCause'
  BY <1>1, <1>3 DEF Inv, EndsForItsOwnCause
<1>6. QED BY <1>4, <1>5

\* A step of one session, which has its own cause if it ends.
LEMMA SessionMoves ==
  ASSUME Inv, [Next]_vars, NEW s \in Session, gone' = gone, stopping' \subseteq stopping \union {s},
         \A t \in Session \ {s} : state'[t] = state[t] /\ got'[t] = got[t],
         state'[s] \in {"handling", "admitted", "applying", "answering"} => got'[s] >= 1,
         s \in stopping' => AskedToEnd(s)',
         state'[s] = "ended" => s \in gone \/ AskedToEnd(s)' \/ Broken(s)
  PROVE  SessionInv' /\ EndsForItsOwnCause'
<1>1. \A t \in Session : AskedToEnd(t) => AskedToEnd(t)'
  BY AskedStays DEF Inv
<1>2. stopping \subseteq Session
  BY DEF Inv, TypeOK
<1>3. SessionInv'
  BY <1>1, <1>2 DEF Inv, SessionInv
<1>4. \A t \in Session : Broken(t) => Broken(t)'
  BY BrokenStays DEF Inv
<1>5. EndsForItsOwnCause'
  BY <1>1, <1>4 DEF Inv, EndsForItsOwnCause
<1>6. QED BY <1>3, <1>5

\* No session is ended by another's shutdown, departure or failure.
LEMMA SessionStep == Inv /\ [Next]_vars => SessionInv' /\ EndsForItsOwnCause'
<1> SUFFICES ASSUME Inv, [Next]_vars PROVE SessionInv' /\ EndsForItsOwnCause'
  OBVIOUS
<1>1. TypeOK /\ SessionInv
  BY DEF Inv
<1>2. \A t \in Session : (t \in stopping => AskedToEnd(t)')
  BY <1>1, AskedStays DEF SessionInv
<1>3. ASSUME NEW s \in Session,
             ReadBlank(s) \/ ReadInvalid(s) \/ ReadRequest(s) \/ Hangup(s) \/ RespondFails(s)
      PROVE  SessionInv' /\ EndsForItsOwnCause'
  <2>1. /\ gone' = gone /\ stopping' = stopping
        /\ \A t \in Session \ {s} : state'[t] = state[t] /\ got'[t] = got[t]
        /\ state'[s] = "handling" => got'[s] = got[s] + 1
        /\ state'[s] \in {"reading", "handling", "ended"}
        /\ state'[s] = "ended" => s \in gone
    BY <1>1, <1>3 DEF ReadBlank, ReadInvalid, ReadTooDeep, ReadUndecodable, ReadRequest, Hangup,
           RespondFails, Goto, At, TypeOK, clientVars
  <2>2. got[s] \in Nat
    BY <1>1, SessionTypes
  <2>3. QED BY <1>2, <2>1, <2>2, SessionMoves
<1>4. ASSUME NEW s \in Session,
             \/ Query(s) \/ MethodNotFound(s) \/ GateRejects(s) \/ GateUnprivileged(s) \/ ApplyRaises(s)
             \/ GatePasses(s) \/ ApplyStarts(s) \/ ApplyEnds(s) \/ ProgressFails(s)
      PROVE  SessionInv' /\ EndsForItsOwnCause'
  <2>1. /\ gone' = gone /\ stopping' = stopping /\ got' = got
        /\ \A t \in Session \ {s} : state'[t] = state[t]
        /\ state'[s] \in {"admitted", "applying", "answering"}
        /\ state[s] \in {"handling", "admitted", "applying"}
    BY <1>1, <1>4 DEF Query, MethodNotFound, GateRejects, GateUnprivileged, ApplyRaises,
           GatePasses, ApplyStarts,
           ApplyEnds, ProgressFails, Answer, Goto, At, TypeOK, clientVars
  <2>2. got[s] >= 1
    BY <1>1, <2>1 DEF SessionInv
  <2>3. QED BY <1>2, <2>1, <2>2, SessionMoves
<1>5. ASSUME NEW s \in Session, Shutdown(s) PROVE SessionInv' /\ EndsForItsOwnCause'
  <2>1. /\ gone' = gone /\ stopping' = stopping \union {s} /\ UNCHANGED <<sent, got>>
        /\ \A t \in Session \ {s} : state'[t] = state[t]
        /\ state'[s] = "answering" /\ state[s] = "handling"
        /\ sent[s][got[s]].method = "shutdown"
    BY <1>1, <1>5 DEF Shutdown, Answer, Goto, At, TypeOK, clientVars, Current
  <2>2. got[s] >= 1 /\ got[s] \in Nat
    BY <1>1, <2>1, SessionTypes DEF SessionInv
  <2>3. AskedToEnd(s)'
    BY <2>1, <2>2 DEF AskedToEnd
  <2>4. QED BY <2>1, <2>2, <2>3, SessionMoves
<1>6. ASSUME NEW s \in Session, Respond(s) PROVE SessionInv' /\ EndsForItsOwnCause'
  <2>1. /\ gone' = gone /\ stopping' = stopping /\ got' = got
        /\ \A t \in Session \ {s} : state'[t] = state[t]
        /\ state'[s] \in {"ended", "reading"} /\ (state'[s] = "ended" => s \in stopping)
    BY <1>1, <1>6 DEF Respond, Goto, TypeOK, clientVars
  <2>2. QED BY <1>2, <2>1, SessionMoves
<1>7. CASE \/ \E s \in Session : Progress(s) \/ Leave(s)
           \/ \E s \in Session, line \in Request : Send(s, line)
           \/ \E r \in Active : Change(r) \/ OrphanEnds(r)
           \/ UNCHANGED vars
  <2>1. gone \subseteq gone' /\ UNCHANGED <<got, stopping, state>>
    BY <1>7 DEF Progress, Leave, Send, Change, OrphanEnds, vars, clientVars
  <2>2. QED BY <2>1, SessionStays
<1>8. ASSUME NEW s \in Session, ReadTooDeep(s) \/ ReadUndecodable(s) \/ MethodUnhashable(s)
      PROVE  SessionInv' /\ EndsForItsOwnCause'
  <2>1. /\ gone' = gone /\ stopping' = stopping /\ state'[s] = "ended"
        /\ \A t \in Session \ {s} : state'[t] = state[t] /\ got'[t] = got[t]
    BY <1>1, <1>8 DEF ReadTooDeep, ReadUndecodable, MethodUnhashable, Goto, TypeOK, clientVars
  <2>2. got[s] \in Nat /\ Len(sent[s]) \in Nat /\ got[s] <= Len(sent[s])
    BY <1>1, SessionTypes
  <2>3. Broken(s)
    <3>1. CASE ReadTooDeep(s)
      <4>1. got[s] < Len(sent[s]) /\ sent[s][got[s] + 1].method = "too deep"
        BY <3>1 DEF ReadTooDeep
      <4>2. \A g, n \in Nat : g < n => g + 1 \in 1 .. n
        OBVIOUS
      <4>3. got[s] + 1 \in 1 .. Len(sent[s])
        BY <2>2, <4>1, <4>2
      <4>4. QED BY <4>1, <4>3 DEF Broken, Fatal
    <3>2. CASE ReadUndecodable(s)
      <4>1. PICK k \in got[s] + 1 .. Len(sent[s]) : sent[s][k].method = "undecodable"
        BY <3>2 DEF ReadUndecodable
      <4>2. k \in 1 .. Len(sent[s])
        BY <2>2
      <4>3. QED BY <4>1, <4>2 DEF Broken, Fatal
    <3>3. CASE MethodUnhashable(s)
      <4>1. got[s] \in 1 .. Len(sent[s]) /\ sent[s][got[s]].method = "unhashable"
        BY <1>1, <2>2, <3>3 DEF MethodUnhashable, At, Current, SessionInv
      <4>2. QED BY <4>1 DEF Broken, Fatal
    <3>4. QED BY <1>8, <3>1, <3>2, <3>3
  <2>4. QED BY <1>2, <2>1, <2>3, SessionMoves
<1> QED
  BY <1>3, <1>4, <1>5, <1>6, <1>7, <1>8 DEF Next, Serve, Operate

-----------------------------------------------------------------------------
(* What is written. *)


\* The parts of the invariant that speak of one message.
LEMMA OldMessages ==
  ASSUME Inv, [Next]_vars, NEW t \in Session, NEW i \in 1 .. Len(out[t])
  PROVE  /\ out[t][i] \in Messages /\ out[t][i].id \in Nat /\ out[t][i].id <= got[t]
         /\ out[t][i].kind = "progress" =>
              /\ out[t][i].id >= 1 /\ Streams(sent[t][out[t][i].id])
              /\ sent'[t][out[t][i].id] = sent[t][out[t][i].id]
         /\ state[t] \in {"handling", "admitted", "applying", "answering"} /\ out[t][i].kind # "progress" =>
              out[t][i].id < got[t]
<1>1. /\ got[t] \in Nat /\ out[t] \in Seq(Messages) /\ Len(sent[t]) \in Nat
      /\ got[t] <= Len(sent[t])
  BY SessionTypes DEF Inv
<1>2. out[t][i] \in Messages
  BY <1>1
<1>3. out[t][i].id \in Nat
  BY <1>2 DEF Messages
<1>4. /\ out[t][i].id <= got[t]
      /\ out[t][i].kind = "progress" => out[t][i].id >= 1 /\ Streams(sent[t][out[t][i].id])
      /\ state[t] \in {"handling", "admitted", "applying", "answering"} /\ out[t][i].kind # "progress" =>
           out[t][i].id < got[t]
  BY DEF Inv, OutInv, ProgressBelongs
<1>5. out[t][i].id >= 1 => out[t][i].id \in 1 .. Len(sent[t])
  BY <1>1, <1>3, <1>4
<1>6. out[t][i].kind = "progress" => sent'[t][out[t][i].id] = sent[t][out[t][i].id]
  BY <1>4, <1>5, SentGrows DEF Inv
<1>7. QED BY <1>2, <1>3, <1>4, <1>6

\* The order of two messages that were written before.
LEMMA OldOrder ==
  ASSUME Inv, NEW t \in Session, NEW i \in 1 .. Len(out[t]), NEW j \in 1 .. Len(out[t]),
         out[t][i].kind = "progress"
  PROVE  /\ j > i => out[t][j].id >= out[t][i].id \/ out[t][j].id = 0
         /\ out[t][j].id = out[t][i].id /\ out[t][j].kind # "progress" => j > i
BY DEF Inv, ProgressBelongs

\* Nothing is written, and the session in hand moves on or answers.
LEMMA OutStays ==
  ASSUME Inv, [Next]_vars, NEW s \in Session, out' = out,
         \A t \in Session \ {s} : state'[t] = state[t] /\ got'[t] = got[t] /\ reply'[t] = reply[t],
         \/ got'[s] = got[s] /\ state'[s] \notin {"handling", "admitted", "applying", "answering"}
         \/ got'[s] = got[s] /\ state[s] \in {"handling", "admitted", "applying", "answering"}
         \/ got'[s] = got[s] + 1,
         state'[s] = "answering" => reply'[s].id = got'[s] /\ reply'[s].kind # "progress"
  PROVE  OutInv' /\ ProgressBelongs'
<1>1. \A t \in Session : got[t] \in Nat
  BY SessionTypes DEF Inv
<1>2. ASSUME NEW t \in Session, NEW i \in 1 .. Len(out[t])
      PROVE  /\ out[t][i].id <= got'[t]
             /\ out[t][i].kind = "progress" => out[t][i].id >= 1
             /\ state'[t] \in {"handling", "admitted", "applying", "answering"} /\ out[t][i].kind # "progress" =>
                  out[t][i].id < got'[t]
  BY <1>1, OldMessages
<1>3. ASSUME NEW t \in Session, state'[t] = "answering"
      PROVE  reply'[t].id = got'[t] /\ reply'[t].kind # "progress"
  BY <1>3 DEF Inv, OutInv
<1>4. OutInv'
  BY <1>2, <1>3 DEF OutInv
<1>5. ASSUME NEW t \in Session, NEW i \in 1 .. Len(out[t]), out[t][i].kind = "progress"
      PROVE  Streams(sent'[t][out[t][i].id])
  BY <1>5, OldMessages
<1>6. ProgressBelongs'
  BY <1>5 DEF Inv, ProgressBelongs, Streams
<1>7. QED BY <1>4, <1>6

\* A session writes a message: a line of the apply in hand, or the response to the
\* request in hand or to a line that is no request.
LEMMA OutGrows ==
  ASSUME Inv, [Next]_vars, NEW s \in Session, NEW m \in Messages, Write(s, m),
         \A t \in Session \ {s} : state'[t] = state[t] /\ got'[t] = got[t] /\ reply'[t] = reply[t],
         got'[s] \in {got[s], got[s] + 1},
         \/ /\ m.kind = "progress" /\ m.id = got[s] /\ got'[s] = got[s] /\ got[s] >= 1
            /\ state[s] = "applying" /\ state'[s] = "applying" /\ Streams(sent[s][got[s]])
         \/ /\ m.kind # "progress" /\ m.id \in {0, got[s]}
            /\ state'[s] \notin {"handling", "admitted", "applying", "answering"}
  PROVE  OutInv' /\ ProgressBelongs'
<1> DEFINE k == Len(out[s]) + 1
<1>1. /\ Len(out'[s]) = k /\ out'[s][k] = m
      /\ \A i \in 1 .. Len(out[s]) : out'[s][i] = out[s][i]
      /\ \A t \in Session \ {s} : out'[t] = out[t]
  BY WriteType DEF Inv
<1>2. \A t \in Session : /\ got[t] \in Nat /\ Len(out[t]) \in Nat
                         /\ Len(sent[t]) \in Nat /\ got[t] <= Len(sent[t])
  BY SessionTypes DEF Inv
<1>3. m.id \in Nat
  BY DEF Messages
<1> HIDE DEF k
<1>4. k \in Nat /\ \A i \in 1 .. k : i = k \/ i \in 1 .. Len(out[s])
  BY <1>2 DEF k
<1>5. \A i \in 1 .. Len(out[s]) : i < k
  BY <1>2 DEF k
<1>6. ASSUME NEW t \in Session, NEW i \in 1 .. Len(out'[t])
      PROVE  /\ out'[t][i].id <= got'[t]
             /\ out'[t][i].kind = "progress" => out'[t][i].id >= 1 /\ Streams(sent'[t][out'[t][i].id])
             /\ state'[t] \in {"handling", "admitted", "applying", "answering"} /\ out'[t][i].kind # "progress" =>
                  out'[t][i].id < got'[t]
  <2>1. CASE t # s
    <3>1. out'[t] = out[t] /\ state'[t] = state[t] /\ got'[t] = got[t]
      BY <2>1, <1>1
    <3>2. QED BY <3>1, <1>2, OldMessages DEF Streams
  <2>2. CASE t = s /\ i \in 1 .. Len(out[s])
    <3>1. out'[s][i] = out[s][i]
      BY <2>2, <1>1
    <3>2. QED BY <2>2, <3>1, <1>2, OldMessages DEF Streams
  <2>3. CASE t = s /\ i = k
    <3>1. out'[s][i] = m
      BY <2>3, <1>1
    <3>2. m.kind = "progress" => sent'[s][got[s]] = sent[s][got[s]]
      BY <1>2, SentGrows DEF Inv
    <3>3. QED BY <2>3, <3>1, <3>2, <1>2, <1>3 DEF Streams
  <2>4. QED BY <2>1, <2>2, <2>3, <1>1, <1>4
<1>7. ASSUME NEW t \in Session, state'[t] = "answering"
      PROVE  reply'[t].id = got'[t] /\ reply'[t].kind # "progress"
  BY <1>7 DEF Inv, OutInv
<1>8. OutInv'
  BY <1>6, <1>7 DEF OutInv
<1>9. ASSUME NEW t \in Session, NEW i \in 1 .. Len(out'[t]), NEW j \in 1 .. Len(out'[t]),
             out'[t][i].kind = "progress"
      PROVE  /\ j > i => out'[t][j].id >= out'[t][i].id \/ out'[t][j].id = 0
             /\ out'[t][j].id = out'[t][i].id /\ out'[t][j].kind # "progress" => j > i
  <2>1. CASE t # s
    <3>1. out'[t] = out[t]
      BY <2>1, <1>1
    <3>2. QED BY <3>1, <1>9, OldOrder
  <2>2. CASE t = s /\ i \in 1 .. Len(out[s]) /\ j \in 1 .. Len(out[s])
    <3>1. out'[s][i] = out[s][i] /\ out'[s][j] = out[s][j]
      BY <2>2, <1>1
    <3>2. QED BY <2>2, <3>1, <1>9, OldOrder
  <2>3. CASE t = s /\ i \in 1 .. Len(out[s]) /\ j = k
    <3>1. out'[s][i] = out[s][i] /\ out'[s][j] = m
      BY <2>3, <1>1
    <3>2. out[s][i].id \in Nat /\ out[s][i].id <= got[s] /\ out[s][i].id >= 1
      BY <2>3, <3>1, <1>9, OldMessages
    <3>3. QED BY <2>3, <3>1, <3>2, <1>2, <1>3, <1>5
  <2>4. CASE t = s /\ i = k /\ j \in 1 .. Len(out[s])
    <3>1. out'[s][i] = m /\ out'[s][j] = out[s][j]
      BY <2>4, <1>1
    <3>2. out[s][j].id \in Nat /\ (out[s][j].kind # "progress" => out[s][j].id < got[s])
      BY <2>4, <3>1, <1>9, OldMessages
    <3>3. j < k
      BY <2>4, <1>5
    <3>4. QED BY <2>4, <3>1, <3>2, <3>3, <1>2, <1>4, <1>9
  <2>5. CASE t = s /\ i = k /\ j = k
    BY <2>5, <1>1, <1>4, <1>9
  <2>6. QED BY <2>1, <2>2, <2>3, <2>4, <2>5, <1>1, <1>4
<1>10. ProgressBelongs'
  BY <1>6, <1>9 DEF ProgressBelongs
<1>11. QED BY <1>8, <1>10

\* Every step keeps what is written in order.
LEMMA OutStep == Inv /\ [Next]_vars => OutInv' /\ ProgressBelongs'
<1> SUFFICES ASSUME Inv, [Next]_vars PROVE OutInv' /\ ProgressBelongs'
  OBVIOUS
<1>1. TypeOK /\ SessionInv /\ OutInv
  BY DEF Inv
<1>2. ASSUME NEW s \in Session,
             \/ ReadBlank(s) \/ ReadTooDeep(s) \/ ReadUndecodable(s) \/ ReadRequest(s) \/ Hangup(s)
             \/ RespondFails(s) \/ MethodUnhashable(s) \/ GatePasses(s) \/ ApplyStarts(s)
             \/ (ReadInvalid(s) /\ UNCHANGED out)
      PROVE  OutInv' /\ ProgressBelongs'
  <2>1. /\ out' = out /\ reply' = reply
        /\ \A t \in Session \ {s} : state'[t] = state[t] /\ got'[t] = got[t]
        /\ \/ got'[s] = got[s] /\ state'[s] = "ended"
           \/ got'[s] = got[s] /\ state[s] \in {"handling", "admitted"}
           \/ got'[s] = got[s] + 1
        /\ state'[s] # "answering"
    BY <1>1, <1>2 DEF ReadBlank, ReadTooDeep, ReadUndecodable, ReadRequest, Hangup, RespondFails,
           MethodUnhashable, GatePasses, ApplyStarts, ReadInvalid, Goto, At, TypeOK, clientVars
  <2>2. QED BY <2>1, OutStays
<1>3. ASSUME NEW s \in Session,
             \/ Query(s) \/ MethodNotFound(s) \/ Shutdown(s) \/ GateRejects(s) \/ GateUnprivileged(s)
             \/ ApplyRaises(s) \/ ApplyEnds(s) \/ ProgressFails(s)
      PROVE  OutInv' /\ ProgressBelongs'
  <2>1. PICK kind \in {"result", "error"}, served \in {0, count[s] + 1} :
          Answer(s, Message(kind, got[s], served))
    BY <1>3 DEF Query, MethodNotFound, MethodUnhashable, Shutdown, GateRejects, GateUnprivileged,
           ApplyRaises,
           ApplyEnds, ProgressFails
  <2>2. served \in Nat
    BY <1>1, SessionTypes
  <2>3. out' = out /\ got' = got /\ state[s] \in {"handling", "admitted", "applying"}
    BY <1>3 DEF Query, MethodNotFound, MethodUnhashable, Shutdown, GateRejects, GateUnprivileged,
           ApplyRaises,
           ApplyEnds, ProgressFails, At
  <2>4. /\ state' = [state EXCEPT ![s] = "answering"]
        /\ reply'[s].id = got[s] /\ reply'[s].kind = kind
        /\ \A t \in Session \ {s} : reply'[t] = reply[t]
    BY <1>1, <2>1, <2>2, AnswerType
  <2>5. \A t \in Session \ {s} : state'[t] = state[t]
    BY <1>1, <2>4 DEF TypeOK
  <2>6. QED BY <2>3, <2>4, <2>5, OutStays
<1>4. ASSUME NEW s \in Session, ReadInvalid(s), Write(s, Message("error", 0, 0))
      PROVE  OutInv' /\ ProgressBelongs'
  <2>1. PICK m : m = Message("error", 0, 0)
    OBVIOUS
  <2>2. m \in Messages /\ m.kind = "error" /\ m.id = 0 /\ Write(s, m)
    BY <2>1, <1>4, MessageType
  <2>3. /\ reply' = reply /\ state[s] = "reading" /\ got'[s] = got[s] + 1
        /\ \A t \in Session \ {s} : state'[t] = state[t] /\ got'[t] = got[t]
        /\ state'[s] \in {"reading", "ended"}
    BY <1>1, <1>4 DEF ReadInvalid, Goto, At, TypeOK
  <2>4. QED BY <2>2, <2>3, OutGrows
<1>5. ASSUME NEW s \in Session, Progress(s) PROVE OutInv' /\ ProgressBelongs'
  <2>1. PICK m : m = Message("progress", got[s], 0)
    OBVIOUS
  <2>2. got[s] \in Nat
    BY <1>1, SessionTypes
  <2>3. m \in Messages /\ m.kind = "progress" /\ m.id = got[s] /\ Write(s, m)
    BY <2>1, <2>2, <1>5, MessageType DEF Progress
  <2>4. /\ UNCHANGED <<state, got, reply>> /\ state[s] = "applying" /\ Streams(sent[s][got[s]])
    BY <1>5 DEF Progress, At, Current
  <2>5. got[s] >= 1
    BY <1>1, <2>4 DEF SessionInv
  <2>6. QED BY <2>3, <2>4, <2>5, OutGrows
<1>6. ASSUME NEW s \in Session, Respond(s) PROVE OutInv' /\ ProgressBelongs'
  <2>1. PICK m : m = reply[s]
    OBVIOUS
  <2>2. m \in Messages /\ m.kind # "progress" /\ m.id = got[s] /\ Write(s, m)
    BY <1>1, <2>1, <1>6, SessionTypes DEF Respond, At, OutInv
  <2>3. /\ got' = got /\ \A t \in Session \ {s} : state'[t] = state[t] /\ reply'[t] = reply[t]
        /\ state'[s] \in {"reading", "ended"}
    BY <1>1, <1>6 DEF Respond, Goto, TypeOK, clientVars
  <2>4. QED BY <2>2, <2>3, OutGrows
<1>7. CASE \/ \E s \in Session : Leave(s)
           \/ \E s \in Session, line \in Request : Send(s, line)
           \/ \E r \in Active : Change(r) \/ OrphanEnds(r)
           \/ UNCHANGED vars
  <2>1. UNCHANGED <<state, got, reply, out>>
    BY <1>7 DEF Leave, Send, Change, OrphanEnds, vars
  <2>2. OutInv'
    BY <1>1, <2>1 DEF OutInv
  <2>3. ASSUME NEW t \in Session, NEW i \in 1 .. Len(out[t]), out[t][i].kind = "progress"
        PROVE  Streams(sent'[t][out[t][i].id])
    BY <2>3, OldMessages
  <2>4. ProgressBelongs'
    BY <2>1, <2>3 DEF Inv, ProgressBelongs, Streams
  <2>5. QED BY <2>2, <2>4
<1>8. ASSUME NEW s \in Session, ReadInvalid(s) PROVE OutInv' /\ ProgressBelongs'
  BY <1>8, <1>2, <1>4 DEF ReadInvalid
<1> QED
  BY <1>2, <1>3, <1>5, <1>6, <1>7, <1>8 DEF Next, Serve, Operate

-----------------------------------------------------------------------------
(* The order of the answers. *)

\* What a step does to a session whose turn it is not.
Rests(t) ==
  /\ state'[t] = state[t] /\ got'[t] = got[t] /\ out'[t] = out[t]
  /\ count'[t] = count[t] /\ reply'[t] = reply[t]

\* What the steps of a handler do to their session.
Handles(t) ==
  /\ state[t] \in {"handling", "admitted", "applying"}
  /\ state'[t] \in {"admitted", "applying", "answering"}
  /\ got'[t] = got[t] /\ out'[t] = out[t] /\ count'[t] = count[t]
  /\ state[t] = "handling" => Current(t).method \notin Fatal
  /\ state'[t] = "admitted" => IsApply(Current(t))
  /\ state'[t] = "applying" => state[t] = "admitted"
  /\ state[t] = "handling" /\ Current(t).method = "shutdown" =>
       t \in stopping' /\ reply'[t].served = count[t] + 1

\* Nobody comes back, and no shutdown is taken back.
LEMMA NoReturn == [Next]_vars => gone \subseteq gone' /\ stopping \subseteq stopping'
BY DEF Next, Serve, Operate, ReadBlank, ReadInvalid, ReadTooDeep, ReadUndecodable, ReadRequest,
       Hangup, Query, MethodNotFound, MethodUnhashable, Shutdown,
       GateRejects, GateUnprivileged, GatePasses, ApplyRaises, ApplyStarts, ApplyEnds, Respond,
       RespondFails,
       Progress, ProgressFails, Leave, Send, Change, OrphanEnds, vars, clientVars

\* Every step, seen from one session.
LEMMA Turns ==
  ASSUME TypeOK, [Next]_vars, NEW t \in Session
  PROVE  \/ Rests(t) \/ Handles(t)
         \/ ReadBlank(t) \/ ReadInvalid(t) \/ ReadTooDeep(t) \/ ReadUndecodable(t) \/ ReadRequest(t)
         \/ Hangup(t) \/ MethodUnhashable(t)
         \/ Respond(t) \/ RespondFails(t) \/ Progress(t)
<1>1. ASSUME NEW s \in Session, s # t,
             \/ ReadBlank(s) \/ ReadTooDeep(s) \/ ReadUndecodable(s) \/ ReadRequest(s) \/ Hangup(s)
             \/ RespondFails(s) \/ MethodUnhashable(s) \/ GatePasses(s) \/ ApplyStarts(s)
             \/ Respond(s) \/ ReadInvalid(s) \/ Progress(s)
      PROVE  Rests(t)
  BY <1>1 DEF ReadBlank, ReadTooDeep, ReadUndecodable, ReadRequest, Hangup, RespondFails,
         MethodUnhashable, GatePasses, ApplyStarts, Respond, ReadInvalid,
         Progress, Goto, Write, TypeOK, Rests
<1>2. ASSUME NEW s \in Session,
             \/ Query(s) \/ MethodNotFound(s) \/ GateRejects(s) \/ GateUnprivileged(s)
             \/ ApplyRaises(s) \/ ApplyEnds(s) \/ ProgressFails(s) \/ Shutdown(s)
      PROVE  Rests(t) \/ Handles(t)
  <2>1. /\ state[s] \in {"handling", "admitted", "applying"} /\ UNCHANGED <<got, out, count>>
        /\ ~Shutdown(s) => state[s] # "handling" \/ Current(s).method # "shutdown"
        /\ state[s] = "handling" => Current(s).method \notin Fatal
    BY <1>2 DEF Query, MethodNotFound, GateRejects, GateUnprivileged, ApplyRaises, ApplyEnds,
           ProgressFails, Shutdown, At, IsApply, Fatal
  <2>2. PICK m : Answer(s, m) /\ (Shutdown(s) => s \in stopping' /\ m.served = count[s] + 1)
    BY <1>2 DEF Query, MethodNotFound, GateRejects, GateUnprivileged, ApplyRaises, ApplyEnds,
           ProgressFails, Shutdown, Message
  <2>3. state' = [state EXCEPT ![s] = "answering"] /\ reply' = [reply EXCEPT ![s] = m]
    BY <2>2 DEF Answer, Goto
  <2>4. CASE t = s
    <3>1. state'[t] = "answering" /\ reply'[t] = m
      BY <2>3, <2>4 DEF TypeOK
    <3>2. QED BY <2>1, <2>2, <2>4, <3>1 DEF Handles
  <2>5. CASE t # s
    BY <2>1, <2>3, <2>5 DEF Rests, TypeOK
  <2>6. QED BY <2>4, <2>5
<1>3. ASSUME GatePasses(t) \/ ApplyStarts(t) PROVE Handles(t)
  <2>1. CASE GatePasses(t)
    <3>1. /\ state[t] = "handling" /\ IsApply(Current(t)) /\ UNCHANGED <<got, out, count>>
          /\ state'[t] = "admitted"
      BY <2>1 DEF GatePasses, At, Goto, TypeOK
    <3>2. QED BY <3>1 DEF Handles, IsApply, Fatal
  <2>2. CASE ApplyStarts(t)
    <3>1. state[t] = "admitted" /\ UNCHANGED <<got, out, count>> /\ state'[t] = "applying"
      BY <2>2 DEF ApplyStarts, At, Goto, TypeOK
    <3>2. QED BY <3>1 DEF Handles
  <2>3. QED BY <1>3, <2>1, <2>2
<1>4. CASE \/ \E s \in Session : Leave(s)
           \/ \E s \in Session, line \in Request : Send(s, line)
           \/ \E r \in Active : Change(r) \/ OrphanEnds(r)
           \/ UNCHANGED vars
  BY <1>4 DEF Leave, Send, Change, OrphanEnds, vars, Rests
<1> QED
  BY <1>1, <1>2, <1>3, <1>4 DEF Next, Serve, Operate

\* The answers and the lines owed one, as places in the output and in what was sent.
LEMMA Places ==
  ASSUME Inv, NEW t \in Session
  PROVE  /\ Len(out[t]) \in Nat /\ Answers(t) \subseteq 1 .. Len(out[t])
         /\ Done(t) \in Int /\ Done(t) <= got[t] /\ Done(t) <= Len(sent[t])
         /\ state[t] # "ended" => Done(t) \in Nat
         /\ Owed(t) \subseteq 1 .. Done(t)
<1>1. /\ got[t] \in Nat /\ Len(sent[t]) \in Nat /\ Len(out[t]) \in Nat /\ got[t] <= Len(sent[t])
      /\ state[t] \in States
  BY SessionTypes DEF Inv
<1>2. state[t] \in {"handling", "admitted", "applying", "answering"} => got[t] >= 1
  BY DEF Inv, SessionInv
<1>3. Answers(t) \subseteq 1 .. Len(out[t]) /\ Owed(t) \subseteq 1 .. Done(t)
  BY DEF Answers, Owed
<1>4. QED BY <1>1, <1>2, <1>3 DEF Done, States

\* A line that was dealt with stays what it is.
LEMMA LinesStay ==
  ASSUME Inv, [Next]_vars, NEW t \in Session, NEW i \in 1 .. Len(sent[t])
  PROVE  sent'[t][i] = sent[t][i] /\ IdOf(t, i)' = IdOf(t, i)
BY SentGrows DEF Inv, IdOf

\* A line that is owed no answer, or none, is dealt with.
LEMMA OwedStays ==
  ASSUME Inv, [Next]_vars, NEW t \in Session,
         \/ Done(t)' = Done(t)
         \/ /\ Done(t)' = Done(t) + 1 /\ Done(t) + 1 \in 1 .. Len(sent[t])
            /\ sent[t][Done(t) + 1].method \in Fatal \union {"blank"}
  PROVE  Owed(t)' = Owed(t) /\ \A i \in Owed(t) : IdOf(t, i)' = IdOf(t, i)
<1>1. Done(t) \in Int /\ Done(t) <= Len(sent[t]) /\ Len(sent[t]) \in Nat
  BY Places, SessionTypes DEF Inv
<1>2. \A i \in 1 .. Len(sent[t]) : sent'[t][i] = sent[t][i] /\ IdOf(t, i)' = IdOf(t, i)
  BY LinesStay
<1>3. Owed(t)' = {i \in 1 .. Done(t)' : sent'[t][i].method \notin Fatal \union {"blank"}}
  BY DEF Owed
<1>4. \A i \in 1 .. Done(t) : i \in 1 .. Len(sent[t])
  BY <1>1
<1>5. CASE Done(t)' = Done(t)
  BY <1>2, <1>3, <1>4, <1>5 DEF Owed
<1>6. CASE /\ Done(t)' = Done(t) + 1 /\ Done(t) + 1 \in 1 .. Len(sent[t])
           /\ sent[t][Done(t) + 1].method \in Fatal \union {"blank"}
  <2>1. sent'[t][Done(t) + 1].method \in Fatal \union {"blank"}
    BY <1>2, <1>6
  <2>2. \A i : i \in 1 .. Done(t) + 1 <=> i \in 1 .. Done(t) \/ i = Done(t) + 1
    BY <1>1, <1>6
  <2>3. QED BY <1>2, <1>3, <1>4, <1>6, <2>1, <2>2 DEF Owed
<1>7. QED BY <1>5, <1>6

\* A line that is owed an answer is dealt with.
LEMMA OwedGrows ==
  ASSUME Inv, [Next]_vars, NEW t \in Session,
         Done(t)' = Done(t) + 1, Done(t) + 1 \in 1 .. Len(sent[t]),
         sent[t][Done(t) + 1].method \notin Fatal \union {"blank"}
  PROVE  /\ Owed(t)' = Owed(t) \union {Done(t) + 1}
         /\ \A i \in Owed(t) \union {Done(t) + 1} : IdOf(t, i)' = IdOf(t, i)
<1>1. Done(t) \in Int /\ Len(sent[t]) \in Nat
  BY Places, SessionTypes DEF Inv
<1>2. \A i \in 1 .. Len(sent[t]) : sent'[t][i] = sent[t][i] /\ IdOf(t, i)' = IdOf(t, i)
  BY LinesStay
<1>3. Owed(t)' = {i \in 1 .. Done(t) + 1 : sent'[t][i].method \notin Fatal \union {"blank"}}
  BY DEF Owed
<1>4. \A i \in 1 .. Done(t) : i \in 1 .. Len(sent[t])
  BY <1>1
<1>5. \A i : i \in 1 .. Done(t) + 1 <=> i \in 1 .. Done(t) \/ i = Done(t) + 1
  BY <1>1
<1>6. QED BY <1>2, <1>3, <1>4, <1>5 DEF Owed

\* A message of a session is written: an answer adds its place, a line of progress none.
LEMMA AnswersGrow ==
  ASSUME TypeOK, NEW t \in Session, NEW m \in Messages, Write(t, m)
  PROVE  LET k == Len(out[t]) + 1
         IN  /\ out'[t][k] = m /\ \A j \in Answers(t) : out'[t][j] = out[t][j]
             /\ m.kind = "progress" => Answers(t)' = Answers(t)
             /\ m.kind # "progress" => Answers(t)' = Answers(t) \union {k}
<1> DEFINE k == Len(out[t]) + 1
<1>1. /\ Len(out[t]) \in Nat /\ Len(out'[t]) = Len(out[t]) + 1
      /\ \A i \in 1 .. Len(out[t]) : out'[t][i] = out[t][i]
      /\ out'[t][k] = m
  BY WriteType, SessionTypes
<1>2. \A i : i \in 1 .. Len(out'[t]) <=> i \in 1 .. Len(out[t]) \/ i = k
  BY <1>1
<1>3. Answers(t)' = {j \in 1 .. Len(out'[t]) : out'[t][j].kind # "progress"}
  BY DEF Answers
<1> HIDE DEF k
<1>4. QED BY <1>1, <1>2, <1>3 DEF Answers, k

\* Without a new answer, and without a line dealt with that is owed one, the order
\* stays what it was.
LEMMA OrderStays ==
  ASSUME NEW t \in Session, InOrder(t),
         Owed(t)' = Owed(t), \A i \in Owed(t) : IdOf(t, i)' = IdOf(t, i),
         Answers(t)' = Answers(t), \A j \in Answers(t) : out'[t][j] = out[t][j]
  PROVE  InOrder(t)'
BY DEF InOrder

\* A line owed an answer is dealt with and its answer is written.
LEMMA OrderGrows ==
  ASSUME Inv, NEW t \in Session, InOrder(t), state[t] # "ended",
         Cardinality(Owed(t)) = Cardinality(Answers(t)),
         NEW d, d = Done(t) + 1, NEW k, k = Len(out[t]) + 1,
         Owed(t)' = Owed(t) \union {d}, \A i \in Owed(t) : IdOf(t, i)' = IdOf(t, i),
         Answers(t)' = Answers(t) \union {k}, \A j \in Answers(t) : out'[t][j] = out[t][j],
         out'[t][k].id = IdOf(t, d)'
  PROVE  InOrder(t)' /\ Cardinality(Owed(t)') = Cardinality(Answers(t)')
<1>1. /\ Done(t) \in Nat /\ Owed(t) \subseteq 1 .. Done(t)
      /\ Len(out[t]) \in Nat /\ Answers(t) \subseteq 1 .. Len(out[t])
  BY Places
<1>2. PICK a \in Nat, b \in Nat, A \in SUBSET Nat, B \in SUBSET Nat :
        /\ a = Done(t) /\ b = Len(out[t]) /\ A = Owed(t) /\ B = Answers(t)
        /\ A \subseteq 1 .. a /\ B \subseteq 1 .. b /\ Cardinality(A) = Cardinality(B)
        /\ d = a + 1 /\ k = b + 1
  BY <1>1
<1>3. Cardinality(A \union {d}) = Cardinality(A) + 1 /\ Cardinality(B \union {k}) = Cardinality(B) + 1
  BY <1>2, RankAdded
<1>4. ASSUME NEW i \in A \union {d}, NEW j \in B \union {k},
             Rank(A \union {d}, i) = Rank(B \union {k}, j)
      PROVE  out'[t][j].id = IdOf(t, i)'
  <2>1. (i \in A /\ j \in B /\ Rank(A, i) = Rank(B, j)) \/ (i = d /\ j = k)
    <3>1. /\ i \in A \union {a + 1} /\ j \in B \union {b + 1}
          /\ Rank(A \union {a + 1}, i) = Rank(B \union {b + 1}, j)
      BY <1>2, <1>4
    <3>2. \A x \in A \union {a + 1}, y \in B \union {b + 1} :
            Rank(A \union {a + 1}, x) = Rank(B \union {b + 1}, y) =>
              (x \in A /\ y \in B /\ Rank(A, x) = Rank(B, y)) \/ (x = a + 1 /\ y = b + 1)
      <4>1. /\ a \in Nat /\ b \in Nat /\ A \subseteq 1 .. a /\ B \subseteq 1 .. b
            /\ Cardinality(A) = Cardinality(B)
        BY <1>2
      <4>2. QED BY ONLY <4>1, BothGrow, Zenon
    <3>3. QED BY <1>2, <3>1, <3>2
  <2>2. CASE i \in A /\ j \in B /\ Rank(A, i) = Rank(B, j)
    BY <1>2, <2>2 DEF InOrder
  <2>3. QED BY <2>1, <2>2
<1>5. QED BY <1>2, <1>3, <1>4 DEF InOrder

\* A line owed an answer is dealt with and its answer cannot be written.
LEMMA OrderMisses ==
  ASSUME Inv, NEW t \in Session, InOrder(t), state[t] # "ended",
         Cardinality(Owed(t)) = Cardinality(Answers(t)),
         NEW d, d = Done(t) + 1,
         Owed(t)' = Owed(t) \union {d}, \A i \in Owed(t) : IdOf(t, i)' = IdOf(t, i),
         Answers(t)' = Answers(t), out'[t] = out[t]
  PROVE  InOrder(t)' /\ Cardinality(Owed(t)') = Cardinality(Answers(t)') + 1
<1>1. /\ Done(t) \in Nat /\ Owed(t) \subseteq 1 .. Done(t)
      /\ Len(out[t]) \in Nat /\ Answers(t) \subseteq 1 .. Len(out[t])
  BY Places
<1>2. PICK a \in Nat, b \in Nat, A \in SUBSET Nat, B \in SUBSET Nat :
        /\ a = Done(t) /\ b = Len(out[t]) /\ A = Owed(t) /\ B = Answers(t)
        /\ A \subseteq 1 .. a /\ B \subseteq 1 .. b /\ Cardinality(A) = Cardinality(B)
        /\ d = a + 1
  BY <1>1
<1>3. Cardinality(A \union {d}) = Cardinality(A) + 1
  BY <1>2, RankAdded
<1>4. ASSUME NEW i \in A \union {d}, NEW j \in B, Rank(A \union {d}, i) = Rank(B, j)
      PROVE  out'[t][j].id = IdOf(t, i)'
  <2>1. i \in A /\ Rank(A, i) = Rank(B, j)
    <3>1. i \in A \union {a + 1} /\ Rank(A \union {a + 1}, i) = Rank(B, j)
      BY <1>2, <1>4
    <3>2. \A x \in A \union {a + 1}, y \in B :
            Rank(A \union {a + 1}, x) = Rank(B, y) => x \in A /\ Rank(A, x) = Rank(B, y)
      <4>1. /\ a \in Nat /\ b \in Nat /\ A \subseteq 1 .. a /\ B \subseteq 1 .. b
            /\ Cardinality(A) = Cardinality(B)
        BY <1>2
      <4>2. QED BY ONLY <4>1, OneGrows, Zenon
    <3>3. QED BY <3>1, <3>2
  <2>2. QED BY <1>2, <2>1 DEF InOrder
<1>5. QED BY <1>2, <1>3, <1>4 DEF InOrder

\* What the session keeps of the request in hand.
LEMMA InHand ==
  ASSUME Inv, OrderInv, [Next]_vars, NEW t \in Session,
         state[t] \in {"handling", "admitted", "applying", "answering"}
  PROVE  /\ got[t] \in 1 .. Len(sent[t]) /\ Done(t) = got[t] - 1
         /\ sent'[t][got[t]] = Current(t) /\ Current(t).method \in Methods
         /\ state[t] # "handling" => Current(t).method \notin Fatal
<1>1. got[t] \in Nat /\ Len(sent[t]) \in Nat /\ got[t] <= Len(sent[t]) /\ got[t] >= 1
  BY SessionTypes DEF Inv, SessionInv
<1>2. got[t] \in 1 .. Len(sent[t])
  BY <1>1
<1>3. QED BY <1>2, LinesStay DEF Current, OrderInv, Done

\* A line of the session's client is read.
LEMMA LineRead ==
  ASSUME Inv, OrderInv, [Next]_vars, NEW t \in Session, state[t] = "reading",
         got[t] < Len(sent[t])
  PROVE  /\ got[t] + 1 \in 1 .. Len(sent[t]) /\ Done(t) = got[t] /\ reply[t] = NoReply
         /\ sent'[t][got[t] + 1] = sent[t][got[t] + 1]
<1>1. got[t] \in Nat /\ Len(sent[t]) \in Nat
  BY SessionTypes DEF Inv
<1>2. got[t] + 1 \in 1 .. Len(sent[t])
  BY <1>1
<1>3. QED BY <1>2, LinesStay DEF Done, OrderInv

\* The part of the invariant that speaks of one session.
OrderOf(t) ==
  /\ InOrder(t)
  /\ \/ Cardinality(Owed(t)) = Cardinality(Answers(t))
     \/ t \in gone /\ Cardinality(Owed(t)) = Cardinality(Answers(t)) + 1
  /\ state[t] = "reading" => reply[t] = NoReply
  /\ state[t] \in {"handling", "admitted", "applying", "answering"} => Current(t).method \in Methods
  /\ state[t] \in {"admitted", "applying", "answering"} => Current(t).method \notin Fatal
  /\ state[t] # "ended" => Cardinality(Owed(t)) = Cardinality(Answers(t))

\* A step that neither writes an answer nor deals with a line that is owed one.
LEMMA OrderKept ==
  ASSUME Inv, [Next]_vars, NEW t \in Session, OrderOf(t),
         Owed(t)' = Owed(t), \A i \in Owed(t) : IdOf(t, i)' = IdOf(t, i),
         Answers(t)' = Answers(t), \A j \in Answers(t) : out'[t][j] = out[t][j],
         state'[t] = "reading" => reply'[t] = NoReply,
         state'[t] \in {"handling", "admitted", "applying", "answering"} => Current(t)'.method \in Methods,
         state'[t] \in {"admitted", "applying", "answering"} => Current(t)'.method \notin Fatal,
         state[t] # "ended" \/ state'[t] = "ended"
  PROVE  OrderOf(t)'
<1>1. InOrder(t)'
  BY OrderStays DEF OrderOf
<1>2. gone \subseteq gone'
  BY NoReturn
<1>3. QED BY <1>1, <1>2 DEF OrderOf

\* Every step keeps the order of each session's answers.
LEMMA OrderStep ==
  Inv /\ AnswersInOrder /\ OrderInv /\ [Next]_vars => AnswersInOrder' /\ OrderInv'
<1> SUFFICES ASSUME Inv, AnswersInOrder, OrderInv, [Next]_vars, NEW t \in Session
             PROVE  OrderOf(t)'
  BY DEF AnswersInOrder, OrderInv, OrderOf
<1> USE DEF At, Goto
<1>1. OrderOf(t) /\ TypeOK
  BY DEF AnswersInOrder, OrderInv, OrderOf, Inv
<1>2. /\ got[t] \in Nat /\ Len(sent[t]) \in Nat /\ Len(out[t]) \in Nat
      /\ state[t] \in States /\ reply[t] \in Messages
  BY <1>1, SessionTypes
<1>3. out'[t] = out[t] =>
        Answers(t)' = Answers(t) /\ \A j \in Answers(t) : out'[t][j] = out[t][j]
  BY DEF Answers
<1>4. CASE Rests(t) \/ Handles(t)
  <2>1. /\ out'[t] = out[t] /\ got'[t] = got[t]
        /\ \/ state'[t] = state[t] /\ reply'[t] = reply[t]
           \/ /\ state[t] \in {"handling", "admitted", "applying"}
              /\ state'[t] \in {"admitted", "applying", "answering"}
              /\ state[t] = "handling" => Current(t).method \notin Fatal
    BY <1>4 DEF Rests, Handles
  <2>2. Done(t)' = Done(t)
    BY <2>1 DEF Done
  <2>3. Owed(t)' = Owed(t) /\ \A i \in Owed(t) : IdOf(t, i)' = IdOf(t, i)
    BY <2>2, OwedStays
  <2>4. state'[t] \in {"handling", "admitted", "applying", "answering"} => Current(t)'.method \in Methods
    BY <2>1, InHand DEF Current
  <2>5. state'[t] \in {"admitted", "applying", "answering"} => Current(t)'.method \notin Fatal
    BY <2>1, InHand DEF Current
  <2>6. QED BY <1>1, <1>3, <2>1, <2>3, <2>4, <2>5, OrderKept DEF OrderInv
<1>5. CASE ReadBlank(t)
  <2>1. /\ state[t] = "reading" /\ got[t] < Len(sent[t]) /\ sent[t][got[t] + 1].method = "blank"
        /\ got'[t] = got[t] + 1 /\ out' = out /\ state' = state /\ reply' = reply
    BY <1>1, <1>5 DEF ReadBlank, TypeOK
  <2>2. Done(t)' = Done(t) + 1 /\ Done(t) = got[t]
    BY <2>1, LineRead DEF Done
  <2>3. Owed(t)' = Owed(t) /\ \A i \in Owed(t) : IdOf(t, i)' = IdOf(t, i)
    BY <2>1, <2>2, LineRead, OwedStays
  <2>4. QED BY <1>1, <1>3, <2>1, <2>3, LineRead, OrderKept
<1>6. CASE ReadRequest(t)
  <2>1. /\ state[t] = "reading" /\ got[t] < Len(sent[t]) /\ sent[t][got[t] + 1].method \in Methods
        /\ got'[t] = got[t] + 1 /\ out' = out /\ state'[t] = "handling"
    BY <1>1, <1>6 DEF ReadRequest, TypeOK
  <2>2. Done(t)' = Done(t)
    BY <1>2, <2>1, LineRead DEF Done
  <2>3. Owed(t)' = Owed(t) /\ \A i \in Owed(t) : IdOf(t, i)' = IdOf(t, i)
    BY <2>2, OwedStays
  <2>4. Current(t)'.method \in Methods
    BY <2>1, LineRead DEF Current
  <2>5. QED BY <1>1, <1>3, <2>1, <2>3, <2>4, OrderKept
<1>7. CASE Hangup(t) \/ RespondFails(t)
  <2>1. /\ got' = got /\ out' = out /\ reply' = reply /\ state'[t] = "ended"
        /\ state[t] \in {"reading", "answering"}
    BY <1>1, <1>7 DEF Hangup, RespondFails, TypeOK
  <2>2. state[t] = "answering" => reply[t] # NoReply
    <3>1. state[t] = "answering" => reply[t].id = got[t] /\ got[t] >= 1
      BY DEF Inv, OutInv, SessionInv
    <3>2. NoReply.id = 0
      BY DEF NoReply, Message
    <3>3. QED BY <1>2, <3>1, <3>2
  <2>3. state[t] = "reading" => reply[t] = NoReply
    BY <1>1 DEF OrderOf
  <2>4. Done(t)' = Done(t)
    BY <2>1, <2>2, <2>3 DEF Done
  <2>5. Owed(t)' = Owed(t) /\ \A i \in Owed(t) : IdOf(t, i)' = IdOf(t, i)
    BY <2>4, OwedStays
  <2>6. QED BY <1>1, <1>3, <2>1, <2>5, OrderKept
<1>8. CASE Progress(t)
  <2>1. /\ got' = got /\ reply' = reply /\ state' = state /\ state[t] = "applying"
        /\ Write(t, Message("progress", got[t], 0))
    BY <1>1, <1>8 DEF Progress
  <2>2. PICK m \in Messages : m.kind = "progress" /\ Write(t, m)
    BY <1>2, <2>1, MessageType
  <2>3. Answers(t)' = Answers(t) /\ \A j \in Answers(t) : out'[t][j] = out[t][j]
    BY <1>1, <2>2, AnswersGrow
  <2>4. Done(t)' = Done(t)
    BY <2>1 DEF Done
  <2>5. Owed(t)' = Owed(t) /\ \A i \in Owed(t) : IdOf(t, i)' = IdOf(t, i)
    BY <2>4, OwedStays
  <2>6. Current(t)'.method \in Methods /\ Current(t)'.method \notin Fatal
    BY <2>1, InHand DEF Current
  <2>7. QED BY <1>1, <2>1, <2>3, <2>5, <2>6, OrderKept
<1>9. CASE Respond(t)
  <2>1. /\ got' = got /\ state[t] = "answering" /\ state'[t] \in {"reading", "ended"}
        /\ reply'[t] = NoReply /\ Write(t, reply[t])
    BY <1>1, <1>9 DEF Respond, TypeOK
  <2>2. reply[t].kind # "progress" /\ reply[t].id = got[t]
    BY <2>1 DEF Inv, OutInv
  <2>3. PICK k : k = Len(out[t]) + 1
    OBVIOUS
  <2>4. /\ out'[t][k] = reply[t] /\ \A j \in Answers(t) : out'[t][j] = out[t][j]
        /\ Answers(t)' = Answers(t) \union {k}
    BY <1>1, <1>2, <2>1, <2>2, <2>3, AnswersGrow
  <2>5. /\ got[t] \in 1 .. Len(sent[t]) /\ Done(t) = got[t] - 1 /\ Current(t).method \in Methods
        /\ Current(t).method \notin Fatal /\ sent'[t][got[t]] = Current(t)
    BY <2>1, InHand
  <2>6. Done(t)' = got[t] /\ Done(t) + 1 = got[t]
    BY <1>2, <2>1, <2>5 DEF Done
  <2>7. sent[t][got[t]].method \notin Fatal \union {"blank", "invalid"}
    BY <2>5 DEF Current, Methods
  <2>8. PICK d : d = Done(t) + 1
    OBVIOUS
  <2>9. /\ Owed(t)' = Owed(t) \union {d}
        /\ \A i \in Owed(t) \union {d} : IdOf(t, i)' = IdOf(t, i)
    BY <2>5, <2>6, <2>7, <2>8, OwedGrows
  <2>10. IdOf(t, d)' = got[t]
    BY <2>5, <2>6, <2>7, <2>8, <2>9 DEF IdOf
  <2>11. InOrder(t)' /\ Cardinality(Owed(t)') = Cardinality(Answers(t)')
    BY <1>1, <2>1, <2>2, <2>3, <2>4, <2>8, <2>9, <2>10, OrderGrows DEF OrderOf
  <2>12. QED BY <2>1, <2>11 DEF OrderOf
<1>10. CASE ReadInvalid(t)
  <2>1. /\ state[t] = "reading" /\ got[t] < Len(sent[t]) /\ sent[t][got[t] + 1].method = "invalid"
        /\ got'[t] = got[t] + 1 /\ reply' = reply /\ gone' = gone
    BY <1>1, <1>10 DEF ReadInvalid, TypeOK, clientVars
  <2>2. /\ got[t] + 1 \in 1 .. Len(sent[t]) /\ Done(t) = got[t] /\ reply[t] = NoReply
        /\ sent'[t][got[t] + 1] = sent[t][got[t] + 1]
    BY <2>1, LineRead
  <2>3. state'[t] \in {"reading", "ended"}
    BY <1>1, <2>1, <1>10 DEF ReadInvalid, TypeOK
  <2>4. Done(t)' = Done(t) + 1
    BY <2>1, <2>2, <2>3 DEF Done
  <2> PICK d : d = Done(t) + 1
    OBVIOUS
  <2>5. /\ Owed(t)' = Owed(t) \union {d}
        /\ \A i \in Owed(t) \union {d} : IdOf(t, i)' = IdOf(t, i)
    BY <2>1, <2>2, <2>4, OwedGrows DEF Fatal
  <2>6. IdOf(t, d)' = 0
    BY <2>1, <2>2, <2>5 DEF IdOf
  <2>7. CASE Write(t, Message("error", 0, 0)) /\ UNCHANGED state
    <3>1. PICK k : k = Len(out[t]) + 1
      OBVIOUS
    <3>2. PICK m \in Messages : m.kind # "progress" /\ m.id = 0 /\ Write(t, m)
      BY <2>7, MessageType
    <3>3. /\ out'[t][k] = m /\ \A j \in Answers(t) : out'[t][j] = out[t][j]
          /\ Answers(t)' = Answers(t) \union {k}
      BY <1>1, <3>1, <3>2, AnswersGrow
    <3>4. InOrder(t) /\ state[t] # "ended" /\ Cardinality(Owed(t)) = Cardinality(Answers(t))
      BY <1>1, <2>1 DEF OrderOf
    <3>5. out'[t][k].id = IdOf(t, d)'
      BY <2>6, <3>2, <3>3
    <3>6. InOrder(t)' /\ Cardinality(Owed(t)') = Cardinality(Answers(t)')
      BY <2>5, <3>1, <3>3, <3>4, <3>5, OrderGrows
    <3>7. QED BY <2>1, <2>2, <2>7, <3>6 DEF OrderOf
  <2>8. CASE t \in gone /\ state'[t] = "ended" /\ out'[t] = out[t]
    <3>1. InOrder(t)' /\ Cardinality(Owed(t)') = Cardinality(Answers(t)') + 1
      BY <1>1, <1>3, <2>1, <2>5, <2>8, OrderMisses DEF OrderOf
    <3>2. QED BY <2>1, <2>8, <3>1 DEF OrderOf
  <2>9. QED BY <1>1, <1>10, <2>7, <2>8 DEF ReadInvalid, TypeOK
<1>11. CASE ReadTooDeep(t)
  <2>1. /\ state[t] = "reading" /\ got[t] < Len(sent[t]) /\ sent[t][got[t] + 1].method = "too deep"
        /\ got'[t] = got[t] + 1 /\ out' = out /\ state'[t] = "ended" /\ reply' = reply
    BY <1>1, <1>11 DEF ReadTooDeep, TypeOK
  <2>2. Done(t)' = Done(t) + 1 /\ Done(t) = got[t]
    BY <2>1, LineRead DEF Done
  <2>3. Owed(t)' = Owed(t) /\ \A i \in Owed(t) : IdOf(t, i)' = IdOf(t, i)
    BY <2>1, <2>2, LineRead, OwedStays DEF Fatal
  <2>4. QED BY <1>1, <1>3, <2>1, <2>3, OrderKept
<1>12. CASE ReadUndecodable(t)
  <2>1. /\ got' = got /\ out' = out /\ reply' = reply /\ state'[t] = "ended" /\ state[t] = "reading"
    BY <1>1, <1>12 DEF ReadUndecodable, TypeOK
  <2>2. Done(t)' = Done(t)
    BY <1>1, <2>1 DEF Done, OrderOf
  <2>3. Owed(t)' = Owed(t) /\ \A i \in Owed(t) : IdOf(t, i)' = IdOf(t, i)
    BY <2>2, OwedStays
  <2>4. QED BY <1>1, <1>3, <2>1, <2>3, OrderKept
<1>13. CASE MethodUnhashable(t)
  <2>1. /\ got' = got /\ out' = out /\ reply' = reply /\ state'[t] = "ended" /\ state[t] = "handling"
        /\ sent[t][got[t]].method = "unhashable"
    BY <1>1, <1>13 DEF MethodUnhashable, TypeOK, Current
  <2>2. got[t] \in 1 .. Len(sent[t]) /\ Done(t) = got[t] - 1
    BY <2>1, InHand
  <2>3. Done(t)' = Done(t) \/ (Done(t)' = Done(t) + 1 /\ Done(t) + 1 = got[t])
    BY <1>2, <2>1, <2>2 DEF Done
  <2>4. Owed(t)' = Owed(t) /\ \A i \in Owed(t) : IdOf(t, i)' = IdOf(t, i)
    BY <2>1, <2>2, <2>3, OwedStays DEF Fatal
  <2>5. QED BY <1>1, <1>3, <2>1, <2>4, OrderKept
<1>14. QED
  BY <1>1, <1>4, <1>5, <1>6, <1>7, <1>8, <1>9, <1>10, <1>11, <1>12, <1>13, Turns

-----------------------------------------------------------------------------
(* The shutdown and the count it reports. *)

\* Without a new answer the count has nothing to add.
LEMMA CountedStays ==
  ASSUME NEW t \in Session,
         Answers(t)' = Answers(t), \A j \in Answers(t) : out'[t][j] = out[t][j]
  PROVE  Counted(t)' = Counted(t)
BY DEF Counted

\* A new answer is counted if it bears an id.
LEMMA CountedGrows ==
  ASSUME Inv, NEW t \in Session, NEW m \in Messages, m.kind # "progress", Write(t, m)
  PROVE  /\ m.id = 0 => Counted(t)' = Counted(t)
         /\ m.id # 0 => Cardinality(Counted(t)') = Cardinality(Counted(t)) + 1
<1>1. PICK k \in Nat, n \in Nat : n = Len(out[t]) /\ k = n + 1
  <2>1. Len(out[t]) \in Nat
    BY SessionTypes DEF Inv
  <2>2. Len(out[t]) + 1 \in Nat
    BY <2>1
  <2>3. QED BY ONLY <2>1, <2>2
<1>2. /\ out'[t][k] = m /\ \A j \in Answers(t) : out'[t][j] = out[t][j]
      /\ Answers(t)' = Answers(t) \union {k}
  BY <1>1, AnswersGrow DEF Inv
<1>3. Answers(t) \subseteq 1 .. n
  BY <1>1, Places
<1>4. m.id = 0 => Counted(t)' = Counted(t)
  BY <1>2 DEF Counted
<1>5. m.id # 0 => Counted(t)' = Counted(t) \union {k}
  BY <1>2 DEF Counted
<1>6. Counted(t) \subseteq 1 .. n
  BY <1>3 DEF Counted
<1>7. Cardinality(Counted(t) \union {n + 1}) = Cardinality(Counted(t)) + 1
  BY <1>1, <1>6, RankAdded
<1>8. QED BY <1>1, <1>4, <1>5, <1>7

\* The part of the invariant that speaks of one session.
CountOf(t) ==
  /\ count[t] = Cardinality(Counted(t))
  /\ \A i \in 1 .. got[t] : sent[t][i].method = "shutdown" =>
       i = got[t] /\ state[t] \in {"handling", "answering", "ended"}
  /\ state[t] = "answering" /\ Current(t).method = "shutdown" =>
       t \in stopping /\ reply[t].served = count[t] + 1

\* A session that goes on reading has met no shutdown yet.
LEMMA NoShutdownYet ==
  ASSUME Inv, CountInv, [Next]_vars, NEW t \in Session, state[t] \in {"reading", "applying"}
  PROVE  \A i \in 1 .. got[t] : sent'[t][i].method # "shutdown"
<1>1. got[t] \in Nat /\ Len(sent[t]) \in Nat /\ got[t] <= Len(sent[t])
  BY SessionTypes DEF Inv
<1>2. \A i \in 1 .. got[t] : i \in 1 .. Len(sent[t])
  BY <1>1
<1>3. QED BY <1>2, LinesStay DEF CountInv

\* Every step keeps the count, and no line is read after a shutdown.
LEMMA CountStep == Inv /\ OrderInv /\ CountInv /\ [Next]_vars => CountInv'
<1> SUFFICES ASSUME Inv, OrderInv, CountInv, [Next]_vars, NEW t \in Session
             PROVE  CountOf(t)'
  BY DEF CountInv, CountOf
<1> USE DEF At, Goto
<1>1. CountOf(t) /\ TypeOK
  BY DEF CountInv, CountOf, Inv
<1>2. /\ got[t] \in Nat /\ Len(sent[t]) \in Nat /\ Len(out[t]) \in Nat /\ got[t] <= Len(sent[t])
      /\ state[t] \in States /\ reply[t] \in Messages /\ count[t] \in Nat
  BY <1>1, SessionTypes
<1>3. out'[t] = out[t] => Counted(t)' = Counted(t)
  <2>1. out'[t] = out[t] =>
          Answers(t)' = Answers(t) /\ \A j \in Answers(t) : out'[t][j] = out[t][j]
    BY DEF Answers
  <2>2. QED BY <2>1, CountedStays
<1>4. stopping \subseteq stopping'
  BY NoReturn
<1>5. \A i \in 1 .. got[t] : sent'[t][i] = sent[t][i]
  <2>1. \A i \in 1 .. got[t] : i \in 1 .. Len(sent[t])
    BY <1>2
  <2>2. QED BY <2>1, LinesStay
<1>6. CASE Rests(t)
  <2>1. /\ state'[t] = state[t] /\ got'[t] = got[t] /\ out'[t] = out[t]
        /\ count'[t] = count[t] /\ reply'[t] = reply[t]
    BY <1>6 DEF Rests
  <2>2. ASSUME state'[t] = "answering" PROVE Current(t)' = Current(t)
    <3>1. sent'[t][got[t]] = Current(t)
      BY <2>1, <2>2, InHand
    <3>2. QED BY <2>1, <3>1 DEF Current
  <2>3. QED BY <1>1, <1>3, <1>4, <1>5, <2>1, <2>2 DEF CountOf
<1>7. CASE Handles(t)
  <2>1. /\ state[t] \in {"handling", "admitted", "applying"}
        /\ state'[t] \in {"admitted", "applying", "answering"}
        /\ got'[t] = got[t] /\ out'[t] = out[t] /\ count'[t] = count[t]
        /\ state'[t] = "admitted" => Current(t).method # "shutdown"
        /\ state'[t] = "applying" => state[t] = "admitted"
        /\ state[t] = "handling" /\ Current(t).method = "shutdown" =>
             t \in stopping' /\ reply'[t].served = count[t] + 1
    BY <1>7 DEF Handles, IsApply
  <2>2. Current(t)' = Current(t) /\ got[t] \in 1 .. got[t]
    BY <1>2, <2>1, InHand DEF Current
  <2>3. Current(t).method = "shutdown" => state[t] = "handling"
    BY <1>1, <2>1, <2>2 DEF CountOf, Current
  <2>4. ASSUME NEW i \in 1 .. got'[t], sent'[t][i].method = "shutdown"
        PROVE  i = got'[t] /\ state'[t] \in {"handling", "answering", "ended"}
    <3>1. i = got[t]
      BY <1>1, <1>5, <2>1, <2>4 DEF CountOf
    <3>2. Current(t).method = "shutdown"
      BY <1>5, <2>1, <2>4, <3>1 DEF Current
    <3>3. QED BY <2>1, <2>3, <3>1, <3>2
  <2>5. QED BY <1>1, <1>3, <2>1, <2>2, <2>3, <2>4 DEF CountOf
<1>8. CASE ReadBlank(t) \/ ReadRequest(t) \/ ReadInvalid(t) \/ ReadTooDeep(t)
  <2>1. /\ state[t] = "reading" /\ got[t] < Len(sent[t]) /\ got'[t] = got[t] + 1
        /\ state'[t] \in {"reading", "handling", "ended"} /\ count' = count
        /\ sent[t][got[t] + 1].method = "shutdown" => state'[t] = "handling"
    BY <1>1, <1>8 DEF ReadBlank, ReadRequest, ReadInvalid, ReadTooDeep, TypeOK
  <2>2. Counted(t)' = Counted(t)
    <3>1. CASE out' = out
      BY <1>3, <3>1
    <3>2. CASE Write(t, Message("error", 0, 0))
      <4>1. PICK m \in Messages : m.kind # "progress" /\ m.id = 0 /\ Write(t, m)
        BY <3>2, MessageType
      <4>2. QED BY <4>1, CountedGrows
    <3>3. QED BY <1>8, <3>1, <3>2 DEF ReadBlank, ReadRequest, ReadInvalid, ReadTooDeep
  <2>3. \A i \in 1 .. got[t] : sent'[t][i].method # "shutdown"
    BY <2>1, NoShutdownYet
  <2>4. sent'[t][got[t] + 1] = sent[t][got[t] + 1]
    BY <2>1, LineRead
  <2>5. \A i \in 1 .. got'[t] : i \in 1 .. got[t] \/ i = got[t] + 1
    BY <1>2, <2>1
  <2>6. QED BY <1>1, <2>1, <2>2, <2>3, <2>4, <2>5 DEF CountOf
<1>9. CASE Hangup(t) \/ RespondFails(t) \/ ReadUndecodable(t) \/ MethodUnhashable(t)
  <2>1. /\ got' = got /\ out' = out /\ count' = count /\ state'[t] = "ended"
    BY <1>1, <1>9 DEF Hangup, RespondFails, ReadUndecodable, MethodUnhashable, TypeOK
  <2>2. QED BY <1>1, <1>3, <1>5, <2>1 DEF CountOf
<1>10. CASE Progress(t)
  <2>1. /\ got' = got /\ count' = count /\ state' = state /\ state[t] = "applying"
        /\ Write(t, Message("progress", got[t], 0))
    BY <1>10 DEF Progress
  <2>2. PICK m \in Messages : m.kind = "progress" /\ Write(t, m)
    BY <1>2, <2>1, MessageType
  <2>3. Answers(t)' = Answers(t) /\ \A j \in Answers(t) : out'[t][j] = out[t][j]
    BY <1>1, <2>2, AnswersGrow
  <2>4. Counted(t)' = Counted(t)
    BY <2>3, CountedStays
  <2>5. QED BY <1>1, <1>5, <2>1, <2>4 DEF CountOf
<1>11. CASE Respond(t)
  <2>1. /\ got' = got /\ state[t] = "answering" /\ count'[t] = count[t] + 1
        /\ state'[t] = (IF t \in stopping THEN "ended" ELSE "reading") /\ Write(t, reply[t])
    BY <1>1, <1>11 DEF Respond, TypeOK
  <2>2. reply[t].kind # "progress" /\ reply[t].id = got[t]
    BY <2>1 DEF Inv, OutInv
  <2>3. got[t] >= 1
    BY <2>1 DEF Inv, SessionInv
  <2>4. Cardinality(Counted(t)') = Cardinality(Counted(t)) + 1
    BY <1>2, <2>1, <2>2, <2>3, CountedGrows
  <2>5. ASSUME NEW i \in 1 .. got'[t], sent'[t][i].method = "shutdown"
        PROVE  i = got'[t] /\ state'[t] \in {"handling", "answering", "ended"}
    <3>1. i = got[t] /\ Current(t).method = "shutdown"
      BY <1>1, <1>5, <2>1, <2>5 DEF CountOf, Current
    <3>2. QED BY <1>1, <2>1, <3>1 DEF CountOf
  <2>6. QED BY <1>1, <2>1, <2>4, <2>5 DEF CountOf
<1>12. QED
  BY <1>1, <1>6, <1>7, <1>8, <1>9, <1>10, <1>11, Turns

\* As long as a session runs, no answer to a shutdown is among its messages.
LEMMA NoShutdownWritten ==
  ASSUME Inv, CountInv, [Next]_vars, NEW t \in Session, state[t] # "ended",
         NEW i \in 1 .. Len(out[t]), out[t][i].id # 0
  PROVE  sent'[t][out[t][i].id].method # "shutdown"
<1>1. PICK n \in Nat : n = out[t][i].id /\ n # 0 /\ n <= got[t]
  BY OldMessages
<1>2. /\ got[t] \in Nat /\ Len(sent[t]) \in Nat /\ got[t] <= Len(sent[t])
      /\ state[t] \in States
  BY SessionTypes DEF Inv
<1>3. n \in 1 .. got[t] /\ n \in 1 .. Len(sent[t])
  BY <1>1, <1>2
<1>4. sent'[t][n] = sent[t][n]
  BY <1>3, LinesStay
<1>5. CASE out[t][i].kind = "progress"
  BY <1>1, <1>4, <1>5, OldMessages DEF Streams
<1>6. CASE out[t][i].kind # "progress"
  <2>1. state[t] \in {"handling", "admitted", "applying", "answering"} => n < got[t]
    BY <1>1, <1>6, OldMessages
  <2>2. sent[t][n].method = "shutdown" => n = got[t] /\ state[t] \in {"handling", "answering"}
    BY <1>2, <1>3 DEF CountInv
  <2>3. QED BY <1>1, <1>2, <1>4, <2>1, <2>2
<1>7. QED BY <1>5, <1>6

\* Nothing is written after a shutdown's answer, and it gives the last count.
LEMMA ShutdownStep ==
  Inv /\ CountInv /\ ShutdownIsLast /\ [Next]_vars => ShutdownIsLast'
<1> SUFFICES ASSUME Inv, CountInv, ShutdownIsLast, [Next]_vars, NEW t \in Session,
                    NEW i \in 1 .. Len(out'[t]),
                    out'[t][i].id # 0, sent'[t][out'[t][i].id].method = "shutdown"
             PROVE  /\ i = Len(out'[t]) /\ state'[t] = "ended"
                    /\ out'[t][i].served = Cardinality(Counted(t)')
  BY DEF ShutdownIsLast
<1> USE DEF At, Goto
<1>1. TypeOK
  BY DEF Inv
<1>2. /\ got[t] \in Nat /\ Len(sent[t]) \in Nat /\ Len(out[t]) \in Nat /\ got[t] <= Len(sent[t])
      /\ state[t] \in States /\ reply[t] \in Messages /\ out[t] \in Seq(Messages)
  BY <1>1, SessionTypes
<1>3. CASE state[t] = "ended"
  <2>1. Rests(t)
    BY <1>1, <1>3, Turns DEF Handles, ReadBlank, ReadInvalid, ReadTooDeep, ReadUndecodable,
           ReadRequest, Hangup, MethodUnhashable, Respond, RespondFails, Progress
  <2>2. out'[t] = out[t] /\ state'[t] = state[t]
    BY <2>1 DEF Rests
  <2>3. PICK n \in Nat : n = out[t][i].id /\ n # 0 /\ n <= got[t]
    BY <2>2, OldMessages
  <2>4. n \in 1 .. Len(sent[t])
    BY <1>2, <2>3
  <2>5. sent[t][n].method = "shutdown"
    BY <2>2, <2>3, <2>4, LinesStay
  <2>6. i = Len(out[t]) /\ out[t][i].served = Cardinality(Counted(t))
    BY <2>2, <2>3, <2>5 DEF ShutdownIsLast
  <2>7. Counted(t)' = Counted(t)
    BY <2>2 DEF Counted, Answers
  <2>8. QED BY <1>3, <2>2, <2>6, <2>7
<1>4. CASE state[t] # "ended"
  <2>1. ASSUME out'[t] = out[t] PROVE FALSE
    BY <1>4, <2>1, NoShutdownWritten
  <2>2. ASSUME NEW m \in Messages, Write(t, m)
        PROVE  i = Len(out'[t]) /\ out'[t][i] = m
    <3>1. /\ Len(out'[t]) = Len(out[t]) + 1 /\ out'[t][Len(out[t]) + 1] = m
          /\ \A j \in 1 .. Len(out[t]) : out'[t][j] = out[t][j]
      BY <1>1, <2>2, WriteType
    <3>2. i \notin 1 .. Len(out[t])
      BY <1>4, <3>1, NoShutdownWritten
    <3>3. i = Len(out[t]) + 1
      BY <1>2, <3>1, <3>2
    <3>4. QED BY <3>1, <3>3
  <2>3. CASE ReadInvalid(t) /\ Write(t, Message("error", 0, 0))
    <3>1. PICK m \in Messages : m.id = 0 /\ Write(t, m)
      BY <2>3, MessageType
    <3>2. QED BY <2>2, <3>1
  <2>4. CASE Progress(t)
    <3>1. state[t] = "applying" /\ Write(t, Message("progress", got[t], 0))
      BY <2>4 DEF Progress
    <3>2. PICK m \in Messages : m.id = got[t] /\ Write(t, m)
      BY <1>2, <3>1, MessageType
    <3>3. out'[t][i].id = got[t]
      BY <2>2, <3>2
    <3>4. got[t] \in 1 .. got[t]
      BY <1>2, <3>1 DEF Inv, SessionInv
    <3>5. QED BY <3>1, <3>3, <3>4, NoShutdownYet
  <2>5. CASE Respond(t)
    <3>1. /\ state[t] = "answering" /\ Write(t, reply[t])
          /\ state'[t] = (IF t \in stopping THEN "ended" ELSE "reading")
      BY <1>1, <2>5 DEF Respond, TypeOK
    <3>2. i = Len(out'[t]) /\ out'[t][i] = reply[t]
      BY <1>2, <2>2, <3>1
    <3>3. reply[t].id = got[t] /\ reply[t].kind # "progress" /\ got[t] >= 1
      BY <3>1 DEF Inv, OutInv, SessionInv
    <3>4. got[t] \in 1 .. Len(sent[t])
      BY <1>2, <3>3
    <3>5. Current(t).method = "shutdown"
      BY <3>2, <3>3, <3>4, LinesStay DEF Current
    <3>6. t \in stopping /\ reply[t].served = count[t] + 1
      BY <3>1, <3>5 DEF CountInv
    <3>7. Cardinality(Counted(t)') = Cardinality(Counted(t)) + 1
      BY <1>2, <3>1, <3>3, CountedGrows
    <3>8. QED BY <3>1, <3>2, <3>6, <3>7 DEF CountInv
  <2>6. QED
    BY <1>1, <2>1, <2>3, <2>4, <2>5, Turns DEF Rests, Handles, ReadBlank, ReadInvalid, ReadTooDeep,
       ReadUndecodable, ReadRequest, Hangup, MethodUnhashable, RespondFails
<1>5. QED BY <1>3, <1>4

-----------------------------------------------------------------------------
(* The theorems. *)

\* Before any client has sent a line there is nothing to answer for.
LEMMA InvInit == Init => Inv
<1> SUFFICES ASSUME Init PROVE Inv
  OBVIOUS
<1>1. NoReply \in Messages
  BY MessageType DEF NoReply
<1>2. TypeOK
  BY <1>1 DEF Init, clientVars, TypeOK, States
<1>3. GateInv
  BY DEF Init, GateInv, Active, At
<1>4. SessionInv /\ EndsForItsOwnCause
  BY DEF Init, SessionInv, EndsForItsOwnCause
<1>5. OutInv /\ ProgressBelongs
  BY DEF Init, OutInv, ProgressBelongs
<1>6. QED BY <1>2, <1>3, <1>4, <1>5 DEF Inv

\* The inductive invariant: what the gate admitted, whose shutdown ended a session and
\* to whom the messages written belong stay true through every step of every thread.
THEOREM Invariance == Spec => []Inv
<1>1. Inv /\ [Next]_vars => Inv'
  BY TypeStep, GateStep, SessionStep, OutStep DEF Inv
<1>2. QED BY InvInit, <1>1, PTL DEF Spec

\* The second layer of the induction: what a session has answered, against what it has
\* read.
LEMMA AnswersInit == Init => AnswersInOrder /\ OrderInv /\ CountInv /\ ShutdownIsLast
<1> SUFFICES ASSUME Init, NEW s \in Session
             PROVE  OrderOf(s) /\ CountOf(s) /\ Len(out[s]) = 0
  BY DEF AnswersInOrder, OrderInv, CountInv, ShutdownIsLast, OrderOf, CountOf
<1>1. /\ state[s] = "reading" /\ got[s] = 0 /\ out[s] = <<>> /\ count[s] = 0
      /\ reply[s] = NoReply
  BY DEF Init, clientVars
<1>2. Len(out[s]) = 0 /\ Done(s) = 0
  BY <1>1 DEF Done
<1>3. Answers(s) = {} /\ Owed(s) = {} /\ Counted(s) = {}
  BY <1>2 DEF Answers, Owed, Counted
<1>4. OrderOf(s)
  BY <1>1, <1>3 DEF OrderOf, InOrder
<1>5. CountOf(s)
  BY <1>1, <1>3, FS_EmptySet DEF CountOf
<1>6. QED BY <1>2, <1>4, <1>5

\* Every line is answered once, in the order sent and with its own id, by any number of
\* sessions at once, however far ahead their clients send and whenever they leave.
THEOREM AnswersAreInOrder == Spec => []AnswersInOrder
<1>1. Init => AnswersInOrder /\ OrderInv
  BY AnswersInit
<1>2. Inv /\ AnswersInOrder /\ OrderInv /\ [Next]_vars => (AnswersInOrder /\ OrderInv)'
  BY OrderStep
<1>3. QED BY <1>1, <1>2, Invariance, PTL DEF Spec

\* A shutdown's answer is the last message of its session and gives the number of
\* requests answered.
THEOREM ShutdownComesLast == Spec => []ShutdownIsLast
<1>1. Init => AnswersInOrder /\ OrderInv /\ CountInv /\ ShutdownIsLast
  BY AnswersInit
<1>2. Inv /\ AnswersInOrder /\ OrderInv /\ CountInv /\ ShutdownIsLast /\ [Next]_vars
        => (AnswersInOrder /\ OrderInv /\ CountInv /\ ShutdownIsLast)'
  BY OrderStep, CountStep, ShutdownStep
<1>3. QED BY <1>1, <1>2, Invariance, PTL DEF Spec

\* Every variable keeps to its type, and no session reads beyond what was sent to it.
THEOREM TypeCorrect == Spec => []TypeOK
<1>1. Inv => TypeOK
  BY DEF Inv
<1>2. QED BY <1>1, Invariance, PTL

\* With any number of connections, applies and dropped generators at once, the machine
\* is changed only for a request that passed the gate of its own line.
THEOREM ChangesGated == Spec => []ChangesAreGated
<1>1. Inv => ChangesAreGated
  BY DEF Inv, GateInv, Admitted, Passed, ChangesAreGated, Installs
<1>2. QED BY <1>1, Invariance, PTL

\* Every change, and every command left running by a lost connection, has its entry in
\* the audit log.
THEOREM ChangesAudited == Spec => []ChangesAreAudited
<1>1. Inv => ChangesAreAudited
  BY DEF Inv, GateInv, Admitted, ChangesAreAudited, Active
<1>2. QED BY <1>1, Invariance, PTL

\* A session ends only because its own client left or asked for it.
THEOREM EndsForOwnCause == Spec => []EndsForItsOwnCause
<1>1. Inv => EndsForItsOwnCause
  BY DEF Inv
<1>2. QED BY <1>1, Invariance, PTL

\* Progress lines stand before the response to their own request, and after those to
\* the requests before it.
THEOREM ProgressStays == Spec => []ProgressBelongs
<1>1. Inv => ProgressBelongs
  BY DEF Inv
<1>2. QED BY <1>1, Invariance, PTL
=============================================================================
