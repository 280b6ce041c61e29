------------------------- MODULE PythonClient_proofs -------------------------
(* Theorems about PythonClient: an answer taken is the answer to one's own   *)
(* request, close() leaves nothing running, and rpc_cli's exit code says     *)
(* what happened.                                                            *)
EXTENDS PythonClient, SequenceTheorems, TLAPS

-----------------------------------------------------------------------------
(* What the two operators that write calls do to it.                         *)

\* Return closes the last call and touches no other.
LEMMA ReturnCloses ==
  ASSUME TypeOK, CallInv, at \in Reading, NEW end \in Ends, NEW of \in Nat, Return(end, of)
  PROVE  /\ calls' \in Seq(Call) /\ Len(calls') = Len(calls) /\ Len(calls) \in 1..Len(calls)
         /\ \A i \in 1..Len(calls) : i # Len(calls) => calls'[i] = calls[i]
         /\ calls'[Len(calls)].method = calls[Len(calls)].method
         /\ calls'[Len(calls)].end = end /\ calls'[Len(calls)].of = of
         /\ at' \in {"hangup", "idle"} /\ (at' = "hangup" <=> closing)
<1> DEFINE n == Len(calls)
<1>1. calls \in Seq(Call) /\ calls # <<>> /\ n \in Nat /\ n \in 1..n
  BY DEF TypeOK, CallInv
<1>2. calls[n] \in Call
  BY <1>1
<1>3. calls' = [calls EXCEPT ![n] = [method |-> calls[n].method, end |-> end, of |-> of]]
  BY DEF Return
<1>4. [method |-> calls[n].method, end |-> end, of |-> of] \in Call
  BY <1>2 DEF Call
<1>5. calls' \in Seq(Call) /\ Len(calls') = n
  BY <1>1, <1>3, <1>4
<1>6. \A i \in 1..n : i # n => calls'[i] = calls[i]
  BY <1>1, <1>3
<1>7. calls'[n] = [method |-> calls[n].method, end |-> end, of |-> of]
  BY <1>1, <1>3
<1>8. at' \in {"hangup", "idle"} /\ (at' = "hangup" <=> closing)
  BY DEF Return
<1> QED BY <1>1, <1>5, <1>6, <1>7, <1>8

\* Send adds one call, pending and on the wire, or broken and left in the buffer.
LEMMA SendAppends ==
  ASSUME TypeOK, NEW method \in Methods \union {"shutdown"}, Send(method)
  PROVE  /\ calls' \in Seq(Call) /\ Len(calls') = Len(calls) + 1
         /\ \A i \in 1..Len(calls) : calls'[i] = calls[i]
         /\ calls'[Len(calls) + 1].method = method
         /\ \/ /\ calls'[Len(calls) + 1].end = "pending" /\ stuck' = stuck
               /\ at' = IF method = Streaming THEN "stream" ELSE "line"
               /\ IF Running THEN requests' = Append(requests, Len(calls) + 1)
                             ELSE requests' = requests
            \/ /\ calls'[Len(calls) + 1].end = "broken" /\ requests' = requests
               /\ ~Running /\ stuck' = (transport = "stdio")
               /\ at' = IF closing' THEN "hangup" ELSE "idle"
<1> DEFINE New(end) == [method |-> method, end |-> end, of |-> 0]
<1>1. calls \in Seq(Call) /\ Len(calls) \in Nat
  BY DEF TypeOK
<1>2. New("pending") \in Call /\ New("broken") \in Call
  BY DEF Call, Ends
<1>3. \A c \in Call : /\ Append(calls, c) \in Seq(Call) /\ Len(Append(calls, c)) = Len(calls) + 1
                     /\ \A i \in 1..Len(calls) : Append(calls, c)[i] = calls[i]
                     /\ Append(calls, c)[Len(calls) + 1] = c
  BY <1>1
<1>4. CASE /\ Running /\ calls' = Append(calls, New("pending"))
           /\ requests' = Append(requests, Len(calls) + 1)
           /\ at' = (IF method = Streaming THEN "stream" ELSE "line") /\ stuck' = stuck
  BY <1>2, <1>3, <1>4
<1>5. CASE /\ ~Running /\ calls' = Append(calls, New("pending")) /\ requests' = requests
           /\ at' = (IF method = Streaming THEN "stream" ELSE "line") /\ stuck' = stuck
  BY <1>2, <1>3, <1>5
<1>6. CASE /\ ~Running /\ calls' = Append(calls, New("broken")) /\ requests' = requests
           /\ stuck' = (transport = "stdio") /\ at' = (IF closing' THEN "hangup" ELSE "idle")
  BY <1>2, <1>3, <1>6
<1> QED BY <1>4, <1>5, <1>6 DEF Send

-----------------------------------------------------------------------------
(* One lemma for each kind of step.                                          *)

\* A step of the backend leaves the client and its calls alone, and brings no backend back.
LEMMA BackendStays ==
  ASSUME Inv, UNCHANGED <<conn, at, spent, stuck, calls, killed>>, Running' => Running, peer # "gone"
  PROVE  /\ ClientInv' /\ CallInv' /\ AnswerIsOwn' /\ (killed # 0 => AnyAbandoned)'
         /\ AnyAbandoned' = AnyAbandoned
<1>1. ClientInv'
  BY DEF Inv, ClientInv, conn
<1>2. CallInv'
  BY DEF Inv, CallInv, conn
<1>3. AnswerIsOwn'
  BY DEF Inv, AnswerIsOwn, conn
<1>4. AnyAbandoned' = AnyAbandoned
  BY DEF AnyAbandoned
<1> QED BY <1>1, <1>2, <1>3, <1>4 DEF Inv

\* A call that ends takes what is left on the wire for nobody's, unless it left its stream.
LEMMA ReturnKeeps ==
  ASSUME Inv, at \in Reading, NEW end \in Ends \ {"pending"}, NEW of \in Nat, Return(end, of),
         UNCHANGED <<conn, stuck, requests, back, killed>>,
         answers' \in Seq(Message), spent' \in BOOLEAN, spent => spent',
         spent' => transport = "socket",
         end = "empty" => ~Running,
         end = "unexpected" => AnyAbandoned,
         (end \in {"returned", "refused"} /\ of # Len(calls)) => (at = "line" /\ AnyAbandoned),
         (end # "abandoned" /\ ~spent' /\ FlowInv) =>
           (answers' = <<>> /\ (Running => requests = <<>> /\ task = 0))
  PROVE  Inv'
<1> DEFINE n == Len(calls)
<1>1. TypeOK /\ ClientInv /\ CallInv /\ BackInv /\ AnswerIsOwn
  BY DEF Inv
<1>2. /\ calls' \in Seq(Call) /\ Len(calls') = n /\ n \in 1..n
      /\ \A i \in 1..n : i # n => calls'[i] = calls[i]
      /\ calls'[n].method = calls[n].method /\ calls'[n].end = end /\ calls'[n].of = of
      /\ at' \in {"hangup", "idle"} /\ (at' = "hangup" <=> closing)
  BY <1>1, ReturnCloses
<1>3. n \in Nat /\ calls[n].end = "pending" /\ calls \in Seq(Call)
  BY <1>1 DEF CallInv, TypeOK
<1>4. \A i \in 1..n : calls'[i].method = calls[i].method
  BY <1>2
<1>5. AnyAbandoned => \E j \in 1..(n - 1) : calls[j].end = "abandoned" /\ calls'[j].end = "abandoned"
  <2> SUFFICES ASSUME AnyAbandoned PROVE \E j \in 1..(n - 1) : calls[j].end = "abandoned" /\ calls'[j].end = "abandoned"
    OBVIOUS
  <2>1. PICK j \in 1..n : calls[j].end = "abandoned"
    BY DEF AnyAbandoned
  <2>2. j # n
    BY <2>1, <1>3
  <2> QED BY <2>1, <2>2, <1>2, <1>3
<1>6. AnyAbandoned => AnyAbandoned'
  BY <1>2, <1>3, <1>5 DEF AnyAbandoned
<1>7. end = "abandoned" => AnyAbandoned'
  BY <1>2 DEF AnyAbandoned
<1>8. TypeOK'
  BY <1>1, <1>2 DEF TypeOK, conn, back
<1>9. ClientInv'
  <2>1. UNCHANGED <<transport, cli, closing, peer, stuck>>
    BY DEF conn, back
  <2> QED BY <1>1, <1>2, <2>1 DEF ClientInv, Running, Reading
<1>10. CallInv'
  <2>1. Running' = Running
    BY DEF back, Running
  <2>2. at' \notin Reading
    BY <1>2 DEF Reading
  <2>3. \A i \in 1..n : calls'[i].end # "pending"
    BY <1>1, <1>2, <1>3 DEF CallInv
  <2>4. \A i \in 1..n : calls'[i].end = "empty" => ~Running
    BY <1>1, <1>2, <1>3 DEF CallInv
  <2>5. \A i \in 1..n : calls'[i].end = "unexpected" => \E j \in 1..(i - 1) : calls'[j].end = "abandoned"
    <3> SUFFICES ASSUME NEW i \in 1..n, calls'[i].end = "unexpected"
                 PROVE  \E j \in 1..(i - 1) : calls'[j].end = "abandoned"
      OBVIOUS
    <3>1. CASE i = n
      BY <1>2, <1>5, <3>1
    <3>2. CASE i # n
      <4>1. PICK j \in 1..(i - 1) : calls[j].end = "abandoned"
        BY <1>1, <1>2, <3>2 DEF CallInv
      <4>2. j \in 1..n /\ j # n
        BY <1>3
      <4> QED BY <4>1, <4>2, <1>2
    <3> QED BY <3>1, <3>2
  <2> QED BY <1>2, <2>1, <2>2, <2>3, <2>4, <2>5 DEF CallInv, Reading
<1>11. BackInv'
  <2>1. Running' = Running
    BY DEF back, Running
  <2>2. task \in 0..n /\ (task # 0 => calls'[task].method = calls[task].method)
    BY <1>1, <1>4 DEF TypeOK
  <2> QED BY <1>1, <2>1, <2>2 DEF BackInv, back, Method
<1>12. (AnyAbandoned \/ spent \/ FlowInv)'
  <2>1. CASE AnyAbandoned
    BY <1>6, <2>1
  <2>2. CASE spent
    BY <2>2
  <2>3. CASE FlowInv /\ ~spent' /\ end # "abandoned"
    <3>1. answers' = <<>> /\ (Running => requests = <<>> /\ task = 0)
      BY <2>3
    <3>2. at' \notin Reading
      BY <1>2 DEF Reading
    <3> QED BY <3>1, <3>2 DEF FlowInv, Running, back
  <2>4. CASE end = "abandoned"
    BY <1>7, <2>4
  <2> QED BY <2>1, <2>2, <2>3, <2>4 DEF Inv
<1>13. AnswerIsOwn'
  <2> SUFFICES ASSUME NEW i \in 1..n, calls'[i].end \in {"returned", "refused"}, calls'[i].of # i
               PROVE  /\ calls'[i].method # Streaming /\ (cli => i = 2)
                      /\ \E j \in 1..(i - 1) : calls'[j].end = "abandoned"
    BY <1>2 DEF AnswerIsOwn, conn
  <2>1. CASE i = n
    <3>1. at = "line" /\ AnyAbandoned
      BY <1>2, <2>1
    <3>2. calls'[n].method # Streaming
      BY <1>1, <1>2, <3>1 DEF CallInv
    <3>3. PICK j \in 1..(n - 1) : calls'[j].end = "abandoned"
      BY <1>5, <3>1
    <3>4. cli => n <= 2
      BY <1>1 DEF ClientInv
    <3> QED BY <2>1, <1>3, <3>2, <3>3, <3>4
  <2>2. CASE i # n
    <3>1. calls'[i] = calls[i]
      BY <1>2, <2>2
    <3>2. /\ calls[i].method # Streaming /\ (cli => i = 2)
          /\ \E j \in 1..(i - 1) : calls[j].end = "abandoned"
      BY <1>1, <3>1 DEF AnswerIsOwn
    <3>3. \A j \in 1..(i - 1) : j \in 1..n /\ j # n
      BY <1>3
    <3> QED BY <3>1, <3>2, <3>3, <1>2
  <2> QED BY <2>1, <2>2
<1>14. (killed # 0 => AnyAbandoned)'
  BY <1>6 DEF Inv
<1> QED BY <1>8, <1>9, <1>10, <1>11, <1>12, <1>13, <1>14 DEF Inv

\* A call that is sent is the only one under way.
LEMMA SendKeeps ==
  ASSUME Inv, at = "idle", NEW method \in Methods \union {"shutdown"}, Send(method),
         UNCHANGED <<transport, cli, spent, answers, back, killed>>,
         closing' \in BOOLEAN, closing' => transport = "stdio",
         cli => Len(calls) + 1 <= 2 /\ (~closing' => Len(calls) + 1 <= 1)
  PROVE  Inv'
<1> DEFINE n == Len(calls)
<1>1. TypeOK /\ ClientInv /\ CallInv /\ BackInv /\ AnswerIsOwn
  BY DEF Inv
<1>2. /\ calls' \in Seq(Call) /\ Len(calls') = n + 1 /\ n \in Nat
      /\ \A i \in 1..n : calls'[i] = calls[i]
      /\ calls'[n + 1].method = method
      /\ \/ /\ calls'[n + 1].end = "pending" /\ stuck' = stuck
            /\ at' = IF method = Streaming THEN "stream" ELSE "line"
            /\ IF Running THEN requests' = Append(requests, n + 1) ELSE requests' = requests
         \/ /\ calls'[n + 1].end = "broken" /\ requests' = requests
            /\ ~Running /\ stuck' = (transport = "stdio")
            /\ at' = IF closing' THEN "hangup" ELSE "idle"
  BY <1>1, SendAppends DEF TypeOK
<1>3. Running' = Running
  BY DEF back, Running
<1>4. \A i \in 1..(n + 1) : i \in 1..n \/ i = n + 1
  BY <1>2
<1>5. AnyAbandoned => AnyAbandoned'
  BY <1>2 DEF AnyAbandoned
<1>6. ~closing
  BY <1>1 DEF ClientInv
<1>7. at \notin Reading
  BY DEF Reading
<1>8. TypeOK'
  <2>1. requests \in Seq(1..(n + 1))
    <3>1. requests \in Seq(1..n) /\ 1..n \subseteq 1..(n + 1)
      BY <1>1, <1>2 DEF TypeOK
    <3> QED BY <3>1
  <2>2. requests' \in Seq(1..(n + 1))
    <3>1. n + 1 \in 1..(n + 1)
      BY <1>2
    <3>2. Append(requests, n + 1) \in Seq(1..(n + 1))
      BY <2>1, <3>1
    <3>3. requests' = requests \/ requests' = Append(requests, n + 1)
      BY <1>2
    <3> QED BY <2>1, <3>2, <3>3
  <2>3. task \in 0..(n + 1) /\ killed \in 0..(n + 1)
    BY <1>1, <1>2 DEF TypeOK
  <2>4. at' \in Reading \union {"hangup", "idle"} /\ stuck' \in BOOLEAN
    BY <1>1, <1>2 DEF TypeOK, Reading
  <2> QED BY <1>1, <1>2, <2>2, <2>3, <2>4 DEF TypeOK, back
<1>9. ClientInv'
  <2>1. at' \in {"line", "stream", "hangup", "idle"} /\ (at' = "hangup" => closing') /\ (at' = "idle" => ~closing')
    BY <1>2
  <2>2. stuck' => ~Running
    BY <1>1, <1>2 DEF ClientInv
  <2>3. cli' => Len(calls') <= 2 /\ (~closing' => Len(calls') <= 1)
    BY <1>2
  <2> QED BY <1>1, <1>3, <2>1, <2>2, <2>3 DEF ClientInv, back
<1>10. CallInv'
  <2>1. at' \in Reading => calls'[n + 1].end = "pending"
    BY <1>2 DEF Reading
  <2>2. (at' = "line" => method # Streaming) /\ (at' = "stream" => method = Streaming)
    BY <1>2
  <2>3. \A i \in 1..n : calls[i].end # "pending"
    BY <1>1, <1>7 DEF CallInv
  <2>4. calls'[n + 1].end \in {"pending", "broken"} /\ (calls'[n + 1].end = "pending" => at' \in Reading)
    BY <1>2 DEF Reading
  <2>5. \A i \in 1..n : /\ calls'[i].end = "empty" => ~Running
                        /\ calls'[i].end = "unexpected" => \E j \in 1..(i - 1) : calls'[j].end = "abandoned"
    BY <1>1, <1>2 DEF CallInv
  <2>6. calls' # <<>>
    BY <1>2
  <2>7. \A i \in 1..(n + 1) : calls'[i].end = "pending" => i = n + 1 /\ at' \in Reading
    BY <1>2, <1>4, <2>3, <2>4
  <2>8. \A i \in 1..(n + 1) : /\ calls'[i].end = "empty" => ~Running
                              /\ calls'[i].end = "unexpected" => \E j \in 1..(i - 1) : calls'[j].end = "abandoned"
    BY <1>4, <2>4, <2>5
  <2> QED BY <1>2, <1>3, <2>1, <2>2, <2>6, <2>7, <2>8 DEF CallInv, Reading
<1>11. BackInv'
  <2>1. task # 0 => calls'[task].method = calls[task].method
    BY <1>1, <1>2 DEF TypeOK
  <2> QED BY <1>1, <1>3, <2>1 DEF BackInv, back, Method
<1>12. (AnyAbandoned \/ spent \/ FlowInv)'
  <2> SUFFICES ASSUME FlowInv PROVE FlowInv'
    BY <1>5 DEF Inv
  <2>1. answers = <<>> /\ (Running => requests = <<>> /\ task = 0)
    BY <1>7 DEF FlowInv
  <2>2. Running => requests' = <<n + 1>> \/ requests' = <<>>
    BY <1>2, <2>1
  <2>3. at' \in Reading \/ requests' = requests
    BY <1>2 DEF Reading
  <2> QED BY <1>2, <1>3, <2>1, <2>2, <2>3 DEF FlowInv, back
<1>13. AnswerIsOwn'
  <2>1. calls'[n + 1].end \notin {"returned", "refused"}
    BY <1>2
  <2> QED BY <1>1, <1>2, <1>4, <2>1 DEF AnswerIsOwn
<1>14. (killed # 0 => AnyAbandoned)'
  BY <1>5 DEF Inv
<1> QED BY <1>8, <1>9, <1>10, <1>11, <1>12, <1>13, <1>14 DEF Inv

\* A step of close() that reads and writes no call.
LEMMA CloseKeeps ==
  ASSUME Inv, at \notin Reading, at' \notin Reading \union {"new"},
         UNCHANGED <<transport, cli, spent, stuck, calls, wire>>,
         TypeOK', ClientInv', BackInv', Running' => Running,
         Running' => UNCHANGED <<task, peer>>, killed' # 0 => AnyAbandoned
  PROVE  Inv'
<1>1. AnyAbandoned' = AnyAbandoned
  BY DEF AnyAbandoned
<1>2. CallInv'
  BY DEF Inv, CallInv, Reading
<1>3. FlowInv => FlowInv'
  BY DEF FlowInv, wire
<1>4. AnswerIsOwn'
  BY DEF Inv, AnswerIsOwn
<1> QED BY <1>1, <1>2, <1>3, <1>4 DEF Inv

-----------------------------------------------------------------------------
(* The invariant.                                                            *)

\* What the reading end of a wire gives: the head, and the rest.
LEMMA HeadOfAnswers ==
  ASSUME TypeOK, answers # <<>>
  PROVE  /\ Head(answers) = answers[1] /\ Head(answers) \in Message
         /\ Tail(answers) \in Seq(Message) /\ Len(answers) \in Nat \ {0}
         /\ Len(Tail(answers)) = Len(answers) - 1
         /\ \A k \in 1..Len(Tail(answers)) : Tail(answers)[k] = answers[k + 1]
         /\ Len(answers) = 1 => Tail(answers) = <<>>
<1>1. answers \in Seq(Message) /\ answers # <<>>
  BY DEF TypeOK
<1>2. Len(answers) \in Nat \ {0} /\ Head(answers) = answers[1] /\ 1 \in 1..Len(answers)
  BY <1>1
<1>3. Tail(answers) \in Seq(Message) /\ Len(Tail(answers)) = Len(answers) - 1
      /\ \A k \in 1..Len(Tail(answers)) : Tail(answers)[k] = answers[k + 1]
  BY <1>1
<1>4. Len(answers) = 1 => Tail(answers) = <<>>
  <2> SUFFICES ASSUME Len(answers) = 1 PROVE Tail(answers) = <<>>
    OBVIOUS
  <2>1. Len(Tail(answers)) = 0
    BY <1>3
  <2> QED BY <1>3, <2>1, EmptySeq
<1> QED BY <1>1, <1>2, <1>3, <1>4

LEMMA InitInv ==
  ASSUME Init
  PROVE  Inv
<1>1. /\ transport \in {"stdio", "socket"} /\ cli \in BOOLEAN /\ at = "new" /\ closing = FALSE
      /\ spent = FALSE /\ stuck = FALSE /\ calls = <<>> /\ requests = <<>> /\ answers = <<>>
      /\ peer = "gone" /\ task = 0 /\ reports = 0 /\ noise = 0 /\ killed = 0
  BY DEF Init, GetClient
<1>2. TypeOK
  <2>1. calls \in Seq(Call) /\ requests \in Seq(1..Len(calls)) /\ answers \in Seq(Message) /\ Len(calls) = 0
    BY <1>1
  <2>2. reports \in 0..MaxReports /\ noise \in 0..StderrRoom
    BY <1>1, ClientAssumption DEF ClientAssumption
  <2>3. task \in 0..Len(calls) /\ killed \in 0..Len(calls)
    BY <1>1, <2>1
  <2>4. at \in Reading \union {"new", "idle", "hangup", "waiting", "closed", "broken"}
    BY <1>1
  <2> QED BY <1>1, <2>1, <2>2, <2>3, <2>4 DEF TypeOK
<1>3. ClientInv /\ CallInv /\ BackInv
  BY <1>1 DEF ClientInv, CallInv, BackInv, Running, Reading
<1>4. FlowInv /\ AnswerIsOwn
  BY <1>1 DEF FlowInv, AnswerIsOwn, Reading, Running
<1> QED BY <1>1, <1>2, <1>3, <1>4 DEF Inv

LEMMA OpenKeeps ==
  ASSUME Inv, Open
  PROVE  Inv'
<1>1. TypeOK /\ ClientInv /\ BackInv /\ at = "new"
  BY DEF Inv, Open
<1>2. calls = <<>> /\ requests = <<>> /\ answers = <<>> /\ peer = "gone" /\ ~stuck /\ task = 0 /\ reports = 0
  BY <1>1 DEF ClientInv, BackInv, Running
<1>3. UNCHANGED <<transport, cli, closing, spent, stuck, calls, requests, answers, task, reports, noise, killed>>
  BY DEF Open, conn, wire
<1>4. ~closing
  BY <1>1 DEF ClientInv
<1>5. (at' = "idle" /\ peer' = "up") \/ (transport = "socket" /\ at' = "closed" /\ peer' = "gone")
  BY <1>2 DEF Open
<1>6. TypeOK'
  BY <1>1, <1>3, <1>5 DEF TypeOK
<1>7. ClientInv'
  BY <1>1, <1>2, <1>3, <1>4, <1>5 DEF ClientInv
<1>8. CallInv' /\ BackInv' /\ FlowInv' /\ AnswerIsOwn'
  BY <1>2, <1>3, <1>5 DEF CallInv, BackInv, FlowInv, AnswerIsOwn, Reading, Running
<1>9. killed' # 0 => AnyAbandoned'
  BY <1>2, <1>3 DEF Inv, AnyAbandoned
<1> QED BY <1>6, <1>7, <1>8, <1>9 DEF Inv

LEMMA CallMethodKeeps ==
  ASSUME Inv, CallMethod
  PROVE  Inv'
<1>1. PICK method \in Methods : Send(method)
  BY DEF CallMethod
<1>2. ~closing
  BY DEF Inv, ClientInv, CallMethod
<1>3. cli => Len(calls) + 1 <= 1
  BY DEF CallMethod, Inv, TypeOK
<1>4. at = "idle" /\ closing' = closing /\ UNCHANGED <<transport, cli, spent, answers, back, killed>>
  BY DEF CallMethod
<1> QED BY <1>1, <1>2, <1>3, <1>4, SendKeeps DEF Inv, TypeOK

LEMMA CloseStarts ==
  ASSUME Inv, Close
  PROVE  Inv'
<1>1. /\ at = "idle" /\ transport = "stdio" /\ closing' = TRUE
      /\ UNCHANGED <<transport, cli, spent, answers, back, killed>>
  BY DEF Close
<1>2. cli => Len(calls) + 1 <= 2
  BY <1>1 DEF Inv, ClientInv, TypeOK
<1>3. CASE Send("shutdown")
  BY <1>1, <1>2, <1>3, SendKeeps
<1>4. CASE peer = "gone" /\ at' = "hangup" /\ UNCHANGED <<calls, requests, stuck>>
  <2>1. at \notin Reading /\ at' \notin Reading \union {"new"}
    BY <1>1, <1>4 DEF Reading
  <2>2. TypeOK'
    BY <1>1, <1>4 DEF Inv, TypeOK, back
  <2>3. ClientInv'
    BY <1>1, <1>4 DEF Inv, ClientInv, back, Running
  <2>4. BackInv'
    BY <1>1, <1>4 DEF Inv, BackInv, back, Running, Method
  <2>5. Running' = Running /\ UNCHANGED <<task, peer>> /\ killed' = killed /\ UNCHANGED wire
    BY <1>1, <1>4 DEF Running, back, wire
  <2> QED BY <1>1, <1>4, <2>1, <2>2, <2>3, <2>4, <2>5, CloseKeeps DEF Inv
<1> QED BY <1>3, <1>4 DEF Close

LEMMA CloseSocketKeeps ==
  ASSUME Inv, CloseSocket
  PROVE  Inv'
<1>1. /\ at = "idle" /\ transport = "socket" /\ at' = "closed"
      /\ UNCHANGED <<transport, cli, closing, spent, stuck, calls, wire, peer, task, reports, noise, killed>>
  BY DEF CloseSocket, conn, back
<1>2. at \notin Reading /\ at' \notin Reading \union {"new"}
  BY <1>1 DEF Reading
<1>3. TypeOK'
  BY <1>1 DEF Inv, TypeOK, wire
<1>4. ClientInv'
  BY <1>1 DEF Inv, ClientInv, Running, wire
<1>5. BackInv'
  BY <1>1 DEF Inv, BackInv, Running, Method
<1>6. Running' = Running /\ (killed' # 0 => AnyAbandoned)
  BY <1>1 DEF Inv, Running
<1> QED BY <1>1, <1>2, <1>3, <1>4, <1>5, <1>6, CloseKeeps

LEMMA CloseStdinKeeps ==
  ASSUME Inv, CloseStdin
  PROVE  Inv'
<1>1. /\ at = "hangup" /\ at' \in {"broken", "waiting"} /\ (at' = "broken" <=> stuck)
      /\ UNCHANGED <<transport, cli, closing, spent, stuck, calls, wire, peer, task, reports, noise, killed>>
  BY DEF CloseStdin, conn, back, Inv, TypeOK
<1>2. at \notin Reading /\ at' \notin Reading \union {"new"}
  BY <1>1 DEF Reading
<1>3. TypeOK'
  BY <1>1 DEF Inv, TypeOK, wire
<1>4. ClientInv'
  BY <1>1 DEF Inv, ClientInv, Running, wire
<1>5. BackInv'
  BY <1>1 DEF Inv, BackInv, Running, Method
<1>6. Running' = Running /\ (killed' # 0 => AnyAbandoned)
  BY <1>1 DEF Inv, Running
<1> QED BY <1>1, <1>2, <1>3, <1>4, <1>5, <1>6, CloseKeeps

LEMMA ReapKeeps ==
  ASSUME Inv, Reap
  PROVE  Inv'
<1>1. /\ at = "waiting" /\ peer = "gone" /\ at' = "closed"
      /\ UNCHANGED <<transport, cli, closing, spent, stuck, calls, wire, peer, task, reports, noise, killed>>
  BY DEF Reap, conn, back
<1>2. at \notin Reading /\ at' \notin Reading \union {"new"}
  BY <1>1 DEF Reading
<1>3. TypeOK'
  BY <1>1 DEF Inv, TypeOK, wire
<1>4. ClientInv'
  BY <1>1 DEF Inv, ClientInv, Running, wire
<1>5. BackInv'
  BY <1>1 DEF Inv, BackInv, Running, Method
<1>6. Running' = Running /\ (killed' # 0 => AnyAbandoned)
  BY <1>1 DEF Inv, Running
<1> QED BY <1>1, <1>2, <1>3, <1>4, <1>5, <1>6, CloseKeeps

\* Only after a stream was left is anything under way that the kill can interrupt.
LEMMA KillKeeps ==
  ASSUME Inv, Kill
  PROVE  Inv'
<1>1. /\ at = "waiting" /\ Running /\ (peer = "up" => task # 0 \/ requests # <<>>)
      /\ at' = "closed" /\ peer' = "gone" /\ task' = 0 /\ reports' = 0 /\ killed' = task
      /\ UNCHANGED <<transport, cli, closing, spent, stuck, calls, wire, noise>>
  BY DEF Kill, conn
<1>2. at \notin Reading /\ at' \notin Reading \union {"new"}
  BY <1>1 DEF Reading
<1>3. TypeOK'
  <2>1. reports' \in 0..MaxReports /\ task' \in 0..Len(calls) /\ killed' \in 0..Len(calls)
    BY <1>1, ClientAssumption DEF Inv, TypeOK, ClientAssumption
  <2> QED BY <1>1, <2>1 DEF Inv, TypeOK, wire
<1>4. ~Running'
  BY <1>1 DEF Running
<1>5. ClientInv'
  BY <1>1, <1>4 DEF Inv, ClientInv
<1>6. BackInv'
  BY <1>1, <1>4 DEF BackInv
<1>7. AnyAbandoned
  <2>1. ~spent
    BY <1>1 DEF Inv, ClientInv
  <2>2. ~FlowInv
    BY <1>1, <1>2 DEF FlowInv, Inv, BackInv, Running
  <2> QED BY <2>1, <2>2 DEF Inv
<1> QED BY <1>1, <1>2, <1>3, <1>4, <1>5, <1>6, <1>7, CloseKeeps

LEMMA ReadLineKeeps ==
  ASSUME Inv, ReadLine
  PROVE  Inv'
<1> DEFINE m == Head(answers)
<1>1. /\ at = "line" /\ ~spent /\ answers # <<>> /\ answers' = Tail(answers)
      /\ UNCHANGED <<conn, stuck, requests, back, killed>> /\ spent' = spent
  BY DEF ReadLine
<1>2. PICK end \in {"refused", "returned"} : Return(end, m.of)
  BY DEF ReadLine, TakeLine
<1>3. TypeOK /\ at \in Reading
  BY <1>1 DEF Inv, Reading
<1>4. /\ m = answers[1] /\ m \in Message /\ answers' \in Seq(Message)
      /\ 1 \in 1..Len(answers) /\ (Len(answers) = 1 => answers' = <<>>)
  BY <1>1, <1>3, HeadOfAnswers
<1>5. m.of \in Nat
  BY <1>4 DEF Message
<1>6. FlowInv => /\ m.of = Len(calls) /\ answers' = <<>>
                 /\ Running => requests = <<>> /\ task = 0
  BY <1>1, <1>3, <1>4 DEF FlowInv
<1>7. m.of # Len(calls) => AnyAbandoned
  BY <1>1, <1>6 DEF Inv
<1>8. end \in Ends \ {"pending"} /\ end \notin {"empty", "unexpected", "abandoned"}
  BY DEF Ends
<1>9. spent' \in BOOLEAN /\ (spent => spent') /\ (spent' => transport = "socket")
  BY <1>1 DEF Inv, TypeOK
<1> QED BY <1>1, <1>2, <1>3, <1>4, <1>5, <1>6, <1>7, <1>8, <1>9, ReturnKeeps

LEMMA ReadStreamedKeeps ==
  ASSUME Inv, ReadStreamed
  PROVE  Inv'
<1> DEFINE m == Head(answers)
<1>1. /\ at = "stream" /\ ~spent /\ answers # <<>> /\ answers' = Tail(answers)
      /\ m.kind # "progress"
      /\ UNCHANGED <<conn, stuck, requests, back, killed>> /\ spent' = spent
  BY DEF ReadStreamed
<1>2. PICK end \in {"refused", "returned", "unexpected"} :
        Return(end, m.of) /\ (end = "unexpected" <=> m.of # Len(calls))
  BY DEF ReadStreamed, TakeStreamed, TakeLine
<1>3. TypeOK /\ at \in Reading
  BY <1>1 DEF Inv, Reading
<1>4. /\ m = answers[1] /\ m \in Message /\ answers' \in Seq(Message)
      /\ 1 \in 1..Len(answers) /\ (Len(answers) = 1 => answers' = <<>>)
  BY <1>1, <1>3, HeadOfAnswers
<1>5. m.of \in Nat
  BY <1>4 DEF Message
<1>6. FlowInv => /\ m.of = Len(calls) /\ answers' = <<>>
                 /\ Running => requests = <<>> /\ task = 0
  BY <1>1, <1>3, <1>4 DEF FlowInv
<1>7. m.of # Len(calls) => AnyAbandoned
  BY <1>1, <1>6 DEF Inv
<1>8. end \in Ends \ {"pending"} /\ end \notin {"empty", "abandoned"}
  BY DEF Ends
<1>9. spent' \in BOOLEAN /\ (spent => spent') /\ (spent' => transport = "socket")
  BY <1>1 DEF Inv, TypeOK
<1>10. end \in {"returned", "refused"} => m.of = Len(calls)
  BY <1>2
<1>11. end = "unexpected" => AnyAbandoned
  BY <1>2, <1>7
<1> QED BY <1>1, <1>2, <1>3, <1>4, <1>5, <1>6, <1>8, <1>9, <1>10, <1>11, ReturnKeeps

LEMMA ReadProgressKeeps ==
  ASSUME Inv, ReadProgress
  PROVE  Inv'
<1>1. /\ at = "stream" /\ ~spent /\ answers # <<>> /\ answers' = Tail(answers)
      /\ UNCHANGED <<conn, spent, stuck, requests, back, killed>>
  BY DEF ReadProgress
<1>2. TypeOK /\ ClientInv /\ CallInv /\ BackInv /\ AnswerIsOwn /\ at \in Reading
  BY <1>1 DEF Inv, Reading
<1>3. /\ answers' \in Seq(Message) /\ Len(answers) \in Nat /\ Len(answers') = Len(answers) - 1
      /\ \A k \in 1..Len(answers') : answers'[k] = answers[k + 1] /\ k + 1 \in 1..Len(answers)
  BY <1>1, <1>2, HeadOfAnswers
<1>4. CASE Return("abandoned", 0)
  <2>1. "abandoned" \in Ends \ {"pending"} /\ spent \in BOOLEAN /\ (spent => transport = "socket")
    BY <1>2 DEF Ends, TypeOK, ClientInv
  <2> QED BY <1>1, <1>2, <1>3, <1>4, <2>1, ReturnKeeps
<1>5. CASE at' = at /\ calls' = calls
  <2>1. UNCHANGED <<transport, cli, closing, peer, task, reports, noise>> /\ Running' = Running
    BY <1>1 DEF conn, back, Running
  <2>2. AnyAbandoned' = AnyAbandoned
    BY <1>5 DEF AnyAbandoned
  <2>3. TypeOK'
    BY <1>1, <1>2, <1>3, <1>5, <2>1 DEF TypeOK
  <2>4. ClientInv' /\ CallInv' /\ AnswerIsOwn'
    BY <1>1, <1>2, <1>5, <2>1 DEF ClientInv, CallInv, AnswerIsOwn
  <2>5. BackInv'
    BY <1>1, <1>2, <1>5, <2>1 DEF BackInv, Method
  <2>6. FlowInv => FlowInv'
    <3> SUFFICES ASSUME FlowInv PROVE FlowInv'
      OBVIOUS
    <3>1. \A k \in 1..Len(answers') :
            /\ answers'[k].of = Len(calls)
            /\ answers'[k].kind # "progress" =>
                 k = Len(answers') /\ (Running => requests = <<>> /\ task = 0)
      BY <1>2, <1>3 DEF FlowInv
    <3>2. (Running => requests = <<>>) /\ (Running /\ task # 0 => task = Len(calls))
      BY <1>1, <1>2 DEF FlowInv
    <3> QED BY <1>1, <1>2, <1>5, <2>1, <3>1, <3>2 DEF FlowInv
  <2>7. (killed # 0 => AnyAbandoned)'
    BY <1>1, <2>2 DEF Inv
  <2> QED BY <1>1, <2>2, <2>3, <2>4, <2>5, <2>6, <2>7 DEF Inv
<1> QED BY <1>4, <1>5 DEF ReadProgress, SkipProgress

LEMMA ReadEndKeeps ==
  ASSUME Inv, ReadEnd
  PROVE  Inv'
<1>1. /\ at \in Reading /\ answers = <<>> /\ ~Running /\ Return("empty", 0)
      /\ UNCHANGED <<conn, spent, stuck, requests, answers, back, killed>>
  BY DEF ReadEnd, wire
<1>2. "empty" \in Ends \ {"pending"}
  BY DEF Ends
<1>3. answers \in Seq(Message) /\ spent \in BOOLEAN /\ (spent => transport = "socket")
  BY DEF Inv, TypeOK, ClientInv
<1> QED BY <1>1, <1>2, <1>3, ReturnKeeps

LEMMA ReadTimesOutKeeps ==
  ASSUME Inv, ReadTimesOut
  PROVE  Inv'
<1>1. /\ at \in Reading /\ transport = "socket" /\ spent' = TRUE /\ Return("timeout", 0)
      /\ UNCHANGED <<conn, stuck, requests, answers, back, killed>>
  BY DEF ReadTimesOut, Expire, wire
<1>2. "timeout" \in Ends \ {"pending"}
  BY DEF Ends
<1>3. answers \in Seq(Message)
  BY DEF Inv, TypeOK
<1> QED BY <1>1, <1>2, <1>3, ReturnKeeps

-----------------------------------------------------------------------------
(* The backend.                                                              *)

\* What is left to show of a step of the backend.
LEMMA ServeKeeps ==
  ASSUME Inv, UNCHANGED <<conn, at, spent, stuck, calls, killed>>, Running' => Running, peer # "gone",
         TypeOK', BackInv', FlowInv => FlowInv'
  PROVE  Inv'
<1>1. /\ ClientInv' /\ CallInv' /\ AnswerIsOwn' /\ (killed # 0 => AnyAbandoned)'
      /\ AnyAbandoned' = AnyAbandoned
  BY BackendStays
<1> QED BY <1>1 DEF Inv

LEMMA PeerTakesKeeps ==
  ASSUME Inv, PeerTakes
  PROVE  Inv'
<1> DEFINE n == Len(calls)
<1>1. /\ peer = "up" /\ task = 0 /\ requests # <<>>
      /\ task' = Head(requests) /\ requests' = Tail(requests)
      /\ UNCHANGED <<transport, cli, closing, at, spent, stuck, calls, answers, peer, noise, killed>>
  BY DEF PeerTakes, conn
<1>2. reports' \in 0..MaxReports /\ (reports' # 0 => Method(task') = Streaming)
  BY ClientAssumption DEF PeerTakes, ClientAssumption
<1>3. TypeOK
  BY DEF Inv
<1>4. requests \in Seq(1..n) /\ n \in Nat
  BY <1>3 DEF TypeOK
<1>5. requests' \in Seq(1..n) /\ task' \in 1..n
  BY <1>1, <1>4
<1>6. TypeOK'
  BY <1>1, <1>2, <1>3, <1>4, <1>5 DEF TypeOK
<1>7. Running /\ Running'
  BY <1>1 DEF Running
<1>8. BackInv'
  <2>1. task' # 0
    BY <1>4, <1>5
  <2>2. (reports # 0 => Method(task) = Streaming)'
    BY <1>1, <1>2 DEF Method
  <2> QED BY <1>7, <2>1, <2>2 DEF BackInv
<1>9. FlowInv => FlowInv'
  <2> SUFFICES ASSUME FlowInv PROVE FlowInv'
    OBVIOUS
  <2>1. at \in Reading /\ requests = <<n>> /\ answers = <<>>
    BY <1>1, <1>7 DEF FlowInv
  <2>2. requests' = <<>> /\ task' = n
    BY <1>1, <2>1
  <2> QED BY <1>1, <2>1, <2>2 DEF FlowInv
<1>10. UNCHANGED conn /\ peer # "gone"
  BY <1>1 DEF conn
<1> QED BY <1>1, <1>6, <1>7, <1>8, <1>9, <1>10, ServeKeeps

LEMMA PeerReportsKeeps ==
  ASSUME Inv, PeerReports
  PROVE  Inv'
<1> DEFINE m == [of |-> task, kind |-> "progress"]
<1>1. /\ peer = "up" /\ task # 0 /\ reports > 0
      /\ answers' = Append(answers, m) /\ reports' = reports - 1
      /\ UNCHANGED <<transport, cli, closing, at, spent, stuck, calls, requests, peer, task, noise, killed>>
  BY DEF PeerReports, conn
<1>2. TypeOK /\ CallInv /\ BackInv
  BY DEF Inv
<1>3. answers \in Seq(Message) /\ Len(calls) \in Nat /\ task \in 1..Len(calls) /\ reports \in 0..MaxReports
  BY <1>1, <1>2 DEF TypeOK
<1>4. m \in Message
  BY <1>3 DEF Message
<1>5. /\ answers' \in Seq(Message) /\ Len(answers') = Len(answers) + 1 /\ Len(answers) \in Nat
      /\ \A k \in 1..Len(answers) : answers'[k] = answers[k]
      /\ answers'[Len(answers) + 1] = m
  BY <1>1, <1>3, <1>4
<1>6. reports' \in 0..MaxReports
  BY <1>1, <1>3, ClientAssumption DEF ClientAssumption
<1>7. TypeOK'
  BY <1>1, <1>2, <1>5, <1>6 DEF TypeOK
<1>8. Running /\ Running'
  BY <1>1 DEF Running
<1>9. Method(task) = Streaming
  BY <1>1, <1>2, <1>3 DEF BackInv
<1>10. BackInv'
  BY <1>1, <1>8, <1>9 DEF BackInv, Method
<1>11. FlowInv => FlowInv'
  <2> SUFFICES ASSUME FlowInv PROVE FlowInv'
    OBVIOUS
  <2>1. at \in Reading /\ task = Len(calls) /\ requests = <<>>
    BY <1>1, <1>8 DEF FlowInv
  <2>2. at = "stream"
    BY <1>2, <1>9, <2>1 DEF CallInv, Method, Reading
  <2>3. \A k \in 1..Len(answers) : answers[k].of = Len(calls) /\ answers[k].kind = "progress"
    BY <1>1, <1>8, <2>1 DEF FlowInv
  <2>4. \A k \in 1..Len(answers') : answers'[k].of = Len(calls) /\ answers'[k].kind = "progress"
    <3> SUFFICES ASSUME NEW k \in 1..Len(answers')
                 PROVE  answers'[k].of = Len(calls) /\ answers'[k].kind = "progress"
      OBVIOUS
    <3>1. k \in 1..Len(answers) \/ k = Len(answers) + 1
      BY <1>5
    <3> QED BY <1>5, <2>1, <2>3, <3>1
  <2> QED BY <1>1, <2>1, <2>2, <2>4 DEF FlowInv
<1>12. UNCHANGED conn /\ peer # "gone"
  BY <1>1 DEF conn
<1> QED BY <1>1, <1>7, <1>8, <1>10, <1>11, <1>12, ServeKeeps

\* The answer ends the request, and is the last line of it.
LEMMA AnswerKeeps ==
  ASSUME Inv, peer = "up", task # 0, NEW kind \in {"result", "error"}, Answer(kind),
         UNCHANGED <<conn, at, spent, stuck, calls, requests, killed>>, noise' \in 0..StderrRoom
  PROVE  Inv'
<1> DEFINE m == [of |-> task, kind |-> kind]
<1>1. /\ peer' \in {"exiting", "up"} /\ answers' = Append(answers, m) /\ task' = 0 /\ reports' = 0
  BY DEF Answer
<1>2. TypeOK
  BY DEF Inv
<1>3. answers \in Seq(Message) /\ Len(calls) \in Nat /\ task \in 1..Len(calls)
  BY <1>2 DEF TypeOK
<1>4. m \in Message
  BY <1>3 DEF Message
<1>5. /\ answers' \in Seq(Message) /\ Len(answers') = Len(answers) + 1 /\ Len(answers) \in Nat
      /\ \A k \in 1..Len(answers) : answers'[k] = answers[k]
      /\ answers'[Len(answers) + 1] = m
  BY <1>1, <1>3, <1>4
<1>6. TypeOK'
  <2>1. reports' \in 0..MaxReports /\ task' \in 0..Len(calls')
    BY <1>1, <1>3, ClientAssumption DEF ClientAssumption
  <2> QED BY <1>1, <1>2, <1>5, <2>1 DEF TypeOK, conn
<1>7. Running
  BY DEF Running
<1>8. BackInv'
  BY <1>1 DEF BackInv
<1>9. FlowInv => FlowInv'
  <2> SUFFICES ASSUME FlowInv PROVE FlowInv'
    OBVIOUS
  <2>1. at \in Reading /\ task = Len(calls) /\ requests = <<>>
    BY <1>7 DEF FlowInv
  <2>2. \A k \in 1..Len(answers) : /\ answers[k].of = Len(calls) /\ answers[k].kind = "progress"
                                   /\ at = "stream"
    BY <1>7, <2>1 DEF FlowInv
  <2>3. \A k \in 1..Len(answers') :
          /\ answers'[k].of = Len(calls) /\ (answers'[k].kind = "progress" => at = "stream")
          /\ answers'[k].kind # "progress" => k = Len(answers')
    <3> SUFFICES ASSUME NEW k \in 1..Len(answers')
                 PROVE  /\ answers'[k].of = Len(calls)
                        /\ answers'[k].kind = "progress" => at = "stream"
                        /\ answers'[k].kind # "progress" => k = Len(answers')
      OBVIOUS
    <3>1. k \in 1..Len(answers) \/ k = Len(answers) + 1
      BY <1>5
    <3> QED BY <1>5, <2>1, <2>2, <3>1
  <2> QED BY <1>1, <2>1, <2>3 DEF FlowInv
<1>10. peer # "gone"
  OBVIOUS
<1> QED BY <1>6, <1>7, <1>8, <1>9, <1>10, ServeKeeps

LEMMA PeerRaisesKeeps ==
  ASSUME Inv, PeerRaises
  PROVE  Inv'
<1>1. /\ peer = "up" /\ task # 0
      /\ UNCHANGED <<conn, at, spent, stuck, calls, requests, killed>>
  BY DEF PeerRaises
<1>2. TypeOK /\ BackInv
  BY DEF Inv
<1>3. CASE Answer("error") /\ noise' \in 0..StderrRoom
  BY <1>1, <1>3, AnswerKeeps
<1>4. CASE peer' = "blocked" /\ UNCHANGED <<answers, task, reports, noise>>
  <2>1. TypeOK'
    BY <1>1, <1>2, <1>4 DEF TypeOK, conn
  <2>2. Running /\ Running'
    BY <1>1, <1>4 DEF Running
  <2>3. BackInv'
    BY <1>1, <1>2, <1>4, <2>2 DEF BackInv, Method
  <2>4. FlowInv => FlowInv'
    BY <1>1, <1>4, <2>2 DEF FlowInv
  <2> QED BY <1>1, <2>1, <2>2, <2>3, <2>4, ServeKeeps
<1>5. noise < StderrRoom /\ noise' = noise + 1 => noise' \in 0..StderrRoom
  BY <1>2, ClientAssumption DEF TypeOK, ClientAssumption
<1>6. noise' = noise => noise' \in 0..StderrRoom
  BY <1>2 DEF TypeOK
<1> QED BY <1>3, <1>4, <1>5, <1>6 DEF PeerRaises

\* The backend sees its input end, is reaped, or dies: nothing of it runs then.
LEMMA PeerEndsKeeps ==
  ASSUME Inv, PeerSeesEnd \/ PeerExits \/ PeerDies
  PROVE  Inv'
<1>1. TypeOK /\ BackInv
  BY DEF Inv
<1>2. /\ peer # "gone" /\ peer' \in {"exiting", "gone"} /\ requests' \in {requests, <<>>}
      /\ task' = 0 /\ reports' = 0
      /\ UNCHANGED <<conn, at, spent, stuck, calls, answers, noise, killed>>
  BY <1>1 DEF PeerSeesEnd, PeerExits, PeerDies, BackInv, Running, wire
<1>3. TypeOK'
  <2>1. reports' \in 0..MaxReports /\ task' \in 0..Len(calls')
    BY <1>1, <1>2, ClientAssumption DEF TypeOK, ClientAssumption
  <2>2. requests' \in Seq(1..Len(calls'))
    <3>1. requests \in Seq(1..Len(calls)) /\ <<>> \in Seq(1..Len(calls))
      BY <1>1 DEF TypeOK
    <3> QED BY <1>2, <3>1
  <2> QED BY <1>1, <1>2, <2>1, <2>2 DEF TypeOK, conn
<1>4. ~Running'
  BY <1>2 DEF Running
<1>5. BackInv'
  BY <1>2, <1>4 DEF BackInv
<1>6. FlowInv => FlowInv'
  <2> SUFFICES ASSUME FlowInv PROVE FlowInv'
    OBVIOUS
  <2>1. at \in Reading => \A k \in 1..Len(answers) :
          /\ answers[k].of = Len(calls) /\ (answers[k].kind = "progress" => at = "stream")
          /\ answers[k].kind # "progress" => k = Len(answers)
    BY DEF FlowInv
  <2>2. at \notin Reading => answers = <<>>
    BY DEF FlowInv
  <2> QED BY <1>2, <1>4, <2>1, <2>2 DEF FlowInv
<1> QED BY <1>2, <1>3, <1>4, <1>5, <1>6, ServeKeeps

-----------------------------------------------------------------------------
(* The theorems.                                                             *)

LEMMA NextKeeps ==
  ASSUME Inv, [Next]_vars
  PROVE  Inv'
<1>1. CASE Open
  BY <1>1, OpenKeeps
<1>2. CASE CallMethod
  BY <1>2, CallMethodKeeps
<1>3. CASE ClientReads
  BY <1>3, ReadLineKeeps, ReadProgressKeeps, ReadStreamedKeeps, ReadEndKeeps DEF ClientReads
<1>4. CASE ReadTimesOut
  BY <1>4, ReadTimesOutKeeps
<1>5. CASE Close
  BY <1>5, CloseStarts
<1>6. CASE CloseSocket
  BY <1>6, CloseSocketKeeps
<1>7. CASE ClientCloses
  BY <1>7, CloseStdinKeeps, ReapKeeps, KillKeeps DEF ClientCloses
<1>8. CASE PeerServes
  <2>1. CASE PeerAnswers
    <3>1. PICK kind \in {"result", "error"} : Answer(kind)
      BY <2>1 DEF PeerAnswers
    <3>2. /\ peer = "up" /\ task # 0 /\ noise' = noise
          /\ UNCHANGED <<conn, at, spent, stuck, calls, requests, killed>>
      BY <2>1 DEF PeerAnswers
    <3>3. noise' \in 0..StderrRoom
      BY <3>2 DEF Inv, TypeOK
    <3> QED BY <3>1, <3>2, <3>3, AnswerKeeps
  <2> QED BY <1>8, <2>1, PeerTakesKeeps, PeerReportsKeeps, PeerRaisesKeeps, PeerEndsKeeps DEF PeerServes
<1>9. CASE PeerDies
  BY <1>9, PeerEndsKeeps
<1>10. CASE UNCHANGED vars
  <2>1. UNCHANGED <<conn, at, spent, stuck, calls, killed, requests, answers, peer, task, reports, noise>>
    BY <1>10 DEF vars, wire, back
  <2>2. UNCHANGED <<transport, cli, closing>> /\ Running' = Running
    BY <2>1 DEF conn, Running
  <2>3. TypeOK' /\ ClientInv' /\ CallInv'
    BY <2>1, <2>2 DEF Inv, TypeOK, ClientInv, CallInv
  <2>4. BackInv' /\ AnswerIsOwn' /\ (killed # 0 => AnyAbandoned)' /\ AnyAbandoned' = AnyAbandoned
    BY <2>1, <2>2 DEF Inv, BackInv, AnswerIsOwn, AnyAbandoned, Method
  <2>5. FlowInv => FlowInv'
    BY <2>1, <2>2 DEF FlowInv
  <2> QED BY <2>1, <2>3, <2>4, <2>5 DEF Inv
<1> QED BY <1>1, <1>2, <1>3, <1>4, <1>5, <1>6, <1>7, <1>8, <1>9, <1>10 DEF Next

(* The invariant holds in every state: as long as no stream was left half    *)
(* read and no read timed out, one request at most is under way, and what is *)
(* on the wire belongs to the call that reads it (client.py:82-128).         *)
THEOREM Invariance == Spec => []Inv
<1>1. Init => Inv
  BY InitInv
<1>2. Inv /\ [Next]_vars => Inv'
  BY NextKeeps
<1> QED BY <1>1, <1>2, PTL DEF Spec

(* The client, its wires and its backend keep their types.                   *)
THEOREM TypeCorrect == Spec => []TypeOK
<1>1. Inv => TypeOK
  BY DEF Inv
<1> QED BY <1>1, Invariance, PTL

(* An answer taken is the answer to one's own request, unless a callback had *)
(* raised out of an earlier stream: only the stream reader compares ids      *)
(* (client.py:107), and a timed-out stream cannot be read again.             *)
THEOREM AnswersAreOwn == Spec => []AnswerIsOwn
<1>1. Inv => AnswerIsOwn
  BY DEF Inv
<1> QED BY <1>1, Invariance, PTL

(* close() of a stdio client leaves no backend behind, and kills it in the   *)
(* middle of a request only when a stream had been left (client.py:161-173). *)
THEOREM ClosesCleanly == Spec => []CloseIsClean
<1>1. Inv => CloseIsClean
  BY DEF Inv, CloseIsClean, ClientInv, AnyAbandoned
<1> QED BY <1>1, Invariance, PTL

(* rpc_cli's exit code: 0 only with the answer to its request, 1 only when   *)
(* the call failed or closing did (rpc_cli.py:57-117).                        *)
THEOREM CliExitsHonestly == Spec => []CliExitIsHonest
<1>1. Inv => CliExitIsHonest
  <2> SUFFICES ASSUME Inv, cli, calls # <<>>, at \in {"closed", "broken"}
               PROVE  /\ ExitCode = 0 => calls[1].of = 1
                      /\ ExitCode = 1 =>
                           \/ at = "broken"
                           \/ calls[1].end \in {"timeout", "abandoned", "broken"}
                           \/ calls[1].end = "refused" /\ calls[1].of = 1
                           \/ calls[1].end = "empty" /\ ~Running
    BY DEF CliExitIsHonest
  <2>1. calls \in Seq(Call) /\ 1 \in 1..Len(calls)
    BY DEF Inv, TypeOK
  <2>2. calls[1] \in Call
    BY <2>1
  <2>3. calls[1].end \in Ends
    BY <2>2 DEF Call
  <2>4. at \notin Reading /\ calls[1].end # "pending"
    BY <2>1 DEF Inv, CallInv, Reading
  <2>5. calls[1].end # "unexpected" /\ (calls[1].end = "empty" => ~Running)
    BY <2>1 DEF Inv, CallInv
  <2>6. calls[1].end \in {"returned", "refused"} => calls[1].of = 1
    BY <2>1 DEF Inv, AnswerIsOwn
  <2>7. ExitCode = 0 => calls[1].end = "returned"
    BY DEF ExitCode
  <2>8. ExitCode = 1 => at = "broken" \/ calls[1].end # "returned"
    BY DEF ExitCode
  <2> QED BY <2>3, <2>4, <2>5, <2>6, <2>7, <2>8 DEF Ends
<1> QED BY <1>1, Invariance, PTL

=============================================================================
