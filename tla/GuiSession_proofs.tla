--------------------------- MODULE GuiSession_proofs ---------------------------
(***************************************************************************)
(* Theorems about GuiSession for every set of packages, any number of      *)
(* clicks, handlers on top of each other, pings and backends that die.     *)
(***************************************************************************)
EXTENDS GuiSession, FiniteSetTheorems, SequenceTheorems, TLAPS

-----------------------------------------------------------------------------
(* The stack.                                                              *)

\* What TypeOK says of everything but the stack.
RestOK ==
  /\ host \in Hosts /\ port \in {"free"} \union Users
  /\ launches \subseteq Users \X {"stop", "start"}
  /\ ready \in BOOLEAN /\ spawnAttempted \in BOOLEAN /\ useRpc \in BOOLEAN
  /\ elevated \in BOOLEAN /\ items \subseteq Package /\ cursorRunning \in BOOLEAN
  /\ enabled \in BOOLEAN /\ clicks \in Nat /\ raised \subseteq {"show", "apply"}
  /\ adminSeen \in BOOLEAN

LEMMA Types == TypeOK <=> RestOK /\ stack \in Seq(Frames)
BY DEF TypeOK, RestOK

\* Whether an order is as agreed depends on what was shown, skipped and asked only.
LEMMA SameAgreed ==
  ASSUME NEW f, NEW g, g.doing = f.doing, g.asked = f.asked, g.agreed = f.agreed, g.skips = f.skips
  PROVE  AsAgreed(g) <=> AsAgreed(f)
BY DEF AsAgreed, Unheard

\* A job asks for what its handler does.
LEMMA SameJob ==
  ASSUME NEW f
  PROVE  AsAgreed(Job(f)) <=> AsAgreed(f)
<1>1. /\ Job(f).doing = f.doing /\ Job(f).asked = f.asked /\ Job(f).agreed = f.agreed
      /\ Job(f).skips = f.skips
  BY DEF Job
<1> HIDE DEF Job
<1> QED BY <1>1, SameAgreed

\* A step that keeps the invariant, and the promise of an install.
Sound == Inv' /\ [Promise!Next]_(Promise!vars)

LEMMA Stutters ==
  ASSUME UNCHANGED <<Install, jobs>>
  PROVE  [Promise!Next]_(Promise!vars)
BY DEF Promise!vars

\* When no handler installs any more, the install, if there was one, is at its end.
LEMMA InstallEnds ==
  ASSUME ~(stack # <<>> /\ Real(Top))', jobs' = jobs
  PROVE  [Promise!Next]_(Promise!vars)
<1>1. Install' = Promise!None
  BY DEF Install, Promise!None
<1>2. CASE Install = Promise!None
  BY <1>1, <1>2, Stutters
<1>3. CASE Install # Promise!None
  BY <1>1, <1>3 DEF Promise!End, Promise!Next
<1> QED BY <1>2, <1>3

\* The top of a stack.
LEMMA TopFrame ==
  ASSUME Inv, stack # <<>>
  PROVE  /\ Len(stack) \in Nat \ {0} /\ Len(stack) \in 1 .. Len(stack)
         /\ Top = stack[Len(stack)] /\ Top \in Frames /\ FrameInv(Top)
         /\ Top.conn \in {"admin", "running", "done"} => adminSeen
<1>1. stack \in Seq(Frames) /\ Len(stack) \in Nat \ {0}
  BY DEF Inv, TypeOK
<1>2. Len(stack) \in 1 .. Len(stack) /\ stack[Len(stack)] \in Frames
  BY <1>1
<1> QED BY <1>1, <1>2 DEF Inv, StackInv, AdminInv, Top

\* Becoming f leaves the handlers below alone.
LEMMA BecomesTop ==
  ASSUME Inv, stack # <<>>, NEW f \in Frames, Become(f)
  PROVE  /\ stack' \in Seq(Frames) /\ Len(stack') = Len(stack) /\ stack' # <<>> /\ Top' = f
         /\ stack'[Len(stack)] = f
         /\ \A i \in 1 .. Len(stack) : i # Len(stack) => stack'[i] = stack[i]
<1>1. stack \in Seq(Frames) /\ Len(stack) \in Nat \ {0} /\ Len(stack) \in 1 .. Len(stack)
  BY TopFrame DEF Inv, TypeOK
<1>2. stack' = [stack EXCEPT ![Len(stack)] = f]
  BY DEF Become
<1>3. stack' \in Seq(Frames) /\ Len(stack') = Len(stack) /\ stack'[Len(stack)] = f
  BY <1>1, <1>2
<1>4. \A i \in 1 .. Len(stack) : i # Len(stack) => stack'[i] = stack[i]
  BY <1>1, <1>2
<1>5. stack' # <<>>
  BY <1>1, <1>3
<1> QED BY <1>3, <1>4, <1>5 DEF Top

\* A handler moves on.
LEMMA MoveKeeps ==
  ASSUME Inv, stack # <<>>, NEW f \in Frames, FrameInv(f), Become(f), RestOK', jobs' = jobs,
         adminSeen => adminSeen', elevated' \/ port' = "admin" => adminSeen',
         f.conn \in {"admin", "running", "done"} => adminSeen',
         f.at = "choose" \/ Real(f) => elevated',
         f.method = "apply" => ~enabled',
         ~enabled' => f.method = "apply" \/ "apply" \in raised'
  PROVE  Inv'
<1>1. /\ stack' \in Seq(Frames) /\ Len(stack') = Len(stack) /\ stack' # <<>> /\ Top' = f
      /\ stack'[Len(stack)] = f
      /\ \A i \in 1 .. Len(stack) : i # Len(stack) => stack'[i] = stack[i]
  BY BecomesTop
<1>2. Len(stack) \in Nat \ {0}
  BY TopFrame
<1>3. TypeOK'
  BY <1>1, Types DEF TypeOK, RestOK
<1>4. StackInv'
  <2>1. \A i \in 1 .. Len(stack) : FrameInv(stack'[i])
    BY <1>1 DEF Inv, StackInv
  <2>2. \A i \in 1 .. Len(stack) - 1 : stack'[i] = stack[i]
    BY <1>1, <1>2
  <2> QED BY <1>1, <2>1, <2>2 DEF Inv, StackInv
<1>5. AdminInv'
  <2>1. \A i \in 1 .. Len(stack) : stack'[i].conn \in {"admin", "running", "done"} => adminSeen'
    BY <1>1 DEF Inv, AdminInv
  <2> QED BY <1>1, <2>1 DEF AdminInv
<1>6. TopInv'
  BY <1>1 DEF TopInv, Real
<1>7. ChangesAreConfirmed'
  BY DEF Inv, ChangesAreConfirmed
<1> QED BY <1>3, <1>4, <1>5, <1>6, <1>7 DEF Inv

\* A handler ends; the one below, if any, waits on a socket.
LEMMA EndKeeps ==
  ASSUME Inv, stack # <<>>, End, RestOK', jobs' = jobs,
         adminSeen => adminSeen', elevated' \/ port' = "admin" => adminSeen',
         ~enabled' => "apply" \in raised'
  PROVE  Sound
<1> DEFINE n == Len(stack)
<1>1. stack \in Seq(Frames) /\ n \in Nat \ {0}
  BY TopFrame DEF Inv, TypeOK
<1>2. stack' = SubSeq(stack, 1, n - 1)
  BY DEF End
<1>3. stack' \in Seq(Frames) /\ Len(stack') = n - 1 /\ \A i \in 1 .. n - 1 : stack'[i] = stack[i]
  <2>1. \A i \in 1 .. n - 1 : stack[i] \in Frames
    BY <1>1
  <2>2. /\ stack' \in Seq(Frames)
        /\ Len(stack') = IF 1 <= n - 1 THEN n - 1 - 1 + 1 ELSE 0
        /\ \A i \in 1 .. n - 1 - 1 + 1 : stack'[i] = stack[1 + i - 1]
    BY <1>1, <1>2, <2>1, SubSeqProperties
  <2>3. n - 1 - 1 + 1 = n - 1 /\ (~(1 <= n - 1) => n - 1 = 0) /\ \A i \in 1 .. n - 1 : 1 + i - 1 = i
    BY <1>1
  <2>4. \A i \in 1 .. n - 1 : stack'[i] = stack[i]
    BY <2>2, <2>3
  <2> QED BY <2>2, <2>3, <2>4
<1>4. TypeOK'
  BY <1>3 DEF TypeOK, RestOK
<1>5. StackInv'
  <2>1. \A i \in 1 .. n - 1 : i \in 1 .. n
    BY <1>1
  <2>2. \A i \in 1 .. (n - 1) - 1 : i \in 1 .. n - 1
    BY <1>1
  <2> QED BY <1>3, <2>1, <2>2 DEF Inv, StackInv
<1>6. AdminInv'
  <2>1. \A i \in 1 .. n - 1 : i \in 1 .. n
    BY <1>1
  <2> QED BY <1>3, <2>1 DEF Inv, AdminInv
<1>7. stack' # <<>> => Top'.method # "apply" /\ Top'.at \in Waiting
  <2> SUFFICES ASSUME stack' # <<>> PROVE Top'.method # "apply" /\ Top'.at \in Waiting
    OBVIOUS
  <2>1. n - 1 \in 1 .. n - 1
    BY <1>1, <1>3, EmptySeq
  <2>2. Top' = stack[n - 1]
    BY <1>3, <2>1 DEF Top
  <2> QED BY <2>1, <2>2 DEF Inv, StackInv
<1>8. TopInv'
  BY <1>7 DEF TopInv, Real, Waiting
<1>9. ChangesAreConfirmed'
  BY DEF Inv, ChangesAreConfirmed
<1>10. ~(stack # <<>> /\ Real(Top))'
  BY <1>7 DEF Real
<1> QED BY <1>4, <1>5, <1>6, <1>8, <1>9, <1>10, InstallEnds DEF Inv, Sound

\* What happens to backends touches nothing of a handler but its connection.
LEMMA ConnectionsKeep ==
  ASSUME Inv, RestOK', ChangesAreConfirmed', UNCHANGED <<elevated, enabled, raised>>,
         adminSeen => adminSeen', elevated \/ port' = "admin" => adminSeen',
         stack' \in Seq(Frames), Len(stack') = Len(stack),
         \A i \in 1 .. Len(stack) :
           \E c \in {"none", "user", "admin", "running", "done"} :
             /\ stack'[i] = [stack[i] EXCEPT !.conn = c]
             /\ c \in {"admin", "running", "done"} => adminSeen'
             /\ stack[i].conn = "none" => c = "none"
  PROVE  Inv'
<1>1. stack \in Seq(Frames) /\ Len(stack) \in Nat
  BY DEF Inv, TypeOK
<1>2. \A i \in 1 .. Len(stack) : stack[i] \in Frames
  BY <1>1
<1>3. \A i \in 1 .. Len(stack) :
        /\ stack'[i].op = stack[i].op /\ stack'[i].doing = stack[i].doing
        /\ stack'[i].at = stack[i].at /\ stack'[i].method = stack[i].method
        /\ stack'[i].asked = stack[i].asked /\ stack'[i].agreed = stack[i].agreed
        /\ stack'[i].sent = stack[i].sent /\ stack'[i].skips = stack[i].skips
        /\ stack'[i].conn \in {"admin", "running", "done"} => adminSeen'
        /\ stack[i].conn = "none" => stack'[i].conn = "none"
  <2> SUFFICES ASSUME NEW i \in 1 .. Len(stack)
               PROVE  /\ stack'[i].op = stack[i].op /\ stack'[i].doing = stack[i].doing
                      /\ stack'[i].at = stack[i].at /\ stack'[i].method = stack[i].method
                      /\ stack'[i].asked = stack[i].asked /\ stack'[i].agreed = stack[i].agreed
                      /\ stack'[i].sent = stack[i].sent /\ stack'[i].skips = stack[i].skips
                      /\ stack'[i].conn \in {"admin", "running", "done"} => adminSeen'
                      /\ stack[i].conn = "none" => stack'[i].conn = "none"
    OBVIOUS
  <2>1. PICK c \in {"none", "user", "admin", "running", "done"} :
          /\ stack'[i] = [stack[i] EXCEPT !.conn = c]
          /\ c \in {"admin", "running", "done"} => adminSeen'
          /\ stack[i].conn = "none" => c = "none"
    OBVIOUS
  <2>2. stack[i] \in Frames
    BY <1>2
  <2>3. stack'[i].conn = c
    BY <2>1, <2>2 DEF Frames
  <2> QED BY <2>1, <2>2, <2>3 DEF Frames
<1>4. TypeOK'
  BY DEF TypeOK, RestOK
<1>5. StackInv'
  <2>1. ASSUME NEW i \in 1 .. Len(stack) PROVE FrameInv(stack'[i])
    <3>1. FrameInv(stack[i]) /\ (Real(stack'[i]) <=> Real(stack[i]))
      BY <1>3 DEF Inv, StackInv, Real
    <3>2. AsAgreed(stack'[i]) <=> AsAgreed(stack[i])
      BY <1>3, SameAgreed
    <3> QED BY <1>3, <3>1, <3>2 DEF FrameInv
  <2>2. \A i \in 1 .. Len(stack) - 1 : i \in 1 .. Len(stack)
    BY <1>1
  <2>3. \A i \in 1 .. Len(stack) - 1 : stack'[i].method # "apply" /\ stack'[i].at \in Waiting
    BY <1>3, <2>2 DEF Inv, StackInv
  <2> QED BY <2>1, <2>3 DEF StackInv
<1>6. AdminInv'
  BY <1>3 DEF AdminInv
<1>7. TopInv'
  <2>1. CASE stack = <<>>
    <3>1. stack' = <<>>
      BY <2>1, EmptySeq
    <3> QED BY <2>1, <3>1 DEF Inv, TopInv
  <2>2. CASE stack # <<>>
    <3>1. Len(stack) \in 1 .. Len(stack) /\ stack' # <<>>
      BY <1>1, <2>2
    <3>2. Top'.at = Top.at /\ Top'.method = Top.method /\ (Real(Top)' <=> Real(Top))
      BY <1>3, <3>1 DEF Top, Real
    <3> QED BY <2>2, <3>1, <3>2 DEF Inv, TopInv
  <2> QED BY <2>1, <2>2
<1> QED BY <1>4, <1>5, <1>6, <1>7 DEF Inv

\* Nothing happens to the window.
LEMMA StillKeeps ==
  ASSUME Inv, RestOK', ChangesAreConfirmed', UNCHANGED <<stack, elevated, enabled, raised>>,
         adminSeen => adminSeen', elevated \/ port' = "admin" => adminSeen'
  PROVE  Inv'
<1>1. TypeOK'
  BY DEF Inv, TypeOK, RestOK
<1>2. StackInv'
  BY DEF Inv, StackInv
<1>3. AdminInv'
  BY DEF Inv, AdminInv
<1>4. TopInv'
  BY DEF Inv, TopInv, Top, Real
<1> QED BY <1>1, <1>2, <1>3, <1>4 DEF Inv

LEMMA StillSound ==
  ASSUME Inv, RestOK', UNCHANGED <<stack, elevated, enabled, raised, jobs>>,
         adminSeen => adminSeen', elevated \/ port' = "admin" => adminSeen'
  PROVE  Sound
<1>1. ChangesAreConfirmed'
  BY DEF Inv, ChangesAreConfirmed
<1>2. UNCHANGED <<Install, jobs>>
  BY DEF Install, InstallPhase, Top, Real
<1> QED BY <1>1, <1>2, StillKeeps, Stutters DEF Sound

\* A handler that does not apply goes on without applying.
LEMMA PlainMoves ==
  ASSUME Inv, stack # <<>>, Top.method # "apply", NEW g \in Frames, Become(g),
         g.op = Top.op, g.doing = Top.doing, g.agreed = Top.agreed, g.sent = Top.sent,
         g.method # "apply",
         g.doing = "refresh" => g.at \in {"call", "await", "read"} /\ g.method # "request_elevation",
         g.at = "poll" => g.method \in {"detect_os", "request_elevation"},
         g.at = "preview" => g.doing = "preview",
         RestOK', UNCHANGED <<jobs, enabled, raised>>,
         adminSeen => adminSeen', elevated' \/ port' = "admin" => adminSeen',
         g.conn \in {"admin", "running", "done"} => adminSeen', g.at = "choose" => elevated',
         g.at \in {"call", "await"} => g.conn = "none"
  PROVE  Sound
<1>1. FrameInv(Top) /\ ~Real(Top) /\ ~Real(g)
  BY TopFrame DEF Real
<1>2. FrameInv(g)
  BY <1>1 DEF FrameInv
<1>3. ~enabled' => "apply" \in raised'
  BY DEF Inv, TopInv
<1>4. Inv'
  BY <1>1, <1>2, <1>3, MoveKeeps
<1>5. ~(stack # <<>> /\ Real(Top))'
  BY <1>1, BecomesTop DEF Real
<1> QED BY <1>4, <1>5, InstallEnds DEF Sound

\* A frame that waits differently.
LEMMA PollsFrame ==
  ASSUME NEW f \in Frames, NEW n \in Int, NEW g, g = [f EXCEPT !.polls = n]
  PROVE  /\ g \in Frames /\ g.op = f.op /\ g.doing = f.doing /\ g.at = f.at /\ g.method = f.method
         /\ g.asked = f.asked /\ g.agreed = f.agreed /\ g.sent = f.sent /\ g.conn = f.conn
BY DEF Frames

LEMMA GotoFrame ==
  ASSUME Top \in Frames, NEW at \in Waiting \union {"choose", "elevate"}
  PROVE  /\ Goto(at) \in Frames /\ Goto(at).at = at
         /\ Goto(at).op = Top.op /\ Goto(at).doing = Top.doing /\ Goto(at).method = Top.method
         /\ Goto(at).asked = Top.asked /\ Goto(at).agreed = Top.agreed
         /\ Goto(at).sent = Top.sent /\ Goto(at).conn = Top.conn /\ Goto(at).skips = Top.skips
BY DEF Goto, Frames

-----------------------------------------------------------------------------
(* The client.                                                             *)

\* A call goes on: another step of it, on the connection it has or on none.
LEMMA CallMoves ==
  ASSUME Inv, stack # <<>>, Top.at \in {"call", "await"}, NEW g \in Frames, Become(g),
         g.op = Top.op, g.doing = Top.doing, g.method = Top.method, g.asked = Top.asked,
         g.agreed = Top.agreed, g.at \in {"call", "await", "read"},
         g.sent = Top.sent \/ (Real(Top) /\ g.at = "read" /\ g.sent = Top.sent + 1),
         g.skips = Top.skips, g.conn \in {"none", "user", "admin"},
         g.conn = "admin" => adminSeen, g.at # "read" => g.conn = "none",
         RestOK', UNCHANGED <<port, adminSeen, jobs, elevated, enabled, raised>>
  PROVE  Sound
<1>1. FrameInv(Top) /\ (Real(g) <=> Real(Top))
  BY TopFrame DEF Real
<1>2. Top.sent # 0 => Top.doing = "refresh"
  BY <1>1 DEF FrameInv
<1>3. Real(Top) => Top.sent = 0 /\ Top.method = "apply"
  BY <1>1, <1>2 DEF FrameInv, Real
<1>4. Top.sent \in Nat /\ Top.sent <= 1
  BY <1>1, TopFrame DEF FrameInv, Frames
<1>5. g.sent <= 1 /\ (g.sent # 0 => g.doing = "refresh" \/ (g.method = "apply" /\ g.at = "read"))
  BY <1>2, <1>3, <1>4
<1>6. FrameInv(g)
  <2>1. AsAgreed(g) <=> AsAgreed(Top)
    BY SameAgreed
  <2> QED BY <1>1, <1>5, <2>1 DEF FrameInv
<1>7. /\ elevated' \/ port' = "admin" => adminSeen'
      /\ g.at = "choose" \/ Real(g) => elevated'
      /\ g.method = "apply" => ~enabled'
      /\ ~enabled' => g.method = "apply" \/ "apply" \in raised'
  BY <1>1 DEF Inv, AdminInv, TopInv
<1>8. Inv'
  BY <1>6, <1>7, MoveKeeps
<1>9. [Promise!Next]_(Promise!vars)
  <2>1. Top' = g /\ stack' # <<>>
    BY BecomesTop
  <2>2. CASE ~Real(Top)
    <3>1. ~(stack # <<>> /\ Real(Top))'
      BY <1>1, <2>1, <2>2 DEF Real
    <3> QED BY <3>1, InstallEnds
  <2>3. CASE Real(Top)
    <3>1. Install = [phase |-> "confirmed", order |-> Job(Top)]
      BY <2>3 DEF Install, InstallPhase
    <3>2. Install' = [phase |-> InstallPhase', order |-> Job(g)] /\ Job(g) = Job(Top)
      BY <1>1, <2>1, <2>3 DEF Install, Job, Real
    <3>3. InstallPhase' = IF g.at # "read" THEN "confirmed" ELSE IF g.conn = "admin" THEN "sent" ELSE "lost"
      BY <2>1 DEF InstallPhase
    <3>4. CASE InstallPhase' = "confirmed"
      BY <3>1, <3>2, <3>4, Stutters
    <3>5. CASE InstallPhase' = "sent"
      BY <3>1, <3>2, <3>5 DEF Promise!Send, Promise!In, Promise!Becomes, Promise!Next
    <3>6. CASE InstallPhase' = "lost"
      BY <3>1, <3>2, <3>6 DEF Promise!Lose, Promise!In, Promise!Becomes, Promise!Next
    <3> QED BY <3>3, <3>4, <3>5, <3>6
  <2> QED BY <2>2, <2>3
<1> QED BY <1>8, <1>9 DEF Sound

LEMMA ConnectsKeeps ==
  ASSUME Inv, stack # <<>>, Top.at \in {"call", "await"}, Connects,
         RestOK', UNCHANGED <<port, adminSeen, jobs, elevated, enabled, raised>>
  PROVE  Sound
<1> DEFINE f == [Goto("read") EXCEPT !.polls = 0]
           g == [f EXCEPT !.conn = port, !.sent = IF Real(f) THEN @ + 1 ELSE @]
<1>1. Top \in Frames /\ Top.conn = "none"
  BY TopFrame DEF FrameInv
<1>2. /\ f \in Frames /\ f.op = Top.op /\ f.doing = Top.doing /\ f.method = Top.method
      /\ f.asked = Top.asked /\ f.agreed = Top.agreed /\ f.at = "read" /\ f.sent = Top.sent
      /\ f.conn = Top.conn /\ f.skips = Top.skips /\ (Real(f) <=> Real(Top))
  <2>1. "read" \in Waiting /\ 0 \in Int
    BY DEF Waiting
  <2> DEFINE h == Goto("read")
  <2>2. /\ h \in Frames /\ h.at = "read" /\ h.op = Top.op /\ h.doing = Top.doing
        /\ h.method = Top.method /\ h.asked = Top.asked /\ h.agreed = Top.agreed
        /\ h.sent = Top.sent /\ h.conn = Top.conn /\ h.skips = Top.skips
    BY <1>1, <2>1, GotoFrame
  <2>3. f = [h EXCEPT !.polls = 0]
    OBVIOUS
  <2> HIDE DEF f, h
  <2>4. /\ f \in Frames /\ f.op = h.op /\ f.doing = h.doing /\ f.at = h.at /\ f.method = h.method
        /\ f.asked = h.asked /\ f.agreed = h.agreed /\ f.sent = h.sent /\ f.conn = h.conn
        /\ f.skips = h.skips
    BY <2>1, <2>2, <2>3 DEF Frames
  <2> QED BY <2>2, <2>4 DEF Real
<1>3. CASE Become(f)
  <2> HIDE DEF f
  <2> QED BY <1>1, <1>2, <1>3, CallMoves
<1>4. CASE port # "free" /\ Become(g)
  <2>1. port \in Users /\ (port = "admin" => adminSeen)
    BY <1>4 DEF Inv, TypeOK, AdminInv
  <2>2. g.sent = IF Real(f) THEN f.sent + 1 ELSE f.sent
    BY <1>2 DEF Frames
  <2>3. f.sent \in Nat
    BY <1>2 DEF Frames
  <2>4. g.sent \in Nat
    BY <2>2, <2>3
  <2>5. /\ g.op = f.op /\ g.doing = f.doing /\ g.method = f.method /\ g.asked = f.asked
        /\ g.agreed = f.agreed /\ g.at = f.at /\ g.conn = port /\ g.skips = f.skips
    BY <1>2 DEF Frames
  <2>6. g \in Frames
    <3>1. [f EXCEPT !.conn = port] \in Frames
      BY <1>2, <2>1 DEF Frames, Users
    <3>2. f.sent + 1 \in Nat
      BY <2>3
    <3>3. g = [[f EXCEPT !.conn = port] EXCEPT !.sent = IF Real(f) THEN f.sent + 1 ELSE f.sent]
      BY <1>2 DEF Frames
    <3> HIDE DEF f
    <3> QED BY <2>3, <3>1, <3>2, <3>3 DEF Frames
  <2>7. port \in {"user", "admin"}
    BY <2>1 DEF Users
  <2>8. g.sent = Top.sent \/ (Real(Top) /\ g.sent = Top.sent + 1)
    BY <1>2, <2>2
  <2> HIDE DEF g
  <2> QED BY <1>2, <1>4, <2>1, <2>5, <2>6, <2>7, <2>8, CallMoves
<1> QED BY <1>3, <1>4 DEF Connects

\* A frame that makes another call.
LEMMA CallFrame ==
  ASSUME NEW f \in Frames, NEW method \in Methods
  PROVE  /\ Call(f, method) \in Frames /\ Call(f, method).at = "call"
         /\ Call(f, method).method = method /\ Call(f, method).conn = "none"
         /\ Call(f, method).op = f.op /\ Call(f, method).doing = f.doing
         /\ Call(f, method).asked = f.asked /\ Call(f, method).agreed = f.agreed
         /\ Call(f, method).sent = f.sent
<1> DEFINE a == [f EXCEPT !.at = "call"]
           b == [a EXCEPT !.method = method]
           c == [b EXCEPT !.polls = 0]
           d == [c EXCEPT !.conn = "none"]
<1>1. a \in Frames
  BY DEF Frames, Waiting
<1>2. b \in Frames
  BY <1>1 DEF Frames
<1>3. c \in Frames
  <2>1. 0 \in Int /\ c = [b EXCEPT !.polls = 0]
    OBVIOUS
  <2> HIDE DEF b, c
  <2> QED BY <1>2, <2>1, PollsFrame
<1>4. d \in Frames
  BY <1>3 DEF Frames
<1>5. Call(f, method) = d
  BY DEF Call, Frames
<1>6. /\ Call(f, method).at = "call"
      /\ Call(f, method).method = method /\ Call(f, method).conn = "none"
      /\ Call(f, method).op = f.op /\ Call(f, method).doing = f.doing
      /\ Call(f, method).asked = f.asked /\ Call(f, method).agreed = f.agreed
      /\ Call(f, method).sent = f.sent
  BY DEF Call, Frames
<1> QED BY <1>4, <1>5, <1>6

\* A handler that does not apply makes another call.
LEMMA CallsNext ==
  ASSUME Inv, stack # <<>>, Top.method # "apply", NEW method \in Methods \ {"apply"},
         method = "request_elevation" => Top.doing # "refresh", Become(Call(Top, method)),
         RestOK', UNCHANGED <<jobs, enabled, raised>>,
         adminSeen => adminSeen', elevated' \/ port' = "admin" => adminSeen'
  PROVE  Sound
BY TopFrame, CallFrame, PlainMoves

LEMMA EnsuredKeeps ==
  ASSUME Inv, stack # <<>>, Top.at \in {"call", "await"}, Ensured,
         RestOK', UNCHANGED <<port, adminSeen, jobs, elevated, enabled, raised>>
  PROVE  Sound
<1>1. elevated' \/ port' = "admin" => adminSeen'
  BY DEF Inv, AdminInv
<1>2. CASE Top.method = "start" /\ Become(Call(Top, "detect_os"))
  <2>1. "detect_os" \in Methods \ {"apply"}
    BY DEF Methods
  <2> QED BY <1>1, <1>2, <2>1, CallsNext
<1>3. CASE Connects
  BY <1>3, ConnectsKeeps
<1> QED BY <1>2, <1>3 DEF Ensured

LEMMA OneShotKeeps ==
  ASSUME Inv, stack # <<>>, Top.at \in {"call", "await"}, OneShot,
         RestOK', UNCHANGED <<port, adminSeen, jobs, elevated, enabled>>
  PROVE  Sound
<1> DEFINE f == [Goto("read") EXCEPT !.polls = 0]
<1>1. Top \in Frames /\ Top.conn = "none"
  BY TopFrame DEF FrameInv
<1>2. CASE Become(f) /\ UNCHANGED raised
  <2>1. /\ f \in Frames /\ f.op = Top.op /\ f.doing = Top.doing /\ f.method = Top.method
        /\ f.asked = Top.asked /\ f.agreed = Top.agreed /\ f.at = "read" /\ f.sent = Top.sent
        /\ f.conn = Top.conn /\ f.skips = Top.skips
    <3>1. "read" \in Waiting /\ 0 \in Int
      BY DEF Waiting
    <3> DEFINE h == Goto("read")
    <3>2. /\ h \in Frames /\ h.at = "read" /\ h.op = Top.op /\ h.doing = Top.doing
          /\ h.method = Top.method /\ h.asked = Top.asked /\ h.agreed = Top.agreed
          /\ h.sent = Top.sent /\ h.conn = Top.conn /\ h.skips = Top.skips
      BY <1>1, <3>1, GotoFrame
    <3>3. f = [h EXCEPT !.polls = 0]
      OBVIOUS
    <3> HIDE DEF f, h
    <3>4. /\ f \in Frames /\ f.op = h.op /\ f.doing = h.doing /\ f.at = h.at /\ f.method = h.method
          /\ f.asked = h.asked /\ f.agreed = h.agreed /\ f.sent = h.sent /\ f.conn = h.conn
          /\ f.skips = h.skips
      BY <3>1, <3>2, <3>3 DEF Frames
    <3> QED BY <3>2, <3>4
  <2> HIDE DEF f
  <2> QED BY <1>1, <1>2, <2>1, CallMoves
<1>3. CASE /\ End
           /\ raised' = raised \union {end \in {"show", "apply"} :
                                         end = IF Top.op = 0 THEN "show" ELSE Top.method}
  <2>1. Top.method = "apply" => Top.op # 0
    BY TopFrame DEF FrameInv
  <2>2. ~enabled' => "apply" \in raised'
    BY <1>3, <2>1 DEF Inv, TopInv
  <2>3. elevated' \/ port' = "admin" => adminSeen'
    BY DEF Inv, AdminInv
  <2> QED BY <1>3, <2>2, <2>3, EndKeeps
<1> QED BY <1>2, <1>3 DEF OneShot

LEMMA UnsureKeeps ==
  ASSUME Inv, stack # <<>>, Top.at \in {"call", "await"}, Unsure,
         RestOK', UNCHANGED <<port, adminSeen, jobs, elevated, enabled>>
  PROVE  Sound
<1>1. elevated' \/ port' = "admin" => adminSeen'
  BY DEF Inv, AdminInv
<1>2. CASE Top.method = "start" /\ Become(Call(Top, "detect_os")) /\ UNCHANGED raised
  <2>1. "detect_os" \in Methods \ {"apply"}
    BY DEF Methods
  <2> QED BY <1>1, <1>2, <2>1, CallsNext
<1>3. CASE OneShot
  BY <1>3, OneShotKeeps
<1> QED BY <1>2, <1>3 DEF Unsure

\* An error ends show or an apply; raised holds nothing else.
LEMMA RaisedType ==
  ASSUME RestOK, Unsure \/ OneShot
  PROVE  raised' \subseteq {"show", "apply"}
BY DEF RestOK, Unsure, OneShot

LEMMA ClientKeeps ==
  ASSUME Inv, Client
  PROVE  Sound
<1>1. RestOK /\ ChangesAreConfirmed /\ AdminInv
  BY Types DEF Inv
<1>2. CASE CallResumes
  <2>1. /\ UNCHANGED <<host, port, launches, adminSeen, crashes, spawnAttempted, elevated, items,
                        cursorRunning, enabled, clicks, raised, stack, jobs>>
        /\ useRpc' = TRUE /\ ready' = TRUE
    BY <1>2 DEF CallResumes, backendVars, viewVars
  <2>2. RestOK'
    BY <1>1, <2>1 DEF RestOK
  <2> QED BY <1>1, <2>1, <2>2, StillSound DEF ChangesAreConfirmed, AdminInv
<1>3. CASE CallFallsBack
  <2>1. /\ stack # <<>> /\ Top.at = "call" /\ OneShot
        /\ UNCHANGED <<host, port, launches, adminSeen, ready, spawnAttempted, useRpc, elevated, items,
                        cursorRunning, enabled, clicks, jobs>>
    BY <1>3 DEF CallFallsBack, At, backendVars, clientVars, viewVars
  <2>2. RestOK'
    BY <1>1, <2>1, RaisedType DEF RestOK
  <2> QED BY <2>1, <2>2, OneShotKeeps
<1>4. CASE CallOnSocket
  <2>1. /\ stack # <<>> /\ Top.at = "call" /\ Connects
        /\ UNCHANGED <<host, port, launches, adminSeen, ready, spawnAttempted, useRpc, elevated, items,
                        cursorRunning, enabled, clicks, raised, jobs>>
    BY <1>4 DEF CallOnSocket, At, OnlyStack, backendVars, clientVars, viewVars
  <2>2. RestOK'
    BY <1>1, <2>1 DEF RestOK
  <2> QED BY <2>1, <2>2, ConnectsKeeps
<1>5. CASE EnsureReady
  <2>1. /\ stack # <<>> /\ Top.at = "call" /\ Ensured
        /\ ready' \in BOOLEAN /\ useRpc' \in BOOLEAN
        /\ UNCHANGED <<host, port, launches, adminSeen, spawnAttempted, elevated, items,
                        cursorRunning, enabled, clicks, raised, jobs>>
    BY <1>1, <1>5 DEF EnsureReady, At, backendVars, viewVars, RestOK
  <2>2. RestOK'
    BY <1>1, <2>1 DEF RestOK
  <2> QED BY <2>1, <2>2, EnsuredKeeps
<1>6. CASE EnsureSpawns
  <2> DEFINE g == [Goto("await") EXCEPT !.polls = Polls]
  <2>1. /\ stack # <<>> /\ Top.at = "call" /\ Become(g)
        /\ launches' = launches \union Spawned /\ spawnAttempted' = TRUE
        /\ UNCHANGED <<host, port, adminSeen, ready, useRpc, elevated, items,
                        cursorRunning, enabled, clicks, raised, jobs>>
    BY <1>6 DEF EnsureSpawns, At, viewVars
  <2>2. RestOK'
    <3>1. Spawned \subseteq Users \X {"stop", "start"}
      BY DEF Spawned, Users
    <3> QED BY <1>1, <2>1, <3>1 DEF RestOK
  <2>3. Polls \in Int /\ Top \in Frames /\ Top.conn = "none"
    BY <2>1, BoundAssumption, TopFrame DEF FrameInv
  <2>4. /\ g \in Frames /\ g.op = Top.op /\ g.doing = Top.doing /\ g.method = Top.method
        /\ g.asked = Top.asked /\ g.agreed = Top.agreed /\ g.at = "await" /\ g.sent = Top.sent
        /\ g.conn = Top.conn /\ g.skips = Top.skips
    BY <2>3 DEF Goto, Frames, Waiting
  <2> HIDE DEF g
  <2> QED BY <2>1, <2>2, <2>3, <2>4, CallMoves
<1>7. CASE EnsureFails
  <2>1. /\ stack # <<>> /\ Top.at = "call" /\ Unsure /\ useRpc' \in BOOLEAN
        /\ UNCHANGED <<host, port, launches, adminSeen, ready, spawnAttempted, elevated, items,
                        cursorRunning, enabled, clicks, jobs>>
    BY <1>7 DEF EnsureFails, At, backendVars, viewVars
  <2>2. RestOK'
    BY <1>1, <2>1, RaisedType DEF RestOK
  <2> QED BY <2>1, <2>2, UnsureKeeps
<1>8. CASE BackendCame
  <2>1. /\ stack # <<>> /\ Top.at = "await" /\ Ensured /\ ready' = TRUE /\ useRpc' = TRUE
        /\ UNCHANGED <<host, port, launches, adminSeen, spawnAttempted, elevated, items,
                        cursorRunning, enabled, clicks, raised, jobs>>
    BY <1>8 DEF BackendCame, At, backendVars, viewVars
  <2>2. RestOK'
    BY <1>1, <2>1 DEF RestOK
  <2> QED BY <2>1, <2>2, EnsuredKeeps
<1>9. CASE BackendStaysAway
  <2> DEFINE g == [Top EXCEPT !.polls = @ - 1]
  <2>1. /\ stack # <<>> /\ Top.at = "await"
        /\ UNCHANGED <<host, port, launches, adminSeen, ready, spawnAttempted, elevated, items,
                        cursorRunning, enabled, clicks, jobs>>
    BY <1>9 DEF BackendStaysAway, At, backendVars, viewVars
  <2>2. CASE Become(g) /\ UNCHANGED <<useRpc, raised>>
    <3>1. RestOK'
      BY <1>1, <2>1, <2>2 DEF RestOK
    <3>2. Top \in Frames /\ Top.conn = "none"
      BY <2>1, TopFrame DEF FrameInv
    <3>3. Top.polls - 1 \in Int
      BY <3>2 DEF Frames
    <3>4. /\ g \in Frames /\ g.op = Top.op /\ g.doing = Top.doing /\ g.method = Top.method
          /\ g.asked = Top.asked /\ g.agreed = Top.agreed /\ g.at = "await" /\ g.sent = Top.sent
          /\ g.conn = Top.conn /\ g.skips = Top.skips
      BY <2>1, <3>2, <3>3 DEF Frames
    <3> HIDE DEF g
    <3> QED BY <2>1, <2>2, <3>1, <3>2, <3>4, CallMoves
  <2>3. CASE Unsure /\ useRpc' = FALSE
    <3>1. RestOK'
      BY <1>1, <2>1, <2>3, RaisedType DEF RestOK
    <3> QED BY <2>1, <2>3, <3>1, UnsureKeeps
  <2> QED BY <1>9, <2>2, <2>3 DEF BackendStaysAway
<1> QED BY <1>2, <1>3, <1>4, <1>5, <1>6, <1>7, <1>8, <1>9 DEF Client

-----------------------------------------------------------------------------
(* The window.                                                             *)

\* A handler that does not apply ends.
LEMMA PlainEnds ==
  ASSUME Inv, stack # <<>>, Top.method # "apply", End, RestOK', UNCHANGED <<jobs, enabled, raised>>,
         adminSeen => adminSeen', elevated' \/ port' = "admin" => adminSeen'
  PROVE  Sound
<1>1. ~enabled' => "apply" \in raised'
  BY DEF Inv, TopInv
<1> QED BY <1>1, EndKeeps

\* The frame that waits for an elevated backend.
LEMMA PollFrame ==
  ASSUME Top \in Frames, NEW method \in Methods, NEW g,
         g = [Goto("poll") EXCEPT !.polls = Polls, !.method = method, !.conn = "none"]
  PROVE  /\ g \in Frames /\ g.at = "poll" /\ g.method = method /\ g.conn = "none"
         /\ g.op = Top.op /\ g.doing = Top.doing /\ g.agreed = Top.agreed /\ g.sent = Top.sent
<1> DEFINE h == Goto("poll")
<1>1. "poll" \in Waiting /\ Polls \in Int
  BY BoundAssumption DEF Waiting
<1>2. h \in Frames /\ h.at = "poll" /\ h.op = Top.op /\ h.doing = Top.doing
      /\ h.agreed = Top.agreed /\ h.sent = Top.sent
  BY <1>1, GotoFrame
<1>3. g = [h EXCEPT !.polls = Polls, !.method = method, !.conn = "none"]
  OBVIOUS
<1> HIDE DEF h
<1> DEFINE a == [h EXCEPT !.polls = Polls]
           b == [a EXCEPT !.method = method]
           c == [b EXCEPT !.conn = "none"]
<1>4. a \in Frames
  BY <1>1, <1>2 DEF Frames
<1>5. b \in Frames
  BY <1>4 DEF Frames
<1>6. c \in Frames
  BY <1>5 DEF Frames
<1>7. g = c
  BY <1>2, <1>3 DEF Frames
<1>8. /\ g.at = "poll" /\ g.method = method /\ g.conn = "none"
      /\ g.op = h.op /\ g.doing = h.doing /\ g.agreed = h.agreed /\ g.sent = h.sent
  BY <1>2, <1>3 DEF Frames
<1> QED BY <1>2, <1>6, <1>7, <1>8

\* The frame that shows the boxes of an install.
LEMMA ChooseFrame ==
  ASSUME Top \in Frames, NEW g, g = [Goto("choose") EXCEPT !.polls = 0, !.conn = "none"]
  PROVE  /\ g \in Frames /\ g.at = "choose" /\ g.method = Top.method /\ g.conn = "none"
         /\ g.op = Top.op /\ g.doing = Top.doing /\ g.agreed = Top.agreed /\ g.sent = Top.sent
<1> DEFINE h == Goto("choose")
<1>1. h \in Frames /\ h.at = "choose" /\ h.op = Top.op /\ h.doing = Top.doing /\ h.method = Top.method
      /\ h.agreed = Top.agreed /\ h.sent = Top.sent
  BY GotoFrame
<1>2. g = [h EXCEPT !.polls = 0, !.conn = "none"] /\ 0 \in Int
  OBVIOUS
<1> HIDE DEF h
<1>3. g \in Frames
  BY <1>1, <1>2 DEF Frames
<1>4. /\ g.at = h.at /\ g.method = h.method /\ g.conn = "none"
      /\ g.op = h.op /\ g.doing = h.doing /\ g.agreed = h.agreed /\ g.sent = h.sent
  BY <1>1, <1>2 DEF Frames
<1> QED BY <1>1, <1>3, <1>4

LEMMA WaitKeeps ==
  ASSUME Inv, stack # <<>>, Top.method # "apply", Top.doing # "refresh",
         NEW method \in {"detect_os", "request_elevation"},
         Become([Goto("poll") EXCEPT !.polls = Polls, !.method = method, !.conn = "none"]),
         RestOK', UNCHANGED <<port, adminSeen, elevated, jobs, enabled, raised>>
  PROVE  Sound
<1> DEFINE g == [Goto("poll") EXCEPT !.polls = Polls, !.method = method, !.conn = "none"]
<1>1. Top \in Frames
  BY TopFrame
<1>2. method \in Methods
  BY DEF Methods
<1>3. /\ g \in Frames /\ g.at = "poll" /\ g.method = method /\ g.conn = "none"
      /\ g.op = Top.op /\ g.doing = Top.doing /\ g.agreed = Top.agreed /\ g.sent = Top.sent
  BY <1>1, <1>2, PollFrame
<1>4. elevated' \/ port' = "admin" => adminSeen'
  BY DEF Inv, AdminInv
<1>5. Become(g)
  OBVIOUS
<1> HIDE DEF g
<1> QED BY <1>3, <1>4, <1>5, PlainMoves

LEMMA AfterElevationKeeps ==
  ASSUME Inv, stack # <<>>, Top.method # "apply", NEW yes \in BOOLEAN, AfterElevation(yes),
         yes => elevated', RestOK', UNCHANGED <<jobs, enabled, raised>>,
         adminSeen => adminSeen', elevated' \/ port' = "admin" => adminSeen'
  PROVE  Sound
<1>1. CASE End
  BY <1>1, PlainEnds
<1>2. CASE /\ Top.doing \in Updates /\ yes
           /\ Become([Goto("choose") EXCEPT !.polls = 0, !.conn = "none"])
  <2> DEFINE g == [Goto("choose") EXCEPT !.polls = 0, !.conn = "none"]
  <2>1. Top \in Frames
    BY TopFrame
  <2>2. /\ g \in Frames /\ g.at = "choose" /\ g.method = Top.method /\ g.conn = "none"
        /\ g.op = Top.op /\ g.doing = Top.doing /\ g.agreed = Top.agreed /\ g.sent = Top.sent
    BY <2>1, ChooseFrame
  <2>3. Top.doing # "refresh"
    BY <1>2 DEF Updates
  <2>4. Become(g)
    BY <1>2
  <2> HIDE DEF g
  <2> QED BY <1>2, <2>2, <2>3, <2>4, PlainMoves
<1> QED BY <1>1, <1>2 DEF AfterElevation

LEMMA RefreshKeeps ==
  ASSUME Inv, RefreshOs \/ RefreshSources \/ RefreshUpdates
  PROVE  Sound
<1>1. RestOK /\ AdminInv
  BY Types DEF Inv
<1>2. CASE RefreshOs
  <2>1. /\ stack # <<>> /\ Top.method = "detect_os"
        /\ UNCHANGED <<host, port, launches, adminSeen, ready, spawnAttempted, useRpc, items,
                        cursorRunning, enabled, clicks, raised, jobs>>
    BY <1>2 DEF RefreshOs, Answered, Unanswered, At, backendVars, clientVars
  <2>2. CASE elevated' = (Top.conn = "admin") /\ Become(Call(Top, "list_sources"))
    <3>1. Top.conn = "admin" => adminSeen
      BY <2>1, TopFrame
    <3>2. RestOK'
      BY <1>1, <2>1, <2>2 DEF RestOK
    <3>3. "list_sources" \in Methods \ {"apply"}
      BY DEF Methods
    <3> QED BY <1>1, <2>1, <2>2, <3>1, <3>2, <3>3, CallsNext DEF AdminInv
  <2>3. CASE End /\ UNCHANGED elevated
    <3>1. RestOK'
      BY <1>1, <2>1, <2>3 DEF RestOK
    <3> QED BY <1>1, <2>1, <2>3, <3>1, PlainEnds DEF AdminInv
  <2> QED BY <1>2, <2>2, <2>3 DEF RefreshOs
<1>3. CASE RefreshSources
  <2>1. /\ stack # <<>> /\ Top.method = "list_sources" /\ Become(Call(Top, "check_updates"))
        /\ UNCHANGED <<host, port, launches, adminSeen, ready, spawnAttempted, useRpc, elevated, items,
                        cursorRunning, enabled, clicks, raised, jobs>>
    BY <1>3 DEF RefreshSources, Answered, Unanswered, At, OnlyStack, backendVars, clientVars, viewVars
  <2>2. RestOK' /\ "check_updates" \in Methods \ {"apply"}
    BY <1>1, <2>1 DEF RestOK, Methods
  <2> QED BY <1>1, <2>1, <2>2, CallsNext DEF AdminInv
<1>4. CASE RefreshUpdates
  <2>1. /\ stack # <<>> /\ Top.method = "check_updates" /\ End
        /\ items' \subseteq Package /\ cursorRunning' \in BOOLEAN
        /\ UNCHANGED <<host, port, launches, adminSeen, ready, spawnAttempted, useRpc, elevated,
                        enabled, clicks, raised, jobs>>
    BY <1>4 DEF RefreshUpdates, Answered, Unanswered, At, backendVars, clientVars
  <2>2. RestOK'
    BY <1>1, <2>1 DEF RestOK
  <2> QED BY <1>1, <2>1, <2>2, PlainEnds DEF AdminInv
<1> QED BY <1>2, <1>3, <1>4

LEMMA ElevationKeeps ==
  ASSUME Inv, CheckElevated \/ RequestElevation \/ PollSucceeds \/ PollFails \/ ElevationAnswered
  PROVE  Sound
<1>1. RestOK /\ AdminInv
  BY Types DEF Inv
<1>2. ASSUME stack # <<>>
      PROVE  /\ Top.at \in {"check", "elevate", "poll"} => Top.method # "apply" /\ Top.doing # "refresh"
             /\ Top.method = "request_elevation" => Top.method # "apply" /\ Top.doing # "refresh"
             /\ Top \in Frames /\ (Top.conn \in {"admin", "running", "done"} => adminSeen)
  BY <1>2, TopFrame DEF FrameInv
<1>3. CASE CheckElevated
  <2>1. /\ stack # <<>> /\ Top.at = "check"
        /\ UNCHANGED <<host, port, launches, adminSeen, ready, spawnAttempted, useRpc, elevated, items,
                        cursorRunning, enabled, clicks, raised, jobs>>
    BY <1>3 DEF CheckElevated, At, OnlyStack, backendVars, clientVars, viewVars
  <2>2. RestOK'
    BY <1>1, <2>1 DEF RestOK
  <2>3. ASSUME NEW at \in {"choose", "elevate"}, at = "choose" => elevated, Become(Goto(at))
        PROVE  Sound
    <3> DEFINE g == Goto(at)
    <3>1. /\ g \in Frames /\ g.at = at /\ g.op = Top.op /\ g.doing = Top.doing /\ g.method = Top.method
          /\ g.agreed = Top.agreed /\ g.sent = Top.sent /\ g.conn = Top.conn
      BY <1>2, <2>1, GotoFrame
    <3>2. Become(g)
      BY <2>3
    <3> HIDE DEF g
    <3> QED BY <1>1, <1>2, <2>1, <2>2, <2>3, <3>1, <3>2, PlainMoves DEF AdminInv
  <2>4. CASE elevated /\ Become(Goto("choose"))
    BY <2>3, <2>4
  <2>5. CASE Become(Goto("elevate"))
    BY <2>3, <2>5
  <2>6. CASE End
    BY <1>1, <1>2, <2>1, <2>2, <2>6, PlainEnds DEF AdminInv
  <2> QED BY <1>3, <2>4, <2>5, <2>6 DEF CheckElevated
<1>4. CASE RequestElevation
  <2>1. /\ stack # <<>> /\ Top.at = "elevate"
        /\ UNCHANGED <<host, port, adminSeen, elevated, items, cursorRunning, enabled, clicks, raised, jobs>>
    BY <1>4 DEF RequestElevation, At, viewVars
  <2>2. CASE launches' = launches \union {<<"admin", "stop">>} /\ WaitForElevated("detect_os")
    <3>1. RestOK'
      <4>1. launches' \subseteq Users \X {"stop", "start"}
        BY <1>1, <2>2 DEF RestOK, Users
      <4> QED BY <1>1, <2>1, <2>2, <4>1 DEF RestOK, WaitForElevated
    <3> QED BY <1>2, <2>1, <2>2, <3>1, WaitKeeps DEF WaitForElevated
  <2>3. CASE Become(Call(Top, "request_elevation")) /\ UNCHANGED <<launches, clientVars>>
    <3>1. RestOK' /\ "request_elevation" \in Methods \ {"apply"}
      BY <1>1, <2>1, <2>3 DEF RestOK, Methods, clientVars
    <3> QED BY <1>1, <1>2, <2>1, <2>3, <3>1, CallsNext DEF AdminInv
  <2> QED BY <1>4, <2>2, <2>3 DEF RequestElevation
<1>5. CASE PollSucceeds
  <2>1. /\ stack # <<>> /\ Top.at = "poll" /\ port = "admin" /\ elevated' = TRUE /\ AfterElevation(TRUE)
        /\ UNCHANGED <<host, port, launches, adminSeen, ready, spawnAttempted, useRpc, items,
                        cursorRunning, enabled, clicks, raised, jobs>>
    BY <1>5 DEF PollSucceeds, At, backendVars, clientVars
  <2>2. RestOK'
    BY <1>1, <2>1 DEF RestOK
  <2> QED BY <1>1, <1>2, <2>1, <2>2, AfterElevationKeeps DEF AdminInv
<1>6. CASE PollFails
  <2> DEFINE g == [Top EXCEPT !.polls = @ - 1]
  <2>1. /\ stack # <<>> /\ Top.at = "poll"
        /\ UNCHANGED <<host, port, launches, adminSeen, ready, spawnAttempted, useRpc, elevated, items,
                        cursorRunning, enabled, clicks, raised, jobs>>
    BY <1>6 DEF PollFails, At, OnlyStack, backendVars, clientVars, viewVars
  <2>2. RestOK'
    BY <1>1, <2>1 DEF RestOK
  <2>3. CASE Become(g)
    <3>1. Top.polls - 1 \in Int
      BY <1>2, <2>1 DEF Frames
    <3>2. /\ g \in Frames /\ g.op = Top.op /\ g.doing = Top.doing /\ g.method = Top.method
          /\ g.agreed = Top.agreed /\ g.at = "poll" /\ g.sent = Top.sent /\ g.conn = Top.conn
      BY <1>2, <2>1, <3>1 DEF Frames
    <3>3. g.method \in {"detect_os", "request_elevation"}
      BY <2>1, <3>2, TopFrame DEF FrameInv
    <3> HIDE DEF g
    <3> QED BY <1>1, <1>2, <2>1, <2>2, <2>3, <3>2, <3>3, PlainMoves DEF AdminInv
  <2>4. CASE Become(Call(Top, "request_elevation"))
    <3>1. "request_elevation" \in Methods \ {"apply"}
      BY DEF Methods
    <3> QED BY <1>1, <1>2, <2>1, <2>2, <2>4, <3>1, CallsNext DEF AdminInv
  <2>5. CASE AfterElevation(elevated)
    <3>1. elevated \in BOOLEAN
      BY <1>1 DEF RestOK
    <3> QED BY <1>1, <1>2, <2>1, <2>2, <2>5, <3>1, AfterElevationKeeps DEF AdminInv
  <2> QED BY <1>6, <2>3, <2>4, <2>5 DEF PollFails
<1>7. CASE ElevationAnswered
  <2>1. /\ stack # <<>> /\ Top.method = "request_elevation"
        /\ UNCHANGED <<host, port, launches, adminSeen, items, cursorRunning, enabled, clicks, raised, jobs>>
    BY <1>7 DEF ElevationAnswered, Answered, Unanswered, At, backendVars
  <2>2. CASE /\ Top.conn = "admin" /\ elevated' = TRUE /\ AfterElevation(TRUE)
             /\ UNCHANGED clientVars
    <3>1. RestOK'
      BY <1>1, <2>1, <2>2 DEF RestOK, clientVars
    <3> QED BY <1>1, <1>2, <2>1, <2>2, <3>1, AfterElevationKeeps DEF AdminInv
  <2>3. CASE WaitForElevated("request_elevation") /\ UNCHANGED elevated
    <3>1. RestOK'
      BY <1>1, <2>1, <2>3 DEF RestOK, WaitForElevated
    <3> QED BY <1>2, <2>1, <2>3, <3>1, WaitKeeps DEF WaitForElevated
  <2> QED BY <1>7, <2>2, <2>3 DEF ElevationAnswered
<1> QED BY <1>3, <1>4, <1>5, <1>6, <1>7

\* The user confirmed what is asked for, or skipped a Cursor that update_selected sends.
LEMMA ConfirmKeeps ==
  ASSUME Inv, stack # <<>>, Top.at = "choose", Top.doing \in Updates,
         NEW shown \in SUBSET Package, NEW skips \in BOOLEAN, NEW asked \in SUBSET Package,
         Confirm(shown, skips, asked), Agreed(shown, skips) \subseteq asked,
         asked \subseteq Agreed(shown, skips) \union
                         IF skips /\ Top.doing = "update_selected" THEN {Cursor} ELSE {}
  PROVE  Sound
<1> DEFINE h == Applies(Top)
           scope == Agreed(shown, skips)
           g == [h EXCEPT !.asked = asked, !.agreed = @ \union {scope}, !.skips = skips]
<1>1. RestOK /\ AdminInv /\ elevated
  BY Types DEF Inv, TopInv
<1>2. Top \in Frames /\ FrameInv(Top) /\ "apply" \in Methods
  BY TopFrame DEF Methods
<1>3. Top.method # "apply" /\ Top.agreed = {} /\ Top.sent = 0 /\ Top.op # 0
  BY <1>2 DEF FrameInv, Real, Updates
<1>4. /\ h \in Frames /\ h.at = "call" /\ h.method = "apply" /\ h.conn = "none" /\ h.op = Top.op
      /\ h.doing = Top.doing /\ h.agreed = {} /\ h.sent = 0
  BY <1>2, <1>3, CallFrame DEF Applies
<1>5. /\ enabled' = FALSE /\ Become(g)
      /\ UNCHANGED <<host, port, launches, adminSeen, ready, spawnAttempted, useRpc, elevated, items,
                      cursorRunning, clicks, raised, jobs>>
  BY DEF Confirm, backendVars, clientVars, viewVars
<1>6. RestOK'
  BY <1>1, <1>5 DEF RestOK
<1>18. scope \in SUBSET Package
  BY DEF Agreed
<1> HIDE DEF h, scope
<1> DEFINE a == [h EXCEPT !.asked = asked]
           b == [a EXCEPT !.agreed = {scope}]
           c == [b EXCEPT !.skips = skips]
<1>7. a \in Frames
  BY <1>4 DEF Frames
<1>8. {scope} \subseteq SUBSET Package
  BY <1>18
<1>9. b \in Frames
  BY <1>7, <1>8 DEF Frames
<1>10. c \in Frames
  BY <1>9 DEF Frames
<1>11. g = [h EXCEPT !.asked = asked, !.agreed = {scope}, !.skips = skips]
  BY <1>4 DEF Frames
<1>12. g = c
  BY <1>4, <1>11 DEF Frames
<1>13. /\ g.op = h.op /\ g.doing = h.doing /\ g.at = "call" /\ g.method = "apply" /\ g.conn = "none"
       /\ g.asked = asked /\ g.agreed = {scope} /\ g.sent = 0
  BY <1>4, <1>11 DEF Frames
<1>14. g \in Frames /\ g.skips = skips
  <2>1. g.skips = skips
    BY <1>4, <1>11 DEF Frames
  <2> QED BY <1>10, <1>12, <2>1
<1> HIDE DEF g
<1>19. AsAgreed(g)
  <2>1. scope \subseteq asked /\ asked \subseteq scope \union Unheard(g)
    BY <1>4, <1>13, <1>14 DEF Unheard, scope
  <2> QED BY <1>13, <1>18, <2>1 DEF AsAgreed
<1>15. FrameInv(g)
  BY <1>2, <1>3, <1>4, <1>13, <1>19 DEF FrameInv, Real, Updates
<1>16. Inv'
  BY <1>1, <1>5, <1>6, <1>13, <1>14, <1>15, MoveKeeps DEF AdminInv
<1>17. Promise!Confirm
  <2>1. Install = Promise!None
    BY <1>3 DEF Install, Real, Promise!None
  <2>2. Top' = g /\ stack' # <<>>
    BY <1>5, <1>14, BecomesTop
  <2>3. Real(Top)'
    BY <1>3, <1>4, <1>13, <2>2 DEF Real, Updates
  <2>4. Install' = [phase |-> "confirmed", order |-> Job(g)]
    BY <1>13, <2>2, <2>3 DEF Install, InstallPhase, Job
  <2>5. /\ Job(g) = [op |-> g.op, doing |-> g.doing, asked |-> asked, agreed |-> {scope},
                     skips |-> skips]
        /\ g.op \in Nat /\ g.doing \in Buttons
    BY <1>13, <1>14 DEF Job, Frames
  <2>6. AsAgreed(Job(g))
    BY <1>19, SameJob
  <2>7. Job(g) \in Confirmable
    BY <1>8, <2>5, <2>6 DEF Confirmable
  <2> QED BY <1>5, <2>1, <2>4, <2>7 DEF Promise!Confirm
<1> QED BY <1>16, <1>17 DEF Sound, Promise!Next

LEMMA ApplyKeeps ==
  ASSUME Inv, \/ Preview \/ Cancel \/ \E checked \in SUBSET items : UpdateSelected(checked)
              \/ UpdateAll \/ UpdateCursor \/ ApplyFails \/ ApplySucceeds
  PROVE  Sound
<1>1. RestOK /\ AdminInv
  BY Types DEF Inv
<1>2. CASE Preview
  <2> DEFINE f == Call(Top, "apply")
  <2>1. /\ stack # <<>> /\ Top.at = "preview" /\ enabled' = FALSE /\ Become(f)
        /\ UNCHANGED <<host, port, launches, adminSeen, ready, spawnAttempted, useRpc, elevated, items,
                        cursorRunning, clicks, raised, jobs>>
    BY <1>2 DEF Preview, Applies, At, backendVars, clientVars, viewVars
  <2>2. RestOK'
    BY <1>1, <2>1 DEF RestOK
  <2>3. Top \in Frames /\ FrameInv(Top) /\ "apply" \in Methods
    BY <2>1, TopFrame DEF Methods
  <2>4. Top.doing = "preview" /\ Top.agreed = {} /\ Top.sent = 0 /\ Top.op # 0
    BY <2>1, <2>3 DEF FrameInv, Real
  <2>5. /\ f \in Frames /\ f.at = "call" /\ f.method = "apply" /\ f.conn = "none" /\ f.op = Top.op
        /\ f.doing = Top.doing /\ f.agreed = Top.agreed /\ f.sent = Top.sent
    BY <2>3, CallFrame
  <2> HIDE DEF f
  <2>6. FrameInv(f) /\ ~Real(f)
    BY <2>4, <2>5 DEF FrameInv, Real
  <2>7. Inv'
    BY <1>1, <2>1, <2>2, <2>5, <2>6, MoveKeeps DEF AdminInv
  <2>8. ~(stack # <<>> /\ Real(Top))'
    BY <2>1, <2>5, <2>6, BecomesTop DEF Real
  <2> QED BY <2>1, <2>7, <2>8, InstallEnds DEF Sound
<1>3. CASE Cancel
  <2>1. /\ stack # <<>> /\ Top.at = "choose" /\ End
        /\ UNCHANGED <<host, port, launches, adminSeen, ready, spawnAttempted, useRpc, elevated, items,
                        cursorRunning, enabled, clicks, raised, jobs>>
    BY <1>3 DEF Cancel, At, OnlyStack, backendVars, clientVars, viewVars
  <2>2. RestOK'
    BY <1>1, <2>1 DEF RestOK
  <2>3. Top.method # "apply"
    BY <2>1, TopFrame DEF FrameInv
  <2> QED BY <1>1, <2>1, <2>2, <2>3, PlainEnds DEF AdminInv
<1>4. ASSUME NEW checked \in SUBSET items, UpdateSelected(checked) PROVE Sound
  <2> DEFINE skips == CursorGate /\ Cursor \in checked
  <2>1. /\ stack # <<>> /\ Top.at = "choose" /\ Top.doing = "update_selected"
        /\ Top.doing \in Updates /\ Confirm(checked, skips, checked)
    BY <1>4 DEF UpdateSelected, At, Updates
  <2>2. checked \in SUBSET Package /\ skips \in BOOLEAN
    BY <1>1 DEF RestOK
  <2> HIDE DEF skips
  <2>3. /\ Agreed(checked, skips) \subseteq checked
        /\ checked \subseteq Agreed(checked, skips) \union
                         IF skips /\ Top.doing = "update_selected" THEN {Cursor} ELSE {}
    BY <2>1 DEF Agreed
  <2> QED BY <2>1, <2>2, <2>3, ConfirmKeeps
<1>5. CASE UpdateAll
  <2> DEFINE scope == Package \ (IF CursorGate THEN {Cursor} ELSE {})
  <2>1. /\ stack # <<>> /\ Top.at = "choose" /\ Top.doing \in Updates
        /\ Confirm(Package, CursorGate, scope)
    BY <1>5 DEF UpdateAll, At, Updates
  <2>2. Package \in SUBSET Package /\ scope \in SUBSET Package /\ CursorGate \in BOOLEAN
    BY <1>1 DEF RestOK, CursorGate
  <2>3. Agreed(Package, CursorGate) = scope
    BY DEF Agreed
  <2> HIDE DEF scope
  <2>4. /\ Agreed(Package, CursorGate) \subseteq scope
        /\ scope \subseteq Agreed(Package, CursorGate) \union
                       IF CursorGate /\ Top.doing = "update_selected" THEN {Cursor} ELSE {}
    BY <2>3
  <2> QED BY <2>1, <2>2, <2>4, ConfirmKeeps
<1>6. CASE UpdateCursor
  <2>1. /\ stack # <<>> /\ Top.at = "choose" /\ Top.doing \in Updates
        /\ Confirm({Cursor}, FALSE, {Cursor})
    BY <1>6 DEF UpdateCursor, At, Updates
  <2>2. {Cursor} \in SUBSET Package /\ FALSE \in BOOLEAN
    BY PackageAssumption
  <2>3. Agreed({Cursor}, FALSE) = {Cursor}
    BY DEF Agreed
  <2> QED BY <2>1, <2>2, <2>3, ConfirmKeeps
<1>7. CASE ApplyFails
  <2>1. /\ stack # <<>> /\ End /\ enabled' = TRUE
        /\ UNCHANGED <<host, port, launches, adminSeen, ready, spawnAttempted, useRpc, elevated, items,
                        cursorRunning, clicks, raised, jobs>>
    BY <1>7 DEF ApplyFails, Unanswered, At, backendVars, clientVars, viewVars
  <2>2. RestOK'
    BY <1>1, <2>1 DEF RestOK
  <2> QED BY <1>1, <2>1, <2>2, EndKeeps DEF AdminInv
<1>8. CASE ApplySucceeds
  <2> DEFINE h == Frame(Top.op, "refresh", "call", "detect_os")
             g == [h EXCEPT !.sent = Top.sent]
  <2>1. /\ stack # <<>> /\ enabled' = TRUE /\ (End \/ Become(g))
        /\ UNCHANGED <<host, port, launches, adminSeen, ready, spawnAttempted, useRpc, elevated, items,
                        cursorRunning, clicks, raised, jobs>>
    BY <1>8 DEF ApplySucceeds, Answered, At, backendVars, clientVars, viewVars
  <2>2. RestOK'
    BY <1>1, <2>1 DEF RestOK
  <2>3. CASE End
    BY <1>1, <2>1, <2>2, <2>3, EndKeeps DEF AdminInv
  <2>4. CASE Become(g)
    <3>1. Top.op \in Nat /\ Top.sent \in Nat /\ Top.sent <= 1
      BY <2>1, TopFrame DEF Frames, FrameInv
    <3>2. /\ g.op = Top.op /\ g.doing = "refresh" /\ g.at = "call" /\ g.method = "detect_os"
          /\ g.polls = 0 /\ g.conn = "none" /\ g.asked = {} /\ g.agreed = {} /\ g.skips = FALSE
          /\ g.sent = Top.sent
      BY DEF Frame
    <3>3. g \in Frames
      <4>1. "refresh" \in Buttons /\ "detect_os" \in Methods /\ "call" \in Waiting /\ 0 \in Int
        BY DEF Buttons, Methods, Waiting
      <4> QED BY <3>1, <4>1 DEF Frame, Frames
    <3> HIDE DEF g
    <3>4. FrameInv(g) /\ ~Real(g)
      BY <3>1, <3>2 DEF FrameInv, Real
    <3>5. Inv'
      BY <1>1, <2>1, <2>2, <2>4, <3>2, <3>3, <3>4, MoveKeeps DEF AdminInv
    <3>6. ~(stack # <<>> /\ Real(Top))'
      BY <2>1, <2>4, <3>3, <3>4, BecomesTop DEF Real
    <3> QED BY <2>1, <3>5, <3>6, InstallEnds DEF Sound
  <2> QED BY <2>1, <2>3, <2>4
<1> QED BY <1>2, <1>3, <1>4, <1>5, <1>6, <1>7, <1>8

-----------------------------------------------------------------------------
(* Backends and launchers.                                                 *)

Conns == {"none", "user", "admin", "running", "done"}

LEMMA ConnFrame ==
  ASSUME NEW f \in Frames, NEW c \in Conns
  PROVE  [f EXCEPT !.conn = c] \in Frames
BY DEF Frames, Conns

\* A backend that goes takes its connections with it.
LEMMA ClosedKeeps ==
  ASSUME Inv, NEW as \in {"free"} \union Users, stack' = Closed(as), RestOK', UNCHANGED <<elevated, enabled, raised, jobs>>,
         adminSeen => adminSeen', elevated \/ port' = "admin" => adminSeen'
  PROVE  Sound
<1>1. stack \in Seq(Frames) /\ Len(stack) \in Nat /\ DOMAIN stack = 1 .. Len(stack)
  BY DEF Inv, TypeOK
<1>2. \A i \in 1 .. Len(stack) : stack[i] \in Frames
  BY <1>1
<1>3. ASSUME NEW i \in 1 .. Len(stack)
      PROVE  /\ stack'[i] \in Frames
             /\ \E c \in Conns : /\ stack'[i] = [stack[i] EXCEPT !.conn = c]
                                 /\ c \in {"admin", "running", "done"} => adminSeen'
                                 /\ stack[i].conn = "none" => c = "none"
  <2>1. stack'[i] = [stack[i] EXCEPT !.conn = "none"] \/ stack'[i] = stack[i]
    BY <1>1 DEF Closed
  <2>2. CASE stack'[i] = [stack[i] EXCEPT !.conn = "none"]
    <3>1. "none" \in Conns
      BY DEF Conns
    <3>2. stack'[i] \in Frames
      BY <1>2, <2>2, <3>1, ConnFrame
    <3> QED BY <2>2, <3>1, <3>2
  <2>3. CASE stack'[i] = stack[i]
    <3> DEFINE c == stack[i].conn
    <3>1. c \in Conns /\ stack'[i] = [stack[i] EXCEPT !.conn = c] /\ c = stack[i].conn
      BY <1>2, <2>3 DEF Frames, Conns
    <3>2. c \in {"admin", "running", "done"} => adminSeen'
      BY DEF Inv, AdminInv
    <3>3. stack'[i] \in Frames
      BY <1>2, <2>3
    <3> HIDE DEF c
    <3> QED BY <3>1, <3>2, <3>3
  <2> QED BY <2>1, <2>2, <2>3
<1>4. stack' \in Seq(Frames) /\ Len(stack') = Len(stack)
  <2>1. DOMAIN stack' = 1 .. Len(stack) /\ stack' = [i \in 1 .. Len(stack) |-> stack'[i]]
    BY <1>1 DEF Closed
  <2>2. stack' \in [1 .. Len(stack) -> Frames]
    BY <1>3, <2>1
  <2>3. stack' \in Seq(Frames)
    BY <1>1, <2>2, SeqDef
  <2>4. Len(stack') \in Nat /\ 1 .. Len(stack') = 1 .. Len(stack)
    BY <2>1, <2>3, LenProperties
  <2>5. Len(stack') = Len(stack)
    <3> DEFINE m == Len(stack')
               n == Len(stack)
    <3>1. m \in Nat /\ n \in Nat /\ 1 .. m = 1 .. n
      BY <1>1, <2>4
    <3> HIDE DEF m, n
    <3>2. ~(m < n)
      <4>1. m < n => n \in 1 .. n /\ n \notin 1 .. m
        BY <3>1
      <4> QED BY <3>1, <4>1
    <3>3. ~(n < m)
      <4>1. n < m => m \in 1 .. m /\ m \notin 1 .. n
        BY <3>1
      <4> QED BY <3>1, <4>1
    <3>4. m = n
      BY <3>1, <3>2, <3>3
    <3> QED BY <3>4 DEF m, n
  <2> QED BY <2>3, <2>5
<1>5. ChangesAreConfirmed'
  BY DEF Inv, ChangesAreConfirmed
<1>6. Inv'
  BY <1>3, <1>4, <1>5, ConnectionsKeep DEF Conns
<1>7. CASE stack = <<>>
  <2>1. stack' = <<>>
    BY <1>4, <1>7, EmptySeq
  <2> QED BY <1>6, <2>1, InstallEnds DEF Sound
<1>8. CASE stack # <<>>
  <2>1. Len(stack) \in 1 .. Len(stack) /\ Top = stack[Len(stack)] /\ Top \in Frames
    BY <1>8, TopFrame
  <2>2. Top' = stack'[Len(stack)] /\ stack' # <<>>
    BY <1>4, <1>8, TopFrame DEF Top
  <2>3. Top' = Top \/ (Top' = [Top EXCEPT !.conn = "none"] /\ Top.conn # "done")
    BY <1>1, <2>1, <2>2 DEF Closed, Users
  <2>4. /\ Top'.at = Top.at /\ Top'.method = Top.method /\ Top'.doing = Top.doing
        /\ Top'.op = Top.op /\ Top'.asked = Top.asked /\ Top'.agreed = Top.agreed
        /\ Top'.skips = Top.skips
        /\ Top'.conn = Top.conn \/ (Top'.conn = "none" /\ Top.conn # "done")
    BY <2>1, <2>3 DEF Frames
  <2>5. CASE ~Real(Top)
    <3>1. ~(stack # <<>> /\ Real(Top))'
      BY <2>4, <2>5 DEF Real
    <3> QED BY <1>6, <3>1, InstallEnds DEF Sound
  <2>6. CASE Real(Top)
    <3>1. /\ Install = [phase |-> InstallPhase, order |-> Job(Top)]
          /\ Install' = [phase |-> InstallPhase', order |-> Job(Top)]
      BY <1>8, <2>2, <2>4, <2>6 DEF Install, Job, Real
    <3>2. CASE InstallPhase' = InstallPhase
      <4>1. UNCHANGED <<Install, jobs>>
        BY <3>1, <3>2
      <4> QED BY <1>6, <4>1, Stutters DEF Sound
    <3>3. CASE InstallPhase \in {"confirmed", "sent", "running"} /\ InstallPhase' = "lost"
      <4>1. Promise!Lose
        BY <3>1, <3>3 DEF Promise!Lose, Promise!In, Promise!Becomes
      <4> QED BY <1>6, <4>1 DEF Sound, Promise!Next
    <3>4. CASE Top.at # "read"
      BY <2>4, <3>2, <3>4 DEF InstallPhase
    <3>5. CASE Top.at = "read" /\ Top'.conn = Top.conn
      BY <2>4, <3>2, <3>5 DEF InstallPhase
    <3>6. CASE Top.at = "read" /\ Top'.conn = "none" /\ Top.conn # "done"
      <4>1. InstallPhase' = "lost" /\ InstallPhase \in {"sent", "running", "lost"}
        BY <2>4, <3>6 DEF InstallPhase
      <4> QED BY <3>2, <3>3, <4>1
    <3> QED BY <2>4, <3>4, <3>5, <3>6
  <2> QED BY <2>5, <2>6
<1> QED BY <1>7, <1>8

\* An apply that is served runs with what the user confirmed.
LEMMA ServesKeeps ==
  ASSUME Inv, NEW i \in DOMAIN stack, NEW from \in {"admin", "running"}, NEW to \in {"running", "done"},
         Serves(i, from, to), jobs' \subseteq jobs \union {Job(stack[i])}
  PROVE  /\ Inv' /\ stack # <<>> /\ stack[i] = Top /\ Top.at = "read" /\ Top.conn = from
         /\ Install = [phase |-> InstallPhase, order |-> Job(Top)]
         /\ Install' = [phase |-> IF to = "running" THEN "running" ELSE "finished", order |-> Job(Top)]
<1>1. RestOK /\ AdminInv /\ stack \in Seq(Frames) /\ Len(stack) \in Nat /\ i \in 1 .. Len(stack)
  BY Types DEF Inv
<1>2. /\ Real(stack[i]) /\ stack[i].conn = from
      /\ stack' = [stack EXCEPT ![i] = [stack[i] EXCEPT !.conn = to]]
      /\ UNCHANGED <<host, port, launches, adminSeen, ready, spawnAttempted, useRpc, elevated, items,
                      cursorRunning, enabled, clicks, raised>>
  BY <1>1 DEF Serves, backendVars, clientVars, viewVars
<1>3. RestOK'
  BY <1>1, <1>2 DEF RestOK
<1>4. adminSeen
  BY <1>1, <1>2 DEF AdminInv
<1>5. ChangesAreConfirmed'
  <2>1. AsAgreed(stack[i])
    BY <1>1, <1>2 DEF Inv, StackInv, FrameInv
  <2>2. AsAgreed(Job(stack[i]))
    BY <2>1, SameJob
  <2> QED BY <2>2 DEF Inv, ChangesAreConfirmed
<1>6. \A j \in 1 .. Len(stack) : stack[j] \in Frames
  BY <1>1
<1>7. to \in Conns /\ [stack[i] EXCEPT !.conn = to] \in Frames
  BY <1>1, <1>6, ConnFrame DEF Conns
<1>8. stack' \in Seq(Frames) /\ Len(stack') = Len(stack)
  BY <1>1, <1>2, <1>7
<1>9. ASSUME NEW j \in 1 .. Len(stack)
      PROVE  \E c \in Conns : /\ stack'[j] = [stack[j] EXCEPT !.conn = c]
                              /\ c \in {"admin", "running", "done"} => adminSeen'
                              /\ stack[j].conn = "none" => c = "none"
  <2>1. CASE j = i
    <3>1. stack'[j] = [stack[j] EXCEPT !.conn = to]
      BY <1>1, <1>2, <2>1
    <3> QED BY <1>2, <1>4, <1>7, <2>1, <3>1
  <2>2. CASE j # i
    <3>1. stack'[j] = stack[j]
      BY <1>1, <1>2, <2>2
    <3>2. stack[j].conn \in Conns /\ stack'[j] = [stack[j] EXCEPT !.conn = stack[j].conn]
      BY <1>6, <3>1 DEF Frames, Conns
    <3> QED BY <1>2, <1>4, <3>2
  <2> QED BY <2>1, <2>2
<1>10. Inv'
  BY <1>1, <1>2, <1>3, <1>5, <1>8, <1>9, ConnectionsKeep DEF AdminInv, Conns
<1>11. i = Len(stack) /\ stack # <<>> /\ stack[i] = Top
  <2> DEFINE n == Len(stack)
  <2>1. n \in Nat /\ i \in 1 .. n /\ i \notin 1 .. n - 1
    BY <1>1, <1>2 DEF Inv, StackInv, Real
  <2> HIDE DEF n
  <2>2. i = n
    BY <2>1
  <2>3. stack # <<>>
    BY <1>1
  <2> QED BY <2>2, <2>3 DEF Top, n
<1>12. Top.at = "read"
  BY <1>2, <1>11, TopFrame DEF FrameInv, Real
<1>13. /\ Top' = [Top EXCEPT !.conn = to] /\ stack' # <<>> /\ Top \in Frames
  <2>1. stack'[i] = [Top EXCEPT !.conn = to]
    BY <1>1, <1>2, <1>11
  <2>2. stack' # <<>>
    BY <1>1, <1>8
  <2> QED BY <1>8, <1>11, <2>1, <2>2, TopFrame DEF Top
<1>14. /\ Top'.at = "read" /\ Top'.conn = to /\ Top'.method = Top.method /\ Top'.doing = Top.doing
       /\ Top'.op = Top.op /\ Top'.asked = Top.asked /\ Top'.agreed = Top.agreed
       /\ Top'.skips = Top.skips
  BY <1>12, <1>13 DEF Frames
<1>15. Install = [phase |-> InstallPhase, order |-> Job(Top)]
  BY <1>2, <1>11 DEF Install
<1>16. Install' = [phase |-> InstallPhase', order |-> Job(Top)]
  BY <1>2, <1>11, <1>13, <1>14 DEF Install, Job, Real
<1>17. InstallPhase' = IF to = "running" THEN "running" ELSE "finished"
  BY <1>14 DEF InstallPhase
<1> QED BY <1>2, <1>10, <1>11, <1>12, <1>15, <1>16, <1>17

LEMMA MachineKeeps ==
  ASSUME Inv, Machine
  PROVE  Sound
<1>1. RestOK /\ AdminInv /\ ChangesAreConfirmed
  BY Types DEF Inv
<1>2. CASE PromptDeclined
  <2>1. /\ launches' = launches \ {<<"admin", "stop">>}
        /\ UNCHANGED <<host, port, adminSeen, ready, spawnAttempted, useRpc, elevated, items,
                        cursorRunning, enabled, clicks, raised, stack, jobs>>
    BY <1>2 DEF PromptDeclined, clientVars, viewVars
  <2>2. RestOK'
    BY <1>1, <2>1 DEF RestOK
  <2> QED BY <1>1, <2>1, <2>2, StillSound DEF AdminInv, ChangesAreConfirmed
<1>3. CASE BackendDies
  <2>1. /\ port' = "free" /\ stack' = Closed(port)
        /\ UNCHANGED <<host, launches, adminSeen, ready, spawnAttempted, useRpc, elevated, items,
                        cursorRunning, enabled, clicks, raised, jobs>>
    BY <1>3 DEF BackendDies, clientVars, viewVars
  <2>2. RestOK'
    BY <1>1, <2>1 DEF RestOK
  <2>3. port \in {"free"} \union Users
    BY <1>1 DEF RestOK
  <2> QED BY <1>1, <2>1, <2>2, <2>3, ClosedKeeps DEF AdminInv
<1>4. ASSUME NEW as \in Users, LauncherStops(as) PROVE Sound
  <2>1. /\ launches' = (launches \ {<<as, "stop">>}) \union {<<as, "start">>}
        /\ UNCHANGED <<host, adminSeen, ready, spawnAttempted, useRpc, elevated, items,
                        cursorRunning, enabled, clicks, raised, jobs>>
    BY <1>4 DEF LauncherStops, clientVars, viewVars
  <2>2. launches' \subseteq Users \X {"stop", "start"}
    <3>1. launches \subseteq Users \X {"stop", "start"}
      BY <1>1 DEF RestOK
    <3>2. <<as, "start">> \in Users \X {"stop", "start"}
      OBVIOUS
    <3> QED BY <2>1, <3>1, <3>2
  <2>3. CASE UNCHANGED <<port, stack>>
    <3>1. RestOK'
      BY <1>1, <2>1, <2>2, <2>3 DEF RestOK
    <3> QED BY <1>1, <2>1, <2>3, <3>1, StillSound DEF AdminInv, ChangesAreConfirmed
  <2>4. CASE port' = "free" /\ stack' = Closed(port)
    <3>1. RestOK'
      BY <1>1, <2>1, <2>2, <2>4 DEF RestOK
    <3>2. port \in {"free"} \union Users
      BY <1>1 DEF RestOK
    <3> QED BY <1>1, <2>1, <2>4, <3>1, <3>2, ClosedKeeps DEF AdminInv
  <2> QED BY <1>4, <2>3, <2>4 DEF LauncherStops
<1>5. ASSUME NEW as \in Users, LauncherStarts(as) PROVE Sound
  <2>1. /\ launches' = launches \ {<<as, "start">>} /\ (port' = as \/ port' = port)
        /\ adminSeen' = (adminSeen \/ port' = "admin")
        /\ UNCHANGED <<host, ready, spawnAttempted, useRpc, elevated, items,
                        cursorRunning, enabled, clicks, raised, stack, jobs>>
    BY <1>5 DEF LauncherStarts, clientVars, viewVars
  <2>2. RestOK'
    BY <1>1, <2>1 DEF RestOK
  <2> QED BY <1>1, <2>1, <2>2, StillSound DEF AdminInv, ChangesAreConfirmed
<1>6. ASSUME NEW i \in DOMAIN stack, ServeApply(i) PROVE Sound
  <2>1. Serves(i, "admin", "running") /\ jobs' = jobs \union {Job(stack[i])}
    BY <1>6 DEF ServeApply
  <2>2. /\ Inv' /\ stack[i] = Top /\ Top.at = "read" /\ Top.conn = "admin"
        /\ Install = [phase |-> InstallPhase, order |-> Job(Top)]
        /\ Install' = [phase |-> "running", order |-> Job(Top)]
    BY <2>1, ServesKeeps
  <2>3. InstallPhase = "sent"
    BY <2>2 DEF InstallPhase
  <2>4. Promise!Start
    BY <2>1, <2>2, <2>3 DEF Promise!Start, Promise!In, Promise!Becomes
  <2> QED BY <2>2, <2>4 DEF Sound, Promise!Next
<1>7. ASSUME NEW i \in DOMAIN stack, FinishApply(i) PROVE Sound
  <2>1. Serves(i, "running", "done") /\ jobs' = jobs \ {Job(stack[i])}
    BY <1>7 DEF FinishApply
  <2>2. /\ Inv' /\ stack[i] = Top /\ Top.at = "read" /\ Top.conn = "running"
        /\ Install = [phase |-> InstallPhase, order |-> Job(Top)]
        /\ Install' = [phase |-> "finished", order |-> Job(Top)]
    BY <2>1, ServesKeeps
  <2>3. InstallPhase = "running"
    BY <2>2 DEF InstallPhase
  <2>4. Promise!Finish
    BY <2>1, <2>2, <2>3 DEF Promise!Finish, Promise!In, Promise!Becomes
  <2> QED BY <2>2, <2>4 DEF Sound, Promise!Next
<1>8. ASSUME NEW job \in jobs, JobEnds(job) PROVE Sound
  <2>1. /\ jobs' = jobs \ {job}
        /\ UNCHANGED <<host, port, launches, adminSeen, ready, spawnAttempted, useRpc, elevated, items,
                        cursorRunning, enabled, clicks, raised, stack>>
    BY <1>8 DEF JobEnds, backendVars, clientVars, viewVars
  <2>2. RestOK'
    BY <1>1, <2>1 DEF RestOK
  <2>3. Inv'
    BY <1>1, <2>1, <2>2, StillKeeps DEF AdminInv, ChangesAreConfirmed
  <2>4. Install' = Install
    BY <2>1 DEF Install, InstallPhase, Top, Real
  <2>5. ASSUME stack # <<>>, Real(Top), InstallPhase = "running" PROVE Job(Top) # job
    <3>1. Len(stack) \in DOMAIN stack /\ Top = stack[Len(stack)]
      BY <2>5, TopFrame DEF Inv, TypeOK
    <3>2. Top.conn = "running"
      BY <2>5 DEF InstallPhase
    <3>3. Top.op # job.op
      BY <1>8, <3>1, <3>2 DEF JobEnds
    <3> QED BY <3>3 DEF Job
  <2>6. Promise!In({"running"}) => Install.order # job
    BY <2>5 DEF Promise!In, Install
  <2>7. Promise!Expire(job)
    BY <2>1, <2>4, <2>6 DEF Promise!Expire
  <2> QED BY <2>3, <2>7 DEF Sound, Promise!Next
<1> QED BY <1>2, <1>3, <1>4, <1>5, <1>6, <1>7, <1>8 DEF Machine

-----------------------------------------------------------------------------
(* The inductive invariant.                                                *)

\* A click is handled on top of a handler that waits and does not apply.
LEMMA ClickKeeps ==
  ASSUME Inv, NEW button \in Buttons, Click(button)
  PROVE  Sound
<1> DEFINE f == Frame(clicks + 1, button, FirstStep(button), "detect_os")
           n == Len(stack)
<1>1. RestOK /\ AdminInv /\ ChangesAreConfirmed /\ stack \in Seq(Frames) /\ n \in Nat
  BY Types DEF Inv
<1>2. /\ enabled /\ stack' = Append(stack, f) /\ clicks' = clicks + 1
      /\ UNCHANGED <<host, port, launches, adminSeen, ready, spawnAttempted, useRpc, elevated, items,
                      cursorRunning, enabled, raised, jobs>>
  BY DEF Click, backendVars, clientVars, viewVars
<1>3. RestOK'
  BY <1>1, <1>2 DEF RestOK
<1>4. clicks \in Nat /\ clicks + 1 \in Nat /\ clicks + 1 # 0
  BY <1>1 DEF RestOK
<1>5. /\ f.op = clicks + 1 /\ f.doing = button /\ f.at = FirstStep(button) /\ f.method = "detect_os"
      /\ f.polls = 0 /\ f.conn = "none" /\ f.asked = {} /\ f.agreed = {} /\ f.skips = FALSE
      /\ f.sent = 0
  BY DEF Frame
<1>6. /\ FirstStep(button) \in {"call", "elevate", "preview", "check"}
      /\ button = "refresh" => FirstStep(button) = "call"
      /\ FirstStep(button) = "preview" => button = "preview"
  BY DEF FirstStep, Buttons, Updates
<1>7. f \in Frames
  <2>1. "detect_os" \in Methods /\ "call" \in Waiting /\ 0 \in Int
    BY DEF Methods, Waiting
  <2> QED BY <1>4, <1>6, <2>1 DEF Frame, Frames
<1> HIDE DEF f
<1>8. FrameInv(f) /\ ~Real(f)
  BY <1>4, <1>5, <1>6 DEF FrameInv, Real
<1>9. /\ stack' \in Seq(Frames) /\ Len(stack') = n + 1 /\ stack' # <<>> /\ Top' = f
      /\ \A i \in 1 .. n : stack'[i] = stack[i]
      /\ stack'[n + 1] = f
  <2>1. /\ stack' \in Seq(Frames) /\ Len(stack') = n + 1 /\ stack'[n + 1] = f
        /\ \A i \in 1 .. n : stack'[i] = stack[i]
    BY <1>1, <1>2, <1>7, AppendProperties
  <2>2. stack' # <<>>
    BY <1>1, <2>1
  <2> QED BY <2>1, <2>2 DEF Top
<1>10. \A i \in 1 .. n + 1 : i \in 1 .. n \/ i = n + 1
  BY <1>1
<1>11. TypeOK'
  BY <1>3, <1>9 DEF TypeOK, RestOK
<1>12. StackInv'
  <2>1. \A i \in 1 .. n + 1 : FrameInv(stack'[i])
    BY <1>8, <1>9, <1>10 DEF Inv, StackInv
  <2>2. stack # <<>> => Top.method # "apply" /\ Top.at \in Waiting
    BY <1>2 DEF Inv, TopInv, Click, Dispatching, Waiting
  <2>3. ASSUME NEW i \in 1 .. n PROVE stack[i].method # "apply" /\ stack[i].at \in Waiting
    <3>1. CASE i = n
      <4>1. stack # <<>>
        BY <1>1, <2>3
      <4> QED BY <2>2, <3>1, <4>1 DEF Top
    <3>2. CASE i # n
      <4>1. i \in 1 .. n - 1
        BY <1>1, <3>2
      <4> QED BY <4>1 DEF Inv, StackInv
    <3> QED BY <3>1, <3>2
  <2>4. 1 .. Len(stack') - 1 = 1 .. n
    BY <1>1, <1>9
  <2> QED BY <1>9, <2>1, <2>3, <2>4 DEF StackInv
<1>13. AdminInv'
  <2>1. \A i \in 1 .. n + 1 : stack'[i].conn \in {"admin", "running", "done"} => adminSeen
    BY <1>1, <1>5, <1>9, <1>10 DEF AdminInv
  <2> QED BY <1>1, <1>2, <1>9, <2>1 DEF AdminInv
<1>14. TopInv'
  <2>1. f.at # "choose" /\ f.method # "apply"
    BY <1>5, <1>6
  <2> QED BY <1>2, <1>8, <1>9, <2>1 DEF TopInv, Real
<1>15. ChangesAreConfirmed'
  BY <1>1, <1>2 DEF ChangesAreConfirmed
<1>16. ~(stack # <<>> /\ Real(Top))'
  BY <1>8, <1>9 DEF Real
<1> QED BY <1>2, <1>11, <1>12, <1>13, <1>14, <1>15, <1>16, InstallEnds DEF Inv, Sound

LEMMA InitInv ==
  ASSUME Init
  PROVE  Inv
<1> DEFINE f == Frame(0, "refresh", "call", "start")
<1>1. /\ f.op = 0 /\ f.doing = "refresh" /\ f.at = "call" /\ f.method = "start" /\ f.conn = "none"
      /\ f.asked = {} /\ f.agreed = {} /\ f.sent = 0
  BY DEF Frame
<1>2. f \in Frames
  <2>1. "refresh" \in Buttons /\ "start" \in Methods /\ "call" \in Waiting /\ 0 \in Int
    BY DEF Buttons, Methods, Waiting
  <2> QED BY <2>1 DEF Frame, Frames
<1>3. stack = <<f>>
  BY DEF Init
<1> HIDE DEF f
<1>4. stack \in Seq(Frames) /\ Len(stack) = 1 /\ stack[1] = f /\ Top = f /\ stack # <<>>
  BY <1>2, <1>3 DEF Top
<1>5. FrameInv(f) /\ ~Real(f)
  BY <1>1 DEF FrameInv, Real
<1>6. RestOK
  <2>1. launches \subseteq Users \X {"stop", "start"}
    BY DEF Init, StartedBefore, Users
  <2>2. port \in {"free"} \union Users /\ host \in Hosts /\ adminSeen \in BOOLEAN
    BY DEF Init
  <2> QED BY <2>1, <2>2 DEF Init, RestOK
<1>7. TypeOK
  BY <1>4, <1>6, Types
<1>8. \A i \in 1 .. Len(stack) : i = 1
  BY <1>4
<1>9. StackInv
  <2>1. \A i \in 1 .. Len(stack) - 1 : FALSE
    BY <1>4
  <2> QED BY <1>4, <1>5, <1>8, <2>1 DEF StackInv
<1>10. AdminInv
  <2>1. \A i \in 1 .. Len(stack) : stack[i].conn = "none"
    BY <1>1, <1>4, <1>8
  <2> QED BY <2>1 DEF AdminInv, Init
<1>11. TopInv
  BY <1>1, <1>4, <1>5 DEF TopInv, Init
<1>12. ChangesAreConfirmed
  BY DEF ChangesAreConfirmed, Init
<1> QED BY <1>7, <1>9, <1>10, <1>11, <1>12 DEF Inv

LEMMA NextKeeps ==
  ASSUME Inv, [Next]_vars
  PROVE  Sound
<1>1. CASE Client
  BY <1>1, ClientKeeps
<1>2. CASE Window
  BY <1>2, RefreshKeeps, ElevationKeeps, ApplyKeeps DEF Window
<1>3. CASE Machine
  BY <1>3, MachineKeeps
<1>4. CASE \E button \in Buttons : Click(button)
  BY <1>4, ClickKeeps
<1>5. CASE UNCHANGED vars
  <2>1. UNCHANGED <<host, port, launches, adminSeen, ready, spawnAttempted, useRpc, elevated, items,
                    cursorRunning, enabled, clicks, raised, stack, jobs>>
    BY <1>5 DEF vars, backendVars, clientVars, viewVars
  <2>2. RestOK'
    BY <2>1, Types DEF Inv, RestOK
  <2> QED BY <2>1, <2>2, StillSound DEF Inv, AdminInv, ChangesAreConfirmed
<1> QED BY <1>1, <1>2, <1>3, <1>4, <1>5 DEF Next

-----------------------------------------------------------------------------
(* Theorems.                                                               *)

\* The inductive invariant holds throughout: of a stack of handlers (main_frame.lua,
\* client.lua) only the top one applies or asks, and the others wait.
THEOREM Invariance == Spec => []Inv
<1>1. Init => Inv
  BY InitInv
<1>2. Inv /\ [Next]_vars => Inv'
  BY NextKeeps DEF Sound
<1> QED BY <1>1, <1>2, PTL DEF Spec

\* Every variable and every handler on the stack keeps to its values.
THEOREM TypeCorrect == Spec => []TypeOK
<1>1. Inv => TypeOK
  BY DEF Inv
<1> QED BY <1>1, Invariance, PTL

\* An apply that runs asks for what the boxes of its click offered, without Cursor where
\* its user skipped it, whichever handlers, launchers and answers came between; only
\* update_selected's own Cursor is excepted (_run_apply, update_selected, main_frame.lua).
THEOREM Confirmed == Spec => []ChangesAreConfirmed
<1>1. Inv => ChangesAreConfirmed
  BY DEF Inv
<1> QED BY <1>1, Invariance, PTL

\* An apply is sent to a backend once at most (ipc:call, client.lua).
THEOREM SentOnce == Spec => []AppliedOnce
<1>1. Inv => AppliedOnce
  <2> SUFFICES ASSUME Inv, NEW i \in DOMAIN stack PROVE stack[i].sent <= 1
    BY DEF AppliedOnce
  <2>1. i \in 1 .. Len(stack)
    BY DEF Inv, TypeOK
  <2> QED BY <2>1 DEF Inv, StackInv, FrameInv
<1> QED BY <1>1, Invariance, PTL

\* Only the top handler applies.
LEMMA ApplyingTop ==
  ASSUME Inv
  PROVE  /\ \A i \in Applying : i = Len(stack) /\ stack # <<>> /\ Top.method = "apply"
         /\ stack # <<>> /\ Top.method = "apply" => Applying # {}
<1>1. stack \in Seq(Frames) /\ Len(stack) \in Nat /\ DOMAIN stack = 1 .. Len(stack)
  BY DEF Inv, TypeOK
<1>2. ASSUME NEW i \in Applying PROVE i = Len(stack) /\ stack # <<>> /\ Top.method = "apply"
  <2>1. i \in 1 .. Len(stack) /\ stack[i].method = "apply"
    BY <1>1 DEF Applying
  <2>2. i \notin 1 .. Len(stack) - 1
    BY <2>1 DEF Inv, StackInv
  <2>3. i = Len(stack)
    <3> DEFINE n == Len(stack)
    <3>1. n \in Nat /\ i \in 1 .. n /\ i \notin 1 .. n - 1
      BY <1>1, <2>1, <2>2
    <3> HIDE DEF n
    <3>2. i = n
      BY <3>1
    <3> QED BY <3>2 DEF n
  <2>4. stack # <<>>
    BY <2>1
  <2> QED BY <2>1, <2>3, <2>4 DEF Top
<1>3. ASSUME stack # <<>>, Top.method = "apply" PROVE Applying # {}
  <2>1. Len(stack) \in DOMAIN stack
    BY <1>1, <1>3
  <2> QED BY <1>3, <2>1 DEF Applying, Top
<1> QED BY <1>2, <1>3

\* However many handlers are on the stack, one at most applies: the buttons are
\* disabled before the first event can be dispatched (main_frame.lua).
THEOREM OneApply == Spec => []OneApplyAtATime
<1>1. Inv => OneApplyAtATime
  <2> SUFFICES ASSUME Inv PROVE Cardinality(Applying) <= 1
    BY DEF OneApplyAtATime
  <2>1. Applying \subseteq {Len(stack)}
    BY ApplyingTop
  <2>2. IsFiniteSet({Len(stack)}) /\ Cardinality({Len(stack)}) = 1
    BY FS_Singleton
  <2>3. Cardinality(Applying) <= Cardinality({Len(stack)})
    BY <2>1, <2>2, FS_Subset
  <2> QED BY <2>2, <2>3
<1> QED BY <1>1, Invariance, PTL

\* The buttons are disabled exactly while an apply is under way, unless a Lua error
\* ended it (_run_apply, main_frame.lua).
THEOREM ActionsFollow == Spec => []ActionsFollowTheApply
<1>1. Inv => ActionsFollowTheApply
  BY ApplyingTop DEF Inv, TopInv, ActionsFollowTheApply
<1> QED BY <1>1, Invariance, PTL

\* The boxes of an install come up, and it is sent, only in a window that takes its
\* backend for elevated, and one was there (_ensure_elevated, main_frame.lua).
THEOREM ElevatedInstalls == Spec => []InstallsElevated
<1>1. Inv => InstallsElevated
  <2> SUFFICES ASSUME Inv, NEW i \in DOMAIN stack, stack[i].at = "choose" \/ Real(stack[i])
               PROVE  elevated /\ adminSeen
    BY DEF InstallsElevated
  <2>1. stack \in Seq(Frames) /\ Len(stack) \in Nat /\ i \in 1 .. Len(stack)
    BY DEF Inv, TypeOK
  <2>2. i \notin 1 .. Len(stack) - 1
    BY DEF Inv, StackInv, Real, Waiting
  <2>3. i = Len(stack) /\ stack # <<>>
    BY <2>1, <2>2
  <2>4. elevated
    BY <2>3 DEF Inv, TopInv, Top, Real
  <2> QED BY <2>4 DEF Inv, AdminInv
<1> QED BY <1>1, Invariance, PTL

\* The window implements InstallPromise, to any depth of handlers: one confirmed order at a
\* time, sent once and run once, and lost rather than sent again (main_frame.lua, client.lua).
THEOREM WindowKeepsPromise == Spec => KeepsPromise
<1>1. Init => Promise!Init
  <2> SUFFICES ASSUME Init PROVE Promise!Init
    OBVIOUS
  <2>1. Top.method = "start" /\ jobs = {}
    BY DEF Init, Top, Frame
  <2> QED BY <2>1 DEF Install, Real, Promise!Init, Promise!None
<1>2. Inv /\ [Next]_vars => [Promise!Next]_(Promise!vars)
  BY NextKeeps DEF Sound
<1> QED BY <1>1, <1>2, Invariance, PTL DEF Spec, KeepsPromise, Promise!Spec
=============================================================================
