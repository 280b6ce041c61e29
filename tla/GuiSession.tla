------------------------------ MODULE GuiSession -------------------------------
(***************************************************************************)
(* The window and its client (gui/app/ui/main_frame.lua, view_model.lua,   *)
(* gui/app/ipc/client.lua) with the backends they start, find and replace  *)
(* on one port (gui/app/win_silent.lua, scripts/start-backend*.ps1).       *)
(*                                                                         *)
(* The window has one thread.  While a call waits on its socket, wxWidgets *)
(* dispatches events (the socket is not created with wxSOCKET_BLOCK), so a *)
(* click may start a second handler on top of the first: handlers form a   *)
(* stack, and only the top one moves.  A message box is modal.             *)
(*                                                                         *)
(* A backend is what ApplyServer shows of it: one answer to a request, and *)
(* an apply that runs only where an elevated process admitted it.          *)
(***************************************************************************)
EXTENDS Integers, Sequences, FiniteSets

CONSTANTS
  Package,    \* what can be updated
  Cursor,     \* Anysphere.Cursor
  Hosts,      \* where the window may run
  Polls,      \* how often a starting backend is pinged (10, 20 or 40 in the code)
  MaxClicks,  \* bound of the model: clicks
  MaxDepth,   \* bound of the model: handlers on top of each other
  MaxCrashes  \* bound of the model: backends that die by themselves

ASSUME PackageAssumption == Cursor \in Package

\* Windows with the project's launchers, the same with a backend that start-gui.ps1
\* starts (VERIPATCH_BACKEND_MANAGED), Windows without launchers, Linux and macOS.
ASSUME HostAssumption == Hosts \subseteq {"scripts", "managed", "bare", "posix"}
ASSUME BoundAssumption ==
  /\ Polls \in Nat \ {0} /\ MaxDepth \in Nat \ {0}
  /\ MaxClicks \in Nat /\ MaxCrashes \in Nat

Users   == {"user", "admin"}
Updates == {"update_selected", "update_all", "update_cursor"}
Buttons == Updates \union {"refresh", "elevate", "preview"}
Methods == {"start", "detect_os", "list_sources", "check_updates", "request_elevation", "apply"}

VARIABLES
  host,            \* where the window runs
  port,            \* who listens: "free", "user" or "admin"
  launches,        \* launchers under way: with whose rights, and what they do next
  jobs,            \* applies that run on the machine
  ready,           \* _backend_ready
  spawnAttempted,  \* _spawn_attempted
  useRpc,          \* use_rpc
  stack,           \* the handlers, each with the call it makes
  enabled,         \* whether the buttons can be clicked
  elevated,        \* what the window believes of its backend
  items,           \* update_items
  cursorRunning,   \* blockers.cursor_running
  clicks,          \* number of clicks so far; a click's number names its handler
  raised,          \* which of "show" and "apply" a Lua error has ended
  adminSeen,       \* whether an elevated backend ever listened (history)
  crashes          \* number of backends that died by themselves

backendVars == <<port, launches, adminSeen, crashes>>
clientVars  == <<ready, spawnAttempted, useRpc>>
viewVars    == <<elevated, items, cursorRunning>>
vars == <<host, backendVars, clientVars, viewVars, enabled, clicks, raised, stack, jobs>>

\* Steps that only move a handler.
OnlyStack == UNCHANGED <<host, backendVars, clientVars, viewVars, enabled, clicks, raised, jobs>>

\* conn is the call's connection: "user" and "admin" say who is to answer, "running"
\* that an elevated backend runs the apply, "done" that its answer is on the way.
Frame(op, doing, at, method) ==
  [op |-> op, doing |-> doing, at |-> at, method |-> method, polls |-> 0, conn |-> "none",
   asked  |-> {},       \* the packages that the apply asks for
   agreed |-> {},       \* the sets of packages that the boxes offered and the user confirmed (history)
   skips  |-> FALSE,    \* whether the user chose to skip Cursor (history)
   sent   |-> 0]        \* how often the apply was sent (history)

\* start-gui.ps1 restarts the backend, starts one where none is, or leaves it to others
\* (VERIPATCH_KEEP_BACKEND, VERIPATCH_SKIP_BACKEND).
StartedBefore == {{<<"user", "stop">>}, {<<"user", "start">>}, {}}

\* show starts the backend, then refreshes.
Init ==
  /\ host \in Hosts /\ port \in {"free"} \union Users
  /\ launches \in IF host = "managed" THEN StartedBefore ELSE {{}}
  /\ <<"user", "start">> \in launches => port = "free"
  /\ adminSeen = (port = "admin") /\ crashes = 0 /\ jobs = {}
  /\ ready = FALSE /\ spawnAttempted = FALSE /\ useRpc = TRUE
  /\ stack = <<Frame(0, "refresh", "call", "start")>>
  /\ enabled = TRUE /\ elevated = FALSE /\ items = {} /\ cursorRunning = FALSE
  /\ clicks = 0 /\ raised = {}

-----------------------------------------------------------------------------
(* The stack of handlers.                                                  *)

Top       == stack[Len(stack)]
Become(f) == stack' = [stack EXCEPT ![Len(stack)] = f]
End       == stack' = SubSeq(stack, 1, Len(stack) - 1)

At(label)       == stack # <<>> /\ Top.at = label
Goto(label)     == [Top EXCEPT !.at = label]
Call(f, method) == [f EXCEPT !.at = "call", !.method = method, !.polls = 0, !.conn = "none"]

-----------------------------------------------------------------------------
(* The client: ipc:call.  Its pings and its connection are one step unless the *)
(* client sleeps in between.                                                *)

\* A backend that listens may be too slow for a ping, and is then as good as none.
PingOk == port # "free"

Real(f) == f.method = "apply" /\ f.doing # "preview"

\* Each call has a connection of its own, if it gets one.
Connects ==
  LET f == [Goto("read") EXCEPT !.polls = 0]
  IN \/ port # "free" /\ Become([f EXCEPT !.conn = port, !.sent = IF Real(f) THEN @ + 1 ELSE @])
     \/ Become(f)

\* ensure_backend has found a backend: show goes on to refresh, a call to its request.
Ensured ==
  \/ Top.method = "start" /\ Become(Call(Top, "detect_os"))
  \/ Top.method # "start" /\ Connects

\* The request ends in a line feed and stands in the middle of the command line, so
\* no backend gets it: the shell runs the first line, which prints the request, before
\* it finds a syntax error in the next.  dash prints it as it was: it is taken for a
\* response without result and error.  cmd leaves it quoted and bash expands its braces:
\* it is no JSON then, and the decoder raises or finds no response in it.  An error in
\* show ends the program, one in an apply leaves the buttons as they are, others leave
\* nothing.
OneShot ==
  \/ host = "posix" /\ Become([Goto("read") EXCEPT !.polls = 0]) /\ UNCHANGED raised
  \/ /\ End
     /\ raised' = raised \union {end \in {"show", "apply"} : end = IF Top.op = 0 THEN "show" ELSE Top.method}

\* It has found none: a call falls back, show refreshes all the same.
Unsure ==
  \/ Top.method = "start" /\ Become(Call(Top, "detect_os")) /\ UNCHANGED raised
  \/ Top.method # "start" /\ OneShot

\* Back on the socket when a ping is answered again.
CallResumes ==
  /\ At("call") /\ Top.method # "start" /\ ~useRpc /\ PingOk
  /\ useRpc' = TRUE /\ ready' = TRUE
  /\ UNCHANGED <<host, backendVars, spawnAttempted, viewVars, enabled, clicks, raised, stack, jobs>>

CallFallsBack ==
  /\ At("call") /\ Top.method # "start" /\ ~useRpc
  /\ OneShot
  /\ UNCHANGED <<host, backendVars, clientVars, viewVars, enabled, clicks, jobs>>

CallOnSocket ==
  /\ At("call") /\ Top.method # "start" /\ useRpc /\ PingOk
  /\ Connects
  /\ OnlyStack

\* The ping is not answered, but ensure_backend trusts _backend_ready or pings again.
EnsureReady ==
  /\ At("call") /\ (Top.method # "start" => useRpc)
  /\ \/ ready /\ UNCHANGED <<ready, useRpc>>
     \/ ~ready /\ PingOk /\ ready' = TRUE /\ useRpc' = TRUE
  /\ Ensured
  /\ UNCHANGED <<host, backendVars, spawnAttempted, viewVars, enabled, clicks, raised, jobs>>

\* spawn_backend restarts what listens; spawn_pythonw_backend and the shell do not.  A
\* managed backend is only waited for.
Spawned == IF host = "managed" THEN {} ELSE {<<"user", IF host = "scripts" THEN "stop" ELSE "start">>}

EnsureSpawns ==
  /\ At("call") /\ (Top.method # "start" => useRpc) /\ ~ready /\ ~spawnAttempted
  /\ spawnAttempted' = TRUE
  /\ launches' = launches \union Spawned
  /\ Become([Goto("await") EXCEPT !.polls = Polls])
  /\ UNCHANGED <<host, port, adminSeen, crashes, ready, useRpc, viewVars, enabled, clicks, raised, jobs>>

EnsureFails ==
  /\ At("call") /\ (Top.method # "start" => useRpc) /\ ~ready /\ spawnAttempted
  /\ useRpc' = (Top.method = "start" /\ useRpc)
  /\ Unsure
  /\ UNCHANGED <<host, backendVars, ready, spawnAttempted, viewVars, enabled, clicks, jobs>>

BackendCame ==
  /\ At("await") /\ PingOk
  /\ ready' = TRUE /\ useRpc' = TRUE
  /\ Ensured
  /\ UNCHANGED <<host, backendVars, spawnAttempted, viewVars, enabled, clicks, raised, jobs>>

BackendStaysAway ==
  /\ At("await")
  /\ \/ Top.polls > 1 /\ Become([Top EXCEPT !.polls = @ - 1]) /\ UNCHANGED <<useRpc, raised>>
     \/ Top.polls = 1 /\ Unsure /\ useRpc' = FALSE
  /\ UNCHANGED <<host, backendVars, ready, spawnAttempted, viewVars, enabled, clicks, jobs>>

\* The call returns a result.  A query is answered by whoever was connected to.
Answered(method) ==
  /\ At("read") /\ Top.method = method
  /\ Top.conn \in IF Real(Top) THEN {"done"} ELSE Users

\* The call returns no result: the backend's error, an end of the connection, no answer
\* in time, no connection, the request itself.  The request is not sent again.
Unanswered(method) == At("read") /\ Top.method = method

-----------------------------------------------------------------------------
(* The window's handlers.                                                  *)

CursorAvailable == Cursor \in items
CursorGate      == cursorRunning /\ CursorAvailable

\* Events are dispatched by the main loop and while a socket is waited for; before the loop,
\* in show, they are not.
Dispatching == stack # <<>> => Top.at \in {"call", "await", "read", "poll"} /\ stack[1].op # 0

FirstStep(button) ==
  CASE button = "refresh" -> "call" [] button = "elevate" -> "elevate"
    [] button = "preview" -> "preview" [] OTHER -> "check"

Click(button) ==
  /\ enabled /\ Dispatching /\ "show" \notin raised
  /\ clicks < MaxClicks /\ Len(stack) < MaxDepth
  /\ button = "update_cursor" => CursorAvailable
  /\ clicks' = clicks + 1
  /\ stack' = Append(stack, Frame(clicks + 1, button, FirstStep(button), "detect_os"))
  /\ UNCHANGED <<host, backendVars, clientVars, viewVars, enabled, raised, jobs>>

RefreshOs ==
  /\ \/ Answered("detect_os") /\ elevated' = (Top.conn = "admin") /\ Become(Call(Top, "list_sources"))
     \/ Unanswered("detect_os") /\ End /\ UNCHANGED elevated
  /\ UNCHANGED <<host, backendVars, clientVars, items, cursorRunning, enabled, clicks, raised, jobs>>

RefreshSources ==
  /\ Answered("list_sources") \/ Unanswered("list_sources")
  /\ Become(Call(Top, "check_updates"))
  /\ OnlyStack

\* The list holds what the backend found; without an answer it is empty.
RefreshUpdates ==
  /\ \/ /\ Answered("check_updates")
        /\ items' \in SUBSET Package /\ cursorRunning' \in BOOLEAN
        /\ host = "posix" => Cursor \notin items' /\ ~cursorRunning'
     \/ Unanswered("check_updates") /\ items' = {} /\ cursorRunning' = FALSE
  /\ End
  /\ UNCHANGED <<host, backendVars, clientVars, elevated, enabled, clicks, raised, jobs>>

\* _ensure_elevated, with its message box.
CheckElevated ==
  /\ At("check")
  /\ \/ elevated /\ Become(Goto("choose"))
     \/ ~elevated /\ Become(Goto("elevate"))
     \/ ~elevated /\ End
  /\ OnlyStack

\* What follows request_elevation, by whether the window is elevated then.
AfterElevation(yes) ==
  \/ Top.doing \in Updates /\ yes /\ Become([Goto("choose") EXCEPT !.polls = 0, !.conn = "none"])
  \/ ~(Top.doing \in Updates /\ yes) /\ End

\* _wait_for_elevated_backend: method tells the first wait from the second.
WaitForElevated(method) ==
  /\ ready' = FALSE /\ spawnAttempted' = FALSE /\ useRpc' = TRUE
  /\ Become([Goto("poll") EXCEPT !.polls = Polls, !.method = method, !.conn = "none"])

RequestElevation ==
  /\ At("elevate")
  /\ \/ /\ host \in {"scripts", "managed"}
        /\ launches' = launches \union {<<"admin", "stop">>}
        /\ WaitForElevated("detect_os")
     \/ /\ host \notin {"scripts", "managed"}
        /\ Become(Call(Top, "request_elevation")) /\ UNCHANGED <<launches, clientVars>>
  /\ UNCHANGED <<host, port, adminSeen, crashes, viewVars, enabled, clicks, raised, jobs>>

\* Mutated form of PollSucceeds: any backend that answers will do.
PollSucceedsAny ==
  /\ At("poll") /\ port # "free"
  /\ elevated' = TRUE /\ AfterElevation(TRUE)
  /\ UNCHANGED <<host, backendVars, clientVars, items, cursorRunning, enabled, clicks, raised, jobs>>

\* poll_elevated: a ping and detect_os on a connection of its own; it never starts a
\* backend.
PollSucceeds ==
  /\ At("poll") /\ port = "admin"
  /\ elevated' = TRUE /\ AfterElevation(TRUE)
  /\ UNCHANGED <<host, backendVars, clientVars, items, cursorRunning, enabled, clicks, raised, jobs>>

\* Mutated form: the second wait never gives up.
PollFailsAgain ==
  /\ At("poll")
  /\ \/ Top.polls > 1 /\ Become([Top EXCEPT !.polls = @ - 1])
     \/ Top.polls = 1 /\ Become(Call(Top, "request_elevation"))
  /\ OnlyStack

\* When the first wait is over, the backend itself is asked; after the second the
\* window goes by what it knew.
PollFails ==
  /\ At("poll")
  /\ \/ Top.polls > 1 /\ Become([Top EXCEPT !.polls = @ - 1])
     \/ Top.polls = 1 /\ Top.method = "detect_os" /\ Become(Call(Top, "request_elevation"))
     \/ Top.polls = 1 /\ Top.method = "request_elevation" /\ AfterElevation(elevated)
  /\ OnlyStack

ElevationAnswered ==
  /\ \/ /\ Answered("request_elevation") /\ Top.conn = "admin"
        /\ elevated' = TRUE /\ AfterElevation(TRUE) /\ UNCHANGED clientVars
     \/ /\ Unanswered("request_elevation")
        /\ WaitForElevated("request_elevation") /\ UNCHANGED elevated
  /\ UNCHANGED <<host, backendVars, items, cursorRunning, enabled, clicks, raised, jobs>>

-----------------------------------------------------------------------------
(* Applies: _run_apply and what leads to it.                               *)

Applies(f) == Call(f, "apply")

\* Mutated form: the buttons stay enabled.
PreviewEnabled ==
  /\ At("preview")
  /\ Become(Applies(Top))
  /\ OnlyStack

Preview ==
  /\ At("preview")
  /\ enabled' = FALSE
  /\ Become(Applies(Top))
  /\ UNCHANGED <<host, backendVars, clientVars, viewVars, clicks, raised, jobs>>

Cancel == At("choose") /\ End /\ OnlyStack

\* What the boxes say will be installed: with "Yes = Skip Cursor and update everything
\* else", not Cursor.
Agreed(shown, skips) == IF skips THEN shown \ {Cursor} ELSE shown

\* Mutated form: the buttons stay enabled while it is sent.
ConfirmEnabled(shown, skips, asked) ==
  /\ Become([Applies(Top) EXCEPT !.asked = asked, !.agreed = @ \union {Agreed(shown, skips)},
                                !.skips = skips])
  /\ OnlyStack

\* The user confirms what is shown, perhaps without Cursor; what the handler asks for is
\* sent.  can_apply_real does not refuse, see InstallsElevated.
Confirm(shown, skips, asked) ==
  /\ enabled' = FALSE
  /\ Become([Applies(Top) EXCEPT !.asked = asked, !.agreed = @ \union {Agreed(shown, skips)},
                                !.skips = skips])
  /\ UNCHANGED <<host, backendVars, clientVars, viewVars, clicks, raised, jobs>>

\* The box says "Yes = Skip Cursor", but the checked packages stay as they are.
UpdateSelected(checked) ==
  /\ At("choose") /\ Top.doing = "update_selected"
  /\ checked # {} /\ checked \subseteq items
  /\ Confirm(checked, CursorGate /\ Cursor \in checked, checked)

\* Mutated form: update_all drops the answer, too.
UpdateAllUnskipped ==
  /\ At("choose") /\ Top.doing = "update_all"
  /\ Confirm(Package, CursorGate, Package)

\* skip_package_ids holds what _resolve_cursor_skip returned.
UpdateAll ==
  /\ At("choose") /\ Top.doing = "update_all"
  /\ LET skip == IF CursorGate THEN {Cursor} ELSE {}
     IN Confirm(Package, CursorGate, Package \ skip)

UpdateCursor ==
  /\ At("choose") /\ Top.doing = "update_cursor"
  /\ Confirm({Cursor}, FALSE, {Cursor})

\* Mutated form: a call that got no answer is made again.
ApplyFailsRetries ==
  /\ Unanswered("apply")
  /\ Become(Applies(Top))
  /\ OnlyStack

\* Mutated form: an apply that failed leaves the buttons disabled.
ApplyFailsStuck ==
  /\ Unanswered("apply")
  /\ End
  /\ OnlyStack

ApplyFails ==
  /\ Unanswered("apply")
  /\ enabled' = TRUE
  /\ End
  /\ UNCHANGED <<host, backendVars, clientVars, viewVars, clicks, raised, jobs>>

\* What was installed is followed by a refresh.
ApplySucceeds ==
  /\ Answered("apply")
  /\ enabled' = TRUE
  /\ \/ ~Real(Top) /\ End
     \/ Real(Top) /\ Become([Frame(Top.op, "refresh", "call", "detect_os") EXCEPT !.sent = Top.sent])
  /\ UNCHANGED <<host, backendVars, clientVars, viewVars, clicks, raised, jobs>>

-----------------------------------------------------------------------------
(* Backends and launchers (start-backend.ps1, start-backend-elevated.ps1).  *)

\* What listened is gone: its connections end, what it started runs on, an answer that
\* was sent still arrives.
Closed(as) ==
  [i \in DOMAIN stack |->
     IF stack[i].conn \in IF as = "admin" THEN {"admin", "running"} ELSE {as}
       THEN [stack[i] EXCEPT !.conn = "none"] ELSE stack[i]]

\* The security prompt is declined.
PromptDeclined ==
  /\ <<"admin", "stop">> \in launches
  /\ launches' = launches \ {<<"admin", "stop">>}
  /\ UNCHANGED <<host, port, adminSeen, crashes, clientVars, viewVars, enabled, clicks, raised, stack, jobs>>

\* Once the prompt, if any, is accepted, -Restart stops what listens, unless that has
\* rights the launcher lacks.
LauncherStops(as) ==
  /\ <<as, "stop">> \in launches
  /\ launches' = (launches \ {<<as, "stop">>}) \union {<<as, "start">>}
  /\ \/ as = "user" /\ port = "admin" /\ UNCHANGED <<port, stack>>
     \/ ~(as = "user" /\ port = "admin") /\ port' = "free" /\ stack' = Closed(port)
  /\ UNCHANGED <<host, adminSeen, crashes, clientVars, viewVars, enabled, clicks, raised, jobs>>

\* On a port that is taken, bind fails, or on Windows (SO_REUSEADDR) takes it over.
LauncherStarts(as) ==
  /\ <<as, "start">> \in launches
  /\ launches' = launches \ {<<as, "start">>}
  /\ \/ (port = "free" \/ host # "posix") /\ port' = as
     \/ port # "free" /\ UNCHANGED port
  /\ adminSeen' = (adminSeen \/ port' = "admin")
  /\ UNCHANGED <<host, crashes, clientVars, viewVars, enabled, clicks, raised, stack, jobs>>

BackendDies ==
  /\ port # "free" /\ crashes < MaxCrashes
  /\ crashes' = crashes + 1
  /\ port' = "free" /\ stack' = Closed(port)
  /\ UNCHANGED <<host, launches, adminSeen, clientVars, viewVars, enabled, clicks, raised, jobs>>

Job(f) == [op |-> f.op, doing |-> f.doing, asked |-> f.asked, agreed |-> f.agreed, skips |-> f.skips]

\* The backend at the other end of handler i's connection.
Serves(i, from, to) ==
  /\ Real(stack[i]) /\ stack[i].conn = from
  /\ stack' = [stack EXCEPT ![i] = [@ EXCEPT !.conn = to]]
  /\ UNCHANGED <<host, backendVars, clientVars, viewVars, enabled, clicks, raised>>

\* ApplyServer's gate: the window always sends confirm and the token, so only a
\* process without rights refuses.
ServeApply(i) == Serves(i, "admin", "running") /\ jobs' = jobs \union {Job(stack[i])}

\* A result that says something was updated; any other ends in Unanswered.
FinishApply(i) == Serves(i, "running", "done") /\ jobs' = jobs \ {Job(stack[i])}

\* A command whose backend or connection is gone runs on, and comes to its end.
JobEnds(job) ==
  /\ job \in jobs
  /\ ~\E i \in DOMAIN stack : stack[i].op = job.op /\ stack[i].conn = "running"
  /\ jobs' = jobs \ {job}
  /\ UNCHANGED <<host, backendVars, clientVars, viewVars, enabled, clicks, raised, stack>>

-----------------------------------------------------------------------------
Client ==
  \/ CallResumes \/ CallFallsBack \/ CallOnSocket
  \/ EnsureReady \/ EnsureSpawns \/ EnsureFails \/ BackendCame \/ BackendStaysAway

Window ==
  \/ Preview \/ RefreshOs \/ RefreshSources \/ RefreshUpdates
  \/ CheckElevated \/ RequestElevation \/ PollSucceeds \/ PollFails \/ ElevationAnswered
  \/ Cancel \/ (\E checked \in SUBSET items : UpdateSelected(checked)) \/ UpdateAll \/ UpdateCursor
  \/ ApplyFails \/ ApplySucceeds

Machine ==
  \/ PromptDeclined \/ BackendDies
  \/ \E as \in Users : LauncherStops(as) \/ LauncherStarts(as)
  \/ \E i \in DOMAIN stack : ServeApply(i) \/ FinishApply(i)
  \/ \E job \in jobs : JobEnds(job)

Next == Client \/ Window \/ Machine \/ \E button \in Buttons : Click(button)

Spec == Init /\ [][Next]_vars

\* The window's thread runs, waits end, and message boxes are answered.
FairSpec == Spec /\ WF_vars(Client \/ Window)
-----------------------------------------------------------------------------
(* Properties.                                                             *)

\* What an order asks for beyond what was agreed: update_selected sends the Cursor that
\* its user chose to skip (see SkippedCursorStays).
Unheard(order) == IF order.skips /\ order.doing = "update_selected" THEN {Cursor} ELSE {}

\* The order asks for what its boxes offered and its user confirmed, once.
AsAgreed(order) ==
  \E scope \in SUBSET Package :
    order.agreed = {scope} /\ scope \subseteq order.asked /\ order.asked \subseteq scope \union Unheard(order)

\* Whatever handlers are interrupted, backends replaced or answers missed, an apply that
\* runs goes back to a click, and asks for what the boxes of that click offered, without
\* Cursor where its user skipped it; but for update_selected's Cursor.
ChangesAreConfirmed == \A job \in jobs : AsAgreed(job)

\* A confirmed apply is sent to a backend once at most: no retry, fallback or
\* restarted backend runs it again.
AppliedOnce == \A i \in DOMAIN stack : stack[i].sent <= 1

Applying == {i \in DOMAIN stack : stack[i].method = "apply"}

\* Though clicks are handled while a call waits, the window never makes two applies at
\* a time.
OneApplyAtATime == Cardinality(Applying) <= 1

\* The buttons are disabled exactly while an apply is under way; only an apply that a
\* Lua error ended leaves them so.
ActionsFollowTheApply ==
  /\ Applying # {} => ~enabled
  /\ ~enabled => Applying # {} \/ "apply" \in raised

\* The boxes of an install come up, and the install is sent, only while the window takes
\* its backend for elevated, and one was there: whichever handlers ran meanwhile,
\* can_apply_real has nothing left to refuse.
InstallsElevated ==
  \A i \in DOMAIN stack : stack[i].at = "choose" \/ Real(stack[i]) => elevated /\ adminSeen

\* Each handler, with the calls, polls and boxes it goes through, comes to an end,
\* whether or not a backend ever answers.
HandlersEnd == []<>(stack = <<>>)

\* The install in hand is the top handler's, and its order is what a job would be.
InstallPhase ==
  CASE Top.at # "read" -> "confirmed"
    [] Top.at = "read" /\ Top.conn = "admin"   -> "sent"
    [] Top.at = "read" /\ Top.conn = "running" -> "running"
    [] Top.at = "read" /\ Top.conn = "done"    -> "finished"
    [] OTHER -> "lost"

Install ==
  IF stack # <<>> /\ Real(Top) THEN [phase |-> InstallPhase, order |-> Job(Top)] ELSE [phase |-> "none"]

Confirmable ==
  {order \in [op : Nat, doing : Buttons, asked : SUBSET Package, agreed : SUBSET (SUBSET Package),
              skips : BOOLEAN] : AsAgreed(order)}

Promise == INSTANCE InstallPromise WITH Order <- Confirmable, install <- Install, running <- jobs

\* The window implements InstallPromise: one confirmed order at a time, sent once, run
\* once, and lost rather than sent again.
KeepsPromise == Promise!Spec

\* On Windows an updater keeps to what was asked (UpdaterApply!OnlyWhatWasAsked),
\* elsewhere it updates everything.
Changes(job) == IF host = "posix" THEN Package ELSE job.asked

\* view_model.lua:150, cursor_gate_message: "Yes = Skip Cursor and update everything else".
SkippedCursorStays == host # "posix" => \A job \in jobs : job.skips => Cursor \notin Changes(job)
-----------------------------------------------------------------------------
(* The inductive invariant.                                                *)

Waiting == {"call", "await", "read", "poll"}
Frames  ==
  [op : Nat, doing : Buttons, at : Waiting \union {"check", "elevate", "preview", "choose"},
   method : Methods, polls : Int, conn : {"none", "user", "admin", "running", "done"},
   asked : SUBSET Package, agreed : SUBSET (SUBSET Package), skips : BOOLEAN, sent : Nat]

TypeOK ==
  /\ host \in Hosts /\ port \in {"free"} \union Users
  /\ launches \subseteq Users \X {"stop", "start"}
  /\ ready \in BOOLEAN /\ spawnAttempted \in BOOLEAN /\ useRpc \in BOOLEAN
  /\ elevated \in BOOLEAN /\ items \subseteq Package /\ cursorRunning \in BOOLEAN
  /\ enabled \in BOOLEAN /\ clicks \in Nat /\ raised \subseteq {"show", "apply"}
  /\ adminSeen \in BOOLEAN /\ stack \in Seq(Frames)

\* A handler that is not applying has neither asked, nor been agreed with, nor sent; only
\* a refresh remembers what was sent before it.
FrameInv(f) ==
  /\ f.op = 0 => f.doing = "refresh"
  /\ f.doing = "refresh" => f.at \in {"call", "await", "read"} /\ f.method # "request_elevation"
  /\ f.method = "apply" => f.at \in {"call", "await", "read"} /\ f.doing \notin {"refresh", "elevate"}
  /\ f.at = "poll" => f.method \in {"detect_os", "request_elevation"}
  /\ f.at = "preview" => f.doing = "preview"
  /\ f.at \in {"call", "await"} => f.conn = "none"
  /\ IF Real(f) THEN AsAgreed(f) ELSE f.agreed = {}
  /\ f.sent <= 1
  /\ f.sent # 0 => f.doing = "refresh" \/ (f.method = "apply" /\ f.at = "read")

\* Only the top handler applies or asks; what lies below it waits on a socket.
StackInv ==
  /\ \A i \in 1 .. Len(stack) : FrameInv(stack[i])
  /\ \A i \in 1 .. Len(stack) - 1 : stack[i].method # "apply" /\ stack[i].at \in Waiting

\* An elevated backend was there if the window believes in one or is connected to one.
AdminInv ==
  /\ elevated \/ port = "admin" => adminSeen
  /\ \A i \in 1 .. Len(stack) : stack[i].conn \in {"admin", "running", "done"} => adminSeen

TopInv ==
  /\ stack # <<>> /\ (Top.at = "choose" \/ Real(Top)) => elevated
  /\ stack # <<>> /\ Top.method = "apply" => ~enabled
  /\ ~enabled => (stack # <<>> /\ Top.method = "apply") \/ "apply" \in raised

Inv == TypeOK /\ StackInv /\ AdminInv /\ TopInv /\ ChangesAreConfirmed
=============================================================================
