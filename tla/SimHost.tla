------------------------------- MODULE SimHost -------------------------------
(***************************************************************************)
(* The web host (Sim.LiveHost): SimHost.cs with its runner, the receive    *)
(* and the send loop that Program.cs runs for each browser, and the page   *)
(* of HtmlPage.cs, with a scenario's own demand (no random traffic).       *)
(*                                                                         *)
(* A page's clicks go up its socket and are carried out one by one by its  *)
(* receive loop: obstacles through Invoke on the runner that is current    *)
(* when the click is looked at, a restart by replacing engine and runner   *)
(* under the lock.  Its send loop builds a frame under the same lock every *)
(* 50 ms, the same bytes again as long as the step is the same.            *)
(*                                                                         *)
(* A frame is the run and the step it was taken of.  On the wire it has    *)
(* the step alone: the page never looks at the run here.                   *)
(***************************************************************************)
EXTENDS Integers, Sequences, FiniteSetsExt

CONSTANTS
  Clients,     \* browsers, one page each
  MaxRuns,     \* bound: restarts and one
  MaxStep,     \* bound: steps of the last run; each run before it has one more
  MaxClicks,   \* bound: clicks, in all pages
  MaxFlight    \* bound: frames in a socket

ASSUME HostAssumption ==
  /\ {MaxRuns, MaxFlight} \subseteq Nat \ {0}
  /\ {MaxStep, MaxClicks} \subseteq Nat

VARIABLES
  run,       \* which engine and runner are current; the others are out of reach
  step,      \* its StepCount: that of the published snapshot
  incoming,  \* its commands posted and not applied
  engine,    \* its engine's obstacles
  obstacles, \* the host's markers of them
  cached,    \* _lastFrameStep and _lastFrameJson
  loop,      \* per client: what its receive loop is doing
  up,        \* per client: clicks on their way to the host
  down,      \* per client: frames on their way to the page
  page       \* per client: its lastStep, the frame it shows, its clicks so far

server  == <<run, step, incoming, engine, obstacles, cached>>
sockets == <<up, down>>
vars    == <<server, loop, sockets, page>>

LastStep(r) == MaxStep + MaxRuns - r
NoFrame     == [run |-> 0, step |-> -1]
Steps       == Nat \cup {-1}
Frames      == [run : Nat, step : Steps]
Pages       == [last : Steps, shown : Frames, clicks : Nat]
Clicks      == [client : Clients, nr : Nat, what : {"obstacle", "clear", "restart"}]
Commands    == {click \in Clicks : click.what # "restart"}
Obstacles   == {click \in Clicks : click.what = "obstacle"}
NoClick     == [client |-> "nobody", nr |-> 0, what |-> "none"]
Loops       == [at : {"idle", "invoke", "wait", "mark", "wipe"}, run : Nat,
                click : Clicks \cup {NoClick}]
Idle        == [at |-> "idle", run |-> 0, click |-> NoClick]

Init ==
  /\ run = 1
  /\ step = 0
  /\ incoming = <<>>
  /\ engine = {}
  /\ obstacles = {}
  /\ cached = [step |-> -1, frame |-> NoFrame]
  /\ loop = [c \in Clients |-> Idle]
  /\ up = [c \in Clients |-> <<>>]
  /\ down = [c \in Clients |-> <<>>]
  /\ page = [c \in Clients |-> [last |-> -1, shown |-> NoFrame, clicks |-> 0]]

-----------------------------------------------------------------------------
(* Obstacles, in an engine or among the host's markers.                    *)

\* A clear is taken for an obstacle.
After_KeepsClear(set, queue) ==
  LET clears == {i \in DOMAIN queue : queue[i].what = "clear"}
  IN {o \in set : clears = {}} \cup {queue[i] : i \in {k \in DOMAIN queue : \A j \in clears : j <= k}}

\* What a list of clicks leaves: a clear takes away all that came before it.
After(set, queue) ==
  LET clears == {i \in DOMAIN queue : queue[i].what = "clear"}
  IN {o \in set : clears = {}} \cup {queue[i] : i \in {k \in DOMAIN queue : \A j \in clears : j < k}}

-----------------------------------------------------------------------------
(* The runner.  A disposed one does not tick.                              *)

\* The calls that wait are not told.
Tick_TellsNobody ==
  /\ engine' = After(engine, incoming)
  /\ incoming' = <<>>
  /\ step' = IF step < LastStep(run) THEN step + 1 ELSE step
  /\ UNCHANGED <<run, obstacles, cached, loop, sockets, page>>

\* A Tick: the commands posted so far, each releasing the loop that waits for
\* it, one step, the snapshot.
Tick ==
  /\ engine' = After(engine, incoming)
  /\ loop' = [c \in Clients |->
       IF loop[c].at = "wait" /\ \E i \in DOMAIN incoming : incoming[i] = loop[c].click
         THEN [loop[c] EXCEPT !.at = "mark"] ELSE loop[c]]
  /\ incoming' = <<>>
  /\ step' = IF step < LastStep(run) THEN step + 1 ELSE step
  /\ UNCHANGED <<run, obstacles, cached, sockets, page>>

-----------------------------------------------------------------------------
(* The receive loop of a client: HandleClientMessage.                      *)

\* An obstacle or a clear reads the current runner under the lock.
ReadRunner(c) ==
  /\ loop[c] = Idle /\ up[c] # <<>> /\ Head(up[c]).what # "restart"
  /\ loop' = [loop EXCEPT ![c] = [at |-> "invoke", run |-> run, click |-> Head(up[c])]]
  /\ up' = [up EXCEPT ![c] = Tail(@)]
  /\ UNCHANGED <<server, down, page>>

\* Invoke posts and waits while that runner runs (a restart between its test
\* and its post leaves it where one after the post does, waiting)...
InvokePost(c) ==
  /\ loop[c].at = "invoke" /\ loop[c].run = run
  /\ incoming' = Append(incoming, loop[c].click)
  /\ loop' = [loop EXCEPT ![c].at = "wait"]
  /\ UNCHANGED <<run, step, engine, obstacles, cached, sockets, page>>

\* ...and runs the command itself, on an engine nobody sees again, when the
\* runner it read was disposed.
InvokeInline(c) ==
  /\ loop[c].at = "invoke" /\ loop[c].run # run
  /\ loop' = [loop EXCEPT ![c].at = "mark"]
  /\ UNCHANGED <<server, sockets, page>>

\* Invoke is back: the host's own list, under a lock of its own.
Mark(c) ==
  /\ loop[c].at = "mark"
  /\ obstacles' = After(obstacles, <<loop[c].click>>)
  /\ loop' = [loop EXCEPT ![c] = Idle]
  /\ UNCHANGED <<run, step, incoming, engine, cached, sockets, page>>

\* The frame cache outlives the run.
BuildSim_KeepsCache(c) ==
  /\ loop[c] = Idle /\ up[c] # <<>> /\ Head(up[c]).what = "restart"
  /\ run' = run + 1 /\ step' = 0 /\ incoming' = <<>> /\ engine' = {}
  /\ loop' = [loop EXCEPT ![c] = [at |-> "wipe", run |-> run + 1, click |-> Head(up[c])]]
  /\ up' = [up EXCEPT ![c] = Tail(@)]
  /\ UNCHANGED <<obstacles, cached, down, page>>

\* BuildSim, under the lock: a new engine and runner, started, and the old
\* one disposed.
BuildSim(c) ==
  /\ loop[c] = Idle /\ up[c] # <<>> /\ Head(up[c]).what = "restart"
  /\ run' = run + 1 /\ step' = 0 /\ incoming' = <<>> /\ engine' = {}
  /\ cached' = [cached EXCEPT !.step = -1]
  /\ loop' = [loop EXCEPT ![c] = [at |-> "wipe", run |-> run + 1, click |-> Head(up[c])]]
  /\ up' = [up EXCEPT ![c] = Tail(@)]
  /\ UNCHANGED <<obstacles, down, page>>

\* BuildSim, after the lock.
Wipe(c) ==
  /\ loop[c].at = "wipe"
  /\ obstacles' = {}
  /\ loop' = [loop EXCEPT ![c] = Idle]
  /\ UNCHANGED <<run, step, incoming, engine, cached, sockets, page>>

Serve(c) ==
  ReadRunner(c) \/ InvokePost(c) \/ InvokeInline(c) \/ Mark(c) \/ BuildSim(c) \/ Wipe(c)

-----------------------------------------------------------------------------
(* The send loop of a client: BuildFrameJson, and its bytes down the wire. *)

Send(c, frame) ==
  /\ Len(down[c]) < MaxFlight
  /\ down' = [down EXCEPT ![c] = Append(@, frame)]
  /\ UNCHANGED <<run, step, incoming, engine, obstacles, loop, up, page>>

\* BuildFrameJson under the lock, from the cache or anew.  The frame is on its
\* way from then on: the call that sends it comes after the lock is released.
SendCached(c) == step = cached.step /\ Send(c, cached.frame) /\ UNCHANGED cached

SendNew(c) ==
  LET frame == [run |-> run, step |-> step]
  IN /\ step # cached.step
     /\ cached' = [step |-> step, frame |-> frame]
     /\ Send(c, frame)

-----------------------------------------------------------------------------
(* The page.                                                               *)

\* A page takes newer frames only.
Ingest_NewestOnly(c) ==
  /\ down[c] # <<>>
  /\ down' = [down EXCEPT ![c] = Tail(@)]
  /\ LET f == Head(down[c])
     IN page' = [page EXCEPT ![c] =
          IF f.step <= @.last THEN @ ELSE [@ EXCEPT !.last = f.step, !.shown = f]]
  /\ UNCHANGED <<server, loop, up>>

\* ingestFrame: a frame of the step of the one before is ignored.
Ingest(c) ==
  /\ down[c] # <<>>
  /\ down' = [down EXCEPT ![c] = Tail(@)]
  /\ LET f == Head(down[c])
     IN page' = [page EXCEPT ![c] =
          IF f.step = @.last THEN @ ELSE [@ EXCEPT !.last = f.step, !.shown = f]]
  /\ UNCHANGED <<server, loop, up>>

\* How many clicks there were, for the bound.
Clicked == MapThenSumSet(LAMBDA c : page[c].clicks, Clients)

\* The click handlers.  On restart the page forgets the frame it had.
Click(c, what) ==
  /\ Clicked < MaxClicks
  /\ up' = [up EXCEPT ![c] = Append(@, [client |-> c, nr |-> page[c].clicks, what |-> what])]
  /\ page' = [page EXCEPT ![c] =
       [last   |-> IF what = "restart" THEN -1 ELSE @.last,
        shown  |-> IF what = "restart" THEN NoFrame ELSE @.shown,
        clicks |-> @.clicks + 1]]
  /\ UNCHANGED <<server, loop, down>>

\* The pages whose restart is on its way: one at a time, for the bound on runs.
Restarts == {c \in Clients : \E i \in DOMAIN up[c] : up[c][i].what = "restart"}

-----------------------------------------------------------------------------
Next ==
  \/ Tick
  \/ \E c \in Clients :
       \/ Serve(c)
       \/ SendCached(c) \/ SendNew(c)
       \/ Ingest(c)
       \/ Click(c, "obstacle") \/ Click(c, "clear")
       \/ run < MaxRuns /\ Restarts = {} /\ Click(c, "restart")

Spec == Init /\ [][Next]_vars

\* The runner paces on, the loops of each socket go on, and a browser keeps
\* reading.  Nobody has to click.
Fairness ==
  /\ WF_vars(Tick)
  /\ \A c \in Clients : /\ WF_vars(Serve(c))
                        /\ WF_vars(SendCached(c) \/ SendNew(c))
                        /\ WF_vars(Ingest(c))

FairSpec == Spec /\ Fairness

-----------------------------------------------------------------------------
(* Properties.                                                             *)

TypeOK ==
  /\ run \in Nat \ {0}
  /\ step \in Nat
  /\ incoming \in Seq(Commands)
  /\ engine \subseteq Obstacles
  /\ obstacles \subseteq Obstacles
  /\ cached \in [step : Steps, frame : Frames]
  /\ loop \in [Clients -> Loops]
  /\ up \in [Clients -> Seq(Clicks)]
  /\ down \in [Clients -> Seq(Frames)]
  /\ page \in [Clients -> Pages]

\* Every frame a send loop is handed to put on the wire is of the run and the
\* step that are current when it is built, whichever page restarts in between: the cache
\* that saves building it again never crosses a restart (SimHost.cs:118).
FramesAreOfNow ==
  [][\A c \in Clients : Len(down'[c]) > Len(down[c]) =>
       down'[c] = Append(down[c], [run |-> run, step |-> step])]_vars

\* Every page ends up on the current run, though the new run's steps are below
\* those it has seen, old frames are still on the wire and it may not be the
\* one that restarted (HtmlPage.cs:94).  A page that was left at the very step
\* the run stands still at, at the bound, is excused.
PagesFollowTheRun ==
  \A c \in Clients : <>[](page[c].shown.run = run \/ page[c].last = LastStep(run))

\* A call that waits on a runner that another page's restart has disposed.
Stranded(c) == loop[c].at = "wait" /\ loop[c].run # run

\* Each click is carried out, the receive loop being free again for the next
\* one, unless another page's restart takes the runner away under the call.
EveryClickIsServed ==
  \A c \in Clients : (up[c] # <<>>) ~> (up[c] = <<>> /\ loop[c] = Idle) \/ Stranded(c)

\* When no receive loop is at work the markers the pages draw are the
\* obstacles of the engine they drive against ("runner disposed mid-restart ->
\* drop this click", SimHost.cs:245).
MarkersAreObstacles ==
  (\A c \in Clients : loop[c] = Idle) => obstacles = engine
=============================================================================
