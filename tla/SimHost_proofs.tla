---------------------------- MODULE SimHost_proofs ----------------------------
(***************************************************************************)
(* Proofs about SimHost: its types, the frames on the wire, and the        *)
(* markers when one page is open.                                          *)
(***************************************************************************)
EXTENDS SimHost, TLAPS

\* What is in a call's hands is a command.
CallsAreCommands ==
  \A c \in Clients : loop[c].at \in {"invoke", "wait", "mark"} => loop[c].click \in Commands

\* A frame is saved with its step, and is of the current run.
CacheIsOfThisRun ==
  cached.step # -1 => cached.frame = [run |-> run, step |-> cached.step]

IInv == TypeOK /\ CallsAreCommands /\ CacheIsOfThisRun

-----------------------------------------------------------------------------
\* What is left of obstacles and commands are obstacles (UpdateObstacles by
\* AddObstacle and ClearObstacles alone).
LEMMA AfterType ==
  ASSUME NEW set \in SUBSET Obstacles, NEW queue \in Seq(Commands)
  PROVE  After(set, queue) \subseteq Obstacles
<1> DEFINE clears == {i \in DOMAIN queue : queue[i].what = "clear"}
           left == {k \in DOMAIN queue : \A j \in clears : j < k}
<1>1. ASSUME NEW k \in left PROVE queue[k] \in Obstacles
  <2>1. k \in DOMAIN queue /\ k \in Int /\ k \notin clears
    BY <1>1
  <2>2. queue[k] \in Commands /\ queue[k].what # "clear"
    BY <2>1
  <2> QED BY <2>2 DEF Commands, Obstacles, Clicks
<1>2. After(set, queue) = {o \in set : clears = {}} \cup {queue[k] : k \in left}
  BY DEF After
<1> QED BY <1>1, <1>2

LEMMA OneCommand ==
  ASSUME NEW set \in SUBSET Obstacles, NEW click \in Commands
  PROVE  After(set, <<click>>) \subseteq Obstacles
<1>1. <<click>> \in Seq(Commands)
  OBVIOUS
<1> QED BY <1>1, AfterType

LEMMA Initially == ASSUME HostAssumption, Init PROVE IInv
<1> USE DEF Init
<1>1. TypeOK
  BY DEF TypeOK, Obstacles, Steps, Frames, NoFrame, Idle, NoClick, Clicks, Commands, Loops, Pages
<1>2. CallsAreCommands /\ CacheIsOfThisRun
  BY DEF CallsAreCommands, CacheIsOfThisRun, Idle
<1> QED BY <1>1, <1>2 DEF IInv

-----------------------------------------------------------------------------
(* The types, one lemma per action.                                        *)

LEMMA TickTypes == ASSUME IInv, Tick PROVE TypeOK' /\ CallsAreCommands'
<1> USE DEF IInv, Tick, TypeOK, server, sockets
<1>1. engine' \subseteq Obstacles
  BY AfterType
<1>2. step' \in Nat /\ incoming' \in Seq(Commands)
  BY DEF LastStep
<1>3. ASSUME NEW c \in Clients
      PROVE  /\ loop'[c].at \in {loop[c].at, "mark"} /\ loop'[c].click = loop[c].click
             /\ loop'[c] \in Loops
  BY DEF Loops
<1>4. loop' \in [Clients -> Loops]
  BY <1>3
<1>5. TypeOK'
  BY <1>1, <1>2, <1>4
<1>6. CallsAreCommands'
  BY DEF CallsAreCommands
<1> QED BY <1>5, <1>6

\* The loop of a client takes a new state: types and calls are as good as that
\* state is.
LEMMA LoopTypes ==
  ASSUME TypeOK, CallsAreCommands, NEW c \in Clients, NEW new \in Loops,
         new.at \in {"invoke", "wait", "mark"} => new.click \in Commands,
         loop' = [loop EXCEPT ![c] = new]
  PROVE  loop' \in [Clients -> Loops] /\ CallsAreCommands'
BY DEF TypeOK, CallsAreCommands

\* The first click of a socket, taken off it.
LEMMA HeadType ==
  ASSUME TypeOK, NEW c \in Clients, up[c] # <<>>
  PROVE  /\ Head(up[c]) \in Clicks
         /\ [up EXCEPT ![c] = Tail(@)] \in [Clients -> Seq(Clicks)]
<1>1. up[c] \in Seq(Clicks) /\ up[c] # <<>>
  BY DEF TypeOK
<1>2. Head(up[c]) \in Clicks /\ Tail(up[c]) \in Seq(Clicks)
  BY <1>1
<1> QED BY <1>2 DEF TypeOK

LEMMA ReadRunnerTypes ==
  ASSUME IInv, NEW c \in Clients, ReadRunner(c) PROVE TypeOK' /\ CallsAreCommands'
<1> USE DEF IInv
<1>1. Head(up[c]) \in Commands /\ up' \in [Clients -> Seq(Clicks)]
  BY HeadType DEF ReadRunner, Commands
<1> DEFINE new == [at |-> "invoke", run |-> run, click |-> Head(up[c])]
<1>2. loop' = [loop EXCEPT ![c] = new] /\ new \in Loops /\ new.click \in Commands
  BY <1>1 DEF ReadRunner, Loops, Commands, TypeOK
<1> HIDE DEF new
<1>3. CallsAreCommands' /\ loop' \in [Clients -> Loops]
  BY <1>2, LoopTypes
<1> QED BY <1>1, <1>3 DEF ReadRunner, TypeOK, server

\* A loop moves on with the click it has.
LEMMA MovesOn ==
  ASSUME TypeOK, CallsAreCommands, NEW c \in Clients,
         NEW at \in {"wait", "mark"}, loop[c].at \in {"invoke", "wait"},
         loop' = [loop EXCEPT ![c].at = at]
  PROVE  loop' \in [Clients -> Loops] /\ CallsAreCommands'
<1>1. loop[c] \in Loops /\ loop[c].click \in Commands
  BY DEF TypeOK, CallsAreCommands
<1> DEFINE new == [loop[c] EXCEPT !.at = at]
<1>2. new \in Loops /\ new.click = loop[c].click
  BY <1>1 DEF Loops
<1>3. loop' = [loop EXCEPT ![c] = new]
  OBVIOUS
<1> HIDE DEF new
<1> QED BY <1>1, <1>2, <1>3 DEF TypeOK, CallsAreCommands

LEMMA InvokeTypes ==
  ASSUME IInv, NEW c \in Clients, InvokePost(c) \/ InvokeInline(c)
  PROVE  TypeOK' /\ CallsAreCommands'
<1> USE DEF IInv
<1>1. CASE InvokePost(c)
  <2>1. loop[c].click \in Commands
    BY <1>1 DEF InvokePost, CallsAreCommands
  <2>2. incoming' \in Seq(Commands)
    BY <1>1, <2>1 DEF InvokePost, TypeOK
  <2>3. CallsAreCommands' /\ loop' \in [Clients -> Loops]
    BY <1>1, MovesOn DEF InvokePost
  <2> QED BY <1>1, <2>2, <2>3 DEF InvokePost, TypeOK, sockets
<1>2. CASE InvokeInline(c)
  <2>1. CallsAreCommands' /\ loop' \in [Clients -> Loops]
    BY <1>2, MovesOn DEF InvokeInline
  <2> QED BY <1>2, <2>1 DEF InvokeInline, TypeOK, sockets, server
<1> QED BY <1>1, <1>2

LEMMA MarkTypes ==
  ASSUME IInv, NEW c \in Clients, Mark(c) \/ Wipe(c)
  PROVE  TypeOK' /\ CallsAreCommands'
<1> USE DEF IInv
<1>1. loop' = [loop EXCEPT ![c] = Idle] /\ Idle \in Loops /\ Idle.at = "idle"
  BY DEF Mark, Wipe, Idle, Loops
<1>2. CallsAreCommands' /\ loop' \in [Clients -> Loops]
  BY <1>1, LoopTypes
<1>3. obstacles' \subseteq Obstacles
  BY OneCommand DEF Mark, Wipe, CallsAreCommands, TypeOK
<1> QED BY <1>2, <1>3 DEF Mark, Wipe, TypeOK, sockets

LEMMA BuildSimTypes ==
  ASSUME IInv, NEW c \in Clients, BuildSim(c) PROVE TypeOK' /\ CallsAreCommands'
<1> USE DEF IInv
<1>1. Head(up[c]) \in Clicks /\ up' \in [Clients -> Seq(Clicks)]
  BY HeadType DEF BuildSim
<1>2. run' \in Nat \ {0}
  BY DEF BuildSim, TypeOK
<1> DEFINE new == [at |-> "wipe", run |-> run + 1, click |-> Head(up[c])]
<1>3. loop' = [loop EXCEPT ![c] = new] /\ new \in Loops /\ new.at = "wipe"
  BY <1>1, <1>2 DEF BuildSim, Loops
<1> HIDE DEF new
<1>4. CallsAreCommands' /\ loop' \in [Clients -> Loops]
  BY <1>3, LoopTypes
<1>5. incoming' \in Seq(Commands) /\ engine' \subseteq Obstacles /\ step' \in Nat
  BY DEF BuildSim
<1>6. cached' \in [step : Steps, frame : Frames]
  BY DEF BuildSim, TypeOK, Steps
<1> QED BY <1>1, <1>2, <1>4, <1>5, <1>6 DEF BuildSim, TypeOK

LEMMA SendTypes ==
  ASSUME IInv, NEW c \in Clients, SendCached(c) \/ SendNew(c)
  PROVE  TypeOK' /\ CallsAreCommands'
<1> USE DEF IInv
<1>1. cached.frame \in Frames /\ [run |-> run, step |-> step] \in Frames /\ step \in Steps
  BY DEF TypeOK, Frames, Steps
<1>2. PICK frame \in Frames : Send(c, frame)
  BY <1>1 DEF SendCached, SendNew
<1>3. down' \in [Clients -> Seq(Frames)]
  BY <1>2 DEF Send, TypeOK
<1>4. cached' \in [step : Steps, frame : Frames]
  BY <1>1 DEF SendCached, SendNew, TypeOK
<1>5. UNCHANGED <<run, step, incoming, engine, obstacles, loop, up, page>>
  BY <1>2 DEF Send
<1>6. TypeOK'
  BY <1>3, <1>4, <1>5 DEF TypeOK
<1> QED BY <1>5, <1>6 DEF CallsAreCommands

LEMMA PageTypes ==
  ASSUME IInv, NEW c \in Clients,
         Ingest(c) \/ \E what \in {"obstacle", "clear", "restart"} : Click(c, what)
  PROVE  TypeOK' /\ CallsAreCommands'
<1> USE DEF IInv
<1>1. CASE Ingest(c)
  <2>1. Head(down[c]) \in Frames /\ Tail(down[c]) \in Seq(Frames)
    BY <1>1 DEF Ingest, TypeOK
  <2>2. page[c] \in Pages /\ Head(down[c]).step \in Steps
    BY <2>1 DEF TypeOK, Frames
  <2>3. page' \in [Clients -> Pages]
    BY <1>1, <2>1, <2>2 DEF Ingest, TypeOK, Pages
  <2> QED BY <1>1, <2>1, <2>3 DEF Ingest, TypeOK, server, CallsAreCommands
<1>2. ASSUME NEW what \in {"obstacle", "clear", "restart"}, Click(c, what)
      PROVE  TypeOK' /\ CallsAreCommands'
  <2>1. page[c] \in Pages /\ NoFrame \in Frames /\ -1 \in Steps
    BY DEF TypeOK, Frames, NoFrame, Steps
  <2>2. page' \in [Clients -> Pages]
    BY <1>2, <2>1 DEF Click, TypeOK, Pages
  <2>3. [client |-> c, nr |-> page[c].clicks, what |-> what] \in Clicks
    BY <2>1 DEF Clicks, Pages
  <2>4. up' \in [Clients -> Seq(Clicks)]
    BY <1>2, <2>3 DEF Click, TypeOK
  <2> QED BY <1>2, <2>2, <2>4 DEF Click, TypeOK, server, CallsAreCommands
<1> QED BY <1>1, <1>2

-----------------------------------------------------------------------------
(* The invariant.                                                          *)

LEMMA Inductive == ASSUME IInv, [Next]_vars PROVE IInv'
<1> USE DEF IInv
<1>1. CASE Tick
  <2>1. CacheIsOfThisRun'
    BY <1>1 DEF Tick, CacheIsOfThisRun
  <2> QED BY <1>1, <2>1, TickTypes
<1>2. ASSUME NEW c \in Clients, Serve(c) PROVE IInv'
  <2>1. TypeOK' /\ CallsAreCommands'
    BY <1>2, ReadRunnerTypes, InvokeTypes, MarkTypes, BuildSimTypes DEF Serve
  <2>2. CASE BuildSim(c)
    BY <2>1, <2>2 DEF BuildSim, CacheIsOfThisRun, TypeOK
  <2>3. CASE ~BuildSim(c)
    BY <1>2, <2>1, <2>3
    DEF Serve, ReadRunner, InvokePost, InvokeInline, Mark, Wipe, server, CacheIsOfThisRun
  <2> QED BY <2>2, <2>3
<1>3. ASSUME NEW c \in Clients, SendCached(c) \/ SendNew(c) PROVE IInv'
  <2>1. CacheIsOfThisRun'
    BY <1>3 DEF SendCached, SendNew, Send, CacheIsOfThisRun
  <2> QED BY <1>3, <2>1, SendTypes
<1>4. ASSUME NEW c \in Clients,
             Ingest(c) \/ \E what \in {"obstacle", "clear", "restart"} : Click(c, what)
      PROVE  IInv'
  <2>1. CacheIsOfThisRun'
    BY <1>4 DEF Ingest, Click, server, CacheIsOfThisRun
  <2> QED BY <1>4, <2>1, PageTypes
<1>5. CASE UNCHANGED vars
  BY <1>5 DEF vars, server, sockets, TypeOK, CallsAreCommands, CacheIsOfThisRun
<1> QED BY <1>1, <1>2, <1>3, <1>4, <1>5 DEF Next

\* Types, for any number of pages and whatever is clicked.
THEOREM TypeCorrect == Spec => []TypeOK
<1>1. Init => IInv
  BY HostAssumption, Initially
<1>2. IInv /\ [Next]_vars => IInv'
  BY Inductive
<1>3. IInv => TypeOK
  BY DEF IInv
<1> QED BY <1>1, <1>2, <1>3, PTL DEF Spec

\* What is put on a wire is of the run and step that are current.
LEMMA SendsNow ==
  ASSUME IInv, [Next]_vars, NEW c \in Clients, Len(down'[c]) > Len(down[c])
  PROVE  down'[c] = Append(down[c], [run |-> run, step |-> step])
<1> USE DEF IInv
<1>1. down[c] \in Seq(Frames)
  BY DEF TypeOK
<1>2. down'[c] # down[c]
  BY <1>1
<1>3. PICK d \in Clients : SendCached(d) \/ SendNew(d) \/ Ingest(d)
  BY <1>2 DEF Next, vars, sockets, server, Tick, Serve, ReadRunner, InvokePost, InvokeInline,
              Mark, BuildSim, Wipe, Click
<1>4. CASE Ingest(d)
  <2>1. d = c /\ down'[c] = Tail(down[c]) /\ down[c] # <<>>
    BY <1>2, <1>4 DEF Ingest, TypeOK
  <2>2. Len(Tail(down[c])) = Len(down[c]) - 1 /\ Len(down[c]) \in Nat
    BY <1>1, <2>1
  <2> QED BY <2>1, <2>2
<1>5. CASE SendCached(d)
  <2>1. cached.frame = [run |-> run, step |-> step]
    BY <1>5 DEF SendCached, CacheIsOfThisRun, TypeOK
  <2>2. d = c /\ down'[c] = Append(down[c], cached.frame)
    BY <1>2, <1>5 DEF SendCached, Send, TypeOK
  <2> QED BY <2>1, <2>2
<1>6. CASE SendNew(d)
  BY <1>2, <1>6 DEF SendNew, Send, TypeOK
<1> QED BY <1>3, <1>4, <1>5, <1>6

\* No frame of a run that was replaced is sent after it, from the cache or
\* otherwise (BuildFrameJson under the lock of BuildSim).
THEOREM FreshFrames == Spec => FramesAreOfNow
<1>1. Init => IInv
  BY HostAssumption, Initially
<1>2. IInv /\ [Next]_vars => IInv'
  BY Inductive
<1>3. IInv /\ [Next]_vars =>
        [\A c \in Clients : Len(down'[c]) > Len(down[c]) =>
           down'[c] = Append(down[c], [run |-> run, step |-> step])]_vars
  BY SendsNow
<1> QED BY <1>1, <1>2, <1>3, PTL DEF Spec, FramesAreOfNow

-----------------------------------------------------------------------------
(* One page: nobody restarts under its calls, and the markers are right.   *)

\* The markers and the engine, at each point of the page's receive loop.
OnePageInv(c) ==
  /\ loop[c].at \in {"idle", "invoke"} => incoming = <<>> /\ obstacles = engine
  /\ loop[c].at = "invoke" => loop[c].run = run
  /\ loop[c].at = "wait" => incoming = <<loop[c].click>> /\ obstacles = engine
  /\ loop[c].at = "mark" => incoming = <<>> /\ engine = After(obstacles, <<loop[c].click>>)
  /\ loop[c].at = "wipe" => incoming = <<>> /\ engine = {}

LEMMA AfterNothing == ASSUME NEW set PROVE After(set, <<>>) = set
BY DEF After

LEMMA OnePageTick ==
  ASSUME NEW c, Clients = {c}, IInv, OnePageInv(c), Tick
  PROVE  OnePageInv(c)'
<1> USE DEF OnePageInv
<1>1. loop[c] \in Loops /\ loop \in [Clients -> Loops]
  BY DEF IInv, TypeOK
<1>2. CASE loop[c].at = "wait"
  <2>1. \E i \in DOMAIN incoming : incoming[i] = loop[c].click
    BY <1>2
  <2>2. loop'[c] = [loop[c] EXCEPT !.at = "mark"]
    BY <1>2, <2>1 DEF Tick
  <2>3. loop'[c].at = "mark" /\ loop'[c].click = loop[c].click
    BY <1>1, <2>2 DEF Loops
  <2> QED BY <1>2, <2>3 DEF Tick
<1>3. CASE loop[c].at # "wait"
  <2>1. loop'[c] = loop[c] /\ incoming = <<>> /\ engine' = engine
    BY <1>1, <1>3, AfterNothing DEF Tick, Loops
  <2> QED BY <1>3, <2>1 DEF Tick
<1> QED BY <1>2, <1>3

LEMMA OnePageServe ==
  ASSUME NEW c, Clients = {c}, IInv, OnePageInv(c), Serve(c)
  PROVE  OnePageInv(c)'
<1> USE DEF OnePageInv
<1>1. loop[c] \in Loops /\ loop \in [Clients -> Loops]
  BY DEF IInv, TypeOK
<1>2. CASE ReadRunner(c)
  BY <1>1, <1>2 DEF ReadRunner, Idle, server
<1>3. CASE InvokePost(c)
  <2>1. loop'[c].at = "wait" /\ loop'[c].click = loop[c].click
    BY <1>1, <1>3 DEF InvokePost, Loops
  <2>2. incoming' = <<loop[c].click>>
    BY <1>3 DEF InvokePost
  <2> QED BY <1>3, <2>1, <2>2 DEF InvokePost
<1>4. ~InvokeInline(c)
  BY DEF InvokeInline
<1>5. CASE Mark(c)
  BY <1>1, <1>5 DEF Mark, Idle
<1>6. CASE BuildSim(c)
  BY <1>1, <1>6 DEF BuildSim
<1>7. CASE Wipe(c)
  BY <1>1, <1>7 DEF Wipe, Idle
<1> QED BY <1>2, <1>3, <1>4, <1>5, <1>6, <1>7 DEF Serve

\* With one page open its markers are the engine's obstacles whenever its
\* receive loop is idle (SimHost.cs:225-275): it takes a second page's restart
\* to part them.
THEOREM OnePageMarkers ==
  ASSUME NEW c, Clients = {c}
  PROVE  Spec => []MarkersAreObstacles
<1>1. Init => IInv /\ OnePageInv(c)
  BY HostAssumption, Initially DEF Init, OnePageInv, Idle
<1>2. IInv /\ OnePageInv(c) /\ [Next]_vars => (IInv /\ OnePageInv(c))'
  <2> SUFFICES ASSUME IInv, OnePageInv(c), [Next]_vars
               PROVE  (IInv /\ OnePageInv(c))'
    OBVIOUS
  <2>1. CASE Tick
    BY <2>1, Inductive, OnePageTick
  <2>2. CASE Serve(c)
    BY <2>2, Inductive, OnePageServe
  <2>3. ASSUME UNCHANGED <<run, incoming, engine, obstacles, loop>> PROVE OnePageInv(c)'
    BY <2>3 DEF OnePageInv
  <2>4. CASE UNCHANGED vars
    BY <2>3, <2>4, Inductive DEF vars, server
  <2>5. ASSUME SendCached(c) \/ SendNew(c) \/ Ingest(c)
                 \/ \E what \in {"obstacle", "clear", "restart"} : Click(c, what)
        PROVE  (IInv /\ OnePageInv(c))'
    BY <2>3, <2>5, Inductive DEF SendCached, SendNew, Send, Ingest, Click, server
  <2> QED BY <2>1, <2>2, <2>4, <2>5 DEF Next
<1>3. IInv /\ OnePageInv(c) => MarkersAreObstacles
  BY DEF MarkersAreObstacles, OnePageInv, Idle
<1> QED BY <1>1, <1>2, <1>3, PTL DEF Spec

-----------------------------------------------------------------------------
(* The order of the frames.                                                *)

\* Frame f is of the time of frame g or before: of an earlier run, or of the
\* same one and not a later step.
Upto(f, g) == f.run < g.run \/ (f.run = g.run /\ f.step <= g.step)

\* A page shows a frame not later than those on its wire, which follow each
\* other in time and are not later than the present.
InOrder(shown, wire, now) ==
  /\ Upto(shown, now)
  /\ \A i \in 1..Len(wire) : Upto(shown, wire[i]) /\ Upto(wire[i], now)
  /\ \A i, j \in 1..Len(wire) : i <= j => Upto(wire[i], wire[j])

Present == [run |-> run, step |-> step]

\* What a page shows and what is on its way to it are in the order of runs and
\* steps, though the steps of a run are below those of the run before.
FramesInOrder == \A c \in Clients : InOrder(page[c].shown, down[c], Present)

LEMMA UptoOrder ==
  ASSUME NEW f \in Frames
  PROVE  /\ Upto(f, f) /\ Upto(NoFrame, f)
         /\ \A g, h \in Frames : Upto(f, g) /\ Upto(g, h) => Upto(f, h)
BY DEF Upto, Frames, Steps, NoFrame

LEMMA OrderLater ==
  ASSUME NEW shown \in Frames, NEW wire \in Seq(Frames), NEW now \in Frames, NEW then \in Frames,
         InOrder(shown, wire, now), Upto(now, then)
  PROVE  InOrder(shown, wire, then)
<1>1. \A i \in 1..Len(wire) : wire[i] \in Frames
  OBVIOUS
<1> QED BY <1>1, UptoOrder DEF InOrder

LEMMA OrderSend ==
  ASSUME NEW shown \in Frames, NEW wire \in Seq(Frames), NEW now \in Frames,
         InOrder(shown, wire, now)
  PROVE  InOrder(shown, Append(wire, now), now)
<1> DEFINE longer == Append(wire, now)
<1>1. /\ Len(wire) \in Nat /\ Len(longer) = Len(wire) + 1
      /\ \A i \in 1..Len(longer) : longer[i] = IF i <= Len(wire) THEN wire[i] ELSE now
  OBVIOUS
<1> HIDE DEF longer
<1>2. ASSUME NEW i \in 1..Len(longer) PROVE Upto(shown, longer[i]) /\ Upto(longer[i], now)
  <2>1. CASE i <= Len(wire)
    BY <1>1, <2>1 DEF InOrder
  <2>2. CASE ~(i <= Len(wire))
    BY <1>1, <2>2, UptoOrder DEF InOrder
  <2> QED BY <2>1, <2>2
<1>3. ASSUME NEW i \in 1..Len(longer), NEW j \in 1..Len(longer), i <= j
      PROVE  Upto(longer[i], longer[j])
  <2>1. CASE j <= Len(wire)
    <3>1. i \in 1..Len(wire) /\ j \in 1..Len(wire)
      BY <1>1, <1>3, <2>1
    <3> QED BY <1>1, <1>3, <2>1, <3>1 DEF InOrder
  <2>2. CASE ~(j <= Len(wire))
    BY <1>1, <1>2, <2>2
  <2> QED BY <2>1, <2>2
<1> QED BY <1>2, <1>3 DEF InOrder, longer

LEMMA OrderTake ==
  ASSUME NEW shown \in Frames, NEW wire \in Seq(Frames), NEW now \in Frames, wire # <<>>,
         InOrder(shown, wire, now)
  PROVE  /\ Head(wire) \in Frames /\ Tail(wire) \in Seq(Frames)
         /\ InOrder(shown, Tail(wire), now)
         /\ InOrder(Head(wire), Tail(wire), now)
<1> DEFINE rest == Tail(wire)
<1>1. /\ Len(wire) \in Nat \ {0} /\ Len(rest) = Len(wire) - 1
      /\ Head(wire) = wire[1] /\ \A i \in 1..Len(rest) : rest[i] = wire[i + 1]
      /\ Head(wire) \in Frames /\ rest \in Seq(Frames)
  OBVIOUS
<1> HIDE DEF rest
<1>2. \A i \in 1..Len(rest) : i + 1 \in 1..Len(wire) /\ 1 <= i + 1 /\ 1 \in 1..Len(wire)
  BY <1>1
<1>3. Upto(Head(wire), now)
  BY <1>1 DEF InOrder
<1>4. \A i \in 1..Len(rest) : Upto(shown, rest[i]) /\ Upto(rest[i], now) /\ Upto(Head(wire), rest[i])
  BY <1>1, <1>2 DEF InOrder
<1>5. \A i, j \in 1..Len(rest) : i <= j => Upto(rest[i], rest[j])
  <2> TAKE i \in 1..Len(rest), j \in 1..Len(rest)
  <2> HAVE i <= j
  <2>1. i + 1 \in 1..Len(wire) /\ j + 1 \in 1..Len(wire) /\ i + 1 <= j + 1
    BY <1>1
  <2> QED BY <1>1, <2>1 DEF InOrder
<1> QED BY <1>1, <1>3, <1>4, <1>5 DEF InOrder, rest

LEMMA OrderForget ==
  ASSUME NEW wire \in Seq(Frames), NEW now \in Frames, NEW shown, InOrder(shown, wire, now)
  PROVE  InOrder(NoFrame, wire, now)
<1>1. \A i \in 1..Len(wire) : wire[i] \in Frames
  OBVIOUS
<1> QED BY <1>1, UptoOrder DEF InOrder

LEMMA OrderStep ==
  ASSUME IInv, FramesInOrder, [Next]_vars
  PROVE  FramesInOrder'
<1> USE DEF FramesInOrder
<1>1. /\ Present \in Frames /\ Present' \in Frames /\ NoFrame \in Frames
      /\ \A c \in Clients : /\ page[c].shown \in Frames /\ page[c] \in Pages
                            /\ down[c] \in Seq(Frames)
      /\ down \in [Clients -> Seq(Frames)] /\ page \in [Clients -> Pages]
  BY Inductive DEF IInv, TypeOK, Present, Frames, Steps, Pages, NoFrame
<1>2. ASSUME UNCHANGED <<down, page>>, Upto(Present, Present') PROVE FramesInOrder'
  BY <1>1, <1>2, OrderLater
<1>3. ASSUME UNCHANGED <<down, page, run, step>> PROVE FramesInOrder'
  BY <1>3 DEF Present
<1>4. CASE Tick
  <2>1. UNCHANGED <<run, down, page>> /\ (step' = step + 1 \/ step' = step) /\ step \in Nat
    BY <1>4 DEF Tick, sockets, IInv, TypeOK
  <2> QED BY <1>2, <2>1 DEF Upto, Present
<1>5. ASSUME NEW c \in Clients, Serve(c) PROVE FramesInOrder'
  <2>1. CASE BuildSim(c)
    <3>1. UNCHANGED <<down, page>> /\ run' = run + 1 /\ run \in Nat
      BY <2>1 DEF BuildSim, IInv, TypeOK
    <3> QED BY <1>2, <3>1 DEF Upto, Present
  <2>2. CASE ~BuildSim(c)
    BY <1>3, <1>5, <2>2 DEF Serve, ReadRunner, InvokePost, InvokeInline, Mark, Wipe, server, sockets
  <2> QED BY <2>1, <2>2
<1>6. ASSUME NEW c \in Clients, SendCached(c) \/ SendNew(c) PROVE FramesInOrder'
  <2>1. /\ down' = [down EXCEPT ![c] = Append(down[c], Present)]
        /\ UNCHANGED <<page, run, step>>
    <3>1. CASE SendCached(c)
      <4>1. cached.frame = Present
        BY <3>1 DEF SendCached, CacheIsOfThisRun, IInv, TypeOK, Present
      <4> QED BY <3>1, <4>1 DEF SendCached, Send
    <3>2. CASE SendNew(c)
      BY <3>2 DEF SendNew, Send, Present
    <3> QED BY <1>6, <3>1, <3>2
  <2>2. Present' = Present
    BY <2>1 DEF Present
  <2>3. \A d \in Clients : down'[d] = IF d = c THEN Append(down[c], Present) ELSE down[d]
    BY <1>1, <2>1
  <2>4. InOrder(page[c].shown, Append(down[c], Present), Present)
    BY <1>1, OrderSend
  <2> QED BY <2>1, <2>2, <2>3, <2>4
<1>7. ASSUME NEW c \in Clients, Ingest(c) PROVE FramesInOrder'
  <2>1. /\ down[c] # <<>> /\ down' = [down EXCEPT ![c] = Tail(down[c])]
        /\ UNCHANGED <<run, step>>
        /\ page'[c].shown = page[c].shown \/ page'[c].shown = Head(down[c])
        /\ \A d \in Clients : d # c => page'[d] = page[d]
    BY <1>1, <1>7 DEF Ingest, server, Pages
  <2>2. Present' = Present
    BY <2>1 DEF Present
  <2>3. \A d \in Clients : down'[d] = IF d = c THEN Tail(down[c]) ELSE down[d]
    BY <1>1, <2>1
  <2>4. InOrder(page[c].shown, Tail(down[c]), Present) /\ InOrder(Head(down[c]), Tail(down[c]), Present)
    BY <1>1, <2>1, OrderTake
  <2> QED BY <2>1, <2>2, <2>3, <2>4
<1>8. ASSUME NEW c \in Clients, NEW what, Click(c, what) PROVE FramesInOrder'
  <2>1. /\ UNCHANGED <<run, step, down>>
        /\ page'[c].shown = page[c].shown \/ page'[c].shown = NoFrame
        /\ \A d \in Clients : d # c => page'[d] = page[d]
    BY <1>1, <1>8 DEF Click, server, Pages
  <2>2. Present' = Present
    BY <2>1 DEF Present
  <2>3. InOrder(NoFrame, down[c], Present)
    BY <1>1, OrderForget
  <2> QED BY <2>1, <2>2, <2>3
<1>9. CASE UNCHANGED vars
  BY <1>3, <1>9 DEF vars, server, sockets
<1> QED BY <1>4, <1>5, <1>6, <1>7, <1>8, <1>9 DEF Next

\* Whatever is on the wires when a page restarts the simulation, no page sees a
\* frame of the old run after one of the new run, nor an earlier step after a
\* later one, unless it has forgotten what it showed by a restart of its own
\* (HtmlPage.cs:94).
THEOREM FramesArriveInOrder == Spec => []FramesInOrder
<1>1. Init => IInv /\ FramesInOrder
  <2> SUFFICES ASSUME Init PROVE IInv /\ FramesInOrder
    OBVIOUS
  <2>1. Present \in Frames /\ \A c \in Clients : page[c].shown = NoFrame /\ down[c] = <<>>
    BY DEF Init, Present, Frames, Steps
  <2>2. \A c \in Clients : Len(down[c]) = 0
    BY <2>1
  <2> QED BY <2>1, <2>2, HostAssumption, Initially, UptoOrder DEF FramesInOrder, InOrder
<1>2. IInv /\ FramesInOrder /\ [Next]_vars => (IInv /\ FramesInOrder)'
  BY Inductive, OrderStep
<1> QED BY <1>1, <1>2, PTL DEF Spec

-----------------------------------------------------------------------------
(* Calls that wait.                                                        *)

\* A receive loop that waits has its command among those of the current runner,
\* or it waits on a runner that a restart has disposed.
WaitsAreInHand ==
  \A c \in Clients : loop[c].at = "wait" =>
    loop[c].run < run \/ \E i \in DOMAIN incoming : incoming[i] = loop[c].click

\* A loop has read a runner that there was.
RunnersRead == \A c \in Clients : loop[c].at \in {"invoke", "wait"} => loop[c].run <= run

LEMMA WaitStep ==
  ASSUME IInv, RunnersRead, WaitsAreInHand, [Next]_vars
  PROVE  RunnersRead' /\ WaitsAreInHand'
<1> USE DEF RunnersRead, WaitsAreInHand
<1>1. /\ run \in Nat /\ loop \in [Clients -> Loops] /\ incoming \in Seq(Commands)
      /\ \A c \in Clients : loop[c] \in Loops /\ loop[c].run \in Nat
  BY DEF IInv, TypeOK, Loops
<1>2. ASSUME UNCHANGED <<run, incoming, loop>> PROVE RunnersRead' /\ WaitsAreInHand'
  BY <1>2
<1>3. ASSUME NEW c \in Clients, NEW new, new.at \in {"mark", "idle"},
             loop' = [loop EXCEPT ![c] = new], UNCHANGED <<run, incoming>>
      PROVE  RunnersRead' /\ WaitsAreInHand'
  BY <1>1, <1>3
<1>4. CASE Tick
  <2>1. UNCHANGED run
    BY <1>4 DEF Tick
  <2>2. ASSUME NEW c \in Clients, loop'[c].at \in {"invoke", "wait"}
        PROVE  loop'[c] = loop[c] /\ (loop[c].at = "wait" => loop[c].run < run)
    BY <1>1, <1>4, <2>2 DEF Tick, Loops
  <2> QED BY <2>1, <2>2
<1>5. ASSUME NEW c \in Clients, Serve(c) PROVE RunnersRead' /\ WaitsAreInHand'
  <2>1. CASE ReadRunner(c)
    <3>1. /\ UNCHANGED <<run, incoming>>
          /\ \A d \in Clients : d # c => loop'[d] = loop[d]
          /\ loop'[c].at = "invoke" /\ loop'[c].run = run
      BY <1>1, <2>1 DEF ReadRunner, server
    <3> QED BY <1>1, <3>1
  <2>2. CASE InvokePost(c)
    <3>1. /\ UNCHANGED run /\ incoming' = Append(incoming, loop[c].click)
          /\ \A d \in Clients : d # c => loop'[d] = loop[d]
          /\ loop'[c].run = run /\ loop'[c].click = loop[c].click
      BY <1>1, <2>2 DEF InvokePost, Loops
    <3>2. loop[c].click \in Commands
      BY <2>2 DEF InvokePost, IInv, CallsAreCommands
    <3>3. /\ \A i \in DOMAIN incoming : i \in DOMAIN incoming' /\ incoming'[i] = incoming[i]
          /\ Len(incoming) + 1 \in DOMAIN incoming' /\ incoming'[Len(incoming) + 1] = loop[c].click
      BY <1>1, <3>1, <3>2
    <3>4. ASSUME NEW d \in Clients, loop'[d].at = "wait"
          PROVE  loop'[d].run < run' \/ \E i \in DOMAIN incoming' : incoming'[i] = loop'[d].click
      <4>1. CASE d = c
        BY <3>1, <3>3, <4>1
      <4>2. CASE d # c
        BY <3>1, <3>3, <3>4, <4>2
      <4> QED BY <4>1, <4>2
    <3>5. RunnersRead'
      BY <1>1, <3>1
    <3> QED BY <3>4, <3>5
  <2>3. CASE InvokeInline(c)
    <3> DEFINE new == [loop[c] EXCEPT !.at = "mark"]
    <3>1. new.at = "mark" /\ loop' = [loop EXCEPT ![c] = new] /\ UNCHANGED <<run, incoming>>
      BY <1>1, <2>3 DEF InvokeInline, server, Loops
    <3> HIDE DEF new
    <3> QED BY <1>3, <3>1
  <2>4. CASE Mark(c) \/ Wipe(c)
    <3>1. loop' = [loop EXCEPT ![c] = Idle] /\ UNCHANGED <<run, incoming>> /\ Idle.at = "idle"
      BY <2>4 DEF Mark, Wipe, Idle
    <3> QED BY <1>3, <3>1
  <2>5. CASE BuildSim(c)
    <3>1. /\ run' = run + 1 /\ \A d \in Clients : d # c => loop'[d] = loop[d]
          /\ loop'[c].at = "wipe"
      BY <1>1, <2>5 DEF BuildSim
    <3> QED BY <1>1, <3>1
  <2> QED BY <1>5, <2>1, <2>2, <2>3, <2>4, <2>5 DEF Serve
<1>6. ASSUME NEW c \in Clients,
             SendCached(c) \/ SendNew(c) \/ Ingest(c) \/ \E what : Click(c, what)
      PROVE  RunnersRead' /\ WaitsAreInHand'
  BY <1>2, <1>6 DEF SendCached, SendNew, Send, Ingest, Click, server
<1>7. CASE UNCHANGED vars
  BY <1>2, <1>7 DEF vars, server
<1> QED BY <1>4, <1>5, <1>6, <1>7 DEF Next

\* No call hangs but by a restart: the next Tick of the runner a receive loop
\* waits on releases it, or the runner was disposed under it (SimHost.cs:245).
THEOREM CallsAreKept == Spec => []WaitsAreInHand
<1>1. Init => IInv /\ RunnersRead /\ WaitsAreInHand
  BY HostAssumption, Initially DEF Init, Idle, RunnersRead, WaitsAreInHand
<1>2. IInv /\ RunnersRead /\ WaitsAreInHand /\ [Next]_vars => (IInv /\ RunnersRead /\ WaitsAreInHand)'
  BY Inductive, WaitStep
<1> QED BY <1>1, <1>2, PTL DEF Spec
=============================================================================
