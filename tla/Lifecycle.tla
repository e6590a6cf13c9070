-------------------------------- MODULE Lifecycle --------------------------------
(***************************************************************************)
(* The life of the process (fullnode/src/main.cpp and executor.cpp,        *)
(* P2P::Init, Start, Interrupt and Stop, Executor of utility/src/util.cpp): *)
(* the main thread, the two event loops, the timer loop, and the tasks of  *)
(* the two thread pools, which nobody waits for before FullNode is gone.   *)
(*                                                                         *)
(* A task is a ParseMsg or a timeout callback; the pools finish what they  *)
(* have accepted when the statics are destroyed.                           *)
(***************************************************************************)
EXTENDS Naturals, FiniteSets

CONSTANTS MaxJobs,   \* bound on the tasks outstanding
          MaxChanges \* bound on the changes counted

ASSUME LifeAssumption == MaxJobs \in Nat /\ MaxChanges \in Nat

Loops == {"acceptor", "connector"}

VARIABLES
  main,       \* what the main thread does next
  specified,  \* --connect was given
  file,       \* peers.dat
  readable,   \* it could be read when the process started
  memory,     \* the tables of the address manager
  changes,    \* changes made to them
  saved,      \* those in the last dump
  failed,     \* Init or Start returned false
  requested,  \* the promise of Executor::Stopping is set
  loops,      \* the event loops that run
  exiting,    \* event_base_loopexit was called
  timerLoop,  \* TimerLoop runs
  timerStop,  \* TimerMng::set_stop(true)
  ctxNodes,   \* ctx.pnodes of P2P::Start
  frame,      \* the local variables of P2P::Start exist
  alive,      \* the FullNode exists
  jobs,       \* tasks outstanding
  stuck,      \* a thread that aborted sleeps for ever: "no", "pool", or "mutex" when it
              \* holds the timer manager's mutex
  blocked,    \* event loops that wait for that mutex
  leftover,   \* history: tasks were outstanding when the loops had ended
  dangling,   \* history: ctx.pnodes was used after the variable was gone
  badUse      \* history: a task ran without the FullNode

lifeState == <<main, specified, file, readable, memory, changes, saved, failed, requested,
               loops, exiting, timerLoop, timerStop, ctxNodes, frame, alive, jobs, stuck,
               blocked, leftover, dangling, badUse>>
dataVars    == <<specified, readable, memory, file, saved>>
loopVars    == <<loops, exiting, timerLoop, timerStop, blocked>>
contextVars == <<ctxNodes, frame, alive>>
jobVars     == <<jobs, changes, stuck, leftover, dangling, badUse>>

-----------------------------------------------------------------------------
(* The main thread. *)

\* FullNode::Init as far as Acceptor::InitEvent and Connector::InitEvent; opening the
\* port fails when it is taken.
InitEvents ==
  /\ main = "init"
  /\ \/ main' = "load" /\ UNCHANGED failed
     \/ main' = "interrupt" /\ failed' = TRUE
  /\ UNCHANGED <<dataVars, requested, loopVars, contextVars, jobVars>>

\* LoadPeers; what cannot be read is replaced at once.
LoadFiles ==
  /\ main = "load"
  /\ main' = "start"
  /\ IF readable THEN memory' = "loaded" /\ UNCHANGED file
                 ELSE memory' = "recreated" /\ file' = "recreated"
  /\ UNCHANGED <<specified, readable, saved, failed, requested, loopVars, contextVars,
                 jobVars>>

\* The two threads; then Nodes nodes; static Context ctx = {.., &nodes, ..}.
StartLoops ==
  /\ main = "start"
  /\ main' = "connect"
  /\ loops' = Loops
  /\ ctxNodes' = "local" /\ frame' = TRUE
  /\ UNCHANGED <<dataVars, failed, requested, exiting, timerLoop, timerStop, blocked, alive,
                 jobVars>>

\* ConnectNodes, over the addresses of --connect, returns and so does Start.
ConnectSpecified ==
  /\ main = "connect" /\ specified
  /\ \/ main' = "wait" /\ UNCHANGED failed
     \/ main' = "interrupt" /\ failed' = TRUE
  /\ frame' = FALSE
  /\ UNCHANGED <<dataVars, requested, loopVars, ctxNodes, alive, jobVars>>

OutboundContext_Kept == UNCHANGED ctxNodes
OutboundContext == ctxNodes' = "outbounds"

StartOutboundTimer ==
  /\ main = "connect" /\ ~specified
  /\ main' = "wait"
  /\ OutboundContext
  /\ frame' = FALSE
  /\ UNCHANGED <<dataVars, failed, requested, loopVars, alive, jobVars>>

\* HandleStop, the first time; SIGINT, SIGTERM, SIGQUIT.
Signal ==
  /\ main # "gone"
  /\ ~requested
  /\ requested' = TRUE
  /\ UNCHANGED <<main, dataVars, failed, loopVars, contextVars, jobVars>>

WaitToStop ==
  /\ main = "wait" /\ requested
  /\ main' = "interrupt"
  /\ UNCHANGED <<dataVars, failed, requested, loopVars, contextVars, jobVars>>

Interrupt_LoopsOnly ==
  /\ main = "interrupt"
  /\ main' = "join"
  /\ exiting' = TRUE
  /\ UNCHANGED <<dataVars, failed, requested, loops, timerLoop, timerStop, blocked,
                 contextVars, jobVars>>

\* FullNode::Interrupt: the timer manager is stopped, the loops are to exit in 2 s.
Interrupt ==
  /\ main = "interrupt"
  /\ main' = "join"
  /\ timerStop' = TRUE
  /\ exiting' = TRUE
  /\ UNCHANGED <<dataVars, failed, requested, loops, timerLoop, blocked, contextVars,
                 jobVars>>

JoinLoops ==
  /\ main = "join"
  /\ loops = {}
  /\ main' = "dump"
  /\ leftover' = (jobs > 0)
  /\ UNCHANGED <<dataVars, failed, requested, loopVars, contextVars, jobs, changes, stuck,
                 dangling, badUse>>

\* DumpPeers, however the start went.
DumpPeers ==
  /\ main = "dump"
  /\ main' = "destroy"
  /\ file' = memory
  /\ saved' = changes
  /\ UNCHANGED <<specified, readable, memory, failed, requested, loopVars, contextVars,
                 jobVars>>

\* main returns.
DestroyFullNode ==
  /\ main = "destroy"
  /\ main' = "exit"
  /\ alive' = FALSE
  /\ UNCHANGED <<dataVars, failed, requested, loopVars, ctxNodes, frame, jobVars>>

\* The destructors of the static pools wait for their threads.
Exit ==
  /\ main = "exit"
  /\ jobs = 0 /\ stuck = "no"
  /\ main' = "gone"
  /\ UNCHANGED <<dataVars, failed, requested, loopVars, contextVars, jobVars>>

-----------------------------------------------------------------------------
(* The other threads. *)

AddJob == jobs < MaxJobs /\ jobs' = jobs + 1

\* ConnReadCb of an outbound connection: ctx->pnodes->GetNode(bev).  A list that has no
\* nodes has no task to add.
OutboundRead ==
  /\ "connector" \in loops \ blocked
  /\ \/ ctxNodes = "outbounds" /\ AddJob /\ UNCHANGED dangling
     \/ ctxNodes = "local" /\ ~frame /\ dangling' = TRUE /\ UNCHANGED jobs
  /\ UNCHANGED <<main, dataVars, failed, requested, loopVars, contextVars, changes, stuck,
                 leftover, badUse>>

\* ConnReadCb of an inbound one: InitEvent has set its context to the inbound list.
InboundRead ==
  /\ "acceptor" \in loops \ blocked
  /\ AddJob
  /\ UNCHANGED <<main, dataVars, failed, requested, loopVars, contextVars, changes, stuck,
                 leftover, dangling, badUse>>

\* CheckTimers; the first timer is started by P2P::Start or for a node.
TimerFires ==
  /\ timerLoop /\ stuck # "mutex"
  /\ ctxNodes # "none"
  /\ AddJob
  /\ UNCHANGED <<main, dataVars, failed, requested, loopVars, contextVars, changes, stuck,
                 leftover, dangling, badUse>>

RunJob ==
  /\ jobs > 0
  /\ jobs' = jobs - 1
  /\ IF alive
     THEN changes' \in {changes, changes + 1} /\ changes' <= MaxChanges /\ UNCHANGED badUse
     ELSE badUse' = TRUE /\ UNCHANGED changes
  /\ UNCHANGED <<main, dataVars, failed, requested, loopVars, contextVars, stuck, leftover,
                 dangling>>

\* An abort in a pool's thread: HandleAbort asks the main thread to stop, and never
\* returns.
JobAborts ==
  /\ jobs > 0
  /\ stuck = "no"
  /\ jobs' = jobs - 1
  /\ stuck' \in {"pool", "mutex"}
  /\ requested' = TRUE
  /\ UNCHANGED <<main, dataVars, failed, loopVars, contextVars, changes, leftover, dangling,
                 badUse>>

\* An event loop's thread needs the timer manager: StartTimer, StopTimer.
LoopBlocks(l) ==
  /\ stuck = "mutex"
  /\ l \in loops \ blocked
  /\ blocked' = blocked \cup {l}
  /\ UNCHANGED <<main, dataVars, failed, requested, loops, exiting, timerLoop, timerStop,
                 contextVars, jobVars>>

\* 2 s after loopexit: by then a TimerLoop that was told to stop has looked at stop_, as
\* it does every 100 ms.
LoopExits(l) ==
  /\ exiting /\ l \in loops \ blocked
  /\ timerStop => ~timerLoop \/ stuck = "mutex"
  /\ loops' = loops \ {l}
  /\ UNCHANGED <<main, dataVars, failed, requested, exiting, timerLoop, timerStop, blocked,
                 contextVars, jobVars>>

TimerLoopExits ==
  /\ timerStop /\ timerLoop
  /\ stuck # "mutex"
  /\ timerLoop' = FALSE
  /\ UNCHANGED <<main, dataVars, failed, requested, loops, exiting, timerStop, blocked,
                 contextVars, jobVars>>

-----------------------------------------------------------------------------

LifeInit ==
  /\ main = "init"
  /\ specified \in BOOLEAN /\ readable \in BOOLEAN
  /\ file = IF readable THEN "loaded" ELSE "garbage"
  /\ memory = "blank" /\ changes = 0 /\ saved = 0
  /\ failed = FALSE /\ requested = FALSE
  /\ loops = {} /\ exiting = FALSE /\ blocked = {}
  /\ timerLoop = TRUE /\ timerStop = FALSE
  /\ ctxNodes = "none" /\ frame = FALSE /\ alive = TRUE
  /\ jobs = 0 /\ stuck = "no"
  /\ leftover = FALSE /\ dangling = FALSE /\ badUse = FALSE

MainStep ==
  \/ InitEvents \/ LoadFiles \/ StartLoops \/ ConnectSpecified \/ StartOutboundTimer
  \/ WaitToStop \/ Interrupt \/ JoinLoops \/ DumpPeers \/ DestroyFullNode \/ Exit

LoopStep == TimerLoopExits \/ \E l \in Loops : LoopExits(l)

LifeNext ==
  \/ MainStep \/ Signal
  \/ OutboundRead \/ InboundRead \/ TimerFires
  \/ RunJob \/ JobAborts
  \/ \E l \in Loops : LoopBlocks(l)
  \/ LoopStep

LifeSpec == LifeInit /\ [][LifeNext]_lifeState

-----------------------------------------------------------------------------
(* Properties. *)

LifeTypeOK ==
  /\ main \in {"init", "load", "start", "connect", "wait", "interrupt", "join", "dump",
               "destroy", "exit", "gone"}
  /\ file \in {"loaded", "garbage", "recreated", "blank"}
  /\ memory \in {"blank", "loaded", "recreated"}
  /\ changes \in 0..MaxChanges /\ saved \in 0..MaxChanges
  /\ loops \subseteq Loops /\ blocked \subseteq Loops
  /\ ctxNodes \in {"none", "local", "outbounds"}
  /\ jobs \in 0..MaxJobs /\ stuck \in {"no", "pool", "mutex"}
  /\ specified \in BOOLEAN /\ readable \in BOOLEAN /\ failed \in BOOLEAN
  /\ requested \in BOOLEAN /\ exiting \in BOOLEAN /\ frame \in BOOLEAN
  /\ timerLoop \in BOOLEAN /\ timerStop \in BOOLEAN /\ alive \in BOOLEAN
  /\ leftover \in BOOLEAN /\ dangling \in BOOLEAN /\ badUse \in BOOLEAN

\* A peers.dat that could be read is overwritten with empty tables only by a process that
\* failed before it read it (p2p.cpp:112-124).
ReadableFileSurvives == readable /\ file # "loaded" => failed /\ memory = "blank"

\* Without --connect the context of P2P::Start never refers to a list that is gone
\* (p2p.cpp:76-93, connector.cpp:111).
DanglesOnlyWithConnect == dangling => specified

\* A task runs without the FullNode only if it was outstanding when the loops had ended:
\* nobody waits for the pools (executor.cpp:51-60, main.cpp:51-60).
BadUseNeedsLeftover == badUse => leftover

\* What the tasks did before is in the dump, unless tasks were outstanding.
DumpIsComplete == main \in {"destroy", "exit", "gone"} /\ ~leftover => saved = changes

\* No task is added once the loops have been joined: reads, accepts and timers have ended
\* (executor.cpp:42-49, p2p.cpp:98-118).
NoNewJobAfterStop ==
  [][(main \in {"dump", "destroy", "exit", "gone"} => jobs' <= jobs)]_lifeState

\* Who is told to stop ends, and who failed to start, unless a thread aborted and sleeps
\* for ever: "wait for main thread to exit" (util.cpp:268) waits for the pools' threads.
EndsUnlessAborted == requested \/ failed ~> main = "gone" \/ stuck # "no"

\* Whatever thread fails or comes late, the start and the stop of the process keep the
\* address tables and the lists of nodes for those who still use them.
LifeSafe ==
  /\ LifeTypeOK /\ ReadableFileSurvives /\ DanglesOnlyWithConnect
  /\ BadUseNeedsLeftover /\ DumpIsComplete

\* The stop takes no new work and comes to its end.
LifeEnds == NoNewJobAfterStop /\ EndsUnlessAborted
=============================================================================
