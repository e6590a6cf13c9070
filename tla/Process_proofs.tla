---------------------------- MODULE Process_proofs ----------------------------
(***************************************************************************)
(* The process for every number of tasks, threads and locks: its start and *)
(* stop keep what others still use; the thread pool loses no notification  *)
(* and no task; two threads do not wait for one another without an alarm.  *)
(***************************************************************************)
EXTENDS Lifecycle, ThreadPool, LockOrder, FiniteSetTheorems, SequenceTheorems, TLAPS

-----------------------------------------------------------------------------
(***************************************************************************)
(* The start and the stop of the process.                                  *)
(***************************************************************************)

\* What has been read and written so far, by where the main thread is.
FileStages ==
  /\ main \in {"init", "load"} /\ readable => file = "loaded"
  /\ memory = "blank" => main \in {"init", "load"} \/ failed
  /\ readable => memory # "recreated"

\* P2P::Start has left its variables to a context that refers to them only where
\* --connect was given.
ContextStages ==
  /\ ctxNodes = "local" /\ ~frame => specified
  /\ main = "connect" => ctxNodes = "local"

\* The event loops end by loopexit only, which Interrupt asks for together with the end of
\* the timer loop; the last of them ends after the timer loop has.
LoopStages ==
  /\ exiting => timerStop
  /\ ctxNodes # "none" /\ loops = {} => timerStop /\ (~timerLoop \/ stuck = "mutex")

\* After JoinLoops no loop runs, and the tasks outstanding are those it left.
Joined == main \in {"dump", "destroy", "exit", "gone"}

JoinStages ==
  /\ Joined => loops = {} /\ (jobs > 0 => leftover)
  /\ ~alive => main \in {"exit", "gone"}
  /\ badUse => ~alive

\* LifeTypeOK in parts.
Stages ==
  /\ main \in {"init", "load", "start", "connect", "wait", "interrupt", "join", "dump",
               "destroy", "exit", "gone"}
  /\ file \in {"loaded", "garbage", "recreated", "blank"}
  /\ memory \in {"blank", "loaded", "recreated"}
  /\ ctxNodes \in {"none", "local", "outbounds"} /\ stuck \in {"no", "pool", "mutex"}
Counts == changes \in 0..MaxChanges /\ saved \in 0..MaxChanges /\ jobs \in 0..MaxJobs
LoopSets == loops \subseteq Loops /\ blocked \subseteq Loops
StartFlags ==
  /\ specified \in BOOLEAN /\ readable \in BOOLEAN /\ failed \in BOOLEAN
  /\ requested \in BOOLEAN /\ frame \in BOOLEAN /\ alive \in BOOLEAN
StopFlags ==
  /\ exiting \in BOOLEAN /\ timerLoop \in BOOLEAN /\ timerStop \in BOOLEAN
  /\ leftover \in BOOLEAN /\ dangling \in BOOLEAN /\ badUse \in BOOLEAN

LifeIInv == LifeSafe /\ FileStages /\ ContextStages /\ LoopStages /\ JoinStages

LEMMA LifeTypeParts ==
  /\ LifeTypeOK <=> Stages /\ Counts /\ LoopSets /\ StartFlags /\ StopFlags
  /\ LifeTypeOK' <=> Stages' /\ Counts' /\ LoopSets' /\ StartFlags' /\ StopFlags'
<1>1. LifeTypeOK <=> Stages /\ Counts /\ LoopSets /\ StartFlags /\ StopFlags
  BY DEF LifeTypeOK, Stages, Counts, LoopSets, StartFlags, StopFlags
<1>2. LifeTypeOK' <=> Stages' /\ Counts' /\ LoopSets' /\ StartFlags' /\ StopFlags'
  BY DEF LifeTypeOK, Stages, Counts, LoopSets, StartFlags, StopFlags
<1>3. QED  BY <1>1, <1>2

LEMMA LifeInitIInv == LifeInit => LifeIInv
<1> SUFFICES ASSUME LifeInit PROVE LifeIInv
  OBVIOUS
<1>1. LifeTypeOK
  <2>1. Stages /\ LoopSets
    BY DEF LifeInit, Stages, LoopSets
  <2>2. Counts
    BY LifeAssumption DEF LifeInit, Counts
  <2>3. StartFlags
    BY DEF LifeInit, StartFlags
  <2>4. StopFlags
    BY DEF LifeInit, StopFlags
  <2>5. QED  BY <2>1, <2>2, <2>3, <2>4, LifeTypeParts
<1>2. QED
  BY <1>1 DEF LifeInit, LifeIInv, LifeSafe, ReadableFileSurvives, DanglesOnlyWithConnect,
              BadUseNeedsLeftover, DumpIsComplete, FileStages, ContextStages, LoopStages,
              JoinStages, Joined

\* The main thread's steps up to the return of P2P::Start.
LEMMA StartStepsKeep ==
  ASSUME LifeIInv,
         InitEvents \/ LoadFiles \/ StartLoops \/ ConnectSpecified \/ StartOutboundTimer
  PROVE  LifeIInv'
<1>1. /\ main \in {"init", "load", "start", "connect"}
      /\ main' \in {"load", "start", "connect", "wait", "interrupt"}
      /\ saved' = saved /\ readable' = readable /\ specified' = specified
      /\ exiting' = exiting /\ timerLoop' = timerLoop /\ timerStop' = timerStop
      /\ alive' = alive /\ jobs' = jobs /\ changes' = changes /\ stuck' = stuck
      /\ leftover' = leftover /\ dangling' = dangling /\ badUse' = badUse
      /\ requested' = requested /\ blocked' = blocked
  BY DEF InitEvents, LoadFiles, StartLoops, ConnectSpecified, StartOutboundTimer,
         OutboundContext, dataVars, loopVars, contextVars, jobVars
<1>2. LifeTypeOK'
  <2>1. Stages /\ Counts /\ LoopSets /\ StartFlags /\ StopFlags
    BY LifeTypeParts DEF LifeIInv, LifeSafe
  <2>2. Stages'
    BY <1>1, <2>1 DEF Stages, InitEvents, LoadFiles, StartLoops, ConnectSpecified,
       StartOutboundTimer, OutboundContext, dataVars, loopVars, contextVars
  <2>3. Counts'
    BY <1>1, <2>1, LifeAssumption DEF Counts, InitEvents, LoadFiles, StartLoops,
       ConnectSpecified, StartOutboundTimer, OutboundContext, dataVars, loopVars,
       contextVars
  <2>4. LoopSets'
    BY <1>1, <2>1 DEF LoopSets, InitEvents, LoadFiles, StartLoops, ConnectSpecified,
       StartOutboundTimer, OutboundContext, dataVars, loopVars, contextVars, Loops
  <2>5. StartFlags'
    BY <1>1, <2>1 DEF StartFlags, InitEvents, LoadFiles, StartLoops, ConnectSpecified,
       StartOutboundTimer, OutboundContext, dataVars, loopVars, contextVars
  <2>6. StopFlags'
    BY <1>1, <2>1 DEF StopFlags, InitEvents, LoadFiles, StartLoops, ConnectSpecified,
       StartOutboundTimer, OutboundContext, dataVars, loopVars, contextVars
  <2>7. QED  BY <2>2, <2>3, <2>4, <2>5, <2>6, LifeTypeParts
<1>3. FileStages' /\ ReadableFileSurvives'
  BY <1>1 DEF LifeIInv, LifeSafe, FileStages, ReadableFileSurvives, InitEvents, LoadFiles,
              StartLoops, ConnectSpecified, StartOutboundTimer, dataVars
<1>4. ContextStages'
  BY <1>1 DEF LifeIInv, ContextStages, InitEvents, LoadFiles, StartLoops, ConnectSpecified,
              StartOutboundTimer, OutboundContext, contextVars
<1>5. LoopStages'
  <2>1. CASE StartLoops
    BY <1>1, <2>1 DEF LifeIInv, LoopStages, StartLoops, Loops
  <2>2. CASE InitEvents \/ LoadFiles \/ ConnectSpecified
    BY <1>1, <2>2 DEF LifeIInv, LoopStages, InitEvents, LoadFiles, ConnectSpecified,
                      contextVars, loopVars
  <2>3. CASE StartOutboundTimer
    BY <1>1, <2>3 DEF LifeIInv, LoopStages, ContextStages, StartOutboundTimer, loopVars
  <2>4. QED  BY <2>1, <2>2, <2>3
<1>6. JoinStages' /\ DumpIsComplete' /\ DanglesOnlyWithConnect' /\ BadUseNeedsLeftover'
  BY <1>1 DEF LifeIInv, LifeSafe, JoinStages, Joined, DumpIsComplete, DanglesOnlyWithConnect,
              BadUseNeedsLeftover
<1>7. QED  BY <1>2, <1>3, <1>4, <1>5, <1>6 DEF LifeIInv, LifeSafe

\* The main thread's steps from the request to stop.
LEMMA StopStepsKeep ==
  ASSUME LifeIInv, WaitToStop \/ Interrupt \/ JoinLoops \/ DumpPeers \/ DestroyFullNode \/ Exit
  PROVE  LifeIInv'
<1>1. /\ main \in {"wait", "interrupt", "join", "dump", "destroy", "exit"}
      /\ main' \in {"interrupt", "join", "dump", "destroy", "exit", "gone"}
      /\ readable' = readable /\ specified' = specified /\ memory' = memory
      /\ failed' = failed /\ requested' = requested
      /\ loops' = loops /\ timerLoop' = timerLoop /\ blocked' = blocked
      /\ ctxNodes' = ctxNodes /\ frame' = frame
      /\ jobs' = jobs /\ changes' = changes /\ stuck' = stuck
      /\ dangling' = dangling /\ badUse' = badUse
  BY DEF WaitToStop, Interrupt, JoinLoops, DumpPeers, DestroyFullNode, Exit, dataVars,
         loopVars, contextVars, jobVars
<1>2. LifeTypeOK'
  <2>1. Stages /\ Counts /\ LoopSets /\ StartFlags /\ StopFlags
    BY LifeTypeParts DEF LifeIInv, LifeSafe
  <2>2. Stages'
    BY <1>1, <2>1 DEF Stages, WaitToStop, Interrupt, JoinLoops, DumpPeers,
       DestroyFullNode, Exit, dataVars, loopVars, contextVars, jobVars
  <2>3. Counts'
    BY <1>1, <2>1, LifeAssumption DEF Counts, WaitToStop, Interrupt, JoinLoops,
       DumpPeers, DestroyFullNode, Exit, dataVars, loopVars, contextVars, jobVars
  <2>4. LoopSets'
    BY <1>1, <2>1 DEF LoopSets, WaitToStop, Interrupt, JoinLoops, DumpPeers,
       DestroyFullNode, Exit, dataVars, loopVars, contextVars, jobVars, Loops
  <2>5. StartFlags'
    BY <1>1, <2>1 DEF StartFlags, WaitToStop, Interrupt, JoinLoops, DumpPeers,
       DestroyFullNode, Exit, dataVars, loopVars, contextVars, jobVars
  <2>6. StopFlags'
    <3>1. leftover' \in BOOLEAN
      <4>1. CASE JoinLoops
        BY <4>1 DEF JoinLoops
      <4>2. CASE ~JoinLoops
        BY <2>1, <4>2 DEF StopFlags, WaitToStop, Interrupt, DumpPeers, DestroyFullNode, Exit,
                          jobVars
      <4>3. QED  BY <4>1, <4>2
    <3>2. exiting' \in BOOLEAN /\ timerStop' \in BOOLEAN
      BY <2>1 DEF StopFlags, WaitToStop, Interrupt, JoinLoops, DumpPeers, DestroyFullNode,
                  Exit, loopVars
    <3>3. QED  BY <1>1, <2>1, <3>1, <3>2 DEF StopFlags
  <2>7. QED  BY <2>2, <2>3, <2>4, <2>5, <2>6, LifeTypeParts
<1>3. FileStages' /\ ReadableFileSurvives'
  BY <1>1 DEF LifeIInv, LifeSafe, LifeTypeOK, FileStages, ReadableFileSurvives, WaitToStop,
              Interrupt, JoinLoops, DumpPeers, DestroyFullNode, Exit, dataVars
<1>4. ContextStages' /\ DanglesOnlyWithConnect'
  BY <1>1 DEF LifeIInv, LifeSafe, ContextStages, DanglesOnlyWithConnect
<1>5. LoopStages'
  BY <1>1 DEF LifeIInv, LoopStages, WaitToStop, Interrupt, JoinLoops, DumpPeers,
              DestroyFullNode, Exit, loopVars
<1>6. JoinStages' /\ BadUseNeedsLeftover'
  BY <1>1 DEF LifeIInv, LifeSafe, LifeTypeOK, JoinStages, Joined, BadUseNeedsLeftover,
              WaitToStop, Interrupt, JoinLoops, DumpPeers, DestroyFullNode, Exit, contextVars,
              jobVars
<1>7. DumpIsComplete'
  BY <1>1 DEF LifeIInv, LifeSafe, DumpIsComplete, WaitToStop, Interrupt, JoinLoops, DumpPeers,
              DestroyFullNode, Exit, dataVars, jobVars
<1>8. QED  BY <1>2, <1>3, <1>4, <1>5, <1>6, <1>7 DEF LifeIInv, LifeSafe

\* A task is added by a loop that runs or by the timer loop: none once the loops are joined.
LEMMA AddingNeedsALoop ==
  ASSUME LifeIInv, OutboundRead \/ InboundRead \/ TimerFires
  PROVE  ~Joined
<1>1. CASE OutboundRead \/ InboundRead
  BY <1>1 DEF LifeIInv, JoinStages, OutboundRead, InboundRead
<1>2. CASE TimerFires
  BY <1>2 DEF LifeIInv, JoinStages, LoopStages, TimerFires
<1>3. QED  BY <1>1, <1>2

LEMMA AddingKeeps ==
  ASSUME LifeIInv, OutboundRead \/ InboundRead \/ TimerFires
  PROVE  LifeIInv'
<1>1. /\ main' = main /\ file' = file /\ memory' = memory /\ saved' = saved
      /\ readable' = readable /\ specified' = specified
      /\ failed' = failed /\ requested' = requested
      /\ loops' = loops /\ exiting' = exiting /\ timerLoop' = timerLoop
      /\ timerStop' = timerStop /\ blocked' = blocked
      /\ ctxNodes' = ctxNodes /\ frame' = frame /\ alive' = alive
      /\ changes' = changes /\ stuck' = stuck /\ leftover' = leftover /\ badUse' = badUse
  BY DEF OutboundRead, InboundRead, TimerFires, dataVars, loopVars, contextVars
<1>2. jobs' \in 0..MaxJobs /\ dangling' \in BOOLEAN
  <2>1. jobs \in 0..MaxJobs /\ dangling \in BOOLEAN
    BY LifeTypeParts DEF LifeIInv, LifeSafe, Counts, StopFlags
  <2>2. jobs' \in 0..MaxJobs
    BY <2>1, LifeAssumption DEF OutboundRead, InboundRead, TimerFires, AddJob
  <2>3. dangling' \in BOOLEAN
    BY <2>1 DEF OutboundRead, InboundRead, TimerFires
  <2>4. QED  BY <2>2, <2>3
<1>3. dangling' => dangling \/ specified
  BY DEF LifeIInv, ContextStages, OutboundRead, InboundRead, TimerFires
<1>4. ~Joined
  BY AddingNeedsALoop
<1>5. LifeTypeOK'
  <2>1. Stages /\ Counts /\ LoopSets /\ StartFlags /\ StopFlags
    BY LifeTypeParts DEF LifeIInv, LifeSafe
  <2>2. Stages'
    BY <1>1, <1>2, <2>1 DEF Stages
  <2>3. Counts'
    BY <1>1, <1>2, <2>1, LifeAssumption DEF Counts
  <2>4. LoopSets'
    BY <1>1, <1>2, <2>1 DEF LoopSets, Loops
  <2>5. StartFlags'
    BY <1>1, <1>2, <2>1 DEF StartFlags
  <2>6. StopFlags'
    BY <1>1, <1>2, <2>1 DEF StopFlags
  <2>7. QED  BY <2>2, <2>3, <2>4, <2>5, <2>6, LifeTypeParts
<1>6. ReadableFileSurvives' /\ FileStages' /\ ContextStages' /\ LoopStages'
  BY <1>1 DEF LifeIInv, LifeSafe, ReadableFileSurvives, FileStages, ContextStages, LoopStages
<1>7. DanglesOnlyWithConnect' /\ BadUseNeedsLeftover'
  BY <1>1, <1>3 DEF LifeIInv, LifeSafe, DanglesOnlyWithConnect, BadUseNeedsLeftover
<1>8. DumpIsComplete' /\ JoinStages'
  BY <1>1, <1>4 DEF LifeIInv, DumpIsComplete, JoinStages, Joined
<1>9. QED  BY <1>5, <1>6, <1>7, <1>8 DEF LifeIInv, LifeSafe

LEMMA EndOfJobKeeps ==
  ASSUME LifeIInv, RunJob \/ JobAborts
  PROVE  LifeIInv'
<1>1. /\ main' = main /\ file' = file /\ memory' = memory /\ saved' = saved
      /\ readable' = readable /\ specified' = specified /\ failed' = failed
      /\ loops' = loops /\ exiting' = exiting /\ timerLoop' = timerLoop
      /\ timerStop' = timerStop /\ blocked' = blocked
      /\ ctxNodes' = ctxNodes /\ frame' = frame /\ alive' = alive
      /\ leftover' = leftover /\ dangling' = dangling
      /\ jobs > 0 /\ jobs' = jobs - 1
  BY DEF RunJob, JobAborts, dataVars, loopVars, contextVars
<1>2. Joined => leftover
  BY <1>1 DEF LifeIInv, JoinStages
<1>3. /\ stuck' \in {"no", "pool", "mutex"} /\ (stuck # "no" => stuck' = stuck)
      /\ changes' \in 0..MaxChanges /\ requested' \in BOOLEAN
      /\ badUse' \in BOOLEAN /\ (badUse' => badUse \/ ~alive)
  <2>1. changes \in 0..MaxChanges /\ stuck \in {"no", "pool", "mutex"}
        /\ requested \in BOOLEAN /\ badUse \in BOOLEAN
    BY LifeTypeParts DEF LifeIInv, LifeSafe, Stages, Counts, StartFlags, StopFlags
  <2>2. changes' \in 0..MaxChanges
    BY <2>1, LifeAssumption DEF RunJob, JobAborts
  <2>3. stuck' \in {"no", "pool", "mutex"} /\ (stuck # "no" => stuck' = stuck)
    BY <2>1 DEF RunJob, JobAborts
  <2>4. requested' \in BOOLEAN
    BY <2>1 DEF RunJob, JobAborts
  <2>5. badUse' \in BOOLEAN /\ (badUse' => badUse \/ ~alive)
    BY <2>1 DEF RunJob, JobAborts
  <2>6. QED  BY <2>2, <2>3, <2>4, <2>5
<1>4. LifeTypeOK'
  <2>1. Stages /\ Counts /\ LoopSets /\ StartFlags /\ StopFlags
    BY LifeTypeParts DEF LifeIInv, LifeSafe
  <2>2. Stages'
    BY <1>1, <1>3, <2>1 DEF Stages
  <2>3. Counts'
    BY <1>1, <1>3, <2>1, LifeAssumption DEF Counts
  <2>4. LoopSets'
    BY <1>1, <1>3, <2>1 DEF LoopSets, Loops
  <2>5. StartFlags'
    BY <1>1, <1>3, <2>1 DEF StartFlags
  <2>6. StopFlags'
    BY <1>1, <1>3, <2>1 DEF StopFlags
  <2>7. QED  BY <2>2, <2>3, <2>4, <2>5, <2>6, LifeTypeParts
<1>5. ReadableFileSurvives' /\ FileStages' /\ ContextStages' /\ DanglesOnlyWithConnect'
  BY <1>1 DEF LifeIInv, LifeSafe, ReadableFileSurvives, FileStages, ContextStages,
              DanglesOnlyWithConnect
<1>6. LoopStages'
  BY <1>1, <1>3 DEF LifeIInv, LoopStages
<1>7. BadUseNeedsLeftover' /\ DumpIsComplete'
  BY <1>1, <1>2, <1>3
     DEF LifeIInv, LifeSafe, BadUseNeedsLeftover, DumpIsComplete, JoinStages, Joined
<1>8. JoinStages'
  BY <1>1, <1>2, <1>3 DEF LifeIInv, JoinStages, Joined
<1>9. QED  BY <1>4, <1>5, <1>6, <1>7, <1>8 DEF LifeIInv, LifeSafe

\* Signals, and the threads of the loops, as they block and as they end.
LEMMA LoopThreadsKeep ==
  ASSUME LifeIInv, Signal \/ LoopStep \/ (\E l \in Loops : LoopBlocks(l))
  PROVE  LifeIInv'
<1>1. /\ main' = main /\ file' = file /\ memory' = memory /\ saved' = saved
      /\ readable' = readable /\ specified' = specified /\ failed' = failed
      /\ exiting' = exiting /\ timerStop' = timerStop
      /\ ctxNodes' = ctxNodes /\ frame' = frame /\ alive' = alive
      /\ jobs' = jobs /\ changes' = changes /\ stuck' = stuck
      /\ leftover' = leftover /\ dangling' = dangling /\ badUse' = badUse
  BY DEF Signal, LoopStep, LoopBlocks, LoopExits, TimerLoopExits, dataVars, loopVars,
         contextVars, jobVars
<1>2. /\ loops' \subseteq loops /\ blocked' \subseteq Loops
      /\ requested' \in BOOLEAN /\ timerLoop' \in BOOLEAN /\ (timerLoop' => timerLoop)
      /\ loops' # loops => exiting /\ (timerStop => ~timerLoop' \/ stuck = "mutex")
  <2>1. LoopSets /\ requested \in BOOLEAN /\ timerLoop \in BOOLEAN
    BY LifeTypeParts DEF LifeIInv, LifeSafe, StartFlags, StopFlags
  <2>2. CASE Signal
    BY <2>1, <2>2 DEF LoopSets, Signal, loopVars
  <2>3. CASE TimerLoopExits
    BY <2>1, <2>3 DEF LoopSets, TimerLoopExits
  <2>4. ASSUME NEW l \in Loops, LoopExits(l) \/ LoopBlocks(l)
        PROVE  /\ loops' \subseteq loops /\ blocked' \subseteq Loops
               /\ requested' = requested /\ timerLoop' = timerLoop
               /\ loops' # loops => exiting /\ (timerStop => ~timerLoop \/ stuck = "mutex")
    BY <2>1, <2>4 DEF LoopSets, LoopExits, LoopBlocks
  <2>5. QED  BY <2>1, <2>2, <2>3, <2>4 DEF LoopStep
<1>3. LifeTypeOK'
  <2>1. Stages /\ Counts /\ LoopSets /\ StartFlags /\ StopFlags
    BY LifeTypeParts DEF LifeIInv, LifeSafe
  <2>2. Stages'
    BY <1>1, <1>2, <2>1 DEF Stages
  <2>3. Counts'
    BY <1>1, <1>2, <2>1, LifeAssumption DEF Counts
  <2>4. LoopSets'
    BY <1>1, <1>2, <2>1 DEF LoopSets, Loops
  <2>5. StartFlags'
    BY <1>1, <1>2, <2>1 DEF StartFlags
  <2>6. StopFlags'
    BY <1>1, <1>2, <2>1 DEF StopFlags
  <2>7. QED  BY <2>2, <2>3, <2>4, <2>5, <2>6, LifeTypeParts
<1>4. /\ ReadableFileSurvives' /\ FileStages' /\ ContextStages' /\ DanglesOnlyWithConnect'
      /\ BadUseNeedsLeftover' /\ DumpIsComplete'
  BY <1>1 DEF LifeIInv, LifeSafe, ReadableFileSurvives, FileStages, ContextStages,
              DanglesOnlyWithConnect, BadUseNeedsLeftover, DumpIsComplete
<1>5. LoopStages'
  BY <1>1, <1>2 DEF LifeIInv, LoopStages
<1>6. JoinStages'
  BY <1>1, <1>2 DEF LifeIInv, JoinStages, Joined
<1>7. QED  BY <1>3, <1>4, <1>5, <1>6 DEF LifeIInv, LifeSafe

LEMMA LifeStepIInv == LifeIInv /\ [LifeNext]_lifeState => LifeIInv'
<1>1. SUFFICES ASSUME LifeIInv, [LifeNext]_lifeState PROVE LifeIInv'
  OBVIOUS
<1>2. CASE MainStep
  BY <1>1, <1>2, StartStepsKeep, StopStepsKeep DEF MainStep
<1>3. CASE OutboundRead \/ InboundRead \/ TimerFires
  BY <1>1, <1>3, AddingKeeps
<1>4. CASE RunJob \/ JobAborts
  BY <1>1, <1>4, EndOfJobKeeps
<1>5. CASE Signal \/ LoopStep \/ \E l \in Loops : LoopBlocks(l)
  BY <1>1, <1>5, LoopThreadsKeep
<1>6. CASE UNCHANGED lifeState
  BY <1>1, <1>6
     DEF lifeState, LifeIInv, LifeSafe, LifeTypeOK, ReadableFileSurvives,
         DanglesOnlyWithConnect, BadUseNeedsLeftover, DumpIsComplete, FileStages,
         ContextStages, LoopStages, JoinStages, Joined
<1>7. QED  BY <1>1, <1>2, <1>3, <1>4, <1>5, <1>6 DEF LifeNext

LEMMA LifeInvariance == LifeSpec => []LifeIInv
  BY LifeInitIInv, LifeStepIInv, PTL DEF LifeSpec

\* Whatever thread fails or comes late (main.cpp:51-60, p2p.cpp:76-124): a peers.dat that
\* could be read survives, the context of P2P::Start dangles only with --connect, a task runs
\* without the FullNode only if it was left when the loops had ended, and otherwise the dump
\* has all that was done.
THEOREM ProcessIsSafe == LifeSpec => []LifeSafe
<1>1. LifeIInv => LifeSafe
  BY DEF LifeIInv
<1>2. QED  BY LifeInvariance, <1>1, PTL

\* From the dump on no task is added, for any number of tasks and changes: the loops, and
\* with them the reads, the accepts and the timers, have ended (executor.cpp:42-49).
THEOREM StopTakesNoNewJob == LifeSpec => NoNewJobAfterStop
<1>1. ASSUME LifeIInv, [LifeNext]_lifeState, Joined  PROVE jobs' <= jobs
  <2>1. jobs \in Nat
    BY <1>1 DEF LifeIInv, LifeSafe, LifeTypeOK
  <2>2. CASE OutboundRead \/ InboundRead \/ TimerFires
    BY <1>1, <2>2, AddingNeedsALoop
  <2>3. CASE RunJob \/ JobAborts
    BY <2>1, <2>3 DEF RunJob, JobAborts
  <2>4. CASE MainStep \/ Signal \/ LoopStep \/ (\E l \in Loops : LoopBlocks(l))
             \/ UNCHANGED lifeState
    <3>1. jobs' = jobs
      BY <2>4
         DEF MainStep, InitEvents, LoadFiles, StartLoops, ConnectSpecified,
             StartOutboundTimer, WaitToStop, Interrupt, JoinLoops, DumpPeers,
             DestroyFullNode, Exit, Signal, LoopStep, LoopExits, TimerLoopExits,
             LoopBlocks, jobVars, lifeState
    <3>2. QED  BY <2>1, <3>1
  <2>5. QED  BY <1>1, <2>2, <2>3, <2>4 DEF LifeNext
<1>2. LifeIInv /\ [LifeNext]_lifeState =>
        [(main \in {"dump", "destroy", "exit", "gone"} => jobs' <= jobs)]_lifeState
  BY <1>1 DEF Joined
<1>3. QED  BY LifeInvariance, <1>2, PTL DEF LifeSpec, NoNewJobAfterStop

-----------------------------------------------------------------------------
(***************************************************************************)
(* The thread pool.                                                        *)
(***************************************************************************)

\* A thread has a task exactly while it runs one.
HoldsWhileRunning == \A w \in PoolThreads : stage[w] = "run" <=> holding[w] # NoTask

\* A thread that has left found the pool stopped and the queue empty, and both stay so.
ExitedForGood ==
  /\ \A w \in PoolThreads : stage[w] = "exited" => poolStop /\ pooled = <<>>
  /\ joined => \A w \in PoolThreads : stage[w] = "exited"

PoolIInv == PoolSafe /\ HoldsWhileRunning /\ ExitedForGood

-----------------------------------------------------------------------------
(* The sets of threads. *)

LEMMA FiniteThreads ==
  /\ IsFiniteSet(Testing) /\ IsFiniteSet(Asleep)
  /\ Cardinality(Testing) \in Nat
<1>1. Testing \subseteq PoolThreads /\ Asleep \subseteq PoolThreads
  BY DEF Testing, Asleep
<1>2. IsFiniteSet(Testing) /\ IsFiniteSet(Asleep)
  BY <1>1, PoolAssumption, FS_Subset
<1>3. QED
  BY <1>2, FS_CardinalityType

\* A thread that comes to test the queue, and one that goes on from there.
LEMMA OneMoreTests ==
  ASSUME PoolTypeOK, NEW w \in PoolThreads, stage[w] # "test",
         stage' = [stage EXCEPT ![w] = "test"]
  PROVE  Cardinality(Testing') = Cardinality(Testing) + 1 /\ Asleep' = Asleep \ {w}
<1>1. Testing' = Testing \cup {w} /\ w \notin Testing
  BY DEF PoolTypeOK, Testing
<1>2. Asleep' = Asleep \ {w}
  BY DEF PoolTypeOK, Asleep
<1>3. QED
  BY <1>1, <1>2, FiniteThreads, FS_AddElement

LEMMA OneLessTests ==
  ASSUME NEW w \in PoolThreads, stage[w] = "test", stage'[w] \notin {"test", "asleep"},
         \A v \in PoolThreads : v # w => stage'[v] = stage[v]
  PROVE  Cardinality(Testing') = Cardinality(Testing) - 1 /\ Asleep' = Asleep
<1>1. Testing' = Testing \ {w} /\ w \in Testing
  BY DEF Testing
<1>2. Asleep' = Asleep
  BY DEF Asleep
<1>3. QED
  BY <1>1, <1>2, FiniteThreads, FS_RemoveElement

\* The queue without its head.
LEMMA TailOfQueue ==
  ASSUME pooled \in Seq(PoolTasks), pooled # <<>>, pooled' = Tail(pooled)
  PROVE  /\ Head(pooled) \in PoolTasks
         /\ pooled' \in Seq(PoolTasks)
         /\ Len(pooled') = Len(pooled) - 1
         /\ \A i \in DOMAIN pooled' : i + 1 \in DOMAIN pooled /\ pooled'[i] = pooled[i + 1]
         /\ 1 \in DOMAIN pooled /\ Head(pooled) = pooled[1]
  BY HeadTailProperties, LenProperties

\* The queue with one more task.
LEMMA AppendedQueue ==
  ASSUME pooled \in Seq(PoolTasks), NEW k \in PoolTasks, pooled' = Append(pooled, k)
  PROVE  /\ pooled' \in Seq(PoolTasks)
         /\ Len(pooled') = Len(pooled) + 1
         /\ \A i \in DOMAIN pooled' :
              IF i \in DOMAIN pooled THEN pooled'[i] = pooled[i]
                                     ELSE i = Len(pooled) + 1 /\ pooled'[i] = k
         /\ pooled' # <<>>
  BY AppendProperties, LenProperties

-----------------------------------------------------------------------------
(* The invariant. *)

LEMMA PoolInitIInv == PoolInit => PoolIInv
<1>1. SUFFICES ASSUME PoolInit PROVE PoolIInv
  OBVIOUS
<1>2. PoolTypeOK
  BY <1>1, EmptySeq DEF PoolInit, PoolTypeOK
<1>3. Asleep = {}
  BY <1>1 DEF PoolInit, Asleep
<1>4. DOMAIN pooled = {}
  BY <1>1 DEF PoolInit
<1>5. RunOnce
  BY <1>1, <1>4 DEF PoolInit, RunOnce
<1>6. QED
  BY <1>1, <1>2, <1>3, <1>5
     DEF PoolInit, PoolIInv, PoolSafe, NoLostWakeup, NoLostStop, DrainedWhenJoined,
         HoldsWhileRunning, ExitedForGood

LEMMA AddTaskKeeps == ASSUME PoolIInv, NEW k \in PoolTasks, AddTask(k) PROVE PoolIInv'
<1> USE DEF PoolIInv, PoolSafe
<1>1. CASE poolStop
  <2>1. UNCHANGED <<pooled, notify, poolStop, stage, holding, notifyAll, done, joined>>
        /\ refused' = refused \cup {k}
    BY <1>1 DEF AddTask
  <2>2. Asleep' = Asleep /\ Testing' = Testing
    BY <2>1 DEF Asleep, Testing
  <2>3. QED
    BY <2>1, <2>2 DEF PoolTypeOK, NoLostWakeup, NoLostStop, RunOnce, DrainedWhenJoined,
                      HoldsWhileRunning, ExitedForGood
<1>2. CASE ~poolStop
  <2>1. /\ pooled' = Append(pooled, k) /\ notify' = notify + 1
        /\ UNCHANGED <<refused, poolStop, stage, holding, notifyAll, done, joined>>
    BY <1>2 DEF AddTask
  <2>2. Asleep' = Asleep /\ Testing' = Testing
    BY <2>1 DEF Asleep, Testing
  <2>3. /\ pooled' \in Seq(PoolTasks) /\ Len(pooled') = Len(pooled) + 1
        /\ \A i \in DOMAIN pooled' :
              IF i \in DOMAIN pooled THEN pooled'[i] = pooled[i]
                                     ELSE i = Len(pooled) + 1 /\ pooled'[i] = k
    BY <2>1, AppendedQueue DEF PoolTypeOK
  <2>4. PoolTypeOK'
    BY <2>1, <2>3 DEF PoolTypeOK
  <2>5. NoLostWakeup'
    BY <2>1, <2>2, <2>3, FiniteThreads, LenProperties DEF NoLostWakeup, PoolTypeOK
  <2>6. RunOnce'
    BY <2>1, <2>3 DEF RunOnce, AddTask
  <2>7. ~joined /\ \A w \in PoolThreads : stage[w] # "exited"
    BY <1>2, PoolAssumption DEF ExitedForGood
  <2>8. QED
    BY <2>1, <2>2, <2>4, <2>5, <2>6, <2>7
       DEF NoLostStop, DrainedWhenJoined, HoldsWhileRunning, ExitedForGood
<1>3. QED
  BY <1>1, <1>2

\* A thread that is woken sees what the others see.
LEMMA WokenKeeps ==
  ASSUME PoolIInv, NEW w \in PoolThreads, stage[w] = "asleep",
         stage' = [stage EXCEPT ![w] = "test"],
         notify' \in Nat, notify' >= notify - 1,
         UNCHANGED <<pooled, poolStop, holding, notifyAll, refused, done, joined>>
  PROVE  PoolIInv'
<1> USE DEF PoolIInv, PoolSafe
<1>1. Cardinality(Testing') = Cardinality(Testing) + 1 /\ Asleep' = Asleep \ {w}
  BY OneMoreTests
<1>2. PoolTypeOK'
  BY DEF PoolTypeOK
<1>3. NoLostWakeup'
  BY <1>1, FiniteThreads, LenProperties DEF NoLostWakeup, PoolTypeOK, Asleep
<1>4. QED
  BY <1>1, <1>2, <1>3
     DEF PoolTypeOK, NoLostStop, RunOnce, DrainedWhenJoined, HoldsWhileRunning, ExitedForGood

LEMMA NotifyOneKeeps == ASSUME PoolIInv, NotifyOne PROVE PoolIInv'
<1>1. notify' \in Nat /\ notify' = notify - 1 /\ notify' >= notify - 1
  BY DEF PoolIInv, PoolSafe, PoolTypeOK, NotifyOne
<1>2. CASE Asleep # {}
  <2>1. PICK w \in Asleep : stage' = [stage EXCEPT ![w] = "test"]
    BY <1>2 DEF NotifyOne
  <2>2. w \in PoolThreads /\ stage[w] = "asleep"
    BY DEF Asleep
  <2>3. QED
    BY <1>1, <2>1, <2>2, WokenKeeps DEF NotifyOne
<1>3. CASE Asleep = {}
  <2>1. UNCHANGED <<pooled, stage, poolStop, holding, notifyAll, refused, done, joined>>
    BY <1>3 DEF NotifyOne
  <2>2. Asleep' = {}
    BY <1>3, <2>1 DEF Asleep
  <2>3. QED
    BY <1>1, <2>1, <2>2
       DEF PoolIInv, PoolSafe, PoolTypeOK, NoLostWakeup, NoLostStop, RunOnce, DrainedWhenJoined,
           HoldsWhileRunning, ExitedForGood
<1>4. QED
  BY <1>2, <1>3

LEMMA TestQueueKeeps == ASSUME PoolIInv, NEW w \in PoolThreads, TestQueue(w) PROVE PoolIInv'
<1> USE DEF PoolIInv, PoolSafe
<1>1. stage[w] = "test" /\ UNCHANGED <<poolStop, notify, notifyAll, refused, done, joined>>
  BY DEF TestQueue
<1>2. ~joined
  BY <1>1 DEF ExitedForGood
<1>3. CASE Exits
  <2>1. stage' = [stage EXCEPT ![w] = "exited"] /\ UNCHANGED <<pooled, holding>>
    BY <1>3 DEF TestQueue
  <2>2. pooled = <<>> /\ poolStop
    BY <1>3 DEF Exits
  <2>3. Cardinality(Testing') = Cardinality(Testing) - 1 /\ Asleep' = Asleep
    BY <1>1, <2>1, OneLessTests DEF PoolTypeOK
  <2>4. Cardinality(Testing') \in Nat
    BY FiniteThreads, <1>1, <2>1, <2>3, FS_EmptySet DEF Testing
  <2>5. QED
    BY <1>1, <1>2, <2>1, <2>2, <2>3, <2>4
       DEF PoolTypeOK, NoLostWakeup, NoLostStop, RunOnce, DrainedWhenJoined,
           HoldsWhileRunning, ExitedForGood
<1>4. CASE ~Exits /\ pooled = <<>>
  <2>1. stage' = [stage EXCEPT ![w] = "asleep"] /\ UNCHANGED <<pooled, holding>>
    BY <1>4 DEF TestQueue
  <2>2. ~poolStop /\ Len(pooled') = 0
    BY <1>4, <2>1 DEF Exits
  <2>3. PoolTypeOK'
    BY <1>1, <2>1 DEF PoolTypeOK
  <2>4. Cardinality(Testing') \in Nat
    <3>1. Testing' \subseteq PoolThreads
      BY DEF Testing
    <3>2. QED  BY <3>1, PoolAssumption, FS_Subset, FS_CardinalityType
  <2>5. NoLostWakeup'
    BY <2>2, <2>3, <2>4 DEF NoLostWakeup, PoolTypeOK
  <2>6. QED
    BY <1>1, <1>2, <2>1, <2>2, <2>3, <2>5
       DEF PoolTypeOK, NoLostStop, RunOnce, DrainedWhenJoined, HoldsWhileRunning, ExitedForGood
<1>5. CASE ~Exits /\ pooled # <<>>
  <2>1. /\ stage' = [stage EXCEPT ![w] = "run"]
        /\ holding' = [holding EXCEPT ![w] = Head(pooled)]
        /\ pooled' = Tail(pooled)
    BY <1>5 DEF TestQueue
  <2>2. /\ Head(pooled) \in PoolTasks /\ pooled' \in Seq(PoolTasks)
        /\ Len(pooled') = Len(pooled) - 1
        /\ \A i \in DOMAIN pooled' : i + 1 \in DOMAIN pooled /\ pooled'[i] = pooled[i + 1]
        /\ 1 \in DOMAIN pooled /\ Head(pooled) = pooled[1]
    BY <1>5, <2>1, TailOfQueue DEF PoolTypeOK
  <2>3. PoolTypeOK'
    BY <1>1, <2>1, <2>2 DEF PoolTypeOK
  <2>4. Cardinality(Testing') = Cardinality(Testing) - 1 /\ Asleep' = Asleep
    BY <1>1, <2>1, OneLessTests DEF PoolTypeOK
  <2>5. NoLostWakeup'
    BY <1>1, <2>2, <2>4, FiniteThreads, LenProperties DEF NoLostWakeup, PoolTypeOK
  <2>6. \A v \in PoolThreads : holding'[v] = IF v = w THEN pooled[1] ELSE holding[v]
    BY <2>1, <2>2 DEF PoolTypeOK
  <2>7. \A i \in DOMAIN pooled' : pooled'[i] # pooled[1] /\ i \in Nat
    <3>1. DOMAIN pooled' = 1..Len(pooled')
      BY <2>2, LenProperties
    <3>2. QED  BY <2>2, <3>1 DEF RunOnce
  <2>8. RunOnce'
    <3>1. \A i, j \in DOMAIN pooled' : pooled'[i] = pooled'[j] => i = j
      BY <2>2, <2>7 DEF RunOnce
    <3>2. \A u, v \in PoolThreads : holding'[u] = holding'[v] /\ u # v => holding'[u] = NoTask
      BY <2>2, <2>6 DEF RunOnce
    <3>3. \A i \in DOMAIN pooled' :
            pooled'[i] \notin done' /\ \A v \in PoolThreads : holding'[v] # pooled'[i]
      BY <1>1, <2>2, <2>6, <2>7 DEF RunOnce
    <3>4. \A v \in PoolThreads : holding'[v] \notin done'
      BY <1>1, <2>2, <2>6 DEF RunOnce
    <3>5. QED  BY <3>1, <3>2, <3>3, <3>4 DEF RunOnce
  <2>9. HoldsWhileRunning'
    BY <2>1, <2>2, PoolAssumption DEF PoolTypeOK, HoldsWhileRunning
  <2>10. QED
    BY <1>1, <1>2, <1>5, <2>1, <2>3, <2>4, <2>5, <2>8, <2>9
       DEF PoolTypeOK, NoLostStop, DrainedWhenJoined, ExitedForGood
<1>6. QED
  BY <1>3, <1>4, <1>5

LEMMA EndOfTaskKeeps == ASSUME PoolIInv, NEW w \in PoolThreads, EndOfTask(w) PROVE PoolIInv'
<1> USE DEF PoolIInv, PoolSafe
<1>1. /\ stage[w] = "run" /\ stage' = [stage EXCEPT ![w] = "test"]
      /\ done' = done \cup {holding[w]} /\ holding' = [holding EXCEPT ![w] = NoTask]
      /\ UNCHANGED <<pooled, poolStop, notify, notifyAll, refused, joined>>
  BY DEF EndOfTask
<1>2. holding[w] \in PoolTasks
  BY <1>1 DEF PoolTypeOK, HoldsWhileRunning
<1>3. PoolTypeOK'
  BY <1>1, <1>2 DEF PoolTypeOK
<1>4. Cardinality(Testing') = Cardinality(Testing) + 1 /\ Asleep' = Asleep
  BY <1>1, OneMoreTests DEF Asleep
<1>5. NoLostWakeup'
  BY <1>1, <1>4, FiniteThreads, LenProperties DEF NoLostWakeup, PoolTypeOK
<1>6. \A v \in PoolThreads : holding'[v] = IF v = w THEN NoTask ELSE holding[v]
  BY <1>1 DEF PoolTypeOK
<1>7. \A i \in DOMAIN pooled : pooled[i] \in PoolTasks
  BY LenProperties DEF PoolTypeOK
<1>8. done \subseteq PoolTasks
  BY DEF PoolTypeOK
<1>9. RunOnce'
  <2>1. \A u, v \in PoolThreads : holding'[u] = holding'[v] /\ u # v => holding'[u] = NoTask
    BY <1>6 DEF RunOnce
  <2>2. \A i \in DOMAIN pooled' :
          pooled'[i] \notin done' /\ \A v \in PoolThreads : holding'[v] # pooled'[i]
    BY <1>1, <1>6, <1>7, PoolAssumption DEF RunOnce
  <2>3. \A v \in PoolThreads : holding'[v] \notin done'
    BY <1>1, <1>2, <1>6, <1>8, PoolAssumption DEF RunOnce
  <2>4. QED  BY <1>1, <2>1, <2>2, <2>3 DEF RunOnce
<1>10. HoldsWhileRunning'
  BY <1>1, <1>6 DEF PoolTypeOK, HoldsWhileRunning
<1>11. QED
  BY <1>1, <1>3, <1>4, <1>5, <1>6, <1>9, <1>10
     DEF PoolTypeOK, NoLostStop, DrainedWhenJoined, ExitedForGood

LEMMA BeginDestructorKeeps == ASSUME PoolIInv, BeginDestructor PROVE PoolIInv'
<1>1. /\ poolStop' = TRUE /\ notifyAll' = TRUE
      /\ UNCHANGED <<pooled, stage, holding, notify, refused, done, joined>>
  BY DEF BeginDestructor
<1>2. Asleep' = Asleep /\ Testing' = Testing
  BY <1>1 DEF Asleep, Testing
<1>3. QED
  BY <1>1, <1>2
     DEF PoolIInv, PoolSafe, PoolTypeOK, NoLostWakeup, NoLostStop, RunOnce, DrainedWhenJoined,
         HoldsWhileRunning, ExitedForGood

LEMMA NotifyAllKeeps == ASSUME PoolIInv, NotifyAll PROVE PoolIInv'
<1>1. /\ notifyAll' = FALSE
      /\ stage' = [w \in PoolThreads |-> IF w \in Asleep THEN "test" ELSE stage[w]]
      /\ UNCHANGED <<pooled, poolStop, holding, notify, refused, done, joined>>
  BY DEF NotifyAll
<1>2. Asleep' = {}
  BY <1>1 DEF Asleep
<1>3. PoolTypeOK'
  BY <1>1 DEF PoolIInv, PoolSafe, PoolTypeOK
<1>4. QED
  BY <1>1, <1>2, <1>3
     DEF PoolIInv, PoolSafe, PoolTypeOK, NoLostWakeup, NoLostStop, RunOnce, DrainedWhenJoined,
         HoldsWhileRunning, ExitedForGood, Asleep

LEMMA JoinThreadsKeeps == ASSUME PoolIInv, JoinThreads PROVE PoolIInv'
<1>1. /\ joined' = TRUE /\ \A w \in PoolThreads : stage[w] = "exited"
      /\ UNCHANGED <<pooled, poolStop, stage, holding, notify, notifyAll, refused, done>>
  BY DEF JoinThreads
<1>2. Asleep' = Asleep /\ Testing' = Testing
  BY <1>1 DEF Asleep, Testing
<1>3. pooled = <<>>
  BY <1>1, PoolAssumption DEF PoolIInv, ExitedForGood
<1>4. \A w \in PoolThreads : holding[w] = NoTask
  BY <1>1 DEF PoolIInv, HoldsWhileRunning
<1>5. QED
  BY <1>1, <1>2, <1>3, <1>4
     DEF PoolIInv, PoolSafe, PoolTypeOK, NoLostWakeup, NoLostStop, RunOnce, DrainedWhenJoined,
         HoldsWhileRunning, ExitedForGood

LEMMA PoolStepIInv == PoolIInv /\ [PoolNext]_poolState => PoolIInv'
<1>1. SUFFICES ASSUME PoolIInv, [PoolNext]_poolState PROVE PoolIInv'
  OBVIOUS
<1>2. ASSUME NEW k \in PoolTasks, AddTask(k) PROVE PoolIInv'
  BY <1>1, <1>2, AddTaskKeeps
<1>3. CASE NotifyOne
  BY <1>1, <1>3, NotifyOneKeeps
<1>4. ASSUME NEW w \in PoolThreads, PoolThread(w) PROVE PoolIInv'
  BY <1>1, <1>4, TestQueueKeeps, EndOfTaskKeeps DEF PoolThread
<1>5. ASSUME NEW w \in PoolThreads, WakeSpuriously(w) PROVE PoolIInv'
  <2>1. notify' \in Nat /\ notify' >= notify - 1
    BY <1>1, <1>5 DEF WakeSpuriously, PoolIInv, PoolSafe, PoolTypeOK
  <2>2. QED
    BY <1>1, <1>5, <2>1, WokenKeeps DEF WakeSpuriously
<1>6. CASE BeginDestructor
  BY <1>1, <1>6, BeginDestructorKeeps
<1>7. CASE NotifyAll
  BY <1>1, <1>7, NotifyAllKeeps
<1>8. CASE JoinThreads
  BY <1>1, <1>8, JoinThreadsKeeps
<1>9. CASE UNCHANGED poolState
  <2>1. Asleep' = Asleep /\ Testing' = Testing
    BY <1>9 DEF poolState, Asleep, Testing
  <2>2. QED
    BY <1>1, <1>9, <2>1
       DEF poolState, PoolIInv, PoolSafe, PoolTypeOK, NoLostWakeup, NoLostStop, RunOnce,
           DrainedWhenJoined, HoldsWhileRunning, ExitedForGood
<1>10. QED
  BY <1>1, <1>2, <1>3, <1>4, <1>5, <1>6, <1>7, <1>8, <1>9 DEF PoolNext

-----------------------------------------------------------------------------

\* Whatever the order of offers, wakeups and the destructor (thread.cpp:115-152), no
\* notification is lost, no task is lost or run twice, no thread sleeps through the end.
THEOREM PoolIsSafe == PoolSpec => []PoolSafe
<1>1. PoolIInv => PoolSafe
  BY DEF PoolIInv
<1>2. QED
  BY PoolInitIInv, PoolStepIInv, <1>1, PTL DEF PoolSpec

-----------------------------------------------------------------------------
(***************************************************************************)
(* The lock order detector.                                                *)
(***************************************************************************)

Elements(s) == {s[i] : i \in DOMAIN s}

\* A thread waits for the lock it has put on its stack last.
WaitsForTop ==
  \A t \in LockThreads :
    Waits(t) => ~Leaves(t) /\ stack[t] # <<>> /\ wanted[t] = Top(stack[t])

\* The locks of a stack have been compared with each other in the order they were entered.
OrderedIn(s, recorded) ==
  \A i, j \in DOMAIN s :
    i < j /\ (\A k \in 1..(j - 1) : s[k] # s[j]) => <<s[i], s[j]>> \in recorded
Ordered == \A t \in LockThreads : OrderedIn(stack[t], orders)

\* No pair is on record both ways unnoticed.
OneWay == \A c, d \in CriticalSections : <<c, d>> \in orders /\ <<d, c>> \in orders => alarm

LockIInv == LockTypeOK /\ StackIsOwned /\ WaitsForTop /\ Ordered /\ OneWay

-----------------------------------------------------------------------------
(* Stacks. *)

\* A stack with one more entry, and without its last.
LEMMA Pushed ==
  ASSUME NEW s \in Seq(CriticalSections), NEW c \in CriticalSections
  PROVE  LET r == Append(s, c)
         IN /\ r \in Seq(CriticalSections) /\ r # <<>> /\ Top(r) = c
            /\ Len(r) = Len(s) + 1 /\ DOMAIN s = 1..Len(s) /\ DOMAIN r = 1..Len(r)
            /\ \A i \in 1..Len(s) : r[i] = s[i]
            /\ r[Len(r)] = c
  BY AppendProperties, LenProperties DEF Top

LEMMA Popped ==
  ASSUME NEW s \in Seq(CriticalSections), s # <<>>
  PROVE  LET r == SubSeq(s, 1, Len(s) - 1)
         IN /\ r \in Seq(CriticalSections)
            /\ Len(s) \in Nat \ {0} /\ Len(r) = Len(s) - 1
            /\ DOMAIN s = 1..Len(s) /\ DOMAIN r = 1..Len(r)
            /\ \A i \in 1..Len(r) : r[i] = s[i]
            /\ Elements(s) = Elements(r) \cup {Top(s)}
<1> DEFINE r == SubSeq(s, 1, Len(s) - 1)
<1>1. /\ DOMAIN s = 1..Len(s) /\ Len(s) \in Nat \ {0}
      /\ \A i \in 1..Len(s) : s[i] \in CriticalSections
  BY LenProperties, EmptySeq, ElementOfSeq
<1>2. /\ r \in Seq(CriticalSections) /\ Len(r) = Len(s) - 1
      /\ \A i \in 1..Len(s) - 1 : r[i] = s[i]
  BY <1>1, SubSeqProperties
<1>3. DOMAIN r = 1..Len(r)
  BY <1>2, LenProperties
<1> HIDE DEF r
<1>4. Elements(s) = Elements(r) \cup {Top(s)}
  <2>1. ASSUME NEW x \in Elements(s) PROVE x \in Elements(r) \cup {Top(s)}
    <3>1. PICK i \in 1..Len(s) : x = s[i]
      BY <1>1 DEF Elements
    <3>2. CASE i = Len(s)
      BY <3>1, <3>2 DEF Top
    <3>3. CASE i # Len(s)
      <4> DEFINE n == Len(s)
      <4>1. i \in 1..(n - 1)
        <5>1. n \in Nat /\ i \in 1..n /\ i # n
          BY <1>1, <3>1, <3>3
        <5> HIDE DEF n
        <5>2. QED  BY <5>1
      <4>2. i \in DOMAIN r /\ x = r[i]
        BY <1>2, <1>3, <3>1, <4>1
      <4>3. QED  BY <4>2 DEF Elements
    <3>4. QED  BY <3>2, <3>3
  <2>2. Top(s) \in Elements(s)
    BY <1>1 DEF Elements, Top
  <2>3. Elements(r) \subseteq Elements(s)
    BY <1>1, <1>2, <1>3 DEF Elements
  <2>4. QED  BY <2>1, <2>2, <2>3
<1>5. QED
  BY <1>1, <1>2, <1>3, <1>4 DEF r

\* What a thread holds that waits for the last entry of its stack, or for none.
HeldIn(s, waits) == {s[i] : i \in IF waits THEN 1..(Len(s) - 1) ELSE DOMAIN s}

LEMMA HeldIsHeldIn ==
  ASSUME NEW t
  PROVE  /\ Waits(t) => Held(t) = HeldIn(stack[t], TRUE)
         /\ ~Waits(t) => Held(t) = HeldIn(stack[t], FALSE)
         /\ Waits(t)' => Held(t)' = HeldIn(stack'[t], TRUE)
         /\ ~Waits(t)' => Held(t)' = HeldIn(stack'[t], FALSE)
  BY DEF Held, HeldIn

LEMMA HeldInFacts ==
  ASSUME NEW s \in Seq(CriticalSections)
  PROVE  /\ HeldIn(s, FALSE) = Elements(s)
         /\ s # <<>> => Elements(s) = HeldIn(s, TRUE) \cup {Top(s)}
<1>1. HeldIn(s, FALSE) = Elements(s)
  BY DEF HeldIn, Elements
<1>2. ASSUME s # <<>> PROVE Elements(s) = HeldIn(s, TRUE) \cup {Top(s)}
  <2> DEFINE r == SubSeq(s, 1, Len(s) - 1)
  <2>1. /\ Len(s) \in Nat \ {0} /\ Len(r) = Len(s) - 1 /\ DOMAIN r = 1..Len(r)
        /\ \A i \in 1..Len(r) : r[i] = s[i]
        /\ Elements(s) = Elements(r) \cup {Top(s)}
    BY <1>2, Popped
  <2> HIDE DEF r
  <2>2. Elements(r) = HeldIn(s, TRUE)
    BY <2>1 DEF Elements, HeldIn
  <2>3. QED  BY <2>1, <2>2
<1>3. QED
  BY <1>1, <1>2

LEMMA HeldInPushed ==
  ASSUME NEW s \in Seq(CriticalSections), NEW c \in CriticalSections
  PROVE  /\ HeldIn(Append(s, c), TRUE) = Elements(s)
         /\ Elements(Append(s, c)) = Elements(s) \cup {c}
<1> DEFINE r == Append(s, c)
<1>1. /\ r \in Seq(CriticalSections) /\ r # <<>> /\ Top(r) = c
      /\ Len(r) = Len(s) + 1 /\ DOMAIN s = 1..Len(s) /\ \A i \in 1..Len(s) : r[i] = s[i]
  BY Pushed
<1>2. Len(s) \in Nat
  BY LenProperties
<1> HIDE DEF r
<1>3. HeldIn(r, TRUE) = Elements(s)
  BY <1>1, <1>2 DEF HeldIn, Elements
<1>4. QED
  BY <1>1, <1>3, HeldInFacts DEF r

\* A lock is in a stack unless it has no position there.
LEMMA NoPosition == \A s, c : Positions(s, c) = {} <=> c \notin Elements(s)
  BY DEF Positions, Elements

\* More on record does no harm.
LEMMA MoreRecorded ==
  ASSUME NEW s, NEW few, NEW many, few \subseteq many, OrderedIn(s, few)
  PROVE  OrderedIn(s, many)
  BY DEF OrderedIn

\* A push puts every order of the new entry on record.
LEMMA PushOrders ==
  ASSUME NEW s \in Seq(CriticalSections), NEW c \in CriticalSections, NEW recorded,
         OrderedIn(s, recorded)
  PROVE  OrderedIn(Append(s, c), recorded \cup (Before(s, c) \X {c}))
<1> DEFINE r == Append(s, c)
<1>1. /\ Len(r) = Len(s) + 1 /\ Len(s) \in Nat /\ DOMAIN s = 1..Len(s) /\ DOMAIN r = 1..Len(r)
      /\ \A i \in 1..Len(s) : r[i] = s[i]
      /\ r[Len(r)] = c
  BY Pushed, LenProperties
<1> HIDE DEF r
<1>2. SUFFICES ASSUME NEW i \in 1..Len(r), NEW j \in 1..Len(r), i < j,
                      \A k \in 1..(j - 1) : r[k] # r[j]
               PROVE  <<r[i], r[j]>> \in recorded \cup (Before(s, c) \X {c})
  BY <1>1 DEF OrderedIn, r
<1>3. CASE j = Len(r)
  <2>1. \A k \in 1..i : s[k] # c
    BY <1>1, <1>2, <1>3
  <2>2. r[i] \in Before(s, c)
    BY <1>1, <1>2, <1>3, <2>1 DEF Before
  <2>3. QED  BY <1>1, <1>3, <2>2
<1>4. CASE j # Len(r)
  <2>1. i \in 1..Len(s) /\ j \in 1..Len(s)
    BY <1>1, <1>2, <1>4
  <2>2. \A k \in 1..(j - 1) : s[k] # s[j]
    BY <1>1, <1>2, <2>1
  <2>3. <<s[i], s[j]>> \in recorded
    BY <1>1, <1>2, <2>1, <2>2 DEF OrderedIn
  <2>4. QED  BY <1>1, <2>1, <2>3
<1>5. QED
  BY <1>3, <1>4

\* Before a lock is pushed every pair is on record one way, so the alarm of the push is true.
LEMMA PushOneWay ==
  ASSUME OneWay, ~alarm, NEW s, s \in Seq(CriticalSections), NEW c \in CriticalSections,
         orders' = orders \cup (Before(s, c) \X {c}),
         alarm' = \E p \in Before(s, c) \X {c} : <<p[2], p[1]>> \in orders
  PROVE  OneWay'
<1>1. c \notin Before(s, c)
  <2>1. \A i \in DOMAIN s : i \in 1..i
    BY LenProperties
  <2>2. QED  BY <2>1 DEF Before
<1>2. SUFFICES ASSUME NEW a \in CriticalSections, NEW b \in CriticalSections,
                      <<a, b>> \in orders', <<b, a>> \in orders'
               PROVE  alarm'
  BY DEF OneWay
<1>3. CASE <<a, b>> \in orders /\ <<b, a>> \in orders
  BY <1>3 DEF OneWay
<1>4. CASE <<a, b>> \in Before(s, c) \X {c}
  <2>1. <<b, a>> \in orders
    BY <1>1, <1>2, <1>4
  <2>2. QED  BY <1>4, <2>1
<1>5. CASE <<b, a>> \in Before(s, c) \X {c}
  <2>1. <<a, b>> \in orders
    BY <1>1, <1>2, <1>5
  <2>2. QED  BY <1>5, <2>1
<1>6. QED
  BY <1>2, <1>3, <1>4, <1>5

LEMMA BeforeIsInStack ==
  ASSUME NEW s \in Seq(CriticalSections), NEW c \in CriticalSections
  PROVE  Before(s, c) \subseteq CriticalSections
<1>1. \A i \in DOMAIN s : s[i] \in CriticalSections
  BY LenProperties, ElementOfSeq
<1>2. QED
  BY <1>1 DEF Before

-----------------------------------------------------------------------------
(* The invariant: one lemma per action. *)

LEMMA LockInitIInv == LockInit => LockIInv
<1>1. SUFFICES ASSUME LockInit PROVE LockIInv
  OBVIOUS
<1>2. LockTypeOK
  BY <1>1, EmptySeq DEF LockInit, LockTypeOK
<1>3. \A t \in LockThreads : Held(t) = {}
  BY <1>1 DEF LockInit, Held, Waits
<1>4. StackIsOwned
  BY <1>1, <1>3, LockAssumption DEF LockInit, StackIsOwned
<1>5. QED
  BY <1>1, <1>2, <1>4 DEF LockInit, LockIInv, WaitsForTop, Waits, Leaves, Ordered, OrderedIn, OneWay

LEMMA EnterKeeps ==
  ASSUME LockIInv, ~alarm, NEW t \in LockThreads, NEW c \in CriticalSections, Enter(t, c)
  PROVE  LockIInv'
<1> DEFINE s == stack[t]
<1>1. /\ ~Waits(t) /\ ~Leaves(t) /\ leaving' = leaving
      /\ stack' = [stack EXCEPT ![t] = Append(s, c)]
      /\ orders' = orders \cup (Before(s, c) \X {c})
      /\ alarm' = \E p \in Before(s, c) \X {c} : <<p[2], p[1]>> \in orders
      /\ wanted' = [wanted EXCEPT ![t] = c]
      /\ owner' = owner
  BY DEF Enter, PushLock
<1>2. s \in Seq(CriticalSections) /\ stack \in [LockThreads -> Seq(CriticalSections)]
  BY DEF LockIInv, LockTypeOK
<1>3. \A u \in LockThreads : /\ stack'[u] = IF u = t THEN Append(s, c) ELSE stack[u]
                             /\ wanted'[u] = IF u = t THEN c ELSE wanted[u]
  BY <1>1 DEF LockIInv, LockTypeOK
<1>4. Append(s, c) \in Seq(CriticalSections) /\ Append(s, c) # <<>> /\ Top(Append(s, c)) = c
  BY <1>2, Pushed
<1>5. LockTypeOK'
  BY <1>1, <1>2, <1>4, BeforeIsInStack DEF LockIInv, LockTypeOK
<1>6. \A u \in LockThreads : Waits(u)' = (u = t \/ Waits(u))
  BY <1>1, <1>3, LockAssumption DEF Waits
<1>7. \A u \in LockThreads : Held(u)' = Held(u)
  <2>1. Held(t) = Elements(s)
    BY <1>1, <1>2, HeldIsHeldIn, HeldInFacts
  <2>2. Held(t)' = Elements(s)
    <3>1. Held(t)' = HeldIn(stack'[t], TRUE)
      BY <1>6, HeldIsHeldIn
    <3>2. stack'[t] = Append(s, c)
      BY <1>3
    <3>3. QED  BY <1>2, <3>1, <3>2, HeldInPushed
  <2>3. \A u \in LockThreads \ {t} : Held(u)' = Held(u)
    BY <1>3, <1>6 DEF Held
  <2>4. QED  BY <2>1, <2>2, <2>3
<1>8. StackIsOwned'
  BY <1>1, <1>7 DEF LockIInv, StackIsOwned
<1>9. WaitsForTop'
  BY <1>1, <1>3, <1>4, <1>6 DEF LockIInv, WaitsForTop, Leaves
<1>10. Ordered'
  <2>1. OrderedIn(Append(s, c), orders')
    BY <1>1, <1>2, PushOrders DEF LockIInv, Ordered
  <2>2. \A u \in LockThreads : OrderedIn(stack[u], orders')
    BY <1>1, MoreRecorded DEF LockIInv, Ordered
  <2>3. QED  BY <1>3, <2>1, <2>2 DEF Ordered
<1>11. OneWay'
  BY <1>1, <1>2, PushOneWay DEF LockIInv
<1>12. QED
  BY <1>5, <1>8, <1>9, <1>10, <1>11 DEF LockIInv

\* The thread had the lock at the top of its stack to wait for, and has it now.
LEMMA AcquireKeeps ==
  ASSUME LockIInv, ~alarm, NEW t \in LockThreads, Acquire(t)
  PROVE  LockIInv'
<1> DEFINE s == stack[t]
           c == wanted[t]
<1>1. /\ Waits(t) /\ Free(t, c)
      /\ owner' = [owner EXCEPT ![c] = t]
      /\ wanted' = [wanted EXCEPT ![t] = NoLock]
      /\ stack' = stack /\ leaving' = leaving /\ orders' = orders /\ alarm' = alarm
  BY DEF Acquire
<1>2. s \in Seq(CriticalSections) /\ s # <<>> /\ c = Top(s) /\ c \in CriticalSections
  BY <1>1 DEF LockIInv, LockTypeOK, WaitsForTop, Waits
<1>3. \A u \in LockThreads : wanted'[u] = IF u = t THEN NoLock ELSE wanted[u]
  BY <1>1 DEF LockIInv, LockTypeOK
<1>4. /\ \A d \in CriticalSections : owner'[d] = IF d = c THEN t ELSE owner[d]
      /\ LockTypeOK'
  BY <1>1, <1>2 DEF LockIInv, LockTypeOK
<1>5. ~Waits(t)' /\ \A u \in LockThreads \ {t} : Waits(u)' <=> Waits(u)
  BY <1>3 DEF Waits
<1>6. Held(t)' = Held(t) \cup {c}
  <2>1. Held(t) = HeldIn(s, TRUE)
    BY <1>1, HeldIsHeldIn
  <2>2. Held(t)' = HeldIn(s, FALSE)
    BY <1>1, <1>5, HeldIsHeldIn
  <2>3. QED  BY <1>2, <2>1, <2>2, HeldInFacts
<1>7. \A u \in LockThreads \ {t} : Held(u)' = Held(u)
  BY <1>1, <1>3 DEF Held, Waits
<1>8. StackIsOwned'
  <2>1. \A u \in LockThreads \ {t} : c \notin Held(u) /\ leaving[u] # c
    BY <1>1, <1>2, LockAssumption DEF LockIInv, StackIsOwned, Free
  <2>2. QED  BY <1>1, <1>2, <1>4, <1>6, <1>7, <2>1 DEF LockIInv, StackIsOwned
<1>9. WaitsForTop'
  BY <1>1, <1>3, <1>5 DEF LockIInv, WaitsForTop, Leaves
<1>10. Ordered' /\ OneWay'
  BY <1>1 DEF LockIInv, Ordered, OneWay
<1>11. QED
  BY <1>4, <1>8, <1>9, <1>10 DEF LockIInv

LEMMA TryEnterKeeps ==
  ASSUME LockIInv, ~alarm, NEW t \in LockThreads, NEW c \in CriticalSections, TryEnter(t, c)
  PROVE  LockIInv'
<1> DEFINE s == stack[t]
<1>1. /\ ~Waits(t) /\ Free(t, c)
      /\ stack' = [stack EXCEPT ![t] = Append(s, c)]
      /\ orders' = orders \cup (Before(s, c) \X {c})
      /\ alarm' = \E p \in Before(s, c) \X {c} : <<p[2], p[1]>> \in orders
      /\ owner' = [owner EXCEPT ![c] = t]
      /\ wanted' = wanted /\ leaving' = leaving
  BY DEF TryEnter, PushLock
<1>2. s \in Seq(CriticalSections) /\ stack \in [LockThreads -> Seq(CriticalSections)]
  BY DEF LockIInv, LockTypeOK
<1>3. \A u \in LockThreads : stack'[u] = IF u = t THEN Append(s, c) ELSE stack[u]
  BY <1>1, <1>2
<1>4. \A d \in CriticalSections : owner'[d] = IF d = c THEN t ELSE owner[d]
  BY <1>1 DEF LockIInv, LockTypeOK
<1>5. LockTypeOK'
  BY <1>1, <1>2, Pushed, BeforeIsInStack DEF LockIInv, LockTypeOK
<1>6. \A u \in LockThreads : Waits(u)' <=> Waits(u)
  BY <1>1 DEF Waits
<1>7. Held(t)' = Held(t) \cup {c}
  <2>1. Held(t) = Elements(s)
    BY <1>1, <1>2, HeldIsHeldIn, HeldInFacts
  <2>2. Held(t)' = HeldIn(stack'[t], FALSE)
    BY <1>1, <1>6, HeldIsHeldIn
  <2>3. stack'[t] = Append(s, c) /\ Append(s, c) \in Seq(CriticalSections)
    BY <1>2, <1>3, Pushed
  <2>4. QED  BY <1>2, <2>1, <2>2, <2>3, HeldInFacts, HeldInPushed
<1>8. \A u \in LockThreads \ {t} : Held(u)' = Held(u)
  BY <1>1, <1>3 DEF Held, Waits
<1>9. StackIsOwned'
  <2>1. \A u \in LockThreads \ {t} : c \notin Held(u) /\ leaving[u] # c
    BY <1>1, LockAssumption DEF LockIInv, StackIsOwned, Free
  <2>2. QED  BY <1>1, <1>4, <1>7, <1>8, <2>1 DEF LockIInv, StackIsOwned
<1>10. WaitsForTop'
  BY <1>1, <1>3, <1>6 DEF LockIInv, WaitsForTop, Leaves
<1>11. Ordered'
  <2>1. OrderedIn(Append(s, c), orders')
    BY <1>1, <1>2, PushOrders DEF LockIInv, Ordered
  <2>2. \A u \in LockThreads : OrderedIn(stack[u], orders')
    BY <1>1, MoreRecorded DEF LockIInv, Ordered
  <2>3. QED  BY <1>3, <2>1, <2>2 DEF Ordered
<1>12. OneWay'
  BY <1>1, <1>2, PushOneWay DEF LockIInv
<1>13. QED
  BY <1>5, <1>9, <1>10, <1>11, <1>12 DEF LockIInv

\* A failed try leaves nothing but its orders.
LEMMA TryFailsKeeps ==
  ASSUME LockIInv, ~alarm, NEW t \in LockThreads, NEW c \in CriticalSections, TryFails(t, c)
  PROVE  LockIInv'
<1> DEFINE s == stack[t]
<1>1. /\ orders' = orders \cup (Before(s, c) \X {c})
      /\ alarm' = \E p \in Before(s, c) \X {c} : <<p[2], p[1]>> \in orders
      /\ stack' = stack /\ wanted' = wanted /\ leaving' = leaving /\ owner' = owner
  BY DEF TryFails
<1>2. s \in Seq(CriticalSections)
  BY DEF LockIInv, LockTypeOK
<1>3. LockTypeOK'
  BY <1>1, <1>2, BeforeIsInStack DEF LockIInv, LockTypeOK
<1>4. StackIsOwned' /\ WaitsForTop'
  BY <1>1 DEF LockIInv, StackIsOwned, WaitsForTop, Held, Waits, Leaves
<1>5. Ordered'
  BY <1>1, MoreRecorded DEF LockIInv, Ordered
<1>6. OneWay'
  BY <1>1, <1>2, PushOneWay DEF LockIInv
<1>7. QED
  BY <1>3, <1>4, <1>5, <1>6 DEF LockIInv

LEMMA LeaveCriticalKeeps ==
  ASSUME LockIInv, ~alarm, NEW t \in LockThreads, LeaveCritical(t)
  PROVE  LockIInv'
<1> DEFINE s == stack[t]
           c == Top(s)
           rest == SubSeq(s, 1, Len(s) - 1)
<1>1. /\ ~Waits(t) /\ ~Leaves(t) /\ s # <<>>
      /\ stack' = [stack EXCEPT ![t] = rest]
      /\ leaving' = [leaving EXCEPT ![t] = c]
      /\ owner' = owner /\ wanted' = wanted /\ orders' = orders /\ alarm' = alarm
  BY DEF LeaveCritical
<1>2. s \in Seq(CriticalSections) /\ stack \in [LockThreads -> Seq(CriticalSections)]
  BY DEF LockIInv, LockTypeOK
<1>3. /\ rest \in Seq(CriticalSections)
      /\ Len(s) \in Nat \ {0} /\ Len(rest) = Len(s) - 1
      /\ DOMAIN s = 1..Len(s) /\ DOMAIN rest = 1..Len(rest)
      /\ \A i \in 1..Len(rest) : rest[i] = s[i]
      /\ Elements(s) = Elements(rest) \cup {c}
  BY <1>1, <1>2, Popped
<1>4. c \in CriticalSections
  BY <1>2, <1>3, ElementOfSeq DEF Top
<1> HIDE DEF rest, c
<1>5. \A u \in LockThreads : stack'[u] = IF u = t THEN rest ELSE stack[u]
  BY <1>1, <1>2
<1>6. /\ LockTypeOK'
      /\ \A u \in LockThreads : leaving'[u] = IF u = t THEN c ELSE leaving[u]
  BY <1>1, <1>2, <1>3, <1>4 DEF LockIInv, LockTypeOK
<1>7. \A u \in LockThreads : Waits(u)' <=> Waits(u)
  BY <1>1 DEF Waits
<1>8. Held(t) = Elements(rest) \cup {c} /\ Held(t)' = Elements(rest)
  <2>1. Held(t) = Elements(s)
    BY <1>1, <1>2, HeldIsHeldIn, HeldInFacts
  <2>2. Held(t)' = HeldIn(stack'[t], FALSE)
    BY <1>1, <1>7, HeldIsHeldIn
  <2>3. stack'[t] = rest
    BY <1>5
  <2>4. QED  BY <1>3, <2>1, <2>2, <2>3, HeldInFacts
<1>9. \A u \in LockThreads \ {t} : Held(u)' = Held(u)
  BY <1>1, <1>5 DEF Held, Waits
<1>10. StackIsOwned'
  <2>1. ASSUME NEW u \in LockThreads, NEW d \in CriticalSections
        PROVE  owner'[d] = u <=> d \in Held(u)' \/ leaving'[u] = d
    <3>1. owner[d] = u <=> d \in Held(u) \/ leaving[u] = d
      BY DEF LockIInv, StackIsOwned
    <3>2. CASE u = t
      BY <1>1, <1>6, <1>8, <3>1, <3>2, LockAssumption DEF Leaves
    <3>3. CASE u # t
      BY <1>1, <1>6, <1>9, <3>1, <3>3
    <3>4. QED  BY <3>2, <3>3
  <2>2. QED  BY <2>1 DEF StackIsOwned
<1>11. WaitsForTop'
  BY <1>1, <1>5, <1>6, <1>7 DEF LockIInv, WaitsForTop, Leaves
<1>12. Ordered'
  <2>1. OrderedIn(s, orders)
    BY DEF LockIInv, Ordered
  <2>2. ASSUME NEW i \in 1..Len(rest), NEW j \in 1..Len(rest), i < j,
               \A k \in 1..(j - 1) : rest[k] # rest[j]
        PROVE  <<rest[i], rest[j]>> \in orders
    <3>1. i \in 1..Len(s) /\ j \in 1..Len(s) /\ rest[i] = s[i] /\ rest[j] = s[j]
      BY <1>3
    <3>2. \A k \in 1..(j - 1) : s[k] # s[j]
      BY <1>3, <2>2, <3>1
    <3>3. QED  BY <1>3, <2>1, <2>2, <3>1, <3>2 DEF OrderedIn
  <2>3. OrderedIn(rest, orders)
    BY <1>3, <2>2 DEF OrderedIn
  <2>4. QED  BY <1>1, <1>5, <2>3 DEF LockIInv, Ordered
<1>13. OneWay'
  BY <1>1 DEF LockIInv, OneWay
<1>14. QED
  BY <1>6, <1>10, <1>11, <1>12, <1>13 DEF LockIInv

\* Unlocking frees what the thread has not entered more than once.
LEMMA UnlockKeeps ==
  ASSUME LockIInv, ~alarm, NEW t \in LockThreads, Unlock(t)
  PROVE  LockIInv'
<1> DEFINE s == stack[t]
           c == leaving[t]
<1>1. /\ Leaves(t)
      /\ owner' = IF Positions(s, c) = {} THEN [owner EXCEPT ![c] = NoThread] ELSE owner
      /\ leaving' = [leaving EXCEPT ![t] = NoLock]
      /\ stack' = stack /\ wanted' = wanted /\ orders' = orders /\ alarm' = alarm
  BY DEF Unlock
<1>2. s \in Seq(CriticalSections) /\ c \in CriticalSections /\ ~Waits(t)
  BY <1>1 DEF LockIInv, LockTypeOK, WaitsForTop, Leaves
<1>3. Held(t) = Elements(s)
  BY <1>2, HeldIsHeldIn, HeldInFacts
<1>4. Positions(s, c) = {} <=> c \notin Elements(s)
  BY NoPosition
<1>5. \A u \in LockThreads : Held(u)' = Held(u) /\ (Waits(u)' <=> Waits(u))
  BY <1>1 DEF Held, Waits
<1>6. /\ LockTypeOK'
      /\ \A u \in LockThreads : leaving'[u] = IF u = t THEN NoLock ELSE leaving[u]
      /\ \A d \in CriticalSections :
           owner'[d] = IF d = c /\ c \notin Elements(s) THEN NoThread ELSE owner[d]
  BY <1>1, <1>2, <1>4 DEF LockIInv, LockTypeOK
<1>7. StackIsOwned'
  <2>1. owner[c] = t /\ \A u \in LockThreads \ {t} : c \notin Held(u) /\ leaving[u] # c
    BY <1>2 DEF LockIInv, StackIsOwned
  <2>2. ASSUME NEW u \in LockThreads, NEW d \in CriticalSections
        PROVE  owner'[d] = u <=> d \in Held(u)' \/ leaving'[u] = d
    <3>1. owner[d] = u <=> d \in Held(u) \/ leaving[u] = d
      BY DEF LockIInv, StackIsOwned
    <3> HIDE DEF c
    <3>2. CASE u = t
      <4>1. owner[d] = t <=> d \in Elements(s) \/ d = c
        BY <1>3, <3>1, <3>2 DEF c
      <4>2. Held(u)' = Elements(s) /\ leaving'[u] # d
        BY <1>3, <1>5, <1>6, <3>2, LockAssumption
      <4>3. QED  BY <1>6, <3>2, <4>1, <4>2, LockAssumption
    <3>3. CASE u # t
      BY <1>5, <1>6, <2>1, <3>1, <3>3, LockAssumption
    <3>4. QED  BY <3>2, <3>3
  <2>3. QED  BY <2>2 DEF StackIsOwned
<1>8. WaitsForTop' /\ Ordered' /\ OneWay'
  BY <1>1, <1>5, <1>6 DEF LockIInv, WaitsForTop, Leaves, Ordered, OneWay
<1>9. QED
  BY <1>6, <1>7, <1>8 DEF LockIInv

\* What is deleted is in no stack, so no stack misses it.
LEMMA DeleteLockKeeps ==
  ASSUME LockIInv, ~alarm, NEW c \in CriticalSections, DeleteLock(c)
  PROVE  LockIInv'
<1>1. PICK dropped \in SUBSET OrdersOf(c) : orders' = orders \ dropped
  BY DEF DeleteLock
<1>2. /\ stack' = stack /\ wanted' = wanted /\ leaving' = leaving /\ owner' = owner /\ alarm' = alarm
      /\ \A t \in LockThreads : Positions(stack[t], c) = {}
  BY DEF DeleteLock
<1>3. LockTypeOK' /\ OneWay'
  BY <1>1, <1>2 DEF LockIInv, LockTypeOK, OneWay
<1>4. StackIsOwned' /\ WaitsForTop'
  <2>1. \A t \in LockThreads : Held(t)' = Held(t) /\ (Waits(t)' <=> Waits(t)) /\ (Leaves(t)' <=> Leaves(t))
    BY <1>2 DEF Held, Waits, Leaves
  <2>2. QED  BY <1>2, <2>1 DEF LockIInv, StackIsOwned, WaitsForTop
<1>5. Ordered'
  <2>1. SUFFICES ASSUME NEW t \in LockThreads,
                        NEW i \in DOMAIN stack[t], NEW j \in DOMAIN stack[t], i < j,
                        \A k \in 1..(j - 1) : stack[t][k] # stack[t][j]
                 PROVE  <<stack[t][i], stack[t][j]>> \in orders'
    BY <1>2 DEF Ordered, OrderedIn
  <2>2. <<stack[t][i], stack[t][j]>> \in orders
    BY <2>1 DEF LockIInv, Ordered, OrderedIn
  <2>3. stack[t][i] # c /\ stack[t][j] # c
    BY <1>2 DEF Positions
  <2>4. <<stack[t][i], stack[t][j]>> \notin dropped
    BY <1>1, <2>3 DEF OrdersOf
  <2>5. QED  BY <1>1, <2>2, <2>4
<1>6. QED
  BY <1>3, <1>4, <1>5 DEF LockIInv

LEMMA LockStepIInv == LockIInv /\ [LockNext]_lockState => LockIInv'
<1>1. SUFFICES ASSUME LockIInv, [LockNext]_lockState PROVE LockIInv'
  OBVIOUS
<1>2. CASE LockNext
  BY <1>1, <1>2, EnterKeeps, TryEnterKeeps, TryFailsKeeps, AcquireKeeps, LeaveCriticalKeeps,
     UnlockKeeps, DeleteLockKeeps DEF LockNext
<1>3. CASE UNCHANGED lockState
  BY <1>1, <1>3 DEF lockState, LockIInv, LockTypeOK, StackIsOwned, WaitsForTop, Ordered, OneWay,
     Held, Waits, Leaves
<1>4. QED
  BY <1>1, <1>2, <1>3

-----------------------------------------------------------------------------

\* What a waiting thread holds is on record as held before what it waits for.
LEMMA HeldBeforeWanted ==
  ASSUME LockIInv, NEW t \in LockThreads, Waits(t), NEW d \in Held(t), wanted[t] \notin Held(t)
  PROVE  <<d, wanted[t]>> \in orders
<1> DEFINE s == stack[t]
           n == Len(s)
<1>1. s \in Seq(CriticalSections) /\ s # <<>> /\ wanted[t] = s[n] /\ OrderedIn(s, orders)
  BY DEF LockIInv, LockTypeOK, WaitsForTop, Ordered, Top
<1>2. n \in Nat \ {0} /\ DOMAIN s = 1..n
  BY <1>1, LenProperties, EmptySeq
<1>3. Held(t) = {s[i] : i \in 1..(n - 1)}
  BY DEF Held
<1> HIDE DEF n, s
<1>4. PICK i \in 1..(n - 1) : d = s[i]
  BY <1>3
<1>5. i \in 1..n /\ n \in 1..n /\ i < n
  BY <1>2
<1>6. \A k \in 1..(n - 1) : s[k] # s[n]
  BY <1>1, <1>3
<1>7. QED
  BY <1>1, <1>2, <1>4, <1>5, <1>6 DEF OrderedIn

LEMMA LockIInvIsSafe == LockIInv => LocksSafe
<1>1. SUFFICES ASSUME LockIInv PROVE LocksSafe
  OBVIOUS
<1>2. MutualWaitRaisesAlarm
  <2>1. SUFFICES ASSUME NEW t \in LockThreads, NEW u \in LockThreads, t # u,
                        Waits(t), Waits(u), wanted[t] \in Held(u), wanted[u] \in Held(t)
                 PROVE  alarm
    BY DEF MutualWaitRaisesAlarm
  <2>2. wanted[t] \in CriticalSections /\ wanted[u] \in CriticalSections
    BY <1>1, <2>1 DEF LockIInv, LockTypeOK, Waits
  <2>3. wanted[t] \notin Held(t) /\ wanted[u] \notin Held(u)
    BY <1>1, <2>1, <2>2 DEF LockIInv, StackIsOwned
  <2>4. <<wanted[u], wanted[t]>> \in orders /\ <<wanted[t], wanted[u]>> \in orders
    BY <1>1, <2>1, <2>3, HeldBeforeWanted
  <2>5. QED  BY <1>1, <2>2, <2>4 DEF LockIInv, OneWay
<1>3. HeldOrdersRecorded
  <2>1. SUFFICES ASSUME NEW t \in LockThreads,
                        NEW i \in DOMAIN stack[t], NEW j \in DOMAIN stack[t], i < j,
                        Positions(SubSeq(stack[t], 1, j - 1), stack[t][j]) = {}
                 PROVE  <<stack[t][i], stack[t][j]>> \in orders
    BY DEF HeldOrdersRecorded
  <2> DEFINE s == stack[t]
             below == SubSeq(s, 1, j - 1)
  <2>2. s \in Seq(CriticalSections) /\ OrderedIn(s, orders)
    BY <1>1 DEF LockIInv, LockTypeOK, Ordered
  <2>3. DOMAIN s = 1..Len(s) /\ Len(s) \in Nat
    BY <2>2, LenProperties
  <2>4. j - 1 \in 0..Len(s) /\ j \in 1..Len(s)
    BY <2>1, <2>3
  <2>5. /\ below \in Seq(CriticalSections) /\ Len(below) = j - 1
        /\ \A k \in 1..(j - 1) : below[k] = s[k]
    BY <2>2, <2>3, <2>4, SubSeqProperties
  <2>6. DOMAIN below = 1..(j - 1)
    BY <2>5, LenProperties
  <2>7. \A k \in 1..(j - 1) : s[k] # s[j]
    BY <2>1, <2>5, <2>6 DEF Positions
  <2>8. QED  BY <2>1, <2>2, <2>7 DEF OrderedIn
<1>4. QED
  BY <1>1, <1>2, <1>3 DEF LockIInv, LocksSafe

\* However many threads take however many locks, each owns what its stack says, and two that
\* wait for one another have raised the alarm (LocksSafe; sync.cpp:14 "early deadlock
\* detection", sync.h MutexLock).
THEOREM DeadlockIsDetected == LockSpec => []LocksSafe
<1>1. LockSpec => []LockIInv
  BY LockInitIInv, LockStepIInv, PTL DEF LockSpec
<1>2. QED
  BY <1>1, LockIInvIsSafe, PTL
=============================================================================
