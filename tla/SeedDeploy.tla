----------------------------- MODULE SeedDeploy -----------------------------
(***************************************************************************)
(* `clydectl daemonset` (src/tools/clydectl/cmd/deploy.go) driving the    *)
(* seed executor (internal/seed/executor.go) and the doubling planner.     *)
(*                                                                         *)
(* The command seeds an image on about half of the cluster's nodes, in     *)
(* waves, by creating one pull pod per node, and then deploys the          *)
(* DaemonSet.  There are three paths: classic doubling                     *)
(* (--disable-bandwidth-aware), the public path (one Seed of               *)
(* --public-seeds nodes) and the monitored path, where the seed waves      *)
(* overlap: while a wave is pulling, a monitor tick may decide that the    *)
(* network is healthy and start the next doubling batch at once.           *)
(*                                                                         *)
(* Nodes are 1..N in ListNodes order (the API server lists them sorted by *)
(* name).  A pod is named after its node; its phase is set by the kubelet *)
(* (PodSucceeds, PodFails).  A monitor tick samples the network with one  *)
(* measurement pod per monitor node; bandwidth, jitter and the clock are   *)
(* abstracted to the choices they lead to (whether a decision is due, and  *)
(* whether they are healthy), while failed samples are kept.               *)
(***************************************************************************)
EXTENDS DoublingPlanner, RegistryProbe, FiniteSets

CONSTANTS
  N,              \* nodes in the cluster
  InitialCounts,  \* values of --initial-seeds to start with
  PublicSeeds,    \* --public-seeds
  MaxFaults       \* failed pods and failed pod creations in a run

ASSUME N \in Nat \ {0} /\ PublicSeeds \in Nat /\ MaxFaults \in Nat
ASSUME InitialCounts \subseteq Int

Nodes == 1..N

(* seedTargetNodes := (totalNodes + 1) / 2                                 *)
SeedTarget == (N + 1) \div 2

VARIABLES
  mode,      \* "classic", "public" or "monitored": the path taken
  planner,   \* the DoublingPlanner record
  seeded,    \* Executor.seededNodes
  inFlight,  \* Executor.inFlight
  phase,     \* phase[n]: the seed pod of node n
  wave,      \* remainingWave: nodes whose seed pods are still polled
  stopped,   \* monitoringStopped
  pc,        \* where the command is
  faults,
  monitors,  \* monitorNodes
  mpod,      \* mpod[n]: the measurement pod object named after node n
  awaited,   \* pods whose sampling goroutine has not returned yet
  dropped,   \* the monitorAggregate has counted a failed sample
  resume     \* the monitored loop a tick returns to

mvars == <<monitors, mpod, awaited, dropped, resume>>
vars == <<mode, planner, seeded, inFlight, phase, wave, stopped, pc, faults,
          mvars>>

Phases == {"none", "Pending", "Succeeded", "Failed"}

(* A measurement pod: no object, created and awaited by its goroutine, or *)
(* deleted but still held by the API server for its grace period.         *)
MPhases == {"none", "Running", "Terminating"}

(* selectMonitorNodes(nodes, initialBatch.Nodes, k): the first k listed    *)
(* nodes outside the initial batch (nodes 1..k), else the batch itself.    *)
MonitorNodes(k) ==
  LET outside == {n \in Nodes : k < n /\ n <= 2 * k} IN
  IF outside = {} THEN 1..k ELSE outside

(* Mutant: the loop breaks only once the batch has grown past batchSize.   *)
SelectUnseededNodesOffByOne(batchSize) ==
  LET free == {n \in Nodes : n \notin seeded /\ n \notin inFlight} IN
  {n \in free : Cardinality({m \in free : m < n}) <= batchSize}

(* Mutant: selectUnseededNodes skips seeded nodes only.                    *)
SelectUnseededNodesIgnoringInFlight(batchSize) ==
  LET free == {n \in Nodes : n \notin seeded} IN
  {n \in free : Cardinality({m \in free : m < n}) < batchSize}

(* selectUnseededNodes: the first batchSize nodes, in list order, that are *)
(* neither seeded nor in flight.                                           *)
SelectUnseededNodes(batchSize) ==
  LET free == {n \in Nodes : n \notin seeded /\ n \notin inFlight} IN
  {n \in free : Cardinality({m \in free : m < n}) < batchSize}

(* The nodes StartSeedBatch(b) targets: none for b <= 0.                   *)
BatchNodes(b) == IF b <= 0 THEN {} ELSE SelectUnseededNodes(b)

(* StartSeedBatch(b) after a poll that left the in-flight set I           *)
(* (seeded \cup inFlight is the same before and after a poll).  Pods are  *)
(* created on the selected nodes in order, each node marked in flight     *)
(* first; on success the command goes on at `next`.  When creating m's    *)
(* pod fails, m is taken out of flight, the pods created before it keep   *)
(* running, and the error aborts the command.  The caller joins the batch *)
(* to the wave: JoinWave(W, b).                                           *)
StartSeedBatch(b, I, next) ==
  LET S == BatchNodes(b) IN
  \/ /\ inFlight' = I \cup S
     /\ phase' = [n \in Nodes |-> IF n \in S THEN "Pending" ELSE phase[n]]
     /\ pc' = next
     /\ UNCHANGED faults
  \/ /\ faults < MaxFaults
     /\ \E m \in S :
          LET before == {n \in S : n < m} IN
          /\ inFlight' = I \cup before
          /\ phase' = [n \in Nodes |-> IF n \in before THEN "Pending" ELSE phase[n]]
     /\ pc' = "failed" /\ faults' = faults + 1

JoinWave(W, b) == wave' = IF pc' = "failed" THEN W ELSE W \cup BatchNodes(b)

(* checkBatchProgressDetailed with markSeeded: the pods of the wave are   *)
(* read in order; a Succeeded pod's node becomes seeded and leaves flight, *)
(* a Failed one ends the poll with an error after the nodes before it     *)
(* were marked.                                                            *)
FirstFailed == {n \in wave : phase[n] = "Failed" /\ \A m \in wave : m < n => phase[m] /= "Failed"}
SucceededBefore(f) == {n \in wave : phase[n] = "Succeeded" /\ n < f}
Done == {n \in wave : phase[n] = "Succeeded"}

Init ==
  /\ mode \in {"classic", "public", "monitored"}
  /\ planner \in {NewDoublingPlanner(SeedTarget, c) : c \in InitialCounts}
  /\ seeded = {} /\ inFlight = {}
  /\ phase = [n \in Nodes |-> "none"]
  /\ wave = {} /\ stopped = FALSE
  /\ pc = "start" /\ faults = 0
  /\ monitors = {} /\ mpod = [n \in Nodes |-> "none"] /\ awaited = {}
  /\ dropped = FALSE /\ resume = "monitor"

-----------------------------------------------------------------------------
(* deployCmd.RunE after ListNodes: the classic path starts its doubling    *)
(* loop; the public path runs Seed(publicSeeds) or deploys at once; the    *)
(* monitored path resolves the image size and the probe layer from the    *)
(* registry (failing the command when it cannot), then takes the planner's *)
(* first batch and starts it without waiting.                              *)
Start ==
  /\ pc = "start"
  /\ \/ /\ mode = "classic"
        /\ pc' = "classic"
        /\ UNCHANGED <<planner, inFlight, phase, wave, faults, monitors>>
     \/ /\ mode = "public" /\ PublicSeeds > 0
        /\ StartSeedBatch(PublicSeeds, inFlight, "publicWait")
        /\ JoinWave({}, PublicSeeds)
        /\ UNCHANGED <<planner, monitors>>
     \/ /\ mode = "public" /\ PublicSeeds = 0
        /\ pc' = "deployed"
        /\ UNCHANGED <<planner, inFlight, phase, wave, faults, monitors>>
     \/ /\ mode = "monitored"
        /\ \E target, monitor \in SampleImages : ~ProbeResolves(target, monitor)
        /\ pc' = "failed"
        /\ UNCHANGED <<planner, inFlight, phase, wave, faults, monitors>>
     \/ /\ mode = "monitored"
        /\ \E target, monitor \in SampleImages : ProbeResolves(target, monitor)
        /\ planner' = AfterBatch(planner)
        /\ StartSeedBatch(NextBatch(planner), inFlight, "monitor")
        /\ JoinWave({}, NextBatch(planner))
        /\ monitors' = MonitorNodes(NextBatch(planner))
  /\ UNCHANGED <<mode, seeded, stopped, mpod, awaited, dropped, resume>>

(* The doubling loop `for planner.HasNext()`: the next batch is started    *)
(* (Seed on the classic path, StartSeedBatch after the monitored phase),   *)
(* or, with the target planned and seeded, DeployDaemonSet.                *)
Wave ==
  /\ pc \in {"classic", "waves"}
  /\ \/ /\ HasNext(planner)
        /\ planner' = AfterBatch(planner)
        /\ StartSeedBatch(NextBatch(planner), inFlight,
                          IF pc = "classic" THEN "classicWait" ELSE "wavesWait")
        /\ JoinWave({}, NextBatch(planner))
     \/ /\ ~HasNext(planner)
        /\ pc' = "deployed"
        /\ UNCHANGED <<planner, inFlight, phase, wave, faults>>
  /\ UNCHANGED <<mode, seeded, stopped, mvars>>

(* WaitForBatch: one poll of the wave.  When no pod is left, Seed returns: *)
(* the classic loop goes on and the public path deploys.  Without         *)
(* forgetProgress the loop keeps polling only the pods still running       *)
(* (`remaining = progress.Remaining`).                                     *)
WaitPoll(forgetProgress) ==
  /\ pc \in {"classicWait", "publicWait"}
  /\ \/ \E f \in FirstFailed :
          /\ seeded' = seeded \cup SucceededBefore(f)
          /\ inFlight' = inFlight \ (SucceededBefore(f) \cup {f})
          /\ pc' = "failed"
          /\ UNCHANGED wave
     \/ /\ FirstFailed = {}
        /\ seeded' = seeded \cup Done
        /\ inFlight' = inFlight \ Done
        /\ wave' = IF forgetProgress THEN wave ELSE wave \ Done
        /\ pc' = IF wave' /= {} THEN pc
                 ELSE IF pc = "classicWait" THEN "classic" ELSE "deployed"
  /\ UNCHANGED <<mode, planner, phase, stopped, faults, mvars>>

(* Mutant: the poll result is dropped and the same pods are polled again. *)
PollIgnoringProgress == WaitPoll(TRUE)

Poll == WaitPoll(FALSE)

(* The monitored loops (`for len(remainingWave) > 0`): poll the wave with  *)
(* CheckBatchProgressDetailed, then runMonitorTick(len(remainingWave)).    *)
(* With nothing to plan and nothing pulling, monitoring stops; once        *)
(* stopped, a tick does nothing and the loop leaves the monitored phase    *)
(* when the wave is empty.  Otherwise the tick samples the monitor nodes.  *)
MonitorPoll ==
  /\ pc \in {"monitor", "wavesWait"}
  /\ \/ \E f \in FirstFailed :
          /\ seeded' = seeded \cup SucceededBefore(f)
          /\ inFlight' = inFlight \ (SucceededBefore(f) \cup {f})
          /\ pc' = "failed"
          /\ UNCHANGED <<wave, stopped, resume>>
     \/ /\ FirstFailed = {}
        /\ seeded' = seeded \cup Done
        /\ inFlight' = inFlight \ Done
        /\ wave' = wave \ Done
        /\ LET quiet == ~HasNext(planner) /\ wave' = {} IN
           \/ /\ quiet \/ stopped
              /\ stopped' = TRUE
              /\ pc' = IF wave' = {} THEN "waves" ELSE pc
              /\ UNCHANGED resume
           \/ /\ ~quiet /\ ~stopped
              /\ pc' = "sample" /\ resume' = pc
              /\ UNCHANGED stopped
  /\ UNCHANGED <<mode, planner, phase, faults, monitors, mpod, awaited,
                 dropped>>

(* measurementPodName: the pod of node n is named after n alone, so its   *)
(* Create fails with AlreadyExists while an object of that name exists.    *)
NameTaken(n) == mpod[n] /= "none"

(* CreateMeasurementPods returns the pods created before the first create *)
(* that failed (every monitor node's pod when none failed).                *)
CreatedBefore(f) == {m \in monitors : m < f}

(* Mutant: the pods created before a failed creation are not deleted.     *)
SampleNodesOnceLeavingPods ==
  /\ pc = "sample"
  /\ LET taken == {m \in monitors : NameTaken(m)} IN
     \/ /\ taken = {}
        /\ mpod' = [n \in Nodes |-> IF n \in monitors THEN "Running" ELSE mpod[n]]
        /\ awaited' = monitors
        /\ UNCHANGED dropped
     \/ \E f \in taken :
          /\ \A m \in taken : f <= m
          /\ mpod' = [n \in Nodes |->
                       IF n \in CreatedBefore(f) THEN "Running" ELSE mpod[n]]
          /\ dropped' = TRUE /\ UNCHANGED awaited
  /\ pc' = "wait"
  /\ UNCHANGED <<mode, planner, seeded, inFlight, phase, wave, stopped,
                 faults, monitors, resume>>

(* SampleNodesOnce, up to wg.Wait: CreateMeasurementPods creates the pod   *)
(* "clyde-measure-<node>" of each monitor node in order.  A create fails   *)
(* while an object of that name still exists (the pod of an earlier tick   *)
(* that is still terminating); then the pods created before it are        *)
(* deleted, the tick's sample is an error and addFailureBatch counts every *)
(* monitor node as a failed sample.  Otherwise one goroutine per pod       *)
(* waits for its result.                                                   *)
SampleNodesOnce ==
  /\ pc = "sample"
  /\ LET taken == {m \in monitors : NameTaken(m)} IN
     \/ /\ taken = {}
        /\ mpod' = [n \in Nodes |-> IF n \in monitors THEN "Running" ELSE mpod[n]]
        /\ awaited' = monitors
        /\ UNCHANGED dropped
     \/ \E f \in taken :
          /\ \A m \in taken : f <= m
          /\ mpod' = [n \in Nodes |->
                       IF n \in CreatedBefore(f) THEN "Terminating" ELSE mpod[n]]
          /\ dropped' = TRUE /\ UNCHANGED awaited
  /\ pc' = "wait"
  /\ UNCHANGED <<mode, planner, seeded, inFlight, phase, wave, stopped,
                 faults, monitors, resume>>

(* A sampling goroutine: waitForResult polls the pod until it has          *)
(* succeeded and parses its curl output (a failed pod, an HTTP code        *)
(* outside 200..399 or zero bytes is a failed sample), then its deferred   *)
(* DeletePod deletes the pod.                                              *)
Measure(m) ==
  /\ pc = "wait" /\ m \in awaited
  /\ awaited' = awaited \ {m}
  /\ mpod' = [mpod EXCEPT ![m] = "Terminating"]
  /\ \E failed \in BOOLEAN : dropped' = (dropped \/ failed)
  /\ UNCHANGED <<mode, planner, seeded, inFlight, phase, wave, stopped, pc,
                 faults, monitors, resume>>

(* monitorAggregate accumulates every tick's samples since monitorStart;   *)
(* its drop rate stays within the 1% default only while no sample failed. *)
DropRateHealthy == ~dropped

(* The rest of runMonitorTick, once every goroutine is done.  When a       *)
(* decision is due the aggregate is judged by IsHealthy: with the default  *)
(* --monitor-drop-threshold of 1%, one failed batch among the few dozen    *)
(* samples of a window already makes it unhealthy; bandwidth and jitter    *)
(* are a free choice.  An unhealthy network, or a healthy one with the     *)
(* target planned, stops monitoring; otherwise the next doubling batch     *)
(* starts, and `joined` says whether its pods join remainingWave.           *)
MonitorDecision(joined) ==
  LET Continue(st) ==
        /\ stopped' = st
        /\ pc' = IF wave = {} THEN "waves" ELSE resume
        /\ UNCHANGED <<planner, inFlight, phase, wave, faults>>
  IN
  /\ pc = "wait" /\ awaited = {}    \* wg.Wait
  /\ \/ Continue(FALSE)                    \* no decision due
     \/ Continue(TRUE)                     \* decided to stop
     \/ /\ DropRateHealthy /\ HasNext(planner)   \* healthy: next batch
        /\ planner' = AfterBatch(planner) /\ UNCHANGED stopped
        /\ StartSeedBatch(NextBatch(planner), inFlight, resume)
        /\ IF joined THEN JoinWave(wave, NextBatch(planner)) ELSE wave' = wave
  /\ UNCHANGED <<mode, seeded, monitors, mpod, awaited, dropped, resume>>

(* Mutant: a batch started by a monitor tick is not added to the wave.    *)
RunMonitorTickDetached == MonitorDecision(FALSE)

RunMonitorTick == MonitorDecision(TRUE)

(* The API server removes a deleted pod once its grace period is over.     *)
PodGone(m) ==
  /\ mpod[m] = "Terminating"
  /\ mpod' = [mpod EXCEPT ![m] = "none"]
  /\ UNCHANGED <<mode, planner, seeded, inFlight, phase, wave, stopped, pc,
                 faults, monitors, awaited, dropped, resume>>

(* The kubelet finishes a seed pod's pull, or the pod fails.               *)
PodSucceeds(n) ==
  /\ phase[n] = "Pending"
  /\ phase' = [phase EXCEPT ![n] = "Succeeded"]
  /\ UNCHANGED <<mode, planner, seeded, inFlight, wave, stopped, pc, faults,
                 mvars>>

PodFails(n) ==
  /\ phase[n] = "Pending" /\ faults < MaxFaults
  /\ phase' = [phase EXCEPT ![n] = "Failed"]
  /\ faults' = faults + 1
  /\ UNCHANGED <<mode, planner, seeded, inFlight, wave, stopped, pc, mvars>>

Next ==
  \/ Start \/ Wave \/ Poll \/ MonitorPoll \/ SampleNodesOnce \/ RunMonitorTick
  \/ \E n \in Nodes : PodSucceeds(n) \/ PodFails(n) \/ Measure(n) \/ PodGone(n)

(* The command's own loop always proceeds, and a pull that does not fail   *)
(* eventually completes; a measurement pod's curl ends within --max-time, *)
(* and the API server removes a deleted pod.                               *)
Fairness ==
  /\ WF_vars(Start) /\ WF_vars(Wave) /\ WF_vars(Poll) /\ WF_vars(MonitorPoll)
  /\ WF_vars(SampleNodesOnce) /\ WF_vars(RunMonitorTick)
  /\ \A n \in Nodes : WF_vars(PodSucceeds(n)) /\ WF_vars(Measure(n))
                     /\ WF_vars(PodGone(n))

Spec == Init /\ [][Next]_vars /\ Fairness

-----------------------------------------------------------------------------
PCs == {"start", "classic", "classicWait", "publicWait", "monitor",
        "sample", "wait", "waves", "wavesWait", "deployed", "failed"}

TypeOK ==
  /\ mode \in {"classic", "public", "monitored"}
  /\ planner.current \in 0..planner.total /\ planner.total = SeedTarget
  /\ seeded \subseteq Nodes /\ inFlight \subseteq Nodes /\ wave \subseteq Nodes
  /\ phase \in [Nodes -> Phases]
  /\ stopped \in BOOLEAN /\ pc \in PCs /\ faults \in 0..MaxFaults
  /\ monitors \subseteq Nodes /\ mpod \in [Nodes -> MPhases]
  /\ awaited \subseteq monitors
  /\ dropped \in BOOLEAN /\ resume \in {"monitor", "wavesWait"}

(* Executor bookkeeping on the doubling paths: until an error aborts the  *)
(* command, no node is both seeded and in flight, and the nodes seeded or  *)
(* in flight are exactly the planner's `current`.  A monitor tick starts   *)
(* a batch while the previous wave is still pulling, so this rests on      *)
(* selectUnseededNodes skipping in-flight nodes and on every selected node *)
(* being free.                                                             *)
SeedAccounting ==
  mode /= "public" /\ pc /= "failed" =>
    /\ seeded \cap inFlight = {}
    /\ Cardinality(seeded \cup inFlight) = planner.current

(* DeployDaemonSet runs only after every seed pod started has been seen    *)
(* Succeeded, with the seed target reached (min(--public-seeds, nodes) on  *)
(* the public path): no pod of a monitored batch is left unpolled.         *)
DeployedOnlyWhenSeeded ==
  pc = "deployed" =>
    /\ inFlight = {}
    /\ Cardinality(seeded) =
         IF mode = "public" THEN IF PublicSeeds < N THEN PublicSeeds ELSE N
         ELSE SeedTarget

(* The deploy command's planner, wherever it is, has planned a prefix of  *)
(* the doubling (min(total, initial * 2^(k-1)) after wave k), and for      *)
(* every cluster size and every --initial-seeds value its first wave is    *)
(* between 1 and total (a first wave of 0 would repeat forever) and its    *)
(* waves are exactly the doubling of the reference, summing to total.      *)
PlanFollowsDoubling ==
  /\ \E k \in 0..planner.total : planner.current = Planned(planner.total, planner.initial, k)
  /\ PlanMatchesReference

(* The seed goal of the path taken.                                        *)
Goal == IF mode = "public" THEN IF PublicSeeds < N THEN PublicSeeds ELSE N
        ELSE SeedTarget

Rollout == INSTANCE SeedRollout WITH
  claimed <- seeded \cup inFlight,
  outcome <- CASE pc = "deployed" -> "deployed"
               [] pc = "failed" -> "failed"
               [] OTHER -> "running",
  goal <- Goal

(* The deploy command implements the abstract rollout: the nodes seeded   *)
(* or in flight only grow, never beyond the path's goal (the planner's     *)
(* cap, or --public-seeds on the public path); Seed and the monitored      *)
(* polls only mark nodes they started; DeployDaemonSet runs with every     *)
(* started node seeded and the goal reached.                               *)
RolloutRefined == Rollout!Spec

(* No measurement pod is left behind: every pod SampleNodesOnce created    *)
(* and has not deleted is awaited by a goroutine whose deferred DeletePod *)
(* will delete it, also when creating a later pod of the tick failed.  A   *)
(* pod left running would outlive the command and make the create of its  *)
(* name fail on every later tick.                                         *)
NoMeasurementPodLeft == \A n \in Nodes : mpod[n] = "Running" => n \in awaited

(* The command returns: every path, under pods that eventually finish,     *)
(* either deploys or fails; no doubling loop repeats forever.              *)
Terminates == <>(pc \in {"deployed", "failed"})

=============================================================================
