---------------------------- MODULE ContainerRuns ----------------------------
(***************************************************************************)
(* The pool of pipeline containers: pipeline/container.ts and the places of    *)
(* pipeline/consumer.ts that start, join and destroy instances.  An instance   *)
(* belongs to a key and to the CONTAINER_GEN of the worker that asked for it   *)
(* (containerKey), a run of a key that has one joins it, and the platform       *)
(* allows MaxInstances.  An idle instance stops by an alarm, which a deploy     *)
(* loses; that is why the code destroys the instance of a job that is over.    *)
(* `Side` are the jobs of runPipeline (translations and posters), the others    *)
(* the items of runPipelineStreaming; `Tools` are the keys of short calls       *)
(* (feed shards, metadata, the cookie refresh), which are never destroyed.     *)
(* A deploy, an eviction, a destroy() that fails and the removal of an item     *)
(* are the faults, at most MaxUpsets of them.                                  *)
(***************************************************************************)
EXTENDS Naturals, FiniteSets

CONSTANTS Items, Side, Tools, Runs, MaxInstances, MaxRetries, MaxGen, MaxUpsets, NoJob

\* The bases of the keys tell the kinds apart: job-, tr-, ig-, and those of short calls.
ASSUME ContainersAssumption ==
  /\ Items \cap Side = {} /\ Tools \cap (Items \cup Side) = {} /\ NoJob \notin Items \cup Side
  /\ MaxRetries \in Nat /\ MaxGen \in Nat /\ MaxUpsets \in Nat

VARIABLES
  generation,   \* CONTAINER_GEN of the deployed worker
  pool,         \* instances that run
  alarm,        \* those whose idle alarm is set
  work,         \* job -> state of its row
  retries,      \* item -> item.retry_count
  run,          \* run -> where an invocation stands: its job, its CONTAINER_GEN
  excused,      \* history: instances whose run was cut off, outdated or removed, or whose
                \* destroy() failed
  upsets

containerVars == <<generation, pool, alarm, work, retries, run, excused, upsets>>

Jobs == Items \cup Side
Instances == (Jobs \cup Tools) \X (0..MaxGen)

NoRun == [at |-> "idle", job |-> NoJob, gen |-> 0, next |-> "waiting"]

\* containerKey and the bases job-<id>, tr-<id>-<lang>, ig-<id>.
InstanceOf(r) == <<run[r].job, run[r].gen>>

ContainersTypeOK ==
  /\ generation \in 0..MaxGen
  /\ pool \subseteq Instances /\ alarm \subseteq pool /\ excused \subseteq pool
  /\ work \in [Jobs -> {"waiting", "leased", "done", "error", "gone"}]
  /\ retries \in [Items -> 0..MaxRetries]
  /\ run \in [Runs -> [at: {"idle", "opening", "reading", "broken", "releasing"},
                       job: Jobs \cup {NoJob}, gen: 0..MaxGen,
                       next: {"waiting", "done", "error"}]]
  /\ upsets \in 0..MaxUpsets

ContainersInit ==
  /\ generation = 0 /\ pool = {} /\ alarm = {} /\ excused = {} /\ upsets = 0
  /\ work = [j \in Jobs |-> "waiting"]
  /\ retries = [i \in Items |-> 0]
  /\ run = [r \in Runs |-> NoRun]

-----------------------------------------------------------------------------
\* destroy(): the instance is gone, and who reads from it is cut off.
Destroyed(inst) ==
  /\ pool' = pool \ {inst} /\ alarm' = alarm \ {inst} /\ excused' = excused \ {inst}

CutOff(runs, insts) ==
  [r \in Runs |-> IF runs[r].at = "reading" /\ <<runs[r].job, runs[r].gen>> \in insts
                  THEN [runs[r] EXCEPT !.at = "broken"] ELSE runs[r]]

\* fetch(): joins the instance of the key or starts one, and sets its alarm.
Fetched(inst) ==
  /\ inst \in pool \/ Cardinality(pool) < MaxInstances
  /\ pool' = pool \cup {inst} /\ alarm' = alarm \cup {inst}

-----------------------------------------------------------------------------
\* claimNextQueuedItem, or the claim of a side job: an invocation of the deployed worker.
StartRun(r, j) ==
  /\ run[r].at = "idle" /\ work[j] = "waiting"
  /\ work' = [work EXCEPT ![j] = "leased"]
  /\ run' = [run EXCEPT ![r] = [NoRun EXCEPT !.at = "opening", !.job = j, !.gen = generation]]
  /\ UNCHANGED <<generation, pool, alarm, retries, excused, upsets>>

\* openPipelineStream, runPipeline up to its answer.
OpenRun(r) ==
  /\ run[r].at = "opening"
  /\ Fetched(InstanceOf(r))
  /\ run' = [run EXCEPT ![r].at = "reading"]
  /\ excused' = IF run[r].gen = generation /\ work[run[r].job] # "gone"
                THEN excused \ {InstanceOf(r)} ELSE excused \cup {InstanceOf(r)}
  /\ UNCHANGED <<generation, work, retries, upsets>>

\* The row of an item is written before the release, that of a side job after it.
Over(r, outcome) ==
  /\ run' = [run EXCEPT ![r].at = "releasing", ![r].next = outcome]
  /\ work' = IF run[r].job \in Items /\ work[run[r].job] # "gone"
             THEN [work EXCEPT ![run[r].job] = outcome] ELSE work
  /\ excused' = IF run[r].gen = generation THEN excused
                ELSE excused \cup {inst \in pool : inst[1] = run[r].job}

\* runPipelineStreaming, over the events that came before the stream ended or was idle
\* for PIPELINE_IDLE_MS: an error event counts although a result came, and an end
\* without a result is an error.
Throws(events, idle) == idle \/ "error" \in events \/ "result" \notin events

\* processClaimedItem with a result (done or excluded), runPipeline with one.
FinishRun(r) ==
  /\ run[r].at = "reading"
  /\ \E events \in SUBSET {"result", "error"} : ~Throws(events, FALSE)
  /\ Over(r, "done")
  /\ UNCHANGED <<generation, pool, alarm, retries, upsets>>

\* isTransientCapacity: the pool is full, the instance was reset or disconnected.  The
\* item goes back at once and keeps its instance; runPipeline releases in its finally.
DeferRun(r) ==
  /\ run[r].at \in {"opening", "reading", "broken"}
  /\ IF run[r].job \in Items
     THEN /\ work' = IF work[run[r].job] = "gone" THEN work
                     ELSE [work EXCEPT ![run[r].job] = "waiting"]
          /\ run' = [run EXCEPT ![r] = NoRun]
          /\ UNCHANGED excused
     ELSE Over(r, "waiting")
  /\ UNCHANGED <<generation, pool, alarm, retries, upsets>>

\* Mutated form of FailRun: the job ends without a release, as before there was one.
FailWithoutRelease(r) ==
  /\ run[r].at \in {"reading", "broken"}
  /\ run' = [run EXCEPT ![r] = NoRun]
  /\ work' = [work EXCEPT ![run[r].job] = "error"]
  /\ UNCHANGED <<generation, pool, alarm, retries, excused, upsets>>

\* handlePipelineFailure with any other error: another attempt while there are some.
FailRun(r) ==
  /\ \/ run[r].at = "broken"
     \/ /\ run[r].at = "reading"
        /\ \E events \in SUBSET {"result", "error"}, idle \in BOOLEAN : Throws(events, idle)
  /\ IF run[r].job \notin Items THEN Over(r, "error") /\ UNCHANGED retries
     ELSE LET attempts == retries[run[r].job] + 1
          IN IF attempts < MaxRetries
             THEN Over(r, "waiting") /\ retries' = [retries EXCEPT ![run[r].job] = attempts]
             ELSE Over(r, "error") /\ UNCHANGED retries
  /\ UNCHANGED <<generation, pool, alarm, upsets>>

\* releaseContainerKey: a destroy() that throws is logged, and the caller goes on as if
\* the instance were gone.
Released(r) ==
  \/ /\ Destroyed(InstanceOf(r))
     /\ run' = CutOff([run EXCEPT ![r] = NoRun], {InstanceOf(r)})
     /\ UNCHANGED upsets
  \/ /\ upsets < MaxUpsets /\ upsets' = upsets + 1
     /\ run' = [run EXCEPT ![r] = NoRun]
     /\ excused' = excused \cup (pool \cap {InstanceOf(r)})
     /\ UNCHANGED <<pool, alarm>>

\* releaseContainer: the instance of the job under the generation of this run.
ReleaseRun(r) ==
  /\ run[r].at = "releasing"
  /\ Released(r)
  /\ work' = IF run[r].job \in Side THEN [work EXCEPT ![run[r].job] = run[r].next] ELSE work
  /\ UNCHANGED <<generation, retries>>

\* Nobody claims for a removed item; what is left of its runs goes on.
Unattended(j) == \A r \in Runs : run[r].job # j

\* recoverRetriedProcessItem, a stale claim, the redelivery of a side job: the row is
\* taken back and its instance left to the next run.
Recover(j) ==
  /\ work[j] = "leased" /\ Unattended(j)
  /\ work' = [work EXCEPT ![j] = "waiting"]
  /\ UNCHANGED <<generation, pool, alarm, retries, run, excused, upsets>>

\* reapSilentItems, failStrandedItems: the row first, whoever runs the item, then its
\* instance.
Reap(r, i) ==
  /\ run[r].at = "idle" /\ work[i] = "leased"
  /\ LET outcome == IF retries[i] < MaxRetries THEN "waiting" ELSE "error"
     IN /\ work' = [work EXCEPT ![i] = outcome]
        /\ run' = [run EXCEPT ![r] = [at |-> "releasing", job |-> i, gen |-> generation,
                                      next |-> outcome]]
  /\ retries' = IF retries[i] < MaxRetries THEN [retries EXCEPT ![i] = @ + 1] ELSE retries
  /\ UNCHANGED <<generation, pool, alarm, excused, upsets>>

\* auxContainerCall: not destroyed after it; a full pool is tried again later.
CallTool(k) ==
  /\ Fetched(<<k, generation>>)
  /\ UNCHANGED <<generation, work, retries, run, excused, upsets>>

\* sleepAfter: an instance that nobody reads stops when its alarm fires.
AlarmFires(inst) ==
  /\ inst \in alarm
  /\ \A r \in Runs : run[r].at = "reading" => InstanceOf(r) # inst
  /\ Destroyed(inst)
  /\ UNCHANGED <<generation, work, retries, run, upsets>>

\* The message release_containers, which operators send; if destroy() fails here, all
\* is as it was.
ReleaseKey(inst) ==
  /\ inst \in excused
  /\ Destroyed(inst)
  /\ run' = CutOff(run, {inst})
  /\ UNCHANGED <<generation, work, retries, upsets>>

\* A deploy resets the Durable Objects: streams break and alarms are lost, instances
\* run on.  Invocations keep the environment they started with.
Deploy(bump) ==
  /\ upsets < MaxUpsets /\ generation + bump <= MaxGen
  /\ generation' = generation + bump
  /\ alarm' = {}
  /\ run' = CutOff(run, pool)
  /\ excused' = IF bump = 1 THEN pool ELSE excused
  /\ upsets' = upsets + 1
  /\ UNCHANGED <<pool, work, retries>>

\* An invocation is cut off; its row stays as it is.
EvictRun(r) ==
  /\ upsets < MaxUpsets /\ run[r].at # "idle"
  /\ run' = [run EXCEPT ![r] = NoRun]
  /\ excused' = excused \cup (pool \cap {InstanceOf(r)})
  /\ upsets' = upsets + 1
  /\ UNCHANGED <<generation, pool, alarm, work, retries>>

\* The item is deleted; nobody destroys its instance.
ForgetItem(i) ==
  /\ upsets < MaxUpsets /\ work[i] # "gone"
  /\ work' = [work EXCEPT ![i] = "gone"]
  /\ excused' = excused \cup {inst \in pool : inst[1] = i}
  /\ upsets' = upsets + 1
  /\ UNCHANGED <<generation, pool, alarm, retries, run>>

ContainersNext ==
  \/ \E r \in Runs : \/ \E j \in Jobs : StartRun(r, j)
                     \/ OpenRun(r) \/ FinishRun(r) \/ DeferRun(r) \/ FailRun(r)
                     \/ ReleaseRun(r) \/ EvictRun(r)
                     \/ \E i \in Items : Reap(r, i)
  \/ \E j \in Jobs : Recover(j)
  \/ \E i \in Items : ForgetItem(i)
  \/ \E k \in Tools : CallTool(k)
  \/ \E inst \in pool : AlarmFires(inst) \/ ReleaseKey(inst)
  \/ \E bump \in {0, 1} : Deploy(bump)

ContainersSpec == ContainersInit /\ [][ContainersNext]_containerVars

-----------------------------------------------------------------------------
\* An instance of a job that no alarm will stop is wanted: a run works on it and will
\* release it, or the row waits and the next run takes it.  What holds a slot of the
\* pool for nothing comes from an eviction, a new CONTAINER_GEN, a removal or a destroy()
\* that failed and was only logged (container.ts:186-199, consumer.ts:560, 826, 836).
StraysExcused ==
  \A inst \in pool \ (alarm \cup excused) : inst[1] \in Jobs =>
     \/ \E r \in Runs : run[r].at # "idle" /\ InstanceOf(r) = inst
     \/ work[inst[1]] \in {"waiting", "leased"} /\ inst[2] = generation
=============================================================================
