----------------------------- MODULE Scheduler -----------------------------
(***************************************************************************)
(* The tick loop of internal/scheduler: every leader reads the jobs, and   *)
(* for each one the watermark, works out which fires are due, and writes   *)
(* tickets and watermarks.  Jobs are created, changed and deleted meanwhile*)
(* (internal/jobs), tickets are worked off (module Queue), and leadership  *)
(* changes hands as module Leadership allows.                              *)
(*                                                                         *)
(* Time is a number, and a cron expression with its time zone is the set   *)
(* of the times at which it fires.  One step is one etcd operation with    *)
(* the local work up to the next one.  The flag that leader() reads is     *)
(* local to the node, so a check of it is part of the operation after it.  *)
(***************************************************************************)
EXTENDS Integers, Leadership, Etcd

CONSTANTS
    Job,            \* the jobs, by ID
    JobValue,       \* the values a job takes: enabled, cron, policy
    Fires,          \* when each cron expression fires
    MaxCatchUp,     \* maxCatchUpFires
    MaxTime,        \* bound: the last instant
    MaxChanges,     \* bound: how often jobs are created, changed or deleted
    MaxTerms        \* bound: how often a leader is elected

Policy == {"run_latest", "run_all", "skip"}

ASSUME SchedulerAssumption ==
    /\ Job \subseteq Nat
    /\ \A v \in JobValue :
           /\ v.enabled \in BOOLEAN
           /\ v.policy \in Policy
           /\ Fires[v.cron] \in SUBSET (Nat \ {0})
    /\ MaxCatchUp \in Nat \ {0}
    /\ MaxTime \in Nat
    /\ MaxChanges \in Nat
    /\ MaxTerms \in Nat

VARIABLES
    \* in etcd
    jobs,       \* /cron/jobs/
    watermark,  \* /cron/watermark/
    tickets,    \* the pending keys of scheduled fires, as <<job, fire>>
    \* on a node, for the tick under way
    pc,         \* where the tick is
    todo,       \* the enabled jobs it listed and has still to visit
    at,         \* its time
    plan,       \* the writes it has still to make for the job it visits
    \* the world
    clock,      \* the time
    changes,    \* how many changes of jobs there were
    terms,      \* how many elections there were
    \* bookkeeping
    enqueued,   \* every fire that was ever enqueued
    armed       \* for each job, the highest watermark that was ever put without
                \* a ticket, and the time of the tick that put it

jobVars == <<jobs, changes>>
etcdVars == <<watermark, tickets, enqueued, armed>>
tickVars == <<pc, todo, at, plan>>
vars == <<jobVars, etcdVars, tickVars, clock, terms, leadershipVars>>

PC == {"idle", "visit", "write"}
Write == [fire : Nat, wm : Nat, enqueue : BOOLEAN]

\* Every variable holds a value of its type.
TypeOK ==
    /\ IsKeySpace(jobs, Job, JobValue)
    /\ IsKeySpace(watermark, Job, Nat)
    /\ tickets \subseteq Job \X Nat
    /\ pc \in [Node -> PC]
    /\ todo = [n \in Node |-> todo[n]]
    /\ \A n \in Node : IsKeySpace(todo[n], Job, JobValue)
    /\ at \in [Node -> Nat]
    /\ plan \in [Node -> SUBSET Write]
    /\ clock \in Nat
    /\ changes \in Nat
    /\ terms \in Nat
    /\ enqueued \subseteq Job \X Nat
    /\ IsKeySpace(armed, Job, [at : Nat, wm : Nat])
    /\ LeadershipTypeOK

Init ==
    /\ jobs = NoKeys
    /\ watermark = NoKeys
    /\ tickets = {}
    /\ pc = [n \in Node |-> "idle"]
    /\ todo = [n \in Node |-> NoKeys]
    /\ at = [n \in Node |-> 0]
    /\ plan = [n \in Node |-> {}]
    /\ clock = 0
    /\ changes = 0
    /\ terms = 0
    /\ enqueued = {}
    /\ armed = NoKeys
    /\ LeadershipInit

-----------------------------------------------------------------------------
(* What scheduleJob works out *)

\* The fires of a job value v after time t.
Later(v, t) == {f \in Fires[v.cron] : f > t}

\* cron.NextAfter; it returns an error when Later is empty.
NextAfter(v, t) == CHOOSE f \in Later(v, t) : \A g \in Later(v, t) : f <= g

\* The fires after `from' that are not after `now', the oldest MaxCatchUp of them.
DueFires(v, from, now) ==
    LET due == {f \in Fires[v.cron] : f > from /\ f <= now}
    IN  {f \in due : Cardinality({g \in due : g < f}) < MaxCatchUp}

Latest(S) == CHOOSE f \in S : \A g \in S : g <= f

\* The loop stopped because it found a future fire, not because it was full.
SawFuture(fires) == Cardinality(fires) < MaxCatchUp

\* Where skip and run_latest set the watermark: the future fire if the loop found
\* it, the last fire it collected if not.
Target(v, fires, now) == IF SawFuture(fires) THEN NextAfter(v, now) ELSE Latest(fires)

AdvanceTo(t) == [fire |-> t, wm |-> t, enqueue |-> FALSE]
EnqueueAt(f, t) == [fire |-> f, wm |-> t, enqueue |-> TRUE]

\* A job without a watermark is armed with its next fire.
Arm(v, now) == IF Later(v, now) = {} THEN {} ELSE {AdvanceTo(NextAfter(v, now))}

\* Mutant: run_all moves the watermark as run_latest does.
CatchUpJumps(v, from, now) ==
    LET fires == DueFires(v, from, now)
    IN  IF fires = {} \/ (SawFuture(fires) /\ Later(v, now) = {}) THEN {}
        ELSE {EnqueueAt(f, Target(v, fires, now)) : f \in fires}

\* The writes for a job with a watermark.  An error of NextAfter drops the fires
\* collected before it.
CatchUp(v, from, now) ==
    LET fires == DueFires(v, from, now)
    IN  IF fires = {} \/ (SawFuture(fires) /\ Later(v, now) = {}) THEN {}
        ELSE CASE v.policy = "skip" -> {AdvanceTo(Target(v, fires, now))}
               [] v.policy = "run_all" -> {EnqueueAt(f, f) : f \in fires}
               [] v.policy = "run_latest" ->
                      {EnqueueAt(Latest(fires), Target(v, fires, now))}

Schedule(j, v, now) ==
    IF j \in DOMAIN watermark THEN CatchUp(v, watermark[j], now) ELSE Arm(v, now)

-----------------------------------------------------------------------------
(* The tick of a leader *)

\* j is the job the tick visits; List returns the jobs in the order of their keys.
Visits(n, j) == j \in DOMAIN todo[n] /\ \A i \in DOMAIN todo[n] : j <= i

\* The tick goes on with the jobs in rest, or ends.
GoOn(n, rest) ==
    /\ todo' = [todo EXCEPT ![n] = rest]
    /\ pc' = [pc EXCEPT ![n] = IF DOMAIN rest = {} THEN "idle" ELSE "visit"]

\* Mutant: the tick looks one instant back.
TickStartBefore(n) ==
    /\ pc[n] = "idle"
    /\ flag[n]
    /\ at' = [at EXCEPT ![n] = clock - 1]
    /\ GoOn(n, [j \in {i \in DOMAIN jobs : jobs[i].enabled} |-> jobs[j]])
    /\ UNCHANGED <<jobVars, etcdVars, plan, clock, terms, leadershipVars>>

\* tickOnce reads the clock and lists the jobs.
TickStart(n) ==
    /\ pc[n] = "idle"
    /\ flag[n]
    /\ at' = [at EXCEPT ![n] = clock]
    /\ GoOn(n, [j \in {i \in DOMAIN jobs : jobs[i].enabled} |-> jobs[j]])
    /\ UNCHANGED <<jobVars, etcdVars, plan, clock, terms, leadershipVars>>

\* scheduleJob reads the watermark and works out what to write.
ScheduleJob(n, j) ==
    /\ pc[n] = "visit"
    /\ Visits(n, j)
    /\ flag[n]
    /\ LET writes == Schedule(j, todo[n][j], at[n])
       IN  /\ plan' = [plan EXCEPT ![n] = writes]
           /\ IF writes = {}
              THEN GoOn(n, Delete(todo[n], {j}))
              ELSE pc' = [pc EXCEPT ![n] = "write"] /\ UNCHANGED todo
    /\ UNCHANGED <<jobVars, etcdVars, at, clock, terms, leadershipVars>>

\* The watermark cannot be read: on to the next job.
WatermarkError(n, j) ==
    /\ "rpc" \in Faults
    /\ pc[n] = "visit"
    /\ Visits(n, j)
    /\ flag[n]
    /\ GoOn(n, Delete(todo[n], {j}))
    /\ UNCHANGED <<jobVars, etcdVars, at, plan, clock, terms, leadershipVars>>

\* Not the leader any more: the tick ends.
TickReturn(n) ==
    /\ pc[n] = "visit"
    /\ ~flag[n]
    /\ GoOn(n, NoKeys)
    /\ UNCHANGED <<jobVars, etcdVars, at, plan, clock, terms, leadershipVars>>

\* Mutant: the newest fire is written first.
IsNextBackwards(n, w) == w \in plan[n] /\ \A x \in plan[n] : x.fire <= w.fire

\* w is the write that is made next: the oldest fire first.
IsNext(n, w) == w \in plan[n] /\ \A x \in plan[n] : w.fire <= x.fire

\* The write w for job j is done with, made or not.
DoneWith(n, j, w) ==
    /\ plan' = [plan EXCEPT ![n] = @ \ {w}]
    /\ IF plan[n] = {w}
       THEN GoOn(n, Delete(todo[n], {j}))
       ELSE UNCHANGED <<todo, pc>>

\* Mutant: the ticket is put without the watermark.
EnqueueFireOnly(n, j, w) ==
    /\ tickets' = tickets \cup {<<j, w.fire>>}
    /\ enqueued' = enqueued \cup {<<j, w.fire>>}
    /\ UNCHANGED <<watermark, armed>>

\* EnqueueFire: ticket and watermark are put if the ticket is not there.
EnqueueFire(n, j, w) ==
    IF <<j, w.fire>> \in tickets
    THEN UNCHANGED etcdVars
    ELSE /\ tickets' = tickets \cup {<<j, w.fire>>}
         /\ watermark' = Put(watermark, j, w.wm)
         /\ enqueued' = enqueued \cup {<<j, w.fire>>}
         /\ UNCHANGED armed

\* AdvanceWatermark puts the watermark whatever it is.
AdvanceWatermark(n, j, w) ==
    /\ watermark' = Put(watermark, j, w.wm)
    /\ armed' = IF j \in DOMAIN armed /\ armed[j].wm >= w.wm THEN armed
                ELSE Put(armed, j, [at |-> at[n], wm |-> w.wm])
    /\ UNCHANGED <<tickets, enqueued>>

\* run_all checks before each fire whether the node is still the leader.
MayWrite(n, j, w) == w.enqueue /\ todo[n][j].policy = "run_all" => flag[n]

\* The next write of the plan.  Nothing depends on the answer, so an error after
\* the write was made is this action too.
MakeWrite(n, j, w) ==
    /\ pc[n] = "write"
    /\ Visits(n, j)
    /\ IsNext(n, w)
    /\ MayWrite(n, j, w)
    /\ IF w.enqueue THEN EnqueueFire(n, j, w) ELSE AdvanceWatermark(n, j, w)
    /\ DoneWith(n, j, w)
    /\ UNCHANGED <<jobVars, at, clock, terms, leadershipVars>>

\* The write fails: it is logged, and the plan goes on.
WriteError(n, j, w) ==
    /\ "rpc" \in Faults
    /\ pc[n] = "write"
    /\ Visits(n, j)
    /\ IsNext(n, w)
    /\ MayWrite(n, j, w)
    /\ DoneWith(n, j, w)
    /\ UNCHANGED <<jobVars, etcdVars, at, clock, terms, leadershipVars>>

\* run_all finds that the node is not the leader any more.
PlanReturn(n, j, w) ==
    /\ pc[n] = "write"
    /\ Visits(n, j)
    /\ IsNext(n, w)
    /\ ~MayWrite(n, j, w)
    /\ plan' = [plan EXCEPT ![n] = {}]
    /\ GoOn(n, Delete(todo[n], {j}))
    /\ UNCHANGED <<jobVars, etcdVars, at, clock, terms, leadershipVars>>

TickStep(n) ==
    \/ TickStart(n) \/ TickReturn(n)
    \/ \E j \in DOMAIN todo[n] :
           \/ ScheduleJob(n, j) \/ WatermarkError(n, j)
           \/ \E w \in plan[n] :
                  MakeWrite(n, j, w) \/ WriteError(n, j, w) \/ PlanReturn(n, j, w)

-----------------------------------------------------------------------------
(* Around the scheduler *)

\* The put that ends Create, Update and SetEnabled.  Update and SetEnabled read
\* the job earlier, so the job may be gone when they put it.
PutJob(j, v) ==
    /\ changes < MaxChanges
    /\ jobs' = Put(jobs, j, v)
    /\ changes' = changes + 1
    /\ UNCHANGED <<etcdVars, tickVars, clock, terms, leadershipVars>>

\* Delete removes the job and its watermark.
DeleteJob(j) ==
    /\ changes < MaxChanges
    /\ j \in DOMAIN jobs
    /\ jobs' = Delete(jobs, {j})
    /\ watermark' = Delete(watermark, {j})
    /\ changes' = changes + 1
    /\ UNCHANGED <<tickets, enqueued, armed, tickVars, clock, terms, leadershipVars>>

\* A ticket leaves the queue: finished, skipped or abandoned.
Resolve(t) ==
    /\ tickets' = tickets \ {t}
    /\ UNCHANGED <<jobVars, watermark, enqueued, armed, tickVars, clock, terms,
                   leadershipVars>>

TimePasses ==
    /\ clock < MaxTime
    /\ clock' = clock + 1
    /\ UNCHANGED <<jobVars, etcdVars, tickVars, terms, leadershipVars>>

\* A node wins the election.  In the last term it learns of it.
Elected(n) ==
    /\ terms < MaxTerms
    /\ Win(n)
    /\ terms + 1 = MaxTerms => n \in won'
    /\ terms' = terms + 1
    /\ UNCHANGED <<jobVars, etcdVars, tickVars, clock>>

TakesOffice(n) ==
    /\ Raise(n)
    /\ UNCHANGED <<jobVars, etcdVars, tickVars, clock, terms>>

\* The session of a leader is done and it notices; its tick goes on.
Deposed(n) ==
    /\ "expire" \in Faults
    /\ flag[n]
    /\ terms < MaxTerms
    /\ Lower(n)
    /\ UNCHANGED <<jobVars, etcdVars, tickVars, clock, terms>>

LeaseExpires(n) ==
    /\ terms < MaxTerms
    /\ Vacate(n)
    /\ UNCHANGED <<jobVars, etcdVars, tickVars, clock, terms>>

\* The process is killed, and its tick with it.
Crash(n) ==
    /\ "crash" \in Faults
    /\ terms < MaxTerms
    /\ Lower(n)
    /\ GoOn(n, NoKeys)
    /\ plan' = [plan EXCEPT ![n] = {}]
    /\ UNCHANGED <<jobVars, etcdVars, at, clock, terms>>

-----------------------------------------------------------------------------
Next ==
    \/ \E n \in Node :
           \/ TickStep(n) \/ Elected(n) \/ TakesOffice(n) \/ Deposed(n)
           \/ LeaseExpires(n) \/ Crash(n)
    \/ \E j \in Job : DeleteJob(j) \/ \E v \in JobValue : PutJob(j, v)
    \/ \E t \in tickets : Resolve(t)
    \/ TimePasses

Spec == Init /\ [][Next]_vars

(***************************************************************************)
(* What is sure to happen: a tick goes on and the next one follows, some   *)
(* node is elected when there is no leader and learns of it, the lease of  *)
(* a dead leader expires, tickets are worked off, and time passes.         *)
(***************************************************************************)
Fairness ==
    /\ \A n \in Node :
           /\ WF_vars(TickStep(n))
           /\ WF_vars(TakesOffice(n))
           /\ WF_vars(~flag[n] /\ n \notin won /\ LeaseExpires(n))
    /\ WF_vars(\E n \in Node : Elected(n))
    /\ WF_vars(\E t \in tickets : Resolve(t))
    /\ WF_vars(TimePasses)

FairSpec == Spec /\ Fairness

-----------------------------------------------------------------------------
(* Properties *)

\* A fire is enqueued once.  README: "Enqueue itself is at-most-once via
\* idempotent ticket keys"; the key is gone once the ticket is worked off, so it
\* is the watermark, written with the ticket, that keeps a later tick of this or
\* of another leader from enqueueing the fire again.
EnqueuedOnce == [][\A t \in tickets' \ tickets : t \notin enqueued]_vars

\* The watermark of a job never goes back, whichever leader writes it and
\* whatever happens to the job between its reads and its writes.
WatermarkAdvances ==
    [][\A j \in DOMAIN watermark \cap DOMAIN watermark' :
           watermark[j] <= watermark'[j]]_vars

\* Fire f of job j was enqueued, or passed over as run_latest says: a newer fire
\* that is also due was enqueued in its place.
Replayed(j, f) ==
    \/ <<j, f>> \in enqueued
    \/ /\ jobs[j].policy = "run_latest"
       /\ \E g \in Fires[jobs[j].cron] : g > f /\ <<j, g>> \in enqueued

\* The due fires of job j between the one it was armed with and its watermark.
JobReplayed(j) ==
    \A f \in Fires[jobs[j].cron] :
        armed[j].wm < f /\ f <= watermark[j] /\ f <= clock => Replayed(j, f)

\* No due fire of a job is lost behind its watermark: from the fire the job was
\* armed with on, each was replayed, whatever leaders died or went on with stale
\* plans after their leases were lost, in however many ticks they caught up, and
\* however often the job was disabled, enabled or deleted in between.
GapReplayed ==
    \A j \in DOMAIN watermark \cap DOMAIN jobs \cap DOMAIN armed : JobReplayed(j)

\* The same from the moment the scheduler first saw the job.
FirstFireReplayed ==
    \A j \in DOMAIN watermark \cap DOMAIN jobs \cap DOMAIN armed :
        \A f \in Fires[jobs[j].cron] :
            armed[j].at < f /\ f <= watermark[j] /\ f <= clock => Replayed(j, f)

\* The scheduler catches up: in the end no enabled job has a due fire beyond its
\* watermark, although leaders die in the middle of a tick and each tick
\* enqueues MaxCatchUp fires at most.
CatchesUp ==
    <>[](\A j \in DOMAIN jobs : jobs[j].enabled =>
            /\ j \in DOMAIN watermark
            /\ \A f \in Fires[jobs[j].cron] : f <= clock => f <= watermark[j])
=============================================================================
