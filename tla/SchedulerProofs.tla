-------------------------- MODULE SchedulerProofs --------------------------
(***************************************************************************)
(* Proofs about Scheduler, for any number of nodes, jobs, elections and    *)
(* changes, and for every schedule.                                        *)
(***************************************************************************)
EXTENDS Scheduler, TLAPS, FiniteSetTheorems, WellFoundedInduction

-----------------------------------------------------------------------------
(* What scheduleJob works out *)

\* A set of numbers that is not empty has a least element.
LEMMA LeastExists ==
    ASSUME NEW S \in SUBSET Nat, S # {}
    PROVE  \E x \in S : \A y \in S : x <= y
<1> DEFINE R == OpToRel(<, Nat)
<1>1. IsWellFoundedOn(R, Nat)
  BY NatLessThanWellFounded
<1>2. PICK x \in S : \A y \in S : ~(<<y, x>> \in R)
  <2> HIDE DEF R
  <2> QED
    BY <1>1, WFMin
<1>3. \A y \in S : y \in Nat /\ x \in Nat /\ ~(y < x)
  BY <1>2 DEF OpToRel
<1> QED
  BY <1>3

\* One with a bound has a greatest element.
LEMMA GreatestExists ==
    ASSUME NEW S \in SUBSET Nat, S # {}, NEW b \in Nat, \A x \in S : x <= b
    PROVE  \E x \in S : \A y \in S : y <= x
<1> DEFINE D == {d \in Nat : b - d \in S}
<1>1. \A x \in S : b - x \in D
  <2> SUFFICES ASSUME NEW x \in S PROVE b - x \in D
    OBVIOUS
  <2>1. x \in Nat /\ x <= b
    OBVIOUS
  <2>2. b - x \in Nat /\ b - (b - x) = x
    BY <2>1
  <2> QED
    BY <2>2
<1>2. PICK d \in D : \A e \in D : d <= e
  <2>1. D \in SUBSET Nat /\ D # {}
    BY <1>1
  <2> HIDE DEF D
  <2> QED
    BY <2>1, LeastExists
<1>3. b - d \in S /\ d \in Nat
  OBVIOUS
<1>4. ASSUME NEW y \in S PROVE y <= b - d
  <2>1. y \in Nat /\ d <= b - y
    BY <1>1, <1>2
  <2> QED
    BY <1>3, <2>1
<1> QED
  BY <1>3, <1>4

\* NextAfter is the first fire after t.
LEMMA NextAfterIs ==
    ASSUME NEW v \in JobValue, NEW t \in Nat, Later(v, t) # {}
    PROVE  /\ NextAfter(v, t) \in Nat
           /\ NextAfter(v, t) \in Fires[v.cron]
           /\ t < NextAfter(v, t)
<1>1. Later(v, t) \in SUBSET Nat
  BY SchedulerAssumption DEF Later
<1>2. \E f \in Later(v, t) : \A g \in Later(v, t) : f <= g
  BY <1>1, LeastExists
<1>3. NextAfter(v, t) \in Later(v, t)
  BY <1>2 DEF NextAfter
<1> QED
  BY <1>1, <1>3 DEF Later

\* The fires that are due lie between the watermark and the time of the tick, and
\* every fire before one of them is due too: it is the oldest that are collected.
LEMMA DueFiresAre ==
    ASSUME NEW v \in JobValue, NEW from \in Nat, NEW now \in Nat
    PROVE  /\ DueFires(v, from, now) \in SUBSET Nat
           /\ \A f \in DueFires(v, from, now) :
                  f \in Fires[v.cron] /\ from < f /\ f <= now
           /\ \A f \in DueFires(v, from, now) : \A g \in Fires[v.cron] :
                  from < g /\ g < f => g \in DueFires(v, from, now)
<1> DEFINE due == {f \in Fires[v.cron] : f > from /\ f <= now}
           Below(f) == {g \in due : g < f}
<1>1. due \in SUBSET Nat
  BY SchedulerAssumption
<1>2. IsFiniteSet(due)
  <2>1. \A f \in due : f <= now
    OBVIOUS
  <2> HIDE DEF due
  <2> QED
    BY <1>1, <2>1, FS_BoundedSetOfNaturals
<1>3. DueFires(v, from, now) = {f \in due : Cardinality(Below(f)) < MaxCatchUp}
  BY DEF DueFires
<1>4. ASSUME NEW f \in due, NEW g \in due, g < f,
             Cardinality(Below(f)) < MaxCatchUp
      PROVE  Cardinality(Below(g)) < MaxCatchUp
  <2>1. f \in Nat /\ g \in Nat
    BY <1>1
  <2>2. Below(g) \in SUBSET Below(f)
    BY <1>1, <1>4, <2>1
  <2>3. Below(f) \in SUBSET due
    OBVIOUS
  <2>4. IsFiniteSet(Below(f))
    <3> HIDE DEF due, Below
    <3> QED
      BY <1>2, <2>3, FS_Subset
  <2>5. IsFiniteSet(Below(g)) /\ Cardinality(Below(g)) <= Cardinality(Below(f))
    <3> HIDE DEF due, Below
    <3> QED
      BY <2>2, <2>4, FS_Subset
  <2>6. Cardinality(Below(f)) \in Nat /\ Cardinality(Below(g)) \in Nat
    <3> HIDE DEF due, Below
    <3> QED
      BY <2>4, <2>5, FS_CardinalityType
  <2> HIDE DEF due, Below
  <2> QED
    BY <1>4, <2>5, <2>6, SchedulerAssumption
<1>5. ASSUME NEW f \in DueFires(v, from, now), NEW g \in Fires[v.cron], from < g, g < f
      PROVE  g \in DueFires(v, from, now)
  <2>1. f \in due /\ Cardinality(Below(f)) < MaxCatchUp
    BY <1>3
  <2>2. f \in Nat /\ g \in Nat /\ f <= now
    BY <2>1, SchedulerAssumption
  <2>3. g \in due
    BY <1>5, <2>2
  <2> QED
    BY <1>3, <1>4, <1>5, <2>1, <2>3
<1> QED
  BY <1>1, <1>3, <1>5

\* What the latest fire and the target of a catch-up are.
LEMMA TargetIs ==
    ASSUME NEW v \in JobValue, NEW from \in Nat, NEW now \in Nat,
           NEW fires, fires = DueFires(v, from, now), fires # {},
           ~(SawFuture(fires) /\ Later(v, now) = {})
    PROVE  /\ Latest(fires) \in fires
           /\ Target(v, fires, now) \in Nat
           /\ from < Target(v, fires, now)
           /\ Latest(fires) <= Target(v, fires, now)
<1>1. /\ fires \in SUBSET Nat
      /\ \A f \in fires : from < f /\ f <= now
  BY DueFiresAre
<1>2. \E x \in fires : \A y \in fires : y <= x
  BY <1>1, GreatestExists
<1>3. Latest(fires) \in fires
  BY <1>2 DEF Latest
<1>4. CASE SawFuture(fires)
  <2>1. NextAfter(v, now) \in Nat /\ now < NextAfter(v, now)
    BY <1>4, NextAfterIs
  <2> QED
    BY <1>1, <1>3, <1>4, <2>1 DEF Target
<1>5. CASE ~SawFuture(fires)
  BY <1>1, <1>3, <1>5 DEF Target
<1> QED
  BY <1>3, <1>4, <1>5

\* Arming puts the watermark after the time of the tick.
LEMMA ArmIs ==
    ASSUME NEW v \in JobValue, NEW now \in Nat
    PROVE  /\ Arm(v, now) \in SUBSET Write
           /\ \A w \in Arm(v, now) : w.fire = w.wm /\ ~w.enqueue /\ now < w.fire
           /\ \A x, w \in Arm(v, now) : x = w
<1>1. CASE Later(v, now) = {}
  BY <1>1 DEF Arm
<1>2. CASE Later(v, now) # {}
  <2>1. NextAfter(v, now) \in Nat /\ now < NextAfter(v, now)
    BY <1>2, NextAfterIs
  <2>2. Arm(v, now) = {AdvanceTo(NextAfter(v, now))}
    BY <1>2 DEF Arm
  <2> QED
    BY <2>1, <2>2 DEF AdvanceTo, Write
<1> QED
  BY <1>1, <1>2

\* The writes of a catch-up lie after the watermark, put tickets for fires that are
\* due, and go forward.
LEMMA CatchUpIs ==
    ASSUME NEW v \in JobValue, NEW from \in Nat, NEW now \in Nat
    PROVE  /\ CatchUp(v, from, now) \in SUBSET Write
           /\ \A w \in CatchUp(v, from, now) :
                  /\ from < w.fire
                  /\ w.fire <= w.wm
                  /\ w.enqueue => w.fire <= now
           /\ \A x, w \in CatchUp(v, from, now) :
                  /\ x.fire = w.fire => x = w
                  /\ x.fire <= w.fire => x.wm <= w.wm
<1> DEFINE fires == DueFires(v, from, now)
           none == fires = {} \/ (SawFuture(fires) /\ Later(v, now) = {})
<1>1. CASE none
  BY <1>1 DEF CatchUp
<1>2. CASE ~none
  <2>1. /\ Latest(fires) \in fires
        /\ Target(v, fires, now) \in Nat
        /\ from < Target(v, fires, now)
        /\ Latest(fires) <= Target(v, fires, now)
    <3>1. fires = DueFires(v, from, now)
      OBVIOUS
    <3>2. fires # {} /\ ~(SawFuture(fires) /\ Later(v, now) = {})
      BY <1>2
    <3> HIDE DEF fires
    <3> QED
      BY <3>1, <3>2, TargetIs
  <2>2. fires \in SUBSET Nat /\ \A f \in fires : from < f /\ f <= now
    BY DueFiresAre
  <2>3. CatchUp(v, from, now) =
            CASE v.policy = "skip" -> {AdvanceTo(Target(v, fires, now))}
              [] v.policy = "run_all" -> {EnqueueAt(f, f) : f \in fires}
              [] v.policy = "run_latest" ->
                     {EnqueueAt(Latest(fires), Target(v, fires, now))}
    BY <1>2 DEF CatchUp
  <2> HIDE DEF fires
  <2>4. CASE v.policy = "skip"
    <3>1. CatchUp(v, from, now) = {AdvanceTo(Target(v, fires, now))}
      BY <2>3, <2>4
    <3> QED
      BY <2>1, <3>1 DEF AdvanceTo, Write
  <2>5. CASE v.policy = "run_all"
    <3>1. CatchUp(v, from, now) = {EnqueueAt(f, f) : f \in fires}
      BY <2>3, <2>5
    <3>2. \A w \in CatchUp(v, from, now) : \E f \in fires :
              w = [fire |-> f, wm |-> f, enqueue |-> TRUE]
      BY <3>1 DEF EnqueueAt
    <3>3. \A w \in CatchUp(v, from, now) :
              /\ w \in Write /\ w.wm = w.fire
              /\ w = [fire |-> w.fire, wm |-> w.fire, enqueue |-> TRUE]
              /\ w.fire \in Nat /\ from < w.fire /\ w.fire <= now
      <4> SUFFICES ASSUME NEW w \in CatchUp(v, from, now)
                   PROVE  /\ w \in Write /\ w.wm = w.fire
                          /\ w = [fire |-> w.fire, wm |-> w.fire, enqueue |-> TRUE]
                          /\ w.fire \in Nat /\ from < w.fire /\ w.fire <= now
        OBVIOUS
      <4>1. PICK f \in fires : w = [fire |-> f, wm |-> f, enqueue |-> TRUE]
        BY <3>2
      <4>2. f \in Nat /\ from < f /\ f <= now
        BY <2>2
      <4> QED
        BY <4>1, <4>2 DEF Write
    <3>4. \A x, w \in CatchUp(v, from, now) : x.fire = w.fire => x = w
      BY <3>3
    <3>5. \A x, w \in CatchUp(v, from, now) : x.fire <= w.fire => x.wm <= w.wm
      BY <3>3
    <3>6. \A w \in CatchUp(v, from, now) : w.fire <= w.wm
      BY <3>3
    <3> QED
      BY <3>3, <3>4, <3>5, <3>6
  <2>6. CASE v.policy = "run_latest"
    <3>1. CatchUp(v, from, now) = {EnqueueAt(Latest(fires), Target(v, fires, now))}
      BY <2>3, <2>6
    <3>2. /\ Latest(fires) \in Nat /\ from < Latest(fires) /\ Latest(fires) <= now
      BY <2>1, <2>2
    <3> QED
      BY <2>1, <3>1, <3>2 DEF EnqueueAt, Write
  <2> QED
    BY <2>4, <2>5, <2>6, SchedulerAssumption DEF Policy
<1> QED
  BY <1>1, <1>2

\* run_all enqueues the fires that are due, each with its own time as watermark.
LEMMA RunAllIs ==
    ASSUME NEW v \in JobValue, v.policy = "run_all", NEW from \in Nat, NEW now \in Nat
    PROVE  \/ CatchUp(v, from, now) = {}
           \/ CatchUp(v, from, now) = {EnqueueAt(f, f) : f \in DueFires(v, from, now)}
BY DEF CatchUp

\* What scheduleJob works out is typed.
LEMMA ScheduleType ==
    ASSUME TypeOK, NEW v \in JobValue, NEW now \in Nat, NEW j \in Job
    PROVE  Schedule(j, v, now) \in SUBSET Write
<1>1. CASE j \in DOMAIN watermark
  <2>1. watermark[j] \in Nat
    BY <1>1 DEF TypeOK, IsKeySpace
  <2> QED
    BY <1>1, <2>1, CatchUpIs DEF Schedule
<1>2. CASE j \notin DOMAIN watermark
  BY <1>2, ArmIs DEF Schedule
<1> QED
  BY <1>1, <1>2

-----------------------------------------------------------------------------
(* Types *)

\* Puts and deletes keep the type of a prefix.
LEMMA KeysType ==
    ASSUME NEW K, NEW V, NEW kv, IsKeySpace(kv, K, V)
    PROVE  /\ \A k \in K, v \in V : IsKeySpace(Put(kv, k, v), K, V)
           /\ \A ks : IsKeySpace(Delete(kv, ks), K, V)
BY DEF IsKeySpace, Put, Delete

\* A tick that goes on with typed jobs is typed.
LEMMA GoOnType ==
    ASSUME TypeOK, NEW n \in Node, NEW rest, IsKeySpace(rest, Job, JobValue), GoOn(n, rest)
    PROVE  /\ pc' \in [Node -> PC]
           /\ todo' = [m \in Node |-> todo'[m]]
           /\ \A m \in Node : IsKeySpace(todo'[m], Job, JobValue)
<1>1. pc' \in [Node -> PC]
  BY DEF GoOn, TypeOK, PC
<1>2. todo' = [todo EXCEPT ![n] = rest]
  BY DEF GoOn
<1>3. DOMAIN todo = Node
  BY DEF TypeOK
<1>4. todo' = [m \in Node |-> todo'[m]]
  BY <1>2, <1>3
<1>5. \A m \in Node : todo'[m] = IF m = n THEN rest ELSE todo[m]
  BY <1>2, <1>3
<1> QED
  BY <1>1, <1>4, <1>5 DEF TypeOK

\* A plan that loses a write or is dropped is typed.
LEMMA DoneWithType ==
    ASSUME TypeOK, NEW n \in Node, NEW j, NEW w, DoneWith(n, j, w)
    PROVE  /\ plan' \in [Node -> SUBSET Write]
           /\ pc' \in [Node -> PC]
           /\ todo' = [m \in Node |-> todo'[m]]
           /\ \A m \in Node : IsKeySpace(todo'[m], Job, JobValue)
<1>1. plan' \in [Node -> SUBSET Write]
  BY DEF DoneWith, TypeOK
<1>2. CASE plan[n] = {w}
  <2>1. IsKeySpace(Delete(todo[n], {j}), Job, JobValue)
    BY KeysType DEF TypeOK
  <2> QED
    BY <1>1, <1>2, <2>1, GoOnType DEF DoneWith
<1>3. CASE plan[n] # {w}
  BY <1>1, <1>3 DEF DoneWith, TypeOK
<1> QED
  BY <1>2, <1>3

\* The steps of a tick keep the types.
LEMMA TickStepType ==
    ASSUME TypeOK, NEW n \in Node, TickStep(n)
    PROVE  TypeOK'
<1> USE DEF jobVars, etcdVars, leadershipVars
<1>0. IsKeySpace(NoKeys, Job, JobValue)
  BY DEF IsKeySpace, NoKeys
<1>1. CASE TickStart(n)
  <2> DEFINE listed == [j \in {i \in DOMAIN jobs : jobs[i].enabled} |-> jobs[j]]
  <2>1. IsKeySpace(listed, Job, JobValue)
    BY DEF TypeOK, IsKeySpace
  <2>2. GoOn(n, listed)
    BY <1>1 DEF TickStart
  <2>3. at' \in [Node -> Nat]
    BY <1>1 DEF TickStart, TypeOK
  <2>4. UNCHANGED <<jobs, changes, watermark, tickets, enqueued, armed, plan, clock, terms,
                    holder, won, flag>>
    BY <1>1 DEF TickStart
  <2> HIDE DEF listed
  <2>5. /\ pc' \in [Node -> PC]
        /\ todo' = [m \in Node |-> todo'[m]]
        /\ \A m \in Node : IsKeySpace(todo'[m], Job, JobValue)
    BY <2>1, <2>2, GoOnType
  <2> QED
    BY <2>3, <2>4, <2>5 DEF TypeOK, LeadershipTypeOK
<1>2. CASE TickReturn(n)
  BY <1>0, <1>2, GoOnType DEF TickReturn, TypeOK, LeadershipTypeOK
<1>3. ASSUME NEW j \in DOMAIN todo[n] PROVE j \in Job /\ todo[n][j] \in JobValue
  BY DEF TypeOK, IsKeySpace
<1>4. ASSUME NEW j \in DOMAIN todo[n] PROVE IsKeySpace(Delete(todo[n], {j}), Job, JobValue)
  BY KeysType DEF TypeOK
<1>5. ASSUME NEW j \in DOMAIN todo[n], ScheduleJob(n, j) PROVE TypeOK'
  <2>1. at[n] \in Nat
    BY DEF TypeOK
  <2>2. Schedule(j, todo[n][j], at[n]) \in SUBSET Write
    BY <1>3, <2>1, ScheduleType
  <2>3. plan' \in [Node -> SUBSET Write]
    BY <1>5, <2>2 DEF ScheduleJob, TypeOK
  <2>4. /\ pc' \in [Node -> PC]
        /\ todo' = [m \in Node |-> todo'[m]]
        /\ \A m \in Node : IsKeySpace(todo'[m], Job, JobValue)
    <3>1. CASE GoOn(n, Delete(todo[n], {j}))
      BY <1>4, <3>1, GoOnType
    <3>2. CASE pc' = [pc EXCEPT ![n] = "write"] /\ UNCHANGED todo
      BY <3>2 DEF TypeOK, PC
    <3> QED
      BY <1>5, <3>1, <3>2 DEF ScheduleJob
  <2>5. UNCHANGED <<jobs, changes, watermark, tickets, enqueued, armed, at, clock, terms,
                    holder, won, flag>>
    BY <1>5 DEF ScheduleJob
  <2> QED
    BY <2>3, <2>4, <2>5 DEF TypeOK, LeadershipTypeOK
<1>6. ASSUME NEW j \in DOMAIN todo[n], WatermarkError(n, j) PROVE TypeOK'
  BY <1>4, <1>6, GoOnType DEF WatermarkError, TypeOK, LeadershipTypeOK
<1>7. ASSUME NEW j \in DOMAIN todo[n], NEW w \in plan[n], MakeWrite(n, j, w) PROVE TypeOK'
  <2>1. /\ w.fire \in Nat /\ w.wm \in Nat /\ at[n] \in Nat
    BY DEF TypeOK, Write
  <2>2. /\ IsKeySpace(watermark', Job, Nat)
        /\ tickets' \subseteq Job \X Nat
        /\ enqueued' \subseteq Job \X Nat
        /\ IsKeySpace(armed', Job, [at : Nat, wm : Nat])
    <3>1. CASE EnqueueFire(n, j, w)
      <4>1. IsKeySpace(Put(watermark, j, w.wm), Job, Nat)
        BY <1>3, <2>1, KeysType DEF TypeOK
      <4> QED
        BY <1>3, <2>1, <3>1, <4>1 DEF EnqueueFire, TypeOK
    <3>2. CASE AdvanceWatermark(n, j, w)
      <4>1. IsKeySpace(Put(watermark, j, w.wm), Job, Nat)
        BY <1>3, <2>1, KeysType DEF TypeOK
      <4>2. IsKeySpace(Put(armed, j, [at |-> at[n], wm |-> w.wm]), Job, [at : Nat, wm : Nat])
        <5>1. [at |-> at[n], wm |-> w.wm] \in [at : Nat, wm : Nat]
          BY <2>1
        <5> QED
          BY <1>3, <5>1, KeysType DEF TypeOK
      <4> QED
        BY <3>2, <4>1, <4>2 DEF AdvanceWatermark, TypeOK
    <3> QED
      BY <1>7, <3>1, <3>2 DEF MakeWrite
  <2>3. DoneWith(n, j, w)
    BY <1>7 DEF MakeWrite
  <2>4. UNCHANGED <<jobs, changes, at, clock, terms, holder, won, flag>>
    BY <1>7 DEF MakeWrite
  <2> QED
    BY <2>2, <2>3, <2>4, DoneWithType DEF TypeOK, LeadershipTypeOK
<1>8. ASSUME NEW j \in DOMAIN todo[n], NEW w \in plan[n], WriteError(n, j, w) PROVE TypeOK'
  BY <1>8, DoneWithType DEF WriteError, TypeOK, LeadershipTypeOK
<1>9. ASSUME NEW j \in DOMAIN todo[n], NEW w \in plan[n], PlanReturn(n, j, w) PROVE TypeOK'
  <2>1. plan' \in [Node -> SUBSET Write]
    BY <1>9 DEF PlanReturn, TypeOK
  <2> QED
    BY <1>4, <1>9, <2>1, GoOnType DEF PlanReturn, TypeOK, LeadershipTypeOK
<1> QED
  BY <1>1, <1>2, <1>5, <1>6, <1>7, <1>8, <1>9 DEF TickStep

\* So do the steps around them.
LEMMA OtherStepType ==
    ASSUME TypeOK, [Next]_vars, ~\E n \in Node : TickStep(n)
    PROVE  TypeOK'
<1> USE DEF jobVars, etcdVars, tickVars, leadershipVars
<1>1. ASSUME NEW n \in Node, Elected(n) PROVE TypeOK'
  BY <1>1 DEF Elected, Win, TypeOK, LeadershipTypeOK
<1>2. ASSUME NEW n \in Node, TakesOffice(n) PROVE TypeOK'
  BY <1>2 DEF TakesOffice, Raise, TypeOK, LeadershipTypeOK
<1>3. ASSUME NEW n \in Node, Deposed(n) PROVE TypeOK'
  BY <1>3 DEF Deposed, Lower, TypeOK, LeadershipTypeOK
<1>4. ASSUME NEW n \in Node, LeaseExpires(n) PROVE TypeOK'
  BY <1>4 DEF LeaseExpires, Vacate, TypeOK, LeadershipTypeOK
<1>5. ASSUME NEW n \in Node, Crash(n) PROVE TypeOK'
  <2>1. IsKeySpace(NoKeys, Job, JobValue) /\ GoOn(n, NoKeys)
    BY <1>5 DEF IsKeySpace, NoKeys, Crash
  <2>2. /\ plan' \in [Node -> SUBSET Write]
        /\ LeadershipTypeOK'
    BY <1>5 DEF Crash, Lower, TypeOK, LeadershipTypeOK
  <2>3. UNCHANGED <<jobs, changes, watermark, tickets, enqueued, armed, at, clock, terms>>
    BY <1>5 DEF Crash
  <2> QED
    BY <2>1, <2>2, <2>3, GoOnType DEF TypeOK
<1>6. ASSUME NEW j \in Job, DeleteJob(j) PROVE TypeOK'
  <2>1. IsKeySpace(jobs', Job, JobValue) /\ IsKeySpace(watermark', Job, Nat)
    BY <1>6, KeysType DEF DeleteJob, TypeOK
  <2> QED
    BY <1>6, <2>1 DEF DeleteJob, TypeOK, LeadershipTypeOK
<1>7. ASSUME NEW j \in Job, NEW v \in JobValue, PutJob(j, v) PROVE TypeOK'
  <2>1. IsKeySpace(jobs', Job, JobValue)
    BY <1>7, KeysType DEF PutJob, TypeOK
  <2> QED
    BY <1>7, <2>1 DEF PutJob, TypeOK, LeadershipTypeOK
<1>8. ASSUME NEW t \in tickets, Resolve(t) PROVE TypeOK'
  BY <1>8 DEF Resolve, TypeOK, LeadershipTypeOK
<1>9. CASE TimePasses
  BY <1>9 DEF TimePasses, TypeOK, LeadershipTypeOK
<1>10. CASE UNCHANGED vars
  BY <1>10 DEF vars, TypeOK, LeadershipTypeOK
<1> QED
  BY <1>1, <1>2, <1>3, <1>4, <1>5, <1>6, <1>7, <1>8, <1>9, <1>10 DEF Next

\* The variables of Scheduler keep their types (TypeOK), for every schedule and
\* policy, whatever leaders die and whatever calls fail: in particular what
\* scheduleJob works out is always a number, because cron.NextAfter is asked for
\* a fire only where there is one.
THEOREM SchedulerTypeCorrect == Spec => []TypeOK
<1>1. Init => TypeOK
  BY SchedulerAssumption
     DEF Init, TypeOK, IsKeySpace, NoKeys, LeadershipInit, LeadershipTypeOK, PC
<1>2. TypeOK /\ [Next]_vars => TypeOK'
  BY TickStepType, OtherStepType
<1> QED
  BY <1>1, <1>2, PTL DEF Spec

-----------------------------------------------------------------------------
(* What a step leaves alone *)

\* What a step of n's tick changes of the local state is n's, and it takes a
\* leader to begin a tick.
LEMMA TickIsLocal ==
    ASSUME TypeOK, NEW n \in Node, TickStep(n)
    PROVE  /\ UNCHANGED <<jobs, changes, clock, terms, holder, won, flag>>
           /\ \A m \in Node : m # n =>
                  /\ pc'[m] = pc[m] /\ todo'[m] = todo[m]
                  /\ plan'[m] = plan[m] /\ at'[m] = at[m]
           /\ flag[n] \/ pc[n] # "idle"
<1> DEFINE Local ==
        /\ UNCHANGED <<jobs, changes, clock, terms, holder, won, flag>>
        /\ \A m \in Node : m # n =>
               /\ pc'[m] = pc[m] /\ todo'[m] = todo[m]
               /\ plan'[m] = plan[m] /\ at'[m] = at[m]
        /\ flag[n] \/ pc[n] # "idle"
<1> USE DEF jobVars, leadershipVars
<1>0. DOMAIN todo = Node
  BY DEF TypeOK
<1>1. ASSUME NEW rest, GoOn(n, rest)
      PROVE  \A m \in Node : m # n => pc'[m] = pc[m] /\ todo'[m] = todo[m]
  BY <1>0, <1>1 DEF GoOn, TypeOK
<1>2. CASE TickStart(n) \/ TickReturn(n)
  BY <1>1, <1>2 DEF TickStart, TickReturn, TypeOK
<1>3. ASSUME NEW j, NEW w, DoneWith(n, j, w)
      PROVE  \A m \in Node : m # n =>
                 pc'[m] = pc[m] /\ todo'[m] = todo[m] /\ plan'[m] = plan[m]
  BY <1>1, <1>3 DEF DoneWith, TypeOK
<1>4. ASSUME NEW j, ScheduleJob(n, j) PROVE Local
  <2>1. \A m \in Node : m # n => plan'[m] = plan[m]
    BY <1>4 DEF ScheduleJob, TypeOK
  <2>2. \A m \in Node : m # n => pc'[m] = pc[m] /\ todo'[m] = todo[m]
    BY <1>1, <1>4 DEF ScheduleJob, TypeOK
  <2> QED
    BY <1>4, <2>1, <2>2 DEF ScheduleJob
<1>5. ASSUME NEW j, WatermarkError(n, j) PROVE Local
  BY <1>1, <1>5 DEF WatermarkError
<1>6. ASSUME NEW j, NEW w, MakeWrite(n, j, w) PROVE Local
  BY <1>3, <1>6 DEF MakeWrite
<1>7. ASSUME NEW j, NEW w, WriteError(n, j, w) PROVE Local
  BY <1>3, <1>7 DEF WriteError
<1>8. ASSUME NEW j, NEW w, PlanReturn(n, j, w) PROVE Local
  <2>1. \A m \in Node : m # n => plan'[m] = plan[m]
    BY <1>8 DEF PlanReturn, TypeOK
  <2> QED
    BY <1>1, <1>8, <2>1 DEF PlanReturn
<1> QED
  BY <1>2, <1>4, <1>5, <1>6, <1>7, <1>8 DEF TickStep

\* Only a write changes what is in etcd, and only in that step or when it is planned
\* is there a plan that was not there before.
LEMMA QuietTick ==
    ASSUME TypeOK, NEW n \in Node, TickStep(n),
           ~\E j \in DOMAIN todo[n] :
               \/ pc'[n] = "write" /\ ScheduleJob(n, j)
               \/ \E w \in plan[n] : MakeWrite(n, j, w)
    PROVE  /\ UNCHANGED <<watermark, tickets, enqueued, armed>>
           /\ pc'[n] = "write" =>
                 /\ pc[n] = "write" /\ todo'[n] = todo[n] /\ at'[n] = at[n]
                 /\ "rpc" \in Faults
                 /\ plan'[n] \subseteq plan[n]
<1> USE DEF etcdVars
<1>1. ASSUME NEW rest, GoOn(n, rest) PROVE pc'[n] # "write"
  BY <1>1 DEF GoOn, TypeOK
<1>2. CASE TickStart(n) \/ TickReturn(n)
  BY <1>1, <1>2 DEF TickStart, TickReturn
<1>3. ASSUME NEW j \in DOMAIN todo[n], ScheduleJob(n, j)
      PROVE  UNCHANGED <<watermark, tickets, enqueued, armed>>
  BY <1>3 DEF ScheduleJob
<1>4. ASSUME NEW j \in DOMAIN todo[n], WatermarkError(n, j)
      PROVE  UNCHANGED <<watermark, tickets, enqueued, armed>> /\ pc'[n] # "write"
  BY <1>1, <1>4 DEF WatermarkError
<1>5. ASSUME NEW j, NEW w, PlanReturn(n, j, w)
      PROVE  UNCHANGED <<watermark, tickets, enqueued, armed>> /\ pc'[n] # "write"
  BY <1>1, <1>5 DEF PlanReturn
<1>6. ASSUME NEW j, NEW w, WriteError(n, j, w), pc'[n] = "write"
      PROVE  /\ pc[n] = "write" /\ todo'[n] = todo[n] /\ at'[n] = at[n]
             /\ "rpc" \in Faults
             /\ plan'[n] \subseteq plan[n]
  <2>1. DoneWith(n, j, w) /\ UNCHANGED at /\ "rpc" \in Faults /\ pc[n] = "write"
    BY <1>6 DEF WriteError
  <2>2. UNCHANGED todo
    BY <1>1, <1>6, <2>1 DEF DoneWith
  <2>3. plan'[n] = plan[n] \ {w}
    BY <2>1 DEF DoneWith, TypeOK
  <2> QED
    BY <2>1, <2>2, <2>3
<1>7. ASSUME NEW j, NEW w, WriteError(n, j, w)
      PROVE  UNCHANGED <<watermark, tickets, enqueued, armed>>
  BY <1>7 DEF WriteError
<1> QED
  BY <1>2, <1>3, <1>4, <1>5, <1>6, <1>7 DEF TickStep

\* A step that is not one of a tick leaves the plans alone or drops them, and leaves
\* in etcd what the ticks put there, or takes it away.
LEMMA OtherStep ==
    ASSUME TypeOK, [Next]_vars, ~\E n \in Node : TickStep(n)
    PROVE  /\ UNCHANGED <<enqueued, armed, at>>
           /\ tickets' \subseteq tickets
           /\ \A j \in DOMAIN watermark' :
                  j \in DOMAIN watermark /\ watermark'[j] = watermark[j]
           /\ clock' \in Nat /\ clock <= clock'
           /\ \A n \in Node : pc'[n] # "idle" =>
                  /\ pc'[n] = pc[n] /\ todo'[n] = todo[n] /\ plan'[n] = plan[n]
<1> DEFINE Quiet ==
        /\ UNCHANGED <<enqueued, armed, at>>
        /\ tickets' \subseteq tickets
        /\ \A j \in DOMAIN watermark' :
               j \in DOMAIN watermark /\ watermark'[j] = watermark[j]
        /\ clock' \in Nat /\ clock <= clock'
        /\ \A n \in Node : pc'[n] # "idle" =>
               /\ pc'[n] = pc[n] /\ todo'[n] = todo[n] /\ plan'[n] = plan[n]
<1> USE DEF jobVars, etcdVars, tickVars, leadershipVars
<1>0. clock \in Nat
  BY DEF TypeOK
<1>1. ASSUME NEW n \in Node, Crash(n) PROVE Quiet
  <2>1. /\ UNCHANGED <<enqueued, armed, at, tickets, watermark, clock>>
        /\ GoOn(n, NoKeys)
        /\ plan' = [plan EXCEPT ![n] = {}]
    BY <1>1 DEF Crash
  <2>2. pc'[n] = "idle" /\ \A m \in Node : m # n => pc'[m] = pc[m] /\ todo'[m] = todo[m]
    <3>1. DOMAIN todo = Node /\ DOMAIN NoKeys = {}
      BY DEF TypeOK, NoKeys
    <3> QED
      BY <2>1, <3>1 DEF GoOn, TypeOK
  <2>3. \A m \in Node : m # n => plan'[m] = plan[m]
    BY <2>1 DEF TypeOK
  <2> QED
    BY <1>0, <2>1, <2>2, <2>3
<1>2. ASSUME NEW j \in Job, DeleteJob(j) PROVE Quiet
  <2>1. \A i \in DOMAIN watermark' : i \in DOMAIN watermark /\ watermark'[i] = watermark[i]
    BY <1>2 DEF DeleteJob, Delete
  <2> QED
    BY <1>0, <1>2, <2>1 DEF DeleteJob
<1>3. CASE UNCHANGED <<enqueued, armed, watermark, tickets, clock, pc, todo, plan, at>>
  BY <1>0, <1>3
<1>4. ASSUME NEW n \in Node,
             Elected(n) \/ TakesOffice(n) \/ Deposed(n) \/ LeaseExpires(n)
      PROVE  Quiet
  BY <1>3, <1>4 DEF Elected, TakesOffice, Deposed, LeaseExpires
<1>5. ASSUME NEW j \in Job, NEW v \in JobValue, PutJob(j, v) PROVE Quiet
  BY <1>3, <1>5 DEF PutJob
<1>6. ASSUME NEW t \in tickets, Resolve(t) PROVE Quiet
  BY <1>0, <1>6 DEF Resolve
<1>7. CASE TimePasses
  BY <1>0, <1>7 DEF TimePasses
<1>8. CASE UNCHANGED vars
  BY <1>3, <1>8 DEF vars
<1> QED
  BY <1>1, <1>2, <1>4, <1>5, <1>6, <1>7, <1>8 DEF Next

-----------------------------------------------------------------------------
(* One leader at a time *)

\* A node that won, or leads, has the leader key, and only a leader is in a tick.
OneLeader ==
    \A n \in Node :
        /\ flag[n] \/ n \in won => holder = {n}
        /\ pc[n] # "idle" => flag[n]

\* No fire was enqueued before its time, nor, while a tick is under way, after the
\* time of the tick.
EnqueuedIsPast ==
    /\ \A n \in Node : at[n] <= clock
    /\ \A t \in enqueued : t[2] <= clock
    /\ \A n \in Node : pc[n] # "idle" => \A t \in enqueued : t[2] <= at[n]

\* The watermark of a job covers the fires that were enqueued.
WatermarkCovers ==
    \A t \in enqueued : t[1] \in DOMAIN watermark => t[2] <= watermark[t[1]]

\* The writes W of a tick of time now for job j lie ahead of what was enqueued and
\* of the watermark, and each is ahead of the ones before it.
IsAhead(W, j, now, wm, enq) ==
    /\ \A w \in W :
           /\ w.fire <= w.wm
           /\ w.enqueue => w.fire <= now
           /\ \A t \in enq : t[1] = j => t[2] < w.fire
           /\ j \in DOMAIN wm => wm[j] <= w.wm
    /\ \A v, w \in W :
           /\ v.fire = w.fire => v = w
           /\ v.fire <= w.fire => v.wm <= w.wm

PlansAhead ==
    \A n \in Node : pc[n] = "write" =>
        \A j \in DOMAIN todo[n] :
            Visits(n, j) => IsAhead(plan[n], j, at[n], watermark, enqueued)

OnceInv == OneLeader /\ EnqueuedIsPast /\ WatermarkCovers /\ PlansAhead

\* Every step keeps the ticks to the one leader.
LEMMA OneLeaderStep ==
    ASSUME "expire" \notin Faults, TypeOK, OneLeader, [Next]_vars
    PROVE  OneLeader'
<1> USE DEF jobVars, etcdVars, tickVars, leadershipVars
<1>1. ASSUME NEW n \in Node, TickStep(n) PROVE OneLeader'
  BY <1>1, TickIsLocal DEF OneLeader
<1>2. ASSUME NEW n \in Node, Elected(n) PROVE OneLeader'
  BY <1>2 DEF Elected, Win, OneLeader, TypeOK, LeadershipTypeOK
<1>3. ASSUME NEW n \in Node, TakesOffice(n) PROVE OneLeader'
  BY <1>3 DEF TakesOffice, Raise, OneLeader, TypeOK, LeadershipTypeOK
<1>4. ASSUME NEW n \in Node, LeaseExpires(n) PROVE OneLeader'
  BY <1>4 DEF LeaseExpires, Vacate, OneLeader, TypeOK, LeadershipTypeOK
<1>5. ASSUME NEW n \in Node, Crash(n) PROVE OneLeader'
  <2>1. DOMAIN NoKeys = {}
    BY DEF NoKeys
  <2> QED
    BY <1>5, <2>1 DEF Crash, Lower, GoOn, OneLeader, TypeOK, LeadershipTypeOK
<1>6. ASSUME NEW n \in Node, Deposed(n) PROVE FALSE
  BY <1>6 DEF Deposed
<1>7. CASE UNCHANGED <<pc, flag, won, holder>>
  BY <1>7 DEF OneLeader
<1>8. ASSUME NEW j \in Job, NEW v \in JobValue, PutJob(j, v) PROVE OneLeader'
  BY <1>7, <1>8 DEF PutJob
<1>9. ASSUME NEW j \in Job, DeleteJob(j) PROVE OneLeader'
  BY <1>7, <1>9 DEF DeleteJob
<1>10. ASSUME NEW t \in tickets, Resolve(t) PROVE OneLeader'
  BY <1>7, <1>10 DEF Resolve
<1>11. CASE TimePasses
  BY <1>7, <1>11 DEF TimePasses
<1>12. CASE UNCHANGED vars
  BY <1>7, <1>12 DEF vars
<1> QED
  BY <1>1, <1>2, <1>3, <1>4, <1>5, <1>6, <1>8, <1>9, <1>10, <1>11, <1>12 DEF Next

\* While one node is in a tick no other is.
LEMMA OneTick ==
    ASSUME OneLeader, NEW m \in Node, NEW n \in Node, pc[m] # "idle",
           pc[n] # "idle" \/ flag[n]
    PROVE  m = n
BY DEF OneLeader

\* There is one job that a tick visits.
LEMMA OneVisit ==
    ASSUME TypeOK, NEW n \in Node, NEW i \in DOMAIN todo[n], NEW j \in DOMAIN todo[n],
           Visits(n, i), Visits(n, j)
    PROVE  i = j
<1>1. i \in Nat /\ j \in Nat /\ i <= j /\ j <= i
  BY SchedulerAssumption DEF TypeOK, IsKeySpace, Visits
<1> QED
  BY <1>1

\* The watermark of j becomes t.
Moved(j, t) ==
    /\ DOMAIN watermark' = DOMAIN watermark \cup {j}
    /\ watermark'[j] = t
    /\ \A i \in DOMAIN watermark : i # j => watermark'[i] = watermark[i]

\* What a write puts: a ticket with its watermark, the watermark alone, or nothing,
\* where the ticket is there already.
LEMMA WriteIs ==
    ASSUME TypeOK, NEW n \in Node, NEW j \in DOMAIN todo[n], NEW w \in plan[n],
           MakeWrite(n, j, w)
    PROVE  /\ j \in Job /\ w \in Write
           /\ pc[n] = "write" /\ Visits(n, j) /\ IsNext(n, w)
           /\ UNCHANGED <<at, clock>>
           /\ plan'[n] = plan[n] \ {w}
           /\ pc'[n] = "write" => todo'[n] = todo[n]
           /\ \/ /\ w.enqueue /\ <<j, w.fire>> \in tickets
                 /\ UNCHANGED <<watermark, tickets, enqueued, armed>>
              \/ /\ w.enqueue
                 /\ Moved(j, w.wm)
                 /\ tickets' = tickets \cup {<<j, w.fire>>}
                 /\ enqueued' = enqueued \cup {<<j, w.fire>>}
                 /\ UNCHANGED armed
              \/ /\ ~w.enqueue /\ AdvanceWatermark(n, j, w)
                 /\ Moved(j, w.wm)
                 /\ UNCHANGED <<tickets, enqueued>>
<1> USE DEF etcdVars
<1>1. j \in Job /\ w \in Write
  BY DEF TypeOK, IsKeySpace
<1>2. /\ pc[n] = "write" /\ Visits(n, j) /\ IsNext(n, w)
      /\ UNCHANGED <<at, clock>>
      /\ DoneWith(n, j, w)
      /\ IF w.enqueue THEN EnqueueFire(n, j, w) ELSE AdvanceWatermark(n, j, w)
  BY DEF MakeWrite
<1>3. plan'[n] = plan[n] \ {w}
  BY <1>2 DEF DoneWith, TypeOK
<1>4. pc'[n] = "write" => todo'[n] = todo[n]
  <2>1. GoOn(n, Delete(todo[n], {j})) => pc'[n] # "write"
    BY DEF GoOn, TypeOK
  <2> QED
    BY <1>2, <2>1 DEF DoneWith
<1>5. watermark' = Put(watermark, j, w.wm) => Moved(j, w.wm)
  BY DEF Put, Moved
<1>6. CASE w.enqueue
  BY <1>1, <1>2, <1>3, <1>4, <1>5, <1>6 DEF EnqueueFire
<1>7. CASE ~w.enqueue
  BY <1>1, <1>2, <1>3, <1>4, <1>5, <1>7 DEF AdvanceWatermark
<1> QED
  BY <1>6, <1>7

\* No step enqueues a fire that lies in the future.
LEMMA EnqueuedIsPastStep ==
    ASSUME TypeOK, OneLeader, EnqueuedIsPast, PlansAhead, [Next]_vars
    PROVE  EnqueuedIsPast'
<1>0. /\ clock \in Nat /\ \A m \in Node : at[m] \in Nat
      /\ \A t \in enqueued : t[2] \in Nat
  BY DEF TypeOK
<1>1. CASE ~\E n \in Node : TickStep(n)
  BY <1>0, <1>1, OtherStep DEF EnqueuedIsPast
<1>2. ASSUME NEW n \in Node, TickStep(n) PROVE EnqueuedIsPast'
  <2>1. /\ UNCHANGED clock
        /\ flag[n] \/ pc[n] # "idle"
        /\ \A m \in Node : m # n => pc'[m] = pc[m] /\ at'[m] = at[m]
    BY <1>2, TickIsLocal
  <2>2. \A m \in Node : m # n => pc[m] = "idle"
    BY <2>1, OneTick
  <2>3. CASE enqueued' = enqueued
    <3>1. \/ at'[n] = clock
          \/ at'[n] = at[n] /\ pc[n] # "idle"
      BY <1>2 DEF TickStep, TickStart, TickReturn, ScheduleJob, WatermarkError, MakeWrite,
                  WriteError, PlanReturn, TypeOK
    <3> QED
      BY <1>0, <2>1, <2>2, <2>3, <3>1 DEF EnqueuedIsPast
  <2>4. ASSUME NEW j \in DOMAIN todo[n], NEW w \in plan[n], MakeWrite(n, j, w)
        PROVE  EnqueuedIsPast'
    <3>1. /\ pc[n] = "write" /\ Visits(n, j)
          /\ UNCHANGED <<at, clock>>
          /\ enqueued' = enqueued \/ (w.enqueue /\ enqueued' = enqueued \cup {<<j, w.fire>>})
          /\ w \in Write
      BY <2>4, WriteIs
    <3>2. w.enqueue => w.fire <= at[n]
      BY <3>1 DEF PlansAhead, IsAhead
    <3>3. w.fire \in Nat /\ at[n] <= clock
      BY <3>1 DEF Write, EnqueuedIsPast
    <3>4. \A t \in enqueued' : t[2] \in Nat /\ t[2] <= at[n]
      BY <1>0, <3>1, <3>2, <3>3 DEF EnqueuedIsPast
    <3> QED
      BY <1>0, <2>1, <2>2, <3>1, <3>3, <3>4 DEF EnqueuedIsPast
  <2>5. CASE ~\E j \in DOMAIN todo[n] : \E w \in plan[n] : MakeWrite(n, j, w)
    <3>1. UNCHANGED enqueued
      BY <1>2, <2>5 DEF TickStep, TickStart, TickReturn, ScheduleJob, WatermarkError,
                        WriteError, PlanReturn, etcdVars
    <3> QED
      BY <2>3, <3>1
  <2> QED
    BY <2>4, <2>5
<1> QED
  BY <1>1, <1>2

\* No step enqueues a fire without moving the watermark to it, and none moves the
\* watermark to before a fire that was enqueued.
LEMMA WatermarkCoversStep ==
    ASSUME TypeOK, WatermarkCovers, PlansAhead, [Next]_vars
    PROVE  WatermarkCovers'
<1>1. CASE ~\E n \in Node : TickStep(n)
  BY <1>1, OtherStep DEF WatermarkCovers
<1>2. CASE UNCHANGED <<watermark, enqueued>>
  BY <1>2 DEF WatermarkCovers
<1>3. ASSUME NEW n \in Node, NEW j \in DOMAIN todo[n], NEW w \in plan[n], MakeWrite(n, j, w)
      PROVE  WatermarkCovers'
  <2>1. /\ pc[n] = "write" /\ Visits(n, j) /\ w \in Write
        /\ \/ UNCHANGED <<watermark, enqueued>>
           \/ /\ Moved(j, w.wm)
              /\ enqueued' = enqueued \/ enqueued' = enqueued \cup {<<j, w.fire>>}
    BY <1>3, WriteIs
  <2>2. CASE Moved(j, w.wm)
    <3>1. IsAhead(plan[n], j, at[n], watermark, enqueued)
      BY <2>1 DEF PlansAhead
    <3>2. /\ w.fire \in Nat /\ w.wm \in Nat /\ w.fire <= w.wm
          /\ \A t \in enqueued : t[2] \in Nat /\ (t[1] = j => t[2] < w.fire)
      <4>1. w.fire \in Nat /\ w.wm \in Nat
        BY <2>1 DEF Write
      <4>2. \A t \in enqueued : t[2] \in Nat
        BY DEF TypeOK
      <4> QED
        BY <3>1, <4>1, <4>2 DEF IsAhead
    <3>3. \A t \in enqueued' : t \in enqueued \/ (t[1] = j /\ t[2] = w.fire)
      BY <2>1
    <3>4. \A t \in enqueued' : t[1] = j => t[2] <= w.wm
      BY <3>2, <3>3
    <3>5. /\ watermark'[j] = w.wm
          /\ \A i \in DOMAIN watermark' : i # j =>
                 i \in DOMAIN watermark /\ watermark'[i] = watermark[i]
      BY <2>2 DEF Moved
    <3> QED
      BY <3>3, <3>4, <3>5 DEF WatermarkCovers
  <2> QED
    BY <1>2, <2>1, <2>2
<1>4. ASSUME NEW n \in Node, TickStep(n) PROVE WatermarkCovers'
  <2>1. CASE ~\E j \in DOMAIN todo[n] : \E w \in plan[n] : MakeWrite(n, j, w)
    BY <1>2, <1>4, <2>1 DEF TickStep, TickStart, TickReturn, ScheduleJob, WatermarkError,
                            WriteError, PlanReturn, etcdVars
  <2> QED
    BY <1>3, <2>1
<1> QED
  BY <1>1, <1>4

\* A plan that was ahead stays ahead while it loses writes and nothing is put.
LEMMA AheadFrame ==
    ASSUME PlansAhead, UNCHANGED enqueued,
           \A j \in DOMAIN watermark' :
               j \in DOMAIN watermark /\ watermark'[j] = watermark[j],
           \A n \in Node : pc'[n] = "write" =>
               /\ pc[n] = "write" /\ todo'[n] = todo[n] /\ at'[n] = at[n]
               /\ plan'[n] \subseteq plan[n]
    PROVE  PlansAhead'
BY DEF PlansAhead, IsAhead, Visits

\* What scheduleJob works out lies ahead.
LEMMA ScheduleIsAhead ==
    ASSUME TypeOK, EnqueuedIsPast, WatermarkCovers,
           NEW n \in Node, pc[n] # "idle", NEW j \in Job, NEW v \in JobValue
    PROVE  IsAhead(Schedule(j, v, at[n]), j, at[n], watermark, enqueued)
<1>0. /\ at[n] \in Nat
      /\ \A t \in enqueued : t[2] \in Nat /\ t[2] <= at[n]
  BY DEF TypeOK, EnqueuedIsPast
<1>1. CASE j \in DOMAIN watermark
  <2> DEFINE W == CatchUp(v, watermark[j], at[n])
  <2>1. Schedule(j, v, at[n]) = W
    BY <1>1 DEF Schedule
  <2>2. watermark[j] \in Nat
    BY <1>1 DEF TypeOK, IsKeySpace
  <2>3. \A t \in enqueued : t[1] = j => t[2] <= watermark[j]
    BY <1>1 DEF WatermarkCovers
  <2>4. /\ W \in SUBSET Write
        /\ \A w \in W :
               /\ watermark[j] < w.fire
               /\ w.fire <= w.wm
               /\ w.enqueue => w.fire <= at[n]
        /\ \A x, w \in W :
               /\ x.fire = w.fire => x = w
               /\ x.fire <= w.fire => x.wm <= w.wm
    BY <1>0, <2>2, CatchUpIs
  <2> HIDE DEF W
  <2>5. ASSUME NEW w \in W
        PROVE  /\ \A t \in enqueued : t[1] = j => t[2] < w.fire
               /\ watermark[j] <= w.wm
    <3>1. w.fire \in Nat /\ w.wm \in Nat
      BY <2>4 DEF Write
    <3> QED
      BY <1>0, <2>2, <2>3, <2>4, <3>1
  <2> QED
    BY <2>1, <2>4, <2>5 DEF IsAhead
<1>2. CASE j \notin DOMAIN watermark
  <2> DEFINE W == Arm(v, at[n])
  <2>1. Schedule(j, v, at[n]) = W
    BY <1>2 DEF Schedule
  <2>2. /\ W \in SUBSET Write
        /\ \A w \in W : w.fire = w.wm /\ ~w.enqueue /\ at[n] < w.fire
        /\ \A x, w \in W : x = w
    BY <1>0, ArmIs
  <2> HIDE DEF W
  <2>3. ASSUME NEW w \in W
        PROVE  /\ w.fire <= w.wm
               /\ \A t \in enqueued : t[1] = j => t[2] < w.fire
    <3>1. w.fire \in Nat /\ w.wm \in Nat
      BY <2>2 DEF Write
    <3> QED
      BY <1>0, <2>2, <3>1
  <2>4. \A x, w \in W : x.wm <= w.wm
    BY <2>2 DEF Write
  <2> QED
    BY <1>2, <2>1, <2>2, <2>3, <2>4 DEF IsAhead
<1> QED
  BY <1>1, <1>2

\* Every step keeps the plans ahead.
LEMMA PlansAheadStep ==
    ASSUME TypeOK, OneLeader, EnqueuedIsPast, WatermarkCovers, PlansAhead, [Next]_vars
    PROVE  PlansAhead'
<1>1. CASE ~\E n \in Node : TickStep(n)
  BY <1>1, OtherStep, AheadFrame
<1>2. ASSUME NEW n \in Node, TickStep(n) PROVE PlansAhead'
  <2>1. /\ flag[n] \/ pc[n] # "idle"
        /\ \A m \in Node : m # n =>
               /\ pc'[m] = pc[m] /\ todo'[m] = todo[m]
               /\ plan'[m] = plan[m] /\ at'[m] = at[m]
    BY <1>2, TickIsLocal
  <2>2. \A m \in Node : m # n => pc'[m] = "idle"
    BY <2>1, OneTick
  <2>3. ASSUME NEW j \in DOMAIN todo[n], Visits(n, j),
               pc'[n] = "write" => /\ todo'[n] = todo[n]
                                   /\ IsAhead(plan'[n], j, at'[n], watermark', enqueued')
        PROVE  PlansAhead'
    <3>1. ASSUME NEW i \in DOMAIN todo[n], Visits(n, i) PROVE i = j
      BY <2>3, <3>1, OneVisit
    <3> QED
      BY <2>2, <2>3, <3>1 DEF PlansAhead, Visits
  <2>4. ASSUME NEW j \in DOMAIN todo[n], ScheduleJob(n, j) PROVE PlansAhead'
    <3>1. /\ pc[n] = "visit" /\ Visits(n, j)
          /\ UNCHANGED <<at, watermark, enqueued>>
          /\ plan'[n] = Schedule(j, todo[n][j], at[n])
      BY <2>4 DEF ScheduleJob, etcdVars, TypeOK
    <3>2. pc'[n] = "write" => todo'[n] = todo[n]
      <4>1. GoOn(n, Delete(todo[n], {j})) => pc'[n] # "write"
        BY DEF GoOn, TypeOK
      <4> QED
        BY <2>4, <4>1 DEF ScheduleJob
    <3>3. j \in Job /\ todo[n][j] \in JobValue
      BY DEF TypeOK, IsKeySpace
    <3>4. IsAhead(plan'[n], j, at[n], watermark, enqueued)
      BY <3>1, <3>3, ScheduleIsAhead
    <3> QED
      BY <2>3, <3>1, <3>2, <3>4
  <2>5. ASSUME NEW j \in DOMAIN todo[n], NEW w \in plan[n], MakeWrite(n, j, w)
        PROVE  PlansAhead'
    <3>1. /\ j \in Job /\ w \in Write /\ pc[n] = "write" /\ Visits(n, j) /\ IsNext(n, w)
          /\ UNCHANGED at
          /\ plan'[n] = plan[n] \ {w}
          /\ pc'[n] = "write" => todo'[n] = todo[n]
          /\ \/ UNCHANGED <<watermark, enqueued>>
             \/ /\ Moved(j, w.wm)
                /\ enqueued' = enqueued \/ enqueued' = enqueued \cup {<<j, w.fire>>}
      BY <2>5, WriteIs
    <3>2. IsAhead(plan[n], j, at[n], watermark, enqueued)
      BY <3>1 DEF PlansAhead
    <3>3. ASSUME NEW x \in plan'[n]
          PROVE  /\ \A t \in enqueued' : t[1] = j => t[2] < x.fire
                 /\ j \in DOMAIN watermark' => watermark'[j] <= x.wm
      <4>1. x \in plan[n] /\ x # w
        BY <3>1
      <4>2. /\ w.fire \in Nat /\ x.fire \in Nat
        BY <3>1, <4>1 DEF TypeOK, Write
      <4>3. w.fire < x.fire /\ w.wm <= x.wm
        BY <3>1, <3>2, <4>1, <4>2 DEF IsAhead, IsNext
      <4>4. /\ \A t \in enqueued : t[1] = j => t[2] < x.fire
            /\ j \in DOMAIN watermark => watermark[j] <= x.wm
        BY <3>2, <4>1 DEF IsAhead
      <4>5. Moved(j, w.wm) => watermark'[j] = w.wm
        BY DEF Moved
      <4> QED
        BY <3>1, <4>3, <4>4, <4>5
    <3>4. IsAhead(plan'[n], j, at[n], watermark', enqueued')
      BY <3>1, <3>2, <3>3 DEF IsAhead
    <3> QED
      BY <2>3, <3>1, <3>4
  <2>6. CASE ~\E j \in DOMAIN todo[n] : ScheduleJob(n, j) \/ \E w \in plan[n] : MakeWrite(n, j, w)
    <3>1. /\ UNCHANGED <<watermark, enqueued>>
          /\ pc'[n] = "write" =>
                /\ pc[n] = "write" /\ todo'[n] = todo[n] /\ at'[n] = at[n]
                /\ plan'[n] \subseteq plan[n]
      BY <1>2, <2>6, QuietTick
    <3> QED
      BY <2>2, <3>1, AheadFrame
  <2> QED
    BY <2>4, <2>5, <2>6
<1> QED
  BY <1>1, <1>2

\* The invariant of the theorems below.
LEMMA Once ==
    ASSUME "expire" \notin Faults
    PROVE  Spec => []OnceInv
<1>1. Init => OnceInv
  BY SchedulerAssumption
     DEF Init, OnceInv, OneLeader, EnqueuedIsPast, WatermarkCovers, PlansAhead, LeadershipInit
<1>2. TypeOK /\ OnceInv /\ [Next]_vars => OnceInv'
  BY OneLeaderStep, EnqueuedIsPastStep, WatermarkCoversStep, PlansAheadStep DEF OnceInv
<1> QED
  BY <1>1, <1>2, SchedulerTypeCorrect, PTL DEF Spec

\* If no running node loses its lease, a fire is enqueued once (EnqueuedOnce), in
\* whatever order leaders die and follow each other, tickets are worked off, calls
\* fail and jobs are changed, deleted and created again: the key of the ticket is
\* gone by then, and it is the watermark that EnqueueFire puts in the same
\* transaction, and after a deletion the time of the tick, that keep it from being
\* planned again.
THEOREM FiresAreEnqueuedOnce ==
    ASSUME "expire" \notin Faults
    PROVE  Spec => EnqueuedOnce
<1> DEFINE A == \A t \in tickets' \ tickets : t \notin enqueued
<1>1. TypeOK /\ OnceInv /\ [Next]_vars => [A]_vars
  <2> SUFFICES ASSUME TypeOK, OnceInv, Next PROVE A
    OBVIOUS
  <2>1. CASE ~\E n \in Node : TickStep(n)
    BY <2>1, OtherStep
  <2>2. ASSUME NEW n \in Node, NEW j \in DOMAIN todo[n], NEW w \in plan[n],
               MakeWrite(n, j, w)
        PROVE  A
    <3>1. /\ pc[n] = "write" /\ Visits(n, j) /\ w \in Write
          /\ tickets' = tickets \/ tickets' = tickets \cup {<<j, w.fire>>}
      BY <2>2, WriteIs
    <3>2. \A t \in enqueued : t[1] = j => t[2] < w.fire
      BY <3>1 DEF OnceInv, PlansAhead, IsAhead
    <3>3. w.fire \in Nat
      BY <3>1 DEF Write
    <3>4. <<j, w.fire>> \notin enqueued
      BY <3>2, <3>3
    <3> QED
      BY <3>1, <3>4
  <2>3. ASSUME NEW n \in Node, TickStep(n),
               ~\E j \in DOMAIN todo[n] : \E w \in plan[n] : MakeWrite(n, j, w)
        PROVE  A
    BY <2>3 DEF TickStep, TickStart, TickReturn, ScheduleJob, WatermarkError, WriteError,
                PlanReturn, etcdVars
  <2> QED
    BY <2>1, <2>2, <2>3
<1> QED
  BY <1>1, SchedulerTypeCorrect, Once, PTL DEF Spec, EnqueuedOnce

\* If no running node loses its lease, the watermark of a job never goes back
\* (WatermarkAdvances), although AdvanceWatermark puts it whatever it is: the plan of
\* the one tick under way is ahead of it, across deletions and changes of the job
\* between the read of the watermark and the write.
THEOREM WatermarksAdvance ==
    ASSUME "expire" \notin Faults
    PROVE  Spec => WatermarkAdvances
<1> DEFINE A == \A j \in DOMAIN watermark \cap DOMAIN watermark' :
                   watermark[j] <= watermark'[j]
<1>1. TypeOK /\ OnceInv /\ [Next]_vars => [A]_vars
  <2> SUFFICES ASSUME TypeOK, OnceInv, Next PROVE A
    OBVIOUS
  <2>0. \A j \in DOMAIN watermark : watermark[j] \in Nat
    BY DEF TypeOK, IsKeySpace
  <2>1. CASE ~\E n \in Node : TickStep(n)
    BY <2>0, <2>1, OtherStep
  <2>2. ASSUME NEW n \in Node, NEW j \in DOMAIN todo[n], NEW w \in plan[n],
               MakeWrite(n, j, w)
        PROVE  A
    <3>1. /\ pc[n] = "write" /\ Visits(n, j)
          /\ watermark' = watermark \/ Moved(j, w.wm)
      BY <2>2, WriteIs
    <3>2. j \in DOMAIN watermark => watermark[j] <= w.wm
      BY <3>1 DEF OnceInv, PlansAhead, IsAhead
    <3> QED
      BY <2>0, <3>1, <3>2 DEF Moved
  <2>3. ASSUME NEW n \in Node, TickStep(n),
               ~\E j \in DOMAIN todo[n] : \E w \in plan[n] : MakeWrite(n, j, w)
        PROVE  A
    <3>1. UNCHANGED watermark
      BY <2>3 DEF TickStep, TickStart, TickReturn, ScheduleJob, WatermarkError, WriteError,
                  PlanReturn, etcdVars
    <3> QED
      BY <2>0, <3>1
  <2> QED
    BY <2>1, <2>2, <2>3
<1> QED
  BY <1>1, SchedulerTypeCorrect, Once, PTL DEF Spec, WatermarkAdvances

-----------------------------------------------------------------------------
(* What is behind the watermark *)

\* Job value v runs all of the fires F.
RunsAll(v, F) == v.policy = "run_all" /\ Fires[v.cron] = F

\* While they are there, the jobs of C run all the fires C says: their policy and their
\* schedule are not edited.  C is a function from some of the jobs to sets of fires.
JobsRunAll(C) == \A j \in DOMAIN C \cap DOMAIN jobs : RunsAll(jobs[j], C[j])

\* So it is in what the ticks have read.
TicksRunAll(C) ==
    \A n \in Node : \A j \in DOMAIN C \cap DOMAIN todo[n] : RunsAll(todo[n][j], C[j])

\* Every fire between the one the job was armed with and its watermark was
\* enqueued.
NoGapBehind(C) ==
    \A j \in DOMAIN C \cap DOMAIN watermark :
        /\ j \in DOMAIN armed
        /\ \A f \in C[j] : armed[j].wm < f /\ f <= watermark[j] => <<j, f>> \in enqueued

\* The writes W for job j leave no gap in the fires F before any of them.
LeavesNoGap(F, W, j, arm, enq) ==
    \A w \in W :
        /\ w.wm = w.fire
        /\ w.enqueue =>
              /\ j \in DOMAIN arm
              /\ \A f \in F : arm[j].wm < f /\ f < w.fire =>
                     <<j, f>> \in enq \/ \E x \in W : x.fire = f

PlansLeaveNoGap(C) ==
    \A n \in Node : pc[n] = "write" =>
        \A j \in DOMAIN C \cap DOMAIN todo[n] :
            Visits(n, j) => LeavesNoGap(C[j], plan[n], j, armed, enqueued)

GapInv(C) ==
    /\ tickets \subseteq enqueued
    /\ TicksRunAll(C)
    /\ NoGapBehind(C)
    /\ PlansLeaveNoGap(C)

\* What a job was armed with never goes back.
ArmedGrows(arm, arm2) ==
    \A j \in DOMAIN arm : j \in DOMAIN arm2 /\ arm[j].wm <= arm2[j].wm

\* A put of the watermark without a ticket arms the job with it, or the job was armed
\* with a later one.
LEMMA AdvanceArms ==
    ASSUME TypeOK, NEW n \in Node, NEW j \in Job, NEW w \in Write,
           AdvanceWatermark(n, j, w)
    PROVE  /\ ArmedGrows(armed, armed')
           /\ j \in DOMAIN armed' /\ w.wm <= armed'[j].wm
<1>1. /\ w.wm \in Nat
      /\ \A i \in DOMAIN armed : armed[i].wm \in Nat
  BY DEF Write, TypeOK, IsKeySpace
<1>2. CASE j \in DOMAIN armed /\ armed[j].wm >= w.wm
  <2>1. armed' = armed
    BY <1>2 DEF AdvanceWatermark
  <2> QED
    BY <1>1, <1>2, <2>1 DEF ArmedGrows
<1>3. CASE ~(j \in DOMAIN armed /\ armed[j].wm >= w.wm)
  <2>1. armed' = Put(armed, j, [at |-> at[n], wm |-> w.wm])
    BY <1>3 DEF AdvanceWatermark
  <2>2. /\ DOMAIN armed' = DOMAIN armed \cup {j}
        /\ armed'[j].wm = w.wm
        /\ \A i \in DOMAIN armed : i # j => armed'[i] = armed[i]
    BY <2>1 DEF Put
  <2> QED
    BY <1>1, <1>3, <2>2 DEF ArmedGrows
<1> QED
  BY <1>2, <1>3

\* Every step keeps tickets among what was enqueued, and jobs armed.
LEMMA EnqueuedGrows ==
    ASSUME TypeOK, [Next]_vars
    PROVE  /\ enqueued \subseteq enqueued'
           /\ ArmedGrows(armed, armed')
           /\ tickets \subseteq enqueued => tickets' \subseteq enqueued'
<1>0. UNCHANGED armed => ArmedGrows(armed, armed')
  BY DEF ArmedGrows, TypeOK, IsKeySpace
<1>1. CASE ~\E n \in Node : TickStep(n)
  BY <1>0, <1>1, OtherStep
<1>2. ASSUME NEW n \in Node, NEW j \in DOMAIN todo[n], NEW w \in plan[n], MakeWrite(n, j, w)
      PROVE  /\ enqueued \subseteq enqueued'
             /\ ArmedGrows(armed, armed')
             /\ tickets \subseteq enqueued => tickets' \subseteq enqueued'
  <2>1. /\ j \in Job /\ w \in Write
        /\ \/ UNCHANGED <<tickets, enqueued, armed>>
           \/ /\ tickets' = tickets \cup {<<j, w.fire>>}
              /\ enqueued' = enqueued \cup {<<j, w.fire>>}
              /\ UNCHANGED armed
           \/ AdvanceWatermark(n, j, w) /\ UNCHANGED <<tickets, enqueued>>
    BY <1>2, WriteIs
  <2> QED
    BY <1>0, <2>1, AdvanceArms
<1>3. ASSUME NEW n \in Node, TickStep(n),
             ~\E j \in DOMAIN todo[n] : \E w \in plan[n] : MakeWrite(n, j, w)
      PROVE  UNCHANGED <<enqueued, armed, tickets>>
  BY <1>3 DEF TickStep, TickStart, TickReturn, ScheduleJob, WatermarkError, WriteError,
              PlanReturn, etcdVars
<1> QED
  BY <1>0, <1>1, <1>2, <1>3

\* Every step leaves no gap behind a watermark.
LEMMA NoGapStep ==
    ASSUME NEW K \in SUBSET Job, NEW C \in [K -> SUBSET Nat],
           TypeOK, TypeOK', GapInv(C), [Next]_vars
    PROVE  NoGapBehind(C)'
<1>0. /\ \A j \in DOMAIN armed : armed[j].wm \in Nat
      /\ \A j \in DOMAIN armed' : armed'[j].wm \in Nat
      /\ \A j \in DOMAIN watermark : watermark[j] \in Nat
      /\ \A j \in DOMAIN watermark' : watermark'[j] \in Nat
  BY DEF TypeOK, IsKeySpace
<1>1. /\ enqueued \subseteq enqueued'
      /\ ArmedGrows(armed, armed')
  BY EnqueuedGrows
<1>2. ASSUME NEW j \in K \cap DOMAIN watermark', j \in DOMAIN watermark,
             watermark'[j] = watermark[j]
      PROVE  /\ j \in DOMAIN armed'
             /\ \A f \in C[j] : armed'[j].wm < f /\ f <= watermark'[j] => <<j, f>> \in enqueued'
  <2>1. /\ j \in DOMAIN armed
        /\ \A f \in C[j] : armed[j].wm < f /\ f <= watermark[j] => <<j, f>> \in enqueued
    BY <1>2 DEF GapInv, NoGapBehind
  <2>2. j \in DOMAIN armed' /\ armed[j].wm <= armed'[j].wm
    BY <1>1, <2>1 DEF ArmedGrows
  <2>3. ASSUME NEW f \in C[j], armed'[j].wm < f, f <= watermark'[j]
        PROVE  <<j, f>> \in enqueued'
    <3>0. f \in Nat /\ armed[j].wm \in Nat /\ armed'[j].wm \in Nat
      BY <1>0, <2>1, <2>2
    <3>1. armed[j].wm < f
      BY <2>2, <2>3, <3>0
    <3> QED
      BY <1>1, <1>2, <2>1, <2>3, <3>1
  <2> QED
    BY <2>2, <2>3
<1>3. CASE ~\E n \in Node : TickStep(n)
  BY <1>2, <1>3, OtherStep DEF NoGapBehind
<1>4. CASE UNCHANGED watermark
  BY <1>2, <1>4 DEF NoGapBehind
<1>5. ASSUME NEW n \in Node, NEW j \in DOMAIN todo[n], NEW w \in plan[n], MakeWrite(n, j, w)
      PROVE  NoGapBehind(C)'
  <2>1. /\ j \in Job /\ w \in Write /\ pc[n] = "write" /\ Visits(n, j) /\ IsNext(n, w)
        /\ \/ UNCHANGED watermark
           \/ /\ Moved(j, w.wm) /\ w.enqueue
              /\ enqueued' = enqueued \cup {<<j, w.fire>>}
              /\ UNCHANGED armed
           \/ Moved(j, w.wm) /\ AdvanceWatermark(n, j, w)
    BY <1>5, WriteIs
  <2>0. CASE j \notin K
    BY <1>2, <1>4, <2>0, <2>1 DEF Moved, NoGapBehind
  <2> SUFFICES ASSUME j \in K PROVE NoGapBehind(C)'
    BY <2>0
  <2>2. LeavesNoGap(C[j], plan[n], j, armed, enqueued)
    BY <2>1 DEF GapInv, PlansLeaveNoGap
  <2>3. w.wm = w.fire /\ w.fire \in Nat
    BY <2>1, <2>2 DEF LeavesNoGap, Write
  <2>4. ASSUME Moved(j, w.wm),
               /\ j \in DOMAIN armed'
               /\ \A f \in C[j] : armed'[j].wm < f /\ f <= w.wm => <<j, f>> \in enqueued'
        PROVE  NoGapBehind(C)'
    BY <1>2, <2>4 DEF Moved, NoGapBehind
  <2>5. CASE /\ Moved(j, w.wm) /\ w.enqueue
             /\ enqueued' = enqueued \cup {<<j, w.fire>>}
             /\ UNCHANGED armed
    <3>1. /\ j \in DOMAIN armed
          /\ \A f \in C[j] : armed[j].wm < f /\ f < w.fire =>
                 <<j, f>> \in enqueued \/ \E x \in plan[n] : x.fire = f
      BY <2>2, <2>5 DEF LeavesNoGap
    <3>2. ASSUME NEW f \in C[j], armed'[j].wm < f, f <= w.wm PROVE <<j, f>> \in enqueued'
      <4>1. CASE f = w.fire
        BY <2>5, <4>1
      <4>2. CASE f # w.fire
        <5>1. f \in Nat /\ f < w.fire /\ armed[j].wm < f
          BY <2>3, <2>5, <3>2, <4>2
        <5>2. \A x \in plan[n] : x.fire # f
          BY <2>1, <2>3, <5>1 DEF IsNext
        <5> QED
          BY <2>5, <3>1, <5>1, <5>2
      <4> QED
        BY <4>1, <4>2
    <3> QED
      BY <2>4, <2>5, <3>1, <3>2
  <2>6. CASE Moved(j, w.wm) /\ AdvanceWatermark(n, j, w)
    <3>1. j \in DOMAIN armed' /\ w.wm <= armed'[j].wm
      BY <2>1, <2>6, AdvanceArms
    <3>2. armed'[j].wm \in Nat /\ w.wm \in Nat
      BY <1>0, <2>3, <3>1
    <3>3. \A f \in C[j] : f \in Nat /\ ~(armed'[j].wm < f /\ f <= w.wm)
      BY <3>1, <3>2
    <3> QED
      BY <2>4, <2>6, <3>1, <3>3
  <2> QED
    BY <1>4, <2>1, <2>5, <2>6
<1>6. ASSUME NEW n \in Node, TickStep(n),
             ~\E j \in DOMAIN todo[n] : \E w \in plan[n] : MakeWrite(n, j, w)
      PROVE  UNCHANGED watermark
  BY <1>6 DEF TickStep, TickStart, TickReturn, ScheduleJob, WatermarkError, WriteError,
              PlanReturn, etcdVars
<1> QED
  BY <1>3, <1>4, <1>5, <1>6

\* Writes that leave no gap leave none when more was enqueued and jobs were armed
\* again.
LEMMA LeavesNoGapFrame ==
    ASSUME NEW F \in SUBSET Nat, NEW W, NEW j, NEW arm, NEW arm2, NEW enq, NEW enq2,
           \A i \in DOMAIN arm : arm[i].wm \in Nat,
           \A i \in DOMAIN arm2 : arm2[i].wm \in Nat,
           W \subseteq Write,
           ArmedGrows(arm, arm2), enq \subseteq enq2,
           LeavesNoGap(F, W, j, arm, enq)
    PROVE  LeavesNoGap(F, W, j, arm2, enq2)
<1> SUFFICES ASSUME NEW w \in W, w.enqueue
             PROVE  /\ j \in DOMAIN arm2
                    /\ \A f \in F : arm2[j].wm < f /\ f < w.fire =>
                           <<j, f>> \in enq2 \/ \E x \in W : x.fire = f
  BY DEF LeavesNoGap
<1>1. /\ j \in DOMAIN arm
      /\ \A f \in F : arm[j].wm < f /\ f < w.fire =>
             <<j, f>> \in enq \/ \E x \in W : x.fire = f
  BY DEF LeavesNoGap
<1>2. j \in DOMAIN arm2 /\ arm[j].wm <= arm2[j].wm
  BY <1>1 DEF ArmedGrows
<1>3. ASSUME NEW f \in F, arm2[j].wm < f, f < w.fire
      PROVE  <<j, f>> \in enq2 \/ \E x \in W : x.fire = f
  <2>1. arm[j].wm < f
    BY <1>1, <1>2, <1>3
  <2> QED
    BY <1>1, <1>3, <2>1
<1> QED
  BY <1>2, <1>3

\* What scheduleJob works out for run_all leaves no gap.
LEMMA ScheduleLeavesNoGap ==
    ASSUME NEW K \in SUBSET Job, NEW C \in [K -> SUBSET Nat], TypeOK, NoGapBehind(C),
           NEW j \in K, NEW v \in JobValue, RunsAll(v, C[j]), NEW now \in Nat
    PROVE  LeavesNoGap(C[j], Schedule(j, v, now), j, armed, enqueued)
<1>0. v.policy = "run_all" /\ Fires[v.cron] = C[j]
  BY DEF RunsAll
<1>1. CASE j \in DOMAIN watermark
  <2> DEFINE from == watermark[j]
             due == DueFires(v, from, now)
             W == Schedule(j, v, now)
  <2>1. from \in Nat
    BY <1>1 DEF TypeOK, IsKeySpace
  <2>2. W = {} \/ W = {EnqueueAt(f, f) : f \in due}
    BY <1>0, <1>1, <2>1, RunAllIs DEF Schedule
  <2>3. /\ due \in SUBSET Nat
        /\ \A f \in due : \A g \in C[j] : from < g /\ g < f => g \in due
    BY <1>0, <2>1, DueFiresAre
  <2>4. /\ j \in DOMAIN armed
        /\ \A f \in C[j] : armed[j].wm < f /\ f <= from => <<j, f>> \in enqueued
    BY <1>1 DEF NoGapBehind
  <2> HIDE DEF from, due, W
  <2>5. ASSUME NEW w \in W
        PROVE  /\ w.wm = w.fire
               /\ \A f \in C[j] : armed[j].wm < f /\ f < w.fire =>
                     <<j, f>> \in enqueued \/ \E x \in W : x.fire = f
    <3>1. W = {EnqueueAt(f, f) : f \in due}
      BY <2>2
    <3>2. PICK d \in due : w = EnqueueAt(d, d)
      BY <3>1
    <3>3. w.wm = d /\ w.fire = d
      BY <3>2 DEF EnqueueAt
    <3>4. ASSUME NEW f \in C[j], armed[j].wm < f, f < d
          PROVE  <<j, f>> \in enqueued \/ \E x \in W : x.fire = f
      <4>1. CASE f <= from
        BY <2>4, <3>4, <4>1
      <4>2. CASE ~(f <= from)
        <5>1. f \in due
          BY <2>1, <2>3, <3>4, <4>2
        <5>2. EnqueueAt(f, f) \in W /\ EnqueueAt(f, f).fire = f
          BY <3>1, <5>1 DEF EnqueueAt
        <5> QED
          BY <5>2
      <4> QED
        BY <4>1, <4>2
    <3> QED
      BY <3>3, <3>4
  <2> QED
    BY <2>4, <2>5 DEF LeavesNoGap, W
<1>2. CASE j \notin DOMAIN watermark
  <2>1. \A w \in Schedule(j, v, now) : w.fire = w.wm /\ ~w.enqueue
    BY <1>2, ArmIs DEF Schedule
  <2> QED
    BY <2>1 DEF LeavesNoGap
<1> QED
  BY <1>1, <1>2

\* Every step keeps the plans without a gap, those of a node that lost its lease too.
LEMMA PlansLeaveNoGapStep ==
    ASSUME "rpc" \notin Faults, NEW K \in SUBSET Job, NEW C \in [K -> SUBSET Nat],
           TypeOK, TypeOK', GapInv(C), [Next]_vars
    PROVE  PlansLeaveNoGap(C)'
<1>0. /\ \A j \in DOMAIN armed : armed[j].wm \in Nat
      /\ \A j \in DOMAIN armed' : armed'[j].wm \in Nat
      /\ \A n \in Node : plan[n] \subseteq Write
  BY DEF TypeOK, IsKeySpace
<1>1. /\ enqueued \subseteq enqueued'
      /\ ArmedGrows(armed, armed')
  BY EnqueuedGrows
<1>2. ASSUME NEW n \in Node, NEW j \in K, LeavesNoGap(C[j], plan[n], j, armed, enqueued)
      PROVE  LeavesNoGap(C[j], plan[n], j, armed', enqueued')
  BY <1>0, <1>1, <1>2, LeavesNoGapFrame
\* The plan of a node is kept.
<1>3. ASSUME NEW n \in Node, pc'[n] = "write",
             pc[n] = "write" /\ todo'[n] = todo[n] /\ plan'[n] = plan[n],
             NEW j \in K \cap DOMAIN todo'[n], Visits(n, j)'
      PROVE  LeavesNoGap(C[j], plan'[n], j, armed', enqueued')
  <2>1. j \in DOMAIN todo[n] /\ Visits(n, j)
    BY <1>3 DEF Visits
  <2>2. LeavesNoGap(C[j], plan[n], j, armed, enqueued)
    BY <1>3, <2>1 DEF GapInv, PlansLeaveNoGap
  <2> QED
    BY <1>2, <1>3, <2>2
<1>4. CASE ~\E n \in Node : TickStep(n)
  BY <1>3, <1>4, OtherStep DEF PlansLeaveNoGap
<1>5. ASSUME NEW n \in Node, TickStep(n) PROVE PlansLeaveNoGap(C)'
  <2>1. \A m \in Node : m # n =>
            pc'[m] = pc[m] /\ todo'[m] = todo[m] /\ plan'[m] = plan[m]
    BY <1>5, TickIsLocal
  <2>2. CASE pc'[n] # "write"
    BY <1>3, <2>1, <2>2 DEF PlansLeaveNoGap
  <2>3. ASSUME NEW j \in DOMAIN todo[n], Visits(n, j), todo'[n] = todo[n],
               j \in K => LeavesNoGap(C[j], plan'[n], j, armed', enqueued')
        PROVE  PlansLeaveNoGap(C)'
    <3>1. ASSUME NEW i \in DOMAIN todo[n], Visits(n, i) PROVE i = j
      BY <2>3, <3>1, OneVisit
    <3>2. ASSUME NEW i \in DOMAIN todo'[n], Visits(n, i)' PROVE i = j
      BY <2>3, <3>1, <3>2 DEF Visits
    <3> QED
      BY <1>3, <2>1, <2>3, <3>2 DEF PlansLeaveNoGap
  <2>4. ASSUME NEW j \in DOMAIN todo[n], ScheduleJob(n, j), pc'[n] = "write"
        PROVE  PlansLeaveNoGap(C)'
    <3>1. /\ Visits(n, j)
          /\ UNCHANGED <<armed, enqueued>>
          /\ plan'[n] = Schedule(j, todo[n][j], at[n])
      BY <2>4 DEF ScheduleJob, etcdVars, TypeOK
    <3>2. todo'[n] = todo[n]
      <4>1. GoOn(n, Delete(todo[n], {j})) => pc'[n] # "write"
        BY DEF GoOn, TypeOK
      <4> QED
        BY <2>4, <4>1 DEF ScheduleJob
    <3>3. j \in Job /\ todo[n][j] \in JobValue /\ at[n] \in Nat
      BY DEF TypeOK, IsKeySpace
    <3>4. ASSUME j \in K PROVE LeavesNoGap(C[j], plan'[n], j, armed, enqueued)
      <4>1. RunsAll(todo[n][j], C[j])
        BY <3>4 DEF GapInv, TicksRunAll
      <4> QED
        BY <3>1, <3>3, <3>4, <4>1, ScheduleLeavesNoGap DEF GapInv
    <3> QED
      BY <2>3, <3>1, <3>2, <3>4
  <2>5. ASSUME NEW j \in DOMAIN todo[n], NEW w \in plan[n], MakeWrite(n, j, w),
               pc'[n] = "write"
        PROVE  PlansLeaveNoGap(C)'
    <3>1. /\ w \in Write /\ pc[n] = "write" /\ Visits(n, j)
          /\ plan'[n] = plan[n] \ {w}
          /\ todo'[n] = todo[n]
          /\ \/ w.enqueue /\ <<j, w.fire>> \in tickets
             \/ w.enqueue /\ enqueued' = enqueued \cup {<<j, w.fire>>}
             \/ ~w.enqueue /\ AdvanceWatermark(n, j, w)
      BY <2>5, WriteIs
    <3>0. CASE j \notin K
      BY <2>3, <3>0, <3>1
    <3> SUFFICES ASSUME j \in K PROVE PlansLeaveNoGap(C)'
      BY <3>0
    <3>2. LeavesNoGap(C[j], plan[n], j, armed', enqueued')
      BY <1>2, <3>1 DEF GapInv, PlansLeaveNoGap
    <3>3. CASE w.enqueue
      <4>1. <<j, w.fire>> \in enqueued'
        BY <1>1, <3>1, <3>3 DEF GapInv
      <4> QED
        BY <2>3, <3>1, <3>2, <4>1 DEF LeavesNoGap
    <3>4. CASE ~w.enqueue
      <4>1. w.wm = w.fire /\ w.wm <= armed'[j].wm /\ j \in DOMAIN armed'
        <5>1. j \in Job
          BY DEF TypeOK, IsKeySpace
        <5> QED
          BY <3>1, <3>2, <3>4, <5>1, AdvanceArms DEF LeavesNoGap
      <4>2. w.fire \in Nat
        BY <3>1 DEF Write
      <4>3. \A f \in C[j] : armed'[j].wm < f => w.fire # f
        BY <1>0, <4>1, <4>2
      <4> QED
        BY <2>3, <3>1, <3>2, <4>3 DEF LeavesNoGap
    <3> QED
      BY <3>3, <3>4
  <2> QED
    BY <1>5, <2>2, <2>4, <2>5, QuietTick
<1> QED
  BY <1>4, <1>5

\* What a tick has read of a job is the value the job has, or had when the tick began.
LEMMA TicksRunAllStep ==
    ASSUME NEW C, TypeOK, JobsRunAll(C), TicksRunAll(C), [Next]_vars
    PROVE  TicksRunAll(C)'
<1>1. CASE ~\E n \in Node : TickStep(n)
  <2>1. CASE UNCHANGED todo
    BY <2>1 DEF TicksRunAll
  <2>2. ASSUME NEW n \in Node, Crash(n) PROVE TicksRunAll(C)'
    <3>1. todo' = [todo EXCEPT ![n] = NoKeys] /\ DOMAIN NoKeys = {}
      BY <2>2 DEF Crash, GoOn, NoKeys
    <3> QED
      BY <3>1 DEF TicksRunAll, TypeOK
  <2> QED
    BY <1>1, <2>1, <2>2 DEF Next, Elected, TakesOffice, Deposed, LeaseExpires, DeleteJob,
       PutJob, Resolve, TimePasses, tickVars, vars
<1>2. ASSUME NEW n \in Node, TickStep(n) PROVE TicksRunAll(C)'
  <2>1. \A m \in Node : m # n => todo'[m] = todo[m]
    BY <1>2, TickIsLocal
  <2>2. ASSUME NEW rest, GoOn(n, rest),
               \A j \in DOMAIN C \cap DOMAIN rest : RunsAll(rest[j], C[j])
        PROVE  TicksRunAll(C)'
    <3>1. todo'[n] = rest
      BY <2>2 DEF GoOn, TypeOK
    <3> QED
      BY <2>1, <2>2, <3>1 DEF TicksRunAll
  <2>3. CASE UNCHANGED todo
    BY <2>3 DEF TicksRunAll
  <2>4. ASSUME NEW j, GoOn(n, Delete(todo[n], {j})) PROVE TicksRunAll(C)'
    <3>1. \A i \in DOMAIN C \cap DOMAIN Delete(todo[n], {j}) :
              RunsAll(Delete(todo[n], {j})[i], C[i])
      BY DEF Delete, TicksRunAll
    <3> QED
      BY <2>2, <2>4, <3>1
  <2>5. CASE TickStart(n)
    <3> DEFINE rest == [j \in {i \in DOMAIN jobs : jobs[i].enabled} |-> jobs[j]]
    <3>1. \A j \in DOMAIN C \cap DOMAIN rest : RunsAll(rest[j], C[j])
      BY DEF JobsRunAll
    <3>2. GoOn(n, rest)
      BY <2>5 DEF TickStart
    <3> QED
      BY <2>2, <3>1, <3>2
  <2>6. CASE TickReturn(n)
    <3>1. GoOn(n, NoKeys) /\ DOMAIN NoKeys = {}
      BY <2>6 DEF TickReturn, NoKeys
    <3> QED
      BY <2>2, <3>1
  <2> QED
    BY <1>2, <2>3, <2>4, <2>5, <2>6 DEF TickStep, ScheduleJob, WatermarkError, MakeWrite,
       WriteError, PlanReturn, DoneWith
<1> QED
  BY <1>1, <1>2

\* The steps while the jobs of C run all their fires.
LEMMA GapInvStep ==
    ASSUME "rpc" \notin Faults, NEW K \in SUBSET Job, NEW C \in [K -> SUBSET Nat],
           TypeOK, TypeOK', JobsRunAll(C), GapInv(C), [Next]_vars
    PROVE  GapInv(C)'
<1>1. TicksRunAll(C)'
  BY TicksRunAllStep DEF GapInv
<1>2. NoGapBehind(C)' /\ PlansLeaveNoGap(C)' /\ (tickets \subseteq enqueued)'
  BY EnqueuedGrows, NoGapStep, PlansLeaveNoGapStep DEF GapInv
<1> QED
  BY <1>1, <1>2 DEF GapInv

\* What the invariant says of a job of C.
LEMMA GapInvReplays ==
    ASSUME NEW K \in SUBSET Job, NEW C \in [K -> SUBSET Nat], TypeOK, JobsRunAll(C), GapInv(C),
           NEW j \in K \cap DOMAIN watermark \cap DOMAIN jobs \cap DOMAIN armed
    PROVE  JobReplayed(j)
<1> SUFFICES ASSUME NEW f \in Fires[jobs[j].cron], armed[j].wm < f, f <= watermark[j]
             PROVE  <<j, f>> \in enqueued
  BY DEF JobReplayed, Replayed
<1>1. f \in C[j]
  BY DEF JobsRunAll, RunsAll
<1> QED
  BY <1>1 DEF GapInv, NoGapBehind

\* Where no write fails, a job with the policy run_all whose schedule is not edited
\* loses no due fire behind its watermark, whatever the other jobs are and whatever
\* is done to them: although leaders die in the middle of a plan, and although a node
\* whose lease was lost goes on with a plan that is out of date while another leads,
\* and puts the watermark back.
THEOREM GapsOfJobsAreReplayed ==
    ASSUME "rpc" \notin Faults,
           NEW CONSTANT K \in SUBSET Job, NEW CONSTANT C \in [K -> SUBSET Nat]
    PROVE  Spec /\ []JobsRunAll(C) =>
           [](\A j \in K \cap DOMAIN watermark \cap DOMAIN jobs \cap DOMAIN armed : JobReplayed(j))
<1>1. Init => GapInv(C)
  BY DEF Init, GapInv, TicksRunAll, NoGapBehind, PlansLeaveNoGap, NoKeys
<1>2. TypeOK /\ TypeOK' /\ JobsRunAll(C) /\ GapInv(C) /\ [Next]_vars => GapInv(C)'
  BY GapInvStep
<1>3. TypeOK /\ JobsRunAll(C) /\ GapInv(C) =>
      \A j \in K \cap DOMAIN watermark \cap DOMAIN jobs \cap DOMAIN armed : JobReplayed(j)
  BY GapInvReplays
<1> QED
  BY <1>1, <1>2, <1>3, SchedulerTypeCorrect, PTL DEF Spec

\* So GapReplayed holds where every job has that policy and keeps a schedule of its own,
\* through deletion and creation too.
THEOREM GapsAreReplayed ==
    ASSUME "rpc" \notin Faults, NEW CONSTANT C \in [Job -> SUBSET Nat]
    PROVE  Spec /\ []JobsRunAll(C) => []GapReplayed
<1>1. Init => GapInv(C)
  BY DEF Init, GapInv, TicksRunAll, NoGapBehind, PlansLeaveNoGap, NoKeys
<1>2. TypeOK /\ TypeOK' /\ JobsRunAll(C) /\ GapInv(C) /\ [Next]_vars => GapInv(C)'
  BY GapInvStep
<1>3. TypeOK /\ JobsRunAll(C) /\ GapInv(C) => GapReplayed
  <2> SUFFICES ASSUME TypeOK, JobsRunAll(C), GapInv(C),
                      NEW j \in DOMAIN watermark \cap DOMAIN jobs \cap DOMAIN armed
               PROVE  JobReplayed(j)
    BY DEF GapReplayed
  <2>1. j \in Job
    BY DEF TypeOK, IsKeySpace
  <2> QED
    BY <2>1, GapInvReplays
<1> QED
  BY <1>1, <1>2, <1>3, SchedulerTypeCorrect, PTL DEF Spec
=============================================================================
