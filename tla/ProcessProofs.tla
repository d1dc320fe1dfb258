--------------------------- MODULE ProcessProofs ---------------------------
(***************************************************************************)
(* Proofs about Process, for any finite set of tickets, any of them leaky, *)
(* and any MaxConcurrent.                                                  *)
(*                                                                         *)
(* Both counters of the worker are changed in a step of their own, before  *)
(* or after the step they count, so that neither limit is inductive.  What *)
(* makes them so is which executions each counter stands for (Counts) and  *)
(* what the loop has checked or taken by the time it is where it is        *)
(* (LoopInv).  The promise of Drain needs in addition that Wait returns    *)
(* when no execution is under way, and that one which starts later is      *)
(* known to be late (DrainInv).                                            *)
(***************************************************************************)
EXTENDS Process, FiniteSetTheorems, TLAPS

\* The tickets that are at one of the stages S, if st gives their stages.
At(st, S) == {t \in Ticket : st[t] \in S}

\* The executions that hold a slot, and those that Wait waits for.
Slotted == {"run", "report", "slot"}
Waited == {"run", "report", "slot", "done"}

\* slots counts the executions from w.slots++ in the loop to w.slots-- in the
\* goroutine, and wg those from wg.Add to wg.Done.
Counts ==
    /\ slots = Cardinality(At(stage, Slotted)) + (IF loop = "counted" THEN 1 ELSE 0)
    /\ wg = Cardinality(At(stage, Waited))

\* Between the check of the slots and the increment nobody else takes one, and the
\* ticket in hand has not been started.
LoopInv ==
    /\ slots <= MaxConcurrent
    /\ loop \in {"commit", "won"} => slots < MaxConcurrent
    /\ \A t \in hand : stage[t] = "none"

\* When Wait has returned, every execution is over or late; and the result of one
\* that is past its report is in etcd, unless etcd failed the completion, it is late,
\* or Drain gave up.
DrainInv ==
    /\ main \in {"close", "closed", "exited"} /\ ~timedOut
       => \A t \in Ticket : stage[t] \in {"none", "over"} \/ t \in late
    /\ \A t \in Ticket : stage[t] \in {"slot", "done", "over"}
                         => t \in reports \cup lost \cup late \/ timedOut

-----------------------------------------------------------------------------
(* Counting *)

\* The executions at some stages can be counted.
LEMMA AtFinite ==
    ASSUME NEW st, NEW S
    PROVE  IsFiniteSet(At(st, S)) /\ Cardinality(At(st, S)) \in Nat
<1>1. At(st, S) \in SUBSET Ticket
  BY DEF At
<1>2. IsFiniteSet(At(st, S))
  BY <1>1, ProcessAssumption, FS_Subset
<1> QED
  BY <1>2, FS_CardinalityType

\* An execution moves among the stages S, or among the others: the count is the same.
LEMMA Stays ==
    ASSUME stage \in [Ticket -> Stage], NEW t \in Ticket, NEW s, NEW S,
           stage' = [stage EXCEPT ![t] = s], stage[t] \in S <=> s \in S
    PROVE  Cardinality(At(stage', S)) = Cardinality(At(stage, S))
<1>1. At(stage', S) = At(stage, S)
  BY DEF At
<1> QED
  BY <1>1

\* An execution comes to the stages S.
LEMMA Enters ==
    ASSUME stage \in [Ticket -> Stage], NEW t \in Ticket, NEW s, NEW S,
           stage' = [stage EXCEPT ![t] = s], stage[t] \notin S, s \in S
    PROVE  Cardinality(At(stage', S)) = Cardinality(At(stage, S)) + 1
<1>1. At(stage', S) = At(stage, S) \cup {t} /\ t \notin At(stage, S)
  BY DEF At
<1>2. IsFiniteSet(At(stage, S))
  BY AtFinite
<1> QED
  BY <1>1, <1>2, FS_AddElement

\* An execution leaves the stages S.
LEMMA Leaves ==
    ASSUME stage \in [Ticket -> Stage], NEW t \in Ticket, NEW s, NEW S,
           stage' = [stage EXCEPT ![t] = s], stage[t] \in S, s \notin S
    PROVE  Cardinality(At(stage', S)) = Cardinality(At(stage, S)) - 1
<1>1. At(stage', S) = At(stage, S) \ {t} /\ t \in At(stage, S)
  BY DEF At
<1>2. IsFiniteSet(At(stage, S))
  BY AtFinite
<1> QED
  BY <1>1, <1>2, FS_RemoveElement

\* An execution at a stage is counted there.
LEMMA Present ==
    ASSUME NEW st, NEW S, NEW t \in Ticket, st[t] \in S
    PROVE  Cardinality(At(st, S)) > 0
<1>1. At(st, S) # {}
  BY DEF At
<1> QED
  BY <1>1, AtFinite, FS_EmptySet

\* Which stages count.
LEMMA Stages ==
    /\ "run" \in Slotted /\ "report" \in Slotted /\ "slot" \in Slotted
    /\ "none" \notin Slotted /\ "done" \notin Slotted
    /\ "run" \in Waited /\ "report" \in Waited /\ "slot" \in Waited /\ "done" \in Waited
    /\ "none" \notin Waited /\ "over" \notin Waited /\ "over" \notin Slotted
BY DEF Slotted, Waited

-----------------------------------------------------------------------------
(* The limit *)

\* The inductive invariant of the two counters.
LimitInv == TypeOK /\ Counts /\ LoopInv

\* A step of an execution changes its stage and the counters, and nothing the loop
\* has in hand.
LEMMA CountsExecute ==
    ASSUME LimitInv, NEW t \in Ticket, ExecuteStep(t)
    PROVE  /\ slots' \in Nat /\ wg' \in Nat /\ slots' <= slots
           /\ Counts'
<1> USE DEF mainVars, workerVars, commandVars, etcdVars, bookVars
<1>0. /\ stage \in [Ticket -> Stage] /\ slots \in Nat /\ wg \in Nat
      /\ slots = Cardinality(At(stage, Slotted)) + (IF loop = "counted" THEN 1 ELSE 0)
      /\ wg = Cardinality(At(stage, Waited))
      /\ Cardinality(At(stage, Slotted)) \in Nat /\ Cardinality(At(stage, Waited)) \in Nat
  BY AtFinite DEF LimitInv, TypeOK, Counts
<1>1. ASSUME NEW s, s \in Slotted, s \in Waited, stage[t] \in Slotted, stage[t] \in Waited,
             stage' = [stage EXCEPT ![t] = s], UNCHANGED workerVars
      PROVE  /\ slots' \in Nat /\ wg' \in Nat /\ slots' <= slots
             /\ Counts'
  <2>1. Cardinality(At(stage', Slotted)) = Cardinality(At(stage, Slotted))
    BY <1>0, <1>1, Stays
  <2>2. Cardinality(At(stage', Waited)) = Cardinality(At(stage, Waited))
    BY <1>0, <1>1, Stays
  <2> QED
    BY <1>0, <1>1, <2>1, <2>2 DEF Counts
<1>2. CASE RunReturns(t) \/ Report(t) \/ ReportError(t)
  BY <1>1, <1>2, Stages DEF RunReturns, Report, ReportError, Complete
<1>3. CASE FreeSlot(t)
  <2>0. stage[t] = "slot" /\ stage' = [stage EXCEPT ![t] = "done"]
    BY <1>3 DEF FreeSlot
  <2>1. Cardinality(At(stage', Slotted)) = Cardinality(At(stage, Slotted)) - 1
    BY <1>0, <2>0, Leaves, Stages
  <2>2. Cardinality(At(stage', Waited)) = Cardinality(At(stage, Waited))
    BY <1>0, <2>0, Stays, Stages
  <2>3. Cardinality(At(stage, Slotted)) > 0
    BY <1>3, Present, Stages DEF FreeSlot
  <2>4. slots' = slots - 1 /\ wg' = wg /\ loop' = loop
    BY <1>3 DEF FreeSlot
  <2> QED
    BY <1>0, <2>1, <2>2, <2>3, <2>4 DEF Counts
<1>4. CASE WgDone(t)
  <2>0. stage[t] = "done" /\ stage' = [stage EXCEPT ![t] = "over"]
    BY <1>4 DEF WgDone
  <2>1. Cardinality(At(stage', Slotted)) = Cardinality(At(stage, Slotted))
    BY <1>0, <2>0, Stays, Stages
  <2>2. Cardinality(At(stage', Waited)) = Cardinality(At(stage, Waited)) - 1
    BY <1>0, <2>0, Leaves, Stages
  <2>3. Cardinality(At(stage, Waited)) > 0
    BY <1>4, Present, Stages DEF WgDone
  <2>4. wg' = wg - 1 /\ slots' = slots /\ loop' = loop
    BY <1>4 DEF WgDone
  <2> QED
    BY <1>0, <2>1, <2>2, <2>3, <2>4 DEF Counts
<1> QED
  BY <1>2, <1>3, <1>4 DEF ExecuteStep

\* A step of the loop takes a slot when it has checked that one is free, and a step
\* later an execution stands for it.
LEMMA CountsLoop ==
    ASSUME LimitInv, LoopStep
    PROVE  /\ slots' \in Nat /\ wg' \in Nat
           /\ Counts' /\ LoopInv'
<1> USE DEF mainVars, workerVars, commandVars, etcdVars, bookVars
<1>0. /\ stage \in [Ticket -> Stage] /\ slots \in Nat /\ wg \in Nat /\ MaxConcurrent \in Nat
      /\ slots = Cardinality(At(stage, Slotted)) + (IF loop = "counted" THEN 1 ELSE 0)
      /\ wg = Cardinality(At(stage, Waited))
      /\ Cardinality(At(stage, Slotted)) \in Nat /\ Cardinality(At(stage, Waited)) \in Nat
  BY AtFinite, ProcessAssumption DEF LimitInv, TypeOK, Counts
<1>1. LoopInv
  BY DEF LimitInv
<1>2. ASSUME stage' = stage
      PROVE  Cardinality(At(stage', Slotted)) = Cardinality(At(stage, Slotted))
             /\ Cardinality(At(stage', Waited)) = Cardinality(At(stage, Waited))
  BY <1>2 DEF At, Slotted, Waited
<1>3. ASSUME NEW t \in Ticket, TryClaim(t)
      PROVE  slots' \in Nat /\ wg' \in Nat /\ Counts' /\ LoopInv'
  BY <1>0, <1>1, <1>2, <1>3 DEF TryClaim, Counts, LoopInv
<1>4. CASE ClaimWon \/ ClaimLost \/ ClaimPanic \/ LoopStops
  BY <1>0, <1>1, <1>2, <1>4 DEF ClaimWon, ClaimLost, ClaimPanic, LoopStops, Counts, LoopInv
<1>5. CASE CountSlot
  BY <1>0, <1>1, <1>2, <1>5 DEF CountSlot, Counted, Counts, LoopInv
<1>6. ASSUME NEW t \in Ticket, Spawn(t)
      PROVE  slots' \in Nat /\ wg' \in Nat /\ Counts' /\ LoopInv'
  <2>1. stage[t] = "none" /\ stage' = [stage EXCEPT ![t] = "run"]
    BY <1>1, <1>6 DEF Spawn, LoopInv
  <2>2. Cardinality(At(stage', Slotted)) = Cardinality(At(stage, Slotted)) + 1
    BY <1>0, <2>1, Enters, Stages
  <2>3. Cardinality(At(stage', Waited)) = Cardinality(At(stage, Waited)) + 1
    BY <1>0, <2>1, Enters, Stages
  <2>4. loop = "counted" /\ loop' = "idle" /\ slots' = slots /\ wg' = wg + 1 /\ hand' = {}
    BY <1>6 DEF Spawn
  <2> QED
    BY <1>0, <1>1, <2>2, <2>3, <2>4 DEF Counts, LoopInv
<1> QED
  BY <1>3, <1>4, <1>5, <1>6 DEF LoopStep

\* Every step keeps the counters right and within the limit.
LEMMA LimitStep ==
    ASSUME LimitInv, [Next]_vars
    PROVE  LimitInv'
<1> USE DEF mainVars, workerVars, commandVars, etcdVars, bookVars
<1>0. TypeOK /\ Counts /\ LoopInv
  BY DEF LimitInv
<1>1. ASSUME UNCHANGED <<workerVars, stage>> PROVE Counts' /\ LoopInv'
  BY <1>0, <1>1 DEF Counts, LoopInv, At, Slotted, Waited
<1>2. CASE LoopStep
  <2>1. slots' \in Nat /\ wg' \in Nat /\ Counts' /\ LoopInv'
    BY <1>2, CountsLoop
  <2>2. TypeOK'
    <3>1. ASSUME NEW t \in Ticket, TryClaim(t) PROVE TypeOK'
      BY <1>0, <3>1 DEF TryClaim, TypeOK, Loop
    <3>2. CASE ClaimWon \/ ClaimLost \/ ClaimPanic \/ CountSlot \/ LoopStops
      BY <1>0, <2>1, <3>2
      DEF ClaimWon, ClaimLost, ClaimPanic, CountSlot, LoopStops, TypeOK, Loop, Main
    <3>3. ASSUME NEW t \in Ticket, Spawn(t) PROVE TypeOK'
      BY <1>0, <2>1, <3>3 DEF Spawn, TypeOK, Loop, Stage, Shell
    <3> QED
      BY <1>2, <3>1, <3>2, <3>3 DEF LoopStep
  <2> QED
    BY <2>1, <2>2 DEF LimitInv
<1>3. ASSUME NEW t \in Ticket, ExecuteStep(t) PROVE LimitInv'
  <2>1. slots' \in Nat /\ wg' \in Nat /\ slots' <= slots /\ Counts'
    BY <1>3, CountsExecute
  <2>2. stage[t] # "none" /\ hand' = hand /\ loop' = loop
        /\ \A u \in Ticket : u # t => stage'[u] = stage[u]
    BY <1>0, <1>3 DEF ExecuteStep, RunReturns, Report, ReportError,
       Complete, FreeSlot, WgDone, TypeOK
  <2>3. LoopInv'
    BY <1>0, <2>1, <2>2, ProcessAssumption DEF LoopInv, TypeOK
  <2>4. TypeOK'
    BY <1>0, <1>3, <2>1 DEF ExecuteStep, RunReturns, Report, ReportError, Complete,
       FreeSlot, WgDone, TypeOK, Stage, Outcome
  <2> QED
    BY <2>1, <2>3, <2>4 DEF LimitInv
<1>4. ASSUME NEW t \in Ticket, Deadline(t) \/ PipesClose(t) PROVE LimitInv'
  <2>1. TypeOK'
    BY <1>0, <1>4 DEF Deadline, PipesClose, Killed, TypeOK, Shell
  <2> QED
    BY <1>1, <1>4, <2>1 DEF Deadline, PipesClose, LimitInv
<1>5. ASSUME NEW t \in Ticket, NEW how \in {"ok", "error"}, ShellExits(t, how) PROVE LimitInv'
  <2>1. TypeOK'
    BY <1>0, <1>5 DEF ShellExits, TypeOK, Shell
  <2> QED
    BY <1>1, <1>5, <2>1 DEF ShellExits, LimitInv
<1>6. CASE MainStep \/ Cancel \/ LeaseExpires
  <2>1. TypeOK'
    BY <1>0, <1>6 DEF MainStep, StopServing, DrainDone, DrainTimeout, Close, Exit, Cancel,
       LeaseExpires, TypeOK, Main
  <2> QED
    BY <1>1, <1>6, <2>1 DEF MainStep, StopServing, DrainDone, DrainTimeout, Close, Exit,
       Cancel, LeaseExpires, LimitInv
<1>7. CASE UNCHANGED vars
  BY <1>0, <1>1, <1>7 DEF vars, TypeOK, LimitInv
<1> QED
  BY <1>2, <1>3, <1>4, <1>5, <1>6, <1>7 DEF Next

\* The counters are right and within the limit in every reachable state.
LEMMA Limit == Spec => []LimitInv
<1>1. Init => LimitInv
  <2>1. ASSUME Init PROVE Cardinality(At(stage, Slotted)) = 0 /\ Cardinality(At(stage, Waited)) = 0
    <3>1. At(stage, Slotted) = {} /\ At(stage, Waited) = {}
      BY <2>1 DEF Init, At, Slotted, Waited
    <3> QED
      BY <3>1, FS_EmptySet
  <2>2. ASSUME Init PROVE TypeOK
    BY <2>2 DEF Init, TypeOK, Main, Loop, Stage, Shell, Outcome
  <2>3. ASSUME Init PROVE Counts
    <3>1. slots = 0 /\ wg = 0 /\ loop = "idle"
      BY <2>3 DEF Init
    <3> QED
      BY <2>1, <2>3, <3>1 DEF Counts
  <2>4. Init => LoopInv
    BY ProcessAssumption DEF Init, LoopInv
  <2> QED
    BY <2>2, <2>3, <2>4 DEF LimitInv
<1>2. LimitInv /\ [Next]_vars => LimitInv'
  BY LimitStep
<1> QED
  BY <1>1, <1>2, PTL DEF Spec

\* Every variable of a process keeps its type: in particular neither w.slots nor the
\* counter of the wait group, which panics, ever falls below zero.
THEOREM ProcessTypeCorrect == Spec => []TypeOK
<1>1. LimitInv => TypeOK
  BY DEF LimitInv
<1> QED
  BY <1>1, Limit, PTL

\* For any max_concurrent and any number of tickets, no more commands run at once
\* than max_concurrent allows, although the loop checks the slots in one critical
\* section and takes one in another.
THEOREM LimitHolds == Spec => []RunsWithinLimit
<1>1. ASSUME LimitInv PROVE RunsWithinLimit
  <2>1. {t \in Ticket : stage[t] = "run"} \in SUBSET At(stage, Slotted)
    BY DEF At, Slotted
  <2>2. IsFiniteSet(At(stage, Slotted)) /\ Cardinality(At(stage, Slotted)) \in Nat
    BY AtFinite
  <2>3. /\ IsFiniteSet({t \in Ticket : stage[t] = "run"})
        /\ Cardinality({t \in Ticket : stage[t] = "run"}) <= Cardinality(At(stage, Slotted))
    BY <2>1, <2>2, FS_Subset
  <2>4. Cardinality({t \in Ticket : stage[t] = "run"}) \in Nat
    BY <2>3, FS_CardinalityType
  <2>5. Cardinality(At(stage, Slotted)) <= slots /\ slots <= MaxConcurrent /\ slots \in Nat
    BY <1>1, <2>2 DEF LimitInv, Counts, LoopInv, TypeOK
  <2> QED
    BY <2>2, <2>3, <2>4, <2>5, ProcessAssumption DEF RunsWithinLimit
<1> QED
  BY <1>1, Limit, PTL

-----------------------------------------------------------------------------
(* The promise of Drain *)

\* Wait returns when no execution is under way.
LEMMA DrainedMeansOver ==
    ASSUME LimitInv, Drained
    PROVE  \A t \in Ticket : stage[t] \in {"none", "over"}
<1>1. ASSUME NEW t \in Ticket PROVE stage[t] \notin Waited
  <2>1. Cardinality(At(stage, Waited)) = 0
    BY DEF LimitInv, Counts, Drained
  <2> QED
    BY <2>1, Present
<1> QED
  BY <1>1 DEF Waited, LimitInv, TypeOK, Stage

\* Every step keeps the promise.
LEMMA DrainStep ==
    ASSUME LimitInv, DrainInv, [Next]_vars
    PROVE  DrainInv'
<1> USE DEF mainVars, workerVars, commandVars, etcdVars, bookVars
<1>0. TypeOK
  BY DEF LimitInv
<1>1. CASE UNCHANGED <<mainVars, stage, reports, bookVars>>
  BY <1>1 DEF DrainInv
<1>2. CASE LoopStep
  <2>1. CASE ClaimPanic
    BY <2>1 DEF ClaimPanic, DrainInv
  <2>2. ASSUME NEW t \in Ticket, Spawn(t) PROVE DrainInv'
    BY <1>0, <2>2 DEF Spawn, DrainInv, TypeOK, Main
  <2> QED
    BY <1>1, <1>2, <2>1, <2>2 DEF LoopStep, TryClaim, ClaimWon, ClaimLost, CountSlot, LoopStops
<1>3. ASSUME NEW t \in Ticket, ExecuteStep(t) PROVE DrainInv'
  <2>1. CASE RunReturns(t)
    BY <1>0, <2>1 DEF RunReturns, DrainInv, TypeOK
  <2>2. CASE Report(t)
    BY <1>0, <2>2 DEF Report, Complete, DrainInv, TypeOK
  <2>3. CASE ReportError(t)
    BY <1>0, <2>3 DEF ReportError, Complete, DrainInv, TypeOK
  <2>4. CASE FreeSlot(t)
    BY <1>0, <2>4 DEF FreeSlot, DrainInv, TypeOK
  <2>5. CASE WgDone(t)
    BY <1>0, <2>5 DEF WgDone, DrainInv, TypeOK
  <2> QED
    BY <1>3, <2>1, <2>2, <2>3, <2>4, <2>5 DEF ExecuteStep
<1>4. ASSUME NEW t \in Ticket, Deadline(t) \/ PipesClose(t) PROVE DrainInv'
  BY <1>1, <1>4 DEF Deadline, PipesClose
<1>5. ASSUME NEW t \in Ticket, NEW how \in {"ok", "error"}, ShellExits(t, how) PROVE DrainInv'
  BY <1>1, <1>5 DEF ShellExits
<1>6. CASE DrainDone
  BY <1>6, DrainedMeansOver DEF DrainDone, DrainInv
<1>7. CASE StopServing \/ DrainTimeout \/ Close \/ Exit \/ Cancel \/ LeaseExpires
  BY <1>7 DEF StopServing, DrainTimeout, Close, Exit, Cancel, LeaseExpires, DrainInv
<1>8. CASE UNCHANGED vars
  BY <1>1, <1>8 DEF vars
<1> QED
  BY <1>2, <1>3, <1>4, <1>5, <1>6, <1>7, <1>8 DEF Next, MainStep

\* For any number of executions in flight and whatever the shells and their children
\* do: when the process exits and Drain did not give up, every execution that had
\* started before Wait returned is over, and its result is in etcd unless etcd failed
\* the completion (DrainKeepsPromise).  The closed client has taken none from it.
THEOREM DrainIsKept == Spec => []DrainKeepsPromise
<1>1. Init => DrainInv
  BY DEF Init, DrainInv
<1>2. LimitInv /\ DrainInv /\ [Next]_vars => DrainInv'
  BY DrainStep
<1>3. LimitInv /\ DrainInv => DrainKeepsPromise
  BY DEF LimitInv, TypeOK, Stage, DrainInv, DrainKeepsPromise
<1> QED
  BY <1>1, <1>2, <1>3, Limit, PTL DEF Spec
=============================================================================
