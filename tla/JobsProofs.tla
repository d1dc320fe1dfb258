----------------------------- MODULE JobsProofs -----------------------------
(***************************************************************************)
(* Proofs about Jobs, for any number of callers, tries and jobs.           *)
(***************************************************************************)
EXTENDS Jobs, FiniteSetTheorems, TLAPS

\* A call that is about to put a job has the job in hand, a Create that goes on
\* has tries left, and the IDs that were given out are finitely many.
CallsTyped ==
    /\ \A c \in Client :
           /\ pc[c] = "put" => draft[c] \in Draft
           /\ pc[c] \in {"read", "commit"} => attempt[c] < MaxAttempts
    /\ IsFiniteSet(created)

\* What a committed Create leaves typed.
LEMMA CreateTxnType ==
    ASSUME TypeOK, CallsTyped, NEW c \in Client, NEW v \in Content, read[c] < MaxId,
           CreateTxn(c, v)
    PROVE  /\ counter' \in Nat
           /\ IsKeySpace(jobs', Id, Job)
           /\ created' \subseteq Id \X Client \X Nat
           /\ IsFiniteSet(created')
<1>1. read[c] + 1 \in Id
  BY JobsAssumption DEF TypeOK, Id
<1>2. calls[c] \in Nat /\ read[c] \in Nat
  BY DEF TypeOK
<1>3. IsFiniteSet(created \cup {<<read[c] + 1, c, calls[c]>>})
  BY FS_AddElement DEF CallsTyped
<1>4. IsKeySpace(jobs', Id, Job)
  <2>1. [content |-> v, enabled |-> TRUE] \in Job
    BY DEF Job
  <2> QED
    BY <1>1, <2>1 DEF CreateTxn, TypeOK, IsKeySpace, Put
<1> QED
  BY <1>1, <1>2, <1>3, <1>4 DEF CreateTxn, TypeOK

\* Every step keeps the types.
LEMMA TypeStep ==
    ASSUME TypeOK, CallsTyped, [Next]_vars
    PROVE  TypeOK' /\ CallsTyped'
<1> USE DEF PC
<1>1. ASSUME NEW c \in Client, CreateStep(c) PROVE TypeOK' /\ CallsTyped'
  <2>1. CASE CreateStart(c)
    <3>1. Cardinality(created) \in Nat
      BY FS_CardinalityType DEF CallsTyped
    <3> QED
      BY <2>1, <3>1, JobsAssumption DEF CreateStart, Call, Goto, TypeOK, CallsTyped
  <2>2. CASE ReadCounter(c)
    BY <2>2 DEF ReadCounter, Goto, TypeOK, CallsTyped
  <2>3. CASE CreateConflict(c)
    BY <2>3, JobsAssumption DEF CreateConflict, Goto, TypeOK, CallsTyped
  <2>4. CASE CreateContention(c)
    BY <2>4 DEF CreateContention, Return, Goto, TypeOK, CallsTyped
  <2>5. ASSUME NEW v \in Content, read[c] < MaxId, CreateTxn(c, v), Return(c),
               UNCHANGED <<read, attempt, calls, before>>
        PROVE  TypeOK' /\ CallsTyped'
    BY <2>5, CreateTxnType DEF Return, Goto, TypeOK, CallsTyped
  <2>6. CASE CreateError(c)
    <3>1. CASE UNCHANGED <<counter, jobs, created>>
      BY <2>6, <3>1 DEF CreateError, Return, Goto, TypeOK, CallsTyped
    <3> QED
      BY <2>5, <2>6, <3>1 DEF CreateError
  <2>7. ASSUME NEW v \in Content, CreateCommit(c, v) PROVE TypeOK' /\ CallsTyped'
    BY <2>5, <2>7 DEF CreateCommit
  <2> QED
    BY <1>1, <2>1, <2>2, <2>3, <2>4, <2>6, <2>7 DEF CreateStep
<1>2. ASSUME NEW c \in Client, PutDraft(c) PROVE TypeOK' /\ CallsTyped'
  <2>1. draft[c] \in Draft
    BY <1>2 DEF PutDraft, CallsTyped
  <2>2. IsKeySpace(jobs', Id, Job)
    BY <1>2, <2>1 DEF PutDraft, Draft, TypeOK, IsKeySpace, Put
  <2> QED
    BY <1>2, <2>2 DEF PutDraft, Return, Goto, TypeOK, CallsTyped
<1>3. ASSUME NEW c \in Client, PutError(c) PROVE TypeOK' /\ CallsTyped'
  BY <1>3 DEF PutError, Return, Goto, TypeOK, CallsTyped
<1>4. ASSUME NEW c \in Client, NEW i \in Id, DeleteJob(c, i) PROVE TypeOK' /\ CallsTyped'
  <2>1. IsKeySpace(jobs', Id, Job)
    BY <1>4 DEF DeleteJob, TypeOK, IsKeySpace, Delete
  <2> QED
    BY <1>4, <2>1 DEF DeleteJob, TypeOK, CallsTyped
<1>5. ASSUME NEW c \in Client, NEW d \in Draft, Call(c, "put"),
             draft' = [draft EXCEPT ![c] = d],
             UNCHANGED <<counter, jobs, read, attempt, created, before>>
      PROVE  TypeOK' /\ CallsTyped'
  BY <1>5 DEF Call, Goto, TypeOK, CallsTyped
<1>6. ASSUME NEW c \in Client, NEW i \in Id, NEW j \in Job, UpdateRead(c, i, j)
      PROVE  TypeOK' /\ CallsTyped'
  BY <1>5, <1>6 DEF UpdateRead, Draft
<1>7. ASSUME NEW c \in Client, NEW i \in Id, NEW e \in BOOLEAN, SetEnabledRead(c, i, e)
      PROVE  TypeOK' /\ CallsTyped'
  <2>1. jobs[i] \in Job
    BY <1>7 DEF SetEnabledRead, TypeOK, IsKeySpace
  <2>2. [id |-> i, job |-> [jobs[i] EXCEPT !.enabled = e]] \in Draft
    BY <2>1 DEF Draft, Job
  <2> QED
    BY <1>5, <1>7, <2>2 DEF SetEnabledRead
<1>8. CASE UNCHANGED vars
  BY <1>8 DEF vars, TypeOK, CallsTyped
<1> QED
  BY <1>1, <1>2, <1>3, <1>4, <1>6, <1>7, <1>8 DEF Next

\* Every reachable state of the repository is typed.
THEOREM JobsTypeCorrect == Spec => [](TypeOK /\ CallsTyped)
<1>1. Init => TypeOK /\ CallsTyped
  BY FS_EmptySet, JobsAssumption DEF Init, TypeOK, CallsTyped, PC, IsKeySpace, NoKeys
<1>2. TypeOK /\ CallsTyped /\ [Next]_vars => TypeOK' /\ CallsTyped'
  BY TypeStep
<1> QED
  BY <1>1, <1>2, PTL DEF Spec

-----------------------------------------------------------------------------
(* The counter *)

\* The counter is the number of IDs given out and covers them all; nothing that
\* was read is above it; and a Create has been passed by others as often as it
\* failed: before it read the counter again, or up to what it read.
CounterInv ==
    /\ Cardinality(created) = counter
    /\ \A x \in created : x[1] <= counter
    /\ IdsAreUnique
    /\ CounterCoversJobs
    /\ \A c \in Client :
           /\ pc[c] = "read" => counter - before[c] >= attempt[c]
           /\ pc[c] = "commit" => read[c] <= counter /\ read[c] - before[c] >= attempt[c]
           /\ pc[c] = "contention" => counter - before[c] >= MaxAttempts

\* A committed Create gives out a new ID, the next one.
LEMMA CreateTxnCounts ==
    ASSUME TypeOK, CallsTyped, CounterInv, NEW c \in Client, NEW v \in Content,
           CounterUnchanged(c), read[c] < MaxId, CreateTxn(c, v)
    PROVE  /\ counter' = counter + 1
           /\ Cardinality(created') = counter'
           /\ \A x \in created' : x[1] <= counter'
           /\ IdsAreUnique'
           /\ DOMAIN jobs' = DOMAIN jobs \cup {counter + 1}
<1> DEFINE new == <<counter + 1, c, calls[c]>>
<1>1. counter \in Nat /\ counter' = counter + 1 /\ created' = created \cup {new}
  BY DEF CounterUnchanged, CreateTxn, TypeOK
<1>2. \A x \in created : x[1] \in Nat /\ x[1] <= counter
  BY DEF CounterInv, TypeOK, Id
<1>3. new[1] = counter + 1
  OBVIOUS
<1>4. new \notin created
  BY <1>1, <1>2, <1>3
<1>5. Cardinality(created') = counter'
  BY <1>1, <1>4, FS_AddElement DEF CounterInv, CallsTyped
<1>6. \A x \in created' : x[1] <= counter'
  BY <1>1, <1>2, <1>3
<1>7. IdsAreUnique'
  BY <1>1, <1>2, <1>3 DEF CounterInv, IdsAreUnique
<1>8. DOMAIN jobs' = DOMAIN jobs \cup {counter + 1}
  BY DEF CreateTxn, CounterUnchanged, Put
<1> QED
  BY <1>1, <1>5, <1>6, <1>7, <1>8

\* Every step keeps the counter's invariant.
LEMMA CounterStep ==
    ASSUME TypeOK, CallsTyped, CounterInv, [Next]_vars
    PROVE  CounterInv'
<1>0. counter \in Nat /\ MaxAttempts \in Nat
  BY JobsAssumption DEF TypeOK
\* A step of c that gives out no ID and leaves it where nothing is asked of it.
<1>1. ASSUME NEW c \in Client, UNCHANGED <<counter, created>>, CounterCoversJobs',
             pc'[c] \in {"idle", "put"},
             \A b \in Client : b # c => pc'[b] = pc[b],
             UNCHANGED <<read, attempt, before>>
      PROVE  CounterInv'
  BY <1>1 DEF CounterInv, IdsAreUnique
<1>2. ASSUME NEW c \in Client, Return(c), UNCHANGED <<counter, jobs>> PROVE CounterCoversJobs'
  BY <1>2 DEF Return, CounterCoversJobs, CounterInv, TypeOK
<1>3. ASSUME NEW c \in Client, CreateStep(c) PROVE CounterInv'
  <2>1. CASE CreateStart(c)
    <3>1. /\ pc'[c] = "read" /\ attempt'[c] = 0 /\ before'[c] = counter
          /\ \A b \in Client : b # c => /\ pc'[b] = pc[b] /\ attempt'[b] = attempt[b]
                                          /\ before'[b] = before[b]
          /\ UNCHANGED <<counter, jobs, read, draft, created>>
      BY <2>1 DEF CreateStart, Call, Goto, TypeOK, CounterInv
    <3> QED
      BY <1>0, <3>1 DEF CounterInv, IdsAreUnique, CounterCoversJobs
  <2>2. CASE ReadCounter(c)
    <3>1. /\ pc[c] = "read" /\ pc'[c] = "commit" /\ read'[c] = counter
          /\ \A b \in Client : b # c => pc'[b] = pc[b] /\ read'[b] = read[b]
          /\ UNCHANGED <<counter, jobs, attempt, draft, before, created>>
      BY <2>2 DEF ReadCounter, Goto, TypeOK
    <3> QED
      BY <1>0, <3>1 DEF CounterInv, IdsAreUnique, CounterCoversJobs
  <2>3. CASE CreateConflict(c)
    <3>1. /\ pc[c] = "commit" /\ pc'[c] \in {"read", "contention"}
          /\ pc'[c] = "contention" => attempt'[c] >= MaxAttempts
          /\ read[c] # counter /\ attempt'[c] = attempt[c] + 1
          /\ \A b \in Client : b # c => pc'[b] = pc[b] /\ attempt'[b] = attempt[b]
          /\ UNCHANGED <<counter, jobs, read, draft, before, created>>
      BY <2>3, JobsAssumption DEF CreateConflict, CounterUnchanged, Goto, TypeOK
    <3>2. /\ read[c] \in Nat /\ before[c] \in Nat /\ attempt[c] \in Nat
          /\ read[c] <= counter /\ read[c] - before[c] >= attempt[c]
      BY <3>1, JobsAssumption DEF TypeOK, CounterInv
    <3>3. counter - before[c] >= attempt'[c]
      BY <1>0, <3>1, <3>2
    <3>4. pc'[c] = "contention" => counter - before[c] >= MaxAttempts
      BY <1>0, <3>1, <3>2, <3>3
    <3> QED
      BY <1>0, <3>1, <3>3, <3>4 DEF CounterInv, IdsAreUnique, CounterCoversJobs
  <2>4. CASE CreateContention(c)
    BY <1>1, <1>2, <2>4 DEF CreateContention, Return, Goto, TypeOK
  <2>5. ASSUME NEW v \in Content, CounterUnchanged(c), read[c] < MaxId, CreateTxn(c, v),
               Return(c), UNCHANGED <<read, attempt, before>>
        PROVE  CounterInv'
    <3>1. /\ counter' = counter + 1
          /\ Cardinality(created') = counter'
          /\ \A x \in created' : x[1] <= counter'
          /\ IdsAreUnique'
          /\ DOMAIN jobs' = DOMAIN jobs \cup {counter + 1}
      BY <2>5, CreateTxnCounts
    <3>2. /\ pc'[c] = "idle" /\ \A b \in Client : b # c => pc'[b] = pc[b]
          /\ \A b \in Client : draft'[b] = draft[b] \/ draft'[b] = NoDraft
      BY <2>5 DEF Return, Goto, TypeOK
    <3>3. CounterCoversJobs'
      <4>1. \A i \in DOMAIN jobs : i \in Nat /\ i <= counter
        BY DEF CounterInv, CounterCoversJobs, TypeOK, IsKeySpace, Id
      <4>2. \A b \in Client : draft[b] # NoDraft =>
                draft[b].id \in Nat /\ draft[b].id <= counter
        BY DEF CounterInv, CounterCoversJobs, TypeOK, Draft, Id
      <4> QED
        BY <1>0, <3>1, <3>2, <4>1, <4>2 DEF CounterCoversJobs
    <3>4. \A b \in Client : read[b] \in Nat /\ attempt[b] \in Nat /\ before[b] \in Nat
      BY JobsAssumption DEF TypeOK
    <3>5. \A b \in Client :
              /\ pc'[b] = "read" => counter' - before'[b] >= attempt'[b]
              /\ pc'[b] = "commit" =>
                     read'[b] <= counter' /\ read'[b] - before'[b] >= attempt'[b]
              /\ pc'[b] = "contention" => counter' - before'[b] >= MaxAttempts
      BY <1>0, <2>5, <3>1, <3>2, <3>4 DEF CounterInv
    <3> QED
      BY <3>1, <3>3, <3>5 DEF CounterInv
  <2>6. CASE CreateError(c)
    <3>1. CASE UNCHANGED <<counter, jobs, created>>
      BY <1>1, <1>2, <2>6, <3>1 DEF CreateError, Return, Goto, TypeOK
    <3> QED
      BY <2>5, <2>6, <3>1 DEF CreateError
  <2>7. ASSUME NEW v \in Content, CreateCommit(c, v) PROVE CounterInv'
    BY <2>5, <2>7 DEF CreateCommit
  <2> QED
    BY <1>3, <2>1, <2>2, <2>3, <2>4, <2>6, <2>7 DEF CreateStep
<1>4. ASSUME NEW c \in Client, PutDraft(c) PROVE CounterInv'
  <2>1. draft[c] # NoDraft /\ draft[c].id <= counter
    <3>1. draft[c] \in Draft
      BY <1>4 DEF PutDraft, CallsTyped
    <3>2. draft[c].id # 0
      BY <3>1 DEF Draft, Id
    <3>3. draft[c] # NoDraft
      BY <3>2 DEF NoDraft
    <3> QED
      BY <3>3 DEF CounterInv, CounterCoversJobs
  <2>2. DOMAIN jobs' = DOMAIN jobs \cup {draft[c].id}
    BY <1>4 DEF PutDraft, Put
  <2>3. CounterCoversJobs'
    BY <1>4, <2>1, <2>2 DEF PutDraft, Return, CounterInv, CounterCoversJobs, TypeOK
  <2> QED
    BY <1>1, <1>4, <2>3 DEF PutDraft, Return, Goto, TypeOK
<1>5. ASSUME NEW c \in Client, PutError(c) PROVE CounterInv'
  BY <1>1, <1>2, <1>5 DEF PutError, Return, Goto, TypeOK
<1>6. ASSUME NEW c \in Client, NEW i \in Id, DeleteJob(c, i) PROVE CounterInv'
  BY <1>6 DEF DeleteJob, Delete, CounterInv, IdsAreUnique, CounterCoversJobs
<1>7. ASSUME NEW c \in Client, NEW i \in DOMAIN jobs, NEW j,
             Call(c, "put"), draft' = [draft EXCEPT ![c] = [id |-> i, job |-> j]],
             UNCHANGED <<counter, jobs, read, attempt, created, before>>
      PROVE  CounterInv'
  <2>1. CounterCoversJobs'
    BY <1>7 DEF CounterInv, CounterCoversJobs, TypeOK
  <2> QED
    BY <1>1, <1>7, <2>1 DEF Call, Goto, TypeOK
<1>8. ASSUME NEW c \in Client, NEW i \in Id, NEW j \in Job, UpdateRead(c, i, j)
      PROVE  CounterInv'
  BY <1>7, <1>8 DEF UpdateRead
<1>9. ASSUME NEW c \in Client, NEW i \in Id, NEW e \in BOOLEAN, SetEnabledRead(c, i, e)
      PROVE  CounterInv'
  BY <1>7, <1>9 DEF SetEnabledRead
<1>10. CASE UNCHANGED vars
  BY <1>10 DEF vars, CounterInv, IdsAreUnique, CounterCoversJobs
<1> QED
  BY <1>3, <1>4, <1>5, <1>6, <1>8, <1>9, <1>10 DEF Next

\* The inductive invariant holds in every reachable state.
LEMMA Counter == Spec => []CounterInv
<1>1. Init => CounterInv
  BY FS_EmptySet DEF Init, CounterInv, IdsAreUnique, CounterCoversJobs, NoKeys
<1>2. TypeOK /\ CallsTyped /\ CounterInv /\ [Next]_vars => CounterInv'
  BY CounterStep
<1> QED
  BY <1>1, <1>2, JobsTypeCorrect, PTL DEF Spec

\* For any number of callers, whatever calls fail: no ID is given out twice, and
\* no job has an ID that a later Create will give out.
THEOREM IdsStayUnique == Spec => [](IdsAreUnique /\ CounterCoversJobs)
<1>1. CounterInv => IdsAreUnique /\ CounterCoversJobs
  BY DEF CounterInv
<1> QED
  BY <1>1, Counter, PTL

\* In the same generality Create reports contention only if at least MaxAttempts
\* others got through meanwhile.
THEOREM ContentionIsProgress == Spec => []ContentionMeansProgress
<1>1. CounterInv => ContentionMeansProgress
  BY DEF CounterInv, ContentionMeansProgress
<1> QED
  BY <1>1, Counter, PTL
=============================================================================
