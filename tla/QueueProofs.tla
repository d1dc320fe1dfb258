---------------------------- MODULE QueueProofs ----------------------------
(***************************************************************************)
(* Proofs about Queue, for any number of nodes, tickets, jobs and retries. *)
(***************************************************************************)
EXTENDS QueueDelivery, TLAPS

-----------------------------------------------------------------------------
(* The operations on a prefix *)

\* What a put leaves under the prefix: the key with its new value, and the
\* other keys as they were.
LEMMA PutFacts ==
    ASSUME NEW kv, NEW k, NEW v
    PROVE  /\ DOMAIN Put(kv, k, v) = DOMAIN kv \cup {k}
           /\ Put(kv, k, v)[k] = v
           /\ \A x \in DOMAIN kv : x # k => Put(kv, k, v)[x] = kv[x]
BY DEF Put

\* A put of a key and a value of the prefix's types keeps the prefix typed.
LEMMA PutType ==
    ASSUME NEW K, NEW V, NEW kv, IsKeySpace(kv, K, V), NEW k \in K, NEW v \in V
    PROVE  IsKeySpace(Put(kv, k, v), K, V)
BY DEF IsKeySpace, Put

\* What a delete leaves under the prefix: the other keys as they were.
LEMMA DeleteFacts ==
    ASSUME NEW kv, NEW ks
    PROVE  /\ DOMAIN Delete(kv, ks) = DOMAIN kv \ ks
           /\ \A x \in DOMAIN kv \ ks : Delete(kv, ks)[x] = kv[x]
BY DEF Delete

\* A delete keeps the prefix typed.
LEMMA DeleteType ==
    ASSUME NEW K, NEW V, NEW kv, IsKeySpace(kv, K, V), NEW ks
    PROVE  IsKeySpace(Delete(kv, ks), K, V)
BY DEF IsKeySpace, Delete

\* The keys that rode a lease are gone with it and the others are as they were.
LEMMA UnleaseFacts ==
    ASSUME NEW kv, NEW n, NEW e
    PROVE  /\ DOMAIN Unlease(kv, n, e)
                  = {x \in DOMAIN kv : ~(kv[x].node = n /\ kv[x].epoch = e)}
           /\ \A x \in DOMAIN Unlease(kv, n, e) : Unlease(kv, n, e)[x] = kv[x]
BY DEF Unlease, Delete

\* The loss of a lease keeps the prefix typed.
LEMMA UnleaseType ==
    ASSUME NEW K, NEW V, NEW kv, IsKeySpace(kv, K, V), NEW n, NEW e
    PROVE  IsKeySpace(Unlease(kv, n, e), K, V)
BY DeleteType DEF Unlease

\* An empty prefix is typed.
LEMMA NoKeysType ==
    ASSUME NEW K, NEW V
    PROVE  IsKeySpace(NoKeys, K, V)
BY DEF IsKeySpace, NoKeys

-----------------------------------------------------------------------------
(* Type correctness *)

\* The types of what a claim, a requeue or an enqueue puts under pending.
LEMMA PutPendingType ==
    ASSUME TypeOK, NEW t \in Ticket, NEW a \in Nat, NEW w \in BOOLEAN, PutPending(t, a, w)
    PROVE  IsKeySpace(pending', Ticket, PendingValue) /\ rev' \in [Ticket -> Nat]
<1> DEFINE v == [attempt |-> a, rev |-> rev[t] + 1, wait |-> w]
<1>1. v \in PendingValue
  BY DEF TypeOK, PendingValue
<1>2. rev' \in [Ticket -> Nat]
  BY DEF TypeOK, PutPending
<1> HIDE DEF v
<1>3. IsKeySpace(Put(pending, t, v), Ticket, PendingValue)
  BY <1>1, PutType DEF TypeOK
<1> QED
  BY <1>2, <1>3 DEF PutPending, v

\* The type of a result.
LEMMA PublishType ==
    ASSUME TypeOK, NEW t \in Ticket, NEW a \in Nat, NEW s \in Status, NEW n \in Node,
           Publish(t, a, s, n)
    PROVE  results' \subseteq Result
BY DEF TypeOK, Publish, Result

\* The worker loop stays typed when it leaves a ticket.
LEMMA MoveOnType ==
    ASSUME TypeOK, NEW n \in Node, NEW t, MoveOn(n, t)
    PROVE  /\ pc' \in [Node -> PC]
           /\ scan' = [m \in Node |-> scan'[m]]
           /\ \A m \in Node : IsKeySpace(scan'[m], Ticket, ScanValue)
<1> DEFINE rest == Delete(scan[n], {t})
<1>1. IsKeySpace(rest, Ticket, ScanValue)
  BY DeleteType DEF TypeOK
<1> HIDE DEF rest
<1>2. /\ scan' = [scan EXCEPT ![n] = rest]
      /\ pc' = [pc EXCEPT ![n] = IF DOMAIN rest = {} THEN "idle" ELSE "visit"]
  BY DEF MoveOn, rest
<1> QED
  BY <1>1, <1>2 DEF TypeOK, PC

\* The worker loop stays typed when it returns to its timer.
LEMMA IdleType ==
    ASSUME TypeOK, NEW n \in Node, Idle(n)
    PROVE  /\ pc' \in [Node -> PC]
           /\ scan' = [m \in Node |-> scan'[m]]
           /\ \A m \in Node : IsKeySpace(scan'[m], Ticket, ScanValue)
BY NoKeysType DEF TypeOK, Idle, PC

\* What ClaimTxn writes has its types.
LEMMA ClaimTxnType ==
    ASSUME TypeOK, NEW n \in Node, NEW t \in Ticket, First(scan[n], t), ClaimTxn(n, t)
    PROVE  /\ IsKeySpace(pending', Ticket, PendingValue)
           /\ rev' \in [Ticket -> Nat]
           /\ IsKeySpace(claimed', Ticket, ClaimValue)
           /\ IsKeySpace(overlap', Job, ClaimValue)
           /\ scan[n][t].attempt + 1 \in Nat
<1>1. scan[n][t] \in ScanValue
  BY DEF TypeOK, First, IsKeySpace
<1>2. scan[n][t].attempt + 1 \in Nat
  BY <1>1 DEF ScanValue
<1>3. IsKeySpace(pending', Ticket, PendingValue) /\ rev' \in [Ticket -> Nat]
  BY <1>2, PutPendingType DEF ClaimTxn
<1> DEFINE c == [node |-> n, epoch |-> lease[n].claim]
           o == [node |-> n, epoch |-> lease[n].overlap]
<1>4. c \in ClaimValue /\ o \in ClaimValue
  BY DEF TypeOK, Leases, ClaimValue
<1>5. claimed' = Put(claimed, t, c)
  BY DEF ClaimTxn
<1>6. overlap' = IF t \in NoOverlap THEN Put(overlap, JobOf[t], o) ELSE overlap
  BY DEF ClaimTxn
<1>7. JobOf[t] \in Job
  BY QueueAssumption
<1>8. IsKeySpace(claimed, Ticket, ClaimValue) /\ IsKeySpace(overlap, Job, ClaimValue)
  BY DEF TypeOK
<1> HIDE DEF c, o
<1>9. IsKeySpace(Put(claimed, t, c), Ticket, ClaimValue)
  BY <1>4, <1>8, PutType
<1>10. IsKeySpace(Put(overlap, JobOf[t], o), Job, ClaimValue)
  BY <1>4, <1>7, <1>8, PutType
<1> QED
  BY <1>2, <1>3, <1>5, <1>6, <1>8, <1>9, <1>10

\* What the two reports of an execution write has its types.
LEMMA ReportType ==
    ASSUME TypeOK, NEW e \in execs, SuccessTxn(e) \/ FailureTxn(e)
    PROVE  /\ IsKeySpace(pending', Ticket, PendingValue)
           /\ rev' \in [Ticket -> Nat]
           /\ IsKeySpace(claimed', Ticket, ClaimValue)
           /\ IsKeySpace(overlap', Job, ClaimValue)
           /\ results' \subseteq Result
<1>1. e.ticket \in Ticket /\ e.attempt \in Nat /\ e.node \in Node
  BY DEF TypeOK, Execution
<1>2. IsKeySpace(Delete(pending, {e.ticket}), Ticket, PendingValue)
  BY DeleteType DEF TypeOK
<1>3. ASSUME Release(e)
      PROVE  IsKeySpace(claimed', Ticket, ClaimValue) /\ IsKeySpace(overlap', Job, ClaimValue)
  <2>1. /\ IsKeySpace(Delete(claimed, {e.ticket}), Ticket, ClaimValue)
        /\ IsKeySpace(Delete(overlap, {JobOf[e.ticket]}), Job, ClaimValue)
    BY DeleteType DEF TypeOK
  <2> QED
    BY <1>3, <2>1 DEF Release, TypeOK
<1>4. CASE SuccessTxn(e)
  <2>1. results' \subseteq Result
    BY <1>1, <1>4, PublishType DEF SuccessTxn, Status
  <2> QED
    BY <1>2, <1>3, <1>4, <2>1 DEF SuccessTxn, TypeOK
<1>5. CASE FailureTxn(e)
  <2>1. results' \subseteq Result
    BY <1>1, <1>5, PublishType DEF FailureTxn, Status
  <2>2. ASSUME Requeue(e)
        PROVE  IsKeySpace(pending', Ticket, PendingValue) /\ rev' \in [Ticket -> Nat]
    BY <1>1, <2>2, PutPendingType DEF Requeue
  <2> QED
    BY <1>2, <1>3, <1>5, <2>1, <2>2 DEF FailureTxn, TypeOK
<1> QED
  BY <1>4, <1>5

\* A node that goes down leaves typed state.
LEMMA DownType ==
    ASSUME TypeOK, NEW n \in Node, Down(n)
    PROVE  /\ up' \in [Node -> BOOLEAN]
           /\ session' \in [Node -> Nat]
           /\ lease' \in [Node -> Leases]
           /\ sweep' = [m \in Node |-> sweep'[m]]
           /\ \A m \in Node : IsKeySpace(sweep'[m], Ticket, Nat)
           /\ execs' \subseteq Execution
           /\ live' \subseteq Node \X Nat
           /\ epoch' \in [Node -> Nat]
           /\ pc' \in [Node -> PC]
           /\ scan' = [m \in Node |-> scan'[m]]
           /\ \A m \in Node : IsKeySpace(scan'[m], Ticket, ScanValue)
<1>1. up' \in [Node -> BOOLEAN] /\ session' \in [Node -> Nat] /\ lease' \in [Node -> Leases]
  BY DEF Down, TypeOK, Leases, NoLeases
<1>2. sweep' = [m \in Node |-> sweep'[m]] /\ \A m \in Node : IsKeySpace(sweep'[m], Ticket, Nat)
  BY NoKeysType DEF Down, TypeOK
<1>3. execs' \subseteq Execution /\ live' \subseteq Node \X Nat /\ epoch' \in [Node -> Nat]
  BY DEF Down, TypeOK
<1>4. /\ pc' \in [Node -> PC]
      /\ scan' = [m \in Node |-> scan'[m]]
      /\ \A m \in Node : IsKeySpace(scan'[m], Ticket, ScanValue)
  BY IdleType DEF Down
<1> QED
  BY <1>1, <1>2, <1>3, <1>4

\* A new session is typed.
LEMMA NewSessionType ==
    ASSUME TypeOK, NEW n \in Node, NewSession(n)
    PROVE  /\ session' \in [Node -> Nat]
           /\ epoch' \in [Node -> Nat]
           /\ live' \subseteq Node \X Nat
BY DEF TypeOK, NewSession

\* Every step keeps the state typed.
LEMMA TypeStep ==
    ASSUME TypeOK, [Next]_vars
    PROVE  TypeOK'
<1> USE DEF etcdVars, sessionVars, workerVars
<1>1. ASSUME NEW t \in Ticket, Enqueue(t) PROVE TypeOK'
  <2>1. IsKeySpace(pending', Ticket, PendingValue) /\ rev' \in [Ticket -> Nat]
    BY <1>1, PutPendingType DEF Enqueue
  <2>2. fires' \in [Ticket -> Nat]
    BY <1>1 DEF Enqueue, TypeOK
  <2> QED
    BY <1>1, <2>1, <2>2 DEF Enqueue, TypeOK
<1>2. ASSUME NEW t \in Ticket, BackoffElapsed(t) PROVE TypeOK'
  <2>1. IsKeySpace(pending', Ticket, PendingValue)
    BY <1>2 DEF BackoffElapsed, TypeOK, IsKeySpace, PendingValue
  <2> QED
    BY <1>2, <2>1 DEF BackoffElapsed, TypeOK
<1>3. ASSUME NEW e \in execs, Finish(e) PROVE TypeOK'
  <2>1. CASE SuccessTxn(e) \/ FailureTxn(e)
    <3>1. /\ IsKeySpace(pending', Ticket, PendingValue)
          /\ rev' \in [Ticket -> Nat]
          /\ IsKeySpace(claimed', Ticket, ClaimValue)
          /\ IsKeySpace(overlap', Job, ClaimValue)
          /\ results' \subseteq Result
      BY <2>1, ReportType
    <3>2. execs' \subseteq Execution
      BY <1>3 DEF Finish, FinishSuccess, FinishFailure, FinishError, TypeOK
    <3>3. UNCHANGED <<sessionVars, workerVars, sweep, fires>>
      BY <1>3 DEF Finish, FinishSuccess, FinishFailure, FinishError
    <3> QED
      BY <3>1, <3>2, <3>3 DEF TypeOK
  <2>2. CASE UNCHANGED etcdVars
    BY <1>3, <2>2 DEF Finish, FinishSuccess, FinishFailure, FinishError, TypeOK
  <2> QED
    BY <1>3, <2>1, <2>2 DEF Finish, FinishSuccess, FinishFailure, FinishError
<1>4. ASSUME NEW n \in Node, WorkerStep(n) PROVE TypeOK'
  <2>1. CASE Scan(n)
    <3>1. \A t \in DOMAIN pending :
             [attempt |-> pending[t].attempt, rev |-> pending[t].rev] \in ScanValue
      BY DEF TypeOK, IsKeySpace, PendingValue, ScanValue
    <3> DEFINE due == {t \in Window(ScanLimit) : ~pending[t].wait}
               page == [t \in due |-> [attempt |-> pending[t].attempt, rev |-> pending[t].rev]]
    <3>2. due \subseteq DOMAIN pending /\ DOMAIN pending \subseteq Ticket
      BY DEF Window, TypeOK, IsKeySpace
    <3>3. IsKeySpace(page, Ticket, ScanValue)
      BY <3>1, <3>2 DEF IsKeySpace
    <3>4. /\ scan' = [scan EXCEPT ![n] = page]
          /\ pc' = [pc EXCEPT ![n] = IF due = {} THEN "idle" ELSE "visit"]
      BY <2>1 DEF Scan
    <3> HIDE DEF page, due
    <3>5. /\ pc' \in [Node -> PC]
          /\ scan' = [m \in Node |-> scan'[m]]
          /\ \A m \in Node : IsKeySpace(scan'[m], Ticket, ScanValue)
      BY <3>3, <3>4 DEF TypeOK, PC
    <3> QED
      BY <2>1, <3>5 DEF Scan, TypeOK
  <2>2. ASSUME NEW t \in Ticket, ClaimBuild(n, t) \/ OverlapBuild(n, t) PROVE TypeOK'
    <3>1. lease' \in [Node -> Leases]
      BY <2>2 DEF ClaimBuild, OverlapBuild, TypeOK, Leases
    <3>2. pc' \in [Node -> PC]
      BY <2>2 DEF ClaimBuild, OverlapBuild, TypeOK, PC
    <3> QED
      BY <2>2, <3>1, <3>2 DEF ClaimBuild, OverlapBuild, TypeOK
  <2>3. ASSUME NEW t \in Ticket, ClaimWon(n, t) PROVE TypeOK'
    <3>1. /\ IsKeySpace(pending', Ticket, PendingValue)
          /\ rev' \in [Ticket -> Nat]
          /\ IsKeySpace(claimed', Ticket, ClaimValue)
          /\ IsKeySpace(overlap', Job, ClaimValue)
          /\ scan[n][t].attempt + 1 \in Nat
      BY <2>3, ClaimTxnType DEF ClaimWon
    <3>2. /\ pc' \in [Node -> PC]
          /\ scan' = [m \in Node |-> scan'[m]]
          /\ \A m \in Node : IsKeySpace(scan'[m], Ticket, ScanValue)
      BY <2>3, IdleType DEF ClaimWon
    <3>3. execs' \subseteq Execution
      BY <2>3, <3>1 DEF ClaimWon, TypeOK, Execution, Leases
    <3>4. lease' \in [Node -> Leases]
      BY <2>3 DEF ClaimWon, TypeOK, Leases, NoLeases
    <3> QED
      BY <2>3, <3>1, <3>2, <3>3, <3>4 DEF ClaimWon, TypeOK
  <2>4. ASSUME NEW t \in Ticket, ClaimLost(n, t) PROVE TypeOK'
    <3>1. /\ pc' \in [Node -> PC]
          /\ scan' = [m \in Node |-> scan'[m]]
          /\ \A m \in Node : IsKeySpace(scan'[m], Ticket, ScanValue)
      <4>1. CASE t \in NoOverlap
        BY <2>4, <4>1 DEF ClaimLost, TypeOK, PC
      <4>2. CASE t \notin NoOverlap
        BY <2>4, <4>2, MoveOnType DEF ClaimLost
      <4> QED
        BY <4>1, <4>2
    <3>2. lease' \in [Node -> Leases]
      BY <2>4 DEF ClaimLost, TypeOK, Leases, NoLeases
    <3> QED
      BY <2>4, <3>1, <3>2 DEF ClaimLost, TypeOK
  <2>5. ASSUME NEW t \in Ticket, ClaimPanic(n, t) PROVE TypeOK'
    <3>1. /\ IsKeySpace(pending', Ticket, PendingValue)
          /\ rev' \in [Ticket -> Nat]
          /\ IsKeySpace(claimed', Ticket, ClaimValue)
          /\ IsKeySpace(overlap', Job, ClaimValue)
      <4>1. CASE ClaimTxn(n, t)
        BY <2>5, <4>1, ClaimTxnType DEF ClaimPanic
      <4>2. CASE UNCHANGED <<pending, rev, claimed, overlap>>
        BY <4>2 DEF TypeOK
      <4> QED
        BY <2>5, <4>1, <4>2 DEF ClaimPanic
    <3>2. Down(n) /\ UNCHANGED <<results, fires>>
      BY <2>5 DEF ClaimPanic
    <3> QED
      BY <3>1, <3>2, DownType DEF TypeOK
  <2>6. ASSUME NEW t \in Ticket, OverlapHeld(n, t) PROVE TypeOK'
    BY <2>6 DEF OverlapHeld, TypeOK, PC
  <2>7. ASSUME NEW t \in Ticket, OverlapFree(n, t) PROVE TypeOK'
    BY <2>7, MoveOnType DEF OverlapFree, TypeOK
  <2>8. ASSUME NEW t \in Ticket, SkipStale(n, t) \/ SkipError(n, t) PROVE TypeOK'
    <3>1. IsKeySpace(pending', Ticket, PendingValue) /\ results' \subseteq Result
      <4>1. scan[n][t].attempt + 1 \in Nat
        BY <2>8 DEF SkipStale, SkipError, First, TypeOK, IsKeySpace, ScanValue
      <4>2. IsKeySpace(Delete(pending, {t}), Ticket, PendingValue)
        BY DeleteType DEF TypeOK
      <4>3. ASSUME Publish(t, scan[n][t].attempt + 1, "skipped", n)
            PROVE  results' \subseteq Result
        BY <4>1, <4>3, PublishType DEF Status
      <4> QED
        BY <2>8, <4>2, <4>3 DEF SkipStale, SkipError, SkipTxn, TypeOK
    <3>2. /\ pc' \in [Node -> PC]
          /\ scan' = [m \in Node |-> scan'[m]]
          /\ \A m \in Node : IsKeySpace(scan'[m], Ticket, ScanValue)
      BY <2>8, MoveOnType, IdleType DEF SkipStale, SkipError
    <3> QED
      BY <2>8, <3>1, <3>2 DEF SkipStale, SkipError, TypeOK
  <2> QED
    BY <1>4, <2>1, <2>2, <2>3, <2>4, <2>5, <2>6, <2>7, <2>8 DEF WorkerStep
<1>5. ASSUME NEW n \in Node, SessionStep(n) PROVE TypeOK'
  <2>1. CASE SessionDrop(n)
    BY <2>1 DEF SessionDrop, TypeOK
  <2>2. CASE SessionOpen(n)
    BY <2>2, NewSessionType DEF SessionOpen, TypeOK
  <2> QED
    BY <1>5, <2>1, <2>2 DEF SessionStep
<1>6. ASSUME NEW n \in Node, SweepStep(n) PROVE TypeOK'
  <2>1. CASE SweepList(n)
    <3>1. PICK doomed \in SUBSET (Window(SweepLimit) \ Manual) :
              sweep' = [sweep EXCEPT ![n] = [t \in doomed |-> pending[t].attempt]]
      BY <2>1 DEF SweepList
    <3>2. IsKeySpace([t \in doomed |-> pending[t].attempt], Ticket, Nat)
      BY DEF Window, TypeOK, IsKeySpace, PendingValue
    <3>3. /\ sweep' = [m \in Node |-> sweep'[m]]
          /\ \A m \in Node : IsKeySpace(sweep'[m], Ticket, Nat)
      BY <3>1, <3>2 DEF TypeOK
    <3> QED
      BY <2>1, <3>3 DEF SweepList, TypeOK
  <2>2. CASE SweepStop(n)
    BY <2>2, NoKeysType DEF SweepStop, TypeOK
  <2>3. ASSUME NEW t \in Ticket, Abandon(n, t) PROVE TypeOK'
    <3>1. /\ IsKeySpace(Delete(sweep[n], {t}), Ticket, Nat)
          /\ IsKeySpace(Delete(pending, {t}), Ticket, PendingValue)
      BY DeleteType DEF TypeOK
    <3>2. ASSUME Publish(t, sweep[n][t], "abandoned", n)
          PROVE  results' \subseteq Result
      <4>1. sweep[n][t] \in Nat
        BY <2>3 DEF Abandon, First, TypeOK, IsKeySpace
      <4> QED
        BY <4>1, <3>2, PublishType DEF Status
    <3>3. /\ sweep' = [m \in Node |-> sweep'[m]]
          /\ \A m \in Node : IsKeySpace(sweep'[m], Ticket, Nat)
      BY <2>3, <3>1 DEF Abandon, TypeOK
    <3>4. IsKeySpace(pending', Ticket, PendingValue) /\ results' \subseteq Result
      BY <2>3, <3>1, <3>2 DEF Abandon, TypeOK
    <3> QED
      BY <2>3, <3>3, <3>4 DEF Abandon, TypeOK
  <2> QED
    BY <1>6, <2>1, <2>2, <2>3 DEF SweepStep
<1>7. ASSUME NEW n \in Node, Crash(n) PROVE TypeOK'
  BY <1>7, DownType DEF Crash, TypeOK
<1>8. ASSUME NEW n \in Node, Start(n) PROVE TypeOK'
  BY <1>8, NewSessionType DEF Start, TypeOK
<1>9. ASSUME NEW p \in live, LeaseExpire(p[1], p[2]) PROVE TypeOK'
  <2>1. /\ IsKeySpace(claimed', Ticket, ClaimValue)
        /\ IsKeySpace(overlap', Job, ClaimValue)
    BY <1>9, UnleaseType DEF LeaseExpire, TypeOK
  <2> QED
    BY <1>9, <2>1 DEF LeaseExpire, TypeOK
<1>10. CASE UNCHANGED vars
  BY <1>10 DEF vars, TypeOK
<1> QED
  BY <1>1, <1>2, <1>3, <1>4, <1>5, <1>6, <1>7, <1>8, <1>9, <1>10 DEF Next

\* Every reachable state of the queue is typed, whatever the constants.
THEOREM TypeCorrect == Spec => []TypeOK
<1>1. Init => TypeOK
  BY NoKeysType DEF Init, TypeOK, PC, Leases, NoLeases
<1>2. TypeOK /\ [Next]_vars => TypeOK'
  BY TypeStep
<1> QED
  BY <1>1, <1>2, PTL DEF Spec

-----------------------------------------------------------------------------
(* No fire is lost, whatever fails *)

\* A loop over a page in key order is at one ticket.
LEMMA FirstUnique ==
    ASSUME NEW kv, DOMAIN kv \subseteq Ticket, NEW t, NEW u, First(kv, t), First(kv, u)
    PROVE  t = u
<1>1. t \in Nat /\ u \in Nat
  BY QueueAssumption DEF First
<1>2. t <= u /\ u <= t
  BY DEF First
<1> QED
  BY <1>1, <1>2

\* Only a no_overlap ticket is looked up under the overlap prefix and skipped:
\* the fact about the worker loop on which ClaimedStaysQueued rests.
SkipsNoOverlap ==
    \A n \in Node, t \in Ticket :
        pc[n] \in {"overlap", "skip"} /\ First(scan[n], t) => t \in NoOverlap

\* Every step keeps SkipsNoOverlap: the loop gets to "overlap" only by a lost
\* claim of a no_overlap ticket and stays at that ticket until it leaves "skip".
LEMMA SkipsNoOverlapStep ==
    ASSUME TypeOK, SkipsNoOverlap, [Next]_vars
    PROVE  SkipsNoOverlap'
<1> USE DEF etcdVars, sessionVars, workerVars
<1>2. ASSUME NEW n \in Node, NEW p \in {"idle", "visit", "lease", "commit"},
             pc' = [pc EXCEPT ![n] = p],
             \A m \in Node : m # n => scan'[m] = scan[m]
      PROVE  SkipsNoOverlap'
  BY <1>2 DEF SkipsNoOverlap, First, TypeOK
<1>3. ASSUME NEW n \in Node, Idle(n) PROVE SkipsNoOverlap'
  <2>1. \A m \in Node : m # n => scan'[m] = scan[m]
    BY <1>3 DEF Idle, TypeOK
  <2> QED
    BY <1>2, <1>3, <2>1 DEF Idle
<1>4. ASSUME NEW n \in Node, NEW t, MoveOn(n, t) PROVE SkipsNoOverlap'
  <2>1. \A m \in Node : m # n => scan'[m] = scan[m]
    BY <1>4 DEF MoveOn, TypeOK
  <2>2. \/ pc' = [pc EXCEPT ![n] = "idle"]
        \/ pc' = [pc EXCEPT ![n] = "visit"]
    BY <1>4 DEF MoveOn
  <2> QED
    BY <1>2, <2>1, <2>2
<1>5. ASSUME NEW n \in Node, WorkerStep(n) PROVE SkipsNoOverlap'
  <2>1. CASE Scan(n)
    <3>1. \A m \in Node : m # n => scan'[m] = scan[m]
      BY <2>1 DEF Scan, TypeOK
    <3>2. \/ pc' = [pc EXCEPT ![n] = "idle"]
          \/ pc' = [pc EXCEPT ![n] = "visit"]
      BY <2>1 DEF Scan
    <3> QED
      BY <1>2, <3>1, <3>2
  <2>2. ASSUME NEW t \in Ticket, ClaimBuild(n, t) \/ OverlapBuild(n, t) PROVE SkipsNoOverlap'
    <3>1. scan' = scan
      BY <2>2 DEF ClaimBuild, OverlapBuild
    <3>2. \/ pc' = [pc EXCEPT ![n] = "lease"]
          \/ pc' = [pc EXCEPT ![n] = "commit"]
      BY <2>2 DEF ClaimBuild, OverlapBuild
    <3> QED
      BY <1>2, <3>1, <3>2
  <2>3. ASSUME NEW t \in Ticket, ClaimLost(n, t) PROVE SkipsNoOverlap'
    <3>1. CASE t \in NoOverlap
      <4>1. pc' = [pc EXCEPT ![n] = "overlap"] /\ scan' = scan
        BY <2>3, <3>1 DEF ClaimLost
      <4>2. \A u \in Ticket : First(scan[n], u) => u = t
        BY <2>3, FirstUnique DEF ClaimLost, TypeOK, IsKeySpace
      <4> QED
        BY <3>1, <4>1, <4>2 DEF SkipsNoOverlap, TypeOK
    <3>2. CASE t \notin NoOverlap
      BY <1>4, <2>3, <3>2 DEF ClaimLost
    <3> QED
      BY <3>1, <3>2
  <2>4. ASSUME NEW t \in Ticket, OverlapHeld(n, t) PROVE SkipsNoOverlap'
    BY <2>4 DEF OverlapHeld, SkipsNoOverlap, TypeOK
  <2>5. ASSUME NEW t \in Ticket,
               \/ ClaimWon(n, t) \/ ClaimPanic(n, t) \/ OverlapFree(n, t)
               \/ SkipStale(n, t) \/ SkipError(n, t)
        PROVE  SkipsNoOverlap'
    BY <1>3, <1>4, <2>5
       DEF ClaimWon, ClaimPanic, Down, OverlapFree, SkipStale, SkipError
  <2> QED
    BY <1>5, <2>1, <2>2, <2>3, <2>4, <2>5 DEF WorkerStep
<1>6. ASSUME NEW n \in Node, Crash(n) PROVE SkipsNoOverlap'
  BY <1>3, <1>6 DEF Crash, Down
<1>7. CASE pc' = pc /\ scan' = scan
  BY <1>7 DEF SkipsNoOverlap, First
<1>8. ASSUME NEW t \in Ticket, Enqueue(t) \/ BackoffElapsed(t) PROVE pc' = pc /\ scan' = scan
  BY <1>8 DEF Enqueue, BackoffElapsed
<1>9. ASSUME NEW e \in execs, Finish(e) PROVE pc' = pc /\ scan' = scan
  BY <1>9 DEF Finish, FinishSuccess, FinishFailure, FinishError
<1>10. ASSUME NEW n \in Node, SessionStep(n) \/ SweepStep(n) \/ Start(n)
       PROVE  pc' = pc /\ scan' = scan
  BY <1>10 DEF SessionStep, SessionDrop, SessionOpen, SweepStep, SweepList, SweepStop,
               Abandon, Start
<1>11. ASSUME NEW p \in live, LeaseExpire(p[1], p[2]) PROVE pc' = pc /\ scan' = scan
  BY <1>11 DEF LeaseExpire
<1>12. UNCHANGED vars => pc' = pc /\ scan' = scan
  BY DEF vars
<1> QED
  BY <1>5, <1>6, <1>7, <1>8, <1>9, <1>10, <1>11, <1>12 DEF Next

\* The two safety properties that hold whatever fails, with SkipsNoOverlap.
KeepsInv == SkipsNoOverlap /\ ClaimedStaysQueued /\ NoLostFire

\* A step that only adds to the queue and to the results, and claims nothing
\* new, keeps both properties.
LEMMA KeepsGrowth ==
    ASSUME ClaimedStaysQueued, NoLostFire,
           DOMAIN pending \subseteq DOMAIN pending',
           DOMAIN claimed' \subseteq DOMAIN claimed,
           results \subseteq results',
           fires' = fires
    PROVE  ClaimedStaysQueued' /\ NoLostFire'
BY DEF ClaimedStaysQueued, NoLostFire

\* A step that removes one ticket and publishes a final result of it keeps both
\* properties, if the ticket is not claimed afterwards or must not overlap.
LEMMA KeepsRemoval ==
    ASSUME ClaimedStaysQueued, NoLostFire, NEW t, NEW a, NEW s \in Final, NEW n,
           pending' = Delete(pending, {t}),
           Publish(t, a, s, n),
           DOMAIN claimed' \subseteq DOMAIN claimed,
           t \notin DOMAIN claimed' \/ t \in NoOverlap,
           fires' = fires
    PROVE  ClaimedStaysQueued' /\ NoLostFire'
<1> DEFINE r == [ticket |-> t, attempt |-> a, status |-> s, node |-> n]
<1>1. DOMAIN pending' = DOMAIN pending \ {t}
  BY DeleteFacts
<1>2. r.ticket = t /\ r.status \in Final
  OBVIOUS
<1>3. results' = results \cup {r}
  BY DEF Publish
<1> HIDE DEF r
<1>4. ClaimedStaysQueued'
  BY <1>1 DEF ClaimedStaysQueued
<1>5. NoLostFire'
  BY <1>1, <1>2, <1>3 DEF NoLostFire
<1> QED
  BY <1>4, <1>5

\* The report of an execution keeps both properties.
LEMMA KeepsReport ==
    ASSUME ClaimedStaysQueued, NoLostFire, NEW e, SuccessTxn(e) \/ FailureTxn(e),
           fires' = fires
    PROVE  ClaimedStaysQueued' /\ NoLostFire'
<1> DEFINE t == e.ticket
<1>1. ASSUME Release(e)
      PROVE  DOMAIN claimed' = DOMAIN claimed \ {t}
  BY <1>1, DeleteFacts DEF Release
<1>2. results \subseteq results'
  BY DEF SuccessTxn, FailureTxn, Publish
<1>3. CASE ~Owns(e)
  <2>1. UNCHANGED <<pending, claimed>>
    BY <1>3 DEF SuccessTxn, FailureTxn
  <2> QED
    BY <1>2, <2>1, KeepsGrowth
<1>4. CASE Owns(e) /\ SuccessTxn(e)
  <2>1. /\ pending' = Delete(pending, {t})
        /\ Publish(t, e.attempt, "success", e.node)
        /\ DOMAIN claimed' = DOMAIN claimed \ {t}
    BY <1>1, <1>4 DEF SuccessTxn
  <2> QED
    BY <2>1, KeepsRemoval DEF Final
<1>5. CASE Owns(e) /\ FailureTxn(e) /\ GiveUp(e)
  <2>1. /\ pending' = Delete(pending, {t})
        /\ Publish(t, e.attempt, "failed_permanent", e.node)
        /\ DOMAIN claimed' = DOMAIN claimed \ {t}
    BY <1>1, <1>5 DEF FailureTxn
  <2> QED
    BY <2>1, KeepsRemoval DEF Final
<1>6. CASE Owns(e) /\ FailureTxn(e) /\ ~GiveUp(e)
  <2>1. DOMAIN pending' = DOMAIN pending \cup {t}
    <3>1. pending' = Put(pending, t, [attempt |-> e.attempt, rev |-> rev[t] + 1, wait |-> TRUE])
      BY <1>6 DEF FailureTxn, Requeue, PutPending
    <3> QED
      BY <3>1 DEF Put
  <2>2. DOMAIN claimed' = DOMAIN claimed \ {t}
    BY <1>1, <1>6 DEF FailureTxn
  <2> QED
    BY <1>2, <2>1, <2>2, KeepsGrowth
<1> QED
  BY <1>3, <1>4, <1>5, <1>6

\* A claim that is committed keeps both properties: the ticket is put back in
\* the transaction that puts the claim.
LEMMA KeepsClaim ==
    ASSUME ClaimedStaysQueued, NoLostFire, NEW n, NEW t, ClaimTxn(n, t),
           results' = results, fires' = fires
    PROVE  ClaimedStaysQueued' /\ NoLostFire'
<1>1. DOMAIN pending' = DOMAIN pending \cup {t}
  BY PutFacts DEF ClaimTxn, PutPending
<1>2. DOMAIN claimed' = DOMAIN claimed \cup {t}
  BY PutFacts DEF ClaimTxn
<1> QED
  BY <1>1, <1>2 DEF ClaimedStaysQueued, NoLostFire

\* Every step keeps both properties.
LEMMA KeepsStep ==
    ASSUME TypeOK, KeepsInv, [Next]_vars
    PROVE  ClaimedStaysQueued' /\ NoLostFire'
<1> USE DEF etcdVars, sessionVars, workerVars
<1>1. ClaimedStaysQueued /\ NoLostFire /\ SkipsNoOverlap
  BY DEF KeepsInv
<1>2. ASSUME UNCHANGED <<pending, results, fires>>,
             DOMAIN claimed' \subseteq DOMAIN claimed
      PROVE  ClaimedStaysQueued' /\ NoLostFire'
  BY <1>1, <1>2, KeepsGrowth
<1>3. ASSUME NEW t \in Ticket, Enqueue(t) PROVE ClaimedStaysQueued' /\ NoLostFire'
  <2>1. DOMAIN pending' = DOMAIN pending \cup {t}
    BY <1>3, PutFacts DEF Enqueue, PutPending
  <2>2. \A u \in Ticket : u # t => fires'[u] = fires[u]
    BY <1>3 DEF Enqueue, TypeOK
  <2> QED
    BY <1>1, <1>3, <2>1, <2>2 DEF Enqueue, ClaimedStaysQueued, NoLostFire
<1>4. ASSUME NEW t \in Ticket, BackoffElapsed(t) PROVE ClaimedStaysQueued' /\ NoLostFire'
  <2>1. DOMAIN pending' = DOMAIN pending
    BY <1>4 DEF BackoffElapsed
  <2> QED
    BY <1>1, <1>4, <2>1, KeepsGrowth DEF BackoffElapsed
<1>5. ASSUME NEW e \in execs, Finish(e) PROVE ClaimedStaysQueued' /\ NoLostFire'
  <2>1. CASE SuccessTxn(e) \/ FailureTxn(e)
    BY <1>1, <1>5, <2>1, KeepsReport
       DEF Finish, FinishSuccess, FinishFailure, FinishError
  <2>2. CASE UNCHANGED etcdVars
    BY <1>2, <1>5, <2>2 DEF Finish, FinishSuccess, FinishFailure, FinishError
  <2> QED
    BY <1>5, <2>1, <2>2 DEF Finish, FinishSuccess, FinishFailure, FinishError
<1>6. ASSUME NEW n \in Node, WorkerStep(n) PROVE ClaimedStaysQueued' /\ NoLostFire'
  <2>1. ASSUME NEW t \in Ticket, ClaimTxn(n, t), results' = results, fires' = fires
        PROVE  ClaimedStaysQueued' /\ NoLostFire'
    BY <1>1, <2>1, KeepsClaim
  <2>2. ASSUME NEW t \in Ticket, ClaimWon(n, t) \/ ClaimPanic(n, t)
        PROVE  ClaimedStaysQueued' /\ NoLostFire'
    BY <1>2, <2>1, <2>2 DEF ClaimWon, ClaimPanic
  <2>3. ASSUME NEW t \in Ticket, SkipStale(n, t) \/ SkipError(n, t)
        PROVE  ClaimedStaysQueued' /\ NoLostFire'
    <3>1. t \in NoOverlap
      BY <1>1, <2>3 DEF SkipStale, SkipError, SkipsNoOverlap
    <3>2. claimed' = claimed /\ fires' = fires
      BY <2>3 DEF SkipStale, SkipError
    <3>3. CASE UNCHANGED <<pending, results>>
      BY <1>2, <3>2, <3>3
    <3>4. CASE /\ pending' = Delete(pending, {t})
               /\ Publish(t, scan[n][t].attempt + 1, "skipped", n)
      BY <1>1, <3>1, <3>2, <3>4, KeepsRemoval DEF Final
    <3> QED
      BY <2>3, <3>3, <3>4 DEF SkipStale, SkipError, SkipTxn
  <2>4. CASE Scan(n)
    BY <1>2, <2>4 DEF Scan
  <2>5. ASSUME NEW t \in Ticket,
               \/ ClaimBuild(n, t) \/ OverlapBuild(n, t) \/ ClaimLost(n, t)
               \/ OverlapHeld(n, t) \/ OverlapFree(n, t)
        PROVE  ClaimedStaysQueued' /\ NoLostFire'
    BY <1>2, <2>5 DEF ClaimBuild, OverlapBuild, ClaimLost, OverlapHeld, OverlapFree
  <2> QED
    BY <1>6, <2>2, <2>3, <2>4, <2>5 DEF WorkerStep
<1>7. ASSUME NEW n \in Node, SweepStep(n) PROVE ClaimedStaysQueued' /\ NoLostFire'
  <2>1. ASSUME NEW t \in Ticket, Abandon(n, t) PROVE ClaimedStaysQueued' /\ NoLostFire'
    <3>1. CASE Abandonable(t)
      <4>1. /\ pending' = Delete(pending, {t})
            /\ Publish(t, sweep[n][t], "abandoned", n)
            /\ claimed' = claimed /\ fires' = fires
            /\ t \notin DOMAIN claimed'
        BY <2>1, <3>1 DEF Abandon, Abandonable
      <4> QED
        BY <1>1, <4>1, KeepsRemoval DEF Final
    <3>2. CASE ~Abandonable(t)
      BY <1>2, <2>1, <3>2 DEF Abandon
    <3> QED
      BY <3>1, <3>2
  <2>2. CASE SweepList(n) \/ SweepStop(n)
    BY <1>2, <2>2 DEF SweepList, SweepStop
  <2> QED
    BY <1>7, <2>1, <2>2 DEF SweepStep
<1>8. ASSUME NEW n \in Node, SessionStep(n) \/ Crash(n) \/ Start(n)
      PROVE  ClaimedStaysQueued' /\ NoLostFire'
  BY <1>2, <1>8 DEF SessionStep, SessionDrop, SessionOpen, Crash, Start
<1>9. ASSUME NEW p \in live, LeaseExpire(p[1], p[2])
      PROVE  ClaimedStaysQueued' /\ NoLostFire'
  <2>1. DOMAIN claimed' \subseteq DOMAIN claimed
    <3>1. claimed' = Unlease(claimed, p[1], p[2])
      BY <1>9 DEF LeaseExpire
    <3> QED
      BY <3>1 DEF Unlease, Delete
  <2> QED
    BY <1>2, <1>9, <2>1 DEF LeaseExpire
<1>10. CASE UNCHANGED vars
  BY <1>2, <1>10 DEF vars
<1> QED
  BY <1>3, <1>4, <1>5, <1>6, <1>7, <1>8, <1>9, <1>10 DEF Next

\* The inductive invariant holds in every reachable state.
LEMMA Kept == Spec => []KeepsInv
<1>1. Init => KeepsInv
  BY DEF Init, KeepsInv, SkipsNoOverlap, ClaimedStaysQueued, NoLostFire, NoKeys
<1>2. TypeOK /\ KeepsInv /\ [Next]_vars => KeepsInv'
  BY SkipsNoOverlapStep, KeepsStep DEF KeepsInv
<1> QED
  BY <1>1, <1>2, TypeCorrect, PTL DEF Spec

\* For any number of nodes and tickets and whatever crashes, expires or fails:
\* no ticket leaves the queue without a final result.
THEOREM FiresAreKept == Spec => []NoLostFire
<1>1. KeepsInv => NoLostFire
  BY DEF KeepsInv
<1> QED
  BY <1>1, Kept, PTL

\* In the same generality a claimed ticket of a job that may overlap is still in
\* the queue, to be claimed again when its node is lost.
THEOREM ClaimsAreQueued == Spec => []ClaimedStaysQueued
<1>1. KeepsInv => ClaimedStaysQueued
  BY DEF KeepsInv
<1> QED
  BY <1>1, Kept, PTL

\* In the same generality a ticket of a job that may overlap comes into the queue by
\* being enqueued and in no other way: the retry of an execution finds it there, since
\* the claim that the report compares is the claim of a queued ticket.
THEOREM TicketsAreNotRevived == Spec => NoTicketComesBack
<1> DEFINE OnlyEnqueued ==
        \A t \in DOMAIN pending' \ DOMAIN pending : t \notin NoOverlap => fires'[t] = fires[t] + 1
<1>1. TypeOK /\ KeepsInv /\ [Next]_vars => [OnlyEnqueued]_vars
  <2> SUFFICES ASSUME TypeOK, KeepsInv, Next PROVE OnlyEnqueued
    BY DEF vars, etcdVars
  <2> USE DEF etcdVars, sessionVars, workerVars
  <2>1. ASSUME DOMAIN pending' \subseteq DOMAIN pending PROVE OnlyEnqueued
    BY <2>1
  <2>2. ASSUME NEW ks, pending' = Delete(pending, ks) PROVE OnlyEnqueued
    BY <2>1, <2>2 DEF Delete
  <2>3. ASSUME NEW t \in DOMAIN pending, NEW a, NEW w, PutPending(t, a, w) PROVE OnlyEnqueued
    BY <2>1, <2>3 DEF PutPending, Put
  <2>4. ASSUME NEW t \in Ticket, Enqueue(t) PROVE OnlyEnqueued
    <3>1. DOMAIN pending' = DOMAIN pending \cup {t} /\ fires'[t] = fires[t] + 1
      BY <2>4 DEF Enqueue, PutPending, Put, TypeOK
    <3> QED
      BY <3>1
  <2>5. ASSUME NEW t \in Ticket, BackoffElapsed(t) PROVE OnlyEnqueued
    BY <2>1, <2>5 DEF BackoffElapsed
  <2>6. ASSUME NEW e \in execs, Finish(e) PROVE OnlyEnqueued
    <3>1. CASE Owns(e) /\ e.ticket \notin NoOverlap
      <4>1. e.ticket \in DOMAIN pending
        BY <3>1 DEF Owns, KeepsInv, ClaimedStaysQueued
      <4> QED
        BY <2>1, <2>2, <2>3, <2>6, <4>1 DEF Finish, FinishSuccess, FinishFailure, FinishError,
           SuccessTxn, FailureTxn, Requeue
    <3>2. CASE e.ticket \in NoOverlap
      <4>1. DOMAIN pending' \subseteq DOMAIN pending \cup {e.ticket}
        BY <2>6 DEF Finish, FinishSuccess, FinishFailure, FinishError, SuccessTxn, FailureTxn,
           Requeue, PutPending, Put, Delete
      <4> QED
        BY <3>2, <4>1
    <3>3. CASE ~Owns(e)
      BY <2>1, <2>6, <3>3 DEF Finish, FinishSuccess, FinishFailure, FinishError,
         SuccessTxn, FailureTxn
    <3> QED
      BY <3>1, <3>2, <3>3
  <2>7. ASSUME NEW n \in Node, WorkerStep(n) PROVE OnlyEnqueued
    <3>1. ASSUME NEW t \in Ticket, ClaimCompare(n, t), ClaimTxn(n, t) PROVE OnlyEnqueued
      BY <2>3, <3>1 DEF ClaimCompare, ClaimTxn
    <3>2. ASSUME NEW t \in Ticket, ClaimWon(n, t) \/ ClaimPanic(n, t) PROVE OnlyEnqueued
      BY <2>1, <3>1, <3>2 DEF ClaimWon, ClaimPanic
    <3>3. ASSUME NEW t \in Ticket, SkipStale(n, t) \/ SkipError(n, t) PROVE OnlyEnqueued
      BY <2>1, <2>2, <3>3 DEF SkipStale, SkipError, SkipTxn
    <3> QED
      BY <2>1, <2>7, <3>2, <3>3 DEF WorkerStep, Scan, ClaimBuild, OverlapBuild, ClaimLost,
         OverlapHeld, OverlapFree
  <2>8. ASSUME NEW n \in Node, SweepStep(n) PROVE OnlyEnqueued
    BY <2>1, <2>2, <2>8 DEF SweepStep, SweepList, SweepStop, Abandon
  <2>9. ASSUME NEW n \in Node, SessionStep(n) \/ Crash(n) \/ Start(n) PROVE OnlyEnqueued
    BY <2>1, <2>9 DEF SessionStep, SessionDrop, SessionOpen, Crash, Start
  <2>10. ASSUME NEW p \in live, LeaseExpire(p[1], p[2]) PROVE OnlyEnqueued
    BY <2>1, <2>10 DEF LeaseExpire
  <2> QED
    BY <2>4, <2>5, <2>6, <2>7, <2>8, <2>9, <2>10 DEF Next
<1> QED
  BY <1>1, TypeCorrect, Kept, PTL DEF Spec, NoTicketComesBack

-----------------------------------------------------------------------------
(***************************************************************************)
(* Mutual exclusion of executions, for any number of nodes and tickets, as *)
(* long as no running node loses its lease: processes may be killed at any *)
(* moment and calls may fail.                                              *)
(*                                                                         *)
(* The properties are not inductive as they stand.  What makes them so is  *)
(* that every execution belongs to the session its node has now (RunsOwn), *)
(* which in turn needs that a running node has a session with a live lease *)
(* (SessionsLive) and that a claim under construction names that session   *)
(* (BuildsCurrent).                                                        *)
(***************************************************************************)

\* A running node has a claim session whose lease etcd holds.
SessionsLive ==
    \A n \in Node : up[n] => session[n] # 0 /\ <<n, session[n]>> \in live

\* A claim being built names the current session, for both of its keys, and a
\* node that is down builds none.
BuildsCurrent ==
    \A n \in Node :
        /\ ~up[n] => pc[n] = "idle"
        /\ pc[n] \in {"lease", "commit"} => lease[n].claim = session[n]
        /\ \A t \in NoOverlap :
               pc[n] = "commit" /\ First(scan[n], t) => lease[n].overlap = session[n]

\* Execution e holds the claim of its ticket and, if its job must not overlap,
\* the lock, both under the session its node has now.
Holds(e) ==
    /\ up[e.node]
    /\ e.epoch = session[e.node]
    /\ e.ticket \in DOMAIN claimed
    /\ claimed[e.ticket] = [node |-> e.node, epoch |-> session[e.node]]
    /\ e.ticket \in NoOverlap =>
           /\ JobOf[e.ticket] \in DOMAIN overlap
           /\ overlap[JobOf[e.ticket]] = [node |-> e.node, epoch |-> session[e.node]]

RunsOwn == \A e \in execs : Holds(e)

\* The inductive invariant.
ExclusionInv ==
    /\ SessionsLive
    /\ BuildsCurrent
    /\ RunsOwn
    /\ NoConcurrentRuns
    /\ NoOverlappingRuns

\* The lease of a running node stays while the fault "expire" is excluded, and a
\* node that starts opens a session.
LEMMA SessionsLiveStep ==
    ASSUME "expire" \notin Faults, TypeOK, ExclusionInv, [Next]_vars
    PROVE  SessionsLive'
<1> USE DEF etcdVars, sessionVars, workerVars
<1>0. SessionsLive
  BY DEF ExclusionInv
<1>1. CASE UNCHANGED sessionVars
  BY <1>0, <1>1 DEF SessionsLive
<1>2. ASSUME NEW n \in Node, Down(n) PROVE SessionsLive'
  BY <1>0, <1>2 DEF SessionsLive, Down, TypeOK
<1>3. ASSUME NEW n \in Node, NewSession(n), \A m \in Node : m # n => up'[m] = up[m]
      PROVE  SessionsLive'
  BY <1>0, <1>3 DEF SessionsLive, NewSession, TypeOK
<1>4. ASSUME NEW n \in Node, WorkerStep(n) PROVE SessionsLive'
  <2>1. ASSUME NEW t \in Ticket, ClaimPanic(n, t) PROVE SessionsLive'
    BY <1>2, <2>1 DEF ClaimPanic
  <2> QED
    BY <1>1, <1>4, <2>1 DEF WorkerStep, Scan, ClaimBuild, OverlapBuild, ClaimWon, ClaimLost,
       OverlapHeld, OverlapFree, SkipStale, SkipError
<1>5. ASSUME NEW n \in Node, SessionStep(n) PROVE SessionsLive'
  BY <1>0, <1>5 DEF SessionStep, SessionDrop, SessionOpen, SessionsLive
<1>6. ASSUME NEW n \in Node, Crash(n) PROVE SessionsLive'
  BY <1>2, <1>6 DEF Crash
<1>7. ASSUME NEW n \in Node, Start(n) PROVE SessionsLive'
  BY <1>3, <1>7 DEF Start, TypeOK
<1>8. ASSUME NEW p \in live, LeaseExpire(p[1], p[2]) PROVE SessionsLive'
  <2>1. PICK n \in Node, e \in Nat : p = <<n, e>>
    BY DEF TypeOK
  <2>2. p[1] = n /\ p[2] = e
    BY <2>1
  <2>3. session[n] # e /\ live' = live \ {<<n, e>>} /\ up' = up /\ session' = session
    BY <1>8, <2>2 DEF LeaseExpire
  <2> QED
    BY <1>0, <2>3 DEF SessionsLive
<1>9. ASSUME NEW n \in Node, SweepStep(n) PROVE SessionsLive'
  BY <1>1, <1>9 DEF SweepStep, SweepList, SweepStop, Abandon
<1>10. ASSUME NEW t \in Ticket, Enqueue(t) \/ BackoffElapsed(t) PROVE SessionsLive'
  BY <1>1, <1>10 DEF Enqueue, BackoffElapsed
<1>11. ASSUME NEW e \in execs, Finish(e) PROVE SessionsLive'
  BY <1>1, <1>11 DEF Finish, FinishSuccess, FinishFailure, FinishError
<1>12. CASE UNCHANGED vars
  BY <1>1, <1>12 DEF vars
<1> QED
  BY <1>4, <1>5, <1>6, <1>7, <1>8, <1>9, <1>10, <1>11, <1>12 DEF Next

\* With "expire" excluded a running node keeps its session: the step that reads
\* the lease and the commit see the same one.
LEMMA BuildsCurrentStep ==
    ASSUME "expire" \notin Faults, TypeOK, ExclusionInv, [Next]_vars
    PROVE  BuildsCurrent'
<1> USE DEF etcdVars, sessionVars, workerVars
<1>0. SessionsLive /\ BuildsCurrent
  BY DEF ExclusionInv
<1>1. CASE UNCHANGED <<up, session, workerVars>>
  BY <1>0, <1>1 DEF BuildsCurrent, First
\* The loop of n leaves the claim it was building, or has not begun one.
<1>2. ASSUME NEW n \in Node, pc'[n] \notin {"lease", "commit"}, up'[n] \/ pc'[n] = "idle",
             \A m \in Node : m # n => /\ up'[m] = up[m] /\ session'[m] = session[m]
                                      /\ pc'[m] = pc[m] /\ scan'[m] = scan[m]
                                      /\ lease'[m] = lease[m]
      PROVE  BuildsCurrent'
  BY <1>0, <1>2 DEF BuildsCurrent, First
<1>3. ASSUME NEW n \in Node, Down(n) PROVE BuildsCurrent'
  BY <1>0, <1>2, <1>3 DEF Down, Idle, TypeOK
<1>4. ASSUME NEW n \in Node, WorkerStep(n) PROVE BuildsCurrent'
  <2>1. ASSUME NEW t \in Ticket, ClaimPanic(n, t) PROVE BuildsCurrent'
    BY <1>3, <2>1 DEF ClaimPanic
  <2>2. ASSUME NEW t \in Ticket, ClaimBuild(n, t) PROVE BuildsCurrent'
    <3>1. /\ lease'[n].claim = session[n]
          /\ \A m \in Node : m # n => pc'[m] = pc[m] /\ lease'[m] = lease[m]
          /\ pc'[n] = "commit" => t \notin NoOverlap
          /\ scan' = scan /\ up' = up /\ session' = session /\ up[n]
      BY <2>2 DEF ClaimBuild, TypeOK, Leases
    <3>2. \A u : First(scan[n], u) => u = t
      BY <2>2, FirstUnique DEF ClaimBuild, TypeOK, IsKeySpace
    <3> QED
      BY <1>0, <3>1, <3>2 DEF BuildsCurrent, First
  <2>3. ASSUME NEW t \in Ticket, OverlapBuild(n, t) PROVE BuildsCurrent'
    <3>1. /\ lease'[n].claim = lease[n].claim
          /\ lease'[n].overlap = session[n]
          /\ \A m \in Node : m # n => pc'[m] = pc[m] /\ lease'[m] = lease[m]
          /\ pc[n] = "lease"
          /\ scan' = scan /\ up' = up /\ session' = session /\ up[n]
      BY <2>3 DEF OverlapBuild, TypeOK, Leases
    <3> QED
      BY <1>0, <3>1 DEF BuildsCurrent, First
  <2>4. CASE Scan(n)
    BY <1>2, <2>4 DEF Scan, TypeOK
  <2>5. ASSUME NEW t \in Ticket,
               \/ ClaimWon(n, t) \/ ClaimLost(n, t) \/ OverlapHeld(n, t)
               \/ OverlapFree(n, t) \/ SkipStale(n, t) \/ SkipError(n, t)
        PROVE  BuildsCurrent'
    <3>1. pc'[n] \in {"idle", "visit", "overlap", "skip"}
      BY <2>5 DEF ClaimWon, ClaimLost, OverlapHeld, OverlapFree, SkipStale, SkipError,
                  Idle, MoveOn, TypeOK
    <3>2. /\ up' = up /\ session' = session /\ up[n]
          /\ \A m \in Node : m # n => /\ pc'[m] = pc[m] /\ scan'[m] = scan[m]
                                      /\ lease'[m] = lease[m]
      BY <2>5 DEF ClaimWon, ClaimLost, OverlapHeld, OverlapFree, SkipStale, SkipError,
                  Idle, MoveOn, TypeOK
    <3> QED
      BY <1>2, <3>1, <3>2
  <2> QED
    BY <1>4, <2>1, <2>2, <2>3, <2>4, <2>5 DEF WorkerStep
<1>5. ASSUME NEW n \in Node, SessionStep(n) PROVE BuildsCurrent'
  BY <1>0, <1>5 DEF SessionStep, SessionDrop, SessionOpen, SessionsLive
<1>6. ASSUME NEW n \in Node, Crash(n) PROVE BuildsCurrent'
  BY <1>3, <1>6 DEF Crash
<1>7. ASSUME NEW n \in Node, Start(n) PROVE BuildsCurrent'
  <2>1. pc[n] = "idle"
    BY <1>0, <1>7 DEF Start, BuildsCurrent
  <2> QED
    BY <1>2, <1>7, <2>1 DEF Start, NewSession, TypeOK
<1>8. ASSUME NEW p \in live, LeaseExpire(p[1], p[2]) PROVE BuildsCurrent'
  BY <1>1, <1>8 DEF LeaseExpire
<1>9. ASSUME NEW n \in Node, SweepStep(n) PROVE BuildsCurrent'
  BY <1>1, <1>9 DEF SweepStep, SweepList, SweepStop, Abandon
<1>10. ASSUME NEW t \in Ticket, Enqueue(t) \/ BackoffElapsed(t) PROVE BuildsCurrent'
  BY <1>1, <1>10 DEF Enqueue, BackoffElapsed
<1>11. ASSUME NEW e \in execs, Finish(e) PROVE BuildsCurrent'
  BY <1>1, <1>11 DEF Finish, FinishSuccess, FinishFailure, FinishError
<1>12. CASE UNCHANGED vars
  BY <1>1, <1>12 DEF vars
<1> QED
  BY <1>4, <1>5, <1>6, <1>7, <1>8, <1>9, <1>10, <1>11, <1>12 DEF Next

\* What the invariant says of the executions.
RunsExclusive == RunsOwn /\ NoConcurrentRuns /\ NoOverlappingRuns

\* Fewer executions, with what they hold unchanged, are still exclusive.
LEMMA FewerRuns ==
    ASSUME RunsExclusive, execs' \subseteq execs,
           \A e \in execs' : Holds(e) => Holds(e)'
    PROVE  RunsExclusive'
BY DEF RunsExclusive, RunsOwn, NoConcurrentRuns, NoOverlappingRuns

\* An execution holds what it held after a step that leaves the claims, the
\* locks, its node and its node's session alone.
LEMMA HoldsFrame ==
    ASSUME NEW e, Holds(e), claimed' = claimed, overlap' = overlap,
           up'[e.node] = up[e.node], session'[e.node] = session[e.node]
    PROVE  Holds(e)'
BY DEF Holds

\* A claim that is committed takes nothing from the executions in flight: their
\* tickets are claimed and their locks are held, and the comparisons exclude
\* both.
LEMMA ClaimSpares ==
    ASSUME NEW n \in Node, NEW t \in Ticket, ClaimCompare(n, t), ClaimTxn(n, t),
           NEW e, Holds(e),
           up'[e.node] = up[e.node], session'[e.node] = session[e.node]
    PROVE  /\ e.ticket # t
           /\ t \in NoOverlap /\ e.ticket \in NoOverlap => JobOf[e.ticket] # JobOf[t]
           /\ Holds(e)'
<1>1. e.ticket # t
  BY DEF Holds, ClaimCompare
<1>2. t \in NoOverlap /\ e.ticket \in NoOverlap => JobOf[e.ticket] # JobOf[t]
  BY DEF Holds, ClaimCompare
<1>3. /\ DOMAIN claimed' = DOMAIN claimed \cup {t}
      /\ \A x \in DOMAIN claimed : x # t => claimed'[x] = claimed[x]
  BY DEF ClaimTxn, Put
<1>4. CASE e.ticket \in NoOverlap /\ t \in NoOverlap
  <2>1. /\ DOMAIN overlap' = DOMAIN overlap \cup {JobOf[t]}
        /\ \A x \in DOMAIN overlap : x # JobOf[t] => overlap'[x] = overlap[x]
    BY <1>4 DEF ClaimTxn, Put
  <2> QED
    BY <1>1, <1>2, <1>3, <1>4, <2>1 DEF Holds
<1>5. CASE e.ticket \notin NoOverlap
  BY <1>1, <1>2, <1>3, <1>5 DEF Holds
<1>6. CASE t \notin NoOverlap
  <2>1. overlap' = overlap
    BY <1>6 DEF ClaimTxn
  <2> QED
    BY <1>1, <1>2, <1>3, <2>1 DEF Holds
<1> QED
  BY <1>4, <1>5, <1>6

\* The report of an execution takes nothing from another one.
LEMMA ReportSpares ==
    ASSUME RunsExclusive, NEW d \in execs, SuccessTxn(d) \/ FailureTxn(d),
           up' = up, session' = session, NEW e \in execs, e # d
    PROVE  Holds(e)'
<1>1. Holds(e)
  BY DEF RunsExclusive, RunsOwn
<1>2. e.ticket # d.ticket
  BY DEF RunsExclusive, NoConcurrentRuns
<1>3. d.ticket \in NoOverlap /\ e.ticket \in NoOverlap => JobOf[e.ticket] # JobOf[d.ticket]
  BY DEF RunsExclusive, NoOverlappingRuns
<1>4. CASE Release(d)
  <2>1. /\ DOMAIN claimed' = DOMAIN claimed \ {d.ticket}
        /\ \A x \in DOMAIN claimed' : claimed'[x] = claimed[x]
    BY <1>4 DEF Release, Delete
  <2>2. /\ DOMAIN overlap' = IF d.ticket \in NoOverlap
                             THEN DOMAIN overlap \ {JobOf[d.ticket]}
                             ELSE DOMAIN overlap
        /\ \A x \in DOMAIN overlap' : overlap'[x] = overlap[x]
    BY <1>4 DEF Release, Delete
  <2> QED
    BY <1>1, <1>2, <1>3, <2>1, <2>2 DEF Holds
<1>5. CASE UNCHANGED <<claimed, overlap>>
  BY <1>1, <1>5, HoldsFrame
<1> QED
  BY <1>4, <1>5 DEF SuccessTxn, FailureTxn

\* The loss of a lease that no running node's session has takes nothing from
\* an execution.
LEMMA ExpirySpares ==
    ASSUME NEW n, NEW k, NEW e, Holds(e), ~(e.node = n /\ session[n] = k),
           claimed' = Unlease(claimed, n, k), overlap' = Unlease(overlap, n, k),
           up' = up, session' = session
    PROVE  Holds(e)'
<1>1. /\ DOMAIN claimed' = {x \in DOMAIN claimed : ~(claimed[x].node = n /\ claimed[x].epoch = k)}
      /\ \A x \in DOMAIN claimed' : claimed'[x] = claimed[x]
  BY DEF Unlease, Delete
<1>2. /\ DOMAIN overlap' = {x \in DOMAIN overlap : ~(overlap[x].node = n /\ overlap[x].epoch = k)}
      /\ \A x \in DOMAIN overlap' : overlap'[x] = overlap[x]
  BY DEF Unlease, Delete
<1> QED
  BY <1>1, <1>2 DEF Holds

\* Every step keeps the executions exclusive.
LEMMA RunsExclusiveStep ==
    ASSUME "expire" \notin Faults, TypeOK, ExclusionInv, [Next]_vars
    PROVE  RunsExclusive'
<1> USE DEF etcdVars, sessionVars, workerVars
<1>0. SessionsLive /\ BuildsCurrent /\ RunsExclusive
  BY DEF ExclusionInv, RunsExclusive
<1>1. \A e \in execs : Holds(e) /\ e.node \in Node
  BY <1>0 DEF RunsExclusive, RunsOwn, TypeOK, Execution
<1>2. CASE UNCHANGED <<claimed, overlap, up, session, execs>>
  BY <1>0, <1>2, FewerRuns, HoldsFrame
<1>3. ASSUME NEW n \in Node, Down(n)
      PROVE  /\ execs' \subseteq execs
             /\ \A e \in execs' : /\ up'[e.node] = up[e.node]
                                  /\ session'[e.node] = session[e.node]
  BY <1>1, <1>3 DEF Down, TypeOK
<1>4. ASSUME NEW n \in Node, WorkerStep(n) PROVE RunsExclusive'
  <2>1. ASSUME NEW t \in Ticket, ClaimWon(n, t) PROVE RunsExclusive'
    <3>1. \A e \in execs : /\ e.ticket # t
                           /\ t \in NoOverlap /\ e.ticket \in NoOverlap
                              => JobOf[e.ticket] # JobOf[t]
                           /\ Holds(e)'
      BY <1>1, <2>1, ClaimSpares DEF ClaimWon
    <3>2. PICK new : /\ new.ticket = t /\ new.node = n /\ new.epoch = lease[n].claim
                     /\ execs' = execs \cup {new}
      BY <2>1 DEF ClaimWon
    <3>3. up[n] /\ up' = up /\ session' = session
      BY <2>1 DEF ClaimWon
    <3>4. Holds(new)'
      <4>1. lease[n].claim = session[n] /\ (t \in NoOverlap => lease[n].overlap = session[n])
        BY <1>0, <2>1 DEF BuildsCurrent, ClaimWon
      <4>2. t \in DOMAIN claimed' /\ claimed'[t] = [node |-> n, epoch |-> session[n]]
        BY <2>1, <4>1 DEF ClaimWon, ClaimTxn, Put
      <4>3. t \in NoOverlap => /\ JobOf[t] \in DOMAIN overlap'
                              /\ overlap'[JobOf[t]] = [node |-> n, epoch |-> session[n]]
        BY <2>1, <4>1 DEF ClaimWon, ClaimTxn, Put
      <4> QED
        BY <3>2, <3>3, <4>1, <4>2, <4>3 DEF Holds
    <3> QED
      BY <1>0, <3>1, <3>2, <3>3, <3>4
         DEF RunsExclusive, RunsOwn, NoConcurrentRuns, NoOverlappingRuns
  <2>2. ASSUME NEW t \in Ticket, ClaimPanic(n, t) PROVE RunsExclusive'
    <3>1. /\ execs' \subseteq execs
          /\ \A e \in execs' : up'[e.node] = up[e.node] /\ session'[e.node] = session[e.node]
      BY <1>3, <2>2 DEF ClaimPanic
    <3>2. CASE UNCHANGED <<pending, rev, claimed, overlap>>
      BY <1>0, <3>1, <3>2, FewerRuns, HoldsFrame
    <3>3. CASE ClaimCompare(n, t) /\ ClaimTxn(n, t)
      BY <1>0, <3>1, <3>3, FewerRuns, ClaimSpares
    <3> QED
      BY <2>2, <3>2, <3>3 DEF ClaimPanic
  <2> QED
    BY <1>2, <1>4, <2>1, <2>2 DEF WorkerStep, Scan, ClaimBuild, OverlapBuild, ClaimLost,
       OverlapHeld, OverlapFree, SkipStale, SkipError
<1>5. ASSUME NEW d \in execs, Finish(d) PROVE RunsExclusive'
  <2>1. execs' = execs \ {d} /\ up' = up /\ session' = session
    BY <1>5 DEF Finish, FinishSuccess, FinishFailure, FinishError
  <2>2. CASE SuccessTxn(d) \/ FailureTxn(d)
    BY <1>0, <2>1, <2>2, FewerRuns, ReportSpares
  <2>3. CASE UNCHANGED etcdVars
    BY <1>0, <2>1, <2>3, FewerRuns, HoldsFrame
  <2> QED
    BY <1>5, <2>2, <2>3 DEF Finish, FinishSuccess, FinishFailure, FinishError
<1>6. ASSUME NEW n \in Node, SessionStep(n) PROVE RunsExclusive'
  BY <1>0, <1>6 DEF SessionStep, SessionDrop, SessionOpen, SessionsLive
<1>7. ASSUME NEW n \in Node, Crash(n) PROVE RunsExclusive'
  <2>1. claimed' = claimed /\ overlap' = overlap /\ Down(n)
    BY <1>7 DEF Crash
  <2> QED
    BY <1>0, <1>3, <2>1, FewerRuns, HoldsFrame
<1>8. ASSUME NEW n \in Node, Start(n) PROVE RunsExclusive'
  <2>1. claimed' = claimed /\ overlap' = overlap /\ execs' = execs
    BY <1>8 DEF Start
  <2>2. \A e \in execs : up'[e.node] = up[e.node] /\ session'[e.node] = session[e.node]
    BY <1>1, <1>8 DEF Start, NewSession, Holds, TypeOK
  <2> QED
    BY <1>0, <2>1, <2>2, FewerRuns, HoldsFrame
<1>9. ASSUME NEW p \in live, LeaseExpire(p[1], p[2]) PROVE RunsExclusive'
  <2> DEFINE n == p[1]
             k == p[2]
  <2>1. /\ session[n] # k
        /\ claimed' = Unlease(claimed, n, k) /\ overlap' = Unlease(overlap, n, k)
        /\ up' = up /\ session' = session /\ execs' = execs
    BY <1>9 DEF LeaseExpire
  <2> HIDE DEF n, k
  <2> QED
    BY <1>0, <2>1, FewerRuns, ExpirySpares
<1>10. ASSUME NEW n \in Node, SweepStep(n) PROVE RunsExclusive'
  BY <1>2, <1>10 DEF SweepStep, SweepList, SweepStop, Abandon
<1>11. ASSUME NEW t \in Ticket, Enqueue(t) \/ BackoffElapsed(t) PROVE RunsExclusive'
  BY <1>2, <1>11 DEF Enqueue, BackoffElapsed
<1>12. CASE UNCHANGED vars
  BY <1>2, <1>12 DEF vars
<1> QED
  BY <1>4, <1>5, <1>6, <1>7, <1>8, <1>9, <1>10, <1>11, <1>12 DEF Next

\* The inductive invariant holds in every reachable state.
LEMMA Exclusion ==
    ASSUME "expire" \notin Faults
    PROVE  Spec => []ExclusionInv
<1>1. Init => ExclusionInv
  <2>1. Init => SessionsLive /\ BuildsCurrent
    BY DEF Init, SessionsLive, BuildsCurrent
  <2>2. Init => RunsOwn /\ NoConcurrentRuns /\ NoOverlappingRuns
    BY DEF Init, RunsOwn, NoConcurrentRuns, NoOverlappingRuns
  <2> QED
    BY <2>1, <2>2 DEF ExclusionInv
<1>2. TypeOK /\ ExclusionInv /\ [Next]_vars => ExclusionInv'
  BY SessionsLiveStep, BuildsCurrentStep, RunsExclusiveStep DEF ExclusionInv, RunsExclusive
<1> QED
  BY <1>1, <1>2, TypeCorrect, PTL DEF Spec

\* For any number of nodes and tickets, whatever is killed and whatever call
\* fails: while no running node loses its lease, a ticket has at most one
\* execution in flight.
THEOREM RunsAreExclusive ==
    ASSUME "expire" \notin Faults
    PROVE  Spec => []NoConcurrentRuns
<1>1. ExclusionInv => NoConcurrentRuns
  BY DEF ExclusionInv
<1> QED
  BY <1>1, Exclusion, PTL

\* Under the same condition a no_overlap job has at most one execution in
\* flight, of whichever of its tickets.
THEOREM JobsDoNotOverlap ==
    ASSUME "expire" \notin Faults
    PROVE  Spec => []NoOverlappingRuns
<1>1. ExclusionInv => NoOverlappingRuns
  BY DEF ExclusionInv
<1> QED
  BY <1>1, Exclusion, PTL

\* Under the same condition an execution whose lease etcd holds has its claim:
\* neither a report of another execution nor a sweep nor the end of a dead
\* node's lease takes it away.
THEOREM RunsKeepTheirClaim ==
    ASSUME "expire" \notin Faults
    PROVE  Spec => []LiveRunKeepsClaim
<1>1. ExclusionInv => LiveRunKeepsClaim
  BY DEF ExclusionInv, RunsOwn, Holds, LiveRunKeepsClaim
<1> QED
  BY <1>1, Exclusion, PTL

\* Under the same condition a claim key rides a lease that etcd holds, that of a dead
\* node too until it expires, so that no claim outlives its node for longer than a TTL.
THEOREM ClaimsRide ==
    ASSUME "expire" \notin Faults
    PROVE  Spec => []ClaimsRideALease
<1>1. Init => ClaimsRideALease
  BY DEF Init, ClaimsRideALease, NoKeys
<1>2. ASSUME TypeOK, ExclusionInv, ClaimsRideALease, [Next]_vars PROVE ClaimsRideALease'
  <2> USE DEF etcdVars, sessionVars, workerVars
  <2>1. ASSUME live \subseteq live', DOMAIN claimed' \subseteq DOMAIN claimed,
               \A t \in DOMAIN claimed' : claimed'[t] = claimed[t]
        PROVE  ClaimsRideALease'
    BY <1>2, <2>1 DEF ClaimsRideALease
  <2>2. CASE UNCHANGED <<live, claimed>>
    BY <2>1, <2>2
  <2>3. ASSUME NEW e \in execs, Finish(e) PROVE ClaimsRideALease'
    <3>1. live' = live /\ (claimed' = claimed \/ claimed' = Delete(claimed, {e.ticket}))
      BY <2>3 DEF Finish, FinishSuccess, FinishFailure, FinishError, SuccessTxn, FailureTxn,
                  Release
    <3> QED
      BY <2>1, <3>1 DEF Delete
  <2>4. ASSUME NEW n \in Node, WorkerStep(n) PROVE ClaimsRideALease'
    <3>1. ASSUME NEW t \in Ticket, up[n], pc[n] = "commit", ClaimLeased(n), ClaimTxn(n, t),
                 live' = live
          PROVE  ClaimsRideALease'
      <4>1. lease[n].claim = session[n] /\ session[n] # 0
        BY <1>2, <3>1 DEF ExclusionInv, SessionsLive, BuildsCurrent
      <4>2. <<n, lease[n].claim>> \in live
        BY <3>1, <4>1 DEF ClaimLeased, Leased
      <4>3. claimed' = Put(claimed, t, [node |-> n, epoch |-> lease[n].claim])
        BY <3>1 DEF ClaimTxn
      <4>4. /\ claimed'[t] = [node |-> n, epoch |-> lease[n].claim]
            /\ \A x \in DOMAIN claimed' : x # t => x \in DOMAIN claimed /\ claimed'[x] = claimed[x]
        BY <4>3 DEF Put
      <4> QED
        BY <1>2, <3>1, <4>2, <4>4 DEF ClaimsRideALease
    <3>2. ASSUME NEW t \in Ticket, ClaimWon(n, t) PROVE ClaimsRideALease'
      BY <3>1, <3>2 DEF ClaimWon
    <3>3. ASSUME NEW t \in Ticket, ClaimPanic(n, t) PROVE ClaimsRideALease'
      BY <2>2, <3>1, <3>3 DEF ClaimPanic, Down
    <3> QED
      BY <2>2, <2>4, <3>2, <3>3 DEF WorkerStep, Scan, ClaimBuild, OverlapBuild, ClaimLost,
         OverlapHeld, OverlapFree, SkipStale, SkipError
  <2>5. ASSUME NEW n \in Node, SessionStep(n) \/ Start(n) PROVE ClaimsRideALease'
    BY <2>1, <2>5 DEF SessionStep, SessionDrop, SessionOpen, Start, NewSession
  <2>6. ASSUME NEW p \in live, LeaseExpire(p[1], p[2]) PROVE ClaimsRideALease'
    <3>1. live' = live \ {<<p[1], p[2]>>} /\ claimed' = Unlease(claimed, p[1], p[2])
      BY <2>6 DEF LeaseExpire
    <3>2. ASSUME NEW t \in DOMAIN claimed'
          PROVE  <<claimed'[t].node, claimed'[t].epoch>> \in live'
      <4>1. /\ t \in DOMAIN claimed /\ claimed'[t] = claimed[t]
            /\ ~(claimed[t].node = p[1] /\ claimed[t].epoch = p[2])
        BY <3>1 DEF Unlease, Delete
      <4>2. <<claimed[t].node, claimed[t].epoch>> \in live
        BY <1>2, <4>1 DEF ClaimsRideALease
      <4> QED
        BY <3>1, <4>1, <4>2
    <3> QED
      BY <3>2 DEF ClaimsRideALease
  <2>7. ASSUME NEW n \in Node, SweepStep(n) \/ Crash(n) PROVE ClaimsRideALease'
    BY <2>2, <2>7 DEF SweepStep, SweepList, SweepStop, Abandon, Crash, Down
  <2>8. ASSUME NEW t \in Ticket, Enqueue(t) \/ BackoffElapsed(t) PROVE ClaimsRideALease'
    BY <2>2, <2>8 DEF Enqueue, BackoffElapsed
  <2>9. CASE UNCHANGED vars
    BY <2>2, <2>9 DEF vars
  <2> QED
    BY <1>2, <2>3, <2>4, <2>5, <2>6, <2>7, <2>8, <2>9 DEF Next
<1> QED
  BY <1>1, <1>2, TypeCorrect, Exclusion, PTL DEF Spec

-----------------------------------------------------------------------------
(* The overlap lock *)

\* The claim transaction puts the lock with the claim, under one lease.
LEMMA ClaimLocks ==
    ASSUME TypeOK, BuildsCurrent, LockHasClaim, NEW n \in Node, NEW t \in Ticket,
           pc[n] = "commit", First(scan[n], t), ClaimCompare(n, t), ClaimTxn(n, t)
    PROVE  LockHasClaim'
<1>1. /\ DOMAIN claimed' = DOMAIN claimed \cup {t}
      /\ claimed'[t] = [node |-> n, epoch |-> lease[n].claim]
      /\ \A x \in DOMAIN claimed : x # t => claimed'[x] = claimed[x]
  BY DEF ClaimTxn, Put
<1>2. t \notin DOMAIN claimed
  BY DEF ClaimCompare
<1>3. CASE t \in NoOverlap
  <2>1. /\ DOMAIN overlap' = DOMAIN overlap \cup {JobOf[t]}
        /\ overlap'[JobOf[t]] = [node |-> n, epoch |-> lease[n].overlap]
        /\ \A x \in DOMAIN overlap : x # JobOf[t] => overlap'[x] = overlap[x]
    BY <1>3 DEF ClaimTxn, Put
  <2>2. lease[n].claim = lease[n].overlap
    BY <1>3 DEF BuildsCurrent
  <2> QED
    BY <1>1, <1>2, <1>3, <2>1, <2>2 DEF LockHasClaim
<1>4. CASE t \notin NoOverlap
  <2>1. overlap' = overlap
    BY <1>4 DEF ClaimTxn
  <2> QED
    BY <1>1, <1>2, <2>1 DEF LockHasClaim
<1> QED
  BY <1>3, <1>4

\* The report of an execution deletes the lock of its own job with its claim.
LEMMA ReleaseUnlocks ==
    ASSUME LockHasClaim, NEW e \in execs, Release(e)
    PROVE  LockHasClaim'
<1>1. /\ DOMAIN claimed' = DOMAIN claimed \ {e.ticket}
      /\ \A x \in DOMAIN claimed' : claimed'[x] = claimed[x]
  BY DEF Release, Delete
<1>2. CASE e.ticket \in NoOverlap
  <2>1. /\ DOMAIN overlap' = DOMAIN overlap \ {JobOf[e.ticket]}
        /\ \A x \in DOMAIN overlap' : overlap'[x] = overlap[x]
    BY <1>2 DEF Release, Delete
  <2> QED
    BY <1>1, <2>1 DEF LockHasClaim
<1>3. CASE e.ticket \notin NoOverlap
  <2>1. overlap' = overlap
    BY <1>3 DEF Release
  <2> QED
    BY <1>1, <1>3, <2>1 DEF LockHasClaim
<1> QED
  BY <1>2, <1>3

\* A lease takes the lock and the claim that ride it together.
LEMMA ExpiryUnlocks ==
    ASSUME LockHasClaim, NEW n, NEW k,
           claimed' = Unlease(claimed, n, k), overlap' = Unlease(overlap, n, k)
    PROVE  LockHasClaim'
<1>1. /\ DOMAIN claimed' = {x \in DOMAIN claimed : ~(claimed[x].node = n /\ claimed[x].epoch = k)}
      /\ \A x \in DOMAIN claimed' : claimed'[x] = claimed[x]
  BY DEF Unlease, Delete
<1>2. /\ DOMAIN overlap' = {x \in DOMAIN overlap : ~(overlap[x].node = n /\ overlap[x].epoch = k)}
      /\ \A x \in DOMAIN overlap' : overlap'[x] = overlap[x]
  BY DEF Unlease, Delete
<1> QED
  BY <1>1, <1>2 DEF LockHasClaim

\* Every step leaves every lock with a claim.
LEMMA LockStep ==
    ASSUME TypeOK, ExclusionInv, LockHasClaim, [Next]_vars
    PROVE  LockHasClaim'
<1> USE DEF etcdVars, sessionVars, workerVars
<1>0. BuildsCurrent
  BY DEF ExclusionInv
<1>1. CASE UNCHANGED <<claimed, overlap>>
  BY <1>1 DEF LockHasClaim
<1>2. ASSUME NEW n \in Node, WorkerStep(n) PROVE LockHasClaim'
  <2>1. ASSUME NEW t \in Ticket, ClaimWon(n, t) PROVE LockHasClaim'
    BY <1>0, <2>1, ClaimLocks DEF ClaimWon
  <2>2. ASSUME NEW t \in Ticket, ClaimPanic(n, t) PROVE LockHasClaim'
    <3>1. pc[n] = "commit" /\ First(scan[n], t)
      BY <2>2 DEF ClaimPanic
    <3>2. UNCHANGED <<claimed, overlap>> \/ (ClaimCompare(n, t) /\ ClaimTxn(n, t))
      BY <2>2 DEF ClaimPanic
    <3> QED
      BY <1>0, <1>1, <3>1, <3>2, ClaimLocks
  <2> QED
    BY <1>1, <1>2, <2>1, <2>2 DEF WorkerStep, Scan, ClaimBuild, OverlapBuild, ClaimLost,
       OverlapHeld, OverlapFree, SkipStale, SkipError
<1>3. ASSUME NEW e \in execs, Finish(e) PROVE LockHasClaim'
  <2>1. SuccessTxn(e) \/ FailureTxn(e) \/ UNCHANGED <<claimed, overlap>>
    BY <1>3 DEF Finish, FinishSuccess, FinishFailure, FinishError
  <2>2. Release(e) \/ UNCHANGED <<claimed, overlap>>
    BY <2>1 DEF SuccessTxn, FailureTxn
  <2> QED
    BY <1>1, <2>2, ReleaseUnlocks
<1>4. ASSUME NEW p \in live, LeaseExpire(p[1], p[2]) PROVE LockHasClaim'
  BY <1>4, ExpiryUnlocks DEF LeaseExpire
<1>5. ASSUME NEW n \in Node, SessionStep(n) \/ Crash(n) \/ Start(n) PROVE LockHasClaim'
  BY <1>1, <1>5 DEF SessionStep, SessionDrop, SessionOpen, Crash, Start
<1>6. ASSUME NEW n \in Node, SweepStep(n) PROVE LockHasClaim'
  BY <1>1, <1>6 DEF SweepStep, SweepList, SweepStop, Abandon
<1>7. ASSUME NEW t \in Ticket, Enqueue(t) \/ BackoffElapsed(t) PROVE LockHasClaim'
  BY <1>1, <1>7 DEF Enqueue, BackoffElapsed
<1>8. CASE UNCHANGED vars
  BY <1>1, <1>8 DEF vars
<1> QED
  BY <1>2, <1>3, <1>4, <1>5, <1>6, <1>7, <1>8 DEF Next

\* While no running node loses its lease, the lock of a no_overlap job is there
\* only as long as a ticket of the job is claimed under the same lease: whatever
\* is killed and whatever call fails, no job stays locked for good.
THEOREM LocksAreNotLeftBehind ==
    ASSUME "expire" \notin Faults
    PROVE  Spec => []LockHasClaim
<1>1. Init => LockHasClaim
  BY DEF Init, LockHasClaim, NoKeys
<1>2. TypeOK /\ ExclusionInv /\ LockHasClaim /\ [Next]_vars => LockHasClaim'
  BY LockStep
<1> QED
  BY <1>1, <1>2, TypeCorrect, Exclusion, PTL DEF Spec

-----------------------------------------------------------------------------
(***************************************************************************)
(* The queue implements Delivery under the conditions of QueueDelivery:    *)
(* processes are killed at any moment and nothing else fails, no job       *)
(* excludes overlap, and no leader sweeps.                                 *)
(*                                                                         *)
(* The argument has three parts.  RevInv, which needs no condition: a      *)
(* pending key that still has the revision a node has read still has the   *)
(* attempt it has read, so that a claim counts up by one.  StepEffect:     *)
(* seen from outside, a step of the queue is one of six, or one of two     *)
(* more where a call fails.  And, from those, that an execution in flight  *)
(* carries the attempt in the queue (RunsQueued), the results (Reported)   *)
(* and, without the two, the refinement.                                   *)
(***************************************************************************)

\* The conditions of QueueDelivery, but for the calls, which may fail.
LeasesHold ==
    /\ NoOverlap = {}
    /\ Sweepers = {}
    /\ "expire" \notin Faults

\* The conditions of QueueDelivery.
OnlyKills ==
    /\ LeasesHold
    /\ "rpc" \notin Faults

-----------------------------------------------------------------------------
(* The revisions *)

\* No key has a revision that was not given out yet, and a node that has read
\* the current revision of a ticket has read its current attempt.
RevInv ==
    /\ \A t \in DOMAIN pending : pending[t].rev <= rev[t]
    /\ \A n \in Node : \A t \in DOMAIN scan[n] :
           /\ scan[n][t].rev <= rev[t]
           /\ t \in DOMAIN pending /\ pending[t].rev = scan[n][t].rev
              => pending[t].attempt = scan[n][t].attempt

\* A pending key is left alone but for its NotBefore, deleted, or put with a new
\* revision.
PendingMoves ==
    \A t \in Ticket :
        \/ /\ rev'[t] = rev[t]
           /\ t \in DOMAIN pending' =>
                  /\ t \in DOMAIN pending
                  /\ pending'[t].rev = pending[t].rev
                  /\ pending'[t].attempt = pending[t].attempt
        \/ /\ rev'[t] = rev[t] + 1
           /\ t \in DOMAIN pending' /\ pending'[t].rev = rev[t] + 1

\* What a node has read is kept, forgotten, or read anew.
ScanMoves ==
    \A n \in Node : \A t \in DOMAIN scan'[n] :
        \/ t \in DOMAIN scan[n] /\ scan'[n][t] = scan[n][t]
        \/ /\ UNCHANGED <<pending, rev>>
           /\ t \in DOMAIN pending
           /\ scan'[n][t].rev = pending[t].rev
           /\ scan'[n][t].attempt = pending[t].attempt

\* Such moves keep the revisions and the attempts together.
LEMMA RevFrame ==
    ASSUME TypeOK, TypeOK', RevInv, PendingMoves, ScanMoves
    PROVE  RevInv'
<1>1. /\ \A t \in DOMAIN pending : t \in Ticket /\ pending[t].rev \in Nat
      /\ \A t \in DOMAIN pending' : t \in Ticket /\ pending'[t].rev \in Nat
      /\ \A n \in Node : \A t \in DOMAIN scan[n] : t \in Ticket /\ scan[n][t].rev \in Nat
      /\ \A n \in Node : \A t \in DOMAIN scan'[n] : t \in Ticket /\ scan'[n][t].rev \in Nat
      /\ \A t \in Ticket : rev[t] \in Nat /\ rev'[t] \in Nat
  BY DEF TypeOK, IsKeySpace, PendingValue, ScanValue
<1>2. ASSUME NEW t \in DOMAIN pending' PROVE pending'[t].rev <= rev'[t]
  BY <1>1, <1>2 DEF RevInv, PendingMoves
<1>3. ASSUME NEW n \in Node, NEW t \in DOMAIN scan'[n]
      PROVE  /\ scan'[n][t].rev <= rev'[t]
             /\ t \in DOMAIN pending' /\ pending'[t].rev = scan'[n][t].rev
                => pending'[t].attempt = scan'[n][t].attempt
  <2>1. CASE t \in DOMAIN scan[n] /\ scan'[n][t] = scan[n][t]
    BY <1>1, <2>1 DEF RevInv, PendingMoves
  <2>2. CASE /\ UNCHANGED <<pending, rev>>
             /\ t \in DOMAIN pending
             /\ scan'[n][t].rev = pending[t].rev
             /\ scan'[n][t].attempt = pending[t].attempt
    BY <1>1, <2>2 DEF RevInv
  <2> QED
    BY <1>3, <2>1, <2>2 DEF ScanMoves
<1> QED
  BY <1>2, <1>3 DEF RevInv

\* A put of a pending key is such a move.
LEMMA PutMoves ==
    ASSUME TypeOK, NEW t \in Ticket, NEW a, NEW w, PutPending(t, a, w)
    PROVE  PendingMoves
<1>1. /\ DOMAIN pending' = DOMAIN pending \cup {t}
      /\ pending'[t].rev = rev[t] + 1
      /\ \A x \in DOMAIN pending : x # t => pending'[x] = pending[x]
  BY DEF PutPending, Put
<1>2. rev'[t] = rev[t] + 1 /\ \A x \in Ticket : x # t => rev'[x] = rev[x]
  BY DEF PutPending, TypeOK
<1> QED
  BY <1>1, <1>2 DEF PendingMoves

\* So is the delete of pending keys.
LEMMA DeleteMoves ==
    ASSUME NEW ks, pending' = Delete(pending, ks), rev' = rev
    PROVE  PendingMoves
BY DEF Delete, PendingMoves

\* The worker loop of a node forgets what it has read of tickets it has visited.
LEMMA LoopMoves ==
    ASSUME TypeOK, NEW n \in Node, NEW t, Idle(n) \/ MoveOn(n, t)
    PROVE  ScanMoves
<1>1. \A m \in Node : m # n => scan'[m] = scan[m]
  BY DEF Idle, MoveOn, TypeOK
<1>2. scan'[n] = NoKeys \/ scan'[n] = Delete(scan[n], {t})
  BY DEF Idle, MoveOn, TypeOK
<1>3. \A u \in DOMAIN scan'[n] : u \in DOMAIN scan[n] /\ scan'[n][u] = scan[n][u]
  BY <1>2 DEF NoKeys, Delete
<1> QED
  BY <1>1, <1>3 DEF ScanMoves

\* Every step moves revisions and pages in these ways, whatever fails.
LEMMA RevStep ==
    ASSUME TypeOK, RevInv, [Next]_vars
    PROVE  RevInv'
<1> USE DEF etcdVars, sessionVars, workerVars
<1>0. TypeOK'
  BY TypeStep
<1>1. ASSUME UNCHANGED <<pending, rev>> PROVE PendingMoves
  BY <1>1 DEF PendingMoves
<1>2. ASSUME UNCHANGED scan PROVE ScanMoves
  BY <1>2 DEF ScanMoves
<1>3. ASSUME NEW n \in Node, WorkerStep(n) PROVE PendingMoves /\ ScanMoves
  <2>1. CASE Scan(n)
    <3>1. \A m \in Node : m # n => scan'[m] = scan[m]
      BY <2>1 DEF Scan, TypeOK
    <3>2. PICK due : /\ due \subseteq DOMAIN pending
                     /\ scan'[n] = [t \in due |-> [attempt |-> pending[t].attempt,
                                                   rev |-> pending[t].rev]]
      BY <2>1 DEF Scan, TypeOK, Window
    <3>3. UNCHANGED <<pending, rev>>
      BY <2>1 DEF Scan
    <3> QED
      BY <1>1, <3>1, <3>2, <3>3 DEF ScanMoves
  <2>2. ASSUME NEW t \in Ticket, ClaimBuild(n, t) \/ OverlapBuild(n, t) \/ OverlapHeld(n, t)
        PROVE  PendingMoves /\ ScanMoves
    BY <1>1, <1>2, <2>2 DEF ClaimBuild, OverlapBuild, OverlapHeld
  <2>3. ASSUME NEW t \in Ticket, ClaimWon(n, t) PROVE PendingMoves /\ ScanMoves
    BY <2>3, PutMoves, LoopMoves DEF ClaimWon, ClaimTxn
  <2>4. ASSUME NEW t \in Ticket, ClaimLost(n, t) \/ OverlapFree(n, t)
        PROVE  PendingMoves /\ ScanMoves
    BY <1>1, <1>2, <2>4, LoopMoves DEF ClaimLost, OverlapFree
  <2>5. ASSUME NEW t \in Ticket, ClaimPanic(n, t) PROVE PendingMoves /\ ScanMoves
    <3>1. ScanMoves
      BY <2>5, LoopMoves DEF ClaimPanic, Down
    <3>2. UNCHANGED <<pending, rev>> \/ ClaimTxn(n, t)
      BY <2>5 DEF ClaimPanic
    <3> QED
      BY <1>1, <3>1, <3>2, PutMoves DEF ClaimTxn
  <2>6. ASSUME NEW t \in Ticket, SkipStale(n, t) \/ SkipError(n, t)
        PROVE  PendingMoves /\ ScanMoves
    <3>1. ScanMoves
      BY <2>6, LoopMoves DEF SkipStale, SkipError
    <3>2. rev' = rev /\ (pending' = pending \/ pending' = Delete(pending, {t}))
      BY <2>6 DEF SkipStale, SkipError, SkipTxn
    <3> QED
      BY <1>1, <3>1, <3>2, DeleteMoves
  <2> QED
    BY <1>3, <2>1, <2>2, <2>3, <2>4, <2>5, <2>6 DEF WorkerStep
<1>4. ASSUME NEW e \in execs, Finish(e) PROVE PendingMoves /\ ScanMoves
  <2>1. scan' = scan
    BY <1>4 DEF Finish, FinishSuccess, FinishFailure, FinishError
  <2>2. SuccessTxn(e) \/ FailureTxn(e) \/ UNCHANGED <<pending, rev>>
    BY <1>4 DEF Finish, FinishSuccess, FinishFailure, FinishError
  <2>3. e.ticket \in Ticket
    BY DEF TypeOK, Execution
  <2>4. \/ UNCHANGED <<pending, rev>>
        \/ rev' = rev /\ pending' = Delete(pending, {e.ticket})
        \/ PutPending(e.ticket, e.attempt, TRUE)
    BY <2>2 DEF SuccessTxn, FailureTxn, Requeue
  <2> QED
    BY <1>1, <1>2, <2>1, <2>3, <2>4, PutMoves, DeleteMoves
<1>5. ASSUME NEW n \in Node, Crash(n) PROVE PendingMoves /\ ScanMoves
  BY <1>1, <1>5, LoopMoves DEF Crash, Down
<1>6. ASSUME NEW n \in Node, SessionStep(n) \/ Start(n) PROVE PendingMoves /\ ScanMoves
  BY <1>1, <1>2, <1>6 DEF SessionStep, SessionDrop, SessionOpen, Start
<1>7. ASSUME NEW n \in Node, SweepStep(n) PROVE PendingMoves /\ ScanMoves
  <2>1. CASE SweepList(n) \/ SweepStop(n)
    BY <1>1, <1>2, <2>1 DEF SweepList, SweepStop
  <2>2. ASSUME NEW t \in Ticket, Abandon(n, t) PROVE PendingMoves /\ ScanMoves
    BY <1>1, <1>2, <2>2, DeleteMoves DEF Abandon
  <2> QED
    BY <1>7, <2>1, <2>2 DEF SweepStep
<1>8. ASSUME NEW t \in Ticket, Enqueue(t) PROVE PendingMoves /\ ScanMoves
  BY <1>2, <1>8, PutMoves DEF Enqueue
<1>9. ASSUME NEW t \in Ticket, BackoffElapsed(t) PROVE PendingMoves /\ ScanMoves
  <2>1. /\ DOMAIN pending' = DOMAIN pending
        /\ \A x \in DOMAIN pending : /\ pending'[x].rev = pending[x].rev
                                     /\ pending'[x].attempt = pending[x].attempt
    BY <1>9 DEF BackoffElapsed, TypeOK, IsKeySpace, PendingValue
  <2> QED
    BY <1>2, <1>9, <2>1 DEF BackoffElapsed, PendingMoves
<1>10. ASSUME NEW p \in live, LeaseExpire(p[1], p[2]) PROVE PendingMoves /\ ScanMoves
  BY <1>1, <1>2, <1>10 DEF LeaseExpire
<1>11. CASE UNCHANGED vars
  BY <1>0, <1>1, <1>2, <1>11, RevFrame DEF vars
<1> QED
  BY <1>0, <1>3, <1>4, <1>5, <1>6, <1>7, <1>8, <1>9, <1>10, <1>11, RevFrame DEF Next

-----------------------------------------------------------------------------
(* What a step does, seen from outside *)

\* The attempts in the queue, without revisions and NotBefore.
Spent == [t \in DOMAIN pending |-> pending[t].attempt]

Result1(e, s) == [ticket |-> e.ticket, attempt |-> e.attempt, status |-> s, node |-> e.node]

\* Nothing that Delivery sees happens.
Unseen == UNCHANGED <<Spent, execs, results, fires>>

\* A ticket is enqueued.
Fires(t) ==
    /\ t \notin DOMAIN Spent
    /\ fires[t] < MaxFires
    /\ fires' = [fires EXCEPT ![t] = @ + 1]
    /\ Spent' = Put(Spent, t, 0)
    /\ UNCHANGED <<execs, results>>

\* A node takes a ticket that does not run.
Takes(n, t) ==
    /\ t \in DOMAIN Spent
    /\ \A e \in execs : e.ticket # t
    /\ Spent' = Put(Spent, t, Spent[t] + 1)
    /\ \E e : /\ e.node = n /\ e.ticket = t /\ e.attempt = Spent[t] + 1
              /\ execs' = execs \cup {e}
    /\ UNCHANGED <<results, fires>>

\* A node dies.
Dies(n) ==
    /\ execs' = {e \in execs : e.node # n}
    /\ UNCHANGED <<Spent, results, fires>>

\* An execution ends the life of its ticket.
Ends(e) ==
    /\ execs' = execs \ {e}
    /\ \/ results' = results \cup {Result1(e, "success")}
       \/ GiveUp(e) /\ results' = results \cup {Result1(e, "failed_permanent")}
    /\ Spent' = Delete(Spent, {e.ticket})
    /\ UNCHANGED fires

\* An execution fails and its ticket stays.
Fails(e) ==
    /\ execs' = execs \ {e}
    /\ ~GiveUp(e)
    /\ results' = results \cup {Result1(e, "failed")}
    /\ Spent' = Put(Spent, e.ticket, e.attempt)
    /\ UNCHANGED fires

Effect ==
    \/ Unseen
    \/ \E t \in Ticket : Fires(t)
    \/ \E n \in Node, t \in Ticket : Takes(n, t)
    \/ \E n \in Node : Dies(n)
    \/ \E e \in execs : Ends(e) \/ Fails(e)

\* The report of an execution is lost, and the execution is over.
Loses(e) ==
    /\ execs' = execs \ {e}
    /\ UNCHANGED <<Spent, results, fires>>

\* A node takes a ticket and dies before it knows.
Wastes(n, t) ==
    /\ t \in DOMAIN Spent
    /\ \A e \in execs : e.ticket # t
    /\ execs' = {e \in execs : e.node # n}
    /\ Spent' = Put(Spent, t, Spent[t] + 1)
    /\ UNCHANGED <<results, fires>>

FailedCall ==
    \/ \E e \in execs : Loses(e)
    \/ \E n \in Node, t \in Ticket : Wastes(n, t)

\* Nobody sweeps.
NoSweep == \A n \in Node : DOMAIN sweep[n] = {}

\* A put of a pending key, as it is seen.
LEMMA PutSpent ==
    ASSUME NEW t, NEW a, NEW w, PutPending(t, a, w)
    PROVE  Spent' = Put(Spent, t, a)
<1>1. /\ DOMAIN pending' = DOMAIN pending \cup {t}
      /\ pending'[t].attempt = a
      /\ \A x \in DOMAIN pending : x # t => pending'[x] = pending[x]
  BY DEF PutPending, Put
<1> QED
  BY <1>1 DEF Spent, Put

\* A delete of a pending key, as it is seen.
LEMMA DeleteSpent ==
    ASSUME NEW ks, pending' = Delete(pending, ks)
    PROVE  Spent' = Delete(Spent, ks)
<1>1. /\ DOMAIN pending' = DOMAIN pending \ ks
      /\ \A x \in DOMAIN pending' : pending'[x] = pending[x]
  BY DEF Delete
<1> QED
  BY <1>1 DEF Spent, Delete

\* Under the conditions, every step has one of the six effects, or a call fails.
LEMMA StepEffect ==
    ASSUME LeasesHold, TypeOK, ExclusionInv, SkipsNoOverlap, RevInv, NoSweep, [Next]_vars
    PROVE  Effect \/ ("rpc" \in Faults /\ FailedCall)
<1> DEFINE Seen == Effect \/ ("rpc" \in Faults /\ FailedCall)
<1> USE DEF etcdVars, sessionVars, workerVars
<1>0. /\ "expire" \notin Faults
      /\ \A n \in Node, t \in Ticket : pc[n] \in {"overlap", "skip"} => ~First(scan[n], t)
  BY DEF LeasesHold, SkipsNoOverlap
<1>1. CASE UNCHANGED <<pending, execs, results, fires>>
  BY <1>1 DEF Effect, Unseen, Spent
<1>2. ASSUME NEW n \in Node, Down(n), UNCHANGED <<pending, results, fires>> PROVE Seen
  <2>1. Dies(n)
    BY <1>2 DEF Down, Dies, Spent
  <2> QED
    BY <2>1 DEF Effect
<1>3. ASSUME NEW n \in Node, WorkerStep(n) PROVE Seen
  <2>0. ASSUME NEW t \in Ticket, First(scan[n], t), ClaimCompare(n, t), ClaimTxn(n, t)
        PROVE  /\ scan[n][t].attempt = Spent[t] /\ t \in DOMAIN Spent
               /\ \A e \in execs : e.ticket # t
               /\ Spent' = Put(Spent, t, Spent[t] + 1)
    <3>1. t \in DOMAIN scan[n] /\ t \in DOMAIN pending /\ t \notin DOMAIN claimed
      BY <2>0 DEF ClaimCompare, First
    <3>2. scan[n][t].attempt = Spent[t] /\ t \in DOMAIN Spent
      BY <2>0, <3>1 DEF ClaimCompare, RevInv, Spent
    <3>3. \A e \in execs : e.ticket # t
      BY <3>1 DEF ExclusionInv, RunsOwn, Holds
    <3>4. Spent' = Put(Spent, t, Spent[t] + 1)
      BY <2>0, <3>2, PutSpent DEF ClaimTxn
    <3> QED
      BY <3>2, <3>3, <3>4
  <2>1. ASSUME NEW t \in Ticket, ClaimWon(n, t) PROVE Seen
    <3>1. First(scan[n], t) /\ ClaimCompare(n, t) /\ ClaimTxn(n, t) /\ UNCHANGED <<results, fires>>
      BY <2>1 DEF ClaimWon
    <3>2. \E e : /\ e.node = n /\ e.ticket = t /\ e.attempt = Spent[t] + 1
                 /\ execs' = execs \cup {e}
      BY <2>0, <2>1, <3>1 DEF ClaimWon
    <3> QED
      BY <2>0, <3>1, <3>2 DEF Effect, Takes
  <2>2. ASSUME NEW t \in Ticket, ClaimPanic(n, t) PROVE Seen
    <3>1. First(scan[n], t) /\ Down(n) /\ UNCHANGED <<results, fires>>
      BY <2>2 DEF ClaimPanic
    <3>2. CASE UNCHANGED <<pending, rev, claimed, overlap>>
      BY <1>2, <3>1, <3>2
    <3>3. CASE "rpc" \in Faults /\ ClaimCompare(n, t) /\ ClaimTxn(n, t)
      <4>1. Wastes(n, t)
        BY <2>0, <3>1, <3>3 DEF Wastes, Down
      <4> QED
        BY <3>3, <4>1 DEF FailedCall
    <3> QED
      BY <2>2, <3>2, <3>3 DEF ClaimPanic
  <2>3. ASSUME NEW t \in Ticket, SkipStale(n, t) \/ SkipError(n, t) PROVE Seen
    BY <1>0, <2>3 DEF SkipStale, SkipError
  <2> QED
    BY <1>1, <1>3, <2>1, <2>2, <2>3 DEF WorkerStep, Scan, ClaimBuild, OverlapBuild,
       ClaimLost, OverlapHeld, OverlapFree
<1>4. ASSUME NEW e \in execs, Finish(e) PROVE Seen
  <2>0. e.ticket \in DOMAIN claimed
        /\ claimed[e.ticket] = [node |-> e.node, epoch |-> session[e.node]]
    BY DEF ExclusionInv, RunsOwn, Holds
  <2>1. Owns(e)
    BY <2>0 DEF Owns
  <2>2. execs' = execs \ {e} /\ fires' = fires
    BY <1>4 DEF Finish, FinishSuccess, FinishFailure, FinishError
  <2>3. \/ SuccessTxn(e) \/ FailureTxn(e)
        \/ "rpc" \in Faults /\ UNCHANGED etcdVars
    BY <1>4 DEF Finish, FinishSuccess, FinishFailure, FinishError
  <2>4. CASE SuccessTxn(e)
    <3>1. Spent' = Delete(Spent, {e.ticket})
      BY <2>1, <2>4, DeleteSpent DEF SuccessTxn
    <3>2. results' = results \cup {Result1(e, "success")}
      BY <2>4 DEF SuccessTxn, Publish, Result1
    <3> QED
      BY <2>2, <3>1, <3>2 DEF Effect, Ends
  <2>5. CASE FailureTxn(e) /\ GiveUp(e)
    <3>1. Spent' = Delete(Spent, {e.ticket})
      BY <2>1, <2>5, DeleteSpent DEF FailureTxn
    <3>2. results' = results \cup {Result1(e, "failed_permanent")}
      BY <2>5 DEF FailureTxn, Publish, Result1
    <3> QED
      BY <2>2, <2>5, <3>1, <3>2 DEF Effect, Ends
  <2>6. CASE FailureTxn(e) /\ ~GiveUp(e)
    <3>1. Spent' = Put(Spent, e.ticket, e.attempt)
      BY <2>1, <2>6, PutSpent DEF FailureTxn, Requeue
    <3>2. results' = results \cup {Result1(e, "failed")}
      BY <2>6 DEF FailureTxn, Publish, Result1
    <3> QED
      BY <2>2, <2>6, <3>1, <3>2 DEF Effect, Fails
  <2>7. CASE "rpc" \in Faults /\ UNCHANGED etcdVars
    <3>1. Loses(e)
      BY <2>2, <2>7 DEF Loses, Spent
    <3> QED
      BY <2>7, <3>1 DEF FailedCall
  <2> QED
    BY <2>3, <2>4, <2>5, <2>6, <2>7
<1>5. ASSUME NEW n \in Node, Crash(n) PROVE Seen
  BY <1>2, <1>5 DEF Crash
<1>6. ASSUME NEW n \in Node, SessionStep(n) \/ Start(n) PROVE Seen
  BY <1>1, <1>6 DEF SessionStep, SessionDrop, SessionOpen, Start
<1>7. ASSUME NEW n \in Node, SweepStep(n) PROVE Seen
  BY <1>7 DEF SweepStep, SweepList, SweepStop, Abandon, First, NoSweep, LeasesHold
<1>8. ASSUME NEW t \in Ticket, Enqueue(t) PROVE Seen
  <2>1. Spent' = Put(Spent, t, 0)
    BY <1>8, PutSpent DEF Enqueue
  <2>2. Fires(t)
    BY <1>8, <2>1 DEF Enqueue, Fires, Spent
  <2> QED
    BY <2>2 DEF Effect
<1>9. ASSUME NEW t \in Ticket, BackoffElapsed(t) PROVE Seen
  <2>1. /\ DOMAIN pending' = DOMAIN pending
        /\ \A x \in DOMAIN pending : pending'[x].attempt = pending[x].attempt
    BY <1>9 DEF BackoffElapsed, TypeOK, IsKeySpace, PendingValue
  <2>2. Spent' = Spent
    BY <2>1 DEF Spent
  <2> QED
    BY <1>9, <2>2 DEF BackoffElapsed, Effect, Unseen
<1>10. ASSUME NEW p \in live, LeaseExpire(p[1], p[2]) PROVE Seen
  BY <1>1, <1>10 DEF LeaseExpire
<1>11. CASE UNCHANGED vars
  BY <1>1, <1>11 DEF vars
<1> QED
  BY <1>3, <1>4, <1>5, <1>6, <1>7, <1>8, <1>9, <1>10, <1>11 DEF Next

\* Under the conditions nobody ever sweeps.
LEMMA NoSweepStep ==
    ASSUME LeasesHold, TypeOK, NoSweep, [Next]_vars
    PROVE  NoSweep'
<1> USE DEF etcdVars, sessionVars, workerVars
<1>1. CASE sweep' = sweep
  BY <1>1 DEF NoSweep
<1>2. ASSUME NEW n \in Node, Down(n) PROVE NoSweep'
  BY <1>2 DEF NoSweep, Down, NoKeys, TypeOK
<1>3. ASSUME NEW n \in Node, SweepStep(n) PROVE NoSweep'
  BY <1>3 DEF SweepStep, SweepList, SweepStop, Abandon, First, NoSweep, LeasesHold
<1>4. ASSUME NEW n \in Node, WorkerStep(n) PROVE NoSweep'
  BY <1>1, <1>2, <1>4 DEF WorkerStep, Scan, ClaimBuild, OverlapBuild, ClaimWon, ClaimLost,
     ClaimPanic, OverlapHeld, OverlapFree, SkipStale, SkipError
<1>5. ASSUME NEW n \in Node, SessionStep(n) \/ Start(n) \/ Crash(n) PROVE NoSweep'
  BY <1>1, <1>2, <1>5 DEF SessionStep, SessionDrop, SessionOpen, Start, Crash
<1>6. ASSUME NEW e \in execs, Finish(e) PROVE NoSweep'
  BY <1>1, <1>6 DEF Finish, FinishSuccess, FinishFailure, FinishError
<1>7. ASSUME NEW t \in Ticket, Enqueue(t) \/ BackoffElapsed(t) PROVE NoSweep'
  BY <1>1, <1>7 DEF Enqueue, BackoffElapsed
<1>8. ASSUME NEW p \in live, LeaseExpire(p[1], p[2]) PROVE NoSweep'
  BY <1>1, <1>8 DEF LeaseExpire
<1>9. CASE UNCHANGED vars
  BY <1>1, <1>9 DEF vars
<1> QED
  BY <1>3, <1>4, <1>5, <1>6, <1>7, <1>8, <1>9 DEF Next

-----------------------------------------------------------------------------
(* The executions and the queue *)

\* The ticket of an execution in flight is in the queue with its attempt.
RunsQueued ==
    \A e \in execs : e.ticket \in DOMAIN Spent /\ Spent[e.ticket] = e.attempt

\* Every effect keeps the executions and the queue together.
LEMMA RunsQueuedStep ==
    ASSUME RunsQueued, NoConcurrentRuns, Effect \/ FailedCall
    PROVE  RunsQueued'
<1>1. CASE Unseen
  BY <1>1 DEF Unseen, RunsQueued
<1>2. ASSUME NEW t \in Ticket, Fires(t) PROVE RunsQueued'
  BY <1>2 DEF Fires, RunsQueued, Put
<1>3. ASSUME NEW n \in Node, NEW t \in Ticket, Takes(n, t) PROVE RunsQueued'
  BY <1>3 DEF Takes, RunsQueued, Put
<1>4. ASSUME NEW n \in Node, Dies(n) PROVE RunsQueued'
  BY <1>4 DEF Dies, RunsQueued
<1>5. ASSUME NEW e \in execs, Ends(e) PROVE RunsQueued'
  BY <1>5 DEF Ends, RunsQueued, NoConcurrentRuns, Delete
<1>6. ASSUME NEW e \in execs, Fails(e) PROVE RunsQueued'
  BY <1>6 DEF Fails, RunsQueued, NoConcurrentRuns, Put
<1>7. ASSUME NEW e \in execs, Loses(e) PROVE RunsQueued'
  BY <1>7 DEF Loses, RunsQueued
<1>8. ASSUME NEW n \in Node, NEW t \in Ticket, Wastes(n, t) PROVE RunsQueued'
  BY <1>8 DEF Wastes, RunsQueued, Put
<1> QED
  BY <1>1, <1>2, <1>3, <1>4, <1>5, <1>6, <1>7, <1>8 DEF Effect, FailedCall

\* The inductive invariant of the queue under the conditions.
DeliveryInv == RevInv /\ NoSweep /\ RunsQueued

\* It holds in every reachable state.
LEMMA Delivered ==
    ASSUME LeasesHold
    PROVE  Spec => []DeliveryInv
<1>0. "expire" \notin Faults
  BY DEF LeasesHold
<1>1. Init => DeliveryInv
  BY DEF Init, DeliveryInv, RevInv, NoSweep, RunsQueued, NoKeys
<1>2. TypeOK /\ ExclusionInv /\ KeepsInv /\ DeliveryInv /\ [Next]_vars => DeliveryInv'
  <2> SUFFICES ASSUME TypeOK, ExclusionInv, KeepsInv, DeliveryInv, [Next]_vars
               PROVE  DeliveryInv'
    OBVIOUS
  <2>1. RevInv' /\ NoSweep'
    BY RevStep, NoSweepStep DEF DeliveryInv
  <2>2. Effect \/ FailedCall
    BY StepEffect DEF DeliveryInv, KeepsInv
  <2> QED
    BY <2>1, <2>2, RunsQueuedStep DEF DeliveryInv, ExclusionInv
<1> QED
  BY <1>0, <1>1, <1>2, TypeCorrect, Exclusion, Kept, PTL DEF Spec

-----------------------------------------------------------------------------
(* One report per attempt *)

\* An attempt with a result is spent: the queue has reached it, an execution in
\* flight has a later one, and the ticket has been enqueued.
ResultsSpent ==
    \A r \in results :
        /\ fires[r.ticket] # 0
        /\ r.ticket \in DOMAIN Spent => r.attempt <= Spent[r.ticket]
        /\ \A e \in execs : e.ticket = r.ticket => r.attempt < e.attempt

Reported == ResultsSpent /\ OneReportPerAttempt

\* Every effect keeps the results apart, if a ticket is enqueued once.
LEMMA ReportedStep ==
    ASSUME MaxFires = 1, TypeOK, TypeOK', RunsQueued, NoConcurrentRuns,
           \A e \in execs : fires[e.ticket] # 0,
           Reported, Effect \/ FailedCall
    PROVE  Reported'
<1>0. /\ \A r \in results : r.ticket \in Ticket /\ r.attempt \in Nat
      /\ \A e \in execs : e.ticket \in Ticket /\ e.attempt \in Nat
      /\ \A t \in DOMAIN Spent : t \in Ticket /\ Spent[t] \in Nat
      /\ fires \in [Ticket -> Nat]
  BY DEF TypeOK, Result, Execution, IsKeySpace, PendingValue, Spent
<1>1. CASE Unseen
  BY <1>1 DEF Unseen, Reported, ResultsSpent, OneReportPerAttempt
<1>2. ASSUME NEW t \in Ticket, Fires(t) PROVE Reported'
  <2>1. \A r \in results : r.ticket # t
    BY <1>0, <1>2 DEF Fires, Reported, ResultsSpent
  <2> QED
    BY <1>0, <1>2, <2>1 DEF Fires, Reported, ResultsSpent, OneReportPerAttempt, Put
<1>3. ASSUME NEW n \in Node, NEW t \in Ticket, Takes(n, t) PROVE Reported'
  BY <1>0, <1>3 DEF Takes, Reported, ResultsSpent, OneReportPerAttempt, Put
<1>4. ASSUME NEW n \in Node, Dies(n) PROVE Reported'
  BY <1>4 DEF Dies, Reported, ResultsSpent, OneReportPerAttempt
<1>5. ASSUME NEW e \in execs, NEW r, r.ticket = e.ticket, r.attempt = e.attempt,
             results' = results \cup {r}, execs' = execs \ {e}, fires' = fires,
             Spent' = Delete(Spent, {e.ticket}) \/ Spent' = Put(Spent, e.ticket, e.attempt)
      PROVE  Reported'
  <2>1. \A x \in results : x.ticket = r.ticket => x.attempt < r.attempt
    BY <1>5 DEF Reported, ResultsSpent
  <2>2. OneReportPerAttempt'
    BY <1>0, <1>5, <2>1 DEF Reported, OneReportPerAttempt
  <2>3. \A d \in execs' : d.ticket # r.ticket
    BY <1>5 DEF NoConcurrentRuns
  <2>4. ASSUME NEW x \in results', x.ticket \in DOMAIN Spent'
        PROVE  x.attempt <= Spent'[x.ticket]
    <3>1. CASE x.ticket = e.ticket
      BY <1>0, <1>5, <2>1, <2>4, <3>1 DEF Put, Delete
    <3>2. CASE x.ticket # e.ticket
      BY <1>5, <2>4, <3>2 DEF Reported, ResultsSpent, Put, Delete
    <3> QED
      BY <3>1, <3>2
  <2>5. \A x \in results' : fires'[x.ticket] # 0
    BY <1>5 DEF Reported, ResultsSpent
  <2>6. \A x \in results', d \in execs' : d.ticket = x.ticket => x.attempt < d.attempt
    BY <1>5, <2>3 DEF Reported, ResultsSpent
  <2> QED
    BY <2>2, <2>4, <2>5, <2>6 DEF Reported, ResultsSpent
<1>6. ASSUME NEW e \in execs, Ends(e) \/ Fails(e) PROVE Reported'
  <2>1. PICK s : results' = results \cup {Result1(e, s)}
    BY <1>6 DEF Ends, Fails
  <2>2. Result1(e, s).ticket = e.ticket /\ Result1(e, s).attempt = e.attempt
    BY DEF Result1
  <2> QED
    BY <1>5, <1>6, <2>1, <2>2 DEF Ends, Fails
<1>7. ASSUME NEW e \in execs, Loses(e) PROVE Reported'
  BY <1>7 DEF Loses, Reported, ResultsSpent, OneReportPerAttempt
<1>8. ASSUME NEW n \in Node, NEW t \in Ticket, Wastes(n, t) PROVE Reported'
  BY <1>0, <1>8 DEF Wastes, Reported, ResultsSpent, OneReportPerAttempt, Put
<1> QED
  BY <1>1, <1>2, <1>3, <1>4, <1>6, <1>7, <1>8 DEF Effect, FailedCall

\* A ticket in the queue has been enqueued.
QueuedIsFired == \A t \in DOMAIN Spent : fires[t] # 0

\* Every effect keeps that.
LEMMA QueuedIsFiredStep ==
    ASSUME TypeOK, QueuedIsFired, RunsQueued, Effect \/ FailedCall
    PROVE  QueuedIsFired'
<1>0. fires \in [Ticket -> Nat]
  BY DEF TypeOK
<1>1. CASE Unseen
  BY <1>1 DEF Unseen, QueuedIsFired
<1>2. ASSUME NEW t \in Ticket, Fires(t) PROVE QueuedIsFired'
  BY <1>0, <1>2 DEF Fires, QueuedIsFired, Put
<1>3. ASSUME NEW n \in Node, NEW t \in Ticket, Takes(n, t) PROVE QueuedIsFired'
  BY <1>3 DEF Takes, QueuedIsFired, Put
<1>4. ASSUME NEW n \in Node, Dies(n) PROVE QueuedIsFired'
  BY <1>4 DEF Dies, QueuedIsFired
<1>5. ASSUME NEW e \in execs, Ends(e) \/ Fails(e) PROVE QueuedIsFired'
  BY <1>5 DEF Ends, Fails, QueuedIsFired, RunsQueued, Put, Delete
<1>6. ASSUME NEW e \in execs, Loses(e) PROVE QueuedIsFired'
  BY <1>6 DEF Loses, QueuedIsFired
<1>7. ASSUME NEW n \in Node, NEW t \in Ticket, Wastes(n, t) PROVE QueuedIsFired'
  BY <1>7 DEF Wastes, QueuedIsFired, Put
<1> QED
  BY <1>1, <1>2, <1>3, <1>4, <1>5, <1>6, <1>7 DEF Effect, FailedCall

\* If a ticket is enqueued once, no two results have the same key: every attempt
\* of a ticket is reported by one execution and once, whatever is killed, whatever
\* call fails and whoever takes the ticket over.
THEOREM ResultsAreNotOverwritten ==
    ASSUME LeasesHold, MaxFires = 1
    PROVE  Spec => []OneReportPerAttempt
<1>0. "expire" \notin Faults
  BY DEF LeasesHold
<1>1. Init => QueuedIsFired /\ Reported
  BY DEF Init, QueuedIsFired, Spent, NoKeys, Reported, ResultsSpent, OneReportPerAttempt
<1>2. TypeOK /\ ExclusionInv /\ KeepsInv /\ DeliveryInv /\ QueuedIsFired /\ Reported
      /\ [Next]_vars => QueuedIsFired' /\ Reported'
  <2> SUFFICES ASSUME TypeOK, ExclusionInv, KeepsInv, DeliveryInv, QueuedIsFired, Reported,
                      [Next]_vars
               PROVE  QueuedIsFired' /\ Reported'
    OBVIOUS
  <2>1. Effect \/ FailedCall
    BY StepEffect DEF DeliveryInv, KeepsInv
  <2>2. RunsQueued /\ NoConcurrentRuns
    BY DEF DeliveryInv, ExclusionInv
  <2>3. \A e \in execs : fires[e.ticket] # 0
    BY <2>2 DEF RunsQueued, QueuedIsFired
  <2>4. TypeOK'
    BY TypeStep
  <2> QED
    BY <2>1, <2>2, <2>3, <2>4, QueuedIsFiredStep, ReportedStep
<1>3. Reported => OneReportPerAttempt
  BY DEF Reported
<1> QED
  BY <1>0, <1>1, <1>2, <1>3, TypeCorrect, Exclusion, Kept, Delivered, PTL DEF Spec

-----------------------------------------------------------------------------
(* The refinement *)

\* What Delivery sees of a ticket depends on its attempt and on its executions.
LEMMA SameView ==
    ASSUME NEW t, Running(t)' = Running(t), t \in DOMAIN Spent' <=> t \in DOMAIN Spent,
           t \in DOMAIN Spent => Spent'[t] = Spent[t]
    PROVE  Phase(t)' = Phase(t) /\ Attempt(t)' = Attempt(t) /\ Runner(t)' = Runner(t)
BY DEF Phase, Attempt, Runner, Spent

\* The execution of a ticket, if there is one.
LEMMA OneRuns ==
    ASSUME RunsQueued, NoConcurrentRuns, NEW e \in execs
    PROVE  /\ Running(e.ticket) = {e} /\ Runner(e.ticket) = {e.node}
           /\ Phase(e.ticket) = "running" /\ Attempt(e.ticket) = e.attempt
<1>1. Running(e.ticket) = {e}
  BY DEF Running, NoConcurrentRuns
<1> QED
  BY <1>1 DEF Runner, Phase, Attempt, RunsQueued, Spent

\* Every effect is a step of Delivery, or invisible.
LEMMA DeliveryStep ==
    ASSUME TypeOK, RunsQueued, NoConcurrentRuns, RunsQueued', NoConcurrentRuns', Effect
    PROVE  [D!Next]_(D!vars)
<1>0. \A e \in execs : e.ticket \in Ticket /\ e.node \in Node
  BY DEF TypeOK, Execution
<1>1. CASE Unseen
  <2>1. \A t \in Ticket : Running(t)' = Running(t)
    BY <1>1 DEF Unseen, Running
  <2>2. \A t \in Ticket : Phase(t)' = Phase(t) /\ Attempt(t)' = Attempt(t) /\ Runner(t)' = Runner(t)
    BY <1>1, <2>1, SameView DEF Unseen
  <2> QED
    BY <1>1, <2>2 DEF Unseen, D!vars
<1>2. ASSUME NEW t \in Ticket, Fires(t) PROVE [D!Next]_(D!vars)
  <2>1. Running(t) = {} /\ Running(t)' = {}
    BY <1>2 DEF Fires, RunsQueued, Running
  <2>2. t \notin DOMAIN Spent /\ t \in DOMAIN Spent' /\ Spent'[t] = 0
    BY <1>2 DEF Fires, Put
  <2>3. Phase(t) = "absent" /\ Phase(t)' = "queued" /\ Attempt(t)' = 0 /\ Runner(t)' = {}
    BY <2>1, <2>2 DEF Runner, Phase, Attempt, Spent
  <2>4. \A u \in Ticket : u # t =>
            /\ Phase(u)' = Phase(u)
            /\ Attempt(u)' = Attempt(u)
            /\ Runner(u)' = Runner(u)
    BY <1>2, SameView DEF Fires, Put, Running
  <2>5. D!Fire(t)
    BY <1>2, <2>3, <2>4 DEF Fires, D!Fire, D!Becomes
  <2> QED
    BY <2>5 DEF D!Next
<1>3. ASSUME NEW n \in Node, NEW t \in Ticket, Takes(n, t) PROVE [D!Next]_(D!vars)
  <2>1. Running(t) = {}
    BY <1>3 DEF Takes, Running
  <2>2. PICK e \in execs' : e.node = n /\ e.ticket = t
    BY <1>3 DEF Takes
  <2>3. Phase(t) = "queued" /\ Phase(t)' = "running"
    BY <1>3, <2>1, <2>2 DEF Takes, Phase, Running, Spent
  <2>4. Runner(t)' = {n}
    BY <2>2 DEF Runner, Running, NoConcurrentRuns
  <2>5. Attempt(t)' = Attempt(t) + 1
    BY <1>3 DEF Takes, Attempt, Spent, Put
  <2>6. \A u \in Ticket : u # t =>
            /\ Phase(u)' = Phase(u)
            /\ Attempt(u)' = Attempt(u)
            /\ Runner(u)' = Runner(u)
    BY <1>3, SameView DEF Takes, Put, Running
  <2>7. D!Take(n, t)
    BY <1>3, <2>3, <2>4, <2>5, <2>6 DEF Takes, D!Take
  <2> QED
    BY <2>7 DEF D!Next
<1>4. ASSUME NEW n \in Node, Dies(n) PROVE [D!Next]_(D!vars)
  <2>1. ASSUME NEW t \in Ticket, Runner(t) = {n}
        PROVE  /\ Phase(t)' = "queued" /\ Runner(t)' = {}
               /\ Attempt(t)' = Attempt(t)
    <3>1. Running(t)' = {}
      BY <1>4, <2>1 DEF Dies, Runner, Running
    <3>2. t \in DOMAIN Spent
      BY <2>1 DEF Runner, Running, RunsQueued
    <3> QED
      BY <1>4, <3>1, <3>2 DEF Dies, Runner, Phase, Attempt, Spent
  <2>2. ASSUME NEW t \in Ticket, Runner(t) # {n}
        PROVE  Phase(t)' = Phase(t) /\ Attempt(t)' = Attempt(t) /\ Runner(t)' = Runner(t)
    <3>1. \A e \in execs : e.ticket = t => e.node # n
      BY <2>2, OneRuns
    <3>2. Running(t)' = Running(t)
      BY <1>4, <3>1 DEF Dies, Running
    <3> QED
      BY <1>4, <3>2, SameView DEF Dies
  <2>3. D!Die(n)
    BY <1>4, <2>1, <2>2 DEF Dies, D!Die
  <2> QED
    BY <2>3 DEF D!Next
\* An execution that is over: its ticket does not run, and the others are as they
\* were.
<1>5. ASSUME NEW e \in execs, execs' = execs \ {e}
      PROVE  /\ Running(e.ticket)' = {}
             /\ \A u \in Ticket : u # e.ticket => Running(u)' = Running(u)
  BY <1>5 DEF Running, NoConcurrentRuns
<1>6. ASSUME NEW e \in execs, Ends(e) PROVE [D!Next]_(D!vars)
  <2>1. Running(e.ticket)' = {} /\ e.ticket \notin DOMAIN Spent'
    BY <1>5, <1>6 DEF Ends, Delete
  <2>2. Phase(e.ticket)' = "absent" /\ Attempt(e.ticket)' = 0 /\ Runner(e.ticket)' = {}
    BY <2>1 DEF Runner, Phase, Attempt, Spent
  <2>3. \A u \in Ticket : u # e.ticket
            => Phase(u)' = Phase(u) /\ Attempt(u)' = Attempt(u) /\ Runner(u)' = Runner(u)
    BY <1>5, <1>6, SameView DEF Ends, Delete
  <2>4. D!Becomes(e.ticket, "absent", 0)
    BY <1>0, <2>2, <2>3 DEF D!Becomes
  <2>5. Runner(e.ticket) = {e.node} /\ Attempt(e.ticket) = e.attempt
    BY OneRuns
  <2>6. CASE results' = results \cup {Result1(e, "success")}
    <3>1. D!Succeed(e.node, e.ticket)
      BY <1>0, <2>4, <2>5, <2>6 DEF D!Succeed, D!Report, Result1
    <3> QED
      BY <1>0, <3>1 DEF D!Next
  <2>7. CASE GiveUp(e) /\ results' = results \cup {Result1(e, "failed_permanent")}
    <3>1. D!GiveUp(e.node, e.ticket)
      BY <1>0, <2>4, <2>5, <2>7 DEF D!GiveUp, D!Report, Result1, GiveUp
    <3> QED
      BY <1>0, <3>1 DEF D!Next
  <2> QED
    BY <1>6, <2>6, <2>7 DEF Ends
<1>7. ASSUME NEW e \in execs, Fails(e) PROVE [D!Next]_(D!vars)
  <2>1. Running(e.ticket)' = {} /\ e.ticket \in DOMAIN Spent' /\ Spent'[e.ticket] = e.attempt
    BY <1>5, <1>7 DEF Fails, Put
  <2>2. Phase(e.ticket)' = "queued" /\ Attempt(e.ticket)' = e.attempt /\ Runner(e.ticket)' = {}
    BY <2>1 DEF Runner, Phase, Attempt, Spent
  <2>3. \A u \in Ticket : u # e.ticket
            => Phase(u)' = Phase(u) /\ Attempt(u)' = Attempt(u) /\ Runner(u)' = Runner(u)
    BY <1>5, <1>7, SameView DEF Fails, Put
  <2>4. D!Becomes(e.ticket, "queued", e.attempt)
    BY <1>0, <2>2, <2>3 DEF D!Becomes
  <2>5. Runner(e.ticket) = {e.node} /\ Attempt(e.ticket) = e.attempt
    BY OneRuns
  <2>6. e.attempt <= MaxRetries[e.ticket]
    BY <1>7, QueueAssumption DEF Fails, GiveUp, TypeOK, Execution
  <2>7. D!Retry(e.node, e.ticket)
    BY <1>0, <1>7, <2>4, <2>5, <2>6 DEF Fails, D!Retry, D!Report, Result1
  <2> QED
    BY <1>0, <2>7 DEF D!Next
<1> QED
  BY <1>1, <1>2, <1>3, <1>4, <1>6, <1>7 DEF Effect

\* For any number of nodes, tickets and retries the queue is an implementation of
\* Delivery when processes are killed and nothing else fails: every step of the
\* worker loops, claims and leases is one that Delivery allows, or one it cannot
\* see.
THEOREM QueueImplementsDelivery ==
    ASSUME OnlyKills
    PROVE  Spec => ImplementsDelivery
<1>0. LeasesHold /\ "expire" \notin Faults /\ "rpc" \notin Faults
  BY DEF OnlyKills, LeasesHold
<1>1. Init => D!Init
  BY DEF Init, D!Init, Phase, Attempt, Runner, Running, NoKeys
<1>2. /\ TypeOK /\ ExclusionInv /\ KeepsInv /\ DeliveryInv
      /\ ExclusionInv' /\ DeliveryInv' /\ [Next]_vars
      => [D!Next]_(D!vars)
  <2> SUFFICES ASSUME TypeOK, ExclusionInv, KeepsInv, DeliveryInv, ExclusionInv',
                      DeliveryInv', [Next]_vars
               PROVE  [D!Next]_(D!vars)
    OBVIOUS
  <2>1. Effect
    BY <1>0, StepEffect DEF DeliveryInv, KeepsInv
  <2>2. RunsQueued /\ NoConcurrentRuns /\ RunsQueued' /\ NoConcurrentRuns'
    BY DEF DeliveryInv, ExclusionInv
  <2> QED
    BY <2>1, <2>2, DeliveryStep
<1> QED
  BY <1>0, <1>1, <1>2, TypeCorrect, Exclusion, Kept, Delivered, PTL
     DEF Spec, ImplementsDelivery, D!Spec
=============================================================================
