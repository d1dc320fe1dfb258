------------------------------- MODULE Queue -------------------------------
(***************************************************************************)
(* The ticket queue of internal/queue with everything that touches a       *)
(* ticket while it lives: the claim session of a node (internal/cluster),  *)
(* the worker loop and its executions (internal/worker), and the orphan    *)
(* sweep of the leader (internal/scheduler).                               *)
(*                                                                         *)
(* A ticket is identified by its stamp "job@sched_at".  Tickets are        *)
(* numbered in the order of their keys, which is the order in which etcd   *)
(* returns them.  One step of this module is one etcd transaction or read, *)
(* or one step of a node between two of them.                              *)
(***************************************************************************)
EXTENDS Integers, FiniteSets, Etcd

CONSTANTS
    Node,           \* the nodes, by node_id
    Ticket,         \* the tickets, numbered in key order
    Job,            \* the jobs
    JobOf,          \* the job of each ticket
    NoOverlap,      \* the tickets of no_overlap jobs
    Manual,         \* the tickets created by Trigger
    MaxRetries,     \* max_retries of each ticket
    MaxConcurrent,  \* max_concurrent of a node
    ScanLimit,      \* claimScanLimit, the page ClaimNext reads
    SweepLimit,     \* the page sweepOrphans reads
    Sweepers,       \* the nodes whose scheduler may be sweeping
    Faults,         \* which failures happen: subset of FaultKinds
    MaxFires,       \* bound: how often a ticket key is enqueued
    MaxEpoch        \* bound: how many claim sessions a node opens

FaultKinds == {"crash", "expire", "rpc"}

ASSUME QueueAssumption ==
    /\ Ticket \subseteq Nat
    /\ JobOf \in [Ticket -> Job]
    /\ NoOverlap \subseteq Ticket
    /\ Manual \subseteq Ticket
    /\ MaxRetries \in [Ticket -> Nat]
    /\ MaxConcurrent \in Nat \ {0}
    /\ ScanLimit \in Nat \ {0}
    /\ SweepLimit \in Nat \ {0}
    /\ Sweepers \subseteq Node
    /\ Faults \subseteq FaultKinds
    /\ MaxFires \in Nat
    /\ MaxEpoch \in Nat

VARIABLES
    \* in etcd
    pending,    \* /cron/tasks/pending/: attempt, ModRevision, NotBefore not reached
    rev,        \* the ModRevision last given to each pending key
    claimed,    \* /cron/tasks/claimed/: owner node and the epoch of its lease
    overlap,    \* /cron/overlap/: the same, per job
    results,    \* /cron/results/: every result ever put
    live,       \* the claim leases etcd holds, as <<node, epoch>>
    \* on a node
    up,         \* the process runs
    session,    \* epoch of Node.claimSession, 0 when it is nil
    epoch,      \* how many claim sessions the node has opened
    pc,         \* where the worker loop is
    scan,       \* what ClaimNext read of the tickets it has still to visit
    lease,      \* the leases in the claim transaction being built
    execs,      \* the executions in flight on all nodes
    sweep,      \* the tickets sweepOrphans has still to abandon
    \* bookkeeping
    fires       \* how often each ticket was enqueued

etcdVars == <<pending, rev, claimed, overlap, results>>
sessionVars == <<live, up, session, epoch>>
workerVars == <<pc, scan, lease>>
vars == <<etcdVars, sessionVars, workerVars, execs, sweep, fires>>

PendingValue == [attempt : Nat, rev : Nat, wait : BOOLEAN]
ClaimValue == [node : Node, epoch : Nat]
ScanValue == [attempt : Nat, rev : Nat]
Status == {"success", "failed", "failed_permanent", "skipped", "abandoned"}
Final == {"success", "failed_permanent", "skipped", "abandoned"}
Result == [ticket : Ticket, attempt : Nat, status : Status, node : Node]
Execution == [node : Node, ticket : Ticket, attempt : Nat, rev : Nat, epoch : Nat]
Leases == [claim : Nat, overlap : Nat]
NoLeases == [claim |-> 0, overlap |-> 0]
PC == {"idle", "visit", "lease", "commit", "overlap", "skip"}

\* Every variable holds a value of its type.
TypeOK ==
    /\ IsKeySpace(pending, Ticket, PendingValue)
    /\ rev \in [Ticket -> Nat]
    /\ IsKeySpace(claimed, Ticket, ClaimValue)
    /\ IsKeySpace(overlap, Job, ClaimValue)
    /\ results \subseteq Result
    /\ live \subseteq Node \X Nat
    /\ up \in [Node -> BOOLEAN]
    /\ session \in [Node -> Nat]
    /\ epoch \in [Node -> Nat]
    /\ pc \in [Node -> PC]
    /\ scan = [n \in Node |-> scan[n]]
    /\ \A n \in Node : IsKeySpace(scan[n], Ticket, ScanValue)
    /\ lease \in [Node -> Leases]
    /\ execs \subseteq Execution
    /\ sweep = [n \in Node |-> sweep[n]]
    /\ \A n \in Node : IsKeySpace(sweep[n], Ticket, Nat)
    /\ fires \in [Ticket -> Nat]

\* Connect has opened the claim session of every node before its worker runs.
Init ==
    /\ pending = NoKeys
    /\ rev = [t \in Ticket |-> 0]
    /\ claimed = NoKeys
    /\ overlap = NoKeys
    /\ results = {}
    /\ live = {<<n, 1>> : n \in Node}
    /\ up = [n \in Node |-> TRUE]
    /\ session = [n \in Node |-> 1]
    /\ epoch = [n \in Node |-> 1]
    /\ pc = [n \in Node |-> "idle"]
    /\ scan = [n \in Node |-> NoKeys]
    /\ lease = [n \in Node |-> NoLeases]
    /\ execs = {}
    /\ sweep = [n \in Node |-> NoKeys]
    /\ fires = [t \in Ticket |-> 0]

-----------------------------------------------------------------------------
(* Helpers *)

\* The first `limit' pending keys, which is what a Get WithLimit returns.
Window(limit) ==
    {t \in DOMAIN pending :
        Cardinality({u \in DOMAIN pending : u < t}) < limit}

\* t is the ticket that a loop over kv in key order visits now.
First(kv, t) == t \in DOMAIN kv /\ \A u \in DOMAIN kv : t <= u

\* A put of the pending key of t.
PutPending(t, a, w) ==
    /\ rev' = [rev EXCEPT ![t] = @ + 1]
    /\ pending' = Put(pending, t, [attempt |-> a, rev |-> rev[t] + 1, wait |-> w])

\* A put of a result key.
Publish(t, a, s, n) ==
    results' = results \cup {[ticket |-> t, attempt |-> a, status |-> s, node |-> n]}

\* Worker.slots of node n
Busy(n) == Cardinality({e \in execs : e.node = n})

\* etcd accepts a put with this lease: NoLease, or a lease it holds.
Leased(n, e) == e = 0 \/ <<n, e>> \in live

\* The worker loop leaves ticket t and goes on with the tickets read after it.
MoveOn(n, t) ==
    LET rest == Delete(scan[n], {t})
    IN  /\ scan' = [scan EXCEPT ![n] = rest]
        /\ pc' = [pc EXCEPT ![n] = IF DOMAIN rest = {} THEN "idle" ELSE "visit"]

\* The worker loop returns to its timer.
Idle(n) ==
    /\ scan' = [scan EXCEPT ![n] = NoKeys]
    /\ pc' = [pc EXCEPT ![n] = "idle"]

-----------------------------------------------------------------------------
(* Enqueue, EnqueueFire and Trigger: put the ticket if its key is absent.  *)
Enqueue(t) ==
    /\ fires[t] < MaxFires
    /\ t \notin DOMAIN pending
    /\ PutPending(t, 0, FALSE)
    /\ fires' = [fires EXCEPT ![t] = @ + 1]
    /\ UNCHANGED <<claimed, overlap, results, sessionVars, workerVars, execs, sweep>>

\* Time reaches the NotBefore of a ticket.
BackoffElapsed(t) ==
    /\ t \in DOMAIN pending
    /\ pending[t].wait
    /\ pending' = [pending EXCEPT ![t].wait = FALSE]
    /\ UNCHANGED <<rev, claimed, overlap, results, sessionVars, workerVars, execs,
                   sweep, fires>>

-----------------------------------------------------------------------------
(* The worker loop: tryClaim and ClaimNext *)

\* tryClaim with a free slot: ClaimNext reads a page of the pending prefix and
\* will pass over the tickets whose NotBefore lies ahead.
Scan(n) ==
    /\ up[n]
    /\ pc[n] = "idle"
    /\ Busy(n) < MaxConcurrent
    /\ LET due == {t \in Window(ScanLimit) : ~pending[t].wait}
       IN  /\ scan' = [scan EXCEPT ![n] =
                  [t \in due |-> [attempt |-> pending[t].attempt, rev |-> pending[t].rev]]]
           /\ pc' = [pc EXCEPT ![n] = IF due = {} THEN "idle" ELSE "visit"]
    /\ UNCHANGED <<etcdVars, sessionVars, lease, execs, sweep, fires>>

\* claim builds the transaction: the claim key is to ride the lease of the
\* session the node has now, NoLease if it has none.
ClaimBuild(n, t) ==
    /\ up[n]
    /\ pc[n] = "visit"
    /\ First(scan[n], t)
    /\ lease' = [lease EXCEPT ![n].claim = session[n]]
    /\ pc' = [pc EXCEPT ![n] = IF t \in NoOverlap THEN "lease" ELSE "commit"]
    /\ UNCHANGED <<etcdVars, sessionVars, scan, execs, sweep, fires>>

\* For the overlap key it asks for the lease again.
OverlapBuild(n, t) ==
    /\ up[n]
    /\ pc[n] = "lease"
    /\ First(scan[n], t)
    /\ lease' = [lease EXCEPT ![n].overlap = session[n]]
    /\ pc' = [pc EXCEPT ![n] = "commit"]
    /\ UNCHANGED <<etcdVars, sessionVars, scan, execs, sweep, fires>>

\* Mutant: the claim key may exist already.
ClaimCompareAnyClaim(n, t) ==
    /\ t \in DOMAIN pending /\ pending[t].rev = scan[n][t].rev
    /\ t \in NoOverlap => JobOf[t] \notin DOMAIN overlap

\* Mutant: the overlap key may exist already.
ClaimCompareAnyLock(n, t) ==
    /\ t \notin DOMAIN claimed
    /\ t \in DOMAIN pending /\ pending[t].rev = scan[n][t].rev

\* The comparisons of the claim transaction.
ClaimCompare(n, t) ==
    /\ t \notin DOMAIN claimed
    /\ t \in DOMAIN pending /\ pending[t].rev = scan[n][t].rev
    /\ t \in NoOverlap => JobOf[t] \notin DOMAIN overlap

\* etcd holds the leases that the puts of the transaction name.
ClaimLeased(n) == Leased(n, lease[n].claim) /\ Leased(n, lease[n].overlap)

\* Mutant: the keys are put without a lease.
ClaimTxnNoLease(n, t) ==
    /\ PutPending(t, scan[n][t].attempt + 1, FALSE)
    /\ claimed' = Put(claimed, t, [node |-> n, epoch |-> 0])
    /\ overlap' = IF t \in NoOverlap
                  THEN Put(overlap, JobOf[t], [node |-> n, epoch |-> 0])
                  ELSE overlap

\* Mutant: attempt - 1.
ClaimTxnDown(n, t) ==
    /\ PutPending(t, scan[n][t].attempt - 1, FALSE)
    /\ claimed' = Put(claimed, t, [node |-> n, epoch |-> lease[n].claim])
    /\ UNCHANGED overlap

\* What the claim transaction writes: the ticket stays, with attempt + 1.
ClaimTxn(n, t) ==
    /\ PutPending(t, scan[n][t].attempt + 1, FALSE)
    /\ claimed' = Put(claimed, t, [node |-> n, epoch |-> lease[n].claim])
    /\ overlap' = IF t \in NoOverlap
                  THEN Put(overlap, JobOf[t], [node |-> n, epoch |-> lease[n].overlap])
                  ELSE overlap

\* The claim transaction succeeds and tryClaim starts an execution.
ClaimWon(n, t) ==
    /\ up[n]
    /\ pc[n] = "commit"
    /\ First(scan[n], t)
    /\ ClaimCompare(n, t)
    /\ ClaimLeased(n)
    /\ ClaimTxn(n, t)
    /\ execs' = execs \cup {[node |-> n, ticket |-> t, epoch |-> lease[n].claim,
                             attempt |-> scan[n][t].attempt + 1, rev |-> rev[t] + 1]}
    /\ Idle(n)
    /\ lease' = [lease EXCEPT ![n] = NoLeases]
    /\ UNCHANGED <<results, sessionVars, sweep, fires>>

\* The claim transaction fails a comparison: on to the next ticket, unless the
\* ticket must not overlap.
ClaimLost(n, t) ==
    /\ up[n]
    /\ pc[n] = "commit"
    /\ First(scan[n], t)
    /\ ~ClaimCompare(n, t)
    /\ IF t \in NoOverlap
       THEN pc' = [pc EXCEPT ![n] = "overlap"] /\ UNCHANGED scan
       ELSE MoveOn(n, t)
    /\ lease' = [lease EXCEPT ![n] = NoLeases]
    /\ UNCHANGED <<etcdVars, sessionVars, execs, sweep, fires>>

\* overlapHeld finds the overlap key of the ticket's job.
OverlapHeld(n, t) ==
    /\ up[n]
    /\ pc[n] = "overlap"
    /\ First(scan[n], t)
    /\ JobOf[t] \in DOMAIN overlap
    /\ pc' = [pc EXCEPT ![n] = "skip"]
    /\ UNCHANGED <<etcdVars, sessionVars, scan, lease, execs, sweep, fires>>

\* overlapHeld does not find it, or the read fails, which counts as not held.
OverlapFree(n, t) ==
    /\ up[n]
    /\ pc[n] = "overlap"
    /\ First(scan[n], t)
    /\ JobOf[t] \notin DOMAIN overlap \/ "rpc" \in Faults
    /\ MoveOn(n, t)
    /\ UNCHANGED <<etcdVars, sessionVars, lease, execs, sweep, fires>>

\* The transaction of skipStale: nobody wrote the ticket since the scan.  The
\* result carries the attempt that claim had already counted up.
SkipTxn(n, t) ==
    IF t \in DOMAIN pending /\ pending[t].rev = scan[n][t].rev
    THEN /\ pending' = Delete(pending, {t})
         /\ Publish(t, scan[n][t].attempt + 1, "skipped", n)
    ELSE UNCHANGED <<pending, results>>

\* skipStale drops the ticket and ClaimNext goes on.
SkipStale(n, t) ==
    /\ up[n]
    /\ pc[n] = "skip"
    /\ First(scan[n], t)
    /\ SkipTxn(n, t)
    /\ MoveOn(n, t)
    /\ UNCHANGED <<rev, claimed, overlap, sessionVars, lease, execs, sweep, fires>>

\* skipStale returns an error, committed or not, and so does ClaimNext.
SkipError(n, t) ==
    /\ "rpc" \in Faults
    /\ up[n]
    /\ pc[n] = "skip"
    /\ First(scan[n], t)
    /\ SkipTxn(n, t) \/ UNCHANGED <<pending, results>>
    /\ Idle(n)
    /\ UNCHANGED <<rev, claimed, overlap, sessionVars, lease, execs, sweep, fires>>

\* The process of node n is gone: with it its claim session, the worker loop,
\* the commands it was running and the sweep.  Its lease stays until it expires.
Down(n) ==
    /\ up' = [up EXCEPT ![n] = FALSE]
    /\ session' = [session EXCEPT ![n] = 0]
    /\ lease' = [lease EXCEPT ![n] = NoLeases]
    /\ sweep' = [sweep EXCEPT ![n] = NoKeys]
    /\ execs' = {e \in execs : e.node # n}
    /\ Idle(n)
    /\ UNCHANGED <<live, epoch>>

\* The claim transaction returns an error: etcd does not hold the lease, or the
\* call fails, committed or not.  claim reads resp.Succeeded of a nil response
\* and the process panics.
ClaimPanic(n, t) ==
    /\ up[n]
    /\ pc[n] = "commit"
    /\ First(scan[n], t)
    /\ IF ClaimCompare(n, t) /\ ~ClaimLeased(n)
       THEN UNCHANGED <<pending, rev, claimed, overlap>>
       ELSE /\ "rpc" \in Faults
            /\ epoch[n] < MaxEpoch
            /\ \/ UNCHANGED <<pending, rev, claimed, overlap>>
               \/ ClaimCompare(n, t) /\ ClaimTxn(n, t)
    /\ Down(n)
    /\ UNCHANGED <<results, fires>>

-----------------------------------------------------------------------------
(* Executions: execute runs the command and reports it *)

\* The comparison of FinishSuccess and FinishFailure: the claim key names the
\* node.  The epoch of the claim is not compared.
Owns(e) ==
    /\ e.ticket \in DOMAIN claimed
    /\ claimed[e.ticket].node = e.node

\* Mutant: the overlap key is not deleted.
ReleaseClaimOnly(e) ==
    /\ claimed' = Delete(claimed, {e.ticket})
    /\ UNCHANGED overlap

\* Both delete the claim key and, for a no_overlap ticket, the overlap key.
Release(e) ==
    /\ claimed' = Delete(claimed, {e.ticket})
    /\ overlap' = IF e.ticket \in NoOverlap
                  THEN Delete(overlap, {JobOf[e.ticket]})
                  ELSE overlap

\* The transaction of FinishSuccess.
SuccessTxn(e) ==
    /\ Publish(e.ticket, e.attempt, "success", e.node)
    /\ UNCHANGED rev
    /\ IF Owns(e)
       THEN pending' = Delete(pending, {e.ticket}) /\ Release(e)
       ELSE UNCHANGED <<pending, claimed, overlap>>

\* giveUp
GiveUp(e) == e.attempt > MaxRetries[e.ticket]

\* Mutant: the ticket goes back with the attempt it was scanned with.
RequeueScanned(e) == PutPending(e.ticket, e.attempt - 1, TRUE)

\* Mutant: the retry starts to count anew.
RequeueAnew(e) == PutPending(e.ticket, 0, TRUE)

\* The ticket goes back with a NotBefore that lies ahead.
Requeue(e) == PutPending(e.ticket, e.attempt, TRUE)

\* The transaction of FinishFailure.
FailureTxn(e) ==
    /\ Publish(e.ticket, e.attempt,
               IF GiveUp(e) THEN "failed_permanent" ELSE "failed", e.node)
    /\ IF Owns(e)
       THEN /\ IF GiveUp(e)
               THEN pending' = Delete(pending, {e.ticket}) /\ UNCHANGED rev
               ELSE Requeue(e)
            /\ Release(e)
       ELSE UNCHANGED <<pending, rev, claimed, overlap>>

\* The command of execution e exits with 0.
FinishSuccess(e) ==
    /\ SuccessTxn(e)
    /\ execs' = execs \ {e}
    /\ UNCHANGED <<sessionVars, workerVars, sweep, fires>>

\* The command fails or exceeds its timeout.
FinishFailure(e) ==
    /\ FailureTxn(e)
    /\ execs' = execs \ {e}
    /\ UNCHANGED <<sessionVars, workerVars, sweep, fires>>

\* The transaction that reports e returns an error, which is logged: the
\* execution is over whether or not it was committed.
FinishError(e) ==
    /\ "rpc" \in Faults
    /\ SuccessTxn(e) \/ FailureTxn(e) \/ UNCHANGED etcdVars
    /\ execs' = execs \ {e}
    /\ UNCHANGED <<sessionVars, workerVars, sweep, fires>>

-----------------------------------------------------------------------------
(* Claim sessions: Connect, MaintainClaims, and the leases in etcd *)

\* etcd drops the lease of session e of node n and every key that rides it: at
\* once when the session is closed, at the end of its TTL when the node is gone
\* or, under "expire", when a running node does not renew it in time.
LeaseExpire(n, e) ==
    /\ <<n, e>> \in live
    /\ session[n] = e => "expire" \in Faults /\ epoch[n] < MaxEpoch
    /\ live' = live \ {<<n, e>>}
    /\ claimed' = Unlease(claimed, n, e)
    /\ overlap' = Unlease(overlap, n, e)
    /\ UNCHANGED <<pending, rev, results, up, session, epoch, workerVars, execs, sweep,
                   fires>>

\* The session is done, because its lease is gone or because the client saw no
\* answer for a TTL: dropClaimSession.
SessionDrop(n) ==
    /\ up[n]
    /\ session[n] # 0
    /\ <<n, session[n]>> \in live => "expire" \in Faults /\ epoch[n] < MaxEpoch
    /\ session' = [session EXCEPT ![n] = 0]
    /\ UNCHANGED <<etcdVars, live, up, epoch, workerVars, execs, sweep, fires>>

\* NewSession grants a lease that no session had before.
NewSession(n) ==
    /\ epoch' = [epoch EXCEPT ![n] = @ + 1]
    /\ session' = [session EXCEPT ![n] = epoch[n] + 1]
    /\ live' = live \cup {<<n, epoch[n] + 1>>}

\* ensureClaimSession, a second after the drop.
SessionOpen(n) ==
    /\ up[n]
    /\ session[n] = 0
    /\ NewSession(n)
    /\ UNCHANGED <<etcdVars, up, workerVars, execs, sweep, fires>>

\* The process is killed.
Crash(n) ==
    /\ "crash" \in Faults
    /\ up[n]
    /\ epoch[n] < MaxEpoch
    /\ Down(n)
    /\ UNCHANGED <<etcdVars, fires>>

\* The process starts: Connect has opened a claim session before the loops run.
Start(n) ==
    /\ ~up[n]
    /\ up' = [up EXCEPT ![n] = TRUE]
    /\ NewSession(n)
    /\ UNCHANGED <<etcdVars, workerVars, execs, sweep, fires>>

-----------------------------------------------------------------------------
(* sweepOrphans on a node that believes it is the leader *)

\* PendingTickets: the tickets on the page whose job is gone or disabled in the
\* job list read earlier, except manual ones.
SweepList(n) ==
    /\ n \in Sweepers
    /\ up[n]
    /\ DOMAIN sweep[n] = {}
    /\ \E doomed \in SUBSET (Window(SweepLimit) \ Manual) :
           /\ doomed # {}
           /\ sweep' = [sweep EXCEPT ![n] = [t \in doomed |-> pending[t].attempt]]
    /\ UNCHANGED <<etcdVars, sessionVars, workerVars, execs, fires>>

\* Mutant: Abandon takes a claimed ticket too.
AbandonableAlways(t) == TRUE

\* The comparison of Abandon.
Abandonable(t) == t \notin DOMAIN claimed

\* Mutant: Abandon puts no result.
AbandonSilently(n, t) ==
    /\ First(sweep[n], t)
    /\ sweep' = [sweep EXCEPT ![n] = Delete(@, {t})]
    /\ pending' = IF Abandonable(t) THEN Delete(pending, {t}) ELSE pending
    /\ UNCHANGED <<rev, claimed, overlap, results, sessionVars, workerVars, execs, fires>>

\* Abandon deletes the ticket unless it is claimed.
Abandon(n, t) ==
    /\ First(sweep[n], t)
    /\ sweep' = [sweep EXCEPT ![n] = Delete(@, {t})]
    /\ IF Abandonable(t)
       THEN /\ pending' = Delete(pending, {t})
            /\ Publish(t, sweep[n][t], "abandoned", n)
       ELSE UNCHANGED <<pending, results>>
    /\ UNCHANGED <<rev, claimed, overlap, sessionVars, workerVars, execs, fires>>

\* The sweep ends early: leader() is false now.
SweepStop(n) ==
    /\ DOMAIN sweep[n] # {}
    /\ sweep' = [sweep EXCEPT ![n] = NoKeys]
    /\ UNCHANGED <<etcdVars, sessionVars, workerVars, execs, fires>>

-----------------------------------------------------------------------------
WorkerStep(n) ==
    \/ Scan(n)
    \/ \E t \in Ticket :
           \/ ClaimBuild(n, t) \/ OverlapBuild(n, t)
           \/ ClaimWon(n, t) \/ ClaimLost(n, t) \/ ClaimPanic(n, t)
           \/ OverlapHeld(n, t) \/ OverlapFree(n, t)
           \/ SkipStale(n, t) \/ SkipError(n, t)

Finish(e) == FinishSuccess(e) \/ FinishFailure(e) \/ FinishError(e)

SessionStep(n) == SessionDrop(n) \/ SessionOpen(n)

SweepStep(n) == SweepList(n) \/ SweepStop(n) \/ \E t \in Ticket : Abandon(n, t)

Next ==
    \/ \E t \in Ticket : Enqueue(t) \/ BackoffElapsed(t)
    \/ \E e \in execs : Finish(e)
    \/ \E n \in Node : \/ WorkerStep(n) \/ SessionStep(n) \/ SweepStep(n)
                      \/ Crash(n) \/ Start(n)
    \/ \E p \in live : LeaseExpire(p[1], p[2])

Spec == Init /\ [][Next]_vars

(***************************************************************************)
(* What is sure to happen: the loops of a running node go on (worker.Run   *)
(* and MaintainClaims retry on a timer), every command ends within its     *)
(* timeout, time passes, and etcd drops a lease that nobody renews.        *)
(* Nothing is assumed of Enqueue, of the faults, of the sweep, or of the   *)
(* restart of a process.                                                   *)
(***************************************************************************)
Fairness ==
    /\ \A n \in Node :
           /\ WF_vars(WorkerStep(n))
           /\ WF_vars(SessionOpen(n))
           /\ WF_vars(<<n, session[n]>> \notin live /\ SessionDrop(n))
    /\ \A n \in Node, t \in Ticket :
           WF_vars(\E e \in execs : e.node = n /\ e.ticket = t /\ Finish(e))
    /\ \A t \in Ticket : WF_vars(BackoffElapsed(t))
    /\ \A n \in Node : WF_vars(\E p \in live :
           p[1] = n /\ session[n] # p[2] /\ LeaseExpire(n, p[2]))

FairSpec == Spec /\ Fairness

-----------------------------------------------------------------------------
(* Properties *)

\* Two executions of one ticket are never in flight at once: the claim key, its
\* lease and the ModRevision comparison of claim make the winner the only one.
\* Stated for runs in which no running node loses its lease.
NoConcurrentRuns ==
    \A e1, e2 \in execs : e1.ticket = e2.ticket => e1 = e2

\* A no_overlap job never has two executions in flight, be they of one fire or
\* of two: the overlap key goes with the claim, not with the loop that took it.
NoOverlappingRuns ==
    \A e1, e2 \in execs :
        /\ e1.ticket \in NoOverlap
        /\ e2.ticket \in NoOverlap
        /\ JobOf[e1.ticket] = JobOf[e2.ticket]
        => e1 = e2

\* An execution whose lease etcd still holds has its claim: no completion of
\* another execution, and no sweep, takes the claim from under it.
LiveRunKeepsClaim ==
    \A e \in execs :
        e.epoch # 0 /\ <<e.node, e.epoch>> \in live
        => /\ e.ticket \in DOMAIN claimed
           /\ claimed[e.ticket] = [node |-> e.node, epoch |-> e.epoch]

\* The overlap lock of a job is never left behind: while it is there, a ticket
\* of the job is claimed by the node and the session that hold the lock.
LockHasClaim ==
    \A j \in DOMAIN overlap : \E t \in DOMAIN claimed \cap NoOverlap :
        JobOf[t] = j /\ claimed[t] = overlap[j]

\* A claimed ticket of a job that may overlap is still in the queue, so that it
\* can be claimed again when the claim evaporates, whatever fails.
ClaimedStaysQueued ==
    \A t \in DOMAIN claimed \ NoOverlap : t \in DOMAIN pending

\* The same of every ticket, as the README has it: "the ticket never left the
\* queue".
EveryClaimStaysQueued ==
    \A t \in DOMAIN claimed : t \in DOMAIN pending

\* A fire that was enqueued is in the queue or has a result that ends it: no
\* path removes the ticket without telling.
NoLostFire ==
    \A t \in Ticket :
        fires[t] > 0 /\ t \notin DOMAIN pending
        => \E r \in results : r.ticket = t /\ r.status \in Final

\* A ticket that has left the queue comes back only by being enqueued anew: no late
\* report and no retry of an execution that lost its claim puts it back.  Stated for
\* jobs that may overlap.
NoTicketComesBack ==
    [][\A t \in DOMAIN pending' \ DOMAIN pending :
           t \notin NoOverlap => fires'[t] = fires[t] + 1]_vars

\* A claim key rides a lease that etcd holds, so that it evaporates with its
\* node, as the README has it: "Claim rides a short lease".
ClaimsRideALease ==
    \A t \in DOMAIN claimed : <<claimed[t].node, claimed[t].epoch>> \in live

\* No result is put over another: a result key names a ticket and an attempt,
\* and every attempt is reported by the one execution that was given it.
OneReportPerAttempt ==
    \A r1, r2 \in results :
        r1.ticket = r2.ticket /\ r1.attempt = r2.attempt => r1 = r2

\* A ticket in the queue leaves it for good or in the end no node is running to
\* execute it: a claim whose holder died migrates to a surviving node.
EveryFireResolved ==
    \A t \in Ticket :
        t \in DOMAIN pending
        ~> t \notin DOMAIN pending \/ \A n \in Node : ~up[n]
=============================================================================
