-------------------------------- MODULE Jobs --------------------------------
(***************************************************************************)
(* The job repository of internal/jobs: calls of Create, Update, SetEnabled*)
(* and Delete that run at the same time on any nodes.  A call is one of a  *)
(* fixed set of clients; a client makes one call after the other.  What a  *)
(* job says is abstract, apart from its Enabled field; validation of the   *)
(* request happens before etcd is used and is left out.                    *)
(***************************************************************************)
EXTENDS Integers, FiniteSets, Etcd

CONSTANTS
    Client,         \* the callers
    Content,        \* what a job may say
    MaxAttempts,    \* how often Create tries: 8 in the code
    Faults,         \* {"rpc"} if calls to etcd may fail
    MaxId,          \* bound: how many jobs are created
    MaxCalls        \* bound: how many calls a client makes

ASSUME JobsAssumption ==
    /\ MaxAttempts \in Nat \ {0}
    /\ MaxId \in Nat
    /\ MaxCalls \in Nat

VARIABLES
    counter,    \* /cron/jobs/_counter: its value, 0 when it does not exist
    jobs,       \* /cron/jobs/: the jobs by ID
    \* of a client
    pc,         \* where its call is
    read,       \* the counter that Create read
    attempt,    \* how often Create has tried
    draft,      \* the ID and the value that Update or SetEnabled will put
    calls,      \* how many calls it made
    \* bookkeeping
    created,    \* the IDs that were given out, with the client and its call
    before      \* how many jobs had been created when the call started

vars == <<counter, jobs, pc, read, attempt, draft, calls, created, before>>
clientVars == <<pc, read, attempt, draft, calls, before>>

Id == 1 .. MaxId
Job == [content : Content, enabled : BOOLEAN]
Draft == [id : Id, job : Job]
PC == {"idle", "read", "commit", "put", "contention"}
NoDraft == [id |-> 0]

\* Every variable holds a value of its type.
TypeOK ==
    /\ counter \in Nat
    /\ IsKeySpace(jobs, Id, Job)
    /\ pc \in [Client -> PC]
    /\ read \in [Client -> Nat]
    /\ attempt \in [Client -> 0 .. MaxAttempts]
    /\ draft = [c \in Client |-> draft[c]]
    /\ \A c \in Client : draft[c] = NoDraft \/ draft[c] \in Draft
    /\ calls \in [Client -> Nat]
    /\ created \subseteq Id \X Client \X Nat
    /\ before \in [Client -> Nat]

Init ==
    /\ counter = 0
    /\ jobs = NoKeys
    /\ pc = [c \in Client |-> "idle"]
    /\ read = [c \in Client |-> 0]
    /\ attempt = [c \in Client |-> 0]
    /\ draft = [c \in Client |-> NoDraft]
    /\ calls = [c \in Client |-> 0]
    /\ created = {}
    /\ before = [c \in Client |-> 0]

Goto(c, label) == pc' = [pc EXCEPT ![c] = label]

\* The call of client c is over.
Return(c) ==
    /\ Goto(c, "idle")
    /\ draft' = [draft EXCEPT ![c] = NoDraft]

\* Client c starts a call.
Call(c, label) ==
    /\ pc[c] = "idle"
    /\ calls[c] < MaxCalls
    /\ calls' = [calls EXCEPT ![c] = @ + 1]
    /\ Goto(c, label)

-----------------------------------------------------------------------------
(* Create *)

CreateStart(c) ==
    /\ Call(c, "read")
    /\ attempt' = [attempt EXCEPT ![c] = 0]
    /\ before' = [before EXCEPT ![c] = Cardinality(created)]
    /\ UNCHANGED <<counter, jobs, read, draft, created>>

\* It reads the counter and its ModRevision.  Every put of the counter raises it,
\* so the value stands for the revision too.
ReadCounter(c) ==
    /\ pc[c] = "read"
    /\ read' = [read EXCEPT ![c] = counter]
    /\ Goto(c, "commit")
    /\ UNCHANGED <<counter, jobs, attempt, draft, calls, created, before>>

\* Mutant: the counter is not compared.
CounterAny(c) == TRUE

\* The comparison of Create.
CounterUnchanged(c) == counter = read[c]

\* What the transaction of Create puts: the counter and a new, enabled job.
CreateTxn(c, v) ==
    /\ counter' = read[c] + 1
    /\ jobs' = Put(jobs, read[c] + 1, [content |-> v, enabled |-> TRUE])
    /\ created' = created \cup {<<read[c] + 1, c, calls[c]>>}

CreateCommit(c, v) ==
    /\ pc[c] = "commit"
    /\ read[c] < MaxId
    /\ CounterUnchanged(c)
    /\ CreateTxn(c, v)
    /\ Return(c)
    /\ UNCHANGED <<read, attempt, calls, before>>

\* Mutant: Create never gives up.
CreateConflictForever(c) ==
    /\ pc[c] = "commit"
    /\ ~CounterUnchanged(c)
    /\ attempt' = [attempt EXCEPT ![c] = @ + 1]
    /\ Goto(c, "read")
    /\ UNCHANGED <<counter, jobs, read, draft, calls, created, before>>

\* Mutant: Create gives up at the first conflict.
CreateConflictOnce(c) ==
    /\ pc[c] = "commit"
    /\ ~CounterUnchanged(c)
    /\ attempt' = [attempt EXCEPT ![c] = @ + 1]
    /\ Goto(c, "contention")
    /\ UNCHANGED <<counter, jobs, read, draft, calls, created, before>>

\* Another Create was faster: try again, or give up.
CreateConflict(c) ==
    /\ pc[c] = "commit"
    /\ ~CounterUnchanged(c)
    /\ attempt' = [attempt EXCEPT ![c] = @ + 1]
    /\ Goto(c, IF attempt[c] + 1 < MaxAttempts THEN "read" ELSE "contention")
    /\ UNCHANGED <<counter, jobs, read, draft, calls, created, before>>

\* The error "id allocation contention" is returned.
CreateContention(c) ==
    /\ pc[c] = "contention"
    /\ Return(c)
    /\ UNCHANGED <<counter, jobs, read, attempt, calls, created, before>>

\* A call to etcd fails; a transaction may have been committed all the same.
CreateError(c) ==
    /\ "rpc" \in Faults
    /\ pc[c] \in {"read", "commit"}
    /\ \/ UNCHANGED <<counter, jobs, created>>
       \/ /\ pc[c] = "commit"
          /\ read[c] < MaxId
          /\ CounterUnchanged(c)
          /\ \E v \in Content : CreateTxn(c, v)
    /\ Return(c)
    /\ UNCHANGED <<read, attempt, calls, before>>

-----------------------------------------------------------------------------
(* Update, SetEnabled and Delete *)

\* Update reads the job, to see that it exists, and will replace it.
UpdateRead(c, i, j) ==
    /\ Call(c, "put")
    /\ i \in DOMAIN jobs
    /\ draft' = [draft EXCEPT ![c] = [id |-> i, job |-> j]]
    /\ UNCHANGED <<counter, jobs, read, attempt, created, before>>

\* SetEnabled reads the job and will put it back with another Enabled.
SetEnabledRead(c, i, e) ==
    /\ Call(c, "put")
    /\ i \in DOMAIN jobs
    /\ draft' = [draft EXCEPT ![c] = [id |-> i, job |-> [jobs[i] EXCEPT !.enabled = e]]]
    /\ UNCHANGED <<counter, jobs, read, attempt, created, before>>

\* Both put the job without a comparison.
PutDraft(c) ==
    /\ pc[c] = "put"
    /\ jobs' = Put(jobs, draft[c].id, draft[c].job)
    /\ Return(c)
    /\ UNCHANGED <<counter, read, attempt, calls, created, before>>

\* The put fails.
PutError(c) ==
    /\ "rpc" \in Faults
    /\ pc[c] = "put"
    /\ Return(c)
    /\ UNCHANGED <<counter, jobs, read, attempt, calls, created, before>>

\* Delete removes the job; the counter stays.
DeleteJob(c, i) ==
    /\ pc[c] = "idle"
    /\ calls[c] < MaxCalls
    /\ calls' = [calls EXCEPT ![c] = @ + 1]
    /\ jobs' = Delete(jobs, {i})
    /\ UNCHANGED <<counter, pc, read, attempt, draft, created, before>>

-----------------------------------------------------------------------------
CreateStep(c) ==
    \/ CreateStart(c) \/ ReadCounter(c) \/ CreateConflict(c) \/ CreateContention(c)
    \/ CreateError(c)
    \/ \E v \in Content : CreateCommit(c, v)

Next ==
    \E c \in Client :
        \/ CreateStep(c) \/ PutDraft(c) \/ PutError(c)
        \/ \E i \in Id :
               \/ DeleteJob(c, i)
               \/ \E j \in Job : UpdateRead(c, i, j)
               \/ \E e \in BOOLEAN : SetEnabledRead(c, i, e)

Spec == Init /\ [][Next]_vars

-----------------------------------------------------------------------------
(* Properties *)

\* No ID is given out twice, neither to two calls at the same time nor again
\* after its job was deleted: tickets, watermarks, overlap locks and the history
\* are keyed by it.
IdsAreUnique ==
    \A x, y \in created : x[1] = y[1] => x = y

\* The counter is the highest ID given out, so a job never has an ID that a later
\* Create will give out, although Update and SetEnabled put jobs unconditionally.
CounterCoversJobs ==
    /\ \A i \in DOMAIN jobs : i <= counter
    /\ \A c \in Client : draft[c] # NoDraft => draft[c].id <= counter

\* Create gives up only if others got through: when a call reports contention,
\* at least as many jobs were created since it started as it made attempts.
ContentionMeansProgress ==
    \A c \in Client :
        pc[c] = "contention" => Cardinality(created) - before[c] >= MaxAttempts
=============================================================================
