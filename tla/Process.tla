------------------------------ MODULE Process ------------------------------
(***************************************************************************)
(* One orbixd process, goroutine by goroutine, from its service to its     *)
(* exit: main with its shutdown (cmd/orbixd/main.go), the worker loop and  *)
(* Drain (internal/worker), and the commands it runs (internal/executor).  *)
(* Queue looks at many nodes and takes the end of a process for one step;  *)
(* here it is taken apart.                                                 *)
(*                                                                         *)
(* A ticket is claimed once at most by this process.  What other nodes do  *)
(* with tickets is in Queue.                                               *)
(***************************************************************************)
EXTENDS Integers, FiniteSets

CONSTANTS
    Ticket,         \* the tickets
    Leaky,          \* the tickets whose command leaves a process with its pipes behind
    MaxConcurrent   \* max_concurrent

ASSUME ProcessAssumption ==
    /\ IsFiniteSet(Ticket)
    /\ Leaky \subseteq Ticket
    /\ MaxConcurrent \in Nat \ {0}

VARIABLES
    main,       \* where main is; "exited" and "panicked" are the ends of the process
    cancelled,  \* runCtx is cancelled
    timedOut,   \* Drain has given up waiting
    \* Worker
    loop,       \* where Worker.Run is
    hand,       \* the ticket it is about to claim or has claimed, as a set
    slots,      \* Worker.slots
    wg,         \* the counter of Worker.wg
    \* the executions
    stage,      \* where the goroutine of a ticket is
    shell,      \* the state of its shell
    pipes,      \* the tickets whose pipes are held open by a process left behind
    expired,    \* the tickets whose timeout is over
    outcome,    \* what executor.Run returned
    \* in etcd
    lease,      \* the lease of the claim session is live
    claims,     \* the tickets claimed under it
    reports,    \* the tickets with a result
    \* bookkeeping
    late,       \* the tickets whose execution started when Drain was over
    lost        \* the tickets whose completion failed although the client was open

mainVars == <<main, cancelled, timedOut>>
workerVars == <<loop, hand, slots, wg>>
commandVars == <<shell, pipes, expired, outcome>>
etcdVars == <<lease, claims, reports>>
bookVars == <<late, lost>>
vars == <<mainVars, workerVars, stage, commandVars, etcdVars, bookVars>>

Main == {"serve", "drain", "close", "closed", "exited", "panicked"}
Loop == {"idle", "commit", "won", "counted", "stopped"}
Stage == {"none", "run", "report", "slot", "done", "over"}
Shell == {"none", "running", "ok", "error", "killed"}
Outcome == {"none", "success", "failed", "timeout"}

\* Every variable holds a value of its type.
TypeOK ==
    /\ main \in Main
    /\ cancelled \in BOOLEAN
    /\ timedOut \in BOOLEAN
    /\ loop \in Loop
    /\ hand \subseteq Ticket
    /\ slots \in Nat
    /\ wg \in Nat
    /\ stage \in [Ticket -> Stage]
    /\ shell \in [Ticket -> Shell]
    /\ pipes \subseteq Ticket
    /\ expired \subseteq Ticket
    /\ outcome \in [Ticket -> Outcome]
    /\ lease \in BOOLEAN
    /\ claims \subseteq Ticket
    /\ reports \subseteq Ticket
    /\ late \subseteq Ticket
    /\ lost \subseteq Ticket

\* Connect has opened the sessions and main has started its goroutines.
Init ==
    /\ main = "serve"
    /\ cancelled = FALSE
    /\ timedOut = FALSE
    /\ loop = "idle"
    /\ hand = {}
    /\ slots = 0
    /\ wg = 0
    /\ stage = [t \in Ticket |-> "none"]
    /\ shell = [t \in Ticket |-> "none"]
    /\ pipes = {}
    /\ expired = {}
    /\ outcome = [t \in Ticket |-> "none"]
    /\ lease = TRUE
    /\ claims = {}
    /\ reports = {}
    /\ late = {}
    /\ lost = {}

Alive == main \notin {"exited", "panicked"}

-----------------------------------------------------------------------------
(* Worker.Run and tryClaim *)

\* The loop goes round with a free slot and ClaimNext finds a ticket.
TryClaim(t) ==
    /\ Alive
    /\ loop = "idle"
    /\ ~cancelled
    /\ slots < MaxConcurrent
    /\ stage[t] = "none"
    /\ loop' = "commit"
    /\ hand' = {t}
    /\ UNCHANGED <<mainVars, slots, wg, stage, commandVars, etcdVars, bookVars>>

\* The claim transaction is answered with success, perhaps while the process is
\* already shutting down.
ClaimWon ==
    /\ Alive
    /\ loop = "commit"
    /\ lease
    /\ claims' = claims \cup hand
    /\ loop' = "won"
    /\ UNCHANGED <<mainVars, hand, slots, wg, stage, commandVars, lease, reports, bookVars>>

\* Another node has claimed the ticket.
ClaimLost ==
    /\ Alive
    /\ loop = "commit"
    /\ loop' = "idle"
    /\ hand' = {}
    /\ UNCHANGED <<mainVars, slots, wg, stage, commandVars, etcdVars, bookVars>>

\* The claim transaction fails, committed or not: etcd does not answer, or the context
\* is cancelled.  Commit returns no response, claim reads resp.Succeeded, and the
\* process panics.
ClaimPanic ==
    /\ Alive
    /\ loop = "commit"
    /\ claims' \in {claims, IF lease THEN claims \cup hand ELSE claims}
    /\ main' = "panicked"
    /\ UNCHANGED <<cancelled, timedOut, workerVars, stage, commandVars, lease, reports,
                   bookVars>>

\* Mutant: the slot is not counted.
NotCounted == slots

\* w.slots++
Counted == slots + 1

CountSlot ==
    /\ Alive
    /\ loop = "won"
    /\ slots' = Counted
    /\ loop' = "counted"
    /\ UNCHANGED <<mainVars, hand, wg, stage, commandVars, etcdVars, bookVars>>

\* w.wg.Add(1) and the goroutine, which starts the command with its timeout.
Spawn(t) ==
    /\ Alive
    /\ loop = "counted"
    /\ hand = {t}
    /\ wg' = wg + 1
    /\ stage' = [stage EXCEPT ![t] = "run"]
    /\ shell' = [shell EXCEPT ![t] = "running"]
    /\ pipes' = IF t \in Leaky THEN pipes \cup {t} ELSE pipes
    /\ late' = IF main \in {"serve", "drain"} THEN late ELSE late \cup {t}
    /\ loop' = "idle"
    /\ hand' = {}
    /\ UNCHANGED <<mainVars, slots, expired, outcome, etcdVars, lost>>

\* The loop sees that the context is cancelled.
LoopStops ==
    /\ Alive
    /\ loop = "idle"
    /\ cancelled
    /\ loop' = "stopped"
    /\ UNCHANGED <<mainVars, hand, slots, wg, stage, commandVars, etcdVars, bookVars>>

-----------------------------------------------------------------------------
(* executor.Run *)

\* The shell ends by itself, with exit code 0 or another one.
ShellExits(t, how) ==
    /\ Alive
    /\ stage[t] = "run"
    /\ shell[t] = "running"
    /\ shell' = [shell EXCEPT ![t] = how]
    /\ UNCHANGED <<mainVars, workerVars, stage, pipes, expired, outcome, etcdVars, bookVars>>

\* Mutant: the shell is left alone.
NotKilled(state) == state

\* exec.CommandContext kills the shell if it still runs, and only the shell.
Killed(state) == IF state = "running" THEN "killed" ELSE state

\* The timeout is over.
Deadline(t) ==
    /\ Alive
    /\ stage[t] = "run"
    /\ t \notin expired
    /\ expired' = expired \cup {t}
    /\ shell' = [shell EXCEPT ![t] = Killed(@)]
    /\ UNCHANGED <<mainVars, workerVars, stage, pipes, outcome, etcdVars, bookVars>>

\* A process that the command left behind ends.
PipesClose(t) ==
    /\ Alive
    /\ t \in pipes
    /\ pipes' = pipes \ {t}
    /\ UNCHANGED <<mainVars, workerVars, stage, shell, expired, outcome, etcdVars, bookVars>>

\* cmd.Run returns when the shell has ended and nobody holds its pipes.  What Run
\* reports depends on the context first: a command that ended well is "timeout" if
\* the time is over by now.
RunReturns(t) ==
    /\ Alive
    /\ stage[t] = "run"
    /\ shell[t] # "running"
    /\ t \notin pipes
    /\ outcome' = [outcome EXCEPT ![t] = IF t \in expired THEN "timeout"
                                         ELSE IF shell[t] = "ok" THEN "success"
                                         ELSE "failed"]
    /\ stage' = [stage EXCEPT ![t] = "report"]
    /\ UNCHANGED <<mainVars, workerVars, shell, pipes, expired, etcdVars, bookVars>>

-----------------------------------------------------------------------------
(* The end of an execution *)

\* The transaction of FinishSuccess or FinishFailure: the result is put in any case,
\* and the claim is deleted if it is still there.
Complete(t) ==
    /\ main # "closed"
    /\ reports' = reports \cup {t}
    /\ claims' = claims \ {t}
    /\ UNCHANGED lease

\* The completion succeeds.
Report(t) ==
    /\ Alive
    /\ stage[t] = "report"
    /\ Complete(t)
    /\ stage' = [stage EXCEPT ![t] = "slot"]
    /\ UNCHANGED <<mainVars, workerVars, commandVars, bookVars>>

\* The completion fails at etcd, committed or not, or because the client is closed.
\* The error is logged, and the execution ends all the same.
ReportError(t) ==
    /\ Alive
    /\ stage[t] = "report"
    /\ Complete(t) \/ UNCHANGED etcdVars
    /\ lost' = IF main = "closed" THEN lost ELSE lost \cup {t}
    /\ stage' = [stage EXCEPT ![t] = "slot"]
    /\ UNCHANGED <<mainVars, workerVars, commandVars, late>>

\* w.slots--
FreeSlot(t) ==
    /\ Alive
    /\ stage[t] = "slot"
    /\ slots' = slots - 1
    /\ stage' = [stage EXCEPT ![t] = "done"]
    /\ UNCHANGED <<mainVars, loop, hand, wg, commandVars, etcdVars, bookVars>>

\* w.wg.Done()
WgDone(t) ==
    /\ Alive
    /\ stage[t] = "done"
    /\ wg' = wg - 1
    /\ stage' = [stage EXCEPT ![t] = "over"]
    /\ UNCHANGED <<mainVars, loop, hand, slots, commandVars, etcdVars, bookVars>>

-----------------------------------------------------------------------------
(* main and Drain *)

\* A signal, or onLeave of the API: the context is cancelled.
Cancel ==
    /\ main = "serve"
    /\ ~cancelled
    /\ cancelled' = TRUE
    /\ UNCHANGED <<main, timedOut, workerVars, stage, commandVars, etcdVars, bookVars>>

\* main wakes up, shuts the server down and begins to drain.
StopServing ==
    /\ main = "serve"
    /\ cancelled
    /\ main' = "drain"
    /\ UNCHANGED <<cancelled, timedOut, workerVars, stage, commandVars, etcdVars, bookVars>>

\* Mutant: Drain waits for the commands and not for their goroutines.
NoCommand == \A t \in Ticket : stage[t] # "run"

\* The condition of w.wg.Wait().
Drained == wg = 0

\* Wait returns.  An execution that starts from here on is not waited for.
DrainDone ==
    /\ main = "drain"
    /\ Drained
    /\ main' = "close"
    /\ UNCHANGED <<cancelled, timedOut, workerVars, stage, commandVars, etcdVars, bookVars>>

\* Mutant: Drain waits without a limit.
DrainWaits == FALSE

\* Drain gives up.
DrainTimeout ==
    /\ main = "drain"
    /\ main' = "close"
    /\ timedOut' = TRUE
    /\ UNCHANGED <<cancelled, workerVars, stage, commandVars, etcdVars, bookVars>>

\* Close gives the claim session up, which revokes its lease unless the call fails,
\* and closes the client.
Close ==
    /\ main = "close"
    /\ main' = "closed"
    /\ lease' \in BOOLEAN
    /\ claims' = IF lease' THEN claims ELSE {}
    /\ UNCHANGED <<cancelled, timedOut, workerVars, stage, commandVars, reports, bookVars>>

\* main returns, and every goroutine ends with it.
Exit ==
    /\ main = "closed"
    /\ main' = "exited"
    /\ UNCHANGED <<cancelled, timedOut, workerVars, stage, commandVars, etcdVars, bookVars>>

\* Nobody renews the lease any more.
LeaseExpires ==
    /\ main \in {"closed", "exited", "panicked"}
    /\ lease
    /\ lease' = FALSE
    /\ claims' = {}
    /\ UNCHANGED <<mainVars, workerVars, stage, commandVars, reports, bookVars>>

-----------------------------------------------------------------------------

\* The goroutine of Worker.Run.
LoopStep ==
    \/ \E t \in Ticket : TryClaim(t)
    \/ ClaimWon
    \/ ClaimLost
    \/ ClaimPanic
    \/ CountSlot
    \/ \E t \in Ticket : Spawn(t)
    \/ LoopStops

\* The goroutine of an execution.
ExecuteStep(t) ==
    \/ RunReturns(t)
    \/ Report(t)
    \/ ReportError(t)
    \/ FreeSlot(t)
    \/ WgDone(t)

\* The goroutine main.
MainStep ==
    \/ StopServing
    \/ DrainDone
    \/ DrainTimeout
    \/ Close
    \/ Exit

Next ==
    \/ LoopStep
    \/ \E t \in Ticket : ExecuteStep(t)
    \/ \E t \in Ticket : Deadline(t) \/ PipesClose(t)
    \/ \E t \in Ticket, how \in {"ok", "error"} : ShellExits(t, how)
    \/ MainStep
    \/ Cancel
    \/ LeaseExpires

Spec == Init /\ [][Next]_vars

\* Goroutines run, the timers of executor.Run and of Drain go off, and etcd ends a
\* lease that nobody renews.  Nothing makes a command or what it left behind end,
\* and nobody need ask the process to leave.
Fairness ==
    /\ WF_vars(LoopStep)
    /\ \A t \in Ticket : WF_vars(ExecuteStep(t)) /\ WF_vars(Deadline(t))
    /\ WF_vars(MainStep)
    /\ WF_vars(LeaseExpires)

FairSpec == Spec /\ Fairness

-----------------------------------------------------------------------------
(* Properties *)

\* The loop checks the slots before it claims and counts them after, in two critical
\* sections with an etcd call between (worker.go:44, 60), while executions give theirs
\* back: no more than MaxConcurrent commands run, and a slot in use has an execution.
RunsWithinLimit ==
    /\ Cardinality({t \in Ticket : stage[t] = "run"}) <= MaxConcurrent
    /\ slots \in 0 .. MaxConcurrent

\* A shutdown in which Drain did not give up (worker.go:76) cuts off no execution that
\* had begun before Wait returned: each has reported while the client was open, so
\* that its result is in etcd unless etcd failed the completion, and has left its
\* slot, whatever claims and reports race with the end.
DrainKeepsPromise ==
    main = "exited" /\ ~timedOut =>
        \A t \in Ticket : stage[t] # "none" /\ t \notin late =>
            stage[t] = "over" /\ t \in reports \cup lost

\* A process that is asked to leave ends, whatever its commands do, and afterwards its
\* claims are gone, so that other nodes run its tickets (main.go:94-102).
LeaveEnds ==
    cancelled ~> (~Alive /\ claims = {})

\* An execution ends, at the latest by its timeout, if nothing holds the pipes of its
\* shell (executor.go:31, 42).
EveryRunEnds ==
    \A t \in Ticket :
        (stage[t] = "run" /\ t \notin pipes) ~> (stage[t] # "run" \/ ~Alive)
=============================================================================
