------------------------------ MODULE Election ------------------------------
(***************************************************************************)
(* Leader election and membership of internal/cluster: the loop Node.Run   *)
(* with registerMember, campaign and follow, the election session of a     *)
(* node, and the flag IsLeader that the scheduler of the node reads.       *)
(*                                                                         *)
(* One step is one etcd operation, or one step of the loop between two of  *)
(* them.  Only Run opens and drops the session of a running node, so the   *)
(* session is the same when campaign reads its lease and when it commits.  *)
(***************************************************************************)
EXTENDS Integers, Sequences, Etcd

CONSTANTS
    Node,       \* the nodes, by node_id
    Faults,     \* which failures happen: subset of FaultKinds
    MaxEpoch    \* bound: how many election sessions a node opens

FaultKinds == {"crash", "expire", "rpc"}

ASSUME ElectionAssumption ==
    /\ Faults \subseteq FaultKinds
    /\ MaxEpoch \in Nat

VARIABLES
    \* in etcd
    leader,     \* /cron/leader: the node that put it and the epoch of its lease
    members,    \* /cron/members/: the same, per node
    live,       \* the election leases etcd holds, as <<node, epoch>>
    events,     \* what a node's watch has still to see of the leader key: {n} is
                \* a put by n, {} is a delete
    \* on a node
    up,         \* the process runs
    session,    \* epoch of Node.session, 0 when it is nil
    epoch,      \* how many sessions the node has opened
    pc,         \* where the loop Run is
    isLeader,   \* Node.isLeader
    known       \* Node.leader: the leader the node reports, {} when none

etcdVars == <<leader, members, live, events>>
nodeVars == <<up, session, epoch, pc, isLeader, known>>
vars == <<etcdVars, nodeVars>>

LeaderKey == "leader"
KeyValue == [node : Node, epoch : Nat]
PC == {"session", "register", "campaign", "won", "lead", "follow", "watch"}

\* Every variable holds a value of its type.
TypeOK ==
    /\ IsKeySpace(leader, {LeaderKey}, KeyValue)
    /\ IsKeySpace(members, Node, KeyValue)
    /\ live \subseteq Node \X Nat
    /\ events \in [Node -> Seq(SUBSET Node)]
    /\ up \in [Node -> BOOLEAN]
    /\ session \in [Node -> Nat]
    /\ epoch \in [Node -> Nat]
    /\ pc \in [Node -> PC]
    /\ isLeader \in [Node -> BOOLEAN]
    /\ known \in [Node -> SUBSET Node]

\* Connect has opened the session of every node before Run is called.
Init ==
    /\ leader = NoKeys
    /\ members = NoKeys
    /\ live = {<<n, 1>> : n \in Node}
    /\ events = [n \in Node |-> <<>>]
    /\ up = [n \in Node |-> TRUE]
    /\ session = [n \in Node |-> 1]
    /\ epoch = [n \in Node |-> 1]
    /\ pc = [n \in Node |-> "session"]
    /\ isLeader = [n \in Node |-> FALSE]
    /\ known = [n \in Node |-> {}]

-----------------------------------------------------------------------------
(* Helpers *)

HasLease(n) == <<n, session[n]>> \in live

\* Every node that watches the leader key is sent event e.
Notify(e) ==
    events' = [n \in Node |-> IF up[n] /\ pc[n] = "watch" THEN Append(events[n], e)
                              ELSE events[n]]

Goto(n, label) == pc' = [pc EXCEPT ![n] = label]

\* NewSession grants a lease that no session had before.
NewSession(n) ==
    /\ epoch' = [epoch EXCEPT ![n] = @ + 1]
    /\ session' = [session EXCEPT ![n] = epoch[n] + 1]
    /\ live' = live \cup {<<n, epoch[n] + 1>>}

\* dropSession, and back to the top of the loop.  The lease is revoked by Close
\* or, if the revocation fails, expires: LeaseExpire either way.
DropSession(n) ==
    /\ session' = [session EXCEPT ![n] = 0]
    /\ events' = [events EXCEPT ![n] = <<>>]
    /\ Goto(n, "session")

-----------------------------------------------------------------------------
(* The loop Run *)

\* ensureSession: nothing to do, or a new lease.
EnsureSession(n) ==
    /\ up[n]
    /\ pc[n] = "session"
    /\ IF session[n] # 0
       THEN UNCHANGED <<session, epoch, live>>
       ELSE NewSession(n)
    /\ Goto(n, "register")
    /\ UNCHANGED <<leader, members, events, up, isLeader, known>>

\* Mutant: the member key rides no lease.
PutMemberNoLease(n) == members' = Put(members, n, [node |-> n, epoch |-> 0])

\* Mutant: the member key is named by the address, which all nodes share.
PutMemberByAddr(n) == members' = Put(members, ":8080", [node |-> n, epoch |-> session[n]])

\* What registerMember puts.
PutMember(n) == members' = Put(members, n, [node |-> n, epoch |-> session[n]])

\* registerMember puts the member key under the lease of the session.
RegisterMember(n) ==
    /\ up[n]
    /\ pc[n] = "register"
    /\ HasLease(n)
    /\ PutMember(n)
    /\ Goto(n, "campaign")
    /\ UNCHANGED <<leader, live, events, up, session, epoch, isLeader, known>>

\* registerMember fails: the lease is gone, or the call fails, done or not.
RegisterError(n) ==
    /\ up[n]
    /\ pc[n] = "register"
    /\ HasLease(n) => "rpc" \in Faults /\ epoch[n] < MaxEpoch
    /\ \/ UNCHANGED members
       \/ HasLease(n) /\ PutMember(n)
    /\ DropSession(n)
    /\ UNCHANGED <<leader, live, up, epoch, isLeader, known>>

\* Mutant: the leader key is put whether or not it exists.
CampaignCompareAny(n) == TRUE

\* The comparison of campaign.
CampaignCompare(n) == LeaderKey \notin DOMAIN leader

\* What campaign puts.
CampaignTxn(n) ==
    /\ leader' = Put(leader, LeaderKey, [node |-> n, epoch |-> session[n]])
    /\ Notify({n})

\* The campaign is won.
CampaignWon(n) ==
    /\ up[n]
    /\ pc[n] = "campaign"
    /\ CampaignCompare(n)
    /\ HasLease(n)
    /\ CampaignTxn(n)
    /\ Goto(n, "won")
    /\ UNCHANGED <<members, live, up, session, epoch, isLeader, known>>

\* There is a leader already.
CampaignLost(n) ==
    /\ up[n]
    /\ pc[n] = "campaign"
    /\ ~CampaignCompare(n)
    /\ Goto(n, "follow")
    /\ UNCHANGED <<etcdVars, up, session, epoch, isLeader, known>>

\* campaign returns an error: the lease is gone, or the call fails, committed
\* or not.  Run drops the session.
CampaignError(n) ==
    /\ up[n]
    /\ pc[n] = "campaign"
    /\ \/ CampaignCompare(n) /\ ~HasLease(n) /\ UNCHANGED <<leader, events>>
       \/ /\ "rpc" \in Faults
          /\ epoch[n] < MaxEpoch
          /\ \/ UNCHANGED <<leader, events>>
             \/ CampaignCompare(n) /\ HasLease(n) /\ CampaignTxn(n)
    /\ session' = [session EXCEPT ![n] = 0]
    /\ Goto(n, "session")
    /\ UNCHANGED <<members, live, up, epoch, isLeader, known>>

\* Run learns that it has won and sets the flag, however long the answer took.
Lead(n) ==
    /\ up[n]
    /\ pc[n] = "won"
    /\ isLeader' = [isLeader EXCEPT ![n] = TRUE]
    /\ known' = [known EXCEPT ![n] = {n}]
    /\ Goto(n, "lead")
    /\ UNCHANGED <<etcdVars, up, session, epoch>>

\* The session is done: its lease is gone, or the client saw no answer for a TTL
\* and gives up before etcd does.
Done(n) == HasLease(n) => "expire" \in Faults /\ epoch[n] < MaxEpoch

\* The leader notices that its session is done.
Resign(n) ==
    /\ up[n]
    /\ pc[n] = "lead"
    /\ Done(n)
    /\ isLeader' = [isLeader EXCEPT ![n] = FALSE]
    /\ known' = [known EXCEPT ![n] = {}]
    /\ DropSession(n)
    /\ UNCHANGED <<leader, members, live, up, epoch>>

\* Mutant: follow does not remember the leader it read.
FollowForgetful(n) ==
    /\ up[n]
    /\ pc[n] = "follow"
    /\ Goto(n, IF LeaderKey \in DOMAIN leader THEN "watch" ELSE "session")
    /\ UNCHANGED <<etcdVars, up, session, epoch, isLeader, known>>

\* follow reads the leader key, remembers the leader and watches the key from
\* the next revision on; without a leader it returns to campaign.
Follow(n) ==
    /\ up[n]
    /\ pc[n] = "follow"
    /\ IF LeaderKey \in DOMAIN leader
       THEN /\ known' = [known EXCEPT ![n] = {leader[LeaderKey].node}]
            /\ Goto(n, "watch")
       ELSE /\ Goto(n, "session")
            /\ UNCHANGED known
    /\ UNCHANGED <<etcdVars, up, session, epoch, isLeader>>

\* follow cannot read the leader key.
FollowError(n) ==
    /\ "rpc" \in Faults
    /\ up[n]
    /\ pc[n] = "follow"
    /\ epoch[n] < MaxEpoch
    /\ DropSession(n)
    /\ UNCHANGED <<leader, members, live, up, epoch, isLeader, known>>

\* Mutant: follow goes on watching after the leader key was deleted.
WatchEventStay(n) ==
    /\ up[n]
    /\ pc[n] = "watch"
    /\ events[n] # <<>>
    /\ known' = [known EXCEPT ![n] = Head(events[n])]
    /\ events' = [events EXCEPT ![n] = Tail(@)]
    /\ UNCHANGED <<leader, members, live, up, session, epoch, pc, isLeader>>

\* The watch delivers the next event: remember the new leader, or campaign.
WatchEvent(n) ==
    /\ up[n]
    /\ pc[n] = "watch"
    /\ events[n] # <<>>
    /\ known' = [known EXCEPT ![n] = Head(events[n])]
    /\ IF Head(events[n]) = {}
       THEN /\ events' = [events EXCEPT ![n] = <<>>]
            /\ Goto(n, "session")
       ELSE /\ events' = [events EXCEPT ![n] = Tail(@)]
            /\ UNCHANGED pc
    /\ UNCHANGED <<leader, members, live, up, session, epoch, isLeader>>

\* The session of a follower is done.
WatchSessionDone(n) ==
    /\ up[n]
    /\ pc[n] = "watch"
    /\ Done(n)
    /\ DropSession(n)
    /\ UNCHANGED <<leader, members, live, up, epoch, isLeader, known>>

\* The watch channel is closed: back to the top with the same session.
WatchClosed(n) ==
    /\ "rpc" \in Faults
    /\ up[n]
    /\ pc[n] = "watch"
    /\ events' = [events EXCEPT ![n] = <<>>]
    /\ Goto(n, "session")
    /\ UNCHANGED <<leader, members, live, up, session, epoch, isLeader, known>>

-----------------------------------------------------------------------------
(* Leases and processes *)

\* etcd drops a lease with the keys that ride it: at once when the session is
\* closed, at the end of its TTL when the node is gone or, under "expire", when
\* a running node does not renew it in time.
LeaseExpire(n, e) ==
    /\ <<n, e>> \in live
    /\ session[n] = e => "expire" \in Faults /\ epoch[n] < MaxEpoch
    /\ live' = live \ {<<n, e>>}
    /\ members' = Unlease(members, n, e)
    /\ leader' = Unlease(leader, n, e)
    /\ IF LeaderKey \in DOMAIN leader \ DOMAIN leader'
       THEN Notify({})
       ELSE UNCHANGED events
    /\ UNCHANGED nodeVars

\* The process is killed.
Crash(n) ==
    /\ "crash" \in Faults
    /\ up[n]
    /\ epoch[n] < MaxEpoch
    /\ up' = [up EXCEPT ![n] = FALSE]
    /\ isLeader' = [isLeader EXCEPT ![n] = FALSE]
    /\ known' = [known EXCEPT ![n] = {}]
    /\ DropSession(n)
    /\ UNCHANGED <<leader, members, live, epoch>>

\* The process starts: Connect, then Run.
Start(n) ==
    /\ ~up[n]
    /\ up' = [up EXCEPT ![n] = TRUE]
    /\ NewSession(n)
    /\ UNCHANGED <<leader, members, events, pc, isLeader, known>>

-----------------------------------------------------------------------------
RunStep(n) ==
    \/ EnsureSession(n)
    \/ RegisterMember(n) \/ RegisterError(n)
    \/ CampaignWon(n) \/ CampaignLost(n) \/ CampaignError(n)
    \/ Lead(n) \/ Resign(n)
    \/ Follow(n) \/ FollowError(n)
    \/ WatchEvent(n) \/ WatchSessionDone(n) \/ WatchClosed(n)

Next ==
    \/ \E n \in Node : RunStep(n) \/ Crash(n) \/ Start(n)
    \/ \E p \in live : LeaseExpire(p[1], p[2])

Spec == Init /\ [][Next]_vars

(***************************************************************************)
(* What is sure to happen: the loop of a running node goes on (it waits    *)
(* only for its session, for the watch, and for calls that return), and    *)
(* etcd drops a lease that nobody renews.  A session that is alive need    *)
(* not end, a process need not restart, and no fault need happen.          *)
(***************************************************************************)
Fairness ==
    /\ \A n \in Node :
           /\ WF_vars(RunStep(n) /\ (pc[n] = "lead" => ~HasLease(n))
                                /\ (pc[n] = "watch" => ~HasLease(n) \/ events[n] # <<>>))
           /\ WF_vars(\E p \in live :
                  p[1] = n /\ session[n] # p[2] /\ LeaseExpire(n, p[2]))

FairSpec == Spec /\ Fairness

-----------------------------------------------------------------------------
(* Properties *)

\* The flag of a node whose lease etcd still holds is backed by the leader key:
\* whatever was lost or delayed, a node that etcd counts as alive never takes
\* itself for the leader while the key is absent or another's.
FlagBacked ==
    \A n \in Node :
        isLeader[n] /\ HasLease(n)
        => /\ LeaderKey \in DOMAIN leader
           /\ leader[LeaderKey] = [node |-> n, epoch |-> session[n]]

\* At most one node takes itself for the leader, as the README has it:
\* "Split-brain impossible".
OneLeader ==
    \A m, n \in Node : isLeader[m] /\ isLeader[n] => m = n

\* A leader is always elected again: time and again some node has the flag and
\* a live lease, or no node runs.
LeaderElected ==
    []<>(\/ \E n \in Node : isLeader[n] /\ HasLease(n)
         \/ \A n \in Node : ~up[n])

\* Once failures stop, every running node reports the holder of the leader key
\* as the leader, and for good.
KnownConverges ==
    <>[](\A n \in Node : up[n] =>
            /\ LeaderKey \in DOMAIN leader
            /\ known[n] = {leader[LeaderKey].node})

\* Once failures stop, the members are exactly the running nodes, and for good:
\* a node that dies leaves, and a node whose lease was lost registers again.
MembersConverge == <>[](DOMAIN members = {n \in Node : up[n]})
=============================================================================
