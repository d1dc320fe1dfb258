-------------------------- MODULE ElectionProofs --------------------------
(***************************************************************************)
(* Proofs about Election, for any number of nodes and whatever fails: the  *)
(* types, that a leader holds the leader key, and that Election implements *)
(* Leadership, with what follows for the flags when no running node loses  *)
(* its lease.                                                              *)
(***************************************************************************)
EXTENDS ElectionLeadership, TLAPS

\* The types of what a put or the loss of a lease leaves of a prefix.
LEMMA KeysType ==
    ASSUME NEW K, NEW V, NEW kv, IsKeySpace(kv, K, V)
    PROVE  /\ \A k \in K, v \in V : IsKeySpace(Put(kv, k, v), K, V)
           /\ \A n, e : IsKeySpace(Unlease(kv, n, e), K, V)
BY DEF IsKeySpace, Put, Unlease, Delete

\* Events are typed after a notification, after a drop and after a delivery.
LEMMA NotifyType ==
    ASSUME TypeOK, NEW e \in SUBSET Node, Notify(e)
    PROVE  events' \in [Node -> Seq(SUBSET Node)]
BY DEF TypeOK, Notify

\* dropSession leaves typed state.
LEMMA DropSessionType ==
    ASSUME TypeOK, NEW n \in Node, DropSession(n)
    PROVE  /\ session' \in [Node -> Nat]
           /\ events' \in [Node -> Seq(SUBSET Node)]
           /\ pc' \in [Node -> PC]
BY DEF TypeOK, DropSession, Goto, PC

\* A new session is typed.
LEMMA NewSessionType ==
    ASSUME TypeOK, NEW n \in Node, NewSession(n)
    PROVE  /\ session' \in [Node -> Nat]
           /\ epoch' \in [Node -> Nat]
           /\ live' \subseteq Node \X Nat
BY DEF TypeOK, NewSession

\* What campaign and registerMember put is typed.
LEMMA CampaignTxnType ==
    ASSUME TypeOK, NEW n \in Node
    PROVE  /\ CampaignTxn(n) => /\ IsKeySpace(leader', {LeaderKey}, KeyValue)
                                /\ events' \in [Node -> Seq(SUBSET Node)]
           /\ PutMember(n) => IsKeySpace(members', Node, KeyValue)
<1>1. [node |-> n, epoch |-> session[n]] \in KeyValue
  BY DEF TypeOK, KeyValue
<1>2. ASSUME CampaignTxn(n) PROVE events' \in [Node -> Seq(SUBSET Node)]
  BY <1>2, NotifyType DEF CampaignTxn
<1>3. ASSUME CampaignTxn(n) PROVE IsKeySpace(leader', {LeaderKey}, KeyValue)
  BY <1>1, <1>3, KeysType DEF CampaignTxn, TypeOK
<1>4. ASSUME PutMember(n) PROVE IsKeySpace(members', Node, KeyValue)
  BY <1>1, <1>4, KeysType DEF PutMember, TypeOK
<1> QED
  BY <1>2, <1>3, <1>4

\* Every step keeps the state typed.
LEMMA TypeStep ==
    ASSUME TypeOK, [Next]_vars
    PROVE  TypeOK'
<1> USE DEF etcdVars, nodeVars
<1>1. ASSUME NEW n \in Node, RunStep(n) PROVE TypeOK'
  <2>1. CASE EnsureSession(n)
    <3>1. pc' \in [Node -> PC]
      BY <2>1 DEF EnsureSession, Goto, TypeOK, PC
    <3>2. session' \in [Node -> Nat] /\ epoch' \in [Node -> Nat] /\ live' \subseteq Node \X Nat
      BY <2>1, NewSessionType DEF EnsureSession, TypeOK
    <3> QED
      BY <2>1, <3>1, <3>2 DEF EnsureSession, TypeOK
  <2>2. CASE RegisterMember(n)
    BY <2>2, CampaignTxnType DEF RegisterMember, Goto, TypeOK, PC
  <2>3. CASE RegisterError(n)
    BY <2>3, CampaignTxnType, DropSessionType DEF RegisterError, TypeOK
  <2>4. CASE CampaignWon(n)
    BY <2>4, CampaignTxnType DEF CampaignWon, Goto, TypeOK, PC
  <2>5. CASE CampaignLost(n)
    BY <2>5 DEF CampaignLost, Goto, TypeOK, PC
  <2>6. CASE CampaignError(n)
    BY <2>6, CampaignTxnType DEF CampaignError, Goto, TypeOK, PC
  <2>7. CASE Lead(n)
    BY <2>7 DEF Lead, Goto, TypeOK, PC
  <2>8. CASE Resign(n)
    BY <2>8, DropSessionType DEF Resign, TypeOK
  <2>9. CASE Follow(n)
    <3>1. LeaderKey \in DOMAIN leader => leader[LeaderKey].node \in Node
      BY DEF TypeOK, IsKeySpace, KeyValue
    <3>2. known' \in [Node -> SUBSET Node]
      <4>1. CASE LeaderKey \in DOMAIN leader
        <5>1. PICK K \in SUBSET Node : known' = [known EXCEPT ![n] = K]
          BY <2>9, <3>1, <4>1 DEF Follow
        <5> QED
          BY <5>1 DEF TypeOK
      <4>2. CASE LeaderKey \notin DOMAIN leader
        BY <2>9, <4>2 DEF Follow, TypeOK
      <4> QED
        BY <4>1, <4>2
    <3>3. pc' \in [Node -> PC]
      BY <2>9 DEF Follow, Goto, TypeOK, PC
    <3> QED
      BY <2>9, <3>2, <3>3 DEF Follow, TypeOK
  <2>10. CASE FollowError(n)
    BY <2>10, DropSessionType DEF FollowError, TypeOK
  <2>11. CASE WatchEvent(n)
    <3>1. events[n] \in Seq(SUBSET Node) /\ events[n] # <<>>
      BY <2>11 DEF WatchEvent, TypeOK
    <3>2. Head(events[n]) \in SUBSET Node /\ Tail(events[n]) \in Seq(SUBSET Node)
      BY <3>1
    <3>3. known' \in [Node -> SUBSET Node]
      BY <2>11, <3>2 DEF WatchEvent, TypeOK
    <3>4. events' \in [Node -> Seq(SUBSET Node)] /\ pc' \in [Node -> PC]
      <4>1. CASE Head(events[n]) = {}
        <5>1. events' = [events EXCEPT ![n] = <<>>] /\ pc' = [pc EXCEPT ![n] = "session"]
          BY <2>11, <4>1 DEF WatchEvent, Goto
        <5> QED
          BY <5>1 DEF TypeOK, PC
      <4>2. CASE Head(events[n]) # {}
        <5>1. events' = [events EXCEPT ![n] = Tail(events[n])] /\ pc' = pc
          BY <2>11, <4>2 DEF WatchEvent
        <5> QED
          BY <3>2, <5>1 DEF TypeOK
      <4> QED
        BY <4>1, <4>2
    <3> QED
      BY <2>11, <3>3, <3>4 DEF WatchEvent, TypeOK
  <2>12. CASE WatchSessionDone(n)
    BY <2>12, DropSessionType DEF WatchSessionDone, TypeOK
  <2>13. CASE WatchClosed(n)
    BY <2>13 DEF WatchClosed, Goto, TypeOK, PC
  <2> QED
    BY <1>1, <2>1, <2>2, <2>3, <2>4, <2>5, <2>6, <2>7, <2>8, <2>9, <2>10, <2>11, <2>12,
       <2>13 DEF RunStep
<1>2. ASSUME NEW n \in Node, Crash(n) PROVE TypeOK'
  BY <1>2, DropSessionType DEF Crash, TypeOK
<1>3. ASSUME NEW n \in Node, Start(n) PROVE TypeOK'
  BY <1>3, NewSessionType DEF Start, TypeOK
<1>4. ASSUME NEW p \in live, LeaseExpire(p[1], p[2]) PROVE TypeOK'
  <2>1. IsKeySpace(members', Node, KeyValue) /\ IsKeySpace(leader', {LeaderKey}, KeyValue)
    BY <1>4, KeysType DEF LeaseExpire, TypeOK
  <2>2. events' \in [Node -> Seq(SUBSET Node)]
    <3>1. Notify({}) => events' \in [Node -> Seq(SUBSET Node)]
      BY NotifyType
    <3> QED
      BY <1>4, <3>1 DEF LeaseExpire, TypeOK
  <2> QED
    BY <1>4, <2>1, <2>2 DEF LeaseExpire, TypeOK
<1>5. CASE UNCHANGED vars
  BY <1>5 DEF vars, TypeOK
<1> QED
  BY <1>1, <1>2, <1>3, <1>4, <1>5 DEF Next

\* Every reachable state of the election is typed.
THEOREM ElectionTypeCorrect == Spec => []TypeOK
<1>1. Init => TypeOK
  BY DEF Init, TypeOK, PC, IsKeySpace, NoKeys
<1>2. TypeOK /\ [Next]_vars => TypeOK'
  BY TypeStep
<1> QED
  BY <1>1, <1>2, PTL DEF Spec

-----------------------------------------------------------------------------
(* The flag of a node that etcd counts as alive *)

\* Node n is told that it holds the key, or already acts on it.
Won(n) == pc[n] \in {"won", "lead"}

KeyIsOf(n) ==
    /\ LeaderKey \in DOMAIN leader
    /\ leader[LeaderKey] = [node |-> n, epoch |-> session[n]]

\* The inductive invariant: the flag is set only in "lead", a node that is down
\* is at the top of its loop, and from the won campaign on the key is the
\* node's for as long as its lease is live.
LeadInv ==
    \A n \in Node :
        /\ isLeader[n] => pc[n] = "lead"
        /\ ~up[n] => pc[n] = "session"
        /\ Won(n) /\ HasLease(n) => KeyIsOf(n)

\* Every step keeps the invariant.
LEMMA LeadStep ==
    ASSUME TypeOK, LeadInv, [Next]_vars
    PROVE  LeadInv'
<1> USE DEF etcdVars, nodeVars
\* A step of n that leaves "won" and "lead", or was not there, and does not
\* touch the key.
<1>1. ASSUME NEW n \in Node, leader' = leader, pc'[n] \notin {"won", "lead"},
             ~isLeader'[n], up'[n] \/ pc'[n] = "session",
             \A m \in Node : m # n => /\ pc'[m] = pc[m] /\ up'[m] = up[m]
                                      /\ session'[m] = session[m]
                                      /\ isLeader'[m] = isLeader[m]
                                      /\ <<m, session[m]>> \in live' => <<m, session[m]>> \in live
      PROVE  LeadInv'
  BY <1>1 DEF LeadInv, Won, HasLease, KeyIsOf
<1>2. ASSUME NEW n \in Node, RunStep(n) PROVE LeadInv'
  <2>1. CASE CampaignWon(n)
    <3>1. KeyIsOf(n)' /\ isLeader' = isLeader /\ up' = up /\ session' = session /\ live' = live
      BY <2>1 DEF CampaignWon, CampaignTxn, Put, KeyIsOf
    <3>2. \A m \in Node : ~(Won(m) /\ HasLease(m))
      BY <2>1 DEF CampaignWon, CampaignCompare, LeadInv, KeyIsOf
    <3>3. /\ ~isLeader[n] /\ up[n]
          /\ \A m \in Node : m # n => pc'[m] = pc[m]
      BY <2>1 DEF CampaignWon, Goto, LeadInv, TypeOK
    <3> QED
      BY <3>1, <3>2, <3>3 DEF LeadInv, Won, HasLease
  <2>2. CASE CampaignError(n)
    <3>1. /\ pc'[n] = "session" /\ isLeader' = isLeader /\ up' = up /\ live' = live
          /\ \A m \in Node : m # n => pc'[m] = pc[m] /\ session'[m] = session[m]
          /\ ~isLeader[n]
      BY <2>2 DEF CampaignError, Goto, LeadInv, TypeOK
    <3>2. CASE leader' = leader
      BY <1>1, <3>1, <3>2
    <3>3. CASE CampaignCompare(n)
      <4>1. \A m \in Node : ~(Won(m) /\ HasLease(m))
        BY <3>3 DEF CampaignCompare, LeadInv, KeyIsOf
      <4> QED
        BY <3>1, <4>1 DEF LeadInv, Won, HasLease
    <3> QED
      BY <2>2, <3>2, <3>3 DEF CampaignError
  <2>3. CASE Lead(n)
    BY <2>3 DEF Lead, Goto, LeadInv, Won, HasLease, KeyIsOf, TypeOK
  <2>4. CASE EnsureSession(n)
    <3>1. \A m \in Node : m # n => (<<m, session[m]>> \in live' => <<m, session[m]>> \in live)
      BY <2>4 DEF EnsureSession, NewSession
    <3> QED
      BY <1>1, <2>4, <3>1 DEF EnsureSession, NewSession, Goto, LeadInv, TypeOK
  <2>5. CASE RegisterMember(n) \/ RegisterError(n) \/ CampaignLost(n)
    BY <1>1, <2>5 DEF RegisterMember, RegisterError, CampaignLost, DropSession, Goto, LeadInv,
       TypeOK
  <2>6. CASE Resign(n) \/ Follow(n) \/ FollowError(n)
    BY <1>1, <2>6 DEF Resign, Follow, FollowError, DropSession, Goto, LeadInv, TypeOK
  <2>7. CASE WatchEvent(n) \/ WatchSessionDone(n) \/ WatchClosed(n)
    BY <1>1, <2>7 DEF WatchEvent, WatchSessionDone, WatchClosed, DropSession, Goto, LeadInv,
       TypeOK
  <2> QED
    BY <1>2, <2>1, <2>2, <2>3, <2>4, <2>5, <2>6, <2>7 DEF RunStep
<1>3. ASSUME NEW n \in Node, Crash(n) PROVE LeadInv'
  BY <1>1, <1>3 DEF Crash, DropSession, Goto, TypeOK
<1>4. ASSUME NEW n \in Node, Start(n) PROVE LeadInv'
  <2>1. pc[n] = "session" /\ ~isLeader[n]
    BY <1>4 DEF Start, LeadInv
  <2>2. \A m \in Node : m # n => (<<m, session[m]>> \in live' => <<m, session[m]>> \in live)
    BY <1>4 DEF Start, NewSession
  <2> QED
    BY <1>1, <1>4, <2>1, <2>2 DEF Start, NewSession, TypeOK
<1>5. ASSUME NEW p \in live, LeaseExpire(p[1], p[2]) PROVE LeadInv'
  <2>1. PICK n \in Node, e \in Nat : p = <<n, e>>
    BY DEF TypeOK
  <2>2. p[1] = n /\ p[2] = e
    BY <2>1
  <2>3. /\ live' = live \ {<<n, e>>} /\ UNCHANGED nodeVars
        /\ leader' = Unlease(leader, n, e)
    BY <1>5, <2>2 DEF LeaseExpire
  <2>4. ASSUME NEW m \in Node, KeyIsOf(m), HasLease(m)' PROVE KeyIsOf(m)'
    <3>1. ~(leader[LeaderKey].node = n /\ leader[LeaderKey].epoch = e)
      BY <2>3, <2>4 DEF KeyIsOf, HasLease
    <3>2. LeaderKey \in DOMAIN leader' /\ leader'[LeaderKey] = leader[LeaderKey]
      BY <2>3, <2>4, <3>1 DEF KeyIsOf, Unlease, Delete
    <3> QED
      BY <2>3, <2>4, <3>2 DEF KeyIsOf
  <2>5. \A m \in Node : HasLease(m)' => HasLease(m)
    BY <2>3 DEF HasLease
  <2> QED
    BY <2>3, <2>4, <2>5 DEF LeadInv, Won
<1>6. CASE UNCHANGED vars
  BY <1>6 DEF vars, LeadInv, Won, HasLease, KeyIsOf
<1> QED
  BY <1>2, <1>3, <1>4, <1>5, <1>6 DEF Next

\* For any number of nodes, and whatever crashes, expires or fails: a node that
\* takes itself for the leader and whose lease is live holds the leader key.
THEOREM LeaderHoldsKey == Spec => []FlagBacked
<1>1. Init => LeadInv
  BY DEF Init, LeadInv, Won
<1>2. TypeOK /\ LeadInv /\ [Next]_vars => LeadInv'
  BY LeadStep
<1>3. LeadInv => FlagBacked
  BY DEF LeadInv, FlagBacked, Won, KeyIsOf
<1> QED
  BY <1>1, <1>2, <1>3, ElectionTypeCorrect, PTL DEF Spec

-----------------------------------------------------------------------------
(* Leadership *)

\* While no running node loses its lease, a session that a node has is live, and
\* a node that won, or leads, has one.
SessionsLive ==
    "expire" \notin Faults =>
        \A n \in Node :
            /\ session[n] # 0 => HasLease(n)
            /\ pc[n] # "session" => session[n] # 0
            /\ up[n] \/ session[n] = 0

\* Every step keeps the sessions live.
LEMMA SessionsLiveStep ==
    ASSUME TypeOK, LeadInv, SessionsLive, [Next]_vars
    PROVE  SessionsLive'
<1> USE DEF etcdVars, nodeVars
<1> SUFFICES ASSUME "expire" \notin Faults PROVE SessionsLive'
  BY DEF SessionsLive
\* A step of n that drops its session or keeps it, and no lease goes.
<1>1. ASSUME NEW n \in Node, live' = live,
             \/ session'[n] = 0 /\ pc'[n] = "session"
             \/ /\ session'[n] = session[n] /\ up'[n] = up[n]
                /\ pc[n] # "session" \/ pc'[n] = "session",
             \A m \in Node : m # n => /\ pc'[m] = pc[m] /\ up'[m] = up[m]
                                      /\ session'[m] = session[m]
      PROVE  SessionsLive'
  BY <1>1 DEF SessionsLive, HasLease
\* A step of n that opens a session.
<1>2. ASSUME NEW n \in Node, NewSession(n), up'[n],
             \A m \in Node : m # n => pc'[m] = pc[m] /\ up'[m] = up[m]
      PROVE  SessionsLive'
  BY <1>2 DEF SessionsLive, HasLease, NewSession, TypeOK
<1>3. ASSUME NEW n \in Node, RunStep(n) PROVE SessionsLive'
  <2>1. CASE EnsureSession(n)
    <3>1. CASE session[n] # 0
      <4>1. /\ session' = session /\ live' = live /\ up' = up
            /\ \A m \in Node : m # n => pc'[m] = pc[m]
        BY <2>1, <3>1 DEF EnsureSession, Goto, TypeOK
      <4> QED
        BY <3>1, <4>1 DEF SessionsLive, HasLease
    <3>2. CASE session[n] = 0
      BY <1>2, <2>1, <3>2 DEF EnsureSession, Goto, TypeOK
    <3> QED
      BY <3>1, <3>2
  <2>2. CASE RegisterMember(n) \/ RegisterError(n)
    BY <1>1, <2>2 DEF RegisterMember, RegisterError, DropSession, Goto, TypeOK
  <2>3. CASE CampaignWon(n) \/ CampaignLost(n) \/ CampaignError(n)
    BY <1>1, <2>3 DEF CampaignWon, CampaignLost, CampaignError, Goto, TypeOK
  <2>4. CASE Lead(n) \/ Resign(n)
    BY <1>1, <2>4 DEF Lead, Resign, DropSession, Goto, TypeOK
  <2>5. CASE Follow(n) \/ FollowError(n)
    BY <1>1, <2>5 DEF Follow, FollowError, DropSession, Goto, TypeOK
  <2>6. CASE WatchEvent(n) \/ WatchSessionDone(n) \/ WatchClosed(n)
    BY <1>1, <2>6 DEF WatchEvent, WatchSessionDone, WatchClosed, DropSession, Goto, TypeOK
  <2> QED
    BY <1>3, <2>1, <2>2, <2>3, <2>4, <2>5, <2>6 DEF RunStep
<1>4. ASSUME NEW n \in Node, Crash(n) PROVE SessionsLive'
  BY <1>1, <1>4 DEF Crash, DropSession, Goto, TypeOK
<1>5. ASSUME NEW n \in Node, Start(n) PROVE SessionsLive'
  BY <1>2, <1>5 DEF Start, TypeOK
<1>6. ASSUME NEW p \in live, LeaseExpire(p[1], p[2]) PROVE SessionsLive'
  <2>1. PICK n \in Node, e \in Nat : p = <<n, e>>
    BY DEF TypeOK
  <2>2. p[1] = n /\ p[2] = e
    BY <2>1
  <2>3. live' = live \ {<<n, e>>} /\ session[n] # e /\ UNCHANGED nodeVars
    BY <1>6, <2>2 DEF LeaseExpire
  <2> QED
    BY <2>3 DEF SessionsLive, HasLease
<1>7. CASE UNCHANGED vars
  BY <1>7 DEF vars, SessionsLive, HasLease
<1> QED
  BY <1>3, <1>4, <1>5, <1>6, <1>7 DEF Next

\* The two invariants hold throughout.
LEMMA LeadInvariants == Spec => [](TypeOK /\ LeadInv /\ SessionsLive)
<1>1. Init => LeadInv /\ SessionsLive
  BY DEF Init, LeadInv, Won, SessionsLive, HasLease
<1>2. TypeOK /\ LeadInv /\ [Next]_vars => LeadInv'
  BY LeadStep
<1>3. TypeOK /\ LeadInv /\ SessionsLive /\ [Next]_vars => SessionsLive'
  BY SessionsLiveStep
<1> QED
  BY <1>1, <1>2, <1>3, ElectionTypeCorrect, PTL DEF Spec

\* If no running node loses its lease, then for any number of nodes, and whatever
\* crashes or fails, at most one takes itself for the leader.
THEOREM LeaderIsUnique == "expire" \notin Faults => (Spec => []OneLeader)
<1> SUFFICES ASSUME "expire" \notin Faults PROVE Spec => []OneLeader
  OBVIOUS
<1>1. LeadInv /\ SessionsLive => OneLeader
  <2> SUFFICES ASSUME LeadInv, SessionsLive, NEW m \in Node, NEW n \in Node,
                      isLeader[m], isLeader[n]
               PROVE  m = n
    BY DEF OneLeader
  <2>0. pc[m] = "lead" /\ pc[n] = "lead"
    BY DEF LeadInv
  <2>1. /\ Won(m) /\ HasLease(m)
        /\ Won(n) /\ HasLease(n)
    BY <2>0 DEF SessionsLive, Won
  <2>2. KeyIsOf(m) /\ KeyIsOf(n)
    BY <2>1 DEF LeadInv
  <2>3. [node |-> m, epoch |-> session[m]] = [node |-> n, epoch |-> session[n]]
    BY <2>2 DEF KeyIsOf
  <2> QED
    BY <2>3
<1> QED
  BY <1>1, LeadInvariants, PTL

-----------------------------------------------------------------------------
(* The refinement *)

\* A step that leaves the key, the winners and the flags alone is invisible.
LEMMA Invisible ==
    ASSUME leader' = leader, isLeader' = isLeader, Winners' = Winners
    PROVE  UNCHANGED L!leadershipVars
BY DEF L!leadershipVars, LeaderHolder

\* A step by which n leaves the campaign or the office is Lower.
LEMMA Leaves ==
    ASSUME TypeOK, NEW n \in Node, leader' = leader,
           isLeader' = [isLeader EXCEPT ![n] = FALSE],
           pc' = [pc EXCEPT ![n] = "session"]
    PROVE  L!Lower(n)
<1>1. Winners' = Winners \ {n}
  BY DEF Winners, TypeOK
<1> QED
  BY <1>1 DEF L!Lower, LeaderHolder

\* A put of the free leader key is Win, learned of or not.
LEMMA Wins ==
    ASSUME TypeOK, NEW n \in Node, CampaignCompare(n), CampaignTxn(n), isLeader' = isLeader,
           Winners' \in {Winners, Winners \cup {n}}
    PROVE  L!Win(n)
<1>1. DOMAIN leader = {}
  BY DEF CampaignCompare, TypeOK, IsKeySpace
<1>2. DOMAIN leader' = {LeaderKey} /\ leader'[LeaderKey].node = n
  BY <1>1 DEF CampaignTxn, Put
<1> QED
  BY <1>1, <1>2 DEF L!Win, LeaderHolder

\* The expiry of a lease is invisible, or it is Vacate.
LEMMA Expires ==
    ASSUME TypeOK, LeadInv, SessionsLive, NEW n \in Node, NEW e \in Nat, LeaseExpire(n, e)
    PROVE  [L!LeadershipNext]_(L!leadershipVars)
<1>0. leader' = Unlease(leader, n, e) /\ isLeader' = isLeader /\ Winners' = Winners
  BY DEF LeaseExpire, nodeVars, Winners
<1>1. CASE LeaderKey \in DOMAIN leader /\ leader[LeaderKey] = [node |-> n, epoch |-> e]
  <2>1. DOMAIN leader = {LeaderKey}
    BY <1>1 DEF TypeOK, IsKeySpace
  <2>2. DOMAIN leader' = {}
    BY <1>0, <1>1, <2>1 DEF Unlease, Delete
  <2>3. LeaderHolder = {n} /\ LeaderHolder' = {}
    BY <1>1, <2>1, <2>2 DEF LeaderHolder
  <2>4. isLeader[n] \/ n \in Winners => "expire" \in Faults
    <3> SUFFICES ASSUME isLeader[n] \/ n \in Winners, "expire" \notin Faults PROVE FALSE
      OBVIOUS
    <3>0. pc[n] = "won" \/ pc[n] = "lead"
      BY DEF LeadInv, Winners
    <3>1. Won(n) /\ HasLease(n)
      BY <3>0 DEF Won, SessionsLive
    <3>2. KeyIsOf(n)
      BY <3>1 DEF LeadInv
    <3>3. e = session[n]
      BY <1>1, <3>2 DEF KeyIsOf
    <3> QED
      BY <3>3 DEF LeaseExpire
  <2> QED
    BY <1>0, <2>3, <2>4 DEF L!LeadershipNext, L!Vacate
<1>2. CASE ~(LeaderKey \in DOMAIN leader /\ leader[LeaderKey] = [node |-> n, epoch |-> e])
  <2>1. \A k \in DOMAIN leader : ~(leader[k].node = n /\ leader[k].epoch = e)
    BY <1>2 DEF TypeOK, IsKeySpace, KeyValue
  <2>2. leader' = leader
    BY <1>0, <2>1 DEF Unlease, Delete, TypeOK, IsKeySpace
  <2> QED
    BY <1>0, <2>2, Invisible
<1> QED
  BY <1>1, <1>2

\* Every step of the election is one of Leadership, or invisible.
LEMMA LeadershipStep ==
    ASSUME TypeOK, LeadInv, SessionsLive, [Next]_vars
    PROVE  [L!LeadershipNext]_(L!leadershipVars)
<1> USE DEF etcdVars, nodeVars
\* A step of n outside of "won" that stays outside.
<1>1. ASSUME NEW n \in Node, leader' = leader, isLeader' = isLeader, pc[n] # "won",
             pc' = pc \/ \E l \in PC \ {"won"} : Goto(n, l)
      PROVE  [L!LeadershipNext]_(L!leadershipVars)
  <2>1. Winners' = Winners
    BY <1>1 DEF Winners, Goto, TypeOK
  <2> QED
    BY <1>1, <2>1, Invisible
<1>2. ASSUME NEW n \in Node, RunStep(n) PROVE [L!LeadershipNext]_(L!leadershipVars)
  <2>1. CASE EnsureSession(n) \/ RegisterMember(n) \/ RegisterError(n)
    BY <1>1, <2>1 DEF EnsureSession, RegisterMember, RegisterError, DropSession, PC
  <2>2. CASE CampaignWon(n)
    <3>1. Winners' = Winners \cup {n}
      BY <2>2 DEF CampaignWon, Goto, Winners, TypeOK
    <3> QED
      BY <2>2, <3>1, Wins DEF CampaignWon, L!LeadershipNext
  <2>3. CASE CampaignLost(n)
    BY <1>1, <2>3 DEF CampaignLost, PC
  <2>4. CASE CampaignError(n)
    <3>1. CASE leader' = leader
      BY <1>1, <2>4, <3>1 DEF CampaignError, PC
    <3>2. CASE CampaignCompare(n) /\ CampaignTxn(n)
      <4>1. Winners' = Winners
        BY <2>4 DEF CampaignError, Goto, Winners, TypeOK
      <4> QED
        BY <2>4, <3>2, <4>1, Wins DEF CampaignError, L!LeadershipNext
    <3> QED
      BY <2>4, <3>1, <3>2 DEF CampaignError
  <2>5. CASE Lead(n)
    <3>1. n \in Winners /\ Winners' = Winners \ {n}
      BY <2>5 DEF Lead, Goto, Winners, TypeOK
    <3>2. L!Raise(n)
      BY <2>5, <3>1 DEF Lead, L!Raise, LeaderHolder
    <3> QED
      BY <3>2 DEF L!LeadershipNext
  <2>6. CASE Resign(n)
    BY <2>6, Leaves DEF Resign, DropSession, Goto, L!LeadershipNext
  <2>7. CASE Follow(n) \/ FollowError(n)
    BY <1>1, <2>7 DEF Follow, FollowError, DropSession, PC
  <2>8. CASE WatchEvent(n) \/ WatchSessionDone(n) \/ WatchClosed(n)
    BY <1>1, <2>8 DEF WatchEvent, WatchSessionDone, WatchClosed, DropSession, PC
  <2> QED
    BY <1>2, <2>1, <2>2, <2>3, <2>4, <2>5, <2>6, <2>7, <2>8 DEF RunStep
<1>3. ASSUME NEW n \in Node, Crash(n) PROVE [L!LeadershipNext]_(L!leadershipVars)
  BY <1>3, Leaves DEF Crash, DropSession, Goto, L!LeadershipNext
<1>4. ASSUME NEW n \in Node, Start(n) PROVE [L!LeadershipNext]_(L!leadershipVars)
  BY <1>4, Invisible DEF Start, Winners
<1>5. ASSUME NEW p \in live, LeaseExpire(p[1], p[2])
      PROVE  [L!LeadershipNext]_(L!leadershipVars)
  <2>1. PICK n \in Node, e \in Nat : p = <<n, e>>
    BY DEF TypeOK
  <2>2. p[1] = n /\ p[2] = e
    BY <2>1
  <2> QED
    BY <1>5, <2>2, Expires
<1>6. CASE UNCHANGED vars
  BY <1>6, Invisible DEF vars, Winners
<1> QED
  BY <1>2, <1>3, <1>4, <1>5, <1>6 DEF Next

\* The election implements Leadership, for any number of nodes and any faults: what
\* the scheduler assumes of IsLeader is what the election loop delivers.
THEOREM ElectionImplementsLeadership == Spec => ImplementsLeadership
<1>1. Init => L!LeadershipInit
  BY DEF Init, L!LeadershipInit, LeaderHolder, Winners, NoKeys
<1>2. TypeOK /\ LeadInv /\ SessionsLive /\ [Next]_vars
      => [L!LeadershipNext]_(L!leadershipVars)
  BY LeadershipStep
<1> QED
  BY <1>1, <1>2, LeadInvariants, PTL DEF Spec, ImplementsLeadership, L!LeadershipSpec
=============================================================================
