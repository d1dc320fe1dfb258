---------------------------- MODULE FleetProofs ----------------------------
(***************************************************************************)
(* Proofs about Fleet, for any number of clients, containers and IDs, and  *)
(* whatever the lists of containers and of members miss.                   *)
(***************************************************************************)
EXTENDS Fleet, TLAPS, WellFoundedInduction

\* A set of numbers with a bound that is not empty has a greatest element.
LEMMA MaxIs ==
    ASSUME NEW S \in SUBSET Nat, S # {}, NEW b \in Nat, \A x \in S : x <= b
    PROVE  Max(S) \in S /\ \A x \in S : x <= Max(S)
<1> DEFINE D == {d \in Nat : b - d \in S}
           R == OpToRel(<, Nat)
<1>1. \A x \in S : x \in Nat /\ b - x \in Nat /\ b - (b - x) = x
  OBVIOUS
<1>2. \A x \in S : b - x \in D
  BY <1>1
<1>3. D \subseteq Nat /\ D # {}
  BY <1>2
<1>4. IsWellFoundedOn(R, Nat)
  BY NatLessThanWellFounded
<1>5. PICK d \in D : \A e \in D : ~(<<e, d>> \in R)
  <2> HIDE DEF R, D
  <2> QED
    BY <1>3, <1>4, WFMin
<1>6. \A e \in D : e \in Nat /\ d \in Nat /\ ~(e < d)
  BY <1>5 DEF OpToRel
<1>7. b - d \in S
  OBVIOUS
<1>8. ASSUME NEW x \in S PROVE b - d >= x
  <2>1. ~(b - x < d) /\ d \in Nat
    BY <1>2, <1>6
  <2> QED
    BY <1>1, <2>1
<1>9. \E m \in S : \A x \in S : m >= x
  BY <1>7, <1>8
<1>10. Max(S) \in S /\ \A x \in S : Max(S) >= x
  BY <1>9 DEF Max
<1> QED
  BY <1>10

\* The numbers of IDs.
LEMMA NumberIs ==
    /\ \A id : Number(id) \in 0 .. Len(Numbered)
    /\ \A i \in 1 .. Len(Numbered) : Number(Numbered[i]) = i
<1>1. Len(Numbered) \in Nat /\ DOMAIN Numbered = 1 .. Len(Numbered)
  BY FleetAssumption
<1>2. ASSUME NEW id PROVE Number(id) \in 0 .. Len(Numbered)
  BY <1>1 DEF Number
<1>3. ASSUME NEW i \in 1 .. Len(Numbered) PROVE Number(Numbered[i]) = i
  <2>1. {k \in DOMAIN Numbered : Numbered[k] = Numbered[i]} = {i}
    BY <1>1, FleetAssumption DEF IsInjective
  <2> QED
    BY <2>1 DEF Number
<1> QED
  BY <1>2, <1>3

\* The highest number among some IDs is at least that of each, and of the floor.
LEMMA HighestIs ==
    ASSUME NEW ids, NEW floor \in 0 .. Len(Numbered)
    PROVE  /\ Highest(ids, floor) \in 0 .. Len(Numbered)
           /\ \A id \in ids : Number(id) <= Highest(ids, floor)
           /\ floor <= Highest(ids, floor)
<1> DEFINE S == {Number(id) : id \in ids} \cup {floor}
<1>1. Len(Numbered) \in Nat
  BY FleetAssumption
<1>2. S \in SUBSET Nat /\ S # {} /\ \A x \in S : x <= Len(Numbered)
  BY <1>1, NumberIs
<1>3. floor \in S /\ \A id \in ids : Number(id) \in S
  OBVIOUS
<1>4. Highest(ids, floor) = Max(S)
  BY DEF Highest
<1> HIDE DEF S
<1>5. Max(S) \in S /\ \A x \in S : x <= Max(S)
  BY <1>1, <1>2, MaxIs
<1>6. Max(S) \in 0 .. Len(Numbered)
  <2>1. Max(S) \in Nat /\ Max(S) <= Len(Numbered)
    BY <1>2, <1>5
  <2> QED
    BY <1>1, <2>1
<1>7. floor <= Max(S) /\ \A id \in ids : Number(id) <= Max(S)
  BY <1>3, <1>5
<1> QED
  BY <1>4, <1>6, <1>7

-----------------------------------------------------------------------------
(* Types *)

\* A handler that checks or creates a node has its ID.
IdGiven == \A c \in Client : request[c].pc \in {"check", "create"} => request[c].id \in Id

FleetTyped == TypeOK /\ IdGiven

\* The lists of containers hold containers.
LEMMA ListedExist ==
    ASSUME NEW listed \in ListNodes
    PROVE  listed \subseteq DOMAIN containers
BY DEF ListNodes

\* A step that changes nothing but the request of one client, and leaves that with a
\* typed one.
LEMMA RequestStep ==
    ASSUME FleetTyped, UNCHANGED <<containers, down>>,
           NEW c \in Client, NEW r \in Request, request' = [request EXCEPT ![c] = r],
           r.pc \in {"launch", "act"} => r.target \in DOMAIN containers,
           r.pc \in {"check", "create"} => r.id \in Id
    PROVE  FleetTyped'
<1>1. /\ request' \in [Client -> Request]
      /\ request'[c] = r
      /\ \A d \in Client : d # c => request'[d] = request[d]
  BY DEF FleetTyped, TypeOK
<1>2. \A d \in Client : request'[d].pc \in {"launch", "act"}
                            => request'[d].target \in DOMAIN containers'
  BY <1>1 DEF FleetTyped, TypeOK
<1>3. IdGiven'
  BY <1>1 DEF FleetTyped, IdGiven
<1> QED
  BY <1>1, <1>2, <1>3 DEF FleetTyped, TypeOK

\* The idle request is one.
LEMMA IdleType == Idle \in Request
BY FleetAssumption DEF Idle, Request, PC

\* A request that goes back to idle.
LEMMA AnsweredType ==
    ASSUME FleetTyped, UNCHANGED <<containers, down>>, NEW c \in Client, Answered(c)
    PROVE  FleetTyped'
<1>1. Idle.pc = "idle"
  BY DEF Idle
<1> QED
  BY <1>1, IdleType, RequestStep DEF Answered

\* The steps of a handler that change nothing but its request keep the types.
LEMMA LookType ==
    ASSUME FleetTyped, NEW c \in Client,
           \/ ReadMembers(c) \/ NextNodeID(c) \/ CheckExists(c) \/ CreateConflict(c)
           \/ LaunchError(c) \/ FindContainer(c) \/ FindNothing(c) \/ KillError(c)
    PROVE  FleetTyped'
<1>0. /\ request[c] \in Request /\ request \in [Client -> Request]
      /\ request[c].max \in 0 .. Len(Numbered)
  BY DEF FleetTyped, TypeOK, Request
<1>1. CASE ReadMembers(c)
  <2>0. PICK listed \in MemberLists :
           request' = [request EXCEPT ![c].max = Highest(listed, 0), ![c].pc = "list"]
    BY <1>1 DEF ReadMembers
  <2> DEFINE h == Highest(listed, 0)
             r == [request[c] EXCEPT !.max = h, !.pc = "list"]
  <2>1. h \in 0 .. Len(Numbered)
    <3>1. 0 \in 0 .. Len(Numbered)
      BY FleetAssumption
    <3> QED
      BY <3>1, HighestIs
  <2>2. r \in Request /\ r.pc = "list"
    BY <1>0, <2>1 DEF Request, PC
  <2>3. request' = [request EXCEPT ![c] = r] /\ UNCHANGED <<containers, down>>
    BY <1>0, <1>1, <2>0 DEF ReadMembers
  <2> HIDE DEF r
  <2> QED
    BY <2>2, <2>3, RequestStep
<1>2. CASE NextNodeID(c)
  <2>1. PICK listed \in ListNodes :
           LET max == Highest({containers[n].node : n \in listed}, request[c].max)
           IN  /\ max < Len(Numbered)
               /\ request' = [request EXCEPT ![c].id = Numbered[max + 1], ![c].pc = "check"]
    BY <1>2 DEF NextNodeID
  <2> DEFINE max == Highest({containers[n].node : n \in listed}, request[c].max)
             r == [request[c] EXCEPT !.id = Numbered[max + 1], !.pc = "check"]
  <2>2. max \in 0 .. Len(Numbered)
    BY <1>0, HighestIs
  <2>3. Numbered[max + 1] \in Id
    <3>1. max + 1 \in DOMAIN Numbered
      BY <2>1, <2>2, FleetAssumption
    <3> QED
      BY <3>1 DEF Id, Range
  <2>4. request' = [request EXCEPT ![c] = r]
    BY <1>0, <2>1
  <2> HIDE DEF max
  <2>5. r \in Request /\ r.pc = "check" /\ r.id \in Id
    BY <1>0, <2>3 DEF Request, PC
  <2>6. UNCHANGED <<containers, down>>
    BY <1>2 DEF NextNodeID
  <2> HIDE DEF r
  <2> QED
    BY <2>4, <2>5, <2>6, RequestStep
<1>3. CASE CheckExists(c)
  <2>1. UNCHANGED <<containers, down>> /\ request[c].pc = "check"
    BY <1>3 DEF CheckExists, At
  <2>2. CASE Answered(c)
    BY <2>1, <2>2, AnsweredType
  <2>3. CASE Goto(c, "create")
    <3> DEFINE r == [request[c] EXCEPT !.pc = "create"]
    <3>1. r \in Request /\ r.pc = "create" /\ r.id \in Id
      BY <1>0, <2>1 DEF Request, PC, FleetTyped, IdGiven
    <3>2. request' = [request EXCEPT ![c] = r]
      BY <1>0, <2>3 DEF Goto
    <3> HIDE DEF r
    <3> QED
      BY <2>1, <3>1, <3>2, RequestStep
  <2> QED
    BY <1>3, <2>2, <2>3 DEF CheckExists
<1>4. CASE FindContainer(c)
  <2>1. PICK listed \in ListNodes : \E n \in listed :
            request' = [request EXCEPT ![c].target = n, ![c].pc = "act"]
    BY <1>4 DEF FindContainer
  <2>2. PICK n \in listed : request' = [request EXCEPT ![c].target = n, ![c].pc = "act"]
    BY <2>1
  <2>3. n \in DOMAIN containers /\ n \in Name
    BY ListedExist DEF FleetTyped, TypeOK
  <2> DEFINE r == [request[c] EXCEPT !.target = n, !.pc = "act"]
  <2>4. r \in Request /\ r.pc = "act" /\ r.target = n
    BY <1>0, <2>3 DEF Request, PC
  <2>5. request' = [request EXCEPT ![c] = r] /\ UNCHANGED <<containers, down>>
    BY <1>0, <1>4, <2>2 DEF FindContainer
  <2> HIDE DEF r
  <2> QED
    BY <2>3, <2>4, <2>5, RequestStep
<1>5. CASE CreateConflict(c) \/ LaunchError(c) \/ FindNothing(c) \/ KillError(c)
  BY <1>5, AnsweredType DEF CreateConflict, LaunchError, FindNothing, KillError
<1> QED
  BY <1>1, <1>2, <1>3, <1>4, <1>5

\* A new request is typed.
LEMMA AskType ==
    ASSUME FleetTyped, NEW c \in Client, NEW server \in Socket,
           \/ AddNext(c, server)
           \/ \E id \in Asked :
                  AddNode(c, server, id) \/ KillNode(c, server, id) \/ StartNode(c, server, id)
    PROVE  FleetTyped'
<1>1. ASSUME NEW op \in {"next", "add", "kill", "start"}, NEW id \in Id \cup {<<>>},
             NEW p \in {"members", "check", "find"}, p = "check" => id \in Id,
             Ask(c, op, server, id, p)
      PROVE  FleetTyped'
  <2> DEFINE r == [Idle EXCEPT !.op = op, !.server = server, !.id = id, !.pc = p]
  <2>3. r \in Request /\ r.pc = p /\ r.id = id
    BY IdleType DEF Request, PC
  <2>4. request' = [request EXCEPT ![c] = r] /\ UNCHANGED <<containers, down>>
    BY <1>1 DEF Ask
  <2>5. p \notin {"launch", "act", "create"}
    OBVIOUS
  <2> HIDE DEF r
  <2> QED
    BY <1>1, <2>3, <2>4, <2>5, RequestStep
<1>2. \A id \in Asked : id \in Id
  BY DEF Id
<1> QED
  BY <1>1, <1>2 DEF AddNext, AddNode, KillNode, StartNode

\* A step that changes containers and leaves those there are, and answers requests.
LEMMA ContainerStep ==
    ASSUME FleetTyped, request' \in [Client -> Request],
           \A d \in Client : request'[d] = request[d] \/ request'[d] = Idle,
           DOMAIN containers' = DOMAIN containers,
           \A n \in DOMAIN containers :
               /\ containers'[n].node = containers[n].node
               /\ containers'[n] \in Container,
           down' \subseteq DOMAIN containers
    PROVE  FleetTyped'
<1>1. Idle.pc = "idle"
  BY DEF Idle
<1>2. IdGiven'
  BY <1>1 DEF FleetTyped, IdGiven
<1>3. \A d \in Client : request'[d].pc \in {"launch", "act"}
                            => request'[d].target \in DOMAIN containers'
  BY <1>1 DEF FleetTyped, TypeOK
<1>4. /\ DOMAIN containers' \subseteq Name
      /\ down' \subseteq DOMAIN containers'
  BY DEF FleetTyped, TypeOK
<1>5. \A n \in DOMAIN containers' : containers'[n] \in Container
  OBVIOUS
<1> QED
  BY <1>2, <1>3, <1>4, <1>5 DEF FleetTyped, TypeOK

\* A container that starts or ends keeps its node.
LEMMA StateType ==
    ASSUME FleetTyped, NEW n \in DOMAIN containers
    PROVE  /\ StartContainer(n) =>
                 /\ DOMAIN containers' = DOMAIN containers
                 /\ \A m \in DOMAIN containers :
                        /\ containers'[m].node = containers[m].node
                        /\ containers'[m] \in Container
           /\ \A purpose \in BOOLEAN : Stop(n, purpose) =>
                 /\ DOMAIN containers' = DOMAIN containers
                 /\ \A m \in DOMAIN containers :
                        /\ containers'[m].node = containers[m].node
                        /\ containers'[m] \in Container
<1>1. \A m \in DOMAIN containers :
          containers[m] \in Container
  BY DEF FleetTyped, TypeOK
<1>2. ASSUME StartContainer(n)
      PROVE  /\ DOMAIN containers' = DOMAIN containers
             /\ \A m \in DOMAIN containers :
                    /\ containers'[m].node = containers[m].node
                    /\ containers'[m] \in Container
  BY <1>1, <1>2 DEF StartContainer, State, Container
<1>3. ASSUME NEW purpose \in BOOLEAN, Stop(n, purpose)
      PROVE  /\ DOMAIN containers' = DOMAIN containers
             /\ \A m \in DOMAIN containers :
                    /\ containers'[m].node = containers[m].node
                    /\ containers'[m] \in Container
  BY <1>1, <1>3 DEF Stop, State, Container
<1> QED
  BY <1>2, <1>3

\* The steps of a handler that start or kill a container keep the types.
LEMMA ActType ==
    ASSUME FleetTyped, NEW c \in Client, Launch(c) \/ Kill(c) \/ Start(c)
    PROVE  FleetTyped'
<1>0. /\ request \in [Client -> Request] /\ Idle \in Request
      /\ request[c].pc \in {"launch", "act"} /\ request[c].target \in DOMAIN containers
      /\ down \subseteq DOMAIN containers
  BY IdleType DEF Launch, Kill, Start, At, FleetTyped, TypeOK
<1>1. CASE Launch(c) \/ Start(c)
  <2>1. StartContainer(request[c].target) /\ Answered(c)
    BY <1>1 DEF Launch, Start
  <2>2. /\ request' \in [Client -> Request]
        /\ \A d \in Client : request'[d] = request[d] \/ request'[d] = Idle
    BY <1>0, <2>1 DEF Answered
  <2>3. down' \subseteq DOMAIN containers
    BY <1>0, <2>1 DEF StartContainer
  <2> QED
    BY <1>0, <2>1, <2>2, <2>3, StateType, ContainerStep
<1>2. CASE Kill(c)
  <2>1. /\ Stop(request[c].target, TRUE) /\ Cut(request[c].target, c)
        /\ down' = down \cup {request[c].target}
    BY <1>2 DEF Kill
  <2>2. /\ request' \in [Client -> Request]
        /\ \A d \in Client : request'[d] = request[d] \/ request'[d] = Idle
    BY <1>0, <2>1 DEF Cut
  <2> QED
    BY <1>0, <2>1, <2>2, StateType, ContainerStep
<1> QED
  BY <1>1, <1>2

\* So does the step that creates one.
LEMMA CreateType ==
    ASSUME FleetTyped, NEW c \in Client, Create(c)
    PROVE  FleetTyped'
<1> DEFINE id == request[c].id
           r == [request[c] EXCEPT !.target = id, !.pc = "launch"]
<1>1. /\ request \in [Client -> Request] /\ request[c] \in Request
      /\ id \in Id /\ id \notin DOMAIN containers
  BY DEF Create, At, FleetTyped, TypeOK, IdGiven
<1>2. /\ request' = [request EXCEPT ![c] = r]
      /\ NewContainer(id)
      /\ down' = down
  BY DEF Create, Created
<1>3. r \in Request /\ r.pc = "launch" /\ r.target = id
  BY <1>1 DEF Request, PC, Name
<1>4. /\ DOMAIN containers' = DOMAIN containers \cup {id}
      /\ containers'[id] = [node |-> id, state |-> "created", stopped |-> FALSE]
      /\ \A n \in DOMAIN containers : containers'[n] = containers[n]
  BY <1>1, <1>2 DEF NewContainer
<1> HIDE DEF id, r
<1>5. /\ request' \in [Client -> Request] /\ request'[c] = r
      /\ \A d \in Client : d # c => request'[d] = request[d]
  BY <1>1, <1>2, <1>3
<1>6. IdGiven'
  BY <1>3, <1>5 DEF FleetTyped, IdGiven
<1>7. \A d \in Client : request'[d].pc \in {"launch", "act"}
                            => request'[d].target \in DOMAIN containers'
  BY <1>3, <1>4, <1>5 DEF FleetTyped, TypeOK
<1>8. \A n \in DOMAIN containers' : n \in Name /\ containers'[n] \in Container
  <2>1. id \in Name /\ containers'[id] \in Container
    BY <1>1, <1>4 DEF Name, State, Container
  <2> QED
    BY <1>4, <2>1 DEF FleetTyped, TypeOK
<1> QED
  BY <1>2, <1>4, <1>5, <1>6, <1>7, <1>8 DEF FleetTyped, TypeOK

\* A container ends by itself or is restarted by Docker.
LEMMA SelfType ==
    ASSUME FleetTyped, NEW n \in DOMAIN containers, Leave(n) \/ KillSelf(n) \/ Restart(n)
    PROVE  FleetTyped'
<1>0. request \in [Client -> Request] /\ Idle \in Request /\ down \subseteq DOMAIN containers
  BY IdleType DEF FleetTyped, TypeOK
<1>1. CASE Leave(n)
  <2>1. /\ Stop(n, FALSE) /\ UNCHANGED down
        /\ request' = [d \in Client |-> IF request[d].server = n THEN Idle ELSE request[d]]
    BY <1>1 DEF Leave
  <2>2. /\ request' \in [Client -> Request]
        /\ \A d \in Client : request'[d] = request[d] \/ request'[d] = Idle
    BY <1>0, <2>1
  <2> QED
    BY <1>0, <2>1, <2>2, StateType, ContainerStep
<1>2. CASE Restart(n)
  <2>1. /\ DOMAIN containers' = DOMAIN containers
        /\ \A m \in DOMAIN containers :
               /\ containers'[m].node = containers[m].node
               /\ containers'[m] \in Container
    BY <1>2 DEF Restart, FleetTyped, TypeOK, State, Container
  <2>2. UNCHANGED <<request, down>>
    BY <1>2 DEF Restart
  <2> QED
    BY <1>0, <2>1, <2>2, ContainerStep
<1>3. CASE KillSelf(n)
  <2>1. Stop(n, FALSE) /\ UNCHANGED request /\ down' \subseteq DOMAIN containers
    BY <1>0, <1>3 DEF KillSelf
  <2> QED
    BY <1>0, <2>1, StateType, ContainerStep
<1> QED
  BY <1>1, <1>2, <1>3

\* The types, and the IDs of the handlers that need one.
LEMMA Typed == Spec => []FleetTyped
<1>1. Init => FleetTyped
  <2> SUFFICES ASSUME Init PROVE FleetTyped
    OBVIOUS
  <2>1. /\ DOMAIN containers = Socket
        /\ \A n \in Socket : containers[n] = [node |-> Compose[n], state |-> "running",
                                              stopped |-> FALSE]
    BY DEF Init
  <2>2. \A n \in Socket : Compose[n] \in Id
    BY DEF Socket, Id, Range
  <2>3. /\ DOMAIN containers \subseteq Name
        /\ \A n \in DOMAIN containers : containers[n] \in Container
    <3>1. ASSUME NEW n \in Socket PROVE containers[n] \in Container
      <4>1. containers[n] = [node |-> Compose[n], state |-> "running", stopped |-> FALSE]
        BY <2>1
      <4>2. Compose[n] \in Id
        BY <2>2
      <4> QED
        BY <4>1, <4>2 DEF State, Container
    <3> QED
      BY <2>1, <3>1 DEF Name
  <2>4. /\ request \in [Client -> Request]
        /\ \A c \in Client : request[c].pc = "idle"
    BY IdleType DEF Init, Idle
  <2>5. down = {}
    BY DEF Init
  <2> QED
    BY <2>3, <2>4, <2>5 DEF FleetTyped, TypeOK, IdGiven
<1>2. FleetTyped /\ [Next]_vars => FleetTyped'
  <2> SUFFICES ASSUME FleetTyped, [Next]_vars PROVE FleetTyped'
    OBVIOUS
  <2>1. ASSUME NEW c \in Client, Handle(c) PROVE FleetTyped'
    BY <2>1, LookType, ActType, CreateType DEF Handle
  <2>2. CASE UNCHANGED vars
    BY <2>2 DEF vars, FleetTyped, TypeOK, IdGiven
  <2> QED
    BY <2>1, <2>2, AskType, SelfType DEF Next
<1> QED
  BY <1>1, <1>2, PTL DEF Spec

\* The variables of Fleet keep their types (TypeOK), and a handler that is to start or
\* kill a container has found or made one that is still there, for any number of
\* clients, whatever containers the list misses and whatever servers die meanwhile.
THEOREM FleetTypeCorrect == Spec => []TypeOK
<1>1. FleetTyped => TypeOK
  BY DEF FleetTyped
<1> QED
  BY <1>1, Typed, PTL

-----------------------------------------------------------------------------
(* What happens to the containers *)

\* The containers of the compose file are there and keep their nodes, every other one
\* has the ID of its node as name, and the ID of a node that was or is to be created
\* names none of the compose file's.
NamesInv ==
    /\ Socket \subseteq DOMAIN containers
    /\ \A n \in DOMAIN containers :
           IF n \in Socket THEN containers[n].node = Compose[n]
           ELSE n \in Id /\ containers[n].node = n
    /\ \A m \in DOMAIN containers \ Socket : \A n \in Socket :
           Compose[n] # m /\ ~IsSuffix(m, n)
    /\ \A c \in Client : request[c].pc = "create" =>
           \A n \in Socket : Compose[n] # request[c].id /\ ~IsSuffix(request[c].id, n)

\* No ID ends in a dash and another one, the compose file gives each container an ID
\* that its name and no other ends in, and no container is missing in the list.
IdsTellApart ==
    /\ \A a, b \in Id : IsSuffix(a, b) => a = b
    /\ \A n, m \in Socket : IsSuffix(Compose[n], m) => m = n
    /\ "docker" \notin Faults

\* No step renames a container or makes one vanish, and only Create makes one.
LEMMA NodesKept ==
    ASSUME FleetTyped, [Next]_vars
    PROVE  /\ \A n \in DOMAIN containers :
                  n \in DOMAIN containers' /\ containers'[n].node = containers[n].node
           /\ \/ \E c \in Client : Create(c)
              \/ DOMAIN containers' = DOMAIN containers
<1>1. CASE UNCHANGED containers
  BY <1>1
<1>2. ASSUME NEW c \in Client, Create(c)
      PROVE  \A n \in DOMAIN containers :
                 n \in DOMAIN containers' /\ containers'[n].node = containers[n].node
  BY <1>2 DEF Create, NewContainer
<1>3. ASSUME NEW n \in DOMAIN containers,
             StartContainer(n) \/ Stop(n, TRUE) \/ Stop(n, FALSE)
      PROVE  /\ \A m \in DOMAIN containers :
                    m \in DOMAIN containers' /\ containers'[m].node = containers[m].node
             /\ DOMAIN containers' = DOMAIN containers
  BY <1>3, StateType
<1>4. ASSUME NEW c \in Client, Launch(c) \/ Start(c) \/ Kill(c)
      PROVE  /\ \A m \in DOMAIN containers :
                    m \in DOMAIN containers' /\ containers'[m].node = containers[m].node
             /\ DOMAIN containers' = DOMAIN containers
  <2>1. request[c].target \in DOMAIN containers
    BY <1>4 DEF Launch, Kill, Start, At, FleetTyped, TypeOK
  <2> QED
    BY <1>3, <1>4, <2>1 DEF Launch, Start, Kill
<1>5. ASSUME NEW n \in DOMAIN containers, Leave(n) \/ KillSelf(n)
      PROVE  /\ \A m \in DOMAIN containers :
                    m \in DOMAIN containers' /\ containers'[m].node = containers[m].node
             /\ DOMAIN containers' = DOMAIN containers
  BY <1>3, <1>5 DEF Leave, KillSelf
<1>6. ASSUME NEW n \in DOMAIN containers, Restart(n)
      PROVE  /\ \A m \in DOMAIN containers :
                    m \in DOMAIN containers' /\ containers'[m].node = containers[m].node
             /\ DOMAIN containers' = DOMAIN containers
  BY <1>6 DEF Restart, FleetTyped, TypeOK, Container
<1>7. ASSUME NEW c \in Client,
             \/ ReadMembers(c) \/ NextNodeID(c) \/ CheckExists(c) \/ CreateConflict(c)
             \/ LaunchError(c) \/ FindContainer(c) \/ FindNothing(c) \/ KillError(c)
      PROVE  UNCHANGED containers
  BY <1>7 DEF ReadMembers, NextNodeID, CheckExists, CreateConflict, LaunchError,
              FindContainer, FindNothing, KillError
<1>8. ASSUME NEW c \in Client, NEW server \in Socket,
             \/ AddNext(c, server)
             \/ \E id \in Asked :
                   AddNode(c, server, id) \/ KillNode(c, server, id) \/ StartNode(c, server, id)
      PROVE  UNCHANGED containers
  BY <1>8 DEF AddNext, AddNode, KillNode, StartNode, Ask
<1>9. CASE UNCHANGED vars
  BY <1>1, <1>9 DEF vars
<1> QED
  BY <1>1, <1>2, <1>4, <1>5, <1>6, <1>7, <1>8, <1>9 DEF Next, Handle

\* A handler comes to one of the steps in which an ID is chosen, checked or used only
\* from the one before, or with an ID that the client gave.
LEMMA RequestMoves ==
    ASSUME FleetTyped, [Next]_vars, NEW d \in Client,
           request'[d] # request[d], request'[d].pc \in {"list", "check", "create"}
    PROVE  \/ ReadMembers(d) \/ NextNodeID(d)
           \/ CheckExists(d) /\ Goto(d, "create")
           \/ request'[d].op = "add" /\ request'[d].pc = "check"
<1>0. /\ request \in [Client -> Request] /\ Idle.pc = "idle"
      /\ \A c \in Client : request[c] \in Request
  BY DEF FleetTyped, TypeOK, Idle
<1>1. ASSUME NEW c \in Client, NEW r, request' = [request EXCEPT ![c] = r]
      PROVE  c = d /\ request'[d] = r
  BY <1>0, <1>1
<1>2. ASSUME NEW c \in Client, Answered(c) PROVE FALSE
  BY <1>0, <1>1, <1>2 DEF Answered
<1>3. ASSUME NEW c \in Client, Create(c) PROVE FALSE
  <2>1. request' = [request EXCEPT ![c] = Created(c)]
    BY <1>3 DEF Create
  <2>2. Created(c).pc = "launch"
    BY <1>0 DEF Created, Request
  <2> QED
    BY <1>1, <2>1, <2>2
<1>4. ASSUME NEW c \in Client, FindContainer(c) PROVE FALSE
  <2>1. PICK n : request' = [request EXCEPT ![c].target = n, ![c].pc = "act"]
    BY <1>4 DEF FindContainer
  <2>2. /\ request'[c].pc = "act"
        /\ \A e \in Client : e # c => request'[e] = request[e]
    BY <1>0, <2>1 DEF Request
  <2> QED
    BY <2>2
<1>5. ASSUME NEW c \in Client, Kill(c) PROVE FALSE
  BY <1>0, <1>5 DEF Kill, Cut
<1>6. ASSUME NEW n, Leave(n) PROVE FALSE
  BY <1>0, <1>6 DEF Leave
<1>7. ASSUME NEW n, KillSelf(n) \/ Restart(n) PROVE FALSE
  BY <1>7 DEF KillSelf, Restart
<1>8. ASSUME NEW c \in Client, ReadMembers(c) \/ NextNodeID(c) PROVE c = d
  <2>1. ASSUME NEW e \in Client, e # c PROVE request'[e] = request[e]
    BY <1>0, <1>8, <2>1 DEF ReadMembers, NextNodeID
  <2> QED
    BY <2>1
<1>9. ASSUME NEW c \in Client, CheckExists(c) PROVE c = d /\ Goto(c, "create")
  <2>1. Goto(c, "create")
    BY <1>2, <1>9 DEF CheckExists
  <2>2. ASSUME NEW e \in Client, e # c PROVE request'[e] = request[e]
    BY <1>0, <2>1, <2>2 DEF Goto
  <2> QED
    BY <2>1, <2>2
<1>10. ASSUME NEW c \in Client, NEW op, NEW server, NEW id, NEW p, Ask(c, op, server, id, p)
       PROVE  request'[d].op = op /\ request'[d].pc = p
  <2> DEFINE r == [Idle EXCEPT !.op = op, !.server = server, !.id = id, !.pc = p]
  <2>1. request' = [request EXCEPT ![c] = r]
    BY <1>10 DEF Ask
  <2>2. r.op = op /\ r.pc = p
    BY DEF Idle
  <2> HIDE DEF r
  <2> QED
    BY <1>1, <2>1, <2>2
<1>11. ASSUME NEW c \in Client, NEW server \in Socket,
              \/ AddNext(c, server)
              \/ \E id \in Asked :
                    AddNode(c, server, id) \/ KillNode(c, server, id) \/ StartNode(c, server, id)
       PROVE  request'[d].op = "add" /\ request'[d].pc = "check"
  BY <1>10, <1>11 DEF AddNext, AddNode, KillNode, StartNode
<1>12. ASSUME NEW c \in Client,
              \/ CreateConflict(c) \/ Launch(c) \/ LaunchError(c) \/ FindNothing(c)
              \/ KillError(c) \/ Start(c)
       PROVE  FALSE
  BY <1>2, <1>12 DEF CreateConflict, Launch, LaunchError, FindNothing, KillError, Start
<1>13. CASE UNCHANGED vars
  BY <1>13 DEF vars
<1> QED
  BY <1>3, <1>4, <1>5, <1>6, <1>7, <1>8, <1>9, <1>11, <1>12, <1>13 DEF Next, Handle

\* Every step keeps the names apart.
LEMMA NamesStep ==
    ASSUME IdsTellApart, FleetTyped, NamesInv, [Next]_vars
    PROVE  NamesInv'
<1>0. /\ request \in [Client -> Request]
      /\ \A c \in Client : request[c] \in Request
  BY DEF FleetTyped, TypeOK
<1>1. Socket \subseteq DOMAIN containers'
  BY NodesKept DEF NamesInv
<1>2. ASSUME NEW n \in DOMAIN containers'
      PROVE  IF n \in Socket THEN containers'[n].node = Compose[n]
             ELSE n \in Id /\ containers'[n].node = n
  <2>1. CASE n \in DOMAIN containers
    BY <2>1, NodesKept DEF NamesInv
  <2>2. CASE n \notin DOMAIN containers
    <3>1. PICK c \in Client : Create(c)
      BY <1>2, <2>2, NodesKept
    <3>2. n = request[c].id /\ request[c].pc = "create"
      BY <2>2, <3>1 DEF Create, NewContainer, At
    <3>3. containers'[n].node = n
      BY <3>1, <3>2 DEF Create, NewContainer
    <3> QED
      BY <2>2, <3>2, <3>3 DEF FleetTyped, IdGiven, NamesInv
  <2> QED
    BY <2>1, <2>2
<1>3. ASSUME NEW d \in Client, request'[d].pc = "create", NEW n \in Socket
      PROVE  Compose[n] # request'[d].id /\ ~IsSuffix(request'[d].id, n)
  <2>1. CASE request'[d] = request[d]
    BY <1>3, <2>1 DEF NamesInv
  <2>2. CASE ReadMembers(d) \/ NextNodeID(d)
    <3>1. request'[d].pc # "create"
      BY <1>0, <2>2 DEF ReadMembers, NextNodeID, Request
    <3> QED
      BY <1>3, <3>1
  <2>3. CASE CheckExists(d) /\ Goto(d, "create")
    <3>1. request'[d].id = request[d].id
      BY <1>0, <2>3 DEF Goto, Request
    <3>2. ListNodes = {DOMAIN containers}
      BY DEF ListNodes, IdsTellApart
    <3>3. ~Answered(d)
      BY <1>0, <1>3 DEF Answered, Idle
    <3>4. ~Exists(DOMAIN containers, request[d].id)
      BY <2>3, <3>2, <3>3 DEF CheckExists
    <3>5. n \in DOMAIN containers /\ containers[n].node = Compose[n]
      BY DEF NamesInv
    <3> QED
      BY <3>1, <3>4, <3>5 DEF Exists, Names
  <2> QED
    BY <1>3, <2>1, <2>2, <2>3, RequestMoves
<1>4. ASSUME NEW m \in DOMAIN containers' \ Socket, NEW n \in Socket
      PROVE  Compose[n] # m /\ ~IsSuffix(m, n)
  <2>1. CASE m \in DOMAIN containers
    BY <2>1 DEF NamesInv
  <2>2. CASE m \notin DOMAIN containers
    <3>1. PICK c \in Client : Create(c)
      BY <1>4, <2>2, NodesKept
    <3>2. m = request[c].id /\ request[c].pc = "create"
      BY <2>2, <3>1 DEF Create, NewContainer, At
    <3> QED
      BY <3>2 DEF NamesInv
  <2> QED
    BY <2>1, <2>2
<1> QED
  BY <1>1, <1>2, <1>3, <1>4 DEF NamesInv

\* Where no ID ends in a dash and another one and the list of containers is complete,
\* a node ID names its own container and no other (NodeIdNamesOne), although two
\* requests may both have found that there is no such container, and nextNodeID may have
\* counted from a member list that is old or empty: what the check does not see, the
\* name of the container, which Docker keeps unique, does.
THEOREM NodeIdsNameOne ==
    ASSUME IdsTellApart
    PROVE  Spec => []NodeIdNamesOne
<1>1. Init => NamesInv
  <2> SUFFICES ASSUME Init PROVE NamesInv
    OBVIOUS
  <2>1. DOMAIN containers = Socket /\ \A n \in Socket : containers[n].node = Compose[n]
    BY DEF Init
  <2>2. \A c \in Client : request[c].pc = "idle"
    BY DEF Init, Idle
  <2> QED
    BY <2>1, <2>2 DEF NamesInv
<1>2. FleetTyped /\ NamesInv /\ [Next]_vars => NamesInv'
  BY NamesStep
<1>3. NamesInv => NodeIdNamesOne
  <2> SUFFICES ASSUME NamesInv, NEW n \in DOMAIN containers, NEW m \in DOMAIN containers,
                      Names(m, containers[n].node)
               PROVE  m = n
    BY DEF NodeIdNamesOne
  <2>1. containers[m].node = containers[n].node \/ IsSuffix(containers[n].node, m)
    BY DEF Names
  <2>2. \A k \in Socket : Compose[k] \in Id
    BY DEF Socket, Id, Range
  <2>3. CASE n \in Socket /\ m \in Socket
    <3>1. containers[n].node = Compose[n] /\ containers[m].node = Compose[m]
      BY <2>3 DEF NamesInv
    <3> QED
      BY <2>1, <2>3, <3>1, FleetAssumption DEF IdsTellApart, Socket
  <2>4. CASE n \in Socket /\ m \notin Socket
    <3>1. /\ containers[n].node = Compose[n] /\ containers[m].node = m /\ m \in Id
          /\ Compose[n] # m
      BY <2>4 DEF NamesInv
    <3> QED
      BY <2>1, <2>2, <2>4, <3>1 DEF IdsTellApart
  <2>5. CASE n \notin Socket /\ m \in Socket
    BY <2>1, <2>5 DEF NamesInv
  <2>6. CASE n \notin Socket /\ m \notin Socket
    BY <2>1, <2>6 DEF NamesInv, IdsTellApart
  <2> QED
    BY <2>3, <2>4, <2>5, <2>6
<1> QED
  BY <1>1, <1>2, <1>3, Typed, PTL DEF Spec
=============================================================================
