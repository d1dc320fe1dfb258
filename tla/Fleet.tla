------------------------------- MODULE Fleet -------------------------------
(***************************************************************************)
(* The containers of a fleet and the API requests that add, kill and start *)
(* nodes (internal/api/nodes.go, internal/docker), call by call to the     *)
(* Docker daemon, which is external.                                       *)
(*                                                                         *)
(* A name is the sequence of its parts between dashes or underscores, so   *)
(* that "-x" is a suffix of a name if <<"x">> is one of the sequence.      *)
(* Docker names are unique, hence a container is known by its name.  Only  *)
(* the containers of the compose file have the Docker socket and serve     *)
(* these requests; on the others they are refused, except that kill of the *)
(* node itself is a leave.  Nodes that run without a container come and    *)
(* go; all that is seen of them are the member lists that they appear in.  *)
(***************************************************************************)
EXTENDS Integers, SequencesExt

CONSTANTS
    Client,     \* those who send requests, one at a time
    Compose,    \* the compose file: the node ID of each container name
    External,   \* the IDs of nodes that run, at times, without a container
    Asked,      \* the IDs that a client may name
    Numbered,   \* "node1", "node2", ... as IDs: a bound on nextNodeID
    Faults      \* "docker": containers may be missing in the list

ASSUME FleetAssumption ==
    /\ \A id \in External \cup Asked \cup Range(Numbered) : id # <<>>
    /\ \A n, m \in DOMAIN Compose : Compose[n] = Compose[m] => n = m
    /\ Numbered \in Seq(Range(Numbered))
    /\ IsInjective(Numbered)
    /\ Faults \subseteq {"docker"}

VARIABLES
    containers, \* by name: node ID, state, and whether it was stopped on purpose
    request,    \* the request of each client
    \* bookkeeping
    down        \* the containers whose node a request killed and none started since

vars == <<containers, request, down>>

Socket == DOMAIN Compose
Id == Asked \cup External \cup Range(Numbered) \cup Range(Compose)
Name == Socket \cup Id

State == {"created", "running", "exited"}
Container == [node : Id, state : State, stopped : BOOLEAN]
PC == {"idle", "members", "list", "check", "create", "launch", "find", "act"}

\* A request: what is asked, the container that serves it, where its handler is, the
\* ID, the highest number seen so far, and the container found for the ID.
Request == [op : {"none", "next", "add", "kill", "start"}, server : Socket \cup {<<>>},
            pc : PC, id : Id \cup {<<>>}, max : 0 .. Len(Numbered), target : Name \cup {<<>>}]

Idle == [op |-> "none", server |-> <<>>, pc |-> "idle", id |-> <<>>, max |-> 0,
         target |-> <<>>]

\* Every variable holds a value of its type, and what a handler waits for exists.
TypeOK ==
    /\ DOMAIN containers \subseteq Name
    /\ \A n \in DOMAIN containers : containers[n] \in Container
    /\ request \in [Client -> Request]
    /\ \A c \in Client :
          request[c].pc \in {"launch", "act"} => request[c].target \in DOMAIN containers
    /\ down \subseteq DOMAIN containers

\* docker compose up
Init ==
    /\ containers = [n \in Socket |->
                        [node |-> Compose[n], state |-> "running", stopped |-> FALSE]]
    /\ request = [c \in Client |-> Idle]
    /\ down = {}

Running(n) == n \in DOMAIN containers /\ containers[n].state = "running"

\* The handler of a client's request is at p; it lives as long as its server.
At(c, p) == request[c].pc = p /\ Running(request[c].server)

Answered(c) == request' = [request EXCEPT ![c] = Idle]

Goto(c, p) == request' = [request EXCEPT ![c].pc = p]

\* ListNodes: the containers of the project, without those that fail to be inspected.
ListNodes ==
    IF "docker" \in Faults THEN SUBSET DOMAIN containers ELSE {DOMAIN containers}

\* findContainer takes a container whose node has the ID, or whose name is the ID or
\* ends in it.
Names(n, id) ==
    \/ containers[n].node = id
    \/ IsSuffix(id, n)

\* The number of an ID "node<n>", 0 for others.
Number(id) ==
    LET at == {i \in DOMAIN Numbered : Numbered[i] = id}
    IN  IF at = {} THEN 0 ELSE CHOOSE i \in at : TRUE

Highest(ids, floor) == Max({Number(id) : id \in ids} \cup {floor})

\* What Members may yield: a node puts its member key some time after it starts, and the
\* key goes with its lease, which is lost before the node ends or expires after that.
\* Hence any of the nodes that have run may be listed, and after an error none is.
MemberLists ==
    SUBSET (External \cup {containers[n].node : n \in {m \in DOMAIN containers :
                                                         containers[m].state # "created"}})

-----------------------------------------------------------------------------
(* addNode *)

\* A request reaches a node that has the socket.
Ask(c, op, server, id, p) ==
    /\ request[c].pc = "idle"
    /\ Running(server)
    /\ request' = [request EXCEPT ![c] =
                      [Idle EXCEPT !.op = op, !.server = server, !.id = id, !.pc = p]]
    /\ UNCHANGED <<containers, down>>

\* addNode without an ID.
AddNext(c, server) == Ask(c, "next", server, <<>>, "members")

\* addNode with an ID.
AddNode(c, server, id) == Ask(c, "add", server, id, "check")

\* nextNodeID looks at the members first, and goes on if it cannot.
ReadMembers(c) ==
    /\ At(c, "members")
    /\ \E listed \in MemberLists :
          request' = [request EXCEPT ![c].max = Highest(listed, 0), ![c].pc = "list"]
    /\ UNCHANGED <<containers, down>>

\* nextNodeID looks at the containers and takes the next number.
NextNodeID(c) ==
    /\ At(c, "list")
    /\ \E listed \in ListNodes :
          LET max == Highest({containers[n].node : n \in listed}, request[c].max)
          IN  /\ max < Len(Numbered)
              /\ request' = [request EXCEPT ![c].id = Numbered[max + 1], ![c].pc = "check"]
    /\ UNCHANGED <<containers, down>>

\* Mutant: AddNode relies on Docker to refuse what exists.
ExistsNot(listed, id) == FALSE

\* findContainer finds something.
Exists(listed, id) == \E n \in listed : Names(n, id)

\* Client.AddNode refuses an ID that has a container.  If the containers cannot be
\* listed it goes on.
CheckExists(c) ==
    /\ At(c, "check")
    /\ \E listed \in ListNodes :
          IF Exists(listed, request[c].id) THEN Answered(c) ELSE Goto(c, "create")
    /\ UNCHANGED <<containers, down>>

\* POST containers/create
NewContainer(id) ==
    containers' = [n \in DOMAIN containers \cup {id} |->
                      IF n = id THEN [node |-> id, state |-> "created", stopped |-> FALSE]
                      ELSE containers[n]]

\* Mutant: what is to be started is not recorded.
Unrecorded(c) == [request[c] EXCEPT !.pc = "launch"]

\* The container that was created is to be started.
Created(c) == [request[c] EXCEPT !.target = request[c].id, !.pc = "launch"]

\* The container is created under its ID as name.
Create(c) ==
    LET id == request[c].id
    IN  /\ At(c, "create")
        /\ id \notin DOMAIN containers
        /\ NewContainer(id)
        /\ request' = [request EXCEPT ![c] = Created(c)]
        /\ UNCHANGED down

\* Docker refuses a name that is taken.
CreateConflict(c) ==
    /\ At(c, "create")
    /\ request[c].id \in DOMAIN containers
    /\ Answered(c)
    /\ UNCHANGED <<containers, down>>

\* POST containers/{id}/start, which also succeeds if the container runs.
StartContainer(n) ==
    /\ containers' = [containers EXCEPT ![n].state = "running", ![n].stopped = FALSE]
    /\ down' = down \ {n}

\* The new container is started and the client told.
Launch(c) ==
    /\ At(c, "launch")
    /\ StartContainer(request[c].target)
    /\ Answered(c)

\* A start that fails leaves the container behind.
LaunchError(c) ==
    /\ At(c, "launch")
    /\ Answered(c)
    /\ UNCHANGED <<containers, down>>

-----------------------------------------------------------------------------
(* killNode and startNode *)

KillNode(c, server, id) == Ask(c, "kill", server, id, "find")
StartNode(c, server, id) == Ask(c, "start", server, id, "find")

\* findContainer: some container the ID names, in the order of Docker's list.
FindContainer(c) ==
    /\ At(c, "find")
    /\ \E listed \in ListNodes : \E n \in listed :
          /\ Names(n, request[c].id)
          /\ request' = [request EXCEPT ![c].target = n, ![c].pc = "act"]
    /\ UNCHANGED <<containers, down>>

\* There is none, or the list failed.
FindNothing(c) ==
    /\ At(c, "find")
    /\ \E listed \in ListNodes : \A n \in listed : ~Names(n, request[c].id)
    /\ Answered(c)
    /\ UNCHANGED <<containers, down>>

\* The process in a container ends, and with it the requests it serves.
Stop(n, purpose) ==
    containers' = [containers EXCEPT ![n].state = "exited", ![n].stopped = purpose]

Cut(n, c) ==
    request' = [d \in Client |->
                   IF d = c \/ request[d].server = n THEN Idle ELSE request[d]]

\* POST containers/{id}/kill.  A node may kill itself, and then nobody is answered.
Kill(c) ==
    LET n == request[c].target
    IN  /\ At(c, "act")
        /\ request[c].op = "kill"
        /\ Running(n)
        /\ Stop(n, TRUE)
        /\ Cut(n, c)
        /\ down' = down \cup {n}

\* Docker does not kill what does not run.
KillError(c) ==
    /\ At(c, "act")
    /\ request[c].op = "kill"
    /\ ~Running(request[c].target)
    /\ Answered(c)
    /\ UNCHANGED <<containers, down>>

\* StartNode
Start(c) ==
    /\ At(c, "act")
    /\ request[c].op = "start"
    /\ StartContainer(request[c].target)
    /\ Answered(c)

\* leaveNode, or any other end of the process.
Leave(n) ==
    /\ Running(n)
    /\ Stop(n, FALSE)
    /\ request' = [d \in Client |-> IF request[d].server = n THEN Idle ELSE request[d]]
    /\ UNCHANGED down

\* killNode at a node that has no socket: asked to kill itself, it leaves.
KillSelf(n) ==
    /\ Running(n)
    /\ n \notin Socket
    /\ Stop(n, FALSE)
    /\ down' = down \cup {n}
    /\ UNCHANGED request

\* The restart policy of both kinds of containers is unless-stopped.
Restart(n) ==
    /\ containers[n].state = "exited"
    /\ ~containers[n].stopped
    /\ containers' = [containers EXCEPT ![n].state = "running"]
    /\ UNCHANGED <<request, down>>

-----------------------------------------------------------------------------

Handle(c) ==
    \/ ReadMembers(c) \/ NextNodeID(c)
    \/ CheckExists(c) \/ Create(c) \/ CreateConflict(c) \/ Launch(c) \/ LaunchError(c)
    \/ FindContainer(c) \/ FindNothing(c)
    \/ Kill(c) \/ KillError(c) \/ Start(c)

Next ==
    \/ \E c \in Client : Handle(c)
    \/ \E c \in Client, server \in Socket : AddNext(c, server)
    \/ \E c \in Client, server \in Socket, id \in Asked :
          AddNode(c, server, id) \/ KillNode(c, server, id) \/ StartNode(c, server, id)
    \/ \E n \in DOMAIN containers : Leave(n) \/ KillSelf(n) \/ Restart(n)

Spec == Init /\ [][Next]_vars

-----------------------------------------------------------------------------
(* Properties *)

\* A node ID names its own container and no other, so that kill and start reach the
\* node they name (docker.go:217) and no two containers run nodes of one ID, under which
\* claims, members and leaders are told apart: whatever requests race, whatever member
\* lists nextNodeID counts from, whichever servers die in the middle of a request, and
\* although containers are left behind half made.  It says nothing of nodes that run
\* without a container.
NodeIdNamesOne ==
    \A n, m \in DOMAIN containers : Names(m, containers[n].node) => m = n

\* Does not hold (README.md): the node of a container never has the ID of one that runs
\* without a container, which no member list needs to show when an ID is chosen
\* (nodes.go:84) and which findContainer cannot see.
NodesDiffer == \A n \in DOMAIN containers : Running(n) => containers[n].node \notin External

\* Does not hold (README.md): a node that a request killed stays down until one starts
\* it.  Docker brings back the one that was asked to kill itself (nodes.go:149).
KilledStaysDown == \A n \in down : ~Running(n)
=============================================================================
