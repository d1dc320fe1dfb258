------------------------------ MODULE History ------------------------------
(***************************************************************************)
(* The way of a result into the run history: the results prefix of etcd,   *)
(* the mirror of every node that copies it into the node's own SQLite      *)
(* store (internal/history, internal/store), and the garbage collection of *)
(* the leader (internal/queue/gc.go).                                      *)
(*                                                                         *)
(* Results are put by module Queue; here they are put by anybody, and a    *)
(* key may be put again: Abandon puts its result over that of an attempt.  *)
(* A key names a job, a fire and an attempt; keys are numbered in order.   *)
(***************************************************************************)
EXTENDS Integers, Sequences, FiniteSets, Etcd

CONSTANTS
    Node,       \* the nodes
    Key,        \* the keys of results, in their order
    Body,       \* the results that may be put under a key
    PageLimit,  \* how many keys GCResults reads
    Batch,      \* how many keys one transaction of GCResults deletes
    Collectors, \* the nodes whose scheduler may collect
    Faults,     \* which failures happen: subset of FaultKinds
    MaxPuts,    \* bound: how often one key is put
    MaxBreaks   \* bound: how often a mirror is interrupted

FaultKinds == {"crash", "watch", "insert", "rpc"}

ASSUME HistoryAssumption ==
    /\ Key \subseteq Nat
    /\ PageLimit \in Nat \ {0}
    /\ Batch \in Nat \ {0}
    /\ Collectors \subseteq Node
    /\ Faults \subseteq FaultKinds
    /\ MaxPuts \in Nat
    /\ MaxBreaks \in Nat

VARIABLES
    results,    \* /cron/results/: the result, and whether it is past its retention
    puts,       \* how often each key was put
    \* on a node
    pc,         \* where the loop Run is: "down", "get", "load" or "watch"
    rows,       \* what the Get returned and the loop has still to insert
    events,     \* the puts that the watch has still to deliver
    store,      \* the table runs
    failed,     \* the keys whose insert failed since the last Get
    doomed,     \* the keys GCResults has still to delete
    breaks,     \* how often the mirror was interrupted
    \* bookkeeping
    first,      \* the result that each key was first put with
    witnessed   \* the keys whose first put the watch of a node covered, unless it was
                \* interrupted, or SQLite refused the insert, before the row was stored

mirrorVars == <<pc, rows, events, store, failed, breaks, witnessed>>
vars == <<results, puts, mirrorVars, doomed, first>>

PC == {"down", "get", "load", "watch"}
Entry == [body : Body, old : BOOLEAN]
Event == [key : Key, body : Body]

\* Every variable holds a value of its type.
TypeOK ==
    /\ IsKeySpace(results, Key, Entry)
    /\ puts \in [Key -> Nat]
    /\ pc \in [Node -> PC]
    /\ rows = [n \in Node |-> rows[n]]
    /\ \A n \in Node : IsKeySpace(rows[n], Key, Entry)
    /\ events \in [Node -> Seq(Event)]
    /\ store = [n \in Node |-> store[n]]
    /\ \A n \in Node : IsKeySpace(store[n], Key, Body)
    /\ failed \in [Node -> SUBSET Key]
    /\ doomed \in [Node -> SUBSET Key]
    /\ breaks \in [Node -> Nat]
    /\ IsKeySpace(first, Key, Body)
    /\ witnessed \in [Node -> SUBSET Key]

Init ==
    /\ results = NoKeys
    /\ puts = [k \in Key |-> 0]
    /\ pc = [n \in Node |-> "get"]
    /\ rows = [n \in Node |-> NoKeys]
    /\ events = [n \in Node |-> <<>>]
    /\ store = [n \in Node |-> NoKeys]
    /\ failed = [n \in Node |-> {}]
    /\ doomed = [n \in Node |-> {}]
    /\ breaks = [n \in Node |-> 0]
    /\ first = NoKeys
    /\ witnessed = [n \in Node |-> {}]

-----------------------------------------------------------------------------
(* Results *)

\* Mutant: the watch starts when it is opened, not where the Get ended.
WatchingLate(n) == pc[n] = "watch"

\* The watch of node n covers a put made now: it starts at the revision after the
\* Get, so also while the rows of the Get are being inserted.
Watching(n) == pc[n] \in {"load", "watch"}

\* A result is put, and the watches that cover it will deliver it.
PutResult(k, b) ==
    /\ puts[k] < MaxPuts
    /\ puts' = [puts EXCEPT ![k] = @ + 1]
    /\ results' = Put(results, k, [body |-> b, old |-> FALSE])
    /\ events' = [n \in Node |-> IF Watching(n)
                                 THEN Append(events[n], [key |-> k, body |-> b])
                                 ELSE events[n]]
    /\ first' = IF k \in DOMAIN first THEN first ELSE Put(first, k, b)
    /\ witnessed' = [n \in Node |-> IF Watching(n) /\ k \notin DOMAIN first
                                    THEN witnessed[n] \cup {k} ELSE witnessed[n]]
    /\ UNCHANGED <<pc, rows, store, failed, doomed, breaks>>

\* A result is past its retention.
Age(k) ==
    /\ k \in DOMAIN results
    /\ results' = [results EXCEPT ![k].old = TRUE]
    /\ UNCHANGED <<puts, mirrorVars, doomed, first>>

-----------------------------------------------------------------------------
(* The mirror *)

\* Mutant: INSERT OR REPLACE.
ReplaceRun(n, k, b) ==
    /\ store' = [store EXCEPT ![n] = Put(@, k, b)]
    /\ UNCHANGED <<failed, witnessed>>

\* INSERT OR IGNORE: a key that is there keeps its row.
InsertRun(n, k, b) ==
    /\ store' = [store EXCEPT ![n] = IF k \in DOMAIN @ THEN @ ELSE Put(@, k, b)]
    /\ UNCHANGED <<failed, witnessed>>

\* The insert fails, which is logged.
InsertError(n, k) ==
    /\ "insert" \in Faults
    /\ failed' = [failed EXCEPT ![n] = @ \cup {k}]
    /\ witnessed' = [witnessed EXCEPT ![n] = @ \ ({k} \ DOMAIN store[n])]
    /\ UNCHANGED store

\* Run reads the whole prefix, and will watch from the next revision on.
Get(n) ==
    /\ pc[n] = "get"
    /\ rows' = [rows EXCEPT ![n] = results]
    /\ events' = [events EXCEPT ![n] = <<>>]
    /\ failed' = [failed EXCEPT ![n] = {}]
    /\ pc' = [pc EXCEPT ![n] = "load"]
    /\ UNCHANGED <<results, puts, store, doomed, breaks, first, witnessed>>

\* Mutant: the row is the entry of etcd and not the result.
LoadRowWhole(n, k) ==
    /\ pc[n] = "load"
    /\ k \in DOMAIN rows[n]
    /\ InsertRun(n, k, rows[n][k])
    /\ rows' = [rows EXCEPT ![n] = Delete(@, {k})]
    /\ UNCHANGED <<results, puts, pc, events, doomed, breaks, first>>

\* It inserts what it read, one row after the other, ...
LoadRow(n, k) ==
    /\ pc[n] = "load"
    /\ k \in DOMAIN rows[n]
    /\ \A i \in DOMAIN rows[n] : k <= i
    /\ \/ InsertRun(n, k, rows[n][k].body)
       \/ InsertError(n, k)
    /\ rows' = [rows EXCEPT ![n] = Delete(@, {k})]
    /\ UNCHANGED <<results, puts, pc, events, doomed, breaks, first>>

\* ... and opens the watch.
OpenWatch(n) ==
    /\ pc[n] = "load"
    /\ DOMAIN rows[n] = {}
    /\ pc' = [pc EXCEPT ![n] = "watch"]
    /\ UNCHANGED <<results, puts, rows, events, store, failed, doomed, breaks, first,
                   witnessed>>

\* The watch delivers the next put.
Deliver(n) ==
    /\ pc[n] = "watch"
    /\ events[n] # <<>>
    /\ \/ InsertRun(n, Head(events[n]).key, Head(events[n]).body)
       \/ InsertError(n, Head(events[n]).key)
    /\ events' = [events EXCEPT ![n] = Tail(@)]
    /\ UNCHANGED <<results, puts, pc, rows, doomed, breaks, first>>

\* The loop of node n loses what it had in hand and goes to label.
Interrupt(n, label) ==
    /\ breaks[n] < MaxBreaks
    /\ breaks' = [breaks EXCEPT ![n] = @ + 1]
    /\ pc' = [pc EXCEPT ![n] = label]
    /\ rows' = [rows EXCEPT ![n] = NoKeys]
    /\ events' = [events EXCEPT ![n] = <<>>]
    /\ witnessed' = [witnessed EXCEPT ![n] = @ \cap DOMAIN store[n]]

\* The watch ends (its revision is compacted, the stream is lost): retry with a Get.
WatchLost(n) ==
    /\ "watch" \in Faults
    /\ pc[n] = "watch"
    /\ Interrupt(n, "get")
    /\ UNCHANGED <<results, puts, store, failed, doomed, first>>

\* The process is killed.  The store stays on disk.
Crash(n) ==
    /\ "crash" \in Faults
    /\ pc[n] # "down"
    /\ Interrupt(n, "down")
    /\ doomed' = [doomed EXCEPT ![n] = {}]
    /\ UNCHANGED <<results, puts, store, failed, first>>

Start(n) ==
    /\ pc[n] = "down"
    /\ pc' = [pc EXCEPT ![n] = "get"]
    /\ UNCHANGED <<results, puts, rows, events, store, failed, doomed, breaks, first,
                   witnessed>>

-----------------------------------------------------------------------------
(* Garbage collection *)

\* The first limit keys of S.
Page(S, limit) == {k \in S : Cardinality({i \in S : i < k}) < limit}

\* The results on the first page that are past their retention.
Expired == {k \in Page(DOMAIN results, PageLimit) : results[k].old}

\* GCResults reads a page and remembers the keys to delete.
GCScan(n) ==
    /\ n \in Collectors
    /\ pc[n] # "down"
    /\ doomed[n] = {}
    /\ Expired # {}
    /\ doomed' = [doomed EXCEPT ![n] = Expired]
    /\ UNCHANGED <<results, puts, mirrorVars, first>>

\* The transaction that deletes a batch, whatever is under its keys by then.
DeleteBatch(batch) == results' = Delete(results, batch)

\* It deletes them batch by batch.
GCDelete(n) ==
    /\ doomed[n] # {}
    /\ LET batch == Page(doomed[n], Batch)
       IN  /\ DeleteBatch(batch)
           /\ doomed' = [doomed EXCEPT ![n] = @ \ batch]
    /\ UNCHANGED <<puts, mirrorVars, first>>

\* A transaction fails, committed or not, and GCResults returns.
GCError(n) ==
    /\ "rpc" \in Faults
    /\ doomed[n] # {}
    /\ DeleteBatch(Page(doomed[n], Batch)) \/ UNCHANGED results
    /\ doomed' = [doomed EXCEPT ![n] = {}]
    /\ UNCHANGED <<puts, mirrorVars, first>>

-----------------------------------------------------------------------------
MirrorStep(n) ==
    \/ Get(n) \/ OpenWatch(n) \/ Deliver(n)
    \/ \E k \in DOMAIN rows[n] : LoadRow(n, k)

Next ==
    \/ \E k \in Key : Age(k) \/ \E b \in Body : PutResult(k, b)
    \/ \E n \in Node :
           \/ MirrorStep(n) \/ WatchLost(n) \/ Crash(n) \/ Start(n)
           \/ GCScan(n) \/ GCDelete(n) \/ GCError(n)

Spec == Init /\ [][Next]_vars

\* The mirror of a running node goes on.
Fairness == \A n \in Node : WF_vars(MirrorStep(n))

FairSpec == Spec /\ Fairness

-----------------------------------------------------------------------------
(* Properties *)

\* Between the Get and the watch nothing falls through: whatever is in etcd while
\* the mirror of a node is past its Get is stored, among the rows it is loading,
\* or among the events its watch will deliver, unless SQLite refused it.
NoGap ==
    \A n \in Node : Watching(n) =>
        \A k \in DOMAIN results :
            \/ k \in DOMAIN store[n] \cup DOMAIN rows[n] \cup failed[n]
            \/ \E i \in 1 .. Len(events[n]) : events[n][i].key = k

\* A mirror that watches when the first result of a run is put records that result
\* and no other, although its key is put again meanwhile (queue.go:208), the garbage
\* collection deletes it before the mirror comes to it (gc.go:50), and the mirror is
\* interrupted later and reads another result under the key (store.go:71).
FirstResultRecorded ==
    \A n \in Node : \A k \in witnessed[n] :
        IF k \in DOMAIN store[n] THEN store[n][k] = first[k]
        ELSE \E i \in 1 .. Len(events[n]) :
                 /\ events[n][i] = [key |-> k, body |-> first[k]]
                 /\ \A j \in 1 .. i - 1 : events[n][j].key # k

\* The stores of two nodes never tell different stories of a run.  It does not hold
\* when a result is put again: a node that was not watching keeps a later one.
StoresAgree ==
    \A m, n \in Node : \A k \in DOMAIN store[m] \cap DOMAIN store[n] :
        store[m][k] = store[n][k]

\* Garbage collection deletes only results that are past their retention.  It does not
\* hold when a result is put again: the collector deletes what it has not read.
ReapsOnlyOld ==
    [][\A k \in DOMAIN results \ DOMAIN results' : results[k].old]_vars

\* Every result reaches the store of every node that runs on, across lost watches
\* and restarts, unless SQLite refuses it or it is collected from etcd first.
EveryRunRecorded ==
    \A n \in Node, k \in Key :
        k \in DOMAIN results
        ~> \/ k \in DOMAIN store[n] \cup failed[n]
           \/ pc[n] = "down" \/ k \notin DOMAIN results
=============================================================================
