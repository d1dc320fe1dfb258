--------------------------- MODULE HistoryProofs ---------------------------
(***************************************************************************)
(* Proofs about History, for any number of nodes, keys and results, any    *)
(* page and batch of the garbage collection, and however often a mirror is *)
(* interrupted.                                                            *)
(***************************************************************************)
EXTENDS History, TLAPS

-----------------------------------------------------------------------------
(* Type correctness *)

\* A put keeps a prefix typed.
LEMMA PutType ==
    ASSUME NEW K, NEW V, NEW kv, IsKeySpace(kv, K, V), NEW k \in K, NEW v \in V
    PROVE  IsKeySpace(Put(kv, k, v), K, V)
BY DEF IsKeySpace, Put

\* A delete keeps a prefix typed.
LEMMA DeleteType ==
    ASSUME NEW K, NEW V, NEW kv, IsKeySpace(kv, K, V), NEW ks
    PROVE  IsKeySpace(Delete(kv, ks), K, V)
BY DEF IsKeySpace, Delete

\* An empty prefix is typed.
LEMMA NoKeysType ==
    ASSUME NEW K, NEW V
    PROVE  IsKeySpace(NoKeys, K, V)
BY DEF IsKeySpace, NoKeys

\* What an insert, or one that fails, does to the store of its node and to those of
\* the others.
LEMMA InsertType ==
    ASSUME TypeOK, NEW n \in Node, NEW k \in Key, NEW b \in Body,
           InsertRun(n, k, b) \/ InsertError(n, k)
    PROVE  /\ store' = [m \in Node |-> store'[m]]
           /\ \A m \in Node : IsKeySpace(store'[m], Key, Body)
           /\ failed' \in [Node -> SUBSET Key]
           /\ witnessed' \in [Node -> SUBSET Key]
<1>1. CASE InsertRun(n, k, b)
  <2>1. IsKeySpace(Put(store[n], k, b), Key, Body)
    BY PutType DEF TypeOK
  <2>2. /\ store' = [m \in Node |-> store'[m]]
        /\ store'[n] = store[n] \/ store'[n] = Put(store[n], k, b)
        /\ \A m \in Node : m # n => store'[m] = store[m]
    BY <1>1 DEF InsertRun, TypeOK
  <2>3. failed' = failed /\ witnessed' = witnessed
    BY <1>1 DEF InsertRun
  <2> QED
    BY <2>1, <2>2, <2>3 DEF TypeOK
<1>2. CASE InsertError(n, k)
  BY <1>2 DEF InsertError, TypeOK
<1> QED
  BY <1>1, <1>2

\* Every step keeps the types.
LEMMA TypeStep ==
    ASSUME TypeOK, [Next]_vars
    PROVE  TypeOK'
<1> USE DEF mirrorVars
<1>1. ASSUME NEW k \in Key, Age(k) PROVE TypeOK'
  <2>1. IsKeySpace(results', Key, Entry)
    BY <1>1 DEF Age, TypeOK, IsKeySpace, Entry
  <2> QED
    BY <1>1, <2>1 DEF Age, TypeOK
<1>2. ASSUME NEW k \in Key, NEW b \in Body, PutResult(k, b) PROVE TypeOK'
  <2>1. [body |-> b, old |-> FALSE] \in Entry /\ [key |-> k, body |-> b] \in Event
    BY DEF Entry, Event
  <2>2. IsKeySpace(results', Key, Entry)
    BY <1>2, <2>1, PutType DEF PutResult, TypeOK
  <2>3. puts' \in [Key -> Nat]
    BY <1>2 DEF PutResult, TypeOK
  <2>4. events' \in [Node -> Seq(Event)]
    BY <1>2, <2>1 DEF PutResult, TypeOK
  <2>5. IsKeySpace(first', Key, Body)
    BY <1>2, PutType DEF PutResult, TypeOK
  <2>6. witnessed' \in [Node -> SUBSET Key]
    BY <1>2 DEF PutResult, TypeOK
  <2> QED
    BY <1>2, <2>2, <2>3, <2>4, <2>5, <2>6 DEF PutResult, TypeOK
<1>3. ASSUME NEW n \in Node, Get(n) PROVE TypeOK'
  <2>1. /\ rows' = [m \in Node |-> rows'[m]] /\ rows'[n] = results
        /\ \A m \in Node : m # n => rows'[m] = rows[m]
    BY <1>3 DEF Get, TypeOK
  <2>2. events' \in [Node -> Seq(Event)]
    BY <1>3 DEF Get, TypeOK
  <2>3. failed' \in [Node -> SUBSET Key] /\ pc' \in [Node -> PC]
    BY <1>3 DEF Get, TypeOK, PC
  <2> QED
    BY <1>3, <2>1, <2>2, <2>3 DEF Get, TypeOK
<1>4. ASSUME NEW n \in Node, NEW k \in DOMAIN rows[n], LoadRow(n, k) PROVE TypeOK'
  <2>1. k \in Key /\ rows[n][k].body \in Body
    BY <1>4 DEF TypeOK, IsKeySpace, Entry
  <2>2. /\ store' = [m \in Node |-> store'[m]]
        /\ \A m \in Node : IsKeySpace(store'[m], Key, Body)
        /\ failed' \in [Node -> SUBSET Key] /\ witnessed' \in [Node -> SUBSET Key]
    BY <1>4, <2>1, InsertType DEF LoadRow
  <2>3. /\ rows' = [m \in Node |-> rows'[m]] /\ rows'[n] = Delete(rows[n], {k})
        /\ \A m \in Node : m # n => rows'[m] = rows[m]
    BY <1>4 DEF LoadRow, TypeOK
  <2>4. IsKeySpace(Delete(rows[n], {k}), Key, Entry)
    BY DeleteType DEF TypeOK
  <2>5. \A m \in Node : IsKeySpace(rows'[m], Key, Entry)
    BY <2>3, <2>4 DEF TypeOK
  <2> QED
    BY <1>4, <2>2, <2>3, <2>5 DEF LoadRow, TypeOK
<1>5. ASSUME NEW n \in Node, OpenWatch(n) \/ Start(n) PROVE TypeOK'
  BY <1>5 DEF OpenWatch, Start, TypeOK, PC
<1>6. ASSUME NEW n \in Node, Deliver(n) PROVE TypeOK'
  <2>1. events[n] \in Seq(Event) /\ events[n] # <<>>
    BY <1>6 DEF Deliver, TypeOK
  <2>2. Head(events[n]) \in Event /\ Tail(events[n]) \in Seq(Event)
    BY <2>1
  <2>3. Head(events[n]).key \in Key /\ Head(events[n]).body \in Body
    BY <2>2 DEF Event
  <2>4. /\ store' = [m \in Node |-> store'[m]]
        /\ \A m \in Node : IsKeySpace(store'[m], Key, Body)
        /\ failed' \in [Node -> SUBSET Key] /\ witnessed' \in [Node -> SUBSET Key]
    BY <1>6, <2>3, InsertType DEF Deliver
  <2>5. events' \in [Node -> Seq(Event)]
    BY <1>6, <2>2 DEF Deliver, TypeOK
  <2> QED
    BY <1>6, <2>4, <2>5 DEF Deliver, TypeOK
<1>7. ASSUME NEW n \in Node, NEW p \in PC, Interrupt(n, p),
             UNCHANGED <<results, puts, store, failed, first>>, doomed' \in [Node -> SUBSET Key]
      PROVE  TypeOK'
  <2>1. /\ rows' = [m \in Node |-> rows'[m]] /\ rows'[n] = NoKeys
        /\ \A m \in Node : m # n => rows'[m] = rows[m]
    BY <1>7 DEF Interrupt, TypeOK
  <2>2. \A m \in Node : IsKeySpace(rows'[m], Key, Entry)
    BY <2>1, NoKeysType DEF TypeOK
  <2>3. events' \in [Node -> Seq(Event)]
    BY <1>7 DEF Interrupt, TypeOK
  <2>4. /\ pc' \in [Node -> PC] /\ breaks' \in [Node -> Nat]
        /\ witnessed' \in [Node -> SUBSET Key]
    BY <1>7 DEF Interrupt, TypeOK
  <2> QED
    BY <1>7, <2>1, <2>2, <2>3, <2>4 DEF TypeOK
<1>8. ASSUME NEW n \in Node, WatchLost(n) PROVE TypeOK'
  BY <1>7, <1>8 DEF WatchLost, PC, TypeOK
<1>9. ASSUME NEW n \in Node, Crash(n) PROVE TypeOK'
  <2>1. doomed' \in [Node -> SUBSET Key]
    BY <1>9 DEF Crash, TypeOK
  <2> QED
    BY <1>7, <1>9, <2>1 DEF Crash, PC
<1>10. ASSUME NEW n \in Node, GCScan(n) PROVE TypeOK'
  <2>1. Expired \subseteq Key
    BY DEF Expired, Page, TypeOK, IsKeySpace
  <2> QED
    BY <1>10, <2>1 DEF GCScan, TypeOK
<1>11. ASSUME NEW n \in Node, GCDelete(n) \/ GCError(n) PROVE TypeOK'
  <2>1. IsKeySpace(results', Key, Entry)
    BY <1>11, DeleteType DEF GCDelete, GCError, DeleteBatch, TypeOK
  <2>2. doomed' \in [Node -> SUBSET Key]
    BY <1>11 DEF GCDelete, GCError, TypeOK
  <2> QED
    BY <1>11, <2>1, <2>2 DEF GCDelete, GCError, TypeOK
<1>12. CASE UNCHANGED vars
  BY <1>12 DEF vars, TypeOK
<1> QED
  BY <1>1, <1>2, <1>3, <1>4, <1>5, <1>6, <1>8, <1>9, <1>10, <1>11, <1>12
     DEF Next, MirrorStep

\* Every variable keeps its type: what reaches a store by way of a Get or of a watch is
\* the result that was put, not its envelope.
THEOREM HistoryTypeCorrect == Spec => []TypeOK
<1>1. Init => TypeOK
  BY NoKeysType DEF Init, TypeOK, PC
<1>2. TypeOK /\ [Next]_vars => TypeOK'
  BY TypeStep
<1> QED
  BY <1>1, <1>2, PTL DEF Spec

-----------------------------------------------------------------------------
(* No gap between the Get and the watch *)

\* The watch of node n will deliver a put of k.
Coming(n, k) == \E i \in 1 .. Len(events[n]) : events[n][i].key = k

\* Result k is on its way into the store of node n, or in it.
Covered(n, k) == k \in DOMAIN store[n] \cup DOMAIN rows[n] \cup failed[n] \/ Coming(n, k)

\* A put that a watch covers is one more that it will deliver.
LEMMA AppendComing ==
    ASSUME NEW s \in Seq(Event), NEW ev \in Event, NEW k
    PROVE  (\E i \in 1 .. Len(Append(s, ev)) : Append(s, ev)[i].key = k)
           <=> (\E i \in 1 .. Len(s) : s[i].key = k) \/ ev.key = k
<1>1. Len(Append(s, ev)) = Len(s) + 1 /\ Append(s, ev)[Len(s) + 1] = ev /\ Len(s) \in Nat
  OBVIOUS
<1>2. \A i \in 1 .. Len(s) : Append(s, ev)[i] = s[i]
  OBVIOUS
<1>3. 1 .. (Len(s) + 1) = (1 .. Len(s)) \cup {Len(s) + 1}
  BY <1>1
<1> QED
  BY <1>1, <1>2, <1>3

\* When an event is delivered, the ones behind it are still to come.
LEMMA TailComing ==
    ASSUME NEW s \in Seq(Event), s # <<>>, NEW k, NEW i \in 1 .. Len(s), s[i].key = k
    PROVE  Head(s).key = k \/ \E j \in 1 .. Len(Tail(s)) : Tail(s)[j].key = k
<1>1. CASE i = 1
  BY <1>1
<1>2. CASE i # 1
  <2>1. i - 1 \in 1 .. Len(Tail(s)) /\ Tail(s)[i - 1] = s[i]
    BY <1>2
  <2> QED
    BY <2>1
<1> QED
  BY <1>1, <1>2

\* What an insert, or one that fails, leaves behind: the key is stored or known to have
\* failed, and nothing that was stored or failed is forgotten.
LEMMA InsertCovers ==
    ASSUME TypeOK, NEW n \in Node, NEW k \in Key, NEW b,
           InsertRun(n, k, b) \/ InsertError(n, k)
    PROVE  /\ k \in DOMAIN store'[n] \cup failed'[n]
           /\ \A m \in Node : /\ DOMAIN store[m] \subseteq DOMAIN store'[m]
                              /\ failed[m] \subseteq failed'[m]
<1>1. CASE InsertRun(n, k, b)
  <2>1. store'[n] = (IF k \in DOMAIN store[n] THEN store[n] ELSE Put(store[n], k, b))
        /\ \A m \in Node : m # n => store'[m] = store[m]
    BY <1>1 DEF InsertRun, TypeOK
  <2>2. DOMAIN Put(store[n], k, b) = DOMAIN store[n] \cup {k}
    BY DEF Put
  <2>3. failed' = failed
    BY <1>1 DEF InsertRun
  <2> QED
    BY <2>1, <2>2, <2>3
<1>2. CASE InsertError(n, k)
  BY <1>2 DEF InsertError, TypeOK
<1> QED
  BY <1>1, <1>2

\* Every step keeps every result covered.
LEMMA NoGapStep ==
    ASSUME TypeOK, NoGap, [Next]_vars
    PROVE  NoGap'
<1> USE DEF mirrorVars
<1>0. \A m \in Node, k \in DOMAIN results : Watching(m) => Covered(m, k)
  BY DEF NoGap, Covered, Coming
<1>1. ASSUME \A m \in Node : \A k \in DOMAIN results' : Watching(m)' => Covered(m, k)'
      PROVE  NoGap'
  BY <1>1 DEF NoGap, Covered, Coming
<1>2. ASSUME DOMAIN results' \subseteq DOMAIN results,
             UNCHANGED <<pc, rows, events, store, failed>>
      PROVE  NoGap'
  BY <1>0, <1>1, <1>2 DEF Watching, Covered, Coming
\* The mirror of n moves and is not past its Get then.
<1>3. ASSUME NEW n \in Node, results' = results, pc'[n] \notin {"load", "watch"},
             UNCHANGED <<store, failed>>,
             \A m \in Node : m # n => /\ pc'[m] = pc[m] /\ rows'[m] = rows[m]
                                      /\ events'[m] = events[m]
      PROVE  NoGap'
  BY <1>0, <1>1, <1>3 DEF Watching, Covered, Coming
<1>4. ASSUME NEW k \in Key, Age(k) PROVE NoGap'
  <2>1. DOMAIN results' = DOMAIN results
    BY <1>4 DEF Age, TypeOK, IsKeySpace
  <2> QED
    BY <1>2, <1>4, <2>1 DEF Age
<1>5. ASSUME NEW k \in Key, NEW b \in Body, PutResult(k, b) PROVE NoGap'
  <2> DEFINE ev == [key |-> k, body |-> b]
  <2>1. ev \in Event /\ ev.key = k
    BY DEF Event
  <2>2. DOMAIN results' = DOMAIN results \cup {k}
    BY <1>5 DEF PutResult, Put
  <2>3. UNCHANGED <<pc, rows, store, failed>>
    BY <1>5 DEF PutResult
  <2>4. ASSUME NEW m \in Node, NEW x \in DOMAIN results', Watching(m)' PROVE Covered(m, x)'
    <3>1. Watching(m)
      BY <2>3, <2>4 DEF Watching
    <3>2. events'[m] = Append(events[m], ev) /\ events[m] \in Seq(Event)
      BY <1>5, <3>1 DEF PutResult, TypeOK
    <3> HIDE DEF ev
    <3>3. Coming(m, x)' <=> Coming(m, x) \/ x = k
      BY <2>1, <3>2, AppendComing DEF Coming
    <3> QED
      BY <1>0, <2>2, <2>3, <3>1, <3>3 DEF Covered
  <2> QED
    BY <1>1, <2>4
<1>6. ASSUME NEW n \in Node, Get(n) PROVE NoGap'
  <2>1. /\ rows'[n] = results /\ results' = results /\ store' = store
        /\ \A m \in Node : m # n => /\ pc'[m] = pc[m] /\ rows'[m] = rows[m]
                                    /\ events'[m] = events[m] /\ failed'[m] = failed[m]
    BY <1>6 DEF Get, TypeOK
  <2> QED
    BY <1>0, <1>1, <2>1 DEF Watching, Covered, Coming
<1>7. ASSUME NEW n \in Node, NEW k \in DOMAIN rows[n], LoadRow(n, k) PROVE NoGap'
  <2>1. k \in Key
    BY DEF TypeOK, IsKeySpace
  <2>2. /\ k \in DOMAIN store'[n] \cup failed'[n]
        /\ \A m \in Node : /\ DOMAIN store[m] \subseteq DOMAIN store'[m]
                           /\ failed[m] \subseteq failed'[m]
    BY <1>7, <2>1, InsertCovers DEF LoadRow
  <2>3. /\ results' = results /\ pc' = pc /\ events' = events
        /\ rows'[n] = Delete(rows[n], {k})
        /\ \A m \in Node : m # n => rows'[m] = rows[m]
    BY <1>7 DEF LoadRow, TypeOK
  <2>4. DOMAIN rows'[n] = DOMAIN rows[n] \ {k}
    BY <2>3 DEF Delete
  <2> QED
    BY <1>0, <1>1, <2>2, <2>3, <2>4 DEF Watching, Covered, Coming
<1>8. ASSUME NEW n \in Node, OpenWatch(n) PROVE NoGap'
  <2>1. \A m \in Node : Watching(m)' => Watching(m)
    BY <1>8 DEF OpenWatch, Watching, TypeOK
  <2> QED
    BY <1>0, <1>1, <1>8, <2>1 DEF OpenWatch, Covered, Coming
<1>9. ASSUME NEW n \in Node, Deliver(n) PROVE NoGap'
  <2>1. events[n] \in Seq(Event) /\ events[n] # <<>>
    BY <1>9 DEF Deliver, TypeOK
  <2>2. Head(events[n]).key \in Key
    <3>1. Head(events[n]) \in Event
      BY <2>1
    <3> QED
      BY <3>1 DEF Event
  <2>3. /\ Head(events[n]).key \in DOMAIN store'[n] \cup failed'[n]
        /\ \A m \in Node : /\ DOMAIN store[m] \subseteq DOMAIN store'[m]
                           /\ failed[m] \subseteq failed'[m]
    BY <1>9, <2>2, InsertCovers DEF Deliver
  <2>4. /\ results' = results /\ pc' = pc /\ rows' = rows
        /\ events'[n] = Tail(events[n])
        /\ \A m \in Node : m # n => events'[m] = events[m]
    BY <1>9 DEF Deliver, TypeOK
  <2>5. ASSUME NEW k, Coming(n, k) PROVE Head(events[n]).key = k \/ Coming(n, k)'
    BY <2>1, <2>4, <2>5, TailComing DEF Coming
  <2>6. ASSUME NEW m \in Node, NEW k \in DOMAIN results', Watching(m)' PROVE Covered(m, k)'
    <3>1. Covered(m, k)
      BY <1>0, <2>4, <2>6 DEF Watching
    <3>2. CASE m = n
      BY <2>3, <2>4, <2>5, <3>1, <3>2 DEF Covered
    <3>3. CASE m # n
      BY <2>3, <2>4, <3>1, <3>3 DEF Covered, Coming
    <3> QED
      BY <3>2, <3>3
  <2> QED
    BY <1>1, <2>6
<1>10. ASSUME NEW n \in Node, WatchLost(n) \/ Crash(n) \/ Start(n) PROVE NoGap'
  <2>1. /\ results' = results /\ pc'[n] \in {"get", "down"} /\ UNCHANGED <<store, failed>>
        /\ \A m \in Node : m # n => /\ pc'[m] = pc[m] /\ rows'[m] = rows[m]
                                    /\ events'[m] = events[m]
    BY <1>10 DEF WatchLost, Crash, Start, Interrupt, TypeOK
  <2> QED
    BY <1>3, <2>1
<1>11. ASSUME NEW n \in Node, GCScan(n) PROVE NoGap'
  BY <1>2, <1>11 DEF GCScan
<1>12. ASSUME NEW n \in Node, GCDelete(n) \/ GCError(n) PROVE NoGap'
  <2>1. DOMAIN results' \subseteq DOMAIN results
    BY <1>12 DEF GCDelete, GCError, DeleteBatch, Delete
  <2> QED
    BY <1>2, <1>12, <2>1 DEF GCDelete, GCError
<1>13. CASE UNCHANGED vars
  BY <1>2, <1>13 DEF vars
<1> QED
  BY <1>4, <1>5, <1>6, <1>7, <1>8, <1>9, <1>10, <1>11, <1>12, <1>13 DEF Next, MirrorStep

\* For any number of nodes and results, whatever is lost, killed or refused: nothing
\* falls between the Get of a mirror and its watch.
THEOREM MirrorHasNoGap == Spec => []NoGap
<1>1. Init => NoGap
  BY DEF Init, NoGap, Watching
<1>2. TypeOK /\ NoGap /\ [Next]_vars => NoGap'
  BY NoGapStep
<1> QED
  BY <1>1, <1>2, HistoryTypeCorrect, PTL DEF Spec

-----------------------------------------------------------------------------
(* The first result of a run *)

\* What is known of a run that was put: whatever a mirror has or is to have of it, it
\* was put; a mirror that does not watch has stored what it witnessed; and what it
\* read with its Get it did not witness, unless it was stored before.
FirstInv ==
    /\ \A k \in DOMAIN results : k \in DOMAIN first
    /\ \A n \in Node :
           /\ \A k \in DOMAIN store[n] \cup DOMAIN rows[n] : k \in DOMAIN first
           /\ \A i \in 1 .. Len(events[n]) : events[n][i].key \in DOMAIN first
           /\ witnessed[n] \subseteq DOMAIN first
           /\ ~Watching(n) => witnessed[n] \subseteq DOMAIN store[n]
           /\ \A k \in DOMAIN rows[n] \cap witnessed[n] : k \in DOMAIN store[n]

\* Result b is the next one of key k among the events s.
NextOf(s, k, b) ==
    \E i \in 1 .. Len(s) : /\ s[i] = [key |-> k, body |-> b]
                           /\ \A j \in 1 .. i - 1 : s[j].key # k

\* The first result of k is in the store of n, or the next one of k that its watch
\* will deliver.
Recorded(n, k) ==
    IF k \in DOMAIN store[n] THEN store[n][k] = first[k] ELSE NextOf(events[n], k, first[k])

\* FirstResultRecorded, one node at a time.
LEMMA RecordedIs ==
    FirstResultRecorded <=> \A n \in Node : \A k \in witnessed[n] : Recorded(n, k)
BY DEF FirstResultRecorded, Recorded, NextOf

\* A put that follows does not change which result of a key comes next.
LEMMA NextAppend ==
    ASSUME NEW s \in Seq(Event), NEW ev \in Event, NEW k, NEW b, NextOf(s, k, b)
    PROVE  NextOf(Append(s, ev), k, b)
<1>1. PICK i \in 1 .. Len(s) : /\ s[i] = [key |-> k, body |-> b]
                               /\ \A j \in 1 .. i - 1 : s[j].key # k
  BY DEF NextOf
<1>2. Len(Append(s, ev)) = Len(s) + 1 /\ Len(s) \in Nat
  OBVIOUS
<1>3. \A j \in 1 .. Len(s) : Append(s, ev)[j] = s[j]
  OBVIOUS
<1>4. i \in 1 .. Len(Append(s, ev)) /\ \A j \in 1 .. i - 1 : j \in 1 .. Len(s)
  BY <1>2
<1> QED
  BY <1>1, <1>3, <1>4 DEF NextOf

\* A put of a key of which no put is to come is the next of its key.
LEMMA NextNew ==
    ASSUME NEW s \in Seq(Event), NEW k \in Key, NEW b \in Body,
           \A j \in 1 .. Len(s) : s[j].key # k
    PROVE  NextOf(Append(s, [key |-> k, body |-> b]), k, b)
<1> DEFINE ev == [key |-> k, body |-> b]
<1>1. ev \in Event
  BY DEF Event
<1> HIDE DEF ev
<1>2. /\ Len(Append(s, ev)) = Len(s) + 1 /\ Len(s) \in Nat
      /\ Append(s, ev)[Len(s) + 1] = ev
  BY <1>1
<1>3. \A j \in 1 .. Len(s) : Append(s, ev)[j] = s[j]
  BY <1>1
<1>4. Len(s) + 1 \in 1 .. Len(Append(s, ev)) /\ (Len(s) + 1) - 1 = Len(s)
  BY <1>2
<1>5. NextOf(Append(s, ev), k, b) <=> \E i \in 1 .. Len(Append(s, ev)) :
          Append(s, ev)[i] = ev /\ \A j \in 1 .. i - 1 : Append(s, ev)[j].key # k
  BY DEF NextOf, ev
<1>6. NextOf(Append(s, ev), k, b)
  BY <1>2, <1>3, <1>4, <1>5
<1> QED
  BY <1>6 DEF ev

\* What is delivered is the next of its key, and of another key the next is still to come.
LEMMA NextTail ==
    ASSUME NEW s \in Seq(Event), s # <<>>, NEW k, NEW b, NextOf(s, k, b)
    PROVE  IF Head(s).key = k THEN Head(s).body = b ELSE NextOf(Tail(s), k, b)
<1>1. PICK i \in 1 .. Len(s) : /\ s[i] = [key |-> k, body |-> b]
                               /\ \A j \in 1 .. i - 1 : s[j].key # k
  BY DEF NextOf
<1>2. s[i].key = k /\ s[i].body = b /\ Head(s) = s[1] /\ Len(s) \in Nat
  BY <1>1
<1>3. CASE i = 1
  BY <1>2, <1>3
<1>4. CASE i # 1
  <2>1. 1 \in 1 .. i - 1
    BY <1>4
  <2>2. Head(s).key # k
    BY <1>1, <1>2, <2>1
  <2>3. i - 1 \in 1 .. Len(Tail(s)) /\ Tail(s)[i - 1] = s[i]
    BY <1>4
  <2>4. ASSUME NEW j \in 1 .. (i - 1) - 1 PROVE Tail(s)[j].key # k
    <3>1. j + 1 \in 1 .. i - 1 /\ Tail(s)[j] = s[j + 1]
      BY <1>2
    <3> QED
      BY <1>1, <3>1
  <2>5. Tail(s)[i - 1] = [key |-> k, body |-> b]
    BY <1>1, <2>3
  <2> QED
    BY <2>2, <2>3, <2>4, <2>5 DEF NextOf
<1> QED
  BY <1>3, <1>4

\* What an insert, or one that fails, does to what its node has witnessed and stored.
LEMMA InsertRecords ==
    ASSUME TypeOK, NEW n \in Node, NEW k \in Key, NEW b \in Body,
           InsertRun(n, k, b) \/ InsertError(n, k)
    PROVE  /\ \A m \in Node : m # n => store'[m] = store[m] /\ witnessed'[m] = witnessed[m]
           /\ witnessed'[n] \subseteq witnessed[n]
           /\ \A x \in DOMAIN store[n] : x \in DOMAIN store'[n] /\ store'[n][x] = store[n][x]
           /\ \A x \in DOMAIN store'[n] : x \in DOMAIN store[n] \/ x = k
           /\ k \in witnessed'[n] => k \in DOMAIN store'[n]
           /\ k \in DOMAIN store'[n] \ DOMAIN store[n] => store'[n][k] = b
<1>1. CASE InsertRun(n, k, b)
  <2>1. /\ store'[n] = (IF k \in DOMAIN store[n] THEN store[n] ELSE Put(store[n], k, b))
        /\ \A m \in Node : m # n => store'[m] = store[m]
        /\ witnessed' = witnessed
    BY <1>1 DEF InsertRun, TypeOK
  <2>2. /\ DOMAIN Put(store[n], k, b) = DOMAIN store[n] \cup {k}
        /\ Put(store[n], k, b)[k] = b
        /\ \A x \in DOMAIN store[n] : x # k => Put(store[n], k, b)[x] = store[n][x]
    BY DEF Put
  <2> QED
    BY <2>1, <2>2
<1>2. CASE InsertError(n, k)
  BY <1>2 DEF InsertError, TypeOK
<1> QED
  BY <1>1, <1>2

\* Every step but a put and the work of a mirror leaves mirrors and first results alone.
LEMMA FirstStep ==
    ASSUME TypeOK, FirstInv, FirstResultRecorded, [Next]_vars
    PROVE  FirstInv' /\ FirstResultRecorded'
<1> USE DEF mirrorVars
<1>0. /\ \A n \in Node : \A k \in witnessed[n] : Recorded(n, k)
      /\ \A n \in Node : events[n] \in Seq(Event)
  BY RecordedIs DEF TypeOK
<1>1. ASSUME \A n \in Node : \A k \in witnessed'[n] : Recorded(n, k)' PROVE FirstResultRecorded'
  BY <1>1 DEF FirstResultRecorded, Recorded, NextOf
<1>2. CASE /\ DOMAIN results' \subseteq DOMAIN results
           /\ UNCHANGED <<pc, rows, events, store, witnessed, first>>
  BY <1>2 DEF FirstInv, FirstResultRecorded, Watching
<1>3. ASSUME NEW k \in Key, Age(k) PROVE FirstInv' /\ FirstResultRecorded'
  <2>1. DOMAIN results' = DOMAIN results
    BY <1>3 DEF Age, TypeOK, IsKeySpace
  <2> QED
    BY <1>2, <1>3, <2>1 DEF Age
<1>4. ASSUME NEW k \in Key, NEW b \in Body, PutResult(k, b)
      PROVE  FirstInv' /\ FirstResultRecorded'
  <2> DEFINE ev == [key |-> k, body |-> b]
  <2>1. ev \in Event /\ ev.key = k
    BY DEF Event
  <2>2. /\ DOMAIN first' = DOMAIN first \cup {k}
        /\ \A x \in DOMAIN first : first'[x] = first[x]
        /\ k \notin DOMAIN first => first'[k] = b
    BY <1>4 DEF PutResult, Put
  <2>3. DOMAIN results' = DOMAIN results \cup {k} /\ UNCHANGED <<pc, rows, store>>
    BY <1>4 DEF PutResult, Put
  <2>4. ASSUME NEW n \in Node
        PROVE  /\ Watching(n)' = Watching(n)
               /\ events'[n] = IF Watching(n) THEN Append(events[n], ev) ELSE events[n]
               /\ witnessed'[n] = IF Watching(n) /\ k \notin DOMAIN first
                                  THEN witnessed[n] \cup {k} ELSE witnessed[n]
    BY <1>4 DEF PutResult, Watching
  <2> HIDE DEF ev
  <2>5. ASSUME NEW n \in Node, NEW i \in 1 .. Len(events'[n])
        PROVE  events'[n][i].key \in DOMAIN first'
    <3>1. CASE ~Watching(n)
      BY <2>2, <2>4, <2>5, <3>1 DEF FirstInv
    <3>2. CASE Watching(n)
      <4>1. events'[n] = Append(events[n], ev) /\ events[n] \in Seq(Event)
        BY <1>0, <2>4, <3>2
      <4>2. \/ i \in 1 .. Len(events[n]) /\ events'[n][i] = events[n][i]
            \/ events'[n][i] = ev
        BY <2>1, <2>5, <4>1
      <4> QED
        BY <2>1, <2>2, <4>2 DEF FirstInv
    <3> QED
      BY <3>1, <3>2
  <2>6. FirstInv'
    <3>1. \A x \in DOMAIN results' : x \in DOMAIN first'
      BY <2>2, <2>3 DEF FirstInv
    <3>2. ASSUME NEW n \in Node
          PROVE  /\ \A x \in DOMAIN store'[n] \cup DOMAIN rows'[n] : x \in DOMAIN first'
                 /\ witnessed'[n] \subseteq DOMAIN first'
                 /\ ~Watching(n)' => witnessed'[n] \subseteq DOMAIN store'[n]
                 /\ \A x \in DOMAIN rows'[n] \cap witnessed'[n] : x \in DOMAIN store'[n]
      <4>1. /\ \A x \in DOMAIN store[n] \cup DOMAIN rows[n] : x \in DOMAIN first
            /\ witnessed[n] \subseteq DOMAIN first
            /\ ~Watching(n) => witnessed[n] \subseteq DOMAIN store[n]
            /\ \A x \in DOMAIN rows[n] \cap witnessed[n] : x \in DOMAIN store[n]
        BY DEF FirstInv
      <4>2. CASE Watching(n) /\ k \notin DOMAIN first
        <5>1. witnessed'[n] = witnessed[n] \cup {k} /\ Watching(n)'
          BY <2>4, <4>2
        <5> QED
          BY <2>2, <2>3, <4>1, <4>2, <5>1
      <4>3. CASE ~(Watching(n) /\ k \notin DOMAIN first)
        <5>1. witnessed'[n] = witnessed[n] /\ Watching(n)' = Watching(n)
          BY <2>4, <4>3
        <5> QED
          BY <2>2, <2>3, <4>1, <5>1
      <4> QED
        BY <4>2, <4>3
    <3> QED
      BY <2>5, <3>1, <3>2 DEF FirstInv
  <2>7. ASSUME NEW n \in Node, NEW x \in witnessed'[n] PROVE Recorded(n, x)'
    <3>1. CASE x \in witnessed[n]
      <4>1. Recorded(n, x) /\ x \in DOMAIN first /\ first'[x] = first[x]
        BY <1>0, <2>2, <3>1 DEF FirstInv
      <4>2. NextOf(events[n], x, first[x]) => NextOf(events'[n], x, first[x])
        <5>1. CASE Watching(n)
          <6>1. events'[n] = Append(events[n], ev) /\ events[n] \in Seq(Event)
            BY <1>0, <2>4, <5>1
          <6> QED
            BY <2>1, <6>1, NextAppend
        <5>2. CASE ~Watching(n)
          BY <2>4, <5>2
        <5> QED
          BY <5>1, <5>2
      <4>3. CASE x \in DOMAIN store[n]
        BY <2>3, <4>1, <4>3 DEF Recorded
      <4>4. CASE x \notin DOMAIN store[n]
        <5>1. NextOf(events'[n], x, first'[x]) /\ x \notin DOMAIN store'[n]
          BY <2>3, <4>1, <4>2, <4>4 DEF Recorded
        <5> QED
          BY <5>1 DEF Recorded, NextOf
      <4> QED
        BY <4>3, <4>4
    <3>2. CASE x \notin witnessed[n]
      <4>1. x = k /\ Watching(n) /\ k \notin DOMAIN first
        BY <2>4, <2>7, <3>2
      <4>2. k \notin DOMAIN store[n] /\ \A j \in 1 .. Len(events[n]) : events[n][j].key # k
        BY <4>1 DEF FirstInv
      <4>3. NextOf(Append(events[n], ev), k, b)
        BY <1>0, <4>2, NextNew DEF ev
      <4>4. first'[k] = b /\ events'[n] = Append(events[n], ev)
        BY <2>2, <2>4, <4>1
      <4>5. NextOf(events'[n], x, first'[x]) /\ x \notin DOMAIN store'[n]
        BY <2>3, <4>1, <4>2, <4>3, <4>4
      <4> QED
        BY <4>5 DEF Recorded, NextOf
    <3> QED
      BY <3>1, <3>2
  <2> QED
    BY <1>1, <2>6, <2>7
<1>5. ASSUME NEW n \in Node, Get(n) PROVE FirstInv' /\ FirstResultRecorded'
  <2>1. /\ rows'[n] = results /\ Len(events'[n]) = 0 /\ pc'[n] = "load"
        /\ UNCHANGED <<results, store, first, witnessed>>
        /\ \A m \in Node : m # n => /\ pc'[m] = pc[m] /\ rows'[m] = rows[m]
                                    /\ events'[m] = events[m]
    BY <1>5 DEF Get, TypeOK
  <2>2. witnessed[n] \subseteq DOMAIN store[n]
    BY <1>5 DEF Get, Watching, FirstInv
  <2>3. FirstInv'
    BY <2>1, <2>2 DEF FirstInv, Watching
  <2>4. ASSUME NEW m \in Node, NEW k \in witnessed'[m] PROVE Recorded(m, k)'
    <3>1. Recorded(m, k)
      BY <1>0, <2>1, <2>4
    <3>2. CASE m = n
      BY <2>1, <2>2, <2>4, <3>1, <3>2 DEF Recorded
    <3>3. CASE m # n
      BY <2>1, <3>1, <3>3 DEF Recorded, NextOf
    <3> QED
      BY <3>2, <3>3
  <2> QED
    BY <1>1, <2>3, <2>4
<1>6. ASSUME NEW n \in Node, NEW k \in DOMAIN rows[n], LoadRow(n, k)
      PROVE  FirstInv' /\ FirstResultRecorded'
  <2>1. k \in Key /\ rows[n][k].body \in Body
    BY DEF TypeOK, IsKeySpace, Entry
  <2>2. /\ \A m \in Node : m # n => store'[m] = store[m] /\ witnessed'[m] = witnessed[m]
        /\ witnessed'[n] \subseteq witnessed[n]
        /\ \A x \in DOMAIN store[n] : x \in DOMAIN store'[n] /\ store'[n][x] = store[n][x]
        /\ \A x \in DOMAIN store'[n] : x \in DOMAIN store[n] \/ x = k
    BY <1>6, <2>1, InsertRecords DEF LoadRow
  <2>3. /\ UNCHANGED <<results, pc, events, first>>
        /\ rows'[n] = Delete(rows[n], {k})
        /\ \A m \in Node : m # n => rows'[m] = rows[m]
    BY <1>6 DEF LoadRow, TypeOK
  <2>4. DOMAIN rows'[n] = DOMAIN rows[n] \ {k} /\ k \in DOMAIN first
    BY <2>3 DEF Delete, FirstInv
  <2>5. ASSUME NEW m \in Node
        PROVE  /\ \A x \in DOMAIN store'[m] \cup DOMAIN rows'[m] : x \in DOMAIN first
               /\ witnessed'[m] \subseteq DOMAIN first
               /\ ~Watching(m) => witnessed'[m] \subseteq DOMAIN store'[m]
               /\ \A x \in DOMAIN rows'[m] \cap witnessed'[m] : x \in DOMAIN store'[m]
    BY <2>2, <2>3, <2>4 DEF FirstInv
  <2>6. FirstInv'
    BY <2>3, <2>5 DEF FirstInv, Watching
  <2>7. ASSUME NEW m \in Node, NEW x \in witnessed'[m] PROVE Recorded(m, x)'
    <3>1. Recorded(m, x) /\ x \in witnessed[m]
      BY <1>0, <2>2, <2>7
    <3>2. x = k /\ m = n => x \in DOMAIN store[n]
      BY <3>1 DEF FirstInv
    <3> QED
      BY <2>2, <2>3, <3>1, <3>2 DEF Recorded, NextOf
  <2> QED
    BY <1>1, <2>6, <2>7
<1>7. ASSUME NEW n \in Node, Deliver(n) PROVE FirstInv' /\ FirstResultRecorded'
  <2> DEFINE k == Head(events[n]).key
             b == Head(events[n]).body
  <2>1. events[n] \in Seq(Event) /\ events[n] # <<>>
    BY <1>7 DEF Deliver, TypeOK
  <2>2. k \in Key /\ b \in Body /\ k \in DOMAIN first
    <3>1. Head(events[n]) \in Event /\ Head(events[n]) = events[n][1] /\ 1 \in 1 .. Len(events[n])
      BY <2>1
    <3> QED
      BY <3>1 DEF Event, FirstInv
  <2>3. /\ \A m \in Node : m # n => store'[m] = store[m] /\ witnessed'[m] = witnessed[m]
        /\ witnessed'[n] \subseteq witnessed[n]
        /\ \A x \in DOMAIN store[n] : x \in DOMAIN store'[n] /\ store'[n][x] = store[n][x]
        /\ \A x \in DOMAIN store'[n] : x \in DOMAIN store[n] \/ x = k
        /\ k \in witnessed'[n] => k \in DOMAIN store'[n]
        /\ k \in DOMAIN store'[n] \ DOMAIN store[n] => store'[n][k] = b
    BY <1>7, <2>2, InsertRecords DEF Deliver
  <2>4. /\ UNCHANGED <<results, pc, rows, first>>
        /\ events'[n] = Tail(events[n])
        /\ \A m \in Node : m # n => events'[m] = events[m]
    BY <1>7 DEF Deliver, TypeOK
  <2>5. ASSUME NEW i \in 1 .. Len(Tail(events[n]))
        PROVE  Tail(events[n])[i].key \in DOMAIN first
    <3>1. i + 1 \in 1 .. Len(events[n]) /\ Tail(events[n])[i] = events[n][i + 1]
      BY <2>1
    <3> QED
      BY <3>1 DEF FirstInv
  <2>6. ASSUME NEW m \in Node
        PROVE  /\ \A x \in DOMAIN store'[m] \cup DOMAIN rows[m] : x \in DOMAIN first
               /\ \A i \in 1 .. Len(events'[m]) : events'[m][i].key \in DOMAIN first
               /\ witnessed'[m] \subseteq DOMAIN first
               /\ ~Watching(m) => witnessed'[m] \subseteq DOMAIN store'[m]
               /\ \A x \in DOMAIN rows[m] \cap witnessed'[m] : x \in DOMAIN store'[m]
    <3> HIDE DEF k, b
    <3>1. CASE m = n
      BY <2>2, <2>3, <2>4, <2>5, <3>1 DEF FirstInv
    <3>2. CASE m # n
      BY <2>3, <2>4, <3>2 DEF FirstInv
    <3> QED
      BY <3>1, <3>2
  <2>7. FirstInv'
    BY <2>4, <2>6 DEF FirstInv, Watching
  <2>8. ASSUME NEW m \in Node, NEW x \in witnessed'[m] PROVE Recorded(m, x)'
    <3>1. Recorded(m, x)
      BY <1>0, <2>3, <2>8
    <3>2. CASE m # n
      BY <2>3, <2>4, <3>1, <3>2 DEF Recorded, NextOf
    <3>3. CASE m = n /\ x \in DOMAIN store[n]
      BY <2>3, <2>4, <3>1, <3>3 DEF Recorded
    <3>4. CASE m = n /\ x \notin DOMAIN store[n]
      <4>1. IF k = x THEN b = first[x] ELSE NextOf(Tail(events[n]), x, first[x])
        BY <2>1, <3>1, <3>4, NextTail DEF Recorded
      <4>2. CASE k = x
        <5>1. x \in DOMAIN store'[n] /\ store'[n][x] = first'[x]
          BY <2>3, <2>4, <2>8, <3>4, <4>1, <4>2
        <5> QED
          BY <3>4, <5>1 DEF Recorded
      <4>3. CASE k # x
        <5>1. x \notin DOMAIN store'[n] /\ NextOf(events'[n], x, first'[x])
          BY <2>3, <2>4, <3>4, <4>1, <4>3
        <5> QED
          BY <3>4, <5>1 DEF Recorded, NextOf
      <4> QED
        BY <4>2, <4>3
    <3> QED
      BY <3>2, <3>3, <3>4
  <2> QED
    BY <1>1, <2>7, <2>8
<1>8. ASSUME NEW n \in Node, OpenWatch(n) \/ Start(n) PROVE FirstInv' /\ FirstResultRecorded'
  <2>1. UNCHANGED <<results, rows, events, store, first, witnessed>>
    BY <1>8 DEF OpenWatch, Start
  <2>2. \A m \in Node : Watching(m)' = Watching(m)
    BY <1>8 DEF OpenWatch, Start, Watching, TypeOK
  <2> QED
    BY <2>1, <2>2 DEF FirstInv, FirstResultRecorded
<1>9. ASSUME NEW n \in Node, WatchLost(n) \/ Crash(n) PROVE FirstInv' /\ FirstResultRecorded'
  <2>1. /\ DOMAIN rows'[n] = {} /\ Len(events'[n]) = 0
        /\ witnessed'[n] = witnessed[n] \cap DOMAIN store[n]
        /\ \A m \in Node : m # n => /\ pc'[m] = pc[m] /\ rows'[m] = rows[m]
                                    /\ events'[m] = events[m] /\ witnessed'[m] = witnessed[m]
        /\ UNCHANGED <<results, store, first>>
    BY <1>9 DEF WatchLost, Crash, Interrupt, NoKeys, TypeOK
  <2>2. FirstInv'
    BY <2>1 DEF FirstInv, Watching
  <2>3. ASSUME NEW m \in Node, NEW k \in witnessed'[m] PROVE Recorded(m, k)'
    <3>1. Recorded(m, k)
      BY <1>0, <2>1, <2>3
    <3> QED
      BY <2>1, <2>3, <3>1 DEF Recorded, NextOf
  <2> QED
    BY <1>1, <2>2, <2>3
<1>10. ASSUME NEW n \in Node, GCScan(n) \/ GCDelete(n) \/ GCError(n)
       PROVE  FirstInv' /\ FirstResultRecorded'
  <2>1. DOMAIN results' \subseteq DOMAIN results
    BY <1>10 DEF GCScan, GCDelete, GCError, DeleteBatch, Delete
  <2> QED
    BY <1>2, <1>10, <2>1 DEF GCScan, GCDelete, GCError
<1>11. CASE UNCHANGED vars
  BY <1>2, <1>11 DEF vars
<1> QED
  BY <1>3, <1>4, <1>5, <1>6, <1>7, <1>8, <1>9, <1>10, <1>11 DEF Next, MirrorStep

\* For any number of nodes, however often results are put again, collected unread or
\* refused and mirrors are interrupted: a mirror that watches when the first result of
\* a run is put has it, or that result is the next of the run it will be told
\* (FirstResultRecorded).
THEOREM FirstResultsAreRecorded == Spec => []FirstResultRecorded
<1>1. Init => FirstInv /\ FirstResultRecorded
  <2> SUFFICES ASSUME Init PROVE FirstInv /\ FirstResultRecorded
    OBVIOUS
  <2>1. \A n \in Node : /\ DOMAIN store[n] = {} /\ DOMAIN rows[n] = {}
                        /\ Len(events[n]) = 0 /\ witnessed[n] = {}
    BY DEF Init, NoKeys
  <2>2. DOMAIN results = {}
    BY DEF Init, NoKeys
  <2> QED
    BY <2>1, <2>2 DEF FirstInv, FirstResultRecorded
<1>2. TypeOK /\ FirstInv /\ FirstResultRecorded /\ [Next]_vars
      => FirstInv' /\ FirstResultRecorded'
  BY FirstStep
<1> QED
  BY <1>1, <1>2, HistoryTypeCorrect, PTL DEF Spec

\* Two nodes that both watched when a run had its first result tell the same story of
\* it, overwritten or not: the condition under which StoresAgree can be relied on.
WitnessesAgree ==
    \A m, n \in Node : \A k \in witnessed[m] \cap witnessed[n] :
        k \in DOMAIN store[m] \cap DOMAIN store[n] => store[m][k] = store[n][k]

\* The stores of any two nodes agree on the runs whose first result both were watching
\* for, whatever is put again, collected, refused or interrupted (WitnessesAgree).
THEOREM WatchingStoresAgree == Spec => []WitnessesAgree
<1>1. FirstResultRecorded => WitnessesAgree
  BY DEF FirstResultRecorded, WitnessesAgree
<1> QED
  BY <1>1, FirstResultsAreRecorded, PTL
=============================================================================
