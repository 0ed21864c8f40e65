-------------------------- MODULE WorkQueueProofs --------------------------
(***************************************************************************)
(* Proofs about the thread pool's queue for any number of workers,         *)
(* connections and heap blocks.  Mutual exclusion needs of the types only  *)
(* those of the mutex and of the two program counters.  For the list, the  *)
(* invariant names the nodes it links as a sequence; what following the    *)
(* links visits is derived from that sequence, once.                       *)
(***************************************************************************)
EXTENDS WorkQueue, FiniteSetTheorems, TLAPS

LockType ==
    /\ mutex \in Workers \cup {Main, Nobody}
    /\ mpc \in {"accept", "lock", "link", "signal", "unlock"}
    /\ wpc \in [Workers -> {"lock", "test", "wait", "take", "unlock", "free", "serve"}]

LockInv == LockType /\ MutualExclusion

\* Nobody holds the mutex when the threads start.
LEMMA LockInit == Init => LockInv
BY WorkQueueAssumption DEF Init, LockInv, LockType, MutualExclusion

\* The main thread takes the mutex only when it is free, and gives back its own.
LEMMA MainLock ==
    ASSUME LockInv, MainNext
    PROVE  LockInv'
<1> USE WorkQueueAssumption DEF LockInv, LockType, MutualExclusion
<1>1. CASE PushAlloc \/ PushNoMemory
  BY <1>1 DEF PushAlloc, PushNoMemory, workerVars
<1>2. CASE PushLock
  BY <1>2 DEF PushLock, workerVars
<1>3. CASE PushLink \/ PushSignal
  BY <1>3 DEF PushLink, PushSignal, workerVars
<1>4. CASE PushUnlock
  BY <1>4 DEF PushUnlock, workerVars
<1> QED
  BY <1>1, <1>2, <1>3, <1>4 DEF MainNext

\* So does a worker; pthread_cond_wait() gives it back and takes it again.
LEMMA WorkerLock ==
    ASSUME LockInv, NEW w \in Workers, WorkerNext(w) \/ SpuriousWakeup(w)
    PROVE  LockInv'
<1> USE WorkQueueAssumption DEF LockInv, LockType, MutualExclusion
<1>1. CASE PopLock(w)
  BY <1>1 DEF PopLock, mainVars
<1>2. CASE PopTest(w)
  BY <1>2 DEF PopTest, mainVars
<1>3. CASE PopRelock(w)
  BY <1>3 DEF PopRelock, mainVars
<1>4. CASE PopTake(w)
  BY <1>4 DEF PopTake, mainVars
<1>5. CASE PopUnlock(w)
  BY <1>5 DEF PopUnlock, mainVars
<1>6. CASE PopFree(w) \/ ServeDone(w)
  BY <1>6 DEF PopFree, ServeDone, mainVars
<1>7. CASE SpuriousWakeup(w)
  BY <1>7 DEF SpuriousWakeup, mainVars, workerVars
<1> QED
  BY <1>1, <1>2, <1>3, <1>4, <1>5, <1>6, <1>7 DEF WorkerNext

\* One thread at a time is between lock and unlock, with any number of workers,
\* spurious wake-ups and signals.
THEOREM MutualExclusionCorrect == Spec => []MutualExclusion
<1>1. LockInv /\ [Next]_vars => LockInv'
  <2> SUFFICES ASSUME LockInv, [Next]_vars
               PROVE  LockInv'
    OBVIOUS
  <2>1. CASE UNCHANGED vars
    BY <2>1 DEF LockInv, LockType, MutualExclusion, vars
  <2> QED
    BY <2>1, MainLock, WorkerLock DEF Next
<1>2. LockInv => MutualExclusion
  BY DEF LockInv
<1> QED
  BY <1>1, <1>2, LockInit, PTL DEF Spec

----------------------------------------------------------------------------
(* The list as a sequence.  Next fields are followed one by one, by a recursive *)
(* function; what it visits is proved from a sequence of nodes that are linked. *)

\* Induction up to n, from the fact that no finite set has an injection into
\* itself that misses an element: adding one would be such an injection.
LEMMA Induct ==
    ASSUME NEW n \in Nat, NEW S, 0 \in S,
           \A k \in 0 .. n - 1 : k \in S => k + 1 \in S
    PROVE  \A k \in 0 .. n : k \in S
<1> SUFFICES ASSUME NEW m \in 0 .. n, m \notin S
             PROVE  FALSE
  OBVIOUS
<1> DEFINE T == S \cap (0 .. m)
           f == [k \in T |-> k + 1]
<1>1. \A k \in T : k + 1 \in T
  OBVIOUS
<1>2. f \in [T -> T]
  BY <1>1
<1>3. \A j, k \in T : f[j] = f[k] => j = k
  OBVIOUS
<1>4. IsFiniteSet(T)
  <2>1. IsFiniteSet(0 .. m)
    BY FS_Interval
  <2>2. T \in SUBSET (0 .. m)
    OBVIOUS
  <2> HIDE DEF T
  <2> QED
    BY <2>1, <2>2, FS_Subset
<1>5. f \in Injection(T, T)
  BY <1>2, <1>3 DEF Injection, IsInjective
<1>6. f \in Surjection(T, T)
  <2> HIDE DEF T, f
  <2> QED
    BY <1>4, <1>5, FS_Injection
<1>7. 0 \in T
  OBVIOUS
<1>8. PICK k \in T : f[k] = 0
  BY <1>6, <1>7 DEF Surjection
<1> QED
  BY <1>8

\* The list with head h and tail t consists of the n nodes of s, in this order.
Chain(h, t, nd, n, s) ==
    /\ \A j, k \in 1 .. n : s[j] = s[k] => j = k
    /\ n = 0 => h = NULL /\ t = NULL
    /\ n > 0 => h = s[1] /\ t = s[n] /\ nd[s[n]].next = NULL
    /\ \A k \in 1 .. n - 1 : nd[s[k]].next = s[k + 1]

\* A list is no longer than there are blocks.
LEMMA ChainBound ==
    ASSUME NEW n \in Nat, NEW s \in [1 .. n -> Nodes],
           \A j, k \in 1 .. n : s[j] = s[k] => j = k
    PROVE  Cardinality(Nodes) \in Nat /\ n <= Cardinality(Nodes)
<1>1. s \in Injection(1 .. n, Nodes)
  BY DEF Injection, IsInjective
<1>2. IsFiniteSet(1 .. n) /\ Cardinality(1 .. n) = n
  BY FS_Interval
<1> QED
  BY <1>1, <1>2, FS_Injection, FS_CardinalityType, WorkQueueAssumption

\* Following the links from the head visits the nodes of the list, then NULL.
LEMMA HopsFacts ==
    ASSUME NEW h, NEW t, NEW nd, NEW n \in Nat, NEW s \in [1 .. n -> Nodes],
           Chain(h, t, nd, n, s)
    PROVE  \A k \in 0 .. Cardinality(Nodes) :
              Hops(h, nd)[k] = IF k < n THEN s[k + 1] ELSE NULL
<1> DEFINE N == Cardinality(Nodes)
           G == [k \in 0 .. N |-> IF k < n THEN s[k + 1] ELSE NULL]
           H == Hops(h, nd)
<1>1. N \in Nat /\ n <= N
  BY ChainBound DEF Chain
<1>2. NULL \notin Nodes
  BY WorkQueueAssumption DEF NULL
<1>3. G = [k \in 0 .. N |->
              IF k = 0 THEN h
              ELSE IF G[k - 1] \in Nodes THEN nd[G[k - 1]].next ELSE G[k - 1]]
  <2> SUFFICES ASSUME NEW k \in 0 .. N
               PROVE  G[k] = IF k = 0 THEN h
                             ELSE IF G[k - 1] \in Nodes THEN nd[G[k - 1]].next
                                  ELSE G[k - 1]
    OBVIOUS
  <2> HIDE DEF N
  <2>1. CASE k = 0
    BY <1>1, <2>1 DEF Chain
  <2>2. CASE k > 0 /\ k - 1 < n
    <3>1. G[k - 1] = s[k] /\ s[k] \in Nodes
      BY <1>1, <2>2
    <3>2. G[k] = nd[s[k]].next
      BY <1>1, <2>2 DEF Chain
    <3> QED
      BY <3>1, <3>2, <2>2
  <2>3. CASE k > 0 /\ k - 1 >= n
    <3>1. G[k - 1] = NULL /\ G[k] = NULL
      BY <1>1, <2>3
    <3> QED
      BY <3>1, <2>3, <1>2
  <2> QED
    BY <2>1, <2>2, <2>3, <1>1
<1>4. H = [k \in 0 .. N |->
              IF k = 0 THEN h
              ELSE IF H[k - 1] \in Nodes THEN nd[H[k - 1]].next ELSE H[k - 1]]
  <2> HIDE DEF G
  <2> QED
    BY <1>3 DEF Hops
<1> DEFINE S == {k \in 0 .. N : H[k] = G[k]}
<1> HIDE DEF H, G
<1>5. 0 \in S
  BY <1>1, <1>3, <1>4
<1>6. \A k \in 0 .. N - 1 : k \in S => k + 1 \in S
  <2> SUFFICES ASSUME NEW k \in 0 .. N - 1, H[k] = G[k]
               PROVE  H[k + 1] = G[k + 1]
    BY <1>1
  <2> HIDE DEF N
  <2>1. k + 1 \in 0 .. N /\ k + 1 # 0 /\ (k + 1) - 1 = k
    BY <1>1
  <2>2. H[k + 1] = IF H[k] \in Nodes THEN nd[H[k]].next ELSE H[k]
    BY <1>4, <2>1
  <2>3. G[k + 1] = IF G[k] \in Nodes THEN nd[G[k]].next ELSE G[k]
    BY <1>3, <2>1
  <2> QED
    BY <2>2, <2>3
<1>7. \A k \in 0 .. N : k \in S
  <2> HIDE DEF S, N
  <2> QED
    BY <1>1, <1>5, <1>6, Induct
<1>8. \A k \in 0 .. N : H[k] = G[k]
  BY <1>7
<1> QED
  BY <1>8 DEF G, H

\* Linked, for any head and nodes.
LinkedOf(h, nd) == {k \in 0 .. (Cardinality(Nodes) - 1) : Hops(h, nd)[k] \in Nodes}

\* What ListFacts says of a list whose links are those of s.
Follows(h, nd, n, s) ==
    /\ Cardinality(LinkedOf(h, nd)) = n
    /\ {Hops(h, nd)[k] : k \in LinkedOf(h, nd)} = {s[k] : k \in 1 .. n}
    /\ Hops(h, nd)[n] = NULL
    /\ \A k \in 1 .. n : Hops(h, nd)[k - 1] = s[k]

\* So the positions, the nodes and the end are those of the sequence.
LEMMA ListFacts ==
    ASSUME NEW h, NEW t, NEW nd, NEW n \in Nat, NEW s \in [1 .. n -> Nodes],
           Chain(h, t, nd, n, s)
    PROVE  Follows(h, nd, n, s)
<1> DEFINE N == Cardinality(Nodes)
           H == Hops(h, nd)
           L == {k \in 0 .. N - 1 : H[k] \in Nodes}
<1>1. N \in Nat /\ n <= N
  BY ChainBound DEF Chain
<1>2. NULL \notin Nodes
  BY WorkQueueAssumption DEF NULL
<1>3. \A k \in 0 .. N : H[k] = IF k < n THEN s[k + 1] ELSE NULL
  BY HopsFacts
<1> HIDE DEF N, H
<1>4. L = 0 .. n - 1
  BY <1>1, <1>2, <1>3
<1>5. Cardinality(0 .. n - 1) = n
  BY FS_Interval
<1>6. H[n] = NULL
  BY <1>1, <1>3
<1>7. \A k \in 1 .. n : H[k - 1] = s[k]
  BY <1>1, <1>3
<1>8. {H[k] : k \in 0 .. n - 1} = {s[k] : k \in 1 .. n}
  <2>1. ASSUME NEW k \in 0 .. n - 1
        PROVE  k + 1 \in 1 .. n /\ H[k] = s[k + 1]
    BY <1>1, <1>3
  <2>2. ASSUME NEW k \in 1 .. n
        PROVE  k - 1 \in 0 .. n - 1
    OBVIOUS
  <2> QED
    BY <2>1, <2>2, <1>7
<1> QED
  BY <1>4, <1>5, <1>6, <1>7, <1>8 DEF N, H, LinkedOf, Follows

----------------------------------------------------------------------------
(* The invariant of the list. *)

\* Where a thread is says whether it has a node or a connection, and what is
\* asleep is in pthread_cond_wait().
Places ==
    /\ mpc = "accept" <=> mnode = NULL
    /\ mnode # NULL => node[mnode].live
    /\ mpc \in {"lock", "link"} => node[mnode].next = NULL
    /\ \A w \in Workers :
          /\ wpc[w] \in {"unlock", "free"} <=> wnode[w] # NULL
          /\ wpc[w] = "serve" <=> wfd[w] # None
          /\ wpc[w] = "take" => head # NULL
          /\ w \in sleepers => wpc[w] = "wait"
          /\ wnode[w] # NULL => node[wnode[w]].live /\ wnode[w] # mnode
    /\ \A v, w \in Workers : wnode[v] = wnode[w] /\ v # w => wnode[v] = NULL
    /\ \A m \in Nodes : node[m].live => node[m].fd \in Items

\* The nodes s of the list are live and belong to nobody, but for the one the
\* main thread has just put at its end; and every live node is somewhere.
Held(n, s) ==
    /\ \A k \in 1 .. n : node[s[k]].live
    /\ \A k \in 1 .. n, w \in Workers : s[k] # wnode[w]
    /\ mpc \in {"lock", "link"} => \A k \in 1 .. n : s[k] # mnode
    /\ mpc \in {"signal", "unlock"} => n > 0 /\ mnode = s[n]
    /\ \A m \in Nodes :
          node[m].live => m = mnode \/ (\E w \in Workers : wnode[w] = m)
                          \/ (\E k \in 1 .. n : s[k] = m)

\* While a worker sleeps, enough others are awake for a list of n nodes.
Woken(n) ==
    sleepers # {} => n <= Cardinality(Awake) + (IF mpc = "signal" THEN 1 ELSE 0)

ListIs(n, s) == Chain(head, tail, node, n, s) /\ Held(n, s) /\ Woken(n)

ListInv ==
    /\ TypeOK /\ MutualExclusion /\ Places
    /\ \E n \in Nat : \E s \in [1 .. n -> Nodes] : ListIs(n, s)

\* The list starts empty.
LEMMA ListInit == Init => ListInv
<1> SUFFICES ASSUME Init
             PROVE  ListInv
  OBVIOUS
<1>1. TypeOK /\ Places
  BY WorkQueueAssumption DEF Init, TypeOK, Places, NULL, Garbage, None, Items, Freed
<1>2. MutualExclusion
  BY LockInit DEF LockInv
<1> DEFINE s == [k \in 1 .. 0 |-> k]
<1>3. s \in [1 .. 0 -> Nodes]
  OBVIOUS
<1>4. ListIs(0, s)
  BY DEF Init, ListIs, Chain, Held, Woken, NULL, Freed
<1> QED
  BY <1>1, <1>2, <1>3, <1>4 DEF ListInv

\* The number awake is a number, and it follows the threads going in and out.
LEMMA AwakeFinite == Cardinality(Awake) \in Nat /\ IsFiniteSet(Awake)
BY FS_Subset, FS_CardinalityType, WorkQueueAssumption DEF Awake

\* Threads that only move on, or wake up, leave enough awake.
LEMMA AwakeGrows ==
    ASSUME Awake \subseteq Awake'
    PROVE  Cardinality(Awake) <= Cardinality(Awake')
<1>1. IsFiniteSet(Awake')
  BY FS_Subset, WorkQueueAssumption DEF Awake
<1> QED
  BY <1>1, FS_Subset

\* What the actions that leave the list and the nodes alone keep.
LEMMA SameList ==
    ASSUME NEW n \in Nat, NEW s \in [1 .. n -> Nodes], ListIs(n, s), Places,
           UNCHANGED <<head, tail, node, wnode>>,
           \/ mnode' = mnode /\ (mpc' = mpc \/ (mpc = "lock" /\ mpc' = "link")
                                            \/ (mpc = "signal" /\ mpc' = "unlock"))
           \/ mpc = "unlock" /\ mpc' = "accept" /\ mnode' = NULL,
           Woken(n)'
    PROVE  ListIs(n, s)'
<1>1. Chain(head, tail, node, n, s)'
  BY DEF ListIs, Chain
<1>2. Held(n, s)'
  <2>1. CASE mnode' = mnode
    BY <2>1 DEF ListIs, Held, Places
  <2>2. CASE mpc = "unlock" /\ mpc' = "accept" /\ mnode' = NULL
    BY <2>2 DEF ListIs, Held, Places
  <2> QED
    BY <2>1, <2>2
<1> QED
  BY <1>1, <1>2 DEF ListIs

\* accept() returns a connection, and malloc() a block nobody has.
LEMMA PushAllocList == ListInv /\ PushAlloc => ListInv'
<1> SUFFICES ASSUME ListInv, PushAlloc
             PROVE  ListInv'
  OBVIOUS
<1>1. PICK n \in Nat : \E s \in [1 .. n -> Nodes] : ListIs(n, s)
  BY DEF ListInv
<1>2. PICK s \in [1 .. n -> Nodes] : ListIs(n, s)
  BY <1>1
<1>3. PICK m \in Nodes : /\ Allocated(m)
                         /\ node' = [node EXCEPT ![m] = [live |-> TRUE, fd |-> pushed + 1,
                                                         next |-> NULL]]
                         /\ mnode' = m
  BY DEF PushAlloc
<1>4. ~node[m].live
  BY <1>3 DEF Allocated
<1>5. /\ mpc = "accept" /\ mpc' = "lock" /\ pushed < MaxPush /\ pushed' = pushed + 1
      /\ mnode = NULL /\ UNCHANGED <<mutex, sleepers, head, tail, wpc, wnode, wfd>>
  BY DEF PushAlloc, ListInv, Places, workerVars
<1>6. /\ node'[m].live /\ node'[m].fd = pushed + 1 /\ node'[m].next = NULL
      /\ \A q \in Nodes \ {m} : node'[q] = node[q]
  BY <1>3 DEF ListInv, TypeOK
<1>7. m # NULL /\ pushed + 1 \in Items
  BY <1>5, WorkQueueAssumption DEF NULL, Items, ListInv, TypeOK
<1>8. TypeOK'
  <2>1. node' \in [Nodes -> [live : BOOLEAN, fd : Items \cup {Garbage},
                             next : Nodes \cup {NULL, Garbage}]]
    BY <1>3, <1>7 DEF ListInv, TypeOK
  <2> QED
    BY <2>1, <1>3, <1>5, WorkQueueAssumption DEF ListInv, TypeOK
<1>9. MutualExclusion'
  BY <1>5 DEF ListInv, MutualExclusion
<1>10. \A w \in Workers : wnode[w] \in Nodes \cup {NULL} /\ wnode[w] # m
  BY <1>4, <1>7 DEF ListInv, TypeOK, Places
<1>11. Places'
  BY <1>3, <1>4, <1>5, <1>6, <1>7, <1>10 DEF ListInv, Places
<1>12. \A k \in 1 .. n : s[k] \in Nodes \ {m}
  BY <1>2, <1>4 DEF ListIs, Held
<1>13. ListIs(n, s)'
  <2>1. Chain(head, tail, node, n, s)'
    BY <1>2, <1>5, <1>6, <1>12 DEF ListIs, Chain
  <2>2. Held(n, s)'
    <3>1. ASSUME NEW q \in Nodes, node'[q].live
          PROVE  q = m \/ (\E w \in Workers : wnode[w] = q) \/ (\E k \in 1 .. n : s[k] = q)
      <4>1. CASE q # m
        <5>1. node[q].live /\ q # mnode
          BY <3>1, <4>1, <1>5, <1>6, WorkQueueAssumption DEF NULL
        <5> QED
          BY <5>1, <1>2 DEF ListIs, Held
      <4> QED
        BY <4>1
    <3>2. \A k \in 1 .. n : node'[s[k]].live /\ s[k] # m
      BY <1>2, <1>6, <1>12 DEF ListIs, Held
    <3>3. \A k \in 1 .. n, w \in Workers : s[k] # wnode[w]
      BY <1>2 DEF ListIs, Held
    <3> QED
      BY <1>3, <1>5, <3>1, <3>2, <3>3 DEF Held
  <2>3. Woken(n)'
    BY <1>2, <1>5 DEF ListIs, Woken, Awake
  <2> QED
    BY <2>1, <2>2, <2>3 DEF ListIs
<1> QED
  BY <1>8, <1>9, <1>11, <1>13 DEF ListInv

\* Waiting for the mutex, signalling and giving the mutex back leave the list alone;
\* a signal is owed no longer once a sleeper, if there is one, has been woken.
LEMMA MainQuiet ==
    ASSUME ListInv, PushNoMemory \/ PushLock \/ PushSignal \/ PushUnlock
    PROVE  ListInv'
<1>1. PICK n \in Nat : \E s \in [1 .. n -> Nodes] : ListIs(n, s)
  BY DEF ListInv
<1>2. PICK s \in [1 .. n -> Nodes] : ListIs(n, s)
  BY <1>1
<1>3. MutualExclusion'
  <2>1. LockInv
    BY DEF LockInv, LockType, ListInv, TypeOK
  <2>2. LockInv'
    BY <2>1, MainLock DEF MainNext
  <2> QED
    BY <2>2 DEF LockInv
<1>4. UNCHANGED <<head, tail, node, wnode, wpc, wfd>>
  BY DEF PushNoMemory, PushLock, PushSignal, PushUnlock, workerVars
<1>5. \/ mnode' = mnode /\ (mpc' = mpc \/ (mpc = "lock" /\ mpc' = "link")
                                       \/ (mpc = "signal" /\ mpc' = "unlock"))
      \/ mpc = "unlock" /\ mpc' = "accept" /\ mnode' = NULL
  BY DEF PushNoMemory, PushLock, PushSignal, PushUnlock
<1>6. TypeOK'
  BY WorkQueueAssumption DEF PushNoMemory, PushLock, PushSignal, PushUnlock, ListInv, TypeOK,
     workerVars
<1>7. sleepers' \subseteq sleepers
  BY DEF PushNoMemory, PushLock, PushSignal, PushUnlock
<1>8. Places'
  BY <1>4, <1>5, <1>7 DEF Places, ListInv
<1>9. Woken(n)'
  <2>1. CASE PushNoMemory \/ PushLock \/ PushUnlock
    <3>1. sleepers' = sleepers /\ (mpc = "signal" <=> mpc' = "signal")
      BY <2>1 DEF PushNoMemory, PushLock, PushUnlock
    <3> QED
      BY <3>1, <1>2, <1>4 DEF ListIs, Woken, Awake
  <2>2. CASE PushSignal /\ sleepers = {}
    BY <2>2 DEF PushSignal, Woken
  <2>3. CASE PushSignal /\ sleepers # {}
    <3>1. PICK w \in sleepers : sleepers' = sleepers \ {w}
      BY <2>3 DEF PushSignal
    <3>2. w \in Workers /\ wpc[w] = "wait"
      BY <3>1 DEF ListInv, TypeOK, Places
    <3>3. Awake' = Awake \cup {w} /\ w \notin Awake
      BY <3>1, <3>2, <1>4 DEF Awake
    <3>4. Cardinality(Awake') = Cardinality(Awake) + 1
      <4>1. Cardinality(Awake \cup {w}) = Cardinality(Awake) + 1
        BY <3>3, AwakeFinite, FS_AddElement
      <4> QED
        BY <4>1, <3>3
    <3>5. mpc = "signal" /\ mpc' = "unlock"
      BY <2>3 DEF PushSignal
    <3> QED
      BY <3>1, <3>4, <3>5, <1>2, AwakeFinite DEF ListIs, Woken
  <2> QED
    BY <2>1, <2>2, <2>3
<1>10. ListIs(n, s)'
  BY <1>2, <1>4, <1>5, <1>9, SameList DEF ListInv
<1> QED
  BY <1>3, <1>6, <1>8, <1>10 DEF ListInv

\* Linking makes the list longer by one at its end.
LEMMA PushLinkList ==
    ASSUME ListInv, PushLink
    PROVE  /\ ListInv'
           /\ \E n \in Nat : \E s \in [1 .. n -> Nodes] : \E r \in [1 .. n + 1 -> Nodes] :
                 /\ ListIs(n, s) /\ ListIs(n + 1, r)'
                 /\ r[n + 1] = mnode /\ \A k \in 1 .. n : r[k] = s[k]
                 /\ \A q \in Nodes : node'[q].fd = node[q].fd
<1>1. PICK n \in Nat : \E s \in [1 .. n -> Nodes] : ListIs(n, s)
  BY DEF ListInv
<1>2. PICK s \in [1 .. n -> Nodes] : ListIs(n, s)
  BY <1>1
<1>3. /\ mpc = "link" /\ mpc' = "signal" /\ tail' = mnode
      /\ UNCHANGED <<mutex, sleepers, pushed, mnode, wpc, wnode, wfd>>
  BY DEF PushLink, workerVars
<1>4. mnode \in Nodes /\ node[mnode].live /\ node[mnode].next = NULL /\ mnode # NULL
  BY <1>3, WorkQueueAssumption DEF ListInv, TypeOK, Places, NULL
<1>5. NULL \notin Nodes
  BY WorkQueueAssumption DEF NULL
<1>6. n + 1 \in Nat
  OBVIOUS
<1>7. PICK r \in [1 .. n + 1 -> Nodes] :
         /\ r[n + 1] = mnode
         /\ \A k \in 1 .. n : r[k] = s[k] /\ s[k] \in Nodes
  <2> DEFINE r == [k \in 1 .. n + 1 |-> IF k <= n THEN s[k] ELSE mnode]
  <2>1. r \in [1 .. n + 1 -> Nodes]
    BY <1>4
  <2>2. r[n + 1] = mnode /\ \A k \in 1 .. n : r[k] = s[k] /\ s[k] \in Nodes
    OBVIOUS
  <2> QED
    BY <2>1, <2>2
<1>8. \A k \in 1 .. n : s[k] # mnode
  BY <1>2, <1>3 DEF ListIs, Held
\* Only the last node's next changes.
<1>9. /\ \A q \in Nodes : node'[q].live = node[q].live /\ node'[q].fd = node[q].fd
      /\ \A q \in Nodes : (n = 0 \/ q # s[n]) => node'[q].next = node[q].next
      /\ n = 0 => head' = mnode
      /\ n > 0 => head' = head /\ node'[s[n]].next = mnode
  <2>1. CASE n = 0
    <3>1. tail = NULL
      BY <2>1, <1>2 DEF ListIs, Chain
    <3> QED
      BY <2>1, <3>1 DEF PushLink
  <2>2. CASE n > 0
    <3>1. tail = s[n] /\ tail \in Nodes /\ tail # NULL
      BY <2>2, <1>2, <1>5 DEF ListIs, Chain
    <3>2. node' = [node EXCEPT ![tail].next = mnode] /\ head' = head
      BY <3>1 DEF PushLink
    <3> QED
      BY <2>2, <3>1, <3>2 DEF ListInv, TypeOK
  <2> QED
    BY <2>1, <2>2
<1>10. TypeOK'
  <2>1. node' \in [Nodes -> [live : BOOLEAN, fd : Items \cup {Garbage},
                             next : Nodes \cup {NULL, Garbage}]]
    <3>1. CASE tail = NULL
      BY <3>1 DEF PushLink, ListInv, TypeOK
    <3>2. CASE tail # NULL
      <4> DEFINE R == [live : BOOLEAN, fd : Items \cup {Garbage},
                       next : Nodes \cup {NULL, Garbage}]
      <4>1. node \in [Nodes -> R] /\ tail \in Nodes
        BY <3>2 DEF ListInv, TypeOK
      <4>2. node' = [node EXCEPT ![tail] = [node[tail] EXCEPT !.next = mnode]]
        BY <3>2, <4>1 DEF PushLink
      <4>3. [node[tail] EXCEPT !.next = mnode] \in R
        BY <4>1, <1>4
      <4> HIDE DEF R
      <4>4. node' \in [Nodes -> R]
        BY <4>1, <4>2, <4>3
      <4> QED
        BY <4>4 DEF R
    <3> QED
      BY <3>1, <3>2
  <2>2. head' \in Nodes \cup {NULL} /\ tail' \in Nodes \cup {NULL}
    BY <1>3, <1>4, <1>9, <1>6 DEF ListInv, TypeOK
  <2> QED
    BY <2>1, <2>2, <1>3 DEF ListInv, TypeOK
<1>11. MutualExclusion'
  BY <1>3 DEF ListInv, MutualExclusion
<1>12. \A w \in Workers : wnode[w] \in Nodes \cup {NULL}
  BY DEF ListInv, TypeOK
<1>13. Places'
  <2>1. \A w \in Workers : wpc[w] = "take" => head' # NULL
    BY <1>4, <1>6, <1>9 DEF ListInv, Places
  <2> QED
    BY <2>1, <1>3, <1>4, <1>9, <1>12 DEF ListInv, Places
<1>14. Chain(head, tail, node, n + 1, r)'
  <2>1. \A j, k \in 1 .. n + 1 : r[j] = r[k] => j = k
    <3>1. \A j, k \in 1 .. n : s[j] = s[k] => j = k
      BY <1>2 DEF ListIs, Chain
    <3> QED
      BY <3>1, <1>7, <1>8
  <2>2. head' = r[1]
    BY <1>2, <1>7, <1>9 DEF ListIs, Chain
  <2>3. tail' = r[n + 1] /\ node'[r[n + 1]].next = NULL
    BY <1>3, <1>4, <1>7, <1>8, <1>9
  <2>4. ASSUME NEW k \in 1 .. n
        PROVE  node'[r[k]].next = r[k + 1]
    <3>1. CASE k = n
      BY <3>1, <1>7, <1>9
    <3>2. CASE k < n
      <4>1. s[k] # s[n] /\ node[s[k]].next = s[k + 1]
        BY <3>2, <1>2 DEF ListIs, Chain
      <4> QED
        BY <4>1, <3>2, <1>7, <1>9
    <3> QED
      BY <3>1, <3>2
  <2>5. (n + 1) - 1 = n /\ n + 1 > 0 /\ n + 1 # 0
    OBVIOUS
  <2>6. \A k \in 1 .. (n + 1) - 1 : node'[r[k]].next = r[k + 1]
    BY <2>4, <2>5
  <2> QED
    BY <2>1, <2>2, <2>3, <2>5, <2>6 DEF Chain
<1>15. Held(n + 1, r)'
  <2>1. \A k \in 1 .. n + 1 : node'[r[k]].live
    BY <1>2, <1>4, <1>7, <1>9 DEF ListIs, Held
  <2>2. \A k \in 1 .. n + 1, w \in Workers : r[k] # wnode[w]
    <3>1. \A k \in 1 .. n, w \in Workers : s[k] # wnode[w]
      BY <1>2 DEF ListIs, Held
    <3>2. \A w \in Workers : wnode[w] # mnode
      BY <1>4 DEF ListInv, Places
    <3> QED
      BY <3>1, <3>2, <1>7
  <2>3. ASSUME NEW q \in Nodes, node'[q].live
        PROVE  q = mnode \/ (\E w \in Workers : wnode[w] = q)
                         \/ (\E k \in 1 .. n + 1 : r[k] = q)
    <3>1. node[q].live
      BY <2>3, <1>9
    <3>2. q = mnode \/ (\E w \in Workers : wnode[w] = q) \/ (\E k \in 1 .. n : s[k] = q)
      BY <3>1, <1>2 DEF ListIs, Held
    <3> QED
      BY <3>2, <1>7
  <2>4. n + 1 > 0
    OBVIOUS
  <2>5. \A q \in Nodes :
           node'[q].live => q = mnode \/ (\E w \in Workers : wnode[w] = q)
                                      \/ (\E k \in 1 .. n + 1 : r[k] = q)
    BY <2>3
  <2> QED
    BY <2>1, <2>2, <2>4, <2>5, <1>3, <1>7 DEF Held
<1>16. Woken(n + 1)'
  <2>1. Awake' = Awake
    BY <1>3 DEF Awake
  <2> QED
    BY <2>1, <1>2, <1>3, AwakeFinite DEF ListIs, Woken
<1>17. ListIs(n + 1, r)'
  BY <1>14, <1>15, <1>16 DEF ListIs
<1>18. (\E l \in Nat : \E q \in [1 .. l -> Nodes] : ListIs(l, q))'
  BY <1>6, <1>17
<1>19. ListInv'
  BY <1>10, <1>11, <1>13, <1>18 DEF ListInv
<1> QED
  BY <1>2, <1>7, <1>9, <1>17, <1>19

\* Whoever has the mutex for a pop, the main thread is not linking.
LEMMA TakeAlone ==
    ASSUME ListInv, NEW w \in Workers, wpc[w] = "take"
    PROVE  mpc \in {"accept", "lock"} /\ \A v \in Workers \ {w} : wpc[v] # "take"
BY WorkQueueAssumption DEF ListInv, TypeOK, MutualExclusion

\* Taking the head leaves the rest of the list, and one thread less on its way.
LEMMA PopTakeList ==
    ASSUME ListInv, NEW w \in Workers, PopTake(w)
    PROVE  /\ ListInv'
           /\ \E n \in Nat \ {0} : \E s \in [1 .. n -> Nodes] : \E r \in [1 .. n - 1 -> Nodes] :
                 /\ ListIs(n, s) /\ ListIs(n - 1, r)'
                 /\ head = s[1] /\ \A k \in 1 .. n - 1 : r[k] = s[k + 1]
<1>1. PICK n \in Nat : \E s \in [1 .. n -> Nodes] : ListIs(n, s)
  BY DEF ListInv
<1>2. PICK s \in [1 .. n -> Nodes] : ListIs(n, s)
  BY <1>1
<1>3. /\ wpc[w] = "take" /\ wnode' = [wnode EXCEPT ![w] = head]
      /\ wpc' = [wpc EXCEPT ![w] = "unlock"] /\ head' = node[head].next
      /\ tail' = IF node[head].next = NULL THEN NULL ELSE tail
      /\ UNCHANGED <<mutex, sleepers, node, pushed, mpc, mnode, wfd>>
  BY DEF PopTake, mainVars
<1>4. NULL \notin Nodes
  BY WorkQueueAssumption DEF NULL
<1>5. n > 0 /\ head = s[1] /\ tail = s[n] /\ head # NULL
  <2>1. head # NULL
    BY <1>3 DEF ListInv, Places
  <2> QED
    BY <2>1, <1>2 DEF ListIs, Chain
<1>6. PICK r \in [1 .. n - 1 -> Nodes] : \A k \in 1 .. n - 1 : r[k] = s[k + 1]
  <2> DEFINE r == [k \in 1 .. n - 1 |-> s[k + 1]]
  <2>1. r \in [1 .. n - 1 -> Nodes] /\ \A k \in 1 .. n - 1 : r[k] = s[k + 1]
    OBVIOUS
  <2> QED
    BY <2>1
<1>7. n - 1 \in Nat /\ s[1] \in Nodes /\ s[n] \in Nodes
  BY <1>5
<1>8. mpc \in {"accept", "lock"} /\ \A v \in Workers \ {w} : wpc[v] # "take"
  BY <1>3, TakeAlone
<1>9. /\ \A j, k \in 1 .. n : s[j] = s[k] => j = k
      /\ node[s[n]].next = NULL
      /\ \A k \in 1 .. n - 1 : node[s[k]].next = s[k + 1]
  BY <1>2, <1>5 DEF ListIs, Chain
<1>10. /\ n = 1 => head' = NULL /\ tail' = NULL
       /\ n > 1 => head' = s[2] /\ s[2] \in Nodes /\ tail' = s[n]
  <2>1. CASE n = 1
    BY <2>1, <1>3, <1>5, <1>9
  <2>2. CASE n > 1
    <3>1. node[s[1]].next = s[1 + 1] /\ s[2] \in Nodes
      BY <2>2, <1>9
    <3> QED
      BY <2>2, <3>1, <1>3, <1>4, <1>5
  <2> QED
    BY <2>1, <2>2, <1>5
<1>11. /\ wnode'[w] = s[1] /\ wpc'[w] = "unlock"
       /\ \A v \in Workers \ {w} : wnode'[v] = wnode[v] /\ wpc'[v] = wpc[v]
  BY <1>3, <1>5 DEF ListInv, TypeOK
<1>12. TypeOK'
  <2>1. wnode' \in [Workers -> Nodes \cup {NULL}]
        /\ wpc' \in [Workers -> {"lock", "test", "wait", "take", "unlock", "free", "serve"}]
    BY <1>3, <1>5, <1>7 DEF ListInv, TypeOK
  <2>2. head' \in Nodes \cup {NULL} /\ tail' \in Nodes \cup {NULL}
    BY <1>5, <1>7, <1>10
  <2> QED
    BY <2>1, <2>2, <1>3 DEF ListInv, TypeOK
<1>13. MutualExclusion'
  BY <1>3, <1>11 DEF ListInv, MutualExclusion
<1>14. /\ node[s[1]].live
       /\ \A v \in Workers : wnode[v] # s[1]
       /\ mnode # s[1]
  <2>1. 1 \in 1 .. n
    BY <1>5
  <2> QED
    BY <2>1, <1>2, <1>4, <1>7, <1>8 DEF ListIs, Held, ListInv, Places
<1>15. Places'
  <2>1. \A v \in Workers :
          /\ wpc'[v] \in {"unlock", "free"} <=> wnode'[v] # NULL
          /\ wpc'[v] = "serve" <=> wfd[v] # None
          /\ wpc'[v] = "take" => head' # NULL
          /\ v \in sleepers => wpc'[v] = "wait"
          /\ wnode'[v] # NULL => node[wnode'[v]].live /\ wnode'[v] # mnode
    <3> SUFFICES ASSUME NEW v \in Workers
                 PROVE  /\ wpc'[v] \in {"unlock", "free"} <=> wnode'[v] # NULL
                        /\ wpc'[v] = "serve" <=> wfd[v] # None
                        /\ wpc'[v] = "take" => head' # NULL
                        /\ v \in sleepers => wpc'[v] = "wait"
                        /\ wnode'[v] # NULL => node[wnode'[v]].live /\ wnode'[v] # mnode
      OBVIOUS
    <3>1. CASE v = w
      BY <3>1, <1>3, <1>4, <1>7, <1>11, <1>14 DEF ListInv, Places
    <3>2. CASE v # w
      BY <3>2, <1>8, <1>11 DEF ListInv, Places
    <3> QED
      BY <3>1, <3>2
  <2>2. \A u, v \in Workers : wnode'[v] = wnode'[u] /\ v # u => wnode'[v] = NULL
    BY <1>11, <1>14 DEF ListInv, Places
  <2> QED
    BY <2>1, <2>2, <1>3 DEF ListInv, Places
<1>16. Chain(head, tail, node, n - 1, r)'
  <2>1. \A j, k \in 1 .. n - 1 : r[j] = r[k] => j = k
    <3>1. ASSUME NEW j \in 1 .. n - 1, NEW k \in 1 .. n - 1, r[j] = r[k]
          PROVE  j = k
      <4>1. j + 1 \in 1 .. n /\ k + 1 \in 1 .. n /\ s[j + 1] = s[k + 1]
        BY <3>1, <1>6
      <4>2. j + 1 = k + 1
        BY <4>1, <1>9
      <4> QED
        BY <4>2
    <3> QED
      BY <3>1
  <2>2. n - 1 = 0 => head' = NULL /\ tail' = NULL
    BY <1>10
  <2>3. n - 1 > 0 => head' = r[1] /\ tail' = r[n - 1] /\ node'[r[n - 1]].next = NULL
    <3> SUFFICES ASSUME n - 1 > 0
                 PROVE  head' = r[1] /\ tail' = r[n - 1] /\ node'[r[n - 1]].next = NULL
      OBVIOUS
    <3>1. r[1] = s[1 + 1] /\ r[n - 1] = s[(n - 1) + 1] /\ (n - 1) + 1 = n
      BY <1>6
    <3> QED
      BY <3>1, <1>3, <1>9, <1>10
  <2>4. ASSUME NEW k \in 1 .. (n - 1) - 1
        PROVE  node'[r[k]].next = r[k + 1]
    <3>1. k \in 1 .. n - 1 /\ k + 1 \in 1 .. n - 1
      OBVIOUS
    <3> QED
      BY <3>1, <1>3, <1>6, <1>9
  <2> QED
    BY <2>1, <2>2, <2>3, <2>4 DEF Chain
<1>17. Held(n - 1, r)'
  <2>1. \A k \in 1 .. n - 1 : k + 1 \in 1 .. n /\ r[k] = s[k + 1] /\ r[k] # s[1]
    BY <1>5, <1>6, <1>9
  <2>2. \A k \in 1 .. n - 1 : node'[r[k]].live
    BY <2>1, <1>2, <1>3 DEF ListIs, Held
  <2>3. \A k \in 1 .. n - 1, v \in Workers : r[k] # wnode'[v]
    BY <2>1, <1>2, <1>11 DEF ListIs, Held
  <2>4. mpc \in {"lock", "link"} => \A k \in 1 .. n - 1 : r[k] # mnode
    BY <2>1, <1>2 DEF ListIs, Held
  <2>5. ASSUME NEW q \in Nodes, node'[q].live
        PROVE  q = mnode \/ (\E v \in Workers : wnode'[v] = q)
                         \/ (\E k \in 1 .. n - 1 : r[k] = q)
    <3>1. q = mnode \/ (\E v \in Workers : wnode[v] = q) \/ (\E k \in 1 .. n : s[k] = q)
      BY <2>5, <1>2, <1>3 DEF ListIs, Held
    <3>2. CASE \E v \in Workers : wnode[v] = q
      <4>1. PICK v \in Workers : wnode[v] = q
        BY <3>2
      <4>2. v # w
        BY <4>1, <1>3, <1>4 DEF ListInv, Places
      <4> QED
        BY <4>1, <4>2, <1>11
    <3>3. ASSUME NEW k \in 1 .. n, s[k] = q
          PROVE  (\E v \in Workers : wnode'[v] = q) \/ (\E j \in 1 .. n - 1 : r[j] = q)
      <4>1. CASE k = 1
        BY <4>1, <3>3, <1>11
      <4>2. CASE k > 1
        <5>1. k - 1 \in 1 .. n - 1 /\ r[k - 1] = s[(k - 1) + 1] /\ (k - 1) + 1 = k
          BY <4>2, <1>6
        <5> QED
          BY <5>1, <3>3
      <4> QED
        BY <4>1, <4>2
    <3> QED
      BY <3>1, <3>2, <3>3
  <2> QED
    BY <2>2, <2>3, <2>4, <2>5, <1>3, <1>8 DEF Held
<1>18. Woken(n - 1)'
  <2>1. Awake' = Awake \ {w}
    BY <1>3, <1>11 DEF Awake
  <2>2. Cardinality(Awake \ {w}) >= Cardinality(Awake) - 1
        /\ Cardinality(Awake \ {w}) \in Nat
    <3> DEFINE A == Awake
    <3>1. IsFiniteSet(A) /\ Cardinality(A) \in Nat
      BY AwakeFinite
    <3> HIDE DEF A
    <3>2. /\ Cardinality(A \ {w}) = IF w \in A THEN Cardinality(A) - 1 ELSE Cardinality(A)
          /\ IsFiniteSet(A \ {w})
      BY <3>1, FS_RemoveElement
    <3>3. Cardinality(A \ {w}) \in Nat
      BY <3>2, FS_CardinalityType
    <3> QED
      BY <3>1, <3>2, <3>3 DEF A
  <2>3. Cardinality(Awake)' >= Cardinality(Awake) - 1 /\ Cardinality(Awake)' \in Nat
    BY <2>1, <2>2
  <2>4. sleepers # {} => n <= Cardinality(Awake)
    BY <1>2, <1>8, AwakeFinite DEF ListIs, Woken
  <2> QED
    BY <2>3, <2>4, <1>3, <1>8, AwakeFinite DEF Woken
<1>19. ListIs(n - 1, r)'
  BY <1>16, <1>17, <1>18 DEF ListIs
<1>20. (\E l \in Nat : \E q \in [1 .. l -> Nodes] : ListIs(l, q))'
  BY <1>7, <1>19
<1>21. ListInv'
  BY <1>12, <1>13, <1>15, <1>20 DEF ListInv
<1>22. n \in Nat \ {0}
  BY <1>5
<1> QED
  BY <1>2, <1>5, <1>6, <1>19, <1>21, <1>22

\* The node freed is in no list and nobody else's.
LEMMA PopFreeList ==
    ASSUME ListInv, NEW w \in Workers, PopFree(w)
    PROVE  ListInv'
<1>1. PICK n \in Nat : \E s \in [1 .. n -> Nodes] : ListIs(n, s)
  BY DEF ListInv
<1>2. PICK s \in [1 .. n -> Nodes] : ListIs(n, s)
  BY <1>1
<1>3. PICK m : m = wnode[w]
  OBVIOUS
<1>4. /\ wpc[w] = "free" /\ wpc' = [wpc EXCEPT ![w] = "serve"]
      /\ wfd' = [wfd EXCEPT ![w] = node[m].fd] /\ node' = [node EXCEPT ![m] = Freed]
      /\ wnode' = [wnode EXCEPT ![w] = NULL]
      /\ UNCHANGED <<mutex, sleepers, head, tail, pushed, mpc, mnode>>
  BY <1>3 DEF PopFree, mainVars
<1>5. NULL \notin Nodes
  BY WorkQueueAssumption DEF NULL
<1>6. m \in Nodes /\ m # mnode /\ node[m].live /\ node[m].fd \in Items
  BY <1>3, <1>4, <1>5 DEF ListInv, TypeOK, Places
<1>7. /\ wnode'[w] = NULL /\ wpc'[w] = "serve" /\ wfd'[w] = node[m].fd
      /\ \A v \in Workers \ {w} :
            wnode'[v] = wnode[v] /\ wpc'[v] = wpc[v] /\ wfd'[v] = wfd[v] /\ wnode[v] # m
      /\ ~node'[m].live
      /\ \A q \in Nodes \ {m} : node'[q] = node[q]
  <2>1. ASSUME NEW v \in Workers \ {w}
        PROVE  wnode[v] # m
    BY <1>3, <1>5, <1>6 DEF ListInv, Places
  <2> QED
    BY <2>1, <1>4, <1>6 DEF ListInv, TypeOK, Freed
<1>8. TypeOK'
  <2>1. Freed \in [live : BOOLEAN, fd : Items \cup {Garbage},
                   next : Nodes \cup {NULL, Garbage}]
    BY DEF Freed
  <2>2. node' \in [Nodes -> [live : BOOLEAN, fd : Items \cup {Garbage},
                             next : Nodes \cup {NULL, Garbage}]]
    BY <2>1, <1>4, <1>6 DEF ListInv, TypeOK
  <2> QED
    BY <2>2, <1>4, <1>6 DEF ListInv, TypeOK
<1>9. MutualExclusion'
  BY <1>4, <1>7 DEF ListInv, MutualExclusion
<1>10. \A q \in Nodes : node'[q].live => node[q].live /\ q # m /\ node'[q] = node[q]
  BY <1>7
<1>11. Places'
  <2>1. \A v \in Workers :
          /\ wpc'[v] \in {"unlock", "free"} <=> wnode'[v] # NULL
          /\ wpc'[v] = "serve" <=> wfd'[v] # None
          /\ wpc'[v] = "take" => head' # NULL
          /\ v \in sleepers => wpc'[v] = "wait"
          /\ wnode'[v] # NULL => node'[wnode'[v]].live /\ wnode'[v] # mnode
    <3> SUFFICES ASSUME NEW v \in Workers
                 PROVE  /\ wpc'[v] \in {"unlock", "free"} <=> wnode'[v] # NULL
                        /\ wpc'[v] = "serve" <=> wfd'[v] # None
                        /\ wpc'[v] = "take" => head' # NULL
                        /\ v \in sleepers => wpc'[v] = "wait"
                        /\ wnode'[v] # NULL => node'[wnode'[v]].live /\ wnode'[v] # mnode
      OBVIOUS
    <3>1. CASE v = w
      <4>1. wfd'[w] # None
        BY <1>6, <1>7 DEF Items, None
      <4> QED
        BY <3>1, <4>1, <1>4, <1>7 DEF ListInv, Places
    <3>2. CASE v # w
      <4>1. wnode[v] \in Nodes \cup {NULL}
        BY DEF ListInv, TypeOK
      <4> QED
        BY <3>2, <4>1, <1>4, <1>7 DEF ListInv, Places
    <3> QED
      BY <3>1, <3>2
  <2>2. \A u, v \in Workers : wnode'[v] = wnode'[u] /\ v # u => wnode'[v] = NULL
    BY <1>7 DEF ListInv, Places
  <2>3. /\ mnode # NULL => node'[mnode].live
        /\ mpc \in {"lock", "link"} => node'[mnode].next = NULL
    BY <1>6, <1>7 DEF ListInv, TypeOK, Places
  <2>4. \A q \in Nodes : node'[q].live => node'[q].fd \in Items
    BY <1>10 DEF ListInv, Places
  <2> QED
    BY <2>1, <2>2, <2>3, <2>4, <1>4 DEF ListInv, Places
<1>12. \A k \in 1 .. n : s[k] \in Nodes \ {m} /\ node'[s[k]] = node[s[k]]
  <2>1. \A k \in 1 .. n : s[k] # m
    BY <1>2, <1>3 DEF ListIs, Held
  <2> QED
    BY <2>1, <1>7
<1>13. Chain(head, tail, node, n, s)'
  BY <1>2, <1>4, <1>12 DEF ListIs, Chain
<1>14. Held(n, s)'
  <2>1. \A k \in 1 .. n : node'[s[k]].live
    BY <1>2, <1>12 DEF ListIs, Held
  <2>2. \A k \in 1 .. n, v \in Workers : s[k] # wnode'[v]
    BY <1>2, <1>5, <1>7 DEF ListIs, Held
  <2>3. ASSUME NEW q \in Nodes, node'[q].live
        PROVE  q = mnode \/ (\E v \in Workers : wnode'[v] = q)
                         \/ (\E k \in 1 .. n : s[k] = q)
    <3>1. node[q].live /\ q # m
      BY <2>3, <1>10
    <3>2. q = mnode \/ (\E v \in Workers : wnode[v] = q) \/ (\E k \in 1 .. n : s[k] = q)
      BY <3>1, <1>2 DEF ListIs, Held
    <3>3. ASSUME NEW v \in Workers, wnode[v] = q
          PROVE  wnode'[v] = q
      BY <3>1, <3>3, <1>3, <1>7
    <3> QED
      BY <3>2, <3>3
  <2> QED
    BY <2>1, <2>2, <2>3, <1>2, <1>4 DEF ListIs, Held
<1>15. Woken(n)'
  <2>1. Awake' = Awake
    BY <1>4, <1>7 DEF Awake
  <2> QED
    BY <2>1, <1>2, <1>4 DEF ListIs, Woken
<1>16. ListIs(n, s)'
  BY <1>13, <1>14, <1>15 DEF ListIs
<1> QED
  BY <1>8, <1>9, <1>11, <1>16 DEF ListInv

\* A worker that waits, wakes up, tests, or is done touches no node.  It goes to
\* sleep only when it has seen an empty list.
LEMMA WorkerQuiet ==
    ASSUME ListInv, NEW w \in Workers,
           \/ PopLock(w) \/ PopTest(w) \/ PopRelock(w) \/ PopUnlock(w)
           \/ ServeDone(w) \/ SpuriousWakeup(w)
    PROVE  ListInv'
<1> DEFINE Steps == {"lock", "test", "wait", "take", "unlock", "free", "serve"}
<1>1. PICK n \in Nat : \E s \in [1 .. n -> Nodes] : ListIs(n, s)
  BY DEF ListInv
<1>2. PICK s \in [1 .. n -> Nodes] : ListIs(n, s)
  BY <1>1
<1>3. MutualExclusion' /\ LockType'
  <2>1. LockInv
    BY DEF LockInv, LockType, ListInv, TypeOK
  <2>2. LockInv'
    BY <2>1, WorkerLock DEF WorkerNext
  <2> QED
    BY <2>2 DEF LockInv
<1>4. UNCHANGED <<head, tail, node, pushed, mpc, mnode, wnode>>
  BY DEF PopLock, PopTest, PopRelock, PopUnlock, ServeDone, SpuriousWakeup, mainVars,
     workerVars
<1>5. /\ wpc \in [Workers -> Steps] /\ wfd \in [Workers -> Items \cup {None}]
      /\ sleepers \subseteq Workers
  BY DEF ListInv, TypeOK
<1>6. \A v \in Workers \ {w} :
         /\ wpc'[v] = wpc[v] /\ wfd'[v] = wfd[v]
         /\ v \in sleepers' <=> v \in sleepers
  BY <1>5 DEF PopLock, PopTest, PopRelock, PopUnlock, ServeDone, SpuriousWakeup, workerVars
\* The steps a worker takes here.
<1>7. \/ /\ wpc[w] \in {"lock", "wait"} /\ w \notin sleepers /\ w \notin sleepers'
         /\ wpc'[w] = "test" /\ wfd'[w] = wfd[w]
      \/ /\ wpc[w] = "test" /\ head = NULL
         /\ wpc'[w] = "wait" /\ wfd'[w] = wfd[w]
      \/ /\ wpc[w] = "test" /\ head # NULL /\ w \notin sleepers'
         /\ wpc'[w] = "take" /\ wfd'[w] = wfd[w]
      \/ /\ wpc[w] = "unlock" /\ w \notin sleepers'
         /\ wpc'[w] = "free" /\ wfd'[w] = wfd[w]
      \/ /\ wpc[w] = "serve" /\ w \notin sleepers'
         /\ wpc'[w] = "lock" /\ wfd'[w] = None
      \/ /\ wpc[w] = "wait" /\ w \notin sleepers'
         /\ wpc'[w] = "wait" /\ wfd'[w] = wfd[w]
  <2>1. wpc[w] # "wait" => w \notin sleepers
    BY DEF ListInv, Places
  <2>2. CASE PopLock(w) \/ PopRelock(w)
    BY <2>1, <2>2, <1>5 DEF PopLock, PopRelock
  <2>3. CASE PopTest(w)
    BY <2>1, <2>3, <1>5 DEF PopTest
  <2>4. CASE PopUnlock(w)
    BY <2>1, <2>4, <1>5 DEF PopUnlock
  <2>5. CASE ServeDone(w)
    BY <2>1, <2>5, <1>5 DEF ServeDone
  <2>6. CASE SpuriousWakeup(w)
    BY <2>6, <1>5 DEF SpuriousWakeup, workerVars, ListInv, Places
  <2> QED
    BY <2>2, <2>3, <2>4, <2>5, <2>6
<1>8. TypeOK'
  <2>1. wfd' \in [Workers -> Items \cup {None}]
    BY <1>5 DEF PopLock, PopTest, PopRelock, PopUnlock, ServeDone, SpuriousWakeup, workerVars
  <2>2. sleepers' \subseteq Workers
    BY <1>5, <1>6 DEF PopLock, PopTest, PopRelock, PopUnlock, ServeDone, SpuriousWakeup
  <2> QED
    BY <2>1, <2>2, <1>3, <1>4 DEF ListInv, TypeOK, LockType
<1>9. Places'
  <2>1. \A v \in Workers :
          /\ wpc'[v] \in {"unlock", "free"} <=> wnode[v] # NULL
          /\ wpc'[v] = "serve" <=> wfd'[v] # None
          /\ wpc'[v] = "take" => head # NULL
          /\ v \in sleepers' => wpc'[v] = "wait"
    <3> SUFFICES ASSUME NEW v \in Workers
                 PROVE  /\ wpc'[v] \in {"unlock", "free"} <=> wnode[v] # NULL
                        /\ wpc'[v] = "serve" <=> wfd'[v] # None
                        /\ wpc'[v] = "take" => head # NULL
                        /\ v \in sleepers' => wpc'[v] = "wait"
      OBVIOUS
    <3>1. /\ wpc[v] \in {"unlock", "free"} <=> wnode[v] # NULL
          /\ wpc[v] = "serve" <=> wfd[v] # None
          /\ wpc[v] = "take" => head # NULL
          /\ v \in sleepers => wpc[v] = "wait"
      BY DEF ListInv, Places
    <3>2. CASE v = w
      BY <3>1, <3>2, <1>7
    <3>3. CASE v # w
      BY <3>1, <3>3, <1>6
    <3> QED
      BY <3>2, <3>3
  <2> QED
    BY <2>1, <1>4 DEF ListInv, Places
<1>10. Woken(n)'
  <2>1. CASE head = NULL
    <3>1. n = 0
      BY <2>1, <1>2, WorkQueueAssumption DEF ListIs, Chain, NULL
    <3>2. IsFiniteSet(Awake')
      BY FS_Subset, WorkQueueAssumption DEF Awake
    <3>3. Cardinality(Awake') \in Nat
      BY <3>2, FS_CardinalityType
    <3> QED
      BY <3>1, <3>3 DEF Woken
  <2>2. CASE head # NULL
    <3>1. Awake \subseteq Awake'
      BY <2>2, <1>6, <1>7 DEF Awake
    <3>2. sleepers' \subseteq sleepers
      BY <2>2 DEF PopLock, PopTest, PopRelock, PopUnlock, ServeDone, SpuriousWakeup
    <3>3. IsFiniteSet(Awake')
      BY FS_Subset, WorkQueueAssumption DEF Awake
    <3>4. Cardinality(Awake') \in Nat /\ Cardinality(Awake) <= Cardinality(Awake')
      BY <3>1, <3>3, AwakeGrows, FS_CardinalityType
    <3> QED
      BY <3>2, <3>4, <1>2, <1>4, AwakeFinite DEF ListIs, Woken
  <2> QED
    BY <2>1, <2>2
<1>11. ListIs(n, s)'
  BY <1>2, <1>4, <1>10, SameList DEF ListInv
<1> QED
  BY <1>3, <1>8, <1>9, <1>11 DEF ListInv

\* Every step keeps the list.
LEMMA ListStep == ListInv /\ [Next]_vars => ListInv'
<1> SUFFICES ASSUME ListInv, [Next]_vars
             PROVE  ListInv'
  OBVIOUS
<1>1. CASE MainNext
  BY <1>1, PushAllocList, PushLinkList, MainQuiet DEF MainNext
<1>2. ASSUME NEW w \in Workers, WorkerNext(w) \/ SpuriousWakeup(w)
      PROVE  ListInv'
  BY <1>2, PopTakeList, PopFreeList, WorkerQuiet DEF WorkerNext
<1>3. CASE UNCHANGED vars
  <2>1. Awake' = Awake
    BY <1>3 DEF vars, Awake
  <2>2. ASSUME NEW n \in Nat, NEW s \in [1 .. n -> Nodes], ListIs(n, s)
        PROVE  ListIs(n, s)'
    BY <2>1, <2>2, <1>3 DEF vars, ListIs, Chain, Held, Woken
  <2>3. TypeOK' /\ MutualExclusion' /\ Places'
    BY <1>3 DEF vars, ListInv, TypeOK, MutualExclusion, Places
  <2> QED
    BY <2>2, <2>3 DEF ListInv
<1> QED
  BY <1>1, <1>2, <1>3 DEF Next

\* So it is there always.
LEMMA ListInvariant == Spec => []ListInv
BY ListInit, ListStep, PTL DEF Spec

\* Content, for any head and nodes.
ContentOf(h, nd) ==
    [k \in 1 .. Cardinality(LinkedOf(h, nd)) |-> nd[Hops(h, nd)[k - 1]].fd]

\* The connections of the n nodes of s.
FdsOf(nd, n, s) == [k \in 1 .. n |-> nd[s[k]].fd]

\* What Content reads along the links are the connections of the nodes in order.
LEMMA ContentFacts ==
    ASSUME NEW h, NEW t, NEW nd, NEW n \in Nat, NEW s \in [1 .. n -> Nodes],
           Chain(h, t, nd, n, s)
    PROVE  ContentOf(h, nd) = FdsOf(nd, n, s)
<1>1. Follows(h, nd, n, s)
  BY ListFacts
<1> QED
  BY <1>1 DEF Follows, ContentOf, FdsOf

\* The list ends at its tail, owns its nodes, and points to none that was freed,
\* whatever the threads do: queue_pop() resets the tail when it takes the last node.
THEOREM ListCorrect == Spec => []ListWellFormed
<1>1. ListInv => ListWellFormed
  <2> SUFFICES ASSUME ListInv
               PROVE  ListWellFormed
    OBVIOUS
  <2>1. PICK n \in Nat : \E s \in [1 .. n -> Nodes] : ListIs(n, s)
    BY DEF ListInv
  <2>2. PICK s \in [1 .. n -> Nodes] : ListIs(n, s)
    BY <2>1
  <2>3. NULL \notin Nodes
    BY WorkQueueAssumption DEF NULL
  <2>4. Chain(head, tail, node, n, s)
    BY <2>2 DEF ListIs
  <2>5. /\ Cardinality(Linked) = n
        /\ Listed = {s[k] : k \in 1 .. n}
        /\ Hop[n] = NULL
    <3>1. Follows(head, node, n, s)
      BY <2>4, ListFacts
    <3>2. Linked = LinkedOf(head, node)
      BY DEF Linked, LinkedOf, Hop
    <3> QED
      BY <3>1, <3>2 DEF Follows, Listed, Hop
  <2>6. head = NULL <=> tail = NULL
    BY <2>3, <2>4 DEF Chain
  <2>7. tail # NULL => tail \in Listed /\ node[tail].next = NULL
    BY <2>4, <2>5 DEF Chain
  <2>8. \A w \in Workers : wnode[w] \in Nodes \cup {NULL}
    BY DEF ListInv, TypeOK
  <2>9. {m \in Nodes : node[m].live} = (Listed \cup Unlisted) \ {NULL}
    <3>1. ASSUME NEW m \in Nodes, node[m].live
          PROVE  m \in Listed \cup Unlisted /\ m # NULL
      <4>1. m = mnode \/ (\E w \in Workers : wnode[w] = m) \/ (\E k \in 1 .. n : s[k] = m)
        BY <3>1, <2>2 DEF ListIs, Held
      <4> QED
        BY <4>1, <2>3, <2>5 DEF Unlisted
    <3>2. ASSUME NEW m \in Listed \cup Unlisted, m # NULL
          PROVE  m \in Nodes /\ node[m].live
      <4>1. CASE m \in Listed
        BY <4>1, <2>2, <2>5 DEF ListIs, Held
      <4>2. CASE m = mnode
        BY <4>2, <3>2 DEF ListInv, TypeOK, Places
      <4>3. ASSUME NEW w \in Workers, m = wnode[w]
            PROVE  m \in Nodes /\ node[m].live
        BY <4>3, <3>2, <2>8 DEF ListInv, Places
      <4> QED
        BY <4>1, <4>2, <4>3, <3>2 DEF Unlisted
    <3> QED
      BY <3>1, <3>2
  <2>10. Listed \cap Unlisted \subseteq (IF mpc \in {"signal", "unlock"} THEN {mnode} ELSE {})
    <3> SUFFICES ASSUME NEW k \in 1 .. n, s[k] \in Unlisted
                 PROVE  mpc \in {"signal", "unlock"} /\ s[k] = mnode
      BY <2>5
    <3>1. s[k] = mnode
      BY <2>2 DEF ListIs, Held, Unlisted
    <3>2. mnode # NULL /\ mpc \notin {"lock", "link"}
      BY <3>1, <2>2, <2>3 DEF ListIs, Held
    <3> QED
      BY <3>1, <3>2 DEF ListInv, TypeOK, Places
  <2> QED
    BY <2>5, <2>6, <2>7, <2>9, <2>10 DEF ListWellFormed, ListInv, Places
<1> QED
  BY <1>1, ListInvariant, PTL

\* No signal is lost: however the threads interleave, those awake are enough for
\* the connections queued while any other sleeps.
THEOREM NoLostWakeupCorrect == Spec => []NoLostWakeup
<1>1. ListInv => NoLostWakeup
  <2> SUFFICES ASSUME ListInv
               PROVE  NoLostWakeup
    OBVIOUS
  <2>1. PICK n \in Nat : \E s \in [1 .. n -> Nodes] : ListIs(n, s)
    BY DEF ListInv
  <2>2. PICK s \in [1 .. n -> Nodes] : ListIs(n, s)
    BY <2>1
  <2>3. Content = [k \in 1 .. n |-> node[s[k]].fd]
    <3>1. Chain(head, tail, node, n, s)
      BY <2>2 DEF ListIs
    <3>2. Content = ContentOf(head, node)
      BY DEF Content, ContentOf, Linked, LinkedOf, Hop
    <3>3. ContentOf(head, node) = FdsOf(node, n, s)
      BY <3>1, ContentFacts
    <3> QED
      BY <3>2, <3>3 DEF FdsOf
  <2>4. Len(Content) = n
    BY <2>3
  <2> QED
    BY <2>2, <2>4 DEF ListIs, Woken, NoLostWakeup
<1> QED
  BY <1>1, ListInvariant, PTL

----------------------------------------------------------------------------
(* The queue implements FdQueue. *)

\* What each worker has taken, for FdQueue.
Taken ==
    [w \in Workers |->
        IF wpc[w] \in {"unlock", "free"} THEN node[wnode[w]].fd ELSE wfd[w]]

\* Adding an element to a sequence.
LEMMA AppendFacts ==
    ASSUME NEW n \in Nat, NEW q \in [1 .. n -> Items], NEW r \in [1 .. n + 1 -> Items],
           \A k \in 1 .. n : r[k] = q[k]
    PROVE  r = Append(q, r[n + 1])
<1>1. q \in Seq(Items) /\ Len(q) = n /\ r \in Seq(Items) /\ Len(r) = n + 1
  OBVIOUS
<1> QED
  BY <1>1

\* Taking the first element of a sequence.
LEMMA TailFacts ==
    ASSUME NEW n \in Nat \ {0}, NEW q \in [1 .. n -> Items], NEW r \in [1 .. n - 1 -> Items],
           \A k \in 1 .. n - 1 : r[k] = q[k + 1]
    PROVE  q # <<>> /\ Head(q) = q[1] /\ r = Tail(q)
<1>1. q \in Seq(Items) /\ Len(q) = n /\ r \in Seq(Items) /\ Len(r) = n - 1
  OBVIOUS
<1>2. q # <<>> /\ Head(q) = q[1]
  BY <1>1
<1>3. Tail(q) \in Seq(Items) /\ Len(Tail(q)) = n - 1
      /\ \A k \in 1 .. n - 1 : Tail(q)[k] = q[k + 1]
  BY <1>1, <1>2
<1> QED
  BY <1>1, <1>2, <1>3

\* The content of a list whose nodes are known.
LEMMA ContentIs ==
    ASSUME NEW n \in Nat, NEW s \in [1 .. n -> Nodes], ListIs(n, s)
    PROVE  Content = [k \in 1 .. n |-> node[s[k]].fd]
<1>1. Content = ContentOf(head, node)
  BY DEF Content, ContentOf, Linked, LinkedOf, Hop
<1>2. Chain(head, tail, node, n, s)
  BY DEF ListIs
<1>3. ContentOf(head, node) = FdsOf(node, n, s)
  BY <1>2, ContentFacts
<1> QED
  BY <1>1, <1>3 DEF FdsOf

\* The same after a step.
LEMMA ContentIsNext ==
    ASSUME NEW n \in Nat, NEW s \in [1 .. n -> Nodes], ListIs(n, s)'
    PROVE  Content' = [k \in 1 .. n |-> node'[s[k]].fd]
<1>1. Content' = ContentOf(head', node')
  BY DEF Content, ContentOf, Linked, LinkedOf, Hop
<1>2. Chain(head', tail', node', n, s)
  BY DEF ListIs
<1>3. ContentOf(head', node') = FdsOf(node', n, s)
  BY <1>2, ContentFacts
<1> QED
  BY <1>1, <1>3 DEF FdsOf

\* Linking is Push, of the connection in the node.
LEMMA PushLinkAbstract ==
    ASSUME ListInv, PushLink
    PROVE  Taken' = Taken /\ \E x \in Items : Content' = Append(Content, x)
<1>1. PICK n \in Nat : \E s \in [1 .. n -> Nodes] : \E r \in [1 .. n + 1 -> Nodes] :
         /\ ListIs(n, s) /\ ListIs(n + 1, r)'
         /\ r[n + 1] = mnode /\ \A k \in 1 .. n : r[k] = s[k]
         /\ \A q \in Nodes : node'[q].fd = node[q].fd
  BY PushLinkList
<1>2. PICK s \in [1 .. n -> Nodes], r \in [1 .. n + 1 -> Nodes] :
         /\ ListIs(n, s) /\ ListIs(n + 1, r)'
         /\ r[n + 1] = mnode /\ \A k \in 1 .. n : r[k] = s[k]
         /\ \A q \in Nodes : node'[q].fd = node[q].fd
  BY <1>1
<1>3. Content = [k \in 1 .. n |-> node[s[k]].fd]
  BY <1>2, ContentIs
<1>4. Content' = [k \in 1 .. n + 1 |-> node'[r[k]].fd]
  BY <1>2, ContentIsNext
<1>5. ListInv'
  BY PushLinkList
<1>6. \A k \in 1 .. n : node[s[k]].fd \in Items
  BY <1>2 DEF ListInv, Places, ListIs, Held
<1>7. \A k \in 1 .. n + 1 : node'[r[k]].fd \in Items
  BY <1>2, <1>5 DEF ListInv, Places, ListIs, Held
<1>8. /\ Content \in [1 .. n -> Items] /\ Content' \in [1 .. n + 1 -> Items]
      /\ \A k \in 1 .. n : Content'[k] = Content[k]
  BY <1>2, <1>3, <1>4, <1>6, <1>7
<1>9. Content' = Append(Content, Content'[n + 1]) /\ Content'[n + 1] \in Items
  BY <1>8, AppendFacts
<1>10. Taken' = Taken
  <2>1. UNCHANGED <<wpc, wnode, wfd>>
    BY DEF PushLink, workerVars
  <2>2. \A w \in Workers : wpc[w] \in {"unlock", "free"} => wnode[w] \in Nodes
    BY WorkQueueAssumption DEF ListInv, TypeOK, Places, NULL
  <2> QED
    BY <2>1, <2>2, <1>2 DEF Taken
<1> QED
  BY <1>9, <1>10

\* Taking the head is Pop, by a worker that has nothing.
LEMMA PopTakeAbstract ==
    ASSUME ListInv, NEW w \in Workers, PopTake(w)
    PROVE  /\ Taken[w] = None /\ Content # <<>>
           /\ Taken' = [Taken EXCEPT ![w] = Head(Content)]
           /\ Content' = Tail(Content)
<1>1. PICK n \in Nat \ {0} :
         \E s \in [1 .. n -> Nodes] : \E r \in [1 .. n - 1 -> Nodes] :
            /\ ListIs(n, s) /\ ListIs(n - 1, r)'
            /\ head = s[1] /\ \A k \in 1 .. n - 1 : r[k] = s[k + 1]
  BY PopTakeList
<1>2. PICK s \in [1 .. n -> Nodes], r \in [1 .. n - 1 -> Nodes] :
         /\ ListIs(n, s) /\ ListIs(n - 1, r)'
         /\ head = s[1] /\ \A k \in 1 .. n - 1 : r[k] = s[k + 1]
  BY <1>1
<1>3. Content = [k \in 1 .. n |-> node[s[k]].fd]
  BY <1>2, ContentIs
<1>4. Content' = [k \in 1 .. n - 1 |-> node'[r[k]].fd]
  BY <1>2, ContentIsNext
<1>5. /\ wpc[w] = "take" /\ wnode' = [wnode EXCEPT ![w] = head]
      /\ wpc' = [wpc EXCEPT ![w] = "unlock"] /\ UNCHANGED <<node, wfd>>
  BY DEF PopTake
<1>6. \A k \in 1 .. n : node[s[k]].fd \in Items
  BY <1>2 DEF ListInv, Places, ListIs, Held
<1>7. /\ Content \in [1 .. n -> Items] /\ Content' \in [1 .. n - 1 -> Items]
      /\ \A k \in 1 .. n - 1 : Content'[k] = Content[k + 1]
  BY <1>2, <1>3, <1>4, <1>5, <1>6
<1>8. Content # <<>> /\ Head(Content) = Content[1] /\ Content' = Tail(Content)
  BY <1>7, TailFacts
<1>9. Content[1] = node[head].fd
  BY <1>2, <1>3
<1>10. wpc \in [Workers -> {"lock", "test", "wait", "take", "unlock", "free", "serve"}]
       /\ wnode \in [Workers -> Nodes \cup {NULL}]
  BY DEF ListInv, TypeOK
<1>11. Taken[w] = None
  BY <1>5 DEF Taken, ListInv, Places
<1>12. Taken' = [Taken EXCEPT ![w] = Content[1]]
  <2>1. Taken'[w] = node[head].fd
    BY <1>5, <1>10 DEF Taken
  <2>2. \A v \in Workers \ {w} : Taken'[v] = Taken[v]
    BY <1>5, <1>10 DEF Taken
  <2> QED
    BY <2>1, <2>2, <1>9 DEF Taken
<1> QED
  BY <1>8, <1>11, <1>12

\* A step that leaves the nodes of the list alone leaves its content alone.
LEMMA SameContent ==
    ASSUME NEW n \in Nat, NEW s \in [1 .. n -> Nodes], ListIs(n, s),
           UNCHANGED <<head, tail>>, \A k \in 1 .. n : node'[s[k]] = node[s[k]]
    PROVE  Content' = Content
<1>1. Chain(head', tail', node', n, s)
  BY DEF ListIs, Chain
<1>2. Content' = ContentOf(head', node')
  BY DEF Content, ContentOf, Linked, LinkedOf, Hop
<1>3. Content' = [k \in 1 .. n |-> node'[s[k]].fd]
  <2>1. ContentOf(head', node') = FdsOf(node', n, s)
    BY <1>1, ContentFacts
  <2> QED
    BY <1>2, <2>1 DEF FdsOf
<1>4. Content = [k \in 1 .. n |-> node[s[k]].fd]
  BY ContentIs
<1> QED
  BY <1>3, <1>4

\* A node that malloc() returns is not in the list yet.
LEMMA PushAllocAbstract ==
    ASSUME ListInv, PushAlloc
    PROVE  Content' = Content /\ Taken' = Taken
<1>1. PICK n \in Nat : \E s \in [1 .. n -> Nodes] : ListIs(n, s)
  BY DEF ListInv
<1>2. PICK s \in [1 .. n -> Nodes] : ListIs(n, s)
  BY <1>1
<1>3. PICK m \in Nodes :
         ~node[m].live /\ \A q \in Nodes \ {m} : node'[q] = node[q]
  BY DEF PushAlloc, Allocated, ListInv, TypeOK
<1>4. UNCHANGED <<head, tail, wpc, wnode, wfd>>
  BY DEF PushAlloc, workerVars
<1>5. Content' = Content
  <2>1. \A k \in 1 .. n : s[k] # m
    BY <1>2, <1>3 DEF ListIs, Held
  <2> QED
    BY <2>1, <1>2, <1>3, <1>4, SameContent
<1>6. \A w \in Workers : wpc[w] \in {"unlock", "free"} => wnode[w] \in Nodes \ {m}
  BY <1>3, WorkQueueAssumption DEF ListInv, TypeOK, Places, NULL
<1>7. Taken' = Taken
  BY <1>3, <1>4, <1>6 DEF Taken
<1> QED
  BY <1>5, <1>7

\* Nor is one that is freed; its connection stays with the worker.
LEMMA PopFreeAbstract ==
    ASSUME ListInv, NEW w \in Workers, PopFree(w)
    PROVE  Content' = Content /\ Taken' = Taken
<1>1. PICK n \in Nat : \E s \in [1 .. n -> Nodes] : ListIs(n, s)
  BY DEF ListInv
<1>2. PICK s \in [1 .. n -> Nodes] : ListIs(n, s)
  BY <1>1
<1>3. PICK m : m = wnode[w]
  OBVIOUS
<1>4. /\ wpc[w] = "free" /\ wpc' = [wpc EXCEPT ![w] = "serve"]
      /\ wfd' = [wfd EXCEPT ![w] = node[m].fd] /\ node' = [node EXCEPT ![m] = Freed]
      /\ wnode' = [wnode EXCEPT ![w] = NULL] /\ UNCHANGED <<head, tail>>
  BY <1>3 DEF PopFree
<1>5. \A q \in Nodes \ {m} : node'[q] = node[q]
  BY <1>4 DEF ListInv, TypeOK
<1>6. Content' = Content
  <2>1. \A k \in 1 .. n : s[k] # m
    BY <1>2, <1>3 DEF ListIs, Held
  <2> QED
    BY <2>1, <1>2, <1>4, <1>5, SameContent
<1>7. \A v \in Workers \ {w} :
         /\ wpc'[v] = wpc[v] /\ wnode'[v] = wnode[v] /\ wfd'[v] = wfd[v]
         /\ wpc[v] \in {"unlock", "free"} => wnode[v] \in Nodes \ {m}
  <2>1. ASSUME NEW v \in Workers \ {w}, wpc[v] \in {"unlock", "free"}
        PROVE  wnode[v] \in Nodes \ {m}
    BY <1>3, <2>1, WorkQueueAssumption DEF ListInv, TypeOK, Places, NULL
  <2> QED
    BY <2>1, <1>4 DEF ListInv, TypeOK
<1>8. \A v \in Workers \ {w} : Taken'[v] = Taken[v]
  BY <1>5, <1>7 DEF Taken
<1>9. Taken'[w] = Taken[w]
  BY <1>3, <1>4 DEF Taken, ListInv, TypeOK
<1>10. Taken' = Taken
  BY <1>8, <1>9 DEF Taken
<1> QED
  BY <1>6, <1>10

\* Steps that touch no node are nothing to FdQueue.
LEMMA QuietAbstract ==
    ASSUME ListInv, UNCHANGED <<head, tail, node, wnode, wfd>>,
           \A w \in Workers :
              wpc'[w] \in {"unlock", "free"} <=> wpc[w] \in {"unlock", "free"}
    PROVE  Content' = Content /\ Taken' = Taken
<1>1. Content' = Content
  BY DEF Content, Linked, Hop
<1>2. Taken' = Taken
  BY DEF Taken
<1> QED
  BY <1>1, <1>2

\* The end of a connection is Done.
LEMMA ServeDoneAbstract ==
    ASSUME ListInv, NEW w \in Workers, ServeDone(w)
    PROVE  /\ Content' = Content /\ Taken[w] # None
           /\ Taken' = [Taken EXCEPT ![w] = None]
<1>1. /\ wpc[w] = "serve" /\ wpc' = [wpc EXCEPT ![w] = "lock"]
      /\ wfd' = [wfd EXCEPT ![w] = None] /\ UNCHANGED <<head, tail, node, wnode>>
  BY DEF ServeDone
<1>2. Content' = Content
  BY <1>1 DEF Content, Linked, Hop
<1>3. Taken[w] # None
  BY <1>1 DEF Taken, ListInv, Places
<1>4. \A v \in Workers : Taken'[v] = IF v = w THEN None ELSE Taken[v]
  BY <1>1 DEF Taken, ListInv, TypeOK
<1>5. Taken' = [Taken EXCEPT ![w] = None]
  BY <1>4 DEF Taken
<1> QED
  BY <1>2, <1>3, <1>5

\* A worker's other steps.
LEMMA WorkerQuietAbstract ==
    ASSUME ListInv, NEW w \in Workers,
           PopLock(w) \/ PopTest(w) \/ PopRelock(w) \/ PopUnlock(w) \/ SpuriousWakeup(w)
    PROVE  Content' = Content /\ Taken' = Taken
<1>1. UNCHANGED <<head, tail, node, wnode, wfd>>
  BY DEF PopLock, PopTest, PopRelock, PopUnlock, SpuriousWakeup, workerVars
<1>2. \A v \in Workers : wpc'[v] \in {"unlock", "free"} <=> wpc[v] \in {"unlock", "free"}
  BY DEF PopLock, PopTest, PopRelock, PopUnlock, SpuriousWakeup, workerVars, ListInv, TypeOK
<1> QED
  BY <1>1, <1>2, QuietAbstract

\* The linked list with its mutex and condition variable is a first-in first-out
\* queue: every step is a push of an accepted connection, a pop of the oldest by an
\* idle worker, the end of one, or nothing.
THEOREM FifoCorrect == Spec => IsFifo
<1>1. Init => Fifo!Init
  <2> SUFFICES ASSUME Init
               PROVE  Fifo!Init
    OBVIOUS
  <2>1. PICK n \in Nat : \E s \in [1 .. n -> Nodes] : ListIs(n, s)
    BY ListInit DEF ListInv
  <2>2. PICK s \in [1 .. n -> Nodes] : ListIs(n, s)
    BY <2>1
  <2>3. n = 0
    BY <2>2, WorkQueueAssumption DEF Init, ListIs, Chain, NULL
  <2>4. Content = <<>>
    <3>1. Content = [k \in 1 .. 0 |-> node[s[k]].fd]
      BY <2>2, <2>3, ContentIs
    <3> QED
      BY <3>1
  <2>5. Taken = [w \in Workers |-> None]
    BY DEF Init, Taken
  <2> QED
    BY <2>4, <2>5 DEF Fifo!Init, Taken
<1>2. ListInv /\ [Next]_vars => [Fifo!Next]_Fifo!vars
  <2> SUFFICES ASSUME ListInv, [Next]_vars
               PROVE  [Fifo!Next]_Fifo!vars
    OBVIOUS
  <2>1. ASSUME Content' = Content, Taken' = Taken
        PROVE  UNCHANGED Fifo!vars
    BY <2>1 DEF Fifo!vars, Taken
  <2>2. CASE PushAlloc
    BY <2>2, <2>1, PushAllocAbstract
  <2>3. CASE PushNoMemory \/ PushLock \/ PushSignal \/ PushUnlock
    <3>1. UNCHANGED <<head, tail, node, wnode, wfd, wpc>>
      BY <2>3 DEF PushNoMemory, PushLock, PushSignal, PushUnlock, workerVars
    <3> QED
      BY <3>1, <2>1, QuietAbstract
  <2>4. CASE PushLink
    <3>1. Taken' = Taken /\ \E x \in Items : Content' = Append(Content, x)
      BY <2>4, PushLinkAbstract
    <3>2. \E x \in Items : Fifo!Push(x)
      BY <3>1 DEF Fifo!Push, Taken
    <3> QED
      BY <3>2 DEF Fifo!Next
  <2>5. ASSUME NEW w \in Workers, PopTake(w)
        PROVE  Fifo!Next
    <3>1. /\ Taken[w] = None /\ Content # <<>>
          /\ Taken' = [Taken EXCEPT ![w] = Head(Content)]
          /\ Content' = Tail(Content)
      BY <2>5, PopTakeAbstract
    <3>2. Fifo!Pop(w)
      BY <3>1 DEF Fifo!Pop, Taken
    <3> QED
      BY <3>2 DEF Fifo!Next
  <2>6. ASSUME NEW w \in Workers, ServeDone(w)
        PROVE  Fifo!Next
    <3>1. /\ Content' = Content /\ Taken[w] # None
          /\ Taken' = [Taken EXCEPT ![w] = None]
      BY <2>6, ServeDoneAbstract
    <3>2. Fifo!Done(w)
      BY <3>1 DEF Fifo!Done, Taken
    <3> QED
      BY <3>2 DEF Fifo!Next
  <2>7. ASSUME NEW w \in Workers,
               \/ PopLock(w) \/ PopTest(w) \/ PopRelock(w) \/ PopUnlock(w)
               \/ PopFree(w) \/ SpuriousWakeup(w)
        PROVE  UNCHANGED Fifo!vars
    BY <2>7, <2>1, WorkerQuietAbstract, PopFreeAbstract
  <2>8. CASE UNCHANGED vars
    <3>1. UNCHANGED <<head, tail, node, wnode, wfd, wpc>>
      BY <2>8 DEF vars
    <3> QED
      BY <3>1, <2>1, QuietAbstract
  <2>9. CASE MainNext
    BY <2>9, <2>2, <2>3, <2>4 DEF MainNext
  <2>10. ASSUME NEW w \in Workers, WorkerNext(w) \/ SpuriousWakeup(w)
         PROVE  [Fifo!Next]_Fifo!vars
    BY <2>10, <2>5, <2>6, <2>7 DEF WorkerNext
  <2> QED
    BY <2>8, <2>9, <2>10 DEF Next
<1> QED
  BY <1>1, <1>2, ListInvariant, PTL DEF Spec, IsFifo, Fifo!Spec
=============================================================================
