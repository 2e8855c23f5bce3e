----------------------------- MODULE PartsProofs -----------------------------
(***************************************************************************)
(* Proofs about the parts that share no state: SocketServer, for any       *)
(* backlog and any number of connections and calls of listen;              *)
(* EmbeddedLinkedList, for any set of nodes and any sequence of            *)
(* operations; FileSystemWatcher, for any set of files and any sequence of *)
(* changes, batches and calls.                                             *)
(***************************************************************************)
EXTENDS SocketServer, EmbeddedLinkedList, FileSystemWatcher, SequenceLemmas

(* SocketServer.  What a connection is known by is its number. *)

(* The numbers of what was handed out. *)
HandedIds == [i \in DOMAIN handed |-> handed[i].id]

(* Known is a sequence of numbers, and HandedIds follows handed. *)
LEMMA KnownIs ==
    ASSUME ServerType
    PROVE  /\ HandedIds \in Seq(Nat) /\ Known = (HandedIds \o accepted) \o backlog
           /\ Known \in Seq(Nat)
<1>1. DOMAIN handed = 1 .. Len(handed) /\ Len(handed) \in Nat
      /\ \A i \in 1 .. Len(handed) : handed[i].id \in Nat
  <2>1. handed \in Seq([id : Nat, mode : Modes])
    BY DEF ServerType
  <2>2. \A i \in 1 .. Len(handed) : handed[i] \in [id : Nat, mode : Modes]
    BY <2>1, ElementOfSeq
  <2> QED
    BY <2>1, <2>2
<1>2. HandedIds \in Seq(Nat)
  BY <1>1 DEF HandedIds
<1> QED
  BY <1>2 DEF ServerType, Known, HandedIds

(* What a step does to the connections that are known of: it adds the next *)
(* one, forgets those the kernel had queued, or leaves them as they are.   *)
LEMMA KnownStep ==
    ASSUME ServerType, ServerType', [ServerNext]_serverVars
    PROVE  \/ Known' = Known /\ connections' = connections
           \/ Known' = Append(Known, connections + 1) /\ connections' = connections + 1
           \/ Known' = HandedIds \o accepted /\ connections' = connections
<1> USE DEF ServerType
<1>1. HandedIds \in Seq(Nat) /\ Known = (HandedIds \o accepted) \o backlog
  BY KnownIs
<1>2. HandedIds' \in Seq(Nat) /\ Known' = (HandedIds' \o accepted') \o backlog'
  <2>1. DOMAIN handed' = 1 .. Len(handed') /\ Len(handed') \in Nat
        /\ \A i \in 1 .. Len(handed') : handed'[i].id \in Nat
    <3>1. handed' \in Seq([id : Nat, mode : Modes])
      BY DEF Modes
    <3>2. \A i \in 1 .. Len(handed') : handed'[i] \in [id : Nat, mode : Modes]
      BY <3>1, ElementOfSeq
    <3> QED
      BY <3>1, <3>2
  <2>2. HandedIds' \in Seq(Nat)
    BY <2>1 DEF HandedIds
  <2> QED
    BY <2>2 DEF Known, HandedIds
<1>3. handed' = handed => HandedIds' = HandedIds
  BY DEF HandedIds
<1>4. CASE UNCHANGED <<handed, accepted, backlog, connections>>
  BY <1>1, <1>2, <1>3, <1>4
<1>5. CASE UNCHANGED <<handed, accepted, connections>> /\ backlog' = <<>>
  <2>1. Known' = (HandedIds \o accepted) \o <<>>
    BY <1>2, <1>3, <1>5
  <2>2. HandedIds \o accepted \in Seq(Nat)
    BY <1>1
  <2>3. Known' = HandedIds \o accepted
    BY <2>1, <2>2, ConcatEmptySeq
  <2> QED
    BY <1>5, <2>3
<1>6. CASE NextConnection
  <2> DEFINE h == Head(accepted)
             r == [id |-> h, mode |-> IF serverPath THEN "unix" ELSE "tcp"]
  <2>1. h \in Nat /\ accepted # <<>> /\ accepted' = Tail(accepted) /\ handed' = Append(handed, r)
        /\ UNCHANGED <<backlog, connections>>
    BY <1>6 DEF NextConnection, kernelQueue
  <2>2. r \in [id : Nat, mode : Modes] /\ r.id = h
    BY <2>1 DEF Modes
  <2> HIDE DEF r, h
  <2>3. HandedIds' = Append(HandedIds, h)
    <3>1. Len(handed') = Len(handed) + 1 /\ (\A i \in 1 .. Len(handed) : handed'[i] = handed[i])
          /\ handed'[Len(handed) + 1] = r
      BY <2>1, <2>2
    <3>2. DOMAIN handed' = 1 .. Len(handed) + 1 /\ DOMAIN handed = 1 .. Len(handed)
      BY <3>1
    <3>3. Len(HandedIds') = Len(handed) + 1 /\ Len(HandedIds) = Len(handed)
      BY <1>1, <1>2, <3>2 DEF HandedIds
    <3>4. ASSUME NEW i \in 1 .. Len(handed) PROVE HandedIds'[i] = HandedIds[i]
      <4>1. i \in DOMAIN handed' /\ i \in DOMAIN handed /\ handed'[i] = handed[i]
        BY <3>1, <3>2
      <4>2. HandedIds'[i] = handed'[i].id /\ HandedIds[i] = handed[i].id
        BY <4>1 DEF HandedIds
      <4> QED
        BY <4>1, <4>2
    <3>5. HandedIds'[Len(handed) + 1] = h
      BY <2>2, <3>1, <3>2 DEF HandedIds
    <3> DEFINE n == Append(HandedIds, h)
    <3>6. n \in Seq(Nat) /\ Len(n) = Len(handed) + 1
          /\ (\A i \in 1 .. Len(handed) : n[i] = HandedIds[i]) /\ n[Len(handed) + 1] = h
      BY <1>1, <2>1, <3>3, AppendProperties
    <3> HIDE DEF n
    <3>7. ASSUME NEW i \in 1 .. Len(HandedIds') PROVE HandedIds'[i] = n[i]
      <4>1. i = Len(handed) + 1 \/ i \in 1 .. Len(handed)
        BY <3>3
      <4> QED
        BY <3>4, <3>5, <3>6, <4>1
    <3>8. HandedIds' = n
      BY <1>2, <3>3, <3>6, <3>7, SeqEqual
    <3> QED
      BY <3>8 DEF n
  <2>4. Append(HandedIds, h) \o Tail(accepted) = HandedIds \o accepted
    BY <1>1, <2>1, HeadMoves DEF h
  <2> QED
    BY <1>1, <1>2, <2>1, <2>3, <2>4
<1>7. CASE Accepts
  <2> DEFINE b == Head(backlog)
             old == HandedIds \o accepted
  <2>1. b \in Nat /\ backlog # <<>> /\ accepted' = Append(accepted, b) /\ backlog' = Tail(backlog)
        /\ handed' = handed /\ connections' = connections
    BY <1>7 DEF Accepts
  <2>2. old \in Seq(Nat)
    BY <1>1
  <2>4. Append(old, b) \o Tail(backlog) = old \o backlog
    <3> HIDE DEF old
    <3> QED
      BY <2>1, <2>2, HeadMoves
  <2> HIDE DEF b
  <2>3. HandedIds \o Append(accepted, b) = Append(old, b)
    <3>1. accepted \in Seq(Nat) /\ b \in Nat
      BY <2>1
    <3> HIDE DEF ServerType, HandedIds, old
    <3>2. HandedIds \o Append(accepted, b) = Append(HandedIds \o accepted, b)
      BY <1>1, <3>1, AppendInConcat
    <3> QED
      BY <3>2 DEF old
  <2> HIDE DEF old
  <2> QED
    BY <1>1, <1>2, <1>3, <2>1, <2>3, <2>4 DEF old
<1>8. CASE ClientConnects
  <2> DEFINE old == HandedIds \o accepted
  <2>1. connections' = connections + 1 /\ backlog' = Append(backlog, connections + 1)
        /\ UNCHANGED <<handed, accepted>>
    BY <1>8 DEF ClientConnects
  <2>2. old \in Seq(Nat) /\ connections + 1 \in Nat
    BY <1>1
  <2> HIDE DEF old
  <2>3. old \o Append(backlog, connections + 1) = Append(old \o backlog, connections + 1)
    <3>1. backlog \in Seq(Nat)
      OBVIOUS
    <3> HIDE DEF ServerType, HandedIds
    <3> QED
      BY <2>2, <3>1, AppendInConcat
  <2> QED
    BY <1>1, <1>2, <1>3, <2>1, <2>3 DEF old
<1> QED
  BY <1>4, <1>5, <1>6, <1>7, <1>8
     DEF ServerNext, ServerClose, ListenFails, ServerListens, CloseFd, ServerReadable, SlotReturns,
         AcceptsNone, AcceptFails, kernelQueue, serverVars

(* Types are kept. *)
LEMMA ServerTypeStep ==
    ASSUME ServerType, [ServerNext]_serverVars
    PROVE  ServerType'
<1> USE DEF ServerType
<1>1. CASE NextConnection
  BY <1>1 DEF NextConnection, Modes, kernelQueue, fdVars
<1>2. CASE Accepts
  BY <1>2 DEF Accepts, fdVars
<1>3. CASE ClientConnects
  BY <1>3 DEF ClientConnects, fdVars
<1>4. ASSUME NEW kind \in {"tcp", "unix", "fd"}, ServerListens(kind) PROVE ServerType'
  <2>1. serverPath' \in BOOLEAN
    BY <1>4, Zenon DEF ServerListens
  <2>2. serverFd' = kind /\ backlog' = <<>> /\ serverEdge' = FALSE /\ listens' = listens + 1
        /\ UNCHANGED <<accepted, serverAt, connections, serverErrors, handed>>
    BY <1>4, Zenon DEF ServerListens
  <2>3. listens' \in Nat /\ backlog' \in Seq(Nat) /\ serverFd' \in {"closed", "tcp", "unix", "fd"}
    BY <2>2
  <2>4. serverEdge' \in BOOLEAN
    BY <2>2, Zenon
  <2> QED
    BY <2>1, <2>2, <2>3, <2>4, Zenon
<1>5. CASE ServerClose \/ ListenFails \/ AcceptFails
  <2>1. serverPath' \in BOOLEAN /\ serverEdge' \in BOOLEAN
    BY <1>5, Zenon DEF ServerClose, ListenFails, AcceptFails, CloseFd
  <2>2. serverFd' = "closed" /\ backlog' = <<>> /\ UNCHANGED <<accepted, connections, handed>>
        /\ (serverErrors' = serverErrors \/ serverErrors' = serverErrors + 1)
        /\ (listens' = listens \/ listens' = listens + 1)
        /\ (serverAt' = serverAt \/ serverAt' = "idle")
    BY <1>5, Zenon DEF ServerClose, ListenFails, AcceptFails, CloseFd
  <2>3. serverErrors' \in Nat /\ listens' \in Nat /\ serverAt' \in {"idle", "accept", "slot"}
    BY <2>2
  <2>4. backlog' \in Seq(Nat) /\ serverFd' \in {"closed", "tcp", "unix", "fd"}
    BY <2>2
  <2> QED
    BY <2>1, <2>2, <2>3, <2>4, Zenon
<1>6. CASE ServerReadable \/ SlotReturns \/ AcceptsNone \/ UNCHANGED serverVars
  <2>1. serverPath' \in BOOLEAN /\ serverEdge' \in BOOLEAN
    BY <1>6, Zenon DEF ServerReadable, SlotReturns, AcceptsNone, kernelQueue, fdVars, serverVars
  <2> QED
    BY <1>6, <2>1 DEF ServerReadable, SlotReturns, AcceptsNone, kernelQueue, fdVars, serverVars
<1> QED
  BY <1>1, <1>2, <1>3, <1>4, <1>5, <1>6, Zenon
     DEF ServerNext

(* Ascending numbers, none above the count, stay so. *)
LEMMA OrderStep ==
    ASSUME ServerInv, ServerType', [ServerNext]_serverVars
    PROVE  /\ \A i, k \in DOMAIN Known' : i < k => Known'[i] < Known'[k]
           /\ KnownHasCome'
<1>1. Known \in Seq(Nat) /\ HandedIds \in Seq(Nat) /\ Known = (HandedIds \o accepted) \o backlog
  BY KnownIs DEF ServerInv
<1>2. /\ \A i, k \in DOMAIN Known : i < k => Known[i] < Known[k]
      /\ \A i \in DOMAIN Known : Known[i] <= connections
      /\ connections \in Nat /\ accepted \in Seq(Nat) /\ backlog \in Seq(Nat)
  BY DEF ServerInv, ServerType, ConnectionsServed, KnownHasCome
<1> USE DEF KnownHasCome
<1>3. CASE Known' = Known /\ connections' = connections
  BY <1>2, <1>3
<1>4. CASE Known' = Append(Known, connections + 1) /\ connections' = connections + 1
  <2>1. Known' \in Seq(Nat) /\ Len(Known') = Len(Known) + 1
        /\ (\A i \in 1 .. Len(Known) : Known'[i] = Known[i]) /\ Known'[Len(Known) + 1] = connections + 1
    BY <1>1, <1>2, <1>4, AppendProperties
  <2>2. DOMAIN Known = 1 .. Len(Known) /\ DOMAIN Known' = 1 .. Len(Known) + 1 /\ Len(Known) \in Nat
        /\ \A i \in 1 .. Len(Known) : Known[i] \in Nat
    BY <1>1, <2>1, LenProperties, ElementOfSeq
  <2>3. ASSUME NEW i \in 1 .. Len(Known) + 1
        PROVE  IF i = Len(Known) + 1 THEN Known'[i] = connections + 1
               ELSE i \in DOMAIN Known /\ Known'[i] = Known[i] /\ Known[i] <= connections /\ Known[i] \in Nat
    <3>1. i = Len(Known) + 1 \/ i \in 1 .. Len(Known)
      BY <2>2
    <3> QED
      BY <1>2, <2>1, <2>2, <3>1
  <2>4. KnownHasCome'
    BY <1>2, <1>4, <2>2, <2>3
  <2>5. ASSUME NEW i \in 1 .. Len(Known) + 1, NEW k \in 1 .. Len(Known) + 1, i < k
        PROVE  Known'[i] < Known'[k]
    <3>1. i \in 1 .. Len(Known) /\ i # Len(Known) + 1
      BY <2>2, <2>5
    <3>2. i \in DOMAIN Known /\ Known'[i] = Known[i] /\ Known[i] <= connections /\ Known[i] \in Nat
      BY <2>3, <3>1
    <3>3. CASE k = Len(Known) + 1
      <4>1. Known'[k] = connections + 1
        BY <2>1, <3>3
      <4> QED
        BY <1>2, <3>2, <4>1
    <3>4. CASE k # Len(Known) + 1
      <4>1. k \in DOMAIN Known /\ Known'[k] = Known[k]
        BY <2>3, <3>4
      <4> QED
        BY <1>2, <2>5, <3>2, <4>1
    <3> QED
      BY <3>3, <3>4
  <2> QED
    BY <2>2, <2>4, <2>5
<1>5. CASE Known' = HandedIds \o accepted /\ connections' = connections
  <2> DEFINE old == HandedIds \o accepted
  <2>1. old \in Seq(Nat)
    BY <1>1, <1>2
  <2> HIDE DEF old
  <2>2. Len(old) <= Len(Known) /\ \A i \in 1 .. Len(old) : Known[i] = old[i]
    BY <1>1, <1>2, <2>1 DEF old
  <2>3. DOMAIN old = 1 .. Len(old) /\ DOMAIN Known = 1 .. Len(Known)
    BY <1>1, <2>1
  <2>4. \A i \in DOMAIN old : i \in DOMAIN Known /\ Known[i] = old[i]
    <3>1. Len(old) \in Nat /\ Len(Known) \in Nat
      BY <1>1, <2>1
    <3> TAKE i \in DOMAIN old
    <3>2. i \in 1 .. Len(old) /\ i \in 1 .. Len(Known)
      BY <2>2, <2>3, <3>1
    <3> QED
      BY <2>2, <2>3, <3>2
  <2>5. Known' = old /\ connections' = connections
    BY <1>5 DEF old
  <2> QED
    BY <1>2, <2>4, <2>5
<1> QED
  BY <1>3, <1>4, <1>5, KnownStep DEF ServerInv

(* The edge that tells of queued connections is not lost. *)
LEMMA EdgeStep ==
    ASSUME ServerInv, [ServerNext]_serverVars
    PROVE  serverAt' = "idle" /\ backlog' # <<>> => serverEdge'
BY DEF ServerInv, ServerType, ConnectionsServed, ServerNext, ServerClose, ListenFails, NextConnection,
       ServerListens, CloseFd, ServerReadable, Accepts, SlotReturns, AcceptsNone, AcceptFails,
       ClientConnects, kernelQueue, fdVars, serverVars

(* The invariant of the server is established and kept. *)
THEOREM ServerInvariant == ServerSpec => []ServerInv
<1>1. ServerInit => ServerInv
  <2> SUFFICES ASSUME ServerInit PROVE ServerInv
    OBVIOUS
  <2>1. ServerType
    <3>1. serverPath \in BOOLEAN /\ serverEdge \in BOOLEAN
      BY Zenon DEF ServerInit
    <3> QED
      BY <3>1 DEF ServerInit, ServerType
  <2>2. Len(Known) = 0 /\ Known \in Seq(Nat)
    <3>1. HandedIds \in Seq(Nat) /\ Known = (HandedIds \o accepted) \o backlog
      BY <2>1, KnownIs
    <3>2. Len(HandedIds) = 0
      BY <3>1 DEF ServerInit, HandedIds
    <3> QED
      BY <3>1, <3>2 DEF ServerInit
  <2>3. DOMAIN Known = {}
    BY <2>2
  <2> QED
    BY <2>1, <2>3 DEF ServerInit, ServerInv, ConnectionsServed, KnownHasCome
<1>2. ServerInv /\ [ServerNext]_serverVars => ServerInv'
  BY ServerTypeStep, OrderStep, EdgeStep DEF ServerInv, ConnectionsServed
<1> QED
  BY <1>1, <1>2, PTL DEF ServerSpec

(* However connections arrive, are accepted, handed out and dropped by a   *)
(* close, socketCallback forgets none that the kernel still has, and       *)
(* nextConnection returns them in order, each once.                        *)
THEOREM ConnectionsAlwaysServed == ServerSpec => []ConnectionsServed
BY ServerInvariant, PTL DEF ServerInv
-----------------------------------------------------------------------------
(* EmbeddedLinkedList.  insert and remove are the only two operations on   *)
(* the links, so each has one lemma: it turns the links of a sequence into *)
(* those of the sequence with one node more, or one less.  moveToEnd and   *)
(* moveToFront are a remove followed by an insert.  The invariant adds     *)
(* that no node is in the list twice: a link leads to one place only.      *)

(* The links l are those of s, a sequence without repetitions. *)
Listed(l, s) ==
    /\ s \in Seq(Nodes) /\ IsInjective(s)
    /\ l.next \in [Nodes -> Nodes \cup {Null}] /\ l.prev \in [Nodes -> Nodes \cup {Null}]
    /\ LinkedAs(l, s)

(* Places and nodes: null outside the sequence, a different node at each   *)
(* place of it.                                                            *)
LEMMA Places ==
    ASSUME NEW s \in Seq(Nodes), IsInjective(s)
    PROVE  /\ Len(s) \in Nat
           /\ \A i \in Int : NodeAt(s, i) = Null <=> i \notin 1 .. Len(s)
           /\ \A i \in 1 .. Len(s) : NodeAt(s, i) = s[i] /\ NodeAt(s, i) \in Nodes
           /\ \A i, j \in 1 .. Len(s) : NodeAt(s, i) = NodeAt(s, j) => i = j
           /\ \A x : x \in Range(s) <=> \E i \in 1 .. Len(s) : NodeAt(s, i) = x
<1>1. Len(s) \in Nat /\ DOMAIN s = 1 .. Len(s) /\ \A i \in 1 .. Len(s) : s[i] \in Nodes
  OBVIOUS
<1>2. \A i \in 1 .. Len(s) : NodeAt(s, i) = s[i] /\ NodeAt(s, i) \in Nodes
  BY <1>1 DEF NodeAt
<1>3. \A i \in Int : NodeAt(s, i) = Null <=> i \notin 1 .. Len(s)
  BY <1>2, ListAssumption DEF NodeAt
<1>4. \A i, j \in 1 .. Len(s) : NodeAt(s, i) = NodeAt(s, j) => i = j
  BY <1>1, <1>2 DEF IsInjective
<1>5. \A x : x \in Range(s) <=> \E i \in 1 .. Len(s) : NodeAt(s, i) = x
  BY <1>1, <1>2 DEF Range
<1> QED
  BY <1>1, <1>2, <1>3, <1>4, <1>5

(* The links, place by place. *)
LEMMA LinksByPlace ==
    ASSUME NEW l, NEW s \in Seq(Nodes), IsInjective(s)
    PROVE  LinkedAs(l, s) <=>
             /\ l.count = Len(s) /\ l.front = NodeAt(s, 1) /\ l.back = NodeAt(s, Len(s))
             /\ \A i \in 1 .. Len(s) : /\ l.next[NodeAt(s, i)] = NodeAt(s, i + 1)
                                       /\ l.prev[NodeAt(s, i)] = NodeAt(s, i - 1)
             /\ \A x \in Nodes : (\A i \in 1 .. Len(s) : NodeAt(s, i) # x) => l.next[x] = Null /\ l.prev[x] = Null
<1>1. \A i \in 1 .. Len(s) : NodeAt(s, i) = s[i]
  BY Places
<1>2. \A x : x \in Range(s) <=> \E i \in 1 .. Len(s) : NodeAt(s, i) = x
  BY Places
<1> QED
  BY <1>1, <1>2 DEF LinkedAs

(* insert puts the node behind the one at place k, in front for k = 0. *)
LEMMA InsertLinks ==
    ASSUME NEW l, NEW s, Listed(l, s), NEW t \in Nodes, t \notin Range(s), NEW k \in 0 .. Len(s),
           NEW u \in Seq(Nodes), Len(u) = Len(s) + 1,
           \A j \in 1 .. Len(s) + 1 : u[j] = IF j < k + 1 THEN s[j] ELSE IF j = k + 1 THEN t ELSE s[j - 1]
    PROVE  Listed(Inserted(l, t, NodeAt(s, k)), u)
<1> DEFINE n == Len(s)
           after == NodeAt(s, k)
           succ == NodeAt(s, k + 1)
           m == Inserted(l, t, after)
<1>1. s \in Seq(Nodes) /\ IsInjective(s) /\ LinkedAs(l, s)
      /\ l.next \in [Nodes -> Nodes \cup {Null}] /\ l.prev \in [Nodes -> Nodes \cup {Null}]
  BY DEF Listed
<1>2. /\ n \in Nat
      /\ \A i \in Int : NodeAt(s, i) = Null <=> i \notin 1 .. n
      /\ \A i \in 1 .. n : NodeAt(s, i) = s[i] /\ NodeAt(s, i) \in Nodes
      /\ \A i, j \in 1 .. n : NodeAt(s, i) = NodeAt(s, j) => i = j
      /\ \A i \in 1 .. n : NodeAt(s, i) # t
  BY <1>1, Places
<1>3. /\ l.count = n /\ l.front = NodeAt(s, 1) /\ l.back = NodeAt(s, n)
      /\ \A i \in 1 .. n : l.next[NodeAt(s, i)] = NodeAt(s, i + 1) /\ l.prev[NodeAt(s, i)] = NodeAt(s, i - 1)
      /\ \A x \in Nodes : (\A i \in 1 .. n : NodeAt(s, i) # x) => l.next[x] = Null /\ l.prev[x] = Null
  BY <1>1, LinksByPlace
<1>4. ASSUME NEW i \in Int
      PROVE  NodeAt(u, i) = IF i < k + 1 THEN NodeAt(s, i) ELSE IF i = k + 1 THEN t ELSE NodeAt(s, i - 1)
  BY <1>2 DEF NodeAt
<1>5. IsInjective(u)
  <2>1. DOMAIN u = 1 .. n + 1
    OBVIOUS
  <2>2. \A i \in 1 .. n + 1 : NodeAt(u, i) = u[i]
    BY <1>2 DEF NodeAt
  <2> SUFFICES ASSUME NEW i \in 1 .. n + 1, NEW j \in 1 .. n + 1, NodeAt(u, i) = NodeAt(u, j) PROVE i = j
    BY <2>1, <2>2 DEF IsInjective
  <2> DEFINE Src(x) == IF x < k + 1 THEN x ELSE x - 1
  <2>3. \A x \in 1 .. n + 1 : x # k + 1 => Src(x) \in 1 .. n /\ NodeAt(u, x) = NodeAt(s, Src(x))
    BY <1>2, <1>4
  <2>4. \A x, y \in 1 .. n + 1 : x # k + 1 /\ y # k + 1 /\ Src(x) = Src(y) => x = y
    BY <1>2
  <2>5. NodeAt(u, k + 1) = t
    BY <1>2, <1>4
  <2> HIDE DEF Src
  <2> QED
    BY <1>2, <2>3, <2>4, <2>5
<1>6. (IF after = Null THEN l.front ELSE l.next[after]) = succ
  BY <1>2, <1>3
<1>7. t # Null /\ (after = Null <=> k = 0) /\ (succ = Null <=> k = n)
      /\ (after # Null => after \in Nodes) /\ (succ # Null => succ \in Nodes) /\ after # t /\ succ # t
  BY <1>2, ListAssumption
<1> HIDE DEF after, succ
<1>8. m = [front |-> IF after = Null THEN t ELSE l.front,
           back  |-> IF succ = Null THEN t ELSE l.back,
           count |-> l.count + 1,
           next  |-> With([l.next EXCEPT ![t] = succ], after, t),
           prev  |-> With([l.prev EXCEPT ![t] = after], succ, t)]
  BY <1>6 DEF Inserted
<1>a. after \in Nodes \cup {Null} /\ succ \in Nodes \cup {Null} /\ t \in Nodes \cup {Null}
  BY <1>7
<1> DEFINE f == [l.next EXCEPT ![t] = succ]
           g == [l.prev EXCEPT ![t] = after]
<1>b. /\ f \in [Nodes -> Nodes \cup {Null}] /\ \A x \in Nodes : f[x] = IF x = t THEN succ ELSE l.next[x]
      /\ g \in [Nodes -> Nodes \cup {Null}] /\ \A x \in Nodes : g[x] = IF x = t THEN after ELSE l.prev[x]
  BY <1>1, <1>a
<1>c. m.front = (IF after = Null THEN t ELSE l.front) /\ m.back = (IF succ = Null THEN t ELSE l.back)
      /\ m.count = l.count + 1 /\ m.next = With(f, after, t) /\ m.prev = With(g, succ, t)
  BY <1>8
<1> HIDE DEF f, g, m
<1>k. f \in [Nodes -> Nodes \cup {Null}] /\ g \in [Nodes -> Nodes \cup {Null}]
  BY <1>b
<1>d. /\ With(f, after, t) \in [Nodes -> Nodes \cup {Null}]
      /\ \A x \in Nodes : With(f, after, t)[x] = IF x = after THEN t ELSE f[x]
  BY <1>a, <1>k, ListAssumption DEF With
<1>e. /\ With(g, succ, t) \in [Nodes -> Nodes \cup {Null}]
      /\ \A x \in Nodes : With(g, succ, t)[x] = IF x = succ THEN t ELSE g[x]
  BY <1>a, <1>k, ListAssumption DEF With
<1>9. m.next \in [Nodes -> Nodes \cup {Null}]
      /\ \A x \in Nodes : m.next[x] = IF x = after THEN t ELSE IF x = t THEN succ ELSE l.next[x]
  BY <1>b, <1>c, <1>d
<1>10. m.prev \in [Nodes -> Nodes \cup {Null}]
      /\ \A x \in Nodes : m.prev[x] = IF x = succ THEN t ELSE IF x = t THEN after ELSE l.prev[x]
  BY <1>b, <1>c, <1>e
<1>11. m.count = n + 1 /\ m.front = NodeAt(u, 1) /\ m.back = NodeAt(u, n + 1)
  <2>1. m.front = NodeAt(u, 1)
    BY <1>2, <1>3, <1>4, <1>7, <1>c
  <2>2. m.back = NodeAt(u, n + 1)
    BY <1>2, <1>3, <1>4, <1>7, <1>c
  <2> QED
    BY <1>3, <1>c, <2>1, <2>2
<1>12. ASSUME NEW i \in 1 .. n + 1
       PROVE  m.next[NodeAt(u, i)] = NodeAt(u, i + 1) /\ m.prev[NodeAt(u, i)] = NodeAt(u, i - 1)
  <2>1. CASE i < k + 1
    <3>1. NodeAt(u, i) = NodeAt(s, i) /\ NodeAt(s, i) \in Nodes /\ NodeAt(s, i) # t /\ i \in 1 .. n
      BY <1>2, <1>4, <2>1
    <3>2. NodeAt(s, i) = after <=> i = k
      BY <1>2, <2>1, <3>1 DEF after
    <3>3. NodeAt(s, i) # succ
      BY <1>2, <2>1, <3>1 DEF succ
    <3>4. NodeAt(u, i + 1) = (IF i = k THEN t ELSE NodeAt(s, i + 1)) /\ NodeAt(u, i - 1) = NodeAt(s, i - 1)
      BY <1>2, <1>4, <2>1
    <3> QED
      BY <1>3, <1>9, <1>10, <3>1, <3>2, <3>3, <3>4
  <2>2. CASE i = k + 1
    <3>1. NodeAt(u, i) = t /\ NodeAt(u, i + 1) = succ /\ NodeAt(u, i - 1) = after
      BY <1>2, <1>4, <2>2 DEF after, succ
    <3> QED
      BY <1>7, <1>9, <1>10, <3>1
  <2>3. CASE i > k + 1
    <3> DEFINE j == i - 1
    <3>0. j \in 1 .. n /\ j > k /\ i = j + 1
      BY <1>2, <2>3
    <3> HIDE DEF j
    <3>1. NodeAt(u, i) = NodeAt(s, j) /\ NodeAt(s, j) \in Nodes /\ NodeAt(s, j) # t
          /\ NodeAt(u, i + 1) = NodeAt(s, j + 1)
          /\ NodeAt(u, i - 1) = IF j = k + 1 THEN t ELSE NodeAt(s, j - 1)
      BY <1>2, <1>4, <3>0
    <3>2. NodeAt(s, j) = succ <=> j = k + 1
      BY <1>2, <3>0 DEF succ
    <3>3. NodeAt(s, j) # after
      BY <1>2, <3>0 DEF after
    <3> QED
      BY <1>3, <1>9, <1>10, <3>0, <3>1, <3>2, <3>3
  <2> QED
    BY <1>2, <2>1, <2>2, <2>3
<1>13. ASSUME NEW x \in Nodes, \A i \in 1 .. n + 1 : NodeAt(u, i) # x
       PROVE  m.next[x] = Null /\ m.prev[x] = Null
  <2>1. x # t
    <3>1. k + 1 \in 1 .. n + 1 /\ NodeAt(u, k + 1) = t
      BY <1>2, <1>4
    <3> QED
      BY <1>13, <3>1
  <2>2. ASSUME NEW i \in 1 .. n PROVE NodeAt(s, i) # x
    <3>1. CASE i < k + 1
      BY <1>2, <1>4, <1>13, <3>1
    <3>2. CASE ~(i < k + 1)
      <4>1. i + 1 \in 1 .. n + 1 /\ NodeAt(u, i + 1) = NodeAt(s, (i + 1) - 1) /\ (i + 1) - 1 = i
        BY <1>2, <1>4, <3>2
      <4> QED
        BY <1>13, <4>1
    <3> QED
      BY <3>1, <3>2
  <2>3. x # after /\ x # succ
    BY <1>2, <2>2, ListAssumption DEF after, succ
  <2> QED
    BY <1>3, <1>9, <1>10, <2>1, <2>2, <2>3
<1>14. LinkedAs(m, u)
  BY <1>5, <1>11, <1>12, <1>13, LinksByPlace
<1> QED
  BY <1>5, <1>9, <1>10, <1>14 DEF Listed, m, after

(* The same, for InsertAt. *)
LEMMA InsertAtLinks ==
    ASSUME NEW l, NEW s, Listed(l, s), NEW t \in Nodes, t \notin Range(s), NEW k \in 0 .. Len(s)
    PROVE  Listed(Inserted(l, t, NodeAt(s, k)), InsertAt(s, k + 1, t))
<1> DEFINE i == k + 1
<1>1. s \in Seq(Nodes)
  BY DEF Listed
<1>2. i \in 1 .. Len(s) + 1
  BY <1>1
<1> HIDE DEF i
<1>3. InsertAt(s, i, t) \in Seq(Nodes) /\ Len(InsertAt(s, i, t)) = Len(s) + 1
      /\ \A j \in 1 .. Len(s) + 1 : InsertAt(s, i, t)[j] = IF j < i THEN s[j] ELSE IF j = i THEN t ELSE s[j - 1]
  BY <1>1, <1>2, InsertAtIs
<1> QED
  BY <1>3, InsertLinks DEF i

(* remove takes out the node at place k. *)
LEMMA RemoveLinks ==
    ASSUME NEW l, NEW s, Listed(l, s), NEW k \in 1 .. Len(s)
    PROVE  Listed(Removed(l, s[k]), RemoveAt(s, k)) /\ s[k] \notin Range(RemoveAt(s, k))
<1> DEFINE n == Len(s)
           t == s[k]
           u == RemoveAt(s, k)
           before == NodeAt(s, k - 1)
           behind == NodeAt(s, k + 1)
           m == Removed(l, t)
<1>1. s \in Seq(Nodes) /\ IsInjective(s) /\ LinkedAs(l, s)
      /\ l.next \in [Nodes -> Nodes \cup {Null}] /\ l.prev \in [Nodes -> Nodes \cup {Null}]
  BY DEF Listed
<1>2. /\ n \in Nat
      /\ \A i \in Int : NodeAt(s, i) = Null <=> i \notin 1 .. n
      /\ \A i \in 1 .. n : NodeAt(s, i) = s[i] /\ NodeAt(s, i) \in Nodes
      /\ \A i, j \in 1 .. n : NodeAt(s, i) = NodeAt(s, j) => i = j
  BY <1>1, Places
<1>3. /\ l.count = n /\ l.front = NodeAt(s, 1) /\ l.back = NodeAt(s, n)
      /\ \A i \in 1 .. n : l.next[NodeAt(s, i)] = NodeAt(s, i + 1) /\ l.prev[NodeAt(s, i)] = NodeAt(s, i - 1)
      /\ \A x \in Nodes : (\A i \in 1 .. n : NodeAt(s, i) # x) => l.next[x] = Null /\ l.prev[x] = Null
  BY <1>1, LinksByPlace
<1>4. u \in Seq(Nodes) /\ Len(u) = n - 1 /\ \A j \in 1 .. n - 1 : u[j] = IF j < k THEN s[j] ELSE s[j + 1]
  BY <1>1, RemoveAtIs
<1>5. t = NodeAt(s, k) /\ t \in Nodes
  BY <1>2
<1> HIDE DEF t, u
<1>6. ASSUME NEW i \in Int
      PROVE  NodeAt(u, i) = IF i < k THEN NodeAt(s, i) ELSE NodeAt(s, i + 1)
  BY <1>2, <1>4 DEF NodeAt
<1>7. IsInjective(u)
  <2>1. DOMAIN u = 1 .. n - 1
    BY <1>2, <1>4
  <2>2. \A i \in 1 .. n - 1 : NodeAt(u, i) = u[i]
    BY <1>2, <1>4 DEF NodeAt
  <2> SUFFICES ASSUME NEW i \in 1 .. n - 1, NEW j \in 1 .. n - 1, NodeAt(u, i) = NodeAt(u, j) PROVE i = j
    BY <2>1, <2>2 DEF IsInjective
  <2> DEFINE Src(x) == IF x < k THEN x ELSE x + 1
  <2>3. ASSUME NEW x \in 1 .. n - 1 PROVE Src(x) \in 1 .. n /\ NodeAt(u, x) = NodeAt(s, Src(x))
    <3>1. Src(x) \in 1 .. n
      BY <1>2
    <3>0. x \in Int
      OBVIOUS
    <3>2. NodeAt(u, x) = IF x < k THEN NodeAt(s, x) ELSE NodeAt(s, x + 1)
      BY <1>6, <3>0
    <3> QED
      BY <3>1, <3>2
  <2>4. \A x, y \in 1 .. n - 1 : Src(x) = Src(y) => x = y
    BY <1>2
  <2> HIDE DEF Src
  <2> QED
    BY <1>2, <2>3, <2>4
<1>8. \A i \in 1 .. n - 1 : NodeAt(u, i) # t
  <2> SUFFICES ASSUME NEW i \in 1 .. n - 1 PROVE NodeAt(u, i) # t
    OBVIOUS
  <2>1. k \in 1 .. n /\ n \in Nat
    BY <1>2
  <2>2. i \in Int /\ i + 1 \in 1 .. n /\ i \in 1 .. n
    BY <2>1
  <2>3. NodeAt(u, i) = IF i < k THEN NodeAt(s, i) ELSE NodeAt(s, i + 1)
    BY <1>6, <2>2
  <2>4. CASE i < k
    <3>1. i # k
      BY <2>1, <2>4
    <3>2. NodeAt(s, i) # NodeAt(s, k)
      BY <1>2, <2>1, <2>2, <3>1
    <3> QED
      BY <1>5, <2>3, <2>4, <3>2
  <2>5. CASE ~(i < k)
    <3>1. i + 1 # k
      BY <2>1, <2>2, <2>5
    <3>2. NodeAt(s, i + 1) # NodeAt(s, k)
      BY <1>2, <2>1, <2>2, <3>1
    <3> QED
      BY <1>5, <2>3, <2>5, <3>2
  <2> QED
    BY <2>4, <2>5
<1>9. (t = l.front <=> k = 1) /\ (t = l.back <=> k = n)
  BY <1>2, <1>3, <1>5
<1>10. (IF t = l.front THEN Null ELSE l.prev[t]) = before /\ (IF t = l.back THEN Null ELSE l.next[t]) = behind
  BY <1>2, <1>3, <1>5, <1>9
<1>11. t # Null /\ (before = Null <=> k = 1) /\ (behind = Null <=> k = n)
      /\ (before # Null => before \in Nodes) /\ (behind # Null => behind \in Nodes) /\ before # t /\ behind # t
  BY <1>2, <1>5, ListAssumption
<1> HIDE DEF before, behind
<1>12. m = [front |-> IF t = l.front THEN behind ELSE l.front,
            back  |-> IF t = l.back THEN before ELSE l.back,
            count |-> l.count - 1,
            next  |-> [With(l.next, before, behind) EXCEPT ![t] = Null],
            prev  |-> [With(l.prev, behind, before) EXCEPT ![t] = Null]]
  BY <1>10 DEF Removed
<1> DEFINE f == With(l.next, before, behind)
           g == With(l.prev, behind, before)
<1>a. /\ f \in [Nodes -> Nodes \cup {Null}] /\ \A x \in Nodes : f[x] = IF x = before THEN behind ELSE l.next[x]
      /\ g \in [Nodes -> Nodes \cup {Null}] /\ \A x \in Nodes : g[x] = IF x = behind THEN before ELSE l.prev[x]
  <2>1. before \in Nodes \cup {Null} /\ behind \in Nodes \cup {Null}
    BY <1>11
  <2>0. l.next \in [Nodes -> Nodes \cup {Null}] /\ l.prev \in [Nodes -> Nodes \cup {Null}]
    BY <1>1
  <2>2. /\ With(l.next, before, behind) \in [Nodes -> Nodes \cup {Null}]
        /\ \A x \in Nodes : With(l.next, before, behind)[x] = IF x = before THEN behind ELSE l.next[x]
    BY <2>1, <2>0, ListAssumption DEF With
  <2>3. /\ With(l.prev, behind, before) \in [Nodes -> Nodes \cup {Null}]
        /\ \A x \in Nodes : With(l.prev, behind, before)[x] = IF x = behind THEN before ELSE l.prev[x]
    BY <2>1, <2>0, ListAssumption DEF With
  <2> QED
    BY <2>2, <2>3
<1>b. m.front = (IF t = l.front THEN behind ELSE l.front) /\ m.back = (IF t = l.back THEN before ELSE l.back)
      /\ m.count = l.count - 1 /\ m.next = [f EXCEPT ![t] = Null] /\ m.prev = [g EXCEPT ![t] = Null]
  BY <1>12
<1> HIDE DEF f, g, m
<1>13. m.next \in [Nodes -> Nodes \cup {Null}]
      /\ \A x \in Nodes : m.next[x] = IF x = t THEN Null ELSE IF x = before THEN behind ELSE l.next[x]
  BY <1>5, <1>a, <1>b
<1>14. m.prev \in [Nodes -> Nodes \cup {Null}]
      /\ \A x \in Nodes : m.prev[x] = IF x = t THEN Null ELSE IF x = behind THEN before ELSE l.prev[x]
  BY <1>5, <1>a, <1>b
<1>15. m.count = n - 1 /\ m.front = NodeAt(u, 1) /\ m.back = NodeAt(u, n - 1)
  <2>1. m.front = NodeAt(u, 1)
    <3>1. CASE k = 1
      BY <1>2, <1>6, <1>9, <1>b, <3>1 DEF behind
    <3>2. CASE k # 1
      BY <1>2, <1>3, <1>6, <1>9, <1>b, <3>2
    <3> QED
      BY <3>1, <3>2
  <2>2. m.back = NodeAt(u, n - 1)
    <3>1. CASE k = n
      BY <1>2, <1>6, <1>9, <1>b, <3>1 DEF before
    <3>2. CASE k # n
      <4>1. NodeAt(u, n - 1) = NodeAt(s, (n - 1) + 1) /\ (n - 1) + 1 = n
        BY <1>2, <1>6, <3>2
      <4> QED
        BY <1>3, <1>9, <1>b, <3>2, <4>1
    <3> QED
      BY <3>1, <3>2
  <2> QED
    BY <1>3, <1>b, <2>1, <2>2
<1>16. ASSUME NEW i \in 1 .. n - 1
       PROVE  m.next[NodeAt(u, i)] = NodeAt(u, i + 1) /\ m.prev[NodeAt(u, i)] = NodeAt(u, i - 1)
  <2>1. CASE i < k
    <3>1. NodeAt(u, i) = NodeAt(s, i) /\ NodeAt(s, i) \in Nodes /\ NodeAt(s, i) # t /\ i \in 1 .. n
          /\ NodeAt(u, i - 1) = NodeAt(s, i - 1)
      <4>1. i \in 1 .. n /\ k \in 1 .. n /\ i # k /\ i \in Int /\ i - 1 \in Int /\ i - 1 < k
        BY <1>2, <2>1
      <4>2. NodeAt(u, i) = NodeAt(s, i) /\ NodeAt(u, i - 1) = NodeAt(s, i - 1)
        BY <1>6, <2>1, <4>1
      <4>3. NodeAt(s, i) \in Nodes /\ NodeAt(s, i) # t
        BY <1>2, <1>5, <4>1
      <4> QED
        BY <4>1, <4>2, <4>3
    <3>2. NodeAt(s, i) = before <=> i = k - 1
      BY <1>2, <2>1, <3>1 DEF before
    <3>3. NodeAt(s, i) # behind
      BY <1>2, <2>1, <3>1 DEF behind
    <3>4. NodeAt(u, i + 1) = IF i = k - 1 THEN behind ELSE NodeAt(s, i + 1)
      <4>1. i + 1 \in Int /\ k \in Int /\ (i = k - 1 <=> ~(i + 1 < k)) /\ (i = k - 1 => (i + 1) + 1 = k + 1)
        BY <1>2, <2>1
      <4>2. NodeAt(u, i + 1) = IF i + 1 < k THEN NodeAt(s, i + 1) ELSE NodeAt(s, (i + 1) + 1)
        BY <1>6, <4>1
      <4> QED
        BY <4>1, <4>2 DEF behind
    <3> QED
      BY <1>3, <1>13, <1>14, <3>1, <3>2, <3>3, <3>4
  <2>2. CASE ~(i < k)
    <3> DEFINE j == i + 1
    <3>0. j \in 1 .. n /\ j > k /\ i = j - 1
      BY <1>2, <2>2
    <3> HIDE DEF j
    <3>1. NodeAt(u, i) = NodeAt(s, j) /\ NodeAt(s, j) \in Nodes /\ NodeAt(s, j) # t
          /\ NodeAt(u, i + 1) = NodeAt(s, j + 1)
          /\ NodeAt(u, i - 1) = IF j = k + 1 THEN before ELSE NodeAt(s, j - 1)
      <4>1. NodeAt(u, i) = NodeAt(s, i + 1) /\ NodeAt(u, i + 1) = NodeAt(s, (i + 1) + 1) /\ i + 1 = j
        BY <1>2, <1>6, <3>0
      <4>2. NodeAt(s, j) \in Nodes /\ NodeAt(s, j) # t
        BY <1>2, <1>5, <3>0
      <4>3. CASE j = k + 1
        BY <1>2, <1>6, <3>0, <4>1, <4>2, <4>3 DEF before
      <4>4. CASE j # k + 1
        <5>1. NodeAt(u, i - 1) = NodeAt(s, (i - 1) + 1) /\ (i - 1) + 1 = j - 1
          BY <1>2, <1>6, <3>0, <4>4
        <5> QED
          BY <4>1, <4>2, <4>4, <5>1
      <4> QED
        BY <4>3, <4>4
    <3>2. NodeAt(s, j) = behind <=> j = k + 1
      BY <1>2, <3>0 DEF behind
    <3>3. NodeAt(s, j) # before
      BY <1>2, <3>0 DEF before
    <3> QED
      BY <1>3, <1>13, <1>14, <3>0, <3>1, <3>2, <3>3
  <2> QED
    BY <2>1, <2>2
<1>17. ASSUME NEW x \in Nodes, \A i \in 1 .. n - 1 : NodeAt(u, i) # x
       PROVE  m.next[x] = Null /\ m.prev[x] = Null
  <2>1. CASE x = t
    BY <1>13, <1>14, <2>1
  <2>2. CASE x # t
    <3>1. ASSUME NEW i \in 1 .. n PROVE NodeAt(s, i) # x
      <4>1. CASE i < k
        BY <1>2, <1>6, <1>17, <4>1
      <4>2. CASE i = k
        BY <1>5, <2>2, <4>2
      <4>3. CASE i > k
        <5>1. i - 1 \in 1 .. n - 1 /\ NodeAt(u, i - 1) = NodeAt(s, (i - 1) + 1) /\ (i - 1) + 1 = i
          BY <1>2, <1>6, <4>3
        <5> QED
          BY <1>17, <5>1
      <4> QED
        BY <4>1, <4>2, <4>3
    <3>2. x # before /\ x # behind
      BY <1>2, <3>1, ListAssumption DEF before, behind
    <3> QED
      BY <1>3, <1>13, <1>14, <2>2, <3>1, <3>2
  <2> QED
    BY <2>1, <2>2
<1>18. LinkedAs(m, u)
  BY <1>4, <1>7, <1>15, <1>16, <1>17, LinksByPlace
<1>19. t \notin Range(u)
  BY <1>4, <1>7, <1>8, Places
<1> QED
  BY <1>4, <1>7, <1>13, <1>14, <1>18, <1>19 DEF Listed, m, t, u
-----------------------------------------------------------------------------
(* The invariant, as a fact about the record of links. *)
LEMMA InvIsListed == ListInv <=> Listed(Links, mOrder)
BY DEF ListInv, TypeList, LinksAreOrder, Listed, Links

(* Assigning the members of a record leaves them in the variables. *)
LEMMA SetIsListed ==
    ASSUME NEW l, SetLinks(l), Listed(l, mOrder')
    PROVE  ListInv'
<1>1. mFront' = l.front /\ mBack' = l.back /\ listCount' = l.count /\ next' = l.next /\ prev' = l.prev
  BY DEF SetLinks
<1>2. TypeList'
  BY <1>1 DEF Listed, TypeList
<1>3. LinksAreOrder'
  BY <1>1 DEF Listed, LinksAreOrder, LinkedAs, Links
<1> QED
  BY <1>2, <1>3 DEF ListInv

(* Every operation leaves the links of the sequence that it describes. *)
LEMMA ListStep ==
    ASSUME ListInv, [ListNext]_listVars
    PROVE  ListInv'
<1>1. Listed(Links, mOrder) /\ mOrder \in Seq(Nodes)
  BY InvIsListed DEF Listed
<1>2. ASSUME NEW t \in Nodes, NEW after, InsertAfter(t, after) PROVE ListInv'
  <2>1. PICK k \in 0 .. Len(mOrder) : after = NodeAt(mOrder, k) /\ mOrder' = InsertAt(mOrder, k + 1, t)
    BY <1>2 DEF InsertAfter
  <2>2. Listed(Inserted(Links, t, NodeAt(mOrder, k)), InsertAt(mOrder, k + 1, t))
    BY <1>1, <1>2, InsertAtLinks DEF InsertAfter
  <2>3. Listed(Inserted(Links, t, after), mOrder')
    BY <2>1, <2>2
  <2> QED
    BY <1>2, <2>3, SetIsListed DEF InsertAfter
<1>3. ASSUME NEW t, NEW k \in 1 .. Len(mOrder), mOrder[k] = t
      PROVE  Listed(Removed(Links, t), RemoveAt(mOrder, k)) /\ t \notin Range(RemoveAt(mOrder, k))
             /\ t \in Nodes /\ RemoveAt(mOrder, k) \in Seq(Nodes)
  BY <1>1, <1>3, RemoveLinks, RemoveAtIs
<1>4. ASSUME NEW t, RemoveNode(t) PROVE ListInv'
  BY <1>3, <1>4, SetIsListed DEF RemoveNode
<1>5. ASSUME NEW t, MoveToEnd(t) PROVE ListInv'
  <2>1. PICK k \in 1 .. Len(mOrder) : mOrder[k] = t /\ mOrder' = Append(RemoveAt(mOrder, k), t)
    BY <1>5 DEF MoveToEnd
  <2> DEFINE l == Removed(Links, t)
             s == RemoveAt(mOrder, k)
             n == Len(s)
  <2>2. Listed(l, s) /\ t \notin Range(s) /\ t \in Nodes /\ s \in Seq(Nodes)
    BY <1>3, <2>1
  <2>3. SetLinks(Inserted(l, t, l.back))
    BY <1>5 DEF MoveToEnd
  <2> HIDE DEF l, s
  <2>4. l.back = NodeAt(s, n) /\ n \in 0 .. n
    BY <2>2 DEF Listed, LinkedAs
  <2>5. mOrder' \in Seq(Nodes) /\ Len(mOrder') = n + 1
        /\ \A j \in 1 .. n + 1 : mOrder'[j] = IF j < n + 1 THEN s[j] ELSE IF j = n + 1 THEN t ELSE s[j - 1]
    BY <2>1, <2>2 DEF s
  <2>6. Listed(Inserted(l, t, l.back), mOrder')
    BY <2>2, <2>4, <2>5, InsertLinks
  <2> QED
    BY <2>3, <2>6, SetIsListed
<1>6. ASSUME NEW t, MoveToFront(t) PROVE ListInv'
  <2>1. PICK k \in 1 .. Len(mOrder) : mOrder[k] = t /\ mOrder' = InsertAt(RemoveAt(mOrder, k), 1, t)
    BY <1>6 DEF MoveToFront
  <2> DEFINE l == Removed(Links, t)
             s == RemoveAt(mOrder, k)
             n == Len(s)
  <2>2. Listed(l, s) /\ t \notin Range(s) /\ t \in Nodes /\ s \in Seq(Nodes)
    BY <1>3, <2>1
  <2>3. SetLinks(Inserted(l, t, Null))
    BY <1>6 DEF MoveToFront
  <2> HIDE DEF l, s
  <2>4. 0 \in 0 .. n /\ NodeAt(s, 0) = Null
    BY <2>2 DEF NodeAt
  <2>5. Listed(Inserted(l, t, NodeAt(s, 0)), InsertAt(s, 0 + 1, t))
    BY <2>2, <2>4, InsertAtLinks
  <2>6. mOrder' = InsertAt(s, 0 + 1, t)
    BY <2>1 DEF s
  <2>7. Listed(Inserted(l, t, Null), mOrder')
    BY <2>4, <2>5, <2>6
  <2> QED
    BY <2>3, <2>7, SetIsListed
<1>7. CASE DeleteAll
  <2>1. mOrder' = <<>> /\ mOrder' \in Seq(Nodes) /\ Len(mOrder') = 0 /\ IsInjective(mOrder')
    BY <1>7 DEF DeleteAll, IsInjective
  <2> QED
    BY <1>7, <2>1 DEF DeleteAll, ListInv, TypeList, LinksAreOrder, LinkedAs, Links, NodeAt
<1>8. CASE UNCHANGED listVars
  BY <1>8 DEF listVars, ListInv, TypeList, LinksAreOrder, LinkedAs, Links
<1> QED
  BY <1>2, <1>4, <1>5, <1>6, <1>7, <1>8 DEF ListNext

(* After any sequence of insert, remove, moveToEnd, moveToFront and        *)
(* deleteAll the links, ends and count are those of the sequence the       *)
(* operations describe, so no assertion of remove fails                    *)
(* (EmbeddedLinkedList.h 42-65, 127-158, 320-351).                         *)
THEOREM LinksAlwaysOrder == ListSpec => []LinksAreOrder
<1>1. ListInit => ListInv
  <2> SUFFICES ASSUME ListInit PROVE ListInv
    OBVIOUS
  <2>1. mOrder = <<>> /\ mOrder \in Seq(Nodes) /\ Len(mOrder) = 0 /\ IsInjective(mOrder)
    BY DEF ListInit, IsInjective
  <2> QED
    BY <2>1 DEF ListInit, ListInv, TypeList, LinksAreOrder, LinkedAs, Links, NodeAt
<1>2. ListInv /\ [ListNext]_listVars => ListInv'
  BY ListStep
<1>3. ListInv => LinksAreOrder
  BY DEF ListInv
<1> QED
  BY <1>1, <1>2, <1>3, PTL DEF ListSpec
-----------------------------------------------------------------------------
(* FileSystemWatcher.  A batch is a fold: what is pending after each of    *)
(* its events is how what is listed differs from the files of that moment. *)

(* A batch is handled event by event. *)
Handles(f, b, q) == f[0] = b /\ \A i \in 1 .. Len(q) : f[i] = HandleEvent(f[i - 1], q[i])

LEMMA BatchIs ==
    ASSUME NEW S, NEW E, NEW b \in S, NEW q \in Seq(E),
           \A i \in 1 .. Len(q), p \in S : HandleEvent(p, q[i]) \in S
    PROVE  \E f : Handles(f, b, q) /\ f[Len(q)] = FoldLeft(HandleEvent, b, q) /\ f[Len(q)] \in S
<1> DEFINE n == Len(q)
           Unfolds(g) == g = [s \in SUBSET (DOMAIN q) |->
                        IF s = {} THEN b ELSE HandleEvent(g[s \ {Max(s)}], q[Max(s)])]
           fold == CHOOSE g : Unfolds(g)
           step == [i \in 1 .. n |-> [p \in S |-> HandleEvent(p, q[i])]]
<1>1. n \in Nat /\ DOMAIN q = 1 .. n
  OBVIOUS
<1>2. \E g : Unfolds(g)
  <2>1. step \in [1 .. n -> [S -> S]]
    OBVIOUS
  <2>2. PICK g \in [SUBSET (1 .. n) -> S] : Folds(g, b, step, n)
    <3> HIDE DEF step, n
    <3> QED
      BY <1>1, <2>1, FoldExists
  <2>3. ASSUME NEW s \in SUBSET (1 .. n), s # {}
        PROVE  g[s] = HandleEvent(g[s \ {Max(s)}], q[Max(s)])
    <3>1. Max(s) \in 1 .. n
      BY <1>1, <2>3, MaxUpto
    <3>2. g[s \ {Max(s)}] \in S
      BY <2>2
    <3>3. g[s] = step[Max(s)][g[s \ {Max(s)}]]
      BY <2>2, <2>3, Zenon DEF Folds
    <3> QED
      BY <3>1, <3>2, <3>3, Zenon
  <2>4. ASSUME NEW s \in SUBSET (1 .. n)
        PROVE  g[s] = IF s = {} THEN b ELSE HandleEvent(g[s \ {Max(s)}], q[Max(s)])
    <3>1. CASE s = {}
      BY <2>2, <3>1, Zenon DEF Folds
    <3> QED
      BY <2>3, <3>1, Zenon
  <2>5. g = [s \in SUBSET (1 .. n) |->
                        IF s = {} THEN b ELSE HandleEvent(g[s \ {Max(s)}], q[Max(s)])]
    BY <2>2, <2>4, Zenon
  <2> QED
    BY <1>1, <2>5, Zenon
<1>3. Unfolds(fold)
  <2> HIDE DEF Unfolds
  <2> QED
    BY <1>2
<1>4. FoldLeft(HandleEvent, b, q) = fold[DOMAIN q]
  BY Zenon DEF FoldLeft, MapThenFoldSet
<1> HIDE DEF fold, n
<1> DEFINE f == [i \in 0 .. n |-> fold[1 .. i]]
<1>5. \A s \in SUBSET (1 .. n) : fold[s] = IF s = {} THEN b ELSE HandleEvent(fold[s \ {Max(s)}], q[Max(s)])
  BY <1>1, <1>3, Zenon
<1>6. f[0] = b
  <2>1. 1 .. 0 = {} /\ {} \in SUBSET (1 .. n) /\ 0 \in 0 .. n
    BY <1>1
  <2> QED
    BY <1>5, <2>1, Zenon
<1>7. f[n] = FoldLeft(HandleEvent, b, q)
  <2>1. n \in 0 .. n
    BY <1>1
  <2> QED
    BY <1>1, <1>4, <2>1, Zenon
<1>8. ASSUME NEW i \in 1 .. n PROVE f[i] = HandleEvent(f[i - 1], q[i])
  <2> DEFINE s == 1 .. i
  <2>0. i \in Nat /\ i > 0 /\ i <= n
    BY <1>1
  <2>1. s \in SUBSET (1 .. n) /\ s # {} /\ i \in s /\ i \in Nat /\ \A k \in s : k <= i
    <3>1. i \in s /\ \A k \in s : k <= i
      BY <2>0
    <3>2. \A k \in s : k \in 1 .. n
      BY <1>1, <2>0
    <3> QED
      BY <2>0, <3>1, <3>2
  <2>2. Max(s) = i
    <3>1. s \in SUBSET (1 .. i)
      OBVIOUS
    <3> HIDE DEF s
    <3> QED
      BY <2>1, <3>1, MaxIs
  <2>3. s \ {i} = 1 .. i - 1 /\ i \in 0 .. n /\ i - 1 \in 0 .. n
    BY <1>1
  <2>4. fold[s] = HandleEvent(fold[s \ {i}], q[i])
    BY <1>5, <2>1, <2>2, Zenon
  <2> QED
    BY <2>3, <2>4, Zenon
<1> HIDE DEF f
<1>9. \A i \in 1 .. n : f[i] \in S
  <2> DEFINE G == {i \in 1 .. n : f[i] \in S}
  <2>1. ASSUME NEW i \in 1 .. n, f[i - 1] \in S PROVE f[i] \in S
    BY <1>8, <2>1 DEF n
  <2>2. n > 0 => 1 \in G
    <3>1. (n > 0 => 1 \in 1 .. n) /\ 1 - 1 = 0
      BY <1>1
    <3> QED
      BY <1>6, <2>1, <3>1
  <2>3. ASSUME NEW i \in 1 .. n - 1, i \in G PROVE i + 1 \in G
    <3>1. i + 1 \in 1 .. n /\ (i + 1) - 1 = i
      BY <1>1
    <3>2. f[i + 1] \in S
      BY <2>1, <2>3, <3>1
    <3> QED
      BY <3>1, <3>2
  <2> HIDE DEF G
  <2>4. \A i \in 1 .. n : i \in G
    BY <1>1, <2>2, <2>3, InductionUpto
  <2> QED
    BY <2>4 DEF G
<1>10. f[n] \in S
  <2>1. n = 0 \/ n \in 1 .. n
    BY <1>1
  <2> QED
    BY <1>6, <1>9, <2>1
<1>11. Handles(f, b, q) /\ f[Len(q)] = FoldLeft(HandleEvent, b, q) /\ f[Len(q)] \in S
  BY <1>6, <1>7, <1>8, <1>10 DEF n, Handles
<1> QED
  BY <1>11
-----------------------------------------------------------------------------
Paths  == Files \cup {Dir}
Events == [wd : Nat, what : {"create", "delete", "modify", "self"}, name : Paths]

(* The event e says how the files a became c. *)
Happens(a, e, c) ==
    \/ e.what = "create" /\ e.name \notin a /\ c = a \cup {e.name}
    \/ e.what = "delete" /\ e.name \in a /\ c = a \ {e.name}
    \/ e.what = "modify" /\ c = a

(* The events q lead from the files a to the files c. *)
Leads(a, q, c) ==
    \E h : /\ h[0] = a /\ h[Len(q)] = c
           /\ \A i \in 1 .. Len(q) : Happens(h[i - 1], q[i], h[i])

WatcherType ==
    /\ files \subseteq Files /\ inotify \in Seq(Events)
    /\ kernelWatch \in Nat /\ watches \in Nat
    /\ mAddedPaths = {} /\ mModifiedPaths = {} /\ mRemovedPaths \subseteq Paths

(* While the directory is watched, the events lead from what the listener  *)
(* will have been told once the removals are reported to what is there.    *)
WatcherInv ==
    /\ WatcherType
    /\ watches = 0 =>
          kernelWatch = 0 /\ inotify = <<>> /\ mRemovedPaths = {} /\ tracked = FALSE
    /\ mRemovedPaths # {} => mTimer
    /\ tracked =>
          /\ dirExists /\ kernelWatch # 0 /\ kernelWatch \in mWatchedById
          /\ \A i \in 1 .. Len(inotify) : inotify[i].wd = kernelWatch
          /\ mRemovedPaths \subseteq listed
          /\ Leads(listed \ mRemovedPaths, inotify, files)

LEMMA LeadsNowhere ==
    ASSUME NEW a
    PROVE  Leads(a, <<>>, a)
<1> DEFINE h == [i \in 0 .. 0 |-> a]
<1>1. h[0] = a /\ Len(<<>>) = 0
  OBVIOUS
<1> HIDE DEF h
<1> QED
  BY <1>1 DEF Leads

LEMMA LeadsOn ==
    ASSUME NEW a, NEW b, NEW c, NEW E, NEW q \in Seq(E), NEW e \in E,
           Leads(a, q, b), Happens(b, e, c)
    PROVE  Leads(a, Append(q, e), c)
<1> DEFINE n == Len(q)
           r == Append(q, e)
<1>1. n \in Nat /\ Len(r) = n + 1 /\ (\A i \in 1 .. n : r[i] = q[i]) /\ r[n + 1] = e
  BY AppendProperties
<1>2. PICK h : h[0] = a /\ h[n] = b /\ \A i \in 1 .. n : Happens(h[i - 1], q[i], h[i])
  BY DEF Leads
<1> HIDE DEF n, r
<1> DEFINE g == [i \in 0 .. n + 1 |-> IF i = n + 1 THEN c ELSE h[i]]
<1>3. g[0] = a /\ g[n + 1] = c /\ g[n] = b /\ \A i \in 0 .. n : g[i] = h[i]
  BY <1>1, <1>2
<1> HIDE DEF g
<1>4. ASSUME NEW i \in 1 .. n + 1 PROVE Happens(g[i - 1], r[i], g[i])
  <2>1. CASE i = n + 1
    BY <1>1, <1>3, <2>1
  <2>2. CASE i # n + 1
    <3>1. i \in 1 .. n /\ i - 1 \in 0 .. n /\ i \in 0 .. n
      BY <1>1, <2>2
    <3> QED
      BY <1>1, <1>2, <1>3, <3>1
  <2> QED
    BY <2>1, <2>2
<1>5. \E x : x[0] = a /\ x[Len(r)] = c /\ \A i \in 1 .. Len(r) : Happens(x[i - 1], r[i], x[i])
  BY <1>1, <1>3, <1>4
<1> QED
  BY <1>5 DEF Leads, r

(* A file that no event is about neither comes nor goes. *)
LEMMA LeadsKeep ==
    ASSUME NEW a, NEW c, NEW E, NEW q \in Seq(E), Leads(a, q, c),
           NEW f, \A i \in 1 .. Len(q) : q[i].name # f
    PROVE  f \in a <=> f \in c
<1> DEFINE n == Len(q)
<1>1. PICK h : h[0] = a /\ h[n] = c /\ \A i \in 1 .. n : Happens(h[i - 1], q[i], h[i])
  BY DEF Leads
<1>2. n \in Nat
  OBVIOUS
<1> HIDE DEF n
<1> DEFINE G == {i \in 1 .. n : f \in a <=> f \in h[i]}
<1>3. ASSUME NEW i \in 1 .. n PROVE f \in h[i - 1] <=> f \in h[i]
  <2>1. Happens(h[i - 1], q[i], h[i]) /\ q[i].name # f
    BY <1>1 DEF n
  <2> QED
    BY <2>1 DEF Happens
<1>4. n > 0 => 1 \in G
  <2>1. n > 0 => 1 \in 1 .. n
    BY <1>2
  <2>2. 1 - 1 = 0
    OBVIOUS
  <2>3. n > 0 => (f \in h[0] <=> f \in h[1])
    BY <1>3, <2>1, <2>2
  <2> QED
    BY <1>1, <2>1, <2>3
<1>5. ASSUME NEW i \in 1 .. n - 1, i \in G PROVE i + 1 \in G
  <2>1. i + 1 \in 1 .. n /\ (i + 1) - 1 = i
    BY <1>2
  <2>2. f \in h[i] <=> f \in h[i + 1]
    BY <1>3, <2>1
  <2> QED
    BY <1>5, <2>1, <2>2
<1> HIDE DEF G
<1>6. \A i \in 1 .. n : i \in G
  BY <1>2, <1>4, <1>5, InductionUpto
<1>7. CASE n = 0
  BY <1>1, <1>7
<1>8. CASE n # 0
  <2>1. n \in 1 .. n
    BY <1>2, <1>8
  <2> QED
    BY <1>1, <1>6, <2>1 DEF G
<1> QED
  BY <1>7, <1>8
-----------------------------------------------------------------------------
(* What is pending says how what is listed differs from the files a. *)
Nets(p, a) ==
    /\ p \in [added : SUBSET Paths, removed : SUBSET Paths, modified : SUBSET Paths]
    /\ p.added \cap listed = {} /\ p.removed \subseteq listed
    /\ (listed \cup p.added) \ p.removed = a

LEMMA EventNets ==
    ASSUME NEW p, NEW a, NEW c, NEW e \in Events, Nets(p, a), Happens(a, e, c),
           dirExists, e.wd \in mWatchedById
    PROVE  Nets(HandleEvent(p, e), c)
<1>1. e.name \in Paths
  BY DEF Events
<1>2. CASE e.what = "create"
  <2>1. HandleEvent(p, e) = PendAdd(p, e.name)
    BY <1>2 DEF HandleEvent
  <2>2. e.name \notin a /\ c = a \cup {e.name}
    BY <1>2 DEF Happens
  <2>3. CASE e.name \in p.removed
    <3>1. HandleEvent(p, e) = [p EXCEPT !.removed = @ \ {e.name}, !.modified = @ \cup {e.name}]
      BY <2>1, <2>3 DEF PendAdd
    <3> DEFINE q == HandleEvent(p, e)
    <3>2. q \in [added : SUBSET Paths, removed : SUBSET Paths, modified : SUBSET Paths]
          /\ q.added = p.added /\ q.removed = p.removed \ {e.name}
      BY <1>1, <3>1 DEF Nets
    <3>3. e.name \in listed /\ e.name \notin p.added
      BY <2>3 DEF Nets
    <3> HIDE DEF q
    <3>4. (listed \cup q.added) \ q.removed = c
      BY <2>2, <3>2, <3>3 DEF Nets
    <3>5. Nets(q, c)
      BY <3>2, <3>4 DEF Nets
    <3> QED
      BY <3>5 DEF q
  <2>4. CASE e.name \notin p.removed
    <3>1. HandleEvent(p, e) = [p EXCEPT !.added = @ \cup {e.name}]
      BY <2>1, <2>4 DEF PendAdd
    <3> QED
      BY <1>1, <2>2, <2>4, <3>1 DEF Nets
  <2> QED
    BY <2>3, <2>4
<1>3. CASE e.what = "delete"
  <2>1. HandleEvent(p, e) = PendRemove(p, e.name)
    BY <1>3 DEF HandleEvent
  <2>2. e.name \in a /\ c = a \ {e.name}
    BY <1>3 DEF Happens
  <2> QED
    BY <1>1, <2>1, <2>2 DEF Nets, PendRemove
<1>4. CASE e.what = "modify"
  <2>1. HandleEvent(p, e) = PendModified(p, e.name)
    BY <1>4 DEF HandleEvent
  <2>2. c = a
    BY <1>4 DEF Happens
  <2> QED
    BY <1>1, <2>1, <2>2 DEF Nets, PendModified
<1> QED
  BY <1>2, <1>3, <1>4 DEF Happens

LEMMA PendingStays ==
    ASSUME NEW e \in Events,
           NEW p \in [added : SUBSET Paths, removed : SUBSET Paths, modified : SUBSET Paths]
    PROVE  HandleEvent(p, e) \in [added : SUBSET Paths, removed : SUBSET Paths, modified : SUBSET Paths]
<1> DEFINE path == IF dirExists THEN e.name ELSE Dir
<1>1. path \in Paths /\ Dir \in Paths /\ e.what \in {"create", "delete", "modify", "self"}
  BY DEF Events, Paths
<1> DEFINE R == [added : SUBSET Paths, removed : SUBSET Paths, modified : SUBSET Paths]
<1>2. ASSUME NEW x \in Paths PROVE PendAdd(p, x) \in R /\ PendRemove(p, x) \in R /\ PendModified(p, x) \in R
  BY DEF PendAdd, PendRemove, PendModified
<1>3. \/ HandleEvent(p, e) = p
      \/ HandleEvent(p, e) = PendRemove(p, Dir)
      \/ HandleEvent(p, e) \in {PendAdd(p, path), PendRemove(p, path), PendModified(p, path)}
  <2>1. CASE e.wd \notin mWatchedById
    BY <2>1 DEF HandleEvent
  <2>2. CASE e.wd \in mWatchedById /\ e.what = "self"
    BY <2>2 DEF HandleEvent
  <2>3. CASE e.wd \in mWatchedById /\ e.what = "create"
    BY <2>3 DEF HandleEvent
  <2>4. CASE e.wd \in mWatchedById /\ e.what = "delete"
    BY <2>4 DEF HandleEvent
  <2>5. CASE e.wd \in mWatchedById /\ e.what = "modify"
    BY <2>5 DEF HandleEvent
  <2> QED
    BY <1>1, <2>1, <2>2, <2>3, <2>4, <2>5
<1> HIDE DEF path, R
<1>4. HandleEvent(p, e) \in R
  BY <1>1, <1>2, <1>3 DEF R
<1> QED
  BY <1>4 DEF R

(* A batch that leads from a to c is netted out to the difference of what  *)
(* is listed and c.                                                        *)
LEMMA BatchNets ==
    ASSUME NEW a, NEW c, Nets(Pending, a), Leads(a, inotify, c), inotify \in Seq(Events), dirExists,
           \A i \in 1 .. Len(inotify) : inotify[i].wd \in mWatchedById
    PROVE  Nets(FoldLeft(HandleEvent, Pending, inotify), c)
<1> DEFINE S == [added : SUBSET Paths, removed : SUBSET Paths, modified : SUBSET Paths]
           q == inotify
           n == Len(q)
           b == Pending
           last == FoldLeft(HandleEvent, b, q)
<1>1. q \in Seq(Events) /\ n \in Nat /\ \A i \in 1 .. n : q[i] \in Events
  OBVIOUS
<1>2. b \in S
  BY DEF Nets
<1>3. \A i \in 1 .. n, p \in S : HandleEvent(p, q[i]) \in S
  BY <1>1, PendingStays
<1> HIDE DEF S, b
<1>4. PICK f : f[0] = b /\ f[n] = last /\ \A i \in 1 .. n : f[i] = HandleEvent(f[i - 1], q[i])
  <2> HIDE DEF q
  <2>1. \E f : Handles(f, b, q) /\ f[Len(q)] = FoldLeft(HandleEvent, b, q) /\ f[Len(q)] \in S
    BY <1>1, <1>2, <1>3, BatchIs
  <2> QED
    BY <2>1, Zenon DEF Handles
<1>5. PICK h : h[0] = a /\ h[n] = c /\ \A i \in 1 .. n : Happens(h[i - 1], q[i], h[i])
  BY DEF Leads
<1> HIDE DEF last
<1>6. ASSUME NEW i \in 1 .. n, Nets(f[i - 1], h[i - 1]) PROVE Nets(f[i], h[i])
  <2>1. q[i] \in Events /\ Happens(h[i - 1], q[i], h[i]) /\ q[i].wd \in mWatchedById
        /\ f[i] = HandleEvent(f[i - 1], q[i])
    BY <1>1, <1>4, <1>5
  <2> QED
    BY <1>6, <2>1, EventNets
<1>7. Nets(f[0], h[0])
  BY <1>4, <1>5 DEF b
<1> DEFINE G == {i \in 1 .. n : Nets(f[i], h[i])}
<1> HIDE DEF n, q
<1>8. n > 0 => 1 \in G
  <2>1. n > 0 => 1 \in 1 .. n
    BY <1>1
  <2>2. 1 - 1 = 0
    OBVIOUS
  <2>3. n > 0 => Nets(f[1], h[1])
    BY <1>6, <1>7, <2>1, <2>2
  <2> QED
    BY <2>1, <2>3
<1>9. ASSUME NEW i \in 1 .. n - 1, i \in G PROVE i + 1 \in G
  <2>1. i + 1 \in 1 .. n /\ (i + 1) - 1 = i
    BY <1>1
  <2>2. Nets(f[i], h[i])
    BY <1>9
  <2>3. Nets(f[i + 1], h[i + 1])
    BY <1>6, <2>1, <2>2
  <2> QED
    BY <2>1, <2>3
<1> HIDE DEF G
<1>10. \A i \in 1 .. n : i \in G
  BY <1>1, <1>8, <1>9, InductionUpto
<1>11. Nets(f[n], h[n])
  <2>1. CASE n = 0
    BY <1>7, <2>1
  <2>2. CASE n # 0
    <3>1. n \in 1 .. n
      BY <1>1, <2>2
    <3> QED
      BY <1>10, <3>1 DEF G
  <2> QED
    BY <2>1, <2>2
<1> QED
  BY <1>4, <1>5, <1>11 DEF last, b, q

(* Changes of the files. *)
LEMMA FilesChange ==
    ASSUME Overwrites = FALSE, WatcherInv, CreateFile \/ WriteFile \/ DeleteFile \/ RenameFile
    PROVE  WatcherInv'
<1> DEFINE w == kernelWatch
           E(what, name) == [wd |-> w, what |-> what, name |-> name]
<1>1. PICK after, events :
        /\ Change(after, events) /\ after \subseteq Files
        /\ \/ \E e \in Events : events = <<e>> /\ e.wd = w /\ Happens(files, e, after)
           \/ \E e \in Events, d \in Events : \E b :
                 events = <<e, d>> /\ e.wd = w /\ d.wd = w /\ Happens(files, e, b) /\ Happens(b, d, after)
  <2>1. \A f \in Files, what \in {"create", "delete", "modify"} :
          E(what, f) \in Events /\ E(what, f).wd = w /\ E(what, f).what = what /\ E(what, f).name = f
    BY DEF WatcherInv, WatcherType, Events, Paths
  <2>2. files \subseteq Files
    BY DEF WatcherInv, WatcherType
  <2>3. \A what, f : Event(what, f) = E(what, f)
    BY DEF Event
  <2> HIDE DEF E
  <2>4. CASE CreateFile
    <3>1. PICK f \in Files \ files : Change(files \cup {f}, <<E("create", f), E("modify", f)>>)
      BY <2>3, <2>4 DEF CreateFile
    <3>2. Happens(files, E("create", f), files \cup {f})
          /\ Happens(files \cup {f}, E("modify", f), files \cup {f})
      BY <2>1 DEF Happens
    <3>3. E("create", f) \in Events /\ E("create", f).wd = w /\ E("modify", f) \in Events /\ E("modify", f).wd = w
      BY <2>1
    <3>4. files \cup {f} \subseteq Files
      BY <2>2
    <3> QED
      BY <3>1, <3>2, <3>3, <3>4
  <2>5. CASE WriteFile
    <3>1. PICK f \in files : Change(files, <<E("modify", f)>>)
      BY <2>3, <2>5 DEF WriteFile
    <3>2. Happens(files, E("modify", f), files)
      BY <2>1, <2>2 DEF Happens
    <3>3. E("modify", f) \in Events /\ E("modify", f).wd = w
      BY <2>1, <2>2
    <3> QED
      BY <2>2, <3>1, <3>2, <3>3
  <2>6. CASE DeleteFile
    <3>1. PICK f \in files : Change(files \ {f}, <<E("delete", f)>>)
      BY <2>3, <2>6 DEF DeleteFile
    <3>2. Happens(files, E("delete", f), files \ {f})
      BY <2>1, <2>2 DEF Happens
    <3>3. E("delete", f) \in Events /\ E("delete", f).wd = w
      BY <2>1, <2>2
    <3>4. files \ {f} \subseteq Files
      BY <2>2
    <3> QED
      BY <3>1, <3>2, <3>3, <3>4
  <2>7. CASE RenameFile
    <3>1. PICK f \in files, g \in Files :
            /\ f # g /\ g \notin files
            /\ Change((files \ {f}) \cup {g}, <<E("delete", f), E("create", g)>>)
      BY <2>3, <2>7 DEF RenameFile
    <3>2. Happens(files, E("delete", f), files \ {f})
      BY <2>1, <2>2 DEF Happens
    <3>3. Happens(files \ {f}, E("create", g), (files \ {f}) \cup {g})
      BY <2>1, <3>1 DEF Happens
    <3>4. E("delete", f) \in Events /\ E("delete", f).wd = w /\ E("create", g) \in Events /\ E("create", g).wd = w
      BY <2>1, <2>2
    <3>5. (files \ {f}) \cup {g} \subseteq Files
      BY <2>2
    <3> QED
      BY <3>1, <3>2, <3>3, <3>4, <3>5
  <2> QED
    BY <2>4, <2>5, <2>6, <2>7
<1>2. /\ files' = after
      /\ inotify' = IF w = 0 THEN inotify ELSE inotify \o events
      /\ UNCHANGED <<dirExists, kernelWatch, watches, mWatchedById, mAddedPaths, mRemovedPaths, mModifiedPaths,
                     mTimer, listed, tracked>>
  BY <1>1 DEF Change, Notify, mapVars, pathVars
<1> DEFINE x == listed \ mRemovedPaths
           q == inotify
           r == inotify \o events
<1>3. q \in Seq(Events)
  BY DEF WatcherInv, WatcherType
<1>4. /\ r \in Seq(Events)
      /\ (\A i \in 1 .. Len(q) : q[i].wd = w) => \A i \in 1 .. Len(r) : r[i].wd = w
      /\ Leads(x, q, files) => Leads(x, r, after)
  <2>1. CASE \E e \in Events : events = <<e>> /\ e.wd = w /\ Happens(files, e, after)
    <3>1. PICK e \in Events : events = <<e>> /\ e.wd = w /\ Happens(files, e, after)
      BY <2>1
    <3> HIDE DEF x, q, w
    <3>2. r = Append(q, e)
      BY <1>3, <3>1 DEF q
    <3> HIDE DEF r
    <3>3. r \in Seq(Events) /\ Len(r) = Len(q) + 1 /\ (\A i \in 1 .. Len(q) : r[i] = q[i]) /\ r[Len(q) + 1] = e
      BY <1>3, <3>2, AppendProperties
    <3>4. (\A i \in 1 .. Len(q) : q[i].wd = w) => \A i \in 1 .. Len(r) : r[i].wd = w
      <4>1. Len(q) \in Nat
        BY <1>3
      <4>2. \A i \in 1 .. Len(r) : i \in 1 .. Len(q) \/ i = Len(q) + 1
        BY <3>3, <4>1
      <4> QED
        BY <3>1, <3>3, <4>2
    <3>5. Leads(x, q, files) => Leads(x, r, after)
      BY <1>3, <3>1, <3>2, LeadsOn
    <3> QED
      BY <3>3, <3>4, <3>5
  <2>2. CASE \E e \in Events, d \in Events : \E b :
                 events = <<e, d>> /\ e.wd = w /\ d.wd = w /\ Happens(files, e, b) /\ Happens(b, d, after)
    <3>0. PICK e \in Events, d \in Events :
            \E b : events = <<e, d>> /\ e.wd = w /\ d.wd = w /\ Happens(files, e, b) /\ Happens(b, d, after)
      BY <2>2
    <3>1. PICK b : events = <<e, d>> /\ e.wd = w /\ d.wd = w /\ Happens(files, e, b) /\ Happens(b, d, after)
      BY <3>0
    <3> DEFINE m == Append(q, e)
    <3> HIDE DEF x, q, w
    <3>2. m \in Seq(Events) /\ Len(m) = Len(q) + 1 /\ (\A i \in 1 .. Len(q) : m[i] = q[i]) /\ m[Len(q) + 1] = e
      BY <1>3, AppendProperties
    <3>3. r = Append(m, d)
      BY <1>3, <3>1 DEF q, m
    <3>4. Leads(x, q, files) => Leads(x, m, b)
      BY <1>3, <3>1, LeadsOn
    <3> HIDE DEF r, m
    <3>5. r \in Seq(Events) /\ Len(r) = Len(m) + 1 /\ (\A i \in 1 .. Len(m) : r[i] = m[i]) /\ r[Len(m) + 1] = d
      BY <3>2, <3>3, AppendProperties
    <3>6. (\A i \in 1 .. Len(q) : q[i].wd = w) => \A i \in 1 .. Len(r) : r[i].wd = w
      <4>1. Len(q) \in Nat
        BY <1>3
      <4>2. \A i \in 1 .. Len(r) :
              \/ i \in 1 .. Len(q) /\ i \in 1 .. Len(m)
              \/ i = Len(q) + 1 /\ i \in 1 .. Len(m)
              \/ i = Len(m) + 1
        BY <3>2, <3>5, <4>1
      <4> QED
        BY <3>1, <3>2, <3>5, <4>2
    <3>7. Leads(x, m, b) => Leads(x, r, after)
      BY <3>1, <3>2, <3>3, LeadsOn
    <3> QED
      BY <3>4, <3>5, <3>6, <3>7
  <2> QED
    BY <1>1, <2>1, <2>2
<1>5. WatcherType'
  BY <1>1, <1>2, <1>4 DEF WatcherInv, WatcherType
<1>6. tracked' => w # 0 /\ inotify' = r /\ (\A i \in 1 .. Len(q) : q[i].wd = w) /\ Leads(x, q, files)
  BY <1>2 DEF WatcherInv
<1> QED
  BY <1>2, <1>4, <1>5, <1>6 DEF WatcherInv

LEMMA DirGoes ==
    ASSUME WatcherInv, DeleteDir
    PROVE  WatcherInv'
<1> DEFINE e == Event("self", Dir)
<1>1. e \in Events /\ inotify \in Seq(Events)
  BY DEF WatcherInv, WatcherType, Event, Events, Paths
<1>2. inotify' = (IF kernelWatch = 0 THEN inotify ELSE inotify \o <<e>>)
      /\ kernelWatch' = 0 /\ tracked' = FALSE
      /\ UNCHANGED <<files, watches, mAddedPaths, mRemovedPaths, mModifiedPaths, mTimer, listed>>
  BY DEF DeleteDir, Notify, mapVars, pathVars
<1> HIDE DEF e
<1>3. inotify' \in Seq(Events)
  BY <1>1, <1>2
<1> QED
  BY <1>2, <1>3 DEF WatcherInv, WatcherType

LEMMA WatchKeeps ==
    ASSUME WatcherInv, Watch \/ Unwatch
    PROVE  WatcherInv'
<1>1. CASE Watch
  <2>1. /\ dirExists /\ dirExists' = dirExists /\ watches' = watches + 1 /\ kernelWatch' = watches'
        /\ mWatchedById' = mWatchedById \cup {watches'}
        /\ listed' = files /\ (tracked' <=> watches = 0)
        /\ UNCHANGED <<files, inotify, mAddedPaths, mRemovedPaths, mModifiedPaths, mTimer>>
    BY <1>1 DEF Watch, pathVars
  <2>2. WatcherType' /\ watches' # 0
    BY <2>1 DEF WatcherInv, WatcherType
  <2>3. tracked' => Leads(listed' \ mRemovedPaths', inotify', files') /\ Len(inotify') = 0 /\ mRemovedPaths' = {}
    <3>1. tracked' => inotify' = <<>> /\ mRemovedPaths' = {} /\ listed' = files'
      BY <2>1 DEF WatcherInv
    <3>2. Leads(files', <<>>, files')
      BY LeadsNowhere
    <3>3. ASSUME tracked' PROVE Leads(listed' \ mRemovedPaths', inotify', files')
      <4>1. listed' \ mRemovedPaths' = files'
        BY <3>1, <3>3
      <4> QED
        BY <3>1, <3>2, <3>3, <4>1, Zenon
    <3> QED
      BY <3>1, <3>3
  <2> QED
    BY <2>1, <2>2, <2>3 DEF WatcherInv
<1>2. CASE Unwatch
  <2>1. /\ kernelWatch' \in {0, kernelWatch} /\ tracked' = FALSE
        /\ UNCHANGED <<files, inotify, watches, mAddedPaths, mRemovedPaths, mModifiedPaths, mTimer>>
    BY <1>2 DEF Unwatch, pathVars
  <2> QED
    BY <2>1 DEF WatcherInv, WatcherType
<1> QED
  BY <1>1, <1>2

LEMMA NotifyReadyReadKeeps ==
    ASSUME WatcherInv, NotifyReadyRead
    PROVE  WatcherInv'
<1> DEFINE p == FoldLeft(HandleEvent, Pending, inotify)
           S == [added : SUBSET Paths, removed : SUBSET Paths, modified : SUBSET Paths]
<1>1. /\ inotify # <<>> /\ inotify' = <<>> /\ mAddedPaths' = {} /\ mModifiedPaths' = {}
      /\ mRemovedPaths' = IF removeDelay THEN p.removed ELSE {}
      /\ listed' = (listed \cup p.added) \ (IF removeDelay THEN {} ELSE p.removed)
      /\ mTimer' = (mTimer \/ (removeDelay /\ p.removed # {}))
      /\ UNCHANGED <<files, dirExists, kernelWatch, watches, mWatchedById, tracked>>
  BY DEF NotifyReadyRead, mapVars
<1>2. Pending \in S /\ inotify \in Seq(Events)
  BY DEF WatcherInv, WatcherType, Pending
<1>3. p \in S
  <2>1. \A i \in 1 .. Len(inotify), x \in S : HandleEvent(x, inotify[i]) \in S
    BY <1>2, PendingStays
  <2> DEFINE b == Pending
  <2> HIDE DEF S, b
  <2>2. \E f : Handles(f, b, inotify) /\ f[Len(inotify)] = FoldLeft(HandleEvent, b, inotify)
             /\ f[Len(inotify)] \in S
    BY <1>2, <2>1, BatchIs DEF b
  <2> QED
    BY <2>2, Zenon DEF b
<1>4. ASSUME tracked
      PROVE  Nets(p, files)
  <2>1. Nets(Pending, listed \ mRemovedPaths)
    BY <1>2, <1>4 DEF WatcherInv, WatcherType, Pending, Nets
  <2>2. \A i \in 1 .. Len(inotify) : inotify[i].wd \in mWatchedById
    BY <1>4 DEF WatcherInv
  <2>3. dirExists /\ Leads(listed \ mRemovedPaths, inotify, files)
    BY <1>4 DEF WatcherInv
  <2> QED
    BY <1>2, <2>1, <2>2, <2>3, BatchNets
<1> HIDE DEF p
<1>5. WatcherType' /\ (mRemovedPaths' # {} => mTimer')
  <2>1. mRemovedPaths' \subseteq Paths
    BY <1>1, <1>3
  <2>2. inotify' \in Seq(Events)
    BY <1>1
  <2>3. mRemovedPaths' # {} => mTimer'
    BY <1>1
  <2> QED
    BY <1>1, <2>1, <2>2, <2>3 DEF WatcherInv, WatcherType
<1>6. watches # 0
  BY <1>1 DEF WatcherInv
<1>7. ASSUME tracked
      PROVE  mRemovedPaths' \subseteq listed' /\ Leads(listed' \ mRemovedPaths', inotify', files')
  <2>1. p.added \cap listed = {} /\ p.removed \subseteq listed /\ (listed \cup p.added) \ p.removed = files
    BY <1>4, <1>7 DEF Nets
  <2>2. mRemovedPaths' \subseteq listed' /\ listed' \ mRemovedPaths' = files'
    BY <1>1, <2>1
  <2> QED
    BY <1>1, <2>2, LeadsNowhere
<1>8. Len(inotify') = 0
  BY <1>1
<1> QED
  BY <1>1, <1>5, <1>6, <1>7, <1>8 DEF WatcherInv

LEMMA TimerFiresKeeps ==
    ASSUME WatcherInv, TimerFires
    PROVE  WatcherInv'
<1>1. /\ listed' = listed \ mRemovedPaths /\ mRemovedPaths' = {}
      /\ UNCHANGED <<files, dirExists, kernelWatch, inotify, watches, mWatchedById, mAddedPaths, mModifiedPaths,
                     mTimer, tracked>>
  BY DEF TimerFires, fsVars, mapVars
<1>2. listed' \ mRemovedPaths' = listed \ mRemovedPaths
  BY <1>1
<1> QED
  BY <1>1, <1>2 DEF WatcherInv, WatcherType

(* A listener that adds and removes what it is told of has the files of    *)
(* the directory, but for events that have not been read and removals that *)
(* wait for a timer that runs (add, notifyReadyRead, processChanges).      *)
THEOREM ListenerAlwaysRight ==
    ASSUME Overwrites = FALSE
    PROVE  WatcherSpec => []ListenerIsRight
<1>1. WatcherInit => WatcherInv
  <2> SUFFICES ASSUME WatcherInit PROVE WatcherInv
    OBVIOUS
  <2>1. inotify = <<>> /\ <<>> \in Seq(Events)
    BY DEF WatcherInit
  <2> QED
    BY <2>1 DEF WatcherInit, WatcherInv, WatcherType
<1>2. WatcherInv /\ [WatcherNext]_watcherVars => WatcherInv'
  <2> SUFFICES ASSUME WatcherInv, [WatcherNext]_watcherVars PROVE WatcherInv'
    OBVIOUS
  <2>1. CASE UNCHANGED watcherVars
    <3>1. UNCHANGED <<files, dirExists, kernelWatch, inotify, watches, mWatchedById, mAddedPaths, mRemovedPaths,
                      mModifiedPaths, mTimer, listed, tracked>>
      BY <2>1 DEF watcherVars, fsVars, mapVars, pathVars
    <3> QED
      BY <3>1 DEF WatcherInv, WatcherType, Leads, Happens
  <2> QED
    BY <2>1, FilesChange, DirGoes, WatchKeeps, NotifyReadyReadKeeps, TimerFiresKeeps DEF WatcherNext
<1>3. WatcherInv => ListenerIsRight
  <2> SUFFICES ASSUME WatcherInv, tracked, NEW f \in Files,
                      \A i \in DOMAIN inotify : ~(inotify[i].name = f /\ inotify[i].wd \in mWatchedById),
                      ~(f \in mRemovedPaths /\ mTimer)
               PROVE  (f \in listed) = (f \in files)
    BY DEF ListenerIsRight
  <2>1. inotify \in Seq(Events) /\ Leads(listed \ mRemovedPaths, inotify, files) /\ f \notin mRemovedPaths
        /\ \A i \in 1 .. Len(inotify) : inotify[i].wd \in mWatchedById
    BY DEF WatcherInv, WatcherType
  <2>2. \A i \in 1 .. Len(inotify) : inotify[i].name # f
    <3>1. DOMAIN inotify = 1 .. Len(inotify)
      BY <2>1
    <3> QED
      BY <2>1, <3>1
  <2>3. f \in listed \ mRemovedPaths <=> f \in files
    BY <2>1, <2>2, LeadsKeep
  <2> QED
    BY <2>1, <2>3
<1> QED
  BY <1>1, <1>2, <1>3, PTL DEF WatcherSpec
=============================================================================
