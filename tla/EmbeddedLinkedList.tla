------------------------- MODULE EmbeddedLinkedList -------------------------
(***************************************************************************)
(* rct/EmbeddedLinkedList.h: nodes that carry their own next and prev.     *)
(* first and last, append, prepend, push, take and erase are names for     *)
(* insert and remove of the node at an end.  mOrder is the sequence that   *)
(* the list stands for: each operation changes it as its name says.        *)
(***************************************************************************)
EXTENDS Naturals, Sequences, SequencesExt

CONSTANT Nodes

Null == "null"

ASSUME ListAssumption == Null \notin Nodes

VARIABLES
    mFront, mBack,
    listCount,          \* mCount; ReadWriteLock, which MCParts extends too, has one
    next, prev,         \* of each node
    mOrder              \* history: the list as a sequence

listVars == <<mFront, mBack, listCount, next, prev, mOrder>>

ListInit ==
    /\ mFront = Null /\ mBack = Null /\ listCount = 0
    /\ next = [n \in Nodes |-> Null] /\ prev = [n \in Nodes |-> Null]
    /\ mOrder = <<>>

-----------------------------------------------------------------------------
(* The links, as a record that insert and remove turn into another *)

Links == [front |-> mFront, back |-> mBack, count |-> listCount, next |-> next, prev |-> prev]

SetLinks(l) == mFront' = l.front /\ mBack' = l.back /\ listCount' = l.count /\ next' = l.next /\ prev' = l.prev

(* The assignment n->next = v, nothing if n is null *)
With(f, n, v) == IF n = Null THEN f ELSE [f EXCEPT ![n] = v]

Inserted(l, t, after) ==
    LET succ == IF after = Null THEN l.front ELSE l.next[after]
    IN  [front |-> IF after = Null THEN t ELSE l.front,
         back  |-> IF succ = Null THEN t ELSE l.back,
         count |-> l.count + 1,
         next  |-> With([l.next EXCEPT ![t] = succ], after, t),
         prev  |-> With([l.prev EXCEPT ![t] = after], succ, t)]

(* Mutant: the last node is removed and mBack keeps it *)
RemovedKeepsBack(l, t) ==
    LET before == IF t = l.front THEN Null ELSE l.prev[t]
        behind == IF t = l.back THEN Null ELSE l.next[t]
    IN  [front |-> IF t = l.front THEN behind ELSE l.front,
         back  |-> IF t = l.front /\ t = l.back THEN Null ELSE l.back,
         count |-> l.count - 1,
         next  |-> [With(l.next, before, behind) EXCEPT ![t] = Null],
         prev  |-> [With(l.prev, behind, before) EXCEPT ![t] = Null]]

Removed(l, t) ==
    LET before == IF t = l.front THEN Null ELSE l.prev[t]
        behind == IF t = l.back THEN Null ELSE l.next[t]
    IN  [front |-> IF t = l.front THEN behind ELSE l.front,
         back  |-> IF t = l.back THEN before ELSE l.back,
         count |-> l.count - 1,
         next  |-> [With(l.next, before, behind) EXCEPT ![t] = Null],
         prev  |-> [With(l.prev, behind, before) EXCEPT ![t] = Null]]

-----------------------------------------------------------------------------
(* The node at a place of a sequence, null outside it *)
NodeAt(s, i) == IF i \in 1 .. Len(s) THEN s[i] ELSE Null

(* A caller inserts a node that is in no list, and removes one that is in  *)
(* this one                                                                *)

InsertAfter(t, after) ==
    /\ t \notin Range(mOrder)
    /\ SetLinks(Inserted(Links, t, after))
    /\ \E k \in 0 .. Len(mOrder) :
          after = NodeAt(mOrder, k) /\ mOrder' = InsertAt(mOrder, k + 1, t)

RemoveNode(t) ==
    /\ SetLinks(Removed(Links, t))
    /\ \E k \in 1 .. Len(mOrder) : mOrder[k] = t /\ mOrder' = RemoveAt(mOrder, k)

DeleteAll ==
    /\ mFront' = Null /\ mBack' = Null /\ listCount' = 0
    /\ next' = [n \in Nodes |-> Null] /\ prev' = [n \in Nodes |-> Null]
    /\ mOrder' = <<>>

MoveToEnd(t) ==
    /\ next[t] # Null
    /\ LET l == Removed(Links, t) IN SetLinks(Inserted(l, t, l.back))
    /\ \E k \in 1 .. Len(mOrder) : mOrder[k] = t /\ mOrder' = Append(RemoveAt(mOrder, k), t)

MoveToFront(t) ==
    /\ prev[t] # Null
    /\ SetLinks(Inserted(Removed(Links, t), t, Null))
    /\ \E k \in 1 .. Len(mOrder) : mOrder[k] = t /\ mOrder' = InsertAt(RemoveAt(mOrder, k), 1, t)

ListNext ==
    \/ \E t \in Nodes, after \in Range(mOrder) \cup {Null} : InsertAfter(t, after)
    \/ \E t \in Range(mOrder) : RemoveNode(t) \/ MoveToEnd(t) \/ MoveToFront(t)
    \/ DeleteAll

ListSpec == ListInit /\ [][ListNext]_listVars

(* The links l are those of the sequence s *)
LinkedAs(l, s) ==
    LET n == Len(s)
    IN  /\ l.count = n /\ l.front = NodeAt(s, 1) /\ l.back = NodeAt(s, n)
        /\ \A i \in 1 .. n : l.next[s[i]] = NodeAt(s, i + 1) /\ l.prev[s[i]] = NodeAt(s, i - 1)
        /\ \A t \in Nodes \ Range(s) : l.next[t] = Null /\ l.prev[t] = Null

(* After any sequence of operations the links, the two ends and the count  *)
(* are those of the sequence the operations describe, and nodes that are   *)
(* not in the list are linked to nothing: what the assertions of remove    *)
(* rely on (EmbeddedLinkedList.h 42-65, 127-158, 320-351).                 *)
LinksAreOrder == LinkedAs(Links, mOrder)

TypeList ==
    /\ mOrder \in Seq(Nodes) /\ IsInjective(mOrder)
    /\ next \in [Nodes -> Nodes \cup {Null}] /\ prev \in [Nodes -> Nodes \cup {Null}]

ListInv == TypeList /\ LinksAreOrder
=============================================================================
