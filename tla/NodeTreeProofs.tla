--------------------------- MODULE NodeTreeProofs ---------------------------
(***************************************************************************)
(* Proofs about NodeTree, for any number of nodes and tasks: whatever the  *)
(* commands do at the same time, the rows stay a forest and no committed   *)
(* file is forgotten; with one command at a time that looks for the root,  *)
(* every node stays below it.                                               *)
(***************************************************************************)
EXTENDS NodeTree, TLAPS

-----------------------------------------------------------------------------
(* Inductive invariants.                                                    *)

Tables == [Ids -> [kind : {"none", "file", "dir"}, parent : Ids \cup {None}]]

(* No set of nodes has all its parents in itself.                           *)
Acyclic(t) == \A S \in SUBSET Ids : S # {} => \E n \in S : t[n].parent \notin S

(* A row that is not there is in no directory, and a number that was not   *)
(* handed out is no row.                                                    *)
NoGhosts ==
    \A n \in Ids : node[n].kind = "none" \/ n > used => node[n] = NoNode

(* A task adds a file or a directory, under a number of its own.            *)
NewFresh ==
    /\ \A a \in Adders : pc[a] # "idle" => new[a].kind \in {"file", "dir"}
    /\ \A a \in Adders : pc[a] = "commit" =>
          new[a].id \in 1 .. used /\ node[new[a].id] = NoNode
    /\ \A a, b \in Adders :
          a # b /\ pc[a] = "commit" /\ pc[b] = "commit" => new[a].id # new[b].id

TreeInv == TypeOK /\ NoGhosts /\ NewFresh /\ Forest /\ Accounted

(* The recorded root is a directory of its own, and nobody makes another.  *)
RootStands ==
    /\ rootId # None => IsDirectory(rootId) /\ node[rootId].parent = None
    /\ \A a \in Adders : pc[a] \in {"makeRoot", "setRoot"} =>
          rootId = None /\ \A b \in Adders : pc[b] \in {"makeRoot", "setRoot"} => a = b
    /\ \A a \in Adders : pc[a] = "setRoot" =>
          new[a].parent \in Ids /\ IsDirectory(new[a].parent)

(* Until it is recorded nothing is in a directory, and nothing begins.     *)
NothingBefore ==
    rootId = None =>
        /\ \A n \in Ids : node[n].parent = None
        /\ \A a \in Adders : pc[a] \in {"idle", "makeRoot", "setRoot"} /\ drop[a] = <<>>
        /\ \A d \in Deleters : del[d] = <<>>

(* A directory that a task has in hand: the root, or one that is or was in *)
(* another, and never a root that was left behind.                          *)
Placed(p) ==
    /\ p \in 1 .. used
    /\ p = rootId \/ node[p] = NoNode \/ node[p].parent # None
    /\ \A b \in Adders : pc[b] = "commit" => new[b].id # p

Destined ==
    \A a \in Adders :
        /\ pc[a] \in {"write", "commit"} => Placed(new[a].parent)
        /\ \A i \in DOMAIN drop[a] : Placed(drop[a][i])

(* What is in a directory is below the root.                                *)
Hung == \A n \in Ids : node[n].parent # None => n \in Subtree(rootId)

(* No deletion has the root in hand.                                        *)
RootSpared ==
    \A d \in Deleters : \A i \in DOMAIN del[d] :
        del[d][i].dir # rootId /\ rootId \notin del[d][i].todo

ReachInv == RootStands /\ NothingBefore /\ Destined /\ Hung /\ RootSpared

-----------------------------------------------------------------------------
(* What the recursive query finds.                                          *)

(* The nodes below n are those whose parent is n or below n.                *)
LEMMA BelowFixed ==
    ASSUME NEW t \in Tables, NEW n \in Ids
    PROVE  /\ Below(t, n) \subseteq Ids
           /\ \A m \in Ids : m \in Below(t, n) <=> t[m].parent \in Below(t, n) \cup {n}
<1> DEFINE placed == {m \in Ids : t[m].parent # None}
           Closed(S) == \A m \in placed : t[m].parent \in S \cup {n} => m \in S
           L == {m \in placed : \A S \in SUBSET placed : Closed(S) => m \in S}
           Fixed(S) == \A m \in placed : m \in S <=> t[m].parent \in S \cup {n}
<1>1. Closed(L)
  OBVIOUS
<1>2. ASSUME NEW m \in L PROVE t[m].parent \in L \cup {n}
  <2>1. SUFFICES ASSUME t[m].parent \notin L \cup {n} PROVE FALSE
    OBVIOUS
  <2>2. Closed(L \ {m})
    BY <1>1, <2>1
  <2>3. L \ {m} \in SUBSET placed
    OBVIOUS
  <2> QED
    BY <2>2, <2>3, <1>2
<1>3. L \in SUBSET placed /\ Fixed(L)
  BY <1>1, <1>2
<1>4. Below(t, n) = CHOOSE S \in SUBSET placed : Fixed(S)
  BY DEF Below
<1>5. Below(t, n) \in SUBSET placed /\ Fixed(Below(t, n))
  <2> HIDE DEF L, Fixed
  <2> QED
    BY <1>3, <1>4
<1>6. None \notin Ids
  BY NodeTreeConstants
<1> QED
  BY <1>5, <1>6

(* In a forest they are in every set that, with n or a node of the set, has *)
(* its children.                                                            *)
LEMMA BelowLeast ==
    ASSUME NEW t \in Tables, NEW n \in Ids, Acyclic(t), NEW S \in SUBSET Ids,
           \A m \in Ids : t[m].parent \in S \cup {n} => m \in S
    PROVE  Below(t, n) \subseteq S
<1> DEFINE rest == Below(t, n) \ S
<1>1. rest \in SUBSET Ids /\ \A m \in rest : t[m].parent \in rest
  BY BelowFixed
<1> QED
  BY <1>1 DEF Acyclic

LEMMA ForestAcyclic == ASSUME Forest PROVE Acyclic(node)
  BY DEF Forest, Acyclic

(* Rows that go with everything below them leave a forest.                  *)
LEMMA DeletedForest ==
    ASSUME NEW t \in Tables, NEW u \in Tables, Acyclic(t), NEW n \in Ids,
           \A m \in Ids : u[m] = IF m \in {n} \cup Below(t, n) THEN NoNode ELSE t[m]
    PROVE  Acyclic(u)
<1>1. None \notin Ids
  BY NodeTreeConstants
<1>2. \A m \in Ids : u[m].parent \in {None, t[m].parent}
  BY DEF NoNode
<1> QED
  BY <1>1, <1>2 DEF Acyclic

(* A node that moves to a place that is not below it leaves a forest.       *)
LEMMA MovedForest ==
    ASSUME NEW t \in Tables, NEW u \in Tables, Acyclic(t), NEW n \in Ids,
           NEW p \in Ids, p \notin {n} \cup Below(t, n), u[n].parent = p,
           \A m \in Ids \ {n} : u[m].parent = t[m].parent
    PROVE  Acyclic(u)
<1> SUFFICES ASSUME NEW S \in SUBSET Ids, S # {}, \A m \in S : u[m].parent \in S
             PROVE  FALSE
  BY DEF Acyclic
<1>1. CASE n \notin S
  BY <1>1 DEF Acyclic
<1>2. CASE n \in S
  <2> DEFINE rest == S \ ({n} \cup Below(t, n))
  <2>1. p \in rest
    BY <1>2
  <2>2. ASSUME NEW m \in rest PROVE t[m].parent \in rest
    BY BelowFixed
  <2> QED
    BY <2>1, <2>2 DEF Acyclic
<1> QED
  BY <1>1, <1>2

-----------------------------------------------------------------------------
(* The rows: every switch, every overlap.                                   *)

LEMMA InitTree == Init => TreeInv
<1> SUFFICES ASSUME Init PROVE TreeInv
  OBVIOUS
<1>1. TypeOK
  BY NodeTreeConstants DEF Init, TypeOK, NoNode, NoNew
<1>2. None \notin Ids
  BY NodeTreeConstants
<1>3. \A n \in Ids : node[n] = NoNode
  BY DEF Init
<1>4. Forest
  <2>1. \A S \in SUBSET Ids : \A n \in S : node[n].parent \notin S
    BY <1>2, <1>3 DEF NoNode
  <2>2. \A n \in Ids : ~Exists(n)
    BY <1>3 DEF Exists
  <2>3. ASSUME NEW S \in (SUBSET Ids) \ {{}} PROVE \E n \in S : node[n].parent \notin S
    <3>1. S # {} /\ S \in SUBSET Ids
      OBVIOUS
    <3>2. PICK n : n \in S
      BY <3>1
    <3> QED
      BY <2>1, <3>1, <3>2
  <2> QED
    BY <2>2, <2>3 DEF Forest
<1>5. NoGhosts /\ NewFresh /\ Accounted
  BY <1>3 DEF Init, NoGhosts, NewFresh, Accounted
<1> QED
  BY <1>1, <1>4, <1>5 DEF TreeInv

(* A new row that is no directory's parent yet.                             *)
LEMMA InsertKeeps ==
    ASSUME TypeOK, NoGhosts, Forest, Accounted, NEW n \in Ids, node[n] = NoNode,
           NEW k \in {"file", "dir"}, NEW p \in Ids \cup {None}, ValidParent(p),
           InsertNode(n, k, p)
    PROVE  /\ node' \in Tables
           /\ \A m \in Ids : node'[m] = IF m = n THEN [kind |-> k, parent |-> p] ELSE node[m]
           /\ Forest'
<1>1. /\ node' \in Tables
      /\ \A m \in Ids : node'[m] = IF m = n THEN [kind |-> k, parent |-> p] ELSE node[m]
  BY DEF TypeOK, InsertNode, Tables
<1>2. None \notin Ids
  BY NodeTreeConstants
<1>3. \A m \in Ids : node[m].parent # n
  BY <1>2 DEF Forest, ValidParent, IsDirectory, Exists, NoNode
<1>4. p # n
  BY <1>2 DEF ValidParent, IsDirectory, NoNode
<1>5. ASSUME NEW S \in SUBSET Ids, S # {}, \A m \in S : node'[m].parent \in S
      PROVE  FALSE
  <2>1. CASE n \notin S
    BY <1>1, <1>5, <2>1, ForestAcyclic DEF Acyclic
  <2>2. CASE n \in S
    <3>1. p \in S \ {n}
      BY <1>1, <1>4, <1>5, <2>2
    <3>2. \A m \in S \ {n} : node[m].parent \in S \ {n}
      BY <1>1, <1>3, <1>5
    <3> QED
      BY <3>1, <3>2, ForestAcyclic DEF Acyclic
  <2> QED
    BY <2>1, <2>2
<1>6. \A m \in Ids : Exists(m)' => ValidParent(node[m].parent)'
  <2>1. \A q \in Ids : IsDirectory(q) => IsDirectory(q)'
    BY <1>1 DEF IsDirectory, NoNode
  <2>2. \A q \in Ids \cup {None} : ValidParent(q) => ValidParent(q)'
    BY <2>1 DEF ValidParent
  <2>3. \A m \in Ids : node[m].parent \in Ids \cup {None}
    BY DEF TypeOK
  <2>4. SUFFICES ASSUME NEW m \in Ids, Exists(m)' PROVE ValidParent(node[m].parent)'
    OBVIOUS
  <2>5. CASE m = n
    BY <1>1, <2>2, <2>5
  <2>6. CASE m # n
    <3>1. node'[m] = node[m] /\ ValidParent(node[m].parent)
      BY <1>1, <2>4, <2>6 DEF Forest, Exists
    <3> QED
      BY <2>2, <2>3, <3>1
  <2> QED
    BY <2>5, <2>6
<1> QED
  BY <1>1, <1>5, <1>6 DEF Forest

(* Rows that go with all that is below them, whose blobs are queued.        *)
LEMMA DeleteKeeps ==
    ASSUME TypeOK, NoGhosts, Forest, Accounted, NEW n \in Ids, DeleteNode(n),
           stored' = stored
    PROVE  /\ node' \in Tables /\ queued' \subseteq Ids
           /\ \A m \in Ids : node'[m] = IF m \in Subtree(n) THEN NoNode ELSE node[m]
           /\ Forest' /\ Accounted'
<1>1. /\ node' \in Tables /\ queued' \subseteq Ids
      /\ \A m \in Ids : node'[m] = IF m \in Subtree(n) THEN NoNode ELSE node[m]
  <2>1. Subtree(n) \subseteq Ids
    BY BelowFixed DEF Subtree, TypeOK, Tables
  <2> QED
    BY <2>1 DEF TypeOK, DeleteNode, Tables, NoNode
<1>2. Acyclic(node')
  <2> HIDE DEF Tables
  <2>1. node \in Tables
    BY DEF TypeOK, Tables
  <2> QED
    BY <1>1, <2>1, ForestAcyclic, DeletedForest DEF Subtree
<1>3. ASSUME NEW m \in Ids, Exists(m)' PROVE ValidParent(node[m].parent)'
  <2>1. m \notin Subtree(n) /\ node'[m] = node[m]
    BY <1>1, <1>3 DEF Exists
  <2>2. node[m].parent \notin Subtree(n)
    BY <2>1, BelowFixed DEF Subtree, TypeOK, Tables
  <2>3. ValidParent(node[m].parent) /\ node[m].parent \in Ids \cup {None}
    BY <1>3, <2>1 DEF Forest, Exists, TypeOK
  <2> QED
    BY <1>1, <2>1, <2>2, <2>3 DEF ValidParent, IsDirectory
<1>4. Accounted'
  BY <1>1 DEF Accounted, DeleteNode, IsFile, TypeOK
<1> QED
  BY <1>1, <1>2, <1>3, <1>4 DEF Forest, Acyclic

LEMMA MoveKeeps ==
    ASSUME TreeInv, NEW n \in Listed, NEW p \in Listed \cup {rootId}, MoveNode(n, p)
    PROVE  /\ n \in Ids /\ p \in Ids /\ node[n].parent # None /\ rootId \in Ids
           /\ \A m \in Ids : node'[m].kind = node[m].kind
           /\ \A m \in Ids : node'[m].parent = IF m = n THEN p ELSE node[m].parent
           /\ TreeInv'
<1> USE DEF TreeInv
<1>1. None \notin Ids /\ node \in Tables
  BY NodeTreeConstants DEF TypeOK, Tables
<1>2. rootId \in Ids /\ n \in Below(node, rootId)
  BY DEF Listed, TypeOK, Subtree
<1>3. n \in Ids /\ p \in Ids /\ node[n].parent # None
  BY <1>1, <1>2, BelowFixed DEF Listed, Subtree
<1>4. /\ node' \in Tables
      /\ node'[n] = [node[n] EXCEPT !.parent = p]
      /\ \A m \in Ids \ {n} : node'[m] = node[m]
  BY <1>1, <1>3 DEF MoveNode, Tables
<1>11. /\ \A m \in Ids : node'[m].kind = node[m].kind
      /\ \A m \in Ids : node'[m].parent = IF m = n THEN p ELSE node[m].parent
  <2>1. node'[n].kind = node[n].kind /\ node'[n].parent = p
    BY <1>1, <1>3, <1>4 DEF Tables
  <2> QED
    BY <1>4, <2>1
<1>5. Acyclic(node')
  <2>1. p \notin {n} \cup Below(node, n)
    BY DEF MoveNode, MoveAllowed, Subtree
  <2>2. node'[n].parent = p /\ \A m \in Ids \ {n} : node'[m].parent = node[m].parent
    BY <1>3, <1>11
  <2>3. Acyclic(node)
    BY ForestAcyclic
  <2> QED
    BY <1>1, <1>3, <1>4, <2>1, <2>2, <2>3, MovedForest
<1>6. node[n] # NoNode
  BY <1>3 DEF NoNode
<1>7. \A m \in Ids : node'[m] = NoNode <=> node[m] = NoNode
  BY <1>1, <1>3, <1>4, <1>6 DEF NoNode, Tables
<1>8. Forest'
  <2>1. \A q \in Ids : IsDirectory(q) => IsDirectory(q)'
    BY <1>11 DEF IsDirectory
  <2>2. \A q \in Ids \cup {None} : ValidParent(q) => ValidParent(q)'
    BY <2>1 DEF ValidParent
  <2>3. ASSUME NEW m \in Ids, Exists(m)' PROVE ValidParent(node[m].parent)'
    <3>1. node'[m].parent = IF m = n THEN p ELSE node[m].parent
      BY <1>11
    <3>2. ValidParent(p) /\ ValidParent(node[m].parent)
      BY <1>7, <2>3 DEF MoveNode, MoveAllowed, Forest, Exists
    <3>3. node[m].parent \in Ids \cup {None}
      BY DEF TypeOK
    <3> QED
      BY <1>3, <2>2, <3>1, <3>2, <3>3
  <2> QED
    BY <1>5, <2>3 DEF Forest, Acyclic
<1>9. TypeOK'
  BY <1>4 DEF MoveNode, TypeOK, Tables, add
<1>10. NoGhosts' /\ NewFresh' /\ Accounted'
  BY <1>1, <1>4, <1>7 DEF MoveNode, NoGhosts, NewFresh, Accounted, IsFile, add, TypeOK,
                        Tables
<1> QED
  BY <1>2, <1>3, <1>8, <1>9, <1>10, <1>11

(* Stacks.                                                                  *)
LEMMA StackParts ==
    ASSUME NEW T, NEW s \in Seq(T), s # <<>>
    PROVE  /\ Last(s) \in T /\ Front(s) \in Seq(T)
           /\ Len(s) \in DOMAIN s /\ Last(s) = s[Len(s)]
           /\ \A i \in DOMAIN Front(s) : i \in DOMAIN s /\ Front(s)[i] = s[i]
<1>1. Len(s) \in Nat /\ Len(s) # 0
  OBVIOUS
<1>2. Len(s) - 1 \in Nat /\ Len(s) - 1 <= Len(s) /\ Len(s) \in 1 .. Len(s)
  BY <1>1
<1>3. Front(s) \in Seq(T) /\ Len(Front(s)) = Len(s) - 1
  BY <1>2 DEF Front
<1>4. \A i \in 1 .. Len(s) - 1 : Front(s)[i] = s[i]
  BY <1>2 DEF Front
<1> QED
  BY <1>2, <1>3, <1>4 DEF Last

Frames == [dir : Ids, todo : SUBSET Ids]
News == [kind : {"none", "file", "dir"}, parent : Ids \cup {None}, id : Ids \cup {None}]
Pcs == {"idle", "makeRoot", "setRoot", "write", "commit"}

LEMMA Typed ==
    TypeOK <=> /\ node \in Tables /\ rootId \in Ids \cup {None} /\ used \in 0 .. MaxId
               /\ staged \subseteq Ids /\ queued \subseteq Ids /\ stored \subseteq Ids
               /\ pc \in [Adders -> Pcs] /\ new \in [Adders -> News]
               /\ drop \in [Adders -> Seq(Ids)] /\ del \in [Deleters -> Seq(Frames)]
  BY DEF TypeOK, Tables, Pcs, News, Frames

LEMMA TypedNext ==
    TypeOK' <=> /\ node' \in Tables /\ rootId' \in Ids \cup {None} /\ used' \in 0 .. MaxId
                /\ staged' \subseteq Ids /\ queued' \subseteq Ids /\ stored' \subseteq Ids
                /\ pc' \in [Adders -> Pcs] /\ new' \in [Adders -> News]
                /\ drop' \in [Adders -> Seq(Ids)] /\ del' \in [Deleters -> Seq(Frames)]
  BY DEF TypeOK, Tables, Pcs, News, Frames

(* Steps that leave the rows alone.                                         *)
LEMMA RowsKept ==
    ASSUME TreeInv, UNCHANGED <<node, queued, stored>>, used' \in Nat, used' >= used
    PROVE  NoGhosts' /\ Forest' /\ Accounted'
<1>1. used \in Nat /\ \A n \in Ids : n \in Nat
  BY NodeTreeConstants DEF TreeInv, TypeOK, Ids
<1>2. NoGhosts'
  BY <1>1 DEF TreeInv, NoGhosts
<1>3. Forest'
  BY DEF TreeInv, Forest, Exists, ValidParent, IsDirectory
<1>4. Accounted'
  BY DEF TreeInv, Accounted, IsFile
<1> QED
  BY <1>2, <1>3, <1>4

(* The steps of the adding tasks.                                           *)
LEMMA AddTree ==
    ASSUME TreeInv, NEW a \in Adders,
           \/ \E k \in LocalKinds, p \in Listed \cup {None} : AddBegin(a, k, p)
           \/ RootInsert(a) \/ RootSet(a) \/ AddWrite(a) \/ AddCommit(a)
           \/ \E k \in LocalKinds : DropEntry(a, k)
           \/ DropReturn(a)
    PROVE  TreeInv'
<1> USE DEF TreeInv
<1>1. None \notin Ids /\ MaxId \in Nat /\ Ids = 1 .. MaxId /\ used \in 0 .. MaxId
  BY NodeTreeConstants DEF Ids, TypeOK
<1>2. Listed \subseteq Ids
  BY BelowFixed DEF Listed, Subtree, TypeOK, Tables
<1>3. ASSUME NEW k \in LocalKinds, NEW p \in Ids \cup {None}, ResolveParent(a, k, p),
             UNCHANGED <<node, rootId, used, staged, queued, stored, del>>
      PROVE  TreeInv'
  <2>1. pc' \in [Adders -> Pcs] /\ new' \in [Adders -> News] /\ drop' = drop
    BY <1>3, Typed DEF ResolveParent, Step, Pcs, News, LocalKinds
  <2>2. NewFresh'
    BY <1>3 DEF TypeOK, ResolveParent, Step, NewFresh, LocalKinds
  <2> QED
    BY <1>1, <1>3, <2>1, <2>2, Typed, TypedNext, RowsKept
<1>4. ASSUME NEW k \in LocalKinds, NEW p \in Listed \cup {None}, AddBegin(a, k, p)
      PROVE  TreeInv'
  BY <1>2, <1>3, <1>4 DEF AddBegin
<1>5. ASSUME NEW k \in LocalKinds, DropEntry(a, k) PROVE TreeInv'
  <2>1. Last(drop[a]) \in Ids
    BY <1>5, StackParts DEF DropEntry, TypeOK
  <2> QED
    BY <1>3, <1>5, <2>1 DEF DropEntry
<1>6. CASE DropReturn(a)
  <2>1. Front(drop[a]) \in Seq(Ids)
    BY <1>6, StackParts DEF DropReturn, TypeOK
  <2>2. drop' \in [Adders -> Seq(Ids)]
    BY <1>6, <2>1 DEF DropReturn, TypeOK
  <2>3. NewFresh'
    BY <1>6 DEF DropReturn, NewFresh
  <2> QED
    BY <1>1, <1>6, <2>2, <2>3, Typed, TypedNext, RowsKept DEF DropReturn
<1>7. CASE RootInsert(a)
  <2>1. used' \in Ids /\ used' = used + 1 /\ node[used'] = NoNode
    BY <1>1, <1>7 DEF RootInsert, NoGhosts
  <2>2. /\ node' \in Tables /\ Forest'
        /\ \A m \in Ids : node'[m] = IF m = used' THEN [kind |-> "dir", parent |-> None]
                                     ELSE node[m]
    BY <1>7, <2>1, InsertKeeps DEF RootInsert, ValidParent
  <2>3. /\ pc' = [pc EXCEPT ![a] = "setRoot"] /\ new' \in [Adders -> News]
        /\ \A b \in Adders : new'[b].kind = new[b].kind /\ new'[b].id = new[b].id
    BY <1>7, <2>1, Typed DEF RootInsert, Step, News
  <2>4. NoGhosts'
    BY <1>1, <2>1, <2>2 DEF NoGhosts
  <2>5. NewFresh'
    <3>1. \A b \in Adders : pc'[b] = "commit" => pc[b] = "commit"
      BY <2>3, Typed
    <3>2. \A b \in Adders : pc'[b] # "idle" => new'[b].kind \in {"file", "dir"}
      BY <1>7, <2>3, Typed DEF NewFresh, RootInsert
    <3>3. ASSUME NEW b \in Adders, pc'[b] = "commit"
          PROVE  new'[b].id \in 1 .. used' /\ node'[new'[b].id] = NoNode
      <4>1. new[b].id \in 1 .. used /\ node[new[b].id] = NoNode
        BY <3>1, <3>3 DEF NewFresh
      <4> QED
        BY <1>1, <2>1, <2>2, <2>3, <4>1
    <3> QED
      BY <2>3, <3>1, <3>2, <3>3 DEF NewFresh
  <2>6. Accounted'
    <3>1. stored' = stored /\ queued' = queued /\ stored \subseteq Ids
      BY <1>7, Typed DEF RootInsert
    <3>2. \A m \in Ids : IsFile(m) => IsFile(m)'
      BY <2>1, <2>2 DEF IsFile, NoNode
    <3> QED
      BY <3>1, <3>2 DEF Accounted
  <2>7. pc' \in [Adders -> Pcs] /\ used' \in 0 .. MaxId
    BY <1>1, <2>1, <2>3, Typed DEF Pcs
  <2>8. TypeOK'
    BY <1>7, <2>2, <2>3, <2>7, Typed, TypedNext DEF RootInsert
  <2> QED
    BY <2>2, <2>4, <2>5, <2>6, <2>8
<1>8. CASE RootSet(a)
  <2>1. pc' \in [Adders -> Pcs] /\ rootId' \in Ids \cup {None}
    BY <1>8, Typed DEF RootSet, SetRootMeta, Step, Pcs, News
  <2>2. NewFresh'
    BY <1>8 DEF RootSet, Step, NewFresh, TypeOK
  <2> QED
    BY <1>1, <1>8, <2>1, <2>2, Typed, TypedNext, RowsKept DEF RootSet
<1>9. CASE AddWrite(a)
  <2>1. used' \in Ids /\ used' = used + 1 /\ node[used'] = NoNode
    BY <1>1, <1>9 DEF AddWrite, NoGhosts
  <2>2. pc' \in [Adders -> Pcs] /\ new' \in [Adders -> News] /\ staged' \subseteq Ids
    BY <1>9, <2>1, Typed DEF AddWrite, Step, Pcs, News
  <2>3. NewFresh'
    BY <1>1, <1>9, <2>1 DEF AddWrite, NewFresh, TypeOK, Step
  <2>4. used' \in 0 .. MaxId /\ used' \in Nat /\ used' >= used
    BY <1>1, <2>1
  <2>5. NoGhosts' /\ Forest' /\ Accounted'
    BY <1>9, <2>4, RowsKept DEF AddWrite
  <2> QED
    BY <1>9, <2>2, <2>3, <2>4, <2>5, Typed, TypedNext DEF AddWrite
<1>10. CASE AddCommit(a)
  <2> DEFINE n == new[a].id
  <2>1. /\ n \in Ids /\ n \in 1 .. used /\ node[n] = NoNode
        /\ new[a].kind \in {"file", "dir"} /\ new[a].parent \in Ids \cup {None}
    BY <1>1, <1>10 DEF AddCommit, TypeOK, NewFresh
  <2>2. /\ pc' = [pc EXCEPT ![a] = "idle"] /\ pc' \in [Adders -> Pcs]
        /\ new' = [new EXCEPT ![a] = NoNew] /\ new' \in [Adders -> News]
        /\ UNCHANGED <<rootId, used, queued, del>>
    BY <1>10, Typed DEF AddCommit, Step, Pcs, News, NoNew
  <2>3. CASE ValidParent(new[a].parent)
    <3>1. /\ InsertNode(n, new[a].kind, new[a].parent)
          /\ stored' = IF new[a].kind = "file" THEN stored \cup {n} ELSE stored
          /\ drop' = IF new[a].kind = "dir" THEN [drop EXCEPT ![a] = Append(@, n)] ELSE drop
          /\ UNCHANGED staged
      BY <1>10, <2>3 DEF AddCommit
    <3>2. /\ node' \in Tables /\ Forest'
          /\ \A m \in Ids : node'[m] =
               IF m = n THEN [kind |-> new[a].kind, parent |-> new[a].parent] ELSE node[m]
      BY <2>1, <2>3, <3>1, InsertKeeps
    <3>3. drop' \in [Adders -> Seq(Ids)] /\ stored' \subseteq Ids
      BY <2>1, <3>1, Typed
    <3>4. TypeOK'
      BY <2>2, <3>1, <3>2, <3>3, Typed, TypedNext
    <3>5. NoGhosts'
      BY <1>1, <2>1, <2>2, <3>2 DEF NoGhosts
    <3>6. NewFresh'
      <4>1. \A b \in Adders : pc'[b] # "idle" => pc'[b] = pc[b] /\ new'[b] = new[b] /\ b # a
        BY <2>2, Typed
      <4>2. ASSUME NEW b \in Adders, pc'[b] = "commit"
            PROVE  new'[b].id \in 1 .. used' /\ node'[new'[b].id] = NoNode
        <5>1. /\ new[b].id \in 1 .. used /\ node[new[b].id] = NoNode /\ new[b].id # n
              /\ new'[b].id = new[b].id
          BY <1>10, <4>1, <4>2 DEF AddCommit, NewFresh
        <5> QED
          BY <1>1, <2>2, <3>2, <5>1
      <4> QED
        BY <4>1, <4>2 DEF NewFresh
    <3>7. Accounted'
      BY <2>1, <2>2, <3>1, <3>2, Typed DEF Accounted, IsFile, NoNode
    <3> QED
      BY <3>2, <3>4, <3>5, <3>6, <3>7
  <2>4. CASE ~ValidParent(new[a].parent)
    <3>1. /\ staged' = staged \ {n}
          /\ drop' = [drop EXCEPT ![a] = <<>>]
          /\ UNCHANGED <<node, stored>>
      BY <1>10, <2>4 DEF AddCommit
    <3>2. TypeOK'
      BY <2>2, <3>1, Typed, TypedNext
    <3>3. NewFresh'
      BY <2>2, <3>1, Typed DEF NewFresh
    <3> QED
      BY <1>1, <2>2, <3>1, <3>2, <3>3, RowsKept
  <2> QED
    BY <2>3, <2>4
<1> QED
  BY <1>4, <1>5, <1>6, <1>7, <1>8, <1>9, <1>10

(* The deletions.                                                           *)
LEMMA DeleteTree ==
    ASSUME TreeInv, NEW n \in Ids, DeleteNode(n), UNCHANGED <<used, stored, new, pc>>,
           TypeOK'
    PROVE  TreeInv'
<1>1. /\ \A m \in Ids : node'[m] = IF m \in Subtree(n) THEN NoNode ELSE node[m]
      /\ Forest' /\ Accounted'
  BY DeleteKeeps DEF TreeInv
<1>2. NoGhosts'
  BY <1>1 DEF TreeInv, NoGhosts
<1>3. NewFresh'
  <2>1. \A m \in Ids : node[m] = NoNode => node'[m] = NoNode
    BY <1>1
  <2>2. \A a \in Adders : pc[a] = "commit" => new[a].id \in Ids
    BY NodeTreeConstants DEF TreeInv, NewFresh, TypeOK, Ids
  <2> QED
    BY <2>1, <2>2 DEF TreeInv, NewFresh
<1> QED
  BY <1>1, <1>2, <1>3 DEF TreeInv

(* What the steps of a deletion do to its stack.                            *)
LEMMA StackStep ==
    ASSUME TypeOK, NEW d \in Deleters, del[d] # <<>>
    PROVE  /\ Top(d) \in Frames /\ Pop(d) \in Seq(Frames)
           /\ Len(del[d]) \in DOMAIN del[d] /\ Top(d) = del[d][Len(del[d])]
           /\ \A i \in DOMAIN Pop(d) : i \in DOMAIN del[d] /\ Pop(d)[i] = del[d][i]
           /\ \A c : [Top(d) EXCEPT !.todo = @ \ {c}] \in Frames
           /\ \A c \in Ids : Frame(c) \in Frames
<1>1. del[d] \in Seq(Frames)
  BY Typed
<1>2. /\ Top(d) \in Frames /\ Pop(d) \in Seq(Frames)
      /\ Len(del[d]) \in DOMAIN del[d] /\ Top(d) = del[d][Len(del[d])]
      /\ \A i \in DOMAIN Pop(d) : i \in DOMAIN del[d] /\ Pop(d)[i] = del[d][i]
  BY <1>1, StackParts DEF Top, Pop
<1>3. \A c : [Top(d) EXCEPT !.todo = @ \ {c}] \in Frames
  BY <1>2 DEF Frames
<1>4. \A c \in Ids : Frame(c) \in Frames
  BY DEF Frame, ListChildren, Frames
<1> QED
  BY <1>2, <1>3, <1>4

LEMMA DeletersTree ==
    ASSUME TreeInv,
           \/ \E n \in Listed : UserDeletesFile(n)
           \/ \E n \in Listed, d \in Deleters : DeleteDirBegin(d, n)
           \/ \E d \in Deleters : DeleteDirChild(d) \/ DeleteDirSelf(d)
    PROVE  TreeInv'
<1>1. /\ Listed \subseteq Ids /\ TypeOK /\ used \in Nat
  <2>1. TypeOK /\ node \in Tables /\ rootId \in Ids \cup {None}
    BY Typed DEF TreeInv
  <2>2. used \in Nat
    BY <2>1, NodeTreeConstants DEF TypeOK
  <2> QED
    BY <2>1, <2>2, BelowFixed DEF Listed, Subtree
<1>2. ASSUME NEW n \in Ids, DeleteNode(n), stored' = stored
      PROVE  node' \in Tables /\ queued' \subseteq Ids
  BY <1>2, DeleteKeeps DEF TreeInv
<1>3. ASSUME UNCHANGED <<node, staged, queued, rootId, used, stored, pc, new, drop>>,
             del' \in [Deleters -> Seq(Frames)]
      PROVE  TreeInv'
  <2>1. NewFresh'
    BY <1>3 DEF TreeInv, NewFresh
  <2> QED
    BY <1>1, <1>3, <2>1, Typed, TypedNext, RowsKept DEF TreeInv
<1>4. ASSUME NEW n \in Ids, DeleteNode(n), staged' \subseteq Ids,
             UNCHANGED <<rootId, used, stored, pc, new, drop>>,
             del' \in [Deleters -> Seq(Frames)]
      PROVE  TreeInv'
  <2>1. TypeOK'
    BY <1>1, <1>2, <1>4, Typed, TypedNext
  <2> QED
    BY <1>4, <2>1, DeleteTree
<1>5. ASSUME NEW n \in Listed, UserDeletesFile(n) PROVE TreeInv'
  <2>1. del' \in [Deleters -> Seq(Frames)] /\ staged' \subseteq Ids
    BY <1>1, <1>5, Typed DEF UserDeletesFile, DeleteFile
  <2> QED
    BY <1>1, <1>4, <1>5, <2>1 DEF UserDeletesFile, DeleteFile, add
<1>6. ASSUME NEW n \in Listed, NEW d \in Deleters, DeleteDirBegin(d, n) PROVE TreeInv'
  <2>1. Frame(n) \in Frames
    BY <1>1 DEF Frame, ListChildren, Frames
  <2>2. del' \in [Deleters -> Seq(Frames)]
    BY <1>1, <1>6, <2>1, Typed DEF DeleteDirBegin, DeleteSubtree
  <2> QED
    BY <1>3, <1>6, <2>2 DEF DeleteDirBegin, add
<1>7. ASSUME NEW d \in Deleters, DeleteDirChild(d) PROVE TreeInv'
  <2>1. PICK c \in Top(d).todo :
          \/ DeleteFile(c) /\ del' = [del EXCEPT ![d] = Done(d, c)]
          \/ /\ del' = [del EXCEPT ![d] = Append(Done(d, c), Frame(c))]
             /\ UNCHANGED <<node, staged, queued>>
          \/ del' = [del EXCEPT ![d] = <<>>] /\ UNCHANGED <<node, staged, queued>>
    BY <1>7 DEF DeleteDirChild
  <2>2. UNCHANGED <<rootId, used, stored, pc, new, drop>> /\ del[d] # <<>>
    BY <1>7 DEF DeleteDirChild, add
  <2>3. c \in Ids
    BY <1>1, <2>2, StackStep DEF Frames
  <2>4. Done(d, c) \in Seq(Frames) /\ Append(Done(d, c), Frame(c)) \in Seq(Frames)
    BY <1>1, <2>2, <2>3, StackStep DEF Done
  <2>5. del' \in [Deleters -> Seq(Frames)]
    <3>1. del \in [Deleters -> Seq(Frames)] /\ <<>> \in Seq(Frames)
      BY <1>1, Typed
    <3>2. \A s \in Seq(Frames) : [del EXCEPT ![d] = s] \in [Deleters -> Seq(Frames)]
      BY <3>1
    <3> QED
      BY <2>1, <2>4, <3>1, <3>2
  <2>6. CASE DeleteFile(c)
    <3>1. staged' \subseteq Ids
      BY <1>1, <2>6, Typed DEF DeleteFile
    <3> QED
      BY <1>4, <2>2, <2>3, <2>5, <2>6, <3>1 DEF DeleteFile
  <2>7. CASE UNCHANGED <<node, staged, queued>>
    BY <1>3, <2>2, <2>5, <2>7
  <2> QED
    BY <2>1, <2>6, <2>7
<1>8. ASSUME NEW d \in Deleters, DeleteDirSelf(d) PROVE TreeInv'
  <2>1. UNCHANGED <<rootId, used, staged, stored, pc, new, drop>> /\ del[d] # <<>>
    BY <1>8 DEF DeleteDirSelf, add
  <2>2. del' = [del EXCEPT ![d] = Pop(d)] \/ del' = [del EXCEPT ![d] = <<>>]
    BY <1>8 DEF DeleteDirSelf
  <2>3. del' \in [Deleters -> Seq(Frames)]
    <3>1. /\ del \in [Deleters -> Seq(Frames)] /\ <<>> \in Seq(Frames)
          /\ Pop(d) \in Seq(Frames)
      BY <1>1, <2>1, StackStep, Typed
    <3>2. \A s \in Seq(Frames) : [del EXCEPT ![d] = s] \in [Deleters -> Seq(Frames)]
      BY <3>1
    <3> QED
      BY <2>2, <3>1, <3>2
  <2>4. CASE Exists(Top(d).dir)
    <3>1. Top(d).dir \in Ids /\ DeleteNode(Top(d).dir)
      BY <1>1, <1>8, <2>1, <2>4, StackStep DEF DeleteDirSelf, Frames
    <3> QED
      BY <1>1, <1>4, <2>1, <2>3, <3>1, Typed
  <2>5. CASE ~Exists(Top(d).dir)
    <3>1. UNCHANGED <<node, queued>>
      BY <1>8, <2>5 DEF DeleteDirSelf
    <3> QED
      BY <1>3, <2>1, <2>3, <3>1
  <2> QED
    BY <2>4, <2>5
<1> QED
  BY <1>5, <1>6, <1>7, <1>8

LEMMA StepTree == TreeInv /\ [Next]_vars => TreeInv'
<1> SUFFICES ASSUME TreeInv, [Next]_vars PROVE TreeInv'
  OBVIOUS
<1>1. CASE \E n \in Listed, p \in Listed \cup {rootId} : MoveNode(n, p)
  BY <1>1, MoveKeeps
<1>2. CASE Restart
  <2>1. /\ pc' \in [Adders -> Pcs] /\ new' \in [Adders -> News]
        /\ drop' \in [Adders -> Seq(Ids)] /\ del' \in [Deleters -> Seq(Frames)]
        /\ staged' \subseteq staged
    BY <1>2 DEF Restart, Pcs, News, NoNew
  <2>2. TypeOK'
    BY <1>2, <2>1, Typed, TypedNext DEF Restart, TreeInv
  <2>3. NewFresh'
    BY <1>2 DEF Restart, NewFresh
  <2>4. used \in Nat
    BY NodeTreeConstants DEF TreeInv, TypeOK
  <2> QED
    BY <1>2, <2>2, <2>3, <2>4, RowsKept DEF Restart, TreeInv
<1>3. CASE UNCHANGED vars
  BY <1>3 DEF vars, add, TreeInv, TypeOK, NoGhosts, NewFresh, Forest, Accounted, Exists,
              ValidParent, IsDirectory, IsFile
<1> QED
  BY <1>1, <1>2, <1>3, AddTree, DeletersTree DEF Next

(* Every reachable state of the tables and tasks is well typed.             *)
THEOREM TypeCorrect == Spec => []TypeOK
<1>1. TreeInv => TypeOK
  BY DEF TreeInv
<1> QED
  BY <1>1, InitTree, StepTree, PTL DEF Spec

(* Whatever commands overlap, the rows are a forest: insert_node checks the *)
(* parent in its own transaction, move_node excludes cycles in its, and     *)
(* delete_node cascades.                                                    *)
THEOREM RowsFormForest == Spec => []Forest
<1>1. TreeInv => Forest
  BY DEF TreeInv
<1> QED
  BY <1>1, InitTree, StepTree, PTL DEF Spec

(* Whatever commands overlap, a committed file is in the table or its blob *)
(* is queued for deletion from the cloud.                                   *)
THEOREM NoFileForgotten == Spec => []Accounted
<1>1. TreeInv => Accounted
  BY DEF TreeInv
<1> QED
  BY <1>1, InitTree, StepTree, PTL DEF Spec

-----------------------------------------------------------------------------
(* Below the root.                                                          *)

LEMMA BelowInsert ==
    ASSUME NEW t \in Tables, NEW u \in Tables, Acyclic(t), NEW r \in Ids, NEW n \in Ids,
           t[n].parent = None, \A m \in Ids \ {n} : u[m].parent = t[m].parent
    PROVE  Below(t, r) \subseteq Below(u, r)
<1>1. None \notin Ids
  BY NodeTreeConstants
<1>2. Below(u, r) \in SUBSET Ids
  BY BelowFixed
<1>3. \A m \in Ids : t[m].parent \in Below(u, r) \cup {r} => m \in Below(u, r)
  BY <1>1, <1>2, BelowFixed
<1> QED
  BY <1>2, <1>3, BelowLeast

LEMMA BelowDelete ==
    ASSUME NEW t \in Tables, NEW u \in Tables, Acyclic(t), NEW r \in Ids, NEW n \in Ids,
           \A m \in Ids : m \notin {n} \cup Below(t, n) => u[m] = t[m]
    PROVE  Below(t, r) \subseteq Below(u, r) \cup {n} \cup Below(t, n)
<1> DEFINE S == Below(u, r) \cup {n} \cup Below(t, n)
<1>1. S \in SUBSET Ids
  BY BelowFixed
<1>2. ASSUME NEW m \in Ids, t[m].parent \in S \cup {r} PROVE m \in S
  <2>1. CASE m \in {n} \cup Below(t, n)
    BY <2>1
  <2>2. CASE m \notin {n} \cup Below(t, n)
    <3>1. t[m].parent \notin {n} \cup Below(t, n) /\ u[m].parent = t[m].parent
      BY <2>2, BelowFixed
    <3>2. u[m].parent \in Below(u, r) \cup {r}
      BY <1>2, <3>1
    <3> QED
      BY <3>2, BelowFixed
  <2> QED
    BY <2>1, <2>2
<1>3. Below(t, r) \subseteq S
  <2> HIDE DEF S
  <2> QED
    BY <1>1, <1>2, BelowLeast
<1> QED
  BY <1>3

LEMMA BelowMove ==
    ASSUME NEW t \in Tables, NEW u \in Tables, Acyclic(t), NEW r \in Ids,
           NEW n \in Ids, NEW p \in Below(t, r) \cup {r}, p \notin {n} \cup Below(t, n),
           u[n].parent = p, \A m \in Ids \ {n} : u[m].parent = t[m].parent
    PROVE  Below(t, r) \subseteq Below(u, r)
<1> DEFINE S == Below(u, r)
           T == S \cup {n} \cup Below(t, n)
<1>1. S \in SUBSET Ids /\ T \in SUBSET Ids
  BY BelowFixed
<1>2. ASSUME NEW m \in Ids, t[m].parent \in T \cup {r} PROVE m \in T
  <2>1. CASE t[m].parent \in {n} \cup Below(t, n)
    BY <2>1, BelowFixed
  <2>2. CASE t[m].parent \in S \cup {r} /\ m # n
    <3>1. u[m].parent \in S \cup {r}
      BY <2>2
    <3> QED
      BY <3>1, BelowFixed
  <2> QED
    BY <1>2, <2>1, <2>2
<1>3. Below(t, r) \subseteq T
  <2> HIDE DEF T
  <2> QED
    BY <1>1, <1>2, BelowLeast
<1>4. p \in S \cup {r}
  BY <1>3
<1>5. n \in S
  BY <1>4, BelowFixed
<1>6. ASSUME NEW m \in Ids, t[m].parent \in S \cup {r} PROVE m \in S
  BY <1>5, <1>6, BelowFixed
<1> QED
  BY <1>1, <1>6, BelowLeast

(* What remains of a directory in hand after another step.                  *)
LEMMA PlacedKept ==
    ASSUME NEW q, Placed(q), used \in Nat, used' \in Nat, used' >= used, rootId' = rootId,
           node'[q] = node[q] \/ node'[q] = NoNode \/ node'[q].parent # None,
           \A b \in Adders : pc'[b] = "commit" =>
              (pc[b] = "commit" /\ new'[b].id = new[b].id) \/ new'[b].id \notin 1 .. used
    PROVE  Placed(q)'
<1>1. q \in 1 .. used'
  BY DEF Placed
<1>2. q = rootId' \/ node'[q] = NoNode \/ node'[q].parent # None
  BY DEF Placed
<1>3. \A b \in Adders : pc'[b] = "commit" => new'[b].id # q
  BY DEF Placed
<1> QED
  BY <1>1, <1>2, <1>3 DEF Placed

LEMMA InitReach == Init => ReachInv
<1> SUFFICES ASSUME Init PROVE ReachInv
  OBVIOUS
<1>1. \A n \in Ids : node[n] = NoNode
  BY DEF Init
<1> QED
  BY <1>1 DEF Init, ReachInv, RootStands, NothingBefore, Destined, Hung, RootSpared, NoNode

(* Facts about every state that the steps below use.                        *)
LEMMA RootFacts ==
    ASSUME TreeInv, ReachInv
    PROVE  /\ None \notin Ids /\ node \in Tables /\ Acyclic(node) /\ used \in Nat
           /\ \A m \in Ids : node[m] # NoNode => m \in 1 .. used
           /\ \A m \in Listed : m \in Ids /\ m # rootId /\ node[m].parent # None
           /\ \A m \in Listed \cup {rootId} : m # None /\ IsDirectory(m) => Placed(m)
           /\ rootId # None => rootId \in Ids /\ node[rootId].parent = None
           /\ Listed # {} => rootId # None
<1>1. None \notin Ids /\ node \in Tables /\ Acyclic(node) /\ used \in Nat
  <2>1. None \notin Ids /\ node \in Tables /\ used \in Nat
    BY NodeTreeConstants, Typed DEF TreeInv
  <2> QED
    BY <2>1, ForestAcyclic DEF TreeInv
<1>2. \A m \in Ids : node[m] # NoNode => m \in 1 .. used
  BY <1>1, NodeTreeConstants DEF TreeInv, NoGhosts, Ids
<1>3. rootId # None => rootId \in Ids /\ node[rootId].parent = None
  BY Typed DEF TreeInv, ReachInv, RootStands
<1>4. \A m \in Listed : m \in Ids /\ m # rootId /\ node[m].parent # None
  BY <1>1, <1>3, BelowFixed DEF Listed, Subtree
<1>5. ASSUME NEW m \in Listed \cup {rootId}, m # None, IsDirectory(m) PROVE Placed(m)
  <2>1. m \in Ids /\ (m = rootId \/ node[m].parent # None)
    BY <1>3, <1>4, <1>5
  <2>2. node[m] # NoNode
    BY <1>5 DEF IsDirectory, NoNode
  <2> QED
    BY <1>2, <2>1, <2>2 DEF Placed, TreeInv, NewFresh
<1>6. Listed # {} => rootId # None
  BY DEF Listed
<1> QED
  BY <1>1, <1>2, <1>3, <1>4, <1>5, <1>6

(* Steps that leave the rows and the root alone.                            *)
LEMMA HungKept == ASSUME Hung, UNCHANGED <<node, rootId>> PROVE Hung'
  BY DEF Hung, Subtree

(* A task resolves its parent: the root, or a directory in hand.            *)
LEMMA ResolveReach ==
    ASSUME TreeInv, ReachInv, TwoRoots = FALSE, NEW a \in Adders, NEW k \in LocalKinds,
           NEW p \in Ids \cup {None}, ResolveParent(a, k, p), pc[a] = "idle",
           p # None => Placed(p) /\ rootId # None,
           p = None => drop[a] = <<>>,
           p = None /\ ~HasRootMeta =>
              TwoRoots \/ \A b \in Adders : pc[b] \notin {"makeRoot", "setRoot"},
           UNCHANGED <<node, rootId, used, staged, queued, stored, del>>
    PROVE  ReachInv'
<1> USE DEF ReachInv
<1>1. /\ pc' = [pc EXCEPT ![a] = IF p = None /\ rootId = None THEN "makeRoot" ELSE "write"]
      /\ new' = [new EXCEPT ![a] = [kind |-> k, id |-> None,
                                    parent |-> IF p = None THEN rootId ELSE p]]
      /\ drop' = drop
  BY DEF ResolveParent, Step, HasRootMeta
<1>2. pc \in [Adders -> Pcs] /\ new \in [Adders -> News]
  BY Typed DEF TreeInv
<1>3. RootStands'
  BY <1>1, <1>2 DEF RootStands, HasRootMeta, IsDirectory
<1>4. NothingBefore'
  BY <1>1, <1>2 DEF NothingBefore
<1>5. Destined'
  <2>1. \A b \in Adders : pc'[b] = "commit" => pc[b] = "commit" /\ new'[b].id = new[b].id
    BY <1>1, <1>2
  <2>2. \A q : Placed(q) => Placed(q)'
    BY <2>1, RootFacts, PlacedKept
  <2>3. rootId # None => Placed(rootId)
    BY RootFacts DEF RootStands
  <2>4. pc'[a] = "write" => Placed(new'[a].parent)
    BY <1>1, <1>2, <2>3
  <2>5. pc'[a] \in {"makeRoot", "write"}
    BY <1>1, <1>2
  <2>6. \A b \in Adders \ {a} : pc'[b] = pc[b] /\ new'[b] = new[b]
    BY <1>1, <1>2
  <2> QED
    BY <1>1, <2>2, <2>4, <2>5, <2>6 DEF Destined
<1> QED
  BY <1>3, <1>4, <1>5, HungKept DEF RootSpared

LEMMA AddReach ==
    ASSUME TreeInv, ReachInv, TreeInv', TwoRoots = FALSE, NEW a \in Adders,
           \/ \E k \in LocalKinds, p \in Listed \cup {None} : AddBegin(a, k, p)
           \/ RootInsert(a) \/ RootSet(a) \/ AddWrite(a)
           \/ \E k \in LocalKinds : DropEntry(a, k)
           \/ DropReturn(a)
    PROVE  ReachInv'
<1> USE DEF ReachInv
<1>1. pc \in [Adders -> Pcs] /\ new \in [Adders -> News] /\ drop \in [Adders -> Seq(Ids)]
  BY Typed DEF TreeInv
<1>2. ASSUME NEW k \in LocalKinds, NEW p \in Listed \cup {None}, AddBegin(a, k, p)
      PROVE  ReachInv'
  <2>1. /\ p \in Ids \cup {None} /\ pc[a] = "idle" /\ drop[a] = <<>>
        /\ ResolveParent(a, k, p) /\ (p # None => IsDirectory(p))
        /\ p = None /\ ~HasRootMeta =>
              TwoRoots \/ \A b \in Adders : pc[b] \notin {"makeRoot", "setRoot"}
        /\ UNCHANGED <<node, rootId, used, staged, queued, stored, del>>
    BY <1>2, RootFacts DEF AddBegin
  <2>2. p # None => Placed(p) /\ rootId # None
    BY <2>1, RootFacts
  <2> QED
    BY <2>1, <2>2, ResolveReach
<1>3. ASSUME NEW k \in LocalKinds, DropEntry(a, k) PROVE ReachInv'
  <2>1. /\ drop[a] \in Seq(Ids) /\ drop[a] # <<>> /\ pc[a] = "idle"
        /\ ResolveParent(a, k, Last(drop[a]))
        /\ UNCHANGED <<node, rootId, used, staged, queued, stored, del>>
    BY <1>1, <1>3 DEF DropEntry
  <2>2. Last(drop[a]) \in Ids /\ Placed(Last(drop[a]))
    BY <2>1, StackParts DEF Destined
  <2>3. rootId # None
    BY <2>1 DEF NothingBefore
  <2>4. Last(drop[a]) # None
    BY <2>2, RootFacts
  <2> QED
    BY <2>1, <2>2, <2>3, <2>4, ResolveReach
<1>4. CASE DropReturn(a)
  <2>1. /\ drop[a] \in Seq(Ids) /\ drop[a] # <<>>
        /\ drop' = [drop EXCEPT ![a] = Front(drop[a])]
        /\ UNCHANGED <<node, rootId, used, pc, new, del>>
    BY <1>1, <1>4 DEF DropReturn
  <2>2. \A i \in DOMAIN Front(drop[a]) : i \in DOMAIN drop[a] /\ Front(drop[a])[i] = drop[a][i]
    BY <2>1, StackParts
  <2>3. Destined'
    BY <1>1, <2>1, <2>2 DEF Destined, Placed
  <2>4. NothingBefore'
    BY <2>1 DEF NothingBefore
  <2>5. RootStands' /\ RootSpared'
    BY <2>1 DEF RootStands, RootSpared, IsDirectory
  <2> QED
    BY <2>1, <2>3, <2>4, <2>5, HungKept
<1>5. CASE RootInsert(a)
  <2>1. /\ pc[a] = "makeRoot" /\ used' = used + 1 /\ used' \in Ids
        /\ pc' = [pc EXCEPT ![a] = "setRoot"] /\ UNCHANGED <<rootId, drop, del>>
        /\ rootId = None
    BY <1>5, NodeTreeConstants DEF RootInsert, Step, RootStands, Ids, TreeInv, TypeOK
  <2>2. /\ node' = [node EXCEPT ![used'] = [kind |-> "dir", parent |-> None]]
        /\ new' = [new EXCEPT ![a].parent = used']
    BY <1>5 DEF RootInsert, InsertNode
  <2>3. /\ \A m \in Ids : node'[m].parent = None
        /\ \A m \in Ids : IsDirectory(m) => IsDirectory(m)'
        /\ node'[used'].kind = "dir"
    BY <2>1, <2>2, RootFacts DEF NothingBefore, IsDirectory, Tables
  <2>4. RootStands'
    <3>1. new'[a].parent = used'
      BY <1>1, <2>2
    <3>2. \A b \in Adders : pc'[b] \in {"makeRoot", "setRoot"} => b = a
      BY <1>1, <2>1 DEF RootStands
    <3> QED
      BY <2>1, <2>3, <3>1, <3>2 DEF RootStands, IsDirectory
  <2>5. NothingBefore'
    BY <1>1, <2>1, <2>3 DEF NothingBefore
  <2>6. Destined'
    BY <1>1, <2>1 DEF NothingBefore, Destined
  <2>7. Hung' /\ RootSpared'
    BY <2>1, <2>3 DEF Hung, RootSpared
  <2> QED
    BY <2>4, <2>5, <2>6, <2>7
<1>6. CASE RootSet(a)
  <2> DEFINE r == new[a].parent
  <2>1. /\ pc[a] = "setRoot" /\ rootId' = r /\ pc' = [pc EXCEPT ![a] = "write"]
        /\ UNCHANGED <<node, used, new, drop, del>> /\ rootId = None
    BY <1>6 DEF RootSet, SetRootMeta, Step, RootStands
  <2>2. r \in Ids /\ IsDirectory(r) /\ node[r].parent = None /\ r \in 1 .. used
    BY <2>1, RootFacts DEF RootStands, NothingBefore, IsDirectory, NoNode
  <2>3. \A b \in Adders : /\ pc'[b] \in {"idle", "write"} /\ drop'[b] = <<>>
                          /\ pc'[b] = "write" => b = a
    BY <1>1, <2>1 DEF RootStands, NothingBefore
  <2>4. RootStands'
    BY <2>1, <2>2, <2>3 DEF RootStands, IsDirectory
  <2>5. NothingBefore'
    BY <2>1, <2>2, RootFacts DEF NothingBefore
  <2>6. Destined'
    BY <2>1, <2>2, <2>3 DEF Destined, Placed
  <2>7. Hung' /\ RootSpared'
    BY <2>1 DEF Hung, NothingBefore, RootSpared
  <2> QED
    BY <2>4, <2>5, <2>6, <2>7
<1>7. CASE AddWrite(a)
  <2>1. /\ pc[a] = "write" /\ used' = used + 1 /\ pc' = [pc EXCEPT ![a] = "commit"]
        /\ new' = [new EXCEPT ![a].id = used'] /\ UNCHANGED <<node, rootId, drop, del>>
        /\ used \in Nat
    BY <1>7, RootFacts DEF AddWrite, Step
  <2>2. /\ \A b \in Adders : new'[b].parent = new[b].parent
        /\ \A b \in Adders \ {a} : new'[b] = new[b] /\ pc'[b] = pc[b]
        /\ new'[a].id = used + 1
    BY <1>1, <2>1 DEF News
  <2>3. RootStands' /\ NothingBefore'
    BY <1>1, <2>1, <2>2 DEF RootStands, NothingBefore, IsDirectory
  <2>4. \A q : Placed(q) => Placed(q)'
    <3>1. \A b \in Adders : pc'[b] = "commit" =>
            (pc[b] = "commit" /\ new'[b].id = new[b].id) \/ new'[b].id \notin 1 .. used
      BY <2>1, <2>2
    <3>2. used' \in Nat /\ used' >= used
      BY <2>1
    <3> QED
      BY <2>1, <3>1, <3>2, PlacedKept
  <2>5. Destined'
    BY <1>1, <2>1, <2>2, <2>4 DEF Destined
  <2> QED
    BY <2>1, <2>3, <2>5, HungKept DEF RootSpared
<1> QED
  BY <1>2, <1>3, <1>4, <1>5, <1>6, <1>7

LEMMA CommitReach ==
    ASSUME TreeInv, ReachInv, TreeInv', NEW a \in Adders, AddCommit(a)
    PROVE  ReachInv'
<1> USE DEF ReachInv
<1>0. PICK n, p : n = new[a].id /\ p = new[a].parent
  OBVIOUS
<1>1. pc \in [Adders -> Pcs] /\ new \in [Adders -> News] /\ drop \in [Adders -> Seq(Ids)]
  BY Typed DEF TreeInv
<1>2. /\ pc[a] = "commit" /\ pc' = [pc EXCEPT ![a] = "idle"]
      /\ new' = [new EXCEPT ![a] = NoNew] /\ UNCHANGED <<rootId, used, del>>
  BY DEF AddCommit, Step
<1>3. /\ n \in Ids /\ n \in 1 .. used /\ node[n] = NoNode /\ n # p
      /\ new[a].kind \in {"file", "dir"}
      /\ p \in 1 .. used /\ p \in Ids /\ Placed(p) /\ rootId # None
  <2>1. n \in 1 .. used /\ node[n] = NoNode /\ new[a].kind \in {"file", "dir"}
    BY <1>0, <1>2 DEF TreeInv, NewFresh
  <2>2. Placed(p) /\ p \in 1 .. used /\ n # p
    BY <1>0, <1>2 DEF Destined, Placed
  <2>3. rootId # None
    BY <1>2 DEF NothingBefore
  <2>4. used \in 0 .. MaxId /\ MaxId \in Nat
    BY NodeTreeConstants, Typed DEF TreeInv
  <2> QED
    BY <2>1, <2>2, <2>3, <2>4 DEF Ids
<1>4. \A b \in Adders : pc'[b] # "idle" => b # a /\ pc'[b] = pc[b] /\ new'[b] = new[b]
  BY <1>1, <1>2
<1>5. \A b \in Adders : pc'[b] = "commit" => pc[b] = "commit" /\ new'[b].id = new[b].id
  BY <1>4
<1>6. CASE ~ValidParent(p)
  <2>1. drop' = [drop EXCEPT ![a] = <<>>] /\ UNCHANGED node
    BY <1>0, <1>6 DEF AddCommit
  <2>2. \A q : Placed(q) => Placed(q)'
    BY <1>2, <1>5, <2>1, RootFacts, PlacedKept
  <2>3. Destined'
    BY <1>1, <1>4, <2>1, <2>2 DEF Destined
  <2>4. RootStands' /\ NothingBefore' /\ RootSpared'
    BY <1>2, <1>3, <1>4, <2>1 DEF RootStands, NothingBefore, RootSpared, IsDirectory
  <2> QED
    BY <1>2, <2>1, <2>3, <2>4, HungKept
<1>7. CASE ValidParent(p)
  <2>1. /\ InsertNode(n, new[a].kind, p)
        /\ drop' = IF new[a].kind = "dir" THEN [drop EXCEPT ![a] = Append(@, n)] ELSE drop
    BY <1>0, <1>7 DEF AddCommit
  <2>2. /\ node' \in Tables
        /\ \A m \in Ids : node'[m] = IF m = n THEN [kind |-> new[a].kind, parent |-> p]
                                     ELSE node[m]
    BY <1>3, <1>7, <2>1, InsertKeeps DEF TreeInv
  <2>3. p # None /\ None \notin Ids
    BY <1>3, RootFacts
  <2>4. IsDirectory(p) /\ node[p] # NoNode
    BY <1>7, <2>3 DEF ValidParent, IsDirectory, NoNode
  <2>5. rootId \in Ids /\ p \in {rootId} \cup Below(node, rootId)
    BY <1>3, <2>4, RootFacts DEF Placed, Hung, Subtree
  <2>6. Below(node, rootId) \subseteq Below(node', rootId)
    <3>1. node[n].parent = None /\ \A m \in Ids \ {n} : node'[m].parent = node[m].parent
      BY <1>3, <2>2 DEF NoNode
    <3> QED
      BY <1>3, <2>2, <2>5, <3>1, RootFacts, BelowInsert
  <2>7. n \in Below(node', rootId)
    <3>1. node'[n].parent = p
      BY <1>3, <2>2
    <3> QED
      BY <1>3, <2>2, <2>5, <2>6, <3>1, BelowFixed
  <2>8. Hung'
    <3>1. \A m \in Ids \ {n} : node'[m].parent # None => m \in {rootId} \cup Below(node, rootId)
      BY <2>2 DEF Hung, Subtree
    <3> QED
      BY <1>2, <2>6, <2>7, <3>1 DEF Hung, Subtree
  <2>9. \A q : Placed(q) => Placed(q)'
    <3>1. ASSUME NEW q, Placed(q)
          PROVE  node'[q] = node[q] \/ node'[q] = NoNode \/ node'[q].parent # None
      <4>1. q \in Ids /\ q # n
        <5>1. q \in 1 .. used /\ q # n
          BY <1>0, <1>2, <3>1 DEF Placed
        <5>2. used \in 0 .. MaxId /\ MaxId \in Nat
          BY NodeTreeConstants, Typed DEF TreeInv
        <5> QED
          BY <5>1, <5>2 DEF Ids
      <4> QED
        BY <2>2, <4>1
    <3> QED
      BY <1>2, <1>5, <3>1, RootFacts, PlacedKept
  <2>10. Placed(n)'
    <3>1. \A b \in Adders : pc'[b] = "commit" => new'[b].id # n
      BY <1>0, <1>2, <1>4, <1>5 DEF TreeInv, NewFresh
    <3>2. node'[n].parent # None
      BY <1>3, <2>2, <2>3
    <3> QED
      BY <1>2, <1>3, <3>1, <3>2 DEF Placed
  <2>11. Destined'
    <3>1. ASSUME NEW b \in Adders, NEW i \in DOMAIN drop'[b], NEW q, q = drop'[b][i]
          PROVE  Placed(q)'
      <4>1. CASE drop'[b] = drop[b]
        BY <2>9, <3>1, <4>1 DEF Destined
      <4>2. CASE drop'[b] = Append(drop[b], n)
        <5>1. drop[b] \in Seq(Ids)
          BY <1>1
        <5>2. (i \in DOMAIN drop[b] /\ q = drop[b][i]) \/ q = n
          BY <1>3, <3>1, <4>2, <5>1
        <5> QED
          BY <2>9, <2>10, <5>2 DEF Destined
      <4> QED
        BY <1>1, <2>1, <4>1, <4>2
    <3>2. ASSUME NEW b \in Adders, pc'[b] \in {"write", "commit"}, NEW q,
                 q = new'[b].parent
          PROVE  Placed(q)'
      BY <1>4, <2>9, <3>2 DEF Destined
    <3> QED
      BY <3>1, <3>2 DEF Destined
  <2>12. rootId # n /\ \A m \in Ids \ {n} : IsDirectory(m) => IsDirectory(m)'
    BY <1>3, <2>2, RootFacts DEF RootStands, IsDirectory, NoNode
  <2>13. RootStands'
    BY <1>2, <1>3, <1>4, <2>2, <2>5, <2>12 DEF RootStands
  <2>14. NothingBefore' /\ RootSpared'
    BY <1>2, <1>3 DEF NothingBefore, RootSpared
  <2> QED
    BY <2>8, <2>11, <2>13, <2>14
<1> QED
  BY <1>6, <1>7

LEMMA MoveReach ==
    ASSUME TreeInv, ReachInv, NEW n \in Listed, NEW p \in Listed \cup {rootId},
           MoveNode(n, p)
    PROVE  ReachInv'
<1> USE DEF ReachInv
<1>1. /\ n \in Ids /\ p \in Ids /\ node[n].parent # None /\ rootId \in Ids
      /\ \A m \in Ids : node'[m].kind = node[m].kind
      /\ \A m \in Ids : node'[m].parent = IF m = n THEN p ELSE node[m].parent
      /\ TreeInv'
  BY MoveKeeps
<1>2. /\ UNCHANGED <<rootId, used, pc, new, drop, del>>
      /\ p \notin {n} \cup Below(node, n)
  BY DEF MoveNode, MoveAllowed, Subtree, add
<1>3. node' \in Tables
  BY <1>1, TypedNext DEF TreeInv
<1>4. p \in Below(node, rootId) \cup {rootId} /\ rootId # None /\ None \notin Ids
  BY RootFacts DEF Listed, Subtree
<1>5. Below(node, rootId) \subseteq Below(node', rootId)
  <2>1. node'[n].parent = p /\ \A m \in Ids \ {n} : node'[m].parent = node[m].parent
    BY <1>1
  <2> QED
    BY <1>1, <1>2, <1>3, <1>4, <2>1, RootFacts, BelowMove
<1>6. n \in Below(node, rootId)
  BY <1>4 DEF Listed, Subtree
<1>7. Hung'
  BY <1>1, <1>2, <1>5, <1>6 DEF Hung, Subtree
<1>8. \A q : Placed(q) => Placed(q)'
  <2>1. ASSUME NEW q, Placed(q)
        PROVE  node'[q] = node[q] \/ node'[q] = NoNode \/ node'[q].parent # None
    <3>1. q \in Ids
      BY <2>1, NodeTreeConstants DEF Placed, TreeInv, TypeOK, Ids
    <3>2. node[q].parent # None => node'[q].parent # None
      BY <1>1, <1>4, <3>1
    <3>3. CASE q = n
      BY <1>1, <3>2, <3>3
    <3>4. CASE q # n
      BY <1>1, <3>4 DEF MoveNode
    <3> QED
      BY <3>3, <3>4
  <2> QED
    BY <1>2, <2>1, RootFacts, PlacedKept
<1>9. Destined'
  BY <1>2, <1>8 DEF Destined
<1>10. rootId # n
  BY RootFacts
<1>11. RootStands'
  BY <1>1, <1>2, <1>4, <1>10 DEF RootStands, IsDirectory
<1>12. NothingBefore' /\ RootSpared'
  BY <1>2, <1>4 DEF NothingBefore, RootSpared
<1> QED
  BY <1>7, <1>9, <1>11, <1>12

LEMMA DeleteReach ==
    ASSUME TreeInv, ReachInv, NEW n \in Ids, rootId # None, n # rootId, DeleteNode(n),
           UNCHANGED <<rootId, used, stored, pc, new, drop>>
    PROVE  RootStands' /\ NothingBefore' /\ Destined' /\ Hung'
<1> USE DEF ReachInv
<1>1. /\ node' \in Tables
      /\ \A m \in Ids : node'[m] = IF m \in {n} \cup Below(node, n) THEN NoNode ELSE node[m]
  BY DeleteKeeps DEF TreeInv, Subtree
<1>2. /\ None \notin Ids /\ node \in Tables /\ Acyclic(node) /\ used \in Nat
      /\ rootId \in Ids /\ node[rootId].parent = None
  BY RootFacts
<1>3. rootId \notin {n} \cup Below(node, n)
  BY <1>2, BelowFixed
<1>4. Below(node, rootId) \subseteq Below(node', rootId) \cup {n} \cup Below(node, n)
  BY <1>1, <1>2, BelowDelete
<1>5. Hung'
  <2>1. ASSUME NEW m \in Ids, node'[m].parent # None
        PROVE  m \in {rootId} \cup Below(node', rootId)
    <3>1. m \notin {n} \cup Below(node, n) /\ node[m].parent # None
      BY <1>1, <2>1 DEF NoNode
    <3> QED
      BY <1>4, <3>1 DEF Hung, Subtree
  <2> QED
    BY <2>1 DEF Hung, Subtree
<1>6. \A q : Placed(q) => Placed(q)'
  <2>1. ASSUME NEW q, Placed(q) PROVE node'[q] = node[q] \/ node'[q] = NoNode
    <3>1. q \in Ids
      BY <2>1, NodeTreeConstants DEF Placed, TreeInv, TypeOK, Ids
    <3> QED
      BY <1>1, <3>1
  <2> QED
    BY <1>2, <2>1, PlacedKept
<1>7. Destined'
  BY <1>6 DEF Destined
<1>8. RootStands' /\ NothingBefore'
  BY <1>1, <1>2, <1>3 DEF RootStands, NothingBefore, IsDirectory
<1> QED
  BY <1>5, <1>7, <1>8

LEMMA DeletersReach ==
    ASSUME TreeInv, ReachInv,
           \/ \E n \in Listed : UserDeletesFile(n)
           \/ \E n \in Listed, d \in Deleters : DeleteDirBegin(d, n)
           \/ \E d \in Deleters : DeleteDirChild(d) \/ DeleteDirSelf(d)
    PROVE  ReachInv'
<1> USE DEF ReachInv
<1> DEFINE Spared(s) == \A i \in DOMAIN s : s[i].dir # rootId /\ rootId \notin s[i].todo
<1>1. TypeOK /\ del \in [Deleters -> Seq(Frames)]
  BY Typed DEF TreeInv
<1>2. ASSUME UNCHANGED <<node, rootId, used, pc, new, drop>>, rootId # None
      PROVE  RootStands' /\ NothingBefore' /\ Destined' /\ Hung'
  <2>1. Destined'
    BY <1>2 DEF Destined, Placed
  <2>2. RootStands' /\ NothingBefore'
    BY <1>2 DEF RootStands, NothingBefore, IsDirectory
  <2> QED
    BY <1>2, <2>1, <2>2, HungKept
<1>3. ASSUME NEW d \in Deleters, NEW s, Spared(s), del' = [del EXCEPT ![d] = s],
             rootId' = rootId
      PROVE  RootSpared'
  BY <1>1, <1>3 DEF RootSpared
<1>4. ASSUME NEW n \in Ids, n # rootId, rootId # None
      PROVE  Frame(n).dir = n /\ rootId \notin Frame(n).todo
  BY <1>4, RootFacts DEF Frame, ListChildren
<1>5. ASSUME NEW n \in Listed, UserDeletesFile(n) PROVE ReachInv'
  <2>1. n \in Ids /\ n # rootId /\ rootId # None
    BY RootFacts
  <2>2. DeleteNode(n) /\ UNCHANGED <<rootId, used, stored, pc, new, drop, del>>
    BY <1>5 DEF UserDeletesFile, DeleteFile, add
  <2> QED
    BY <2>1, <2>2, DeleteReach DEF RootSpared
<1>6. ASSUME NEW n \in Listed, NEW d \in Deleters, DeleteDirBegin(d, n) PROVE ReachInv'
  <2>1. n \in Ids /\ n # rootId /\ rootId # None
    BY RootFacts
  <2>2. /\ UNCHANGED <<node, rootId, used, pc, new, drop>>
        /\ del' = [del EXCEPT ![d] = <<Frame(n)>>]
    BY <1>6 DEF DeleteDirBegin, DeleteSubtree, add
  <2>3. Spared(<<Frame(n)>>)
    BY <1>4, <2>1
  <2> QED
    BY <1>2, <1>3, <2>1, <2>2, <2>3
<1>7. ASSUME NEW d \in Deleters, DeleteDirChild(d) PROVE ReachInv'
  <2>1. PICK c \in Top(d).todo :
          \/ DeleteFile(c) /\ del' = [del EXCEPT ![d] = Done(d, c)]
          \/ /\ del' = [del EXCEPT ![d] = Append(Done(d, c), Frame(c))]
             /\ UNCHANGED <<node, staged, queued>>
          \/ del' = [del EXCEPT ![d] = <<>>] /\ UNCHANGED <<node, staged, queued>>
    BY <1>7 DEF DeleteDirChild
  <2>2. UNCHANGED <<rootId, used, stored, pc, new, drop>> /\ del[d] # <<>> /\ rootId # None
    BY <1>7 DEF DeleteDirChild, add, NothingBefore
  <2> DEFINE top == [Top(d) EXCEPT !.todo = @ \ {c}]
  <2>3. /\ Top(d) \in Frames /\ Pop(d) \in Seq(Frames) /\ top \in Frames
        /\ Len(del[d]) \in DOMAIN del[d] /\ Top(d) = del[d][Len(del[d])]
        /\ \A i \in DOMAIN Pop(d) : i \in DOMAIN del[d] /\ Pop(d)[i] = del[d][i]
    BY <1>1, <2>2, StackStep
  <2>4. c \in Ids /\ c # rootId
    BY <2>3 DEF Frames, RootSpared
  <2>5. top.dir # rootId /\ rootId \notin top.todo
    BY <2>3 DEF Frames, RootSpared
  <2>6. /\ Done(d, c) \in Seq(Frames) /\ Frame(c) \in Frames
        /\ Spared(Done(d, c))
    <3>1. Done(d, c) = Append(Pop(d), top)
      BY DEF Done
    <3>2. \A i \in DOMAIN Append(Pop(d), top) :
             Append(Pop(d), top)[i] = top \/ (i \in DOMAIN Pop(d) /\ Append(Pop(d), top)[i] = Pop(d)[i])
      BY <2>3
    <3>3. Spared(Append(Pop(d), top))
      BY <2>3, <2>5, <3>2 DEF RootSpared
    <3> QED
      BY <1>1, <2>2, <2>3, <2>4, <3>1, <3>3, StackStep
  <2>7. Spared(Append(Done(d, c), Frame(c)))
    <3>1. \A i \in DOMAIN Append(Done(d, c), Frame(c)) :
             \/ Append(Done(d, c), Frame(c))[i] = Frame(c)
             \/ i \in DOMAIN Done(d, c) /\ Append(Done(d, c), Frame(c))[i] = Done(d, c)[i]
      BY <2>6
    <3> QED
      BY <1>4, <2>2, <2>4, <2>6, <3>1
  <2>8. Spared(<<>>)
    OBVIOUS
  <2>9. RootSpared'
    BY <1>3, <2>1, <2>2, <2>6, <2>7, <2>8
  <2>10. CASE DeleteFile(c)
    BY <2>2, <2>4, <2>9, <2>10, DeleteReach DEF DeleteFile
  <2>11. CASE UNCHANGED <<node, staged, queued>>
    BY <1>2, <2>2, <2>9, <2>11
  <2> QED
    BY <2>1, <2>10, <2>11
<1>8. ASSUME NEW d \in Deleters, DeleteDirSelf(d) PROVE ReachInv'
  <2>1. UNCHANGED <<rootId, used, stored, pc, new, drop>> /\ del[d] # <<>> /\ rootId # None
    BY <1>8 DEF DeleteDirSelf, add, NothingBefore
  <2>2. /\ Top(d) \in Frames /\ Pop(d) \in Seq(Frames)
        /\ Len(del[d]) \in DOMAIN del[d] /\ Top(d) = del[d][Len(del[d])]
        /\ \A i \in DOMAIN Pop(d) : i \in DOMAIN del[d] /\ Pop(d)[i] = del[d][i]
    BY <1>1, <2>1, StackStep
  <2>3. Spared(Pop(d)) /\ Spared(<<>>)
    BY <2>2 DEF RootSpared
  <2>4. del' = [del EXCEPT ![d] = Pop(d)] \/ del' = [del EXCEPT ![d] = <<>>]
    BY <1>8 DEF DeleteDirSelf
  <2>5. RootSpared'
    BY <1>3, <2>1, <2>3, <2>4
  <2>6. Top(d).dir \in Ids /\ Top(d).dir # rootId
    BY <2>2 DEF Frames, RootSpared
  <2>7. DeleteNode(Top(d).dir) \/ UNCHANGED node
    BY <1>8 DEF DeleteDirSelf
  <2> QED
    BY <1>2, <2>1, <2>5, <2>6, <2>7, DeleteReach
<1> QED
  BY <1>5, <1>6, <1>7, <1>8

LEMMA StepReach ==
    ASSUME TreeInv, ReachInv, TreeInv', TwoRoots = FALSE, [Next]_vars
    PROVE  ReachInv'
<1>1. CASE Restart
  <2>1. /\ UNCHANGED <<node, rootId, used>> /\ \A a \in Adders : pc'[a] = "idle"
        /\ \A a \in Adders : drop'[a] = <<>> /\ \A d \in Deleters : del'[d] = <<>>
    BY <1>1 DEF Restart
  <2>2. \A d \in Deleters : del'[d] = <<>>
    BY <1>1 DEF Restart
  <2>3. Hung'
    BY <2>1, HungKept DEF ReachInv
  <2> QED
    BY <2>1, <2>2, <2>3 DEF ReachInv, RootStands, NothingBefore, Destined, RootSpared,
                            IsDirectory
<1>2. CASE UNCHANGED vars
  <2>1. Hung'
    BY <1>2, HungKept DEF vars, ReachInv
  <2>2. Destined'
    BY <1>2 DEF vars, add, ReachInv, Destined, Placed
  <2> QED
    BY <1>2, <2>1, <2>2 DEF vars, add, ReachInv, RootStands, NothingBefore, RootSpared,
                            IsDirectory
<1> QED
  BY <1>1, <1>2, AddReach, CommitReach, MoveReach, DeletersReach DEF Next

(* A task that looks for the root alone (get_or_create_root is not        *)
(* entered twice at once) leaves every node below the recorded root,        *)
(* whatever is added, moved and deleted at the same time; only an empty     *)
(* root whose command never recorded it is elsewhere.                       *)
THEOREM NodesReachable == TwoRoots = FALSE => (Spec => []Reachable)
<1> SUFFICES ASSUME TwoRoots = FALSE PROVE Spec => []Reachable
  OBVIOUS
<1>1. TreeInv /\ ReachInv => Reachable
  <2> SUFFICES ASSUME TreeInv, ReachInv, NEW n \in Ids, n \notin Listed \cup {rootId}
               PROVE  node[n].parent = None /\ ListChildren(n) = {}
    BY DEF Reachable
  <2>1. None \notin Ids /\ node \in Tables /\ rootId \in Ids \cup {None}
    BY RootFacts, Typed DEF TreeInv
  <2>2. CASE rootId = None
    BY <2>1, <2>2 DEF ReachInv, NothingBefore, ListChildren
  <2>3. CASE rootId \in Ids
    <3>1. n \notin Subtree(rootId)
      BY <2>1, <2>3 DEF Listed
    <3>2. ASSUME NEW m \in Ids, node[m].parent = n PROVE FALSE
      <4>1. m \in Subtree(rootId) /\ m # rootId
        BY <2>1, <2>3, <3>2, RootFacts DEF ReachInv, Hung
      <4> QED
        BY <2>1, <2>3, <3>1, <3>2, <4>1, BelowFixed DEF Subtree
    <3> QED
      BY <3>1, <3>2 DEF ReachInv, Hung, ListChildren
  <2> QED
    BY <2>1, <2>2, <2>3
<1>2. TreeInv /\ ReachInv /\ [Next]_vars => TreeInv' /\ ReachInv'
  BY StepTree, StepReach
<1>3. Init => TreeInv /\ ReachInv
  BY InitTree, InitReach
<1> QED
  BY <1>1, <1>2, <1>3, PTL DEF Spec
=============================================================================
