------------------------------ MODULE NodeTree ------------------------------
(***************************************************************************)
(* The directory tree of a vault: the nodes table, the root_id entry of    *)
(* manifest_meta, and the commands that add and remove nodes.  The         *)
(* commands are tasks of an asynchronous runtime that share one database   *)
(* connection: each step below is one transaction or one file operation.   *)
(*                                                                         *)
(* A file has one blob, named after its node.  Names are left out: nothing *)
(* in the table makes them unique.                                         *)
(***************************************************************************)
EXTENDS Naturals, SequencesExt

CONSTANTS
    MaxId,      \* bound: node ids handed out (UUIDs, numbered in that order)
    Adders,     \* tasks of the browser that upload files or local directories
    Deleters,   \* delete_directory commands
    None,
    TwoRoots,   \* TRUE: two first commands may look for the root at once
    IntoDeleted \* TRUE: commands add to a directory that is being deleted

Ids == 1..MaxId

ASSUME NodeTreeConstants ==
    MaxId \in Nat /\ None \notin Ids /\ TwoRoots \in BOOLEAN /\ IntoDeleted \in BOOLEAN

VARIABLES
    node,       \* rows of nodes: [kind, parent], NoNode where there is none
    rootId,     \* manifest_meta root_id
    used,       \* the last id handed out
    staged,     \* blobs in the staging directory
    queued,     \* rows of pending_deletions
    stored,     \* history: files whose upload was committed
    pc,         \* the adding tasks: their step,
    new,        \*   the node they are adding, [kind, parent, id], and
    drop,       \*   the directories an upload_directory call is inside of,
                \*   outermost first
    del         \* the deleting commands: a stack of [dir, todo], innermost last

add  == <<pc, new, drop>>
vars == <<node, rootId, used, staged, queued, stored, add, del>>

NoNode == [kind |-> "none", parent |-> None]
NoNew  == [kind |-> "none", parent |-> None, id |-> None]

Exists(n)      == node[n] # NoNode
IsDirectory(n) == node[n].kind = "dir"
IsFile(n)      == node[n].kind = "file"

ListChildren(n) == {m \in Ids : Exists(m) /\ node[m].parent = n}

(* The recursive query of delete_node and of the cycle check: n and all    *)
(* that is below it.  In a table without cycles these are the one set of   *)
(* the nodes whose parent is n or in the set; on a cycle the query         *)
(* (UNION ALL) would not end.                                              *)
Below(table, n) ==
    LET placed == {m \in Ids : table[m].parent # None}
    IN  CHOOSE S \in SUBSET placed :
            \A m \in placed : m \in S <=> table[m].parent \in S \cup {n}

Subtree(n) == {n} \cup Below(node, n)

Init ==
    /\ node = [n \in Ids |-> NoNode]
    /\ rootId = None
    /\ used = 0 /\ staged = {} /\ queued = {} /\ stored = {}
    /\ pc = [a \in Adders |-> "idle"] /\ new = [a \in Adders |-> NoNew]
    /\ drop = [a \in Adders |-> <<>>]
    /\ del = [d \in Deleters |-> <<>>]

(* What the browser can show, and so what a user can name: the nodes below *)
(* the recorded root, by the ids that list_directory returned.             *)
Listed == IF rootId = None THEN {} ELSE Subtree(rootId) \ {rootId}

-----------------------------------------------------------------------------
(* The store: one transaction each.                                        *)

(* ensure_parent: the parent row exists and is a directory.                *)
ValidParent(p) == p = None \/ IsDirectory(p)

InsertNode(n, kind, p) == node' = [node EXCEPT ![n] = [kind |-> kind, parent |-> p]]

(* Mutant of DeleteNode: only its own blob is queued.                      *)
DeleteNodeQueuesOwn(n) ==
    /\ queued' = queued \cup {m \in {n} : IsFile(m)}
    /\ node' = [m \in Ids |-> IF m \in Subtree(n) THEN NoNode ELSE node[m]]

(* delete_node queues the blobs of the whole subtree, then deletes the row *)
(* and, by the cascade, everything below it.                               *)
DeleteNode(n) ==
    LET gone == Subtree(n) IN
    /\ queued' = queued \cup {m \in gone : IsFile(m)}
    /\ node' = [m \in Ids |-> IF m \in gone THEN NoNode ELSE node[m]]

(* Mutant of MoveAllowed: a node may be moved below itself.                *)
MoveAllowedAnywhere(n, p) == p # n /\ ValidParent(p)

(* ensure_move_respects_hierarchy.                                         *)
MoveAllowed(n, p) == p # n /\ ValidParent(p) /\ p \notin Subtree(n)

(* No command moves a node yet; the store's method is there for one, and   *)
(* is used here while no directory is being deleted: delete_subtree could  *)
(* be led round for ever by moves.                                         *)
MoveNode(n, p) ==
    /\ \A d \in Deleters : del[d] = <<>>
    /\ MoveAllowed(n, p)
    /\ node' = [node EXCEPT ![n].parent = p]
    /\ UNCHANGED <<rootId, used, staged, queued, stored, add, del>>

-----------------------------------------------------------------------------
(* upload_file and create_vault_directory.  A dropped local directory is   *)
(* uploaded entry by entry: the directory node, then what is in it, below   *)
(* the id that the first command returned.                                  *)

Step(a, next) == pc' = [pc EXCEPT ![a] = next]

Deleting(n) == \E d \in Deleters : \E i \in DOMAIN del[d] : n \in Subtree(del[d][i].dir)

(* manifest_meta: root_id has no row until the first node is added.        *)
HasRootMeta == rootId # None
SetRootMeta(r) == rootId' = r

(* resolve_parent_uuid: the id before the last slash of the path, or, when *)
(* there is none, the root, which is made when root_id is not set.          *)
ResolveParent(a, kind, p) ==
    /\ new' = [new EXCEPT ![a] = [kind |-> kind, id |-> None,
                                  parent |-> IF p = None THEN rootId ELSE p]]
    /\ Step(a, IF p = None /\ ~HasRootMeta THEN "makeRoot" ELSE "write")
    /\ UNCHANGED drop

(* What stat_local_path and list_local_directory find at a local path.     *)
LocalKinds == {"file", "dir"}

(* The user uploads or drops something into the directory the browser      *)
(* shows; None is the top, shown without an id.                             *)
AddBegin(a, kind, p) ==
    /\ pc[a] = "idle" /\ drop[a] = <<>> /\ used < MaxId
    /\ p # None => IsDirectory(p)
    /\ IntoDeleted \/ p = None \/ ~Deleting(p)
    /\ p = None /\ ~HasRootMeta =>
          TwoRoots \/ \A b \in Adders : pc[b] \notin {"makeRoot", "setRoot"}
    /\ ResolveParent(a, kind, p)
    /\ UNCHANGED <<node, rootId, used, staged, queued, stored, del>>

(* upload_directory: the next entry of the local directory ...             *)
DropEntry(a, kind) ==
    /\ pc[a] = "idle" /\ drop[a] # <<>> /\ used < MaxId
    /\ IntoDeleted \/ ~Deleting(Last(drop[a]))
    /\ ResolveParent(a, kind, Last(drop[a]))
    /\ UNCHANGED <<node, rootId, used, staged, queued, stored, del>>

(* ... or its end: back to the directory above.                             *)
DropReturn(a) ==
    /\ pc[a] = "idle" /\ drop[a] # <<>>
    /\ drop' = [drop EXCEPT ![a] = Front(@)]
    /\ UNCHANGED <<node, rootId, used, staged, queued, stored, pc, new, del>>

(* get_or_create_root: a new root row, then root_id, in two transactions.  *)
RootInsert(a) ==
    /\ pc[a] = "makeRoot" /\ used < MaxId
    /\ used' = used + 1
    /\ InsertNode(used', "dir", None)
    /\ new' = [new EXCEPT ![a].parent = used']
    /\ Step(a, "setRoot")
    /\ UNCHANGED <<rootId, staged, queued, stored, drop, del>>

(* Mutant of RootSet: the root is never recorded.                          *)
RootSetLost(a) ==
    /\ pc[a] = "setRoot"
    /\ Step(a, "write")
    /\ UNCHANGED <<node, rootId, used, staged, queued, stored, new, drop, del>>

RootSet(a) ==
    /\ pc[a] = "setRoot"
    /\ SetRootMeta(new[a].parent)
    /\ Step(a, "write")
    /\ UNCHANGED <<node, used, staged, queued, stored, new, drop, del>>

(* An upload encrypts into staging before it commits; a directory has      *)
(* nothing to write.                                                       *)
AddWrite(a) ==
    /\ pc[a] = "write" /\ used < MaxId
    /\ used' = used + 1
    /\ staged' = IF new[a].kind = "file" THEN staged \cup {used'} ELSE staged
    /\ new' = [new EXCEPT ![a].id = used']
    /\ Step(a, "commit")
    /\ UNCHANGED <<node, rootId, queued, stored, drop, del>>

(* A parent that is gone or no directory refuses the row: the upload       *)
(* removes what it staged, and a drop ends with the first error.            *)
AddCommit(a) ==
    /\ pc[a] = "commit"
    /\ LET n == new[a].id IN
       \/ /\ ValidParent(new[a].parent)
          /\ InsertNode(n, new[a].kind, new[a].parent)
          /\ stored' = IF new[a].kind = "file" THEN stored \cup {n} ELSE stored
          /\ drop' = IF new[a].kind = "dir" THEN [drop EXCEPT ![a] = Append(@, n)] ELSE drop
          /\ UNCHANGED staged
       \/ /\ ~ValidParent(new[a].parent)
          /\ staged' = staged \ {n}
          /\ drop' = [drop EXCEPT ![a] = <<>>]
          /\ UNCHANGED <<node, stored>>
    /\ new' = [new EXCEPT ![a] = NoNew]
    /\ Step(a, "idle")
    /\ UNCHANGED <<rootId, used, queued, del>>

-----------------------------------------------------------------------------
(* delete_file and delete_directory.                                       *)

(* The row, then the staged blob.                                          *)
DeleteFile(n) ==
    /\ IsFile(n)
    /\ DeleteNode(n)
    /\ staged' = staged \ {n}

(* The Delete button of a listed entry: delete_directory for a directory,  *)
(* delete_file for a file.  An entry that is gone by then is refused.       *)
DeleteRequested(n, kind) == node[n].kind = kind

UserDeletesFile(n) ==
    /\ DeleteRequested(n, "file") /\ DeleteFile(n)
    /\ UNCHANGED <<rootId, used, stored, add, del>>

Frame(n) == [dir |-> n, todo |-> ListChildren(n)]

(* delete_subtree begins with the listing of its directory.                *)
DeleteSubtree(d, n) == del' = [del EXCEPT ![d] = <<Frame(n)>>]

(* The tree shows no entry for the root, so it cannot be chosen.           *)
DeleteDirBegin(d, n) ==
    /\ del[d] = <<>> /\ DeleteRequested(n, "dir")
    /\ IntoDeleted \/ \A a \in Adders : new[a].parent \notin Subtree(n)
    /\ DeleteSubtree(d, n)
    /\ UNCHANGED <<node, rootId, used, staged, queued, stored, add>>

Top(d) == Last(del[d])

Pop(d) == Front(del[d])

Done(d, c) == Append(Pop(d), [Top(d) EXCEPT !.todo = @ \ {c}])

(* delete_subtree goes through the children it listed: a file is deleted,  *)
(* a directory entered.  A child that is gone meanwhile ends the command.  *)
DeleteDirChild(d) ==
    /\ del[d] # <<>>
    /\ \E c \in Top(d).todo :
          \/ /\ DeleteFile(c)
             /\ del' = [del EXCEPT ![d] = Done(d, c)]
          \/ /\ IsDirectory(c)
             /\ del' = [del EXCEPT ![d] = Append(Done(d, c), Frame(c))]
             /\ UNCHANGED <<node, staged, queued>>
          \/ /\ ~Exists(c)
             /\ del' = [del EXCEPT ![d] = <<>>]
             /\ UNCHANGED <<node, staged, queued>>
    /\ UNCHANGED <<rootId, used, stored, add>>

(* After its children the directory itself, with whatever was added to it  *)
(* since it was listed.                                                    *)
DeleteDirSelf(d) ==
    /\ del[d] # <<>> /\ Top(d).todo = {}
    /\ IF Exists(Top(d).dir)
       THEN DeleteNode(Top(d).dir) /\ del' = [del EXCEPT ![d] = Pop(d)]
       ELSE del' = [del EXCEPT ![d] = <<>>] /\ UNCHANGED <<node, queued>>
    /\ UNCHANGED <<rootId, used, staged, stored, add>>

(* The session ends or the application stops: commands end where they are; *)
(* the next unlock removes staged blobs without a row.                     *)
Restart ==
    /\ pc' = [a \in Adders |-> "idle"] /\ new' = [a \in Adders |-> NoNew]
    /\ drop' = [a \in Adders |-> <<>>]
    /\ del' = [d \in Deleters |-> <<>>]
    /\ staged' = {n \in staged : IsFile(n)}
    /\ UNCHANGED <<node, rootId, used, queued, stored>>

Next ==
    \/ \E a \in Adders, k \in LocalKinds, p \in Listed \cup {None} : AddBegin(a, k, p)
    \/ \E a \in Adders : RootInsert(a) \/ RootSet(a) \/ AddWrite(a) \/ AddCommit(a)
    \/ \E a \in Adders, k \in LocalKinds : DropEntry(a, k)
    \/ \E a \in Adders : DropReturn(a)
    \/ \E n \in Listed : UserDeletesFile(n) \/ \E d \in Deleters : DeleteDirBegin(d, n)
    \/ \E n \in Listed, p \in Listed \cup {rootId} : MoveNode(n, p)
    \/ \E d \in Deleters : DeleteDirChild(d) \/ DeleteDirSelf(d)
    \/ Restart

Spec == Init /\ [][Next]_vars

-----------------------------------------------------------------------------
(* Properties.                                                             *)

TypeOK ==
    /\ node \in [Ids -> [kind : {"none", "file", "dir"}, parent : Ids \cup {None}]]
    /\ rootId \in Ids \cup {None}
    /\ used \in 0..MaxId /\ staged \subseteq Ids /\ queued \subseteq Ids
    /\ stored \subseteq Ids
    /\ pc \in [Adders -> {"idle", "makeRoot", "setRoot", "write", "commit"}]
    /\ new \in [Adders -> [kind : {"none", "file", "dir"}, parent : Ids \cup {None},
                           id : Ids \cup {None}]]
    /\ drop \in [Adders -> Seq(Ids)]
    /\ del \in [Deleters -> Seq([dir : Ids, todo : SUBSET Ids])]

(* The table is a forest of directories with files as leaves: parents are  *)
(* existing directories, and following parents never returns.  On a cycle  *)
(* the recursive queries of delete_node (UNION ALL) would not end.         *)
Forest ==
    /\ \A n \in Ids : Exists(n) => ValidParent(node[n].parent)
    /\ \A S \in (SUBSET Ids) \ {{}} : \E n \in S : node[n].parent \notin S

(* Whatever is in the vault can be found in it: every node is below the    *)
(* root that root_id names, except a root whose command has not recorded   *)
(* it or never came to do so, which is empty.                              *)
Reachable ==
    \A n \in Ids \ (Listed \cup {rootId}) :
        Exists(n) => node[n].parent = None /\ ListChildren(n) = {}

(* No stored blob is forgotten: a file that was committed is in the table, *)
(* or its blob is queued for deletion from the cloud, whichever command    *)
(* removed it and whatever it was racing with.                             *)
Accounted ==
    \A n \in stored : IsFile(n) \/ n \in queued

(* A staged blob belongs to a file of the table or to a running upload.    *)
NoStagedOrphan ==
    \A n \in staged : IsFile(n) \/ \E a \in Adders : new[a].id = n
=============================================================================
