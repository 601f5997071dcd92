------------------------------ MODULE CloudTree ------------------------------
(***************************************************************************)
(* The cloud as the handlers see it: a tree of files and folders, and what *)
(* the services do with a request to make, move or trash one.  Only what   *)
(* the handlers in source/dropbox_handler and source/google_drive_handler  *)
(* rely on is here.                                                        *)
(*                                                                         *)
(* A tree maps the nodes in it to their names, parents and kinds.  Google  *)
(* Drive knows a node by an identifier, Dropbox by its path; the id of the *)
(* topmost folder is empty with both.                                      *)
(***************************************************************************)
EXTENDS Naturals, Sequences, FiniteSets

CONSTANT MaxNodes   \* bound: nodes ever made

ASSUME NodesAssumption == MaxNodes \in Nat

Top == 0
NoNode == MaxNodes + 1

Nodes(tree) == {Top} \cup DOMAIN tree
IsFolder(tree, n) == n = Top \/ (n \in DOMAIN tree /\ tree[n].folder)
Children(tree, n) == {m \in DOMAIN tree : tree[m].parent = n}

Paths(tree) ==
  LET path[n \in Nodes(tree)] ==
        IF n = Top THEN <<>> ELSE Append(path[tree[n].parent], tree[n].name)
  IN path

Ids(tree, byPath) ==
  IF byPath THEN Paths(tree) ELSE [n \in Nodes(tree) |-> IF n = Top THEN <<>> ELSE <<n>>]
IdOf(tree, byPath, n) == Ids(tree, byPath)[n]
NodeWithId(tree, byPath, id) ==
  LET ids == Ids(tree, byPath)
      known == {n \in Nodes(tree) : ids[n] = id}
  IN IF known = {} THEN NoNode ELSE CHOOSE n \in known : TRUE

(* n and all that lies under it.                                           *)
Under(tree, n) ==
  LET above[m \in Nodes(tree)] ==
        IF m = Top THEN {Top} ELSE {m} \cup above[tree[m].parent]
  IN {m \in Nodes(tree) : n \in above[m]}

(* Dropbox has one file of a name in a folder (mode "add", no autorename). *)
NameIsFree(tree, byPath, parent, name) ==
  byPath => \A m \in Children(tree, parent) : tree[m].name # name

(* Every node is in a folder, at the end of all folders is the topmost one *)
(* (no set of nodes has all their parents in it), and a path is one node.  *)
IsTree(tree, byPath) ==
  /\ \A n \in DOMAIN tree : IsFolder(tree, tree[n].parent)
  /\ \A set \in SUBSET DOMAIN tree : set # {} => \E n \in set : tree[n].parent \notin set
  /\ byPath => \A m, n \in DOMAIN tree :
       tree[m].parent = tree[n].parent /\ tree[m].name = tree[n].name => m = n

MayMake(tree, byPath, parent, name) ==
  IsFolder(tree, parent) /\ NameIsFree(tree, byPath, parent, name)
Made(tree, n, parent, name, folder) ==
  [m \in DOMAIN tree \cup {n} |->
     IF m = n THEN [name |-> name, parent |-> parent, folder |-> folder] ELSE tree[m]]

MayMove(tree, byPath, n, parent, name) ==
  /\ n \in DOMAIN tree
  /\ MayMake(tree, byPath, parent, name)
  /\ parent \notin Under(tree, n)
Moved(tree, n, parent, name) ==
  [tree EXCEPT ![n] = [@ EXCEPT !.parent = parent, !.name = name]]

Trashed(tree, n) == [m \in DOMAIN tree \ Under(tree, n) |-> tree[m]]
=============================================================================
