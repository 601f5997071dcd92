------------------------------ MODULE Namespace ------------------------------
(***************************************************************************)
(* The volume's objects, _fileList of cDosHandler (source/shared/          *)
(* dos_handler.cpp): a copy of the cloud's tree that grows as folders are  *)
(* listed and changes as the handler makes, renames and deletes files.     *)
(* The worker runs one action at a time, so an action is one step, with    *)
(* the listings and requests it makes on its way.                          *)
(*                                                                         *)
(* The state of the network is the same for all requests of an action:     *)
(*   "up"        the service answers;                                      *)
(*   "down"      nothing arrives, an error of curl;                        *)
(*   "unheard"   the request is obeyed and its answer lost, the same error;*)
(*   "refusing"  an answer with an error in it;                            *)
(*   "unparsed"  nothing is obeyed, and a page arrives that is neither an  *)
(*               answer of the service nor has "error": in it;             *)
(*   "garbled"   the request is obeyed, and such a page arrives.           *)
(* A failure after a listing that worked is that of an action whose        *)
(* folders were listed by an earlier one.                                  *)
(***************************************************************************)
EXTENDS CloudTree, SequencesExt

CONSTANTS
  Name,        \* names of files and folders, as make_lower() leaves them
  Up,          \* the "/" of a path that leads to the parent folder
  NoName,      \* _titleLC of an object the cloud does not know yet
  PathSet,     \* bound: paths that clients send
  Services,    \* TRUE for Dropbox, whose ids are paths, FALSE for Google Drive
  FirstTree,   \* the cloud when the handler starts
  MaxObjects,  \* bound: objects ever made
  MaxFailures  \* bound: requests that fail

ASSUME NamesAssumption == Up \notin Name /\ NoName \notin Name
ASSUME PathsAssumption ==
  PathSet \subseteq {p \in Seq(Name \cup {Up}) : p # <<>> /\ Last(p) \in Name}
ASSUME ServicesAssumption == Services \subseteq BOOLEAN
ASSUME TreeAssumption ==
  /\ \E n \in 0..MaxNodes : FirstTree \in [1..n -> [name : Name, parent : 0..n, folder : BOOLEAN]]
  /\ \A byPath \in Services : IsTree(FirstTree, byPath)
ASSUME BoundsAssumption == MaxObjects \in Nat \ {0} /\ MaxFailures \in Nat

VARIABLES
  pathIds,   \* the service: Dropbox or Google Drive
  tree,      \* the cloud
  born,      \* nodes ever made in it
  obj,       \* the cDosFile objects by address, deleted ones included
  list,      \* _fileList: addresses in order, without _root
  uploading, \* files made by __open and not yet known to the cloud
  scan,      \* a client examining a folder entry by entry
  failures,  \* requests that failed, or left the objects under a folder stale
  misread    \* a page was taken for the answer to the last request

treeVars == <<tree, born>>
vars == <<pathIds, treeVars, obj, list, uploading, scan, failures, misread>>

Root == 1          \* the address of _root
Null == 0
Live == {Root} \cup ToSet(list)

Node(id) == NodeWithId(tree, pathIds, id)

Titles == Name \cup {NoName}
Id == Seq(Name \cup 1..MaxNodes)
ObjectRecord == [id : Id, parentId : Id, title : Titles, titleLC : Titles,
                 folder : BOOLEAN, listed : BOOLEAN]

TypeOK ==
  /\ pathIds \in Services
  /\ DOMAIN tree \subseteq 1..born
  /\ \A n \in DOMAIN tree :
       tree[n] \in [name : Name, parent : Nodes(tree), folder : BOOLEAN]
  /\ born \in 0..MaxNodes
  /\ obj \in Seq(ObjectRecord) /\ Len(obj) <= MaxObjects
  /\ IsInjective(list) /\ ToSet(list) \subseteq 2..Len(obj)
  /\ uploading \subseteq 2..Len(obj)
  /\ scan.folder \in Id /\ scan.key \in 0..Len(obj)
  /\ scan.seen \cup scan.owed \subseteq 2..Len(obj)
  /\ scan.on \in BOOLEAN /\ scan.astray \in BOOLEAN
  /\ failures \in 0..MaxFailures /\ misread \in BOOLEAN

NoScan == [on |-> FALSE, folder |-> <<>>, key |-> Null, seen |-> {},
           owed |-> {}, astray |-> FALSE]
RootObject == [id |-> <<>>, parentId |-> <<>>, title |-> NoName, titleLC |-> NoName,
               folder |-> TRUE, listed |-> FALSE]

Init ==
  /\ pathIds \in Services
  /\ tree = FirstTree /\ born = Cardinality(DOMAIN FirstTree)
  /\ obj = <<RootObject>> /\ list = <<>> /\ uploading = {}
  /\ scan = NoScan
  /\ failures = 0 /\ misread = FALSE

-----------------------------------------------------------------------------
(***************************************************************************)
(* Listing a folder: getFileList, processPage, processFile.  `st' holds    *)
(* the objects as an action changes them, .ok is FALSE once getFileList    *)
(* has failed, and `pages' is the number of entries that came before a     *)
(* failure.                                                                *)
(***************************************************************************)
Entry(t, n) ==
  [id |-> IdOf(t, pathIds, n), parentId |-> IdOf(t, pathIds, t[n].parent),
   title |-> t[n].name, titleLC |-> t[n].name, folder |-> t[n].folder, listed |-> FALSE]

(* With no id there is no "in parents" in the query to Google Drive.       *)
NodesListed(id, o) ==
  IF o # Root /\ id = <<>> /\ ~pathIds THEN DOMAIN tree ELSE Children(tree, Node(id))

(* An error of curl ends the loop over the pages of Google Drive, and that *)
(* over those of Dropbox when it comes at the first of them: the list so   *)
(* far is all.  Only an answer without entries makes it fail: one with an  *)
(* error, or a page.                                                       *)
Page == {"unparsed", "garbled"}
Delivered(entries, net, pages) ==
  LET some == SubSeq(entries, 1, IF pages < Len(entries) THEN pages ELSE Len(entries))
  IN CASE net = "up"                     -> entries
       [] net \in {"refusing"} \cup Page -> some
       [] net \in {"down", "unheard"}    -> IF pathIds THEN <<>> ELSE some

ListSucceeds(id, net) == net \notin {"refusing"} \cup Page /\ Node(id) # NoNode

WithEntries(st, o, got, ok) ==
  [st EXCEPT
     !.obj = [@ EXCEPT ![o].listed = ok] \o [i \in DOMAIN got |-> Entry(tree, got[i])],
     !.list = @ \o [i \in DOMAIN got |-> Len(st.obj) + i],
     !.ok = ok]
ListFolder(st, o, net, pages) ==
  LET id == st.obj[o].id
      entries == SetToSeq(NodesListed(id, o))
  IN WithEntries(st, o, Delivered(entries, net, pages), ListSucceeds(id, net))

(* __checkFolder                                                           *)
ListAlways(st, o, net, pages) ==                           \* mutant of CheckFolder
  IF st.obj[o].folder THEN ListFolder(st, o, net, pages) ELSE st
CheckFolder(st, o, net, pages) ==
  IF st.obj[o].folder /\ ~st.obj[o].listed THEN ListFolder(st, o, net, pages) ELSE st

-----------------------------------------------------------------------------
(***************************************************************************)
(* __getObject.  .file is the object found, or Null; .parent is            *)
(* pDirectParentOut, which a component that is found becomes.              *)
(***************************************************************************)
InFolder(st, id) == {o \in ToSet(st.list) : st.obj[o].parentId = id}
FirstOf(seq, wanted) ==
  LET i == SelectInSeq(seq, LAMBDA o : o \in wanted) IN IF i = 0 THEN Null ELSE seq[i]

ParentOf(st, o) ==
  IF o = Root \/ st.obj[o].parentId = <<>> THEN Root
  ELSE LET found == FirstOf(st.list, {p \in ToSet(st.list) : st.obj[p].id = st.obj[o].parentId})
       IN IF found = Null THEN o ELSE found

Named(st, name) ==
  FirstOf(st.list, {o \in InFolder(st, st.obj[st.parent].id) : st.obj[o].titleLC = name})

Goto(st, o) ==
  IF o = Null THEN [st EXCEPT !.file = Null] ELSE [st EXCEPT !.file = o, !.parent = o]
IfListed(st) == IF st.ok THEN st ELSE [st EXCEPT !.file = Null]
Enter(st, part) == IF st.ok THEN Goto(st, Named(st, part)) ELSE IfListed(st)

Step(st, part, net, pages) ==
  IF st.file = Null THEN st
  ELSE IF part = Up THEN Goto(st, ParentOf(st, st.file))
  ELSE Enter(CheckFolder(st, st.file, net, pages), part)

Arrive(st, net, pages) ==
  IF st.file = Null THEN st ELSE IfListed(CheckFolder(st, st.file, net, pages))
GetObject(st, base, path, net, pages) ==
  LET walk[i \in 0..Len(path)] ==
        IF i = 0 THEN Goto([st EXCEPT !.ok = TRUE], base)
        ELSE Step(walk[i - 1], path[i], net, pages)
  IN Arrive(walk[Len(path)], net, pages)

Now == [obj |-> obj, list |-> list, ok |-> TRUE, file |-> Null, parent |-> Null]
NotFound(st) == st.ok /\ st.file = Null

(* What a client can name paths from: the root, and folders it could lock. *)
(* A directory whose answer was read as a result is locked for its client, *)
(* though that took its name; one whose creation failed keeps its title.   *)
Bases ==
  {o \in Live : obj[o].folder /\ (obj[o].titleLC # NoName \/ obj[o].title = NoName)}

-----------------------------------------------------------------------------
(***************************************************************************)
(* What every action leaves behind.                                        *)
(***************************************************************************)
(* The failures are counted, and the scan notices what happens to the      *)
(* entries it has not reached.  Counted with them are the deletion of a    *)
(* file, and with Dropbox the rename of an object, that others have for    *)
(* their parent: these keep the id of a place that is gone and may later   *)
(* be another's.                                                           *)
Spend(net, good) ==
  /\ misread' = (net \in Page)
  /\ failures' = IF good THEN failures ELSE failures + 1
  /\ failures' <= MaxFailures

InScannedFolder(o) == o \in ToSet(list') /\ obj'[o].parentId = scan.folder
ScanNotices ==
  scan' = [scan EXCEPT
             !.owed = {o \in @ : InScannedFolder(o)},
             !.astray = @ \/ (scan.key # Null /\ ~InScannedFolder(scan.key))]

Objects(st) ==
  /\ Len(st.obj) <= MaxObjects
  /\ obj' = st.obj /\ list' = st.list
  /\ UNCHANGED pathIds

(* A request takes effect when it is possible and arrives; it is accepted  *)
(* when that is answered, and refused by an answer with an error.  What    *)
(* comes without "error": in it is success to updateFile.                  *)
Effective(net, possible) == possible /\ net \in {"up", "unheard", "garbled"}
Accepted(net, possible) == possible /\ net = "up"
Refused(net, possible) == net = "refusing" \/ (net = "up" /\ ~possible)
Believed(net, possible) == Accepted(net, possible) \/ net \in Page

-----------------------------------------------------------------------------
(***************************************************************************)
(* Actions.  `w' is what the action's lookup has made of the objects.      *)
(***************************************************************************)

(* __lock and the others that look up a name and change nothing else.      *)
Locate(w, net) ==
  /\ Objects(w) /\ obj' # obj
  /\ UNCHANGED <<treeVars, uploading>>
  /\ Spend(net, net = "up") /\ ScanNotices

(* __createObject: a new object in the last folder the walk came to, which *)
(* is the wrong one when a folder of the path is missing.                  *)
NewObject(w, path, folder) ==
  [id |-> <<>>, parentId |-> w.obj[w.parent].id, title |-> Last(path),
   titleLC |-> NoName, folder |-> folder, listed |-> FALSE]
WithLast(w, path, folder) ==                               \* mutant of WithNew
  [w EXCEPT !.obj = Append(@, NewObject(w, path, folder)),
            !.list = Append(@, Len(w.obj))]
WithNew(w, path, folder) ==
  [w EXCEPT !.obj = Append(@, NewObject(w, path, folder)),
            !.list = Append(@, Len(w.obj) + 1)]

(* The request to make object o in the cloud.  A page read as a result     *)
(* takes the object's name, and so does an answer of Google Drive with an  *)
(* error, which is read like any other.                                    *)
Nameless(rec) ==
  [rec EXCEPT !.id = <<>>, !.parentId = <<>>, !.title = NoName, !.titleLC = NoName]
MakeInCloud(st, o, net) ==
  LET rec == st.obj[o]
      parent == Node(rec.parentId)
      possible == MayMake(tree, pathIds, parent, rec.title) /\ rec.title # NoName
      grown == Made(tree, born + 1, parent, rec.title, rec.folder)
      known == [Entry(grown, born + 1) EXCEPT !.folder = rec.folder]
  IN /\ IF Effective(net, possible)
          THEN born < MaxNodes /\ tree' = grown /\ born' = born + 1
          ELSE UNCHANGED treeVars
     /\ Objects(IF Accepted(net, possible)
                  THEN [st EXCEPT !.obj = [@ EXCEPT ![o] = known]]
                ELSE IF net \in Page \/ (Refused(net, possible) /\ ~pathIds)
                  THEN [st EXCEPT !.obj = [@ EXCEPT ![o] = Nameless(rec)]]
                ELSE st)
     /\ Spend(net, Accepted(net, possible))

(* __createdir: an object that could not be made in the cloud stays.       *)
CreateDir(w, path, net) ==
  /\ NotFound(w)
  /\ MakeInCloud(WithNew(w, path, TRUE), Len(w.obj) + 1, net)
  /\ UNCHANGED uploading
  /\ ScanNotices

(* __open with MODE_NEWFILE                                                *)
CreateFile(w, path, net) ==
  /\ NotFound(w)
  /\ Objects(WithNew(w, path, FALSE))
  /\ uploading' = uploading \cup {Len(w.obj) + 1}
  /\ UNCHANGED treeVars
  /\ Spend(net, net = "up") /\ ScanNotices

(* The request of __write (Google Drive) or __close (Dropbox) that makes   *)
(* the file known; Google Drive tries again with the next write.           *)
Upload(o, net) ==
  /\ o \in uploading \cap ToSet(list)
  /\ MakeInCloud(Now, o, net)
  /\ \/ uploading' = uploading \ {o}
     \/ ~pathIds /\ obj'[o].id = <<>> /\ UNCHANGED uploading
  /\ ScanNotices

(* __delete.  The root is never in the list, and the cloud keeps it.       *)
EraseAnyway(trashed) == TRUE                               \* mutant of MayErase
MayErase(trashed) == trashed
FullToo(st, o) == TRUE                                     \* mutant of Deletable
Deletable(st, o) == st.obj[o].folder => InFolder(st, st.obj[o].id) = {}
Delete(w, net) ==
  LET o == w.file
      n == Node(w.obj[o].id)
      possible == n \in DOMAIN tree
  IN /\ o # Null
     /\ Deletable(w, o)
     /\ IF Effective(net, possible) THEN tree' = Trashed(tree, n) ELSE UNCHANGED tree
     /\ Objects([w EXCEPT !.list = IF MayErase(Believed(net, possible))
                                     THEN RemoveFirst(@, o) ELSE @])
     /\ Spend(net, Accepted(net, possible) /\ (w.obj[o].folder \/ InFolder(w, w.obj[o].id) = {}))
     /\ UNCHANGED born
     /\ uploading' = uploading \cap ToSet(list')
     /\ ScanNotices

(* __rename: the object has its new name and parent before the cloud is    *)
(* asked, and keeps them when it refuses; a page read as the answer takes  *)
(* both.  Dropbox ids of what lies in a folder are those of its old place. *)
Rename(w, o, to, net) ==
  LET n == Node(w.obj[o].id)
      parentId == w.obj[w.parent].id
      possible == MayMove(tree, pathIds, n, Node(parentId), Last(to))
      moved == Moved(tree, n, Node(parentId), Last(to))
      renamed == [w.obj[o] EXCEPT !.title = Last(to), !.parentId = parentId]
      known == [Entry(moved, n) EXCEPT !.folder = renamed.folder, !.listed = renamed.listed]
  IN /\ w.file \in {Null, o}
     /\ IF Effective(net, possible) THEN tree' = moved ELSE UNCHANGED tree
     /\ Objects([w EXCEPT !.obj =
                   [@ EXCEPT ![o] = IF Accepted(net, possible) THEN known
                                    ELSE IF net \in Page THEN Nameless(renamed)
                                    ELSE renamed]])
     /\ Spend(net, Accepted(net, possible) /\ (pathIds => InFolder(w, w.obj[o].id) = {}))
     /\ UNCHANGED <<born, uploading>>
     /\ ScanNotices

(* __examine with a lock on a folder: the first entry is kept in           *)
(* fib_DiskKey.  Bound: a scan is made while no request fails.             *)
Examine(w) ==
  LET o == w.file
      inside == InFolder(w, w.obj[o].id)
  IN /\ ~scan.on /\ failures = 0 /\ o # Null
     /\ Objects(w)
     /\ scan' = [NoScan EXCEPT !.on = TRUE, !.folder = w.obj[o].id,
                               !.key = FirstOf(list', inside), !.owed = inside]
     /\ UNCHANGED <<treeVars, uploading>>
     /\ Spend("up", TRUE)

(* __examine without a lock: reports the entry of the key and moves on to  *)
(* the next object after it with the same parent.  A key whose object was  *)
(* deleted points to freed memory and is not followed.                     *)
Position(o) == CHOOSE i \in DOMAIN list : list[i] = o
FromStart(o) == FirstOf(list, InFolder(Now, obj[o].parentId))   \* mutant of Following
Following(o) ==
  FirstOf(SubSeq(list, Position(o) + 1, Len(list)), InFolder(Now, obj[o].parentId))
ExamineNext ==
  /\ scan.on /\ scan.key \in ToSet(list)
  /\ scan' = [scan EXCEPT !.seen = @ \cup {scan.key}, !.owed = @ \ {scan.key},
                          !.key = Following(scan.key)]
  /\ UNCHANGED <<pathIds, treeVars, obj, list, uploading, failures, misread>>
(* "no more entries"                                                       *)
ExamineEnd ==
  /\ scan.on /\ scan.key \notin ToSet(list)
  /\ scan' = NoScan
  /\ UNCHANGED <<pathIds, treeVars, obj, list, uploading, failures, misread>>

(* How the network does, and after how many entries it fails.              *)
Fates ==
  {<<"up", 0>>} \cup (IF failures < MaxFailures /\ ~scan.on
                       THEN ({"down", "refusing", "unparsed"} \X (0..1))
                              \cup ({"unheard", "garbled"} \X {0})
                       ELSE {})

(* Bound: paths start at the root, and a folder is examined, or listed for *)
(* its own sake, by its lock.                                              *)
Requests(net, pages) ==
  \/ \E path \in PathSet : \E w \in {GetObject(Now, Root, path, net, pages)} :
       \/ Locate(w, net) \/ CreateDir(w, path, net) \/ CreateFile(w, path, net)
       \/ Delete(w, net)
       \/ w.file # Null /\ \E to \in PathSet :
            \E w2 \in {GetObject(w, Root, to, net, pages)} : Rename(w2, w.file, to, net)
  \/ \E o \in Bases : \E w \in {GetObject(Now, o, <<>>, net, pages)} :
       Locate(w, net) \/ (net = "up" /\ Examine(w))
  \/ \E o \in uploading : Upload(o, net)

Next == (\E fate \in Fates : Requests(fate[1], fate[2])) \/ ExamineNext \/ ExamineEnd

Spec == Init /\ [][Next]_vars

-----------------------------------------------------------------------------
(***************************************************************************)
(* Properties.                                                             *)
(***************************************************************************)
Shown(o) == [id |-> obj[o].id, title |-> obj[o].title, folder |-> obj[o].folder]
Real(n) == [id |-> IdOf(tree, pathIds, n), title |-> tree[n].name, folder |-> tree[n].folder]

(* A folder that was listed shows what the cloud has in it, each file      *)
(* once, whatever the handler has since made, renamed, moved or deleted,   *)
(* as long as every request succeeds and no object under another loses the *)
(* place it names (getFileList, __rename, updateFile).                     *)
Mirror ==
  failures = 0 =>
    \A o \in Live : obj[o].folder /\ obj[o].listed =>
      LET shown == {p \in ToSet(list) : obj[p].parentId = obj[o].id
                                          /\ obj[p].titleLC # NoName}
          real == Children(tree, Node(obj[o].id))
      IN /\ {Shown(p) : p \in shown} = {Real(n) : n \in real}
         /\ Cardinality(shown) = Cardinality(real)

(* A client that examines a folder to its end is given every entry that    *)
(* was there all the time, once, although others list, make and delete     *)
(* files between its packets, unless the very entry that comes next is     *)
(* moved away or deleted (__examine, __getNextObjectWithSameParent).       *)
ScanIsComplete ==
  /\ scan.key \notin scan.seen
  /\ scan.on /\ scan.key = Null /\ ~scan.astray => scan.owed = {}

(* An object leaves the list only when its file has left the cloud,        *)
(* whatever requests and answers are lost or refused, and however stale    *)
(* the ids it is deleted by: unless updateFile took a page without         *)
(* "error": in it for the answer to the deletion (__deleteObject,          *)
(* updateFile).                                                            *)
ErasedIsTrashed ==
  [][~misread' => \A o \in ToSet(list) \ ToSet(list') :
       NodeWithId(tree', pathIds, obj[o].id) = NoNode]_vars

(* Only a folder that is empty in the cloud is trashed as one              *)
(* (__deleteObject's test of __getFirstChild), while requests succeed ...  *)
TrashesOneNode == \A n \in DOMAIN tree \ DOMAIN tree' : Children(tree, n) = {}
EmptyFolderIsTrashed == [][failures' = 0 => TrashesOneNode]_vars

(* ... and always, says the comment "if dir, empty?" in __deleteObject.    *)
OnlyEmptyFoldersAreTrashed == [][TrashesOneNode]_vars
=============================================================================
