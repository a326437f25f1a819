----------------------------- MODULE FileBrowser -----------------------------
(***************************************************************************)
(* The files page of src/static/app.js: folder navigation (openFolder,     *)
(* goUpFolder, the breadcrumb, restoreLastFolder), the listing            *)
(* (refreshCurrentFolder, handleFileSearch, setFileList), the selection    *)
(* (row checkboxes, select all, clear) and the operations that change the  *)
(* server's tree (handleRename, handleMoveCopy's move,                     *)
(* handleDeleteToRecycle).                                                  *)
(*                                                                         *)
(* A listing or search is answered by the server when it is requested and *)
(* lands later, in any order with the others: refreshCurrentFolder is     *)
(* called without await by every handler, so several can be in flight.    *)
(* An operation's request and its follow-up refresh request are one step: *)
(* the handler reads the selection, the server acts, and the refresh is   *)
(* requested for the folder current when the answer arrives.              *)
(***************************************************************************)
EXTENDS Integers, Sequences, FiniteSets

CONSTANTS
    Items,        \* files and folders other than the root (model values)
    Dirs,         \* the folders among Items
    Names,        \* item names
    InitParent,   \* the server's tree when the page loads
    InitName,
    SavedAtLoad,  \* localStorage go_pan_last_folder when the page loads
    MaxInFlight,  \* bound on listings and searches in flight
    MaxStack,     \* bound on the breadcrumb's length
    MaxOps,       \* bound on renames, moves and deletes
    Root,         \* the root folder, id 0 in the code
    Recycled      \* parent of an item in the recycle bin

ASSUME /\ Dirs \subseteq Items
       /\ InitParent \in [Items -> {Root} \cup Dirs]
       /\ InitName \in [Items -> Names]

VARIABLES
    parent,    \* server: parent[i], Root, a folder, or Recycled
    name,      \* server: name[i]
    loaded,    \* restoreLastFolder has run
    cur,       \* state.currentFolderId
    stack,     \* state.folderStack: a sequence of [id, name]
    crumbs,    \* the breadcrumb's buttons: the stack when last rendered
    shown,     \* state.files: [src, items]; items are <<id, name>> snapshots
    selected,  \* the ids in state.selected
    saved,     \* go_pan_last_folder: [id, path]
    inflight,  \* responses in flight: [kind, src, items]
    ops        \* operations sent so far

tree == <<parent, name>>              \* the server's side
nav == <<loaded, cur, stack, crumbs>>  \* where the page is
view == <<shown, selected, saved>>     \* what it shows and stores

vars == <<tree, nav, view, inflight, ops>>

Folder == {Root} \cup Dirs

Crumb == [id : Folder, name : Names \cup {"Root"}]

Snapshot == Items \X Names

Listing == [src : Folder \cup {"search", "none"}, items : SUBSET Snapshot]

FBTypeOK ==
    /\ parent \in [Items -> Folder \cup {Recycled}]
    /\ name \in [Items -> Names]
    /\ loaded \in BOOLEAN
    /\ cur \in Folder
    /\ stack \in Seq(Crumb) /\ Len(stack) >= 1
    /\ crumbs \in Seq(Crumb)
    /\ shown \in Listing
    /\ selected \subseteq Items
    /\ saved \in [id : Folder, path : Seq(Names)]
    /\ inflight \subseteq [kind : {"list", "search"}, src : Folder \cup {"search"},
                           items : SUBSET Snapshot]
    /\ ops \in 0..MaxOps

Init ==
    /\ parent = InitParent
    /\ name = InitName
    /\ loaded = FALSE
    /\ cur = Root
    /\ stack = <<[id |-> Root, name |-> "Root"]>>
    /\ crumbs = <<>>
    /\ shown = [src |-> "none", items |-> {}]
    /\ selected = {}
    /\ saved = SavedAtLoad
    /\ inflight = {}
    /\ ops = 0

-----------------------------------------------------------------------------
(* The server (spec.md 6).                                                 *)

Children(p) == {i \in Items : parent[i] = p}

Snap(S) == {<<i, name[i]>> : i \in S}

(* A folder is inside another one (or is it).                             *)
RECURSIVE Within(_, _)
Within(f, g) == f = g \/ (f # Root /\ parent[f] \in Folder /\ Within(parent[f], g))

(* The folder the names of path lead to from the root, or Recycled.       *)
RECURSIVE Walk(_, _)
Walk(p, path) ==
    IF path = <<>> THEN p
    ELSE LET ks == {k \in Dirs : parent[k] = p /\ name[k] = Head(path)}
         IN IF ks = {} THEN Recycled ELSE Walk(CHOOSE k \in ks : TRUE, Tail(path))

-----------------------------------------------------------------------------
(* The client.                                                             *)

(* refreshCurrentFolder up to its await: POST /file/list for the current  *)
(* folder; the server answers with its children now.                      *)
RequestList(f) ==
    /\ Cardinality(inflight) < MaxInFlight
    /\ inflight' = inflight \cup
                   {[kind |-> "list", src |-> f, items |-> Snap(Children(f))]}

(* Mutation of StackPath: `stack.slice(1)` dropped, the root's name kept. *)
StackPathWithRoot(s) == [k \in 1..Len(s) |-> s[k].name]

(* saveLastFolder: the current folder and the names of the stack.          *)
StackPath(s) == [k \in 1..(Len(s) - 1) |-> s[k + 1].name]

SaveLastFolder ==
    saved' = [id |-> cur, path |-> StackPath(stack)]

(* Mutation of SetFileList: state.selected.clear() dropped.               *)
SetFileListKeepingSelection(r) ==
    /\ shown' = [src |-> r.src, items |-> r.items]
    /\ UNCHANGED selected

(* setFileList: the rows are replaced and state.selected is cleared.       *)
SetFileList(r) ==
    /\ shown' = [src |-> r.src, items |-> r.items]
    /\ selected' = {}

(* restoreLastFolder: the stored path is resolved name by name from the    *)
(* root; on a miss the page starts at the root.  Then the folder listing. *)
RestoreLastFolder ==
    LET t == Walk(Root, saved.path)
        ok == t # Recycled
        ids == [k \in 1..Len(saved.path) |-> Walk(Root, SubSeq(saved.path, 1, k))]
    IN
    /\ ~loaded
    /\ loaded' = TRUE
    /\ cur' = IF ok THEN t ELSE Root
    /\ stack' = IF ok
                THEN <<[id |-> Root, name |-> "Root"]>> \o
                     [k \in 1..Len(saved.path) |-> [id |-> ids[k], name |-> saved.path[k]]]
                ELSE <<[id |-> Root, name |-> "Root"]>>
    /\ RequestList(IF ok THEN t ELSE Root)
    /\ UNCHANGED <<tree, crumbs, view, ops>>

(* The refresh button, and the clear-search button: the query and        *)
(* state.searchMode (read by nothing) are reset, then refreshCurrentFolder. *)
Refresh ==
    /\ RequestList(cur)
    /\ UNCHANGED <<tree, nav, view, ops>>

(* handleFileSearch up to its await: items named q anywhere, or only in   *)
(* the current folder with searchInCurrent checked.                        *)
Search(q, inCurrent) ==
    /\ Cardinality(inflight) < MaxInFlight
    /\ LET hits == {i \in Items : parent[i] # Recycled /\ name[i] = q
                                  /\ (inCurrent => parent[i] = cur)}
       IN inflight' = inflight \cup
                      {[kind |-> "search", src |-> "search", items |-> Snap(hits)]}
    /\ UNCHANGED <<tree, nav, view, ops>>

(* A listing lands: setFileList, updateBreadcrumb, saveLastFolder.         *)
ListLands(r) ==
    /\ r \in inflight /\ r.kind = "list"
    /\ inflight' = inflight \ {r}
    /\ SetFileList(r)
    /\ crumbs' = stack
    /\ SaveLastFolder
    /\ UNCHANGED <<tree, loaded, cur, stack, ops>>

(* Search results land: setFileList only.                                  *)
SearchLands(r) ==
    /\ r \in inflight /\ r.kind = "search"
    /\ inflight' = inflight \ {r}
    /\ SetFileList(r)
    /\ UNCHANGED <<tree, nav, saved, ops>>

(* apiFetch throws: the status shows the error, nothing else changes.      *)
ResponseLost(r) ==
    /\ r \in inflight
    /\ inflight' = inflight \ {r}
    /\ UNCHANGED <<tree, nav, view, ops>>

(* A click on a folder row: openFolder pushes its listed id and name.      *)
OpenFolder(s) ==
    /\ s \in shown.items /\ s[1] \in Dirs
    /\ Len(stack) < MaxStack
    /\ stack' = Append(stack, [id |-> s[1], name |-> s[2]])
    /\ cur' = s[1]
    /\ RequestList(s[1])
    /\ UNCHANGED <<tree, loaded, crumbs, view, ops>>

(* goUpFolder                                                              *)
GoUp ==
    /\ Len(stack) > 1
    /\ stack' = SubSeq(stack, 1, Len(stack) - 1)
    /\ cur' = stack[Len(stack) - 1].id
    /\ RequestList(stack[Len(stack) - 1].id)
    /\ UNCHANGED <<tree, loaded, crumbs, view, ops>>

(* A click on button k of the breadcrumb (not the last one): its listener *)
(* captured the crumb when the breadcrumb was rendered, and slices the     *)
(* stack as it is now (slice(0, k) keeps it whole when it is shorter).     *)
CrumbClick(k) ==
    /\ k < Len(crumbs)
    /\ stack' = SubSeq(stack, 1, IF k < Len(stack) THEN k ELSE Len(stack))
    /\ cur' = crumbs[k].id
    /\ RequestList(crumbs[k].id)
    /\ UNCHANGED <<tree, loaded, crumbs, view, ops>>

-----------------------------------------------------------------------------
(* The selection.                                                          *)

ShownIds == {s[1] : s \in shown.items}

(* A row checkbox changes: a checked row is added to state.selected, an   *)
(* unchecked one deleted.                                                   *)
ToggleRow(s) ==
    /\ s \in shown.items
    /\ selected' = IF s[1] \in selected THEN selected \ {s[1]}
                                         ELSE selected \cup {s[1]}
    /\ UNCHANGED <<tree, nav, shown, saved, inflight, ops>>

(* toggleSelectAll(checked), and the clear-selection button (checked      *)
(* false).                                                                 *)
SelectAll(checked) ==
    /\ selected' = IF checked THEN ShownIds ELSE {}
    /\ UNCHANGED <<tree, nav, shown, saved, inflight, ops>>

-----------------------------------------------------------------------------
(* Operations on the selection.  The server acts; its answer reaches the   *)
(* handler, which calls refreshCurrentFolder, or is lost and the handler   *)
(* reports the error.  A request the server refuses changes nothing.       *)
Answered(change) ==
    /\ ops < MaxOps
    /\ ops' = ops + 1
    /\ change
    /\ \/ RequestList(cur)
       \/ UNCHANGED inflight
    /\ UNCHANGED <<nav, view>>

(* handleRename: exactly one item selected; POST /file/rename.  The server *)
(* refuses the name of a sibling folder (spec-modelled).                  *)
Rename(n) ==
    /\ Cardinality(selected) = 1
    /\ \E i \in selected :
          /\ ~\E k \in Dirs : k # i /\ parent[k] = parent[i] /\ name[k] = n
          /\ Answered(/\ name' = [name EXCEPT ![i] = n]
                      /\ UNCHANGED parent)

(* handleMoveCopy(false): the target path resolved to folder t;            *)
(* POST /file/move.  The server refuses to move a folder into itself.      *)
Move(t) ==
    /\ selected # {}
    /\ t \in Folder /\ (t # Root => parent[t] # Recycled)
    /\ \A i \in selected \cap Dirs : ~Within(t, i)
    /\ Answered(/\ parent' = [i \in Items |-> IF i \in selected THEN t ELSE parent[i]]
                /\ UNCHANGED name)

(* handleDeleteToRecycle: POST /file/delete.                               *)
Delete ==
    /\ selected # {}
    /\ Answered(/\ parent' = [i \in Items |-> IF i \in selected THEN Recycled ELSE parent[i]]
                /\ UNCHANGED name)

-----------------------------------------------------------------------------
Next ==
    \/ RestoreLastFolder
    \/ Refresh
    \/ \E q \in Names, inCurrent \in BOOLEAN : Search(q, inCurrent)
    \/ \E r \in inflight : ListLands(r) \/ SearchLands(r) \/ ResponseLost(r)
    \/ \E s \in shown.items : OpenFolder(s)
    \/ GoUp
    \/ \E k \in 1..Len(crumbs) : CrumbClick(k)
    \/ \E s \in shown.items : ToggleRow(s)
    \/ \E checked \in BOOLEAN : SelectAll(checked)
    \/ \E n \in Names : Rename(n)
    \/ \E t \in Folder : Move(t)
    \/ Delete

Spec == Init /\ [][Next]_vars

-----------------------------------------------------------------------------
(* The rows the user acts on are the rows shown: every id in              *)
(* state.selected is a row of the listing on screen, however listings,     *)
(* searches and operations interleave (setFileList clears the selection). *)
SelectionShown == selected \subseteq ShownIds

====
