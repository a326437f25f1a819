------------------------------ MODULE RecycleBin ------------------------------
(***************************************************************************)
(* The recycle bin page of src/static/app.js: handleRecycleList (the list  *)
(* button, and the un-awaited call after a restore or delete loop),        *)
(* the row checkboxes and select-all, and handleRecycleRestore and         *)
(* handleRecycleDelete, which snapshot state.recycleSelected and await one *)
(* request per item, aborting on the first error.  Handlers interleave at  *)
(* each await; a listing's request and its landing are separate steps, so  *)
(* listings land in any order.  The server's bin is spec-modelled: spec.md *)
(* leaves the recycle endpoints out of its core, so a request for an item  *)
(* no longer in the bin may be rejected or accepted as a no-op.            *)
(***************************************************************************)
EXTENDS Integers, Sequences, SequencesExt

CONSTANTS
    Items,        \* ids of deleted files and folders
    EnvModes,     \* whether the server wraps answers in {code, data}
    Acts,         \* invocations of the restore and delete handlers
    MaxLists,     \* bound on clicks of the list button
    MaxFaults     \* bound on lost requests and responses

ASSUME EnvModes \subseteq BOOLEAN /\ EnvModes # {}

VARIABLES
    bin,       \* server: the items in the recycle bin
    files,     \* state.recycleFiles, as a set of ids
    selected,  \* state.recycleSelected, as a set of ids
    inflight,  \* recycle/list responses not yet landed
    act,       \* act[h] : a restore or delete handler invocation
    lists,     \* clicks of the list button so far
    faults,    \* lost requests and responses so far
    landed     \* some listing has landed

rvars == <<bin, files, selected, inflight, act, lists, faults, landed>>

Listing == [items : SUBSET Items, env : BOOLEAN]

RBTypeOK ==
    /\ bin \subseteq Items
    /\ files \subseteq Items
    /\ selected \subseteq Items
    /\ inflight \subseteq Listing
    /\ act \in [Acts -> [pc : {"idle", "run", "ended"}, kind : {"restore", "delete"},
                         todo : Seq(Items)]]
    /\ \A h \in Acts : act[h].pc = "run" <=> act[h].todo # <<>>
    /\ lists \in 0..MaxLists
    /\ faults \in 0..MaxFaults
    /\ landed \in BOOLEAN

Init ==
    /\ bin = Items
    /\ files = {}
    /\ selected = {}
    /\ inflight = {}
    /\ act = [h \in Acts |-> [pc |-> "idle", kind |-> "restore", todo |-> <<>>]]
    /\ lists = 0
    /\ faults = 0
    /\ landed = FALSE

-----------------------------------------------------------------------------
(* handleRecycleList up to its await: POST /recycle/list, answered from    *)
(* the bin as the step leaves it; a lost request only sets the error       *)
(* status.                                                                 *)
RequestList ==
    \/ /\ \E e \in EnvModes : inflight' = inflight \cup {[items |-> bin', env |-> e]}
       /\ UNCHANGED faults
    \/ /\ faults < MaxFaults
       /\ faults' = faults + 1
       /\ UNCHANGED inflight

ListClick ==
    /\ lists < MaxLists
    /\ lists' = lists + 1
    /\ UNCHANGED <<bin, files, selected, act, landed>>
    /\ RequestList

(* data.files || [] of the answer as received: the envelope is not         *)
(* unwrapped, so a wrapped answer has no files field.                      *)
Files(r) == IF r.env THEN {} ELSE r.items

(* Mutation of ListLands: state.recycleSelected.clear() is dropped.        *)
ListLandsKeepingSelection(r) ==
    /\ r \in inflight
    /\ inflight' = inflight \ {r}
    /\ files' = Files(r)
    /\ landed' = TRUE
    /\ UNCHANGED <<bin, selected, act, lists, faults>>

(* The answer lands: state.recycleFiles is replaced, the selection and     *)
(* select-all cleared, the rows rendered.                                  *)
ListLands(r) ==
    /\ r \in inflight
    /\ inflight' = inflight \ {r}
    /\ files' = Files(r)
    /\ selected' = {}
    /\ landed' = TRUE
    /\ UNCHANGED <<bin, act, lists, faults>>

(* The answer is lost: the catch sets the error status.                    *)
ListLost(r) ==
    /\ r \in inflight
    /\ faults < MaxFaults
    /\ inflight' = inflight \ {r}
    /\ faults' = faults + 1
    /\ UNCHANGED <<bin, files, selected, act, lists, landed>>

-----------------------------------------------------------------------------
(* A row's checkbox: set or delete the row's id in state.recycleSelected.  *)
ToggleRow(i) ==
    /\ i \in files
    /\ selected' = IF i \in selected THEN selected \ {i} ELSE selected \cup {i}
    /\ UNCHANGED <<bin, files, inflight, act, lists, faults, landed>>

(* toggleRecycleSelectAll: clear, then add every rendered row's file.      *)
SelectAll(checked) ==
    /\ selected' = IF checked THEN files ELSE {}
    /\ UNCHANGED <<bin, files, inflight, act, lists, faults, landed>>

-----------------------------------------------------------------------------
(* handleRecycleRestore / handleRecycleDelete: Array.from of the selection *)
(* in insertion order; an empty selection only sets a status.              *)
ActStart(h, kind) ==
    /\ act[h].pc = "idle"
    /\ selected # {}
    /\ \E s \in SetToSeqs(selected) :
          act' = [act EXCEPT ![h] = [pc |-> "run", kind |-> kind, todo |-> s]]
    /\ UNCHANGED <<bin, files, selected, inflight, lists, faults, landed>>

(* What the server does with one request: the item leaves the bin (back to *)
(* its folder, or for good); for an item no longer there, no change.       *)
SrvAct(i) == bin' = bin \ {i}

(* Mutation of Advance: the exit test is one item late.                    *)
AdvanceOffByOne(h) ==
    IF Len(act[h].todo) = 0
    THEN /\ act' = [act EXCEPT ![h].pc = "ended", ![h].todo = <<>>]
         /\ RequestList
    ELSE /\ act' = [act EXCEPT ![h].todo = Tail(@)]
         /\ UNCHANGED <<inflight, faults>>

(* Mutation of Advance: the loop never leaves after its last item.         *)
AdvanceWithoutEnd(h) ==
    /\ act' = [act EXCEPT ![h].todo = Tail(@)]
    /\ UNCHANGED <<inflight, faults>>

(* The request for the loop's next item is answered: the loop moves on;    *)
(* after the last item "Restored/Deleted n items" and handleRecycleList(). *)
Advance(h) ==
    IF Len(act[h].todo) = 1
    THEN /\ act' = [act EXCEPT ![h].pc = "ended", ![h].todo = <<>>]
         /\ RequestList
    ELSE /\ act' = [act EXCEPT ![h].todo = Tail(@)]
         /\ UNCHANGED <<inflight, faults>>

(* The await throws: the catch sets the error status; no re-list.          *)
Abort(h) == act' = [act EXCEPT ![h].pc = "ended", ![h].todo = <<>>]

(* await apiFetch("/recycle/restore" or "/recycle/delete", {file_id}).     *)
ActCall(h) ==
    LET i == Head(act[h].todo) IN
    /\ act[h].pc = "run"
    /\ act[h].todo # <<>>
    /\ \/ /\ faults < MaxFaults
          /\ faults' = faults + 1
          /\ Abort(h)
          /\ UNCHANGED <<bin, inflight>>
       \/ /\ i \notin bin
          /\ Abort(h)
          /\ UNCHANGED <<bin, inflight, faults>>
       \/ /\ SrvAct(i)
          /\ Advance(h)
       \/ /\ faults < MaxFaults
          /\ SrvAct(i)
          /\ faults' = faults + 1
          /\ Abort(h)
          /\ UNCHANGED inflight
    /\ UNCHANGED <<files, selected, lists, landed>>

(* The page waits for input once every listing has settled; a handler      *)
(* still awaiting is left to fairness.                                     *)
Quiescent ==
    /\ inflight = {}
    /\ UNCHANGED rvars

Settle(r) == ListLands(r) \/ ListLost(r)

Next ==
    \/ ListClick
    \/ \E r \in inflight : Settle(r)
    \/ \E i \in Items : ToggleRow(i)
    \/ \E c \in BOOLEAN : SelectAll(c)
    \/ \E h \in Acts, k \in {"restore", "delete"} : ActStart(h, k)
    \/ \E h \in Acts : ActCall(h)
    \/ Quiescent

(* The browser settles every fetch and runs its continuation; clicks are   *)
(* the user's.                                                             *)
Spec ==
    /\ Init /\ [][Next]_rvars
    /\ \A h \in Acts : WF_rvars(ActCall(h))
    /\ WF_rvars(\E r \in inflight : Settle(r))

-----------------------------------------------------------------------------
(* Rows can be checked only while shown: the selection the restore and    *)
(* delete loops snapshot is always part of the listing on screen, however  *)
(* listings, checkbox clicks and loops interleave.                         *)
SelectionListed == selected \subseteq files

(* Once listings have settled, every item still in the bin is on screen:  *)
(* an answer landing late, after a restore or delete loop re-listed, only  *)
(* shows more, never hides an item the user could still restore.           *)
BinShown == landed /\ inflight = {} => bin \subseteq files

(* Every restore or delete loop ends, with its report or an error.         *)
LoopsEnd == \A h \in Acts : act[h].pc = "run" ~> act[h].pc = "ended"

====
