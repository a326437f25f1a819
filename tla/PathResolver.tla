---------------------------- MODULE PathResolver ----------------------------
(***************************************************************************)
(* The path resolver of src/static/app.js: listChildren, resolveFolderId,  *)
(* ensureFolder and resolvePathToFolderId: the path typed is normalised    *)
(* and split, then resolved segment by segment from the base folder the    *)
(* handler passes (the current or last folder) or from the root.  A typed *)
(* path is a sequence of tokens: the separators "/" and "\\", and names,   *)
(* each a single token (surrounding whitespace, which trim() removes, is   *)
(* left out of the inputs).  All handlers of one page share                *)
(* state.folderCache; each handler invocation is an operation, and         *)
(* operations interleave at their awaits: a listing is requested (the      *)
(* server answers from its state at that moment) and applied to the cache  *)
(* when its response arrives, possibly after other operations ran.         *)
(*                                                                         *)
(* The server's folder tree is an append-only sequence of entries, entry   *)
(* k having id k (0 is the root); /file/list returns the first PageSize    *)
(* children of a parent in creation order (order_by created_at).           *)
(*                                                                         *)
(* handleFolderUpload runs the same loop (ensureFolderPath) with a cache   *)
(* of its own, created empty for the batch: a "batch" operation resolves   *)
(* the folders of one file's relative path and neither reads nor writes   *)
(* state.folderCache.  Its pathMap, which only reuses the folders of       *)
(* earlier files of the batch, is left out.                                *)
(***************************************************************************)
EXTENDS Integers, Sequences, FiniteSets

LOCAL INSTANCE SequencesExt

CONSTANTS
    Ops,            \* handler invocations sharing state.folderCache
    Kinds,          \* "resolve" (createMissing false), "ensure" (true), "batch"
    Names,          \* folder and file names
    MaxDepth,       \* longest path, in segments
    RawPaths,       \* paths typed into the target box, as token sequences
    BatchPaths,     \* folder parts of a relative path of a folder upload
    RootWords,      \* the spellings of "root" (any case) among the tokens
    PageSize,       \* page_size of listChildren (2000 in the code)
    MaxExternal,    \* bound on entries created by other clients and the button
    ExternalNames,  \* names another client may create entries under
    MkdirNames,     \* names typed into the create-folder box of the files page
    None

ASSUME /\ Kinds \subseteq {"resolve", "ensure", "batch"}
       /\ BatchPaths \subseteq Seq(Names)
       /\ \A p \in BatchPaths : Len(p) <= MaxDepth
       /\ MaxDepth \in Nat \ {0}
       /\ PageSize \in Nat \ {0}
       /\ ExternalNames \cup MkdirNames \subseteq Names

VARIABLES
    entries,  \* the server's files and folders, in creation order
    cache,    \* state.folderCache: cache[p] is a name -> id map, or None
    op,       \* op[o] : the state of operation o
    found     \* history: ids some resolution on this page has returned

vars == <<entries, cache, op, found>>

(* Every operation creates at most one folder per segment.                *)
MaxEntries == MaxExternal + Cardinality(Ops) * MaxDepth

Ids == 0..MaxEntries

Entry == [parent : Ids, name : Names, dir : BOOLEAN]

NameMap == [Names -> Ids]

OpState == [pc : {"idle", "step", "listing", "creating", "relisting",
                  "done", "notfound", "inconsistent", "failed"},
            kind : Kinds \cup {None}, raw : Seq(STRING \cup Names),
            base : Ids, path : Seq(Names), pos : Nat,
            cur : Ids, resp : NameMap \cup {None}, seen : Nat, knew : SUBSET Ids,
            result : Ids]

TypeOK ==
    /\ entries \in Seq(Entry)
    /\ Len(entries) <= MaxEntries
    /\ cache \in [Ids -> NameMap \cup {None}]
    /\ op \in [Ops -> OpState]
    /\ found \subseteq Ids

Init ==
    /\ entries = <<>>
    /\ cache = [p \in Ids |-> None]
    /\ op = [o \in Ops |-> [pc |-> "idle", kind |-> None, raw |-> <<>>,
                            base |-> 0, path |-> <<>>,
                            pos |-> 0, cur |-> 0, resp |-> None, seen |-> 0,
                            knew |-> {}, result |-> 0]]
    /\ found = {}

-----------------------------------------------------------------------------
(* The server.                                                             *)

Children(p) == {k \in 1..Len(entries) : entries[k].parent = p}

(* The ids /file/list returns for parent p: its first PageSize children.   *)
Page(p) == {k \in Children(p) :
                Cardinality({j \in Children(p) : j <= k}) <= PageSize}

Folders == {0} \cup {k \in 1..Len(entries) : entries[k].dir}

DirExists(p, n) ==
    \E k \in Children(p) : entries[k].dir /\ entries[k].name = n

(* A new entry; the server's id is its position.                           *)
AddEntry(p, n, isDir) ==
    entries' = Append(entries, [parent |-> p, name |-> n, dir |-> isDir])

(* POST /file/folder: a new folder, or an "already exists" error.          *)
CreateFolder(p, n) ==
    IF DirExists(p, n) THEN UNCHANGED entries ELSE AddEntry(p, n, TRUE)

-----------------------------------------------------------------------------
(* The client.                                                             *)

(* Mutation of ListMap: the item.is_dir filter dropped.                    *)
ListMapAnyKind(p) ==
    [n \in Names |->
        LET ds == {k \in Page(p) : entries[k].name = n}
        IN IF ds = {} THEN 0 ELSE CHOOSE k \in ds : \A j \in ds : j <= k]

(* resolveFolderId's cache fill from a listing: only directories, and     *)
(* Map.set keeps the last directory of a name in list order.               *)
ListMap(p) ==
    [n \in Names |->
        LET ds == {k \in Page(p) : entries[k].dir /\ entries[k].name = n}
        IN IF ds = {} THEN 0 ELSE CHOOSE k \in ds : \A j \in ds : j <= k]

Seg(o) == op[o].path[op[o].pos]

(* handleFolderUpload passes its own folderCache = {}: only the page's    *)
(* other handlers share state.folderCache.                                *)
Shared(o) == op[o].kind # "batch"

(* cache[parentId] = ... in the cache the operation was given.            *)
CacheSet(o, p, v) ==
    IF Shared(o) THEN cache' = [cache EXCEPT ![p] = v] ELSE UNCHANGED cache

(* apiFetch rejects (network error, or an error answer the code does not  *)
(* absorb): the handler's catch shows it and the operation ends.           *)
Failed(o) == op' = [op EXCEPT ![o].pc = "failed"]

(* Continue operation o once resolveFolderId returned r for its segment:  *)
(* descend, fail with "not found" (createMissing false), or, in            *)
(* ensureFolder (createMissing, and every folder of a batch), issue POST   *)
(* /file/folder.                                                           *)
Resolved(o, r) ==
    \/ /\ r # 0
       /\ op' = [op EXCEPT ![o].cur = r, ![o].pos = @ + 1, ![o].pc = "step"]
       /\ found' = found \cup {r}
       /\ UNCHANGED entries
    \/ /\ r = 0 /\ op[o].kind = "resolve"
       /\ op' = [op EXCEPT ![o].pc = "notfound"]
       /\ UNCHANGED <<entries, found>>
    \/ /\ r = 0 /\ op[o].kind \in {"ensure", "batch"}
       /\ \/ CreateFolder(op[o].cur, Seg(o)) /\ op' = [op EXCEPT ![o].pc = "creating"]
          \/ Failed(o) /\ UNCHANGED entries   \* the request is lost
       /\ UNCHANGED found

(* normalizePath: backslashes become slashes (trim() is left out).        *)
NormalizePath(raw) == ReplaceAll(raw, "\\", "/")

IsAbsolute(s) == s # <<>> /\ s[1] = "/"

(* Mutation of ParseTarget: a leading "/" is stripped but the base kept.   *)
ParseTargetRelative(raw, baseId) ==
    LET normalized == NormalizePath(raw)
        working == IF IsAbsolute(normalized) THEN Tail(normalized) ELSE normalized
    IN CASE normalized \in {<<>>, <<".">>} -> [from |-> baseId, parts |-> <<>>]
         [] normalized = <<"/">> \/ (Len(normalized) = 1 /\ normalized[1] \in RootWords)
                -> [from |-> 0, parts |-> <<>>]
         [] OTHER -> [from |-> baseId, parts |-> Remove(working, "/")]

(* resolvePathToFolderId up to its loop: the folder to start from and the  *)
(* segments (split on "/", empty ones dropped); none for "", ".", "/" and  *)
(* "root", and a leading "/" starts from the root whatever baseId is.      *)
ParseTarget(raw, baseId) ==
    LET normalized == NormalizePath(raw)
        working == IF IsAbsolute(normalized) THEN Tail(normalized) ELSE normalized
        effectiveBase == IF IsAbsolute(normalized) THEN 0 ELSE baseId
    IN CASE normalized \in {<<>>, <<".">>} -> [from |-> baseId, parts |-> <<>>]
         [] normalized = <<"/">> \/ (Len(normalized) = 1 /\ normalized[1] \in RootWords)
                -> [from |-> 0, parts |-> <<>>]
         [] OTHER -> [from |-> effectiveBase, parts |-> Remove(working, "/")]

ASSUME \A raw \in RawPaths :
           LET t == ParseTarget(raw, 0)
           IN Len(t.parts) <= MaxDepth /\ \A i \in 1..Len(t.parts) : t.parts[i] \in Names

(* A click of a handler that resolves the path typed, raw, from folder     *)
(* base: the upload target (base: the last folder opened on the files     *)
(* page) or the move/copy target (base: the current folder).  An early     *)
(* return of resolvePathToFolderId ends at the next StepSegment.           *)
Begin(o, k, raw, base) ==
    LET t == ParseTarget(raw, base) IN
    /\ op[o].pc = "idle"
    /\ op' = [op EXCEPT ![o] = [pc |-> "step", kind |-> k, raw |-> raw, base |-> base,
                                path |-> t.parts, pos |-> 1, cur |-> t.from, resp |-> None,
                                seen |-> Len(entries), knew |-> found,
                                result |-> 0]]
    /\ UNCHANGED <<entries, cache, found>>

(* The file loop of handleFolderUpload calls ensureFolderPath from the     *)
(* resolved target base with the folder parts of a file's relative path;  *)
(* no parts returns the base.                                             *)
BatchBegin(o, parts, base) ==
    /\ "batch" \in Kinds
    /\ op[o].pc = "idle"
    /\ op' = [op EXCEPT ![o] = [pc |-> "step", kind |-> "batch", raw |-> parts, base |-> base,
                                path |-> parts, pos |-> 1, cur |-> base, resp |-> None,
                                seen |-> Len(entries), knew |-> found, result |-> 0]]
    /\ UNCHANGED <<entries, cache, found>>

(* The next segment, or the end of the loop.  resolveFolderId answers a    *)
(* cached parent without awaiting and otherwise requests the listing.      *)
StepSegment(o) ==
    /\ op[o].pc = "step"
    /\ \/ /\ op[o].pos > Len(op[o].path)
          /\ op' = [op EXCEPT ![o].pc = "done", ![o].result = op[o].cur]
          /\ UNCHANGED <<entries, cache, found>>
       \/ /\ op[o].pos <= Len(op[o].path)
          /\ Shared(o) /\ cache[op[o].cur] # None
          /\ Resolved(o, cache[op[o].cur][Seg(o)])
          /\ UNCHANGED cache
       \/ /\ op[o].pos <= Len(op[o].path)
          /\ ~Shared(o) \/ cache[op[o].cur] = None
          /\ op' = [op EXCEPT ![o].pc = "listing", ![o].resp = ListMap(op[o].cur)]
          /\ UNCHANGED <<entries, cache, found>>

(* The listing arrives: cache[parentId] = new Map(...), overwriting       *)
(* whatever another operation stored meanwhile; or listChildren throws,   *)
(* before the cache is touched.                                            *)
ListReturn(o) ==
    /\ op[o].pc = "listing"
    /\ \/ /\ CacheSet(o, op[o].cur, op[o].resp)
          /\ Resolved(o, op[o].resp[Seg(o)])
       \/ /\ Failed(o)
          /\ UNCHANGED <<entries, cache, found>>

(* Mutation of CreateReturn: `delete cache[parentId]` dropped, so the      *)
(* second resolveFolderId answers from the cache when it holds the parent. *)
CreateReturnKeepingCache(o) ==
    /\ op[o].pc = "creating"
    /\ op' = [op EXCEPT ![o].pc = "relisting",
                        ![o].resp = IF cache[op[o].cur] = None
                                    THEN ListMap(op[o].cur)
                                    ELSE cache[op[o].cur]]
    /\ UNCHANGED <<entries, cache, found>>

(* POST /file/folder settled (created, or "exists" and ignored):           *)
(* delete cache[parentId] and resolve again, which requests a listing.     *)
(* Any other error (here: the response is lost after the server acted) is  *)
(* rethrown before the delete.                                             *)
CreateReturn(o) ==
    /\ op[o].pc = "creating"
    /\ \/ /\ CacheSet(o, op[o].cur, None)
          /\ op' = [op EXCEPT ![o].pc = "relisting", ![o].resp = ListMap(op[o].cur)]
       \/ /\ Failed(o)
          /\ UNCHANGED cache
    /\ UNCHANGED <<entries, found>>

(* The second listing of ensureFolder: a miss is "created but not found"; *)
(* or listChildren throws.                                                 *)
RelistReturn(o) ==
    LET r == op[o].resp[Seg(o)] IN
    /\ op[o].pc = "relisting"
    /\ \/ /\ CacheSet(o, op[o].cur, op[o].resp)
          /\ op' = [op EXCEPT ![o].pc = IF r = 0 THEN "inconsistent" ELSE "step",
                              ![o].cur = IF r = 0 THEN @ ELSE r,
                              ![o].pos = IF r = 0 THEN @ ELSE @ + 1]
          /\ found' = IF r = 0 THEN found ELSE found \cup {r}
       \/ /\ Failed(o)
          /\ UNCHANGED <<cache, found>>
    /\ UNCHANGED entries

(* Another client (tab, device) creates a file or folder anywhere.         *)
ExternalCreate(p, n, isDir) ==
    /\ Len(entries) < MaxExternal
    /\ p \in Folders
    /\ IF isDir THEN /\ ~DirExists(p, n)
                     /\ AddEntry(p, n, TRUE)
                ELSE AddEntry(p, n, FALSE)
    /\ UNCHANGED <<cache, op, found>>

(* handleCreateFolder on the files page, in the current folder p: POST     *)
(* /file/folder, then refreshCurrentFolder; state.folderCache is untouched. *)
(* An "exists" answer or a lost call changes nothing here.                 *)
HandleCreateFolder(p, n) ==
    /\ Len(entries) < MaxExternal
    /\ p \in Folders
    /\ ~DirExists(p, n)
    /\ AddEntry(p, n, TRUE)
    /\ UNCHANGED <<cache, op, found>>

-----------------------------------------------------------------------------
Quiescent ==
    /\ \A o \in Ops : op[o].pc \in {"done", "notfound", "inconsistent", "failed"}
    /\ UNCHANGED vars

Next ==
    \/ \E o \in Ops, k \in Kinds \ {"batch"}, raw \in RawPaths, base \in Folders :
           Begin(o, k, raw, base)
    \/ \E o \in Ops, parts \in BatchPaths, base \in Folders : BatchBegin(o, parts, base)
    \/ \E o \in Ops : \/ StepSegment(o) \/ ListReturn(o)
                      \/ CreateReturn(o) \/ RelistReturn(o)
    \/ \E p \in Ids, n \in ExternalNames, isDir \in BOOLEAN :
           ExternalCreate(p, n, isDir)
    \/ \E p \in Ids, n \in MkdirNames : HandleCreateFolder(p, n)
    \/ Quiescent

Spec == Init /\ [][Next]_vars

-----------------------------------------------------------------------------
(* The folder whose names, from folder base, spell path.                  *)
RECURSIVE Spells(_, _, _)
Spells(id, base, path) ==
    IF path = <<>> THEN id = base
    ELSE /\ id # 0
         /\ entries[id].dir
         /\ entries[id].name = path[Len(path)]
         /\ Spells(entries[id].parent, base, SubSeq(path, 1, Len(path) - 1))

(* spec.md 4.2's reading of a typed path: backslashes become slashes; ""  *)
(* and "." name the base, "/" and "root" the root; a leading "/" starts    *)
(* from the root; the other segments are the non-empty pieces between "/". *)
SpecTarget(raw, base) ==
    LET s == [i \in 1..Len(raw) |-> IF raw[i] = "\\" THEN "/" ELSE raw[i]]
        segs == SelectSeq(s, LAMBDA x : x # "/")
    IN IF s \in {<<>>, <<".">>} THEN [from |-> base, parts |-> <<>>]
       ELSE IF s = <<"/">> \/ (Len(s) = 1 /\ s[1] \in RootWords)
       THEN [from |-> 0, parts |-> <<>>]
       ELSE [from |-> IF s[1] = "/" THEN 0 ELSE base, parts |-> segs]

(* A resolved target is the folder the typed path names in spec.md 4.2's  *)
(* reading, from the handler's base, and a folder upload's file lands in  *)
(* the folder its relative path names under the target: the parsing       *)
(* agrees with the spec, and the caches filled by overlapping listings    *)
(* never map a name to a file or to a folder under another parent.        *)
ResolvedIsFolder ==
    \A o \in Ops :
        op[o].pc = "done" =>
            LET t == IF op[o].kind = "batch"
                     THEN [from |-> op[o].base, parts |-> op[o].raw]
                     ELSE SpecTarget(op[o].raw, op[o].base)
            IN Spells(op[o].result, t.from, t.parts)

(* ensureFolder never throws "created but not found": after its create    *)
(* call, overlapping operations cannot make its re-resolution miss.       *)
NoConsistencyError == \A o \in Ops : op[o].pc # "inconsistent"

(* Not found only means not there: a resolution without createMissing    *)
(* fails on a segment only if that folder did not exist when the handler  *)
(* started.                                                                *)
NoFalseNotFound ==
    \A o \in Ops :
        op[o].pc = "notfound" =>
            ~\E k \in 1..op[o].seen :
                /\ entries[k].dir
                /\ entries[k].parent = op[o].cur
                /\ entries[k].name = Seg(o)

(* The page never forgets a folder it found: once some handler resolved   *)
(* or created a folder, a later resolution without createMissing does not *)
(* fail on it, however the overlapping listings of resolveFolderId land.  *)
NeverForgetsFound ==
    \A o \in Ops :
        op[o].pc = "notfound" =>
            ~\E k \in op[o].knew :
                entries[k].parent = op[o].cur /\ entries[k].name = Seg(o)

=============================================================================
