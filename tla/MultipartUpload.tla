--------------------------- MODULE MultipartUpload ---------------------------
(***************************************************************************)
(* The chunked upload orchestrator of src/static/app.js: handleMultipartUpload *)
(* and uploadByMultipart.  Every click of the upload button starts one     *)
(* attempt; attempts are async functions on one event loop, so two clicks  *)
(* interleave at every await.  Each await on apiFetch is one step: the     *)
(* server handles the request and the client runs on to its next await.   *)
(* A request can be lost (the server never sees it) or its response can    *)
(* be lost (the server acted, the client sees an error); the user may      *)
(* click again, which resumes through the session's received chunks.       *)
(***************************************************************************)
EXTENDS UploadServer

CONSTANTS
    Attempts,        \* clicks of the upload button (each one attempt)
    ChunkInputs,     \* values of the multipartChunkSize field, in MiB; 0 = empty
    DefaultChunkMB,  \* the `|| 5` default of uploadByMultipart
    MaxFaults        \* bound on lost requests and lost responses

ASSUME /\ ChunkInputs \subseteq Int
       /\ DefaultChunkMB \in Nat \ {0}
       /\ MaxFaults \in Nat

VARIABLES
    att,       \* att[a] : the state of attempt a
    loggedIn,  \* state.token holds a token
    faults     \* lost requests and responses so far

vars == <<serverVars, att, loggedIn, faults>>

Phase == {"idle", "init", "chunk", "done", "failed"}

Attempt == [pc : Phase, file : Files \cup {None}, hash : Contents \cup {None},
            cs : Nat, total : Nat, uploaded : SUBSET Nat, index : Nat]

TypeOK ==
    /\ ServerTypeOK
    /\ att \in [Attempts -> Attempt]
    /\ \A a \in Attempts : att[a].index <= att[a].total
    /\ loggedIn \in BOOLEAN
    /\ faults \in 0..MaxFaults

Init ==
    /\ ServerInit
    /\ att = [a \in Attempts |-> [pc |-> "idle", file |-> None, hash |-> None,
                                  cs |-> 0, total |-> 0, uploaded |-> {},
                                  index |-> 0]]
    /\ loggedIn \in BOOLEAN
    /\ faults = 0

-----------------------------------------------------------------------------
(* Chunk arithmetic of uploadByMultipart.                                  *)

MaxOf(x, y) == IF x >= y THEN x ELSE y
MinOf(x, y) == IF x <= y THEN x ELSE y
CeilDiv(n, d) == (n + d - 1) \div d

(* Number($("multipartChunkSize")?.value) || 5, then Math.max(1, .) MiB.  *)
ChunkSize(v) == MaxOf(1, IF v = 0 THEN DefaultChunkMB ELSE v)

(* Mutation of TotalChunks: Math.floor instead of Math.ceil.               *)
TotalChunksFloor(size, cs) == MaxOf(1, size \div cs)

TotalChunks(size, cs) == MaxOf(1, CeilDiv(size, cs))

(* file.slice(start, end) for chunk j.                                     *)
ChunkPiece(c, j, cs) ==
    LET start == j * cs IN <<c, start, MinOf(SizeOf[c], start + cs)>>

(* Mutation of NextMissing: the end-of-loop value is one past totalChunks, *)
(* so the attempt neither sends another chunk nor calls complete.          *)
NextMissingPastEnd(a) ==
    LET m == {j \in att[a].index..(att[a].total - 1) : j \notin att[a].uploaded}
    IN IF m = {} THEN att[a].total + 1 ELSE Min(m)

(* The loop skips indices in `uploaded` without awaiting: the next await   *)
(* is on the first missing index at or after `index`, or on complete.      *)
NextMissing(a) ==
    LET m == {j \in att[a].index..(att[a].total - 1) : j \notin att[a].uploaded}
    IN IF m = {} THEN att[a].total ELSE Min(m)

(* Mutation of InLoop: `index <= totalChunks`.                            *)
InLoopInclusive(a, j) == j <= att[a].total

(* The loop condition `index < totalChunks`.                               *)
InLoop(a, j) == j < att[a].total

(* The digest the attempt sends: knownHash, or hashFile(file).            *)
Digest(a) == att[a].hash

(* file.size                                                               *)
FileSize(a) == SizeOf[ContentOf[att[a].file]]

-----------------------------------------------------------------------------
(* Outcomes of one apiFetch.                                               *)

Fail(a) == att' = [att EXCEPT ![a].pc = "failed"]

(* The request never reaches the server; fetch rejects.                    *)
LoseRequest(a) ==
    /\ faults < MaxFaults
    /\ faults' = faults + 1
    /\ Fail(a)
    /\ UNCHANGED serverVars

(* Mutation of Rejected: apiFetch without its !response.ok check returns  *)
(* the error body, and the caller runs on as if the call had succeeded.   *)
RejectedReturnsBody(a, continue) ==
    /\ continue
    /\ UNCHANGED <<serverVars, faults>>

(* The server answers an error (no token, no session, missing chunks):     *)
(* apiFetch throws on !response.ok, so `continue`, what the caller would   *)
(* do with the body, never runs.                                           *)
Rejected(a, continue) ==
    /\ Fail(a)
    /\ UNCHANGED <<serverVars, faults>>

(* The server acted; the response reaches the client, or it is lost.       *)
Answer(a, continue) ==
    \/ /\ continue
       /\ UNCHANGED faults
    \/ /\ faults < MaxFaults
       /\ faults' = faults + 1
       /\ Fail(a)

-----------------------------------------------------------------------------
(* uploadByMultipart(file, parentId, status, bar, knownHash) up to its     *)
(* first await on the server: the token check, the digest (knownHash or    *)
(* hashFile), the chunk size field v and the chunk count.                  *)
Launch(a, f, h, v) ==
    LET cs == ChunkSize(v) IN
    att' = [att EXCEPT ![a] =
              [pc |-> IF loggedIn THEN "init" ELSE "failed", file |-> f,
               hash |-> h, cs |-> cs,
               total |-> TotalChunks(SizeOf[ContentOf[f]], cs),
               uploaded |-> {}, index |-> 0]]

(* handleMultipartUpload: a click with file f selected and v in the chunk  *)
(* size field calls uploadByMultipart without a known hash.  The upload    *)
(* target is fixed here.                                                   *)
Start(a, f, v) ==
    /\ att[a].pc = "idle"
    /\ Launch(a, f, ContentOf[f], v)
    /\ UNCHANGED <<serverVars, loggedIn, faults>>

(* await apiFetch("/file/upload/multipart/init"): an instant hit ends the  *)
(* attempt; otherwise the loop starts from the reported uploaded set.      *)
InitCall(a) ==
    LET d == Digest(a) IN
    /\ att[a].pc = "init"
    /\ \/ LoseRequest(a)
       \/ ~loggedIn /\ Rejected(a, Fail(a))   \* body {}: "Missing upload ID."
       \/ /\ loggedIn
          /\ SrvInstant(d, FileSize(a), att[a].file)
          /\ Answer(a, att' = [att EXCEPT ![a].pc = "done"])
       \/ /\ loggedIn
          /\ SrvOpen(d, FileSize(a), att[a].cs)
          /\ Answer(a, att' = [att EXCEPT ![a].pc = "chunk",
                                          ![a].uploaded = InitUploaded(d),
                                          ![a].index = 0])
    /\ UNCHANGED loggedIn

(* await apiFetch("/file/upload/multipart/chunk") for the next missing     *)
(* index, carrying its slice of the file.                                  *)
ChunkCall(a) ==
    LET d == Digest(a)
        j == NextMissing(a)
    IN
    /\ att[a].pc = "chunk"
    /\ InLoop(a, j)
    /\ \/ LoseRequest(a)
       \/ /\ ~loggedIn \/ sessions[d] = None
          /\ Rejected(a, att' = [att EXCEPT ![a].index = j + 1])
       \/ /\ loggedIn
          /\ SrvChunk(d, j, ChunkPiece(ContentOf[att[a].file], j, att[a].cs))
          /\ Answer(a, att' = [att EXCEPT ![a].index = j + 1])
    /\ UNCHANGED loggedIn

(* The loop is over: await apiFetch("/file/upload/multipart/complete").    *)
CompleteCall(a) ==
    LET d == Digest(a) IN
    /\ att[a].pc = "chunk"
    /\ NextMissing(a) = att[a].total
    /\ \/ LoseRequest(a)
       \/ /\ ~(loggedIn /\ CanComplete(d, att[a].total))
          /\ Rejected(a, att' = [att EXCEPT ![a].pc = "done"])
       \/ /\ loggedIn
          /\ SrvComplete(d, att[a].total, att[a].file)
          /\ Answer(a, att' = [att EXCEPT ![a].pc = "done"])
    /\ UNCHANGED loggedIn

(* The logout button, present on every page: setToken("").                 *)
Logout ==
    /\ loggedIn
    /\ loggedIn' = FALSE
    /\ UNCHANGED <<serverVars, att, faults>>

-----------------------------------------------------------------------------
Step(a) == InitCall(a) \/ ChunkCall(a) \/ CompleteCall(a)

(* Every click has been handled: the page waits for input, which the      *)
(* bounded model does not offer any more.                                  *)
Quiescent ==
    /\ \A a \in Attempts : att[a].pc \in {"done", "failed"}
    /\ UNCHANGED vars

Next ==
    \/ \E a \in Attempts, f \in Files, v \in ChunkInputs : Start(a, f, v)
    \/ \E a \in Attempts : Step(a)
    \/ Logout
    \/ Quiescent

(* The event loop runs every continuation whose fetch has settled, and the *)
(* browser settles every fetch (with a response or a network error).       *)
(* Clicks and logout are the user's and are not fair.                      *)
Spec == Init /\ [][Next]_vars /\ \A a \in Attempts : WF_vars(Step(a))

-----------------------------------------------------------------------------
(* The pieces a committed object was assembled from are all of its own     *)
(* content and tile [0, size) in order, without gap or overlap.            *)
Intact(c) ==
    LET s == blob[c] IN
    /\ Len(s) >= 1
    /\ \A k \in 1..Len(s) : s[k][1] = c
    /\ s[1][2] = 0
    /\ s[Len(s)][3] = SizeOf[c]
    /\ \A k \in 1..(Len(s) - 1) : s[k][3] = s[k + 1][2]

(* Every object the server committed from this client's chunks is exactly *)
(* the file's bytes: uploadByMultipart's chunk count, slice bounds and     *)
(* resume-by-uploaded-set never let a commit miss or repeat a byte range,  *)
(* across overlapping clicks and lost requests.                            *)
StoredObjectsIntact == \A c \in objects : Intact(c)

(* The refinement mapping: a click is busy from its first call to its     *)
(* last; the contents stored intact are the committed objects whose pieces *)
(* tile their file; records are the server's.                              *)
AbsPhase == [a \in Attempts |->
                IF att[a].pc \in {"init", "chunk"} THEN "busy" ELSE att[a].pc]

Abs == INSTANCE UploadAbstract
           WITH phase <- AbsPhase,
                file <- [a \in Attempts |-> att[a].file],
                stored <- {c \in objects : Intact(c)},
                recs <- records

(* uploadByMultipart implements the abstract upload click: every step of *)
(* overlapping clicks, lost requests and responses and logout either      *)
(* leaves the abstract state alone or is one abstract step (a click adds  *)
(* at most one record, of its own file, and only with its bytes stored     *)
(* intact), and every click ends.                                          *)
ImplementsAbstractUpload == Abs!AbsSpec

(* Every click ends: uploadByMultipart finishes (done or error) once the   *)
(* browser settles each fetch.                                             *)
AttemptsTerminate ==
    \A a \in Attempts : att[a].pc \in {"init", "chunk"}
                          ~> att[a].pc \in {"done", "failed"}

(* At-most-once materialization (spec.md 5) under the manual restart that *)
(* spec.md 7 prescribes: a file gets a second record only from clicks that *)
(* each reported success.  Breaking it takes two clicks of one file, one   *)
(* of them told it failed after the server committed its record.           *)
RestartMaterializesOnce ==
    \A f \in Files :
        MapThenSumSet(LAMBDA c : records[f, c], Contents)
            <= MaxOf(1, Cardinality({a \in Attempts : att[a].pc = "done"
                                                   /\ att[a].file = f}))

=============================================================================
