----------------------------- MODULE FolderUpload -----------------------------
(***************************************************************************)
(* The folder upload of src/static/app.js: handleFolderUpload runs, for    *)
(* each selected file in order, ensureFolderPath and then                  *)
(* uploadFileMultipartForFolder, whose token check, init, chunk loop and   *)
(* complete are those of uploadByMultipart; the first error aborts the     *)
(* batch.  Every click of the folder upload button drives an attempt slot *)
(* of MultipartUpload of its own (BatchAtts), and clicks may overlap; the  *)
(* other attempts are clicks of the multipart button, which may run at the *)
(* same time against the same digest-keyed server sessions.  Path          *)
(* resolution (modelled in PathResolver) is abstracted to: it resolves, or *)
(* it throws.                                                              *)
(***************************************************************************)
EXTENDS MultipartUpload

CONSTANTS
    Selections,         \* folderInput.files: sequences of distinct files
    BatchAtts,          \* clicks of the folder upload button, each an attempt slot
    FolderChunkInputs   \* values of the folderChunkSize field; 0 = empty

ASSUME /\ BatchAtts \subseteq Attempts
       /\ FolderChunkInputs \subseteq Int

VARIABLES
    batch   \* batch[b] : the state of the handleFolderUpload call of click b

fvars == <<vars, batch>>

BatchPhase == {"idle", "target", "path", "upload", "completed", "failed"}

FUTypeOK ==
    /\ TypeOK
    /\ batch \in [BatchAtts -> [pc : BatchPhase, sel : Selections \cup {<<>>}, k : Nat,
                                v : FolderChunkInputs \cup {0}]]
    /\ \A b \in BatchAtts : batch[b].k <= Len(batch[b].sel)

FUInit ==
    /\ Init
    /\ batch = [b \in BatchAtts |-> [pc |-> "idle", sel |-> <<>>, k |-> 0, v |-> 0]]

Running(b) == batch[b].pc \in {"target", "path", "upload"}

-----------------------------------------------------------------------------
(* The folder upload button: the selection is read (an empty one only     *)
(* writes a status) and the target folder is resolved next.               *)
FolderClick(b, s) ==
    /\ batch[b].pc = "idle"
    /\ Len(s) > 0
    /\ batch' = [batch EXCEPT ![b] = [pc |-> "target", sel |-> s, k |-> 1, v |-> 0]]
    /\ UNCHANGED vars

(* await resolveUploadTarget(), then the folderChunkSize field is read.    *)
BatchTarget(b) ==
    /\ batch[b].pc = "target"
    /\ \/ \E v \in FolderChunkInputs : batch' = [batch EXCEPT ![b].pc = "path", ![b].v = v]
       \/ batch' = [batch EXCEPT ![b].pc = "failed"]
    /\ UNCHANGED vars

(* await ensureFolderPath(...) for file k; on success                     *)
(* uploadFileMultipartForFolder starts: token check, hashFile, chunk size *)
(* Math.max(1, chunkSizeMB), the chunk count.                              *)
EnsurePath(b) ==
    LET f == batch[b].sel[batch[b].k] IN
    /\ batch[b].pc = "path"
    /\ \/ /\ batch' = [batch EXCEPT ![b].pc = "upload"]
          /\ Launch(b, f, ContentOf[f], batch[b].v)
       \/ /\ batch' = [batch EXCEPT ![b].pc = "failed"]
          /\ UNCHANGED att
    /\ UNCHANGED <<serverVars, loggedIn, faults>>

(* uploadFileMultipartForFolder's init, chunk loop and complete: the same  *)
(* calls as uploadByMultipart, made by the click's attempt.               *)
FolderFileStep(b) == Step(b)

(* What follows file k of click b: the next file, "completed" after the   *)
(* last, or the catch.                                                     *)
Following(b, failed) ==
    IF failed THEN [batch EXCEPT ![b].pc = "failed"]
    ELSE IF batch[b].k = Len(batch[b].sel)
    THEN [batch EXCEPT ![b].pc = "completed"]
    ELSE [batch EXCEPT ![b].pc = "path", ![b].k = @ + 1]

(* Mutation of FileEnded: a failed file is skipped and the batch goes on.  *)
FileEndedContinuing(b) ==
    /\ batch[b].pc = "upload"
    /\ att[b].pc \in {"done", "failed"}
    /\ batch' = Following(b, FALSE)
    /\ UNCHANGED vars

(* Mutation of FileEnded: the last file is taken for one before the last. *)
FileEndedOffByOne(b) ==
    /\ batch[b].pc = "upload"
    /\ att[b].pc \in {"done", "failed"}
    /\ batch' = IF att[b].pc = "failed" THEN [batch EXCEPT ![b].pc = "failed"]
                ELSE IF batch[b].k > Len(batch[b].sel)
                THEN [batch EXCEPT ![b].pc = "completed"]
                ELSE [batch EXCEPT ![b].pc = "path", ![b].k = @ + 1]
    /\ UNCHANGED vars

(* Mutation of FileEnded: only a file that succeeded is handled.          *)
FileEndedOnlyDone(b) ==
    /\ batch[b].pc = "upload"
    /\ att[b].pc = "done"
    /\ batch' = Following(b, FALSE)
    /\ UNCHANGED vars

(* The await of uploadFileMultipartForFolder returns (completed += 1 and   *)
(* the loop moves on, or the batch completes) or throws into the catch.   *)
FileEnded(b) ==
    /\ batch[b].pc = "upload"
    /\ att[b].pc \in {"done", "failed"}
    /\ batch' = Following(b, att[b].pc = "failed")
    /\ UNCHANGED vars

BatchStep(b) == BatchTarget(b) \/ EnsurePath(b) \/ FileEnded(b)

(* No continuation is ready to run: the page waits for input.  An await  *)
(* that never returns leaves the page here, which liveness then catches.  *)
FUQuiescent ==
    /\ ~ENABLED \E a \in Attempts : Step(a) \/ (a \in BatchAtts /\ BatchStep(a))
    /\ UNCHANGED fvars

(* The multipart button works on the other attempt slots.                 *)
FUNext ==
    \/ \E b \in BatchAtts, s \in Selections : FolderClick(b, s)
    \/ \E b \in BatchAtts : BatchStep(b)
    \/ \E b \in BatchAtts : FolderFileStep(b) /\ UNCHANGED batch
    \/ \E a \in Attempts \ BatchAtts, f \in Files, v \in ChunkInputs :
           Start(a, f, v) /\ UNCHANGED batch
    \/ \E a \in Attempts \ BatchAtts : Step(a) /\ UNCHANGED batch
    \/ Logout /\ UNCHANGED batch
    \/ FUQuiescent

(* The browser settles every fetch and runs every continuation; the       *)
(* clicks and logout are the user's.                                      *)
FUSpec ==
    /\ FUInit /\ [][FUNext]_fvars
    /\ \A b \in BatchAtts : WF_fvars(BatchStep(b))
    /\ \A a \in Attempts : WF_fvars(Step(a) /\ UNCHANGED batch)

-----------------------------------------------------------------------------
(* "Folder upload completed." is shown only when every file of the        *)
(* selection has a record with its bytes, although the multipart button   *)
(* may complete, resume or take over the same digest's session meanwhile   *)
(* and requests and responses may be lost.                                 *)
CompletedBatchStored ==
    \A b \in BatchAtts :
        batch[b].pc = "completed" =>
            \A i \in 1..Len(batch[b].sel) :
                LET f == batch[b].sel[i] IN
                /\ records[f, ContentOf[f]] >= 1
                /\ ContentOf[f] \in objects

(* Every folder upload ends, with "completed" or an error status.         *)
BatchEnds == \A b \in BatchAtts : Running(b) ~> batch[b].pc \in {"completed", "failed"}

====
