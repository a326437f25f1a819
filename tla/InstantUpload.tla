---------------------------- MODULE InstantUpload ----------------------------
(***************************************************************************)
(* The instant-upload page of src/static/app.js: handleInstantHash, which  *)
(* runs on every change of the file input and on the hash button, and      *)
(* handleInstantUpload, which reads the hash field, tries POST upload/hash *)
(* and on a miss falls back to uploadByMultipart with that hash.  Both are *)
(* async: hash computations of earlier selections, and clicks, interleave  *)
(* at every await.  The name and size fields are rewritten from the file   *)
(* by handleInstantUpload before use and are left out; the hash field is  *)
(* the state the handlers share.  Instant clicks use the attempt ids of    *)
(* MultipartUpload, whose actions run the fallback.                        *)
(***************************************************************************)
EXTENDS MultipartUpload

CONSTANTS
    HashJobs,   \* invocations of handleInstantHash (bound on them)
    Empty       \* model value: the empty hash field

VARIABLES
    chosen,     \* $("instantFile").files[0], or None
    jobs,       \* jobs[j] : a handleInstantHash invocation and the file it hashes
    hashField,  \* $("instantHash").value: a digest, or Empty
    ic          \* ic[a] : the state of instant click a

pageVars == <<chosen, jobs, hashField, ic>>

ivars == <<vars, pageVars>>

ClickPhase == {"idle", "hashing", "target", "check", "hit", "fallback", "failed"}

IUTypeOK ==
    /\ TypeOK
    /\ chosen \in Files \cup {None}
    /\ jobs \in [HashJobs -> [pc : {"idle", "hashing", "done"},
                              file : Files \cup {None}]]
    /\ hashField \in Contents \cup {Empty}
    /\ ic \in [Attempts -> [pc : ClickPhase, file : Files \cup {None},
                            hash : Contents \cup {None}]]

IUInit ==
    /\ Init
    /\ chosen = None
    /\ jobs = [j \in HashJobs |-> [pc |-> "idle", file |-> None]]
    /\ hashField = Empty
    /\ ic = [a \in Attempts |-> [pc |-> "idle", file |-> None, hash |-> None]]

-----------------------------------------------------------------------------
(* The environment: what POST upload/hash answers.  On a dedup match the   *)
(* server materializes a record and answers {instant: true, file_id > 0};   *)
(* spec.md 4.3 also names the anomalous answer {instant: true, file_id: 0}, *)
(* modelled as an answer without a record.                                 *)
SrvHashAnswers(d, size) ==
    IF HashHit(d, size)
    THEN {[instant |-> TRUE, fileId |-> 1], [instant |-> TRUE, fileId |-> 0]}
    ELSE {[instant |-> FALSE, fileId |-> 0]}

SrvHashUpload(d, size, f, resp) ==
    IF resp.fileId > 0 THEN Materialize(f, d) ELSE UNCHANGED records

-----------------------------------------------------------------------------
(* handleInstantHash: reads files[0], awaits hashFile.                    *)
StartHash(j, f) ==
    /\ jobs[j].pc = "idle"
    /\ jobs' = [jobs EXCEPT ![j] = [pc |-> "hashing", file |-> f]]

(* The user picks file f; the change listener calls handleInstantHash.     *)
Select(f) ==
    /\ chosen' = f
    /\ \E j \in HashJobs : StartHash(j, f)
    /\ UNCHANGED <<vars, hashField, ic>>

(* The hash button: handleInstantHash on the file currently chosen.       *)
HashClick ==
    /\ chosen # None
    /\ \E j \in HashJobs : StartHash(j, chosen)
    /\ UNCHANGED <<vars, chosen, hashField, ic>>

(* Mutation of HashDone: the file name is written into the hash field.    *)
HashDoneSwapped(j) ==
    /\ jobs[j].pc = "hashing"
    /\ hashField' = jobs[j].file
    /\ jobs' = [jobs EXCEPT ![j].pc = "done"]
    /\ UNCHANGED <<vars, chosen, ic>>

(* hashFile resolved: the name, size and hash fields are written.          *)
HashDone(j) ==
    /\ jobs[j].pc = "hashing"
    /\ hashField' = ContentOf[jobs[j].file]
    /\ jobs' = [jobs EXCEPT ![j].pc = "done"]
    /\ UNCHANGED <<vars, chosen, ic>>

-----------------------------------------------------------------------------
(* handleInstantUpload up to its first await: the hash field, if filled,   *)
(* is taken as the file's digest; otherwise the file is hashed.            *)
Click(a) ==
    /\ ic[a].pc = "idle"
    /\ chosen # None
    /\ ic' = [ic EXCEPT ![a] =
                 IF hashField = Empty
                 THEN [pc |-> "hashing", file |-> chosen, hash |-> None]
                 ELSE [pc |-> "target", file |-> chosen, hash |-> hashField]]
    /\ UNCHANGED <<vars, chosen, jobs, hashField>>

(* hash = await hashFile(file); hashInput.value = hash.                    *)
OwnHashDone(a) ==
    LET h == ContentOf[ic[a].file] IN
    /\ ic[a].pc = "hashing"
    /\ ic' = [ic EXCEPT ![a].pc = "target", ![a].hash = h]
    /\ hashField' = h
    /\ UNCHANGED <<vars, chosen, jobs>>

(* await resolveUploadTarget(): the target folder is ready, or the path    *)
(* does not resolve and the handler reports the error.                     *)
TargetResolved(a) ==
    /\ ic[a].pc = "target"
    /\ \E ok \in BOOLEAN : ic' = [ic EXCEPT ![a].pc = IF ok THEN "check" ELSE "failed"]
    /\ UNCHANGED <<vars, chosen, jobs, hashField>>

(* Mutation of IsInstantHit: the flag alone is taken as a hit.             *)
IsInstantHitFlagOnly(resp) == resp.instant

(* Mutation of IsInstantHit: `result.instant === "true"`, never a hit.     *)
IsInstantHitNever(resp) == FALSE

(* instantHit = result.instant === true && Number(result.file_id) > 0      *)
IsInstantHit(resp) == resp.instant /\ resp.fileId > 0

(* Mutation of Decide: the fallback call to uploadByMultipart is dropped.  *)
DecideWithoutLaunch(a, resp) ==
    IF IsInstantHit(resp)
    THEN /\ ic' = [ic EXCEPT ![a].pc = "hit"]
         /\ UNCHANGED att
    ELSE /\ ic' = [ic EXCEPT ![a].pc = "fallback"]
         /\ UNCHANGED att

(* The answer is read: a hit ends the click; anything else calls           *)
(* uploadByMultipart(file, parentId, status, null, hash).                  *)
Decide(a, resp) ==
    IF IsInstantHit(resp)
    THEN /\ ic' = [ic EXCEPT ![a].pc = "hit"]
         /\ UNCHANGED att
    ELSE /\ ic' = [ic EXCEPT ![a].pc = "fallback"]
         /\ \E v \in ChunkInputs : Launch(a, ic[a].file, ic[a].hash, v)

(* await apiFetch("/file/upload/hash").                                    *)
HashCall(a) ==
    LET d == ic[a].hash
        f == ic[a].file
        FailClick == ic' = [ic EXCEPT ![a].pc = "failed"]
    IN
    /\ ic[a].pc = "check"
    /\ \/ /\ faults < MaxFaults
          /\ faults' = faults + 1
          /\ FailClick
          /\ UNCHANGED <<serverVars, att>>
       \/ /\ ~loggedIn
          /\ FailClick
          /\ UNCHANGED <<serverVars, att, faults>>
       \/ /\ loggedIn
          /\ \E resp \in SrvHashAnswers(d, SizeOf[ContentOf[f]]) :
                /\ SrvHashUpload(d, SizeOf[ContentOf[f]], f, resp)
                /\ \/ /\ UNCHANGED faults
                      /\ Decide(a, resp)
                   \/ /\ faults < MaxFaults
                      /\ faults' = faults + 1
                      /\ FailClick
                      /\ UNCHANGED att
          /\ UNCHANGED <<objects, blob, sessions>>
    /\ UNCHANGED <<loggedIn, chosen, jobs, hashField>>

(* The page has nothing in flight: every click has ended (its fallback     *)
(* included) and every hash has been written.                              *)
ClickEnded(a) ==
    \/ ic[a].pc \in {"hit", "failed"}
    \/ ic[a].pc = "fallback" /\ att[a].pc \in {"done", "failed"}

IUQuiescent ==
    /\ \A a \in Attempts : ClickEnded(a)
    /\ \A j \in HashJobs : jobs[j].pc # "hashing"
    /\ UNCHANGED ivars

ClickStep(a) == OwnHashDone(a) \/ TargetResolved(a) \/ HashCall(a)

IUNext ==
    \/ \E f \in Files : Select(f)
    \/ HashClick
    \/ \E j \in HashJobs : HashDone(j)
    \/ \E a \in Attempts : Click(a) \/ ClickStep(a)
    \/ \E a \in Attempts : Step(a) /\ UNCHANGED pageVars
    \/ Logout /\ UNCHANGED pageVars
    \/ IUQuiescent

(* The browser finishes every hash computation and settles every fetch;    *)
(* selections, clicks and logout are the user's.                           *)
IUSpec ==
    /\ IUInit /\ [][IUNext]_ivars
    /\ \A j \in HashJobs : WF_ivars(HashDone(j))
    /\ \A a \in Attempts : WF_ivars(ClickStep(a))
    /\ \A a \in Attempts : WF_ivars(Step(a) /\ UNCHANGED pageVars)

-----------------------------------------------------------------------------
(* Clicks that told the user the file is uploaded: an instant hit, or a   *)
(* fallback multipart upload that completed.                               *)
Succeeded(a) ==
    \/ ic[a].pc = "hit"
    \/ ic[a].pc = "fallback" /\ att[a].pc = "done"

RecordsNamed(f) == MapThenSumSet(LAMBDA c : records[f, c], Contents)

(* No false success: for every file name, at least as many records exist   *)
(* as clicks that reported it uploaded, whatever the server answers to     *)
(* upload/hash (including instant without a file id) and however lost      *)
(* responses and stale hash fields interleave.                             *)
SuccessesHaveRecords ==
    \A f \in Files :
        Cardinality({a \in Attempts : Succeeded(a) /\ ic[a].file = f}) <= RecordsNamed(f)

(* At-most-once materialization (spec.md 5): a click of the instant-upload *)
(* button adds at most one file record, across its upload/hash call and    *)
(* its multipart fallback (whose init can dedup again).                    *)
AtMostOneRecordPerClick ==
    MapThenSumSet(LAMBDA r : records[r], Files \X Contents)
        <= Cardinality({a \in Attempts : ic[a].pc # "idle"})

(* Every instant click ends: hashing, target resolution, upload/hash and   *)
(* the fallback each settle.                                               *)
InstantClicksEnd ==
    \A a \in Attempts : ic[a].pc \in {"hashing", "target", "check", "fallback"}
                          ~> ClickEnded(a)

====
