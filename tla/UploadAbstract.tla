---------------------------- MODULE UploadAbstract ----------------------------
(***************************************************************************)
(* What an upload click promises (spec.md 4.4 and 5), without chunks,      *)
(* sessions or messages: a click starts with one file; it then either      *)
(* stores that file's bytes and adds exactly one record of it, reporting   *)
(* success or (when the answer is lost) failure, or it adds nothing and    *)
(* fails.  Every click that starts ends; a slot takes a new click only     *)
(* once its last one has ended.                                            *)
(***************************************************************************)
EXTENDS Naturals

CONSTANTS Attempts, Files, Contents, ContentOf, None

VARIABLES
    phase,   \* phase[a] : "idle", "busy", "done" or "failed"
    file,    \* file[a] : the file click a uploads
    stored,  \* contents stored intact
    recs     \* recs[f, c] : records named f holding content c

avars == <<phase, file, stored, recs>>

AbsTypeOK ==
    /\ phase \in [Attempts -> {"idle", "busy", "done", "failed"}]
    /\ file \in [Attempts -> Files \cup {None}]
    /\ stored \subseteq Contents
    /\ recs \in [Files \X Contents -> Nat]

AbsInit ==
    /\ phase = [a \in Attempts |-> "idle"]
    /\ file = [a \in Attempts |-> None]
    /\ stored = {}
    /\ recs = [r \in Files \X Contents |-> 0]

(* A click with file f in a slot that is not busy (a folder upload reuses *)
(* its slot file after file); it may fail at once (no token).              *)
Begin(a, f) ==
    /\ phase[a] # "busy"
    /\ phase' \in {[phase EXCEPT ![a] = "busy"], [phase EXCEPT ![a] = "failed"]}
    /\ file' = [file EXCEPT ![a] = f]
    /\ UNCHANGED <<stored, recs>>

(* The file is stored (or already was) and one record of it is added; the  *)
(* user is told, or the answer is lost.                                    *)
Commit(a) ==
    LET c == ContentOf[file[a]] IN
    /\ phase[a] = "busy"
    /\ stored' = stored \cup {c}
    /\ recs' = [recs EXCEPT ![file[a], c] = @ + 1]
    /\ phase' \in {[phase EXCEPT ![a] = "done"], [phase EXCEPT ![a] = "failed"]}
    /\ UNCHANGED file

(* The click fails without leaving a record.                               *)
Abort(a) ==
    /\ phase[a] = "busy"
    /\ phase' = [phase EXCEPT ![a] = "failed"]
    /\ UNCHANGED <<file, stored, recs>>

AbsNext ==
    \/ \E a \in Attempts, f \in Files : Begin(a, f)
    \/ \E a \in Attempts : Commit(a) \/ Abort(a)

AbsSpec == AbsInit /\ [][AbsNext]_avars
                   /\ \A a \in Attempts : WF_avars(Commit(a) \/ Abort(a))

====
