---------------------------- MODULE UploadServer ----------------------------
(***************************************************************************)
(* The upload endpoints of the storage server, as the client in            *)
(* src/static/app.js sees them.  The server is not part of this            *)
(* repository: every definition here is taken from spec.md section 6 and   *)
(* sections 4.3-4.4 (instant upload, multipart init/chunk/complete).       *)
(*                                                                         *)
(* Content is content-addressed: a digest denotes one content, so the      *)
(* model identifies a digest with the content it was computed from.  A     *)
(* piece of content is <<content, start, end>>, the byte range             *)
(* [start, end) of that content; sizes are in units of one MiB.            *)
(***************************************************************************)
EXTENDS Integers, Sequences, FiniteSetsExt, TLC

CONSTANTS
    Files,      \* names of the local files the user can pick
    Contents,   \* distinct file contents (= digests)
    ContentOf,  \* ContentOf[f] : the bytes of local file f
    SizeOf,     \* SizeOf[c] : size of content c
    None        \* model value: no session / no value

ASSUME /\ ContentOf \in [Files -> Contents]
       /\ SizeOf \in [Contents -> Nat]

VARIABLES
    objects,    \* contents the server stores (its dedup store)
    blob,       \* blob[c] : the pieces the server assembled when it committed c
    sessions,   \* sessions[d] : the multipart session keyed by digest d, or None
    records     \* records[f, c] : file records named f, holding object c, in the target folder

serverVars == <<objects, blob, sessions, records>>

Piece == Contents \X Nat \X Nat

Session == [cs : Nat, received : SUBSET (Nat \X Piece)]

ServerTypeOK ==
    /\ objects \subseteq Contents
    /\ blob \in [Contents -> Seq(Piece)]
    /\ sessions \in [Contents -> Session \cup {None}]
    /\ records \in [Files \X Contents -> Nat]

ServerInit ==
    /\ objects = {}
    /\ blob = [c \in Contents |-> <<>>]
    /\ sessions = [d \in Contents |-> None]
    /\ records = [r \in Files \X Contents |-> 0]

(* Indices of the chunks session d has received.                           *)
Received(d) == {p[1] : p \in sessions[d].received}

(* The piece the server holds for chunk j of session d (the last one       *)
(* received wins).                                                          *)
PieceAt(d, j) == CHOOSE p \in sessions[d].received : p[1] = j

(* A new file record named f for object c: instant upload and commit both *)
(* add one.                                                                *)
Materialize(f, c) == records' = [records EXCEPT ![f, c] = @ + 1]

(* The dedup match of spec.md 4.3: a stored object with this digest and    *)
(* this size.                                                              *)
HashHit(d, size) == d \in objects /\ SizeOf[d] = size

(***************************************************************************)
(* POST upload/hash and the dedup branch of POST upload/multipart/init:    *)
(* a digest the server already stores is materialized without transfer.   *)
(***************************************************************************)
SrvInstant(d, size, f) ==
    /\ HashHit(d, size)
    /\ Materialize(f, d)
    /\ UNCHANGED <<objects, blob, sessions>>

(***************************************************************************)
(* POST upload/multipart/init without a dedup match: a                    *)
(* session keyed by the digest is resumed if it exists (its received       *)
(* chunk indices are returned), otherwise a fresh one is opened with the   *)
(* requested chunk size.                                                   *)
(***************************************************************************)
SrvOpen(d, size, cs) ==
    /\ ~HashHit(d, size)
    /\ sessions' = IF sessions[d] = None
                   THEN [sessions EXCEPT ![d] = [cs |-> cs, received |-> {}]]
                   ELSE sessions
    /\ UNCHANGED <<objects, blob, records>>

(* What init reports as already uploaded, read before SrvOpen.             *)
InitUploaded(d) == IF sessions[d] = None THEN {} ELSE Received(d)

(***************************************************************************)
(* POST upload/multipart/chunk: the session stores the piece under its     *)
(* index, replacing an earlier piece with the same index.                  *)
(***************************************************************************)
SrvChunk(d, j, piece) ==
    /\ sessions[d] # None
    /\ sessions' = [sessions EXCEPT ![d].received =
                        {p \in @ : p[1] # j} \cup {<<j, piece>>}]
    /\ UNCHANGED <<objects, blob, records>>

(***************************************************************************)
(* POST upload/multipart/complete: with every chunk 0..total-1 received,   *)
(* the server assembles them in index order, stores the object, commits    *)
(* the file record and ends the session.                                   *)
(***************************************************************************)
CanComplete(d, total) ==
    /\ sessions[d] # None
    /\ 0..(total - 1) \subseteq Received(d)

SrvComplete(d, total, f) ==
    /\ CanComplete(d, total)
    /\ objects' = objects \cup {d}
    /\ blob' = [blob EXCEPT ![d] = [k \in 1..total |-> PieceAt(d, k - 1)[2]]]
    /\ sessions' = [sessions EXCEPT ![d] = None]
    /\ Materialize(f, d)

=============================================================================
