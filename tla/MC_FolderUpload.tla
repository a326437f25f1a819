-------------------------- MODULE MC_FolderUpload --------------------------
(* A folder of two files with different 12 MiB contents (three chunks at  *)
(* the 5 MiB default); the multipart button may upload either meanwhile. *)
EXTENDS FolderUpload

CONSTANTS f1, f2, c1, c2

MCContentOf == [f \in Files |-> IF f = f1 THEN c1 ELSE c2]

MCSizeOf == [c \in Contents |-> 7]

MCSelections == {<<f1, f2>>}

=============================================================================
