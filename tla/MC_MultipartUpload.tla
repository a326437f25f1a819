------------------------- MODULE MC_MultipartUpload -------------------------
(* Two local files with the same bytes (a copy under another name), the   *)
(* 12 MiB file of spec.md section 8 split with the 5 MiB default.         *)
EXTENDS MultipartUpload

MCContentOf == [f \in Files |-> CHOOSE c \in Contents : TRUE]

MCSizeOf == [c \in Contents |-> 12]

=============================================================================
