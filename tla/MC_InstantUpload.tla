--------------------------- MODULE MC_InstantUpload ---------------------------
EXTENDS InstantUpload

(* Two files with distinct contents of one size: 6 MiB, two chunks at the *)
(* default chunk size.                                                     *)
MCContentOf == [f \in Files |-> IF f = CHOOSE g \in Files : TRUE
                                THEN CHOOSE c \in Contents : TRUE
                                ELSE CHOOSE c \in Contents :
                                         c # CHOOSE e \in Contents : TRUE]

MCSizeOf == [c \in Contents |-> 6]

====
