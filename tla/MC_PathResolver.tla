--------------------------- MODULE MC_PathResolver ---------------------------
EXTENDS PathResolver

CONSTANTS n1, n2

(* Target paths of one and two segments: relative, absolute, with          *)
(* backslashes and empty segments, and the special "", ".", "/" and "Root". *)
MCRawPaths == {<<n1>>, <<"/", n1, "/", n2>>, <<n1, "\\", n2>>, <<"/", "/", n2>>,
               <<>>, <<".">>, <<"/">>, <<"Root">>}

(* One-segment target paths, relative and absolute.                        *)
MCRawPaths1 == {<<n1>>, <<n2>>, <<"/", n1>>}

(* The folder parts of the files of a folder upload: one and two levels.  *)
MCBatchPaths == {<<n1>>, <<n1, n2>>}

(* A folder upload whose files sit in one subfolder.                       *)
MCBatchPaths1 == {<<n1>>}

=============================================================================
