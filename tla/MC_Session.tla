------------------------------ MODULE MC_Session ------------------------------
(* Two accounts and two tabs of one browser.                               *)
EXTENDS Session

====
