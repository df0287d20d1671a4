------------------------------ MODULE MCSession ------------------------------
(* A phone with a few calls to its storage under way at once.               *)
EXTENDS Session, TLC
CONSTANTS s1, s2
\* Bound: calls to the storage and refreshes at the server under way, one more while
\* a session is being saved, which takes five.
FewCalls == Len(queue) + renewals <= IF saving = "nothing" THEN 5 ELSE 6
Alike == Permutations({s1, s2})
==============================================================================
