------------------------------ MODULE MCVault ------------------------------
(* Small instances of Vault: a few requests of either spouse.               *)
EXTENDS Vault, TLC

CONSTANTS husband, wife, h1, h2, w1, w2, w3

SpouseOfTasks == h1 :> husband @@ h2 :> husband @@ w1 :> wife @@ w2 :> wife @@ w3 :> wife

\* Bound: of five requests at most one creates an entry and at most one views.
FewCreatesAndViews ==
  \A t, u \in Tasks : t # u /\ call[t].op = call[u].op => call[t].op \notin {"create", "view"}

\* Requests of the same spouse are interchangeable.
Alike == Permutations({h1, h2}) \cup Permutations({w1, w2, w3})
=============================================================================
