---------------------------- MODULE MCChatServer ----------------------------
(* One phone of the husband, who writes over its websocket or over REST, and *)
(* two of the wife, who may mark as read over REST.                          *)
EXTENDS ChatServer, TLC

CONSTANTS husband, wife, h1, w1, w2, r1, r2, m1

SpouseOfFive ==
  h1 :> husband @@ r2 :> husband @@ w1 :> wife @@ w2 :> wife @@ r1 :> wife
AuthorFive == m1 :> husband

\* Bound: any three of the five tasks are ever started.  The wife's phones are
\* interchangeable, so that w1 may be taken to connect first.  (No fair action
\* starts a task, so that this takes no fair step away.)
AnyThreeTasks ==
  /\ Cardinality({t \in Tasks : pc[t] # "new"}) <= 3
  /\ pc[w2] # "new" => pc[w1] # "new"
=============================================================================
