------------------------------ MODULE MCRecords ------------------------------
(* Small instances of SharedRows and of Media.  The two share nothing: a     *)
(* behaviour is one of SharedRows or one of Media, chosen at the start, and  *)
(* the other's variables stay as they are.                                   *)
EXTENDS SharedRows, Media, TLC

CONSTANTS h, w, h1, h2, w1, ph, pw, p, i, u1, u2, u3, v1, v2

MCBy == h1 :> h @@ h2 :> h @@ w1 :> w
MCOwner == ph :> h @@ pw :> w
MCAuthor == p :> h @@ i :> w

\* Which of the two runs; for rows whether of settings, for the video whether on
\* several players at once.
VARIABLE world
vars == <<world, rowVars, mediaVars>>

Init ==
  /\ world \in {"rows", "settings", "uploads", "player", "players"}
  /\ RowsInit /\ MediaInit
  /\ CASE world = "player" -> TRUE
       [] world = "players" -> plainSize \in {1, 4}
       [] OTHER -> plainSize = 1
  /\ world # "rows" => \A k \in Keys : ~Exists(k)

Asked(t) == \A r \in Reqs : call[r].key \in t \cup {Nothing}

\* Bound: rows share nothing, so all requests are about one kind of them, and the
\* phones show settings only.
Tables == {Phrases, Items, {Password}, Profiles, Favourites, Countdowns}
OneTable == \E t \in Tables : Asked(t)

\* Bounds: a setting is changed twice, and one value that was read is on its way.
FewChanges ==
  /\ Asked(Settings) /\ Cardinality({r \in Reqs : stage[r] # "new"}) <= 2
  /\ Cardinality(loads) <= 1

\* Bounds: nobody plays; or one player at a time asks for any part of a video that
\* is converted once; or several ask for all of one that may be converted twice.
\* While a video is played no thumbnail is attached.
Bounded ==
  LET active == {v \in Players : player[v].state # "idle"}
  IN  CASE world = "uploads" -> active = {}
        [] world = "player" ->
             /\ Cardinality(active) <= 1 /\ Cardinality(writing) <= 2
             /\ \A u \in Uploads : ~job[u].thumb
             /\ Cardinality({u \in Uploads : job[u] # NoJob}) <= 2
        [] world = "players" ->
             /\ Cardinality(writing) <= 3
             /\ \A u \in Uploads : ~job[u].thumb
             /\ \A v \in active : player[v].from = 0
             /\ \A v \in active : player[v].state = "playing" => player[v].to = plainSize - 1

Next ==
  \/ world = "rows" /\ RowsNext /\ OneTable' /\ UNCHANGED <<world, showVars, mediaVars>>
  \/ world = "settings" /\ RowsNext /\ FewChanges' /\ UNCHANGED <<world, mediaVars>>
  \/ /\ world \in {"uploads", "player", "players"}
     /\ MediaNext /\ UNCHANGED <<world, rowVars>>
     /\ Bounded'

Spec == Init /\ [][Next]_vars

\* Requests of the same spouse are interchangeable, and so are uploads.
Alike == Permutations({h1, h2}) \cup Permutations({u1, u2, u3})
  \cup Permutations({v1, v2})
==============================================================================
