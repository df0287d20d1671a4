---------------------------- MODULE RecordsProofs ----------------------------
(***************************************************************************)
(* Proofs about SharedRows, for any numbers of requests, phrases, items and *)
(* settings: although no row is locked, no answered change is lost to one  *)
(* that ended before it began, and a phone that has missed nothing shows   *)
(* what is stored.                                                         *)
(* And about Media, for any number of uploads, thumbnails and conversions  *)
(* and any sizes: media is never lost, a range request gets the bytes it   *)
(* asks for, and every player is given the bytes of the video it asks for, *)
(* whatever is cached, torn, not written or replaced meanwhile.            *)
(***************************************************************************)
EXTENDS SharedRows, Media, WellFoundedInduction, TLAPS

\* The least element of a set of numbers, by which recursive functions are
\* reasoned about.
LEMMA LeastNatural ==
  ASSUME NEW T, T \subseteq Nat, T # {}
  PROVE  \E m \in T : \A k \in T : m <= k
<1>1. IsWellFoundedOn(OpToRel(<, Nat), Nat)
  BY NatLessThanWellFounded
<1>2. PICK m \in T : \A k \in T : ~(<<k, m>> \in OpToRel(<, Nat))
  BY <1>1, WFMin
<1>3. \A k \in T : ~(k < m)
  BY <1>2 DEF OpToRel
<1> QED
  BY <1>3

-----------------------------------------------------------------------------
(* The tables.                                                             *)

\* The parts of an installation's tables do not overlap, and what a row of
\* each consists of.
LEMMA Tables ==
  /\ \A k \in Phrases : Attributes(k) = {"text"} \cup Spouses
  /\ \A k \in Items : Attributes(k) = {"text", "fulfilled"}
  /\ \A k \in Profiles : Attributes(k) = {"name", "bio"}
  /\ \A k \in Settings \cup {Password} : Attributes(k) = {"value"}
  /\ \A k \in Favourites : Attributes(k) = {"id"}
  /\ \A k \in Countdowns : Attributes(k) = {"date", "by", "stamp"}
  /\ Profiles \cap Favourites = {} /\ Profiles \cap Countdowns = {}
  /\ Favourites \cap Countdowns = {}
<1>1. Profiles \cap Favourites = {} /\ Profiles \cap Countdowns = {} /\ Favourites \cap Countdowns = {}
  BY DEF Profiles, Favourites, Countdowns
<1>2. \A k \in Phrases : Attributes(k) = {"text"} \cup Spouses
  <2> SUFFICES ASSUME NEW k \in Phrases PROVE Attributes(k) = {"text"} \cup Spouses
    OBVIOUS
  <2>1. k \in Phrases /\ k \notin Items /\ k \notin Profiles
        /\ k \notin Settings \cup {Password} /\ k \notin Favourites
    BY TablesAssumption, <1>1
  <2> QED BY <2>1 DEF Attributes
<1>3. \A k \in Items : Attributes(k) = {"text", "fulfilled"}
  <2> SUFFICES ASSUME NEW k \in Items PROVE Attributes(k) = {"text", "fulfilled"}
    OBVIOUS
  <2>1. k \notin Phrases /\ k \in Items /\ k \notin Profiles
        /\ k \notin Settings \cup {Password} /\ k \notin Favourites
    BY TablesAssumption, <1>1
  <2> QED BY <2>1 DEF Attributes
<1>4. \A k \in Profiles : Attributes(k) = {"name", "bio"}
  <2> SUFFICES ASSUME NEW k \in Profiles PROVE Attributes(k) = {"name", "bio"}
    OBVIOUS
  <2>1. k \notin Phrases /\ k \notin Items /\ k \in Profiles
        /\ k \notin Settings \cup {Password} /\ k \notin Favourites
    BY TablesAssumption, <1>1
  <2> QED BY <2>1 DEF Attributes
<1>5. \A k \in Settings \cup {Password} : Attributes(k) = {"value"}
  <2> SUFFICES ASSUME NEW k \in Settings \cup {Password} PROVE Attributes(k) = {"value"}
    OBVIOUS
  <2>1. k \notin Phrases /\ k \notin Items /\ k \notin Profiles
        /\ k \in Settings \cup {Password} /\ k \notin Favourites
    BY TablesAssumption, <1>1
  <2> QED BY <2>1 DEF Attributes
<1>6. \A k \in Favourites : Attributes(k) = {"id"}
  <2> SUFFICES ASSUME NEW k \in Favourites PROVE Attributes(k) = {"id"}
    OBVIOUS
  <2>1. k \notin Phrases /\ k \notin Items /\ k \notin Profiles
        /\ k \notin Settings \cup {Password} /\ k \in Favourites
    BY TablesAssumption, <1>1
  <2> QED BY <2>1 DEF Attributes
<1>7. \A k \in Countdowns : Attributes(k) = {"date", "by", "stamp"}
  <2> SUFFICES ASSUME NEW k \in Countdowns PROVE Attributes(k) = {"date", "by", "stamp"}
    OBVIOUS
  <2>1. k \notin Phrases /\ k \notin Items /\ k \notin Profiles
        /\ k \notin Settings \cup {Password} /\ k \notin Favourites
    BY TablesAssumption, <1>1
  <2> QED BY <2>1 DEF Attributes
<1> QED BY <1>1, <1>2, <1>3, <1>4, <1>5, <1>6, <1>7

\* A row with an attribute is there.
LEMMA RowsThere ==
  ASSUME NEW v, NEW a, a \in DOMAIN v
  PROVE  v # NoRow
BY DEF NoRow

LEMMA RowLikeDomain ==
  ASSUME NEW k, NEW v, RowLike(k, v)
  PROVE  DOMAIN v = Attributes(k)
BY DEF RowLike

\* Whoever has not ended is in nobody's past.
LEMMA ActiveNotBefore ==
  ASSUME RowsKnown, NEW r \in Reqs, stage[r] \notin {"done", "refused", "failed"}, NEW x \in Reqs
  PROVE  r \notin before[x]
BY DEF RowsKnown, CallKnown, Ended

LEMMA InitRows ==
  ASSUME RowsInit
  PROVE  RowsKnown
<1>1. PICK there \in SUBSET (Phrases \cup Items) :
        row = [k \in Keys |-> IF k \in there THEN Blank(k) ELSE NoRow]
  BY DEF RowsInit
<1>2. DOMAIN row = Keys /\ \A k \in Keys : row[k] = NoRow \/ RowLike(k, row[k])
  BY <1>1 DEF RowLike, Blank
<1>3. \A r \in Reqs : stage[r] = "new" /\ call[r] = NoCall /\ before[r] = {}
  BY DEF RowsInit
<1>4. stage \in [Reqs -> Stages] /\ DOMAIN call = Reqs /\ DOMAIN found = Reqs
      /\ screen \in [Phones \X Settings -> {"on", "off"}]
      /\ missed \in [Phones \X Settings -> BOOLEAN] /\ loads = {}
      /\ untold \in [Reqs -> SUBSET Spouses] /\ before \in [Reqs -> SUBSET Reqs]
  BY DEF RowsInit, Stages
<1>5. \A k : ~Exists(k) \/ k \notin Keys \/ k \in Phrases \cup Items
  BY <1>1 DEF Exists
<1>6. ASSUME NEW r \in Reqs
      PROVE  CallKnown(r)
  <2>1. <<"countdown", r>> \in Countdowns
    BY DEF Countdowns
  <2>2. ~Exists(<<"countdown", r>>)
    BY <2>1, <1>5, TablesAssumption DEF Keys
  <2> QED BY <2>2, <1>3 DEF CallKnown
<1>7. \A k, a : Writers(k, a) = {}
  BY <1>3 DEF Writers
<1>8. \A k \in Keys : \A a \in Attributes(k) : LastIsKnown(k, a)
  BY <1>7 DEF LastIsKnown
<1>9. ASSUME NEW k \in Settings
      PROVE  ScreensFollow(k)
  <2>1. ~Exists(k)
    BY <1>5, TablesAssumption DEF Keys
  <2>2. Shown(Now(k, "value")) = "off"
    BY <2>1, SharedRowsAssumption DEF Now, Shown
  <2>3. WritersFollow(k) /\ LoadsFollow(k)
    BY <1>4, <1>7 DEF WritersFollow, LoadsFollow
  <2>4. PhonesFollow(k)
    BY <2>2 DEF RowsInit, PhonesFollow
  <2> QED BY <2>3, <2>4 DEF ScreensFollow
<1>10. LoadsKnown
  BY <1>4 DEF LoadsKnown
<1> QED BY <1>2, <1>4, <1>6, <1>8, <1>9, <1>10 DEF RowsKnown

-----------------------------------------------------------------------------
(* A request begins.                                                       *)

\* What a request may start with: what it finds when it is to commit at once,
\* what it sets, and that a row yet to be inserted has no name but with it.
Entitled(r, k, how, values, allowed, next) ==
  /\ DOMAIN values \subseteq Attributes(k)
  /\ k \in Settings \cup {Password} => DOMAIN values = {"value"}
  /\ how = "delete" => /\ k \in Phrases \cup Items \cup Favourites
                       /\ DOMAIN values = Attributes(k)
                       /\ \A a \in DOMAIN values : values[a] = Nothing
  /\ allowed /\ next = "commit" => Exists(k)
  /\ next = "recheck" => k = Password
  /\ next = "done" => DOMAIN values = {}
  /\ next = "insert" /\ k \in Favourites => DOMAIN values = {"id"}
  /\ next = "insert" /\ k \in Phrases \cup Items \cup Countdowns =>
       ~Exists(k) /\ \A q \in Reqs : call[q].key # k
  /\ next = "insert" /\ k \in Countdowns =>
       k = <<"countdown", r>> /\ values = [date |-> r, by |-> By[r]]
  /\ k \in Phrases \cup Items \cup Countdowns /\ allowed =>
       Exists(k) \/ \A q \in Reqs : call[q].key # k
  /\ k \in Countdowns => Exists(k) \/ k = <<"countdown", r>>

\* What has been read stays as it is, and so does what was seen with it.
LEMMA LoadsStay ==
  ASSUME RowsKnown, loads' = loads,
         \A q \in Reqs : stage[q] \in {"tell", "done", "failed"} =>
                          stage'[q] \in {"tell", "done", "failed"}
  PROVE  /\ LoadsKnown'
         /\ loads' \subseteq [phone : Phones, key : Settings, value : {"on", "off"},
                              seen : SUBSET Reqs]
<1>1. \A x \in loads : x.seen \subseteq Reqs
  BY DEF RowsKnown
<1> QED BY <1>1 DEF RowsKnown, LoadsKnown

LEMMA BeginKeeps ==
  ASSUME RowsKnown, NEW r \in Reqs, NEW k \in Keys, NEW how, NEW values,
         NEW allowed \in BOOLEAN, NEW next \in {"insert", "recheck", "commit", "done"},
         Begin(r, k, how, values, allowed, next),
         Entitled(r, k, how, values, allowed, next)
  PROVE  RowsKnown'
<1> DEFINE s == IF allowed THEN next ELSE "refused"
           c == [key |-> k, how |-> how, values |-> values]
<1>1. /\ stage[r] = "new" /\ stage' = [stage EXCEPT ![r] = s]
      /\ call' = [call EXCEPT ![r] = c] /\ found' = [found EXCEPT ![r] = row[k]]
      /\ before' = [before EXCEPT ![r] = Ended]
      /\ row' = row /\ UNCHANGED showVars /\ untold' = untold
      /\ screen' = screen /\ missed' = missed /\ loads' = loads
  BY DEF Begin, Goto, showVars
<1>2. /\ DOMAIN row = Keys /\ \A l \in Keys : row[l] = NoRow \/ RowLike(l, row[l])
      /\ stage \in [Reqs -> Stages] /\ DOMAIN call = Reqs /\ DOMAIN found = Reqs
      /\ screen \in [Phones \X Settings -> {"on", "off"}]
      /\ missed \in [Phones \X Settings -> BOOLEAN]
      /\ untold \in [Reqs -> SUBSET Spouses] /\ before \in [Reqs -> SUBSET Reqs]
  BY DEF RowsKnown
<1>3. \A q \in Reqs : CallKnown(q)
  BY DEF RowsKnown
<1>4. s \in Stages /\ s # "new" /\ s # "tell" /\ s # "failed"
  BY DEF Stages
<1> HIDE DEF s
<1>5. /\ stage'[r] = s /\ call'[r] = c /\ found'[r] = row[k] /\ before'[r] = Ended
      /\ \A q \in Reqs \ {r} : /\ stage'[q] = stage[q] /\ call'[q] = call[q]
                               /\ found'[q] = found[q] /\ before'[q] = before[q]
  BY <1>1, <1>2
<1>6. Ended \subseteq Ended'
  BY <1>5, <1>1 DEF Ended
<1>7. \A l : Exists(l)' = Exists(l)
  BY <1>1 DEF Exists
<1>8. \A l, a : Now(l, a)' = Now(l, a)
  BY <1>1 DEF Now, Exists
<1>9. s \in {"insert", "recheck", "commit", "done"} => allowed /\ s = next
  BY DEF s
<1>10. CallKnown(r)'
  <2>1. before'[r] \subseteq Ended'
    BY <1>5, <1>6
  <2>2. c.key = k /\ c.how = how /\ c.values = values
    OBVIOUS
  <2>3. s = "commit" => RowLike(k, row[k])
    BY <1>9, <1>2 DEF Entitled, Exists
  <2>4. \A q \in Reqs \ {r} : call'[q].key = call[q].key
    BY <1>5
  <2>5. s = "insert" => Entitled(r, k, how, values, allowed, "insert")
    BY <1>9
  <2>6. s = "insert" =>
          /\ k \in Favourites => DOMAIN values = {"id"}
          /\ k \in Phrases \cup Items \cup Countdowns =>
               ~Exists(k)' /\ \A q \in Reqs \ {r} : call'[q].key = k => stage'[q] = "refused"
          /\ k \in Countdowns => k = <<"countdown", r>> /\ values = [date |-> r, by |-> By[r]]
    BY <2>4, <2>5, <1>7 DEF Entitled
  <2>7. s = "recheck" => k = Password
    BY <1>9 DEF Entitled
  <2>8. k \in Countdowns => Exists(k)' \/ k = <<"countdown", r>>
    BY <1>7 DEF Entitled
  <2>9. /\ DOMAIN values \subseteq Attributes(k)
        /\ k \in Settings \cup {Password} => DOMAIN values = {"value"}
        /\ how = "delete" => /\ k \in Phrases \cup Items \cup Favourites
                             /\ DOMAIN values = Attributes(k)
                             /\ \A a \in DOMAIN values : values[a] = Nothing
    BY DEF Entitled
  <2> HIDE DEF c
  <2> QED BY <2>1, <2>2, <2>3, <2>6, <2>7, <2>8, <2>9, <1>4, <1>5 DEF CallKnown, c
<1>11. ASSUME NEW q \in Reqs \ {r}
       PROVE  CallKnown(q)'
  <2>1. CallKnown(q) /\ stage'[q] = stage[q] /\ call'[q] = call[q]
        /\ found'[q] = found[q] /\ before'[q] = before[q]
    BY <1>3, <1>5
  <2>2. ASSUME stage[q] = "insert", call[q].key \in Phrases \cup Items \cup Countdowns,
               NEW x \in Reqs \ {q}, call'[x].key = call[q].key
        PROVE  stage'[x] = "refused"
    <3>1. CASE x = r
      <4>1. k = call[q].key
        BY <3>1, <2>2, <1>5
      <4>2. ~Exists(k)
        BY <4>1, <2>1, <2>2 DEF CallKnown
      <4>3. ~allowed
        BY <4>1, <4>2, <2>2 DEF Entitled
      <4> QED BY <4>3, <3>1, <1>5 DEF s
    <3>2. CASE x # r
      <4>1. call[x].key = call[q].key /\ stage'[x] = stage[x]
        BY <3>2, <2>2, <1>5
      <4> QED BY <4>1, <2>1, <2>2 DEF CallKnown
    <3> QED BY <3>1, <3>2
  <2> QED BY <2>1, <2>2, <1>6, <1>7 DEF CallKnown
<1>12. \A q \in Reqs : CallKnown(q)'
  BY <1>10, <1>11
\* The new request sets nothing yet, and has not found anything stale.
<1>13. ASSUME NEW l \in Keys, NEW a \in Attributes(l)
       PROVE  /\ r \notin Writers(l, a)
              /\ Writers(l, a)' \ {r} = Writers(l, a)
              /\ \A x \in Writers(l, a)' \ {r} :
                   /\ x \in Reqs /\ stage'[x] = stage[x] /\ found'[x] = found[x]
                   /\ before'[x] = before[x] /\ call'[x] = call[x]
              /\ r \in Writers(l, a)' =>
                   ~Through(r)' /\ (stage'[r] = "commit" => found'[r][a] = Now(l, a)')
  <2>1. r \notin Writers(l, a)
    BY <1>1 DEF Writers
  <2>2. Writers(l, a)' \ {r} = Writers(l, a)
    BY <2>1, <1>5 DEF Writers
  <2>3. ASSUME r \in Writers(l, a)'
        PROVE  ~Through(r)' /\ (stage'[r] = "commit" => found'[r][a] = Now(l, a)')
    <3>1. k = l /\ a \in DOMAIN values
      BY <2>3, <1>5 DEF Writers
    <3>2. s # "done"
      BY <3>1, <1>9 DEF Entitled
    <3>3. ~Through(r)'
      BY <3>2, <1>4, <1>5 DEF Through
    <3>4. s = "commit" => Exists(k)
      BY <1>9 DEF Entitled
    <3>5. s = "commit" => row[k][a] = Now(l, a)
      BY <3>1, <3>4 DEF Now
    <3> QED BY <3>3, <3>5, <1>5, <1>8
  <2>4. \A x \in Writers(l, a)' : x \in Reqs
    BY DEF Writers
  <2> QED BY <2>1, <2>2, <2>3, <2>4, <1>5
<1>14. ASSUME NEW l \in Keys, NEW a \in Attributes(l)
       PROVE  LastIsKnown(l, a)'
  <2>1. LastIsKnown(l, a)
    BY DEF RowsKnown
  <2>2. ASSUME NEW w \in Reqs, LastSet(w, l, a)
        PROVE  LastSet(w, l, a)'
    BY <2>2, <1>13, <1>8 DEF LastSet, Through
  <2>3. ASSUME \A x \in Writers(l, a) :
                 ~Through(x) /\ (stage[x] = "commit" => found[x][a] = Now(l, a))
        PROVE  \A x \in Writers(l, a)' :
                 ~Through(x)' /\ (stage'[x] = "commit" => found'[x][a] = Now(l, a)')
    BY <2>3, <1>13, <1>8 DEF Through
  <2> QED BY <2>1, <2>2, <2>3 DEF LastIsKnown
<1>15. ASSUME NEW l \in Settings
       PROVE  ScreensFollow(l)'
  <2>1. l \in Keys /\ "value" \in Attributes(l) /\ ScreensFollow(l)
    BY Tables DEF RowsKnown, Keys
  <2>2. SUFFICES ASSUME InTurn(l)'
        PROVE  WritersFollow(l)' /\ PhonesFollow(l)' /\ LoadsFollow(l)'
    BY DEF ScreensFollow
  <2>3. InTurn(l)
    BY <2>1, <2>2, <1>13 DEF InTurn
  <2>4. WritersFollow(l) /\ PhonesFollow(l) /\ LoadsFollow(l)
    BY <2>1, <2>3 DEF ScreensFollow
  <2>5. stage'[r] # "tell"
    BY <1>4, <1>5
  <2>6. WritersFollow(l)'
    BY <2>1, <2>4, <2>5, <1>13, <1>8 DEF WritersFollow
  <2>7. \A x \in Writers(l, "value") :
          x \in Writers(l, "value")' /\ stage'[x] = stage[x] /\ untold'[x] = untold[x]
    BY <2>1, <1>13, <1>1
  <2>8. PhonesFollow(l)'
    BY <2>4, <2>7, <1>8, <1>1 DEF PhonesFollow
  <2>9. Committed(l) \subseteq Committed(l)'
    BY <2>7 DEF Committed, Through
  <2>10. LoadsFollow(l)'
    BY <2>4, <2>9, <1>8, <1>1 DEF LoadsFollow
  <2> QED BY <2>6, <2>8, <2>10
<1>16. /\ DOMAIN row' = Keys /\ \A l \in Keys : row'[l] = NoRow \/ RowLike(l, row'[l])
       /\ stage' \in [Reqs -> Stages] /\ DOMAIN call' = Reqs /\ DOMAIN found' = Reqs
       /\ screen' \in [Phones \X Settings -> {"on", "off"}]
       /\ missed' \in [Phones \X Settings -> BOOLEAN]
       /\ untold' \in [Reqs -> SUBSET Spouses] /\ before' \in [Reqs -> SUBSET Reqs]
  <2>1. Ended \subseteq Reqs
    BY DEF Ended
  <2> QED BY <2>1, <1>1, <1>2, <1>4
<1>17. /\ (\A l \in Keys : row[l] = NoRow \/ RowLike(l, row[l]))'
       /\ (\A q \in Reqs : CallKnown(q))'
       /\ (\A l \in Keys : \A a \in Attributes(l) : LastIsKnown(l, a))'
       /\ (\A l \in Settings : ScreensFollow(l))'
  BY <1>12, <1>14, <1>15, <1>16
<1>18. /\ LoadsKnown'
       /\ loads' \subseteq [phone : Phones, key : Settings, value : {"on", "off"},
                            seen : SUBSET Reqs]
  BY <1>1, <1>5, LoadsStay
<1> QED BY <1>16, <1>17, <1>18 DEF RowsKnown

-----------------------------------------------------------------------------
(* A request writes its row, or fails to.                                  *)

\* What becomes of attribute a when r writes row k: r has set it; or it stays
\* as it was, and r set nothing, failed, goes on from what it finds, or had
\* found something else; or nobody has set it yet.
Accounted(r, k, a) ==
  \/ a \in DOMAIN call[r].values /\ Now(k, a)' = call[r].values[a]
  \/ /\ Now(k, a)' = Now(k, a)
     /\ \/ a \notin DOMAIN call[r].values
        \/ stage'[r] = "failed"
        \/ stage'[r] = "commit" /\ found'[r][a] = Now(k, a)
        \/ stage[r] = "commit" /\ stage'[r] # "commit" /\ found[r][a] # Now(k, a)
  \/ Writers(k, a) = {}

\* When r comes to write a setting, and all its changes came one after another,
\* all others are answered.
LEMMA LastInTurn ==
  ASSUME RowsKnown, NEW r \in Reqs, stage[r] \in {"recheck", "insert", "commit", "tell"},
         NEW k \in Settings, InTurn(k), NEW x \in Writers(k, "value"), x # r,
         r \in Writers(k, "value")
  PROVE  stage[x] = "done"
<1>1. x \in Reqs /\ stage[x] \notin {"new", "refused"} /\ stage[x] # "failed"
  BY DEF Writers, InTurn
<1>2. r \notin before[x]
  BY <1>1, ActiveNotBefore
<1>3. x \in before[r]
  BY <1>2 DEF InTurn
<1>4. x \in Ended
  BY <1>3 DEF RowsKnown, CallKnown
<1> QED BY <1>1, <1>4 DEF Ended

LEMMA WriteKeeps ==
  ASSUME RowsKnown, NEW r \in Reqs, NEW k, k = call[r].key,
         stage[r] \in {"insert", "commit"},
         NEW s \in {"commit", "tell", "done", "failed"}, stage' = [stage EXCEPT ![r] = s],
         NEW v, DOMAIN row' = Keys, row'[k] = v, \A l \in Keys \ {k} : row'[l] = row[l],
         v = NoRow \/ RowLike(k, v),
         v = NoRow => row[k] = NoRow \/ k \notin Countdowns,
         UNCHANGED <<call, showVars, before>>,
         DOMAIN found' = Reqs, \A q \in Reqs \ {r} : found'[q] = found[q],
         untold' \in [Reqs -> SUBSET Spouses], \A q \in Reqs \ {r} : untold'[q] = untold[q],
         s = "commit" => RowLike(k, found'[r]),
         s = "tell" => k \in Settings /\ untold'[r] = Spouses,
         k \in Settings => s \in {"tell", "failed"},
         \A a \in Attributes(k) : Accounted(r, k, a)
  PROVE  RowsKnown'
<1>1. /\ DOMAIN row = Keys /\ \A l \in Keys : row[l] = NoRow \/ RowLike(l, row[l])
      /\ stage \in [Reqs -> Stages] /\ DOMAIN call = Reqs /\ DOMAIN found = Reqs
      /\ screen \in [Phones \X Settings -> {"on", "off"}]
      /\ missed \in [Phones \X Settings -> BOOLEAN]
      /\ untold \in [Reqs -> SUBSET Spouses] /\ before \in [Reqs -> SUBSET Reqs]
  BY DEF RowsKnown
<1>2. \A q \in Reqs : CallKnown(q)
  BY DEF RowsKnown
<1>3. /\ k \in Keys /\ stage'[r] = s /\ row'[k] = v
      /\ \A l \in Keys \ {k} : row'[l] = row[l]
      /\ \A q \in Reqs \ {r} : stage'[q] = stage[q]
      /\ call' = call /\ before' = before
      /\ screen' = screen /\ missed' = missed /\ loads' = loads
  BY <1>1, <1>2 DEF CallKnown, showVars
<1>4. /\ k \in Settings \cup {Password} => DOMAIN call[r].values = {"value"}
      /\ DOMAIN call[r].values \subseteq Attributes(k)
  BY <1>2 DEF CallKnown
<1>5. Ended \subseteq Ended'
  BY <1>3 DEF Ended
<1>6. \A l \in Keys \ {k} : Exists(l)' = Exists(l) /\ \A a : Now(l, a)' = Now(l, a)
  BY <1>3 DEF Exists, Now
<1>7. CallKnown(r)'
  <2>1. CallKnown(r)
    BY <1>2
  <2>2. k \in Countdowns => Exists(k)' \/ k = <<"countdown", r>>
    BY <2>1, <1>3 DEF CallKnown, Exists
  <2> QED BY <2>1, <2>2, <1>3, <1>5 DEF CallKnown
<1>8. ASSUME NEW q \in Reqs \ {r}
      PROVE  CallKnown(q)'
  <2>1. CallKnown(q) /\ stage'[q] = stage[q] /\ call'[q] = call[q]
        /\ found'[q] = found[q] /\ before'[q] = before[q]
    BY <1>2, <1>3
  <2>2. ASSUME stage[q] = "insert", call[q].key \in Phrases \cup Items \cup Countdowns
        PROVE  ~Exists(call[q].key)'
               /\ \A x \in Reqs \ {q} : call[x].key = call[q].key => stage'[x] = "refused"
    <3>1. \A x \in Reqs \ {q} : call[x].key = call[q].key => stage[x] = "refused"
      BY <2>1, <2>2 DEF CallKnown
    <3>2. call[q].key # k
      BY <3>1
    <3>3. ~Exists(call[q].key) /\ call[q].key \in Keys
      BY <2>1, <2>2 DEF CallKnown
    <3>4. ~Exists(call[q].key)'
      BY <3>2, <3>3, <1>6
    <3> QED BY <3>1, <3>2, <3>4, <1>3
  <2>3. ASSUME stage[q] # "new", call[q].key \in Countdowns
        PROVE  Exists(call[q].key)' \/ call[q].key = <<"countdown", q>>
    <3>1. Exists(call[q].key) \/ call[q].key = <<"countdown", q>>
      BY <2>1, <2>3 DEF CallKnown
    <3>2. call[q].key \in Keys
      BY <2>3 DEF Keys
    <3> QED BY <3>1, <3>2, <2>3, <1>3, <1>6 DEF Exists
  <2>4. ASSUME stage[q] = "new"
        PROVE  ~Exists(<<"countdown", q>>)'
    <3>1. ~Exists(<<"countdown", q>>) /\ <<"countdown", q>> \in Keys
      BY <2>1, <2>4 DEF CallKnown, Keys, Countdowns
    <3>2. CASE k = <<"countdown", q>>
      <4>1. k \in Countdowns
        BY <3>2 DEF Countdowns
      <4>2. CallKnown(r) /\ ~Exists(k)
        BY <3>1, <3>2, <1>2
      <4>3. k = <<"countdown", r>>
        BY <4>1, <4>2 DEF CallKnown
      <4>4. q = r
        BY <3>2, <4>3
      <4> QED BY <4>4
    <3> QED BY <3>1, <3>2, <1>6
  <2> QED BY <2>1, <2>2, <2>3, <2>4, <1>3, <1>5 DEF CallKnown
<1>9. \A q \in Reqs : CallKnown(q)'
  BY <1>7, <1>8
<1>10. \A l, a : Writers(l, a)' = Writers(l, a) /\ Writers(l, a) \subseteq Reqs
  BY <1>3 DEF Writers
<1>11. \A l, a : l # k => r \notin Writers(l, a)
  BY DEF Writers
<1>12. ASSUME NEW x \in Reqs \ {r}
       PROVE  /\ stage'[x] = stage[x] /\ found'[x] = found[x] /\ untold'[x] = untold[x]
              /\ Through(x)' = Through(x)
  BY <1>3 DEF Through
<1>13. ASSUME NEW l \in Keys, NEW a \in Attributes(l)
       PROVE  LastIsKnown(l, a)'
  <2>0. LastIsKnown(l, a)
    BY DEF RowsKnown
  <2>1. CASE l # k \/ a \notin DOMAIN call[r].values
    <3>1. r \notin Writers(l, a)
      BY <2>1, <1>11 DEF Writers
    <3>2. CASE Writers(l, a) = {}
      BY <3>2, <1>10 DEF LastIsKnown
    <3>3. CASE Now(l, a)' = Now(l, a)
      <4>1. ASSUME NEW w \in Reqs, LastSet(w, l, a)
            PROVE  LastSet(w, l, a)'
        BY <4>1, <3>1, <3>3, <1>3, <1>10, <1>12 DEF LastSet
      <4> QED BY <4>1, <2>0, <3>1, <3>3, <1>10, <1>12 DEF LastIsKnown
    <3> QED BY <2>1, <3>2, <3>3, <1>6 DEF Accounted
  <2>2. CASE l = k /\ a \in DOMAIN call[r].values
    <3>1. r \in Writers(k, a)
      BY <2>2 DEF Writers
    <3>2. \A x \in Reqs : r \notin before[x]
      BY ActiveNotBefore
    <3>3. CASE Now(k, a)' = call[r].values[a]
      <4>1. LastSet(r, k, a)'
        BY <3>1, <3>2, <3>3, <1>3, <1>10 DEF LastSet
      <4> QED BY <4>1, <2>2 DEF LastIsKnown
    <3>4. CASE /\ Now(k, a)' = Now(k, a)
               /\ s = "failed" \/ (s = "commit" /\ found'[r][a] = Now(k, a))
      <4>1. ~Through(r)' /\ (stage'[r] = "commit" => found'[r][a] = Now(k, a)')
        BY <3>4, <1>3 DEF Through
      <4>2. ASSUME NEW w \in Reqs, LastSet(w, k, a)
            PROVE  LastSet(w, k, a)'
        BY <4>1, <4>2, <3>4, <1>3, <1>10, <1>12 DEF LastSet
      <4> QED BY <4>1, <4>2, <2>0, <2>2, <3>4, <1>10, <1>12 DEF LastIsKnown
    <3>5. CASE Now(k, a)' = Now(k, a) /\ stage[r] = "commit" /\ found[r][a] # Now(k, a)
      <4>1. PICK w \in Reqs : LastSet(w, k, a)
        BY <3>1, <3>5, <2>0, <2>2 DEF LastIsKnown
      <4>2. w \notin before[r]
        BY <4>1, <3>1, <3>5 DEF LastSet
      <4>3. LastSet(w, k, a)'
        BY <4>1, <4>2, <3>5, <1>3, <1>10, <1>12 DEF LastSet
      <4> QED BY <4>3, <2>2 DEF LastIsKnown
    <3> QED BY <3>1, <3>3, <3>4, <3>5, <2>2, <1>3 DEF Accounted
  <2> QED BY <2>1, <2>2
<1>14. ASSUME NEW l \in Settings
       PROVE  ScreensFollow(l)'
  <2>1. l \in Keys /\ "value" \in Attributes(l) /\ ScreensFollow(l)
    BY Tables DEF RowsKnown, Keys
  <2>2. SUFFICES ASSUME InTurn(l)'
        PROVE  WritersFollow(l)' /\ PhonesFollow(l)' /\ LoadsFollow(l)'
    BY DEF ScreensFollow
  <2>3. InTurn(l)
    <3>1. stage[r] # "failed"
      OBVIOUS
    <3> QED BY <3>1, <2>2, <1>3, <1>10 DEF InTurn
  <2>4. WritersFollow(l) /\ PhonesFollow(l) /\ LoadsFollow(l)
    BY <2>1, <2>3 DEF ScreensFollow
  <2>5. CASE l # k
    <3>1. r \notin Writers(l, "value") /\ Now(l, "value")' = Now(l, "value")
      BY <2>1, <2>5, <1>6, <1>11
    <3>2. \A x \in Writers(l, "value") :
            stage'[x] = stage[x] /\ found'[x] = found[x] /\ untold'[x] = untold[x]
            /\ Through(x)' = Through(x)
      BY <3>1, <1>10, <1>12
    <3>3. WritersFollow(l)'
      BY <3>1, <3>2, <2>4, <1>3, <1>10 DEF WritersFollow
    <3>4. PhonesFollow(l)'
      BY <3>1, <3>2, <2>4, <1>3, <1>10 DEF PhonesFollow
    <3>5. Committed(l)' = Committed(l)
      BY <3>2, <1>10 DEF Committed
    <3>6. LoadsFollow(l)'
      BY <3>1, <3>5, <2>4, <1>3 DEF LoadsFollow
    <3> QED BY <3>3, <3>4, <3>6
  <2>6. CASE l = k
    <3>1. r \in Writers(k, "value")
      BY <2>6, <1>4 DEF Writers
    <3>2. s = "tell" /\ untold'[r] = Spouses
      BY <3>1, <2>2, <2>6, <1>3, <1>10 DEF InTurn
    <3>3. \A x \in Writers(k, "value") : x # r => stage[x] = "done"
      BY <3>1, <2>3, <2>6, LastInTurn
    <3>4. Now(k, "value")' = call[r].values["value"]
      <4>1. Accounted(r, k, "value")
        BY <2>1, <2>6
      <4> QED BY <4>1, <3>1, <3>2, <2>4, <2>6, <1>3, <1>4 DEF Accounted, WritersFollow
    <3>5. \A x \in Writers(k, "value") : x # r => stage'[x] = "done"
      BY <3>3, <1>3, <1>10
    <3>6. WritersFollow(l)'
      BY <3>2, <3>4, <3>5, <2>6, <1>3, <1>10 DEF WritersFollow
    <3>7. PhonesFollow(l)'
      BY <3>1, <3>2, <2>6, <1>3, <1>10, SharedRowsAssumption DEF PhonesFollow
    \* Nothing read before has seen this change.
    <3>8. r \in Committed(l)' /\ \A x \in loads : r \notin x.seen
      BY <3>1, <3>2, <2>6, <1>3, <1>10 DEF Committed, Through, RowsKnown, LoadsKnown
    <3>9. LoadsFollow(l)'
      BY <3>8, <1>3 DEF LoadsFollow
    <3> QED BY <3>6, <3>7, <3>9
  <2> QED BY <2>5, <2>6
<1>15. /\ DOMAIN row' = Keys
       /\ stage' \in [Reqs -> Stages] /\ DOMAIN call' = Reqs /\ DOMAIN found' = Reqs
       /\ screen' \in [Phones \X Settings -> {"on", "off"}]
       /\ missed' \in [Phones \X Settings -> BOOLEAN]
       /\ untold' \in [Reqs -> SUBSET Spouses] /\ before' \in [Reqs -> SUBSET Reqs]
  BY <1>1, <1>3 DEF Stages
<1>16. /\ (\A l \in Keys : row[l] = NoRow \/ RowLike(l, row[l]))'
       /\ (\A q \in Reqs : CallKnown(q))'
       /\ (\A l \in Keys : \A a \in Attributes(l) : LastIsKnown(l, a))'
       /\ (\A l \in Settings : ScreensFollow(l))'
  <2>1. \A l \in Keys : row'[l] = NoRow \/ RowLike(l, row'[l])
    BY <1>1, <1>3
  <2> QED BY <2>1, <1>9, <1>13, <1>14
<1>17. /\ LoadsKnown'
       /\ loads' \subseteq [phone : Phones, key : Settings, value : {"on", "off"},
                            seen : SUBSET Reqs]
  BY <1>3, LoadsStay
<1> QED BY <1>15, <1>16, <1>17 DEF RowsKnown

-----------------------------------------------------------------------------
(* The admin password is looked for once more, and the spouses are told.   *)

LEMMA RecheckKeeps ==
  ASSUME RowsKnown, NEW r \in Reqs, Recheck(r)
  PROVE  RowsKnown'
<1> DEFINE s == IF Exists(Password) THEN "commit" ELSE "insert"
           h == IF Exists(Password) THEN "update" ELSE "insert"
<1>1. /\ DOMAIN row = Keys /\ \A l \in Keys : row[l] = NoRow \/ RowLike(l, row[l])
      /\ stage \in [Reqs -> Stages] /\ DOMAIN call = Reqs /\ DOMAIN found = Reqs
      /\ screen \in [Phones \X Settings -> {"on", "off"}]
      /\ missed \in [Phones \X Settings -> BOOLEAN]
      /\ untold \in [Reqs -> SUBSET Spouses] /\ before \in [Reqs -> SUBSET Reqs]
  BY DEF RowsKnown
<1>2. \A q \in Reqs : CallKnown(q)
  BY DEF RowsKnown
<1>3. /\ stage[r] = "recheck" /\ stage' = [stage EXCEPT ![r] = s]
      /\ found' = [found EXCEPT ![r] = row[Password]]
      /\ call' = [call EXCEPT ![r].how = h]
      /\ row' = row /\ untold' = untold /\ before' = before
      /\ screen' = screen /\ missed' = missed /\ loads' = loads
  BY DEF Recheck, Goto, showVars
<1>4. call[r].key = Password /\ Password \in Keys /\ Attributes(Password) = {"value"}
  BY <1>2, <1>3, Tables DEF CallKnown, Keys
<1>5. call[r] = [key |-> Password, how |-> call[r].how, values |-> call[r].values]
  BY <1>2, <1>3, <1>4 DEF CallKnown
<1>6. call'[r] = [call[r] EXCEPT !.how = h]
  BY <1>1, <1>3
<1>7. call'[r] = [key |-> Password, how |-> h, values |-> call[r].values]
  BY <1>5, <1>6
<1>8. /\ stage'[r] = s /\ found'[r] = row[Password]
      /\ call'[r].key = call[r].key /\ call'[r].values = call[r].values /\ call'[r].how = h
      /\ \A q \in Reqs \ {r} : /\ stage'[q] = stage[q] /\ found'[q] = found[q]
                               /\ call'[q] = call[q]
  BY <1>1, <1>3, <1>4, <1>7
<1>9. \A q \in Reqs : call'[q].key = call[q].key /\ call'[q].values = call[q].values
  BY <1>8
<1>10. Ended' = Ended
  BY <1>3, <1>8 DEF Ended
<1>11. s \in {"insert", "commit"} /\ h # "delete"
  OBVIOUS
<1>12. s = "commit" => RowLike(Password, row[Password]) /\ Exists(Password)
  BY <1>1, <1>4 DEF Exists
<1>13. Password \notin Favourites \cup Phrases \cup Items \cup Countdowns
  BY TablesAssumption
<1> HIDE DEF s, h
<1>14. CallKnown(r)'
  <2>1. CallKnown(r)
    BY <1>2
  <2> QED BY <2>1, <1>3, <1>4, <1>7, <1>8, <1>10, <1>11, <1>12, <1>13 DEF CallKnown
<1>15. ASSUME NEW q \in Reqs \ {r}
       PROVE  CallKnown(q)'
  <2>1. CallKnown(q) /\ stage'[q] = stage[q] /\ call'[q] = call[q] /\ found'[q] = found[q]
    BY <1>2, <1>8
  <2>2. \A l : Exists(l)' = Exists(l)
    BY <1>3 DEF Exists
  <2>3. \A x \in Reqs : call'[x].key \in Phrases \cup Items \cup Countdowns =>
                          x # r /\ stage'[x] = stage[x]
    BY <1>4, <1>8, <1>9, <1>13
  <2> QED BY <2>1, <2>2, <2>3, <1>3, <1>9, <1>10 DEF CallKnown
<1>16. \A q \in Reqs : CallKnown(q)'
  BY <1>14, <1>15
<1>17. \A l, a : Now(l, a)' = Now(l, a)
  BY <1>3 DEF Now, Exists
<1>18. \A l, a : Writers(l, a)' = Writers(l, a) /\ Writers(l, a) \subseteq Reqs
  BY <1>3, <1>8, <1>9, <1>11 DEF Writers
<1>19. \A x \in Reqs : Through(x)' = Through(x)
  BY <1>3, <1>8, <1>11 DEF Through
<1>20. ASSUME NEW l, NEW a, r \in Writers(l, a), s = "commit"
       PROVE  found'[r][a] = Now(l, a)
  BY <1>20, <1>4, <1>8, <1>12 DEF Writers, Now
<1>21. ASSUME NEW l, NEW a, NEW x \in Writers(l, a)
       PROVE  /\ stage'[x] = "commit" => found'[x][a] = Now(l, a)'
                                         \/ (stage[x] = "commit" /\ found'[x][a] = found[x][a])
              /\ stage'[x] = "tell" => stage[x] = "tell"
              /\ stage[x] = "tell" => stage'[x] = "tell"
              /\ stage'[x] = "failed" => stage[x] = "failed"
  <2>1. x \in Reqs
    BY <1>18
  <2>2. CASE x = r
    <3>1. r \in Writers(l, a) /\ Now(l, a)' = Now(l, a)
      BY <2>2, <1>17
    <3>2. s = "commit" => found'[r][a] = Now(l, a)
      BY <3>1, <1>20
    <3>3. stage'[r] = s /\ stage[r] = "recheck"
      BY <1>3, <1>8
    <3> QED BY <2>2, <3>1, <3>2, <3>3, <1>11
  <2>3. CASE x # r
    BY <2>1, <2>3, <1>8
  <2> QED BY <2>2, <2>3
<1>22. ASSUME NEW l \in Keys, NEW a \in Attributes(l)
       PROVE  LastIsKnown(l, a)'
  <2>1. LastIsKnown(l, a)
    BY DEF RowsKnown
  <2>2. ASSUME NEW w \in Reqs, LastSet(w, l, a)
        PROVE  LastSet(w, l, a)'
    BY <2>2, <1>3, <1>9, <1>17, <1>18, <1>19, <1>21 DEF LastSet
  <2> QED BY <2>1, <2>2, <1>17, <1>18, <1>19, <1>21 DEF LastIsKnown
<1>23. ASSUME NEW l \in Settings
       PROVE  ScreensFollow(l)'
  <2>1. ScreensFollow(l)
    BY DEF RowsKnown
  <2>2. InTurn(l)' => InTurn(l)
    <3>1. \A x \in Writers(l, "value") : stage[x] = "failed" => stage'[x] = "failed"
      BY <1>3, <1>8, <1>18
    <3> QED BY <3>1, <1>3, <1>18 DEF InTurn
  <2>3. WritersFollow(l) => WritersFollow(l)'
    BY <1>9, <1>17, <1>18, <1>21 DEF WritersFollow
  <2>4. PhonesFollow(l) => PhonesFollow(l)'
    BY <1>3, <1>17, <1>18, <1>21 DEF PhonesFollow
  <2>5. Committed(l)' = Committed(l)
    BY <1>18, <1>19 DEF Committed
  <2>6. LoadsFollow(l) => LoadsFollow(l)'
    BY <2>5, <1>3, <1>17 DEF LoadsFollow
  <2> QED BY <2>1, <2>2, <2>3, <2>4, <2>6 DEF ScreensFollow
<1>24. /\ DOMAIN row' = Keys /\ \A l \in Keys : row'[l] = NoRow \/ RowLike(l, row'[l])
       /\ stage' \in [Reqs -> Stages] /\ DOMAIN call' = Reqs /\ DOMAIN found' = Reqs
       /\ screen' \in [Phones \X Settings -> {"on", "off"}]
       /\ missed' \in [Phones \X Settings -> BOOLEAN]
       /\ untold' \in [Reqs -> SUBSET Spouses] /\ before' \in [Reqs -> SUBSET Reqs]
  BY <1>1, <1>3, <1>11 DEF Stages
<1>25. /\ (\A l \in Keys : row[l] = NoRow \/ RowLike(l, row[l]))'
       /\ (\A q \in Reqs : CallKnown(q))'
       /\ (\A l \in Keys : \A a \in Attributes(l) : LastIsKnown(l, a))'
       /\ (\A l \in Settings : ScreensFollow(l))'
  BY <1>24, <1>16, <1>22, <1>23
<1>26. /\ LoadsKnown'
       /\ loads' \subseteq [phone : Phones, key : Settings, value : {"on", "off"},
                            seen : SUBSET Reqs]
  BY <1>3, <1>8, LoadsStay
<1> QED BY <1>24, <1>25, <1>26 DEF RowsKnown

LEMMA TellKeeps ==
  ASSUME RowsKnown, NEW r \in Reqs, NEW sp \in Spouses, Tell(r, sp)
  PROVE  RowsKnown'
<1> DEFINE k == call[r].key
<1>1. /\ DOMAIN row = Keys /\ \A l \in Keys : row[l] = NoRow \/ RowLike(l, row[l])
      /\ stage \in [Reqs -> Stages] /\ DOMAIN call = Reqs /\ DOMAIN found = Reqs
      /\ screen \in [Phones \X Settings -> {"on", "off"}]
      /\ missed \in [Phones \X Settings -> BOOLEAN]
      /\ untold \in [Reqs -> SUBSET Spouses] /\ before \in [Reqs -> SUBSET Reqs]
  BY DEF RowsKnown
<1>2. \A q \in Reqs : CallKnown(q)
  BY DEF RowsKnown
<1>3. stage[r] = "tell" /\ sp \in untold[r]
      /\ row' = row /\ call' = call /\ found' = found /\ before' = before /\ loads' = loads
  BY DEF Tell
<1>4. k \in Settings /\ DOMAIN call[r].values = {"value"}
  BY <1>2, <1>3 DEF CallKnown
<1>5. PICK s \in {"tell", "done", "failed"} : stage' = [stage EXCEPT ![r] = s]
  BY DEF Tell, Goto
<1>6. /\ stage'[r] = s /\ \A q \in Reqs \ {r} : stage'[q] = stage[q]
  BY <1>1, <1>5
<1> DEFINE hers == {p \in Phones : Owner[p] = sp}
           Told(reached) ==
             /\ screen' = [c \in Phones \X Settings |->
                  IF c[1] \in reached /\ c[2] = k THEN Shown(call[r].values["value"])
                  ELSE screen[c]]
             /\ missed' = [c \in Phones \X Settings |->
                  IF c[1] \in hers /\ c[2] = k THEN c[1] \notin reached ELSE missed[c]]
<1>7. \/ /\ \E reached \in SUBSET hers : Told(reached)
         /\ untold' = [untold EXCEPT ![r] = untold[r] \ {sp}]
         /\ s = IF untold'[r] = {} THEN "done" ELSE "tell"
      \/ s = "failed" /\ screen' = screen /\ missed' = missed /\ untold' = untold
  <2>1. CASE /\ \E reached \in SUBSET hers : Told(reached)
             /\ untold' = [untold EXCEPT ![r] = untold[r] \ {sp}]
             /\ Goto(r, IF untold'[r] = {} THEN "done" ELSE "tell")
    <3>1. stage'[r] = IF untold'[r] = {} THEN "done" ELSE "tell"
      BY <2>1, <1>1 DEF Goto
    <3> QED BY <2>1, <3>1, <1>6
  <2>2. CASE Goto(r, "failed") /\ UNCHANGED <<screen, missed, untold>>
    <3>1. stage'[r] = "failed"
      BY <2>2, <1>1 DEF Goto
    <3> QED BY <2>2, <3>1, <1>6
  <2> QED BY <2>1, <2>2 DEF Tell
<1>8. /\ screen' \in [Phones \X Settings -> {"on", "off"}]
      /\ missed' \in [Phones \X Settings -> BOOLEAN]
      /\ untold' \in [Reqs -> SUBSET Spouses]
      /\ \A q \in Reqs \ {r} : untold'[q] = untold[q]
  BY <1>1, <1>7 DEF Shown, Told
<1>9. Ended \subseteq Ended'
  BY <1>3, <1>6 DEF Ended
<1>10. \A l, a : Now(l, a)' = Now(l, a)
  BY <1>3 DEF Now, Exists
<1>11. \A l, a : Writers(l, a)' = Writers(l, a) /\ Writers(l, a) \subseteq Reqs
  BY <1>3, <1>6 DEF Writers
<1>12. \A x \in Reqs : Through(x)' => Through(x)
  BY <1>3, <1>6 DEF Through
<1> HIDE DEF k, hers, Told
<1>13. \A q \in Reqs : CallKnown(q)'
  <2> SUFFICES ASSUME NEW q \in Reqs PROVE CallKnown(q)'
    OBVIOUS
  <2>1. CallKnown(q) /\ \A l : Exists(l)' = Exists(l)
    BY <1>2, <1>3 DEF Exists
  <2>2. /\ stage'[q] = stage[q] \/ (stage[q] = "tell" /\ stage'[q] \in {"tell", "done", "failed"})
        /\ \A x \in Reqs : stage[x] = "refused" => stage'[x] = "refused"
    BY <1>3, <1>6
  <2> QED BY <2>1, <2>2, <1>3, <1>9 DEF CallKnown
<1>14. ASSUME NEW l \in Keys, NEW a \in Attributes(l)
       PROVE  LastIsKnown(l, a)'
  <2>1. LastIsKnown(l, a)
    BY DEF RowsKnown
  <2>2. \A x \in Reqs : stage'[x] = "commit" => stage[x] = "commit"
    BY <1>6
  <2>3. ASSUME NEW w \in Reqs, LastSet(w, l, a)
        PROVE  LastSet(w, l, a)'
    BY <2>2, <2>3, <1>3, <1>10, <1>11, <1>12 DEF LastSet
  <2> QED BY <2>1, <2>2, <2>3, <1>3, <1>10, <1>11, <1>12 DEF LastIsKnown
<1>15. ASSUME NEW l \in Settings
       PROVE  ScreensFollow(l)'
  <2>1. ScreensFollow(l)
    BY DEF RowsKnown
  <2>2. SUFFICES ASSUME InTurn(l)'
        PROVE  WritersFollow(l)' /\ PhonesFollow(l)' /\ LoadsFollow(l)'
    BY DEF ScreensFollow
  <2>3. InTurn(l)
    <3>1. \A x \in Reqs : stage[x] = "failed" => stage'[x] = "failed"
      BY <1>3, <1>6
    <3> QED BY <3>1, <2>2, <1>3, <1>11 DEF InTurn
  <2>4. WritersFollow(l) /\ PhonesFollow(l) /\ LoadsFollow(l)
    BY <2>1, <2>3 DEF ScreensFollow
  <2>5. WritersFollow(l)'
    BY <2>4, <1>3, <1>6, <1>10, <1>11 DEF WritersFollow
  <2>6. Committed(l) \subseteq Committed(l)'
    <3>1. \A x \in Writers(l, "value") : stage'[x] # "failed"
      BY <2>2, <1>11 DEF InTurn
    <3>2. \A x \in Writers(l, "value") : Through(x) => Through(x)'
      BY <3>1, <1>5, <1>6, <1>11 DEF Through
    <3> QED BY <3>2, <1>11 DEF Committed
  <2>7. LoadsFollow(l)'
    BY <2>4, <2>6, <1>3, <1>10 DEF LoadsFollow
  <2>8. CASE l # k
    <3>1. r \notin Writers(l, "value")
      BY <2>8 DEF Writers, k
    <3>2. \A p \in Phones : screen'[<<p, l>>] = screen[<<p, l>>] /\ missed'[<<p, l>>] = missed[<<p, l>>]
      BY <2>8, <1>1, <1>7 DEF Told, hers
    <3>3. \A x \in Writers(l, "value") : stage'[x] = stage[x] /\ untold'[x] = untold[x]
      BY <3>1, <1>6, <1>8, <1>11
    <3>4. PhonesFollow(l)'
      BY <3>2, <3>3, <2>4, <1>10, <1>11 DEF PhonesFollow
    <3> QED BY <3>4, <2>5, <2>7
  <2>9. CASE l = k
    <3>1. r \in Writers(k, "value")
      BY <1>3, <1>4 DEF Writers, k
    <3>2. s # "failed"
      BY <2>2, <2>9, <3>1, <1>6, <1>11 DEF InTurn
    <3>3. \A x \in Writers(k, "value") : x # r => stage[x] = "done"
      BY <3>1, <2>3, <2>9, <1>3, LastInTurn
    <3>4. call[r].values["value"] = Now(k, "value")
      BY <2>4, <2>9, <3>1, <1>3 DEF WritersFollow
    <3>5. PICK reached \in SUBSET hers : Told(reached)
      BY <3>2, <1>7
    <3>6. ASSUME NEW p \in Phones
          PROVE  \/ missed'[<<p, l>>] \/ screen'[<<p, l>>] = Shown(Now(l, "value"))'
                 \/ \E x \in Writers(l, "value")' : stage'[x] = "tell" /\ Owner[p] \in untold'[x]
      <4>1. <<p, k>> \in Phones \X Settings
        BY <1>4 DEF k
      <4>2. CASE p \in reached
        <5>1. screen'[<<p, k>>] = Shown(call[r].values["value"])
          BY <4>1, <4>2, <3>5 DEF Told, hers
        <5> QED BY <5>1, <3>4, <2>9, <1>10
      <4>3. CASE p \in hers \ reached
        <5>1. missed'[<<p, k>>]
          BY <4>1, <4>3, <3>5 DEF Told
        <5> QED BY <5>1, <2>9
      <4>4. CASE p \notin hers
        <5>1. screen'[<<p, k>>] = screen[<<p, k>>] /\ missed'[<<p, k>>] = missed[<<p, k>>]
          BY <4>1, <4>4, <3>5 DEF Told, hers
        <5>2. Owner[p] # sp
          BY <4>4 DEF hers
        <5>3. CASE Owner[p] \in untold[r]
          <6>1. Owner[p] \in untold'[r] /\ s = "tell"
            BY <5>2, <5>3, <3>2, <1>1, <1>7
          <6> QED BY <6>1, <3>1, <2>9, <1>6, <1>11
        <5>4. \/ missed[<<p, k>>] \/ screen[<<p, k>>] = Shown(Now(k, "value"))
              \/ Owner[p] \in untold[r]
          BY <2>4, <2>9, <3>3 DEF PhonesFollow
        <5> QED BY <5>1, <5>3, <5>4, <2>9, <1>10
      <4> QED BY <4>2, <4>3, <4>4
    <3>7. PhonesFollow(l)'
      BY <3>6 DEF PhonesFollow
    <3> QED BY <3>7, <2>5, <2>7
  <2> QED BY <2>8, <2>9
<1>16. /\ DOMAIN row' = Keys /\ \A l \in Keys : row'[l] = NoRow \/ RowLike(l, row'[l])
       /\ stage' \in [Reqs -> Stages] /\ DOMAIN call' = Reqs /\ DOMAIN found' = Reqs
       /\ untold' \in [Reqs -> SUBSET Spouses] /\ before' \in [Reqs -> SUBSET Reqs]
  BY <1>1, <1>3, <1>5, <1>8 DEF Stages
<1>17. /\ (\A l \in Keys : row[l] = NoRow \/ RowLike(l, row[l]))'
       /\ (\A q \in Reqs : CallKnown(q))'
       /\ (\A l \in Keys : \A a \in Attributes(l) : LastIsKnown(l, a))'
       /\ (\A l \in Settings : ScreensFollow(l))'
  BY <1>16, <1>13, <1>14, <1>15
<1>18. /\ LoadsKnown'
       /\ loads' \subseteq [phone : Phones, key : Settings, value : {"on", "off"},
                            seen : SUBSET Reqs]
  BY <1>3, <1>5, <1>6, LoadsStay
<1> QED BY <1>8, <1>16, <1>17, <1>18 DEF RowsKnown

-----------------------------------------------------------------------------
(* Each operation is one of those.                                         *)

LEMMA StartKeeps ==
  ASSUME RowsKnown, NEW r \in Reqs, Start(r)
  PROVE  RowsKnown'
<1>0. /\ Phrases \subseteq Keys /\ Items \subseteq Keys /\ Profiles \subseteq Keys
      /\ Settings \subseteq Keys /\ Password \in Keys
      /\ Favourites \subseteq Keys /\ Countdowns \subseteq Keys
      /\ By[r] \in Spouses
  BY SharedRowsAssumption DEF Keys
<1>1. ASSUME NEW k \in Phrases, CreatePhrase(r, k)
      PROVE  RowsKnown'
  <2>1. Begin(r, k, "insert", [a \in {"text"} |-> r], TRUE, "insert")
    BY <1>1 DEF CreatePhrase
  <2>2. k \notin Settings \cup {Password} /\ k \notin Favourites /\ k \notin Countdowns
    BY TablesAssumption
  <2>3. Entitled(r, k, "insert", [a \in {"text"} |-> r], TRUE, "insert")
    BY <1>1, <2>2, Tables DEF Entitled, CreatePhrase, Fresh
  <2> QED BY <2>1, <2>3, <1>0, BeginKeeps
<1>2. ASSUME NEW k \in Phrases, EditPhrase(r, k)
      PROVE  RowsKnown'
  <2> DEFINE v == [a \in Attributes(k) |-> IF a = "text" THEN r ELSE Nothing]
             ok == Exists(k) /\ Own(r, k)
  <2>1. Begin(r, k, "update", v, ok, "commit") /\ ok \in BOOLEAN
    BY <1>2 DEF EditPhrase, Exists, Own
  <2>2. k \notin Settings \cup {Password} /\ k \notin Favourites /\ k \notin Countdowns
    BY TablesAssumption
  <2>3. Entitled(r, k, "update", v, ok, "commit")
    BY <2>2 DEF Entitled
  <2> QED BY <2>1, <2>3, <1>0, BeginKeeps
<1>3. ASSUME NEW k \in Phrases, DeletePhrase(r, k)
      PROVE  RowsKnown'
  <2> DEFINE v == [a \in Attributes(k) |-> Nothing]
             ok == Exists(k) /\ Own(r, k)
  <2>1. Begin(r, k, "delete", v, ok, "commit") /\ ok \in BOOLEAN
    BY <1>3 DEF DeletePhrase, Exists, Own
  <2>2. k \notin Settings \cup {Password} /\ k \notin Favourites /\ k \notin Countdowns
    BY TablesAssumption
  <2>3. Entitled(r, k, "delete", v, ok, "commit")
    BY <2>2 DEF Entitled
  <2> QED BY <2>1, <2>3, <1>0, BeginKeeps
<1>4. ASSUME NEW k \in Phrases, NEW n \in Ratings, RatePhrase(r, k, n)
      PROVE  RowsKnown'
  <2> DEFINE v == [a \in {By[r]} |-> n]
             ok == Exists(k)
  <2>1. Begin(r, k, "update", v, ok, "commit") /\ ok \in BOOLEAN
    BY <1>4 DEF RatePhrase, Exists
  <2>2. k \notin Settings \cup {Password} /\ k \notin Favourites /\ k \notin Countdowns
    BY TablesAssumption
  <2>3. Entitled(r, k, "update", v, ok, "commit")
    BY <2>2, <1>0, Tables DEF Entitled
  <2> QED BY <2>1, <2>3, <1>0, BeginKeeps
<1>5. ASSUME NEW k \in Items, CreateItem(r, k)
      PROVE  RowsKnown'
  <2>1. Begin(r, k, "insert", [text |-> r], TRUE, "insert")
    BY <1>5 DEF CreateItem
  <2>2. k \notin Settings \cup {Password} /\ k \notin Favourites /\ k \notin Countdowns
    BY TablesAssumption
  <2>3. Entitled(r, k, "insert", [text |-> r], TRUE, "insert")
    BY <1>5, <2>2, Tables DEF Entitled, CreateItem, Fresh
  <2> QED BY <2>1, <2>3, <1>0, BeginKeeps
<1>6. ASSUME NEW k \in Items, DeleteItem(r, k)
      PROVE  RowsKnown'
  <2> DEFINE v == [a \in Attributes(k) |-> Nothing]
             ok == Exists(k) /\ Own(r, k)
  <2>1. Begin(r, k, "delete", v, ok, "commit") /\ ok \in BOOLEAN
    BY <1>6 DEF DeleteItem, Exists, Own
  <2>2. k \notin Settings \cup {Password} /\ k \notin Favourites /\ k \notin Countdowns
    BY TablesAssumption
  <2>3. Entitled(r, k, "delete", v, ok, "commit")
    BY <2>2 DEF Entitled
  <2> QED BY <2>1, <2>3, <1>0, BeginKeeps
<1>7. ASSUME NEW k \in Items, NEW v, DOMAIN v \subseteq {"text", "fulfilled"},
             UpdateItem(r, k, v)
      PROVE  RowsKnown'
  <2> DEFINE ok == Exists(k) /\ Own(r, k)
  <2>1. Begin(r, k, "update", v, ok, "commit") /\ ok \in BOOLEAN
    BY <1>7 DEF UpdateItem, Exists, Own
  <2>2. k \notin Settings \cup {Password} /\ k \notin Favourites /\ k \notin Countdowns
    BY TablesAssumption
  <2>3. Entitled(r, k, "update", v, ok, "commit")
    BY <1>7, <2>2, Tables DEF Entitled
  <2> QED BY <2>1, <2>3, <1>0, BeginKeeps
<1>8. ASSUME NEW k \in Profiles, GetProfile(r, k)
      PROVE  RowsKnown'
  <2> DEFINE next == IF Exists(k) THEN "done" ELSE "insert"
  <2>1. Begin(r, k, "update", << >>, TRUE, next) /\ next \in {"done", "insert"}
    BY <1>8 DEF GetProfile
  <2>2. /\ k \notin Settings \cup {Password} /\ k \notin Favourites /\ k \notin Countdowns
        /\ k \notin Phrases \cup Items
    BY TablesAssumption, Tables
  <2> HIDE DEF next
  <2>3. DOMAIN << >> = {}
    OBVIOUS
  <2>4. Entitled(r, k, "update", << >>, TRUE, next)
    BY <2>1, <2>2, <2>3 DEF Entitled
  <2> QED BY <2>1, <2>4, <1>0, BeginKeeps
<1>9. ASSUME NEW k \in Profiles, NEW f \in SUBSET {"name", "bio"}, UpdateProfile(r, k, f)
      PROVE  RowsKnown'
  <2> DEFINE next == IF Exists(k) THEN "commit" ELSE "insert"
             v == [a \in f |-> r]
  <2>1. Begin(r, k, "update", v, TRUE, next) /\ next \in {"commit", "insert"}
        /\ (next = "commit" => Exists(k))
    BY <1>9 DEF UpdateProfile
  <2>2. /\ k \notin Settings \cup {Password} /\ k \notin Favourites /\ k \notin Countdowns
        /\ k \notin Phrases \cup Items
    BY TablesAssumption, Tables
  <2> HIDE DEF next
  <2>3. Entitled(r, k, "update", v, TRUE, next)
    BY <2>1, <2>2, Tables DEF Entitled
  <2> QED BY <2>1, <2>3, <1>0, BeginKeeps
<1>10. ASSUME NEW k \in Settings, NEW b \in {"on", "off"}, SetSetting(r, k, b)
       PROVE  RowsKnown'
  <2> DEFINE next == IF Exists(k) THEN "commit" ELSE "insert"
             how == IF Exists(k) THEN "update" ELSE "insert"
             v == [value |-> b]
  <2>1. Begin(r, k, how, v, TRUE, next) /\ next \in {"commit", "insert"}
        /\ (next = "commit" => Exists(k)) /\ how # "delete"
    BY <1>10 DEF SetSetting
  <2>2. /\ k \notin Favourites /\ k \notin Countdowns /\ k \notin Phrases \cup Items
    BY TablesAssumption, Tables
  <2> HIDE DEF next, how
  <2>3. Entitled(r, k, how, v, TRUE, next)
    BY <2>1, <2>2, Tables DEF Entitled
  <2> QED BY <2>1, <2>3, <1>0, BeginKeeps
<1>11. ASSUME ToggleFavorite(r)
       PROVE  RowsKnown'
  <2> DEFINE k == <<"favourite", By[r]>>
             next == IF Exists(k) THEN "commit" ELSE "insert"
             how == IF Exists(k) THEN "delete" ELSE "insert"
             v == [id |-> IF Exists(k) THEN Nothing ELSE r]
  <2>1. Begin(r, k, how, v, TRUE, next) /\ next \in {"commit", "insert"}
        /\ (next = "commit" => Exists(k)) /\ (how = "delete" => Exists(k))
    BY <1>11 DEF ToggleFavorite
  <2>2. k \in Favourites
    BY <1>0 DEF Favourites
  <2>3. /\ k \notin Countdowns /\ k \notin Phrases \cup Items /\ k \notin Settings \cup {Password}
    BY <2>2, TablesAssumption, Tables
  <2>4. DOMAIN v = {"id"} /\ (how = "delete" => \A a \in DOMAIN v : v[a] = Nothing)
    BY <2>1
  <2> HIDE DEF next, how, v, k
  <2>5. Entitled(r, k, how, v, TRUE, next)
    BY <2>1, <2>2, <2>3, <2>4, Tables DEF Entitled
  <2> QED BY <2>1, <2>2, <2>5, <1>0, BeginKeeps
<1>12. ASSUME SetCountdown(r)
       PROVE  RowsKnown'
  <2> DEFINE newest == {k \in Stamped : \A l \in Stamped : row[l].stamp <= row[k].stamp}
  <2>1. CASE newest = {}
    <3> DEFINE k == <<"countdown", r>>
               v == [date |-> r, by |-> By[r]]
    <3>1. Begin(r, k, "insert", v, TRUE, "insert")
      BY <1>12, <2>1 DEF SetCountdown
    <3>2. k \in Countdowns
      BY DEF Countdowns
    <3>3. k \notin Settings \cup {Password} /\ k \notin Favourites
      BY <3>2, TablesAssumption, Tables
    <3>4. ~Exists(k)
      BY <3>1 DEF Begin, RowsKnown, CallKnown
    <3>5. ASSUME NEW q \in Reqs, call[q].key = k
          PROVE  FALSE
      <4>1. CallKnown(q) /\ stage[r] = "new"
        BY <3>1 DEF Begin, RowsKnown
      <4>2. CASE stage[q] = "new"
        <5>1. call[q].key = Nothing
          BY <4>1, <4>2 DEF CallKnown, NoCall
        <5> QED BY <5>1, <3>5, <3>2, TablesAssumption DEF Keys
      <4>3. CASE stage[q] # "new"
        <5>1. Exists(k) \/ k = <<"countdown", q>>
          BY <4>1, <4>3, <3>2, <3>5 DEF CallKnown
        <5>2. q = r
          BY <5>1, <3>4
        <5> QED BY <5>2, <4>1, <4>3
      <4> QED BY <4>2, <4>3
    <3>6. \A q \in Reqs : call[q].key # k
      BY <3>5
    <3>7. k = <<"countdown", r>> /\ v = [date |-> r, by |-> By[r]] /\ DOMAIN v \subseteq {"date", "by", "stamp"}
      OBVIOUS
    <3> HIDE DEF k, v
    <3>8. Entitled(r, k, "insert", v, TRUE, "insert")
      BY <3>2, <3>3, <3>4, <3>6, <3>7, Tables DEF Entitled
    <3> QED BY <3>1, <3>2, <3>8, <1>0, BeginKeeps
  <2>2. CASE newest # {}
    <3> DEFINE v == [date |-> r, by |-> By[r], stamp |-> Clock]
    <3>1. PICK k \in newest : Begin(r, k, "update", v, TRUE, "commit")
      BY <1>12, <2>2 DEF SetCountdown
    <3>2. k \in Countdowns /\ Exists(k)
      BY <3>1 DEF Stamped
    <3>3. k \notin Settings \cup {Password} /\ k \notin Favourites
      BY <3>2, TablesAssumption, Tables
    <3>4. DOMAIN v = {"date", "by", "stamp"}
      OBVIOUS
    <3> HIDE DEF v
    <3>5. Entitled(r, k, "update", v, TRUE, "commit")
      BY <3>2, <3>3, <3>4, Tables DEF Entitled
    <3> QED BY <3>1, <3>2, <3>5, <1>0, BeginKeeps
  <2> QED BY <2>1, <2>2
<1>13. ASSUME FirstRun(r)
       PROVE  RowsKnown'
  <2> DEFINE v == [value |-> r]
  <2>1. Begin(r, Password, "update", v, ~Exists(Password), "recheck")
        /\ (~Exists(Password)) \in BOOLEAN
    BY <1>13 DEF FirstRun, Exists
  <2>2. /\ Password \notin Favourites /\ Password \notin Countdowns
        /\ Password \notin Phrases \cup Items
    BY TablesAssumption
  <2>3. Entitled(r, Password, "update", v, ~Exists(Password), "recheck")
    BY <2>2, Tables DEF Entitled
  <2> QED BY <2>1, <2>3, <1>0, BeginKeeps
<1>14. DOMAIN [text |-> r] \subseteq {"text", "fulfilled"}
       /\ \A b : DOMAIN [fulfilled |-> b] \subseteq {"text", "fulfilled"}
  OBVIOUS
<1> QED BY <1>1, <1>2, <1>3, <1>4, <1>5, <1>6, <1>7, <1>8, <1>9, <1>10, <1>11, <1>12, <1>13, <1>14
        DEF Start
LEMMA AfterCommitTells ==
  ASSUME RowsKnown, NEW r \in Reqs, AfterCommit(r)
  PROVE  \E s \in {"tell", "done"} :
           /\ stage' = [stage EXCEPT ![r] = s]
           /\ untold' \in [Reqs -> SUBSET Spouses]
           /\ \A q \in Reqs \ {r} : untold'[q] = untold[q]
           /\ s = "tell" => call[r].key \in Settings /\ untold'[r] = Spouses
           /\ call[r].key \in Settings => s = "tell"
           /\ stage'[r] = s
BY DEF AfterCommit, Goto, RowsKnown

\* A request that fails leaves all as it was.
LEMMA FailKeeps ==
  ASSUME RowsKnown, NEW r \in Reqs, stage[r] \in {"insert", "commit"}, Fail(r),
         UNCHANGED <<call, showVars, before>>
  PROVE  RowsKnown'
<1> DEFINE k == call[r].key
           v == row[k]
<1>1. CallKnown(r) /\ k \in Keys /\ stage' = [stage EXCEPT ![r] = "failed"]
      /\ stage'[r] = "failed"
      /\ row' = row /\ found' = found /\ untold' = untold
  BY DEF RowsKnown, CallKnown, Fail, Goto
<1>2. /\ DOMAIN row' = Keys /\ row'[k] = v /\ \A l \in Keys \ {k} : row'[l] = row[l]
      /\ v = NoRow \/ RowLike(k, v)
  BY <1>1 DEF RowsKnown
<1>3. DOMAIN found' = Reqs /\ untold' \in [Reqs -> SUBSET Spouses]
  BY <1>1 DEF RowsKnown
<1>4. \A a \in Attributes(k) : Accounted(r, k, a)
  BY <1>1 DEF Accounted, Now, Exists
<1> HIDE DEF v
<1> QED BY <1>1, <1>2, <1>3, <1>4, WriteKeeps
\* A row that a fresh insert names has been named by no request that stands.
LEMMA FreshIsUnwritten ==
  ASSUME RowsKnown, NEW r \in Reqs, stage[r] = "insert",
         call[r].key \in Phrases \cup Items \cup Countdowns,
         NEW a, a \notin DOMAIN call[r].values
  PROVE  Writers(call[r].key, a) = {}
<1>1. \A q \in Reqs \ {r} : call[q].key = call[r].key => stage[q] = "refused"
  BY DEF RowsKnown, CallKnown
<1> QED BY <1>1 DEF Writers

LEMMA BlankIsRow ==
  ASSUME NEW k, NEW values
  PROVE  /\ DOMAIN Blank(k) = Attributes(k)
         /\ RowLike(k, Blank(k))
         /\ RowLike(k, Overlay(values, Blank(k)))
BY DEF RowLike, Blank, Overlay

LEMMA InsertKeeps ==
  ASSUME RowsKnown, NEW r \in Reqs, Insert(r), NEW k, k = call[r].key
  PROVE  RowsKnown'
<1>1. /\ stage[r] = "insert" /\ k \notin Countdowns
      /\ UNCHANGED <<call, showVars, before>>
  BY DEF Insert
<1>2. CallKnown(r) /\ k \in Keys /\ DOMAIN call[r].values \subseteq Attributes(k)
      /\ DOMAIN row = Keys /\ stage \in [Reqs -> Stages]
      /\ DOMAIN found = Reqs /\ untold \in [Reqs -> SUBSET Spouses]
  BY <1>1 DEF RowsKnown, CallKnown
<1>3. CASE Exists(k)
  BY <1>1, <1>3, FailKeeps DEF Insert
<1>4. CASE ~Exists(k) /\ k \in Profiles
  <2> DEFINE s == IF DOMAIN call[r].values = {} THEN "done" ELSE "commit"
             v == Blank(k)
  <2>1. /\ row' = [row EXCEPT ![k] = v] /\ found' = [found EXCEPT ![r] = v]
        /\ stage' = [stage EXCEPT ![r] = s] /\ untold' = untold
    BY <1>1, <1>4 DEF Insert, Goto
  <2>2. /\ DOMAIN row' = Keys /\ row'[k] = v /\ \A l \in Keys \ {k} : row'[l] = row[l]
        /\ RowLike(k, v) /\ stage'[r] = s
        /\ DOMAIN found' = Reqs /\ found'[r] = v /\ \A q \in Reqs \ {r} : found'[q] = found[q]
        /\ untold' \in [Reqs -> SUBSET Spouses] /\ \A q \in Reqs \ {r} : untold'[q] = untold[q]
    BY <2>1, <1>2, BlankIsRow
  <2>3. k \notin Settings /\ Attributes(k) = {"name", "bio"}
    BY <1>4, TablesAssumption, Tables
  <2>4. v = NoRow => row[k] = NoRow
    BY <1>4 DEF Exists
  <2>5. s \in {"commit", "done"} /\ (s = "done" => DOMAIN call[r].values = {})
    OBVIOUS
  <2>6. ASSUME NEW a \in Attributes(k)
        PROVE  Accounted(r, k, a)
    <3>1. v[a] = Nothing /\ v # NoRow
      <4>1. a \in DOMAIN v
        BY BlankIsRow
      <4> QED BY <4>1, <2>3, RowsThere DEF Blank
    <3>2. Now(k, a) = Nothing
      BY <1>4 DEF Now
    <3>3. Now(k, a)' = Nothing
      BY <3>1, <2>2 DEF Now, Exists
    <3> QED BY <3>1, <3>2, <3>3, <2>2, <2>5 DEF Accounted
  <2> HIDE DEF s, v
  <2> QED BY <2>1, <2>2, <2>3, <2>4, <2>5, <2>6, <1>1, WriteKeeps
<1>5. CASE ~Exists(k) /\ k \notin Profiles
  <2> DEFINE v == Overlay(call[r].values, Blank(k))
  <2>1. row' = [row EXCEPT ![k] = v] /\ found' = found /\ AfterCommit(r)
    BY <1>1, <1>5 DEF Insert
  <2>2. PICK s \in {"tell", "done"} :
          /\ stage' = [stage EXCEPT ![r] = s]
          /\ untold' \in [Reqs -> SUBSET Spouses]
          /\ \A q \in Reqs \ {r} : untold'[q] = untold[q]
          /\ s = "tell" => call[r].key \in Settings /\ untold'[r] = Spouses
          /\ call[r].key \in Settings => s = "tell"
          /\ stage'[r] = s
    BY <2>1, AfterCommitTells
  <2>3. /\ DOMAIN row' = Keys /\ row'[k] = v /\ \A l \in Keys \ {k} : row'[l] = row[l]
        /\ RowLike(k, v) /\ DOMAIN found' = Reqs
    BY <2>1, <1>2, BlankIsRow
  <2>4. v = NoRow => row[k] = NoRow
    BY <1>5 DEF Exists
  <2>5. ASSUME NEW a \in Attributes(k)
        PROVE  Accounted(r, k, a)
    <3>1. v[a] = (IF a \in DOMAIN call[r].values THEN call[r].values[a]
                  ELSE IF a = "fulfilled" THEN "off" ELSE Nothing)
      BY DEF Overlay, Blank
    <3>2. v # NoRow
      BY <2>3, RowLikeDomain, RowsThere
    <3>3. Now(k, a) = Nothing /\ Now(k, a)' = v[a]
      BY <3>2, <2>3, <1>5 DEF Now, Exists
    <3>4. CASE a \in DOMAIN call[r].values \/ a # "fulfilled"
      BY <3>1, <3>3, <3>4 DEF Accounted
    <3>5. CASE a \notin DOMAIN call[r].values /\ a = "fulfilled"
      <4>1. k \in Phrases \cup Items
        <5>1. k \notin Settings \cup {Password} /\ k \notin Favourites
          BY <3>5, Tables
        <5> QED BY <5>1, <1>1, <1>2, <1>5 DEF Keys
      <4>2. Writers(k, a) = {}
        BY <4>1, <3>5, <1>1, FreshIsUnwritten
      <4> QED BY <4>2 DEF Accounted
    <3> QED BY <3>4, <3>5
  <2> HIDE DEF v
  <2> QED BY <2>1, <2>2, <2>3, <2>4, <2>5, <1>1, WriteKeeps
<1> QED BY <1>3, <1>4, <1>5

LEMMA InsertCountdownKeeps ==
  ASSUME RowsKnown, NEW r \in Reqs, InsertCountdown(r), NEW k, k = call[r].key
  PROVE  RowsKnown'
<1> DEFINE v == [date |-> r, by |-> By[r], stamp |-> Clock]
<1>1. /\ stage[r] = "insert" /\ k \in Countdowns
      /\ row' = [row EXCEPT ![k] = v] /\ stage' = [stage EXCEPT ![r] = "done"]
      /\ UNCHANGED <<call, showVars, before>> /\ found' = found /\ untold' = untold
  BY DEF InsertCountdown, Goto
<1>2. CallKnown(r) /\ k \in Keys
      /\ DOMAIN row = Keys /\ stage \in [Reqs -> Stages]
      /\ DOMAIN found = Reqs /\ untold \in [Reqs -> SUBSET Spouses]
  BY <1>1 DEF RowsKnown, CallKnown
<1>3. call[r].values = [date |-> r, by |-> By[r]]
  BY <1>1, <1>2 DEF CallKnown
<1>4. Attributes(k) = {"date", "by", "stamp"} /\ k \notin Settings
  BY <1>1, Tables, TablesAssumption
<1>5. v.date = r /\ v.by = By[r] /\ DOMAIN v = {"date", "by", "stamp"}
      /\ v = [a \in {"date", "by", "stamp"} |-> v[a]]
  OBVIOUS
<1> HIDE DEF v
<1>6. RowLike(k, v) /\ v # NoRow
  BY <1>4, <1>5, RowsThere DEF RowLike
<1>7. /\ DOMAIN row' = Keys /\ row'[k] = v /\ \A l \in Keys \ {k} : row'[l] = row[l]
      /\ stage'[r] = "done"
  BY <1>1, <1>2
<1>8. ASSUME NEW a \in Attributes(k)
      PROVE  Accounted(r, k, a)
  <2>1. Now(k, a)' = v[a]
    BY <1>6, <1>7 DEF Now, Exists
  <2>2. CASE a = "stamp"
    <3>1. a \notin DOMAIN call[r].values
      BY <2>2, <1>3
    <3>2. Writers(k, a) = {}
      BY <3>1, <1>1, FreshIsUnwritten
    <3> QED BY <3>2 DEF Accounted
  <2>3. CASE a \in {"date", "by"}
    BY <2>1, <2>3, <1>3, <1>5 DEF Accounted
  <2> QED BY <2>2, <2>3, <1>4
<1>9. DOMAIN found' = Reqs /\ untold' \in [Reqs -> SUBSET Spouses]
      /\ (\A q \in Reqs \ {r} : found'[q] = found[q] /\ untold'[q] = untold[q])
  BY <1>1, <1>2
<1> QED BY <1>1, <1>4, <1>6, <1>7, <1>8, <1>9, WriteKeeps

LEMMA UpdateKeeps ==
  ASSUME RowsKnown, NEW r \in Reqs, Update(r), NEW k, k = call[r].key
  PROVE  RowsKnown'
<1> DEFINE changed == {a \in DOMAIN call[r].values : call[r].values[a] # found[r][a]}
           v == [a \in DOMAIN row[k] |-> IF a \in changed THEN call[r].values[a] ELSE row[k][a]]
<1>1. stage[r] = "commit" /\ UNCHANGED <<call, showVars, before>>
  BY DEF Update
<1>2. CallKnown(r) /\ k \in Keys /\ DOMAIN call[r].values \subseteq Attributes(k)
      /\ DOMAIN row = Keys /\ stage \in [Reqs -> Stages]
      /\ DOMAIN found = Reqs /\ untold \in [Reqs -> SUBSET Spouses]
      /\ (row[k] = NoRow \/ RowLike(k, row[k]))
  BY <1>1 DEF RowsKnown, CallKnown
<1>3. CASE ~Exists(k)
  BY <1>1, <1>3, FailKeeps DEF Update
<1>4. CASE Exists(k)
  <2>1. row' = [row EXCEPT ![k] = v] /\ found' = found /\ AfterCommit(r)
    BY <1>1, <1>4 DEF Update
  <2>2. PICK s \in {"tell", "done"} :
          /\ stage' = [stage EXCEPT ![r] = s]
          /\ untold' \in [Reqs -> SUBSET Spouses]
          /\ \A q \in Reqs \ {r} : untold'[q] = untold[q]
          /\ s = "tell" => call[r].key \in Settings /\ untold'[r] = Spouses
          /\ call[r].key \in Settings => s = "tell"
          /\ stage'[r] = s
    BY <2>1, AfterCommitTells
  <2>3. RowLike(k, row[k]) /\ DOMAIN row[k] = Attributes(k)
    BY <1>2, <1>4, RowLikeDomain DEF Exists
  <2>4. RowLike(k, v) /\ \A a \in Attributes(k) :
          v[a] = IF a \in changed THEN call[r].values[a] ELSE row[k][a]
    BY <2>3 DEF RowLike
  <2>5. /\ DOMAIN row' = Keys /\ row'[k] = v /\ \A l \in Keys \ {k} : row'[l] = row[l]
        /\ DOMAIN found' = Reqs
    BY <2>1, <1>2
  <2>6. v = NoRow => row[k] = NoRow
    <3>1. SUFFICES ASSUME v = NoRow PROVE row[k] = NoRow
      OBVIOUS
    <3>2. Attributes(k) = {}
      BY <3>1, <2>4, RowLikeDomain, RowsThere
    <3>3. row[k] = [a \in {} |-> row[k][a]] /\ v = [a \in {} |-> v[a]]
      BY <3>2, <2>3, <2>4 DEF RowLike
    <3> QED BY <3>1, <3>3
  <2>7. ASSUME NEW a \in Attributes(k)
        PROVE  Accounted(r, k, a)
    <3>1. Now(k, a) = row[k][a]
      BY <1>4 DEF Now
    <3>2. v # NoRow
      BY <2>4, RowLikeDomain, RowsThere
    <3>3. Now(k, a)' = v[a]
      BY <3>2, <2>5 DEF Now, Exists
    <3>4. CASE a \in changed
      BY <3>3, <3>4, <2>4 DEF Accounted
    <3>5. CASE a \notin changed
      <4>1. Now(k, a)' = Now(k, a)
        BY <3>1, <3>3, <3>5, <2>4
      <4>2. a \in DOMAIN call[r].values => call[r].values[a] = found[r][a]
        BY <3>5
      <4>3. stage'[r] # "commit"
        BY <2>2
      <4> QED BY <4>1, <4>2, <4>3, <1>1 DEF Accounted
    <3> QED BY <3>4, <3>5
  <2> HIDE DEF v
  <2> QED BY <2>1, <2>2, <2>4, <2>5, <2>6, <2>7, <1>1, WriteKeeps
<1> QED BY <1>3, <1>4

LEMMA DeleteKeeps ==
  ASSUME RowsKnown, NEW r \in Reqs, Delete(r), NEW k, k = call[r].key
  PROVE  RowsKnown'
<1> DEFINE other == k \in Favourites /\ row[k] # found[r]
           v == IF other THEN row[k] ELSE NoRow
<1>1. /\ stage[r] = "commit" /\ call[r].how = "delete"
      /\ row' = [row EXCEPT ![k] = v] /\ stage' = [stage EXCEPT ![r] = "done"]
      /\ UNCHANGED <<call, showVars, before>> /\ found' = found /\ untold' = untold
  BY DEF Delete, Goto
<1>2. CallKnown(r) /\ k \in Keys
      /\ DOMAIN row = Keys /\ stage \in [Reqs -> Stages]
      /\ DOMAIN found = Reqs /\ untold \in [Reqs -> SUBSET Spouses]
      /\ (row[k] = NoRow \/ RowLike(k, row[k]))
  BY <1>1 DEF RowsKnown, CallKnown
<1>3. /\ k \in Phrases \cup Items \cup Favourites
      /\ DOMAIN call[r].values = Attributes(k)
      /\ \A a \in Attributes(k) : call[r].values[a] = Nothing
      /\ RowLike(k, found[r])
  BY <1>1, <1>2 DEF CallKnown
<1>4. k \notin Settings /\ k \notin Countdowns
  BY <1>3, TablesAssumption, Tables
<1>5. v = NoRow \/ RowLike(k, v)
  BY <1>2
<1>6. /\ DOMAIN row' = Keys /\ row'[k] = v /\ \A l \in Keys \ {k} : row'[l] = row[l]
      /\ stage'[r] = "done"
  BY <1>1, <1>2
<1>7. ASSUME NEW a \in Attributes(k)
      PROVE  Accounted(r, k, a)
  <2>1. CASE v = NoRow
    <3>1. Now(k, a)' = Nothing
      BY <2>1, <1>6 DEF Now, Exists
    <3> QED BY <3>1, <1>3 DEF Accounted
  <2>2. CASE v # NoRow
    <3>1. other /\ v = row[k] /\ Exists(k)
      BY <2>2 DEF Exists
    <3>2. Attributes(k) = {"id"} /\ a = "id"
      BY <3>1, Tables
    <3>3. row[k] = [b \in {"id"} |-> row[k][b]] /\ found[r] = [b \in {"id"} |-> found[r][b]]
      BY <3>1, <3>2, <1>2, <1>3 DEF RowLike, Exists
    <3>4. row[k]["id"] # found[r]["id"]
      BY <3>1, <3>3
    <3>5. Now(k, a)' = Now(k, a) /\ Now(k, a) = row[k]["id"]
      BY <3>1, <3>2, <2>2, <1>6 DEF Now, Exists
    <3> QED BY <3>2, <3>4, <3>5, <1>1, <1>6 DEF Accounted
  <2> QED BY <2>1, <2>2
<1>8. DOMAIN found' = Reqs /\ untold' \in [Reqs -> SUBSET Spouses]
      /\ (\A q \in Reqs \ {r} : found'[q] = found[q] /\ untold'[q] = untold[q])
  BY <1>1, <1>2
<1> HIDE DEF v
<1> QED BY <1>1, <1>4, <1>5, <1>6, <1>7, <1>8, WriteKeeps

-----------------------------------------------------------------------------
(* The phones.                                                             *)

\* What a phone does leaves the tables and the requests as they are.
LEMMA TableUnchanged ==
  ASSUME UNCHANGED tableVars
  PROVE  /\ row' = row /\ stage' = stage /\ call' = call /\ found' = found
         /\ untold' = untold /\ before' = before
         /\ \A q : CallKnown(q)' = CallKnown(q) /\ Through(q)' = Through(q)
         /\ \A l, a : Now(l, a)' = Now(l, a) /\ Writers(l, a)' = Writers(l, a)
         /\ \A l, a : LastIsKnown(l, a)' = LastIsKnown(l, a)
         /\ \A l : /\ InTurn(l)' = InTurn(l) /\ WritersFollow(l)' = WritersFollow(l)
                  /\ Committed(l)' = Committed(l)
<1>1. /\ row' = row /\ stage' = stage /\ call' = call /\ found' = found
      /\ untold' = untold /\ before' = before
  BY DEF tableVars
<1>2. \A q : CallKnown(q)' = CallKnown(q) /\ Through(q)' = Through(q)
  BY <1>1 DEF CallKnown, Ended, Exists, Through
<1>3. \A l, a : Now(l, a)' = Now(l, a) /\ Writers(l, a)' = Writers(l, a)
  BY <1>1 DEF Now, Exists, Writers
<1>4. \A l, a : LastIsKnown(l, a)' = LastIsKnown(l, a)
  BY <1>1, <1>3 DEF LastIsKnown, LastSet, Through
<1>5. \A l : InTurn(l)' = InTurn(l) /\ WritersFollow(l)' = WritersFollow(l)
  BY <1>1, <1>3 DEF InTurn, WritersFollow
<1>6. \A l : Committed(l)' = Committed(l)
  BY <1>1, <1>3 DEF Committed, Through
<1> QED BY <1>1, <1>2, <1>3, <1>4, <1>5, <1>6

\* A phone has missed what it shows otherwise than it is told, and a load knows
\* whether it is late.
LEMMA ShownKeeps ==
  ASSUME RowsKnown, UNCHANGED tableVars,
         screen' \in [Phones \X Settings -> {"on", "off"}],
         missed' \in [Phones \X Settings -> BOOLEAN],
         loads' \subseteq [phone : Phones, key : Settings, value : {"on", "off"}, seen : SUBSET Reqs],
         LoadsKnown',
         \A l \in Settings : LoadsFollow(l) => LoadsFollow(l)',
         \A p \in Phones, l \in Settings :
           \/ missed'[<<p, l>>]
           \/ screen'[<<p, l>>] = screen[<<p, l>>] /\ missed'[<<p, l>>] = missed[<<p, l>>]
           \/ LoadsFollow(l) => screen'[<<p, l>>] = Shown(Now(l, "value"))
  PROVE  RowsKnown'
<1>1. /\ row' = row /\ stage' = stage /\ call' = call /\ found' = found
      /\ untold' = untold /\ before' = before
      /\ \A q : CallKnown(q)' = CallKnown(q)
      /\ \A l, a : Now(l, a)' = Now(l, a) /\ Writers(l, a)' = Writers(l, a)
      /\ \A l, a : LastIsKnown(l, a)' = LastIsKnown(l, a)
      /\ \A l : InTurn(l)' = InTurn(l) /\ WritersFollow(l)' = WritersFollow(l)
  BY TableUnchanged
<1>2. ASSUME NEW l \in Settings
      PROVE  ScreensFollow(l)'
  <2>1. SUFFICES ASSUME InTurn(l)
        PROVE  WritersFollow(l) /\ PhonesFollow(l)' /\ LoadsFollow(l)'
    BY <1>1 DEF ScreensFollow
  <2>2. WritersFollow(l) /\ PhonesFollow(l) /\ LoadsFollow(l)
    BY <2>1 DEF RowsKnown, ScreensFollow
  <2>3. PhonesFollow(l)'
    BY <2>2, <1>1 DEF PhonesFollow
  <2> QED BY <2>2, <2>3
<1>3. /\ (\A k \in Keys : row[k] = NoRow \/ RowLike(k, row[k]))'
      /\ (\A r \in Reqs : CallKnown(r))'
      /\ (\A k \in Keys : \A a \in Attributes(k) : LastIsKnown(k, a))'
      /\ (\A k \in Settings : ScreensFollow(k))'
  BY <1>1, <1>2 DEF RowsKnown
<1>4. /\ DOMAIN row' = Keys /\ stage' \in [Reqs -> Stages] /\ DOMAIN call' = Reqs
      /\ DOMAIN found' = Reqs
      /\ untold' \in [Reqs -> SUBSET Spouses] /\ before' \in [Reqs -> SUBSET Reqs]
  BY <1>1 DEF RowsKnown
<1> QED BY <1>3, <1>4 DEF RowsKnown

LEMMA PhoneKeeps ==
  ASSUME RowsKnown, PhoneStep
  PROVE  RowsKnown'
<1>1. /\ screen \in [Phones \X Settings -> {"on", "off"}]
      /\ missed \in [Phones \X Settings -> BOOLEAN]
      /\ loads \subseteq [phone : Phones, key : Settings, value : {"on", "off"}, seen : SUBSET Reqs]
      /\ LoadsKnown
  BY DEF RowsKnown
<1>2. ASSUME NEW p \in Phones, NEW k \in Settings, Flip(p, k)
      PROVE  RowsKnown'
  <2>1. UNCHANGED tableVars /\ loads' = loads
        /\ screen' = [screen EXCEPT ![<<p, k>>] = IF screen[<<p, k>>] = "on" THEN "off" ELSE "on"]
        /\ missed' = [missed EXCEPT ![<<p, k>>] = TRUE]
    BY <1>2 DEF Flip
  <2>2. /\ screen' \in [Phones \X Settings -> {"on", "off"}]
        /\ missed' \in [Phones \X Settings -> BOOLEAN]
        /\ \A q \in Phones, l \in Settings :
             \/ missed'[<<q, l>>]
             \/ screen'[<<q, l>>] = screen[<<q, l>>] /\ missed'[<<q, l>>] = missed[<<q, l>>]
    BY <1>1, <2>1
  <2>3. LoadsKnown' /\ \A l : LoadsFollow(l)' = LoadsFollow(l)
    BY <1>1, <2>1, TableUnchanged DEF LoadsKnown, LoadsFollow
  <2> QED BY <1>1, <2>1, <2>2, <2>3, ShownKeeps
<1>3. ASSUME NEW p \in Phones, NEW k \in Settings, Load(p, k)
      PROVE  RowsKnown'
  <2>1. PICK x : /\ x = [phone |-> p, key |-> k, value |-> Shown(Now(k, "value")),
                          seen |-> Committed(k)]
                 /\ loads' = loads \cup {x} /\ UNCHANGED tableVars
                 /\ screen' = screen /\ missed' = missed
    BY <1>3 DEF Load
  <2>2. x.key = k /\ x.value = Shown(Now(k, "value")) /\ x.seen = Committed(k)
    BY <2>1
  <2>3. x \in [phone : Phones, key : Settings, value : {"on", "off"}, seen : SUBSET Reqs]
    BY <2>1 DEF Shown, Committed, Writers
  <2>4. LoadsKnown'
    BY <1>1, <2>1, <2>2, TableUnchanged DEF LoadsKnown, Committed, Through
  <2>5. \A l \in Settings : LoadsFollow(l) => LoadsFollow(l)'
    BY <2>1, <2>2, TableUnchanged DEF LoadsFollow
  <2> QED BY <1>1, <2>1, <2>3, <2>4, <2>5, ShownKeeps
<1>4. ASSUME NEW x \in loads, ShowLoaded(x)
      PROVE  RowsKnown'
  <2>1. /\ x.phone \in Phones /\ x.key \in Settings /\ x.value \in {"on", "off"}
        /\ loads' = loads \ {x} /\ UNCHANGED tableVars
        /\ screen' = [screen EXCEPT ![<<x.phone, x.key>>] = x.value]
        /\ missed' = [missed EXCEPT ![<<x.phone, x.key>>] = ~(Committed(x.key) \subseteq x.seen)]
    BY <1>1, <1>4 DEF ShowLoaded
  <2>2. /\ screen' \in [Phones \X Settings -> {"on", "off"}]
        /\ missed' \in [Phones \X Settings -> BOOLEAN]
    BY <1>1, <2>1
  <2>3. LoadsKnown' /\ \A l : LoadsFollow(l) => LoadsFollow(l)'
    BY <1>1, <2>1, TableUnchanged DEF LoadsKnown, LoadsFollow
  <2>4. ASSUME NEW q \in Phones, NEW l \in Settings
        PROVE  \/ missed'[<<q, l>>]
               \/ screen'[<<q, l>>] = screen[<<q, l>>] /\ missed'[<<q, l>>] = missed[<<q, l>>]
               \/ LoadsFollow(l) => screen'[<<q, l>>] = Shown(Now(l, "value"))
    <3>1. CASE q = x.phone /\ l = x.key
      <4>1. screen'[<<q, l>>] = x.value /\ missed'[<<q, l>>] = ~(Committed(l) \subseteq x.seen)
        BY <1>1, <2>1, <3>1
      <4> QED BY <4>1, <3>1 DEF LoadsFollow
    <3>2. CASE ~(q = x.phone /\ l = x.key)
      BY <1>1, <2>1, <3>2
    <3> QED BY <3>1, <3>2
  <2> QED BY <1>1, <2>1, <2>2, <2>3, <2>4, ShownKeeps
<1>5. ASSUME NEW p \in Phones, Restart(p)
      PROVE  RowsKnown'
  <2>1. UNCHANGED tableVars /\ loads' \subseteq loads
        /\ screen' = [c \in Phones \X Settings |-> IF c[1] = p THEN "off" ELSE screen[c]]
        /\ missed' = [c \in Phones \X Settings |-> c[1] = p \/ missed[c]]
    BY <1>5 DEF Restart
  <2>2. /\ screen' \in [Phones \X Settings -> {"on", "off"}]
        /\ missed' \in [Phones \X Settings -> BOOLEAN]
    BY <1>1, <2>1
  <2>3. \A q \in Phones, l \in Settings :
          \/ missed'[<<q, l>>]
          \/ screen'[<<q, l>>] = screen[<<q, l>>] /\ missed'[<<q, l>>] = missed[<<q, l>>]
    BY <1>1, <2>1
  <2>4. LoadsKnown' /\ \A l : LoadsFollow(l) => LoadsFollow(l)'
    BY <1>1, <2>1, TableUnchanged DEF LoadsKnown, LoadsFollow
  <2> QED BY <1>1, <2>1, <2>2, <2>3, <2>4, ShownKeeps
<1> QED BY <1>2, <1>3, <1>4, <1>5 DEF PhoneStep

-----------------------------------------------------------------------------
\* The stale writes of one request never hide the answered one of another: in
\* every state, each attribute's last change is known, and the screens follow.
LEMMA RowsAreKnown == RowsSpec => []RowsKnown
<1>1. RowsInit => RowsKnown
  BY InitRows
<1>2. RowsKnown /\ [RowsNext]_rowVars => RowsKnown'
  <2> SUFFICES ASSUME RowsKnown, [RowsNext]_rowVars PROVE RowsKnown'
    OBVIOUS
  <2>1. CASE RowsNext
    <3>1. ASSUME NEW r \in Reqs, Start(r)
          PROVE  RowsKnown'
      BY <3>1, StartKeeps
    <3>2. ASSUME NEW r \in Reqs, Recheck(r)
          PROVE  RowsKnown'
      BY <3>2, RecheckKeeps
    <3>3. ASSUME NEW r \in Reqs, Insert(r)
          PROVE  RowsKnown'
      BY <3>3, InsertKeeps
    <3>4. ASSUME NEW r \in Reqs, InsertCountdown(r)
          PROVE  RowsKnown'
      BY <3>4, InsertCountdownKeeps
    <3>5. ASSUME NEW r \in Reqs, Update(r)
          PROVE  RowsKnown'
      BY <3>5, UpdateKeeps
    <3>6. ASSUME NEW r \in Reqs, Delete(r)
          PROVE  RowsKnown'
      BY <3>6, DeleteKeeps
    <3>7. ASSUME NEW r \in Reqs, NEW s \in Spouses, Tell(r, s)
          PROVE  RowsKnown'
      BY <3>7, TellKeeps
    <3>8. CASE PhoneStep
      BY <3>8, PhoneKeeps
    <3> QED BY <2>1, <3>1, <3>2, <3>3, <3>4, <3>5, <3>6, <3>7, <3>8 DEF RowsNext
  <2>2. CASE UNCHANGED rowVars
    <3>1. UNCHANGED tableVars /\ screen' = screen /\ missed' = missed /\ loads' = loads
      BY <2>2 DEF rowVars, tableVars, showVars
    <3>2. LoadsKnown' /\ \A l : LoadsFollow(l)' = LoadsFollow(l)
      BY <3>1, TableUnchanged DEF RowsKnown, LoadsKnown, LoadsFollow
    <3> QED BY <3>1, <3>2, ShownKeeps DEF RowsKnown
  <2> QED BY <2>1, <2>2
<1> QED BY <1>1, <1>2, PTL DEF RowsSpec

-----------------------------------------------------------------------------
(* What is written is of its column's type.                                *)

\* A set of naturals with an upper bound has a maximum.
LEMMA BoundedMax ==
  ASSUME NEW T, T \subseteq Nat, T # {}, NEW n \in Nat, \A x \in T : x <= n
  PROVE  Max(T) \in T /\ Max(T) <= n
<1>1. PICK m \in {b \in Nat : \A x \in T : x <= b} : \A b \in {b \in Nat : \A x \in T : x <= b} : m <= b
  BY LeastNatural
<1>2. m \in T
  <2> SUFFICES ASSUME m \notin T PROVE FALSE
    OBVIOUS
  <2>1. PICK t \in T : t \in Nat
    OBVIOUS
  <2>2. m # 0 /\ m \in Nat
    BY <1>1, <2>1
  <2>3. m - 1 \in Nat
    BY ONLY <2>2
  <2>4. \A x \in T : x <= m - 1
    BY <1>1, <2>2
  <2>5. m <= m - 1
    BY <1>1, <2>3, <2>4
  <2> QED
    BY ONLY <2>2, <2>5
<1>3. \A x \in T : m >= x
  BY <1>1
<1>4. Max(T) \in T
  BY <1>2, <1>3 DEF Max
<1> QED
  BY <1>4

\* How far the clock has gone.
ClockBelow(n) ==
  /\ \A k \in Stamped : row[k].stamp <= n
  /\ \A r \in Reqs : "stamp" \in DOMAIN call[r].values => call[r].values.stamp <= n

RowsTyped == RowsTypeOK /\ \E n \in Nat : ClockBelow(n)

LEMMA NothingFits ==
  ASSUME NEW a, a # "stamp"
  PROVE  Nothing \in ValuesOf(a)
BY DEF ValuesOf

LEMMA BlankFits ==
  ASSUME NEW k \in Keys \ Countdowns
  PROVE  IsRow(k, Blank(k))
<1>1. "stamp" \notin Attributes(k)
  BY Tables, SharedRowsAssumption DEF Keys
<1>2. \A a \in Attributes(k) : Blank(k)[a] \in ValuesOf(a)
  <2> SUFFICES ASSUME NEW a \in Attributes(k) PROVE Blank(k)[a] \in ValuesOf(a)
    OBVIOUS
  <2>1. CASE a = "fulfilled"
    BY <2>1 DEF Blank, ValuesOf
  <2>2. CASE a # "fulfilled"
    BY <1>1, <2>2, NothingFits DEF Blank
  <2> QED
    BY <2>1, <2>2
<1> QED
  BY <1>2, BlankIsRow DEF IsRow

LEMMA StampsAreNumbers ==
  ASSUME RowsTypeOK
  PROVE  /\ \A k \in Stamped : row[k].stamp \in Nat
         /\ \A r \in Reqs : "stamp" \in DOMAIN call[r].values => call[r].values.stamp \in Nat
<1>1. \A k \in Stamped : row[k].stamp \in Nat
  <2> SUFFICES ASSUME NEW k \in Stamped PROVE row[k].stamp \in Nat
    OBVIOUS
  <2>1. k \in Countdowns /\ k \in Keys /\ IsRow(k, row[k])
    BY DEF Stamped, Exists, RowsTypeOK, Keys
  <2>2. "stamp" \in Attributes(k)
    BY <2>1, Tables
  <2>3. row[k]["stamp"] \in ValuesOf("stamp")
    BY <2>1, <2>2 DEF IsRow
  <2> QED
    BY <2>3 DEF ValuesOf
<1>2. \A r \in Reqs : "stamp" \in DOMAIN call[r].values => call[r].values.stamp \in Nat
  BY DEF RowsTypeOK, ValuesOf
<1> QED
  BY <1>1, <1>2

LEMMA ClockTicks ==
  ASSUME RowsTypeOK, NEW n \in Nat, ClockBelow(n)
  PROVE  Clock \in Nat /\ Clock <= n + 1
<1>1. PICK T : T = {0} \cup {row[k].stamp : k \in Stamped}
                  \cup {call[r].values.stamp : r \in {q \in Reqs : "stamp" \in DOMAIN call[q].values}}
  OBVIOUS
<1>2. T \subseteq Nat /\ T # {} /\ \A x \in T : x <= n
  BY <1>1, StampsAreNumbers DEF ClockBelow
<1>3. Max(T) \in Nat /\ Max(T) <= n
  BY <1>2, BoundedMax
<1>4. Clock = 1 + Max(T)
  BY <1>1 DEF Clock
<1> QED
  BY ONLY <1>3, <1>4, n \in Nat

\* What a request may start with, as to types.
Fits(k, how, values, allowed, next) ==
  /\ k \in Keys /\ how \in {"insert", "update", "delete"}
  /\ \A a \in DOMAIN values : values[a] \in ValuesOf(a)
  /\ k \in Settings => values["value"] \in {"on", "off"}
  /\ "stamp" \in DOMAIN values => values["stamp"] = Clock
  /\ allowed /\ next = "commit" => Exists(k)

LEMMA BeginFits ==
  ASSUME RowsTyped, RowsKnown', NEW r \in Reqs, NEW k, NEW how, NEW values, NEW allowed, NEW next,
         Begin(r, k, how, values, allowed, next), Fits(k, how, values, allowed, next),
         RowsKnown
  PROVE  RowsTyped'
<1>1. PICK n \in Nat : ClockBelow(n)
  BY DEF RowsTyped
<1>2. RowsTypeOK
  BY DEF RowsTyped
<1>3. PICK c : c = [key |-> k, how |-> how, values |-> values]
  OBVIOUS
<1>4. /\ call' = [call EXCEPT ![r] = c] /\ found' = [found EXCEPT ![r] = row[k]]
      /\ stage' = [stage EXCEPT ![r] = IF allowed THEN next ELSE "refused"]
      /\ row' = row
      /\ DOMAIN call = Reqs /\ DOMAIN found = Reqs /\ stage \in [Reqs -> Stages]
  BY <1>3 DEF Begin, Goto, RowsKnown
<1>5. /\ call'[r] = c /\ \A q \in Reqs \ {r} : call'[q] = call[q]
      /\ found'[r] = row[k] /\ \A q \in Reqs \ {r} : found'[q] = found[q]
      /\ stage'[r] = (IF allowed THEN next ELSE "refused")
      /\ \A q \in Reqs \ {r} : stage'[q] = stage[q]
  BY <1>4
<1>6. c.key = k /\ c.how = how /\ c.values = values
  BY <1>3
<1>7. ASSUME NEW q \in Reqs
      PROVE  /\ call'[q].key \in Keys \cup {Nothing}
             /\ call'[q].how \in {"none", "insert", "update", "delete"}
             /\ \A a \in DOMAIN call'[q].values : call'[q].values[a] \in ValuesOf(a)
             /\ call'[q].key \in Settings => call'[q].values["value"] \in {"on", "off"}
             /\ stage'[q] = "commit" => IsRow(call'[q].key, found'[q])
  <2>1. CASE q = r
    <3>1. stage'[q] = "commit" => IsRow(k, row[k])
      BY <1>2, <1>5, <2>1 DEF Fits, RowsTypeOK, Exists
    <3> QED
      BY <1>5, <1>6, <2>1, <3>1 DEF Fits
  <2>2. CASE q # r
    BY <1>2, <1>5, <2>2 DEF RowsTypeOK
  <2> QED
    BY <2>1, <2>2
<1>8. RowsTypeOK'
  <2>1. /\ stage' \in [Reqs -> Stages] /\ untold' \in [Reqs -> SUBSET Spouses]
        /\ before' \in [Reqs -> SUBSET Reqs]
    BY DEF RowsKnown
  <2> QED
    BY <1>2, <1>4, <1>7, <2>1 DEF RowsTypeOK
<1>9. ClockBelow(n + 1)'
  <2>1. Clock \in Nat /\ Clock <= n + 1
    BY <1>1, <1>2, ClockTicks
  <2>2. ASSUME NEW q \in Reqs, "stamp" \in DOMAIN call'[q].values
        PROVE  call'[q].values.stamp <= n + 1
    <3>1. CASE q = r
      <4>1. call'[q].values.stamp = Clock
        BY <1>5, <1>6, <2>2, <3>1 DEF Fits
      <4> QED
        BY <2>1, <4>1
    <3>2. CASE q # r
      <4>1. /\ call'[q] = call[q] /\ call[q].values.stamp <= n
            /\ call[q].values.stamp \in ValuesOf("stamp")
        BY <1>1, <1>2, <1>5, <2>2, <3>2 DEF ClockBelow, RowsTypeOK
      <4>2. call[q].values.stamp \in Nat
        BY <4>1 DEF ValuesOf
      <4> QED
        BY <4>1, <4>2
    <3> QED
      BY <3>1, <3>2
  <2>3. Stamped' = Stamped
    BY <1>4 DEF Stamped, Exists
  <2>4. \A l \in Stamped' : row'[l].stamp <= n + 1
    <3> SUFFICES ASSUME NEW l \in Stamped PROVE row[l].stamp <= n + 1
      BY <1>4, <2>3
    <3>1. row[l].stamp <= n
      BY <1>1 DEF ClockBelow
    <3>2. row[l].stamp \in Nat
      BY <1>2, StampsAreNumbers
    <3> QED
      BY <3>1, <3>2
  <2> QED
    BY <2>2, <2>4 DEF ClockBelow
<1>10. n + 1 \in Nat
  OBVIOUS
<1> QED
  BY <1>8, <1>9, <1>10 DEF RowsTyped

LEMMA StartFits ==
  ASSUME RowsTyped, RowsKnown, RowsKnown', NEW r \in Reqs, Start(r)
  PROVE  RowsTyped'
<1>0. /\ Phrases \subseteq Keys /\ Items \subseteq Keys /\ Profiles \subseteq Keys
      /\ Settings \subseteq Keys /\ Password \in Keys
      /\ Favourites \subseteq Keys /\ Countdowns \subseteq Keys
      /\ By[r] \in Spouses
  BY SharedRowsAssumption DEF Keys
<1>a. /\ \A k \in Keys \ Settings : \A how \in {"insert", "update", "delete"} :
           \A values, allowed, next :
             /\ Begin(r, k, how, values, allowed, next)
             /\ \A a \in DOMAIN values : a # "stamp" /\ values[a] \in ValuesOf(a)
             /\ allowed /\ next = "commit" => Exists(k)
             => RowsTyped'
  BY BeginFits DEF Fits
<1>b. \A a \in {"text", "name", "bio", "id", "date", "value"} : r \in ValuesOf(a) /\ a # "stamp"
  BY DEF ValuesOf
<1>c. Spouses \cap {"text", "fulfilled", "name", "bio", "value", "id", "date", "stamp"} = {}
  BY SharedRowsAssumption
<1>d. \A k \in Phrases \cup Items \cup Profiles \cup Favourites \cup Countdowns : k \in Keys \ Settings
  BY <1>0, TablesAssumption
<1>1. ASSUME NEW k \in Phrases, CreatePhrase(r, k)
      PROVE  RowsTyped'
  <2> DEFINE v == [a \in {"text"} |-> r]
  <2>1. \A a \in DOMAIN v : a # "stamp" /\ v[a] \in ValuesOf(a)
    BY <1>b
  <2>2. Begin(r, k, "insert", v, TRUE, "insert")
    BY <1>1 DEF CreatePhrase
  <2> HIDE DEF v
  <2> QED
    BY <1>a, <1>d, <2>1, <2>2
<1>2. ASSUME NEW k \in Phrases, EditPhrase(r, k)
      PROVE  RowsTyped'
  <2> DEFINE v == [a \in Attributes(k) |-> IF a = "text" THEN r ELSE Nothing]
  <2>1. "stamp" \notin Attributes(k)
    BY <1>c, Tables
  <2>2. \A a \in DOMAIN v : a # "stamp" /\ v[a] \in ValuesOf(a)
    BY <1>b, <2>1, NothingFits
  <2>3. Begin(r, k, "update", v, Exists(k) /\ Own(r, k), "commit")
    BY <1>2 DEF EditPhrase
  <2> HIDE DEF v
  <2> QED
    BY <1>a, <1>d, <2>2, <2>3
<1>3. ASSUME NEW k \in Phrases \cup Items, DeletePhrase(r, k) \/ DeleteItem(r, k)
      PROVE  RowsTyped'
  <2> DEFINE v == [a \in Attributes(k) |-> Nothing]
  <2>1. "stamp" \notin Attributes(k)
    BY <1>c, Tables
  <2>2. \A a \in DOMAIN v : a # "stamp" /\ v[a] \in ValuesOf(a)
    BY <2>1, NothingFits
  <2>3. Begin(r, k, "delete", v, Exists(k) /\ Own(r, k), "commit")
    BY <1>3 DEF DeletePhrase, DeleteItem
  <2> HIDE DEF v
  <2> QED
    BY <1>a, <1>d, <2>2, <2>3
<1>4. ASSUME NEW k \in Phrases, NEW n \in Ratings, RatePhrase(r, k, n)
      PROVE  RowsTyped'
  <2> DEFINE v == [a \in {By[r]} |-> n]
  <2>1. By[r] \notin {"text", "fulfilled", "name", "bio", "value", "id", "date", "stamp"}
    BY <1>0, <1>c
  <2>2. n \in ValuesOf(By[r])
    BY <2>1 DEF ValuesOf
  <2>3. \A a \in DOMAIN v : a # "stamp" /\ v[a] \in ValuesOf(a)
    BY <2>1, <2>2
  <2>4. Begin(r, k, "update", v, Exists(k), "commit")
    BY <1>4 DEF RatePhrase
  <2> HIDE DEF v
  <2> QED
    BY <1>a, <1>d, <2>3, <2>4
<1>5. ASSUME NEW k \in Items, CreateItem(r, k)
      PROVE  RowsTyped'
  <2> DEFINE v == [text |-> r]
  <2>1. \A a \in DOMAIN v : a # "stamp" /\ v[a] \in ValuesOf(a)
    BY <1>b
  <2>2. Begin(r, k, "insert", v, TRUE, "insert")
    BY <1>5 DEF CreateItem
  <2> HIDE DEF v
  <2> QED
    BY <1>a, <1>d, <2>1, <2>2
<1>6. ASSUME NEW k \in Items, NEW v, UpdateItem(r, k, v),
             \A a \in DOMAIN v : a # "stamp" /\ v[a] \in ValuesOf(a)
      PROVE  RowsTyped'
  <2>1. Begin(r, k, "update", v, Exists(k) /\ Own(r, k), "commit")
    BY <1>6 DEF UpdateItem
  <2> QED
    BY <1>6, <1>a, <1>d, <2>1
<1>7. \A a \in DOMAIN [text |-> r] : a # "stamp" /\ [text |-> r][a] \in ValuesOf(a)
  BY <1>b
<1>8. ASSUME NEW b \in {"on", "off"}
      PROVE  \A a \in DOMAIN [fulfilled |-> b] : a # "stamp" /\ [fulfilled |-> b][a] \in ValuesOf(a)
  BY DEF ValuesOf
<1>9. ASSUME NEW k \in Profiles, GetProfile(r, k)
      PROVE  RowsTyped'
  <2> DEFINE next == IF Exists(k) THEN "done" ELSE "insert"
  <2>1. Begin(r, k, "update", << >>, TRUE, next) /\ next # "commit"
    BY <1>9 DEF GetProfile
  <2>2. DOMAIN << >> = {}
    OBVIOUS
  <2> HIDE DEF next
  <2> QED
    BY <1>a, <1>d, <2>1, <2>2
<1>10. ASSUME NEW k \in Profiles, NEW f \in SUBSET {"name", "bio"}, UpdateProfile(r, k, f)
       PROVE  RowsTyped'
  <2> DEFINE next == IF Exists(k) THEN "commit" ELSE "insert"
             v == [a \in f |-> r]
  <2>1. Begin(r, k, "update", v, TRUE, next) /\ (next = "commit" => Exists(k))
    BY <1>10 DEF UpdateProfile
  <2>2. \A a \in DOMAIN v : a # "stamp" /\ v[a] \in ValuesOf(a)
    BY <1>b
  <2> HIDE DEF next, v
  <2> QED
    BY <1>a, <1>d, <2>1, <2>2
<1>11. ASSUME NEW k \in Settings, NEW b \in {"on", "off"}, SetSetting(r, k, b)
       PROVE  RowsTyped'
  <2> DEFINE next == IF Exists(k) THEN "commit" ELSE "insert"
             how == IF Exists(k) THEN "update" ELSE "insert"
             v == [value |-> b]
  <2>1. Begin(r, k, how, v, TRUE, next) /\ (next = "commit" => Exists(k))
        /\ how \in {"insert", "update", "delete"}
    BY <1>11 DEF SetSetting
  <2>2. /\ \A a \in DOMAIN v : v[a] \in ValuesOf(a)
        /\ v["value"] \in {"on", "off"} /\ "stamp" \notin DOMAIN v
    BY DEF ValuesOf
  <2> HIDE DEF next, how, v
  <2>3. Fits(k, how, v, TRUE, next)
    BY <1>0, <2>1, <2>2 DEF Fits
  <2> QED
    BY <2>1, <2>3, BeginFits
<1>12. ASSUME ToggleFavorite(r)
       PROVE  RowsTyped'
  <2> DEFINE k == <<"favourite", By[r]>>
             next == IF Exists(k) THEN "commit" ELSE "insert"
             how == IF Exists(k) THEN "delete" ELSE "insert"
             v == [id |-> IF Exists(k) THEN Nothing ELSE r]
  <2>1. Begin(r, k, how, v, TRUE, next) /\ (next = "commit" => Exists(k))
        /\ how \in {"insert", "update", "delete"}
    BY <1>12 DEF ToggleFavorite
  <2>2. k \in Favourites
    BY <1>0 DEF Favourites
  <2>3. \A a \in DOMAIN v : a # "stamp" /\ v[a] \in ValuesOf(a)
    BY <1>b, NothingFits
  <2> HIDE DEF next, how, v, k
  <2> QED
    BY <1>a, <1>d, <2>1, <2>2, <2>3
<1>13. ASSUME SetCountdown(r)
       PROVE  RowsTyped'
  <2> DEFINE newest == {k \in Stamped : \A l \in Stamped : row[l].stamp <= row[k].stamp}
  <2>0. By[r] \in ValuesOf("by")
    BY <1>0 DEF ValuesOf
  <2>1. CASE newest = {}
    <3> DEFINE k == <<"countdown", r>>
               v == [date |-> r, by |-> By[r]]
    <3>1. Begin(r, k, "insert", v, TRUE, "insert")
      BY <1>13, <2>1 DEF SetCountdown
    <3>2. k \in Countdowns
      BY DEF Countdowns
    <3>3. \A a \in DOMAIN v : a # "stamp" /\ v[a] \in ValuesOf(a)
      BY <1>b, <2>0
    <3> HIDE DEF k, v
    <3> QED
      BY <1>a, <1>d, <3>1, <3>2, <3>3
  <2>2. CASE newest # {}
    <3> DEFINE v == [date |-> r, by |-> By[r], stamp |-> Clock]
    <3>1. PICK k \in newest : Begin(r, k, "update", v, TRUE, "commit")
      BY <1>13, <2>2 DEF SetCountdown
    <3>2. k \in Countdowns /\ Exists(k) /\ k \in Keys /\ k \notin Settings
      BY <1>d, <3>1 DEF Stamped
    <3>3. Clock \in ValuesOf("stamp")
      BY ClockTicks DEF RowsTyped, ValuesOf
    <3>4. (\A a \in DOMAIN v : v[a] \in ValuesOf(a)) /\ v["stamp"] = Clock
      BY <1>b, <2>0, <3>3
    <3> HIDE DEF v
    <3>5. Fits(k, "update", v, TRUE, "commit")
      BY <3>2, <3>4 DEF Fits
    <3> QED
      BY <3>1, <3>5, BeginFits
  <2> QED
    BY <2>1, <2>2
<1>14. ASSUME FirstRun(r)
       PROVE  RowsTyped'
  <2> DEFINE v == [value |-> r]
  <2>1. Begin(r, Password, "update", v, ~Exists(Password), "recheck")
    BY <1>14 DEF FirstRun
  <2>2. \A a \in DOMAIN v : a # "stamp" /\ v[a] \in ValuesOf(a)
    BY <1>b
  <2>3. Password \in Keys \ Settings
    BY <1>0, TablesAssumption
  <2> HIDE DEF v
  <2> QED
    BY <1>a, <2>1, <2>2, <2>3
<1> QED
  BY <1>1, <1>2, <1>3, <1>4, <1>5, <1>6, <1>7, <1>8, <1>9, <1>10, <1>11, <1>12, <1>13, <1>14 DEF Start

\* A request that has begun changes no row but its own.
LEMMA OnwardFits ==
  ASSUME RowsTyped, RowsKnown', NEW k \in Keys,
         \A q \in Reqs : /\ call'[q].key = call[q].key /\ call'[q].values = call[q].values
                         /\ call'[q].how \in {"none", "insert", "update", "delete"}
                         /\ stage'[q] = "commit" => IsRow(call[q].key, found'[q]),
         \A l \in Keys \ {k} : row'[l] = row[l],
         row'[k] = NoRow \/ IsRow(k, row'[k]),
         k \in Countdowns /\ row'[k] # NoRow =>
           \A n \in Nat : ClockBelow(n) => row'[k].stamp <= n + 1
  PROVE  RowsTyped'
<1>1. PICK n \in Nat : ClockBelow(n)
  BY DEF RowsTyped
<1>2. RowsTypeOK
  BY DEF RowsTyped
<1>3. \A l \in Keys : row'[l] = NoRow \/ IsRow(l, row'[l])
  BY <1>2 DEF RowsTypeOK
<1>4. RowsTypeOK'
  <2>1. /\ stage' \in [Reqs -> Stages] /\ untold' \in [Reqs -> SUBSET Spouses]
        /\ before' \in [Reqs -> SUBSET Reqs]
    BY DEF RowsKnown
  <2>2. \A q \in Reqs :
          /\ call'[q].key \in Keys \cup {Nothing}
          /\ \A a \in DOMAIN call'[q].values : call'[q].values[a] \in ValuesOf(a)
          /\ call'[q].key \in Settings => call'[q].values["value"] \in {"on", "off"}
    BY <1>2 DEF RowsTypeOK
  <2> QED
    BY <1>3, <2>1, <2>2 DEF RowsTypeOK
<1>5. ClockBelow(n + 1)'
  <2>1. ASSUME NEW q \in Reqs, "stamp" \in DOMAIN call'[q].values
        PROVE  call'[q].values.stamp <= n + 1
    <3>1. call[q].values.stamp <= n /\ call[q].values.stamp \in Nat
      BY <1>1, <1>2, <2>1, StampsAreNumbers DEF ClockBelow
    <3> QED
      BY <3>1
  <2>2. ASSUME NEW l \in Stamped'
        PROVE  row'[l].stamp <= n + 1
    <3>1. l \in Countdowns /\ l \in Keys /\ row'[l] # NoRow
      BY <2>2 DEF Stamped, Exists, Keys
    <3>2. CASE l = k
      BY <1>1, <3>1, <3>2
    <3>3. CASE l # k
      <4>1. row'[l] = row[l] /\ l \in Stamped
        BY <3>1, <3>3 DEF Stamped, Exists
      <4>2. row[l].stamp <= n /\ row[l].stamp \in Nat
        BY <1>1, <1>2, <4>1, StampsAreNumbers DEF ClockBelow
      <4> QED
        BY <4>1, <4>2
    <3> QED
      BY <3>2, <3>3
  <2> QED
    BY <2>1, <2>2 DEF ClockBelow
<1>6. n + 1 \in Nat
  OBVIOUS
<1> QED
  BY <1>4, <1>5, <1>6 DEF RowsTyped

LEMMA RecheckFits ==
  ASSUME RowsTyped, RowsKnown, RowsKnown', NEW r \in Reqs, Recheck(r)
  PROVE  RowsTyped'
<1>1. RowsTypeOK /\ Password \in Keys /\ call[r].key = Password /\ stage[r] = "recheck"
      /\ DOMAIN call = Reqs /\ DOMAIN found = Reqs /\ stage \in [Reqs -> Stages] /\ CallKnown(r)
  BY DEF RowsTyped, RowsKnown, CallKnown, Recheck, Keys
<1>2. PICK how \in {"update", "insert"}, s \in {"commit", "insert"} :
        /\ call' = [call EXCEPT ![r].how = how] /\ stage' = [stage EXCEPT ![r] = s]
        /\ found' = [found EXCEPT ![r] = row[Password]] /\ row' = row
        /\ s = "commit" => Exists(Password)
  BY DEF Recheck, Goto
<1>3. call[r] = [key |-> Password, how |-> call[r].how, values |-> call[r].values]
  BY <1>1 DEF CallKnown
<1>4. ASSUME NEW q \in Reqs
      PROVE  /\ call'[q].key = call[q].key /\ call'[q].values = call[q].values
             /\ call'[q].how \in {"none", "insert", "update", "delete"}
             /\ stage'[q] = "commit" => IsRow(call[q].key, found'[q])
  <2>1. CASE q = r
    <3>1. call'[r] = [call[r] EXCEPT !.how = how]
      BY <1>1, <1>2
    <3>2. call'[r].key = call[r].key /\ call'[r].values = call[r].values /\ call'[r].how = how
      BY <1>3, <3>1
    <3>3. s = "commit" => IsRow(Password, row[Password])
      BY <1>1, <1>2 DEF RowsTypeOK, Exists
    <3> QED
      BY <1>1, <1>2, <2>1, <3>2, <3>3
  <2>2. CASE q # r
    BY <1>1, <1>2, <2>2 DEF RowsTypeOK
  <2> QED
    BY <2>1, <2>2
<1>5. Password \notin Countdowns
  BY TablesAssumption
<1>6. row'[Password] = NoRow \/ IsRow(Password, row'[Password])
  BY <1>1, <1>2 DEF RowsTypeOK
<1> QED
  BY <1>1, <1>2, <1>4, <1>5, <1>6, OnwardFits

\* So of the other steps, that change no call.
LEMMA CommitFits ==
  ASSUME RowsTyped, RowsKnown, RowsKnown', NEW r \in Reqs, stage[r] # "new",
         call' = call, NEW k, k = call[r].key,
         NEW v, row'[k] = v, \A l \in Keys \ {k} : row'[l] = row[l],
         v = NoRow \/ IsRow(k, v),
         k \in Countdowns /\ v # NoRow => \A n \in Nat : ClockBelow(n) => v.stamp <= n + 1,
         \A q \in Reqs \ {r} : stage'[q] = stage[q] /\ found'[q] = found[q],
         stage'[r] = "commit" => IsRow(k, found'[r])
  PROVE  RowsTyped'
<1>1. RowsTypeOK /\ k \in Keys
  BY DEF RowsTyped, RowsKnown, CallKnown
<1>2. \A q \in Reqs : stage'[q] = "commit" => IsRow(call[q].key, found'[q])
  BY <1>1 DEF RowsTypeOK
<1>3. \A q \in Reqs : call'[q].key = call[q].key /\ call'[q].values = call[q].values
                      /\ call'[q].how \in {"none", "insert", "update", "delete"}
  BY <1>1 DEF RowsTypeOK
<1> QED
  BY <1>1, <1>2, <1>3, OnwardFits

\* The rows, where a request is about to commit, and as they may stay.
LEMMA OwnRow ==
  ASSUME RowsTyped, RowsKnown, NEW r \in Reqs, stage[r] # "new", NEW k, k = call[r].key
  PROVE  /\ k \in Keys /\ DOMAIN row = Keys /\ DOMAIN found = Reqs /\ stage \in [Reqs -> Stages]
         /\ DOMAIN call[r].values \subseteq Attributes(k)
         /\ \A a \in DOMAIN call[r].values : call[r].values[a] \in ValuesOf(a)
         /\ row[k] = NoRow \/ IsRow(k, row[k])
         /\ stage[r] = "commit" => IsRow(k, found[r])
         /\ k \in Countdowns /\ row[k] # NoRow => \A n \in Nat : ClockBelow(n) => row[k].stamp <= n + 1
<1>1. RowsTypeOK /\ CallKnown(r)
  BY DEF RowsTyped, RowsKnown
<1>2. /\ k \in Keys /\ DOMAIN row = Keys /\ DOMAIN found = Reqs /\ stage \in [Reqs -> Stages]
      /\ DOMAIN call[r].values \subseteq Attributes(k)
  BY <1>1 DEF RowsKnown, CallKnown
<1>3. /\ \A a \in DOMAIN call[r].values : call[r].values[a] \in ValuesOf(a)
      /\ row[k] = NoRow \/ IsRow(k, row[k])
      /\ stage[r] = "commit" => IsRow(k, found[r])
  BY <1>1, <1>2 DEF RowsTypeOK
<1>4. ASSUME k \in Countdowns, row[k] # NoRow, NEW n \in Nat, ClockBelow(n)
      PROVE  row[k].stamp <= n + 1
  <2>1. k \in Stamped
    BY <1>4 DEF Stamped, Exists
  <2>2. row[k].stamp <= n /\ row[k].stamp \in Nat
    BY <1>1, <1>4, <2>1, StampsAreNumbers DEF ClockBelow
  <2> QED
    BY <2>2
<1> QED
  BY <1>2, <1>3, <1>4

\* A request that fails leaves every row as it was.
LEMMA FailFits ==
  ASSUME RowsTyped, RowsKnown, RowsKnown', NEW r \in Reqs, stage[r] # "new", Fail(r),
         call' = call
  PROVE  RowsTyped'
<1>1. PICK k : k = call[r].key
  OBVIOUS
<1>2. stage' = [stage EXCEPT ![r] = "failed"] /\ row' = row /\ found' = found
  BY DEF Fail, Goto
<1>3. stage'[r] # "commit" /\ \A q \in Reqs \ {r} : stage'[q] = stage[q] /\ found'[q] = found[q]
  BY <1>1, <1>2, OwnRow
<1>4. PICK v : v = row[k]
  OBVIOUS
<1>5. row'[k] = v /\ \A l \in Keys \ {k} : row'[l] = row[l]
  BY <1>2, <1>4
<1> QED
  BY <1>1, <1>2, <1>3, <1>4, <1>5, OwnRow, CommitFits

LEMMA AfterCommitEnds ==
  ASSUME NEW r \in Reqs, stage \in [Reqs -> Stages], AfterCommit(r)
  PROVE  stage'[r] # "commit" /\ \A q \in Reqs \ {r} : stage'[q] = stage[q]
BY DEF AfterCommit, Goto

LEMMA InsertFits ==
  ASSUME RowsTyped, RowsKnown, RowsKnown', NEW r \in Reqs, Insert(r)
  PROVE  RowsTyped'
<1>1. PICK k : k = call[r].key
  OBVIOUS
<1>2. /\ stage[r] # "new" /\ k \notin Countdowns /\ call' = call
  BY <1>1 DEF Insert
<1>3. /\ k \in Keys /\ DOMAIN row = Keys /\ DOMAIN found = Reqs /\ stage \in [Reqs -> Stages]
      /\ DOMAIN call[r].values \subseteq Attributes(k)
      /\ \A a \in DOMAIN call[r].values : call[r].values[a] \in ValuesOf(a)
  BY <1>1, <1>2, OwnRow
<1>4. IsRow(k, Blank(k))
  BY <1>2, <1>3, BlankFits
<1>5. CASE Exists(k)
  BY <1>1, <1>2, <1>5, FailFits DEF Insert
<1>6. CASE ~Exists(k) /\ k \in Profiles
  <2>1. PICK s, v : /\ v = Blank(k) /\ row' = [row EXCEPT ![k] = v] /\ found' = [found EXCEPT ![r] = v]
                    /\ stage' = [stage EXCEPT ![r] = s]
    BY <1>1, <1>6 DEF Insert, Goto
  <2>2. IsRow(k, v) /\ found'[r] = v /\ row'[k] = v /\ \A l \in Keys \ {k} : row'[l] = row[l]
    BY <1>3, <1>4, <2>1
  <2>3. \A q \in Reqs \ {r} : stage'[q] = stage[q] /\ found'[q] = found[q]
    BY <1>3, <2>1
  <2> QED
    BY <1>1, <1>2, <1>3, <2>1, <2>2, <2>3, CommitFits
<1>7. CASE ~Exists(k) /\ k \notin Profiles
  <2>1. PICK v : v = Overlay(call[r].values, Blank(k)) /\ row' = [row EXCEPT ![k] = v]
                 /\ AfterCommit(r) /\ found' = found
    BY <1>1, <1>2, <1>7 DEF Insert
  <2>2. IsRow(k, v)
    <3>1. RowLike(k, v) /\ DOMAIN Blank(k) = Attributes(k)
      BY <2>1, BlankIsRow
    <3>2. \A a \in Attributes(k) : v[a] \in ValuesOf(a)
      BY <1>3, <1>4, <2>1, <3>1 DEF Overlay, IsRow
    <3> QED
      BY <3>1, <3>2 DEF IsRow
  <2>3. stage'[r] # "commit" /\ \A q \in Reqs \ {r} : stage'[q] = stage[q]
    BY <1>3, <2>1, AfterCommitEnds
  <2>4. row'[k] = v /\ \A l \in Keys \ {k} : row'[l] = row[l]
    BY <1>3, <2>1
  <2> QED
    BY <1>1, <1>2, <1>3, <2>1, <2>2, <2>3, <2>4, CommitFits
<1> QED
  BY <1>5, <1>6, <1>7

LEMMA InsertCountdownFits ==
  ASSUME RowsTyped, RowsKnown, RowsKnown', NEW r \in Reqs, InsertCountdown(r)
  PROVE  RowsTyped'
<1>1. PICK k : k = call[r].key
  OBVIOUS
<1>2. PICK v : v = [date |-> r, by |-> By[r], stamp |-> Clock]
  OBVIOUS
<1>3. /\ stage[r] # "new" /\ k \in Countdowns /\ call' = call
      /\ row' = [row EXCEPT ![k] = v] /\ found' = found /\ stage' = [stage EXCEPT ![r] = "done"]
  BY <1>1, <1>2 DEF InsertCountdown, Goto
<1>4. DOMAIN row = Keys /\ stage \in [Reqs -> Stages] /\ RowsTypeOK
  BY <1>1, <1>3, OwnRow DEF RowsTyped
<1>5. Clock \in Nat /\ \A n \in Nat : ClockBelow(n) => Clock <= n + 1
  BY <1>4, ClockTicks DEF RowsTyped
<1>6. IsRow(k, v)
  <2>1. Attributes(k) = {"date", "by", "stamp"} /\ By[r] \in Spouses
    BY <1>3, Tables, SharedRowsAssumption
  <2>2. RowLike(k, v)
    BY <1>2, <2>1 DEF RowLike
  <2>3. v["date"] \in ValuesOf("date") /\ v["by"] \in ValuesOf("by") /\ v["stamp"] \in ValuesOf("stamp")
    BY <1>2, <1>5, <2>1 DEF ValuesOf
  <2> QED
    BY <2>1, <2>2, <2>3 DEF IsRow
<1>7. v.stamp = Clock
  BY <1>2
<1>8. stage'[r] # "commit" /\ \A q \in Reqs \ {r} : stage'[q] = stage[q] /\ found'[q] = found[q]
  BY <1>3, <1>4
<1>9. row'[k] = v /\ \A l \in Keys \ {k} : row'[l] = row[l]
  BY <1>1, <1>3, <1>4, OwnRow
<1> QED
  BY <1>1, <1>3, <1>4, <1>5, <1>6, <1>7, <1>8, <1>9, CommitFits

LEMMA UpdateFits ==
  ASSUME RowsTyped, RowsKnown, RowsKnown', NEW r \in Reqs, Update(r)
  PROVE  RowsTyped'
<1>1. PICK k : k = call[r].key
  OBVIOUS
<1>2. PICK changed : changed = {a \in DOMAIN call[r].values : call[r].values[a] # found[r][a]}
  OBVIOUS
<1>3. /\ stage[r] = "commit" /\ stage[r] # "new" /\ call' = call
  BY DEF Update
<1>4. /\ k \in Keys /\ DOMAIN row = Keys /\ stage \in [Reqs -> Stages]
      /\ DOMAIN call[r].values \subseteq Attributes(k)
      /\ \A a \in DOMAIN call[r].values : call[r].values[a] \in ValuesOf(a)
      /\ row[k] = NoRow \/ IsRow(k, row[k])
  BY <1>1, <1>3, OwnRow
<1>5. CASE ~Exists(k)
  BY <1>1, <1>3, <1>5, FailFits DEF Update
<1>6. CASE Exists(k)
  <2>1. PICK v : /\ v = [a \in DOMAIN row[k] |-> IF a \in changed THEN call[r].values[a] ELSE row[k][a]]
                 /\ row' = [row EXCEPT ![k] = v]
    BY <1>1, <1>2, <1>6 DEF Update
  <2>2. AfterCommit(r) /\ found' = found
    BY <1>1, <1>6 DEF Update
  <2>3. IsRow(k, row[k]) /\ DOMAIN row[k] = Attributes(k)
    BY <1>4, <1>6 DEF Exists, IsRow, RowLike
  <2>4. RowLike(k, v)
    BY <2>1, <2>3 DEF RowLike
  <2>5. \A a \in Attributes(k) : v[a] \in ValuesOf(a)
    BY <1>2, <1>4, <2>1, <2>3 DEF IsRow
  <2>6. IsRow(k, v)
    BY <2>4, <2>5 DEF IsRow
  <2>7. row'[k] = v /\ \A l \in Keys \ {k} : row'[l] = row[l]
    BY <1>4, <2>1
  <2>8. stage'[r] # "commit" /\ \A q \in Reqs \ {r} : stage'[q] = stage[q]
    BY <1>4, <2>2, AfterCommitEnds
  <2>9. ASSUME k \in Countdowns, NEW n \in Nat, ClockBelow(n)
        PROVE  v.stamp <= n + 1
    <3>1. row[k].stamp <= n + 1
      BY <1>1, <1>3, <1>6, <2>9, OwnRow DEF Exists
    <3>2. "stamp" \in Attributes(k)
      BY <2>9, Tables
    <3>3. CASE "stamp" \in changed
      <4>1. /\ v.stamp = call[r].values.stamp /\ "stamp" \in DOMAIN call[r].values
        BY <1>2, <2>1, <2>3, <3>2, <3>3
      <4>2. call[r].values.stamp <= n /\ call[r].values.stamp \in Nat
        BY <2>9, <4>1, StampsAreNumbers DEF ClockBelow, RowsTyped
      <4> QED
        BY <4>1, <4>2
    <3>4. CASE "stamp" \notin changed
      <4>1. v.stamp = row[k].stamp
        BY <2>1, <2>3, <3>2, <3>4
      <4> QED
        BY <3>1, <4>1
    <3> QED
      BY <3>3, <3>4
  <2> QED
    BY <1>1, <1>3, <2>2, <2>6, <2>7, <2>8, <2>9, CommitFits
<1> QED
  BY <1>5, <1>6

LEMMA DeleteFits ==
  ASSUME RowsTyped, RowsKnown, RowsKnown', NEW r \in Reqs, Delete(r)
  PROVE  RowsTyped'
<1>1. PICK k : k = call[r].key
  OBVIOUS
<1>2. PICK v : /\ v \in {NoRow, row[k]} /\ row' = [row EXCEPT ![k] = v]
  BY <1>1 DEF Delete
<1>3. /\ stage[r] # "new" /\ call' = call
      /\ found' = found /\ stage' = [stage EXCEPT ![r] = "done"]
  BY DEF Delete, Goto
<1>4. /\ DOMAIN row = Keys /\ k \in Keys /\ stage \in [Reqs -> Stages]
      /\ v = NoRow \/ IsRow(k, v)
      /\ k \in Countdowns /\ v # NoRow => \A n \in Nat : ClockBelow(n) => v.stamp <= n + 1
  BY <1>1, <1>2, <1>3, OwnRow
<1>5. row'[k] = v /\ \A l \in Keys \ {k} : row'[l] = row[l]
  BY <1>2, <1>4
<1>6. stage'[r] # "commit" /\ \A q \in Reqs \ {r} : stage'[q] = stage[q] /\ found'[q] = found[q]
  BY <1>3, <1>4
<1> QED
  BY <1>1, <1>3, <1>4, <1>5, <1>6, CommitFits

LEMMA TellFits ==
  ASSUME RowsTyped, RowsKnown, RowsKnown', NEW r \in Reqs, NEW s \in Spouses, Tell(r, s)
  PROVE  RowsTyped'
<1>1. PICK k : k = call[r].key
  OBVIOUS
<1>2. /\ stage[r] = "tell" /\ stage[r] # "new" /\ call' = call /\ row' = row /\ found' = found
      /\ \E t \in {"done", "tell", "failed"} : stage' = [stage EXCEPT ![r] = t]
  BY <1>1 DEF Tell, Goto
<1>3. RowsTypeOK /\ k \in Settings /\ k \in Keys
  BY <1>1, <1>2 DEF RowsTyped, RowsKnown, CallKnown
<1>4. \A q \in Reqs : /\ call'[q].key = call[q].key /\ call'[q].values = call[q].values
                      /\ call'[q].how \in {"none", "insert", "update", "delete"}
                      /\ stage'[q] = "commit" => IsRow(call[q].key, found'[q])
  BY <1>2, <1>3 DEF RowsTypeOK
<1>5. k \notin Countdowns /\ (row'[k] = NoRow \/ IsRow(k, row'[k]))
  BY <1>2, <1>3, TablesAssumption DEF RowsTypeOK
<1> QED
  BY <1>2, <1>3, <1>4, <1>5, OnwardFits

LEMMA TypedAtFirst ==
  ASSUME RowsInit PROVE RowsTyped
<1>1. PICK there \in SUBSET (Phrases \cup Items) :
        row = [k \in Keys |-> IF k \in there THEN Blank(k) ELSE NoRow]
  BY DEF RowsInit
<1>2. \A k \in Keys : row[k] = NoRow \/ (k \in Phrases \cup Items /\ row[k] = Blank(k))
  BY <1>1
<1>3. \A k \in Phrases \cup Items : k \notin Countdowns
  BY TablesAssumption
<1>4. \A k \in Keys : row[k] = NoRow \/ IsRow(k, row[k])
  BY <1>2, <1>3, BlankFits
<1>5. \A r \in Reqs : /\ call[r].key = Nothing /\ call[r].how = "none" /\ DOMAIN call[r].values = {}
                      /\ stage[r] = "new"
  <2>1. DOMAIN << >> = {}
    OBVIOUS
  <2> QED
    BY <2>1 DEF RowsInit, NoCall
<1>6. Nothing \notin Settings
  BY TablesAssumption DEF Keys
<1>7. RowsTypeOK
  <2>1. /\ stage \in [Reqs -> Stages]
        /\ untold \in [Reqs -> SUBSET Spouses] /\ before \in [Reqs -> SUBSET Reqs]
    BY DEF RowsInit, Stages
  <2> QED
    BY <1>4, <1>5, <1>6, <2>1 DEF RowsTypeOK
<1>8. Stamped = {}
  BY <1>2, <1>3 DEF Stamped, Exists, Keys
<1>9. ClockBelow(0) /\ 0 \in Nat
  BY <1>5, <1>8 DEF ClockBelow
<1> QED
  BY <1>7, <1>9 DEF RowsTyped

\* RowsInv (phrase.py:66-112, profile.py:50-153, wishlist.py:45-75, content.py:243-258,
\* admin.py:82-90): every value keeps to its column, the last change of each attribute
\* is known to whoever overwrites it, and the screens follow what is told.
THEOREM RowsInvariance == RowsSpec => []RowsInv
<1>1. RowsInit => RowsTyped
  BY TypedAtFirst
<1>2. RowsTyped /\ RowsKnown /\ RowsKnown' /\ [RowsNext]_rowVars => RowsTyped'
  <2> SUFFICES ASSUME RowsTyped, RowsKnown, RowsKnown', [RowsNext]_rowVars PROVE RowsTyped'
    OBVIOUS
  <2>1. ASSUME NEW r \in Reqs,
               \/ Start(r) \/ Recheck(r) \/ Insert(r) \/ InsertCountdown(r) \/ Update(r) \/ Delete(r)
               \/ \E s \in Spouses : Tell(r, s)
        PROVE  RowsTyped'
    BY <2>1, StartFits, RecheckFits, InsertFits, InsertCountdownFits, UpdateFits, DeleteFits, TellFits
  <2>2. CASE UNCHANGED tableVars
    BY <2>2 DEF tableVars, RowsTyped, RowsTypeOK, ClockBelow, Stamped, Exists
  <2>3. PhoneStep \/ UNCHANGED rowVars => UNCHANGED tableVars
    BY DEF PhoneStep, Flip, Load, ShowLoaded, Restart, rowVars, tableVars
  <2> QED
    BY <2>1, <2>2, <2>3 DEF RowsNext
<1>3. RowsTyped /\ RowsKnown => RowsInv
  BY DEF RowsTyped, RowsInv
<1> QED
  BY <1>1, <1>2, <1>3, RowsAreKnown, PTL DEF RowsSpec

\* NothingLost (phrase.py:66-112, profile.py:50-144, wishlist.py:45-75,
\* content.py:243-258, admin.py:82-90): no answered change is lost to one that
\* ended before it began, for any number of requests at once.
THEOREM NoChangeIsLost == RowsSpec => []NothingLost
<1>1. RowsKnown => NothingLost
  <2> SUFFICES ASSUME RowsKnown, NEW k \in Keys, NEW a \in Attributes(k)
      PROVE  \/ \E w \in Writers(k, a) :
                  call[w].values[a] = Now(k, a) /\ Current(w, Writers(k, a))
             \/ Writers(k, a) \cap Answered = {}
    BY DEF NothingLost
  <2>1. LastIsKnown(k, a)
    BY DEF RowsKnown
  <2>2. CASE \E w \in Reqs : LastSet(w, k, a)
    BY <2>2 DEF LastSet, Current, Answered, Through
  <2>3. CASE \A x \in Writers(k, a) : ~Through(x)
    BY <2>3 DEF Answered, Through
  <2> QED BY <2>1, <2>2, <2>3 DEF LastIsKnown
<1> QED BY <1>1, RowsAreKnown, PTL

\* ScreensAgree (profile.py:146-153, session_provider.dart:59-101): once all changes
\* of a setting are through, none of which overlapped another or failed, a phone shows
\* what is stored unless it has missed some news: whoever had no connection, has
\* toggled since, was started again or got a load that came late.
THEOREM ScreensComeToAgree == RowsSpec => []ScreensAgree
<1>1. RowsKnown => ScreensAgree
  <2> SUFFICES ASSUME RowsKnown, NEW k \in Settings, NEW p \in Phones,
                      Writers(k, "value") # {}, Writers(k, "value") \subseteq Answered,
                      \A q, r \in Writers(k, "value") : q = r \/ q \in before[r] \/ r \in before[q]
      PROVE  missed[<<p, k>>] \/ screen[<<p, k>>] = Shown(Now(k, "value"))
    BY DEF ScreensAgree
  <2>1. InTurn(k)
    BY DEF InTurn, Answered
  <2>2. PhonesFollow(k)
    BY <2>1 DEF RowsKnown, ScreensFollow
  <2>3. \A x \in Writers(k, "value") : stage[x] # "tell"
    BY DEF Answered
  <2> QED BY <2>2, <2>3 DEF PhonesFollow
<1> QED BY <1>1, RowsAreKnown, PTL

-----------------------------------------------------------------------------
(* Media: the server's side.                                               *)

\* A step that leaves the server alone.
LEMMA ServerUnchanged ==
  ASSUME ServerInv, UNCHANGED serverVars
  PROVE  ServerInv'
<1>1. stored' = stored /\ asset' = asset /\ at' = at /\ job' = job /\ loaded' = loaded
  BY DEF serverVars
<1>2. \A u : UploadKnown(u)' = UploadKnown(u)
  BY <1>1 DEF UploadKnown, Named, IsChunked
<1>3. MediaKept' = MediaKept
  BY <1>1 DEF MediaKept, IsChunked
<1> QED BY <1>1, <1>2, <1>3 DEF ServerInv

\* A request is accepted: an upload, the first, or one about the row there is.
LEMMA AcceptKeeps ==
  ASSUME ServerInv, NEW u \in Uploads, NEW next \in {"put", "thumb", "refused"},
         NEW what \in [op : {"upload", "thumbnail", "convert"}, chunked : BOOLEAN, thumb : BOOLEAN],
         Accept(u, what, next),
         what.op = "upload" => /\ asset = Absent /\ next = "put"
                               /\ \A v \in Uploads : job[v].op = "none",
         what.op # "upload" => asset # Absent,
         what.op = "thumbnail" => what.thumb /\ ~what.chunked /\ next = "thumb",
         what.op = "convert" => /\ what.chunked /\ ~what.thumb /\ next \in {"put", "refused"}
                                /\ next = "put" => ~asset.chunked
  PROVE  ServerInv'
<1>1. /\ at[u] = "new" /\ job' = [job EXCEPT ![u] = what]
      /\ loaded' = [loaded EXCEPT ![u] = asset] /\ at' = [at EXCEPT ![u] = next]
      /\ stored' = stored /\ asset' = asset
  BY DEF Accept, Advance
<1>2. /\ at \in [Uploads -> UploadStages] /\ loaded \in [Uploads -> AssetRow \cup {Absent}]
      /\ job \in [Uploads -> [op : {"none", "upload", "thumbnail", "convert"},
                              chunked : BOOLEAN, thumb : BOOLEAN]]
      /\ asset \in AssetRow \cup {Absent}
      /\ \A v \in Uploads : UploadKnown(v)
      /\ \A v, w \in Uploads : job[v].op = "upload" /\ job[w].op = "upload" => v = w
  BY DEF ServerInv
<1>3. /\ at'[u] = next /\ job'[u] = what /\ loaded'[u] = asset
      /\ \A v \in Uploads \ {u} : at'[v] = at[v] /\ job'[v] = job[v] /\ loaded'[v] = loaded[v]
  BY <1>1, <1>2
<1>4. at' \in [Uploads -> UploadStages] /\ loaded' \in [Uploads -> AssetRow \cup {Absent}]
      /\ job' \in [Uploads -> [op : {"none", "upload", "thumbnail", "convert"},
                               chunked : BOOLEAN, thumb : BOOLEAN]]
  BY <1>1, <1>2 DEF UploadStages
<1>5. job[u].op = "none"
  BY <1>1, <1>2 DEF UploadKnown
<1>6. asset # Absent => asset.object \in Uploads /\ asset.object # u
  BY <1>2, <1>5 DEF ServerInv, AssetRow
<1>7. asset # Absent /\ ~asset.chunked => job[asset.object].op = "upload"
  BY DEF ServerInv
<1>8. ASSUME NEW v \in Uploads, loaded[v] # Absent, v # u
      PROVE  loaded[v].object \in Uploads
             /\ (job[loaded[v].object].op = "upload" => job'[loaded[v].object].op = "upload")
  BY <1>8, <1>2, <1>3, <1>5 DEF AssetRow
<1>9. ASSUME NEW v \in Uploads
      PROVE  UploadKnown(v)'
  <2>1. CASE v = u
    <3>1. what.op = "convert" /\ next # "refused" => job'[asset.object].op = "upload"
      BY <1>3, <1>6, <1>7
    <3> QED BY <2>1, <3>1, <1>1, <1>3 DEF UploadKnown, Named
  <2>2. CASE v # u
    <3>1. UploadKnown(v) /\ at'[v] = at[v] /\ job'[v] = job[v] /\ loaded'[v] = loaded[v]
      BY <2>2, <1>2, <1>3
    <3> QED BY <2>2, <3>1, <1>1, <1>8 DEF UploadKnown, Named, IsChunked
  <2> QED BY <2>1, <2>2
<1>10. \A v, w \in Uploads : job'[v].op = "upload" /\ job'[w].op = "upload" => v = w
  BY <1>2, <1>3
<1>11. asset # Absent =>
         /\ at'[asset.object] = "done"
         /\ job'[asset.object].op \in {"upload", "convert"}
         /\ ~asset.chunked => job'[asset.object].op = "upload"
         /\ MediaKept'
  <2> SUFFICES ASSUME asset # Absent
               PROVE  /\ at'[asset.object] = "done"
                      /\ job'[asset.object].op \in {"upload", "convert"}
                      /\ ~asset.chunked => job'[asset.object].op = "upload"
                      /\ MediaKept'
    OBVIOUS
  <2>1. job'[asset.object] = job[asset.object] /\ at'[asset.object] = at[asset.object]
    BY <1>3, <1>6
  <2>2. MediaKept
    BY DEF ServerInv
  <2>3. \A v \in Uploads : job'[v].op = "upload" => job[v].op = "upload"
    BY <1>3
  <2>4. MediaKept'
    BY <2>1, <2>2, <2>3, <1>1 DEF MediaKept, IsChunked
  <2> QED BY <2>1, <2>4 DEF ServerInv
<1> QED BY <1>1, <1>4, <1>9, <1>10, <1>11 DEF ServerInv

\* An object is put into the bucket, or the request fails.
LEMMA PutKeeps ==
  ASSUME ServerInv, NEW u \in Uploads, Put(u) \/ PutThumbnail(u)
  PROVE  ServerInv'
<1>1. PICK s \in {"thumb", "commit", "failed"} : at' = [at EXCEPT ![u] = s]
  BY DEF Put, PutThumbnail, Advance
<1>2. /\ at \in [Uploads -> UploadStages] /\ stored \subseteq Uploads \X {"raw", "thumb"}
      /\ job \in [Uploads -> [op : {"none", "upload", "thumbnail", "convert"},
                              chunked : BOOLEAN, thumb : BOOLEAN]]
      /\ \A v \in Uploads : UploadKnown(v)
  BY DEF ServerInv
<1>3. at'[u] = s /\ \A v \in Uploads \ {u} : at'[v] = at[v]
  BY <1>1, <1>2
<1>4. asset' = asset /\ job' = job /\ loaded' = loaded
  BY DEF Put, PutThumbnail
<1>5. /\ at[u] \in {"put", "thumb"} /\ stored \subseteq stored'
      /\ stored' \subseteq stored \cup {<<u, "raw">>, <<u, "thumb">>}
      /\ at[u] = "put" /\ s # "failed" => <<u, "raw">> \in stored'
      /\ at[u] = "thumb" /\ s # "failed" => <<u, "thumb">> \in stored' /\ s = "commit"
      /\ at[u] = "put" /\ s = "commit" => ~job[u].thumb
  <2>1. CASE Put(u)
    <3>1. CASE stored' = stored \cup {<<u, "raw">>} /\ at' = [at EXCEPT ![u] = IF job[u].thumb THEN "thumb" ELSE "commit"]
      <4>1. s = IF job[u].thumb THEN "thumb" ELSE "commit"
        BY <3>1, <1>2, <1>3
      <4> QED BY <2>1, <3>1, <4>1 DEF Put
    <3>2. CASE at' = [at EXCEPT ![u] = "failed"] /\ stored' = stored
      <4>1. s = "failed"
        BY <3>2, <1>2, <1>3
      <4> QED BY <2>1, <3>2, <4>1 DEF Put
    <3> QED BY <2>1, <3>1, <3>2 DEF Put, Advance
  <2>2. CASE PutThumbnail(u)
    <3>1. CASE stored' = stored \cup {<<u, "thumb">>} /\ at' = [at EXCEPT ![u] = "commit"]
      <4>1. s = "commit"
        BY <3>1, <1>2, <1>3
      <4> QED BY <2>2, <3>1, <4>1 DEF PutThumbnail
    <3>2. CASE at' = [at EXCEPT ![u] = "failed"] /\ stored' = stored
      <4>1. s = "failed"
        BY <3>2, <1>2, <1>3
      <4> QED BY <2>2, <3>2, <4>1 DEF PutThumbnail
    <3> QED BY <2>2, <3>1, <3>2 DEF PutThumbnail, Advance
  <2> QED BY <2>1, <2>2
<1>6. ASSUME NEW v \in Uploads
      PROVE  UploadKnown(v)'
  <2>1. UploadKnown(v)
    BY <1>2
  <2>2. CASE v = u
    BY <2>1, <2>2, <1>3, <1>4, <1>5 DEF UploadKnown, Named
  <2>3. CASE v # u
    BY <2>1, <2>3, <1>3, <1>4, <1>5 DEF UploadKnown, Named, IsChunked
  <2> QED BY <2>2, <2>3
<1>7. asset # Absent => MediaKept' /\ at'[asset.object] = "done"
  <2>1. asset # Absent => MediaKept'
    BY <1>4, <1>5 DEF ServerInv, MediaKept, IsChunked
  <2>2. asset # Absent => asset.object \in Uploads \ {u}
    BY <1>5 DEF ServerInv, AssetRow
  <2> QED BY <2>1, <2>2, <1>3 DEF ServerInv
<1>8. at' \in [Uploads -> UploadStages] /\ stored' \subseteq Uploads \X {"raw", "thumb"}
  BY <1>1, <1>2, <1>5 DEF UploadStages
<1> QED BY <1>4, <1>6, <1>7, <1>8 DEF ServerInv

\* The row is written.
LEMMA CommitKeeps ==
  ASSUME ServerInv, NEW u \in Uploads, Commit(u)
  PROVE  ServerInv'
<1>1. /\ at[u] = "commit" /\ at' = [at EXCEPT ![u] = "done"]
      /\ stored' = stored /\ job' = job /\ loaded' = loaded
  BY DEF Commit, Advance
<1>2. /\ at \in [Uploads -> UploadStages] /\ loaded \in [Uploads -> AssetRow \cup {Absent}]
      /\ job \in [Uploads -> [op : {"none", "upload", "thumbnail", "convert"},
                              chunked : BOOLEAN, thumb : BOOLEAN]]
      /\ asset \in AssetRow \cup {Absent}
      /\ \A v \in Uploads : UploadKnown(v)
      /\ \A v, w \in Uploads : job[v].op = "upload" /\ job[w].op = "upload" => v = w
  BY DEF ServerInv
<1>3. at'[u] = "done" /\ \A v \in Uploads \ {u} : at'[v] = at[v]
  BY <1>1, <1>2
<1>4. UploadKnown(u) /\ job[u].op # "none"
  BY <1>1, <1>2 DEF UploadKnown
<1>5. at' \in [Uploads -> UploadStages]
  BY <1>1, <1>2 DEF UploadStages
<1>6. job[u].op \in {"upload", "thumbnail", "convert"} /\ job[u].chunked \in BOOLEAN
      /\ job[u].thumb \in BOOLEAN
  BY <1>2, <1>4
\* Whatever is written, the row is there afterwards, and it is there exactly if
\* the one upload is done.
<1>7. /\ asset' # Absent /\ (job[u].chunked => asset'.chunked)
      /\ asset # Absent /\ asset.chunked => asset'.chunked
      => /\ job[u].op # "upload" => asset # Absent
         /\ \A v \in Uploads : UploadKnown(v)'
  <2> SUFFICES ASSUME asset' # Absent, job[u].chunked => asset'.chunked,
                      asset # Absent /\ asset.chunked => asset'.chunked
               PROVE  /\ job[u].op # "upload" => asset # Absent
                      /\ \A v \in Uploads : UploadKnown(v)'
    OBVIOUS
  <2>1. job[u].op # "upload" => asset # Absent
    BY <1>4 DEF UploadKnown
  <2>2. UploadKnown(u)'
    BY <1>1, <1>3, <1>4 DEF UploadKnown, Named, IsChunked
  <2>3. ASSUME NEW v \in Uploads, v # u
        PROVE  UploadKnown(v)'
    <3>1. UploadKnown(v) /\ at'[v] = at[v]
      BY <2>3, <1>2, <1>3
    <3>2. job[v].op = "upload" => at'[v] = "done"
      <4> SUFFICES ASSUME job[v].op = "upload" PROVE at[v] = "done"
        BY <3>1
      <4>1. job[u].op # "upload"
        BY <2>3, <1>2
      <4> QED BY <3>1, <4>1, <2>1 DEF UploadKnown
    <3> QED BY <3>1, <3>2, <1>1 DEF UploadKnown, Named, IsChunked
  <2> QED BY <2>1, <2>2, <2>3
<1>8. CASE job[u].op = "upload"
  <2>1. asset' = [object |-> u, thumbnail |-> IF job[u].thumb THEN u ELSE Absent,
                  chunked |-> job[u].chunked, legacy |-> Absent]
    BY <1>8 DEF Commit
  <2>2. /\ asset' \in AssetRow /\ asset'.object = u /\ asset'.chunked = job[u].chunked
        /\ asset'.thumbnail = (IF job[u].thumb THEN u ELSE Absent) /\ asset'.legacy = Absent
    BY <2>1, <1>6 DEF AssetRow
  <2>3. asset' # Absent
    BY <2>2, AbsentAssumption
  <2>4. <<u, "raw">> \in stored /\ (job[u].thumb => <<u, "thumb">> \in stored)
    BY <1>1, <1>4, <1>8 DEF UploadKnown
  <2>5. MediaKept'
    BY <2>2, <2>4, <1>1, <1>2, <1>8 DEF MediaKept, IsChunked
  <2>6. asset = Absent
    BY <1>1, <1>4, <1>8 DEF UploadKnown
  <2> QED BY <2>2, <2>3, <2>5, <2>6, <1>1, <1>3, <1>5, <1>7, <1>8 DEF ServerInv
<1>9. CASE job[u].op \in {"thumbnail", "convert"}
  <2>1. asset # Absent /\ asset \in AssetRow /\ MediaKept
    BY <1>2, <1>4, <1>9 DEF UploadKnown, ServerInv
  <2>2. asset = [object |-> asset.object, thumbnail |-> asset.thumbnail,
                 chunked |-> asset.chunked, legacy |-> asset.legacy]
        /\ asset.object \in Uploads /\ asset.thumbnail \in Uploads \cup {Absent}
        /\ asset.chunked \in BOOLEAN /\ asset.legacy \in Uploads \cup {Absent}
    BY <2>1 DEF AssetRow
  <2>3. CASE job[u].op = "thumbnail"
    <3>1. asset' = [asset EXCEPT !.thumbnail = u]
      BY <2>3 DEF Commit
    <3>2. /\ asset' \in AssetRow /\ asset'.object = asset.object /\ asset'.thumbnail = u
          /\ asset'.chunked = asset.chunked /\ asset'.legacy = asset.legacy
      BY <2>1, <2>2, <3>1 DEF AssetRow
    <3>3. asset' # Absent
      BY <3>2, AbsentAssumption
    <3>4. <<u, "thumb">> \in stored
      BY <1>1, <1>4, <2>3 DEF UploadKnown
    <3>5. MediaKept'
      BY <2>1, <3>2, <3>4, <1>1 DEF MediaKept, IsChunked
    <3>6. at'[asset.object] = "done"
      BY <2>1, <2>2, <1>3 DEF ServerInv
    <3>7. ~job[u].chunked
      BY <1>4, <2>3 DEF UploadKnown
    <3> QED BY <2>1, <3>2, <3>3, <3>5, <3>6, <3>7, <1>1, <1>5, <1>7 DEF ServerInv
  <2>4. CASE job[u].op = "convert"
    <3>1. asset' = [asset EXCEPT !.object = u, !.chunked = TRUE, !.legacy = loaded[u].object]
      BY <2>4 DEF Commit
    <3>2. loaded[u] \in AssetRow /\ loaded[u].object \in Uploads
          /\ job[loaded[u].object].op = "upload"
      BY <2>4, <1>1, <1>2, <1>4 DEF UploadKnown, AssetRow
    <3>3. /\ asset' \in AssetRow /\ asset'.object = u /\ asset'.thumbnail = asset.thumbnail
          /\ asset'.chunked = TRUE /\ asset'.legacy = loaded[u].object
      BY <2>1, <2>2, <3>1, <3>2 DEF AssetRow
    <3>4. asset' # Absent
      BY <3>3, AbsentAssumption
    <3>5. <<u, "raw">> \in stored /\ job[u].chunked
      BY <1>1, <1>4, <2>4 DEF UploadKnown
    <3>6. <<loaded[u].object, "raw">> \in stored
      <4>1. UploadKnown(loaded[u].object)
        BY <3>2, <1>2
      <4> QED BY <4>1, <3>2, <2>1 DEF UploadKnown
    <3>7. \A v \in Uploads : job[v].op = "upload" => v = loaded[u].object
      BY <3>2, <1>2
    <3>8. MediaKept'
      BY <2>1, <3>3, <3>5, <3>6, <3>7, <1>1, <1>6 DEF MediaKept, IsChunked
    <3> QED BY <2>4, <3>3, <3>4, <3>8, <1>1, <1>3, <1>5, <1>7 DEF ServerInv
  <2> QED BY <1>9, <2>3, <2>4
<1> QED BY <1>6, <1>8, <1>9

-----------------------------------------------------------------------------
(* Media: the chunked format.                                              *)

\* Products and quotients, as far as they are needed.
LEMMA Products ==
  ASSUME NEW c \in Nat \ {0}
  PROVE  /\ \A i \in Int : i * c \in Int /\ c * i = i * c
                           /\ (i + 1) * c = i * c + c /\ (i - 1) * c = i * c - c
         /\ \A i, j \in Int : (i <= j <=> i * c <= j * c) /\ (i - j) * c = i * c - j * c
         /\ 0 * c = 0
<1>1. \A i \in Int : i * c \in Int /\ c * i = i * c
                     /\ (i + 1) * c = i * c + c /\ (i - 1) * c = i * c - c
  OBVIOUS
<1>2. \A i, j \in Int : (i - j) * c = i * c - j * c
  OBVIOUS
<1>3. ASSUME NEW i \in Int, NEW j \in Int, i <= j PROVE i * c <= j * c
  <2>1. PICK k \in Nat : k = j - i
    BY <1>3
  <2>2. k * c \in Nat
    OBVIOUS
  <2>3. k * c = j * c - i * c
    BY <2>1
  <2> QED
    BY <2>2, <2>3, <1>1
<1>4. ASSUME NEW i \in Int, NEW j \in Int, j + 1 <= i PROVE j * c < i * c
  <2>1. (j + 1) * c <= i * c
    BY <1>3, <1>4
  <2> QED
    BY <2>1, <1>1
<1>5. ASSUME NEW i \in Int, NEW j \in Int PROVE i <= j <=> i * c <= j * c
  <2>1. i * c \in Int /\ j * c \in Int /\ (i <= j \/ j + 1 <= i)
    BY <1>1
  <2> QED
    BY <2>1, <1>3, <1>4
<1> QED
  BY <1>1, <1>2, <1>5

LEMMA Quotients ==
  ASSUME NEW a \in Nat, NEW c \in Nat \ {0}
  PROVE  /\ a \div c \in Nat
         /\ (a \div c) * c <= a /\ a < (a \div c) * c + c
<1>1. a \div c \in Int /\ a % c \in 0 .. c - 1 /\ a = c * (a \div c) + (a % c)
  OBVIOUS
<1>2. PICK d \in Int : d = a \div c
  BY <1>1
<1>3. d * c \in Int /\ c * d = d * c
  BY Products
<1>4. d * c <= a /\ a < d * c + c
  BY <1>1, <1>2, <1>3
<1>5. 0 <= d
  <2>1. (d + 1) * c = d * c + c /\ (d + 1 <= 0 <=> (d + 1) * c <= 0 * c) /\ 0 * c = 0
    BY Products
  <2> QED
    BY <1>3, <1>4, <2>1
<1> QED
  BY <1>2, <1>4, <1>5

\* All chunks but the last are whole, and the last is not empty unless it is the only one.
LEMMA ChunksOf ==
  ASSUME NEW n \in Nat
  PROVE  /\ ChunkCount(n) \in Nat \ {0}
         /\ ChunkSize \in Nat \ {0} /\ ChunkCount(n) * ChunkSize \in Int
         /\ n <= ChunkCount(n) * ChunkSize
         /\ ChunkCount(n) * ChunkSize - ChunkSize <= n
<1>1. ChunkSize \in Nat \ {0}
  BY MediaAssumption
<1>2. CASE n = 0
  BY <1>1, <1>2, Products DEF ChunkCount
<1>3. CASE n # 0
  <2>1. PICK m \in Nat : m = n + ChunkSize - 1
    BY <1>1, <1>3
  <2>2. PICK k \in Nat : k = m \div ChunkSize
    BY <1>1, Quotients
  <2>3. ChunkCount(n) = k
    BY <1>3, <2>1, <2>2 DEF ChunkCount
  <2>4. k * ChunkSize <= m /\ m < k * ChunkSize + ChunkSize
    BY <1>1, <2>2, Quotients
  <2>5. k * ChunkSize \in Int /\ 0 * ChunkSize = 0
    BY <1>1, Products
  <2>6. n <= k * ChunkSize /\ k * ChunkSize - ChunkSize <= n
    BY <1>1, <2>1, <2>4, <2>5
  <2>7. k # 0
    BY <1>3, <2>5, <2>6
  <2> QED
    BY <1>1, <2>3, <2>5, <2>6, <2>7
<1> QED
  BY <1>2, <1>3

\* Chunk by chunk, what is sealed is as long as the header makes it out to be.
LEMMA Lengths ==
  ASSUME NEW n \in Nat, NEW i \in 0 .. ChunkCount(n) - 1
  PROVE  /\ Sealed(n, i) = EncLength(n, i)
         /\ PlainLength(n, i) \in 0 .. ChunkSize
         /\ i < ChunkCount(n) - 1 => PlainLength(n, i) = ChunkSize
         /\ i = ChunkCount(n) - 1 => PlainLength(n, i) = n - i * ChunkSize
         /\ EncLength(n, i) = PlainLength(n, i) + Overhead
         /\ i * ChunkSize \in Nat /\ EncOffset(i) \in Nat
         /\ EncOffset(i + 1) = EncOffset(i) + ChunkSize + Overhead
<1>1. /\ ChunkSize \in Nat \ {0} /\ Overhead \in Nat \ {0} /\ Header \in Nat \ {0}
      /\ ChunkSize + Overhead \in Nat \ {0} /\ ChunkCount(n) \in Nat \ {0}
  BY MediaAssumption, ChunksOf
<1>2. PICK last \in Nat : last = ChunkCount(n) - 1
  BY <1>1
<1>3. /\ i * ChunkSize \in Nat /\ last * ChunkSize \in Nat
      /\ ChunkSize * last = last * ChunkSize /\ (i + 1) * ChunkSize = i * ChunkSize + ChunkSize
      /\ i < last => (i + 1) * ChunkSize <= last * ChunkSize
  <2>1. 0 * ChunkSize <= i * ChunkSize /\ 0 * ChunkSize <= last * ChunkSize /\ 0 * ChunkSize = 0
    BY <1>1, Products
  <2>2. i + 1 \in Int /\ (i < last => i + 1 <= last)
    BY <1>2
  <2>3. i < last => (i + 1) * ChunkSize <= last * ChunkSize
    BY <1>1, <2>2, Products
  <2> QED
    BY <1>1, <2>1, <2>3, Products
<1>4. last * ChunkSize <= n /\ n <= last * ChunkSize + ChunkSize
  <2>1. (ChunkCount(n) - 1) * ChunkSize = ChunkCount(n) * ChunkSize - ChunkSize
    BY <1>1, Products
  <2> QED
    BY <1>1, <1>2, <2>1, ChunksOf
<1>5. /\ i < last => PlainLength(n, i) = ChunkSize
      /\ i = last => PlainLength(n, i) = n - i * ChunkSize
  BY <1>2, <1>3 DEF PlainLength
<1>6. PlainLength(n, i) \in 0 .. ChunkSize
  <2>1. i < last \/ i = last
    BY <1>2
  <2> QED
    BY <1>1, <1>3, <1>4, <1>5, <2>1
<1>7. Sealed(n, i) = PlainLength(n, i) + Overhead
  <2>1. CASE i < last
    <3>1. (i + 1) * ChunkSize <= n
      BY <1>1, <1>3, <1>4, <2>1
    <3> QED
      BY <1>1, <1>3, <1>5, <2>1, <3>1 DEF Sealed, Lesser
  <2>2. CASE i = last
    <3>1. (i + 1) * ChunkSize = i * ChunkSize + ChunkSize /\ n <= i * ChunkSize + ChunkSize
      BY <1>3, <1>4, <2>2
    <3> QED
      BY <1>1, <1>3, <1>5, <2>2, <3>1 DEF Sealed, Lesser
  <2> QED
    BY <1>2, <2>1, <2>2
<1>8. EncOffset(i) \in Nat /\ EncOffset(i + 1) = EncOffset(i) + ChunkSize + Overhead
  <2>1. PICK c \in Nat \ {0} : c = ChunkSize + Overhead
    BY <1>1
  <2>2. i * c \in Int /\ (i + 1) * c = i * c + c /\ 0 * c <= i * c /\ 0 * c = 0
    BY Products
  <2> QED
    BY <1>1, <2>1, <2>2 DEF EncOffset
<1> QED
  BY <1>2, <1>5, <1>6, <1>7, <1>8, <1>3 DEF EncLength

\* g says where encrypt() has begun each chunk of n bytes.
Starts(n, g) ==
  g = [j \in 0 .. ChunkCount(n) |-> IF j = 0 THEN Header ELSE g[j - 1] + Sealed(n, j - 1)]

\* There is such a function, and ChunkStart is one.
LEMMA StartsOf ==
  ASSUME NEW n \in Nat
  PROVE  \E g : Starts(n, g) /\ \A i : ChunkStart(n, i) = g[i]
<1> DEFINE g == CHOOSE g : Starts(n, g)
<1>1. Starts(n, g)
  <2> DEFINE h == [j \in 0 .. ChunkCount(n) |->
                     IF j = 0 THEN Header ELSE EncOffset(j - 1) + EncLength(n, j - 1)]
  <2>1. ChunkCount(n) \in Nat \ {0} /\ Header \in Nat
        /\ ChunkSize + Overhead \in Nat \ {0}
    BY ChunksOf, MediaAssumption
  <2>2. ASSUME NEW j \in 0 .. ChunkCount(n), j # 0 PROVE h[j] = h[j - 1] + Sealed(n, j - 1)
    <3>1. PICK i \in 0 .. ChunkCount(n) - 1 : i = j - 1
      BY <2>1, <2>2
    <3>2. h[i] = EncOffset(i)
      <4>1. CASE i = 0
        <5>1. EncOffset(0) = Header
          BY <2>1, Products DEF EncOffset
        <5> QED
          BY <4>1, <5>1, <2>1
      <4>2. CASE i # 0
        <5>1. PICK k \in 0 .. ChunkCount(n) - 1 : k = i - 1 /\ k < ChunkCount(n) - 1 /\ i = k + 1
          BY <4>2, <2>1
        <5>2. h[i] = EncOffset(k) + EncLength(n, k)
          BY <4>2, <2>1, <5>1
        <5>3. EncOffset(k + 1) = EncOffset(k) + ChunkSize + Overhead
              /\ EncLength(n, k) = ChunkSize + Overhead /\ EncOffset(k) \in Nat
          BY <5>1, Lengths
        <5> QED
          BY <5>1, <5>2, <5>3, MediaAssumption
      <4> QED
        BY <4>1, <4>2
    <3>3. h[j] = EncOffset(i) + EncLength(n, i)
      BY <2>2, <3>1
    <3>4. Sealed(n, i) = EncLength(n, i)
      BY Lengths
    <3> QED
      BY <3>1, <3>2, <3>3, <3>4
  <2>3. h = [j \in 0 .. ChunkCount(n) |-> IF j = 0 THEN Header ELSE h[j - 1] + Sealed(n, j - 1)]
    BY <2>2
  <2> HIDE DEF h
  <2>4. Starts(n, h)
    BY <2>3 DEF Starts
  <2> QED
    BY <2>4
<1>2. \A i : ChunkStart(n, i) = g[i]
  BY Zenon DEF ChunkStart, Starts
<1> QED
  BY <1>1, <1>2

\* encrypt() puts each chunk where ChunkedHeader looks for it.
LEMMA ChunksAreFound ==
  ASSUME NEW n \in Nat, NEW i \in 0 .. ChunkCount(n) - 1
  PROVE  /\ ChunkStart(n, i) = EncOffset(i)
         /\ ChunkStart(n, i + 1) = EncOffset(i) + EncLength(n, i)
<1>1. PICK g : Starts(n, g) /\ \A k : ChunkStart(n, k) = g[k]
  BY StartsOf
<1>2. ChunkCount(n) \in Nat \ {0}
  BY ChunksOf
<1>3. /\ g[0] = Header
      /\ \A k \in 0 .. ChunkCount(n) - 1 : g[k + 1] = g[k] + EncLength(n, k)
  <2>1. \A j \in 0 .. ChunkCount(n) : g[j] = IF j = 0 THEN Header ELSE g[j - 1] + Sealed(n, j - 1)
    BY <1>1 DEF Starts
  <2>2. ASSUME NEW k \in 0 .. ChunkCount(n) - 1 PROVE g[k + 1] = g[k] + EncLength(n, k)
    <3>1. PICK j \in 0 .. ChunkCount(n) : j = k + 1 /\ j # 0 /\ j - 1 = k
      BY <1>2
    <3>2. g[j] = g[k] + Sealed(n, k)
      BY <2>1, <3>1
    <3> QED
      BY <3>1, <3>2, Lengths
  <2> QED
    BY <1>2, <2>1, <2>2
<1>4. \A k \in 0 .. ChunkCount(n) - 1 : g[k] = EncOffset(k)
  <2> DEFINE T == {k \in 0 .. ChunkCount(n) - 1 : g[k] # EncOffset(k)}
  <2> SUFFICES ASSUME T # {} PROVE FALSE
    OBVIOUS
  <2>1. T \subseteq Nat
    OBVIOUS
  <2>2. PICK k \in T : \A j \in T : k <= j
    BY <2>1, LeastNatural
  <2>3. k # 0
    <3>1. ChunkSize + Overhead \in Nat \ {0} /\ Header \in Nat
      BY MediaAssumption
    <3>2. EncOffset(0) = Header
      BY <3>1, Products DEF EncOffset
    <3> QED
      BY <1>3, <3>2
  <2>4. PICK j \in 0 .. ChunkCount(n) - 1 : j = k - 1 /\ k = j + 1 /\ j < ChunkCount(n) - 1 /\ j \notin T
    BY <1>2, <2>2, <2>3
  <2>5. g[k] = EncOffset(j) + EncLength(n, j)
    BY <1>3, <2>4
  <2>6. EncOffset(j + 1) = EncOffset(j) + ChunkSize + Overhead
        /\ EncLength(n, j) = ChunkSize + Overhead /\ EncOffset(j) \in Nat
    BY <2>4, Lengths
  <2> QED
    BY <2>2, <2>4, <2>5, <2>6, MediaAssumption
<1> QED
  BY <1>1, <1>3, <1>4

-----------------------------------------------------------------------------
(* Media: what is fetched and what is played.                              *)

\* Later chunks lie further on, and as many as a batch has fit into a range.
LEMMA OffsetsGrow ==
  ASSUME NEW n \in Nat, NEW i \in 0 .. ChunkCount(n) - 1, NEW j \in i .. ChunkCount(n) - 1
  PROVE  /\ EncOffset(i) <= EncOffset(j)
         /\ EncOffset(i) + EncLength(n, i) <= EncOffset(j) + EncLength(n, j)
         /\ j - i < BatchChunks => EncOffset(j) + EncLength(n, j) <= EncOffset(i) + MaxRange
<1>1. PICK c \in Nat \ {0} : c = ChunkSize + Overhead
  BY MediaAssumption
<1>2. /\ ChunkSize \in Nat \ {0} /\ Overhead \in Nat \ {0} /\ Header \in Nat
      /\ BatchChunks \in Nat /\ MaxRange \in Nat /\ BatchChunks * c <= MaxRange
      /\ ChunkCount(n) \in Nat \ {0}
  BY <1>1, MediaAssumption, ChunksOf
<1>3. PICK d \in Nat : d = j - i
  BY <1>2
<1>4. d * c \in Nat /\ EncOffset(i) \in Nat /\ EncOffset(j) \in Nat /\ EncOffset(j) = EncOffset(i) + d * c
  <2>1. (j - i) * c = j * c - i * c /\ j * c \in Int /\ i * c \in Int
    BY <1>2, Products
  <2>2. 0 * c <= d * c /\ 0 * c = 0 /\ d * c \in Int
    BY Products
  <2>3. EncOffset(i) \in Nat
    BY Lengths
  <2> QED
    BY <1>1, <1>2, <1>3, <2>1, <2>2, <2>3 DEF EncOffset
<1>5. /\ EncLength(n, i) \in Nat /\ EncLength(n, i) <= c
      /\ EncLength(n, j) \in Nat /\ EncLength(n, j) <= c
  <2>1. j \in 0 .. ChunkCount(n) - 1
    BY <1>2
  <2>2. /\ PlainLength(n, i) \in 0 .. ChunkSize /\ EncLength(n, i) = PlainLength(n, i) + Overhead
        /\ PlainLength(n, j) \in 0 .. ChunkSize /\ EncLength(n, j) = PlainLength(n, j) + Overhead
    BY <2>1, Lengths
  <2> QED
    BY <1>1, <1>2, <2>2
<1>6. EncOffset(i) + EncLength(n, i) <= EncOffset(j) + EncLength(n, j)
  <2>1. CASE d = 0
    <3>1. j = i
      BY <1>2, <1>3, <2>1
    <3> QED
      BY <3>1, <1>4, <1>5
  <2>2. CASE d # 0
    <3>1. 1 * c <= d * c /\ 1 * c = c
      BY <2>2, <1>2, Products
    <3> QED
      BY <1>4, <1>5, <3>1
  <2> QED
    BY <2>1, <2>2
<1>7. d < BatchChunks => d * c + c <= MaxRange
  <2>1. d < BatchChunks => d + 1 <= BatchChunks
    BY <1>2
  <2>2. d + 1 \in Int /\ (d + 1) * c = d * c + c
        /\ (d + 1 <= BatchChunks => (d + 1) * c <= BatchChunks * c)
        /\ BatchChunks * c \in Int
    BY <1>2, Products
  <2> QED
    BY <1>2, <1>4, <2>1, <2>2
<1> QED
  BY <1>3, <1>4, <1>5, <1>6, <1>7, <1>2

LEMMA WholeSize ==
  ASSUME NEW n \in Nat, NEW last, last = ChunkCount(n) - 1
  PROVE  last \in Nat /\ SizeOf(n) = EncOffset(last) + EncLength(n, last)
         /\ EncOffset(last) \in Nat /\ EncLength(n, last) \in Nat \ {0} /\ Header < SizeOf(n)
<1>1. ChunkCount(n) \in Nat \ {0} /\ Overhead \in Nat \ {0} /\ Header \in Nat /\ ChunkSize \in Nat \ {0}
  BY ChunksOf, MediaAssumption
<1>2. last \in 0 .. ChunkCount(n) - 1 /\ last + 1 = ChunkCount(n)
  BY <1>1
<1>3. SizeOf(n) = EncOffset(last) + EncLength(n, last)
  BY <1>2, ChunksAreFound DEF SizeOf
<1>4. EncOffset(last) \in Nat /\ EncLength(n, last) \in Nat \ {0}
  BY <1>1, <1>2, Lengths
<1>5. Header <= EncOffset(last)
  <2>1. 0 \in 0 .. ChunkCount(n) - 1 /\ last \in 0 .. ChunkCount(n) - 1
    BY <1>1, <1>2
  <2>2. EncOffset(0) <= EncOffset(last)
    BY <2>1, OffsetsGrow
  <2>3. ChunkSize + Overhead \in Nat \ {0}
    BY <1>1
  <2>4. EncOffset(0) = Header
    BY <1>1, <2>3, Products DEF EncOffset
  <2> QED
    BY <2>2, <2>4
<1> QED
  BY <1>1, <1>2, <1>3, <1>4, <1>5

\* What is there, and fits into a range, is fetched.
LEMMA FetchedWhole ==
  ASSUME plainSize \in Nat, NEW from \in Nat, NEW to \in Int,
         to < SizeOf(plainSize), to < from + MaxRange, SizeOf(plainSize) \in Int
  PROVE  Fetched(from, to) = Bytes(asset.object, from, to)
<1>1. from # Absent /\ to # Absent /\ MaxRange \in Nat
  BY AbsentAssumption, MediaAssumption
<1>2. ParseRange(<<from, to>>, SizeOf(plainSize)) = <<from, to>>
  <2> DEFINE total == SizeOf(plainSize)
  <2> HIDE DEF total
  <2>1. total \in Int /\ to < total
    BY DEF total
  <2>2. Lesser(to, total - 1) = to /\ Lesser(to, from + MaxRange - 1) = to
    BY <1>1, <2>1 DEF Lesser
  <2>3. ParseRange(<<from, to>>, total) = <<from, to>>
    BY <1>1, <2>2 DEF ParseRange
  <2> QED
    BY <2>3 DEF total
<1> QED
  BY <1>2 DEF Fetched

LEMMA HeaderFetched ==
  ASSUME plainSize \in Nat
  PROVE  Fetched(0, Header - 1) = FileOf(Shdr, asset.object)
<1>1. Header \in Nat \ {0} /\ MaxRange >= Header /\ MaxRange \in Nat
  BY MediaAssumption
<1>2. PICK last : last = ChunkCount(plainSize) - 1
  OBVIOUS
<1>3. SizeOf(plainSize) \in Nat /\ Header < SizeOf(plainSize)
  BY <1>2, WholeSize
<1>4. Header - 1 \in Int /\ Header - 1 < SizeOf(plainSize) /\ Header - 1 < 0 + MaxRange
  BY <1>1, <1>3
<1> QED
  BY <1>3, <1>4, FetchedWhole DEF FileOf

\* The chunks of a batch are cut out of what is fetched for the first one missing.
LEMMA ChunksFetched ==
  ASSUME plainSize \in Nat, NEW i \in 0 .. ChunkCount(plainSize) - 1,
         NEW j \in i .. ChunkCount(plainSize) - 1, j - i < BatchChunks,
         NEW bytes, bytes = Fetched(EncOffset(i), EncOffset(j) + EncLength(plainSize, j) - 1),
         NEW k \in i .. j
  PROVE  Slice(bytes, EncOffset(k), EncLength(plainSize, k)) = FileOf(k, asset.object)
<1>1. PICK last : last = ChunkCount(plainSize) - 1
  OBVIOUS
<1>2. /\ ChunkCount(plainSize) \in Nat \ {0} /\ last \in Nat
      /\ i \in Nat /\ j \in 0 .. last /\ k \in 0 .. last /\ k <= j /\ i <= k
      /\ MaxRange \in Nat
  BY <1>1, ChunksOf, MediaAssumption
<1>3. /\ EncOffset(i) \in Nat /\ EncOffset(j) \in Nat /\ EncOffset(k) \in Nat
      /\ EncLength(plainSize, j) \in Nat /\ EncLength(plainSize, k) \in Nat
  <2>1. Overhead \in Nat /\ ChunkSize \in Nat
    BY MediaAssumption
  <2> QED
    BY <1>1, <1>2, <2>1, Lengths
<1>4. PICK to \in Int : to = EncOffset(j) + EncLength(plainSize, j) - 1
  BY <1>3
<1>5. to < SizeOf(plainSize) /\ SizeOf(plainSize) \in Int
  <2>1. last \in j .. ChunkCount(plainSize) - 1 /\ j \in 0 .. ChunkCount(plainSize) - 1
    BY <1>1, <1>2
  <2>2. EncOffset(j) + EncLength(plainSize, j) <= EncOffset(last) + EncLength(plainSize, last)
    BY <2>1, OffsetsGrow
  <2>3. SizeOf(plainSize) = EncOffset(last) + EncLength(plainSize, last)
        /\ EncOffset(last) \in Nat /\ EncLength(plainSize, last) \in Nat \ {0}
    BY <1>1, WholeSize
  <2> QED
    BY <1>3, <1>4, <2>2, <2>3
<1>6. to < EncOffset(i) + MaxRange
  <2>1. EncOffset(j) + EncLength(plainSize, j) <= EncOffset(i) + MaxRange
    BY OffsetsGrow
  <2> QED
    BY <1>2, <1>3, <1>4, <2>1
<1>7. bytes = Bytes(asset.object, EncOffset(i), to)
  BY <1>3, <1>4, <1>5, <1>6, FetchedWhole
<1>8. EncOffset(i) <= EncOffset(k) /\ EncOffset(k) + EncLength(plainSize, k) - 1 <= to
  <2>1. k \in i .. ChunkCount(plainSize) - 1 /\ k \in 0 .. ChunkCount(plainSize) - 1
        /\ j \in k .. ChunkCount(plainSize) - 1
    BY <1>1, <1>2
  <2>2. EncOffset(i) <= EncOffset(k)
        /\ EncOffset(k) + EncLength(plainSize, k) <= EncOffset(j) + EncLength(plainSize, j)
    BY <2>1, OffsetsGrow
  <2> QED
    BY <1>3, <1>4, <2>2
<1>9. k # Shdr
  BY <1>2 DEF Shdr
<1>10. /\ bytes.o = asset.object /\ bytes.from = EncOffset(i) /\ bytes.to = to
  BY <1>7 DEF Bytes
<1>11. ~(EncOffset(k) < EncOffset(i)) /\ ~(EncOffset(k) + EncLength(plainSize, k) - 1 > to)
  BY <1>3, <1>8
<1> QED
  BY <1>9, <1>10, <1>11 DEF Slice, FileOf

LEMMA VerifiedFile ==
  ASSUME plainSize \in Nat, NEW i \in 0 .. ChunkCount(plainSize) - 1, NEW b, NEW o
  PROVE  Verifies(b, o, i) <=> b = FileOf(i, o)
<1>1. i # Shdr
  BY ChunksOf DEF Shdr
<1>2. /\ ChunkStart(plainSize, i) = EncOffset(i)
      /\ ChunkStart(plainSize, i + 1) = EncOffset(i) + EncLength(plainSize, i)
  BY ChunksAreFound
<1>3. FileOf(i, o) = Bytes(o, EncOffset(i), EncOffset(i) + EncLength(plainSize, i) - 1)
  BY <1>1, Zenon DEF FileOf
<1>4. Bytes(o, ChunkStart(plainSize, i), ChunkStart(plainSize, i + 1) - 1)
        = Bytes(o, EncOffset(i), EncOffset(i) + EncLength(plainSize, i) - 1)
  <2>1. ChunkStart(plainSize, i + 1) - 1 = EncOffset(i) + EncLength(plainSize, i) - 1
    <3>1. Overhead \in Nat /\ PlainLength(plainSize, i) \in Int
          /\ EncLength(plainSize, i) = PlainLength(plainSize, i) + Overhead /\ EncOffset(i) \in Nat
      BY Lengths, MediaAssumption
    <3> QED
      BY <1>2, <3>1
  <2> QED
    BY <1>2, <2>1, Zenon
<1>5. Verifies(b, o, i) <=> b = Bytes(o, ChunkStart(plainSize, i), ChunkStart(plainSize, i + 1) - 1)
  BY DEF Verifies
<1> QED
  BY <1>3, <1>4, <1>5

\* What is added to an answer of chunk c, of those that have any of it: from where
\* the last one ended, to the end of the chunk or of what was asked for.
LEMMA PieceOf ==
  ASSUME plainSize \in Nat, NEW answer, answer.from \in Nat, answer.to \in Int, answer.to < plainSize,
         answer.from <= answer.to \/ (answer.from = 0 /\ answer.to = -1),
         NEW c \in Nat, answer.from \div ChunkSize <= c, c <= LastChunk(answer)
  PROVE  /\ LastChunk(answer) \in 0 .. ChunkCount(plainSize) - 1
         /\ Portion(answer, c)[1] = IF c = answer.from \div ChunkSize THEN answer.from ELSE c * ChunkSize
         /\ Portion(answer, c)[2] = IF c = LastChunk(answer) THEN answer.to ELSE c * ChunkSize + ChunkSize - 1
         /\ Portion(answer, c) \in Int \X Int
         /\ Portion(answer, c)[1] - 1 <= Portion(answer, c)[2] /\ Portion(answer, c)[2] <= answer.to
<1>1. ChunkSize \in Nat \ {0} /\ ChunkCount(plainSize) \in Nat \ {0}
  BY ChunksOf
<1>2. PICK first \in Nat : first = answer.from \div ChunkSize
  BY <1>1, Quotients
<1>3. first * ChunkSize <= answer.from /\ answer.from < first * ChunkSize + ChunkSize
      /\ first * ChunkSize \in Int
  BY <1>1, <1>2, Quotients, Products
<1>4. /\ LastChunk(answer) \in Nat /\ LastChunk(answer) * ChunkSize \in Int
      /\ LastChunk(answer) * ChunkSize - 1 <= answer.to /\ answer.to < LastChunk(answer) * ChunkSize + ChunkSize
  <2>1. CASE answer.to < 0
    BY <2>1, <1>1, Products DEF LastChunk
  <2>2. CASE answer.to >= 0
    <3>1. LastChunk(answer) = answer.to \div ChunkSize /\ answer.to \in Nat
      BY <2>2 DEF LastChunk
    <3>2. LastChunk(answer) \in Nat /\ LastChunk(answer) * ChunkSize <= answer.to
          /\ answer.to < LastChunk(answer) * ChunkSize + ChunkSize
      BY <1>1, <3>1, Quotients
    <3>3. LastChunk(answer) * ChunkSize \in Int
      BY <1>1, <3>2, Products
    <3> QED
      BY <3>2, <3>3
  <2> QED
    BY <2>1, <2>2
<1>5. PICK end \in Nat : end = LastChunk(answer)
  BY <1>4
<1>6. end < ChunkCount(plainSize)
  <2>1. plainSize <= ChunkCount(plainSize) * ChunkSize /\ ChunkCount(plainSize) * ChunkSize \in Int
    BY ChunksOf
  <2>2. end <= ChunkCount(plainSize) - 1 <=>
          end * ChunkSize <= (ChunkCount(plainSize) - 1) * ChunkSize
    BY <1>1, Products
  <2>3. ChunkCount(plainSize) <= end <=> ChunkCount(plainSize) * ChunkSize <= end * ChunkSize
    BY <1>1, Products
  <2>4. CASE answer.to >= 0
    <3>1. end * ChunkSize <= answer.to
      <4>1. LastChunk(answer) = answer.to \div ChunkSize /\ answer.to \in Nat
        BY <2>4 DEF LastChunk
      <4> QED
        BY <1>1, <1>5, <4>1, Quotients
    <3>2. ~(ChunkCount(plainSize) * ChunkSize <= end * ChunkSize)
      BY <1>4, <1>5, <2>1, <3>1
    <3> QED
      BY <1>1, <2>3, <3>2
  <2>5. CASE answer.to < 0
    BY <1>1, <1>5, <2>5 DEF LastChunk
  <2> QED
    BY <2>4, <2>5
<1>7. LastChunk(answer) \in 0 .. ChunkCount(plainSize) - 1 /\ c \in 0 .. ChunkCount(plainSize) - 1
  BY <1>1, <1>5, <1>6
<1>8. PICK start \in Nat : start = c * ChunkSize
  BY <1>7, Lengths
<1>9. PICK len \in 0 .. ChunkSize : len = PlainLength(plainSize, c)
  BY <1>7, Lengths
<1>10. /\ c < ChunkCount(plainSize) - 1 => len = ChunkSize
       /\ c = ChunkCount(plainSize) - 1 => len = plainSize - start
  BY <1>7, <1>8, <1>9, Lengths
<1>11. /\ c = first => Greater(answer.from - start, 0) = answer.from - start
       /\ c # first => Greater(answer.from - start, 0) = 0
  <2>1. CASE c = first
    <3>1. answer.from - start >= 0
      BY <2>1, <1>3, <1>8
    <3> QED
      BY <2>1, <3>1 DEF Greater
  <2>2. CASE c # first
    <3>0. first + 1 \in Int /\ first + 1 <= c
      BY <2>2, <1>2
    <3>1. (first + 1) * ChunkSize <= start /\ (first + 1) * ChunkSize = first * ChunkSize + ChunkSize
      BY <3>0, <1>1, <1>2, <1>8, Products
    <3>2. answer.from - start < 0
      BY <1>1, <1>3, <3>1
    <3> QED
      BY <2>2, <3>2 DEF Greater
  <2> QED
    BY <2>1, <2>2
<1>12. /\ c = end => Lesser(answer.to - start + 1, len) = answer.to - start + 1
       /\ c # end => len = ChunkSize /\ Lesser(answer.to - start + 1, len) = len
                     /\ start + ChunkSize - 1 <= answer.to
  <2>1. CASE c = end
    <3>1. answer.to - start + 1 <= len
      <4>1. CASE c < ChunkCount(plainSize) - 1
        BY <1>1, <1>4, <1>5, <1>8, <1>10, <2>1, <4>1
      <4>2. CASE c = ChunkCount(plainSize) - 1
        BY <1>8, <1>10, <4>2
      <4>3. c < ChunkCount(plainSize) - 1 \/ c = ChunkCount(plainSize) - 1
        BY <1>1, <1>7
      <4> QED
        BY <4>1, <4>2, <4>3
    <3> QED
      BY <2>1, <3>1 DEF Lesser
  <2>2. CASE c # end
    <3>1. (c + 1) * ChunkSize <= end * ChunkSize /\ (c + 1) * ChunkSize = start + ChunkSize
      BY <2>2, <1>1, <1>5, <1>8, Products
    <3>2. start + ChunkSize - 1 <= answer.to
      BY <1>1, <1>4, <1>5, <3>1
    <3>3. c < ChunkCount(plainSize) - 1
      BY <2>2, <1>1, <1>5, <1>6
    <3>4. len = ChunkSize /\ len <= answer.to - start + 1
      BY <1>1, <1>10, <3>2, <3>3
    <3> QED
      BY <2>2, <3>2, <3>4 DEF Lesser
  <2> QED
    BY <2>1, <2>2
<1>13. PICK a \in Int : a = start + Greater(answer.from - start, 0)
  BY <1>11
<1>14. PICK b \in Int : b = start + Lesser(answer.to - start + 1, len) - 1
  BY <1>12
<1>15. Portion(answer, c) = <<a, b>>
  BY <1>8, <1>9, <1>13, <1>14 DEF Portion
<1>16. /\ a = IF c = first THEN answer.from ELSE start
       /\ b = IF c = end THEN answer.to ELSE start + ChunkSize - 1
  <2>1. /\ c = first => a = answer.from
        /\ c # first => a = start
    BY <1>11, <1>13
  <2>2. /\ c = end => b = answer.to
        /\ c # end => b = start + ChunkSize - 1
    BY <1>1, <1>12, <1>14
  <2> QED
    BY <2>1, <2>2
<1>17. a - 1 <= b /\ b <= answer.to
  <2>1. b <= answer.to
    BY <1>12, <1>16
  <2>2. CASE c = first /\ c = end
    BY <1>16, <2>2
  <2>3. CASE c = first /\ c # end
    <3>1. a = answer.from /\ b = start + ChunkSize - 1 /\ start = first * ChunkSize
      BY <1>8, <1>16, <2>3
    <3> QED
      BY <1>1, <1>3, <2>1, <3>1
  <2>4. CASE c # first /\ c = end
    BY <1>4, <1>5, <1>8, <1>16, <2>4
  <2>5. CASE c # first /\ c # end
    <3>1. a = start /\ b = start + ChunkSize - 1
      BY <1>16, <2>5
    <3> QED
      BY <1>1, <2>1, <3>1
  <2> QED
    BY <2>1, <2>2, <2>3, <2>4, <2>5
<1> QED
  BY <1>2, <1>5, <1>7, <1>8, <1>15, <1>16, <1>17

-----------------------------------------------------------------------------
(* Media: the phone's cache and the player.                                *)

Chunks == Files \ {Shdr}

\* What is known of one player's answer.
AnswerHolds(answer) ==
  answer \in Answers /\ PlayerKnown(answer) /\ Streamed(answer) /\ AnswerExact(answer)

LEMMA FilesThere ==
  ASSUME plainSize \in PlainSizes
  PROVE  /\ plainSize \in Nat /\ Shdr \in Files /\ Shdr \notin Chunks /\ Chunks \subseteq Nat
         /\ 0 .. ChunkCount(plainSize) - 1 \subseteq Chunks /\ Files = Chunks \cup {Shdr}
<1>1. PlainSizes \subseteq Nat
  BY MediaAssumption
<1>2. \A n \in PlainSizes : 0 .. ChunkCount(n) - 1 \subseteq Nat
  BY <1>1, ChunksOf
<1>3. Chunks \subseteq Nat
  BY <1>2 DEF Chunks, Files
<1>4. 0 .. ChunkCount(plainSize) - 1 \subseteq Files
  BY DEF Files
<1>5. 0 .. ChunkCount(plainSize) - 1 \subseteq Chunks
  BY <1>2, <1>4 DEF Chunks, Shdr
<1> QED
  BY <1>1, <1>3, <1>5 DEF Files, Chunks

\* Files do not change, and each knows its object.
LEMMA FileOfSame ==
  ASSUME plainSize' = plainSize
  PROVE  \A f, o : FileOf(f, o)' = FileOf(f, o)
BY DEF FileOf

LEMMA FileIsWhole ==
  ASSUME plainSize \in Nat, NEW o \in Uploads,
         NEW f, f = Shdr \/ f \in 0 .. ChunkCount(plainSize) - 1
  PROVE  /\ FileOf(f, o) \in Ciphertext /\ FileOf(f, o).o = o
         /\ FileOf(f, o) # Absent /\ FileOf(f, o) # Torn
<1>1. FileOf(f, o) \in Ciphertext /\ FileOf(f, o).o = o
  <2>1. CASE f = Shdr
    BY <2>1, MediaAssumption DEF FileOf, Bytes, Ciphertext
  <2>2. CASE f # Shdr
    <3>1. EncOffset(f) \in Nat /\ PlainLength(plainSize, f) \in Int /\ Overhead \in Nat
          /\ EncLength(plainSize, f) = PlainLength(plainSize, f) + Overhead
      BY <2>2, Lengths, MediaAssumption
    <3>2. PICK to \in Int : to = EncOffset(f) + EncLength(plainSize, f) - 1
      BY <3>1
    <3>3. FileOf(f, o) = Bytes(o, EncOffset(f), to)
      BY <2>2, <3>2, Zenon DEF FileOf
    <3> QED
      BY <3>1, <3>2, <3>3 DEF Bytes, Ciphertext
  <2> QED
    BY <2>1, <2>2
<1> QED
  BY <1>1, AbsentAssumption

\* The whole phone.
PhoneHolds ==
  /\ CacheKnown
  /\ player \in [Players -> Answers]
  /\ \A p \in Players : AnswerHolds(player[p])

LEMMA PhoneOf ==
  ASSUME MediaInv PROVE PhoneHolds
BY DEF MediaInv, PhoneHolds, AnswerHolds, StreamExact

\* Whatever steps, once files and answers are known they stay so: what was named
\* before still is.
LEMMA PhoneMoves ==
  ASSUME plainSize' = plainSize,
         \A u \in Uploads : Named(u) => Named(u)',
         cached' \in [Files -> Ciphertext \cup {Absent, Torn}],
         writing' \subseteq Players \X Files \X Ciphertext,
         \A f \in Files : \A b : b = cached'[f] /\ b \notin {Absent, Torn} => FileKnown(f, b),
         \A x \in writing' : FileKnown(x[2], x[3]),
         player' \in [Players -> Answers],
         \A p \in Players : \A a : a = player'[p] => AnswerHolds(a)
  PROVE  PhoneHolds'
<1>1. ASSUME NEW f, NEW b \in Ciphertext, FileKnown(f, b)
      PROVE  FileKnown(f, b)'
  <2>1. b.o \in Uploads /\ FileOf(f, b.o)' = FileOf(f, b.o)
    BY FileOfSame DEF Ciphertext
  <2> QED
    BY <1>1, <2>1 DEF FileKnown
<1>2. \A f \in Files : \A b : b = cached'[f] /\ b \notin {Absent, Torn} => FileKnown(f, b)'
  BY <1>1
<1>3. ASSUME NEW x \in writing' PROVE FileKnown(x[2], x[3])'
  BY <1>1
<1>4. CacheKnown'
  BY <1>2, <1>3 DEF CacheKnown
<1>5. ASSUME NEW a, AnswerHolds(a) PROVE AnswerHolds(a)'
  BY <1>5 DEF AnswerHolds, PlayerKnown, Streamed, AnswerExact
<1>6. ASSUME NEW p \in Players PROVE AnswerHolds(player[p])'
  <2>1. PICK a : a = player'[p]
    OBVIOUS
  <2>2. AnswerHolds(a)'
    BY <1>5, <2>1
  <2> QED
    BY <2>1, <2>2 DEF AnswerHolds, PlayerKnown, Streamed, AnswerExact
<1> QED
  BY <1>4, <1>6 DEF PhoneHolds

\* What the server does.
LEMMA PhoneUnmoved ==
  ASSUME MediaInv, UNCHANGED <<plainSize, phoneVars>>,
         \A u \in Uploads : Named(u) => Named(u)'
  PROVE  PhoneHolds'
<1>1. cached' = cached /\ writing' = writing /\ player' = player /\ plainSize' = plainSize
  BY DEF phoneVars
<1>2. PhoneHolds
  BY PhoneOf
<1> QED
  BY <1>1, <1>2, PhoneMoves DEF PhoneHolds, CacheKnown

\* What one player does, who may begin to write files.
LEMMA OneMoves ==
  ASSUME MediaInv, UNCHANGED <<plainSize, serverVars, cached>>,
         NEW p \in Players, NEW new, AnswerHolds(new),
         player' = [player EXCEPT ![p] = new],
         NEW more \in SUBSET (Players \X Files \X Ciphertext),
         \A x \in more : FileKnown(x[2], x[3]),
         writing' = writing \cup more
  PROVE  PhoneHolds'
<1>1. PhoneHolds /\ new \in Answers
  BY PhoneOf DEF AnswerHolds
<1>2. \A u \in Uploads : Named(u) => Named(u)'
  BY DEF serverVars, Named, IsChunked
<1>3. player' \in [Players -> Answers]
      /\ \A q \in Players : player'[q] = IF q = p THEN new ELSE player[q]
  BY <1>1 DEF PhoneHolds
<1>4. \A q \in Players : \A a : a = player'[q] => AnswerHolds(a)
  BY <1>1, <1>3 DEF PhoneHolds
<1>5. /\ cached' \in [Files -> Ciphertext \cup {Absent, Torn}]
      /\ \A f \in Files : \A b : b = cached'[f] /\ b \notin {Absent, Torn} => FileKnown(f, b)
  BY <1>1 DEF PhoneHolds, CacheKnown
<1>6. /\ writing' \subseteq Players \X Files \X Ciphertext
      /\ \A x \in writing' : FileKnown(x[2], x[3])
  BY <1>1 DEF PhoneHolds, CacheKnown
<1> QED
  BY <1>2, <1>3, <1>4, <1>5, <1>6, PhoneMoves

\* A player that has nothing yet.
LEMMA NothingPlayed ==
  ASSUME NEW s \in {"idle", "header", "open"}, NEW o \in Uploads \cup {Absent},
         s # "idle" => o \in Uploads /\ Named(o)
  PROVE  AnswerHolds(Waiting(s, o, FALSE))
<1>1. PICK a : a = Waiting(s, o, FALSE)
  OBVIOUS
<1>2. /\ a \in Answers /\ a.state = s /\ a.header = o /\ a.got = << >>
  BY <1>1 DEF Waiting, Answers
<1>3. AnswerHolds(a)
  BY <1>2 DEF AnswerHolds, PlayerKnown, Streamed, AnswerExact
<1> QED
  BY <1>1, <1>3

\* Once an object has been named the row names one, and one that is chunked.
LEMMA RowNamed ==
  ASSUME MediaInv, NEW o \in Uploads, Named(o) \/ (asset # Absent /\ IsChunked(asset.object))
  PROVE  asset # Absent /\ asset.object \in Uploads /\ Named(asset.object)
<1>1. /\ \A u \in Uploads : UploadKnown(u)
      /\ asset \in AssetRow \cup {Absent}
      /\ asset # Absent => at[asset.object] = "done" /\ asset.chunked = IsChunked(asset.object)
  BY DEF MediaInv, ServerInv, MediaKept
<1>2. asset # Absent /\ asset.chunked
  BY <1>1 DEF UploadKnown
<1> QED
  BY <1>1, <1>2 DEF AssetRow, Named

LEMMA OpenKeeps ==
  ASSUME MediaInv, NEW p \in Players, OpenVideo(p)
  PROVE  PhoneHolds'
<1>1. /\ UNCHANGED <<plainSize, serverVars, cached>> /\ plainSize \in Nat /\ Shdr \in Files
      /\ CacheKnown
  BY FilesThere DEF OpenVideo, MediaInv
<1>2. CASE cached[Shdr] \notin {Absent, Torn} /\ writing' = writing
           /\ player' = [player EXCEPT ![p] = Waiting("open", cached[Shdr].o, FALSE)]
  <2>1. cached[Shdr].o \in Uploads /\ Named(cached[Shdr].o)
    BY <1>1, <1>2 DEF CacheKnown, FileKnown, Ciphertext
  <2>2. AnswerHolds(Waiting("open", cached[Shdr].o, FALSE))
    BY <2>1, NothingPlayed
  <2>3. {} \in SUBSET (Players \X Files \X Ciphertext) /\ writing' = writing \cup {}
    BY <1>2
  <2> QED
    BY <1>1, <1>2, <2>2, <2>3, OneMoves
<1>3. CASE /\ asset # Absent /\ IsChunked(asset.object)
           /\ player' = [player EXCEPT ![p] = Waiting("header", asset.object, FALSE)]
           /\ writing' = writing \cup {<<p, Shdr, Fetched(0, Header - 1)>>}
  <2>0. asset.object \in Uploads
    BY <1>3 DEF MediaInv, ServerInv, AssetRow
  <2>1. asset.object \in Uploads /\ Named(asset.object)
    BY <1>3, <2>0, RowNamed
  <2>2. PICK file \in Ciphertext : /\ file = Fetched(0, Header - 1) /\ file = FileOf(Shdr, asset.object)
                                   /\ file.o = asset.object
    BY <1>1, <2>1, HeaderFetched, FileIsWhole
  <2>3. FileKnown(Shdr, file)
    BY <2>1, <2>2 DEF FileKnown
  <2>4. PICK more : more = {<<p, Shdr, file>>}
    OBVIOUS
  <2>5. more \in SUBSET (Players \X Files \X Ciphertext) /\ writing' = writing \cup more
        /\ \A x \in more : FileKnown(x[2], x[3])
    BY <1>1, <1>3, <2>2, <2>3, <2>4
  <2>6. AnswerHolds(Waiting("header", asset.object, FALSE))
    BY <2>1, NothingPlayed
  <2> QED
    BY <1>1, <1>3, <2>5, <2>6, OneMoves
<1> QED
  BY <1>2, <1>3 DEF OpenVideo

LEMMA StopKeeps ==
  ASSUME MediaInv, NEW p \in Players, StopPlaying(p) \/ Close(p)
  PROVE  PhoneHolds'
<1>1. UNCHANGED <<plainSize, serverVars, cached, writing>> /\ AnswerHolds(player[p])
      /\ player \in [Players -> Answers]
  BY PhoneOf DEF StopPlaying, Close, PhoneHolds
<1>2. PICK new : player' = [player EXCEPT ![p] = new] /\ AnswerHolds(new)
  <2>1. CASE StopPlaying(p)
    <3>1. player[p].state # "idle" /\ player' = [player EXCEPT ![p] = Waiting("open", player[p].header, FALSE)]
      BY <1>1, <2>1 DEF StopPlaying
    <3>2. player[p].header \in Uploads /\ Named(player[p].header)
      BY <1>1, <3>1 DEF AnswerHolds, PlayerKnown
    <3>3. AnswerHolds(Waiting("open", player[p].header, FALSE))
      BY <3>2, NothingPlayed
    <3> QED
      BY <3>1, <3>3
  <2>2. CASE Close(p)
    <3>1. AnswerHolds(Idle)
      BY NothingPlayed DEF Idle
    <3> QED
      BY <2>2, <3>1 DEF Close
  <2> QED
    BY <2>1, <2>2
<1>3. {} \in SUBSET (Players \X Files \X Ciphertext) /\ writing' = writing \cup {}
  BY <1>1
<1> QED
  BY <1>1, <1>2, <1>3, OneMoves

LEMMA FileKeeps ==
  ASSUME MediaInv, NEW x \in writing, WriteFile(x)
  PROVE  PhoneHolds'
<1>1. PICK f \in Files, p \in Players, file \in Ciphertext : x = <<p, f, file>> /\ FileKnown(f, file)
  BY DEF MediaInv, CacheKnown
<1>2. PICK b \in {file, Torn, cached[f]} : cached' = [cached EXCEPT ![f] = b]
  BY <1>1 DEF WriteFile
<1>3. /\ writing' = writing \ {x} /\ UNCHANGED <<plainSize, serverVars>>
      /\ PhoneHolds
  BY PhoneOf DEF WriteFile
<1>4. PICK new : new = [player[p] EXCEPT !.state = IF f = Shdr /\ player[p].state = "header"
                                                   THEN "open" ELSE player[p].state]
  OBVIOUS
<1>41. player' = [player EXCEPT ![p] = new]
  <2>1. player' = [player EXCEPT ![p].state = IF f = Shdr /\ @ = "header" THEN "open" ELSE @]
    BY <1>1 DEF WriteFile
  <2> QED
    BY <1>4, <2>1
<1>5. AnswerHolds(new)
  <2>1. player[p] \in Answers /\ AnswerHolds(player[p])
    BY <1>3 DEF PhoneHolds
  <2>2. /\ new \in Answers /\ new.from = player[p].from /\ new.to = player[p].to
        /\ new.next = player[p].next /\ new.got = player[p].got /\ new.torn = player[p].torn
        /\ new.header = player[p].header
        /\ new.state = player[p].state \/ (player[p].state = "header" /\ new.state = "open")
    BY <1>4, <2>1 DEF Answers
  <2> QED
    BY <2>1, <2>2 DEF AnswerHolds, PlayerKnown, Streamed, AnswerExact, LastChunk
<1>6. player' \in [Players -> Answers] /\ \A q \in Players : \A a : a = player'[q] => AnswerHolds(a)
  <2>1. player \in [Players -> Answers] /\ new \in Answers
    BY <1>3, <1>5 DEF PhoneHolds, AnswerHolds
  <2>2. player' \in [Players -> Answers]
        /\ \A q \in Players : player'[q] = IF q = p THEN new ELSE player[q]
    BY <1>41, <2>1
  <2> QED
    BY <1>3, <1>5, <2>2 DEF PhoneHolds
<1>7. /\ cached' \in [Files -> Ciphertext \cup {Absent, Torn}]
      /\ \A g \in Files : \A c : c = cached'[g] /\ c \notin {Absent, Torn} => FileKnown(g, c)
  BY <1>1, <1>2, <1>3 DEF PhoneHolds, CacheKnown
<1>8. /\ writing' \subseteq Players \X Files \X Ciphertext
      /\ \A y \in writing' : FileKnown(y[2], y[3])
  BY <1>3 DEF PhoneHolds, CacheKnown
<1>9. plainSize' = plainSize /\ \A u \in Uploads : Named(u) => Named(u)'
  BY <1>3 DEF serverVars, Named, IsChunked
<1> QED
  BY <1>6, <1>7, <1>8, <1>9, PhoneMoves

LEMMA KillKeeps ==
  ASSUME MediaInv, KillPlayer
  PROVE  PhoneHolds'
<1>1. PICK torn : cached' = [f \in Files |-> IF f \in torn THEN Torn ELSE cached[f]]
  BY DEF KillPlayer
<1>2. /\ writing' = {} /\ player' = [p \in Players |-> Idle]
      /\ UNCHANGED <<plainSize, serverVars>> /\ PhoneHolds
  BY PhoneOf DEF KillPlayer
<1>3. /\ cached' \in [Files -> Ciphertext \cup {Absent, Torn}]
      /\ \A f \in Files : \A b : b = cached'[f] /\ b \notin {Absent, Torn} => FileKnown(f, b)
  BY <1>1, <1>2 DEF PhoneHolds, CacheKnown
<1>4. AnswerHolds(Idle) /\ Idle \in Answers
  BY NothingPlayed DEF Idle, AnswerHolds
<1>5. player' \in [Players -> Answers] /\ \A q \in Players : \A a : a = player'[q] => AnswerHolds(a)
  BY <1>2, <1>4
<1>6. plainSize' = plainSize /\ \A u \in Uploads : Named(u) => Named(u)'
  BY <1>2 DEF serverVars, Named, IsChunked
<1> QED
  BY <1>2, <1>3, <1>5, <1>6, PhoneMoves

\* What is asked for begins no later than it ends, but for all of the empty video.
LEMMA AsksFor ==
  ASSUME plainSize \in Nat, NEW spec \in Specs,
         NEW from, from = IF spec[1] = Absent THEN Greater(plainSize - spec[2], 0) ELSE spec[1],
         NEW to, to = IF spec[1] = Absent \/ spec[2] = Absent THEN plainSize - 1
                      ELSE Lesser(spec[2], plainSize - 1),
         from <= to \/ spec = <<0, Absent>>
  PROVE  /\ from \in Nat /\ to \in Int /\ to < plainSize
         /\ from <= to \/ (from = 0 /\ to = -1)
<1>1. PICK a, b : spec = <<a, b>> /\ (\/ a \in 0 .. plainSize /\ b \in (0 .. plainSize) \cup {Absent}
                                      \/ a = Absent /\ b \in 0 .. plainSize + 1)
  BY DEF Specs
<1>2. Absent \notin Int
  BY AbsentAssumption
<1>3. CASE a = Absent
  <2>1. b \in 0 .. plainSize + 1 /\ spec # <<0, Absent>> /\ to = plainSize - 1
    BY <1>1, <1>2, <1>3
  <2>2. from = Greater(plainSize - b, 0)
    BY <1>1, <1>3
  <2>3. from \in Nat
    BY <2>1, <2>2 DEF Greater
  <2> QED
    BY <2>1, <2>3
<1>4. CASE a # Absent /\ b = Absent
  <2>1. a \in Nat /\ from = a /\ to = plainSize - 1
    BY <1>1, <1>4
  <2>2. spec = <<0, Absent>> => a = 0
    BY <1>1
  <2> QED
    BY <2>1, <2>2
<1>5. CASE a # Absent /\ b # Absent
  <2>1. a \in Nat /\ b \in Nat /\ from = a /\ to = Lesser(b, plainSize - 1)
    BY <1>1, <1>5
  <2>2. to \in Int /\ to <= plainSize - 1
    BY <2>1 DEF Lesser
  <2>3. spec # <<0, Absent>>
    BY <1>1, <1>5
  <2> QED
    BY <2>1, <2>2, <2>3
<1> QED
  BY <1>3, <1>4, <1>5

LEMMA AskKeeps ==
  ASSUME MediaInv, NEW p \in Players, NEW spec \in Specs, PlayerAsks(p, spec)
  PROVE  PhoneHolds'
<1>1. PICK from, to : 
        /\ from = IF spec[1] = Absent THEN Greater(plainSize - spec[2], 0) ELSE spec[1]
        /\ to = IF spec[1] = Absent \/ spec[2] = Absent THEN plainSize - 1
                ELSE Lesser(spec[2], plainSize - 1)
  OBVIOUS
<1>2. /\ player[p].state = "open" /\ (from <= to \/ spec = <<0, Absent>>)
      /\ player' = [player EXCEPT ![p] =
           [@ EXCEPT !.state = "playing", !.from = from, !.to = to,
                     !.next = from \div ChunkSize, !.got = << >>]]
      /\ UNCHANGED <<plainSize, serverVars, cached, writing>>
  BY <1>1 DEF PlayerAsks
<1>3. plainSize \in PlainSizes /\ plainSize \in Nat /\ PhoneHolds
  BY PhoneOf, FilesThere DEF MediaInv
<1>4. /\ from \in Nat /\ to \in Int /\ to < plainSize
      /\ from <= to \/ (from = 0 /\ to = -1)
  BY <1>1, <1>2, <1>3, AsksFor
<1>5. ChunkSize \in Nat \ {0} /\ from \div ChunkSize \in Nat
  BY <1>4, MediaAssumption, Quotients
<1>6. PICK new : new = [player[p] EXCEPT !.state = "playing", !.from = from, !.to = to,
                               !.next = from \div ChunkSize, !.got = << >>]
  OBVIOUS
<1>7. player' = [player EXCEPT ![p] = new] /\ AnswerHolds(player[p]) /\ player[p] \in Answers
  BY <1>2, <1>3, <1>6 DEF PhoneHolds
<1>8. /\ new \in Answers /\ new.state = "playing" /\ new.from = from /\ new.to = to
      /\ new.next = from \div ChunkSize /\ new.got = << >> /\ new.header = player[p].header
  <2>1. PICK first \in Nat : first = from \div ChunkSize
    BY <1>5
  <2>2. PICK old \in Answers : old = player[p]
    BY <1>7
  <2>3. new = [old EXCEPT !.state = "playing", !.from = from, !.to = to, !.next = first, !.got = << >>]
    BY <1>6, <2>1, <2>2
  <2>4. new \in Answers
    <3>1. "playing" \in {"idle", "header", "open", "playing", "complete", "unverified"}
          /\ from \in Nat /\ to \in Int /\ << >> \in Seq(Int \X Int)
      BY <1>4
    <3>2. \A a \in Answers : \A f, t, n, g :
            f \in Nat /\ t \in Int /\ n \in Nat /\ g \in Seq(Int \X Int) =>
              [a EXCEPT !.state = "playing", !.from = f, !.to = t, !.next = n, !.got = g] \in Answers
      BY DEF Answers
    <3> QED
      BY ONLY <2>3, <3>1, <3>2, old \in Answers, first \in Nat
  <2> QED
    BY <2>1, <2>2, <2>3, <2>4 DEF Answers
<1>9. PlayerKnown(new) /\ AnswerExact(new)
  BY <1>2, <1>7, <1>8 DEF AnswerHolds, PlayerKnown, AnswerExact
<1>10. Streamed(new)
  <2>1. PICK last : last = IF to < 0 THEN 0 ELSE to \div ChunkSize
    OBVIOUS
  <2>2. from \div ChunkSize <= last
    <3>1. CASE to < 0
      <4>1. from = 0 /\ last = 0
        BY <1>4, <2>1, <3>1
      <4>2. (0 \div ChunkSize) * ChunkSize <= 0 /\ 0 \div ChunkSize \in Nat
        BY <1>5, Quotients
      <4>3. 0 \div ChunkSize <= 0 <=> (0 \div ChunkSize) * ChunkSize <= 0 * ChunkSize
        BY <1>5, <4>2, Products
      <4> QED
        BY <1>5, <4>1, <4>2, <4>3, Products
    <3>2. CASE to >= 0
      <4>1. last = to \div ChunkSize /\ to \in Nat /\ from <= to
        BY <1>4, <2>1, <3>2
      <4>2. PICK m \in Nat, q \in Nat : m = from \div ChunkSize /\ q = last
        BY <1>4, <1>5, <4>1, Quotients
      <4>3. m * ChunkSize <= from /\ to < q * ChunkSize + ChunkSize
        BY <1>4, <1>5, <4>1, <4>2, Quotients
      <4>4. q + 1 \in Int /\ (q + 1) * ChunkSize = q * ChunkSize + ChunkSize
            /\ (q + 1 <= m <=> (q + 1) * ChunkSize <= m * ChunkSize)
            /\ m * ChunkSize \in Int /\ q * ChunkSize \in Int
        BY <1>5, Products
      <4>5. ~(q + 1 <= m)
        BY <1>4, <1>5, <4>1, <4>3, <4>4
      <4> QED
        BY <4>2, <4>5
    <3> QED
      BY <1>4, <3>1, <3>2
  <2>3. LastChunk(new) = last
    BY <1>8, <2>1 DEF LastChunk
  <2>4. from \div ChunkSize <= from \div ChunkSize
    BY <1>5
  <2> QED
    BY <1>3, <1>4, <1>8, <2>2, <2>3, <2>4 DEF Streamed
<1>11. {} \in SUBSET (Players \X Files \X Ciphertext) /\ writing' = writing \cup {}
  BY <1>2
<1>12. AnswerHolds(new)
  BY <1>8, <1>9, <1>10 DEF AnswerHolds
<1> QED
  BY <1>2, <1>7, <1>11, <1>12, OneMoves

-----------------------------------------------------------------------------
(* Media: a batch.                                                         *)

LEMMA Beyond ==
  ASSUME NEW n \in Nat, NEW m \in Nat, NEW k \in 1 .. n + m, k \notin 1 .. n
  PROVE  \E j \in 1 .. m : k = n + j
<1>1. k - n \in 1 .. m /\ k = n + (k - n)
  OBVIOUS
<1> QED
  BY <1>1

\* What a batch adds to the answer begins where the answer stops, and does so
\* chunk by chunk.
LEMMA PortionsFollow ==
  ASSUME plainSize \in Nat, NEW answer, AnswerHolds(answer), answer.state = "playing",
         NEW first \in Nat, first = answer.next,
         NEW upTo \in Nat, first <= upTo, upTo <= LastChunk(answer)
  PROVE  /\ \A c \in first .. upTo :
              /\ Portion(answer, c) \in Int \X Int
              /\ Portion(answer, c)[1] - 1 <= Portion(answer, c)[2] /\ Portion(answer, c)[2] <= answer.to
              /\ c # first => Portion(answer, c)[1] = Portion(answer, c - 1)[2] + 1
         /\ Portion(answer, first)[1] = IF answer.got = << >> THEN answer.from
                                ELSE answer.got[Len(answer.got)][2] + 1
         /\ Portion(answer, upTo)[2] = IF upTo = LastChunk(answer) THEN answer.to ELSE (upTo + 1) * ChunkSize - 1
<1>1. /\ plainSize \in Nat /\ answer \in Answers /\ Streamed(answer)
  BY DEF AnswerHolds
<1>3. /\ answer.from \in Nat /\ answer.to \in Int /\ answer.to < plainSize
      /\ answer.from <= answer.to \/ (answer.from = 0 /\ answer.to = -1)
      /\ answer.got \in Seq(Int \X Int)
      /\ answer.from \div ChunkSize <= first /\ first <= LastChunk(answer)
      /\ IF first = answer.from \div ChunkSize THEN answer.got = << >>
         ELSE answer.got # << >> /\ answer.got[Len(answer.got)][2] = first * ChunkSize - 1
  BY <1>1 DEF Answers, Streamed
<1>4. /\ ChunkSize \in Nat \ {0} /\ answer.from \div ChunkSize \in Nat
      /\ ChunkCount(plainSize) \in Nat \ {0}
      /\ LastChunk(answer) \in 0 .. ChunkCount(plainSize) - 1
  BY <1>1, <1>3, ChunksOf, Quotients, PieceOf
<1>5. PICK start \in Nat : start = answer.from \div ChunkSize
  BY <1>4
<1>6. /\ LastChunk(answer) \in Nat /\ upTo \in Nat /\ first <= upTo /\ upTo <= LastChunk(answer) /\ start <= first
  BY <1>3, <1>4, <1>5
<1>7. \A c \in first .. upTo :
        /\ Portion(answer, c)[1] = IF c = start THEN answer.from ELSE c * ChunkSize
        /\ Portion(answer, c)[2] = IF c = LastChunk(answer) THEN answer.to ELSE c * ChunkSize + ChunkSize - 1
        /\ Portion(answer, c) \in Int \X Int
        /\ Portion(answer, c)[1] - 1 <= Portion(answer, c)[2] /\ Portion(answer, c)[2] <= answer.to
  <2> SUFFICES ASSUME NEW c \in first .. upTo
               PROVE  /\ Portion(answer, c)[1] = IF c = start THEN answer.from ELSE c * ChunkSize
                      /\ Portion(answer, c)[2] = IF c = LastChunk(answer) THEN answer.to
                                         ELSE c * ChunkSize + ChunkSize - 1
                      /\ Portion(answer, c) \in Int \X Int
                      /\ Portion(answer, c)[1] - 1 <= Portion(answer, c)[2] /\ Portion(answer, c)[2] <= answer.to
    OBVIOUS
  <2>1. c \in Nat /\ answer.from \div ChunkSize <= c /\ c <= LastChunk(answer)
    BY <1>5, <1>6
  <2> QED
    BY <1>1, <1>3, <1>5, <2>1, PieceOf
<1>8. ASSUME NEW c \in first .. upTo, c # first
      PROVE  Portion(answer, c)[1] = Portion(answer, c - 1)[2] + 1
  <2>1. PICK d \in first .. upTo : d = c - 1
    BY <1>8
  <2>2. d \in Nat /\ d # LastChunk(answer) /\ c # start /\ c = d + 1
    BY <1>6, <1>8, <2>1
  <2>3. Portion(answer, c)[1] = c * ChunkSize /\ Portion(answer, d)[2] = d * ChunkSize + ChunkSize - 1
    BY <1>7, <2>2
  <2>4. (d + 1) * ChunkSize = d * ChunkSize + ChunkSize /\ d * ChunkSize \in Int
    BY <1>4, <2>2, Products
  <2>5. PICK x \in Int : x = d * ChunkSize
    BY <2>4
  <2>6. Portion(answer, c)[1] = x + ChunkSize /\ Portion(answer, d)[2] = x + ChunkSize - 1
    BY <2>2, <2>3, <2>4, <2>5
  <2>7. Portion(answer, c)[1] = Portion(answer, d)[2] + 1
    BY <1>4, <2>6
  <2> QED
    BY <2>1, <2>7
<1>9. Portion(answer, first)[1] = IF answer.got = << >> THEN answer.from
                          ELSE answer.got[Len(answer.got)][2] + 1
  <2>1. first \in first .. upTo
    BY <1>6
  <2>2. CASE first = start
    BY <1>3, <1>5, <1>7, <2>1, <2>2
  <2>3. CASE first # start
    <3>1. /\ answer.got # << >> /\ answer.got[Len(answer.got)][2] = first * ChunkSize - 1
          /\ Portion(answer, first)[1] = first * ChunkSize
      BY <1>3, <1>5, <1>7, <2>1, <2>3
    <3>2. PICK x \in Int : x = first * ChunkSize
      BY <1>4, Products
    <3>3. answer.got[Len(answer.got)][2] = x - 1 /\ x - 1 + 1 = x
      BY <3>1, <3>2
    <3> QED
      BY <3>1, <3>2, <3>3
  <2> QED
    BY <2>2, <2>3
<1>10. Portion(answer, upTo)[2] = IF upTo = LastChunk(answer) THEN answer.to ELSE (upTo + 1) * ChunkSize - 1
  <2>1. (upTo + 1) * ChunkSize = upTo * ChunkSize + ChunkSize /\ upTo * ChunkSize \in Int
    BY <1>4, <1>6, Products
  <2>2. (upTo + 1) * ChunkSize - 1 = upTo * ChunkSize + ChunkSize - 1
    BY <1>4, <2>1
  <2>3. upTo \in first .. upTo
    BY <1>6
  <2> QED
    BY <1>7, <2>2, <2>3
<1> QED
  BY <1>7, <1>8, <1>9, <1>10

LEMMA SequenceOf ==
  ASSUME NEW S, NEW m \in Nat, NEW s \in [1 .. m -> S]
  PROVE  s \in Seq(S) /\ Len(s) = m
OBVIOUS

\* An answer of which chunk upTo is the last so far: in order, and whole.
AnswerUpTo(answer, got, upTo) ==
  /\ got \in Seq(Int \X Int) /\ got # << >>
  /\ got[Len(got)][2] = IF upTo = LastChunk(answer) THEN answer.to ELSE (upTo + 1) * ChunkSize - 1
  /\ \A k \in 1 .. Len(got) :
       /\ got[k][1] = IF k = 1 THEN answer.from ELSE got[k - 1][2] + 1
       /\ got[k][1] - 1 <= got[k][2] /\ got[k][2] <= answer.to

LEMMA AnswerGrows ==
  ASSUME plainSize \in Nat, NEW answer, AnswerHolds(answer), answer.state = "playing",
         NEW first \in Nat, first = answer.next,
         NEW upTo \in Nat, first <= upTo, upTo <= LastChunk(answer),
         NEW got2, got2 = answer.got \o [k \in 1 .. upTo - first + 1 |-> Portion(answer, first + k - 1)]
  PROVE  AnswerUpTo(answer, got2, upTo)
<1>1. answer.got \in Seq(Int \X Int) /\ answer.from \in Int /\ answer.to \in Int
      /\ AnswerExact(answer)
  BY DEF AnswerHolds, Answers
<1>2. PICK m \in Nat \ {0} : m = upTo - first + 1
  OBVIOUS
<1>3. PICK n \in Nat : n = Len(answer.got)
  BY <1>1
<1>4. /\ \A k \in 1 .. m : first + k - 1 \in first .. upTo
      /\ \A k \in 1 .. m : k # 1 => first + k - 1 # first
      /\ \A k \in 1 .. m : k # 1 => k - 1 \in 1 .. m /\ first + k - 1 - 1 = first + (k - 1) - 1
      /\ first + m - 1 = upTo /\ first + 1 - 1 = first /\ 1 \in 1 .. m /\ m \in 1 .. m
  BY ONLY <1>2, first \in Nat, upTo \in Nat, m \in Nat \ {0}
<1>5. /\ \A c \in first .. upTo :
           /\ Portion(answer, c) \in Int \X Int
           /\ Portion(answer, c)[1] - 1 <= Portion(answer, c)[2] /\ Portion(answer, c)[2] <= answer.to
           /\ c # first => Portion(answer, c)[1] = Portion(answer, c - 1)[2] + 1
      /\ Portion(answer, first)[1] = IF answer.got = << >> THEN answer.from
                             ELSE answer.got[Len(answer.got)][2] + 1
      /\ Portion(answer, upTo)[2] = IF upTo = LastChunk(answer) THEN answer.to ELSE (upTo + 1) * ChunkSize - 1
  BY PortionsFollow
<1>6. PICK new \in [1 .. m -> Int \X Int] :
        /\ new = [k \in 1 .. m |-> Portion(answer, first + k - 1)]
        /\ \A k \in 1 .. m : new[k] = Portion(answer, first + k - 1)
  <2> DEFINE new == [k \in 1 .. m |-> Portion(answer, first + k - 1)]
  <2>1. new \in [1 .. m -> Int \X Int] /\ \A k \in 1 .. m : new[k] = Portion(answer, first + k - 1)
    BY <1>4, <1>5
  <2>2. new = [k \in 1 .. m |-> Portion(answer, first + k - 1)]
    OBVIOUS
  <2> QED
    BY <2>1, <2>2
<1>7. got2 = answer.got \o new
  BY <1>2, <1>6
<1>8. new \in Seq(Int \X Int) /\ Len(new) = m
  BY SequenceOf, Zenon, m \in Nat
<1>9. /\ got2 \in Seq(Int \X Int) /\ Len(got2) = n + m
      /\ \A k \in 1 .. n : got2[k] = answer.got[k]
      /\ \A j \in 1 .. m : got2[n + j] = new[j]
  <2>1. PICK old \in Seq(Int \X Int) : old = answer.got
    BY <1>1
  <2>2. PICK more \in Seq(Int \X Int) : more = new
    BY <1>8
  <2>3. /\ old \o more \in Seq(Int \X Int) /\ Len(old \o more) = Len(old) + Len(more)
        /\ \A k \in 1 .. Len(old) : (old \o more)[k] = old[k]
        /\ \A j \in 1 .. Len(more) : (old \o more)[Len(old) + j] = more[j]
    BY ONLY old \in Seq(Int \X Int), more \in Seq(Int \X Int)
  <2>4. Len(old) = n /\ Len(more) = m
    BY ONLY <1>3, <1>8, <2>1, <2>2
  <2>5. got2 = old \o more
    BY ONLY <1>7, <2>1, <2>2, Zenon
  <2> QED
    BY ONLY <2>1, <2>2, <2>3, <2>4, <2>5, Zenon
<1>10. \A j \in 1 .. m : got2[n + j] = Portion(answer, first + j - 1)
  BY <1>6, <1>9, Zenon
<1>12. \A k \in 1 .. n : /\ got2[k][1] = IF k = 1 THEN answer.from ELSE got2[k - 1][2] + 1
                         /\ got2[k][1] - 1 <= got2[k][2] /\ got2[k][2] <= answer.to
  <2> SUFFICES ASSUME NEW k \in 1 .. n
               PROVE  /\ got2[k][1] = IF k = 1 THEN answer.from ELSE got2[k - 1][2] + 1
                      /\ got2[k][1] - 1 <= got2[k][2] /\ got2[k][2] <= answer.to
    OBVIOUS
  <2>1. k # 1 => k - 1 \in 1 .. n
    BY <1>3
  <2>2. got2[k] = answer.got[k] /\ (k # 1 => got2[k - 1] = answer.got[k - 1])
    BY <1>9, <2>1
  <2>3. /\ answer.got[k][1] = IF k = 1 THEN answer.from ELSE answer.got[k - 1][2] + 1
        /\ answer.got[k][1] - 1 <= answer.got[k][2] /\ answer.got[k][2] <= answer.to
    BY <1>1, <1>3 DEF AnswerExact
  <2> QED
    BY <2>2, <2>3
<1>13. got2[n + 1][1] = IF n = 0 THEN answer.from ELSE got2[n][2] + 1
  <2>1. got2[n + 1] = Portion(answer, first)
    BY <1>4, <1>10
  <2>2. n = 0 <=> answer.got = << >>
    BY <1>1, <1>3
  <2>3. n # 0 => got2[n] = answer.got[n]
    BY <1>3, <1>9
  <2> QED
    BY <1>3, <1>5, <2>1, <2>2, <2>3
<1>14. ASSUME NEW j \in 1 .. m
       PROVE  /\ got2[n + j][1] = IF n + j = 1 THEN answer.from ELSE got2[n + j - 1][2] + 1
              /\ got2[n + j][1] - 1 <= got2[n + j][2] /\ got2[n + j][2] <= answer.to
  <2>1. PICK c \in first .. upTo : c = first + j - 1 /\ got2[n + j] = Portion(answer, c)
    BY <1>4, <1>10
  <2>2. got2[n + j][1] - 1 <= got2[n + j][2] /\ got2[n + j][2] <= answer.to
    BY <1>5, <2>1
  <2>3. CASE j = 1
    <3>1. (n + j = 1 <=> n = 0) /\ n + j = n + 1 /\ n + j - 1 = n
      BY ONLY <2>3, n \in Nat, j = 1
    <3>2. got2[n + j][1] = IF n + j = 1 THEN answer.from ELSE got2[n + j - 1][2] + 1
      BY ONLY <1>13, <3>1
    <3> QED
      BY <2>2, <3>2
  <2>4. CASE j # 1
    <3>1. PICK i \in 1 .. m : i = j - 1
      BY <1>4, <2>4
    <3>2. PICK d \in first .. upTo : d = first + i - 1 /\ got2[n + i] = Portion(answer, d)
      BY <1>4, <1>10
    <3>3. n + j # 1 /\ n + j - 1 = n + i
      BY ONLY <2>4, <3>1, n \in Nat, j \in 1 .. m, j # 1
    <3>4. c # first /\ c - 1 = d
      BY ONLY <2>1, <2>4, <3>1, <3>2, first \in Nat, j \in 1 .. m, j # 1, m \in Nat
    <3>5. Portion(answer, c)[1] = Portion(answer, d)[2] + 1
      BY <1>5, <3>4
    <3> QED
      BY <2>1, <2>2, <3>2, <3>3, <3>5
  <2> QED
    BY <2>3, <2>4
<1>15. ASSUME NEW k \in 1 .. n + m
       PROVE  /\ got2[k][1] = IF k = 1 THEN answer.from ELSE got2[k - 1][2] + 1
              /\ got2[k][1] - 1 <= got2[k][2] /\ got2[k][2] <= answer.to
  <2>1. CASE k \in 1 .. n
    BY <1>12, <2>1
  <2>2. CASE k \notin 1 .. n
    <3>1. PICK j \in 1 .. m : k = n + j
      BY ONLY <2>2, n \in Nat, m \in Nat, k \in 1 .. n + m, k \notin 1 .. n, Beyond
    <3>2. /\ got2[n + j][1] = IF n + j = 1 THEN answer.from ELSE got2[n + j - 1][2] + 1
          /\ got2[n + j][1] - 1 <= got2[n + j][2] /\ got2[n + j][2] <= answer.to
      BY <1>14
    <3> QED
      BY ONLY <3>1, <3>2
  <2> QED
    BY <2>1, <2>2
<1>16. got2[n + m] = Portion(answer, upTo) /\ n + m # 0
  BY ONLY <1>4, <1>10, n \in Nat, m \in Nat \ {0}
<1>17. got2 # << >>
  BY <1>9, <1>16
<1> QED
  <2>1. got2[Len(got2)] = Portion(answer, upTo)
    BY <1>9, <1>16
  <2>2. got2[Len(got2)][2] = IF upTo = LastChunk(answer) THEN answer.to ELSE (upTo + 1) * ChunkSize - 1
    BY <1>5, <2>1
  <2>3. \A k \in 1 .. Len(got2) :
          /\ got2[k][1] = IF k = 1 THEN answer.from ELSE got2[k - 1][2] + 1
          /\ got2[k][1] - 1 <= got2[k][2] /\ got2[k][2] <= answer.to
    BY <1>9, <1>15
  <2> QED
    BY ONLY <1>9, <1>17, <2>2, <2>3 DEF AnswerUpTo

\* A chunk, fetched or read from a whole file, is one of a named object, and verifies
\* under the header of that object.
LEMMA ChunkVerifies ==
  ASSUME plainSize \in Nat, NEW i \in 0 .. ChunkCount(plainSize) - 1, NEW b, FileKnown(i, b)
  PROVE  Verifies(b, b.o, i)
BY VerifiedFile DEF FileKnown

\* The least member, where it is known.
LEMMA LeastIsMin ==
  ASSUME NEW S \in SUBSET Int, NEW m \in S, \A x \in S : m <= x
  PROVE  Min(S) = m
<1>1. \A x \in S : (\A y \in S : x <= y) => x = m
  OBVIOUS
<1> QED BY <1>1 DEF Min


\* The chunks of a batch, and which object and which row they are of.
LEMMA BatchBounds ==
  ASSUME plainSize \in PlainSizes, NEW answer, AnswerHolds(answer), answer.state = "playing",
         NEW first, first = answer.next,
         NEW upTo, upTo = Lesser(first + BatchChunks - 1, LastChunk(answer))
  PROVE  /\ plainSize \in Nat /\ first \in Nat /\ LastChunk(answer) \in Nat
         /\ upTo \in Nat /\ first <= upTo /\ upTo <= LastChunk(answer) /\ upTo - first < BatchChunks
         /\ first .. upTo \subseteq 0 .. ChunkCount(plainSize) - 1
         /\ first .. upTo \subseteq Chunks /\ Chunks \subseteq Files
<1>1. /\ plainSize \in Nat /\ answer \in Answers /\ Streamed(answer)
      /\ 0 .. ChunkCount(plainSize) - 1 \subseteq Chunks /\ Chunks \subseteq Files
  BY FilesThere DEF AnswerHolds
<1>2. /\ answer.from \in Nat /\ answer.to \in Int /\ answer.to < plainSize /\ first \in Nat
      /\ answer.from <= answer.to \/ (answer.from = 0 /\ answer.to = -1)
      /\ answer.from \div ChunkSize <= first /\ first <= LastChunk(answer)
  BY <1>1 DEF Answers, Streamed
<1>3. /\ ChunkSize \in Nat \ {0} /\ BatchChunks \in Nat \ {0} /\ answer.from \div ChunkSize \in Nat
      /\ ChunkCount(plainSize) \in Nat \ {0}
  BY <1>1, <1>2, MediaAssumption, ChunksOf, Quotients
<1>4. LastChunk(answer) \in 0 .. ChunkCount(plainSize) - 1
  BY <1>1, <1>2, PieceOf
<1>5. PICK last \in Nat : last = LastChunk(answer) /\ last <= ChunkCount(plainSize) - 1 /\ first <= last
  BY <1>2, <1>3, <1>4
<1>6. upTo \in Nat /\ first <= upTo /\ upTo <= last /\ upTo - first < BatchChunks
  <2>1. upTo = IF first + BatchChunks - 1 < last THEN first + BatchChunks - 1 ELSE last
    BY <1>5 DEF Lesser
  <2> QED
    BY ONLY <1>2, <1>3, <1>5, <2>1, first \in Nat, last \in Nat
<1>7. first .. upTo \subseteq 0 .. ChunkCount(plainSize) - 1
  BY ONLY <1>2, <1>3, <1>5, <1>6
<1> QED
  BY <1>1, <1>2, <1>5, <1>6, <1>7

LEMMA BatchFetches ==
  ASSUME plainSize \in PlainSizes, NEW answer, AnswerHolds(answer), answer.state = "playing",
         NEW first, first = answer.next,
         NEW upTo, upTo = Lesser(first + BatchChunks - 1, LastChunk(answer)),
         NEW missing, missing \subseteq first .. upTo,
         NEW bytes, bytes = Fetched(EncOffset(Min(missing)),
                                    EncOffset(upTo) + EncLength(plainSize, upTo) - 1),
         NEW i \in missing
  PROVE  Slice(bytes, EncOffset(i), EncLength(plainSize, i)) = FileOf(i, asset.object)
<1>1. /\ plainSize \in Nat /\ first \in Nat /\ upTo \in Nat /\ first <= upTo
      /\ upTo - first < BatchChunks /\ BatchChunks \in Nat
      /\ first .. upTo \subseteq 0 .. ChunkCount(plainSize) - 1
      /\ ChunkCount(plainSize) \in Nat \ {0}
  BY BatchBounds, MediaAssumption, ChunksOf
<1>2. missing \subseteq Nat
  BY ONLY <1>1, missing \subseteq first .. upTo
<1>3. PICK m \in missing : \A k \in missing : m <= k
  BY <1>2, LeastNatural
<1>4. Min(missing) = m
  BY <1>2, <1>3, LeastIsMin
<1>5. bytes = Fetched(EncOffset(m), EncOffset(upTo) + EncLength(plainSize, upTo) - 1)
  BY <1>4
<1>6. /\ m \in 0 .. ChunkCount(plainSize) - 1 /\ upTo \in m .. ChunkCount(plainSize) - 1
      /\ upTo - m < BatchChunks /\ i \in m .. upTo
  <2>1. m \in first .. upTo /\ i \in first .. upTo /\ upTo \in first .. upTo /\ m <= i
    BY ONLY <1>1, <1>3, missing \subseteq first .. upTo, i \in missing
  <2>2. m \in 0 .. ChunkCount(plainSize) - 1 /\ upTo \in 0 .. ChunkCount(plainSize) - 1
    BY <1>1, <2>1
  <2> QED
    BY ONLY <1>1, <2>1, <2>2
<1> QED
  BY <1>1, <1>5, <1>6, ChunksFetched

LEMMA BatchKeeps ==
  ASSUME MediaInv, NEW p \in Players, NEW torn \in SUBSET (BeingWritten \ {Shdr}), Batch(p, torn)
  PROVE  PhoneHolds'
<1>0. PICK answer : answer = player[p]
  OBVIOUS
<1>1. PICK first, upTo : first = answer.next
                         /\ upTo = Lesser(first + BatchChunks - 1, LastChunk(answer))
  OBVIOUS
<1>2. PICK missing : missing = {i \in first .. upTo : i \notin torn /\ cached[i] = Absent}
  OBVIOUS
<1>3. PICK bytes : bytes = Fetched(EncOffset(Min(missing)),
                                   EncOffset(upTo) + EncLength(plainSize, upTo) - 1)
  OBVIOUS
<1>4. PICK chunk : chunk = [i \in first .. upTo |->
                  IF i \in torn THEN Torn
                  ELSE IF i \in missing THEN Slice(bytes, EncOffset(i), EncLength(plainSize, i))
                  ELSE cached[i]]
  OBVIOUS
<1>5. PICK ok \in BOOLEAN : ok <=> \A i \in first .. upTo : Verifies(chunk[i], answer.header, i)
  OBVIOUS
<1>6. PICK lost \in BOOLEAN : lost <=> \E i \in (first .. upTo) \ missing : chunk[i] = Torn
  OBVIOUS
<1>7. PICK got2 : got2 = answer.got \o [k \in 1 .. upTo - first + 1 |->
                                           Portion(answer, first + k - 1)]
  OBVIOUS
<1>8. PICK more : more = {<<p, i, chunk[i]>> : i \in {m \in missing : chunk[m] # Torn}}
  OBVIOUS
<1>9. PICK new : new = [answer EXCEPT
           !.state = IF ~ok THEN "unverified"
                     ELSE IF upTo = LastChunk(answer) THEN "complete" ELSE "playing",
           !.next = upTo + 1,
           !.got = IF ok THEN got2 ELSE answer.got,
           !.torn = lost]
  OBVIOUS
<1>10. /\ answer.state = "playing"
       /\ player' = [player EXCEPT ![p] = new]
       /\ writing' = writing \cup more
       /\ UNCHANGED <<plainSize, serverVars, cached>>
  <2>1. /\ answer.state = "playing" /\ writing' = writing \cup more
        /\ UNCHANGED <<plainSize, serverVars, cached>>
    BY <1>0, <1>1, <1>2, <1>3, <1>4, <1>8 DEF Batch
  <2>2. player' = [player EXCEPT ![p] = [answer EXCEPT
           !.state = IF ~(\A i \in first .. upTo : Verifies(chunk[i], answer.header, i))
                     THEN "unverified"
                     ELSE IF upTo = LastChunk(answer) THEN "complete" ELSE "playing",
           !.next = upTo + 1,
           !.got = IF \A i \in first .. upTo : Verifies(chunk[i], answer.header, i)
                   THEN answer.got \o [k \in 1 .. upTo - first + 1 |-> Portion(answer, first + k - 1)]
                   ELSE answer.got,
           !.torn = \E i \in (first .. upTo) \ missing : chunk[i] = Torn]]
    BY <1>0, <1>1, <1>2, <1>3, <1>4 DEF Batch
  <2> QED
    BY <1>5, <1>6, <1>7, <1>9, <2>1, <2>2
<1>11. /\ AnswerHolds(answer) /\ CacheKnown /\ plainSize \in PlainSizes
       /\ answer \in Answers /\ answer.header \in Uploads /\ Named(answer.header)
  <2>1. PhoneHolds /\ plainSize \in PlainSizes
    BY PhoneOf DEF MediaInv
  <2>2. AnswerHolds(answer) /\ CacheKnown
    BY <1>0, <2>1 DEF PhoneHolds
  <2> QED
    BY <1>10, <2>1, <2>2 DEF AnswerHolds, PlayerKnown
<1>12. /\ plainSize \in Nat /\ first \in Nat /\ LastChunk(answer) \in Nat
       /\ upTo \in Nat /\ first <= upTo /\ upTo <= LastChunk(answer)
       /\ first .. upTo \subseteq 0 .. ChunkCount(plainSize) - 1
       /\ first .. upTo \subseteq Chunks /\ Chunks \subseteq Files
  BY <1>1, <1>10, <1>11, BatchBounds
<1>13. asset.object \in Uploads /\ Named(asset.object)
  BY <1>11, RowNamed
<1>14. ASSUME NEW i \in missing
       PROVE  /\ i \in first .. upTo /\ i \in Files
              /\ chunk[i] \in Ciphertext /\ FileKnown(i, chunk[i])
  <2>1. i \in first .. upTo /\ i \notin torn /\ missing \subseteq first .. upTo
    BY <1>2
  <2>2. Slice(bytes, EncOffset(i), EncLength(plainSize, i)) = FileOf(i, asset.object)
    BY <1>1, <1>3, <1>10, <1>11, <2>1, BatchFetches
  <2>3. chunk[i] = FileOf(i, asset.object)
    BY ONLY <1>4, <2>1, <2>2, i \in missing
  <2>4. chunk[i] \in Ciphertext /\ chunk[i].o = asset.object
    BY <1>12, <1>13, <2>1, <2>3, FileIsWhole
  <2> QED
    BY <1>12, <1>13, <2>1, <2>3, <2>4 DEF FileKnown
<1>15. /\ more \in SUBSET (Players \X Files \X Ciphertext)
       /\ \A x \in more : FileKnown(x[2], x[3])
  BY <1>8, <1>14
<1>16. /\ got2 \in Seq(Int \X Int) /\ got2 # << >>
       /\ got2[Len(got2)][2] = IF upTo = LastChunk(answer) THEN answer.to
                               ELSE (upTo + 1) * ChunkSize - 1
       /\ \A k \in 1 .. Len(got2) :
            /\ got2[k][1] = IF k = 1 THEN answer.from ELSE got2[k - 1][2] + 1
            /\ got2[k][1] - 1 <= got2[k][2] /\ got2[k][2] <= answer.to
  <2>1. AnswerUpTo(answer, got2, upTo)
    BY <1>1, <1>7, <1>10, <1>11, <1>12, AnswerGrows
  <2> QED
    BY <2>1 DEF AnswerUpTo
<1>17. /\ new \in Answers
       /\ new.state = IF ~ok THEN "unverified" ELSE IF upTo = LastChunk(answer) THEN "complete"
                                                      ELSE "playing"
       /\ new.from = answer.from /\ new.to = answer.to /\ new.header = answer.header
       /\ new.next = upTo + 1 /\ new.torn = lost
       /\ new.got = IF ok THEN got2 ELSE answer.got
  <2>1. upTo + 1 \in Nat
    BY <1>12
  <2> QED
    BY <1>9, <1>10, <1>11, <1>16, <2>1 DEF Answers
<1>18. PlayerKnown(new)
  BY <1>11, <1>17 DEF PlayerKnown
<1>19. Streamed(new)
  <2> SUFFICES ASSUME new.state = "playing" PROVE Streamed(new)
    BY DEF Streamed
  <2>1. ok /\ upTo # LastChunk(answer) /\ new.got = got2
    BY <1>17
  <2>2. LastChunk(new) = LastChunk(answer)
    BY <1>17 DEF LastChunk
  <2>3. /\ answer.from <= answer.to \/ (answer.from = 0 /\ answer.to = -1)
        /\ answer.to < plainSize /\ answer.from \div ChunkSize <= first
        /\ answer.from \in Nat /\ answer.from \div ChunkSize \in Nat
    BY <1>1, <1>10, <1>11, MediaAssumption, Quotients DEF AnswerHolds, Streamed, Answers
  <2>4. /\ answer.from \div ChunkSize <= upTo + 1 /\ upTo + 1 <= LastChunk(answer)
        /\ upTo + 1 # answer.from \div ChunkSize
    BY ONLY <1>12, <2>1, <2>3
  <2>5. new.next = upTo + 1 /\ got2[Len(got2)][2] = (upTo + 1) * ChunkSize - 1
    BY <1>16, <1>17, <2>1
  <2> QED
    BY <1>16, <1>17, <2>1, <2>2, <2>3, <2>4, <2>5 DEF Streamed
\* What does not verify is torn, or is of another object than the header.
<1>20. new.state = "unverified" =>
         lost \/ \E u, v \in Uploads : u # v /\ Named(u) /\ Named(v)
  <2> SUFFICES ASSUME ~ok, ~lost
               PROVE  \E u, v \in Uploads : u # v /\ Named(u) /\ Named(v)
    BY <1>17
  <2>1. PICK i \in first .. upTo : ~Verifies(chunk[i], answer.header, i)
    BY <1>5
  <2>2. i \in 0 .. ChunkCount(plainSize) - 1 /\ i \in Files
    BY <1>12
  <2>3. chunk[i] \in Ciphertext /\ FileKnown(i, chunk[i])
    <3>1. CASE i \in missing
      BY <1>14, <3>1
    <3>2. CASE i \notin missing
      <4>1. chunk[i] # Torn
        BY <1>6, <3>2
      <4>2. chunk[i] = cached[i] /\ i \notin torn
        BY ONLY <1>4, <3>2, <4>1, i \in first .. upTo
      <4>3. cached[i] # Absent
        BY <1>2, <3>2, <4>2
      <4> QED
        BY <1>11, <2>2, <4>1, <4>2, <4>3 DEF CacheKnown
    <3> QED
      BY <3>1, <3>2
  <2>4. chunk[i].o \in Uploads /\ Named(chunk[i].o)
    BY <2>3 DEF FileKnown, Ciphertext
  <2>5. chunk[i].o # answer.header
    BY <1>12, <2>1, <2>2, <2>3, ChunkVerifies
  <2> QED
    BY <1>11, <2>4, <2>5
<1>21. AnswerExact(new)
  <2>1. \A k \in 1 .. Len(new.got) :
          /\ new.got[k][1] = IF k = 1 THEN new.from ELSE new.got[k - 1][2] + 1
          /\ new.got[k][1] - 1 <= new.got[k][2] /\ new.got[k][2] <= new.to
    BY <1>11, <1>16, <1>17 DEF AnswerHolds, AnswerExact
  <2>2. new.state = "complete" => new.got # << >> /\ new.got[Len(new.got)][2] = new.to
    BY <1>16, <1>17
  <2> QED
    BY <1>17, <1>20, <2>1, <2>2 DEF AnswerExact
<1>22. AnswerHolds(new)
  BY <1>17, <1>18, <1>19, <1>21 DEF AnswerHolds
<1> QED
  BY <1>10, <1>15, <1>22, OneMoves

-----------------------------------------------------------------------------
(* Media: the invariant, and what follows.                                 *)

LEMMA MediaStarts ==
  ASSUME MediaInit PROVE MediaInv
<1>1. ServerInv
  <2>1. \A u \in Uploads : at[u] = "new" /\ job[u].op = "none" /\ ~job[u].thumb
    BY DEF MediaInit, NoJob
  <2> QED
    BY <2>1 DEF MediaInit, ServerInv, UploadKnown, Named, NoJob, UploadStages
<1>2. CacheKnown
  BY DEF MediaInit, CacheKnown
<1>3. AnswerHolds(Idle)
  BY NothingPlayed DEF Idle
<1>4. player = [p \in Players |-> Idle]
  BY DEF MediaInit
<1> QED
  BY <1>1, <1>2, <1>3, <1>4 DEF MediaInit, MediaInv, AnswerHolds, StreamExact

\* What has been named stays so, whatever the server does.
LEMMA RequestLeaves ==
  ASSUME MediaInv, NEW u \in Uploads,
         \/ \E what, next : Accept(u, what, next)
         \/ Put(u) \/ PutThumbnail(u) \/ Commit(u)
  PROVE  PhoneHolds' /\ plainSize' \in PlainSizes
<1>1. /\ at[u] \in {"new", "put", "thumb", "commit"} /\ UNCHANGED <<plainSize, phoneVars>>
      /\ \E s : at' = [at EXCEPT ![u] = s]
      /\ job' = job \/ \E what : job' = [job EXCEPT ![u] = what]
  BY DEF Accept, Put, PutThumbnail, Commit, Advance
<1>2. /\ plainSize \in PlainSizes /\ at \in [Uploads -> UploadStages]
      /\ job \in [Uploads -> [op : {"none", "upload", "thumbnail", "convert"},
                              chunked : BOOLEAN, thumb : BOOLEAN]]
  BY DEF MediaInv, ServerInv
<1>3. \A v \in Uploads : Named(v) => Named(v)'
  BY <1>1, <1>2 DEF Named, IsChunked
<1> QED
  BY <1>1, <1>2, <1>3, PhoneUnmoved

LEMMA PhoneSteps ==
  ASSUME MediaInv,
         \/ \E p \in Players :
              \/ OpenVideo(p) \/ StopPlaying(p) \/ Close(p)
              \/ \E spec \in Specs : PlayerAsks(p, spec)
              \/ \E torn \in SUBSET (BeingWritten \ {Shdr}) : Batch(p, torn)
         \/ \E x \in writing : WriteFile(x)
         \/ KillPlayer
  PROVE  MediaInv'
<1>1. UNCHANGED serverVars /\ plainSize' = plainSize
  BY DEF OpenVideo, KillPlayer, StopPlaying, Close, WriteFile, PlayerAsks, Batch
<1>2. ServerInv' /\ plainSize' \in PlainSizes
  BY <1>1, ServerUnchanged DEF MediaInv
<1>3. PhoneHolds'
  BY OpenKeeps, KillKeeps, StopKeeps, FileKeeps, AskKeeps, BatchKeeps
<1> QED
  BY <1>2, <1>3 DEF MediaInv, PhoneHolds, AnswerHolds, StreamExact

\* MediaInv (media.py:28-204, video_stream_server.dart:38-192): what the bucket holds
\* of each request where it stands, what the phone's cache holds of each object the
\* row has named, and how far each player's answer has come.
THEOREM MediaInvariance == MediaSpec => []MediaInv
<1>1. MediaInit => MediaInv
  BY MediaStarts
<1>2. MediaInv /\ [MediaNext]_mediaVars => MediaInv'
  <2> SUFFICES ASSUME MediaInv, [MediaNext]_mediaVars PROVE MediaInv'
    OBVIOUS
  <2>1. ServerInv
    BY DEF MediaInv
  <2>2. ASSUME NEW u \in Uploads, NEW chunked \in BOOLEAN, NEW thumb \in BOOLEAN,
               Upload(u, chunked, thumb)
        PROVE  MediaInv'
    <3> DEFINE what == [op |-> "upload", chunked |-> chunked, thumb |-> thumb]
    <3>1. Accept(u, what, "put") /\ asset = Absent /\ \A v \in Uploads : job[v].op = "none"
      BY <2>2 DEF Upload, NoJob
    <3>2. ServerInv'
      BY <2>1, <3>1, AcceptKeeps
    <3> QED
      BY <3>1, <3>2, RequestLeaves DEF MediaInv, PhoneHolds, AnswerHolds, StreamExact
  <2>3. ASSUME NEW u \in Uploads, AttachThumbnail(u)
        PROVE  MediaInv'
    <3> DEFINE what == [op |-> "thumbnail", chunked |-> FALSE, thumb |-> TRUE]
    <3>1. Accept(u, what, "thumb") /\ asset # Absent
      BY <2>3 DEF AttachThumbnail
    <3>2. ServerInv'
      BY <2>1, <3>1, AcceptKeeps
    <3> QED
      BY <3>1, <3>2, RequestLeaves DEF MediaInv, PhoneHolds, AnswerHolds, StreamExact
  <2>4. ASSUME NEW u \in Uploads, Convert(u)
        PROVE  MediaInv'
    <3> DEFINE what == [op |-> "convert", chunked |-> TRUE, thumb |-> FALSE]
    <3>1. PICK next \in {"put", "refused"} :
            Accept(u, what, next) /\ asset # Absent /\ (next = "put" => ~asset.chunked)
      BY <2>4 DEF Convert
    <3>2. ServerInv'
      BY <2>1, <3>1, AcceptKeeps
    <3> QED
      BY <3>1, <3>2, RequestLeaves DEF MediaInv, PhoneHolds, AnswerHolds, StreamExact
  <2>5. ASSUME NEW u \in Uploads, Put(u) \/ PutThumbnail(u) \/ Commit(u)
        PROVE  MediaInv'
    <3>1. ServerInv'
      BY <2>1, <2>5, PutKeeps, CommitKeeps
    <3> QED
      BY <2>5, <3>1, RequestLeaves DEF MediaInv, PhoneHolds, AnswerHolds, StreamExact
  <2>6. CASE \/ \E p \in Players :
                  \/ OpenVideo(p) \/ StopPlaying(p) \/ Close(p)
                  \/ \E spec \in Specs : PlayerAsks(p, spec)
                  \/ \E torn \in SUBSET (BeingWritten \ {Shdr}) : Batch(p, torn)
             \/ \E x \in writing : WriteFile(x)
             \/ KillPlayer
    BY <2>6, PhoneSteps
  <2>7. CASE UNCHANGED mediaVars
    <3>1. UNCHANGED serverVars /\ UNCHANGED <<plainSize, phoneVars>>
      BY <2>7 DEF mediaVars
    <3>2. ServerInv' /\ plainSize' \in PlainSizes
      BY <2>1, <3>1, ServerUnchanged DEF MediaInv
    <3>3. \A u \in Uploads : Named(u) => Named(u)'
      BY <3>1 DEF serverVars, Named, IsChunked
    <3>4. PhoneHolds'
      BY <3>1, <3>3, PhoneUnmoved
    <3> QED
      BY <3>2, <3>4 DEF MediaInv, PhoneHolds, AnswerHolds, StreamExact
  <2> QED
    BY <2>2, <2>3, <2>4, <2>5, <2>6, <2>7 DEF MediaNext
<1> QED
  BY <1>1, <1>2, PTL DEF MediaSpec

\* MediaKept (media.py:182-202, storage.py:94-97): what the row names is in the
\* bucket, the file first uploaded is still named by it, and it says what format
\* its object has, however many thumbnails and conversions race.
THEOREM MediaIsKept == MediaSpec => []MediaKept
<1>1. MediaInv => MediaKept
  BY DEF MediaInv, ServerInv, MediaKept
<1> QED
  BY <1>1, MediaInvariance, PTL

\* Whatever part of an object a request asks for comes as one interval: from
\* the first byte it wants, to the last or to as many as one answer holds.
LEMMA RangeOfInterval ==
  ASSUME NEW total \in Nat, NEW spec, NEW from \in Nat, NEW to \in Int, to < total,
         ParseRange(spec, total) = <<from, Lesser(to, from + MaxRange - 1)>>,
         Wanted(spec, total) = {x \in 0 .. total - 1 : from <= x /\ x <= to}
  PROVE  LET range == ParseRange(spec, total)
             wanted == Wanted(spec, total)
         IN IF wanted = {} THEN ~Satisfiable(range)
            ELSE /\ Satisfiable(range)
                 /\ range[1] .. range[2] = {x \in wanted : x < Min(wanted) + MaxRange}
<1> DEFINE wanted == {x \in 0 .. total - 1 : from <= x /\ x <= to}
           last == IF to < from + MaxRange - 1 THEN to ELSE from + MaxRange - 1
<1>1. MaxRange \in Nat /\ MaxRange > 0
  BY MediaAssumption
<1>2. ParseRange(spec, total) = <<from, last>> /\ last \in Int
  BY <1>1 DEF Lesser
<1>3. Satisfiable(<<from, last>>) <=> from <= last
  BY DEF Satisfiable
<1>4. CASE from <= to
  <2>1. from \in wanted /\ Min(wanted) = from
    BY <1>4, LeastIsMin
  <2>2. from <= last
    BY <1>1, <1>4
  <2>3. from .. last = {x \in wanted : x < from + MaxRange}
    BY <1>1
  <2> HIDE DEF wanted, last
  <2>4. wanted # {} /\ from .. last = {x \in wanted : x < Min(wanted) + MaxRange}
    BY <2>1, <2>3
  <2> QED BY <2>2, <2>4, <1>2, <1>3 DEF wanted
<1>5. CASE to < from
  <2>1. wanted = {} /\ ~(from <= last)
    BY <1>1, <1>5
  <2> QED BY <2>1, <1>2, <1>3
<1> QED BY <1>4, <1>5

\* RangeExact (media.py:111-129), the part of BytesExact about the server: a
\* range request gets the bytes it asks for, as many as one answer holds, and
\* is refused if and only if there are none.
THEOREM RangesAreExact == RangeExact
<1> SUFFICES ASSUME NEW total \in Nat, NEW a \in (0 .. total + 1) \cup {Absent},
                    NEW b \in (0 .. total + 1) \cup {Absent}, <<a, b>> # <<Absent, Absent>>
             PROVE  LET range == ParseRange(<<a, b>>, total)
                        wanted == Wanted(<<a, b>>, total)
                    IN IF wanted = {} THEN ~Satisfiable(range)
                       ELSE /\ Satisfiable(range)
                            /\ range[1] .. range[2] = {x \in wanted : x < Min(wanted) + MaxRange}
  <2>1. \A n, x : x \in 0 .. n => x \in Nat
    OBVIOUS
  <2> QED BY <2>1 DEF RangeExact
<1>0. MaxRange \in Nat
  BY MediaAssumption
<1>1. CASE a = Absent
  <2> DEFINE from == IF total - b < 0 THEN 0 ELSE total - b
  <2>1. b \in 0 .. total + 1
    BY <1>1
  <2>2. ParseRange(<<a, b>>, total) = <<from, Lesser(total - 1, from + MaxRange - 1)>>
    BY <2>1, <1>1, <1>0 DEF ParseRange, Lesser, Greater
  <2>3. Wanted(<<a, b>>, total) = {x \in 0 .. total - 1 : x >= total - b}
    BY <1>1 DEF Wanted
  <2>4. {x \in 0 .. total - 1 : x >= total - b} = {x \in 0 .. total - 1 : from <= x /\ x <= total - 1}
    BY <2>1
  <2> QED BY <2>1, <2>2, <2>3, <2>4, RangeOfInterval
<1>2. CASE a # Absent /\ b = Absent
  <2>1. a \in 0 .. total + 1
    BY <1>2
  <2>2. ParseRange(<<a, b>>, total) = <<a, Lesser(total - 1, a + MaxRange - 1)>>
    BY <2>1, <1>2, <1>0 DEF ParseRange, Lesser
  <2>3. Wanted(<<a, b>>, total) = {x \in 0 .. total - 1 : x >= a}
    BY <1>2 DEF Wanted
  <2>4. {x \in 0 .. total - 1 : x >= a} = {x \in 0 .. total - 1 : a <= x /\ x <= total - 1}
    BY <2>1
  <2> QED BY <2>1, <2>2, <2>3, <2>4, RangeOfInterval
<1>3. CASE a # Absent /\ b # Absent
  <2> DEFINE to == IF b < total - 1 THEN b ELSE total - 1
  <2>1. a \in 0 .. total + 1 /\ b \in 0 .. total + 1
    BY <1>3
  <2>2. ParseRange(<<a, b>>, total) = <<a, Lesser(to, a + MaxRange - 1)>>
    BY <1>3 DEF ParseRange, Lesser
  <2>3. Wanted(<<a, b>>, total) = {x \in 0 .. total - 1 : a <= x /\ x <= b}
    BY <1>3 DEF Wanted
  <2>4. {x \in 0 .. total - 1 : a <= x /\ x <= b} = {x \in 0 .. total - 1 : a <= x /\ x <= to}
    BY <2>1
  <2> QED BY <2>1, <2>2, <2>3, <2>4, RangeOfInterval
<1> QED BY <1>1, <1>2, <1>3

\* BytesExact (media.py:111-129, video_stream_server.dart:84-192): the server answers a
\* range with the bytes it asks for, and every player is given the bytes of the video it
\* asks for, in order and each once, whatever is cached, torn or replaced meanwhile; only
\* after a torn read, or after two overlapping conversions, does an answer break off
\* because a chunk does not verify.
THEOREM BytesAreExact == MediaSpec => []BytesExact
<1>1. MediaInv => BytesExact
  BY RangesAreExact DEF MediaInv, BytesExact
<1> QED
  BY <1>1, MediaInvariance, PTL
==============================================================================
