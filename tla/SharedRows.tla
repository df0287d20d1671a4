------------------------------ MODULE SharedRows ------------------------------
(***************************************************************************)
(* The small rows the couple shares: phrases (routers/phrase.py), profiles, *)
(* the countdown and the settings (routers/profile.py), the wishlist       *)
(* (routers/wishlist.py), favourites (routers/content.py) and the admin    *)
(* password, which is a setting (routers/admin.py,                         *)
(* services/admin_auth.py).  Every request loads its row, checks it and    *)
(* commits later; in between any other request may run, and no row is      *)
(* locked.  An UPDATE names only the attributes whose value differs from   *)
(* the loaded one and raises if the row is gone; an INSERT raises if the   *)
(* key is taken; a DELETE finds its row gone without complaint.            *)
(*                                                                         *)
(* A text is a ciphertext with a fresh nonce, so it is named after the     *)
(* request that sent it.  The refresh after a commit only reads.           *)
(*                                                                         *)
(* The phones show a setting, the intimate mode, as providers/             *)
(* session_provider.dart:59-101 keeps it.  (A frame is shown when sent:    *)
(* frames of one connection arrive in order, so that one on its way only   *)
(* meets a toggle or a load, and both may as well come before it.)         *)
(***************************************************************************)
EXTENDS Naturals, FiniteSetsExt

CONSTANTS
  Spouses,      \* both have claimed their role
  Reqs,         \* HTTP requests, each handled once
  By,           \* whose access token a request carries
  Phrases, Items,   \* ids of phrases and wishlist items
  Author,       \* who wrote a phrase or wishes for an item
  Settings,     \* keys of app_settings that phones set and show
  Phones,
  Owner,        \* whose phone it is
  Password,     \* the key admin_password_hash
  Ratings,      \* what a phrase may be rated
  Nothing       \* NULL

ASSUME SharedRowsAssumption ==
  /\ By \in [Reqs -> Spouses]
  /\ Author \in [Phrases \cup Items -> Spouses]
  /\ Owner \in [Phones -> Spouses]
  /\ Nothing \notin Reqs \cup Ratings \cup {"on", "off"}
  /\ Spouses \cap {"text", "fulfilled", "name", "bio", "value", "id", "date", "stamp"} = {}

VARIABLES
  row,          \* the rows, by key: NoRow or the values of the attributes
  stage,        \* where each request stands
  call,         \* its row, what it is to do with it, and the values it sets
  found,        \* the row as the request's session has loaded it
  screen,       \* what each phone shows of a setting
  loads,        \* what phones have read of a setting, on its way to them
  untold,       \* the spouses a request has yet to broadcast to
  before,       \* history: the requests that had ended when each began
  missed        \* history: what a phone shows rests on older news than there is

showVars == <<screen, loads, missed>>
rowVars == <<row, stage, call, found, showVars, untold, before>>

Profiles == {"profile"} \X Spouses
Favourites == {"favourite"} \X Spouses
Countdowns == {"countdown"} \X Reqs      \* a row is named after its insert
Keys == Phrases \cup Items \cup Settings \cup {Password} \cup Profiles \cup Favourites
          \cup Countdowns

\* Each kind of row has its table or its keys, and NULL is no key.
ASSUME TablesAssumption ==
  /\ Phrases \cap Items = {} /\ Password \notin Settings
  /\ (Phrases \cup Items) \cap (Settings \cup {Password}) = {}
  /\ (Phrases \cup Items \cup Settings \cup {Password})
       \cap (Profiles \cup Favourites \cup Countdowns) = {}
  /\ Nothing \notin Keys

\* Of the profile's four fields and the item's three, two tell all that any
\* number of them would.
Attributes(k) ==
  CASE k \in Phrases -> {"text"} \cup Spouses
    [] k \in Items -> {"text", "fulfilled"}
    [] k \in Profiles -> {"name", "bio"}
    [] k \in Settings \cup {Password} -> {"value"}
    [] k \in Favourites -> {"id"}
    [] OTHER -> {"date", "by", "stamp"}

ValuesOf(a) ==
  CASE a = "stamp" -> Nat
    [] a \in {"value", "fulfilled"} -> Reqs \cup {"on", "off", Nothing}
    [] a \in {"text", "name", "bio", "id", "date"} -> Reqs \cup {Nothing}
    [] OTHER -> Ratings \cup Spouses \cup {Nothing}

NoRow == << >>      \* no attributes
Blank(k) == [a \in Attributes(k) |-> IF a = "fulfilled" THEN "off" ELSE Nothing]
RowLike(k, v) == DOMAIN v = Attributes(k) /\ v = [a \in DOMAIN v |-> v[a]]
IsRow(k, v) == RowLike(k, v) /\ \A a \in Attributes(k) : v[a] \in ValuesOf(a)

\* values over old, attribute by attribute.
Overlay(values, old) ==
  [a \in DOMAIN old |-> IF a \in DOMAIN values THEN values[a] ELSE old[a]]

Stages == {"new", "insert", "recheck", "commit", "tell", "done", "refused", "failed"}
Ended == {r \in Reqs : stage[r] \in {"done", "refused", "failed"}}
NoCall == [key |-> Nothing, how |-> "none", values |-> << >>]

\* Values are set for the attributes they are of; a setting is switched on or off.
RowsTypeOK ==
  /\ \A k \in Keys : row[k] = NoRow \/ IsRow(k, row[k])
  /\ stage \in [Reqs -> Stages]
  /\ \A r \in Reqs :
       /\ call[r].key \in Keys \cup {Nothing}
       /\ call[r].how \in {"none", "insert", "update", "delete"}
       /\ \A a \in DOMAIN call[r].values : call[r].values[a] \in ValuesOf(a)
       /\ call[r].key \in Settings => call[r].values["value"] \in {"on", "off"}
       /\ stage[r] = "commit" => IsRow(call[r].key, found[r])
  /\ untold \in [Reqs -> SUBSET Spouses]
  /\ before \in [Reqs -> SUBSET Reqs]

\* Phrases and items may be there or yet to be written; the rest is as after
\* an installation.
RowsInit ==
  /\ row \in {[k \in Keys |-> IF k \in there THEN Blank(k) ELSE NoRow] :
                there \in SUBSET (Phrases \cup Items)}
  /\ stage = [r \in Reqs |-> "new"]
  /\ call = [r \in Reqs |-> NoCall]
  /\ found = [r \in Reqs |-> NoRow]
  /\ screen = [c \in Phones \X Settings |-> "off"]
  /\ missed = [c \in Phones \X Settings |-> FALSE]
  /\ loads = {}
  /\ untold = [r \in Reqs |-> {}]
  /\ before = [r \in Reqs |-> {}]

Goto(r, s) == stage' = [stage EXCEPT ![r] = s]

\* The request is known from here on: its row as loaded now, and its end at
\* once if it is refused.
Begin(r, k, how, values, allowed, next) ==
  /\ stage[r] = "new"
  /\ call' = [call EXCEPT ![r] = [key |-> k, how |-> how, values |-> values]]
  /\ found' = [found EXCEPT ![r] = row[k]]
  /\ before' = [before EXCEPT ![r] = Ended]
  /\ Goto(r, IF allowed THEN next ELSE "refused")
  /\ UNCHANGED <<row, showVars, untold>>

Exists(k) == row[k] # NoRow
Own(r, k) == Author[k] = By[r]

-----------------------------------------------------------------------------
(* Phrases and wishes.  An id is fresh: nobody has named it before. *)

Fresh(k) == ~Exists(k) /\ \A q \in Reqs : call[q].key # k

CreatePhrase(r, p) ==
  /\ Fresh(p) /\ Own(r, p)
  /\ Begin(r, p, "insert", [a \in {"text"} |-> r], TRUE, "insert")

\* 404, 403; and the ratings were given for the old text.
EditPhrase(r, p) ==
  Begin(r, p, "update",
        [a \in Attributes(p) |-> IF a = "text" THEN r ELSE Nothing],
        Exists(p) /\ Own(r, p), "commit")

RatePhrase(r, p, n) ==
  Begin(r, p, "update", [a \in {By[r]} |-> n], Exists(p), "commit")

DeletePhrase(r, p) ==
  Begin(r, p, "delete", [a \in Attributes(p) |-> Nothing], Exists(p) /\ Own(r, p), "commit")

CreateItem(r, i) ==
  /\ Fresh(i) /\ Own(r, i)
  /\ Begin(r, i, "insert", [text |-> r], TRUE, "insert")

UpdateItem(r, i, values) ==
  Begin(r, i, "update", values, Exists(i) /\ Own(r, i), "commit")

DeleteItem(r, i) ==
  Begin(r, i, "delete", [a \in Attributes(i) |-> Nothing], Exists(i) /\ Own(r, i), "commit")

-----------------------------------------------------------------------------
(* Rows that come into being when first needed. *)

\* Reading a profile creates it; either spouse may edit either profile.
GetProfile(r, p) ==
  Begin(r, p, "update", << >>, TRUE, IF Exists(p) THEN "done" ELSE "insert")

UpdateProfile(r, p, fields) ==
  Begin(r, p, "update", [a \in fields |-> r], TRUE, IF Exists(p) THEN "commit" ELSE "insert")

SetSetting(r, k, v) ==
  Begin(r, k, IF Exists(k) THEN "update" ELSE "insert", [value |-> v], TRUE,
        IF Exists(k) THEN "commit" ELSE "insert")

ToggleFavorite(r) ==
  LET k == <<"favourite", By[r]>>
  IN Begin(r, k, IF Exists(k) THEN "delete" ELSE "insert",
           [id |-> IF Exists(k) THEN Nothing ELSE r], TRUE,
           IF Exists(k) THEN "commit" ELSE "insert")

Stamped == {k \in Countdowns : Exists(k)}

\* utcnow(): later than every stamp taken so far.
Clock ==
  1 + Max({0} \cup {row[k].stamp : k \in Stamped}
              \cup {call[r].values.stamp : r \in {q \in Reqs : "stamp" \in DOMAIN call[q].values}})

\* The row changed last is the countdown; without any, one is inserted.
SetCountdown(r) ==
  LET newest == {k \in Stamped : \A l \in Stamped : row[l].stamp <= row[k].stamp}
  IN IF newest = {}
     THEN Begin(r, <<"countdown", r>>, "insert", [date |-> r, by |-> By[r]], TRUE, "insert")
     ELSE \E k \in newest :
            Begin(r, k, "update", [date |-> r, by |-> By[r], stamp |-> Clock], TRUE, "commit")

\* 409 if there is a password; set_admin_password_hash looks once more.
FirstRun(r) ==
  Begin(r, Password, "update", [value |-> r], ~Exists(Password), "recheck")

Recheck(r) ==
  /\ stage[r] = "recheck"
  /\ found' = [found EXCEPT ![r] = row[Password]]
  /\ call' = [call EXCEPT ![r].how = IF Exists(Password) THEN "update" ELSE "insert"]
  /\ Goto(r, IF Exists(Password) THEN "commit" ELSE "insert")
  /\ UNCHANGED <<row, showVars, untold, before>>

-----------------------------------------------------------------------------
(* The commits. *)

\* Mutant: only the other spouse is told.
AfterCommitOther(r) ==
  LET tell == call[r].key \in Settings
  IN /\ Goto(r, IF tell THEN "tell" ELSE "done")
     /\ untold' = [untold EXCEPT ![r] = IF tell THEN Spouses \ {By[r]} ELSE {}]

\* After a setting's commit both spouses are told, nothing else is.
AfterCommit(r) ==
  LET tell == call[r].key \in Settings
  IN /\ Goto(r, IF tell THEN "tell" ELSE "done")
     /\ untold' = [untold EXCEPT ![r] = IF tell THEN Spouses ELSE {}]

Fail(r) == Goto(r, "failed") /\ UNCHANGED <<row, found, untold>>

\* Mutant: the profile is not loaded again after its insert.
InsertNotReloaded(r) ==
  LET k == call[r].key
  IN /\ stage[r] = "insert" /\ k \notin Countdowns
     /\ IF Exists(k) THEN Fail(r)
        ELSE /\ row' = [row EXCEPT ![k] = Overlay(call[r].values, Blank(k))]
             /\ IF k \in Profiles THEN Goto(r, "commit") /\ UNCHANGED untold
                                  ELSE AfterCommit(r)
             /\ UNCHANGED found
     /\ UNCHANGED <<call, showVars, before>>

\* A profile is inserted blank, loaded again, and then updated.
Insert(r) ==
  LET k == call[r].key
  IN /\ stage[r] = "insert" /\ k \notin Countdowns
     /\ IF Exists(k) THEN Fail(r)
        ELSE IF k \in Profiles
        THEN /\ row' = [row EXCEPT ![k] = Blank(k)]
             /\ found' = [found EXCEPT ![r] = Blank(k)]
             /\ Goto(r, IF DOMAIN call[r].values = {} THEN "done" ELSE "commit")
             /\ UNCHANGED untold
        ELSE /\ row' = [row EXCEPT ![k] = Overlay(call[r].values, Blank(k))]
             /\ AfterCommit(r)
             /\ UNCHANGED found
     /\ UNCHANGED <<call, showVars, before>>

\* Nothing keeps a second countdown from being inserted.
InsertCountdown(r) ==
  LET k == call[r].key
  IN /\ stage[r] = "insert" /\ k \in Countdowns
     /\ row' = [row EXCEPT ![k] = [date |-> r, by |-> By[r], stamp |-> Clock]]
     /\ Goto(r, "done")
     /\ UNCHANGED <<call, found, showVars, untold, before>>

\* Mutant: the UPDATE writes back the whole row as loaded.
UpdateWholeRow(r) ==
  LET k == call[r].key
  IN /\ stage[r] = "commit" /\ call[r].how = "update"
     /\ IF ~Exists(k) THEN Fail(r)
        ELSE /\ row' = [row EXCEPT ![k] = Overlay(call[r].values, found[r])]
             /\ AfterCommit(r)
             /\ UNCHANGED found
     /\ UNCHANGED <<call, showVars, before>>

Update(r) ==
  LET k == call[r].key
      changed == {a \in DOMAIN call[r].values : call[r].values[a] # found[r][a]}
  IN /\ stage[r] = "commit" /\ call[r].how = "update"
     /\ IF ~Exists(k) THEN Fail(r)
        ELSE /\ row' = [row EXCEPT ![k] = [a \in DOMAIN row[k] |->
                          IF a \in changed THEN call[r].values[a] ELSE row[k][a]]]
             /\ AfterCommit(r)
             /\ UNCHANGED found
     /\ UNCHANGED <<call, showVars, before>>

\* The row is deleted by its id: a favourite set anew has another.
Delete(r) ==
  LET k == call[r].key
  IN /\ stage[r] = "commit" /\ call[r].how = "delete"
     /\ row' = [row EXCEPT ![k] =
          IF k \in Favourites /\ row[k] # found[r] THEN row[k] ELSE NoRow]
     /\ Goto(r, "done")
     /\ UNCHANGED <<call, found, showVars, untold, before>>

\* What a phone makes of a value: a setting never set counts as off.
Shown(v) == IF v = "on" THEN "on" ELSE "off"

\* send_to_spouse, to one spouse after the other, and to those of her phones that have
\* a connection just then; it may raise.
Tell(r, s) ==
  LET k == call[r].key
      hers == {p \in Phones : Owner[p] = s}
  IN /\ stage[r] = "tell"
     /\ s \in untold[r]
     /\ \/ /\ \E reached \in SUBSET hers :
               /\ screen' = [c \in Phones \X Settings |->
                    IF c[1] \in reached /\ c[2] = k THEN Shown(call[r].values["value"])
                    ELSE screen[c]]
               /\ missed' = [c \in Phones \X Settings |->
                    IF c[1] \in hers /\ c[2] = k THEN c[1] \notin reached ELSE missed[c]]
           /\ untold' = [untold EXCEPT ![r] = @ \ {s}]
           /\ Goto(r, IF untold'[r] = {} THEN "done" ELSE "tell")
        \/ Goto(r, "failed") /\ UNCHANGED <<screen, missed, untold>>
     /\ UNCHANGED <<row, call, found, loads, before>>

-----------------------------------------------------------------------------
(* The phones. *)

Through(r) == stage[r] \in {"tell", "done"}

\* The requests that set attribute a of row k, and what is there now.
Writers(k, a) ==
  {r \in Reqs : /\ stage[r] \notin {"new", "refused"}
                /\ call[r].key = k /\ a \in DOMAIN call[r].values}
Now(k, a) == IF Exists(k) THEN row[k][a] ELSE Nothing

Committed(k) == {r \in Writers(k, "value") : Through(r)}

tableVars == <<row, stage, call, found, untold, before>>

\* toggleIntimateMode() shows the other value at once, before its request is sent, and
\* shows the former one again if the request fails or its answer is lost.
Flip(p, k) ==
  /\ screen' = [screen EXCEPT ![<<p, k>>] = IF @ = "on" THEN "off" ELSE "on"]
  /\ missed' = [missed EXCEPT ![<<p, k>>] = TRUE]
  /\ UNCHANGED <<tableVars, loads>>

\* loadIntimateMode(), after a claim or a login and at no other time: what is read is
\* shown when it arrives, if it does.
Load(p, k) ==
  /\ loads' = loads \cup {[phone |-> p, key |-> k, value |-> Shown(Now(k, "value")),
                            seen |-> Committed(k)]}
  /\ UNCHANGED <<tableVars, screen, missed>>

ShowLoaded(x) ==
  /\ x \in loads
  /\ loads' = loads \ {x}
  /\ screen' = [screen EXCEPT ![<<x.phone, x.key>>] = x.value]
  /\ missed' = [missed EXCEPT ![<<x.phone, x.key>>] = ~(Committed(x.key) \subseteq x.seen)]
  /\ UNCHANGED tableVars

\* The app is started again, or logs out.
Restart(p) ==
  /\ screen' = [c \in Phones \X Settings |-> IF c[1] = p THEN "off" ELSE screen[c]]
  /\ missed' = [c \in Phones \X Settings |-> c[1] = p \/ missed[c]]
  /\ loads' = {x \in loads : x.phone # p}
  /\ UNCHANGED tableVars

PhoneStep ==
  \/ \E p \in Phones : Restart(p) \/ \E k \in Settings : Flip(p, k) \/ Load(p, k)
  \/ \E x \in loads : ShowLoaded(x)

-----------------------------------------------------------------------------
Start(r) ==
  \/ \E p \in Phrases : \/ CreatePhrase(r, p) \/ EditPhrase(r, p) \/ DeletePhrase(r, p)
                        \/ \E n \in Ratings : RatePhrase(r, p, n)
  \/ \E i \in Items : \/ CreateItem(r, i) \/ DeleteItem(r, i)
                      \/ UpdateItem(r, i, [text |-> r])
                      \/ \E b \in {"on", "off"} : UpdateItem(r, i, [fulfilled |-> b])
  \/ \E p \in Profiles : \/ GetProfile(r, p)
                         \/ \E f \in (SUBSET {"name", "bio"}) \ {{}} : UpdateProfile(r, p, f)
  \/ \E k \in Settings, v \in {"on", "off"} : SetSetting(r, k, v)
  \/ ToggleFavorite(r) \/ SetCountdown(r) \/ FirstRun(r)

RowsNext ==
  \/ \E r \in Reqs :
       \/ Start(r) \/ Recheck(r) \/ Insert(r) \/ InsertCountdown(r) \/ Update(r) \/ Delete(r)
       \/ \E s \in Spouses : Tell(r, s)
  \/ PhoneStep

RowsSpec == RowsInit /\ [][RowsNext]_rowVars

-----------------------------------------------------------------------------
Answered == {r \in Reqs : stage[r] = "done"}

\* Of the writers ws, w has not been superseded: none of them that was
\* answered began only after w had ended.
Current(w, ws) == \A x \in ws \cap Answered : w \notin before[x]

\* phrase.py:66-112, profile.py:50-91, 135-144, wishlist.py:45-75,
\* content.py:243-258, admin.py:82-90: although nothing is locked, no answered
\* change is lost to one that ended before it began, attribute by attribute.
\* A rating given for the old text is gone once an edit begun after it is
\* answered; a deleted row does not come back.
NothingLost ==
  \A k \in Keys : \A a \in Attributes(k) :
    LET ws == Writers(k, a)
    IN \/ \E w \in ws : call[w].values[a] = Now(k, a) /\ Current(w, ws)
       \/ ws \cap Answered = {}

\* profile.py:146-153, session_provider.dart:59-101: phones follow a setting.  Once all
\* changes of it are through, none of which overlapped another or failed, a phone of
\* either spouse shows what is stored, unless what it shows rests on older news: it
\* had no connection when the last change was told, it has toggled and not been told
\* since, it was started again and has not loaded, or a load came late.
ScreensAgree ==
  \A k \in Settings :
    LET ws == Writers(k, "value")
    IN (/\ ws # {} /\ ws \subseteq Answered
        /\ \A q, r \in ws : q = r \/ q \in before[r] \/ r \in before[q])
       => \A p \in Phones : missed[<<p, k>>] \/ screen[<<p, k>>] = Shown(Now(k, "value"))
-----------------------------------------------------------------------------
(* Why nothing is lost.                                                    *)

\* What is known of a request where it stands.
CallKnown(r) ==
  LET k == call[r].key
      sets == DOMAIN call[r].values
  IN /\ before[r] \subseteq Ended
     /\ stage[r] = "new" => call[r] = NoCall
     /\ stage[r] # "new" =>
          /\ k \in Keys /\ sets \subseteq Attributes(k)
          /\ call[r] = [key |-> k, how |-> call[r].how, values |-> call[r].values]
          /\ k \in Settings \cup {Password} => sets = {"value"}
          /\ call[r].how = "delete" =>
               /\ k \in Phrases \cup Items \cup Favourites
               /\ sets = Attributes(k) /\ \A a \in sets : call[r].values[a] = Nothing
     /\ stage[r] = "commit" => RowLike(k, found[r])
     /\ stage[r] = "recheck" => k = Password
     /\ stage[r] = "tell" => k \in Settings
     /\ stage[r] = "insert" =>
          /\ k \in Favourites => sets = {"id"}
          /\ k \in Phrases \cup Items \cup Countdowns =>
               ~Exists(k) /\ \A q \in Reqs \ {r} : call[q].key = k => stage[q] = "refused"
          /\ k \in Countdowns => /\ k = <<"countdown", r>>
                                 /\ call[r].values = [date |-> r, by |-> By[r]]
     /\ stage[r] # "new" /\ k \in Countdowns => Exists(k) \/ k = <<"countdown", r>>
     /\ stage[r] = "new" => ~Exists(<<"countdown", r>>)

\* w was the last to set this attribute: whoever is through with it, or has
\* loaded something else than it is now, began before w had ended.
LastSet(w, k, a) ==
  /\ w \in Writers(k, a) /\ call[w].values[a] = Now(k, a)
  /\ \A x \in Writers(k, a) :
       Through(x) \/ (stage[x] = "commit" /\ found[x][a] # Now(k, a)) => w \notin before[x]

LastIsKnown(k, a) ==
  \/ \E w \in Reqs : LastSet(w, k, a)
  \/ \A x \in Writers(k, a) : ~Through(x) /\ (stage[x] = "commit" => found[x][a] = Now(k, a))

\* Changes of a setting that came one after another, and none failed, have reached
\* the phones but for those the last one has yet to tell.
InTurn(k) ==
  /\ \A x \in Writers(k, "value") : stage[x] # "failed"
  /\ \A q, r \in Writers(k, "value") : q = r \/ q \in before[r] \/ r \in before[q]

WritersFollow(k) ==
  \A x \in Writers(k, "value") :
    /\ stage[x] = "commit" => found[x]["value"] = Now(k, "value")
    /\ stage[x] = "tell" => call[x].values["value"] = Now(k, "value")

PhonesFollow(k) ==
  \A p \in Phones :
    \/ missed[<<p, k>>] \/ screen[<<p, k>>] = Shown(Now(k, "value"))
    \/ \E x \in Writers(k, "value") : stage[x] = "tell" /\ Owner[p] \in untold[x]

LoadsFollow(k) ==
  \A x \in loads : x.key = k /\ Committed(k) \subseteq x.seen => x.value = Shown(Now(k, "value"))

ScreensFollow(k) == InTurn(k) => WritersFollow(k) /\ PhonesFollow(k) /\ LoadsFollow(k)

\* A load has seen nothing that is not committed.
LoadsKnown == \A x \in loads : \A r \in x.seen : stage[r] \in {"tell", "done", "failed"}

RowsKnown ==
  /\ DOMAIN row = Keys /\ \A k \in Keys : row[k] = NoRow \/ RowLike(k, row[k])
  /\ stage \in [Reqs -> Stages]
  /\ DOMAIN call = Reqs /\ DOMAIN found = Reqs
  /\ screen \in [Phones \X Settings -> {"on", "off"}]
  /\ missed \in [Phones \X Settings -> BOOLEAN]
  /\ loads \subseteq [phone : Phones, key : Settings, value : {"on", "off"}, seen : SUBSET Reqs]
  /\ untold \in [Reqs -> SUBSET Spouses] /\ before \in [Reqs -> SUBSET Reqs]
  /\ \A r \in Reqs : CallKnown(r)
  /\ \A k \in Keys : \A a \in Attributes(k) : LastIsKnown(k, a)
  /\ \A k \in Settings : ScreensFollow(k)
  /\ LoadsKnown

\* The inductive invariant of the shared rows.
RowsInv == RowsTypeOK /\ RowsKnown
==============================================================================
