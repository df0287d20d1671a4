----------------------------- MODULE ChatSystem -----------------------------
(***************************************************************************)
(* ChatServer composed with the chat screens at the other end of the       *)
(* connections (mobile_app/lib/screens/chat/chat_screen.dart, fed by       *)
(* ws_client.dart): frames arrive in the order the socket took them, a     *)
(* message is decrypted asynchronously before it is shown, an incoming     *)
(* message that is shown is marked as read with a REST request that is     *)
(* sent and forgotten, and the history is fetched once, when the screen    *)
(* opens: from the server or, if that fails, from the phone's cache.       *)
(***************************************************************************)
EXTENDS ChatServer

VARIABLES
  taken,       \* how many of the frames of wire[c] the client has handled
  decrypting,  \* messages whose chat_message / chat_ack awaits decryptText
  view,        \* what the screen shows of each message
  toMark,      \* messages for which markRead is under way to the server
  unsent,      \* history: messages for which the screen's last markRead failed
  loading,     \* the history fetch of _load, and its page
  everShown    \* history: messages some screen of a spouse has shown

clientVars == <<taken, decrypting, view, toMark, unsent, loading, everShown>>
vars == <<serverVars, clientVars>>

\* A message on screen carries one tick ("unseen") or the "seen" tick.
Shown == {"absent", "unseen", "seen"}

NotFetched == [phase |-> "none", page |-> [m \in Msgs |-> "absent"]]

ClientTypeOK ==
  /\ TypeOK
  /\ taken \in [Conns -> Nat]
  /\ decrypting \in [Conns -> SUBSET Msgs]
  /\ view \in [Conns -> [Msgs -> Shown]]
  /\ toMark \in [Conns -> SUBSET Msgs]
  /\ unsent \in [Conns -> SUBSET Msgs]
  /\ loading \in [Conns -> [phase : {"none", "fetched", "done", "failed"},
                            page : [Msgs -> Shown]]]
  /\ everShown \in [Spouses -> SUBSET Msgs]

ClientInit ==
  /\ taken = [c \in Conns |-> 0]
  /\ decrypting = [c \in Conns |-> {}]
  /\ view = [c \in Conns |-> [m \in Msgs |-> "absent"]]
  /\ toMark = [c \in Conns |-> {}]
  /\ unsent = [c \in Conns |-> {}]
  /\ loading = [c \in Conns |-> NotFetched]
  /\ everShown = [s \in Spouses |-> {}]

Listening(c) == sock[c] = "open"

Incoming(c, m) == Author[m] # SpouseOf[c]

-----------------------------------------------------------------------------
\* Mutant: delivered_at shown as the "seen" tick.
FetchDeliveredAsSeen(c) ==
  /\ loading[c].phase = "none"
  /\ loading' = [loading EXCEPT ![c] =
       [phase |-> "fetched",
        page |-> [m \in Msgs |-> IF m \notin stored THEN "absent"
                                 ELSE IF m \in delivered THEN "seen" ELSE "unseen"]]]
  /\ UNCHANGED <<serverVars, taken, decrypting, view, toMark, unsent, everShown>>

\* GET /chat/messages: the page as the database has it now.
FetchHistory(c) ==
  /\ loading[c].phase = "none"
  /\ loading' = [loading EXCEPT ![c] =
       [phase |-> "fetched",
        page |-> [m \in Msgs |-> IF m \notin stored THEN "absent"
                                 ELSE IF m \in read THEN "seen" ELSE "unseen"]]]
  /\ UNCHANGED <<serverVars, taken, decrypting, view, toMark, unsent, everShown>>

\* The request fails, and the page is the one an earlier screen of this phone has
\* cached: what the database said at some earlier time.
FetchCached(c) ==
  /\ loading[c].phase = "none"
  /\ \E page \in [Msgs -> Shown] :
       /\ \A m \in Msgs : /\ page[m] # "absent" => m \in stored
                          /\ page[m] = "seen" => m \in read
       /\ loading' = [loading EXCEPT ![c] = [phase |-> "fetched", page |-> page]]
  /\ UNCHANGED <<serverVars, taken, decrypting, view, toMark, unsent, everShown>>

\* The request fails and nothing is cached: the screen goes on with what arrives.
FetchFails(c) ==
  /\ loading[c].phase = "none"
  /\ loading' = [loading EXCEPT ![c].phase = "failed"]
  /\ UNCHANGED <<serverVars, taken, decrypting, view, toMark, unsent, everShown>>

\* The page REPLACES what the screen shows; then every unread incoming
\* message on it is marked as read.
ShowHistory(c) ==
  LET page == loading[c].page
      unread == {m \in Msgs : Incoming(c, m) /\ page[m] = "unseen"}
  IN /\ loading[c].phase = "fetched"
     /\ loading' = [loading EXCEPT ![c].phase = "done"]
     /\ view' = [view EXCEPT ![c] = page]
     /\ toMark' = [toMark EXCEPT ![c] = @ \cup unread]
     /\ unsent' = [unsent EXCEPT ![c] = @ \ unread]
     /\ everShown' = [everShown EXCEPT ![SpouseOf[c]] =
          @ \cup {m \in Msgs : page[m] # "absent"}]
     /\ UNCHANGED <<serverVars, taken, decrypting>>

\* Mutant: a message is marked as read when its frame arrives, not when it is
\* listed.
ReceiveFrameMarking(c) ==
  LET frame == wire[c][taken[c] + 1]
      m == frame[2]
  IN /\ Listening(c)
     /\ taken[c] < Len(wire[c])
     /\ taken' = [taken EXCEPT ![c] = @ + 1]
     /\ IF frame[1] = "chat_message" /\ Incoming(c, m)
          THEN /\ decrypting' = [decrypting EXCEPT ![c] = @ \cup {m}]
               /\ toMark' = [toMark EXCEPT ![c] = @ \cup {m}]
          ELSE UNCHANGED <<decrypting, toMark>>
     /\ UNCHANGED <<serverVars, view, unsent, loading, everShown>>

\* _onWsEvent, up to its first await.  chat_read updates a message already
\* listed and is dropped otherwise.
ReceiveFrame(c) ==
  LET frame == wire[c][taken[c] + 1]
      m == frame[2]
  IN /\ Listening(c)
     /\ taken[c] < Len(wire[c])
     /\ taken' = [taken EXCEPT ![c] = @ + 1]
     /\ CASE frame[1] = "chat_read" ->
               /\ view' = IF view[c][m] = "absent" THEN view
                          ELSE [view EXCEPT ![c][m] = "seen"]
               /\ UNCHANGED decrypting
          [] frame[1] \in {"chat_message", "chat_ack"} ->
               /\ decrypting' = [decrypting EXCEPT ![c] = @ \cup {m}]
               /\ UNCHANGED view
          [] OTHER -> UNCHANGED <<view, decrypting>>
     /\ UNCHANGED <<serverVars, toMark, unsent, loading, everShown>>

\* Mutant: messages are marked as read only once the history has been loaded.
ShowMessageLoaded(c, m) ==
  /\ m \in decrypting[c]
  /\ decrypting' = [decrypting EXCEPT ![c] = @ \ {m}]
  /\ view' = [view EXCEPT ![c][m] = "unseen"]
  /\ toMark' = IF Incoming(c, m) /\ view[c][m] = "absent" /\ loading[c].phase = "done"
                 THEN [toMark EXCEPT ![c] = @ \cup {m}] ELSE toMark
  /\ everShown' = [everShown EXCEPT ![SpouseOf[c]] = @ \cup {m}]
  /\ UNCHANGED <<serverVars, taken, unsent, loading>>

\* _onWsEvent after decryptText: the message is added, or replaces the one
\* listed.  The frame's read_at is that of the handler's own session, loaded
\* when the message was inserted: always null.
ShowMessage(c, m) ==
  /\ m \in decrypting[c]
  /\ decrypting' = [decrypting EXCEPT ![c] = @ \ {m}]
  /\ view' = [view EXCEPT ![c][m] = "unseen"]
  /\ IF Incoming(c, m) /\ view[c][m] = "absent"
       THEN /\ toMark' = [toMark EXCEPT ![c] = @ \cup {m}]
            /\ unsent' = [unsent EXCEPT ![c] = @ \ {m}]
       ELSE UNCHANGED <<toMark, unsent>>
  /\ everShown' = [everShown EXCEPT ![SpouseOf[c]] = @ \cup {m}]
  /\ UNCHANGED <<serverVars, taken, loading>>

\* markRead reaches the server as one REST request of that spouse.  Whether its
\* answer gets back makes no difference: nobody awaits it.
RequestRead(c, r, m) ==
  /\ m \in toMark[c]
  /\ SpouseOf[r] = SpouseOf[c]
  /\ MarkRead(r, m)
  /\ toMark' = [toMark EXCEPT ![c] = @ \ {m}]
  /\ UNCHANGED <<taken, decrypting, view, unsent, loading, everShown>>

\* markRead fails on its way, and nothing tries it again: what the screen lists is
\* marked when it is first listed.
RequestLost(c, m) ==
  /\ m \in toMark[c]
  /\ toMark' = [toMark EXCEPT ![c] = @ \ {m}]
  /\ unsent' = [unsent EXCEPT ![c] = @ \cup {m}]
  /\ UNCHANGED <<serverVars, taken, decrypting, view, loading, everShown>>

-----------------------------------------------------------------------------
ServerStep ==
  /\ \/ \E s \in Spouses : Join(s)
     \/ \E t \in Tasks : TaskStep(t)
     \/ \E t \in Tasks, m \in Msgs : Persist(t, m)
     \/ \E c \in Conns : ConnStep(c)
  /\ UNCHANGED clientVars

ClientStep(c) ==
  \/ FetchHistory(c) \/ FetchCached(c) \/ FetchFails(c)
  \/ ShowHistory(c) \/ ReceiveFrame(c)
  \/ \E m \in Msgs : ShowMessage(c, m) \/ RequestLost(c, m)
  \/ \E r \in Requests, m \in Msgs : RequestRead(c, r, m)

SystemInit == Init /\ ClientInit
SystemNext == ServerStep \/ \E c \in Conns : ClientStep(c)
SystemSpec == SystemInit /\ [][SystemNext]_vars

-----------------------------------------------------------------------------
\* chat.py:139-146, chat_screen.dart:275-278: a "seen" tick never lies.  Each
\* author's screen shows it only for a message that is committed as read, and
\* a message is committed as read only after a screen of the other spouse has
\* shown it.
SeenIsTrue ==
  \A m \in Msgs :
    /\ \A c \in Conns : view[c][m] = "seen" => m \in read
    /\ m \in read => \E s \in Spouses : s # Author[m] /\ m \in everShown[s]

\* chat_screen.dart:205-216, 275-278: an incoming message that a screen lists is
\* read, or about to be: that screen's own request is under way or its write is,
\* unless it failed ("a failed mark-read just means the 'seen' tick shows up a bit
\* later").  Neither the order of fetch and frames, nor a page that is old, nor a
\* second copy of the message arriving while the first is decrypted, loses the
\* receipt, nor does it depend on another screen's.
ReceiptNotLost ==
  \A c \in Conns, m \in Msgs :
    Incoming(c, m) /\ view[c][m] # "absent" =>
      \/ m \in read
      \/ m \in toMark[c] \cup unsent[c]
      \/ \E r \in Requests : pc[r] = "write" /\ cur[r] = m

\* Why: what the history page says of a message was so when it was fetched
\* and stays so, and a request to mark a message as read, queued or under way,
\* comes from a spouse who has been shown it and did not write it.
PagesTrue == \A c \in Conns, m \in Msgs : loading[c].page[m] = "seen" => m \in read
MarksShown == \A c \in Conns : toMark[c] \subseteq everShown[SpouseOf[c]]
WritesShown ==
  \A t \in Tasks : pc[t] = "write" =>
    cur[t] \in everShown[SpouseOf[t]] /\ Author[cur[t]] # SpouseOf[t]

\* The types, and what the screens add to the server's invariant.
ScreensInv == ClientTypeOK /\ PagesTrue /\ MarksShown /\ WritesShown

\* The inductive invariant of the server and the screens together.
SystemInv == ChatInv /\ ScreensInv /\ SeenIsTrue /\ ReceiptNotLost

Quiet(c) ==
  /\ \A t \in Tasks : pc[t] \in {"new", "recv", "done", "crashed"}
  /\ taken[c] = Len(wire[c])
  /\ decrypting[c] = {}
  /\ loading[c].phase = "done"

\* chat.py:142-143: "Tell the sender's live connection so their "seen" tick
\* updates immediately instead of only on their next full reload" -- an author
\* who lists the message, whose history page did not have it, and who was sent
\* chat_read for it, should see the tick once everything has arrived.
SeenTickArrives ==
  \A c \in Conns, m \in Msgs :
    /\ Listening(c) /\ Quiet(c)
    /\ Author[m] = SpouseOf[c] /\ view[c][m] # "absent"
    /\ loading[c].page[m] = "absent"
    /\ Sent(c, <<"chat_read", m>>)
    => view[c][m] = "seen"
==============================================================================
