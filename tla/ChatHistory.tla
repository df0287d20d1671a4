----------------------------- MODULE ChatHistory -----------------------------
(***************************************************************************)
(* The message list of one open chat screen                                *)
(* (mobile_app/lib/screens/chat/chat_screen.dart) over the paged history   *)
(* of GET /chat/messages (backend/app/routers/chat.py): the first load,    *)
(* live messages, loading further back on scrolling up, and the on-device  *)
(* search that pages back on its own.  Messages are numbered in the order  *)
(* of created_at, 1 being the very first.  Each request for a page is two  *)
(* steps, sending it and applying the answer; everything else may happen   *)
(* in between, on the one UI thread.  A live message is listed once it has *)
(* been decrypted: in any order, late, or never, if its frame was sent     *)
(* while the socket was down.                                              *)
(***************************************************************************)
EXTENDS Integers, Sequences

CONSTANTS
  Lengths,      \* how many messages there may be when the screen opens
  MaxWrites,    \* bound: messages written while the screen is open
  PageSize,     \* _pageSize, 50
  SearchPage,   \* 100, the page size of a search
  MaxPages,     \* 40, the safety cap of a search
  Searches,     \* _runSearch calls that may be in flight together
  Matching      \* the messages that contain what is searched for

ASSUME HistoryAssumption ==
  /\ MaxWrites \in Nat /\ Lengths \subseteq Nat
  /\ PageSize \in Nat \ {0} /\ SearchPage \in Nat \ {0}
  /\ MaxPages \in Nat
  /\ Matching \subseteq Nat

VARIABLES
  total,        \* messages stored on the server
  opened,       \* history: how many of them there were when the screen opened
  list,         \* _messages: the listed messages, top to bottom
  live,         \* history: those of them appended as live messages
  firstLoad,    \* _load: how far it is, and the newest message of its page
  hasMore,      \* _hasMoreHistory
  more,         \* _loadMoreHistory: the anchor it has asked for, or Idle
  search,       \* each _runSearch: its state, anchor and pages so far
  early         \* history: a search asked for a page before _load was through

historyVars ==
  <<total, opened, list, live, firstLoad, hasMore, more, search, early>>

Idle == 0

NotSearching == [state |-> "idle", anchor |-> Idle, pages |-> 0]

Listed == {list[i] : i \in 1 .. Len(list)}

Smaller(a, b) == IF a < b THEN a ELSE b
Larger(a, b) == IF a > b THEN a ELSE b

\* Mutant: a page that leaves out the message right before the anchor.
PageBeforePrevious(anchor, limit) ==
  LET lo == Larger(1, anchor - limit)
  IN  [i \in 1 .. anchor - lo - 1 |-> lo + i - 1]

\* The server's answer: the `limit` newest messages before the anchor, oldest
\* first.
PageBefore(anchor, limit) ==
  LET lo == Larger(1, anchor - limit)
  IN  [i \in 1 .. anchor - lo |-> lo + i - 1]

\* What is left of a page without the messages that are known.
Without(page, known) ==
  LET kept[i \in 0 .. Len(page)] ==
        IF i = 0 THEN << >>
        ELSE IF page[i] \in known THEN kept[i - 1]
        ELSE Append(kept[i - 1], page[i])
  IN  kept[Len(page)]

\* The part of a page that is not listed yet.
Fresh(page) == Without(page, Listed)

HistoryTypeOK ==
  /\ total \in Nat
  /\ opened \in 0 .. total
  /\ list \in Seq(1 .. total)
  /\ live \subseteq Listed \cap (opened + 1 .. total)
  /\ firstLoad \in [state : {"asked", "answered", "done", "failed"},
                    newest : 0 .. total]
  /\ hasMore \in BOOLEAN
  /\ more \in 0 .. total
  /\ search \in [Searches -> [state : {"idle", "asked", "found", "not found",
                                       "gave up", "failed"},
                              anchor : 0 .. total, pages : 0 .. MaxPages]]
  /\ early \in BOOLEAN

HistoryInit ==
  /\ total \in Lengths
  /\ opened = total
  /\ list = << >>
  /\ live = {}
  /\ firstLoad = [state |-> "asked", newest |-> 0]
  /\ hasMore = TRUE
  /\ more = Idle
  /\ search = [s \in Searches |-> NotSearching]
  /\ early = FALSE

-----------------------------------------------------------------------------
\* Somebody writes: the message is stored, and sent to whoever is connected.
Write ==
  /\ total < opened + MaxWrites
  /\ total' = total + 1
  /\ UNCHANGED <<opened, list, live, firstLoad, hasMore, more, search, early>>

\* Mutant: a message that is listed already is listed again.
ArriveAgain(m) ==
  /\ m \in opened + 1 .. total
  /\ list' = Append(list, m)
  /\ live' = live \cup {m}
  /\ UNCHANGED <<total, opened, firstLoad, hasMore, more, search, early>>

\* _onWsEvent after decryptText, and _sendMediaFile after its answer: a message
\* written since the screen opened replaces the one listed, or is appended,
\* whatever is under way.
Arrive(m) ==
  /\ m \in opened + 1 .. total
  /\ m \notin Listed
  /\ list' = Append(list, m)
  /\ live' = live \cup {m}
  /\ UNCHANGED <<total, opened, firstLoad, hasMore, more, search, early>>

\* _load: the server reads the newest page ...
AnswerFirstLoad ==
  /\ firstLoad.state = "asked"
  /\ firstLoad' = [state |-> "answered", newest |-> total]
  /\ UNCHANGED <<total, opened, list, live, hasMore, more, search, early>>

\* ... or the request fails, and what the phone has cached is taken instead: the
\* newest page as it was at some earlier time.
TakeCachedPage ==
  /\ firstLoad.state = "asked"
  /\ \E newest \in 0 .. total :
       firstLoad' = [state |-> "answered", newest |-> newest]
  /\ UNCHANGED <<total, opened, list, live, hasMore, more, search, early>>

\* The request fails and nothing is cached: the exception leaves _load, and
\* nothing tries again while this screen is open.
FirstLoadFails ==
  /\ firstLoad.state = "asked"
  /\ firstLoad' = [firstLoad EXCEPT !.state = "failed"]
  /\ UNCHANGED <<total, opened, list, live, hasMore, more, search, early>>

\* The screen replaces its list by the page, live messages included.
ApplyFirstLoad ==
  LET page == PageBefore(firstLoad.newest + 1, PageSize)
  IN /\ firstLoad.state = "answered"
     /\ firstLoad' = [firstLoad EXCEPT !.state = "done"]
     /\ list' = page
     /\ live' = {}
     /\ hasMore' = (Len(page) >= PageSize)
     /\ UNCHANGED <<total, opened, more, search, early>>

\* Mutant: scrolling up asks for a page while the first one is under way.
AskMoreEarly ==
  /\ more = Idle /\ hasMore /\ list # << >>
  /\ more' = list[1]
  /\ UNCHANGED <<total, opened, list, live, firstLoad, hasMore, search, early>>

\* _loadMoreHistory, on scrolling to the top of the list; the list is on the
\* screen only once it has been loaded.
AskMore ==
  /\ firstLoad.state = "done"
  /\ more = Idle /\ hasMore /\ list # << >>
  /\ more' = list[1]
  /\ UNCHANGED <<total, opened, list, live, firstLoad, hasMore, search, early>>

\* Mutant: a full page is taken for the last one.
ApplyMoreAsLast ==
  LET older == Fresh(PageBefore(more, PageSize))
  IN /\ more # Idle
     /\ list' = older \o list
     /\ hasMore' = (Len(older) > PageSize)
     /\ more' = Idle
     /\ UNCHANGED <<total, opened, live, firstLoad, search, early>>

ApplyMore ==
  LET older == Fresh(PageBefore(more, PageSize))
  IN /\ more # Idle
     /\ list' = older \o list
     /\ hasMore' = (Len(older) >= PageSize)
     /\ more' = Idle
     /\ UNCHANGED <<total, opened, live, firstLoad, search, early>>

\* Mutant: a failure is taken for the end of the history.
MoreFailsForGood ==
  /\ more # Idle
  /\ more' = Idle
  /\ hasMore' = FALSE
  /\ UNCHANGED <<total, opened, list, live, firstLoad, search, early>>

\* The request fails: the next scroll to the top may try again.
MoreFails ==
  /\ more # Idle
  /\ more' = Idle
  /\ UNCHANGED <<total, opened, list, live, firstLoad, hasMore, search, early>>

-----------------------------------------------------------------------------
\* Where a search stands once it has looked through `messages`: the loop
\* condition, and otherwise the outcome shown.
SearchState(messages, moreHistory, pages) ==
  LET hits == {messages[i] : i \in 1 .. Len(messages)} \cap Matching
  IN  IF hits # {} THEN [state |-> "found", anchor |-> Idle, pages |-> pages]
      ELSE IF ~moreHistory THEN [state |-> "not found", anchor |-> Idle, pages |-> pages]
      ELSE IF pages >= MaxPages THEN [state |-> "gave up", anchor |-> Idle, pages |-> pages]
      ELSE IF messages = << >> THEN [state |-> "failed", anchor |-> Idle, pages |-> pages]
      ELSE [state |-> "asked", anchor |-> messages[1], pages |-> pages + 1]

StartSearch(s) ==
  /\ search[s].state # "asked"
  /\ search' = [search EXCEPT ![s] = SearchState(list, hasMore, 0)]
  /\ early' = (early \/ (firstLoad.state # "done" /\ search'[s].state = "asked"))
  /\ UNCHANGED <<total, opened, list, live, firstLoad, hasMore, more>>

\* One answered page of the loop: an empty one ends the history and the search.
ApplySearchPage(s) ==
  LET older == PageBefore(search[s].anchor, SearchPage)
      longer == Fresh(older) \o list
      moreHistory == Len(older) >= SearchPage
  IN /\ search[s].state = "asked"
     /\ list' = longer
     /\ hasMore' = moreHistory
     /\ search' = [search EXCEPT ![s] =
          IF older = << >>
            THEN [state |-> "not found", anchor |-> Idle, pages |-> @.pages]
            ELSE SearchState(longer, moreHistory, @.pages)]
     /\ UNCHANGED <<total, opened, live, firstLoad, more, early>>

\* The request fails and the exception leaves _runSearch.
SearchFails(s) ==
  /\ search[s].state = "asked"
  /\ search' = [search EXCEPT ![s] = [@ EXCEPT !.state = "failed", !.anchor = Idle]]
  /\ UNCHANGED <<total, opened, list, live, firstLoad, hasMore, more, early>>

HistoryNext ==
  \/ Write \/ \E m \in 1 .. total : Arrive(m)
  \/ AnswerFirstLoad \/ TakeCachedPage \/ FirstLoadFails \/ ApplyFirstLoad
  \/ AskMore \/ ApplyMore \/ MoreFails
  \/ \E s \in Searches : StartSearch(s) \/ ApplySearchPage(s) \/ SearchFails(s)

\* Requests are answered now and then, and the user keeps scrolling up.
HistoryFairness ==
  /\ WF_historyVars(AnswerFirstLoad) /\ WF_historyVars(ApplyFirstLoad)
  /\ WF_historyVars(AskMore) /\ SF_historyVars(ApplyMore)

HistorySpec == HistoryInit /\ [][HistoryNext]_historyVars
HistoryFairSpec == HistorySpec /\ HistoryFairness

-----------------------------------------------------------------------------
Loaded == firstLoad.state = "done"

\* No search has paged back on its own.
NeverSearched == \A s \in Searches : search[s].state = "idle"

\* A live message older than the whole first page was listed after it: its frame
\* took longer than the writing of a page of others.
LateFrame == Loaded /\ \E m \in live : m <= firstLoad.newest

\* chat_screen.dart:139-142, 189-190, 262-272: the list names no message twice,
\* whichever of a frame, a fetch, a page or a search brings it first.
ListedOnce == \A i, j \in 1 .. Len(list) : i < j => list[i] # list[j]

\* What the pages have brought stands above what came live, and in order.
PagesInOrder ==
  \A i, j \in 1 .. Len(list) :
    i < j /\ list[j] \notin live => list[i] \notin live /\ list[i] < list[j]

\* From the top of the list to the newest message of the first page, everything
\* is listed.
NoHole ==
  Loaded /\ list # << >> => list[1] .. firstLoad.newest \subseteq Listed

\* chat_screen.dart:139-142, 171-203, 262-272, 338-360: no message is listed
\* twice; and unless a search asked for a page before the first load was
\* through, what was paged in is a piece of the conversation, in order and
\* without a hole, with the live messages below it, however fetches, scrolls,
\* searches and live messages interleave.
ListIsWhole == ListedOnce /\ (~early => PagesInOrder /\ NoHole)

\* chat_screen.dart:48-49: the list goes "all the way to the very first message
\* ever exchanged": it is taken to be complete only when that one is listed,
\* unless the first page, fetched or cached, was of an empty conversation.
\* (Searches and late frames end it early: a page half of which is listed
\* already counts as the last.)
CompleteMeansComplete ==
  Loaded /\ ~hasMore /\ firstLoad.newest # 0 =>
    1 \in Listed \/ ~NeverSearched \/ LateFrame

\* chat_screen.dart:48-49: scrolling up gets to the very first message, in the
\* same cases, whatever arrives, is lost or fails meanwhile; a first request
\* that failed for good leaves the screen loading.
ReachesTheFirst ==
  total > 0 ~> \/ 1 \in Listed
               \/ firstLoad.state = "failed"
               \/ Loaded /\ firstLoad.newest = 0
               \/ ~NeverSearched \/ LateFrame

-----------------------------------------------------------------------------
(* Why the list is whole.                                                   *)

\* Before the first load is through, only live messages are listed and nothing
\* has been asked for; after it the list begins within its page or above, or,
\* if that page is empty, has nothing above.
FirstLoadKnown ==
  /\ ~Loaded => Listed = live /\ more = Idle
  /\ ~Loaded => \A s \in Searches : search[s].state # "asked"
  /\ Loaded /\ firstLoad.newest = 0 =>
       /\ ~hasMore /\ more = Idle /\ Listed = live
       /\ \A s \in Searches : search[s].state # "asked"
  /\ Loaded /\ firstLoad.newest # 0 =>
       list # << >> /\ list[1] <= firstLoad.newest /\ list[1] \notin live

\* A page asked for with this anchor ends within the list and not among the
\* live messages.
AnchorKnown(anchor) == list[1] <= anchor /\ anchor <= firstLoad.newest

AnchorsKnown ==
  /\ more # Idle => AnchorKnown(more)
  /\ \A s \in Searches : search[s].state = "asked" => AnchorKnown(search[s].anchor)

\* Where only scrolling pages back, pages are asked for one after another, and
\* a page that is not full begins with the first message.
ScrollsInTurn ==
  NeverSearched /\ Loaded /\ firstLoad.newest # 0 =>
    /\ more # Idle => more = list[1]
    /\ hasMore \/ list[1] = 1 \/ LateFrame

\* The inductive invariant.
HistoryInv ==
  /\ HistoryTypeOK
  /\ ListIsWhole
  /\ NeverSearched => ~early
  /\ ~early => FirstLoadKnown /\ AnchorsKnown
  /\ ScrollsInTurn
==============================================================================
