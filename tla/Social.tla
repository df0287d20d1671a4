------------------------------- MODULE Social -------------------------------
(***************************************************************************)
(* Reactions, matches and comments: backend/app/routers/social.py.  Every  *)
(* handler is an HTTP request (task) that loads, checks and later commits; *)
(* other requests run at each await.  What guards against two requests     *)
(* that both found nothing is the UNIQUE constraint of the table           *)
(* (backend/app/models/social.py): the second commit raises and the        *)
(* request answers 500.  A DELETE that finds its row gone is only warned   *)
(* about; an UPDATE that finds it gone raises.                             *)
(*                                                                         *)
(* A request makes at most one row, named after it: the rows of            *)
(* `reactions` carry the task that inserted them, and a comment is the     *)
(* task that wrote it.                                                     *)
(***************************************************************************)
CONSTANTS
  Spouses,      \* both have claimed their role
  Tasks,        \* HTTP requests, each handled once
  SpouseOf,     \* whose access token a request carries
  Entries,      \* vault entries that may be reacted to and commented on
  Emojis,       \* what can be reacted with
  Hearts,       \* the two spellings of the heart
  None          \* no value

ASSUME SocialAssumption ==
  /\ \E a, b \in Spouses : a # b /\ Spouses = {a, b}
  /\ SpouseOf \in [Tasks -> Spouses]
  /\ Hearts \subseteq Emojis
  /\ Tasks \cap Entries = {}
  /\ None \notin Tasks \cup Entries \cup Emojis

VARIABLES
  reactions,    \* rows of reactions
  comments,     \* rows of comments: the request that last wrote each, or None
  seen,         \* rows of match_celebration_seen
  inbox,        \* notification rows: <<recipient, the task it is about>>
  pc,           \* where each task stands
  call,         \* what each task is about
  loaded,       \* the reaction rows a task's session has loaded, to delete
  answer,       \* history: what each task was answered
  everMatched   \* history: entries both spouses have hearted at one time

vars == <<reactions, comments, seen, inbox, pc, call, loaded, answer, everMatched>>

Targets == Entries \cup Tasks

Reaction == [id : Tasks, target : Targets, emoji : Emojis]
NoCall == [op |-> "none", target |-> None, emoji |-> None]

PCs == {"new", "insert", "delete", "notify", "match", "seen", "celebrate",
        "commit", "hearts", "done", "refused", "failed"}

TypeOK ==
  /\ reactions \subseteq Reaction
  /\ comments \in [Tasks -> Tasks \cup {None}]
  /\ seen \subseteq Spouses \X Entries
  /\ inbox \subseteq Spouses \X Tasks
  /\ pc \in [Tasks -> PCs]
  /\ call \in [Tasks -> [op : {"none", "react", "unreact", "celebration", "comment",
                               "edit", "uncomment"},
                         target : Targets \cup {None}, emoji : Emojis \cup {None}]]
  /\ loaded \in [Tasks -> SUBSET Reaction]
  /\ answer \in [Tasks -> {"none", "match", "no match", "celebrate", "nothing"}]
  /\ everMatched \subseteq Entries

Init ==
  /\ reactions = {}
  /\ comments = [t \in Tasks |-> None]
  /\ seen = {}
  /\ inbox = {}
  /\ pc = [t \in Tasks |-> "new"]
  /\ call = [t \in Tasks |-> NoCall]
  /\ loaded = [t \in Tasks |-> {}]
  /\ answer = [t \in Tasks |-> "none"]
  /\ everMatched = {}

Other(s) == CHOOSE o \in Spouses : o # s

Goto(t, label) == pc' = [pc EXCEPT ![t] = label]

Begin(t, op, target, emoji) ==
  /\ pc[t] = "new"
  /\ call' = [call EXCEPT ![t] = [op |-> op, target |-> target, emoji |-> emoji]]

Answer(t, a) == answer' = [answer EXCEPT ![t] = a]

\* The rows of this spouse, target and emoji: at most one, by the constraint.
Same(t, target, emoji) ==
  {r \in reactions : /\ SpouseOf[r.id] = SpouseOf[t]
                     /\ r.target = target /\ r.emoji = emoji}

\* _check_match: the roles among those who hearted the entry are both.
Matched(rows, target) ==
  /\ target \in Entries
  /\ \A s \in Spouses :
       \E r \in rows : SpouseOf[r.id] = s /\ r.target = target /\ r.emoji \in Hearts

-----------------------------------------------------------------------------
(* Reactions. *)

\* Clients react to entries and to comments they have been shown; a comment
\* may be gone by now, and nothing checks.
LoadReaction(t, target, emoji) ==
  /\ Begin(t, "react", target, emoji)
  /\ target \in Tasks => call[target].op = "comment"
  /\ Goto(t, IF target \notin Entries /\ emoji \notin Hearts THEN "refused"
             ELSE IF Same(t, target, emoji) # {} THEN "done" ELSE "insert")
  /\ UNCHANGED <<reactions, comments, seen, inbox, loaded, answer, everMatched>>

\* The insert with its audit row, or uq_reaction raises.
InsertReaction(t) ==
  LET new == [id |-> t, target |-> call[t].target, emoji |-> call[t].emoji]
  IN /\ pc[t] = "insert"
     /\ \/ /\ Same(t, new.target, new.emoji) = {}
           /\ reactions' = reactions \cup {new}
           /\ everMatched' = everMatched \cup {e \in Entries : Matched(reactions', e)}
           /\ Goto(t, "notify")
        \/ /\ Same(t, new.target, new.emoji) # {}
           /\ Goto(t, "failed")
           /\ UNCHANGED <<reactions, everMatched>>
     /\ UNCHANGED <<comments, seen, inbox, call, loaded, answer>>

\* _notify_other_spouse, of a reaction or a comment.  It commits its own row
\* and sends a frame and pushes: when it raises, before its commit or after, the
\* request answers 500 and the reaction or the comment stays.
Notify(t) ==
  LET notice == <<Other(SpouseOf[t]), t>>
  IN /\ pc[t] = "notify"
     /\ \/ /\ inbox' = inbox \cup {notice}
           /\ Goto(t, IF call[t].op = "react" THEN "match" ELSE "done")
        \/ /\ inbox' \in {inbox, inbox \cup {notice}}
           /\ Goto(t, "failed")
     /\ UNCHANGED <<reactions, comments, seen, call, loaded, answer, everMatched>>

\* Mutant: the match is looked for among the rows from before the insert.
CheckMatchBefore(t) ==
  /\ pc[t] = "match"
  /\ Answer(t, IF Matched({r \in reactions : r.id # t}, call[t].target)
                 THEN "match" ELSE "no match")
  /\ Goto(t, "done")
  /\ UNCHANGED <<reactions, comments, seen, inbox, call, loaded, everMatched>>

\* The match is looked for after the reaction is committed.
CheckMatch(t) ==
  /\ pc[t] = "match"
  /\ Answer(t, IF Matched(reactions, call[t].target) THEN "match" ELSE "no match")
  /\ Goto(t, "done")
  /\ UNCHANGED <<reactions, comments, seen, inbox, call, loaded, everMatched>>

LoadUnreaction(t, target, emoji) ==
  /\ Begin(t, "unreact", target, emoji)
  /\ loaded' = [loaded EXCEPT ![t] = Same(t, target, emoji)]
  /\ Goto(t, IF loaded'[t] = {} THEN "done" ELSE "delete")
  /\ UNCHANGED <<reactions, comments, seen, inbox, answer, everMatched>>

DeleteReaction(t) ==
  /\ pc[t] = "delete"
  /\ reactions' = reactions \ loaded[t]
  /\ Goto(t, "done")
  /\ UNCHANGED <<comments, seen, inbox, call, loaded, answer, everMatched>>

-----------------------------------------------------------------------------
(* The celebration, asked for by a screen that shows the entry. *)

\* Mutant: the celebration is due as soon as the entry is opened.
AskCelebrationUnmatched(t, e) ==
  /\ Begin(t, "celebration", e, None)
  /\ Goto(t, "seen")
  /\ UNCHANGED <<reactions, comments, seen, inbox, loaded, answer, everMatched>>

AskCelebration(t, e) ==
  /\ Begin(t, "celebration", e, None)
  /\ IF Matched(reactions, e) THEN Goto(t, "seen") /\ UNCHANGED answer
                              ELSE Goto(t, "done") /\ Answer(t, "nothing")
  /\ UNCHANGED <<reactions, comments, seen, inbox, loaded, everMatched>>

CheckSeen(t) ==
  /\ pc[t] = "seen"
  /\ IF <<SpouseOf[t], call[t].target>> \in seen
       THEN Goto(t, "done") /\ Answer(t, "nothing")
       ELSE Goto(t, "celebrate") /\ UNCHANGED answer
  /\ UNCHANGED <<reactions, comments, seen, inbox, call, loaded, everMatched>>

\* Mutant: match_celebration_seen has no UNIQUE constraint.
CelebrateAgain(t) ==
  /\ pc[t] = "celebrate"
  /\ seen' = seen \cup {<<SpouseOf[t], call[t].target>>}
  /\ Goto(t, "done")
  /\ Answer(t, "celebrate")
  /\ UNCHANGED <<reactions, comments, inbox, call, loaded, everMatched>>

\* The insert commits, or uq_match_seen raises.
Celebrate(t) ==
  LET row == <<SpouseOf[t], call[t].target>>
  IN /\ pc[t] = "celebrate"
     /\ \/ row \notin seen /\ Goto(t, "done") /\ Answer(t, "celebrate")
        \/ row \in seen /\ Goto(t, "failed") /\ UNCHANGED answer
     /\ seen' = seen \cup {row}
     /\ UNCHANGED <<reactions, comments, inbox, call, loaded, everMatched>>

-----------------------------------------------------------------------------
(* Comments. *)

AddComment(t, target) ==
  /\ Begin(t, "comment", target, None)
  /\ comments' = [comments EXCEPT ![t] = t]
  /\ Goto(t, "notify")
  /\ UNCHANGED <<reactions, seen, inbox, loaded, answer, everMatched>>

\* 404 if the comment is gone, 403 if it is not one's own.
LoadComment(t, op, c) ==
  /\ Begin(t, op, c, None)
  /\ call[c].op = "comment"
  /\ Goto(t, IF comments[c] = None \/ SpouseOf[c] # SpouseOf[t] THEN "refused"
             ELSE IF op = "edit" THEN "commit" ELSE "hearts")
  /\ UNCHANGED <<reactions, comments, seen, inbox, loaded, answer, everMatched>>

CommitEdit(t) ==
  LET c == call[t].target
  IN /\ pc[t] = "commit"
     /\ call[t].op = "edit"
     /\ comments' = IF comments[c] = None THEN comments ELSE [comments EXCEPT ![c] = t]
     /\ Goto(t, IF comments[c] = None THEN "failed" ELSE "done")
     /\ UNCHANGED <<reactions, seen, inbox, call, loaded, answer, everMatched>>

\* delete_comment also loads the reactions on the comment ...
LoadHearts(t) ==
  /\ pc[t] = "hearts"
  /\ loaded' = [loaded EXCEPT ![t] = {r \in reactions : r.target = call[t].target}]
  /\ Goto(t, "commit")
  /\ UNCHANGED <<reactions, comments, seen, inbox, call, answer, everMatched>>

\* Mutant: the comment is deleted and its hearts are left.
CommitUncommentOnly(t) ==
  /\ pc[t] = "commit"
  /\ call[t].op = "uncomment"
  /\ comments' = [comments EXCEPT ![call[t].target] = None]
  /\ Goto(t, "done")
  /\ UNCHANGED <<reactions, seen, inbox, call, loaded, answer, everMatched>>

\* ... and deletes them together with it.
CommitUncomment(t) ==
  /\ pc[t] = "commit"
  /\ call[t].op = "uncomment"
  /\ reactions' = reactions \ loaded[t]
  /\ comments' = [comments EXCEPT ![call[t].target] = None]
  /\ Goto(t, "done")
  /\ UNCHANGED <<seen, inbox, call, loaded, answer, everMatched>>

-----------------------------------------------------------------------------
Step(t) ==
  \/ InsertReaction(t) \/ Notify(t) \/ CheckMatch(t) \/ DeleteReaction(t)
  \/ CheckSeen(t) \/ Celebrate(t) \/ CommitEdit(t) \/ LoadHearts(t) \/ CommitUncomment(t)

Start(t) ==
  \/ \E target \in Targets, emoji \in Emojis :
       LoadReaction(t, target, emoji) \/ LoadUnreaction(t, target, emoji)
  \/ \E e \in Entries : AskCelebration(t, e) \/ AddComment(t, e)
  \/ \E c \in Tasks : LoadComment(t, "edit", c) \/ LoadComment(t, "uncomment", c)

Next == \E t \in Tasks : Start(t) \/ Step(t)

Spec == Init /\ [][Next]_vars

-----------------------------------------------------------------------------
\* social.py:62-69: no match goes unannounced.  When both hearts are there and
\* both requests are through, at least one of the two was answered
\* match_formed, in whatever order they ran.
MatchAnnounced ==
  \A q, r \in reactions :
    /\ q.target = r.target /\ q.target \in Entries
    /\ q.emoji \in Hearts /\ r.emoji \in Hearts
    /\ SpouseOf[q.id] # SpouseOf[r.id]
    /\ pc[q.id] = "done" /\ pc[r.id] = "done"
    => answer[q.id] = "match" \/ answer[r.id] = "match"

\* social.py:114-124, 127-143: neither a match nor a celebration is announced
\* unless both spouses' hearts were there together at some time: one spouse
\* who hearts in both spellings is no match.
MatchIsMutual ==
  \A t \in Tasks : answer[t] \in {"match", "celebrate"} => call[t].target \in everMatched

\* Both together: a match is announced when there is one, and only then.
MatchesAnnounced == MatchAnnounced /\ MatchIsMutual

\* social.py:133-143: each spouse is shown the celebration of an entry once,
\* even if two phones of that spouse ask at the same time and even if the
\* match is undone and formed again.
CelebratedOnce ==
  \A t, u \in Tasks :
    /\ answer[t] = "celebrate" /\ answer[u] = "celebrate"
    /\ SpouseOf[t] = SpouseOf[u] /\ call[t].target = call[u].target
    => t = u

\* social.py:221-225: deleting a comment takes every heart with it that was there
\* when the handler looked, and none of them ever comes back -- hearts put on
\* the comment after that look stay behind, though the comment says "rather
\* than leaving orphan rows behind".
HeartsGoWithComment ==
  \A t \in Tasks : call[t].op = "uncomment" /\ pc[t] = "done" =>
    /\ comments[call[t].target] = None
    /\ loaded[t] \cap reactions = {}
-----------------------------------------------------------------------------
(* Why no match is missed and none made up.                                *)

\* Which handler may stand at which stage, and what it is about by then.
StageKnown(t) ==
  /\ pc[t] = "new" <=> call[t].op = "none"
  /\ pc[t] = "new" => answer[t] = "none"
  /\ pc[t] # "new" => call[t].target \in Targets
  /\ pc[t] \in {"insert", "match"} => call[t].op = "react"
  /\ pc[t] = "notify" => call[t].op \in {"react", "comment"}
  /\ pc[t] = "delete" => call[t].op = "unreact"
  /\ pc[t] = "hearts" => call[t].op = "uncomment"
  /\ pc[t] = "commit" => call[t].op \in {"edit", "uncomment"}
  /\ pc[t] \in {"seen", "celebrate"} =>
       call[t].op = "celebration" /\ call[t].target \in everMatched
  /\ call[t].op = "react" => call[t].emoji \in Emojis
  /\ call[t].op \in {"edit", "uncomment"} =>
       call[t].target \in Tasks /\ call[call[t].target].op = "comment"
  /\ answer[t] = "celebrate" => <<SpouseOf[t], call[t].target>> \in seen

\* A reaction row is the doing of a request that has inserted it and looks for
\* the match afterwards, unless notifying fails.
Inserted(r) ==
  /\ pc[r.id] \in {"notify", "match", "done", "failed"}
  /\ call[r.id] = [op |-> "react", target |-> r.target, emoji |-> r.emoji]

\* The inductive invariant of reactions, matches and comments.
SocialInv ==
  /\ TypeOK
  /\ \A t \in Tasks : StageKnown(t) /\ \A r \in loaded[t] : Inserted(r)
  /\ \A r \in reactions : Inserted(r)
  /\ \A e \in Entries : Matched(reactions, e) => e \in everMatched
  /\ MatchesAnnounced /\ CelebratedOnce /\ HeartsGoWithComment
==============================================================================
