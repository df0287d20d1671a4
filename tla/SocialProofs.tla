---------------------------- MODULE SocialProofs ----------------------------
(***************************************************************************)
(* Proofs about Social, for any number of requests and entries: no match   *)
(* goes unannounced and none is made up, each spouse celebrates an entry   *)
(* once, and the hearts a deleted comment was seen with never come back.   *)
(***************************************************************************)
EXTENDS Social, TLAPS

Settled(t) == pc[t] \in {"notify", "match", "done", "failed"}

\* Two different spouses are all there are.
LEMMA BothSpouses ==
  ASSUME NEW s \in Spouses, NEW o \in Spouses, s # o
  PROVE  Spouses = {s, o}
  BY SocialAssumption

\* Taking reactions away makes no match.
LEMMA FewerMatches ==
  ASSUME NEW rows, NEW fewer \in SUBSET rows, NEW e, Matched(fewer, e)
  PROVE  Matched(rows, e)
  BY DEF Matched

\* What a step of request t has to show: the rest follows from the other
\* requests' standing still.
LEMMA TaskStep ==
  ASSUME SocialInv, NEW t \in Tasks, TypeOK',
         \A u \in Tasks \ {t} : /\ pc'[u] = pc[u] /\ call'[u] = call[u]
                                /\ loaded'[u] = loaded[u] /\ answer'[u] = answer[u],
         pc[t] # "new" => call'[t] = call[t],
         Settled(t) => Settled(t)',
         everMatched \subseteq everMatched', seen \subseteq seen',
         StageKnown(t)', \A r \in loaded'[t] : Inserted(r)',
         \A r \in reactions' \ reactions :
           r.id = t /\ pc[t] = "insert" /\ pc'[t] = "notify" /\ Inserted(r)',
         \A e \in Entries : Matched(reactions', e) => e \in everMatched',
         pc'[t] = "done" /\ call'[t].op = "react" =>
           \/ pc[t] = "done" /\ answer'[t] = answer[t]
           \/ Matched(reactions', call'[t].target) => answer'[t] = "match"
           \/ \A r \in reactions' : r.id # t,
         answer'[t] \in {"match", "celebrate"} => call'[t].target \in everMatched',
         answer'[t] = "celebrate" =>
           \/ answer[t] = "celebrate"
           \/ <<SpouseOf[t], call'[t].target>> \notin seen,
         \A c \in Tasks : comments[c] = None /\ comments'[c] # None => c = t /\ pc[t] = "new",
         call'[t].op = "uncomment" /\ pc'[t] = "done" =>
           comments'[call'[t].target] = None /\ loaded'[t] \cap reactions' = {}
  PROVE  SocialInv'
<1>1. \A r \in reactions : Inserted(r) /\ r.id \in Tasks
  BY DEF SocialInv, TypeOK, Reaction
<1>2. ASSUME NEW r, r.id \in Tasks, Inserted(r) PROVE Inserted(r)'
  <2>1. pc[r.id] # "new" /\ Settled(r.id)
    BY <1>2 DEF Inserted, Settled
  <2>2. call'[r.id] = call[r.id] /\ Settled(r.id)'
    <3>1. CASE r.id = t
      BY <2>1, <3>1
    <3>2. CASE r.id # t
      BY <1>2, <2>1, <3>2 DEF Settled
    <3> QED
      BY <3>1, <3>2
  <2> QED
    BY <1>2, <2>2 DEF Inserted, Settled
<1>3. \A r \in reactions' : Inserted(r)'
  BY <1>1, <1>2
<1>4. ASSUME NEW u \in Tasks \ {t} PROVE StageKnown(u)' /\ \A r \in loaded'[u] : Inserted(r)'
  <2>1. /\ StageKnown(u) /\ \A r \in loaded[u] : Inserted(r)
        /\ \A v \in Tasks : StageKnown(v)
    BY DEF SocialInv
  <2>2. \A r \in loaded[u] : r.id \in Tasks
    <3>1. u \in Tasks /\ loaded \in [Tasks -> SUBSET Reaction]
      BY DEF SocialInv, TypeOK
    <3>2. loaded[u] \subseteq Reaction
      BY <3>1
    <3> QED
      BY <3>2 DEF Reaction
  <2>3. \A r \in loaded'[u] : Inserted(r)'
    BY <1>2, <2>1, <2>2
  <2>4. call[u].op \in {"edit", "uncomment"} =>
          call[u].target \in Tasks /\ call'[call[u].target].op = "comment"
    <3> SUFFICES ASSUME call[u].op \in {"edit", "uncomment"}
                 PROVE  call[u].target \in Tasks /\ call'[call[u].target].op = "comment"
      OBVIOUS
    <3>1. call[u].target \in Tasks /\ call[call[u].target].op = "comment"
      BY <2>1 DEF StageKnown
    <3>2. pc[call[u].target] # "new"
      BY <2>1, <3>1 DEF StageKnown
    <3>3. call'[call[u].target] = call[call[u].target]
      BY <3>1, <3>2
    <3> QED
      BY <3>1, <3>3
  <2>5. pc'[u] = pc[u] /\ call'[u] = call[u] /\ answer'[u] = answer[u]
    OBVIOUS
  <2>6. StageKnown(u)'
    BY <2>1, <2>4, <2>5 DEF StageKnown
  <2> QED
    BY <2>3, <2>6
<1>5. MatchAnnounced'
  <2> SUFFICES ASSUME NEW q \in reactions', NEW r \in reactions',
                      q.target = r.target, q.target \in Entries,
                      q.emoji \in Hearts, r.emoji \in Hearts,
                      SpouseOf[q.id] # SpouseOf[r.id],
                      pc'[q.id] = "done", pc'[r.id] = "done"
               PROVE  answer'[q.id] = "match" \/ answer'[r.id] = "match"
    BY DEF MatchAnnounced
  <2>1. q \in reactions /\ r \in reactions
    OBVIOUS
  <2>2. Inserted(q) /\ Inserted(r) /\ q.id \in Tasks /\ r.id \in Tasks /\ q.id # r.id
    BY <1>1, <2>1
  <2>3. /\ pc[q.id] = "done" /\ pc[r.id] = "done"
        => answer[q.id] = "match" \/ answer[r.id] = "match"
    BY <2>1 DEF SocialInv, MatchesAnnounced, MatchAnnounced
  <2>4. Matched(reactions', q.target)
    <3>1. Spouses = {SpouseOf[q.id], SpouseOf[r.id]}
      BY <2>2, BothSpouses, SocialAssumption
    <3> QED
      BY <3>1 DEF Matched
  <2>5. CASE q.id = t
    BY <2>1, <2>2, <2>3, <2>4, <2>5 DEF Inserted
  <2>6. CASE r.id = t
    BY <2>1, <2>2, <2>3, <2>4, <2>6 DEF Inserted
  <2>7. CASE q.id # t /\ r.id # t
    BY <2>2, <2>3, <2>7
  <2> QED
    BY <2>5, <2>6, <2>7
<1>6. MatchIsMutual'
  <2> SUFFICES ASSUME NEW u \in Tasks, answer'[u] \in {"match", "celebrate"}
               PROVE  call'[u].target \in everMatched'
    BY DEF MatchIsMutual
  <2>1. answer[u] \in {"match", "celebrate"} => call[u].target \in everMatched
    BY DEF SocialInv, MatchesAnnounced, MatchIsMutual
  <2> QED
    BY <2>1
<1>7. CelebratedOnce'
  <2> SUFFICES ASSUME NEW u \in Tasks, NEW v \in Tasks,
                      answer'[u] = "celebrate", answer'[v] = "celebrate",
                      SpouseOf[u] = SpouseOf[v], call'[u].target = call'[v].target
               PROVE  u = v
    BY DEF CelebratedOnce
  <2>1. /\ StageKnown(u) /\ StageKnown(v)
        /\ /\ answer[u] = "celebrate" /\ answer[v] = "celebrate" /\ call[u].target = call[v].target
           => u = v
    BY DEF SocialInv, CelebratedOnce
  <2>2. \A w \in {u, v} : answer[w] = "celebrate" =>
          call'[w] = call[w] /\ <<SpouseOf[w], call[w].target>> \in seen
    BY <2>1 DEF StageKnown
  <2> QED
    BY <2>1, <2>2
<1>8. HeartsGoWithComment'
  <2> SUFFICES ASSUME NEW u \in Tasks, call'[u].op = "uncomment", pc'[u] = "done"
               PROVE  comments'[call'[u].target] = None /\ loaded'[u] \cap reactions' = {}
    BY DEF HeartsGoWithComment
  <2>1. CASE u = t
    BY <2>1
  <2>2. CASE u # t
    <3>1. /\ call'[u] = call[u] /\ pc[u] = "done" /\ loaded'[u] = loaded[u]
          /\ StageKnown(u) /\ \A v \in Tasks : StageKnown(v)
          /\ comments[call[u].target] = None /\ loaded[u] \cap reactions = {}
      BY <2>2 DEF SocialInv, HeartsGoWithComment
    <3>2. call[u].target \in Tasks /\ pc[call[u].target] # "new"
      <4>1. call[u].target \in Tasks /\ call[call[u].target].op = "comment"
        BY <3>1 DEF StageKnown
      <4> QED
        BY <3>1, <4>1 DEF StageKnown
    <3>3. \A r \in loaded[u] : r \notin reactions'
      BY <3>1 DEF SocialInv, Inserted
    <3> QED
      BY <3>1, <3>2, <3>3
  <2> QED
    BY <2>1, <2>2
<1> QED
  BY <1>3, <1>4, <1>5, <1>6, <1>7, <1>8 DEF SocialInv, MatchesAnnounced, Matched

-----------------------------------------------------------------------------
(* Steps that touch no reaction. *)

\* A match seen in the rows there are has been seen by everMatched.
LEMMA SeenMatches ==
  ASSUME SocialInv, reactions' \subseteq reactions, everMatched \subseteq everMatched'
  PROVE  \A e \in Entries : Matched(reactions', e) => e \in everMatched'
  BY FewerMatches DEF SocialInv

\* A row that is there keeps its meaning when its request goes on.
LEMMA RowsStay ==
  ASSUME SocialInv, NEW t \in Tasks,
         \A u \in Tasks \ {t} : pc'[u] = pc[u] /\ call'[u] = call[u],
         pc[t] # "new" => call'[t] = call[t], Settled(t) => Settled(t)'
  PROVE  /\ \A r \in reactions : Inserted(r)'
         /\ \A u \in Tasks : \A r \in loaded[u] : Inserted(r)'
<1>1. ASSUME NEW r, r.id \in Tasks, Inserted(r) PROVE Inserted(r)'
  <2>1. pc[r.id] # "new" /\ Settled(r.id)
    BY <1>1 DEF Inserted, Settled
  <2>2. CASE r.id = t
    BY <1>1, <2>1, <2>2 DEF Inserted, Settled
  <2>3. CASE r.id # t
    BY <1>1, <2>1, <2>3 DEF Inserted, Settled
  <2> QED
    BY <2>2, <2>3
<1>2. \A r \in reactions : r.id \in Tasks /\ Inserted(r)
  BY DEF SocialInv, TypeOK, Reaction
<1>3. ASSUME NEW u \in Tasks PROVE \A r \in loaded[u] : r.id \in Tasks /\ Inserted(r)
  <2>1. loaded[u] \subseteq Reaction
    BY DEF SocialInv, TypeOK
  <2> QED
    BY <2>1 DEF SocialInv, Reaction
<1> QED
  BY <1>1, <1>2, <1>3

\* The first step of a request, with what it is about.
LEMMA Begun ==
  ASSUME SocialInv, NEW t \in Tasks, NEW op \in {"react", "unreact", "celebration", "comment",
                                                 "edit", "uncomment"},
         NEW target \in Targets, NEW emoji \in Emojis \cup {None},
         Begin(t, op, target, emoji), NEW label \in PCs \ {"new"}, Goto(t, label)
  PROVE  /\ pc[t] = "new" /\ pc'[t] = label /\ call[t].op = "none"
         /\ answer[t] = "none" /\ ~Settled(t)
         /\ pc' \in [Tasks -> PCs]
         /\ call' \in [Tasks -> [op : {"none", "react", "unreact", "celebration", "comment",
                                       "edit", "uncomment"},
                                 target : Targets \cup {None}, emoji : Emojis \cup {None}]]
         /\ call'[t] = [op |-> op, target |-> target, emoji |-> emoji]
         /\ \A u \in Tasks \ {t} : pc'[u] = pc[u] /\ call'[u] = call[u]
         /\ \A r \in reactions : Inserted(r)'
         /\ \A u \in Tasks : \A r \in loaded[u] : Inserted(r)'
<1> DEFINE new == [op |-> op, target |-> target, emoji |-> emoji]
           Calls == [op : {"none", "react", "unreact", "celebration", "comment",
                           "edit", "uncomment"},
                     target : Targets \cup {None}, emoji : Emojis \cup {None}]
<1>1. /\ pc[t] = "new" /\ call' = [call EXCEPT ![t] = new] /\ pc' = [pc EXCEPT ![t] = label]
  BY DEF Begin, Goto
<1>2. /\ new \in Calls /\ call \in [Tasks -> Calls] /\ pc \in [Tasks -> PCs]
      /\ StageKnown(t)
  BY DEF SocialInv, TypeOK
<1> HIDE DEF new, Calls
<1>3. /\ call' \in [Tasks -> Calls] /\ pc' \in [Tasks -> PCs] /\ call'[t] = new /\ pc'[t] = label
      /\ \A u \in Tasks \ {t} : pc'[u] = pc[u] /\ call'[u] = call[u]
  BY <1>1, <1>2
<1>4. ~Settled(t) /\ answer[t] = "none" /\ call[t].op = "none"
  BY <1>1, <1>2 DEF Settled, StageKnown
<1>5. /\ \A r \in reactions : Inserted(r)'
      /\ \A u \in Tasks : \A r \in loaded[u] : Inserted(r)'
  BY <1>1, <1>3, <1>4, RowsStay
<1> QED
  BY <1>1, <1>3, <1>4, <1>5 DEF new, Calls

LEMMA LoadReactionStep ==
  ASSUME SocialInv, NEW t \in Tasks, NEW target \in Targets, NEW emoji \in Emojis,
         LoadReaction(t, target, emoji)
  PROVE  SocialInv'
<1>1. PICK label \in {"refused", "done", "insert"} : Goto(t, label)
  BY DEF LoadReaction
<1>2. /\ Begin(t, "react", target, emoji)
      /\ UNCHANGED <<reactions, comments, seen, inbox, loaded, answer, everMatched>>
  BY DEF LoadReaction
<1>3. /\ pc[t] = "new" /\ pc'[t] = label /\ call[t].op = "none"
      /\ answer[t] = "none" /\ ~Settled(t)
      /\ pc' \in [Tasks -> PCs]
      /\ call' \in [Tasks -> [op : {"none", "react", "unreact", "celebration", "comment",
                                    "edit", "uncomment"},
                              target : Targets \cup {None}, emoji : Emojis \cup {None}]]
      /\ call'[t] = [op |-> "react", target |-> target, emoji |-> emoji]
      /\ \A u \in Tasks \ {t} : pc'[u] = pc[u] /\ call'[u] = call[u]
      /\ \A r \in reactions : Inserted(r)' /\ Inserted(r)
      /\ \A u \in Tasks : \A r \in loaded[u] : Inserted(r)'
  BY <1>1, <1>2, Begun DEF PCs, SocialInv
<1>4. TypeOK'
  BY <1>2, <1>3 DEF SocialInv, TypeOK
<1>5. StageKnown(t)'
  BY <1>1, <1>2, <1>3 DEF StageKnown
\* A row with this request's name would be of an earlier insert.
<1>6. \A r \in reactions' : r.id # t
  BY <1>2, <1>3 DEF Inserted
<1>7. \A e \in Entries : Matched(reactions', e) => e \in everMatched'
  BY <1>2, SeenMatches
<1>8. /\ UNCHANGED <<reactions, comments, seen, loaded, answer, everMatched>>
      /\ \A u \in Tasks \ {t} : /\ pc'[u] = pc[u] /\ call'[u] = call[u]
                               /\ loaded'[u] = loaded[u] /\ answer'[u] = answer[u]
  BY <1>2, <1>3
<1>9. /\ answer'[t] \notin {"match", "celebrate"} /\ call'[t].op # "uncomment"
      /\ \A r \in loaded'[t] : Inserted(r)'
  BY <1>2, <1>3
<1> QED
  BY <1>3, <1>4, <1>5, <1>6, <1>7, <1>8, <1>9, TaskStep

LEMMA LoadUnreactionStep ==
  ASSUME SocialInv, NEW t \in Tasks, NEW target \in Targets, NEW emoji \in Emojis,
         LoadUnreaction(t, target, emoji)
  PROVE  SocialInv'
<1>1. PICK label \in {"done", "delete"} : Goto(t, label)
  BY DEF LoadUnreaction
<1>2. /\ Begin(t, "unreact", target, emoji)
      /\ loaded' = [loaded EXCEPT ![t] = Same(t, target, emoji)]
      /\ UNCHANGED <<reactions, comments, seen, inbox, answer, everMatched>>
  BY DEF LoadUnreaction
<1>3. /\ pc[t] = "new" /\ pc'[t] = label /\ call[t].op = "none"
      /\ answer[t] = "none" /\ ~Settled(t)
      /\ pc' \in [Tasks -> PCs]
      /\ call' \in [Tasks -> [op : {"none", "react", "unreact", "celebration", "comment",
                                    "edit", "uncomment"},
                              target : Targets \cup {None}, emoji : Emojis \cup {None}]]
      /\ call'[t] = [op |-> "unreact", target |-> target, emoji |-> emoji]
      /\ \A u \in Tasks \ {t} : pc'[u] = pc[u] /\ call'[u] = call[u]
      /\ \A r \in reactions : Inserted(r)'
  BY <1>1, <1>2, Begun DEF PCs
<1>4. /\ loaded \in [Tasks -> SUBSET Reaction] /\ reactions \subseteq Reaction
      /\ Same(t, target, emoji) \subseteq reactions
  BY DEF SocialInv, TypeOK, Same
<1>5. /\ loaded' \in [Tasks -> SUBSET Reaction] /\ loaded'[t] \subseteq reactions
      /\ \A u \in Tasks \ {t} : loaded'[u] = loaded[u]
  BY <1>2, <1>4
<1>6. TypeOK'
  BY <1>2, <1>3, <1>5 DEF SocialInv, TypeOK
<1>7. StageKnown(t)'
  BY <1>1, <1>2, <1>3 DEF StageKnown
<1>8. \A e \in Entries : Matched(reactions', e) => e \in everMatched'
  BY <1>2, SeenMatches
<1>9. /\ UNCHANGED <<reactions, comments, seen, answer, everMatched>>
      /\ \A u \in Tasks \ {t} : /\ pc'[u] = pc[u] /\ call'[u] = call[u]
                               /\ loaded'[u] = loaded[u] /\ answer'[u] = answer[u]
  BY <1>2, <1>3, <1>5
<1>10. /\ answer'[t] \notin {"match", "celebrate"} /\ call'[t].op \notin {"uncomment", "react"}
       /\ \A r \in loaded'[t] : Inserted(r)'
  BY <1>2, <1>3, <1>5
<1> QED
  BY <1>3, <1>6, <1>7, <1>8, <1>9, <1>10, TaskStep

LEMMA AskCelebrationStep ==
  ASSUME SocialInv, NEW t \in Tasks, NEW e \in Entries, AskCelebration(t, e)
  PROVE  SocialInv'
<1>1. PICK label \in {"seen", "done"} :
        /\ Goto(t, label) /\ (label = "seen" => Matched(reactions, e))
        /\ \/ UNCHANGED answer
           \/ answer' = [answer EXCEPT ![t] = "nothing"]
  BY DEF AskCelebration, Answer
<1>2. /\ Begin(t, "celebration", e, None)
      /\ UNCHANGED <<reactions, comments, seen, inbox, loaded, everMatched>>
  BY DEF AskCelebration
<1>3. /\ pc[t] = "new" /\ pc'[t] = label /\ call[t].op = "none"
      /\ answer[t] = "none" /\ ~Settled(t)
      /\ pc' \in [Tasks -> PCs]
      /\ call' \in [Tasks -> [op : {"none", "react", "unreact", "celebration", "comment",
                                    "edit", "uncomment"},
                              target : Targets \cup {None}, emoji : Emojis \cup {None}]]
      /\ call'[t] = [op |-> "celebration", target |-> e, emoji |-> None]
      /\ \A u \in Tasks \ {t} : pc'[u] = pc[u] /\ call'[u] = call[u]
      /\ \A r \in reactions : Inserted(r)'
      /\ \A u \in Tasks : \A r \in loaded[u] : Inserted(r)'
  BY <1>1, <1>2, Begun DEF PCs, Targets
<1>4. /\ answer' \in [Tasks -> {"none", "match", "no match", "celebrate", "nothing"}]
      /\ answer'[t] # "match" /\ answer'[t] # "celebrate"
      /\ \A u \in Tasks \ {t} : answer'[u] = answer[u]
  <2>1. answer \in [Tasks -> {"none", "match", "no match", "celebrate", "nothing"}]
    BY DEF SocialInv, TypeOK
  <2> QED
    BY <1>1, <1>3, <2>1
<1>5. TypeOK'
  BY <1>2, <1>3, <1>4 DEF SocialInv, TypeOK
<1>6. label = "seen" => e \in everMatched'
  BY <1>1, <1>2 DEF SocialInv
<1>7. StageKnown(t)'
  <2>1. /\ pc'[t] \in {"seen", "done"} /\ call'[t].op = "celebration" /\ call'[t].target = e
        /\ pc'[t] = "seen" => e \in everMatched'
    BY <1>3, <1>6
  <2>2. answer'[t] # "celebrate"
    BY <1>4
  <2> QED
    BY <2>1, <2>2 DEF StageKnown, Targets
<1>8. \A d \in Entries : Matched(reactions', d) => d \in everMatched'
  BY <1>2, SeenMatches
<1>9. /\ UNCHANGED <<reactions, comments, seen, everMatched>>
      /\ \A u \in Tasks \ {t} : /\ pc'[u] = pc[u] /\ call'[u] = call[u]
                               /\ loaded'[u] = loaded[u] /\ answer'[u] = answer[u]
  BY <1>2, <1>3, <1>4
<1>10. /\ answer'[t] \notin {"match", "celebrate"} /\ call'[t].op \notin {"uncomment", "react"}
       /\ \A r \in loaded'[t] : Inserted(r)'
  <2>1. answer'[t] \notin {"match", "celebrate"}
    BY <1>4
  <2>2. call'[t].op \notin {"uncomment", "react"}
    BY <1>3
  <2>3. \A r \in loaded'[t] : Inserted(r)'
    BY <1>2, <1>3
  <2> QED
    BY <2>1, <2>2, <2>3
<1> QED
  BY <1>3, <1>5, <1>7, <1>8, <1>9, <1>10, TaskStep

LEMMA AddCommentStep ==
  ASSUME SocialInv, NEW t \in Tasks, NEW e \in Entries, AddComment(t, e)
  PROVE  SocialInv'
<1>1. /\ Begin(t, "comment", e, None) /\ Goto(t, "notify")
      /\ comments' = [comments EXCEPT ![t] = t]
      /\ UNCHANGED <<reactions, seen, inbox, loaded, answer, everMatched>>
  BY DEF AddComment
<1>2. /\ pc[t] = "new" /\ pc'[t] = "notify" /\ call[t].op = "none"
      /\ answer[t] = "none" /\ ~Settled(t)
      /\ pc' \in [Tasks -> PCs]
      /\ call' \in [Tasks -> [op : {"none", "react", "unreact", "celebration", "comment",
                                    "edit", "uncomment"},
                              target : Targets \cup {None}, emoji : Emojis \cup {None}]]
      /\ call'[t] = [op |-> "comment", target |-> e, emoji |-> None]
      /\ \A u \in Tasks \ {t} : pc'[u] = pc[u] /\ call'[u] = call[u]
      /\ \A r \in reactions : Inserted(r)'
      /\ \A u \in Tasks : \A r \in loaded[u] : Inserted(r)'
  BY <1>1, Begun DEF PCs, Targets
<1>3. /\ comments' \in [Tasks -> Tasks \cup {None}]
      /\ \A c \in Tasks \ {t} : comments'[c] = comments[c]
  BY <1>1 DEF SocialInv, TypeOK
<1>4. TypeOK'
  BY <1>1, <1>2, <1>3 DEF SocialInv, TypeOK
<1>5. StageKnown(t)'
  BY <1>1, <1>2 DEF StageKnown, Targets
<1>6. \A d \in Entries : Matched(reactions', d) => d \in everMatched'
  BY <1>1, SeenMatches
<1>7. /\ UNCHANGED <<reactions, seen, everMatched>>
      /\ \A u \in Tasks \ {t} : /\ pc'[u] = pc[u] /\ call'[u] = call[u]
                               /\ loaded'[u] = loaded[u] /\ answer'[u] = answer[u]
  BY <1>1, <1>2
<1>8. /\ answer'[t] \notin {"match", "celebrate"} /\ call'[t].op \notin {"uncomment", "react"}
      /\ \A r \in loaded'[t] : Inserted(r)'
      /\ \A c \in Tasks : comments[c] = None /\ comments'[c] # None => c = t /\ pc[t] = "new"
  BY <1>1, <1>2, <1>3
<1> QED
  BY <1>2, <1>4, <1>5, <1>6, <1>7, <1>8, TaskStep

LEMMA LoadCommentStep ==
  ASSUME SocialInv, NEW t \in Tasks, NEW op \in {"edit", "uncomment"}, NEW c \in Tasks,
         LoadComment(t, op, c)
  PROVE  SocialInv'
<1>1. PICK label \in {"refused", "commit", "hearts"} :
        Goto(t, label) /\ (label = "hearts" => op = "uncomment")
  BY DEF LoadComment
<1>2. /\ Begin(t, op, c, None) /\ call[c].op = "comment"
      /\ UNCHANGED <<reactions, comments, seen, inbox, loaded, answer, everMatched>>
  BY DEF LoadComment
<1>3. /\ pc[t] = "new" /\ pc'[t] = label /\ call[t].op = "none"
      /\ answer[t] = "none" /\ ~Settled(t)
      /\ pc' \in [Tasks -> PCs]
      /\ call' \in [Tasks -> [op : {"none", "react", "unreact", "celebration", "comment",
                                    "edit", "uncomment"},
                              target : Targets \cup {None}, emoji : Emojis \cup {None}]]
      /\ call'[t] = [op |-> op, target |-> c, emoji |-> None]
      /\ \A u \in Tasks \ {t} : pc'[u] = pc[u] /\ call'[u] = call[u]
      /\ \A r \in reactions : Inserted(r)'
      /\ \A u \in Tasks : \A r \in loaded[u] : Inserted(r)'
  BY <1>1, <1>2, Begun DEF PCs, Targets
<1>4. TypeOK'
  BY <1>2, <1>3 DEF SocialInv, TypeOK
<1>5. c # t /\ call'[c].op = "comment"
  BY <1>2, <1>3
<1>6. StageKnown(t)'
  BY <1>1, <1>2, <1>3, <1>5 DEF StageKnown, Targets
<1>7. \A d \in Entries : Matched(reactions', d) => d \in everMatched'
  BY <1>2, SeenMatches
<1>8. /\ UNCHANGED <<reactions, comments, seen, everMatched>>
      /\ \A u \in Tasks \ {t} : /\ pc'[u] = pc[u] /\ call'[u] = call[u]
                               /\ loaded'[u] = loaded[u] /\ answer'[u] = answer[u]
  BY <1>2, <1>3
<1>9. /\ answer'[t] \notin {"match", "celebrate"} /\ call'[t].op # "react" /\ pc'[t] # "done"
      /\ \A r \in loaded'[t] : Inserted(r)'
  BY <1>1, <1>2, <1>3
<1> QED
  BY <1>3, <1>4, <1>6, <1>7, <1>8, <1>9, TaskStep

-----------------------------------------------------------------------------
(* The later steps of a request. *)

LEMMA Went ==
  ASSUME SocialInv, NEW t \in Tasks, UNCHANGED call, pc[t] # "new",
         NEW label \in PCs \ {"new"}, Goto(t, label),
         Settled(t) => label \in {"notify", "match", "done", "failed"}
  PROVE  /\ pc'[t] = label /\ pc' \in [Tasks -> PCs] /\ call'[t] = call[t]
         /\ \A u \in Tasks \ {t} : pc'[u] = pc[u] /\ call'[u] = call[u]
         /\ Settled(t) => Settled(t)'
         /\ \A r \in reactions : Inserted(r)'
         /\ \A u \in Tasks : \A r \in loaded[u] : Inserted(r)'
<1>1. /\ pc'[t] = label /\ pc' \in [Tasks -> PCs]
      /\ \A u \in Tasks \ {t} : pc'[u] = pc[u]
  BY DEF Goto, SocialInv, TypeOK
<1>2. Settled(t) => Settled(t)'
  BY <1>1 DEF Settled
<1> QED
  BY <1>1, <1>2, RowsStay

LEMMA NotifyStep == ASSUME SocialInv, NEW t \in Tasks, Notify(t) PROVE SocialInv'
<1>1. PICK label \in {"match", "done", "failed"} :
        /\ Goto(t, label)
        /\ label = "match" => call[t].op = "react"
        /\ label = "done" => call[t].op # "react"
  BY DEF Notify
<1>2. /\ pc[t] = "notify"
      /\ UNCHANGED <<reactions, comments, seen, call, loaded, answer, everMatched>>
      /\ inbox' \subseteq inbox \cup {<<Other(SpouseOf[t]), t>>}
  BY DEF Notify
<1>3. /\ pc'[t] = label /\ pc' \in [Tasks -> PCs] /\ call'[t] = call[t]
      /\ \A u \in Tasks \ {t} : pc'[u] = pc[u] /\ call'[u] = call[u]
      /\ Settled(t)' /\ \A u \in Tasks : \A r \in loaded[u] : Inserted(r)'
  BY <1>1, <1>2, Went DEF PCs, Settled
<1>4. Other(SpouseOf[t]) \in Spouses
  BY SocialAssumption DEF Other
<1>5. TypeOK'
  <2>1. inbox' \subseteq Spouses \X Tasks
    <3>1. inbox \subseteq Spouses \X Tasks /\ <<Other(SpouseOf[t]), t>> \in Spouses \X Tasks
      BY <1>4 DEF SocialInv, TypeOK
    <3> QED
      BY <1>2, <3>1
  <2> QED
    BY <1>2, <1>3, <2>1 DEF SocialInv, TypeOK
<1>6. StageKnown(t) /\ (answer[t] \in {"match", "celebrate"} => call[t].target \in everMatched)
  BY DEF SocialInv, MatchesAnnounced, MatchIsMutual
<1>7. StageKnown(t)'
  BY <1>1, <1>2, <1>3, <1>6 DEF StageKnown
<1>8. \A d \in Entries : Matched(reactions', d) => d \in everMatched'
  BY <1>2, SeenMatches
<1>9. /\ \A u \in Tasks \ {t} : /\ pc'[u] = pc[u] /\ call'[u] = call[u]
                               /\ loaded'[u] = loaded[u] /\ answer'[u] = answer[u]
      /\ \A r \in loaded'[t] : Inserted(r)'
  BY <1>2, <1>3
<1>10. /\ call'[t].op # "uncomment" /\ ~(pc'[t] = "done" /\ call'[t].op = "react")
       /\ answer'[t] \in {"match", "celebrate"} => call'[t].target \in everMatched'
  BY <1>1, <1>2, <1>3, <1>6 DEF StageKnown
<1> QED
  BY <1>2, <1>3, <1>5, <1>7, <1>8, <1>9, <1>10, TaskStep

LEMMA CheckMatchStep == ASSUME SocialInv, NEW t \in Tasks, CheckMatch(t) PROVE SocialInv'
<1> DEFINE verdict == IF Matched(reactions, call[t].target) THEN "match" ELSE "no match"
<1>1. /\ pc[t] = "match" /\ Goto(t, "done")
      /\ answer' = [answer EXCEPT ![t] = verdict]
      /\ UNCHANGED <<reactions, comments, seen, inbox, call, loaded, everMatched>>
  BY DEF CheckMatch, Answer
<1>2. /\ pc'[t] = "done" /\ pc' \in [Tasks -> PCs] /\ call'[t] = call[t]
      /\ \A u \in Tasks \ {t} : pc'[u] = pc[u] /\ call'[u] = call[u]
      /\ Settled(t)' /\ \A u \in Tasks : \A r \in loaded[u] : Inserted(r)'
  BY <1>1, Went DEF PCs, Settled
<1>3. /\ answer' \in [Tasks -> {"none", "match", "no match", "celebrate", "nothing"}]
      /\ answer'[t] = verdict /\ \A u \in Tasks \ {t} : answer'[u] = answer[u]
  <2> HIDE DEF verdict
  <2>1. verdict \in {"match", "no match"}
    BY DEF verdict
  <2> QED
    BY <1>1, <2>1 DEF SocialInv, TypeOK
<1>4. TypeOK'
  BY <1>1, <1>2, <1>3 DEF SocialInv, TypeOK
<1>5. StageKnown(t)
  BY DEF SocialInv
<1>6. StageKnown(t)'
  BY <1>1, <1>2, <1>3, <1>5 DEF StageKnown
<1>7. \A d \in Entries : Matched(reactions', d) => d \in everMatched'
  BY <1>1, SeenMatches
<1>8. /\ \A u \in Tasks \ {t} : /\ pc'[u] = pc[u] /\ call'[u] = call[u]
                               /\ loaded'[u] = loaded[u] /\ answer'[u] = answer[u]
      /\ \A r \in loaded'[t] : Inserted(r)'
  BY <1>1, <1>2, <1>3
<1>9. /\ Matched(reactions', call'[t].target) => answer'[t] = "match"
      /\ answer'[t] # "celebrate" /\ call'[t].op = "react"
      /\ answer'[t] = "match" => call'[t].target \in everMatched'
  BY <1>1, <1>2, <1>3, <1>5, <1>7 DEF StageKnown, Matched
<1> QED
  BY <1>1, <1>2, <1>4, <1>6, <1>7, <1>8, <1>9, TaskStep

LEMMA CheckSeenStep == ASSUME SocialInv, NEW t \in Tasks, CheckSeen(t) PROVE SocialInv'
<1>1. PICK label \in {"done", "celebrate"} :
        /\ Goto(t, label)
        /\ \/ UNCHANGED answer
           \/ answer' = [answer EXCEPT ![t] = "nothing"]
  BY DEF CheckSeen, Answer
<1>2. /\ pc[t] = "seen"
      /\ UNCHANGED <<reactions, comments, seen, inbox, call, loaded, everMatched>>
  BY DEF CheckSeen
<1>3. /\ pc'[t] = label /\ pc' \in [Tasks -> PCs] /\ call'[t] = call[t]
      /\ \A u \in Tasks \ {t} : pc'[u] = pc[u] /\ call'[u] = call[u]
      /\ ~Settled(t) /\ \A u \in Tasks : \A r \in loaded[u] : Inserted(r)'
  BY <1>1, <1>2, Went DEF PCs, Settled
<1>4. /\ answer' \in [Tasks -> {"none", "match", "no match", "celebrate", "nothing"}]
      /\ answer'[t] \in {"match", "celebrate"} => answer'[t] = answer[t]
      /\ \A u \in Tasks \ {t} : answer'[u] = answer[u]
  <2>1. answer \in [Tasks -> {"none", "match", "no match", "celebrate", "nothing"}]
    BY DEF SocialInv, TypeOK
  <2> QED
    BY <1>1, <2>1
<1>5. TypeOK'
  BY <1>2, <1>3, <1>4 DEF SocialInv, TypeOK
<1>6. StageKnown(t) /\ (answer[t] \in {"match", "celebrate"} => call[t].target \in everMatched)
  BY DEF SocialInv, MatchesAnnounced, MatchIsMutual
<1>7. call[t].op = "celebration" /\ call[t].target \in everMatched
  BY <1>2, <1>6 DEF StageKnown
<1>8. StageKnown(t)'
  BY <1>2, <1>3, <1>4, <1>6, <1>7 DEF StageKnown
<1>9. \A d \in Entries : Matched(reactions', d) => d \in everMatched'
  BY <1>2, SeenMatches
<1>10. /\ \A u \in Tasks \ {t} : /\ pc'[u] = pc[u] /\ call'[u] = call[u]
                                /\ loaded'[u] = loaded[u] /\ answer'[u] = answer[u]
       /\ \A r \in loaded'[t] : Inserted(r)'
  BY <1>2, <1>3, <1>4
<1>11. /\ call'[t].op \notin {"uncomment", "react"}
       /\ call'[t].target \in everMatched'
       /\ answer'[t] = "celebrate" => answer[t] = "celebrate"
  BY <1>2, <1>3, <1>4, <1>7
<1> QED
  BY <1>2, <1>3, <1>5, <1>8, <1>9, <1>10, <1>11, TaskStep

LEMMA CelebrateStep == ASSUME SocialInv, NEW t \in Tasks, Celebrate(t) PROVE SocialInv'
<1> DEFINE row == <<SpouseOf[t], call[t].target>>
<1>1. PICK label \in {"done", "failed"} :
        /\ Goto(t, label)
        /\ \/ UNCHANGED answer
           \/ row \notin seen /\ answer' = [answer EXCEPT ![t] = "celebrate"]
  BY DEF Celebrate, Answer
<1>2. /\ pc[t] = "celebrate" /\ seen' = seen \cup {row}
      /\ UNCHANGED <<reactions, comments, inbox, call, loaded, everMatched>>
  BY DEF Celebrate
<1>3. /\ pc'[t] = label /\ pc' \in [Tasks -> PCs] /\ call'[t] = call[t]
      /\ \A u \in Tasks \ {t} : pc'[u] = pc[u] /\ call'[u] = call[u]
      /\ ~Settled(t) /\ \A u \in Tasks : \A r \in loaded[u] : Inserted(r)'
  BY <1>1, <1>2, Went DEF PCs, Settled
<1>4. /\ answer' \in [Tasks -> {"none", "match", "no match", "celebrate", "nothing"}]
      /\ answer'[t] = answer[t] \/ (answer'[t] = "celebrate" /\ row \notin seen)
      /\ \A u \in Tasks \ {t} : answer'[u] = answer[u]
  <2>1. answer \in [Tasks -> {"none", "match", "no match", "celebrate", "nothing"}]
    BY DEF SocialInv, TypeOK
  <2> HIDE DEF row
  <2> QED
    BY <1>1, <2>1
<1>5. StageKnown(t) /\ (answer[t] \in {"match", "celebrate"} => call[t].target \in everMatched)
  BY DEF SocialInv, MatchesAnnounced, MatchIsMutual
<1>6. call[t].op = "celebration" /\ call[t].target \in everMatched /\ everMatched \subseteq Entries
  BY <1>2, <1>5 DEF StageKnown, SocialInv, TypeOK
<1>7. TypeOK'
  <2>1. row \in Spouses \X Entries
    BY <1>6, SocialAssumption
  <2>2. seen' \subseteq Spouses \X Entries
    <3>1. seen \subseteq Spouses \X Entries
      BY DEF SocialInv, TypeOK
    <3> HIDE DEF row
    <3> QED
      BY <1>2, <2>1, <3>1
  <2> QED
    BY <1>2, <1>3, <1>4, <2>2 DEF SocialInv, TypeOK
<1>8. StageKnown(t)'
  <2>1. row \in seen' /\ pc'[t] \in {"done", "failed"} /\ call'[t] = call[t]
    BY <1>2, <1>3
  <2>2. call'[t].target \in Targets
    BY <1>2, <1>5, <2>1 DEF StageKnown
  <2> QED
    BY <1>6, <2>1, <2>2 DEF StageKnown
<1>9. \A d \in Entries : Matched(reactions', d) => d \in everMatched'
  BY <1>2, SeenMatches
<1>10. /\ \A u \in Tasks \ {t} : /\ pc'[u] = pc[u] /\ call'[u] = call[u]
                                /\ loaded'[u] = loaded[u] /\ answer'[u] = answer[u]
       /\ \A r \in loaded'[t] : Inserted(r)'
  BY <1>2, <1>3, <1>4
<1>11. /\ call'[t].op \notin {"uncomment", "react"} /\ seen \subseteq seen'
       /\ call'[t].target \in everMatched'
       /\ answer'[t] = "celebrate" =>
            answer[t] = "celebrate" \/ <<SpouseOf[t], call'[t].target>> \notin seen
  BY <1>2, <1>3, <1>4, <1>6
<1> QED
  BY <1>2, <1>3, <1>7, <1>8, <1>9, <1>10, <1>11, TaskStep

LEMMA CommitEditStep == ASSUME SocialInv, NEW t \in Tasks, CommitEdit(t) PROVE SocialInv'
<1> DEFINE c == call[t].target
<1>1. PICK label \in {"done", "failed"} : Goto(t, label)
  BY DEF CommitEdit
<1>2. /\ pc[t] = "commit" /\ call[t].op = "edit"
      /\ comments' = IF comments[c] = None THEN comments ELSE [comments EXCEPT ![c] = t]
      /\ UNCHANGED <<reactions, seen, inbox, call, loaded, answer, everMatched>>
  BY DEF CommitEdit
<1>3. /\ pc'[t] = label /\ pc' \in [Tasks -> PCs] /\ call'[t] = call[t]
      /\ \A u \in Tasks \ {t} : pc'[u] = pc[u] /\ call'[u] = call[u]
      /\ ~Settled(t) /\ \A u \in Tasks : \A r \in loaded[u] : Inserted(r)'
  BY <1>1, <1>2, Went DEF PCs, Settled
<1>4. /\ comments' \in [Tasks -> Tasks \cup {None}]
      /\ \A d \in Tasks : comments[d] = None => comments'[d] = None
  <2>1. comments \in [Tasks -> Tasks \cup {None}]
    BY DEF SocialInv, TypeOK
  <2> HIDE DEF c
  <2> QED
    BY <1>2, <2>1
<1>5. TypeOK'
  BY <1>2, <1>3, <1>4 DEF SocialInv, TypeOK
<1>6. StageKnown(t) /\ (answer[t] \in {"match", "celebrate"} => call[t].target \in everMatched)
  BY DEF SocialInv, MatchesAnnounced, MatchIsMutual
<1>7. StageKnown(t)'
  BY <1>2, <1>3, <1>6 DEF StageKnown
<1>8. \A d \in Entries : Matched(reactions', d) => d \in everMatched'
  BY <1>2, SeenMatches
<1>9. /\ \A u \in Tasks \ {t} : /\ pc'[u] = pc[u] /\ call'[u] = call[u]
                               /\ loaded'[u] = loaded[u] /\ answer'[u] = answer[u]
      /\ \A r \in loaded'[t] : Inserted(r)'
  BY <1>2, <1>3
<1>10. /\ call'[t].op \notin {"uncomment", "react"}
       /\ answer'[t] \in {"match", "celebrate"} => call'[t].target \in everMatched'
       /\ answer'[t] = "celebrate" => answer[t] = "celebrate"
  BY <1>2, <1>3, <1>6
<1> QED
  BY <1>2, <1>3, <1>4, <1>5, <1>7, <1>8, <1>9, <1>10, TaskStep

LEMMA LoadHeartsStep == ASSUME SocialInv, NEW t \in Tasks, LoadHearts(t) PROVE SocialInv'
<1> DEFINE hearts == {r \in reactions : r.target = call[t].target}
<1>1. /\ pc[t] = "hearts" /\ Goto(t, "commit")
      /\ loaded' = [loaded EXCEPT ![t] = hearts]
      /\ UNCHANGED <<reactions, comments, seen, inbox, call, answer, everMatched>>
  BY DEF LoadHearts
<1>2. /\ pc'[t] = "commit" /\ pc' \in [Tasks -> PCs] /\ call'[t] = call[t]
      /\ \A u \in Tasks \ {t} : pc'[u] = pc[u] /\ call'[u] = call[u]
      /\ ~Settled(t) /\ \A r \in reactions : Inserted(r)'
  BY <1>1, Went DEF PCs, Settled
<1>3. /\ loaded' \in [Tasks -> SUBSET Reaction] /\ loaded'[t] \subseteq reactions
      /\ \A u \in Tasks \ {t} : loaded'[u] = loaded[u]
  <2>1. loaded \in [Tasks -> SUBSET Reaction] /\ hearts \subseteq reactions /\ reactions \subseteq Reaction
    BY DEF SocialInv, TypeOK
  <2> HIDE DEF hearts
  <2> QED
    BY <1>1, <2>1
<1>4. TypeOK'
  BY <1>1, <1>2, <1>3 DEF SocialInv, TypeOK
<1>5. StageKnown(t) /\ (answer[t] \in {"match", "celebrate"} => call[t].target \in everMatched)
  BY DEF SocialInv, MatchesAnnounced, MatchIsMutual
<1>6. StageKnown(t)'
  BY <1>1, <1>2, <1>5 DEF StageKnown
<1>7. \A d \in Entries : Matched(reactions', d) => d \in everMatched'
  BY <1>1, SeenMatches
<1>8. /\ \A u \in Tasks \ {t} : /\ pc'[u] = pc[u] /\ call'[u] = call[u]
                               /\ loaded'[u] = loaded[u] /\ answer'[u] = answer[u]
      /\ \A r \in loaded'[t] : Inserted(r)'
  BY <1>1, <1>2, <1>3
<1>9. /\ answer'[t] \in {"match", "celebrate"} => call'[t].target \in everMatched'
      /\ answer'[t] = "celebrate" => answer[t] = "celebrate"
  BY <1>1, <1>2, <1>5
<1> QED
  BY <1>1, <1>2, <1>4, <1>6, <1>7, <1>8, <1>9, TaskStep

LEMMA CommitUncommentStep == ASSUME SocialInv, NEW t \in Tasks, CommitUncomment(t) PROVE SocialInv'
<1>1. /\ pc[t] = "commit" /\ call[t].op = "uncomment" /\ Goto(t, "done")
      /\ reactions' = reactions \ loaded[t]
      /\ comments' = [comments EXCEPT ![call[t].target] = None]
      /\ UNCHANGED <<seen, inbox, call, loaded, answer, everMatched>>
  BY DEF CommitUncomment
<1>2. /\ pc'[t] = "done" /\ pc' \in [Tasks -> PCs] /\ call'[t] = call[t]
      /\ \A u \in Tasks \ {t} : pc'[u] = pc[u] /\ call'[u] = call[u]
      /\ ~Settled(t) /\ \A u \in Tasks : \A r \in loaded[u] : Inserted(r)'
  BY <1>1, Went DEF PCs, Settled
<1>3. StageKnown(t) /\ (answer[t] \in {"match", "celebrate"} => call[t].target \in everMatched)
  BY DEF SocialInv, MatchesAnnounced, MatchIsMutual
<1>4. call[t].target \in Tasks
  BY <1>1, <1>3 DEF StageKnown
<1>5. /\ comments' \in [Tasks -> Tasks \cup {None}] /\ comments'[call[t].target] = None
      /\ \A d \in Tasks : comments[d] = None => comments'[d] = None
  BY <1>1, <1>4 DEF SocialInv, TypeOK
<1>6. TypeOK'
  BY <1>1, <1>2, <1>5 DEF SocialInv, TypeOK
<1>7. StageKnown(t)'
  BY <1>1, <1>2, <1>3 DEF StageKnown
<1>8. \A d \in Entries : Matched(reactions', d) => d \in everMatched'
  BY <1>1, SeenMatches
<1>9. /\ \A u \in Tasks \ {t} : /\ pc'[u] = pc[u] /\ call'[u] = call[u]
                               /\ loaded'[u] = loaded[u] /\ answer'[u] = answer[u]
      /\ \A r \in loaded'[t] : Inserted(r)'
  BY <1>1, <1>2
<1>10. /\ call'[t].op # "react" /\ loaded'[t] \cap reactions' = {}
       /\ comments'[call'[t].target] = None
       /\ answer'[t] \in {"match", "celebrate"} => call'[t].target \in everMatched'
       /\ answer'[t] = "celebrate" => answer[t] = "celebrate"
  BY <1>1, <1>2, <1>3, <1>5
<1> QED
  BY <1>1, <1>2, <1>5, <1>6, <1>7, <1>8, <1>9, <1>10, TaskStep

LEMMA DeleteReactionStep == ASSUME SocialInv, NEW t \in Tasks, DeleteReaction(t) PROVE SocialInv'
<1>1. /\ pc[t] = "delete" /\ Goto(t, "done") /\ reactions' = reactions \ loaded[t]
      /\ UNCHANGED <<comments, seen, inbox, call, loaded, answer, everMatched>>
  BY DEF DeleteReaction
<1>2. /\ pc'[t] = "done" /\ pc' \in [Tasks -> PCs] /\ call'[t] = call[t]
      /\ \A u \in Tasks \ {t} : pc'[u] = pc[u] /\ call'[u] = call[u]
      /\ ~Settled(t) /\ \A u \in Tasks : \A r \in loaded[u] : Inserted(r)'
  BY <1>1, Went DEF PCs, Settled
<1>3. StageKnown(t) /\ (answer[t] \in {"match", "celebrate"} => call[t].target \in everMatched)
  BY DEF SocialInv, MatchesAnnounced, MatchIsMutual
<1>4. TypeOK'
  BY <1>1, <1>2 DEF SocialInv, TypeOK
<1>5. StageKnown(t)'
  BY <1>1, <1>2, <1>3 DEF StageKnown
<1>6. \A d \in Entries : Matched(reactions', d) => d \in everMatched'
  BY <1>1, SeenMatches
<1>7. /\ \A u \in Tasks \ {t} : /\ pc'[u] = pc[u] /\ call'[u] = call[u]
                               /\ loaded'[u] = loaded[u] /\ answer'[u] = answer[u]
      /\ \A r \in loaded'[t] : Inserted(r)'
  BY <1>1, <1>2
<1>8. /\ call'[t].op \notin {"react", "uncomment"}
      /\ answer'[t] \in {"match", "celebrate"} => call'[t].target \in everMatched'
      /\ answer'[t] = "celebrate" => answer[t] = "celebrate"
  BY <1>1, <1>2, <1>3 DEF StageKnown
<1> QED
  BY <1>1, <1>2, <1>4, <1>5, <1>6, <1>7, <1>8, TaskStep

LEMMA InsertReactionStep == ASSUME SocialInv, NEW t \in Tasks, InsertReaction(t) PROVE SocialInv'
<1> DEFINE new == [id |-> t, target |-> call[t].target, emoji |-> call[t].emoji]
<1>1. PICK label \in {"notify", "failed"} :
        /\ Goto(t, label)
        /\ \/ /\ label = "notify" /\ reactions' = reactions \cup {new}
              /\ everMatched' = everMatched \cup {e \in Entries : Matched(reactions', e)}
           \/ UNCHANGED <<reactions, everMatched>>
  BY DEF InsertReaction
<1>2. pc[t] = "insert" /\ UNCHANGED <<comments, seen, inbox, call, loaded, answer>>
  BY DEF InsertReaction
<1>3. /\ pc'[t] = label /\ pc' \in [Tasks -> PCs] /\ call'[t] = call[t]
      /\ \A u \in Tasks \ {t} : pc'[u] = pc[u] /\ call'[u] = call[u]
      /\ ~Settled(t) /\ \A u \in Tasks : \A r \in loaded[u] : Inserted(r)'
  BY <1>1, <1>2, Went DEF PCs, Settled
<1>4. StageKnown(t) /\ (answer[t] \in {"match", "celebrate"} => call[t].target \in everMatched)
  BY DEF SocialInv, MatchesAnnounced, MatchIsMutual
<1>5. call[t].op = "react" /\ call[t].target \in Targets /\ call[t].emoji \in Emojis
  BY <1>2, <1>4 DEF StageKnown
<1>6. /\ new \in Reaction /\ new.id = t
      /\ call[t] = [op |-> "react", target |-> new.target, emoji |-> new.emoji]
  BY <1>5 DEF Reaction, SocialInv, TypeOK
<1> HIDE DEF new
<1>7. /\ \A r \in reactions' \ reactions : r = new /\ label = "notify"
      /\ reactions' \subseteq reactions \cup {new}
      /\ everMatched \subseteq everMatched' /\ everMatched' \subseteq Entries
      /\ \A e \in Entries : Matched(reactions', e) => e \in everMatched'
  BY <1>1 DEF SocialInv, TypeOK
<1>8. TypeOK'
  BY <1>2, <1>3, <1>6, <1>7 DEF SocialInv, TypeOK
<1>9. StageKnown(t)'
  BY <1>2, <1>3, <1>4, <1>5, <1>7 DEF StageKnown
<1>10. /\ \A u \in Tasks \ {t} : /\ pc'[u] = pc[u] /\ call'[u] = call[u]
                                /\ loaded'[u] = loaded[u] /\ answer'[u] = answer[u]
       /\ \A r \in loaded'[t] : Inserted(r)'
  BY <1>2, <1>3
<1>11. \A r \in reactions' \ reactions :
         r.id = t /\ pc[t] = "insert" /\ pc'[t] = "notify" /\ Inserted(r)'
  <2> SUFFICES ASSUME NEW r \in reactions' \ reactions
               PROVE  r.id = t /\ pc[t] = "insert" /\ pc'[t] = "notify" /\ Inserted(r)'
    OBVIOUS
  <2>1. r = new /\ label = "notify"
    BY <1>7
  <2>2. r.id = t /\ call[t] = [op |-> "react", target |-> r.target, emoji |-> r.emoji]
    BY <1>6, <2>1
  <2> QED
    BY <1>2, <1>3, <2>1, <2>2 DEF Inserted
<1>12. /\ pc'[t] # "done"
       /\ answer'[t] \in {"match", "celebrate"} => call'[t].target \in everMatched'
       /\ answer'[t] = "celebrate" => answer[t] = "celebrate"
  BY <1>2, <1>3, <1>4, <1>7
<1> QED
  BY <1>2, <1>3, <1>7, <1>8, <1>9, <1>10, <1>11, <1>12, TaskStep

-----------------------------------------------------------------------------
(* The theorems. *)

LEMMA InitSocial == Init => SocialInv
<1> SUFFICES ASSUME Init PROVE SocialInv
  OBVIOUS
<1>1. TypeOK
  BY DEF Init, TypeOK, NoCall, PCs
<1>2. ASSUME NEW t \in Tasks PROVE StageKnown(t) /\ \A r \in loaded[t] : Inserted(r)
  BY DEF Init, StageKnown, NoCall
<1>3. \A e \in Entries : ~Matched(reactions, e)
  <2>1. \E s : s \in Spouses
    BY SocialAssumption
  <2> QED
    BY <2>1 DEF Init, Matched
<1>4. MatchesAnnounced /\ CelebratedOnce /\ HeartsGoWithComment
  BY DEF Init, MatchesAnnounced, MatchAnnounced, MatchIsMutual, CelebratedOnce,
         HeartsGoWithComment, NoCall
<1> QED
  BY <1>1, <1>2, <1>3, <1>4 DEF SocialInv, Init

LEMMA NextSocial == SocialInv /\ [Next]_vars => SocialInv'
<1> SUFFICES ASSUME SocialInv, [Next]_vars PROVE SocialInv'
  OBVIOUS
<1>1. ASSUME NEW t \in Tasks, Start(t) PROVE SocialInv'
  <2>1. ASSUME NEW target \in Targets, NEW emoji \in Emojis,
               LoadReaction(t, target, emoji) \/ LoadUnreaction(t, target, emoji)
        PROVE  SocialInv'
    BY <2>1, LoadReactionStep, LoadUnreactionStep
  <2>2. ASSUME NEW e \in Entries, AskCelebration(t, e) \/ AddComment(t, e) PROVE SocialInv'
    BY <2>2, AskCelebrationStep, AddCommentStep
  <2>3. ASSUME NEW c \in Tasks, LoadComment(t, "edit", c) \/ LoadComment(t, "uncomment", c)
        PROVE  SocialInv'
    BY <2>3, LoadCommentStep
  <2> QED
    BY <1>1, <2>1, <2>2, <2>3 DEF Start
<1>2. ASSUME NEW t \in Tasks, Step(t) PROVE SocialInv'
  BY <1>2, InsertReactionStep, NotifyStep, CheckMatchStep, DeleteReactionStep, CheckSeenStep,
     CelebrateStep, CommitEditStep, LoadHeartsStep, CommitUncommentStep DEF Step
<1>3. CASE UNCHANGED vars
  <2>1. UNCHANGED <<reactions, comments, seen, inbox, pc, call, loaded, answer, everMatched>>
    BY <1>3 DEF vars
  <2>2. TypeOK'
    BY <2>1 DEF SocialInv, TypeOK
  <2>3. \A r : Inserted(r)' <=> Inserted(r)
    BY <2>1 DEF Inserted
  <2>4. \A t \in Tasks : StageKnown(t)' <=> StageKnown(t)
    BY <2>1 DEF StageKnown
  <2>5. \A e \in Entries : Matched(reactions, e)' => e \in everMatched'
    BY <2>1 DEF SocialInv, Matched
  <2>6. MatchesAnnounced'
    BY <2>1 DEF SocialInv, MatchesAnnounced, MatchAnnounced, MatchIsMutual
  <2>7. CelebratedOnce' /\ HeartsGoWithComment'
    BY <2>1 DEF SocialInv, CelebratedOnce, HeartsGoWithComment
  <2> QED
    BY <2>1, <2>2, <2>3, <2>4, <2>5, <2>6, <2>7 DEF SocialInv
<1> QED
  BY <1>1, <1>2, <1>3 DEF Next

\* social.py:32-225: a reaction row is always the doing of a request that has
\* inserted it and has yet to look for the match or has done so, and whatever
\* two spouses have hearted together is remembered.
THEOREM Invariance == Spec => []SocialInv
  BY InitSocial, NextSocial, PTL DEF Spec

\* social.py:62-69, 114-124: of two hearts that make a match one request at
\* least is answered match_formed, and no answer tells of a match, and no
\* celebration is shown, that there never was.
THEOREM MatchesAreAnnounced == Spec => []MatchesAnnounced
<1>1. SocialInv => MatchesAnnounced
  BY DEF SocialInv
<1> QED
  BY <1>1, Invariance, PTL

\* social.py:133-143: whatever a spouse's phones ask at the same time, the
\* celebration of an entry is answered to one request of that spouse.
THEOREM CelebratedOnlyOnce == Spec => []CelebratedOnce
<1>1. SocialInv => CelebratedOnce
  BY DEF SocialInv
<1> QED
  BY <1>1, Invariance, PTL

\* social.py:213-225: once a comment is deleted it is not there, whatever edits
\* of it are under way, and no heart the handler saw on it comes back.
THEOREM HeartsAreGone == Spec => []HeartsGoWithComment
<1>1. SocialInv => HeartsGoWithComment
  BY DEF SocialInv
<1> QED
  BY <1>1, Invariance, PTL
=============================================================================
