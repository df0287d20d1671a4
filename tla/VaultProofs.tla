----------------------------- MODULE VaultProofs -----------------------------
(***************************************************************************)
(* Proofs about Vault, for any number of spouses' requests: the audit      *)
(* trail explains what every entry says and where it is, and a text that   *)
(* was asked for gets into its entry only with the other spouse's consent. *)
(***************************************************************************)
EXTENDS Vault, TLAPS

Settled(t) == pc[t] \in {"notify", "done"}

Row == [row : Rows, by : Tasks, entry : Tasks]

\* Every row of the trail is the doing of a request that is through.
LEMMA RowFacts ==
  ASSUME VaultInv, NEW i \in 1 .. Len(trail)
  PROVE  /\ trail[i] \in Row /\ trail[i].by \in Tasks
         /\ Settled(trail[i].by) /\ pc[trail[i].by] # "new"
         /\ RowKnown(trail[i])
<1>1. trail \in Seq(Row)
  BY DEF VaultInv, TypeOK, Row
<1>2. trail[i] \in Row
  BY <1>1
<1>3. trail[i].by \in Tasks
  BY <1>2 DEF Row
<1>4. RowKnown(trail[i])
  BY DEF VaultInv
<1> QED
  BY <1>2, <1>3, <1>4 DEF RowKnown, Settled

-----------------------------------------------------------------------------
(* Steps that write nothing to the vault. *)

\* A request that is loading, or through: what is known of rows and of other
\* requests stays; of the request itself it is left to show.
LEMMA QuietStep ==
  ASSUME VaultInv, NEW t \in Tasks, TypeOK',
         UNCHANGED <<text, trashed, consent, trail>>,
         \A u \in Tasks \ {t} : pc'[u] = pc[u] /\ call'[u] = call[u] /\ loaded'[u] = loaded[u],
         pc[t] # "new" => call'[t] = call[t],
         Settled(t) => Settled(t)',
         TaskKnown(t)'
  PROVE  VaultInv'
<1>1. ASSUME NEW u \in Tasks, pc[u] # "new" PROVE EntryOf(u)' = EntryOf(u) /\ RowOf(u)' = RowOf(u)
  <2>1. call'[u] = call[u]
    BY <1>1
  <2> QED
    BY <2>1 DEF EntryOf, RowOf
<1>2. \A e, kinds : RowsOf(e, kinds)' = RowsOf(e, kinds)
  BY DEF RowsOf
<1>3. ASSUME NEW i \in 1 .. Len(trail)
      PROVE  /\ trail[i].by \in Tasks /\ Settled(trail[i].by) /\ RowKnown(trail[i])
             /\ Written(trail[i])' = Written(trail[i])
  <2>1. trail[i].by \in Tasks /\ RowKnown(trail[i]) /\ pc[trail[i].by] # "new" /\ Settled(trail[i].by)
    BY RowFacts
  <2>2. call'[trail[i].by] = call[trail[i].by]
    BY <2>1
  <2> QED
    BY <2>1, <2>2 DEF Written
<1>4. ASSUME NEW i \in 1 .. Len(trail) PROVE RowKnown(trail[i])'
  <2> DEFINE u == trail[i].by
  <2>1. u \in Tasks /\ Settled(u) /\ RowKnown(trail[i])
    BY <1>3
  <2>2. Settled(u)' /\ EntryOf(u)' = EntryOf(u) /\ RowOf(u)' = RowOf(u)
    BY <1>1, <2>1 DEF Settled
  <2> QED
    BY <2>1, <2>2 DEF RowKnown, Settled
<1>5. ASSUME NEW u \in Tasks \ {t} PROVE TaskKnown(u)'
  <2>1. TaskKnown(u) /\ pc'[u] = pc[u] /\ call'[u] = call[u] /\ loaded'[u] = loaded[u]
    BY DEF VaultInv
  <2>2. EntryOf(u)' = EntryOf(u)
    BY <2>1 DEF EntryOf
  <2>3. ASSUME pc[u] = "commit", call[u].op = "approve"
        PROVE  /\ \E i \in RowsOf(EntryOf(u), TextRows) : Written(trail[i])' = loaded[u].text
               /\ loaded[u].trashed => RowsOf(EntryOf(u), Deletions) # {}
    <3>1. PICK i \in RowsOf(EntryOf(u), TextRows) : Written(trail[i]) = loaded[u].text
      BY <2>1, <2>3 DEF TaskKnown
    <3>2. i \in 1 .. Len(trail)
      BY DEF RowsOf
    <3> QED
      BY <1>3, <2>1, <2>3, <3>1, <3>2 DEF TaskKnown
  <2> QED
    BY <1>2, <2>1, <2>2, <2>3 DEF TaskKnown
<1>6. ASSUME NEW c \in Tasks PROVE ConsentKnown(c)'
  <2>1. ConsentKnown(c)
    BY DEF VaultInv
  <2> QED
    BY <2>1 DEF ConsentKnown, Settled
<1>7. ASSUME NEW e \in Tasks PROVE EntryKnown(e)'
  <2>1. EntryKnown(e)
    BY DEF VaultInv
  <2>2. CASE text[e] = None
    BY <2>1, <2>2 DEF EntryKnown
  <2>3. CASE text[e] # None
    <3>1. Settled(e) /\ call[e].op = "create"
      BY <2>1, <2>3 DEF EntryKnown, Settled
    <3>2. Settled(e)' /\ call'[e] = call[e]
      BY <3>1 DEF Settled
    <3>3. PICK i \in RowsOf(e, TextRows) : Written(trail[i]) = text[e]
      BY <2>1, <2>3 DEF EntryKnown
    <3>4. Written(trail[i])' = text[e]
      BY <1>3, <3>3 DEF RowsOf
    <3> QED
      BY <1>2, <2>3, <3>1, <3>2, <3>3, <3>4 DEF EntryKnown, Settled
  <2> QED
    BY <2>2, <2>3
<1>8. TrailTellsText'
  <2> SUFFICES ASSUME NEW e \in Tasks, text[e] # None
               PROVE  \E last \in RowsOf(e, TextRows) :
                        /\ \A i \in RowsOf(e, TextRows) : i <= last
                        /\ \/ text[e] = Written(trail[last])'
                           \/ /\ trail[last].row = "edit_approve"
                              /\ \E i \in RowsOf(e, {"edit_approve"}) :
                                   i < last /\ Written(trail[i])' = Written(trail[last])'
    BY <1>2 DEF TrailTellsText
  <2>1. \A kinds : \A i \in RowsOf(e, kinds) : Written(trail[i])' = Written(trail[i])
    BY <1>3 DEF RowsOf
  <2> QED
    BY <2>1 DEF VaultInv, TrailTellsText
<1>9. TrailTellsTrash'
  BY <1>2 DEF VaultInv, TrailTellsTrash
<1> QED
  BY <1>4, <1>5, <1>6, <1>7, <1>8, <1>9 DEF VaultInv

LEMMA IdleStep ==
  ASSUME VaultInv, UNCHANGED <<text, trashed, consent, trail, inbox, pc, call, loaded>>,
         joined' \subseteq Spouses
  PROVE  VaultInv'
<1>1. UNCHANGED <<text, trashed, consent, trail, inbox, pc, call, loaded>> /\ TypeOK'
  BY DEF VaultInv, TypeOK
<1>2. CASE Tasks = {}
  BY <1>1, <1>2 DEF VaultInv, TypeOK, TrailTellsText, TrailTellsTrash, RowKnown, RowOf, EntryOf
<1>3. CASE Tasks # {}
  <2>1. PICK t \in Tasks : TRUE
    BY <1>3
  <2>2. EntryOf(t)' = EntryOf(t) /\ \A e, kinds : RowsOf(e, kinds)' = RowsOf(e, kinds)
    BY <1>1 DEF EntryOf, RowsOf
  <2>3. \A r : Written(r)' = Written(r)
    BY <1>1 DEF Written
  <2>4. TaskKnown(t)'
    BY <1>1, <2>2, <2>3 DEF VaultInv, TaskKnown
  <2> QED
    BY <1>1, <2>4, QuietStep DEF Settled
<1> QED
  BY <1>2, <1>3

LEMMA JoinStep == ASSUME VaultInv, NEW s \in Spouses, Join(s) PROVE VaultInv'
<1>1. joined' \subseteq Spouses
  BY DEF Join, VaultInv, TypeOK
<1> QED
  BY <1>1, IdleStep DEF Join, dbVars

LEMMA BeginStep == ASSUME VaultInv, NEW t \in Tasks, BeginCreate(t) PROVE VaultInv'
<1>1. /\ UNCHANGED <<joined, text, trashed, consent, trail, inbox, loaded>>
      /\ pc[t] = "new" /\ pc' = [pc EXCEPT ![t] = "commit"]
      /\ call' = [call EXCEPT ![t] = [op |-> "create", target |-> t]]
  BY DEF BeginCreate, Goto, dbVars
<1>2. [op |-> "create", target |-> t] \in [op : Ops \cup {"none"}, target : Tasks \cup {None}]
  BY DEF Ops
<1>3. TypeOK'
  BY <1>1, <1>2 DEF VaultInv, TypeOK
<1>4. /\ pc'[t] = "commit" /\ call'[t] = [op |-> "create", target |-> t]
      /\ \A u \in Tasks \ {t} : pc'[u] = pc[u] /\ call'[u] = call[u]
  BY <1>1 DEF VaultInv, TypeOK
<1>5. text[t] = None
  BY <1>1 DEF VaultInv, EntryKnown
<1>6. TaskKnown(t)'
  BY <1>1, <1>4, <1>5 DEF TaskKnown, Decisions
<1> QED
  BY <1>1, <1>3, <1>4, <1>6, QuietStep DEF Settled

\* What the SELECT finds in entry e is explained by the trail.
LEMMA LoadedKnown ==
  ASSUME VaultInv, NEW e \in Tasks, text[e] # None
  PROVE  /\ \E i \in RowsOf(e, TextRows) : Written(trail[i]) = Entry(e).text
         /\ Entry(e).trashed => RowsOf(e, Deletions) # {}
<1>1. EntryKnown(e)
  BY DEF VaultInv
<1>2. e \in trashed => RowsOf(e, Deletions) # {}
  BY DEF VaultInv, TrailTellsTrash
<1> QED
  BY <1>1, <1>2 DEF EntryKnown, Entry

LEMMA LoadStep ==
  ASSUME VaultInv, NEW t \in Tasks, NEW op \in EntryOps, NEW e \in Tasks, Load(t, op, e)
  PROVE  VaultInv'
<1>1. /\ UNCHANGED <<joined, text, trashed, consent, trail, inbox>>
      /\ pc[t] = "new" /\ text[e] # None
      /\ pc' = [pc EXCEPT ![t] = IF Selectable(op, e) THEN "commit" ELSE "refused"]
      /\ call' = [call EXCEPT ![t] = [op |-> op, target |-> e]]
      /\ loaded' = [loaded EXCEPT ![t] = Entry(e)]
  BY DEF Load, Goto, dbVars
<1>2. [op |-> op, target |-> e] \in [op : Ops \cup {"none"}, target : Tasks \cup {None}]
  BY DEF Ops
<1>3. Entry(e) \in [text : Tasks \cup {None}, trashed : BOOLEAN]
  BY DEF Entry, VaultInv, TypeOK
<1>4. TypeOK'
  BY <1>1, <1>2, <1>3 DEF VaultInv, TypeOK
<1>5. /\ pc'[t] \in {"commit", "refused"} /\ call'[t] = [op |-> op, target |-> e]
      /\ \A u \in Tasks \ {t} : pc'[u] = pc[u] /\ call'[u] = call[u] /\ loaded'[u] = loaded[u]
  BY <1>1 DEF VaultInv, TypeOK
<1>6. op \notin Decisions /\ op # "create" /\ op # "none"
  BY DEF EntryOps, Decisions
<1>7. EntryOf(t)' = e
  BY <1>5, <1>6 DEF EntryOf
<1>8. TaskKnown(t)'
  BY <1>1, <1>5, <1>6, <1>7 DEF TaskKnown, Decisions
<1> QED
  BY <1>1, <1>4, <1>5, <1>8, QuietStep DEF Settled

LEMMA LoadConsentStep ==
  ASSUME VaultInv, NEW t \in Tasks, NEW op \in {"approve", "reject"}, NEW c \in Tasks,
         LoadConsent(t, op, c)
  PROVE  VaultInv'
<1>1. /\ UNCHANGED <<joined, text, trashed, consent, trail, inbox, loaded>>
      /\ pc[t] = "new" /\ consent[c] # NoConsent
      /\ call' = [call EXCEPT ![t] = [op |-> op, target |-> c]]
  BY DEF LoadConsent, dbVars
<1>2. PICK label \in {"decide", "refused"} :
        pc' = [pc EXCEPT ![t] = label] /\ (label = "decide" => SpouseOf[c] # SpouseOf[t])
  BY DEF LoadConsent, Goto
<1>3. [op |-> op, target |-> c] \in [op : Ops \cup {"none"}, target : Tasks \cup {None}]
  BY DEF Ops
<1>4. TypeOK'
  BY <1>1, <1>2, <1>3 DEF VaultInv, TypeOK
<1>5. /\ pc'[t] = label /\ call'[t] = [op |-> op, target |-> c]
      /\ \A u \in Tasks \ {t} : pc'[u] = pc[u] /\ call'[u] = call[u]
  BY <1>1, <1>2 DEF VaultInv, TypeOK
<1>6. EntryOf(t)' = consent[c].entry /\ text[consent[c].entry] # None
  <2>1. EntryOf(t)' = consent[c].entry
    BY <1>1, <1>5 DEF EntryOf, Decisions
  <2>2. ConsentKnown(c) /\ TaskKnown(c)
    BY DEF VaultInv
  <2> QED
    BY <1>1, <2>1, <2>2 DEF ConsentKnown, TaskKnown, EntryOf, Decisions
<1>7. TaskKnown(t)'
  BY <1>1, <1>2, <1>5, <1>6 DEF TaskKnown, Decisions
<1> QED
  BY <1>1, <1>2, <1>4, <1>5, <1>7, QuietStep DEF Settled

LEMMA LoadDecidedStep == ASSUME VaultInv, NEW t \in Tasks, LoadDecidedEntry(t) PROVE VaultInv'
<1> DEFINE e == consent[call[t].target].entry
<1>1. /\ UNCHANGED <<joined, text, trashed, consent, trail, inbox, call>>
      /\ pc[t] = "decide" /\ pc' = [pc EXCEPT ![t] = "commit"]
      /\ loaded' = [loaded EXCEPT ![t] = Entry(e)]
  BY DEF LoadDecidedEntry, Goto, dbVars
<1>2. TaskKnown(t)
  BY DEF VaultInv
<1>3. /\ call[t].op \in Decisions /\ call[t].target \in Tasks /\ EntryOf(t) = e
      /\ consent[call[t].target] # NoConsent /\ text[e] # None
  BY <1>1, <1>2 DEF TaskKnown, EntryOf, Decisions
<1>4. e \in Tasks
  <2>1. ConsentKnown(call[t].target) /\ TaskKnown(call[t].target)
    BY <1>3 DEF VaultInv
  <2> QED
    BY <1>3, <2>1 DEF ConsentKnown, TaskKnown
<1>5. Entry(e) \in [text : Tasks \cup {None}, trashed : BOOLEAN]
  BY <1>4 DEF Entry, VaultInv, TypeOK
<1>6. TypeOK'
  <2> HIDE DEF e
  <2> QED
    BY <1>1, <1>5 DEF VaultInv, TypeOK
<1>7. /\ pc'[t] = "commit" /\ loaded'[t] = Entry(e)
      /\ \A u \in Tasks \ {t} : pc'[u] = pc[u] /\ loaded'[u] = loaded[u]
  <2> HIDE DEF e
  <2> QED
    BY <1>1 DEF VaultInv, TypeOK
<1>8. EntryOf(t)' = e /\ e' = e /\ \A d, kinds : RowsOf(d, kinds)' = RowsOf(d, kinds)
  BY <1>1, <1>3 DEF EntryOf, RowsOf
<1>9. /\ \E i \in RowsOf(e, TextRows) : Written(trail[i]) = Entry(e).text
      /\ Entry(e).trashed => RowsOf(e, Deletions) # {}
  BY <1>3, <1>4, LoadedKnown
<1>10. TaskKnown(t)'
  <2> HIDE DEF e
  <2>1. call' = call /\ call[t].op # "create" /\ call[t].op # "none"
    BY <1>1, <1>3 DEF Decisions
  <2>2. /\ \E i \in RowsOf(EntryOf(t), TextRows)' : Written(trail[i])' = loaded'[t].text
        /\ loaded'[t].trashed => RowsOf(EntryOf(t), Deletions)' # {}
    <3>1. RowsOf(EntryOf(t), TextRows)' = RowsOf(e, TextRows)
      BY <1>1, <1>8 DEF TextRows, RowsOf
    <3>2. RowsOf(EntryOf(t), Deletions)' = RowsOf(e, Deletions)
      BY <1>1, <1>8 DEF Deletions, RowsOf
    <3>3. \A i : Written(trail[i])' = Written(trail[i])
      BY <1>1 DEF Written
    <3> QED
      BY <1>7, <1>9, <3>1, <3>2, <3>3
  <2>3. text'[EntryOf(t)'] # None
    BY <1>1, <1>3, <1>8
  <2>4. /\ consent'[call'[t].target] # NoConsent
        /\ SpouseOf[call'[t].target] # SpouseOf[t]
    BY <1>1, <1>2, <1>3 DEF TaskKnown
  <2> QED
    BY <1>3, <1>7, <2>1, <2>2, <2>3, <2>4 DEF TaskKnown
<1> QED
  BY <1>1, <1>6, <1>7, <1>10, QuietStep DEF Settled

LEMMA NotifyStep == ASSUME VaultInv, NEW t \in Tasks, Notify(t) PROVE VaultInv'
<1>1. /\ UNCHANGED <<joined, text, trashed, consent, trail, call, loaded>>
      /\ pc[t] = "notify" /\ pc' = [pc EXCEPT ![t] = "done"]
  BY DEF Notify, Goto
<1>2. inbox' \subseteq Spouses \X Tasks
  <2>1. joined \subseteq Spouses /\ inbox \subseteq Spouses \X Tasks
    BY DEF VaultInv, TypeOK
  <2> QED
    BY <2>1 DEF Notify
<1>3. TypeOK'
  BY <1>1, <1>2 DEF VaultInv, TypeOK
<1>4. pc'[t] = "done" /\ \A u \in Tasks \ {t} : pc'[u] = pc[u]
  BY <1>1 DEF VaultInv, TypeOK
<1>5. EntryOf(t)' = EntryOf(t)
  BY <1>1 DEF EntryOf
<1>6. TaskKnown(t)'
  BY <1>1, <1>4, <1>5 DEF VaultInv, TaskKnown
<1> QED
  BY <1>1, <1>3, <1>4, <1>6, QuietStep DEF Settled

-----------------------------------------------------------------------------
(* The commits. *)

\* What the row of t's commit puts, or is to put, into its entry.
NewText(t) == IF RowOf(t) = "edit_approve" THEN call[t].target ELSE t

\* What a commit does to its entry, to the others and to the consent rows.
TextEffect(t) ==
  \/ RowOf(t) \in TextRows /\ text'[EntryOf(t)] = NewText(t)
  \/ /\ RowOf(t) = "edit_approve" /\ call[t].op = "approve"
     /\ text'[EntryOf(t)] = text[EntryOf(t)] /\ loaded[t].text = NewText(t)
  \/ RowOf(t) \notin TextRows /\ text'[EntryOf(t)] = text[EntryOf(t)]

TrashEffect(t) ==
  \/ RowOf(t) \in Deletions /\ EntryOf(t) \in trashed'
  \/ /\ RowOf(t) = "delete_approve" /\ call[t].op = "approve" /\ loaded[t].trashed
     /\ (EntryOf(t) \in trashed' <=> EntryOf(t) \in trashed)
  \/ RowOf(t) = "restore" /\ EntryOf(t) \notin trashed'
  \/ /\ RowOf(t) \notin Deletions \cup {"restore"}
     /\ (EntryOf(t) \in trashed' <=> EntryOf(t) \in trashed)

OthersKept(t) ==
  \A e \in Tasks \ {EntryOf(t)} : text'[e] = text[e] /\ (e \in trashed' <=> e \in trashed)

ConsentEffect(t) ==
  \A c \in Tasks :
    IF consent[c] # NoConsent
      THEN /\ consent'[c] # NoConsent
           /\ consent'[c].entry = consent[c].entry /\ consent'[c].action = consent[c].action
      ELSE consent'[c] # NoConsent =>
             /\ c = t /\ call[t].op \in {"edit_request", "delete_request"}
             /\ consent'[c].entry = call[t].target /\ consent'[c].action # "none"

Effect(t) == TextEffect(t) /\ TrashEffect(t) /\ OthersKept(t) /\ ConsentEffect(t)

ConsentRow == [entry : Tasks \cup {None}, action : {"none", "edit", "delete"},
               status : {"none", "pending", "approved", "rejected"},
               resolvedBy : Spouses \cup {None}]

\* Who is committing, and what about.
LEMMA Committing ==
  ASSUME VaultInv, NEW t \in Tasks, pc[t] = "commit"
  PROVE  /\ call[t].target \in Tasks /\ EntryOf(t) \in Tasks /\ call[t].op \in Ops
         /\ IF call[t].op = "create" THEN call[t].target = t /\ text[t] = None
                                     ELSE text[EntryOf(t)] # None
         /\ consent[t] = NoConsent
         /\ call[t].op \in Decisions =>
              /\ consent[call[t].target] # NoConsent
              /\ consent[call[t].target].action \in {"edit", "delete"}
<1>1. TaskKnown(t) /\ ConsentKnown(t)
  BY DEF VaultInv
<1>2. consent[t] = NoConsent
  BY <1>1 DEF ConsentKnown
<1>3. /\ call[t].target \in Tasks /\ call[t].op \in Ops
      /\ IF call[t].op = "create" THEN call[t].target = t /\ text[t] = None
                                  ELSE text[EntryOf(t)] # None
  BY <1>1 DEF TaskKnown, VaultInv, TypeOK
<1>4. ASSUME call[t].op \in Decisions
      PROVE  /\ consent[call[t].target] # NoConsent
             /\ consent[call[t].target].action \in {"edit", "delete"}
             /\ consent[call[t].target].entry \in Tasks
  <2>1. consent[call[t].target] # NoConsent /\ consent[call[t].target] \in ConsentRow
    BY <1>1, <1>3, <1>4 DEF TaskKnown, VaultInv, TypeOK, ConsentRow
  <2>2. ConsentKnown(call[t].target) /\ TaskKnown(call[t].target)
    BY <1>3 DEF VaultInv
  <2> QED
    BY <2>1, <2>2 DEF ConsentKnown, TaskKnown, ConsentRow
<1>5. EntryOf(t) \in Tasks
  BY <1>3, <1>4 DEF EntryOf
<1> QED
  BY <1>2, <1>3, <1>4, <1>5

\* The six commits that are not decisions.
LEMMA PlainEffects ==
  ASSUME VaultInv, NEW t \in Tasks, pc[t] = "commit",
         \/ CommitCreate(t) \/ CommitView(t) \/ CommitEdit(t) \/ CommitDelete(t)
         \/ CommitRestore(t) \/ CommitRequest(t)
  PROVE  /\ Effect(t)
         /\ trail' = Append(trail, [row |-> RowOf(t), by |-> t, entry |-> EntryOf(t)])
         /\ text' \in [Tasks -> Tasks \cup {None}] /\ trashed' \subseteq Tasks
         /\ consent' \in [Tasks -> ConsentRow] /\ RowOf(t) \in Rows
<1> DEFINE e == call[t].target
<1>1. /\ call[t].op \in {"create", "view", "edit", "delete", "restore", "edit_request", "delete_request"}
      /\ e \in Tasks /\ consent[t] = NoConsent /\ (call[t].op = "create" => e = t)
  BY Committing DEF CommitCreate, CommitView, CommitEdit, CommitDelete, CommitRestore, CommitRequest
<1>2. EntryOf(t) = e /\ RowOf(t) = call[t].op /\ NewText(t) = t
  BY <1>1 DEF EntryOf, RowOf, NewText, Decisions
<1>3. /\ text \in [Tasks -> Tasks \cup {None}] /\ trashed \subseteq Tasks
      /\ consent \in [Tasks -> ConsentRow]
  BY DEF VaultInv, TypeOK, ConsentRow
<1>4. trail' = Append(trail, [row |-> RowOf(t), by |-> t, entry |-> EntryOf(t)])
  BY <1>1, <1>2 DEF CommitCreate, CommitView, CommitEdit, CommitDelete, CommitRestore, CommitRequest, Log
<1>5. /\ TextEffect(t) /\ text' \in [Tasks -> Tasks \cup {None}]
      /\ \A d \in Tasks \ {e} : text'[d] = text[d]
  <2>1. CASE call[t].op \in {"create", "edit"}
    <3>1. text' = [text EXCEPT ![e] = t]
      BY <1>1, <2>1 DEF CommitCreate, CommitView, CommitEdit, CommitDelete, CommitRestore, CommitRequest
    <3> HIDE DEF e
    <3> QED
      BY <1>1, <1>2, <1>3, <2>1, <3>1 DEF TextEffect, TextRows
  <2>2. CASE call[t].op \notin {"create", "edit"}
    <3>1. text' = text
      BY <2>2 DEF CommitCreate, CommitView, CommitEdit, CommitDelete, CommitRestore, CommitRequest
    <3> QED
      BY <1>1, <1>2, <1>3, <2>2, <3>1 DEF TextEffect, TextRows
  <2> QED
    BY <2>1, <2>2
<1>6. /\ TrashEffect(t) /\ trashed' \subseteq Tasks
      /\ \A d \in Tasks \ {e} : d \in trashed' <=> d \in trashed
  BY <1>1, <1>2, <1>3 DEF TrashEffect, Deletions, CommitCreate, CommitView, CommitEdit,
                          CommitDelete, CommitRestore, CommitRequest
<1>7. ConsentEffect(t) /\ consent' \in [Tasks -> ConsentRow]
  <2>1. CASE CommitRequest(t)
    <3> DEFINE new == [entry |-> e, status |-> "pending", resolvedBy |-> None,
                       action |-> IF call[t].op = "edit_request" THEN "edit" ELSE "delete"]
    <3>1. consent' = [consent EXCEPT ![t] = new] /\ call[t].op \in {"edit_request", "delete_request"}
      BY <2>1 DEF CommitRequest
    <3>2. new \in ConsentRow /\ new.entry = e /\ new.action # "none"
      BY <1>1 DEF ConsentRow
    <3> HIDE DEF new
    <3> QED
      BY <1>1, <1>3, <3>1, <3>2 DEF ConsentEffect
  <2>2. CASE UNCHANGED consent
    BY <1>3, <2>2 DEF ConsentEffect
  <2> QED
    BY <2>1, <2>2 DEF CommitCreate, CommitView, CommitEdit, CommitDelete, CommitRestore
<1>8. RowOf(t) \in Rows
  BY <1>1, <1>2 DEF Rows
<1> QED
  BY <1>2, <1>4, <1>5, <1>6, <1>7, <1>8 DEF Effect, OthersKept

LEMMA DecisionEffects ==
  ASSUME VaultInv, NEW t \in Tasks, pc[t] = "commit", CommitApprove(t) \/ CommitReject(t)
  PROVE  /\ Effect(t)
         /\ trail' = Append(trail, [row |-> RowOf(t), by |-> t, entry |-> EntryOf(t)])
         /\ text' \in [Tasks -> Tasks \cup {None}] /\ trashed' \subseteq Tasks
         /\ consent' \in [Tasks -> ConsentRow] /\ RowOf(t) \in Rows
<1> DEFINE c == call[t].target
           e == consent[c].entry
<1>1. call[t].op \in Decisions
  BY DEF CommitApprove, CommitReject, Decisions
<1>2. /\ c \in Tasks /\ EntryOf(t) = e /\ e \in Tasks
      /\ consent[c] # NoConsent /\ consent[c].action \in {"edit", "delete"}
  BY <1>1, Committing DEF EntryOf
<1>3. /\ text \in [Tasks -> Tasks \cup {None}] /\ trashed \subseteq Tasks
      /\ consent \in [Tasks -> ConsentRow] /\ SpouseOf[t] \in Spouses
  BY VaultAssumption DEF VaultInv, TypeOK, ConsentRow
<1>4. PICK status \in {"approved", "rejected"} :
        consent' = [consent EXCEPT ![c].status = status, ![c].resolvedBy = SpouseOf[t]]
  BY DEF CommitApprove, CommitReject
<1>5. consent' \in [Tasks -> ConsentRow]
  BY <1>2, <1>3, <1>4 DEF ConsentRow
<1>6. ConsentEffect(t)
  <2>1. /\ consent'[c].status = status /\ consent'[c].entry = consent[c].entry
        /\ consent'[c].action = consent[c].action
    BY <1>2, <1>3, <1>4 DEF ConsentRow
  <2>2. consent'[c] # NoConsent
    BY <2>1 DEF NoConsent
  <2>3. \A d \in Tasks \ {c} : consent'[d] = consent[d]
    BY <1>2, <1>3, <1>4
  <2> QED
    BY <1>2, <2>1, <2>2, <2>3 DEF ConsentEffect
<1>7. CASE CommitApprove(t)
  <2>1. /\ call[t].op = "approve"
        /\ text' = IF consent[c].action = "edit" /\ loaded[t].text # c
                     THEN [text EXCEPT ![e] = c] ELSE text
        /\ trashed' = IF consent[c].action = "delete" /\ ~loaded[t].trashed
                        THEN trashed \cup {e} ELSE trashed
        /\ trail' = Append(trail, [row |-> IF consent[c].action = "edit" THEN "edit_approve" ELSE "delete_approve",
                                    by |-> t, entry |-> e])
    BY <1>7 DEF CommitApprove, Log
  <2>2. RowOf(t) = IF consent[c].action = "edit" THEN "edit_approve" ELSE "delete_approve"
    BY <2>1 DEF RowOf, Decisions
  <2>3. consent[c].action = "edit" => NewText(t) = c
    BY <2>2 DEF NewText
  <2>4. /\ TextEffect(t) /\ text' \in [Tasks -> Tasks \cup {None}]
        /\ \A d \in Tasks \ {e} : text'[d] = text[d]
    <3>1. CASE consent[c].action = "edit" /\ loaded[t].text # c
      <4>1. text' = [text EXCEPT ![e] = c]
        BY <2>1, <3>1
      <4> HIDE DEF e, c
      <4> QED
        BY <1>2, <1>3, <2>2, <2>3, <3>1, <4>1 DEF TextEffect, TextRows
    <3>2. CASE ~(consent[c].action = "edit" /\ loaded[t].text # c)
      <4>1. text' = text
        BY <2>1, <3>2
      <4> HIDE DEF e, c
      <4> QED
        BY <1>2, <1>3, <2>1, <2>2, <2>3, <3>2, <4>1 DEF TextEffect, TextRows
    <3> QED
      BY <3>1, <3>2
  <2>5. /\ TrashEffect(t) /\ trashed' \subseteq Tasks
        /\ \A d \in Tasks \ {e} : d \in trashed' <=> d \in trashed
    <3> HIDE DEF e, c
    <3> QED
      BY <1>2, <1>3, <2>1, <2>2 DEF TrashEffect, Deletions
  <2>6. trail' = Append(trail, [row |-> RowOf(t), by |-> t, entry |-> EntryOf(t)]) /\ RowOf(t) \in Rows
    BY <1>2, <2>1, <2>2 DEF Rows
  <2> QED
    BY <1>2, <1>5, <1>6, <2>4, <2>5, <2>6 DEF Effect, OthersKept
<1>8. CASE CommitReject(t)
  <2>1. /\ call[t].op = "reject" /\ UNCHANGED <<text, trashed>>
        /\ trail' = Append(trail, [row |-> IF consent[c].action = "edit" THEN "edit_reject" ELSE "delete_reject",
                                    by |-> t, entry |-> e])
    BY <1>8 DEF CommitReject, Log
  <2>2. RowOf(t) = IF consent[c].action = "edit" THEN "edit_reject" ELSE "delete_reject"
    BY <2>1 DEF RowOf, Decisions
  <2>3. trail' = Append(trail, [row |-> RowOf(t), by |-> t, entry |-> EntryOf(t)]) /\ RowOf(t) \in Rows
    BY <1>2, <2>1, <2>2 DEF Rows
  <2>4. TextEffect(t) /\ TrashEffect(t) /\ OthersKept(t)
    BY <2>1, <2>2 DEF TextEffect, TrashEffect, OthersKept, TextRows, Deletions
  <2> QED
    BY <1>3, <1>5, <1>6, <2>1, <2>3, <2>4 DEF Effect
<1> QED
  BY <1>7, <1>8

\* What every commit does.
LEMMA Committed ==
  ASSUME VaultInv, NEW t \in Tasks, Commit(t)
  PROVE  /\ TypeOK' /\ Effect(t)
         /\ pc[t] = "commit" /\ Settled(t)' /\ \A u \in Tasks \ {t} : pc'[u] = pc[u]
         /\ UNCHANGED <<joined, inbox, call, loaded>>
         /\ Len(trail) \in Nat /\ Len(trail') = Len(trail) + 1
         /\ \A i \in 1 .. Len(trail) : trail'[i] = trail[i]
         /\ trail'[Len(trail) + 1] = [row |-> RowOf(t), by |-> t, entry |-> EntryOf(t)]
<1> DEFINE new == [row |-> RowOf(t), by |-> t, entry |-> EntryOf(t)]
<1>1. pc[t] = "commit" /\ UNCHANGED <<joined, inbox, call, loaded>>
  BY DEF Commit
<1>2. PICK label \in {"done", "notify"} : pc' = [pc EXCEPT ![t] = label]
  BY DEF Commit, Goto
<1>3. /\ Effect(t) /\ trail' = Append(trail, new)
      /\ text' \in [Tasks -> Tasks \cup {None}] /\ trashed' \subseteq Tasks
      /\ consent' \in [Tasks -> ConsentRow] /\ RowOf(t) \in Rows
  <2>1. CASE CommitApprove(t) \/ CommitReject(t)
    BY <1>1, <2>1, DecisionEffects
  <2>2. CASE \/ CommitCreate(t) \/ CommitView(t) \/ CommitEdit(t) \/ CommitDelete(t)
             \/ CommitRestore(t) \/ CommitRequest(t)
    BY <1>1, <2>2, PlainEffects
  <2> QED
    BY <2>1, <2>2 DEF Commit
<1>4. new \in Row
  BY <1>1, <1>3, Committing DEF Row
<1>5. trail \in Seq(Row) /\ pc \in [Tasks -> {"new", "decide", "commit", "notify", "done", "refused"}]
  BY DEF VaultInv, TypeOK, Row
<1>6. /\ pc' \in [Tasks -> {"new", "decide", "commit", "notify", "done", "refused"}]
      /\ Settled(t)' /\ \A u \in Tasks \ {t} : pc'[u] = pc[u]
  BY <1>2, <1>5 DEF Settled
<1> HIDE DEF new
<1>7. /\ trail' \in Seq(Row) /\ Len(trail) \in Nat /\ Len(trail') = Len(trail) + 1
      /\ \A i \in 1 .. Len(trail) : trail'[i] = trail[i]
      /\ trail'[Len(trail) + 1] = new
  BY <1>3, <1>4, <1>5
<1>8. TypeOK'
  BY <1>1, <1>3, <1>6, <1>7 DEF VaultInv, TypeOK, ConsentRow, Row
<1> QED
  BY <1>1, <1>3, <1>6, <1>7, <1>8 DEF new

\* The rows there are keep their meaning, and there is one more.
LEMMA RowsGrow ==
  ASSUME VaultInv, NEW t \in Tasks, Commit(t)
  PROVE  /\ \A u \in Tasks : pc[u] \in {"decide", "commit", "notify", "done"} =>
              EntryOf(u)' = EntryOf(u) /\ RowOf(u)' = RowOf(u)
         /\ \A i \in 1 .. Len(trail) : Written(trail[i])' = Written(trail[i])
         /\ Written(trail[Len(trail)])' = NewText(t)
         /\ \A e, kinds : RowsOf(e, kinds)' =
              RowsOf(e, kinds) \cup IF e = EntryOf(t) /\ RowOf(t) \in kinds
                                      THEN {Len(trail) + 1} ELSE {}
<1> DEFINE n == Len(trail)
<1>1. /\ call' = call /\ n \in Nat /\ Len(trail') = n + 1 /\ ConsentEffect(t) /\ Effect(t)
      /\ \A i \in 1 .. n : trail'[i] = trail[i]
      /\ trail'[n + 1] = [row |-> RowOf(t), by |-> t, entry |-> EntryOf(t)]
  BY Committed DEF Effect
<1>2. ASSUME NEW u \in Tasks, pc[u] \in {"decide", "commit", "notify", "done"}
      PROVE  EntryOf(u)' = EntryOf(u) /\ RowOf(u)' = RowOf(u)
  <2>1. call'[u] = call[u]
    BY <1>1
  <2>2. ASSUME call[u].op \in Decisions
        PROVE  /\ consent'[call[u].target].entry = consent[call[u].target].entry
               /\ consent'[call[u].target].action = consent[call[u].target].action
    <3>1. TaskKnown(u)
      BY DEF VaultInv
    <3>2. call[u].target \in Tasks /\ consent[call[u].target] # NoConsent
      BY <1>2, <2>2, <3>1 DEF TaskKnown
    <3> QED
      BY <1>1, <3>2 DEF ConsentEffect
  <2> QED
    BY <2>1, <2>2 DEF EntryOf, RowOf, Decisions
<1>3. \A i \in 1 .. n : Written(trail[i])' = Written(trail[i])
  BY <1>1 DEF Written
<1>4. Written(trail[Len(trail)])' = NewText(t)
  BY <1>1 DEF Written, NewText
<1>5. ASSUME NEW e, NEW kinds
      PROVE  RowsOf(e, kinds)' =
               RowsOf(e, kinds) \cup IF e = EntryOf(t) /\ RowOf(t) \in kinds THEN {n + 1} ELSE {}
  <2>1. 1 .. Len(trail') = (1 .. n) \cup {n + 1} /\ n + 1 \notin 1 .. n
    BY <1>1
  <2>2. trail'[n + 1].entry = EntryOf(t) /\ trail'[n + 1].row = RowOf(t)
    BY <1>1
  <2>3. RowsOf(e, kinds)' = {i \in (1 .. n) \cup {n + 1} : trail'[i].entry = e /\ trail'[i].row \in kinds}
    BY <2>1 DEF RowsOf
  <2>4. RowsOf(e, kinds) = {i \in 1 .. n : trail'[i].entry = e /\ trail'[i].row \in kinds}
    BY <1>1 DEF RowsOf
  <2> HIDE DEF n
  <2>5. CASE e = EntryOf(t) /\ RowOf(t) \in kinds
    BY <2>2, <2>3, <2>4, <2>5
  <2>6. CASE ~(e = EntryOf(t) /\ RowOf(t) \in kinds)
    BY <2>2, <2>3, <2>4, <2>6
  <2> QED
    BY <2>5, <2>6
<1> QED
  BY <1>2, <1>3, <1>4, <1>5

\* What a row of the trail says of the request that wrote it, afterwards.
LEMMA RowsKept ==
  ASSUME VaultInv, NEW t \in Tasks, Commit(t)
  PROVE  \A i \in 1 .. Len(trail') : RowKnown(trail[i])'
<1> SUFFICES ASSUME NEW i \in 1 .. Len(trail') PROVE RowKnown(trail[i])'
  OBVIOUS
<1>1. /\ Len(trail) \in Nat /\ Len(trail') = Len(trail) + 1 /\ pc[t] = "commit"
      /\ Settled(t)' /\ \A u \in Tasks \ {t} : pc'[u] = pc[u]
      /\ \A j \in 1 .. Len(trail) : trail'[j] = trail[j]
      /\ trail'[Len(trail) + 1] = [row |-> RowOf(t), by |-> t, entry |-> EntryOf(t)]
  BY Committed
<1>2. CASE i \in 1 .. Len(trail)
  <2>0. PICK u \in Tasks : u = trail[i].by
    BY <1>2, RowFacts
  <2>1. u = trail[i].by /\ Settled(u) /\ RowKnown(trail[i]) /\ trail'[i] = trail[i]
    BY <1>1, <1>2, <2>0, RowFacts
  <2>2. EntryOf(u)' = EntryOf(u) /\ RowOf(u)' = RowOf(u)
    BY <2>1, RowsGrow DEF Settled
  <2>3. pc'[u] = pc[u]
    BY <1>1, <2>1 DEF Settled
  <2> QED
    BY <2>1, <2>2, <2>3 DEF RowKnown, Settled
<1>3. CASE i = Len(trail) + 1
  <2>1. trail'[i].by = t /\ trail'[i].row = RowOf(t) /\ trail'[i].entry = EntryOf(t)
    BY <1>1, <1>3
  <2>2. EntryOf(t)' = EntryOf(t) /\ RowOf(t)' = RowOf(t)
    BY <1>1, RowsGrow
  <2> QED
    BY <1>1, <2>1, <2>2 DEF RowKnown, Settled
<1> QED
  BY <1>1, <1>2, <1>3

\* No entry loses its text, and only a creation gives one to an entry.
LEMMA TextsKept ==
  ASSUME VaultInv, NEW t \in Tasks, Commit(t)
  PROVE  /\ text'[EntryOf(t)] # None
         /\ \A e \in Tasks : text[e] # None => text'[e] # None
         /\ \A e \in Tasks : text[e] = None /\ text'[e] # None => e = t /\ call[t].op = "create"
<1>1. pc[t] = "commit" /\ OthersKept(t) /\ TextEffect(t) /\ None \notin Tasks
  BY Committed, VaultAssumption DEF Effect
<1>2. /\ call[t].target \in Tasks /\ EntryOf(t) \in Tasks
      /\ IF call[t].op = "create" THEN call[t].target = t /\ text[t] = None
                                  ELSE text[EntryOf(t)] # None
  BY <1>1, Committing
<1>3. call[t].op = "create" => EntryOf(t) = t /\ RowOf(t) = "create"
  BY <1>2 DEF EntryOf, RowOf, Decisions
<1>4. text'[EntryOf(t)] # None
  BY <1>1, <1>2, <1>3 DEF TextEffect, NewText, TextRows
<1> QED
  BY <1>1, <1>2, <1>3, <1>4 DEF OthersKept

\* A request that asked for a change wrote neither a text nor a creation.
LEMMA AskedIsAnEdit ==
  ASSUME VaultInv, NEW i \in 1 .. Len(trail), NEW c \in Tasks, consent[c] # NoConsent,
         trail[i].row \in TextRows, Written(trail[i]) = c
  PROVE  trail[i].row = "edit_approve" /\ call[trail[i].by].target = c
<1>1. RowKnown(trail[i])
  BY RowFacts
<1>2. ConsentKnown(c)
  BY DEF VaultInv
<1>3. RowOf(c) \in {"edit_request", "delete_request"}
  BY <1>2 DEF ConsentKnown, RowOf, Decisions
<1> QED
  BY <1>1, <1>3 DEF RowKnown, Written, TextRows

LEMMA TextStep ==
  ASSUME VaultInv, NEW t \in Tasks, Commit(t)
  PROVE  TrailTellsText'
<1> SUFFICES ASSUME NEW e \in Tasks, text'[e] # None
             PROVE  \E last \in RowsOf(e, TextRows)' :
                      /\ \A i \in RowsOf(e, TextRows)' : i <= last
                      /\ \/ text'[e] = Written(trail[last])'
                         \/ /\ trail'[last].row = "edit_approve"
                            /\ \E i \in RowsOf(e, {"edit_approve"})' :
                                 i < last /\ Written(trail[i])' = Written(trail[last])'
  BY DEF TrailTellsText, TextRows
<1>0. PICK n \in Nat : n = Len(trail)
  BY Committed
<1>1. /\ n = Len(trail) /\ Len(trail') = n + 1 /\ pc[t] = "commit"
      /\ \A i \in 1 .. n : trail'[i] = trail[i]
      /\ trail'[n + 1] = [row |-> RowOf(t), by |-> t, entry |-> EntryOf(t)]
      /\ TextEffect(t) /\ OthersKept(t)
  BY <1>0, Committed DEF Effect
<1>2. /\ \A i \in 1 .. n : Written(trail[i])' = Written(trail[i])
      /\ Written(trail[n + 1])' = NewText(t)
  <2>1. Written(trail[Len(trail)])' = NewText(t)
    BY RowsGrow
  <2>2. trail[Len(trail)]' = trail'[n + 1]
    BY <1>1
  <2> QED
    BY <1>1, <2>1, <2>2, RowsGrow DEF Written
<1>3. \A kinds : RowsOf(e, kinds)' =
        RowsOf(e, kinds) \cup IF e = EntryOf(t) /\ RowOf(t) \in kinds THEN {n + 1} ELSE {}
  BY <1>1, RowsGrow
<1>4. \A kinds : RowsOf(e, kinds) \subseteq 1 .. n
  BY <1>1 DEF RowsOf
\* Its text was written by this commit, or is what it was.
<1>5. CASE e = EntryOf(t) /\ RowOf(t) \in TextRows
  <2>1. /\ n + 1 \in RowsOf(e, TextRows)' /\ \A i \in RowsOf(e, TextRows)' : i <= n + 1
        /\ trail'[n + 1].row = RowOf(t)
    BY <1>1, <1>3, <1>4, <1>5
  <2>2. CASE text'[e] = NewText(t)
    BY <1>2, <2>1, <2>2
  <2>3. CASE /\ RowOf(t) = "edit_approve" /\ call[t].op = "approve"
             /\ loaded[t].text = NewText(t)
    <3>1. /\ NewText(t) = call[t].target /\ call[t].target \in Tasks
          /\ consent[call[t].target] # NoConsent
      BY <1>1, <2>3, Committing DEF NewText, Decisions
    <3>2. TaskKnown(t)
      BY DEF VaultInv
    <3>3. PICK i \in RowsOf(e, TextRows) : Written(trail[i]) = NewText(t)
      BY <1>1, <1>5, <2>3, <3>2 DEF TaskKnown
    <3>4. i \in 1 .. n /\ trail[i].entry = e /\ trail[i].row \in TextRows
      BY <1>1 DEF RowsOf
    <3>5. trail[i].row = "edit_approve"
      BY <1>1, <3>1, <3>3, <3>4, AskedIsAnEdit
    <3>6. i \in RowsOf(e, {"edit_approve"})
      BY <1>1, <3>4, <3>5 DEF RowsOf
    <3>7. /\ i \in RowsOf(e, {"edit_approve"})' /\ i < n + 1
          /\ Written(trail[i])' = Written(trail[n + 1])'
      BY <1>2, <1>3, <3>3, <3>4, <3>6
    <3> QED
      BY <2>1, <2>3, <3>7
  <2> QED
    BY <1>1, <1>5, <2>2, <2>3 DEF TextEffect
<1>6. CASE ~(e = EntryOf(t) /\ RowOf(t) \in TextRows)
  <2>1. text'[e] = text[e]
    BY <1>1, <1>6 DEF TextEffect, OthersKept, TextRows
  <2>2. RowsOf(e, TextRows)' = RowsOf(e, TextRows)
    BY <1>3, <1>6, ZenonT(30) DEF RowsOf, TextRows
  <2>3. PICK last \in RowsOf(e, TextRows) :
          /\ \A i \in RowsOf(e, TextRows) : i <= last
          /\ \/ text[e] = Written(trail[last])
             \/ /\ trail[last].row = "edit_approve"
                /\ \E i \in RowsOf(e, {"edit_approve"}) :
                     i < last /\ Written(trail[i]) = Written(trail[last])
    BY <2>1 DEF VaultInv, TrailTellsText
  <2>4. /\ last \in 1 .. n /\ trail'[last] = trail[last]
        /\ \A i \in 1 .. n : Written(trail[i])' = Written(trail[i])
    BY <1>1, <1>2, <1>4
  <2>5. RowsOf(e, {"edit_approve"}) \subseteq RowsOf(e, {"edit_approve"})'
    BY <1>3
  <2>6. text[e] = Written(trail[last]) => text'[e] = Written(trail[last])'
    BY <2>1, <2>4
  <2>7. ASSUME NEW i \in RowsOf(e, {"edit_approve"}), i < last, Written(trail[i]) = Written(trail[last])
        PROVE  i \in RowsOf(e, {"edit_approve"})' /\ Written(trail[i])' = Written(trail[last])'
    BY <1>4, <2>4, <2>5, <2>7
  <2> QED
    BY <2>2, <2>3, <2>4, <2>6, <2>7
<1> QED
  BY <1>5, <1>6

LEMMA TrashStep ==
  ASSUME VaultInv, NEW t \in Tasks, Commit(t)
  PROVE  TrailTellsTrash'
<1> SUFFICES ASSUME NEW e \in Tasks, text'[e] # None
             PROVE  IF e \in trashed'
                      THEN \E i \in RowsOf(e, Deletions)' :
                             \A j \in RowsOf(e, {"restore"})' : j < i
                      ELSE \A i \in RowsOf(e, Deletions)' : \E j \in RowsOf(e, {"restore"})' :
                             j > i \/ trail'[i].row = "delete_approve"
  BY DEF TrailTellsTrash, Deletions
<1>0. PICK n \in Nat : n = Len(trail)
  BY Committed
<1>1. /\ n = Len(trail) /\ Len(trail') = n + 1 /\ pc[t] = "commit"
      /\ \A i \in 1 .. n : trail'[i] = trail[i]
      /\ trail'[n + 1] = [row |-> RowOf(t), by |-> t, entry |-> EntryOf(t)]
      /\ TrashEffect(t) /\ OthersKept(t)
  BY <1>0, Committed DEF Effect
<1>2. \A kinds : RowsOf(e, kinds)' =
        RowsOf(e, kinds) \cup IF e = EntryOf(t) /\ RowOf(t) \in kinds THEN {n + 1} ELSE {}
  BY <1>1, RowsGrow
<1>3. \A kinds : RowsOf(e, kinds) \subseteq 1 .. n
  BY <1>1 DEF RowsOf
<1>4. CASE e = EntryOf(t) /\ RowOf(t) \in Deletions
  <2>1. /\ n + 1 \in RowsOf(e, Deletions)' /\ RowsOf(e, {"restore"})' = RowsOf(e, {"restore"})
        /\ \A i \in RowsOf(e, Deletions)' : i = n + 1 \/ i \in RowsOf(e, Deletions)
    <3>1. RowsOf(e, Deletions)' = RowsOf(e, Deletions) \cup {n + 1}
      BY <1>2, <1>4 DEF RowsOf, Deletions
    <3>2. RowsOf(e, {"restore"})' = RowsOf(e, {"restore"})
      BY <1>2, <1>4 DEF Deletions
    <3> QED
      BY <3>1, <3>2
  <2>2. CASE e \in trashed'
    BY <1>3, <2>1, <2>2
  <2>3. CASE e \notin trashed'
    <3>1. RowOf(t) = "delete_approve" /\ call[t].op = "approve" /\ loaded[t].trashed /\ e \notin trashed
      BY <1>1, <1>4, <2>3 DEF TrashEffect, Deletions
    <3>2. TaskKnown(t) /\ text[e] # None
      BY <1>1, <1>4, <3>1, Committing DEF VaultInv
    <3>3. RowsOf(e, Deletions) # {}
      BY <1>1, <1>4, <3>1, <3>2 DEF TaskKnown
    <3>4. \A i \in RowsOf(e, Deletions) : \E j \in RowsOf(e, {"restore"}) :
            j > i \/ trail[i].row = "delete_approve"
      BY <3>1, <3>2 DEF VaultInv, TrailTellsTrash
    <3>5. trail'[n + 1].row = "delete_approve"
      BY <1>1, <3>1
    <3>6. \A i \in RowsOf(e, Deletions) : trail'[i].row = trail[i].row
      BY <1>1, <1>3
    <3> QED
      BY <2>1, <2>3, <3>3, <3>4, <3>5, <3>6
  <2> QED
    BY <2>2, <2>3
<1>5. CASE e = EntryOf(t) /\ RowOf(t) = "restore"
  <2>1. e \notin trashed'
    BY <1>1, <1>5 DEF TrashEffect, Deletions
  <2>2. n + 1 \in RowsOf(e, {"restore"})' /\ RowsOf(e, Deletions)' = RowsOf(e, Deletions)
    BY <1>2, <1>5 DEF RowsOf, Deletions
  <2> QED
    BY <1>3, <2>1, <2>2
<1>6. CASE ~(e = EntryOf(t) /\ RowOf(t) \in Deletions \cup {"restore"})
  <2>1. /\ RowsOf(e, Deletions)' = RowsOf(e, Deletions)
        /\ RowsOf(e, {"restore"})' = RowsOf(e, {"restore"})
    BY <1>2, <1>6, ZenonT(30) DEF RowsOf, Deletions
  <2>2. e \in trashed' <=> e \in trashed
    BY <1>1, <1>6 DEF TrashEffect, OthersKept, Deletions
  <2>3. \A i \in RowsOf(e, Deletions) : trail'[i].row = trail[i].row
    BY <1>1, <1>3
  <2>4. CASE text[e] # None
    BY <2>1, <2>2, <2>3, <2>4 DEF VaultInv, TrailTellsTrash
  \* An entry that is new has never been deleted.
  <2>5. CASE text[e] = None
    <3>1. e \notin trashed /\ \A i \in 1 .. Len(trail) : trail[i].entry # e
      BY <2>5 DEF VaultInv, EntryKnown
    <3>2. RowsOf(e, Deletions) = {}
      BY <3>1 DEF RowsOf
    <3> QED
      BY <2>1, <2>2, <3>1, <3>2
  <2> QED
    BY <2>4, <2>5
<1> QED
  BY <1>4, <1>5, <1>6 DEF Deletions

LEMMA TasksStep ==
  ASSUME VaultInv, NEW t \in Tasks, Commit(t), NEW u \in Tasks
  PROVE  TaskKnown(u)' /\ ConsentKnown(u)' /\ EntryKnown(u)'
<1>0. PICK n \in Nat : n = Len(trail)
  BY Committed
<1>1. /\ n = Len(trail) /\ Len(trail') = n + 1 /\ pc[t] = "commit"
      /\ Settled(t)' /\ \A v \in Tasks \ {t} : pc'[v] = pc[v]
      /\ UNCHANGED <<call, loaded>>
      /\ \A i \in 1 .. n : trail'[i] = trail[i]
      /\ trail'[n + 1] = [row |-> RowOf(t), by |-> t, entry |-> EntryOf(t)]
      /\ TextEffect(t) /\ TrashEffect(t) /\ OthersKept(t) /\ ConsentEffect(t)
  BY <1>0, Committed DEF Effect
<1>2. TaskKnown(u) /\ ConsentKnown(u) /\ EntryKnown(u) /\ TaskKnown(t)
  BY DEF VaultInv
<1>3. Settled(u) \/ u = t => Settled(u)'
  BY <1>1 DEF Settled
<1>4. TaskKnown(u)'
  <2>1. pc'[u] = pc[u] \/ (u = t /\ pc'[u] \in {"notify", "done"})
    <3>1. CASE u = t
      BY <1>1, <3>1 DEF Settled
    <3>2. CASE u # t
      BY <1>1, <3>2
    <3> QED
      BY <3>1, <3>2
  <2>2. pc'[u] # "new" => call'[u].op # "none" /\ call'[u].target \in Tasks
    BY <1>1, <1>2, <2>1 DEF TaskKnown
  <2>3. pc'[u] = "decide" => call'[u].op \in Decisions
    BY <1>1, <1>2, <2>1 DEF TaskKnown
  <2>4. ASSUME pc'[u] \in {"decide", "commit", "notify", "done"}
        PROVE  /\ call'[u].op \in Decisions =>
                    consent'[call'[u].target] # NoConsent /\ SpouseOf[call'[u].target] # SpouseOf[u]
               /\ IF call'[u].op = "create" THEN call'[u].target = u ELSE text'[EntryOf(u)'] # None
               /\ EntryOf(u)' = EntryOf(u)
    <3>1. /\ pc[u] \in {"decide", "commit", "notify", "done"} /\ pc[u] # "new"
          /\ call[u].target \in Tasks
      BY <1>1, <1>2, <2>1, <2>4 DEF TaskKnown
    <3>2. EntryOf(u)' = EntryOf(u)
      BY <3>1, RowsGrow
    <3>3. call[u].op \in Decisions =>
            /\ consent[call[u].target] # NoConsent /\ consent'[call[u].target] # NoConsent
            /\ SpouseOf[call[u].target] # SpouseOf[u]
      BY <1>1, <1>2, <3>1 DEF TaskKnown, ConsentEffect
    <3>4. EntryOf(u) \in Tasks
      <4>1. CASE call[u].op \in Decisions
        <5>1. ConsentKnown(call[u].target) /\ TaskKnown(call[u].target)
          BY <3>1 DEF VaultInv
        <5> QED
          BY <3>3, <4>1, <5>1 DEF ConsentKnown, TaskKnown, EntryOf
      <4>2. CASE call[u].op \notin Decisions
        BY <3>1, <4>2 DEF EntryOf
      <4> QED
        BY <4>1, <4>2
    <3>5. call[u].op # "create" => text'[EntryOf(u)] # None
      BY <1>2, <3>1, <3>4, TextsKept DEF TaskKnown
    <3>6. call[u].op = "create" => call[u].target = u
      BY <1>2, <3>1 DEF TaskKnown
    <3> QED
      BY <1>1, <3>2, <3>3, <3>5, <3>6
  <2>5. pc'[u] = "commit" /\ call'[u].op = "create" => text'[u] = None
    BY <1>1, <1>2, <2>1, TextsKept DEF TaskKnown, Settled
  <2>6. ASSUME pc'[u] = "commit", call'[u].op = "approve"
        PROVE  /\ \E i \in RowsOf(EntryOf(u), TextRows)' : Written(trail[i])' = loaded'[u].text
               /\ loaded'[u].trashed => RowsOf(EntryOf(u), Deletions)' # {}
    <3>0. PICK e : e = EntryOf(u)
      OBVIOUS
    <3>1. e = EntryOf(u) /\ EntryOf(u)' = e /\ pc[u] = "commit" /\ call[u].op = "approve"
      BY <1>1, <2>1, <2>4, <2>6, <3>0
    <3>2. PICK i \in RowsOf(e, TextRows) : Written(trail[i]) = loaded[u].text
      BY <1>2, <3>1 DEF TaskKnown
    <3>3. loaded[u].trashed => RowsOf(e, Deletions) # {}
      BY <1>2, <3>1 DEF TaskKnown
    <3>4. i \in 1 .. n /\ i \in RowsOf(e, TextRows)' /\ Written(trail[i])' = Written(trail[i])
      <4>1. i \in 1 .. Len(trail) /\ trail[i].entry = e /\ trail[i].row \in TextRows
        BY DEF RowsOf
      <4> QED
        BY <1>1, <4>1, RowsGrow DEF RowsOf, TextRows
    <3>5. RowsOf(e, Deletions) \subseteq RowsOf(e, Deletions)'
      BY <1>1 DEF RowsOf, Deletions
    <3>6. RowsOf(EntryOf(u), TextRows)' = RowsOf(e, TextRows)'
      BY <3>1 DEF RowsOf, TextRows
    <3>7. RowsOf(EntryOf(u), Deletions)' = RowsOf(e, Deletions)'
      BY <3>1 DEF RowsOf, Deletions
    <3> QED
      BY <1>1, <3>2, <3>3, <3>4, <3>5, <3>6, <3>7
  <2> QED
    BY <2>2, <2>3, <2>4, <2>5, <2>6 DEF TaskKnown
<1>5. ConsentKnown(u)'
  BY <1>1, <1>2, <1>3 DEF ConsentKnown, ConsentEffect, Settled
<1>6. EntryKnown(u)'
  <2>1. CASE text'[u] = None
    <3>1. text[u] = None /\ u # EntryOf(t) /\ EntryOf(t) \in Tasks
      BY <1>1, <2>1, TextsKept, Committing
    <3>2. u \notin trashed' /\ \A i \in 1 .. n : trail'[i].entry # u
      BY <1>1, <1>2, <3>1 DEF EntryKnown, OthersKept
    <3>3. trail'[n + 1].entry # u
      BY <1>1, <3>1
    <3>4. \A i \in 1 .. Len(trail') : i \in 1 .. n \/ i = n + 1
      BY <1>1
    <3> QED
      BY <2>1, <3>2, <3>3, <3>4 DEF EntryKnown
  <2>2. CASE text'[u] # None
    <3>1. Settled(u)' /\ call'[u].op = "create"
      BY <1>1, <1>2, <1>3, <2>2, TextsKept DEF EntryKnown, Settled
    <3>2. \E i \in RowsOf(u, TextRows)' : Written(trail[i])' = text'[u]
      <4>1. CASE u = EntryOf(t) /\ RowOf(t) \in TextRows /\ text'[u] = NewText(t)
        <5>1. Written(trail[Len(trail)])' = NewText(t)
          BY RowsGrow
        <5>2. n + 1 \in RowsOf(u, TextRows)' /\ Written(trail[n + 1])' = NewText(t)
          BY <1>1, <4>1, <5>1 DEF RowsOf, TextRows, Written
        <5> QED
          BY <4>1, <5>2
      <4>2. CASE text'[u] = text[u]
        <5>1. PICK i \in RowsOf(u, TextRows) : Written(trail[i]) = text[u]
          BY <1>2, <2>2, <4>2 DEF EntryKnown
        <5>2. i \in 1 .. Len(trail) /\ trail[i].entry = u /\ trail[i].row \in TextRows
          BY DEF RowsOf
        <5>3. i \in RowsOf(u, TextRows)' /\ Written(trail[i])' = Written(trail[i])
          BY <1>1, <5>2, RowsGrow DEF RowsOf, TextRows
        <5> QED
          BY <4>2, <5>1, <5>3
      <4> QED
        BY <1>1, <4>1, <4>2 DEF TextEffect, OthersKept
    <3> QED
      BY <2>2, <3>1, <3>2 DEF EntryKnown, Settled, TextRows
  <2> QED
    BY <2>1, <2>2
<1> QED
  BY <1>4, <1>5, <1>6

LEMMA CommitStep == ASSUME VaultInv, NEW t \in Tasks, Commit(t) PROVE VaultInv'
  BY Committed, TasksStep, RowsKept, TextStep, TrashStep DEF VaultInv

-----------------------------------------------------------------------------
(* The theorems. *)

LEMMA InitVault == Init => VaultInv
<1> SUFFICES ASSUME Init PROVE VaultInv
  OBVIOUS
<1>1. TypeOK
  BY DEF Init, TypeOK, NoCall, Unloaded, NoConsent
<1>2. \A e, kinds : RowsOf(e, kinds) = {}
  BY DEF Init, RowsOf
<1>3. ASSUME NEW t \in Tasks PROVE TaskKnown(t) /\ ConsentKnown(t) /\ EntryKnown(t)
  BY DEF Init, TaskKnown, ConsentKnown, EntryKnown
<1>4. TrailTellsText /\ TrailTellsTrash
  BY DEF Init, TrailTellsText, TrailTellsTrash
<1> QED
  BY <1>1, <1>3, <1>4 DEF VaultInv, Init

LEMMA NextVault == VaultInv /\ [Next]_vars => VaultInv'
<1> SUFFICES ASSUME VaultInv, [Next]_vars PROVE VaultInv'
  OBVIOUS
<1>1. ASSUME NEW s \in Spouses, Join(s) PROVE VaultInv'
  BY <1>1, JoinStep
<1>2. ASSUME NEW t \in Tasks, BeginCreate(t) PROVE VaultInv'
  BY <1>2, BeginStep
<1>3. ASSUME NEW t \in Tasks, LoadDecidedEntry(t) PROVE VaultInv'
  BY <1>3, LoadDecidedStep
<1>4. ASSUME NEW t \in Tasks, Commit(t) PROVE VaultInv'
  BY <1>4, CommitStep
<1>5. ASSUME NEW t \in Tasks, Notify(t) PROVE VaultInv'
  BY <1>5, NotifyStep
<1>6. ASSUME NEW t \in Tasks, NEW op \in EntryOps, NEW e \in Tasks, Load(t, op, e) PROVE VaultInv'
  BY <1>6, LoadStep
<1>7. ASSUME NEW t \in Tasks, NEW op \in {"approve", "reject"}, NEW c \in Tasks, LoadConsent(t, op, c)
      PROVE  VaultInv'
  BY <1>7, LoadConsentStep
<1>8. CASE UNCHANGED vars
  BY <1>8, IdleStep DEF vars, VaultInv, TypeOK
<1> QED
  BY <1>1, <1>2, <1>3, <1>4, <1>5, <1>6, <1>7, <1>8 DEF Next

\* content.py:110-347: whatever requests overlap, each row of the trail says
\* truly who did what to which entry, each entry and each consent request is
\* the doing of a request that is through, and what an approval has loaded is
\* explained by rows the trail already has.
THEOREM Invariance == Spec => []VaultInv
  BY InitVault, NextVault, PTL DEF Spec

\* content.py:167-239, 303-332: the text of an entry is what the last
\* text-writing row of the trail wrote, but for an approval given twice; an
\* entry in the trash was deleted after its last restoration, and one that is
\* not has been restored after every deletion but for approvals that loaded it
\* from the trash.
THEOREM TrailExplains == Spec => []TrailTells
<1>1. VaultInv => TrailTells
  BY DEF VaultInv, TrailTells
<1> QED
  BY <1>1, Invariance, PTL

\* content.py:291-325: no text that was asked for is in an entry unless the
\* other spouse has approved it, for that entry.
THEOREM OnlyWithConsent == Spec => []AppliedOnlyIfApproved
<1>1. VaultInv => AppliedOnlyIfApproved
  <2> SUFFICES ASSUME VaultInv, NEW e \in Tasks, NEW c \in Tasks, text[e] = c, consent[c] # NoConsent
               PROVE  /\ consent[c].entry = e
                      /\ \E i \in 1 .. Len(trail) :
                           /\ trail[i].row = "edit_approve"
                           /\ call[trail[i].by].target = c
                           /\ SpouseOf[trail[i].by] # SpouseOf[c]
    BY DEF AppliedOnlyIfApproved
  <2>1. PICK i \in RowsOf(e, TextRows) : Written(trail[i]) = c
    BY VaultAssumption DEF VaultInv, EntryKnown
  <2>2. i \in 1 .. Len(trail) /\ trail[i].entry = e /\ trail[i].row \in TextRows
    BY DEF RowsOf
  <2>3. trail[i].row = "edit_approve" /\ call[trail[i].by].target = c
    BY <2>1, <2>2, AskedIsAnEdit
  <2>4. trail[i].by \in Tasks /\ Settled(trail[i].by) /\ RowKnown(trail[i]) /\ TaskKnown(trail[i].by)
    BY <2>2, RowFacts DEF VaultInv
  <2>5. call[trail[i].by].op = "approve"
    BY <2>3, <2>4 DEF RowKnown, RowOf, Settled, TaskKnown, VaultInv, TypeOK, Ops, EntryOps, Decisions
  <2>6. EntryOf(trail[i].by) = consent[c].entry
    BY <2>3, <2>5 DEF EntryOf, Decisions
  <2> QED
    BY <2>2, <2>3, <2>4, <2>5, <2>6 DEF RowKnown, Settled, TaskKnown, Decisions
<1> QED
  BY <1>1, Invariance, PTL
=============================================================================
