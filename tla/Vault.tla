-------------------------------- MODULE Vault --------------------------------
(***************************************************************************)
(* The shared vault: backend/app/routers/content.py.  Entries are created, *)
(* viewed, edited, put into the trash, restored, and changed through       *)
(* requests the other spouse decides.  Every handler loads rows, checks    *)
(* them, and later commits; other requests run in between (PostgreSQL's    *)
(* READ COMMITTED, no row locks), so loading and committing are separate   *)
(* actions.  The ORM's UPDATE names only attributes whose value differs    *)
(* from the loaded one.                                                    *)
(*                                                                         *)
(* A request (task) makes at most one row, named after the task: an entry  *)
(* is the task that created it, a ciphertext the task that sent it (its    *)
(* nonce is fresh), a consent request the task that asked.                 *)
(***************************************************************************)
EXTENDS Integers, Sequences

CONSTANTS
  Spouses,      \* both roles
  Tasks,        \* HTTP requests, each handled once
  SpouseOf,     \* whose access token a request carries
  None          \* no value

ASSUME VaultAssumption ==
  /\ SpouseOf \in [Tasks -> Spouses]
  /\ None \notin Tasks

VARIABLES
  joined,       \* the spouses that have claimed their role
  text,         \* enc_payload of each entry, None where there is none
  trashed,      \* entries with is_deleted
  consent,      \* rows of consent_requests
  trail,        \* audit_log_entries, in the order of their commits
  inbox,        \* notification rows: <<recipient, the task it is about>>
  pc,           \* where each task stands
  call,         \* what each task is about
  loaded        \* the entry as the task's session has loaded it

vars == <<joined, text, trashed, consent, trail, inbox, pc, call, loaded>>

EntryOps == {"view", "edit", "delete", "restore", "edit_request", "delete_request"}
Ops == EntryOps \cup {"create", "approve", "reject"}

NoCall == [op |-> "none", target |-> None]
Unloaded == [text |-> None, trashed |-> FALSE]
NoConsent == [entry |-> None, action |-> "none", status |-> "none", resolvedBy |-> None]

Rows == {"create", "view", "edit", "delete", "restore", "edit_request",
         "delete_request", "edit_approve", "delete_approve", "edit_reject",
         "delete_reject"}

TypeOK ==
  /\ joined \subseteq Spouses
  /\ text \in [Tasks -> Tasks \cup {None}]
  /\ trashed \subseteq Tasks
  /\ consent \in [Tasks -> [entry : Tasks \cup {None}, action : {"none", "edit", "delete"},
                            status : {"none", "pending", "approved", "rejected"},
                            resolvedBy : Spouses \cup {None}]]
  /\ trail \in Seq([row : Rows, by : Tasks, entry : Tasks])
  /\ inbox \subseteq Spouses \X Tasks
  /\ pc \in [Tasks -> {"new", "decide", "commit", "notify", "done", "refused"}]
  /\ call \in [Tasks -> [op : Ops \cup {"none"}, target : Tasks \cup {None}]]
  /\ loaded \in [Tasks -> [text : Tasks \cup {None}, trashed : BOOLEAN]]

Init ==
  /\ joined \in SUBSET Spouses
  /\ text = [e \in Tasks |-> None]
  /\ trashed = {}
  /\ consent = [c \in Tasks |-> NoConsent]
  /\ trail = << >>
  /\ inbox = {}
  /\ pc = [t \in Tasks |-> "new"]
  /\ call = [t \in Tasks |-> NoCall]
  /\ loaded = [t \in Tasks |-> Unloaded]

Other(s) == CHOOSE o \in Spouses : o # s

Goto(t, label) == pc' = [pc EXCEPT ![t] = label]

Entry(e) == [text |-> text[e], trashed |-> e \in trashed]

\* The row the handler's SELECT asks for is there.
Selectable(op, e) ==
  /\ text[e] # None
  /\ (e \in trashed) = (op = "restore")

Log(t, row, e) == trail' = Append(trail, [row |-> row, by |-> t, entry |-> e])

dbVars == <<text, trashed, consent, trail, inbox>>

-----------------------------------------------------------------------------
\* The second role may be claimed while requests are being handled.
Join(s) ==
  /\ s \notin joined
  /\ joined' = joined \cup {s}
  /\ UNCHANGED <<dbVars, pc, call, loaded>>

\* POST /vault/entries: nothing is loaded.
BeginCreate(t) ==
  /\ pc[t] = "new"
  /\ SpouseOf[t] \in joined
  /\ call' = [call EXCEPT ![t] = [op |-> "create", target |-> t]]
  /\ Goto(t, "commit")
  /\ UNCHANGED <<joined, dbVars, loaded>>

\* The SELECT of get, edit, delete, restore and the two request handlers,
\* filtered by is_deleted; 404 if it finds nothing.
Load(t, op, e) ==
  /\ pc[t] = "new"
  /\ SpouseOf[t] \in joined
  /\ text[e] # None
  /\ call' = [call EXCEPT ![t] = [op |-> op, target |-> e]]
  /\ loaded' = [loaded EXCEPT ![t] = Entry(e)]
  /\ Goto(t, IF Selectable(op, e) THEN "commit" ELSE "refused")
  /\ UNCHANGED <<joined, dbVars>>

\* Mutant: whoever asked may also decide.
LoadOwnConsent(t, op, c) ==
  /\ pc[t] = "new"
  /\ SpouseOf[t] \in joined
  /\ consent[c] # NoConsent
  /\ call' = [call EXCEPT ![t] = [op |-> op, target |-> c]]
  /\ Goto(t, IF consent[c].status = "pending" THEN "decide" ELSE "refused")
  /\ UNCHANGED <<joined, dbVars, loaded>>

\* decide_consent_request: only a pending request, and not one's own ...
LoadConsent(t, op, c) ==
  /\ pc[t] = "new"
  /\ SpouseOf[t] \in joined
  /\ consent[c] # NoConsent
  /\ call' = [call EXCEPT ![t] = [op |-> op, target |-> c]]
  /\ Goto(t, IF consent[c].status = "pending" /\ SpouseOf[c] # SpouseOf[t]
               THEN "decide" ELSE "refused")
  /\ UNCHANGED <<joined, dbVars, loaded>>

\* ... and then its entry, which may be in the trash by now.
LoadDecidedEntry(t) ==
  /\ pc[t] = "decide"
  /\ loaded' = [loaded EXCEPT ![t] = Entry(consent[call[t].target].entry)]
  /\ Goto(t, "commit")
  /\ UNCHANGED <<joined, dbVars, call>>

-----------------------------------------------------------------------------
(* The commits.  A commit writes the audit row together with the change. *)

CommitCreate(t) ==
  /\ call[t].op = "create"
  /\ text' = [text EXCEPT ![t] = t]
  /\ Log(t, "create", t)
  /\ UNCHANGED <<trashed, consent>>

\* The view count is the number of these rows.
CommitView(t) ==
  /\ call[t].op = "view"
  /\ Log(t, "view", call[t].target)
  /\ UNCHANGED <<text, trashed, consent>>

\* Mutant: an edit leaves no audit row.
CommitEditUnlogged(t) ==
  /\ call[t].op = "edit"
  /\ text' = [text EXCEPT ![call[t].target] = t]
  /\ UNCHANGED <<trashed, consent, trail>>

CommitEdit(t) ==
  /\ call[t].op = "edit"
  /\ text' = [text EXCEPT ![call[t].target] = t]
  /\ Log(t, "edit", call[t].target)
  /\ UNCHANGED <<trashed, consent>>

CommitDelete(t) ==
  /\ call[t].op = "delete"
  /\ trashed' = trashed \cup {call[t].target}
  /\ Log(t, "delete", call[t].target)
  /\ UNCHANGED <<text, consent>>

\* Mutant: restoring leaves no audit row.
CommitRestoreUnlogged(t) ==
  /\ call[t].op = "restore"
  /\ trashed' = trashed \ {call[t].target}
  /\ UNCHANGED <<text, consent, trail>>

CommitRestore(t) ==
  /\ call[t].op = "restore"
  /\ trashed' = trashed \ {call[t].target}
  /\ Log(t, "restore", call[t].target)
  /\ UNCHANGED <<text, consent>>

CommitRequest(t) ==
  /\ call[t].op \in {"edit_request", "delete_request"}
  /\ consent' = [consent EXCEPT ![t] =
       [entry |-> call[t].target, status |-> "pending", resolvedBy |-> None,
        action |-> IF call[t].op = "edit_request" THEN "edit" ELSE "delete"]]
  /\ Log(t, call[t].op, call[t].target)
  /\ UNCHANGED <<text, trashed>>

\* An attribute assigned the value it was loaded with is not written.
CommitApprove(t) ==
  LET c == call[t].target
      e == consent[c].entry
  IN /\ call[t].op = "approve"
     /\ text' = IF consent[c].action = "edit" /\ loaded[t].text # c
                  THEN [text EXCEPT ![e] = c] ELSE text
     /\ trashed' = IF consent[c].action = "delete" /\ ~loaded[t].trashed
                     THEN trashed \cup {e} ELSE trashed
     /\ consent' = [consent EXCEPT ![c].status = "approved",
                                   ![c].resolvedBy = SpouseOf[t]]
     /\ Log(t, IF consent[c].action = "edit" THEN "edit_approve" ELSE "delete_approve", e)

\* Mutant: the request is stored as the one who resolved it.
CommitRejectByRequest(t) ==
  LET c == call[t].target
  IN /\ call[t].op = "reject"
     /\ consent' = [consent EXCEPT ![c].status = "rejected", ![c].resolvedBy = t]
     /\ Log(t, IF consent[c].action = "edit" THEN "edit_reject" ELSE "delete_reject",
            consent[c].entry)
     /\ UNCHANGED <<text, trashed>>

CommitReject(t) ==
  LET c == call[t].target
  IN /\ call[t].op = "reject"
     /\ consent' = [consent EXCEPT ![c].status = "rejected",
                                   ![c].resolvedBy = SpouseOf[t]]
     /\ Log(t, IF consent[c].action = "edit" THEN "edit_reject" ELSE "delete_reject",
            consent[c].entry)
     /\ UNCHANGED <<text, trashed>>

\* Viewing and restoring tell nobody.
Commit(t) ==
  /\ pc[t] = "commit"
  /\ \/ CommitCreate(t) \/ CommitView(t) \/ CommitEdit(t) \/ CommitDelete(t)
     \/ CommitRestore(t) \/ CommitRequest(t) \/ CommitApprove(t) \/ CommitReject(t)
  /\ Goto(t, IF call[t].op \in {"view", "restore"} THEN "done" ELSE "notify")
  /\ UNCHANGED <<joined, inbox, call, loaded>>

\* _notify_other_spouse: nothing if that role is not claimed yet.  (What
\* notify_spouse does beyond the inbox row is in ChatServer.)
Notify(t) ==
  LET other == Other(SpouseOf[t])
  IN /\ pc[t] = "notify"
     /\ inbox' = IF other \in joined THEN inbox \cup {<<other, t>>} ELSE inbox
     /\ Goto(t, "done")
     /\ UNCHANGED <<joined, text, trashed, consent, trail, call, loaded>>

-----------------------------------------------------------------------------
Next ==
  \/ \E s \in Spouses : Join(s)
  \/ \E t \in Tasks :
       \/ BeginCreate(t) \/ LoadDecidedEntry(t) \/ Commit(t) \/ Notify(t)
       \/ \E op \in EntryOps, e \in Tasks : Load(t, op, e)
       \/ \E op \in {"approve", "reject"}, c \in Tasks : LoadConsent(t, op, c)

Spec == Init /\ [][Next]_vars

-----------------------------------------------------------------------------
TextRows == {"create", "edit", "edit_approve"}
Deletions == {"delete", "delete_approve"}

\* Where in the trail the rows of entry e of the given kinds are.
RowsOf(e, kinds) == {i \in 1 .. Len(trail) : trail[i].entry = e /\ trail[i].row \in kinds}

\* The ciphertext a row put into its entry.
Written(r) == IF r.row = "edit_approve" THEN call[r.by].target ELSE r.by

\* content.py:167-187, 303-332: the audit trail explains what an entry says:
\* its text is what the last text-writing row wrote, whatever requests overlap
\* -- except that an approval given twice may find nothing left to write.
TrailTellsText ==
  \A e \in Tasks : text[e] # None =>
    \E last \in RowsOf(e, TextRows) :
      /\ \A i \in RowsOf(e, TextRows) : i <= last
      /\ \/ text[e] = Written(trail[last])
         \/ /\ trail[last].row = "edit_approve"
            /\ \E i \in RowsOf(e, {"edit_approve"}) :
                 i < last /\ Written(trail[i]) = Written(trail[last])

\* content.py:190-239, 303-332: the trail explains where an entry is.  In the
\* trash: some deletion comes after every restoration.  Not in the trash: every
\* deletion is followed by a restoration -- except that approvals may have
\* loaded the entry from the trash just before it was restored, and then
\* write nothing.
TrailTellsTrash ==
  \A e \in Tasks : text[e] # None =>
    IF e \in trashed
      THEN \E i \in RowsOf(e, Deletions) : \A j \in RowsOf(e, {"restore"}) : j < i
      ELSE \A i \in RowsOf(e, Deletions) : \E j \in RowsOf(e, {"restore"}) :
             j > i \/ trail[i].row = "delete_approve"

\* content.py:167-239, 303-332: the audit trail explains the entries, what they
\* say and where they are, whatever requests overlap.
TrailTells == TrailTellsText /\ TrailTellsTrash

\* content.py:311-325: a text somebody asked for gets into the entry it was
\* asked for, and only after the other spouse has approved it.
AppliedOnlyIfApproved ==
  \A e, c \in Tasks : text[e] = c /\ consent[c] # NoConsent =>
    /\ consent[c].entry = e
    /\ \E i \in 1 .. Len(trail) :
         /\ trail[i].row = "edit_approve"
         /\ call[trail[i].by].target = c
         /\ SpouseOf[trail[i].by] # SpouseOf[c]
-----------------------------------------------------------------------------
(* Why the trail is to be believed.                                        *)

Decisions == {"approve", "reject"}

\* The entry a request changes, and the row its commit adds to the trail.
EntryOf(t) == IF call[t].op \in Decisions THEN consent[call[t].target].entry ELSE call[t].target
RowOf(t) ==
  CASE call[t].op \notin Decisions -> call[t].op
    [] call[t].op = "approve" ->
         IF consent[call[t].target].action = "edit" THEN "edit_approve" ELSE "delete_approve"
    [] call[t].op = "reject" ->
         IF consent[call[t].target].action = "edit" THEN "edit_reject" ELSE "delete_reject"

\* A request that got past its checks is about a row that is there, and
\* decides for the other spouse only; what an approval has loaded was so.
TaskKnown(t) ==
  /\ pc[t] # "new" => call[t].op # "none" /\ call[t].target \in Tasks
  /\ pc[t] = "decide" => call[t].op \in Decisions
  /\ pc[t] \in {"decide", "commit", "notify", "done"} =>
       /\ call[t].op \in Decisions =>
            consent[call[t].target] # NoConsent /\ SpouseOf[call[t].target] # SpouseOf[t]
       /\ IF call[t].op = "create" THEN call[t].target = t ELSE text[EntryOf(t)] # None
  /\ pc[t] = "commit" /\ call[t].op = "create" => text[t] = None
  /\ pc[t] = "commit" /\ call[t].op = "approve" =>
       /\ \E i \in RowsOf(EntryOf(t), TextRows) : Written(trail[i]) = loaded[t].text
       /\ loaded[t].trashed => RowsOf(EntryOf(t), Deletions) # {}

ConsentKnown(c) ==
  consent[c] # NoConsent =>
    /\ pc[c] \in {"notify", "done"}
    /\ call[c].op \in {"edit_request", "delete_request"}
    /\ consent[c].entry = call[c].target /\ consent[c].action # "none"

EntryKnown(e) ==
  IF text[e] = None
    THEN e \notin trashed /\ \A i \in 1 .. Len(trail) : trail[i].entry # e
    ELSE /\ pc[e] \in {"notify", "done"} /\ call[e].op = "create"
         /\ \E i \in RowsOf(e, TextRows) : Written(trail[i]) = text[e]

RowKnown(r) == pc[r.by] \in {"notify", "done"} /\ r.row = RowOf(r.by) /\ r.entry = EntryOf(r.by)

\* The inductive invariant of the vault.
VaultInv ==
  /\ TypeOK
  /\ \A t \in Tasks : TaskKnown(t) /\ ConsentKnown(t) /\ EntryKnown(t)
  /\ \A i \in 1 .. Len(trail) : RowKnown(trail[i])
  /\ TrailTellsText
  /\ TrailTellsTrash
==============================================================================
