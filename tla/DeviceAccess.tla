---------------------------- MODULE DeviceAccess ----------------------------
(***************************************************************************)
(* Devices, tokens and password resets: backend/app/routers/auth.py        *)
(* (login_password, _issue_full_login, refresh_token_endpoint, the         *)
(* password-reset handlers), backend/app/routers/device.py (listing and    *)
(* removing devices) and backend/app/deps.py.  Handlers load rows, check   *)
(* them and commit later, with other requests in between.  An UPDATE of a  *)
(* row that is gone by then raises, a DELETE of it does not.               *)
(*                                                                         *)
(* A request makes at most one row, named after it: a Device row is the    *)
(* login that inserted it, a reset session the request that opened it, a   *)
(* password the request that set it.  The device that claims a role is the *)
(* first to log in here.                                                   *)
(***************************************************************************)
EXTENDS Naturals, FiniteSets

CONSTANTS
  Phones,       \* installations of the app, each with its device_uuid, each
                \* used by one spouse
  Spouses,      \* both have claimed their role
  Requests,     \* HTTP requests, each handled once
  None          \* no value

ASSUME DeviceAssumption == None \notin Requests \cup Phones \cup Spouses

VARIABLES
  rows,         \* devices: the rows there are
  password,     \* of each spouse: who set it last, None if the claim did
  resets,       \* password_reset_sessions
  refresh,      \* the device id in the refresh token a phone stores
  access,       \* the device id in the unexpired access token a phone stores
  pc,           \* where each request stands
  call,         \* what each request is about
  device,       \* the Device row a request has loaded or inserted
  phoneOf       \* history: the phone whose login inserted a row

vars == <<rows, password, resets, refresh, access, pc, call, device,
          phoneOf>>

NoReset == [role |-> None, approved |-> FALSE, used |-> FALSE, expired |-> FALSE]
NoCall == [op |-> "none", phone |-> None, target |-> None]
Ops == {"login", "refresh", "remove", "initiate", "approve", "complete"}

TypeOK ==
  /\ rows \subseteq Requests
  /\ password \in [Spouses -> Requests \cup {None}]
  /\ resets \in [Requests -> [role : Spouses \cup {None}, approved : BOOLEAN,
                              used : BOOLEAN, expired : BOOLEAN]]
  /\ refresh \in [Phones -> Requests \cup {None}]
  /\ access \in [Phones -> Requests \cup {None}]
  /\ pc \in [Requests -> {"new", "insert", "touch", "commit", "answer", "done",
                          "refused", "failed"}]
  /\ call \in [Requests -> [op : Ops \cup {"none"}, phone : Phones \cup {None},
                            target : Requests \cup {None}]]
  /\ device \in [Requests -> Requests \cup {None}]
  /\ phoneOf \in [Requests -> Phones \cup {None}]

Init ==
  /\ rows = {}
  /\ password = [s \in Spouses |-> None]
  /\ resets = [r \in Requests |-> NoReset]
  /\ refresh = [p \in Phones |-> None]
  /\ access = [p \in Phones |-> None]
  /\ pc = [r \in Requests |-> "new"]
  /\ call = [r \in Requests |-> NoCall]
  /\ device = [r \in Requests |-> None]
  /\ phoneOf = [r \in Requests |-> None]

Goto(r, label) == pc' = [pc EXCEPT ![r] = label]

Begin(r, op, p, target) ==
  /\ pc[r] = "new"
  /\ call' = [call EXCEPT ![r] = [op |-> op, phone |-> p, target |-> target]]

\* get_current_spouse: the token's signature and expiry and that the spouse
\* exists; the Device row is not required to.
Authenticated(p) == access[p] # None

tokenVars == <<refresh, access>>

-----------------------------------------------------------------------------
(* Logging in and refreshing. *)

\* The password is right; _find_device looks for the phone's row.
BeginLogin(r, p) ==
  LET mine == {d \in rows : phoneOf[d] = p}
  IN /\ Begin(r, "login", p, None)
     /\ \/ mine = {} /\ Goto(r, "insert") /\ UNCHANGED device
        \/ \E d \in mine :
             /\ mine = {d}
             /\ device' = [device EXCEPT ![r] = d]
             /\ Goto(r, "touch")
        \/ Cardinality(mine) > 1 /\ Goto(r, "failed") /\ UNCHANGED device
     /\ UNCHANGED <<rows, password, resets, tokenVars, phoneOf>>

InsertDevice(r) ==
  /\ pc[r] = "insert"
  /\ rows' = rows \cup {r}
  /\ device' = [device EXCEPT ![r] = r]
  /\ phoneOf' = [phoneOf EXCEPT ![r] = call[r].phone]
  /\ Goto(r, "answer")
  /\ UNCHANGED <<password, resets, tokenVars, call>>

\* Mutant: a refresh token is good as long as its signature is.
BeginRefreshUnchecked(r, p) ==
  /\ refresh[p] # None
  /\ \/ Begin(r, "refresh", p, None)
     \/ /\ call[r].op = "refresh" /\ pc[r] \in {"done", "refused", "failed"}
        /\ call' = [call EXCEPT ![r].phone = p]
  /\ device' = [device EXCEPT ![r] = refresh[p]]
  /\ Goto(r, "answer")
  /\ UNCHANGED <<rows, password, resets, tokenVars, phoneOf>>

\* POST /auth/refresh: the row named by the token must exist.  A phone does
\* this again and again: a refresh that is over may be followed by another.
BeginRefresh(r, p) ==
  /\ refresh[p] # None
  /\ \/ Begin(r, "refresh", p, None)
     \/ /\ call[r].op = "refresh" /\ pc[r] \in {"done", "refused", "failed"}
        /\ call' = [call EXCEPT ![r].phone = p]
  /\ device' = [device EXCEPT ![r] = refresh[p]]
  /\ Goto(r, IF refresh[p] \in rows THEN "touch" ELSE "refused")
  /\ UNCHANGED <<rows, password, resets, tokenVars, phoneOf>>

\* Mutant: the tokens are made whether the row could be updated or not.
TouchDeviceUnchecked(r) ==
  /\ pc[r] = "touch"
  /\ Goto(r, "answer")
  /\ UNCHANGED <<rows, password, resets, tokenVars, call, device, phoneOf>>

\* Both end in an UPDATE of the row (last_seen_at) before tokens are made.
TouchDevice(r) ==
  /\ pc[r] = "touch"
  /\ Goto(r, IF device[r] \in rows THEN "answer" ELSE "failed")
  /\ UNCHANGED <<rows, password, resets, tokenVars, call, device, phoneOf>>

\* The phone stores what it is answered ...
TakeTokens(r) ==
  /\ pc[r] = "answer"
  /\ access' = [access EXCEPT ![call[r].phone] = device[r]]
  /\ refresh' = IF call[r].op = "login"
                  THEN [refresh EXCEPT ![call[r].phone] = device[r]] ELSE refresh
  /\ Goto(r, "done")
  /\ UNCHANGED <<rows, password, resets, call, device, phoneOf>>

\* ... or never gets the answer.
LoseTokens(r) ==
  /\ pc[r] = "answer"
  /\ Goto(r, "failed")
  /\ UNCHANGED <<rows, password, resets, tokenVars, call, device, phoneOf>>

\* Fifteen minutes pass.
ExpireAccess(p) ==
  /\ access[p] # None
  /\ access' = [access EXCEPT ![p] = None]
  /\ UNCHANGED <<rows, password, resets, refresh, pc, call, device, phoneOf>>

-----------------------------------------------------------------------------
(* The Devices screen.  (Its list only reads.) *)

BeginRemove(r, p, d) ==
  /\ Authenticated(p)
  /\ phoneOf[d] # None
  /\ Begin(r, "remove", p, d)
  /\ Goto(r, IF d \in rows THEN "commit" ELSE "refused")
  /\ UNCHANGED <<rows, password, resets, tokenVars, device, phoneOf>>

CommitRemove(r) ==
  LET d == call[r].target
  IN /\ pc[r] = "commit"
     /\ call[r].op = "remove"
     /\ rows' = rows \ {d}
     /\ Goto(r, "done")
     /\ UNCHANGED <<password, resets, tokenVars, call, device, phoneOf>>

-----------------------------------------------------------------------------
(* Resetting a password. *)

Initiate(r, s) ==
  /\ Begin(r, "initiate", None, None)
  /\ resets' = [resets EXCEPT ![r] = [NoReset EXCEPT !.role = s]]
  /\ Goto(r, "done")
  /\ UNCHANGED <<rows, password, tokenVars, device, phoneOf>>

Open(s) == resets[s] # NoReset /\ ~resets[s].used /\ ~resets[s].expired

BeginApprove(r, p, s) ==
  /\ Authenticated(p)
  /\ resets[s] # NoReset
  /\ Begin(r, "approve", p, s)
  /\ Goto(r, IF Open(s) THEN "commit" ELSE "refused")
  /\ UNCHANGED <<rows, password, resets, tokenVars, device, phoneOf>>

CommitApprove(r) ==
  /\ pc[r] = "commit"
  /\ call[r].op = "approve"
  /\ resets' = [resets EXCEPT ![call[r].target].approved = TRUE]
  /\ Goto(r, "done")
  /\ UNCHANGED <<rows, password, tokenVars, call, device, phoneOf>>

\* Mutant: nobody has to approve the reset.
BeginCompleteUnapproved(r, s) ==
  /\ resets[s] # NoReset
  /\ Begin(r, "complete", None, s)
  /\ Goto(r, IF Open(s) THEN "commit" ELSE "refused")
  /\ UNCHANGED <<rows, password, resets, tokenVars, device, phoneOf>>

BeginComplete(r, s) ==
  /\ resets[s] # NoReset
  /\ Begin(r, "complete", None, s)
  /\ Goto(r, IF Open(s) /\ resets[s].approved THEN "commit" ELSE "refused")
  /\ UNCHANGED <<rows, password, resets, tokenVars, device, phoneOf>>

\* Mutant: the session stays open after it has been used.
CommitCompleteReusable(r) ==
  LET s == call[r].target
  IN /\ pc[r] = "commit"
     /\ call[r].op = "complete"
     /\ password' = [password EXCEPT ![resets[s].role] = r]
     /\ Goto(r, "done")
     /\ UNCHANGED <<rows, resets, tokenVars, call, device, phoneOf>>

\* The devices and tokens of the spouse stay as they are.
CommitComplete(r) ==
  LET s == call[r].target
  IN /\ pc[r] = "commit"
     /\ call[r].op = "complete"
     /\ password' = [password EXCEPT ![resets[s].role] = r]
     /\ resets' = [resets EXCEPT ![s].used = TRUE]
     /\ Goto(r, "done")
     /\ UNCHANGED <<rows, tokenVars, call, device, phoneOf>>

ExpireReset(s) ==
  /\ resets[s] # NoReset /\ ~resets[s].expired
  /\ resets' = [resets EXCEPT ![s].expired = TRUE]
  /\ UNCHANGED <<rows, password, tokenVars, pc, call, device, phoneOf>>

-----------------------------------------------------------------------------
Begins(r) ==
  \/ \E s \in Spouses : Initiate(r, s)
  \/ \E s \in Requests : BeginComplete(r, s)
  \/ \E p \in Phones :
       \/ BeginLogin(r, p) \/ BeginRefresh(r, p)
       \/ \E d \in Requests : BeginRemove(r, p, d) \/ BeginApprove(r, p, d)

Continues(r) ==
  \/ InsertDevice(r) \/ TouchDevice(r) \/ TakeTokens(r) \/ LoseTokens(r)
  \/ CommitRemove(r) \/ CommitApprove(r) \/ CommitComplete(r)

Next ==
  \/ \E r \in Requests : Begins(r) \/ Continues(r) \/ ExpireReset(r)
  \/ \E p \in Phones : ExpireAccess(p)

\* Handlers run to their end, and time passes.
Fairness ==
  /\ \A r \in Requests : WF_vars(Continues(r))
  /\ \A p \in Phones : WF_vars(ExpireAccess(p))

Spec == Init /\ [][Next]_vars
FairSpec == Spec /\ Fairness

-----------------------------------------------------------------------------
(* What makes ResetWasApproved inductive. *)

\* A session that says it is approved was approved by a request that is over.
ApprovedBySomeone ==
  \A s \in Requests : resets[s].approved =>
    \E a \in Requests : call[a].op = "approve" /\ pc[a] = "done" /\ call[a].target = s

\* A session is opened once, by the request it is named after, for a spouse.
OpenedOnce ==
  \A r \in Requests : /\ pc[r] = "new" => resets[r] = NoReset /\ call[r] = NoCall
                      /\ resets[r] # NoReset => resets[r].role \in Spouses

\* An approval or a completion that has been let through is of a session there is, and
\* a completion of an approved one.
LetThrough ==
  \A r \in Requests : pc[r] = "commit" /\ call[r].op \in {"approve", "complete"} =>
    /\ call[r].target \in Requests /\ resets[call[r].target] # NoReset
    /\ call[r].op = "complete" => resets[call[r].target].approved

\* A password that was reset is from a completed request, of a used session.
ResetByCompletion ==
  \A s \in Spouses, r \in Requests : password[s] = r =>
    /\ call[r].op = "complete" /\ pc[r] = "done" /\ call[r].target \in Requests
    /\ LET session == resets[call[r].target]
       IN session.role = s /\ session.used /\ session.approved

AccessInv ==
  TypeOK /\ ApprovedBySomeone /\ OpenedOnce /\ LetThrough /\ ResetByCompletion

-----------------------------------------------------------------------------
\* auth.py:257-290, DECISIONS.md:207-229: no tokens are made for a device that
\* has been removed, not even by a login or a refresh that had loaded its row
\* before: the UPDATE of last_seen_at finds it gone.
TokensNeedTheRow ==
  [][\A r \in Requests :
       pc[r] # "answer" /\ pc'[r] = "answer" => device'[r] \in rows']_vars

\* auth.py:352-370: a password changes only through a reset session of that
\* very role, which a signed-in device has approved.
ResetWasApproved ==
  \A s \in Spouses, r \in Requests : password[s] = r =>
    LET session == resets[call[r].target]
    IN  /\ session.role = s /\ session.used
        /\ \E a \in Requests : /\ call[a].op = "approve" /\ pc[a] = "done"
                               /\ call[a].target = call[r].target

\* deps.py:15-44: removing a device does not end its access token, but the
\* token is the last: sooner or later no phone acts for a removed device.
RemovedIsCutOff ==
  \A d \in Requests :
    (phoneOf[d] # None /\ d \notin rows) ~> [](\A p \in Phones : access[p] # d)
==============================================================================
