----------------------------- MODULE KeyCustody -----------------------------
(***************************************************************************)
(* Where the Vault Master Key goes: generated once by the admin panel's    *)
(* endpoints (backend/app/routers/admin.py), kept in vault_keys, handed    *)
(* out in setup codes and in the answer to a claim                         *)
(* (backend/app/routers/auth.py, claim_role), and stored on the phones     *)
(* (mobile_app/lib/screens/onboarding and providers/session_provider.dart).*)
(* The server never keeps it anywhere else, so two phones with different   *)
(* keys can never read each other's content.                               *)
(*                                                                         *)
(* Handlers load rows and commit later, with other requests in between; a  *)
(* key and a setup code are named after the admin request that made them.  *)
(* The server may crash between any two steps and starts with init_models  *)
(* (backend/app/database.py).                                              *)
(***************************************************************************)
EXTENDS Naturals, Sequences, FiniteSets

CONSTANTS
  Admins,       \* authenticated requests to the admin API, each handled once
  Phones,       \* installations of the app
  Roles,        \* husband and wife
  Deployments,  \* what the server may find when it first starts
  Old,          \* the setup code, and its key, of an older deployment
  None          \* no value

ASSUME KeyAssumption ==
  /\ IsFiniteSet(Admins) /\ IsFiniteSet(Phones)
  /\ Deployments \subseteq {"fresh", "with code", "without code"}
  /\ Old \notin Admins /\ None \notin Admins \cup Roles \cup {Old}

VARIABLES
  up,           \* the server is running
  keys,         \* rows of vault_keys
  codes,        \* rows of setup_codes, oldest first: <<token, key>>
  claimed,      \* roles with a row in spouses
  shown,        \* the QR payloads the admin panel has displayed: <<token, key>>
  admin,        \* each admin request: where it stands and what it has loaded
  claim,        \* each phone's claim request on the server
  phone,        \* each phone: what it has scanned and stored
  winners,      \* history: <<phone, role>> of the claims that were committed
  deployment    \* history: what there was at first

vars == <<up, keys, codes, claimed, shown, admin, claim, phone, winners, deployment>>

Tokens == Admins \cup {Old}
Payloads == Tokens \X Tokens

AdminRequests ==
  [pc : {"new", "vmk", "makeKey", "makeCode", "drop", "done", "failed"},
   op : {"none", "current", "create", "delete"},
   token : Tokens \cup {None}, key : Tokens \cup {None}]

Claims ==
  [pc : {"none", "check", "insert", "won", "taken", "refused"},
   role : Roles \cup {None}, key : Tokens \cup {None}]

PhoneStates ==
  [state : {"blank", "scanned", "asking", "locked", "in"},
   qr : Payloads \cup {None}, key : Tokens \cup {None}]

NewAdmin == [pc |-> "new", op |-> "none", token |-> None, key |-> None]
NoClaim == [pc |-> "none", role |-> None, key |-> None]
Blank == [state |-> "blank", qr |-> None, key |-> None]

TypeOK ==
  /\ up \in BOOLEAN
  /\ keys \subseteq Tokens
  /\ codes \in Seq(Payloads)
  /\ claimed \subseteq Roles
  /\ shown \subseteq Payloads
  /\ admin \in [Admins -> AdminRequests]
  /\ claim \in [Phones -> Claims]
  /\ phone \in [Phones -> PhoneStates]
  /\ winners \subseteq Phones \X Roles
  /\ deployment \in Deployments

\* The roles in `owner`'s domain have been claimed, each by a phone that is
\* still signed in, with the old deployment's key.
ClaimedBy(owner) ==
  /\ claimed = DOMAIN owner
  /\ winners = {<<owner[r], r>> : r \in DOMAIN owner}
  /\ phone = [p \in Phones |-> IF \E r \in DOMAIN owner : owner[r] = p
                              THEN [Blank EXCEPT !.state = "in", !.key = Old] ELSE Blank]

\* A fresh database; or one of the old design, in which the setup code held the
\* only copy of the key and was deleted once both roles were claimed.
Init ==
  /\ up = FALSE
  /\ keys = {}
  /\ shown = {}
  /\ admin = [a \in Admins |-> NewAdmin]
  /\ claim = [p \in Phones |-> NoClaim]
  /\ deployment \in Deployments
  /\ \/ /\ deployment = "fresh"
        /\ codes = << >>
        /\ claimed = {} /\ winners = {}
        /\ phone = [p \in Phones |-> Blank]
     \/ /\ deployment = "with code"
        /\ codes = <<<<Old, Old>>>>
        /\ \E roles \in SUBSET Roles \ {Roles} :
             \E owner \in [roles -> Phones] : ClaimedBy(owner)
     \/ /\ deployment = "without code"
        /\ codes = << >>
        /\ \E owner \in [Roles -> Phones] : ClaimedBy(owner)

CodeOf(token) == {i \in 1 .. Len(codes) : codes[i][1] = token}

-----------------------------------------------------------------------------
\* init_models: a database that has no vault key yet takes over the key of
\* its oldest setup code.
Boot ==
  /\ ~up
  /\ up' = TRUE
  /\ keys' = IF keys = {} /\ codes # << >> THEN {codes[1][2]} ELSE keys
  /\ UNCHANGED <<codes, claimed, shown, admin, claim, phone, winners, deployment>>

\* Requests under way are lost, with everything they have not committed.
Crash ==
  /\ up
  /\ up' = FALSE
  /\ admin' = [a \in Admins |->
       IF admin[a].pc \in {"vmk", "makeKey", "makeCode", "drop"}
         THEN [admin[a] EXCEPT !.pc = "failed"] ELSE admin[a]]
  /\ claim' = [p \in Phones |->
       IF claim[p].pc \in {"check", "insert"} THEN NoClaim ELSE claim[p]]
  /\ UNCHANGED <<keys, codes, claimed, shown, phone, winners, deployment>>

-----------------------------------------------------------------------------
(* The admin panel's endpoints. *)

adminVars == <<up, claimed, claim, phone, winners, deployment>>

Set(a, new) == admin' = [admin EXCEPT ![a] = new]

\* `_code_payload`: what the request answers, and the panel displays.
Display(a, token, key) ==
  /\ shown' = shown \cup {<<token, key>>}
  /\ Set(a, [admin[a] EXCEPT !.pc = "done", !.token = token, !.key = key])

\* The newest setup code is loaded, if there is one; GET stops without it.
LoadCode(a, op) ==
  LET token == IF codes = << >> THEN None ELSE codes[Len(codes)][1]
  IN /\ up
     /\ admin[a].pc = "new"
     /\ op \in {"current", "create"}
     /\ Set(a, [pc |-> IF op = "current" /\ token = None THEN "done" ELSE "vmk",
                op |-> op, token |-> token, key |-> None])
     /\ UNCHANGED <<adminVars, keys, codes, shown>>

\* What is done with the vault key once it is known.
UseKey(a, key) ==
  IF admin[a].token = None
    THEN /\ Set(a, [admin[a] EXCEPT !.pc = "makeCode", !.key = key])
         /\ UNCHANGED shown
    ELSE Display(a, admin[a].token, key)

\* _get_or_create_vmk: scalar_one_or_none raises if there are two rows.
LoadKey(a) ==
  /\ up
  /\ admin[a].pc = "vmk"
  /\ \/ /\ keys = {}
        /\ Set(a, [admin[a] EXCEPT !.pc = "makeKey"])
        /\ UNCHANGED shown
     \/ \E key \in keys : keys = {key} /\ UseKey(a, key)
     \/ /\ Cardinality(keys) > 1
        /\ Set(a, [admin[a] EXCEPT !.pc = "failed"])
        /\ UNCHANGED shown
  /\ UNCHANGED <<adminVars, keys, codes>>

\* Mutant: the new key is handed out without being committed.
CommitKeyNever(a) ==
  /\ up
  /\ admin[a].pc = "makeKey"
  /\ UseKey(a, a)
  /\ UNCHANGED <<adminVars, keys, codes>>

CommitKey(a) ==
  /\ up
  /\ admin[a].pc = "makeKey"
  /\ keys' = keys \cup {a}
  /\ UseKey(a, a)
  /\ UNCHANGED <<adminVars, codes>>

\* Mutant: every new setup code comes with a key of its own.
CommitCodeAndKey(a) ==
  /\ up
  /\ admin[a].pc = "makeCode"
  /\ codes' = Append(codes, <<a, a>>)
  /\ Display(a, a, a)
  /\ UNCHANGED <<adminVars, keys>>

CommitCode(a) ==
  /\ up
  /\ admin[a].pc = "makeCode"
  /\ codes' = Append(codes, <<a, admin[a].key>>)
  /\ Display(a, a, admin[a].key)
  /\ UNCHANGED <<adminVars, keys>>

\* DELETE /setup-codes/{token}: of a code the panel displays.
LoadDeleted(a, token) ==
  /\ up
  /\ admin[a].pc = "new"
  /\ \E payload \in shown : payload[1] = token
  /\ Set(a, [pc |-> IF CodeOf(token) = {} THEN "done" ELSE "drop",
             op |-> "delete", token |-> token, key |-> None])
  /\ UNCHANGED <<adminVars, keys, codes, shown>>

\* The row that was loaded goes, unless another request has deleted it.
CommitDelete(a) ==
  /\ up
  /\ admin[a].pc = "drop"
  /\ \/ CodeOf(admin[a].token) = {} /\ UNCHANGED codes
     \/ \E i \in CodeOf(admin[a].token) :
          codes' = [j \in 1 .. Len(codes) - 1 |-> IF j < i THEN codes[j] ELSE codes[j + 1]]
  /\ Set(a, [admin[a] EXCEPT !.pc = "done"])
  /\ UNCHANGED <<adminVars, keys, shown>>

-----------------------------------------------------------------------------
(* claim_role on the server. *)

serverVars == <<up, keys, codes, shown, admin, deployment>>

\* The code must still exist; its key is what the answer will carry.
LoadClaim(p) ==
  LET found == CodeOf(phone[p].qr[1])
  IN /\ up
     /\ phone[p].state = "asking" /\ claim[p].pc = "none" /\ claim[p].role # None
     /\ claim' = [claim EXCEPT ![p] =
          IF found = {} THEN [@ EXCEPT !.pc = "refused"]
          ELSE [@ EXCEPT !.pc = "check", !.key = codes[CHOOSE i \in found : TRUE][2]]]
     /\ UNCHANGED <<serverVars, claimed, phone, winners>>

CheckRole(p) ==
  /\ up
  /\ claim[p].pc = "check"
  /\ claim' = [claim EXCEPT ![p].pc = IF claim[p].role \in claimed THEN "taken" ELSE "insert"]
  /\ UNCHANGED <<serverVars, claimed, phone, winners>>

\* Mutant: the role of a spouse is not UNIQUE.
CommitClaimAnyway(p) ==
  /\ up
  /\ claim[p].pc = "insert"
  /\ claimed' = claimed \cup {claim[p].role}
  /\ winners' = winners \cup {<<p, claim[p].role>>}
  /\ claim' = [claim EXCEPT ![p].pc = "won"]
  /\ UNCHANGED <<serverVars, phone>>

\* The new Spouse and Device rows, or the role's UNIQUE constraint raises.
CommitClaim(p) ==
  LET r == claim[p].role
  IN /\ up
     /\ claim[p].pc = "insert"
     /\ \/ /\ r \notin claimed
           /\ claimed' = claimed \cup {r}
           /\ winners' = winners \cup {<<p, r>>}
           /\ claim' = [claim EXCEPT ![p].pc = "won"]
        \/ /\ r \in claimed
           /\ claim' = [claim EXCEPT ![p].pc = "refused"]
           /\ UNCHANGED <<claimed, winners>>
     /\ UNCHANGED <<serverVars, phone>>

-----------------------------------------------------------------------------
(* The phones. *)

SetPhone(p, new) == phone' = [phone EXCEPT ![p] = new]

Scan(p, payload) ==
  /\ phone[p].state \in {"blank", "scanned"}
  /\ payload \in shown
  /\ SetPhone(p, [state |-> "scanned", qr |-> payload, key |-> None])
  /\ UNCHANGED <<serverVars, claimed, claim, winners>>

\* _submit: the claim is sent.
AskClaim(p, r) ==
  /\ phone[p].state = "scanned"
  /\ SetPhone(p, [phone[p] EXCEPT !.state = "asking"])
  /\ claim' = [claim EXCEPT ![p] = [NoClaim EXCEPT !.role = r]]
  /\ UNCHANGED <<serverVars, claimed, winners>>

\* The answer: the key of the code row if the claim went through, the key of
\* the scanned payload if the role is taken, an error otherwise.
TakeAnswer(p) ==
  /\ phone[p].state = "asking"
  /\ \/ /\ claim[p].pc = "won"
        /\ SetPhone(p, [phone[p] EXCEPT !.state = "in", !.key = claim[p].key])
     \/ /\ claim[p].pc = "taken"
        /\ SetPhone(p, [phone[p] EXCEPT !.state = "locked", !.key = phone[p].qr[2]])
     \/ /\ claim[p].pc = "refused"
        /\ SetPhone(p, [phone[p] EXCEPT !.state = "scanned"])
  /\ claim' = [claim EXCEPT ![p] = NoClaim]
  /\ UNCHANGED <<serverVars, claimed, winners>>

\* The request fails or its answer is lost: the form is shown again.  (A claim
\* that is still being handled then has been given up by the client; what it
\* commits later is covered by the answer being lost after the commit.)
LoseAnswer(p) ==
  /\ phone[p].state = "asking"
  /\ claim[p].pc \in {"none", "won", "taken", "refused"}
  /\ SetPhone(p, [phone[p] EXCEPT !.state = "scanned"])
  /\ claim' = [claim EXCEPT ![p] = NoClaim]
  /\ UNCHANGED <<serverVars, claimed, winners>>

\* beginPairing with the payload another signed-in phone displays.
Pair(p, q) ==
  /\ phone[p].state = "blank" /\ phone[q].state = "in"
  /\ SetPhone(p, [state |-> "locked", qr |-> None, key |-> phone[q].key])
  /\ UNCHANGED <<serverVars, claimed, claim, winners>>

\* completeLogin keeps the stored key.
Login(p) ==
  /\ up
  /\ phone[p].state = "locked"
  /\ SetPhone(p, [phone[p] EXCEPT !.state = "in"])
  /\ UNCHANGED <<serverVars, claimed, claim, winners>>

Forget(p) ==
  /\ phone[p].state \in {"locked", "in"}
  /\ SetPhone(p, Blank)
  /\ UNCHANGED <<serverVars, claimed, claim, winners>>

-----------------------------------------------------------------------------
AdminStep(a) ==
  \/ \E op \in {"current", "create"} : LoadCode(a, op)
  \/ LoadKey(a) \/ CommitKey(a) \/ CommitCode(a) \/ CommitDelete(a)
  \/ \E token \in Tokens : LoadDeleted(a, token)

PhoneStep(p) ==
  \/ \E payload \in Payloads : Scan(p, payload)
  \/ \E r \in Roles : AskClaim(p, r)
  \/ LoadClaim(p) \/ CheckRole(p) \/ CommitClaim(p)
  \/ TakeAnswer(p) \/ LoseAnswer(p) \/ Login(p) \/ Forget(p)
  \/ \E q \in Phones : Pair(p, q)

Next ==
  \/ Boot \/ Crash
  \/ \E a \in Admins : AdminStep(a)
  \/ \E p \in Phones : PhoneStep(p)

Spec == Init /\ [][Next]_vars

-----------------------------------------------------------------------------
\* The keys the server has stored or handed out, and those on the phones.
ServerKeys ==
  keys \cup {codes[i][2] : i \in 1 .. Len(codes)} \cup {payload[2] : payload \in shown}
PhoneKeys == {phone[p].key : p \in Phones} \ {None}

\* The key that an upgrade cannot recover (database.py:71-74): no code is left.
Unrecoverable == IF deployment = "without code" THEN {Old} ELSE {}

\* admin.py:120-125, setup.py:27-33, database.py:65-83: as long as vault_keys
\* has at most one row, deleting and regenerating codes, crashing half-way,
\* retrying a claim, pairing and upgrading an old deployment never bring a
\* second key into the world once the server has started, but for the one
\* that a deployment without a code was using: phones keep that one and hand
\* it on by pairing, and the server never does.
KeyIsKept ==
  up /\ Cardinality(keys) <= 1 =>
    /\ Cardinality((ServerKeys \cup PhoneKeys) \ Unrecoverable) <= 1
    /\ ServerKeys \cap Unrecoverable = {}

\* auth.py:125-149, user.py:21: a role is claimed by one phone, ever, even if
\* two try at once, or one retries because the answer to its claim was lost.
ClaimedOnce ==
  \A v, w \in winners : v[2] = w[2] => v = w

-----------------------------------------------------------------------------
(* Why these hold: the conjuncts of an inductive invariant. *)

WinnersClaimed == \A w \in winners : w[2] \in claimed

\* What a request or a phone is about to use, it has loaded.
LoadedBeforeUse ==
  /\ \A a \in Admins : admin[a].pc = "makeCode" => admin[a].key # None
  /\ \A p \in Phones :
       /\ claim[p].pc \in {"check", "insert"} => claim[p].role \in Roles
       /\ phone[p].state \in {"scanned", "asking"} => phone[p].qr \in shown

\* The older deployment's database, before init_models has seen it.
NotUpgraded ==
  /\ deployment = "with code"
  /\ ~up /\ keys = {} /\ shown = {} /\ codes = <<<<Old, Old>>>>
  /\ \A a \in Admins : admin[a].key = None
  /\ \A p \in Phones : claim[p] = NoClaim /\ phone[p].key \in {Old, None}

\* Every key that anyone holds, loaded or stored, is a row of vault_keys, or on a
\* phone the one that could not be recovered.
OnlyStoredKeys ==
  /\ keys \cap Unrecoverable = {}
  /\ \A i \in 1 .. Len(codes) : codes[i][2] \in keys
  /\ \A payload \in shown : payload[2] \in keys
  /\ \A a \in Admins : admin[a].key \in keys \cup {None}
  /\ \A p \in Phones : claim[p].key \in keys \cup {None}
  /\ \A p \in Phones : phone[p].key \in keys \cup {None} \cup Unrecoverable

KeyInv ==
  /\ TypeOK
  /\ WinnersClaimed /\ ClaimedOnce
  /\ LoadedBeforeUse
  /\ NotUpgraded \/ OnlyStoredKeys

-----------------------------------------------------------------------------
\* setup.py:30-33: "every device that has ever claimed a role, or ever will,
\* must end up with this SAME key or they can't decrypt each other's content.
\* Exactly one row is meant to ever exist."
OneKey ==
  \A p, q \in Phones :
    phone[p].state = "in" /\ phone[q].state = "in" => phone[p].key = phone[q].key
==============================================================================
