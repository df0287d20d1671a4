-------------------------- MODULE KeyCustodyProofs --------------------------
(* Proofs about KeyCustody, for any admin requests, phones and roles: a role *)
(* is claimed once, and while there is one vault key there is only that one. *)
EXTENDS KeyCustody, TLAPS

USE DEF Set, SetPhone, NewAdmin, NoClaim, Blank, adminVars, serverVars, Tokens, Payloads

\* What is left when a row is deleted was there before.
LEMMA RowDeleted ==
  ASSUME NEW S, NEW s \in Seq(S), NEW i \in 1 .. Len(s),
         NEW t, t = [j \in 1 .. Len(s) - 1 |-> IF j < i THEN s[j] ELSE s[j + 1]]
  PROVE  t \in Seq(S) /\ \A j \in 1 .. Len(t) : \E k \in 1 .. Len(s) : t[j] = s[k]
<1>1. Len(s) \in Nat /\ Len(s) - 1 \in Nat
  OBVIOUS
<1>2. ASSUME NEW j \in 1 .. Len(s) - 1 PROVE \E k \in 1 .. Len(s) : t[j] = s[k]
  <2>1. CASE j < i
    BY <1>1, <1>2, <2>1
  <2>2. CASE ~(j < i)
    <3>1. t[j] = s[j + 1] /\ j + 1 \in 1 .. Len(s)
      BY <1>1, <1>2, <2>2
    <3> QED
      BY <3>1
  <2> QED
    BY <2>1, <2>2
<1>3. t \in [1 .. Len(s) - 1 -> S]
  BY <1>1, <1>2
<1>4. t \in Seq(S) /\ Len(t) = Len(s) - 1
  BY <1>1, <1>3
<1> QED
  BY <1>2, <1>4

\* The names are told apart.
LEMMA Names == Old \notin Admins /\ None \notin Admins \cup Roles \cup {Old}
BY KeyAssumption DEF KeyAssumption

LEMMA UseKeyTyped ==
  ASSUME TypeOK, NEW a \in Admins, NEW key \in Tokens, UseKey(a, key)
  PROVE  /\ admin' \in [Admins -> AdminRequests]
         /\ shown' \subseteq Payloads /\ \A new \in shown' \ shown : new[2] = key
         /\ shown \subseteq shown'
         /\ admin'[a].key = key /\ \A b \in Admins \ {a} : admin'[b] = admin[b]
<1>1. admin[a] \in AdminRequests /\ shown \subseteq Payloads
  BY DEF TypeOK
<1>2. CASE admin[a].token = None
  <2>1. admin' = [admin EXCEPT ![a] = [admin[a] EXCEPT !.pc = "makeCode", !.key = key]]
    BY <1>2 DEF UseKey
  <2>2. [admin[a] EXCEPT !.pc = "makeCode", !.key = key] \in AdminRequests
    BY <1>1 DEF AdminRequests
  <2> QED
    BY <1>1, <1>2, <2>1, <2>2 DEF UseKey, TypeOK
<1>3. CASE admin[a].token # None
  <2> DEFINE token == admin[a].token
             new == [admin[a] EXCEPT !.pc = "done", !.token = token, !.key = key]
  <2>1. token \in Tokens
    BY <1>1, <1>3 DEF AdminRequests
  <2>2. new \in AdminRequests
    BY <1>1, <2>1 DEF AdminRequests
  <2>3. admin' = [admin EXCEPT ![a] = new] /\ shown' = shown \cup {<<token, key>>}
    BY <1>3 DEF UseKey, Display
  <2> QED
    BY <1>1, <2>1, <2>2, <2>3 DEF TypeOK
<1> QED
  BY <1>2, <1>3

LEMMA InitHolds == Init => KeyInv
<1> SUFFICES ASSUME Init PROVE KeyInv
  OBVIOUS
<1>1. \A a \in Admins : admin[a] = NewAdmin
  BY DEF Init
<1>2. \A p \in Phones : claim[p] = NoClaim
  BY DEF Init
<1>3. \/ \E roles \in SUBSET Roles : \E owner \in [roles -> Phones] : ClaimedBy(owner)
      \/ claimed = {} /\ winners = {} /\ phone = [p \in Phones |-> Blank]
  <2>1. Roles \in SUBSET Roles
    OBVIOUS
  <2> QED
    BY <2>1 DEF Init
<1>4. Blank \in PhoneStates /\ [Blank EXCEPT !.state = "in", !.key = Old] \in PhoneStates
  BY DEF PhoneStates
<1>5. /\ claimed \subseteq Roles /\ winners \subseteq Phones \X Roles
      /\ WinnersClaimed /\ ClaimedOnce
  <2>1. ASSUME NEW roles \in SUBSET Roles, NEW owner \in [roles -> Phones], ClaimedBy(owner)
        PROVE  /\ claimed \subseteq Roles /\ winners \subseteq Phones \X Roles
               /\ WinnersClaimed /\ ClaimedOnce
    <3>1. claimed = roles /\ winners = {<<owner[r], r>> : r \in roles}
      BY <2>1 DEF ClaimedBy
    <3> QED
      BY <3>1 DEF WinnersClaimed, ClaimedOnce
  <2>2. CASE claimed = {} /\ winners = {}
    BY <2>2 DEF WinnersClaimed, ClaimedOnce
  <2> QED
    BY <1>3, <2>1, <2>2
<1>6. /\ phone \in [Phones -> PhoneStates]
      /\ \A p \in Phones : phone[p].state \in {"blank", "in"} /\ phone[p].key \in {Old, None}
      /\ deployment = "fresh" => \A p \in Phones : phone[p].key = None
  <2>1. ASSUME NEW roles \in SUBSET Roles, NEW owner \in [roles -> Phones], ClaimedBy(owner)
        PROVE  /\ phone \in [Phones -> PhoneStates]
               /\ \A p \in Phones : phone[p].state \in {"blank", "in"} /\ phone[p].key \in {Old, None}
               /\ deployment = "fresh" => \A p \in Phones : phone[p].key = None
    <3>1. deployment # "fresh" \/ phone = [p \in Phones |-> Blank]
      BY DEF Init
    <3>2. \A p \in Phones : phone[p] \in {Blank, [state |-> "in", qr |-> None, key |-> Old]}
      BY <2>1 DEF ClaimedBy
    <3>3. phone \in [Phones -> PhoneStates]
      BY <1>4, <2>1 DEF ClaimedBy
    <3>4. \A p \in Phones : phone[p].state \in {"blank", "in"} /\ phone[p].key \in {Old, None}
      BY <3>2, SMTT(30) DEF Blank
    <3>5. phone = [p \in Phones |-> Blank] => \A p \in Phones : phone[p].key = None
      BY ONLY TRUE DEF Blank
    <3> QED
      BY <3>1, <3>3, <3>4, <3>5
  <2>2. CASE phone = [p \in Phones |-> Blank]
    BY <1>4, <2>2
  <2> QED
    BY <1>3, <2>1, <2>2
<1>7. codes \in Seq(Payloads)
  <2>1. <<Old, Old>> \in Payloads
    OBVIOUS
  <2>2. << >> \in Seq(Payloads) /\ <<<<Old, Old>>>> \in Seq(Payloads)
    BY <2>1
  <2> QED
    BY <2>2 DEF Init
<1>8. TypeOK
  <2>1. admin \in [Admins -> AdminRequests]
    BY DEF Init, AdminRequests
  <2>2. claim \in [Phones -> Claims]
    BY DEF Init, Claims
  <2> QED
    BY <1>5, <1>6, <1>7, <2>1, <2>2 DEF Init, TypeOK
<1>9. LoadedBeforeUse
  BY <1>1, <1>2, <1>6 DEF LoadedBeforeUse
<1>10. NotUpgraded \/ OnlyStoredKeys
  <2>1. CASE deployment = "fresh" \/ deployment = "without code"
    <3>1. codes = << >> /\ keys = {} /\ shown = {}
      BY <2>1 DEF Init
    <3>2. \A p \in Phones : phone[p].key \in {None} \cup Unrecoverable
      BY <1>6, <2>1 DEF Unrecoverable
    <3> QED
      BY <1>1, <1>2, <3>1, <3>2 DEF OnlyStoredKeys
  <2>2. CASE deployment = "with code"
    <3>1. codes = <<<<Old, Old>>>> /\ ~up /\ keys = {} /\ shown = {}
      BY <2>2 DEF Init
    <3>2. \A a \in Admins : admin[a].key = None
      BY <1>1
    <3> QED
      BY <1>2, <1>6, <2>2, <3>1, <3>2, Zenon DEF NotUpgraded
  <2> QED
    BY <2>1, <2>2 DEF Init
<1> QED
  BY <1>5, <1>8, <1>9, <1>10 DEF KeyInv

-----------------------------------------------------------------------------
LEMMA TypeStep == KeyInv /\ [Next]_vars => TypeOK'
<1> SUFFICES ASSUME KeyInv, [Next]_vars PROVE TypeOK'
  OBVIOUS
<1> USE DEF KeyInv, TypeOK
<1>1. CASE Boot
  BY <1>1, Names DEF Boot, AdminRequests, Claims, PhoneStates
<1>2. CASE Crash
  <2>1. ASSUME NEW a \in Admins PROVE admin'[a] \in AdminRequests
    BY <1>2, <2>1 DEF Crash, AdminRequests
  <2>2. ASSUME NEW p \in Phones PROVE claim'[p] \in Claims
    BY <1>2, <2>2 DEF Crash, Claims
  <2> QED
    BY <1>2, <2>1, <2>2 DEF Crash
<1>3. ASSUME NEW a \in Admins, NEW op \in {"current", "create"}, LoadCode(a, op) PROVE TypeOK'
  BY <1>3, Names DEF LoadCode, AdminRequests, Claims, PhoneStates
<1>4. ASSUME NEW a \in Admins, LoadKey(a) PROVE TypeOK'
  <2>1. ASSUME NEW key \in keys, UseKey(a, key) PROVE TypeOK'
    BY <1>4, <2>1, UseKeyTyped DEF LoadKey
  <2>2. ASSUME NEW pc \in {"makeKey", "failed"},
               Set(a, [admin[a] EXCEPT !.pc = pc]), UNCHANGED shown
        PROVE  TypeOK'
    <3>1. [admin[a] EXCEPT !.pc = pc] \in AdminRequests
      BY DEF AdminRequests
    <3>2. admin' \in [Admins -> AdminRequests]
      BY <2>2, <3>1
    <3> QED
      BY <1>4, <2>2, <3>2 DEF LoadKey
  <2> QED
    BY <1>4, <2>1, <2>2 DEF LoadKey
<1>5. ASSUME NEW a \in Admins, CommitKey(a) PROVE TypeOK'
  <2>1. a \in Tokens
    OBVIOUS
  <2>2. UseKey(a, a)
    BY <1>5 DEF CommitKey
  <2> QED
    BY <1>5, <2>1, <2>2, UseKeyTyped DEF CommitKey
<1>6. ASSUME NEW a \in Admins, CommitCode(a) PROVE TypeOK'
  <2> DEFINE key == admin[a].key
             new == [admin[a] EXCEPT !.pc = "done", !.token = a, !.key = key]
  <2>1. key \in Tokens
    BY <1>6 DEF CommitCode, LoadedBeforeUse, AdminRequests
  <2>2. new \in AdminRequests
    BY <2>1, ZenonT(30) DEF AdminRequests
  <2>3. admin' = [admin EXCEPT ![a] = new]
    BY <1>6 DEF CommitCode, Display
  <2>4. admin' \in [Admins -> AdminRequests]
    BY <2>2, <2>3
  <2>5. <<a, key>> \in Payloads
    BY <2>1
  <2>6. codes' \in Seq(Payloads) /\ shown' \subseteq Payloads
    BY <1>6, <2>5 DEF CommitCode, Display
  <2> QED
    BY <1>6, <2>4, <2>6 DEF CommitCode
<1>7. ASSUME NEW a \in Admins, CommitDelete(a) PROVE TypeOK'
  <2>1. codes' \in Seq(Payloads)
    BY <1>7, RowDeleted DEF CommitDelete, CodeOf
  <2> QED
    BY <1>7, <2>1 DEF CommitDelete, AdminRequests
<1>8. ASSUME NEW a \in Admins, NEW token \in Tokens, LoadDeleted(a, token) PROVE TypeOK'
  BY <1>8, Names DEF LoadDeleted, CodeOf, AdminRequests, Claims, PhoneStates
<1>9. ASSUME NEW p \in Phones, NEW payload \in Payloads, Scan(p, payload) PROVE TypeOK'
  BY <1>9, Names DEF Scan, AdminRequests, Claims, PhoneStates
<1>10. ASSUME NEW p \in Phones, NEW r \in Roles, AskClaim(p, r) PROVE TypeOK'
  <2>1. [NoClaim EXCEPT !.role = r] \in Claims
    BY DEF Claims
  <2>2. claim' \in [Phones -> Claims]
    BY <1>10, <2>1 DEF AskClaim
  <2> QED
    BY <1>10, <2>2 DEF AskClaim, PhoneStates
<1>11. ASSUME NEW p \in Phones, LoadClaim(p) PROVE TypeOK'
  <2> DEFINE found == CodeOf(phone[p].qr[1])
             i == CHOOSE i \in found : TRUE
  <2>1. found # {} => codes[i][2] \in Tokens
    BY DEF CodeOf
  <2>2. claim'[p] \in Claims
    <3>1. CASE found = {}
      BY <1>11, <3>1 DEF LoadClaim, Claims
    <3>2. CASE found # {}
      <4>1. PICK key \in Tokens : claim'[p] = [claim[p] EXCEPT !.pc = "check", !.key = key]
        BY <1>11, <2>1, <3>2 DEF LoadClaim
      <4>2. claim[p] \in Claims
        OBVIOUS
      <4> QED
        BY <4>1, <4>2 DEF Claims
    <3> QED
      BY <3>1, <3>2
  <2>3. claim' \in [Phones -> Claims]
    BY <1>11, <2>2 DEF LoadClaim
  <2> QED
    BY <1>11, <2>3 DEF LoadClaim
<1>12. ASSUME NEW p \in Phones, CheckRole(p) PROVE TypeOK'
  BY <1>12, Names DEF CheckRole, AdminRequests, Claims, PhoneStates
<1>13. ASSUME NEW p \in Phones, CommitClaim(p) PROVE TypeOK'
  <2>1. claim[p].role \in Roles
    BY <1>13 DEF CommitClaim, LoadedBeforeUse
  <2>2. claim' \in [Phones -> Claims]
    BY <1>13 DEF CommitClaim, Claims
  <2>3. claimed' \subseteq Roles /\ winners' \subseteq Phones \X Roles
    BY <1>13, <2>1 DEF CommitClaim
  <2> QED
    BY <1>13, <2>2, <2>3 DEF CommitClaim
<1>14. ASSUME NEW p \in Phones, TakeAnswer(p) PROVE TypeOK'
  <2>1. phone[p].qr[2] \in Tokens
    BY <1>14 DEF TakeAnswer, LoadedBeforeUse
  <2>2. phone' \in [Phones -> PhoneStates]
    <3>1. CASE phone' = [phone EXCEPT ![p] = [phone[p] EXCEPT !.state = "in", !.key = claim[p].key]]
      BY <3>1 DEF Claims, PhoneStates
    <3>2. CASE phone' = [phone EXCEPT ![p] = [phone[p] EXCEPT !.state = "locked", !.key = phone[p].qr[2]]]
      BY <2>1, <3>2, ZenonT(30) DEF PhoneStates
    <3>3. CASE phone' = [phone EXCEPT ![p] = [phone[p] EXCEPT !.state = "scanned"]]
      BY <3>3 DEF PhoneStates
    <3> QED
      BY <1>14, <3>1, <3>2, <3>3 DEF TakeAnswer
  <2> QED
    BY <1>14, <2>2 DEF TakeAnswer, Claims
<1>15. ASSUME NEW p \in Phones, LoseAnswer(p) PROVE TypeOK'
  BY <1>15, Names DEF LoseAnswer, AdminRequests, Claims, PhoneStates
<1>16. ASSUME NEW p \in Phones, Login(p) PROVE TypeOK'
  BY <1>16, Names, SMTT(30) DEF Login, AdminRequests, Claims, PhoneStates
<1>17. ASSUME NEW p \in Phones, Forget(p) PROVE TypeOK'
  BY <1>17, Names DEF Forget, AdminRequests, Claims, PhoneStates
<1>18. ASSUME NEW p \in Phones, NEW q \in Phones, Pair(p, q) PROVE TypeOK'
  BY <1>18, Names DEF Pair, AdminRequests, Claims, PhoneStates
<1>19. CASE UNCHANGED vars
  BY <1>19 DEF vars, AdminRequests, Claims, PhoneStates
<1> QED
  BY <1>1, <1>2, <1>3, <1>4, <1>5, <1>6, <1>7, <1>8, <1>9, <1>10, <1>11, <1>12, <1>13, <1>14, <1>15, <1>16, <1>17, <1>18, <1>19 DEF Next, AdminStep, PhoneStep

LEMMA ClaimsStep == KeyInv /\ [Next]_vars => (WinnersClaimed /\ ClaimedOnce)'
<1> SUFFICES ASSUME KeyInv, [Next]_vars PROVE (WinnersClaimed /\ ClaimedOnce)'
  OBVIOUS
<1> USE DEF KeyInv, TypeOK, WinnersClaimed, ClaimedOnce
<1>1. CASE Boot
  BY <1>1 DEF Boot
<1>2. CASE Crash
  BY <1>2 DEF Crash
<1>3. ASSUME NEW a \in Admins, NEW op \in {"current", "create"}, LoadCode(a, op) PROVE (WinnersClaimed /\ ClaimedOnce)'
  BY <1>3 DEF LoadCode
<1>4. ASSUME NEW a \in Admins, LoadKey(a) PROVE (WinnersClaimed /\ ClaimedOnce)'
  BY <1>4 DEF LoadKey
<1>5. ASSUME NEW a \in Admins, CommitKey(a) PROVE (WinnersClaimed /\ ClaimedOnce)'
  BY <1>5 DEF CommitKey
<1>6. ASSUME NEW a \in Admins, CommitCode(a) PROVE (WinnersClaimed /\ ClaimedOnce)'
  BY <1>6 DEF CommitCode
<1>7. ASSUME NEW a \in Admins, CommitDelete(a) PROVE (WinnersClaimed /\ ClaimedOnce)'
  BY <1>7 DEF CommitDelete
<1>8. ASSUME NEW a \in Admins, NEW token \in Tokens, LoadDeleted(a, token) PROVE (WinnersClaimed /\ ClaimedOnce)'
  BY <1>8 DEF LoadDeleted, CodeOf
<1>9. ASSUME NEW p \in Phones, NEW payload \in Payloads, Scan(p, payload) PROVE (WinnersClaimed /\ ClaimedOnce)'
  BY <1>9 DEF Scan
<1>10. ASSUME NEW p \in Phones, NEW r \in Roles, AskClaim(p, r) PROVE (WinnersClaimed /\ ClaimedOnce)'
  BY <1>10 DEF AskClaim
<1>11. ASSUME NEW p \in Phones, LoadClaim(p) PROVE (WinnersClaimed /\ ClaimedOnce)'
  BY <1>11 DEF LoadClaim
<1>12. ASSUME NEW p \in Phones, CheckRole(p) PROVE (WinnersClaimed /\ ClaimedOnce)'
  BY <1>12 DEF CheckRole
<1>13. ASSUME NEW p \in Phones, CommitClaim(p) PROVE (WinnersClaimed /\ ClaimedOnce)'
  <2> DEFINE r == claim[p].role
  <2>1. CASE r \notin claimed /\ claimed' = claimed \cup {r} /\ winners' = winners \cup {<<p, r>>}
    <3>1. \A w \in winners : w[2] # r
      BY <2>1
    <3>2. WinnersClaimed'
      BY <2>1
    <3>3. ASSUME NEW v \in winners', NEW w \in winners', v[2] = w[2] PROVE v = w
      BY <2>1, <3>1, <3>3
    <3> QED
      BY <3>2, <3>3
  <2>2. CASE UNCHANGED <<claimed, winners>>
    BY <2>2
  <2> QED
    BY <1>13, <2>1, <2>2 DEF CommitClaim
<1>14. ASSUME NEW p \in Phones, TakeAnswer(p) PROVE (WinnersClaimed /\ ClaimedOnce)'
  BY <1>14 DEF TakeAnswer
<1>15. ASSUME NEW p \in Phones, LoseAnswer(p) PROVE (WinnersClaimed /\ ClaimedOnce)'
  BY <1>15 DEF LoseAnswer
<1>16. ASSUME NEW p \in Phones, Login(p) PROVE (WinnersClaimed /\ ClaimedOnce)'
  BY <1>16 DEF Login
<1>17. ASSUME NEW p \in Phones, Forget(p) PROVE (WinnersClaimed /\ ClaimedOnce)'
  BY <1>17 DEF Forget
<1>18. ASSUME NEW p \in Phones, NEW q \in Phones, Pair(p, q) PROVE (WinnersClaimed /\ ClaimedOnce)'
  BY <1>18 DEF Pair
<1>19. CASE UNCHANGED vars
  BY <1>19 DEF vars
<1> QED
  BY <1>1, <1>2, <1>3, <1>4, <1>5, <1>6, <1>7, <1>8, <1>9, <1>10, <1>11, <1>12, <1>13, <1>14, <1>15, <1>16, <1>17, <1>18, <1>19 DEF Next, AdminStep, PhoneStep

LEMMA LoadedStep == KeyInv /\ [Next]_vars => LoadedBeforeUse'
<1> SUFFICES ASSUME KeyInv, [Next]_vars PROVE LoadedBeforeUse'
  OBVIOUS
<1> USE DEF KeyInv, TypeOK, LoadedBeforeUse
<1>1. CASE Boot
  BY <1>1, Names DEF Boot, AdminRequests, Claims, PhoneStates
<1>2. CASE Crash
  BY <1>2, Names DEF Crash, AdminRequests, Claims, PhoneStates
<1>3. ASSUME NEW a \in Admins, NEW op \in {"current", "create"}, LoadCode(a, op) PROVE LoadedBeforeUse'
  BY <1>3, Names DEF LoadCode, AdminRequests, Claims, PhoneStates
<1>4. ASSUME NEW a \in Admins, LoadKey(a) PROVE LoadedBeforeUse'
  <2>1. ASSUME NEW key \in keys, UseKey(a, key) PROVE LoadedBeforeUse'
    BY <1>4, <2>1, UseKeyTyped, Names DEF LoadKey
  <2>2. ASSUME NEW pc \in {"makeKey", "failed"},
               Set(a, [admin[a] EXCEPT !.pc = pc]), UNCHANGED shown
        PROVE  LoadedBeforeUse'
    <3>1. \A b \in Admins : admin'[b].pc = "makeCode" => admin'[b].key # None
      BY <2>2 DEF AdminRequests
    <3> QED
      BY <1>4, <2>2, <3>1 DEF LoadKey
  <2> QED
    BY <1>4, <2>1, <2>2 DEF LoadKey
<1>5. ASSUME NEW a \in Admins, CommitKey(a) PROVE LoadedBeforeUse'
  <2>1. UseKey(a, a) /\ a \in Tokens
    BY <1>5 DEF CommitKey
  <2> QED
    BY <1>5, <2>1, UseKeyTyped, Names DEF CommitKey
<1>6. ASSUME NEW a \in Admins, CommitCode(a) PROVE LoadedBeforeUse'
  BY <1>6, Names DEF CommitCode, Display, AdminRequests, Claims, PhoneStates
<1>7. ASSUME NEW a \in Admins, CommitDelete(a) PROVE LoadedBeforeUse'
  BY <1>7, Names DEF CommitDelete, AdminRequests, Claims, PhoneStates
<1>8. ASSUME NEW a \in Admins, NEW token \in Tokens, LoadDeleted(a, token) PROVE LoadedBeforeUse'
  BY <1>8, Names DEF LoadDeleted, AdminRequests, Claims, PhoneStates
<1>9. ASSUME NEW p \in Phones, NEW payload \in Payloads, Scan(p, payload) PROVE LoadedBeforeUse'
  BY <1>9, Names DEF Scan, AdminRequests, Claims, PhoneStates
<1>10. ASSUME NEW p \in Phones, NEW r \in Roles, AskClaim(p, r) PROVE LoadedBeforeUse'
  BY <1>10, Names DEF AskClaim, AdminRequests, Claims, PhoneStates
<1>11. ASSUME NEW p \in Phones, LoadClaim(p) PROVE LoadedBeforeUse'
  BY <1>11, Names DEF LoadClaim, AdminRequests, Claims, PhoneStates
<1>12. ASSUME NEW p \in Phones, CheckRole(p) PROVE LoadedBeforeUse'
  BY <1>12, Names DEF CheckRole, AdminRequests, Claims, PhoneStates
<1>13. ASSUME NEW p \in Phones, CommitClaim(p) PROVE LoadedBeforeUse'
  BY <1>13, Names DEF CommitClaim, AdminRequests, Claims, PhoneStates
<1>14. ASSUME NEW p \in Phones, TakeAnswer(p) PROVE LoadedBeforeUse'
  <2>1. \A q \in Phones \ {p} : phone'[q] = phone[q] /\ claim'[q] = claim[q]
    BY <1>14 DEF TakeAnswer
  <2>2. phone'[p].state \in {"in", "locked", "scanned"} /\ phone'[p].qr = phone[p].qr
    BY <1>14, ZenonT(30) DEF TakeAnswer, PhoneStates
  <2>3. claim'[p] = NoClaim
    BY <1>14 DEF TakeAnswer
  <2>4. phone[p].qr \in shown
    BY <1>14 DEF TakeAnswer
  <2> QED
    BY <1>14, <2>1, <2>2, <2>3, <2>4 DEF TakeAnswer
<1>15. ASSUME NEW p \in Phones, LoseAnswer(p) PROVE LoadedBeforeUse'
  BY <1>15, Names DEF LoseAnswer, AdminRequests, Claims, PhoneStates
<1>16. ASSUME NEW p \in Phones, Login(p) PROVE LoadedBeforeUse'
  BY <1>16, Names DEF Login, AdminRequests, Claims, PhoneStates
<1>17. ASSUME NEW p \in Phones, Forget(p) PROVE LoadedBeforeUse'
  BY <1>17, Names DEF Forget, AdminRequests, Claims, PhoneStates
<1>18. ASSUME NEW p \in Phones, NEW q \in Phones, Pair(p, q) PROVE LoadedBeforeUse'
  BY <1>18, Names DEF Pair, AdminRequests, Claims, PhoneStates
<1>19. CASE UNCHANGED vars
  BY <1>19 DEF vars, AdminRequests, Claims, PhoneStates
<1> QED
  BY <1>1, <1>2, <1>3, <1>4, <1>5, <1>6, <1>7, <1>8, <1>9, <1>10, <1>11, <1>12, <1>13, <1>14, <1>15, <1>16, <1>17, <1>18, <1>19 DEF Next, AdminStep, PhoneStep

LEMMA DeploymentStays ==
  ASSUME [Next]_vars
  PROVE  Unrecoverable' = Unrecoverable /\ deployment' = deployment
<1>1. deployment' = deployment
  BY DEF Next, AdminStep, PhoneStep, vars, Boot, Crash, LoadCode, LoadKey, CommitKey,
         CommitCode, LoadDeleted, CommitDelete, LoadClaim, CheckRole, CommitClaim, Scan,
         AskClaim, TakeAnswer, LoseAnswer, Pair, Login, Forget
<1> QED
  BY <1>1 DEF Unrecoverable

LEMMA KeysStep == KeyInv /\ [Next]_vars => (NotUpgraded \/ OnlyStoredKeys)'
<1> SUFFICES ASSUME KeyInv, [Next]_vars PROVE (NotUpgraded \/ OnlyStoredKeys)'
  OBVIOUS
<1>0. Unrecoverable' = Unrecoverable /\ deployment' = deployment
  BY DeploymentStays
<1> USE DEF KeyInv, TypeOK, NotUpgraded, OnlyStoredKeys
<1>1. CASE Boot
  <2>1. /\ UNCHANGED <<codes, shown, admin, claim, phone>>
        /\ keys' = IF keys = {} /\ codes # << >> THEN {codes[1][2]} ELSE keys
    BY <1>1 DEF Boot
  <2>2. CASE NotUpgraded
    <3>1. keys' = {Old} /\ Unrecoverable = {} /\ codes = <<<<Old, Old>>>>
      BY <2>1, <2>2 DEF Unrecoverable
    <3>2. \A i \in 1 .. Len(codes) : codes[i][2] \in keys'
      BY ONLY <3>1
    <3>3. \A p \in Phones : claim[p].key = None /\ phone[p].key \in {Old, None}
      <4>1. \A p \in Phones : claim[p] = NoClaim /\ phone[p].key \in {Old, None}
        BY ONLY <2>2, Zenon DEF NotUpgraded
      <4>2. NoClaim.key = None
        OBVIOUS
      <4> QED
        BY ONLY <4>1, <4>2, Zenon
    <3> QED
      BY <1>0, <2>1, <2>2, <3>1, <3>2, <3>3, Zenon
  <2>3. CASE OnlyStoredKeys
    <3>1. ASSUME codes # << >> PROVE keys # {}
      <4>0. codes \in Seq(Payloads)
        OBVIOUS
      <4>1. 1 \in 1 .. Len(codes)
        BY ONLY <3>1, <4>0
      <4> QED
        BY <2>3, <4>1
    <3>2. keys' = keys
      BY <2>1, <3>1
    <3> QED
      BY <1>0, <2>1, <2>3, <3>2
  <2> QED
    BY <2>2, <2>3
<1>2. CASE Crash
  <2>1. OnlyStoredKeys /\ UNCHANGED <<keys, codes, shown, phone>>
    BY <1>2 DEF Crash
  <2>2. \A a \in Admins : admin'[a].key = admin[a].key
    BY <1>2 DEF Crash, AdminRequests
  <2>3. \A p \in Phones : claim'[p].key \in {None, claim[p].key}
    BY <1>2 DEF Crash
  <2> QED
    BY <1>0, <2>1, <2>2, <2>3
<1>3. ASSUME NEW a \in Admins, NEW op \in {"current", "create"}, LoadCode(a, op) PROVE (NotUpgraded \/ OnlyStoredKeys)'
  BY <1>0, <1>3, Names DEF LoadCode, AdminRequests, Claims, PhoneStates
<1>4. ASSUME NEW a \in Admins, LoadKey(a) PROVE (NotUpgraded \/ OnlyStoredKeys)'
  <2>1. ASSUME NEW key \in keys, UseKey(a, key) PROVE OnlyStoredKeys'
    BY <1>0, <1>4, <2>1, UseKeyTyped DEF LoadKey
  <2>2. ASSUME NEW pc \in {"makeKey", "failed"},
               Set(a, [admin[a] EXCEPT !.pc = pc]), UNCHANGED shown
        PROVE  OnlyStoredKeys'
    <3>1. \A b \in Admins : admin'[b].key = admin[b].key
      BY <2>2 DEF AdminRequests
    <3> QED
      BY <1>0, <1>4, <2>2, <3>1 DEF LoadKey
  <2> QED
    BY <1>0, <1>4, <2>1, <2>2 DEF LoadKey
<1>5. ASSUME NEW a \in Admins, CommitKey(a) PROVE (NotUpgraded \/ OnlyStoredKeys)'
  <2>1. UseKey(a, a) /\ a \in Tokens /\ keys' = keys \cup {a}
    BY <1>0, <1>5 DEF CommitKey
  <2>2. OnlyStoredKeys
    BY <1>0, <1>5 DEF CommitKey
  <2> QED
    <3>1. keys' \cap Unrecoverable = {}
      BY <2>1, <2>2, Names DEF Unrecoverable
    <3>2. UNCHANGED <<codes, claim, phone>>
      BY <1>5 DEF CommitKey
    <3>3. /\ \A new \in shown' \ shown : new[2] = a
          /\ admin'[a].key = a /\ \A b \in Admins \ {a} : admin'[b] = admin[b]
      BY <2>1, UseKeyTyped
    <3>4. /\ \A payload \in shown' : payload[2] \in keys'
          /\ \A b \in Admins : admin'[b].key \in keys' \cup {None}
      BY <2>1, <2>2, <3>3
    <3> QED
      BY <1>0, <2>1, <2>2, <3>1, <3>2, <3>4
<1>6. ASSUME NEW a \in Admins, CommitCode(a) PROVE (NotUpgraded \/ OnlyStoredKeys)'
  <2> DEFINE key == admin[a].key
  <2>1. OnlyStoredKeys /\ key \in keys
    BY <1>0, <1>6 DEF CommitCode, LoadedBeforeUse
  <2>2. \A b \in Admins : admin'[b].key \in {admin[b].key, key}
    BY <1>0, <1>6 DEF CommitCode, Display, AdminRequests
  <2>3. \A i \in 1 .. Len(codes') : codes'[i][2] \in keys
    <3>1. codes' = Append(codes, <<a, key>>)
      BY <1>0, <1>6 DEF CommitCode
    <3>2. \A i \in 1 .. Len(codes) : codes[i][2] \in keys
      BY <2>1
    <3>3. codes \in Seq(Payloads)
      OBVIOUS
    <3> QED
      BY ONLY <2>1, <3>1, <3>2, <3>3
  <2>4. \A payload \in shown' : payload[2] \in keys
    BY <1>0, <1>6, <2>1 DEF CommitCode, Display
  <2> QED
    BY <1>0, <1>6, <2>1, <2>2, <2>3, <2>4 DEF CommitCode
<1>7. ASSUME NEW a \in Admins, CommitDelete(a) PROVE (NotUpgraded \/ OnlyStoredKeys)'
  <2>1. OnlyStoredKeys
    BY <1>0, <1>7 DEF CommitDelete
  <2>2. \A b \in Admins : admin'[b].key = admin[b].key
    BY <1>0, <1>7 DEF CommitDelete, AdminRequests
  <2>3. \A i \in 1 .. Len(codes') : codes'[i][2] \in keys
    <3>1. CASE codes' = codes
      BY <2>1, <3>1
    <3>2. ASSUME NEW i \in 1 .. Len(codes),
                 codes' = [j \in 1 .. Len(codes) - 1 |-> IF j < i THEN codes[j] ELSE codes[j + 1]]
          PROVE  \A j \in 1 .. Len(codes') : codes'[j][2] \in keys
      <4>1. \A j \in 1 .. Len(codes') : \E k \in 1 .. Len(codes) : codes'[j] = codes[k]
        <5>1. codes \in Seq(Payloads)
          OBVIOUS
        <5> QED
          BY ONLY <3>2, <5>1, RowDeleted
      <4> QED
        BY <2>1, <4>1
    <3> QED
      BY <1>0, <1>7, <3>1, <3>2 DEF CommitDelete, CodeOf
  <2> QED
    BY <1>0, <1>7, <2>1, <2>2, <2>3 DEF CommitDelete
<1>8. ASSUME NEW a \in Admins, NEW token \in Tokens, LoadDeleted(a, token) PROVE (NotUpgraded \/ OnlyStoredKeys)'
  BY <1>0, <1>8, Names DEF LoadDeleted, AdminRequests, Claims, PhoneStates
<1>9. ASSUME NEW p \in Phones, NEW payload \in Payloads, Scan(p, payload) PROVE (NotUpgraded \/ OnlyStoredKeys)'
  BY <1>0, <1>9, Names DEF Scan, AdminRequests, Claims, PhoneStates
<1>10. ASSUME NEW p \in Phones, NEW r \in Roles, AskClaim(p, r) PROVE (NotUpgraded \/ OnlyStoredKeys)'
  <2>1. OnlyStoredKeys
    BY <1>0, <1>10 DEF AskClaim, LoadedBeforeUse
  <2>2. \A q \in Phones : phone'[q].key = phone[q].key
    BY <1>0, <1>10 DEF AskClaim, PhoneStates
  <2>3. \A q \in Phones : claim'[q].key \in {claim[q].key, None}
    BY <1>0, <1>10 DEF AskClaim
  <2> QED
    BY <1>0, <1>10, <2>1, <2>2, <2>3 DEF AskClaim
<1>11. ASSUME NEW p \in Phones, LoadClaim(p) PROVE (NotUpgraded \/ OnlyStoredKeys)'
  <2> DEFINE found == CodeOf(phone[p].qr[1])
             i == CHOOSE i \in found : TRUE
  <2>1. OnlyStoredKeys
    BY <1>0, <1>11 DEF LoadClaim
  <2>2. found # {} => codes[i][2] \in keys
    BY <2>1 DEF CodeOf
  <2>3. claim'[p].key \in keys \cup {None}
    <3>1. CASE found = {}
      BY <1>0, <1>11, <2>1, <3>1 DEF LoadClaim, Claims
    <3>2. CASE found # {}
      <4>1. claim'[p].key = codes[i][2]
        BY <1>0, <1>11, <3>2 DEF LoadClaim, Claims
      <4> QED
        BY <2>2, <3>2, <4>1
    <3> QED
      BY <3>1, <3>2
  <2>4. \A q \in Phones \ {p} : claim'[q] = claim[q]
    BY <1>0, <1>11 DEF LoadClaim
  <2> QED
    BY <1>0, <1>11, <2>1, <2>3, <2>4, ZenonT(30) DEF LoadClaim
<1>12. ASSUME NEW p \in Phones, CheckRole(p) PROVE (NotUpgraded \/ OnlyStoredKeys)'
  BY <1>0, <1>12, Names DEF CheckRole, AdminRequests, Claims, PhoneStates
<1>13. ASSUME NEW p \in Phones, CommitClaim(p) PROVE (NotUpgraded \/ OnlyStoredKeys)'
  <2>1. OnlyStoredKeys
    BY <1>0, <1>13 DEF CommitClaim
  <2>2. \A q \in Phones : claim'[q].key = claim[q].key
    BY <1>0, <1>13 DEF CommitClaim, Claims
  <2> QED
    BY <1>0, <1>13, <2>1, <2>2 DEF CommitClaim
<1>14. ASSUME NEW p \in Phones, TakeAnswer(p) PROVE (NotUpgraded \/ OnlyStoredKeys)'
  <2>1. OnlyStoredKeys /\ phone[p].qr[2] \in keys
    BY <1>0, <1>14 DEF TakeAnswer, LoadedBeforeUse
  <2>2. phone'[p].key \in {claim[p].key, phone[p].qr[2], phone[p].key}
    <3>1. phone \in [Phones -> PhoneStates]
      OBVIOUS
    <3> QED
      BY ONLY <1>14, <3>1 DEF TakeAnswer, PhoneStates, SetPhone
  <2>3. \A q \in Phones \ {p} : phone'[q] = phone[q] /\ claim'[q] = claim[q]
    BY <1>0, <1>14 DEF TakeAnswer
  <2>4. claim'[p].key = None
    BY <1>0, <1>14 DEF TakeAnswer
  <2> QED
    BY <1>0, <1>14, <2>1, <2>2, <2>3, <2>4 DEF TakeAnswer
<1>15. ASSUME NEW p \in Phones, LoseAnswer(p) PROVE (NotUpgraded \/ OnlyStoredKeys)'
  BY <1>0, <1>15, Names DEF LoseAnswer, AdminRequests, Claims, PhoneStates
<1>16. ASSUME NEW p \in Phones, Login(p) PROVE (NotUpgraded \/ OnlyStoredKeys)'
  BY <1>0, <1>16, Names DEF Login, AdminRequests, Claims, PhoneStates
<1>17. ASSUME NEW p \in Phones, Forget(p) PROVE (NotUpgraded \/ OnlyStoredKeys)'
  BY <1>0, <1>17, Names DEF Forget, AdminRequests, Claims, PhoneStates
<1>18. ASSUME NEW p \in Phones, NEW q \in Phones, Pair(p, q) PROVE (NotUpgraded \/ OnlyStoredKeys)'
  BY <1>0, <1>18, Names DEF Pair, AdminRequests, Claims, PhoneStates
<1>19. CASE UNCHANGED vars
  BY <1>0, <1>19 DEF vars, AdminRequests, Claims, PhoneStates
<1> QED
  BY <1>1, <1>2, <1>3, <1>4, <1>5, <1>6, <1>7, <1>8, <1>9, <1>10, <1>11, <1>12, <1>13, <1>14, <1>15, <1>16, <1>17, <1>18, <1>19 DEF Next, AdminStep, PhoneStep

-----------------------------------------------------------------------------
\* KeyInv is an inductive invariant of the server, the admin panel and the
\* phones, whatever the number of admin requests, phones and crashes.
THEOREM Invariance == Spec => []KeyInv
<1>1. KeyInv /\ [Next]_vars => KeyInv'
  BY TypeStep, ClaimsStep, LoadedStep, KeysStep DEF KeyInv
<1> QED
  BY InitHolds, <1>1, PTL DEF Spec

\* The role's UNIQUE constraint is enough (auth.py:125-149): no two phones
\* ever claim one role, whatever is retried, lost or interrupted by a crash.
THEOREM RolesClaimedOnce == Spec => []ClaimedOnce
<1>1. KeyInv => ClaimedOnce
  BY DEF KeyInv
<1> QED
  BY Invariance, <1>1, PTL

\* setup.py:30-33 as far as the code keeps it: once init_models has run, and
\* as long as two admin requests have not both made a key, there is one key, but
\* for the one of a deployment without a code, which stays on its phones.
THEOREM OneKeyIsKept == Spec => []KeyIsKept
<1>1. KeyInv => KeyIsKept
  <2> SUFFICES ASSUME KeyInv, up, Cardinality(keys) <= 1
               PROVE  /\ Cardinality((ServerKeys \cup PhoneKeys) \ Unrecoverable) <= 1
                      /\ ServerKeys \cap Unrecoverable = {}
    BY DEF KeyIsKept
  <2>1. OnlyStoredKeys
    BY DEF KeyInv, NotUpgraded
  <2>2. ServerKeys = keys
    BY <2>1 DEF OnlyStoredKeys, ServerKeys
  <2>3. PhoneKeys \subseteq keys \cup Unrecoverable
    BY <2>1 DEF OnlyStoredKeys, PhoneKeys
  <2>4. keys \cap Unrecoverable = {}
    BY <2>1 DEF OnlyStoredKeys
  <2>5. (ServerKeys \cup PhoneKeys) \ Unrecoverable = keys
    BY <2>2, <2>3, <2>4
  <2> QED
    BY <2>2, <2>4, <2>5
<1> QED
  BY Invariance, <1>1, PTL
=============================================================================
