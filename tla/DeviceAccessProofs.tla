-------------------------- MODULE DeviceAccessProofs --------------------------
(* Proofs about DeviceAccess, for any phones, spouses and requests: types,    *)
(* that tokens are made for existing rows only, and that no password changes  *)
(* without an approved reset.                                                 *)
EXTENDS DeviceAccess, TLAPS

USE DEF Begin, Goto, NoCall, NoReset, tokenVars

LEMMA InitHolds == Init => AccessInv
BY DeviceAssumption DEF Init, AccessInv, TypeOK, ApprovedBySomeone, OpenedOnce,
   LetThrough, ResetByCompletion, Ops

-----------------------------------------------------------------------------
LEMMA TypeStep == TypeOK /\ [Next]_vars => TypeOK'
<1> SUFFICES ASSUME TypeOK, [Next]_vars PROVE TypeOK'
  OBVIOUS
<1> USE DEF TypeOK
<1>1. ASSUME NEW r \in Requests, NEW s \in Spouses, Initiate(r, s) PROVE TypeOK'
  BY <1>1, DeviceAssumption DEF Initiate, Ops
<1>2. ASSUME NEW r \in Requests, NEW s \in Requests, BeginComplete(r, s) PROVE TypeOK'
  BY <1>2, DeviceAssumption DEF BeginComplete, Ops
<1>3. ASSUME NEW r \in Requests, NEW p \in Phones, BeginLogin(r, p) PROVE TypeOK'
  BY <1>3, DeviceAssumption DEF BeginLogin, Ops
<1>4. ASSUME NEW r \in Requests, NEW p \in Phones, BeginRefresh(r, p) PROVE TypeOK'
  <2>1. call' \in [Requests -> [op : Ops \cup {"none"}, phone : Phones \cup {None},
                             target : Requests \cup {None}]]
    <3>1. CASE call' = [call EXCEPT ![r] = [op |-> "refresh", phone |-> p, target |-> None]]
      BY <3>1 DEF Ops
    <3>2. CASE call' = [call EXCEPT ![r].phone = p]
      BY <3>2
    <3> QED
      BY <1>4, <3>1, <3>2 DEF BeginRefresh
  <2>2. device' \in [Requests -> Requests \cup {None}]
    BY <1>4 DEF BeginRefresh
  <2> QED
    BY <1>4, <2>1, <2>2 DEF BeginRefresh
<1>5. ASSUME NEW r \in Requests, NEW p \in Phones, NEW d \in Requests, BeginRemove(r, p, d) PROVE TypeOK'
  BY <1>5, DeviceAssumption DEF BeginRemove, Ops
<1>6. ASSUME NEW r \in Requests, NEW p \in Phones, NEW s \in Requests, BeginApprove(r, p, s) PROVE TypeOK'
  BY <1>6, DeviceAssumption DEF BeginApprove, Ops
<1>7. ASSUME NEW r \in Requests, InsertDevice(r) PROVE TypeOK'
  BY <1>7, DeviceAssumption DEF InsertDevice, Ops
<1>8. ASSUME NEW r \in Requests, TouchDevice(r) PROVE TypeOK'
  BY <1>8, DeviceAssumption DEF TouchDevice, Ops
<1>9. ASSUME NEW r \in Requests, TakeTokens(r) PROVE TypeOK'
  BY <1>9, DeviceAssumption DEF TakeTokens, Ops
<1>10. ASSUME NEW r \in Requests, LoseTokens(r) PROVE TypeOK'
  BY <1>10, DeviceAssumption DEF LoseTokens, Ops
<1>11. ASSUME NEW r \in Requests, CommitRemove(r) PROVE TypeOK'
  BY <1>11, DeviceAssumption DEF CommitRemove, Ops
<1>12. ASSUME NEW r \in Requests, CommitApprove(r) PROVE TypeOK'
  BY <1>12, DeviceAssumption, ZenonT(30) DEF CommitApprove, Ops
<1>13. ASSUME NEW r \in Requests, CommitComplete(r) PROVE TypeOK'
  BY <1>13, DeviceAssumption, ZenonT(30) DEF CommitComplete, Ops
<1>14. ASSUME NEW s \in Requests, ExpireReset(s) PROVE TypeOK'
  BY <1>14, DeviceAssumption, ZenonT(30) DEF ExpireReset, Ops
<1>15. ASSUME NEW p \in Phones, ExpireAccess(p) PROVE TypeOK'
  BY <1>15, DeviceAssumption DEF ExpireAccess, Ops
<1>16. CASE UNCHANGED vars
  BY <1>16 DEF vars
<1> QED
  BY <1>1, <1>2, <1>3, <1>4, <1>5, <1>6, <1>7, <1>8, <1>9, <1>10, <1>11, <1>12, <1>13, <1>14, <1>15, <1>16 DEF Next, Begins, Continues

\* A session stays, and so does its approval.
LEMMA SessionsStay ==
  ASSUME AccessInv, [Next]_vars, NEW x \in Requests, resets[x] # NoReset
  PROVE  resets'[x] # NoReset /\ (resets[x].approved => resets'[x].approved)
<1> USE DEF AccessInv, TypeOK
<1>1. resets[x].role \in Spouses /\ pc[x] # "new"
  BY DEF OpenedOnce
<1> DEFINE Stays == \/ resets'[x] = resets[x]
                    \/ /\ resets'[x].role = resets[x].role
                       /\ resets[x].approved => resets'[x].approved
<1>2. Stays
  <2>1. ASSUME NEW r \in Requests, NEW s \in Spouses, Initiate(r, s) PROVE Stays
    BY <2>1, <1>1 DEF Initiate
  <2>2. ASSUME NEW r \in Requests, NEW s \in Requests, BeginComplete(r, s) PROVE Stays
    BY <2>2, <1>1 DEF BeginComplete
  <2>3. ASSUME NEW r \in Requests, NEW p \in Phones, BeginLogin(r, p) PROVE Stays
    BY <2>3, <1>1 DEF BeginLogin
  <2>4. ASSUME NEW r \in Requests, NEW p \in Phones, BeginRefresh(r, p) PROVE Stays
    BY <2>4, <1>1 DEF BeginRefresh
  <2>5. ASSUME NEW r \in Requests, NEW p \in Phones, NEW d \in Requests, BeginRemove(r, p, d) PROVE Stays
    BY <2>5, <1>1 DEF BeginRemove
  <2>6. ASSUME NEW r \in Requests, NEW p \in Phones, NEW s \in Requests, BeginApprove(r, p, s) PROVE Stays
    BY <2>6, <1>1 DEF BeginApprove
  <2>7. ASSUME NEW r \in Requests, InsertDevice(r) PROVE Stays
    BY <2>7, <1>1 DEF InsertDevice
  <2>8. ASSUME NEW r \in Requests, TouchDevice(r) PROVE Stays
    BY <2>8, <1>1 DEF TouchDevice
  <2>9. ASSUME NEW r \in Requests, TakeTokens(r) PROVE Stays
    BY <2>9, <1>1 DEF TakeTokens
  <2>10. ASSUME NEW r \in Requests, LoseTokens(r) PROVE Stays
    BY <2>10, <1>1 DEF LoseTokens
  <2>11. ASSUME NEW r \in Requests, CommitRemove(r) PROVE Stays
    BY <2>11, <1>1 DEF CommitRemove
  <2>12. ASSUME NEW r \in Requests, CommitApprove(r) PROVE Stays
    BY <2>12, <1>1 DEF CommitApprove
  <2>13. ASSUME NEW r \in Requests, CommitComplete(r) PROVE Stays
    BY <2>13, <1>1 DEF CommitComplete
  <2>14. ASSUME NEW s \in Requests, ExpireReset(s) PROVE Stays
    BY <2>14, <1>1 DEF ExpireReset
  <2>15. ASSUME NEW p \in Phones, ExpireAccess(p) PROVE Stays
    BY <2>15, <1>1 DEF ExpireAccess
  <2>16. CASE UNCHANGED vars
    BY <2>16 DEF vars
  <2> QED
    BY <2>1, <2>2, <2>3, <2>4, <2>5, <2>6, <2>7, <2>8, <2>9, <2>10, <2>11, <2>12, <2>13, <2>14, <2>15, <2>16 DEF Next, Begins, Continues
<1> QED
  BY <1>1, <1>2, DeviceAssumption

LEMMA ApprovedStep == AccessInv /\ [Next]_vars => ApprovedBySomeone'
<1> SUFFICES ASSUME AccessInv, [Next]_vars PROVE ApprovedBySomeone'
  OBVIOUS
<1> USE DEF AccessInv, TypeOK, ApprovedBySomeone
<1>1. ASSUME NEW r \in Requests, NEW s \in Spouses, Initiate(r, s) PROVE ApprovedBySomeone'
  BY <1>1, DeviceAssumption DEF Initiate, OpenedOnce
<1>2. ASSUME NEW r \in Requests, NEW s \in Requests, BeginComplete(r, s) PROVE ApprovedBySomeone'
  BY <1>2, DeviceAssumption DEF BeginComplete, OpenedOnce
<1>3. ASSUME NEW r \in Requests, NEW p \in Phones, BeginLogin(r, p) PROVE ApprovedBySomeone'
  BY <1>3, DeviceAssumption DEF BeginLogin, OpenedOnce
<1>4. ASSUME NEW r \in Requests, NEW p \in Phones, BeginRefresh(r, p) PROVE ApprovedBySomeone'
  <2>1. \A a \in Requests : call[a].op = "approve" /\ pc[a] = "done" =>
          pc'[a] = pc[a] /\ call'[a] = call[a]
    BY <1>4 DEF BeginRefresh
  <2>2. UNCHANGED resets
    BY <1>4 DEF BeginRefresh
  <2> QED
    BY <2>1, <2>2
<1>5. ASSUME NEW r \in Requests, NEW p \in Phones, NEW d \in Requests, BeginRemove(r, p, d) PROVE ApprovedBySomeone'
  BY <1>5, DeviceAssumption DEF BeginRemove, OpenedOnce
<1>6. ASSUME NEW r \in Requests, NEW p \in Phones, NEW s \in Requests, BeginApprove(r, p, s) PROVE ApprovedBySomeone'
  BY <1>6, DeviceAssumption DEF BeginApprove, OpenedOnce
<1>7. ASSUME NEW r \in Requests, InsertDevice(r) PROVE ApprovedBySomeone'
  BY <1>7, DeviceAssumption DEF InsertDevice, OpenedOnce
<1>8. ASSUME NEW r \in Requests, TouchDevice(r) PROVE ApprovedBySomeone'
  BY <1>8, DeviceAssumption DEF TouchDevice, OpenedOnce
<1>9. ASSUME NEW r \in Requests, TakeTokens(r) PROVE ApprovedBySomeone'
  BY <1>9, DeviceAssumption DEF TakeTokens, OpenedOnce
<1>10. ASSUME NEW r \in Requests, LoseTokens(r) PROVE ApprovedBySomeone'
  BY <1>10, DeviceAssumption DEF LoseTokens, OpenedOnce
<1>11. ASSUME NEW r \in Requests, CommitRemove(r) PROVE ApprovedBySomeone'
  BY <1>11, DeviceAssumption DEF CommitRemove, OpenedOnce
<1>12. ASSUME NEW r \in Requests, CommitApprove(r) PROVE ApprovedBySomeone'
  BY <1>12, DeviceAssumption DEF CommitApprove, OpenedOnce
<1>13. ASSUME NEW r \in Requests, CommitComplete(r) PROVE ApprovedBySomeone'
  BY <1>13, DeviceAssumption DEF CommitComplete, OpenedOnce
<1>14. ASSUME NEW s \in Requests, ExpireReset(s) PROVE ApprovedBySomeone'
  BY <1>14, DeviceAssumption DEF ExpireReset, OpenedOnce
<1>15. ASSUME NEW p \in Phones, ExpireAccess(p) PROVE ApprovedBySomeone'
  BY <1>15, DeviceAssumption DEF ExpireAccess, OpenedOnce
<1>16. CASE UNCHANGED vars
  BY <1>16 DEF vars
<1> QED
  BY <1>1, <1>2, <1>3, <1>4, <1>5, <1>6, <1>7, <1>8, <1>9, <1>10, <1>11, <1>12, <1>13, <1>14, <1>15, <1>16 DEF Next, Begins, Continues

LEMMA OpenedStep == AccessInv /\ [Next]_vars => OpenedOnce'
<1> SUFFICES ASSUME AccessInv, [Next]_vars PROVE OpenedOnce'
  OBVIOUS
<1> USE DEF AccessInv, TypeOK, OpenedOnce
<1>1. ASSUME NEW r \in Requests, NEW s \in Spouses, Initiate(r, s) PROVE OpenedOnce'
  BY <1>1, DeviceAssumption DEF Initiate
<1>2. ASSUME NEW r \in Requests, NEW s \in Requests, BeginComplete(r, s) PROVE OpenedOnce'
  BY <1>2, DeviceAssumption DEF BeginComplete
<1>3. ASSUME NEW r \in Requests, NEW p \in Phones, BeginLogin(r, p) PROVE OpenedOnce'
  BY <1>3, DeviceAssumption DEF BeginLogin
<1>4. ASSUME NEW r \in Requests, NEW p \in Phones, BeginRefresh(r, p) PROVE OpenedOnce'
  BY <1>4, DeviceAssumption DEF BeginRefresh
<1>5. ASSUME NEW r \in Requests, NEW p \in Phones, NEW d \in Requests, BeginRemove(r, p, d) PROVE OpenedOnce'
  BY <1>5, DeviceAssumption DEF BeginRemove
<1>6. ASSUME NEW r \in Requests, NEW p \in Phones, NEW s \in Requests, BeginApprove(r, p, s) PROVE OpenedOnce'
  BY <1>6, DeviceAssumption DEF BeginApprove
<1>7. ASSUME NEW r \in Requests, InsertDevice(r) PROVE OpenedOnce'
  BY <1>7, DeviceAssumption DEF InsertDevice
<1>8. ASSUME NEW r \in Requests, TouchDevice(r) PROVE OpenedOnce'
  BY <1>8, DeviceAssumption DEF TouchDevice
<1>9. ASSUME NEW r \in Requests, TakeTokens(r) PROVE OpenedOnce'
  BY <1>9, DeviceAssumption DEF TakeTokens
<1>10. ASSUME NEW r \in Requests, LoseTokens(r) PROVE OpenedOnce'
  BY <1>10, DeviceAssumption DEF LoseTokens
<1>11. ASSUME NEW r \in Requests, CommitRemove(r) PROVE OpenedOnce'
  BY <1>11, DeviceAssumption DEF CommitRemove
<1>12. ASSUME NEW r \in Requests, CommitApprove(r) PROVE OpenedOnce'
  <2>1. call[r].target \in Requests /\ resets[call[r].target] # NoReset
    BY <1>12 DEF CommitApprove, LetThrough
  <2>2. \A x \in Requests : x # call[r].target => resets'[x] = resets[x]
    BY <1>12 DEF CommitApprove
  <2>3. resets'[call[r].target].role = resets[call[r].target].role
    BY <1>12, <2>1 DEF CommitApprove
  <2>4. pc[call[r].target] # "new" /\ resets[call[r].target].role \in Spouses
    BY <2>1
  <2>5. \A x \in Requests : pc'[x] = "new" => pc[x] = "new" /\ call'[x] = call[x]
    BY <1>12 DEF CommitApprove
  <2> QED
    BY <2>1, <2>2, <2>3, <2>4, <2>5
<1>13. ASSUME NEW r \in Requests, CommitComplete(r) PROVE OpenedOnce'
  <2>1. call[r].target \in Requests /\ resets[call[r].target] # NoReset
    BY <1>13 DEF CommitComplete, LetThrough
  <2>2. \A x \in Requests : x # call[r].target => resets'[x] = resets[x]
    BY <1>13 DEF CommitComplete
  <2>3. resets'[call[r].target].role = resets[call[r].target].role
    BY <1>13, <2>1 DEF CommitComplete
  <2>4. pc[call[r].target] # "new" /\ resets[call[r].target].role \in Spouses
    BY <2>1
  <2>5. \A x \in Requests : pc'[x] = "new" => pc[x] = "new" /\ call'[x] = call[x]
    BY <1>13 DEF CommitComplete
  <2> QED
    BY <2>1, <2>2, <2>3, <2>4, <2>5
<1>14. ASSUME NEW s \in Requests, ExpireReset(s) PROVE OpenedOnce'
  <2>1. s \in Requests /\ resets[s] # NoReset
    BY <1>14 DEF ExpireReset, LetThrough
  <2>2. \A x \in Requests : x # s => resets'[x] = resets[x]
    BY <1>14 DEF ExpireReset
  <2>3. resets'[s].role = resets[s].role
    BY <1>14, <2>1 DEF ExpireReset
  <2>4. pc[s] # "new" /\ resets[s].role \in Spouses
    BY <2>1
  <2>5. \A x \in Requests : pc'[x] = "new" => pc[x] = "new" /\ call'[x] = call[x]
    BY <1>14 DEF ExpireReset
  <2> QED
    BY <2>1, <2>2, <2>3, <2>4, <2>5
<1>15. ASSUME NEW p \in Phones, ExpireAccess(p) PROVE OpenedOnce'
  BY <1>15, DeviceAssumption DEF ExpireAccess
<1>16. CASE UNCHANGED vars
  BY <1>16 DEF vars
<1> QED
  BY <1>1, <1>2, <1>3, <1>4, <1>5, <1>6, <1>7, <1>8, <1>9, <1>10, <1>11, <1>12, <1>13, <1>14, <1>15, <1>16 DEF Next, Begins, Continues

LEMMA LetThroughStep == AccessInv /\ [Next]_vars => LetThrough'
<1> SUFFICES ASSUME AccessInv, [Next]_vars PROVE LetThrough'
  OBVIOUS
<1> USE DEF AccessInv, TypeOK, LetThrough
<1>a. \A x \in Requests : resets[x] # NoReset =>
         resets'[x] # NoReset /\ (resets[x].approved => resets'[x].approved)
  BY SessionsStay
<1>1. ASSUME NEW r \in Requests, NEW s \in Spouses, Initiate(r, s) PROVE LetThrough'
  BY <1>1, <1>a DEF Initiate, Open
<1>2. ASSUME NEW r \in Requests, NEW s \in Requests, BeginComplete(r, s) PROVE LetThrough'
  BY <1>2, <1>a DEF BeginComplete, Open
<1>3. ASSUME NEW r \in Requests, NEW p \in Phones, BeginLogin(r, p) PROVE LetThrough'
  BY <1>3, <1>a DEF BeginLogin, Open
<1>4. ASSUME NEW r \in Requests, NEW p \in Phones, BeginRefresh(r, p) PROVE LetThrough'
  <2>1. \A x \in Requests : pc'[x] = "commit" => pc[x] = "commit" /\ call'[x] = call[x]
    BY <1>4 DEF BeginRefresh
  <2> QED
    BY <2>1, <1>a
<1>5. ASSUME NEW r \in Requests, NEW p \in Phones, NEW d \in Requests, BeginRemove(r, p, d) PROVE LetThrough'
  BY <1>5, <1>a DEF BeginRemove, Open
<1>6. ASSUME NEW r \in Requests, NEW p \in Phones, NEW s \in Requests, BeginApprove(r, p, s) PROVE LetThrough'
  BY <1>6, <1>a DEF BeginApprove, Open
<1>7. ASSUME NEW r \in Requests, InsertDevice(r) PROVE LetThrough'
  BY <1>7, <1>a DEF InsertDevice, Open
<1>8. ASSUME NEW r \in Requests, TouchDevice(r) PROVE LetThrough'
  BY <1>8, <1>a DEF TouchDevice, Open
<1>9. ASSUME NEW r \in Requests, TakeTokens(r) PROVE LetThrough'
  BY <1>9, <1>a DEF TakeTokens, Open
<1>10. ASSUME NEW r \in Requests, LoseTokens(r) PROVE LetThrough'
  BY <1>10, <1>a DEF LoseTokens, Open
<1>11. ASSUME NEW r \in Requests, CommitRemove(r) PROVE LetThrough'
  BY <1>11, <1>a DEF CommitRemove, Open
<1>12. ASSUME NEW r \in Requests, CommitApprove(r) PROVE LetThrough'
  BY <1>12, <1>a DEF CommitApprove, Open
<1>13. ASSUME NEW r \in Requests, CommitComplete(r) PROVE LetThrough'
  BY <1>13, <1>a DEF CommitComplete, Open
<1>14. ASSUME NEW s \in Requests, ExpireReset(s) PROVE LetThrough'
  BY <1>14, <1>a DEF ExpireReset, Open
<1>15. ASSUME NEW p \in Phones, ExpireAccess(p) PROVE LetThrough'
  BY <1>15, <1>a DEF ExpireAccess, Open
<1>16. CASE UNCHANGED vars
  BY <1>16 DEF vars
<1> QED
  BY <1>1, <1>2, <1>3, <1>4, <1>5, <1>6, <1>7, <1>8, <1>9, <1>10, <1>11, <1>12, <1>13, <1>14, <1>15, <1>16 DEF Next, Begins, Continues

LEMMA ResetStep == AccessInv /\ [Next]_vars => ResetByCompletion'
<1> SUFFICES ASSUME AccessInv, [Next]_vars PROVE ResetByCompletion'
  OBVIOUS
<1> USE DEF AccessInv, TypeOK, ResetByCompletion
<1>1. ASSUME NEW r \in Requests, NEW s \in Spouses, Initiate(r, s) PROVE ResetByCompletion'
  BY <1>1, DeviceAssumption DEF Initiate, OpenedOnce, LetThrough
<1>2. ASSUME NEW r \in Requests, NEW s \in Requests, BeginComplete(r, s) PROVE ResetByCompletion'
  BY <1>2, DeviceAssumption DEF BeginComplete, OpenedOnce, LetThrough
<1>3. ASSUME NEW r \in Requests, NEW p \in Phones, BeginLogin(r, p) PROVE ResetByCompletion'
  BY <1>3, DeviceAssumption DEF BeginLogin, OpenedOnce, LetThrough
<1>4. ASSUME NEW r \in Requests, NEW p \in Phones, BeginRefresh(r, p) PROVE ResetByCompletion'
  BY <1>4, DeviceAssumption DEF BeginRefresh, OpenedOnce, LetThrough
<1>5. ASSUME NEW r \in Requests, NEW p \in Phones, NEW d \in Requests, BeginRemove(r, p, d) PROVE ResetByCompletion'
  BY <1>5, DeviceAssumption DEF BeginRemove, OpenedOnce, LetThrough
<1>6. ASSUME NEW r \in Requests, NEW p \in Phones, NEW s \in Requests, BeginApprove(r, p, s) PROVE ResetByCompletion'
  BY <1>6, DeviceAssumption DEF BeginApprove, OpenedOnce, LetThrough
<1>7. ASSUME NEW r \in Requests, InsertDevice(r) PROVE ResetByCompletion'
  BY <1>7, DeviceAssumption DEF InsertDevice, OpenedOnce, LetThrough
<1>8. ASSUME NEW r \in Requests, TouchDevice(r) PROVE ResetByCompletion'
  BY <1>8, DeviceAssumption DEF TouchDevice, OpenedOnce, LetThrough
<1>9. ASSUME NEW r \in Requests, TakeTokens(r) PROVE ResetByCompletion'
  BY <1>9, DeviceAssumption DEF TakeTokens, OpenedOnce, LetThrough
<1>10. ASSUME NEW r \in Requests, LoseTokens(r) PROVE ResetByCompletion'
  BY <1>10, DeviceAssumption DEF LoseTokens, OpenedOnce, LetThrough
<1>11. ASSUME NEW r \in Requests, CommitRemove(r) PROVE ResetByCompletion'
  BY <1>11, DeviceAssumption DEF CommitRemove, OpenedOnce, LetThrough
<1>12. ASSUME NEW r \in Requests, CommitApprove(r) PROVE ResetByCompletion'
  BY <1>12, DeviceAssumption DEF CommitApprove, OpenedOnce, LetThrough
<1>13. ASSUME NEW r \in Requests, CommitComplete(r) PROVE ResetByCompletion'
  BY <1>13, DeviceAssumption DEF CommitComplete, OpenedOnce, LetThrough
<1>14. ASSUME NEW s \in Requests, ExpireReset(s) PROVE ResetByCompletion'
  BY <1>14, DeviceAssumption DEF ExpireReset, OpenedOnce, LetThrough
<1>15. ASSUME NEW p \in Phones, ExpireAccess(p) PROVE ResetByCompletion'
  BY <1>15, DeviceAssumption DEF ExpireAccess, OpenedOnce, LetThrough
<1>16. CASE UNCHANGED vars
  BY <1>16 DEF vars
<1> QED
  BY <1>1, <1>2, <1>3, <1>4, <1>5, <1>6, <1>7, <1>8, <1>9, <1>10, <1>11, <1>12, <1>13, <1>14, <1>15, <1>16 DEF Next, Begins, Continues

\* auth.py, device.py: whatever interleaves, rows, tokens and sessions keep their types,
\* a session was approved by whoever approved it, and a password that was reset is from a
\* completed request of an approved session.
THEOREM Invariance == Spec => []AccessInv
<1>1. AccessInv /\ [Next]_vars => AccessInv'
  BY TypeStep, ApprovedStep, OpenedStep, LetThroughStep, ResetStep DEF AccessInv
<1> QED
  BY <1>1, InitHolds, PTL DEF Spec

\* auth.py:352-370: no password changes but through a reset session of that very role,
\* which a signed-in device has approved.
THEOREM ResetsAreApproved == Spec => []ResetWasApproved
<1>1. AccessInv => ResetWasApproved
  BY DEF AccessInv, ApprovedBySomeone, ResetByCompletion, ResetWasApproved
<1> QED
  BY <1>1, Invariance, PTL

\* auth.py:257-290: tokens are made for rows that are there when they are made,
\* whoever removes them before or after.
THEOREM NoTokensWithoutRow == Spec => TokensNeedTheRow
<1>1. AccessInv /\ [Next]_vars =>
        [\A r \in Requests :
           pc[r] # "answer" /\ pc'[r] = "answer" => device'[r] \in rows']_vars
  <2> SUFFICES ASSUME AccessInv, [Next]_vars, NEW x \in Requests,
                      pc[x] # "answer", pc'[x] = "answer"
               PROVE  device'[x] \in rows'
    OBVIOUS
  <2> USE DEF AccessInv, TypeOK
  <2>1. ASSUME NEW r \in Requests, NEW s \in Spouses, Initiate(r, s) PROVE device'[x] \in rows'
    BY <2>1 DEF Initiate
  <2>2. ASSUME NEW r \in Requests, NEW s \in Requests, BeginComplete(r, s) PROVE device'[x] \in rows'
    BY <2>2 DEF BeginComplete
  <2>3. ASSUME NEW r \in Requests, NEW p \in Phones, BeginLogin(r, p) PROVE device'[x] \in rows'
    BY <2>3 DEF BeginLogin
  <2>4. ASSUME NEW r \in Requests, NEW p \in Phones, BeginRefresh(r, p) PROVE device'[x] \in rows'
    BY <2>4 DEF BeginRefresh
  <2>5. ASSUME NEW r \in Requests, NEW p \in Phones, NEW d \in Requests, BeginRemove(r, p, d) PROVE device'[x] \in rows'
    BY <2>5 DEF BeginRemove
  <2>6. ASSUME NEW r \in Requests, NEW p \in Phones, NEW s \in Requests, BeginApprove(r, p, s) PROVE device'[x] \in rows'
    BY <2>6 DEF BeginApprove
  <2>7. ASSUME NEW r \in Requests, InsertDevice(r) PROVE device'[x] \in rows'
    BY <2>7 DEF InsertDevice
  <2>8. ASSUME NEW r \in Requests, TouchDevice(r) PROVE device'[x] \in rows'
    BY <2>8 DEF TouchDevice
  <2>9. ASSUME NEW r \in Requests, TakeTokens(r) PROVE device'[x] \in rows'
    BY <2>9 DEF TakeTokens
  <2>10. ASSUME NEW r \in Requests, LoseTokens(r) PROVE device'[x] \in rows'
    BY <2>10 DEF LoseTokens
  <2>11. ASSUME NEW r \in Requests, CommitRemove(r) PROVE device'[x] \in rows'
    BY <2>11 DEF CommitRemove
  <2>12. ASSUME NEW r \in Requests, CommitApprove(r) PROVE device'[x] \in rows'
    BY <2>12 DEF CommitApprove
  <2>13. ASSUME NEW r \in Requests, CommitComplete(r) PROVE device'[x] \in rows'
    BY <2>13 DEF CommitComplete
  <2>14. ASSUME NEW s \in Requests, ExpireReset(s) PROVE device'[x] \in rows'
    BY <2>14 DEF ExpireReset
  <2>15. ASSUME NEW p \in Phones, ExpireAccess(p) PROVE device'[x] \in rows'
    BY <2>15 DEF ExpireAccess
  <2>16. CASE UNCHANGED vars
    BY <2>16 DEF vars
  <2> QED
    BY <2>1, <2>2, <2>3, <2>4, <2>5, <2>6, <2>7, <2>8, <2>9, <2>10, <2>11, <2>12, <2>13, <2>14, <2>15, <2>16 DEF Next, Begins, Continues
<1> QED
  BY <1>1, Invariance, PTL DEF Spec, TokensNeedTheRow

==============================================================================
