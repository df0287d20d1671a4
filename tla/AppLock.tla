------------------------------ MODULE AppLock -------------------------------
(***************************************************************************)
(* What the app's lock promises its owner (DECISIONS.md, 27: "password     *)
(* required once an hour; a fingerprint covers every app entry in          *)
(* between"), whatever goes on beneath: the door opens with the password,  *)
(* or with a tap that was offered while the last password was recent;      *)
(* nothing but a password makes one recent; and after a logout it opens to *)
(* nobody until the phone is set up again.  It does not promise that a     *)
(* shut door hides everything: a screen that was put on top while the door *)
(* was open stays, readable, until it is left.  Session is shown to        *)
(* implement this module.                                                  *)
(***************************************************************************)
VARIABLES
  door,         \* "open": the home screen is there; "tap": a fingerprint opens; "shut"
  left,         \* a screen of the open session lies on top
  recent,       \* the last password was entered within the hour
  forgotten     \* logged out, and neither claimed nor paired since

lockVars == <<door, left, recent, forgotten>>

LockInit == door = "shut" /\ left = FALSE /\ recent = FALSE /\ forgotten = FALSE

Password == ~forgotten /\ door' = "open" /\ recent' = TRUE /\ UNCHANGED <<left, forgotten>>

Tap == door = "tap" /\ door' = "open" /\ UNCHANGED <<left, recent, forgotten>>

Offer == recent /\ door' = "tap" /\ UNCHANGED <<left, recent, forgotten>>

Shut == door' = "shut" /\ UNCHANGED <<left, recent, forgotten>>

Restart == door' = "shut" /\ left' = FALSE /\ UNCHANGED <<recent, forgotten>>

PutOnTop == door = "open" /\ left' = TRUE /\ UNCHANGED <<door, recent, forgotten>>

Leave == left' = FALSE /\ UNCHANGED <<door, recent, forgotten>>

HourPasses == recent' = FALSE /\ UNCHANGED <<door, left, forgotten>>

Forget == door' = "shut" /\ left' = FALSE /\ recent' = FALSE /\ forgotten' = TRUE

SetUp == forgotten' = FALSE /\ UNCHANGED <<door, left, recent>>

LockNext ==
  \/ Password \/ Tap \/ Offer \/ Shut \/ Restart \/ PutOnTop \/ Leave
  \/ HourPasses \/ Forget \/ SetUp

LockSpec == LockInit /\ [][LockNext]_lockVars

\* Once forgotten, the door is shut, no tap is offered and no screen is left.
ForgottenStaysShut == forgotten => door = "shut" /\ ~recent /\ ~left
==============================================================================
