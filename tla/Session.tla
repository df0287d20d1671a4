------------------------------- MODULE Session -------------------------------
(***************************************************************************)
(* The session of one phone: providers/session_provider.dart with the      *)
(* app lock (core/security/app_lock_guard.dart), the secure storage it     *)
(* reads and writes (core/storage/secure_storage_service.dart), the        *)
(* websocket client and the HTTP client's token refresh (core/network).    *)
(*                                                                         *)
(* Dart runs one callback at a time; what is awaited here are calls to the *)
(* storage, which the plugin handles in order: `queue` holds those under   *)
(* way, and an action `On...` is a reply and the code that awaited it.     *)
(* The app may be killed at any time, and then has the storage only.       *)
(* What the user can do depends on the screen on top: main.dart's AuthGate *)
(* and the lock's guard around it are but the home of the root Navigator.  *)
(***************************************************************************)
EXTENDS Naturals, Sequences, SequencesExt, FiniteSets

CONSTANTS
  Sockets,          \* websocket channels
  MaxReconnects,    \* bound: reconnect timers running at once
  NoSocket

ASSUME SessionAssumption == NoSocket \notin Sockets /\ MaxReconnects \in Nat

VARIABLES
  state,        \* SessionProvider.state
  vmk, role,    \* whether the provider has them
  screen,       \* what lies on top of the root Navigator
  disk,         \* which entries the secure storage has
  recent,       \* last_password_auth_at is there and within passwordWindow
  queue,        \* calls to the storage under way
  saving,       \* what the saveSession under way belongs to
  timer,        \* _autoLockTimer runs
  channel,      \* WsClient._channel
  socket,       \* what has become of each channel
  reconnects,   \* delayed connects
  renewals,     \* refresh requests the server has yet to answer
  forgotten     \* history: logged out, and neither claimed nor paired since

appVars == <<state, vmk, role>>
wsVars == <<channel, socket, reconnects>>
sessionVars == <<appVars, disk, recent, queue, saving, timer, wsVars, renewals, forgotten, screen>>

Entries == {"server", "access", "refresh", "vmk", "role"}
States == {"unknown", "needsSetup", "locked", "needsBiometric", "authenticated", "decoy"}
Calls == {"boot", "decide", "relogin", "stamp", "clear", "wsServer", "wsToken", "wsNothing",
          "renew", "renewed"} \cup Entries

SessionTypeOK ==
  /\ state \in States
  /\ vmk \in BOOLEAN /\ role \in BOOLEAN /\ recent \in BOOLEAN /\ timer \in BOOLEAN
  /\ disk \subseteq Entries
  /\ queue \in Seq(Calls)
  /\ saving \in {"nothing", "claim", "pairing", "login"}
  /\ channel \in Sockets \cup {NoSocket}
  /\ socket \in [Sockets -> {"none", "open", "closing"}]
  /\ reconnects \in 0 .. MaxReconnects /\ renewals \in Nat
  /\ forgotten \in BOOLEAN
  /\ screen \in {"home", "content", "setup", "root"}

\* The app starts, for the first time here.
SessionInit ==
  /\ state = "unknown" /\ vmk = FALSE /\ role = FALSE
  /\ disk = {} /\ recent = FALSE
  /\ queue = <<"boot">> /\ saving = "nothing"
  /\ timer = FALSE
  /\ channel = NoSocket /\ socket = [s \in Sockets |-> "none"] /\ reconnects = 0
  /\ renewals = 0 /\ forgotten = FALSE
  /\ screen = "home"

Pending(call) == Contains(queue, call)
Connecting == Pending("wsServer") \/ Pending("wsToken") \/ Pending("wsNothing")

\* connect(), if there is no channel and no other connect under way: reads the
\* server and the access token.
ConnectCalls == IF channel = NoSocket /\ ~Connecting THEN <<"wsServer">> ELSE << >>

\* disconnect(): the channel is forgotten at once and closes in its own time.
Disconnect ==
  /\ channel' = NoSocket
  /\ socket' = [s \in Sockets |-> IF s = channel THEN "closing" ELSE socket[s]]
  /\ UNCHANGED reconnects

\* A reply to the oldest call, with the calls its continuation makes.
Reply(call, calls) == queue # << >> /\ Head(queue) = call /\ queue' = Tail(queue) \o calls

-----------------------------------------------------------------------------
(* Starting, claiming, pairing and logging in. *)

\* bootstrap(), until it asks for the last password entry.
OnBoot ==
  /\ IF {"access", "vmk"} \subseteq disk
     THEN /\ Reply("boot", <<"decide">>)
          /\ vmk' = TRUE /\ role' = ("role" \in disk)
          /\ UNCHANGED state
     ELSE /\ Reply("boot", << >>)
          /\ state' = "needsSetup"
          /\ UNCHANGED <<vmk, role>>
  /\ UNCHANGED <<disk, recent, saving, timer, wsVars, renewals, forgotten, screen>>

\* _decideReentryState(), at the end of bootstrap() and of lock().
OnDecide ==
  /\ Reply("decide", << >>)
  /\ state' = IF recent THEN "needsBiometric" ELSE "locked"
  /\ UNCHANGED <<vmk, role, disk, recent, saving, timer, wsVars, renewals, forgotten, screen>>

\* saveSession() makes one write for each entry.
Writes == <<"server", "access", "refresh", "vmk", "role">>

\* A claim has been answered; or another phone's code has been scanned, or the claim
\* was of a role taken already, and a pairing begins.  Neither looks at the state,
\* and the claim screen stays after a claim: both can happen to an open session.
\* (Assumed, here and in Back: nobody leaves a screen and completes another while a
\* call to the storage is under way.)
Setup(what) ==
  /\ screen \in {"setup", "root"} \/ (screen = "home" /\ state = "needsSetup")
  /\ saving = "nothing"
  /\ saving' = what
  /\ forgotten' = FALSE
  /\ screen' = IF screen = "root" THEN "root" ELSE "setup"
  /\ queue' = queue \o Writes
  /\ UNCHANGED <<appVars, disk, recent, timer, wsVars, renewals>>

\* The password has been accepted; completeLogin() keeps the server and the key.
\* Without a role the login screen does nothing.  (Assumed: typing a password and
\* sending it outlasts a call to the storage, so that no lock or logout begun
\* before is still under way.)
Login ==
  /\ screen = "home" /\ state = "locked" /\ role /\ saving = "nothing"
  /\ ~Pending("decide") /\ ~Pending("clear")
  /\ saving' = "login"
  /\ queue' = queue \o <<"relogin">>
  /\ UNCHANGED <<appVars, disk, recent, timer, wsVars, renewals, forgotten, screen>>

OnRelogin ==
  /\ Reply("relogin", Writes)
  /\ UNCHANGED <<appVars, disk, recent, saving, timer, wsVars, renewals, forgotten, screen>>

\* Mutant: the write of the key is taken for the last.
OnWriteOfKey(entry) ==
  /\ Reply(entry, IF entry = "vmk" /\ saving # "pairing" THEN <<"stamp">> ELSE << >>)
  /\ disk' = disk \cup {entry}
  /\ IF entry = "vmk" /\ saving = "pairing"
     THEN vmk' = TRUE /\ role' = TRUE /\ state' = "locked" /\ saving' = "nothing"
     ELSE UNCHANGED <<appVars, saving>>
  /\ UNCHANGED <<recent, timer, wsVars, renewals, forgotten, screen>>

\* A pairing is through with the last write and goes on to the password, by way of
\* the Navigator's first screen.  It asks for no lock: a session that was open keeps
\* its channel, its timer and its last password entry.
OnWrite(entry) ==
  /\ Reply(entry, IF entry = "role" /\ saving # "pairing" THEN <<"stamp">> ELSE << >>)
  /\ disk' = disk \cup {entry}
  /\ IF entry = "role" /\ saving = "pairing"
     THEN /\ vmk' = TRUE /\ role' = TRUE /\ state' = "locked" /\ saving' = "nothing"
          /\ screen' = IF screen = "root" THEN "root" ELSE "home"
     ELSE UNCHANGED <<appVars, saving, screen>>
  /\ UNCHANGED <<recent, timer, wsVars, renewals, forgotten>>

\* The end of completeClaim() and completeLogin().
OnStamp ==
  /\ Reply("stamp", ConnectCalls)
  /\ recent' = TRUE
  /\ vmk' = (vmk \/ saving = "claim")
  /\ role' = TRUE
  /\ state' = "authenticated"
  /\ saving' = "nothing"
  /\ timer' = TRUE
  /\ UNCHANGED <<disk, wsVars, renewals, forgotten, screen>>

EnterDecoyMode ==
  /\ screen = "home" /\ state = "locked" /\ role
  /\ state' = "decoy"
  /\ UNCHANGED <<vmk, role, disk, recent, queue, saving, timer, wsVars, renewals, forgotten, screen>>

\* Mutant: the timer is not set.
UnlockUntimed ==
  /\ screen # "root" /\ state = "needsBiometric"
  /\ state' = "authenticated"
  /\ queue' = queue \o ConnectCalls
  /\ UNCHANGED <<vmk, role, disk, recent, saving, timer, wsVars, renewals, forgotten, screen>>

\* The fingerprint is asked for as soon as AuthGate shows its screen, whatever lies
\* on top of it.
CompleteBiometricUnlock ==
  /\ screen # "root" /\ state = "needsBiometric"
  /\ state' = "authenticated"
  /\ queue' = queue \o ConnectCalls
  /\ timer' = TRUE
  /\ UNCHANGED <<vmk, role, disk, recent, saving, wsVars, renewals, forgotten, screen>>

UseFallbackPassword ==
  /\ screen = "home" /\ state = "needsBiometric"
  /\ state' = "locked"
  /\ UNCHANGED <<vmk, role, disk, recent, queue, saving, timer, wsVars, renewals, forgotten, screen>>

-----------------------------------------------------------------------------
(* Locking and logging out. *)

\* lock().  The screen on top stays.
Lock ==
  /\ state = "authenticated"
  /\ timer' = FALSE
  /\ Disconnect
  /\ queue' = Append(queue, "decide")
  /\ UNCHANGED <<appVars, disk, recent, saving, renewals, forgotten, screen>>

\* The app goes to the background, with the guard still there.
AppPaused == screen # "root" /\ Lock

\* The timer fires, and does nothing if the session is not open.
AutoLock ==
  /\ timer
  /\ \/ Lock
     \/ /\ state # "authenticated"
        /\ timer' = FALSE
        /\ UNCHANGED <<appVars, disk, recent, queue, saving, wsVars, renewals, forgotten, screen>>

RegisterActivity ==
  /\ screen # "root" /\ state = "authenticated"
  /\ timer' = TRUE
  /\ UNCHANGED <<appVars, disk, recent, queue, saving, wsVars, renewals, forgotten, screen>>

\* logoutAndForget(), from the settings or the devices screen, which may have stayed
\* through a lock.
LogoutAndForget ==
  /\ screen = "content" /\ ~Pending("clear")
  /\ timer' = FALSE
  /\ Disconnect
  /\ queue' = Append(queue, "clear")
  /\ UNCHANGED <<appVars, disk, recent, saving, renewals, forgotten, screen>>

\* Mutant: only the tokens are removed from the storage.
ClearTokens ==
  /\ Reply("clear", << >>)
  /\ disk' = disk \ {"access", "refresh"} /\ recent' = FALSE
  /\ vmk' = FALSE /\ role' = FALSE
  /\ state' = "needsSetup"
  /\ forgotten' = TRUE
  /\ screen' = IF screen = "content" THEN "root" ELSE screen
  /\ UNCHANGED <<saving, timer, wsVars, renewals>>

\* If the screen that logged out is still there, the welcome screen then replaces
\* every other, AuthGate and the guard included, until the app is started again.
OnClear ==
  /\ Reply("clear", << >>)
  /\ disk' = {} /\ recent' = FALSE
  /\ vmk' = FALSE /\ role' = FALSE
  /\ state' = "needsSetup"
  /\ forgotten' = TRUE
  /\ screen' = IF screen = "content" THEN "root" ELSE screen
  /\ UNCHANGED <<saving, timer, wsVars, renewals>>

\* An hour has passed since the password was entered.
WindowEnds ==
  /\ recent
  /\ recent' = FALSE
  /\ UNCHANGED <<appVars, disk, queue, saving, timer, wsVars, renewals, forgotten, screen>>

\* A screen of the open session is pushed on top of it; the uppermost screen is left.
Push ==
  /\ screen = "home" /\ state = "authenticated" /\ ~Pending("clear")
  /\ screen' = "content"
  /\ UNCHANGED <<appVars, disk, recent, queue, saving, timer, wsVars, renewals, forgotten>>

Back ==
  /\ screen \in {"content", "setup"} /\ saving = "nothing"
  /\ screen' = "home"
  /\ UNCHANGED <<appVars, disk, recent, queue, saving, timer, wsVars, renewals, forgotten>>

\* The app is killed and started again.
Kill ==
  /\ state' = "unknown" /\ vmk' = FALSE /\ role' = FALSE
  /\ queue' = <<"boot">> /\ saving' = "nothing"
  /\ timer' = FALSE
  /\ channel' = NoSocket /\ socket' = [s \in Sockets |-> "none"] /\ reconnects' = 0
  /\ renewals' = 0 /\ screen' = "home"
  /\ UNCHANGED <<disk, recent, forgotten>>

-----------------------------------------------------------------------------
(* WsClient and ApiClient. *)

OnWsServer ==
  /\ Reply("wsServer", IF "server" \in disk THEN <<"wsToken">> ELSE <<"wsNothing">>)
  /\ UNCHANGED <<appVars, disk, recent, saving, timer, wsVars, renewals, forgotten, screen>>

\* A channel is made at once; whether it gets through shows later.
OnWsToken ==
  /\ \/ Reply("wsNothing", << >>) /\ UNCHANGED <<channel, socket>>
     \/ Reply("wsToken", << >>) /\ "access" \notin disk /\ UNCHANGED <<channel, socket>>
     \/ /\ Reply("wsToken", << >>) /\ "access" \in disk
        /\ \E s \in Sockets :
             /\ socket[s] = "none"
             /\ channel' = s
             /\ socket' = [socket EXCEPT ![s] = "open"]
  /\ UNCHANGED <<appVars, disk, recent, saving, timer, reconnects, renewals, forgotten, screen>>

\* Mutant: no reconnect is scheduled.
SocketDoneForGood(s) ==
  /\ socket[s] # "none" /\ reconnects < MaxReconnects
  /\ socket' = [socket EXCEPT ![s] = "none"]
  /\ channel' = NoSocket
  /\ UNCHANGED <<appVars, disk, recent, queue, saving, timer, reconnects, renewals, forgotten, screen>>

\* onDone or onError, of this socket or of one given up long ago.
SocketDone(s) ==
  /\ socket[s] # "none" /\ reconnects < MaxReconnects
  /\ socket' = [socket EXCEPT ![s] = "none"]
  /\ channel' = NoSocket
  /\ reconnects' = reconnects + 1
  /\ UNCHANGED <<appVars, disk, recent, queue, saving, timer, renewals, forgotten, screen>>

\* Five seconds later, whatever the session has come to.
Reconnect ==
  /\ reconnects > 0
  /\ reconnects' = reconnects - 1
  /\ queue' = queue \o ConnectCalls
  /\ UNCHANGED <<appVars, disk, recent, saving, timer, channel, socket, renewals, forgotten, screen>>

\* _tryRefresh(): a request of an open screen was answered 401.  Each such request
\* refreshes on its own.
TryRefresh ==
  /\ state = "authenticated" \/ screen = "content"
  /\ queue' = Append(queue, "renew")
  /\ UNCHANGED <<appVars, disk, recent, saving, timer, wsVars, renewals, forgotten, screen>>

OnRefresh ==
  /\ Reply("renew", << >>)
  /\ renewals' = IF "refresh" \in disk THEN renewals + 1 ELSE renewals
  /\ UNCHANGED <<appVars, disk, recent, saving, timer, wsVars, forgotten, screen>>

\* The server answers with a token or not; the token is written, no matter
\* whether there still is a session.
Renewed ==
  /\ renewals > 0
  /\ renewals' = renewals - 1
  /\ queue' \in {queue, Append(queue, "renewed")}
  /\ UNCHANGED <<appVars, disk, recent, saving, timer, wsVars, forgotten, screen>>

OnRenewed ==
  /\ Reply("renewed", << >>)
  /\ disk' = disk \cup {"access"}
  /\ UNCHANGED <<appVars, recent, saving, timer, wsVars, renewals, forgotten, screen>>

-----------------------------------------------------------------------------
SessionNext ==
  \/ OnBoot \/ OnDecide
  \/ Setup("claim") \/ Setup("pairing") \/ Login \/ OnRelogin \/ OnStamp
  \/ \E entry \in Entries : OnWrite(entry)
  \/ EnterDecoyMode \/ CompleteBiometricUnlock \/ UseFallbackPassword
  \/ AppPaused \/ AutoLock \/ RegisterActivity \/ LogoutAndForget \/ OnClear
  \/ Push \/ Back \/ WindowEnds \/ Kill
  \/ OnWsServer \/ OnWsToken \/ Reconnect
  \/ \E s \in Sockets : SocketDone(s)
  \/ TryRefresh \/ OnRefresh \/ Renewed \/ OnRenewed

SessionSpec == SessionInit /\ [][SessionNext]_sessionVars

-----------------------------------------------------------------------------
(* What holds in between, and makes ImplementsAppLock inductive. *)

SaveCalls == {"relogin", "stamp"} \cup Entries
Step == [server |-> 1, access |-> 2, refresh |-> 3, vmk |-> 4, role |-> 5]

\* The calls of one saveSession are under way in order, with no other one's
\* among them; the calls before and after it are under way alone.
Ordered(q) ==
  \A i, j \in 1 .. Len(q) :
    q[i] \in SaveCalls /\ q[j] \in SaveCalls /\ i < j =>
      q[i] \in Entries /\ q[j] \in Entries /\ Step[q[i]] < Step[q[j]]

Once(q, call) == \A i, j \in 1 .. Len(q) : q[i] = call /\ q[j] = call => i = j

\* The start of the app has the phone for itself.
BootsAlone ==
  Pending("boot") =>
    /\ queue = <<"boot">> /\ state = "unknown" /\ ~vmk /\ ~role /\ saving = "nothing"
    /\ reconnects = 0 /\ renewals = 0 /\ \A s \in Sockets : socket[s] = "none"
    /\ screen = "home"

\* Only a session that is being saved has such calls, and the password is
\* recorded after the entries are all there.
SavesInOrder ==
  /\ Ordered(queue)
  /\ saving = "nothing" => \A call \in SaveCalls : ~Pending(call)
  /\ Pending("stamp") => saving \in {"claim", "login"}
  /\ saving # "nothing" =>
       Pending("relogin") \/ \A entry \in {"access", "vmk"} : entry \in disk \/ Pending(entry)

\* A session is saved from the screen that asked for it, with no logout under way;
\* a login besides with no lock under way.
SavesApart ==
  /\ saving \in {"claim", "pairing"} => screen \in {"setup", "root"}
  /\ saving = "login" =>
       screen = "home" /\ state \in {"locked", "decoy"} /\ vmk /\ ~Pending("decide")
  /\ Pending("clear") =>
       /\ saving = "nothing" /\ screen \in {"home", "content"}
       /\ state \notin {"unknown", "needsSetup"}
  /\ Once(queue, "clear")

\* What the phone has in memory and in the storage goes together.
Consistent ==
  /\ role => vmk
  /\ recent => {"access", "vmk"} \subseteq disk /\ (vmk \/ Pending("boot"))
  /\ state \in {"authenticated", "needsBiometric"} => vmk
  /\ state = "needsSetup" => ~vmk /\ ~role /\ ~recent
  /\ forgotten => ~vmk /\ ~recent /\ "vmk" \notin disk /\ saving = "nothing"
  /\ screen = "content" => vmk /\ state \in {"locked", "needsBiometric", "authenticated"}

SessionInv == SessionTypeOK /\ BootsAlone /\ SavesInOrder /\ SavesApart /\ Consistent

-----------------------------------------------------------------------------
\* session_provider.dart:304-319: an open session is never left without the
\* inactivity timer, whatever locks, taps and logouts overlap, unless it is
\* being closed already.
NeverUnguarded ==
  state = "authenticated" => timer \/ Pending("decide") \/ Pending("clear")

\* A connect that found no server is through before a session is stamped.
NothingBefore(q) ==
  \A i, j \in 1 .. Len(q) : q[i] = "stamp" /\ q[j] = "wsNothing" => j < i

\* secure_storage_service.dart:33-41, session_provider.dart:146-168, 225-256,
\* ws_client.dart:17-23: the server is written first, so that a phone with a key,
\* and an open session above all, has a server and a token to connect with; and no
\* open session has a connect under way that has found none.
ServerKnown ==
  /\ "vmk" \in disk => "server" \in disk
  /\ saving # "nothing" => "server" \in disk \/ Pending("server") \/ Pending("relogin")
  /\ vmk => {"server", "access"} \subseteq disk
  /\ Pending("wsNothing") => ~recent /\ state \notin {"authenticated", "needsBiometric"}
  /\ NothingBefore(queue)

\* ws_client.dart:17-63: `_channel` is never a channel that is gone; and an open
\* session without a channel is about to get one: a connect or a reconnect is under
\* way, or a socket is yet to end and then leads to one.
ChannelKnown ==
  /\ channel # NoSocket => socket[channel] = "open"
  /\ state = "authenticated" /\ channel = NoSocket /\ ~Pending("decide") /\ ~Pending("clear") =>
       \/ Connecting \/ reconnects > 0
       \/ \E s \in Sockets : socket[s] # "none"

\* Both together: whatever is locked, killed or dropped, a phone that is open finds
\* its way to its server, and whoever holds the key can tell which server that is.
Online == ServerKnown /\ ChannelKnown

\* What AuthGate stands at.
Door ==
  IF ~vmk THEN "shut"
  ELSE CASE state = "authenticated" -> "open"
         [] state = "needsBiometric" -> "tap"
         [] OTHER -> "shut"

Left == screen = "content"

Lockbox == INSTANCE AppLock
  WITH door <- Door, left <- Left, recent <- recent, forgotten <- forgotten

\* session_provider.dart:134-332, main.dart:80: beneath all the awaiting the lock keeps
\* what AppLock promises: a session opens with the password or with a tap, a tap is
\* offered only while the last password is recent, a screen of the session comes on
\* top only while it is open, and after a logout nothing brings session or screen
\* back -- no late refresh, no lock under way, no restart -- until the phone is claimed
\* or paired again.  What AppLock allows, as the code does: the hour may pass while the
\* tap is on offer, and a screen on top stays there through a lock.
ImplementsAppLock == Lockbox!LockSpec
==============================================================================
