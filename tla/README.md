# Parsonal in TLA+

Parsonal is a private app for one couple: a FastAPI server over PostgreSQL and
MinIO, an admin panel that hands out setup codes, and a Flutter app. Content is
encrypted on the phones with one shared key, the Vault Master Key. This
directory models the parts of it in which steps of several actors interleave:
handlers that load rows and commit later, broadcasts over websockets that come
and go, phones that retry and are killed, a server that restarts.

The code under `src/` is the reference. Every definition that models code is
listed with its lines in `PROJECT.json` under `map`.

## 1. The system

Everything on the server runs in one asyncio event loop (one uvicorn process).
Code between two `await`s is atomic; at each `await` any other request may run.
Each request has a database session of its own (`expire_on_commit=False`), and
PostgreSQL runs READ COMMITTED without row locks: what a handler has loaded may
be stale when it commits. The ORM writes only attributes whose value differs
from the loaded one; an UPDATE that finds its row gone raises, a DELETE does not.
The app is single-threaded in the same way: Dart runs one callback at a time,
and between an `await` and its answer any other may run.

| component | state | operations | what must hold |
|---|---|---|---|
| rate limiter, `services/rate_limit.py` | recent attempts per bucket and address | one check per request | no window with more than `max_attempts`; no lockout beyond what the window says |
| connection registry, `ws/manager.py` | spouse to set of sockets | connect, disconnect, send_to_spouse | a live connection is reachable; "sent" means that one took it |
| chat API, `routers/chat.py` | messages with delivered_at, read_at | websocket loop, REST send, history page, mark as read | nobody hears of what is not committed; acknowledged means stored and notified |
| notifications, `services/notifications.py` | inbox rows | notify_spouse, inbox, mark all read | an inbox row for each thing told |
| chat screen, `chat_screen.dart` | the listed messages, ticks, paging flags | load, live frames, receipts, scroll up, search | ticks are true; what is listed has had its receipt sent; no holes in what is paged in; the first message is reached |
| vault and consent, `routers/content.py` | entries, trash, consent requests, audit rows | create, view, edit, delete, restore, request, decide, favourite | the audit trail explains the entries; no requested text without approval |
| social, `routers/social.py` | reactions, comments, celebrations | react, unreact, celebrate, comment, edit, delete | no match is missed or invented; one celebration each |
| vault key and setup codes, `routers/admin.py`, `database.py` | `vault_keys`, `setup_codes` | current code, create, delete, start-up backfill | one key, for ever |
| claiming and pairing, `routers/auth.py`, `claim_role_screen.dart` | roles, the key on each phone | claim, pair, log in, forget | one winner per role; every phone has the one key |
| tokens and devices, `routers/auth.py`, `routers/device.py`, `deps.py` | device rows, tokens on phones, reset sessions | log in, refresh, remove, list, reset | a removed device is cut off; no unapproved reset |
| session and app lock, `session_provider.dart`, `secure_storage_service.dart`, `app_lock_guard.dart` | state, key and role in memory, entries on disk, inactivity timer, the screen on top | bootstrap, claim, pair, log in, tap, fall back, lock, time out, log out | the lock's promise (`AppLock`); an open session is guarded; memory and disk agree |
| websocket and HTTP clients, `ws_client.dart`, `api_client.dart` | channel, reconnect timers, tokens | connect, reconnect, disconnect, refresh | an open session gets back online; a late refresh brings nothing back |
| media, `routers/media.py`, `storage.py`, `media_service.dart`, `chunked_crypto.dart`, `video_stream_server.dart` | objects, the asset's row, the phone's cache | upload, thumbnail, convert, range, stream | what was uploaded is never lost; each player gets exactly its bytes |
| phrases, profile, countdown, settings, wishlist, favourites, the first admin password | one row each | create, edit, rate, toggle, delete | no answered change is lost to an older one; phones that miss nothing follow the settings |
| reel, daily reminder, disabled factors, other screens | none of their own | reading, broadcasting | (not modelled, section 5) |

They interact as follows. Handlers call `notify_spouse`, which writes an inbox
row and calls `send_to_spouse` of the registry. The chat screen gets frames
from the socket and sends REST requests back (receipts, pages). A claim carries
a setup code's token to the server and a key back. A device row is what logins,
refreshes and the Devices screen have in common. The session opens and closes the
websocket, and the HTTP client writes the renewed token into the storage from
which the session starts.

The hard behaviours, each with its line and the properties about it, are in
`PROJECT.json` under `hazards`.

## 2. Modules

`RateLimit` -- the limiter; `SlidingWindow` is the abstract specification of what
its docstring promises, with the whole history kept. `attempts` is `_attempts`;
`admitted` and `verdict` are history variables. The pop loop is a choice of the
number `d` of popped entries that satisfies the loop's exit condition.

`ChatServer` -- the registry with the chat handlers and `notify_spouse`. A task is a
websocket loop or a REST request with a program counter; each action is the code
from one `await` to the next. A Python set object is named by the first
connection put into it, since a broadcast goes on with the object it was given
even after the registry has dropped the key: `registry` maps a spouse to a set
object, `members` a set object to its connections, `fan` holds each running
iteration. `wire` records what each socket has taken, in order. Sockets are lost
first and fail later: a send on a lost socket is swallowed or raises.

`ChatSystem` -- extends `ChatServer` with the chat screens: frames are handled in
order, decryption is a step of its own, the history page is fetched and applied
in two steps. The page may be the cached one (`FetchCached`: anything true at some
earlier time) or fail. A read receipt is sent and forgotten, as in the code: `toMark` holds
the requests under way, `RequestRead` is one that reaches the server and runs there as
`MarkRead`, `RequestLost` one that fails; `unsent` is a history variable for those.

`ChatHistory` -- the message list against the paged history: first load, live
messages, scrolling up, and several searches at once, each request split into
sending and applying, and each may fail. Messages are numbered by `created_at`.
`Write` stores a message on the server; `Arrive` lists one, in any order, late or never,
since each is decrypted on its own before it is appended and frames sent while the
socket is down are not sent again. `TakeCachedPage` is the first page as the phone has cached
it, however old. History variables: `opened`, the messages there were when the screen opened;
`live`, what is listed because a frame brought it; `early`, a search overtook the first load.
`Without`, which leaves out of a page what is listed already, is a recursive function.

`Vault` -- entries and consent. A request (task) loads, checks and commits; rows,
ciphertexts and consent requests are named after the task that made them.

`Social` -- reactions, matches, celebrations, comments; inserts fail on the UNIQUE
constraints of `models/social.py`.

`KeyCustody` -- admin requests, claims and phones around the vault key; the server
crashes between any two steps and boots with `init_models`. It starts (`deployment`) from a
fresh database, from one of the old design with its setup code and some roles claimed, or from
one that has both roles claimed and no code left, whose key is nowhere but on the phones.

`DeviceAccess` -- logins, refreshes, removals and password resets over the Device
rows; tokens are what the phones store.

`SharedRows` -- the small rows: phrases with their ratings, wishes, profiles, the
countdown, settings with their broadcast, favourites, the first admin password.
One handler shape serves them all: `Begin` (which loads the row and refuses
with 403, 404 or 409), a second look where the code takes one (`Recheck`), then `Insert`, `Update` or `Delete`, and for
a setting `Tell`. `row` is the database, `found` what the request's session has
loaded, `call` what the request sets; an update writes only what differs from
`found`. `before` is a history variable: which requests had ended when this one began.
The phones show a setting: `Tell` reaches those that have a connection just then, `Flip` is the
optimistic toggle and its revert, `Load` and `ShowLoaded` are `loadIntimateMode` with its await,
`Restart` an app started again. `missed` is a history variable: what a phone shows rests on older news
than there is.
The generic favourite toggle of `social.py` is the same code as that of `content.py`.

`Media` -- one video. `stored` is the bucket, `asset` the row; `at`, `job` and `loaded` are the
requests that bring a file (upload, thumbnail, `replace_with_chunked`); `cached` and `writing`
are the phone's cache, which all its players share, with the files still being written; each
`player` is a source of the streaming proxy answering one request, batch by batch. `putBlob` may fail,
before or halfway (`WriteFile`), and the player goes on all the same; a header that is read
torn makes `open()` throw, and the video is then downloaded whole. Ciphertext is a record of its object and an
interval, so that a chunk verifies just when it is the right one of the right object.
The chunk and range arithmetic are functions and operators over integers: `ChunkStart` adds up
what the encoder writes, chunk after chunk, `EncOffset` multiplies as the decoder does. What the
player is given is a sequence of pieces, each a first and a last position in the video.

`Session` -- one phone. The secure-storage plugin answers in order, so `queue` holds
the calls under way, and an action `On...` is one answer with the code that awaited it:
`saveSession` is five writes, `lock()` and `bootstrap()` end in `OnDecide`, `logoutAndForget()`
in `OnClear`. `Kill` leaves the storage only. `screen` is what lies on top of the root Navigator: the home
screen, whose guard and `AuthGate` follow `state`; a screen of the open session pushed over it (`Push`), which
stays there through a lock; a claim screen, which stays after a claim, so that a second tap pairs
over the session just opened (`Setup` looks at no state); or, after a logout from such a screen, the
welcome screen in place of them all. `channel` and `socket` are the
websocket client's: a socket given up is `"closing"` and still ends by a callback that
clears `channel`, whatever that is by then. `AppLock` is what the lock promises (DECISIONS.md,
27) over `door`, `left`, `recent` and `forgotten`; `Session` implements it under the mappings `Door`, what `AuthGate`
stands at, and `Left`, that a screen of the session lies on top. The lock does not promise that a shut door hides such a screen.

`MC*` modules give the constants, bounds and symmetries of the instances. `MCRecords`
holds two instances that share nothing, `SharedRows` and `Media`; `world`, chosen at the
start, says which of the two a behaviour is about, and which part of it. `RateLimitProofs`, `ChatProofs` (about
`ChatServer`, `ChatSystem` and `ChatHistory`), `SessionProofs`, `VaultProofs`, `SocialProofs`,
`KeyCustodyProofs`, `DeviceAccessProofs` and `RecordsProofs` (about `SharedRows` and `Media`)
hold the theorems (section 4). Operators marked as mutants in the
modules are plausible mistakes: each breaks the property it is listed with in
`PROJECT.json`, which shows that the property can fail.

## 3. Runs

All passing runs are exhaustive within the bounds given.

| run | instance | properties |
|---|---|---|
| rate_limit | 2 keys, 2 attempts, window 2, 6 ticks | IInv, NoBurst, ImplementsSlidingWindow |
| chat_server | 1 + 2 connections, 1 REST request each, any 3 of these 5 tasks, 1 message, fair | ChatInv, LiveRegistered, DeliveredReached, AckedIsNotified, EveryTaskSettles |
| chat_system | 1 + 1 connections, 1 REST request each, 1 message | ScreensInv, FramesBacked, SeenIsTrue, ReceiptNotLost |
| chat_history | a conversation of no message or of 7 that grows by at most 3, pages of 2, search pages of 4, 2 searches of at most 2 pages, fair | HistoryInv, ListIsWhole, CompleteMeansComplete, ReachesTheFirst |
| vault | 5 requests, at most one create and one view | VaultInv, TrailTells, AppliedOnlyIfApproved |
| social | 5 requests, 1 entry, both spellings of the heart | SocialInv, MatchesAnnounced, CelebratedOnce, HeartsGoWithComment |
| key_custody | 3 admin requests, 2 phones, 2 roles, all three deployments | KeyInv, KeyIsKept, ClaimedOnce |
| device_access | 4 requests, 2 phones, fair | AccessInv, ResetWasApproved, TokensNeedTheRow, RemovedIsCutOff |
| session | 2 channels, 2 reconnects, 5 calls to the storage and refreshes under way at once, 6 while a session is saved | SessionInv, NeverUnguarded, Online, ImplementsAppLock |
| records | 3 requests on one kind of row; or 2 changes of a setting and 2 phones; or 3 uploads of a video; or one that is converted once, of 0, 1, 4 or 5 bytes, and one player at a time; or one of 1 or 4 bytes that is converted twice, and 2 players; chunks of 2, batches of 2 chunks, ranges of at most 6 bytes | RowsInv, MediaInv, NothingLost, ScreensAgree, MediaKept, BytesExact |

What they show, beyond the names. `IInv`, `ChatInv`, `ScreensInv`, `HistoryInv`, `VaultInv`, `SocialInv`,
`KeyInv`, `AccessInv`, `SessionInv`, `RowsInv` and `MediaInv` are the inductive invariants of section 4, types
included, or with the properties listed beside them (`ScreensInv` with `SeenIsTrue` and
`ReceiptNotLost`) make them up: TLC checks on each instance what the proofs establish for all. `ReceiptNotLost`: the code
sends each receipt once and forgets it, so the property does not say that a receipt gets through; it says that every
screen that lists an incoming message has asked, and that only a request that fails on its way (`unsent`) leaves the
message unread. `ListIsWhole`: no message is listed twice, and what was paged in is in order and without a
hole from the top of the list to the newest message of the first page; live messages stand below, in the order in which
they were decrypted, and may be missing. `CompleteMeansComplete` and `ReachesTheFirst` name the cases in
which the code does stop early (below).
`KeyIsKept`: one key on the server and in all codes; the phones have it too, but for those of a deployment
upgraded without a code, whose key the server never holds. `MatchesAnnounced`: when both hearts are there and both requests were answered, one of them was
told of the match, and no match is announced that was not one. `SessionInv`: writes of a session come in their order, with no
other's among them and none undone half-way by a logout, although a claim screen may pair over an open session; and the
key in memory, the entries on disk, the state of the app and the screen on top agree. `NeverUnguarded`: an open session has its inactivity timer or is being closed.
`Online`: `_channel` is a live channel, and an open session without one is about to get one (`ChannelKnown`);
and a phone with the key has the server's address, an open session a token, wherever `saveSession`
was killed (`ServerKnown`). `TrailTells`: what an entry says (`TrailTellsText`) and where it is
(`TrailTellsTrash`) follows from the trail.
`ImplementsAppLock`: the door opens with the password or with a tap offered while the
last password was recent, a screen comes on top only while it is open, and after a logout neither a late refresh
nor a lock under way nor a restart brings the session or a screen of it back. A screen on top outlasts
a lock, as it does in the code. `NothingLost`: no answered change of a shared row is
lost to one that ended before it began, attribute by attribute. `ScreensAgree`: after changes made one after
another, a phone shows what is stored unless it has missed some news: the last broadcast did not reach it, it has
toggled or been restarted since, or an older load came late. `MediaKept`: what the row
names is in the bucket and the file first uploaded is still named. `BytesExact`: a range
request gets the bytes it asks for up to the cap, over all ranges of all sizes in the
instance; each of the players that share a cache gets its bytes in order, each once, whatever the cache holds; and
an answer breaks off because a chunk does not verify only after a torn read or after two overlapping conversions.

*Why these bounds.* Two connections of the recipient are what it takes for one to
come or go while a broadcast iterates over the other; the writer's own
connection adds the acknowledgement. One message is enough because handlers
share nothing per message but the registry; the order of frames matters for the
screens, where one message already has four kinds of frames. Pages of two, seven messages and
up to three more give the first load, several pages, a page boundary, a search
that pages across two scrolls, and a live message older than a whole first page; the empty conversation has a first
message that is live, and a cached page may be of any age. Five requests in the vault are the shortest in
which an entry is created, a change is requested, and two decisions or a
deletion and a restore overlap; a view changes nothing but the trail, so more than
one adds nothing, and a second entry is never touched by a request for the first. On
one entry both spouses' hearts, in both spellings, with a third request to undo
one, fill five requests of `social`. Three admin requests and a crash allow a
first code, its deletion and another code. Five calls are two refreshes with a lock and a logout and one more, six a whole
`saveSession` with another beside it; two channels are one that is closing and one that is open or yet to come, and two
reconnects what both of them leave behind. Three requests are what a lost update takes (two that overlap and one that begins
after), and rows of different kinds share nothing. Two changes of a setting overlap or follow one another, with
toggles, a load and restarts on either spouse's phone in between. Three uploads are a video, a thumbnail
or a first conversion, and a conversion that overlaps it, and two players are one that opens the video before and one that
opens it after the second conversion; five bytes in chunks of two are
full chunks, a short last one and more chunks than one batch, zero and one byte the
degenerate ones.

*Constraints.* `FewCreatesAndViews` (`vault`), `FewCalls` (`session`) and
`AnyThreeTasks` (`chat_server`), which lets any three of the five tasks start and takes the first
of the wife's two phones to connect first; no fair action starts a task, so that liveness
is not weakened by it. `MCRecords` puts its bounds (`OneTable`, `FewChanges`, `Bounded`) on the steps of `Next`.
*Symmetry* is used in `vault`, `social`, `key_custody`, `session` and
`records` for requests, phones, roles, spellings of the heart, channels, uploads and players that no definition tells
apart; these runs check no liveness. *Deadlock* is not checked where
the instance stops once its requests are used up; the runs of the limiter and of the
session check it.

*Fairness.* `ChatServer`: the event loop resumes each task that is ready, and a lost
socket is noticed, since uvicorn pings its peers. `ChatHistory`: a page request is
answered now and then, which is strong fairness of applying the answer against
weak fairness of asking, because any single request may fail. `DeviceAccess`: handlers
run to their end and access tokens expire. Nothing is assumed of users but that
the reader keeps scrolling up, which is the premise of `ReachesTheFirst`. `Session`
assumes that typing a password outlasts a storage call (stated at `Login`), and that nobody leaves a screen
and completes another while one is under way (at `Setup`); storage calls succeed.

### Disagreements between code and documentation

Two runs expect a violation; each checks a sentence the repository says of the
program.

- `key_custody_race` / `OneKey`: two first admin requests make two vault keys
  (`admin.py:34-40`); phones that claimed with different codes cannot read each
  other, and the admin endpoints fail from then on.
- `seen_tick` / `SeenTickArrives`: `chat_read` is dropped by a screen that is still
  decrypting the message (`chat_screen.dart:228-254`).

Further deviations met while modelling, which the models reproduce and some properties
except explicitly:

- Two devices of one spouse can decide a consent request twice (`content.py:309` checks,
  `:333` commits).
- The Devices screen lists only rows with `totp_confirmed`, which no handler sets any
  more (`device.py:55`, `user.py:57`). The model is of a new deployment; upgrading one
  that used authenticator codes copies the flag (`database.py:57-64`).
- A broadcast whose set changes raises; the websocket then answers "malformed
  message" (`chat.py:217`) to a message that is stored. The sender of a REST
  request gets 500. Hence `AckedIsNotified` speaks of acknowledged messages only.
- `README.md:156-157` says that editing or deleting always needs approval;
  `content.py:167-204` deliberately does without, and says so. Hence
  `AppliedOnlyIfApproved` speaks of requested texts.
- Two overlapping first logins of a phone leave two Device rows (`auth.py:75-92`),
  after which `scalar_one_or_none` fails every login of that phone.
- `DECISIONS.md:213-214` says a revoked device cannot just log in again; it can.
- A read receipt is sent and forgotten (`chat_screen.dart:205-216`, 277): one that fails is not repeated by that screen,
  and the message stays unread until a screen is opened anew. The comment there says so; `ReceiptNotLost` excepts it.
- Live messages are appended when they have been decrypted (`chat_screen.dart:245-273`), so they may stand in another
  order than they were written in, and those whose frames were sent while the socket reconnects (5 seconds,
  `ws_client.dart:52`) are missing until a reload. The first load takes live messages off the list that are not on its page
  (`chat_screen.dart:143`). `ListIsWhole` therefore claims order and no hole only of what was paged in.
- If the first request fails, the page cached last is taken (`chat_service.dart:38-43`), with its old ticks; whether it is
  full then decides whether there is more. Messages written since are missing from the list.
- A search and a scroll that load the same page end the history too early: the
  second finds nothing new on it (`chat_screen.dart:194`). So does a live message that is listed below and belongs to a
  page above: one that was written before a whole page of others and came after that page (`LateFrame`).
  `CompleteMeansComplete` and `ReachesTheFirst` except both. A search before the first
  load is through can leave a gap (`ListIsWhole` excepts it).
- The list is said to go "all the way to the very first message ever exchanged"
  (`chat_screen.dart:48-49`). A first page of an empty conversation, fetched or cached, is empty and counts as
  complete; a message written meanwhile is then only listed if its frame comes afterwards. `CompleteMeansComplete` and
  `ReachesTheFirst` except it.
- A first load that fails with nothing cached is never tried again while the screen is open: the exception leaves
  `_load`, and the screen goes on showing that it is loading (`chat_screen.dart:137-152`).
  `ReachesTheFirst` excepts it.
- An upgraded deployment that had deleted its code has no key on the server (`database.py:71-74` says so): the next
  admin request makes another one, and a phone that claims or pairs with a new code cannot read what the first two wrote.
- A reaction whose notification fails is answered 500 although it is committed, and its request does not look for the
  match (`social.py:64-68`); the other spouse's later reaction, or the celebration asked for by a screen, still finds it.
- A heart put on a comment while it is being deleted stays behind
  (`social.py:221-228`); `HeartsGoWithComment` is about those the handler saw.
- An approval may write nothing when the entry already had the value when loaded
  (`TrailTellsText`, `TrailTellsTrash` except exactly that).
- Two overlapping first countdowns insert two rows (`profile.py:68-91`); from then on the
  one changed last counts. A rating whose request overlaps an edit of the phrase may survive
  it (`phrase.py:74`), so `NothingLost` speaks of edits begun after the rating. Of two
  overlapping first runs of the admin panel the second overwrites the password of the first or
  fails on the key, depending on what its second look finds (`admin.py:82-90`).
- Broadcasts of overlapping settings reach the two spouses in different orders, and the
  screens then differ (`profile.py:146-153`); `ScreensAgree` is about settings made one after
  another. A phone without a connection misses the broadcast, whose result is ignored; a comment says that a
  reconnect corrects the mode (`session_provider.dart:85-86`), but neither a reconnect nor a tap loads it again, only a
  claim or a login. A toggle that fails shows the negation of what it wanted, whatever was told meanwhile (line 97).
- A cache file that was torn, when the app was killed or a write failed, is never replaced. With a torn header `open()`
  throws each time and the video is downloaded whole (`decrypted_media.dart:361-385`); at a torn chunk the answer breaks off.
  Answers also break off on a phone whose cache, or two of whose players, have a header and chunks of different conversions:
  two overlapping ones each replace the object (`media.py:190-202`), and two `open()` calls around the second leave
  the new header with old chunks. `AnswerExact` names just these two causes, a torn read and two conversions that both
  became the object. The file first uploaded is kept in either case.
- A socket of a session that has been locked still ends by `onDone`, sets `_channel` to null
  even if there is a newer one, and schedules a reconnect (`ws_client.dart:36-63`): a locked
  phone may be connected, and one phone may have two sockets, of which it forgets one.
- `lock()` leaves the screens pushed over the home of the root Navigator where they are (`main.dart:80`,
  `home_tab.dart:161-192`): they stay readable until they are left, although `app_lock_guard.dart:15` speaks of forcing
  re-authentication; and touches on them do not reach the guard's `Listener`, so that the inactivity timer runs out under
  them. A logout from one of them replaces AuthGate and the guard by the welcome screen until the app is started again: a
  phone claimed anew from there shows no home screen before that, and is not locked by going to the background.
- The claim screen stays on top after a claim (`claim_role_screen.dart:69-77`). A second tap is answered 409 and pairs over the
  session just opened: its spouse id and tokens are overwritten with empty ones, which count as tokens here, its channel
  and its timer stay, and the password asked for next finds the last entry recent.
- The hour since the last password is checked when a tap is offered and not when it is
  given (`session_provider.dart:26-30`); `AppLock` allows that, as `DECISIONS.md`, 27 can be read.
- A lock begun while a logout is under way leaves the phone "locked" without role and key, with a login screen
  that does nothing, until it is restarted (`session_provider.dart:304-332`).
- An app killed within `saveSession` after the key and before the role starts as "locked"
  without a role, and the login screen then does nothing (`secure_storage_service.dart:33-41`).

## 4. Proofs

Each theorem holds for every value of the constants that the assumptions of its module
allow: no number of requests, phones, connections or messages is assumed. Each proof has the same shape: an inductive invariant, one lemma per action
or per kind of step, and the property as a consequence. The invariants, types
included, are listed among the properties of the runs.

`RateLimitProofs`, for any keys, any `MaxAttempts >= 1` and any `Window >= 0`
(`RateLimitAssumption`), with a clock that does not step back:

- `Invariance`: `Spec => []IInv`. `NoBurst` alone is not inductive: that the
  admission now is far enough from the one `MaxAttempts` before it follows only if the
  log is the end of the history and everything forgotten is older than the window
  (`RemembersTheWindow`) and times are in order (`InOrder`). The conjunction is.
- `BurstBound` and `RemembersEnough` follow from it.
- `Refinement`: each step of the limiter is a step of `SlidingWindow` under the identity
  mapping of `now`, `admitted` and `verdict`; the invariant gives the equivalence of "the log is full
  after popping" with `Exhausted`.

`ChatProofs`, for any requests and messages, finitely many connections, and two or more spouses
(`ChatAssumption`):

- `Invariance`: `Spec => []ChatInv`, and `StaysReachable`: `Spec => []LiveRegistered`.
  `LiveRegistered` needs that a set object serves only its spouse (`RegistryOwned`), so that
  other spouses' traffic cannot disturb it; that whoever is about to be
  discarded has a broken socket (`DeadAreBroken`); that a task in the middle of a send
  has its message (`CurKnown`, for the types of frames); and that a connection not yet
  started has a fresh socket (`NewIsFresh`).
- `ToldOnlyWhatIsCommitted` (`FramesBacked`), `DeliveredIsTrue` (`DeliveredReached`) and
  `AcknowledgedIsDone` (`AckedIsNotified`) need `FramesInv`: what each program counter
  implies of the database (`TaskInv`: a running broadcast is addressed to the
  spouse its frame is meant for, the handled message is stored, who has been counted as reached has
  the frame on the wire, the rows are written before anything is told), and that a message has one
  handler (`OneHandler`), so that nobody else's send is mistaken for this one's.
- `ImplementsServer`: `SystemSpec => Spec`: with the screens, each step is one of the server's
  or a stutter. Every theorem about the server therefore holds of the composition.
- `SystemInvariance`: `SystemSpec => []SystemInv`, which is `ChatInv` with `ScreensInv` and the two properties, and
  from which `ScreensInvariance`, `TicksAreTrue` (`SeenIsTrue`) and `ReceiptsSurvive`
  (`ReceiptNotLost`): a page under way, fetched or cached, shows no tick that is not stored (`PagesTrue`), and receipts are sent and
  written only for messages that were shown (`MarksShown`, `WritesShown`).

`ChatProofs` again, about `ChatHistory`, for any page sizes, caps and numbers of messages and
searches (`HistoryAssumption`):

- `HistoryInvariance`: `HistorySpec => []HistoryInv`, and from it `HistoryIsWhole` (`ListIsWhole`) and
  `CompleteWhenItSaysSo` (`CompleteMeansComplete`). That the list is whole (`ListedOnce`, `PagesInOrder`, `NoHole`) is not inductive: a page is put in front
  of it whose anchor was the list's beginning when it was asked for. `AnchorsKnown` says that
  such a page still ends within the list, no further down than the first page's newest message; `FirstLoadKnown`, that before the
  first load only live messages are listed and after it the list begins within that page or above; `ScrollsInTurn`, that without searches pages are asked
  for one after another and a page that is not full begins with message 1.
- One lemma (`PrependKeeps`) serves scrolling and searching. It rests on `WithoutKnown`: what is left of a sequence
  without the messages already listed is in order, and holds just the others. `Without` is a recursive
  function; that it exists (`KeptExists`) is shown by exhibiting one, and what it computes by the least counterexample
  (`LeastNatural`, see below).
- The exceptions of `CompleteMeansComplete` are those without which TLC has a counterexample (section 3).

`SessionProofs`, for any channels, any bound on reconnects (`SessionAssumption`) and any number
of storage calls under way, which the run bounds:

- `Invariance`: `SessionSpec => []SessionInv`. What `AppLock` asks of the end of a login, that
  the phone has not been forgotten and has its key, holds because of what came before it in
  the queue: the calls of one `saveSession` are under way in order and with no other one's among
  them (`SavesInOrder`), a session is saved only from the screen that asked for it and no logout is under way then, nor, for a
  login, a lock (`SavesApart`), the start of the
  app has the phone for itself (`BootsAlone`), and memory, storage and the screen on top go together
  (`Consistent`). Queues are reasoned about through `InTail`, `InCat`, `OrderedTail`, `OrderedSave` and
  the like; the actions that neither answer nor make one of those calls share `QuietKeeps`.
- `Guarded`: `SessionSpec => []NeverUnguarded`, inductive together with `SessionInv`: a pending
  decision or clearing stays pending until it is answered (`StillPending`).
- `Refinement`: `SessionSpec => ImplementsAppLock`; each step is `Password`, `Tap`, `Offer`, `Shut`, `Restart`,
  `PutOnTop`, `Leave`, `HourPasses`, `Forget`, `SetUp` or a stutter of the lock.
- `ForgottenStaysForgotten`: proved of the abstract lock and inherited through the refinement:
  after a logout the door is shut, no tap is on offer and no screen of the session is left until the phone is set up anew.
- `ServerIsKnown`: `SessionSpec => []ServerKnown`. `saveSession` writes the server before the key, and the queue
  answers in order, so that whoever has read or written a key has the server. A connect that finds no server ends
  before any session begun after it is stamped (`NothingBefore`).
- `StaysOnline`: `SessionSpec => []Online`, which is `ServerKnown /\ ChannelKnown`: an open session's connect cannot
  end without a channel, and a socket given up still ends by a callback that schedules a reconnect. One lemma
  (`OnlineStays`) serves the actions that leave the connection alone.

`VaultProofs`, for any number of requests (`VaultAssumption`):

- `Invariance`: `Spec => []VaultInv`, and from it `TrailExplains` (`TrailTells`) and
  `OnlyWithConsent`. A row of the trail is the doing of one request that is past its commit
  (`RowKnown`), so that who wrote the last row, and what that row says, never changes
  afterwards; an entry without a text has no trail (`EntryKnown`); and what an approval has loaded
  was written by some row of the trail (`TaskKnown`), which is what
  the exception of `TrailTellsText` rests on. The proof showed that `TrailTellsTrash` must except every
  approval of a deletion after a restore and not only one: with six requests, one more than
  the run has, two approvals can both load the entry from the trash before one restore, and
  both are logged afterwards although neither changes anything.

`SocialProofs`, for any entries and requests of two spouses (`SocialAssumption`; with a third
a match would not be between two):

- `Invariance`: `Spec => []SocialInv`, and from it `MatchesAreAnnounced`, `CelebratedOnlyOnce` and `HeartsAreGone`.
  Two overlapping reactions both insert before they look, and whoever looks second sees both;
  `SocialInv` says so through the rows (`Inserted`: a row is the doing of a request that has yet to look, has looked, or failed
  to notify) and the stages (`StageKnown`).

`KeyCustodyProofs`, for any number of admin requests, claims, phones and crashes (`KeyAssumption`):

- `Invariance`: `Spec => []KeyInv`, and from it `OneKeyIsKept` and `RolesClaimedOnce`. `KeyIsKept` counts
  keys; the inductive form does not: whatever key any request, code, QR code or phone holds is a row
  of `vault_keys` (`OnlyStoredKeys`) or, on a phone, the key that an upgrade without a code could not recover (`Unrecoverable`),
  unless the database is one of the old design with its code that the server has not started on yet (`NotUpgraded`).

`DeviceAccessProofs`, for any number of requests and phones (`DeviceAssumption`):

- `Invariance`: `Spec => []AccessInv`, and `ResetsAreApproved`: a session is opened once
  (`OpenedOnce`), approved by a request that is done (`ApprovedBySomeone`), what was let
  through still holds at the commit (`LetThrough`), and a password comes from a
  completed session (`ResetByCompletion`).
- `NoTokensWithoutRow`: `Spec => TokensNeedTheRow`, an action property.

`RecordsProofs`, about `SharedRows` (any requests, phrases, wishes, settings, ratings;
`SharedRowsAssumption`, `TablesAssumption`: the tables do not overlap and NULL is no key) and
about `Media` (any uploads and sizes; `MediaAssumption`, `AbsentAssumption`):

- `RowsInvariance`: `RowsSpec => []RowsInv`, which is `RowsTypeOK /\ RowsKnown`, and from it `NoChangeIsLost` (`NothingLost`) and
  `ScreensComeToAgree` (`ScreensAgree`). `NothingLost` is not inductive, since it says nothing of requests
  that have loaded their row and not yet written it. `LastIsKnown` does: some request `w` was the last
  to set the attribute, and whoever is through with it, *or is about to write with something else loaded
  than there is now*, began before `w` had ended. The second half is what an UPDATE that skips unchanged
  attributes needs: it leaves the value alone only if it had loaded what it would write, and if that is no
  longer there, `w` overlapped it. Every write falls under one of the cases of `Accounted`, and one lemma (`WriteKeeps`)
  serves `Insert`, `InsertCountdown`, `Update`, `Delete` and their failures; `BeginKeeps` all the openings. For the phones,
  when a request is at work on a setting whose changes came one after another, all the others are
  answered (`LastInTurn`); then a phone that has missed nothing shows what is stored or has yet to be told (`PhonesFollow`), and a load
  that has seen all commits carries what is stored (`LoadsFollow`). The types of the rows need what an INSERT and an UPDATE leave of
  what a request has loaded, and that the countdown's clock has an upper bound.
- `MediaInvariance`: `MediaSpec => []MediaInv`, in two parts. The server (`ServerInv`): there is one upload; a conversion that
  is let through has loaded a row whose object is that upload (`UploadKnown`), so that whichever of two
  conversions commits last names it as `legacy`; `MediaIsKept` (`MediaKept`) follows. The phone's steps leave the
  server alone (`ServerUnchanged`). The phone: a whole file, in the cache or on its way there, is just the header or just one chunk of
  an object that the row has named (`CacheKnown`); each player goes by the header of one such object, be it that of the
  cache or not (`PlayerKnown`); and its answer has come up to the beginning of the chunk that is next (`Streamed`). A chunk
  that does not verify is therefore torn or of another object the row has named, and two such objects
  that are chunked are two conversions, which overlapped.
- `RangesAreExact`: `RangeExact`, the arithmetic of a range request, for objects of any size. The least byte wanted
  is found outright.
- `BytesAreExact`: `MediaSpec => []BytesExact`, for videos, chunks and batches of any size and any number of players. `StreamExact` is
  part of the invariant: pieces follow on one another, within a batch and from one batch to the next.
  That every chunk is where the decoder looks for it, `ChunkStart(n, i) = EncOffset(i)`, is the closed form of
  a recursive function and is proved by its least counterexample (`LeastNatural`).

The library's induction theorems take an operator as a parameter, which the provers cannot
instantiate. `LeastNatural`, that a set of numbers that is not empty has a least one, has only
constants as parameters; it is proved from `WFMin` and `NatLessThanWellFounded` and stands in for induction in
`ChatProofs` and `RecordsProofs`.

Every safety property that a passing run checks, invariant or action property, and both
refinements are theorems. Only model-checked is liveness, which is beyond the prover: `EveryTaskSettles`,
`ReachesTheFirst` and `RemovedIsCutOff`.

## 5. Not modelled

Ciphers, hashing, JWT signatures, layout and wording; pushes, which leave the
system. Listings and other endpoints that only read, the reel among them, which pages
through the videos. The inbox and `mark_all_read`. The daily reminder, one broadcast a day
through `send_to_spouse`, without state of its own. The face and authenticator factors,
which no login path reaches, the duress PIN and push tokens. Creating a category, one
insert nothing depends on. Screens and widgets other than the chat and what the session
shows. The cache of whole downloads; reads of cache files are assumed not to fail, and a batch's reads, its fetch and the
start of its writes are one step. A storage call that throws: `lock()` has then cancelled the timer and does not decide. The
favourite lines, a setting nothing listens for. Frames of settings are shown when sent. In the vault, rows are in the order of their
commits, while `created_at` is taken at the flush. The clock is assumed monotone. A server restart is
modelled for the vault key (`KeyCustody`) and not for the chat, whose registry starts
empty anyway. The components without a module are in `PROJECT.json` with the reason.

## 6. Plan

Done, in this order: the limiter with its refinement; the chat server; the chat
screens over it; paging; vault; social; key custody; device access; the small shared rows;
media; the session with its refinement; theorems about the limiter, the session and the
lock; theorems about the chat server and its composition with the screens, device access, key
custody, the vault, social, the shared rows and media; theorems about paging, about the websocket client
and about the bytes the player gets.

Theorems next: an abstract specification of the paged list, as a growing piece of the
conversation, that `ChatHistory` implements where nobody searches; the same of one shared row, as a register
whose overlapping writes take effect in some order.

Models next, small ones: composing in the chat screen (optimistic sends, failures,
retries); the inbox and its unread count; upgrades in `DeviceAccess` (the `totp_confirmed` backfill
at start-up).
