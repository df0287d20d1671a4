----------------------------- MODULE ChatServer -----------------------------
(***************************************************************************)
(* The server side of the chat: the connection registry of                 *)
(* backend/app/ws/manager.py and the handlers of                           *)
(* backend/app/routers/chat.py that use it (the websocket loop, sending    *)
(* over REST, marking as read), with notify_spouse of                      *)
(* backend/app/services/notifications.py, which every send ends in.        *)
(*                                                                         *)
(* All of it runs in one asyncio event loop: the code between two awaits   *)
(* is one action, and any other task may run at each await.  A task is a   *)
(* websocket loop (named by its connection) or one REST request.  The      *)
(* Python set objects in `_connections` matter, since a broadcast keeps    *)
(* iterating over the object it was given: a set is named by the first     *)
(* connection ever put into it.                                            *)
(***************************************************************************)
EXTENDS Integers, Sequences, FiniteSets

CONSTANTS
  Spouses,      \* the rows of `spouses`: two, once both roles are claimed
  Conns,        \* websocket connections, each accepted at most once
  Requests,     \* REST requests, each handled once
  Msgs,         \* chat messages that may be sent
  SpouseOf,     \* whose access token a connection or request carries
  Author,       \* who writes a message
  None          \* no value

Tasks == Conns \cup Requests

ASSUME ChatAssumption ==
  /\ IsFiniteSet(Conns)
  /\ Conns \cap Requests = {}
  /\ SpouseOf \in [Tasks -> Spouses]
  /\ Author \in [Msgs -> Spouses]
  /\ \A s \in Spouses : \E o \in Spouses : o # s
  /\ None \notin Conns \cup Msgs

VARIABLES
  joined,       \* the spouses that have claimed their role
  registry,     \* _connections: the set object of a spouse, or None (no key)
  members,      \* the content of each set object
  sock,         \* state of each websocket
  wire,         \* the frames each websocket has taken, oldest first
  stored,       \* committed rows of chat_messages
  delivered,    \* ... with delivered_at set
  read,         \* ... with read_at set
  logged,       \* messages that have a NotificationLog row
  alone,        \* history: messages stored when the other role was unclaimed
  pc,           \* where each task stands
  cur,          \* the message a task is about
  fan           \* a task's iteration inside send_to_spouse

serverVars == <<joined, registry, members, sock, wire, stored, delivered,
                read, logged, alone, pc, cur, fan>>
dbVars == <<stored, delivered, read, logged, alone>>
connVars == <<registry, members, sock>>

-----------------------------------------------------------------------------
\* Frames are <<type, message>>; the bare ping of notify_spouse and the
\* typing and error frames carry no message.
Frames ==
  ({"chat_message", "chat_read", "chat_ack"} \X Msgs)
    \cup ({"chat", "typing", "error"} \X {None})

\* "fresh": not accepted yet; "lost": the peer is gone but the server has not
\* noticed; "broken": a send has raised and every later one will.
SockStates == {"fresh", "open", "lost", "broken"}

\* "new": not started; "recv": in receive_text; "done": returned;
\* "crashed": ended by an exception nothing handled.
PCs == {"new", "recv", "typing", "push", "fan", "mark", "log", "ping", "reply",
        "tell", "write", "done", "crashed"}

NoFan == [set |-> None, all |-> {}, visited |-> {}, dead |-> {},
          sent |-> FALSE, frame |-> <<"typing", None>>]

FanStates == [set : Conns \cup {None}, all : SUBSET Conns,
              visited : SUBSET Conns, dead : SUBSET Conns,
              sent : BOOLEAN, frame : Frames]

Other(s) == CHOOSE o \in Spouses : o # s

Target(t) ==
  IF pc[t] = "tell" THEN Author[cur[t]] ELSE Other(SpouseOf[t])

\* The set object `_connections.get(spouse_id)` holds, empty if there is none.
Online(s) == IF registry[s] = None THEN {} ELSE members[registry[s]]

\* The socket takes the frame.  Typing frames, an indicator that clears itself
\* after four seconds, are not kept in the record of what was sent.
Accepts(c, frame) ==
  wire' = IF frame[1] = "typing" THEN wire ELSE [wire EXCEPT ![c] = Append(@, frame)]

Goto(t, label) == pc' = [pc EXCEPT ![t] = label]

TypeOK ==
  /\ joined \subseteq Spouses
  /\ registry \in [Spouses -> Conns \cup {None}]
  /\ members \in [Conns -> SUBSET Conns]
  /\ sock \in [Conns -> SockStates]
  /\ wire \in [Conns -> Seq(Frames)]
  /\ stored \subseteq Msgs
  /\ delivered \subseteq Msgs
  /\ read \subseteq Msgs
  /\ logged \subseteq Msgs
  /\ alone \subseteq Msgs
  /\ pc \in [Tasks -> PCs]
  /\ cur \in [Tasks -> Msgs \cup {None}]
  /\ fan \in [Tasks -> FanStates]

Init ==
  /\ joined \in SUBSET Spouses
  /\ registry = [s \in Spouses |-> None]
  /\ members = [c \in Conns |-> {}]
  /\ sock = [c \in Conns |-> "fresh"]
  /\ wire = [c \in Conns |-> << >>]
  /\ stored = {} /\ delivered = {} /\ read = {} /\ logged = {} /\ alone = {}
  /\ pc = [t \in Tasks |-> "new"]
  /\ cur = [t \in Tasks |-> None]
  /\ fan = [t \in Tasks |-> NoFan]

-----------------------------------------------------------------------------
\* A role is claimed (auth.py, KeyCustody): a row of `spouses` more.
Join(s) ==
  /\ s \in Spouses \ joined
  /\ joined' = joined \cup {s}
  /\ UNCHANGED <<connVars, wire, pc, cur, fan, dbVars>>

-----------------------------------------------------------------------------
(* The registry: connect, disconnect, and sockets dying. *)

\* Mutant: all connections share one set object.
ConnectShared(c) ==
  LET used == {registry[s] : s \in Spouses} \ {None}
      set == IF used = {} THEN c ELSE CHOOSE o \in used : TRUE
  IN /\ pc[c] = "new"
     /\ SpouseOf[c] \in joined
     /\ sock' = [sock EXCEPT ![c] = "open"]
     /\ registry' = [registry EXCEPT ![SpouseOf[c]] = set]
     /\ members' = [members EXCEPT ![set] = @ \cup {c}]
     /\ Goto(c, "recv")
     /\ UNCHANGED <<joined, wire, cur, fan, dbVars>>

\* accept(), then `_connections.setdefault(spouse_id, set()).add(websocket)`
\* with no await in between.
Connect(c) ==
  LET s == SpouseOf[c]
      set == IF registry[s] = None THEN c ELSE registry[s]
  IN /\ pc[c] = "new"
     /\ s \in joined
     /\ sock' = [sock EXCEPT ![c] = "open"]
     /\ registry' = [registry EXCEPT ![s] = set]
     /\ members' = [members EXCEPT ![set] = @ \cup {c}]
     /\ Goto(c, "recv")
     /\ UNCHANGED <<joined, wire, cur, fan, dbVars>>

\* The peer disappears: app closed, phone asleep, network gone.
Lose(c) ==
  /\ sock[c] = "open"
  /\ sock' = [sock EXCEPT ![c] = "lost"]
  /\ UNCHANGED <<joined, registry, members, wire, pc, cur, fan, dbVars>>

\* Mutant: the key is dropped although other connections are left in the set.
DisconnectAll(c) ==
  /\ pc[c] = "recv"
  /\ sock[c] \in {"lost", "broken"}
  /\ registry' = [registry EXCEPT ![SpouseOf[c]] = None]
  /\ Goto(c, "done")
  /\ UNCHANGED <<joined, members, sock, wire, cur, fan, dbVars>>

\* receive_text raises WebSocketDisconnect; ws_manager.disconnect drops the
\* connection, and the key once its set is empty.
Disconnect(c) ==
  LET s == SpouseOf[c]
      rest == members[registry[s]] \ {c}
  IN /\ pc[c] = "recv"
     /\ sock[c] \in {"lost", "broken"}
     /\ IF c \in Online(s)
          THEN /\ members' = [members EXCEPT ![registry[s]] = rest]
               /\ registry' = [registry EXCEPT ![s] = IF rest = {} THEN None ELSE @]
          ELSE UNCHANGED <<registry, members>>
     /\ Goto(c, "done")
     /\ UNCHANGED <<joined, sock, wire, cur, fan, dbVars>>

-----------------------------------------------------------------------------
(* send_to_spouse: the iteration.  Looking the set up, starting the        *)
(* iterator and handing the frame to the first socket happen without an    *)
(* await; after each `await ws.send_text(message)` other tasks may have    *)
(* run before the iterator is asked for the next one.                      *)

\* Mutants: a message counts as delivered once it has been broadcast, and a
\* typing frame is relayed until somebody takes it.
AfterFanDelivered(t, frame, sent) ==
  CASE frame[1] = "chat_message" -> "mark"
    [] frame[1] = "chat"         -> "reply"
    [] frame[1] = "chat_read"    -> "done"
    [] OTHER                     -> "recv"
AfterFanRetrying(t, frame, sent) ==
  CASE frame[1] = "chat_message" -> IF sent THEN "mark" ELSE "log"
    [] frame[1] = "chat"         -> "reply"
    [] frame[1] = "chat_read"    -> "done"
    [] OTHER                     -> IF sent THEN "recv" ELSE "typing"

\* What the caller does with the returned boolean.
AfterFan(t, frame, sent) ==
  CASE frame[1] = "chat_message" -> IF sent THEN "mark" ELSE "log"
    [] frame[1] = "chat"         -> "reply"
    [] frame[1] = "chat_read"    -> "done"
    [] OTHER                     -> "recv"

\* One `await ws.send_text(message)` in iteration f: an open socket takes the
\* frame, a lost one takes it (it is only buffered) or raises, a broken one
\* raises.
SendOne(t, c, f) ==
  \/ /\ sock[c] \in {"open", "lost"}
     /\ Accepts(c, f.frame)
     /\ fan' = [fan EXCEPT ![t] = [f EXCEPT !.visited = @ \cup {c}, !.sent = TRUE]]
     /\ UNCHANGED sock
  \/ /\ sock[c] \in {"lost", "broken"}
     /\ sock' = [sock EXCEPT ![c] = "broken"]
     /\ fan' = [fan EXCEPT ![t] = [f EXCEPT !.visited = @ \cup {c}, !.dead = @ \cup {c}]]
     /\ UNCHANGED wire

StartFan(t, frame) ==
  LET f == [NoFan EXCEPT !.set = registry[Target(t)],
                         !.all = Online(Target(t)), !.frame = frame]
  IN /\ \E c \in f.all : SendOne(t, c, f)
     /\ Goto(t, "fan")

\* `if not conns: return False`
SkipFan(t, frame) ==
  /\ Online(Target(t)) = {}
  /\ Goto(t, AfterFan(t, frame, FALSE))
  /\ UNCHANGED <<fan, sock, wire>>

SendToSpouse(t, frame) ==
  /\ StartFan(t, frame) \/ SkipFan(t, frame)
  /\ UNCHANGED <<joined, registry, members, cur, dbVars>>

\* A set that changed size under its iterator makes next() raise.
SizeChanged(t) == Cardinality(members[fan[t].set]) # Cardinality(fan[t].all)

FanNext(t, c) ==
  /\ pc[t] = "fan"
  /\ ~SizeChanged(t)
  /\ c \in members[fan[t].set] \ fan[t].visited
  /\ SendOne(t, c, fan[t])
  /\ UNCHANGED <<joined, registry, members, pc, cur, dbVars>>

\* The loop is exhausted: the dead are discarded from the iterated set (the
\* key stays, even if the set is now empty) and `sent` is returned.
FanReturn(t) ==
  LET f == fan[t] IN
  /\ pc[t] = "fan"
  /\ ~SizeChanged(t)
  /\ members[f.set] \cap f.all \subseteq f.visited
  /\ members' = [members EXCEPT ![f.set] = @ \ f.dead]
  /\ fan' = [fan EXCEPT ![t] = NoFan]
  /\ Goto(t, AfterFan(t, f.frame, f.sent))
  /\ UNCHANGED <<joined, registry, sock, wire, cur, dbVars>>

\* RuntimeError out of the for loop: the dead are not discarded.  A REST
\* request answers 500; the websocket loop sends an error frame to its own
\* client and goes on receiving, or ends if that send raises too.
FanRaise(t) ==
  /\ pc[t] = "fan"
  /\ SizeChanged(t)
  /\ fan' = [fan EXCEPT ![t] = NoFan]
  /\ \/ /\ t \in Requests
        /\ Goto(t, "crashed")
        /\ UNCHANGED <<sock, wire>>
     \/ /\ t \in Conns /\ sock[t] \in {"open", "lost"}
        /\ Accepts(t, <<"error", None>>)
        /\ Goto(t, "recv")
        /\ UNCHANGED sock
     \/ /\ t \in Conns /\ sock[t] \in {"lost", "broken"}
        /\ sock' = [sock EXCEPT ![t] = "broken"]
        /\ Goto(t, "crashed")
        /\ UNCHANGED wire
  /\ UNCHANGED <<joined, registry, members, cur, dbVars>>

-----------------------------------------------------------------------------
(* Sending a message, over the websocket or over REST. *)

\* Mutant: the message is broadcast without having been committed.
PersistNothing(t, m) ==
  /\ pc[t] = IF t \in Conns THEN "recv" ELSE "new"
  /\ t \in Conns => sock[t] # "broken"
  /\ SpouseOf[t] \in joined
  /\ m \notin stored
  /\ Author[m] = SpouseOf[t]
  /\ cur' = [cur EXCEPT ![t] = m]
  /\ Goto(t, IF Other(SpouseOf[t]) \in joined THEN "push" ELSE "reply")
  /\ UNCHANGED <<joined, connVars, wire, dbVars, fan>>

\* _persist_message: insert and commit; only then does anybody hear of it.
\* The other spouse may not have claimed the second role yet: then nobody is told.
Persist(t, m) ==
  /\ pc[t] = IF t \in Conns THEN "recv" ELSE "new"
  /\ t \in Conns => sock[t] # "broken"
  /\ SpouseOf[t] \in joined
  /\ m \notin stored
  /\ Author[m] = SpouseOf[t]
  /\ stored' = stored \cup {m}
  /\ alone' = IF Other(SpouseOf[t]) \in joined THEN alone ELSE alone \cup {m}
  /\ cur' = [cur EXCEPT ![t] = m]
  /\ Goto(t, IF Other(SpouseOf[t]) \in joined THEN "push" ELSE "reply")
  /\ UNCHANGED <<joined, connVars, wire, delivered, read, logged, fan>>

Push(t) ==
  /\ pc[t] = "push"
  /\ SendToSpouse(t, <<"chat_message", cur[t]>>)

\* Mutant: whoever got the message live needs no notification.
MarkDeliveredOnly(t) ==
  /\ pc[t] = "mark"
  /\ delivered' = delivered \cup {cur[t]}
  /\ Goto(t, "reply")
  /\ UNCHANGED <<joined, connVars, wire, stored, read, logged, alone, cur, fan>>

\* `if delivered: msg.delivered_at = utcnow(); commit`
MarkDelivered(t) ==
  /\ pc[t] = "mark"
  /\ delivered' = delivered \cup {cur[t]}
  /\ Goto(t, "log")
  /\ UNCHANGED <<joined, connVars, wire, stored, read, logged, alone, cur, fan>>

\* notify_spouse: the inbox row is committed, then the ping is broadcast.
\* The pushes that follow leave the system and change nothing here.
LogNotification(t) ==
  /\ pc[t] = "log"
  /\ logged' = logged \cup {cur[t]}
  /\ Goto(t, "ping")
  /\ UNCHANGED <<joined, connVars, wire, stored, delivered, read, alone, cur, fan>>

Ping(t) ==
  /\ pc[t] = "ping"
  /\ SendToSpouse(t, <<"chat", None>>)

\* The REST response: the message is returned.
Respond(r) ==
  /\ r \in Requests
  /\ pc[r] = "reply"
  /\ Goto(r, "done")
  /\ UNCHANGED <<joined, connVars, wire, cur, fan, dbVars>>

\* chat_ack on the sender's own socket.  If it raises, so does the error
\* frame sent from the except clause, and the loop ends without disconnect().
Ack(c) ==
  /\ c \in Conns
  /\ pc[c] = "reply"
  /\ \/ /\ sock[c] \in {"open", "lost"}
        /\ Accepts(c, <<"chat_ack", cur[c]>>)
        /\ Goto(c, "recv")
        /\ UNCHANGED sock
     \/ /\ sock[c] \in {"lost", "broken"}
        /\ sock' = [sock EXCEPT ![c] = "broken"]
        /\ Goto(c, "crashed")
        /\ UNCHANGED wire
  /\ UNCHANGED <<joined, registry, members, cur, fan, dbVars>>

\* A typing frame is relayed and leaves no trace.
StartTyping(c) ==
  /\ pc[c] = "recv"
  /\ sock[c] # "broken"
  /\ Goto(c, IF Other(SpouseOf[c]) \in joined THEN "typing" ELSE "recv")
  /\ UNCHANGED <<joined, connVars, wire, cur, fan, dbVars>>

RelayTyping(c) ==
  /\ c \in Conns
  /\ pc[c] = "typing"
  /\ SendToSpouse(c, <<"typing", None>>)

\* A frame read before the peer went is a ping, or makes no sense: the pong or
\* the error frame raises, and the loop ends without disconnect().  (While the
\* socket takes these answers they leave no trace.)
AnswerRaises(c) ==
  /\ pc[c] = "recv"
  /\ sock[c] = "lost"
  /\ sock' = [sock EXCEPT ![c] = "broken"]
  /\ Goto(c, "crashed")
  /\ UNCHANGED <<joined, registry, members, wire, cur, fan, dbVars>>

\* Back in receive_text on a socket some send has broken meanwhile: the state
\* check at its top raises RuntimeError, not WebSocketDisconnect.
ReceiveRaises(c) ==
  /\ pc[c] = "recv"
  /\ sock[c] = "broken"
  /\ Goto(c, "crashed")
  /\ UNCHANGED <<joined, connVars, wire, cur, fan, dbVars>>

-----------------------------------------------------------------------------
(* POST /chat/messages/{id}/read *)

\* The row is loaded; only the other spouse's unread messages are written.
MarkRead(r, m) ==
  /\ r \in Requests
  /\ pc[r] = "new"
  /\ SpouseOf[r] \in joined
  /\ m \in stored
  /\ cur' = [cur EXCEPT ![r] = m]
  /\ Goto(r, IF Author[m] # SpouseOf[r] /\ m \notin read THEN "write" ELSE "done")
  /\ UNCHANGED <<joined, connVars, wire, fan, dbVars>>

WriteRead(r) ==
  /\ pc[r] = "write"
  /\ read' = read \cup {cur[r]}
  /\ Goto(r, "tell")
  /\ UNCHANGED <<joined, connVars, wire, stored, delivered, logged, alone, cur, fan>>

TellAuthor(r) ==
  /\ pc[r] = "tell"
  /\ SendToSpouse(r, <<"chat_read", cur[r]>>)

-----------------------------------------------------------------------------
TaskStep(t) ==
  \/ Push(t) \/ MarkDelivered(t) \/ LogNotification(t) \/ Ping(t)
  \/ Respond(t) \/ Ack(t) \/ RelayTyping(t) \/ WriteRead(t) \/ TellAuthor(t)
  \/ FanReturn(t) \/ FanRaise(t)
  \/ \E c \in Conns : FanNext(t, c)

ConnStep(c) ==
  \/ Connect(c) \/ Lose(c) \/ Disconnect(c) \/ ReceiveRaises(c)
  \/ AnswerRaises(c) \/ StartTyping(c)

Next ==
  \/ \E s \in Spouses : Join(s)
  \/ \E t \in Tasks : TaskStep(t)
  \/ \E t \in Tasks, m \in Msgs : Persist(t, m)
  \/ \E r \in Requests, m \in Msgs : MarkRead(r, m)
  \/ \E c \in Conns : ConnStep(c)

\* The event loop resumes every ready task; a lost socket is noticed (uvicorn
\* closes it when its own keep-alive pings go unanswered).
Fairness ==
  /\ \A t \in Tasks : WF_serverVars(TaskStep(t))
  /\ \A c \in Conns : WF_serverVars(Disconnect(c) \/ ReceiveRaises(c))

Spec == Init /\ [][Next]_serverVars
FairSpec == Spec /\ Fairness

-----------------------------------------------------------------------------
Sent(c, frame) == \E i \in 1 .. Len(wire[c]) : wire[c][i] = frame

\* chat.py, notifications.py: a client is told only what is committed, and
\* only the right spouse is told: a message goes to the other spouse, its
\* acknowledgement and its "seen" to its author, after the rows are written;
\* the bare ping follows an inbox row.
FramesBacked ==
  \A c \in Conns, m \in Msgs :
    /\ Sent(c, <<"chat_message", m>>) => m \in stored /\ SpouseOf[c] # Author[m]
    /\ Sent(c, <<"chat_ack", m>>) => m \in stored /\ SpouseOf[c] = Author[m]
    /\ Sent(c, <<"chat_read", m>>) => m \in read /\ SpouseOf[c] = Author[m]
    /\ Sent(c, <<"chat", None>>) => \E n \in logged : SpouseOf[c] # Author[n]

\* manager.py:22-25: `delivered_at` is set only for a message some connection
\* of the recipient has taken, not because the set was merely non-empty.
DeliveredReached ==
  \A m \in delivered :
    \E c \in Conns : SpouseOf[c] # Author[m] /\ Sent(c, <<"chat_message", m>>)

\* chat.py:193-202: once the author is told the message went through, the
\* recipient's inbox has a row for it, and if it was taken by one of the
\* recipient's connections while no broadcast of it is left, it is marked so --
\* unless it was written before there was a recipient.
AckedIsNotified ==
  \A c \in Conns, m \in Msgs :
    Sent(c, <<"chat_ack", m>>) /\ m \notin alone =>
      /\ m \in logged
      /\ m \in delivered <=> \E o \in Conns : Sent(o, <<"chat_message", m>>)

\* manager.py: a live connection can always be reached: while its loop runs
\* and no send on it has failed, it is in the set the registry holds for its
\* spouse -- whatever other connections of that spouse came and went, and
\* although disconnect() drops keys and dead sockets are discarded.
LiveRegistered ==
  \A c \in Conns :
    sock[c] \in {"open", "lost"} /\ pc[c] \notin {"new", "done", "crashed"} =>
      c \in Online(SpouseOf[c])

\* A set object only ever serves the spouse whose connection it is named
\* after; a task about to send or to write has its message; and
\* whoever a broadcast takes for dead cannot be reached any more; a connection
\* that has not started has not been accepted.
RegistryOwned == \A s \in Spouses : registry[s] # None => SpouseOf[registry[s]] = s
CurKnown ==
  \A t \in Tasks :
    \/ pc[t] \in {"push", "mark", "log", "ping", "reply", "write", "tell"}
    \/ pc[t] = "fan" /\ fan[t].frame[1] \in {"chat_message", "chat"}
    => cur[t] \in Msgs
DeadAreBroken == \A t \in Tasks : \A c \in fan[t].dead : sock[c] = "broken"
NewIsFresh == \A c \in Conns : pc[c] = "new" => sock[c] = "fresh"

\* The inductive invariant behind LiveRegistered.
IInv ==
  /\ TypeOK
  /\ RegistryOwned
  /\ CurKnown
  /\ DeadAreBroken
  /\ NewIsFresh
  /\ LiveRegistered

-----------------------------------------------------------------------------
(* Why the frames are backed by rows: what is known of a task at each of   *)
(* its labels.                                                             *)

Taken(m) == \E o \in Conns : Sent(o, <<"chat_message", m>>)
Acked(m) == \E c \in Conns : Sent(c, <<"chat_ack", m>>)

InFan(t, kinds) == pc[t] = "fan" /\ fan[t].frame[1] \in kinds

\* The task has stored its message and has not acknowledged it yet.
Handles(t) ==
  pc[t] \in {"push", "mark", "log", "ping", "reply"} \/ InFan(t, {"chat_message", "chat"})

MembersOwned == \A o \in Conns : \A c \in members[o] : SpouseOf[c] = SpouseOf[o]

\* A broadcast carries its task's message to the spouse it is meant for.
FanAddressed(t) ==
  pc[t] = "fan" =>
    /\ fan[t].set \in Conns
    /\ fan[t].frame[1] \in {"chat_message", "chat", "chat_read", "typing"}
    /\ InFan(t, {"chat_message", "chat"}) => SpouseOf[fan[t].set] # SpouseOf[t]
    /\ InFan(t, {"chat_read"}) => SpouseOf[fan[t].set] = Author[cur[t]]
    /\ InFan(t, {"chat_message", "chat_read"}) => fan[t].frame[2] = cur[t]

HandledIsStored(t) ==
  Handles(t) => cur[t] \in stored /\ Author[cur[t]] = SpouseOf[t] /\ ~Acked(cur[t])

\* What the task knows of who has taken its message is true.
TakenIsKnown(t) ==
  /\ pc[t] = "push" => ~Taken(cur[t])
  /\ InFan(t, {"chat_message"}) => (fan[t].sent <=> Taken(cur[t]))
  /\ pc[t] = "mark" => Taken(cur[t])
  /\ pc[t] \in {"log", "ping", "reply"} \/ InFan(t, {"chat"}) =>
       (cur[t] \in delivered <=> Taken(cur[t]))

RowsFirst(t) ==
  /\ pc[t] = "ping" \/ InFan(t, {"chat"}) => cur[t] \in logged
  /\ pc[t] = "reply" /\ cur[t] \notin alone => cur[t] \in logged
  /\ pc[t] = "tell" \/ InFan(t, {"chat_read"}) => cur[t] \in read

OneHandler ==
  \A t, u \in Tasks : Handles(t) /\ Handles(u) /\ cur[t] = cur[u] => t = u

TaskInv(t) == FanAddressed(t) /\ HandledIsStored(t) /\ TakenIsKnown(t) /\ RowsFirst(t)

FramesInv ==
  /\ MembersOwned
  /\ \A t \in Tasks : TaskInv(t)
  /\ OneHandler
  /\ FramesBacked /\ DeliveredReached /\ AckedIsNotified

\* The inductive invariant of the chat.
ChatInv == IInv /\ FramesInv

-----------------------------------------------------------------------------
\* Every message that is being handled comes to an end: broadcasts finish or
\* raise whatever happens to the set they iterate over.
EveryTaskSettles ==
  \A t \in Tasks :
    pc[t] \notin {"new", "recv", "done", "crashed"}
      ~> pc[t] \in {"recv", "done", "crashed"}
==============================================================================
