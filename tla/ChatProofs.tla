----------------------------- MODULE ChatProofs -----------------------------
(***************************************************************************)
(* Proofs about the chat, for any number of spouses, connections, requests *)
(* and messages.  First the server (ChatServer): who is registered stays   *)
(* reachable, nobody is told what is not committed, a delivery was one,    *)
(* and acknowledged means notified.  Then the chat as a whole              *)
(* (ChatSystem): the composition implements the server's specification,    *)
(* so that every theorem about the server holds of it; a "seen" tick never *)
(* lies; and no receipt is lost but with the request that carries it.      *)
(* Last, the list of one screen (ChatHistory): however pages, searches and *)
(* live messages interleave, it names none twice, what was paged in is a   *)
(* piece of the conversation without a hole, and it is complete when it    *)
(* says so.                                                                *)
(***************************************************************************)
EXTENDS ChatSystem, ChatHistory, WellFoundedInduction, TLAPS

Live(c) == sock[c] \in {"open", "lost"} /\ pc[c] \notin {"new", "done", "crashed"}

\* The spouse a task sends to is one of the spouses.
LEMMA TargetIsSpouse ==
  ASSUME TypeOK, CurKnown, NEW t \in Tasks
  PROVE  Target(t) \in Spouses
<1>1. \A s \in Spouses : Other(s) \in Spouses
  BY ChatAssumption DEF Other
<1>2. SpouseOf[t] \in Spouses
  BY ChatAssumption
<1>3. pc[t] = "tell" => Author[cur[t]] \in Spouses
  BY ChatAssumption DEF CurKnown
<1> QED
  BY <1>1, <1>2, <1>3 DEF Target

\* A socket that takes a frame keeps the record of frames well formed.
LEMMA AcceptsType ==
  ASSUME TypeOK, NEW c \in Conns, NEW frame \in Frames, Accepts(c, frame)
  PROVE  wire' \in [Conns -> Seq(Frames)]
<1>1. wire \in [Conns -> Seq(Frames)]
  BY DEF TypeOK
<1>2. Append(wire[c], frame) \in Seq(Frames)
  BY <1>1
<1> QED
  BY <1>1, <1>2 DEF Accepts

\* A single send of a broadcast f: types are kept, who is taken for dead is
\* broken, and no socket gets better.
LEMMA SendOneFacts ==
  ASSUME TypeOK, DeadAreBroken,
         NEW t \in Tasks, NEW c \in Conns, NEW f \in FanStates,
         \A d \in f.dead : sock[d] = "broken",
         SendOne(t, c, f)
  PROVE  /\ sock' \in [Conns -> SockStates]
         /\ wire' \in [Conns -> Seq(Frames)]
         /\ fan' \in [Tasks -> FanStates]
         /\ DeadAreBroken'
         /\ \A d \in Conns : sock'[d] \in {"open", "lost"} => sock'[d] = sock[d]
         /\ \A d \in Conns : sock[d] = "fresh" => sock'[d] = "fresh"
         /\ fan'[t].frame = f.frame
         /\ \A u \in Tasks \ {t} : fan'[u] = fan[u]
<1>1. CASE /\ Accepts(c, f.frame)
           /\ fan' = [fan EXCEPT ![t] = [f EXCEPT !.visited = @ \cup {c}, !.sent = TRUE]]
           /\ UNCHANGED sock
  <2>1. wire' \in [Conns -> Seq(Frames)]
    BY <1>1, AcceptsType DEF FanStates
  <2>2. [f EXCEPT !.visited = @ \cup {c}, !.sent = TRUE] \in FanStates
    BY DEF FanStates
  <2>3. DeadAreBroken'
    BY <1>1, <2>2 DEF DeadAreBroken, TypeOK, FanStates
  <2> QED
    BY <1>1, <2>1, <2>2, <2>3 DEF TypeOK, FanStates
<1>2. CASE /\ sock[c] \in {"lost", "broken"}
           /\ sock' = [sock EXCEPT ![c] = "broken"]
           /\ fan' = [fan EXCEPT ![t] = [f EXCEPT !.visited = @ \cup {c}, !.dead = @ \cup {c}]]
           /\ UNCHANGED wire
  <2>1. [f EXCEPT !.visited = @ \cup {c}, !.dead = @ \cup {c}] \in FanStates
    BY DEF FanStates
  <2>2. sock' \in [Conns -> SockStates]
    BY <1>2 DEF TypeOK, SockStates
  <2>3. DeadAreBroken'
    BY <1>2, <2>1 DEF DeadAreBroken, TypeOK, FanStates
  <2> QED
    BY <1>2, <2>1, <2>2, <2>3 DEF TypeOK, FanStates
<1> QED
  BY <1>1, <1>2 DEF SendOne

\* A step that leaves the registry alone, repairs no socket and wakes up no
\* connection that was not running keeps live connections registered.
LEMMA RegistryKept ==
  ASSUME RegistryOwned, LiveRegistered,
         UNCHANGED <<registry, members>>,
         \A c \in Conns : Live(c)' => Live(c)
  PROVE  RegistryOwned' /\ LiveRegistered'
BY DEF RegistryOwned, LiveRegistered, Live, Online

\* A running task moves on.
LEMMA GotoFacts ==
  ASSUME TypeOK, NEW t \in Tasks, NEW label \in PCs \ {"new"}, Goto(t, label),
         NewIsFresh,
         pc[t] \notin {"new", "done", "crashed"} \/ t \notin Conns,
         \A c \in Conns : sock'[c] \in {"open", "lost"} => sock[c] \in {"open", "lost"},
         \A c \in Conns : sock[c] = "fresh" => sock'[c] = "fresh"
  PROVE  /\ pc' \in [Tasks -> PCs]
         /\ pc'[t] = label
         /\ \A u \in Tasks \ {t} : pc'[u] = pc[u]
         /\ \A c \in Conns : Live(c)' => Live(c)
         /\ NewIsFresh'
<1>1. /\ pc' \in [Tasks -> PCs]
      /\ pc'[t] = label
      /\ \A u \in Tasks \ {t} : pc'[u] = pc[u]
  BY DEF Goto, TypeOK
<1>2. \A c \in Conns : Live(c)' => Live(c)
  BY <1>1 DEF Live, Tasks
<1>3. NewIsFresh'
  BY <1>1 DEF NewIsFresh, Tasks
<1> QED
  BY <1>1, <1>2, <1>3

-----------------------------------------------------------------------------
LEMMA InitIInv == Init => IInv
<1> SUFFICES ASSUME Init PROVE IInv
  OBVIOUS
<1>1. NoFan \in FanStates
  BY DEF NoFan, FanStates, Frames
<1>2. TypeOK
  BY <1>1 DEF Init, TypeOK, SockStates, PCs
<1>3. RegistryOwned /\ CurKnown /\ NewIsFresh /\ LiveRegistered
  BY DEF Init, RegistryOwned, CurKnown, NewIsFresh, LiveRegistered, Tasks
<1>4. DeadAreBroken
  BY DEF Init, DeadAreBroken, NoFan
<1> QED
  BY <1>2, <1>3, <1>4 DEF IInv

\* SendToSpouse, by whoever it is called.
LEMMA SendStep ==
  ASSUME IInv, NEW t \in Tasks, pc[t] \in {"push", "ping", "typing", "tell"},
         NEW frame \in Frames, SendToSpouse(t, frame),
         frame[1] \in {"chat_message", "chat"} => cur[t] \in Msgs
  PROVE  IInv'
<1> USE DEF IInv
<1>1. Target(t) \in Spouses
  BY TargetIsSpouse
<1>2. CASE StartFan(t, frame)
  <2> DEFINE f == [NoFan EXCEPT !.set = registry[Target(t)],
                                !.all = Online(Target(t)), !.frame = frame]
  <2>1. /\ f \in FanStates
        /\ f.dead = {} /\ f.frame = frame /\ f.all = Online(Target(t))
    BY <1>1 DEF TypeOK, FanStates, NoFan, Online
  <2>2. PICK c \in f.all : SendOne(t, c, f)
    BY <1>2 DEF StartFan
  <2>3. c \in Conns
    BY <2>1 DEF FanStates
  <2>4. /\ sock' \in [Conns -> SockStates]
        /\ wire' \in [Conns -> Seq(Frames)]
        /\ fan' \in [Tasks -> FanStates]
        /\ DeadAreBroken'
        /\ \A d \in Conns : sock'[d] \in {"open", "lost"} => sock'[d] = sock[d]
        /\ \A d \in Conns : sock[d] = "fresh" => sock'[d] = "fresh"
        /\ fan'[t].frame = frame
        /\ \A u \in Tasks \ {t} : fan'[u] = fan[u]
    BY <2>1, <2>2, <2>3, SendOneFacts
  <2>5. Goto(t, "fan") /\ "fan" \in PCs \ {"new"}
    BY <1>2 DEF StartFan, PCs
  <2>6. /\ pc' \in [Tasks -> PCs]
        /\ pc'[t] = "fan"
        /\ \A u \in Tasks \ {t} : pc'[u] = pc[u]
        /\ \A d \in Conns : Live(d)' => Live(d)
        /\ NewIsFresh'
    BY <2>4, <2>5, GotoFacts
  <2>7. UNCHANGED <<joined, registry, members, cur, dbVars>>
    BY DEF SendToSpouse
  <2>8. TypeOK'
    BY <2>4, <2>6, <2>7 DEF TypeOK, dbVars
  <2>9. CurKnown'
    BY <2>4, <2>6, <2>7 DEF CurKnown
  <2>10. RegistryOwned' /\ LiveRegistered'
    BY <2>6, <2>7, RegistryKept
  <2> QED
    BY <2>4, <2>6, <2>8, <2>9, <2>10
<1>3. CASE SkipFan(t, frame)
  <2>1. AfterFan(t, frame, FALSE) \in {"log", "reply", "done", "recv"}
    BY DEF AfterFan
  <2>2. PICK label \in {"log", "reply", "done", "recv"} :
          /\ Goto(t, label)
          /\ label \in {"log", "reply"} => frame[1] \in {"chat_message", "chat"}
    BY <1>3, <2>1 DEF SkipFan, AfterFan
  <2>3. UNCHANGED <<joined, registry, members, cur, dbVars, fan, sock, wire>>
    BY <1>3 DEF SendToSpouse, SkipFan
  <2>4. /\ pc' \in [Tasks -> PCs]
        /\ pc'[t] = label
        /\ \A u \in Tasks \ {t} : pc'[u] = pc[u]
        /\ \A d \in Conns : Live(d)' => Live(d)
        /\ NewIsFresh'
    <3>1. label \in PCs \ {"new"}
      BY DEF PCs
    <3> QED
      BY <2>2, <2>3, <3>1, GotoFacts
  <2>5. TypeOK'
    BY <2>3, <2>4 DEF TypeOK, dbVars
  <2>6. CurKnown' /\ DeadAreBroken'
    BY <2>2, <2>3, <2>4 DEF CurKnown, DeadAreBroken
  <2>7. RegistryOwned' /\ LiveRegistered'
    BY <2>3, <2>4, RegistryKept
  <2> QED
    BY <2>4, <2>5, <2>6, <2>7
<1> QED
  BY <1>2, <1>3 DEF SendToSpouse

\* What every step of a running task that leaves registry, sockets and frames
\* alone has in common: only the new label of the task is left to check.
LEMMA QuietStep ==
  ASSUME IInv, NEW t \in Tasks, NEW label \in PCs \ {"new", "fan"}, Goto(t, label),
         pc[t] \notin {"new", "done", "crashed"} \/ t \notin Conns,
         UNCHANGED <<joined, connVars, wire, fan>>,
         cur' \in [Tasks -> Msgs \cup {None}],
         \A u \in Tasks \ {t} : cur'[u] = cur[u],
         label \in {"push", "mark", "log", "ping", "reply", "write", "tell"} => cur'[t] \in Msgs,
         stored' \subseteq Msgs, delivered' \subseteq Msgs,
         read' \subseteq Msgs, logged' \subseteq Msgs, alone' \subseteq Msgs
  PROVE  IInv'
<1> USE DEF IInv
<1>1. /\ pc' \in [Tasks -> PCs]
      /\ pc'[t] = label
      /\ \A u \in Tasks \ {t} : pc'[u] = pc[u]
      /\ \A d \in Conns : Live(d)' => Live(d)
      /\ NewIsFresh'
  BY GotoFacts DEF connVars
<1>2. TypeOK'
  BY <1>1 DEF TypeOK, connVars
<1>3. CurKnown'
  BY <1>1 DEF CurKnown
<1>4. DeadAreBroken'
  BY DEF DeadAreBroken, connVars
<1>5. RegistryOwned' /\ LiveRegistered'
  BY <1>1, RegistryKept DEF connVars
<1> QED
  BY <1>1, <1>2, <1>3, <1>4, <1>5

-----------------------------------------------------------------------------
(* The registry. *)

LEMMA ConnectStep ==
  ASSUME IInv, NEW c \in Conns, Connect(c)
  PROVE  IInv'
<1> USE DEF IInv
<1> DEFINE s == SpouseOf[c]
           set == IF registry[s] = None THEN c ELSE registry[s]
<1>1. /\ s \in Spouses
      /\ set \in Conns
      /\ c \in Tasks
      /\ c # None
  BY ChatAssumption DEF TypeOK, Tasks
<1>2. /\ sock' = [sock EXCEPT ![c] = "open"]
      /\ registry' = [registry EXCEPT ![s] = set]
      /\ members' = [members EXCEPT ![set] = @ \cup {c}]
      /\ pc' = [pc EXCEPT ![c] = "recv"]
      /\ pc[c] = "new"
      /\ UNCHANGED <<joined, wire, cur, fan, stored, delivered, read, logged, alone>>
  BY DEF Connect, Goto, dbVars
<1>3. TypeOK'
  <2>1. sock' \in [Conns -> SockStates] /\ pc' \in [Tasks -> PCs]
    BY <1>1, <1>2 DEF TypeOK, SockStates, PCs
  <2>2. registry' \in [Spouses -> Conns \cup {None}]
    BY <1>1, <1>2 DEF TypeOK
  <2>3. members' \in [Conns -> SUBSET Conns]
    BY <1>1, <1>2 DEF TypeOK
  <2> QED
    BY <1>2, <2>1, <2>2, <2>3 DEF TypeOK
<1>4. RegistryOwned'
  BY <1>1, <1>2 DEF RegistryOwned, TypeOK
<1>5. CurKnown'
  BY <1>1, <1>2 DEF CurKnown, TypeOK
<1>6. DeadAreBroken'
  \* A socket just accepted was never sent to.
  <2>1. sock[c] # "broken"
    BY <1>2 DEF NewIsFresh
  <2> QED
    BY <1>1, <1>2, <2>1 DEF DeadAreBroken, TypeOK
<1>7. NewIsFresh'
  BY <1>1, <1>2 DEF NewIsFresh, TypeOK, Tasks
<1>8. LiveRegistered'
  <2> SUFFICES ASSUME NEW d \in Conns, Live(d)'
               PROVE  d \in Online(SpouseOf[d])'
    BY DEF LiveRegistered, Live
  <2>1. SpouseOf[d] \in Spouses
    BY ChatAssumption DEF Tasks
  <2>2. CASE d = c
    BY <1>1, <1>2, <2>2 DEF Online, TypeOK
  <2>3. CASE d # c
    <3>1. Live(d)
      BY <1>2, <2>3 DEF Live, TypeOK, Tasks
    <3>2. d \in Online(SpouseOf[d])
      BY <3>1 DEF LiveRegistered, Live
    <3>3. registry[SpouseOf[d]] # None /\ d \in members[registry[SpouseOf[d]]]
      BY <3>2 DEF Online
    <3>4. registry'[SpouseOf[d]] = registry[SpouseOf[d]]
      BY <1>1, <1>2, <2>1, <3>3 DEF TypeOK
    <3>5. d \in members'[registry[SpouseOf[d]]]
      BY <1>1, <1>2, <2>1, <3>3 DEF TypeOK
    <3> QED
      BY <3>3, <3>4, <3>5 DEF Online
  <2> QED
    BY <2>2, <2>3
<1> QED
  BY <1>3, <1>4, <1>5, <1>6, <1>7, <1>8

LEMMA LoseStep ==
  ASSUME IInv, NEW c \in Conns, Lose(c)
  PROVE  IInv'
<1> USE DEF IInv
<1>1. /\ sock[c] = "open"
      /\ sock' = [sock EXCEPT ![c] = "lost"]
      /\ UNCHANGED <<joined, registry, members, wire, pc, cur, fan,
                     stored, delivered, read, logged, alone>>
  BY DEF Lose, dbVars
<1>2. TypeOK'
  BY <1>1 DEF TypeOK, SockStates
<1>3. RegistryOwned' /\ LiveRegistered'
  <2>1. \A d \in Conns : Live(d)' => Live(d)
    BY <1>1 DEF Live, TypeOK
  <2> QED
    BY <1>1, <2>1, RegistryKept
<1>4. CurKnown' /\ DeadAreBroken' /\ NewIsFresh'
  BY <1>1 DEF CurKnown, DeadAreBroken, NewIsFresh, TypeOK, FanStates
<1> QED
  BY <1>2, <1>3, <1>4

LEMMA DisconnectStep ==
  ASSUME IInv, NEW c \in Conns, Disconnect(c)
  PROVE  IInv'
<1> USE DEF IInv
<1> DEFINE s == SpouseOf[c]
           rest == members[registry[s]] \ {c}
<1>1. s \in Spouses /\ c \in Tasks
  BY ChatAssumption DEF Tasks
<1>2. /\ Goto(c, "done")
      /\ pc[c] = "recv"
      /\ UNCHANGED <<joined, sock, wire, cur, fan, stored, delivered, read, logged, alone>>
  BY DEF Disconnect, dbVars
<1>3. /\ pc' \in [Tasks -> PCs]
      /\ pc'[c] = "done"
      /\ \A u \in Tasks \ {c} : pc'[u] = pc[u]
      /\ \A d \in Conns : Live(d)' => Live(d)
      /\ NewIsFresh'
  <2>1. "done" \in PCs \ {"new"}
    BY DEF PCs
  <2> QED
    BY <1>1, <1>2, <2>1, GotoFacts
<1>4. CurKnown' /\ DeadAreBroken'
  BY <1>2, <1>3 DEF CurKnown, DeadAreBroken
<1>5. CASE UNCHANGED <<registry, members>>
  <2>1. RegistryOwned' /\ LiveRegistered'
    BY <1>3, <1>5, RegistryKept
  <2>2. TypeOK'
    BY <1>2, <1>3, <1>5 DEF TypeOK
  <2> QED
    BY <1>3, <1>4, <2>1, <2>2
<1>6. CASE /\ c \in Online(s)
           /\ members' = [members EXCEPT ![registry[s]] = rest]
           /\ registry' = [registry EXCEPT ![s] = IF rest = {} THEN None ELSE @]
  <2>1. registry[s] # None /\ registry[s] \in Conns
    BY <1>1, <1>6 DEF Online, TypeOK
  <2>2. registry' \in [Spouses -> Conns \cup {None}]
    BY <1>1, <1>6 DEF TypeOK
  <2>3. members' \in [Conns -> SUBSET Conns]
    BY <1>6, <2>1 DEF TypeOK
  <2>4. TypeOK'
    BY <1>2, <1>3, <2>2, <2>3 DEF TypeOK
  <2>5. RegistryOwned'
    BY <1>1, <1>6 DEF RegistryOwned, TypeOK
  <2>6. LiveRegistered'
    <3> SUFFICES ASSUME NEW d \in Conns, Live(d)'
                 PROVE  d \in Online(SpouseOf[d])'
      BY DEF LiveRegistered, Live
    <3>1. Live(d) /\ d # c
      BY <1>3 DEF Live
    <3>2. SpouseOf[d] \in Spouses
      BY ChatAssumption DEF Tasks
    <3>3. registry[SpouseOf[d]] # None /\ d \in members[registry[SpouseOf[d]]]
      BY <3>1 DEF LiveRegistered, Live, Online
    <3>4. CASE SpouseOf[d] = s
      <4>1. d \in rest
        BY <3>1, <3>3, <3>4
      <4>2. registry'[s] = registry[s]
        BY <1>1, <1>6, <4>1 DEF TypeOK
      <4>3. members'[registry[s]] = rest
        BY <1>6, <2>1 DEF TypeOK
      <4> QED
        BY <2>1, <3>4, <4>1, <4>2, <4>3 DEF Online
    <3>5. CASE SpouseOf[d] # s
      \* Another spouse's set is another object.
      <4>1. registry[SpouseOf[d]] # registry[s]
        BY <1>1, <2>1, <3>2, <3>3, <3>5 DEF RegistryOwned
      <4>2. registry'[SpouseOf[d]] = registry[SpouseOf[d]]
        BY <1>1, <1>6, <3>2, <3>5 DEF TypeOK
      <4>3. members'[registry[SpouseOf[d]]] = members[registry[SpouseOf[d]]]
        BY <1>6, <3>2, <3>3, <4>1 DEF TypeOK
      <4> QED
        BY <3>3, <4>2, <4>3 DEF Online
    <3> QED
      BY <3>4, <3>5
  <2> QED
    BY <1>3, <1>4, <2>4, <2>5, <2>6
<1> QED
  BY <1>5, <1>6 DEF Disconnect

-----------------------------------------------------------------------------
(* The iteration. *)

LEMMA FanNextStep ==
  ASSUME IInv, NEW t \in Tasks, NEW c \in Conns, FanNext(t, c)
  PROVE  IInv'
<1> USE DEF IInv
<1>1. fan[t] \in FanStates /\ \A d \in fan[t].dead : sock[d] = "broken"
  BY DEF TypeOK, DeadAreBroken
<1>2. SendOne(t, c, fan[t]) /\ UNCHANGED <<joined, registry, members, pc, cur, dbVars>>
  BY DEF FanNext
<1>3. /\ sock' \in [Conns -> SockStates]
      /\ wire' \in [Conns -> Seq(Frames)]
      /\ fan' \in [Tasks -> FanStates]
      /\ DeadAreBroken'
      /\ \A d \in Conns : sock'[d] \in {"open", "lost"} => sock'[d] = sock[d]
      /\ \A d \in Conns : sock[d] = "fresh" => sock'[d] = "fresh"
      /\ fan'[t].frame = fan[t].frame
      /\ \A u \in Tasks \ {t} : fan'[u] = fan[u]
  BY <1>1, <1>2, SendOneFacts
<1>4. TypeOK'
  BY <1>2, <1>3 DEF TypeOK, dbVars
<1>5. CurKnown' /\ NewIsFresh'
  BY <1>2, <1>3 DEF CurKnown, NewIsFresh, FanNext
<1>6. RegistryOwned' /\ LiveRegistered'
  <2>1. \A d \in Conns : Live(d)' => Live(d)
    BY <1>2, <1>3 DEF Live
  <2> QED
    BY <1>2, <2>1, RegistryKept
<1> QED
  BY <1>3, <1>4, <1>5, <1>6

LEMMA FanReturnStep ==
  ASSUME IInv, NEW t \in Tasks, FanReturn(t)
  PROVE  IInv'
<1> USE DEF IInv
<1> DEFINE f == fan[t]
<1>1. /\ pc[t] = "fan"
      /\ members' = [members EXCEPT ![f.set] = @ \ f.dead]
      /\ fan' = [fan EXCEPT ![t] = NoFan]
      /\ Goto(t, AfterFan(t, f.frame, f.sent))
      /\ UNCHANGED <<joined, registry, sock, wire, cur, stored, delivered, read, logged, alone>>
  BY DEF FanReturn, dbVars
<1>2. PICK label \in {"mark", "log", "reply", "done", "recv"} :
        /\ Goto(t, label)
        /\ label \in {"mark", "log", "reply"} => f.frame[1] \in {"chat_message", "chat"}
  BY <1>1 DEF AfterFan
<1>3. /\ pc' \in [Tasks -> PCs]
      /\ pc'[t] = label
      /\ \A u \in Tasks \ {t} : pc'[u] = pc[u]
      /\ \A d \in Conns : Live(d)' => Live(d)
      /\ NewIsFresh'
  <2>1. label \in PCs \ {"new"}
    BY DEF PCs
  <2> QED
    BY <1>1, <1>2, <2>1, GotoFacts
<1>4. NoFan \in FanStates /\ NoFan.dead = {}
  BY DEF NoFan, FanStates, Frames
<1>5. TypeOK'
  <2>1. members' \in [Conns -> SUBSET Conns]
    BY <1>1 DEF TypeOK
  <2>2. fan' \in [Tasks -> FanStates]
    BY <1>1, <1>4 DEF TypeOK
  <2> QED
    BY <1>1, <1>3, <2>1, <2>2 DEF TypeOK
<1>6. CurKnown' /\ RegistryOwned'
  BY <1>1, <1>2, <1>3 DEF CurKnown, RegistryOwned, TypeOK
<1>7. DeadAreBroken'
  BY <1>1, <1>4 DEF DeadAreBroken, TypeOK
<1>8. LiveRegistered'
  <2> SUFFICES ASSUME NEW d \in Conns, Live(d)'
               PROVE  d \in Online(SpouseOf[d])'
    BY DEF LiveRegistered, Live
  <2>1. Live(d)
    BY <1>3
  <2>2. registry[SpouseOf[d]] # None /\ d \in members[registry[SpouseOf[d]]]
    BY <2>1 DEF LiveRegistered, Live, Online
  <2>3. registry[SpouseOf[d]] \in Conns
    BY <2>2, ChatAssumption DEF TypeOK, Tasks
  \* Whoever is taken out of the set cannot be reached any more.
  <2>4. d \notin f.dead
    BY <2>1 DEF Live, DeadAreBroken
  <2>5. d \in members'[registry[SpouseOf[d]]]
    BY <1>1, <2>2, <2>3, <2>4 DEF TypeOK
  <2> QED
    BY <1>1, <2>2, <2>5 DEF Online
<1> QED
  BY <1>3, <1>5, <1>6, <1>7, <1>8

LEMMA FanRaiseStep ==
  ASSUME IInv, NEW t \in Tasks, FanRaise(t)
  PROVE  IInv'
<1> USE DEF IInv
<1>1. /\ pc[t] = "fan"
      /\ fan' = [fan EXCEPT ![t] = NoFan]
      /\ UNCHANGED <<joined, registry, members, cur, stored, delivered, read, logged, alone>>
  BY DEF FanRaise, dbVars
<1>2. PICK label \in {"crashed", "recv"} : Goto(t, label)
  BY DEF FanRaise
<1>3. /\ sock' \in [Conns -> SockStates]
      /\ wire' \in [Conns -> Seq(Frames)]
      /\ \A d \in Conns : sock'[d] \in {"open", "lost"} => sock'[d] = sock[d]
      /\ \A d \in Conns : sock[d] \in {"fresh", "broken"} => sock'[d] = sock[d]
  <2>1. CASE UNCHANGED <<sock, wire>>
    BY <2>1 DEF TypeOK
  <2>2. CASE t \in Conns /\ Accepts(t, <<"error", None>>) /\ UNCHANGED sock
    <3>1. <<"error", None>> \in Frames
      BY DEF Frames
    <3> QED
      BY <2>2, <3>1, AcceptsType DEF TypeOK
  <2>3. CASE /\ t \in Conns
             /\ sock[t] \in {"lost", "broken"}
             /\ sock' = [sock EXCEPT ![t] = "broken"]
             /\ UNCHANGED wire
    BY <2>3 DEF TypeOK, SockStates
  <2> QED
    BY <2>1, <2>2, <2>3 DEF FanRaise
<1>4. /\ pc' \in [Tasks -> PCs]
      /\ pc'[t] = label
      /\ \A u \in Tasks \ {t} : pc'[u] = pc[u]
      /\ \A d \in Conns : Live(d)' => Live(d)
      /\ NewIsFresh'
  <2>1. label \in PCs \ {"new"}
    BY DEF PCs
  <2> QED
    BY <1>1, <1>2, <1>3, <2>1, GotoFacts
<1>5. NoFan \in FanStates /\ NoFan.dead = {}
  BY DEF NoFan, FanStates, Frames
<1>6. TypeOK'
  BY <1>1, <1>3, <1>4, <1>5 DEF TypeOK
<1>7. CurKnown'
  BY <1>1, <1>4 DEF CurKnown, TypeOK
<1>8. DeadAreBroken'
  BY <1>1, <1>3, <1>5 DEF DeadAreBroken, TypeOK, FanStates
<1>9. RegistryOwned' /\ LiveRegistered'
  BY <1>1, <1>4, RegistryKept
<1> QED
  BY <1>4, <1>6, <1>7, <1>8, <1>9

-----------------------------------------------------------------------------
(* Handling one message, and reading it. *)

LEMMA PersistStep ==
  ASSUME IInv, NEW t \in Tasks, NEW m \in Msgs, Persist(t, m)
  PROVE  IInv'
<1>1. PICK label \in {"push", "reply"} : Goto(t, label)
  BY DEF Persist
<1>2. label \in PCs \ {"new", "fan"}
  BY DEF PCs
<1>3. pc[t] = "recv" \/ t \notin Conns
  BY DEF Persist
<1>4. /\ UNCHANGED <<joined, connVars, wire, fan, delivered, read, logged>>
      /\ stored' = stored \cup {m} /\ alone' \in {alone, alone \cup {m}}
      /\ cur' = [cur EXCEPT ![t] = m]
  BY DEF Persist
<1>5. /\ cur' \in [Tasks -> Msgs \cup {None}]
      /\ cur'[t] \in Msgs
      /\ \A u \in Tasks \ {t} : cur'[u] = cur[u]
      /\ stored' \subseteq Msgs
      /\ delivered' \subseteq Msgs
      /\ read' \subseteq Msgs
      /\ logged' \subseteq Msgs
      /\ alone' \subseteq Msgs
  BY <1>4 DEF IInv, TypeOK
<1> QED
  BY <1>1, <1>2, <1>3, <1>4, <1>5, QuietStep

LEMMA RowStep ==
  ASSUME IInv, NEW t \in Tasks,
         MarkDelivered(t) \/ LogNotification(t) \/ WriteRead(t)
  PROVE  IInv'
<1>1. PICK label \in {"log", "ping", "tell"} : Goto(t, label)
  BY DEF MarkDelivered, LogNotification, WriteRead
<1>2. label \in PCs \ {"new", "fan"}
  BY DEF PCs
<1>3. pc[t] \in {"mark", "log", "write"}
  BY DEF MarkDelivered, LogNotification, WriteRead
<1>4. cur[t] \in Msgs
  BY <1>3 DEF IInv, CurKnown
<1>5. UNCHANGED <<joined, connVars, wire, fan, cur>>
  BY DEF MarkDelivered, LogNotification, WriteRead
<1>6. /\ cur' \in [Tasks -> Msgs \cup {None}]
      /\ cur'[t] \in Msgs
      /\ \A u \in Tasks \ {t} : cur'[u] = cur[u]
  BY <1>4, <1>5 DEF IInv, TypeOK
<1>7. /\ stored' \subseteq Msgs
      /\ delivered' \subseteq Msgs
      /\ read' \subseteq Msgs
      /\ logged' \subseteq Msgs
      /\ alone' \subseteq Msgs
  BY <1>4 DEF IInv, TypeOK, MarkDelivered, LogNotification, WriteRead
<1> QED
  BY <1>1, <1>2, <1>3, <1>5, <1>6, <1>7, QuietStep

\* Ends of handlers and other steps that only move the task on.
LEMMA MoveStep ==
  ASSUME IInv, NEW t \in Tasks,
         Respond(t) \/ (t \in Conns /\ (StartTyping(t) \/ ReceiveRaises(t)))
  PROVE  IInv'
<1>1. PICK label \in {"done", "typing", "recv", "crashed"} : Goto(t, label)
  BY DEF Respond, StartTyping, ReceiveRaises
<1>2. label \in PCs \ {"new", "fan"}
  BY DEF PCs
<1>3. pc[t] \in {"reply", "recv"}
  BY DEF Respond, StartTyping, ReceiveRaises
<1>4. UNCHANGED <<joined, connVars, wire, fan, cur, stored, delivered, read, logged, alone>>
  BY DEF Respond, StartTyping, ReceiveRaises, dbVars
<1>5. /\ cur' \in [Tasks -> Msgs \cup {None}]
      /\ \A u \in Tasks \ {t} : cur'[u] = cur[u]
      /\ stored' \subseteq Msgs
      /\ delivered' \subseteq Msgs
      /\ read' \subseteq Msgs
      /\ logged' \subseteq Msgs
      /\ alone' \subseteq Msgs
  BY <1>4 DEF IInv, TypeOK
<1> QED
  BY <1>1, <1>2, <1>3, <1>4, <1>5, QuietStep

\* Answers on a connection's own socket.
LEMMA AckStep ==
  ASSUME IInv, NEW c \in Conns, Ack(c) \/ AnswerRaises(c)
  PROVE  IInv'
<1> USE DEF IInv
<1>1. /\ pc[c] \in {"reply", "recv"}
      /\ UNCHANGED <<joined, registry, members, cur, fan, stored, delivered, read, logged, alone>>
  BY DEF Ack, AnswerRaises, dbVars
<1>2. PICK label \in {"recv", "crashed"} : Goto(c, label)
  BY DEF Ack, AnswerRaises
<1>3. c \in Tasks
  BY DEF Tasks
<1>4. /\ sock' \in [Conns -> SockStates]
      /\ wire' \in [Conns -> Seq(Frames)]
      /\ \A d \in Conns : sock'[d] \in {"open", "lost"} => sock'[d] = sock[d]
      /\ \A d \in Conns : sock[d] \in {"fresh", "broken"} => sock'[d] = sock[d]
  <2>1. CASE Ack(c) /\ Accepts(c, <<"chat_ack", cur[c]>>) /\ UNCHANGED sock
    <3>1. cur[c] \in Msgs
      BY <1>3, <2>1 DEF Ack, CurKnown
    <3>2. <<"chat_ack", cur[c]>> \in Frames
      BY <3>1 DEF Frames
    <3> QED
      BY <2>1, <3>2, AcceptsType DEF TypeOK
  <2>2. CASE /\ sock[c] \in {"lost", "broken"}
             /\ sock' = [sock EXCEPT ![c] = "broken"]
             /\ UNCHANGED wire
    BY <2>2 DEF TypeOK, SockStates
  <2> QED
    BY <2>1, <2>2 DEF Ack, AnswerRaises
<1>5. /\ pc' \in [Tasks -> PCs]
      /\ pc'[c] = label
      /\ \A u \in Tasks \ {c} : pc'[u] = pc[u]
      /\ \A d \in Conns : Live(d)' => Live(d)
      /\ NewIsFresh'
  <2>1. label \in PCs \ {"new"}
    BY DEF PCs
  <2> QED
    BY <1>1, <1>2, <1>3, <1>4, <2>1, GotoFacts
<1>6. TypeOK'
  BY <1>1, <1>4, <1>5 DEF TypeOK
<1>7. CurKnown'
  BY <1>1, <1>5 DEF CurKnown, TypeOK
<1>8. DeadAreBroken'
  BY <1>1, <1>4 DEF DeadAreBroken, TypeOK, FanStates
<1>9. RegistryOwned' /\ LiveRegistered'
  BY <1>1, <1>5, RegistryKept
<1> QED
  BY <1>5, <1>6, <1>7, <1>8, <1>9

LEMMA MarkReadStep ==
  ASSUME IInv, NEW r \in Requests, NEW m \in Msgs, MarkRead(r, m)
  PROVE  IInv'
<1>1. PICK label \in {"write", "done"} : Goto(r, label)
  BY DEF MarkRead
<1>2. label \in PCs \ {"new", "fan"}
  BY DEF PCs
<1>3. r \in Tasks /\ r \notin Conns
  BY ChatAssumption DEF Tasks
<1>4. /\ UNCHANGED <<joined, connVars, wire, fan, stored, delivered, read, logged, alone>>
      /\ cur' = [cur EXCEPT ![r] = m]
  BY DEF MarkRead, dbVars
<1>5. /\ cur' \in [Tasks -> Msgs \cup {None}]
      /\ cur'[r] \in Msgs
      /\ \A u \in Tasks \ {r} : cur'[u] = cur[u]
      /\ stored' \subseteq Msgs
      /\ delivered' \subseteq Msgs
      /\ read' \subseteq Msgs
      /\ logged' \subseteq Msgs
      /\ alone' \subseteq Msgs
  BY <1>3, <1>4 DEF IInv, TypeOK
<1> QED
  BY <1>1, <1>2, <1>3, <1>4, <1>5, QuietStep

LEMMA BroadcastStep ==
  ASSUME IInv, NEW t \in Tasks,
         Push(t) \/ Ping(t) \/ RelayTyping(t) \/ TellAuthor(t)
  PROVE  IInv'
<1>1. pc[t] \in {"push", "ping", "tell"} => cur[t] \in Msgs
  BY DEF IInv, CurKnown
<1>2. /\ pc[t] = "push" => <<"chat_message", cur[t]>> \in Frames
      /\ pc[t] = "tell" => <<"chat_read", cur[t]>> \in Frames
      /\ <<"chat", None>> \in Frames
      /\ <<"typing", None>> \in Frames
  BY <1>1 DEF Frames
<1>3. CASE Push(t)
  BY <1>1, <1>2, <1>3, SendStep DEF Push
<1>4. CASE Ping(t)
  BY <1>1, <1>2, <1>4, SendStep DEF Ping
<1>5. CASE RelayTyping(t)
  BY <1>2, <1>5, SendStep DEF RelayTyping
<1>6. CASE TellAuthor(t)
  BY <1>2, <1>6, SendStep DEF TellAuthor
<1> QED
  BY <1>3, <1>4, <1>5, <1>6

-----------------------------------------------------------------------------
LEMMA NextIInv == IInv /\ [Next]_serverVars => IInv'
<1> SUFFICES ASSUME IInv, [Next]_serverVars PROVE IInv'
  OBVIOUS
<1>1. ASSUME NEW t \in Tasks, TaskStep(t) PROVE IInv'
  <2>1. CASE Push(t) \/ Ping(t) \/ RelayTyping(t) \/ TellAuthor(t)
    BY <2>1, BroadcastStep
  <2>2. CASE MarkDelivered(t) \/ LogNotification(t) \/ WriteRead(t)
    BY <2>2, RowStep
  <2>3. CASE Respond(t)
    BY <2>3, MoveStep
  <2>4. CASE Ack(t)
    <3>1. t \in Conns
      BY <2>4 DEF Ack
    <3> QED
      BY <2>4, <3>1, AckStep
  <2>5. CASE FanReturn(t)
    BY <2>5, FanReturnStep
  <2>6. CASE FanRaise(t)
    BY <2>6, FanRaiseStep
  <2>7. CASE \E c \in Conns : FanNext(t, c)
    BY <2>7, FanNextStep
  <2> QED
    BY <1>1, <2>1, <2>2, <2>3, <2>4, <2>5, <2>6, <2>7 DEF TaskStep
<1>2. ASSUME NEW t \in Tasks, NEW m \in Msgs, Persist(t, m) PROVE IInv'
  BY <1>2, PersistStep
<1>3. ASSUME NEW r \in Requests, NEW m \in Msgs, MarkRead(r, m) PROVE IInv'
  BY <1>3, MarkReadStep
<1>7. ASSUME NEW s \in Spouses, Join(s) PROVE IInv'
  <2>1. /\ joined' \subseteq Spouses
        /\ UNCHANGED <<registry, members, sock, wire, stored, delivered,
                       read, logged, alone, pc, cur, fan>>
    BY <1>7 DEF Join, connVars, dbVars, IInv, TypeOK
  <2>2. TypeOK'
    BY <2>1 DEF IInv, TypeOK
  <2>3. RegistryOwned' /\ CurKnown' /\ DeadAreBroken' /\ NewIsFresh'
    BY <2>1 DEF IInv, RegistryOwned, CurKnown, DeadAreBroken, NewIsFresh
  <2>4. LiveRegistered'
    BY <2>1 DEF IInv, LiveRegistered, Online
  <2> QED
    BY <2>2, <2>3, <2>4 DEF IInv
<1>4. ASSUME NEW c \in Conns, ConnStep(c) PROVE IInv'
  <2>1. c \in Tasks
    BY DEF Tasks
  <2>2. CASE StartTyping(c) \/ ReceiveRaises(c)
    BY <2>1, <2>2, MoveStep
  <2> QED
    BY <1>4, <2>2, AckStep, ConnectStep, LoseStep, DisconnectStep DEF ConnStep
<1>5. CASE UNCHANGED serverVars
  <2>1. UNCHANGED <<joined, registry, members, sock, wire, stored, delivered,
                    read, logged, alone, pc, cur, fan>>
    BY <1>5 DEF serverVars
  <2>2. TypeOK'
    BY <2>1 DEF IInv, TypeOK
  <2>3. RegistryOwned' /\ CurKnown' /\ DeadAreBroken' /\ NewIsFresh'
    BY <2>1 DEF IInv, RegistryOwned, CurKnown, DeadAreBroken, NewIsFresh
  <2>4. LiveRegistered'
    BY <2>1 DEF IInv, LiveRegistered, Online
  <2> QED
    BY <2>2, <2>3, <2>4 DEF IInv
<1> QED
  BY <1>1, <1>2, <1>3, <1>4, <1>5, <1>7 DEF Next

-----------------------------------------------------------------------------
(* The second layer: what is known of a task at each label, and of the     *)
(* frames the sockets have taken.                                          *)

\* What Accepts puts on record.
LEMMA SentAfter ==
  ASSUME TypeOK, NEW c \in Conns, NEW frame \in Frames, Accepts(c, frame),
         NEW d \in Conns, NEW any
  PROVE  Sent(d, any)' <=> Sent(d, any) \/ (d = c /\ any = frame /\ frame[1] # "typing")
<1>1. wire[c] \in Seq(Frames) /\ wire \in [Conns -> Seq(Frames)]
  BY DEF TypeOK
<1>2. CASE frame[1] = "typing" \/ d # c
  BY <1>1, <1>2 DEF Accepts, Sent
<1>3. CASE frame[1] # "typing" /\ d = c
  <2>1. wire'[d] = Append(wire[c], frame)
    BY <1>1, <1>3 DEF Accepts
  <2>2. Len(wire'[d]) = Len(wire[c]) + 1 /\ Len(wire[c]) \in Nat
    BY <1>1, <2>1
  <2>3. \A i \in 1 .. Len(wire[c]) : wire'[d][i] = wire[c][i]
    BY <1>1, <2>1
  <2>4. wire'[d][Len(wire[c]) + 1] = frame
    BY <1>1, <2>1
  <2>5. Sent(d, any)' => Sent(d, any) \/ any = frame
    BY <1>3, <2>2, <2>3, <2>4 DEF Sent
  <2>6. Sent(d, any) \/ any = frame => Sent(d, any)'
    BY <1>3, <2>2, <2>3, <2>4 DEF Sent
  <2> QED
    BY <1>3, <2>5, <2>6
<1> QED
  BY <1>2, <1>3

LEMMA OtherIsOther == ASSUME NEW s \in Spouses PROVE Other(s) \in Spouses /\ Other(s) # s
BY ChatAssumption DEF Other

-----------------------------------------------------------------------------
\* A step of one task that touches no message but its own keeps what is known
\* of the other tasks; its own part, and the frames, are left to show.
LEMMA OneTaskMoves ==
  ASSUME TypeOK, FramesInv, NEW t \in Tasks,
         \A u \in Tasks \ {t} : pc'[u] = pc[u] /\ cur'[u] = cur[u] /\ fan'[u] = fan[u],
         alone \subseteq alone', stored \subseteq stored', logged \subseteq logged', read \subseteq read',
         \A m \in Msgs :
           \/ m = cur[t] /\ Handles(t)
           \/ /\ Taken(m)' <=> Taken(m)
              /\ Acked(m)' <=> Acked(m)
              /\ m \in delivered' <=> m \in delivered,
         Handles(t)' => cur'[t] \notin stored \/ (Handles(t) /\ cur'[t] = cur[t]),
         \A m \in Msgs : m = cur[t] /\ Handles(t) /\ Acked(m)' /\ m \notin alone' =>
           m \in logged' /\ (m \in delivered' <=> Taken(m)'),
         MembersOwned', TaskInv(t)', FramesBacked', DeliveredReached'
  PROVE  FramesInv'
<1>1. \A u \in Tasks : Handles(u) => cur[u] \in stored /\ cur[u] \in Msgs
  BY DEF FramesInv, TaskInv, HandledIsStored, TypeOK
<1>2. ASSUME NEW u \in Tasks \ {t} PROVE TaskInv(u)' /\ (Handles(u)' <=> Handles(u))
  <2>1. TaskInv(u)
    BY DEF FramesInv
  <2>2. \A k : InFan(u, k)' <=> InFan(u, k)
    BY DEF InFan
  <2>3. Handles(u)' <=> Handles(u)
    BY <2>2 DEF Handles
  <2>4. FanAddressed(u)' /\ RowsFirst(u)'
    BY <2>1, <2>2 DEF TaskInv, FanAddressed, RowsFirst
  <2>5. ASSUME Handles(u)
        PROVE  /\ Taken(cur[u])' <=> Taken(cur[u])
               /\ Acked(cur[u])' <=> Acked(cur[u])
               /\ cur[u] \in delivered' <=> cur[u] \in delivered
    <3>1. ~(cur[u] = cur[t] /\ Handles(t))
      BY <2>5 DEF FramesInv, OneHandler
    <3> QED
      BY <1>1, <2>5, <3>1
  <2>6. HandledIsStored(u)'
    BY <2>1, <2>3, <2>5 DEF TaskInv, HandledIsStored
  <2>7. TakenIsKnown(u)'
    <3>1. Handles(u) \/ ~(\/ pc[u] \in {"push", "mark", "log", "ping", "reply"}
                          \/ InFan(u, {"chat_message"}) \/ InFan(u, {"chat"}))
      BY DEF Handles, InFan
    <3>2. CASE Handles(u)
      <4>1. fan'[u] = fan[u] /\ pc'[u] = pc[u]
        OBVIOUS
      <4> QED
        BY <2>1, <2>2, <2>5, <3>2, <4>1 DEF TaskInv, TakenIsKnown
    <3>3. CASE ~Handles(u)
      BY <2>1, <2>2, <3>1, <3>3 DEF TaskInv, TakenIsKnown
    <3> QED
      BY <3>2, <3>3
  <2> QED
    BY <2>3, <2>4, <2>6, <2>7 DEF TaskInv
<1>3. OneHandler'
  BY <1>1, <1>2 DEF FramesInv, OneHandler
<1>4. AckedIsNotified'
  <2> SUFFICES ASSUME NEW c \in Conns, NEW m \in Msgs, Sent(c, <<"chat_ack", m>>)', m \notin alone'
               PROVE  m \in logged' /\ (m \in delivered' <=> Taken(m)')
    BY DEF AckedIsNotified, Taken
  <2>1. Acked(m)'
    BY DEF Acked
  <2>2. CASE m = cur[t] /\ Handles(t)
    BY <2>1, <2>2
  <2>3. CASE ~(m = cur[t] /\ Handles(t))
    <3>1. Acked(m) /\ (Taken(m)' <=> Taken(m)) /\ (m \in delivered' <=> m \in delivered)
      BY <2>1, <2>3
    <3>2. m \in logged /\ (m \in delivered <=> Taken(m))
      BY <3>1 DEF FramesInv, AckedIsNotified, Acked, Taken
    <3> QED
      BY <3>1, <3>2
  <2> QED
    BY <2>2, <2>3
<1> QED
  BY <1>2, <1>3, <1>4 DEF FramesInv

\* A step that puts no frame on the wire and marks nothing as delivered.
LEMMA NoFrame ==
  ASSUME FramesInv, UNCHANGED <<wire, delivered>>,
         stored \subseteq stored', logged \subseteq logged', read \subseteq read'
  PROVE  /\ FramesBacked' /\ DeliveredReached'
         /\ \A m : (Taken(m)' <=> Taken(m)) /\ (Acked(m)' <=> Acked(m))
<1>1. ASSUME NEW c, NEW any PROVE Sent(c, any)' <=> Sent(c, any)
  BY DEF Sent
<1>2. FramesBacked'
  BY <1>1 DEF FramesInv, FramesBacked
<1>3. DeliveredReached'
  BY <1>1 DEF FramesInv, DeliveredReached
<1>4. \A m : (Taken(m)' <=> Taken(m)) /\ (Acked(m)' <=> Acked(m))
  BY <1>1 DEF Taken, Acked
<1> QED
  BY <1>2, <1>3, <1>4

LEMMA SilentStep ==
  ASSUME TypeOK, FramesInv, NEW t \in Tasks,
         \A u \in Tasks \ {t} : pc'[u] = pc[u] /\ cur'[u] = cur[u] /\ fan'[u] = fan[u],
         UNCHANGED <<wire, delivered>>, alone \subseteq alone',
         stored \subseteq stored', logged \subseteq logged', read \subseteq read',
         Handles(t)' => cur'[t] \notin stored \/ (Handles(t) /\ cur'[t] = cur[t]),
         MembersOwned', TaskInv(t)'
  PROVE  FramesInv'
<1>1. /\ FramesBacked' /\ DeliveredReached'
      /\ \A m : (Taken(m)' <=> Taken(m)) /\ (Acked(m)' <=> Acked(m))
  BY NoFrame
<1>2. \A m \in Msgs : m = cur[t] /\ Handles(t) => ~Acked(m)
  BY DEF FramesInv, TaskInv, HandledIsStored
<1> QED
  BY <1>1, <1>2, OneTaskMoves

\* The invariant does not speak of sockets and of the registry's keys.
LEMMA SocketStep ==
  ASSUME FramesInv, UNCHANGED <<members, wire, pc, cur, fan, dbVars>>
  PROVE  FramesInv'
<1>1. UNCHANGED <<members, wire, pc, cur, fan, stored, delivered, read, logged, alone>>
  BY DEF dbVars
<1>2. /\ FramesBacked' /\ DeliveredReached'
      /\ \A m : (Taken(m)' <=> Taken(m)) /\ (Acked(m)' <=> Acked(m))
  BY <1>1, NoFrame
<1>3. \A t, k : InFan(t, k)' <=> InFan(t, k)
  BY <1>1 DEF InFan
<1>4. \A t : Handles(t)' <=> Handles(t)
  BY <1>1, <1>3 DEF Handles
<1>5. ASSUME NEW t \in Tasks PROVE TaskInv(t)'
  <2>1. TaskInv(t)
    BY <1>5 DEF FramesInv
  <2>2. FanAddressed(t)' /\ RowsFirst(t)'
    BY <1>1, <1>3, <2>1 DEF TaskInv, FanAddressed, RowsFirst
  <2>3. HandledIsStored(t)'
    BY <1>1, <1>2, <1>4, <2>1 DEF TaskInv, HandledIsStored
  <2>4. TakenIsKnown(t)'
    BY <1>1, <1>2, <1>3, <2>1 DEF TaskInv, TakenIsKnown
  <2> QED
    BY <2>2, <2>3, <2>4 DEF TaskInv
<1>6. OneHandler' /\ MembersOwned'
  BY <1>1, <1>4 DEF FramesInv, OneHandler, MembersOwned
<1>7. AckedIsNotified'
  <2>1. \A c, any : Sent(c, any)' <=> Sent(c, any)
    BY <1>1 DEF Sent
  <2> QED
    BY <1>1, <2>1 DEF FramesInv, AckedIsNotified
<1> QED
  BY <1>2, <1>5, <1>6, <1>7 DEF FramesInv

\* Nothing is claimed of a task between two messages.
LEMMA IdleTask ==
  ASSUME NEW t, pc'[t] \in {"recv", "typing", "write", "done", "crashed"}
  PROVE  TaskInv(t)' /\ ~Handles(t)'
BY DEF TaskInv, FanAddressed, HandledIsStored, TakenIsKnown, RowsFirst, Handles, InFan

-----------------------------------------------------------------------------
LEMMA RegistryFrames ==
  ASSUME IInv, FramesInv, NEW c \in Conns, Connect(c) \/ Disconnect(c)
  PROVE  FramesInv'
<1> DEFINE s == SpouseOf[c]
<1>1. c \in Tasks /\ s \in Spouses /\ c # None
  BY ChatAssumption DEF Tasks
<1>2. pc'[c] \in {"recv", "done"} /\ \A u \in Tasks \ {c} : pc'[u] = pc[u]
  BY <1>1 DEF Connect, Disconnect, Goto, IInv, TypeOK
<1>3. UNCHANGED <<joined, wire, cur, fan, stored, delivered, read, logged, alone>>
  BY DEF Connect, Disconnect, dbVars
<1>4. MembersOwned'
  <2>1. CASE Connect(c)
    <3> DEFINE set == IF registry[s] = None THEN c ELSE registry[s]
    <3>1. members' = [members EXCEPT ![set] = @ \cup {c}] /\ SpouseOf[set] = s
      BY <1>1, <2>1 DEF Connect, IInv, RegistryOwned
    <3> QED
      BY <3>1 DEF FramesInv, MembersOwned, IInv, TypeOK
  <2>2. CASE Disconnect(c)
    <3>1. \A o \in Conns : members'[o] \subseteq members[o]
      <4>1. \/ members' = [members EXCEPT ![registry[s]] = members[registry[s]] \ {c}]
            \/ members' = members
        BY <2>2 DEF Disconnect
      <4> QED
        BY <4>1 DEF IInv, TypeOK
    <3> QED
      BY <3>1 DEF FramesInv, MembersOwned
  <2> QED
    BY <2>1, <2>2
<1> QED
  BY <1>1, <1>2, <1>3, <1>4, IdleTask, SilentStep DEF IInv

\* Steps between two messages.
LEMMA IdleFrames ==
  ASSUME IInv, FramesInv, NEW t \in Tasks,
         \/ t \in Conns /\ (StartTyping(t) \/ AnswerRaises(t) \/ ReceiveRaises(t))
         \/ Respond(t)
         \/ \E m \in Msgs : MarkRead(t, m)
  PROVE  FramesInv'
<1>1. pc'[t] \in {"recv", "typing", "write", "done", "crashed"} /\ \A u \in Tasks \ {t} : pc'[u] = pc[u]
  BY DEF StartTyping, AnswerRaises, ReceiveRaises, Respond, MarkRead, Goto, IInv, TypeOK
<1>2. \A u \in Tasks \ {t} : cur'[u] = cur[u]
  BY DEF StartTyping, AnswerRaises, ReceiveRaises, Respond, MarkRead, IInv, TypeOK
<1>3. UNCHANGED <<joined, members, wire, fan, stored, delivered, read, logged, alone>>
  BY DEF StartTyping, AnswerRaises, ReceiveRaises, Respond, MarkRead, dbVars, connVars
<1>4. MembersOwned'
  BY <1>3 DEF FramesInv, MembersOwned
<1> QED
  BY <1>1, <1>2, <1>3, <1>4, IdleTask, SilentStep DEF IInv

LEMMA PersistFrames ==
  ASSUME IInv, FramesInv, NEW t \in Tasks, NEW m \in Msgs, Persist(t, m)
  PROVE  FramesInv'
<1>1. /\ m \notin stored /\ Author[m] = SpouseOf[t]
      /\ stored' = stored \cup {m}
      /\ UNCHANGED <<joined, members, wire, fan, delivered, read, logged>>
      /\ alone \subseteq alone'
  BY DEF Persist, connVars
<1>2. cur'[t] = m /\ \A u \in Tasks \ {t} : cur'[u] = cur[u] /\ pc'[u] = pc[u]
  BY DEF Persist, Goto, IInv, TypeOK
<1>3. pc'[t] \in {"push", "reply"} /\ (pc'[t] = "reply" => m \in alone')
  BY DEF Persist, Goto, IInv, TypeOK
<1>4. ~Taken(m)' /\ ~Acked(m)' /\ m \notin delivered
  <2>1. ~Taken(m) /\ ~Acked(m)
    BY <1>1 DEF FramesInv, FramesBacked, Taken, Acked
  <2>2. m \notin delivered
    BY <2>1 DEF FramesInv, DeliveredReached, Taken
  <2> QED
    BY <1>1, <2>1, <2>2, NoFrame
<1>5. TaskInv(t)'
  <2>1. \A k : ~InFan(t, k)'
    BY <1>3 DEF InFan
  <2>2. FanAddressed(t)' /\ RowsFirst(t)'
    BY <1>1, <1>2, <1>3, <2>1 DEF FanAddressed, RowsFirst
  <2>3. HandledIsStored(t)'
    BY <1>1, <1>2, <1>4 DEF HandledIsStored
  <2>4. TakenIsKnown(t)'
    BY <1>1, <1>2, <1>3, <1>4, <2>1 DEF TakenIsKnown
  <2> QED
    BY <2>2, <2>3, <2>4 DEF TaskInv
<1>6. MembersOwned'
  BY <1>1 DEF FramesInv, MembersOwned
<1> QED
  BY <1>1, <1>2, <1>5, <1>6, SilentStep DEF IInv

-----------------------------------------------------------------------------
(* Rows that are written. *)

LEMMA RowFrames ==
  ASSUME IInv, FramesInv, NEW t \in Tasks, LogNotification(t) \/ WriteRead(t)
  PROVE  FramesInv'
<1>1. /\ UNCHANGED <<joined, members, wire, fan, cur, stored, delivered, alone>>
      /\ \A u \in Tasks \ {t} : pc'[u] = pc[u]
      /\ logged \subseteq logged' /\ read \subseteq read'
  BY DEF LogNotification, WriteRead, connVars, Goto, IInv, TypeOK
<1>2. /\ \A m : (Taken(m)' <=> Taken(m)) /\ (Acked(m)' <=> Acked(m))
      /\ MembersOwned'
  BY <1>1, NoFrame DEF FramesInv, MembersOwned
<1>3. TaskInv(t)
  BY DEF FramesInv
<1>4. CASE LogNotification(t)
  <2>1. pc[t] = "log" /\ pc'[t] = "ping" /\ cur[t] \in logged'
    BY <1>4 DEF LogNotification, Goto, IInv, TypeOK
  <2>2. Handles(t) /\ \A k : ~InFan(t, k)'
    BY <2>1 DEF Handles, InFan
  <2>3. TaskInv(t)'
    BY <1>1, <1>2, <1>3, <2>1, <2>2 DEF TaskInv, FanAddressed, HandledIsStored, TakenIsKnown, RowsFirst
  <2> QED
    BY <1>1, <1>2, <2>2, <2>3, SilentStep DEF IInv
<1>5. CASE WriteRead(t)
  <2>1. pc'[t] = "tell" /\ cur[t] \in read'
    BY <1>5 DEF WriteRead, Goto, IInv, TypeOK
  <2>2. ~Handles(t)' /\ \A k : ~InFan(t, k)'
    BY <2>1 DEF Handles, InFan
  <2>3. TaskInv(t)'
    BY <1>1, <2>1, <2>2 DEF TaskInv, FanAddressed, HandledIsStored, TakenIsKnown, RowsFirst
  <2> QED
    BY <1>1, <1>2, <2>2, <2>3, SilentStep DEF IInv
<1> QED
  BY <1>4, <1>5

LEMMA DeliveredFrames ==
  ASSUME IInv, FramesInv, NEW t \in Tasks, MarkDelivered(t)
  PROVE  FramesInv'
<1>1. /\ UNCHANGED <<joined, members, wire, fan, cur, stored, read, logged, alone>>
      /\ \A u \in Tasks \ {t} : pc'[u] = pc[u]
      /\ pc[t] = "mark" /\ pc'[t] = "log" /\ delivered' = delivered \cup {cur[t]}
  BY DEF MarkDelivered, connVars, Goto, IInv, TypeOK
<1>2. ASSUME NEW c, NEW any PROVE Sent(c, any)' <=> Sent(c, any)
  BY <1>1 DEF Sent
<1>3. \A m : (Taken(m)' <=> Taken(m)) /\ (Acked(m)' <=> Acked(m))
  BY <1>2 DEF Taken, Acked
<1>4. Handles(t) /\ \A k : ~InFan(t, k)'
  BY <1>1 DEF Handles, InFan
<1>5. TaskInv(t) /\ Taken(cur[t]) /\ ~Acked(cur[t])
  BY <1>1, <1>4 DEF FramesInv, TaskInv, TakenIsKnown, HandledIsStored
<1>6. FramesBacked'
  BY <1>1, <1>2 DEF FramesInv, FramesBacked
<1>7. DeliveredReached'
  <2> SUFFICES ASSUME NEW m \in delivered'
               PROVE  \E c \in Conns : SpouseOf[c] # Author[m] /\ Sent(c, <<"chat_message", m>>)
    BY <1>2 DEF DeliveredReached
  <2>1. CASE m \in delivered
    BY <2>1 DEF FramesInv, DeliveredReached
  <2>2. CASE m = cur[t]
    <3>1. m \in Msgs /\ \E c \in Conns : Sent(c, <<"chat_message", m>>)
      BY <1>1, <1>5, <2>2 DEF Taken, IInv, CurKnown
    <3> QED
      BY <3>1 DEF FramesInv, FramesBacked
  <2> QED
    BY <1>1, <2>1, <2>2
<1>8. TaskInv(t)'
  <2>1. Taken(cur[t])' /\ ~Acked(cur[t])'
    BY <1>1, <1>3, <1>5
  <2>2. FanAddressed(t)' /\ RowsFirst(t)'
    BY <1>1, <1>4 DEF FanAddressed, RowsFirst
  <2>3. HandledIsStored(t)'
    BY <1>1, <1>4, <1>5, <2>1 DEF TaskInv, HandledIsStored
  <2>4. TakenIsKnown(t)'
    BY <1>1, <1>4, <2>1 DEF TakenIsKnown
  <2> QED
    BY <2>2, <2>3, <2>4 DEF TaskInv
<1>9. MembersOwned'
  BY <1>1 DEF FramesInv, MembersOwned
<1> QED
  BY <1>1, <1>3, <1>4, <1>5, <1>6, <1>7, <1>8, <1>9, OneTaskMoves DEF IInv

-----------------------------------------------------------------------------
(* Frames that are taken. *)

\* A frame that says what is so, put on the wire by the task it concerns.
LEMMA FrameStep ==
  ASSUME TypeOK, FramesInv, NEW t \in Tasks, NEW c \in Conns, NEW frame \in Frames,
         Accepts(c, frame),
         \A u \in Tasks \ {t} : pc'[u] = pc[u] /\ cur'[u] = cur[u] /\ fan'[u] = fan[u],
         UNCHANGED <<joined, members, cur, dbVars>>,
         frame[1] \in {"chat_message", "chat_ack"} =>
           Handles(t) /\ frame[2] = cur[t] /\ cur[t] \in Msgs,
         frame[1] = "chat_message" => SpouseOf[c] # Author[cur[t]],
         frame[1] = "chat_ack" =>
           /\ SpouseOf[c] = Author[cur[t]]
           /\ cur[t] \notin alone => cur[t] \in logged
           /\ cur[t] \in delivered <=> Taken(cur[t]),
         frame[1] = "chat_read" => frame[2] \in read /\ SpouseOf[c] = Author[frame[2]],
         frame[1] = "chat" => \E n \in logged : SpouseOf[c] # Author[n],
         Handles(t)' => Handles(t),
         TaskInv(t)'
  PROVE  FramesInv'
<1>1. UNCHANGED <<stored, delivered, read, logged, alone, members, cur>>
  BY DEF dbVars
<1>2. \A d \in Conns : \A any :
        Sent(d, any)' <=> Sent(d, any) \/ (d = c /\ any = frame /\ frame[1] # "typing")
  BY SentAfter
<1>3. Handles(t) => cur[t] \in stored
  BY DEF FramesInv, TaskInv, HandledIsStored
<1>4. FramesBacked'
  <2> SUFFICES ASSUME NEW d \in Conns, NEW m \in Msgs
               PROVE  /\ Sent(d, <<"chat_message", m>>)' => m \in stored /\ SpouseOf[d] # Author[m]
                      /\ Sent(d, <<"chat_ack", m>>)' => m \in stored /\ SpouseOf[d] = Author[m]
                      /\ Sent(d, <<"chat_read", m>>)' => m \in read /\ SpouseOf[d] = Author[m]
                      /\ Sent(d, <<"chat", None>>)' => \E n \in logged : SpouseOf[d] # Author[n]
    BY <1>1 DEF FramesBacked
  <2>1. Sent(d, <<"chat_message", m>>)' => m \in stored /\ SpouseOf[d] # Author[m]
    <3>1. CASE Sent(d, <<"chat_message", m>>)
      BY <3>1 DEF FramesInv, FramesBacked
    <3>2. CASE d = c /\ frame = <<"chat_message", m>>
      <4>1. frame[1] = "chat_message" /\ frame[2] = m
        BY <3>2
      <4> QED
        BY <1>3, <3>2, <4>1
    <3> QED
      BY <1>2, <3>1, <3>2
  <2>2. Sent(d, <<"chat_ack", m>>)' => m \in stored /\ SpouseOf[d] = Author[m]
    <3>1. CASE Sent(d, <<"chat_ack", m>>)
      BY <3>1 DEF FramesInv, FramesBacked
    <3>2. CASE d = c /\ frame = <<"chat_ack", m>>
      <4>1. frame[1] = "chat_ack" /\ frame[2] = m
        BY <3>2
      <4> QED
        BY <1>3, <3>2, <4>1
    <3> QED
      BY <1>2, <3>1, <3>2
  <2>3. Sent(d, <<"chat_read", m>>)' => m \in read /\ SpouseOf[d] = Author[m]
    <3>1. CASE Sent(d, <<"chat_read", m>>)
      BY <3>1 DEF FramesInv, FramesBacked
    <3>2. CASE d = c /\ frame = <<"chat_read", m>>
      <4>1. frame[1] = "chat_read" /\ frame[2] = m
        BY <3>2
      <4> QED
        BY <3>2, <4>1
    <3> QED
      BY <1>2, <3>1, <3>2
  <2>4. Sent(d, <<"chat", None>>)' => \E n \in logged : SpouseOf[d] # Author[n]
    <3>1. CASE Sent(d, <<"chat", None>>)
      BY <3>1 DEF FramesInv, FramesBacked
    <3>2. CASE d = c /\ frame = <<"chat", None>>
      <4>1. frame[1] = "chat" /\ frame[2] = None
        BY <3>2
      <4> QED
        BY <3>2, <4>1
    <3> QED
      BY <1>2, <3>1, <3>2
  <2> QED
    BY <2>1, <2>2, <2>3, <2>4
<1>5. DeliveredReached'
  BY <1>1, <1>2 DEF FramesInv, DeliveredReached
<1>6. ASSUME NEW m \in Msgs, ~(m = cur[t] /\ Handles(t))
      PROVE  (Taken(m)' <=> Taken(m)) /\ (Acked(m)' <=> Acked(m))
  <2>1. frame # <<"chat_message", m>> /\ frame # <<"chat_ack", m>>
    BY <1>6
  <2> QED
    BY <1>2, <2>1 DEF Taken, Acked
<1>7. ASSUME NEW m \in Msgs, m = cur[t], Handles(t), Acked(m)', m \notin alone'
      PROVE  m \in logged' /\ (m \in delivered' <=> Taken(m)')
  <2>1. ~Acked(m)
    BY <1>7 DEF FramesInv, TaskInv, HandledIsStored
  <2>2. frame = <<"chat_ack", m>>
    BY <1>2, <1>7, <2>1 DEF Acked
  <2>3. Taken(m)' <=> Taken(m)
    BY <1>2, <2>2 DEF Taken
  <2> QED
    BY <1>1, <1>7, <2>2, <2>3
<1>8. MembersOwned'
  BY <1>1 DEF FramesInv, MembersOwned
<1> QED
  BY <1>1, <1>4, <1>5, <1>6, <1>7, <1>8, OneTaskMoves

\* What a broadcast f of task t may carry.
Proper(t, f) ==
  /\ f.set \in Conns
  /\ f.frame[1] \in {"chat_message", "chat", "chat_read", "typing"}
  /\ f.frame[1] \in {"chat_message", "chat"} => Handles(t) /\ SpouseOf[f.set] # SpouseOf[t]
  /\ f.frame[1] \in {"chat_message", "chat_read"} => f.frame[2] = cur[t]
  /\ f.frame[1] = "chat_message" => (f.sent <=> Taken(cur[t]))
  /\ f.frame[1] = "chat" => cur[t] \in logged /\ (cur[t] \in delivered <=> Taken(cur[t]))
  /\ f.frame[1] = "chat_read" => SpouseOf[f.set] = Author[cur[t]] /\ cur[t] \in read

\* What one send does to the iteration.
LEMMA SendMoves ==
  ASSUME TypeOK, NEW t \in Tasks, NEW c \in Conns, NEW f \in FanStates, SendOne(t, c, f)
  PROVE  /\ \A u \in Tasks \ {t} : fan'[u] = fan[u]
         /\ fan'[t].set = f.set /\ fan'[t].frame = f.frame
         /\ \/ Accepts(c, f.frame) /\ fan'[t].sent = TRUE
            \/ UNCHANGED wire /\ fan'[t].sent = f.sent
<1> DEFINE accepted == [f EXCEPT !.visited = @ \cup {c}, !.sent = TRUE]
           raised == [f EXCEPT !.visited = @ \cup {c}, !.dead = @ \cup {c}]
<1>1. /\ accepted.set = f.set /\ accepted.frame = f.frame /\ accepted.sent = TRUE
      /\ raised.set = f.set /\ raised.frame = f.frame /\ raised.sent = f.sent
  BY DEF FanStates
<1>2. fan \in [Tasks -> FanStates]
  BY DEF TypeOK
<1>3. CASE Accepts(c, f.frame) /\ fan' = [fan EXCEPT ![t] = accepted]
  <2>1. fan'[t] = accepted /\ \A u \in Tasks \ {t} : fan'[u] = fan[u]
    BY <1>2, <1>3
  <2> QED
    BY <1>1, <1>3, <2>1
<1>4. CASE UNCHANGED wire /\ fan' = [fan EXCEPT ![t] = raised]
  <2>1. fan'[t] = raised /\ \A u \in Tasks \ {t} : fan'[u] = fan[u]
    BY <1>2, <1>4
  <2> QED
    BY <1>1, <1>4, <2>1
<1> QED
  BY <1>3, <1>4 DEF SendOne

\* One send of it, whether the socket takes the frame or raises.
LEMMA SendFrames ==
  ASSUME IInv, FramesInv, NEW t \in Tasks, NEW c \in Conns, NEW f \in FanStates,
         SendOne(t, c, f), Proper(t, f), c \in members[f.set],
         pc'[t] = "fan", \A u \in Tasks \ {t} : pc'[u] = pc[u],
         UNCHANGED <<joined, registry, members, cur, dbVars>>
  PROVE  FramesInv'
<1>1. /\ UNCHANGED <<joined, members, cur, stored, delivered, read, logged, alone>>
      /\ \A u \in Tasks \ {t} : pc'[u] = pc[u] /\ cur'[u] = cur[u]
  BY DEF dbVars
<1>2. /\ \A u \in Tasks \ {t} : fan'[u] = fan[u]
      /\ fan'[t].set = f.set /\ fan'[t].frame = f.frame
  BY SendMoves DEF IInv
<1>3. SpouseOf[c] = SpouseOf[f.set] /\ f.frame \in Frames
  BY DEF Proper, FramesInv, MembersOwned, FanStates
<1>4. \A k : InFan(t, k)' <=> f.frame[1] \in k
  BY <1>2 DEF InFan
<1>5. Handles(t)' <=> f.frame[1] \in {"chat_message", "chat"}
  BY <1>4 DEF Handles
<1>6. Handles(t) => cur[t] \in stored /\ cur[t] \in Msgs /\ Author[cur[t]] = SpouseOf[t] /\ ~Acked(cur[t])
  BY DEF FramesInv, TaskInv, HandledIsStored, IInv, TypeOK
<1>7. FanAddressed(t)' /\ RowsFirst(t)'
  BY <1>1, <1>2, <1>4 DEF Proper, FanAddressed, RowsFirst
<1>8. CASE Accepts(c, f.frame) /\ fan'[t].sent = TRUE
  <2>1. \A d \in Conns : \A any :
          Sent(d, any)' <=> Sent(d, any) \/ (d = c /\ any = f.frame /\ f.frame[1] # "typing")
    BY <1>3, <1>8, SentAfter DEF IInv
  <2>2. HandledIsStored(t)'
    <3>1. CASE Handles(t)'
      <4>1. f.frame # <<"chat_ack", cur[t]>>
        BY <1>5, <3>1
      <4>2. ~Acked(cur[t])'
        BY <1>1, <1>5, <1>6, <2>1, <3>1, <4>1 DEF Acked, Proper
      <4> QED
        BY <1>1, <1>5, <1>6, <3>1, <4>2 DEF HandledIsStored, Proper
    <3> QED
      BY <3>1 DEF HandledIsStored
  <2>3. TakenIsKnown(t)'
    <3>1. CASE f.frame[1] = "chat_message"
      <4>1. f.frame = <<"chat_message", cur[t]>>
        BY <1>3, <3>1 DEF Proper, Frames
      <4>2. Taken(cur[t])'
        BY <1>1, <2>1, <3>1, <4>1 DEF Taken
      <4> QED
        BY <1>4, <1>8, <3>1, <4>2 DEF TakenIsKnown
    <3>2. CASE f.frame[1] # "chat_message"
      <4>1. f.frame # <<"chat_message", cur[t]>>
        BY <3>2
      <4>2. Taken(cur[t])' <=> Taken(cur[t])
        BY <1>1, <2>1, <4>1 DEF Taken
      <4> QED
        BY <1>1, <1>4, <3>2, <4>2 DEF TakenIsKnown, Proper
    <3> QED
      BY <3>1, <3>2
  <2>4. TaskInv(t)'
    BY <1>7, <2>2, <2>3 DEF TaskInv
  <2> QED
    BY <1>1, <1>2, <1>3, <1>5, <1>6, <1>8, <2>4, FrameStep DEF Proper, IInv
<1>9. CASE UNCHANGED wire /\ fan'[t].sent = f.sent
  <2>1. /\ \A m : (Taken(m)' <=> Taken(m)) /\ (Acked(m)' <=> Acked(m))
        /\ MembersOwned'
    BY <1>1, <1>9, NoFrame DEF FramesInv, MembersOwned
  <2>2. HandledIsStored(t)'
    BY <1>1, <1>5, <1>6, <2>1 DEF HandledIsStored, Proper
  <2>3. TakenIsKnown(t)'
    BY <1>1, <1>4, <1>9, <2>1 DEF TakenIsKnown, Proper
  <2>4. TaskInv(t)'
    BY <1>7, <2>2, <2>3 DEF TaskInv
  <2> QED
    BY <1>1, <1>2, <1>5, <1>9, <2>1, <2>4, SilentStep DEF Proper, IInv
<1> QED
  BY <1>8, <1>9, SendMoves DEF IInv

LEMMA FanNextFrames ==
  ASSUME IInv, FramesInv, NEW t \in Tasks, NEW c \in Conns, FanNext(t, c)
  PROVE  FramesInv'
<1>1. fan[t] \in FanStates /\ TaskInv(t)
  BY DEF IInv, TypeOK, FramesInv
<1>2. /\ pc[t] = "fan" /\ UNCHANGED <<joined, registry, members, pc, cur, dbVars>>
      /\ SendOne(t, c, fan[t]) /\ c \in members[fan[t].set]
  BY DEF FanNext
<1>3. \A k : InFan(t, k) <=> fan[t].frame[1] \in k
  BY <1>2 DEF InFan
<1>4. Proper(t, fan[t])
  BY <1>1, <1>2, <1>3 DEF Proper, Handles, TaskInv, FanAddressed, TakenIsKnown, RowsFirst
<1> QED
  BY <1>1, <1>2, <1>4, SendFrames

LEMMA FanReturnFrames ==
  ASSUME IInv, FramesInv, NEW t \in Tasks, FanReturn(t)
  PROVE  FramesInv'
<1> DEFINE f == fan[t]
<1>1. /\ pc[t] = "fan" /\ f \in FanStates /\ TaskInv(t)
      /\ \A u \in Tasks \ {t} : pc'[u] = pc[u] /\ cur'[u] = cur[u] /\ fan'[u] = fan[u]
      /\ UNCHANGED <<joined, wire, cur, stored, delivered, read, logged, alone>>
      /\ \A o \in Conns : members'[o] \subseteq members[o]
  BY DEF FanReturn, Goto, dbVars, IInv, TypeOK, FramesInv
<1>2. /\ \A m : (Taken(m)' <=> Taken(m)) /\ (Acked(m)' <=> Acked(m))
      /\ MembersOwned'
  BY <1>1, NoFrame DEF FramesInv, MembersOwned
<1>3. \A k : InFan(t, k) <=> f.frame[1] \in k
  BY <1>1 DEF InFan
<1>4. pc'[t] = AfterFan(t, f.frame, f.sent)
  BY DEF FanReturn, Goto, IInv, TypeOK
<1>5. CASE f.frame[1] \in {"chat_message", "chat"}
  <2>1. /\ pc'[t] \in {"mark", "log", "reply"}
        /\ pc'[t] = "mark" => f.frame[1] = "chat_message" /\ f.sent
        /\ pc'[t] = "log" => f.frame[1] = "chat_message" /\ ~f.sent
        /\ pc'[t] = "reply" => f.frame[1] = "chat"
    BY <1>4, <1>5 DEF AfterFan
  <2>2. Handles(t) /\ \A k : ~InFan(t, k)'
    BY <1>3, <1>5, <2>1 DEF Handles, InFan
  <2>3. HandledIsStored(t)'
    BY <1>1, <1>2, <2>2 DEF TaskInv, HandledIsStored
  <2>4. FanAddressed(t)' /\ RowsFirst(t)'
    BY <1>1, <1>3, <2>1, <2>2 DEF FanAddressed, TaskInv, RowsFirst
  <2>5. TakenIsKnown(t)'
    <3>1. cur[t] \in delivered => Taken(cur[t])
      BY DEF FramesInv, DeliveredReached, Taken
    <3> QED
      BY <1>1, <1>2, <1>3, <2>1, <2>2, <3>1 DEF TaskInv, TakenIsKnown
  <2> QED
    BY <1>1, <1>2, <2>2, <2>3, <2>4, <2>5, SilentStep DEF TaskInv, IInv
<1>6. CASE f.frame[1] \notin {"chat_message", "chat"}
  <2>1. pc'[t] \in {"done", "recv"}
    BY <1>4, <1>6 DEF AfterFan
  <2> QED
    BY <1>1, <1>2, <2>1, IdleTask, SilentStep DEF IInv
<1> QED
  BY <1>5, <1>6

\* An error frame, if any, says nothing of a message.
LEMMA FanRaiseFrames ==
  ASSUME IInv, FramesInv, NEW t \in Tasks, FanRaise(t)
  PROVE  FramesInv'
<1>1. /\ pc'[t] \in {"crashed", "recv"}
      /\ \A u \in Tasks \ {t} : pc'[u] = pc[u] /\ cur'[u] = cur[u] /\ fan'[u] = fan[u]
      /\ UNCHANGED <<joined, members, cur, dbVars, stored, delivered, read, logged, alone>>
  BY DEF FanRaise, Goto, dbVars, IInv, TypeOK
<1>2. TaskInv(t)' /\ ~Handles(t)'
  BY <1>1, IdleTask
<1>3. CASE t \in Conns /\ Accepts(t, <<"error", None>>)
  <2>1. <<"error", None>> \in Frames
    BY DEF Frames
  <2> QED
    BY <1>1, <1>2, <1>3, <2>1, FrameStep DEF IInv
<1>4. CASE UNCHANGED wire
  <2>1. MembersOwned'
    BY <1>1 DEF FramesInv, MembersOwned
  <2> QED
    BY <1>1, <1>2, <1>4, <2>1, SilentStep DEF IInv
<1> QED
  BY <1>3, <1>4 DEF FanRaise

LEMMA AckFrames ==
  ASSUME IInv, FramesInv, NEW c \in Conns, Ack(c)
  PROVE  FramesInv'
<1>1. /\ c \in Tasks /\ pc[c] = "reply" /\ pc'[c] \in {"recv", "crashed"}
      /\ \A u \in Tasks \ {c} : pc'[u] = pc[u] /\ cur'[u] = cur[u] /\ fan'[u] = fan[u]
      /\ UNCHANGED <<joined, members, cur, dbVars, stored, delivered, read, logged, alone>>
  BY DEF Ack, Goto, dbVars, IInv, TypeOK, Tasks
<1>2. TaskInv(c)' /\ ~Handles(c)'
  BY <1>1, IdleTask
<1>3. Handles(c) /\ TaskInv(c)
  BY <1>1 DEF Handles, FramesInv
<1>4. /\ cur[c] \in stored /\ cur[c] \in Msgs /\ Author[cur[c]] = SpouseOf[c]
      /\ cur[c] \notin alone => cur[c] \in logged
      /\ cur[c] \in delivered <=> Taken(cur[c])
  BY <1>1, <1>3 DEF TaskInv, HandledIsStored, TakenIsKnown, RowsFirst, IInv, TypeOK
<1>5. CASE Accepts(c, <<"chat_ack", cur[c]>>)
  <2>1. <<"chat_ack", cur[c]>> \in Frames
    BY <1>4 DEF Frames
  <2> QED
    BY <1>1, <1>2, <1>3, <1>4, <1>5, <2>1, FrameStep DEF IInv
<1>6. CASE UNCHANGED wire
  <2>1. MembersOwned'
    BY <1>1 DEF FramesInv, MembersOwned
  <2> QED
    BY <1>1, <1>2, <1>6, <2>1, SilentStep DEF IInv
<1> QED
  BY <1>5, <1>6 DEF Ack

\* Handing a frame to send_to_spouse: nobody is there, or the first socket
\* takes it or raises.
LEMMA BroadcastFrames ==
  ASSUME IInv, FramesInv, NEW t \in Tasks, NEW frame \in Frames,
         SendToSpouse(t, frame),
         \/ pc[t] = "push" /\ frame = <<"chat_message", cur[t]>>
         \/ pc[t] = "ping" /\ frame = <<"chat", None>>
         \/ pc[t] = "typing" /\ frame = <<"typing", None>>
         \/ pc[t] = "tell" /\ frame = <<"chat_read", cur[t]>>
  PROVE  FramesInv'
<1>1. /\ UNCHANGED <<joined, registry, members, cur, dbVars, stored, delivered, read, logged, alone>>
      /\ \A u \in Tasks \ {t} : pc'[u] = pc[u] /\ cur'[u] = cur[u]
  BY DEF SendToSpouse, StartFan, SkipFan, Goto, dbVars, IInv, TypeOK
<1>2. TaskInv(t) /\ \A k : ~InFan(t, k)
  BY DEF FramesInv, InFan
<1>3. pc[t] \in {"push", "ping"} => Handles(t)
  BY DEF Handles
<1>4. CASE SkipFan(t, frame)
  <2>1. UNCHANGED <<wire, fan>> /\ pc'[t] = AfterFan(t, frame, FALSE)
    BY <1>4 DEF SkipFan, Goto, IInv, TypeOK
  <2>2. /\ \A m : (Taken(m)' <=> Taken(m)) /\ (Acked(m)' <=> Acked(m))
        /\ MembersOwned'
    BY <1>1, <2>1, NoFrame DEF FramesInv, MembersOwned
  <2>3. CASE pc[t] \in {"push", "ping"}
    <3>1. pc'[t] = IF pc[t] = "push" THEN "log" ELSE "reply"
      BY <2>1, <2>3 DEF AfterFan
    <3>2. \A k : ~InFan(t, k)'
      BY <3>1 DEF InFan
    <3>3. HandledIsStored(t)'
      BY <1>1, <1>2, <1>3, <2>2, <2>3 DEF TaskInv, HandledIsStored
    <3>4. FanAddressed(t)' /\ RowsFirst(t)'
      BY <1>1, <1>2, <2>3, <3>1, <3>2 DEF FanAddressed, TaskInv, RowsFirst
    <3>5. TakenIsKnown(t)'
      <4>1. cur[t] \in delivered => Taken(cur[t])
        BY DEF FramesInv, DeliveredReached, Taken
      <4> QED
        BY <1>1, <1>2, <2>2, <2>3, <3>1, <3>2, <4>1 DEF TaskInv, TakenIsKnown
    <3> QED
      BY <1>1, <1>3, <2>1, <2>2, <2>3, <3>3, <3>4, <3>5, SilentStep DEF TaskInv, IInv
  <2>4. CASE pc[t] \in {"typing", "tell"}
    <3>1. pc'[t] \in {"recv", "done"}
      BY <2>1, <2>4 DEF AfterFan
    <3>2. TaskInv(t)' /\ ~Handles(t)'
      BY <3>1, IdleTask
    <3> QED
      BY <1>1, <2>1, <2>2, <3>2, SilentStep DEF IInv
  <2> QED
    BY <2>3, <2>4
<1>5. CASE StartFan(t, frame)
  <2> DEFINE s == Target(t)
             f == [NoFan EXCEPT !.set = registry[s], !.all = Online(s), !.frame = frame]
  <2>1. PICK c \in Online(s) : SendOne(t, c, f)
    BY <1>5 DEF StartFan, NoFan
  <2>2. f.set = registry[s] /\ f.frame = frame /\ f.sent = FALSE
    BY DEF NoFan
  <2>3. /\ s \in Spouses
        /\ pc[t] \in {"push", "ping"} => s # SpouseOf[t]
        /\ pc[t] = "tell" => s = Author[cur[t]]
    BY ChatAssumption, OtherIsOther DEF Target, IInv, CurKnown
  <2>4. registry[s] \in Conns /\ c \in members[registry[s]] /\ c \in Conns
    BY <2>1, <2>3 DEF Online, IInv, TypeOK
  <2>5. f \in FanStates
    BY <2>3, <2>4 DEF NoFan, FanStates, Frames, Online, IInv, TypeOK
  <2>6. SpouseOf[f.set] = s
    BY <2>2, <2>3, <2>4, ChatAssumption DEF IInv, RegistryOwned
  <2>7. Proper(t, f)
    BY <1>2, <1>3, <2>2, <2>3, <2>4, <2>6 DEF Proper, TaskInv, TakenIsKnown, RowsFirst
  <2>8. pc'[t] = "fan"
    BY <1>5 DEF StartFan, Goto, IInv, TypeOK
  <2> HIDE DEF f, s
  <2> QED
    BY <1>1, <2>1, <2>2, <2>4, <2>5, <2>7, <2>8, SendFrames DEF f
<1> QED
  BY <1>4, <1>5 DEF SendToSpouse

LEMMA TaskFrames ==
  ASSUME IInv, FramesInv, NEW t \in Tasks, TaskStep(t)
  PROVE  FramesInv'
<1>1. CASE Push(t) \/ Ping(t) \/ RelayTyping(t) \/ TellAuthor(t)
  <2>1. pc[t] \in {"push", "tell"} => cur[t] \in Msgs
    BY DEF IInv, CurKnown
  <2>2. /\ pc[t] = "push" => <<"chat_message", cur[t]>> \in Frames
        /\ pc[t] = "tell" => <<"chat_read", cur[t]>> \in Frames
        /\ <<"chat", None>> \in Frames /\ <<"typing", None>> \in Frames
    BY <2>1 DEF Frames
  <2>3. CASE Push(t)
    BY <2>2, <2>3, BroadcastFrames DEF Push
  <2>4. CASE Ping(t)
    BY <2>2, <2>4, BroadcastFrames DEF Ping
  <2>5. CASE RelayTyping(t)
    BY <2>2, <2>5, BroadcastFrames DEF RelayTyping
  <2>6. CASE TellAuthor(t)
    BY <2>2, <2>6, BroadcastFrames DEF TellAuthor
  <2> QED
    BY <1>1, <2>3, <2>4, <2>5, <2>6
<1>2. CASE MarkDelivered(t)
  BY <1>2, DeliveredFrames
<1>3. CASE LogNotification(t) \/ WriteRead(t)
  BY <1>3, RowFrames
<1>4. CASE Respond(t)
  BY <1>4, IdleFrames
<1>5. CASE Ack(t)
  BY <1>5, AckFrames DEF Ack
<1>6. CASE FanReturn(t)
  BY <1>6, FanReturnFrames
<1>7. CASE FanRaise(t)
  BY <1>7, FanRaiseFrames
<1>8. CASE \E c \in Conns : FanNext(t, c)
  BY <1>8, FanNextFrames
<1> QED
  BY <1>1, <1>2, <1>3, <1>4, <1>5, <1>6, <1>7, <1>8 DEF TaskStep

LEMMA NextFrames ==
  ASSUME IInv, FramesInv, Next
  PROVE  FramesInv'
<1>1. ASSUME NEW t \in Tasks, TaskStep(t) PROVE FramesInv'
  BY <1>1, TaskFrames
<1>2. ASSUME NEW t \in Tasks, NEW m \in Msgs, Persist(t, m) PROVE FramesInv'
  BY <1>2, PersistFrames
<1>3. ASSUME NEW r \in Requests, NEW m \in Msgs, MarkRead(r, m) PROVE FramesInv'
  BY <1>3, IdleFrames DEF Tasks
<1>4. ASSUME NEW c \in Conns, ConnStep(c) PROVE FramesInv'
  <2>1. CASE Connect(c) \/ Disconnect(c)
    BY <2>1, RegistryFrames
  <2>2. CASE Lose(c)
    BY <2>2, SocketStep DEF Lose
  <2>3. CASE StartTyping(c) \/ AnswerRaises(c) \/ ReceiveRaises(c)
    BY <2>3, IdleFrames DEF Tasks
  <2> QED
    BY <1>4, <2>1, <2>2, <2>3 DEF ConnStep
<1>5. ASSUME NEW s \in Spouses, Join(s) PROVE FramesInv'
  BY <1>5, SocketStep DEF Join, connVars
<1> QED
  BY <1>1, <1>2, <1>3, <1>4, <1>5 DEF Next

LEMMA InitFrames == Init => FramesInv
<1> SUFFICES ASSUME Init PROVE FramesInv
  OBVIOUS
<1>1. \A c \in Conns : \A any : ~Sent(c, any)
  BY DEF Init, Sent
<1>2. FramesBacked /\ DeliveredReached /\ AckedIsNotified /\ MembersOwned
  BY <1>1 DEF Init, FramesBacked, DeliveredReached, AckedIsNotified, MembersOwned
<1>3. \A t \in Tasks : ~Handles(t) /\ TaskInv(t)
  BY DEF Init, Handles, InFan, TaskInv, FanAddressed, HandledIsStored, TakenIsKnown, RowsFirst
<1> QED
  BY <1>2, <1>3 DEF FramesInv, OneHandler

-----------------------------------------------------------------------------
LEMMA InitChatInv == Init => ChatInv
BY InitIInv, InitFrames DEF ChatInv

LEMMA NextChatInv == ChatInv /\ [Next]_serverVars => ChatInv'
<1> SUFFICES ASSUME ChatInv, [Next]_serverVars PROVE ChatInv'
  OBVIOUS
<1>1. IInv'
  BY NextIInv DEF ChatInv
<1>2. CASE Next
  BY <1>1, <1>2, NextFrames DEF ChatInv
<1>3. CASE UNCHANGED serverVars
  <2>1. UNCHANGED <<joined, members, wire, pc, cur, fan, dbVars>>
    BY <1>3 DEF serverVars, dbVars
  <2> QED
    BY <1>1, <2>1, SocketStep DEF ChatInv
<1> QED
  BY <1>2, <1>3

\* The registry, the sockets, the broadcasts under way and the handlers keep
\* in every reachable state the facts the properties rest on: set objects are
\* never shared between spouses, whoever a broadcast is going to discard is
\* really gone (manager.py:12-40), one task handles a message, and at each of
\* its awaits the rows it has written say what it is about to tell.
THEOREM Invariance == Spec => []ChatInv
<1> QED
  BY InitChatInv, NextChatInv, PTL DEF Spec

\* manager.py: for any number of connections, requests and messages, a live
\* connection stays in the set its spouse's broadcasts go to, whatever others
\* connect, disconnect or die meanwhile.
THEOREM StaysReachable == Spec => []LiveRegistered
<1>1. ChatInv => LiveRegistered
  BY DEF ChatInv, IInv
<1> QED
  BY <1>1, Invariance, PTL

\* chat.py, notifications.py: a message, its acknowledgement, its "seen" and
\* the bare ping reach only the spouse they are meant for and only after the
\* rows they tell of are committed, whichever tasks ran at the awaits between.
THEOREM ToldOnlyWhatIsCommitted == Spec => []FramesBacked
<1>1. ChatInv => FramesBacked
  BY DEF ChatInv, FramesInv
<1> QED
  BY <1>1, Invariance, PTL

\* manager.py:22-25: no message is marked as delivered unless a connection of
\* its recipient has taken it.
THEOREM DeliveredIsTrue == Spec => []DeliveredReached
<1>1. ChatInv => DeliveredReached
  BY DEF ChatInv, FramesInv
<1> QED
  BY <1>1, Invariance, PTL

\* chat.py:193-202: an author who is told that the message went through can
\* rely on the recipient's inbox row and on `delivered_at`.
THEOREM AcknowledgedIsDone == Spec => []AckedIsNotified
<1>1. ChatInv => AckedIsNotified
  BY DEF ChatInv, FramesInv
<1> QED
  BY <1>1, Invariance, PTL

-----------------------------------------------------------------------------
(* The chat as a whole.                                                    *)

-----------------------------------------------------------------------------
(* The server's part. *)

LEMMA StepOfServer == [SystemNext]_vars => [Next]_serverVars
<1>1. ServerStep => Next
  BY DEF ServerStep, Next
<1>2. ASSUME NEW c \in Conns, ClientStep(c) PROVE [Next]_serverVars
  <2>1. CASE \E r \in Requests, m \in Msgs : RequestRead(c, r, m)
    BY <2>1 DEF RequestRead, Next
  <2>2. CASE \/ FetchHistory(c) \/ FetchCached(c) \/ FetchFails(c)
             \/ ShowHistory(c) \/ ReceiveFrame(c)
             \/ \E m \in Msgs : ShowMessage(c, m) \/ RequestLost(c, m)
    BY <2>2 DEF FetchHistory, FetchCached, FetchFails, ShowHistory, ReceiveFrame,
                ShowMessage, RequestLost
  <2> QED
    BY <1>2, <2>1, <2>2 DEF ClientStep
<1> QED
  BY <1>1, <1>2 DEF SystemNext, vars

\* A step of the server other than MarkRead: whether it has to do with reading.
LEMMA NotReading ==
  ASSUME TypeOK, NEW t \in Tasks,
         \/ TaskStep(t) /\ ~WriteRead(t)
         \/ \E m \in Msgs : Persist(t, m)
         \/ t \in Conns /\ ConnStep(t)
  PROVE  /\ read' = read
         /\ \A u \in Tasks : /\ pc'[u] = "write" <=> pc[u] = "write"
                             /\ pc[u] = "write" => cur'[u] = cur[u]
<1>1. CASE Push(t) \/ Ping(t) \/ RelayTyping(t) \/ TellAuthor(t)
  <2>1. PICK frame : SendToSpouse(t, frame) /\ pc[t] \in {"push", "ping", "typing", "tell"}
    BY <1>1 DEF Push, Ping, RelayTyping, TellAuthor
  <2>2. PICK label \in PCs \ {"write"} : Goto(t, label)
    BY <2>1 DEF SendToSpouse, StartFan, SkipFan, AfterFan, PCs
  <2> QED
    BY <2>1, <2>2 DEF SendToSpouse, Goto, dbVars, TypeOK
<1>2. CASE MarkDelivered(t) \/ LogNotification(t) \/ Respond(t) \/ Ack(t)
  BY <1>2 DEF MarkDelivered, LogNotification, Respond, Ack, Goto, dbVars, TypeOK
<1>3. CASE FanReturn(t) \/ FanRaise(t) \/ \E c \in Conns : FanNext(t, c)
  <2>1. pc[t] = "fan" /\ UNCHANGED <<cur, read>>
    BY <1>3 DEF FanReturn, FanRaise, FanNext, dbVars
  <2>2. PICK label \in PCs \ {"write"} : pc' = [pc EXCEPT ![t] = label]
    <3>1. CASE FanReturn(t) \/ FanRaise(t)
      BY <3>1 DEF FanReturn, FanRaise, AfterFan, Goto, PCs
    <3>2. CASE pc' = pc
      <4>1. pc' = [pc EXCEPT ![t] = "fan"]
        BY <2>1, <3>2 DEF TypeOK
      <4> QED
        BY <4>1 DEF PCs
    <3> QED
      BY <1>3, <3>1, <3>2 DEF FanNext
  <2> QED
    BY <2>1, <2>2 DEF TypeOK
<1>4. CASE \E m \in Msgs : Persist(t, m)
  BY <1>4 DEF Persist, Goto, TypeOK
<1>5. CASE t \in Conns /\ ConnStep(t)
  BY <1>5 DEF ConnStep, Connect, Lose, Disconnect, ReceiveRaises, AnswerRaises, StartTyping,
              Goto, dbVars, TypeOK
<1> QED
  BY <1>1, <1>2, <1>3, <1>4, <1>5 DEF TaskStep

\* What the server does with requests to mark as read: a write under way stays
\* so until it is done, and nothing else makes a message read.
LEMMA ServerReads ==
  ASSUME TypeOK, ServerStep
  PROVE  /\ read \subseteq read'
         /\ \A t \in Tasks : pc'[t] = "write" => pc[t] = "write" /\ cur'[t] = cur[t]
         /\ \A m \in read' \ read : \E t \in Tasks : pc[t] = "write" /\ cur[t] = m
         /\ \A t \in Tasks : pc[t] = "write" =>
              \/ pc'[t] = "write" /\ cur'[t] = cur[t]
              \/ cur[t] \in read'
<1> DEFINE NoReading ==
             /\ read' = read
             /\ \A u \in Tasks : /\ pc'[u] = "write" <=> pc[u] = "write"
                                 /\ pc[u] = "write" => cur'[u] = cur[u]
<1>1. CASE \E t \in Tasks : WriteRead(t)
  <2>1. PICK t \in Tasks : WriteRead(t)
    BY <1>1
  <2>2. /\ pc[t] = "write" /\ read' = read \cup {cur[t]} /\ UNCHANGED cur
        /\ pc'[t] = "tell" /\ \A u \in Tasks \ {t} : pc'[u] = pc[u]
    BY <2>1 DEF WriteRead, Goto, TypeOK
  <2> QED
    BY <2>2
<1>2. ASSUME NEW t \in Tasks, TaskStep(t), ~WriteRead(t) PROVE NoReading
  BY <1>2, NotReading
<1>3. ASSUME NEW t \in Tasks, NEW m \in Msgs, Persist(t, m) PROVE NoReading
  BY <1>3, NotReading
<1>4. ASSUME NEW c \in Conns, ConnStep(c) PROVE NoReading
  BY <1>4, NotReading DEF Tasks
<1>5. CASE NoReading
  BY <1>5
<1>6. ASSUME NEW s \in Spouses, Join(s) PROVE NoReading
  BY <1>6 DEF Join, dbVars
<1> HIDE DEF NoReading
<1> QED
  BY <1>1, <1>2, <1>3, <1>4, <1>5, <1>6 DEF ServerStep

-----------------------------------------------------------------------------
(* The screens. *)

\* The parts of SystemInv the server's variables do not settle by themselves.
ClientInv ==
  /\ taken \in [Conns -> Nat]
  /\ decrypting \in [Conns -> SUBSET Msgs]
  /\ view \in [Conns -> [Msgs -> Shown]]
  /\ toMark \in [Conns -> SUBSET Msgs]
  /\ unsent \in [Conns -> SUBSET Msgs]
  /\ loading \in [Conns -> [phase : {"none", "fetched", "done", "failed"}, page : [Msgs -> Shown]]]
  /\ everShown \in [Spouses -> SUBSET Msgs]
  /\ PagesTrue /\ MarksShown /\ WritesShown /\ SeenIsTrue /\ ReceiptNotLost

LEMMA PartsOfSystemInv == SystemInv <=> ChatInv /\ ClientInv
BY DEF SystemInv, ScreensInv, ClientTypeOK, ClientInv, ChatInv, IInv

LEMMA InitClient == SystemInit => ClientInv
<1> SUFFICES ASSUME SystemInit PROVE ClientInv
  OBVIOUS
<1> USE DEF SystemInit, ClientInit, Init
<1>1. /\ taken \in [Conns -> Nat]
      /\ decrypting \in [Conns -> SUBSET Msgs]
      /\ view \in [Conns -> [Msgs -> Shown]]
      /\ toMark \in [Conns -> SUBSET Msgs]
      /\ unsent \in [Conns -> SUBSET Msgs]
      /\ loading \in [Conns -> [phase : {"none", "fetched", "done", "failed"}, page : [Msgs -> Shown]]]
      /\ everShown \in [Spouses -> SUBSET Msgs]
  BY DEF Shown, NotFetched
<1>2. PagesTrue /\ MarksShown /\ WritesShown /\ SeenIsTrue /\ ReceiptNotLost
  BY DEF NotFetched, PagesTrue, MarksShown, WritesShown, SeenIsTrue, ReceiptNotLost
<1> QED
  BY <1>1, <1>2 DEF ClientInv

LEMMA ServerKeeps ==
  ASSUME ChatInv, ClientInv, ServerStep
  PROVE  ClientInv'
<1>1. UNCHANGED <<taken, decrypting, view, toMark, unsent, loading, everShown>>
  BY DEF ServerStep, clientVars
<1>2. /\ read \subseteq read'
      /\ \A t \in Tasks : pc'[t] = "write" => pc[t] = "write" /\ cur'[t] = cur[t]
      /\ \A m \in read' \ read : \E t \in Tasks : pc[t] = "write" /\ cur[t] = m
      /\ \A t \in Tasks : pc[t] = "write" =>
           \/ pc'[t] = "write" /\ cur'[t] = cur[t]
           \/ cur[t] \in read'
  BY ServerReads DEF ChatInv, IInv
<1>3. PagesTrue' /\ MarksShown' /\ WritesShown'
  BY <1>1, <1>2 DEF ClientInv, PagesTrue, MarksShown, WritesShown
<1>4. SeenIsTrue'
  <2>1. ASSUME NEW m \in Msgs, m \in read' \ read
        PROVE  \E s \in Spouses : s # Author[m] /\ m \in everShown[s]
    <3>1. PICK t \in Tasks : pc[t] = "write" /\ cur[t] = m
      BY <1>2, <2>1
    <3>2. SpouseOf[t] \in Spouses /\ Author[m] # SpouseOf[t] /\ m \in everShown[SpouseOf[t]]
      BY <3>1, ChatAssumption DEF ClientInv, WritesShown
    <3> QED
      BY <3>2
  <2> QED
    BY <1>1, <1>2, <2>1 DEF ClientInv, SeenIsTrue
<1>5. ReceiptNotLost'
  <2> SUFFICES ASSUME NEW c \in Conns, NEW m \in Msgs, Incoming(c, m), view[c][m] # "absent"
               PROVE  \/ m \in read'
                      \/ m \in toMark[c] \cup unsent[c]
                      \/ \E r \in Requests : pc'[r] = "write" /\ cur'[r] = m
    BY <1>1 DEF ReceiptNotLost, Incoming
  <2>1. Requests \subseteq Tasks
    BY DEF Tasks
  <2>2. CASE \E r \in Requests : pc[r] = "write" /\ cur[r] = m
    <3>1. PICK r \in Requests : pc[r] = "write" /\ cur[r] = m
      BY <2>2
    <3>2. r \in Tasks
      BY <2>1
    <3>3. (pc'[r] = "write" /\ cur'[r] = cur[r]) \/ cur[r] \in read'
      BY <1>2, <3>1, <3>2
    <3> QED
      BY <3>1, <3>3
  <2>3. \/ m \in read
        \/ m \in toMark[c] \cup unsent[c]
        \/ \E r \in Requests : pc[r] = "write" /\ cur[r] = m
    BY DEF ClientInv, ReceiptNotLost
  <2> QED
    BY <1>2, <2>2, <2>3
<1> QED
  BY <1>1, <1>3, <1>4, <1>5 DEF ClientInv

\* A page from the server or from the cache says "seen" of what is read, and a
\* page that does not come says nothing new.
LEMMA FetchKeeps ==
  ASSUME ChatInv, ClientInv, NEW c \in Conns,
         FetchHistory(c) \/ FetchCached(c) \/ FetchFails(c)
  PROVE  ClientInv'
<1>1. UNCHANGED <<read, pc, cur, taken, decrypting, view, toMark, unsent, everShown>>
  BY DEF FetchHistory, FetchCached, FetchFails, serverVars
<1>2. PICK page \in [Msgs -> Shown], phase \in {"fetched", "failed"} :
        /\ loading' = [loading EXCEPT ![c] = [phase |-> phase, page |-> page]]
        /\ \A m \in Msgs : page[m] = "seen" => m \in read
  <2>1. CASE FetchHistory(c)
    <3> DEFINE fetched == [m \in Msgs |-> IF m \notin stored THEN "absent"
                                          ELSE IF m \in read THEN "seen" ELSE "unseen"]
    <3>1. loading' = [loading EXCEPT ![c] = [phase |-> "fetched", page |-> fetched]]
      BY <2>1 DEF FetchHistory
    <3>2. fetched \in [Msgs -> Shown] /\ \A m \in Msgs : fetched[m] = "seen" => m \in read
      BY DEF Shown
    <3> HIDE DEF fetched
    <3> QED
      BY <3>1, <3>2
  <2>2. CASE FetchCached(c)
    BY <2>2 DEF FetchCached
  <2>3. CASE FetchFails(c)
    <3>1. loading' = [loading EXCEPT ![c] = [phase |-> "failed", page |-> loading[c].page]]
      <4>1. loading[c] \in [phase : {"none", "fetched", "done", "failed"}, page : [Msgs -> Shown]]
        BY DEF ClientInv
      <4>2. [loading[c] EXCEPT !.phase = "failed"] = [phase |-> "failed", page |-> loading[c].page]
        BY <4>1
      <4> QED
        BY <2>3, <4>2 DEF FetchFails
    <3>2. /\ loading[c].page \in [Msgs -> Shown]
          /\ \A m \in Msgs : loading[c].page[m] = "seen" => m \in read
      BY DEF ClientInv, PagesTrue
    <3> QED
      BY <3>1, <3>2
  <2> QED
    BY <2>1, <2>2, <2>3
<1>3. /\ loading' \in [Conns -> [phase : {"none", "fetched", "done", "failed"}, page : [Msgs -> Shown]]]
      /\ loading'[c].page = page /\ \A d \in Conns \ {c} : loading'[d] = loading[d]
  BY <1>2 DEF ClientInv
<1>4. PagesTrue'
  BY <1>1, <1>2, <1>3 DEF ClientInv, PagesTrue
<1>5. MarksShown' /\ WritesShown' /\ SeenIsTrue' /\ ReceiptNotLost'
  BY <1>1 DEF ClientInv, MarksShown, WritesShown, SeenIsTrue, ReceiptNotLost, Incoming
<1> QED
  BY <1>1, <1>3, <1>4, <1>5 DEF ClientInv

LEMMA ShowHistoryKeeps ==
  ASSUME ChatInv, ClientInv, NEW c \in Conns, ShowHistory(c)
  PROVE  ClientInv'
<1> DEFINE page == loading[c].page
           unread == {m \in Msgs : Incoming(c, m) /\ page[m] = "unseen"}
           listed == {m \in Msgs : page[m] # "absent"}
<1>1. /\ UNCHANGED <<read, pc, cur, taken, decrypting>>
      /\ loading' = [loading EXCEPT ![c].phase = "done"]
      /\ view' = [view EXCEPT ![c] = page]
      /\ toMark' = [toMark EXCEPT ![c] = @ \cup unread]
      /\ unsent' = [unsent EXCEPT ![c] = @ \ unread]
      /\ everShown' = [everShown EXCEPT ![SpouseOf[c]] = @ \cup listed]
  BY DEF ShowHistory, serverVars
<1>2. SpouseOf[c] \in Spouses /\ page \in [Msgs -> Shown] /\ unread \subseteq listed
  BY ChatAssumption DEF Tasks, ClientInv
<1>3. /\ loading' \in [Conns -> [phase : {"none", "fetched", "done", "failed"}, page : [Msgs -> Shown]]]
      /\ \A d \in Conns : loading'[d].page = loading[d].page
  BY <1>1 DEF ClientInv
<1>4. /\ view' \in [Conns -> [Msgs -> Shown]]
      /\ view'[c] = page /\ \A d \in Conns \ {c} : view'[d] = view[d]
  BY <1>1, <1>2 DEF ClientInv
<1>5. /\ toMark' \in [Conns -> SUBSET Msgs] /\ unsent' \in [Conns -> SUBSET Msgs]
      /\ toMark'[c] = toMark[c] \cup unread
      /\ \A d \in Conns : d # c => toMark'[d] = toMark[d] /\ unsent'[d] = unsent[d]
  BY <1>1 DEF ClientInv
<1>6. /\ everShown' \in [Spouses -> SUBSET Msgs]
      /\ everShown'[SpouseOf[c]] = everShown[SpouseOf[c]] \cup listed
      /\ \A s \in Spouses : everShown[s] \subseteq everShown'[s]
  BY <1>1, <1>2 DEF ClientInv
<1>7. PagesTrue'
  BY <1>1, <1>3 DEF ClientInv, PagesTrue
<1>8. MarksShown'
  <2> SUFFICES ASSUME NEW d \in Conns PROVE toMark'[d] \subseteq everShown'[SpouseOf[d]]
    BY DEF MarksShown
  <2>1. SpouseOf[d] \in Spouses
    BY ChatAssumption DEF Tasks
  <2>2. toMark[d] \subseteq everShown'[SpouseOf[d]]
    BY <1>6, <2>1 DEF ClientInv, MarksShown
  <2> QED
    BY <1>2, <1>5, <1>6, <2>2
<1>9. WritesShown'
  <2>1. \A t \in Tasks : SpouseOf[t] \in Spouses
    BY ChatAssumption
  <2> QED
    BY <1>1, <1>6, <2>1 DEF ClientInv, WritesShown
<1>10. SeenIsTrue'
  <2>1. \A d \in Conns, m \in Msgs : view'[d][m] = "seen" => m \in read
    BY <1>4 DEF ClientInv, SeenIsTrue, PagesTrue
  <2> QED
    BY <1>1, <1>6, <2>1 DEF ClientInv, SeenIsTrue
<1>11. ReceiptNotLost'
  <2> SUFFICES ASSUME NEW d \in Conns, NEW m \in Msgs, Incoming(d, m), view'[d][m] # "absent"
               PROVE  \/ m \in read
                      \/ m \in toMark'[d] \cup unsent'[d]
                      \/ \E r \in Requests : pc[r] = "write" /\ cur[r] = m
    BY <1>1 DEF ReceiptNotLost, Incoming
  <2>1. CASE d = c
    <3>1. page[m] \in {"seen", "unseen"}
      BY <1>2, <1>4, <2>1 DEF Shown
    <3> QED
      BY <1>5, <2>1, <3>1 DEF ClientInv, PagesTrue
  <2>2. CASE d # c
    <3>1. view'[d] = view[d] /\ toMark'[d] = toMark[d] /\ unsent'[d] = unsent[d]
      BY <1>4, <1>5, <2>2
    <3> QED
      BY <3>1 DEF ClientInv, ReceiptNotLost
  <2> QED
    BY <2>1, <2>2
<1> QED
  BY <1>1, <1>3, <1>4, <1>5, <1>6, <1>7, <1>8, <1>9, <1>10, <1>11 DEF ClientInv

\* A frame: chat_read was sent for a message that is committed as read.
LEMMA FrameKeeps ==
  ASSUME ChatInv, ClientInv, NEW c \in Conns, ReceiveFrame(c)
  PROVE  ClientInv'
<1> DEFINE frame == wire[c][taken[c] + 1]
           m == frame[2]
<1>1. /\ UNCHANGED <<read, pc, cur, toMark, unsent, loading, everShown>>
      /\ taken' = [taken EXCEPT ![c] = @ + 1]
  BY DEF ReceiveFrame, serverVars
<1>2. frame \in Frames /\ Sent(c, frame)
  <2>1. wire[c] \in Seq(Frames) /\ taken[c] \in Nat /\ taken[c] < Len(wire[c])
    BY DEF ReceiveFrame, ChatInv, IInv, TypeOK, ClientInv
  <2>2. taken[c] + 1 \in 1 .. Len(wire[c])
    BY <2>1
  <2> QED
    BY <2>1, <2>2 DEF Sent
<1>3. CASE frame[1] = "chat_read"
  <2>1. m \in Msgs /\ frame = <<"chat_read", m>>
    BY <1>2, <1>3 DEF Frames
  <2>2. m \in read
    BY <1>2, <2>1 DEF ChatInv, FramesInv, FramesBacked
  <2>3. /\ UNCHANGED decrypting
        /\ view' = IF view[c][m] = "absent" THEN view ELSE [view EXCEPT ![c][m] = "seen"]
    BY <1>3 DEF ReceiveFrame
  <2>4. /\ view' \in [Conns -> [Msgs -> Shown]]
        /\ \A d \in Conns, n \in Msgs :
             /\ view'[d][n] = "absent" <=> view[d][n] = "absent"
             /\ view'[d][n] = "seen" => view[d][n] = "seen" \/ n = m
    <3> HIDE DEF m
    <3> QED
      BY <2>1, <2>3 DEF ClientInv, Shown
  <2>5. taken' \in [Conns -> Nat]
    BY <1>1 DEF ClientInv
  <2>6. SeenIsTrue'
    <3> HIDE DEF m
    <3> QED
      BY <1>1, <2>2, <2>4 DEF ClientInv, SeenIsTrue
  <2>7. ReceiptNotLost'
    <3>1. UNCHANGED <<read, pc, cur, toMark, unsent>>
      BY <1>1
    <3>2. \A d \in Conns, n \in Msgs : view'[d][n] = "absent" <=> view[d][n] = "absent"
      BY <2>4
    <3> HIDE DEF m, frame
    <3> QED
      BY <3>1, <3>2 DEF ClientInv, ReceiptNotLost, Incoming
  <2>8. PagesTrue' /\ MarksShown' /\ WritesShown'
    BY <1>1 DEF ClientInv, PagesTrue, MarksShown, WritesShown
  <2> QED
    BY <1>1, <2>3, <2>4, <2>5, <2>6, <2>7, <2>8 DEF ClientInv
<1>4. CASE frame[1] # "chat_read"
  <2>1. view' = view /\ decrypting' \in [Conns -> SUBSET Msgs]
    <3>1. CASE frame[1] \in {"chat_message", "chat_ack"}
      <4>1. m \in Msgs
        BY <1>2, <3>1 DEF Frames
      <4>2. view' = view /\ decrypting' = [decrypting EXCEPT ![c] = @ \cup {m}]
        BY <1>4, <3>1 DEF ReceiveFrame
      <4> QED
        BY <4>1, <4>2 DEF ClientInv
    <3>2. CASE frame[1] \notin {"chat_message", "chat_ack"}
      <4>1. UNCHANGED <<view, decrypting>>
        BY <1>4, <3>2 DEF ReceiveFrame
      <4> QED
        BY <4>1 DEF ClientInv
    <3> QED
      BY <3>1, <3>2
  <2>2. taken' \in [Conns -> Nat]
    BY <1>1 DEF ClientInv
  <2>3. SeenIsTrue' /\ ReceiptNotLost' /\ PagesTrue' /\ MarksShown' /\ WritesShown'
    BY <1>1, <2>1 DEF ClientInv, SeenIsTrue, ReceiptNotLost, Incoming, PagesTrue, MarksShown, WritesShown
  <2> QED
    BY <1>1, <2>1, <2>2, <2>3 DEF ClientInv
<1> QED
  BY <1>3, <1>4

LEMMA ShowMessageKeeps ==
  ASSUME ChatInv, ClientInv, NEW c \in Conns, NEW m \in Msgs, ShowMessage(c, m)
  PROVE  ClientInv'
<1>1. /\ UNCHANGED <<read, pc, cur, taken, loading>>
      /\ decrypting' = [decrypting EXCEPT ![c] = @ \ {m}]
      /\ view' = [view EXCEPT ![c][m] = "unseen"]
      /\ everShown' = [everShown EXCEPT ![SpouseOf[c]] = @ \cup {m}]
  BY DEF ShowMessage, serverVars
<1>2. SpouseOf[c] \in Spouses
  BY ChatAssumption DEF Tasks
<1>3. /\ view' \in [Conns -> [Msgs -> Shown]]
      /\ view'[c][m] = "unseen"
      /\ \A d \in Conns, n \in Msgs : <<d, n>> # <<c, m>> => view'[d][n] = view[d][n]
  BY <1>1 DEF ClientInv, Shown
<1>4. /\ toMark' \in [Conns -> SUBSET Msgs] /\ unsent' \in [Conns -> SUBSET Msgs]
      /\ \A d \in Conns : toMark[d] \cup unsent[d] \subseteq toMark'[d] \cup unsent'[d]
      /\ \A d \in Conns : toMark'[d] \subseteq toMark[d] \cup (IF d = c THEN {m} ELSE {})
      /\ Incoming(c, m) /\ view[c][m] = "absent" => m \in toMark'[c]
  <2>1. CASE Incoming(c, m) /\ view[c][m] = "absent"
    <3>1. /\ toMark' = [toMark EXCEPT ![c] = @ \cup {m}]
          /\ unsent' = [unsent EXCEPT ![c] = @ \ {m}]
      BY <2>1 DEF ShowMessage
    <3> QED
      BY <3>1 DEF ClientInv
  <2>2. CASE ~(Incoming(c, m) /\ view[c][m] = "absent")
    <3>1. toMark' = toMark /\ unsent' = unsent
      BY <2>2 DEF ShowMessage
    <3> QED
      BY <2>2, <3>1 DEF ClientInv
  <2> QED
    BY <2>1, <2>2
<1>5. /\ everShown' \in [Spouses -> SUBSET Msgs]
      /\ m \in everShown'[SpouseOf[c]]
      /\ \A s \in Spouses : everShown[s] \subseteq everShown'[s]
  BY <1>1, <1>2 DEF ClientInv
<1>6. /\ taken' \in [Conns -> Nat] /\ decrypting' \in [Conns -> SUBSET Msgs]
      /\ loading' \in [Conns -> [phase : {"none", "fetched", "done", "failed"}, page : [Msgs -> Shown]]]
  BY <1>1 DEF ClientInv
<1>7. PagesTrue'
  BY <1>1 DEF ClientInv, PagesTrue
<1>8. MarksShown'
  <2> SUFFICES ASSUME NEW d \in Conns PROVE toMark'[d] \subseteq everShown'[SpouseOf[d]]
    BY DEF MarksShown
  <2>1. SpouseOf[d] \in Spouses
    BY ChatAssumption DEF Tasks
  <2>2. toMark[d] \subseteq everShown'[SpouseOf[d]]
    BY <1>5, <2>1 DEF ClientInv, MarksShown
  <2> QED
    BY <1>4, <1>5, <2>2
<1>9. WritesShown'
  <2>1. \A t \in Tasks : SpouseOf[t] \in Spouses
    BY ChatAssumption
  <2> QED
    BY <1>1, <1>5, <2>1 DEF ClientInv, WritesShown
<1>10. SeenIsTrue'
  <2>1. \A d \in Conns, n \in Msgs : view'[d][n] = "seen" => view[d][n] = "seen"
    BY <1>3
  <2> QED
    BY <1>1, <1>5, <2>1 DEF ClientInv, SeenIsTrue
<1>11. ReceiptNotLost'
  <2> SUFFICES ASSUME NEW d \in Conns, NEW n \in Msgs, Incoming(d, n), view'[d][n] # "absent"
               PROVE  \/ n \in read
                      \/ n \in toMark'[d] \cup unsent'[d]
                      \/ \E r \in Requests : pc[r] = "write" /\ cur[r] = n
    BY <1>1 DEF ReceiptNotLost, Incoming
  <2>1. CASE view[d][n] = "absent"
    <3>1. d = c /\ n = m
      BY <1>3, <2>1
    <3> QED
      BY <1>4, <2>1, <3>1
  <2>2. CASE view[d][n] # "absent"
    BY <1>4, <2>2 DEF ClientInv, ReceiptNotLost
  <2> QED
    BY <2>1, <2>2
<1> QED
  BY <1>3, <1>4, <1>5, <1>6, <1>7, <1>8, <1>9, <1>10, <1>11 DEF ClientInv

\* The receipt has come to the server and is being written, unless the message
\* is read already.
LEMMA RequestKeeps ==
  ASSUME ChatInv, ClientInv, NEW c \in Conns, NEW r \in Requests, NEW m \in Msgs,
         RequestRead(c, r, m)
  PROVE  ClientInv'
<1>1. /\ UNCHANGED <<read, taken, decrypting, view, unsent, loading, everShown>>
      /\ m \in toMark[c] /\ SpouseOf[r] = SpouseOf[c]
      /\ toMark' = [toMark EXCEPT ![c] = @ \ {m}]
  BY DEF RequestRead, MarkRead, dbVars
<1>2. r \in Tasks /\ c \in Tasks /\ SpouseOf[c] \in Spouses
  BY ChatAssumption DEF Tasks
<1>3. /\ pc[r] = "new" /\ cur'[r] = m
      /\ \A u \in Tasks \ {r} : pc'[u] = pc[u] /\ cur'[u] = cur[u]
      /\ pc'[r] = IF Author[m] # SpouseOf[r] /\ m \notin read THEN "write" ELSE "done"
  BY <1>2 DEF RequestRead, MarkRead, Goto, ChatInv, IInv, TypeOK
<1>4. toMark' \in [Conns -> SUBSET Msgs] /\ \A d \in Conns : toMark'[d] \subseteq toMark[d]
  BY <1>1 DEF ClientInv
<1>5. \A d \in Conns, n \in Msgs : n \in toMark[d] => n \in toMark'[d] \/ (n = m /\ d = c)
  <2>1. toMark'[c] = toMark[c] \ {m} /\ \A d \in Conns \ {c} : toMark'[d] = toMark[d]
    BY <1>1 DEF ClientInv
  <2> QED
    BY <2>1
<1>6. PagesTrue' /\ SeenIsTrue'
  BY <1>1 DEF ClientInv, PagesTrue, SeenIsTrue
<1>7. MarksShown'
  BY <1>1, <1>4 DEF ClientInv, MarksShown
<1>8. WritesShown'
  <2>1. m \in everShown[SpouseOf[r]]
    BY <1>1 DEF ClientInv, MarksShown
  <2> QED
    BY <1>1, <1>3, <2>1 DEF ClientInv, WritesShown
<1>9. ReceiptNotLost'
  <2> SUFFICES ASSUME NEW d \in Conns, NEW n \in Msgs, Incoming(d, n), view[d][n] # "absent",
                      n \notin read
               PROVE  \/ n \in toMark'[d] \cup unsent[d]
                      \/ \E q \in Requests : pc'[q] = "write" /\ cur'[q] = n
    BY <1>1 DEF ReceiptNotLost, Incoming
  <2>1. CASE \E q \in Requests : pc[q] = "write" /\ cur[q] = n
    <3>1. PICK q \in Requests : pc[q] = "write" /\ cur[q] = n
      BY <2>1
    <3> QED
      BY <1>3, <3>1 DEF Tasks
  <2>2. CASE n \in toMark[d]
    <3>1. CASE n = m /\ d = c
      BY <1>1, <1>3, <3>1 DEF Incoming
    <3> QED
      BY <1>5, <2>2, <3>1
  <2> QED
    BY <2>1, <2>2 DEF ClientInv, ReceiptNotLost
<1> QED
  BY <1>1, <1>4, <1>6, <1>7, <1>8, <1>9 DEF ClientInv

\* The receipt is lost, and known to be.
LEMMA RequestLostKeeps ==
  ASSUME ChatInv, ClientInv, NEW c \in Conns, NEW m \in Msgs, RequestLost(c, m)
  PROVE  ClientInv'
<1>1. /\ UNCHANGED <<read, pc, cur, taken, decrypting, view, loading, everShown>>
      /\ toMark' = [toMark EXCEPT ![c] = @ \ {m}]
      /\ unsent' = [unsent EXCEPT ![c] = @ \cup {m}]
  BY DEF RequestLost, serverVars
<1>2. /\ toMark' \in [Conns -> SUBSET Msgs] /\ unsent' \in [Conns -> SUBSET Msgs]
      /\ \A d \in Conns : /\ toMark'[d] \subseteq toMark[d]
                           /\ toMark[d] \cup unsent[d] \subseteq toMark'[d] \cup unsent'[d]
  BY <1>1 DEF ClientInv
<1>3. PagesTrue' /\ MarksShown' /\ WritesShown' /\ SeenIsTrue'
  BY <1>1, <1>2 DEF ClientInv, PagesTrue, MarksShown, WritesShown, SeenIsTrue
<1>4. ReceiptNotLost'
  <2> SUFFICES ASSUME NEW d \in Conns, NEW n \in Msgs, Incoming(d, n), view[d][n] # "absent"
               PROVE  \/ n \in read
                      \/ n \in toMark'[d] \cup unsent'[d]
                      \/ \E r \in Requests : pc[r] = "write" /\ cur[r] = n
    BY <1>1 DEF ReceiptNotLost, Incoming
  <2> QED
    BY <1>2 DEF ClientInv, ReceiptNotLost
<1> QED
  BY <1>1, <1>2, <1>3, <1>4 DEF ClientInv

LEMMA InitSystemInv == SystemInit => SystemInv
BY InitClient, InitChatInv, PartsOfSystemInv DEF SystemInit

LEMMA NextSystemInv == SystemInv /\ [SystemNext]_vars => SystemInv'
<1> SUFFICES ASSUME ChatInv, ClientInv, [SystemNext]_vars PROVE ChatInv' /\ ClientInv'
  BY PartsOfSystemInv DEF SystemInv, ScreensInv, ClientTypeOK, ClientInv, ChatInv, IInv
<1>1. ChatInv'
  BY StepOfServer, NextChatInv
<1>2. ASSUME NEW c \in Conns, ClientStep(c) PROVE ClientInv'
  BY <1>2, FetchKeeps, ShowHistoryKeeps, FrameKeeps, ShowMessageKeeps,
     RequestKeeps, RequestLostKeeps DEF ClientStep
<1>3. CASE UNCHANGED vars
  <2>1. UNCHANGED <<read, pc, cur, taken, decrypting, view, toMark, unsent, loading,
                    everShown>>
    BY <1>3 DEF vars, serverVars, clientVars
  <2>2. PagesTrue' /\ MarksShown' /\ WritesShown' /\ SeenIsTrue'
    BY <2>1 DEF ClientInv, PagesTrue, MarksShown, WritesShown, SeenIsTrue
  <2>3. ReceiptNotLost'
    BY <2>1 DEF ClientInv, ReceiptNotLost, Incoming
  <2>4. /\ taken' \in [Conns -> Nat] /\ decrypting' \in [Conns -> SUBSET Msgs]
        /\ view' \in [Conns -> [Msgs -> Shown]] /\ toMark' \in [Conns -> SUBSET Msgs]
        /\ unsent' \in [Conns -> SUBSET Msgs]
        /\ loading' \in [Conns -> [phase : {"none", "fetched", "done", "failed"}, page : [Msgs -> Shown]]]
        /\ everShown' \in [Spouses -> SUBSET Msgs]
    BY <2>1 DEF ClientInv
  <2> QED
    BY <1>1, <2>2, <2>3, <2>4 DEF ClientInv
<1> QED
  BY <1>1, <1>2, <1>3, ServerKeeps DEF SystemNext

-----------------------------------------------------------------------------
\* chat.py seen from the screens: the composition adds screens to the server
\* and takes nothing away, so each of its behaviours is one of the server's.
THEOREM ImplementsServer == SystemSpec => Spec
<1>1. SystemInit => Init
  BY DEF SystemInit
<1> QED
  BY <1>1, StepOfServer, PTL DEF SystemSpec, Spec

\* The server's invariant and the screens' hold in every reachable state: a
\* page fetched stays true, and whoever asks to mark a message as read has
\* been shown it and did not write it.
THEOREM SystemInvariance == SystemSpec => []SystemInv
<1> QED
  BY InitSystemInv, NextSystemInv, PTL DEF SystemSpec

\* chat_screen.dart:143-160, 205-216, 258-278: every variable of the chat keeps
\* its type, no page under way shows a tick that is not stored, and receipts
\* are sent, lost and written only for messages that were shown.
THEOREM ScreensInvariance == SystemSpec => []ScreensInv
<1>1. SystemInv => ScreensInv
  BY DEF SystemInv
<1> QED
  BY <1>1, SystemInvariance, PTL

\* chat.py:139-146, chat_screen.dart:275-278: however fetches, frames and
\* requests interleave, a "seen" tick never lies.
THEOREM TicksAreTrue == SystemSpec => []SeenIsTrue
<1>1. SystemInv => SeenIsTrue
  BY DEF SystemInv
<1> QED
  BY <1>1, SystemInvariance, PTL

\* chat_screen.dart:205-216, 275-278: an incoming message on a screen is read,
\* or its receipt is under way or being written, or this screen's own request failed.
THEOREM ReceiptsSurvive == SystemSpec => []ReceiptNotLost
<1>1. SystemInv => ReceiptNotLost
  BY DEF SystemInv
<1> QED
  BY <1>1, SystemInvariance, PTL

\* What the server tells is committed whatever the screens do.
THEOREM FramesBackedWithScreens == SystemSpec => []FramesBacked
<1> QED
  BY ImplementsServer, ToldOnlyWhatIsCommitted, PTL

-----------------------------------------------------------------------------
(* The message list of a screen (ChatHistory).                             *)

\* The least element of a set of numbers, by which the recursive function of Without
\* is reasoned about.
LEMMA LeastNatural ==
  ASSUME NEW T, T \subseteq Nat, T # {}
  PROVE  \E m \in T : \A k \in T : m <= k
<1>1. IsWellFoundedOn(OpToRel(<, Nat), Nat)
  BY NatLessThanWellFounded
<1>2. PICK m \in T : \A k \in T : ~(<<k, m>> \in OpToRel(<, Nat))
  BY <1>1, WFMin
<1>3. \A k \in T : ~(k < m)
  BY <1>2 DEF OpToRel
<1> QED
  BY <1>3

\* g keeps what is not known of the first n messages of a page; there is such a
\* function, and Without is the value of one.
Kept(page, known, g, n) ==
  g = [i \in 0 .. n |-> IF i = 0 THEN << >>
                        ELSE IF page[i] \in known THEN g[i - 1]
                        ELSE Append(g[i - 1], page[i])]

LEMMA KeptExists ==
  ASSUME NEW page, NEW known, NEW n \in Nat
  PROVE  \E g : Kept(page, known, g, n)
<1> DEFINE T == {k \in Nat : ~\E g : Kept(page, known, g, k)}
<1> SUFFICES ASSUME T # {} PROVE FALSE
  OBVIOUS
<1>1. PICK k \in T : \A j \in T : k <= j
  BY LeastNatural
<1>2. CASE k = 0
  <2> DEFINE g == [i \in 0 .. 0 |-> << >>]
  <2>1. Kept(page, known, g, 0)
    BY DEF Kept
  <2> QED
    BY <1>1, <1>2, <2>1
<1>3. CASE k # 0
  <2>1. k - 1 \in Nat /\ k - 1 \notin T
    BY <1>1, <1>3
  <2>2. PICK g : Kept(page, known, g, k - 1)
    BY <2>1
  <2> DEFINE h == [i \in 0 .. k |-> IF i < k THEN g[i]
                                    ELSE IF page[i] \in known THEN g[i - 1]
                                    ELSE Append(g[i - 1], page[i])]
  <2>3. \A i \in 0 .. k - 1 : g[i] = IF i = 0 THEN << >>
                        ELSE IF page[i] \in known THEN g[i - 1]
                        ELSE Append(g[i - 1], page[i])
    BY <2>1, <2>2 DEF Kept
  <2>4. \A i \in 0 .. k : h[i] = IF i = 0 THEN << >>
                        ELSE IF page[i] \in known THEN h[i - 1]
                        ELSE Append(h[i - 1], page[i])
    BY <1>3, <2>1, <2>3
  <2>5. Kept(page, known, h, k)
    BY <2>4 DEF Kept
  <2> QED
    BY <1>1, <2>5
<1> QED
  BY <1>2, <1>3

LEMMA WithoutIs ==
  ASSUME NEW page, NEW known, Len(page) \in Nat
  PROVE  \E g : Kept(page, known, g, Len(page)) /\ Without(page, known) = g[Len(page)]
<1> DEFINE g == CHOOSE g : Kept(page, known, g, Len(page))
<1>1. Kept(page, known, g, Len(page))
  BY KeptExists
<1>2. Without(page, known) = g[Len(page)]
  BY Zenon DEF Without, Kept
<1> QED
  BY <1>1, <1>2

Ascending(s) == \A i, j \in 1 .. Len(s) : i < j => s[i] < s[j]

\* What the first n messages of a page leave.
IsRest(rest, page, known, n) ==
  /\ rest \in Seq(Nat)
  /\ Ascending(rest)
  /\ \A k \in 1 .. Len(rest) : rest[k] \notin known /\ \E i \in 1 .. n : page[i] = rest[k]
  /\ \A i \in 1 .. n : page[i] \in known \/ \E k \in 1 .. Len(rest) : rest[k] = page[i]
  /\ (\A i \in 1 .. n : page[i] \notin known) => Len(rest) = n

LEMMA RestGrows ==
  ASSUME NEW page \in Seq(Nat), NEW known, Ascending(page), NEW n \in Nat, n < Len(page),
         NEW rest, IsRest(rest, page, known, n)
  PROVE  /\ page[n + 1] \in known => IsRest(rest, page, known, n + 1)
         /\ page[n + 1] \notin known => IsRest(Append(rest, page[n + 1]), page, known, n + 1)
<1>1. n + 1 \in 1 .. Len(page) /\ page[n + 1] \in Nat
  OBVIOUS
<1>2. rest \in Seq(Nat) /\ Len(rest) \in Nat
  BY DEF IsRest
<1>3. ASSUME page[n + 1] \in known PROVE IsRest(rest, page, known, n + 1)
  <2>1. \A k \in 1 .. Len(rest) : rest[k] \notin known /\ \E i \in 1 .. n + 1 : page[i] = rest[k]
    BY DEF IsRest
  <2>2. \A i \in 1 .. n + 1 : page[i] \in known \/ \E k \in 1 .. Len(rest) : rest[k] = page[i]
    BY <1>3 DEF IsRest
  <2>3. ~\A i \in 1 .. n + 1 : page[i] \notin known
    BY <1>3
  <2> QED
    BY <2>1, <2>2, <2>3 DEF IsRest
<1>4. ASSUME page[n + 1] \notin known PROVE IsRest(Append(rest, page[n + 1]), page, known, n + 1)
  <2> DEFINE r == Append(rest, page[n + 1])
  <2>1. /\ r \in Seq(Nat) /\ Len(r) = Len(rest) + 1 /\ r[Len(rest) + 1] = page[n + 1]
        /\ \A k \in 1 .. Len(rest) : r[k] = rest[k]
    BY <1>1, <1>2
  <2> HIDE DEF r
  <2>2. \A k \in 1 .. Len(rest) : rest[k] < page[n + 1]
    <3> SUFFICES ASSUME NEW k \in 1 .. Len(rest) PROVE rest[k] < page[n + 1]
      OBVIOUS
    <3>1. PICK i \in 1 .. n : page[i] = rest[k]
      BY DEF IsRest
    <3> QED
      BY <1>1, <3>1 DEF Ascending
  <2>3. Ascending(r)
    <3> SUFFICES ASSUME NEW i \in 1 .. Len(r), NEW j \in 1 .. Len(r), i < j PROVE r[i] < r[j]
      BY DEF Ascending
    <3>1. i \in 1 .. Len(rest) /\ j \in 1 .. Len(rest) + 1
      BY <1>2, <2>1
    <3>2. CASE j = Len(rest) + 1
      BY <2>1, <2>2, <3>1, <3>2
    <3>3. CASE j \in 1 .. Len(rest)
      BY <2>1, <3>1, <3>3 DEF IsRest, Ascending
    <3>4. j = Len(rest) + 1 \/ j \in 1 .. Len(rest)
      BY <1>2, <3>1
    <3> QED
      BY <3>2, <3>3, <3>4
  <2>4. \A k \in 1 .. Len(r) : r[k] \notin known /\ \E i \in 1 .. n + 1 : page[i] = r[k]
    <3> SUFFICES ASSUME NEW k \in 1 .. Len(r)
                 PROVE  r[k] \notin known /\ \E i \in 1 .. n + 1 : page[i] = r[k]
      OBVIOUS
    <3>1. CASE k = Len(rest) + 1
      BY <1>4, <2>1, <3>1
    <3>2. CASE k \in 1 .. Len(rest)
      <4>1. r[k] = rest[k] /\ rest[k] \notin known /\ \E i \in 1 .. n : page[i] = rest[k]
        BY <2>1, <3>2 DEF IsRest
      <4> QED
        BY <4>1
    <3> QED
      BY <1>2, <2>1, <3>1, <3>2
  <2>5. \A i \in 1 .. n + 1 : page[i] \in known \/ \E k \in 1 .. Len(r) : r[k] = page[i]
    <3> SUFFICES ASSUME NEW i \in 1 .. n + 1, page[i] \notin known
                 PROVE  \E k \in 1 .. Len(r) : r[k] = page[i]
      OBVIOUS
    <3>1. CASE i = n + 1
      BY <1>2, <2>1, <3>1
    <3>2. CASE i \in 1 .. n
      <4>1. PICK k \in 1 .. Len(rest) : rest[k] = page[i]
        BY <3>2 DEF IsRest
      <4> QED
        BY <1>2, <2>1, <4>1
    <3> QED
      BY <3>1, <3>2
  <2>6. (\A i \in 1 .. n + 1 : page[i] \notin known) => Len(r) = n + 1
    BY <2>1 DEF IsRest
  <2>7. IsRest(r, page, known, n + 1)
    BY <2>1, <2>3, <2>4, <2>5, <2>6 DEF IsRest
  <2> QED
    BY <2>7 DEF r
<1> QED
  BY <1>3, <1>4

\* Without keeps the order, drops what is known and nothing else.
LEMMA WithoutKnown ==
  ASSUME NEW page \in Seq(Nat), NEW known, Ascending(page)
  PROVE  IsRest(Without(page, known), page, known, Len(page))
<1>1. Len(page) \in Nat
  OBVIOUS
<1>2. PICK g : Kept(page, known, g, Len(page)) /\ Without(page, known) = g[Len(page)]
  BY <1>1, WithoutIs
<1>3. \A i \in 0 .. Len(page) : g[i] = IF i = 0 THEN << >>
                                       ELSE IF page[i] \in known THEN g[i - 1]
                                       ELSE Append(g[i - 1], page[i])
  BY <1>2 DEF Kept
<1> DEFINE T == {n \in 0 .. Len(page) : ~IsRest(g[n], page, known, n)}
<1>4. ASSUME T # {} PROVE FALSE
  <2>0. T \subseteq Nat
    BY <1>1
  <2>1. PICK n \in T : \A k \in T : n <= k
    BY <1>4, <2>0, LeastNatural
  <2>2. CASE n = 0
    <3>1. g[0] = << >>
      BY <1>3
    <3>2. IsRest(<< >>, page, known, 0)
      BY DEF IsRest, Ascending
    <3> QED
      BY <2>1, <2>2, <3>1, <3>2
  <2>3. CASE n # 0
    <3>1. n - 1 \in Nat /\ n - 1 < Len(page) /\ n - 1 \notin T /\ n - 1 \in 0 .. Len(page)
      BY <2>1, <2>3
    <3>2. IsRest(g[n - 1], page, known, n - 1)
      BY <3>1
    <3>3. (n - 1) + 1 = n
      BY <2>1
    <3>4. /\ page[n] \in known => IsRest(g[n - 1], page, known, n)
          /\ page[n] \notin known => IsRest(Append(g[n - 1], page[n]), page, known, n)
      BY <3>1, <3>2, <3>3, RestGrows
    <3>5. g[n] = IF page[n] \in known THEN g[n - 1] ELSE Append(g[n - 1], page[n])
      BY <1>3, <2>1, <2>3
    <3> QED
      BY <2>1, <3>4, <3>5
  <2> QED
    BY <2>2, <2>3
<1> QED
  BY <1>1, <1>2, <1>4

\* A page is the piece of the conversation right before its anchor.
LEMMA PageKnown ==
  ASSUME NEW a \in Nat, NEW limit \in Nat \ {0}
  PROVE  /\ PageBefore(a, limit) \in Seq(Nat)
         /\ Ascending(PageBefore(a, limit))
         /\ Len(PageBefore(a, limit)) = IF a = 0 THEN 0 ELSE a - Larger(1, a - limit)
         /\ \A i \in 1 .. Len(PageBefore(a, limit)) :
              PageBefore(a, limit)[i] = Larger(1, a - limit) + i - 1
<1> DEFINE lo == Larger(1, a - limit)
           n == IF a = 0 THEN 0 ELSE a - lo
<1>1. lo \in Nat \ {0} /\ n \in Nat /\ (a # 0 => lo <= a) /\ (a = 0 => lo = 1)
  BY DEF Larger
<1>2. PageBefore(a, limit) = [i \in 1 .. a - lo |-> lo + i - 1]
  BY DEF PageBefore
<1> HIDE DEF lo
<1>3. 1 .. a - lo = 1 .. n
  BY <1>1
<1>4. PageBefore(a, limit) = [i \in 1 .. n |-> lo + i - 1]
  BY <1>2, <1>3
<1>5. \A i \in 1 .. n : lo + i - 1 \in Nat
  BY <1>1
<1>6. /\ PageBefore(a, limit) \in Seq(Nat) /\ Len(PageBefore(a, limit)) = n
      /\ \A i \in 1 .. n : PageBefore(a, limit)[i] = lo + i - 1
  BY <1>1, <1>4, <1>5
<1>7. Ascending(PageBefore(a, limit))
  BY <1>1, <1>6 DEF Ascending
<1> QED
  BY <1>6, <1>7 DEF lo

LEMMA PageHolds ==
  ASSUME NEW a \in Nat, NEW limit \in Nat \ {0}, NEW m
  PROVE  (\E i \in 1 .. Len(PageBefore(a, limit)) : PageBefore(a, limit)[i] = m)
           <=> m \in Larger(1, a - limit) .. a - 1
<1> DEFINE lo == Larger(1, a - limit)
           page == PageBefore(a, limit)
<1>1. lo \in Nat \ {0} /\ (a # 0 => lo <= a) /\ (a = 0 => lo = 1)
  BY DEF Larger
<1>2. /\ Len(page) = IF a = 0 THEN 0 ELSE a - lo
      /\ \A i \in 1 .. Len(page) : page[i] = lo + i - 1
  BY PageKnown
<1> HIDE DEF lo, page
<1>3. ASSUME NEW i \in 1 .. Len(page), page[i] = m PROVE m \in lo .. a - 1
  BY <1>1, <1>2, <1>3
<1>4. ASSUME m \in lo .. a - 1 PROVE m - lo + 1 \in 1 .. Len(page) /\ page[m - lo + 1] = m
  BY <1>1, <1>2, <1>4
<1> QED
  BY <1>3, <1>4 DEF lo, page

\* What is not listed of a page, for any anchor a page may be asked for with.
LEMMA FreshKnown ==
  ASSUME NEW a \in Nat, NEW limit \in Nat \ {0}
  PROVE  /\ Fresh(PageBefore(a, limit)) \in Seq(1 .. a - 1)
         /\ Ascending(Fresh(PageBefore(a, limit)))
         /\ \A k \in 1 .. Len(Fresh(PageBefore(a, limit))) :
              Fresh(PageBefore(a, limit))[k] \in (Larger(1, a - limit) .. a - 1) \ Listed
         /\ \A m \in (Larger(1, a - limit) .. a - 1) \ Listed :
              \E k \in 1 .. Len(Fresh(PageBefore(a, limit))) : Fresh(PageBefore(a, limit))[k] = m
         /\ (Larger(1, a - limit) .. a - 1) \cap Listed = {} =>
              Len(Fresh(PageBefore(a, limit))) = Len(PageBefore(a, limit))
<1> DEFINE lo == Larger(1, a - limit)
           page == PageBefore(a, limit)
           rest == Fresh(page)
<1>1. page \in Seq(Nat) /\ Ascending(page)
  BY PageKnown
<1>2. IsRest(rest, page, Listed, Len(page))
  BY <1>1, WithoutKnown DEF Fresh
<1>3. \A m : (\E i \in 1 .. Len(page) : page[i] = m) <=> m \in lo .. a - 1
  BY PageHolds
<1>4. lo \in Nat \ {0}
  BY DEF Larger
<1> HIDE DEF lo, page, rest
<1>5. \A k \in 1 .. Len(rest) : rest[k] \in (lo .. a - 1) \ Listed
  BY <1>2, <1>3 DEF IsRest
<1>6. \A m \in (lo .. a - 1) \ Listed : \E k \in 1 .. Len(rest) : rest[k] = m
  BY <1>2, <1>3 DEF IsRest
<1>7. (lo .. a - 1) \cap Listed = {} => Len(rest) = Len(page)
  BY <1>2, <1>3 DEF IsRest
<1>8. rest \in Seq(1 .. a - 1)
  <2>1. rest \in Seq(Nat)
    BY <1>2 DEF IsRest
  <2>2. \A k \in 1 .. Len(rest) : rest[k] \in 1 .. a - 1
    BY <1>4, <1>5
  <2> QED
    BY <2>1, <2>2
<1>9. Ascending(rest)
  BY <1>2 DEF IsRest
<1> QED
  BY <1>5, <1>6, <1>7, <1>8, <1>9 DEF lo, page, rest

LEMMA Concatenated ==
  ASSUME NEW S, NEW s \in Seq(S), NEW t \in Seq(S)
  PROVE  /\ s \o t \in Seq(S)
         /\ Len(s \o t) = Len(s) + Len(t)
         /\ \A i \in 1 .. Len(s) : (s \o t)[i] = s[i]
         /\ \A i \in 1 .. Len(t) : (s \o t)[Len(s) + i] = t[i]
  OBVIOUS

LEMMA NonEmpty ==
  ASSUME NEW S, NEW s \in Seq(S)
  PROVE  /\ Len(s) \in Nat
         /\ s # << >> <=> Len(s) >= 1
         /\ s # << >> => 1 \in 1 .. Len(s) /\ s[1] \in S
         /\ \A i \in 1 .. Len(s) : s[i] \in S
  OBVIOUS

LEMMA SeqOfElements ==
  ASSUME NEW S, NEW T, NEW s \in Seq(T), \A i \in 1 .. Len(s) : s[i] \in S
  PROVE  s \in Seq(S)
  OBVIOUS

LEMMA WiderSeq ==
  ASSUME NEW S, NEW T, S \subseteq T, NEW s \in Seq(S)
  PROVE  s \in Seq(T)
  OBVIOUS

LEMMA Numbers ==
  ASSUME HistoryTypeOK
  PROVE  /\ total \in Nat /\ MaxWrites \in Nat /\ firstLoad.newest \in 0 .. total
         /\ PageSize \in Nat \ {0} /\ SearchPage \in Nat \ {0} /\ MaxPages \in Nat
         /\ list \in Seq(1 .. total) /\ more \in 0 .. total /\ opened \in 0 .. total
         /\ \A s \in Searches : search[s].anchor \in 0 .. total
<1>1. /\ MaxWrites \in Nat /\ PageSize \in Nat \ {0} /\ SearchPage \in Nat \ {0}
      /\ MaxPages \in Nat
  BY HistoryAssumption DEF HistoryAssumption
<1>2. /\ firstLoad.newest \in 0 .. total /\ total \in Nat /\ opened \in 0 .. total
      /\ list \in Seq(1 .. total) /\ more \in 0 .. total
      /\ \A s \in Searches : search[s].anchor \in 0 .. total
  BY DEF HistoryTypeOK
<1> QED
  BY <1>1, <1>2

LEMMA AppendedIs ==
  ASSUME NEW S, list \in Seq(S), NEW m \in S, list' = Append(list, m)
  PROVE  /\ Listed' = Listed \cup {m}
         /\ Len(list') = Len(list) + 1 /\ list'[Len(list) + 1] = m
         /\ \A i \in 1 .. Len(list) : list'[i] = list[i]
<1>1. /\ Len(list') = Len(list) + 1 /\ list'[Len(list) + 1] = m /\ Len(list) \in Nat
      /\ \A i \in 1 .. Len(list) : list'[i] = list[i]
  OBVIOUS
<1>2. 1 .. Len(list') = (1 .. Len(list)) \cup {Len(list) + 1}
  BY <1>1
<1> QED
  BY <1>1, <1>2 DEF Listed

\* A page put in front of the list leaves everything listed ...
LEMMA PrependedKnown ==
  ASSUME HistoryTypeOK, NEW a \in 0 .. total, NEW limit \in Nat \ {0},
         list' = Fresh(PageBefore(a, limit)) \o list
  PROVE  Listed \subseteq Listed'
<1> DEFINE fresh == Fresh(PageBefore(a, limit))
<1>1. a \in Nat /\ total \in Nat /\ list \in Seq(1 .. total)
  BY Numbers
<1>2. fresh \in Seq(1 .. total)
  <2>1. 1 .. a - 1 \subseteq 1 .. total
    BY <1>1
  <2>2. fresh \in Seq(1 .. a - 1)
    BY <1>1, FreshKnown
  <2> QED
    BY <2>1, <2>2, WiderSeq
<1>3. list' = fresh \o list
  OBVIOUS
<1> HIDE DEF fresh
<1>4. /\ Len(list') = Len(fresh) + Len(list) /\ Len(fresh) \in Nat /\ Len(list) \in Nat
      /\ \A i \in 1 .. Len(list) : list'[Len(fresh) + i] = list[i]
  BY <1>1, <1>2, <1>3, Concatenated, NonEmpty
<1>5. ASSUME NEW i \in 1 .. Len(list) PROVE list[i] \in Listed'
  <2>1. Len(fresh) + i \in 1 .. Len(list') /\ list'[Len(fresh) + i] = list[i]
    BY ONLY <1>4, i \in 1 .. Len(list)
  <2> QED
    BY <2>1 DEF Listed
<1> QED
  BY <1>5 DEF Listed

\* ... and brings no message that is on it already, whatever page it is.
LEMMA PrependedOnce ==
  ASSUME HistoryTypeOK, ListedOnce, NEW a \in 0 .. total, NEW limit \in Nat \ {0},
         list' = Fresh(PageBefore(a, limit)) \o list
  PROVE  ListedOnce'
<1> DEFINE fresh == Fresh(PageBefore(a, limit))
<1>1. a \in Nat /\ total \in Nat /\ list \in Seq(1 .. total)
  BY Numbers
<1>2. /\ fresh \in Seq(1 .. a - 1) /\ Ascending(fresh)
      /\ \A k \in 1 .. Len(fresh) : fresh[k] \notin Listed
  BY <1>1, FreshKnown
<1>3. fresh \in Seq(1 .. total)
  <2>1. 1 .. a - 1 \subseteq 1 .. total
    BY <1>1
  <2> QED
    BY <1>2, <2>1, WiderSeq
<1> HIDE DEF fresh
<1>4. /\ Len(list') = Len(fresh) + Len(list) /\ Len(fresh) \in Nat /\ Len(list) \in Nat
      /\ \A i \in 1 .. Len(fresh) : list'[i] = fresh[i] /\ fresh[i] \in Nat
      /\ \A i \in 1 .. Len(list) : list'[Len(fresh) + i] = list[i]
  <2>1. list' = fresh \o list
    BY DEF fresh
  <2> QED
    BY <1>1, <1>2, <1>3, <2>1, Concatenated, NonEmpty
<1>5. ListedOnce'
  <2> SUFFICES ASSUME NEW i \in 1 .. Len(list'), NEW j \in 1 .. Len(list'), i < j
               PROVE  list'[i] # list'[j]
    BY DEF ListedOnce
  <2>1. CASE j \in 1 .. Len(fresh)
    <3>1. i \in 1 .. Len(fresh)
      BY <1>4, <2>1
    <3> QED
      BY <1>2, <1>4, <2>1, <3>1 DEF Ascending
  <2>2. CASE i \in 1 .. Len(fresh) /\ j \notin 1 .. Len(fresh)
    <3>1. j - Len(fresh) \in 1 .. Len(list) /\ list'[j] = list[j - Len(fresh)]
      BY <1>4, <2>2
    <3>2. list'[j] \in Listed
      BY <3>1 DEF Listed
    <3> QED
      BY <1>2, <1>4, <2>2, <3>2
  <2>3. CASE i \notin 1 .. Len(fresh)
    <3>1. /\ i - Len(fresh) \in 1 .. Len(list) /\ list'[i] = list[i - Len(fresh)]
          /\ j - Len(fresh) \in 1 .. Len(list) /\ list'[j] = list[j - Len(fresh)]
          /\ i - Len(fresh) < j - Len(fresh)
      BY <1>4, <2>3
    <3> QED
      BY <3>1 DEF ListedOnce
  <2> QED
    BY <2>1, <2>2, <2>3
<1> QED
  BY <1>5

\* What is above the live messages ascends from the top of the list.
LEMMA TopIsLeast ==
  ASSUME NEW n \in Nat, list \in Seq(1 .. n), PagesInOrder,
         NEW i \in 1 .. Len(list), list[i] \notin live
  PROVE  list[1] <= list[i]
<1>1. Len(list) \in Nat /\ 1 \in 1 .. Len(list) /\ list[1] \in 1 .. n /\ list[i] \in 1 .. n
  OBVIOUS
<1>2. CASE i = 1
  BY <1>1, <1>2
<1>3. CASE 1 < i
  BY <1>1, <1>3 DEF PagesInOrder
<1> QED
  BY <1>1, <1>2, <1>3

\* A page put in front of a whole list leaves it whole, if the anchor is known.
LEMMA PagePrepended ==
  ASSUME HistoryTypeOK, ListedOnce, PagesInOrder, NoHole, FirstLoadKnown,
         Loaded, firstLoad.newest # 0, live' = live,
         NEW a \in 1 .. total, NEW limit \in Nat \ {0}, AnchorKnown(a),
         list' = Fresh(PageBefore(a, limit)) \o list
  PROVE  /\ PagesInOrder'
         /\ list' # << >> /\ list'[1] <= list[1] /\ list'[1] \notin live
         /\ list'[1] .. firstLoad.newest \subseteq Listed'
         /\ Larger(1, a - limit) .. a - 1 \subseteq Listed'
<1> DEFINE lo == Larger(1, a - limit)
           fresh == Fresh(PageBefore(a, limit))
           top == list[1]
<1>1. /\ a \in Nat /\ a \in 0 .. total /\ total \in Nat /\ list \in Seq(1 .. total)
      /\ firstLoad.newest \in 0 .. total
  BY Numbers
<1>2. /\ fresh \in Seq(1 .. a - 1) /\ Ascending(fresh)
      /\ \A k \in 1 .. Len(fresh) : fresh[k] \in (lo .. a - 1) \ Listed
      /\ \A m \in (lo .. a - 1) \ Listed : \E k \in 1 .. Len(fresh) : fresh[k] = m
  BY <1>1, FreshKnown
<1>3. fresh \in Seq(1 .. total)
  <2>1. 1 .. a - 1 \subseteq 1 .. total
    BY <1>1
  <2> QED
    BY <1>2, <2>1, WiderSeq
<1>4. lo \in Nat \ {0}
  BY <1>1 DEF Larger
<1>5. Listed \subseteq Listed'
  BY <1>1, PrependedKnown
<1>6. list' = fresh \o list
  OBVIOUS
<1> HIDE DEF fresh, lo
<1>7. /\ list' \in Seq(1 .. total)
      /\ Len(list') = Len(fresh) + Len(list) /\ Len(fresh) \in Nat /\ Len(list) \in Nat
      /\ \A i \in 1 .. Len(fresh) : list'[i] = fresh[i] /\ fresh[i] \in Nat
      /\ \A i \in 1 .. Len(list) : list'[Len(fresh) + i] = list[i]
  BY <1>1, <1>3, <1>6, Concatenated, NonEmpty
<1>8. /\ list # << >> /\ top \in 1 .. total /\ top <= firstLoad.newest /\ top \notin live
      /\ top <= a /\ a <= firstLoad.newest /\ 1 \in 1 .. Len(list)
  BY <1>1, NonEmpty DEF FirstLoadKnown, AnchorKnown
<1>9. \A m \in top .. firstLoad.newest : m \in Listed
  BY <1>8 DEF NoHole
<1>10. \A k \in 1 .. Len(fresh) : fresh[k] \in Nat /\ fresh[k] < top /\ fresh[k] \notin live
  <2> SUFFICES ASSUME NEW k \in 1 .. Len(fresh)
               PROVE  fresh[k] \in Nat /\ fresh[k] < top /\ fresh[k] \notin live
    OBVIOUS
  <2>1. fresh[k] \in lo .. a - 1 /\ fresh[k] \notin Listed /\ fresh[k] \in Nat
    BY <1>2, <1>7
  <2>2. fresh[k] \notin top .. firstLoad.newest
    BY <1>9, <2>1
  <2>3. fresh[k] < top
    BY <1>1, <1>4, <1>8, <2>1, <2>2
  <2>4. live \subseteq Listed
    BY DEF HistoryTypeOK
  <2> QED
    BY <2>1, <2>3, <2>4
<1>11. \A j \in 1 .. Len(list) : list[j] \in 1 .. total
  BY <1>1, NonEmpty
<1> HIDE DEF top
<1>12. \A j \in 1 .. Len(list) : list[j] \notin live => top <= list[j]
  BY <1>1, TopIsLeast DEF top
<1>13. PagesInOrder'
  <2> SUFFICES ASSUME NEW i \in 1 .. Len(list'), NEW j \in 1 .. Len(list'), i < j,
                      list'[j] \notin live
               PROVE  list'[i] \notin live /\ list'[i] < list'[j]
    BY DEF PagesInOrder
  <2>1. CASE j \in 1 .. Len(fresh)
    <3>1. i \in 1 .. Len(fresh)
      BY <1>7, <2>1
    <3> QED
      BY <1>2, <1>7, <1>10, <2>1, <3>1 DEF Ascending
  <2>2. CASE i \in 1 .. Len(fresh) /\ j \notin 1 .. Len(fresh)
    <3>1. j - Len(fresh) \in 1 .. Len(list) /\ list'[j] = list[j - Len(fresh)]
      BY <1>7, <2>2
    <3>2. top <= list'[j] /\ list'[j] \in 1 .. total
      BY <1>11, <1>12, <3>1
    <3>3. list'[i] \in Nat /\ list'[i] < top /\ list'[i] \notin live
      BY <1>7, <1>10, <2>2
    <3> QED
      BY <1>1, <1>8, <3>2, <3>3
  <2>3. CASE i \notin 1 .. Len(fresh)
    <3>1. /\ i - Len(fresh) \in 1 .. Len(list) /\ list'[i] = list[i - Len(fresh)]
          /\ j - Len(fresh) \in 1 .. Len(list) /\ list'[j] = list[j - Len(fresh)]
          /\ i - Len(fresh) < j - Len(fresh)
      BY <1>7, <2>3
    <3> QED
      BY <3>1 DEF PagesInOrder
  <2> QED
    BY <2>1, <2>2, <2>3
<1>14. Len(list') >= 1 /\ list' # << >> /\ list'[1] \in 1 .. total
  <2>1. Len(list') >= 1
    BY <1>7, <1>8
  <2> QED
    BY <1>7, <2>1, NonEmpty
<1>15. /\ list'[1] <= top /\ list'[1] \notin live
       /\ \A m \in list'[1] .. top - 1 : m \in lo .. a - 1
  <2>1. CASE Len(fresh) = 0
    <3>1. list'[1] = top
      BY <1>7, <1>8, <2>1 DEF top
    <3> QED
      BY <1>8, <3>1
  <2>2. CASE Len(fresh) # 0
    <3>1. 1 \in 1 .. Len(fresh)
      BY <1>7, <2>2
    <3>2. list'[1] = fresh[1] /\ fresh[1] \in lo .. a - 1 /\ fresh[1] < top /\ fresh[1] \notin live
      BY <1>2, <1>7, <1>10, <3>1
    <3> QED
      BY <1>1, <1>4, <1>8, <3>2
  <2> QED
    BY <2>1, <2>2
<1>16. lo .. a - 1 \subseteq Listed'
  <2> SUFFICES ASSUME NEW m \in lo .. a - 1, m \notin Listed PROVE m \in Listed'
    BY <1>5
  <2>1. PICK k \in 1 .. Len(fresh) : fresh[k] = m
    BY <1>2
  <2>2. k \in 1 .. Len(list') /\ list'[k] = m
    BY <1>7, <2>1
  <2> QED
    BY <2>2 DEF Listed
<1>17. list'[1] .. firstLoad.newest \subseteq Listed'
  <2> SUFFICES ASSUME NEW m \in list'[1] .. firstLoad.newest PROVE m \in Listed'
    OBVIOUS
  <2>1. m \in Int /\ list'[1] <= m /\ m <= firstLoad.newest
    BY <1>1, <1>14
  <2>2. CASE m < top
    <3>1. m \in list'[1] .. top - 1
      BY <1>1, <1>8, <1>14, <2>1, <2>2
    <3> QED
      BY <1>15, <1>16, <3>1
  <2>3. CASE top <= m
    <3>1. m \in top .. firstLoad.newest
      BY <1>1, <1>8, <2>1, <2>3
    <3> QED
      BY <1>5, <1>9, <3>1
  <2> QED
    BY <1>8, <2>1, <2>2, <2>3
<1> QED
  BY <1>13, <1>14, <1>15, <1>16, <1>17 DEF top, lo

LEMMA HistoryInitTyped == HistoryInit => HistoryTypeOK
<1> SUFFICES ASSUME HistoryInit PROVE HistoryTypeOK
  OBVIOUS
<1>1. total \in Nat /\ opened \in 0 .. total /\ MaxPages \in Nat
  BY HistoryAssumption DEF HistoryInit, HistoryAssumption
<1>2. search \in [Searches -> [state : {"idle", "asked", "found", "not found",
                                      "gave up", "failed"},
                             anchor : 0 .. total, pages : 0 .. MaxPages]]
  <2>1. /\ NotSearching \in [state : {"idle", "asked", "found", "not found",
                                    "gave up", "failed"},
                           anchor : 0 .. total, pages : 0 .. MaxPages]
        /\ search = [s \in Searches |-> NotSearching]
    BY <1>1 DEF HistoryInit, NotSearching, Idle
  <2> QED
    BY <2>1
<1>3. list \in Seq(1 .. total) /\ live \subseteq Listed \cap (opened + 1 .. total)
  BY DEF HistoryInit
<1>4. /\ firstLoad \in [state : {"asked", "answered", "done", "failed"}, newest : 0 .. total]
      /\ hasMore \in BOOLEAN /\ early \in BOOLEAN /\ more \in 0 .. total
  <2>1. 0 \in 0 .. total
    BY <1>1
  <2>2. /\ firstLoad = [state |-> "asked", newest |-> 0] /\ more = 0
        /\ hasMore = TRUE /\ early = FALSE
    BY DEF HistoryInit, Idle
  <2> QED
    BY <2>1, <2>2
<1> QED
  BY <1>1, <1>2, <1>3, <1>4 DEF HistoryTypeOK

LEMMA SearchStateTyped ==
  ASSUME NEW n \in Nat, NEW messages \in Seq(1 .. n), NEW moreHistory \in BOOLEAN,
         NEW pages \in 0 .. MaxPages, MaxPages \in Nat
  PROVE  /\ SearchState(messages, moreHistory, pages) \in
              [state : {"idle", "asked", "found", "not found", "gave up", "failed"},
               anchor : 0 .. n, pages : 0 .. MaxPages]
         /\ SearchState(messages, moreHistory, pages).state = "asked" =>
              /\ messages # << >> /\ moreHistory
              /\ SearchState(messages, moreHistory, pages).anchor = messages[1]
<1>1. messages # << >> => messages[1] \in 1 .. n
  BY NonEmpty
<1>2. pages < MaxPages => pages + 1 \in 0 .. MaxPages
  OBVIOUS
<1> QED
  BY <1>1, <1>2 DEF SearchState, Idle

\* A page put in front of the list leaves a list.
LEMMA PrependTyped ==
  ASSUME HistoryTypeOK, NEW a \in 0 .. total, NEW limit \in Nat \ {0}
  PROVE  Fresh(PageBefore(a, limit)) \o list \in Seq(1 .. total)
<1>1. a \in Nat /\ list \in Seq(1 .. total) /\ 1 .. a - 1 \subseteq 1 .. total
  BY Numbers
<1>2. Fresh(PageBefore(a, limit)) \in Seq(1 .. a - 1)
  BY <1>1, FreshKnown
<1> QED
  BY <1>1, <1>2, WiderSeq, Concatenated

LEMMA HistoryTypeStep == HistoryTypeOK /\ [HistoryNext]_historyVars => HistoryTypeOK'
<1> SUFFICES ASSUME HistoryTypeOK, [HistoryNext]_historyVars PROVE HistoryTypeOK'
  OBVIOUS
<1>0. /\ total \in Nat /\ MaxWrites \in Nat /\ firstLoad.newest \in 0 .. total
      /\ PageSize \in Nat \ {0} /\ SearchPage \in Nat \ {0} /\ MaxPages \in Nat
      /\ list \in Seq(1 .. total) /\ more \in 0 .. total /\ opened \in 0 .. total
      /\ \A s \in Searches : search[s].anchor \in 0 .. total
  BY Numbers
<1> DEFINE States == {"idle", "asked", "found", "not found", "gave up", "failed"}
           Progress == [state : States, anchor : 0 .. total, pages : 0 .. MaxPages]
           Load == [state : {"asked", "answered", "done", "failed"}, newest : 0 .. total]
<1>a. /\ live \subseteq Listed /\ live \subseteq opened + 1 .. total
      /\ firstLoad \in Load /\ early \in BOOLEAN
      /\ hasMore \in BOOLEAN /\ search \in [Searches -> Progress]
  BY DEF HistoryTypeOK
<1>b. ASSUME opened' = opened, total' = total, live' \subseteq Listed',
             live' \subseteq opened + 1 .. total, list' \in Seq(1 .. total),
             firstLoad' \in Load, hasMore' \in BOOLEAN, more' \in 0 .. total,
             search' \in [Searches -> Progress], early' \in BOOLEAN
      PROVE  HistoryTypeOK'
  BY <1>0, <1>b DEF HistoryTypeOK
<1>c. list' = list => Listed' = Listed
  BY DEF Listed
<1>1. CASE Write
  <2>1. total' = total + 1 /\ total' \in Nat /\ opened' \in 0 .. total'
    BY <1>0, <1>1 DEF Write
  <2>2. 0 .. total \subseteq 0 .. total' /\ 1 .. total \subseteq 1 .. total'
        /\ opened + 1 .. total \subseteq opened + 1 .. total'
    BY <1>0, <2>1
  <2>3. /\ list' = list /\ live' = live /\ firstLoad' = firstLoad /\ hasMore' = hasMore
        /\ more' = more /\ search' = search /\ early' = early /\ opened' = opened
    BY <1>1 DEF Write
  <2>4. list' \in Seq(1 .. total')
    BY <1>0, <2>2, <2>3, WiderSeq
  <2>5. live' \subseteq Listed' /\ live' \subseteq opened' + 1 .. total'
    BY <1>a, <1>c, <2>2, <2>3
  <2>6. search' \in [Searches -> [state : States, anchor : 0 .. total', pages : 0 .. MaxPages]]
    BY <1>a, <2>2, <2>3
  <2>7. firstLoad' \in [state : {"asked", "answered", "done", "failed"}, newest : 0 .. total']
    BY <1>a, <2>2, <2>3
  <2>8. more' \in 0 .. total' /\ hasMore' \in BOOLEAN /\ early' \in BOOLEAN
    BY <1>0, <1>a, <2>2, <2>3
  <2> QED
    BY <2>1, <2>4, <2>5, <2>6, <2>7, <2>8 DEF HistoryTypeOK
<1>2. ASSUME NEW m \in 1 .. total, Arrive(m) PROVE HistoryTypeOK'
  <2>1. /\ list' = Append(list, m) /\ live' = live \cup {m} /\ m \in opened + 1 .. total
        /\ UNCHANGED <<total, opened, firstLoad, hasMore, more, search, early>>
    BY <1>2 DEF Arrive
  <2>2. list' \in Seq(1 .. total)
    BY <1>0, <2>1
  <2>3. Listed' = Listed \cup {m}
    BY <1>0, <2>1, AppendedIs
  <2> QED
    BY <1>0, <1>a, <1>b, <2>1, <2>2, <2>3
<1>3. CASE AnswerFirstLoad
  <2>1. firstLoad' \in Load
    BY <1>0, <1>3 DEF AnswerFirstLoad
  <2> QED
    BY <1>0, <1>3, <1>a, <1>b, <1>c, <2>1 DEF AnswerFirstLoad
<1>4. CASE TakeCachedPage
  <2>1. firstLoad' \in Load
    BY <1>0, <1>4 DEF TakeCachedPage
  <2> QED
    BY <1>0, <1>4, <1>a, <1>b, <1>c, <2>1 DEF TakeCachedPage
<1>5. CASE FirstLoadFails
  <2>1. firstLoad' \in Load
    BY <1>5, <1>a DEF FirstLoadFails
  <2> QED
    BY <1>0, <1>5, <1>a, <1>b, <1>c, <2>1 DEF FirstLoadFails
<1>6. CASE ApplyFirstLoad
  <2> DEFINE n == firstLoad.newest + 1
             page == PageBefore(n, PageSize)
  <2>1. n \in Nat /\ n - 1 \in 0 .. total
    BY <1>0
  <2>2. page \in Seq(Nat) /\ \A i \in 1 .. Len(page) : page[i] \in 1 .. total
    <3>1. page \in Seq(Nat)
      BY <1>0, <2>1, PageKnown
    <3>2. \A i \in 1 .. Len(page) : page[i] \in Larger(1, n - PageSize) .. n - 1
      BY <1>0, <2>1, PageHolds
    <3>3. Larger(1, n - PageSize) >= 1 /\ Larger(1, n - PageSize) \in Int
      BY <1>0, <2>1 DEF Larger
    <3> HIDE DEF n, page
    <3> QED
      BY <1>0, <2>1, <3>1, <3>2, <3>3
  <2>3. page \in Seq(1 .. total)
    BY <2>2, SeqOfElements
  <2>4. list' = page /\ live' = {} /\ hasMore' \in BOOLEAN
    BY <1>6 DEF ApplyFirstLoad
  <2>5. firstLoad' \in Load
    BY <1>6, <1>a DEF ApplyFirstLoad
  <2> HIDE DEF page, n
  <2> QED
    BY <1>0, <1>6, <1>a, <1>b, <2>3, <2>4, <2>5 DEF ApplyFirstLoad
<1>7. CASE AskMore
  <2>1. list[1] \in 0 .. total
    BY <1>0, <1>7, NonEmpty DEF AskMore
  <2> QED
    BY <1>0, <1>7, <1>a, <1>b, <1>c, <2>1 DEF AskMore
<1>8. CASE ApplyMore
  <2>1. list' \in Seq(1 .. total) /\ list' = Fresh(PageBefore(more, PageSize)) \o list
    BY <1>0, <1>8, PrependTyped DEF ApplyMore
  <2>2. more' \in 0 .. total /\ hasMore' \in BOOLEAN /\ live' = live
    BY <1>0, <1>8 DEF ApplyMore, Idle
  <2>3. Listed \subseteq Listed'
    BY <1>0, <2>1, PrependedKnown
  <2> QED
    BY <1>0, <1>8, <1>a, <1>b, <2>1, <2>2, <2>3 DEF ApplyMore
<1>9. CASE MoreFails
  <2>1. more' \in 0 .. total
    BY <1>0, <1>9 DEF MoreFails, Idle
  <2> QED
    BY <1>0, <1>9, <1>a, <1>b, <1>c, <2>1 DEF MoreFails
<1>10. ASSUME NEW s \in Searches, StartSearch(s) PROVE HistoryTypeOK'
  <2>0. 0 \in 0 .. MaxPages
    BY <1>0
  <2>1. SearchState(list, hasMore, 0) \in Progress
    BY <1>0, <1>a, <2>0, SearchStateTyped, Zenon
  <2>2. search' \in [Searches -> Progress]
    BY <1>10, <1>a, <2>1 DEF StartSearch
  <2>3. early' \in BOOLEAN
    BY <1>10, <1>a DEF StartSearch
  <2> QED
    BY <1>0, <1>10, <1>a, <1>b, <1>c, <2>2, <2>3 DEF StartSearch
<1>11. ASSUME NEW s \in Searches, ApplySearchPage(s) PROVE HistoryTypeOK'
  <2> DEFINE older == PageBefore(search[s].anchor, SearchPage)
             moreHistory == Len(older) >= SearchPage
  <2>1. list' = Fresh(older) \o list /\ hasMore' = moreHistory
    BY <1>11, Zenon DEF ApplySearchPage
  <2>2. list' \in Seq(1 .. total)
    BY <1>0, <2>1, PrependTyped
  <2>3. search[s].pages \in 0 .. MaxPages
    BY <1>a
  <2>4. hasMore' \in BOOLEAN
    BY <2>1
  <2>5. SearchState(list', hasMore', search[s].pages) \in Progress
    BY <1>0, <2>2, <2>3, <2>4, SearchStateTyped, Zenon
  <2>6. search' = [search EXCEPT ![s] =
          IF older = << >>
            THEN [state |-> "not found", anchor |-> Idle, pages |-> search[s].pages]
            ELSE SearchState(list', hasMore', search[s].pages)]
    BY <1>11 DEF ApplySearchPage
  <2>7. [state |-> "not found", anchor |-> Idle, pages |-> search[s].pages] \in Progress
    BY <1>0, <2>3 DEF Idle
  <2>8. search' \in [Searches -> Progress]
    BY <1>a, <2>5, <2>6, <2>7
  <2>9. Listed \subseteq Listed'
    BY <1>0, <2>1, PrependedKnown
  <2> QED
    BY <1>0, <1>11, <1>a, <1>b, <2>2, <2>4, <2>8, <2>9 DEF ApplySearchPage
<1>12. ASSUME NEW s \in Searches, SearchFails(s) PROVE HistoryTypeOK'
  <2>0. search[s] \in Progress /\ Idle \in 0 .. total
    <3>1. search[s] \in Progress
      BY <1>a
    <3>2. Idle \in 0 .. total
      BY <1>0 DEF Idle
    <3> QED
      BY <3>1, <3>2
  <2>1. [search[s] EXCEPT !.state = "failed", !.anchor = Idle] \in Progress
    BY <2>0
  <2>2. search' \in [Searches -> Progress]
    BY <1>12, <1>a, <2>1 DEF SearchFails
  <2> QED
    BY <1>0, <1>12, <1>a, <1>b, <1>c, <2>2 DEF SearchFails
<1>13. CASE UNCHANGED historyVars
  BY <1>13, <1>c DEF historyVars, HistoryTypeOK
<1> QED
  BY <1>1, <1>2, <1>3, <1>4, <1>5, <1>6, <1>7, <1>8, <1>9, <1>10, <1>11, <1>12, <1>13
     DEF HistoryNext

LEMMA HistoryInitInv == HistoryInit => HistoryInv
<1> SUFFICES ASSUME HistoryInit PROVE HistoryInv
  OBVIOUS
<1>1. HistoryTypeOK
  BY HistoryInitTyped
<1>2. /\ list = << >> /\ Len(list) = 0 /\ live = {} /\ more = Idle /\ ~Loaded /\ ~early
      /\ \A s \in Searches : search[s].state = "idle"
  BY DEF HistoryInit, Loaded, NotSearching
<1>3. Listed = {}
  BY <1>2 DEF Listed
<1> QED
  BY <1>1, <1>2, <1>3 DEF HistoryInv, ListIsWhole, ListedOnce, PagesInOrder, NoHole,
                          FirstLoadKnown, AnchorsKnown, ScrollsInTurn

\* The top of the list is an anchor that is known.
LEMMA TopKnown ==
  ASSUME HistoryInv, ~early, Loaded, list # << >>, hasMore
  PROVE  firstLoad.newest # 0 /\ AnchorKnown(list[1])
<1>1. firstLoad.newest # 0
  BY DEF HistoryInv, FirstLoadKnown
<1>2. list[1] \in 1 .. total /\ total \in Nat
  BY Numbers, NonEmpty DEF HistoryInv
<1> QED
  BY <1>1, <1>2 DEF HistoryInv, FirstLoadKnown, AnchorKnown

\* Steps that leave the list alone: what they ask for, they ask for from its top.
LEMMA ListStays ==
  ASSUME HistoryInv, HistoryTypeOK', UNCHANGED <<list, live, hasMore>>,
         firstLoad' = firstLoad \/ (~Loaded /\ ~Loaded'),
         early => early',
         NeverSearched' => NeverSearched /\ ~early',
         ~early' => \/ more' = more \/ more' = Idle
                    \/ Loaded /\ hasMore /\ list # << >> /\ more' = list[1],
         ~early' => \A s \in Searches : search'[s].state = "asked" =>
                      \/ search[s].state = "asked" /\ search'[s].anchor = search[s].anchor
                      \/ Loaded /\ hasMore /\ list # << >> /\ search'[s].anchor = list[1]
  PROVE  HistoryInv'
<1> USE DEF HistoryInv
<1>1. Listed' = Listed
  BY DEF Listed
<1>2. Loaded' = Loaded
  BY DEF Loaded
<1>3. Loaded => firstLoad' = firstLoad
  OBVIOUS
<1>4. ListIsWhole'
  <2>1. ListedOnce' /\ (PagesInOrder => PagesInOrder')
    BY DEF ListIsWhole, ListedOnce, PagesInOrder
  <2>2. NoHole => NoHole'
    BY <1>1, <1>2, <1>3 DEF NoHole
  <2> QED
    BY <2>1, <2>2 DEF ListIsWhole
<1>5. ASSUME ~early' PROVE FirstLoadKnown' /\ AnchorsKnown'
  <2>1. ~early /\ FirstLoadKnown /\ AnchorsKnown
    BY <1>5
  <2>2. Loaded /\ hasMore /\ list # << >> => firstLoad.newest # 0 /\ AnchorKnown(list[1])
    BY <2>1, TopKnown
  <2>3. FirstLoadKnown'
    BY <1>1, <1>2, <1>3, <1>5, <2>1, <2>2 DEF FirstLoadKnown
  <2>4. AnchorsKnown'
    <3>1. ASSUME NEW a, Loaded, AnchorKnown(a) PROVE list'[1] <= a /\ a <= firstLoad'.newest
      BY <1>3, <3>1 DEF AnchorKnown
    <3>2. more' # Idle => list'[1] <= more' /\ more' <= firstLoad'.newest
      <4>1. more' # Idle => Loaded /\ AnchorKnown(more')
        BY <1>5, <2>1, <2>2 DEF AnchorsKnown, FirstLoadKnown
      <4> QED
        BY <3>1, <4>1
    <3>3. ASSUME NEW s \in Searches, search'[s].state = "asked"
          PROVE  list'[1] <= search'[s].anchor /\ search'[s].anchor <= firstLoad'.newest
      <4>1. Loaded /\ AnchorKnown(search'[s].anchor)
        BY <1>5, <2>1, <2>2, <3>3 DEF AnchorsKnown, FirstLoadKnown
      <4> QED
        BY <3>1, <4>1
    <3> QED
      BY <3>2, <3>3 DEF AnchorsKnown, AnchorKnown
  <2> QED
    BY <2>3, <2>4
<1>6. ScrollsInTurn'
  <2> SUFFICES ASSUME NeverSearched', Loaded', firstLoad'.newest # 0
               PROVE  /\ more' # Idle => more' = list'[1]
                      /\ hasMore' \/ list'[1] = 1 \/ LateFrame'
    BY DEF ScrollsInTurn
  <2>1. NeverSearched /\ Loaded /\ firstLoad.newest # 0 /\ ~early'
    BY <1>2, <1>3
  <2>2. LateFrame' <=> LateFrame
    BY <1>2, <1>3, <2>1 DEF LateFrame
  <2> QED
    BY <2>1, <2>2 DEF ScrollsInTurn
<1> QED
  BY <1>4, <1>5, <1>6

LEMMA ArriveKeeps ==
  ASSUME NEW m \in 1 .. total
  PROVE  HistoryInv /\ HistoryTypeOK' /\ Arrive(m) => HistoryInv'
<1> SUFFICES ASSUME HistoryInv, HistoryTypeOK', Arrive(m) PROVE HistoryInv'
  OBVIOUS
<1> USE DEF HistoryInv
<1>1. /\ m \notin Listed /\ list' = Append(list, m) /\ live' = live \cup {m}
      /\ UNCHANGED <<total, firstLoad, hasMore, more, search, early>>
  BY DEF Arrive
<1>2. /\ list \in Seq(1 .. total) /\ total \in Nat /\ Len(list) \in Nat
      /\ firstLoad.newest \in 0 .. total
  BY Numbers, NonEmpty
<1>3. /\ Listed' = Listed \cup {m}
      /\ Len(list') = Len(list) + 1 /\ list'[Len(list) + 1] = m
      /\ \A i \in 1 .. Len(list) : list'[i] = list[i]
  BY <1>1, <1>2, AppendedIs
<1>4. Loaded' = Loaded /\ NeverSearched' = NeverSearched
  BY <1>1 DEF Loaded, NeverSearched
<1>5. \A i \in 1 .. Len(list) : list[i] \in Listed
  BY DEF Listed
<1>6. 1 .. Len(list') = (1 .. Len(list)) \cup {Len(list) + 1}
  BY <1>2, <1>3
<1>7. list # << >> => list'[1] = list[1] /\ list[1] # m
  BY <1>1, <1>2, <1>3, <1>5, NonEmpty
<1>8. ListedOnce'
  BY <1>1, <1>2, <1>3, <1>5, <1>6 DEF ListIsWhole, ListedOnce
<1>9. ASSUME ~early PROVE PagesInOrder' /\ NoHole'
  <2>1. PagesInOrder'
    BY <1>1, <1>2, <1>3, <1>5, <1>6, <1>9 DEF ListIsWhole, PagesInOrder
  <2>2. NoHole'
    <3> SUFFICES ASSUME Loaded PROVE list'[1] .. firstLoad.newest \subseteq Listed'
      BY <1>1, <1>4 DEF NoHole
    <3>1. CASE list # << >>
      BY <1>3, <1>7, <1>9, <3>1 DEF ListIsWhole, NoHole
    <3>2. CASE list = << >>
      <4>1. firstLoad.newest = 0 /\ list'[1] = m
        BY <1>2, <1>3, <1>9, <3>2 DEF FirstLoadKnown
      <4> QED
        BY <4>1, <1>2
    <3> QED
      BY <3>1, <3>2
  <2> QED
    BY <2>1, <2>2
<1>10. ASSUME ~early PROVE FirstLoadKnown' /\ AnchorsKnown'
  <2>1. FirstLoadKnown'
    <3>1. list' # << >>
      BY <1>2, <1>3
    <3>2. Listed = live => Listed' = live'
      BY <1>1, <1>3
    <3> QED
      BY <1>1, <1>4, <1>7, <1>10, <3>1, <3>2 DEF FirstLoadKnown
  <2>2. more # Idle \/ (\E s \in Searches : search[s].state = "asked") => list # << >>
    BY <1>10 DEF FirstLoadKnown
  <2>3. AnchorsKnown'
    BY <1>1, <1>7, <1>10, <2>2 DEF AnchorsKnown, AnchorKnown
  <2> QED
    BY <2>1, <2>3
<1>11. ScrollsInTurn'
  <2> SUFFICES ASSUME NeverSearched, Loaded, firstLoad.newest # 0
               PROVE  /\ more # Idle => more = list'[1]
                      /\ hasMore \/ list'[1] = 1 \/ LateFrame'
    BY <1>1, <1>4 DEF ScrollsInTurn
  <2>1. list # << >>
    BY DEF FirstLoadKnown
  <2>2. LateFrame => LateFrame'
    BY <1>1, <1>4 DEF LateFrame
  <2> QED
    BY <1>7, <2>1, <2>2 DEF ScrollsInTurn
<1> QED
  BY <1>1, <1>4, <1>8, <1>9, <1>10, <1>11 DEF ListIsWhole

\* Loading further back, up to where the page is put in front of the list.
LEMMA PrependKeeps ==
  ASSUME HistoryInv, HistoryTypeOK', UNCHANGED <<total, live, firstLoad, early>>,
         NEW a \in 0 .. total, NEW limit \in Nat \ {0}, ~early => a # 0 /\ Loaded /\ AnchorKnown(a),
         ~early => firstLoad.newest # 0,
         list' = Fresh(PageBefore(a, limit)) \o list
  PROVE  /\ ListIsWhole' /\ (~early => FirstLoadKnown')
         /\ ~early => list' # << >> /\ list'[1] <= list[1] /\ list'[1] \in 1 .. total
         /\ ~early => \A c \in Int : AnchorKnown(c) => AnchorKnown(c)'
         /\ ~early => AnchorKnown(list[1])'
<1> USE DEF HistoryInv
<1>1. ListedOnce'
  BY PrependedOnce DEF ListIsWhole
<1>2. Loaded' = Loaded
  BY DEF Loaded
<1>3. ASSUME ~early
      PROVE  /\ PagesInOrder'
             /\ list' # << >> /\ list'[1] <= list[1] /\ list'[1] \notin live
             /\ list'[1] .. firstLoad.newest \subseteq Listed'
  <2>1. a \in 1 .. total
    BY <1>3
  <2> QED
    BY <1>3, <2>1, PagePrepended, Zenon DEF ListIsWhole
<1>4. /\ total \in Nat /\ firstLoad.newest \in 0 .. total /\ list \in Seq(1 .. total)
      /\ (list # << >> => list[1] \in 1 .. total)
  BY Numbers, NonEmpty
<1>5. list' # << >> => list'[1] \in 1 .. total
  <2>1. list' \in Seq(1 .. total)
    BY DEF HistoryTypeOK
  <2> QED
    BY <2>1, NonEmpty
<1>6. ListIsWhole'
  BY <1>1, <1>3 DEF ListIsWhole, NoHole
<1>7. ASSUME ~early PROVE FirstLoadKnown'
  <2>1. list # << >> /\ list[1] \in 1 .. total /\ list[1] <= firstLoad.newest
    BY <1>4, <1>7 DEF FirstLoadKnown
  <2>2. list'[1] <= firstLoad.newest
    BY <1>3, <1>4, <1>5, <1>7, <2>1
  <2> QED
    BY <1>2, <1>3, <1>7, <2>2 DEF FirstLoadKnown
<1>8. ASSUME ~early, NEW c \in Int, AnchorKnown(c) PROVE AnchorKnown(c)'
  <2>1. list # << >> /\ list[1] \in 1 .. total
    BY <1>4, <1>8 DEF FirstLoadKnown
  <2>2. list'[1] <= c
    BY <1>3, <1>5, <1>8, <2>1 DEF AnchorKnown
  <2> QED
    BY <1>8, <2>2 DEF AnchorKnown
<1>9. ASSUME ~early PROVE AnchorKnown(list[1])'
  <2>1. list' # << >> /\ list'[1] <= firstLoad.newest
    BY <1>2, <1>3, <1>7, <1>9 DEF FirstLoadKnown
  <2> QED
    BY <1>5, <2>1 DEF AnchorKnown
<1> QED
  BY <1>3, <1>5, <1>6, <1>7, <1>8, <1>9

LEMMA ApplyMoreKeeps == HistoryInv /\ HistoryTypeOK' /\ ApplyMore => HistoryInv'
<1> SUFFICES ASSUME HistoryInv, HistoryTypeOK', ApplyMore PROVE HistoryInv'
  OBVIOUS
<1> USE DEF HistoryInv
<1>1. /\ more # Idle /\ more' = Idle /\ list' = Fresh(PageBefore(more, PageSize)) \o list
      /\ hasMore' = (Len(Fresh(PageBefore(more, PageSize))) >= PageSize)
      /\ UNCHANGED <<total, live, firstLoad, search, early>>
  BY DEF ApplyMore
<1>2. /\ total \in Nat /\ firstLoad.newest \in 0 .. total /\ list \in Seq(1 .. total)
      /\ PageSize \in Nat \ {0} /\ more \in 1 .. total /\ more \in Nat
      /\ \A i \in 1 .. Len(list) : list[i] \in 1 .. total
      /\ \A s \in Searches : search[s].anchor \in Int
  BY <1>1, Numbers, NonEmpty DEF Idle
<1>3. Loaded' = Loaded /\ NeverSearched' = NeverSearched
  BY <1>1 DEF Loaded, NeverSearched
<1>4. ~early => Loaded /\ firstLoad.newest # 0 /\ AnchorKnown(more)
  BY <1>1 DEF AnchorsKnown, FirstLoadKnown
<1>5. /\ ListIsWhole' /\ (~early => FirstLoadKnown')
      /\ ~early => list' # << >> /\ list'[1] <= list[1] /\ list'[1] \in 1 .. total
      /\ ~early => \A c \in Int : AnchorKnown(c) => AnchorKnown(c)'
  <2>1. more \in 0 .. total /\ more # 0
    BY <1>2
  <2> QED
    BY <1>1, <1>2, <1>4, <2>1, PrependKeeps, ZenonT(40)
<1>6. ~early => AnchorsKnown'
  BY <1>1, <1>2, <1>5 DEF AnchorsKnown
<1>7. ScrollsInTurn'
  <2> DEFINE lo == Larger(1, more - PageSize)
             fresh == Fresh(PageBefore(more, PageSize))
  <2> SUFFICES ASSUME NeverSearched, Loaded, firstLoad.newest # 0, ~hasMore', ~LateFrame'
               PROVE  list'[1] = 1
    BY <1>1, <1>3 DEF ScrollsInTurn
  <2>1. ~early /\ list # << >> /\ more = list[1] /\ list[1] <= firstLoad.newest
    BY <1>1 DEF ScrollsInTurn, FirstLoadKnown
  <2>2. \A m \in live : m \in 1 .. total /\ ~(m <= firstLoad.newest)
    <3>1. \A m \in live : ~(m <= firstLoad.newest)
      BY <1>1, <1>3 DEF LateFrame
    <3>2. live \subseteq Listed
      BY DEF HistoryTypeOK
    <3> QED
      BY <1>2, <3>1, <3>2 DEF Listed
  <2>3. /\ PagesInOrder' /\ lo .. more - 1 \subseteq Listed' /\ list'[1] \notin live
        /\ list'[1] \in 1 .. total
    BY <1>1, <1>2, <1>4, <1>5, <2>1, PagePrepended DEF ListIsWhole
  <2>4. (lo .. more - 1) \cap Listed = {} => Len(fresh) = more - lo
    <3>1. more # 0
      BY <1>2
    <3> QED
      BY <1>2, <3>1, FreshKnown, PageKnown, ZenonT(40)
  <2>5. lo \in Nat \ {0} /\ (lo = 1 \/ lo = more - PageSize)
    BY <1>2 DEF Larger
  <2>6. ~(Len(fresh) >= PageSize)
    BY <1>1
  <2> HIDE DEF lo, fresh
  <2>7. \A i \in 1 .. Len(list) : list[1] <= list[i]
    <3> SUFFICES ASSUME NEW i \in 1 .. Len(list) PROVE list[1] <= list[i]
      OBVIOUS
    <3>1. CASE list[i] \notin live
      BY <1>2, <2>1, <3>1, TopIsLeast DEF ListIsWhole
    <3>2. CASE list[i] \in live
      <4>1. ~(list[i] <= firstLoad.newest)
        BY <2>2, <3>2
      <4>2. list[i] \in Int /\ list[1] \in Int /\ firstLoad.newest \in Int
        BY <1>2, <2>1
      <4> QED
        BY <2>1, <4>1, <4>2
    <3> QED
      BY <3>1, <3>2
  <2>8. (lo .. more - 1) \cap Listed = {}
    BY <1>2, <2>1, <2>5, <2>7, SMTT(30) DEF Listed
  <2>9. lo = 1
    BY <1>2, <2>4, <2>5, <2>6, <2>8
  <2>10. CASE more = 1
    BY <1>2, <1>5, <2>1, <2>3, <2>10
  <2>11. CASE more # 1
    <3>1. 1 \in Listed'
      BY <1>2, <2>3, <2>9, <2>11
    <3>2. PICK i \in 1 .. Len(list') : list'[i] = 1
      BY <3>1 DEF Listed
    <3>3. 1 \notin live
      <4>1. firstLoad.newest >= 1
        BY <1>2
      <4> QED
        BY <2>2, <4>1
    <3>4. CASE i = 1
      BY <3>2, <3>4
    <3>5. CASE i # 1
      <4>1. list' \in Seq(1 .. total)
        BY <1>1 DEF HistoryTypeOK
      <4>2. 1 \in 1 .. Len(list') /\ 1 < i
        BY <3>5, <4>1
      <4>3. list'[1] < list'[i]
        BY <1>1, <2>3, <3>2, <3>3, <4>2 DEF PagesInOrder
      <4> QED
        BY <1>2, <2>3, <3>2, <4>3
    <3> QED
      BY <3>4, <3>5
  <2> QED
    BY <2>10, <2>11
<1> QED
  BY <1>1, <1>3, <1>5, <1>6, <1>7

LEMMA ApplySearchPageKeeps ==
  ASSUME NEW s \in Searches
  PROVE  HistoryInv /\ HistoryTypeOK' /\ ApplySearchPage(s) => HistoryInv'
<1> SUFFICES ASSUME HistoryInv, HistoryTypeOK', ApplySearchPage(s) PROVE HistoryInv'
  OBVIOUS
<1> USE DEF HistoryInv
<1> DEFINE a == search[s].anchor
           older == PageBefore(a, SearchPage)
           step == IF older = << >>
                     THEN [state |-> "not found", anchor |-> Idle, pages |-> search[s].pages]
                     ELSE SearchState(list', hasMore', search[s].pages)
<1>1. /\ search[s].state = "asked" /\ list' = Fresh(older) \o list
      /\ hasMore' = (Len(older) >= SearchPage) /\ search' = [search EXCEPT ![s] = step]
      /\ UNCHANGED <<total, live, firstLoad, more, early>>
  BY DEF ApplySearchPage
<1>2. /\ total \in Nat /\ firstLoad.newest \in 0 .. total /\ list \in Seq(1 .. total)
      /\ SearchPage \in Nat \ {0} /\ MaxPages \in Nat /\ a \in 0 .. total /\ more \in Int
      /\ (list # << >> => list[1] \in 1 .. total)
      /\ \A q \in Searches : search[q].anchor \in Int
  BY Numbers, NonEmpty
<1>3. list' \in Seq(1 .. total) /\ hasMore' \in BOOLEAN
  BY <1>1 DEF HistoryTypeOK
<1>4. search \in [Searches -> [state : {"idle", "asked", "found", "not found",
                                        "gave up", "failed"},
                               anchor : 0 .. total, pages : 0 .. MaxPages]]
  BY DEF HistoryTypeOK
<1>5. /\ step.state = "asked" => list' # << >> /\ hasMore' /\ step.anchor = list'[1]
      /\ step.state # "idle"
  <2>1. search[s].pages \in 0 .. MaxPages
    BY <1>4
  <2>2. SearchState(list', hasMore', search[s].pages).state = "asked" =>
          /\ list' # << >> /\ hasMore'
          /\ SearchState(list', hasMore', search[s].pages).anchor = list'[1]
    BY <1>2, <1>3, <2>1, SearchStateTyped, ZenonT(40)
  <2>3. SearchState(list', hasMore', search[s].pages).state # "idle"
    BY DEF SearchState
  <2> HIDE DEF older
  <2> QED
    BY <2>2, <2>3
<1>6. \A q \in Searches : search'[q] = IF q = s THEN step ELSE search[q]
  BY <1>1, <1>4
<1> HIDE DEF step
<1>7. ~NeverSearched /\ ~NeverSearched'
  BY <1>1, <1>5, <1>6 DEF NeverSearched
<1>8. ~early => a # 0 /\ Loaded /\ firstLoad.newest # 0 /\ AnchorKnown(a)
  <2> SUFFICES ASSUME ~early PROVE a # 0 /\ Loaded /\ firstLoad.newest # 0 /\ AnchorKnown(a)
    OBVIOUS
  <2>1. Loaded /\ firstLoad.newest # 0 /\ AnchorKnown(a) /\ list # << >>
    BY <1>1 DEF AnchorsKnown, FirstLoadKnown
  <2>2. list[1] \in 1 .. total /\ list[1] <= a
    BY <1>2, <2>1 DEF AnchorKnown
  <2> QED
    BY <1>2, <2>1, <2>2
<1> HIDE DEF a
<1>9. /\ ListIsWhole' /\ (~early => FirstLoadKnown')
      /\ ~early => \A c \in Int : AnchorKnown(c) => AnchorKnown(c)'
      /\ ~early => AnchorKnown(list[1])'
  BY <1>1, <1>2, <1>8, PrependKeeps
<1>10. ASSUME ~early PROVE AnchorsKnown'
  <2>1. more' # Idle => AnchorKnown(more)'
    BY <1>1, <1>2, <1>9, <1>10 DEF AnchorsKnown
  <2>2. ASSUME NEW q \in Searches, search'[q].state = "asked"
        PROVE  AnchorKnown(search[q].anchor)'
    <3>1. CASE q = s
      <4>1. search'[q].anchor = list'[1]
        BY <1>5, <1>6, <2>2, <3>1
      <4> QED
        BY <1>9, <1>10, <4>1 DEF AnchorKnown
    <3>2. CASE q # s
      <4>1. search'[q] = search[q] /\ AnchorKnown(search[q].anchor)
        BY <1>6, <1>10, <2>2, <3>2 DEF AnchorsKnown
      <4> QED
        BY <1>2, <1>9, <1>10, <4>1 DEF AnchorKnown
    <3> QED
      BY <3>1, <3>2
  <2> QED
    BY <2>1, <2>2 DEF AnchorsKnown
<1> QED
  BY <1>1, <1>7, <1>9, <1>10 DEF ScrollsInTurn

\* The first page: everything from its first message to its newest.
FirstPage == PageBefore(firstLoad.newest + 1, PageSize)
FirstPageFrom == Larger(1, (firstLoad.newest + 1) - PageSize)

LEMMA FirstPageKnown ==
  ASSUME HistoryTypeOK
  PROVE  /\ FirstPage \in Seq(Nat) /\ Ascending(FirstPage)
         /\ Len(FirstPage) = (firstLoad.newest + 1) - FirstPageFrom
         /\ \A i \in 1 .. Len(FirstPage) : FirstPage[i] = FirstPageFrom + i - 1
         /\ \A m : (\E i \in 1 .. Len(FirstPage) : FirstPage[i] = m)
                    <=> m \in FirstPageFrom .. firstLoad.newest
<1> DEFINE a == firstLoad.newest + 1
<1>1. a \in Nat /\ a # 0 /\ a - 1 = firstLoad.newest /\ PageSize \in Nat \ {0}
  BY Numbers
<1>2. FirstPage = PageBefore(a, PageSize) /\ FirstPageFrom = Larger(1, a - PageSize)
  BY DEF FirstPage, FirstPageFrom
<1> HIDE DEF a
<1>3. \A m : (\E i \in 1 .. Len(PageBefore(a, PageSize)) : PageBefore(a, PageSize)[i] = m)
              <=> m \in Larger(1, a - PageSize) .. a - 1
  BY <1>1, PageHolds, ZenonT(40)
<1>4. /\ PageBefore(a, PageSize) \in Seq(Nat) /\ Ascending(PageBefore(a, PageSize))
      /\ Len(PageBefore(a, PageSize)) = a - Larger(1, a - PageSize)
      /\ \A i \in 1 .. Len(PageBefore(a, PageSize)) :
           PageBefore(a, PageSize)[i] = Larger(1, a - PageSize) + i - 1
  BY <1>1, PageKnown, ZenonT(40)
<1>5. \A m : (\E i \in 1 .. Len(FirstPage) : FirstPage[i] = m) <=> m \in FirstPageFrom .. a - 1
  BY ONLY <1>2, <1>3
<1>6. /\ FirstPage \in Seq(Nat) /\ Ascending(FirstPage) /\ Len(FirstPage) = a - FirstPageFrom
      /\ \A i \in 1 .. Len(FirstPage) : FirstPage[i] = FirstPageFrom + i - 1
  BY ONLY <1>2, <1>4
<1> QED
  BY <1>1, <1>5, <1>6, Zenon DEF a

LEMMA ApplyFirstLoadKeeps == HistoryInv /\ HistoryTypeOK' /\ ApplyFirstLoad => HistoryInv'
<1> SUFFICES ASSUME HistoryInv, HistoryTypeOK', ApplyFirstLoad PROVE HistoryInv'
  OBVIOUS
<1> USE DEF HistoryInv
<1> DEFINE newest == firstLoad.newest
           lo == FirstPageFrom
           page == FirstPage
<1>1. /\ firstLoad.state = "answered" /\ list' = page /\ live' = {}
      /\ hasMore' = (Len(page) >= PageSize)
      /\ UNCHANGED <<total, more, search, early>>
  BY DEF ApplyFirstLoad, FirstPage
<1>2. /\ newest \in Nat /\ total \in Nat /\ newest <= total /\ PageSize \in Nat \ {0}
  BY Numbers
<1>3. ~Loaded /\ Loaded' /\ firstLoad'.newest = newest /\ NeverSearched' = NeverSearched
  <2>1. firstLoad' = [firstLoad EXCEPT !.state = "done"]
    BY DEF ApplyFirstLoad
  <2>2. firstLoad'.state = "done" /\ firstLoad'.newest = newest
    BY <2>1 DEF HistoryTypeOK
  <2> QED
    BY <1>1, <2>2 DEF Loaded, NeverSearched
<1>4. /\ page \in Seq(Nat) /\ Ascending(page) /\ Len(page) = (newest + 1) - lo
      /\ \A i \in 1 .. Len(page) : page[i] = lo + i - 1
      /\ \A m : (\E i \in 1 .. Len(page) : page[i] = m) <=> m \in lo .. newest
  BY FirstPageKnown
<1>5. lo \in Nat \ {0} /\ lo <= newest + 1 /\ (newest # 0 => lo <= newest)
      /\ (lo = 1 \/ lo = (newest + 1) - PageSize)
  BY <1>2 DEF Larger, FirstPageFrom
<1> HIDE DEF page, lo
<1>6. Listed' = lo .. newest
  BY <1>1, <1>4 DEF Listed
<1>7. ListIsWhole'
  <2>1. ListedOnce' /\ PagesInOrder'
    BY <1>1, <1>4 DEF ListedOnce, PagesInOrder, Ascending
  <2>2. list' # << >> => list'[1] = lo
    BY <1>1, <1>4, <1>5, NonEmpty
  <2>3. NoHole'
    BY <1>3, <1>6, <2>2 DEF NoHole
  <2> QED
    BY <2>1, <2>3 DEF ListIsWhole
<1>8. newest # 0 => list' # << >> /\ list'[1] = lo
  <2> SUFFICES ASSUME newest # 0 PROVE list' # << >> /\ list'[1] = lo
    OBVIOUS
  <2>1. Len(page) >= 1 /\ 1 \in 1 .. Len(page)
    BY <1>2, <1>4, <1>5
  <2> QED
    BY <1>1, <1>4, <1>5, <2>1, NonEmpty
<1>0. Len(page) = (newest + 1) - lo
  BY <1>4
<1>9. newest = 0 => ~hasMore' /\ Listed' = {}
  <2> SUFFICES ASSUME newest = 0 PROVE ~hasMore' /\ Listed' = {}
    OBVIOUS
  <2>1. lo = 1
    BY <1>5
  <2>2. Len(page) = 0 /\ lo .. newest = {}
    BY <1>0, <2>1
  <2>3. ~(Len(page) >= PageSize)
    BY <1>2, <2>2
  <2> QED
    BY <1>1, <1>6, <2>2, <2>3
<1>10. ASSUME ~early PROVE FirstLoadKnown' /\ AnchorsKnown'
  <2>1. more' = Idle /\ \A s \in Searches : search'[s].state # "asked"
    BY <1>1, <1>3, <1>10 DEF FirstLoadKnown
  <2>2. newest # 0 => list'[1] <= newest
    BY <1>5, <1>8
  <2>3. FirstLoadKnown'
    BY <1>1, <1>3, <1>8, <1>9, <2>1, <2>2 DEF FirstLoadKnown
  <2> QED
    BY <2>1, <2>3 DEF AnchorsKnown
<1>11. ScrollsInTurn'
  <2> SUFFICES ASSUME NeverSearched, newest # 0, ~hasMore'
               PROVE  list'[1] = 1
    BY <1>1, <1>3, <1>10 DEF ScrollsInTurn, FirstLoadKnown
  <2>1. ~(Len(page) >= PageSize)
    BY <1>1
  <2>2. lo = 1
    BY <1>0, <1>2, <1>5, <2>1
  <2> QED
    BY <1>8, <2>2
<1> QED
  BY <1>1, <1>3, <1>7, <1>10, <1>11

LEMMA StartSearchKeeps ==
  ASSUME NEW s \in Searches
  PROVE  HistoryInv /\ HistoryTypeOK' /\ StartSearch(s) => HistoryInv'
<1> SUFFICES ASSUME HistoryInv, HistoryTypeOK', StartSearch(s) PROVE HistoryInv'
  OBVIOUS
<1>1. /\ search' = [search EXCEPT ![s] = SearchState(list, hasMore, 0)]
      /\ early' = (early \/ (firstLoad.state # "done" /\ search'[s].state = "asked"))
      /\ UNCHANGED <<total, list, live, firstLoad, hasMore, more>>
  BY DEF StartSearch
<1>2. SearchState(list, hasMore, 0).state = "asked" =>
        list # << >> /\ hasMore /\ SearchState(list, hasMore, 0).anchor = list[1]
  <2>1. /\ total \in Nat /\ list \in Seq(1 .. total) /\ hasMore \in BOOLEAN
        /\ MaxPages \in Nat /\ 0 \in 0 .. MaxPages
    <3>1. hasMore \in BOOLEAN
      BY DEF HistoryInv, HistoryTypeOK
    <3>2. total \in Nat /\ list \in Seq(1 .. total) /\ MaxPages \in Nat
      BY Numbers DEF HistoryInv
    <3> QED
      BY <3>1, <3>2
  <2> QED
    BY <2>1, SearchStateTyped, ZenonT(40)
<1>3. /\ search'[s] = SearchState(list, hasMore, 0)
      /\ \A q \in Searches : q # s => search'[q] = search[q]
  BY <1>1 DEF HistoryInv, HistoryTypeOK
<1>4. ~NeverSearched'
  <2>1. SearchState(list, hasMore, 0).state # "idle"
    BY DEF SearchState
  <2> QED
    BY <1>3, <2>1 DEF NeverSearched
<1>5. ASSUME ~early', NEW q \in Searches, search'[q].state = "asked"
      PROVE  \/ search[q].state = "asked" /\ search'[q].anchor = search[q].anchor
             \/ Loaded /\ hasMore /\ list # << >> /\ search'[q].anchor = list[1]
  BY <1>1, <1>2, <1>3, <1>5 DEF Loaded
<1> QED
  BY <1>1, <1>4, <1>5, ListStays

LEMMA SearchFailsKeeps ==
  ASSUME NEW s \in Searches
  PROVE  HistoryInv /\ HistoryTypeOK' /\ SearchFails(s) => HistoryInv'
<1> SUFFICES ASSUME HistoryInv, HistoryTypeOK', SearchFails(s) PROVE HistoryInv'
  OBVIOUS
<1>1. /\ search[s].state = "asked"
      /\ search' = [search EXCEPT ![s] = [@ EXCEPT !.state = "failed", !.anchor = Idle]]
      /\ UNCHANGED <<total, list, live, firstLoad, hasMore, more, early>>
  BY DEF SearchFails
<1>2. search'[s].state = "failed" /\ \A q \in Searches : q # s => search'[q] = search[q]
  BY <1>1 DEF HistoryInv, HistoryTypeOK
<1>3. ~NeverSearched'
  BY <1>2 DEF NeverSearched
<1>4. \A q \in Searches : search'[q].state = "asked" =>
        search[q].state = "asked" /\ search'[q].anchor = search[q].anchor
  BY <1>2
<1> QED
  BY <1>1, <1>3, <1>4, ListStays

\* Every step keeps the invariant.
LEMMA HistoryStep == HistoryInv /\ [HistoryNext]_historyVars => HistoryInv'
<1> SUFFICES ASSUME HistoryInv, [HistoryNext]_historyVars PROVE HistoryInv'
  OBVIOUS
<1>1. HistoryTypeOK'
  BY HistoryTypeStep DEF HistoryInv
<1>2. NeverSearched => ~early
  BY DEF HistoryInv
<1>3. CASE Write
  BY <1>1, <1>2, <1>3, ListStays DEF Write, NeverSearched
<1>4. CASE \E m \in 1 .. total : Arrive(m)
  BY <1>1, <1>4, ArriveKeeps
<1>5. CASE AnswerFirstLoad \/ TakeCachedPage \/ FirstLoadFails
  <2>1. ~Loaded /\ ~Loaded' /\ UNCHANGED <<list, live, hasMore, more, search, early>>
    <3>1. firstLoad \in [state : {"asked", "answered", "done", "failed"}, newest : 0 .. total]
      BY DEF HistoryInv, HistoryTypeOK
    <3>2. CASE AnswerFirstLoad
      BY <3>2 DEF AnswerFirstLoad, Loaded
    <3>3. CASE TakeCachedPage
      BY <3>3 DEF TakeCachedPage, Loaded
    <3>4. CASE FirstLoadFails
      BY <3>1, <3>4 DEF FirstLoadFails, Loaded
    <3> QED
      BY <1>5, <3>2, <3>3, <3>4
  <2> QED
    BY <1>1, <1>2, <2>1, ListStays DEF NeverSearched
<1>6. CASE ApplyFirstLoad
  BY <1>1, <1>6, ApplyFirstLoadKeeps
<1>7. CASE AskMore
  BY <1>1, <1>2, <1>7, ListStays DEF AskMore, NeverSearched, Loaded
<1>8. CASE ApplyMore
  BY <1>1, <1>8, ApplyMoreKeeps
<1>9. CASE MoreFails
  BY <1>1, <1>2, <1>9, ListStays DEF MoreFails, NeverSearched
<1>10. CASE \E s \in Searches : StartSearch(s) \/ ApplySearchPage(s) \/ SearchFails(s)
  BY <1>1, <1>10, StartSearchKeeps, ApplySearchPageKeeps, SearchFailsKeeps
<1>11. CASE UNCHANGED historyVars
  BY <1>1, <1>2, <1>11, ListStays DEF historyVars, NeverSearched
<1> QED
  BY <1>3, <1>4, <1>5, <1>6, <1>7, <1>8, <1>9, <1>10, <1>11 DEF HistoryNext

\* chat_screen.dart:130-203, 240-273, 331-370: the first load, fetched or cached,
\* scrolling, searches, and live messages in any order keep the inductive invariant, for
\* every page size, every cap, any number of searches at once and of messages.
THEOREM HistoryInvariance == HistorySpec => []HistoryInv
  BY HistoryInitInv, HistoryStep, PTL DEF HistorySpec

\* chat_screen.dart:139-142, 189-190, 262-272: the list names no message twice; and unless
\* a search overtook the first load, what was paged in is in order and without a hole, and
\* the live messages stand below it.
THEOREM HistoryIsWhole == HistorySpec => []ListIsWhole
<1>1. HistoryInv => ListIsWhole
  BY DEF HistoryInv
<1> QED
  BY HistoryInvariance, <1>1, PTL

\* chat_screen.dart:143, 48-49: a screen on which nobody searched, and to which no live
\* message older than its first page came late, takes its list to be complete only when
\* the very first message is on it.
THEOREM CompleteWhenItSaysSo == HistorySpec => []CompleteMeansComplete
<1>1. HistoryInv => CompleteMeansComplete
  <2> SUFFICES ASSUME HistoryInv, Loaded, ~hasMore, firstLoad.newest # 0, NeverSearched,
                      ~LateFrame
               PROVE  1 \in Listed
    BY DEF CompleteMeansComplete
  <2> USE DEF HistoryInv
  <2>1. total \in Nat /\ list \in Seq(1 .. total)
    BY Numbers
  <2>2. list # << >> /\ list[1] = 1
    BY DEF FirstLoadKnown, ScrollsInTurn
  <2>3. 1 \in 1 .. Len(list)
    BY <2>1, <2>2, NonEmpty
  <2> QED
    BY <2>2, <2>3 DEF Listed
<1> QED
  BY HistoryInvariance, <1>1, PTL
=============================================================================
