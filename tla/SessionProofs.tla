---------------------------- MODULE SessionProofs ----------------------------
(***************************************************************************)
(* Proofs about Session, for any number of channels and of reconnects: the *)
(* inductive invariant SessionInv, that an open session is never left      *)
(* unguarded nor offline for good, and that a session implements AppLock.  *)
(***************************************************************************)
EXTENDS Session, TLAPS

(* The calls under way.  Contains is used through these lemmas only. *)

\* Those the invariant speaks of.
Marked == SaveCalls \cup {"boot", "decide", "clear"}

LEMMA CallsAreCalls ==
  /\ SaveCalls \subseteq Calls
  /\ {"boot", "decide", "clear"} \subseteq Calls \ SaveCalls
  /\ {"wsServer", "wsToken", "wsNothing", "renew", "renewed"}
       \subseteq Calls \ Marked
BY DEF Calls, Marked, SaveCalls, Entries

LEMMA InNone == ASSUME NEW c PROVE ~Contains(<< >>, c)
BY DEF Contains

LEMMA InOne == ASSUME NEW c, NEW d PROVE Contains(<<d>>, c) <=> c = d
BY DEF Contains

LEMMA InWrites == ASSUME NEW c PROVE Contains(Writes, c) <=> c \in Entries
BY DEF Contains, Writes, Entries

LEMMA InConnectCalls ==
  /\ ConnectCalls \in Seq(Calls)
  /\ \A c \in Calls \ {"wsServer"} : ~Contains(ConnectCalls, c)
<1>1. CASE channel = NoSocket /\ ~Connecting
  <2>1. ConnectCalls = <<"wsServer">>
    BY <1>1 DEF ConnectCalls
  <2> QED
    BY <2>1, InOne DEF Calls
<1>2. CASE ~(channel = NoSocket /\ ~Connecting)
  <2>1. ConnectCalls = << >>
    BY <1>2 DEF ConnectCalls
  <2> QED
    BY <2>1, InNone
<1> QED
  BY <1>1, <1>2

\* What is in a sequence after its first element and in a longer one.
LEMMA InTail ==
  ASSUME NEW q \in Seq(Calls), q # << >>
  PROVE  /\ Tail(q) \in Seq(Calls) /\ Head(q) \in Calls
         /\ \A c : Contains(q, c) <=> c = Head(q) \/ Contains(Tail(q), c)
<1>1. Len(q) \in Nat \ {0} /\ Head(q) = q[1] /\ Len(Tail(q)) = Len(q) - 1
  OBVIOUS
<1>2. \A i \in 1 .. Len(q) - 1 : Tail(q)[i] = q[i + 1]
  OBVIOUS
<1>3. ASSUME NEW c, Contains(q, c) PROVE c = Head(q) \/ Contains(Tail(q), c)
  <2>1. PICK i \in 1 .. Len(q) : q[i] = c
    BY <1>3 DEF Contains
  <2>2. CASE i # 1
    <3>1. i - 1 \in 1 .. Len(q) - 1 /\ Tail(q)[i - 1] = c
      BY <1>1, <1>2, <2>1, <2>2
    <3> QED
      BY <1>1, <3>1 DEF Contains
  <2> QED
    BY <1>1, <2>1, <2>2
<1>4. ASSUME NEW c, c = Head(q) \/ Contains(Tail(q), c) PROVE Contains(q, c)
  BY <1>1, <1>2, <1>4 DEF Contains
<1> QED
  BY <1>3, <1>4

LEMMA InCat ==
  ASSUME NEW q \in Seq(Calls), NEW r \in Seq(Calls)
  PROVE  /\ q \o r \in Seq(Calls)
         /\ \A c : Contains(q \o r, c) <=> Contains(q, c) \/ Contains(r, c)
<1>1. /\ Len(q) \in Nat /\ Len(r) \in Nat /\ Len(q \o r) = Len(q) + Len(r)
      /\ \A i \in 1 .. Len(q) : (q \o r)[i] = q[i]
      /\ \A i \in 1 .. Len(r) : (q \o r)[Len(q) + i] = r[i]
  OBVIOUS
<1>2. ASSUME NEW c, Contains(q \o r, c) PROVE Contains(q, c) \/ Contains(r, c)
  <2>1. PICK i \in 1 .. Len(q) + Len(r) : (q \o r)[i] = c
    BY <1>1, <1>2 DEF Contains
  <2>2. CASE i \in 1 .. Len(q)
    BY <1>1, <2>1, <2>2 DEF Contains
  <2>3. CASE i \notin 1 .. Len(q)
    <3>1. i - Len(q) \in 1 .. Len(r) /\ i = Len(q) + (i - Len(q))
      BY <1>1, <2>1, <2>3
    <3>2. r[i - Len(q)] = c
      BY <1>1, <2>1, <3>1
    <3> QED
      BY <3>1, <3>2 DEF Contains
  <2> QED
    BY <2>2, <2>3
<1>3. ASSUME NEW c, Contains(q, c) \/ Contains(r, c) PROVE Contains(q \o r, c)
  <2>1. CASE Contains(q, c)
    <3>1. PICK i \in 1 .. Len(q) : q[i] = c
      BY <2>1 DEF Contains
    <3> QED
      BY <1>1, <3>1 DEF Contains
  <2>2. CASE Contains(r, c)
    <3>1. PICK i \in 1 .. Len(r) : r[i] = c
      BY <2>2 DEF Contains
    <3>2. Len(q) + i \in 1 .. Len(q \o r) /\ (q \o r)[Len(q) + i] = c
      BY <1>1, <3>1
    <3> QED
      BY <3>2 DEF Contains
  <2> QED
    BY <1>3, <2>1, <2>2
<1> QED
  BY <1>1, <1>2, <1>3

\* Order among the calls of a saveSession.
LEMMA OrderedTail ==
  ASSUME NEW q \in Seq(Calls), q # << >>, Ordered(q)
  PROVE  /\ Ordered(Tail(q))
         /\ Head(q) \in {"relogin", "stamp", "role"} =>
              \A c \in SaveCalls : ~Contains(Tail(q), c)
<1>1. Len(q) \in Nat \ {0} /\ Head(q) = q[1] /\ Len(Tail(q)) = Len(q) - 1
  OBVIOUS
<1>2. \A i \in 1 .. Len(q) - 1 : Tail(q)[i] = q[i + 1]
  OBVIOUS
<1>3. Ordered(Tail(q))
  BY <1>1, <1>2 DEF Ordered
<1>4. ASSUME Head(q) \in {"relogin", "stamp", "role"},
             NEW c \in SaveCalls, Contains(Tail(q), c)
      PROVE  FALSE
  <2>1. PICK i \in 1 .. Len(q) - 1 : q[i + 1] = c
    BY <1>1, <1>2, <1>4 DEF Contains
  <2>2. q[1] \in SaveCalls /\ 1 \in 1 .. Len(q) /\ i + 1 \in 1 .. Len(q) /\ 1 < i + 1
    BY <1>1, <1>4, <2>1 DEF SaveCalls, Entries
  <2>3. q[1] \in Entries /\ c \in Entries /\ Step[q[1]] < Step[c]
    BY <2>1, <2>2 DEF Ordered
  <2>4. q[1] = "role"
    BY <1>1, <1>4, <2>3 DEF Entries
  <2> QED
    BY <2>3, <2>4 DEF Step, Entries
<1> QED
  BY <1>3, <1>4

\* Appending calls that are not a saveSession's keeps the order.
LEMMA OrderedCat ==
  ASSUME NEW q \in Seq(Calls), NEW r \in Seq(Calls), Ordered(q),
         \A c \in SaveCalls : ~Contains(r, c)
  PROVE  Ordered(q \o r)
<1>1. /\ Len(q) \in Nat /\ Len(r) \in Nat /\ Len(q \o r) = Len(q) + Len(r)
      /\ \A i \in 1 .. Len(q) : (q \o r)[i] = q[i]
      /\ \A i \in 1 .. Len(r) : (q \o r)[Len(q) + i] = r[i]
  OBVIOUS
<1>2. ASSUME NEW i \in 1 .. Len(q \o r), (q \o r)[i] \in SaveCalls
      PROVE  i \in 1 .. Len(q)
  <2>1. SUFFICES ASSUME i \notin 1 .. Len(q) PROVE FALSE
    OBVIOUS
  <2>2. i - Len(q) \in 1 .. Len(r) /\ i = Len(q) + (i - Len(q))
    BY <1>1, <2>1
  <2>3. r[i - Len(q)] = (q \o r)[i]
    BY <1>1, <2>2
  <2> QED
    BY <1>2, <2>2, <2>3 DEF Contains
<1> QED
  BY <1>1, <1>2 DEF Ordered

\* So does appending calls of a saveSession when there are none.
LEMMA OrderedSave ==
  ASSUME NEW q \in Seq(Calls), \A c \in SaveCalls : ~Contains(q, c),
         NEW r \in Seq(Calls), r = Writes \/ Len(r) = 1
  PROVE  Ordered(q \o r)
<1>1. /\ Len(q) \in Nat /\ Len(r) \in Nat /\ Len(q \o r) = Len(q) + Len(r)
      /\ \A i \in 1 .. Len(q) : (q \o r)[i] = q[i]
      /\ \A i \in 1 .. Len(r) : (q \o r)[Len(q) + i] = r[i]
  OBVIOUS
<1>2. ASSUME NEW i \in 1 .. Len(q \o r), (q \o r)[i] \in SaveCalls
      PROVE  i - Len(q) \in 1 .. Len(r) /\ (q \o r)[i] = r[i - Len(q)]
  <2>1. i \notin 1 .. Len(q)
    BY <1>1, <1>2 DEF Contains
  <2>2. i - Len(q) \in 1 .. Len(r) /\ i = Len(q) + (i - Len(q))
    BY <1>1, <2>1
  <2> QED
    BY <1>1, <2>2
<1>3. ASSUME r = Writes, NEW i \in 1 .. Len(r), NEW j \in 1 .. Len(r), i < j
      PROVE  r[i] \in Entries /\ r[j] \in Entries /\ Step[r[i]] < Step[r[j]]
  BY <1>3 DEF Writes, Entries, Step
<1> SUFFICES ASSUME NEW i \in 1 .. Len(q \o r), NEW j \in 1 .. Len(q \o r), i < j,
                    (q \o r)[i] \in SaveCalls, (q \o r)[j] \in SaveCalls
             PROVE  /\ (q \o r)[i] \in Entries /\ (q \o r)[j] \in Entries
                    /\ Step[(q \o r)[i]] < Step[(q \o r)[j]]
  BY DEF Ordered
<1>4. i - Len(q) < j - Len(q)
  BY <1>1
<1>5. CASE Len(r) = 1
  BY <1>1, <1>2, <1>4, <1>5
<1>6. CASE r = Writes
  BY <1>1, <1>2, <1>3, <1>4, <1>6
<1> QED
  BY <1>5, <1>6

\* A call made at most once.
LEMMA OnceTail ==
  ASSUME NEW q \in Seq(Calls), q # << >>, NEW c, Once(q, c)
  PROVE  Once(Tail(q), c) /\ (Head(q) = c => ~Contains(Tail(q), c))
<1>1. Len(q) \in Nat \ {0} /\ Head(q) = q[1] /\ Len(Tail(q)) = Len(q) - 1
  OBVIOUS
<1>2. \A i \in 1 .. Len(q) - 1 : Tail(q)[i] = q[i + 1]
  OBVIOUS
<1>3. Once(Tail(q), c)
  BY <1>1, <1>2 DEF Once
<1>4. ASSUME Head(q) = c, Contains(Tail(q), c) PROVE FALSE
  <2>1. PICK i \in 1 .. Len(q) - 1 : q[i + 1] = c
    BY <1>1, <1>2, <1>4 DEF Contains
  <2> QED
    BY <1>1, <1>4, <2>1 DEF Once
<1> QED
  BY <1>3, <1>4

LEMMA OnceCat ==
  ASSUME NEW q \in Seq(Calls), NEW r \in Seq(Calls), NEW c,
         Once(q, c), ~Contains(r, c) \/ (~Contains(q, c) /\ Len(r) = 1)
  PROVE  Once(q \o r, c)
<1>1. /\ Len(q) \in Nat /\ Len(r) \in Nat /\ Len(q \o r) = Len(q) + Len(r)
      /\ \A i \in 1 .. Len(q) : (q \o r)[i] = q[i]
      /\ \A i \in 1 .. Len(r) : (q \o r)[Len(q) + i] = r[i]
  OBVIOUS
<1>2. ASSUME NEW i \in 1 .. Len(q \o r), (q \o r)[i] = c
      PROVE  \/ i \in 1 .. Len(q) /\ q[i] = c
             \/ i - Len(q) \in 1 .. Len(r) /\ r[i - Len(q)] = c
  <2>1. CASE i \in 1 .. Len(q)
    BY <1>1, <1>2, <2>1
  <2>2. CASE i \notin 1 .. Len(q)
    <3>1. i - Len(q) \in 1 .. Len(r) /\ i = Len(q) + (i - Len(q))
      BY <1>1, <2>2
    <3> QED
      BY <1>1, <1>2, <3>1
  <2> QED
    BY <2>1, <2>2
<1>3. CASE ~Contains(r, c)
  BY <1>1, <1>2, <1>3 DEF Once, Contains
<1>4. CASE ~Contains(q, c) /\ Len(r) = 1
  BY <1>1, <1>2, <1>4 DEF Once, Contains
<1> QED
  BY <1>3, <1>4

-----------------------------------------------------------------------------
(* What replies and new calls do to the queue, all of it that matters. *)

LEMMA Replied ==
  ASSUME queue \in Seq(Calls), Ordered(queue), Once(queue, "clear"),
         NEW call, NEW calls \in Seq(Calls), Reply(call, calls),
         ~Contains(calls, "clear"),
         \/ \A c \in SaveCalls : ~Contains(calls, c)
         \/ call \in {"relogin", "role"} /\ (calls = Writes \/ Len(calls) = 1)
  PROVE  /\ queue' \in Seq(Calls) /\ Ordered(queue') /\ Once(queue', "clear")
         /\ \A c : Contains(queue', c) <=> Contains(Tail(queue), c) \/ Contains(calls, c)
         /\ \A c : Contains(queue, c) <=> c = call \/ Contains(Tail(queue), c)
         /\ call \in {"relogin", "stamp", "role"} =>
              \A c \in SaveCalls : ~Contains(Tail(queue), c)
         /\ call = "clear" => ~Contains(Tail(queue), "clear")
<1>1. queue # << >> /\ Head(queue) = call /\ queue' = Tail(queue) \o calls
  BY DEF Reply
<1>2. /\ Tail(queue) \in Seq(Calls)
      /\ \A c : Contains(queue, c) <=> c = call \/ Contains(Tail(queue), c)
  BY <1>1, InTail
<1>3. /\ queue' \in Seq(Calls)
      /\ \A c : Contains(queue', c) <=> Contains(Tail(queue), c) \/ Contains(calls, c)
  BY <1>1, <1>2, InCat
<1>4. /\ Ordered(Tail(queue))
      /\ call \in {"relogin", "stamp", "role"} =>
           \A c \in SaveCalls : ~Contains(Tail(queue), c)
  BY <1>1, OrderedTail
<1>5. Once(Tail(queue), "clear") /\ (call = "clear" => ~Contains(Tail(queue), "clear"))
  BY <1>1, OnceTail
<1>6. Once(queue', "clear")
  BY <1>1, <1>2, <1>5, OnceCat
<1>7. CASE \A c \in SaveCalls : ~Contains(calls, c)
  BY <1>1, <1>2, <1>3, <1>4, <1>5, <1>6, <1>7, OrderedCat
<1>8. CASE call \in {"relogin", "role"} /\ (calls = Writes \/ Len(calls) = 1)
  BY <1>1, <1>2, <1>3, <1>4, <1>5, <1>6, <1>8, OrderedSave
<1> QED
  BY <1>7, <1>8

LEMMA Called ==
  ASSUME queue \in Seq(Calls), Ordered(queue), Once(queue, "clear"),
         NEW calls \in Seq(Calls), queue' = queue \o calls,
         ~Contains(calls, "clear") \/ (~Contains(queue, "clear") /\ Len(calls) = 1),
         \/ \A c \in SaveCalls : ~Contains(calls, c)
         \/ (\A c \in SaveCalls : ~Contains(queue, c)) /\ (calls = Writes \/ Len(calls) = 1)
  PROVE  /\ queue' \in Seq(Calls) /\ Ordered(queue') /\ Once(queue', "clear")
         /\ \A c : Contains(queue', c) <=> Contains(queue, c) \/ Contains(calls, c)
BY InCat, OrderedCat, OrderedSave, OnceCat

LEMMA AppendIsCat ==
  ASSUME queue \in Seq(Calls), NEW call \in Calls
  PROVE  /\ Append(queue, call) = queue \o <<call>>
         /\ <<call>> \in Seq(Calls) /\ Len(<<call>>) = 1
         /\ \A c : Contains(<<call>>, c) <=> c = call
BY InOne


LEMMA Nothing == << >> \in Seq(Calls) /\ \A c : ~Contains(<< >>, c)
<1>1. << >> \in Seq(Calls)
  OBVIOUS
<1>2. \A c : ~Contains(<< >>, c)
  BY DEF Contains
<1> QED
  BY <1>1, <1>2

-----------------------------------------------------------------------------
(* One lemma for each action that touches what the invariant relates. *)

USE DEF SessionInv, SessionTypeOK, BootsAlone, SavesInOrder, SavesApart, Consistent, Pending,
        Marked

LEMMA NotBooting ==
  ASSUME SessionInv, NEW call, NEW calls, Reply(call, calls), call # "boot"
  PROVE  ~Contains(queue, "boot")
BY DEF Reply

LEMMA OnDecideKeeps == ASSUME SessionInv, OnDecide PROVE SessionInv'
<1>1. Reply("decide", << >>)
  BY DEF OnDecide
<1>2. /\ queue' \in Seq(Calls) /\ Ordered(queue') /\ Once(queue', "clear")
      /\ \A c : Contains(queue', c) <=> Contains(Tail(queue), c)
      /\ \A c : Contains(queue, c) <=> c = "decide" \/ Contains(Tail(queue), c)
  BY <1>1, Nothing, Replied
<1>3. SessionTypeOK'
  BY <1>1, <1>2, NotBooting, CallsAreCalls DEF OnDecide, Calls, SaveCalls, Entries, States, appVars, wsVars
<1>4. BootsAlone'
  BY <1>1, <1>2, NotBooting, CallsAreCalls DEF OnDecide, Calls, SaveCalls, Entries, States, appVars, wsVars
<1>5. SavesInOrder'
  BY <1>1, <1>2, NotBooting, CallsAreCalls DEF OnDecide, Calls, SaveCalls, Entries, States, appVars, wsVars
<1>6. SavesApart'
  BY <1>1, <1>2, NotBooting, CallsAreCalls DEF OnDecide, Calls, SaveCalls, Entries, States, appVars, wsVars
<1>7. Consistent'
  BY <1>1, <1>2, NotBooting, CallsAreCalls DEF OnDecide, Calls, SaveCalls, Entries, States, appVars, wsVars
<1> QED
  BY <1>3, <1>4, <1>5, <1>6, <1>7

LEMMA OnReloginKeeps == ASSUME SessionInv, OnRelogin PROVE SessionInv'
<1>1. Reply("relogin", Writes)
  BY DEF OnRelogin
<1>2. Writes \in Seq(Calls) /\ ~Contains(Writes, "clear")
  BY InWrites DEF Writes, Calls, Entries
<1>3. /\ queue' \in Seq(Calls) /\ Ordered(queue') /\ Once(queue', "clear")
      /\ \A c : Contains(queue', c) <=> Contains(Tail(queue), c) \/ c \in Entries
      /\ \A c : Contains(queue, c) <=> c = "relogin" \/ Contains(Tail(queue), c)
      /\ \A c \in SaveCalls : ~Contains(Tail(queue), c)
  BY <1>1, <1>2, Replied, InWrites
<1> QED
  BY <1>1, <1>2, <1>3 DEF OnRelogin, Calls, SaveCalls, Entries, States, appVars, wsVars

LEMMA OnClearKeeps == ASSUME SessionInv, OnClear PROVE SessionInv'
<1>1. Reply("clear", << >>)
  BY DEF OnClear
<1>2. /\ queue' \in Seq(Calls) /\ Ordered(queue') /\ Once(queue', "clear")
      /\ \A c : Contains(queue', c) <=> Contains(Tail(queue), c)
      /\ \A c : Contains(queue, c) <=> c = "clear" \/ Contains(Tail(queue), c)
      /\ ~Contains(Tail(queue), "clear")
  BY <1>1, Nothing, Replied
<1>3. SessionTypeOK'
  BY <1>1, <1>2, NotBooting, CallsAreCalls DEF OnClear, Calls, SaveCalls, Entries, States, appVars, wsVars
<1>4. BootsAlone'
  BY <1>1, <1>2, NotBooting, CallsAreCalls DEF OnClear, Calls, SaveCalls, Entries, States, appVars, wsVars
<1>5. SavesInOrder'
  BY <1>1, <1>2, NotBooting, CallsAreCalls DEF OnClear, Calls, SaveCalls, Entries, States, appVars, wsVars
<1>6. SavesApart'
  BY <1>1, <1>2, NotBooting, CallsAreCalls DEF OnClear, Calls, SaveCalls, Entries, States, appVars, wsVars
<1>7. Consistent'
  BY <1>1, <1>2, NotBooting, CallsAreCalls DEF OnClear, Calls, SaveCalls, Entries, States, appVars, wsVars
<1> QED
  BY <1>3, <1>4, <1>5, <1>6, <1>7

LEMMA OnStampKeeps == ASSUME SessionInv, OnStamp PROVE SessionInv'
<1>1. Reply("stamp", ConnectCalls)
  BY DEF OnStamp
<1>2. /\ ConnectCalls \in Seq(Calls)
      /\ \A c \in Marked : ~Contains(ConnectCalls, c)
  BY InConnectCalls, CallsAreCalls
<1>3. /\ queue' \in Seq(Calls) /\ Ordered(queue') /\ Once(queue', "clear")
      /\ \A c \in Marked :
           Contains(queue', c) <=> Contains(Tail(queue), c)
      /\ \A c : Contains(queue, c) <=> c = "stamp" \/ Contains(Tail(queue), c)
      /\ \A c \in SaveCalls : ~Contains(Tail(queue), c)
  BY <1>1, <1>2, Replied
<1> QED
  BY <1>1, <1>2, <1>3 DEF OnStamp, Calls, SaveCalls, Entries, States, appVars, wsVars

LEMMA OnBootKeeps == ASSUME SessionInv, OnBoot PROVE SessionInv'
<1>1. queue = <<"boot">> /\ Tail(queue) = << >> /\ state = "unknown" /\ ~vmk /\ ~role
      /\ saving = "nothing"
  BY DEF OnBoot, Reply, Contains
<1>2. queue' = << >> \/ queue' = <<"decide">>
  BY <1>1 DEF OnBoot, Reply
<1>3. /\ queue' \in Seq(Calls) /\ Ordered(queue') /\ Once(queue', "clear")
      /\ \A c : Contains(queue', c) => c = "decide"
  <2>1. CASE queue' = << >>
    <3>1. Ordered(queue') /\ Once(queue', "clear")
      BY <2>1 DEF Ordered, Once
    <3> QED
      BY <2>1, <3>1, Nothing
  <2>2. CASE queue' = <<"decide">>
    <3>1. Ordered(queue') /\ Once(queue', "clear")
      BY <2>2 DEF Ordered, Once
    <3>2. queue' \in Seq(Calls)
      BY <2>2 DEF Calls
    <3>3. \A c : Contains(queue', c) => c = "decide"
      BY <2>2, InOne
    <3> QED
      BY <3>1, <3>2, <3>3
  <2> QED
    BY <1>2, <2>1, <2>2
<1>4. SessionTypeOK'
  <2>1. vmk' \in BOOLEAN /\ role' \in BOOLEAN /\ state' \in States
    <3>1. CASE {"access", "vmk"} \subseteq disk
      BY <3>1 DEF OnBoot
    <3>2. CASE ~({"access", "vmk"} \subseteq disk)
      BY <3>2 DEF OnBoot, States
    <3> QED
      BY <3>1, <3>2
  <2>2. UNCHANGED <<disk, recent, saving, timer, channel, socket, reconnects, renewals, forgotten, screen>>
    BY DEF OnBoot, wsVars
  <2> QED
    BY <1>3, <2>1, <2>2
<1>5. BootsAlone'
  BY <1>1, <1>2, <1>3, NotBooting, CallsAreCalls DEF OnBoot, Calls, SaveCalls, Entries, States, appVars, wsVars
<1>6. SavesInOrder'
  BY <1>1, <1>2, <1>3, NotBooting, CallsAreCalls DEF OnBoot, Calls, SaveCalls, Entries, States, appVars, wsVars
<1>7. SavesApart'
  BY <1>1, <1>2, <1>3, NotBooting, CallsAreCalls DEF OnBoot, Calls, SaveCalls, Entries, States, appVars, wsVars
<1>8. Consistent'
  BY <1>1, <1>2, <1>3, NotBooting, CallsAreCalls DEF OnBoot, Calls, SaveCalls, Entries, States, appVars, wsVars
<1> QED
  BY <1>4, <1>5, <1>6, <1>7, <1>8

LEMMA SetupKeeps ==
  ASSUME SessionInv, NEW what \in {"claim", "pairing"}, Setup(what) PROVE SessionInv'
<1>1. Writes \in Seq(Calls)
  BY DEF Writes, Calls, Entries
<1>2. queue' = queue \o Writes /\ saving = "nothing" /\ ~Contains(Writes, "clear")
  BY InWrites DEF Setup, Entries
<1>3. /\ queue' \in Seq(Calls) /\ Ordered(queue') /\ Once(queue', "clear")
      /\ \A c : Contains(queue', c) <=> Contains(queue, c) \/ c \in Entries
  BY <1>1, <1>2, Called, InWrites
<1>4. SessionTypeOK'
  BY <1>1, <1>2, <1>3, NotBooting, CallsAreCalls DEF Setup, Calls, SaveCalls, Entries, States, appVars, wsVars
<1>5. BootsAlone'
  BY <1>1, <1>2, <1>3, NotBooting, CallsAreCalls DEF Setup, Calls, SaveCalls, Entries, States, appVars, wsVars
<1>6. SavesInOrder'
  BY <1>1, <1>2, <1>3, NotBooting, CallsAreCalls DEF Setup, Calls, SaveCalls, Entries, States, appVars, wsVars
<1>7. SavesApart'
  BY <1>1, <1>2, <1>3, NotBooting, CallsAreCalls DEF Setup, Calls, SaveCalls, Entries, States, appVars, wsVars
<1>8. Consistent'
  BY <1>1, <1>2, <1>3, NotBooting, CallsAreCalls DEF Setup, Calls, SaveCalls, Entries, States, appVars, wsVars
<1> QED
  BY <1>4, <1>5, <1>6, <1>7, <1>8

LEMMA LoginKeeps == ASSUME SessionInv, Login PROVE SessionInv'
<1>1. queue' = queue \o <<"relogin">> /\ saving = "nothing" /\ <<"relogin">> \in Seq(Calls)
      /\ Len(<<"relogin">>) = 1 /\ \A c : Contains(<<"relogin">>, c) <=> c = "relogin" 
  BY InOne, CallsAreCalls DEF Login, SaveCalls
<1>2. /\ queue' \in Seq(Calls) /\ Ordered(queue') /\ Once(queue', "clear")
      /\ \A c : Contains(queue', c) <=> Contains(queue, c) \/ c = "relogin" 
  BY <1>1, Called
<1>3. SessionTypeOK'
  BY <1>1, <1>2, NotBooting, CallsAreCalls DEF Login, Calls, SaveCalls, Entries, States, appVars, wsVars
<1>4. BootsAlone'
  BY <1>1, <1>2, NotBooting, CallsAreCalls DEF Login, Calls, SaveCalls, Entries, States, appVars, wsVars
<1>5. SavesInOrder'
  BY <1>1, <1>2, NotBooting, CallsAreCalls DEF Login, Calls, SaveCalls, Entries, States, appVars, wsVars
<1>6. SavesApart'
  BY <1>1, <1>2, NotBooting, CallsAreCalls DEF Login, Calls, SaveCalls, Entries, States, appVars, wsVars
<1>7. Consistent'
  BY <1>1, <1>2, NotBooting, CallsAreCalls DEF Login, Calls, SaveCalls, Entries, States, appVars, wsVars
<1> QED
  BY <1>3, <1>4, <1>5, <1>6, <1>7

LEMMA OnWriteKeeps ==
  ASSUME SessionInv, NEW entry \in Entries, OnWrite(entry) PROVE SessionInv'
<1>1. PICK calls \in {<< >>, <<"stamp">>} :
         Reply(entry, calls) /\ (calls = <<"stamp">> <=> entry = "role" /\ saving # "pairing")
  BY DEF OnWrite
<1>2. calls \in Seq(Calls) /\ \A c : Contains(calls, c) <=> calls = <<"stamp">> /\ c = "stamp" 
  <2>1. CASE calls = << >>
    BY <2>1, Nothing
  <2>2. CASE calls = <<"stamp">>
    <3>1. calls \in Seq(Calls)
      BY <2>2 DEF Calls
    <3>2. \A c : Contains(calls, c) <=> c = "stamp"
      BY <2>2, InOne
    <3> QED
      BY <2>2, <3>1, <3>2
  <2> QED
    BY <2>1, <2>2
<1>3. /\ queue' \in Seq(Calls) /\ Ordered(queue') /\ Once(queue', "clear")
      /\ \A c : Contains(queue', c) <=>
           Contains(Tail(queue), c) \/ (c = "stamp" /\ entry = "role" /\ saving # "pairing")
      /\ \A c : Contains(queue, c) <=> c = entry \/ Contains(Tail(queue), c)
      /\ entry = "role" => \A c \in SaveCalls : ~Contains(Tail(queue), c)
  BY <1>1, <1>2, Replied DEF SaveCalls, Entries
<1>4. SessionTypeOK'
  BY <1>1, <1>2, <1>3, NotBooting, CallsAreCalls DEF OnWrite, Calls, SaveCalls, Entries, States, appVars, wsVars
<1>5. BootsAlone'
  BY <1>1, <1>2, <1>3, NotBooting, CallsAreCalls DEF OnWrite, Calls, SaveCalls, Entries, States, appVars, wsVars
<1>6. SavesInOrder'
  BY <1>1, <1>2, <1>3, NotBooting, CallsAreCalls DEF OnWrite, Calls, SaveCalls, Entries, States, appVars, wsVars
<1>7. SavesApart'
  BY <1>1, <1>2, <1>3, NotBooting, CallsAreCalls DEF OnWrite, Calls, SaveCalls, Entries, States, appVars, wsVars
<1>8. Consistent'
  BY <1>1, <1>2, <1>3, NotBooting, CallsAreCalls DEF OnWrite, Calls, SaveCalls, Entries, States, appVars, wsVars
<1> QED
  BY <1>4, <1>5, <1>6, <1>7, <1>8

LEMMA EnterDecoyKeeps == ASSUME SessionInv, EnterDecoyMode PROVE SessionInv'
<1>1. queue' = queue
  BY DEF EnterDecoyMode
<1> QED
  BY <1>1 DEF EnterDecoyMode, Calls, SaveCalls, Entries, States, appVars, wsVars

LEMMA FallbackKeeps == ASSUME SessionInv, UseFallbackPassword PROVE SessionInv'
<1>1. queue' = queue
  BY DEF UseFallbackPassword
<1> QED
  BY <1>1 DEF UseFallbackPassword, Calls, SaveCalls, Entries, States, appVars, wsVars

LEMMA BiometricKeeps == ASSUME SessionInv, CompleteBiometricUnlock PROVE SessionInv'
<1>1. /\ ConnectCalls \in Seq(Calls)
      /\ \A c \in Marked : ~Contains(ConnectCalls, c)
  BY InConnectCalls, CallsAreCalls
<1>2. /\ queue' \in Seq(Calls) /\ Ordered(queue') /\ Once(queue', "clear")
      /\ \A c \in Marked :
           Contains(queue', c) <=> Contains(queue, c)
  BY <1>1, Called DEF CompleteBiometricUnlock
<1> QED
  BY <1>1, <1>2 DEF CompleteBiometricUnlock, Calls, SaveCalls, Entries, States, appVars, wsVars

LEMMA LockKeeps == ASSUME SessionInv, Lock PROVE SessionInv'
<1>1. queue' = queue \o <<"decide">> /\ <<"decide">> \in Seq(Calls)
      /\ \A c : Contains(<<"decide">>, c) <=> c = "decide" 
  BY AppendIsCat, CallsAreCalls DEF Lock
<1>2. /\ queue' \in Seq(Calls) /\ Ordered(queue') /\ Once(queue', "clear")
      /\ \A c : Contains(queue', c) <=> Contains(queue, c) \/ c = "decide" 
  BY <1>1, Called, CallsAreCalls
<1>3. SessionTypeOK'
  BY <1>1, <1>2, NotBooting, CallsAreCalls DEF Lock, Disconnect, Calls, SaveCalls, Entries, States, appVars, wsVars
<1>4. BootsAlone'
  BY <1>1, <1>2, NotBooting, CallsAreCalls DEF Lock, Disconnect, Calls, SaveCalls, Entries, States, appVars, wsVars
<1>5. SavesInOrder'
  BY <1>1, <1>2, NotBooting, CallsAreCalls DEF Lock, Disconnect, Calls, SaveCalls, Entries, States, appVars, wsVars
<1>6. SavesApart'
  BY <1>1, <1>2, NotBooting, CallsAreCalls DEF Lock, Disconnect, Calls, SaveCalls, Entries, States, appVars, wsVars
<1>7. Consistent'
  BY <1>1, <1>2, NotBooting, CallsAreCalls DEF Lock, Disconnect, Calls, SaveCalls, Entries, States, appVars, wsVars
<1> QED
  BY <1>3, <1>4, <1>5, <1>6, <1>7

LEMMA LogoutKeeps == ASSUME SessionInv, LogoutAndForget PROVE SessionInv'
<1>1. queue' = queue \o <<"clear">> /\ <<"clear">> \in Seq(Calls) /\ Len(<<"clear">>) = 1
      /\ \A c : Contains(<<"clear">>, c) <=> c = "clear" 
  BY AppendIsCat, CallsAreCalls DEF LogoutAndForget
<1>2. /\ queue' \in Seq(Calls) /\ Ordered(queue') /\ Once(queue', "clear")
      /\ \A c : Contains(queue', c) <=> Contains(queue, c) \/ c = "clear" 
  BY <1>1, Called, CallsAreCalls DEF LogoutAndForget
<1>3. SessionTypeOK'
  BY <1>1, <1>2, NotBooting, CallsAreCalls DEF LogoutAndForget, Disconnect, Calls, SaveCalls, Entries, States, appVars, wsVars
<1>4. BootsAlone'
  BY <1>1, <1>2, NotBooting, CallsAreCalls DEF LogoutAndForget, Disconnect, Calls, SaveCalls, Entries, States, appVars, wsVars
<1>5. SavesInOrder'
  BY <1>1, <1>2, NotBooting, CallsAreCalls DEF LogoutAndForget, Disconnect, Calls, SaveCalls, Entries, States, appVars, wsVars
<1>6. SavesApart'
  BY <1>1, <1>2, NotBooting, CallsAreCalls DEF LogoutAndForget, Disconnect, Calls, SaveCalls, Entries, States, appVars, wsVars
<1>7. Consistent'
  BY <1>1, <1>2, NotBooting, CallsAreCalls DEF LogoutAndForget, Disconnect, Calls, SaveCalls, Entries, States, appVars, wsVars
<1> QED
  BY <1>3, <1>4, <1>5, <1>6, <1>7

LEMMA KillKeeps == ASSUME SessionInv, Kill PROVE SessionInv'
<1>1. queue' = <<"boot">> /\ queue' \in Seq(Calls) /\ Ordered(queue') /\ Once(queue', "clear")
      /\ \A c : Contains(queue', c) => c = "boot" 
  BY InOne, CallsAreCalls DEF Kill, Ordered, Once
<1>2. reconnects' \in 0 .. MaxReconnects
  BY SessionAssumption DEF Kill
<1>3. SessionTypeOK'
  <2>1. socket' \in [Sockets -> {"none", "open", "closing"}]
    BY DEF Kill
  <2>2. /\ vmk' \in BOOLEAN /\ role' \in BOOLEAN /\ recent' \in BOOLEAN
        /\ timer' \in BOOLEAN /\ forgotten' \in BOOLEAN
        /\ screen' \in {"home", "content", "setup", "root"}
    BY DEF Kill
  <2>3. /\ state' \in States /\ disk' \subseteq Entries
        /\ saving' \in {"nothing", "claim", "pairing", "login"}
        /\ channel' \in Sockets \cup {NoSocket}
    BY DEF Kill, States
  <2>4. renewals' \in Nat
    BY DEF Kill
  <2> QED
    BY <1>1, <1>2, <2>1, <2>2, <2>3, <2>4
<1>4. BootsAlone'
  BY <1>1, <1>2, NotBooting, CallsAreCalls DEF Kill, Calls, SaveCalls, Entries, States, appVars, wsVars
<1>5. SavesInOrder'
  BY <1>1, <1>2, NotBooting, CallsAreCalls DEF Kill, Calls, SaveCalls, Entries, States, appVars, wsVars
<1>6. SavesApart'
  BY <1>1, <1>2, NotBooting, CallsAreCalls DEF Kill, Calls, SaveCalls, Entries, States, appVars, wsVars
<1>7. Consistent'
  <2>1. Pending("boot")'
    BY <1>1, InOne
  <2> QED
    BY <2>1 DEF Kill
<1> QED
  BY <1>3, <1>4, <1>5, <1>6, <1>7

-----------------------------------------------------------------------------
(* The other actions leave the state, the key and the calls that matter.     *)

LEMMA QuietKeeps ==
  ASSUME SessionInv, SessionTypeOK',
         UNCHANGED <<state, vmk, role, saving, forgotten, screen>>,
         recent' => recent,
         disk' \in {disk, disk \cup {"access"}},
         Ordered(queue'), Once(queue', "clear"),
         \A c \in Marked :
           Contains(queue', c) <=> Contains(queue, c),
         ~Contains(queue, "boot") \/ UNCHANGED <<queue, wsVars, renewals>>
  PROVE  SessionInv'
<1>1. BootsAlone'
  BY DEF wsVars
<1>2. SavesInOrder'
  BY DEF SaveCalls, Entries
<1>3. SavesApart'
  OBVIOUS
<1>4. Consistent'
  OBVIOUS
<1> QED
  BY <1>1, <1>2, <1>3, <1>4

\* A call that is not one of those comes to the queue.
LEMMA QuietCalls ==
  ASSUME SessionInv, NEW calls \in Seq(Calls), queue' = queue \o calls,
         \A c \in Marked : ~Contains(calls, c)
  PROVE  /\ queue' \in Seq(Calls) /\ Ordered(queue') /\ Once(queue', "clear")
         /\ \A c \in Marked :
              Contains(queue', c) <=> Contains(queue, c)
BY Called

\* Or is answered.
LEMMA QuietReply ==
  ASSUME SessionInv, NEW call, call \notin Marked,
         NEW calls \in Seq(Calls), Reply(call, calls),
         \A c \in Marked : ~Contains(calls, c)
  PROVE  /\ queue' \in Seq(Calls) /\ Ordered(queue') /\ Once(queue', "clear")
         /\ \A c \in Marked :
              Contains(queue', c) <=> Contains(queue, c)
         /\ ~Contains(queue, "boot")
<1>1. ~Contains(queue, "boot")
  BY NotBooting
<1>2. /\ queue' \in Seq(Calls) /\ Ordered(queue') /\ Once(queue', "clear")
      /\ \A c : Contains(queue', c) <=> Contains(Tail(queue), c) \/ Contains(calls, c)
      /\ \A c : Contains(queue, c) <=> c = call \/ Contains(Tail(queue), c)
  BY Replied
<1> QED
  BY <1>1, <1>2

LEMMA AutoLockKeeps == ASSUME SessionInv, AutoLock PROVE SessionInv'
<1>1. CASE Lock
  BY <1>1, LockKeeps
<1>2. CASE timer' = FALSE /\ UNCHANGED <<appVars, disk, recent, queue, saving, wsVars, renewals, forgotten, screen>>
  BY <1>2, QuietKeeps DEF appVars, wsVars
<1> QED
  BY <1>1, <1>2 DEF AutoLock

LEMMA ScreenKeeps == ASSUME SessionInv, Push \/ Back PROVE SessionInv'
<1>1. /\ UNCHANGED <<state, vmk, role, disk, recent, queue, saving, timer, channel, socket>>
      /\ UNCHANGED <<reconnects, renewals, forgotten>>
  BY DEF Push, Back, appVars, wsVars
<1>2. SessionTypeOK'
  BY <1>1 DEF Push, Back
<1>3. BootsAlone' /\ SavesInOrder'
  <2>1. ~Pending("boot")
    BY DEF Push, Back
  <2> QED
    BY <1>1, <2>1
<1>4. SavesApart'
  BY <1>1 DEF Push, Back
<1>5. Consistent'
  BY <1>1 DEF Push, Back
<1> QED
  BY <1>2, <1>3, <1>4, <1>5

LEMMA RegisterActivityKeeps == ASSUME SessionInv, RegisterActivity PROVE SessionInv'
BY QuietKeeps DEF RegisterActivity, appVars, wsVars

LEMMA WindowEndsKeeps == ASSUME SessionInv, WindowEnds PROVE SessionInv'
BY QuietKeeps DEF WindowEnds, appVars, wsVars

LEMMA OnWsServerKeeps == ASSUME SessionInv, OnWsServer PROVE SessionInv'
<1>1. PICK next \in {"wsToken", "wsNothing"} : Reply("wsServer", <<next>>)
  BY DEF OnWsServer
<1>2. /\ <<next>> \in Seq(Calls)
      /\ \A c \in Marked : ~Contains(<<next>>, c)
  BY CallsAreCalls, InOne
<1>3. /\ queue' \in Seq(Calls) /\ Ordered(queue') /\ Once(queue', "clear")
      /\ \A c \in Marked : Contains(queue', c) <=> Contains(queue, c)
      /\ ~Contains(queue, "boot")
  BY <1>1, <1>2, QuietReply, CallsAreCalls
<1> QED
  BY <1>3, QuietKeeps DEF OnWsServer, appVars, wsVars

LEMMA OnWsTokenKeeps == ASSUME SessionInv, OnWsToken PROVE SessionInv'
<1>1. PICK call \in {"wsToken", "wsNothing"} : Reply(call, << >>)
  BY DEF OnWsToken
<1>2. /\ queue' \in Seq(Calls) /\ Ordered(queue') /\ Once(queue', "clear")
      /\ \A c \in Marked : Contains(queue', c) <=> Contains(queue, c)
      /\ ~Contains(queue, "boot")
  BY <1>1, QuietReply, CallsAreCalls, Nothing
<1>3. channel' \in Sockets \cup {NoSocket} /\ socket' \in [Sockets -> {"none", "open", "closing"}]
  BY DEF OnWsToken
<1> QED
  BY <1>2, <1>3, QuietKeeps DEF OnWsToken, appVars

LEMMA SocketDoneKeeps ==
  ASSUME SessionInv, NEW s \in Sockets, SocketDone(s) PROVE SessionInv'
<1>1. ~Contains(queue, "boot")
  BY DEF SocketDone
<1>2. /\ channel' \in Sockets \cup {NoSocket} /\ reconnects' \in 0 .. MaxReconnects
      /\ socket' \in [Sockets -> {"none", "open", "closing"}]
  BY SessionAssumption DEF SocketDone
<1> QED
  BY <1>1, <1>2, QuietKeeps DEF SocketDone, appVars

LEMMA ReconnectKeeps == ASSUME SessionInv, Reconnect PROVE SessionInv'
<1>1. ~Contains(queue, "boot") /\ reconnects' \in 0 .. MaxReconnects
  BY SessionAssumption DEF Reconnect
<1>2. /\ ConnectCalls \in Seq(Calls)
      /\ \A c \in Marked : ~Contains(ConnectCalls, c)
  BY InConnectCalls, CallsAreCalls
<1>3. /\ queue' \in Seq(Calls) /\ Ordered(queue') /\ Once(queue', "clear")
      /\ \A c \in Marked : Contains(queue', c) <=> Contains(queue, c)
  BY <1>2, QuietCalls DEF Reconnect
<1> QED
  BY <1>1, <1>3, QuietKeeps DEF Reconnect, appVars

LEMMA TryRefreshKeeps == ASSUME SessionInv, TryRefresh PROVE SessionInv'
<1>1. ~Contains(queue, "boot")
  BY DEF TryRefresh
<1>2. /\ queue' = queue \o <<"renew">> /\ <<"renew">> \in Seq(Calls)
      /\ \A c \in Marked : ~Contains(<<"renew">>, c)
  BY AppendIsCat, CallsAreCalls DEF TryRefresh
<1>3. /\ queue' \in Seq(Calls) /\ Ordered(queue') /\ Once(queue', "clear")
      /\ \A c \in Marked : Contains(queue', c) <=> Contains(queue, c)
  BY <1>2, QuietCalls
<1> QED
  BY <1>1, <1>3, QuietKeeps DEF TryRefresh, appVars, wsVars

LEMMA OnRefreshKeeps == ASSUME SessionInv, OnRefresh PROVE SessionInv'
<1>1. /\ queue' \in Seq(Calls) /\ Ordered(queue') /\ Once(queue', "clear")
      /\ \A c \in Marked : Contains(queue', c) <=> Contains(queue, c)
      /\ ~Contains(queue, "boot")
  BY QuietReply, CallsAreCalls, Nothing DEF OnRefresh
<1>2. renewals' \in Nat
  BY DEF OnRefresh
<1> QED
  BY <1>1, <1>2, QuietKeeps DEF OnRefresh, appVars, wsVars

LEMMA RenewedKeeps == ASSUME SessionInv, Renewed PROVE SessionInv'
<1>1. ~Contains(queue, "boot") /\ renewals' \in Nat
  BY DEF Renewed
<1>2. /\ queue' \in Seq(Calls) /\ Ordered(queue') /\ Once(queue', "clear")
      /\ \A c \in Marked : Contains(queue', c) <=> Contains(queue, c)
  <2>1. CASE queue' = queue
    BY <2>1
  <2>2. CASE queue' = Append(queue, "renewed")
    <3>1. /\ queue' = queue \o <<"renewed">> /\ <<"renewed">> \in Seq(Calls)
          /\ \A c \in Marked : ~Contains(<<"renewed">>, c)
      BY <2>2, AppendIsCat, CallsAreCalls
    <3> QED
      BY <3>1, QuietCalls
  <2> QED
    BY <2>1, <2>2 DEF Renewed
<1> QED
  BY <1>1, <1>2, QuietKeeps DEF Renewed, appVars, wsVars

LEMMA OnRenewedKeeps == ASSUME SessionInv, OnRenewed PROVE SessionInv'
<1>1. /\ queue' \in Seq(Calls) /\ Ordered(queue') /\ Once(queue', "clear")
      /\ \A c \in Marked : Contains(queue', c) <=> Contains(queue, c)
      /\ ~Contains(queue, "boot")
  BY QuietReply, CallsAreCalls, Nothing DEF OnRenewed
<1>2. disk' \subseteq Entries
  BY DEF OnRenewed, Entries
<1> QED
  BY <1>1, <1>2, QuietKeeps DEF OnRenewed, appVars, wsVars

-----------------------------------------------------------------------------
LEMMA InitHolds == SessionInit => SessionInv
<1> SUFFICES ASSUME SessionInit PROVE SessionInv
  OBVIOUS
<1>1. queue = <<"boot">> /\ queue \in Seq(Calls) /\ Ordered(queue) /\ Once(queue, "clear")
      /\ \A c : Contains(queue, c) => c = "boot"
  <2>1. queue = <<"boot">> /\ queue \in Seq(Calls)
    BY DEF SessionInit, Calls
  <2>2. Ordered(queue) /\ Once(queue, "clear")
    BY <2>1 DEF Ordered, Once
  <2>3. \A c : Contains(queue, c) => c = "boot"
    BY <2>1, InOne
  <2> QED
    BY <2>1, <2>2, <2>3
<1>2. SessionTypeOK
  <2>1. socket \in [Sockets -> {"none", "open", "closing"}] /\ channel \in Sockets \cup {NoSocket}
    BY DEF SessionInit
  <2>2. reconnects \in 0 .. MaxReconnects /\ renewals \in Nat
    BY SessionAssumption DEF SessionInit
  <2>3. /\ vmk \in BOOLEAN /\ role \in BOOLEAN /\ recent \in BOOLEAN
        /\ timer \in BOOLEAN /\ forgotten \in BOOLEAN
        /\ screen \in {"home", "content", "setup", "root"}
    BY DEF SessionInit
  <2>4. state \in States /\ disk \subseteq Entries /\ saving \in {"nothing", "claim", "pairing", "login"}
    BY DEF SessionInit, States
  <2> QED
    BY <1>1, <2>1, <2>2, <2>3, <2>4
<1>3. BootsAlone /\ SavesInOrder /\ SavesApart /\ Consistent
  BY <1>1 DEF SessionInit, SaveCalls, Entries
<1> QED
  BY <1>2, <1>3

LEMMA StepKeeps == SessionInv /\ [SessionNext]_sessionVars => SessionInv'
<1> SUFFICES ASSUME SessionInv, [SessionNext]_sessionVars PROVE SessionInv'
  OBVIOUS
<1>1. CASE OnBoot
  BY <1>1, OnBootKeeps
<1>2. CASE OnDecide
  BY <1>2, OnDecideKeeps
<1>3. CASE Setup("claim")
  BY <1>3, SetupKeeps
<1>4. CASE Setup("pairing")
  BY <1>4, SetupKeeps
<1>5. CASE Login
  BY <1>5, LoginKeeps
<1>6. CASE OnRelogin
  BY <1>6, OnReloginKeeps
<1>7. CASE OnStamp
  BY <1>7, OnStampKeeps
<1>8. CASE \E entry \in Entries : OnWrite(entry)
  BY <1>8, OnWriteKeeps
<1>9. CASE EnterDecoyMode
  BY <1>9, EnterDecoyKeeps
<1>10. CASE CompleteBiometricUnlock
  BY <1>10, BiometricKeeps
<1>11. CASE UseFallbackPassword
  BY <1>11, FallbackKeeps
<1>12. CASE AppPaused
  BY <1>12, LockKeeps DEF AppPaused
<1>13. CASE AutoLock
  BY <1>13, AutoLockKeeps
<1>14. CASE RegisterActivity
  BY <1>14, RegisterActivityKeeps
<1>15. CASE LogoutAndForget
  BY <1>15, LogoutKeeps
<1>16. CASE OnClear
  BY <1>16, OnClearKeeps
<1>17. CASE WindowEnds
  BY <1>17, WindowEndsKeeps
<1>18. CASE Kill
  BY <1>18, KillKeeps
<1>19. CASE OnWsServer
  BY <1>19, OnWsServerKeeps
<1>20. CASE OnWsToken
  BY <1>20, OnWsTokenKeeps
<1>21. CASE Reconnect
  BY <1>21, ReconnectKeeps
<1>22. CASE \E s \in Sockets : SocketDone(s)
  BY <1>22, SocketDoneKeeps
<1>23. CASE TryRefresh
  BY <1>23, TryRefreshKeeps
<1>24. CASE OnRefresh
  BY <1>24, OnRefreshKeeps
<1>25. CASE Renewed
  BY <1>25, RenewedKeeps
<1>26. CASE OnRenewed
  BY <1>26, OnRenewedKeeps
<1>27. CASE UNCHANGED sessionVars
  BY <1>27 DEF sessionVars, appVars, wsVars
<1>28. CASE Push \/ Back
  BY <1>28, ScreenKeeps
<1> QED
  BY <1>1, <1>2, <1>3, <1>4, <1>5, <1>6, <1>7, <1>8, <1>9, <1>10, <1>11, <1>12, <1>13, <1>14, <1>15, <1>16, <1>17, <1>18, <1>19, <1>20, <1>21, <1>22, <1>23, <1>24, <1>25, <1>26, <1>27, <1>28 DEF SessionNext

HIDE DEF SessionInv, SessionTypeOK, BootsAlone, SavesInOrder, SavesApart, Consistent, Pending,
         Marked

\* session_provider.dart:91-332, secure_storage_service.dart:33-41, ws_client.dart,
\* api_client.dart: whatever overlaps, and though a phone may be claimed or paired again
\* over an open session, the writes of a session come in their order and are never
\* undone half-way by a logout; and the key in memory, the entries on disk, the state of
\* the app and the screen on top of it agree.
THEOREM Invariance == SessionSpec => []SessionInv
BY InitHolds, StepKeeps, PTL DEF SessionSpec

-----------------------------------------------------------------------------
(* A session implements AppLock. *)

LEMMA LockStep == SessionInv /\ [SessionNext]_sessionVars => [Lockbox!LockNext]_(Lockbox!lockVars)
<1> SUFFICES ASSUME SessionInv, [SessionNext]_sessionVars
             PROVE  Lockbox!LockNext \/ UNCHANGED <<Door, Left, recent, forgotten>>
  BY DEF Lockbox!lockVars
<1> USE DEF Door, Left, appVars
<1>1. CASE OnBoot
  <2>1. Pending("boot")
    BY <1>1 DEF OnBoot, Reply, Pending, Contains, SessionInv, SessionTypeOK
  <2>2. ~vmk /\ state = "unknown"
    BY <2>1 DEF SessionInv, BootsAlone
  <2> QED
    BY <1>1, <2>2 DEF OnBoot
<1>2. CASE OnDecide
  <2>1. CASE vmk /\ recent
    BY <1>2, <2>1 DEF OnDecide, Lockbox!LockNext, Lockbox!Offer
  <2>2. CASE ~(vmk /\ recent)
    BY <1>2, <2>2 DEF OnDecide, Lockbox!LockNext, Lockbox!Shut
  <2> QED
    BY <2>1, <2>2
<1>3. CASE Setup("claim")
  BY <1>3 DEF Setup, Lockbox!LockNext, Lockbox!SetUp
<1>4. CASE Setup("pairing")
  BY <1>4 DEF Setup, Lockbox!LockNext, Lockbox!SetUp
<1>5. CASE Login
  BY <1>5 DEF Login
<1>6. CASE OnRelogin
  BY <1>6 DEF OnRelogin
<1>7. CASE OnStamp
  <2>1. Pending("stamp")
    BY <1>7 DEF OnStamp, Reply, Pending, Contains, SessionInv, SessionTypeOK
  <2>2. saving \in {"claim", "login"}
    BY <2>1 DEF SessionInv, SavesInOrder
  <2>3. ~forgotten /\ (vmk \/ saving = "claim")
    BY <2>2 DEF SessionInv, SavesApart, Consistent
  <2> QED
    BY <1>7, <2>3 DEF OnStamp, Lockbox!LockNext, Lockbox!Password
<1>8. CASE \E entry \in Entries : OnWrite(entry)
  <2>1. PICK entry \in Entries : OnWrite(entry)
    BY <1>8
  <2>2. CASE entry = "role" /\ saving = "pairing"
    <3>1. screen \in {"setup", "root"}
      BY <2>2 DEF SessionInv, SavesApart
    <3> QED
      BY <2>1, <2>2, <3>1 DEF OnWrite, Lockbox!LockNext, Lockbox!Shut
  <2>3. CASE ~(entry = "role" /\ saving = "pairing")
    BY <2>1, <2>3 DEF OnWrite
  <2> QED
    BY <2>2, <2>3
<1>9. CASE EnterDecoyMode
  BY <1>9 DEF EnterDecoyMode, Lockbox!LockNext, Lockbox!Shut
<1>10. CASE CompleteBiometricUnlock
  BY <1>10 DEF CompleteBiometricUnlock, Lockbox!LockNext, Lockbox!Tap
<1>11. CASE UseFallbackPassword
  BY <1>11 DEF UseFallbackPassword, Lockbox!LockNext, Lockbox!Shut
<1>12. CASE AppPaused
  BY <1>12 DEF AppPaused, Lock
<1>13. CASE AutoLock
  BY <1>13 DEF AutoLock, Lock
<1>14. CASE RegisterActivity
  BY <1>14 DEF RegisterActivity
<1>15. CASE LogoutAndForget
  BY <1>15 DEF LogoutAndForget
<1>16. CASE OnClear
  BY <1>16 DEF OnClear, Lockbox!LockNext, Lockbox!Forget
<1>17. CASE WindowEnds
  BY <1>17 DEF WindowEnds, Lockbox!LockNext, Lockbox!HourPasses
<1>18. CASE Kill
  BY <1>18 DEF Kill, Lockbox!LockNext, Lockbox!Restart
<1>19. CASE OnWsServer
  BY <1>19 DEF OnWsServer
<1>20. CASE OnWsToken
  BY <1>20 DEF OnWsToken
<1>21. CASE Reconnect
  BY <1>21 DEF Reconnect
<1>22. CASE \E s \in Sockets : SocketDone(s)
  BY <1>22 DEF SocketDone
<1>23. CASE TryRefresh
  BY <1>23 DEF TryRefresh
<1>24. CASE OnRefresh
  BY <1>24 DEF OnRefresh
<1>25. CASE Renewed
  BY <1>25 DEF Renewed
<1>26. CASE OnRenewed
  BY <1>26 DEF OnRenewed
<1>27. CASE UNCHANGED sessionVars
  BY <1>27 DEF sessionVars
<1>28. CASE Push
  BY <1>28 DEF Push, SessionInv, Consistent, Lockbox!LockNext, Lockbox!PutOnTop
<1>29. CASE Back
  BY <1>29 DEF Back, Lockbox!LockNext, Lockbox!Leave
<1> QED
  BY <1>1, <1>2, <1>3, <1>4, <1>5, <1>6, <1>7, <1>8, <1>9, <1>10, <1>11, <1>12, <1>13, <1>14, <1>15, <1>16, <1>17, <1>18, <1>19, <1>20, <1>21, <1>22, <1>23, <1>24, <1>25, <1>26, <1>27, <1>28, <1>29 DEF SessionNext

\* session_provider.dart:134-332, main.dart:80: for any number of channels and
\* reconnects, beneath all the awaiting the session keeps what AppLock promises: it
\* opens with the password or a tap that was offered within the hour, and a screen of it
\* comes on top only while it is open -- though it stays there through a lock.
THEOREM Refinement == SessionSpec => ImplementsAppLock
<1>1. SessionInit => Lockbox!LockInit
  BY DEF SessionInit, Lockbox!LockInit, Door, Left
<1>2. SessionSpec => []SessionInv
  BY Invariance
<1> QED
  BY <1>1, <1>2, LockStep, PTL DEF SessionSpec, ImplementsAppLock, Lockbox!LockSpec

-----------------------------------------------------------------------------
(* An open session is guarded. *)

\* A call under way is so until it is answered.
LEMMA StillPending ==
  ASSUME SessionInv, NEW c, Pending(c),
         \/ \E call \in Calls \ {c}, calls \in Seq(Calls) : Reply(call, calls)
         \/ \E calls \in Seq(Calls) : queue' = queue \o calls
  PROVE  Pending(c)'
<1> USE DEF Pending
<1>1. queue \in Seq(Calls)
  BY DEF SessionInv, SessionTypeOK
<1>2. ASSUME NEW call \in Calls \ {c}, NEW calls \in Seq(Calls), Reply(call, calls)
      PROVE  Contains(queue', c)
  <2>1. queue # << >> /\ Head(queue) = call /\ queue' = Tail(queue) \o calls
    BY <1>2 DEF Reply
  <2>2. Tail(queue) \in Seq(Calls) /\ Contains(Tail(queue), c)
    BY <1>1, <1>2, <2>1, InTail
  <2> QED
    BY <1>2, <2>1, <2>2, InCat
<1>3. ASSUME NEW calls \in Seq(Calls), queue' = queue \o calls
      PROVE  Contains(queue', c)
  BY <1>1, <1>3, InCat
<1> QED
  BY <1>2, <1>3

LEMMA GuardStep == SessionInv /\ NeverUnguarded /\ [SessionNext]_sessionVars => NeverUnguarded'
<1> SUFFICES ASSUME SessionInv, NeverUnguarded, [SessionNext]_sessionVars, state' = "authenticated"
             PROVE  timer' \/ Pending("decide")' \/ Pending("clear")'
  BY DEF NeverUnguarded
<1> DEFINE Closing == Pending("decide") \/ Pending("clear")
<1>a. queue \in Seq(Calls) /\ << >> \in Seq(Calls) /\ Writes \in Seq(Calls) /\ ConnectCalls \in Seq(Calls)
      /\ \A c \in Calls : <<c>> \in Seq(Calls) /\ Append(queue, c) = queue \o <<c>>
  BY Nothing, InConnectCalls, AppendIsCat DEF SessionInv, SessionTypeOK, Writes, Calls, Entries
<1>b. state = "authenticated" => timer \/ Closing
  BY DEF NeverUnguarded
<1>c. ASSUME Lock PROVE Pending("decide")'
  <2>1. queue' = queue \o <<"decide">> /\ <<"decide">> \in Seq(Calls)
    BY <1>a, <1>c, CallsAreCalls DEF Lock
  <2> QED
    BY <1>a, <2>1, InCat, InOne, ZenonT(30) DEF Pending
<1>1. CASE OnBoot
  <2>1. Pending("boot")
    BY <1>1, <1>a DEF OnBoot, Reply, Pending, Contains
  <2> QED
    BY <1>1, <2>1 DEF OnBoot, SessionInv, BootsAlone
<1>2. CASE OnDecide
  BY <1>2 DEF OnDecide
<1>3. CASE Setup("claim")
  <2>1. Closing => Closing'
    BY <1>3, <1>a, StillPending DEF Setup
  <2> QED
    BY <1>3, <1>b, <2>1 DEF Setup, appVars
<1>4. CASE Setup("pairing")
  <2>1. Closing => Closing'
    BY <1>4, <1>a, StillPending DEF Setup
  <2> QED
    BY <1>4, <1>b, <2>1 DEF Setup, appVars
<1>5. CASE Login
  BY <1>5 DEF Login, appVars
<1>6. CASE OnRelogin
  <2>1. Closing => Closing'
    BY <1>6, <1>a, StillPending DEF OnRelogin, Calls
  <2> QED
    BY <1>6, <1>b, <2>1 DEF OnRelogin, appVars
<1>7. CASE OnStamp
  BY <1>7 DEF OnStamp
<1>8. CASE \E entry \in Entries : OnWrite(entry)
  <2>1. Closing => Closing'
    BY <1>8, <1>a, StillPending DEF OnWrite, Calls, Entries
  <2> QED
    BY <1>8, <1>b, <2>1 DEF OnWrite, appVars
<1>9. CASE EnterDecoyMode
  BY <1>9 DEF EnterDecoyMode
<1>10. CASE CompleteBiometricUnlock
  BY <1>10 DEF CompleteBiometricUnlock
<1>11. CASE UseFallbackPassword
  BY <1>11 DEF UseFallbackPassword
<1>12. CASE AppPaused
  BY <1>12, <1>c DEF AppPaused
<1>13. CASE AutoLock
  BY <1>13, <1>c DEF AutoLock, appVars
<1>14. CASE RegisterActivity
  BY <1>14 DEF RegisterActivity
<1>15. CASE LogoutAndForget
  <2>1. queue' = queue \o <<"clear">> /\ <<"clear">> \in Seq(Calls)
    BY <1>15, <1>a, CallsAreCalls DEF LogoutAndForget
  <2>2. Pending("clear")'
    BY <1>a, <2>1, InCat, InOne, ZenonT(30) DEF Pending
  <2> QED
    BY <2>2
<1>16. CASE OnClear
  BY <1>16 DEF OnClear
<1>17. CASE WindowEnds
  BY <1>17, <1>b DEF WindowEnds, appVars, Pending
<1>18. CASE Kill
  BY <1>18 DEF Kill
<1>19. CASE OnWsServer
  <2>1. Closing => Closing'
    BY <1>19, <1>a, StillPending DEF OnWsServer, Calls
  <2> QED
    BY <1>19, <1>b, <2>1 DEF OnWsServer, appVars
<1>20. CASE OnWsToken
  <2>1. Closing => Closing'
    BY <1>20, <1>a, StillPending DEF OnWsToken, Calls
  <2> QED
    BY <1>20, <1>b, <2>1 DEF OnWsToken, appVars
<1>21. CASE Reconnect
  <2>1. Closing => Closing'
    BY <1>21, <1>a, StillPending DEF Reconnect, Calls
  <2> QED
    BY <1>21, <1>b, <2>1 DEF Reconnect, appVars
<1>22. CASE \E s \in Sockets : SocketDone(s)
  BY <1>22, <1>b DEF SocketDone, appVars, Pending
<1>23. CASE TryRefresh
  <2>1. Closing => Closing'
    BY <1>23, <1>a, StillPending DEF TryRefresh, Calls
  <2> QED
    BY <1>23, <1>b, <2>1 DEF TryRefresh, appVars
<1>24. CASE OnRefresh
  <2>1. Closing => Closing'
    BY <1>24, <1>a, StillPending DEF OnRefresh, Calls
  <2> QED
    BY <1>24, <1>b, <2>1 DEF OnRefresh, appVars
<1>25. CASE Renewed
  <2>1. Closing => Closing'
    <3>1. CASE queue' = queue
      BY <3>1 DEF Pending
    <3>2. CASE queue' = Append(queue, "renewed")
      BY <1>a, <3>2, StillPending DEF Calls
    <3> QED
      BY <1>25, <3>1, <3>2 DEF Renewed
  <2> QED
    BY <1>25, <1>b, <2>1 DEF Renewed, appVars
<1>26. CASE OnRenewed
  <2>1. Closing => Closing'
    BY <1>26, <1>a, StillPending DEF OnRenewed, Calls
  <2> QED
    BY <1>26, <1>b, <2>1 DEF OnRenewed, appVars
<1>27. CASE UNCHANGED sessionVars
  BY <1>27, <1>b DEF sessionVars, appVars, Pending
<1>28. CASE Push \/ Back
  BY <1>28, <1>b DEF Push, Back, appVars, Pending
<1> QED
  BY <1>1, <1>2, <1>3, <1>4, <1>5, <1>6, <1>7, <1>8, <1>9, <1>10, <1>11, <1>12, <1>13, <1>14, <1>15, <1>16, <1>17, <1>18, <1>19, <1>20, <1>21, <1>22, <1>23, <1>24, <1>25, <1>26, <1>27, <1>28 DEF SessionNext

\* session_provider.dart:304-319: for any number of channels, an open session is never
\* left without its inactivity timer unless a lock or a logout is already closing it.
THEOREM Guarded == SessionSpec => []NeverUnguarded
<1>1. SessionInit => NeverUnguarded
  BY DEF SessionInit, NeverUnguarded
<1> QED
  BY <1>1, Invariance, GuardStep, PTL DEF SessionSpec

-----------------------------------------------------------------------------
\* What the abstract lock promises, proved of it: whatever implements it, as a
\* session does, inherits this.
LEMMA ForgottenIsShut == Lockbox!LockSpec => []Lockbox!ForgottenStaysShut
<1> USE DEF Lockbox!ForgottenStaysShut
<1>1. Lockbox!LockInit => Lockbox!ForgottenStaysShut
  BY DEF Lockbox!LockInit
<1>2. Lockbox!ForgottenStaysShut /\ [Lockbox!LockNext]_(Lockbox!lockVars)
        => Lockbox!ForgottenStaysShut'
  <2> SUFFICES ASSUME Lockbox!ForgottenStaysShut, [Lockbox!LockNext]_(Lockbox!lockVars)
               PROVE  Lockbox!ForgottenStaysShut'
    OBVIOUS
  <2>1. CASE Lockbox!Password
    BY <2>1 DEF Lockbox!Password
  <2>2. CASE Lockbox!Tap
    BY <2>2 DEF Lockbox!Tap
  <2>3. CASE Lockbox!Offer
    BY <2>3 DEF Lockbox!Offer
  <2>4. CASE Lockbox!Shut
    BY <2>4 DEF Lockbox!Shut
  <2>5. CASE Lockbox!HourPasses
    BY <2>5 DEF Lockbox!HourPasses
  <2>6. CASE Lockbox!Forget
    BY <2>6 DEF Lockbox!Forget
  <2>7. CASE Lockbox!SetUp
    BY <2>7 DEF Lockbox!SetUp
  <2>8. CASE Lockbox!Restart
    BY <2>8 DEF Lockbox!Restart
  <2>9. CASE Lockbox!PutOnTop
    BY <2>9 DEF Lockbox!PutOnTop
  <2>10. CASE Lockbox!Leave
    BY <2>10 DEF Lockbox!Leave
  <2>11. CASE UNCHANGED Lockbox!lockVars
    BY <2>11 DEF Lockbox!lockVars
  <2> QED
    BY <2>1, <2>2, <2>3, <2>4, <2>5, <2>6, <2>7, <2>8, <2>9, <2>10, <2>11 DEF Lockbox!LockNext
<1> QED
  BY <1>1, <1>2, PTL DEF Lockbox!LockSpec

\* logoutAndForget (session_provider.dart:321-332, settings_screen.dart:107-112): once
\* the phone has been made to forget, no tap, lock or passing hour opens the door or
\* offers the tap again, and no screen of the session is left on top, until the phone
\* is set up anew.
THEOREM ForgottenStaysForgotten == SessionSpec => []Lockbox!ForgottenStaysShut
<1> QED
  BY Refinement, ForgottenIsShut, PTL DEF ImplementsAppLock

(* An open session finds its way back online. *)

\* Calls that come after one another in a saveSession.
LEMMA AloneInOrder ==
  ASSUME NEW q \in Seq(Calls), Ordered(q)
  PROVE  /\ Contains(q, "stamp") => \A c \in SaveCalls \ {"stamp"} : ~Contains(q, c)
         /\ q # << >> /\ Head(q) = "vmk" => ~Contains(q, "relogin") /\ ~Contains(q, "server")
<1>1. Len(q) \in Nat
  OBVIOUS
<1>2. ASSUME Contains(q, "stamp"), NEW c \in SaveCalls \ {"stamp"}, Contains(q, c) PROVE FALSE
  <2>1. PICK i \in 1 .. Len(q) : q[i] = "stamp"
    BY <1>2 DEF Contains
  <2>2. PICK j \in 1 .. Len(q) : q[j] = c
    BY <1>2 DEF Contains
  <2>3. i < j \/ j < i
    BY <1>1, <1>2, <2>1, <2>2
  <2> QED
    BY <1>2, <2>1, <2>2, <2>3 DEF Ordered, SaveCalls, Entries
<1>3. ASSUME q # << >>, Head(q) = "vmk", NEW c \in {"relogin", "server"}, Contains(q, c) PROVE FALSE
  <2>1. 1 \in 1 .. Len(q) /\ q[1] = "vmk"
    BY <1>3
  <2>2. PICK j \in 1 .. Len(q) : q[j] = c
    BY <1>3 DEF Contains
  <2>3. 1 < j
    BY <1>1, <1>3, <2>1, <2>2
  <2>4. "vmk" \in SaveCalls /\ c \in SaveCalls
    BY <1>3 DEF SaveCalls, Entries
  <2>5. c \in Entries /\ Step["vmk"] < Step[c]
    BY <2>1, <2>2, <2>3, <2>4 DEF Ordered
  <2> QED
    BY <1>3, <2>5 DEF Entries, Step
<1> QED
  BY <1>2, <1>3

LEMMA NothingTail ==
  ASSUME NEW q \in Seq(Calls), q # << >>, NothingBefore(q)
  PROVE  /\ NothingBefore(Tail(q))
         /\ Head(q) = "stamp" => ~Contains(Tail(q), "wsNothing")
<1>1. Len(q) \in Nat \ {0} /\ Head(q) = q[1] /\ Len(Tail(q)) = Len(q) - 1
  OBVIOUS
<1>2. \A i \in 1 .. Len(q) - 1 : Tail(q)[i] = q[i + 1]
  OBVIOUS
<1>3. NothingBefore(Tail(q))
  <2> SUFFICES ASSUME NEW i \in 1 .. Len(q) - 1, NEW j \in 1 .. Len(q) - 1,
                      q[i + 1] = "stamp", q[j + 1] = "wsNothing"
               PROVE  j < i
    BY <1>1, <1>2 DEF NothingBefore
  <2>1. i + 1 \in 1 .. Len(q) /\ j + 1 \in 1 .. Len(q)
    BY <1>1
  <2>2. j + 1 < i + 1
    BY <2>1 DEF NothingBefore
  <2> QED
    BY <2>2
<1>4. ASSUME Head(q) = "stamp", Contains(Tail(q), "wsNothing") PROVE FALSE
  <2>1. PICK j \in 1 .. Len(q) - 1 : q[j + 1] = "wsNothing"
    BY <1>1, <1>2, <1>4 DEF Contains
  <2>2. 1 \in 1 .. Len(q) /\ j + 1 \in 1 .. Len(q) /\ ~(j + 1 < 1)
    BY <1>1
  <2> QED
    BY <1>1, <1>4, <2>1, <2>2 DEF NothingBefore
<1> QED
  BY <1>3, <1>4

LEMMA NothingCat ==
  ASSUME NEW q \in Seq(Calls), NEW r \in Seq(Calls), NothingBefore(q),
         \/ ~Contains(r, "wsNothing")
         \/ ~Contains(q, "stamp") /\ ~Contains(r, "stamp")
  PROVE  NothingBefore(q \o r)
<1>1. /\ Len(q) \in Nat /\ Len(r) \in Nat /\ Len(q \o r) = Len(q) + Len(r)
      /\ \A i \in 1 .. Len(q) : (q \o r)[i] = q[i]
      /\ \A i \in 1 .. Len(r) : (q \o r)[Len(q) + i] = r[i]
  OBVIOUS
<1>2. ASSUME NEW c, NEW i \in 1 .. Len(q \o r), (q \o r)[i] = c
      PROVE  \/ i \in 1 .. Len(q) /\ q[i] = c
             \/ i > Len(q) /\ Contains(r, c)
  <2>1. CASE i \in 1 .. Len(q)
    BY <1>1, <1>2, <2>1
  <2>2. CASE i \notin 1 .. Len(q)
    <3>1. i > Len(q) /\ i - Len(q) \in 1 .. Len(r) /\ i = Len(q) + (i - Len(q))
      BY <1>1, <2>2
    <3>2. r[i - Len(q)] = c
      BY <1>1, <1>2, <3>1
    <3> QED
      BY <3>1, <3>2 DEF Contains
  <2> QED
    BY <2>1, <2>2
<1> SUFFICES ASSUME NEW i \in 1 .. Len(q \o r), NEW j \in 1 .. Len(q \o r),
                    (q \o r)[i] = "stamp", (q \o r)[j] = "wsNothing"
             PROVE  j < i
  BY DEF NothingBefore
<1>3. CASE ~Contains(r, "wsNothing")
  <2>1. j \in 1 .. Len(q) /\ q[j] = "wsNothing"
    BY <1>2, <1>3
  <2>2. CASE i \in 1 .. Len(q) /\ q[i] = "stamp"
    BY <2>1, <2>2 DEF NothingBefore
  <2>3. CASE i > Len(q)
    BY <1>1, <2>1, <2>3
  <2> QED
    BY <1>2, <2>2, <2>3
<1>4. CASE ~Contains(q, "stamp") /\ ~Contains(r, "stamp")
  BY <1>2, <1>4 DEF Contains
<1> QED
  BY <1>3, <1>4

\* What a reply and a new call do to the queue, once more.
LEMMA NothingReplied ==
  ASSUME SessionInv, ServerKnown, NEW call, NEW calls \in Seq(Calls), Reply(call, calls),
         ~Contains(calls, "wsNothing") \/ (~Contains(queue, "stamp") /\ ~Contains(calls, "stamp"))
  PROVE  /\ queue' \in Seq(Calls) /\ NothingBefore(queue')
         /\ Pending(call) /\ Head(queue) = call /\ queue # << >> /\ queue \in Seq(Calls)
         /\ \A c : c # call => (Contains(queue', c) <=> Contains(queue, c) \/ Contains(calls, c))
         /\ Contains(queue', call) => Contains(queue, call) \/ Contains(calls, call)
         /\ call = "stamp" /\ ~Contains(calls, "wsNothing") => ~Contains(queue', "wsNothing")
<1>1. queue \in Seq(Calls) /\ queue # << >> /\ Head(queue) = call /\ queue' = Tail(queue) \o calls
  BY DEF Reply, SessionInv, SessionTypeOK
<1>2. /\ Tail(queue) \in Seq(Calls)
      /\ \A c : Contains(queue, c) <=> c = call \/ Contains(Tail(queue), c)
  BY <1>1, InTail
<1>3. /\ queue' \in Seq(Calls)
      /\ \A c : Contains(queue', c) <=> Contains(Tail(queue), c) \/ Contains(calls, c)
  BY <1>1, <1>2, InCat
<1>4. /\ NothingBefore(Tail(queue))
      /\ Head(queue) = "stamp" => ~Contains(Tail(queue), "wsNothing")
  BY <1>1, NothingTail DEF ServerKnown
<1>5. NothingBefore(queue')
  BY <1>1, <1>2, <1>4, NothingCat
<1> QED
  BY <1>1, <1>2, <1>3, <1>4, <1>5 DEF Pending

LEMMA NothingCalled ==
  ASSUME SessionInv, ServerKnown, NEW calls \in Seq(Calls), queue' = queue \o calls,
         ~Contains(calls, "wsNothing")
  PROVE  /\ queue' \in Seq(Calls) /\ NothingBefore(queue')
         /\ \A c : Contains(queue', c) <=> Contains(queue, c) \/ Contains(calls, c)
<1>1. queue \in Seq(Calls)
  BY DEF SessionInv, SessionTypeOK
<1> QED
  BY <1>1, InCat, NothingCat DEF ServerKnown

\* Steps that leave the session and the calls that matter here alone.
LEMMA ServerStays ==
  ASSUME ServerKnown, UNCHANGED <<vmk, saving>>,
         state' \in {"authenticated", "needsBiometric"} => state \in {"authenticated", "needsBiometric"},
         recent' => recent, disk' \in {disk, disk \cup {"access"}},
         \A c \in {"server", "relogin", "boot"} : Contains(queue, c) => Contains(queue', c),
         Contains(queue', "wsNothing") => Contains(queue, "wsNothing"),
         NothingBefore(queue')
  PROVE  ServerKnown'
BY DEF ServerKnown, Pending

LEMMA SeqsOfCalls ==
  /\ << >> \in Seq(Calls) /\ Writes \in Seq(Calls) /\ ConnectCalls \in Seq(Calls)
  /\ ~Contains(ConnectCalls, "wsNothing") /\ ~Contains(<< >>, "wsNothing")
  /\ ~Contains(Writes, "wsNothing")
  /\ \A c \in Calls : <<c>> \in Seq(Calls) /\ \A d : Contains(<<c>>, d) <=> d = c
<1>1. << >> \in Seq(Calls) /\ ~Contains(<< >>, "wsNothing")
  BY Nothing
<1>2. Writes \in Seq(Calls) /\ ~Contains(Writes, "wsNothing")
  BY InWrites DEF Writes, Calls, Entries
<1>3. ConnectCalls \in Seq(Calls) /\ ~Contains(ConnectCalls, "wsNothing")
  BY InConnectCalls DEF Calls
<1>4. \A c \in Calls : <<c>> \in Seq(Calls)
  OBVIOUS
<1>5. \A c \in Calls : \A d : Contains(<<c>>, d) <=> d = c
  BY InOne
<1> QED
  BY <1>1, <1>2, <1>3, <1>4, <1>5

\* The steps that do not.
LEMMA OnBootServer == ASSUME SessionInv, ServerKnown, OnBoot PROVE ServerKnown'
<1>1. /\ queue = <<"boot">> /\ Tail(queue) = << >> /\ state = "unknown" /\ ~vmk
      /\ saving = "nothing"
  BY DEF OnBoot, Reply, Contains, SessionInv, SessionTypeOK, BootsAlone, Pending
<1>2. queue' = << >> \/ queue' = <<"decide">>
  BY <1>1 DEF OnBoot, Reply
<1>3. \A c : Contains(queue', c) => c = "decide"
  BY <1>2, InNone, InOne
<1>4. NothingBefore(queue')
  <2>1. \A i \in 1 .. Len(queue') : queue'[i] # "stamp"
    BY <1>2
  <2> QED
    BY <2>1 DEF NothingBefore
<1>5. ~Pending("wsNothing")'
  BY <1>3 DEF Pending
<1>6. UNCHANGED <<disk, recent, saving>>
  BY DEF OnBoot
<1>7. CASE {"access", "vmk"} \subseteq disk
  <2>1. vmk' = TRUE /\ state' = state
    BY <1>7 DEF OnBoot
  <2> QED
    BY <1>1, <1>4, <1>5, <1>6, <1>7, <2>1 DEF ServerKnown
<1>8. CASE ~({"access", "vmk"} \subseteq disk)
  <2>1. vmk' = vmk /\ state' = "needsSetup" /\ ~recent
    BY <1>8 DEF OnBoot, SessionInv, Consistent
  <2> QED
    BY <1>1, <1>4, <1>5, <1>6, <2>1 DEF ServerKnown
<1> QED
  BY <1>7, <1>8

LEMMA OnDecideServer == ASSUME SessionInv, ServerKnown, OnDecide PROVE ServerKnown'
<1>1. Reply("decide", << >>) /\ UNCHANGED <<vmk, disk, recent, saving>>
      /\ state' = IF recent THEN "needsBiometric" ELSE "locked"
  BY DEF OnDecide
<1>2. /\ NothingBefore(queue')
      /\ \A c : c # "decide" => (Contains(queue', c) <=> Contains(queue, c))
  BY <1>1, NothingReplied, SeqsOfCalls, InNone
<1>3. ~Pending("boot")
  BY <1>1, NotBooting DEF Pending
<1>4. state' \in {"authenticated", "needsBiometric"} => recent
  BY <1>1
<1> QED
  BY <1>1, <1>2, <1>3, <1>4 DEF ServerKnown, Pending

LEMMA SetupServer ==
  ASSUME SessionInv, ServerKnown, NEW what \in {"claim", "pairing"}, Setup(what) PROVE ServerKnown'
<1>1. queue' = queue \o Writes /\ UNCHANGED <<vmk, state, disk, recent>>
  BY DEF Setup, appVars
<1>2. /\ NothingBefore(queue')
      /\ \A c : Contains(queue', c) <=> Contains(queue, c) \/ c \in Entries
  BY <1>1, NothingCalled, SeqsOfCalls, InWrites
<1> QED
  BY <1>1, <1>2 DEF ServerKnown, Pending, Entries

LEMMA LoginServer == ASSUME SessionInv, ServerKnown, Login PROVE ServerKnown'
<1>1. /\ queue' = queue \o <<"relogin">> /\ UNCHANGED <<vmk, state, disk, recent>>
      /\ "relogin" \in Calls
  BY DEF Login, appVars, Calls
<1>2. /\ NothingBefore(queue')
      /\ \A c : Contains(queue', c) <=> Contains(queue, c) \/ c = "relogin"
  BY <1>1, NothingCalled, SeqsOfCalls
<1> QED
  BY <1>1, <1>2 DEF ServerKnown, Pending

LEMMA OnReloginServer == ASSUME SessionInv, ServerKnown, OnRelogin PROVE ServerKnown'
<1>1. Reply("relogin", Writes) /\ UNCHANGED <<vmk, state, disk, recent, saving>>
  BY DEF OnRelogin, appVars
<1>2. /\ NothingBefore(queue')
      /\ \A c : c # "relogin" => (Contains(queue', c) <=> Contains(queue, c) \/ c \in Entries)
  BY <1>1, NothingReplied, SeqsOfCalls, InWrites
<1> QED
  BY <1>1, <1>2 DEF ServerKnown, Pending, Entries

LEMMA OnWriteServer ==
  ASSUME SessionInv, ServerKnown, NEW entry \in Entries, OnWrite(entry) PROVE ServerKnown'
<1>1. PICK calls \in {<< >>, <<"stamp">>} : Reply(entry, calls)
  BY DEF OnWrite
<1>2. calls \in Seq(Calls) /\ \A c : Contains(calls, c) => c = "stamp"
  <2>1. CASE calls = << >>
    BY <2>1, Nothing
  <2>2. CASE calls = <<"stamp">>
    <3>1. "stamp" \in Calls
      BY DEF Calls
    <3> QED
      BY <2>2, <3>1, SeqsOfCalls
  <2> QED
    BY <2>1, <2>2
<1>3. /\ NothingBefore(queue') /\ Pending(entry) /\ Head(queue) = entry
      /\ queue # << >> /\ queue \in Seq(Calls)
      /\ \A c \in {"server", "relogin", "boot", "wsNothing"} :
           c # entry => (Contains(queue', c) <=> Contains(queue, c))
  BY <1>1, <1>2, NothingReplied
<1>4. /\ disk' = disk \cup {entry} /\ recent' = recent
      /\ IF entry = "role" /\ saving = "pairing"
         THEN vmk' = TRUE /\ state' = "locked" /\ saving' = "nothing"
         ELSE UNCHANGED <<vmk, state, saving>>
  BY DEF OnWrite, appVars
<1>5. saving # "nothing"
  BY <1>3 DEF SessionInv, SavesInOrder, SaveCalls
\* The key is written after the server.
<1>6. entry \in {"vmk", "role"} => "server" \in disk
  <2>1. ASSUME entry = "vmk" PROVE ~Pending("server") /\ ~Pending("relogin")
    BY <1>3, <2>1, AloneInOrder DEF SessionInv, SavesInOrder, Pending
  <2>2. ASSUME entry = "role" PROVE ~Pending("server") /\ ~Pending("relogin")
    BY <1>3, <2>2, OrderedTail, InTail DEF SessionInv, SavesInOrder, Pending, SaveCalls, Entries
  <2> QED
    BY <1>5, <2>1, <2>2 DEF ServerKnown
<1>7. entry = "role" => "access" \in disk
  <2>1. ASSUME entry = "role" PROVE ~Pending("access") /\ ~Pending("relogin")
    BY <1>3, <2>1, OrderedTail, InTail DEF SessionInv, SavesInOrder, Pending, SaveCalls, Entries
  <2> QED
    BY <1>5, <2>1 DEF SessionInv, SavesInOrder
<1>8. ~Pending("boot")
  BY <1>1, NotBooting DEF Entries, Pending
<1>9. CASE entry = "role" /\ saving = "pairing"
  BY <1>3, <1>4, <1>6, <1>7, <1>9 DEF ServerKnown, Pending
<1>10. CASE ~(entry = "role" /\ saving = "pairing")
  BY <1>3, <1>4, <1>6, <1>8, <1>10 DEF ServerKnown, Pending, Entries
<1> QED
  BY <1>9, <1>10

LEMMA OnStampServer == ASSUME SessionInv, ServerKnown, OnStamp PROVE ServerKnown'
<1>1. /\ Reply("stamp", ConnectCalls) /\ recent' = TRUE /\ vmk' = (vmk \/ saving = "claim")
      /\ state' = "authenticated" /\ saving' = "nothing" /\ disk' = disk
  BY DEF OnStamp
<1>2. /\ NothingBefore(queue') /\ Pending("stamp") /\ queue \in Seq(Calls)
      /\ ~Contains(queue', "wsNothing")
  BY <1>1, NothingReplied, SeqsOfCalls
<1>3. \A c \in SaveCalls \ {"stamp"} : ~Pending(c)
  BY <1>2, AloneInOrder DEF SessionInv, SavesInOrder, Pending
<1>4. saving \in {"claim", "login"} /\ {"server", "access"} \subseteq disk
  BY <1>2, <1>3 DEF SessionInv, SavesInOrder, ServerKnown, SaveCalls, Entries
<1>5. vmk' = TRUE
  BY <1>1, <1>4 DEF SessionInv, SessionTypeOK, SavesApart
<1> QED
  BY <1>1, <1>2, <1>4, <1>5 DEF ServerKnown, Pending

LEMMA BiometricServer == ASSUME SessionInv, ServerKnown, CompleteBiometricUnlock PROVE ServerKnown'
<1>1. /\ queue' = queue \o ConnectCalls /\ state = "needsBiometric"
      /\ UNCHANGED <<vmk, disk, recent, saving>>
  BY DEF CompleteBiometricUnlock
<1>2. /\ NothingBefore(queue')
      /\ \A c : Contains(queue', c) <=> Contains(queue, c) \/ Contains(ConnectCalls, c)
  BY <1>1, NothingCalled, SeqsOfCalls
<1> QED
  BY <1>1, <1>2, ServerStays, SeqsOfCalls

LEMMA OnClearServer == ASSUME SessionInv, ServerKnown, OnClear PROVE ServerKnown'
<1>1. /\ Reply("clear", << >>) /\ disk' = {} /\ recent' = FALSE /\ vmk' = FALSE
      /\ state' = "needsSetup" /\ saving' = saving
  BY DEF OnClear
<1>2. NothingBefore(queue') /\ Pending("clear")
  BY <1>1, NothingReplied, SeqsOfCalls
<1>3. saving = "nothing"
  BY <1>2 DEF SessionInv, SavesApart
<1> QED
  BY <1>1, <1>2, <1>3 DEF ServerKnown

LEMMA KillServer == ASSUME SessionInv, ServerKnown, Kill PROVE ServerKnown'
<1>1. /\ queue' = <<"boot">> /\ state' = "unknown" /\ vmk' = FALSE /\ saving' = "nothing"
      /\ UNCHANGED <<disk, recent>>
  BY DEF Kill
<1>2. \A c : Contains(queue', c) <=> c = "boot"
  BY <1>1, InOne
<1>3. NothingBefore(queue')
  BY <1>1 DEF NothingBefore
<1> QED
  BY <1>1, <1>2, <1>3 DEF ServerKnown, Pending

LEMMA OnWsServerServer == ASSUME SessionInv, ServerKnown, OnWsServer PROVE ServerKnown'
<1>1. PICK next \in {"wsToken", "wsNothing"} :
         Reply("wsServer", <<next>>) /\ (next = "wsNothing" <=> "server" \notin disk)
  BY DEF OnWsServer
<1>2. UNCHANGED <<vmk, state, disk, recent, saving>>
  BY DEF OnWsServer, appVars
<1>3. next = "wsNothing" =>
        /\ ~recent /\ state \notin {"authenticated", "needsBiometric"}
        /\ ~Contains(queue, "stamp")
  <2> SUFFICES ASSUME "server" \notin disk
               PROVE  /\ ~recent /\ state \notin {"authenticated", "needsBiometric"}
                      /\ ~Pending("stamp")
    BY <1>1 DEF Pending
  <2>1. ~vmk /\ "vmk" \notin disk
    BY DEF ServerKnown
  <2>2. ~recent
    BY <2>1 DEF SessionInv, Consistent
  <2>3. ASSUME Pending("stamp") PROVE FALSE
    <3>1. saving # "nothing"
      BY <2>3 DEF SessionInv, SavesInOrder
    <3>2. ~Pending("server") /\ ~Pending("relogin")
      BY <2>3, AloneInOrder
         DEF SessionInv, SessionTypeOK, SavesInOrder, Pending, SaveCalls, Entries
    <3> QED
      BY <3>1, <3>2 DEF ServerKnown
  <2> QED
    BY <2>1, <2>2, <2>3 DEF ServerKnown, SessionInv, Consistent
<1>4. <<next>> \in Seq(Calls) /\ \A c : Contains(<<next>>, c) <=> c = next
  BY SeqsOfCalls DEF Calls
<1>5. /\ NothingBefore(queue')
      /\ \A c : c # "wsServer" => (Contains(queue', c) <=> Contains(queue, c) \/ c = next)
  <2>1. \/ ~Contains(<<next>>, "wsNothing")
        \/ ~Contains(queue, "stamp") /\ ~Contains(<<next>>, "stamp")
    BY <1>3, <1>4
  <2> DEFINE calls == <<next>>
  <2> HIDE DEF calls
  <2>2. /\ calls \in Seq(Calls) /\ Reply("wsServer", calls)
        /\ \A c : Contains(calls, c) <=> c = next
        /\ ~Contains(calls, "wsNothing") \/ (~Contains(queue, "stamp") /\ ~Contains(calls, "stamp"))
    BY <1>1, <1>4, <2>1 DEF calls
  <2> QED
    BY <2>2, NothingReplied
<1> QED
  BY <1>1, <1>2, <1>3, <1>5 DEF ServerKnown, Pending

LEMMA ServerStep == SessionInv /\ ServerKnown /\ [SessionNext]_sessionVars => ServerKnown'
<1> SUFFICES ASSUME SessionInv, ServerKnown, [SessionNext]_sessionVars PROVE ServerKnown'
  OBVIOUS
<1>a. queue \in Seq(Calls)
      /\ \A c \in Calls : Append(queue, c) = queue \o <<c>>
  BY DEF SessionInv, SessionTypeOK
\* What comes to the queue, or is answered, without being one of the calls above.
<1>b. ASSUME NEW c \in Calls \ {"server", "relogin", "boot", "wsNothing"}, queue' = Append(queue, c)
      PROVE  /\ NothingBefore(queue')
             /\ \A d \in {"server", "relogin", "boot", "wsNothing"} :
                  Contains(queue', d) <=> Contains(queue, d)
  <2>1. queue' = queue \o <<c>> /\ <<c>> \in Seq(Calls) /\ \A d : Contains(<<c>>, d) <=> d = c
    BY <1>a, <1>b, SeqsOfCalls
  <2> QED
    BY <1>b, <2>1, NothingCalled
<1>c. ASSUME NEW c \in Calls \ {"server", "relogin", "boot"}, Reply(c, << >>)
      PROVE  /\ NothingBefore(queue')
             /\ \A d \in {"server", "relogin", "boot"} : Contains(queue', d) <=> Contains(queue, d)
             /\ Contains(queue', "wsNothing") => Contains(queue, "wsNothing")
  BY <1>c, NothingReplied, SeqsOfCalls, InNone
<1>d. ASSUME Lock PROVE ServerKnown'
  BY <1>b, <1>d, ServerStays DEF Lock, appVars, Calls
<1>e. ASSUME queue' = queue
      PROVE  NothingBefore(queue') /\ \A c : Contains(queue', c) <=> Contains(queue, c)
  BY <1>e DEF ServerKnown
<1>1. CASE OnBoot
  BY <1>1, OnBootServer
<1>2. CASE OnDecide
  BY <1>2, OnDecideServer
<1>3. CASE Setup("claim")
  BY <1>3, SetupServer
<1>4. CASE Setup("pairing")
  BY <1>4, SetupServer
<1>5. CASE Login
  BY <1>5, LoginServer
<1>6. CASE OnRelogin
  BY <1>6, OnReloginServer
<1>7. CASE OnStamp
  BY <1>7, OnStampServer
<1>8. CASE \E entry \in Entries : OnWrite(entry)
  BY <1>8, OnWriteServer
<1>9. CASE EnterDecoyMode
  BY <1>9, <1>e, ServerStays DEF EnterDecoyMode
<1>10. CASE CompleteBiometricUnlock
  BY <1>10, BiometricServer
<1>11. CASE UseFallbackPassword
  BY <1>11, <1>e, ServerStays DEF UseFallbackPassword
<1>12. CASE AppPaused
  BY <1>12, <1>d DEF AppPaused
<1>13. CASE AutoLock
  <2>1. CASE UNCHANGED <<appVars, disk, recent, queue, saving>>
    BY <1>e, <2>1, ServerStays DEF appVars
  <2> QED
    BY <1>13, <1>d, <2>1 DEF AutoLock
<1>14. CASE RegisterActivity
  BY <1>14, <1>e, ServerStays DEF RegisterActivity, appVars
<1>15. CASE LogoutAndForget
  BY <1>15, <1>b, ServerStays DEF LogoutAndForget, appVars, Calls
<1>16. CASE OnClear
  BY <1>16, OnClearServer
<1>17. CASE WindowEnds
  BY <1>17, <1>e, ServerStays DEF WindowEnds, appVars
<1>18. CASE Kill
  BY <1>18, KillServer
<1>19. CASE OnWsServer
  BY <1>19, OnWsServerServer
<1>20. CASE OnWsToken
  BY <1>20, <1>c, ServerStays DEF OnWsToken, appVars, Calls
<1>21. CASE Reconnect
  <2>1. queue' = queue \o ConnectCalls
    BY <1>21 DEF Reconnect
  <2>2. /\ NothingBefore(queue')
        /\ \A c : Contains(queue', c) <=> Contains(queue, c) \/ Contains(ConnectCalls, c)
    BY <2>1, NothingCalled, SeqsOfCalls
  <2> QED
    BY <1>21, <2>2, ServerStays, SeqsOfCalls DEF Reconnect, appVars
<1>22. CASE \E s \in Sockets : SocketDone(s)
  BY <1>22, <1>e, ServerStays DEF SocketDone, appVars
<1>23. CASE TryRefresh
  BY <1>23, <1>b, ServerStays DEF TryRefresh, appVars, Calls
<1>24. CASE OnRefresh
  BY <1>24, <1>c, ServerStays DEF OnRefresh, appVars, Calls
<1>25. CASE Renewed
  <2>1. CASE queue' = queue
    BY <1>25, <1>e, <2>1, ServerStays DEF Renewed, appVars
  <2>2. CASE queue' = Append(queue, "renewed")
    BY <1>25, <1>b, <2>2, ServerStays DEF Renewed, appVars, Calls
  <2> QED
    BY <1>25, <2>1, <2>2 DEF Renewed
<1>26. CASE OnRenewed
  BY <1>26, <1>c, ServerStays DEF OnRenewed, appVars, Calls
<1>27. CASE UNCHANGED sessionVars
  BY <1>27, <1>e, ServerStays DEF sessionVars, appVars
<1>28. CASE Push \/ Back
  BY <1>28, <1>e, ServerStays DEF Push, Back, appVars
<1> QED
  BY <1>1, <1>2, <1>3, <1>4, <1>5, <1>6, <1>7, <1>8, <1>9, <1>10, <1>11, <1>12, <1>13, <1>14, <1>15, <1>16, <1>17, <1>18, <1>19, <1>20, <1>21, <1>22, <1>23, <1>24, <1>25, <1>26, <1>27, <1>28 DEF SessionNext

\* Of a connect under way a reply of another call and a new call leave everything.
LEMMA StillConnecting ==
  ASSUME SessionInv, Connecting,
         \/ \E call \in Calls \ {"wsServer", "wsToken", "wsNothing"}, calls \in Seq(Calls) :
              Reply(call, calls)
         \/ \E calls \in Seq(Calls) : queue' = queue \o calls
  PROVE  Connecting'
<1>1. PICK c \in {"wsServer", "wsToken", "wsNothing"} : Pending(c)
  BY DEF Connecting
<1>2. Pending(c)'
  BY <1>1, StillPending
<1> QED
  BY <1>2 DEF Connecting

\* A connect is under way once connect() has been called without a channel.
LEMMA NowConnecting ==
  ASSUME SessionInv, channel = NoSocket,
         \/ queue' = queue \o ConnectCalls
         \/ \E call \in Calls \ {"wsServer", "wsToken", "wsNothing"} : Reply(call, ConnectCalls)
  PROVE  Connecting'
<1>1. CASE Connecting
  BY <1>1, StillConnecting, SeqsOfCalls
<1>2. CASE ~Connecting
  <2>1. ConnectCalls = <<"wsServer">> /\ "wsServer" \in Calls
    BY <1>2 DEF ConnectCalls, Calls
  <2>2. Contains(ConnectCalls, "wsServer")
    BY <2>1, SeqsOfCalls
  <2>3. queue \in Seq(Calls) /\ ConnectCalls \in Seq(Calls)
    BY SeqsOfCalls DEF SessionInv, SessionTypeOK
  <2>4. CASE queue' = queue \o ConnectCalls
    BY <2>2, <2>3, <2>4, InCat DEF Connecting, Pending
  <2>5. CASE \E call \in Calls : Reply(call, ConnectCalls)
    <3>1. queue # << >> /\ queue' = Tail(queue) \o ConnectCalls
      BY <2>5 DEF Reply
    <3>2. Tail(queue) \in Seq(Calls)
      BY <2>3, <3>1, InTail
    <3> QED
      BY <2>2, <2>3, <3>1, <3>2, InCat DEF Connecting, Pending
  <2> QED
    BY <2>4, <2>5
<1> QED
  BY <1>1, <1>2

\* Steps that leave the websocket client alone and open no session.
LEMMA OnlineStays ==
  ASSUME SessionInv, ChannelKnown, UNCHANGED wsVars, state' = "authenticated" => state = "authenticated",
         \/ queue' = queue
         \/ \E call \in Calls \ {"wsServer", "wsToken", "wsNothing", "decide", "clear"},
              calls \in Seq(Calls) : Reply(call, calls)
         \/ \E calls \in Seq(Calls) : queue' = queue \o calls
  PROVE  ChannelKnown'
<1>1. /\ Pending("decide") => Pending("decide")'
      /\ Pending("clear") => Pending("clear")'
      /\ Connecting => Connecting'
  <2>1. CASE queue' = queue
    BY <2>1 DEF Pending, Connecting
  <2>2. CASE queue' # queue
    BY <2>2, StillPending, StillConnecting
  <2> QED
    BY <2>1, <2>2
<1>2. UNCHANGED <<channel, socket, reconnects>>
  BY DEF wsVars
<1> QED
  BY <1>1, <1>2, Zenon DEF ChannelKnown

LEMMA OnlineStep ==
  SessionInv /\ ServerKnown /\ ChannelKnown /\ [SessionNext]_sessionVars => ChannelKnown'
<1> SUFFICES ASSUME SessionInv, ServerKnown, ChannelKnown, [SessionNext]_sessionVars PROVE ChannelKnown'
  OBVIOUS
<1>a. /\ queue \in Seq(Calls) /\ << >> \in Seq(Calls) /\ Writes \in Seq(Calls)
      /\ ConnectCalls \in Seq(Calls)
      /\ \A c \in Calls : <<c>> \in Seq(Calls) /\ Append(queue, c) = queue \o <<c>>
  BY SeqsOfCalls DEF SessionInv, SessionTypeOK
<1>b. ASSUME Lock PROVE ChannelKnown'
  <2>1. channel' = NoSocket /\ queue' = queue \o <<"decide">> /\ "decide" \in Calls
    BY <1>a, <1>b DEF Lock, Disconnect, Calls
  <2>2. Pending("decide")'
    BY <1>a, <2>1, InCat, InOne, ZenonT(30) DEF Pending
  <2> QED
    BY <2>1, <2>2 DEF ChannelKnown
<1>1. CASE OnBoot
  <2>1. UNCHANGED wsVars /\ state' # "authenticated"
    <3>1. Pending("boot")
      BY <1>1, <1>a DEF OnBoot, Reply, Pending, Contains
    <3> QED
      BY <1>1, <3>1 DEF OnBoot, SessionInv, BootsAlone
  <2> QED
    BY <2>1 DEF ChannelKnown, wsVars
<1>2. CASE OnDecide
  BY <1>2 DEF OnDecide, ChannelKnown, wsVars
<1>3. CASE Setup("claim")
  BY <1>3, <1>a, OnlineStays DEF Setup, appVars
<1>4. CASE Setup("pairing")
  BY <1>4, <1>a, OnlineStays DEF Setup, appVars
<1>5. CASE Login
  BY <1>5, <1>a, OnlineStays DEF Login, appVars, Calls
<1>6. CASE OnRelogin
  BY <1>6, <1>a, OnlineStays DEF OnRelogin, appVars, Calls
<1>7. CASE OnStamp
  <2>1. Reply("stamp", ConnectCalls) /\ UNCHANGED wsVars /\ "stamp" \in Calls
    BY <1>7 DEF OnStamp, Calls
  <2>2. channel = NoSocket => Connecting'
    BY <2>1, NowConnecting
  <2> QED
    BY <2>1, <2>2 DEF ChannelKnown, wsVars
<1>8. CASE \E entry \in Entries : OnWrite(entry)
  BY <1>8, <1>a, OnlineStays DEF OnWrite, appVars, Calls, Entries
<1>9. CASE EnterDecoyMode
  BY <1>9, OnlineStays DEF EnterDecoyMode
<1>10. CASE CompleteBiometricUnlock
  <2>1. queue' = queue \o ConnectCalls /\ UNCHANGED wsVars
    BY <1>10 DEF CompleteBiometricUnlock
  <2>2. channel = NoSocket => Connecting'
    BY <2>1, NowConnecting
  <2> QED
    BY <2>1, <2>2 DEF ChannelKnown, wsVars
<1>11. CASE UseFallbackPassword
  BY <1>11, OnlineStays DEF UseFallbackPassword
<1>12. CASE AppPaused
  BY <1>12, <1>b DEF AppPaused
<1>13. CASE AutoLock
  BY <1>13, <1>b, OnlineStays DEF AutoLock, appVars
<1>14. CASE RegisterActivity
  BY <1>14, OnlineStays DEF RegisterActivity, appVars
<1>15. CASE LogoutAndForget
  <2>1. channel' = NoSocket /\ queue' = queue \o <<"clear">> /\ "clear" \in Calls
    BY <1>15, <1>a DEF LogoutAndForget, Disconnect, Calls
  <2>2. Pending("clear")'
    BY <1>a, <2>1, InCat, InOne, ZenonT(30) DEF Pending
  <2> QED
    BY <2>1, <2>2 DEF ChannelKnown
<1>16. CASE OnClear
  BY <1>16 DEF OnClear, ChannelKnown, wsVars
<1>17. CASE WindowEnds
  BY <1>17, OnlineStays DEF WindowEnds, appVars
<1>18. CASE Kill
  BY <1>18 DEF Kill, ChannelKnown
<1>19. CASE OnWsServer
  <2>1. PICK next \in {"wsToken", "wsNothing"} : Reply("wsServer", <<next>>)
    BY <1>19 DEF OnWsServer
  <2>2. next \in Calls /\ "wsServer" \in Calls
    BY DEF Calls
  <2>3. Connecting'
    <3>1. queue # << >> /\ queue' = Tail(queue) \o <<next>>
      BY <2>1 DEF Reply
    <3>2. Tail(queue) \in Seq(Calls)
      BY <1>a, <3>1, InTail
    <3>3. Contains(queue', next)
      BY <1>a, <2>2, <3>1, <3>2, InCat, SeqsOfCalls
    <3> QED
      BY <3>3 DEF Connecting, Pending
  <2> QED
    BY <1>19, <2>3 DEF OnWsServer, ChannelKnown, wsVars
<1>20. CASE OnWsToken
  <2>1. UNCHANGED <<state, reconnects>>
    BY <1>20 DEF OnWsToken, appVars
  <2>2. CASE \E s \in Sockets : channel' = s /\ socket' = [socket EXCEPT ![s] = "open"]
    <3>1. channel' # NoSocket /\ socket'[channel'] = "open"
      BY <2>2, SessionAssumption DEF SessionInv, SessionTypeOK, SessionAssumption
    <3> QED
      BY <3>1 DEF ChannelKnown
\* Without a server or a token there is no open session.
  <2>3. CASE UNCHANGED <<channel, socket>>
    <3>1. CASE Reply("wsNothing", << >>)
      <4>1. Pending("wsNothing")
        BY <1>a, <3>1 DEF Reply, Pending, Contains
      <4> QED
        BY <2>1, <2>3, <4>1 DEF ServerKnown, ChannelKnown
    <3>2. CASE "access" \notin disk
      BY <2>1, <2>3, <3>2 DEF ServerKnown, ChannelKnown, SessionInv, Consistent
    <3>3. CASE \E s \in Sockets : channel' = s /\ socket' = [socket EXCEPT ![s] = "open"]
      BY <2>2, <3>3
    <3> QED
      BY <1>20, <3>1, <3>2, <3>3 DEF OnWsToken
  <2> QED
    BY <1>20, <2>2, <2>3 DEF OnWsToken
<1>21. CASE Reconnect
  <2>1. queue' = queue \o ConnectCalls /\ UNCHANGED <<state, channel, socket>>
    BY <1>21 DEF Reconnect, appVars
  <2>2. channel = NoSocket => Connecting'
    BY <2>1, NowConnecting
  <2> QED
    BY <2>1, <2>2 DEF ChannelKnown
<1>22. CASE \E s \in Sockets : SocketDone(s)
  <2>1. channel' = NoSocket /\ reconnects' = reconnects + 1
    BY <1>22 DEF SocketDone
  <2>2. reconnects' > 0
    BY <2>1, SessionAssumption DEF SessionInv, SessionTypeOK, SessionAssumption
  <2> QED
    BY <2>1, <2>2 DEF ChannelKnown
<1>23. CASE TryRefresh
  BY <1>23, <1>a, OnlineStays DEF TryRefresh, appVars, Calls
<1>24. CASE OnRefresh
  BY <1>24, <1>a, OnlineStays DEF OnRefresh, appVars, Calls
<1>25. CASE Renewed
  BY <1>25, <1>a, OnlineStays DEF Renewed, appVars, Calls
<1>26. CASE OnRenewed
  BY <1>26, <1>a, OnlineStays DEF OnRenewed, appVars, Calls
<1>27. CASE UNCHANGED sessionVars
  BY <1>27, OnlineStays DEF sessionVars, appVars
<1>28. CASE Push \/ Back
  BY <1>28, OnlineStays DEF Push, Back, appVars
<1> QED
  BY <1>1, <1>2, <1>3, <1>4, <1>5, <1>6, <1>7, <1>8, <1>9, <1>10, <1>11, <1>12, <1>13, <1>14, <1>15, <1>16, <1>17, <1>18, <1>19, <1>20, <1>21, <1>22, <1>23, <1>24, <1>25, <1>26, <1>27, <1>28 DEF SessionNext

\* secure_storage_service.dart:33-41, session_provider.dart:146-256: for any number of
\* calls under way, whoever has the key has the server, and whoever has an open session
\* has a token; no kill between two writes leaves it otherwise.
THEOREM ServerIsKnown == SessionSpec => []ServerKnown
<1>1. SessionInit => ServerKnown
  <2> SUFFICES ASSUME SessionInit PROVE ServerKnown
    OBVIOUS
  <2>1. queue = <<"boot">> /\ \A c : Contains(queue, c) <=> c = "boot"
    BY InOne DEF SessionInit
  <2>2. NothingBefore(queue)
    BY <2>1 DEF NothingBefore
  <2> QED
    BY <2>1, <2>2 DEF SessionInit, ServerKnown, Pending
<1> QED
  BY <1>1, Invariance, ServerStep, PTL DEF SessionSpec

\* ws_client.dart:17-63: for any number of channels and reconnects, the channel is a
\* live one, an open session without a channel is about to get one, and it has the
\* server and the token it takes.
THEOREM StaysOnline == SessionSpec => []Online
<1>1. SessionInit => ChannelKnown
  BY DEF SessionInit, ChannelKnown
<1>2. SessionSpec => []ChannelKnown
  BY <1>1, Invariance, ServerIsKnown, OnlineStep, PTL DEF SessionSpec
<1>3. ServerKnown /\ ChannelKnown => Online
  BY DEF Online
<1> QED
  BY <1>2, <1>3, ServerIsKnown, PTL
==============================================================================
