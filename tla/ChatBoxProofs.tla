--------------------------- MODULE ChatBoxProofs ---------------------------
(***************************************************************************)
(* Theorems about ChatBox, for any number of chats, messages, deliveries,  *)
(* requests under way and faults:                                          *)
(*                                                                         *)
(*   TypeCorrect   Spec => []TypeOK                                        *)
(*   ShownOnce     Spec => []IncomingOnce                                  *)
(*   ChatComplete  Spec => []ChatExact                                     *)
(*                                                                         *)
(* ChatExact is about a chat whose messages were answered; what makes it   *)
(* inductive is what is known of it before (Opening) and of the messages   *)
(* of ours that are under way (Sending).                                   *)
(***************************************************************************)
EXTENDS ChatBox, SequenceTheorems, TLAPS

USE ChatBoxAssumption DEF ChatBoxAssumption

(***************************************************************************)
(* Types.                                                                  *)
(***************************************************************************)

\* The page starts with nothing shown.
LEMMA TypeInit == Init => TypeOK
<1> SUFFICES ASSUME Init PROVE TypeOK
  OBVIOUS
<1> USE DEF Init
<1>1. ws \in BOOLEAN /\ calm \in BOOLEAN
  OBVIOUS
<1>2. wire \in Seq(Incoming) /\ wire = <<>>
  BY EmptySeq
<1>3. shown \in [Messages -> Nat]
  BY DEF NoneShown
<1>4. /\ inHand \in Incoming \cup {NoMsg} /\ active \in Peers \cup {NoPeer}
      /\ delivered \in 0..MaxDeliveries /\ selects \in Nat /\ faults \in Nat
      /\ stored = {} /\ gets = {} /\ posts = {}
  OBVIOUS
<1>5. QED BY ONLY <1>1, <1>2, <1>3, <1>4 DEF TypeOK

\* Changing the chat keeps the types.
LEMMA TypeSelect ==
  ASSUME TypeOK, NEW p \in Peers \cup {NoPeer}, Select(p)
  PROVE  TypeOK'
<1> USE DEF TypeOK, Select, server, socket
<1>1. CASE p = NoPeer
  BY <1>1 DEF NoneShown
<1>2. CASE p # NoPeer
  <2> DEFINE new == [id |-> selects, peer |-> p, served |-> FALSE, rows |-> {}]
  <2>1. new \in Requests /\ new.rows = {}
    BY <1>2 DEF Requests
  <2>2. gets' = gets \cup {new} /\ stored' = stored
    BY <1>2
  <2> HIDE DEF new
  <2>3. gets' \subseteq Requests
    BY <2>1, <2>2
  <2>4. \A h \in gets' : \A m \in h.rows : m \in stored' /\ ChatOf[m] = h.peer
    BY <2>1, <2>2
  <2>5. QED BY <1>2, <2>3, <2>4
<1>3. QED BY <1>1, <1>2

\* So do serving and answering GET /message.
LEMMA TypeGets ==
  ASSUME TypeOK, NEW g \in gets, ServeChat(g) \/ ChatAnswer(g) \/ ChatFail(g)
  PROVE  TypeOK'
<1> USE DEF TypeOK, server, socket
<1>1. CASE ServeChat(g)
  <2> DEFINE R == {m \in stored : ChatOf[m] = g.peer}
             new == [g EXCEPT !.served = TRUE, !.rows = R]
  <2>1. g \in Requests
    OBVIOUS
  <2>2. new \in Requests /\ new.rows = R /\ new.peer = g.peer
    BY <2>1 DEF Requests
  <2>3. gets' = (gets \ {g}) \cup {new} /\ stored' = stored
    BY <1>1 DEF ServeChat
  <2> HIDE DEF new
  <2>4. gets' \subseteq Requests
    BY <2>2, <2>3
  <2>5. \A h \in gets' : \A m \in h.rows : m \in stored' /\ ChatOf[m] = h.peer
    BY <2>2, <2>3
  <2>6. QED BY <1>1, <2>4, <2>5 DEF ServeChat
<1>2. CASE ChatAnswer(g)
  BY <1>2 DEF ChatAnswer
<1>3. CASE ChatFail(g)
  <2>1. /\ gets' \subseteq gets /\ faults' \in Nat
        /\ UNCHANGED <<stored, inHand, delivered, active, shown, posts, selects, ws, wire>>
    BY <1>3 DEF ChatFail
  <2>2. calm' \in BOOLEAN
    BY <1>3 DEF ChatFail
  <2>3. QED BY ONLY TypeOK, <2>1, <2>2 DEF TypeOK
<1>4. QED BY <1>1, <1>2, <1>3

\* The requests that send keep the types.
LEMMA TypePosts ==
  ASSUME TypeOK,
         \/ \E m \in Outgoing : Send(m)
         \/ \E q \in posts : ServeSend(q) \/ SendAnswer(q) \/ SendFail(q)
  PROVE  TypeOK'
<1> USE DEF TypeOK, server, socket
<1>1. ASSUME NEW m \in Outgoing, Send(m) PROVE TypeOK'
  <2> DEFINE new == [msg |-> m, served |-> FALSE]
  <2>1. new \in [msg : Outgoing, served : BOOLEAN]
    OBVIOUS
  <2>2. posts' = posts \cup {new}
    BY <1>1 DEF Send
  <2>3. calm' \in BOOLEAN
    BY <1>1 DEF Send
  <2>4. UNCHANGED <<stored, inHand, delivered, active, shown, gets, selects, ws, wire, faults>>
    BY <1>1 DEF Send
  <2> HIDE DEF new
  <2>5. QED BY ONLY TypeOK, <2>1, <2>2, <2>3, <2>4 DEF TypeOK
<1>2. ASSUME NEW q \in posts, ServeSend(q) PROVE TypeOK'
  <2>1. q \in [msg : Outgoing, served : BOOLEAN]
    OBVIOUS
  <2>2. [q EXCEPT !.served = TRUE] \in [msg : Outgoing, served : BOOLEAN]
    BY <2>1
  <2>3. posts' \subseteq [msg : Outgoing, served : BOOLEAN]
    BY <1>2, <2>2 DEF ServeSend
  <2>4. stored' \subseteq Messages /\ stored \subseteq stored'
    BY <1>2, <2>1 DEF ServeSend, Messages
  <2>5. QED BY <1>2, <2>3, <2>4 DEF ServeSend
<1>3. ASSUME NEW q \in posts, SendAnswer(q) PROVE TypeOK'
  <2>1. q.msg \in Messages
    BY DEF Messages
  <2>2. shown' \in [Messages -> Nat]
    BY <1>3, <2>1 DEF SendAnswer
  <2>3. QED BY <1>3, <2>2 DEF SendAnswer
<1>4. ASSUME NEW q \in posts, SendFail(q) PROVE TypeOK'
  <2>1. /\ posts' \subseteq posts /\ faults' \in Nat
        /\ UNCHANGED <<stored, inHand, delivered, active, shown, gets, selects, ws, wire>>
    BY <1>4 DEF SendFail
  <2>2. calm' \in BOOLEAN
    BY <1>4 DEF SendFail
  <2>3. QED BY ONLY TypeOK, <2>1, <2>2 DEF TypeOK
<1>5. QED BY <1>1, <1>2, <1>3, <1>4

\* So do the deliveries, and the websocket.
LEMMA TypeSocket ==
  ASSUME TypeOK,
         (\E m \in Incoming : Store(m)) \/ Push \/ OnMessage \/ WsCheck \/ WsClose
  PROVE  TypeOK'
<1> USE DEF TypeOK, server, socket
<1>1. ASSUME NEW m \in Incoming, Store(m) PROVE TypeOK'
  BY <1>1 DEF Store, Messages
<1>2. CASE Push
  <2>1. inHand \in Incoming
    BY <1>2 DEF Push
  <2>2. wire' \in Seq(Incoming)
    BY <1>2, <2>1, AppendProperties DEF Push
  <2>3. QED BY <1>2, <2>2 DEF Push
<1>3. CASE OnMessage
  <2>1. wire' \in Seq(Incoming) /\ Head(wire) \in Incoming
    BY <1>3, HeadTailProperties DEF OnMessage
  <2>2. shown' \in [Messages -> Nat]
    BY <1>3, <2>1 DEF OnMessage, Show, Messages
  <2>3. ws
    BY <1>3 DEF OnMessage
  <2>4. QED BY <1>3, <2>1, <2>2, <2>3 DEF OnMessage
<1>4. CASE WsCheck
  BY <1>4 DEF WsCheck
<1>5. CASE WsClose
  <2>1. faults' \in Nat /\ UNCHANGED <<stored, inHand, delivered, active, shown, gets, posts, selects>>
    BY <1>5 DEF WsClose
  <2>2. calm' \in BOOLEAN /\ ws' \in BOOLEAN
    BY <1>5 DEF WsClose
  <2>3. wire' = <<>> /\ wire' \in Seq(Incoming)
    BY <1>5, EmptySeq DEF WsClose
  <2>4. QED BY ONLY TypeOK, <2>1, <2>2, <2>3 DEF TypeOK
<1>6. QED BY <1>1, <1>2, <1>3, <1>4, <1>5

\* Every step of the page and the server keeps the types.
LEMMA TypeNext == TypeOK /\ [Next]_vars => TypeOK'
<1> SUFFICES ASSUME TypeOK, [Next]_vars PROVE TypeOK'
  OBVIOUS
<1>1. ASSUME NEW p \in Peers \cup {NoPeer}, Select(p) PROVE TypeOK'
  BY <1>1, TypeSelect
<1>2. ASSUME NEW g \in gets, ServeChat(g) \/ ChatAnswer(g) \/ ChatFail(g) PROVE TypeOK'
  BY <1>2, TypeGets
<1>3. CASE \/ \E m \in Outgoing : Send(m)
           \/ \E q \in posts : ServeSend(q) \/ SendAnswer(q) \/ SendFail(q)
  BY <1>3, TypePosts
<1>4. CASE (\E m \in Incoming : Store(m)) \/ Push \/ OnMessage \/ WsCheck \/ WsClose
  BY <1>4, TypeSocket
<1>5. CASE UNCHANGED vars
  BY <1>5 DEF vars, server, socket, TypeOK
<1>6. QED BY <1>1, <1>2, <1>3, <1>4, <1>5 DEF Next

\* Types, and that an answer holds stored messages of the chat it was asked for
\* (TypeOK).
THEOREM TypeCorrect == Spec => []TypeOK
<1>1. QED BY TypeInit, TypeNext, PTL DEF Spec
-----------------------------------------------------------------------------
(***************************************************************************)
(* IncomingOnce is inductive with the types: only an answer to a POST adds *)
(* to a message without looking, and that is a message of ours.            *)
(***************************************************************************)

\* Every step shows an incoming message at most once.
LEMMA OnceNext == TypeOK /\ IncomingOnce /\ [Next]_vars => IncomingOnce'
<1> SUFFICES ASSUME TypeOK, IncomingOnce, [Next]_vars PROVE IncomingOnce'
  OBVIOUS
<1> shown \in [Messages -> Nat] /\ Incoming \subseteq Messages
  BY DEF TypeOK, Messages
<1> USE DEF IncomingOnce
<1>1. ASSUME NEW p \in Peers \cup {NoPeer}, Select(p) PROVE IncomingOnce'
  BY <1>1 DEF Select, NoneShown
<1>2. ASSUME NEW g \in gets, ServeChat(g) \/ ChatAnswer(g) \/ ChatFail(g)
      PROVE  IncomingOnce'
  <2>1. \A m \in Messages : shown'[m] \in {shown[m], 0, 1}
    BY <1>2 DEF ServeChat, ChatAnswer, ChatFail
  <2>2. QED BY <2>1
<1>3. ASSUME NEW m \in Outgoing, Send(m) PROVE IncomingOnce'
  BY <1>3 DEF Send
<1>4. ASSUME NEW q \in posts, ServeSend(q) \/ SendAnswer(q) \/ SendFail(q)
      PROVE  IncomingOnce'
  <2>1. q.msg \in Outgoing
    BY DEF TypeOK
  <2>2. \A m \in Incoming : shown'[m] = shown[m]
    BY <1>4, <2>1 DEF ServeSend, SendAnswer, SendFail
  <2>3. QED BY <2>2
<1>5. CASE OnMessage
  <2>1. Head(wire) \in Incoming
    BY <1>5, HeadTailProperties DEF OnMessage, TypeOK
  <2>2. QED BY <1>5, <2>1 DEF OnMessage, Show
<1>6. CASE (\E m \in Incoming : Store(m)) \/ Push \/ WsCheck \/ WsClose
  BY <1>6 DEF Store, Push, WsCheck, WsClose
<1>7. CASE UNCHANGED vars
  BY <1>7 DEF vars
<1>8. QED BY <1>1, <1>2, <1>3, <1>4, <1>5, <1>6, <1>7 DEF Next

\* However pushes and answers race, an incoming message is shown at most once
\* (IncomingOnce).
THEOREM ShownOnce == Spec => []IncomingOnce
<1>1. Init => IncomingOnce
  BY DEF Init, IncomingOnce, NoneShown, Messages
<1>2. QED BY <1>1, OnceNext, TypeCorrect, PTL DEF Spec
-----------------------------------------------------------------------------
(***************************************************************************)
(* ChatExact.                                                              *)
(***************************************************************************)

\* Messages of ours: shown only when stored, and one POST for each.
Posted ==
  /\ \A m \in Outgoing : shown[m] > 0 => m \in stored
  /\ \A q \in posts : q.served => q.msg \in stored
  /\ \A q, r \in posts : q.msg = r.msg => q = r

\* A chat that was opened calmly has one request under way, and what is not in
\* its answer is to be pushed.
Opening ==
  \A g \in gets :
    /\ gets = {g} /\ g.peer = active /\ posts = {}
    /\ g.served => \A m \in stored : ChatOf[m] = active => m \in g.rows \/ UnderWay(m)

\* What is being sent belongs to the open chat, and is not shown yet.
Sending == \A q \in posts : ChatOf[q.msg] = active /\ shown[q.msg] = 0

CalmInv == calm => (active # NoPeer => ws) /\ Opening /\ Sending

BoxInv == Posted /\ CalmInv /\ ChatExact

\* Every step keeps Posted.
LEMMA PostedNext == TypeOK /\ Posted /\ [Next]_vars => Posted'
<1> SUFFICES ASSUME TypeOK, Posted, [Next]_vars PROVE Posted'
  OBVIOUS
<1> /\ shown \in [Messages -> Nat] /\ Outgoing \subseteq Messages
    /\ posts \subseteq [msg : Outgoing, served : BOOLEAN]
  BY DEF TypeOK, Messages
<1> USE DEF Posted, server
<1>1. ASSUME NEW p \in Peers \cup {NoPeer}, Select(p) PROVE Posted'
  BY <1>1 DEF Select, NoneShown
<1>2. ASSUME NEW g \in gets, ServeChat(g) \/ ChatAnswer(g) \/ ChatFail(g) PROVE Posted'
  <2>1. UNCHANGED <<stored, posts>>
    BY <1>2 DEF ServeChat, ChatAnswer, ChatFail
  <2>2. \/ shown' = shown
        \/ /\ g.rows \subseteq stored
           /\ shown' = [m \in Messages |-> IF m \in g.rows THEN 1 ELSE 0]
    BY <1>2 DEF ServeChat, ChatAnswer, ChatFail, TypeOK
  <2>3. QED BY <2>1, <2>2
<1>3. ASSUME NEW m \in Outgoing, Send(m) PROVE Posted'
  <2> DEFINE new == [msg |-> m, served |-> FALSE]
  <2>1. new.msg = m /\ ~new.served
    OBVIOUS
  <2>2. posts' = posts \cup {new} /\ (\A q \in posts : q.msg # m)
        /\ shown' = shown /\ stored' = stored
    BY <1>3 DEF Send
  <2> HIDE DEF new
  <2>3. QED BY <2>1, <2>2
<1>4. ASSUME NEW q \in posts, ServeSend(q) PROVE Posted'
  <2> DEFINE new == [q EXCEPT !.served = TRUE]
  <2>1. q \in [msg : Outgoing, served : BOOLEAN]
    OBVIOUS
  <2>2. new.msg = q.msg
    BY <2>1
  <2>3. posts' = (posts \ {q}) \cup {new} /\ shown' = shown /\ stored' = stored \cup {q.msg}
    BY <1>4 DEF ServeSend
  <2> HIDE DEF new
  <2>4. QED BY <2>2, <2>3
<1>5. ASSUME NEW q \in posts, SendAnswer(q) PROVE Posted'
  <2>1. q.msg \in stored /\ stored' = stored /\ posts' = posts \ {q}
    BY <1>5 DEF SendAnswer
  <2>2. \A m \in Outgoing : m # q.msg => shown'[m] = shown[m]
    BY <1>5 DEF SendAnswer
  <2>3. QED BY <2>1, <2>2
<1>6. ASSUME NEW q \in posts, SendFail(q) PROVE Posted'
  BY <1>6 DEF SendFail
<1>7. CASE OnMessage
  <2>1. Head(wire) \in Incoming
    BY <1>7, HeadTailProperties DEF OnMessage, TypeOK
  <2>2. \A m \in Outgoing : shown'[m] = shown[m]
    BY <1>7, <2>1 DEF OnMessage, Show
  <2>3. QED BY <1>7, <2>2 DEF OnMessage
<1>8. CASE (\E m \in Incoming : Store(m)) \/ Push \/ WsCheck \/ WsClose
  BY <1>8 DEF Store, Push, WsCheck, WsClose
<1>9. CASE UNCHANGED vars
  BY <1>9 DEF vars
<1>10. QED
  BY <1>1, <1>2, <1>3, <1>4, <1>5, <1>6, <1>7, <1>8, <1>9 DEF Next

\* What is pushed on an open websocket stays under way.
LEMMA PushKeeps ==
  ASSUME TypeOK, Push, ws, NEW m \in Messages, UnderWay(m)
  PROVE  UnderWay(m)'
<1>1. /\ wire \in Seq(Incoming) /\ inHand \in Incoming
      /\ wire' = Append(wire, inHand) /\ posts' = posts
  BY DEF Push, TypeOK
<1>2. /\ Len(wire) \in Nat /\ Len(wire') = Len(wire) + 1
      /\ \A i \in 1..Len(wire) : wire'[i] = wire[i]
      /\ wire'[Len(wire) + 1] = inHand
  BY <1>1, AppendProperties, LenProperties
<1>3. CASE inHand = m
  BY <1>2, <1>3 DEF UnderWay
<1>4. CASE \E i \in 1..Len(wire) : wire[i] = m
  BY <1>2, <1>4 DEF UnderWay
<1>5. CASE \E q \in posts : q.msg = m
  BY <1>1, <1>5 DEF UnderWay
<1>6. QED BY <1>3, <1>4, <1>5 DEF UnderWay

\* What the page takes from the websocket is its head; the rest stays under way.
LEMMA TakeKeeps ==
  ASSUME TypeOK, OnMessage, NEW m \in Messages, UnderWay(m), m # Head(wire)
  PROVE  UnderWay(m)'
<1>1. /\ wire \in Seq(Incoming) /\ wire # <<>> /\ wire' = Tail(wire)
      /\ inHand' = inHand /\ posts' = posts
  BY DEF OnMessage, TypeOK, server
<1>2. /\ Len(wire) \in Nat /\ Len(wire') = Len(wire) - 1
      /\ \A i \in 1..Len(wire') : wire'[i] = wire[i + 1]
      /\ Head(wire) = wire[1]
  BY <1>1, HeadTailProperties, LenProperties
<1>3. CASE inHand = m
  BY <1>1, <1>3 DEF UnderWay
<1>4. CASE \E i \in 1..Len(wire) : wire[i] = m
  <2>1. PICK i \in 1..Len(wire) : wire[i] = m
    BY <1>4
  <2>2. i # 1
    BY <1>2, <2>1
  <2>3. i - 1 \in 1..Len(wire') /\ wire'[i - 1] = m
    BY <1>2, <2>1, <2>2
  <2>4. QED BY <2>3 DEF UnderWay
<1>5. CASE \E q \in posts : q.msg = m
  BY <1>1, <1>5 DEF UnderWay
<1>6. QED BY <1>3, <1>4, <1>5 DEF UnderWay

\* Opening or leaving a chat, and the requests for its messages.
LEMMA CalmGets ==
  ASSUME TypeOK, BoxInv, calm',
         \/ \E p \in Peers \cup {NoPeer} : Select(p)
         \/ \E g \in gets : ServeChat(g) \/ ChatAnswer(g) \/ ChatFail(g)
  PROVE  CalmInv' /\ ChatExact'
<1> USE DEF server, socket
<1>1. CASE Select(NoPeer)
  <2>1. ws' /\ active' = NoPeer /\ gets' = {} /\ posts' = {} /\ shown' = NoneShown
    BY <1>1 DEF Select
  <2>2. \A m \in Messages : shown'[m] = 0
    BY <2>1 DEF NoneShown
  <2>3. QED BY <2>1, <2>2 DEF CalmInv, Opening, Sending, ChatExact
<1>2. ASSUME NEW p \in Peers, Select(p) PROVE CalmInv' /\ ChatExact'
  <2> DEFINE new == [id |-> selects, peer |-> p, served |-> FALSE, rows |-> {}]
  <2>1. new.peer = p /\ ~new.served
    OBVIOUS
  <2>2. ws' /\ active' = p /\ gets' = {new} /\ posts' = {}
    BY <1>2 DEF Select
  <2> HIDE DEF new
  <2>3. QED BY <2>1, <2>2 DEF CalmInv, Opening, Sending, ChatExact
<1>3. ASSUME NEW g \in gets, ServeChat(g) PROVE CalmInv' /\ ChatExact'
  <2> DEFINE R == {m \in stored : ChatOf[m] = g.peer}
             new == [g EXCEPT !.served = TRUE, !.rows = R]
  <2>1. /\ calm /\ gets' = (gets \ {g}) \cup {new}
        /\ UNCHANGED <<stored, inHand, active, posts, ws, wire>>
    BY <1>3 DEF ServeChat
  <2>2. gets = {g} /\ g.peer = active /\ posts = {} /\ (active # NoPeer => ws)
    BY <2>1 DEF BoxInv, CalmInv, Opening
  <2>3. g \in Requests
    BY DEF TypeOK
  <2>4. new.peer = g.peer /\ new.rows = R
    BY <2>3 DEF Requests
  <2>5. \A m \in stored : ChatOf[m] = active => m \in new.rows
    BY <2>2, <2>4
  <2> HIDE DEF new
  <2>6. gets' = {new}
    BY <2>1, <2>2
  <2>7. QED BY <2>1, <2>2, <2>4, <2>5, <2>6 DEF CalmInv, Opening, Sending, ChatExact
<1>4. ASSUME NEW g \in gets, ChatAnswer(g) PROVE CalmInv' /\ ChatExact'
  <2>1. /\ calm /\ g.served /\ gets' = gets \ {g}
        /\ shown' = [m \in Messages |-> IF m \in g.rows THEN 1 ELSE 0]
        /\ UNCHANGED <<stored, inHand, active, posts, ws, wire>>
    BY <1>4 DEF ChatAnswer
  <2>2. /\ gets = {g} /\ g.peer = active /\ posts = {} /\ (active # NoPeer => ws)
        /\ \A m \in stored : ChatOf[m] = active => m \in g.rows \/ UnderWay(m)
    BY <2>1 DEF BoxInv, CalmInv, Opening
  <2>3. g.peer \in Peers /\ \A m \in g.rows : m \in stored /\ ChatOf[m] = g.peer
    BY DEF TypeOK, Requests
  <2>4. \A m : UnderWay(m)' = UnderWay(m)
    BY <2>1 DEF UnderWay
  <2>5. CalmInv'
    BY <2>1, <2>2 DEF CalmInv, Opening, Sending
  <2>6. ChatExact'
    BY <2>1, <2>2, <2>3, <2>4 DEF ChatExact
  <2>7. QED BY <2>5, <2>6
<1>5. ASSUME NEW g \in gets, ChatFail(g) PROVE FALSE
  BY <1>5 DEF ChatFail
<1>6. QED BY <1>1, <1>2, <1>3, <1>4, <1>5

\* Sending.
LEMMA CalmPosts ==
  ASSUME TypeOK, BoxInv, calm',
         \/ \E m \in Outgoing : Send(m)
         \/ \E q \in posts : ServeSend(q) \/ SendAnswer(q) \/ SendFail(q)
  PROVE  CalmInv' /\ ChatExact'
<1> /\ shown \in [Messages -> Nat] /\ Outgoing \subseteq Messages
    /\ posts \subseteq [msg : Outgoing, served : BOOLEAN]
  BY DEF TypeOK, Messages
<1> USE DEF server, socket
<1>1. ASSUME NEW q \in posts, calm PROVE gets = {}
  BY <1>1 DEF BoxInv, CalmInv, Opening
<1>2. ASSUME NEW m0 \in Outgoing, Send(m0) PROVE CalmInv' /\ ChatExact'
  <2> DEFINE new == [msg |-> m0, served |-> FALSE]
  <2>1. new.msg = m0
    OBVIOUS
  <2>2. /\ calm /\ gets = {} /\ posts' = posts \cup {new} /\ ChatOf[m0] = active
        /\ m0 \notin stored
        /\ UNCHANGED <<stored, inHand, active, shown, gets, ws, wire>>
    BY <1>2 DEF Send
  <2>3. shown[m0] = 0
    BY <2>2 DEF BoxInv, Posted
  <2> HIDE DEF new
  <2>4. CalmInv'
    BY <2>1, <2>2, <2>3 DEF BoxInv, CalmInv, Opening, Sending
  <2>5. \A m : UnderWay(m) => UnderWay(m)'
    BY <2>2 DEF UnderWay
  <2>6. ChatExact'
    BY <2>2, <2>5 DEF BoxInv, ChatExact
  <2>7. QED BY <2>4, <2>6
<1>3. ASSUME NEW q \in posts, ServeSend(q) PROVE CalmInv' /\ ChatExact'
  <2> DEFINE new == [q EXCEPT !.served = TRUE]
  <2>1. q \in [msg : Outgoing, served : BOOLEAN]
    OBVIOUS
  <2>2. new.msg = q.msg
    BY <2>1
  <2>3. /\ calm /\ posts' = (posts \ {q}) \cup {new} /\ stored' = stored \cup {q.msg}
        /\ UNCHANGED <<inHand, active, shown, gets, ws, wire>>
    BY <1>3 DEF ServeSend
  <2> HIDE DEF new
  <2>4. gets = {}
    BY <1>1, <2>3
  <2>5. CalmInv'
    BY <2>2, <2>3, <2>4 DEF BoxInv, CalmInv, Opening, Sending
  <2>6. \A m : UnderWay(m) => UnderWay(m)'
    BY <2>2, <2>3 DEF UnderWay
  <2>7. UnderWay(q.msg)'
    BY <2>2, <2>3 DEF UnderWay
  <2>8. ChatExact'
    BY <2>3, <2>4, <2>6, <2>7 DEF BoxInv, ChatExact
  <2>9. QED BY <2>5, <2>8
<1>4. ASSUME NEW q \in posts, SendAnswer(q) PROVE CalmInv' /\ ChatExact'
  <2>1. /\ calm /\ posts' = posts \ {q}
        /\ shown' = [shown EXCEPT ![q.msg] = @ + 1]
        /\ UNCHANGED <<stored, inHand, active, gets, ws, wire>>
    BY <1>4 DEF SendAnswer
  <2>2. /\ q.msg \in Messages /\ ChatOf[q.msg] = active /\ shown[q.msg] = 0
        /\ \A r \in posts : r.msg = q.msg => r = q
    BY <2>1 DEF BoxInv, CalmInv, Sending, Posted
  <2>3. shown'[q.msg] = 1 /\ \A m \in Messages : m # q.msg => shown'[m] = shown[m]
    BY <2>1, <2>2
  <2>4. CalmInv'
    BY <1>1, <2>1, <2>2, <2>3 DEF BoxInv, CalmInv, Opening, Sending
  <2>5. \A m : m # q.msg => (UnderWay(m) => UnderWay(m)')
    BY <2>1 DEF UnderWay
  <2>6. active \in Peers
    BY <2>2
  <2>7. ChatExact'
    BY <1>1, <2>1, <2>2, <2>3, <2>5, <2>6 DEF BoxInv, ChatExact
  <2>8. QED BY <2>4, <2>7
<1>5. ASSUME NEW q \in posts, SendFail(q) PROVE FALSE
  BY <1>5 DEF SendFail
<1>6. QED BY <1>2, <1>3, <1>4, <1>5

\* The server's deliveries, and the websocket.
LEMMA CalmSocket ==
  ASSUME TypeOK, BoxInv, calm',
         (\E m \in Incoming : Store(m)) \/ Push \/ OnMessage \/ WsCheck \/ WsClose
  PROVE  CalmInv' /\ ChatExact'
<1> /\ shown \in [Messages -> Nat] /\ Incoming \subseteq Messages
    /\ stored \subseteq Messages
  BY DEF TypeOK, Messages
<1> USE DEF server, socket
<1>1. ASSUME NEW m0 \in Incoming, Store(m0) PROVE CalmInv' /\ ChatExact'
  <2>1. /\ calm /\ inHand = NoMsg /\ inHand' = m0 /\ stored' = stored \cup {m0}
        /\ UNCHANGED <<active, shown, gets, posts, ws, wire>>
    BY <1>1 DEF Store
  <2>2. \A m \in Messages : UnderWay(m) => UnderWay(m)'
    BY <2>1 DEF UnderWay
  <2>3. UnderWay(m0)'
    BY <2>1 DEF UnderWay
  <2>4. CalmInv'
    BY <2>1, <2>2, <2>3 DEF BoxInv, CalmInv, Opening, Sending
  <2>5. ChatExact'
    BY <2>1, <2>2, <2>3 DEF BoxInv, ChatExact
  <2>6. QED BY <2>4, <2>5
<1>2. CASE Push
  <2>1. calm /\ UNCHANGED <<stored, active, shown, gets, posts, ws>>
    BY <1>2 DEF Push
  <2>2. CASE active = NoPeer
    <3>1. gets = {}
      BY <2>1, <2>2 DEF BoxInv, CalmInv, Opening, TypeOK, Requests
    <3>2. QED BY <2>1, <2>2, <3>1 DEF BoxInv, CalmInv, Opening, Sending, ChatExact
  <2>3. CASE active # NoPeer
    <3>1. ws
      BY <2>1, <2>3 DEF BoxInv, CalmInv
    <3>2. \A m \in Messages : UnderWay(m) => UnderWay(m)'
      BY <1>2, <3>1, PushKeeps
    <3>3. CalmInv'
      BY <2>1, <3>2 DEF BoxInv, CalmInv, Opening, Sending
    <3>4. ChatExact'
      BY <2>1, <3>2 DEF BoxInv, ChatExact
    <3>5. QED BY <3>3, <3>4
  <2>4. QED BY <2>2, <2>3
<1>3. CASE OnMessage
  <2> DEFINE h == Head(wire)
  <2>1. /\ calm /\ gets = {} /\ Show(h)
        /\ UNCHANGED <<stored, active, gets, posts, ws>>
    BY <1>3 DEF OnMessage
  <2>2. h \in Incoming
    BY <1>3, HeadTailProperties DEF OnMessage, TypeOK
  <2>3. \A m \in Messages : UnderWay(m) /\ m # h => UnderWay(m)'
    BY <1>3, TakeKeeps
  <2> HIDE DEF h
  <2>4. \A m \in Messages : m # h => shown'[m] = shown[m]
    BY <2>1, <2>2 DEF Show
  <2>5. /\ ChatOf[h] = active => shown'[h] = IF shown[h] = 0 THEN 1 ELSE shown[h]
        /\ ChatOf[h] # active => shown'[h] = shown[h]
    BY <2>1, <2>2 DEF Show
  <2>6. CalmInv'
    <3>1. \A q \in posts : q.msg # h
      BY <2>2 DEF TypeOK
    <3>2. \A q \in posts : q.msg \in Messages
      BY DEF TypeOK, Messages
    <3>3. QED BY <2>1, <2>4, <3>1, <3>2 DEF BoxInv, CalmInv, Opening, Sending
  <2>7. ChatExact'
    BY <2>1, <2>2, <2>3, <2>4, <2>5 DEF BoxInv, ChatExact
  <2>8. QED BY <2>6, <2>7
<1>4. CASE WsCheck
  <2>1. calm /\ ws' /\ UNCHANGED <<stored, inHand, active, shown, gets, posts, wire>>
    BY <1>4 DEF WsCheck
  <2>2. \A m : UnderWay(m)' = UnderWay(m)
    BY <2>1 DEF UnderWay
  <2>3. QED BY <2>1, <2>2 DEF BoxInv, CalmInv, Opening, Sending, ChatExact
<1>5. CASE WsClose
  BY <1>5 DEF WsClose
<1>6. QED BY <1>1, <1>2, <1>3, <1>4, <1>5

\* Every step keeps what a calm chat shows, and is about to show.
LEMMA BoxNext == TypeOK /\ BoxInv /\ [Next]_vars => BoxInv'
<1> SUFFICES ASSUME TypeOK, BoxInv, [Next]_vars PROVE BoxInv'
  OBVIOUS
<1>1. Posted'
  BY PostedNext DEF BoxInv
<1>2. CASE ~calm'
  BY <1>1, <1>2 DEF BoxInv, CalmInv, ChatExact
<1>3. CASE calm' /\ Next
  BY <1>1, <1>3, CalmGets, CalmPosts, CalmSocket DEF Next, BoxInv
<1>4. CASE UNCHANGED vars
  BY <1>4 DEF vars, server, socket, BoxInv, Posted, CalmInv, Opening, Sending, ChatExact,
     UnderWay
<1>5. QED BY <1>2, <1>3, <1>4

\* Without the races that calm names, the open chat shows its messages, each
\* once, or they are under way to it; and none of another chat (ChatExact).
THEOREM ChatComplete == Spec => []ChatExact
<1>1. Init => BoxInv
  BY DEF Init, BoxInv, Posted, CalmInv, Opening, Sending, ChatExact, NoneShown, Messages
<1>2. BoxInv => ChatExact
  BY DEF BoxInv
<1>3. QED BY <1>1, <1>2, BoxNext, TypeCorrect, PTL DEF Spec
=============================================================================
