------------------------------ MODULE ChatBox -------------------------------
(***************************************************************************)
(* The chat box in the browser (chatbox.js): which chat is open and which  *)
(* messages are shown in it, the requests under way, and the websocket     *)
(* (index.js) the server pushes new messages on.                           *)
(*                                                                         *)
(* JavaScript runs one handler at a time: an action is a handler, or the   *)
(* part of it between two awaits.  Requests are independent of each other: *)
(* the server may serve them, and answers may arrive, in any order.  The   *)
(* server is what ChatServer makes of it: an event is stored, then pushed, *)
(* one event at a time, and an event may be delivered again.               *)
(***************************************************************************)
EXTENDS Naturals, Sequences

CONSTANTS
  Peers, NoPeer,   \* public keys to chat with; no chat is open
  Incoming,        \* messages that arrive from the relays
  Outgoing,        \* messages the user may send
  ChatOf,          \* the peer each message is exchanged with
  NoMsg,           \* the server's listener has no message in hand
  MaxSelects,      \* bound: chats opened or closed
  MaxDeliveries,   \* bound: events delivered to the server
  MaxFaults        \* bound: failed requests and lost websockets

Messages == Incoming \cup Outgoing

ASSUME ChatBoxAssumption ==
  /\ NoPeer \notin Peers /\ NoMsg \notin Messages
  /\ Incoming \cap Outgoing = {}
  /\ ChatOf \in [Messages -> Peers]
  /\ MaxSelects \in Nat /\ MaxDeliveries \in Nat /\ MaxFaults \in Nat

VARIABLES
  stored,      \* server: messages in the table
  inHand,      \* server: message stored and yet to be pushed
  delivered,   \* server: number of deliveries
  active,      \* activePublicKey
  shown,       \* messages of the chat box: how often each is there
  gets,        \* GET /message under way: [id, peer, served, rows]
  posts,       \* POST /message under way: [msg, served]
  selects,     \* number of chats opened or closed
  ws,          \* the websocket is open
  wire,        \* pushes under way on it
  calm,        \* history: nothing that races has happened to the open chat
  faults       \* number of faults

server == <<stored, inHand, delivered>>
socket == <<ws, wire>>
vars   == <<server, active, shown, gets, posts, selects, socket, calm, faults>>

NoneShown == [m \in Messages |-> 0]

Init ==
  /\ stored = {} /\ inHand = NoMsg /\ delivered = 0
  /\ active = NoPeer /\ shown = NoneShown /\ gets = {} /\ posts = {} /\ selects = 0
  /\ ws = FALSE /\ wire = <<>>
  /\ calm = TRUE /\ faults = 0

-----------------------------------------------------------------------------
(***************************************************************************)
(* The watcher of activePublicKey, which a click, the back button or an    *)
(* answer to POST /peer changes.  What was shown stays until the answer.   *)
(* A chat starts calm when the websocket is open and no answer to an       *)
(* earlier request is to come.                                             *)
(***************************************************************************)
Select(p) ==
  /\ active # p /\ active' = p
  /\ selects < MaxSelects /\ selects' = selects + 1
  /\ IF p = NoPeer
       THEN shown' = NoneShown /\ UNCHANGED gets
       ELSE /\ gets' = gets \cup {[id |-> selects, peer |-> p, served |-> FALSE,
                                   rows |-> {}]}
            /\ UNCHANGED shown
  /\ calm' = (ws /\ gets = {} /\ posts = {})
  /\ UNCHANGED <<server, posts, socket, faults>>

\* Mutant: not only the messages with that peer.
ServeChatAll(g) ==
  /\ g \in gets /\ ~g.served
  /\ gets' = (gets \ {g}) \cup {[g EXCEPT !.served = TRUE, !.rows = stored]}
  /\ UNCHANGED <<server, active, shown, posts, selects, socket, calm, faults>>

ServeChat(g) ==
  /\ g \in gets /\ ~g.served
  /\ gets' = (gets \ {g}) \cup
             {[g EXCEPT !.served = TRUE, !.rows = {m \in stored : ChatOf[m] = g.peer}]}
  /\ UNCHANGED <<server, active, shown, posts, selects, socket, calm, faults>>

\* Whichever chat is open by then.
ChatAnswer(g) ==
  /\ g \in gets /\ g.served /\ gets' = gets \ {g}
  /\ shown' = [m \in Messages |-> IF m \in g.rows THEN 1 ELSE 0]
  /\ UNCHANGED <<server, active, posts, selects, socket, calm, faults>>

\* The error is notified; what was shown stays.
ChatFail(g) ==
  /\ faults < MaxFaults /\ faults' = faults + 1
  /\ g \in gets /\ gets' = gets \ {g}
  /\ calm' = FALSE
  /\ UNCHANGED <<server, active, shown, posts, selects, socket>>

Send(m) ==
  /\ m \in Outgoing \ stored /\ \A q \in posts : q.msg # m
  /\ ChatOf[m] = active
  /\ posts' = posts \cup {[msg |-> m, served |-> FALSE]}
  /\ calm' = (calm /\ gets = {})
  /\ UNCHANGED <<server, active, shown, gets, selects, socket, faults>>

ServeSend(q) ==
  /\ q \in posts /\ ~q.served
  /\ stored' = stored \cup {q.msg}
  /\ posts' = (posts \ {q}) \cup {[q EXCEPT !.served = TRUE]}
  /\ UNCHANGED <<inHand, delivered, active, shown, gets, selects, socket, calm, faults>>

SendAnswer(q) ==
  /\ q \in posts /\ q.served /\ posts' = posts \ {q}
  /\ shown' = [shown EXCEPT ![q.msg] = @ + 1]
  /\ UNCHANGED <<server, active, gets, selects, socket, calm, faults>>

\* The server refused it, or its answer was lost.
SendFail(q) ==
  /\ faults < MaxFaults /\ faults' = faults + 1
  /\ q \in posts /\ posts' = posts \ {q}
  /\ calm' = FALSE
  /\ UNCHANGED <<server, active, shown, gets, selects, socket>>

-----------------------------------------------------------------------------
(***************************************************************************)
(* New messages: the server stores one, then pushes it to whoever has a    *)
(* websocket open.                                                         *)
(***************************************************************************)
Store(m) ==
  /\ inHand = NoMsg /\ delivered < MaxDeliveries
  /\ stored' = stored \cup {m}
  /\ inHand' = m /\ delivered' = delivered + 1
  /\ UNCHANGED <<active, shown, gets, posts, selects, socket, calm, faults>>

Push ==
  /\ inHand # NoMsg /\ inHand' = NoMsg
  /\ wire' = IF ws THEN Append(wire, inHand) ELSE wire
  /\ UNCHANGED <<stored, delivered, active, shown, gets, posts, selects, ws, calm, faults>>

\* Mutants: not looked for among those shown; shown in whatever chat is open.
ShowAgain(m) == shown' = IF ChatOf[m] = active THEN [shown EXCEPT ![m] = @ + 1]
                                               ELSE shown

ShowAnywhere(m) == shown' = IF shown[m] = 0 THEN [shown EXCEPT ![m] = 1] ELSE shown

\* handleNewMessage(): "Check if this message already exists".
Show(m) == shown' = IF ChatOf[m] = active /\ shown[m] = 0
                      THEN [shown EXCEPT ![m] = 1] ELSE shown

OnMessage ==
  /\ wire # <<>> /\ wire' = Tail(wire)
  /\ Show(Head(wire))
  /\ calm' = (calm /\ gets = {})
  /\ UNCHANGED <<server, active, gets, posts, selects, ws, faults>>

\* The check every five seconds.
WsCheck ==
  /\ ~ws /\ ws' = TRUE
  /\ UNCHANGED <<server, active, shown, gets, posts, selects, wire, calm, faults>>

WsClose ==
  /\ faults < MaxFaults /\ faults' = faults + 1
  /\ ws /\ ws' = FALSE /\ wire' = <<>>
  /\ calm' = FALSE
  /\ UNCHANGED <<server, active, shown, gets, posts, selects>>

-----------------------------------------------------------------------------
Next ==
  \/ \E p \in Peers \cup {NoPeer} : Select(p)
  \/ \E g \in gets : ServeChat(g) \/ ChatAnswer(g) \/ ChatFail(g)
  \/ \E m \in Outgoing : Send(m)
  \/ \E q \in posts : ServeSend(q) \/ SendAnswer(q) \/ SendFail(q)
  \/ \E m \in Incoming : Store(m)
  \/ Push \/ OnMessage \/ WsCheck \/ WsClose

Spec == Init /\ [][Next]_vars

-----------------------------------------------------------------------------
(***************************************************************************)
(* Properties.                                                             *)
(***************************************************************************)
Requests == [id : Nat, peer : Peers, served : BOOLEAN, rows : SUBSET Messages]

\* Types; a request that is served has rows of its own chat, all of them stored.
TypeOK ==
  /\ stored \subseteq Messages
  /\ inHand \in Incoming \cup {NoMsg} /\ delivered \in 0..MaxDeliveries
  /\ active \in Peers \cup {NoPeer} /\ shown \in [Messages -> Nat]
  /\ gets \subseteq Requests
  /\ \A g \in gets : \A m \in g.rows : m \in stored /\ ChatOf[m] = g.peer
  /\ posts \subseteq [msg : Outgoing, served : BOOLEAN]
  /\ selects \in Nat /\ faults \in Nat
  /\ ws \in BOOLEAN /\ wire \in Seq(Incoming) /\ (~ws => wire = <<>>)
  /\ calm \in BOOLEAN

\* However often a message is pushed, and whichever answers race with the
\* pushes, the chat box shows an incoming message at most once.
IncomingOnce == \A m \in Incoming : shown[m] <= 1

UnderWay(m) ==
  \/ inHand = m
  \/ \E i \in 1..Len(wire) : wire[i] = m
  \/ \E q \in posts : q.msg = m

\* What the chat box is for: all messages of the open chat, each once, and none
\* of another.  It holds if the websocket was open and no other request under way
\* when the chat was opened, nothing was pushed or sent before its messages were
\* answered, and nothing was lost.  (Each of these conditions is needed: see
\* calm.)
ChatExact ==
  calm /\ gets = {} => \A m \in Messages :
    IF active # NoPeer /\ ChatOf[m] = active
      THEN (m \in stored => shown[m] = 1 \/ UnderWay(m)) /\ shown[m] <= 1
      ELSE shown[m] = 0
=============================================================================
