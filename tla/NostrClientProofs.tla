------------------------- MODULE NostrClientProofs --------------------------
(***************************************************************************)
(* Theorems about NostrClient, for any number of calls, lost connections   *)
(* and restarts:                                                           *)
(*                                                                         *)
(*   TypeCorrect      Spec => []TypeOK                                     *)
(*   TempsClosed      Spec => []TempWillClose                              *)
(*   OnlyTwoEndings   Spec => SubscriptionKept                             *)
(*                                                                         *)
(* That the CLOSE of a temporary subscription is still to come does not    *)
(* follow from itself: a REQ could be queued behind it.  TempsOK says that *)
(* none is, and that a subscription is only served on an open connection.  *)
(*                                                                         *)
(* A CLOSE of the accounts' subscription may be anywhere in the queue when *)
(* something else happens; it names an id that is never used again, for    *)
(* QueueFresh says that the queue holds no id that is yet to be made up.   *)
(***************************************************************************)
EXTENDS NostrClient, TLAPS

USE NostrClientAssumption DEF NostrClientAssumption

\* What is put on the queue of requests is a request.
LEMMA PutTyped ==
  ASSUME TypeOK, NEW r \in Requests, Put(r)
  PROVE  sendQ' \in Seq(Requests) /\ recvQ' \in Seq({"event", "error"})
BY DEF TypeOK, Put

\* REQs, CLOSEs and publications are requests.
LEMMA RequestsTyped ==
  /\ \A s \in Subs : Req(s) \in Requests /\ Close(s) \in Requests
  /\ Publication \in Requests
<1>1. ASSUME NEW s \in Subs PROVE Req(s) \in Requests /\ Close(s) \in Requests
  BY DEF Req, Close, Requests
<1>2. 0 \in Subs
  BY DEF Subs
<1>3. Publication \in Requests
  BY <1>2 DEF Publication, Requests
<1>4. QED BY <1>1, <1>3

-----------------------------------------------------------------------------
\* Initially every variable has its type.
LEMMA TypeInit == Init => TypeOK
<1> SUFFICES ASSUME Init PROVE TypeOK
  OBVIOUS
<1>1. sendQ \in Seq(Requests) /\ recvQ \in Seq({"event", "error"})
  BY DEF Init
<1>2. /\ current \in Subs /\ next \in 1..(MaxSubs + 1) /\ closing \in Nat
      /\ calls \in 0..MaxCalls /\ drops \in 0..MaxDrops /\ restarts \in 0..MaxRestarts
      /\ failures \in 0..MaxFailures /\ reopening \in Nat
  BY DEF Init, Subs
<1>3. QED BY <1>1, <1>2 DEF Init, TypeOK

\* The sender's steps keep the types.
LEMMA TypeSender ==
  ASSUME TypeOK, RunForever
  PROVE  TypeOK'
<1> USE DEF TypeOK, queues, socket, ids, tasks, admin, counts
<1>1. CASE SenderCheck \/ SenderOpened \/ SenderRetry
  BY <1>1 DEF SenderCheck, SenderOpened, SenderRetry
<1>2. CASE SenderSend
  <2>1. sendQ' \in Seq(Requests) /\ Head(sendQ) \in Requests
    BY <1>2 DEF SenderSend
  <2>2. Served(Head(sendQ)) \subseteq Subs
    BY <2>1 DEF Served, Requests
  <2>3. open' \subseteq Subs /\ sender' \in {"check", "opening", "get", "backoff", "cancelled"}
    BY <1>2, <2>2 DEF SenderSend
  <2>4. QED BY <1>2, <2>1, <2>3 DEF SenderSend
<1>3. QED BY <1>1, <1>2 DEF RunForever

\* Ids are never used twice: those in use are smaller than the next.
FreshIds == current < next /\ \A t \in temps : t < next

\* Opening a subscription makes a new id.
LEMMA SubscribeTyped ==
  ASSUME TypeOK, FreshIds, Subscribe
  PROVE  /\ sendQ' \in Seq(Requests) /\ recvQ' \in Seq({"event", "error"})
         /\ current' \in Subs /\ next' \in 1..(MaxSubs + 1)
         /\ temps' \subseteq Subs /\ timers' \subseteq temps' /\ current' \notin temps'
         /\ FreshIds'
<1>1. next \in Subs
  BY DEF Subscribe, TypeOK, Subs
<1>2. sendQ' \in Seq(Requests) /\ recvQ' \in Seq({"event", "error"})
  BY <1>1, RequestsTyped, PutTyped DEF Subscribe
<1>3. current' = next /\ next' = next + 1 /\ temps' = temps /\ timers' = timers
  BY DEF Subscribe
<1>4. current' \in Subs /\ next' \in 1..(MaxSubs + 1)
  BY <1>1, <1>3 DEF Subs
<1>5. current' \notin temps' /\ FreshIds'
  BY <1>3 DEF FreshIds, TypeOK, Subs
<1>6. QED BY <1>2, <1>3, <1>4, <1>5 DEF TypeOK

\* Statements that raise are counted up to the bound.
LEMMA FailTyped ==
  ASSUME TypeOK, Fail
  PROVE  failures' \in 0..MaxFailures
BY DEF TypeOK, Fail

\* The listener's steps keep the types.
LEMMA TypeListener ==
  ASSUME TypeOK, FreshIds, WaitForEvents
  PROVE  TypeOK' /\ FreshIds'
<1> USE DEF queues, socket, ids, tasks, admin, counts
<1>1. CASE ListenerSubscribe
  BY <1>1, SubscribeTyped DEF ListenerSubscribe, TypeOK
<1>2. CASE ListenerGet
  <2>1. recvQ' \in Seq({"event", "error"}) /\ listener' \in {"get", "backoff"}
    BY <1>2 DEF ListenerGet, TypeOK
  <2>2. QED BY <1>2, <2>1 DEF ListenerGet, TypeOK, FreshIds
<1>3. CASE ListenerRetry
  BY <1>3 DEF ListenerRetry, TypeOK, FreshIds
<1>4. CASE ListenerRaise
  <2>1. failures' \in 0..MaxFailures
    BY <1>4, FailTyped DEF ListenerRaise
  <2>2. QED BY <1>4, <2>1 DEF ListenerRaise, TypeOK, FreshIds
<1>5. QED BY <1>1, <1>2, <1>3, <1>4 DEF WaitForEvents

\* The websocket's thread keeps the types.
LEMMA TypeSocket ==
  ASSUME TypeOK, FreshIds, Connected \/ Drop \/ OnMessage \/ OnClose
  PROVE  TypeOK' /\ FreshIds'
<1> USE DEF TypeOK, FreshIds, queues, socket, ids, tasks, admin, counts
<1>1. CASE Connected
  BY <1>1 DEF Connected
<1>2. CASE Drop
  BY <1>2 DEF Drop
<1>3. CASE OnMessage
  BY <1>3 DEF OnMessage
<1>4. CASE OnClose
  BY <1>4 DEF OnClose
<1>5. QED BY <1>1, <1>2, <1>3, <1>4

\* Handlers and delayed tasks keep the types.
LEMMA TypeHandlers ==
  ASSUME TypeOK, FreshIds,
         \/ Publish \/ ApiClose \/ ApiDeleteRefused \/ ApiReopen \/ ApiGiveUp \/ TempSubscribe
         \/ \E t \in timers : TempExpire(t)
  PROVE  TypeOK' /\ FreshIds'
<1> USE DEF queues, socket, ids, tasks, admin, counts
<1>1. CASE Publish
  <2>1. sendQ' \in Seq(Requests) /\ recvQ' \in Seq({"event", "error"})
    BY <1>1, RequestsTyped, PutTyped DEF Publish
  <2>2. QED BY <1>1, <2>1 DEF Publish, Call, TypeOK, FreshIds
<1>2. CASE ApiClose
  <2>1. sendQ' \in Seq(Requests) /\ recvQ' \in Seq({"event", "error"})
    BY <1>2, RequestsTyped, PutTyped DEF ApiClose, Unsubscribe, TypeOK
  <2>2. QED BY <1>2, <2>1 DEF ApiClose, Call, TypeOK, FreshIds
<1>3. CASE ApiReopen
  BY <1>3, SubscribeTyped DEF ApiReopen, TypeOK
<1>4. CASE TempSubscribe
  <2>1. next \in Subs
    BY <1>4 DEF TempSubscribe, TypeOK, Subs
  <2>2. sendQ' \in Seq(Requests) /\ recvQ' \in Seq({"event", "error"})
    BY <1>4, <2>1, RequestsTyped, PutTyped DEF TempSubscribe
  <2>3. /\ temps' = temps \cup {next} /\ timers' = timers \cup {next}
        /\ next' = next + 1 /\ current' = current
    BY <1>4 DEF TempSubscribe
  <2>4. temps' \subseteq Subs /\ timers' \subseteq temps' /\ next' \in 1..(MaxSubs + 1)
    BY <2>1, <2>3 DEF TypeOK, Subs
  <2>5. current' \notin temps' /\ FreshIds'
    BY <2>1, <2>3 DEF TypeOK, FreshIds, Subs
  <2>6. QED BY <1>4, <2>2, <2>3, <2>4, <2>5 DEF TempSubscribe, Call, TypeOK
<1>5. ASSUME NEW t \in timers, TempExpire(t) PROVE TypeOK' /\ FreshIds'
  <2>1. sendQ' \in Seq(Requests) /\ recvQ' \in Seq({"event", "error"})
    BY <1>5, RequestsTyped, PutTyped DEF TempExpire, TypeOK
  <2>2. QED BY <1>5, <2>1 DEF TempExpire, TypeOK, FreshIds
<1>6. CASE ApiDeleteRefused
  <2>1. reopening' \in Nat /\ calls' \in 0..MaxCalls
    BY <1>6 DEF ApiDeleteRefused, Call, TypeOK
  <2>2. QED BY <1>6, <2>1 DEF ApiDeleteRefused, TypeOK, FreshIds
<1>7. CASE ApiGiveUp
  <2>1. failures' \in 0..MaxFailures
    BY <1>7, FailTyped DEF ApiGiveUp
  <2>2. reopening' \in Nat
    BY <1>7 DEF ApiGiveUp, TypeOK
  <2>3. QED BY <1>7, <2>1, <2>2 DEF ApiGiveUp, TypeOK, FreshIds
<1>8. QED BY <1>1, <1>2, <1>3, <1>4, <1>5, <1>6, <1>7

\* restart() and stop() keep the types.
LEMMA TypeAdmin ==
  ASSUME TypeOK, FreshIds, RestartClose \/ RestartStop \/ StopClose \/ StopWs
  PROVE  TypeOK' /\ FreshIds'
<1> USE DEF queues, socket, ids, tasks, admin, counts
<1>1. CASE RestartClose
  <2>1. sendQ' \in Seq(Requests) /\ recvQ' \in Seq({"event", "error"})
    BY <1>1, RequestsTyped, PutTyped DEF RestartClose, Unsubscribe, TypeOK
  <2>2. QED BY <1>1, <2>1 DEF RestartClose, TypeOK, FreshIds
<1>2. CASE RestartStop
  <2>1. recvQ' \in Seq({"event", "error"})
    BY <1>2 DEF RestartStop, TypeOK
  <2>2. QED BY <1>2, <2>1 DEF RestartStop, SafeWsStop, TypeOK, FreshIds
<1>3. CASE StopClose
  <2>1. sendQ' \in Seq(Requests) /\ recvQ' \in Seq({"event", "error"})
    BY <1>3, RequestsTyped, PutTyped DEF StopClose, Unsubscribe, TypeOK
  <2>2. QED BY <1>3, <2>1 DEF StopClose, TypeOK, FreshIds
<1>4. CASE StopWs
  BY <1>4 DEF StopWs, SafeWsStop, TypeOK, FreshIds
<1>5. QED BY <1>1, <1>2, <1>3, <1>4

\* Every step keeps the types, and ids fresh.
LEMMA TypeNext == TypeOK /\ FreshIds /\ [Next]_vars => TypeOK' /\ FreshIds'
<1> SUFFICES ASSUME TypeOK, FreshIds, [Next]_vars PROVE TypeOK' /\ FreshIds'
  OBVIOUS
<1>1. CASE RunForever
  BY <1>1, TypeSender DEF FreshIds, RunForever, SenderCheck, SenderOpened, SenderSend,
                          SenderRetry, ids
<1>2. CASE WaitForEvents
  BY <1>2, TypeListener
<1>3. CASE Connected \/ Drop \/ OnMessage \/ OnClose
  BY <1>3, TypeSocket
<1>4. CASE \/ Publish \/ ApiClose \/ ApiDeleteRefused \/ ApiReopen \/ ApiGiveUp \/ TempSubscribe
           \/ \E t \in timers : TempExpire(t)
  BY <1>4, TypeHandlers
<1>5. CASE RestartClose \/ RestartStop \/ StopClose \/ StopWs
  BY <1>5, TypeAdmin
<1>6. CASE UNCHANGED vars
  BY <1>6 DEF TypeOK, FreshIds, vars, queues, socket, ids, tasks, admin, counts
<1>7. QED BY <1>1, <1>2, <1>3, <1>4, <1>5, <1>6 DEF Next

\* The current subscription is never a temporary one, and every variable has
\* the type its queue, websocket or task has.
THEOREM TypeCorrect == Spec => []TypeOK
<1>1. Init => TypeOK /\ FreshIds
  BY TypeInit DEF Init, FreshIds
<1>2. QED BY <1>1, TypeNext, PTL DEF Spec

-----------------------------------------------------------------------------
\* A CLOSE of t is queued behind every REQ for it; or t is done with.
CloseBehind(t) == \E i \in 1..Len(sendQ) :
  sendQ[i] = Close(t) /\ \A j \in i..Len(sendQ) : sendQ[j] # Req(t)
Done(t) == t \notin open /\ \A j \in 1..Len(sendQ) : sendQ[j] # Req(t)

\* Only an open connection serves subscriptions.
TempsOK ==
  /\ ws # "open" => open = {}
  /\ \A t \in temps : t \in timers \/ CloseBehind(t) \/ Done(t)

\* Requests of different kinds, or of different subscriptions, differ.
LEMMA RequestsDiffer ==
  ASSUME NEW s, NEW t
  PROVE  Close(s) # Req(t) /\ Publication # Req(t) /\ (s # t => Req(s) # Req(t))
BY DEF Req, Close, Publication

\* What is put on the queue leaves t's CLOSE behind its REQs, unless it is a REQ
\* for t.
LEMMA PutKeeps ==
  ASSUME TypeOK, NEW r \in Requests, Put(r), NEW t, r # Req(t), open' \subseteq open
  PROVE  (CloseBehind(t) => CloseBehind(t)') /\ (Done(t) => Done(t)')
<1>1. /\ Len(sendQ') = Len(sendQ) + 1 /\ sendQ'[Len(sendQ) + 1] = r
      /\ \A i \in 1..Len(sendQ) : sendQ'[i] = sendQ[i]
      /\ Len(sendQ) \in Nat
  BY DEF TypeOK, Put
<1>2. ASSUME CloseBehind(t) PROVE CloseBehind(t)'
  <2>1. PICK i \in 1..Len(sendQ) :
          sendQ[i] = Close(t) /\ \A j \in i..Len(sendQ) : sendQ[j] # Req(t)
    BY <1>2 DEF CloseBehind
  <2>2. i \in 1..Len(sendQ') /\ sendQ'[i] = Close(t)
    BY <1>1, <2>1
  <2>3. \A j \in i..Len(sendQ') : sendQ'[j] # Req(t)
    BY <1>1, <2>1
  <2>4. QED BY <2>2, <2>3 DEF CloseBehind, Close, Req
<1>3. ASSUME Done(t) PROVE Done(t)'
  <2>1. \A j \in 1..Len(sendQ') : sendQ'[j] # Req(t)
    BY <1>1, <1>3 DEF Done
  <2>2. QED BY <1>3, <2>1 DEF Done, Req
<1>4. QED BY <1>2, <1>3

\* The CLOSE a delayed task puts on the queue is behind everything.
LEMMA PutCloses ==
  ASSUME TypeOK, NEW t, Put(Close(t))
  PROVE  CloseBehind(t)'
<1>1. /\ Len(sendQ') = Len(sendQ) + 1 /\ sendQ'[Len(sendQ) + 1] = Close(t)
      /\ Len(sendQ) \in Nat
  BY DEF TypeOK, Put
<1>2. \A j \in (Len(sendQ) + 1)..Len(sendQ') : sendQ'[j] # Req(t)
  BY <1>1, RequestsDiffer
<1>3. Len(sendQ) + 1 \in 1..Len(sendQ')
  BY <1>1
<1>4. QED BY <1>1, <1>2, <1>3 DEF CloseBehind, Close, Req

\* A step that queues nothing and opens nothing keeps TempsOK.
LEMMA TempsKept ==
  ASSUME TempsOK, UNCHANGED <<sendQ, temps, timers>>, open' \subseteq open,
         ws' # "open" => open' = {}
  PROVE  TempsOK'
<1>1. ASSUME NEW t, CloseBehind(t) PROVE CloseBehind(t)'
  BY <1>1 DEF CloseBehind, Close, Req
<1>2. ASSUME NEW t, Done(t) PROVE Done(t)'
  BY <1>2 DEF Done, Req
<1>3. QED BY <1>1, <1>2 DEF TempsOK

\* Nor does a request that is no REQ for one of the temporary subscriptions.
LEMMA TempsPut ==
  ASSUME TypeOK, TempsOK, NEW r \in Requests, Put(r), UNCHANGED <<temps, timers, open, ws>>,
         \A t \in temps : r # Req(t)
  PROVE  TempsOK'
BY PutKeeps DEF TempsOK

\* The sender takes the first request: what it sends opens t only if a CLOSE is
\* left behind it.
LEMMA TempsSend ==
  ASSUME TypeOK, TempsOK, SenderSend
  PROVE  TempsOK'
<1> DEFINE r == Head(sendQ)
<1>1. /\ sendQ # <<>> /\ Len(sendQ) \in Nat \ {0} /\ r = sendQ[1] /\ r \in Requests
      /\ Len(sendQ') = Len(sendQ) - 1
      /\ \A i \in 1..Len(sendQ') : sendQ'[i] = sendQ[i + 1]
  BY DEF SenderSend, TypeOK
<1>2. /\ UNCHANGED <<ws, temps, timers>>
      /\ \/ ws = "open" /\ open' = Served(r)
         \/ ws # "open" /\ open' = {}
  BY DEF SenderSend, ids, TempsOK
<1>3. ASSUME NEW t \in temps, r = Req(t), Done(t) PROVE FALSE
  BY <1>1, <1>3 DEF Done
<1>4. ASSUME NEW t \in temps, t \notin open, r # Req(t) PROVE t \notin open'
  <2>1. r.kind = "REQ" => r.sub # t
    BY <1>1, <1>4 DEF Requests, Req
  <2>2. QED BY <1>1, <1>2, <1>4, <2>1 DEF Served, Requests
<1>5. ASSUME NEW t \in temps, Done(t) PROVE Done(t)'
  <2>1. \A j \in 1..Len(sendQ') : sendQ'[j] # Req(t)
    BY <1>1, <1>5 DEF Done
  <2>2. r # Req(t) /\ t \notin open
    BY <1>3, <1>5 DEF Done
  <2>3. t \notin open'
    BY <1>4, <2>2
  <2>4. QED BY <2>1, <2>3 DEF Done, Req
<1>6. ASSUME NEW t \in temps, CloseBehind(t) PROVE CloseBehind(t)' \/ Done(t)'
  <2>1. PICK i \in 1..Len(sendQ) :
          sendQ[i] = Close(t) /\ \A j \in i..Len(sendQ) : sendQ[j] # Req(t)
    BY <1>6 DEF CloseBehind
  <2>2. CASE i = 1
    <3>1. r = Close(t)
      BY <1>1, <2>1, <2>2
    <3>2. r.kind = "CLOSE" /\ r.sub = t
      BY <3>1 DEF Close
    <3>3. t \notin open'
      BY <1>2, <3>2 DEF Served
    <3>4. \A j \in 1..Len(sendQ') : sendQ'[j] # Req(t)
      BY <1>1, <2>1, <2>2
    <3>5. QED BY <3>3, <3>4 DEF Done, Req
  <2>3. CASE i # 1
    <3>1. i - 1 \in 1..Len(sendQ') /\ sendQ'[i - 1] = Close(t)
      BY <1>1, <2>1, <2>3
    <3>2. \A j \in (i - 1)..Len(sendQ') : sendQ'[j] # Req(t)
      BY <1>1, <2>1, <2>3
    <3>3. QED BY <3>1, <3>2 DEF CloseBehind, Close, Req
  <2>4. QED BY <2>2, <2>3
<1>7. QED BY <1>2, <1>5, <1>6 DEF TempsOK

\* Every step keeps TempsOK.
LEMMA TempsNext == TypeOK /\ FreshIds /\ TempsOK /\ [Next]_vars => TempsOK'
<1> SUFFICES ASSUME TypeOK, FreshIds, TempsOK, [Next]_vars PROVE TempsOK'
  OBVIOUS
<1> USE DEF queues, socket, ids, tasks, admin, counts
<1>1. CASE SenderCheck \/ SenderOpened \/ SenderRetry
  BY <1>1, TempsKept DEF SenderCheck, SenderOpened, SenderRetry, TempsOK
<1>2. CASE SenderSend
  BY <1>2, TempsSend
<1>3. CASE \/ ListenerGet \/ ListenerRetry \/ ListenerRaise \/ ApiDeleteRefused \/ ApiGiveUp
           \/ Connected \/ Drop \/ OnMessage \/ OnClose
  BY <1>3, TempsKept DEF ListenerGet, ListenerRetry, ListenerRaise, ApiDeleteRefused, ApiGiveUp,
                         Connected, Drop, OnMessage, OnClose, TempsOK
<1>4. CASE Subscribe /\ UNCHANGED <<open, ws>>
  <2>1. next \in Subs /\ Req(next) \in Requests
    BY <1>4, RequestsTyped DEF Subscribe, TypeOK, Subs
  <2>2. \A t \in temps : Req(next) # Req(t)
    BY RequestsDiffer DEF FreshIds, TypeOK, Subs
  <2>3. QED BY <1>4, <2>1, <2>2, TempsPut DEF Subscribe
<1>5. CASE (ListenerSubscribe \/ ApiReopen)
  BY <1>4, <1>5 DEF ListenerSubscribe, ApiReopen
<1>6. CASE Unsubscribe /\ UNCHANGED <<temps, timers, open, ws>>
  BY <1>6, TempsPut, RequestsTyped, RequestsDiffer DEF Unsubscribe, TypeOK
<1>7. CASE ApiClose \/ RestartClose \/ StopClose
  BY <1>6, <1>7 DEF ApiClose, RestartClose, StopClose
<1>8. CASE Publish
  BY <1>8, TempsPut, RequestsTyped, RequestsDiffer DEF Publish
<1>9. CASE TempSubscribe
  <2>1. next \in Subs /\ Req(next) \in Requests
    BY <1>9, RequestsTyped DEF TempSubscribe, TypeOK, Subs
  <2>2. /\ temps' = temps \cup {next} /\ timers' = timers \cup {next}
        /\ UNCHANGED <<open, ws>> /\ Put(Req(next))
    BY <1>9 DEF TempSubscribe
  <2>3. ASSUME NEW t \in temps PROVE t \in timers' \/ CloseBehind(t)' \/ Done(t)'
    <3>1. Req(next) # Req(t)
      BY RequestsDiffer DEF FreshIds, TypeOK, Subs
    <3>2. QED BY <2>1, <2>2, <3>1, PutKeeps DEF TempsOK
  <2>4. QED BY <2>2, <2>3 DEF TempsOK
<1>10. ASSUME NEW t \in timers, TempExpire(t) PROVE TempsOK'
  <2>1. /\ Put(Close(t)) /\ Close(t) \in Requests
        /\ timers' = timers \ {t} /\ UNCHANGED <<temps, open, ws>>
    BY <1>10, RequestsTyped DEF TempExpire, TypeOK
  <2>2. CloseBehind(t)'
    BY <2>1, PutCloses
  <2>3. ASSUME NEW s \in temps PROVE s \in timers' \/ CloseBehind(s)' \/ Done(s)'
    BY <2>1, <2>2, PutKeeps, RequestsDiffer DEF TempsOK
  <2>4. QED BY <2>1, <2>3 DEF TempsOK
<1>11. CASE RestartStop \/ StopWs
  BY <1>11, TempsKept DEF RestartStop, StopWs, SafeWsStop
<1>12. CASE UNCHANGED vars
  BY <1>12, TempsKept DEF vars, TempsOK
<1>13. QED
  BY <1>1, <1>2, <1>3, <1>5, <1>7, <1>8, <1>9, <1>10, <1>11, <1>12
     DEF Next, RunForever, WaitForEvents

\* Whatever connections and requests are lost, the task of a temporary
\* subscription that is served still sleeps, or its CLOSE is queued.
THEOREM TempsClosed == Spec => []TempWillClose
<1>1. Init => TypeOK /\ FreshIds /\ TempsOK
  BY TypeInit DEF Init, FreshIds, TempsOK
<1>2. TypeOK /\ FreshIds /\ TempsOK /\ [Next]_vars => (TypeOK /\ FreshIds /\ TempsOK)'
  BY TypeNext, TempsNext
<1>3. TempsOK => TempWillClose
  BY DEF TempsOK, TempWillClose, CloseBehind, Done, Queued
<1>4. QED BY <1>1, <1>2, <1>3, PTL DEF Spec

-----------------------------------------------------------------------------
\* The listener will be told.
Told == \E i \in 1..Len(recvQ) : recvQ[i] = "error"

\* Requests are about ids that were handed out.
QueueFresh == \A i \in 1..Len(sendQ) : sendQ[i].sub < next

SubInv == TypeOK /\ FreshIds /\ TempsOK /\ QueueFresh

\* An error in the queue stays there until the listener takes it, and a new one is in it.
LEMMA ToldPut ==
  ASSUME TypeOK, NEW e \in {"event", "error"}, recvQ' = Append(recvQ, e)
  PROVE  (Told => Told') /\ (e = "error" => Told')
<1>1. /\ Len(recvQ') = Len(recvQ) + 1 /\ recvQ'[Len(recvQ) + 1] = e
      /\ \A i \in 1..Len(recvQ) : recvQ'[i] = recvQ[i]
      /\ Len(recvQ) \in Nat
  BY DEF TypeOK
<1>2. Told => Told'
  BY <1>1 DEF Told
<1>3. e = "error" => Told'
  <2>1. Len(recvQ) + 1 \in 1..Len(recvQ')
    BY <1>1
  <2>2. QED BY <1>1, <2>1 DEF Told
<1>4. QED BY <1>2, <1>3

\* The listener goes on to subscribe when it takes an error.
LEMMA ToldTaken ==
  ASSUME TypeOK, ListenerGet
  PROVE  Told => Told' \/ listener' = "backoff"
<1>1. /\ recvQ # <<>> /\ Len(recvQ) \in Nat \ {0} /\ Head(recvQ) = recvQ[1]
      /\ Len(recvQ') = Len(recvQ) - 1
      /\ \A i \in 1..Len(recvQ') : recvQ'[i] = recvQ[i + 1]
  BY DEF ListenerGet, TypeOK
<1>2. ASSUME NEW i \in 1..Len(recvQ), recvQ[i] = "error", i # 1 PROVE Told'
  <2>1. i - 1 \in 1..Len(recvQ') /\ recvQ'[i - 1] = "error"
    BY <1>1, <1>2
  <2>2. QED BY <2>1 DEF Told
<1>3. recvQ[1] = "error" => listener' = "backoff"
  BY <1>1 DEF ListenerGet
<1>4. QED BY <1>2, <1>3 DEF Told

\* Who is about to subscribe does so, unless the handler gives up or the extension is
\* stopped: no other step makes the need forgotten.
LEMMA DueStays ==
  ASSUME TypeOK, [Next]_vars, ~ListenerSubscribe, ~ApiReopen, ~ApiGiveUp, Due \/ Stopping
  PROVE  (Due \/ Stopping)'
<1> USE DEF queues, socket, ids, tasks, admin, counts, Stopping
<1>1. CASE RunForever
  BY <1>1 DEF RunForever, SenderCheck, SenderOpened, SenderSend, SenderRetry, Due
<1>2. CASE ListenerGet
  BY <1>2, ToldTaken DEF ListenerGet, Told, Due
<1>3. CASE ListenerRetry \/ ListenerRaise \/ Connected
  BY <1>3 DEF ListenerRetry, ListenerRaise, Connected, Due
<1>4. CASE Drop
  BY <1>4 DEF Drop, Due, TypeOK
<1>5. CASE OnMessage
  <2>1. Told => Told'
    BY <1>5, ToldPut DEF OnMessage
  <2>2. QED BY <1>5, <2>1 DEF OnMessage, Told, Due
<1>6. CASE OnClose
  <2>1. Told'
    BY <1>6, ToldPut DEF OnClose
  <2>2. QED BY <2>1 DEF Told, Due
<1>7. CASE Publish \/ TempSubscribe \/ (\E t \in timers : TempExpire(t)) \/ RestartClose
  BY <1>7 DEF Publish, TempSubscribe, TempExpire, RestartClose, Unsubscribe, Put, Call, Due
<1>8. CASE ApiClose \/ ApiDeleteRefused
  <2>1. reopening' > 0
    BY <1>8 DEF ApiClose, ApiDeleteRefused, TypeOK
  <2>2. QED BY <2>1 DEF Due
<1>9. CASE RestartStop
  <2>1. Told'
    BY <1>9, ToldPut DEF RestartStop
  <2>2. QED BY <2>1 DEF Told, Due
<1>10. CASE StopClose \/ StopWs
  BY <1>10 DEF StopClose, StopWs, Due
<1>11. CASE UNCHANGED vars
  BY <1>11 DEF vars, Due
<1>12. QED
  BY <1>1, <1>2, <1>3, <1>4, <1>5, <1>6, <1>7, <1>8, <1>9, <1>10, <1>11
     DEF Next, WaitForEvents

\* What putting a request on the queue, and sending the first, do to what is queued.
LEMMA QueuePut ==
  ASSUME TypeOK, NEW r \in Requests, Put(r)
  PROVE  /\ Queued(r)'
         /\ \A c : (Queued(c) => Queued(c)') /\ (Queued(c)' => Queued(c) \/ c = r)
         /\ QueueFresh /\ r.sub < next' /\ next <= next' /\ next' \in Nat => QueueFresh'
<1>1. /\ Len(sendQ') = Len(sendQ) + 1 /\ sendQ'[Len(sendQ) + 1] = r
      /\ \A i \in 1..Len(sendQ) : sendQ'[i] = sendQ[i]
      /\ Len(sendQ) \in Nat
  BY DEF TypeOK, Put
<1>2. Len(sendQ) + 1 \in 1..Len(sendQ')
  BY <1>1
<1>3. Queued(r)'
  BY <1>1, <1>2 DEF Queued
<1>4. \A i \in 1..Len(sendQ') : sendQ'[i] = r \/ (i \in 1..Len(sendQ) /\ sendQ'[i] = sendQ[i])
  BY <1>1
<1>5. ASSUME NEW c PROVE (Queued(c) => Queued(c)') /\ (Queued(c)' => Queued(c) \/ c = r)
  BY <1>1, <1>4 DEF Queued
<1>6. ASSUME QueueFresh, r.sub < next', next <= next', next' \in Nat PROVE QueueFresh'
  <2>1. ASSUME NEW i \in 1..Len(sendQ) PROVE sendQ[i].sub < next'
    <3>1. sendQ[i] \in Requests /\ next \in Nat
      BY DEF TypeOK
    <3>2. sendQ[i].sub \in Nat
      BY <3>1 DEF Requests, Subs
    <3>3. sendQ[i].sub < next
      BY <1>6 DEF QueueFresh
    <3>4. QED BY <1>6, <3>1, <3>2, <3>3
  <2>2. QED BY <1>4, <1>6, <2>1 DEF QueueFresh
<1>7. QED BY <1>3, <1>5, <1>6

LEMMA QueueSend ==
  ASSUME TypeOK, SenderSend
  PROVE  /\ Head(sendQ) \in Requests
         /\ \A c : (Queued(c)' => Queued(c)) /\ (Queued(c) => Queued(c)' \/ c = Head(sendQ))
         /\ Queued(Head(sendQ))
         /\ QueueFresh => QueueFresh'
<1>1. /\ sendQ # <<>> /\ Len(sendQ) \in Nat \ {0} /\ Head(sendQ) = sendQ[1]
      /\ Head(sendQ) \in Requests
      /\ Len(sendQ') = Len(sendQ) - 1
      /\ \A i \in 1..Len(sendQ') : sendQ'[i] = sendQ[i + 1] /\ i + 1 \in 1..Len(sendQ)
  BY DEF SenderSend, TypeOK
<1>2. ASSUME NEW c PROVE Queued(c)' => Queued(c)
  BY <1>1 DEF Queued
<1>3. ASSUME NEW c, Queued(c) PROVE Queued(c)' \/ c = Head(sendQ)
  <2>1. PICK i \in 1..Len(sendQ) : sendQ[i] = c
    BY <1>3 DEF Queued
  <2>2. ASSUME i # 1 PROVE Queued(c)'
    <3>1. i - 1 \in 1..Len(sendQ') /\ sendQ'[i - 1] = c
      BY <1>1, <2>1, <2>2
    <3>2. QED BY <3>1 DEF Queued
  <2>3. QED BY <1>1, <2>1, <2>2
<1>4. Queued(Head(sendQ))
  BY <1>1 DEF Queued
<1>5. QueueFresh => QueueFresh'
  BY <1>1 DEF QueueFresh, SenderSend, ids
<1>6. QED BY <1>1, <1>2, <1>3, <1>4, <1>5

\* What each step does to the queue and the id of the current subscription.
LEMMA QueueSteps ==
  ASSUME TypeOK, FreshIds, [Next]_vars, ~SenderSend
  PROVE  \/ UNCHANGED <<sendQ, current, next>>
         \/ \E r \in Requests :
              /\ Put(r) /\ r.sub < next' /\ next <= next' /\ next' \in Nat
              /\ \/ current' = current /\ r # Close(current) /\ ~ListenerSubscribe /\ ~ApiReopen
                 \/ current' = current /\ r = Close(current) /\ (Due' \/ Stopping')
                 \/ current' = next /\ r = Req(next)
<1> USE DEF queues, socket, ids, tasks, admin, counts
<1>1. next \in Nat /\ current \in Subs /\ current < next
  BY DEF TypeOK, FreshIds
<1>2. CASE \/ SenderCheck \/ SenderOpened \/ SenderRetry \/ ListenerGet \/ ListenerRetry
           \/ ListenerRaise \/ ApiDeleteRefused \/ ApiGiveUp \/ Connected \/ Drop
           \/ OnMessage \/ OnClose \/ RestartStop \/ StopWs
           \/ UNCHANGED vars
  BY <1>2 DEF SenderCheck, SenderOpened, SenderRetry, ListenerGet, ListenerRetry,
              ListenerRaise, ApiDeleteRefused, ApiGiveUp, Connected, Drop, OnMessage, OnClose,
              RestartStop, StopWs, SafeWsStop, vars
<1>3. CASE ListenerSubscribe \/ ApiReopen
  <2>1. Put(Req(next)) /\ current' = next /\ next' = next + 1 /\ next \in Subs
    BY <1>1, <1>3 DEF ListenerSubscribe, ApiReopen, Subscribe, Subs
  <2>2. Req(next) \in Requests /\ Req(next).sub = next
    BY <2>1, RequestsTyped DEF Req
  <2>3. QED BY <1>1, <2>1, <2>2
<1>4. CASE ApiClose \/ RestartClose \/ StopClose
  <2>1. Put(Close(current)) /\ UNCHANGED <<current, next>>
    BY <1>4 DEF ApiClose, RestartClose, StopClose, Unsubscribe
  <2>2. Close(current) \in Requests /\ Close(current).sub = current
    BY <1>1, RequestsTyped DEF Close
  <2>3. Due' \/ Stopping'
    BY <1>4 DEF ApiClose, RestartClose, StopClose, Due, Stopping, TypeOK
  <2>4. QED BY <1>1, <2>1, <2>2, <2>3
<1>5. CASE Publish
  <2>1. /\ Put(Publication) /\ UNCHANGED <<current, next>> /\ Publication \in Requests
        /\ Publication.sub = 0 /\ Publication # Close(current)
    BY <1>5, RequestsTyped DEF Publish, Publication, Close
  <2>2. ~ListenerSubscribe /\ ~ApiReopen
    BY <1>1, <2>1 DEF ListenerSubscribe, ApiReopen, Subscribe
  <2>3. 0 < next
    BY DEF TypeOK
  <2>4. QED BY <1>1, <2>1, <2>2, <2>3
<1>6. CASE TempSubscribe
  <2>1. Put(Req(next)) /\ current' = current /\ next' = next + 1 /\ next \in Subs
    BY <1>1, <1>6 DEF TempSubscribe, Subs
  <2>2. Req(next) \in Requests /\ Req(next).sub = next /\ Req(next) # Close(current)
    BY <2>1, RequestsTyped DEF Req, Close
  <2>3. ~ListenerSubscribe /\ ~ApiReopen
    BY <1>1, <2>1 DEF ListenerSubscribe, ApiReopen, Subscribe
  <2>4. QED BY <1>1, <2>1, <2>2, <2>3
<1>7. ASSUME NEW t \in timers, TempExpire(t)
      PROVE  \E r \in Requests :
                /\ Put(r) /\ r.sub < next' /\ next <= next' /\ next' \in Nat
                /\ current' = current /\ r # Close(current) /\ ~ListenerSubscribe /\ ~ApiReopen
  <2>1. t \in temps /\ t \in Subs /\ t < next /\ t # current
    BY DEF TypeOK, FreshIds
  <2>2. Put(Close(t)) /\ UNCHANGED <<current, next>>
    BY <1>7 DEF TempExpire
  <2>3. Close(t) \in Requests /\ Close(t).sub = t /\ Close(t) # Close(current)
    BY <2>1, RequestsTyped DEF Close
  <2>4. ~ListenerSubscribe /\ ~ApiReopen
    BY <1>1, <2>2 DEF ListenerSubscribe, ApiReopen, Subscribe
  <2>5. QED BY <1>1, <2>1, <2>2, <2>3, <2>4
<1>8. QED
  BY <1>2, <1>3, <1>4, <1>5, <1>6, <1>7 DEF Next, RunForever, WaitForEvents

\* Every step keeps SubInv: what is queued is about an id that was handed out.
LEMMA SubNext == SubInv /\ [Next]_vars => SubInv'
<1> SUFFICES ASSUME SubInv, [Next]_vars PROVE QueueFresh'
  BY TypeNext, TempsNext DEF SubInv
<1>1. CASE SenderSend
  BY <1>1, QueueSend DEF SubInv
<1>2. CASE ~SenderSend
  BY <1>2, QueueSteps, QueuePut DEF SubInv, QueueFresh
<1>3. QED BY <1>1, <1>2

\* An open subscription stays open until it is closed or the connection ends, and
\* whoever ends the connection sees to it that somebody subscribes.
LEMMA OpenStays ==
  ASSUME SubInv, [Next]_vars, ~SenderSend, current \in open
  PROVE  current \in open' \/ Due' \/ Stopping'
<1> USE DEF queues, socket, ids, tasks, admin, counts
<1>1. CASE UNCHANGED open
  BY <1>1
<1>2. CASE SenderCheck
  BY <1>2 DEF SenderCheck, SubInv, TempsOK
<1>3. CASE Drop
  <2>1. closing' > 0
    BY <1>3 DEF Drop, SubInv, TypeOK
  <2>2. QED BY <2>1 DEF Due
<1>4. CASE RestartStop
  <2>1. Told'
    BY <1>4, ToldPut DEF RestartStop, SubInv
  <2>2. QED BY <2>1 DEF Told, Due
<1>5. CASE StopWs
  BY <1>5 DEF StopWs, Stopping
<1>6. QED
  BY <1>1, <1>2, <1>3, <1>4, <1>5 DEF Next, RunForever, WaitForEvents, SenderOpened,
     SenderRetry, ListenerSubscribe, ListenerGet, ListenerRetry, ListenerRaise, Connected,
     OnMessage, OnClose, Publish, ApiClose, ApiDeleteRefused, ApiReopen, ApiGiveUp,
     TempSubscribe, TempExpire, RestartClose, StopClose, vars

\* The request or the open subscription of the current id, and no CLOSE behind it.
Asked == (current \in open \/ Queued(Req(current))) /\ ~Queued(Close(current))

\* When the first request is sent on an open connection, the current subscription is
\* asked for as before.
LEMMA AskedSent ==
  ASSUME SubInv, SenderSend, Asked, ~RequestLost
  PROVE  Asked' \/ Due'
<1> DEFINE h == Head(sendQ)
           req == Req(current)
           cls == Close(current)
<1>1. /\ current' = current /\ h \in Requests /\ h # cls
      /\ open' = IF ws = "open" THEN Served(h) ELSE open
  <2>1. h # cls
    BY QueueSend DEF Asked, SubInv
  <2>2. QED BY <2>1, QueueSend DEF SenderSend, ids, SubInv
<1>2. ~Queued(Close(current))'
  <2>1. ~\E i \in 1..Len(sendQ') : sendQ'[i] = cls
    BY QueueSend DEF Queued, Asked, SubInv
  <2>2. QED BY <1>1, <2>1 DEF Queued, Close
<1>3. CASE h = req
  <2>1. current \in open'
    BY <1>1, <1>3 DEF RequestLost, Served, Req
  <2>2. QED BY <1>1, <1>2, <2>1 DEF Asked
<1>4. CASE h # req
  <2>1. current \in open => current \in open'
    <3>1. ~(h.kind = "CLOSE" /\ h.sub = current)
      BY <1>1 DEF Requests, Close
    <3>2. QED BY <1>1, <3>1 DEF Served, Requests
  <2>2. Queued(req) => \E i \in 1..Len(sendQ') : sendQ'[i] = req
    BY <1>4, QueueSend DEF Queued, SubInv
  <2>3. Queued(req) => Queued(Req(current))'
    BY <1>1, <2>2 DEF Queued, Req
  <2>4. QED BY <1>1, <1>2, <2>1, <2>3 DEF Asked
<1>5. QED BY <1>3, <1>4

\* No other step ends what is asked for, unless another subscription is due by then.
LEMMA AskedStays ==
  ASSUME SubInv, [Next]_vars, ~SenderSend, current' = current, Asked
  PROVE  Asked' \/ Due' \/ Stopping'
<1> DEFINE req == Req(current)
           cls == Close(current)
<1>1. Queued(Req(current)) => Queued(Req(current))'
  <2>1. (\E i \in 1..Len(sendQ) : sendQ[i] = req) => \E i \in 1..Len(sendQ') : sendQ'[i] = req
    BY QueueSteps, QueuePut DEF Queued, SubInv
  <2>2. QED BY <2>1 DEF Queued, Req
<1>2. Queued(Close(current))' => Due' \/ Stopping'
  <2>1. current # next
    BY DEF SubInv, FreshIds, TypeOK, Subs
  <2>2. ASSUME \E i \in 1..Len(sendQ') : sendQ'[i] = cls PROVE Due' \/ Stopping'
    <3>1. ASSUME UNCHANGED sendQ PROVE FALSE
      BY <2>2, <3>1 DEF Asked, Queued
    <3>2. ASSUME NEW r \in Requests, Put(r), r # cls PROVE FALSE
      BY <2>2, <3>2, QueuePut DEF Asked, Queued, SubInv
    <3>3. QED BY <2>1, <3>1, <3>2, QueueSteps DEF SubInv
  <2>3. QED BY <2>2 DEF Queued, Close
<1>3. current \in open => current \in open' \/ Due' \/ Stopping'
  BY OpenStays
<1>4. QED BY <1>1, <1>2, <1>3 DEF Asked

\* Whoever opens the subscription anew asks for an id that no CLOSE in the queue names.
LEMMA AskedAnew ==
  ASSUME SubInv, ListenerSubscribe \/ ApiReopen
  PROVE  Asked'
<1>1. /\ Put(Req(next)) /\ current' = next /\ Req(next) \in Requests
      /\ next \in Nat
  <2>1. next \in Subs /\ next \in Nat
    BY DEF ListenerSubscribe, ApiReopen, Subscribe, SubInv, TypeOK, Subs
  <2>2. QED BY <2>1, RequestsTyped DEF ListenerSubscribe, ApiReopen, Subscribe
<1>2. \E i \in 1..Len(sendQ') : sendQ'[i] = Req(next)
  BY <1>1, QueuePut DEF Queued, SubInv
<1>3. ~\E i \in 1..Len(sendQ') : sendQ'[i] = Close(next)
  <2>1. \A i \in 1..Len(sendQ) : sendQ[i] # Close(next)
    <3>1. ASSUME NEW i \in 1..Len(sendQ) PROVE sendQ[i].sub < next
      BY DEF QueueFresh, SubInv
    <3>2. Close(next).sub = next
      BY DEF Close
    <3>3. QED BY <1>1, <3>1, <3>2
  <2>2. QED BY <1>1, <2>1, QueuePut, RequestsDiffer DEF Queued, SubInv
<1>4. QED BY <1>1, <1>2, <1>3 DEF Asked, Queued, Req, Close

\* Of all steps only a request sent without a connection and a handler that gives up
\* leave the accounts without a subscription, a request for one, and anybody to make one.
LEMMA ProvidedStays ==
  ASSUME SubInv, [Next]_vars, Provided, ~Stopping, ~RequestLost, ~ApiGiveUp
  PROVE  Provided' \/ Stopping'
<1>1. CASE ListenerSubscribe \/ ApiReopen
  BY <1>1, AskedAnew DEF Asked, Provided
<1>2. CASE ~ListenerSubscribe /\ ~ApiReopen
  <2>1. current' = current
    BY <1>2 DEF Next, RunForever, WaitForEvents, SenderCheck, SenderOpened, SenderSend,
       SenderRetry, ListenerGet, ListenerRetry, ListenerRaise, Connected, Drop, OnMessage,
       OnClose, Publish, ApiClose, ApiDeleteRefused, ApiGiveUp, TempSubscribe, TempExpire,
       RestartClose, RestartStop, StopClose, StopWs, vars, ids
  <2>2. CASE Due
    BY <1>2, <2>2, DueStays DEF Provided, SubInv
  <2>3. CASE Asked /\ SenderSend
    BY <2>3, AskedSent DEF Provided, Asked
  <2>4. CASE Asked /\ ~SenderSend
    BY <2>1, <2>4, AskedStays DEF Provided, Asked
  <2>5. QED BY <2>2, <2>3, <2>4 DEF Provided, Asked
<1>3. QED BY <1>1, <1>2

\* Once the accounts are subscribed, or are to be, only two steps end that: a request
\* sent while there is no connection, and a handler that gives up between closing the
\* subscription and opening another; however many connections, handlers and restarts
\* there are, and whatever raises in the listener.
THEOREM OnlyTwoEndings == Spec => SubscriptionKept
<1>1. Init => SubInv
  BY TypeInit DEF Init, SubInv, FreshIds, TempsOK, QueueFresh
<1>2. SubInv /\ [Next]_vars
        => [Provided /\ ~Stopping /\ ~RequestLost /\ ~ApiGiveUp
              => (Provided \/ Stopping)']_vars
  BY ProvidedStays
<1>3. QED BY <1>1, <1>2, SubNext, PTL DEF Spec, SubscriptionKept
=============================================================================
