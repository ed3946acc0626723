---------------------------- MODULE NostrClient -----------------------------
(***************************************************************************)
(* The connection to the relays (nostr/nostr_client.py) and the two tasks  *)
(* that live on it (__init__.py, tasks.py): run_forever() opens the        *)
(* websocket and sends what is queued, wait_for_nostr_events() subscribes  *)
(* and consumes what is received.  API handlers queue requests.            *)
(*                                                                         *)
(* Sleeps are untimed: a task that sleeps wakes up at some later point.    *)
(* The one exception is sleep(5) after connecting, which the code relies   *)
(* on "be sure the connection is open": it ends when the attempt is over.  *)
(*                                                                         *)
(* websocket-client is external.  A WebSocketApp runs in a thread of its   *)
(* own; when the connection ends, for whatever reason, keep_running is     *)
(* false at once and on_close is called once, some time later.             *)
(***************************************************************************)
EXTENDS Naturals, Sequences

CONSTANTS
  MaxSubs,      \* bound: subscription ids
  MaxCalls,     \* bound: API calls that queue a request
  MaxReceived,  \* bound: length of recieve_event_queue when an event arrives
  MaxDrops,     \* bound: lost connections and failed attempts
  MaxRestarts,  \* bound: calls of PUT /restart
  MaxFailures,  \* bound: database statements that raise
  CanStop       \* whether the extension may be stopped

ASSUME NostrClientAssumption ==
  /\ MaxSubs \in Nat /\ MaxCalls \in Nat /\ MaxReceived \in Nat
  /\ MaxDrops \in Nat /\ MaxRestarts \in Nat /\ MaxFailures \in Nat
  /\ CanStop \in BOOLEAN

VARIABLES
  sendQ,      \* send_req_queue
  recvQ,      \* recieve_event_queue: "event", or "error" for a ValueError
  ws,         \* self.ws: none, connecting, open, or dead (not keep_running)
  closing,    \* threads whose connection ended and whose on_close is to come
  open,       \* subscriptions the relays serve on the open connection
  current,    \* self.subscription_id
  next,       \* the next urlsafe_short_hash()
  temps,      \* ids of temporary subscriptions
  timers,     \* temporary subscriptions whose unsubscribe_with_delay() sleeps
  sender,     \* where run_forever() is
  listener,   \* where wait_for_nostr_events() is
  reopening,  \* number of handlers that are about to open a subscription
  restart,    \* where restart() is
  stop,       \* where nostrchat_stop() is
  calls, drops, restarts, failures   \* counters for the bounds

queues == <<sendQ, recvQ>>
socket == <<ws, closing, open>>
ids    == <<current, next, temps, timers>>
tasks  == <<sender, listener>>
admin  == <<reopening, restart, stop>>
counts == <<calls, drops, restarts, failures>>
vars   == <<queues, socket, ids, tasks, admin, counts>>

Subs  == 0..MaxSubs
Req(s)   == [kind |-> "REQ", sub |-> s]
Close(s) == [kind |-> "CLOSE", sub |-> s]
Publication == [kind |-> "EVENT", sub |-> 0]

Put(r) == sendQ' = Append(sendQ, r) /\ UNCHANGED recvQ

\* Id 0 is the one __init__ makes up, before anything was subscribed.
Init ==
  /\ sendQ = <<>> /\ recvQ = <<>>
  /\ ws = "none" /\ closing = 0 /\ open = {}
  /\ current = 0 /\ next = 1 /\ temps = {} /\ timers = {}
  /\ sender = "check" /\ listener = "subscribe"
  /\ reopening = 0 /\ restart = "idle" /\ stop = "running"
  /\ calls = 0 /\ drops = 0 /\ restarts = 0 /\ failures = 0

-----------------------------------------------------------------------------
(***************************************************************************)
(* run_forever(): connect unless connected, wait for a request, send it.   *)
(* The connection is looked at before the wait and not after it; a request *)
(* that cannot be sent raises, and is gone when the loop starts over.      *)
(***************************************************************************)
SenderCheck ==
  /\ sender = "check"
  /\ \/ /\ ws \in {"none", "dead"}
        /\ ws' = "connecting" /\ open' = {} /\ UNCHANGED closing
        /\ sender' = "opening"
     \/ /\ ws \in {"connecting", "open"}
        /\ sender' = "get" /\ UNCHANGED socket
  /\ UNCHANGED <<queues, ids, listener, admin, counts>>

SenderOpened ==
  /\ sender = "opening" /\ ws # "connecting"
  /\ sender' = "get"
  /\ UNCHANGED <<queues, socket, ids, listener, admin, counts>>

\* What the nostrclient extension at the other end does with a request.
Served(r) == CASE r.kind = "REQ"   -> open \cup {r.sub}
               [] r.kind = "CLOSE" -> open \ {r.sub}
               [] OTHER            -> open

SenderSend ==
  /\ sender = "get" /\ sendQ # <<>>
  /\ sendQ' = Tail(sendQ)
  /\ IF ws = "open" THEN open' = Served(Head(sendQ)) /\ sender' = "check"
                    ELSE sender' = "backoff" /\ UNCHANGED open
  /\ UNCHANGED <<recvQ, ws, closing, ids, listener, admin, counts>>

\* After asyncio.sleep(60).
SenderRetry ==
  /\ sender = "backoff"
  /\ sender' = "check"
  /\ UNCHANGED <<queues, socket, ids, listener, admin, counts>>

-----------------------------------------------------------------------------
(***************************************************************************)
(* wait_for_nostr_events(): subscribe, consume, and start over when        *)
(* get_event() raises the ValueError it finds in the queue, or a SELECT    *)
(* before the subscription raises.                                         *)
(***************************************************************************)
Subscribe == /\ next <= MaxSubs
             /\ current' = next /\ next' = next + 1
             /\ Put(Req(next))
             /\ UNCHANGED <<temps, timers>>

\* A SELECT of subscribe_to_all_nostraccts() raises.
Fail == failures < MaxFailures /\ failures' = failures + 1

ListenerSubscribe ==
  /\ listener = "subscribe"
  /\ Subscribe
  /\ listener' = "get"
  /\ UNCHANGED <<socket, sender, admin, counts>>

ListenerRaise ==
  /\ listener = "subscribe" /\ Fail
  /\ listener' = "backoff"
  /\ UNCHANGED <<queues, socket, ids, sender, admin, calls, drops, restarts>>

\* Mutant: the ValueError is handed on like a message, and ignored.
ListenerGetAny ==
  /\ listener = "get" /\ recvQ # <<>>
  /\ recvQ' = Tail(recvQ)
  /\ UNCHANGED <<sendQ, socket, ids, tasks, admin, counts>>

ListenerGet ==
  /\ listener = "get" /\ recvQ # <<>>
  /\ recvQ' = Tail(recvQ)
  /\ listener' = IF Head(recvQ) = "error" THEN "backoff" ELSE "get"
  /\ UNCHANGED <<sendQ, socket, ids, sender, admin, counts>>

\* After asyncio.sleep(10).
ListenerRetry ==
  /\ listener = "backoff"
  /\ listener' = "subscribe"
  /\ UNCHANGED <<queues, socket, ids, sender, admin, counts>>

-----------------------------------------------------------------------------
(***************************************************************************)
(* The websocket's thread.                                                 *)
(***************************************************************************)
Connected ==
  /\ ws = "connecting" /\ ws' = "open"
  /\ UNCHANGED <<queues, closing, open, ids, tasks, admin, counts>>

\* The connection is lost, or the attempt fails, for reasons of its own.
Drop ==
  /\ ws \in {"connecting", "open"} /\ drops < MaxDrops
  /\ ws' = "dead" /\ open' = {} /\ closing' = closing + 1
  /\ drops' = drops + 1
  /\ UNCHANGED <<queues, ids, tasks, admin, calls, restarts, failures>>

OnMessage ==
  /\ ws = "open" /\ open # {} /\ Len(recvQ) < MaxReceived
  /\ recvQ' = Append(recvQ, "event")
  /\ UNCHANGED <<sendQ, socket, ids, tasks, admin, counts>>

OnClose ==
  /\ closing > 0
  /\ closing' = closing - 1
  /\ recvQ' = Append(recvQ, "error")
  /\ UNCHANGED <<sendQ, ws, open, ids, tasks, admin, counts>>

\* _safe_ws_stop(): a connection that already ended calls on_close no more.
SafeWsStop ==
  /\ closing' = IF ws \in {"connecting", "open"} THEN closing + 1 ELSE closing
  /\ ws' = "none" /\ open' = {}

-----------------------------------------------------------------------------
(***************************************************************************)
(* API handlers.  Resubscribing is two steps, for the handlers await in    *)
(* between: statements that may raise, and then the handler answers 500    *)
(* and nothing is subscribed.  A temporary subscription is closed by a     *)
(* task of its own.                                                        *)
(***************************************************************************)
Call == stop = "running" /\ calls < MaxCalls /\ calls' = calls + 1

Publish ==
  /\ Call /\ Put(Publication)
  /\ UNCHANGED <<socket, ids, tasks, admin, drops, restarts, failures>>

Unsubscribe == Put(Close(current))

ApiClose ==
  /\ Call
  /\ Unsubscribe
  /\ reopening' = reopening + 1
  /\ UNCHANGED <<socket, ids, tasks, restart, stop, drops, restarts, failures>>

\* A DELETE that is refused subscribes again too, with nothing closed ("finally:").
ApiDeleteRefused ==
  /\ Call
  /\ reopening' = reopening + 1
  /\ UNCHANGED <<queues, socket, ids, tasks, restart, stop, drops, restarts, failures>>

ApiReopen ==
  /\ reopening > 0
  /\ Subscribe
  /\ reopening' = reopening - 1
  /\ UNCHANGED <<socket, tasks, restart, stop, counts>>

ApiGiveUp ==
  /\ reopening > 0 /\ Fail
  /\ reopening' = reopening - 1
  /\ UNCHANGED <<queues, socket, ids, tasks, restart, stop, calls, drops, restarts>>

\* Mutant: the task that closes the subscription is never created.
TempSubscribeOnly ==
  /\ Call /\ next <= MaxSubs
  /\ next' = next + 1 /\ temps' = temps \cup {next}
  /\ Put(Req(next))
  /\ UNCHANGED <<current, timers, socket, tasks, admin, drops, restarts, failures>>

\* Mutant: the temporary subscription takes the place of the current one.
TempSubscribeAsCurrent ==
  /\ Call /\ next <= MaxSubs
  /\ next' = next + 1 /\ temps' = temps \cup {next} /\ timers' = timers \cup {next}
  /\ current' = next
  /\ Put(Req(next))
  /\ UNCHANGED <<socket, tasks, admin, drops, restarts, failures>>

TempSubscribe ==
  /\ Call /\ next <= MaxSubs
  /\ next' = next + 1 /\ temps' = temps \cup {next} /\ timers' = timers \cup {next}
  /\ Put(Req(next))
  /\ UNCHANGED <<current, socket, tasks, admin, drops, restarts, failures>>

\* Mutant: the id is read after the sleep, from the client.
TempExpireCurrent(t) ==
  /\ t \in timers /\ timers' = timers \ {t}
  /\ Put(Close(current))
  /\ UNCHANGED <<current, next, temps, socket, tasks, admin, counts>>

TempExpire(t) ==
  /\ t \in timers /\ timers' = timers \ {t}
  /\ Put(Close(t))
  /\ UNCHANGED <<current, next, temps, socket, tasks, admin, counts>>

-----------------------------------------------------------------------------
(***************************************************************************)
(* restart() and stop().                                                   *)
(***************************************************************************)
RestartClose ==
  /\ restart = "idle" /\ restarts < MaxRestarts /\ stop = "running"
  /\ Unsubscribe
  /\ restart' = "asleep" /\ restarts' = restarts + 1
  /\ UNCHANGED <<socket, ids, tasks, reopening, stop, calls, drops, failures>>

\* Mutant: the connection is stopped and its on_close is relied upon.
RestartStopOnly ==
  /\ restart = "asleep" /\ restart' = "idle"
  /\ SafeWsStop
  /\ UNCHANGED <<queues, ids, tasks, reopening, stop, counts>>

RestartStop ==
  /\ restart = "asleep" /\ restart' = "idle"
  /\ recvQ' = Append(recvQ, "error")
  /\ SafeWsStop
  /\ UNCHANGED <<sendQ, ids, tasks, reopening, stop, counts>>

\* nostrchat_stop() cancels both tasks before stop() queues the CLOSE.
StopClose ==
  /\ CanStop /\ stop = "running"
  /\ sender' = "cancelled" /\ listener' = "cancelled"
  /\ Unsubscribe
  /\ stop' = "asleep"
  /\ UNCHANGED <<socket, ids, reopening, restart, counts>>

StopWs ==
  /\ stop = "asleep" /\ stop' = "stopped"
  /\ SafeWsStop
  /\ UNCHANGED <<queues, ids, tasks, reopening, restart, counts>>

-----------------------------------------------------------------------------
RunForever == SenderCheck \/ SenderOpened \/ SenderSend \/ SenderRetry
WaitForEvents == ListenerSubscribe \/ ListenerRaise \/ ListenerGet \/ ListenerRetry

Next ==
  \/ RunForever \/ WaitForEvents
  \/ Connected \/ Drop \/ OnMessage \/ OnClose
  \/ Publish \/ ApiClose \/ ApiDeleteRefused \/ ApiReopen \/ ApiGiveUp
  \/ TempSubscribe \/ \E t \in timers : TempExpire(t)
  \/ RestartClose \/ RestartStop \/ StopClose \/ StopWs

Spec == Init /\ [][Next]_vars

(***************************************************************************)
(* Tasks and handlers that are ready run, sleeps end, connection attempts  *)
(* come to an end, on_close is called.  Nobody has to call the API, and    *)
(* nothing has to arrive or to fail.                                       *)
(***************************************************************************)
Fairness ==
  /\ WF_vars(RunForever) /\ WF_vars(WaitForEvents)
  /\ WF_vars(Connected) /\ WF_vars(OnClose)
  /\ WF_vars(ApiReopen \/ ApiGiveUp) /\ WF_vars(RestartStop) /\ WF_vars(StopWs)
  /\ \A t \in Subs : WF_vars(TempExpire(t))

FairSpec == Spec /\ Fairness

-----------------------------------------------------------------------------
(***************************************************************************)
(* Properties.                                                             *)
(***************************************************************************)
Requests == [kind : {"REQ", "CLOSE", "EVENT"}, sub : Subs]
Queued(r) == \E i \in 1..Len(sendQ) : sendQ[i] = r

TypeOK ==
  /\ sendQ \in Seq(Requests) /\ recvQ \in Seq({"event", "error"})
  /\ ws \in {"none", "connecting", "open", "dead"} /\ closing \in Nat
  /\ open \subseteq Subs /\ current \in Subs /\ next \in 1..(MaxSubs + 1)
  /\ temps \subseteq Subs /\ timers \subseteq temps /\ current \notin temps
  /\ sender \in {"check", "opening", "get", "backoff", "cancelled"}
  /\ listener \in {"subscribe", "get", "backoff", "cancelled"}
  /\ reopening \in Nat
  /\ restart \in {"idle", "asleep"} /\ stop \in {"running", "asleep", "stopped"}
  /\ calls \in 0..MaxCalls /\ drops \in 0..MaxDrops /\ restarts \in 0..MaxRestarts
  /\ failures \in 0..MaxFailures

\* No temporary subscription is forgotten: as long as the relays serve it, its
\* task still sleeps or its CLOSE is queued, though connections come and go and
\* requests are lost with them.
TempWillClose ==
  \A t \in open \cap temps : t \in timers \/ Queued(Close(t))

\* And so every temporary subscription ends.
TempEnds == \A t \in Subs : (t \in open \cap temps) ~> (t \notin open)

Stopping   == stop # "running"
Subscribed == ws = "open" /\ current \in open

\* Every connection that ends makes the listener subscribe again, unless the
\* extension is stopped.
CloseResubscribes == (closing > 0) ~> (listener = "subscribe" \/ Stopping)

\* A subscription for the accounts is due: a handler is to open one, or the listener
\* is, or it will be told that the connection ended or was restarted.
Due == \/ reopening > 0 \/ restart = "asleep" \/ closing > 0
       \/ \E i \in 1..Len(recvQ) : recvQ[i] = "error"
       \/ listener \in {"backoff", "subscribe"}

\* The accounts are subscribed or the request is queued, with no CLOSE on its way;
\* or a subscription is due.
Provided ==
  \/ (current \in open \/ Queued(Req(current))) /\ ~Queued(Close(current))
  \/ Due

RequestLost == SenderSend /\ ws # "open" /\ Head(sendQ) = Req(current)

\* What is provided for the accounts is ended by two steps only: their request is
\* sent while there is no connection, or a handler that was to subscribe gives up
\* because a statement raised.  Neither a lost connection does, nor a restart, nor a
\* statement that raises in the listener, nor a handler that closes and opens the
\* subscription while the listener or another handler does, nor the end of a temporary
\* subscription.
SubscriptionKept ==
  [][Provided /\ ~Stopping /\ ~RequestLost /\ ~ApiGiveUp
       => (Provided \/ Stopping)']_vars

\* "an admin user can Restart the Nostr connection" (README.md): once restart()
\* is under way and the connection is lost no more, the accounts are subscribed
\* at last, whatever had been lost before, or the extension is stopped.
RestartRecovers ==
  (restart = "asleep" /\ drops = MaxDrops) ~> (Subscribed \/ Stopping)

\* "force re-subscribe" (nostr_client.py:168): when the connection is lost the
\* accounts are subscribed again on the next one.
ForceResubscribe == (ws = "dead" /\ drops = MaxDrops) ~> Subscribed

\* "Give some time for the CLOSE events to propagate before closing the
\* connection" (nostr_client.py:187): stop() does not cut off a connection on
\* which the subscription is still served.
CloseBeforeStop == [][StopWs => current \notin open]_vars
=============================================================================
