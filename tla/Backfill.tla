------------------------------ MODULE Backfill ------------------------------
(***************************************************************************)
(* Which messages the server asks the relays for.  A subscription for the  *)
(* accounts asks for what was created since the newest message in the      *)
(* table, of any account (services.py, crud.py); a temporary one, for a    *)
(* new account or a refresh, asks for everything (nostr_client.py).        *)
(* created_at is set by whoever wrote a message: it need not follow the    *)
(* order in which messages reach the relays.                               *)
(*                                                                         *)
(* Covered: lost connections, requests and messages lost with them,        *)
(* crashes, messages that come in any order, statements that raise in a    *)
(* handler or in the listener, messages whose handling raises.  One API    *)
(* handler and the listener subscribe concurrently; ChatServer interleaves *)
(* more of them, and shows how a message is stored, which is one step here.*)
(***************************************************************************)
EXTENDS Naturals, FiniteSets

CONSTANTS
  Keys,               \* public keys of accounts there are or may be
  Msgs,               \* direct messages
  Author, PTag, Time, \* pubkey, addressee and created_at of each
  Local,              \* messages our accounts write
  InitAccts,          \* accounts the database holds when the server starts
  Handler, Listener,  \* an API handler, and wait_for_nostr_events()
  MaxCalls,           \* bound: API calls
  MaxLosses           \* bound: lost connections, crashes, statements that raise

ASSUME BackfillAssumption ==
  /\ Time \in [Msgs -> Nat \ {0}]
  /\ Handler # Listener
  /\ InitAccts \subseteq Keys
  /\ MaxCalls \in Nat /\ MaxLosses \in Nat

VARIABLES
  accts,     \* keys of the accounts in the table
  stored,    \* the table of messages: [msg, key of the account]
  relays,    \* messages the relays hold
  conn,      \* number of the connection, or of the one to be opened next
  reading,   \* number of the connection the listener has yet to see the end of
  wire,      \* messages on their way, or in recieve_event_queue: [msg, conn]
  main,      \* {filter of the subscription named by subscription_id}; {}: closed
  leaked,    \* filters of subscriptions still open whose id nobody holds
  temps,     \* filters of temporary subscriptions
  up,        \* the connection to the relays is open
  stage,     \* what each process awaits
  keys,      \* its public_keys
  since,     \* its last_dm_time
  account,   \* {account the handler is about}
  newest,    \* history: created_at of the newest message ever stored
  deaf,      \* history: since the connection was last lost, a request was lost, or
             \* a handler gave up that was to subscribe
  dropped,   \* history: messages whose handling raised since then
  orderly,   \* history: nothing has gone wrong that loses messages
  calls, losses

table   == <<accts, stored, newest>>
filters == <<main, leaked, temps>>
link    == <<up, conn, reading>>
locals  == <<stage, keys, since, account>>
counts  == <<calls, losses>>
history == <<deaf, dropped>>
vars == <<table, relays, wire, filters, link, locals, history, orderly, counts>>

Procs     == {Handler, Listener}
Filter    == [keys : SUBSET Keys, since : Nat]
Parties(m) == {Author[m], PTag[m]}
IsStored(m) == \E r \in stored : r.msg = m
UnderWay(m) == \E w \in wire : w.msg = m
Later(a, b) == IF a >= b THEN a ELSE b

Init ==
  /\ accts = InitAccts /\ stored = {} /\ relays = {} /\ wire = {} /\ newest = 0
  /\ main = {} /\ leaked = {} /\ temps = {} /\ up = FALSE /\ conn = 1 /\ reading = 1
  /\ stage = [p \in Procs |-> IF p = Listener THEN "keys" ELSE "idle"]
  /\ keys = [p \in Procs |-> {}] /\ since = [p \in Procs |-> 0] /\ account = {}
  /\ deaf = FALSE /\ dropped = {} /\ orderly = TRUE /\ calls = 0 /\ losses = 0

-----------------------------------------------------------------------------
(***************************************************************************)
(* Relays.  A subscription brings what they hold and what they get later,  *)
(* as far as one of its filters matches; both filters on messages, by "#p" *)
(* and by author, have the same since.                                     *)
(***************************************************************************)
Matches(f, m) == Parties(m) \cap f.keys # {} /\ Time[m] >= f.since

\* Of the messages M, those the filters F bring on this connection.
Wanted(F, M) == {[msg |-> m, conn |-> conn] : m \in {n \in M : \E f \in F : Matches(f, n)}}

\* What is left of wire when only F stays open: messages that only closed
\* subscriptions asked for may still arrive, or not.
Left(F) == {w \in SUBSET wire : \A e \in wire \ w : e.conn = conn
                                                /\ \A f \in F : ~Matches(f, e.msg)}

\* Messages a subscription would bring again.
InReach(lost) == \A e \in lost : newest <= Time[e.msg]

\* Somebody's client sends a message.
Post(m) ==
  /\ m \notin relays \cup Local
  /\ relays' = relays \cup {m}
  /\ wire' = wire \cup Wanted(main \cup leaked \cup temps, {m})
  /\ orderly' = (orderly /\ newest <= Time[m])
  /\ UNCHANGED <<table, filters, link, locals, history, counts>>

-----------------------------------------------------------------------------
(***************************************************************************)
(* The table of messages.                                                  *)
(***************************************************************************)
\* A message of an account that is not being created, deleted or refreshed.
Waiting(m) == Parties(m) \cap (accts \ account) # {} /\ ~IsStored(m) /\ ~UnderWay(m)

Store(m, k) ==
  /\ stored' = IF IsStored(m) THEN stored ELSE stored \cup {[msg |-> m, key |-> k]}
  /\ newest' = Later(newest, Time[m])
  /\ orderly' = (orderly /\ \A n \in relays : Waiting(n) => Time[m] <= Time[n])

\* process_nostr_message(): stored under the author, else under the addressee.
Deliver(m) ==
  /\ stage[Listener] = "idle"
  /\ [msg |-> m, conn |-> reading] \in wire
  /\ wire' = wire \ {[msg |-> m, conn |-> reading]}
  /\ \/ Author[m] \in accts /\ Store(m, Author[m])
     \/ Author[m] \notin accts /\ PTag[m] \in accts /\ Store(m, PTag[m])
     \/ Parties(m) \cap accts = {} /\ UNCHANGED <<stored, newest, orderly>>
  /\ UNCHANGED <<accts, relays, filters, link, locals, history, counts>>

\* What raises on the way, decryption or a statement, is swallowed, and the message
\* with it.  It comes again if it is asked for again, which the end of this connection
\* sees to; of an earlier one, the listener has yet to ask again anyway.
DropMessage(m) ==
  /\ stage[Listener] = "idle" /\ Parties(m) \cap accts # {}
  /\ [msg |-> m, conn |-> reading] \in wire
  /\ wire' = wire \ {[msg |-> m, conn |-> reading]}
  /\ dropped' = IF reading = conn THEN dropped \cup {m} ELSE dropped
  /\ orderly' = (orderly /\ (IsStored(m) \/ newest <= Time[m]))
  /\ UNCHANGED <<table, relays, filters, link, locals, deaf, counts>>

\* api_create_message(): stored at once, with the server's clock; the relays get
\* it unless there is no connection by the time it is sent, or reading the row back
\* raises.
SendMessage(m) ==
  /\ m \in Local \ relays /\ ~IsStored(m) /\ Author[m] \in accts
  /\ Store(m, Author[m])
  /\ \/ /\ relays' = relays \cup {m}
        /\ wire' = wire \cup Wanted(main \cup leaked \cup temps, {m})
     \/ UNCHANGED <<relays, wire>>
  /\ UNCHANGED <<accts, filters, link, locals, history, counts>>

\* get_last_direct_messages_created_at(): 0 when there is no message.
\* Mutant: a second earlier, so that its messages come again; -1 when there is none.
LastCreatedAtBefore == {t - 1 : t \in {u \in {0} \cup {Time[r.msg] : r \in stored} :
                                         \A r \in stored : Time[r.msg] <= u}}

LastCreatedAt ==
  {t \in {0} \cup {Time[r.msg] : r \in stored} : \A r \in stored : Time[r.msg] <= t}

-----------------------------------------------------------------------------
(***************************************************************************)
(* subscribe_to_all_nostraccts(), run by the listener and by handlers: two *)
(* SELECTs, then the request, which is lost if there is no connection.     *)
(***************************************************************************)
Goto(p, s) == stage' = [stage EXCEPT ![p] = s]

Unsubscribe ==
  /\ main' = {}
  /\ wire' \in Left(leaked \cup temps)
  /\ orderly' = (orderly /\ InReach(wire \ wire'))
  /\ UNCHANGED <<leaked, temps>>

ReadKeys(p) ==
  /\ stage[p] = "keys" /\ Goto(p, "since")
  /\ keys' = [keys EXCEPT ![p] = accts]
  /\ UNCHANGED <<table, relays, wire, filters, link, since, account, history, orderly, counts>>

\* Mutant: one second later, lest the newest message comes once more.
ReadSinceAfter(p) ==
  /\ stage[p] = "since" /\ Goto(p, "put")
  /\ \E t \in LastCreatedAt : since' = [since EXCEPT ![p] = t + 1]
  /\ UNCHANGED <<table, relays, wire, filters, link, keys, account, history, orderly, counts>>

ReadSince(p) ==
  /\ stage[p] = "since" /\ Goto(p, "put")
  /\ \E t \in LastCreatedAt : since' = [since EXCEPT ![p] = t]
  /\ UNCHANGED <<table, relays, wire, filters, link, keys, account, history, orderly, counts>>

\* Mutant: what the relays already hold is not asked for.
PutLiveOnly(p) ==
  /\ stage[p] = "put"
  /\ Goto(p, IF p = Handler /\ account # {} THEN "temp" ELSE "idle")
  /\ IF up THEN leaked' = leaked \cup main /\ main' = {[keys |-> keys[p], since |-> since[p]]}
           ELSE UNCHANGED <<main, leaked>>
  /\ deaf' = (deaf \/ ~up)
  /\ keys' = [keys EXCEPT ![p] = {}] /\ since' = [since EXCEPT ![p] = 0]
  /\ UNCHANGED <<table, relays, wire, temps, link, account, dropped, orderly, counts>>

\* A handler that created an account goes on with its temporary subscription.
Put(p) ==
  /\ stage[p] = "put"
  /\ Goto(p, IF p = Handler /\ account # {} THEN "temp" ELSE "idle")
  /\ LET f == [keys |-> keys[p], since |-> since[p]]
     IN  IF up THEN /\ leaked' = leaked \cup main /\ main' = {f}
                    /\ wire' = wire \cup Wanted({f}, relays)
               ELSE UNCHANGED <<wire, main, leaked>>
  /\ deaf' = (deaf \/ ~up)
  /\ keys' = [keys EXCEPT ![p] = {}] /\ since' = [since EXCEPT ![p] = 0]
  /\ UNCHANGED <<table, relays, temps, link, account, dropped, orderly, counts>>

-----------------------------------------------------------------------------
(***************************************************************************)
(* The API.                                                                *)
(***************************************************************************)
Call == stage[Handler] = "idle" /\ calls < MaxCalls /\ calls' = calls + 1

CreateAccount(k) ==
  /\ Call /\ k \notin accts
  /\ accts' = accts \cup {k} /\ account' = {k} /\ Goto(Handler, "close")
  /\ UNCHANGED <<stored, newest, relays, wire, filters, link, keys, since, history,
                 orderly, losses>>

CloseFirst ==
  /\ stage[Handler] = "close" /\ Goto(Handler, "keys")
  /\ Unsubscribe
  /\ UNCHANGED <<table, relays, link, keys, since, account, history, counts>>

\* Mutant: the temporary subscription starts where the other one does.
TempSubscribeSince ==
  /\ stage[Handler] = "temp" /\ Goto(Handler, "idle") /\ account' = {}
  /\ \E t \in LastCreatedAt : LET f == [keys |-> account, since |-> t]
     IN  IF up THEN temps' = temps \cup {f} /\ wire' = wire \cup Wanted({f}, relays)
               ELSE UNCHANGED <<temps, wire>>
  /\ orderly' = (orderly /\ up)
  /\ UNCHANGED <<table, relays, main, leaked, link, keys, since, history, counts>>

\* nostracct_temp_subscription(): everything there is for one account.
TempSubscribe ==
  /\ stage[Handler] = "temp" /\ Goto(Handler, "idle") /\ account' = {}
  /\ LET f == [keys |-> account, since |-> 0]
     IN  IF up THEN temps' = temps \cup {f} /\ wire' = wire \cup Wanted({f}, relays)
               ELSE UNCHANGED <<temps, wire>>
  /\ orderly' = (orderly /\ up)
  /\ UNCHANGED <<table, relays, main, leaked, link, keys, since, history, counts>>

\* After asyncio.sleep(duration), however much of it has arrived.
TempExpire(f) ==
  /\ f \in temps /\ temps' = temps \ {f}
  /\ wire' \in Left(main \cup leaked \cup temps')
  /\ orderly' = (orderly /\ InReach(wire \ wire'))
  /\ UNCHANGED <<table, relays, main, leaked, link, locals, history, counts>>

RefreshAccount(k) ==
  /\ Call /\ k \in accts
  /\ account' = {k} /\ Goto(Handler, "temp")
  /\ UNCHANGED <<table, relays, wire, filters, link, keys, since, history, orderly, losses>>

DeleteFind(k) ==
  /\ Call /\ k \in accts
  /\ account' = {k} /\ Goto(Handler, "delete_dms")
  /\ Unsubscribe
  /\ UNCHANGED <<table, relays, link, keys, since, history, losses>>

\* A message between two accounts is stored once, under one of them, and goes
\* with that account.
DeleteMessages ==
  /\ stage[Handler] = "delete_dms" /\ Goto(Handler, "delete_acct")
  /\ LET gone == {r \in stored : r.key \in account}
     IN  /\ stored' = stored \ gone
         /\ orderly' = (orderly /\ InReach({r \in gone : Parties(r.msg) \cap (accts \ account) # {}}))
  /\ UNCHANGED <<accts, newest, relays, wire, filters, link, keys, since, account,
                 history, counts>>

DeleteAccount ==
  /\ stage[Handler] = "delete_acct" /\ Goto(Handler, "keys")
  /\ accts' = accts \ account /\ account' = {}
  /\ UNCHANGED <<stored, newest, relays, wire, filters, link, keys, since, history,
                 orderly, counts>>

\* A DELETE that is refused subscribes again too, with nothing closed ("finally:").
DeleteRefused ==
  /\ Call /\ Goto(Handler, "keys")
  /\ UNCHANGED <<table, relays, wire, filters, link, keys, since, account, history, orderly,
                 losses>>

-----------------------------------------------------------------------------
(***************************************************************************)
(* Statements that raise.  The listener starts over, a DELETE goes on to   *)
(* its "finally:", and a handler that was to subscribe answers 500: nobody *)
(* subscribes in its place.                                                *)
(***************************************************************************)
Fail == losses < MaxLosses /\ losses' = losses + 1

ListenerRaise ==
  /\ Fail /\ stage[Listener] \in {"keys", "since"} /\ Goto(Listener, "keys")
  /\ keys' = [keys EXCEPT ![Listener] = {}]
  /\ UNCHANGED <<table, relays, wire, filters, link, since, account, history, orderly, calls>>

DeleteRaise ==
  /\ Fail /\ stage[Handler] \in {"delete_dms", "delete_acct"} /\ Goto(Handler, "keys")
  /\ account' = {} /\ orderly' = FALSE
  /\ UNCHANGED <<table, relays, wire, filters, link, keys, since, history, calls>>

GiveUp ==
  /\ Fail /\ stage[Handler] \in {"close", "keys", "since"} /\ Goto(Handler, "idle")
  /\ keys' = [keys EXCEPT ![Handler] = {}] /\ account' = {}
  /\ deaf' = TRUE /\ orderly' = (orderly /\ account = {})
  /\ UNCHANGED <<table, relays, wire, filters, link, since, dropped, calls>>

-----------------------------------------------------------------------------
(***************************************************************************)
(* The connection.                                                         *)
(***************************************************************************)
Connect ==
  /\ ~up /\ up' = TRUE
  /\ UNCHANGED <<table, relays, wire, filters, conn, reading, locals, history, orderly, counts>>

\* The connection is lost, or stopped by restart(), or cannot be opened.  What
\* was received stays in the queue, and on_close() adds a ValueError.
Lose ==
  /\ losses < MaxLosses /\ losses' = losses + 1
  /\ up' = FALSE /\ conn' = conn + 1
  /\ main' = {} /\ leaked' = {} /\ temps' = {}
  /\ wire' \in Left({})
  /\ deaf' = FALSE /\ dropped' = {} /\ orderly' = (orderly /\ InReach(wire \ wire'))
  /\ UNCHANGED <<table, relays, reading, locals, calls>>

\* get_event() raises, and the listener subscribes again.
Resubscribe ==
  /\ reading < conn /\ stage[Listener] = "idle"
  /\ \A e \in wire : e.conn # reading
  /\ reading' = reading + 1 /\ Goto(Listener, "keys")
  /\ UNCHANGED <<table, relays, wire, filters, up, conn, keys, since, account, history, orderly,
                 counts>>

Crash ==
  /\ losses < MaxLosses /\ losses' = losses + 1
  /\ up' = FALSE /\ conn' = conn + 1 /\ reading' = conn + 1
  /\ main' = {} /\ leaked' = {} /\ temps' = {} /\ wire' = {}
  /\ stage' = [p \in Procs |-> IF p = Listener THEN "keys" ELSE "idle"]
  /\ keys' = [p \in Procs |-> {}] /\ since' = [p \in Procs |-> 0] /\ account' = {}
  /\ deaf' = FALSE /\ dropped' = {}
  /\ orderly' = (orderly /\ InReach(wire) /\ stage[Handler] = "idle")
  /\ UNCHANGED <<table, relays, calls>>

-----------------------------------------------------------------------------
Serve(p) == ReadKeys(p) \/ ReadSince(p) \/ Put(p)
Handle == CloseFirst \/ TempSubscribe \/ DeleteMessages \/ DeleteAccount

Next ==
  \/ \E m \in Msgs : Post(m) \/ Deliver(m) \/ DropMessage(m) \/ SendMessage(m)
  \/ \E p \in Procs : Serve(p)
  \/ \E k \in Keys : CreateAccount(k) \/ RefreshAccount(k) \/ DeleteFind(k)
  \/ Handle \/ DeleteRefused \/ ListenerRaise \/ DeleteRaise \/ GiveUp
  \/ \E f \in temps : TempExpire(f)
  \/ Connect \/ Lose \/ Resubscribe \/ Crash

Spec == Init /\ [][Next]_vars

(***************************************************************************)
(* Processes that are ready run, connections are opened, and what is on    *)
(* its way arrives, one message after the other.  Nothing has to raise.    *)
(***************************************************************************)
Tasks == Handle \/ Resubscribe \/ \E p \in Procs : Serve(p)
Arrive == \E m \in Msgs : Deliver(m) \/ DropMessage(m)

Fairness == WF_vars(Tasks) /\ WF_vars(Connect) /\ WF_vars(Arrive)

FairSpec == Spec /\ Fairness

-----------------------------------------------------------------------------
(***************************************************************************)
(* Properties.                                                             *)
(***************************************************************************)
Stages == {"idle", "keys", "since", "put", "close", "temp", "delete_dms", "delete_acct"}

TypeOK ==
  /\ accts \subseteq Keys /\ stored \subseteq [msg : Msgs, key : Keys] /\ newest \in Nat
  /\ relays \subseteq Msgs /\ wire \subseteq [msg : Msgs, conn : 1..conn]
  /\ main \subseteq Filter /\ leaked \subseteq Filter /\ temps \subseteq Filter
  /\ up \in BOOLEAN /\ conn \in Nat /\ reading \in 1..conn
  /\ stage \in [Procs -> Stages] /\ stage[Listener] \in {"idle", "keys", "since", "put"}
  /\ keys \in [Procs -> SUBSET Keys] /\ since \in [Procs -> Nat] /\ account \subseteq Keys
  /\ deaf \in BOOLEAN /\ dropped \subseteq Msgs /\ orderly \in BOOLEAN
  /\ calls \in 0..MaxCalls /\ losses \in 0..MaxLosses

\* A handler or the listener will read the keys of all accounts, or has read k,
\* and subscribe.
WillSubscribe(k) ==
  \/ reading < conn
  \/ \E p \in Procs : \/ stage[p] \in {"keys", "close", "delete_dms", "delete_acct"}
                      \/ stage[p] \in {"since", "put"} /\ k \in keys[p]

\* What was created since the newest message that was ever stored is not lost when
\* the connection is: such a message of an account is stored, or under way, or will be
\* asked for; so that only messages older than one the server has had can be missed.
\* Exceptions last until the connection is lost the next time, and are three: a
\* request was sent without a connection, a handler gave up that was to subscribe
\* (deaf), or the handling of this very message raised (dropped).
OnlyOlderMissed ==
  \A m \in relays, k \in accts :
    k \in Parties(m) /\ newest <= Time[m] /\ ~deaf =>
      IsStored(m) \/ UnderWay(m) \/ WillSubscribe(k) \/ m \in dropped

\* Nothing at all is missed, of any account, old or new, although all share one
\* since, unless a message that is lost under way, or whose handling raises, is followed
\* by a newer one; an account's creation or deletion is cut short, by a crash or because
\* a statement raises; messages reach the relays in another order than they were created
\* in; the user writes one while others wait to be asked for; or an account is deleted
\* under which a message between two accounts is stored.  (Each of these does lose
\* messages: see orderly.)
NothingMissed ==
  orderly /\ ~deaf => \A m \in relays, k \in accts :
    k \in Parties(m) =>
      IsStored(m) \/ UnderWay(m) \/ WillSubscribe(k) \/ k \in account \/ m \in dropped

\* And what was created since the newest message arrives at last, with the same
\* exceptions.
NewestArrives ==
  \A m \in Msgs : (m \in relays /\ Parties(m) \cap accts # {})
    ~> (\/ IsStored(m) \/ Time[m] < newest \/ deaf \/ m \in dropped
        \/ Parties(m) \cap accts = {})
=============================================================================
