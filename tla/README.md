# nostrchat in TLA+

nostrchat is an LNbits extension: every wallet owner may have one Nostr account,
and the extension stores the account's direct messages (NIP-04, kind 4 events),
keeps a list of peers with unread counters, sends messages through the
`nostrclient` extension to the Nostr relays, and pushes what arrives to the
owner's browsers. This directory holds TLA+ models of it, the TLC configurations
that check them on small instances, and TLAPS proofs of what matters most.

    tlc -workers 2 -config server_messages.cfg MCChatServer
    tlc -workers 2 -config client.cfg NostrClient
    tlc -workers 2 -config backfill.cfg MCBackfill
    tlc -workers 2 -config account.cfg MCAcctConfig
    tlc -workers 2 -config page_chat.cfg MCChatBox
    tlapm ChatServerProofs.tla

`PROJECT.json` lists the runs, the source lines every definition stands for, the
hazards, the disagreements found, and one mutant of the code per property.

## The system: components, state, operations

| Component | Source | State | Operations |
|---|---|---|---|
| Database | `crud.py`, `migrations.py` | tables `nostraccts`, `direct_messages`, `peers` | one SQL statement each |
| API handlers | `views_api.py` | local variables across awaits | create, get, delete, refresh, toggle, republish, delete-on-Nostr; get and send messages; get and add peers; restart |
| Nostr listener | `services.py`, `tasks.py` | the event in hand | subscribe, take an event, store it, push it |
| Nostr client | `nostr/nostr_client.py` | send queue, receive queue, websocket, id of the current subscription | sender loop, subscribe, unsubscribe, temporary subscriptions, publish, restart, stop; callbacks of the websocket's thread |
| Start and stop | `__init__.py` | the two tasks | `nostrchat_start`, `nostrchat_stop` |
| Events and keys | `nostr/event.py`, `helpers.py`, `models.py` | none | build, sign, encrypt, parse |
| Browser page | `static/js/index.js` | account, peers, active peer, pending messages, websocket | create and toggle account, list and add peers, handle notifications |
| Chat box | `static/components/chatbox.js` | messages of the active chat | fetch, send, take a push |
| Account details | `static/components/nostracct-details.js` | none | ask, then delete on Nostr |
| Other browser components | `static/components/*.js`, `templates/` | forms | show, emit clicks |

How they interact:

- The API handlers, the listener and the sender are coroutines of **one event
  loop**; they share the database, the client's queues and its one
  `subscription_id`. Nothing locks.
- The websocket to `nostrclient` runs in a **thread of its own** and talks to the
  loop through `recieve_event_queue`: a message, or a `ValueError` when the
  connection closes, which `get_event()` raises so that the listener subscribes
  again.
- Handlers never talk to the relays themselves: they put `REQ`, `CLOSE` and
  `EVENT` requests on `send_req_queue`, which `run_forever()` empties.
- Relays return *stored* events: every subscription that is opened returns what
  matches it, so the same event arrives again and again, in any order. To have less
  of that the subscription for the accounts asks only for what was created since the
  newest message in the table; a new or refreshed account gets a temporary
  subscription that asks for everything.
- The configuration of an account is one JSON column; the handlers that change a
  field read all of it and write all of it back.
- Browsers call the API and receive pushes over a websocket named by the account.

What is hard about it: handlers overtake each other between any two awaits; the
checks they make are stale by the time they act (accounts, peers); the listener
works on an event while the account it belongs to is deleted; several handlers
close and reopen *the* subscription; the connection is lost and requests with it;
`since` is one number for all accounts, taken from clocks of other people;
any statement may raise, and the process may be restarted, between two
statements that belong together. The repository has no test of any of this.

What makes each component correct:

- *Database, API, listener*: a message is stored once, for an account it concerns,
  with the right peer, and is published only if stored; a stored message is
  visible (has a peer), is pushed, and counts as unread; every account is
  subscribed for, at all times or at least in the end; one account per user.
- *`since`*: a message that a relay holds for an account is stored at last.
- *Configuration*: no change of one field is lost to a change of the other, and
  what it says was published was published.
- *Nostr client*: after a lost connection or a restart the accounts are subscribed
  again; temporary subscriptions end; a stop closes what is open.
- *Browser*: the open chat shows that chat's messages, each once, and all of them.

## Modules

| Module | What it is |
|---|---|
| `Database` | the tables and the statements on them |
| `Nip04` | how texts are encrypted and decrypted: operators, no state |
| `ChatServer` (extends `Database`, `Nip04`) | the API handlers, the listener, faults and crashes |
| `Mailbox` | abstract: what the server promises about messages |
| `MCChatServer` | small instances of `ChatServer` |
| `ChatServerProofs` | theorems about `ChatServer`: types, subscriptions, peers, the refinement |
| `MessageProofs` (extends `ChatServerProofs`) | theorems about a message that comes in: profile, push, badge |
| `NostrClient` | the queues, the websocket, the two tasks; its constants are numbers, so it is run as it is |
| `NostrClientProofs` | theorems about `NostrClient` |
| `Backfill`, `MCBackfill`, `BackfillProofs` | what is asked of the relays after a gap: the `since` filter |
| `AcctConfig` (extends `Database`), `MCAcctConfig`, `AcctConfigProofs` | the configuration of an account: toggle, delete on Nostr, republish |
| `ChatBox` | in the browser: the open chat, its requests, the websocket of pushes |
| `MCChatBox` | a small instance of `ChatBox` |
| `ChatBoxProofs` | theorems about `ChatBox` |
| `PeersList` | in the browser: when the list of peers is asked for and what it shows; run as it is |
| `PeersListProofs` | theorems about `PeersList` |

The modules cut the system where its parts meet. `ChatServer` takes the relays to
lose nothing and to bring anything they ever had; `NostrClient` has the losses, and
`Backfill` says which messages are still brought when there are losses and a filter
by time.

### Database

One operator per SQL statement: its effect on the whole database. A row keeps the
columns some behaviour depends on. `peers` has no key in the code; `copy` tells
rows apart that are otherwise equal (two racing INSERTs make two rows). `issued`
is a history variable: all accounts there ever were. Ids come from
`urlsafe_short_hash()` and are only compared for equality, so they are handed out
in order. `InsertDm` ignores conflicts on `event_id` over *all* accounts, as the
table's UNIQUE constraint does.

### ChatServer

`pc[p]` says what process `p` awaits; `call`, `acct`, `evt`, `keys` are its local
variables. Processes are the slots in `Requests` and the `Listener`.

*Grain.* Code between two awaits is atomic. Each database statement is awaited,
and so **one action is one statement with the code that runs from its result to
the next await**. A statement that is only read by the code right after it is part
of that action (`ListenPut` stands for the second SELECT of
`subscribe_to_all_nostraccts` and the REQ it leads to; `PeerProfile` for the
read-back of the new peer, which cannot fail because no statement deletes peers,
and the request for its profile). Code that reads the shared subscription id is an
action of its own, which only adds interleavings. `put` on an unbounded queue
does not wait. A SELECT that returns "any row that matches" is a choice.

| Code | Actions |
|---|---|
| `api_create_nostracct` | `CreateFindKey` `CreateFindUser` `CreateInsert` `CreateReread` `ResubClose` `ResubKeys` `ResubPut` |
| `api_delete_nostracct` | `DeleteFind` `DeleteClose` `DeleteMessages` `DeleteAccount`, and in `finally` `DeleteKeys` `DeletePut` |
| `api_get_messages` | `GetFind` `GetReset` |
| `api_create_message` | `SendFind` `SendInsert` `SendReread` |
| `api_create_peer` | `PeerFind` `PeerGet` `PeerInsert` `PeerProfile` |
| `api_refresh_nostracct` | `RefreshFind` |
| `wait_for_nostr_events`, `subscribe_to_all_nostraccts` | `ListenKeys` `ListenPut` |
| `process_nostr_message` | `Deliver` (kind 4), `DeliverProfile` (kind 0) |
| `_handle_nip04_message` | `ByAuthor` `ByTag` |
| `_handle_incoming_dms`, `_persist_dm` | `InGetPeer` `InInsertPeer` `InProfile` or `InCount`, `InInsert` `InReread` |
| `_handle_outgoing_dms` | `OutInsert` `OutReread` |
| an exception in an awaited statement | `Fault` |
| the process ends and is started again | `Crash` |

*Subscriptions.* `main` is the subscription whose id the client holds (empty when
closed), `leaked` the ones still open whose id was overwritten, each as its set of
keys. `heard` collects the keys of all filters so far: what the relays may still
have under way. *Delivery*: the relays hand over any event one of whose keys was
heard, any number of times, in any order; our own messages only after they were
published. The connection loses nothing here: losing is the subject of
`NostrClient`, and keeping the two apart keeps each checkable. Messages carry no
`created_at` here, and the `since` filter is left out: the model may deliver *more*
than the relays would; `Backfill` has both.

*Content.* `Built` is the content of an event when its author encrypts it, `Received`
what arrives (in the clear for the events `Plain`), and `Reads` what an account makes
of it; `Garbled` events were encrypted with some other secret. A stored row holds
the text it was read as. Every message is plain text: `parse_message` knows no other
type. The page never sets `incoming` in POST /message, and neither do the calls of
the model.

### Nip04

The shared secret is symbolic: what it was computed from. The extension knows a
peer by an x coordinate alone and completes it to the point with an even y, which
for `OddKeys` is the negative of the peer's; `EcdhPoint` keeps that sign and `CopyX`,
the hash function handed to the library, forgets it. That both ends read the same
text depends on it: with the library's own hash function (the mutant) they would
not. Decrypting with a wrong secret fails on the padding or the encoding, or by chance
yields some text.

### Mailbox

Three variables: accounts ever created, filed messages, messages sent. Four
actions: `Enroll`, `File` a message once under an account it concerns, with the text
its author wrote, `Send` what is filed, `Purge` an account's messages. It deliberately lets a message be filed
for an account that is already deleted, for the server does that (the listener
looked the account up before the DELETE), and it deliberately files a message once
for the whole server, so that of two local accounts it concerns only one has it.

### NostrClient

`sendQ` and `recvQ` are the two queues, `ws` the state of `self.ws`, `closing` the
number of websocket threads whose `on_close` is still to come, `open` the
subscriptions served on the current connection. The sender checks the connection
*before* it waits for a request and not after; the listener subscribes, takes
events, and starts over on an error, a SELECT that raises before the REQ
(`ListenerRaise`) included. `ApiClose` and `ApiReopen` are a handler that
resubscribes, `ApiDeleteRefused` and `ApiReopen` a DELETE that answers 404 or 403 and subscribes
all the same (`finally`). Between the two the handler awaits statements; when one raises
it answers 500 and nobody subscribes in its place (`ApiGiveUp`). `reopening` is the number
of handlers that far; any number may be. `TempSubscribe` and `TempExpire` a temporary subscription and its
delayed CLOSE; `RestartClose`/`RestartStop` and `StopClose`/`StopWs` the two halves
of `restart()` and `nostrchat_stop()`, around their sleep. Sleeps are untimed: they
end at some later point. The exception is `sleep(5)` after connecting, by which the
code means "be sure the connection is open": it ends when the attempt is over.
External: the websocket-client library (`Connected`, `Drop`) and what is served at
the other end (`Served`). `put_nowait` from the websocket's thread is modelled as an
atomic append; the late wake-up asyncio allows there is only a delay.

### Backfill

Messages have authors, addressees and the `created_at` their author's clock gave
them. `relays` holds what was published, `wire` what is on its way on which
connection. Subscriptions are their filters, keys and `since`: `main`, whose id the
client holds, `leaked` ones, and `temps`. Opening one brings what the relays hold
and match; `Post` brings a new message on every open one. Closing one may lose what
only it asked for (`Left`). `ReadKeys` `ReadSince` `Put` are
`subscribe_to_all_nostraccts`, run by the listener and by a handler that creates
(`CreateAccount` `CloseFirst`, later `TempSubscribe` `TempExpire`) or deletes
(`DeleteFind` `DeleteMessages` `DeleteAccount`) an account; `RefreshAccount` is only
the temporary subscription. Storing a message is one step, as `ChatServer` has its
statements; so is failing to: `DropMessage` is decryption, an assertion or a statement
that raises, which `process_nostr_message` swallows with the message.
Elsewhere the listener starts over when a statement raises (`ListenerRaise`), a DELETE goes on to its
`finally` (`DeleteRaise`; a refused one goes there at once, `DeleteRefused`), and a handler
that was to subscribe answers 500 (`GiveUp`), with the subscription closed or not. `Lose` is any end of a connection, PUT /restart included; the listener
sees it (`Resubscribe`) after everything that was received before.

Messages *can* be missed, and three history variables say when. `deaf`: a request was
put while there was no connection, and is gone, or a handler gave up that was to
subscribe. `dropped`: the messages whose handling raised. Both last until the connection
ends, for then everything since the newest message is asked for again. `orderly` is
about what is not asked for then, and is false once one of these has happened:

- a message reached the relays after a newer one was stored;
- the listener, or the user by writing, stored a message while an older one was still to
  be asked for;
- a message older than the newest was lost under way, or its handling raised;
- a creation, a refresh or a deletion was cut short, by a crash, a statement that raised
  or the lack of a connection for its temporary subscription;
- an account was deleted under which a message between two accounts was stored, for it
  goes with that account although it concerns the other, which asks for it again only
  if it is not older than the newest.

Each of these is a condition of an action, and taking any one of them away makes TLC find
a message that is missed for good.

### AcctConfig

`meta` is the column, `active` and the id of the deletion event. A tab asks the user
(`AskToggle` `AskRetract`, `Confirm`) and sends its request with the id it shows; the
handler reads the row of the *user* (`ToggleFind` `RetractFind`), signs and publishes in
the second case, and writes the whole configuration (`ToggleUpdate`
`RetractUpdate`). `RepublishFind` fails on its assertion, always. Accounts are created
and deleted around that, in one step (`ChatServer` shows the statements), `Tick` is a
second passing, and `Fault` and `Crash` strike at every await. The event's id is what
it is hashed from, `DeleteEvent`: two deletions in one second are one event.

The histories `odd` and `last` say what the row should hold; `overlap` that two
handlers overlapped and so may have overwritten each other, `cut` that one was cut
off between publishing and writing. Nothing in the server reads `active`:
deactivated accounts get and send messages like others, although the dialog
that asks before says "New orders will not be processed" (`index.js:86`).

### ChatBox

JavaScript runs one handler at a time, so an action is a handler or the part of it
between two awaits; a request is sent, served and answered in three steps that
interleave freely with other requests. `Select` is the watcher of `activePublicKey`
(a click, the back button, or the answer to POST /peer change it), `ServeChat`
`ChatAnswer` `ChatFail` a GET /message, `Send` `ServeSend` `SendAnswer` `SendFail` a
POST /message, `Push` and `OnMessage` the websocket's two ends, `WsCheck` the
reconnection by the interval timer, `WsClose` a loss with all that was on the wire.
The server is what `ChatServer` makes of it: `Store` and `Push` stand for
`_persist_dm`, one message at a time and as often as relays deliver it. `shown`
counts how often a message is in `messages`; their order is left out.

The code puts an answer into whatever chat is open when it arrives, and a message
of ours without looking whether it is there. So the chat box is exact only if
certain races do not happen, and the history variable `calm` says which: the chat
was opened with the websocket open and no request under way; nothing was pushed or
sent before its messages were answered; nothing failed. Dropping any of these makes
`ChatExact` fail.

### PeersList

The table of peers is a version number that every write to it raises. `GetPeers` is
the body of `getPeers()` up to its await, called by the timer (`RefreshFires`) and
after a new peer (`AddPeerAnswer`); `ServePeers` `PeersAnswer` `PeersFail` are its
request. Both delays (300 ms, 500 ms) are untimed: a timer that is set fires at
some later point.

## What the runs check

| Run | Instance | Properties |
|---|---|---|
| `server_messages` | 1 account, 2 requests of send, peer, refresh, delete, an incoming event, an outgoing one and one with no addressee, 1 fault or crash | `TypeOK`, `IncomingHasPeer`, `ProfileRequested`, `IncomingPushed` |
| `server_unread` | 1 account, 2 requests of read and peer, 2 incoming events from one sender, one of them not encrypted, a garbled one, a profile, 1 fault or crash | `UnreadCoversUnopened` |
| `server_liveness` | 2 users, 2 requests of create, delete, send, an event between the two local accounts, `FairSpec` | `Covered`, `ImplementsMailbox`, `EventuallyCovered`, `HandedOverIsStored`, `StoredIsPublished` |
| `client` | 1 call, 1 lost connection, 1 restart, 1 statement that raises, stop, `FairSpec` | `TypeOK`, `TempWillClose`, `SubscriptionKept`, `TempEnds`, `CloseResubscribes`, `RestartRecovers` |
| `backfill` | 2 accounts, 1 call, 3 messages of 2 times, 2 lost connections, crashes or statements that raise, any number of messages dropped, `FairSpec` | `TypeOK`, `OnlyOlderMissed`, `NothingMissed`, `NewestArrives` |
| `account` | 1 user, 2 accounts one after the other, 2 tabs, 4 calls, 1 fault or crash, `FairSpec` | `TypeOK`, `RetractionSent`, `ConfigExact`, `RetractionRecorded` |
| `page_chat` | 2 chats, a message arriving in each, one sent, 3 changes of chat, 2 deliveries, 1 fault | `TypeOK`, `IncomingOnce`, `ChatExact` |
| `page_peers` | 4 writes, 2 faults, `FairSpec` | `TypeOK`, `PeersNeverOlder`, `RefreshSees` |

What they show:

- **IncomingHasPeer**: an incoming message always has a peer row, so its chat is in
  the list; peers are inserted first and never deleted.
- **ProfileRequested**, **IncomingPushed** (without faults): whoever inserts a peer
  asks for its profile; whoever stores an incoming message pushes it. With faults
  both fail for good, since each is a statement of its own and nothing retries.
- **UnreadCoversUnopened**: in a chat nobody has opened, the counter is at least the
  number of messages. It rests on three details at once: the counter goes up
  before the INSERT, a new row starts at the column's DEFAULT 1 (`models.Peer` says
  0), and racing INSERTs give each row a 1. It may well be *more*, for redelivered
  messages count again.
- **Covered**: unless a fault cut a request short, every account's key is in an open
  subscription or in one that a handler under way is bound to open. Its mutant is
  instructive. Subscriptions leak, because `subscribe_nostraccts()` overwrites the id
  of an open one and `unsubscribe_nostraccts()` closes only the last; but closing the old one at that point
  would *break* `Covered`: a handler that read the keys before an account was
  created would then close the subscription that has the new key and open one
  without it. The leak is what keeps concurrent creations safe.
- **ImplementsMailbox**: nothing is filed twice, under a wrong account or a wrong
  peer, or with another text than was written, whichever end decrypts it; and nothing
  is published that was not read back.
- **EventuallyCovered**, **HandedOverIsStored**, **StoredIsPublished**: what has been
  started comes to its end, unless the account or its messages are deleted.
- **TempWillClose**, **TempEnds**: a temporary subscription that is served has its
  CLOSE still to come, however connections and queued requests are lost; so it ends.
- **SubscriptionKept**: the accounts are subscribed or the request is queued, with no
  CLOSE of it on its way, or a subscription is due (from a handler, the listener, or an
  error that will tell the listener). Two steps may end that: their request is sent without
  a connection (the hole `found_lost_resubscribe` shows), and a handler that was to
  subscribe gives up because a statement raised. No other step does, in whatever order
  handlers and the listener close and open the subscription.
- **CloseResubscribes**: every lost connection sends the listener back to subscribe.
- **RestartRecovers**: PUT /restart gets the accounts subscribed at last, although
  the first REQ after it may be lost on the way.
- **OnlyOlderMissed**, **NewestArrives**: a message created since the newest one the
  server ever stored is stored, under way, or will be asked for; and so it arrives. That
  fails, until the connection ends the next time, after a request was lost or a handler
  gave up (`deaf`), and for a message whose handling raised (`dropped`). Past that end only
  messages older than one the server has had can be missed.
- **NothingMissed**: as long as the history is `orderly`, and with the same two exceptions,
  nothing is missed at all, of any account, although they share one `since`. What `orderly`
  excludes does happen: the message of one account that arrives first hides an older one of
  another account after the next gap, and so does a message the user writes himself, for he
  stores it at once and with the server's clock; a message that could not be stored is
  gone once a newer one is; and so is the message between two accounts that is stored under
  one of them, when that one is deleted.
- **RetractionSent**: a row never names a deletion event that was not sent or that
  another account signed, though handlers overwrite each other and accounts go.
- **ConfigExact**, **RetractionRecorded**: without overlap both fields are what the
  calls made them; with it a toggle may undo the record of a deletion.
- **IncomingOnce**: whatever races, an incoming message is shown at most once.
- **ChatExact**: without the races that `calm` names, the open chat shows all its
  messages, each once, and none of another chat.
- **PeersNeverOlder**, `TypeOK` of `PeersList`: `peerRefreshInProgress` keeps GET /peer
  to one request at a time, so that answers cannot overtake each other.
- **RefreshSees**: a refresh asked for while another is under way still reads what
  was written before it was asked for; only a failed request loses it.

Four runs are expected to end in a counterexample; each checks what a line of the
repository says against what its code does (`findings` in `PROJECT.json`):

| Run | What the repository says | What happens |
|---|---|---|
| `found_two_accounts` | "A nostracct already exists for this user" | two concurrent creations with different keys both succeed |
| `found_import` | "Newly created dm couldn't be retrieved" | a message stored for one local account cannot be stored for the other it concerns |
| `found_lost_resubscribe` | "force re-subscribe" | the new REQ is sent on the dead websocket and lost; no other is queued |
| `found_stop` | "Give some time for the CLOSE events to propagate" | the task that would send the CLOSE is already cancelled |

### Bounds, and why they are enough

- *Two concurrent requests* beside the listener: every race here is between two
  processes over one account, one chat or the subscription id. The proofs cover any
  number.
- *Keys and users*: two users with a key each and one outsider give every kind of
  message (from outside, to outside, between local accounts, to nobody). Symmetry is
  used for the request slots only, and never where liveness is checked.
- *Account ids* (`AcctIds`) bound creations; three allow an account to be deleted and
  created again beside another one.
- *`MaxUnread`* bounds redeliveries in the guard of `Deliver`; two messages may each
  come again. *`LocalEvents`* bounds messages sent, *`MaxFaults`* crashes and failed
  statements; one is enough to land between any two statements.
- *`MaxFaults = 0`* in `server_liveness` keeps it feasible; the
  theorem `Refinement` covers faults, and under faults the liveness properties do
  not hold, for requests are abandoned.
- `server_liveness` has no faults, so `Covered`, which excuses them, is checked there
  without them; the theorem covers the case with them.
- `NostrClient`: `MaxCalls`, `MaxDrops`, `MaxRestarts`, `MaxFailures`, `MaxSubs` (ids; large
  enough not to be the limit) and `MaxReceived` (an event is only received when the queue is
  short; errors are always put). A connection lost and one restarted make it happen that a
  request queued for one connection is sent on the one after the next. With one call there
  is a temporary subscription beside the accounts' own, or a handler that closes and reopens
  while the listener subscribes; one failure lands in either. `TempsClosed` and
  `OnlyTwoEndings` are proved for any number of each. 253,103 states.
- `backfill`: the call creates an account, deletes or refreshes one, or is refused. Two of
  `MaxLosses` (lost connections, crashes and statements that raise together) are a failure
  and the end of the connection after it, or two gaps; messages come before, between and
  after, and any may be dropped. `between` concerns both accounts, `outside` one of
  them, `reply` is what the user writes; its time is later than theirs, and theirs are
  equal, the boundary of the filter. `OlderAtMost` and `AllArrive` are proved for any number
  of calls, losses, messages and accounts. 714,146 states.
- `account`: four calls let each tab change the account twice; one second passing gives
  two different deletion events; one fault lands between any two statements. Two
  `AcctIds` let the account be deleted and another be created.
- `page_chat`: three changes of chat are enough to leave one and come back while an
  answer is under way; two deliveries are two messages, or one twice. `page_peers`:
  every refresh, timer and answer is unbounded; only writes and failures are counted.
- `client` and the two `found_` runs of `NostrClient` do not check deadlock: both tasks
  may wait for their queues for ever, and after a stop nothing runs. Nor do `page_chat`,
  `backfill` and `account`: nothing has to happen once their messages, calls and
  changes are used up.

### Fairness

`ChatServer`: weak fairness of the listener and of each request under way: the event
loop runs every ready task and the database answers. Nothing forces a user to call
or a relay to send. `NostrClient`: weak fairness of the two tasks, of the handlers
under way (which subscribe or give up, `ApiReopen \/ ApiGiveUp`) and the delayed tasks, and of the websocket's thread in so far as a connection
attempt ends and `on_close` is called. No fairness for losses, calls, messages,
restarts; what a stop cuts off is excused. `Backfill`: the processes that subscribe go on
(`Tasks`), the client goes on connecting (`Connect`; its loop tries again for ever), and
what is on its way arrives, to be stored or dropped (`Arrive`); nothing
has to raise. `AcctConfig`: handlers under way go on; no user
has to confirm. `PeersList`: timers fire, the server answers a request, answers arrive; a
request that fails is a fault and is excused. `RestartRecovers` and `ForceResubscribe` are about the time after the last
lost connection; without that nothing can be promised.

## What is proved

`ChatServerProofs`, for every value of the constants (any number of requests,
users, keys, accounts, events and faults) from `DatabaseAssumption` (ids are
numbers, `NoProfile` is no time) and `ChatServerAssumption` (types of the constants,
the listener is not a request, initial accounts do not share id, user or key):

| Theorem | Statement | Argument |
|---|---|---|
| `TypeCorrect` | `Spec => []TypeOK` | inductive. Its part `LocalsOK` is what makes it so: at each program point it says which local variables are bound. |
| `EveryAccountCovered` | `Spec => []Covered` | inductive together with `TypeOK`. A handler that closes the subscription is itself one that will read all keys and subscribe; one that has read the keys holds every key read; one that creates an account subscribes after its INSERT; and no step closes a leaked subscription. |
| `IncomingIsVisible` | `Spec => []IncomingHasPeer` | not inductive alone: `PeerInv` adds that when the listener is at or past counting and has not stored the message yet, its sender has a row. `NextKeepsPeers` (no step loses an (account, key) of peers) and `OnlyInInsert` (incoming rows have one writer) carry it. |
| `Refinement` | `Spec => ImplementsMailbox` | step by step, from `Filing`: the account a sender or the listener holds is the one its event concerns. Every step is a step of `Mailbox` or leaves its three variables alone. |

`Refinement` also says that a stored text is what its author wrote; the lemma
`TextIsRead` has the argument for that: the two ends' secrets are equal, for `CopyX`
is symmetric in the two keys.

`MessageProofs`, from the same assumptions:

| Theorem | Statement | Argument |
|---|---|---|
| `SendersAreProfiled` | `Spec => []ProfileRequested` | inductive with `TypeOK`. `PeersWriters`: rows of peers are made in two places only, and both go on to ask for the profile; `RequestedStays`: nothing else takes that away but a fault, which is counted. |
| `IncomingIsPushed` | `Spec => []IncomingPushed` | inductive with `TypeOK`; the same for `InInsert` and `InReread`. `InInsert` of a message that is there already adds no row. |
| `BadgeIsEnough` | `Spec => []UnreadCoversUnopened` | not inductive: the badge is one ahead between counting a message and storing it, and the invariant has to say which chat's. `BadgeInv` is the statement per chat, with `FirstInHand` (when the listener is to insert a peer, none of its messages is stored) and `CountedInHand` (after counting, some row of the chat is one ahead, or the chat was opened). Concurrent handlers may insert more rows for the chat, or raise others: one row that is enough stays enough, for only opening the chat lowers it. |

`NostrClientProofs`, from `NostrClientAssumption` (the bounds are numbers):

| Theorem | Statement | Argument |
|---|---|---|
| `TypeCorrect` | `Spec => []TypeOK` | inductive with `FreshIds`: ids in use are below the next one, so no two subscriptions share one. |
| `TempsClosed` | `Spec => []TempWillClose` | by `TempsOK`: of every temporary subscription, the task sleeps, or a CLOSE is queued behind every REQ for it, or it is neither open nor asked for. `RequestsDiffer` keeps other requests out of the way, `PutKeeps` and `PutCloses` say what a `put` does to the queue, `TempsSend` what sending its head does. |
| `OnlyTwoEndings` | `Spec => SubscriptionKept` | step by step from `SubInv`. `DueStays`: what is due is due until somebody subscribes or the one who was to gives up. `AskedAnew`: subscribing makes up a new id, and by `QueueFresh` (every queued id was handed out before) no CLOSE in the queue is for it, though any number of handlers closed and opened before. `AskedSent`, `AskedStays`: sending the head of the queue keeps a request that is open or queued, unless it is that request and there is no connection; a handler or restart() that queues a CLOSE makes a subscription due. |

`BackfillProofs`, from `BackfillAssumption` (times are positive numbers, the handler is
not the listener): `TypeCorrect` (`Spec => []TypeOK`), `OlderAtMost`
(`Spec => []OnlyOlderMissed`) and `AllArrive` (`Spec => []NothingMissed`). The
invariant of `OlderAtMost` adds `SinceOK` (no filter's `since`, open or
about to be, is later than the newest message ever stored) and `KeysOK` (every
account's key is in an open filter or will be read, unless `deaf`). `FilterMatches` then says that
such a filter brings every message created since the newest one; one that is dropped after
that waits, in `dropped`, for the end of the connection, and then the listener has yet to ask (`WillSubscribe`). `AllArrive` rests on
`WaitingOK`: as long as the history is orderly, no message that waits to be asked for is
older than the newest one; then `OlderAtMost` has it. That invariant did not hold of the
definition of `orderly` that came first: the proof of `DeleteMessages` failed, because
a message between two accounts is stored once and deleted with the one that has it.
The code does lose it, and so `orderly` says so now, and the instance has such a message.

`AcctConfigProofs`, from `AcctConfigAssumption` and `DatabaseAssumption`: `TypeCorrect`
(`Spec => []TypeOK`) and `RecordedWasSent` (`Spec => []RetractionSent`), by `OwnEvents`:
also what a handler is about to write names only events sent and signed by the account
that has, or had, its id.
`NoChangeLost` (`Spec => []ConfigExact`) is from `ExactInv`: without overlap one handler
writes to an account at a time (`OneWriter`), and the configuration it is about to write
is the row with its one change (`FreshConfig`); `UsersOwn` and `Untouched` carry that over
accounts that are deleted and created.

`ChatBoxProofs`, from `ChatBoxAssumption`: `TypeCorrect` (`Spec => []TypeOK`), `ShownOnce`
(`Spec => []IncomingOnce`) and `ChatComplete` (`Spec => []ChatExact`). `ChatExact` speaks of
the time after the answer to GET /message; `BoxInv` adds the time before: `Opening` (the
one request under way is for the open chat, and a stored message that is not in its
answer is yet to be pushed), `Sending` (what is being sent belongs to the open chat and is
not shown yet) and `Posted` (each message of ours has one POST, and is shown only when
stored).

`PeersListProofs`, for any bounds: `PeersTypeCorrect` (`Spec => []TypeOK`; inductive,
because its part `OneRequest` ties `peerRefreshInProgress` to the one request and
says that its answer is no older than what is shown) and `ListNeverOlder`
(`Spec => PeersNeverOlder`), which follows step by step.

So every invariant and action property of the passing runs is also a theorem. Only
model-checked are the liveness properties, for liveness under fairness and ENABLED are
out of the prover's reach: `EventuallyCovered`, `HandedOverIsStored`, `StoredIsPublished`,
`TempEnds`, `CloseResubscribes`, `RestartRecovers`, `NewestArrives`, `RetractionRecorded`
and `RefreshSees`. What safety there is in them is proved where it could be said: that a
way to the goal is never lost (`Covered`, `TempWillClose`, `SubscriptionKept`,
`OnlyOlderMissed`, `ConfigExact`), though not that it is ever taken. The four
counterexamples are runs of TLC and need no proof. `BadgeInv`,
`SubInv`, `WaitingOK`, `ExactInv` and `BoxInv` hold on the instances of their runs too: TLC was
asked for them as well.

## What is not modelled

- The timestamp GET /nostracct writes into `nostraccts.time`: only the same handler
  uses it, to tell the page whether a restore is in progress.
- Times of profiles: a profile event replaces the stored one whatever its
  `created_at`, so that relays answering out of order can leave the older one. It
  decides nothing but what is shown.
- The spelling of keys. Keys in the models are the strings the code compares;
  `normalize_public_key` turns an npub into hex and lets 64 hex digits pass as they
  are, so that one key in two spellings is two keys, to the code and to the models.
- Hashing, signing and serialising events: ids stand for them, equal exactly when
  what is hashed is. `check_signature` exists and nothing calls it.
- Calls of `nostracct-details.js` to routes the server does not have (profile,
  requery, republish): they fail and change nothing.
- In the browser: creating and importing an account beyond its API call, the
  throttling of `refresh-peers` in the chat box (`PeersList` starts where a refresh is
  asked for), one text sent twice because Enter both submits the form and fires
  `keyup.enter`, and `pendingMessages`: the chat box exists as long as an account is
  shown, so pushes are queued there only when there is no account to show. What
  components show, and the layout of pages.
- Real time: every sleep and timer is untimed, but for the second in a deletion event.
- Templates, packaging and the vendored `nostr.bundle.js` have no behaviour of this
  program.

## Plan

Done first, because everything else rests on it: `Database`, `ChatServer`, `Mailbox`,
`NostrClient` and the proofs about the server; then the browser, `ChatBox` and
`PeersList`; then `Backfill`, `AcctConfig`, `Nip04`, and the proofs about the client, the
filters and the configuration; then the remaining invariants, of incoming messages
(`MessageProofs`), of the chat box, of the filters and of the configuration, and the safety
part of resubscribing. Next:

1. An abstract specification for the page (a chat is a view of the server's table),
   which `ChatBox` implements under `calm`.
2. The safety part of `HandedOverIsStored`: what the listener drops without a fault was
   stored, or its account is gone. It needs a history of what was ever stored, for the row
   may be deleted with another account before it is read back.
3. Profiles with times.
