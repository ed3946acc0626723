----------------------------- MODULE ChatServer -----------------------------
(***************************************************************************)
(* The server side of the extension: the API handlers (views_api.py), the  *)
(* Nostr listener (tasks.py, services.py) and the database they share.     *)
(*                                                                         *)
(* All of it runs on one event loop, so code between two awaits is atomic. *)
(* Each database statement is awaited: one action is one statement with    *)
(* the code that runs from its result to the next await, except that code  *)
(* reading the shared subscription id is an action of its own.  Putting a  *)
(* request on send_req_queue never waits, for the queue has no bound.      *)
(*                                                                         *)
(* Here the connection to the relays loses nothing.  NostrClient models    *)
(* the queues and the connection, and what they do lose.                   *)
(***************************************************************************)
EXTENDS Database, Nip04

CONSTANTS
  Requests,        \* slots for API requests that are served concurrently
  Listener,        \* the task running wait_for_nostr_events()
  Calls,           \* the API calls users make: [op, user, key] records
  Author, PTag,    \* author and first "p" tag of each event
  NoKey,           \* PTag of an event that has no "p" tag
  LocalEvents,     \* events our accounts build; all others come from relays
  Text,            \* what the author of each event wrote
  Plain,           \* events from relays whose content is not encrypted
  Garbled,         \* events from relays encrypted with some other secret
  InitAccts,       \* accounts the database holds when the server starts
  MaxUnread,       \* bound: unread messages of one peer row
  MaxFaults,       \* bound: crashes and failed statements
  NoCall, NoAcct, NoEvent, NoText

Procs == Requests \cup {Listener}

Ops == {"create", "delete", "messages", "send", "peer", "refresh"}

CallType == [op : Ops, user : Users, key : Pubkeys]

ASSUME ChatServerAssumption ==
  /\ Listener \notin Requests
  /\ Calls \subseteq CallType
  /\ Author \in [Events -> Pubkeys]
  /\ PTag \in [Events -> Pubkeys \cup {NoKey}]
  /\ NoKey \notin Pubkeys
  /\ Text \in [Events -> Texts] /\ NoText \notin Texts
  /\ LocalEvents \subseteq Events /\ Garbled \subseteq Events \ LocalEvents
  /\ InitAccts \subseteq AcctRow
  /\ \A a, b \in InitAccts :
       (a.id = b.id \/ a.user = b.user \/ a.key = b.key) => a = b
  /\ MaxUnread \in Nat /\ MaxFaults \in Nat
  /\ NoCall \notin CallType /\ NoAcct \notin AcctRow /\ NoEvent \notin Events

VARIABLES
  pc,         \* what each process awaits
  call,       \* the call a request serves
  acct,       \* local variable nostracct
  evt,        \* the event a process handles or has built
  keys,       \* local variable public_keys of subscribe_to_all_nostraccts
  main,       \* {keys of the subscription named by subscription_id}; {}: closed
  leaked,     \* keys of subscriptions still open whose id nobody holds
  heard,      \* keys in the filter of any account subscription so far
  profiled,   \* keys whose profile was requested
  built,      \* local events that exist
  published,  \* local events handed to the relays
  pushed,     \* messages sent to the browsers' websockets
  opened,     \* chats some browser has read: [acct, key]
  failed,     \* a request was cut short by a fault since the server started
  faults      \* number of faults so far

locals  == <<pc, call, acct, evt, keys>>
subs    == <<main, leaked, heard, profiled>>
history == <<built, published, pushed, opened>>
trouble == <<failed, faults>>
vars    == <<db, locals, subs, history, trouble>>

NoLocals(p) == /\ call' = [call EXCEPT ![p] = NoCall]
               /\ acct' = [acct EXCEPT ![p] = NoAcct]
               /\ evt'  = [evt EXCEPT ![p] = NoEvent]
               /\ keys' = [keys EXCEPT ![p] = {}]

Home(p)    == IF p = Listener THEN "wait" ELSE "idle"
Goto(p, l) == pc' = [pc EXCEPT ![p] = l]

\* The handler returns or raises: its local variables are gone.
Leave(p) == Goto(p, Home(p)) /\ NoLocals(p)

\* A step that only moves on, or that only moves on and keeps account a.
Advance(p, l)    == Goto(p, l) /\ UNCHANGED <<call, acct, evt, keys>>
AdvanceAs(p, l, a) == /\ Goto(p, l)
                      /\ acct' = [acct EXCEPT ![p] = a]
                      /\ UNCHANGED <<call, evt, keys>>

Init ==
  /\ accts = InitAccts /\ issued = InitAccts
  /\ dms = {} /\ peers = {}
  /\ pc = [p \in Procs |-> IF p = Listener THEN "listen_keys" ELSE "idle"]
  /\ call = [p \in Procs |-> NoCall]
  /\ acct = [p \in Procs |-> NoAcct]
  /\ evt = [p \in Procs |-> NoEvent]
  /\ keys = [p \in Procs |-> {}]
  /\ main = {} /\ leaked = {} /\ heard = {} /\ profiled = {}
  /\ built = {} /\ published = {} /\ pushed = {} /\ opened = {}
  /\ failed = FALSE /\ faults = 0

-----------------------------------------------------------------------------
(***************************************************************************)
(* Subscriptions.  unsubscribe_nostraccts() closes the one subscription    *)
(* whose id nostr_client holds; subscribe_nostraccts() opens another one   *)
(* and overwrites that id, whether or not the old one was closed.          *)
(***************************************************************************)
Unsubscribe == main' = {} /\ UNCHANGED <<leaked, heard, profiled>>

ReadKeys(p, l) == /\ keys' = [keys EXCEPT ![p] = AcctKeys]
                  /\ Goto(p, l)
                  /\ UNCHANGED <<db, call, acct, evt, subs, history, trouble>>

\* Mutant: the previous subscription is closed, so that none is ever leaked.
SubscribeClosingOld(p, temp) == /\ main' = {keys[p]}
                                /\ heard' = heard \cup keys[p] \cup temp
                                /\ UNCHANGED <<leaked, profiled>>

\* temp: the keys of a temporary subscription opened along with it.
Subscribe(p, temp) == /\ main' = {keys[p]}
                      /\ leaked' = leaked \cup main
                      /\ heard' = heard \cup keys[p] \cup temp
                      /\ UNCHANGED profiled

RequestProfile(k) == /\ profiled' = profiled \cup {k}
                     /\ UNCHANGED <<main, leaked, heard>>

-----------------------------------------------------------------------------
(***************************************************************************)
(* A user calls the API.  Creations are bounded by the ids there are.      *)
(***************************************************************************)
Entry == [create |-> "create_find_key", delete |-> "delete_find",
          messages |-> "get_find", send |-> "send_find",
          peer |-> "peer_find", refresh |-> "refresh_find"]

Creating == {p \in Requests : pc[p] \in {"create_find_key", "create_find_user",
                                         "create_insert"}}

Request(p) ==
  /\ pc[p] = "idle"
  /\ \E c \in Calls :
       /\ c.op = "create" => Cardinality(AcctIds \ IssuedIds) > Cardinality(Creating)
       /\ call' = [call EXCEPT ![p] = c]
       /\ Goto(p, Entry[c.op])
  /\ UNCHANGED <<db, acct, evt, keys, subs, history, trouble>>

-----------------------------------------------------------------------------
(***************************************************************************)
(* POST /nostracct: api_create_nostracct.                                  *)
(***************************************************************************)
CreateFindKey(p) ==
  /\ pc[p] = "create_find_key"
  /\ IF AcctsWithKey(call[p].key) = {} THEN Advance(p, "create_find_user") ELSE Leave(p)
  /\ UNCHANGED <<db, subs, history, trouble>>

CreateFindUser(p) ==
  /\ pc[p] = "create_find_user"
  /\ IF AcctsOfUser(call[p].user) = {} THEN Advance(p, "create_insert") ELSE Leave(p)
  /\ UNCHANGED <<db, subs, history, trouble>>

CreateInsert(p) ==
  /\ pc[p] = "create_insert"
  /\ \E id \in FreshIds :
       LET row == [id |-> id, user |-> call[p].user, key |-> call[p].key]
       IN  InsertAcct(row) /\ AdvanceAs(p, "create_reread", row)
  /\ UNCHANGED <<subs, history, trouble>>

\* Mutant: the new account is answered without subscribing for it.
CreateRereadOnly(p) ==
  /\ pc[p] = "create_reread"
  /\ Leave(p)
  /\ UNCHANGED <<db, subs, history, trouble>>

\* "Created nostracct cannot be retrieved": a concurrent DELETE was faster.
CreateReread(p) ==
  /\ pc[p] = "create_reread"
  /\ IF acct[p] \in accts THEN Advance(p, "resub_close") ELSE Leave(p)
  /\ UNCHANGED <<db, subs, history, trouble>>

ResubClose(p) ==
  /\ pc[p] = "resub_close"
  /\ Unsubscribe
  /\ Advance(p, "resub_keys")
  /\ UNCHANGED <<db, history, trouble>>

\* After asyncio.sleep(1).
ResubKeys(p) == pc[p] = "resub_keys" /\ ReadKeys(p, "resub_put")

\* subscribe_nostraccts() and then nostracct_temp_subscription().
ResubPut(p) ==
  /\ pc[p] = "resub_put"
  /\ Subscribe(p, {call[p].key})
  /\ Leave(p)
  /\ UNCHANGED <<db, history, trouble>>

-----------------------------------------------------------------------------
(***************************************************************************)
(* DELETE /nostracct/{id}: api_delete_nostracct.  The finally clause runs  *)
(* subscribe_to_all_nostraccts() on every path, also on those that closed  *)
(* no subscription.                                                        *)
(***************************************************************************)
DeleteFind(p) ==
  /\ pc[p] = "delete_find"
  /\ \/ \E a \in AcctsOfUser(call[p].user) : AdvanceAs(p, "delete_close", a)
     \/ Advance(p, "delete_keys")    \* no account, or the id is not its id
  /\ UNCHANGED <<db, subs, history, trouble>>

DeleteClose(p) ==
  /\ pc[p] = "delete_close"
  /\ Unsubscribe
  /\ Advance(p, "delete_dms")
  /\ UNCHANGED <<db, history, trouble>>

DeleteMessages(p) ==
  /\ pc[p] = "delete_dms"
  /\ DeleteDms(acct[p].id)
  /\ Advance(p, "delete_acct")
  /\ UNCHANGED <<subs, history, trouble>>

DeleteAccount(p) ==
  /\ pc[p] = "delete_acct"
  /\ DeleteAcct(acct[p].id)
  /\ Advance(p, "delete_keys")
  /\ UNCHANGED <<subs, history, trouble>>

DeleteKeys(p) == pc[p] = "delete_keys" /\ ReadKeys(p, "delete_put")

DeletePut(p) ==
  /\ pc[p] = "delete_put"
  /\ Subscribe(p, {})
  /\ Leave(p)
  /\ UNCHANGED <<db, history, trouble>>

-----------------------------------------------------------------------------
(***************************************************************************)
(* GET /message/{public_key}: api_get_messages.  The SELECT of the page    *)
(* changes nothing here; what matters is that it comes before the reset.   *)
(***************************************************************************)
GetFind(p) ==
  /\ pc[p] = "get_find"
  /\ \/ \E a \in AcctsOfUser(call[p].user) : AdvanceAs(p, "get_reset", a)
     \/ AcctsOfUser(call[p].user) = {} /\ Leave(p)
  /\ UNCHANGED <<db, subs, history, trouble>>

GetReset(p) ==
  /\ pc[p] = "get_reset"
  /\ ResetUnread(acct[p].id, call[p].key)
  /\ opened' = opened \cup {[acct |-> acct[p].id, key |-> call[p].key]}
  /\ Leave(p)
  /\ UNCHANGED <<subs, built, published, pushed, trouble>>

-----------------------------------------------------------------------------
(***************************************************************************)
(* POST /message: api_create_message.  build_dm_event() signs a new event; *)
(* its id is fresh because the ciphertext has a random iv.  LocalEvents    *)
(* bounds how many can be built.  The row takes the text as it was sent.   *)
(***************************************************************************)
SendFind(p) ==
  /\ pc[p] = "send_find"
  /\ \/ \E a \in AcctsOfUser(call[p].user), e \in LocalEvents \ built :
          /\ Author[e] = a.key /\ PTag[e] = call[p].key
          /\ built' = built \cup {e}
          /\ evt' = [evt EXCEPT ![p] = e]
          /\ acct' = [acct EXCEPT ![p] = a]
          /\ Goto(p, "send_insert")
          /\ UNCHANGED <<call, keys>>
     \/ /\ \A a \in AcctsOfUser(call[p].user), e \in LocalEvents \ built :
             Author[e] # a.key \/ PTag[e] # call[p].key
        /\ Leave(p)
        /\ UNCHANGED built
  /\ UNCHANGED <<db, subs, published, pushed, opened, trouble>>

SendInsert(p) ==
  /\ pc[p] = "send_insert"
  /\ InsertDm([event |-> evt[p], acct |-> acct[p].id, key |-> call[p].key,
               text |-> Text[evt[p]], incoming |-> FALSE])
  /\ Advance(p, "send_reread")
  /\ UNCHANGED <<subs, history, trouble>>

\* Mutants: published whether or not it was read back; only to known peers.
SendRereadUnchecked(p) ==
  /\ pc[p] = "send_reread"
  /\ published' = published \cup {evt[p]}
  /\ Leave(p)
  /\ UNCHANGED <<db, subs, built, pushed, opened, trouble>>

SendRereadKnownPeer(p) ==
  /\ pc[p] = "send_reread"
  /\ published' = IF PeersOf(acct[p].id, call[p].key) = {} THEN published
                                                          ELSE published \cup {evt[p]}
  /\ Leave(p)
  /\ UNCHANGED <<db, subs, built, pushed, opened, trouble>>

\* Published only once it was read back; else the assertion answers 400.
SendReread(p) ==
  /\ pc[p] = "send_reread"
  /\ published' = IF DmsOfEvent(acct[p].id, evt[p]) = {} THEN published
                                                    ELSE published \cup {evt[p]}
  /\ Leave(p)
  /\ UNCHANGED <<db, subs, built, pushed, opened, trouble>>

-----------------------------------------------------------------------------
(***************************************************************************)
(* POST /peer: api_create_peer.                                            *)
(***************************************************************************)
\* Mutant: the assertion that the user has an account is dropped.
PeerFindUnasserted(p) ==
  /\ pc[p] = "peer_find"
  /\ \/ \E a \in AcctsOfUser(call[p].user) : AdvanceAs(p, "peer_get", a)
     \/ Advance(p, "peer_get")
  /\ UNCHANGED <<db, subs, history, trouble>>

PeerFind(p) ==
  /\ pc[p] = "peer_find"
  /\ \/ \E a \in AcctsOfUser(call[p].user) : AdvanceAs(p, "peer_get", a)
     \/ Leave(p)                     \* no account, or the id is not its id
  /\ UNCHANGED <<db, subs, history, trouble>>

PeerGet(p) ==
  /\ pc[p] = "peer_get"
  /\ IF PeersOf(acct[p].id, call[p].key) = {} THEN Advance(p, "peer_insert")
                                              ELSE Leave(p)
  /\ UNCHANGED <<db, subs, history, trouble>>

PeerInsert(p) ==
  /\ pc[p] = "peer_insert"
  /\ InsertPeer(acct[p].id, call[p].key)
  /\ Advance(p, "peer_profile")
  /\ UNCHANGED <<subs, history, trouble>>

\* The row is read back, then user_profile_temp_subscribe().
PeerProfile(p) ==
  /\ pc[p] = "peer_profile"
  /\ RequestProfile(call[p].key)
  /\ Leave(p)
  /\ UNCHANGED <<db, history, trouble>>

-----------------------------------------------------------------------------
(***************************************************************************)
(* GET /nostracct/{id}/nostr: api_refresh_nostracct, a temporary           *)
(* subscription for the account's key from the beginning of time.          *)
(***************************************************************************)
RefreshFind(p) ==
  /\ pc[p] = "refresh_find"
  /\ \/ \E a \in AcctsOfUser(call[p].user) : heard' = heard \cup {a.key}
     \/ UNCHANGED heard              \* no account, or the id is not its id
  /\ Leave(p)
  /\ UNCHANGED <<db, main, leaked, profiled, history, trouble>>

-----------------------------------------------------------------------------
(***************************************************************************)
(* The listener: wait_for_nostr_events() subscribes, then takes events one *)
(* at a time.  The relays may hand it any stored event that one of its     *)
(* filters matched, in any order and any number of times: a subscription   *)
(* reopened with the same filter returns the same events again.            *)
(***************************************************************************)
ListenKeys == pc[Listener] = "listen_keys" /\ ReadKeys(Listener, "listen_put")

ListenPut ==
  /\ pc[Listener] = "listen_put"
  /\ Subscribe(Listener, {})
  /\ Leave(Listener)
  /\ UNCHANGED <<db, history, trouble>>

Deliver(e) ==
  /\ pc[Listener] = "wait"
  /\ {Author[e], PTag[e]} \cap heard # {}
  /\ e \in LocalEvents => e \in published
  /\ \A p \in peers : p.unread < MaxUnread
  /\ evt' = [evt EXCEPT ![Listener] = e]
  /\ Goto(Listener, "by_author")
  /\ UNCHANGED <<db, call, acct, keys, subs, history, trouble>>

\* Kind 0: _handle_peer_profile_update() runs the one statement.
DeliverProfile(k, t) ==
  /\ pc[Listener] = "wait"
  /\ k \in heard \cup profiled
  /\ UpdateProfile(k, t)
  /\ UNCHANGED <<locals, subs, history, trouble>>

(***************************************************************************)
(* Kind 4: _handle_nip04_message().  An event is outgoing when its author  *)
(* has an account, whoever it is addressed to; only when there is no such  *)
(* account is its addressee looked up.  The text is decrypted with what    *)
(* the account and the other party have in common; when that fails, the    *)
(* event is dropped.                                                       *)
(***************************************************************************)
\* build_dm_event(): encrypted by the author for the addressee.
Built(e) == Encrypted(Text[e], SharedSecret(Author[e], PTag[e]))

\* What others write: NIP-04 has it that the secret is the x coordinate.
Received(e) == IF e \in Plain THEN Unencrypted(Text[e])
               ELSE Encrypted(Text[e], IF e \in Garbled THEN {NoKey}
                                                        ELSE {Author[e], PTag[e]})

Content(e) == IF e \in LocalEvents THEN Built(e) ELSE Received(e)

\* a.decrypt_message() with the other party's key may return t, or fail: NoText.
Reads(a, key, t) == DecryptsTo(Content(evt[Listener]), SharedSecret(a.key, key), t)

Outgoing(a) ==
  LET to == PTag[evt[Listener]]
  IN  \/ /\ to # NoKey /\ \E t \in Texts : Reads(a, to, t)
         /\ AdvanceAs(Listener, "out_insert", a)
      \/ (to = NoKey \/ Reads(a, to, NoText)) /\ Leave(Listener)

Incoming(a) ==
  LET from == Author[evt[Listener]]
  IN  \/ /\ \E t \in Texts : Reads(a, from, t)
         /\ AdvanceAs(Listener, "in_get_peer", a)
      \/ Reads(a, from, NoText) /\ Leave(Listener)

\* Mutant: the addressee is not looked up when the author has no account.
ByAuthorOnly ==
  /\ pc[Listener] = "by_author"
  /\ LET rows == AcctsWithKey(Author[evt[Listener]])
     IN  \/ \E a \in rows : Outgoing(a)
         \/ rows = {} /\ Leave(Listener)
  /\ UNCHANGED <<db, subs, history, trouble>>

ByAuthor ==
  /\ pc[Listener] = "by_author"
  /\ LET rows == AcctsWithKey(Author[evt[Listener]])
     IN  \/ \E a \in rows : Outgoing(a)
         \/ rows = {} /\ IF PTag[evt[Listener]] = NoKey
                           THEN Leave(Listener)
                           ELSE Advance(Listener, "by_tag")
  /\ UNCHANGED <<db, subs, history, trouble>>

ByTag ==
  /\ pc[Listener] = "by_tag"
  /\ LET rows == AcctsWithKey(PTag[evt[Listener]])
     IN  \/ \E a \in rows : IF Author[evt[Listener]] = a.key THEN Outgoing(a)
                                                             ELSE Incoming(a)
         \/ rows = {} /\ Leave(Listener)
  /\ UNCHANGED <<db, subs, history, trouble>>

(***************************************************************************)
(* _handle_incoming_dms(): the peer is created or its unread counter goes  *)
(* up before the message is stored, and so before it is known whether the  *)
(* message was stored before.                                              *)
(***************************************************************************)
\* Mutant: an unknown sender is treated like a known one.
InGetPeerKnown ==
  /\ pc[Listener] = "in_get_peer"
  /\ Advance(Listener, "in_count")
  /\ UNCHANGED <<db, subs, history, trouble>>

InGetPeer ==
  /\ pc[Listener] = "in_get_peer"
  /\ IF PeersOf(acct[Listener].id, Author[evt[Listener]]) = {}
       THEN Advance(Listener, "in_insert_peer")
       ELSE Advance(Listener, "in_count")
  /\ UNCHANGED <<db, subs, history, trouble>>

\* Mutant: the profile of a sender is not requested.
InInsertPeerOnly ==
  /\ pc[Listener] = "in_insert_peer"
  /\ InsertPeer(acct[Listener].id, Author[evt[Listener]])
  /\ Advance(Listener, "in_insert")
  /\ UNCHANGED <<subs, history, trouble>>

InInsertPeer ==
  /\ pc[Listener] = "in_insert_peer"
  /\ InsertPeer(acct[Listener].id, Author[evt[Listener]])
  /\ Advance(Listener, "in_profile")
  /\ UNCHANGED <<subs, history, trouble>>

InProfile ==
  /\ pc[Listener] = "in_profile"
  /\ RequestProfile(Author[evt[Listener]])
  /\ Advance(Listener, "in_insert")
  /\ UNCHANGED <<db, history, trouble>>

InCount ==
  /\ pc[Listener] = "in_count"
  /\ IncrementUnread(acct[Listener].id, Author[evt[Listener]])
  /\ Advance(Listener, "in_insert")
  /\ UNCHANGED <<subs, history, trouble>>

\* Mutant: stored and not pushed, as _handle_outgoing_dms() does.
InInsertOnly ==
  /\ pc[Listener] = "in_insert"
  /\ \E t \in Texts :
       /\ Reads(acct[Listener], Author[evt[Listener]], t)
       /\ InsertDm([event |-> evt[Listener], acct |-> acct[Listener].id,
                    key |-> Author[evt[Listener]], text |-> t, incoming |-> TRUE])
  /\ Leave(Listener)
  /\ UNCHANGED <<subs, history, trouble>>

InInsert ==
  /\ pc[Listener] = "in_insert"
  /\ \E t \in Texts :
       /\ Reads(acct[Listener], Author[evt[Listener]], t)
       /\ InsertDm([event |-> evt[Listener], acct |-> acct[Listener].id,
                    key |-> Author[evt[Listener]], text |-> t, incoming |-> TRUE])
  /\ Advance(Listener, "in_reread")
  /\ UNCHANGED <<subs, history, trouble>>

\* Read back, then sent to the account's websocket; else the assertion fails.
InReread ==
  /\ pc[Listener] = "in_reread"
  /\ pushed' = IF DmsOfEvent(acct[Listener].id, evt[Listener]) = {} THEN pushed
               ELSE pushed \cup {[event |-> evt[Listener], acct |-> acct[Listener].id]}
  /\ Leave(Listener)
  /\ UNCHANGED <<db, subs, built, published, opened, trouble>>

\* _handle_outgoing_dms(): no peer is created, nothing is pushed.
OutInsert ==
  /\ pc[Listener] = "out_insert"
  /\ \E t \in Texts :
       /\ Reads(acct[Listener], PTag[evt[Listener]], t)
       /\ InsertDm([event |-> evt[Listener], acct |-> acct[Listener].id,
                    key |-> PTag[evt[Listener]], text |-> t, incoming |-> FALSE])
  /\ Advance(Listener, "out_reread")
  /\ UNCHANGED <<subs, history, trouble>>

OutReread ==
  /\ pc[Listener] = "out_reread"
  /\ Leave(Listener)
  /\ UNCHANGED <<db, subs, history, trouble>>

-----------------------------------------------------------------------------
(***************************************************************************)
(* Faults.  A statement raises: the handler's except clause answers 500,   *)
(* delete still runs its finally clause, the listener drops the event or,  *)
(* while subscribing, tries again.  Or the server crashes and restarts:    *)
(* the database stays, the connection and all it had subscribed is gone.   *)
(***************************************************************************)
Fault(p) ==
  /\ faults < MaxFaults
  /\ pc[p] \notin {"idle", "wait", "resub_close", "delete_close"}
  /\ \/ /\ pc[p] \in {"delete_find", "delete_dms", "delete_acct"}
        /\ Advance(p, "delete_keys")
     \/ /\ pc[p] \in {"listen_keys", "listen_put"}
        /\ Goto(p, "listen_keys") /\ NoLocals(p)
     \/ /\ pc[p] \notin {"delete_find", "delete_dms", "delete_acct",
                         "listen_keys", "listen_put"}
        /\ Leave(p)
  /\ failed' = (failed \/ p # Listener)
  /\ faults' = faults + 1
  /\ UNCHANGED <<db, subs, history>>

Crash ==
  /\ faults < MaxFaults
  /\ pc' = [p \in Procs |-> IF p = Listener THEN "listen_keys" ELSE "idle"]
  /\ call' = [p \in Procs |-> NoCall]
  /\ acct' = [p \in Procs |-> NoAcct]
  /\ evt' = [p \in Procs |-> NoEvent]
  /\ keys' = [p \in Procs |-> {}]
  /\ main' = {} /\ leaked' = {} /\ heard' = {} /\ profiled' = {}
  /\ failed' = FALSE /\ faults' = faults + 1
  /\ UNCHANGED <<db, history>>

-----------------------------------------------------------------------------
Serve(p) ==
  \/ CreateFindKey(p) \/ CreateFindUser(p) \/ CreateInsert(p) \/ CreateReread(p)
  \/ ResubClose(p) \/ ResubKeys(p) \/ ResubPut(p)
  \/ DeleteFind(p) \/ DeleteClose(p) \/ DeleteMessages(p) \/ DeleteAccount(p)
  \/ DeleteKeys(p) \/ DeletePut(p)
  \/ GetFind(p) \/ GetReset(p)
  \/ SendFind(p) \/ SendInsert(p) \/ SendReread(p)
  \/ PeerFind(p) \/ PeerGet(p) \/ PeerInsert(p) \/ PeerProfile(p)
  \/ RefreshFind(p)

Listen ==
  \/ ListenKeys \/ ListenPut
  \/ ByAuthor \/ ByTag
  \/ InGetPeer \/ InInsertPeer \/ InProfile \/ InCount \/ InInsert \/ InReread
  \/ OutInsert \/ OutReread

Relays == \/ \E e \in Events : Deliver(e)
          \/ \E k \in Pubkeys, t \in ProfileTimes : DeliverProfile(k, t)

Next ==
  \/ \E p \in Requests : Request(p) \/ Serve(p)
  \/ Listen
  \/ Relays
  \/ \E p \in Procs : Fault(p)
  \/ Crash

Spec == Init /\ [][Next]_vars

(***************************************************************************)
(* The event loop runs every task that is ready and the database answers   *)
(* every statement.  Nobody has to call the API and no relay has to send.  *)
(***************************************************************************)
Fairness == WF_vars(Listen) /\ \A p \in Requests : WF_vars(Serve(p))

FairSpec == Spec /\ Fairness

-----------------------------------------------------------------------------
(***************************************************************************)
(* Properties.                                                             *)
(***************************************************************************)
RequestPc ==
  {"idle", "create_find_key", "create_find_user", "create_insert", "create_reread",
   "resub_close", "resub_keys", "resub_put", "delete_find", "delete_close",
   "delete_dms", "delete_acct", "delete_keys", "delete_put", "get_find", "get_reset",
   "send_find", "send_insert", "send_reread", "peer_find", "peer_get", "peer_insert",
   "peer_profile", "refresh_find"}

ListenPc ==
  {"listen_keys", "listen_put", "wait", "by_author", "by_tag", "in_get_peer",
   "in_insert_peer", "in_profile", "in_count", "in_insert", "in_reread",
   "out_insert", "out_reread"}

\* Where nostracct is bound, and where the event in hand has an addressee.
HoldsAcct ==
  {"create_reread", "delete_close", "delete_dms", "delete_acct", "get_reset",
   "send_insert", "send_reread", "peer_get", "peer_insert", "peer_profile",
   "in_get_peer", "in_insert_peer", "in_profile", "in_count", "in_insert",
   "in_reread", "out_insert", "out_reread"}

HoldsEvent ==
  {"send_insert", "send_reread", "by_tag", "in_get_peer", "in_insert_peer",
   "in_profile", "in_count", "in_insert", "in_reread", "out_insert", "out_reread"}

LocalsOK ==
  /\ \A p \in Procs : pc[p] \in HoldsAcct => acct[p] \in issued
  /\ \A p \in Procs : pc[p] \in HoldsEvent =>
       evt[p] \in Events /\ PTag[evt[p]] # NoKey
  /\ \A p \in Requests : pc[p] \in {"send_insert", "send_reread"} => evt[p] \in built
  /\ pc[Listener] = "by_author" => evt[Listener] \in Events
  /\ \A p \in Requests : pc[p] # "idle" => call[p] \in CallType

\* Types, and what each program point of a handler knows of its locals: no
\* handler uses an account or an event it has not looked up.
TypeOK ==
  /\ issued \subseteq AcctRow /\ accts \subseteq issued
  /\ dms \subseteq DmRow
  /\ peers \subseteq PeerRow /\ IsFiniteSet(peers)
  /\ pc \in [Procs -> RequestPc \cup ListenPc]
  /\ pc[Listener] \in ListenPc /\ \A p \in Requests : pc[p] \in RequestPc
  /\ call \in [Procs -> CallType \cup {NoCall}]
  /\ acct \in [Procs -> AcctRow \cup {NoAcct}]
  /\ evt \in [Procs -> Events \cup {NoEvent}]
  /\ keys \in [Procs -> SUBSET Pubkeys]
  /\ main \subseteq SUBSET Pubkeys /\ leaked \subseteq SUBSET Pubkeys
  /\ heard \subseteq Pubkeys /\ profiled \subseteq Pubkeys
  /\ built \subseteq LocalEvents /\ published \subseteq built
  /\ pushed \subseteq [event : Events, acct : AcctIds]
  /\ opened \subseteq [acct : AcctIds, key : Pubkeys]
  /\ failed \in BOOLEAN /\ faults \in 0..MaxFaults
  /\ LocalsOK

\* Every incoming message belongs to a chat the user can see in the peer list:
\* its sender has a peer row, whatever runs between the two inserts of
\* _handle_incoming_dms() and whichever of them a fault prevents.
IncomingHasPeer ==
  \A d \in dms : d.incoming => PeersOf(d.acct, d.key) # {}

OpenFor(k) == \E s \in main \cup leaked : k \in s

\* Handlers that will read the keys of all accounts, and then subscribe.
ReadsAllKeys == {"resub_close", "resub_keys", "listen_keys", "delete_find",
                 "delete_close", "delete_dms", "delete_acct", "delete_keys"}

WillSubscribe(p, a) ==
  \/ pc[p] \in ReadsAllKeys
  \/ pc[p] = "create_reread" /\ acct[p] = a
  \/ pc[p] \in {"resub_put", "delete_put", "listen_put"} /\ a.key \in keys[p]

\* No account goes deaf: although handlers close each other's subscription and
\* subscribe with keys they read earlier, the key of every account is in a
\* subscription that is open, or in one a handler under way is bound to open.
\* A request cut short by a fault breaks this until the next restart.
Covered ==
  ~failed => \A a \in accts : OpenFor(a.key) \/ \E p \in Procs : WillSubscribe(p, a)

\* In a chat no browser has opened yet, the badge never shows fewer messages
\* than have arrived: the counter goes up before the message is stored.
UnreadCoversUnopened ==
  \A d \in dms :
    d.incoming /\ [acct |-> d.acct, key |-> d.key] \notin opened =>
      \E r \in PeersOf(d.acct, d.key) :
        r.unread >= Cardinality({m \in dms : m.incoming /\ m.acct = d.acct
                                                        /\ m.key = d.key})

\* Whoever adds a peer also asks the relays for its profile, or is about to.
ProfileRequested ==
  faults = 0 => \A r \in peers :
    \/ r.key \in profiled
    \/ \E p \in Requests : pc[p] = "peer_profile" /\ call[p].key = r.key
    \/ pc[Listener] = "in_profile" /\ Author[evt[Listener]] = r.key

\* Every incoming message that is stored is sent to the browsers' websocket of
\* the account it is stored for, or is about to be.
IncomingPushed ==
  faults = 0 => \A d \in dms : d.incoming =>
    \/ [event |-> d.event, acct |-> d.acct] \in pushed
    \/ pc[Listener] = "in_reread" /\ evt[Listener] = d.event /\ acct[Listener].id = d.acct

(***************************************************************************)
(* The server implements Mailbox: its table of messages is the box.        *)
(***************************************************************************)
Box == INSTANCE Mailbox WITH members <- issued, box <- dms, sent <- published

\* Whatever the handlers interleave and wherever faults cut them short, a
\* message is stored once, under the account and the peer it belongs to and with
\* the text its author wrote, and only what was read back from the table is
\* published.
ImplementsMailbox == Box!Spec

\* "A nostracct already exists for this user" (views_api.py:62).
OneAcctPerUser == \A a, b \in accts : a.user = b.user => a = b

\* "Newly created dm couldn't be retrieved" (crud.py:148), for the listener.
NewDmIsFound ==
  pc[Listener] \in {"in_reread", "out_reread"} =>
    DmsOfEvent(acct[Listener].id, evt[Listener]) # {}

HasAccount(k) == k \in AcctKeys
Stored(e)     == \E d \in dms : d.event = e

\* An account is subscribed for at last, however many requests keep closing
\* and reopening the subscription, unless it is deleted first.
EventuallyCovered == \A k \in Pubkeys : HasAccount(k) ~> (OpenFor(k) \/ ~HasAccount(k))

\* A message for an account that exists when the listener starts on it is
\* stored at last, unless the account is deleted meanwhile.
HandedOverIsStored ==
  \A e \in Events \ Garbled :
    (pc[Listener] = "by_author" /\ evt[Listener] = e /\ HasAccount(PTag[e]))
      ~> (Stored(e) \/ ~HasAccount(PTag[e]))

\* A message the user sent and the server stored is published at last, unless
\* the account's messages are deleted meanwhile.
StoredIsPublished ==
  \A e \in LocalEvents : Stored(e) ~> (e \in published \/ ~Stored(e))
=============================================================================
