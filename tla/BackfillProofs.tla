--------------------------- MODULE BackfillProofs ---------------------------
(***************************************************************************)
(* Theorems about Backfill, for any accounts, messages, losses and calls:  *)
(*                                                                         *)
(*   TypeCorrect      Spec => []TypeOK                                     *)
(*   OlderAtMost      Spec => []OnlyOlderMissed                            *)
(*   AllArrive        Spec => []NothingMissed                              *)
(*                                                                         *)
(* OnlyOlderMissed needs to know two things of the filters: that none asks *)
(* for less than what is newer than the newest message (SinceOK), and that *)
(* every account is in one, or will be (KeysOK).  NothingMissed follows    *)
(* from it once nothing that waits is older than the newest message        *)
(* (WaitingOK), which holds until something goes wrong.  A message whose   *)
(* handling raised waits as well, until the connection ends.               *)
(***************************************************************************)
EXTENDS Backfill, TLAPS

USE BackfillAssumption

\* Wanted brings messages on the current connection.
LEMMA WantedTyped ==
  ASSUME NEW M \in SUBSET Msgs, NEW F, TypeOK
  PROVE  Wanted(F, M) \subseteq [msg : Msgs, conn : 1..conn]
BY DEF Wanted, TypeOK

\* The newest created_at in the table is a number.
LEMMA LastTyped ==
  ASSUME TypeOK
  PROVE  LastCreatedAt \subseteq Nat
BY DEF TypeOK, LastCreatedAt, BackfillAssumption

\* Storing a message for an account keeps the types.
LEMMA StoreTyped ==
  ASSUME TypeOK, NEW m \in Msgs, NEW k \in accts, Store(m, k)
  PROVE  /\ stored' \subseteq [msg : Msgs, key : Keys]
         /\ newest' \in Nat /\ orderly' \in BOOLEAN
<1>1. stored' \subseteq [msg : Msgs, key : Keys]
  BY DEF Store, TypeOK
<1>2. newest' \in Nat
  BY DEF Store, TypeOK, Later, BackfillAssumption
<1>3. orderly' \in BOOLEAN
  BY DEF Store
<1>4. QED BY <1>1, <1>2, <1>3

\* Unsubscribe drops messages and opens nothing.
LEMMA UnsubscribeTyped ==
  ASSUME TypeOK, Unsubscribe
  PROVE  /\ main' \subseteq Filter /\ leaked' \subseteq Filter /\ temps' \subseteq Filter
         /\ wire' \subseteq [msg : Msgs, conn : 1..conn] /\ orderly' \in BOOLEAN
<1>1. main' \subseteq Filter /\ leaked' \subseteq Filter /\ temps' \subseteq Filter
  BY DEF Unsubscribe, TypeOK
<1>2. wire' \subseteq [msg : Msgs, conn : 1..conn]
  BY DEF Unsubscribe, TypeOK, Left
<1>3. orderly' \in BOOLEAN
  BY DEF Unsubscribe
<1>4. QED BY <1>1, <1>2, <1>3

-----------------------------------------------------------------------------
\* Every variable has its type, and the listener is never where a handler is.
LEMMA TypeInit == Init => TypeOK
<1> SUFFICES ASSUME Init PROVE TypeOK
  OBVIOUS
<1>1. /\ stage \in [Procs -> Stages] /\ stage[Listener] \in {"idle", "keys", "since", "put"}
      /\ keys \in [Procs -> SUBSET Keys] /\ since \in [Procs -> Nat]
  BY DEF Init, Stages, Procs
<1>2. /\ accts \subseteq Keys /\ calls \in 0..MaxCalls /\ losses \in 0..MaxLosses
      /\ newest \in Nat /\ conn \in Nat /\ reading \in 1..conn
  BY BackfillAssumption DEF Init, BackfillAssumption
<1>3. QED BY <1>1, <1>2 DEF Init, TypeOK

\* Messages that are posted, delivered or sent keep the types.
LEMMA TypeMessages ==
  ASSUME TypeOK, NEW m \in Msgs, Post(m) \/ Deliver(m) \/ DropMessage(m) \/ SendMessage(m)
  PROVE  TypeOK'
<1> USE DEF TypeOK, vars, table, filters, link, locals, history, counts
<1>1. CASE Post(m)
  <2>1. wire' \subseteq [msg : Msgs, conn : 1..conn]
    BY <1>1, WantedTyped DEF Post
  <2>2. relays' \subseteq Msgs /\ orderly' \in BOOLEAN
    BY <1>1 DEF Post
  <2>3. QED BY <1>1, <2>1, <2>2 DEF Post
<1>2. CASE Deliver(m)
  <2>1. /\ stored' \subseteq [msg : Msgs, key : Keys]
        /\ newest' \in Nat /\ orderly' \in BOOLEAN
    <3>1. CASE Author[m] \in accts
      BY <1>2, <3>1, StoreTyped DEF Deliver
    <3>2. CASE Author[m] \notin accts /\ PTag[m] \in accts
      BY <1>2, <3>2, StoreTyped DEF Deliver
    <3>3. CASE Author[m] \notin accts /\ PTag[m] \notin accts
      BY <1>2, <3>3 DEF Deliver
    <3>4. QED BY <3>1, <3>2, <3>3
  <2>2. wire' \subseteq [msg : Msgs, conn : 1..conn]
    BY <1>2 DEF Deliver
  <2>3. QED BY <1>2, <2>1, <2>2 DEF Deliver
<1>3. CASE SendMessage(m)
  <2>1. /\ stored' \subseteq [msg : Msgs, key : Keys]
        /\ newest' \in Nat /\ orderly' \in BOOLEAN
    BY <1>3, StoreTyped DEF SendMessage
  <2>2. wire' \subseteq [msg : Msgs, conn : 1..conn]
    BY <1>3, WantedTyped DEF SendMessage
  <2>3. relays' \subseteq Msgs
    BY <1>3 DEF SendMessage
  <2>4. QED BY <1>3, <2>1, <2>2, <2>3 DEF SendMessage
<1>4. CASE DropMessage(m)
  <2>1. wire' \subseteq [msg : Msgs, conn : 1..conn] /\ dropped' \subseteq Msgs
    BY <1>4 DEF DropMessage
  <2>2. orderly' \in BOOLEAN
    BY <1>4 DEF DropMessage
  <2>3. QED BY <1>4, <2>1, <2>2 DEF DropMessage
<1>5. QED BY <1>1, <1>2, <1>3, <1>4

\* Subscribing keeps the types.
LEMMA TypeServe ==
  ASSUME TypeOK, NEW p \in Procs, Serve(p)
  PROVE  TypeOK'
<1> USE DEF TypeOK, vars, table, filters, link, locals, history, counts, Goto, Stages, Procs
<1>1. CASE ReadKeys(p)
  BY <1>1 DEF ReadKeys
<1>2. CASE ReadSince(p)
  BY <1>2, LastTyped DEF ReadSince
<1>3. CASE Put(p)
  <2> DEFINE f == [keys |-> keys[p], since |-> since[p]]
  <2>1. f \in Filter
    BY DEF Filter
  <2>2. wire' \subseteq [msg : Msgs, conn : 1..conn]
    <3>1. Wanted({f}, relays) \subseteq [msg : Msgs, conn : 1..conn]
      BY WantedTyped
    <3>2. QED BY <1>3, <3>1 DEF Put
  <2>3. main' \subseteq Filter /\ leaked' \subseteq Filter
    BY <1>3, <2>1 DEF Put
  <2>4. stage' \in [Procs -> Stages] /\ stage'[Listener] \in {"idle", "keys", "since", "put"}
    BY <1>3 DEF Put
  <2>5. deaf' \in BOOLEAN /\ keys' \in [Procs -> SUBSET Keys] /\ since' \in [Procs -> Nat]
    BY <1>3 DEF Put
  <2>6. QED BY <1>3, <2>2, <2>3, <2>4, <2>5 DEF Put
<1>4. QED BY <1>1, <1>2, <1>3 DEF Serve

\* What a handler does keeps the types.
LEMMA TypeHandle ==
  ASSUME TypeOK,
         Handle \/ \E k \in Keys : CreateAccount(k) \/ RefreshAccount(k) \/ DeleteFind(k)
  PROVE  TypeOK'
<1> USE DEF TypeOK, vars, table, filters, link, locals, history, counts, Goto, Stages, Procs
<1>1. ASSUME NEW k \in Keys, CreateAccount(k) PROVE TypeOK'
  BY <1>1, BackfillAssumption DEF CreateAccount, Call, BackfillAssumption
<1>2. ASSUME NEW k \in Keys, RefreshAccount(k) PROVE TypeOK'
  BY <1>2, BackfillAssumption DEF RefreshAccount, Call, BackfillAssumption
<1>3. ASSUME NEW k \in Keys, DeleteFind(k) PROVE TypeOK'
  <2>1. /\ main' \subseteq Filter /\ leaked' \subseteq Filter /\ temps' \subseteq Filter
        /\ wire' \subseteq [msg : Msgs, conn : 1..conn] /\ orderly' \in BOOLEAN
    BY <1>3, UnsubscribeTyped DEF DeleteFind
  <2>2. calls' \in 0..MaxCalls
    BY <1>3, BackfillAssumption DEF DeleteFind, Call, BackfillAssumption
  <2>3. stage' \in [Procs -> Stages] /\ stage'[Listener] \in {"idle", "keys", "since", "put"}
    BY <1>3, BackfillAssumption DEF DeleteFind, BackfillAssumption
  <2>4. QED BY <1>3, <2>1, <2>2, <2>3 DEF DeleteFind
<1>4. CASE CloseFirst
  <2>1. /\ main' \subseteq Filter /\ leaked' \subseteq Filter /\ temps' \subseteq Filter
        /\ wire' \subseteq [msg : Msgs, conn : 1..conn] /\ orderly' \in BOOLEAN
    BY <1>4, UnsubscribeTyped DEF CloseFirst
  <2>2. stage' \in [Procs -> Stages] /\ stage'[Listener] \in {"idle", "keys", "since", "put"}
    BY <1>4, BackfillAssumption DEF CloseFirst, BackfillAssumption
  <2>3. QED BY <1>4, <2>1, <2>2 DEF CloseFirst
<1>5. CASE TempSubscribe
  <2> DEFINE f == [keys |-> account, since |-> 0]
  <2>1. f \in Filter
    BY DEF Filter
  <2>2. Wanted({f}, relays) \subseteq [msg : Msgs, conn : 1..conn]
    BY WantedTyped
  <2>3. temps' \subseteq Filter /\ wire' \subseteq [msg : Msgs, conn : 1..conn]
    BY <1>5, <2>1, <2>2 DEF TempSubscribe
  <2>4. stage' \in [Procs -> Stages] /\ stage'[Listener] \in {"idle", "keys", "since", "put"}
    BY <1>5, BackfillAssumption DEF TempSubscribe, BackfillAssumption
  <2>5. QED BY <1>5, <2>3, <2>4 DEF TempSubscribe
<1>6. CASE DeleteMessages
  BY <1>6, BackfillAssumption DEF DeleteMessages, BackfillAssumption
<1>7. CASE DeleteAccount
  BY <1>7, BackfillAssumption DEF DeleteAccount, BackfillAssumption
<1>8. QED BY <1>1, <1>2, <1>3, <1>4, <1>5, <1>6, <1>7 DEF Handle

\* A DELETE that is refused and statements that raise keep the types.
LEMMA TypeRaise ==
  ASSUME TypeOK, DeleteRefused \/ ListenerRaise \/ DeleteRaise \/ GiveUp
  PROVE  TypeOK'
<1> USE BackfillAssumption DEF TypeOK, table, filters, link, history, counts, Goto, Stages,
                               Procs, BackfillAssumption
<1>1. CASE DeleteRefused
  <2>1. calls' \in 0..MaxCalls
    BY <1>1 DEF DeleteRefused, Call
  <2>2. QED BY <1>1, <2>1 DEF DeleteRefused
<1>2. ASSUME Fail PROVE losses' \in 0..MaxLosses
  BY <1>2 DEF Fail
<1>3. CASE ListenerRaise
  BY <1>2, <1>3 DEF ListenerRaise
<1>4. CASE DeleteRaise
  BY <1>2, <1>4 DEF DeleteRaise
<1>5. CASE GiveUp
  BY <1>2, <1>5 DEF GiveUp
<1>6. QED BY <1>1, <1>3, <1>4, <1>5

\* The end of a temporary subscription, and what happens to the connection, keep
\* the types.
LEMMA TypeLink ==
  ASSUME TypeOK, (\E f \in temps : TempExpire(f)) \/ Connect \/ Lose \/ Resubscribe \/ Crash
  PROVE  TypeOK'
<1> USE DEF TypeOK, vars, table, filters, link, locals, history, counts
<1>1. ASSUME NEW f \in temps, TempExpire(f) PROVE TypeOK'
  <2>1. wire' \subseteq [msg : Msgs, conn : 1..conn] /\ temps' \subseteq Filter
    BY <1>1 DEF TempExpire, Left
  <2>2. orderly' \in BOOLEAN
    BY <1>1 DEF TempExpire
  <2>3. QED BY <1>1, <2>1, <2>2 DEF TempExpire
<1>2. CASE Connect
  BY <1>2 DEF Connect
<1>3. CASE Lose
  <2>1. wire' \subseteq wire
    BY <1>3 DEF Lose, Left
  <2>2. wire' \subseteq [msg : Msgs, conn : 1..conn'] /\ conn' \in Nat /\ reading' \in 1..conn'
    BY <1>3, <2>1 DEF Lose
  <2>3. losses' \in 0..MaxLosses
    BY <1>3, BackfillAssumption DEF Lose, BackfillAssumption
  <2>4. orderly' \in BOOLEAN
    BY <1>3 DEF Lose
  <2>5. QED BY <1>3, <2>2, <2>3, <2>4 DEF Lose
<1>4. CASE Resubscribe
  BY <1>4 DEF Resubscribe, Goto, Stages, Procs
<1>5. CASE Crash
  <2>1. losses' \in 0..MaxLosses
    BY <1>5, BackfillAssumption DEF Crash, BackfillAssumption
  <2>2. stage' \in [Procs -> Stages] /\ stage'[Listener] \in {"idle", "keys", "since", "put"}
    BY <1>5 DEF Crash, Stages, Procs
  <2>3. conn' \in Nat /\ reading' \in 1..conn' /\ orderly' \in BOOLEAN
    BY <1>5 DEF Crash
  <2>4. QED BY <1>5, <2>1, <2>2, <2>3 DEF Crash
<1>6. QED BY <1>1, <1>2, <1>3, <1>4, <1>5

\* Every step keeps the types.
LEMMA TypeNext == TypeOK /\ [Next]_vars => TypeOK'
<1> SUFFICES ASSUME TypeOK, [Next]_vars PROVE TypeOK'
  OBVIOUS
<1>1. CASE \E m \in Msgs : Post(m) \/ Deliver(m) \/ DropMessage(m) \/ SendMessage(m)
  BY <1>1, TypeMessages
<1>2. CASE \E p \in Procs : Serve(p)
  BY <1>2, TypeServe
<1>3. CASE \/ Handle
           \/ \E k \in Keys : CreateAccount(k) \/ RefreshAccount(k) \/ DeleteFind(k)
  BY <1>3, TypeHandle
<1>4. CASE (\E f \in temps : TempExpire(f)) \/ Connect \/ Lose \/ Resubscribe \/ Crash
  BY <1>4, TypeLink
<1>5. CASE UNCHANGED vars
  BY <1>5 DEF TypeOK, vars, table, filters, link, locals, history, counts
<1>6. CASE DeleteRefused \/ ListenerRaise \/ DeleteRaise \/ GiveUp
  BY <1>6, TypeRaise
<1>7. QED BY <1>1, <1>2, <1>3, <1>4, <1>5, <1>6 DEF Next

\* The state is of the types the code's tables, queues and locals have, and the
\* listener is never in the middle of a handler.
THEOREM TypeCorrect == Spec => []TypeOK
<1>1. QED BY TypeInit, TypeNext, PTL DEF Spec
-----------------------------------------------------------------------------
\* No account's filter, open or about to be, leaves out what was created since
\* the newest message, and the table holds no newer one.
SinceOK ==
  /\ \A f \in main \cup leaked : f.since <= newest
  /\ \A p \in Procs : since[p] <= newest
  /\ \A r \in stored : Time[r.msg] <= newest

\* Storing a message raises the newest created_at to its own.
LEMMA StoreSince ==
  ASSUME TypeOK, SinceOK, NEW m \in Msgs, NEW k \in accts, Store(m, k)
  PROVE  newest <= newest' /\ newest' \in Nat /\ \A r \in stored' : Time[r.msg] <= newest'
<1> USE BackfillAssumption DEF BackfillAssumption, TypeOK
<1>1. newest' \in Nat /\ newest <= newest' /\ Time[m] <= newest'
  BY DEF Store, Later
<1>2. ASSUME NEW r \in stored' PROVE Time[r.msg] <= newest'
  <2>1. CASE r \in stored
    <3>1. Time[r.msg] <= newest /\ Time[r.msg] \in Nat
      BY <2>1 DEF SinceOK
    <3>2. QED BY <3>1, <1>1
  <2>2. CASE r = [msg |-> m, key |-> k]
    BY <2>2, <1>1
  <2>3. QED BY <1>2, <2>1, <2>2 DEF Store
<1>3. QED BY <1>1, <1>2

\* A higher bound holds for what is not changed.
LEMMA SinceRaised ==
  ASSUME TypeOK, SinceOK, newest' \in Nat, newest <= newest',
         UNCHANGED <<main, leaked, since>>, \A r \in stored' : Time[r.msg] <= newest'
  PROVE  SinceOK'
<1>1. \A f \in main \cup leaked : f.since \in Nat
  BY DEF TypeOK, Filter
<1>2. \A f \in (main \cup leaked)' : f.since <= newest'
  BY <1>1 DEF TypeOK, SinceOK
<1>3. \A p \in Procs : since'[p] <= newest'
  BY DEF TypeOK, SinceOK
<1>4. QED BY <1>2, <1>3 DEF SinceOK, Procs

\* Every step keeps SinceOK.
LEMMA SinceNext == TypeOK /\ SinceOK /\ [Next]_vars => SinceOK'
<1> SUFFICES ASSUME TypeOK, SinceOK, [Next]_vars PROVE SinceOK'
  OBVIOUS
<1> USE DEF vars, table, filters, link, locals, history, counts
<1>1. ASSUME NEW m \in Msgs, Post(m) PROVE SinceOK'
  BY <1>1 DEF Post, SinceOK, Procs
<1>2. ASSUME NEW m \in Msgs, Deliver(m) PROVE SinceOK'
  <2>1. CASE Parties(m) \cap accts = {} /\ UNCHANGED <<stored, newest, orderly>>
    BY <1>2, <2>1 DEF Deliver, SinceOK, Procs
  <2>2. ASSUME NEW k \in accts, Store(m, k) PROVE SinceOK'
    BY <1>2, <2>2, StoreSince, SinceRaised DEF Deliver
  <2>3. QED BY <1>2, <2>1, <2>2 DEF Deliver
<1>3. ASSUME NEW m \in Msgs, SendMessage(m) PROVE SinceOK'
  BY <1>3, StoreSince, SinceRaised DEF SendMessage
<1>4. ASSUME NEW p \in Procs, ReadKeys(p) PROVE SinceOK'
  BY <1>4 DEF ReadKeys, SinceOK, Procs
<1>5. ASSUME NEW p \in Procs, ReadSince(p) PROVE SinceOK'
  <2>1. PICK t \in LastCreatedAt : since' = [since EXCEPT ![p] = t]
    BY <1>5 DEF ReadSince
  <2>2. t <= newest
    BY BackfillAssumption DEF LastCreatedAt, SinceOK, TypeOK, BackfillAssumption
  <2>3. \A q \in Procs : since'[q] <= newest
    BY <2>1, <2>2 DEF SinceOK, TypeOK
  <2>4. QED BY <1>5, <2>3 DEF ReadSince, SinceOK, Procs
<1>6. ASSUME NEW p \in Procs, Put(p) PROVE SinceOK'
  <2>1. \A f \in (main \cup leaked)' : f.since <= newest
    BY <1>6 DEF Put, SinceOK
  <2>2. \A q \in Procs : since'[q] <= newest
    BY <1>6 DEF Put, SinceOK, TypeOK
  <2>3. QED BY <1>6, <2>1, <2>2 DEF Put, SinceOK, Procs
<1>7. ASSUME NEW k \in Keys, CreateAccount(k) \/ RefreshAccount(k) PROVE SinceOK'
  BY <1>7 DEF CreateAccount, RefreshAccount, SinceOK, Procs
<1>8. ASSUME NEW k \in Keys, DeleteFind(k) PROVE SinceOK'
  BY <1>8 DEF DeleteFind, Unsubscribe, SinceOK, Procs
<1>9. CASE CloseFirst
  BY <1>9 DEF CloseFirst, Unsubscribe, SinceOK, Procs
<1>10. CASE TempSubscribe
  BY <1>10 DEF TempSubscribe, SinceOK, Procs
<1>11. CASE DeleteMessages \/ DeleteAccount
  BY <1>11 DEF DeleteMessages, DeleteAccount, SinceOK, Procs
<1>12. ASSUME NEW f \in temps, TempExpire(f) PROVE SinceOK'
  BY <1>12 DEF TempExpire, SinceOK, Procs
<1>13. CASE Connect \/ Resubscribe
  BY <1>13 DEF Connect, Resubscribe, SinceOK, Procs
<1>14. CASE Lose
  BY <1>14 DEF Lose, SinceOK, Procs
<1>15. CASE Crash
  BY <1>15 DEF Crash, SinceOK, Procs, TypeOK
<1>16. CASE UNCHANGED vars
  BY <1>16 DEF SinceOK, Procs
<1>17. ASSUME NEW m \in Msgs, DropMessage(m) PROVE SinceOK'
  BY <1>17 DEF DropMessage, SinceOK, Procs
<1>18. CASE DeleteRefused \/ ListenerRaise \/ DeleteRaise \/ GiveUp
  BY <1>18 DEF DeleteRefused, ListenerRaise, DeleteRaise, GiveUp, SinceOK, Procs
<1>19. QED
  BY <1>1, <1>2, <1>3, <1>4, <1>5, <1>6, <1>7, <1>8, <1>9, <1>10, <1>11, <1>12, <1>13,
     <1>14, <1>15, <1>16, <1>17, <1>18 DEF Next, Serve, Handle

-----------------------------------------------------------------------------
\* Unless a request was lost or a handler gave up, every account is in a filter, or
\* will be.
KeysOK ==
  ~deaf => \A k \in accts : WillSubscribe(k) \/ \E f \in main \cup leaked : k \in f.keys

\* A step that changes neither accounts, filters nor who will subscribe.
LEMMA KeysKept ==
  ASSUME TypeOK, KeysOK,
         UNCHANGED <<accts, main, leaked, link, locals, deaf>>
  PROVE  KeysOK'
BY DEF KeysOK, WillSubscribe, link, locals

\* When every account is about to be subscribed for.
LEMMA KeysComing ==
  ASSUME \A k \in accts' : WillSubscribe(k)'
  PROVE  KeysOK'
BY DEF KeysOK

\* Every step keeps KeysOK.
LEMMA KeysNext == TypeOK /\ KeysOK /\ [Next]_vars => KeysOK'
<1> SUFFICES ASSUME TypeOK, KeysOK, [Next]_vars PROVE KeysOK'
  OBVIOUS
<1> USE DEF vars, table, filters, link, locals, history, counts
<1>1. ASSUME NEW m \in Msgs, Post(m) \/ Deliver(m) \/ DropMessage(m) \/ SendMessage(m) PROVE KeysOK'
  BY <1>1, KeysKept DEF Post, Deliver, DropMessage, SendMessage
<1>2. ASSUME NEW p \in Procs, ReadKeys(p) PROVE KeysOK'
  BY <1>2, KeysComing DEF ReadKeys, Goto, TypeOK, Procs, WillSubscribe
<1>3. ASSUME NEW p \in Procs, ReadSince(p) PROVE KeysOK'
  BY <1>3 DEF ReadSince, Goto, TypeOK, Procs, WillSubscribe, KeysOK
<1>4. ASSUME NEW p \in Procs, Put(p) PROVE KeysOK'
  <2>1. CASE ~up
    BY <1>4, <2>1 DEF Put, KeysOK
  <2>2. CASE up
    <3>1. SUFFICES ASSUME ~deaf, NEW k \in accts
                   PROVE  WillSubscribe(k)' \/ \E g \in (main \cup leaked)' : k \in g.keys
      BY <1>4, <2>2, <3>1 DEF Put, KeysOK
    <3> DEFINE f == [keys |-> keys[p], since |-> since[p]]
    <3>2. CASE k \in keys[p]
      <4>1. main' = {f} /\ k \in f.keys
        BY <1>4, <2>2, <3>2 DEF Put
      <4>2. QED BY <4>1
    <3>3. CASE WillSubscribe(k) /\ k \notin keys[p]
      BY <1>4, <3>3 DEF Put, Goto, TypeOK, Procs, WillSubscribe
    <3>4. CASE \E g \in main \cup leaked : k \in g.keys
      BY <1>4, <2>2, <3>4 DEF Put
    <3>5. QED BY <3>1, <3>2, <3>3, <3>4 DEF KeysOK
  <2>3. QED BY <2>1, <2>2 DEF TypeOK
<1>5. ASSUME NEW k \in Keys, CreateAccount(k) PROVE KeysOK'
  BY <1>5, KeysComing DEF CreateAccount, Goto, TypeOK, Procs, WillSubscribe
<1>6. ASSUME NEW k \in Keys, RefreshAccount(k) PROVE KeysOK'
  BY <1>6 DEF RefreshAccount, Call, Goto, TypeOK, Procs, WillSubscribe, KeysOK
<1>7. ASSUME NEW k \in Keys, DeleteFind(k) PROVE KeysOK'
  BY <1>7, KeysComing DEF DeleteFind, Goto, TypeOK, Procs, WillSubscribe
<1>8. CASE CloseFirst
  BY <1>8, KeysComing DEF CloseFirst, Goto, TypeOK, Procs, WillSubscribe
<1>9. CASE TempSubscribe
  BY <1>9 DEF TempSubscribe, Goto, TypeOK, Procs, WillSubscribe, KeysOK
<1>10. CASE DeleteMessages \/ DeleteAccount
  BY <1>10, KeysComing DEF DeleteMessages, DeleteAccount, Goto, TypeOK, Procs, WillSubscribe
<1>11. ASSUME NEW f \in temps, TempExpire(f) PROVE KeysOK'
  BY <1>11, KeysKept DEF TempExpire
<1>12. CASE Connect
  BY <1>12 DEF Connect, KeysOK, WillSubscribe
<1>13. CASE Lose
  BY <1>13, KeysComing DEF Lose, TypeOK, WillSubscribe
<1>14. CASE Resubscribe
  BY <1>14, KeysComing DEF Resubscribe, Goto, TypeOK, Procs, WillSubscribe
<1>15. CASE Crash
  BY <1>15, KeysComing DEF Crash, Procs, WillSubscribe
<1>16. CASE UNCHANGED vars
  BY <1>16, KeysKept
<1>17. CASE DeleteRefused \/ ListenerRaise \/ DeleteRaise
  BY <1>17, KeysComing DEF DeleteRefused, ListenerRaise, DeleteRaise, Goto, TypeOK, Procs,
                           WillSubscribe
<1>18. CASE GiveUp
  BY <1>18 DEF GiveUp, KeysOK
<1>19. QED
  BY <1>1, <1>2, <1>3, <1>4, <1>5, <1>6, <1>7, <1>8, <1>9, <1>10, <1>11, <1>12, <1>13,
     <1>14, <1>15, <1>16, <1>17, <1>18 DEF Next, Serve, Handle

-----------------------------------------------------------------------------
\* What OnlyOlderMissed says of one message and one account.
Reached(m, k) == IsStored(m) \/ UnderWay(m) \/ WillSubscribe(k) \/ m \in dropped

\* A step that keeps what is stored, under way and coming keeps OnlyOlderMissed.
LEMMA MissedKept ==
  ASSUME TypeOK, OnlyOlderMissed, accts' \subseteq accts, relays' \subseteq Msgs,
         deaf' = deaf, newest <= newest', newest' \in Nat,
         \A m \in relays', k \in accts' :
           /\ k \in Parties(m) /\ newest <= Time[m] /\ ~deaf
           /\ m \in relays => Reached(m, k)
           => Reached(m, k)'
  PROVE  OnlyOlderMissed'
<1> SUFFICES ASSUME NEW m \in relays', NEW k \in accts',
                    k \in Parties(m), newest' <= Time[m], ~deaf
             PROVE  Reached(m, k)'
  BY DEF OnlyOlderMissed, Reached, Parties
<1>1. newest <= Time[m]
  BY BackfillAssumption DEF TypeOK, BackfillAssumption
<1>2. m \in relays => Reached(m, k)
  BY <1>1 DEF OnlyOlderMissed, Reached
<1>3. QED BY <1>1, <1>2

\* What was stored, under way or coming is so after a step that takes nothing away.
LEMMA ReachedKept ==
  ASSUME NEW m, NEW k, Reached(m, k), stored \subseteq stored', wire \subseteq wire',
         dropped \subseteq dropped', WillSubscribe(k) => WillSubscribe(k)'
  PROVE  Reached(m, k)'
BY DEF Reached, IsStored, UnderWay

\* When every account is about to be subscribed for.
LEMMA MissedComing ==
  ASSUME \A k \in accts' : WillSubscribe(k)'
  PROVE  OnlyOlderMissed'
BY DEF OnlyOlderMissed

\* An account's filter asks for what was created since the newest message.
LEMMA FilterMatches ==
  ASSUME TypeOK, SinceOK, NEW m \in Msgs, NEW k \in Parties(m), newest <= Time[m],
         NEW f \in main \cup leaked, k \in f.keys
  PROVE  Matches(f, m)
<1>1. f.since <= newest /\ f.since \in Nat
  BY DEF SinceOK, TypeOK, Filter
<1>2. Time[m] >= f.since
  BY <1>1, BackfillAssumption DEF TypeOK, BackfillAssumption
<1>3. QED BY <1>2 DEF Matches

\* A message that is posted is brought by the filter its account is in.
LEMMA PostReached ==
  ASSUME TypeOK, SinceOK, KeysOK, NEW m \in Msgs, NEW k \in accts, k \in Parties(m),
         newest <= Time[m], ~deaf, UNCHANGED <<link, locals>>,
         wire' = wire \cup Wanted(main \cup leaked \cup temps, {m})
  PROVE  Reached(m, k)'
<1>1. CASE WillSubscribe(k)
  BY <1>1 DEF Reached, WillSubscribe, link, locals
<1>2. ASSUME NEW f \in main \cup leaked, k \in f.keys PROVE UnderWay(m)'
  <2>1. Matches(f, m)
    BY <1>2, FilterMatches
  <2>2. [msg |-> m, conn |-> conn] \in wire'
    BY <2>1 DEF Wanted
  <2>3. QED BY <2>2 DEF UnderWay
<1>3. QED BY <1>1, <1>2 DEF KeysOK, Reached

\* Storing a message takes none away.
LEMMA StoreKeeps ==
  ASSUME NEW m, NEW k, Store(m, k)
  PROVE  stored \subseteq stored' /\ IsStored(m)'
<1>1. CASE IsStored(m)
  BY <1>1 DEF Store, IsStored
<1>2. CASE ~IsStored(m)
  <2>1. [msg |-> m, key |-> k] \in stored' /\ stored \subseteq stored'
    BY <1>2 DEF Store
  <2>2. [msg |-> m, key |-> k].msg = m
    OBVIOUS
  <2>3. QED BY <2>1, <2>2 DEF IsStored
<1>3. QED BY <1>1, <1>2

\* A message that is posted, delivered, dropped or sent keeps OnlyOlderMissed.
LEMMA MissedMessages ==
  ASSUME TypeOK, SinceOK, KeysOK, OnlyOlderMissed,
         NEW m \in Msgs, Post(m) \/ Deliver(m) \/ DropMessage(m) \/ SendMessage(m)
  PROVE  OnlyOlderMissed'
<1> USE DEF vars, table, filters, counts
<1>1. /\ UNCHANGED <<accts, link, locals, deaf>> /\ relays' \subseteq Msgs
      /\ dropped \subseteq dropped'
  BY DEF Post, Deliver, DropMessage, SendMessage, TypeOK, history
<1>2. newest <= newest' /\ newest' \in Nat
  <2>1. CASE newest' = newest
    BY <2>1 DEF TypeOK
  <2>2. ASSUME NEW k \in accts, Store(m, k) PROVE newest <= newest' /\ newest' \in Nat
    BY <2>2, StoreSince
  <2>3. QED BY <2>1, <2>2 DEF Post, Deliver, DropMessage, SendMessage
<1>3. ASSUME NEW n \in relays', NEW k \in accts', k \in Parties(n), newest <= Time[n], ~deaf,
             n \in relays => Reached(n, k)
      PROVE  Reached(n, k)'
  <2>1. WillSubscribe(k) => WillSubscribe(k)'
    BY <1>1 DEF WillSubscribe, link, locals
  <2>2. CASE Post(m)
    <3>1. CASE n = m
      BY <1>1, <1>3, <2>2, <3>1, PostReached DEF Post
    <3>2. CASE n # m
      BY <1>1, <1>3, <2>1, <2>2, <3>2, ReachedKept DEF Post
    <3>3. QED BY <3>1, <3>2
  <2>3. CASE Deliver(m)
    <3>1. n \in relays /\ k \in accts
      BY <1>3, <2>3 DEF Deliver
    <3>2. CASE n = m
      <4>1. PICK a \in accts : Store(m, a)
        BY <1>3, <2>3, <3>1, <3>2 DEF Deliver, Parties
      <4>2. QED BY <3>2, <4>1, StoreKeeps DEF Reached
    <3>3. CASE n # m
      <4>1. stored \subseteq stored'
        BY <2>3, StoreKeeps DEF Deliver
      <4>2. UnderWay(n) => UnderWay(n)'
        BY <2>3, <3>3 DEF Deliver, UnderWay
      <4>3. QED BY <1>1, <1>3, <2>1, <3>1, <4>1, <4>2 DEF Reached, IsStored
    <3>4. QED BY <3>2, <3>3
  <2>4. CASE SendMessage(m)
    <3>1. stored \subseteq stored' /\ IsStored(m)'
      BY <2>4, StoreKeeps DEF SendMessage
    <3>2. wire \subseteq wire' /\ (n # m => n \in relays)
      BY <1>3, <2>4 DEF SendMessage
    <3>3. QED BY <1>1, <1>3, <2>1, <3>1, <3>2, ReachedKept DEF Reached
  <2>5. CASE DropMessage(m)
    <3>1. n \in relays /\ UNCHANGED stored
      BY <1>3, <2>5 DEF DropMessage
    <3>2. CASE n = m /\ reading = conn
      BY <2>5, <3>2 DEF DropMessage, Reached
    <3>3. CASE n = m /\ reading # conn
      <4>1. WillSubscribe(k)
        BY <3>3 DEF WillSubscribe, TypeOK
      <4>2. QED BY <2>1, <4>1 DEF Reached
    <3>4. CASE n # m
      <4>1. UnderWay(n) => UnderWay(n)'
        BY <2>5, <3>4 DEF DropMessage, UnderWay
      <4>2. QED BY <1>1, <1>3, <2>1, <3>1, <4>1 DEF Reached, IsStored
    <3>5. QED BY <3>2, <3>3, <3>4
  <2>6. QED BY <2>2, <2>3, <2>4, <2>5
<1>4. QED BY <1>1, <1>2, <1>3, MissedKept

\* Subscribing for all accounts keeps OnlyOlderMissed.
LEMMA MissedServe ==
  ASSUME TypeOK, SinceOK, OnlyOlderMissed, NEW p \in Procs, Serve(p)
  PROVE  OnlyOlderMissed'
<1> USE DEF vars, table, filters, link, counts
<1>1. UNCHANGED <<accts, relays, stored, newest, dropped>> /\ wire \subseteq wire'
  BY DEF Serve, ReadKeys, ReadSince, Put, history
<1>2. CASE deaf'
  BY <1>2 DEF OnlyOlderMissed
<1>3. CASE ~deaf'
  <2>1. deaf' = deaf
    BY <1>3 DEF Serve, ReadKeys, ReadSince, Put, TypeOK, history
  <2>2. ASSUME NEW n \in relays', NEW k \in accts', k \in Parties(n), newest <= Time[n],
               n \in relays => Reached(n, k)
        PROVE  Reached(n, k)'
    <3>1. n \in relays /\ k \in accts /\ Reached(n, k)
      BY <1>1, <2>2
    <3>2. CASE ReadKeys(p) \/ ReadSince(p)
      <4>1. WillSubscribe(k) => WillSubscribe(k)'
        BY <3>1, <3>2 DEF ReadKeys, ReadSince, Goto, TypeOK, Procs, WillSubscribe
      <4>2. QED BY <1>1, <3>1, <4>1, ReachedKept
    <3>3. CASE Put(p)
      <4> DEFINE f == [keys |-> keys[p], since |-> since[p]]
      <4>1. CASE k \in keys[p]
        <5>1. f.keys = keys[p] /\ f.since = since[p]
          OBVIOUS
        <5>2. Time[n] >= f.since
          BY <2>2, <3>1, <5>1, BackfillAssumption DEF SinceOK, TypeOK, BackfillAssumption
        <5>3. Matches(f, n)
          BY <2>2, <4>1, <5>1, <5>2 DEF Matches
        <5>4. [msg |-> n, conn |-> conn] \in wire'
          BY <1>3, <3>1, <3>3, <5>3 DEF Put, Wanted
        <5>5. QED BY <5>4 DEF Reached, UnderWay
      <4>2. CASE k \notin keys[p]
        <5>1. WillSubscribe(k) => WillSubscribe(k)'
          BY <3>3, <4>2 DEF Put, Goto, TypeOK, Procs, WillSubscribe
        <5>2. QED BY <1>1, <3>1, <5>1, ReachedKept
      <4>3. QED BY <4>1, <4>2
    <3>4. QED BY <3>2, <3>3 DEF Serve
  <2>3. /\ relays' \subseteq Msgs /\ accts' \subseteq accts
        /\ newest <= newest' /\ newest' \in Nat
    BY <1>1 DEF TypeOK
  <2>4. QED BY <2>1, <2>2, <2>3, MissedKept
<1>4. QED BY <1>2, <1>3

\* The end of a temporary subscription takes away nothing that an account's
\* filter asks for.
LEMMA MissedExpire ==
  ASSUME TypeOK, SinceOK, KeysOK, OnlyOlderMissed, NEW g \in temps, TempExpire(g)
  PROVE  OnlyOlderMissed'
<1> USE DEF vars, table, filters, counts
<1>1. UNCHANGED <<accts, stored, newest, relays, main, leaked, link, locals, history>>
  BY DEF TempExpire
<1>2. ASSUME NEW n \in relays, NEW k \in accts, k \in Parties(n), newest <= Time[n], ~deaf,
             Reached(n, k)
      PROVE  Reached(n, k)'
  <2>1. WillSubscribe(k) => WillSubscribe(k)'
    BY <1>1 DEF WillSubscribe, link, locals
  <2>2. CASE IsStored(n) \/ WillSubscribe(k) \/ n \in dropped
    BY <1>1, <2>1, <2>2 DEF Reached, IsStored, history
  <2>3. CASE UnderWay(n) /\ ~WillSubscribe(k)
    <3>1. PICK f \in main \cup leaked : k \in f.keys
      BY <1>2, <2>3 DEF KeysOK
    <3>2. Matches(f, n)
      BY <1>2, <3>1, FilterMatches DEF TypeOK
    <3>3. UnderWay(n)'
      BY <2>3, <3>1, <3>2 DEF TempExpire, Left, UnderWay
    <3>4. QED BY <3>3 DEF Reached
  <2>4. QED BY <1>2, <2>2, <2>3 DEF Reached
<1>3. relays' \subseteq Msgs /\ newest <= newest' /\ newest' \in Nat
  BY <1>1 DEF TypeOK
<1>4. QED BY <1>1, <1>2, <1>3, MissedKept DEF history

\* Every step keeps OnlyOlderMissed.
LEMMA MissedNext ==
  TypeOK /\ SinceOK /\ KeysOK /\ OnlyOlderMissed /\ [Next]_vars => OnlyOlderMissed'
<1> SUFFICES ASSUME TypeOK, SinceOK, KeysOK, OnlyOlderMissed, [Next]_vars
             PROVE  OnlyOlderMissed'
  OBVIOUS
<1> USE DEF vars, table, filters, link, counts
<1>1. CASE \E m \in Msgs : Post(m) \/ Deliver(m) \/ DropMessage(m) \/ SendMessage(m)
  BY <1>1, MissedMessages
<1>2. CASE \E p \in Procs : Serve(p)
  BY <1>2, MissedServe
<1>3. CASE \E f \in temps : TempExpire(f)
  BY <1>3, MissedExpire
<1>4. ASSUME NEW k \in Keys, CreateAccount(k) \/ DeleteFind(k) PROVE OnlyOlderMissed'
  BY <1>4, MissedComing DEF CreateAccount, DeleteFind, Goto, TypeOK, Procs, WillSubscribe
<1>5. CASE CloseFirst \/ DeleteMessages \/ DeleteAccount
  BY <1>5, MissedComing DEF CloseFirst, DeleteMessages, DeleteAccount, Goto, TypeOK, Procs,
                            WillSubscribe
<1>6. CASE Lose
  BY <1>6, MissedComing DEF Lose, TypeOK, WillSubscribe
<1>7. CASE Resubscribe
  BY <1>7, MissedComing DEF Resubscribe, Goto, TypeOK, Procs, WillSubscribe
<1>8. CASE Crash
  BY <1>8, MissedComing DEF Crash, Procs, WillSubscribe
<1>9. CASE (\E k \in Keys : RefreshAccount(k)) \/ TempSubscribe \/ Connect \/ UNCHANGED vars
  <2>1. /\ UNCHANGED <<accts, stored, newest, relays, deaf, dropped>>
        /\ wire \subseteq wire'
    BY <1>9 DEF RefreshAccount, TempSubscribe, Connect, history
  <2>2. ASSUME NEW k PROVE WillSubscribe(k) => WillSubscribe(k)'
    BY <1>9 DEF RefreshAccount, Call, TempSubscribe, Connect, Goto, TypeOK, Procs,
                WillSubscribe, locals
  <2>3. relays' \subseteq Msgs /\ newest <= newest' /\ newest' \in Nat
    BY <2>1 DEF TypeOK
  <2>4. ASSUME NEW m \in relays', NEW k \in accts', m \in relays => Reached(m, k)
        PROVE  Reached(m, k)'
    BY <2>1, <2>2, <2>4, ReachedKept
  <2>5. QED BY <2>1, <2>3, <2>4, MissedKept
<1>10. CASE DeleteRefused \/ ListenerRaise \/ DeleteRaise
  BY <1>10, MissedComing DEF DeleteRefused, ListenerRaise, DeleteRaise, Goto, TypeOK, Procs,
                             WillSubscribe
<1>11. CASE GiveUp
  BY <1>11 DEF GiveUp, OnlyOlderMissed
<1>12. QED
  BY <1>1, <1>2, <1>3, <1>4, <1>5, <1>6, <1>7, <1>8, <1>9, <1>10, <1>11 DEF Next, Handle

\* Initially there is nothing to miss, and the listener is about to subscribe.
LEMMA MissedInit == Init => SinceOK /\ KeysOK /\ OnlyOlderMissed
<1> SUFFICES ASSUME Init PROVE SinceOK /\ KeysOK /\ OnlyOlderMissed
  OBVIOUS
<1>1. SinceOK
  BY DEF Init, SinceOK, Procs
<1>2. \A k \in accts : WillSubscribe(k)
  BY DEF Init, WillSubscribe, Procs
<1>3. QED BY <1>1, <1>2 DEF KeysOK, OnlyOlderMissed

\* Of the messages to and from the accounts only those that are older than one
\* the server has had can be missed: the rest is stored, under way, or about to be
\* asked for, unless since the connection was last lost a request was lost, a handler
\* gave up, or the handling of that message raised.
THEOREM OlderAtMost == Spec => []OnlyOlderMissed
<1>1. Init => TypeOK /\ SinceOK /\ KeysOK /\ OnlyOlderMissed
  BY TypeInit, MissedInit
<1>2. TypeOK /\ SinceOK /\ KeysOK /\ OnlyOlderMissed /\ [Next]_vars
        => (TypeOK /\ SinceOK /\ KeysOK /\ OnlyOlderMissed)'
  BY TypeNext, SinceNext, KeysNext, MissedNext
<1>3. QED BY <1>1, <1>2, PTL DEF Spec

-----------------------------------------------------------------------------
(***************************************************************************)
(* Nothing is missed while nothing goes wrong.                             *)
(***************************************************************************)
\* A handler that is done is about no account any more.
IdleOK == stage[Handler] = "idle" => account = {}

WaitingOK == orderly => \A m \in relays : Waiting(m) => newest <= Time[m]

\* Every step keeps IdleOK.
LEMMA IdleNext == TypeOK /\ IdleOK /\ [Next]_vars => IdleOK'
<1> SUFFICES ASSUME TypeOK, IdleOK, [Next]_vars PROVE IdleOK'
  OBVIOUS
<1> stage \in [Procs -> Stages] /\ Handler \in Procs /\ Handler # Listener
  BY BackfillAssumption DEF TypeOK, Procs, BackfillAssumption
<1> USE DEF IdleOK, vars, locals, Goto
<1>1. ASSUME NEW m \in Msgs, Post(m) \/ Deliver(m) \/ DropMessage(m) \/ SendMessage(m) PROVE IdleOK'
  BY <1>1 DEF Post, Deliver, DropMessage, SendMessage
<1>2. ASSUME NEW p \in Procs, Serve(p) PROVE IdleOK'
  BY <1>2 DEF Serve, ReadKeys, ReadSince, Put
<1>3. ASSUME NEW k \in Keys, CreateAccount(k) \/ RefreshAccount(k) \/ DeleteFind(k)
      PROVE  IdleOK'
  BY <1>3 DEF CreateAccount, RefreshAccount, DeleteFind
<1>4. CASE Handle
  BY <1>4 DEF Handle, CloseFirst, TempSubscribe, DeleteMessages, DeleteAccount
<1>5. CASE (\E f \in temps : TempExpire(f)) \/ Connect \/ Lose \/ UNCHANGED vars
  BY <1>5 DEF TempExpire, Connect, Lose
<1>6. CASE Resubscribe
  BY <1>6 DEF Resubscribe
<1>7. CASE Crash
  BY <1>7 DEF Crash
<1>8. CASE DeleteRefused \/ ListenerRaise \/ DeleteRaise \/ GiveUp
  BY <1>8 DEF DeleteRefused, ListenerRaise, DeleteRaise, GiveUp
<1>9. QED BY <1>1, <1>2, <1>3, <1>4, <1>5, <1>6, <1>7, <1>8 DEF Next

\* A step after which only messages wait that did before, or that are in reach.
LEMMA WaitingKept ==
  ASSUME WaitingOK, orderly' => orderly, newest' = newest,
         \A m \in relays' : orderly' /\ Waiting(m)' =>
           (m \in relays /\ Waiting(m)) \/ newest <= Time[m]
  PROVE  WaitingOK'
BY DEF WaitingOK

\* What is lost on its way waits again; nothing else does.
LEMMA LostInReach ==
  ASSUME WaitingOK, orderly' = (orderly /\ InReach(wire \ wire')),
         newest' = newest, relays' = relays, stored' = stored,
         accts' \ account' \subseteq accts \ account
  PROVE  WaitingOK'
<1>1. ASSUME NEW m \in relays, orderly', Waiting(m)' PROVE Waiting(m) \/ newest <= Time[m]
  <2>1. Parties(m) \cap (accts \ account) # {} /\ ~IsStored(m)
    BY <1>1 DEF Waiting, IsStored, Parties
  <2>2. CASE UnderWay(m)
    <3>1. PICK w \in wire : w.msg = m
      BY <2>2 DEF UnderWay
    <3>2. w \notin wire'
      BY <1>1, <3>1 DEF Waiting, UnderWay
    <3>3. QED BY <1>1, <3>1, <3>2 DEF InReach
  <2>3. QED BY <2>1, <2>2 DEF Waiting
<1>2. QED BY <1>1, WaitingKept

\* A step that takes away nothing that is stored or under way.
LEMMA NoneWaitsAnew ==
  ASSUME WaitingOK, orderly' => orderly, newest' = newest, relays' = relays,
         stored' = stored, wire \subseteq wire',
         accts' \ account' \subseteq accts \ account
  PROVE  WaitingOK'
<1>1. \A m \in relays : Waiting(m)' => Waiting(m)
  BY DEF Waiting, IsStored, UnderWay, Parties
<1>2. QED BY <1>1, WaitingKept

\* What is stored is no newer than what waits, while things are orderly.
LEMMA StoreInOrder ==
  ASSUME TypeOK, WaitingOK, NEW m \in Msgs, NEW a \in accts, Store(m, a),
         relays' \subseteq relays \cup {m}, wire \ {[msg |-> m, conn |-> reading]} \subseteq wire',
         accts' = accts, account' = account
  PROVE  WaitingOK'
<1> SUFFICES ASSUME NEW n \in relays', orderly', Waiting(n)' PROVE newest' <= Time[n]
  BY DEF WaitingOK
<1>1. n # m
  BY StoreKeeps DEF Waiting
<1>2. n \in relays /\ Waiting(n)
  <2>1. n \in relays
    BY <1>1
  <2>2. Parties(n) \cap (accts \ account) # {}
    BY DEF Waiting, Parties
  <2>3. ~IsStored(n)
    BY StoreKeeps DEF Waiting, IsStored
  <2>4. ~UnderWay(n)
    BY <1>1 DEF Waiting, UnderWay
  <2>5. QED BY <2>1, <2>2, <2>3, <2>4 DEF Waiting
<1>3. newest <= Time[n] /\ Time[m] <= Time[n]
  BY <1>2 DEF WaitingOK, Store
<1>4. QED BY <1>3 DEF Store, Later

\* Messages that are posted, delivered, dropped or sent keep WaitingOK.
LEMMA WaitingMessages ==
  ASSUME TypeOK, WaitingOK, NEW m \in Msgs,
         Post(m) \/ Deliver(m) \/ DropMessage(m) \/ SendMessage(m)
  PROVE  WaitingOK'
<1> USE DEF table, locals
<1>1. CASE Post(m)
  <2>1. ASSUME NEW n \in relays', orderly', Waiting(n)'
        PROVE  (n \in relays /\ Waiting(n)) \/ newest <= Time[n]
    BY <1>1, <2>1 DEF Post, Waiting, IsStored, UnderWay, Parties
  <2>2. QED BY <1>1, <2>1, WaitingKept DEF Post
<1>2. CASE Deliver(m)
  <2>1. UNCHANGED <<accts, relays, account>> /\ wire' = wire \ {[msg |-> m, conn |-> reading]}
    BY <1>2 DEF Deliver
  <2>2. ASSUME NEW a \in accts, Store(m, a) PROVE WaitingOK'
    BY <2>1, <2>2, StoreInOrder
  <2>3. CASE Parties(m) \cap accts = {} /\ UNCHANGED <<stored, newest, orderly>>
    <3>1. ASSUME NEW n \in relays, Waiting(n)' PROVE Waiting(n)
      BY <2>1, <2>3, <3>1 DEF Waiting, IsStored, UnderWay, Parties
    <3>2. QED BY <2>1, <2>3, <3>1, WaitingKept
  <2>4. QED BY <1>2, <2>2, <2>3 DEF Deliver
<1>3. CASE SendMessage(m)
  BY <1>3, StoreInOrder DEF SendMessage
<1>4. CASE DropMessage(m)
  <2>1. /\ UNCHANGED <<accts, relays, account, stored, newest>>
        /\ wire' = wire \ {[msg |-> m, conn |-> reading]}
        /\ orderly' => orderly /\ (IsStored(m) \/ newest <= Time[m])
    BY <1>4 DEF DropMessage
  <2>2. ASSUME NEW n \in relays', orderly', Waiting(n)'
        PROVE  (n \in relays /\ Waiting(n)) \/ newest <= Time[n]
    <3>1. CASE n = m
      BY <2>1, <2>2, <3>1 DEF Waiting, IsStored
    <3>2. CASE n # m
      BY <2>1, <2>2, <3>2 DEF Waiting, IsStored, UnderWay, Parties
    <3>3. QED BY <3>1, <3>2
  <2>3. QED BY <2>1, <2>2, WaitingKept
<1>5. QED BY <1>1, <1>2, <1>3, <1>4

\* The steps of a handler keep WaitingOK.
LEMMA WaitingHandle ==
  ASSUME TypeOK, IdleOK, WaitingOK,
         Handle \/ \E k \in Keys : CreateAccount(k) \/ RefreshAccount(k) \/ DeleteFind(k)
  PROVE  WaitingOK'
<1> USE DEF table
<1>1. ASSUME NEW k \in Keys, CreateAccount(k) PROVE WaitingOK'
  BY <1>1, NoneWaitsAnew DEF CreateAccount, Call, IdleOK
<1>2. ASSUME NEW k \in Keys, RefreshAccount(k) PROVE WaitingOK'
  BY <1>2, NoneWaitsAnew DEF RefreshAccount, Call, IdleOK
<1>3. ASSUME NEW k \in Keys, DeleteFind(k) PROVE WaitingOK'
  BY <1>3, LostInReach DEF DeleteFind, Call, IdleOK, Unsubscribe
<1>4. CASE CloseFirst
  BY <1>4, LostInReach DEF CloseFirst, Unsubscribe
<1>5. CASE TempSubscribe
  <2> DEFINE f == [keys |-> account, since |-> 0]
  <2>1. ASSUME NEW m \in relays, orderly', Waiting(m)' PROVE Waiting(m)
    <3>1. up /\ wire' = wire \cup Wanted({f}, relays) /\ UNCHANGED <<stored, accts>>
          /\ account' = {}
      BY <1>5, <2>1 DEF TempSubscribe
    <3>2. ~Matches(f, m)
      <4>1. SUFFICES ASSUME Matches(f, m) PROVE FALSE
        OBVIOUS
      <4>2. [msg |-> m, conn |-> conn] \in wire'
        BY <3>1, <4>1 DEF Wanted
      <4>3. QED BY <2>1, <4>2 DEF Waiting, UnderWay
    <3>3. Parties(m) \cap account = {}
      BY <3>2, BackfillAssumption DEF Matches, TypeOK, BackfillAssumption
    <3>4. QED BY <2>1, <3>1, <3>3 DEF Waiting, IsStored, UnderWay, Parties
  <2>2. relays' = relays /\ newest' = newest /\ (orderly' => orderly)
    BY <1>5 DEF TempSubscribe
  <2>3. QED BY <2>1, <2>2, WaitingKept
<1>6. CASE DeleteMessages
  <2>1. UNCHANGED <<accts, account, newest, relays, wire>>
    BY <1>6 DEF DeleteMessages
  <2>2. ASSUME NEW m \in relays, orderly', Waiting(m)'
        PROVE  Waiting(m) \/ newest <= Time[m]
    <3>1. Parties(m) \cap (accts \ account) # {} /\ ~UnderWay(m)
      BY <2>1, <2>2 DEF Waiting, UnderWay, Parties
    <3>2. CASE IsStored(m)
      <4>1. PICK r \in stored : r.msg = m
        BY <3>2 DEF IsStored
      <4>2. r.key \in account
        BY <1>6, <2>2, <4>1 DEF DeleteMessages, Waiting, IsStored
      <4>3. r \in {s \in stored : /\ s.key \in account
                                  /\ Parties(s.msg) \cap (accts \ account) # {}}
        BY <3>1, <4>1, <4>2
      <4>4. QED BY <1>6, <2>2, <4>1, <4>3 DEF DeleteMessages, InReach
    <3>3. QED BY <3>1, <3>2 DEF Waiting
  <2>3. orderly' => orderly
    BY <1>6 DEF DeleteMessages
  <2>4. QED BY <2>1, <2>2, <2>3, WaitingKept
<1>7. CASE DeleteAccount
  BY <1>7, NoneWaitsAnew DEF DeleteAccount
<1>8. QED BY <1>1, <1>2, <1>3, <1>4, <1>5, <1>6, <1>7 DEF Handle

\* Every step keeps WaitingOK.
LEMMA WaitingNext == TypeOK /\ IdleOK /\ WaitingOK /\ [Next]_vars => WaitingOK'
<1> SUFFICES ASSUME TypeOK, IdleOK, WaitingOK, [Next]_vars PROVE WaitingOK'
  OBVIOUS
<1> USE DEF table, filters, locals
<1>1. CASE \E m \in Msgs : Post(m) \/ Deliver(m) \/ DropMessage(m) \/ SendMessage(m)
  BY <1>1, WaitingMessages
<1>2. ASSUME NEW p \in Procs, Serve(p) PROVE WaitingOK'
  BY <1>2, NoneWaitsAnew DEF Serve, ReadKeys, ReadSince, Put
<1>3. CASE Handle \/ \E k \in Keys : CreateAccount(k) \/ RefreshAccount(k) \/ DeleteFind(k)
  BY <1>3, WaitingHandle
<1>4. ASSUME NEW f \in temps, TempExpire(f) PROVE WaitingOK'
  BY <1>4, LostInReach DEF TempExpire
<1>5. CASE Connect \/ Resubscribe \/ UNCHANGED vars
  BY <1>5, NoneWaitsAnew DEF Connect, Resubscribe, vars
<1>6. CASE Lose
  BY <1>6, LostInReach DEF Lose
<1>7. CASE Crash
  <2>1. ASSUME orderly' PROVE account = {}
    BY <1>7, <2>1 DEF Crash, IdleOK
  <2>2. ASSUME NEW m \in relays, orderly', Waiting(m)'
        PROVE  Waiting(m) \/ newest <= Time[m]
    <3>1. Parties(m) \cap (accts \ account) # {} /\ ~IsStored(m)
      BY <1>7, <2>1, <2>2 DEF Crash, Waiting, IsStored, Parties
    <3>2. CASE UnderWay(m)
      BY <1>7, <2>2, <3>2 DEF Crash, UnderWay, InReach
    <3>3. QED BY <3>1, <3>2 DEF Waiting
  <2>3. relays' = relays /\ newest' = newest /\ (orderly' => orderly)
    BY <1>7 DEF Crash
  <2>4. QED BY <2>2, <2>3, WaitingKept
<1>8. CASE DeleteRefused \/ ListenerRaise
  BY <1>8, NoneWaitsAnew DEF DeleteRefused, ListenerRaise
<1>9. CASE DeleteRaise \/ GiveUp
  <2>1. ASSUME orderly' PROVE GiveUp /\ account = {} /\ orderly
    BY <1>9, <2>1 DEF DeleteRaise, GiveUp
  <2>2. ~orderly' => WaitingOK'
    BY DEF WaitingOK
  <2>3. QED BY <2>1, <2>2, NoneWaitsAnew DEF GiveUp
<1>10. QED BY <1>1, <1>2, <1>3, <1>4, <1>5, <1>6, <1>7, <1>8, <1>9 DEF Next

\* While nothing goes wrong that loses messages, none is missed (NothingMissed): what
\* waits is not older than the newest message, and so will be asked for; what was
\* dropped because its handling raised, as soon as the connection ends.
THEOREM AllArrive == Spec => []NothingMissed
<1>1. Init => IdleOK /\ WaitingOK
  BY DEF Init, IdleOK, WaitingOK
<1>2. TypeOK /\ IdleOK /\ WaitingOK /\ [Next]_vars => (IdleOK /\ WaitingOK)'
  BY IdleNext, WaitingNext
<1>3. OnlyOlderMissed /\ WaitingOK => NothingMissed
  BY DEF OnlyOlderMissed, WaitingOK, NothingMissed, Waiting
<1>4. QED BY <1>1, <1>2, <1>3, TypeCorrect, OlderAtMost, PTL DEF Spec
=============================================================================
