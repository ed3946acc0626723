---------------------------- MODULE MessageProofs ----------------------------
(***************************************************************************)
(* Theorems about what ChatServer does with a message that comes in, for   *)
(* any number of concurrent requests, users, keys, events and faults:      *)
(*                                                                         *)
(*   SendersAreProfiled  Spec => []ProfileRequested                        *)
(*   IncomingIsPushed    Spec => []IncomingPushed                          *)
(*   BadgeIsEnough       Spec => []UnreadCoversUnopened                    *)
(*                                                                         *)
(* The first two are inductive with the types.  The badge needs BadgeInv:  *)
(* while the listener has counted a message it has not stored, some row of *)
(* the chat already counts one message more than are stored.               *)
(***************************************************************************)
EXTENDS ChatServerProofs

USE DatabaseAssumption, ChatServerAssumption

\* UPDATE peers changes no key of a row.
LEMMA UpdatesKeepKeys ==
  ASSUME peers \subseteq PeerRow, NEW r \in peers',
         \/ UNCHANGED peers
         \/ \E i, j : IncrementUnread(i, j) \/ ResetUnread(i, j)
         \/ \E j, t : UpdateProfile(j, t)
  PROVE  \E q \in peers : q.key = r.key
<1>1. CASE UNCHANGED peers
  BY <1>1
<1>2. CASE \E i, j : IncrementUnread(i, j)
  BY <1>2 DEF IncrementUnread, PeerRow
<1>3. CASE \E i, j : ResetUnread(i, j)
  BY <1>3 DEF ResetUnread, PeerRow
<1>4. CASE \E j, t : UpdateProfile(j, t)
  BY <1>4 DEF UpdateProfile, PeerRow
<1>5. QED BY <1>1, <1>2, <1>3, <1>4

\* Who writes the table of peers.
LEMMA PeersWriters ==
  ASSUME [Next]_vars
  PROVE  \/ UNCHANGED peers
         \/ \E p \in Requests : PeerInsert(p) \/ GetReset(p)
         \/ InInsertPeer \/ InCount
         \/ \E k \in Pubkeys, t \in ProfileTimes : DeliverProfile(k, t)
<1>1. ASSUME NEW p \in Requests, Serve(p), ~PeerInsert(p), ~GetReset(p)
      PROVE  UNCHANGED peers
  BY <1>1 DEF Serve, db,
      CreateFindKey, CreateFindUser, CreateInsert, CreateReread, ResubClose,
      ResubKeys, ResubPut, DeleteFind, DeleteClose, DeleteMessages, DeleteAccount,
      DeleteKeys, DeletePut, GetFind, SendFind, SendInsert, SendReread, PeerFind,
      PeerGet, PeerProfile, RefreshFind, DeleteAcct, DeleteDms, InsertAcct,
      InsertDm, ReadKeys
<1>2. ASSUME Listen, ~InInsertPeer, ~InCount PROVE UNCHANGED peers
  BY <1>2 DEF Listen, db,
      ListenKeys, ListenPut, ByAuthor, ByTag, InGetPeer, InProfile, InInsert,
      InReread, OutInsert, OutReread, ReadKeys, InsertDm
<1>3. CASE \/ \E p \in Requests : Request(p)
           \/ \E e \in Events : Deliver(e)
           \/ \E p \in Procs : Fault(p)
           \/ Crash
           \/ UNCHANGED vars
  BY <1>3 DEF Request, Deliver, Fault, Crash, vars, db
<1>4. QED BY <1>1, <1>2, <1>3 DEF Next, Relays

\* A step that leaves the count of faults at zero is neither a fault nor a crash.
LEMMA NoFault ==
  ASSUME TypeOK, [Next]_vars, faults' = 0
  PROVE  /\ faults = 0
         /\ \/ \E p \in Requests : Request(p) \/ Serve(p)
            \/ Listen
            \/ \E e \in Events : Deliver(e)
            \/ \E k \in Pubkeys, t \in ProfileTimes : DeliverProfile(k, t)
            \/ UNCHANGED vars
<1>1. faults \in Nat
  BY DEF TypeOK
<1>2. \A p \in Procs : ~Fault(p)
  BY <1>1 DEF Fault
<1>3. ~Crash
  BY <1>1 DEF Crash
<1>4. CASE Listen
  BY <1>4 DEF Listen, trouble, ListenKeys, ListenPut, ByAuthor, ByTag, InGetPeer,
     InInsertPeer, InProfile, InCount, InInsert, InReread, OutInsert, OutReread, ReadKeys
<1>5. ASSUME NEW p \in Requests, Request(p) \/ Serve(p) PROVE faults = 0
  BY <1>5 DEF Request, Serve, trouble,
      CreateFindKey, CreateFindUser, CreateInsert, CreateReread, ResubClose,
      ResubKeys, ResubPut, DeleteFind, DeleteClose, DeleteMessages, DeleteAccount,
      DeleteKeys, DeletePut, GetFind, GetReset, SendFind, SendInsert, SendReread,
      PeerFind, PeerGet, PeerInsert, PeerProfile, RefreshFind, ReadKeys
<1>6. ASSUME \/ \E e \in Events : Deliver(e)
             \/ \E k \in Pubkeys, t \in ProfileTimes : DeliverProfile(k, t)
             \/ UNCHANGED vars
      PROVE  faults = 0
  BY <1>6 DEF Deliver, DeliverProfile, vars, trouble
<1>7. QED BY <1>2, <1>3, <1>4, <1>5, <1>6 DEF Next, Relays

-----------------------------------------------------------------------------
(***************************************************************************)
(* The profile of everybody in the list of peers is asked for.             *)
(***************************************************************************)
Requested(k) ==
  \/ k \in profiled
  \/ \E p \in Requests : pc[p] = "peer_profile" /\ call[p].key = k
  \/ pc[Listener] = "in_profile" /\ Author[evt[Listener]] = k

\* Between adding a peer and asking for its profile a handler does nothing else.
LEMMA RequestedStays ==
  ASSUME TypeOK, [Next]_vars, faults' = 0, NEW k, Requested(k)
  PROVE  Requested(k)'
<1> /\ Listener \in Procs /\ Listener \notin Requests /\ Requests \subseteq Procs
    /\ pc \in [Procs -> RequestPc \cup ListenPc]
  BY DEF TypeOK, Procs
<1>1. CASE k \in profiled
  <2>1. profiled \subseteq profiled'
    <3>1. ASSUME NEW p \in Requests, Request(p) \/ Serve(p) PROVE profiled \subseteq profiled'
      BY <3>1 DEF Request, Serve, subs,
          CreateFindKey, CreateFindUser, CreateInsert, CreateReread, ResubClose,
          ResubKeys, ResubPut, DeleteFind, DeleteClose, DeleteMessages, DeleteAccount,
          DeleteKeys, DeletePut, GetFind, GetReset, SendFind, SendInsert, SendReread,
          PeerFind, PeerGet, PeerInsert, PeerProfile, RefreshFind, ReadKeys,
          Unsubscribe, Subscribe, RequestProfile
    <3>2. CASE Listen
      BY <3>2 DEF Listen, subs, ListenKeys, ListenPut, ByAuthor, ByTag, InGetPeer,
         InInsertPeer, InProfile, InCount, InInsert, InReread, OutInsert, OutReread,
         ReadKeys, Subscribe, RequestProfile
    <3>3. CASE \/ \E e \in Events : Deliver(e)
               \/ \E j \in Pubkeys, t \in ProfileTimes : DeliverProfile(j, t)
               \/ UNCHANGED vars
      BY <3>3 DEF Deliver, DeliverProfile, vars, subs
    <3>4. QED BY <3>1, <3>2, <3>3, NoFault
  <2>2. QED BY <1>1, <2>1 DEF Requested
<1>2. ASSUME NEW p \in Requests, pc[p] = "peer_profile", call[p].key = k
      PROVE  Requested(k)'
  <2>1. CASE pc'[p] = pc[p] /\ call'[p] = call[p]
    BY <1>2, <2>1 DEF Requested
  <2>2. ASSUME Request(p) \/ Serve(p) PROVE Requested(k)'
    <3>1. PeerProfile(p)
      BY <1>2, <2>2 DEF Request, Serve,
          CreateFindKey, CreateFindUser, CreateInsert, CreateReread, ResubClose,
          ResubKeys, ResubPut, DeleteFind, DeleteClose, DeleteMessages, DeleteAccount,
          DeleteKeys, DeletePut, GetFind, GetReset, SendFind, SendInsert, SendReread,
          PeerFind, PeerGet, PeerInsert, RefreshFind
    <3>2. QED BY <1>2, <3>1 DEF PeerProfile, RequestProfile, Requested
  <2>3. ASSUME NEW q \in Requests \ {p}, Request(q) \/ Serve(q) PROVE Requested(k)'
    BY <2>1, <2>3, StepsAreLocal DEF OthersUntouched
  <2>4. CASE Listen \/ \E e \in Events : Deliver(e)
    BY <2>1, <2>4, StepsAreLocal DEF OthersUntouched
  <2>5. CASE UNCHANGED locals
    BY <2>1, <2>5 DEF locals
  <2>6. QED BY <2>2, <2>3, <2>4, <2>5, NoFault DEF DeliverProfile, vars
<1>3. CASE pc[Listener] = "in_profile" /\ Author[evt[Listener]] = k
  <2>1. CASE pc'[Listener] = pc[Listener] /\ evt'[Listener] = evt[Listener]
    BY <1>3, <2>1 DEF Requested
  <2>2. CASE Listen
    <3>1. InProfile
      BY <1>3, <2>2 DEF Listen, ListenKeys, ListenPut, ByAuthor, ByTag, InGetPeer,
         InInsertPeer, InCount, InInsert, InReread, OutInsert, OutReread
    <3>2. QED BY <1>3, <3>1 DEF InProfile, RequestProfile, Requested
  <2>3. ASSUME NEW q \in Requests, Request(q) \/ Serve(q) PROVE Requested(k)'
    BY <2>1, <2>3, StepsAreLocal DEF OthersUntouched
  <2>4. ASSUME NEW e \in Events PROVE ~Deliver(e)
    BY <1>3 DEF Deliver
  <2>5. CASE UNCHANGED locals
    BY <2>1, <2>5 DEF locals
  <2>6. QED BY <2>2, <2>3, <2>4, <2>5, NoFault DEF DeliverProfile, vars
<1>4. QED BY <1>1, <1>2, <1>3 DEF Requested

\* Every step keeps ProfileRequested.
LEMMA ProfileNext == TypeOK /\ ProfileRequested /\ [Next]_vars => ProfileRequested'
<1> SUFFICES ASSUME TypeOK, ProfileRequested, [Next]_vars, faults' = 0,
                    NEW r \in peers'
             PROVE  Requested(r.key)'
  BY DEF ProfileRequested, Requested
<1> /\ Listener \in Procs /\ Requests \subseteq Procs
    /\ pc \in [Procs -> RequestPc \cup ListenPc]
  BY DEF TypeOK, Procs
<1>1. faults = 0 /\ \A q \in peers : Requested(q.key)
  BY NoFault DEF ProfileRequested, Requested
<1>2. CASE \E q \in peers : q.key = r.key
  <2>1. Requested(r.key)
    BY <1>1, <1>2
  <2>2. QED BY <2>1, RequestedStays
<1>3. CASE \A q \in peers : q.key # r.key
  <2>1. ASSUME NEW p \in Requests, PeerInsert(p) PROVE Requested(r.key)'
    <3>1. r.key = call[p].key
      BY <1>3, <2>1 DEF PeerInsert, InsertPeer
    <3>2. pc'[p] = "peer_profile" /\ call'[p] = call[p]
      BY <2>1 DEF PeerInsert, Advance, Goto
    <3>3. QED BY <3>1, <3>2 DEF Requested
  <2>2. ASSUME InInsertPeer PROVE Requested(r.key)'
    <3>1. r.key = Author[evt[Listener]]
      BY <1>3, <2>2 DEF InInsertPeer, InsertPeer
    <3>2. pc'[Listener] = "in_profile" /\ evt' = evt
      BY <2>2 DEF InInsertPeer, Advance, Goto
    <3>3. QED BY <3>1, <3>2 DEF Requested
  <2>3. QED
    BY <1>3, <2>1, <2>2, PeersWriters, UpdatesKeepKeys
       DEF GetReset, InCount, DeliverProfile, TypeOK
<1>4. QED BY <1>2, <1>3

\* Whoever adds a peer also asks the relays for its profile (ProfileRequested).
THEOREM SendersAreProfiled == Spec => []ProfileRequested
<1>1. Init => ProfileRequested
  BY DEF Init, ProfileRequested
<1>2. TypeOK /\ ProfileRequested /\ [Next]_vars => ProfileRequested'
  BY ProfileNext
<1>3. QED BY <1>1, <1>2, TypeCorrect, PTL DEF Spec

-----------------------------------------------------------------------------
(***************************************************************************)
(* Every incoming message that is stored is pushed to the browsers.        *)
(***************************************************************************)
Told(d) ==
  \/ [event |-> d.event, acct |-> d.acct] \in pushed
  \/ pc[Listener] = "in_reread" /\ evt[Listener] = d.event /\ acct[Listener].id = d.acct

\* No push is ever undone, and what was read stays read.
LEMMA HistoryGrows == [Next]_vars => pushed \subseteq pushed' /\ opened \subseteq opened'
<1> SUFFICES ASSUME [Next]_vars PROVE pushed \subseteq pushed' /\ opened \subseteq opened'
  OBVIOUS
<1>1. ASSUME NEW p \in Requests, Request(p) \/ Serve(p)
      PROVE  pushed' = pushed /\ opened \subseteq opened'
  BY <1>1 DEF Request, Serve, history,
      CreateFindKey, CreateFindUser, CreateInsert, CreateReread, ResubClose,
      ResubKeys, ResubPut, DeleteFind, DeleteClose, DeleteMessages, DeleteAccount,
      DeleteKeys, DeletePut, GetFind, GetReset, SendFind, SendInsert, SendReread,
      PeerFind, PeerGet, PeerInsert, PeerProfile, RefreshFind, ReadKeys
<1>2. CASE Listen
  BY <1>2 DEF Listen, history, ListenKeys, ListenPut, ByAuthor, ByTag, InGetPeer,
     InInsertPeer, InProfile, InCount, InInsert, InReread, OutInsert, OutReread, ReadKeys
<1>3. CASE \/ \E e \in Events : Deliver(e)
           \/ \E k \in Pubkeys, t \in ProfileTimes : DeliverProfile(k, t)
           \/ \E p \in Procs : Fault(p)
           \/ Crash
           \/ UNCHANGED vars
  BY <1>3 DEF Deliver, DeliverProfile, Fault, Crash, vars, history
<1>4. QED BY <1>1, <1>2, <1>3 DEF Next, Relays

\* A message read back from the table is pushed: the listener cannot lose it.
LEMMA ToldStays ==
  ASSUME TypeOK, [Next]_vars, faults' = 0, NEW d \in dms, Told(d)
  PROVE  Told(d)'
<1> Listener \in Procs /\ Listener \notin Requests
  BY DEF Procs
<1>1. CASE [event |-> d.event, acct |-> d.acct] \in pushed
  BY <1>1, HistoryGrows DEF Told
<1>2. CASE pc[Listener] = "in_reread" /\ evt[Listener] = d.event
                                      /\ acct[Listener].id = d.acct
  <2>1. CASE /\ pc'[Listener] = pc[Listener] /\ evt'[Listener] = evt[Listener]
             /\ acct'[Listener] = acct[Listener]
    BY <1>2, <2>1 DEF Told
  <2>2. CASE Listen
    <3>1. InReread
      BY <1>2, <2>2 DEF Listen, ListenKeys, ListenPut, ByAuthor, ByTag, InGetPeer,
         InInsertPeer, InProfile, InCount, InInsert, OutInsert, OutReread
    <3>2. d \in DmsOfEvent(acct[Listener].id, evt[Listener])
      BY <1>2 DEF DmsOfEvent
    <3>3. QED BY <1>2, <3>1, <3>2 DEF InReread, Told
  <2>3. ASSUME NEW q \in Requests, Request(q) \/ Serve(q) PROVE Told(d)'
    BY <2>1, <2>3, StepsAreLocal DEF OthersUntouched
  <2>4. ASSUME NEW e \in Events PROVE ~Deliver(e)
    BY <1>2 DEF Deliver
  <2>5. CASE UNCHANGED locals
    BY <2>1, <2>5 DEF locals
  <2>6. QED BY <2>2, <2>3, <2>4, <2>5, NoFault DEF DeliverProfile, vars
<1>3. QED BY <1>1, <1>2 DEF Told

\* Every step keeps IncomingPushed.
LEMMA PushedNext == TypeOK /\ IncomingPushed /\ [Next]_vars => IncomingPushed'
<1> SUFFICES ASSUME TypeOK, IncomingPushed, [Next]_vars, faults' = 0,
                    NEW d \in dms', d.incoming
             PROVE  Told(d)'
  BY DEF IncomingPushed, Told
<1>1. CASE d \in dms
  <2>1. Told(d)
    BY <1>1, NoFault DEF IncomingPushed, Told
  <2>2. QED BY <1>1, <2>1, ToldStays
<1>2. CASE d \notin dms
  <2>1. InInsert
    BY <1>2, OnlyInInsert
  <2>2. d.event = evt[Listener] /\ d.acct = acct[Listener].id
    BY <1>2, <2>1 DEF InInsert, InsertDm
  <2>3. pc'[Listener] = "in_reread" /\ evt' = evt /\ acct' = acct
    BY <2>1 DEF InInsert, Advance, Goto, TypeOK, Procs
  <2>4. QED BY <2>2, <2>3 DEF Told
<1>3. QED BY <1>1, <1>2

\* Every incoming message that is stored is pushed, or about to be
\* (IncomingPushed).
THEOREM IncomingIsPushed == Spec => []IncomingPushed
<1>1. Init => IncomingPushed
  BY DEF Init, IncomingPushed
<1>2. TypeOK /\ IncomingPushed /\ [Next]_vars => IncomingPushed'
  BY PushedNext
<1>3. QED BY <1>1, <1>2, TypeCorrect, PTL DEF Spec

-----------------------------------------------------------------------------
(***************************************************************************)
(* The badge of a chat nobody opened.  Arrived is what it should count.    *)
(***************************************************************************)
Arrived(id, k) == {m \in dms : m.incoming /\ m.acct = id /\ m.key = k}

Badge(id, k, n) ==
  \/ [acct |-> id, key |-> k] \in opened
  \/ \E r \in PeersOf(id, k) : r.unread >= n

\* The sender of the message the listener handles: none of its messages are
\* stored when its peer row is about to be made, and between counting the
\* message and storing it the badge is one ahead.
FirstInHand ==
  pc[Listener] = "in_insert_peer" =>
    Arrived(acct[Listener].id, Author[evt[Listener]]) = {}

CountedInHand ==
  pc[Listener] \in {"in_profile", "in_insert"} =>
    Badge(acct[Listener].id, Author[evt[Listener]],
          Cardinality(Arrived(acct[Listener].id, Author[evt[Listener]])) + 1)

BadgeInv ==
  /\ IsFiniteSet(dms)
  /\ \A id \in AcctIds, k \in Pubkeys :
       Arrived(id, k) # {} => Badge(id, k, Cardinality(Arrived(id, k)))
  /\ FirstInHand /\ CountedInHand

\* BadgeInv says of every chat what UnreadCoversUnopened says of every message.
LEMMA BadgeInvImplies == TypeOK /\ BadgeInv => UnreadCoversUnopened
<1> SUFFICES ASSUME TypeOK, BadgeInv, NEW d \in dms, d.incoming,
                    [acct |-> d.acct, key |-> d.key] \notin opened
             PROVE  \E r \in PeersOf(d.acct, d.key) :
                      r.unread >= Cardinality(Arrived(d.acct, d.key))
  BY DEF UnreadCoversUnopened, Arrived
<1>1. d.acct \in AcctIds /\ d.key \in Pubkeys
  BY DEF TypeOK, DmRow
<1>2. Arrived(d.acct, d.key) # {}
  BY DEF Arrived
<1>3. QED BY <1>1, <1>2 DEF BadgeInv, Badge

\* The table of messages stays finite.
LEMMA FiniteDms == IsFiniteSet(dms) /\ [Next]_vars => IsFiniteSet(dms')
<1> SUFFICES ASSUME IsFiniteSet(dms), [Next]_vars PROVE IsFiniteSet(dms')
  OBVIOUS
<1>1. ASSUME NEW row, InsertDm(row) PROVE IsFiniteSet(dms')
  BY <1>1, FS_AddElement DEF InsertDm
<1>2. ASSUME NEW p \in Requests, DeleteMessages(p) PROVE IsFiniteSet(dms')
  <2>1. dms' \subseteq dms
    BY <1>2 DEF DeleteMessages, DeleteDms
  <2>2. QED BY <2>1, FS_Subset
<1>3. QED BY <1>1, <1>2, DmsWriters DEF SendInsert, InInsert, OutInsert

\* Whose messages a step adds to: only the listener's, and one at most.
LEMMA ArrivedStep ==
  ASSUME TypeOK, [Next]_vars, IsFiniteSet(dms), NEW id, NEW k
  PROVE  /\ Cardinality(Arrived(id, k)) \in Nat /\ Cardinality(Arrived(id, k))' \in Nat
         /\ Cardinality(Arrived(id, k))' <= Cardinality(Arrived(id, k)) + 1
         /\ ~(InInsert /\ id = acct[Listener].id /\ k = Author[evt[Listener]]) =>
              /\ Arrived(id, k)' \subseteq Arrived(id, k)
              /\ Cardinality(Arrived(id, k))' <= Cardinality(Arrived(id, k))
<1>1. IsFiniteSet(Arrived(id, k)) /\ IsFiniteSet(Arrived(id, k)')
  <2>1. Arrived(id, k) \subseteq dms /\ Arrived(id, k)' \subseteq dms'
    BY DEF Arrived
  <2>2. QED BY <2>1, FiniteDms, FS_Subset
<1>2. Cardinality(Arrived(id, k)) \in Nat /\ Cardinality(Arrived(id, k)') \in Nat
  BY <1>1, FS_CardinalityType
<1>3. CASE Arrived(id, k)' \subseteq Arrived(id, k)
  <2>1. Cardinality(Arrived(id, k)') <= Cardinality(Arrived(id, k))
    BY <1>1, <1>3, FS_Subset
  <2>2. QED BY <1>2, <1>3, <2>1
<1>4. CASE ~(Arrived(id, k)' \subseteq Arrived(id, k))
  <2>1. PICK d \in dms' : d \notin dms /\ d.incoming /\ d.acct = id /\ d.key = k
    BY <1>4 DEF Arrived
  <2>2. InInsert
    BY <2>1, OnlyInInsert
  <2>3. dms' = dms \cup {d} /\ d.acct = acct[Listener].id /\ d.key = Author[evt[Listener]]
    <3>1. PICK row : /\ InsertDm(row)
                     /\ row.acct = acct[Listener].id /\ row.key = Author[evt[Listener]]
      BY <2>2 DEF InInsert
    <3>2. dms' = dms \cup {row} /\ d = row
      BY <2>1, <3>1 DEF InsertDm
    <3>3. QED BY <3>1, <3>2
  <2>4. Arrived(id, k)' = Arrived(id, k) \cup {d} /\ d \notin Arrived(id, k)
    BY <2>1, <2>3 DEF Arrived
  <2>5. Cardinality(Arrived(id, k)') = Cardinality(Arrived(id, k)) + 1
    BY <1>1, <2>4, FS_AddElement
  <2>6. QED BY <1>2, <2>1, <2>2, <2>3, <2>5
<1>5. QED BY <1>3, <1>4

\* The badge of a chat goes down only when the chat is opened.
LEMMA BadgeStays ==
  ASSUME TypeOK, [Next]_vars, NEW id, NEW k, NEW m \in Nat, NEW n \in Nat, m <= n,
         Badge(id, k, n)
  PROVE  Badge(id, k, m)'
<1>1. CASE [acct |-> id, key |-> k] \in opened
  BY <1>1, HistoryGrows DEF Badge
<1>2. ASSUME NEW r \in peers, r.acct = id, r.key = k, r.unread >= n
      PROVE  Badge(id, k, m)'
  <2> r \in PeerRow /\ r.unread \in Nat
    BY DEF TypeOK, PeerRow
  <2>1. ASSUME NEW q \in peers', q.acct = id, q.key = k, q.unread \in Nat,
               q.unread >= r.unread
        PROVE  Badge(id, k, m)'
    BY <1>2, <2>1 DEF Badge, PeersOf
  <2>2. CASE UNCHANGED peers
    BY <1>2, <2>1, <2>2
  <2>3. ASSUME NEW i, NEW j, InsertPeer(i, j) PROVE Badge(id, k, m)'
    BY <1>2, <2>1, <2>3 DEF InsertPeer
  <2>4. CASE InCount
    <3> DEFINE q == IF r.acct = acct[Listener].id /\ r.key = Author[evt[Listener]]
                      THEN [r EXCEPT !.unread = @ + 1] ELSE r
    <3>1. q \in peers'
      BY <2>4 DEF InCount, IncrementUnread
    <3>2. q.acct = id /\ q.key = k /\ q.unread \in Nat /\ q.unread >= r.unread
      BY <1>2 DEF PeerRow
    <3> HIDE DEF q
    <3>3. QED BY <2>1, <3>1, <3>2
  <2>5. ASSUME NEW p \in Requests, GetReset(p) PROVE Badge(id, k, m)'
    <3>1. CASE id = acct[p].id /\ k = call[p].key
      BY <2>5, <3>1 DEF GetReset, Badge
    <3>2. CASE ~(id = acct[p].id /\ k = call[p].key)
      <4>1. r \in peers'
        BY <1>2, <2>5, <3>2 DEF GetReset, ResetUnread
      <4>2. QED BY <1>2, <2>1, <4>1
    <3>3. QED BY <3>1, <3>2
  <2>6. ASSUME NEW j, NEW t, UpdateProfile(j, t) PROVE Badge(id, k, m)'
    <3> DEFINE q == IF r.key = j THEN [r EXCEPT !.profile = t] ELSE r
    <3>1. q \in peers'
      BY <2>6 DEF UpdateProfile
    <3>2. q.acct = id /\ q.key = k /\ q.unread \in Nat /\ q.unread >= r.unread
      BY <1>2 DEF PeerRow
    <3> HIDE DEF q
    <3>3. QED BY <2>1, <3>1, <3>2
  <2>7. QED
    BY <2>2, <2>3, <2>4, <2>5, <2>6, PeersWriters
       DEF PeerInsert, InInsertPeer, DeliverProfile
<1>3. QED BY <1>1, <1>2 DEF Badge, PeersOf

\* How the listener gets to count a message and to store it.
LEMMA ListenerMoves ==
  ASSUME TypeOK, [Next]_vars
  PROVE  \/ /\ pc'[Listener] = pc[Listener] /\ acct'[Listener] = acct[Listener]
            /\ evt'[Listener] = evt[Listener]
         \/ pc'[Listener] \notin {"in_insert_peer", "in_profile", "in_insert"}
         \/ InGetPeer \/ InInsertPeer \/ InProfile \/ InCount
<1> /\ Listener \in Procs /\ Listener \notin Requests
    /\ pc \in [Procs -> RequestPc \cup ListenPc]
  BY DEF TypeOK, Procs
<1>1. ASSUME Listen, ~InGetPeer, ~InInsertPeer, ~InProfile, ~InCount
      PROVE  pc'[Listener] \notin {"in_insert_peer", "in_profile", "in_insert"}
  BY <1>1 DEF Listen, ListenKeys, ListenPut, ByAuthor, ByTag, InInsert, InReread,
     OutInsert, OutReread, Outgoing, Incoming, ReadKeys, Advance, AdvanceAs, Leave,
     Goto, Home
<1>2. ASSUME NEW e \in Events, Deliver(e) PROVE pc'[Listener] = "by_author"
  BY <1>2 DEF Deliver, Goto
<1>3. ASSUME NEW p \in Procs, Fault(p)
      PROVE  \/ OthersUntouched(p) /\ p # Listener
             \/ pc'[Listener] \in {"listen_keys", "wait", "delete_keys"}
  BY <1>3, StepsAreLocal DEF Fault, Advance, Goto, Leave, Home
<1>4. CASE Crash
  BY <1>4 DEF Crash
<1>5. ASSUME NEW p \in Requests, Request(p) \/ Serve(p) PROVE OthersUntouched(p)
  BY <1>5, StepsAreLocal
<1>6. CASE UNCHANGED locals
  BY <1>6 DEF locals
<1>7. QED
  BY <1>1, <1>2, <1>3, <1>4, <1>5, <1>6
     DEF Next, Relays, vars, DeliverProfile, OthersUntouched

\* A badge that is large enough for what a step leaves in the chat, stays so.
LEMMA BadgeCounts ==
  ASSUME TypeOK, [Next]_vars, NEW id, NEW k, NEW more \in Nat, NEW n \in Nat,
         Cardinality(Arrived(id, k))' \in Nat,
         Cardinality(Arrived(id, k))' + more <= n, Badge(id, k, n)
  PROVE  Badge(id, k, Cardinality(Arrived(id, k)) + more)'
<1>1. PICK m \in Nat : m = Cardinality(Arrived(id, k))' + more
  OBVIOUS
<1>2. Badge(id, k, m)'
  BY <1>1, BadgeStays
<1>3. QED BY <1>1, <1>2 DEF Badge

\* In no chat does a step leave more messages than the badge shows.
LEMMA BadgeOfAll ==
  ASSUME TypeOK, BadgeInv, [Next]_vars, NEW id \in AcctIds, NEW k \in Pubkeys,
         Arrived(id, k)' # {}
  PROVE  Badge(id, k, Cardinality(Arrived(id, k)))'
<1> DEFINE n == Cardinality(Arrived(id, k))
<1>1. CASE InInsert /\ id = acct[Listener].id /\ k = Author[evt[Listener]]
  <2>1. Badge(id, k, n + 1)
    BY <1>1 DEF BadgeInv, CountedInHand, InInsert
  <2>2. n \in Nat /\ n' \in Nat /\ n' <= n + 1
    BY ArrivedStep DEF BadgeInv
  <2>3. Badge(id, k, n + 0)'
    BY <2>1, <2>2, BadgeCounts
  <2>4. QED BY <2>2, <2>3 DEF Badge
<1>2. CASE ~(InInsert /\ id = acct[Listener].id /\ k = Author[evt[Listener]])
  <2>1. n \in Nat /\ n' \in Nat /\ n' <= n /\ Arrived(id, k)' \subseteq Arrived(id, k)
    BY <1>2, ArrivedStep DEF BadgeInv
  <2>2. Badge(id, k, n)
    BY <2>1 DEF BadgeInv
  <2>3. Badge(id, k, n + 0)'
    BY <2>1, <2>2, BadgeCounts
  <2>4. QED BY <2>1, <2>3 DEF Badge
<1>3. QED BY <1>1, <1>2

\* While the listener has a message in hand no step spoils what BadgeInv says of it.
LEMMA BadgeInHand ==
  ASSUME TypeOK, PeerInv, BadgeInv, [Next]_vars
  PROVE  FirstInHand' /\ CountedInHand'
<1>1. PICK id : id = acct[Listener].id
  OBVIOUS
<1>2. PICK k : k = Author[evt[Listener]]
  OBVIOUS
<1> DEFINE n == Cardinality(Arrived(id, k))
<1>3. n \in Nat /\ n' \in Nat
  BY ArrivedStep DEF BadgeInv
<1>4. ~InInsert => Arrived(id, k)' \subseteq Arrived(id, k) /\ n' <= n
  BY ArrivedStep DEF BadgeInv
<1> pc \in [Procs -> RequestPc \cup ListenPc] /\ Listener \in Procs
  BY DEF TypeOK, Procs
<1>5. CASE /\ pc'[Listener] = pc[Listener] /\ acct'[Listener] = acct[Listener]
           /\ evt'[Listener] = evt[Listener]
  <2>1. ~InInsert
    BY <1>5 DEF InInsert, Advance, Goto
  <2>2. id = acct'[Listener].id /\ k = Author[evt'[Listener]]
    BY <1>1, <1>2, <1>5
  <2>3. FirstInHand'
    BY <1>1, <1>2, <1>4, <1>5, <2>1, <2>2 DEF BadgeInv, FirstInHand
  <2>4. ASSUME pc'[Listener] \in {"in_profile", "in_insert"}
        PROVE  Badge(id, k, n + 1)'
    <3>1. Badge(id, k, n + 1)
      BY <1>1, <1>2, <1>5, <2>4 DEF BadgeInv, CountedInHand
    <3>2. QED BY <1>3, <1>4, <2>1, <3>1, BadgeCounts
  <2>5. CountedInHand'
    BY <2>2, <2>4 DEF CountedInHand
  <2>6. QED BY <2>3, <2>5
<1>6. CASE pc'[Listener] \notin {"in_insert_peer", "in_profile", "in_insert"}
  BY <1>6 DEF FirstInHand, CountedInHand
<1>7. CASE InGetPeer
  <2>1. dms' = dms /\ acct' = acct /\ evt' = evt
        /\ \/ pc'[Listener] = "in_insert_peer" /\ PeersOf(id, k) = {}
           \/ pc'[Listener] = "in_count"
    BY <1>1, <1>2, <1>7 DEF InGetPeer, Advance, Goto, db
  <2>2. PeersOf(id, k) = {} => Arrived(id, k) = {}
    BY DEF PeerInv, IncomingHasPeer, Arrived
  <2>3. QED BY <1>1, <1>2, <2>1, <2>2 DEF FirstInHand, CountedInHand, Arrived
<1>8. CASE InInsertPeer
  <2>1. dms' = dms /\ acct' = acct /\ evt' = evt /\ pc'[Listener] = "in_profile"
        /\ InsertPeer(id, k)
    BY <1>1, <1>2, <1>8 DEF InInsertPeer, Advance, Goto, InsertPeer
  <2>2. Arrived(id, k)' = {}
    BY <1>1, <1>2, <1>8, <2>1 DEF InInsertPeer, BadgeInv, FirstInHand, Arrived
  <2>3. n' + 1 = 1
    BY <2>2, FS_EmptySet
  <2>4. \E r \in PeersOf(id, k)' : r.unread >= 1
    BY <2>1, InsertPeerAdds DEF PeersOf
  <2>5. Badge(id, k, n + 1)'
    BY <2>3, <2>4 DEF Badge
  <2>6. QED BY <1>1, <1>2, <2>1, <2>5 DEF FirstInHand, CountedInHand
<1>9. CASE InProfile
  <2>1. dms' = dms /\ acct' = acct /\ evt' = evt /\ pc'[Listener] = "in_insert"
        /\ ~InInsert
    BY <1>9 DEF InProfile, InInsert, Advance, Goto, db
  <2>2. Badge(id, k, n + 1)
    BY <1>1, <1>2, <1>9 DEF InProfile, BadgeInv, CountedInHand
  <2>3. Badge(id, k, n + 1)'
    BY <1>3, <1>4, <2>1, <2>2, BadgeCounts
  <2>4. QED BY <1>1, <1>2, <2>1, <2>3 DEF FirstInHand, CountedInHand
<1>10. CASE InCount
  <2>1. dms' = dms /\ acct' = acct /\ evt' = evt /\ pc'[Listener] = "in_insert"
        /\ IncrementUnread(id, k) /\ opened' = opened
    BY <1>1, <1>2, <1>10 DEF InCount, Advance, Goto, IncrementUnread, history
  <2>2. n' = n
    BY <2>1 DEF Arrived
  <2>3. id \in AcctIds /\ k \in Pubkeys
    BY <1>1, <1>2, <1>10 DEF InCount, TypeOK, LocalsOK, HoldsAcct, HoldsEvent, AcctRow
  <2>4. Badge(id, k, n)
    <3>1. CASE Arrived(id, k) # {}
      BY <2>3, <3>1 DEF BadgeInv
    <3>2. CASE Arrived(id, k) = {}
      <4>1. n = 0
        BY <3>2, FS_EmptySet
      <4>2. PICK r \in PeersOf(id, k) : TRUE
        BY <1>1, <1>2, <1>10 DEF InCount, PeerInv, PeerInHand
      <4>3. r.unread >= 0
        BY <4>2 DEF PeersOf, TypeOK, PeerRow
      <4>4. QED BY <4>1, <4>2, <4>3 DEF Badge
    <3>3. QED BY <3>1, <3>2
  <2>5. ASSUME NEW r \in PeersOf(id, k), r.unread >= n
        PROVE  Badge(id, k, n + 1)'
    <3> DEFINE q == [r EXCEPT !.unread = @ + 1]
    <3>1. r \in PeerRow /\ r \in peers /\ r.acct = id /\ r.key = k
      BY <2>5 DEF PeersOf, TypeOK
    <3>2. q \in peers'
      BY <2>1, <3>1 DEF IncrementUnread
    <3>3. q.acct = id /\ q.key = k /\ q.unread >= n + 1
      BY <1>3, <2>5, <3>1 DEF PeerRow
    <3>4. \E p \in PeersOf(id, k)' : p.unread >= n + 1
      BY <3>2, <3>3 DEF PeersOf
    <3>5. QED BY <2>2, <3>4 DEF Badge
  <2>6. Badge(id, k, n + 1)'
    BY <2>1, <2>4, <2>5 DEF Badge
  <2>7. QED BY <1>1, <1>2, <2>1, <2>6 DEF FirstInHand, CountedInHand
<1>11. QED BY <1>5, <1>6, <1>7, <1>8, <1>9, <1>10, ListenerMoves

\* In a chat nobody opened the badge never shows fewer messages than have
\* arrived (UnreadCoversUnopened), whatever requests and faults come between.
THEOREM BadgeIsEnough == Spec => []UnreadCoversUnopened
<1>1. Init => PeerInv /\ BadgeInv
  <2>1. Init => PeerInv
    BY DEF Init, PeerInv, IncomingHasPeer, PeerInHand, Procs
  <2>2. Init => BadgeInv
    BY FS_EmptySet DEF Init, BadgeInv, FirstInHand, CountedInHand, Arrived, Procs
  <2>3. QED BY <2>1, <2>2
<1>2. TypeOK /\ PeerInv /\ [Next]_vars => PeerInv'
  BY PeerNext
<1>3. TypeOK /\ PeerInv /\ BadgeInv /\ [Next]_vars => BadgeInv'
  BY BadgeOfAll, BadgeInHand, FiniteDms DEF BadgeInv
<1>4. TypeOK /\ BadgeInv => UnreadCoversUnopened
  BY BadgeInvImplies
<1>5. QED BY <1>1, <1>2, <1>3, <1>4, TypeCorrect, PTL DEF Spec
=============================================================================
