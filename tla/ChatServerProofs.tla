-------------------------- MODULE ChatServerProofs --------------------------
(***************************************************************************)
(* Theorems about ChatServer, for any number of concurrent requests, users,*)
(* keys, events and faults:                                                *)
(*                                                                         *)
(*   TypeCorrect          Spec => []TypeOK                                 *)
(*   EveryAccountCovered  Spec => []Covered                                *)
(*   IncomingIsVisible    Spec => []IncomingHasPeer                        *)
(*   Refinement           Spec => ImplementsMailbox                        *)
(*                                                                         *)
(* TypeOK and Covered are inductive (the latter with the former); the other *)
(* two need to know what a handler under way has in hand: PeerInv, Filing. *)
(***************************************************************************)
EXTENDS ChatServer, FiniteSetTheorems, TLAPS

\* InsertPeer leaves a row for that account and that key in the table.
LEMMA InsertPeerAdds ==
  ASSUME NEW id, NEW k, InsertPeer(id, k)
  PROVE  \E row \in peers' : row.acct = id /\ row.key = k /\ row.unread = 1
<1> DEFINE row == [acct |-> id, key |-> k, copy |-> Cardinality(PeersOf(id, k)),
                   unread |-> 1, profile |-> NoProfile]
<1>1. row \in peers' /\ row.acct = id /\ row.key = k /\ row.unread = 1
  BY DEF InsertPeer
<1>2. QED BY <1>1

\* The image of a finite set is finite; used for UPDATE statements.
LEMMA FiniteImage ==
  ASSUME NEW S, IsFiniteSet(S), NEW f
  PROVE  IsFiniteSet({f[x] : x \in S})
<1> DEFINE T == {f[x] : x \in S}
           g == [x \in S |-> f[x]]
<1>1. g \in Surjection(S, T)
  BY DEF Surjection
<1>2. QED BY <1>1, FS_Surjection

\* INSERT INTO peers keeps the table a finite set of peer rows.
LEMMA InsertPeerTyped ==
  ASSUME peers \subseteq PeerRow, IsFiniteSet(peers),
         NEW id \in AcctIds, NEW k \in Pubkeys, InsertPeer(id, k)
  PROVE  peers' \subseteq PeerRow /\ IsFiniteSet(peers')
<1> DEFINE row == [acct |-> id, key |-> k, copy |-> Cardinality(PeersOf(id, k)),
                   unread |-> 1, profile |-> NoProfile]
<1>1. IsFiniteSet(PeersOf(id, k))
  BY FS_Subset DEF PeersOf
<1>2. Cardinality(PeersOf(id, k)) \in Nat
  BY <1>1, FS_CardinalityType
<1>3. row \in PeerRow
  BY <1>2 DEF PeerRow
<1>4. peers' = peers \cup {row}
  BY DEF InsertPeer
<1>5. QED BY <1>3, <1>4, FS_AddElement

\* UPDATE peers SET unread_count + 1 keeps the table a finite set of peer rows.
LEMMA IncrementUnreadTyped ==
  ASSUME peers \subseteq PeerRow, IsFiniteSet(peers), NEW id, NEW k, IncrementUnread(id, k)
  PROVE  peers' \subseteq PeerRow /\ IsFiniteSet(peers')
<1> DEFINE f == [p \in peers |-> IF p.acct = id /\ p.key = k
                                   THEN [p EXCEPT !.unread = @ + 1] ELSE p]
<1>1. peers' = {f[p] : p \in peers}
  BY DEF IncrementUnread
<1>2. \A p \in peers : f[p] \in PeerRow
  BY DEF PeerRow
<1> HIDE DEF f
<1>3. QED BY <1>1, <1>2, FiniteImage

\* UPDATE peers SET unread_count = 0 keeps the table a finite set of peer rows.
LEMMA ResetUnreadTyped ==
  ASSUME peers \subseteq PeerRow, IsFiniteSet(peers), NEW id, NEW k, ResetUnread(id, k)
  PROVE  peers' \subseteq PeerRow /\ IsFiniteSet(peers')
<1> DEFINE f == [p \in peers |-> IF p.acct = id /\ p.key = k
                                   THEN [p EXCEPT !.unread = 0] ELSE p]
<1>1. peers' = {f[p] : p \in peers}
  BY DEF ResetUnread
<1>2. \A p \in peers : f[p] \in PeerRow
  BY DEF PeerRow
<1> HIDE DEF f
<1>3. QED BY <1>1, <1>2, FiniteImage

\* Storing a profile keeps the table a finite set of peer rows.
LEMMA UpdateProfileTyped ==
  ASSUME peers \subseteq PeerRow, IsFiniteSet(peers), NEW k,
         NEW t \in ProfileTimes, UpdateProfile(k, t)
  PROVE  peers' \subseteq PeerRow /\ IsFiniteSet(peers')
<1> DEFINE f == [p \in peers |-> IF p.key = k THEN [p EXCEPT !.profile = t] ELSE p]
<1>1. peers' = {f[p] : p \in peers}
  BY DEF UpdateProfile
<1>2. \A p \in peers : f[p] \in PeerRow
  BY DEF PeerRow
<1> HIDE DEF f
<1>3. QED BY <1>1, <1>2, FiniteImage

-----------------------------------------------------------------------------
USE DatabaseAssumption, ChatServerAssumption

\* The server starts with types and locals in order.
LEMMA TypeInit == Init => TypeOK
<1> SUFFICES ASSUME Init PROVE TypeOK
  OBVIOUS
<1> USE DEF Init, Procs
<1>1. issued \subseteq AcctRow /\ accts \subseteq issued
  OBVIOUS
<1>2. peers \subseteq PeerRow /\ IsFiniteSet(peers)
  BY FS_EmptySet
<1>3. LocalsOK
  BY DEF LocalsOK, HoldsAcct, HoldsEvent
<1>4. /\ pc \in [Procs -> RequestPc \cup ListenPc]
      /\ pc[Listener] \in ListenPc /\ \A p \in Requests : pc[p] \in RequestPc
  BY DEF RequestPc, ListenPc
<1>5. /\ call \in [Procs -> CallType \cup {NoCall}]
  /\ acct \in [Procs -> AcctRow \cup {NoAcct}]
  /\ evt \in [Procs -> Events \cup {NoEvent}]
  /\ keys \in [Procs -> SUBSET Pubkeys]
  OBVIOUS
<1>6. faults \in 0..MaxFaults
  OBVIOUS
<1>7. QED
  BY <1>1, <1>2, <1>3, <1>4, <1>5, <1>6 DEF TypeOK

\* Every step of a request keeps the types, one case per action.
LEMMA TypeServe ==
  ASSUME TypeOK, NEW p \in Requests, Serve(p)
  PROVE  TypeOK'
<1> USE DEF TypeOK, LocalsOK, Procs, RequestPc, ListenPc, HoldsAcct, HoldsEvent,
            Advance, AdvanceAs, Leave, NoLocals, Goto, Home,
            AcctRow, CallType, db, subs, history, trouble
<1>1. CASE CreateFindKey(p)
  BY <1>1 DEF CreateFindKey
<1>2. CASE CreateFindUser(p)
  BY <1>2 DEF CreateFindUser
<1>3. CASE CreateInsert(p)
  BY <1>3 DEF CreateInsert, InsertAcct, FreshIds
<1>4. CASE CreateReread(p)
  BY <1>4 DEF CreateReread
<1>5. CASE ResubClose(p)
  BY <1>5 DEF ResubClose, Unsubscribe
<1>6. CASE ResubKeys(p)
  BY <1>6 DEF ResubKeys, ReadKeys, AcctKeys
<1>7. CASE ResubPut(p)
  BY <1>7 DEF ResubPut, Subscribe
<1>8. CASE DeleteFind(p)
  BY <1>8 DEF DeleteFind, AcctsOfUser
<1>9. CASE DeleteClose(p)
  BY <1>9 DEF DeleteClose, Unsubscribe
<1>10. CASE DeleteMessages(p)
  BY <1>10 DEF DeleteMessages, DeleteDms
<1>11. CASE DeleteAccount(p)
  BY <1>11 DEF DeleteAccount, DeleteAcct
<1>12. CASE DeleteKeys(p)
  BY <1>12 DEF DeleteKeys, ReadKeys, AcctKeys
<1>13. CASE DeletePut(p)
  BY <1>13 DEF DeletePut, Subscribe
<1>14. CASE GetFind(p)
  BY <1>14 DEF GetFind, AcctsOfUser
<1>15. CASE GetReset(p)
  <2>1. /\ peers \subseteq PeerRow /\ IsFiniteSet(peers)
        /\ ResetUnread(acct[p].id, call[p].key)
        /\ acct[p].id \in AcctIds /\ call[p].key \in Pubkeys
    BY <1>15 DEF GetReset
  <2>2. peers' \subseteq PeerRow /\ IsFiniteSet(peers')
    BY ONLY <2>1, ResetUnreadTyped
  <2>3. QED BY <1>15, <2>1, <2>2 DEF GetReset, ResetUnread
<1>16. CASE SendFind(p)
  BY <1>16 DEF SendFind, AcctsOfUser
<1>17. CASE SendInsert(p)
  <2>1. [event |-> evt[p], acct |-> acct[p].id, key |-> call[p].key,
         text |-> Text[evt[p]], incoming |-> FALSE] \in DmRow
    BY <1>17 DEF SendInsert, DmRow
  <2>2. dms' \subseteq DmRow
    BY <1>17, <2>1 DEF SendInsert, InsertDm
  <2>3. QED BY <1>17, <2>2 DEF SendInsert, InsertDm
<1>18. CASE SendReread(p)
  BY <1>18 DEF SendReread
<1>19. CASE PeerFind(p)
  BY <1>19 DEF PeerFind, AcctsOfUser
<1>20. CASE PeerGet(p)
  BY <1>20 DEF PeerGet
<1>21. CASE PeerInsert(p)
  <2>1. /\ peers \subseteq PeerRow /\ IsFiniteSet(peers)
        /\ InsertPeer(acct[p].id, call[p].key)
        /\ acct[p].id \in AcctIds /\ call[p].key \in Pubkeys
    BY <1>21 DEF PeerInsert
  <2>2. peers' \subseteq PeerRow /\ IsFiniteSet(peers')
    BY ONLY <2>1, InsertPeerTyped
  <2>3. QED BY <1>21, <2>1, <2>2 DEF PeerInsert, InsertPeer
<1>22. CASE PeerProfile(p)
  BY <1>22 DEF PeerProfile, RequestProfile
<1>23. CASE RefreshFind(p)
  BY <1>23 DEF RefreshFind, AcctsOfUser
<1>24. QED
  BY <1>1, <1>2, <1>3, <1>4, <1>5, <1>6, <1>7, <1>8, <1>9, <1>10, <1>11, <1>12,
     <1>13, <1>14, <1>15, <1>16, <1>17, <1>18, <1>19, <1>20, <1>21, <1>22, <1>23 DEF
     Serve
\* The same for the listener.
LEMMA TypeListen ==
  ASSUME TypeOK, Listen
  PROVE  TypeOK'
<1> USE DEF TypeOK, LocalsOK, Procs, RequestPc, ListenPc, HoldsAcct, HoldsEvent,
            Advance, AdvanceAs, Leave, NoLocals, Goto, Home,
            AcctRow, CallType, db, subs, history, trouble
<1>1. CASE ListenKeys
  BY <1>1 DEF ListenKeys, ReadKeys, AcctKeys
<1>2. CASE ListenPut
  BY <1>2 DEF ListenPut, Subscribe
<1>3. CASE ByAuthor
  BY <1>3 DEF ByAuthor, Outgoing, AcctsWithKey
<1>4. CASE ByTag
  BY <1>4 DEF ByTag, Outgoing, Incoming, AcctsWithKey
<1>5. CASE InGetPeer
  BY <1>5 DEF InGetPeer
<1>6. CASE InInsertPeer
  <2>1. /\ peers \subseteq PeerRow /\ IsFiniteSet(peers)
        /\ InsertPeer(acct[Listener].id, Author[evt[Listener]])
        /\ acct[Listener].id \in AcctIds /\ Author[evt[Listener]] \in Pubkeys
    BY <1>6 DEF InInsertPeer
  <2>2. peers' \subseteq PeerRow /\ IsFiniteSet(peers')
    BY ONLY <2>1, InsertPeerTyped
  <2>3. QED BY <1>6, <2>1, <2>2 DEF InInsertPeer, InsertPeer
<1>7. CASE InProfile
  BY <1>7 DEF InProfile, RequestProfile
<1>8. CASE InCount
  <2>1. /\ peers \subseteq PeerRow /\ IsFiniteSet(peers)
        /\ IncrementUnread(acct[Listener].id, Author[evt[Listener]])
        /\ acct[Listener].id \in AcctIds /\ Author[evt[Listener]] \in Pubkeys
    BY <1>8 DEF InCount
  <2>2. peers' \subseteq PeerRow /\ IsFiniteSet(peers')
    BY ONLY <2>1, IncrementUnreadTyped
  <2>3. QED BY <1>8, <2>1, <2>2 DEF InCount, IncrementUnread
<1>9. CASE InInsert
  <2> DEFINE row(t) == [event |-> evt[Listener], acct |-> acct[Listener].id,
                        key |-> Author[evt[Listener]], text |-> t, incoming |-> TRUE]
  <2>1. PICK t \in Texts : InsertDm(row(t))
    BY <1>9 DEF InInsert
  <2>2. row(t) \in DmRow
    BY <1>9 DEF InInsert, DmRow
  <2>3. dms' \subseteq DmRow
    BY <2>1, <2>2 DEF InsertDm
  <2>4. accts' = accts /\ peers' = peers /\ issued' = issued
    BY <2>1 DEF InsertDm
  <2>5. QED BY <1>9, <2>3, <2>4 DEF InInsert
<1>10. CASE InReread
  BY <1>10 DEF InReread
<1>11. CASE OutInsert
  <2> DEFINE row(t) == [event |-> evt[Listener], acct |-> acct[Listener].id,
                        key |-> PTag[evt[Listener]], text |-> t, incoming |-> FALSE]
  <2>1. PICK t \in Texts : InsertDm(row(t))
    BY <1>11 DEF OutInsert
  <2>2. row(t) \in DmRow
    BY <1>11 DEF OutInsert, DmRow
  <2>3. dms' \subseteq DmRow
    BY <2>1, <2>2 DEF InsertDm
  <2>4. accts' = accts /\ peers' = peers /\ issued' = issued
    BY <2>1 DEF InsertDm
  <2>5. QED BY <1>11, <2>3, <2>4 DEF OutInsert
<1>12. CASE OutReread
  BY <1>12 DEF OutReread
<1>13. QED
  BY <1>1, <1>2, <1>3, <1>4, <1>5, <1>6, <1>7, <1>8, <1>9, <1>10, <1>11, <1>12 DEF Listen

\* Every step of the system keeps the types and the locals of TypeOK.
LEMMA TypeNext == TypeOK /\ [Next]_vars => TypeOK'
<1> SUFFICES ASSUME TypeOK, [Next]_vars PROVE TypeOK'
  OBVIOUS
<1>1. ASSUME NEW p \in Requests, Request(p) PROVE TypeOK'
  BY <1>1 DEF Request, Goto, Entry, Ops, CallType, TypeOK, LocalsOK, Procs, RequestPc,
              ListenPc, HoldsAcct, HoldsEvent, db, subs, history, trouble
<1>2. ASSUME NEW p \in Requests, Serve(p) PROVE TypeOK'
  BY <1>2, TypeServe
<1>3. CASE Listen
  BY <1>3, TypeListen
<1>4. ASSUME NEW e \in Events, Deliver(e) PROVE TypeOK'
  BY <1>4 DEF Deliver, Goto, TypeOK, LocalsOK, Procs, RequestPc, ListenPc, HoldsAcct,
              HoldsEvent, db, subs, history, trouble
<1>5. ASSUME NEW k \in Pubkeys, NEW t \in ProfileTimes, DeliverProfile(k, t)
      PROVE  TypeOK'
  <2>1. peers \subseteq PeerRow /\ IsFiniteSet(peers) /\ UpdateProfile(k, t)
    BY <1>5 DEF DeliverProfile, TypeOK
  <2>2. peers' \subseteq PeerRow /\ IsFiniteSet(peers')
    BY ONLY <2>1, t \in ProfileTimes, UpdateProfileTyped
  <2>3. QED
    BY <1>5, <2>2 DEF DeliverProfile, UpdateProfile, TypeOK, LocalsOK, locals, subs,
                      history, trouble
<1>6. ASSUME NEW p \in Procs, Fault(p) PROVE TypeOK'
  BY <1>6 DEF Fault, Advance, Goto, Leave, NoLocals, Home, TypeOK, LocalsOK, Procs,
              RequestPc, ListenPc, HoldsAcct, HoldsEvent, db, subs, history
<1>7. CASE Crash
  <2> USE <1>7 DEF Crash, Procs
  <2>1. LocalsOK'
    BY DEF LocalsOK, HoldsAcct, HoldsEvent
  <2>2. /\ pc' \in [Procs -> RequestPc \cup ListenPc]
        /\ pc'[Listener] \in ListenPc /\ \A p \in Requests : pc'[p] \in RequestPc
    BY DEF RequestPc, ListenPc
  <2>3. /\ call' \in [Procs -> CallType \cup {NoCall}]
        /\ acct' \in [Procs -> AcctRow \cup {NoAcct}]
        /\ evt' \in [Procs -> Events \cup {NoEvent}]
        /\ keys' \in [Procs -> SUBSET Pubkeys]
    OBVIOUS
  <2>4. faults' \in 0..MaxFaults /\ failed' \in BOOLEAN
    <3>1. faults \in 0..MaxFaults /\ faults < MaxFaults /\ faults' = faults + 1
      BY DEF TypeOK
    <3>2. MaxFaults \in Nat
      BY ChatServerAssumption DEF ChatServerAssumption
    <3>3. faults' \in 0..MaxFaults
      BY ONLY <3>1, <3>2
    <3>4. QED BY <3>3
  <2>5. /\ issued' \subseteq AcctRow /\ accts' \subseteq issued' /\ dms' \subseteq DmRow
        /\ peers' \subseteq PeerRow /\ IsFiniteSet(peers')
        /\ built' \subseteq LocalEvents /\ published' \subseteq built'
        /\ pushed' \subseteq [event : Events, acct : AcctIds]
        /\ opened' \subseteq [acct : AcctIds, key : Pubkeys]
    BY DEF TypeOK, db, history
  <2>6. QED BY ONLY <1>7, <2>1, <2>2, <2>3, <2>4, <2>5 DEF TypeOK, Crash
<1>8. CASE UNCHANGED vars
  BY <1>8 DEF vars, db, locals, subs, history, trouble, TypeOK, LocalsOK, HoldsAcct, HoldsEvent
<1>9. QED
  BY <1>1, <1>2, <1>3, <1>4, <1>5, <1>6, <1>7, <1>8 DEF Next, Relays

\* Types, and the locals of every handler, in every reachable state: no handler
\* goes on with an account or an event it did not look up (TypeOK).
THEOREM TypeCorrect == Spec => []TypeOK
<1>1. Init => TypeOK
  BY TypeInit
<1>2. TypeOK /\ [Next]_vars => TypeOK'
  BY TypeNext
<1>3. QED BY <1>1, <1>2, PTL DEF Spec
-----------------------------------------------------------------------------
(***************************************************************************)
(* Covered is inductive with the types.                                    *)
(***************************************************************************)

\* Every step of a request keeps Covered, one case per action.
LEMMA CoveredServe ==
  ASSUME TypeOK, Covered, NEW p \in Requests, Serve(p)
  PROVE  Covered'
<1> /\ p \in Procs /\ p # Listener
    /\ pc \in [Procs -> RequestPc \cup ListenPc]
    /\ acct \in [Procs -> AcctRow \cup {NoAcct}]
    /\ keys \in [Procs -> SUBSET Pubkeys]
  BY ChatServerAssumption DEF ChatServerAssumption, TypeOK, Procs
<1> USE DEF Covered, OpenFor, WillSubscribe, ReadsAllKeys,
            Advance, AdvanceAs, Leave, NoLocals, Goto, Home, db, subs, trouble
<1>1. CASE CreateFindKey(p)
  BY <1>1 DEF CreateFindKey
<1>2. CASE CreateFindUser(p)
  BY <1>2 DEF CreateFindUser
<1>3. CASE CreateInsert(p)
  BY <1>3 DEF CreateInsert, InsertAcct
<1>4. CASE CreateReread(p)
  BY <1>4 DEF CreateReread
<1>5. CASE ResubClose(p)
  BY <1>5 DEF ResubClose, Unsubscribe
<1>6. CASE ResubKeys(p)
  BY <1>6 DEF ResubKeys, ReadKeys, AcctKeys
<1>7. CASE ResubPut(p)
  BY <1>7 DEF ResubPut, Subscribe
<1>8. CASE DeleteFind(p)
  BY <1>8 DEF DeleteFind
<1>9. CASE DeleteClose(p)
  BY <1>9 DEF DeleteClose, Unsubscribe
<1>10. CASE DeleteMessages(p)
  BY <1>10 DEF DeleteMessages, DeleteDms
<1>11. CASE DeleteAccount(p)
  BY <1>11 DEF DeleteAccount, DeleteAcct
<1>12. CASE DeleteKeys(p)
  BY <1>12 DEF DeleteKeys, ReadKeys, AcctKeys
<1>13. CASE DeletePut(p)
  BY <1>13 DEF DeletePut, Subscribe
<1>14. CASE GetFind(p)
  BY <1>14 DEF GetFind
<1>15. CASE GetReset(p)
  BY <1>15 DEF GetReset, ResetUnread
<1>16. CASE SendFind(p)
  BY <1>16 DEF SendFind
<1>17. CASE SendInsert(p)
  BY <1>17 DEF SendInsert, InsertDm
<1>18. CASE SendReread(p)
  BY <1>18 DEF SendReread
<1>19. CASE PeerFind(p)
  BY <1>19 DEF PeerFind
<1>20. CASE PeerGet(p)
  BY <1>20 DEF PeerGet
<1>21. CASE PeerInsert(p)
  BY <1>21 DEF PeerInsert, InsertPeer
<1>22. CASE PeerProfile(p)
  BY <1>22 DEF PeerProfile, RequestProfile
<1>23. CASE RefreshFind(p)
  BY <1>23 DEF RefreshFind
<1>24. QED
  BY <1>1, <1>2, <1>3, <1>4, <1>5, <1>6, <1>7, <1>8, <1>9, <1>10, <1>11, <1>12,
     <1>13, <1>14, <1>15, <1>16, <1>17, <1>18, <1>19, <1>20, <1>21, <1>22, <1>23 DEF
     Serve

\* Every step of the listener keeps Covered.
LEMMA CoveredListen ==
  ASSUME TypeOK, Covered, Listen
  PROVE  Covered'
<1> /\ Listener \in Procs
    /\ pc \in [Procs -> RequestPc \cup ListenPc]
    /\ acct \in [Procs -> AcctRow \cup {NoAcct}]
    /\ keys \in [Procs -> SUBSET Pubkeys]
  BY DEF TypeOK, Procs
<1> USE DEF Covered, OpenFor, WillSubscribe, ReadsAllKeys,
            Advance, AdvanceAs, Leave, NoLocals, Goto, Home, db, subs, trouble
<1>1. CASE ListenKeys
  BY <1>1 DEF ListenKeys, ReadKeys, AcctKeys
<1>2. CASE ListenPut
  BY <1>2 DEF ListenPut, Subscribe
<1>3. CASE ByAuthor
  BY <1>3 DEF ByAuthor, Outgoing
<1>4. CASE ByTag
  BY <1>4 DEF ByTag, Outgoing, Incoming
<1>5. CASE InGetPeer
  BY <1>5 DEF InGetPeer
<1>6. CASE InInsertPeer
  BY <1>6 DEF InInsertPeer, InsertPeer
<1>7. CASE InProfile
  BY <1>7 DEF InProfile, RequestProfile
<1>8. CASE InCount
  BY <1>8 DEF InCount, IncrementUnread
<1>9. CASE InInsert
  BY <1>9 DEF InInsert, InsertDm
<1>10. CASE InReread
  BY <1>10 DEF InReread
<1>11. CASE OutInsert
  BY <1>11 DEF OutInsert, InsertDm
<1>12. CASE OutReread
  BY <1>12 DEF OutReread
<1>13. QED
  BY <1>1, <1>2, <1>3, <1>4, <1>5, <1>6, <1>7, <1>8, <1>9, <1>10, <1>11, <1>12 DEF Listen

\* Every step of the system keeps Covered: faults and crashes included.
LEMMA CoveredNext == TypeOK /\ Covered /\ [Next]_vars => Covered'
<1> SUFFICES ASSUME TypeOK, Covered, [Next]_vars PROVE Covered'
  OBVIOUS
<1> /\ Listener \in Procs
    /\ pc \in [Procs -> RequestPc \cup ListenPc]
    /\ acct \in [Procs -> AcctRow \cup {NoAcct}]
    /\ keys \in [Procs -> SUBSET Pubkeys]
    /\ pc[Listener] \in ListenPc
    /\ failed \in BOOLEAN
  BY DEF TypeOK, Procs
<1> USE DEF Covered, OpenFor, WillSubscribe, ReadsAllKeys, ListenPc,
            Advance, Leave, NoLocals, Goto, Home, db, locals, subs, trouble
<1>1. ASSUME NEW p \in Requests, Request(p) PROVE Covered'
  BY <1>1 DEF Request
<1>2. ASSUME NEW p \in Requests, Serve(p) PROVE Covered'
  BY <1>2, CoveredServe
<1>3. CASE Listen
  BY <1>3, CoveredListen
<1>4. ASSUME NEW e \in Events, Deliver(e) PROVE Covered'
  BY <1>4 DEF Deliver
<1>5. ASSUME NEW k \in Pubkeys, NEW t \in ProfileTimes, DeliverProfile(k, t)
      PROVE  Covered'
  BY <1>5 DEF DeliverProfile, UpdateProfile
<1>6. ASSUME NEW p \in Procs, Fault(p) PROVE Covered'
  <2>1. CASE p # Listener
    BY <1>6, <2>1 DEF Fault
  <2>2. CASE p = Listener /\ pc[p] \in {"listen_keys", "listen_put"}
    BY <1>6, <2>2 DEF Fault
  <2>3. CASE p = Listener /\ pc[p] \notin {"listen_keys", "listen_put"}
    BY <1>6, <2>3 DEF Fault
  <2>4. QED BY <2>1, <2>2, <2>3
<1>7. CASE Crash
  BY <1>7 DEF Crash
<1>8. CASE UNCHANGED vars
  BY <1>8 DEF vars
<1>9. QED
  BY <1>1, <1>2, <1>3, <1>4, <1>5, <1>6, <1>7, <1>8 DEF Next, Relays

\* No account goes deaf (Covered), for any number of concurrent requests.
THEOREM EveryAccountCovered == Spec => []Covered
<1>1. Init => Covered
  BY DEF Init, Covered, WillSubscribe, ReadsAllKeys, Procs
<1>2. TypeOK /\ Covered /\ [Next]_vars => Covered'
  BY CoveredNext
<1>3. QED BY <1>1, <1>2, TypeCorrect, PTL DEF Spec
-----------------------------------------------------------------------------
(***************************************************************************)
(* IncomingHasPeer.  The listener has a peer row in hand before it stores  *)
(* the message; no statement deletes one.                                  *)
(***************************************************************************)
PeerInHand ==
  pc[Listener] \in {"in_count", "in_profile", "in_insert"} =>
    PeersOf(acct[Listener].id, Author[evt[Listener]]) # {}

PeerInv == IncomingHasPeer /\ PeerInHand

\* What a step may do to the table of peers.
PeersTouched ==
  \/ UNCHANGED peers
  \/ \E i, j :
       InsertPeer(i, j) \/ IncrementUnread(i, j) \/ ResetUnread(i, j)
  \/ \E j, t : UpdateProfile(j, t)

\* The statements on peers change rows but never lose an (account, key).
LEMMA PeersStay ==
  ASSUME PeersTouched, peers \subseteq PeerRow,
         NEW id, NEW k, PeersOf(id, k) # {}
  PROVE  PeersOf(id, k)' # {}
<1>1. PICK p \in peers : p.acct = id /\ p.key = k
  BY DEF PeersOf
<1>2. ASSUME NEW q \in peers', q.acct = id, q.key = k PROVE PeersOf(id, k)' # {}
  BY <1>2 DEF PeersOf
<1>3. CASE UNCHANGED peers
  BY <1>1, <1>2, <1>3
<1>4. CASE \E i, j : InsertPeer(i, j)
  BY <1>1, <1>2, <1>4 DEF InsertPeer
<1>5. CASE \E i, j : IncrementUnread(i, j)
  <2>1. PICK i, j : IncrementUnread(i, j)
    BY <1>5
  <2>2. (IF p.acct = i /\ p.key = j THEN [p EXCEPT !.unread = @ + 1] ELSE p) \in peers'
    BY <1>1, <2>1 DEF IncrementUnread
  <2>3. QED BY <1>1, <1>2, <2>2 DEF PeerRow
<1>6. CASE \E i, j : ResetUnread(i, j)
  <2>1. PICK i, j : ResetUnread(i, j)
    BY <1>6
  <2>2. (IF p.acct = i /\ p.key = j THEN [p EXCEPT !.unread = 0] ELSE p) \in peers'
    BY <1>1, <2>1 DEF ResetUnread
  <2>3. QED BY <1>1, <1>2, <2>2 DEF PeerRow
<1>7. CASE \E j, t : UpdateProfile(j, t)
  <2>1. PICK j, t : UpdateProfile(j, t)
    BY <1>7
  <2>2. (IF p.key = j THEN [p EXCEPT !.profile = t] ELSE p) \in peers'
    BY <1>1, <2>1 DEF UpdateProfile
  <2>3. QED BY <1>1, <1>2, <2>2 DEF PeerRow
<1>8. QED BY <1>3, <1>4, <1>5, <1>6, <1>7 DEF PeersTouched

\* No step of the system makes an (account, key) lose its peer rows.
LEMMA NextKeepsPeers ==
  ASSUME TypeOK, [Next]_vars, NEW id, NEW k, PeersOf(id, k) # {}
  PROVE  PeersOf(id, k)' # {}
<1>1. PeersTouched
  <2> USE DEF db, PeersTouched
  <2>1. ASSUME NEW p \in Requests, Serve(p) PROVE PeersTouched
    <3>1. CASE GetReset(p)
      BY <3>1 DEF GetReset
    <3>2. CASE PeerInsert(p)
      BY <3>2 DEF PeerInsert
    <3>3. CASE ~GetReset(p) /\ ~PeerInsert(p)
      <4>1. UNCHANGED peers
        BY <2>1, <3>3 DEF Serve,
          CreateFindKey, CreateFindUser, CreateInsert, CreateReread, ResubClose,
          ResubKeys, ResubPut, DeleteFind, DeleteClose, DeleteMessages, DeleteAccount,
          DeleteKeys, DeletePut, GetFind, SendFind, SendInsert, SendReread, PeerFind,
          PeerGet, PeerProfile, RefreshFind, DeleteAcct, DeleteDms, InsertAcct,
          InsertDm, ReadKeys
      <4>2. QED BY <4>1
    <3>4. QED BY <3>1, <3>2, <3>3
  <2>2. CASE Listen
    <3>1. CASE InInsertPeer
      BY <3>1 DEF InInsertPeer
    <3>2. CASE InCount
      BY <3>2 DEF InCount
    <3>3. CASE ~InInsertPeer /\ ~InCount
      <4>1. UNCHANGED peers
        BY <2>2, <3>3 DEF Listen,
          ListenKeys, ListenPut, ByAuthor, ByTag, InGetPeer, InProfile, InInsert,
          InReread, OutInsert, OutReread, ReadKeys, InsertDm
      <4>2. QED BY <4>1
    <3>4. QED BY <3>1, <3>2, <3>3
  <2>3. ASSUME NEW k2 \in Pubkeys, NEW t2 \in ProfileTimes, DeliverProfile(k2, t2)
        PROVE  PeersTouched
    BY <2>3 DEF DeliverProfile
  <2>4. CASE \/ \E p \in Requests : Request(p)
             \/ \E e \in Events : Deliver(e)
             \/ \E p \in Procs : Fault(p)
             \/ Crash
             \/ UNCHANGED vars
    BY <2>4 DEF Request, Deliver, Fault, Crash, vars
  <2>5. QED BY <2>1, <2>2, <2>3, <2>4 DEF Next, Relays
<1>2. QED BY <1>1, PeersStay DEF TypeOK
\* A process only ever writes its own local variables.
OthersUntouched(p) ==
  \A q \in Procs \ {p} : /\ pc'[q] = pc[q] /\ call'[q] = call[q] /\ acct'[q] = acct[q]
                          /\ evt'[q] = evt[q] /\ keys'[q] = keys[q]

\* The steps of a process leave the locals of all others alone.
LEMMA StepsAreLocal ==
  ASSUME TypeOK
  PROVE  /\ \A p \in Requests : Request(p) \/ Serve(p) => OthersUntouched(p)
         /\ Listen => OthersUntouched(Listener)
         /\ \A e \in Events : Deliver(e) => OthersUntouched(Listener)
         /\ \A p \in Procs : Fault(p) => OthersUntouched(p)
<1> /\ pc \in [Procs -> RequestPc \cup ListenPc]
    /\ call \in [Procs -> CallType \cup {NoCall}]
    /\ acct \in [Procs -> AcctRow \cup {NoAcct}]
    /\ evt \in [Procs -> Events \cup {NoEvent}]
    /\ keys \in [Procs -> SUBSET Pubkeys]
  BY DEF TypeOK
<1> USE DEF OthersUntouched, Advance, AdvanceAs, Leave, NoLocals, Goto
<1>1. ASSUME NEW p \in Requests, Request(p) PROVE OthersUntouched(p)
  BY <1>1 DEF Request
<1>2. ASSUME NEW p \in Requests, Serve(p) PROVE OthersUntouched(p)
  BY <1>2 DEF Serve,
      CreateFindKey, CreateFindUser, CreateInsert, CreateReread, ResubClose,
      ResubKeys, ResubPut, DeleteFind, DeleteClose, DeleteMessages, DeleteAccount,
      DeleteKeys, DeletePut, GetFind, GetReset, SendFind, SendInsert, SendReread,
      PeerFind, PeerGet, PeerInsert, PeerProfile, RefreshFind, ReadKeys
<1>3. ASSUME Listen PROVE OthersUntouched(Listener)
  BY <1>3 DEF Listen,
      ListenKeys, ListenPut, ByAuthor, ByTag, InGetPeer, InInsertPeer, InProfile,
      InCount, InInsert, InReread, OutInsert, OutReread, ReadKeys, Outgoing,
      Incoming
<1>4. ASSUME NEW e \in Events, Deliver(e) PROVE OthersUntouched(Listener)
  BY <1>4 DEF Deliver
<1>5. ASSUME NEW p \in Procs, Fault(p) PROVE OthersUntouched(p)
  BY <1>5 DEF Fault
<1>6. QED BY <1>1, <1>2, <1>3, <1>4, <1>5

\* Who writes the table of messages: rows go only in DELETE /nostracct, an
\* incoming row comes only from the listener, any row comes from three places.
LEMMA DmsWriters ==
  ASSUME [Next]_vars
  PROVE  \/ UNCHANGED dms
         \/ \E p \in Requests : DeleteMessages(p) \/ SendInsert(p)
         \/ InInsert \/ OutInsert
<1>1. ASSUME NEW p \in Requests, Serve(p), ~DeleteMessages(p), ~SendInsert(p)
      PROVE  UNCHANGED dms
  BY <1>1 DEF Serve, db,
      CreateFindKey, CreateFindUser, CreateInsert, CreateReread, ResubClose,
      ResubKeys, ResubPut, DeleteFind, DeleteClose, DeleteAccount, DeleteKeys,
      DeletePut, GetFind, GetReset, SendFind, SendReread, PeerFind, PeerGet,
      PeerInsert, PeerProfile, RefreshFind, ReadKeys, InsertAcct, DeleteAcct,
      ResetUnread, InsertPeer
<1>2. ASSUME Listen, ~InInsert, ~OutInsert PROVE UNCHANGED dms
  BY <1>2 DEF Listen, db,
      ListenKeys, ListenPut, ByAuthor, ByTag, InGetPeer, InInsertPeer, InProfile,
      InCount, InReread, OutReread, ReadKeys, InsertPeer, IncrementUnread
<1>3. CASE \/ \E p \in Requests : Request(p)
           \/ \E e \in Events : Deliver(e)
           \/ \E k \in Pubkeys, t \in ProfileTimes : DeliverProfile(k, t)
           \/ \E p \in Procs : Fault(p)
           \/ Crash
           \/ UNCHANGED vars
  BY <1>3 DEF Request, Deliver, DeliverProfile, UpdateProfile, Fault, Crash, vars, db
<1>4. QED BY <1>1, <1>2, <1>3 DEF Next, Relays

\* A new incoming row of dms can only come from InInsert.
LEMMA OnlyInInsert ==
  ASSUME [Next]_vars, NEW d \in dms', d \notin dms, d.incoming
  PROVE  InInsert
BY DmsWriters DEF DeleteMessages, DeleteDms, SendInsert, OutInsert, InsertDm

\* Every step keeps PeerInv.
LEMMA PeerNext == TypeOK /\ PeerInv /\ [Next]_vars => PeerInv'
<1> SUFFICES ASSUME TypeOK, PeerInv, [Next]_vars PROVE PeerInv'
  OBVIOUS
<1>1. PeerInHand'
  <2> USE DEF PeerInHand, PeerInv
  <2>1. ASSUME pc'[Listener] = pc[Listener], acct'[Listener] = acct[Listener],
               evt'[Listener] = evt[Listener]
        PROVE  PeerInHand'
    BY <2>1, NextKeepsPeers
  <2>2. ASSUME pc'[Listener] \notin {"in_count", "in_profile", "in_insert"}
        PROVE  PeerInHand'
    BY <2>2
  <2>3. ASSUME NEW p \in Requests, Request(p) \/ Serve(p) PROVE PeerInHand'
    BY <2>1, <2>3, StepsAreLocal, ChatServerAssumption
       DEF OthersUntouched, Procs, ChatServerAssumption
  <2>4. CASE Listen
    <3> pc \in [Procs -> RequestPc \cup ListenPc] /\ Listener \in Procs
      BY DEF TypeOK, Procs
    <3> USE DEF Advance, AdvanceAs, Leave, Goto, Home, NoLocals
    <3>1. CASE ListenKeys
      BY <2>2, <3>1 DEF ListenKeys, ReadKeys
    <3>2. CASE ListenPut
      BY <2>2, <3>2 DEF ListenPut
    <3>3. CASE ByAuthor
      BY <2>2, <3>3 DEF ByAuthor, Outgoing
    <3>4. CASE ByTag
      BY <2>2, <3>4 DEF ByTag, Outgoing, Incoming
    <3>5. CASE InGetPeer
      BY <3>5 DEF InGetPeer, db, PeersOf
    <3>6. CASE InInsertPeer
      <4>1. PeersOf(acct[Listener].id, Author[evt[Listener]])' # {}
        <5>1. PICK row \in peers' : /\ row.acct = acct[Listener].id
                                    /\ row.key = Author[evt[Listener]]
          BY <3>6, InsertPeerAdds DEF InInsertPeer
        <5>2. acct' = acct /\ evt' = evt
          BY <3>6 DEF InInsertPeer
        <5>3. QED BY <5>1, <5>2 DEF PeersOf
      <4>2. QED BY <3>6, <4>1 DEF InInsertPeer
    <3>7. CASE InProfile
      <4>1. PeersOf(acct[Listener].id, Author[evt[Listener]])' # {}
        <5>1. PeersOf(acct[Listener].id, Author[evt[Listener]]) # {}
          BY <3>7 DEF InProfile
        <5>2. acct' = acct /\ evt' = evt
          BY <3>7 DEF InProfile
        <5>3. QED BY <5>1, <5>2, NextKeepsPeers
      <4>2. QED BY <4>1
    <3>8. CASE InCount
      <4>1. PeersOf(acct[Listener].id, Author[evt[Listener]])' # {}
        <5>1. PeersOf(acct[Listener].id, Author[evt[Listener]]) # {}
          BY <3>8 DEF InCount
        <5>2. acct' = acct /\ evt' = evt
          BY <3>8 DEF InCount
        <5>3. QED BY <5>1, <5>2, NextKeepsPeers
      <4>2. QED BY <4>1
    <3>9. CASE InInsert
      BY <2>2, <3>9 DEF InInsert
    <3>10. CASE InReread
      BY <2>2, <3>10 DEF InReread
    <3>11. CASE OutInsert
      BY <2>2, <3>11 DEF OutInsert
    <3>12. CASE OutReread
      BY <2>2, <3>12 DEF OutReread
    <3>13. QED
      BY <2>4, <3>1, <3>2, <3>3, <3>4, <3>5, <3>6, <3>7, <3>8, <3>9,
         <3>10, <3>11, <3>12 DEF Listen
  <2>5. ASSUME NEW e \in Events, Deliver(e) PROVE PeerInHand'
    BY <2>2, <2>5 DEF Deliver, Goto, TypeOK, Procs
  <2>6. ASSUME NEW p \in Procs, Fault(p) PROVE PeerInHand'
    <3>1. CASE p = Listener
      BY <2>2, <2>6, <3>1 DEF Fault, Advance, Goto, Leave, Home, TypeOK, Procs
    <3>2. CASE p # Listener
      BY <2>1, <2>6, <3>2, StepsAreLocal DEF OthersUntouched, Procs
    <3>3. QED BY <3>1, <3>2
  <2>7. CASE Crash
    BY <2>2, <2>7 DEF Crash, Procs
  <2>8. ASSUME NEW k \in Pubkeys, NEW t \in ProfileTimes, DeliverProfile(k, t)
        PROVE  PeerInHand'
    BY <2>1, <2>8 DEF DeliverProfile, locals
  <2>9. CASE UNCHANGED vars
    BY <2>1, <2>9 DEF vars, locals
  <2>10. QED
    BY <2>3, <2>4, <2>5, <2>6, <2>7, <2>8, <2>9 DEF Next, Relays
<1>2. IncomingHasPeer'
  <2>1. ASSUME NEW d \in dms', d.incoming PROVE PeersOf(d.acct, d.key)' # {}
    <3>1. CASE d \in dms
      BY <2>1, <3>1, NextKeepsPeers DEF PeerInv, IncomingHasPeer
    <3>2. CASE d \notin dms
      <4>1. InInsert
        BY <2>1, <3>2, OnlyInInsert
      <4>2. d.acct = acct[Listener].id /\ d.key = Author[evt[Listener]]
        BY <3>2, <4>1 DEF InInsert, InsertDm
      <4>3. PeersOf(d.acct, d.key) # {}
        BY <4>1, <4>2 DEF InInsert, PeerInv, PeerInHand
      <4>4. QED BY <4>3, NextKeepsPeers
    <3>3. QED BY <3>1, <3>2
  <2>2. QED BY <2>1 DEF IncomingHasPeer
<1>3. QED BY <1>1, <1>2 DEF PeerInv

\* Every incoming message has a peer row (IncomingHasPeer).
THEOREM IncomingIsVisible == Spec => []IncomingHasPeer
<1>1. Init => PeerInv
  BY DEF Init, PeerInv, IncomingHasPeer, PeerInHand, Procs
<1>2. TypeOK /\ PeerInv /\ [Next]_vars => PeerInv'
  BY PeerNext
<1>3. PeerInv => IncomingHasPeer
  BY DEF PeerInv
<1>4. QED BY <1>1, <1>2, <1>3, TypeCorrect, PTL DEF Spec
-----------------------------------------------------------------------------
(***************************************************************************)
(* The server implements Mailbox.  What has to be known of a handler is    *)
(* that the account it holds is the one its event concerns.                *)
(***************************************************************************)
SenderFiles(p) ==
  pc[p] \in {"send_insert", "send_reread"} =>
    Author[evt[p]] = acct[p].key /\ PTag[evt[p]] = call[p].key

ListenerFiles ==
  /\ pc[Listener] \in {"in_get_peer", "in_insert_peer", "in_profile", "in_count",
                       "in_insert", "in_reread"} => PTag[evt[Listener]] = acct[Listener].key
  /\ pc[Listener] \in {"out_insert", "out_reread"} =>
       Author[evt[Listener]] = acct[Listener].key

Filing == ListenerFiles /\ \A p \in Requests : SenderFiles(p)

\* A request holds the account its event was built from until it is published.
LEMMA ServeFiles ==
  ASSUME TypeOK, Filing, NEW p \in Requests, Request(p) \/ Serve(p)
  PROVE  SenderFiles(p)'
<1> /\ p \in Procs
    /\ pc \in [Procs -> RequestPc \cup ListenPc]
    /\ acct \in [Procs -> AcctRow \cup {NoAcct}]
    /\ evt \in [Procs -> Events \cup {NoEvent}]
  BY DEF TypeOK, Procs
<1>1. CASE Request(p)
  BY <1>1 DEF SenderFiles, Request, Goto, Entry, Ops, CallType, ChatServerAssumption
<1>2. CASE SendFind(p)
  BY <1>2, ChatServerAssumption DEF SenderFiles, SendFind, AcctsOfUser, Goto, Leave,
     Home, ChatServerAssumption, Procs
<1>3. CASE SendInsert(p)
  BY <1>3 DEF SenderFiles, SendInsert, Advance, Goto, Filing
<1>4. ASSUME Serve(p), ~SendFind(p), ~SendInsert(p)
      PROVE  pc'[p] \notin {"send_insert", "send_reread"}
  BY <1>4 DEF Serve, Advance, AdvanceAs, Leave, Goto, Home, ReadKeys,
      CreateFindKey, CreateFindUser, CreateInsert, CreateReread, ResubClose,
      ResubKeys, ResubPut, DeleteFind, DeleteClose, DeleteMessages, DeleteAccount,
      DeleteKeys, DeletePut, GetFind, GetReset, SendReread, PeerFind, PeerGet,
      PeerInsert, PeerProfile, RefreshFind
<1>5. QED BY <1>1, <1>2, <1>3, <1>4 DEF SenderFiles

\* The listener holds the account its event concerns until it is stored.
LEMMA ListenFiles ==
  ASSUME TypeOK, Filing, Listen
  PROVE  ListenerFiles'
<1> /\ Listener \in Procs
    /\ pc \in [Procs -> RequestPc \cup ListenPc]
    /\ acct \in [Procs -> AcctRow \cup {NoAcct}]
  BY DEF TypeOK, Procs
<1> USE DEF ListenerFiles, Filing, Advance, AdvanceAs, Leave, NoLocals, Goto, Home
<1>1. CASE ListenKeys
  BY <1>1 DEF ListenKeys, ReadKeys
<1>2. CASE ListenPut
  BY <1>2 DEF ListenPut
<1>3. CASE ByAuthor
  BY <1>3 DEF ByAuthor, Outgoing, AcctsWithKey
<1>4. CASE ByTag
  BY <1>4 DEF ByTag, Outgoing, Incoming, AcctsWithKey
<1>5. CASE InGetPeer
  BY <1>5 DEF InGetPeer
<1>6. CASE InInsertPeer
  BY <1>6 DEF InInsertPeer
<1>7. CASE InProfile
  BY <1>7 DEF InProfile
<1>8. CASE InCount
  BY <1>8 DEF InCount
<1>9. CASE InInsert
  BY <1>9 DEF InInsert
<1>10. CASE InReread
  BY <1>10 DEF InReread
<1>11. CASE OutInsert
  BY <1>11 DEF OutInsert
<1>12. CASE OutReread
  BY <1>12 DEF OutReread
<1>13. QED
  BY <1>1, <1>2, <1>3, <1>4, <1>5, <1>6, <1>7, <1>8, <1>9, <1>10, <1>11, <1>12 DEF Listen

\* Every step of the system keeps Filing.
LEMMA FilingNext == TypeOK /\ Filing /\ [Next]_vars => Filing'
<1> SUFFICES ASSUME TypeOK, Filing, [Next]_vars PROVE Filing'
  OBVIOUS
<1> /\ Listener \in Procs /\ Listener \notin Requests /\ Requests \subseteq Procs
    /\ pc \in [Procs -> RequestPc \cup ListenPc]
  BY ChatServerAssumption DEF ChatServerAssumption, TypeOK, Procs
<1>1. ASSUME NEW p \in Procs, OthersUntouched(p),
             p = Listener => ListenerFiles', p \in Requests => SenderFiles(p)'
      PROVE  Filing'
  BY <1>1 DEF OthersUntouched, Filing, ListenerFiles, SenderFiles, Procs
<1>2. ASSUME NEW p \in Requests, Request(p) \/ Serve(p) PROVE Filing'
  BY <1>1, <1>2, ServeFiles, StepsAreLocal
<1>3. CASE Listen
  BY <1>1, <1>3, ListenFiles, StepsAreLocal
<1>4. ASSUME NEW e \in Events, Deliver(e) PROVE Filing'
  <2>1. ListenerFiles'
    BY <1>4 DEF Deliver, Goto, ListenerFiles
  <2>2. QED BY <1>1, <1>4, <2>1, StepsAreLocal
<1>5. ASSUME NEW p \in Procs, Fault(p) PROVE Filing'
  <2>1. pc'[p] \in {"delete_keys", "listen_keys", "wait", "idle"}
    BY <1>5 DEF Fault, Advance, Goto, Leave, Home
  <2>2. QED BY <1>1, <1>5, <2>1, StepsAreLocal DEF ListenerFiles, SenderFiles
<1>6. CASE Crash
  BY <1>6 DEF Crash, Filing, ListenerFiles, SenderFiles
<1>7. CASE UNCHANGED locals
  BY <1>7 DEF locals, Filing, ListenerFiles, SenderFiles
<1>8. ASSUME NEW k \in Pubkeys, NEW t \in ProfileTimes, DeliverProfile(k, t)
      PROVE  Filing'
  BY <1>7, <1>8 DEF DeliverProfile
<1>9. QED
  BY <1>2, <1>3, <1>4, <1>5, <1>6, <1>7, <1>8 DEF Next, Relays, vars

\* Whoever of the two it concerns decrypts an event reads what its author wrote.
LEMMA TextIsRead ==
  ASSUME evt[Listener] \in Events, PTag[evt[Listener]] # NoKey, NEW a, NEW key, NEW t,
         {a.key, key} = {Author[evt[Listener]], PTag[evt[Listener]]},
         Reads(a, key, t)
  PROVE  t = Text[evt[Listener]] \/ evt[Listener] \in Garbled
<1> DEFINE e == evt[Listener]
           secret == {Author[e], PTag[e]}
<1>1. SharedSecret(a.key, key) = secret /\ SharedSecret(Author[e], PTag[e]) = secret
  BY DEF SharedSecret, CopyX, EcdhPoint
<1>2. CASE e \in LocalEvents
  BY <1>1, <1>2 DEF Reads, Content, Built, Encrypted, DecryptsTo
<1>3. CASE e \notin LocalEvents /\ e \notin Garbled
  BY <1>1, <1>3 DEF Reads, Content, Received, Encrypted, Unencrypted, DecryptsTo, NoSecret
<1>4. QED BY <1>2, <1>3

\* Every step of the server is a step of Mailbox, or leaves the box alone.
LEMMA StepRefines == TypeOK /\ Filing /\ [Next]_vars => [Box!Next]_(Box!vars)
<1> SUFFICES ASSUME TypeOK, Filing, [Next]_vars PROVE [Box!Next]_(Box!vars)
  OBVIOUS
<1> USE DEF Box!vars
<1>1. ASSUME NEW p \in Requests, CreateInsert(p) PROVE Box!Enroll
  <2>1. PICK id \in FreshIds :
          InsertAcct([id |-> id, user |-> call[p].user, key |-> call[p].key])
    BY <1>1 DEF CreateInsert
  <2> DEFINE row == [id |-> id, user |-> call[p].user, key |-> call[p].key]
  <2>2. row \in Box!Row
    BY <1>1 DEF CreateInsert, TypeOK, LocalsOK, CallType, FreshIds, Box!Row, Procs
  <2>3. \A m \in issued : m.id # row.id
    BY DEF FreshIds, IssuedIds
  <2>4. issued' = issued \cup {row} /\ dms' = dms /\ published' = published
    BY <1>1, <2>1 DEF InsertAcct, CreateInsert, history
  <2>5. QED BY <2>2, <2>3, <2>4 DEF Box!Enroll
<1>2. ASSUME NEW row \in DmRow, NEW m \in issued, InsertDm(row), published' = published,
             Box!Concerns(row, m)
      PROVE  [Box!Next]_(Box!vars)
  <2>1. CASE \E d \in dms : d.event = row.event
    BY <1>2, <2>1 DEF InsertDm
  <2>2. CASE \A d \in dms : d.event # row.event
    <3>1. dms' = dms \cup {row} /\ issued' = issued
      BY <1>2, <2>2 DEF InsertDm
    <3>2. row \in Box!Filed
      BY DEF DmRow, Box!Filed
    <3>3. QED BY <1>2, <2>2, <3>1, <3>2 DEF Box!Next, Box!File
  <2>3. QED BY <2>1, <2>2
<1>3. ASSUME NEW p \in Requests, SendInsert(p) PROVE [Box!Next]_(Box!vars)
  <2> DEFINE row == [event |-> evt[p], acct |-> acct[p].id, key |-> call[p].key,
                     text |-> Text[evt[p]], incoming |-> FALSE]
  <2>1. acct[p] \in issued /\ row \in DmRow
    BY <1>3 DEF SendInsert, TypeOK, LocalsOK, HoldsAcct, HoldsEvent,
       AcctRow, CallType, DmRow, Procs
  <2>2. Box!Concerns(row, acct[p])
    BY <1>3 DEF SendInsert, Filing, SenderFiles, Box!Concerns
  <2>3. InsertDm(row) /\ published' = published
    BY <1>3 DEF SendInsert, history
  <2> HIDE DEF row
  <2>4. QED BY <1>2, <2>1, <2>2, <2>3
<1>4. CASE InInsert
  <2> DEFINE row(t) == [event |-> evt[Listener], acct |-> acct[Listener].id,
                        key |-> Author[evt[Listener]], text |-> t, incoming |-> TRUE]
  <2>1. PICK t \in Texts : /\ Reads(acct[Listener], Author[evt[Listener]], t)
                          /\ InsertDm(row(t))
    BY <1>4 DEF InInsert
  <2>2. /\ acct[Listener] \in issued
        /\ evt[Listener] \in Events /\ PTag[evt[Listener]] # NoKey
    BY <1>4 DEF InInsert, TypeOK, LocalsOK, HoldsAcct, HoldsEvent, Procs
  <2>3. row(t) \in DmRow
    BY <2>2 DEF DmRow, TypeOK, AcctRow
  <2>4. {acct[Listener].key, Author[evt[Listener]]}
          = {Author[evt[Listener]], PTag[evt[Listener]]}
    BY <1>4 DEF InInsert, Filing, ListenerFiles
  <2>5. t = Text[evt[Listener]] \/ evt[Listener] \in Garbled
    BY <2>1, <2>2, <2>4, TextIsRead
  <2>6. Box!Concerns(row(t), acct[Listener])
    BY <1>4, <2>5 DEF InInsert, Filing, ListenerFiles, Box!Concerns
  <2>7. published' = published
    BY <1>4 DEF InInsert, history
  <2>8. QED BY <1>2, <2>1, <2>2, <2>3, <2>6, <2>7
<1>5. CASE OutInsert
  <2> DEFINE row(t) == [event |-> evt[Listener], acct |-> acct[Listener].id,
                        key |-> PTag[evt[Listener]], text |-> t, incoming |-> FALSE]
  <2>1. PICK t \in Texts : /\ Reads(acct[Listener], PTag[evt[Listener]], t)
                          /\ InsertDm(row(t))
    BY <1>5 DEF OutInsert
  <2>2. /\ acct[Listener] \in issued
        /\ evt[Listener] \in Events /\ PTag[evt[Listener]] # NoKey
    BY <1>5 DEF OutInsert, TypeOK, LocalsOK, HoldsAcct, HoldsEvent, Procs
  <2>3. row(t) \in DmRow
    BY <2>2 DEF DmRow, TypeOK, AcctRow
  <2>4. {acct[Listener].key, PTag[evt[Listener]]}
          = {Author[evt[Listener]], PTag[evt[Listener]]}
    BY <1>5 DEF OutInsert, Filing, ListenerFiles
  <2>5. t = Text[evt[Listener]] \/ evt[Listener] \in Garbled
    BY <2>1, <2>2, <2>4, TextIsRead
  <2>6. Box!Concerns(row(t), acct[Listener])
    BY <1>5, <2>5 DEF OutInsert, Filing, ListenerFiles, Box!Concerns
  <2>7. published' = published
    BY <1>5 DEF OutInsert, history
  <2>8. QED BY <1>2, <2>1, <2>2, <2>3, <2>6, <2>7
<1>6. ASSUME NEW p \in Requests, DeleteMessages(p) PROVE Box!Purge
  <2>1. acct[p] \in issued
    BY <1>6 DEF DeleteMessages, TypeOK, LocalsOK, HoldsAcct, Procs
  <2>2. QED BY <1>6, <2>1 DEF DeleteMessages, DeleteDms, history, Box!Purge
<1>7. ASSUME NEW p \in Requests, SendReread(p) PROVE [Box!Next]_(Box!vars)
  <2>1. issued' = issued /\ dms' = dms
    BY <1>7 DEF SendReread, db
  <2>2. CASE DmsOfEvent(acct[p].id, evt[p]) = {}
    BY <1>7, <2>1, <2>2 DEF SendReread
  <2>3. CASE DmsOfEvent(acct[p].id, evt[p]) # {}
    <3>1. PICK f \in dms : f.acct = acct[p].id /\ f.event = evt[p]
      BY <2>3 DEF DmsOfEvent
    <3>2. acct[p] \in issued /\ acct[p].key = Author[f.event]
      BY <1>7, <3>1 DEF SendReread, TypeOK, LocalsOK, HoldsAcct, Procs, Filing, SenderFiles
    <3>3. published' = published \cup {f.event}
      BY <1>7, <2>3, <3>1 DEF SendReread
    <3>4. QED BY <2>1, <3>1, <3>2, <3>3 DEF Box!Next, Box!Send
  <2>4. QED BY <2>2, <2>3
<1>8. ASSUME NEW p \in Requests, Serve(p), ~CreateInsert(p), ~SendInsert(p),
             ~DeleteMessages(p), ~SendReread(p)
      PROVE  UNCHANGED Box!vars
  BY <1>8 DEF Serve, db, history,
      CreateFindKey, CreateFindUser, CreateReread, ResubClose, ResubKeys,
      ResubPut, DeleteFind, DeleteClose, DeleteAccount, DeleteKeys, DeletePut,
      GetFind, GetReset, SendFind, PeerFind, PeerGet, PeerInsert, PeerProfile,
      RefreshFind, ReadKeys, DeleteAcct, ResetUnread, InsertPeer
<1>9. ASSUME Listen, ~InInsert, ~OutInsert PROVE UNCHANGED Box!vars
  BY <1>9 DEF Listen, db, history,
      ListenKeys, ListenPut, ByAuthor, ByTag, InGetPeer, InInsertPeer, InProfile,
      InCount, InReread, OutReread, ReadKeys, InsertPeer, IncrementUnread
<1>10. CASE \/ \E p \in Requests : Request(p)
            \/ \E e \in Events : Deliver(e)
            \/ \E k \in Pubkeys, t \in ProfileTimes : DeliverProfile(k, t)
            \/ \E p \in Procs : Fault(p)
            \/ Crash
            \/ UNCHANGED vars
  BY <1>10 DEF Request, Deliver, DeliverProfile, UpdateProfile, Fault, Crash, vars, db, history
<1>11. QED
  BY <1>1, <1>3, <1>4, <1>5, <1>6, <1>7, <1>8, <1>9, <1>10 DEF Next, Relays, Box!Next

\* The server implements Mailbox (ImplementsMailbox): messages are stored once,
\* where they belong and as they were written, and published only when stored.
THEOREM Refinement == Spec => ImplementsMailbox
<1>1. Init => Box!Init /\ Filing
  BY ChatServerAssumption DEF Init, Box!Init, Box!Row, AcctRow, ChatServerAssumption,
     Filing, ListenerFiles, SenderFiles, Procs
<1>2. TypeOK /\ Filing /\ [Next]_vars => Filing'
  BY FilingNext
<1>3. TypeOK /\ Filing /\ [Next]_vars => [Box!Next]_(Box!vars)
  BY StepRefines
<1>4. QED BY <1>1, <1>2, <1>3, TypeCorrect, PTL DEF Spec, ImplementsMailbox, Box!Spec
=============================================================================
