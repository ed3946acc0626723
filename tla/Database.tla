------------------------------ MODULE Database ------------------------------
(***************************************************************************)
(* The three tables of the extension (migrations.py) and the statements    *)
(* crud.py runs on them.  Every statement is one transaction: an operator  *)
(* below is the effect of one statement on the whole database.  A row is a *)
(* record; only the columns some behaviour depends on are kept.            *)
(***************************************************************************)
EXTENDS Naturals, FiniteSets

CONSTANTS
  Users,         \* wallet owners of the LNbits server
  Pubkeys,       \* Nostr public keys, of accounts and of other people
  AcctIds,       \* what urlsafe_short_hash() may return for accounts
  Events,        \* ids of the kind 4 events (direct messages) there may be
  Texts,         \* what messages may say
  ProfileTimes,  \* created_at of the kind 0 events (profiles) there may be
  NoProfile      \* a peer row whose profile was never received

ASSUME DatabaseAssumption ==
  /\ AcctIds \subseteq Nat
  /\ NoProfile \notin ProfileTimes

VARIABLES
  accts,   \* table nostraccts
  dms,     \* table direct_messages; event is the UNIQUE column event_id
  peers,   \* table peers, which has no key: copy tells equal rows apart
  issued   \* history: every row that was ever inserted in nostraccts

db == <<accts, dms, peers, issued>>

AcctRow == [id : AcctIds, user : Users, key : Pubkeys]
DmRow   == [event : Events, acct : AcctIds, key : Pubkeys, text : Texts,
            incoming : BOOLEAN]
PeerRow == [acct : AcctIds, key : Pubkeys, copy : Nat, unread : Nat,
            profile : ProfileTimes \cup {NoProfile}]

(***************************************************************************)
(* SELECTs.  fetchone returns any one of the rows that match.              *)
(***************************************************************************)
AcctsOfUser(u)    == {a \in accts : a.user = u}
AcctsWithKey(k)   == {a \in accts : a.key = k}
AcctKeys          == {a.key : a \in accts}
DmsOfEvent(id, e) == {d \in dms : d.acct = id /\ d.event = e}
PeersOf(id, k)    == {p \in peers : p.acct = id /\ p.key = k}

IssuedIds == {a.id : a \in issued}

(***************************************************************************)
(* Accounts.  The id is a fresh hash: it was never used before, not even   *)
(* by a row that is gone.  Ids are only compared for equality, so they may *)
(* as well be handed out in order.                                         *)
(***************************************************************************)
FreshIds == {id \in AcctIds \ IssuedIds :
               \A other \in AcctIds \ IssuedIds : id <= other}

InsertAcct(row) ==
  /\ accts' = accts \cup {row}
  /\ issued' = issued \cup {row}
  /\ UNCHANGED <<dms, peers>>

DeleteAcct(id) ==
  /\ accts' = {a \in accts : a.id # id}
  /\ UNCHANGED <<dms, peers, issued>>

(***************************************************************************)
(* Messages: ON CONFLICT(event_id) DO NOTHING, whichever account the row   *)
(* that is already there belongs to.                                       *)
(***************************************************************************)
InsertDm(row) ==
  /\ dms' = IF \E d \in dms : d.event = row.event THEN dms ELSE dms \cup {row}
  /\ UNCHANGED <<accts, peers, issued>>

DeleteDms(id) ==
  /\ dms' = {d \in dms : d.acct # id}
  /\ UNCHANGED <<accts, peers, issued>>

(***************************************************************************)
(* Peers.  The INSERT names neither unread_messages nor event_created_at:  *)
(* the first takes its DEFAULT 1, the second is null.  No statement ever   *)
(* deletes a peer.                                                         *)
(***************************************************************************)
\* Mutant: the DEFAULT of unread_messages is that of models.Peer.
InsertPeerUnread0(id, k) ==
  /\ peers' = peers \cup {[acct |-> id, key |-> k,
                           copy |-> Cardinality(PeersOf(id, k)),
                           unread |-> 0, profile |-> NoProfile]}
  /\ UNCHANGED <<accts, dms, issued>>

InsertPeer(id, k) ==
  /\ peers' = peers \cup {[acct |-> id, key |-> k,
                           copy |-> Cardinality(PeersOf(id, k)),
                           unread |-> 1, profile |-> NoProfile]}
  /\ UNCHANGED <<accts, dms, issued>>

IncrementUnread(id, k) ==
  /\ peers' = {IF p.acct = id /\ p.key = k
                 THEN [p EXCEPT !.unread = @ + 1] ELSE p : p \in peers}
  /\ UNCHANGED <<accts, dms, issued>>

ResetUnread(id, k) ==
  /\ peers' = {IF p.acct = id /\ p.key = k
                 THEN [p EXCEPT !.unread = 0] ELSE p : p \in peers}
  /\ UNCHANGED <<accts, dms, issued>>

UpdateProfile(k, t) ==
  /\ peers' = {IF p.key = k THEN [p EXCEPT !.profile = t] ELSE p : p \in peers}
  /\ UNCHANGED <<accts, dms, issued>>
=============================================================================
