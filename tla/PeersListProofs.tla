-------------------------- MODULE PeersListProofs ---------------------------
(***************************************************************************)
(* Theorems about PeersList, for any number of writes, refreshes and       *)
(* failed requests.  TypeOK is inductive as it stands: its part OneRequest *)
(* ties peerRefreshInProgress to the request under way.                    *)
(***************************************************************************)
EXTENDS PeersList, TLAPS

\* The page starts with one request under way.
LEMMA InitTypes == Init => TypeOK
<1> SUFFICES ASSUME Init PROVE TypeOK
  OBVIOUS
<1>1. version \in 0..MaxVersion /\ listed \in 0..version /\ faults \in Nat
  BY PeersListAssumption DEF PeersListAssumption, Init
<1>2. inProgress /\ OneRequest
  BY DEF Init, OneRequest
<1>3. inProgress \in BOOLEAN /\ timer \in BOOLEAN /\ adding \in BOOLEAN
  BY DEF Init
<1> QED
  BY <1>1, <1>2, <1>3 DEF TypeOK

\* getPeers() keeps to one request, whoever calls it.
LEMMA GetPeersTypes ==
  ASSUME TypeOK, GetPeers, UNCHANGED <<version, faults>>, adding' \in BOOLEAN
  PROVE  TypeOK'
BY DEF TypeOK, OneRequest, GetPeers

\* No step makes peerRefreshInProgress wrong, or lets an answer be older than what
\* is shown.
LEMMA NextTypes == TypeOK /\ [Next]_vars => TypeOK'
<1> SUFFICES ASSUME TypeOK, [Next]_vars PROVE TypeOK'
  OBVIOUS
<1> USE PeersListAssumption DEF PeersListAssumption
<1>1. CASE RefreshPeers
  BY <1>1 DEF RefreshPeers, TypeOK, OneRequest
<1>2. CASE RefreshFires
  BY <1>2, GetPeersTypes DEF RefreshFires, TypeOK
<1>3. CASE AddPeer
  <2>1. version' \in 0..MaxVersion /\ listed' \in 0..version' /\ faults' \in Nat
    BY <1>3 DEF AddPeer, TypeOK
  <2>2. OneRequest => OneRequest'
    BY <1>3 DEF AddPeer, TypeOK, OneRequest
  <2> QED
    BY <1>3, <2>1, <2>2, Zenon DEF AddPeer, TypeOK
<1>4. CASE AddPeerAnswer
  BY <1>4, GetPeersTypes DEF AddPeerAnswer
<1>5. CASE AddPeerFail
  <2>1. faults' \in Nat
    BY <1>5 DEF AddPeerFail, TypeOK
  <2> QED
    BY <1>5, <2>1, Zenon DEF AddPeerFail, TypeOK, OneRequest
<1>6. CASE PeersWritten
  <2>1. version' \in 0..MaxVersion /\ listed' \in 0..version' /\ faults' \in Nat
    BY <1>6 DEF PeersWritten, TypeOK
  <2>2. OneRequest => OneRequest'
    BY <1>6 DEF PeersWritten, TypeOK, OneRequest
  <2> QED
    BY <1>6, <2>1, <2>2, Zenon DEF PeersWritten, TypeOK
<1>7. CASE ServePeers
  <2>1. inProgress /\ listing = 1 /\ lists = {}
    BY <1>7 DEF ServePeers, TypeOK, OneRequest
  <2>2. listing' = 0 /\ lists' = {version} /\ version \in listed..version
    BY <1>7, <2>1 DEF ServePeers, TypeOK
  <2>3. OneRequest'
    BY <1>7, <2>2, Zenon DEF ServePeers, OneRequest
  <2> QED
    BY <1>7, <2>1, <2>3, Zenon DEF ServePeers, TypeOK
<1>8. CASE PeersAnswer
  <2>1. PICK v \in lists : lists' = lists \ {v} /\ listed' = v
    BY <1>8 DEF PeersAnswer
  <2>2. inProgress /\ OneRequest
    BY <2>1 DEF TypeOK
  <2>3. listing = 0 /\ lists = {v} /\ v \in listed..version
    BY <2>1, <2>2 DEF OneRequest
  <2>4. listed' \in 0..version'
    BY <1>8, <2>1, <2>3 DEF PeersAnswer, TypeOK
  <2>5. listing' = 0 /\ lists' = {}
    BY <1>8, <2>1, <2>3 DEF PeersAnswer
  <2> QED
    BY <1>8, <2>4, <2>5, Zenon DEF PeersAnswer, TypeOK
<1>9. CASE PeersFail
  <2>1. faults' \in Nat
    BY <1>9 DEF PeersFail, TypeOK
  <2>2. inProgress /\ OneRequest
    BY <1>9 DEF PeersFail, TypeOK
  <2>3. listing' = 0 /\ lists' = {}
    BY <1>9, <2>2 DEF PeersFail, OneRequest
  <2> QED
    BY <1>9, <2>1, <2>3, Zenon DEF PeersFail, TypeOK
<1>10. CASE UNCHANGED vars
  BY <1>10 DEF vars, TypeOK, OneRequest
<1> QED
  BY <1>1, <1>2, <1>3, <1>4, <1>5, <1>6, <1>7, <1>8, <1>9, <1>10 DEF Next

\* peerRefreshInProgress is right and there is never more than one GET /peer under
\* way, however timers, answers and failures interleave.
THEOREM PeersTypeCorrect == Spec => []TypeOK
BY InitTypes, NextTypes, PTL DEF Spec

\* Only an answer changes what is shown, and it is no older.
LEMMA StepNeverOlder ==
  ASSUME TypeOK, [Next]_vars PROVE [listed' >= listed]_vars
<1>1. CASE PeersAnswer
  BY <1>1 DEF PeersAnswer, TypeOK, OneRequest
<1>2. CASE listed' = listed
  BY <1>2 DEF TypeOK
<1> QED
  BY <1>1, <1>2 DEF Next, vars, GetPeers, RefreshPeers, RefreshFires, AddPeer,
     AddPeerAnswer, AddPeerFail, PeersWritten, ServePeers, PeersFail

\* The list of peers is never replaced by an older one.
THEOREM ListNeverOlder == Spec => PeersNeverOlder
<1>1. TypeOK /\ [Next]_vars => [listed' >= listed]_vars
  BY StepNeverOlder
<1> QED
  BY <1>1, PeersTypeCorrect, PTL DEF Spec, PeersNeverOlder
=============================================================================
