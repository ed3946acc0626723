----------------------------- MODULE PeersList ------------------------------
(***************************************************************************)
(* The list of peers in the browser (index.js), with their names and the   *)
(* counters of unread messages: when it is asked for, and what it shows.   *)
(* The table of peers is a version number, which every write to it raises: *)
(* a message that arrives, a chat that is read, a profile, a new peer.     *)
(*                                                                         *)
(* Timers are untimed: one that is set fires at some later point.  (It is  *)
(* set again, for 300 ms, by refreshPeers(), which the chat box calls at   *)
(* most once a second.)                                                    *)
(***************************************************************************)
EXTENDS Naturals

CONSTANTS
  MaxVersion,   \* bound: writes to the table of peers
  MaxFaults     \* bound: requests that fail

ASSUME PeersListAssumption == MaxVersion \in Nat /\ MaxFaults \in Nat

VARIABLES
  version,      \* server: version of the table of peers
  listed,       \* version of the peers shown
  listing,      \* GET /peer under way: how many the server has yet to serve
  lists,        \* the versions it answered with
  inProgress,   \* peerRefreshInProgress
  timer,        \* peerRefreshTimeout is set
  adding,       \* a POST /peer was served and is to be answered
  faults        \* number of faults

vars == <<version, listed, listing, lists, inProgress, timer, adding, faults>>

\* The account is known: the watcher of its id asks for the peers.
Init ==
  /\ version = 0 /\ listed = 0
  /\ listing = 1 /\ lists = {} /\ inProgress = TRUE /\ timer = FALSE
  /\ adding = FALSE /\ faults = 0

-----------------------------------------------------------------------------
\* Mutants: a request is made anyway; the second request is forgotten.
GetPeersAnyway ==
  /\ timer' = FALSE
  /\ listing' = listing + 1 /\ inProgress' = TRUE
  /\ UNCHANGED <<listed, lists>>

GetPeersOnce ==
  /\ timer' = FALSE
  /\ listing' = IF inProgress THEN listing ELSE listing + 1
  /\ inProgress' = TRUE
  /\ UNCHANGED <<listed, lists>>

\* getPeers(): "If a refresh is already in progress, schedule another one".
GetPeers ==
  /\ timer' = inProgress
  /\ listing' = IF inProgress THEN listing ELSE listing + 1
  /\ inProgress' = TRUE
  /\ UNCHANGED <<listed, lists>>

\* refreshPeers(): the chat box handled a message.
RefreshPeers ==
  /\ timer' = TRUE
  /\ UNCHANGED <<version, listed, listing, lists, inProgress, adding, faults>>

RefreshFires == timer /\ GetPeers /\ UNCHANGED <<version, adding, faults>>

\* addPeer(): the server writes; its answer makes the page ask for the list.
AddPeer ==
  /\ ~adding /\ adding' = TRUE
  /\ version < MaxVersion /\ version' = version + 1
  /\ UNCHANGED <<listed, listing, lists, inProgress, timer, faults>>

AddPeerAnswer == adding /\ adding' = FALSE /\ GetPeers /\ UNCHANGED <<version, faults>>

\* The answer is lost, or the server failed after it wrote.
AddPeerFail ==
  /\ faults < MaxFaults /\ faults' = faults + 1
  /\ adding /\ adding' = FALSE
  /\ UNCHANGED <<version, listed, listing, lists, inProgress, timer>>

\* The server writes for other reasons.
PeersWritten ==
  /\ version < MaxVersion /\ version' = version + 1
  /\ UNCHANGED <<listed, listing, lists, inProgress, timer, adding, faults>>

ServePeers ==
  /\ listing > 0 /\ listing' = listing - 1
  /\ lists' = lists \cup {version}
  /\ UNCHANGED <<version, listed, inProgress, timer, adding, faults>>

PeersAnswer ==
  /\ \E v \in lists : lists' = lists \ {v} /\ listed' = v
  /\ inProgress' = FALSE
  /\ UNCHANGED <<version, listing, timer, adding, faults>>

PeersFail ==
  /\ faults < MaxFaults /\ faults' = faults + 1
  /\ \/ listing > 0 /\ listing' = listing - 1 /\ UNCHANGED lists
     \/ \E v \in lists : lists' = lists \ {v} /\ UNCHANGED listing
  /\ inProgress' = FALSE
  /\ UNCHANGED <<version, listed, timer, adding>>

-----------------------------------------------------------------------------
Next ==
  \/ RefreshPeers \/ RefreshFires \/ AddPeer \/ AddPeerAnswer \/ AddPeerFail
  \/ PeersWritten \/ ServePeers \/ PeersAnswer \/ PeersFail

Spec == Init /\ [][Next]_vars

(***************************************************************************)
(* Timers fire, the server answers, and what it answers arrives.           *)
(***************************************************************************)
Fairness == WF_vars(RefreshFires) /\ WF_vars(ServePeers) /\ WF_vars(PeersAnswer)

FairSpec == Spec /\ Fairness

-----------------------------------------------------------------------------
(***************************************************************************)
(* Properties.                                                             *)
(***************************************************************************)
\* The request of GET /peer under way: to be served, or answered with a version
\* that is no older than what is shown.
OneRequest ==
  \/ listing = 1 /\ lists = {}
  \/ listing = 0 /\ \E v \in listed..version : lists = {v}

\* Types; peerRefreshInProgress says whether a request is under way, and there is
\* never more than one, whoever asked for the peers and whatever failed.
TypeOK ==
  /\ version \in 0..MaxVersion /\ listed \in 0..version
  /\ inProgress \in BOOLEAN /\ timer \in BOOLEAN /\ adding \in BOOLEAN
  /\ faults \in Nat
  /\ IF inProgress THEN OneRequest ELSE listing = 0 /\ lists = {}

\* The list of peers, with its counters, is never replaced by an older one:
\* answers cannot overtake each other, for there is never more than one.
PeersNeverOlder == [][listed' >= listed]_vars

\* A refresh that was asked for reads the table after it was asked for, though
\* another may be in progress and more may be asked for meanwhile.  A request
\* that fails is not made again.
RefreshSees ==
  \A v \in 0..MaxVersion : (timer /\ version = v) ~> (listed >= v \/ faults > 0)
=============================================================================
