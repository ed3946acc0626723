----------------------------- MODULE AcctConfig -----------------------------
(***************************************************************************)
(* The configuration of an account: the column meta of nostraccts, a JSON  *)
(* text that two API calls change by reading all of it, changing one field *)
(* and writing all of it back, with awaits in between (views_api.py).      *)
(* The page asks the user before it calls them.  "active" decides nothing  *)
(* in the server; event_id names the kind 5 event that announced on Nostr  *)
(* that the account is deleted.                                            *)
(*                                                                         *)
(* Accounts are created and deleted in one step here: ChatServer shows the *)
(* statements.  The column time, which GET /nostracct touches, is left out.*)
(***************************************************************************)
EXTENDS Database

CONSTANTS
  Tabs,       \* browser tabs, each with at most one request at a time
  User,       \* the user they all belong to
  InitAccts,  \* the accounts there are at the start
  NoAcct, NoEvent,
  MaxCalls,   \* bound: calls of the API
  MaxTime,    \* bound: seconds that pass
  MaxFaults   \* bound: failed statements and crashes

ASSUME AcctConfigAssumption ==
  /\ User \in Users /\ InitAccts \subseteq AcctRow
  /\ \A a, b \in InitAccts : a.id = b.id => a = b
  /\ NoAcct \notin AcctIds
  /\ MaxCalls \in Nat /\ MaxTime \in Nat /\ MaxFaults \in Nat

VARIABLES
  meta,     \* column meta of each account: [active, event]
  pc,       \* what each tab, or its request, waits for
  acct,     \* the account a tab shows, and its request is about
  config,   \* nostracct.config, as the handler will write it
  now,      \* round(time.time())
  sent,     \* kind 5 events handed to the relays
  odd,      \* history: accounts that were toggled an odd number of times
  last,     \* history: the last event sent for each account
  overlap,  \* history: a handler read meta while another was about to write it
  cut,      \* history: a fault cut off a request that had sent an event
  calls, faults

handler == <<pc, acct, config>>
history == <<odd, last, overlap, cut>>
counts  == <<calls, faults>>
vars    == <<db, meta, handler, now, sent, history, counts>>

\* An event's id is the hash of its author, its second, its kind, and of content
\* that is the same each time: the name of an account is never set.
DeleteEvent(k) == [key |-> k, at |-> now]
DeleteEvents   == [key : Pubkeys, at : 0..MaxTime]
Config         == [active : BOOLEAN, event : DeleteEvents \cup {NoEvent}]
Default        == [active |-> FALSE, event |-> NoEvent]

Init ==
  /\ accts = InitAccts /\ issued = InitAccts /\ dms = {} /\ peers = {}
  /\ meta = [id \in AcctIds |-> Default]
  /\ pc = [p \in Tabs |-> "idle"] /\ acct = [p \in Tabs |-> NoAcct]
  /\ config = [p \in Tabs |-> Default]
  /\ now = 0 /\ sent = {}
  /\ odd = {} /\ last = [id \in AcctIds |-> NoEvent] /\ overlap = FALSE /\ cut = FALSE
  /\ calls = 0 /\ faults = 0

Goto(p, l) == pc' = [pc EXCEPT ![p] = l]
Leave(p) == /\ Goto(p, "idle")
            /\ acct' = [acct EXCEPT ![p] = NoAcct] /\ config' = [config EXCEPT ![p] = Default]

Writing(id) == {p \in Tabs : pc[p] \in {"toggle_update", "retract_update"} /\ acct[p] = id}

-----------------------------------------------------------------------------
(***************************************************************************)
(* A tab shows the user's account and calls the API with its id.           *)
(***************************************************************************)
\* Mutant: whether or not there is an account to show.
CallAnyway(p, l) ==
  /\ pc[p] = "idle" /\ calls < MaxCalls /\ calls' = calls + 1
  /\ Goto(p, l)
  /\ UNCHANGED <<db, meta, acct, config, now, sent, history, faults>>

Call(p, l) ==
  /\ pc[p] = "idle" /\ calls < MaxCalls /\ calls' = calls + 1
  /\ \E a \in AcctsOfUser(User) : acct' = [acct EXCEPT ![p] = a.id]
  /\ Goto(p, l)
  /\ UNCHANGED <<db, meta, config, now, sent, history, faults>>

\* The user is asked first, and may take a while.
Confirming == {"toggle_confirm", "retract_confirm"}

AskToggle(p)  == Call(p, "toggle_confirm")
AskRetract(p) == Call(p, "retract_confirm")
Confirm(p) ==
  /\ pc[p] \in Confirming
  /\ Goto(p, IF pc[p] = "toggle_confirm" THEN "toggle_find" ELSE "retract_find")
  /\ UNCHANGED <<db, meta, acct, config, now, sent, history, counts>>

AskRepublish(p) == Call(p, "republish_find")

-----------------------------------------------------------------------------
(***************************************************************************)
(* The handlers.  Each reads the row of the user; "Wrong nostracct ID"     *)
(* unless it is the one the tab knows.                                     *)
(***************************************************************************)
Found(p) == {a \in AcctsOfUser(User) : a.id = acct[p]}

\* The handler will write c; somebody else may be about to write, too.
Read(p, l, c) ==
  /\ Goto(p, l) /\ config' = [config EXCEPT ![p] = c] /\ UNCHANGED acct
  /\ overlap' = (overlap \/ Writing(acct[p]) # {})

Fails(p) == Found(p) = {} /\ Leave(p) /\ UNCHANGED <<sent, last, overlap>>

\* Mutant: what is written is not based on what the row holds.
ToggleFindAnew(p) ==
  /\ pc[p] = "toggle_find"
  /\ \/ /\ Found(p) # {}
        /\ Read(p, "toggle_update", [Default EXCEPT !.active = ~meta[acct[p]].active])
        /\ UNCHANGED <<sent, last>>
     \/ Fails(p)
  /\ UNCHANGED <<db, meta, now, odd, cut, counts>>

ToggleFind(p) ==
  /\ pc[p] = "toggle_find"
  /\ \/ /\ Found(p) # {}
        /\ Read(p, "toggle_update", [meta[acct[p]] EXCEPT !.active = ~@])
        /\ UNCHANGED <<sent, last>>
     \/ Fails(p)
  /\ UNCHANGED <<db, meta, now, odd, cut, counts>>

\* update_nostracct_to_nostr(nostracct, True): built, signed and published, and
\* then its id is put into config.
RetractFind(p) ==
  /\ pc[p] = "retract_find"
  /\ \/ \E a \in Found(p) :
          /\ Read(p, "retract_update", [meta[a.id] EXCEPT !.event = DeleteEvent(a.key)])
          /\ sent' = sent \cup {DeleteEvent(a.key)}
          /\ last' = [last EXCEPT ![a.id] = DeleteEvent(a.key)]
     \/ Fails(p)
  /\ UNCHANGED <<db, meta, now, odd, cut, counts>>

\* update_nostracct_to_nostr(nostracct): "profile updates not supported yet", and
\* so the assertion that there is an event fails.
RepublishFind(p) ==
  /\ pc[p] = "republish_find"
  /\ Leave(p)
  /\ UNCHANGED <<db, meta, now, sent, history, counts>>

\* Mutant: the row is looked for by its user alone.
WriteUsers(p) ==
  \E a \in AcctsOfUser(User) : meta' = [meta EXCEPT ![a.id] = config[p]]

\* UPDATE ... WHERE id AND user_id: nothing happens when the row is gone.
Write(p) ==
  IF Found(p) = {} THEN UNCHANGED meta ELSE meta' = [meta EXCEPT ![acct[p]] = config[p]]

ToggleUpdate(p) ==
  /\ pc[p] = "toggle_update"
  /\ Write(p)
  /\ odd' = IF acct[p] \in odd THEN odd \ {acct[p]} ELSE odd \cup {acct[p]}
  /\ Leave(p)
  /\ UNCHANGED <<db, now, sent, last, overlap, cut, counts>>

\* Mutant: the update of the row is left out.
RetractUpdateSkipped(p) ==
  /\ pc[p] = "retract_update"
  /\ Leave(p)
  /\ UNCHANGED <<db, meta, now, sent, history, counts>>

RetractUpdate(p) ==
  /\ pc[p] = "retract_update"
  /\ Write(p)
  /\ Leave(p)
  /\ UNCHANGED <<db, now, sent, history, counts>>

-----------------------------------------------------------------------------
(***************************************************************************)
(* Around them: accounts come and go, time passes, statements fail.        *)
(***************************************************************************)
Create(k) ==
  /\ AcctsWithKey(k) = {} /\ AcctsOfUser(User) = {}
  /\ \E id \in FreshIds : InsertAcct([id |-> id, user |-> User, key |-> k])
  /\ UNCHANGED <<meta, handler, now, sent, history, counts>>

Delete(a) ==
  /\ a \in AcctsOfUser(User) /\ DeleteAcct(a.id)
  /\ UNCHANGED <<meta, handler, now, sent, history, counts>>

Tick ==
  /\ now < MaxTime /\ now' = now + 1
  /\ UNCHANGED <<db, meta, handler, sent, history, counts>>

Fault(p) ==
  /\ pc[p] \notin Confirming \cup {"idle"} /\ faults < MaxFaults /\ faults' = faults + 1
  /\ Leave(p)
  /\ cut' = (cut \/ pc[p] = "retract_update")
  /\ UNCHANGED <<db, meta, now, sent, odd, last, overlap, calls>>

\* The tabs stay open, and get no answer.
Crash ==
  /\ faults < MaxFaults /\ faults' = faults + 1
  /\ pc' = [p \in Tabs |-> IF pc[p] \in Confirming THEN pc[p] ELSE "idle"]
  /\ acct' = [p \in Tabs |-> IF pc[p] \in Confirming THEN acct[p] ELSE NoAcct]
  /\ config' = [p \in Tabs |-> Default]
  /\ cut' = (cut \/ \E p \in Tabs : pc[p] = "retract_update")
  /\ UNCHANGED <<db, meta, now, sent, odd, last, overlap, calls>>

-----------------------------------------------------------------------------
Serve(p) == ToggleFind(p) \/ ToggleUpdate(p) \/ RetractFind(p) \/ RetractUpdate(p)
              \/ RepublishFind(p)

Next ==
  \/ \E p \in Tabs : AskToggle(p) \/ Confirm(p) \/ AskRetract(p) \/ AskRepublish(p)
                       \/ Serve(p) \/ Fault(p)
  \/ \E k \in Pubkeys : Create(k)
  \/ \E a \in accts : Delete(a)
  \/ Tick \/ Crash

Spec == Init /\ [][Next]_vars

\* Handlers that are under way go on; nobody has to call, or to confirm.
FairSpec == Spec /\ \A p \in Tabs : WF_vars(Serve(p))

-----------------------------------------------------------------------------
(***************************************************************************)
(* Properties.                                                             *)
(***************************************************************************)
Awaits == Confirming \cup {"idle", "toggle_find", "toggle_update", "retract_find",
                           "retract_update", "republish_find"}

TypeOK ==
  /\ issued \subseteq AcctRow /\ accts \subseteq issued
  /\ \A a, b \in issued : a.id = b.id => a = b
  /\ meta \in [AcctIds -> Config]
  /\ pc \in [Tabs -> Awaits] /\ acct \in [Tabs -> AcctIds \cup {NoAcct}]
  /\ config \in [Tabs -> Config]
  /\ now \in 0..MaxTime /\ sent \subseteq DeleteEvents
  /\ odd \subseteq AcctIds /\ last \in [AcctIds -> DeleteEvents \cup {NoEvent}]
  /\ overlap \in BOOLEAN /\ cut \in BOOLEAN
  /\ calls \in 0..MaxCalls /\ faults \in 0..MaxFaults
  /\ \A p \in Tabs : pc[p] # "idle" => acct[p] \in IssuedIds

\* An account whose row names a deletion event has had it published, and signed
\* with its own key: whatever the handlers overwrite, wherever faults strike, and
\* although the account may be deleted and another created meanwhile.
RetractionSent ==
  \A a \in accts : meta[a.id].event # NoEvent =>
    meta[a.id].event \in sent /\ meta[a.id].event.key = a.key

\* No change of one field is lost to a change of the other, unless a handler read
\* the row while another was about to write it.
ConfigExact ==
  ~overlap => \A a \in accts :
    /\ meta[a.id].active = (a.id \in odd)
    /\ \/ meta[a.id].event = last[a.id] \/ cut
       \/ \E p \in Writing(a.id) : pc[p] = "retract_update"

\* A deletion that was announced is recorded at last, unless a fault cuts the
\* handler off, a toggle overwrites it, or the account is gone.
RetractionRecorded ==
  \A k \in Pubkeys, t \in 0..MaxTime : LET e == [key |-> k, at |-> t] IN
    e \in sent ~> (\/ \E a \in accts : a.key = k /\ (meta[a.id].event = e \/ last[a.id] # e)
                   \/ \A a \in accts : a.key # k
                   \/ cut \/ overlap)
=============================================================================
