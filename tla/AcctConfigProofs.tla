-------------------------- MODULE AcctConfigProofs --------------------------
(***************************************************************************)
(* Theorems about AcctConfig, for any tabs, accounts, calls and faults:    *)
(*                                                                         *)
(*   TypeCorrect         Spec => []TypeOK                                  *)
(*   RecordedWasSent     Spec => []RetractionSent                          *)
(*   NoChangeLost        Spec => []ConfigExact                             *)
(*                                                                         *)
(* A handler writes what it read some time ago into a row it looked for by *)
(* its id.  OwnEvents says that this, too, names only events of the        *)
(* account, and that a row that is yet to be inserted names none.  That no *)
(* change is lost needs more (ExactInv): while no handler has read what    *)
(* another was about to write, each account has one writer at most, and    *)
(* what it is about to write is the row as it is with one field changed.   *)
(***************************************************************************)
EXTENDS AcctConfig, TLAPS

USE AcctConfigAssumption DEF AcctConfigAssumption

\* The default configuration is one.
LEMMA DefaultTyped == Default \in Config
BY DEF Default, Config

\* Events have their author and a second.
LEMMA EventTyped ==
  ASSUME TypeOK, NEW k \in Pubkeys
  PROVE  DeleteEvent(k) \in DeleteEvents
BY DEF TypeOK, DeleteEvent, DeleteEvents

\* Initially every variable has its type.
LEMMA TypeInit == Init => TypeOK
<1> SUFFICES ASSUME Init PROVE TypeOK
  OBVIOUS
<1>1. /\ meta \in [AcctIds -> Config] /\ config \in [Tabs -> Config]
      /\ last \in [AcctIds -> DeleteEvents \cup {NoEvent}]
  BY DefaultTyped DEF Init
<1>2. pc \in [Tabs -> Awaits] /\ acct \in [Tabs -> AcctIds \cup {NoAcct}]
  BY DEF Init, Awaits
<1>3. /\ now \in 0..MaxTime /\ calls \in 0..MaxCalls /\ faults \in 0..MaxFaults
  BY DEF Init
<1>4. QED BY <1>1, <1>2, <1>3 DEF Init, TypeOK

\* A handler that returns keeps the types.
LEMMA LeaveTyped ==
  ASSUME TypeOK, NEW p \in Tabs, Leave(p), issued' = issued
  PROVE  /\ pc' \in [Tabs -> Awaits] /\ acct' \in [Tabs -> AcctIds \cup {NoAcct}]
         /\ config' \in [Tabs -> Config]
         /\ \A q \in Tabs : pc'[q] # "idle" => acct'[q] \in IssuedIds'
<1>1. config' \in [Tabs -> Config]
  BY DefaultTyped DEF TypeOK, Leave
<1>2. pc' \in [Tabs -> Awaits] /\ acct' \in [Tabs -> AcctIds \cup {NoAcct}]
  BY DEF TypeOK, Leave, Goto, Awaits
<1>3. ASSUME NEW q \in Tabs, pc'[q] # "idle" PROVE acct'[q] \in IssuedIds'
  <2>1. q # p
    BY <1>3 DEF TypeOK, Leave, Goto
  <2>2. QED BY <1>3, <2>1 DEF TypeOK, Leave, Goto, IssuedIds
<1>4. QED BY <1>1, <1>2, <1>3

\* A handler that reads the row keeps the types.
LEMMA ReadTyped ==
  ASSUME TypeOK, NEW p \in Tabs, NEW l \in Awaits, NEW c \in Config, Read(p, l, c),
         pc[p] # "idle", issued' = issued
  PROVE  /\ pc' \in [Tabs -> Awaits] /\ acct' \in [Tabs -> AcctIds \cup {NoAcct}]
         /\ config' \in [Tabs -> Config] /\ overlap' \in BOOLEAN
         /\ \A q \in Tabs : pc'[q] # "idle" => acct'[q] \in IssuedIds'
<1>1. /\ config' \in [Tabs -> Config] /\ acct' = acct
      /\ pc' \in [Tabs -> Awaits]
  BY DEF TypeOK, Read, Goto
<1>2. overlap' \in BOOLEAN
  BY DEF Read
<1>3. \A q \in Tabs : pc'[q] # "idle" => pc[q] # "idle"
  BY DEF Read, Goto, TypeOK
<1>4. QED BY <1>1, <1>2, <1>3 DEF TypeOK, IssuedIds

\* A tab's call keeps the types.
LEMMA TypeCall ==
  ASSUME TypeOK, NEW p \in Tabs, NEW l \in Awaits, Call(p, l)
  PROVE  TypeOK'
<1> USE DEF db, history
<1>1. PICK a \in accts : acct' = [acct EXCEPT ![p] = a.id]
  BY DEF Call, AcctsOfUser
<1>2. a \in issued /\ a.id \in AcctIds /\ a.id \in IssuedIds
  BY DEF TypeOK, AcctRow, IssuedIds
<1>3. /\ pc' = [pc EXCEPT ![p] = l] /\ calls' \in 0..MaxCalls
  BY DEF Call, Goto, TypeOK
<1>4. /\ pc' \in [Tabs -> Awaits] /\ acct' \in [Tabs -> AcctIds \cup {NoAcct}]
  BY <1>1, <1>2, <1>3 DEF TypeOK
<1>5. \A q \in Tabs : pc'[q] # "idle" => acct'[q] \in IssuedIds'
  BY <1>1, <1>2, <1>3 DEF TypeOK, Call, IssuedIds
<1>6. QED BY <1>3, <1>4, <1>5 DEF TypeOK, Call

\* The handlers keep the types.
LEMMA TypeServe ==
  ASSUME TypeOK, NEW p \in Tabs, Serve(p)
  PROVE  TypeOK'
<1> USE DEF db, history, counts
<1>1. CASE ToggleFind(p)
  <2>1. CASE Found(p) # {} /\ Read(p, "toggle_update", [meta[acct[p]] EXCEPT !.active = ~@])
    <3>1. acct[p] \in AcctIds
      BY <2>1 DEF Found, AcctsOfUser, TypeOK, AcctRow
    <3> DEFINE c == [meta[acct[p]] EXCEPT !.active = ~@]
    <3>2. meta[acct[p]] \in Config
      BY <3>1 DEF TypeOK
    <3>3. c = [active |-> ~meta[acct[p]].active, event |-> meta[acct[p]].event]
      BY <3>2 DEF Config
    <3>4. c \in Config
      BY <3>2, <3>3 DEF Config
    <3> HIDE DEF c
    <3>5. "toggle_update" \in Awaits /\ pc[p] # "idle"
      BY <1>1 DEF ToggleFind, Awaits
    <3>6. Read(p, "toggle_update", c)
      BY <2>1 DEF c
    <3>7. UNCHANGED <<db, meta, now, odd, cut, counts, sent, last>>
      BY <1>1, <2>1, <3>5 DEF ToggleFind, Fails, Read, Leave, Goto, TypeOK
    <3>8. QED BY <3>4, <3>5, <3>6, <3>7, ReadTyped DEF TypeOK
  <2>2. CASE Fails(p)
    BY <1>1, <2>2, LeaveTyped DEF ToggleFind, Fails, TypeOK
  <2>3. QED BY <1>1, <2>1, <2>2 DEF ToggleFind
<1>2. CASE RetractFind(p)
  <2>1. ASSUME NEW a \in Found(p),
               Read(p, "retract_update", [meta[a.id] EXCEPT !.event = DeleteEvent(a.key)]),
               sent' = sent \cup {DeleteEvent(a.key)},
               last' = [last EXCEPT ![a.id] = DeleteEvent(a.key)]
        PROVE  TypeOK'
    <3>1. a.id \in AcctIds /\ a.key \in Pubkeys
      BY DEF Found, AcctsOfUser, TypeOK, AcctRow
    <3>2. DeleteEvent(a.key) \in DeleteEvents
      BY <3>1, EventTyped
    <3>3. [meta[a.id] EXCEPT !.event = DeleteEvent(a.key)] \in Config
      BY <3>1, <3>2 DEF TypeOK, Config
    <3>4. sent' \subseteq DeleteEvents /\ last' \in [AcctIds -> DeleteEvents \cup {NoEvent}]
      BY <2>1, <3>2 DEF TypeOK
    <3>5. QED BY <1>2, <2>1, <3>3, <3>4, ReadTyped DEF RetractFind, TypeOK, Awaits
  <2>2. CASE Fails(p)
    BY <1>2, <2>2, LeaveTyped DEF RetractFind, Fails, TypeOK
  <2>3. QED BY <1>2, <2>1, <2>2 DEF RetractFind
<1>3. CASE RepublishFind(p)
  BY <1>3, LeaveTyped DEF RepublishFind, TypeOK
<1>4. ASSUME Write(p) PROVE meta' \in [AcctIds -> Config]
  BY <1>4 DEF Write, TypeOK
<1>5. CASE ToggleUpdate(p)
  <2>1. odd' \subseteq AcctIds
    BY <1>5 DEF ToggleUpdate, TypeOK, IssuedIds, AcctRow
  <2>2. QED BY <1>4, <1>5, <2>1, LeaveTyped DEF ToggleUpdate, TypeOK
<1>6. CASE RetractUpdate(p)
  BY <1>4, <1>6, LeaveTyped DEF RetractUpdate, TypeOK
<1>7. QED BY <1>1, <1>2, <1>3, <1>5, <1>6 DEF Serve

\* What happens around the handlers keeps the types.
LEMMA TypeAround ==
  ASSUME TypeOK,
         \/ \E k \in Pubkeys : Create(k)
         \/ \E a \in accts : Delete(a)
         \/ Tick \/ Crash
         \/ \E p \in Tabs : Confirm(p) \/ Fault(p)
  PROVE  TypeOK'
<1> USE DEF db, handler, history, counts
<1>1. ASSUME NEW k \in Pubkeys, Create(k) PROVE TypeOK'
  <2>1. PICK id \in FreshIds : InsertAcct([id |-> id, user |-> User, key |-> k])
    BY <1>1 DEF Create
  <2>2. id \in AcctIds /\ \A b \in issued : b.id # id
    BY DEF FreshIds, IssuedIds
  <2>3. /\ issued' \subseteq AcctRow /\ accts' \subseteq issued' /\ issued \subseteq issued'
        /\ \A a, b \in issued' : a.id = b.id => a = b
    BY <2>1, <2>2 DEF InsertAcct, TypeOK, AcctRow
  <2>4. \A q \in Tabs : pc'[q] # "idle" => acct'[q] \in IssuedIds'
    BY <1>1, <2>3 DEF Create, TypeOK, IssuedIds
  <2>5. QED BY <1>1, <2>3, <2>4 DEF Create, TypeOK
<1>2. ASSUME NEW a \in accts, Delete(a) PROVE TypeOK'
  BY <1>2 DEF Delete, DeleteAcct, TypeOK, IssuedIds
<1>3. CASE Tick
  BY <1>3 DEF Tick, TypeOK, IssuedIds
<1>4. CASE Crash
  <2>1. config' \in [Tabs -> Config]
    BY <1>4, DefaultTyped DEF Crash
  <2>2. /\ pc' \in [Tabs -> Awaits] /\ acct' \in [Tabs -> AcctIds \cup {NoAcct}]
        /\ \A q \in Tabs : pc'[q] # "idle" => acct'[q] \in IssuedIds'
    BY <1>4 DEF Crash, TypeOK, Awaits, Confirming, IssuedIds
  <2>3. cut' \in BOOLEAN /\ faults' \in 0..MaxFaults
    BY <1>4 DEF Crash, TypeOK
  <2>4. QED BY <1>4, <2>1, <2>2, <2>3 DEF Crash, TypeOK
<1>5. ASSUME NEW p \in Tabs, Confirm(p) PROVE TypeOK'
  <2>1. /\ pc' \in [Tabs -> Awaits]
        /\ \A q \in Tabs : pc'[q] # "idle" => pc[q] # "idle"
    BY <1>5 DEF Confirm, Goto, TypeOK, Awaits, Confirming
  <2>2. QED BY <1>5, <2>1 DEF Confirm, TypeOK, IssuedIds
<1>6. ASSUME NEW p \in Tabs, Fault(p) PROVE TypeOK'
  <2>1. cut' \in BOOLEAN /\ faults' \in 0..MaxFaults
    BY <1>6 DEF Fault, TypeOK
  <2>2. QED BY <1>6, <2>1, LeaveTyped DEF Fault, TypeOK
<1>7. QED BY <1>1, <1>2, <1>3, <1>4, <1>5, <1>6

\* Every step keeps the types.
LEMMA TypeNext == TypeOK /\ [Next]_vars => TypeOK'
<1> SUFFICES ASSUME TypeOK, [Next]_vars PROVE TypeOK'
  OBVIOUS
<1>1. ASSUME NEW p \in Tabs, AskToggle(p) \/ AskRetract(p) \/ AskRepublish(p) PROVE TypeOK'
  BY <1>1, TypeCall DEF AskToggle, AskRetract, AskRepublish, Awaits, Confirming
<1>2. ASSUME NEW p \in Tabs, Serve(p) PROVE TypeOK'
  BY <1>2, TypeServe
<1>3. CASE \/ \E k \in Pubkeys : Create(k)
           \/ \E a \in accts : Delete(a)
           \/ Tick \/ Crash
           \/ \E p \in Tabs : Confirm(p) \/ Fault(p)
  BY <1>3, TypeAround
<1>4. CASE UNCHANGED vars
  BY <1>4 DEF vars, db, handler, history, counts, TypeOK, IssuedIds
<1>5. QED BY <1>1, <1>2, <1>3, <1>4 DEF Next

\* A tab or a handler that is busy has the id of an account there is or was.
THEOREM TypeCorrect == Spec => []TypeOK
<1>1. QED BY TypeInit, TypeNext, PTL DEF Spec

-----------------------------------------------------------------------------
\* e is no event, or one of S by account a.
Own(S, e, a) == e = NoEvent \/ (e \in S /\ e.key = a.key)

OwnEvents ==
  /\ \A a \in issued : Own(sent, meta[a.id].event, a)
  /\ \A p \in Tabs, a \in issued :
       pc[p] \in {"toggle_update", "retract_update"} /\ acct[p] = a.id =>
         Own(sent, config[p].event, a)
  /\ \A id \in AcctIds \ IssuedIds : meta[id].event = NoEvent

\* A step that inserts no account, and changes the locals of p alone.
LEMMA OwnKept ==
  ASSUME TypeOK, OwnEvents, NEW p \in Tabs, issued' = issued, sent \subseteq sent',
         \A q \in Tabs \ {p} : pc'[q] = pc[q] /\ acct'[q] = acct[q] /\ config'[q] = config[q],
         \A a \in issued :
           pc'[p] \in {"toggle_update", "retract_update"} /\ acct'[p] = a.id =>
             Own(sent', config'[p].event, a),
         meta' = meta \/ \E a \in issued : /\ meta' = [meta EXCEPT ![a.id] = config[p]]
                                          /\ Own(sent, config[p].event, a)
  PROVE  OwnEvents'
<1>1. ASSUME NEW e, NEW a, Own(sent, e, a) PROVE Own(sent', e, a)
  BY <1>1 DEF Own
<1>2. ASSUME NEW a \in issued PROVE Own(sent', meta'[a.id].event, a)
  <2>1. CASE meta' = meta
    BY <1>1, <2>1 DEF OwnEvents
  <2>2. ASSUME NEW b \in issued, meta' = [meta EXCEPT ![b.id] = config[p]],
               Own(sent, config[p].event, b)
        PROVE  Own(sent', meta'[a.id].event, a)
    <3>1. CASE a.id = b.id
      <4>1. a = b /\ meta'[a.id] = config[p]
        BY <2>2, <3>1 DEF TypeOK, AcctRow
      <4>2. QED BY <1>1, <2>2, <4>1
    <3>2. CASE a.id # b.id
      <4>1. meta'[a.id] = meta[a.id]
        BY <2>2, <3>2 DEF TypeOK, AcctRow
      <4>2. QED BY <1>1, <4>1 DEF OwnEvents
    <3>3. QED BY <3>1, <3>2
  <2>3. QED BY <2>1, <2>2
<1>3. ASSUME NEW q \in Tabs, NEW a \in issued,
             pc'[q] \in {"toggle_update", "retract_update"}, acct'[q] = a.id
      PROVE  Own(sent', config'[q].event, a)
  <2>1. CASE q = p
    BY <1>3, <2>1
  <2>2. CASE q # p
    <3>1. Own(sent, config[q].event, a)
      BY <1>3, <2>2 DEF OwnEvents
    <3>2. config'[q] = config[q]
      BY <2>2
    <3>3. QED BY <1>1, <3>1, <3>2
  <2>3. QED BY <2>1, <2>2
<1>4. ASSUME NEW id \in AcctIds \ IssuedIds' PROVE meta'[id].event = NoEvent
  <2>1. id \in AcctIds \ IssuedIds /\ \A a \in issued : a.id # id
    BY DEF IssuedIds
  <2>2. meta'[id] = meta[id]
    BY <2>1 DEF TypeOK
  <2>3. QED BY <2>1, <2>2 DEF OwnEvents
<1>5. QED BY <1>2, <1>3, <1>4 DEF OwnEvents

\* The handlers record only events of their account that were sent.
LEMMA OwnServe ==
  ASSUME TypeOK, OwnEvents, NEW p \in Tabs, Serve(p)
  PROVE  OwnEvents'
<1> USE DEF db, history
<1>1. issued' = issued /\ sent \subseteq sent'
  BY DEF Serve, ToggleFind, RetractFind, RepublishFind, ToggleUpdate, RetractUpdate, Fails
<1>2. \A q \in Tabs \ {p} : pc'[q] = pc[q] /\ acct'[q] = acct[q] /\ config'[q] = config[q]
  BY DEF Serve, ToggleFind, RetractFind, RepublishFind, ToggleUpdate, RetractUpdate, Fails,
         Leave, Read, Goto, TypeOK
<1>3. CASE Leave(p) /\ meta' = meta
  <2>1. pc'[p] = "idle"
    BY <1>3 DEF Leave, Goto, TypeOK
  <2>2. QED BY <1>1, <1>2, <1>3, <2>1, OwnKept
<1>4. CASE ToggleFind(p) /\ ~Leave(p)
  <2>1. /\ Found(p) # {} /\ meta' = meta /\ acct' = acct
        /\ config'[p] = [meta[acct[p]] EXCEPT !.active = ~@]
    BY <1>4 DEF ToggleFind, Fails, Read, TypeOK
  <2>2. PICK a \in issued : a.id = acct[p] /\ a.id \in AcctIds
    BY <2>1 DEF Found, AcctsOfUser, TypeOK, AcctRow
  <2>3. config'[p].event = meta[a.id].event
    BY <2>1, <2>2 DEF TypeOK, Config
  <2>4. ASSUME NEW b \in issued, acct'[p] = b.id PROVE Own(sent', config'[p].event, b)
    <3>1. b = a
      BY <2>1, <2>2, <2>4 DEF TypeOK
    <3>2. Own(sent, config'[p].event, b)
      BY <2>3, <3>1 DEF OwnEvents
    <3>3. QED BY <1>1, <3>2 DEF Own
  <2>5. QED BY <1>1, <1>2, <2>1, <2>4, OwnKept
<1>5. CASE RetractFind(p) /\ ~Leave(p)
  <2>1. PICK a \in Found(p) :
          /\ Read(p, "retract_update", [meta[a.id] EXCEPT !.event = DeleteEvent(a.key)])
          /\ sent' = sent \cup {DeleteEvent(a.key)}
    BY <1>5 DEF RetractFind, Fails
  <2>2. /\ a \in issued /\ a.id = acct[p] /\ meta' = meta /\ acct' = acct
        /\ a.id \in AcctIds /\ config'[p].event = DeleteEvent(a.key)
    BY <1>5, <2>1 DEF RetractFind, Read, Found, AcctsOfUser, TypeOK, AcctRow, Config
  <2>3. ASSUME NEW b \in issued, acct'[p] = b.id PROVE Own(sent', config'[p].event, b)
    <3>1. b = a
      BY <2>2, <2>3 DEF TypeOK
    <3>2. DeleteEvent(a.key) \in sent' /\ DeleteEvent(a.key).key = a.key
      BY <2>1 DEF DeleteEvent
    <3>3. QED BY <2>2, <3>1, <3>2 DEF Own
  <2>4. QED BY <1>1, <1>2, <2>2, <2>3, OwnKept
<1>6. CASE ToggleUpdate(p) \/ RetractUpdate(p)
  <2>1. Leave(p) /\ Write(p) /\ pc[p] \in {"toggle_update", "retract_update"}
    BY <1>6 DEF ToggleUpdate, RetractUpdate
  <2>2. CASE meta' = meta
    BY <1>3, <2>1, <2>2
  <2>3. CASE Found(p) # {}
    <3>1. PICK a \in issued : a.id = acct[p]
      BY <2>3 DEF Found, AcctsOfUser, TypeOK
    <3>2. meta' = [meta EXCEPT ![a.id] = config[p]] /\ Own(sent, config[p].event, a)
      BY <2>1, <2>3, <3>1 DEF Write, OwnEvents
    <3>3. pc'[p] = "idle"
      BY <2>1 DEF Leave, Goto, TypeOK
    <3>4. QED BY <1>1, <1>2, <3>2, <3>3, OwnKept
  <2>4. QED BY <2>1, <2>2, <2>3 DEF Write
<1>7. CASE RepublishFind(p)
  BY <1>3, <1>7 DEF RepublishFind
<1>8. QED
  BY <1>3, <1>4, <1>5, <1>6, <1>7 DEF Serve, ToggleFind, RetractFind

\* After the step, p's handler has ended, waits for the user, or is where it was.
Quiet(p) == \/ pc'[p] \in Confirming \cup {"idle"}
            \/ pc'[p] = pc[p] /\ acct'[p] = acct[p] /\ config'[p] = config[p]

\* Own events stay when nothing changes but handlers that end or wait for the user.
LEMMA OwnQuiet ==
  ASSUME TypeOK, OwnEvents, issued' = issued, sent' = sent, meta' = meta,
         \A p \in Tabs : Quiet(p)
  PROVE  OwnEvents'
<1> USE DEF Quiet, Confirming
<1>1. ASSUME NEW e, NEW a, Own(sent, e, a) PROVE Own(sent', e, a)
  BY <1>1 DEF Own
<1>2. \A a \in issued' : Own(sent', meta'[a.id].event, a)
  BY <1>1 DEF OwnEvents
<1>3. ASSUME NEW p \in Tabs, NEW a \in issued',
             pc'[p] \in {"toggle_update", "retract_update"}, acct'[p] = a.id
      PROVE  Own(sent', config'[p].event, a)
  BY <1>1, <1>3 DEF OwnEvents
<1>4. \A i \in AcctIds \ IssuedIds' : meta'[i].event = NoEvent
  BY DEF OwnEvents, IssuedIds
<1>5. QED BY <1>2, <1>3, <1>4 DEF OwnEvents

\* Every step keeps OwnEvents.
LEMMA OwnNext == TypeOK /\ OwnEvents /\ [Next]_vars => OwnEvents'
<1> SUFFICES ASSUME TypeOK, OwnEvents, [Next]_vars PROVE OwnEvents'
  OBVIOUS
<1> USE DEF db, handler, history, counts
<1>1. ASSUME NEW p \in Tabs, AskToggle(p) \/ AskRetract(p) \/ AskRepublish(p)
      PROVE  OwnEvents'
  BY <1>1, OwnKept DEF AskToggle, AskRetract, AskRepublish, Call, Goto, TypeOK
<1>2. ASSUME NEW p \in Tabs, Confirm(p) PROVE OwnEvents'
  BY <1>2, OwnKept DEF Confirm, Confirming, Goto, TypeOK
<1>3. ASSUME NEW p \in Tabs, Serve(p) PROVE OwnEvents'
  BY <1>3, OwnServe
<1>4. ASSUME NEW p \in Tabs, Fault(p) PROVE OwnEvents'
  BY <1>4, OwnKept DEF Fault, Leave, Goto, TypeOK
<1>5. ASSUME NEW k \in Pubkeys, Create(k) PROVE OwnEvents'
  <2>1. PICK id \in FreshIds : InsertAcct([id |-> id, user |-> User, key |-> k])
    BY <1>5 DEF Create
  <2> DEFINE row == [id |-> id, user |-> User, key |-> k]
  <2>2. /\ issued' = issued \cup {row} /\ row.id = id /\ id \in AcctIds \ IssuedIds
        /\ UNCHANGED <<meta, handler, sent>>
    BY <1>5, <2>1 DEF Create, InsertAcct, FreshIds
  <2>3. meta[id].event = NoEvent
    BY <2>2 DEF OwnEvents
  <2>4. ASSUME NEW e, NEW a, Own(sent, e, a) PROVE Own(sent', e, a)
    BY <2>2, <2>4 DEF Own
  <2>5. ASSUME NEW a \in issued' PROVE Own(sent', meta'[a.id].event, a)
    BY <2>2, <2>3, <2>4, <2>5 DEF OwnEvents, Own
  <2>6. ASSUME NEW p \in Tabs, NEW a \in issued',
               pc'[p] \in {"toggle_update", "retract_update"}, acct'[p] = a.id
        PROVE  Own(sent', config'[p].event, a)
    <3>1. a \in issued
      BY <2>2, <2>6 DEF TypeOK
    <3>2. Own(sent, config[p].event, a)
      BY <2>2, <2>6, <3>1 DEF OwnEvents
    <3>3. QED BY <2>2, <2>4, <3>2
  <2>7. ASSUME NEW i \in AcctIds \ IssuedIds' PROVE meta'[i].event = NoEvent
    BY <2>2, <2>7 DEF OwnEvents, IssuedIds
  <2>8. QED BY <2>5, <2>6, <2>7 DEF OwnEvents
<1>6. CASE (\E a \in accts : Delete(a)) \/ Tick \/ UNCHANGED vars
  BY <1>6, OwnQuiet DEF Delete, DeleteAcct, Tick, vars, Quiet
<1>7. CASE Crash
  <2>1. \A p \in Tabs : Quiet(p)
    BY <1>7 DEF Crash, Quiet
  <2>2. issued' = issued
    BY <1>7 DEF Crash
  <2>3. sent' = sent
    BY <1>7 DEF Crash
  <2>4. meta' = meta
    BY <1>7 DEF Crash
  <2>5. QED BY <2>1, <2>2, <2>3, <2>4, OwnQuiet
<1>8. QED BY <1>1, <1>2, <1>3, <1>4, <1>5, <1>6, <1>7 DEF Next

\* An account's row names no deletion event but one that was sent, by the account
\* itself, whichever handlers overwrite each other and wherever faults strike.
THEOREM RecordedWasSent == Spec => []RetractionSent
<1>1. Init => OwnEvents
  <2> SUFFICES ASSUME Init PROVE OwnEvents
    OBVIOUS
  <2>1. \A id \in AcctIds : meta[id].event = NoEvent
    BY DEF Init, Default
  <2>2. \A a \in issued : a.id \in AcctIds
    BY DEF Init, AcctRow
  <2>3. \A p \in Tabs : pc[p] = "idle"
    BY DEF Init
  <2>4. QED BY <2>1, <2>2, <2>3 DEF OwnEvents, Own
<1>2. TypeOK /\ OwnEvents => RetractionSent
  BY DEF TypeOK, OwnEvents, RetractionSent, Own
<1>3. QED BY <1>1, <1>2, TypeInit, TypeNext, OwnNext, PTL DEF Spec

-----------------------------------------------------------------------------
(***************************************************************************)
(* No change of one field is lost to a change of the other.                *)
(***************************************************************************)
Updating == {"toggle_update", "retract_update"}

\* Tabs and handlers only deal with accounts of their user.
UsersOwn ==
  \A p \in Tabs : pc[p] # "idle" => \E a \in issued : a.id = acct[p] /\ a.user = User

\* Nothing was ever written to a row that is yet to be inserted.
Untouched ==
  \A id \in AcctIds \ IssuedIds : meta[id] = Default /\ last[id] = NoEvent /\ id \notin odd

OneWriter ==
  \A p, q \in Tabs :
    pc[p] \in Updating /\ pc[q] \in Updating /\ acct[p] = acct[q] => p = q

\* What a handler is about to write is not stale.
FreshConfig(p) ==
  /\ pc[p] = "toggle_update" => config[p] = [meta[acct[p]] EXCEPT !.active = ~@]
  /\ pc[p] = "retract_update" => config[p] = [meta[acct[p]] EXCEPT !.event = last[acct[p]]]

Exact(id) ==
  /\ meta[id].active = (id \in odd)
  /\ \/ meta[id].event = last[id] \/ cut
     \/ \E p \in Writing(id) : pc[p] = "retract_update"

Unspoilt == /\ OneWriter
            /\ \A p \in Tabs : FreshConfig(p)
            /\ \A a \in accts : Exact(a.id)

ExactInv == UsersOwn /\ Untouched /\ (~overlap => Unspoilt)

\* A row that was never written to is exact.
LEMMA DefaultExact ==
  ASSUME NEW id, meta[id] = Default, last[id] = NoEvent, id \notin odd
  PROVE  Exact(id)
<1>1. meta[id].active = FALSE /\ meta[id].event = last[id]
  BY DEF Default
<1>2. (id \in odd) = FALSE
  OBVIOUS
<1>3. meta[id].active = (id \in odd)
  BY <1>1, <1>2
<1>4. QED BY <1>1, <1>3 DEF Exact

\* A request of a tab finds the account it is about as long as the row exists.
LEMMA FoundOne ==
  ASSUME TypeOK, UsersOwn, NEW p \in Tabs, pc[p] # "idle", NEW a \in accts, a.id = acct[p]
  PROVE  a \in Found(p)
<1>1. PICK b \in issued : b.id = acct[p] /\ b.user = User
  BY DEF UsersOwn
<1>2. a = b
  BY <1>1 DEF TypeOK
<1>3. QED BY <1>1, <1>2 DEF Found, AcctsOfUser

\* Only p's locals and the row of p's account may change.
Confined(p) ==
  /\ UNCHANGED <<accts, issued, cut>>
  /\ acct'[p] \in {acct[p], NoAcct} /\ acct[p] \in AcctIds
  /\ \A q \in Tabs \ {p} : pc'[q] = pc[q] /\ acct'[q] = acct[q] /\ config'[q] = config[q]
  /\ \A id \in AcctIds \ {acct[p]} :
       /\ meta'[id] = meta[id] /\ last'[id] = last[id]
       /\ (id \in odd') = (id \in odd)

\* The rows and the handlers of other accounts are as good as they were.
LEMMA OthersExact ==
  ASSUME TypeOK, NEW p \in Tabs, Confined(p)
  PROVE  /\ \A a \in accts : a.id # acct[p] /\ Exact(a.id) => Exact(a.id)'
         /\ \A q \in Tabs \ {p} :
              (pc[q] \in Updating => acct[q] # acct[p]) /\ FreshConfig(q) => FreshConfig(q)'
<1>1. ASSUME NEW a \in accts, a.id # acct[p], Exact(a.id) PROVE Exact(a.id)'
  <2>1. a.id \in AcctIds \ {acct[p]}
    BY <1>1 DEF TypeOK, AcctRow
  <2>2. meta'[a.id] = meta[a.id] /\ last'[a.id] = last[a.id] /\ (a.id \in odd') = (a.id \in odd)
    BY <2>1 DEF Confined
  <2>3. ASSUME NEW q \in Writing(a.id), pc[q] = "retract_update"
        PROVE  q \in Writing(a.id)' /\ pc'[q] = "retract_update"
    BY <1>1, <2>3 DEF Writing, Confined
  <2>4. meta'[a.id].active = (a.id \in odd')
    BY <1>1, <2>2, Zenon DEF Exact
  <2>5. QED BY <1>1, <2>2, <2>3, <2>4 DEF Exact, Confined
<1>2. ASSUME NEW q \in Tabs \ {p}, pc[q] \in Updating => acct[q] # acct[p], FreshConfig(q)
      PROVE  FreshConfig(q)'
  <2>1. pc'[q] = pc[q] /\ acct'[q] = acct[q] /\ config'[q] = config[q]
    BY DEF Confined
  <2>2. CASE pc[q] \in Updating
    <3>1. acct[q] \in AcctIds \ {acct[p]}
      BY <1>2, <2>2 DEF TypeOK, IssuedIds, AcctRow, Updating
    <3>2. meta'[acct[q]] = meta[acct[q]] /\ last'[acct[q]] = last[acct[q]]
      BY <3>1 DEF Confined
    <3>3. QED BY <1>2, <2>1, <3>2 DEF FreshConfig
  <2>3. CASE pc[q] \notin Updating
    BY <2>1, <2>3 DEF FreshConfig, Updating
  <2>4. QED BY <2>2, <2>3
<1>3. QED BY <1>1, <1>2

\* Handlers end, wait, or are where they were, and the rows stay.
Calm ==
  /\ UNCHANGED <<meta, odd, last, overlap>> /\ accts' \subseteq accts /\ (cut => cut')
  /\ \A p \in Tabs :
       \/ pc'[p] = pc[p] /\ acct'[p] = acct[p] /\ config'[p] = config[p]
       \/ pc'[p] \notin Updating /\ (pc[p] = "retract_update" => cut')

\* Such a step leaves everything exact.
LEMMA CalmKeeps ==
  ASSUME Unspoilt, Calm
  PROVE  Unspoilt'
<1>1. OneWriter'
  BY DEF Unspoilt, OneWriter, Calm
<1>2. ASSUME NEW p \in Tabs PROVE FreshConfig(p)'
  BY DEF Unspoilt, FreshConfig, Calm, Updating
<1>3. ASSUME NEW a \in accts' PROVE Exact(a.id)'
  <2>1. a \in accts /\ Exact(a.id)
    BY DEF Unspoilt, Calm
  <2>2. ASSUME NEW q \in Writing(a.id), pc[q] = "retract_update"
        PROVE  cut' \/ (q \in Writing(a.id)' /\ pc'[q] = "retract_update")
    BY <2>2 DEF Writing, Calm
  <2>3. meta'[a.id].active = (a.id \in odd')
    BY <2>1, Zenon DEF Exact, Calm
  <2>4. QED BY <2>1, <2>2, <2>3 DEF Exact, Calm
<1>4. QED BY <1>1, <1>2, <1>3 DEF Unspoilt

\* What two handlers that are about to write have to do with each other.
LEMMA WriterAlone ==
  ASSUME OneWriter, NEW p \in Tabs, pc[p] \in Updating
  PROVE  \A q \in Tabs \ {p} : pc[q] \in Updating => acct[q] # acct[p]
BY DEF OneWriter

\* A handler that reads the row while nobody is about to write it.
LEMMA ReadKeeps ==
  ASSUME TypeOK, Unspoilt, NEW p \in Tabs, Confined(p), Writing(acct[p]) = {},
         acct'[p] = acct[p], meta' = meta, odd' = odd, FreshConfig(p)',
         \/ pc'[p] = "toggle_update" /\ last' = last
         \/ pc'[p] = "retract_update"
  PROVE  Unspoilt'
<1>1. \A q \in Tabs : pc[q] \in Updating => acct[q] # acct[p]
  BY DEF Writing, Updating
<1>2. OneWriter'
  BY <1>1 DEF OneWriter, Confined, Unspoilt
<1>3. \A q \in Tabs : FreshConfig(q)'
  BY <1>1, OthersExact DEF Unspoilt
<1>4. ASSUME NEW a \in accts' PROVE Exact(a.id)'
  <2>1. a \in accts /\ Exact(a.id)
    BY DEF Confined, Unspoilt
  <2>2. CASE a.id # acct[p]
    BY <2>1, <2>2, OthersExact
  <2>3. CASE a.id = acct[p]
    <3>1. meta'[a.id].active = (a.id \in odd')
      BY <2>1, Zenon DEF Exact
    <3>2. meta[a.id].event = last[a.id] \/ cut
      BY <2>1, <2>3 DEF Exact
    <3>3. pc'[p] = "retract_update" => p \in Writing(a.id)'
      BY <2>3 DEF Writing
    <3>4. QED BY <3>1, <3>2, <3>3 DEF Exact, Confined
  <2>4. QED BY <2>2, <2>3
<1>5. QED BY <1>2, <1>3, <1>4 DEF Unspoilt

\* A handler that writes the row and returns.
LEMMA WriteKeeps ==
  ASSUME TypeOK, UsersOwn, Unspoilt, NEW p \in Tabs, Confined(p), pc[p] \in Updating,
         pc'[p] = "idle",
         Found(p) # {} =>
           /\ meta'[acct[p]].active = (acct[p] \in odd')
           /\ meta'[acct[p]].event = last'[acct[p]] \/ cut
  PROVE  Unspoilt'
<1>1. \A q \in Tabs \ {p} : pc[q] \in Updating => acct[q] # acct[p]
  BY WriterAlone DEF Unspoilt
<1>2. OneWriter'
  BY DEF OneWriter, Confined, Unspoilt, Updating
<1>3. \A q \in Tabs : FreshConfig(q)'
  <2>1. FreshConfig(p)'
    BY DEF FreshConfig
  <2>2. QED BY <1>1, <2>1, OthersExact DEF Unspoilt
<1>4. ASSUME NEW a \in accts' PROVE Exact(a.id)'
  <2>1. a \in accts /\ Exact(a.id)
    BY DEF Confined, Unspoilt
  <2>2. CASE a.id # acct[p]
    BY <2>1, <2>2, OthersExact
  <2>3. CASE a.id = acct[p]
    <3>1. Found(p) # {}
      BY <2>1, <2>3, FoundOne DEF Updating
    <3>2. QED BY <2>3, <3>1 DEF Exact, Confined
  <2>4. QED BY <2>2, <2>3
<1>5. QED BY <1>2, <1>3, <1>4 DEF Unspoilt

\* The handlers keep everything exact while none reads what another will write.
LEMMA ExactServe ==
  ASSUME TypeOK, UsersOwn, NEW p \in Tabs, Serve(p), ~overlap => Unspoilt, ~overlap'
  PROVE  Unspoilt'
<1> USE DEF db, history
<1>1. ~overlap
  BY DEF Serve, ToggleFind, RetractFind, RepublishFind, ToggleUpdate, RetractUpdate, Read, Fails
<1>2. Unspoilt
  BY <1>1
<1>3. /\ \A q \in Tabs \ {p} : pc'[q] = pc[q] /\ acct'[q] = acct[q] /\ config'[q] = config[q]
      /\ acct'[p] \in {acct[p], NoAcct}
      /\ accts' = accts /\ issued' = issued /\ cut' = cut
  BY DEF Serve, ToggleFind, RetractFind, RepublishFind, ToggleUpdate, RetractUpdate, Fails,
         Leave, Read, Goto, TypeOK
<1>4. acct[p] \in AcctIds
  BY DEF Serve, ToggleFind, RetractFind, RepublishFind, ToggleUpdate, RetractUpdate,
         TypeOK, IssuedIds, AcctRow
<1>5. CASE /\ Leave(p) /\ UNCHANGED <<meta, odd, last, overlap>>
           /\ pc[p] \notin Updating
  <2>1. Calm
    BY <1>3, <1>5 DEF Calm, Leave, Goto, Updating, TypeOK
  <2>2. QED BY <1>2, <2>1, CalmKeeps
<1>6. CASE ToggleFind(p) /\ ~Leave(p)
  <2>1. /\ Read(p, "toggle_update", [meta[acct[p]] EXCEPT !.active = ~@])
        /\ meta' = meta /\ odd' = odd /\ last' = last
    BY <1>6 DEF ToggleFind, Fails
  <2>2. /\ pc'[p] = "toggle_update" /\ acct' = acct /\ Writing(acct[p]) = {}
        /\ config'[p] = [meta[acct[p]] EXCEPT !.active = ~@]
    BY <2>1 DEF Read, Goto, TypeOK
  <2>3. Confined(p)
    BY <1>3, <1>4, <2>1 DEF Confined
  <2>4. FreshConfig(p)'
    BY <2>1, <2>2 DEF FreshConfig
  <2>5. QED BY <1>2, <2>1, <2>2, <2>3, <2>4, ReadKeeps
<1>7. CASE RetractFind(p) /\ ~Leave(p)
  <2>1. PICK a \in Found(p) :
          /\ Read(p, "retract_update", [meta[a.id] EXCEPT !.event = DeleteEvent(a.key)])
          /\ last' = [last EXCEPT ![a.id] = DeleteEvent(a.key)]
    BY <1>7 DEF RetractFind, Fails
  <2>2. a.id = acct[p] /\ meta' = meta /\ odd' = odd
    BY <1>7, <2>1 DEF Found, RetractFind
  <2>3. /\ pc'[p] = "retract_update" /\ acct' = acct /\ Writing(acct[p]) = {}
        /\ config'[p] = [meta[acct[p]] EXCEPT !.event = DeleteEvent(a.key)]
    BY <2>1, <2>2 DEF Read, Goto, TypeOK
  <2>4. last'[acct[p]] = DeleteEvent(a.key)
    BY <1>4, <2>1, <2>2 DEF TypeOK
  <2>5. Confined(p)
    BY <1>3, <1>4, <2>1, <2>2 DEF Confined, TypeOK
  <2>6. FreshConfig(p)'
    BY <2>2, <2>3, <2>4 DEF FreshConfig
  <2>7. QED BY <1>2, <2>2, <2>3, <2>5, <2>6, ReadKeeps
<1>8. CASE ToggleUpdate(p)
  <2>1. /\ Write(p) /\ pc[p] = "toggle_update" /\ pc'[p] = "idle" /\ last' = last
        /\ odd' = IF acct[p] \in odd THEN odd \ {acct[p]} ELSE odd \cup {acct[p]}
    BY <1>8 DEF ToggleUpdate, Leave, Goto, TypeOK
  <2>2. Confined(p)
    BY <1>3, <1>4, <2>1 DEF Confined, Write, TypeOK
  <2>3. ASSUME Found(p) # {}
        PROVE  /\ meta'[acct[p]].active = (acct[p] \in odd')
               /\ meta'[acct[p]].event = last'[acct[p]] \/ cut
    <3>1. PICK a \in accts : a.id = acct[p]
      BY <2>3 DEF Found, AcctsOfUser
    <3>2. Exact(acct[p])
      BY <1>2, <3>1 DEF Unspoilt
    <3>3. meta'[acct[p]] = [meta[acct[p]] EXCEPT !.active = ~@]
      BY <1>2, <1>4, <2>1, <2>3 DEF Write, Unspoilt, FreshConfig, TypeOK
    <3>4. meta[acct[p]] \in Config
      BY <1>4 DEF TypeOK
    <3>5. /\ meta'[acct[p]].active = ~meta[acct[p]].active
          /\ meta'[acct[p]].event = meta[acct[p]].event
      BY <3>3, <3>4 DEF Config
    <3>6. (acct[p] \in odd') = ~(acct[p] \in odd)
      BY <2>1
    <3>7. meta[acct[p]].event = last[acct[p]] \/ cut
      BY <1>2, <2>1, <3>2 DEF Exact, Unspoilt, OneWriter, Writing, Updating
    <3>8. meta'[acct[p]].active = (acct[p] \in odd')
      BY <3>2, <3>5, <3>6, Zenon DEF Exact
    <3>9. QED BY <2>1, <3>5, <3>7, <3>8
  <2>4. QED BY <1>2, <2>1, <2>2, <2>3, WriteKeeps DEF Updating
<1>9. CASE RetractUpdate(p)
  <2>1. /\ Write(p) /\ pc[p] = "retract_update" /\ pc'[p] = "idle" /\ last' = last
        /\ odd' = odd
    BY <1>9 DEF RetractUpdate, Leave, Goto, TypeOK
  <2>2. Confined(p)
    BY <1>3, <1>4, <2>1 DEF Confined, Write, TypeOK
  <2>3. ASSUME Found(p) # {}
        PROVE  /\ meta'[acct[p]].active = (acct[p] \in odd')
               /\ meta'[acct[p]].event = last'[acct[p]] \/ cut
    <3>1. PICK a \in accts : a.id = acct[p]
      BY <2>3 DEF Found, AcctsOfUser
    <3>2. Exact(acct[p])
      BY <1>2, <3>1 DEF Unspoilt
    <3>3. meta'[acct[p]] = [meta[acct[p]] EXCEPT !.event = last[acct[p]]]
      BY <1>2, <1>4, <2>1, <2>3 DEF Write, Unspoilt, FreshConfig, TypeOK
    <3>4. meta[acct[p]] \in Config
      BY <1>4 DEF TypeOK
    <3>5. /\ meta'[acct[p]].active = meta[acct[p]].active
          /\ meta'[acct[p]].event = last[acct[p]]
      BY <3>3, <3>4 DEF Config
    <3>6. meta'[acct[p]].active = (acct[p] \in odd')
      BY <2>1, <3>2, <3>5, Zenon DEF Exact
    <3>7. QED BY <2>1, <3>5, <3>6
  <2>4. QED BY <1>2, <2>1, <2>2, <2>3, WriteKeeps DEF Updating
<1>10. CASE Leave(p) /\ ~ToggleUpdate(p) /\ ~RetractUpdate(p)
  BY <1>5, <1>10 DEF Serve, ToggleFind, RetractFind, RepublishFind, Fails, Read, Leave,
     Goto, Updating, TypeOK
<1>11. QED BY <1>6, <1>7, <1>8, <1>9, <1>10 DEF Serve, RepublishFind

\* What happens around the handlers changes no row but the one it inserts.
LEMMA ExactAround ==
  ASSUME TypeOK, Untouched, Unspoilt, [Next]_vars, \A p \in Tabs : ~Serve(p)
  PROVE  Unspoilt'
<1> USE DEF db, handler, history, counts, Confirming, Updating
<1>1. ASSUME NEW p \in Tabs, AskToggle(p) \/ AskRetract(p) \/ AskRepublish(p) \/ Confirm(p)
      PROVE  Calm
  BY <1>1 DEF AskToggle, AskRetract, AskRepublish, Call, Confirm, Goto, Calm, TypeOK
<1>2. ASSUME NEW p \in Tabs, Fault(p) PROVE Calm
  BY <1>2 DEF Fault, Leave, Goto, Calm, TypeOK
<1>3. ASSUME Crash PROVE Calm
  <2>1. UNCHANGED <<meta, odd, last, overlap, accts>> /\ (cut => cut')
    BY <1>3 DEF Crash
  <2>2. ASSUME NEW p \in Tabs PROVE pc'[p] \notin Updating
    BY <1>3 DEF Crash
  <2>3. ASSUME NEW p \in Tabs, pc[p] = "retract_update" PROVE cut'
    BY <1>3, <2>3, Zenon DEF Crash
  <2>4. QED BY <2>1, <2>2, <2>3 DEF Calm
<1>4. ASSUME (\E a \in accts : Delete(a)) \/ Tick \/ UNCHANGED vars PROVE Calm
  BY <1>4 DEF Delete, DeleteAcct, Tick, vars, Calm
<1>5. ASSUME NEW k \in Pubkeys, Create(k) PROVE Unspoilt'
  <2>1. PICK id \in FreshIds : InsertAcct([id |-> id, user |-> User, key |-> k])
    BY <1>5 DEF Create
  <2>2. id \in AcctIds \ IssuedIds
    BY DEF FreshIds
  <2>3. UNCHANGED <<meta, pc, acct, config, odd, last, cut>>
    BY <1>5 DEF Create
  <2>4. ASSUME NEW a \in accts' PROVE Exact(a.id)'
    <3>1. Exact(a.id)
      <4>1. CASE a \in accts
        BY <4>1 DEF Unspoilt
      <4>2. CASE a \notin accts
        <5>1. a.id = id
          BY <2>1, <4>2 DEF InsertAcct
        <5>2. meta[a.id] = Default /\ last[a.id] = NoEvent /\ a.id \notin odd
          BY <2>2, <5>1 DEF Untouched
        <5>3. QED BY <5>2, DefaultExact
      <4>3. QED BY <4>1, <4>2
    <3>2. QED BY <2>3, <3>1 DEF Exact, Writing
  <2>5. OneWriter' /\ \A p \in Tabs : FreshConfig(p)'
    BY <2>3 DEF Unspoilt, OneWriter, FreshConfig
  <2>6. QED BY <2>4, <2>5 DEF Unspoilt
<1>6. QED BY <1>1, <1>2, <1>3, <1>4, <1>5, CalmKeeps DEF Next

\* No step of a tab or a handler turns to an account of somebody else.
LEMMA UsersNext == TypeOK /\ UsersOwn /\ [Next]_vars => UsersOwn'
<1> SUFFICES ASSUME TypeOK, UsersOwn, [Next]_vars, NEW p \in Tabs, pc'[p] # "idle"
             PROVE  \E a \in issued' : a.id = acct'[p] /\ a.user = User
  BY DEF UsersOwn
<1> USE DEF db, handler, history, counts
<1>1. issued \subseteq issued'
  BY DEF Next, AskToggle, AskRetract, AskRepublish, Call, Confirm, Serve, ToggleFind,
     RetractFind, RepublishFind, ToggleUpdate, RetractUpdate, Fault, Create, InsertAcct,
     Delete, DeleteAcct, Tick, Crash, vars
<1>2. CASE pc[p] # "idle" /\ acct'[p] = acct[p]
  BY <1>1, <1>2 DEF UsersOwn
<1>3. ASSUME NEW q \in Tabs, AskToggle(q) \/ AskRetract(q) \/ AskRepublish(q)
      PROVE  \/ pc[p] # "idle" /\ acct'[p] = acct[p]
             \/ \E a \in issued : a.id = acct'[p] /\ a.user = User
  BY <1>3 DEF AskToggle, AskRetract, AskRepublish, Call, Goto, AcctsOfUser, TypeOK
<1>4. ASSUME NEW q \in Tabs, Confirm(q) PROVE pc[p] # "idle" /\ acct'[p] = acct[p]
  BY <1>4 DEF Confirm, Confirming, Goto, TypeOK
<1>5. ASSUME NEW q \in Tabs, Serve(q) PROVE pc[p] # "idle" /\ acct'[p] = acct[p]
  BY <1>5 DEF Serve, ToggleFind, RetractFind, RepublishFind, ToggleUpdate, RetractUpdate,
     Fails, Leave, Read, Goto, TypeOK
<1>6. ASSUME NEW q \in Tabs, Fault(q) PROVE pc[p] # "idle" /\ acct'[p] = acct[p]
  BY <1>6 DEF Fault, Leave, Goto, TypeOK
<1>7. ASSUME Crash PROVE pc[p] # "idle" /\ acct'[p] = acct[p]
  BY <1>7 DEF Crash, Confirming
<1>8. ASSUME \/ \E k \in Pubkeys : Create(k)
             \/ \E a \in accts : Delete(a)
             \/ Tick \/ UNCHANGED vars
      PROVE  pc[p] # "idle" /\ acct'[p] = acct[p]
  BY <1>8 DEF Create, Delete, Tick, vars
<1>9. QED BY <1>1, <1>2, <1>3, <1>4, <1>5, <1>6, <1>7, <1>8 DEF Next

\* Rows are written only after they were inserted.
LEMMA UntouchedNext == TypeOK /\ Untouched /\ [Next]_vars => Untouched'
<1> SUFFICES ASSUME TypeOK, Untouched, [Next]_vars, NEW id \in AcctIds \ IssuedIds'
             PROVE  meta'[id] = meta[id] /\ last'[id] = last[id] /\ (id \in odd' => id \in odd)
                    /\ id \in AcctIds \ IssuedIds
  BY DEF Untouched
<1> USE DEF db, handler, history, counts
<1>1. id \in AcctIds \ IssuedIds
  BY DEF IssuedIds, Next, AskToggle, AskRetract, AskRepublish, Call, Confirm, Serve,
     ToggleFind, RetractFind, RepublishFind, ToggleUpdate, RetractUpdate, Fault, Create,
     InsertAcct, Delete, DeleteAcct, Tick, Crash, vars
<1>2. CASE UNCHANGED <<meta, last, odd>>
  BY <1>1, <1>2
<1>3. ASSUME NEW p \in Tabs, Serve(p) PROVE id # acct[p]
  BY <1>1, <1>3 DEF Serve, ToggleFind, RetractFind, RepublishFind, ToggleUpdate,
     RetractUpdate, TypeOK
<1>4. ASSUME NEW p \in Tabs, Write(p), id # acct[p] PROVE meta'[id] = meta[id]
  BY <1>4 DEF Write, TypeOK
<1>5. ASSUME NEW p \in Tabs, RetractFind(p)
      PROVE  meta'[id] = meta[id] /\ last'[id] = last[id] /\ odd' = odd
  BY <1>3, <1>5 DEF Serve, RetractFind, Fails, Found, TypeOK
<1>6. ASSUME NEW p \in Tabs, ToggleUpdate(p) \/ RetractUpdate(p)
      PROVE  meta'[id] = meta[id] /\ last' = last /\ (id \in odd' => id \in odd)
  BY <1>3, <1>4, <1>6 DEF Serve, ToggleUpdate, RetractUpdate
<1>7. ASSUME NEW p \in Tabs, ToggleFind(p) \/ RepublishFind(p)
      PROVE  UNCHANGED <<meta, last, odd>>
  BY <1>7 DEF ToggleFind, RepublishFind, Fails
<1>8. CASE \A p \in Tabs : ~Serve(p)
  BY <1>2, <1>8 DEF Next, AskToggle, AskRetract, AskRepublish, Call, Confirm, Fault,
     Create, Delete, Tick, Crash, vars
<1>9. QED BY <1>1, <1>2, <1>5, <1>6, <1>7, <1>8 DEF Serve

\* Every step keeps ExactInv.
LEMMA ExactNext == TypeOK /\ ExactInv /\ [Next]_vars => ExactInv'
<1> SUFFICES ASSUME TypeOK, ExactInv, [Next]_vars PROVE ExactInv'
  OBVIOUS
<1>1. UsersOwn' /\ Untouched'
  BY UsersNext, UntouchedNext DEF ExactInv
<1>2. ASSUME ~overlap' PROVE Unspoilt'
  <2>1. CASE \E p \in Tabs : Serve(p)
    BY <1>2, <2>1, ExactServe DEF ExactInv
  <2>2. CASE \A p \in Tabs : ~Serve(p)
    <3>1. overlap' = overlap
      BY <2>2 DEF Next, AskToggle, AskRetract, AskRepublish, Call, Confirm, Fault,
         Create, Delete, Tick, Crash, vars, history
    <3>2. QED BY <1>2, <2>2, <3>1, ExactAround DEF ExactInv
  <2>3. QED BY <2>1, <2>2
<1>3. QED BY <1>1, <1>2 DEF ExactInv

\* No change of one field of an account's configuration is lost to a change of
\* the other, unless a handler read the row while another was about to write it.
THEOREM NoChangeLost == Spec => []ConfigExact
<1>1. Init => ExactInv
  <2> SUFFICES ASSUME Init PROVE ExactInv
    OBVIOUS
  <2>1. \A id \in AcctIds : meta[id] = Default /\ last[id] = NoEvent /\ id \notin odd
    BY DEF Init
  <2>2. \A p \in Tabs : pc[p] = "idle"
    BY DEF Init
  <2>3. \A a \in accts : a.id \in AcctIds
    BY DEF Init, AcctRow
  <2>4. \A a \in accts : Exact(a.id)
    BY <2>1, <2>3, DefaultExact
  <2>5. QED
    BY <2>1, <2>2, <2>4
       DEF ExactInv, UsersOwn, Untouched, Unspoilt, OneWriter, FreshConfig, Updating
<1>2. ExactInv => ConfigExact
  BY DEF ExactInv, Unspoilt, Exact, ConfigExact
<1>3. QED BY <1>1, <1>2, TypeInit, TypeNext, ExactNext, PTL DEF Spec
=============================================================================
