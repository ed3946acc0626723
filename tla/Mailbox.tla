------------------------------ MODULE Mailbox -------------------------------
(***************************************************************************)
(* What the server promises about messages, with no handlers, statements   *)
(* or subscriptions: one box for the whole server.  A message is filed at  *)
(* most once, under one account it concerns, with the other party it has   *)
(* and with the text its author wrote; it is sent out only while it is     *)
(* filed; deleting an account takes all its messages away at once.         *)
(***************************************************************************)
CONSTANTS Users, Pubkeys, AcctIds, Events, Texts, Author, PTag, Text, Garbled

VARIABLES
  members,  \* every account there ever was: its id, owner and key
  box,      \* filed messages: [event, acct, key, text, incoming]
  sent      \* messages of ours handed to the relays

vars == <<members, box, sent>>

Row == [id : AcctIds, user : Users, key : Pubkeys]
Filed == [event : Events, acct : AcctIds, key : Pubkeys, text : Texts, incoming : BOOLEAN]

\* m's own message to f.key, or a message from f.key to m; nobody knows what a
\* garbled one says.
Concerns(f, m) ==
  /\ f.acct = m.id
  /\ f.incoming  => Author[f.event] = f.key /\ PTag[f.event] = m.key
  /\ ~f.incoming => Author[f.event] = m.key /\ PTag[f.event] = f.key
  /\ f.text = Text[f.event] \/ f.event \in Garbled

Enroll ==
  /\ \E row \in Row : /\ \A m \in members : m.id # row.id
                      /\ members' = members \cup {row}
  /\ UNCHANGED <<box, sent>>

File ==
  /\ \E f \in Filed : /\ \A other \in box : other.event # f.event
                      /\ \E m \in members : Concerns(f, m)
                      /\ box' = box \cup {f}
  /\ UNCHANGED <<members, sent>>

Send ==
  /\ \E f \in box : /\ \E m \in members : m.id = f.acct /\ m.key = Author[f.event]
                    /\ sent' = sent \cup {f.event}
  /\ UNCHANGED <<members, box>>

Purge ==
  /\ \E m \in members : box' = {f \in box : f.acct # m.id}
  /\ UNCHANGED <<members, sent>>

Init == members \subseteq Row /\ box = {} /\ sent = {}
Next == Enroll \/ File \/ Send \/ Purge
Spec == Init /\ [][Next]_vars
=============================================================================
