---------------------------- MODULE MCChatServer ----------------------------
(***************************************************************************)
(* Small instances of ChatServer for TLC.  u1 and u2 are users, k1 and k2  *)
(* the keys their accounts have or may get, x is somebody on a relay.      *)
(***************************************************************************)
EXTENDS ChatServer, TLC

CONSTANTS u1, u2, k1, k2, x, in1, in2, out1, between, stray, noise, r1, r2, none,
          hello, junk

Acct1 == [id |-> 1, user |-> u1, key |-> k1]
Acct2 == [id |-> 2, user |-> u2, key |-> k2]

\* in1 and in2 come from x, out1 and noise are written by k1 to x, between by k1
\* to k2, stray has no addressee.
FromX == {in1, in2}
MCAuthor == [e \in Events |-> IF e \in FromX THEN x ELSE k1]
MCPTag   == [e \in Events |-> CASE e \in FromX    -> k1
                                [] e \in {out1, noise} -> x
                                [] e \in {between} -> k2
                                [] OTHER          -> none]

InitOne == {Acct1}
InitNone == {}

MCText == [e \in Events |-> hello]

Call(o, u, k) == [op |-> o, user |-> u, key |-> k]

\* The slots that serve requests are interchangeable.
Slots == Permutations(Requests)

ChatCalls == {Call("messages", u1, x), Call("peer", u1, x)}
MessageCalls == {Call("send", u1, x), Call("peer", u1, x), Call("delete", u1, k1),
                 Call("refresh", u1, k1)}
MailboxCalls == {Call("create", u2, k2), Call("delete", u1, k1), Call("send", u1, k2)}
\* One user asks for an account twice, in two browser tabs.
CreateCalls == {Call("create", u1, k1), Call("create", u1, k2)}
\* Somebody who already wrote to k1 gets an account on this server.
ImportCalls == {Call("create", u2, x)}
=============================================================================
