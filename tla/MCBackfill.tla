----------------------------- MODULE MCBackfill -----------------------------
(***************************************************************************)
(* A small instance of Backfill: two accounts that may exist, k1 and k2,   *)
(* and somebody else, x.  between goes from k2 to k1 by some other client, *)
(* outside from x to k2 at the same time, and k1 writes reply to x later:  *)
(* once it is stored, whoever asks since the newest message does not ask   *)
(* for the other two.                                                      *)
(***************************************************************************)
EXTENDS Backfill

CONSTANTS k1, k2, x, between, outside, reply

MCAuthor == [m \in Msgs |-> CASE m = reply -> k1 [] m = between -> k2 [] OTHER -> x]
MCPTag == [m \in Msgs |-> CASE m = reply -> x [] m = between -> k1 [] OTHER -> k2]
MCInit == {k1}
MCTime == [m \in Msgs |-> IF m = reply THEN 2 ELSE 1]
=============================================================================
