---------------------------- MODULE MCAcctConfig ----------------------------
(***************************************************************************)
(* A small instance of AcctConfig: one user with one account and two tabs. *)
(* When the account is deleted, one with either key may follow.            *)
(***************************************************************************)
EXTENDS AcctConfig

CONSTANTS u1, k1, k2, t1, t2

MCInit == {[id |-> 1, user |-> u1, key |-> k1]}
=============================================================================
