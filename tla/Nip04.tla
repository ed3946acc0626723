------------------------------- MODULE Nip04 -------------------------------
(***************************************************************************)
(* How the text of a direct message is encrypted (helpers.py, and the      *)
(* methods of NostrAcct in models.py): a secret is what it was computed    *)
(* from, and the content of an event is the text and the secret that       *)
(* unlocks it.  The initialisation vector makes each content another one;  *)
(* nothing depends on it but the id of the event, which is new each time.  *)
(***************************************************************************)
CONSTANT OddKeys  \* public keys whose point has an odd y coordinate

\* A public key is an x coordinate alone: "02" + key is the point with that x
\* and an even y, perhaps the negative of the owner's.  The product of either's
\* private key with the other's point is the same, but for that sign.
EcdhPoint(mine, theirs) == [x |-> {mine, theirs}, negated |-> theirs \in OddKeys]

\* Mutant: the point is compressed, as by the library's own hash function.
CopyPoint(point) == IF point.negated THEN point.x \cup {"03"} ELSE point.x

CopyX(point) == point.x

SharedSecret(mine, theirs) == CopyX(EcdhPoint(mine, theirs))

\* Content without "?iv=" was not encrypted.
NoSecret == {}
Encrypted(text, secret) == [text |-> text, secret |-> secret]
Unencrypted(text)       == [text |-> text, secret |-> NoSecret]

\* What decrypting may result in.  With another secret than it was encrypted with,
\* the padding or the encoding is found to be wrong, or, by chance, is not.
DecryptsTo(content, secret, result) ==
  content.secret \in {secret, NoSecret} => result = content.text
=============================================================================
