---------------------------- MODULE MCSentryJwks ----------------------------
(***************************************************************************)
(* Small instances of SentryJwks: Sentry rotates from key A to key B, once *)
(* publishing both, and callers hold tokens of either key.                 *)
(***************************************************************************)
EXTENDS SentryVerifier, TLC

CONSTANTS A, B, C    \* key IDs

KeyA == [kid |-> A, secret |-> "a"]
KeyB == [kid |-> B, secret |-> "b"]

MCKey == {KeyA, KeyB}

MCPublication == [v \in 0 .. 2 |->
  CASE v = 0 -> <<KeyA>>
    [] v = 1 -> <<KeyB, KeyA>>
    [] v = 2 -> <<KeyB>>]

\* Key B replaces key A at once.
MCReplacement == [v \in 0 .. 1 |-> IF v = 0 THEN <<KeyA>> ELSE <<KeyB>>]

Signed(kid, secret) ==
  [parses |-> TRUE, kid |-> kid, signer |-> secret, exp |-> 100, nbf |-> 0,
   audience |-> TRUE, subject |-> "trusted"]

\* The retiring key and the new one.
RotationTokens == {Signed(A, "a"), Signed(B, "b")}

\* Tokens that tell every branch of Authenticate apart.
AllTokens ==
  {Signed(A, "a"), Signed(B, "b"), Signed(C, "c"), Signed(A, "b"),
   Signed(NoKid, "a"), Signed(NoKid, "b")}
    \cup {[Signed(A, "a") EXCEPT !.parses = FALSE],
          [Signed(A, "a") EXCEPT !.exp = 3],
          [Signed(A, "a") EXCEPT !.nbf = 3],
          [Signed(A, "a") EXCEPT !.audience = FALSE],
          [Signed(A, "a") EXCEPT !.subject = "none"],
          [Signed(A, "a") EXCEPT !.subject = "foreign"]}

Symmetry == Permutations(Request)
=============================================================================
