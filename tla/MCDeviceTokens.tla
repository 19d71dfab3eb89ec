--------------------------- MODULE MCDeviceTokens ---------------------------
(***************************************************************************)
(* Small instances of DeviceTokens and its observer.                       *)
(***************************************************************************)
EXTENDS TokenAnswers, TLC

AnyOwners == [Token -> User \cup {Nobody}]

NoRegistrations == {[t \in Token |-> Nobody]}

Symmetry == Permutations(User) \cup Permutations(Token) \cup Permutations(Conn)
=============================================================================
