------------------------------ MODULE MCAccounts ------------------------------
(***************************************************************************)
(* Small instances of Accounts and its observer.                           *)
(***************************************************************************)
EXTENDS AccountAnswers, TLC

CONSTANT Caller  \* the users who send requests

RequestsOfCallers == {r \in Writes \cup Reads : r.user \in Caller}

Symmetry == Permutations(Email) \cup Permutations(Conn)
=============================================================================
