------------------------------ MODULE MCGateway -------------------------------
(***************************************************************************)
(* A small instance of Gateway: requests with at most one thing out of the *)
(* ordinary, each value at the edges of its range.                         *)
(***************************************************************************)
EXTENDS Gateway, TLC

CONSTANTS k1, k2, u1, u2, q1, q2

MCKey == {k1, k2}
MCUser == {u1, u2}
MCReq == {q1, q2}

\* r, or r with one field changed to one of its other values.
Variations(r, others) == {r} \cup UNION {{[r EXCEPT ![f] = v] : v \in others[f]} : f \in DOMAIN others}

Token(k, u) == [header |-> "token", alg |-> "ES256", key |-> k, genuine |-> TRUE, exp |-> TRUE,
                subject |-> u]

Headers == UNION {Variations(Token(k, u1), [header |-> {"missing", "basic", "garbled"},
                                            alg |-> {"RS256", "HS256"},
                                            genuine |-> {FALSE}, exp |-> {FALSE},
                                            subject |-> {NoUser}]) : k \in MCKey}

Values(S) == {{}} \cup {{v} : v \in S}

Addresses ==
    Variations([label |-> {1}, address |-> {500}, deliveryNote |-> {}, lat |-> {90},
                lng |-> {-180}, isDefault |-> {TRUE}],
               [label |-> Values({0, 100, 101}), address |-> Values({0, 1, 501}),
                deliveryNote |-> Values({0, 500, 501}), lat |-> Values({-91, -90, 0, 91}),
                lng |-> Values({-181, 0, 180, 181}), isDefault |-> Values({FALSE})])

Profiles ==
    Variations([firstName |-> {1}, lastName |-> {100}, profileImageURL |-> {"url"},
                birthDate |-> {"date"}],
               [firstName |-> Values({0, 101}), lastName |-> Values({0, 101}),
                profileImageURL |-> Values({"other"}), birthDate |-> Values({"other"})])

Registrations ==
    Variations([token |-> {10}, platform |-> {"ios"}],
               [token |-> Values({0, 9, 11}), platform |-> Values({"web", "other", ""})])

\* A body of null, or {}.
Blank(bodies) == {[f \in DOMAIN b |-> {}] : b \in bodies}

Asked ==
    [op : Bare]
    \cup [op : {"create"}, body : Values(Blank(Addresses))]
    \cup [op : {"update"}, id : {TRUE}, body : Values(Blank(Addresses))]
    \cup [op : {"profile"}, body : Values(Blank(Profiles))]
    \cup [op : {"register"}, body : Values(Blank(Registrations))]
    \cup [op : {"create"}, body : Values(Addresses)]
    \cup [op : {"update"}, id : {TRUE}, body : Values(Addresses)]
    \cup [op : {"update"}, id : {FALSE}, body : {{}}]
    \cup [op : {"deleteAddress"}, id : BOOLEAN]
    \cup [op : {"profile"}, body : Values(Profiles)]
    \cup [op : {"register"}, body : Values(Registrations)]
    \cup [op : {"deleteToken"}, token : {0, 1}]

\* The second request is there for the key of its token.
MCSends == q1 :> [cred : Headers, call : [op : {"me"}]] \cup [cred : {Token(k1, u1)}, call : Asked]
           @@ q2 :> [cred : {Token(k, u2) : k \in MCKey}, call : [op : {"listAddresses"}]]

=============================================================================
