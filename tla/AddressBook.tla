---------------------------- MODULE AddressBook ----------------------------
(***************************************************************************)
(* What the address endpoints promise their clients, without transactions, *)
(* locks or statements: a request takes effect in one step or not at all.  *)
(*                                                                         *)
(*  - 2xx: it took effect, once, as the answer was given;                  *)
(*  - 4xx: it had no effect, and the reason held when it was given;        *)
(*  - 500: it had no effect, or its effect is unknown: it may come later,  *)
(*    at most once;                                                        *)
(*  - an effect is on rows of the caller, and a deleted row never returns. *)
(*                                                                         *)
(* Serial is TRUE for users who send one request at a time: the promise    *)
(* is then the exact one of handler.go and README.md.  With FALSE it is    *)
(* what is left of it when requests overlap: the columns an update leaves  *)
(* out may take an older value, some of the user's defaults may be left in *)
(* place, the cap and the last-default rule may have been passed earlier.  *)
(***************************************************************************)
EXTENDS Naturals, FiniteSets

CONSTANTS User, AddressId, Label, Client, Inputs, NoRequest, Omitted,
          Unborn, Gone, InitialBooks, MaxAddresses, Serial

VARIABLES
    book,    \* every address, Unborn or Gone where there is none
    asked,   \* the request each client waits on, or whose effect is open
    answer   \* the status each client got last, 0 while it waits

vars == <<book, asked, answer>>

Live(s) == s \notin {Unborn, Gone}
AddressesOf(u) == {i \in AddressId : Live(book[i]) /\ book[i].owner = u}
DefaultsOf(u) == {i \in AddressesOf(u) : book[i].isDefault}

Init ==
    /\ book \in InitialBooks
    /\ asked = [c \in Client |-> NoRequest]
    /\ answer = [c \in Client |-> 0]

----------------------------------------------------------------------------
(* Effects.                                                                *)

Demoted(row) == [row EXCEPT !.isDefault = FALSE]

\* Beside row i, a request changes at most the default it takes the place of.
OthersKept(r, i) ==
    \A j \in AddressId \ {i} :
        \/ book'[j] = book[j] /\ (Serial /\ r.isDefault => j \notin DefaultsOf(r.user))
        \/ r.isDefault /\ j \in DefaultsOf(r.user) /\ book'[j] = Demoted(book[j])

Created(r) ==
    /\ Serial => Cardinality(AddressesOf(r.user)) < MaxAddresses
    /\ \E i \in AddressId :
        /\ book[i] = Unborn
        /\ book'[i] = [owner |-> r.user, label |-> r.label, isDefault |-> r.isDefault]
        /\ OthersKept(r, i)

\* A column that is sent is written; one that is not keeps its value.
Updated(r) ==
    /\ r.id \in AddressesOf(r.user)
    /\ \E row \in [owner : {r.user}, label : Label, isDefault : BOOLEAN] :
        /\ book'[r.id] = row
        /\ IF r.label # Omitted THEN row.label = r.label
                                ELSE Serial => row.label = book[r.id].label
        /\ IF r.isDefault THEN row.isDefault
                          ELSE Serial => row.isDefault = book[r.id].isDefault
    /\ OthersKept(r, r.id)

LastOrNotDefault(r) ==
    r.id \in DefaultsOf(r.user) => Cardinality(AddressesOf(r.user)) = 1

Deleted(r) ==
    /\ IF Serial THEN r.id \in AddressesOf(r.user) /\ LastOrNotDefault(r)
                 ELSE r.id \in AddressesOf(r.user) \/ book[r.id] = Gone
    /\ book' = [book EXCEPT ![r.id] = Gone]

Effect(r) ==
    \/ r.op = "create" /\ Created(r)
    \/ r.op = "update" /\ Updated(r)
    \/ r.op = "delete" /\ Deleted(r)

----------------------------------------------------------------------------
(* Answers.                                                                *)

Waiting(c) == asked[c] # NoRequest /\ answer[c] = 0
Open(c) == asked[c] # NoRequest /\ answer[c] = 500

Answered(c, status) == answer' = [answer EXCEPT ![c] = status]
Over(c) == asked' = [asked EXCEPT ![c] = NoRequest]

\* The client of a lost answer may ask again before the effect is settled by
\* another connection; this one stays with the open request.
Ask(c, r) ==
    /\ asked[c] = NoRequest
    /\ asked' = [asked EXCEPT ![c] = r]
    /\ Answered(c, 0)
    /\ UNCHANGED book

Succeed(c) ==
    /\ Waiting(c)
    /\ Effect(asked[c])
    /\ Answered(c, CASE asked[c].op = "create" -> 201
                     [] asked[c].op = "update" -> 200
                     [] asked[c].op = "delete" -> 204)
    /\ Over(c)

NotFound(r) == r.op # "create" /\ r.id \notin AddressesOf(r.user)

Invalid(r) ==
    \/ r.op = "create" /\ Cardinality(AddressesOf(r.user)) >= MaxAddresses
    \/ /\ r.op = "delete"
       /\ Cardinality(AddressesOf(r.user)) > 1
       /\ Serial => r.id \in DefaultsOf(r.user)

Fail(c) ==
    /\ Waiting(c)
    /\ \/ Answered(c, 404) /\ NotFound(asked[c])
       \/ Answered(c, 400) /\ Invalid(asked[c])
       \/ Answered(c, 500)
    /\ Over(c)
    /\ UNCHANGED book

LoseAnswer(c) ==
    /\ Waiting(c)
    /\ Answered(c, 500)
    /\ UNCHANGED <<book, asked>>

Settle(c) ==
    /\ Open(c)
    /\ Effect(asked[c]) \/ UNCHANGED book
    /\ Over(c)
    /\ UNCHANGED answer

Next ==
    \E c \in Client :
        \/ \E r \in Inputs : Ask(c, r)
        \/ Succeed(c) \/ Fail(c) \/ LoseAnswer(c) \/ Settle(c)

Spec == Init /\ [][Next]_vars

=============================================================================
