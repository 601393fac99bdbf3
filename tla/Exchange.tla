------------------------------ MODULE Exchange ------------------------------
(***************************************************************************)
(* What a communication of com.h promises the ranks that call it: what a   *)
(* rank takes out of an exchange is all of what was given for it in that   *)
(* exchange, by whom and in the order in which it was given, once.         *)
(* How it gets there is the matter of module Com.                          *)
(***************************************************************************)
EXTENDS Integers, Sequences

CONSTANT
    Rank            \* processes of the communicator

VARIABLES
    sends,          \* sends[x][q][r]: what q has for r in exchange x, a sequence
    given,          \* exchanges a rank has handed its data over to
    result          \* what a rank has been returned: a sequence of [x, got]

vars == <<sends, given, result>>

From(x, r) == {q \in Rank : sends[x][q][r] # <<>>}

Init == /\ given = [r \in Rank |-> {}]
        /\ result = [r \in Rank |-> <<>>]

Give(r, x) ==
    /\ given' = [given EXCEPT ![r] = @ \cup {x}]
    /\ UNCHANGED <<sends, result>>

Take(r, x) ==
    /\ \A n \in 1 .. Len(result[r]) : result[r][n].x # x
    /\ \A q \in From(x, r) : x \in given[q]
    /\ result' = [result EXCEPT ![r] =
                    Append(@, [x |-> x, got |-> [q \in From(x, r) |-> sends[x][q][r]]])]
    /\ UNCHANGED <<sends, given>>

Next == \E r \in Rank : \E x \in DOMAIN sends : Give(r, x) \/ Take(r, x)

Spec == Init /\ [][Next]_vars
=============================================================================
