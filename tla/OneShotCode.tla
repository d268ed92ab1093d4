---------------------------- MODULE OneShotCode ----------------------------
(* What a trade code is for: the order page of a user carries a code, the    *)
(* last page the user opened is the one that counts, and a code that bought  *)
(* an order is gone, so it never buys another.  A refusal changes nothing    *)
(* and is always allowed.                                                    *)
EXTENDS Naturals

CONSTANTS Users, Codes, NoCode

VARIABLES
    token,  \* token[u]: the code user u may still spend
    used,   \* the codes handed out so far
    bought  \* bought[c]: how many orders code c has bought

Init ==
    /\ token = [u \in Users |-> NoCode]
    /\ used = {}
    /\ bought = [c \in Codes |-> 0]

Issue(u, c) ==
    /\ c \notin used
    /\ token' = [token EXCEPT ![u] = c]
    /\ used' = used \cup {c}
    /\ UNCHANGED bought

Redeem(u) ==
    /\ token[u] # NoCode
    /\ bought' = [bought EXCEPT ![token[u]] = @ + 1]
    /\ token' = [token EXCEPT ![u] = NoCode]
    /\ UNCHANGED used

\* The code was not spent in time.
Lapse(u) ==
    /\ token[u] # NoCode
    /\ token' = [token EXCEPT ![u] = NoCode]
    /\ UNCHANGED <<used, bought>>

Next == \E u \in Users : Redeem(u) \/ Lapse(u) \/ \E c \in Codes : Issue(u, c)

Spec == Init /\ [][Next]_<<token, used, bought>>
=============================================================================
