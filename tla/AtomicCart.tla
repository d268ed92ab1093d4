----------------------------- MODULE AtomicCart -----------------------------
(***************************************************************************)
(* What a visitor may think of carts: each request is one step, between     *)
(* carts in cookies and one table of lines, without ids, transactions,      *)
(* copies in Redis and calls of a service.  That all users who are logged in *)
(* fill the cart of HomeUser, and that a cookie is merged into the lines of *)
(* any user, is what the code does.                                         *)
(***************************************************************************)
EXTENDS Naturals

CONSTANTS Users, HomeUser, Guest, Skus, Browsers

VARIABLES
    table,    \* the lines of the carts of users: [userId, skuId, skuNum, isChecked]
    cookie,   \* cookie[b]: the lines of a browser's own cart
    session   \* session[b]: the user of browser b, or Guest

lines == <<table, cookie, session>>

OfUser(S, u) == {x \in S : x.userId = u}
OfSku(S, s)  == {x \in S : x.skuId = s}
More(S, n)   == {[x EXCEPT !.skuNum = @ + n] : x \in S}

\* One more piece in the lines T of S, or else a new line.
Put(S, T, new) == IF T = {} THEN S \cup {new} ELSE (S \ T) \cup More(T, 1)

Mark(S, T, checked) == (S \ T) \cup {[x EXCEPT !.isChecked = checked] : x \in T}

LineOf(u, l) == [userId |-> u, skuId |-> l.skuId, skuNum |-> l.skuNum, isChecked |-> l.isChecked]

\* The lines of a cookie are added to those of their products, whose ever they are.
Merged(S, brought, u) ==
    {x \in S : \A l \in brought : l.skuId # x.skuId}
    \cup (UNION {More(OfSku(S, l.skuId), l.skuNum) : l \in brought})
    \cup {LineOf(u, l) : l \in {m \in brought : OfSku(S, m.skuId) = {}}}

Init ==
    /\ table = {}
    /\ cookie = [b \in Browsers |-> {}]
    /\ session = [b \in Browsers |-> Guest]

PutInCookie(b, s) ==
    /\ session[b] = Guest
    /\ cookie' = [cookie EXCEPT ![b] =
           Put(@, OfSku(@, s), [skuId |-> s, skuNum |-> 1, isChecked |-> TRUE])]
    /\ UNCHANGED <<table, session>>

MarkInCookie(b, s, checked) ==
    /\ session[b] = Guest
    /\ cookie' = [cookie EXCEPT ![b] = Mark(@, OfSku(@, s), checked)]
    /\ UNCHANGED <<table, session>>

PutInTable(s) ==
    /\ table' = Put(table, OfSku(OfUser(table, HomeUser), s),
                    [userId |-> HomeUser, skuId |-> s, skuNum |-> 1, isChecked |-> TRUE])
    /\ UNCHANGED <<cookie, session>>

MarkInTable(u, s, checked) ==
    /\ table' = Mark(table, OfSku(OfUser(table, u), s), checked)
    /\ UNCHANGED <<cookie, session>>

\* Refused when a product of the cookie has two lines, or the cart stays empty.
LogIn(b, u) ==
    /\ \A l \in cookie[b] : \A x, y \in OfSku(table, l.skuId) : x = y
    /\ OfUser(Merged(table, cookie[b], u), u) # {}
    /\ table' = Merged(table, cookie[b], u)
    /\ cookie' = [cookie EXCEPT ![b] = {}]
    /\ session' = [session EXCEPT ![b] = u]

LogOut(b) ==
    /\ session' = [session EXCEPT ![b] = Guest]
    /\ UNCHANGED <<table, cookie>>

Next ==
    \/ \E b \in Browsers, s \in Skus :
        PutInCookie(b, s) \/ \E checked \in BOOLEAN : MarkInCookie(b, s, checked)
    \/ \E s \in Skus :
        PutInTable(s) \/ \E u \in Users, checked \in BOOLEAN : MarkInTable(u, s, checked)
    \/ \E b \in Browsers : LogOut(b) \/ \E u \in Users : LogIn(b, u)

Spec == Init /\ [][Next]_lines
=============================================================================
