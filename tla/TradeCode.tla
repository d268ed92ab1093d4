----------------------------- MODULE TradeCode -----------------------------
(***************************************************************************)
(* The guard against a repeated order: OrderController.toTrade of order-web *)
(* puts a trade code on the order page and stores it in Redis under         *)
(* userId:<id>:tradeCode; OrderController.submitOrder asks order-service    *)
(* whether the submitted code is the stored one, which deletes it.  Each    *)
(* request is a Tomcat thread of order-web, each Redis command a step, and  *)
(* an order-service call may be lost and repeated by Dubbo's failover.      *)
(* What toTrade reads of the cart is modelled in Cart.                      *)
(***************************************************************************)
EXTENDS Naturals, FiniteSets

CONSTANTS
    Users,
    Codes,       \* the UUIDs: a new one differs from every earlier one
    Requests,    \* request threads of order-web
    MaxRetries,  \* Dubbo consumer retries of a call (2 unless configured)
    Serial,      \* TRUE: a user waits for the answer before the next click
    NoCode       \* no such key in Redis, or no tradeCode parameter

ASSUME CodesAssumption == NoCode \notin Codes
ASSUME RetriesAssumption == MaxRetries \in Nat
ASSUME SerialAssumption == Serial \in BOOLEAN

VARIABLES
    code,      \* code[u]: value of userId:<u>:tradeCode
    issued,    \* the UUIDs generated so far
    pages,     \* pages[u]: codes of the order pages in u's browser, old ones included
    pc,        \* pc[r]: where request r stands
    user,      \* user[r]: attribute userId of the request
    tradeCode, \* tradeCode[r]: the local (toTrade) or parameter (submitOrder)
    retries,   \* retries[r]: how often the order-service call was repeated
    latest,    \* history: latest[u] is the last code stored for u
    spent,     \* history: spent[c] counts the checks that accepted and deleted c
    lapsed,    \* history: codes that Redis dropped after 30 minutes
    paid,      \* history: paid[c] counts the submits of c answered with payTest
    repeat     \* history: repeat[r], the code was already paid for when r came in

requestVars == <<pc, user, tradeCode, retries, repeat>>
historyVars == <<latest, spent, lapsed, paid>>
vars == <<code, issued, pages, requestVars, historyVars>>

Init ==
    /\ code = [u \in Users |-> NoCode]
    /\ issued = {}
    /\ pages = [u \in Users |-> {}]
    /\ pc = [r \in Requests |-> "idle"]
    /\ user \in [Requests -> Users]
    /\ tradeCode = [r \in Requests |-> NoCode]
    /\ retries = [r \in Requests |-> 0]
    /\ latest = [u \in Users |-> NoCode]
    /\ spent = [c \in Codes |-> 0]
    /\ lapsed = {}
    /\ paid = [c \in Codes |-> 0]
    /\ repeat = [r \in Requests |-> FALSE]

Busy(u) == \E r \in Requests : user[r] = u /\ pc[r] # "idle"

\* A request of user u with code c reaches order-web.
Arrive(r, u, c, label) ==
    /\ pc[r] = "idle"
    /\ Serial => ~Busy(u)
    /\ pc' = [pc EXCEPT ![r] = label]
    /\ user' = [user EXCEPT ![r] = u]
    /\ tradeCode' = [tradeCode EXCEPT ![r] = c]
    /\ repeat' = [repeat EXCEPT ![r] = c # NoCode /\ paid[c] > 0]
    /\ UNCHANGED retries
    /\ UNCHANGED <<code, issued, pages, historyVars>>

Goto(r, label) ==
    /\ pc' = [pc EXCEPT ![r] = label]
    /\ UNCHANGED <<user, tradeCode, retries, repeat>>

\* The response has been sent; the request and its locals are gone.
Done(r) ==
    /\ pc' = [pc EXCEPT ![r] = "idle"]
    /\ tradeCode' = [tradeCode EXCEPT ![r] = NoCode]
    /\ retries' = [retries EXCEPT ![r] = 0]
    /\ repeat' = [repeat EXCEPT ![r] = FALSE]
    /\ UNCHANGED user

-----------------------------------------------------------------------------
(* toTrade and getTradeCode *)

\* Bound: UUIDs never run out, so no more calls wait for one than Codes has left.
CodeLeft == Cardinality({r \in Requests : pc[r] = "issue"}) < Cardinality(Codes \ issued)

ToTrade(r, u) == CodeLeft /\ Arrive(r, u, NoCode, "issue")

\* Mutant: the code is not unique, an earlier one may come back.
GetUsedTradeCode(r) ==
    /\ pc[r] = "issue"
    /\ \E c \in Codes :
        /\ issued' = issued \cup {c}
        /\ code' = [code EXCEPT ![user[r]] = c]
        /\ latest' = [latest EXCEPT ![user[r]] = c]
        /\ tradeCode' = [tradeCode EXCEPT ![r] = c]
    /\ pc' = [pc EXCEPT ![r] = "render"]
    /\ UNCHANGED <<pages, user, retries, repeat, spent, lapsed, paid>>

\* setex userId:<u>:tradeCode 1800 <new UUID>
GetTradeCode(r) ==
    /\ pc[r] = "issue"
    /\ \E c \in Codes \ issued :
        /\ issued' = issued \cup {c}
        /\ code' = [code EXCEPT ![user[r]] = c]
        /\ latest' = [latest EXCEPT ![user[r]] = c]
        /\ tradeCode' = [tradeCode EXCEPT ![r] = c]
    /\ pc' = [pc EXCEPT ![r] = "render"]
    /\ UNCHANGED <<pages, user, retries, repeat, spent, lapsed, paid>>

\* The page "trade" with the code in its form.
RenderTrade(r) ==
    /\ pc[r] = "render"
    /\ pages' = [pages EXCEPT ![user[r]] = @ \cup {tradeCode[r]}]
    /\ Done(r)
    /\ UNCHANGED <<code, issued, historyVars>>

-----------------------------------------------------------------------------
(* submitOrder and checkTradeCode *)

\* The form of any page the browser still shows, or goes back to, is posted.
SubmitOrder(r, u) == \E c \in pages[u] \cup {NoCode} : Arrive(r, u, c, "get")

\* Mutant: any stored code will do.
MatchesAny(r) == code[user[r]] # NoCode

\* StringUtils.isNotBlank(s) && s.equals(tradeCode)
Matches(r) == code[user[r]] # NoCode /\ code[user[r]] = tradeCode[r]

GetCode(r) ==
    /\ pc[r] = "get"
    /\ Goto(r, IF Matches(r) THEN "del" ELSE "tradeFail")
    /\ UNCHANGED <<code, issued, pages, historyVars>>

\* Mutant: the accepted code stays in Redis.
KeepCode(r) ==
    /\ pc[r] = "del"
    /\ spent' = [spent EXCEPT ![tradeCode[r]] = @ + 1]
    /\ Goto(r, "payTest")
    /\ UNCHANGED <<code, issued, pages, latest, lapsed, paid>>

DelCode(r) ==
    /\ pc[r] = "del"
    /\ code' = [code EXCEPT ![user[r]] = NoCode]
    /\ spent' = [spent EXCEPT ![tradeCode[r]] = @ + 1]
    /\ Goto(r, "payTest")
    /\ UNCHANGED <<issued, pages, latest, lapsed, paid>>

\* The reply of order-service reaches submitOrder, which answers the browser.
Answer(r) ==
    /\ pc[r] \in {"payTest", "tradeFail"}
    /\ paid' = IF pc[r] = "payTest" THEN [paid EXCEPT ![tradeCode[r]] = @ + 1] ELSE paid
    /\ Done(r)
    /\ UNCHANGED <<code, issued, pages, latest, spent, lapsed>>

\* Mutant: the consumer calls again without end.
FailoverForEver(r) ==
    /\ pc[r] \in {"get", "del", "payTest", "tradeFail"}
    /\ retries' = [retries EXCEPT ![r] = @ + 1]
    /\ pc' = [pc EXCEPT ![r] = "get"]
    /\ UNCHANGED <<user, tradeCode, repeat>>
    /\ UNCHANGED <<code, issued, pages, historyVars>>

\* The provider dies or its reply is lost: Dubbo calls again from the start.
Failover(r) ==
    /\ pc[r] \in {"issue", "render", "get", "del", "payTest", "tradeFail"}
    /\ retries[r] < MaxRetries
    /\ pc[r] = "render" => CodeLeft
    /\ retries' = [retries EXCEPT ![r] = @ + 1]
    /\ pc' = [pc EXCEPT ![r] = IF pc[r] \in {"issue", "render"} THEN "issue" ELSE "get"]
    /\ UNCHANGED <<user, tradeCode, repeat>>
    /\ UNCHANGED <<code, issued, pages, historyVars>>

\* The 30 minutes of the key are over.
Expire(u) ==
    /\ code[u] # NoCode
    /\ code' = [code EXCEPT ![u] = NoCode]
    /\ lapsed' = lapsed \cup {code[u]}
    /\ UNCHANGED <<issued, pages, requestVars, latest, spent, paid>>

RequestStep(r) ==
    \/ GetTradeCode(r)
    \/ RenderTrade(r)
    \/ GetCode(r)
    \/ DelCode(r)
    \/ Answer(r)
    \/ Failover(r)

Next ==
    \/ \E r \in Requests : RequestStep(r) \/ \E u \in Users : ToTrade(r, u) \/ SubmitOrder(r, u)
    \/ \E u \in Users : Expire(u)

Spec == Init /\ [][Next]_vars

-----------------------------------------------------------------------------

TypeOK ==
    /\ code \in [Users -> Codes \cup {NoCode}]
    /\ issued \subseteq Codes
    /\ pages \in [Users -> SUBSET Codes]
    /\ pc \in [Requests -> {"idle", "issue", "render", "get", "del", "payTest", "tradeFail"}]
    /\ user \in [Requests -> Users]
    /\ tradeCode \in [Requests -> Codes \cup {NoCode}]
    /\ retries \in [Requests -> 0..MaxRetries]
    /\ latest \in [Users -> Codes \cup {NoCode}]
    /\ spent \in [Codes -> Nat]
    /\ lapsed \subseteq Codes
    /\ paid \in [Codes -> Nat]
    /\ repeat \in [Requests -> BOOLEAN]

\* "防止提交订单回退时的重复提交": a user who goes back to an order page whose
\* submit was answered with payTest, and submits it again, is refused; whatever
\* other requests and repeated calls are under way (checkTradeCode).
ResubmitRefused ==
    \A r \in Requests : repeat[r] => pc[r] \notin {"del", "payTest"}

\* A code that was deleted, replaced or expired is never accepted later: a code
\* in Redis is the last one issued to its user and was not spent yet.
StoredCodeIsFresh ==
    \A u \in Users : code[u] # NoCode =>
        code[u] = latest[u] /\ code[u] \notin lapsed /\ spent[code[u]] = 0

\* Two submits of one code never both end in payTest.
PaidOnce == \A c \in Codes : paid[c] <= 1

\* For a user who waits for each answer, trade codes are one-shot codes: what
\* the user may spend is what Redis holds, or the code a check has just read
\* there and is about to delete; a check that accepts a code takes it away.
Token == [u \in Users |->
    IF \E r \in Requests : user[r] = u /\ pc[r] = "del"
    THEN tradeCode[CHOOSE r \in Requests : user[r] = u /\ pc[r] = "del"]
    ELSE code[u]]

OneShot == INSTANCE OneShotCode WITH token <- Token, used <- issued, bought <- spent

OneShotSpec == OneShot!Spec
=============================================================================
