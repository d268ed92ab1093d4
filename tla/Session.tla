------------------------------ MODULE Session ------------------------------
(***************************************************************************)
(* Who a request is served for: AuthInterceptor of web-utils, in front of   *)
(* every handler of cart-web and order-web, with JwtUtil, CookieUtil and    *)
(* the pages login and verify of passport-web.                              *)
(*                                                                         *)
(* A token is a signed user id; the key of the signature is salted with the *)
(* address of the browser.  The token travels in the cookie oldToken, or,   *)
(* right after a login, as the parameter newToken.  Passport keeps no list  *)
(* of sessions, so one browser is enough: its tabs share its cookies, its   *)
(* history and its address, which may change.                               *)
(***************************************************************************)
EXTENDS Naturals

CONSTANTS
    Users,
    Addresses,    \* IP addresses of the browser
    Tabs,
    Required,     \* pages with @LoginRequire(ifNeedSuccess = true)
    Optional,     \* pages with @LoginRequire(ifNeedSuccess = false)
    CookieTTL,    \* life of the cookie oldToken (2 hours), in clock ticks
    MaxMoves,     \* bound: how often the address changes
    MaxFailures,  \* bound: how many calls of verify fail
    NoToken,      \* no cookie, no parameter
    NoPage,       \* a blank returnURL; a tab that is not after anything
    Guest         \* no attribute userId

ASSUME LifeAssumption == CookieTTL \in Nat \ {0}
ASSUME BoundsAssumption == MaxMoves \in Nat /\ MaxFailures \in Nat
ASSUME ValuesAssumption ==
    /\ Required \cap Optional = {} /\ NoPage \notin Required \cup Optional
    /\ Guest \notin Users
    /\ NoToken \notin [user : Users, salt : Addresses]

Pages == Required \cup Optional
Token == [user : Users, salt : Addresses]

VARIABLES
    cookie,    \* the browser's cookie oldToken
    ttl,       \* its remaining life, 0 when there is none
    address,   \* the present address of the browser
    tab,       \* tab[t]: what tab t shows or waits for
    goal,      \* goal[t]: the page with required login that the user of t is after
    links,     \* addresses with a newToken in the browser's history
    moves,
    failures

vars == <<cookie, ttl, address, tab, goal, links, moves, failures>>

\* pc "page": a page is shown, served for user; "login": the form of passport,
\* which will go back to url; "request" and "verify": an answer is awaited.
Tab == [pc    : {"page", "login", "request", "verify"},
        url   : Pages \cup {NoPage},
        token : Token \cup {NoToken},
        from  : Addresses,             \* where the request came from
        user  : Users \cup {Guest},    \* whom the page was served for
        by    : Users \cup {Guest},    \* history: whose login led to the request
        failed : BOOLEAN]              \* history: a login at this form got no token

TypeOK ==
    /\ cookie \in Token \cup {NoToken}
    /\ ttl \in 0..CookieTTL
    /\ address \in Addresses
    /\ tab \in [Tabs -> Tab]
    /\ goal \in [Tabs -> Required \cup {NoPage}]
    /\ links \subseteq [url : Required, token : Token]
    /\ moves \in 0..MaxMoves
    /\ failures \in 0..MaxFailures

Init ==
    /\ cookie = NoToken
    /\ ttl = 0
    /\ address \in Addresses
    /\ tab = [t \in Tabs |-> [pc |-> "page", url |-> NoPage, token |-> NoToken, from |-> address,
                              user |-> Guest, by |-> Guest, failed |-> FALSE]]
    /\ goal = [t \in Tabs |-> NoPage]
    /\ links = {}
    /\ moves = 0
    /\ failures = 0

-----------------------------------------------------------------------------
(* The user. *)

\* Mutant: the token of the cookie wins.
OldTokenFirst(oldToken, newToken) == IF oldToken = NoToken THEN newToken ELSE oldToken

\* The four cases of preHandle: a newToken wins over the cookie.
ChooseToken(oldToken, newToken) == IF newToken = NoToken THEN oldToken ELSE newToken

\* The browser of tab t sends a request with its cookie.
Send(t, url, newToken, by) ==
    tab' = [tab EXCEPT ![t] = [pc |-> "request", url |-> url,
                               token |-> ChooseToken(cookie, newToken),
                               from |-> address, user |-> Guest, by |-> by,
                               failed |-> FALSE]]

AtRest(t) == tab[t].pc \in {"page", "login"}

\* A link or the address bar.
Open(t, p) ==
    /\ AtRest(t)
    /\ goal[t] = NoPage
    /\ Send(t, p, NoToken, Guest)
    /\ goal' = [goal EXCEPT ![t] = IF p \in Required THEN p ELSE NoPage]
    /\ UNCHANGED <<cookie, ttl, address, links, moves, failures>>

\* After a login that led nowhere the user asks for the page once more.
OpenAgain(t) ==
    /\ AtRest(t)
    /\ goal[t] # NoPage
    /\ tab[t].pc = "login" /\ tab[t].url = NoPage
    /\ Send(t, goal[t], NoToken, Guest)
    /\ UNCHANGED <<cookie, ttl, address, goal, links, moves, failures>>

\* Back to an address with a newToken, of this or of another tab.
Reopen(t) ==
    /\ AtRest(t)
    /\ goal[t] = NoPage
    /\ \E link \in links :
        /\ Send(t, link.url, link.token, link.token.user)
        /\ goal' = [goal EXCEPT ![t] = link.url]
    /\ UNCHANGED <<cookie, ttl, address, links, moves, failures>>

\* login with the right password answers the token; the page goes to
\* returnURL + "?newToken=" + token, which is the form again when there is none.
LogIn(t, u) ==
    LET token == [user |-> u, salt |-> address] IN
    /\ tab[t].pc = "login"
    /\ \/ /\ tab[t].url = NoPage
          /\ tab' = [tab EXCEPT ![t].by = u]
          /\ UNCHANGED links
       \/ /\ tab[t].url # NoPage
          /\ Send(t, tab[t].url, token, u)
          /\ links' = links \cup {[url |-> tab[t].url, token |-> token]}
    /\ UNCHANGED <<cookie, ttl, address, goal, moves, failures>>

\* combineCart throws before the token is answered: for a user without cart rows
\* and a cookie that adds none, or with a product of the cookie in two rows.  The
\* script of the form has no handler for that, so the form just stays.
LogInFails(t, u) ==
    /\ tab[t].pc = "login"
    /\ tab' = [tab EXCEPT ![t].failed = TRUE]
    /\ UNCHANGED <<cookie, ttl, address, goal, links, moves, failures>>

Move(a) ==
    /\ moves < MaxMoves
    /\ a # address
    /\ address' = a
    /\ moves' = moves + 1
    /\ UNCHANGED <<cookie, ttl, tab, goal, links, failures>>

\* The browser drops the cookie when its life is over.
Tick ==
    /\ ttl > 0
    /\ ttl' = ttl - 1
    /\ cookie' = IF ttl = 1 THEN NoToken ELSE cookie
    /\ UNCHANGED <<address, tab, goal, links, moves, failures>>

-----------------------------------------------------------------------------
(* preHandle *)

Show(t, u) ==
    /\ tab' = [tab EXCEPT ![t].pc = "page", ![t].user = u]
    /\ goal' = [goal EXCEPT ![t] = NoPage]

Redirect(t, returnURL) ==
    /\ tab' = [tab EXCEPT ![t].pc = "login", ![t].url = returnURL, ![t].by = Guest]
    /\ UNCHANGED goal

\* Mutant: the form for every page, whether ifNeedSuccess says so or not.
LoginForEveryPage(t) ==
    /\ tab[t].pc = "request"
    /\ tab[t].token = NoToken
    /\ Redirect(t, tab[t].url)
    /\ UNCHANGED <<cookie, ttl, address, links, moves, failures>>

\* Without a token: the login form, or the page for a guest.
WithoutToken(t) ==
    /\ tab[t].pc = "request"
    /\ tab[t].token = NoToken
    /\ \/ tab[t].url \in Required /\ Redirect(t, tab[t].url)
       \/ tab[t].url \in Optional /\ Show(t, Guest)
    /\ UNCHANGED <<cookie, ttl, address, links, moves, failures>>

AskPassport(t) ==
    /\ tab[t].pc = "request"
    /\ tab[t].token # NoToken
    /\ tab' = [tab EXCEPT ![t].pc = "verify"]
    /\ UNCHANGED <<cookie, ttl, address, goal, links, moves, failures>>

\* Mutant: the salt is not used.
SaltIgnored(t) == TRUE

\* parseClaimsJws accepts the signature: it was made for this address.
Valid(t) == tab[t].token.salt = tab[t].from

\* For the whole domain, so that the shop's servers share the cookie.
SetCookie(token) == cookie' = token /\ ttl' = CookieTTL

\* doGet gives "success": the cookie is set again and the attributes are filled.
Verified(t) ==
    /\ tab[t].pc = "verify"
    /\ Valid(t)
    /\ SetCookie(tab[t].token)
    /\ Show(t, tab[t].token.user)
    /\ UNCHANGED <<address, links, moves, failures>>

\* doGet gives null: the form without a returnURL, or the page for a guest.
Rejected(t) ==
    \/ tab[t].url \in Required /\ Redirect(t, NoPage)
    \/ tab[t].url \in Optional /\ Show(t, Guest)

\* Mutant: the cookie is refreshed before the answer of verify is looked at.
RefusedButRefreshed(t) ==
    /\ tab[t].pc = "verify"
    /\ ~Valid(t)
    /\ Rejected(t)
    /\ SetCookie(tab[t].token)
    /\ UNCHANGED <<address, links, moves, failures>>

\* verify throws a SignatureException: status 500.
Refused(t) ==
    /\ tab[t].pc = "verify"
    /\ ~Valid(t)
    /\ Rejected(t)
    /\ UNCHANGED <<cookie, ttl, address, links, moves, failures>>

\* Passport cannot be reached.
VerifyFails(t) ==
    /\ tab[t].pc = "verify"
    /\ failures < MaxFailures
    /\ failures' = failures + 1
    /\ Rejected(t)
    /\ UNCHANGED <<cookie, ttl, address, links, moves>>

Serve(t) == WithoutToken(t) \/ AskPassport(t) \/ Verified(t) \/ Refused(t)

Next ==
    \/ \E t \in Tabs :
        \/ Serve(t) \/ VerifyFails(t)
        \/ OpenAgain(t) \/ Reopen(t)
        \/ \E p \in Pages : Open(t, p)
        \/ \E u \in Users : LogIn(t, u) \/ LogInFails(t, u)
    \/ \E a \in Addresses : Move(a)
    \/ Tick

Spec == Init /\ [][Next]_vars

\* Requests are served, time passes, and a user who is after a page answers the
\* login form or asks again; nobody has to repeat a login that failed.
Answers(t) ==
    /\ goal[t] # NoPage /\ tab[t].url # NoPage /\ ~tab[t].failed
    /\ \E u \in Users : LogIn(t, u) \/ LogInFails(t, u)

FairSpec ==
    /\ Spec
    /\ WF_vars(Tick)
    /\ \A t \in Tabs :
        /\ WF_vars(Serve(t))
        /\ WF_vars(OpenAgain(t))
        /\ WF_vars(Answers(t))

-----------------------------------------------------------------------------

\* Nobody is served for a user who has not logged in from the address the request
\* came from, whatever old cookies and addresses are around (verify, decode).
ServedHere ==
    \A t \in Tabs : tab[t].pc = "page" /\ tab[t].user # Guest =>
        \E link \in links : link.token = [user |-> tab[t].user, salt |-> tab[t].from]

\* The page that a login leads to is shown for the user who logged in, although
\* another tab may have left the token of another user in the cookie.
LoginServesItsUser ==
    \A t \in Tabs : tab[t].pc = "page" /\ tab[t].by # Guest => tab[t].user = tab[t].by

\* A user who asks for a page and logs in whenever the form appears gets it, or
\* is left at a form whose login gave no token; with the token of an old address
\* in the cookie the page does not come before that cookie is gone.
ReachesPage == \A t \in Tabs : goal[t] # NoPage ~> goal[t] = NoPage \/ tab[t].failed
=============================================================================
