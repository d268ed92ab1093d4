--------------------------- MODULE SessionProofs ---------------------------
(***************************************************************************)
(* What holds of Session for any users, addresses, tabs, pages and lives of *)
(* the cookie.  The inductive invariant follows the tokens: every token the *)
(* browser has, in the cookie or in a request, came from a login that is in *)
(* its history, and a request that a login has led to carries its token.    *)
(***************************************************************************)
EXTENDS Session, TLAPS

Known(token) == \E link \in links : link.token = token

TokensKnown ==
    /\ cookie # NoToken => Known(cookie)
    /\ \A t \in Tabs : tab[t].token # NoToken => Known(tab[t].token)

\* Requests ask for pages, and logins lead to pages that require one.
UrlsFit ==
    \A t \in Tabs :
        /\ tab[t].pc \in {"request", "verify"} => tab[t].url \in Pages
        /\ tab[t].pc = "login" => tab[t].url \in Required \cup {NoPage}
        /\ tab[t].pc = "verify" => tab[t].token # NoToken

LoginBringsToken ==
    \A t \in Tabs : tab[t].pc \in {"request", "verify"} /\ tab[t].by # Guest =>
        /\ tab[t].url \in Required
        /\ tab[t].token # NoToken
        /\ tab[t].token.user = tab[t].by

IInv ==
    /\ TypeOK
    /\ TokensKnown
    /\ UrlsFit
    /\ LoginBringsToken
    /\ ServedHere
    /\ LoginServesItsUser

\* The invariant holds in a browser that was just started.
LEMMA InitIInv == Init => IInv
  <1> SUFFICES ASSUME Init PROVE IInv
    OBVIOUS
  <1> USE DEF Init
  <1>1. TypeOK
    BY LifeAssumption, BoundsAssumption DEF TypeOK, Tab
  <1>2. TokensKnown /\ UrlsFit /\ LoginBringsToken
    BY DEF TokensKnown, UrlsFit, LoginBringsToken
  <1>3. ServedHere /\ LoginServesItsUser
    BY DEF ServedHere, LoginServesItsUser
  <1> QED
    BY <1>1, <1>2, <1>3 DEF IInv

\* The token of a request is the cookie or the newToken.
LEMMA ChosenToken ==
  ASSUME NEW old, NEW new
  PROVE  /\ ChooseToken(old, new) \in {old, new}
         /\ new # NoToken => ChooseToken(old, new) = new
         /\ new = NoToken => ChooseToken(old, new) = old
  BY DEF ChooseToken

\* The two ways to end a request keep the types.
LEMMA ShowType ==
  ASSUME TypeOK, NEW t \in Tabs, NEW u \in Users \cup {Guest}, Show(t, u)
  PROVE  tab' \in [Tabs -> Tab] /\ goal' \in [Tabs -> Required \cup {NoPage}]
  <1>1. tab[t] \in Tab
    BY DEF TypeOK
  <1> DEFINE page == [tab[t] EXCEPT !.pc = "page", !.user = u]
  <1>2. page \in Tab
    BY <1>1 DEF Tab
  <1>3. tab' = [tab EXCEPT ![t] = page]
    BY DEF Show, TypeOK, Tab
  <1> HIDE DEF page
  <1> QED
    BY <1>2, <1>3 DEF TypeOK, Show

LEMMA RedirectType ==
  ASSUME TypeOK, NEW t \in Tabs, NEW url \in Pages \cup {NoPage}, Redirect(t, url)
  PROVE  tab' \in [Tabs -> Tab] /\ goal' \in [Tabs -> Required \cup {NoPage}]
  <1>1. tab[t] \in Tab
    BY DEF TypeOK
  <1> DEFINE form == [tab[t] EXCEPT !.pc = "login", !.url = url, !.by = Guest]
  <1>2. form \in Tab
    BY <1>1 DEF Tab
  <1>3. tab' = [tab EXCEPT ![t] = form]
    BY DEF Redirect, TypeOK, Tab
  <1> HIDE DEF form
  <1> QED
    BY <1>2, <1>3 DEF TypeOK, Redirect

\* Every action keeps the types.
LEMMA TypeOKStep == TypeOK /\ UrlsFit /\ [Next]_vars => TypeOK'
  <1> SUFFICES ASSUME TypeOK, UrlsFit, [Next]_vars PROVE TypeOK'
    OBVIOUS
  <1> USE DEF TypeOK, Tab
  <1>1. ASSUME NEW t \in Tabs, NEW url \in Pages, NEW new \in Token \cup {NoToken},
               NEW by \in Users \cup {Guest}, Send(t, url, new, by)
        PROVE  tab' \in [Tabs -> Tab]
    <2>1. ChooseToken(cookie, new) \in Token \cup {NoToken}
      BY ChosenToken
    <2> QED
      BY <1>1, <2>1 DEF Send
  <1>2. ASSUME NEW t \in Tabs, NEW p \in Pages, Open(t, p) PROVE TypeOK'
    <2>1. tab' \in [Tabs -> Tab]
      BY <1>1, <1>2 DEF Open
    <2> QED
      BY <1>2, <2>1 DEF Open
  <1>3. ASSUME NEW t \in Tabs, OpenAgain(t) PROVE TypeOK'
    <2>1. goal[t] \in Pages
      BY <1>3 DEF OpenAgain, Pages
    <2>2. tab' \in [Tabs -> Tab]
      BY <1>1, <1>3, <2>1 DEF OpenAgain
    <2> QED
      BY <1>3, <2>2 DEF OpenAgain
  <1>4. ASSUME NEW t \in Tabs, Reopen(t) PROVE TypeOK'
    <2>1. PICK link \in links : /\ Send(t, link.url, link.token, link.token.user)
                                /\ goal' = [goal EXCEPT ![t] = link.url]
      BY <1>4 DEF Reopen
    <2>2. link.url \in Required /\ link.token \in Token /\ link.token.user \in Users
      BY DEF Token
    <2>3. tab' \in [Tabs -> Tab]
      BY <1>1, <2>1, <2>2 DEF Pages
    <2> QED
      BY <1>4, <2>1, <2>2, <2>3 DEF Reopen
  <1>5. ASSUME NEW t \in Tabs, NEW u \in Users, LogIn(t, u) PROVE TypeOK'
    <2> DEFINE token == [user |-> u, salt |-> address]
    <2>1. token \in Token
      BY DEF Token
    <2>2. CASE tab[t].url = NoPage
      BY <1>5, <2>2 DEF LogIn
    <2>3. CASE tab[t].url # NoPage
      <3>1. tab[t].url \in Required
        BY <1>5, <2>3 DEF LogIn, UrlsFit
      <3>2. tab' \in [Tabs -> Tab]
        BY <1>1, <1>5, <2>1, <2>3, <3>1 DEF LogIn, Pages
      <3>3. links' \subseteq [url : Required, token : Token]
        BY <1>5, <2>1, <2>3, <3>1 DEF LogIn
      <3> QED
        BY <1>5, <2>3, <3>2, <3>3 DEF LogIn
    <2> QED
      BY <2>2, <2>3
  <1>6. ASSUME NEW a \in Addresses, Move(a) PROVE TypeOK'
    BY <1>6, BoundsAssumption DEF Move
  <1>7. CASE Tick
    BY <1>7, LifeAssumption DEF Tick
  <1>8. ASSUME NEW t \in Tabs, WithoutToken(t) PROVE TypeOK'
    <2>1. tab' \in [Tabs -> Tab] /\ goal' \in [Tabs -> Required \cup {NoPage}]
      BY <1>8, ShowType, RedirectType DEF WithoutToken, Pages
    <2> QED
      BY <1>8, <2>1 DEF WithoutToken
  <1>9. ASSUME NEW t \in Tabs, AskPassport(t) PROVE TypeOK'
    BY <1>9 DEF AskPassport
  <1>10. ASSUME NEW t \in Tabs, Verified(t) PROVE TypeOK'
    <2>1. tab[t].token # NoToken
      BY <1>10 DEF Verified, SetCookie, UrlsFit
    <2>2. tab[t].token \in Token
      BY <2>1
    <2>3. tab[t].token.user \in Users
      BY <2>2 DEF Token
    <2>4. tab' \in [Tabs -> Tab] /\ goal' \in [Tabs -> Required \cup {NoPage}]
      BY <1>10, <2>3, ShowType DEF Verified, SetCookie
    <2> QED
      BY <1>10, <2>2, <2>4, LifeAssumption DEF Verified, SetCookie
  <1>11. ASSUME NEW t \in Tabs, Rejected(t)
         PROVE  tab' \in [Tabs -> Tab] /\ goal' \in [Tabs -> Required \cup {NoPage}]
    BY <1>11, ShowType, RedirectType DEF Rejected
  <1>12. ASSUME NEW t \in Tabs, Refused(t) \/ VerifyFails(t) PROVE TypeOK'
    BY <1>11, <1>12, BoundsAssumption DEF Refused, VerifyFails
  <1>14. ASSUME NEW t \in Tabs, NEW u \in Users, LogInFails(t, u) PROVE TypeOK'
    BY <1>14 DEF LogInFails
  <1>13. CASE UNCHANGED vars
    BY <1>13 DEF vars
  <1> QED
    BY <1>2, <1>3, <1>4, <1>5, <1>6, <1>7, <1>8, <1>9, <1>10, <1>11, <1>12, <1>13, <1>14 DEF Next, Serve

\* Requests keep asking for pages, and logins go back to pages that require one.
LEMMA UrlsStep == TypeOK /\ UrlsFit /\ [Next]_vars => UrlsFit'
  <1> SUFFICES ASSUME TypeOK, UrlsFit, [Next]_vars PROVE UrlsFit'
    OBVIOUS
  <1> USE DEF TypeOK, Tab, UrlsFit
  <1>1. ASSUME NEW t \in Tabs, NEW p \in Pages, Open(t, p) PROVE UrlsFit'
    BY <1>1 DEF Open, Send
  <1>2. ASSUME NEW t \in Tabs, OpenAgain(t) PROVE UrlsFit'
    BY <1>2 DEF OpenAgain, Send, Pages
  <1>3. ASSUME NEW t \in Tabs, Reopen(t) PROVE UrlsFit'
    BY <1>3 DEF Reopen, Send, Pages
  <1>4. ASSUME NEW t \in Tabs, NEW u \in Users, LogIn(t, u) PROVE UrlsFit'
    BY <1>4 DEF LogIn, Send, Pages
  <1>5. ASSUME NEW a \in Addresses, Move(a) PROVE UrlsFit'
    BY <1>5 DEF Move
  <1>6. CASE Tick
    BY <1>6 DEF Tick
  <1>7. ASSUME NEW t \in Tabs, WithoutToken(t) PROVE UrlsFit'
    BY <1>7 DEF WithoutToken, Redirect, Show
  <1>8. ASSUME NEW t \in Tabs, AskPassport(t) PROVE UrlsFit'
    BY <1>8 DEF AskPassport
  <1>9. ASSUME NEW t \in Tabs, Verified(t) PROVE UrlsFit'
    BY <1>9 DEF Verified, SetCookie, Show
  <1>10. ASSUME NEW t \in Tabs, Refused(t) PROVE UrlsFit'
    BY <1>10 DEF Refused, Rejected, Redirect, Show
  <1>11. ASSUME NEW t \in Tabs, VerifyFails(t) PROVE UrlsFit'
    BY <1>11 DEF VerifyFails, Rejected, Redirect, Show
  <1>13. ASSUME NEW t \in Tabs, NEW u \in Users, LogInFails(t, u) PROVE UrlsFit'
    BY <1>13 DEF LogInFails
  <1>12. CASE UNCHANGED vars
    BY <1>12 DEF vars
  <1> QED
    BY <1>1, <1>2, <1>3, <1>4, <1>5, <1>6, <1>7, <1>8, <1>9, <1>10, <1>11, <1>12, <1>13 DEF Next, Serve

\* A rejected request ends at the form or on a page for a guest, and only the
\* tab of the request changes.
LEMMA RejectedTab ==
  ASSUME TypeOK, NEW t \in Tabs, Rejected(t)
  PROVE  /\ \A v \in Tabs \ {t} : tab'[v] = tab[v]
         /\ tab'[t].token = tab[t].token
         /\ \/ tab'[t].pc = "login"
            \/ tab'[t].pc = "page" /\ tab'[t].user = Guest /\ tab[t].url \in Optional
         /\ tab'[t].pc = "page" => tab'[t].by = tab[t].by /\ tab'[t].url = tab[t].url
  <1>1. tab \in [Tabs -> Tab] /\ tab[t] \in Tab
    BY DEF TypeOK
  <1>2. CASE tab[t].url \in Required /\ Redirect(t, NoPage)
    BY <1>1, <1>2 DEF Redirect, Tab
  <1>3. CASE tab[t].url \in Optional /\ Show(t, Guest)
    BY <1>1, <1>3 DEF Show, Tab
  <1> QED
    BY <1>2, <1>3 DEF Rejected

\* Tokens come from logins: the history only grows, and a login enters its token.
LEMMA TokensStep == TypeOK /\ TokensKnown /\ [Next]_vars => TokensKnown'
  <1> SUFFICES ASSUME TypeOK, TokensKnown, [Next]_vars PROVE TokensKnown'
    OBVIOUS
  <1> USE DEF TypeOK, TokensKnown, Known
  <1>1. ASSUME NEW t \in Tabs, NEW p \in Pages, Open(t, p) PROVE TokensKnown'
    BY <1>1 DEF Open, Send, ChooseToken
  <1>2. ASSUME NEW t \in Tabs, OpenAgain(t) PROVE TokensKnown'
    BY <1>2 DEF OpenAgain, Send, ChooseToken
  <1>3. ASSUME NEW t \in Tabs, Reopen(t) PROVE TokensKnown'
    BY <1>3 DEF Reopen, Send, ChooseToken
  <1>4. ASSUME NEW t \in Tabs, NEW u \in Users, LogIn(t, u) PROVE TokensKnown'
    <2>1. CASE tab[t].url = NoPage
      <3>1. \A v \in Tabs : tab'[v].token = tab[v].token
        BY <1>4, <2>1 DEF LogIn, Tab
      <3> QED
        BY <1>4, <2>1, <3>1 DEF LogIn
    <2>2. CASE tab[t].url # NoPage
      <3> DEFINE token == [user |-> u, salt |-> address]
      <3> DEFINE link == [url |-> tab[t].url, token |-> token]
      <3>1. links \subseteq links' /\ link \in links' /\ link.token = token
        BY <1>4, <2>2 DEF LogIn
      <3>2. \A v \in Tabs : tab'[v].token \in {tab[v].token, token, cookie}
        BY <1>4, <2>2 DEF LogIn, Send, ChooseToken
      <3>3. cookie' = cookie
        BY <1>4 DEF LogIn
      <3> HIDE DEF token, link
      <3> QED
        BY <3>1, <3>2, <3>3
    <2> QED
      BY <2>1, <2>2
  <1>5. ASSUME NEW a \in Addresses, Move(a) PROVE TokensKnown'
    BY <1>5 DEF Move
  <1>6. CASE Tick
    BY <1>6 DEF Tick
  <1>7. ASSUME NEW t \in Tabs, WithoutToken(t) PROVE TokensKnown'
    BY <1>7 DEF WithoutToken, Redirect, Show, Tab
  <1>8. ASSUME NEW t \in Tabs, AskPassport(t) PROVE TokensKnown'
    BY <1>8 DEF AskPassport, Tab
  <1>9. ASSUME NEW t \in Tabs, Verified(t) PROVE TokensKnown'
    BY <1>9 DEF Verified, SetCookie, Show, Tab
  <1>10. ASSUME NEW t \in Tabs, Refused(t) PROVE TokensKnown'
    <2>1. Rejected(t) /\ UNCHANGED <<cookie, links>>
      BY <1>10 DEF Refused
    <2> QED
      BY <2>1, RejectedTab
  <1>11. ASSUME NEW t \in Tabs, VerifyFails(t) PROVE TokensKnown'
    <2>1. Rejected(t) /\ UNCHANGED <<cookie, links>>
      BY <1>11 DEF VerifyFails
    <2> QED
      BY <2>1, RejectedTab
  <1>13. ASSUME NEW t \in Tabs, NEW u \in Users, LogInFails(t, u) PROVE TokensKnown'
    BY <1>13 DEF LogInFails
  <1>12. CASE UNCHANGED vars
    BY <1>12 DEF vars
  <1> QED
    BY <1>1, <1>2, <1>3, <1>4, <1>5, <1>6, <1>7, <1>8, <1>9, <1>10, <1>11, <1>12, <1>13 DEF Next, Serve

\* A request that a login has led to keeps the token of that login.
LEMMA LoginStep ==
  ASSUME TypeOK, UrlsFit, LoginBringsToken, LoginServesItsUser, [Next]_vars
  PROVE  LoginBringsToken' /\ LoginServesItsUser'
  <1> USE DEF TypeOK, LoginBringsToken, LoginServesItsUser
  <1> DEFINE Goal == LoginBringsToken' /\ LoginServesItsUser'
  <1>1. ASSUME NEW t \in Tabs, NEW p \in Pages, Open(t, p) PROVE Goal
    BY <1>1 DEF Open, Send
  <1>2. ASSUME NEW t \in Tabs, OpenAgain(t) PROVE Goal
    BY <1>2 DEF OpenAgain, Send
  <1>3. ASSUME NEW t \in Tabs, Reopen(t) PROVE Goal
    <2>1. PICK link \in links : Send(t, link.url, link.token, link.token.user)
      BY <1>3 DEF Reopen
    <2>2. link.url \in Required /\ link.token # NoToken
      BY ValuesAssumption DEF Token
    <2> QED
      BY <2>1, <2>2, ChosenToken DEF Send
  <1>4. ASSUME NEW t \in Tabs, NEW u \in Users, LogIn(t, u) PROVE Goal
    <2>1. CASE tab[t].url = NoPage
      BY <1>4, <2>1 DEF LogIn, Tab
    <2>2. CASE tab[t].url # NoPage
      <3> DEFINE token == [user |-> u, salt |-> address]
      <3>1. tab[t].url \in Required
        BY <1>4, <2>2 DEF LogIn, UrlsFit
      <3>2. token \in Token /\ token.user = u
        BY DEF Token
      <3>3. token # NoToken
        BY <3>2, ValuesAssumption DEF Token
      <3>4. Send(t, tab[t].url, token, u)
        BY <1>4, <2>2 DEF LogIn
      <3> HIDE DEF token
      <3> QED
        BY <3>1, <3>2, <3>3, <3>4, ChosenToken DEF Send
    <2> QED
      BY <2>1, <2>2
  <1>5. ASSUME NEW a \in Addresses, Move(a) PROVE Goal
    BY <1>5 DEF Move
  <1>6. CASE Tick
    BY <1>6 DEF Tick
  <1>7. ASSUME NEW t \in Tabs, WithoutToken(t) PROVE Goal
    BY <1>7, ValuesAssumption DEF WithoutToken, Redirect, Show, Tab
  <1>8. ASSUME NEW t \in Tabs, AskPassport(t) PROVE Goal
    BY <1>8 DEF AskPassport, Tab
  <1>9. ASSUME NEW t \in Tabs, Verified(t) PROVE Goal
    BY <1>9 DEF Verified, SetCookie, Show, Tab
  <1>10. ASSUME NEW t \in Tabs, Refused(t) \/ VerifyFails(t) PROVE Goal
    <2>1. Rejected(t) /\ tab[t].pc = "verify"
      BY <1>10 DEF Refused, VerifyFails
    <2>2. tab[t].url \in Optional => tab[t].by = Guest
      BY <2>1, ValuesAssumption
    <2> QED
      BY <2>1, <2>2, RejectedTab
  <1>12. ASSUME NEW t \in Tabs, NEW u \in Users, LogInFails(t, u) PROVE Goal
    BY <1>12 DEF LogInFails
  <1>11. CASE UNCHANGED vars
    BY <1>11 DEF vars
  <1> QED
    BY <1>1, <1>2, <1>3, <1>4, <1>5, <1>6, <1>7, <1>8, <1>9, <1>10, <1>11, <1>12 DEF Next, Serve

\* Only Verified shows a page for a user, and the history never shrinks.
LEMMA ServedStep == TypeOK /\ UrlsFit /\ TokensKnown /\ ServedHere /\ [Next]_vars => ServedHere'
  <1> SUFFICES ASSUME TypeOK, UrlsFit, TokensKnown, ServedHere, [Next]_vars PROVE ServedHere'
    OBVIOUS
  <1> USE DEF TypeOK, ServedHere
  <1>1. ASSUME NEW t \in Tabs, NEW p \in Pages, Open(t, p) PROVE ServedHere'
    BY <1>1 DEF Open, Send
  <1>2. ASSUME NEW t \in Tabs, OpenAgain(t) PROVE ServedHere'
    BY <1>2 DEF OpenAgain, Send
  <1>3. ASSUME NEW t \in Tabs, Reopen(t) PROVE ServedHere'
    BY <1>3 DEF Reopen, Send
  <1>4. ASSUME NEW t \in Tabs, NEW u \in Users, LogIn(t, u) PROVE ServedHere'
    <2>1. links \subseteq links'
      BY <1>4 DEF LogIn
    <2>2. \A v \in Tabs : tab'[v].pc = "page" => tab'[v] = tab[v]
      BY <1>4 DEF LogIn, Send, Tab
    <2> QED
      BY <2>1, <2>2
  <1>5. ASSUME NEW a \in Addresses, Move(a) PROVE ServedHere'
    BY <1>5 DEF Move
  <1>6. CASE Tick
    BY <1>6 DEF Tick
  <1>7. ASSUME NEW t \in Tabs, WithoutToken(t) PROVE ServedHere'
    BY <1>7 DEF WithoutToken, Redirect, Show, Tab
  <1>8. ASSUME NEW t \in Tabs, AskPassport(t) PROVE ServedHere'
    BY <1>8 DEF AskPassport, Tab
  <1>9. ASSUME NEW t \in Tabs, Verified(t) PROVE ServedHere'
    <2> DEFINE token == tab[t].token
    <2>1. token \in Token /\ token.salt = tab[t].from
      BY <1>9 DEF Verified, SetCookie, Valid, UrlsFit, Tab
    <2>2. token = [user |-> token.user, salt |-> tab[t].from]
      BY <2>1 DEF Token
    <2>3. PICK link \in links : link.token = token
      BY <1>9 DEF Verified, SetCookie, UrlsFit, TokensKnown, Known
    <2>4. tab'[t].user = token.user /\ tab'[t].from = tab[t].from
      BY <1>9 DEF Verified, SetCookie, Show, Tab
    <2>5. \A v \in Tabs \ {t} : tab'[v] = tab[v]
      BY <1>9 DEF Verified, SetCookie, Show
    <2>6. links' = links
      BY <1>9 DEF Verified, SetCookie
    <2> HIDE DEF token
    <2> QED
      BY <2>2, <2>3, <2>4, <2>5, <2>6
  <1>10. ASSUME NEW t \in Tabs, Refused(t) \/ VerifyFails(t) PROVE ServedHere'
    <2>1. Rejected(t) /\ links' = links
      BY <1>10 DEF Refused, VerifyFails
    <2> QED
      BY <2>1, RejectedTab
  <1>12. ASSUME NEW t \in Tabs, NEW u \in Users, LogInFails(t, u) PROVE ServedHere'
    BY <1>12 DEF LogInFails
  <1>11. CASE UNCHANGED vars
    BY <1>11 DEF vars
  <1> QED
    BY <1>1, <1>2, <1>3, <1>4, <1>5, <1>6, <1>7, <1>8, <1>9, <1>10, <1>11, <1>12 DEF Next, Serve

\* The inductive invariant of the interceptor.
THEOREM Invariance == Spec => []IInv
  <1>1. IInv /\ [Next]_vars => IInv'
    BY TypeOKStep, UrlsStep, TokensStep, LoginStep, ServedStep DEF IInv
  <1> QED
    BY InitIInv, <1>1, PTL DEF Spec

\* Every variable of the browser and its requests keeps its type (preHandle).
THEOREM TypeCorrect == Spec => []TypeOK
  <1>1. IInv => TypeOK
    BY DEF IInv
  <1> QED
    BY Invariance, <1>1, PTL

\* Nobody is served for a user who has not logged in from the address of the
\* request (preHandle, verify).
THEOREM ServedHereHolds == Spec => []ServedHere
  <1>1. IInv => ServedHere
    BY DEF IInv
  <1> QED
    BY Invariance, <1>1, PTL

\* The page that a login leads to is shown for the user who logged in (preHandle).
THEOREM LoginIsServed == Spec => []LoginServesItsUser
  <1>1. IInv => LoginServesItsUser
    BY DEF IInv
  <1> QED
    BY Invariance, <1>1, PTL
=============================================================================
