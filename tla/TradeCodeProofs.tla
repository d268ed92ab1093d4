-------------------------- MODULE TradeCodeProofs --------------------------
(***************************************************************************)
(* What holds of TradeCode for any number of users, codes, request threads  *)
(* and retries.  The inductive invariant says who may hold which code: every *)
(* code that a page, a request or Redis knows was issued, to one user only.  *)
(***************************************************************************)
EXTENDS TradeCode, TLAPS

\* User u has code c on a page, in Redis or in a request.
Holds(u, c) ==
    \/ c \in pages[u]
    \/ c = latest[u]
    \/ \E r \in Requests : user[r] = u /\ tradeCode[r] = c

OneHolder ==
    \A c \in Codes : \A u, v \in Users : Holds(u, c) /\ Holds(v, c) => u = v

HeldIsIssued == \A c \in Codes : \A u \in Users : Holds(u, c) => c \in issued

GoneIsIssued == lapsed \subseteq issued /\ \A c \in Codes : spent[c] # 0 => c \in issued

PaidIsSpent == \A c \in Codes : paid[c] # 0 => spent[c] # 0

HasCode == \A r \in Requests : pc[r] \in {"render", "del", "payTest"} => tradeCode[r] \in Codes

AcceptedIsSpent == \A r \in Requests : pc[r] = "payTest" => spent[tradeCode[r]] # 0

RepeatIsSpent ==
    \A r \in Requests :
        repeat[r] => /\ tradeCode[r] \in Codes /\ spent[tradeCode[r]] # 0
                     /\ pc[r] \notin {"issue", "render"}

IInv ==
    /\ TypeOK
    /\ HasCode
    /\ OneHolder
    /\ HeldIsIssued
    /\ GoneIsIssued
    /\ PaidIsSpent
    /\ AcceptedIsSpent
    /\ RepeatIsSpent
    /\ StoredCodeIsFresh
    /\ ResubmitRefused

\* The invariant holds before the first request.
LEMMA InitIInv == Init => IInv
  <1> SUFFICES ASSUME Init PROVE IInv
    OBVIOUS
  <1> USE DEF Init
  <1>1. TypeOK
    BY RetriesAssumption DEF TypeOK
  <1>2. OneHolder /\ HeldIsIssued
    BY CodesAssumption DEF OneHolder, HeldIsIssued, Holds
  <1>3. HasCode /\ GoneIsIssued /\ PaidIsSpent /\ AcceptedIsSpent /\ RepeatIsSpent
    BY DEF HasCode, GoneIsIssued, PaidIsSpent, AcceptedIsSpent, RepeatIsSpent
  <1>4. StoredCodeIsFresh /\ ResubmitRefused
    BY DEF StoredCodeIsFresh, ResubmitRefused
  <1> QED
    BY <1>1, <1>2, <1>3, <1>4 DEF IInv

\* Every action keeps the types; a code is at hand where one is stored.
LEMMA TypeOKStep == TypeOK /\ HasCode /\ [Next]_vars => TypeOK' /\ HasCode'
  <1> SUFFICES ASSUME TypeOK, HasCode, [Next]_vars PROVE TypeOK' /\ HasCode'
    OBVIOUS
  <1> USE DEF TypeOK, HasCode
  <1>1. ASSUME NEW r \in Requests, NEW u \in Users, ToTrade(r, u) PROVE TypeOK' /\ HasCode'
    BY <1>1 DEF ToTrade, Arrive, historyVars
  <1>2. ASSUME NEW r \in Requests, NEW u \in Users, SubmitOrder(r, u) PROVE TypeOK' /\ HasCode'
    BY <1>2 DEF SubmitOrder, Arrive, historyVars
  <1>3. ASSUME NEW r \in Requests, GetTradeCode(r) PROVE TypeOK' /\ HasCode'
    BY <1>3 DEF GetTradeCode
  <1>4. ASSUME NEW r \in Requests, RenderTrade(r) PROVE TypeOK' /\ HasCode'
    <2>1. tradeCode[r] \in Codes /\ pages[user[r]] \cup {tradeCode[r]} \in SUBSET Codes
      BY <1>4 DEF RenderTrade
    <2> QED
      BY <1>4, <2>1, RetriesAssumption DEF RenderTrade, Done, historyVars
  <1>5. ASSUME NEW r \in Requests, GetCode(r) PROVE TypeOK' /\ HasCode'
    BY <1>5 DEF GetCode, Goto, Matches, historyVars
  <1>6. ASSUME NEW r \in Requests, DelCode(r) PROVE TypeOK' /\ HasCode'
    <2>1. tradeCode[r] \in Codes /\ spent[tradeCode[r]] + 1 \in Nat
      BY <1>6 DEF DelCode
    <2>2. spent' \in [Codes -> Nat]
      BY <1>6, <2>1 DEF DelCode
    <2> QED
      BY <1>6, <2>2 DEF DelCode, Goto
  <1>7. ASSUME NEW r \in Requests, Answer(r) PROVE TypeOK' /\ HasCode'
    <2>1. paid' \in [Codes -> Nat]
      <3>1. CASE pc[r] = "payTest"
        <4>1. tradeCode[r] \in Codes /\ paid[tradeCode[r]] + 1 \in Nat
          BY <3>1
        <4> QED
          BY <1>7, <3>1, <4>1 DEF Answer
      <3>2. CASE pc[r] # "payTest"
        BY <1>7, <3>2 DEF Answer
      <3> QED
        BY <3>1, <3>2
    <2>2. QED
      BY <1>7, <2>1, RetriesAssumption DEF Answer, Done
  <1>8. ASSUME NEW r \in Requests, Failover(r) PROVE TypeOK' /\ HasCode'
    BY <1>8, RetriesAssumption DEF Failover, historyVars
  <1>9. ASSUME NEW u \in Users, Expire(u) PROVE TypeOK' /\ HasCode'
    BY <1>9 DEF Expire, requestVars
  <1>10. CASE UNCHANGED vars
    BY <1>10 DEF vars, requestVars, historyVars
  <1> QED
    BY <1>1, <1>2, <1>3, <1>4, <1>5, <1>6, <1>7, <1>8, <1>9, <1>10 DEF Next, RequestStep

\* Who holds a code changes in two ways only: a new code goes to the user that
\* asked for it, and codes are forgotten.
LEMMA HoldersStep ==
    ASSUME TypeOK, HasCode, OneHolder, HeldIsIssued, [Next]_vars
    PROVE  OneHolder' /\ HeldIsIssued'
  <1> USE DEF TypeOK
  <1>1. \/ issued' = issued /\ \A c \in Codes : \A u \in Users : Holds(u, c)' => Holds(u, c)
        \/ \E d \in Codes \ issued : \E w \in Users :
              /\ issued' = issued \cup {d}
              /\ \A c \in Codes : \A u \in Users :
                    Holds(u, c)' => Holds(u, c) \/ (c = d /\ u = w)
    <2> DEFINE Forgets == issued' = issued /\ \A c \in Codes : \A u \in Users :
                              Holds(u, c)' => Holds(u, c)
    <2> USE CodesAssumption DEF Holds
    <2>1. ASSUME NEW r \in Requests, NEW u \in Users, ToTrade(r, u) PROVE Forgets
      BY <2>1 DEF ToTrade, Arrive, historyVars
    <2>2. ASSUME NEW r \in Requests, NEW u \in Users, SubmitOrder(r, u) PROVE Forgets
      BY <2>2 DEF SubmitOrder, Arrive, historyVars
    <2>3. ASSUME NEW r \in Requests, GetTradeCode(r)
          PROVE  \E d \in Codes \ issued : \E w \in Users :
                    /\ issued' = issued \cup {d}
                    /\ \A c \in Codes : \A u \in Users :
                          Holds(u, c)' => Holds(u, c) \/ (c = d /\ u = w)
      <3>1. PICK d \in Codes \ issued :
                /\ issued' = issued \cup {d}
                /\ latest' = [latest EXCEPT ![user[r]] = d]
                /\ tradeCode' = [tradeCode EXCEPT ![r] = d]
        BY <2>3 DEF GetTradeCode
      <3>2. user' = user /\ pages' = pages /\ user[r] \in Users
        BY <2>3 DEF GetTradeCode
      <3>3. ASSUME NEW c \in Codes, NEW u \in Users, Holds(u, c)', ~(c = d /\ u = user[r])
            PROVE  Holds(u, c)
        BY <3>1, <3>2, <3>3
      <3> QED
        BY <3>1, <3>2, <3>3
    <2>4. ASSUME NEW r \in Requests, RenderTrade(r) PROVE Forgets
      BY <2>4 DEF RenderTrade, Done, historyVars, HasCode
    <2>5. ASSUME NEW r \in Requests, GetCode(r) PROVE Forgets
      BY <2>5 DEF GetCode, Goto, historyVars
    <2>6. ASSUME NEW r \in Requests, DelCode(r) PROVE Forgets
      BY <2>6 DEF DelCode, Goto, historyVars
    <2>7. ASSUME NEW r \in Requests, Answer(r) PROVE Forgets
      BY <2>7 DEF Answer, Done, historyVars
    <2>8. ASSUME NEW r \in Requests, Failover(r) PROVE Forgets
      BY <2>8 DEF Failover, historyVars
    <2>9. ASSUME NEW u \in Users, Expire(u) PROVE Forgets
      BY <2>9 DEF Expire, requestVars
    <2>10. CASE UNCHANGED vars
      BY <2>10 DEF vars, requestVars, historyVars
    <2> QED
      BY <2>1, <2>2, <2>3, <2>4, <2>5, <2>6, <2>7, <2>8, <2>9, <2>10 DEF Next, RequestStep
  <1>2. HeldIsIssued'
    BY <1>1 DEF HeldIsIssued
  <1>3. OneHolder'
    BY <1>1 DEF HeldIsIssued, OneHolder
  <1> QED
    BY <1>2, <1>3

\* What a step does to spent codes: nothing brings one back into Redis, and a
\* request that repeats one is refused.
SpentInv ==
    /\ GoneIsIssued
    /\ PaidIsSpent
    /\ AcceptedIsSpent
    /\ RepeatIsSpent
    /\ StoredCodeIsFresh
    /\ ResubmitRefused

LEMMA SpentStep ==
    ASSUME TypeOK, HasCode, OneHolder, HeldIsIssued, SpentInv, [Next]_vars
    PROVE  SpentInv'
  <1> USE CodesAssumption DEF TypeOK, HasCode, SpentInv, GoneIsIssued, PaidIsSpent,
          AcceptedIsSpent, RepeatIsSpent, StoredCodeIsFresh, ResubmitRefused
  <1>0. \A u \in Users : latest[u] # NoCode => Holds(u, latest[u]) /\ latest[u] \in issued
    BY DEF Holds, HeldIsIssued
  <1>00. \A r \in Requests : tradeCode[r] # NoCode =>
            Holds(user[r], tradeCode[r]) /\ tradeCode[r] \in issued
    BY DEF Holds, HeldIsIssued
  <1>1. ASSUME NEW r \in Requests, NEW u \in Users, NEW c \in Codes \cup {NoCode},
               NEW label \in {"issue", "get"}, Arrive(r, u, c, label),
               label = "issue" => c = NoCode
        PROVE  SpentInv'
    <2>1. PICK b \in BOOLEAN :
              /\ repeat' = [repeat EXCEPT ![r] = b]
              /\ b => c # NoCode /\ paid[c] > 0
      BY <1>1 DEF Arrive
    <2>6. /\ pc' = [pc EXCEPT ![r] = label] /\ tradeCode' = [tradeCode EXCEPT ![r] = c]
          /\ UNCHANGED <<code, issued, latest, spent, lapsed, paid>>
      BY <1>1 DEF Arrive, historyVars
    <2>2. b => c \in Codes /\ spent[c] # 0
      BY <2>1
    <2>3. ASSUME NEW q \in Requests, repeat'[q]
          PROVE  /\ tradeCode'[q] \in Codes /\ spent'[tradeCode'[q]] # 0
                 /\ pc'[q] \notin {"issue", "render"}
      <3>1. CASE q = r
        <4>1. b
          BY <2>1, <2>3, <3>1
        <4>2. c \in Codes /\ spent[c] # 0 /\ label # "issue"
          BY <1>1, <2>2, <4>1
        <4>3. tradeCode'[r] = c /\ pc'[r] = label /\ spent' = spent
          BY <2>6
        <4> QED
          BY <3>1, <4>2, <4>3
      <3>2. CASE q # r
        <4>1. repeat[q] /\ tradeCode'[q] = tradeCode[q] /\ pc'[q] = pc[q]
          BY <2>1, <2>3, <2>6, <3>2
        <4> QED
          BY <2>6, <4>1
      <3> QED
        BY <3>1, <3>2
    <2>4. GoneIsIssued' /\ PaidIsSpent' /\ StoredCodeIsFresh'
      BY <2>6
    <2>5. AcceptedIsSpent' /\ ResubmitRefused'
      <3>1. \A q \in Requests : pc'[q] \in {"del", "payTest"} =>
                q # r /\ pc'[q] = pc[q] /\ tradeCode'[q] = tradeCode[q] /\ (repeat'[q] => repeat[q])
        BY <2>1, <2>6
      <3> QED
        BY <2>6, <3>1
    <2> QED
      BY <2>3, <2>4, <2>5
  <1>2. ASSUME NEW r \in Requests, NEW u \in Users, ToTrade(r, u) \/ SubmitOrder(r, u)
        PROVE  SpentInv'
    BY <1>1, <1>2 DEF ToTrade, SubmitOrder
  <1>3. ASSUME NEW r \in Requests, GetTradeCode(r) PROVE SpentInv'
    <2>1. PICK c \in Codes \ issued :
              /\ issued' = issued \cup {c}
              /\ code' = [code EXCEPT ![user[r]] = c]
              /\ latest' = [latest EXCEPT ![user[r]] = c]
              /\ tradeCode' = [tradeCode EXCEPT ![r] = c]
      BY <1>3 DEF GetTradeCode
    <2>2. /\ pc[r] = "issue" /\ pc' = [pc EXCEPT ![r] = "render"]
          /\ UNCHANGED <<user, repeat, spent, lapsed, paid>>
      BY <1>3 DEF GetTradeCode
    <2>3. c \notin lapsed /\ spent[c] = 0
      OBVIOUS
    <2>4. StoredCodeIsFresh'
      BY <2>1, <2>2, <2>3
    <2>5. RepeatIsSpent' /\ AcceptedIsSpent' /\ ResubmitRefused'
      BY <2>1, <2>2
    <2>6. GoneIsIssued' /\ PaidIsSpent'
      BY <2>1, <2>2
    <2> QED
      BY <2>4, <2>5, <2>6
  <1>4. ASSUME NEW r \in Requests, RenderTrade(r) PROVE SpentInv'
    BY <1>0, <1>00, <1>4 DEF RenderTrade, Done, historyVars
  <1>5. ASSUME NEW r \in Requests, GetCode(r) PROVE SpentInv'
    BY <1>0, <1>00, <1>5 DEF GetCode, Goto, Matches, historyVars
  <1>6. ASSUME NEW r \in Requests, DelCode(r) PROVE SpentInv'
    <2>1. \A u \in Users : u # user[r] /\ code[u] # NoCode => code[u] # tradeCode[r]
      BY <1>0, <1>00 DEF OneHolder
    <2>2. StoredCodeIsFresh'
      BY <1>6, <2>1 DEF DelCode
    <2>3. GoneIsIssued' /\ PaidIsSpent'
      BY <1>00, <1>6 DEF DelCode
    <2>4. AcceptedIsSpent' /\ RepeatIsSpent' /\ ResubmitRefused'
      BY <1>6 DEF DelCode, Goto
    <2> QED
      BY <2>2, <2>3, <2>4
  <1>7. ASSUME NEW r \in Requests, Answer(r) PROVE SpentInv'
    BY <1>0, <1>00, <1>7 DEF Answer, Done, historyVars
  <1>8. ASSUME NEW r \in Requests, Failover(r) PROVE SpentInv'
    BY <1>0, <1>00, <1>8 DEF Failover, historyVars
  <1>9. ASSUME NEW u \in Users, Expire(u) PROVE SpentInv'
    <2>1. \A v \in Users : v # u /\ code[v] # NoCode => code[v] # code[u]
      BY <1>0 DEF OneHolder
    <2>2. StoredCodeIsFresh'
      BY <1>9, <2>1 DEF Expire
    <2>3. GoneIsIssued' /\ PaidIsSpent' /\ AcceptedIsSpent' /\ RepeatIsSpent' /\ ResubmitRefused'
      BY <1>0, <1>9 DEF Expire, requestVars
    <2> QED
      BY <2>2, <2>3
  <1>10. CASE UNCHANGED vars
    BY <1>10 DEF vars, requestVars, historyVars
  <1> QED
    BY <1>1, <1>2, <1>3, <1>4, <1>5, <1>6, <1>7, <1>8, <1>9, <1>10 DEF Next, RequestStep

\* The invariant is inductive.
LEMMA StepIInv == IInv /\ [Next]_vars => IInv'
  <1> SUFFICES ASSUME IInv, [Next]_vars PROVE IInv'
    OBVIOUS
  <1>1. TypeOK /\ HasCode /\ OneHolder /\ HeldIsIssued /\ SpentInv
    BY DEF IInv, SpentInv
  <1>2. TypeOK' /\ HasCode'
    BY <1>1, TypeOKStep
  <1>3. OneHolder' /\ HeldIsIssued'
    BY <1>1, HoldersStep
  <1>4. SpentInv'
    BY <1>1, SpentStep
  <1> QED
    BY <1>2, <1>3, <1>4 DEF IInv, SpentInv

\* The invariant holds in every reachable state.
THEOREM Invariance == Spec => []IInv
  <1> QED
    BY InitIInv, StepIInv, PTL DEF Spec

\* Every variable keeps its type.
THEOREM TypeCorrect == Spec => []TypeOK
  <1>1. IInv => TypeOK
    BY DEF IInv
  <1> QED
    BY <1>1, Invariance, PTL

\* A submit that arrives after an accepted submit of the same code was answered
\* is refused, whatever else is under way.
THEOREM ResubmitIsRefused == Spec => []ResubmitRefused
  <1>1. IInv => ResubmitRefused
    BY DEF IInv
  <1> QED
    BY <1>1, Invariance, PTL

\* The code that Redis holds for a user is the last one stored for that user, and
\* was neither spent nor dropped before.
THEOREM StoredCodeIsAlwaysFresh == Spec => []StoredCodeIsFresh
  <1>1. IInv => StoredCodeIsFresh
    BY DEF IInv
  <1> QED
    BY <1>1, Invariance, PTL

-----------------------------------------------------------------------------
(* Users who wait for each answer (Serial). *)

OneRequestPerUser ==
    \A r, q \in Requests : pc[r] # "idle" /\ pc[q] # "idle" /\ user[r] = user[q] => r = q

DeletesLatest ==
    \A r \in Requests : pc[r] = "del" =>
        tradeCode[r] = latest[user[r]] /\ spent[tradeCode[r]] = 0

AnswersOnce ==
    \A r \in Requests : pc[r] = "payTest" => paid[tradeCode[r]] = 0

\* No two checks accept the same code.
AcceptedOnce == \A c \in Codes : spent[c] <= 1

SerialInv == OneRequestPerUser /\ DeletesLatest /\ AnswersOnce /\ AcceptedOnce /\ PaidOnce

\* The invariant of serial users holds at the start.
LEMMA InitSerialInv == Init => SerialInv
  BY DEF Init, SerialInv, OneRequestPerUser, DeletesLatest, AnswersOnce, AcceptedOnce, PaidOnce

\* ... and every step keeps it.
LEMMA SerialStep ==
    ASSUME Serial, IInv, SerialInv, [Next]_vars
    PROVE  SerialInv'
  <1> USE CodesAssumption DEF TypeOK, HasCode
  <1>0. TypeOK /\ HasCode /\ OneHolder /\ PaidIsSpent /\ StoredCodeIsFresh
    BY DEF IInv
  <1>1. OneRequestPerUser'
    BY <1>0 DEF SerialInv, OneRequestPerUser, Next, RequestStep, ToTrade, SubmitOrder, Arrive,
        Busy, GetTradeCode, RenderTrade, GetCode, DelCode, Answer, Failover, Expire, Goto, Done,
        vars, requestVars, historyVars
  <1>2. \A r, q \in Requests :
            tradeCode[r] = tradeCode[q] /\ tradeCode[r] \in Codes => user[r] = user[q]
    BY <1>0 DEF OneHolder, Holds
  <1> DEFINE Once == DeletesLatest /\ AnswersOnce /\ AcceptedOnce /\ PaidOnce
  <1>3. OneRequestPerUser /\ Once
    BY DEF SerialInv
  <1> USE DEF DeletesLatest, AnswersOnce, AcceptedOnce, PaidOnce
  <1>4. ASSUME NEW r \in Requests, NEW u \in Users, ToTrade(r, u) PROVE Once'
    BY <1>0, <1>2, <1>3, <1>4 DEF ToTrade, Arrive, historyVars
  <1>5. ASSUME NEW r \in Requests, NEW u \in Users, SubmitOrder(r, u) PROVE Once'
    BY <1>0, <1>2, <1>3, <1>5 DEF SubmitOrder, Arrive, historyVars
  <1>6. ASSUME NEW r \in Requests, GetTradeCode(r) PROVE Once'
    BY <1>0, <1>2, <1>3, <1>6 DEF GetTradeCode, OneRequestPerUser
  <1>7. ASSUME NEW r \in Requests, RenderTrade(r) PROVE Once'
    BY <1>0, <1>2, <1>3, <1>7 DEF RenderTrade, Done, historyVars
  <1>8. ASSUME NEW r \in Requests, GetCode(r) PROVE Once'
    BY <1>0, <1>2, <1>3, <1>8 DEF GetCode, Goto, Matches, StoredCodeIsFresh, historyVars
  <1>9. ASSUME NEW r \in Requests, DelCode(r) PROVE Once'
    BY <1>0, <1>2, <1>3, <1>9 DEF DelCode, Goto, OneRequestPerUser, PaidIsSpent
  <1>10. ASSUME NEW r \in Requests, Answer(r) PROVE Once'
    BY <1>0, <1>2, <1>3, <1>10 DEF Answer, Done, OneRequestPerUser
  <1>11. ASSUME NEW r \in Requests, Failover(r) PROVE Once'
    BY <1>0, <1>2, <1>3, <1>11 DEF Failover, historyVars
  <1>12. ASSUME NEW u \in Users, Expire(u) PROVE Once'
    BY <1>0, <1>2, <1>3, <1>12 DEF Expire, requestVars
  <1>13. ASSUME UNCHANGED vars PROVE Once'
    BY <1>3, <1>13 DEF vars, requestVars, historyVars
  <1>14. Once'
    <2> HIDE DEF Once
    <2> QED
      BY <1>4, <1>5, <1>6, <1>7, <1>8, <1>9, <1>10, <1>11, <1>12, <1>13 DEF Next, RequestStep
  <1> QED
    BY <1>1, <1>14 DEF SerialInv

\* No code buys two orders for a user who waits for each answer.
THEOREM SerialPaidOnce ==
    ASSUME Serial
    PROVE  Spec => []PaidOnce
  <1>1. Init => IInv /\ SerialInv
    BY InitIInv, InitSerialInv
  <1>2. IInv /\ SerialInv /\ [Next]_vars => (IInv /\ SerialInv)'
    BY StepIInv, SerialStep
  <1>3. SerialInv => PaidOnce
    BY DEF SerialInv
  <1> QED
    BY <1>1, <1>2, <1>3, PTL DEF Spec

\* ... and no two checks accept the same code, however often Dubbo repeats them.
THEOREM SerialAcceptedOnce ==
    ASSUME Serial
    PROVE  Spec => []AcceptedOnce
  <1>1. Init => IInv /\ SerialInv
    BY InitIInv, InitSerialInv
  <1>2. IInv /\ SerialInv /\ [Next]_vars => (IInv /\ SerialInv)'
    BY StepIInv, SerialStep
  <1>3. SerialInv => AcceptedOnce
    BY DEF SerialInv
  <1> QED
    BY <1>1, <1>2, <1>3, PTL DEF Spec

-----------------------------------------------------------------------------
(* Refinement of OneShotCode. *)

Deletes(u, r) == user[r] = u /\ pc[r] = "del"

\* A user whose check is about to delete a code may spend that code; any other
\* user may spend what Redis holds.
TokenFits ==
    /\ \A r \in Requests : pc[r] = "del" => Token[user[r]] = tradeCode[r]
    /\ \A u \in Users : (~ \E r \in Requests : Deletes(u, r)) => Token[u] = code[u]
    /\ Token = [u \in Users |-> Token[u]]

\* With one request per user the token is either code, never an arbitrary one.
LEMMA TokenOf == TypeOK /\ OneRequestPerUser => TokenFits
  <1> SUFFICES ASSUME TypeOK, OneRequestPerUser PROVE TokenFits
    OBVIOUS
  <1>1. ASSUME NEW r \in Requests, pc[r] = "del"
        PROVE  Token[user[r]] = tradeCode[r]
    <2>1. \A q \in Requests : Deletes(user[r], q) <=> q = r
      BY <1>1 DEF OneRequestPerUser, Deletes
    <2>2. (CHOOSE q \in Requests : user[q] = user[r] /\ pc[q] = "del") = r
      BY <2>1 DEF Deletes
    <2> QED
      BY <1>1, <2>2 DEF Token, TypeOK
  <1>2. ASSUME NEW u \in Users, ~ \E r \in Requests : Deletes(u, r)
        PROVE  Token[u] = code[u]
    BY <1>2 DEF Token, Deletes
  <1>3. Token = [u \in Users |-> Token[u]]
    BY DEF Token
  <1> QED
    BY <1>1, <1>2, <1>3 DEF TokenFits

\* Every step is a step of OneShotCode or leaves its variables alone.
LEMMA StepOneShot ==
    ASSUME Serial, IInv, SerialInv, IInv', SerialInv', [Next]_vars
    PROVE  [OneShot!Next]_<<Token, issued, spent>>
  <1>0. /\ TypeOK /\ HasCode /\ HeldIsIssued /\ StoredCodeIsFresh
        /\ OneRequestPerUser /\ OneRequestPerUser' /\ TypeOK'
    BY DEF IInv, SerialInv
  <1>1. TokenFits /\ TokenFits'
    BY <1>0, TokenOf, PTL
  <1> USE CodesAssumption DEF TypeOK
  <1> HIDE DEF Token
  <1> DEFINE Same(u) == Token'[u] = Token[u]
  <1>2. \A r \in Requests : \A u \in Users :
            pc[r] # "idle" /\ user[r] = u /\ pc[r] # "del" => Token[u] = code[u]
    BY <1>0, <1>1 DEF TokenFits, OneRequestPerUser, Deletes
  <1>3. ASSUME NEW u \in Users,
               \A r \in Requests : Deletes(u, r)' <=> Deletes(u, r),
               \A r \in Requests : Deletes(u, r) => tradeCode'[r] = tradeCode[r],
               (~ \E r \in Requests : Deletes(u, r)) => code'[u] = code[u]
        PROVE  Same(u)
    <2>1. CASE \E r \in Requests : Deletes(u, r)
      <3>1. PICK r \in Requests : Deletes(u, r)
        BY <2>1
      <3>2. pc[r] = "del" /\ user[r] = u /\ pc'[r] = "del" /\ user'[r] = u
        BY <1>3, <3>1 DEF Deletes
      <3>3. Token[u] = tradeCode[r] /\ Token'[u] = tradeCode'[r]
        BY <1>1, <3>2 DEF TokenFits
      <3> QED
        BY <1>3, <3>1, <3>3
    <2>2. CASE ~ \E r \in Requests : Deletes(u, r)
      BY <1>1, <1>3, <2>2 DEF TokenFits
    <2> QED
      BY <2>1, <2>2
  <1>4. (\A u \in Users : Same(u)) => Token' = Token
    BY <1>1 DEF TokenFits
  <1>5. ASSUME NEW u \in Users, NEW c, \A v \in Users : v # u => Same(v), Token'[u] = c
        PROVE  Token' = [Token EXCEPT ![u] = c]
    BY <1>1, <1>5 DEF TokenFits
  <1> DEFINE Stutters == UNCHANGED <<Token, issued, spent>>
             Refines == Stutters \/ OneShot!Next
  <1>6. ASSUME NEW r \in Requests, NEW u \in Users, ToTrade(r, u) \/ SubmitOrder(r, u)
        PROVE  Stutters
    <2>1. PICK l \in {"issue", "get"} :
              /\ pc[r] = "idle" /\ pc' = [pc EXCEPT ![r] = l]
              /\ user' = [user EXCEPT ![r] = u]
              /\ code' = code /\ issued' = issued /\ spent' = spent
              /\ \A q \in Requests : q # r => tradeCode'[q] = tradeCode[q]
      BY <1>0, <1>6 DEF ToTrade, SubmitOrder, Arrive, historyVars
    <2>2. \A v \in Users : Same(v)
      BY <1>0, <1>3, <2>1 DEF Deletes
    <2> QED
      BY <1>4, <2>1, <2>2
  <1>7. ASSUME NEW r \in Requests, GetTradeCode(r) PROVE OneShot!Next
    <2> DEFINE u == user[r]
    <2>1. PICK c \in Codes \ issued :
              /\ pc[r] = "issue" /\ pc' = [pc EXCEPT ![r] = "render"]
              /\ issued' = issued \cup {c}
              /\ code' = [code EXCEPT ![u] = c]
              /\ tradeCode' = [tradeCode EXCEPT ![r] = c]
              /\ user' = user /\ spent' = spent
      BY <1>7 DEF GetTradeCode
    <2>2. u \in Users
      BY <1>0
    <2>3. ~ \E q \in Requests : Deletes(u, q)'
      BY <1>0, <2>1 DEF OneRequestPerUser, Deletes
    <2>4. Token'[u] = c
      BY <1>0, <1>1, <2>1, <2>2, <2>3 DEF TokenFits
    <2>5. \A v \in Users : v # u => Same(v)
      BY <1>0, <1>3, <2>1 DEF Deletes
    <2> HIDE DEF u
    <2>6. OneShot!Issue(u, c)
      BY <1>5, <2>1, <2>2, <2>4, <2>5 DEF OneShot!Issue
    <2> QED
      BY <2>2, <2>6 DEF OneShot!Next
  <1>8. ASSUME NEW r \in Requests, RenderTrade(r) PROVE Stutters
    <2>1. /\ pc[r] = "render" /\ pc' = [pc EXCEPT ![r] = "idle"] /\ user' = user
          /\ code' = code /\ issued' = issued /\ spent' = spent
          /\ \A q \in Requests : q # r => tradeCode'[q] = tradeCode[q]
      BY <1>8 DEF RenderTrade, Done, historyVars
    <2>2. \A v \in Users : Same(v)
      BY <1>0, <1>3, <2>1 DEF Deletes
    <2> QED
      BY <1>4, <2>1, <2>2
  <1>9. ASSUME NEW r \in Requests, GetCode(r) PROVE Stutters
    <2> DEFINE u == user[r]
    <2>1. PICK l \in {"del", "tradeFail"} :
              /\ pc[r] = "get" /\ pc' = [pc EXCEPT ![r] = l]
              /\ l = "del" => code[u] = tradeCode[r]
              /\ user' = user /\ tradeCode' = tradeCode
              /\ code' = code /\ issued' = issued /\ spent' = spent
      BY <1>9 DEF GetCode, Goto, Matches, historyVars
    <2>2. u \in Users /\ Token[u] = code[u]
      BY <1>0, <1>2, <2>1
    <2>3. Same(u)
      <3>1. CASE l = "del"
        BY <1>0, <1>1, <2>1, <2>2, <3>1 DEF TokenFits
      <3>2. CASE l # "del"
        BY <1>0, <1>3, <2>1, <2>2, <3>2 DEF Deletes
      <3> QED
        BY <3>1, <3>2
    <2>4. \A v \in Users : v # u => Same(v)
      BY <1>0, <1>3, <2>1 DEF Deletes
    <2> QED
      BY <1>4, <2>1, <2>3, <2>4
  <1>10. ASSUME NEW r \in Requests, DelCode(r) PROVE OneShot!Next
    <2> DEFINE u == user[r]
    <2>1. /\ pc[r] = "del" /\ pc' = [pc EXCEPT ![r] = "payTest"]
          /\ code' = [code EXCEPT ![u] = NoCode]
          /\ spent' = [spent EXCEPT ![tradeCode[r]] = @ + 1]
          /\ user' = user /\ tradeCode' = tradeCode /\ issued' = issued
      BY <1>10 DEF DelCode, Goto
    <2>2. u \in Users /\ tradeCode[r] \in Codes /\ Token[u] = tradeCode[r]
      BY <1>0, <1>1, <2>1 DEF HasCode, TokenFits
    <2>3. ~ \E q \in Requests : Deletes(u, q)'
      BY <1>0, <2>1 DEF OneRequestPerUser, Deletes
    <2>4. Token'[u] = NoCode
      BY <1>0, <1>1, <2>1, <2>2, <2>3 DEF TokenFits
    <2>5. \A v \in Users : v # u => Same(v)
      BY <1>0, <1>3, <2>1 DEF Deletes
    <2> HIDE DEF u
    <2>6. OneShot!Redeem(u)
      BY <1>5, <2>1, <2>2, <2>4, <2>5 DEF OneShot!Redeem
    <2> QED
      BY <2>2, <2>6 DEF OneShot!Next
  <1>11. ASSUME NEW r \in Requests, Answer(r) PROVE Stutters
    <2>1. /\ pc[r] \in {"payTest", "tradeFail"} /\ pc' = [pc EXCEPT ![r] = "idle"] /\ user' = user
          /\ code' = code /\ issued' = issued /\ spent' = spent
          /\ \A q \in Requests : q # r => tradeCode'[q] = tradeCode[q]
      BY <1>11 DEF Answer, Done
    <2>2. \A v \in Users : Same(v)
      BY <1>0, <1>3, <2>1 DEF Deletes
    <2> QED
      BY <1>4, <2>1, <2>2
  <1>12. ASSUME NEW r \in Requests, Failover(r) PROVE Refines
    <2> DEFINE u == user[r]
    <2>1. /\ pc' = [pc EXCEPT ![r] = IF pc[r] \in {"issue", "render"} THEN "issue" ELSE "get"]
          /\ user' = user /\ tradeCode' = tradeCode
          /\ code' = code /\ issued' = issued /\ spent' = spent /\ pc[r] # "idle"
      BY <1>12 DEF Failover, historyVars
    <2>2. u \in Users
      BY <1>0
    <2>3. \A v \in Users : v # u => Same(v)
      BY <1>0, <1>3, <2>1 DEF Deletes
    <2>4. ~ \E q \in Requests : Deletes(u, q)'
      BY <1>0, <2>1 DEF OneRequestPerUser, Deletes
    <2>5. Token'[u] = code[u]
      BY <1>0, <1>1, <2>1, <2>2, <2>4 DEF TokenFits
    <2>6. CASE Token[u] = code[u]
      <3>1. \A v \in Users : Same(v)
        BY <2>3, <2>5, <2>6
      <3> QED
        BY <1>4, <2>1, <3>1
    <2>7. CASE Token[u] # code[u]
      <3>1. pc[r] = "del"
        BY <1>2, <2>1, <2>2, <2>7
      <3> HIDE DEF u
      <3>2. Token[u] = tradeCode[r] /\ Token[u] # NoCode
        <4>1. tradeCode[r] \in Codes
          BY <1>0, <3>1 DEF HasCode
        <4>2. Token[u] = tradeCode[r]
          BY <1>1, <3>1 DEF TokenFits, u
        <4> QED
          BY <4>1, <4>2
      <3>3. code[u] = NoCode
        BY <1>0, <2>2, <2>7, <3>1, <3>2 DEF u, StoredCodeIsFresh, SerialInv, DeletesLatest
      <3>4. Token' = [Token EXCEPT ![u] = NoCode]
        BY <1>5, <2>2, <2>3, <2>5, <3>3
      <3>5. OneShot!Lapse(u)
        BY <2>1, <3>2, <3>4 DEF OneShot!Lapse
      <3> QED
        BY <2>2, <3>5 DEF OneShot!Next
    <2> QED
      BY <2>6, <2>7
  <1>13. ASSUME NEW u \in Users, Expire(u) PROVE Refines
    <2>1. /\ code' = [code EXCEPT ![u] = NoCode] /\ code[u] # NoCode
          /\ pc' = pc /\ user' = user /\ tradeCode' = tradeCode
          /\ issued' = issued /\ spent' = spent
      BY <1>13 DEF Expire, requestVars
    <2>2. \A v \in Users : v # u => Same(v)
      BY <1>0, <1>3, <2>1 DEF Deletes
    <2>3. CASE \E r \in Requests : Deletes(u, r)
      <3>1. Same(u)
        BY <1>0, <1>3, <2>1, <2>3 DEF Deletes
      <3> QED
        BY <1>4, <2>1, <2>2, <3>1
    <2>4. CASE ~ \E r \in Requests : Deletes(u, r)
      <3>1. (~ \E r \in Requests : Deletes(u, r)') /\ Token[u] # NoCode
        BY <1>1, <2>1, <2>4 DEF Deletes, TokenFits
      <3>2. Token'[u] = NoCode
        BY <1>0, <1>1, <2>1, <3>1 DEF TokenFits
      <3>3. Token' = [Token EXCEPT ![u] = NoCode]
        BY <1>5, <2>2, <3>2
      <3>4. OneShot!Lapse(u)
        BY <2>1, <3>1, <3>3 DEF OneShot!Lapse
      <3> QED
        BY <3>4 DEF OneShot!Next
    <2> QED
      BY <2>3, <2>4
  <1>14. ASSUME UNCHANGED vars PROVE Stutters
    BY <1>3, <1>4, <1>14 DEF vars, requestVars, historyVars, Deletes
  <1>15. Refines
    <2> HIDE DEF Refines
    <2>1. (Stutters => Refines) /\ (OneShot!Next => Refines)
      BY DEF Refines
    <2> HIDE DEF Stutters
    <2> QED
      BY <2>1, <1>6, <1>7, <1>8, <1>9, <1>10, <1>11, <1>12, <1>13, <1>14 DEF Next, RequestStep
  <1> QED
    BY <1>15

\* For a user who waits for each answer the two Redis commands of checkTradeCode
\* are as good as one: trade codes are the one-shot codes of OneShotCode, each
\* buys at most one order and is gone once a check has accepted it.
THEOREM SerialImplementsOneShot ==
    ASSUME Serial
    PROVE  Spec => OneShotSpec
  <1>1. Init => OneShot!Init
    BY CodesAssumption DEF Init, OneShot!Init, Token
  <1>2. Init => IInv /\ SerialInv
    BY InitIInv, InitSerialInv
  <1>3. IInv /\ SerialInv /\ [Next]_vars => (IInv /\ SerialInv)'
    BY StepIInv, SerialStep
  <1>4. IInv /\ SerialInv /\ (IInv /\ SerialInv)' /\ [Next]_vars =>
            [OneShot!Next]_<<Token, issued, spent>>
    BY StepOneShot
  <1> QED
    BY <1>1, <1>2, <1>3, <1>4, PTL DEF Spec, OneShotSpec, OneShot!Spec
=============================================================================
