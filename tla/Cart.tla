-------------------------------- MODULE Cart --------------------------------
(***************************************************************************)
(* The shopping cart: CartController of cart-web and PassPortController of  *)
(* passport-web in front of CartServiceImpl of cart-service.                *)
(*                                                                         *)
(* A cart lives in three places: in the cookie cartListCookie of a browser  *)
(* that is not logged in, in the rows of table cart_info, and in the Redis  *)
(* hash carts:<userId>:info, a copy of the user's rows from which the cart  *)
(* page and the order page are drawn.  addToCart is three calls of the cart *)
(* service, each a transaction of its own (isCartExists, updateCart or      *)
(* saveCart, syncCache); checkCart and login are one transaction each, and  *)
(* write the hash before they commit.  A request is a Tomcat thread; its    *)
(* database and Redis commands are steps.                                   *)
(*                                                                         *)
(* Transactions are InnoDB's at REPEATABLE READ: a plain select reads the   *)
(* snapshot of the first one plus the transaction's own writes, an update   *)
(* waits for the row locks of others.  Prices are left out: cart_price is   *)
(* always written together with sku_num, as sku_price times sku_num.        *)
(***************************************************************************)
EXTENDS Naturals, FiniteSetsExt

CONSTANTS
    Users,      \* user ids
    HomeUser,   \* the user id "1" that addToCart writes for every logged-in user
    Guest,      \* session of a browser without a valid token
    Skus,       \* products; getSkuInfoBySkuId finds each of them
    Browsers,
    Requests,   \* request threads
    MaxPosted,  \* bound: how many pieces are put into carts
    MaxRepeats  \* bound: how many calls of the cart service are repeated

ASSUME UsersAssumption == HomeUser \in Users /\ Guest \notin Users
ASSUME SomethingToBuy == Skus # {} /\ Browsers # {}
ASSUME CartBounds == MaxPosted \in Nat /\ MaxRepeats \in Nat

VARIABLES
    rows,     \* committed rows of cart_info
    nextId,   \* its AUTO_INCREMENT counter
    hash,     \* hash[u]: values of carts:<u>:info, {} when the key is missing
    cookie,   \* cookie[b]: the lines of cartListCookie
    session,  \* session[b]: the user of the browser's token
    req,      \* req[r]: the request thread r works on
    posted,   \* history: pieces put into carts by requests that did not fail
    repeated  \* history: calls that were repeated

vars == <<rows, nextId, hash, cookie, session, req, posted, repeated>>

Line == [skuId : Skus, skuNum : Nat, isChecked : BOOLEAN]
Row  == [id : Nat, userId : Users, skuId : Skus, skuNum : Nat, isChecked : BOOLEAN]

Kinds  == {"addCookie", "checkCookie", "add", "check", "login"}
Labels == {"idle", "setCookie", "exists", "write", "update", "begin", "merge",
           "select", "del", "hmset", "commit", "show", "setToken"}

Request == [pc      : Labels,
            kind    : Kinds,
            browser : Browsers,
            user    : Users \cup {Guest},
            item    : Line,           \* the posted CartInfo
            sent    : SUBSET Line,    \* the cookie that came with the request
            found   : SUBSET Row,     \* what isCartExists returned, {} for null
            base    : SUBSET Row,     \* snapshot of the transaction
            tx      : SUBSET Row,     \* its uncommitted writes
            list    : SUBSET Row]     \* cartInfos of syncCache or getCatCache

TypeOK ==
    /\ rows \subseteq Row
    /\ nextId \in Nat
    /\ hash \in [Users -> SUBSET Row]
    /\ cookie \in [Browsers -> SUBSET Line]
    /\ session \in [Browsers -> Users \cup {Guest}]
    /\ req \in [Requests -> Request]
    /\ posted \in Nat
    /\ repeated \in 0..MaxRepeats

OfUser(S, u) == {x \in S : x.userId = u}
OfSku(S, s)  == {x \in S : x.skuId = s}

\* The pieces of rows or lines, one by one, and their number.
PiecesOf(S) == UNION {{x} \X (1 .. x.skuNum) : x \in S}
Pieces(S)   == Cardinality(PiecesOf(S))

AnyItem == [skuId |-> CHOOSE s \in Skus : TRUE, skuNum |-> 1, isChecked |-> TRUE]
NewRequest(label, kind, b, user, item, sent) ==
    [pc |-> label, kind |-> kind, browser |-> b, user |-> user, item |-> item, sent |-> sent,
     found |-> {}, base |-> {}, tx |-> {}, list |-> {}]
NoRequest == NewRequest("idle", "add", CHOOSE b \in Browsers : TRUE, Guest, AnyItem, {})

Init ==
    /\ rows = {}
    /\ nextId = 1
    /\ hash = [u \in Users |-> {}]
    /\ cookie = [b \in Browsers |-> {}]
    /\ session = [b \in Browsers |-> Guest]
    /\ req = [r \in Requests |-> NoRequest]
    /\ posted = 0
    /\ repeated = 0

-----------------------------------------------------------------------------
(* Requests come and go. *)

Arrive(r, b, kind, user, item, label) ==
    /\ req[r].pc = "idle"
    /\ req' = [req EXCEPT ![r] = NewRequest(label, kind, b, user, item, cookie[b])]
    /\ UNCHANGED <<rows, nextId, hash, cookie, session>>

Goto(r, label) == req' = [req EXCEPT ![r].pc = label]
Done(r)        == req' = [req EXCEPT ![r] = NoRequest]

\* addToCart: isChecked is set to "1", skuNum comes from the form.
AddToCart(r, b, s) ==
    LET item == [skuId |-> s, skuNum |-> 1, isChecked |-> TRUE] IN
    /\ posted < MaxPosted
    /\ posted' = posted + 1
    /\ IF session[b] = Guest
       THEN Arrive(r, b, "addCookie", Guest, item, "setCookie")
       ELSE Arrive(r, b, "add", session[b], item, "exists")

\* checkCart posts a product and its new state.
CheckCart(r, b, s) ==
    \E checked \in BOOLEAN :
        LET item == [skuId |-> s, skuNum |-> 1, isChecked |-> checked] IN
        /\ IF session[b] = Guest
           THEN Arrive(r, b, "checkCookie", Guest, item, "setCookie")
           ELSE Arrive(r, b, "check", session[b], item, "update")
        /\ UNCHANGED posted

\* Without lines combineCart is syncCache alone.
CombineLabel(lines) == IF lines = {} THEN "select" ELSE "begin"

\* login with the right password; combineCart gets the lines of the cookie.  The
\* bound: overlapping logins may save a cookie twice, up to about MaxPosted pieces.
Login(r, b, u) ==
    /\ Pieces(rows) + Pieces(cookie[b]) <= MaxPosted
    /\ Arrive(r, b, "login", u, AnyItem, CombineLabel(cookie[b]))
    /\ UNCHANGED posted

\* The token cookie expires.
SessionEnds(b) ==
    /\ session[b] # Guest
    /\ session' = [session EXCEPT ![b] = Guest]
    /\ UNCHANGED <<rows, nextId, hash, cookie, req, posted>>

-----------------------------------------------------------------------------
(* Without a session: the answer carries the new cookie. *)

PutLine(lines, item) ==
    IF OfSku(lines, item.skuId) = {} THEN lines \cup {item}
    ELSE {IF l.skuId = item.skuId THEN [l EXCEPT !.skuNum = @ + item.skuNum] ELSE l : l \in lines}

CheckLine(lines, item) ==
    {IF l.skuId = item.skuId THEN [l EXCEPT !.isChecked = item.isChecked] ELSE l : l \in lines}

SetCookie(r) ==
    LET q == req[r] IN
    /\ q.pc = "setCookie"
    /\ cookie' = [cookie EXCEPT ![q.browser] = IF q.kind = "addCookie" THEN PutLine(q.sent, q.item)
                                               ELSE CheckLine(q.sent, q.item)]
    /\ Done(r)
    /\ UNCHANGED <<rows, nextId, hash, session, posted>>

-----------------------------------------------------------------------------
(* The database. *)

\* A transaction sees its base with its own writes on top.
Overlay(base, writes) == {x \in base : \A w \in writes : w.id # x.id} \cup writes

\* The rows with the pieces of a line added to them.
MorePieces(S, line) == {[x EXCEPT !.skuNum = @ + line.skuNum] : x \in S}

\* Rows with an uncommitted write of another request.
LockedIds(r) == {w.id : w \in UNION {req[q].tx : q \in Requests \ {r}}}

\* isCartExists for addToCart: userId "1" whoever is logged in.  selectOne throws
\* when it finds two rows.
IsCartExists(r) ==
    LET q == req[r]
        match == OfSku(OfUser(rows, HomeUser), q.item.skuId) IN
    /\ q.pc = "exists"
    /\ \/ /\ Cardinality(match) <= 1
          /\ req' = [req EXCEPT ![r].pc = "write", ![r].found = match]
          /\ UNCHANGED posted
       \/ /\ Cardinality(match) > 1
          /\ Done(r)
          /\ posted' = posted - q.item.skuNum
    /\ UNCHANGED <<rows, nextId, hash, cookie, session>>

\* Mutant: addToCart forgets syncCache when the row exists.
UpdateCartWithoutSync(r) ==
    LET q == req[r]
        new == MorePieces(q.found, q.item) IN
    /\ q.pc = "write"
    /\ q.found # {}
    /\ \A x \in new : x.id \notin LockedIds(r)
    /\ rows' = Overlay(rows, new)
    /\ Done(r)
    /\ UNCHANGED <<nextId, hash, cookie, session, posted>>

\* updateCart writes back the row that isCartExists read, with the sum of the
\* two numbers.
UpdateCart(r) ==
    LET q == req[r]
        new == MorePieces(q.found, q.item) IN
    /\ q.pc = "write"
    /\ q.found # {}
    /\ \A x \in new : x.id \notin LockedIds(r)
    /\ rows' = Overlay(rows, new)
    /\ Goto(r, "select")
    /\ UNCHANGED <<nextId, hash, cookie, session, posted>>

\* Mutant: the line is inserted with the userId it came with, null.
NewRowWithoutUser(id, u, line) ==
    [id |-> id, userId |-> Guest, skuId |-> line.skuId, skuNum |-> line.skuNum,
     isChecked |-> line.isChecked]

NewRow(id, u, line) ==
    [id |-> id, userId |-> u, skuId |-> line.skuId, skuNum |-> line.skuNum,
     isChecked |-> line.isChecked]

SaveCart(r) ==
    LET q == req[r] IN
    /\ q.pc = "write"
    /\ q.found = {}
    /\ rows' = rows \cup {NewRow(nextId, HomeUser, q.item)}
    /\ nextId' = nextId + 1
    /\ Goto(r, "select")
    /\ UNCHANGED <<hash, cookie, session, posted>>

\* Mutant: updateCartCheck forgets syncCache.
UpdateCheckWithoutSync(r) ==
    LET q == req[r]
        new == {[x EXCEPT !.isChecked = q.item.isChecked] :
                    x \in OfSku(OfUser(rows, q.user), q.item.skuId)} IN
    /\ q.pc = "update"
    /\ \A x \in new : x.id \notin LockedIds(r)
    /\ req' = [req EXCEPT ![r].pc = "commit", ![r].tx = new]
    /\ UNCHANGED <<rows, nextId, hash, cookie, session, posted>>

\* Mutant: the update by skuId alone.
UpdateCheckOfAll(r) ==
    LET q == req[r]
        new == {[x EXCEPT !.isChecked = q.item.isChecked] : x \in OfSku(rows, q.item.skuId)} IN
    /\ q.pc = "update"
    /\ \A x \in new : x.id \notin LockedIds(r)
    /\ req' = [req EXCEPT ![r].pc = "select", ![r].tx = new]
    /\ UNCHANGED <<rows, nextId, hash, cookie, session, posted>>

\* updateCartCheck: the update by skuId and userId, not committed yet.
UpdateCartCheck(r) ==
    LET q == req[r]
        new == {[x EXCEPT !.isChecked = q.item.isChecked] :
                    x \in OfSku(OfUser(rows, q.user), q.item.skuId)} IN
    /\ q.pc = "update"
    /\ \A x \in new : x.id \notin LockedIds(r)
    /\ req' = [req EXCEPT ![r].pc = "select", ![r].tx = new]
    /\ UNCHANGED <<rows, nextId, hash, cookie, session, posted>>

-----------------------------------------------------------------------------
(* combineCart *)

\* Mutant: a null userId matches nothing, as in SQL.
MatchingNothing(base, line) == {}

\* The first isCartExists opens the snapshot.  The userId of a cookie line is
\* null, so that a line matches the rows of every user; two rows are an error.
Matching(base, line) == OfSku(base, line.skuId)

BeginCombine(r) ==
    LET q == req[r] IN
    /\ q.pc = "begin"
    /\ IF \A l \in q.sent : Cardinality(Matching(rows, l)) <= 1
       THEN req' = [req EXCEPT ![r].pc = "merge", ![r].base = rows]
       ELSE Done(r)
    /\ UNCHANGED <<rows, nextId, hash, cookie, session, posted>>

\* A line without a row becomes a row of the user, the others are added to the
\* row found; the ids of the new rows are the next ones, in some order.
MergeLines(r) ==
    LET q == req[r]
        fresh   == {l \in q.sent : Matching(q.base, l) = {}}
        updates == UNION {MorePieces(Matching(q.base, l), l) : l \in q.sent}
        ids     == nextId .. (nextId + Cardinality(fresh) - 1)
        order   == CHOOSE f \in [fresh -> ids] : IsInjective(f)
        inserts == {NewRow(order[l], q.user, l) : l \in fresh} IN
    /\ q.pc = "merge"
    /\ \A x \in updates : x.id \notin LockedIds(r)
    /\ nextId' = nextId + Cardinality(fresh)
    /\ req' = [req EXCEPT ![r].pc = "select", ![r].tx = updates \cup inserts]
    /\ UNCHANGED <<rows, hash, cookie, session, posted>>

-----------------------------------------------------------------------------
(* syncCache, inside the transaction of its caller *)

SelectRows(r) ==
    LET q == req[r]
        base == IF q.kind = "login" /\ q.sent # {} THEN q.base ELSE rows IN
    /\ q.pc = "select"
    /\ req' = [req EXCEPT ![r].pc = "del", ![r].list = OfUser(Overlay(base, q.tx), q.user)]
    /\ UNCHANGED <<rows, nextId, hash, cookie, session, posted>>

DelHash(r) ==
    /\ req[r].pc = "del"
    /\ hash' = [hash EXCEPT ![req[r].user] = {}]
    /\ Goto(r, "hmset")
    /\ UNCHANGED <<rows, nextId, cookie, session, posted>>

\* Mutant: nothing is rolled back.
HmsetWithoutRollback(r) ==
    LET q == req[r] IN
    /\ q.pc = "hmset"
    /\ \/ q.list # {} /\ hash' = [hash EXCEPT ![q.user] = q.list] /\ Goto(r, "commit")
          /\ UNCHANGED rows
       \/ q.list = {} /\ Done(r) /\ rows' = Overlay(rows, q.tx) /\ UNCHANGED hash
    /\ UNCHANGED <<nextId, cookie, session, posted>>

\* hmset without a field is an error of Redis: the transaction is rolled back
\* and the request fails.
HmsetHash(r) ==
    LET q == req[r] IN
    /\ q.pc = "hmset"
    /\ \/ q.list # {} /\ hash' = [hash EXCEPT ![q.user] = q.list] /\ Goto(r, "commit")
       \/ q.list = {} /\ Done(r) /\ UNCHANGED hash
    /\ UNCHANGED <<rows, nextId, cookie, session, posted>>

\* Mutant: the request is answered and its transaction never ends.
CommitForgotten(r) ==
    /\ req[r].pc = "commit"
    /\ Goto(r, "idle")
    /\ UNCHANGED <<rows, nextId, hash, cookie, session, posted>>

\* Mutant: the answer goes out, the row locks stay.
CommitKeepsLocks(r) ==
    /\ req[r].pc = "commit"
    /\ rows' = Overlay(rows, req[r].tx)
    /\ Goto(r, "idle")
    /\ UNCHANGED <<nextId, hash, cookie, session, posted>>

Commit(r) ==
    LET q == req[r] IN
    /\ q.pc = "commit"
    /\ rows' = Overlay(rows, q.tx)
    /\ \/ q.kind = "add" /\ Done(r)
       \/ q.kind = "check" /\ req' = [req EXCEPT ![r].pc = "show", ![r].tx = {}]
       \/ q.kind = "login" /\ req' = [req EXCEPT ![r].pc = "setToken", ![r].tx = {}]
    /\ UNCHANGED <<nextId, hash, cookie, session, posted>>

-----------------------------------------------------------------------------
(* Answers *)

\* getCatCache: the hash, or the rows when there is none.
CatCache(u) == IF hash[u] # {} THEN hash[u] ELSE OfUser(rows, u)

\* checkCart draws the cart again.
ShowCart(r) ==
    /\ req[r].pc = "show"
    /\ Done(r)
    /\ UNCHANGED <<rows, nextId, hash, cookie, session, posted>>

\* Mutant: login leaves the cart cookie in the browser.
SetTokenKeepCookie(r) ==
    /\ req[r].pc = "setToken"
    /\ session' = [session EXCEPT ![req[r].browser] = req[r].user]
    /\ Done(r)
    /\ UNCHANGED <<rows, nextId, hash, cookie, posted>>

\* login deletes the cart cookie and returns the token.
SetToken(r) ==
    LET q == req[r] IN
    /\ q.pc = "setToken"
    /\ cookie' = [cookie EXCEPT ![q.browser] = {}]
    /\ session' = [session EXCEPT ![q.browser] = q.user]
    /\ Done(r)
    /\ UNCHANGED <<rows, nextId, hash, posted>>

Serve(r) ==
    \/ SetCookie(r)
    \/ IsCartExists(r)
    \/ UpdateCart(r)
    \/ SaveCart(r)
    \/ UpdateCartCheck(r)
    \/ BeginCombine(r)
    \/ MergeLines(r)
    \/ SelectRows(r)
    \/ DelHash(r)
    \/ HmsetHash(r)
    \/ Commit(r)
    \/ ShowCart(r)
    \/ SetToken(r)

Submit(r, b) ==
    \/ \E s \in Skus : AddToCart(r, b, s) \/ CheckCart(r, b, s)
    \/ \E u \in Users : Login(r, b, u)

\* The answer of isCartExists, of updateCart or saveCart, of updateCartCheck or of
\* combineCart does not arrive, and the Dubbo client calls again with the same
\* arguments (failover with the default retries).
Repeat(r) ==
    LET q == req[r] IN
    /\ repeated < MaxRepeats
    /\ repeated' = repeated + 1
    /\ \/ q.pc = "write" /\ Goto(r, "exists")
       \/ q.pc = "select" /\ q.kind = "add" /\ Goto(r, "write")
       \/ q.pc = "show" /\ Goto(r, "update")
       \/ q.pc = "setToken" /\ Goto(r, CombineLabel(q.sent))
    /\ UNCHANGED <<rows, nextId, hash, cookie, session, posted>>

Once(A) == A /\ UNCHANGED repeated

Next ==
    \/ \E r \in Requests : Once(Serve(r)) \/ \E b \in Browsers : Once(Submit(r, b))
    \/ \E b \in Browsers : Once(SessionEnds(b))
    \/ \E r \in Requests : Repeat(r)

Spec == Init /\ [][Next]_vars

\* Every request is served; InnoDB grants row locks in the order of the requests,
\* so that a writer that waits for a row gets it in the end.
FairSpec == Spec /\ \A r \in Requests : SF_vars(Once(Serve(r)))

-----------------------------------------------------------------------------

Quiet == \A r \in Requests : req[r].pc = "idle"

\* Nothing that was put into a cart is lost: between requests the pieces in cookies and
\* rows are those posted; and none is counted twice, unless a call was repeated
\* (addToCart, combineCart).
ItemsConserved ==
    LET inCookies == UNION {{b} \X PiecesOf(cookie[b]) : b \in Browsers}
        pieces    == Pieces(rows) + Cardinality(inCookies) IN
    Quiet => posted <= pieces /\ (repeated = 0 => posted = pieces)

\* A user has at most one row of a product, or else selectOne throws for that
\* product from then on (isCartExists), unless a saveCart was repeated.
OneRowPerProduct ==
    repeated = 0 => \A x, y \in rows : x.userId = y.userId /\ x.skuId = y.skuId => x = y

\* A request that has written ends with the hash of its user equal to the user's
\* rows: syncCache sees the writes of its caller, and nobody skips it.
WritesThrough ==
    [][\A r \in Requests : LET u == req[r].user IN
        req[r].pc \in {"write", "hmset", "commit"} /\ req'[r].pc \in {"idle", "show", "setToken"}
            => hash'[u] = OfUser(rows', u)]_vars

\* A line in the hash belongs to its user and to a row that is in the database, or
\* that a transaction under way has inserted.
HashHasRows ==
    \A u \in Users : \A x \in hash[u] :
        /\ x.userId = u
        /\ x.id \in {y.id : y \in rows} \cup {y.id : y \in UNION {req[r].tx : r \in Requests}}

\* "更新数据后将最新数据查询出来": the cart that checkCart draws shows the product in
\* the state that was posted.
ShowsOwnUpdate ==
    \A r \in Requests : req[r].pc = "show" =>
        \A x \in OfSku(CatCache(req[r].user), req[r].item.skuId) :
            x.isChecked = req[r].item.isChecked

Ends(r, kind) == req[r].kind = kind /\ req[r].pc # "idle" /\ req'[r].pc = "idle"

\* A login with the right password that gives no token (combineCart has thrown) leaves
\* the table, the cookie and the session as they were, and it happens only to a user
\* without a row or with a cookie of which a product is in two rows.
FailedLoginLeavesCart ==
    [][\A r \in Requests : LET q == req[r] IN
        (Ends(r, "login") /\ q.pc # "setToken") =>
            /\ UNCHANGED <<rows, cookie, session>>
            /\ \/ OfUser(rows, q.user) = {}
               \/ \E l \in q.sent : Cardinality(OfSku(rows, l.skuId)) > 1]_vars

\* "用户登陆后同步购物车数据到db": after the login every product of the cookie is in
\* a row of the user.
LoginBringsCookie ==
    [][\A r \in Requests : Ends(r, "login") /\ req[r].pc = "setToken" =>
            \A l \in req[r].sent : OfSku(OfUser(rows, req[r].user), l.skuId) # {}]_vars

\* Every request is answered: no row lock is held for ever.
RequestEnds == \A r \in Requests : req[r].pc # "idle" ~> req[r].pc = "idle"

-----------------------------------------------------------------------------

\* A row without its id.
Plain(S) ==
    {[userId |-> x.userId, skuId |-> x.skuId, skuNum |-> x.skuNum, isChecked |-> x.isChecked] : x \in S}

\* Requests that have committed a login of browser b and not answered it yet.
LoggingIn(b) == {r \in Requests : req[r].pc = "setToken" /\ req[r].browser = b}

\* For one request at a time: a login counts from its commit on, all else when it is done.
Atomic == INSTANCE AtomicCart WITH
    table   <- Plain(rows),
    cookie  <- [b \in Browsers |-> IF LoggingIn(b) = {} THEN cookie[b] ELSE {}],
    session <- [b \in Browsers |-> IF LoggingIn(b) = {} THEN session[b]
                                   ELSE req[CHOOSE r \in LoggingIn(b) : TRUE].user]

\* When requests come one at a time, each of them changes the carts in one step, all of it or
\* nothing, by the numbers that were posted: addToCart with its three calls, checkCart, and a
\* login with the ids, the snapshot and the overlay of its transaction.  (Until a call is
\* repeated: combineCart and saveCart may then take effect twice.)
AtomicSpec == Atomic!Init /\ [][repeated' > 0 \/ Atomic!Next]_(Atomic!lines)
=============================================================================
