----------------------------- MODULE CartProofs -----------------------------
(*****************************************************************************)
(* What holds of Cart for any users, products, browsers and bounds.           *)
(*                                                                            *)
(* For any number of concurrent requests: every piece of state has its type,  *)
(* and the hash has no line without a row.  A hash is written before its      *)
(* transaction commits, so that the argument is about what a rollback takes   *)
(* away: a transaction is only rolled back when it found no row of its user,  *)
(* and then it has inserted none.                                             *)
(*                                                                            *)
(* For one request at a time: a product is in one row of its user, the hash   *)
(* is the user's rows when a request has written, checkCart shows what was    *)
(* posted, and a failed login changes nothing.  The argument is about the     *)
(* table that a transaction is about to leave behind (TxStands).              *)
(*                                                                            *)
(* Also for one request at a time, each request is one step of AtomicCart: a  *)
(* transaction is about to leave the lines which that step leaves (Carries),  *)
(* and takes it with its commit.                                              *)
(*                                                                            *)
(* For one request at a time, too, no piece is lost or doubled.  Pieces are   *)
(* counted one by one, as a set of cells: a sum becomes a cardinality, and a  *)
(* step a bijection.                                                          *)
(*                                                                            *)
(* Again for any number of concurrent requests: an id is the id of one row,   *)
(* rows stay with their user and product (TableInv), and a line reaches the   *)
(* table before its request is answered (LinesInv).                           *)
(*****************************************************************************)
EXTENDS Cart, FiniteSetTheorems, TLAPS

Ids(S)     == {x.id : x \in S}
HaveIds(S) == \A x \in S : "id" \in DOMAIN x

\* Between its first write and its commit a request is in a transaction.
InTransaction == {"select", "del", "hmset", "commit"}

Record(q) ==
    q = [pc |-> q.pc, kind |-> q.kind, browser |-> q.browser, user |-> q.user,
         item |-> q.item, sent |-> q.sent, found |-> q.found, base |-> q.base,
         tx |-> q.tx, list |-> q.list]

\* What a request has read stays in the table, whose ids are ids.
ReadsKnown(q, ids) ==
    /\ HaveIds(q.found) /\ Ids(q.found) \subseteq ids
    /\ HaveIds(q.base) /\ Ids(q.base) \subseteq ids

\* A transaction changes rows that there are, or inserts rows of its user; the calls of
\* addToCart write without one.
WritesKnown(q, ids) ==
    /\ HaveIds(q.tx)
    /\ q.tx # {} => q.pc \in InTransaction
    /\ \A w \in q.tx : w.id \in ids \/ w.userId = q.user
    /\ q.kind = "add" => q.tx = {}
    /\ q.pc \in {"update", "show"} => q.kind = "check"
    /\ q.pc \in {"begin", "merge", "setToken"} => q.kind = "login"

\* What is about to be written to the hash.
ListKnown(q, ids) ==
    /\ \A x \in q.list : x.userId = q.user /\ x.id \in ids \cup Ids(q.tx)
    /\ q.pc \in {"del", "hmset"} /\ q.list = {} => Ids(q.tx) \subseteq ids

Good(q, ids) == ReadsKnown(q, ids) /\ WritesKnown(q, ids) /\ ListKnown(q, ids)

IInv ==
    /\ hash = [u \in Users |-> hash[u]]
    /\ req = [r \in Requests |-> req[r]]
    /\ HaveIds(rows)
    /\ \A r \in Requests : Record(req[r]) /\ Good(req[r], Ids(rows))
    /\ HashHasRows

\* The invariant holds of empty carts.
LEMMA InitIInv == Init => IInv
  <1> SUFFICES ASSUME Init PROVE IInv
    OBVIOUS
  <1> USE DEF Init, NoRequest, NewRequest
  <1>1. \A r \in Requests : Record(req[r])
    BY DEF Record
  <1>2. HaveIds(rows) /\ HashHasRows /\ \A r \in Requests : Good(req[r], Ids(rows))
    BY DEF Good, ReadsKnown, WritesKnown, ListKnown, HashHasRows, HaveIds, Ids
  <1> QED
    BY <1>1, <1>2 DEF IInv

-----------------------------------------------------------------------------
(* A step changes one request and may add rows.                             *)

\* The ids of a table on which a transaction is written.
LEMMA OverlayIds ==
  ASSUME NEW base, NEW writes
  PROVE  /\ Ids(Overlay(base, writes)) = Ids(base) \cup Ids(writes)
         /\ HaveIds(base) /\ HaveIds(writes) => HaveIds(Overlay(base, writes))
  BY DEF Overlay, Ids, HaveIds

\* More ids do no harm to the other requests.
LEMMA GoodGrows ==
  ASSUME NEW q, NEW ids, NEW more, Good(q, ids), ids \subseteq more
  PROVE  Good(q, more)
  BY DEF Good, ReadsKnown, WritesKnown, ListKnown

\* Only request r changes.
OnlyRequest(r) ==
    /\ req' = [s \in Requests |-> req'[s]]
    /\ \A s \in Requests \ {r} : req'[s] = req[s]
    /\ Record(req'[r])

\* What a step of request r has to show: the table loses no id, the writes of r stay
\* its writes or become rows, and new lines of a hash have rows.
LEMMA RequestStep ==
  ASSUME IInv, NEW r \in Requests, OnlyRequest(r), Good(req'[r], Ids(rows')),
         HaveIds(rows'), Ids(rows) \subseteq Ids(rows'),
         Ids(req[r].tx) \subseteq Ids(rows') \cup Ids(req'[r].tx),
         hash' = [u \in Users |-> hash'[u]],
         \A u \in Users : \A x \in hash'[u] :
             x \in hash[u] \/ (x.userId = u /\ x.id \in Ids(rows') \cup Ids(req'[r].tx))
  PROVE  IInv'
  <1>1. \A s \in Requests : Record(req'[s]) /\ Good(req'[s], Ids(rows'))
    BY GoodGrows DEF IInv, OnlyRequest
  <1>2. HashHasRows'
    <2> SUFFICES ASSUME NEW u \in Users, NEW x \in hash'[u]
                 PROVE  /\ x.userId = u
                        /\ \/ x.id \in Ids(rows')
                           \/ \E s \in Requests : x.id \in Ids(req'[s].tx)
      BY DEF HashHasRows, Ids
    <2>1. CASE x \in hash[u]
      <3>1. x.userId = u /\ (x.id \in Ids(rows) \/ \E s \in Requests : x.id \in Ids(req[s].tx))
        BY <2>1 DEF IInv, HashHasRows, Ids
      <3> QED
        BY <3>1 DEF OnlyRequest
    <2> QED
      BY <2>1
  <1> QED
    BY <1>1, <1>2 DEF IInv, OnlyRequest

\* The same for a step that changes neither the table nor a hash.
LEMMA LocalStep ==
  ASSUME IInv, NEW r \in Requests, OnlyRequest(r), Good(req'[r], Ids(rows)),
         Ids(req[r].tx) \subseteq Ids(rows) \cup Ids(req'[r].tx),
         UNCHANGED <<rows, hash>>
  PROVE  IInv'
  <1>1. hash' = [u \in Users |-> hash'[u]] /\ HaveIds(rows')
    BY DEF IInv
  <1> QED
    BY <1>1, RequestStep

\* The fields of a request that a step leaves alone.
SameData(q, p) ==
    /\ p.user = q.user /\ p.kind = q.kind /\ p.found = q.found /\ p.base = q.base
    /\ p.tx = q.tx /\ p.list = q.list

\* A request that ends leaves nothing behind.
LEMMA DoneEffect ==
  ASSUME IInv, NEW r \in Requests, Done(r), NEW ids
  PROVE  OnlyRequest(r) /\ Good(req'[r], ids) /\ req'[r].tx = {}
  BY DEF IInv, Done, NoRequest, NewRequest, OnlyRequest, Record, Good, ReadsKnown, WritesKnown, ListKnown,
         HaveIds, Ids

\* A request moves on.
LEMMA GotoEffect ==
  ASSUME IInv, NEW r \in Requests, NEW label, Goto(r, label)
  PROVE  OnlyRequest(r) /\ req'[r].pc = label /\ SameData(req[r], req'[r])
  BY DEF IInv, Goto, OnlyRequest, Record, SameData

\* A step that moves a request on and sets one of its sets.
LEMMA SetFound ==
  ASSUME IInv, NEW r \in Requests, NEW label, NEW v,
         req' = [req EXCEPT ![r].pc = label, ![r].found = v]
  PROVE  /\ OnlyRequest(r) /\ req'[r].pc = label /\ req'[r].found = v
         /\ req'[r].user = req[r].user /\ req'[r].kind = req[r].kind /\ req'[r].base = req[r].base
         /\ req'[r].tx = req[r].tx /\ req'[r].list = req[r].list
  <1>1. ASSUME NEW q, NEW p, Record(q), p = [q EXCEPT !.pc = label, !.found = v]
        PROVE  /\ Record(p) /\ p.pc = label /\ p.found = v
               /\ p.user = q.user /\ p.kind = q.kind /\ p.base = q.base /\ p.tx = q.tx /\ p.list = q.list
    <2>1. p = [pc |-> label, kind |-> q.kind, browser |-> q.browser, user |-> q.user, item |-> q.item,
               sent |-> q.sent, found |-> v, base |-> q.base, tx |-> q.tx, list |-> q.list]
      BY <1>1 DEF Record
    <2> QED
      BY <2>1 DEF Record
  <1>2. req'[r] = [req[r] EXCEPT !.pc = label, !.found = v]
    BY DEF IInv
  <1>3. req' = [s \in Requests |-> req'[s]] /\ \A s \in Requests \ {r} : req'[s] = req[s]
    BY DEF IInv
  <1>4. Record(req[r])
    BY DEF IInv
  <1>5. /\ Record(req'[r]) /\ req'[r].pc = label /\ req'[r].found = v
        /\ req'[r].user = req[r].user /\ req'[r].kind = req[r].kind /\ req'[r].base = req[r].base
        /\ req'[r].tx = req[r].tx /\ req'[r].list = req[r].list
    BY <1>1, <1>2, <1>4
  <1> QED
    BY <1>3, <1>5 DEF OnlyRequest

\* The same for base.
LEMMA SetBase ==
  ASSUME IInv, NEW r \in Requests, NEW label, NEW v,
         req' = [req EXCEPT ![r].pc = label, ![r].base = v]
  PROVE  /\ OnlyRequest(r) /\ req'[r].pc = label /\ req'[r].base = v
         /\ req'[r].user = req[r].user /\ req'[r].kind = req[r].kind /\ req'[r].found = req[r].found
         /\ req'[r].tx = req[r].tx /\ req'[r].list = req[r].list
  <1>1. ASSUME NEW q, NEW p, Record(q), p = [q EXCEPT !.pc = label, !.base = v]
        PROVE  /\ Record(p) /\ p.pc = label /\ p.base = v
               /\ p.user = q.user /\ p.kind = q.kind /\ p.found = q.found /\ p.tx = q.tx /\ p.list = q.list
    <2>1. p = [pc |-> label, kind |-> q.kind, browser |-> q.browser, user |-> q.user, item |-> q.item,
               sent |-> q.sent, found |-> q.found, base |-> v, tx |-> q.tx, list |-> q.list]
      BY <1>1 DEF Record
    <2> QED
      BY <2>1 DEF Record
  <1>2. req'[r] = [req[r] EXCEPT !.pc = label, !.base = v]
    BY DEF IInv
  <1>3. req' = [s \in Requests |-> req'[s]] /\ \A s \in Requests \ {r} : req'[s] = req[s]
    BY DEF IInv
  <1>4. Record(req[r])
    BY DEF IInv
  <1>5. /\ Record(req'[r]) /\ req'[r].pc = label /\ req'[r].base = v
        /\ req'[r].user = req[r].user /\ req'[r].kind = req[r].kind /\ req'[r].found = req[r].found
        /\ req'[r].tx = req[r].tx /\ req'[r].list = req[r].list
    BY <1>1, <1>2, <1>4
  <1> QED
    BY <1>3, <1>5 DEF OnlyRequest

\* The same for tx.
LEMMA SetTx ==
  ASSUME IInv, NEW r \in Requests, NEW label, NEW v,
         req' = [req EXCEPT ![r].pc = label, ![r].tx = v]
  PROVE  /\ OnlyRequest(r) /\ req'[r].pc = label /\ req'[r].tx = v
         /\ req'[r].user = req[r].user /\ req'[r].kind = req[r].kind /\ req'[r].found = req[r].found
         /\ req'[r].base = req[r].base /\ req'[r].list = req[r].list
  <1>1. ASSUME NEW q, NEW p, Record(q), p = [q EXCEPT !.pc = label, !.tx = v]
        PROVE  /\ Record(p) /\ p.pc = label /\ p.tx = v
               /\ p.user = q.user /\ p.kind = q.kind /\ p.found = q.found /\ p.base = q.base /\ p.list = q.list
    <2>1. p = [pc |-> label, kind |-> q.kind, browser |-> q.browser, user |-> q.user, item |-> q.item,
               sent |-> q.sent, found |-> q.found, base |-> q.base, tx |-> v, list |-> q.list]
      BY <1>1 DEF Record
    <2> QED
      BY <2>1 DEF Record
  <1>2. req'[r] = [req[r] EXCEPT !.pc = label, !.tx = v]
    BY DEF IInv
  <1>3. req' = [s \in Requests |-> req'[s]] /\ \A s \in Requests \ {r} : req'[s] = req[s]
    BY DEF IInv
  <1>4. Record(req[r])
    BY DEF IInv
  <1>5. /\ Record(req'[r]) /\ req'[r].pc = label /\ req'[r].tx = v
        /\ req'[r].user = req[r].user /\ req'[r].kind = req[r].kind /\ req'[r].found = req[r].found
        /\ req'[r].base = req[r].base /\ req'[r].list = req[r].list
    BY <1>1, <1>2, <1>4
  <1> QED
    BY <1>3, <1>5 DEF OnlyRequest

\* The same for list.
LEMMA SetList ==
  ASSUME IInv, NEW r \in Requests, NEW label, NEW v,
         req' = [req EXCEPT ![r].pc = label, ![r].list = v]
  PROVE  /\ OnlyRequest(r) /\ req'[r].pc = label /\ req'[r].list = v
         /\ req'[r].user = req[r].user /\ req'[r].kind = req[r].kind /\ req'[r].found = req[r].found
         /\ req'[r].base = req[r].base /\ req'[r].tx = req[r].tx
  <1>1. ASSUME NEW q, NEW p, Record(q), p = [q EXCEPT !.pc = label, !.list = v]
        PROVE  /\ Record(p) /\ p.pc = label /\ p.list = v
               /\ p.user = q.user /\ p.kind = q.kind /\ p.found = q.found /\ p.base = q.base /\ p.tx = q.tx
    <2>1. p = [pc |-> label, kind |-> q.kind, browser |-> q.browser, user |-> q.user, item |-> q.item,
               sent |-> q.sent, found |-> q.found, base |-> q.base, tx |-> q.tx, list |-> v]
      BY <1>1 DEF Record
    <2> QED
      BY <2>1 DEF Record
  <1>2. req'[r] = [req[r] EXCEPT !.pc = label, !.list = v]
    BY DEF IInv
  <1>3. req' = [s \in Requests |-> req'[s]] /\ \A s \in Requests \ {r} : req'[s] = req[s]
    BY DEF IInv
  <1>4. Record(req[r])
    BY DEF IInv
  <1>5. /\ Record(req'[r]) /\ req'[r].pc = label /\ req'[r].list = v
        /\ req'[r].user = req[r].user /\ req'[r].kind = req[r].kind /\ req'[r].found = req[r].found
        /\ req'[r].base = req[r].base /\ req'[r].tx = req[r].tx
    BY <1>1, <1>2, <1>4
  <1> QED
    BY <1>3, <1>5 DEF OnlyRequest

\* A new request has read and written nothing.
LEMMA ArriveEffect ==
  ASSUME IInv, NEW r \in Requests, NEW b, NEW kind, NEW user, NEW item, NEW label,
         Arrive(r, b, kind, user, item, label),
         label \in {"update", "show"} => kind = "check",
         label \in {"begin", "merge", "setToken"} => kind = "login"
  PROVE  IInv'
  <1> DEFINE p == NewRequest(label, kind, b, user, item, cookie[b])
  <1>1. /\ Record(p) /\ p.pc = label /\ p.kind = kind
        /\ p.found = {} /\ p.base = {} /\ p.tx = {} /\ p.list = {}
    BY DEF Record, NewRequest
  <1>2. req' = [req EXCEPT ![r] = p]
    BY DEF Arrive
  <1> HIDE DEF p
  <1>3. Good(p, Ids(rows))
    BY <1>1 DEF Good, ReadsKnown, WritesKnown, ListKnown, HaveIds, Ids
  <1>4. OnlyRequest(r) /\ req'[r] = p
    BY <1>1, <1>2 DEF IInv, OnlyRequest
  <1>5. req[r].tx = {}
    BY DEF IInv, Arrive, Good, WritesKnown, InTransaction
  <1> QED
    BY <1>1, <1>3, <1>4, <1>5, LocalStep DEF Arrive, Ids

\* A request arrives.
LEMMA SubmitStep ==
  ASSUME IInv, NEW r \in Requests, NEW b \in Browsers, Submit(r, b)
  PROVE  IInv'
  <1>1. ASSUME NEW s \in Skus, AddToCart(r, b, s) PROVE IInv'
    BY <1>1, ArriveEffect DEF AddToCart
  <1>2. ASSUME NEW s \in Skus, CheckCart(r, b, s) PROVE IInv'
    BY <1>2, ArriveEffect DEF CheckCart
  <1>3. ASSUME NEW u \in Users, Login(r, b, u) PROVE IInv'
    BY <1>3, ArriveEffect DEF Login, CombineLabel
  <1> QED
    BY <1>1, <1>2, <1>3 DEF Submit

-----------------------------------------------------------------------------
(* Outside a transaction. *)

\* A request that is not in a transaction has written nothing.
LEMMA NothingWritten ==
  ASSUME IInv, NEW r \in Requests, req[r].pc \notin InTransaction
  PROVE  req[r].tx = {}
  BY DEF IInv, Good, WritesKnown

\* A request without writes ends.
LEMMA EndStep ==
  ASSUME IInv, NEW r \in Requests, Done(r), Ids(req[r].tx) \subseteq Ids(rows),
         UNCHANGED <<rows, hash>>
  PROVE  IInv'
  BY DoneEffect, LocalStep

\* The answer with a cookie.
LEMMA SetCookieStep ==
  ASSUME IInv, NEW r \in Requests, SetCookie(r) PROVE IInv'
  BY NothingWritten, EndStep DEF SetCookie, InTransaction, Ids

\* The answers of checkCart and login.
LEMMA ShowStep ==
  ASSUME IInv, NEW r \in Requests, ShowCart(r) \/ SetToken(r) PROVE IInv'
  BY NothingWritten, EndStep DEF ShowCart, SetToken, InTransaction, Ids

\* What isCartExists finds is in the table.
LEMMA IsCartExistsStep ==
  ASSUME IInv, NEW r \in Requests, IsCartExists(r) PROVE IInv'
  <1> DEFINE match == OfSku(OfUser(rows, HomeUser), req[r].item.skuId)
  <1>1. req[r].tx = {}
    BY NothingWritten DEF IsCartExists, InTransaction
  <1>2. CASE req' = [req EXCEPT ![r].pc = "write", ![r].found = match]
    <2>1. /\ OnlyRequest(r) /\ req'[r].pc = "write" /\ req'[r].found = match
          /\ req'[r].user = req[r].user /\ req'[r].kind = req[r].kind /\ req'[r].base = req[r].base
          /\ req'[r].tx = req[r].tx /\ req'[r].list = req[r].list
      <3> HIDE DEF match
      <3> QED
        BY <1>2, SetFound
    <2>3. HaveIds(match) /\ Ids(match) \subseteq Ids(rows)
      BY DEF IInv, HaveIds, Ids, OfSku, OfUser
    <2>4. Good(req'[r], Ids(rows))
      BY <1>1, <2>1, <2>3 DEF IInv, Good, ReadsKnown, WritesKnown, ListKnown, HaveIds, Ids
    <2> QED
      BY <2>1, <2>4, <1>1, LocalStep DEF IsCartExists, Ids
  <1>3. CASE Done(r)
    BY <1>1, <1>3, EndStep DEF IsCartExists, Ids
  <1> QED
    BY <1>2, <1>3 DEF IsCartExists

\* A row that gets more pieces keeps its id.
LEMMA MorePiecesIds ==
  ASSUME NEW S, HaveIds(S), NEW line
  PROVE  HaveIds(MorePieces(S, line)) /\ Ids(MorePieces(S, line)) \subseteq Ids(S)
  <1>1. ASSUME NEW x \in S, NEW y, y = [x EXCEPT !.skuNum = @ + line.skuNum]
        PROVE  "id" \in DOMAIN y /\ y.id = x.id
    BY <1>1 DEF HaveIds
  <1> QED
    BY <1>1 DEF HaveIds, Ids, MorePieces

\* updateCart changes rows that there are: found is part of the table.
LEMMA UpdateCartStep ==
  ASSUME IInv, NEW r \in Requests, UpdateCart(r) PROVE IInv'
  <1> DEFINE new == MorePieces(req[r].found, req[r].item)
  <1>1. req[r].tx = {} /\ Good(req[r], Ids(rows)) /\ HaveIds(rows)
    BY NothingWritten DEF IInv, UpdateCart, InTransaction
  <1>2. HaveIds(new) /\ Ids(new) \subseteq Ids(req[r].found)
    BY <1>1, MorePiecesIds DEF Good, ReadsKnown
  <1>3. rows' = Overlay(rows, new) /\ Goto(r, "select") /\ UNCHANGED hash
    BY DEF UpdateCart
  <1> HIDE DEF new
  <1>4. Ids(rows') = Ids(rows) /\ HaveIds(rows')
    <2>1. Ids(rows') = Ids(rows) \cup Ids(new) /\ HaveIds(rows')
      BY <1>1, <1>2, <1>3, OverlayIds
    <2> QED
      BY <1>1, <1>2, <2>1 DEF Good, ReadsKnown
  <1>5. OnlyRequest(r) /\ req'[r].pc = "select" /\ SameData(req[r], req'[r])
    BY <1>3, GotoEffect
  <1>6. Good(req'[r], Ids(rows'))
    BY <1>1, <1>4, <1>5 DEF Good, ReadsKnown, WritesKnown, ListKnown, SameData
  <1> QED
    BY <1>1, <1>3, <1>4, <1>5, <1>6, RequestStep DEF IInv, Ids

\* saveCart adds one.
LEMMA SaveCartStep ==
  ASSUME IInv, NEW r \in Requests, SaveCart(r) PROVE IInv'
  <1> DEFINE new == NewRow(nextId, HomeUser, req[r].item)
  <1>1. req[r].tx = {} /\ Good(req[r], Ids(rows)) /\ HaveIds(rows)
    BY NothingWritten DEF IInv, SaveCart, InTransaction
  <1>2. HaveIds({new})
    BY DEF HaveIds, NewRow
  <1>3. rows' = rows \cup {new} /\ Goto(r, "select") /\ UNCHANGED hash
    BY DEF SaveCart
  <1> HIDE DEF new
  <1>4. Ids(rows) \subseteq Ids(rows') /\ HaveIds(rows')
    BY <1>1, <1>2, <1>3 DEF HaveIds, Ids
  <1>5. OnlyRequest(r) /\ req'[r].pc = "select" /\ SameData(req[r], req'[r])
    BY <1>3, GotoEffect
  <1>6. Good(req'[r], Ids(rows'))
    <2>1. Good(req[r], Ids(rows'))
      BY <1>1, <1>4, GoodGrows
    <2> QED
      BY <1>1, <1>5, <2>1 DEF Good, ReadsKnown, WritesKnown, ListKnown, SameData
  <1> QED
    BY <1>1, <1>3, <1>4, <1>5, <1>6, RequestStep DEF IInv, Ids

-----------------------------------------------------------------------------
(* Inside a transaction. *)

\* The rows that updateCartCheck changes are in the table.
LEMMA UpdateCartCheckStep ==
  ASSUME IInv, NEW r \in Requests, UpdateCartCheck(r) PROVE IInv'
  <1> DEFINE new == {[x EXCEPT !.isChecked = req[r].item.isChecked] :
                        x \in OfSku(OfUser(rows, req[r].user), req[r].item.skuId)}
  <1>1. req[r].pc = "update" /\ req[r].tx = {} /\ Good(req[r], Ids(rows))
    BY NothingWritten DEF IInv, UpdateCartCheck, InTransaction
  <1>2. HaveIds(new) /\ Ids(new) \subseteq Ids(rows)
    BY DEF IInv, HaveIds, Ids, OfSku, OfUser
  <1>3. req' = [req EXCEPT ![r].pc = "select", ![r].tx = new] /\ UNCHANGED <<rows, hash>>
    BY DEF UpdateCartCheck
  <1> HIDE DEF new
  <1>4. /\ OnlyRequest(r) /\ req'[r].pc = "select" /\ req'[r].tx = new
        /\ req'[r].user = req[r].user /\ req'[r].kind = req[r].kind /\ req'[r].found = req[r].found
        /\ req'[r].base = req[r].base /\ req'[r].list = req[r].list
    BY <1>3, SetTx
  <1>5. Good(req'[r], Ids(rows))
    BY <1>1, <1>2, <1>4 DEF Good, ReadsKnown, WritesKnown, ListKnown, InTransaction, Ids
  <1> QED
    BY <1>1, <1>3, <1>4, <1>5, LocalStep DEF Ids

\* The snapshot of combineCart is the table of that moment.
LEMMA BeginCombineStep ==
  ASSUME IInv, NEW r \in Requests, BeginCombine(r) PROVE IInv'
  <1>1. /\ req[r].pc = "begin" /\ req[r].tx = {}
        /\ Good(req[r], Ids(rows)) /\ HaveIds(rows)
    BY NothingWritten DEF IInv, BeginCombine, InTransaction
  <1>2. CASE req' = [req EXCEPT ![r].pc = "merge", ![r].base = rows]
    <2>1. /\ OnlyRequest(r) /\ req'[r].pc = "merge" /\ req'[r].base = rows
          /\ req'[r].user = req[r].user /\ req'[r].kind = req[r].kind /\ req'[r].found = req[r].found
          /\ req'[r].tx = req[r].tx /\ req'[r].list = req[r].list
      BY <1>2, SetBase
    <2>2. Good(req'[r], Ids(rows))
      BY <1>1, <2>1 DEF Good, ReadsKnown, WritesKnown, ListKnown, Ids
    <2> QED
      BY <1>1, <2>1, <2>2, LocalStep DEF BeginCombine, Ids
  <1>3. CASE Done(r)
    BY <1>1, <1>3, EndStep DEF BeginCombine, Ids
  <1> QED
    BY <1>2, <1>3 DEF BeginCombine

\* A cookie line changes a row of the snapshot, or becomes a row of the user.
LEMMA MergeLinesStep ==
  ASSUME IInv, NEW r \in Requests, MergeLines(r) PROVE IInv'
  <1> DEFINE q       == req[r]
             fresh   == {l \in q.sent : Matching(q.base, l) = {}}
             updates == UNION {MorePieces(Matching(q.base, l), l) : l \in q.sent}
             ids     == nextId .. (nextId + Cardinality(fresh) - 1)
             order   == CHOOSE f \in [fresh -> ids] : IsInjective(f)
             inserts == {NewRow(order[l], q.user, l) : l \in fresh}
  <1>1. q.pc = "merge" /\ q.tx = {} /\ Good(q, Ids(rows)) /\ q.kind = "login"
    BY NothingWritten DEF IInv, MergeLines, InTransaction, Good, WritesKnown
  <1>2. HaveIds(updates) /\ Ids(updates) \subseteq Ids(rows)
    <2>1. HaveIds(q.base) /\ Ids(q.base) \subseteq Ids(rows)
      BY <1>1 DEF Good, ReadsKnown
    <2>2. ASSUME NEW l
          PROVE  /\ HaveIds(MorePieces(Matching(q.base, l), l))
                 /\ Ids(MorePieces(Matching(q.base, l), l)) \subseteq Ids(rows)
      <3> DEFINE M == Matching(q.base, l)
      <3>1. HaveIds(M) /\ Ids(M) \subseteq Ids(rows)
        BY <2>1 DEF Matching, OfSku, HaveIds, Ids
      <3> HIDE DEF M
      <3>2. HaveIds(MorePieces(M, l)) /\ Ids(MorePieces(M, l)) \subseteq Ids(rows)
        BY <3>1, MorePiecesIds
      <3> QED
        BY <3>2 DEF M
    <2> QED
      BY <2>2 DEF HaveIds, Ids
  <1>3. HaveIds(inserts) /\ \A w \in inserts : w.userId = q.user
    <2> HIDE DEF order, q
    <2> QED
      BY DEF NewRow, HaveIds
  <1>4. req' = [req EXCEPT ![r].pc = "select", ![r].tx = updates \cup inserts]
        /\ UNCHANGED <<rows, hash>>
    BY DEF MergeLines
  <1> HIDE DEF fresh, updates, ids, order, inserts
  <1>5. /\ OnlyRequest(r) /\ req'[r].pc = "select" /\ req'[r].tx = updates \cup inserts
        /\ req'[r].user = q.user /\ req'[r].kind = q.kind /\ req'[r].found = q.found
        /\ req'[r].base = q.base /\ req'[r].list = q.list
    BY <1>4, SetTx
  <1>6. Good(req'[r], Ids(rows))
    <2>1. ReadsKnown(req'[r], Ids(rows)) /\ ListKnown(req'[r], Ids(rows))
      BY <1>1, <1>5 DEF Good, ReadsKnown, ListKnown, Ids
    <2>2. WritesKnown(req'[r], Ids(rows))
      BY <1>1, <1>2, <1>3, <1>5 DEF WritesKnown, InTransaction, HaveIds, Ids
    <2> QED
      BY <2>1, <2>2 DEF Good
  <1> QED
    BY <1>1, <1>4, <1>5, <1>6, LocalStep DEF Ids

\* The rows that syncCache reads.  An insert of the transaction is among them, so that
\* without rows there are no inserts.
LEMMA SelectRowsStep ==
  ASSUME IInv, NEW r \in Requests, SelectRows(r) PROVE IInv'
  <1> DEFINE q    == req[r]
             base == IF q.kind = "login" /\ q.sent # {} THEN q.base ELSE rows
             list == OfUser(Overlay(base, q.tx), q.user)
  <1>1. Good(q, Ids(rows)) /\ HaveIds(rows)
    BY DEF IInv
  <1>2. HaveIds(base) /\ Ids(base) \subseteq Ids(rows)
    BY <1>1 DEF Good, ReadsKnown
  <1>3. req' = [req EXCEPT ![r].pc = "del", ![r].list = list] /\ UNCHANGED <<rows, hash>>
    BY DEF SelectRows
  <1> HIDE DEF base
  <1>4. \A x \in list : x.userId = q.user /\ x.id \in Ids(rows) \cup Ids(q.tx)
    BY <1>2 DEF OfUser, Overlay, Ids
  <1>5. list = {} => Ids(q.tx) \subseteq Ids(rows)
    BY <1>1 DEF Good, WritesKnown, OfUser, Overlay, Ids
  <1> HIDE DEF list
  <1>6. /\ OnlyRequest(r) /\ req'[r].pc = "del" /\ req'[r].list = list
        /\ req'[r].user = q.user /\ req'[r].kind = q.kind /\ req'[r].found = q.found
        /\ req'[r].base = q.base /\ req'[r].tx = q.tx
    BY <1>3, SetList
  <1>7. Good(req'[r], Ids(rows))
    BY <1>1, <1>4, <1>5, <1>6 DEF Good, ReadsKnown, WritesKnown, ListKnown, InTransaction
  <1> QED
    BY <1>3, <1>6, <1>7, LocalStep

\* The hash is deleted.
LEMMA DelHashStep ==
  ASSUME IInv, NEW r \in Requests, DelHash(r) PROVE IInv'
  <1>1. /\ req[r].pc = "del" /\ Goto(r, "hmset") /\ UNCHANGED rows
        /\ hash' = [hash EXCEPT ![req[r].user] = {}]
    BY DEF DelHash
  <1>2. OnlyRequest(r) /\ req'[r].pc = "hmset" /\ SameData(req[r], req'[r])
    BY <1>1, GotoEffect
  <1>3. Good(req'[r], Ids(rows))
    BY <1>1, <1>2 DEF IInv, Good, ReadsKnown, WritesKnown, ListKnown, SameData, InTransaction
  <1>4. hash' = [u \in Users |-> hash'[u]] /\ \A u \in Users : hash'[u] \subseteq hash[u]
    BY <1>1 DEF IInv
  <1> QED
    BY <1>1, <1>2, <1>3, <1>4, RequestStep DEF IInv, SameData

\* The hash is written, or the transaction is rolled back because its user has no row:
\* then it has inserted none.
LEMMA HmsetHashStep ==
  ASSUME IInv, NEW r \in Requests, HmsetHash(r) PROVE IInv'
  <1> DEFINE q == req[r]
  <1>1. q.pc = "hmset" /\ UNCHANGED rows /\ Good(q, Ids(rows)) /\ HaveIds(rows)
    BY DEF HmsetHash, IInv
  <1>2. CASE q.list # {} /\ hash' = [hash EXCEPT ![q.user] = q.list] /\ Goto(r, "commit")
    <2>1. OnlyRequest(r) /\ req'[r].pc = "commit" /\ SameData(q, req'[r])
      BY <1>2, GotoEffect
    <2>2. Good(req'[r], Ids(rows))
      BY <1>1, <2>1 DEF Good, ReadsKnown, WritesKnown, ListKnown, SameData, InTransaction
    <2>3. /\ hash' = [u \in Users |-> hash'[u]]
          /\ \A u \in Users : hash'[u] = IF u = q.user THEN q.list ELSE hash[u]
      BY <1>2 DEF IInv
    <2>4. \A x \in q.list : x.userId = q.user /\ x.id \in Ids(rows) \cup Ids(q.tx)
      BY <1>1 DEF Good, ListKnown
    <2> QED
      BY <1>1, <2>1, <2>2, <2>3, <2>4, RequestStep DEF SameData
  <1>3. CASE q.list = {} /\ Done(r) /\ UNCHANGED hash
    <2>1. Ids(q.tx) \subseteq Ids(rows)
      BY <1>1, <1>3 DEF Good, ListKnown
    <2> QED
      BY <1>1, <1>3, <2>1, EndStep
  <1> QED
    BY <1>2, <1>3 DEF HmsetHash

\* What was written becomes rows.
LEMMA CommitStep ==
  ASSUME IInv, NEW r \in Requests, Commit(r) PROVE IInv'
  <1> DEFINE q == req[r]
  <1>1. rows' = Overlay(rows, q.tx) /\ UNCHANGED hash /\ Good(q, Ids(rows)) /\ HaveIds(rows)
    BY DEF Commit, IInv
  <1>2. Ids(rows') = Ids(rows) \cup Ids(q.tx) /\ HaveIds(rows')
    BY <1>1, OverlayIds DEF Good, WritesKnown
  <1>3. ASSUME OnlyRequest(r), Good(req'[r], Ids(rows')) PROVE IInv'
    BY <1>1, <1>2, <1>3, RequestStep DEF IInv
  <1>4. CASE Done(r)
    BY <1>3, <1>4, DoneEffect
  <1>5. ASSUME NEW label,
               (label = "show" /\ q.kind = "check") \/ (label = "setToken" /\ q.kind = "login"),
               req' = [req EXCEPT ![r].pc = label, ![r].tx = {}]
        PROVE  IInv'
    <2>1. /\ OnlyRequest(r) /\ req'[r].pc = label /\ req'[r].tx = {}
          /\ req'[r].user = q.user /\ req'[r].kind = q.kind /\ req'[r].found = q.found
          /\ req'[r].base = q.base /\ req'[r].list = q.list
      BY <1>5, SetTx
    <2>2. Good(req'[r], Ids(rows'))
      BY <1>1, <1>2, <1>5, <2>1 DEF Good, ReadsKnown, WritesKnown, ListKnown, HaveIds, Ids
    <2> QED
      BY <1>3, <2>1, <2>2
  <1> QED
    BY <1>4, <1>5 DEF Commit

\* A repeated call goes back to where it began, when nothing of it is uncommitted.
LEMMA RepeatStep ==
  ASSUME IInv, NEW r \in Requests, Repeat(r) PROVE IInv'
  <1>1. Good(req[r], Ids(rows)) /\ UNCHANGED <<rows, hash>>
    BY DEF IInv, Repeat
  <1>2. PICK label :
            /\ Goto(r, label)
            /\ \/ req[r].pc = "write" /\ label = "exists"
               \/ req[r].pc = "select" /\ req[r].kind = "add" /\ label = "write"
               \/ req[r].pc = "show" /\ label = "update"
               \/ req[r].pc = "setToken" /\ label \in {"select", "begin"}
    BY DEF Repeat, CombineLabel
  <1>3. req[r].tx = {} /\ label \notin {"del", "hmset", "show", "merge", "setToken"}
        /\ (label = "update" => req[r].kind = "check")
        /\ (label = "begin" => req[r].kind = "login")
    BY <1>1, <1>2 DEF Good, WritesKnown, InTransaction
  <1>4. OnlyRequest(r) /\ req'[r].pc = label /\ SameData(req[r], req'[r])
    BY <1>2, GotoEffect
  <1>5. Good(req'[r], Ids(rows))
    BY <1>1, <1>3, <1>4
       DEF Good, ReadsKnown, WritesKnown, ListKnown, SameData, HaveIds, Ids
  <1> QED
    BY <1>1, <1>4, <1>5, LocalStep DEF SameData

-----------------------------------------------------------------------------

\* Every step of the specification keeps the invariant.
LEMMA IInvStep == IInv /\ [Next]_vars => IInv'
  <1> SUFFICES ASSUME IInv, [Next]_vars PROVE IInv'
    OBVIOUS
  <1>1. ASSUME NEW r \in Requests, Serve(r) PROVE IInv'
    BY <1>1, SetCookieStep, IsCartExistsStep, UpdateCartStep, SaveCartStep, UpdateCartCheckStep,
       BeginCombineStep, MergeLinesStep, SelectRowsStep, DelHashStep, HmsetHashStep, CommitStep,
       ShowStep DEF Serve
  <1>2. ASSUME NEW r \in Requests, NEW b \in Browsers, Submit(r, b) PROVE IInv'
    BY <1>2, SubmitStep
  <1>3. ASSUME UNCHANGED <<rows, hash, req>> PROVE IInv'
    BY <1>3 DEF IInv, HashHasRows
  <1>4. ASSUME NEW r \in Requests, Repeat(r) PROVE IInv'
    BY <1>4, RepeatStep
  <1> QED
    BY <1>1, <1>2, <1>3, <1>4 DEF Next, Once, SessionEnds, vars

\* A line in the hash belongs to its user and to a row that is in the database, or that a
\* transaction under way has inserted, for any number of requests (syncCache, which writes
\* the hash before its caller commits).
THEOREM HashHasRowsHolds == Spec => []HashHasRows
  <1>1. Init => IInv
    BY InitIInv
  <1>2. IInv /\ [Next]_vars => IInv'
    BY IInvStep
  <1>3. IInv => HashHasRows
    BY DEF IInv
  <1> QED
    BY <1>1, <1>2, <1>3, PTL DEF Spec
-----------------------------------------------------------------------------
(* Types. *)

\* What a request carries is finite.
Finite(q) ==
    /\ IsFiniteSet(q.sent) /\ IsFiniteSet(q.found)
    /\ IsFiniteSet(q.base) /\ IsFiniteSet(q.tx)

\* Only addToCart posts pieces, one at a time; only a user's request reaches the database.
KindKnown(q) ==
    /\ q.item.skuNum = 1
    /\ q.pc = "setCookie" => q.kind \in {"addCookie", "checkCookie"}
    /\ q.pc \in {"exists", "write"} => q.kind = "add"
    /\ q.pc \in {"update", "show"} => q.kind = "check"
    /\ q.pc \in {"begin", "merge", "setToken"} => q.kind = "login"
    /\ q.pc \notin {"idle", "setCookie"} => q.user \in Users

\* The requests whose pieces have been counted and may be taken back.
Adds(q) == q.kind = "add" /\ q.pc # "idle"
Adding  == {r \in Requests : Adds(req[r])}

TypeInv ==
    /\ TypeOK
    /\ IsFiniteSet(rows)
    /\ \A b \in Browsers : IsFiniteSet(cookie[b])
    /\ \A r \in Requests : Finite(req[r]) /\ KindKnown(req[r])
    /\ IsFiniteSet(Adding) /\ Cardinality(Adding) <= posted

\* The image of a finite set is finite.
LEMMA FiniteImage ==
  ASSUME NEW S, IsFiniteSet(S), NEW f, DOMAIN f = S
  PROVE  IsFiniteSet({f[x] : x \in S})
  <1> DEFINE T == {f[x] : x \in S}
  <1>1. \E g : g \in Surjection(S, T)
    <2>1. [x \in S |-> f[x]] \in Surjection(S, T)
      BY DEF Surjection
    <2> QED
      BY <2>1
  <1> HIDE DEF T
  <1>2. IsFiniteSet(T)
    BY <1>1, FS_Surjection
  <1> QED
    BY <1>2 DEF T

\* A request that is not there is one that could be.
LEMMA NoRequestIsRequest ==
  NoRequest \in Request /\ Finite(NoRequest) /\ KindKnown(NoRequest) /\ ~Adds(NoRequest)
  <1>1. AnyItem \in Line /\ AnyItem.skuNum = 1
    BY SomethingToBuy DEF AnyItem, Line
  <1>2. (CHOOSE b \in Browsers : TRUE) \in Browsers
    BY SomethingToBuy
  <1> QED
    BY <1>1, <1>2, FS_EmptySet
       DEF NoRequest, NewRequest, Request, Labels, Kinds, Finite, KindKnown, Adds

\* The types hold of empty carts.
LEMMA InitTypeInv == Init => TypeInv
  <1> SUFFICES ASSUME Init PROVE TypeInv
    OBVIOUS
  <1>1. \A r \in Requests : req[r] = NoRequest
    BY DEF Init
  <1>2. Adding = {}
    BY <1>1, NoRequestIsRequest DEF Adding
  <1>3. TypeOK
    BY NoRequestIsRequest, CartBounds DEF Init, TypeOK
  <1> QED
    BY <1>1, <1>2, <1>3, NoRequestIsRequest, FS_EmptySet DEF TypeInv, Init

-----------------------------------------------------------------------------
\* What a step of request r has to show for the types.
LEMMA TypeStep ==
  ASSUME TypeInv, NEW r \in Requests, NEW p \in Request, req' = [req EXCEPT ![r] = p],
         Finite(p), KindKnown(p), Adds(p) => Adds(req[r]),
         rows' \subseteq Row, IsFiniteSet(rows'), nextId' \in Nat,
         hash' \in [Users -> SUBSET Row], repeated' \in 0..MaxRepeats,
         UNCHANGED <<cookie, session, posted>>
  PROVE  TypeInv'
  <1>1. TypeOK'
    BY DEF TypeInv, TypeOK
  <1>2. \A s \in Requests : req'[s] = IF s = r THEN p ELSE req[s]
    BY DEF TypeInv, TypeOK
  <1>3. \A s \in Requests : Finite(req'[s]) /\ KindKnown(req'[s])
    BY <1>2 DEF TypeInv
  <1>4. Adding' \subseteq Adding
    BY <1>2 DEF Adding
  <1>5. IsFiniteSet(Adding') /\ Cardinality(Adding') <= posted'
    <2>1. IsFiniteSet(Adding') /\ Cardinality(Adding') <= Cardinality(Adding)
      BY <1>4, FS_Subset DEF TypeInv
    <2>2. Cardinality(Adding') \in Nat /\ Cardinality(Adding) \in Nat /\ posted \in Nat
      BY <2>1, FS_CardinalityType DEF TypeInv, TypeOK
    <2> QED
      BY <2>1, <2>2 DEF TypeInv
  <1> QED
    BY <1>1, <1>3, <1>5 DEF TypeInv

\* The same when only the request changes.
LEMMA TypeLocal ==
  ASSUME TypeInv, NEW r \in Requests, NEW p \in Request, req' = [req EXCEPT ![r] = p],
         Finite(p), KindKnown(p), Adds(p) => Adds(req[r]),
         UNCHANGED <<rows, nextId, hash, cookie, session, posted>>,
         repeated' \in 0..MaxRepeats
  PROVE  TypeInv'
  <1>1. /\ rows' \subseteq Row /\ IsFiniteSet(rows') /\ nextId' \in Nat
        /\ hash' \in [Users -> SUBSET Row]
    BY DEF TypeInv, TypeOK
  <1> QED
    BY <1>1, TypeStep

\* A request that ends, with what its answer changes in the browser.
LEMMA TypeDone ==
  ASSUME TypeInv, NEW r \in Requests, Done(r), UNCHANGED <<rows, nextId, posted, repeated>>,
         hash' \in [Users -> SUBSET Row], cookie' \in [Browsers -> SUBSET Line],
         \A b \in Browsers : IsFiniteSet(cookie'[b]),
         session' \in [Browsers -> Users \cup {Guest}]
  PROVE  TypeInv'
  <1>1. \A s \in Requests : req'[s] = IF s = r THEN NoRequest ELSE req[s]
    BY DEF TypeInv, TypeOK, Done
  <1>2. TypeOK'
    BY NoRequestIsRequest DEF TypeInv, TypeOK, Done
  <1>3. Adding' \subseteq Adding
    BY <1>1, NoRequestIsRequest DEF Adding
  <1>4. IsFiniteSet(Adding') /\ Cardinality(Adding') <= posted'
    <2>1. IsFiniteSet(Adding') /\ Cardinality(Adding') <= Cardinality(Adding)
      BY <1>3, FS_Subset DEF TypeInv
    <2>2. Cardinality(Adding') \in Nat /\ Cardinality(Adding) \in Nat /\ posted \in Nat
      BY <2>1, FS_CardinalityType DEF TypeInv, TypeOK
    <2> QED
      BY <2>1, <2>2 DEF TypeInv
  <1> QED
    BY <1>1, <1>2, <1>4, NoRequestIsRequest DEF TypeInv

\* A request that moves on to a label of its kind.
MayGoto(q, label) ==
    /\ label \in Labels \ {"idle", "setCookie"}
    /\ label \in {"exists", "write"} => q.kind = "add"
    /\ label \in {"update", "show"} => q.kind = "check"
    /\ label \in {"begin", "merge", "setToken"} => q.kind = "login"
    /\ q.pc \notin {"idle", "setCookie"}

\* A request that moves on is a request.
LEMMA GotoIsRequest ==
  ASSUME TypeInv, NEW r \in Requests, NEW label, MayGoto(req[r], label)
  PROVE  LET p == [req[r] EXCEPT !.pc = label] IN
         /\ p \in Request /\ Finite(p) /\ KindKnown(p) /\ (Adds(p) => Adds(req[r]))
         /\ (Goto(r, label) => req' = [req EXCEPT ![r] = p])
  <1> DEFINE p == [req[r] EXCEPT !.pc = label]
  <1>1. req[r] \in Request /\ Finite(req[r]) /\ KindKnown(req[r])
    BY DEF TypeInv, TypeOK
  <1>2. p \in Request
    BY <1>1 DEF Request, MayGoto
  <1>3. Finite(p) /\ KindKnown(p) /\ (Adds(p) => Adds(req[r]))
    BY <1>1 DEF Request, Finite, KindKnown, Adds, MayGoto
  <1>4. Goto(r, label) => req' = [req EXCEPT ![r] = p]
    BY DEF Goto, TypeInv, TypeOK
  <1> QED
    BY <1>2, <1>3, <1>4

-----------------------------------------------------------------------------
(* Requests come and go. *)

\* What a new request has to be.
LEMMA TypeArrive ==
  ASSUME TypeInv, NEW r \in Requests, NEW b \in Browsers, NEW kind \in Kinds,
         NEW user \in Users \cup {Guest}, NEW item \in Line, NEW label \in Labels,
         Arrive(r, b, kind, user, item, label), UNCHANGED repeated,
         item.skuNum = 1,
         label = "setCookie" => kind \in {"addCookie", "checkCookie"},
         label \in {"exists", "write"} => kind = "add",
         label \in {"update", "show"} => kind = "check",
         label \in {"begin", "merge", "setToken"} => kind = "login",
         label \notin {"idle", "setCookie"} => user \in Users,
         posted' \in Nat,
         IF kind = "add" THEN posted' = posted + 1 ELSE posted' >= posted
  PROVE  TypeInv'
  <1> DEFINE p == NewRequest(label, kind, b, user, item, cookie[b])
  <1>1. /\ req' = [req EXCEPT ![r] = p] /\ req[r].pc = "idle"
        /\ UNCHANGED <<rows, nextId, hash, cookie, session>>
    BY DEF Arrive
  <1>2. cookie[b] \subseteq Line /\ IsFiniteSet(cookie[b])
    BY DEF TypeInv, TypeOK
  <1>3. p \in Request
    BY <1>2 DEF NewRequest, Request
  <1>4. Finite(p) /\ KindKnown(p) /\ p.kind = kind
    BY <1>2, FS_EmptySet DEF NewRequest, Finite, KindKnown
  <1> HIDE DEF p
  <1>5. \A s \in Requests : req'[s] = IF s = r THEN p ELSE req[s]
    BY <1>1 DEF TypeInv, TypeOK
  <1>6. TypeOK'
    BY <1>1, <1>3 DEF TypeInv, TypeOK
  <1>7. Cardinality(Adding) \in Nat /\ posted \in Nat /\ IsFiniteSet(Adding)
    BY FS_CardinalityType DEF TypeInv, TypeOK
  <1>8. IsFiniteSet(Adding') /\ Cardinality(Adding') <= posted'
    <2>1. CASE kind = "add"
      <3>1. Adding' \subseteq Adding \cup {r}
        BY <1>5 DEF Adding, Adds
      <3>2. /\ IsFiniteSet(Adding \cup {r})
            /\ Cardinality(Adding \cup {r}) <= Cardinality(Adding) + 1
            /\ Cardinality(Adding \cup {r}) \in Nat
        <4> DEFINE S == Adding
        <4>1. IsFiniteSet(S) /\ Cardinality(S) \in Nat
          BY <1>7
        <4> HIDE DEF S
        <4>2. /\ IsFiniteSet(S \cup {r})
              /\ Cardinality(S \cup {r}) = IF r \in S THEN Cardinality(S) ELSE Cardinality(S) + 1
          BY <4>1, FS_AddElement
        <4>3. Cardinality(S \cup {r}) <= Cardinality(S) + 1 /\ Cardinality(S \cup {r}) \in Nat
          BY <4>1, <4>2
        <4> QED
          BY <4>2, <4>3 DEF S
      <3>3. IsFiniteSet(Adding') /\ Cardinality(Adding') <= Cardinality(Adding \cup {r})
            /\ Cardinality(Adding') \in Nat
        BY <3>1, <3>2, FS_Subset, FS_CardinalityType
      <3>4. Cardinality(Adding) <= posted /\ posted' = posted + 1
        BY <2>1 DEF TypeInv
      <3> QED
        BY <1>7, <3>2, <3>3, <3>4
    <2>2. CASE kind # "add"
      <3>1. Adding' \subseteq Adding
        BY <1>4, <1>5, <2>2 DEF Adding, Adds
      <3>2. IsFiniteSet(Adding') /\ Cardinality(Adding') <= Cardinality(Adding)
            /\ Cardinality(Adding') \in Nat
        BY <1>7, <3>1, FS_Subset, FS_CardinalityType
      <3>3. Cardinality(Adding) <= posted /\ posted' >= posted
        BY <2>2 DEF TypeInv
      <3> QED
        BY <1>7, <3>2, <3>3
    <2> QED
      BY <2>1, <2>2
  <1> QED
    BY <1>1, <1>4, <1>5, <1>6, <1>8 DEF TypeInv

\* A request arrives.
LEMMA TypeSubmit ==
  ASSUME TypeInv, NEW r \in Requests, NEW b \in Browsers, Once(Submit(r, b))
  PROVE  TypeInv'
  <1>1. session[b] \in Users \cup {Guest} /\ posted \in Nat
    BY DEF TypeInv, TypeOK
  <1>2. ASSUME NEW s \in Skus, AddToCart(r, b, s) PROVE TypeInv'
    <2> DEFINE item == [skuId |-> s, skuNum |-> 1, isChecked |-> TRUE]
    <2>1. item \in Line /\ item.skuNum = 1
      BY DEF Line
    <2> HIDE DEF item
    <2>2. /\ posted' = posted + 1
          /\ IF session[b] = Guest
             THEN Arrive(r, b, "addCookie", Guest, item, "setCookie")
             ELSE Arrive(r, b, "add", session[b], item, "exists")
      BY <1>2 DEF AddToCart, item
    <2> QED
      BY <1>1, <2>1, <2>2, TypeArrive DEF Once, Kinds, Labels
  <1>3. ASSUME NEW s \in Skus, CheckCart(r, b, s) PROVE TypeInv'
    <2>1. PICK checked \in BOOLEAN :
             LET item == [skuId |-> s, skuNum |-> 1, isChecked |-> checked] IN
             /\ IF session[b] = Guest
                THEN Arrive(r, b, "checkCookie", Guest, item, "setCookie")
                ELSE Arrive(r, b, "check", session[b], item, "update")
             /\ UNCHANGED posted
      BY <1>3 DEF CheckCart
    <2> DEFINE item == [skuId |-> s, skuNum |-> 1, isChecked |-> checked]
    <2>2. item \in Line /\ item.skuNum = 1
      BY DEF Line
    <2> HIDE DEF item
    <2>3. /\ UNCHANGED posted
          /\ IF session[b] = Guest
             THEN Arrive(r, b, "checkCookie", Guest, item, "setCookie")
             ELSE Arrive(r, b, "check", session[b], item, "update")
      BY <2>1 DEF item
    <2> QED
      BY <1>1, <2>2, <2>3, TypeArrive DEF Once, Kinds, Labels
  <1>4. ASSUME NEW u \in Users, Login(r, b, u) PROVE TypeInv'
    <2>1. AnyItem \in Line /\ AnyItem.skuNum = 1
      BY SomethingToBuy DEF AnyItem, Line
    <2>2. CombineLabel(cookie[b]) \in {"select", "begin"}
      BY DEF CombineLabel
    <2>3. Arrive(r, b, "login", u, AnyItem, CombineLabel(cookie[b])) /\ UNCHANGED posted
      BY <1>4 DEF Login
    <2> QED
      BY <1>1, <2>1, <2>2, <2>3, TypeArrive DEF Once, Kinds, Labels
  <1> QED
    BY <1>2, <1>3, <1>4 DEF Submit, Once

\* The cookie of the answer.
LEMMA TypeSetCookie ==
  ASSUME TypeInv, NEW r \in Requests, SetCookie(r), UNCHANGED repeated PROVE TypeInv'
  <1> DEFINE q    == req[r]
             more == [l \in q.sent |-> IF l.skuId = q.item.skuId
                                       THEN [l EXCEPT !.skuNum = @ + q.item.skuNum] ELSE l]
             mark == [l \in q.sent |-> IF l.skuId = q.item.skuId
                                       THEN [l EXCEPT !.isChecked = q.item.isChecked] ELSE l]
  <1>1. q \in Request /\ IsFiniteSet(q.sent)
    BY DEF TypeInv, TypeOK, Finite
  <1>2. q.sent \subseteq Line /\ q.item \in Line /\ q.browser \in Browsers
    BY <1>1 DEF Request
  <1>12. IsFiniteSet(q.sent)
    BY <1>1
  <1> HIDE DEF q
  <1>3. PutLine(q.sent, q.item) \subseteq Line /\ IsFiniteSet(PutLine(q.sent, q.item))
    <2>1. \A l \in q.sent : more[l] \in Line
      BY <1>2 DEF Line
    <2>2. IsFiniteSet({more[l] : l \in q.sent})
      <3>1. DOMAIN more = q.sent
        OBVIOUS
      <3> HIDE DEF more
      <3> QED
        BY <1>12, <3>1, FiniteImage
    <2>3. {more[l] : l \in q.sent} =
            {IF l.skuId = q.item.skuId THEN [l EXCEPT !.skuNum = @ + q.item.skuNum] ELSE l : l \in q.sent}
      OBVIOUS
    <2>4. IsFiniteSet(q.sent \cup {q.item})
      BY <1>1, FS_AddElement
    <2> QED
      BY <1>2, <2>1, <2>2, <2>3, <2>4 DEF PutLine
  <1>4. CheckLine(q.sent, q.item) \subseteq Line /\ IsFiniteSet(CheckLine(q.sent, q.item))
    <2>1. \A l \in q.sent : mark[l] \in Line
      BY <1>2 DEF Line
    <2>2. IsFiniteSet({mark[l] : l \in q.sent})
      <3>1. DOMAIN mark = q.sent
        OBVIOUS
      <3> HIDE DEF mark
      <3> QED
        BY <1>12, <3>1, FiniteImage
    <2>3. {mark[l] : l \in q.sent} = CheckLine(q.sent, q.item)
      BY DEF CheckLine
    <2> QED
      BY <2>1, <2>2, <2>3
  <1>5. PICK lines :
            /\ lines \subseteq Line /\ IsFiniteSet(lines)
            /\ cookie' = [cookie EXCEPT ![q.browser] = lines]
    BY <1>3, <1>4 DEF SetCookie, q
  <1>6. Done(r) /\ UNCHANGED <<rows, nextId, hash, session, posted>>
    BY DEF SetCookie
  <1>7. /\ cookie' \in [Browsers -> SUBSET Line] /\ \A b \in Browsers : IsFiniteSet(cookie'[b])
        /\ hash' \in [Users -> SUBSET Row] /\ session' \in [Browsers -> Users \cup {Guest}]
    BY <1>2, <1>5, <1>6 DEF TypeInv, TypeOK
  <1> QED
    BY <1>6, <1>7, TypeDone

-----------------------------------------------------------------------------
(* The database. *)

\* Rows that are written are rows.
LEMMA OverlayRows ==
  ASSUME NEW base, NEW writes, base \subseteq Row, writes \subseteq Row,
         IsFiniteSet(base), IsFiniteSet(writes)
  PROVE  Overlay(base, writes) \subseteq Row /\ IsFiniteSet(Overlay(base, writes))
  <1>1. IsFiniteSet(base \cup writes)
    BY FS_Union
  <1>2. Overlay(base, writes) \subseteq base \cup writes
    BY DEF Overlay
  <1>3. IsFiniteSet(Overlay(base, writes))
    BY <1>1, <1>2, FS_Subset
  <1> QED
    BY <1>2, <1>3

\* Rows with more pieces are as many rows.
LEMMA MorePiecesRows ==
  ASSUME NEW S, S \subseteq Row, IsFiniteSet(S), NEW line \in Line
  PROVE  MorePieces(S, line) \subseteq Row /\ IsFiniteSet(MorePieces(S, line))
  <1> DEFINE f == [x \in S |-> [x EXCEPT !.skuNum = @ + line.skuNum]]
  <1>1. MorePieces(S, line) \subseteq Row
    BY DEF MorePieces, Row, Line
  <1>2. MorePieces(S, line) = {f[x] : x \in S} /\ DOMAIN f = S
    BY DEF MorePieces
  <1> HIDE DEF f
  <1>3. IsFiniteSet(MorePieces(S, line))
    BY <1>2, FiniteImage
  <1> QED
    BY <1>1, <1>3

\* A request sets one of its sets and moves on.
LEMMA SetsIsRequest ==
  ASSUME TypeInv, NEW r \in Requests, NEW label, MayGoto(req[r], label),
         NEW v, v \subseteq Row, IsFiniteSet(v)
  PROVE  /\ \A p \in {[req[r] EXCEPT !.pc = label, !.found = v], [req[r] EXCEPT !.pc = label, !.base = v],
                      [req[r] EXCEPT !.pc = label, !.tx = v], [req[r] EXCEPT !.pc = label, !.list = v]} :
             p \in Request /\ Finite(p) /\ KindKnown(p) /\ (Adds(p) => Adds(req[r]))
  <1>1. req[r] \in Request /\ Finite(req[r]) /\ KindKnown(req[r])
    BY DEF TypeInv, TypeOK
  <1>2. ASSUME NEW p, p = [req[r] EXCEPT !.pc = label, !.found = v]
        PROVE  p \in Request /\ Finite(p) /\ KindKnown(p) /\ (Adds(p) => Adds(req[r]))
    <2>1. p \in Request
      BY <1>1, <1>2 DEF Request, MayGoto
    <2> QED
      BY <1>1, <1>2, <2>1 DEF Request, Finite, KindKnown, Adds, MayGoto
  <1>3. ASSUME NEW p, p = [req[r] EXCEPT !.pc = label, !.base = v]
        PROVE  p \in Request /\ Finite(p) /\ KindKnown(p) /\ (Adds(p) => Adds(req[r]))
    <2>1. p \in Request
      BY <1>1, <1>3 DEF Request, MayGoto
    <2> QED
      BY <1>1, <1>3, <2>1 DEF Request, Finite, KindKnown, Adds, MayGoto
  <1>4. ASSUME NEW p, p = [req[r] EXCEPT !.pc = label, !.tx = v]
        PROVE  p \in Request /\ Finite(p) /\ KindKnown(p) /\ (Adds(p) => Adds(req[r]))
    <2>1. p \in Request
      BY <1>1, <1>4 DEF Request, MayGoto
    <2> QED
      BY <1>1, <1>4, <2>1 DEF Request, Finite, KindKnown, Adds, MayGoto
  <1>5. ASSUME NEW p, p = [req[r] EXCEPT !.pc = label, !.list = v]
        PROVE  p \in Request /\ Finite(p) /\ KindKnown(p) /\ (Adds(p) => Adds(req[r]))
    <2>1. p \in Request
      BY <1>1, <1>5 DEF Request, MayGoto
    <2> QED
      BY <1>1, <1>5, <2>1 DEF Request, Finite, KindKnown, Adds, MayGoto
  <1> QED
    BY <1>2, <1>3, <1>4, <1>5

\* What TypeInv says of a request, and of a table that a step leaves alone.
LEMMA TypesNow ==
  ASSUME TypeInv, NEW r \in Requests
  PROVE  /\ req[r] \in Request /\ Finite(req[r]) /\ KindKnown(req[r])
         /\ rows \subseteq Row /\ IsFiniteSet(rows) /\ nextId \in Nat
         /\ hash \in [Users -> SUBSET Row] /\ posted \in Nat /\ repeated \in 0..MaxRepeats
         /\ req[r].item \in Line /\ req[r].sent \subseteq Line /\ req[r].found \subseteq Row
         /\ req[r].base \subseteq Row /\ req[r].tx \subseteq Row /\ req[r].list \subseteq Row
  <1>1. req[r] \in Request
    BY DEF TypeInv, TypeOK
  <1> QED
    BY <1>1 DEF TypeInv, TypeOK, Request

\* isCartExists takes a piece back when selectOne throws: it has been counted.
LEMMA TypeIsCartExists ==
  ASSUME TypeInv, NEW r \in Requests, IsCartExists(r), UNCHANGED repeated PROVE TypeInv'
  <1> DEFINE match == OfSku(OfUser(rows, HomeUser), req[r].item.skuId)
  <1>1. req[r].pc = "exists" /\ req[r].kind = "add" /\ UNCHANGED <<rows, nextId, hash, cookie, session>>
    BY TypesNow DEF IsCartExists, KindKnown
  <1>2. match \subseteq rows
    BY DEF OfSku, OfUser
  <1>3. match \subseteq Row /\ IsFiniteSet(match)
    BY <1>2, TypesNow, FS_Subset
  <1>4. CASE req' = [req EXCEPT ![r].pc = "write", ![r].found = match] /\ UNCHANGED posted
    <2> DEFINE p == [req[r] EXCEPT !.pc = "write", !.found = match]
    <2>1. MayGoto(req[r], "write")
      BY <1>1 DEF MayGoto, Labels
    <2>2. req' = [req EXCEPT ![r] = p]
      BY <1>4 DEF TypeInv, TypeOK
    <2>3. p \in Request /\ Finite(p) /\ KindKnown(p) /\ (Adds(p) => Adds(req[r]))
      <3> HIDE DEF match
      <3> QED
        BY <1>3, <2>1, SetsIsRequest
    <2>4. repeated' \in 0..MaxRepeats
      BY TypesNow
    <2> HIDE DEF p
    <2> QED
      BY <1>1, <1>4, <2>2, <2>3, <2>4, TypeLocal
  <1>5. CASE Done(r) /\ posted' = posted - req[r].item.skuNum
    <2>1. req[r].item.skuNum = 1 /\ r \in Adding
      BY <1>1, TypesNow DEF KindKnown, Adding, Adds
    <2>2. \A s \in Requests : req'[s] = IF s = r THEN NoRequest ELSE req[s]
      BY <1>5 DEF TypeInv, TypeOK, Done
    <2>3. Adding' \subseteq Adding \ {r}
      BY <2>2, NoRequestIsRequest DEF Adding, Adds
    <2>4. /\ IsFiniteSet(Adding \ {r}) /\ Cardinality(Adding \ {r}) = Cardinality(Adding) - 1
          /\ Cardinality(Adding) \in Nat /\ Cardinality(Adding \ {r}) \in Nat
      <3>1. IsFiniteSet(Adding)
        BY DEF TypeInv
      <3> DEFINE S == Adding
      <3> HIDE DEF S
      <3>2. ASSUME IsFiniteSet(S), r \in S
            PROVE  /\ IsFiniteSet(S \ {r}) /\ Cardinality(S \ {r}) = Cardinality(S) - 1
                   /\ Cardinality(S) \in Nat /\ Cardinality(S \ {r}) \in Nat
        <4>1. IsFiniteSet(S \ {r}) /\ Cardinality(S \ {r}) = Cardinality(S) - 1
          BY <3>2, FS_RemoveElement
        <4>2. Cardinality(S) \in Nat /\ Cardinality(S \ {r}) \in Nat
          BY <3>2, <4>1, FS_CardinalityType
        <4> QED
          BY <4>1, <4>2
      <3> QED
        BY <2>1, <3>1, <3>2 DEF S
    <2>5. /\ IsFiniteSet(Adding') /\ Cardinality(Adding') <= Cardinality(Adding \ {r})
          /\ Cardinality(Adding') \in Nat
      <3> DEFINE S == Adding \ {r}
      <3>1. IsFiniteSet(S) /\ Adding' \subseteq S
        BY <2>3, <2>4
      <3> HIDE DEF S
      <3>2. IsFiniteSet(Adding') /\ Cardinality(Adding') <= Cardinality(S)
        BY <3>1, FS_Subset
      <3>3. Cardinality(Adding') \in Nat
        BY <3>2, FS_CardinalityType
      <3> QED
        BY <3>2, <3>3 DEF S
    <2>6. posted \in Nat /\ Cardinality(Adding) <= posted
      BY TypesNow DEF TypeInv
    <2>7. posted' \in Nat /\ Cardinality(Adding') <= posted'
      BY <1>5, <2>1, <2>4, <2>5, <2>6
    <2>8. TypeOK'
      BY <1>1, <1>5, <2>7, NoRequestIsRequest DEF TypeInv, TypeOK, Done
    <2> QED
      BY <1>1, <2>2, <2>5, <2>7, <2>8, NoRequestIsRequest DEF TypeInv
  <1> QED
    BY <1>4, <1>5 DEF IsCartExists

\* updateCart writes back what was found.
LEMMA TypeUpdateCart ==
  ASSUME TypeInv, NEW r \in Requests, UpdateCart(r), UNCHANGED repeated PROVE TypeInv'
  <1> DEFINE new == MorePieces(req[r].found, req[r].item)
             p   == [req[r] EXCEPT !.pc = "select"]
  <1>1. new \subseteq Row /\ IsFiniteSet(new)
    <2>1. IsFiniteSet(req[r].found)
      BY TypesNow DEF Finite
    <2> QED
      BY <2>1, TypesNow, MorePiecesRows
  <1>2. /\ req[r].pc = "write" /\ rows' = Overlay(rows, new) /\ Goto(r, "select")
        /\ UNCHANGED <<nextId, hash, cookie, session, posted>>
    BY DEF UpdateCart
  <1> HIDE DEF new
  <1>3. rows' \subseteq Row /\ IsFiniteSet(rows')
    BY <1>1, <1>2, TypesNow, OverlayRows
  <1>4. MayGoto(req[r], "select")
    BY <1>2 DEF MayGoto, Labels
  <1>5. /\ p \in Request /\ Finite(p) /\ KindKnown(p) /\ (Adds(p) => Adds(req[r]))
        /\ req' = [req EXCEPT ![r] = p]
    BY <1>2, <1>4, GotoIsRequest
  <1> HIDE DEF p
  <1> QED
    BY <1>2, <1>3, <1>5, TypesNow, TypeStep

\* saveCart inserts a row of the home user.
LEMMA TypeSaveCart ==
  ASSUME TypeInv, NEW r \in Requests, SaveCart(r), UNCHANGED repeated PROVE TypeInv'
  <1> DEFINE new == NewRow(nextId, HomeUser, req[r].item)
             p   == [req[r] EXCEPT !.pc = "select"]
  <1>1. new \in Row
    BY TypesNow, UsersAssumption DEF NewRow, Row, Line
  <1>2. /\ req[r].pc = "write" /\ rows' = rows \cup {new} /\ Goto(r, "select") /\ nextId' = nextId + 1
        /\ UNCHANGED <<hash, cookie, session, posted>>
    BY DEF SaveCart
  <1> HIDE DEF new
  <1>3. rows' \subseteq Row /\ IsFiniteSet(rows')
    BY <1>1, <1>2, TypesNow, FS_AddElement
  <1>4. MayGoto(req[r], "select")
    BY <1>2 DEF MayGoto, Labels
  <1>5. /\ p \in Request /\ Finite(p) /\ KindKnown(p) /\ (Adds(p) => Adds(req[r]))
        /\ req' = [req EXCEPT ![r] = p]
    BY <1>2, <1>4, GotoIsRequest
  <1>6. nextId' \in Nat
    BY <1>2, TypesNow
  <1> HIDE DEF p
  <1> QED
    BY <1>2, <1>3, <1>5, <1>6, TypesNow, TypeStep

\* updateCartCheck changes rows of the user.
LEMMA TypeUpdateCartCheck ==
  ASSUME TypeInv, NEW r \in Requests, UpdateCartCheck(r), UNCHANGED repeated PROVE TypeInv'
  <1> DEFINE old == OfSku(OfUser(rows, req[r].user), req[r].item.skuId)
             f   == [x \in old |-> [x EXCEPT !.isChecked = req[r].item.isChecked]]
             new == {[x EXCEPT !.isChecked = req[r].item.isChecked] : x \in old}
             p   == [req[r] EXCEPT !.pc = "select", !.tx = new]
  <1>1. old \subseteq rows
    BY DEF OfSku, OfUser
  <1>2. old \subseteq Row /\ IsFiniteSet(old)
    BY <1>1, TypesNow, FS_Subset
  <1>3. new \subseteq Row
    <2>1. req[r].item.isChecked \in BOOLEAN
      BY TypesNow DEF Line
    <2> HIDE DEF old
    <2> QED
      BY <1>2, <2>1 DEF Row
  <1>4. IsFiniteSet(new)
    <2>1. new = {f[x] : x \in old} /\ DOMAIN f = old
      OBVIOUS
    <2> HIDE DEF f, old, new
    <2> QED
      BY <1>2, <2>1, FiniteImage
  <1>5. /\ req[r].pc = "update" /\ UNCHANGED <<rows, nextId, hash, cookie, session, posted>>
        /\ req' = [req EXCEPT ![r] = p]
    BY DEF UpdateCartCheck, TypeInv, TypeOK
  <1>6. MayGoto(req[r], "select")
    BY <1>5 DEF MayGoto, Labels
  <1>7. p \in Request /\ Finite(p) /\ KindKnown(p) /\ (Adds(p) => Adds(req[r]))
    <2> HIDE DEF new
    <2> QED
      BY <1>3, <1>4, <1>6, SetsIsRequest
  <1> HIDE DEF p
  <1> QED
    BY <1>5, <1>7, TypesNow, TypeLocal

\* The snapshot of combineCart is a table.
LEMMA TypeBeginCombine ==
  ASSUME TypeInv, NEW r \in Requests, BeginCombine(r), UNCHANGED repeated PROVE TypeInv'
  <1> DEFINE p == [req[r] EXCEPT !.pc = "merge", !.base = rows]
  <1>1. req[r].pc = "begin" /\ UNCHANGED <<rows, nextId, hash, cookie, session, posted>>
    BY DEF BeginCombine
  <1>2. CASE req' = [req EXCEPT ![r].pc = "merge", ![r].base = rows]
    <2>1. req' = [req EXCEPT ![r] = p]
      BY <1>2 DEF TypeInv, TypeOK
    <2>2. MayGoto(req[r], "merge")
      BY <1>1, TypesNow DEF MayGoto, Labels, KindKnown
    <2>3. p \in Request /\ Finite(p) /\ KindKnown(p) /\ (Adds(p) => Adds(req[r]))
      BY <2>2, TypesNow, SetsIsRequest
    <2> HIDE DEF p
    <2> QED
      BY <1>1, <2>1, <2>3, TypesNow, TypeLocal
  <1>3. CASE Done(r)
    BY <1>1, <1>3, TypeDone DEF TypeInv, TypeOK
  <1> QED
    BY <1>2, <1>3 DEF BeginCombine

\* There are enough new ids: a finite set can be numbered from any number on.
LEMMA Numbering ==
  ASSUME NEW S, IsFiniteSet(S), NEW n \in Nat
  PROVE  \E f \in [S -> n .. (n + Cardinality(S) - 1)] : IsInjective(f)
  <1>1. Cardinality(S) \in Nat /\ ExistsBijection(1..Cardinality(S), S)
    BY FS_CardinalityType
  <1>2. PICK g : g \in Bijection(1..Cardinality(S), S)
    BY <1>1 DEF ExistsBijection
  <1> DEFINE k == Cardinality(S)
  <1>3. /\ g \in [1..k -> S] /\ \A s \in S : \E i \in 1..k : g[i] = s
        /\ \A i, j \in 1..k : g[i] = g[j] => i = j
    BY <1>2 DEF Bijection, Injection, Surjection, IsInjective
  <1> DEFINE f == [s \in S |-> n + (CHOOSE i \in 1..k : g[i] = s) - 1]
  <1>4. \A s \in S : (CHOOSE i \in 1..k : g[i] = s) \in 1..k /\ g[CHOOSE i \in 1..k : g[i] = s] = s
    BY <1>3
  <1> HIDE DEF k
  <1>5. k \in Nat
    BY <1>1 DEF k
  <1>6. f \in [S -> n .. (n + k - 1)]
    BY <1>4, <1>5
  <1>7. IsInjective(f)
    <2> SUFFICES ASSUME NEW a \in S, NEW b \in S, f[a] = f[b] PROVE a = b
      BY DEF IsInjective
    <2>1. (CHOOSE i \in 1..k : g[i] = a) = (CHOOSE i \in 1..k : g[i] = b)
      BY <1>4, <1>5
    <2> QED
      BY <1>4, <2>1
  <1> QED
    BY <1>6, <1>7 DEF k

\* What a merge writes: fresh and updates of MergeLines, and the numbers of the new rows.
Fresh(q)     == {l \in q.sent : Matching(q.base, l) = {}}
MergeRows(q) == UNION {MorePieces(Matching(q.base, l), l) : l \in q.sent}
MergeIds(q)  == nextId .. (nextId + Cardinality(Fresh(q)) - 1)
MergeOrder(q) == CHOOSE f \in [Fresh(q) -> MergeIds(q)] : IsInjective(f)
MergeNew(q)  == {NewRow(MergeOrder(q)[l], q.user, l) : l \in Fresh(q)}

\* MergeLines in these terms.
LEMMA MergeEffect ==
  ASSUME TypeInv, NEW r \in Requests, MergeLines(r)
  PROVE  /\ req[r].pc = "merge" /\ UNCHANGED <<rows, hash, cookie, session, posted>>
         /\ nextId' = nextId + Cardinality(Fresh(req[r]))
         /\ req' = [req EXCEPT ![r] = [req[r] EXCEPT !.pc = "select",
                                                     !.tx = MergeRows(req[r]) \cup MergeNew(req[r])]]
  BY DEF MergeLines, MergeRows, MergeNew, MergeOrder, MergeIds, Fresh, TypeInv, TypeOK

\* The new rows have new ids, each its own.
LEMMA MergeNumbers ==
  ASSUME TypeInv, NEW r \in Requests
  PROVE  /\ IsFiniteSet(Fresh(req[r])) /\ Cardinality(Fresh(req[r])) \in Nat
         /\ MergeOrder(req[r]) \in [Fresh(req[r]) -> MergeIds(req[r])]
         /\ IsInjective(MergeOrder(req[r]))
  <1>1. Fresh(req[r]) \subseteq req[r].sent /\ IsFiniteSet(req[r].sent)
    BY TypesNow DEF Fresh, Finite
  <1>2. IsFiniteSet(Fresh(req[r])) /\ Cardinality(Fresh(req[r])) \in Nat
    BY <1>1, FS_Subset, FS_CardinalityType
  <1>3. \E f \in [Fresh(req[r]) -> MergeIds(req[r])] : IsInjective(f)
    BY <1>2, TypesNow, Numbering DEF MergeIds
  <1> QED
    BY <1>2, <1>3 DEF MergeOrder

\* The rows that a merge writes are rows.
LEMMA MergeWritesRows ==
  ASSUME TypeInv, NEW r \in Requests, req[r].pc = "merge"
  PROVE  LET tx == MergeRows(req[r]) \cup MergeNew(req[r]) IN tx \subseteq Row /\ IsFiniteSet(tx)
  <1> DEFINE q   == req[r]
             upd == [l \in q.sent |-> MorePieces(Matching(q.base, l), l)]
             ins == [l \in Fresh(q) |-> NewRow(MergeOrder(q)[l], q.user, l)]
  <1>1. /\ q.sent \subseteq Line /\ IsFiniteSet(q.sent) /\ q.base \subseteq Row /\ IsFiniteSet(q.base)
        /\ q.user \in Users /\ nextId \in Nat
    BY TypesNow DEF Finite, KindKnown
  <1>2. /\ IsFiniteSet(Fresh(q)) /\ Cardinality(Fresh(q)) \in Nat
        /\ MergeOrder(q) \in [Fresh(q) -> MergeIds(q)] /\ Fresh(q) \subseteq q.sent
    BY MergeNumbers DEF Fresh
  <1> HIDE DEF q
  <1>3. \A l \in q.sent : upd[l] \subseteq Row /\ IsFiniteSet(upd[l])
    <2> SUFFICES ASSUME NEW l \in q.sent
                 PROVE  /\ MorePieces(Matching(q.base, l), l) \subseteq Row
                        /\ IsFiniteSet(MorePieces(Matching(q.base, l), l))
      OBVIOUS
    <2>1. Matching(q.base, l) \subseteq q.base
      BY DEF Matching, OfSku
    <2>2. Matching(q.base, l) \subseteq Row /\ IsFiniteSet(Matching(q.base, l)) /\ l \in Line
      BY <1>1, <2>1, FS_Subset
    <2> QED
      BY <2>2, MorePiecesRows
  <1>4. MergeRows(q) \subseteq Row /\ IsFiniteSet(MergeRows(q))
    <2>1. MergeRows(q) = UNION {upd[l] : l \in q.sent} /\ DOMAIN upd = q.sent
      BY DEF MergeRows
    <2> HIDE DEF upd
    <2>2. IsFiniteSet({upd[l] : l \in q.sent})
      BY <1>1, <2>1, FiniteImage
    <2>3. IsFiniteSet(UNION {upd[l] : l \in q.sent})
      <3> DEFINE U == {upd[l] : l \in q.sent}
      <3>1. IsFiniteSet(U) /\ \A T \in U : IsFiniteSet(T)
        BY <1>3, <2>2
      <3> HIDE DEF U
      <3>2. IsFiniteSet(UNION U)
        BY <3>1, FS_UNION
      <3> QED
        BY <3>2 DEF U
    <2> QED
      BY <1>3, <2>1, <2>3
  <1>5. MergeNew(q) \subseteq Row /\ IsFiniteSet(MergeNew(q))
    <2>1. MergeNew(q) = {ins[l] : l \in Fresh(q)} /\ DOMAIN ins = Fresh(q)
      BY DEF MergeNew
    <2>2. \A l \in Fresh(q) : MergeOrder(q)[l] \in Nat
      BY <1>1, <1>2 DEF MergeIds
    <2>3. \A l \in Fresh(q) : ins[l] \in Row
      BY <1>1, <1>2, <2>2 DEF NewRow, Row, Line
    <2> HIDE DEF ins
    <2>4. IsFiniteSet({ins[l] : l \in Fresh(q)})
      BY <1>2, <2>1, FiniteImage
    <2> QED
      BY <2>1, <2>3, <2>4
  <1> QED
    BY <1>4, <1>5, FS_Union DEF q

\* combineCart writes rows.
LEMMA TypeMergeLines ==
  ASSUME TypeInv, NEW r \in Requests, MergeLines(r), UNCHANGED repeated PROVE TypeInv'
  <1> DEFINE tx == MergeRows(req[r]) \cup MergeNew(req[r])
             p  == [req[r] EXCEPT !.pc = "select", !.tx = tx]
  <1>1. /\ req[r].pc = "merge" /\ UNCHANGED <<rows, hash, cookie, session, posted>>
        /\ nextId' = nextId + Cardinality(Fresh(req[r])) /\ req' = [req EXCEPT ![r] = p]
    BY MergeEffect
  <1>2. tx \subseteq Row /\ IsFiniteSet(tx)
    BY <1>1, MergeWritesRows
  <1>3. nextId' \in Nat
    BY <1>1, MergeNumbers, TypesNow
  <1>4. MayGoto(req[r], "select")
    BY <1>1 DEF MayGoto, Labels
  <1> HIDE DEF tx
  <1>5. p \in Request /\ Finite(p) /\ KindKnown(p) /\ (Adds(p) => Adds(req[r]))
    BY <1>2, <1>4, SetsIsRequest
  <1> HIDE DEF p
  <1> QED
    BY <1>1, <1>3, <1>5, TypesNow, TypeStep

-----------------------------------------------------------------------------
(* syncCache and the answers. *)

\* syncCache reads rows, deletes the hash and writes them to it.
LEMMA TypeSelectRows ==
  ASSUME TypeInv, NEW r \in Requests, SelectRows(r), UNCHANGED repeated PROVE TypeInv'
  <1> DEFINE q    == req[r]
             base == IF q.kind = "login" /\ q.sent # {} THEN q.base ELSE rows
             list == OfUser(Overlay(base, q.tx), q.user)
             p    == [q EXCEPT !.pc = "del", !.list = list]
  <1>1. /\ q.pc = "select" /\ UNCHANGED <<rows, nextId, hash, cookie, session, posted>>
        /\ req' = [req EXCEPT ![r] = p]
    BY DEF SelectRows, TypeInv, TypeOK
  <1>2. base \subseteq Row /\ IsFiniteSet(base) /\ q.tx \subseteq Row /\ IsFiniteSet(q.tx)
    BY TypesNow DEF Finite
  <1> HIDE DEF base
  <1>3. Overlay(base, q.tx) \subseteq Row /\ IsFiniteSet(Overlay(base, q.tx))
    BY <1>2, OverlayRows
  <1>4. list \subseteq Overlay(base, q.tx)
    BY DEF OfUser
  <1>5. list \subseteq Row /\ IsFiniteSet(list)
    <2> HIDE DEF list
    <2> QED
      BY <1>3, <1>4, FS_Subset
  <1>6. MayGoto(q, "del")
    BY <1>1 DEF MayGoto, Labels
  <1> HIDE DEF list
  <1>7. p \in Request /\ Finite(p) /\ KindKnown(p) /\ (Adds(p) => Adds(req[r]))
    BY <1>5, <1>6, SetsIsRequest
  <1> HIDE DEF p
  <1> QED
    BY <1>1, <1>7, TypesNow, TypeLocal

\* The hash of a user is deleted.
LEMMA TypeDelHash ==
  ASSUME TypeInv, NEW r \in Requests, DelHash(r), UNCHANGED repeated PROVE TypeInv'
  <1> DEFINE p == [req[r] EXCEPT !.pc = "hmset"]
  <1>1. /\ req[r].pc = "del" /\ Goto(r, "hmset") /\ hash' = [hash EXCEPT ![req[r].user] = {}]
        /\ UNCHANGED <<rows, nextId, cookie, session, posted>>
    BY DEF DelHash
  <1>2. hash' \in [Users -> SUBSET Row]
    BY <1>1, TypesNow
  <1>3. MayGoto(req[r], "hmset")
    BY <1>1 DEF MayGoto, Labels
  <1>4. /\ p \in Request /\ Finite(p) /\ KindKnown(p) /\ (Adds(p) => Adds(req[r]))
        /\ req' = [req EXCEPT ![r] = p]
    BY <1>1, <1>3, GotoIsRequest
  <1> HIDE DEF p
  <1> QED
    BY <1>1, <1>2, <1>4, TypesNow, TypeStep

\* The hash of a user is written.
LEMMA TypeHmsetHash ==
  ASSUME TypeInv, NEW r \in Requests, HmsetHash(r), UNCHANGED repeated PROVE TypeInv'
  <1> DEFINE q == req[r]
             p == [q EXCEPT !.pc = "commit"]
  <1>1. q.pc = "hmset" /\ UNCHANGED <<rows, nextId, cookie, session, posted>>
    BY DEF HmsetHash
  <1>2. CASE hash' = [hash EXCEPT ![q.user] = q.list] /\ Goto(r, "commit")
    <2>1. hash' \in [Users -> SUBSET Row]
      BY <1>2, TypesNow
    <2>2. MayGoto(q, "commit")
      BY <1>1 DEF MayGoto, Labels
    <2>3. /\ p \in Request /\ Finite(p) /\ KindKnown(p) /\ (Adds(p) => Adds(req[r]))
          /\ req' = [req EXCEPT ![r] = p]
      BY <1>2, <2>2, GotoIsRequest
    <2> HIDE DEF p
    <2> QED
      BY <1>1, <2>1, <2>3, TypesNow, TypeStep
  <1>3. CASE Done(r) /\ UNCHANGED hash
    BY <1>1, <1>3, TypeDone DEF TypeInv, TypeOK
  <1> QED
    BY <1>2, <1>3 DEF HmsetHash

\* The rows written become rows of the table.
LEMMA TypeCommit ==
  ASSUME TypeInv, NEW r \in Requests, Commit(r), UNCHANGED repeated PROVE TypeInv'
  <1> DEFINE q == req[r]
  <1>1. /\ q.pc = "commit" /\ rows' = Overlay(rows, q.tx)
        /\ UNCHANGED <<nextId, hash, cookie, session, posted, repeated>>
    BY DEF Commit
  <1>2. rows' \subseteq Row /\ IsFiniteSet(rows')
    BY <1>1, TypesNow, OverlayRows DEF Finite
  <1>3. CASE Done(r)
    BY <1>1, <1>2, <1>3, NoRequestIsRequest, TypesNow, TypeStep DEF Done
  <1>4. ASSUME NEW label,
               (label = "show" /\ q.kind = "check") \/ (label = "setToken" /\ q.kind = "login"),
               req' = [req EXCEPT ![r].pc = label, ![r].tx = {}]
        PROVE  TypeInv'
    <2> DEFINE p == [q EXCEPT !.pc = label, !.tx = {}]
    <2>1. MayGoto(q, label)
      BY <1>1, <1>4 DEF MayGoto, Labels
    <2>2. p \in Request /\ Finite(p) /\ KindKnown(p) /\ (Adds(p) => Adds(req[r]))
      BY <2>1, FS_EmptySet, SetsIsRequest
    <2>3. req' = [req EXCEPT ![r] = p]
      BY <1>4 DEF TypeInv, TypeOK
    <2> HIDE DEF p
    <2> QED
      BY <1>1, <1>2, <2>2, <2>3, TypesNow, TypeStep
  <1> QED
    BY <1>3, <1>4 DEF Commit

\* The answers of checkCart and login.
LEMMA TypeAnswer ==
  ASSUME TypeInv, NEW r \in Requests, ShowCart(r) \/ SetToken(r), UNCHANGED repeated
  PROVE  TypeInv'
  <1>1. CASE ShowCart(r)
    BY <1>1, TypeDone DEF ShowCart, TypeInv, TypeOK
  <1>2. CASE SetToken(r)
    <2>1. req[r].browser \in Browsers /\ req[r].user \in Users \cup {Guest}
      BY TypesNow DEF Request
    <2>2. /\ cookie' \in [Browsers -> SUBSET Line] /\ \A b \in Browsers : IsFiniteSet(cookie'[b])
          /\ session' \in [Browsers -> Users \cup {Guest}]
      BY <1>2, <2>1, FS_EmptySet DEF SetToken, TypeInv, TypeOK
    <2> QED
      BY <1>2, <2>2, TypeDone DEF SetToken, TypeInv, TypeOK
  <1> QED
    BY <1>1, <1>2

\* A repeated call.
LEMMA TypeRepeat ==
  ASSUME TypeInv, NEW r \in Requests, Repeat(r) PROVE TypeInv'
  <1>1. repeated' \in 0..MaxRepeats /\ UNCHANGED <<rows, nextId, hash, cookie, session, posted>>
    BY CartBounds, TypesNow DEF Repeat
  <1>2. PICK label :
            /\ Goto(r, label)
            /\ \/ req[r].pc = "write" /\ label = "exists"
               \/ req[r].pc = "select" /\ req[r].kind = "add" /\ label = "write"
               \/ req[r].pc = "show" /\ label = "update"
               \/ req[r].pc = "setToken" /\ label \in {"select", "begin"}
    BY DEF Repeat, CombineLabel
  <1> DEFINE p == [req[r] EXCEPT !.pc = label]
  <1>3. MayGoto(req[r], label)
    BY <1>2, TypesNow DEF MayGoto, Labels, KindKnown
  <1>4. /\ p \in Request /\ Finite(p) /\ KindKnown(p) /\ (Adds(p) => Adds(req[r]))
        /\ req' = [req EXCEPT ![r] = p]
    BY <1>2, <1>3, GotoIsRequest
  <1> HIDE DEF p
  <1> QED
    BY <1>1, <1>4, TypeLocal

\* Every step keeps the types.
LEMMA TypeInvStep == TypeInv /\ [Next]_vars => TypeInv'
  <1> SUFFICES ASSUME TypeInv, [Next]_vars PROVE TypeInv'
    OBVIOUS
  <1>1. ASSUME NEW r \in Requests, Once(Serve(r)) PROVE TypeInv'
    BY <1>1, TypeSetCookie, TypeIsCartExists, TypeUpdateCart, TypeSaveCart, TypeUpdateCartCheck,
       TypeBeginCombine, TypeMergeLines, TypeSelectRows, TypeDelHash, TypeHmsetHash, TypeCommit,
       TypeAnswer DEF Serve, Once
  <1>2. ASSUME NEW r \in Requests, NEW b \in Browsers, Once(Submit(r, b)) PROVE TypeInv'
    BY <1>2, TypeSubmit
  <1>3. ASSUME NEW b \in Browsers, Once(SessionEnds(b)) PROVE TypeInv'
    <2>1. TypeOK'
      BY <1>3 DEF Once, SessionEnds, TypeInv, TypeOK
    <2>2. UNCHANGED <<rows, cookie, req, posted>>
      BY <1>3 DEF Once, SessionEnds
    <2> QED
      BY <2>1, <2>2 DEF TypeInv, Adding
  <1>4. ASSUME NEW r \in Requests, Repeat(r) PROVE TypeInv'
    BY <1>4, TypeRepeat
  <1>5. CASE UNCHANGED vars
    BY <1>5 DEF vars, TypeInv, TypeOK, Adding
  <1> QED
    BY <1>1, <1>2, <1>3, <1>4, <1>5 DEF Next

\* Every table, cookie, hash and request has its type, and the pieces posted never fall below
\* zero, for any number of requests and repeated calls (addToCart takes back only what it
\* has counted).
THEOREM TypeCorrect == Spec => []TypeOK
  <1>1. TypeInv => TypeOK
    BY DEF TypeInv
  <1> QED
    BY <1>1, InitTypeInv, TypeInvStep, PTL DEF Spec

-----------------------------------------------------------------------------
(* One request at a time, as in the shop of a single visitor.                *)

OneRequest == \A q, r \in Requests : q = r

\* A table in which ids are ids, given out below n, and products are listed once.
Table(S, n, k) ==
    /\ \A x, y \in S : x.id = y.id => x = y
    /\ \A x \in S : x.id < n
    /\ k = 0 => \A x, y \in S : x.userId = y.userId /\ x.skuId = y.skuId => x = y

OneLine(lines) == \A l, m \in lines : l.skuId = m.skuId => l = m

\* A row that is written keeps the user and the product of the row with its id.
Keeps(w, S)   == \E y \in S : y.id = w.id /\ y.userId = w.userId /\ y.skuId = w.skuId
KeepAll(W, S) == \A w \in W, x \in S : w.id = x.id => w.userId = x.userId /\ w.skuId = x.skuId

\* What was found for addToCart, and what a merge goes by.
FoundStands(q, S, k) ==
    /\ \A x, y \in q.found : x = y
    /\ \A x \in q.found : Keeps(x, S)
    /\ q.pc = "write" /\ k = 0 /\ q.found = {} => OfSku(OfUser(S, HomeUser), q.item.skuId) = {}
BaseStands(q, S) ==
    /\ q.pc = "merge" => q.base = S /\ \A l \in q.sent : \A x, y \in Matching(S, l) : x = y
    /\ q.pc = "select" /\ q.kind = "login" /\ q.sent # {} => q.base = S

\* The table that a transaction is about to leave behind, and its copy in the hash.
TxStands(q, S, n, k) == Table(Overlay(S, q.tx), n, k) /\ KeepAll(q.tx, S)
HashStands(q, S, h) ==
    /\ q.pc \in {"del", "hmset", "commit"} => q.list = OfUser(Overlay(S, q.tx), q.user)
    /\ q.pc = "hmset" => h[q.user] = {}
    /\ q.pc = "commit" => h[q.user] = q.list
    /\ q.pc = "show" => h[q.user] = OfUser(S, q.user)

\* Rows that updateCartCheck has marked.
MarkStands(q, S) ==
    q.kind = "check" /\ q.pc \in {"select", "del", "hmset", "commit", "show"} =>
        \A x \in OfSku(OfUser(Overlay(S, q.tx), q.user), q.item.skuId) :
            x.isChecked = q.item.isChecked

Stands(q, S, n, h, k) ==
    /\ OneLine(q.sent)
    /\ FoundStands(q, S, k)
    /\ BaseStands(q, S)
    /\ TxStands(q, S, n, k)
    /\ HashStands(q, S, h)
    /\ MarkStands(q, S)

SerialPart ==
    /\ Table(rows, nextId, repeated)
    /\ \A b \in Browsers : OneLine(cookie[b])
    /\ \A r \in Requests : Stands(req[r], rows, nextId, hash, repeated)

SerialInv == IInv /\ TypeInv /\ SerialPart

\* A table on which nothing is written.
LEMMA OverlayNothing ==
  ASSUME NEW S
  PROVE  Overlay(S, {}) = S
  BY DEF Overlay

\* What a transaction leaves behind: changed rows keep their user and product, and new rows
\* are of products of which there was none.
LEMMA OverlayTable ==
  ASSUME NEW S, NEW W, NEW n \in Nat, NEW m \in Nat, n <= m, NEW k \in Nat,
         S \subseteq Row, W \subseteq Row, Table(S, n, k),
         \A v, w \in W : v.id = w.id => v = w,
         \A w \in W : \/ Keeps(w, S)
                      \/ /\ w.id >= n /\ w.id < m
                         /\ \A x \in S : x.skuId # w.skuId
                         /\ \A v \in W : v.skuId = w.skuId => v = w
  PROVE  Table(Overlay(S, W), m, k) /\ KeepAll(W, S)
  <1>1. \A x \in S : x.id \in Nat /\ x.id < n
    BY DEF Table, Row
  <1>2. \A w \in W : w.id \in Nat
    BY DEF Row
  <1>3. \A x, y \in Overlay(S, W) : x.id = y.id => x = y
    BY DEF Overlay, Table
  <1>4. \A x \in Overlay(S, W) : x.id < m
    BY <1>1, <1>2 DEF Overlay, Keeps
  <1>5. KeepAll(W, S)
    BY <1>1, <1>2 DEF KeepAll, Keeps, Table
  <1>6. ASSUME k = 0, NEW x \in Overlay(S, W), NEW y \in Overlay(S, W),
               x.userId = y.userId, x.skuId = y.skuId
        PROVE  x = y
    <2>1. Keeps(x, S) \/ (x \in W /\ \A z \in S : z.skuId # x.skuId)
      BY DEF Overlay, Keeps
    <2>2. Keeps(y, S) \/ (y \in W /\ \A z \in S : z.skuId # y.skuId)
      BY DEF Overlay, Keeps
    <2>3. CASE Keeps(x, S) /\ Keeps(y, S)
      <3>1. PICK a \in S : a.id = x.id /\ a.userId = x.userId /\ a.skuId = x.skuId
        BY <2>3 DEF Keeps
      <3>2. PICK c \in S : c.id = y.id /\ c.userId = y.userId /\ c.skuId = y.skuId
        BY <2>3 DEF Keeps
      <3>3. a = c
        BY <1>6, <3>1, <3>2 DEF Table
      <3> QED
        BY <1>3, <3>1, <3>2, <3>3
    <2>4. CASE ~Keeps(x, S)
      <3>1. x \in W /\ y \in W
        BY <1>6, <2>1, <2>2, <2>4 DEF Keeps
      <3> QED
        BY <1>6, <2>4, <3>1
    <2>5. CASE ~Keeps(y, S)
      <3>1. x \in W /\ y \in W
        BY <1>6, <2>1, <2>2, <2>5 DEF Keeps
      <3> QED
        BY <1>6, <2>5, <3>1
    <2> QED
      BY <2>3, <2>4, <2>5
  <1> QED
    BY <1>3, <1>4, <1>5, <1>6 DEF Table

\* A row that kept its user and product before a transaction does so after it.
LEMMA KeepsOn ==
  ASSUME NEW S, NEW W, NEW w, Keeps(w, S), KeepAll(W, S)
  PROVE  Keeps(w, Overlay(S, W))
  BY DEF Keeps, KeepAll, Overlay

\* More ids given out and more calls repeated do no harm.
LEMMA TableGrows ==
  ASSUME NEW S, NEW n \in Nat, NEW m \in Nat, n <= m, NEW k \in Nat, NEW j \in Nat, k <= j,
         S \subseteq Row, Table(S, n, k)
  PROVE  Table(S, m, j)
  <1>1. \A x \in S : x.id \in Nat
    BY DEF Row
  <1> QED
    BY <1>1 DEF Table

\* A request that has read and written nothing.
LEMMA FreshStands ==
  ASSUME NEW q, NEW S, NEW n, NEW h, NEW k, Table(S, n, k), OneLine(q.sent),
         q.found = {}, q.tx = {}, q.pc \in {"idle", "setCookie", "exists", "update", "begin", "select"},
         q.pc = "select" => q.kind = "login" /\ q.sent = {}
  PROVE  Stands(q, S, n, h, k)
  BY OverlayNothing DEF Stands, FoundStands, BaseStands, TxStands, KeepAll, HashStands, MarkStands

\* A step of the only request.
LEMMA SerialStep ==
  ASSUME OneRequest, NEW r \in Requests, Table(rows', nextId', repeated'),
         \A b \in Browsers : OneLine(cookie'[b]),
         Stands(req'[r], rows', nextId', hash', repeated')
  PROVE  SerialPart'
  BY DEF OneRequest, SerialPart

\* What a request keeps on its way.
Same(q, p) == p.kind = q.kind /\ p.user = q.user /\ p.item = q.item /\ p.sent = q.sent

\* What the invariant says of a request now.
LEMMA SerialNow ==
  ASSUME SerialInv, NEW r \in Requests
  PROVE  /\ Stands(req[r], rows, nextId, hash, repeated) /\ Table(rows, nextId, repeated)
         /\ \A b \in Browsers : OneLine(cookie[b])
         /\ TypeInv /\ req[r] \in Request /\ req = [s \in Requests |-> req[s]]
         /\ (req[r].pc \notin InTransaction => req[r].tx = {})
         /\ (req[r].kind = "add" => req[r].tx = {})
         /\ repeated \in Nat /\ nextId \in Nat
  <1>1. req[r] \in Request /\ repeated \in Nat /\ nextId \in Nat
    BY CartBounds DEF SerialInv, TypeInv, TypeOK
  <1> QED
    BY <1>1 DEF SerialInv, SerialPart, IInv, Good, WritesKnown

\* The invariant holds of empty carts.
LEMMA InitSerial == Init => SerialInv
  <1> SUFFICES ASSUME Init PROVE SerialPart
    BY InitIInv, InitTypeInv DEF SerialInv
  <1>1. Table(rows, nextId, repeated) /\ \A b \in Browsers : OneLine(cookie[b])
    BY DEF Init, Table, OneLine
  <1>2. ASSUME NEW r \in Requests PROVE Stands(req[r], rows, nextId, hash, repeated)
    <2>1. /\ req[r].pc = "idle" /\ req[r].found = {} /\ req[r].tx = {} /\ OneLine(req[r].sent)
      BY DEF Init, NoRequest, NewRequest, OneLine
    <2> QED
      BY <1>1, <2>1, FreshStands
  <1> QED
    BY <1>1, <1>2 DEF SerialPart

-----------------------------------------------------------------------------

\* A request arrives with the cookie of its browser.
LEMMA SerialSubmit ==
  ASSUME OneRequest, SerialInv, NEW r \in Requests, NEW b \in Browsers, Once(Submit(r, b))
  PROVE  SerialPart'
  <1>1. PICK label, kind, user, item :
             /\ Arrive(r, b, kind, user, item, label)
             /\ label \in {"setCookie", "exists", "update", "begin", "select"}
             /\ label = "select" => kind = "login" /\ cookie[b] = {}
    <2>1. ASSUME NEW s \in Skus, AddToCart(r, b, s)
          PROVE  \E label, kind, user, item :
                    /\ Arrive(r, b, kind, user, item, label)
                    /\ label \in {"setCookie", "exists"}
      BY <2>1 DEF AddToCart
    <2>2. ASSUME NEW s \in Skus, CheckCart(r, b, s)
          PROVE  \E label, kind, user, item :
                    /\ Arrive(r, b, kind, user, item, label)
                    /\ label \in {"setCookie", "update"}
      BY <2>2 DEF CheckCart
    <2>3. ASSUME NEW u \in Users, Login(r, b, u)
          PROVE  \E label, kind, user, item :
                    /\ Arrive(r, b, kind, user, item, label)
                    /\ label \in {"begin", "select"}
                    /\ label = "select" => kind = "login" /\ cookie[b] = {}
      BY <2>3 DEF Login, CombineLabel
    <2> QED
      BY <2>1, <2>2, <2>3 DEF Once, Submit
  <1> DEFINE p == NewRequest(label, kind, b, user, item, cookie[b])
  <1>2. /\ p.pc = label /\ p.kind = kind /\ p.sent = cookie[b] /\ p.found = {} /\ p.tx = {}
    BY DEF NewRequest
  <1>3. req' = [req EXCEPT ![r] = p] /\ UNCHANGED <<rows, nextId, hash, cookie>>
    BY <1>1 DEF Arrive
  <1> HIDE DEF p
  <1>4. req'[r] = p
    BY <1>3, SerialNow
  <1>5. Table(rows, nextId, repeated) /\ \A c \in Browsers : OneLine(cookie[c])
    BY SerialNow
  <1>6. UNCHANGED repeated
    BY DEF Once
  <1>7. Stands(p, rows, nextId, hash, repeated)
    BY <1>1, <1>2, <1>5, FreshStands
  <1> QED
    BY <1>3, <1>4, <1>5, <1>6, <1>7, SerialStep

\* A request ends and leaves the table.
LEMMA SerialDone ==
  ASSUME OneRequest, SerialInv, NEW r \in Requests, Done(r), UNCHANGED <<nextId, repeated>>,
         Table(rows', nextId, repeated), \A b \in Browsers : OneLine(cookie'[b])
  PROVE  SerialPart'
  <1>1. req'[r] = NoRequest
    BY SerialNow DEF Done
  <1>2. Stands(NoRequest, rows', nextId, hash', repeated)
    <2>1. /\ NoRequest.pc = "idle" /\ NoRequest.found = {} /\ NoRequest.tx = {}
          /\ OneLine(NoRequest.sent)
      BY DEF NoRequest, NewRequest, OneLine
    <2> QED
      BY <2>1, FreshStands
  <1> QED
    BY <1>1, <1>2, SerialStep

\* A cookie lists a product once.
LEMMA CookieOneLine ==
  ASSUME NEW lines, lines \subseteq Line, OneLine(lines), NEW item \in Line
  PROVE  OneLine(PutLine(lines, item)) /\ OneLine(CheckLine(lines, item))
  <1>1. OneLine(PutLine(lines, item))
    <2>1. CASE OfSku(lines, item.skuId) = {}
      BY <2>1 DEF PutLine, OfSku, OneLine
    <2>2. CASE OfSku(lines, item.skuId) # {}
      <3> DEFINE more(l) == IF l.skuId = item.skuId
                            THEN [l EXCEPT !.skuNum = @ + item.skuNum] ELSE l
      <3>1. \A l \in lines : more(l).skuId = l.skuId
        BY DEF Line
      <3>2. PutLine(lines, item) = {more(l) : l \in lines}
        BY <2>2 DEF PutLine
      <3> HIDE DEF more
      <3>3. ASSUME NEW l \in lines, NEW m \in lines, more(l).skuId = more(m).skuId
            PROVE  more(l) = more(m)
        BY <3>1, <3>3 DEF OneLine
      <3> QED
        BY <3>2, <3>3 DEF OneLine
    <2> QED
      BY <2>1, <2>2
  <1>2. OneLine(CheckLine(lines, item))
    <2> DEFINE marked(l) == IF l.skuId = item.skuId
                            THEN [l EXCEPT !.isChecked = item.isChecked] ELSE l
    <2>1. \A l \in lines : marked(l).skuId = l.skuId
      BY DEF Line
    <2>2. CheckLine(lines, item) = {marked(l) : l \in lines}
      BY DEF CheckLine
    <2> HIDE DEF marked
    <2>3. ASSUME NEW l \in lines, NEW m \in lines, marked(l).skuId = marked(m).skuId
          PROVE  marked(l) = marked(m)
      BY <2>1, <2>3 DEF OneLine
    <2> QED
      BY <2>2, <2>3 DEF OneLine
  <1> QED
    BY <1>1, <1>2

\* The answer sets the new cookie.
LEMMA SerialSetCookie ==
  ASSUME OneRequest, SerialInv, NEW r \in Requests, SetCookie(r), UNCHANGED repeated
  PROVE  SerialPart'
  <1> DEFINE q == req[r]
  <1>1. OneLine(q.sent) /\ q.sent \subseteq Line /\ q.item \in Line
    BY SerialNow, TypesNow DEF Stands
  <1> HIDE DEF q
  <1>2. OneLine(PutLine(q.sent, q.item)) /\ OneLine(CheckLine(q.sent, q.item))
    BY <1>1, CookieOneLine
  <1>3. \A b \in Browsers : OneLine(cookie'[b])
    <2>1. PICK lines : OneLine(lines) /\ cookie' = [cookie EXCEPT ![q.browser] = lines]
      BY <1>2 DEF SetCookie, q
    <2>2. \A b \in Browsers : OneLine(cookie[b])
      BY SerialNow
    <2>3. cookie \in [Browsers -> SUBSET Line]
      BY DEF SerialInv, TypeInv, TypeOK
    <2> QED
      BY <2>1, <2>2, <2>3
  <1>4. Done(r) /\ UNCHANGED <<rows, nextId, repeated>>
    BY DEF SetCookie
  <1>5. Table(rows', nextId, repeated)
    BY <1>4, SerialNow
  <1> QED
    BY <1>3, <1>4, <1>5, SerialDone

\* The answers of checkCart and login.
LEMMA SerialAnswer ==
  ASSUME OneRequest, SerialInv, NEW r \in Requests, ShowCart(r) \/ SetToken(r), UNCHANGED repeated
  PROVE  SerialPart'
  <1>1. Done(r) /\ UNCHANGED <<rows, nextId, repeated>> /\ Table(rows', nextId, repeated)
    BY SerialNow DEF ShowCart, SetToken
  <1>2. \A b \in Browsers : OneLine(cookie'[b])
    <2>1. cookie \in [Browsers -> SUBSET Line] /\ \A b \in Browsers : OneLine(cookie[b])
      BY SerialNow DEF SerialInv, TypeInv, TypeOK
    <2> QED
      BY <2>1 DEF ShowCart, SetToken, OneLine
  <1> QED
    BY <1>1, <1>2, SerialDone

\* A finite set of at most one element.
LEMMA AtMostOne ==
  ASSUME NEW S, IsFiniteSet(S), Cardinality(S) <= 1
  PROVE  \A x, y \in S : x = y
  <1>1. Cardinality(S) \in Nat
    BY FS_CardinalityType
  <1>2. CASE Cardinality(S) = 0
    BY <1>2, FS_EmptySet
  <1>3. CASE Cardinality(S) = 1
    BY <1>3, FS_Singleton
  <1> QED
    BY <1>1, <1>2, <1>3

\* isCartExists finds the one row of the product, if there is one.
LEMMA SerialIsCartExists ==
  ASSUME OneRequest, SerialInv, NEW r \in Requests, IsCartExists(r), UNCHANGED repeated
  PROVE  SerialPart'
  <1> DEFINE q     == req[r]
             match == OfSku(OfUser(rows, HomeUser), q.item.skuId)
  <1>1. q.pc = "exists" /\ UNCHANGED <<rows, nextId, hash, cookie, repeated>>
    BY DEF IsCartExists
  <1>2. Table(rows', nextId', repeated') /\ \A b \in Browsers : OneLine(cookie'[b])
    BY <1>1, SerialNow
  <1>3. CASE Cardinality(match) <= 1 /\ req' = [req EXCEPT ![r].pc = "write", ![r].found = match]
    <2>1. \A x, y \in match : x = y
      <3>1. match \subseteq rows
        BY DEF OfSku, OfUser
      <3> HIDE DEF match
      <3>2. IsFiniteSet(match)
        BY <3>1, FS_Subset DEF SerialInv, TypeInv
      <3> QED
        BY <1>3, <3>2, AtMostOne
    <2>2. \A x \in match : Keeps(x, rows)
      BY DEF OfSku, OfUser, Keeps
    <2> DEFINE p == [q EXCEPT !.pc = "write", !.found = match]
    <2>3. req'[r] = p
      BY <1>3, SerialNow
    <2>0. q \in Request
      BY SerialNow
    <2>4. /\ Same(q, p) /\ p.pc = "write" /\ p.found = match /\ p.base = q.base
          /\ p.tx = q.tx /\ p.list = q.list
      BY <2>0 DEF Request, Same
    <2>5. p.found = {} => OfSku(OfUser(rows, HomeUser), p.item.skuId) = {}
      BY <2>4 DEF Same
    <2> HIDE DEF p, match
    <2>6. Stands(q, rows, nextId, hash, repeated) /\ q.kind = "add" /\ q.tx = {}
      BY <1>1, SerialNow, TypesNow DEF KindKnown, InTransaction
    <2>7. Stands(p, rows, nextId, hash, repeated)
      BY <2>1, <2>2, <2>4, <2>5, <2>6
         DEF Stands, FoundStands, BaseStands, TxStands, HashStands, MarkStands, Same
    <2> QED
      BY <1>1, <1>2, <2>3, <2>7, SerialStep
  <1>4. CASE Done(r)
    BY <1>1, <1>2, <1>4, SerialDone
  <1> QED
    BY <1>3, <1>4 DEF IsCartExists

\* updateCart writes one row, which is still there.
LEMMA SerialUpdateCart ==
  ASSUME OneRequest, SerialInv, NEW r \in Requests, UpdateCart(r), UNCHANGED repeated
  PROVE  SerialPart'
  <1> DEFINE q   == req[r]
             new == MorePieces(q.found, q.item)
             p   == [q EXCEPT !.pc = "select"]
  <1>1. /\ q.pc = "write" /\ rows' = Overlay(rows, new) /\ Goto(r, "select")
        /\ UNCHANGED <<nextId, hash, cookie, repeated>>
    BY DEF UpdateCart
  <1>2. /\ Stands(q, rows, nextId, hash, repeated) /\ Table(rows, nextId, repeated)
        /\ q.kind = "add" /\ q.tx = {} /\ nextId \in Nat /\ repeated \in Nat
    BY <1>1, SerialNow, TypesNow DEF KindKnown
  <1>3. /\ q.found \subseteq Row /\ IsFiniteSet(q.found) /\ q.item \in Line /\ rows \subseteq Row
    BY SerialNow, TypesNow DEF Finite
  <1>4. new \subseteq Row
    BY <1>3, MorePiecesRows
  <1>5. \A w \in new : \E x \in q.found : w = [x EXCEPT !.skuNum = @ + q.item.skuNum]
                                          /\ w.id = x.id /\ w.userId = x.userId /\ w.skuId = x.skuId
    BY <1>3 DEF MorePieces, Row
  <1>6. (\A v, w \in new : v = w) /\ \A w \in new : Keeps(w, rows)
    <2>1. (\A x, y \in q.found : x = y) /\ \A x \in q.found : Keeps(x, rows)
      BY <1>2 DEF Stands, FoundStands
    <2> HIDE DEF new
    <2>2. \A v, w \in new : v = w
      BY <1>5, <2>1
    <2>3. \A w \in new : Keeps(w, rows)
      BY <1>5, <2>1 DEF Keeps
    <2> QED
      BY <2>2, <2>3
  <1> HIDE DEF new
  <1>7. Table(rows', nextId, repeated) /\ KeepAll(new, rows)
    BY <1>1, <1>2, <1>3, <1>4, <1>6, OverlayTable
  <1>8. req'[r] = p
    BY <1>1, SerialNow DEF Goto
  <1>0. q \in Request
    BY SerialNow
  <1>9. /\ Same(q, p) /\ p.pc = "select" /\ p.found = q.found /\ p.base = q.base
        /\ p.tx = q.tx /\ p.list = q.list
    BY <1>0 DEF Request, Same
  <1> HIDE DEF p
  <1>10. Stands(p, rows', nextId, hash, repeated)
    <2>1. \A x \in q.found : Keeps(x, rows')
      BY <1>1, <1>2, <1>7, KeepsOn DEF Stands, FoundStands
    <2>2. Table(Overlay(rows', {}), nextId, repeated)
      BY <1>7, OverlayNothing
    <2> QED
      BY <1>2, <1>9, <2>1, <2>2
         DEF Stands, FoundStands, BaseStands, TxStands, KeepAll, HashStands, MarkStands, Same
  <1>11. \A b \in Browsers : OneLine(cookie'[b])
    BY <1>1, SerialNow
  <1> QED
    BY <1>1, <1>7, <1>8, <1>10, <1>11, SerialStep

\* saveCart inserts a row of a product that the user did not have.
LEMMA SerialSaveCart ==
  ASSUME OneRequest, SerialInv, NEW r \in Requests, SaveCart(r), UNCHANGED repeated
  PROVE  SerialPart'
  <1> DEFINE q   == req[r]
             new == NewRow(nextId, HomeUser, q.item)
             p   == [q EXCEPT !.pc = "select"]
  <1>1. /\ q.pc = "write" /\ q.found = {} /\ rows' = rows \cup {new} /\ Goto(r, "select")
        /\ nextId' = nextId + 1 /\ UNCHANGED <<hash, cookie, repeated>>
    BY DEF SaveCart
  <1>2. /\ Stands(q, rows, nextId, hash, repeated) /\ Table(rows, nextId, repeated)
        /\ q.kind = "add" /\ q.tx = {} /\ nextId \in Nat /\ repeated \in Nat /\ rows \subseteq Row
    BY <1>1, SerialNow, TypesNow DEF KindKnown
  <1>3. new.id = nextId /\ new.userId = HomeUser /\ new.skuId = q.item.skuId
    BY DEF NewRow
  <1>4. repeated = 0 => \A x \in rows : ~(x.userId = HomeUser /\ x.skuId = q.item.skuId)
    BY <1>1, <1>2 DEF Stands, FoundStands, OfSku, OfUser
  <1> HIDE DEF new
  <1>5. Table(rows', nextId', repeated)
    <2>1. \A x \in rows : x.id \in Nat /\ x.id < nextId
      BY <1>2 DEF Table, Row
    <2>2. \A x, y \in rows' : x.id = y.id => x = y
      BY <1>1, <1>2, <1>3, <2>1 DEF Table
    <2>3. \A x \in rows' : x.id < nextId'
      BY <1>1, <1>2, <1>3, <2>1
    <2>4. repeated = 0 => \A x, y \in rows' : x.userId = y.userId /\ x.skuId = y.skuId => x = y
      BY <1>1, <1>2, <1>3, <1>4 DEF Table
    <2> QED
      BY <2>2, <2>3, <2>4 DEF Table
  <1>6. req'[r] = p
    BY <1>1, SerialNow DEF Goto
  <1>0. q \in Request
    BY SerialNow
  <1>7. /\ Same(q, p) /\ p.pc = "select" /\ p.found = q.found /\ p.base = q.base
        /\ p.tx = q.tx /\ p.list = q.list
    BY <1>0 DEF Request, Same
  <1> HIDE DEF p
  <1>8. Stands(p, rows', nextId', hash, repeated)
    <2>1. Table(Overlay(rows', {}), nextId', repeated)
      BY <1>5, OverlayNothing
    <2> QED
      BY <1>1, <1>2, <1>7, <2>1
         DEF Stands, FoundStands, BaseStands, TxStands, KeepAll, HashStands, MarkStands, Same
  <1>9. \A b \in Browsers : OneLine(cookie'[b])
    BY <1>1, SerialNow
  <1> QED
    BY <1>1, <1>5, <1>6, <1>8, <1>9, SerialStep

\* updateCartCheck marks the rows of one product of the user.
LEMMA SerialUpdateCartCheck ==
  ASSUME OneRequest, SerialInv, NEW r \in Requests, UpdateCartCheck(r), UNCHANGED repeated
  PROVE  SerialPart'
  <1> DEFINE q   == req[r]
             old == OfSku(OfUser(rows, q.user), q.item.skuId)
             new == {[x EXCEPT !.isChecked = q.item.isChecked] : x \in old}
             p   == [q EXCEPT !.pc = "select", !.tx = new]
  <1>1. /\ q.pc = "update" /\ req' = [req EXCEPT ![r].pc = "select", ![r].tx = new]
        /\ UNCHANGED <<rows, nextId, hash, cookie, repeated>>
    BY DEF UpdateCartCheck
  <1>2. /\ Stands(q, rows, nextId, hash, repeated) /\ Table(rows, nextId, repeated)
        /\ q.kind = "check" /\ nextId \in Nat /\ repeated \in Nat /\ rows \subseteq Row
        /\ q.item \in Line /\ q \in Request
    BY <1>1, SerialNow, TypesNow DEF KindKnown
  <1>3. old \subseteq rows /\ \A x \in old : x.userId = q.user /\ x.skuId = q.item.skuId
    BY DEF OfSku, OfUser
  <1>4. \A w \in new : \E x \in old : /\ w = [x EXCEPT !.isChecked = q.item.isChecked]
                                      /\ w.id = x.id /\ w.userId = x.userId /\ w.skuId = x.skuId
                                      /\ w.isChecked = q.item.isChecked
    <2> HIDE DEF old
    <2> QED
      BY <1>2, <1>3 DEF Row
  <1>5. new \subseteq Row
    <2> HIDE DEF old
    <2> QED
      BY <1>2, <1>3 DEF Row, Line
  <1>6. \A x \in rows : x.userId = q.user /\ x.skuId = q.item.skuId => \E w \in new : w.id = x.id
    <2> SUFFICES ASSUME NEW x \in rows, x.userId = q.user, x.skuId = q.item.skuId
                 PROVE  \E w \in new : w.id = x.id
      OBVIOUS
    <2>1. x \in old
      BY DEF OfSku, OfUser
    <2> HIDE DEF old
    <2>2. [x EXCEPT !.isChecked = q.item.isChecked] \in new
      BY <2>1
    <2>3. [x EXCEPT !.isChecked = q.item.isChecked].id = x.id
      BY <1>2 DEF Row
    <2> QED
      BY <2>2, <2>3
  <1>7. /\ Same(q, p) /\ p.pc = "select" /\ p.found = q.found /\ p.base = q.base
        /\ p.tx = new /\ p.list = q.list
    BY <1>2 DEF Request, Same
  <1>8. req'[r] = p
    BY <1>1, SerialNow
  <1> HIDE DEF new, old, p
  <1>9. (\A v, w \in new : v.id = w.id => v = w) /\ \A w \in new : Keeps(w, rows)
    <2>1. \A v, w \in new : v.id = w.id => v = w
      <3> SUFFICES ASSUME NEW v \in new, NEW w \in new, v.id = w.id PROVE v = w
        OBVIOUS
      <3>1. PICK x \in old : v = [x EXCEPT !.isChecked = q.item.isChecked] /\ v.id = x.id
        BY <1>4
      <3>2. PICK y \in old : w = [y EXCEPT !.isChecked = q.item.isChecked] /\ w.id = y.id
        BY <1>4
      <3>3. x = y
        BY <1>2, <1>3, <3>1, <3>2 DEF Table
      <3> QED
        BY <3>1, <3>2, <3>3
    <2>2. \A w \in new : Keeps(w, rows)
      BY <1>3, <1>4 DEF Keeps
    <2> QED
      BY <2>1, <2>2
  <1>10. Table(Overlay(rows, new), nextId, repeated) /\ KeepAll(new, rows)
    BY <1>2, <1>5, <1>9, OverlayTable
  <1>11. \A x \in OfSku(OfUser(Overlay(rows, new), q.user), q.item.skuId) :
            x.isChecked = q.item.isChecked
    BY <1>4, <1>6 DEF OfSku, OfUser, Overlay
  <1>12. Stands(p, rows, nextId, hash, repeated)
    BY <1>1, <1>2, <1>7, <1>10, <1>11
       DEF Stands, FoundStands, BaseStands, TxStands, HashStands, MarkStands, Same
  <1>13. \A b \in Browsers : OneLine(cookie'[b])
    BY <1>1, SerialNow
  <1> QED
    BY <1>1, <1>2, <1>8, <1>12, <1>13, SerialStep

\* combineCart reads the table, in which no product of the cookie is in two rows.
LEMMA SerialBeginCombine ==
  ASSUME OneRequest, SerialInv, NEW r \in Requests, BeginCombine(r), UNCHANGED repeated
  PROVE  SerialPart'
  <1> DEFINE q == req[r]
             p == [q EXCEPT !.pc = "merge", !.base = rows]
  <1>1. q.pc = "begin" /\ UNCHANGED <<rows, nextId, hash, cookie, repeated>>
    BY DEF BeginCombine
  <1>2. Table(rows', nextId', repeated') /\ \A b \in Browsers : OneLine(cookie'[b])
    BY <1>1, SerialNow
  <1>3. CASE /\ \A l \in q.sent : Cardinality(Matching(rows, l)) <= 1
             /\ req' = [req EXCEPT ![r].pc = "merge", ![r].base = rows]
    <2>1. \A l \in q.sent : \A x, y \in Matching(rows, l) : x = y
      <3> SUFFICES ASSUME NEW l \in q.sent PROVE \A x, y \in Matching(rows, l) : x = y
        OBVIOUS
      <3>1. Matching(rows, l) \subseteq rows
        BY DEF Matching, OfSku
      <3>2. IsFiniteSet(Matching(rows, l))
        BY <3>1, FS_Subset DEF SerialInv, TypeInv
      <3> QED
        BY <1>3, <3>2, AtMostOne
    <2>2. Stands(q, rows, nextId, hash, repeated) /\ q.kind = "login" /\ q \in Request
      BY <1>1, SerialNow, TypesNow DEF KindKnown
    <2>3. /\ Same(q, p) /\ p.pc = "merge" /\ p.found = q.found /\ p.base = rows
          /\ p.tx = q.tx /\ p.list = q.list
      BY <2>2 DEF Request, Same
    <2>4. req'[r] = p
      BY <1>3, SerialNow
    <2> HIDE DEF p
    <2>5. Stands(p, rows, nextId, hash, repeated)
      BY <2>1, <2>2, <2>3
         DEF Stands, FoundStands, BaseStands, TxStands, HashStands, MarkStands, Same
    <2> QED
      BY <1>1, <1>2, <2>4, <2>5, SerialStep
  <1>4. CASE Done(r)
    BY <1>1, <1>2, <1>4, SerialDone
  <1> QED
    BY <1>3, <1>4 DEF BeginCombine

\* What a merge is about to leave behind.
LEMMA MergeTable ==
  ASSUME SerialInv, NEW r \in Requests, req[r].pc = "merge"
  PROVE  LET W == MergeRows(req[r]) \cup MergeNew(req[r]) IN
         /\ Table(Overlay(rows, W), nextId + Cardinality(Fresh(req[r])), repeated)
         /\ KeepAll(W, rows)
  <1> DEFINE q == req[r]
             m == nextId + Cardinality(Fresh(q))
             W == MergeRows(q) \cup MergeNew(q)
  <1>1. /\ Table(rows, nextId, repeated) /\ OneLine(q.sent) /\ q.base = rows
        /\ \A l \in q.sent : \A x, y \in Matching(rows, l) : x = y
        /\ nextId \in Nat /\ repeated \in Nat /\ rows \subseteq Row /\ q.sent \subseteq Line
    BY SerialNow, TypesNow DEF Stands, BaseStands
  <1>2. /\ Cardinality(Fresh(q)) \in Nat /\ MergeOrder(q) \in [Fresh(q) -> MergeIds(q)]
        /\ IsInjective(MergeOrder(q)) /\ W \subseteq Row
    BY SerialNow, MergeNumbers, MergeWritesRows
  <1> HIDE DEF q
  <1>3. \A w \in MergeRows(q) : \E l \in q.sent : \E x \in rows :
            /\ x.skuId = l.skuId /\ w = [x EXCEPT !.skuNum = @ + l.skuNum]
            /\ w.id = x.id /\ w.userId = x.userId /\ w.skuId = x.skuId
    <2> SUFFICES ASSUME NEW w \in MergeRows(q)
                 PROVE  \E l \in q.sent : \E x \in rows :
                          /\ x.skuId = l.skuId /\ w = [x EXCEPT !.skuNum = @ + l.skuNum]
                          /\ w.id = x.id /\ w.userId = x.userId /\ w.skuId = x.skuId
      OBVIOUS
    <2>1. PICK l \in q.sent : w \in MorePieces(Matching(q.base, l), l)
      BY DEF MergeRows
    <2>2. PICK x \in Matching(q.base, l) : w = [x EXCEPT !.skuNum = @ + l.skuNum]
      BY <2>1 DEF MorePieces
    <2>3. x \in rows /\ x.skuId = l.skuId
      BY <1>1, <2>2 DEF Matching, OfSku
    <2>4. w.id = x.id /\ w.userId = x.userId /\ w.skuId = x.skuId
      BY <1>1, <2>2, <2>3 DEF Row
    <2> QED
      BY <2>2, <2>3, <2>4
  <1>4. \A w \in MergeNew(q) : \E l \in Fresh(q) :
            /\ w = NewRow(MergeOrder(q)[l], q.user, l)
            /\ w.id = MergeOrder(q)[l] /\ w.skuId = l.skuId
            /\ w.id >= nextId /\ w.id < m
    <2>1. \A l \in Fresh(q) : /\ MergeOrder(q)[l] \in Nat
                              /\ MergeOrder(q)[l] >= nextId /\ MergeOrder(q)[l] < m
      BY <1>1, <1>2 DEF MergeIds
    <2> HIDE DEF m
    <2> QED
      BY <2>1 DEF MergeNew, NewRow
  <1>5. \A l \in Fresh(q) : l \in q.sent /\ \A x \in rows : x.skuId # l.skuId
    BY <1>1 DEF Fresh, Matching, OfSku
  <1>6. \A x \in rows : x.id \in Nat /\ x.id < nextId
    BY <1>1 DEF Table, Row
  <1>7. \A v, w \in MergeRows(q) : v.id = w.id => v = w
    <2> SUFFICES ASSUME NEW v \in MergeRows(q), NEW w \in MergeRows(q), v.id = w.id PROVE v = w
      OBVIOUS
    <2>1. PICK l \in q.sent, x \in rows :
              x.skuId = l.skuId /\ v = [x EXCEPT !.skuNum = @ + l.skuNum] /\ v.id = x.id
      BY <1>3
    <2>2. PICK k \in q.sent, y \in rows :
              y.skuId = k.skuId /\ w = [y EXCEPT !.skuNum = @ + k.skuNum] /\ w.id = y.id
      BY <1>3
    <2>3. x = y
      BY <1>1, <2>1, <2>2 DEF Table
    <2>4. l = k
      BY <1>1, <2>1, <2>2, <2>3 DEF OneLine
    <2> QED
      BY <2>1, <2>2, <2>3, <2>4
  <1>8. \A v, w \in MergeNew(q) : v.id = w.id \/ v.skuId = w.skuId => v = w
    <2> SUFFICES ASSUME NEW v \in MergeNew(q), NEW w \in MergeNew(q), v.id = w.id \/ v.skuId = w.skuId
                 PROVE  v = w
      OBVIOUS
    <2>1. PICK l \in Fresh(q) : v = NewRow(MergeOrder(q)[l], q.user, l)
                                /\ v.id = MergeOrder(q)[l] /\ v.skuId = l.skuId
      BY <1>4
    <2>2. PICK k \in Fresh(q) : w = NewRow(MergeOrder(q)[k], q.user, k)
                                /\ w.id = MergeOrder(q)[k] /\ w.skuId = k.skuId
      BY <1>4
    <2>3. l = k
      BY <1>1, <1>2, <1>5, <2>1, <2>2 DEF OneLine, IsInjective
    <2> QED
      BY <2>1, <2>2, <2>3
  <1>9. \A v \in MergeRows(q), w \in MergeNew(q) : v.id # w.id /\ v.skuId # w.skuId
    <2> SUFFICES ASSUME NEW v \in MergeRows(q), NEW w \in MergeNew(q)
                 PROVE  v.id # w.id /\ v.skuId # w.skuId
      OBVIOUS
    <2>1. PICK x \in rows : v.id = x.id /\ v.skuId = x.skuId
      BY <1>3
    <2>2. PICK l \in Fresh(q) : w.skuId = l.skuId /\ w.id >= nextId
      BY <1>4
    <2>3. w \in Row
      BY <1>2
    <2> QED
      BY <1>1, <1>5, <1>6, <2>1, <2>2, <2>3 DEF Row
  <1>10. \A v, w \in W : v.id = w.id => v = w
    BY <1>7, <1>8, <1>9
  <1>11. ASSUME NEW w \in W
         PROVE  \/ Keeps(w, rows)
                \/ /\ w.id >= nextId /\ w.id < m
                   /\ \A x \in rows : x.skuId # w.skuId
                   /\ \A v \in W : v.skuId = w.skuId => v = w
    <2>1. CASE w \in MergeRows(q)
      BY <1>3, <2>1 DEF Keeps
    <2>2. CASE w \in MergeNew(q)
      BY <1>4, <1>5, <1>8, <1>9, <2>2
    <2> QED
      BY <2>1, <2>2
  <1>12. nextId <= m /\ m \in Nat
    BY <1>1, <1>2
  <1> HIDE DEF W, m
  <1>13. Table(Overlay(rows, W), m, repeated) /\ KeepAll(W, rows)
    BY <1>1, <1>2, <1>10, <1>11, <1>12, OverlayTable
  <1> QED
    BY <1>13 DEF W, m, q

\* combineCart writes that table.
LEMMA SerialMergeLines ==
  ASSUME OneRequest, SerialInv, NEW r \in Requests, MergeLines(r), UNCHANGED repeated
  PROVE  SerialPart'
  <1> DEFINE q  == req[r]
             tx == MergeRows(q) \cup MergeNew(q)
             p  == [q EXCEPT !.pc = "select", !.tx = tx]
  <1>1. /\ q.pc = "merge" /\ UNCHANGED <<rows, hash, cookie, repeated>>
        /\ nextId' = nextId + Cardinality(Fresh(q)) /\ req' = [req EXCEPT ![r] = p]
    BY MergeEffect, SerialNow
  <1>2. /\ Stands(q, rows, nextId, hash, repeated) /\ Table(rows, nextId, repeated)
        /\ q.kind = "login" /\ nextId \in Nat /\ repeated \in Nat /\ rows \subseteq Row
        /\ q \in Request /\ Cardinality(Fresh(q)) \in Nat
    BY <1>1, SerialNow, TypesNow, MergeNumbers DEF KindKnown
  <1>3. Table(Overlay(rows, tx), nextId', repeated) /\ KeepAll(tx, rows)
    BY <1>1, MergeTable
  <1> HIDE DEF tx
  <1>4. /\ Same(q, p) /\ p.pc = "select" /\ p.found = q.found /\ p.base = q.base
        /\ p.tx = tx /\ p.list = q.list
    BY <1>2 DEF Request, Same
  <1>5. req'[r] = p
    BY <1>1, SerialNow
  <1> HIDE DEF p
  <1>6. Stands(p, rows, nextId', hash, repeated)
    BY <1>1, <1>2, <1>3, <1>4
       DEF Stands, FoundStands, BaseStands, TxStands, HashStands, MarkStands, Same
  <1>7. Table(rows, nextId', repeated)
    <2>1. nextId' \in Nat /\ nextId <= nextId'
      BY <1>1, <1>2
    <2> QED
      BY <1>2, <2>1, TableGrows
  <1>8. \A b \in Browsers : OneLine(cookie'[b])
    BY <1>1, SerialNow
  <1> QED
    BY <1>1, <1>5, <1>6, <1>7, <1>8, SerialStep

\* syncCache reads the rows of the user as the transaction is about to leave them.
LEMMA SerialSelectRows ==
  ASSUME OneRequest, SerialInv, NEW r \in Requests, SelectRows(r), UNCHANGED repeated
  PROVE  SerialPart'
  <1> DEFINE q    == req[r]
             base == IF q.kind = "login" /\ q.sent # {} THEN q.base ELSE rows
             list == OfUser(Overlay(base, q.tx), q.user)
             p    == [q EXCEPT !.pc = "del", !.list = list]
  <1>1. /\ q.pc = "select" /\ UNCHANGED <<rows, nextId, hash, cookie, repeated>>
        /\ req' = [req EXCEPT ![r].pc = "del", ![r].list = list]
    BY DEF SelectRows
  <1>2. Stands(q, rows, nextId, hash, repeated) /\ q \in Request
    BY SerialNow
  <1>3. base = rows
    BY <1>1, <1>2 DEF Stands, BaseStands
  <1> HIDE DEF base
  <1>4. list = OfUser(Overlay(rows, q.tx), q.user)
    BY <1>3
  <1> HIDE DEF list
  <1>5. /\ Same(q, p) /\ p.pc = "del" /\ p.found = q.found /\ p.base = q.base
        /\ p.tx = q.tx /\ p.list = list
    BY <1>2 DEF Request, Same
  <1>6. req'[r] = p
    BY <1>1, SerialNow
  <1> HIDE DEF p
  <1>7. Stands(p, rows, nextId, hash, repeated)
    BY <1>1, <1>2, <1>4, <1>5
       DEF Stands, FoundStands, BaseStands, TxStands, HashStands, MarkStands, Same
  <1>8. Table(rows', nextId', repeated') /\ \A b \in Browsers : OneLine(cookie'[b])
    BY <1>1, SerialNow
  <1> QED
    BY <1>1, <1>6, <1>7, <1>8, SerialStep

\* The hash is deleted and written again.
LEMMA SerialDelHash ==
  ASSUME OneRequest, SerialInv, NEW r \in Requests, DelHash(r), UNCHANGED repeated
  PROVE  SerialPart'
  <1> DEFINE q == req[r]
             p == [q EXCEPT !.pc = "hmset"]
  <1>1. /\ q.pc = "del" /\ Goto(r, "hmset") /\ hash' = [hash EXCEPT ![q.user] = {}]
        /\ UNCHANGED <<rows, nextId, cookie, repeated>>
    BY DEF DelHash
  <1>2. /\ Stands(q, rows, nextId, hash, repeated) /\ q \in Request
        /\ q.user \in Users /\ hash \in [Users -> SUBSET Row]
    BY <1>1, SerialNow, TypesNow DEF KindKnown
  <1>3. /\ Same(q, p) /\ p.pc = "hmset" /\ p.found = q.found /\ p.base = q.base
        /\ p.tx = q.tx /\ p.list = q.list
    BY <1>2 DEF Request, Same
  <1>4. req'[r] = p /\ hash'[q.user] = {}
    BY <1>1, <1>2, SerialNow DEF Goto
  <1> HIDE DEF p
  <1>5. Stands(p, rows, nextId, hash', repeated)
    BY <1>1, <1>2, <1>3, <1>4
       DEF Stands, FoundStands, BaseStands, TxStands, HashStands, MarkStands, Same
  <1>6. Table(rows', nextId', repeated') /\ \A b \in Browsers : OneLine(cookie'[b])
    BY <1>1, SerialNow
  <1> QED
    BY <1>1, <1>4, <1>5, <1>6, SerialStep

\* The hash becomes the rows that were read.
LEMMA SerialHmsetHash ==
  ASSUME OneRequest, SerialInv, NEW r \in Requests, HmsetHash(r), UNCHANGED repeated
  PROVE  SerialPart'
  <1> DEFINE q == req[r]
             p == [q EXCEPT !.pc = "commit"]
  <1>1. q.pc = "hmset" /\ UNCHANGED <<rows, nextId, cookie, repeated>>
    BY DEF HmsetHash
  <1>2. /\ Stands(q, rows, nextId, hash, repeated) /\ q \in Request
        /\ q.user \in Users /\ hash \in [Users -> SUBSET Row]
    BY <1>1, SerialNow, TypesNow DEF KindKnown
  <1>3. Table(rows', nextId', repeated') /\ \A b \in Browsers : OneLine(cookie'[b])
    BY <1>1, SerialNow
  <1>4. CASE hash' = [hash EXCEPT ![q.user] = q.list] /\ Goto(r, "commit")
    <2>1. /\ Same(q, p) /\ p.pc = "commit" /\ p.found = q.found /\ p.base = q.base
          /\ p.tx = q.tx /\ p.list = q.list
      BY <1>2 DEF Request, Same
    <2>2. req'[r] = p /\ hash'[q.user] = q.list
      BY <1>2, <1>4, SerialNow DEF Goto
    <2> HIDE DEF p
    <2>3. Stands(p, rows, nextId, hash', repeated)
      BY <1>1, <1>2, <2>1, <2>2
         DEF Stands, FoundStands, BaseStands, TxStands, HashStands, MarkStands, Same
    <2> QED
      BY <1>1, <1>3, <2>2, <2>3, SerialStep
  <1>5. CASE Done(r)
    BY <1>1, <1>3, <1>5, SerialDone
  <1> QED
    BY <1>4, <1>5 DEF HmsetHash

\* The transaction leaves behind what it was about to.
LEMMA SerialCommit ==
  ASSUME OneRequest, SerialInv, NEW r \in Requests, Commit(r), UNCHANGED repeated
  PROVE  SerialPart'
  <1> DEFINE q == req[r]
  <1>1. /\ q.pc = "commit" /\ rows' = Overlay(rows, q.tx)
        /\ UNCHANGED <<nextId, hash, cookie, repeated>>
    BY DEF Commit
  <1>2. Stands(q, rows, nextId, hash, repeated) /\ q \in Request
    BY SerialNow
  <1>3. /\ Table(rows', nextId, repeated) /\ KeepAll(q.tx, rows)
        /\ \A b \in Browsers : OneLine(cookie'[b])
    BY <1>1, <1>2, SerialNow DEF Stands, TxStands
  <1>4. CASE Done(r)
    BY <1>1, <1>3, <1>4, SerialDone
  <1>5. ASSUME NEW label,
               (label = "show" /\ q.kind = "check") \/ (label = "setToken" /\ q.kind = "login"),
               req' = [req EXCEPT ![r].pc = label, ![r].tx = {}]
        PROVE  SerialPart'
    <2> DEFINE p == [q EXCEPT !.pc = label, !.tx = {}]
    <2>1. /\ Same(q, p) /\ p.pc = label /\ p.found = q.found /\ p.base = q.base
          /\ p.tx = {} /\ p.list = q.list
      BY <1>2 DEF Request, Same
    <2>2. req'[r] = p
      BY <1>5, SerialNow
    <2>3. Overlay(rows', {}) = rows'
      BY OverlayNothing
    <2>4. \A x \in q.found : Keeps(x, rows')
      BY <1>1, <1>2, <1>3, KeepsOn DEF Stands, FoundStands
    <2>5. hash[q.user] = OfUser(rows', q.user)
      BY <1>1, <1>2 DEF Stands, HashStands
    <2> HIDE DEF p
    <2>6. Stands(p, rows', nextId, hash, repeated)
      BY <1>1, <1>2, <1>3, <1>5, <2>1, <2>3, <2>4, <2>5
         DEF Stands, FoundStands, BaseStands, TxStands, KeepAll, HashStands, MarkStands, Same
    <2> QED
      BY <1>1, <1>3, <2>2, <2>6, SerialStep
  <1> QED
    BY <1>4, <1>5 DEF Commit

\* A repeated call goes back to where it began, with nothing written since.
LEMMA SerialRepeat ==
  ASSUME OneRequest, SerialInv, NEW r \in Requests, Repeat(r)
  PROVE  SerialPart'
  <1> DEFINE q == req[r]
  <1>1. repeated' = repeated + 1 /\ UNCHANGED <<rows, nextId, hash, cookie>>
    BY DEF Repeat
  <1>2. PICK label :
            /\ Goto(r, label)
            /\ \/ q.pc = "write" /\ label = "exists"
               \/ q.pc = "select" /\ q.kind = "add" /\ label = "write"
               \/ q.pc = "show" /\ label = "update"
               \/ q.pc = "setToken" /\ label = CombineLabel(q.sent)
    BY DEF Repeat
  <1> DEFINE p == [q EXCEPT !.pc = label]
  <1>3. /\ Stands(q, rows, nextId, hash, repeated) /\ Table(rows, nextId, repeated)
        /\ q \in Request /\ q.tx = {} /\ nextId \in Nat /\ repeated \in Nat /\ rows \subseteq Row
    BY <1>2, SerialNow, TypesNow DEF InTransaction
  <1>4. Table(rows, nextId, repeated')
    BY <1>1, <1>3, TableGrows
  <1>5. /\ Same(q, p) /\ p.pc = label /\ p.found = q.found /\ p.base = q.base
        /\ p.tx = {} /\ p.list = q.list
    BY <1>3 DEF Request, Same
  <1>6. req'[r] = p
    BY <1>2, SerialNow DEF Goto
  <1>7. /\ repeated' # 0
        /\ label \in {"exists", "write", "update", "select", "begin"}
        /\ label = "update" => q.kind = "check"
        /\ label = "select" => q.kind = "login" /\ q.sent = {}
    BY <1>1, <1>2, <1>3, TypesNow DEF CombineLabel, KindKnown, SerialInv
  <1> HIDE DEF p
  <1>8. Stands(p, rows, nextId, hash, repeated')
    BY <1>3, <1>4, <1>5, <1>7, OverlayNothing
       DEF Stands, FoundStands, BaseStands, TxStands, KeepAll, HashStands, MarkStands, Same
  <1>9. \A b \in Browsers : OneLine(cookie'[b])
    BY <1>1, SerialNow
  <1> QED
    BY <1>1, <1>4, <1>6, <1>8, <1>9, SerialStep

\* Every step keeps the invariant, as long as requests come one at a time.
LEMMA SerialInvStep ==
  ASSUME OneRequest
  PROVE  SerialInv /\ [Next]_vars => SerialInv'
  <1> SUFFICES ASSUME SerialInv, [Next]_vars PROVE SerialPart'
    BY IInvStep, TypeInvStep DEF SerialInv
  <1>1. ASSUME NEW r \in Requests, Once(Serve(r)) PROVE SerialPart'
    BY <1>1, SerialSetCookie, SerialIsCartExists, SerialUpdateCart, SerialSaveCart,
       SerialUpdateCartCheck, SerialBeginCombine, SerialMergeLines, SerialSelectRows, SerialDelHash,
       SerialHmsetHash, SerialCommit, SerialAnswer DEF Serve, Once
  <1>2. ASSUME NEW r \in Requests, NEW b \in Browsers, Once(Submit(r, b)) PROVE SerialPart'
    BY <1>2, SerialSubmit
  <1>3. ASSUME NEW r \in Requests, Repeat(r) PROVE SerialPart'
    BY <1>3, SerialRepeat
  <1>4. ASSUME UNCHANGED <<rows, nextId, hash, cookie, req, repeated>> PROVE SerialPart'
    BY <1>4 DEF SerialInv, SerialPart
  <1> QED
    BY <1>1, <1>2, <1>3, <1>4 DEF Next, Once, SessionEnds, vars

-----------------------------------------------------------------------------
(* What follows for one request at a time. *)

\* A user has at most one row of a product (isCartExists before saveCart, the lookup of
\* combineCart), unless a call is repeated.
THEOREM OneRowPerProductHolds == OneRequest => (Spec => []OneRowPerProduct)
  <1> SUFFICES ASSUME OneRequest PROVE Spec => []OneRowPerProduct
    OBVIOUS
  <1>1. SerialInv => OneRowPerProduct
    BY DEF SerialInv, SerialPart, Table, OneRowPerProduct
  <1>2. SerialInv /\ [Next]_vars => SerialInv'
    BY SerialInvStep
  <1> QED
    BY <1>1, <1>2, InitSerial, PTL DEF Spec

\* The cart that checkCart draws shows the product as it was posted: the hash is the user's rows
\* after updateCartCheck.
THEOREM ShowsOwnUpdateHolds == OneRequest => (Spec => []ShowsOwnUpdate)
  <1> SUFFICES ASSUME OneRequest PROVE Spec => []ShowsOwnUpdate
    OBVIOUS
  <1>1. SerialInv => ShowsOwnUpdate
    <2> SUFFICES ASSUME SerialInv, NEW r \in Requests, req[r].pc = "show",
                        NEW x \in OfSku(CatCache(req[r].user), req[r].item.skuId)
                 PROVE  x.isChecked = req[r].item.isChecked
      BY DEF ShowsOwnUpdate
    <2>1. /\ Stands(req[r], rows, nextId, hash, repeated) /\ req[r].kind = "check" /\ req[r].tx = {}
      BY SerialNow, TypesNow DEF KindKnown, InTransaction
    <2>2. CatCache(req[r].user) = OfUser(rows, req[r].user)
      BY <2>1 DEF Stands, HashStands, CatCache
    <2> QED
      BY <2>1, <2>2, OverlayNothing DEF Stands, MarkStands
  <1>2. SerialInv /\ [Next]_vars => SerialInv'
    BY SerialInvStep
  <1> QED
    BY <1>1, <1>2, InitSerial, PTL DEF Spec

\* A transaction without rows of its user to write to the hash finds the user without rows.
LEMMA NoRows ==
  ASSUME SerialInv, NEW r \in Requests, req[r].pc = "hmset", req[r].list = {}
  PROVE  OfUser(rows, req[r].user) = {}
  <1> DEFINE q == req[r]
  <1>1. OfUser(Overlay(rows, q.tx), q.user) = {} /\ KeepAll(q.tx, rows)
    BY SerialNow DEF Stands, HashStands, TxStands
  <1> QED
    BY <1>1 DEF OfUser, Overlay, KeepAll

\* A step of the only request, of another kind than the one looked at, leaves it alone.
LEMMA WhoMoves ==
  ASSUME SerialInv, OneRequest, NEW r \in Requests, [Next]_vars, req[r].pc # "idle"
  PROVE  Once(Serve(r)) \/ Repeat(r) \/ UNCHANGED req
  <1>1. ASSUME NEW b \in Browsers, Submit(r, b) PROVE FALSE
    BY <1>1 DEF Submit, AddToCart, CheckCart, Login, Arrive
  <1> QED
    BY <1>1 DEF Next, OneRequest, Once, SessionEnds, vars

\* A request that has written ends with the hash of its user equal to the user's rows
\* (syncCache after addToCart, updateCartCheck and combineCart).
THEOREM WritesThroughHolds == OneRequest => (Spec => WritesThrough)
  <1> SUFFICES ASSUME OneRequest PROVE Spec => WritesThrough
    OBVIOUS
  <1> DEFINE Wrote == \A r \in Requests : LET u == req[r].user IN
        req[r].pc \in {"write", "hmset", "commit"} /\ req'[r].pc \in {"idle", "show", "setToken"}
            => hash'[u] = OfUser(rows', u)
  <1>1. SerialInv /\ [Next]_vars => [Wrote]_vars
    <2> SUFFICES ASSUME SerialInv, [Next]_vars, NEW r \in Requests,
                        req[r].pc \in {"write", "hmset", "commit"},
                        req'[r].pc \in {"idle", "show", "setToken"}
                 PROVE  hash'[req[r].user] = OfUser(rows', req[r].user)
      OBVIOUS
    <2> DEFINE q == req[r]
    <2>1. Stands(q, rows, nextId, hash, repeated) /\ q \in Request /\ req = [s \in Requests |-> req[s]]
      BY SerialNow
    <2>2. Once(Serve(r)) \/ Repeat(r)
      BY WhoMoves
    <2>3. CASE q.pc = "write"
      <3>1. req'[r].pc \in {"select", "exists"}
        BY <2>1, <2>2, <2>3 DEF Once, Serve, SetCookie, IsCartExists, UpdateCart, SaveCart, UpdateCartCheck,
              BeginCombine, MergeLines, SelectRows, DelHash, HmsetHash, Commit, ShowCart, SetToken,
              Repeat, Goto, Request
      <3> QED
        BY <3>1
    <2>4. CASE q.pc = "hmset"
      <3>1. HmsetHash(r)
        BY <2>2, <2>4 DEF Once, Serve, SetCookie, IsCartExists, UpdateCart, SaveCart, UpdateCartCheck,
              BeginCombine, MergeLines, SelectRows, DelHash, Commit, ShowCart, SetToken, Repeat
      <3>2. q.list = {} /\ UNCHANGED <<rows, hash>>
        BY <2>1, <3>1 DEF HmsetHash, Goto, Request
      <3>3. hash[q.user] = {} /\ OfUser(rows, q.user) = {}
        BY <2>1, <2>4, <3>2, NoRows DEF Stands, HashStands
      <3> QED
        BY <3>2, <3>3 DEF OfUser
    <2>5. CASE q.pc = "commit"
      <3>1. Commit(r)
        BY <2>2, <2>5 DEF Once, Serve, SetCookie, IsCartExists, UpdateCart, SaveCart, UpdateCartCheck,
              BeginCombine, MergeLines, SelectRows, DelHash, HmsetHash, ShowCart, SetToken, Repeat
      <3>2. rows' = Overlay(rows, q.tx) /\ UNCHANGED hash
        BY <3>1 DEF Commit
      <3>3. hash[q.user] = OfUser(Overlay(rows, q.tx), q.user)
        BY <2>1, <2>5 DEF Stands, HashStands
      <3> QED
        BY <3>2, <3>3
    <2> QED
      BY <2>3, <2>4, <2>5
  <1>2. SerialInv /\ [Next]_vars => SerialInv'
    BY SerialInvStep
  <1> QED
    BY <1>1, <1>2, InitSerial, PTL DEF Spec, WritesThrough, Wrote

\* A login that gives no token (combineCart has thrown) changes neither the table nor the cookie
\* nor the session, and the user had no row, or a product of the cookie was in two rows.
THEOREM FailedLoginLeavesCartHolds == OneRequest => (Spec => FailedLoginLeavesCart)
  <1> SUFFICES ASSUME OneRequest PROVE Spec => FailedLoginLeavesCart
    OBVIOUS
  <1> DEFINE Left == \A r \in Requests : LET q == req[r] IN
        (Ends(r, "login") /\ q.pc # "setToken") =>
            /\ UNCHANGED <<rows, cookie, session>>
            /\ \/ OfUser(rows, q.user) = {}
               \/ \E l \in q.sent : Cardinality(OfSku(rows, l.skuId)) > 1
  <1>1. SerialInv /\ [Next]_vars => [Left]_vars
    <2> SUFFICES ASSUME SerialInv, [Next]_vars, NEW r \in Requests,
                        Ends(r, "login"), req[r].pc # "setToken"
                 PROVE  /\ UNCHANGED <<rows, cookie, session>>
                        /\ \/ OfUser(rows, req[r].user) = {}
                           \/ \E l \in req[r].sent : Cardinality(OfSku(rows, l.skuId)) > 1
      OBVIOUS
    <2> DEFINE q == req[r]
    <2>1. /\ q.kind = "login" /\ q.pc # "idle" /\ req'[r].pc = "idle" /\ q \in Request
          /\ req = [s \in Requests |-> req[s]] /\ KindKnown(q)
      BY SerialNow, TypesNow DEF Ends
    <2>2. Once(Serve(r)) \/ Repeat(r)
      BY <2>1, WhoMoves
    <2>3. HmsetHash(r) \/ BeginCombine(r)
      <3>1. q.pc \in {"exists", "write", "update", "merge", "select", "del", "show", "setCookie"}
              => FALSE
        <4>1. ~SetCookie(r) /\ ~IsCartExists(r) /\ ~ShowCart(r) /\ ~SetToken(r)
          BY <2>1 DEF SetCookie, IsCartExists, ShowCart, SetToken, KindKnown
        <4> QED
          BY <2>1, <2>2, <4>1
             DEF Once, Serve, UpdateCart, SaveCart, UpdateCartCheck, BeginCombine, MergeLines,
                 SelectRows, DelHash, HmsetHash, Commit, Repeat, Goto, Request
      <3>2. ~Commit(r) /\ ~Repeat(r)
        BY <2>1, <3>1 DEF Commit, Repeat, Request
      <3> QED
        BY <2>1, <2>2, <3>1, <3>2
           DEF Once, Serve, SetCookie, IsCartExists, UpdateCart, SaveCart, UpdateCartCheck,
               MergeLines, SelectRows, DelHash, ShowCart, SetToken
    <2>4. CASE HmsetHash(r)
      <3>1. q.pc = "hmset" /\ q.list = {} /\ UNCHANGED <<rows, cookie, session>>
        BY <2>1, <2>4 DEF HmsetHash, Goto, Request
      <3> QED
        BY <3>1, NoRows
    <2>5. CASE BeginCombine(r)
      <3>1. UNCHANGED <<rows, cookie, session>> /\ \E l \in q.sent : ~(Cardinality(Matching(rows, l)) <= 1)
        BY <2>1, <2>5 DEF BeginCombine, Request
      <3>2. PICK l \in q.sent : ~(Cardinality(OfSku(rows, l.skuId)) <= 1)
        BY <3>1 DEF Matching
      <3>3. OfSku(rows, l.skuId) \subseteq rows
        BY DEF OfSku
      <3>4. Cardinality(OfSku(rows, l.skuId)) \in Nat
        BY <3>3, FS_Subset, FS_CardinalityType DEF SerialInv, TypeInv
      <3> QED
        BY <3>1, <3>2, <3>4
    <2> QED
      BY <2>3, <2>4, <2>5
  <1>2. SerialInv /\ [Next]_vars => SerialInv'
    BY SerialInvStep
  <1> QED
    BY <1>1, <1>2, InitSerial, PTL DEF Spec, FailedLoginLeavesCart, Left

-----------------------------------------------------------------------------
(* One request at a time is one step of AtomicCart.                          *)

\* A row as AtomicCart has it.
PlainRow(x) == [userId |-> x.userId, skuId |-> x.skuId, skuNum |-> x.skuNum, isChecked |-> x.isChecked]

\* Rows without their ids: of two tables, of a part that their user and product tell apart.
LEMMA PlainParts ==
  ASSUME NEW S, NEW T
  PROVE  /\ Plain(S) = {PlainRow(x) : x \in S}
         /\ Plain(S \cup T) = Plain(S) \cup Plain(T)
         /\ \A u : Plain(OfUser(S, u)) = Atomic!OfUser(Plain(S), u)
         /\ \A s : Plain(OfSku(S, s)) = Atomic!OfSku(Plain(S), s)
  BY DEF Plain, PlainRow, OfUser, OfSku, Atomic!OfUser, Atomic!OfSku

\* More pieces for rows are more pieces for lines.
LEMMA PlainMore ==
  ASSUME NEW S, S \subseteq Row, NEW line
  PROVE  Plain(MorePieces(S, line)) = Atomic!More(Plain(S), line.skuNum)
  <1> DEFINE more(x) == [x EXCEPT !.skuNum = @ + line.skuNum]
  <1>1. \A x \in S : PlainRow(more(x)) = more(PlainRow(x))
    BY DEF Row, PlainRow
  <1>2. MorePieces(S, line) = {more(x) : x \in S}
    BY DEF MorePieces
  <1>3. Atomic!More(Plain(S), line.skuNum) = {more(x) : x \in Plain(S)}
    BY DEF Atomic!More
  <1> HIDE DEF more
  <1>4. Plain(MorePieces(S, line)) = {PlainRow(more(x)) : x \in S}
    BY <1>2, PlainParts
  <1>5. Atomic!More(Plain(S), line.skuNum) = {more(PlainRow(x)) : x \in S}
    BY <1>3, PlainParts
  <1> QED
    BY <1>1, <1>4, <1>5

\* Writes that replace the rows T, or add rows of new ids.
LEMMA OverlayUpdate ==
  ASSUME NEW S, NEW T, T \subseteq S, NEW W, \A x, y \in S : x.id = y.id => x = y,
         \A x \in T : \E w \in W : w.id = x.id,
         \A w \in W : (\E x \in T : w.id = x.id) \/ \A x \in S : w.id # x.id
  PROVE  Overlay(S, W) = (S \ T) \cup W
  <1>1. \A x \in S : (\A w \in W : w.id # x.id) <=> x \notin T
    OBVIOUS
  <1> QED
    BY <1>1 DEF Overlay

\* The step of updateCart, on lines.
LEMMA PlainUpdate ==
  ASSUME SerialInv, NEW r \in Requests, UpdateCart(r), req[r].kind = "add",
         req[r].found = OfSku(OfUser(rows, HomeUser), req[r].item.skuId), NEW line
  PROVE  Plain(rows') = Atomic!Put(Plain(rows),
             Atomic!OfSku(Atomic!OfUser(Plain(rows), HomeUser), req[r].item.skuId), line)
  <1> DEFINE q == req[r]
             T == OfSku(OfUser(rows, HomeUser), q.item.skuId)
             W == MorePieces(T, q.item)
             U == Atomic!OfSku(Atomic!OfUser(Plain(rows), HomeUser), q.item.skuId)
  <1>1. rows' = Overlay(rows, W) /\ T # {}
    BY DEF UpdateCart
  <1>2. rows \subseteq Row /\ \A x, y \in rows : x.id = y.id => x = y
    BY SerialNow, TypesNow DEF Table
  <1>3. T \subseteq rows /\ Plain(T) = U
    <2>1. T \subseteq rows
      BY DEF OfSku, OfUser
    <2>2. Plain(T) = U
      BY PlainParts
    <2> QED
      BY <2>1, <2>2
  <1>4. Plain(W) = Atomic!More(U, q.item.skuNum) /\ q.item.skuNum = 1
    <2>1. T \subseteq Row
      BY <1>2, <1>3
    <2> HIDE DEF T, U
    <2>2. Plain(W) = Atomic!More(Plain(T), q.item.skuNum)
      BY <2>1, PlainMore
    <2>3. q.item.skuNum = 1
      BY SerialNow, TypesNow DEF KindKnown
    <2> QED
      BY <1>3, <2>2, <2>3
  <1>5. rows' = (rows \ T) \cup W
    <2> HIDE DEF T
    <2>1. \A x \in T : [x EXCEPT !.skuNum = @ + q.item.skuNum].id = x.id
      BY <1>2, <1>3 DEF Row
    <2>2. (\A x \in T : \E w \in W : w.id = x.id) /\ \A w \in W : \E x \in T : w.id = x.id
      BY <2>1 DEF MorePieces
    <2> HIDE DEF W
    <2> QED
      BY <1>1, <1>2, <1>3, <2>2, OverlayUpdate
  <1>6. Plain(rows \ T) = Plain(rows) \ U
    BY DEF Plain, OfSku, OfUser, Atomic!OfSku, Atomic!OfUser
  <1>7. U # {}
    BY <1>1, <1>3 DEF Plain
  <1> HIDE DEF T, U, W
  <1>8. Plain(rows') = (Plain(rows) \ U) \cup Atomic!More(U, 1)
    BY <1>4, <1>5, <1>6, PlainParts
  <1> QED
    BY <1>7, <1>8 DEF Atomic!Put, U

\* The step of saveCart, on lines.
LEMMA PlainSave ==
  ASSUME SerialInv, NEW r \in Requests, SaveCart(r), req[r].item.isChecked = TRUE,
         OfSku(OfUser(rows, HomeUser), req[r].item.skuId) = {}
  PROVE  Plain(rows') = Atomic!Put(Plain(rows),
             Atomic!OfSku(Atomic!OfUser(Plain(rows), HomeUser), req[r].item.skuId),
             [userId |-> HomeUser, skuId |-> req[r].item.skuId, skuNum |-> 1, isChecked |-> TRUE])
  <1> DEFINE q   == req[r]
             new == NewRow(nextId, HomeUser, q.item)
  <1>1. rows' = rows \cup {new} /\ q.item.skuNum = 1
    BY SerialNow, TypesNow DEF SaveCart, KindKnown
  <1>2. Atomic!OfSku(Atomic!OfUser(Plain(rows), HomeUser), q.item.skuId) = {}
    <2>1. Plain({}) = {}
      BY DEF Plain
    <2> QED
      BY <2>1, PlainParts
  <1>3. Plain({new}) = {[userId |-> HomeUser, skuId |-> q.item.skuId, skuNum |-> 1, isChecked |-> TRUE]}
    <2>1. Plain({new}) = {PlainRow(new)}
      BY PlainParts
    <2> QED
      BY <1>1, <2>1 DEF PlainRow, NewRow
  <1> HIDE DEF new
  <1> QED
    BY <1>1, <1>2, <1>3, PlainParts DEF Atomic!Put

\* What updateCartCheck is about to leave behind, on lines.
LEMMA PlainMark ==
  ASSUME SerialInv, NEW r \in Requests, req[r].pc = "update"
  PROVE  LET q   == req[r]
             new == {[x EXCEPT !.isChecked = q.item.isChecked] :
                         x \in OfSku(OfUser(rows, q.user), q.item.skuId)} IN
         Plain(Overlay(rows, new))
           = Atomic!Mark(Plain(rows), Atomic!OfSku(Atomic!OfUser(Plain(rows), q.user), q.item.skuId),
                         q.item.isChecked)
  <1> DEFINE q == req[r]
             marked(x) == [x EXCEPT !.isChecked = q.item.isChecked]
             T == OfSku(OfUser(rows, q.user), q.item.skuId)
             W == {marked(x) : x \in T}
             U == Atomic!OfSku(Atomic!OfUser(Plain(rows), q.user), q.item.skuId)
  <1>1. rows \subseteq Row /\ \A x, y \in rows : x.id = y.id => x = y
    BY SerialNow, TypesNow DEF Table
  <1>2. T \subseteq rows
    BY DEF OfSku, OfUser
  <1>3. Plain(T) = U
    BY PlainParts
  <1>4. Plain(rows \ T) = Plain(rows) \ U
    BY DEF Plain, OfSku, OfUser, Atomic!OfSku, Atomic!OfUser
  <1>5. Atomic!Mark(Plain(rows), U, q.item.isChecked) = (Plain(rows) \ U) \cup {marked(l) : l \in U}
    BY DEF Atomic!Mark
  <1> HIDE DEF T, U, q
  <1>6. \A x \in T : marked(x).id = x.id /\ PlainRow(marked(x)) = marked(PlainRow(x))
    BY <1>1, <1>2 DEF Row, PlainRow
  <1> HIDE DEF marked
  <1>7. (\A x \in T : \E w \in W : w.id = x.id) /\ \A w \in W : \E x \in T : w.id = x.id
    BY <1>6
  <1>8. Plain(W) = {marked(l) : l \in Plain(T)}
    <2>1. Plain(W) = {PlainRow(marked(x)) : x \in T}
      BY PlainParts
    <2>2. {marked(l) : l \in Plain(T)} = {marked(PlainRow(x)) : x \in T}
      BY PlainParts
    <2> QED
      BY <1>6, <2>1, <2>2
  <1> HIDE DEF W
  <1>9. Overlay(rows, W) = (rows \ T) \cup W
    BY <1>1, <1>2, <1>7, OverlayUpdate
  <1>10. Plain(Overlay(rows, W)) = Atomic!Mark(Plain(rows), U, q.item.isChecked)
    BY <1>3, <1>4, <1>5, <1>8, <1>9, PlainParts
  <1> QED
    BY <1>10 DEF W, marked, T, U, q

\* The lines that combineCart adds to, and the lines that are new.
LEMMA PlainMergeRows ==
  ASSUME SerialInv, NEW r \in Requests, req[r].pc = "merge"
  PROVE  LET q == req[r] IN
         /\ Plain(MergeRows(q)) = UNION {Atomic!More(Atomic!OfSku(Plain(rows), l.skuId), l.skuNum) : l \in q.sent}
         /\ Plain(MergeNew(q))
              = {Atomic!LineOf(q.user, l) : l \in {m \in q.sent : Atomic!OfSku(Plain(rows), m.skuId) = {}}}
  <1> DEFINE q == req[r]
             part(l) == MorePieces(Matching(q.base, l), l)
             lines(l) == Atomic!More(Atomic!OfSku(Plain(rows), l.skuId), l.skuNum)
             row(l) == NewRow(MergeOrder(q)[l], q.user, l)
  <1>1. q.base = rows /\ rows \subseteq Row
    BY SerialNow, TypesNow DEF Stands, BaseStands
  <1> HIDE DEF q
  <1>2. \A l \in q.sent : Plain(part(l)) = lines(l)
    <2> SUFFICES ASSUME NEW l \in q.sent PROVE Plain(part(l)) = lines(l)
      OBVIOUS
    <2>1. Matching(q.base, l) = OfSku(rows, l.skuId) /\ OfSku(rows, l.skuId) \subseteq Row
      BY <1>1 DEF Matching, OfSku
    <2>2. Plain(MorePieces(OfSku(rows, l.skuId), l)) = Atomic!More(Plain(OfSku(rows, l.skuId)), l.skuNum)
      BY <2>1, PlainMore
    <2> QED
      BY <2>1, <2>2, PlainParts
  <1>3. MergeRows(q) = UNION {part(l) : l \in q.sent}
    BY DEF MergeRows
  <1>4. MergeNew(q) = {row(l) : l \in Fresh(q)}
    BY DEF MergeNew
  <1>5. \A l \in q.sent : PlainRow(row(l)) = Atomic!LineOf(q.user, l)
    BY DEF PlainRow, NewRow, Atomic!LineOf
  <1>6. Fresh(q) = {m \in q.sent : Atomic!OfSku(Plain(rows), m.skuId) = {}}
    <2>1. \A l \in q.sent : OfSku(rows, l.skuId) = {} <=> Plain(OfSku(rows, l.skuId)) = {}
      BY DEF Plain
    <2> QED
      BY <1>1, <2>1, PlainParts DEF Fresh, Matching
  <1> HIDE DEF part, lines, row
  <1>7. Plain(MergeRows(q)) = UNION {lines(l) : l \in q.sent}
    <2>1. Plain(MergeRows(q)) = {PlainRow(x) : x \in UNION {part(l) : l \in q.sent}}
      BY <1>3, PlainParts
    <2>2. \A l \in q.sent : lines(l) = {PlainRow(x) : x \in part(l)}
      BY <1>2, PlainParts
    <2> QED
      BY <2>1, <2>2
  <1>8. Plain(MergeNew(q)) = {Atomic!LineOf(q.user, l) : l \in Fresh(q)}
    <2>1. Plain(MergeNew(q)) = {PlainRow(row(l)) : l \in Fresh(q)}
      BY <1>4, PlainParts
    <2>2. Fresh(q) \subseteq q.sent
      BY DEF Fresh
    <2> QED
      BY <1>5, <2>1, <2>2
  <1> QED
    BY <1>6, <1>7, <1>8 DEF q, lines

\* The rows of the products of the cookie are replaced by a merge.
LEMMA MergeOverlay ==
  ASSUME SerialInv, NEW r \in Requests, req[r].pc = "merge"
  PROVE  LET q == req[r]
             W == MergeRows(q) \cup MergeNew(q) IN
         /\ Overlay(rows, W) = (rows \ {x \in rows : \E l \in q.sent : l.skuId = x.skuId}) \cup W
         /\ \A w \in MergeRows(q) :
                \E x \in rows : w.id = x.id /\ \E l \in q.sent : l.skuId = x.skuId
         /\ \A w \in MergeNew(q) : \A x \in rows : w.id # x.id
  <1> DEFINE q == req[r]
             T == {x \in rows : \E l \in q.sent : l.skuId = x.skuId}
             W == MergeRows(q) \cup MergeNew(q)
  <1>1. /\ q.base = rows /\ rows \subseteq Row /\ \A x, y \in rows : x.id = y.id => x = y
        /\ \A x \in rows : x.id < nextId
    BY SerialNow, TypesNow DEF Stands, BaseStands, Table
  <1>2. nextId \in Nat /\ Cardinality(Fresh(q)) \in Nat /\ MergeOrder(q) \in [Fresh(q) -> MergeIds(q)]
    BY SerialNow, MergeNumbers
  <1> HIDE DEF q
  <1>3. ASSUME NEW x \in T PROVE \E w \in W : w.id = x.id
    <2>1. PICK l \in q.sent : l.skuId = x.skuId
      OBVIOUS
    <2> DEFINE w == [x EXCEPT !.skuNum = @ + l.skuNum]
    <2>2. w \in MorePieces(Matching(q.base, l), l)
      BY <1>1, <2>1 DEF MorePieces, Matching, OfSku
    <2>3. w.id = x.id
      BY <1>1 DEF Row
    <2> HIDE DEF w
    <2>4. w \in MergeRows(q)
      BY <2>2 DEF MergeRows
    <2> QED
      BY <2>3, <2>4
  <1>4. ASSUME NEW w \in MergeRows(q) PROVE \E x \in T : w.id = x.id
    <2>1. PICK l \in q.sent : w \in MorePieces(Matching(q.base, l), l)
      BY DEF MergeRows
    <2>2. PICK x \in Matching(q.base, l) : w = [x EXCEPT !.skuNum = @ + l.skuNum]
      BY <2>1 DEF MorePieces
    <2>3. x \in rows /\ l.skuId = x.skuId
      BY <1>1, <2>2 DEF Matching, OfSku
    <2>4. w.id = x.id
      BY <1>1, <2>2, <2>3 DEF Row
    <2> QED
      BY <2>3, <2>4
  <1>5. ASSUME NEW w \in MergeNew(q), NEW x \in rows PROVE w.id # x.id
    <2>1. PICK l \in Fresh(q) : w = NewRow(MergeOrder(q)[l], q.user, l)
      BY DEF MergeNew
    <2>2. w.id = MergeOrder(q)[l]
      BY <2>1 DEF NewRow
    <2>3. MergeOrder(q)[l] \in Nat /\ MergeOrder(q)[l] >= nextId
      BY <1>2 DEF MergeIds
    <2>4. x.id \in Nat /\ x.id < nextId
      BY <1>1 DEF Row
    <2> QED
      BY <1>2, <2>2, <2>3, <2>4
  <1>6. Overlay(rows, W) = (rows \ T) \cup W
    <2>1. T \subseteq rows
      OBVIOUS
    <2>2. \A x \in T : \E w \in W : w.id = x.id
      BY <1>3
    <2>3. \A w \in W : (\E x \in T : w.id = x.id) \/ \A x \in rows : w.id # x.id
      BY <1>4, <1>5
    <2> HIDE DEF T, W
    <2> QED
      BY <1>1, <2>1, <2>2, <2>3, OverlayUpdate
  <1> QED
    BY <1>4, <1>5, <1>6 DEF q, T, W

\* What combineCart is about to leave behind, on lines.
LEMMA PlainMerge ==
  ASSUME SerialInv, NEW r \in Requests, req[r].pc = "merge"
  PROVE  LET q == req[r] IN
         /\ Plain(Overlay(rows, MergeRows(q) \cup MergeNew(q))) = Atomic!Merged(Plain(rows), q.sent, q.user)
         /\ \A l \in q.sent : \A x, y \in Atomic!OfSku(Plain(rows), l.skuId) : x = y
  <1> DEFINE q == req[r]
             T == {x \in rows : \E l \in q.sent : l.skuId = x.skuId}
             W == MergeRows(q) \cup MergeNew(q)
  <1>1. q.base = rows /\ \A l \in q.sent : \A x, y \in Matching(rows, l) : x = y
    BY SerialNow DEF Stands, BaseStands
  <1>2. Overlay(rows, W) = (rows \ T) \cup W
    BY MergeOverlay
  <1> HIDE DEF q
  <1>3. Plain(rows \ T) = {x \in Plain(rows) : \A l \in q.sent : l.skuId # x.skuId}
    <2>1. \A x \in rows : PlainRow(x).skuId = x.skuId
      BY DEF PlainRow
    <2>2. Plain(rows \ T) = {PlainRow(x) : x \in rows \ T} /\ Plain(rows) = {PlainRow(x) : x \in rows}
      BY PlainParts
    <2>3. \A x \in rows : x \in T <=> \E l \in q.sent : l.skuId = PlainRow(x).skuId
      BY <2>1
    <2> HIDE DEF T
    <2> QED
      BY <2>2, <2>3
  <1> HIDE DEF T
  <1>4. Plain(Overlay(rows, W)) = Plain(rows \ T) \cup Plain(MergeRows(q)) \cup Plain(MergeNew(q))
    <2>1. /\ Plain((rows \ T) \cup W) = Plain(rows \ T) \cup Plain(W)
          /\ Plain(W) = Plain(MergeRows(q)) \cup Plain(MergeNew(q))
      BY PlainParts
    <2> HIDE DEF W
    <2> QED
      BY <1>2, <2>1
  <1>5. \A l \in q.sent : \A x, y \in Atomic!OfSku(Plain(rows), l.skuId) : x = y
    <2> SUFFICES ASSUME NEW l \in q.sent PROVE \A x, y \in Atomic!OfSku(Plain(rows), l.skuId) : x = y
      OBVIOUS
    <2>1. \A x, y \in OfSku(rows, l.skuId) : x = y
      BY <1>1 DEF Matching
    <2>2. Atomic!OfSku(Plain(rows), l.skuId) = {PlainRow(x) : x \in OfSku(rows, l.skuId)}
      BY PlainParts
    <2> QED
      BY <2>1, <2>2
  <1>6. /\ Plain(MergeRows(q)) = (UNION {Atomic!More(Atomic!OfSku(Plain(rows), l.skuId), l.skuNum) : l \in q.sent})
         /\ Plain(MergeNew(q))
              = {Atomic!LineOf(q.user, l) : l \in {m \in q.sent : Atomic!OfSku(Plain(rows), m.skuId) = {}}}
    BY PlainMergeRows DEF q
  <1>7. Plain(Overlay(rows, W)) = Atomic!Merged(Plain(rows), q.sent, q.user)
    BY <1>3, <1>4, <1>6 DEF Atomic!Merged
  <1> QED
    BY <1>5, <1>7 DEF q, W

\* A cookie's lines, as AtomicCart changes them.
LEMMA CookieLines ==
  ASSUME NEW lines, lines \subseteq Line, NEW item \in Line, item.skuNum = 1
  PROVE  /\ PutLine(lines, item) = Atomic!Put(lines, Atomic!OfSku(lines, item.skuId), item)
         /\ CheckLine(lines, item) = Atomic!Mark(lines, Atomic!OfSku(lines, item.skuId), item.isChecked)
  <1> DEFINE more(l)   == [l EXCEPT !.skuNum = @ + 1]
             marked(l) == [l EXCEPT !.isChecked = item.isChecked]
             T == Atomic!OfSku(lines, item.skuId)
  <1>1. T = OfSku(lines, item.skuId) /\ T = {l \in lines : l.skuId = item.skuId}
    BY DEF OfSku, Atomic!OfSku
  <1>2. Atomic!More(T, 1) = {more(l) : l \in T}
    BY DEF Atomic!More
  <1>3. Atomic!Mark(lines, T, item.isChecked) = (lines \ T) \cup {marked(l) : l \in T}
    BY DEF Atomic!Mark
  <1>4. CheckLine(lines, item) = {IF l.skuId = item.skuId THEN marked(l) ELSE l : l \in lines}
    BY DEF CheckLine
  <1>5. PutLine(lines, item) = IF T = {} THEN lines \cup {item}
                               ELSE {IF l.skuId = item.skuId THEN more(l) ELSE l : l \in lines}
    BY <1>1 DEF PutLine
  <1> HIDE DEF more, marked, T
  <1>6. {IF l.skuId = item.skuId THEN marked(l) ELSE l : l \in lines} = (lines \ T) \cup {marked(l) : l \in T}
    BY <1>1
  <1>7. {IF l.skuId = item.skuId THEN more(l) ELSE l : l \in lines} = (lines \ T) \cup {more(l) : l \in T}
    BY <1>1
  <1>8. PutLine(lines, item) = Atomic!Put(lines, T, item)
    BY <1>2, <1>5, <1>7 DEF Atomic!Put
  <1>9. CheckLine(lines, item) = Atomic!Mark(lines, T, item.isChecked)
    BY <1>3, <1>4, <1>6
  <1> QED
    BY <1>8, <1>9 DEF T

-----------------------------------------------------------------------------
\* What a request carries: the cookie and the session of its browser, what it has found, and, while it
\* is in a transaction, the lines that the step of AtomicCart will leave.
Carries(q, S, c, s, k) ==
    /\ q.pc # "idle" => q.sent = c[q.browser]
    /\ q.pc = "setCookie" => s[q.browser] = Guest
    /\ q.pc # "idle" /\ q.kind \in {"addCookie", "add"} => q.item.isChecked = TRUE
    /\ q.pc = "write" /\ k = 0 => q.found = OfSku(OfUser(S, HomeUser), q.item.skuId)
    /\ q.pc = "commit" => q.list # {}
    /\ q.pc \in InTransaction /\ q.kind = "check" =>
           Plain(Overlay(S, q.tx))
             = Atomic!Mark(Plain(S), Atomic!OfSku(Atomic!OfUser(Plain(S), q.user), q.item.skuId),
                           q.item.isChecked)
    /\ q.pc \in InTransaction /\ q.kind = "login" =>
           /\ Plain(Overlay(S, q.tx)) = Atomic!Merged(Plain(S), q.sent, q.user)
           /\ \A l \in q.sent : \A x, y \in Atomic!OfSku(Plain(S), l.skuId) : x = y

AtomicInv ==
    /\ SerialInv
    /\ \A r \in Requests : Carries(req[r], rows, cookie, session, repeated)

\* A login without a cookie leaves the lines as they are.
LEMMA MergedNothing ==
  ASSUME NEW S, NEW u
  PROVE  Plain(Overlay(S, {})) = Atomic!Merged(Plain(S), {}, u)
  <1>1. Atomic!Merged(Plain(S), {}, u) = Plain(S)
    BY DEF Atomic!Merged
  <1> QED
    BY <1>1, OverlayNothing

\* No request carries anything.
LEMMA InitAtomicInv == Init => AtomicInv
  <1> SUFFICES ASSUME Init PROVE AtomicInv
    OBVIOUS
  <1>1. \A r \in Requests : req[r].pc = "idle"
    BY DEF Init, NoRequest, NewRequest
  <1> QED
    BY <1>1, InitSerial DEF AtomicInv, Carries, InTransaction

\* What the invariant says of a request, and of the one after a step.
LEMMA CarriesNow ==
  ASSUME AtomicInv, NEW r \in Requests
  PROVE  /\ SerialInv /\ Carries(req[r], rows, cookie, session, repeated)
         /\ req[r] \in Request /\ req = [s \in Requests |-> req[s]]
         /\ KindKnown(req[r]) /\ (req[r].pc \notin InTransaction => req[r].tx = {})
         /\ cookie \in [Browsers -> SUBSET Line] /\ session \in [Browsers -> Users \cup {Guest}]
  <1>1. SerialInv
    BY DEF AtomicInv
  <1>2. /\ req[r] \in Request /\ req = [s \in Requests |-> req[s]]
        /\ (req[r].pc \notin InTransaction => req[r].tx = {})
    BY <1>1, SerialNow
  <1>3. KindKnown(req[r])
    BY <1>1, TypesNow DEF SerialInv
  <1>4. cookie \in [Browsers -> SUBSET Line] /\ session \in [Browsers -> Users \cup {Guest}]
    BY <1>1 DEF SerialInv, TypeInv, TypeOK
  <1> QED
    BY <1>1, <1>2, <1>3, <1>4 DEF AtomicInv

\* A request that ends carries nothing.
LEMMA CarriesDone ==
  ASSUME NEW S, NEW c, NEW s, NEW k
  PROVE  Carries(NoRequest, S, c, s, k)
  BY DEF Carries, NoRequest, NewRequest, InTransaction

\* A request moves on within its transaction.
LEMMA CarryOn ==
  ASSUME NEW q, NEW p, NEW S, NEW c, NEW s, NEW k, Carries(q, S, c, s, k),
         q.pc \in InTransaction, p.pc \in InTransaction, Same(q, p), p.browser = q.browser,
         p.tx = q.tx, p.pc = "commit" => p.list # {}
  PROVE  Carries(p, S, c, s, k)
  BY DEF Carries, Same, InTransaction

\* A request moves on outside of one.
LEMMA CarryOutside ==
  ASSUME NEW q, NEW p, NEW S, NEW T, NEW c, NEW s, NEW k, NEW j, Carries(q, S, c, s, k),
         q.pc # "idle", p.pc \notin InTransaction \cup {"setCookie"}, Same(q, p), p.browser = q.browser,
         p.pc = "write" /\ j = 0 => p.found = OfSku(OfUser(T, HomeUser), p.item.skuId)
  PROVE  Carries(p, T, c, s, j)
  BY DEF Carries, Same, InTransaction

\* The calls of addToCart and checkCart.
LEMMA CarriesCalls ==
  ASSUME AtomicInv, NEW r \in Requests, UNCHANGED repeated,
         IsCartExists(r) \/ UpdateCart(r) \/ SaveCart(r) \/ UpdateCartCheck(r)
  PROVE  Carries(req'[r], rows', cookie', session', repeated')
  <1> DEFINE q == req[r]
  <1>1. /\ SerialInv /\ Carries(q, rows, cookie, session, repeated) /\ q \in Request
        /\ req = [t \in Requests |-> req[t]] /\ KindKnown(q)
    BY CarriesNow
  <1>2. CASE IsCartExists(r)
    <2> DEFINE match == OfSku(OfUser(rows, HomeUser), q.item.skuId)
               p == [q EXCEPT !.pc = "write", !.found = match]
    <2>1. CASE req' = [req EXCEPT ![r].pc = "write", ![r].found = match]
      <3>1. req'[r] = p
        BY <1>1, <2>1
      <3>2. /\ Same(q, p) /\ p.browser = q.browser /\ p.pc = "write" /\ p.found = match
            /\ p.found = OfSku(OfUser(rows, HomeUser), p.item.skuId)
        BY <1>1 DEF Request, Same
      <3> HIDE DEF p
      <3> QED
        BY <1>1, <1>2, <3>1, <3>2, CarryOutside DEF IsCartExists, InTransaction
    <2>2. CASE Done(r)
      BY <1>1, <2>2, CarriesDone DEF Done
    <2> QED
      BY <1>2, <2>1, <2>2 DEF IsCartExists
  <1>3. CASE UpdateCart(r) \/ SaveCart(r)
    <2> DEFINE p == [q EXCEPT !.pc = "select"]
    <2>1. req'[r] = p /\ q.pc = "write" /\ UNCHANGED <<cookie, session>>
      BY <1>1, <1>3 DEF UpdateCart, SaveCart, Goto
    <2>2. Same(q, p) /\ p.browser = q.browser /\ p.pc = "select"
      BY <1>1 DEF Request, Same
    <2>3. q.kind = "add"
      BY <1>1, <2>1 DEF KindKnown
    <2> HIDE DEF p
    <2> QED
      BY <1>1, <2>1, <2>2, <2>3 DEF Carries, Same
  <1>4. CASE UpdateCartCheck(r)
    <2> DEFINE new == {[x EXCEPT !.isChecked = q.item.isChecked] :
                          x \in OfSku(OfUser(rows, q.user), q.item.skuId)}
               p == [q EXCEPT !.pc = "select", !.tx = new]
    <2>1. req'[r] = p /\ q.pc = "update" /\ UNCHANGED <<rows, cookie, session>>
      BY <1>1, <1>4 DEF UpdateCartCheck
    <2>2. Same(q, p) /\ p.browser = q.browser /\ p.pc = "select" /\ p.tx = new
      BY <1>1 DEF Request, Same
    <2>3. q.kind = "check"
      BY <1>1, <2>1 DEF KindKnown
    <2>4. Plain(Overlay(rows, new))
            = Atomic!Mark(Plain(rows), Atomic!OfSku(Atomic!OfUser(Plain(rows), q.user), q.item.skuId),
                          q.item.isChecked)
      BY <1>1, <2>1, PlainMark
    <2> HIDE DEF p, new
    <2> QED
      BY <1>1, <2>1, <2>2, <2>3, <2>4 DEF Carries, Same
  <1> QED
    BY <1>2, <1>3, <1>4

\* combineCart.
LEMMA CarriesCombine ==
  ASSUME AtomicInv, NEW r \in Requests, UNCHANGED repeated, BeginCombine(r) \/ MergeLines(r)
  PROVE  Carries(req'[r], rows', cookie', session', repeated')
  <1> DEFINE q == req[r]
  <1>1. /\ SerialInv /\ Carries(q, rows, cookie, session, repeated) /\ q \in Request
        /\ req = [t \in Requests |-> req[t]] /\ KindKnown(q)
    BY CarriesNow
  <1>2. CASE BeginCombine(r)
    <2> DEFINE p == [q EXCEPT !.pc = "merge", !.base = rows]
    <2>1. CASE req' = [req EXCEPT ![r].pc = "merge", ![r].base = rows]
      <3>1. req'[r] = p
        BY <1>1, <2>1
      <3>2. Same(q, p) /\ p.browser = q.browser /\ p.pc = "merge"
        BY <1>1 DEF Request, Same
      <3> HIDE DEF p
      <3> QED
        BY <1>1, <1>2, <3>1, <3>2, CarryOutside DEF BeginCombine, InTransaction
    <2>2. CASE Done(r)
      BY <1>1, <2>2, CarriesDone DEF Done
    <2> QED
      BY <1>2, <2>1, <2>2 DEF BeginCombine
  <1>3. CASE MergeLines(r)
    <2> DEFINE tx == MergeRows(q) \cup MergeNew(q)
               p  == [q EXCEPT !.pc = "select", !.tx = tx]
    <2>1. /\ q.pc = "merge" /\ UNCHANGED <<rows, cookie, session>>
          /\ req' = [req EXCEPT ![r] = p]
      BY <1>1, <1>3, MergeEffect DEF SerialInv
    <2>2. Same(q, p) /\ p.browser = q.browser /\ p.pc = "select" /\ p.tx = tx
      BY <1>1 DEF Request, Same
    <2>3. q.kind = "login"
      BY <1>1, <2>1 DEF KindKnown
    <2>4. /\ Plain(Overlay(rows, tx)) = Atomic!Merged(Plain(rows), q.sent, q.user)
          /\ \A l \in q.sent : \A x, y \in Atomic!OfSku(Plain(rows), l.skuId) : x = y
      BY <1>1, <2>1, PlainMerge
    <2> HIDE DEF p, tx
    <2>5. req'[r] = p
      BY <1>1, <2>1
    <2> QED
      BY <1>1, <2>1, <2>2, <2>3, <2>4, <2>5 DEF Carries, Same
  <1> QED
    BY <1>2, <1>3

\* syncCache and the commit.
LEMMA CarriesSync ==
  ASSUME AtomicInv, NEW r \in Requests, UNCHANGED repeated,
         SelectRows(r) \/ DelHash(r) \/ HmsetHash(r) \/ Commit(r)
  PROVE  Carries(req'[r], rows', cookie', session', repeated')
  <1> DEFINE q == req[r]
  <1>1. /\ Carries(q, rows, cookie, session, repeated) /\ q \in Request
        /\ req = [t \in Requests |-> req[t]]
    BY CarriesNow
  <1>2. CASE SelectRows(r)
    <2> DEFINE base == IF q.kind = "login" /\ q.sent # {} THEN q.base ELSE rows
               list == OfUser(Overlay(base, q.tx), q.user)
               p    == [q EXCEPT !.pc = "del", !.list = list]
    <2>1. req'[r] = p /\ q.pc = "select" /\ UNCHANGED <<rows, cookie, session>>
      BY <1>1, <1>2 DEF SelectRows
    <2> HIDE DEF list
    <2>2. Same(q, p) /\ p.browser = q.browser /\ p.pc = "del" /\ p.tx = q.tx
      BY <1>1 DEF Request, Same
    <2> HIDE DEF p
    <2> QED
      BY <1>1, <2>1, <2>2, CarryOn DEF InTransaction
  <1>3. CASE DelHash(r)
    <2> DEFINE p == [q EXCEPT !.pc = "hmset"]
    <2>1. req'[r] = p /\ q.pc = "del" /\ UNCHANGED <<rows, cookie, session>>
      BY <1>1, <1>3 DEF DelHash, Goto
    <2>2. Same(q, p) /\ p.browser = q.browser /\ p.pc = "hmset" /\ p.tx = q.tx
      BY <1>1 DEF Request, Same
    <2> HIDE DEF p
    <2> QED
      BY <1>1, <2>1, <2>2, CarryOn DEF InTransaction
  <1>4. CASE HmsetHash(r)
    <2> DEFINE p == [q EXCEPT !.pc = "commit"]
    <2>1. CASE q.list # {} /\ Goto(r, "commit")
      <3>1. req'[r] = p /\ q.pc = "hmset" /\ UNCHANGED <<rows, cookie, session>>
        BY <1>1, <1>4, <2>1 DEF HmsetHash, Goto
      <3>2. Same(q, p) /\ p.browser = q.browser /\ p.pc = "commit" /\ p.tx = q.tx /\ p.list = q.list
        BY <1>1 DEF Request, Same
      <3> HIDE DEF p
      <3> QED
        BY <1>1, <2>1, <3>1, <3>2, CarryOn DEF InTransaction
    <2>2. CASE Done(r)
      BY <1>1, <2>2, CarriesDone DEF Done
    <2> QED
      BY <1>4, <2>1, <2>2 DEF HmsetHash
  <1>5. CASE Commit(r)
    <2>1. CASE Done(r)
      BY <1>1, <2>1, CarriesDone DEF Done
    <2>2. ASSUME NEW label \in {"show", "setToken"}, req' = [req EXCEPT ![r].pc = label, ![r].tx = {}]
          PROVE  Carries(req'[r], rows', cookie', session', repeated')
      <3> DEFINE p == [q EXCEPT !.pc = label, !.tx = {}]
      <3>1. req'[r] = p /\ q.pc = "commit" /\ UNCHANGED <<cookie, session>>
        BY <1>1, <1>5, <2>2 DEF Commit
      <3>2. Same(q, p) /\ p.browser = q.browser /\ p.pc = label
        BY <1>1 DEF Request, Same
      <3> HIDE DEF p
      <3> QED
        BY <1>1, <3>1, <3>2, CarryOutside DEF InTransaction
    <2> QED
      BY <1>5, <2>1, <2>2 DEF Commit
  <1> QED
    BY <1>2, <1>3, <1>4, <1>5

\* A request arrives.
LEMMA CarriesSubmit ==
  ASSUME AtomicInv, NEW r \in Requests, NEW b \in Browsers, Submit(r, b)
  PROVE  Carries(req'[r], rows', cookie', session', repeated')
  <1>1. PICK label, kind, user, item :
             /\ Arrive(r, b, kind, user, item, label)
             /\ label \in {"setCookie", "exists", "update", "begin", "select"}
             /\ label = "setCookie" => session[b] = Guest
             /\ kind \in {"addCookie", "add"} => item.isChecked = TRUE
             /\ label = "select" => kind = "login" /\ cookie[b] = {}
    <2>1. ASSUME NEW s \in Skus, AddToCart(r, b, s)
          PROVE  \E label, kind, user, item :
                    /\ Arrive(r, b, kind, user, item, label)
                    /\ label \in {"setCookie", "exists"}
                    /\ label = "setCookie" => session[b] = Guest
                    /\ item.isChecked = TRUE
      <3> DEFINE new == [skuId |-> s, skuNum |-> 1, isChecked |-> TRUE]
      <3>1. new.isChecked = TRUE
        OBVIOUS
      <3>2. \/ session[b] = Guest /\ Arrive(r, b, "addCookie", Guest, new, "setCookie")
            \/ Arrive(r, b, "add", session[b], new, "exists")
        BY <2>1 DEF AddToCart
      <3> HIDE DEF new
      <3> QED
        BY <3>1, <3>2
    <2>2. ASSUME NEW s \in Skus, CheckCart(r, b, s)
          PROVE  \E label, kind, user, item :
                    /\ Arrive(r, b, kind, user, item, label)
                    /\ label \in {"setCookie", "update"}
                    /\ label = "setCookie" => session[b] = Guest
                    /\ kind \in {"checkCookie", "check"}
      BY <2>2 DEF CheckCart
    <2>3. ASSUME NEW u \in Users, Login(r, b, u)
          PROVE  \E label, kind, user, item :
                    /\ Arrive(r, b, kind, user, item, label)
                    /\ label \in {"begin", "select"}
                    /\ kind = "login"
                    /\ label = "select" => cookie[b] = {}
      BY <2>3 DEF Login, CombineLabel
    <2> QED
      BY <2>1, <2>2, <2>3 DEF Submit
  <1> DEFINE p == NewRequest(label, kind, b, user, item, cookie[b])
  <1>2. /\ p.pc = label /\ p.kind = kind /\ p.sent = cookie[b] /\ p.browser = b /\ p.item = item
        /\ p.user = user /\ p.tx = {}
    BY DEF NewRequest
  <1>3. req' = [req EXCEPT ![r] = p] /\ UNCHANGED <<rows, cookie, session>>
    BY <1>1 DEF Arrive
  <1> HIDE DEF p
  <1>4. req'[r] = p
    BY <1>3, CarriesNow
  <1>5. Plain(Overlay(rows, {})) = Atomic!Merged(Plain(rows), {}, user)
    BY MergedNothing
  <1> QED
    BY <1>1, <1>2, <1>3, <1>4, <1>5 DEF Carries, InTransaction

\* A call is repeated, with the same arguments.
LEMMA CarriesRepeat ==
  ASSUME AtomicInv, NEW r \in Requests, Repeat(r)
  PROVE  Carries(req'[r], rows', cookie', session', repeated')
  <1> DEFINE q == req[r]
  <1>1. /\ SerialInv /\ Carries(q, rows, cookie, session, repeated) /\ q \in Request
        /\ req = [t \in Requests |-> req[t]] /\ KindKnown(q)
        /\ (q.pc \notin InTransaction => q.tx = {})
    BY CarriesNow
  <1>2. repeated' > 0 /\ UNCHANGED <<rows, cookie, session>>
    BY <1>1, SerialNow DEF Repeat
  <1>3. PICK label :
            /\ Goto(r, label)
            /\ \/ q.pc = "write" /\ label = "exists"
               \/ q.pc = "select" /\ q.kind = "add" /\ label = "write"
               \/ q.pc = "show" /\ label = "update"
               \/ q.pc = "setToken" /\ label = CombineLabel(q.sent)
    BY DEF Repeat
  <1> DEFINE p == [q EXCEPT !.pc = label]
  <1>4. Same(q, p) /\ p.browser = q.browser /\ p.pc = label /\ p.tx = q.tx
    BY <1>1 DEF Request, Same
  <1>5. req'[r] = p
    BY <1>1, <1>3 DEF Goto
  <1> HIDE DEF p
  <1>6. CASE label # "select"
    <2>1. label \in {"exists", "write", "update", "begin"}
      BY <1>3, <1>6 DEF CombineLabel
    <2>2. q.pc # "idle" /\ repeated' # 0
      BY <1>2, <1>3
    <2> QED
      BY <1>1, <1>2, <1>4, <1>5, <2>1, <2>2, CarryOutside DEF InTransaction
  <1>7. CASE label = "select"
    <2>1. q.pc = "setToken" /\ q.sent = {} /\ q.kind = "login" /\ q.tx = {}
      BY <1>1, <1>3, <1>7 DEF CombineLabel, KindKnown, InTransaction
    <2>2. Plain(Overlay(rows, {})) = Atomic!Merged(Plain(rows), {}, q.user)
      BY MergedNothing
    <2> QED
      BY <1>1, <1>2, <1>4, <1>5, <1>7, <2>1, <2>2 DEF Carries, Same
  <1> QED
    BY <1>6, <1>7

\* Every step keeps the invariant, as long as requests come one at a time.
LEMMA AtomicInvStep ==
  ASSUME OneRequest
  PROVE  AtomicInv /\ [Next]_vars => AtomicInv'
  <1> SUFFICES ASSUME AtomicInv, [Next]_vars
               PROVE  \A r \in Requests : Carries(req'[r], rows', cookie', session', repeated')
    BY SerialInvStep DEF AtomicInv
  <1>1. ASSUME NEW r \in Requests, Once(Serve(r))
        PROVE  Carries(req'[r], rows', cookie', session', repeated')
    <2>1. CASE SetCookie(r) \/ ShowCart(r) \/ SetToken(r)
      <3>1. req'[r] = NoRequest
        BY <2>1, CarriesNow DEF SetCookie, ShowCart, SetToken, Done
      <3> QED
        BY <3>1, CarriesDone
    <2> QED
      BY <1>1, <2>1, CarriesCalls, CarriesCombine, CarriesSync DEF Serve, Once
  <1>2. ASSUME NEW r \in Requests, NEW b \in Browsers, Once(Submit(r, b))
        PROVE  Carries(req'[r], rows', cookie', session', repeated')
    BY <1>2, CarriesSubmit DEF Once
  <1>3. ASSUME NEW r \in Requests, Repeat(r)
        PROVE  Carries(req'[r], rows', cookie', session', repeated')
    BY <1>3, CarriesRepeat
  <1>4. ASSUME NEW b \in Browsers, Once(SessionEnds(b)), NEW r \in Requests
        PROVE  Carries(req'[r], rows', cookie', session', repeated')
    <2>1. /\ session' = [session EXCEPT ![b] = Guest] /\ UNCHANGED <<rows, cookie, req, repeated>>
      BY <1>4 DEF SessionEnds, Once
    <2>2. \A c \in Browsers : session[c] = Guest => session'[c] = Guest
      BY <2>1, CarriesNow
    <2>3. req[r].browser \in Browsers /\ Carries(req[r], rows, cookie, session, repeated)
      BY CarriesNow DEF Request
    <2> QED
      BY <2>1, <2>2, <2>3 DEF Carries
  <1>5. ASSUME UNCHANGED vars, NEW r \in Requests
        PROVE  Carries(req'[r], rows', cookie', session', repeated')
    BY <1>5, CarriesNow DEF vars
  <1> QED
    BY <1>1, <1>2, <1>3, <1>4, <1>5 DEF Next, OneRequest

-----------------------------------------------------------------------------
\* The variables of AtomicCart: a login that has committed has already changed them.
Answers(R, b) == {r \in Requests : R[r].pc = "setToken" /\ R[r].browser = b}
CookieNow(R, c) == [b \in Browsers |-> IF Answers(R, b) = {} THEN c[b] ELSE {}]
SessionNow(R, s) == [b \in Browsers |-> IF Answers(R, b) = {} THEN s[b]
                                        ELSE R[CHOOSE r \in Answers(R, b) : TRUE].user]

\* They are those of the program while no answer to a login is due.
LEMMA NoAnswers ==
  ASSUME OneRequest, NEW r \in Requests, NEW R, R[r].pc # "setToken",
         NEW c \in [Browsers -> SUBSET Line], NEW s \in [Browsers -> Users \cup {Guest}]
  PROVE  CookieNow(R, c) = c /\ SessionNow(R, s) = s
  <1>1. \A b \in Browsers : Answers(R, b) = {}
    BY DEF Answers, OneRequest
  <1>2. CookieNow(R, c) = [b \in Browsers |-> c[b]] /\ SessionNow(R, s) = [b \in Browsers |-> s[b]]
    BY <1>1 DEF CookieNow, SessionNow
  <1> QED
    BY <1>2

\* An answer that is due is the one of the only request.
LEMMA OneAnswer ==
  ASSUME OneRequest, NEW r \in Requests, NEW R, R[r].pc = "setToken",
         NEW c \in [Browsers -> SUBSET Line], NEW s \in [Browsers -> Users \cup {Guest}]
  PROVE  /\ CookieNow(R, c) = [c EXCEPT ![R[r].browser] = {}]
         /\ SessionNow(R, s) = [s EXCEPT ![R[r].browser] = R[r].user]
  <1>1. \A b \in Browsers : Answers(R, b) = IF b = R[r].browser THEN {r} ELSE {}
    BY DEF Answers, OneRequest
  <1>2. (CHOOSE q \in {r} : TRUE) = r
    OBVIOUS
  <1>3. /\ CookieNow(R, c) = [b \in Browsers |-> IF b = R[r].browser THEN {} ELSE c[b]]
        /\ SessionNow(R, s) = [b \in Browsers |-> IF b = R[r].browser THEN R[r].user ELSE s[b]]
    BY <1>1, <1>2 DEF CookieNow, SessionNow
  <1> QED
    BY <1>3

\* A step that changes neither table, cookie nor session of AtomicCart.
LEMMA Stutters ==
  ASSUME Plain(rows') = Plain(rows), CookieNow(req', cookie') = CookieNow(req, cookie),
         SessionNow(req', session') = SessionNow(req, session)
  PROVE  UNCHANGED Atomic!lines
  BY DEF Atomic!lines, CookieNow, SessionNow, Answers, LoggingIn

\* The token of a browser is gone, or replaced already.
LEMMA TokenGone ==
  ASSUME NEW R, NEW b \in Browsers, NEW s \in [Browsers -> Users \cup {Guest}]
  PROVE  SessionNow(R, [s EXCEPT ![b] = Guest])
           = IF Answers(R, b) = {} THEN [SessionNow(R, s) EXCEPT ![b] = Guest] ELSE SessionNow(R, s)
  <1> DEFINE gone == [s EXCEPT ![b] = Guest]
  <1>1. gone[b] = Guest /\ \A c \in Browsers \ {b} : gone[c] = s[c]
    OBVIOUS
  <1> HIDE DEF gone
  <1>2. SessionNow(R, gone) = [c \in Browsers |->
            IF c = b /\ Answers(R, b) = {} THEN Guest ELSE SessionNow(R, s)[c]]
    BY <1>1 DEF SessionNow
  <1>3. SessionNow(R, s) = [c \in Browsers |-> SessionNow(R, s)[c]]
    BY DEF SessionNow
  <1>4. CASE Answers(R, b) = {}
    BY <1>2, <1>3, <1>4 DEF gone
  <1>5. CASE Answers(R, b) # {}
    BY <1>2, <1>3, <1>5 DEF gone
  <1> QED
    BY <1>4, <1>5

\* A product is put into a cookie, on these variables.
LEMMA StepOfPut ==
  ASSUME NEW b \in Browsers, NEW s \in Skus, SessionNow(req, session)[b] = Guest,
         Plain(rows') = Plain(rows), SessionNow(req', session') = SessionNow(req, session),
         CookieNow(req', cookie') = [CookieNow(req, cookie) EXCEPT ![b] =
             Atomic!Put(@, Atomic!OfSku(@, s), [skuId |-> s, skuNum |-> 1, isChecked |-> TRUE])]
  PROVE  Atomic!PutInCookie(b, s)
  BY DEF CookieNow, SessionNow, Answers, LoggingIn, Atomic!PutInCookie

\* A product is marked in a cookie, on these variables.
LEMMA StepOfMark ==
  ASSUME NEW b \in Browsers, NEW s \in Skus, NEW checked, SessionNow(req, session)[b] = Guest,
         Plain(rows') = Plain(rows), SessionNow(req', session') = SessionNow(req, session),
         CookieNow(req', cookie') = [CookieNow(req, cookie) EXCEPT ![b] =
             Atomic!Mark(@, Atomic!OfSku(@, s), checked)]
  PROVE  Atomic!MarkInCookie(b, s, checked)
  BY DEF CookieNow, SessionNow, Answers, LoggingIn, Atomic!MarkInCookie

\* A login, on these variables.
LEMMA StepOfLogin ==
  ASSUME NEW b \in Browsers, NEW u \in Users, NEW lines, lines = CookieNow(req, cookie)[b],
         \A l \in lines : \A x, y \in Atomic!OfSku(Plain(rows), l.skuId) : x = y,
         Atomic!OfUser(Plain(rows'), u) # {}, Plain(rows') = Atomic!Merged(Plain(rows), lines, u),
         CookieNow(req', cookie') = [CookieNow(req, cookie) EXCEPT ![b] = {}],
         SessionNow(req', session') = [SessionNow(req, session) EXCEPT ![b] = u]
  PROVE  Atomic!LogIn(b, u)
  BY DEF CookieNow, SessionNow, Answers, LoggingIn, Atomic!LogIn

\* The end of a session, on these variables.
LEMMA StepOfLogout ==
  ASSUME NEW b \in Browsers, SessionNow(req', session') = [SessionNow(req, session) EXCEPT ![b] = Guest],
         Plain(rows') = Plain(rows), CookieNow(req', cookie') = CookieNow(req, cookie)
  PROVE  Atomic!LogOut(b)
  BY DEF CookieNow, SessionNow, Answers, LoggingIn, Atomic!LogOut

\* Steps that change the table alone.
LEMMA AtomicTableSteps ==
  ASSUME CookieNow(req', cookie') = CookieNow(req, cookie),
         SessionNow(req', session') = SessionNow(req, session)
  PROVE  /\ \A s \in Skus :
              Plain(rows') = Atomic!Put(Plain(rows),
                  Atomic!OfSku(Atomic!OfUser(Plain(rows), HomeUser), s),
                  [userId |-> HomeUser, skuId |-> s, skuNum |-> 1, isChecked |-> TRUE])
              => Atomic!PutInTable(s)
         /\ \A u \in Users, s \in Skus, checked \in BOOLEAN :
              Plain(rows') = Atomic!Mark(Plain(rows), Atomic!OfSku(Atomic!OfUser(Plain(rows), u), s), checked)
              => Atomic!MarkInTable(u, s, checked)
  BY DEF CookieNow, SessionNow, Answers, LoggingIn, Atomic!PutInTable, Atomic!MarkInTable

\* A step that leaves rows, cookie and session alone, between which no login is answered.
LEMMA QuietStep ==
  ASSUME OneRequest, AtomicInv, NEW r \in Requests, UNCHANGED <<rows, cookie, session>>,
         req[r].pc # "setToken", req'[r].pc # "setToken"
  PROVE  UNCHANGED Atomic!lines
  <1>1. cookie \in [Browsers -> SUBSET Line] /\ session \in [Browsers -> Users \cup {Guest}]
    BY CarriesNow
  <1>2. CookieNow(req, cookie) = cookie /\ SessionNow(req, session) = session
    BY <1>1, NoAnswers
  <1>3. CookieNow(req', cookie) = cookie /\ SessionNow(req', session) = session
    BY <1>1, NoAnswers
  <1> QED
    BY <1>2, <1>3, Stutters

\* A cookie that the answer to addToCart or checkCart brings.
LEMMA CookieChange ==
  ASSUME NEW b \in Browsers, NEW item \in Line, item.skuNum = 1, NEW kind \in {"addCookie", "checkCookie"},
         kind = "addCookie" => item.isChecked = TRUE, cookie \in [Browsers -> SUBSET Line],
         cookie' = [cookie EXCEPT ![b] = IF kind = "addCookie" THEN PutLine(cookie[b], item)
                                         ELSE CheckLine(cookie[b], item)],
         CookieNow(req, cookie) = cookie, CookieNow(req', cookie') = cookie', SessionNow(req, session)[b] = Guest,
         Plain(rows') = Plain(rows), SessionNow(req', session') = SessionNow(req, session)
  PROVE  Atomic!Next
  <1> DEFINE T == Atomic!OfSku(cookie[b], item.skuId)
  <1>1. item.skuId \in Skus /\ item.isChecked \in BOOLEAN
        /\ item = [skuId |-> item.skuId, skuNum |-> item.skuNum, isChecked |-> item.isChecked]
    BY DEF Line
  <1>2. cookie[b] \subseteq Line
    OBVIOUS
  <1>3. /\ PutLine(cookie[b], item) = Atomic!Put(cookie[b], T, item)
        /\ CheckLine(cookie[b], item) = Atomic!Mark(cookie[b], T, item.isChecked)
    BY <1>2, CookieLines
  <1>4. CASE kind = "addCookie"
    <2>1. item = [skuId |-> item.skuId, skuNum |-> 1, isChecked |-> TRUE]
      BY <1>1, <1>4
    <2>2. cookie' = [cookie EXCEPT ![b] = Atomic!Put(@, Atomic!OfSku(@, item.skuId),
                         [skuId |-> item.skuId, skuNum |-> 1, isChecked |-> TRUE])]
      BY <1>3, <1>4, <2>1
    <2>3. Atomic!PutInCookie(b, item.skuId)
      BY <1>1, <2>2, StepOfPut
    <2> QED
      BY <1>1, <2>3 DEF Atomic!Next
  <1>5. CASE kind = "checkCookie"
    <2>1. cookie' = [cookie EXCEPT ![b] = Atomic!Mark(@, Atomic!OfSku(@, item.skuId), item.isChecked)]
      BY <1>3, <1>5
    <2>2. Atomic!MarkInCookie(b, item.skuId, item.isChecked)
      BY <1>1, <2>1, StepOfMark
    <2> QED
      BY <1>1, <2>2 DEF Atomic!Next
  <1> QED
    BY <1>4, <1>5

\* The answer with a cookie puts or marks a product in it.
LEMMA CookieRefines ==
  ASSUME OneRequest, AtomicInv, NEW r \in Requests, SetCookie(r), cookie' \in [Browsers -> SUBSET Line]
  PROVE  Atomic!Next
  <1> DEFINE q == req[r]
  <1>1. /\ Carries(q, rows, cookie, session, repeated) /\ q \in Request /\ KindKnown(q)
        /\ cookie \in [Browsers -> SUBSET Line] /\ session \in [Browsers -> Users \cup {Guest}]
        /\ req = [s \in Requests |-> req[s]]
    BY CarriesNow
  <1>2. /\ q.pc = "setCookie" /\ req'[r].pc = "idle" /\ UNCHANGED <<rows, session>>
        /\ cookie' = [cookie EXCEPT ![q.browser] = IF q.kind = "addCookie" THEN PutLine(q.sent, q.item)
                                                   ELSE CheckLine(q.sent, q.item)]
    BY <1>1 DEF SetCookie, Done, NoRequest, NewRequest
  <1>3. /\ q.sent = cookie[q.browser] /\ session[q.browser] = Guest /\ q.item.skuNum = 1
        /\ q.kind \in {"addCookie", "checkCookie"}
        /\ q.kind = "addCookie" => q.item.isChecked = TRUE
    BY <1>1, <1>2 DEF Carries, KindKnown
  <1>4. q.browser \in Browsers /\ q.item \in Line
    BY <1>1 DEF Request
  <1>5. /\ CookieNow(req, cookie) = cookie /\ SessionNow(req, session) = session
        /\ CookieNow(req', cookie') = cookie' /\ SessionNow(req', session') = session
    <2>1. req[r].pc # "setToken" /\ req'[r].pc # "setToken"
      BY <1>2
    <2> QED
      BY <1>1, <1>2, <2>1, NoAnswers
  <1> QED
    BY <1>1, <1>2, <1>3, <1>4, <1>5, CookieChange

\* A step from one label to another, neither of them the answer to a login, leaves cookie and session.
LEMMA NoLogin ==
  ASSUME OneRequest, AtomicInv, NEW r \in Requests, UNCHANGED <<cookie, session>>,
         req[r].pc # "setToken", req'[r].pc # "setToken"
  PROVE  CookieNow(req', cookie') = CookieNow(req, cookie) /\ SessionNow(req', session') = SessionNow(req, session)
  BY CarriesNow, NoAnswers

\* updateCart and saveCart put a product in the table.
LEMMA WriteRefines ==
  ASSUME OneRequest, AtomicInv, NEW r \in Requests, UpdateCart(r) \/ SaveCart(r), repeated = 0
  PROVE  Atomic!Next
  <1> DEFINE q == req[r]
  <1>1. /\ SerialInv /\ Carries(q, rows, cookie, session, repeated) /\ q \in Request /\ KindKnown(q)
        /\ req = [s \in Requests |-> req[s]]
    BY CarriesNow
  <1>2. /\ q.pc = "write" /\ req'[r].pc = "select" /\ UNCHANGED <<cookie, session>>
    BY <1>1 DEF UpdateCart, SaveCart, Goto, Request
  <1>3. /\ q.kind = "add" /\ q.item.isChecked = TRUE
        /\ q.found = OfSku(OfUser(rows, HomeUser), q.item.skuId)
    BY <1>1, <1>2 DEF Carries, KindKnown
  <1>4. q.item.skuId \in Skus
    BY <1>1 DEF Request, Line
  <1>5. Plain(rows') = Atomic!Put(Plain(rows),
                  Atomic!OfSku(Atomic!OfUser(Plain(rows), HomeUser), q.item.skuId),
                  [userId |-> HomeUser, skuId |-> q.item.skuId, skuNum |-> 1, isChecked |-> TRUE])
    <2>1. CASE UpdateCart(r)
      BY <1>1, <1>3, <2>1, PlainUpdate
    <2>2. CASE SaveCart(r)
      <3>1. q.found = {}
        BY <2>2 DEF SaveCart
      <3> QED
        BY <1>1, <1>3, <2>2, <3>1, PlainSave
    <2> QED
      BY <2>1, <2>2
  <1>6. CookieNow(req', cookie') = CookieNow(req, cookie) /\ SessionNow(req', session') = SessionNow(req, session)
    BY <1>2, NoLogin
  <1>7. Atomic!PutInTable(q.item.skuId)
    BY <1>4, <1>5, <1>6, AtomicTableSteps
  <1> QED
    BY <1>4, <1>7 DEF Atomic!Next

\* The commit of checkCart marks a product in the table, the one of a login merges the cookie; addToCart
\* has done its work before.
LEMMA CommitRefines ==
  ASSUME OneRequest, AtomicInv, NEW r \in Requests, Commit(r)
  PROVE  Atomic!Next \/ UNCHANGED Atomic!lines
  <1> DEFINE q == req[r]
  <1>1. /\ SerialInv /\ Carries(q, rows, cookie, session, repeated) /\ q \in Request /\ KindKnown(q)
        /\ req = [s \in Requests |-> req[s]]
        /\ cookie \in [Browsers -> SUBSET Line] /\ session \in [Browsers -> Users \cup {Guest}]
    BY CarriesNow
  <1>2. /\ q.pc = "commit" /\ rows' = Overlay(rows, q.tx) /\ UNCHANGED <<cookie, session>>
        /\ q.user \in Users
    BY <1>1 DEF Commit, KindKnown
  <1>3. CASE q.kind = "add" /\ Done(r)
    <2>1. q.tx = {} /\ req'[r].pc = "idle"
      BY <1>1, <1>3, SerialNow DEF Done, NoRequest, NewRequest
    <2>2. UNCHANGED rows
      BY <1>2, <2>1, OverlayNothing
    <2> QED
      BY <1>2, <2>1, <2>2, QuietStep
  <1>4. CASE q.kind = "check" /\ req' = [req EXCEPT ![r].pc = "show", ![r].tx = {}]
    <2>1. req'[r].pc = "show"
      BY <1>1, <1>4 DEF Request
    <2>2. q.item.skuId \in Skus /\ q.item.isChecked \in BOOLEAN
      BY <1>1 DEF Request, Line
    <2>3. Plain(rows') = Atomic!Mark(Plain(rows),
              Atomic!OfSku(Atomic!OfUser(Plain(rows), q.user), q.item.skuId), q.item.isChecked)
      BY <1>1, <1>2, <1>4 DEF Carries, InTransaction
    <2>4. CookieNow(req', cookie') = CookieNow(req, cookie) /\ SessionNow(req', session') = SessionNow(req, session)
      BY <1>2, <2>1, NoLogin
    <2>5. Atomic!MarkInTable(q.user, q.item.skuId, q.item.isChecked)
      BY <1>2, <2>2, <2>3, <2>4, AtomicTableSteps
    <2> QED
      BY <1>2, <2>2, <2>5 DEF Atomic!Next
  <1>5. CASE q.kind = "login" /\ req' = [req EXCEPT ![r].pc = "setToken", ![r].tx = {}]
    <2>1. req'[r].pc = "setToken" /\ req'[r].browser = q.browser /\ req'[r].user = q.user
      BY <1>1, <1>5 DEF Request
    <2>2. PICK b \in Browsers, u \in Users : b = q.browser /\ u = q.user
      BY <1>1, <1>2 DEF Request
    <2>3. /\ Plain(rows') = Atomic!Merged(Plain(rows), cookie[b], u)
          /\ \A l \in cookie[b] : \A x, y \in Atomic!OfSku(Plain(rows), l.skuId) : x = y
      BY <1>1, <1>2, <1>5, <2>2 DEF Carries, InTransaction
    <2>4. Atomic!OfUser(Plain(rows'), u) # {}
      <3>1. OfUser(rows', u) # {}
        BY <1>1, <1>2, <2>2, SerialNow DEF Carries, Stands, HashStands
      <3>2. Plain(OfUser(rows', u)) # {}
        BY <3>1 DEF Plain
      <3> QED
        BY <3>2, PlainParts
    <2>5. CookieNow(req, cookie) = cookie /\ SessionNow(req, session) = session
      BY <1>1, <1>2, NoAnswers
    <2>6. /\ CookieNow(req', cookie) = [cookie EXCEPT ![b] = {}]
          /\ SessionNow(req', session) = [session EXCEPT ![b] = u]
      <3>1. /\ CookieNow(req', cookie) = [cookie EXCEPT ![req'[r].browser] = {}]
            /\ SessionNow(req', session) = [session EXCEPT ![req'[r].browser] = req'[r].user]
        BY <1>1, <2>1, OneAnswer
      <3>2. req'[r].browser = b /\ req'[r].user = u
        BY <2>1, <2>2
      <3> QED
        BY <3>1, <3>2
    <2>7. UNCHANGED <<cookie, session>>
      BY <1>2
    <2> HIDE DEF q
    <2>8. Atomic!LogIn(b, u)
      BY <2>3, <2>4, <2>5, <2>6, <2>7, StepOfLogin
    <2> QED
      BY <2>8 DEF Atomic!Next
  <1> QED
    BY <1>3, <1>4, <1>5 DEF Commit

\* A login is answered with what it has done when it committed.
LEMMA AnswerRefines ==
  ASSUME OneRequest, AtomicInv, NEW r \in Requests, SetToken(r)
  PROVE  UNCHANGED Atomic!lines
  <1> DEFINE q == req[r]
             b == q.browser
  <1>1. /\ q \in Request /\ req = [s \in Requests |-> req[s]] /\ KindKnown(q)
        /\ cookie \in [Browsers -> SUBSET Line] /\ session \in [Browsers -> Users \cup {Guest}]
    BY CarriesNow
  <1>2. /\ q.pc = "setToken" /\ cookie' = [cookie EXCEPT ![b] = {}] /\ session' = [session EXCEPT ![b] = q.user]
        /\ UNCHANGED rows /\ req'[r].pc = "idle" /\ q.user \in Users /\ b \in Browsers
    BY <1>1 DEF SetToken, Done, NoRequest, NewRequest, KindKnown, Request
  <1>3. cookie' \in [Browsers -> SUBSET Line] /\ session' \in [Browsers -> Users \cup {Guest}]
    BY <1>1, <1>2
  <1>4. CookieNow(req, cookie) = cookie' /\ SessionNow(req, session) = session'
    BY <1>1, <1>2, OneAnswer
  <1>5. CookieNow(req', cookie') = cookie' /\ SessionNow(req', session') = session'
    BY <1>2, <1>3, NoAnswers
  <1> QED
    BY <1>2, <1>4, <1>5, Stutters

\* The token of a browser expires, unless a login has just replaced it.
LEMMA SessionEndsRefines ==
  ASSUME OneRequest, AtomicInv, NEW b \in Browsers, SessionEnds(b)
  PROVE  Atomic!Next \/ UNCHANGED Atomic!lines
  <1>1. /\ session' = [session EXCEPT ![b] = Guest] /\ UNCHANGED <<rows, cookie, req>>
    BY DEF SessionEnds
  <1>2. CookieNow(req', cookie') = CookieNow(req, cookie) /\ Plain(rows') = Plain(rows)
    BY <1>1
  <1>3. session \in [Browsers -> Users \cup {Guest}]
    BY DEF AtomicInv, SerialInv, TypeInv, TypeOK
  <1>4. CASE Answers(req, b) = {}
    <2>1. SessionNow(req', session') = [SessionNow(req, session) EXCEPT ![b] = Guest]
      BY <1>1, <1>3, <1>4, TokenGone
    <2>2. Atomic!LogOut(b)
      BY <1>2, <2>1, StepOfLogout
    <2> QED
      BY <2>2 DEF Atomic!Next
  <1>5. CASE Answers(req, b) # {}
    <2>1. SessionNow(req', session') = SessionNow(req, session)
      BY <1>1, <1>3, <1>5, TokenGone
    <2> QED
      BY <1>2, <2>1, Stutters
  <1> QED
    BY <1>4, <1>5

\* Every step of the program is a step of AtomicCart, or of none of its concern.
LEMMA StepRefines ==
  ASSUME OneRequest
  PROVE  AtomicInv /\ [Next]_vars => [repeated' > 0 \/ Atomic!Next]_(Atomic!lines)
  <1> SUFFICES ASSUME AtomicInv, [Next]_vars
               PROVE  repeated' > 0 \/ Atomic!Next \/ UNCHANGED Atomic!lines
    OBVIOUS
  <1>1. repeated \in Nat /\ cookie' \in [Browsers -> SUBSET Line]
    <2>1. repeated \in Nat
      BY CartBounds DEF AtomicInv, SerialInv, TypeInv, TypeOK
    <2> QED
      BY <2>1, TypeInvStep DEF AtomicInv, SerialInv, TypeInv, TypeOK
  <1>2. ASSUME NEW r \in Requests, Once(Serve(r)), ~(repeated' > 0)
        PROVE  Atomic!Next \/ UNCHANGED Atomic!lines
    <2>1. repeated = 0 /\ req[r] \in Request /\ req = [s \in Requests |-> req[s]]
      BY <1>1, <1>2, CarriesNow DEF Once
    <2>2. CASE \/ IsCartExists(r) \/ UpdateCartCheck(r) \/ BeginCombine(r) \/ MergeLines(r)
               \/ SelectRows(r) \/ DelHash(r) \/ HmsetHash(r) \/ ShowCart(r)
      <3>1. req[r].pc # "setToken" /\ UNCHANGED <<rows, cookie, session>>
        BY <2>2 DEF IsCartExists, UpdateCartCheck, BeginCombine, MergeLines, SelectRows, DelHash, HmsetHash, ShowCart
      <3>2. req'[r].pc # "setToken"
        BY <2>1, <2>2 DEF IsCartExists, UpdateCartCheck, BeginCombine, MergeLines, SelectRows, DelHash,
              HmsetHash, ShowCart, Goto, Done, NoRequest, NewRequest, Request
      <3> QED
        BY <3>1, <3>2, QuietStep
    <2> QED
      BY <1>1, <1>2, <2>1, <2>2, CookieRefines, WriteRefines, CommitRefines, AnswerRefines DEF Serve, Once
  <1>3. ASSUME NEW r \in Requests, NEW b \in Browsers, Once(Submit(r, b))
        PROVE  UNCHANGED Atomic!lines
    <2>1. PICK label, kind, user, item : Arrive(r, b, kind, user, item, label) /\ label # "setToken"
      <3>1. ASSUME NEW s \in Skus, AddToCart(r, b, s)
            PROVE  \E label, kind, user, item : Arrive(r, b, kind, user, item, label) /\ label # "setToken"
        BY <3>1 DEF AddToCart
      <3>2. ASSUME NEW s \in Skus, CheckCart(r, b, s)
            PROVE  \E label, kind, user, item : Arrive(r, b, kind, user, item, label) /\ label # "setToken"
        BY <3>2 DEF CheckCart
      <3>3. ASSUME NEW u \in Users, Login(r, b, u)
            PROVE  \E label, kind, user, item : Arrive(r, b, kind, user, item, label) /\ label # "setToken"
        BY <3>3 DEF Login, CombineLabel
      <3> QED
        BY <1>3, <3>1, <3>2, <3>3 DEF Once, Submit
    <2>2. /\ req[r].pc = "idle" /\ UNCHANGED <<rows, cookie, session>> /\ req'[r].pc = label
      BY <2>1, CarriesNow DEF Arrive, NewRequest
    <2> QED
      BY <2>1, <2>2, QuietStep
  <1>4. ASSUME NEW b \in Browsers, Once(SessionEnds(b))
        PROVE  Atomic!Next \/ UNCHANGED Atomic!lines
    BY <1>4, SessionEndsRefines DEF Once
  <1>5. ASSUME NEW r \in Requests, Repeat(r) PROVE repeated' > 0
    BY <1>1, <1>5 DEF Repeat
  <1>6. ASSUME UNCHANGED vars PROVE UNCHANGED Atomic!lines
    BY <1>6, Stutters DEF vars, CookieNow, SessionNow, Answers
  <1> QED
    BY <1>2, <1>3, <1>4, <1>5, <1>6 DEF Next

\* When requests come one at a time, the cart implements AtomicCart up to the first repeated call:
\* addToCart with its three calls, checkCart, and a login with its snapshot and its merge each change the carts
\* in one step or not at all.
THEOREM SerialImplementsAtomic == OneRequest => (Spec => AtomicSpec)
  <1> SUFFICES ASSUME OneRequest PROVE Spec => AtomicSpec
    OBVIOUS
  <1>1. Init => Atomic!Init
    <2> SUFFICES ASSUME Init PROVE Atomic!Init
      OBVIOUS
    <2>1. \A r \in Requests : req[r].pc = "idle"
      BY DEF Init, NoRequest, NewRequest
    <2>2. \A b \in Browsers : LoggingIn(b) = {}
      BY <2>1 DEF LoggingIn
    <2>3. Plain(rows) = {}
      BY DEF Init, Plain
    <2> QED
      BY <2>2, <2>3 DEF Init, Atomic!Init
  <1>2. AtomicInv /\ [Next]_vars => AtomicInv'
    BY AtomicInvStep
  <1>3. AtomicInv /\ [Next]_vars => [repeated' > 0 \/ Atomic!Next]_(Atomic!lines)
    BY StepRefines
  <1> QED
    BY <1>1, <1>2, <1>3, InitAtomicInv, PTL DEF Spec, AtomicSpec

-----------------------------------------------------------------------------
(* Counting pieces.                                                          *)

\* Columns I, of the heights w.
Cells(I, w) == UNION {{i} \X (1 .. w[i]) : i \in I}

\* The cells are finitely many.
LEMMA CellsFinite ==
  ASSUME NEW I, IsFiniteSet(I), NEW w, \A i \in I : w[i] \in Nat
  PROVE  IsFiniteSet(Cells(I, w)) /\ Cardinality(Cells(I, w)) \in Nat
  <1> DEFINE column == [i \in I |-> {i} \X (1 .. w[i])]
             U == {column[i] : i \in I}
  <1>1. \A i \in I : IsFiniteSet(column[i])
    <2> SUFFICES ASSUME NEW i \in I PROVE IsFiniteSet({i} \X (1 .. w[i]))
      OBVIOUS
    <2>1. IsFiniteSet({i})
      BY FS_Singleton
    <2>2. w[i] \in Int /\ 1 \in Int
      OBVIOUS
    <2>3. IsFiniteSet(1 .. w[i])
      BY <2>2, FS_Interval
    <2> QED
      BY <2>1, <2>3, FS_Product
  <1>2. Cells(I, w) = UNION U
    BY DEF Cells
  <1>3. DOMAIN column = I
    OBVIOUS
  <1> HIDE DEF column
  <1>4. IsFiniteSet(U)
    BY <1>3, FiniteImage
  <1>5. \A T \in U : IsFiniteSet(T)
    BY <1>1
  <1> HIDE DEF U
  <1>6. IsFiniteSet(UNION U)
    BY <1>4, <1>5, FS_UNION
  <1> QED
    BY <1>2, <1>6, FS_CardinalityType

\* Two sets between which a function goes one to one have as many elements.
LEMMA AsMany ==
  ASSUME NEW S, NEW T, IsFiniteSet(S), NEW f \in [S -> T],
         \A x, y \in S : f[x] = f[y] => x = y, \A y \in T : \E x \in S : f[x] = y
  PROVE  IsFiniteSet(T) /\ Cardinality(T) = Cardinality(S)
  <1>1. f \in Bijection(S, T)
    BY DEF Bijection, Injection, Surjection, IsInjective
  <1>2. ExistsBijection(S, T)
    BY <1>1 DEF ExistsBijection
  <1> QED
    BY <1>2, FS_Bijection

\* Of two sets without a common element the numbers add up.
LEMMA Disjoint ==
  ASSUME NEW S, NEW T, IsFiniteSet(S), IsFiniteSet(T), \A x \in S : x \notin T
  PROVE  /\ IsFiniteSet(S \cup T) /\ Cardinality(S) \in Nat /\ Cardinality(T) \in Nat
         /\ Cardinality(S \cup T) = Cardinality(S) + Cardinality(T)
  <1>1. S \cap T = {}
    OBVIOUS
  <1>2. Cardinality(S) \in Nat /\ Cardinality(T) \in Nat /\ Cardinality({}) = 0
    BY FS_CardinalityType, FS_EmptySet
  <1>3. IsFiniteSet(S \cup T) /\ Cardinality(S \cup T) = Cardinality(S) + Cardinality(T) - Cardinality(S \cap T)
    BY FS_Union
  <1>4. Cardinality(S \cap T) = 0
    BY <1>1, <1>2
  <1> QED
    BY <1>2, <1>3, <1>4

\* Columns put on columns.
LEMMA CellsAdd ==
  ASSUME NEW I, IsFiniteSet(I), NEW u, NEW v, NEW w,
         \A i \in I : u[i] \in Nat /\ v[i] \in Nat /\ w[i] = u[i] + v[i]
  PROVE  Cardinality(Cells(I, w)) = Cardinality(Cells(I, u)) + Cardinality(Cells(I, v))
  <1> DEFINE Low  == Cells(I, u)
             High == UNION {{i} \X ((u[i] + 1) .. w[i]) : i \in I}
             f == [c \in Cells(I, v) |-> <<c[1], c[2] + u[c[1]]>>]
  <1>1. IsFiniteSet(Low) /\ IsFiniteSet(Cells(I, v))
    BY CellsFinite
  <1>2. \A c : c \in Low <=> \E i \in I : \E n \in 1 .. u[i] : c = <<i, n>>
    BY DEF Cells
  <1>3. \A c : c \in High <=> \E i \in I : \E n \in (u[i] + 1) .. w[i] : c = <<i, n>>
    OBVIOUS
  <1>4. \A c : c \in Cells(I, w) <=> \E i \in I : \E n \in 1 .. w[i] : c = <<i, n>>
    BY DEF Cells
  <1>5. \A c : c \in Cells(I, v) <=> \E i \in I : \E n \in 1 .. v[i] : c = <<i, n>>
    BY DEF Cells
  <1> HIDE DEF Low, High
  <1>6. Cells(I, w) = Low \cup High
    BY <1>2, <1>3, <1>4
  <1>7. \A c \in Low : c \notin High
    BY <1>2, <1>3
  <1>8. f \in [Cells(I, v) -> High]
    <2> SUFFICES ASSUME NEW c \in Cells(I, v) PROVE <<c[1], c[2] + u[c[1]]>> \in High
      OBVIOUS
    <2>1. PICK i \in I, n \in Nat : n \in 1 .. v[i] /\ c = <<i, n>>
      BY <1>5
    <2>2. n + u[i] \in (u[i] + 1) .. w[i]
      BY <2>1
    <2> QED
      BY <1>3, <2>1, <2>2
  <1>9. \A c, d \in Cells(I, v) : f[c] = f[d] => c = d
    <2> SUFFICES ASSUME NEW c \in Cells(I, v), NEW d \in Cells(I, v), f[c] = f[d] PROVE c = d
      OBVIOUS
    <2>1. PICK i \in I, n \in Nat : n \in 1 .. v[i] /\ c = <<i, n>>
      BY <1>5
    <2>2. PICK j \in I, m \in Nat : m \in 1 .. v[j] /\ d = <<j, m>>
      BY <1>5
    <2>3. i = j /\ n + u[i] = m + u[j]
      BY <2>1, <2>2
    <2> QED
      BY <2>1, <2>2, <2>3
  <1>10. \A d \in High : \E c \in Cells(I, v) : f[c] = d
    <2> SUFFICES ASSUME NEW d \in High PROVE \E c \in Cells(I, v) : f[c] = d
      OBVIOUS
    <2>1. PICK i \in I, n \in Nat : n \in (u[i] + 1) .. w[i] /\ d = <<i, n>>
      BY <1>3
    <2>2. n - u[i] \in 1 .. v[i]
      BY <2>1
    <2>3. <<i, n - u[i]>> \in Cells(I, v)
      BY <1>5, <2>2
    <2>4. f[<<i, n - u[i]>>] = <<i, n>>
      BY <2>3
    <2> QED
      BY <2>1, <2>3, <2>4
  <1> HIDE DEF f
  <1>11. IsFiniteSet(High) /\ Cardinality(High) = Cardinality(Cells(I, v))
    BY <1>1, <1>8, <1>9, <1>10, AsMany
  <1> QED
    BY <1>1, <1>6, <1>7, <1>11, Disjoint DEF Low

\* Rows or lines have whole numbers of pieces.
Counted(S) == IsFiniteSet(S) /\ \A x \in S : x.skuNum \in Nat

\* Their pieces are finitely many.
LEMMA PiecesFinite ==
  ASSUME NEW S, Counted(S)
  PROVE  IsFiniteSet(PiecesOf(S)) /\ Pieces(S) \in Nat
  <1> DEFINE w == [x \in S |-> x.skuNum]
  <1>1. PiecesOf(S) = Cells(S, w)
    BY DEF PiecesOf, Cells
  <1>2. \A x \in S : w[x] \in Nat
    BY DEF Counted
  <1> HIDE DEF w
  <1> QED
    BY <1>1, <1>2, CellsFinite DEF Pieces, Counted

\* Pieces counted by what their rows come from.
LEMMA PiecesByIndex ==
  ASSUME NEW I, IsFiniteSet(I), NEW f, DOMAIN f = I, \A i, j \in I : f[i] = f[j] => i = j,
         NEW w, \A i \in I : w[i] \in Nat /\ f[i].skuNum = w[i]
  PROVE  Pieces({f[i] : i \in I}) = Cardinality(Cells(I, w))
  <1> DEFINE S == {f[i] : i \in I}
             g == [c \in Cells(I, w) |-> <<f[c[1]], c[2]>>]
  <1>1. IsFiniteSet(Cells(I, w))
    BY CellsFinite
  <1>2. \A c : c \in PiecesOf(S) <=> \E i \in I : \E n \in 1 .. w[i] : c = <<f[i], n>>
    BY DEF PiecesOf
  <1>3. \A c : c \in Cells(I, w) <=> \E i \in I : \E n \in 1 .. w[i] : c = <<i, n>>
    BY DEF Cells
  <1>4. g \in [Cells(I, w) -> PiecesOf(S)]
    <2> SUFFICES ASSUME NEW c \in Cells(I, w) PROVE <<f[c[1]], c[2]>> \in PiecesOf(S)
      OBVIOUS
    <2>1. PICK i \in I, n \in Nat : n \in 1 .. w[i] /\ c = <<i, n>>
      BY <1>3
    <2> HIDE DEF S
    <2> QED
      BY <1>2, <2>1
  <1>5. \A c, d \in Cells(I, w) : g[c] = g[d] => c = d
    <2> SUFFICES ASSUME NEW c \in Cells(I, w), NEW d \in Cells(I, w), g[c] = g[d] PROVE c = d
      OBVIOUS
    <2>1. PICK i \in I, n \in Nat : n \in 1 .. w[i] /\ c = <<i, n>>
      BY <1>3
    <2>2. PICK j \in I, m \in Nat : m \in 1 .. w[j] /\ d = <<j, m>>
      BY <1>3
    <2>3. f[i] = f[j] /\ n = m
      BY <2>1, <2>2
    <2> QED
      BY <2>1, <2>2, <2>3
  <1>6. \A d \in PiecesOf(S) : \E c \in Cells(I, w) : g[c] = d
    <2> SUFFICES ASSUME NEW d \in PiecesOf(S) PROVE \E c \in Cells(I, w) : g[c] = d
      OBVIOUS
    <2>1. PICK i \in I, n \in Nat : n \in 1 .. w[i] /\ d = <<f[i], n>>
      BY <1>2
    <2>2. <<i, n>> \in Cells(I, w) /\ g[<<i, n>>] = <<f[i], n>>
      BY <1>3, <2>1
    <2> QED
      BY <2>1, <2>2
  <1> HIDE DEF g, S
  <1>7. Cardinality(PiecesOf(S)) = Cardinality(Cells(I, w))
    BY <1>1, <1>4, <1>5, <1>6, AsMany
  <1> QED
    BY <1>7 DEF Pieces, S

\* Rows that are changed in other ways than in their number.
LEMMA SamePieces ==
  ASSUME NEW I, Counted(I), NEW f, DOMAIN f = I, \A i, j \in I : f[i] = f[j] => i = j,
         \A i \in I : f[i].skuNum = i.skuNum
  PROVE  Pieces({f[i] : i \in I}) = Pieces(I) /\ Counted({f[i] : i \in I})
  <1> DEFINE w == [i \in I |-> i.skuNum]
             g == [i \in I |-> i]
  <1>1. IsFiniteSet(I) /\ \A i \in I : w[i] \in Nat /\ f[i].skuNum = w[i] /\ g[i].skuNum = w[i]
    BY DEF Counted
  <1>2. {g[i] : i \in I} = I /\ DOMAIN g = I /\ \A i, j \in I : g[i] = g[j] => i = j
    OBVIOUS
  <1> HIDE DEF w, g
  <1>3. Pieces({f[i] : i \in I}) = Cardinality(Cells(I, w))
    BY <1>1, PiecesByIndex
  <1>4. Pieces({g[i] : i \in I}) = Cardinality(Cells(I, w))
    BY <1>1, <1>2, PiecesByIndex
  <1>5. IsFiniteSet({f[i] : i \in I})
    BY <1>1, FiniteImage
  <1>6. \A x \in {f[i] : i \in I} : x.skuNum \in Nat
    BY <1>1
  <1> QED
    BY <1>2, <1>3, <1>4, <1>5, <1>6 DEF Counted

\* Of two sets without a common row the pieces add up.
LEMMA PiecesUnion ==
  ASSUME NEW S, NEW T, Counted(S), Counted(T), \A x \in S : x \notin T
  PROVE  Pieces(S \cup T) = Pieces(S) + Pieces(T) /\ Counted(S \cup T)
  <1>1. PiecesOf(S \cup T) = PiecesOf(S) \cup PiecesOf(T)
    BY DEF PiecesOf
  <1>2. \A c \in PiecesOf(S) : c \notin PiecesOf(T)
    BY DEF PiecesOf
  <1>3. IsFiniteSet(PiecesOf(S)) /\ IsFiniteSet(PiecesOf(T))
    BY PiecesFinite
  <1>4. Counted(S \cup T)
    BY FS_Union DEF Counted
  <1> QED
    BY <1>1, <1>2, <1>3, <1>4, Disjoint DEF Pieces

\* Pairs with one thing are as many as the others.
LEMMA OneTimes ==
  ASSUME NEW A, NEW B, IsFiniteSet(A), Cardinality(A) = 1, IsFiniteSet(B)
  PROVE  IsFiniteSet(A \X B) /\ Cardinality(A \X B) = Cardinality(B)
  <1>1. IsFiniteSet(A \X B) /\ Cardinality(A \X B) = Cardinality(A) * Cardinality(B)
    BY FS_Product
  <1>2. Cardinality(B) \in Nat
    BY FS_CardinalityType
  <1> QED
    BY <1>1, <1>2

\* One row.
LEMMA PiecesOfOne ==
  ASSUME NEW x, x.skuNum \in Nat
  PROVE  Pieces({x}) = x.skuNum /\ Counted({x})
  <1>1. PiecesOf({x}) = {x} \X (1 .. x.skuNum)
    BY DEF PiecesOf
  <1>2. IsFiniteSet({x}) /\ Cardinality({x}) = 1
    BY FS_Singleton
  <1>3. IsFiniteSet(1 .. x.skuNum) /\ Cardinality(1 .. x.skuNum) = x.skuNum
    BY FS_Interval
  <1>4. Cardinality({x} \X (1 .. x.skuNum)) = x.skuNum
    BY <1>2, <1>3, OneTimes
  <1> QED
    BY <1>1, <1>2, <1>4 DEF Pieces, Counted

\* A part of the rows.
LEMMA PiecesOfPart ==
  ASSUME NEW S, NEW T, Counted(S), T \subseteq S
  PROVE  /\ Counted(T) /\ Counted(S \ T) /\ Pieces(T) \in Nat /\ Pieces(S \ T) \in Nat
         /\ Pieces(S) = Pieces(S \ T) + Pieces(T)
  <1>1. Counted(T) /\ Counted(S \ T)
    BY FS_Subset DEF Counted
  <1>2. S = (S \ T) \cup T
    OBVIOUS
  <1>3. Pieces((S \ T) \cup T) = Pieces(S \ T) + Pieces(T)
    BY <1>1, PiecesUnion
  <1> QED
    BY <1>1, <1>2, <1>3, PiecesFinite

\* One row in the place of another.
LEMMA PiecesReplaced ==
  ASSUME NEW S, Counted(S), NEW x \in S, NEW y, y.skuNum \in Nat, y \notin S \ {x}
  PROVE  Pieces((S \ {x}) \cup {y}) = Pieces(S) + y.skuNum - x.skuNum
  <1>1. x.skuNum \in Nat
    BY DEF Counted
  <1>2. /\ Counted(S \ {x}) /\ Pieces(S \ {x}) \in Nat
        /\ Pieces(S) = Pieces(S \ {x}) + Pieces({x})
    <2>1. {x} \subseteq S
      OBVIOUS
    <2> QED
      BY <2>1, PiecesOfPart
  <1>3. Pieces({x}) = x.skuNum /\ Pieces({y}) = y.skuNum /\ Counted({y})
    BY <1>1, PiecesOfOne
  <1>4. Pieces((S \ {x}) \cup {y}) = Pieces(S \ {x}) + Pieces({y})
    BY <1>2, <1>3, PiecesUnion
  <1> QED
    BY <1>1, <1>2, <1>3, <1>4

-----------------------------------------------------------------------------
(* No piece is lost, and none is doubled.                                    *)

\* The pieces in the cookies c, and the number with those in the table S.
CookiePieces(c) == UNION {{b} \X PiecesOf(c[b]) : b \in Browsers}
Stock(S, c)     == Pieces(S) + Cardinality(CookiePieces(c))
Without(c, b)   == [c EXCEPT ![b] = {}]

\* The n pieces that there are cover the p that were posted.
Covers(n, p, k) == p <= n /\ (k = 0 => p = n)

\* A piece that was counted and is in no cart yet.
Due(q) == IF \/ q.pc \in {"exists", "write"}
             \/ q.pc = "setCookie" /\ q.kind = "addCookie"
          THEN 1 ELSE 0

\* What a request keeps.  A merge has taken the pieces of the cookie before the cookie is deleted; an
\* updateCart that is repeated finds its own row.
Keeping(q, S, c, p, k) ==
    /\ q.pc # "setToken" => Covers(Stock(S, c) + Due(q), p, k)
    /\ q.pc = "setToken" => Covers(Stock(S, Without(c, q.browser)), p, k)
    /\ q.pc = "write" => \/ q.found \subseteq S
                         \/ MorePieces(q.found, q.item) \subseteq S /\ k > 0 /\ p <= Stock(S, c)
    /\ q.pc \in InTransaction /\ q.kind = "add" => MorePieces(q.found, q.item) \subseteq S
    /\ q.pc \in InTransaction /\ q.kind = "check" => Pieces(Overlay(S, q.tx)) = Pieces(S)
    /\ q.pc \in InTransaction /\ q.kind = "login" =>
           Pieces(Overlay(S, q.tx)) = Pieces(S) + Pieces(q.sent)

ConservedInv ==
    /\ AtomicInv
    /\ IsFiniteSet(CookiePieces(cookie))
    /\ ItemsConserved
    /\ \A r \in Requests : Keeping(req[r], rows, cookie, posted, repeated)

\* A cookie is replaced.
LEMMA CookieReplaced ==
  ASSUME NEW c, c \in [Browsers -> SUBSET Line], IsFiniteSet(CookiePieces(c)), NEW b \in Browsers,
         Counted(c[b]), NEW L, Counted(L)
  PROVE  LET after == CookiePieces([c EXCEPT ![b] = L]) IN
         /\ IsFiniteSet(after) /\ Cardinality(after) \in Nat
         /\ Cardinality(CookiePieces(c)) \in Nat /\ Pieces(c[b]) \in Nat /\ Pieces(L) \in Nat
         /\ Cardinality(after) + Pieces(c[b]) = Cardinality(CookiePieces(c)) + Pieces(L)
  <1> DEFINE rest  == UNION {{a} \X PiecesOf(c[a]) : a \in Browsers \ {b}}
             old   == {b} \X PiecesOf(c[b])
             new   == {b} \X PiecesOf(L)
             after == CookiePieces([c EXCEPT ![b] = L])
  <1>1. CookiePieces(c) = rest \cup old
    BY DEF CookiePieces
  <1>2. after = rest \cup new
    BY DEF CookiePieces
  <1>3. (\A x \in rest : x \notin old) /\ \A x \in rest : x \notin new
    OBVIOUS
  <1>4. /\ IsFiniteSet(old) /\ Cardinality(old) = Pieces(c[b])
        /\ IsFiniteSet(new) /\ Cardinality(new) = Pieces(L)
    <2>1. IsFiniteSet({b}) /\ Cardinality({b}) = 1
      BY FS_Singleton
    <2>2. IsFiniteSet(PiecesOf(c[b])) /\ IsFiniteSet(PiecesOf(L))
      BY PiecesFinite
    <2> QED
      BY <2>1, <2>2, OneTimes DEF Pieces
  <1>5. Pieces(c[b]) \in Nat /\ Pieces(L) \in Nat
    BY PiecesFinite
  <1> HIDE DEF rest, old, new, after
  <1>6. IsFiniteSet(rest)
    <2>1. rest \subseteq CookiePieces(c)
      BY <1>1
    <2> QED
      BY <2>1, FS_Subset
  <1>7. /\ Cardinality(CookiePieces(c)) = Cardinality(rest) + Cardinality(old)
        /\ IsFiniteSet(after) /\ Cardinality(after) = Cardinality(rest) + Cardinality(new)
        /\ Cardinality(rest) \in Nat
    BY <1>1, <1>2, <1>3, <1>4, <1>6, Disjoint
  <1> QED
    BY <1>4, <1>5, <1>7 DEF after

\* A cookie is deleted.
LEMMA CookieDeleted ==
  ASSUME NEW c, c \in [Browsers -> SUBSET Line], IsFiniteSet(CookiePieces(c)), NEW b \in Browsers,
         Counted(c[b]), NEW S, Counted(S)
  PROVE  /\ IsFiniteSet(CookiePieces(Without(c, b))) /\ Stock(S, Without(c, b)) \in Nat
         /\ Pieces(c[b]) \in Nat /\ Stock(S, c) = Stock(S, Without(c, b)) + Pieces(c[b])
  <1>1. Counted({}) /\ Pieces({}) = 0
    BY FS_EmptySet DEF Counted, Pieces, PiecesOf
  <1>2. Pieces(S) \in Nat
    BY PiecesFinite
  <1>3. /\ IsFiniteSet(CookiePieces(Without(c, b))) /\ Cardinality(CookiePieces(Without(c, b))) \in Nat
        /\ Cardinality(CookiePieces(c)) \in Nat /\ Pieces(c[b]) \in Nat
        /\ Cardinality(CookiePieces(Without(c, b))) + Pieces(c[b]) = Cardinality(CookiePieces(c)) + Pieces({})
    BY <1>1, CookieReplaced DEF Without
  <1> QED
    BY <1>1, <1>2, <1>3 DEF Stock

\* What the invariant says of a request.
LEMMA KeepingNow ==
  ASSUME ConservedInv, NEW r \in Requests
  PROVE  LET q == req[r] IN
         /\ AtomicInv /\ Carries(q, rows, cookie, session, repeated)
         /\ Keeping(q, rows, cookie, posted, repeated)
         /\ q \in Request /\ req = [s \in Requests |-> req[s]] /\ KindKnown(q)
         /\ (q.pc \notin InTransaction => q.tx = {}) /\ (q.kind = "add" => q.tx = {})
         /\ Stands(q, rows, nextId, hash, repeated)
         /\ q.item \in Line /\ q.item.skuNum = 1 /\ q.browser \in Browsers
  BY CarriesNow, SerialNow DEF ConservedInv, KindKnown, Request

\* What it says of the table and the cookies.
LEMMA StockNow ==
  ASSUME ConservedInv
  PROVE  /\ TypeInv /\ Counted(rows) /\ Pieces(rows) \in Nat /\ Stock(rows, cookie) \in Nat
         /\ \A b \in Browsers : Counted(cookie[b])
         /\ cookie \in [Browsers -> SUBSET Line] /\ IsFiniteSet(CookiePieces(cookie))
         /\ posted \in Nat /\ repeated \in Nat /\ nextId \in Nat
         /\ \A r \in Requests : Counted(req[r].sent) /\ Counted(req[r].tx) /\ Counted(req[r].found)
         /\ rows \subseteq Row /\ \A x, y \in rows : x.id = y.id => x = y
         /\ \A x \in rows : x.id < nextId
  <1>1. TypeInv /\ TypeOK /\ SerialPart /\ IsFiniteSet(CookiePieces(cookie))
    BY DEF ConservedInv, AtomicInv, SerialInv, TypeInv
  <1>2. (\A x \in Row : x.skuNum \in Nat) /\ \A x \in Line : x.skuNum \in Nat
    BY DEF Row, Line
  <1>3. Counted(rows) /\ \A b \in Browsers : Counted(cookie[b])
    BY <1>1, <1>2 DEF TypeInv, TypeOK, Counted
  <1>4. \A r \in Requests : Counted(req[r].sent) /\ Counted(req[r].tx) /\ Counted(req[r].found)
    <2> SUFFICES ASSUME NEW r \in Requests
                 PROVE  Counted(req[r].sent) /\ Counted(req[r].tx) /\ Counted(req[r].found)
      OBVIOUS
    <2>1. /\ Finite(req[r]) /\ req[r].sent \subseteq Line /\ req[r].tx \subseteq Row
          /\ req[r].found \subseteq Row
      BY <1>1, TypesNow
    <2> QED
      BY <1>2, <2>1 DEF Finite, Counted
  <1>5. Pieces(rows) \in Nat /\ Cardinality(CookiePieces(cookie)) \in Nat
    BY <1>1, <1>3, PiecesFinite, FS_CardinalityType
  <1>6. Stock(rows, cookie) \in Nat
    BY <1>5 DEF Stock
  <1>7. /\ cookie \in [Browsers -> SUBSET Line] /\ posted \in Nat /\ repeated \in Nat /\ nextId \in Nat
        /\ rows \subseteq Row
    BY <1>1, CartBounds DEF TypeOK
  <1>8. /\ \A x, y \in rows : x.id = y.id => x = y
        /\ \A x \in rows : x.id < nextId
    BY <1>1 DEF SerialPart, Table
  <1> QED
    BY <1>1, <1>3, <1>4, <1>5, <1>6, <1>7, <1>8

\* No piece has been posted and none is there.
LEMMA InitConserved == Init => ConservedInv
  <1> SUFFICES ASSUME Init PROVE ConservedInv
    OBVIOUS
  <1>1. PiecesOf(rows) = {} /\ CookiePieces(cookie) = {}
    BY DEF Init, PiecesOf, CookiePieces
  <1>2. Stock(rows, cookie) = 0 /\ posted = 0 /\ IsFiniteSet(CookiePieces(cookie))
    <2>1. posted = 0
      BY DEF Init
    <2>2. Cardinality({}) = 0 /\ IsFiniteSet({})
      BY FS_EmptySet
    <2>3. Pieces(rows) = 0
      BY <1>1, <2>2 DEF Pieces
    <2> QED
      BY <1>1, <2>1, <2>2, <2>3 DEF Stock
  <1>3. ItemsConserved
    BY <1>2 DEF ItemsConserved, Stock, CookiePieces
  <1>4. \A r \in Requests : req[r].pc = "idle"
    BY DEF Init, NoRequest, NewRequest
  <1>5. \A r \in Requests : Keeping(req[r], rows, cookie, posted, repeated)
    BY <1>2, <1>4 DEF Keeping, Covers, Due, InTransaction
  <1> QED
    BY <1>2, <1>3, <1>5, InitAtomicInv DEF ConservedInv

\* A step of the only request.
LEMMA KeepingStep ==
  ASSUME OneRequest, AtomicInv', NEW r \in Requests, IsFiniteSet(CookiePieces(cookie')),
         Keeping(req'[r], rows', cookie', posted', repeated')
  PROVE  ConservedInv'
  <1>1. ASSUME Quiet' PROVE Covers(Stock(rows', cookie'), posted', repeated')
    <2>1. req'[r].pc = "idle"
      BY <1>1 DEF Quiet
    <2>2. Counted(rows')
      BY DEF AtomicInv, SerialInv, TypeInv, TypeOK, Counted, Row
    <2>3. Pieces(rows') \in Nat /\ Cardinality(CookiePieces(cookie')) \in Nat
      BY <2>2, PiecesFinite, FS_CardinalityType
    <2>4. Stock(rows', cookie') \in Nat /\ Due(req'[r]) = 0
      BY <2>1, <2>3 DEF Stock, Due
    <2> QED
      BY <2>1, <2>4 DEF Keeping, Covers
  <1>2. ItemsConserved'
    BY <1>1 DEF ItemsConserved, Covers, Stock, CookiePieces
  <1>3. \A s \in Requests : Keeping(req'[s], rows', cookie', posted', repeated')
    BY DEF OneRequest
  <1> QED
    BY <1>2, <1>3 DEF ConservedInv

\* A request that ends owes nothing.
LEMMA KeepingDone ==
  ASSUME NEW S, NEW c, NEW p, NEW k, Stock(S, c) \in Nat, Covers(Stock(S, c), p, k)
  PROVE  Keeping(NoRequest, S, c, p, k)
  BY DEF Keeping, Due, NoRequest, NewRequest, InTransaction, Covers

\* A request moves on in its transaction.
LEMMA KeepingOn ==
  ASSUME NEW q, NEW p, NEW S, NEW c, NEW n, NEW k, Keeping(q, S, c, n, k), Same(q, p),
         p.tx = q.tx, p.found = q.found, q.pc \in InTransaction, p.pc \in InTransaction
  PROVE  Keeping(p, S, c, n, k)
  BY DEF Keeping, Due, Same, InTransaction

-----------------------------------------------------------------------------
(* What each step does to the pieces.                                        *)

\* A cookie gets a piece, or a mark.
LEMMA PiecesOfCookie ==
  ASSUME NEW L, L \subseteq Line, Counted(L), OneLine(L), NEW item \in Line, item.skuNum = 1
  PROVE  /\ Counted(PutLine(L, item)) /\ Pieces(PutLine(L, item)) = Pieces(L) + 1
         /\ Counted(CheckLine(L, item)) /\ Pieces(CheckLine(L, item)) = Pieces(L)
  <1> DEFINE T == Atomic!OfSku(L, item.skuId)
             more(l)   == [l EXCEPT !.skuNum = @ + 1]
             marked(l) == [l EXCEPT !.isChecked = item.isChecked]
  <1>1. /\ PutLine(L, item) = IF T = {} THEN L \cup {item} ELSE (L \ T) \cup {more(l) : l \in T}
        /\ CheckLine(L, item) = (L \ T) \cup {marked(l) : l \in T}
    BY CookieLines DEF Atomic!Put, Atomic!Mark, Atomic!More
  <1>2. T = {l \in L : l.skuId = item.skuId}
    BY DEF Atomic!OfSku
  <1>3. \A l \in L : /\ more(l).skuNum = l.skuNum + 1 /\ marked(l).skuNum = l.skuNum /\ l.skuNum \in Nat
                     /\ more(l).skuId = l.skuId /\ marked(l).skuId = l.skuId
    BY DEF Line
  <1> HIDE DEF T, more, marked
  <1>4. CASE T = {}
    <2>1. item \notin L /\ PutLine(L, item) = L \cup {item} /\ CheckLine(L, item) = L
      BY <1>1, <1>2, <1>4
    <2>2. Counted({item}) /\ Pieces({item}) = 1
      BY PiecesOfOne
    <2> QED
      BY <2>1, <2>2, PiecesUnion
  <1>5. CASE T # {}
    <2>1. PICK l \in L : T = {l} /\ \A m \in L \ {l} : m.skuId # l.skuId
      BY <1>2, <1>5 DEF OneLine
    <2>2. PutLine(L, item) = (L \ {l}) \cup {more(l)} /\ CheckLine(L, item) = (L \ {l}) \cup {marked(l)}
      BY <1>1, <2>1
    <2>3. more(l) \notin L \ {l} /\ marked(l) \notin L \ {l}
      BY <1>3, <2>1
    <2>4. Pieces(L) \in Nat
      BY PiecesFinite
    <2>5. /\ Pieces(PutLine(L, item)) = Pieces(L) + (l.skuNum + 1) - l.skuNum
          /\ Pieces(CheckLine(L, item)) = Pieces(L) + l.skuNum - l.skuNum
      <3>1. more(l).skuNum \in Nat /\ marked(l).skuNum \in Nat
        BY <1>3
      <3> QED
        BY <1>3, <2>2, <2>3, <3>1, PiecesReplaced
    <2>6. Counted(PutLine(L, item)) /\ Counted(CheckLine(L, item))
      <3>1. IsFiniteSet(L \ {l}) /\ IsFiniteSet((L \ {l}) \cup {more(l)}) /\ IsFiniteSet((L \ {l}) \cup {marked(l)})
        BY FS_RemoveElement, FS_AddElement DEF Counted
      <3> QED
        BY <1>3, <2>2, <3>1 DEF Counted
    <2> QED
      BY <1>3, <2>4, <2>5, <2>6
  <1> QED
    BY <1>4, <1>5

\* updateCart adds a piece to a row, unless it finds what it is to write: then it was repeated.
LEMMA PiecesOfUpdate ==
  ASSUME NEW S, S \subseteq Row, Counted(S), \A x, y \in S : x.id = y.id => x = y,
         NEW x \in S, NEW item \in Line, item.skuNum = 1
  PROVE  /\ Pieces(Overlay(S, MorePieces({x}, item))) = Pieces(S) + 1
         /\ MorePieces({x}, item) \subseteq Overlay(S, MorePieces({x}, item))
  <1> DEFINE y == [x EXCEPT !.skuNum = @ + item.skuNum]
  <1>1. MorePieces({x}, item) = {y}
    BY DEF MorePieces
  <1>2. y.id = x.id /\ y.skuNum = x.skuNum + 1 /\ x.skuNum \in Nat
    BY DEF Row
  <1> HIDE DEF y
  <1>3. Overlay(S, {y}) = (S \ {x}) \cup {y} /\ y \notin S \ {x}
    BY <1>2 DEF Overlay
  <1>4. Pieces((S \ {x}) \cup {y}) = Pieces(S) + (x.skuNum + 1) - x.skuNum /\ Pieces(S) \in Nat
    <2>1. y.skuNum \in Nat
      BY <1>2
    <2> QED
      BY <1>2, <1>3, <2>1, PiecesReplaced, PiecesFinite
  <1>5. Pieces(S) + (x.skuNum + 1) - x.skuNum = Pieces(S) + 1
    BY <1>2, <1>4
  <1>6. Pieces(Overlay(S, {y})) = Pieces(S) + 1
    BY <1>3, <1>4, <1>5
  <1>7. {y} \subseteq Overlay(S, {y})
    BY <1>3
  <1> QED
    BY <1>1, <1>6, <1>7

\* Writes that are there already.
LEMMA OverlayAgain ==
  ASSUME NEW S, NEW W, W \subseteq S, \A x, y \in S : x.id = y.id => x = y
  PROVE  Overlay(S, W) = S
  BY DEF Overlay

\* updateCartCheck changes no number.
LEMMA PiecesOfMarked ==
  ASSUME NEW S, S \subseteq Row, Counted(S), \A x, y \in S : x.id = y.id => x = y,
         NEW T, T \subseteq S, NEW checked \in BOOLEAN
  PROVE  Pieces(Overlay(S, {[x EXCEPT !.isChecked = checked] : x \in T})) = Pieces(S)
  <1> DEFINE f == [x \in T |-> [x EXCEPT !.isChecked = checked]]
             W == {f[x] : x \in T}
  <1>1. W = {[x EXCEPT !.isChecked = checked] : x \in T}
    OBVIOUS
  <1>2. DOMAIN f = T /\ \A x \in T : f[x].id = x.id /\ f[x].skuNum = x.skuNum
    BY DEF Row
  <1> HIDE DEF f
  <1>3. \A x, y \in T : f[x] = f[y] => x = y
    BY <1>2
  <1>4. /\ Counted(T) /\ Counted(S \ T) /\ Pieces(T) \in Nat /\ Pieces(S \ T) \in Nat
        /\ Pieces(S) = Pieces(S \ T) + Pieces(T)
    BY PiecesOfPart
  <1>5. Pieces(W) = Pieces(T) /\ Counted(W)
    BY <1>2, <1>3, <1>4, SamePieces
  <1>6. Overlay(S, W) = (S \ T) \cup W
    <2>1. (\A x \in T : \E v \in W : v.id = x.id) /\ \A v \in W : \E x \in T : v.id = x.id
      BY <1>2
    <2> HIDE DEF W
    <2> QED
      BY <2>1, OverlayUpdate
  <1>7. \A x \in S \ T : x \notin W
    BY <1>2
  <1> HIDE DEF W
  <1>8. Pieces(Overlay(S, W)) = Pieces(S \ T) + Pieces(W)
    BY <1>4, <1>5, <1>6, <1>7, PiecesUnion
  <1> QED
    BY <1>1, <1>4, <1>5, <1>8

\* combineCart brings the pieces of the cookie into the table: what it adds to rows and what it inserts.
LEMMA PiecesOfMerge ==
  ASSUME SerialInv, NEW r \in Requests, req[r].pc = "merge", Counted(rows), Counted(req[r].sent)
  PROVE  Pieces(Overlay(rows, MergeRows(req[r]) \cup MergeNew(req[r]))) = Pieces(rows) + Pieces(req[r].sent)
  <1> DEFINE q == req[r]
             T == {x \in rows : \E l \in q.sent : l.skuId = x.skuId}
             K == q.sent \ Fresh(q)
             line == [x \in T |-> CHOOSE l \in q.sent : l.skuId = x.skuId]
             more == [x \in T |-> [x EXCEPT !.skuNum = @ + line[x].skuNum]]
             new  == [l \in Fresh(q) |-> NewRow(MergeOrder(q)[l], q.user, l)]
             u == [x \in T |-> x.skuNum]
             v == [x \in T |-> line[x].skuNum]
             w == [x \in T |-> x.skuNum + line[x].skuNum]
  <1>1. /\ q.base = rows /\ rows \subseteq Row /\ \A x, y \in rows : x.id = y.id => x = y
        /\ OneLine(q.sent) /\ \A l \in q.sent : \A x, y \in Matching(rows, l) : x = y
    BY SerialNow, TypesNow DEF Stands, BaseStands, Table
  <1>2. MergeOrder(q) \in [Fresh(q) -> MergeIds(q)] /\ IsInjective(MergeOrder(q))
    BY SerialNow, MergeNumbers
  <1>3. /\ Overlay(rows, MergeRows(q) \cup MergeNew(q)) = (rows \ T) \cup (MergeRows(q) \cup MergeNew(q))
        /\ \A x \in MergeRows(q) : \E y \in T : x.id = y.id
        /\ \A x \in MergeNew(q) : \A y \in rows : x.id # y.id
    BY MergeOverlay
  <1>4. Counted(rows) /\ Counted(q.sent)
    OBVIOUS
  <1> HIDE DEF q
  <1>5. \A l \in q.sent : l \in Fresh(q) <=> \A x \in rows : x.skuId # l.skuId
    BY <1>1 DEF Fresh, Matching, OfSku
  <1>6. \A x \in T : line[x] \in q.sent /\ line[x].skuId = x.skuId /\ line[x] \in K
    BY <1>5
  <1>7. \A l \in K : \E x \in T : line[x] = l
    <2> SUFFICES ASSUME NEW l \in K PROVE \E x \in T : line[x] = l
      OBVIOUS
    <2>1. PICK x \in rows : x.skuId = l.skuId
      BY <1>5
    <2>2. x \in T /\ line[x] \in q.sent /\ line[x].skuId = l.skuId
      BY <1>6, <2>1
    <2> QED
      BY <1>1, <2>2 DEF OneLine
  <1>8. \A x, y \in T : line[x] = line[y] => x = y
    <2> SUFFICES ASSUME NEW x \in T, NEW y \in T, line[x] = line[y] PROVE x = y
      OBVIOUS
    <2>1. line[x] \in q.sent /\ x.skuId = line[x].skuId /\ y.skuId = line[x].skuId /\ x \in rows /\ y \in rows
      BY <1>6
    <2> HIDE DEF line, T
    <2> QED
      BY <1>1, <2>1 DEF Matching, OfSku
  <1> HIDE DEF line
  <1>9. /\ Counted(T) /\ Counted(rows \ T) /\ Pieces(T) \in Nat /\ Pieces(rows \ T) \in Nat
        /\ Pieces(rows) = Pieces(rows \ T) + Pieces(T)
    <2>1. T \subseteq rows
      OBVIOUS
    <2> HIDE DEF T
    <2> QED
      BY <1>4, <2>1, PiecesOfPart
  <1>10. /\ Counted(Fresh(q)) /\ Counted(K) /\ Pieces(Fresh(q)) \in Nat /\ Pieces(K) \in Nat
         /\ Pieces(q.sent) = Pieces(K) + Pieces(Fresh(q))
    <2>1. Fresh(q) \subseteq q.sent
      BY DEF Fresh
    <2> QED
      BY <1>4, <2>1, PiecesOfPart
  <1>11. \A x \in T : u[x] \in Nat /\ v[x] \in Nat /\ w[x] = u[x] + v[x] /\ w[x] \in Nat
    BY <1>6, <1>9, <1>10 DEF Counted
  <1>12. DOMAIN more = T /\ \A x \in T : more[x].id = x.id /\ more[x].skuNum = w[x]
    BY <1>1 DEF Row
  <1>13. MergeRows(q) = {more[x] : x \in T}
    <2>1. ASSUME NEW l \in q.sent, NEW x \in rows, x.skuId = l.skuId
          PROVE  x \in T /\ line[x] = l
      <3>1. x \in T
        BY <2>1
      <3>2. line[x] \in q.sent /\ line[x].skuId = l.skuId
        BY <1>6, <2>1, <3>1
      <3> QED
        BY <1>1, <3>1, <3>2 DEF OneLine
    <2>2. \A z : z \in MergeRows(q) <=> \E l \in q.sent : \E x \in rows :
                    x.skuId = l.skuId /\ z = [x EXCEPT !.skuNum = @ + l.skuNum]
      BY <1>1 DEF MergeRows, MorePieces, Matching, OfSku
    <2>3. \A x \in T : more[x] = [x EXCEPT !.skuNum = @ + line[x].skuNum] /\ x \in rows
      OBVIOUS
    <2> HIDE DEF T, more
    <2>4. \A z : z \in MergeRows(q) => \E x \in T : z = more[x]
      BY <2>1, <2>2, <2>3
    <2>5. ASSUME NEW x \in T PROVE more[x] \in MergeRows(q)
      <3>1. /\ line[x] \in q.sent /\ x \in rows /\ x.skuId = line[x].skuId
            /\ more[x] = [x EXCEPT !.skuNum = @ + line[x].skuNum]
        BY <1>6, <2>3
      <3> QED
        BY <2>2, <3>1
    <2> QED
      BY <2>4, <2>5
  <1> HIDE DEF more, u, v, w
  <1>14. Pieces(MergeRows(q)) = Cardinality(Cells(T, w)) /\ Counted(MergeRows(q))
    <2>1. \A x, y \in T : more[x] = more[y] => x = y
      BY <1>1, <1>12
    <2>2. IsFiniteSet(T)
      BY <1>9 DEF Counted
    <2> HIDE DEF T
    <2>3. Pieces({more[x] : x \in T}) = Cardinality(Cells(T, w))
      BY <1>11, <1>12, <2>1, <2>2, PiecesByIndex
    <2>4. IsFiniteSet({more[x] : x \in T})
      BY <1>12, <2>2, FiniteImage
    <2> QED
      BY <1>11, <1>12, <1>13, <2>3, <2>4 DEF Counted
  <1>15. Pieces(T) = Cardinality(Cells(T, u))
    <2> DEFINE g == [x \in T |-> x]
    <2>1. DOMAIN g = T /\ (\A x \in T : g[x] = x /\ g[x].skuNum = u[x]) /\ {g[x] : x \in T} = T
      BY DEF u
    <2>2. IsFiniteSet(T)
      BY <1>9 DEF Counted
    <2> HIDE DEF T, g
    <2>3. Pieces({g[x] : x \in T}) = Cardinality(Cells(T, u))
      BY <1>11, <2>1, <2>2, PiecesByIndex
    <2> QED
      BY <2>1, <2>3
  <1>16. Pieces(K) = Cardinality(Cells(T, v))
    <2>1. DOMAIN line = T /\ \A x \in T : line[x].skuNum = v[x]
      BY DEF line, v
    <2>2. {line[x] : x \in T} = K
      BY <1>6, <1>7
    <2>3. IsFiniteSet(T)
      BY <1>9 DEF Counted
    <2> HIDE DEF T, K
    <2>4. Pieces({line[x] : x \in T}) = Cardinality(Cells(T, v))
      BY <1>8, <1>11, <2>1, <2>3, PiecesByIndex
    <2> QED
      BY <2>2, <2>4
  <1>17. Pieces(MergeRows(q)) = Pieces(T) + Pieces(K)
    <2>1. IsFiniteSet(T)
      BY <1>9 DEF Counted
    <2> HIDE DEF T, K
    <2>2. Cardinality(Cells(T, w)) = Cardinality(Cells(T, u)) + Cardinality(Cells(T, v))
      BY <1>11, <2>1, CellsAdd
    <2> QED
      BY <1>14, <1>15, <1>16, <2>2
  <1>18. Pieces(MergeNew(q)) = Pieces(Fresh(q)) /\ Counted(MergeNew(q))
    <2>1. MergeNew(q) = {new[l] : l \in Fresh(q)} /\ DOMAIN new = Fresh(q)
      BY DEF MergeNew
    <2>2. \A l \in Fresh(q) : new[l].id = MergeOrder(q)[l] /\ new[l].skuNum = l.skuNum
      BY DEF NewRow
    <2> HIDE DEF new
    <2>3. \A l, m \in Fresh(q) : new[l] = new[m] => l = m
      BY <1>2, <2>2 DEF IsInjective
    <2> QED
      BY <1>10, <2>1, <2>2, <2>3, SamePieces
  <1>19. /\ Pieces(MergeRows(q) \cup MergeNew(q)) = Pieces(MergeRows(q)) + Pieces(MergeNew(q))
         /\ Counted(MergeRows(q) \cup MergeNew(q))
    <2>1. \A x \in MergeRows(q) : x \notin MergeNew(q)
      BY <1>3
    <2> QED
      BY <1>14, <1>18, <2>1, PiecesUnion
  <1>20. Pieces((rows \ T) \cup (MergeRows(q) \cup MergeNew(q)))
           = Pieces(rows \ T) + Pieces(MergeRows(q) \cup MergeNew(q))
    <2>1. \A x \in rows \ T : x \notin MergeRows(q) \cup MergeNew(q)
      BY <1>1, <1>3
    <2> HIDE DEF T
    <2> QED
      BY <1>9, <1>19, <2>1, PiecesUnion
  <1> HIDE DEF T, K
  <1>21. Pieces(Overlay(rows, MergeRows(q) \cup MergeNew(q))) = Pieces(rows) + Pieces(q.sent)
    <2>1. Pieces(Overlay(rows, MergeRows(q) \cup MergeNew(q)))
            = Pieces(rows \ T) + (Pieces(MergeRows(q)) + Pieces(MergeNew(q)))
      BY <1>3, <1>19, <1>20
    <2> QED
      BY <1>9, <1>10, <1>17, <1>18, <2>1
  <1> QED
    BY <1>21 DEF q

-----------------------------------------------------------------------------
(* What each step keeps.                                                     *)

\* A request arrives; a piece that is put into the cart counts from now on.
LEMMA KeepingSubmit ==
  ASSUME ConservedInv, NEW r \in Requests, NEW b \in Browsers, Submit(r, b), UNCHANGED repeated
  PROVE  /\ IsFiniteSet(CookiePieces(cookie'))
         /\ Keeping(req'[r], rows', cookie', posted', repeated')
  <1>1. PICK label, kind, user, item :
             /\ Arrive(r, b, kind, user, item, label)
             /\ label \in {"setCookie", "exists", "update", "begin", "select"}
             /\ \/ posted' = posted + 1 /\ ((label = "setCookie" /\ kind = "addCookie") \/ label = "exists")
                \/ posted' = posted /\ label # "exists" /\ (label = "setCookie" => kind # "addCookie")
             /\ label = "select" => kind = "login" /\ cookie[b] = {}
    <2>1. ASSUME NEW s \in Skus, AddToCart(r, b, s)
          PROVE  \E label, kind, user, item :
                    /\ Arrive(r, b, kind, user, item, label)
                    /\ posted' = posted + 1 /\ ((label = "setCookie" /\ kind = "addCookie") \/ label = "exists")
      BY <2>1 DEF AddToCart
    <2>2. ASSUME NEW s \in Skus, CheckCart(r, b, s)
          PROVE  \E label, kind, user, item :
                    /\ Arrive(r, b, kind, user, item, label)
                    /\ posted' = posted
                    /\ ((label = "setCookie" /\ kind = "checkCookie") \/ label = "update")
      BY <2>2 DEF CheckCart
    <2>3. ASSUME NEW u \in Users, Login(r, b, u)
          PROVE  \E label, kind, user, item :
                    /\ Arrive(r, b, kind, user, item, label)
                    /\ posted' = posted /\ label \in {"begin", "select"}
                    /\ kind = "login"
                    /\ label = "select" => cookie[b] = {}
      BY <2>3 DEF Login, CombineLabel
    <2> QED
      BY <2>1, <2>2, <2>3 DEF Submit
  <1> DEFINE p == NewRequest(label, kind, b, user, item, cookie[b])
  <1>2. p.pc = label /\ p.kind = kind /\ p.sent = cookie[b] /\ p.tx = {}
    BY DEF NewRequest
  <1>3. req' = [req EXCEPT ![r] = p] /\ UNCHANGED <<rows, cookie>> /\ req[r].pc = "idle"
    BY <1>1 DEF Arrive
  <1> HIDE DEF p
  <1>4. req'[r] = p
    BY <1>3, KeepingNow
  <1>5. /\ Stock(rows, cookie) \in Nat /\ posted \in Nat /\ IsFiniteSet(CookiePieces(cookie))
        /\ Pieces(rows) \in Nat
    BY StockNow
  <1>6. Covers(Stock(rows, cookie), posted, repeated)
    BY <1>3, <1>5, KeepingNow DEF Keeping, Due, Covers
  <1>7. Covers(Stock(rows, cookie) + Due(p), posted', repeated')
    BY <1>1, <1>2, <1>5, <1>6 DEF Due, Covers
  <1>8. Pieces(Overlay(rows, {})) = Pieces(rows) + Pieces({})
    <2>1. Pieces({}) = 0
      BY FS_EmptySet DEF Pieces, PiecesOf
    <2> QED
      BY <1>5, <2>1, OverlayNothing
  <1> QED
    BY <1>1, <1>2, <1>3, <1>4, <1>5, <1>7, <1>8 DEF Keeping, InTransaction

\* The browser gets its cookie with the piece.
LEMMA KeepingSetCookie ==
  ASSUME ConservedInv, NEW r \in Requests, SetCookie(r), UNCHANGED repeated
  PROVE  /\ IsFiniteSet(CookiePieces(cookie'))
         /\ Keeping(req'[r], rows', cookie', posted', repeated')
  <1> DEFINE q == req[r]
             L == IF q.kind = "addCookie" THEN PutLine(q.sent, q.item) ELSE CheckLine(q.sent, q.item)
  <1>1. /\ q.pc = "setCookie" /\ cookie' = [cookie EXCEPT ![q.browser] = L]
        /\ req'[r] = NoRequest /\ UNCHANGED <<rows, posted>>
    BY KeepingNow DEF SetCookie, Done
  <1>2. /\ q.sent = cookie[q.browser] /\ q.browser \in Browsers /\ q.item \in Line /\ q.item.skuNum = 1
        /\ OneLine(q.sent) /\ Covers(Stock(rows, cookie) + Due(q), posted, repeated)
    BY <1>1, KeepingNow DEF Carries, Stands, Keeping
  <1>3. /\ Stock(rows, cookie) \in Nat /\ posted \in Nat /\ IsFiniteSet(CookiePieces(cookie))
        /\ cookie \in [Browsers -> SUBSET Line] /\ Pieces(rows) \in Nat
        /\ Counted(cookie[q.browser])
    BY <1>2, StockNow
  <1>4. Counted(L) /\ Pieces(L) = Pieces(q.sent) + Due(q)
    <2>1. q.sent \subseteq Line /\ Pieces(q.sent) \in Nat
      BY <1>2, <1>3, PiecesFinite
    <2>2. /\ Counted(PutLine(q.sent, q.item)) /\ Pieces(PutLine(q.sent, q.item)) = Pieces(q.sent) + 1
          /\ Counted(CheckLine(q.sent, q.item)) /\ Pieces(CheckLine(q.sent, q.item)) = Pieces(q.sent)
      BY <1>2, <1>3, <2>1, PiecesOfCookie
    <2> QED
      BY <1>1, <2>1, <2>2 DEF Due
  <1> HIDE DEF L
  <1>5. /\ IsFiniteSet(CookiePieces(cookie')) /\ Cardinality(CookiePieces(cookie')) \in Nat
        /\ Cardinality(CookiePieces(cookie)) \in Nat /\ Pieces(q.sent) \in Nat
        /\ Cardinality(CookiePieces(cookie')) + Pieces(q.sent) = Cardinality(CookiePieces(cookie)) + Pieces(L)
    <2> DEFINE b == q.browser
    <2>1. b \in Browsers /\ cookie[b] = q.sent /\ cookie' = [cookie EXCEPT ![b] = L] /\ Counted(cookie[b])
      BY <1>1, <1>2, <1>3
    <2> DEFINE after == CookiePieces([cookie EXCEPT ![b] = L])
    <2> HIDE DEF b
    <2>2. /\ IsFiniteSet(after) /\ Cardinality(after) \in Nat
          /\ Cardinality(CookiePieces(cookie)) \in Nat /\ Pieces(cookie[b]) \in Nat
          /\ Cardinality(after) + Pieces(cookie[b]) = Cardinality(CookiePieces(cookie)) + Pieces(L)
      BY <1>3, <1>4, <2>1, CookieReplaced
    <2> QED
      BY <2>1, <2>2
  <1>6. Due(q) \in Nat
    BY DEF Due
  <1>7. Stock(rows', cookie') = Stock(rows, cookie) + Due(q) /\ Stock(rows', cookie') \in Nat
    <2>1. Pieces(rows') = Pieces(rows)
      BY <1>1
    <2> QED
      BY <1>3, <1>4, <1>5, <1>6, <2>1 DEF Stock
  <1>8. Covers(Stock(rows', cookie'), posted', repeated')
    BY <1>1, <1>2, <1>7
  <1> QED
    BY <1>1, <1>5, <1>7, <1>8, KeepingDone

\* isCartExists finds the row, or throws, and then the piece is not counted.
LEMMA KeepingIsCartExists ==
  ASSUME ConservedInv, NEW r \in Requests, IsCartExists(r), UNCHANGED repeated
  PROVE  Keeping(req'[r], rows', cookie', posted', repeated')
  <1> DEFINE q == req[r]
             match == OfSku(OfUser(rows, HomeUser), q.item.skuId)
             p == [q EXCEPT !.pc = "write", !.found = match]
  <1>1. q.pc = "exists" /\ UNCHANGED <<rows, cookie>>
    BY DEF IsCartExists
  <1>2. /\ Covers(Stock(rows, cookie) + 1, posted, repeated) /\ Stock(rows, cookie) \in Nat
        /\ posted \in Nat /\ q.item.skuNum = 1
    BY <1>1, KeepingNow, StockNow DEF Keeping, Due
  <1>3. CASE req' = [req EXCEPT ![r].pc = "write", ![r].found = match] /\ UNCHANGED posted
    <2>1. req'[r] = p
      BY <1>3, KeepingNow
    <2>2. p.pc = "write" /\ p.found = match
      BY KeepingNow DEF Request
    <2>3. match \subseteq rows
      BY DEF OfSku, OfUser
    <2> HIDE DEF p, match
    <2> QED
      BY <1>1, <1>2, <1>3, <2>1, <2>2, <2>3 DEF Keeping, Due, InTransaction
  <1>4. CASE Done(r) /\ posted' = posted - q.item.skuNum
    <2>1. Covers(Stock(rows', cookie'), posted', repeated')
      BY <1>1, <1>2, <1>4 DEF Covers
    <2>2. req'[r] = NoRequest
      BY <1>4, KeepingNow DEF Done
    <2> QED
      BY <1>1, <1>2, <2>1, <2>2, KeepingDone
  <1> QED
    BY <1>3, <1>4 DEF IsCartExists

\* updateCart adds the piece to the row found, the first time.
LEMMA KeepingUpdateCart ==
  ASSUME ConservedInv, NEW r \in Requests, UpdateCart(r), UNCHANGED repeated
  PROVE  Keeping(req'[r], rows', cookie', posted', repeated')
  <1> DEFINE q == req[r]
             W == MorePieces(q.found, q.item)
             p == [q EXCEPT !.pc = "select"]
  <1>1. /\ q.pc = "write" /\ q.found # {} /\ rows' = Overlay(rows, W) /\ req'[r] = p
        /\ UNCHANGED <<cookie, posted>>
    BY KeepingNow DEF UpdateCart, Goto
  <1>2. /\ Same(q, p) /\ p.pc = "select" /\ p.found = q.found /\ p.tx = q.tx /\ q.kind = "add" /\ q.tx = {}
    BY <1>1, KeepingNow DEF Request, Same, KindKnown
  <1>3. /\ Covers(Stock(rows, cookie) + 1, posted, repeated)
        /\ q.found \subseteq rows \/ (W \subseteq rows /\ repeated > 0 /\ posted <= Stock(rows, cookie))
        /\ \A x, y \in q.found : x = y
        /\ q.item \in Line /\ q.item.skuNum = 1
    <2>1. Keeping(q, rows, cookie, posted, repeated) /\ Stands(q, rows, nextId, hash, repeated)
      BY KeepingNow
    <2>2. Due(q) = 1
      BY <1>1 DEF Due
    <2>3. \A x, y \in q.found : x = y
      BY <2>1 DEF Stands, FoundStands
    <2>4. q.item \in Line /\ q.item.skuNum = 1
      BY KeepingNow
    <2>5. q.pc = "write"
      BY <1>1
    <2> HIDE DEF q
    <2>6. /\ Covers(Stock(rows, cookie) + Due(q), posted, repeated)
          /\ q.found \subseteq rows \/ (W \subseteq rows /\ repeated > 0 /\ posted <= Stock(rows, cookie))
      BY <2>1, <2>5 DEF Keeping
    <2> QED
      BY <2>2, <2>3, <2>4, <2>6
  <1>4. /\ Counted(rows) /\ rows \subseteq Row /\ \A x, y \in rows : x.id = y.id => x = y
        /\ Stock(rows, cookie) \in Nat /\ posted \in Nat /\ Pieces(rows) \in Nat /\ repeated \in Nat
        /\ Cardinality(CookiePieces(cookie)) \in Nat
    BY StockNow, FS_CardinalityType
  <1> HIDE DEF p
  <1>5. W \subseteq rows' /\ Covers(Stock(rows', cookie'), posted', repeated') /\ Stock(rows', cookie') \in Nat
    <2>1. CASE q.found \subseteq rows
      <3>1. PICK x \in rows : q.found = {x}
        BY <1>1, <1>3, <2>1
      <3>2. Pieces(rows') = Pieces(rows) + 1 /\ W \subseteq rows'
        <4>1. W = MorePieces({x}, q.item) /\ rows' = Overlay(rows, W)
          BY <1>1, <3>1
        <4> HIDE DEF W, q
        <4>2. /\ Pieces(Overlay(rows, MorePieces({x}, q.item))) = Pieces(rows) + 1
              /\ MorePieces({x}, q.item) \subseteq Overlay(rows, MorePieces({x}, q.item))
          BY <1>3, <1>4, PiecesOfUpdate
        <4> QED
          BY <4>1, <4>2
      <3>3. Stock(rows', cookie') = Stock(rows, cookie) + 1
        BY <1>1, <1>4, <3>2 DEF Stock
      <3> QED
        BY <1>1, <1>3, <1>4, <3>2, <3>3
    <2>2. CASE W \subseteq rows /\ repeated > 0 /\ posted <= Stock(rows, cookie)
      <3>1. rows' = rows
        BY <1>1, <1>4, <2>2, OverlayAgain
      <3> QED
        BY <1>1, <1>4, <2>2, <3>1 DEF Covers
    <2> QED
      BY <1>3, <2>1, <2>2
  <1> QED
    <2>1. Stock(rows', cookie') + Due(p) = Stock(rows', cookie')
      BY <1>2, <1>5 DEF Due
    <2> QED
      BY <1>1, <1>2, <1>5, <2>1 DEF Keeping, Same, InTransaction

\* saveCart inserts a row of one piece.
LEMMA KeepingSaveCart ==
  ASSUME ConservedInv, NEW r \in Requests, SaveCart(r), UNCHANGED repeated
  PROVE  Keeping(req'[r], rows', cookie', posted', repeated')
  <1> DEFINE q == req[r]
             x == NewRow(nextId, HomeUser, q.item)
             p == [q EXCEPT !.pc = "select"]
  <1>1. /\ q.pc = "write" /\ q.found = {} /\ rows' = rows \cup {x} /\ req'[r] = p
        /\ UNCHANGED <<cookie, posted>>
    BY KeepingNow DEF SaveCart, Goto
  <1>2. /\ Same(q, p) /\ p.pc = "select" /\ p.found = q.found /\ p.tx = q.tx /\ q.kind = "add"
    BY <1>1, KeepingNow DEF Request, Same, KindKnown
  <1>3. Keeping(q, rows, cookie, posted, repeated) /\ q.item.skuNum = 1
    BY KeepingNow
  <1>4. /\ Counted(rows) /\ \A y \in rows : y.id < nextId
        /\ Stock(rows, cookie) \in Nat /\ Pieces(rows) \in Nat /\ nextId \in Nat
        /\ Cardinality(CookiePieces(cookie)) \in Nat
    BY StockNow, FS_CardinalityType
  <1>5. x.id = nextId /\ x.skuNum = 1
    BY <1>3 DEF NewRow
  <1> HIDE DEF p, x, q
  <1>6. Pieces(rows') = Pieces(rows) + 1
    <2>1. \A y \in rows : y \notin {x}
      BY <1>4, <1>5
    <2>2. Counted({x}) /\ Pieces({x}) = 1
      BY <1>5, PiecesOfOne
    <2> QED
      BY <1>1, <1>4, <2>1, <2>2, PiecesUnion
  <1>7. Stock(rows', cookie') = Stock(rows, cookie) + 1
    BY <1>1, <1>4, <1>6 DEF Stock
  <1>8. Covers(Stock(rows', cookie'), posted', repeated')
    <2>1. Due(q) = 1
      BY <1>1 DEF Due
    <2> QED
      BY <1>1, <1>3, <1>7, <2>1 DEF Keeping
  <1>9. Stock(rows', cookie') + Due(p) = Stock(rows', cookie')
    BY <1>2, <1>4, <1>7 DEF Due
  <1>10. MorePieces(p.found, p.item) = {}
    BY <1>1, <1>2 DEF MorePieces
  <1> QED
    BY <1>1, <1>2, <1>8, <1>9, <1>10 DEF Keeping, Same, InTransaction

\* updateCartCheck marks rows.
LEMMA KeepingUpdateCartCheck ==
  ASSUME ConservedInv, NEW r \in Requests, UpdateCartCheck(r), UNCHANGED repeated
  PROVE  Keeping(req'[r], rows', cookie', posted', repeated')
  <1> DEFINE q == req[r]
             T == OfSku(OfUser(rows, q.user), q.item.skuId)
             W == {[x EXCEPT !.isChecked = q.item.isChecked] : x \in T}
             p == [q EXCEPT !.pc = "select", !.tx = W]
  <1>1. q.pc = "update" /\ req'[r] = p /\ UNCHANGED <<rows, cookie, posted>>
    BY KeepingNow DEF UpdateCartCheck
  <1>2. Same(q, p) /\ p.pc = "select" /\ p.tx = W /\ q.kind = "check"
    BY <1>1, KeepingNow DEF Request, Same, KindKnown
  <1>3. Keeping(q, rows, cookie, posted, repeated) /\ q.item.isChecked \in BOOLEAN
    BY KeepingNow DEF Line
  <1>4. /\ Counted(rows) /\ rows \subseteq Row /\ \A x, y \in rows : x.id = y.id => x = y
        /\ Stock(rows, cookie) \in Nat /\ T \subseteq rows
    BY StockNow DEF OfSku, OfUser
  <1> HIDE DEF p, q, T
  <1>5. Pieces(Overlay(rows, W)) = Pieces(rows)
    BY <1>3, <1>4, PiecesOfMarked
  <1> HIDE DEF W
  <1>6. Due(q) = 0 /\ Due(p) = 0
    BY <1>1, <1>2 DEF Due
  <1> QED
    BY <1>1, <1>2, <1>3, <1>4, <1>5, <1>6 DEF Keeping, Same, InTransaction

\* combineCart writes the pieces of the cookie, in its transaction.
LEMMA KeepingCombine ==
  ASSUME ConservedInv, NEW r \in Requests, BeginCombine(r) \/ MergeLines(r), UNCHANGED repeated
  PROVE  Keeping(req'[r], rows', cookie', posted', repeated')
  <1> DEFINE q == req[r]
  <1>1. /\ Keeping(q, rows, cookie, posted, repeated) /\ q \in Request /\ req = [s \in Requests |-> req[s]]
        /\ Stock(rows, cookie) \in Nat /\ KindKnown(q)
    BY KeepingNow, StockNow
  <1>2. CASE BeginCombine(r)
    <2> DEFINE p == [q EXCEPT !.pc = "merge", !.base = rows]
    <2>1. q.pc = "begin" /\ UNCHANGED <<rows, cookie, posted>>
      BY <1>2 DEF BeginCombine
    <2>2. Covers(Stock(rows, cookie), posted, repeated)
      <3>1. Due(q) = 0
        BY <2>1 DEF Due
      <3> QED
        BY <1>1, <2>1, <3>1 DEF Keeping
    <2>3. CASE req' = [req EXCEPT ![r].pc = "merge", ![r].base = rows]
      <3>1. req'[r] = p /\ p.pc = "merge"
        BY <1>1, <2>3 DEF Request
      <3> HIDE DEF p, q
      <3>2. Stock(rows, cookie) + Due(p) = Stock(rows, cookie)
        BY <1>1, <3>1 DEF Due
      <3> QED
        BY <2>1, <2>2, <3>1, <3>2 DEF Keeping, InTransaction
    <2>4. CASE Done(r)
      <3>1. req'[r] = NoRequest
        BY <1>1, <2>4 DEF Done
      <3> QED
        BY <1>1, <2>1, <2>2, <3>1, KeepingDone
    <2> QED
      BY <1>2, <2>3, <2>4 DEF BeginCombine
  <1>3. CASE MergeLines(r)
    <2> DEFINE W == MergeRows(q) \cup MergeNew(q)
               p == [q EXCEPT !.pc = "select", !.tx = W]
    <2>1. q.pc = "merge" /\ UNCHANGED <<rows, cookie, posted>> /\ req' = [req EXCEPT ![r] = p]
      BY <1>3, StockNow, MergeEffect
    <2>2. Same(q, p) /\ p.pc = "select" /\ p.tx = W /\ q.kind = "login"
      BY <1>1, <2>1 DEF Request, Same, KindKnown
    <2>3. req'[r] = p
      BY <1>1, <2>1
    <2>4. Pieces(Overlay(rows, W)) = Pieces(rows) + Pieces(q.sent)
      <3>1. SerialInv /\ Counted(rows) /\ Counted(q.sent)
        BY StockNow DEF ConservedInv, AtomicInv
      <3> QED
        BY <2>1, <3>1, PiecesOfMerge
    <2> HIDE DEF p, W, q
    <2>5. Due(q) = 0 /\ Due(p) = 0
      BY <2>1, <2>2 DEF Due
    <2> QED
      BY <1>1, <2>1, <2>2, <2>3, <2>4, <2>5 DEF Keeping, Same, InTransaction
  <1> QED
    BY <1>2, <1>3

\* syncCache writes no rows.
LEMMA KeepingSync ==
  ASSUME ConservedInv, NEW r \in Requests, SelectRows(r) \/ DelHash(r) \/ HmsetHash(r), UNCHANGED repeated
  PROVE  Keeping(req'[r], rows', cookie', posted', repeated')
  <1> DEFINE q == req[r]
  <1>1. /\ Keeping(q, rows, cookie, posted, repeated) /\ q \in Request /\ req = [s \in Requests |-> req[s]]
        /\ Stock(rows, cookie) \in Nat
    BY KeepingNow, StockNow
  <1>2. UNCHANGED <<rows, cookie, posted>> /\ q.pc \in InTransaction
    BY DEF SelectRows, DelHash, HmsetHash, InTransaction
  <1>3. \/ \E p : req'[r] = p /\ Same(q, p) /\ p.tx = q.tx /\ p.found = q.found /\ p.pc \in InTransaction
        \/ req'[r] = NoRequest
    <2>1. CASE SelectRows(r)
      <3> DEFINE base == IF q.kind = "login" /\ q.sent # {} THEN q.base ELSE rows
                 list == OfUser(Overlay(base, q.tx), q.user)
                 p    == [q EXCEPT !.pc = "del", !.list = list]
      <3>1. req'[r] = p
        BY <1>1, <2>1 DEF SelectRows
      <3> HIDE DEF list
      <3>2. Same(q, p) /\ p.tx = q.tx /\ p.found = q.found /\ p.pc = "del"
        BY <1>1 DEF Request, Same
      <3> QED
        BY <3>1, <3>2 DEF InTransaction
    <2>2. ASSUME NEW label \in {"hmset", "commit"}, Goto(r, label)
          PROVE  \E p : /\ req'[r] = p /\ Same(q, p) /\ p.tx = q.tx /\ p.found = q.found
                        /\ p.pc \in InTransaction
      <3> DEFINE p == [q EXCEPT !.pc = label]
      <3>1. req'[r] = p
        BY <1>1, <2>2 DEF Goto
      <3>2. Same(q, p) /\ p.tx = q.tx /\ p.found = q.found /\ p.pc = label
        BY <1>1 DEF Request, Same
      <3> QED
        BY <3>1, <3>2 DEF InTransaction
    <2>3. CASE Done(r)
      BY <1>1, <2>3 DEF Done
    <2> QED
      BY <2>1, <2>2, <2>3 DEF DelHash, HmsetHash
  <1> HIDE DEF q
  <1>4. CASE req'[r] = NoRequest
    <2>1. Covers(Stock(rows, cookie), posted, repeated)
      <3>1. Due(q) = 0 /\ q.pc # "setToken"
        BY <1>2 DEF Due, InTransaction
      <3> QED
        BY <1>1, <3>1 DEF Keeping
    <2> QED
      BY <1>1, <1>2, <1>4, <2>1, KeepingDone
  <1> QED
    BY <1>1, <1>2, <1>3, <1>4, KeepingOn

\* The commit brings the pieces of a login into the table; its cookie no longer counts.
LEMMA KeepingCommit ==
  ASSUME ConservedInv, NEW r \in Requests, Commit(r), UNCHANGED repeated
  PROVE  Keeping(req'[r], rows', cookie', posted', repeated')
  <1> DEFINE q == req[r]
             b == q.browser
  <1>1. q.pc = "commit" /\ rows' = Overlay(rows, q.tx) /\ UNCHANGED <<cookie, posted>>
    BY DEF Commit
  <1>2. /\ Keeping(q, rows, cookie, posted, repeated) /\ q \in Request /\ req = [s \in Requests |-> req[s]]
        /\ q.kind = "add" => q.tx = {}
        /\ q.sent = cookie[b] /\ b \in Browsers
    BY <1>1, KeepingNow DEF Carries
  <1>3. /\ Stock(rows, cookie) \in Nat /\ Pieces(rows) \in Nat /\ Counted(rows)
        /\ cookie \in [Browsers -> SUBSET Line] /\ IsFiniteSet(CookiePieces(cookie)) /\ Counted(cookie[b])
        /\ Cardinality(CookiePieces(cookie)) \in Nat
    BY <1>2, StockNow, FS_CardinalityType
  <1>4. Covers(Stock(rows, cookie), posted, repeated)
    <2>1. Due(q) = 0
      BY <1>1 DEF Due
    <2> QED
      BY <1>1, <1>2, <1>3, <2>1 DEF Keeping
  <1>5. CASE q.kind = "add" /\ Done(r)
    <2>1. rows' = rows
      BY <1>1, <1>2, <1>5, OverlayNothing
    <2>2. req'[r] = NoRequest
      BY <1>2, <1>5 DEF Done
    <2> QED
      BY <1>1, <1>3, <1>4, <2>1, <2>2, KeepingDone
  <1>6. CASE q.kind = "check" /\ req' = [req EXCEPT ![r].pc = "show", ![r].tx = {}]
    <2> DEFINE p == [q EXCEPT !.pc = "show", !.tx = {}]
    <2>1. req'[r] = p /\ p.pc = "show"
      BY <1>2, <1>6 DEF Request
    <2> HIDE DEF p, q
    <2>2. Pieces(rows') = Pieces(rows)
      BY <1>1, <1>2, <1>6 DEF Keeping, InTransaction
    <2>3. Stock(rows', cookie') = Stock(rows, cookie) /\ Stock(rows', cookie') + Due(p) = Stock(rows, cookie)
      BY <1>1, <1>3, <2>1, <2>2 DEF Stock, Due
    <2> QED
      BY <1>1, <1>4, <2>1, <2>3 DEF Keeping, InTransaction
  <1>7. CASE q.kind = "login" /\ req' = [req EXCEPT ![r].pc = "setToken", ![r].tx = {}]
    <2> DEFINE p == [q EXCEPT !.pc = "setToken", !.tx = {}]
    <2>1. req'[r] = p /\ p.pc = "setToken" /\ p.browser = b
      BY <1>2, <1>7 DEF Request
    <2>2. /\ Stock(rows, Without(cookie, b)) \in Nat /\ Pieces(q.sent) \in Nat
          /\ Stock(rows, cookie) = Stock(rows, Without(cookie, b)) + Pieces(q.sent)
          /\ IsFiniteSet(CookiePieces(Without(cookie, b)))
      BY <1>2, <1>3, CookieDeleted
    <2> HIDE DEF p, q, b
    <2>3. Pieces(rows') = Pieces(rows) + Pieces(q.sent)
      BY <1>1, <1>2, <1>7 DEF Keeping, InTransaction
    <2>4. Stock(rows', Without(cookie, b)) = Stock(rows, cookie)
      <3>1. Cardinality(CookiePieces(Without(cookie, b))) \in Nat
        BY <2>2, FS_CardinalityType
      <3> QED
        BY <1>3, <2>2, <2>3, <3>1 DEF Stock
    <2> QED
      BY <1>1, <1>4, <2>1, <2>4 DEF Keeping, InTransaction
  <1> QED
    BY <1>5, <1>6, <1>7 DEF Commit

\* The answer to checkCart, and the one to login, which deletes the cookie.
LEMMA KeepingAnswer ==
  ASSUME ConservedInv, NEW r \in Requests, ShowCart(r) \/ SetToken(r), UNCHANGED repeated
  PROVE  /\ IsFiniteSet(CookiePieces(cookie'))
         /\ Keeping(req'[r], rows', cookie', posted', repeated')
  <1> DEFINE q == req[r]
  <1>1. Keeping(q, rows, cookie, posted, repeated) /\ q.browser \in Browsers /\ req'[r] = NoRequest
    BY KeepingNow DEF ShowCart, SetToken, Done
  <1>2. /\ Stock(rows, cookie) \in Nat /\ IsFiniteSet(CookiePieces(cookie)) /\ Counted(rows)
        /\ cookie \in [Browsers -> SUBSET Line] /\ Counted(cookie[q.browser])
    BY <1>1, StockNow
  <1>3. CASE ShowCart(r)
    <2>1. q.pc = "show" /\ UNCHANGED <<rows, cookie, posted>>
      BY <1>3 DEF ShowCart
    <2>2. Due(q) = 0
      BY <2>1 DEF Due
    <2> HIDE DEF q
    <2>3. Covers(Stock(rows, cookie), posted, repeated)
      BY <1>1, <1>2, <2>1, <2>2 DEF Keeping
    <2> QED
      BY <1>1, <1>2, <2>1, <2>3, KeepingDone
  <1>4. CASE SetToken(r)
    <2>1. q.pc = "setToken" /\ cookie' = Without(cookie, q.browser) /\ UNCHANGED <<rows, posted>>
      BY <1>4 DEF SetToken, Without
    <2> HIDE DEF q
    <2>2. /\ Stock(rows, Without(cookie, q.browser)) \in Nat
          /\ IsFiniteSet(CookiePieces(Without(cookie, q.browser)))
      BY <1>1, <1>2, CookieDeleted
    <2>3. Covers(Stock(rows, Without(cookie, q.browser)), posted, repeated)
      BY <1>1, <2>1 DEF Keeping
    <2> QED
      BY <1>1, <2>1, <2>2, <2>3, KeepingDone
  <1> QED
    BY <1>3, <1>4

\* A call is repeated: from now on there may be more pieces than were posted.
LEMMA KeepingRepeat ==
  ASSUME ConservedInv, NEW r \in Requests, Repeat(r)
  PROVE  Keeping(req'[r], rows', cookie', posted', repeated')
  <1> DEFINE q == req[r]
             b == q.browser
  <1>1. /\ Keeping(q, rows, cookie, posted, repeated) /\ q \in Request /\ req = [s \in Requests |-> req[s]]
        /\ KindKnown(q) /\ (q.pc \notin InTransaction => q.tx = {}) /\ b \in Browsers
    BY KeepingNow
  <1>2. /\ repeated' > 0 /\ UNCHANGED <<rows, cookie, posted>>
        /\ Stock(rows, cookie) \in Nat /\ posted \in Nat /\ Pieces(rows) \in Nat
    BY StockNow DEF Repeat
  <1>3. PICK label :
            /\ Goto(r, label)
            /\ \/ q.pc = "write" /\ label = "exists"
               \/ q.pc = "select" /\ q.kind = "add" /\ label = "write"
               \/ q.pc = "show" /\ label = "update"
               \/ q.pc = "setToken" /\ label = CombineLabel(q.sent)
    BY DEF Repeat
  <1> DEFINE p == [q EXCEPT !.pc = label]
  <1>4. /\ Same(q, p) /\ p.browser = b /\ p.pc = label /\ p.tx = q.tx /\ p.found = q.found
        /\ req'[r] = p
    BY <1>1, <1>3 DEF Request, Same, Goto
  <1>5. CASE q.pc = "write"
    <2>1. label = "exists"
      BY <1>3, <1>5
    <2> HIDE DEF p, q, b
    <2>2. Due(q) = 1 /\ Due(p) = 1
      BY <1>4, <1>5, <2>1 DEF Due
    <2>3. Covers(Stock(rows, cookie) + Due(p), posted, repeated')
      BY <1>1, <1>2, <1>5, <2>2 DEF Keeping, Covers
    <2> QED
      BY <1>2, <1>4, <2>1, <2>3 DEF Keeping, InTransaction
  <1>6. CASE q.pc = "select"
    <2>1. label = "write" /\ q.kind = "add"
      BY <1>3, <1>6
    <2> HIDE DEF p, q, b
    <2>2. Due(q) = 0 /\ Due(p) = 1
      BY <1>4, <1>6, <2>1 DEF Due
    <2>3. posted <= Stock(rows, cookie) /\ MorePieces(q.found, q.item) \subseteq rows
      BY <1>1, <1>2, <1>6, <2>1, <2>2 DEF Keeping, Covers, InTransaction
    <2>4. Covers(Stock(rows, cookie) + Due(p), posted, repeated')
      BY <1>2, <2>2, <2>3 DEF Covers
    <2> QED
      BY <1>2, <1>4, <2>1, <2>3, <2>4 DEF Keeping, InTransaction, Same
  <1>7. CASE q.pc = "show"
    <2>1. label = "update"
      BY <1>3, <1>7
    <2> HIDE DEF p, q, b
    <2>2. Due(q) = 0 /\ Due(p) = 0
      BY <1>4, <1>7, <2>1 DEF Due
    <2>3. Covers(Stock(rows, cookie) + Due(p), posted, repeated')
      BY <1>1, <1>2, <1>7, <2>2 DEF Keeping, Covers
    <2> QED
      BY <1>2, <1>4, <2>1, <2>3 DEF Keeping, InTransaction
  <1>8. CASE q.pc = "setToken"
    <2>1. label = CombineLabel(q.sent) /\ q.kind = "login" /\ q.tx = {}
      BY <1>1, <1>3, <1>8 DEF KindKnown, InTransaction
    <2>2. label \in {"begin", "select"} /\ (label = "select" => q.sent = {})
      BY <2>1 DEF CombineLabel
    <2>3. /\ Stock(rows, Without(cookie, b)) \in Nat /\ Pieces(cookie[b]) \in Nat
          /\ Stock(rows, cookie) = Stock(rows, Without(cookie, b)) + Pieces(cookie[b])
      <3>1. /\ cookie \in [Browsers -> SUBSET Line] /\ IsFiniteSet(CookiePieces(cookie))
            /\ Counted(cookie[b]) /\ Counted(rows)
        BY <1>1, StockNow
      <3> QED
        BY <1>1, <3>1, CookieDeleted
    <2>4. Pieces(Overlay(rows, {})) = Pieces(rows) + Pieces({})
      <3>1. Pieces({}) = 0
        BY FS_EmptySet DEF Pieces, PiecesOf
      <3> QED
        BY <1>2, <3>1, OverlayNothing
    <2>5. Covers(Stock(rows, Without(cookie, b)), posted, repeated)
      BY <1>1, <1>8 DEF Keeping
    <2> HIDE DEF p, q, b
    <2>6. Covers(Stock(rows, cookie) + Due(p), posted, repeated')
      <3>1. Due(p) = 0
        BY <1>4, <2>2 DEF Due
      <3> QED
        BY <1>2, <2>3, <2>5, <3>1 DEF Covers
    <2> QED
      BY <1>2, <1>4, <2>1, <2>2, <2>4, <2>6 DEF Keeping, InTransaction, Same
  <1> QED
    BY <1>3, <1>5, <1>6, <1>7, <1>8

\* Every step keeps the invariant, as long as requests come one at a time.
LEMMA ConservedInvStep ==
  ASSUME OneRequest
  PROVE  ConservedInv /\ [Next]_vars => ConservedInv'
  <1> SUFFICES ASSUME ConservedInv, [Next]_vars
               PROVE  ConservedInv'
    OBVIOUS
  <1>1. AtomicInv'
    BY AtomicInvStep DEF ConservedInv
  <1>2. IsFiniteSet(CookiePieces(cookie))
    BY DEF ConservedInv
  <1>3. ASSUME NEW r \in Requests, Once(Serve(r))
        PROVE  ConservedInv'
    <2>1. UNCHANGED repeated
      BY <1>3 DEF Once
    <2>2. CASE SetCookie(r)
      BY <1>1, <2>1, <2>2, KeepingSetCookie, KeepingStep
    <2>3. CASE ShowCart(r) \/ SetToken(r)
      BY <1>1, <2>1, <2>3, KeepingAnswer, KeepingStep
    <2>4. CASE IsCartExists(r) \/ UpdateCart(r) \/ SaveCart(r) \/ UpdateCartCheck(r)
      <3>1. Keeping(req'[r], rows', cookie', posted', repeated')
        BY <2>1, <2>4, KeepingIsCartExists, KeepingUpdateCart, KeepingSaveCart, KeepingUpdateCartCheck
      <3>2. cookie' = cookie
        BY <2>4 DEF IsCartExists, UpdateCart, SaveCart, UpdateCartCheck
      <3> QED
        BY <1>1, <1>2, <3>1, <3>2, KeepingStep
    <2>5. CASE BeginCombine(r) \/ MergeLines(r) \/ SelectRows(r) \/ DelHash(r) \/ HmsetHash(r) \/ Commit(r)
      <3>1. Keeping(req'[r], rows', cookie', posted', repeated')
        BY <2>1, <2>5, KeepingCombine, KeepingSync, KeepingCommit
      <3>2. cookie' = cookie
        BY <2>5 DEF BeginCombine, MergeLines, SelectRows, DelHash, HmsetHash, Commit
      <3> QED
        BY <1>1, <1>2, <3>1, <3>2, KeepingStep
    <2> QED
      BY <1>3, <2>2, <2>3, <2>4, <2>5 DEF Serve, Once
  <1>4. ASSUME NEW r \in Requests, NEW b \in Browsers, Once(Submit(r, b))
        PROVE  ConservedInv'
    BY <1>1, <1>4, KeepingSubmit, KeepingStep DEF Once
  <1>5. ASSUME NEW r \in Requests, Repeat(r)
        PROVE  ConservedInv'
    <2>1. cookie' = cookie
      BY <1>5 DEF Repeat
    <2> QED
      BY <1>1, <1>2, <1>5, <2>1, KeepingRepeat, KeepingStep
  <1>6. CASE UNCHANGED <<rows, cookie, req, posted, repeated>>
    BY <1>1, <1>6 DEF ConservedInv, ItemsConserved, Quiet
  <1>7. ASSUME NEW b \in Browsers, Once(SessionEnds(b))
        PROVE  UNCHANGED <<rows, cookie, req, posted, repeated>>
    BY <1>7 DEF SessionEnds, Once
  <1>8. CASE UNCHANGED vars
    BY <1>6, <1>8 DEF vars
  <1> QED
    BY <1>3, <1>4, <1>5, <1>6, <1>7, <1>8 DEF Next

\* When requests come one at a time, nothing that was put into a cart is lost: between requests the
\* pieces in cookies and rows are at least those that were posted, and just as many unless a call was
\* repeated, whatever cookies are merged by logins and whatever transactions are rolled back.
THEOREM ItemsConservedHolds == OneRequest => (Spec => []ItemsConserved)
  <1> SUFFICES ASSUME OneRequest PROVE Spec => []ItemsConserved
    OBVIOUS
  <1>1. ConservedInv => ItemsConserved
    BY DEF ConservedInv
  <1> QED
    BY <1>1, InitConserved, ConservedInvStep, PTL DEF Spec

-----------------------------------------------------------------------------
(* The table while transactions overlap.                                     *)

\* An id is the id of one row.
Keyed(S) == \A x, y \in S : x.id = y.id => x = y

\* What a request has read keeps to the table, and what it has written too, or is new.
Holds(q, S, n) ==
    /\ OneLine(q.sent) /\ Keyed(q.found) /\ Keyed(q.base) /\ Keyed(q.tx)
    /\ \A x \in q.found \cup q.base : Keeps(x, S)
    /\ \A w \in q.tx : w.id < n /\ (Keeps(w, S) \/ \A x \in S : x.id # w.id)

\* New rows of two transactions have different ids.
Apart(V, W, S) == \A v \in V, w \in W : v.id = w.id => \E x \in S : x.id = v.id

TablePart ==
    /\ Keyed(rows) /\ \A x \in rows : x.id < nextId
    /\ \A b \in Browsers : OneLine(cookie[b])
    /\ \A r \in Requests : Holds(req[r], rows, nextId)
    /\ \A r, s \in Requests : r # s => Apart(req[r].tx, req[s].tx, rows)

TableInv == IInv /\ TypeInv /\ TablePart

\* What the invariant says of a request.
LEMMA TableNow ==
  ASSUME TableInv, NEW r \in Requests
  PROVE  /\ Keyed(rows) /\ Holds(req[r], rows, nextId) /\ \A x \in rows : x.id < nextId
         /\ \A b \in Browsers : OneLine(cookie[b])
         /\ req[r] \in Request /\ req = [s \in Requests |-> req[s]]
         /\ (req[r].pc \notin InTransaction => req[r].tx = {})
         /\ cookie \in [Browsers -> SUBSET Line] /\ nextId \in Nat /\ rows \subseteq Row
         /\ req[r].browser \in Browsers
  <1>1. /\ req[r] \in Request /\ cookie \in [Browsers -> SUBSET Line] /\ nextId \in Nat /\ rows \subseteq Row
        /\ req = [s \in Requests |-> req[s]]
    BY DEF TableInv, TypeInv, TypeOK
  <1> QED
    BY <1>1 DEF TableInv, TablePart, IInv, Good, WritesKnown, Request

\* Writes on a table: the rows stay, with their users and products.
LEMMA OverlayKeyed ==
  ASSUME NEW S, NEW W, Keyed(S), Keyed(W), \A w \in W : Keeps(w, S) \/ \A x \in S : x.id # w.id
  PROVE  /\ Keyed(Overlay(S, W)) /\ \A x \in S : Keeps(x, Overlay(S, W))
         /\ W \subseteq Overlay(S, W) /\ Overlay(S, W) \subseteq S \cup W
  <1>1. KeepAll(W, S)
    BY DEF KeepAll, Keeps, Keyed
  <1>2. \A x \in S : Keeps(x, Overlay(S, W))
    BY <1>1 DEF KeepAll, Keeps, Overlay
  <1> QED
    BY <1>2 DEF Overlay, Keyed

\* What a step of request r has to show: rows stay, and new ids are its own.
LEMMA TableStep ==
  ASSUME TableInv, NEW r \in Requests, \A s \in Requests \ {r} : req'[s] = req[s],
         Keyed(rows'), nextId' \in Nat, nextId <= nextId',
         \A x \in rows' : x.id < nextId' /\ (x.id \in Ids(rows) \cup Ids(req[r].tx) \/ x.id >= nextId),
         \A x \in rows : Keeps(x, rows'),
         \A b \in Browsers : OneLine(cookie'[b]),
         Holds(req'[r], rows', nextId'),
         \A w \in req'[r].tx : w.id \in Ids(rows) \cup Ids(req[r].tx) \/ w.id >= nextId
  PROVE  TablePart'
  <1>1. \A x : Keeps(x, rows) => Keeps(x, rows')
    BY DEF Keeps
  <1>2. ASSUME NEW s \in Requests \ {r}, NEW w \in req[s].tx
        PROVE  /\ w.id < nextId /\ w.id < nextId' /\ ~(w.id >= nextId)
               /\ w.id \in Ids(req[r].tx) => w.id \in Ids(rows)
               /\ Keeps(w, rows) \/ w.id \notin Ids(rows)
    <2>1. w.id \in Nat /\ nextId \in Nat
      BY TypesNow DEF TableInv, Row
    <2>2. w.id < nextId /\ (Keeps(w, rows) \/ \A x \in rows : x.id # w.id)
      BY TableNow DEF Holds
    <2>3. Apart(req[r].tx, req[s].tx, rows)
      BY DEF TableInv, TablePart
    <2> QED
      BY <2>1, <2>2, <2>3 DEF Apart, Ids
  <1>3. ASSUME NEW s \in Requests \ {r}
        PROVE  Holds(req[s], rows', nextId')
    <2>1. Holds(req[s], rows, nextId)
      BY TableNow
    <2>2. \A x \in req[s].found \cup req[s].base : Keeps(x, rows')
      BY <1>1, <2>1 DEF Holds
    <2>3. ASSUME NEW w \in req[s].tx PROVE w.id < nextId' /\ (Keeps(w, rows') \/ \A x \in rows' : x.id # w.id)
      <3>1. CASE Keeps(w, rows)
        BY <1>1, <1>2, <3>1
      <3>2. CASE w.id \notin Ids(rows)
        BY <1>2, <3>2
      <3> QED
        BY <1>2, <3>1, <3>2
    <2> QED
      BY <2>1, <2>2, <2>3 DEF Holds
  <1>4. \A i : i \in Ids(rows) => \E x \in rows' : x.id = i
    BY DEF Ids, Keeps
  <1>5. ASSUME NEW s \in Requests \ {r}, NEW t \in Requests \ {r}, s # t
        PROVE  Apart(req[s].tx, req[t].tx, rows')
    <2>1. Apart(req[s].tx, req[t].tx, rows)
      BY <1>5 DEF TableInv, TablePart
    <2> QED
      BY <1>4, <2>1 DEF Apart, Ids
  <1>6. ASSUME NEW s \in Requests \ {r}, NEW v \in req'[r].tx, NEW w \in req[s].tx, v.id = w.id
        PROVE  \E x \in rows' : x.id = v.id
    BY <1>2, <1>4, <1>6
  <1>7. \A s, t \in Requests : s # t => Apart(req'[s].tx, req'[t].tx, rows')
    <2> SUFFICES ASSUME NEW s \in Requests, NEW t \in Requests, s # t
                 PROVE  Apart(req'[s].tx, req'[t].tx, rows')
      OBVIOUS
    <2>1. CASE s = r
      BY <1>6, <2>1 DEF Apart
    <2>2. CASE t = r
      BY <1>6, <2>2 DEF Apart
    <2>3. CASE s # r /\ t # r
      BY <1>5, <2>3
    <2> QED
      BY <2>1, <2>2, <2>3
  <1>8. \A s \in Requests : Holds(req'[s], rows', nextId')
    BY <1>3
  <1> QED
    BY <1>7, <1>8 DEF TablePart

\* A step that leaves the table alone.
LEMMA TableLocal ==
  ASSUME TableInv, NEW r \in Requests, \A s \in Requests \ {r} : req'[s] = req[s],
         UNCHANGED <<rows, nextId>>,
         \A b \in Browsers : OneLine(cookie'[b]),
         Holds(req'[r], rows, nextId), Ids(req'[r].tx) \subseteq Ids(rows) \cup Ids(req[r].tx)
  PROVE  TablePart'
  <1>1. /\ Keyed(rows') /\ nextId' \in Nat /\ nextId <= nextId'
        /\ \A x \in rows' : x.id < nextId' /\ x.id \in Ids(rows) \cup Ids(req[r].tx)
        /\ \A x \in rows : Keeps(x, rows')
    BY TableNow DEF Ids, Keeps
  <1>2. \A w \in req'[r].tx : w.id \in Ids(rows) \cup Ids(req[r].tx)
    BY DEF Ids
  <1> QED
    BY <1>1, <1>2, TableStep

\* A request that ends holds nothing.
LEMMA HoldsNothing ==
  ASSUME NEW S, NEW n
  PROVE  Holds(NoRequest, S, n)
  BY DEF Holds, NoRequest, NewRequest, OneLine, Keyed

\* Steps that write no row and change no row to be written.
LEMMA TableQuiet ==
  ASSUME TableInv, NEW r \in Requests,
         \/ SetCookie(r) \/ IsCartExists(r) \/ BeginCombine(r) \/ SelectRows(r) \/ DelHash(r)
         \/ HmsetHash(r) \/ ShowCart(r) \/ SetToken(r) \/ Repeat(r)
  PROVE  TablePart'
  <1> DEFINE q == req[r]
  <1>1. /\ Keyed(rows) /\ Holds(q, rows, nextId) /\ q \in Request /\ req = [s \in Requests |-> req[s]]
        /\ (q.pc \notin InTransaction => q.tx = {}) /\ \A b \in Browsers : OneLine(cookie[b])
        /\ cookie \in [Browsers -> SUBSET Line] /\ q.browser \in Browsers
    BY TableNow
  <1>2. UNCHANGED <<rows, nextId>>
    BY DEF SetCookie, IsCartExists, BeginCombine, SelectRows, DelHash, HmsetHash, ShowCart, SetToken, Repeat
  <1>3. \A b \in Browsers : OneLine(cookie'[b])
    <2>1. CASE SetCookie(r)
      <3>1. q.sent \subseteq Line /\ q.item \in Line /\ OneLine(q.sent)
        BY <1>1, TypesNow DEF TableInv, Holds
      <3>2. OneLine(PutLine(q.sent, q.item)) /\ OneLine(CheckLine(q.sent, q.item))
        BY <3>1, CookieOneLine
      <3>3. PICK lines : OneLine(lines) /\ cookie' = [cookie EXCEPT ![q.browser] = lines]
        BY <2>1, <3>2 DEF SetCookie
      <3> QED
        BY <1>1, <3>3
    <2>2. CASE SetToken(r)
      <3>1. cookie' = [cookie EXCEPT ![q.browser] = {}] /\ OneLine({})
        BY <2>2 DEF SetToken, OneLine
      <3> QED
        BY <1>1, <3>1
    <2>3. CASE cookie' = cookie
      BY <1>1, <2>3
    <2> QED
      BY <2>1, <2>2, <2>3
         DEF IsCartExists, BeginCombine, SelectRows, DelHash, HmsetHash, ShowCart, Repeat
  <1>4. CASE Done(r)
    <2>1. req'[r] = NoRequest /\ \A s \in Requests \ {r} : req'[s] = req[s]
      BY <1>1, <1>4 DEF Done
    <2>2. NoRequest.tx = {}
      BY DEF NoRequest, NewRequest
    <2> QED
      BY <1>2, <1>3, <2>1, <2>2, HoldsNothing, TableLocal DEF Ids
  <1>5. ASSUME NEW p, req' = [req EXCEPT ![r] = p], p.sent = q.sent, p.tx = q.tx,
               p.found = q.found \/ p.found \subseteq rows, p.base = q.base \/ p.base = rows
        PROVE  TablePart'
    <2>1. req'[r] = p /\ \A s \in Requests \ {r} : req'[s] = req[s]
      BY <1>1, <1>5
    <2>2. Holds(p, rows, nextId)
      BY <1>1, <1>5 DEF Holds, Keeps, Keyed
    <2> QED
      BY <1>2, <1>3, <1>5, <2>1, <2>2, TableLocal
  <1>6. ASSUME NEW label, Goto(r, label) PROVE TablePart'
    <2> DEFINE p == [q EXCEPT !.pc = label]
    <2>1. req' = [req EXCEPT ![r] = p]
      BY <1>1, <1>6 DEF Goto
    <2>2. p.sent = q.sent /\ p.tx = q.tx /\ p.found = q.found /\ p.base = q.base
      BY <1>1 DEF Request
    <2> HIDE DEF p
    <2> QED
      BY <1>5, <2>1, <2>2
  <1>7. CASE IsCartExists(r)
    <2> DEFINE match == OfSku(OfUser(rows, HomeUser), q.item.skuId)
               p == [q EXCEPT !.pc = "write", !.found = match]
    <2>1. match \subseteq rows
      BY DEF OfSku, OfUser
    <2>2. CASE req' = [req EXCEPT ![r].pc = "write", ![r].found = match]
      <3>1. req' = [req EXCEPT ![r] = p]
        BY <1>1, <2>2
      <3>2. p.sent = q.sent /\ p.tx = q.tx /\ p.found = match /\ p.base = q.base
        BY <1>1 DEF Request
      <3> HIDE DEF p, match
      <3> QED
        BY <1>5, <2>1, <3>1, <3>2
    <2> QED
      BY <1>4, <1>7, <2>2 DEF IsCartExists
  <1>8. CASE BeginCombine(r)
    <2> DEFINE p == [q EXCEPT !.pc = "merge", !.base = rows]
    <2>1. CASE req' = [req EXCEPT ![r].pc = "merge", ![r].base = rows]
      <3>1. req' = [req EXCEPT ![r] = p]
        BY <1>1, <2>1
      <3>2. p.sent = q.sent /\ p.tx = q.tx /\ p.found = q.found /\ p.base = rows
        BY <1>1 DEF Request
      <3> HIDE DEF p
      <3> QED
        BY <1>5, <3>1, <3>2
    <2> QED
      BY <1>4, <1>8, <2>1 DEF BeginCombine
  <1>9. CASE SelectRows(r)
    <2> DEFINE base == IF q.kind = "login" /\ q.sent # {} THEN q.base ELSE rows
               list == OfUser(Overlay(base, q.tx), q.user)
               p    == [q EXCEPT !.pc = "del", !.list = list]
    <2>1. req' = [req EXCEPT ![r] = p]
      BY <1>1, <1>9 DEF SelectRows
    <2> HIDE DEF list
    <2>2. p.sent = q.sent /\ p.tx = q.tx /\ p.found = q.found /\ p.base = q.base
      BY <1>1 DEF Request
    <2> HIDE DEF p
    <2> QED
      BY <1>5, <2>1, <2>2
  <1> QED
    BY <1>4, <1>6, <1>7, <1>8, <1>9 DEF SetCookie, DelHash, HmsetHash, ShowCart, SetToken, Repeat

\* A request arrives with the cookie of its browser.
LEMMA TableSubmit ==
  ASSUME TableInv, NEW r \in Requests, NEW b \in Browsers, Submit(r, b)
  PROVE  TablePart'
  <1>1. PICK label, kind, user, item : Arrive(r, b, kind, user, item, label)
    BY DEF Submit, AddToCart, CheckCart, Login
  <1> DEFINE p == NewRequest(label, kind, b, user, item, cookie[b])
  <1>2. p.sent = cookie[b] /\ p.found = {} /\ p.base = {} /\ p.tx = {}
    BY DEF NewRequest
  <1>3. req' = [req EXCEPT ![r] = p] /\ UNCHANGED <<rows, nextId, cookie>>
    BY <1>1 DEF Arrive
  <1> HIDE DEF p
  <1>4. req'[r] = p /\ \A s \in Requests \ {r} : req'[s] = req[s]
    BY <1>3, TableNow
  <1>5. \A c \in Browsers : OneLine(cookie'[c])
    BY <1>3, TableNow
  <1>6. Holds(p, rows, nextId)
    BY <1>2, <1>3, <1>5 DEF Holds, Keyed
  <1> QED
    BY <1>2, <1>3, <1>4, <1>5, <1>6, TableLocal DEF Ids

\* updateCart writes back a row as it was read, with more pieces: it is still the row of its user and
\* product.  saveCart takes the next id.
LEMMA TableWrite ==
  ASSUME TableInv, NEW r \in Requests, UpdateCart(r) \/ SaveCart(r)
  PROVE  TablePart' /\ \A x \in rows : Keeps(x, rows')
  <1> DEFINE q == req[r]
             p == [q EXCEPT !.pc = "select"]
  <1>1. /\ Keyed(rows) /\ Holds(q, rows, nextId) /\ q \in Request /\ req = [s \in Requests |-> req[s]]
        /\ \A x \in rows : x.id < nextId
        /\ \A b \in Browsers : OneLine(cookie[b])
        /\ nextId \in Nat /\ rows \subseteq Row /\ q.found \subseteq Row
    BY TableNow, TypesNow DEF TableInv
  <1>2. /\ req'[r] = p /\ \A s \in Requests \ {r} : req'[s] = req[s]
        /\ UNCHANGED cookie /\ q.tx = {}
    BY <1>1, TableNow DEF UpdateCart, SaveCart, Goto, InTransaction
  <1>3. p.sent = q.sent /\ p.tx = q.tx /\ p.found = q.found /\ p.base = q.base
    BY <1>1 DEF Request
  <1> HIDE DEF p, q
  <1>4. ASSUME \A x \in rows : Keeps(x, rows')
        PROVE  /\ Holds(req'[r], rows', nextId')
               /\ \A w \in req'[r].tx : w.id \in Ids(rows) \cup Ids(req[r].tx) \/ w.id >= nextId
               /\ \A b \in Browsers : OneLine(cookie'[b])
    <2>1. \A x : Keeps(x, rows) => Keeps(x, rows')
      BY <1>4 DEF Keeps
    <2>2. Holds(p, rows', nextId')
      BY <1>1, <1>2, <1>3, <2>1 DEF Holds
    <2>3. req'[r].tx = {}
      BY <1>2, <1>3
    <2> QED
      BY <1>1, <1>2, <2>2, <2>3
  <1>5. CASE UpdateCart(r)
    <2> DEFINE W == MorePieces(q.found, q.item)
    <2>1. rows' = Overlay(rows, W) /\ nextId' = nextId
      BY <1>5 DEF UpdateCart, q
    <2>2. \A w \in W : \E x \in q.found : w.id = x.id /\ w.userId = x.userId /\ w.skuId = x.skuId
      BY <1>1 DEF MorePieces, Row
    <2>3. \A w \in W : Keeps(w, rows)
      BY <1>1, <2>2 DEF Holds, Keeps
    <2>4. Keyed(W)
      <3> SUFFICES ASSUME NEW v \in W, NEW w \in W, v.id = w.id PROVE v = w
        BY DEF Keyed
      <3>1. PICK x \in q.found : v = [x EXCEPT !.skuNum = @ + q.item.skuNum]
        BY DEF MorePieces
      <3>2. PICK y \in q.found : w = [y EXCEPT !.skuNum = @ + q.item.skuNum]
        BY DEF MorePieces
      <3>3. x = y
        BY <1>1, <3>1, <3>2 DEF Row, Holds, Keyed
      <3> QED
        BY <3>1, <3>2, <3>3
    <2>5. Ids(W) \subseteq Ids(rows)
      BY <2>3 DEF Ids, Keeps
    <2> HIDE DEF W
    <2>6. /\ Keyed(rows') /\ \A x \in rows : Keeps(x, rows')
          /\ rows' \subseteq rows \cup W
      BY <1>1, <2>1, <2>3, <2>4, OverlayKeyed
    <2>7. \A x \in rows' : x.id < nextId' /\ (x.id \in Ids(rows) \cup Ids(q.tx) \/ x.id >= nextId)
      BY <1>1, <2>1, <2>5, <2>6 DEF Ids
    <2>8. nextId' \in Nat /\ nextId <= nextId'
      BY <1>1, <2>1
    <2> QED
      BY <1>2, <1>4, <2>6, <2>7, <2>8, TableStep DEF q
  <1>6. CASE SaveCart(r)
    <2> DEFINE x == NewRow(nextId, HomeUser, q.item)
    <2>1. rows' = rows \cup {x} /\ nextId' = nextId + 1
      BY <1>6 DEF SaveCart, q
    <2>2. x.id = nextId
      BY DEF NewRow
    <2> HIDE DEF x
    <2>3. \A y \in rows : Keeps(y, rows')
      BY <2>1 DEF Keeps
    <2>4. Keyed(rows')
      BY <1>1, <2>1, <2>2 DEF Keyed
    <2>5. \A y \in rows' : y.id < nextId' /\ (y.id \in Ids(rows) \cup Ids(q.tx) \/ y.id >= nextId)
      <3>1. \A y \in rows : y.id \in Nat
        BY <1>1 DEF Row
      <3>2. \A y \in rows : y.id < nextId' /\ y.id \in Ids(rows)
        BY <1>1, <2>1, <3>1 DEF Ids
      <3> QED
        BY <1>1, <2>1, <2>2, <3>2
    <2>6. nextId' \in Nat /\ nextId <= nextId'
      BY <1>1, <2>1
    <2> QED
      BY <1>2, <1>4, <2>3, <2>4, <2>5, <2>6, TableStep DEF q
  <1> QED
    BY <1>5, <1>6

\* updateCartCheck changes rows of the table.
LEMMA TableMark ==
  ASSUME TableInv, NEW r \in Requests, UpdateCartCheck(r)
  PROVE  TablePart'
  <1> DEFINE q == req[r]
             T == OfSku(OfUser(rows, q.user), q.item.skuId)
             W == {[x EXCEPT !.isChecked = q.item.isChecked] : x \in T}
             p == [q EXCEPT !.pc = "select", !.tx = W]
  <1>1. /\ Keyed(rows) /\ Holds(q, rows, nextId) /\ q \in Request /\ req = [s \in Requests |-> req[s]]
        /\ \A x \in rows : x.id < nextId
        /\ \A b \in Browsers : OneLine(cookie[b])
        /\ rows \subseteq Row
    BY TableNow
  <1>2. /\ req'[r] = p /\ \A s \in Requests \ {r} : req'[s] = req[s]
        /\ UNCHANGED <<rows, nextId, cookie>>
    BY <1>1 DEF UpdateCartCheck
  <1>3. T \subseteq rows
    BY DEF OfSku, OfUser
  <1>4. p.sent = q.sent /\ p.tx = W /\ p.found = q.found /\ p.base = q.base
    BY <1>1 DEF Request
  <1> HIDE DEF p, T
  <1>5. \A w \in W : \E x \in T : w = [x EXCEPT !.isChecked = q.item.isChecked] /\ w.id = x.id
                                /\ w.userId = x.userId /\ w.skuId = x.skuId
    BY <1>1, <1>3 DEF Row
  <1> HIDE DEF W
  <1>6. (\A w \in W : Keeps(w, rows) /\ w.id < nextId) /\ Ids(W) \subseteq Ids(rows)
    BY <1>1, <1>3, <1>5 DEF Keeps, Ids
  <1>7. Keyed(W)
    <2> SUFFICES ASSUME NEW v \in W, NEW w \in W, v.id = w.id PROVE v = w
      BY DEF Keyed
    <2>1. PICK x \in T : v = [x EXCEPT !.isChecked = q.item.isChecked] /\ v.id = x.id
      BY <1>5
    <2>2. PICK y \in T : w = [y EXCEPT !.isChecked = q.item.isChecked] /\ w.id = y.id
      BY <1>5
    <2>3. x = y
      BY <1>1, <1>3, <2>1, <2>2 DEF Keyed
    <2> QED
      BY <2>1, <2>2, <2>3
  <1>8. Holds(p, rows, nextId)
    BY <1>1, <1>4, <1>6, <1>7 DEF Holds
  <1> QED
    BY <1>1, <1>2, <1>4, <1>6, <1>8, TableLocal

\* combineCart changes rows of its snapshot and takes the next ids, each for one line.
LEMMA TableMerge ==
  ASSUME TableInv, NEW r \in Requests, MergeLines(r)
  PROVE  TablePart'
  <1> DEFINE q == req[r]
             W == MergeRows(q) \cup MergeNew(q)
             p == [q EXCEPT !.pc = "select", !.tx = W]
  <1>1. /\ Keyed(rows) /\ Holds(q, rows, nextId) /\ q \in Request /\ req = [s \in Requests |-> req[s]]
        /\ \A x \in rows : x.id < nextId
        /\ \A b \in Browsers : OneLine(cookie[b])
        /\ rows \subseteq Row /\ nextId \in Nat /\ q.base \subseteq Row /\ q.sent \subseteq Line
    BY TableNow, TypesNow DEF TableInv
  <1>2. /\ Cardinality(Fresh(q)) \in Nat /\ MergeOrder(q) \in [Fresh(q) -> MergeIds(q)]
        /\ IsInjective(MergeOrder(q))
    BY MergeNumbers DEF TableInv
  <1>3. /\ q.pc = "merge" /\ rows' = rows /\ cookie' = cookie
        /\ nextId' = nextId + Cardinality(Fresh(q)) /\ req' = [req EXCEPT ![r] = p]
    BY MergeEffect DEF TableInv
  <1>4. p.sent = q.sent /\ p.tx = W /\ p.found = q.found /\ p.base = q.base
    BY <1>1 DEF Request
  <1>5. req'[r] = p /\ \A s \in Requests \ {r} : req'[s] = req[s]
    BY <1>1, <1>3
  <1> HIDE DEF p, q
  <1>6. \A w \in MergeRows(q) : \E l \in q.sent : \E x \in q.base :
            /\ x.skuId = l.skuId /\ w = [x EXCEPT !.skuNum = @ + l.skuNum]
            /\ w.id = x.id /\ w.userId = x.userId /\ w.skuId = x.skuId
    <2> SUFFICES ASSUME NEW l \in q.sent, NEW x \in Matching(q.base, l),
                        NEW w, w = [x EXCEPT !.skuNum = @ + l.skuNum]
                 PROVE  /\ x \in q.base /\ x.skuId = l.skuId
                        /\ w.id = x.id /\ w.userId = x.userId /\ w.skuId = x.skuId
      BY DEF MergeRows, MorePieces
    <2>1. x \in q.base /\ x.skuId = l.skuId
      BY DEF Matching, OfSku
    <2> QED
      BY <1>1, <2>1 DEF Row
  <1>7. \A w \in MergeNew(q) : \E l \in Fresh(q) :
            /\ w = NewRow(MergeOrder(q)[l], q.user, l)
            /\ w.id = MergeOrder(q)[l] /\ w.id >= nextId /\ w.id < nextId'
    <2>1. \A l \in Fresh(q) : /\ MergeOrder(q)[l] \in Nat
                              /\ MergeOrder(q)[l] >= nextId /\ MergeOrder(q)[l] < nextId'
      BY <1>1, <1>2, <1>3 DEF MergeIds
    <2> QED
      BY <2>1 DEF MergeNew, NewRow
  <1>8. \A x \in rows : x.id \in Nat /\ x.id < nextId /\ ~(x.id >= nextId) /\ x.id < nextId'
    BY <1>1, <1>2, <1>3 DEF Row
  <1>9. \A w \in MergeRows(q) : Keeps(w, rows) /\ w.id \in Ids(rows) /\ w.id < nextId' /\ ~(w.id >= nextId)
    <2> SUFFICES ASSUME NEW w \in MergeRows(q)
                 PROVE  Keeps(w, rows) /\ w.id \in Ids(rows) /\ w.id < nextId' /\ ~(w.id >= nextId)
      OBVIOUS
    <2>1. PICK x \in q.base : w.id = x.id /\ w.userId = x.userId /\ w.skuId = x.skuId
      BY <1>6
    <2>2. Keeps(w, rows)
      BY <1>1, <2>1 DEF Holds, Keeps
    <2> QED
      BY <1>8, <2>2 DEF Keeps, Ids
  <1>10. Keyed(W)
    <2>1. ASSUME NEW v \in MergeRows(q), NEW w \in MergeRows(q), v.id = w.id PROVE v = w
      <3>1. PICK l \in q.sent, x \in q.base :
                x.skuId = l.skuId /\ v = [x EXCEPT !.skuNum = @ + l.skuNum] /\ v.id = x.id
        BY <1>6
      <3>2. PICK k \in q.sent, y \in q.base :
                y.skuId = k.skuId /\ w = [y EXCEPT !.skuNum = @ + k.skuNum] /\ w.id = y.id
        BY <1>6
      <3>3. x = y
        BY <1>1, <2>1, <3>1, <3>2 DEF Holds, Keyed
      <3>4. l = k
        BY <1>1, <3>1, <3>2, <3>3 DEF Holds, OneLine
      <3> QED
        BY <3>1, <3>2, <3>3, <3>4
    <2>2. ASSUME NEW v \in MergeNew(q), NEW w \in MergeNew(q), v.id = w.id PROVE v = w
      <3>1. PICK l \in Fresh(q) : v = NewRow(MergeOrder(q)[l], q.user, l) /\ v.id = MergeOrder(q)[l]
        BY <1>7
      <3>2. PICK k \in Fresh(q) : w = NewRow(MergeOrder(q)[k], q.user, k) /\ w.id = MergeOrder(q)[k]
        BY <1>7
      <3>3. l = k
        BY <1>2, <2>2, <3>1, <3>2 DEF IsInjective
      <3> QED
        BY <3>1, <3>2, <3>3
    <2>3. \A v \in MergeRows(q), w \in MergeNew(q) : v.id # w.id
      BY <1>7, <1>9
    <2> QED
      BY <2>1, <2>2, <2>3 DEF Keyed
  <1>11. \A w \in W : /\ w.id < nextId' /\ (Keeps(w, rows) \/ \A x \in rows : x.id # w.id)
                      /\ w.id \in Ids(rows) \/ w.id >= nextId
    <2>1. \A w \in MergeNew(q) : \A x \in rows : x.id # w.id
      BY <1>7, <1>8
    <2> QED
      BY <1>7, <1>9, <2>1
  <1> HIDE DEF W
  <1>12. Holds(p, rows', nextId')
    BY <1>1, <1>3, <1>4, <1>10, <1>11 DEF Holds
  <1>13. /\ Keyed(rows') /\ nextId' \in Nat /\ nextId <= nextId'
         /\ \A x \in rows' : x.id < nextId' /\ x.id \in Ids(rows)
         /\ \A x \in rows : Keeps(x, rows')
    BY <1>1, <1>2, <1>3, <1>8 DEF Ids, Keeps
  <1> QED
    BY <1>1, <1>3, <1>4, <1>5, <1>11, <1>12, <1>13, TableStep DEF q

\* A commit writes over rows of the same users and products, and inserts rows with ids of its own.
LEMMA TableCommit ==
  ASSUME TableInv, NEW r \in Requests, Commit(r)
  PROVE  TablePart' /\ \A x \in rows : Keeps(x, rows')
  <1> DEFINE q == req[r]
  <1>1. /\ Keyed(rows) /\ Holds(q, rows, nextId) /\ q \in Request /\ req = [s \in Requests |-> req[s]]
        /\ \A x \in rows : x.id < nextId
        /\ \A b \in Browsers : OneLine(cookie[b])
        /\ nextId \in Nat
    BY TableNow
  <1>2. rows' = Overlay(rows, q.tx) /\ UNCHANGED <<nextId, cookie>>
    BY DEF Commit
  <1>3. \/ req' = [req EXCEPT ![r] = NoRequest]
        \/ \E label : req' = [req EXCEPT ![r].pc = label, ![r].tx = {}]
    BY DEF Commit, Done
  <1>4. /\ req'[r].tx = {}
        /\ \A s \in Requests \ {r} : req'[s] = req[s]
        /\ \/ req'[r] = NoRequest
           \/ (req'[r].sent = q.sent /\ req'[r].found = q.found /\ req'[r].base = q.base)
    <2>1. CASE req' = [req EXCEPT ![r] = NoRequest]
      <3>1. NoRequest.tx = {}
        BY DEF NoRequest, NewRequest
      <3> QED
        BY <1>1, <2>1, <3>1
    <2>2. ASSUME NEW label, req' = [req EXCEPT ![r].pc = label, ![r].tx = {}]
          PROVE  /\ req'[r].tx = {}
                 /\ \A s \in Requests \ {r} : req'[s] = req[s]
                 /\ req'[r].sent = q.sent /\ req'[r].found = q.found /\ req'[r].base = q.base
      <3> DEFINE p == [q EXCEPT !.pc = label, !.tx = {}]
      <3>1. req'[r] = p /\ \A s \in Requests \ {r} : req'[s] = req[s]
        BY <1>1, <2>2
      <3>2. p.tx = {} /\ p.sent = q.sent /\ p.found = q.found /\ p.base = q.base
        BY <1>1 DEF Request
      <3> QED
        BY <3>1, <3>2
    <2> QED
      BY <1>3, <2>1, <2>2
  <1> HIDE DEF q
  <1>5. /\ Keyed(rows') /\ \A x \in rows : Keeps(x, rows')
        /\ rows' \subseteq rows \cup q.tx
    BY <1>1, <1>2, OverlayKeyed DEF Holds
  <1>6. \A x \in rows' : x.id < nextId' /\ x.id \in Ids(rows) \cup Ids(q.tx)
    BY <1>1, <1>2, <1>5 DEF Holds, Ids
  <1>7. req'[r].tx = {} /\ Holds(req'[r], rows', nextId')
    <2>1. \A x : Keeps(x, rows) => Keeps(x, rows')
      BY <1>5 DEF Keeps
    <2>2. CASE req'[r] = NoRequest
      BY <1>4, <2>2, HoldsNothing
    <2>3. CASE req'[r].sent = q.sent /\ req'[r].found = q.found /\ req'[r].base = q.base
      BY <1>1, <1>4, <2>1, <2>3 DEF Holds, Keyed
    <2> QED
      BY <1>4, <2>2, <2>3
  <1>8. (\A s \in Requests \ {r} : req'[s] = req[s]) /\ nextId <= nextId' /\ nextId' \in Nat
    BY <1>1, <1>2, <1>4
  <1> QED
    BY <1>1, <1>2, <1>5, <1>6, <1>7, <1>8, TableStep DEF q

\* Sessions end without a request.
LEMMA TableElse ==
  ASSUME TableInv, UNCHANGED <<rows, nextId, cookie, req>>
  PROVE  TablePart'
  BY DEF TableInv, TablePart

\* The empty table.
LEMMA TableInvInit ==
  Init => TableInv
  <1> SUFFICES ASSUME Init PROVE TablePart
    BY InitIInv, InitTypeInv DEF TableInv
  <1>1. \A r \in Requests : req[r] = NoRequest /\ req[r].tx = {}
    BY DEF Init, NoRequest, NewRequest
  <1>2. rows = {} /\ \A b \in Browsers : OneLine(cookie[b])
    BY DEF Init, OneLine
  <1> QED
    BY <1>1, <1>2, HoldsNothing DEF TablePart, Keyed, Apart

\* Every step.
LEMMA TableInvStep ==
  ASSUME TableInv, [Next]_vars
  PROVE  TableInv' /\ \A x \in rows : Keeps(x, rows')
  <1>1. IInv' /\ TypeInv'
    BY IInvStep, TypeInvStep DEF TableInv
  <1>2. CASE UNCHANGED vars
    BY <1>1, <1>2, TableElse DEF vars, Keeps, TableInv
  <1>3. ASSUME NEW b \in Browsers, SessionEnds(b)
        PROVE  TablePart' /\ \A x \in rows : Keeps(x, rows')
    BY <1>3, TableElse DEF SessionEnds, Keeps
  <1>4. ASSUME NEW r \in Requests, NEW b \in Browsers, Submit(r, b)
        PROVE  TablePart' /\ \A x \in rows : Keeps(x, rows')
    BY <1>4, TableSubmit DEF Submit, AddToCart, CheckCart, Login, Arrive, Keeps
  <1>5. ASSUME NEW r \in Requests,
               \/ SetCookie(r) \/ IsCartExists(r) \/ BeginCombine(r) \/ SelectRows(r) \/ DelHash(r)
               \/ HmsetHash(r) \/ ShowCart(r) \/ SetToken(r) \/ Repeat(r)
        PROVE  TablePart' /\ \A x \in rows : Keeps(x, rows')
    <2>1. rows' = rows
      BY <1>5 DEF SetCookie, IsCartExists, BeginCombine, SelectRows, DelHash, HmsetHash, ShowCart, SetToken, Repeat
    <2> QED
      BY <1>5, <2>1, TableQuiet DEF Keeps
  <1>6. ASSUME NEW r \in Requests, UpdateCartCheck(r) \/ MergeLines(r)
        PROVE  TablePart' /\ \A x \in rows : Keeps(x, rows')
    <2>1. rows' = rows
      BY <1>6 DEF UpdateCartCheck, MergeLines
    <2> QED
      BY <1>6, <2>1, TableMark, TableMerge DEF Keeps
  <1>7. ASSUME NEW r \in Requests, Serve(r)
        PROVE  TablePart' /\ \A x \in rows : Keeps(x, rows')
    BY <1>5, <1>6, <1>7, TableWrite, TableCommit DEF Serve
  <1> QED
    BY <1>1, <1>2, <1>3, <1>4, <1>5, <1>7 DEF Next, Once, TableInv

\* However requests overlap (an addToCart that writes back the row it has read, a login that writes
\* on top of its snapshot, calls that are repeated), an id stays the id of one row, and no row
\* leaves the table or changes its user or product: of a line in the table, overlapping requests can
\* lose the number and the mark, but not the line.
THEOREM RowsStay ==
  Spec => []Keyed(rows) /\ [][\A x \in rows : Keeps(x, rows')]_vars
  <1>1. Init => TableInv
    BY TableInvInit
  <1>2. TableInv /\ [Next]_vars => TableInv'
    BY TableInvStep
  <1>3. TableInv => Keyed(rows)
    BY DEF TableInv, TablePart
  <1>4. TableInv /\ [Next]_vars => [\A x \in rows : Keeps(x, rows')]_vars
    BY TableInvStep
  <1> QED
    BY <1>1, <1>2, <1>3, <1>4, PTL DEF Spec

-----------------------------------------------------------------------------
(* Lines that reach the table while transactions overlap.                    *)

\* What is in the table, or in the transaction, for a request with these lines.
Brings(q, S) ==
    /\ q.kind = "add" =>
        /\ \A x \in q.found : x.userId = HomeUser /\ x.skuId = q.item.skuId
        /\ q.pc \in InTransaction => OfSku(OfUser(S, HomeUser), q.item.skuId) # {}
    /\ q.kind = "login" =>
        /\ q.pc \in InTransaction => \A l \in q.sent : OfSku(q.tx, l.skuId) # {}
        /\ q.pc = "setToken" => \A l \in q.sent : OfSku(S, l.skuId) # {}

LinesPart == \A r \in Requests : Brings(req[r], rows)
LinesInv  == TableInv /\ LinesPart

\* What is in the table stays there.
LEMMA BringsStay ==
  ASSUME NEW S, NEW T, \A x \in S : Keeps(x, T), NEW q, Brings(q, S)
  PROVE  Brings(q, T)
  <1>1. \A x \in S : \E y \in T : y.userId = x.userId /\ y.skuId = x.skuId
    BY DEF Keeps
  <1>2. \A s : OfSku(S, s) # {} => OfSku(T, s) # {}
    BY <1>1 DEF OfSku
  <1>3. \A u, s : OfSku(OfUser(S, u), s) # {} => OfSku(OfUser(T, u), s) # {}
    BY <1>1 DEF OfSku, OfUser
  <1> QED
    BY <1>2, <1>3 DEF Brings

\* A request that is over or has just come with nothing written.
LEMMA BringsNothing ==
  ASSUME NEW S, NEW q, q.found = {}, q.pc # "setToken",
         q.pc \notin InTransaction \/ (q.kind = "login" /\ q.sent = {})
  PROVE  Brings(q, S)
  BY DEF Brings, InTransaction

\* A request that goes on in its transaction, or between two of its calls.
LEMMA BringsOn ==
  ASSUME NEW S, NEW q, NEW p, Brings(q, S), p.kind = q.kind, p.item = q.item, p.sent = q.sent,
         p.found = q.found, p.tx = q.tx,
         \/ p.pc \in InTransaction /\ q.pc \in InTransaction
         \/ p.pc \notin InTransaction /\ p.pc # "setToken"
  PROVE  Brings(p, S)
  BY DEF Brings, InTransaction

\* The step of a request moves no other one.
LEMMA OnlyOneMoves ==
  ASSUME LinesInv, NEW r \in Requests, Serve(r) \/ Repeat(r) \/ \E b \in Browsers : Submit(r, b)
  PROVE  \A s \in Requests \ {r} : req'[s] = req[s]
  <1>1. req = [s \in Requests |-> req[s]]
    BY TableNow DEF LinesInv
  <1>2. CASE Serve(r)
    BY <1>1, <1>2 DEF Serve, SetCookie, IsCartExists, UpdateCart, SaveCart, UpdateCartCheck, BeginCombine,
       MergeLines, SelectRows, DelHash, HmsetHash, Commit, ShowCart, SetToken, Goto, Done
  <1>3. CASE Repeat(r)
    BY <1>1, <1>3 DEF Repeat, Goto
  <1>4. CASE \E b \in Browsers : Submit(r, b)
    BY <1>1, <1>4 DEF Submit, AddToCart, CheckCart, Login, Arrive
  <1> QED
    BY <1>2, <1>3, <1>4

\* A request arrives.
LEMMA LinesSubmit ==
  ASSUME LinesInv, NEW r \in Requests, NEW b \in Browsers, Submit(r, b)
  PROVE  Brings(req'[r], rows')
  <1>1. PICK label, kind, user, item :
            /\ Arrive(r, b, kind, user, item, label)
            /\ \/ label \in {"setCookie", "exists", "update", "begin"}
               \/ label = "select" /\ kind = "login" /\ cookie[b] = {}
    BY DEF Submit, AddToCart, CheckCart, Login, CombineLabel
  <1> DEFINE p == NewRequest(label, kind, b, user, item, cookie[b])
  <1>2. p.pc = label /\ p.kind = kind /\ p.sent = cookie[b] /\ p.found = {}
    BY DEF NewRequest
  <1>3. req'[r] = p
    BY <1>1, TableNow DEF Arrive, LinesInv
  <1> HIDE DEF p
  <1> QED
    BY <1>1, <1>2, <1>3, BringsNothing DEF InTransaction

\* A request takes a step.
LEMMA LinesServe ==
  ASSUME LinesInv, NEW r \in Requests, Serve(r) \/ Repeat(r), \A x \in rows : Keeps(x, rows')
  PROVE  Brings(req'[r], rows')
  <1> DEFINE q == req[r]
  <1>1. /\ q \in Request /\ req = [s \in Requests |-> req[s]] /\ Holds(q, rows, nextId)
        /\ rows \subseteq Row /\ nextId \in Nat /\ KindKnown(q) /\ Brings(q, rows) /\ Brings(q, rows')
    BY TableNow, TypesNow, BringsStay DEF LinesInv, LinesPart, TableInv
  <1>2. CASE Done(r)
    <2>1. req'[r] = NoRequest
      BY <1>1, <1>2 DEF Done
    <2>2. NoRequest.found = {} /\ NoRequest.pc = "idle"
      BY DEF NoRequest, NewRequest
    <2> QED
      BY <2>1, <2>2, BringsNothing DEF InTransaction
  <1>3. ASSUME NEW label, Goto(r, label),
               \/ label \in InTransaction /\ q.pc \in InTransaction
               \/ label \notin InTransaction /\ label # "setToken"
        PROVE  Brings(req'[r], rows')
    <2> DEFINE p == [q EXCEPT !.pc = label]
    <2>1. req'[r] = p
      BY <1>1, <1>3 DEF Goto
    <2>2. /\ p.pc = label /\ p.kind = q.kind /\ p.item = q.item /\ p.sent = q.sent
          /\ p.found = q.found /\ p.tx = q.tx
      BY <1>1 DEF Request
    <2> HIDE DEF p, q
    <2> QED
      BY <1>1, <1>3, <2>1, <2>2, BringsOn
  <1>4. CASE SetCookie(r) \/ ShowCart(r) \/ SetToken(r)
    BY <1>2, <1>4 DEF SetCookie, ShowCart, SetToken
  <1>5. CASE IsCartExists(r)
    <2> DEFINE match == OfSku(OfUser(rows, HomeUser), q.item.skuId)
               p == [q EXCEPT !.pc = "write", !.found = match]
    <2>1. CASE req' = [req EXCEPT ![r].pc = "write", ![r].found = match]
      <3>1. req'[r] = p
        BY <1>1, <2>1
      <3>2. p.pc = "write" /\ p.kind = q.kind /\ p.item = q.item /\ p.found = match
        BY <1>1 DEF Request
      <3>3. \A x \in match : x.userId = HomeUser /\ x.skuId = q.item.skuId
        BY DEF OfSku, OfUser
      <3> HIDE DEF p, match
      <3> QED
        BY <3>1, <3>2, <3>3 DEF Brings, InTransaction
    <2> QED
      BY <1>2, <1>5, <2>1 DEF IsCartExists
  <1>6. CASE UpdateCart(r) \/ SaveCart(r)
    <2> DEFINE p == [q EXCEPT !.pc = "select"]
    <2>1. req'[r] = p /\ q.kind = "add"
      BY <1>1, <1>6 DEF UpdateCart, SaveCart, Goto, KindKnown
    <2>2. p.pc = "select" /\ p.kind = "add" /\ p.item = q.item /\ p.found = q.found
      BY <1>1, <2>1 DEF Request
    <2> HIDE DEF p
    <2>3. \E x \in rows' : x.userId = HomeUser /\ x.skuId = q.item.skuId
      <3>1. CASE UpdateCart(r)
        <4>1. PICK x \in q.found : TRUE
          BY <3>1 DEF UpdateCart
        <4>2. Keeps(x, rows) /\ x.userId = HomeUser /\ x.skuId = q.item.skuId
          BY <1>1, <2>1 DEF Holds, Brings
        <4> QED
          BY <4>2 DEF Keeps
      <3>2. CASE SaveCart(r)
        <4>1. NewRow(nextId, HomeUser, q.item) \in rows'
          BY <3>2 DEF SaveCart
        <4> QED
          BY <4>1 DEF NewRow
      <3> QED
        BY <1>6, <3>1, <3>2
    <2>4. OfSku(OfUser(rows', HomeUser), q.item.skuId) # {}
      BY <2>3 DEF OfSku, OfUser
    <2> QED
      BY <1>1, <2>1, <2>2, <2>4 DEF Brings
  <1>7. CASE UpdateCartCheck(r)
    <2> DEFINE W == {[x EXCEPT !.isChecked = q.item.isChecked] :
                         x \in OfSku(OfUser(rows, q.user), q.item.skuId)}
               p == [q EXCEPT !.pc = "select", !.tx = W]
    <2>1. req'[r] = p /\ q.kind = "check"
      BY <1>1, <1>7 DEF UpdateCartCheck, KindKnown
    <2>2. p.kind = "check"
      BY <1>1, <2>1 DEF Request
    <2> QED
      BY <2>1, <2>2 DEF Brings
  <1>8. CASE BeginCombine(r)
    <2> DEFINE p == [q EXCEPT !.pc = "merge", !.base = rows]
    <2>1. CASE req' = [req EXCEPT ![r].pc = "merge", ![r].base = rows]
      <3>1. req'[r] = p
        BY <1>1, <2>1
      <3>2. /\ p.pc = "merge" /\ p.kind = q.kind /\ p.item = q.item /\ p.sent = q.sent
            /\ p.found = q.found /\ p.tx = q.tx
        BY <1>1 DEF Request
      <3> HIDE DEF p, q
      <3> QED
        BY <1>1, <3>1, <3>2, BringsOn DEF InTransaction
    <2> QED
      BY <1>2, <1>8, <2>1 DEF BeginCombine
  <1>9. CASE MergeLines(r)
    <2> DEFINE W == MergeRows(q) \cup MergeNew(q)
               p == [q EXCEPT !.pc = "select", !.tx = W]
    <2>1. q.pc = "merge" /\ req'[r] = p
      BY <1>1, <1>9, MergeEffect DEF LinesInv, TableInv
    <2>2. p.pc = "select" /\ p.kind = q.kind /\ q.kind = "login" /\ p.sent = q.sent /\ p.tx = W
      BY <1>1, <2>1 DEF Request, KindKnown
    <2> HIDE DEF p
    <2>3. ASSUME NEW l \in q.sent
          PROVE  \E w \in W : w.skuId = l.skuId
      <3>1. CASE Matching(q.base, l) = {}
        <4>1. NewRow(MergeOrder(q)[l], q.user, l) \in W
          BY <3>1 DEF MergeNew, Fresh
        <4> QED
          BY <4>1 DEF NewRow
      <3>2. CASE Matching(q.base, l) # {}
        <4>1. PICK x \in q.base : x \in Matching(q.base, l) /\ x.skuId = l.skuId
          BY <3>2 DEF Matching, OfSku
        <4>2. [x EXCEPT !.skuNum = @ + l.skuNum] \in W
          BY <4>1 DEF MergeRows, MorePieces
        <4>3. [x EXCEPT !.skuNum = @ + l.skuNum].skuId = x.skuId
          BY <4>1, TypesNow DEF LinesInv, TableInv, Row
        <4> QED
          BY <4>1, <4>2, <4>3
      <3> QED
        BY <3>1, <3>2
    <2> HIDE DEF W
    <2>4. \A l \in q.sent : OfSku(W, l.skuId) # {}
      BY <2>3 DEF OfSku
    <2> QED
      BY <2>1, <2>2, <2>4 DEF Brings
  <1>10. CASE SelectRows(r)
    <2> DEFINE base == IF q.kind = "login" /\ q.sent # {} THEN q.base ELSE rows
               list == OfUser(Overlay(base, q.tx), q.user)
               p    == [q EXCEPT !.pc = "del", !.list = list]
    <2>1. req'[r] = p /\ q.pc = "select"
      BY <1>1, <1>10 DEF SelectRows
    <2> HIDE DEF list
    <2>2. /\ p.pc = "del" /\ p.kind = q.kind /\ p.item = q.item /\ p.sent = q.sent
          /\ p.found = q.found /\ p.tx = q.tx
      BY <1>1 DEF Request
    <2> HIDE DEF p, q
    <2> QED
      BY <1>1, <2>1, <2>2, BringsOn DEF InTransaction
  <1>11. CASE DelHash(r) \/ HmsetHash(r)
    BY <1>2, <1>3, <1>11 DEF DelHash, HmsetHash, InTransaction
  <1>12. CASE Commit(r)
    <2>1. ASSUME NEW label, label \in {"show", "setToken"}, q.kind \in {"check", "login"},
                 req' = [req EXCEPT ![r].pc = label, ![r].tx = {}]
          PROVE  Brings(req'[r], rows')
      <3> DEFINE p == [q EXCEPT !.pc = label, !.tx = {}]
      <3>1. req'[r] = p
        BY <1>1, <2>1
      <3>2. p.pc = label /\ p.kind = q.kind /\ p.sent = q.sent
        BY <1>1 DEF Request
      <3>3. q.pc = "commit" /\ q.tx \subseteq rows'
        BY <1>12 DEF Commit, Overlay
      <3> HIDE DEF p
      <3>4. q.kind = "login" => \A l \in q.sent : OfSku(rows', l.skuId) # {}
        BY <1>1, <3>3 DEF Brings, InTransaction, OfSku
      <3> QED
        BY <2>1, <3>1, <3>2, <3>4 DEF Brings, InTransaction
    <2> QED
      BY <1>2, <1>12, <2>1 DEF Commit
  <1>13. CASE Repeat(r)
    <2>1. CASE q.pc = "setToken" /\ Goto(r, CombineLabel(q.sent))
      <3>1. CASE q.sent = {}
        <4> DEFINE p == [q EXCEPT !.pc = "select"]
        <4>1. req'[r] = p /\ q.kind = "login"
          BY <1>1, <2>1, <3>1 DEF Goto, CombineLabel, KindKnown
        <4>2. p.pc = "select" /\ p.kind = q.kind /\ p.sent = {}
          BY <1>1, <3>1 DEF Request
        <4> HIDE DEF p
        <4> QED
          BY <4>1, <4>2 DEF Brings
      <3>2. CASE q.sent # {}
        <4>1. Goto(r, "begin")
          BY <2>1, <3>2 DEF CombineLabel
        <4> QED
          BY <1>3, <4>1 DEF InTransaction
      <3> QED
        BY <3>1, <3>2
    <2>2. CASE Goto(r, "exists") \/ Goto(r, "write") \/ Goto(r, "update")
      BY <1>3, <2>2 DEF InTransaction
    <2> QED
      BY <1>13, <2>1, <2>2 DEF Repeat
  <1> QED
    BY <1>4, <1>5, <1>6, <1>7, <1>8, <1>9, <1>10, <1>11, <1>12, <1>13 DEF Serve

\* Empty carts.
LEMMA LinesInvInit ==
  Init => LinesInv
  <1> SUFFICES ASSUME Init PROVE LinesPart
    BY TableInvInit DEF LinesInv
  <1>1. \A r \in Requests : req[r] = NoRequest
    BY DEF Init
  <1>2. NoRequest.found = {} /\ NoRequest.pc = "idle"
    BY DEF NoRequest, NewRequest
  <1> QED
    BY <1>1, <1>2, BringsNothing DEF LinesPart, InTransaction

\* Every step.
LEMMA LinesInvStep ==
  ASSUME LinesInv, [Next]_vars
  PROVE  LinesInv'
  <1>1. TableInv' /\ \A x \in rows : Keeps(x, rows')
    BY TableInvStep DEF LinesInv
  <1>2. \A r \in Requests : Brings(req[r], rows')
    BY <1>1, BringsStay DEF LinesInv, LinesPart
  <1>3. CASE UNCHANGED req
    BY <1>1, <1>2, <1>3 DEF LinesInv, LinesPart
  <1>4. ASSUME NEW r \in Requests,
               Serve(r) \/ Repeat(r) \/ \E b \in Browsers : Submit(r, b)
        PROVE  LinesInv'
    <2>1. Brings(req'[r], rows')
      BY <1>1, <1>4, LinesServe, LinesSubmit
    <2>2. \A s \in Requests \ {r} : req'[s] = req[s]
      BY <1>4, OnlyOneMoves
    <2> QED
      BY <1>1, <1>2, <2>1, <2>2 DEF LinesInv, LinesPart
  <1> QED
    BY <1>3, <1>4 DEF Next, Once, SessionEnds, vars

\* After an addToCart that was not refused, the product is in a row of the
\* user that addToCart writes for, and when login deletes the cookie, each product of the cookie that
\* came with it is in a row, of whichever user.
LinesReachTable ==
    \A r \in Requests : LET q == req[r] IN
        /\ Ends(r, "add") /\ q.pc = "commit" => OfSku(OfUser(rows', HomeUser), q.item.skuId) # {}
        /\ Ends(r, "login") /\ q.pc = "setToken" => \A l \in q.sent : OfSku(rows', l.skuId) # {}

\* However requests overlap and calls are repeated, what an addToCart or a login has written is in the
\* table when the answer goes out (LinesReachTable), although the row read may have changed since, or
\* the snapshot be older than the rows of others; with RowsStay, it is there from then on.
THEOREM LinesAreKept ==
  Spec => [][LinesReachTable]_vars
  <1>1. LinesInv /\ [Next]_vars => [LinesReachTable]_vars
    <2> SUFFICES ASSUME LinesInv, [Next]_vars, NEW r \in Requests
                 PROVE  LET q == req[r] IN
        /\ Ends(r, "add") /\ q.pc = "commit" => OfSku(OfUser(rows', HomeUser), q.item.skuId) # {}
        /\ Ends(r, "login") /\ q.pc = "setToken" => \A l \in q.sent : OfSku(rows', l.skuId) # {}
      BY DEF LinesReachTable
    <2>1. Brings(req[r], rows')
      BY TableInvStep, BringsStay DEF LinesInv, LinesPart
    <2> QED
      BY <2>1 DEF Brings, Ends, InTransaction
  <1>2. Init => LinesInv
    BY LinesInvInit
  <1>3. LinesInv /\ [Next]_vars => LinesInv'
    BY LinesInvStep
  <1> QED
    BY <1>1, <1>2, <1>3, PTL DEF Spec

=============================================================================
