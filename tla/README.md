# Formal models of guli2019

guli2019 is an online shop made of Spring Boot web applications that call Dubbo
services. State lives in a MySQL database, in Redis, in an Elasticsearch index
and in the cookies of the customers' browsers, and most of what is hard about
the code comes from keeping copies of the same facts in several of these places
without a transaction over all of them. This directory has TLA+ models of the
parts where that happens, TLC configurations that check them, and TLAPS proofs.

File names of the code are short for the paths in `PROJECT.json`
(`SkuServiceImpl:225` is line 225 of that class).

## The parts of the system

| part | state | operations | talks to |
|---|---|---|---|
| product read path, `manager-service/SkuServiceImpl.getSkuInfoBySkuId` | Redis keys `sku:<id>:info` and `sku:<id>:lock`, row of `sku_info` | read the cache, take the lock, read the database, fill the cache, release, spin and recurse | item-web and cart-web (Dubbo calls), Redis, MySQL |
| trade code, `order-service`, `order-web/OrderController` | Redis key `userId:<id>:tradeCode`, codes in open order pages | `toTrade`/`getTradeCode`, `submitOrder`/`checkTradeCode` | cart-service, user-service, Redis |
| cart, `cart-service/CartServiceImpl`, `cart-web/CartController` | cookie `cartListCookie`, table `cart_info`, Redis hash `carts:<userId>:info` | `addToCart`, `checkCart`, `cartList`, `combineCart`, `syncCache`, `getCatCache` | passport-web (merge at login), order-web, manager-service |
| login, `passport-web/PassPortController`, `user-service` | table `user_info`, Redis copy of the user | `index`, `login`, `verify` | cart-service, the interceptor over HTTP |
| authentication, `web-utils/AuthInterceptor`, `JwtUtil`, `CookieUtil` | cookie `oldToken`, parameter `newToken` | `preHandle` before every handler of cart-web and order-web | passport-web (`verify`, through `HttpClientUtil`) |
| catalogue editing, `manager-service` (`AttrServiceImpl`, `SpuServiceImpl`, `SkuServiceImpl`), `manager-web` | tables of attributes, SPUs and SKUs with their values; open forms | insert, update, delete of each; product form | Elasticsearch (on delete) |
| product page, `item-web/ItemController` | none of its own | product, marked values, map from values to products; switching in the page | manager-service |
| search, `list-service/ListServiceImpl`, `list-web/ListController` | index `guli2019`, address of the filter page | `search`, `toElastic`, filter links and crumbs | manager-service, Elasticsearch |
| Redis pool, `service-utils/RedisUtil` | up to 10000 connections | `getJedis`; nobody configures a leak check | every service |
| images of an SPU, `spuListPage.html`, `spuInfoPage.html`, `webuploader.js`, the datagrid, `SpuController`, `MyUploadUtil` | the dialog with its list, the uploaders with queue, pool and timers, table `spu_image` | open, pick, upload, delete a row, save; answers of the server into the dialog | manager-service, FastDFS |
| HTTP client, user-web | none | one blocking call, one query | |

What is hard in each, and what makes it correct:

- **Read path.** Many threads miss the cache at once; the lock has the value "1"
  for everybody and a life of 5 seconds; a product that is missing is marked for
  3 seconds; a failed query leaves the lock. Correct means: one reader of the
  database at a time, the cache never goes back, the marker does not hide a new
  product for long, and calls return.
- **Trade code.** Get and delete are two commands; Dubbo repeats a call whose
  answer was lost; codes expire; browsers go back to old pages. Correct means that
  an order is accepted at most once per page.
- **Cart.** Three copies, three transactions for one click, a hash that is
  deleted and refilled inside a transaction, and a merge at login. Correct means
  that nothing is lost or counted twice, and that the copy follows the rows.
- **Authentication.** A token can come from the address or from the cookie, is
  tied to an IP address, and several tabs set the same cookie. Correct means
  that nobody is served for somebody else, and that a login leads somewhere.
- **Catalogue and product page.** Every edit gives new ids to values that
  products refer to, forms are sent long after they were filled, nothing in the
  database ties the rows together, and the page reads the tables in three calls. Correct means that switching between
  variants leads to the product with the values that were clicked.
- **Images of an SPU.** One dialog is filled anew each time it is opened, while
  requests of earlier openings and every uploader ever created go on working on it; the
  handlers of the page run inside those of the uploader, and an exception there
  ends both. Correct means that a path never stands beside another image, that a
  save stores what the user left in the dialog, that no more files are on their way
  than there are places, and that an upload that was asked for ends.
- **Search.** The index is written by a loop whose errors are swallowed; the
  filter page joins hits of the index with attributes of the database read
  later. Correct means that no link leads to an empty list and that every
  filter can be taken back.

## Modules

| module | models | extends |
|---|---|---|
| `SkuCache` | the read path, one action per Redis command or query | |
| `SkuCacheProofs` | theorems about it | `SkuCache` |
| `TradeCode`, `MCTradeCode` | trade codes, one action per Redis command; symmetry for TLC | |
| `OneShotCode` | what a trade code promises: the abstract specification | |
| `TradeCodeProofs` | theorems, among them the refinement | `TradeCode` |
| `Cart` | the cart, with the merge of `login`: one action per call, statement or Redis command, but for the loop of `combineCart` over the lines of the cookie, which is one step (`MergeLines`) | |
| `AtomicCart` | what the cart promises one visitor at a time: the abstract specification | |
| `CartProofs` | theorems, among them the refinement | `Cart` |
| `UploadPool` | what an uploader promises: the abstract specification | |
| `WebUploader` | the uploaders of a page: queue, status, pool, timers | |
| `SpuDialog`, `MCSpuDialog` | the dialog of an SPU, its list of images, the server behind it; composes the uploaders | `WebUploader` |
| `SpuDialogProofs` | theorems about the uploaders and the dialog, among them the refinement of `UploadPool` | `SpuDialog` |
| `Session` | interceptor, token, login form, one browser with tabs | |
| `SessionProofs` | theorems about it | `Session` |
| `Catalog` | catalogue editing | |
| `ProductPage`, `MCProductPage` | the product page in three calls, between the edits of the catalogue | `Catalog` |
| `CatalogProofs` | lemmas: ids are given out once, rows are listed in the order of their ids, saves keep the types | `Catalog` |
| `ProductPageProofs` | theorems about the page | `ProductPage`, `CatalogProofs` |
| `Search`, `MCSearch` | index and filter page, on top of the catalogue | `Catalog` |
| `SearchProofs` | theorems about it | `Search`, `CatalogProofs` |

How state and actions correspond to the code is noted at each definition, and
line by line in `PROJECT.json` under `map`. In short:

- `SkuCache`: `cache`/`cacheTTL` are the key `sku:<id>:info` (a version number
  stands for the JSON, `Empty` for the marker), `owner`/`lockTTL` the lock key.
  `AskLock` is `SET NX PX` (line 225), `ReadDb`, `FillCache`, `ReleaseLock` the
  lines 235 to 250, `Spin` and `Wake` the sleep and the recursive call of line
  259. `owner` is known to the model only: `ReleaseLock` deletes the key whoever
  made it, as the code does. `overrun` is history: an owner has outlived its lock.
- `TradeCode`: `code` is the Redis key, `pages` the codes in order pages that
  the browser still shows or can go back to. `GetCode` and `DelCode` are the
  two commands of `checkTradeCode`. `Failover` is a Dubbo retry from the start. `spent[c]` is
  history: how many checks have accepted and deleted `c`.
- `Cart`: `rows` are the committed rows, `tx` the uncommitted writes of a
  request and `base` its REPEATABLE READ snapshot; `hash` and `cookie` are the two copies.
  `Repeat` is the Dubbo client that calls `isCartExists`, `updateCart` or `saveCart`,
  `updateCartCheck` or `combineCart` again because the answer got lost.
- `WebUploader`: `Uploaders` are the calls of `WebUploader.create`. `TickPrepares` and `TickEnds` are the two
  ends of `_tick`, `Prepared` is `_startSend` with `_doSend`, `Load`, `Fail` and
  `Finish` are the events of the transport and of after-send-file. Their parameter `heard`
  says whether the handlers of the page return or throw; `response = "lost"` is a file whose
  transport stopped in the middle of an event.
- `SpuDialog`: `rows` is the list of images, `loads` and `posts` the requests
  `selectSpuImage` and `saveSpu` under way, `images` the table. `heard` is `Shown(f)`:
  `updateRow` of a row that is not there throws. `ShowImages` and `LoadFails` are the
  loader's success and error. `wanted`, `missed` and `hasty` are history.
- `Session`: `tab[t]` is what a tab shows or waits for; `Verified`, `Refused`
  and `VerifyFails` are what the interceptor makes of the answer of `verify`. `LogInFails` is a
  login whose `combineCart` throws (`PassPortController:76`): no token comes, and the script of the
  form, which has no handler for that, leaves it as it is.
- `Catalog`: one variable per table, `last` the AUTO_INCREMENT counters, `dlg`
  the product forms that are open.
- `ProductPage`: `page` is a product page under way. `GetSku`, `GetValues`, `GetSwitch` are its
  calls of manager-service; `Checked` and `SkuJson` are what it makes of the
  tables, `Selections` what can be clicked.
- `Search`: `index` holds the documents, `batch` what a running `toElastic` has read
  and not written yet, `visit` the filter page: `SearchIndex` is the call of
  list-service, `ShowList` the attributes, links and crumbs that follow.

## What the runs check

All passing runs are exhaustive within their bounds.

| run | question | bounds, and why they are enough |
|---|---|---|
| `sku_cache` | does the lock let one thread at a time into the database, does the cache never go back, does a marker hide a new product only for a bounded time, is the lock freed, do calls return | one product, two threads, two versions, one failed read; a lock lives 2 ticks, a marker 1, a spin lasts 2, so that a lock can expire under its owner and a marker during a spin. Products do not interact. The safety part is proved for all values |
| `sku_cache_null` | *violated*: null means missing | two threads, one on the lock: the other gets null |
| `trade_code_concurrent` | is a page that was accepted and is submitted again refused, is the stored code fresh | one user (users share no key), three requests, two codes, one retry |
| `trade_code_serial` | with one request per user at a time, does each trade code buy one order at most, and is it gone once a check has accepted it, also when Dubbo repeats the check or the code expires in the middle of it | two users, three codes, one retry |
| `trade_code_paid_twice` | *violated*: a page is accepted at most once | two concurrent submits |
| `cart_serial` | without overlap: are pieces conserved through cookies, rows and merges; is there one row per product; does the Redis copy follow; is a login that fails undone; does each request take effect in one step, as in the abstract cart |  two users, two browsers, two products, three pieces: enough for a merge into an own row, a row of another user, and two cookies for one product; one repeated call; 1.1 million states |
| `cart_concurrent` | with overlap: does every line of the hash belong to a row of its user, is every request answered although rows are locked | one user, one product, two requests: the smallest case of a lock conflict; one repeated call |
| `cart_merge` | *violated*: the cookie's products are in the user's cart after the login | two users, one product in both |
| `session` | for whom is a page served, whose page does a login lead to, does a user get the page unless the login itself throws | two users, two addresses, two tabs, a cookie of two ticks, one move, one failure of `verify` |
| `product_page` | does switching lead to a product saved with the selected values, can each intact product be reached, whatever is edited between the calls of the page | one editor with a form that grows old, two products, one SPU whose form is saved with two attributes, three values in two orders, so that an edit renumbers them; one attribute whose value is renumbered once. A second editor would add only an older form of the same kind: edits of others come between opening and saving a form in any case. 1.1 million states |
| `spu_dialog` | is a path always beside its image, is what is saved what was edited (also after an error answer to `selectSpuImage`), are the places of the pool kept, do uploads go in turn and end | the dialog is opened twice (a late answer of the first in the second), two images picked in the first (one waits for the other), one place instead of three, one SPU with an image and room for a new one, one save; 444 thousand states |
| `search` | do links and crumbs find something, can each filter be taken back, is a deleted product gone from the index | two products, two attributes, two values (of one attribute or of two), page size 1 instead of 20 so that results are cut off, one failing call |

`product_page` is checked with `CHECK_DEADLOCK FALSE`: with all ids given out and all
rows deleted there is nothing left to do. So is `spu_dialog`: with the openings and
saves used up and the dialog closed, the page rests. All others are free of deadlock.

Some properties have a condition that names what the code does not guarantee:
in `SkuCache` most hold *while no owner has outlived its lock* (a slow owner
deletes the lock of another and may put an old version into the cache: the
model has this behaviour, `overrun` marks it), `TradeCode`'s refinement while a
user waits for each answer (constant `Serial`). In `Cart` pieces and rows are not
doubled *unless a call was repeated* (`repeated = 0`): a repeated `saveCart` inserts a second row and a
repeated `combineCart` adds the cookie twice, so that `AtomicSpec` too ends with the first
repetition; that nothing is lost, that the copy
follows and that requests end holds with repetition too. In `SpuDialog` a save stores what
was edited *while the user waits for each answer* (`hasty` marks the other case), *less the
images that the list never got* because `selectSpuImage` was answered with an error (`missed`),
and an upload ends *unless a place of its uploader was lost* to a row that went away. In
`Session` a user reaches the page *unless the login at the form throws* (`failed`): for a user
without cart rows every login does until the merge of a cookie has inserted one, and such a
user never reaches the page.

Each property of a passing run has a mutant in `PROJECT.json`: a plausible slip
in one of the mapped definitions (written next to the definition as
"Mutant:"), with which TLC finds the property violated.

### Fairness

- `SkuCache`: weak fairness of `Tick` (Redis counts down) and of the step of
  each thread that is inside a call (the scheduler). Nobody has to call, write or fail.
- `Cart`: strong fairness of `Serve(r)`. InnoDB grants row locks in the order of
  the requests, so that a writer is not overtaken for ever; weak fairness would
  allow that, since the lock is taken and given back in between.
  It includes the steps that follow a repeated call; repetition itself is bounded
  (the client gives up after its retries) and never required.
- `Session`: weak fairness of `Tick` and of serving; and, because the property is
  about a user who wants a page, of answering the login form and, after a login
  that led nowhere, asking again. Whether a login is answered with a token is open, and nobody
  has to repeat one that failed. Moves and failures of `verify` are bounded
  and never required.
- `SpuDialog`: weak fairness of the timers, of preparing a file (compressing ends well or
  badly), of the answer to an upload (the transport counts two minutes without
  progress as a failure) and of after-send-file. The user need not do
  anything, and answers to the lists and forms may stay away.
- `TradeCode`, `ProductPage` and `Search` have safety properties only.

## What is proved

Proved by TLAPS for every value of the constants, from the named assumptions in
the modules (times to live are positive, special values differ from the
others, there is a product and a browser, and so on):

- **SkuCache**: `TypeOK`, `MutualExclusion`, `ReleasesOwnLock`,
  `CacheNeverGoesBack`, `MonotonicReads`, `NullIsTimely`. None of them but the first is
  inductive by itself. `IInv` adds: a key exists exactly while it
  has time to live (`KeysLive`); without an overrun a thread between SET and DEL
  owns the lock (`WorkingOwns`); nothing is newer than the last commit
  (`NothingNewer`, `ReadIsCommitted`); a thread about to fill has read what it
  will replace or something newer (`InOrder`); what was shown is still cached,
  or the product was deleted (`SeenIsCached`); the ages of a marker and of the
  read that led to it are bounded (`MarkerIsYoung`). The argument: because only
  one thread is between SET and DEL, the order of the fills is the order of the
  reads. The action properties follow from `IInv` for each action.
- **TradeCode**: `TypeOK`, `ResubmitRefused`, `StoredCodeIsFresh`, and under
  `Serial` `PaidOnce` and the refinement of `OneShotCode`. `IInv` says who may
  hold a code: each code in a page, a request or Redis was issued, and to one
  user (`OneHolder`, `HeldIsIssued`); what was paid was spent (`PaidIsSpent`,
  `AcceptedIsSpent`, `RepeatIsSpent`). In `OneShotCode` a redeemed code is counted and
  gone. The refinement ties the token a user may spend to the Redis key (`Token`): it is what
  Redis holds, or the code that a check has just read there and is about to
  delete. `DelCode` maps to `Redeem`, `GetTradeCode` to `Issue`, an expiry to `Lapse` (or, between
  `get` and `del`, to a stutter, and a check that is repeated after it to `Lapse`), and all else to
  a stutter. A check that accepts and leaves the code in Redis, or accepts a code again, is
  no step of `OneShotCode`. That a user has one token needs that no second request of the user exists
  (`OneRequestPerUser`, `TokenOf`), and that an accepted code was not accepted before is
  `DeletesLatest`; `SerialAcceptedOnce` says so for every retry.
- **Session**: `TypeOK`, `ServedHere`, `LoginServesItsUser`. `IInv` follows the
  tokens: each one that the browser has came from a login in its history
  (`TokensKnown`), and a request to which a login led carries that login's token
  (`LoginBringsToken`).
- **Cart**: `TypeOK` and `HashHasRows` for any number of requests at once; `OneRowPerProduct`,
  `WritesThrough`, `ShowsOwnUpdate`, `FailedLoginLeavesCart`, `ItemsConserved` and `AtomicSpec` for
  one request at a time (`OneRequest`). For `TypeOK`, addToCart takes back a piece only if it has counted it: the
  requests that add are never more than the pieces posted (`Adding` in `TypeInv`). For `HashHasRows`:
  syncCache writes the hash before its caller commits, so
  that a rollback could leave lines without rows behind. `IInv` says why it
  does not: what a request has read stays in the table (`ReadsKnown`), a
  transaction changes rows that there are or inserts rows of its own user
  (`WritesKnown`), and the rows that syncCache has read are among both
  (`ListKnown`). A transaction is rolled back when it read no row of its user;
  then it has inserted none. No statement deletes a row. Repeated calls are
  included: what such a call finds is in the table like everything else. The serial properties
  rest on `SerialInv`, which looks ahead: the table that a transaction is about to leave behind has
  ids of its own and lists a product once (`TxStands`), the rows that syncCache
  has read are the user's rows of that table (`HashStands`), updateCartCheck has marked them
  (`MarkStands`), and what addToCart found and combineCart goes by is still so (`FoundStands`,
  `BaseStands`). A repeated saveCart breaks `OneRowPerProduct` alone, by its condition.
  For one request at a time `AtomicSpec` holds too, the refinement of `AtomicCart`. `AtomicInv` adds to
  `SerialInv` what a request carries (`Carries`): the cookie and the session it came with are still its
  browser's, what addToCart found is still the row there is, and the lines that a transaction is about
  to leave are those the abstract step leaves. `updateCart` and `saveCart` map to `PutInTable`, the
  commit of checkCart to `MarkInTable`, the commit of a login to `LogIn` (which counts from then on, not
  from the answer), a written cookie to `PutInCookie` or `MarkInCookie`, the end of a session to
  `LogOut`, and all else to a stutter. The refinement ends with the first repeated call.
  `ItemsConserved` counts the pieces of cookies and rows one by one, as sets of cells
  (`PiecesOf`), so that a sum is a cardinality and a step that adds or moves
  pieces is a bijection between sets; no induction over the lines is needed. The invariant is
  `ConservedInv`: a piece that was counted and is not in a cookie or row yet is due from the one request under
  way, a login has taken the pieces of its cookie into rows before the cookie is deleted, and an
  `updateCart` that is repeated finds its own row again (`Keeping`), so that repeating can add
  pieces but never lose one.
  Two theorems, without a run of their own, say what is left of this when requests overlap in any number and calls
  are repeated. `RowsStay`: an id is the id of one row, and no row leaves the table or changes its
  user or product. `LinesAreKept`: after an addToCart that was not refused, the product is in a row of
  user "1" (for whom addToCart writes), and after a login each product of the cookie it came with is in
  a row, though maybe of another user. Of what is in the table, overlapping requests therefore lose at most the number
  and the mark. (A line may still be lost from a cookie: the answer of a login deletes what another request of
  the browser has put there meanwhile.)
  `TableInv` says of each request that what it has read are rows of the table as to id, user
  and product (`Holds`), so that writing them back whole does no more harm than that, and that two
  transactions never give out the same new id (`Apart`); `LinesInv` says where the lines of a request are
  before its commit and after it (`Brings`).
- **SpuDialog** (and **WebUploader**): `TypeOK`, `PoolIsOnTheWay`, `PathOfOwnImage`,
  `SavedAsEdited` and the refinement of `UploadPool`. `UploaderInv` adds to the pool that a file
  that is being prepared is in no pool (`PromiseIsFree`), that what was sent was started
  (`SentIsStarted`) and that only files of the queue have a status; with these, `Prepared` and
  `PrepareFails` map to `Start` and `Refuse`, the end of a transport to `End`, a click to
  `Request` for all uploaders at once, and all else to a stutter. For the list,
  `Sound` says that a list names an image once, with its own path and only if it was
  picked, and it holds of the list, of every answer and form under way and of the table, each of which
  is made from another. `SavedAsEdited` needs `OneAtATime`: as long as
  the user waits, one request at most is under way, and it carries what the user left and the
  list ever got: an error answer leaves an empty list, and all that was wanted counts as `missed`.
- **ProductPage** (and **Catalog**): `PageTypeOK`, `SwitchIsHonest` and `SwitchFinds`. Ids of values are given
  out once: rows that are in the table, in an open form or on the page under way
  have different ids or are the same row (`UniqueIds`), none newer than the counter
  (`IdsGivenOut`), and what a product notes has the attribute and name of
  the row with the id it notes, should anybody still have that row (`NotesAgree`). A key that is equal to
  the ids of the selected rows therefore names the same values; that `ById` lists each row once
  (`ByIdLists`) is a counting argument on the ranks of the ids. For `SwitchFinds`, a product
  notes one value of each attribute, in the order of the ids (`NotesInOrder`), and what is
  marked on the page is such a choice (`CheckedIsChoice`); the selected rows are then those
  with the noted ids, and `ById` lists them as the product's key does (`RowsOfKey`).
- **Search**: all its properties. For `GoneIsForgotten`, `IndexInv` adds that an import holds
  only products that are there or are noted as missed (`BatchIsKnown`). The others rest on
  `VisitInv`: ids of the page were given out (`IdsKnown`), what is offered is in a document that
  passes the filter (`OffersFound`), no link has the attribute of a selected value (`LinksFree`), and
  after a link or a crumb there is a document that passes, until the index is written
  (`AskFinds`). While the catalogue is edited, a row whose id was given out before was there
  before, and under an attribute that was there (`RowsStay`); two selected values of one attribute
  can therefore not come about later either, and each selected row gets a crumb of its own. Taking a
  filter back leaves a part of the values (`OtherIds`), which is shown by counting ranks, as for `ById`.

Only model-checked: all liveness (`LockIsFreed`, `CallReturns`, `RequestEnds`,
`ReachesPage`, `UploadEnds`), since liveness under fairness and ENABLED are out of the
prover's reach.

## What was found

Runs that end with a violation, each against a comment of the code
(`PROJECT.json`, `findings`):

- A caller that had to spin gets null: the result of the recursive call is
  dropped (`SkuServiceImpl:259`).
- Two concurrent submits of one order page are both accepted
  (`OrderServiceImpl:57`, `get` and `del` instead of one atomic command).
- The merge at login finds the rows of any user, and adds the pieces to them
  (`CartServiceImpl:129`, the userId of a cookie line is null).

Seen while modelling, without a run of their own:

- An owner slower than 5 seconds deletes the lock of another (`SkuServiceImpl:250`).
  The marker lives 3 seconds (`:246`), the message beside it says 10 (`:244`).
- `updateSkuInfo` and `deleteSkuInfo` leave the cached product in Redis for ever.
- A user without cart rows, whose cookie adds none, cannot log in: `hmset` of an empty map throws
  (`CartServiceImpl:80`) although name and password are right, which `PassPortController:46`
  says are what is checked; no token is answered and the form stays. `FailedLoginLeavesCart` says
  what such a login leaves, `ReachesPage` excepts its form.
- A `saveCart` that Dubbo repeats inserts a second row of the product, after which `selectOne` throws for
  it; a repeated `combineCart` adds the pieces of the cookie twice.
- Overlapping `addToCart` calls insert two rows of a product, after which
  `selectOne` throws for it, or lose an update (`CartController:190`).
- `addToCart` writes the product of every logged-in user to user "1" (`CartController:189`).
- A copy selected before another commit can be written to Redis after it (`CartServiceImpl:72`).
- The order page reads the hash only: it is empty between `del` and `hmset` of
  a `syncCache` under way (`CartServiceImpl:157-166`).
- A second order page replaces the code of the first (`OrderServiceImpl:41`).
- When `verify` refuses the token, the form gets a blank returnURL
  (`AuthInterceptor:74`): the login leads back to the form although
  `PassPortController:48` speaks of the original request. The parameters of a
  POST that was sent to the login are lost in any case.
- Products without attribute values are not in the back office's list (inner
  joins in `SkuInfoMapper.xml:47`), and can be neither edited nor deleted there.
- When the row of a file under way is gone (deleted, dialog opened again, list filled by a
  late answer), `updateRow` of row -1 throws inside the handler of `uploadProgress`
  (`spuInfoPage:250`). The transport's own handlers never run, the place in the pool is lost, and
  `runing` stays true, so that later clicks only mark files as queued and return
  (`webuploader.js:3525`): with as many such rows as places nothing is uploaded any more.
- When the file store cannot be reached, `uploadImage` answers its bare address with status
  200, and the list shows the image as uploaded (`MyUploadUtil:41`). Images that
  were not uploaded yet are saved without a path.
- A late answer to `selectSpuImage` or `saveSpu` fills or empties the dialog of another SPU
  (`spuInfoPage:134`, `:188`): saved then, it replaces the images of one SPU by those of another.
  A second click on save before the answer saves a new SPU twice.
- After an error answer to `selectSpuImage` the list of the SPU is empty, without a word
  (`jquery.datagrid.js:1735`, `onLoadError` is empty): a user who then picks an image and saves deletes the
  images that the SPU had, although no request was pending (`updateSpu`, `SpuServiceImpl:146-154`).
- Files that failed are not sent again by another click.
- Search results without any attribute make the statement `in ()`, an error page
  (`AttrServiceImpl:163`, `BaseAttrInfoMapper.xml:26`; `pc = "failed"` in `Search`).
- No page writes the index: the calls of `toEs` and `toElastic` are commented
  out or in tests. `updateSkuInfo` writes `sku_info` first and `deleteSkuInfo`
  last, so that two of them can deadlock in InnoDB.

## Abstractions, and what is not modelled

- **SkuCache**: a product is a version number; time is in ticks; saving,
  updating and deleting are their commits; a deleted id is not used again;
  the recursion is one level deep in the model because outer calls all return null.
- **TradeCode**: UUIDs never repeat; the page's cart and addresses are left out;
  `submitOrder` only checks the code, the code stores no order.
- **Cart**: prices (always written with the number), images, and the expiry of
  the cart cookie are left out; the statements of the loop of `combineCart` over
  the cookie's lines are one step, which waits for all its row locks at once, so that two
  merges never wait for each other in a circle and InnoDB's own deadlock rollback does not occur; commits do not
  fail; a call is repeated after it has ended (not beside itself), `syncCache` alone is not repeated
  (it changes nothing the second time); every product exists.
- **Session**: one browser (the server keeps nothing between browsers); a wrong
  password only repeats the form; that `combineCart` throws is a possible outcome of every login
  (`Cart` says when it does); the copy of the user in Redis has no reader.
- **Catalog**: one category; each service method is a transaction and one action;
  the lists of a form are loaded at one moment; rows come in the order of
  their ids; a product without an image is a rollback (`CloseSku`); ids are not reused.
- **ProductPage**: one page under way at a time, which reads and changes nothing; the product
  comes from the database (what the cache makes of it is `SkuCache`).
- **WebUploader**, **SpuDialog**: of `webuploader.js` what the page uses: no chunks, pausing,
  cancelling, retry, Flash or MD5; the other validators (type, size) accept every file; progress
  counts only where its handler throws; sale attributes, names and paging are left
  out; a request that is never answered is one that is delayed for ever.
- **Search**: documents are found as soon as they are written; any `PageSize`
  of the matches may be returned; one visitor; SPUs are only saved (documents know nothing of
  them); product forms are sent at once; which products a keyword matches does
  not change; the import is the one of the tests.
- **Not modelled**: `RedisUtil` (methods that never close their connection take one each for
  good; beside that counter there is nothing to check), the HTTP client (one
  call, its failure is `VerifyFails`), the vendored FastDFS client (a file is stored or not),
  user-web (one query), entities, generated mappers, static pages, data
  files, and the vendored browser libraries (jquery, bootstrap, zepto, easyui and the parts of
  webuploader that the page does not use). These libraries are most of the JavaScript in the
  repository. Their state is that of a page's elements, without a part in the shop's
  behaviour; only the parts on which the images of an SPU depend are modelled.

## Plan

Done, in this order: `SkuCache`, `TradeCode` with `OneShotCode`, `Cart` (with repeated calls),
`Session`, `Catalog`, `Search`, `ProductPage`, `WebUploader` with `UploadPool`, `SpuDialog`,
`AtomicCart`; proofs for each. What is left, in the order of its worth:

1. InnoDB's deadlocks: `updateSkuInfo` against `deleteSkuInfo`, two merges that
   lock two rows in opposite orders.
2. Sale attributes in the dialog of an SPU, whose list is edited in place.
