# Yutu auction app: a TLA+ verification project

The Yutu app is a consumer-to-consumer auction marketplace: a Go backend
(`backend/`: chi, PostgreSQL, Stripe, websockets) and a Flutter client
(`yutu_frontend/`).  This directory holds TLA+ models of its core, TLC
configurations that check them, and proofs checked by TLAPS.

    tlc -workers 2 -config AuctionHouse_bidding.cfg MCAuctionHouse
    tlapm AuctionHouse_proofs.tla

## 1. Inventory

| Component | Code (under `backend/internal/` unless said) | State | Operations | What must hold |
|---|---|---|---|---|
| Proxy bidding | `repository/bid_repository.go` | the auction's row: price, leader, hidden maximum, end; the bids table | PlaceBid | the leader holds the highest bid; the price is the second price plus at most an increment; nothing goes back |
| Auction lifecycle | `repository/auction_repository.go`, `service/`, `handlers/auction_handler.go` | status of an auction; its order | CreateAuction, BuyItNow, Delete, CloseAuction | sold auctions have exactly one order, for a bid its buyer placed; what is closed stays closed |
| Auction closer | `worker/auction_closer.go` | the ids of this pass, the bid just read | a pass every ten seconds | no expired auction is forgotten; none is closed early |
| Orders and payments | `repository/order_repository.go`, `handlers/order_handler.go`, `handlers/stripe_webhook_handler.go` | payment status, stored PaymentIntent id; Stripe's intents, sessions, deliveries | CreatePaymentIntent, CreateCheckoutSession, Checkout, CancelUnpaidOrder, webhook | paid once, paid or cancelled, every charge finds its order |
| Live price broadcast | `ws/hub.go`, `handlers/ws_handler.go`, `handlers/bid_handler.go` | client set, unbuffered channel | AddClient, RemoveClient, Run, broadcast after a bid | clients end up with the last price; nobody waits forever |
| Chat | `ws/chat_hub.go`, `service/message_service.go`, `repository/message_repository.go`, `handlers/message_handler.go` | conversations, messages, one socket per user | SendMessage, GetMessages, Register, Unregister, SendToUser | one conversation per pair and auction; an online receiver gets the message |
| Users, sessions, reviews | `service/user_service.go`, `repository/user_repository.go`, `handlers/user_handler.go`, `middleware/`, `utils/jwt.go` | users, reviews, tokens | Register, Login, GetMe, UpdateProfile, CreateReview, GetUserReviews | a review is earned, single and permanent |
| Watchlist | `repository/auction_repository.go`, `handlers/auction_handler.go` | watchlist rows | ToggleWatchlist, GetWatchlist | the hearts shown are those saved |
| Client: auctions | `yutu_frontend/lib/providers/auction_provider.dart`, `screens/` | pages, filter, hearts, shown auction | fetch, refresh, filter, tap, bid, buy, delete | the list is the listing; spinners stop |
| Client: session, orders, chat | `yutu_frontend/lib/providers/` | token, user, disk, pending orders, chat | login, logout, sync, update, checkout, send | logging out is final; what is saved is what is shown |

The HTTP handlers run one goroutine per request; the closer and the hub's `Run`
are goroutines of their own (`cmd/api/main.go`).  They share nothing but the
PostgreSQL tables, the two hubs and Stripe.  Every transaction runs at READ
COMMITTED: only row locks (`FOR UPDATE`, `UPDATE`, `DELETE`) and the unique and
foreign keys of `db/init/01-schema.sql` order them.

What is hard: transactions that read before they lock (the closer), a clock that
is read inside a transaction, amounts that are checked as float64 and stored as
numeric(10,2), orders that a seller, the closer, a buyer and Stripe write at once,
messages sent after a commit, client lists that a late answer overwrites, a
session that is in memory, on disk and on its way between the two.
`PROJECT.json` lists each hazard at its line, with the properties that cover it.

## 2. Modules

| Module | Models |
|---|---|
| `ProxyBid` | the arithmetic of one bid, as operators on an auction's row |
| `AuctionHouse` | the tables `auctions`, `bids`, `orders`, every transaction that writes them, the closer, failures and restarts |
| `OrderLife` | abstract: what an order promises buyer and seller |
| `OrderPayment` | checkout handlers, Stripe's intents and sessions, the webhook; implements `OrderLife` |
| `PriceHub` | bid handlers after their commit, the price hub, its connections, the screens |
| `Chat` | conversations, messages, and the chat hub with one connection per user |
| `Sale` | abstract: the life of an auction as sellers and buyers know it; `AuctionHouse` implements it |
| `Reviews` | `AuctionHouse` extended by the reviews table and the requests that write it |
| `Session` | one phone's session in memory and on disk, and the account handlers |
| `Feed` | the paged list of running auctions in the app, and its endpoint |
| `Watchlist` | hearts on several devices, and the toggle in the backend |
| `MCAuctionHouse`, `MCOrderPayment`, `MCChat`, `MCReviews`, `MCSession`, `MCFeed`, `MCWatchlist` | symmetry sets and constants of the runs |
| `AuctionHouse_proofs` (with `ProxyBid` and `Sale`), `OrderPayment_proofs`, `PriceHub_proofs`, `Chat_proofs`, `Reviews_proofs`, `Session_proofs`, `Feed_proofs`, `Watchlist_proofs` | lemmas and theorems |

`OrderPayment`, `PriceHub` and `Chat` each take up what `AuctionHouse` does in one
step: the payment of an order (`MarkOrderPaid`), the end of a `PlaceBid` request, the
talk after a sale.  They share no state with it beyond that step, and are checked on
their own.  `Feed` and `Watchlist` see of an auction only that it is there.
`Reviews` does share state: it runs beside every transaction of `AuctionHouse`.

### ProxyBid

Amounts are integers in thousandths of a crown: a request may carry any float64,
a numeric(10,2) column keeps hundredths, and `Numeric` rounds half up as
PostgreSQL does.  A unit a thousand times a crown is the smallest that lets the
two differ.  `AcceptsBid` is the list of early returns of `PlaceBid`,
`TakesLead` and `NewPublicPrice` its three scenarios, `AfterBid` the row its UPDATE
writes, soft close included.

### AuctionHouse

`auction`, `bids` and `order` are the tables; `lock[a]` is the PlaceBid transaction
that holds `FOR UPDATE` on the row (its bidder, amount and clock reading); `todo`
and `closing` are local variables of the closer (`ids`; `auctionID`, `winnerID`,
`highestBid`).  A deleted row is DELETED, so that an id is never used again, as
with the sequence that hands them out.

| Action | Code |
|---|---|
| `CreateAuction` | handler, service and INSERT (`auction_repository.go:21`) |
| `LockForBid`, `CommitBid`, `AbortBid` | `PlaceBid`: lock, clock and checks; writes and commit; deferred rollback |
| `BuyItNow`, `Delete`, `CancelUnpaidOrder` | one transaction each, enabled when the row is not locked |
| `MarkOrderPaid` | the two guarded UPDATEs a webhook reaches |
| `ListExpired` | `GetExpiredActiveAuctions`, once per pass |
| `ReadTopBid` | `CloseAuction`'s SELECT, which takes no lock |
| `CloseUnsold`, `CloseSold` | the UPDATE to EXPIRED; the UPDATE to SOLD with the order, undone by the keys of `orders` |
| `CloseFails`, `Restart`, `Tick` | a logged error; the process dies and docker starts it again; time |

Why this grain.  A transaction that locks the row first and then only reads and
writes under that lock is one step: nobody can see or change the row in between.
PlaceBid takes two because time passes between its clock reading and its commit,
and because the closer's unlocked reads do see the tables while it is open.
CloseAuction takes two because its SELECT takes no lock at all.

Simplifications, each on the safe side or named here: the database's and the
process's clock agree; an amount is the decimal it prints as, not a binary
fraction near it; CreateAuction's clock check and its INSERT are one step; one
backend process runs (docker-compose starts one); CancelUnpaidOrder locks the
order before the auction, and the deadlock this can make with the closer, which
PostgreSQL resolves by failing one of the two, appears as that operation failing.

### Sale

An auction is offered, and ends sold, unsold or withdrawn; a sale ends paid or
cancelled.  Bids are taken while it is open, it is sold once, to one who bid or who
bought it before any bid, and nothing sold is withdrawn.  `AuctionHouse` reads
`stage`, `bidders` and `buyer` off its tables (`Stage`, `Bidders`, `Buyer`): once
there is an order, its status decides, whatever the auction's says, because the
closer may overwrite SOLD with EXPIRED when a purchase comes between its SELECT and
its UPDATE.  `KeepsSale` is `Sale`'s specification under that mapping.

### OrderLife and OrderPayment

`OrderLife` says that an order is PENDING, then PAID or CANCELLED_UNPAID and that
for good, and that it is PAID only after its buyer was charged.  `OrderPayment` reads
`status` off the table and `charged` off Stripe (`StatusOf`, `Charged`);
`KeepsOrderLife` is `OrderLife`'s specification under that mapping.

`order` is the table's status and `stripe_payment_intent_id`; `charge` is what
Stripe holds (an intent or session, the order in its metadata, how far it is);
`request[d]` is a checkout request between two of its calls; `acked` is the
history of events answered 200.

| Action | Code |
|---|---|
| `ReadOrder` | `GetOrderByID` and its early returns, in either checkout handler |
| `NewIntent`, `NewSession` | the call to Stripe, whose answer may be lost |
| `Attach` | `AttachPaymentIntent` and the answer with the client secret |
| `RequestFails` | any error return, the client or the backend gone |
| `Pay` | the buyer uses the secret or the URL |
| `IntentSucceeded`, `SessionCompleted` | the webhook, any number of times after the payment |
| `CancelUnpaidOrder` | the seller's transaction |

A handler is a step per call because nothing is locked while it waits for Stripe.
Left out: the amount and its conversion to cents; `POST /orders/{id}/checkout`,
which writes address and method, columns no step reads (and the validator's tag
`"required, max=10000"` makes it panic before that); signatures of events.

### PriceHub

`version` counts the bids that committed; a message is the version its handler
left in the row.  `handler` is a request between its commit and the end of
`Hub.Broadcast <-`; `at`, `message`, `left` are the place and local variables of
`Run`; `clients` is the hub's map; `conn` and `broken` are a connection as its
handler, its reader and the network see it; `wire` and `shown` are what is on its way
and what the screen was last told.  `log` and `last` are history variables: the messages
in the order of `Run`, and how far in them each client is, counted write by write from
where it joined.  `NoGaps` compares the messages themselves: what a phone shows and what
is on its way to it are those of `log`, none skipped, none twice.

| Action | Code |
|---|---|
| `CommitBid`, `Take` | `BidHandler.PlaceBid`: the service call; the send that meets `Run`'s receive |
| `Lock`, `Write`, `Unlock` | `Run`: one write per client, in any order, under the mutex |
| `Connect`, `AddClient` | `HandleConnections`: the upgrade; the map under the mutex |
| `ReadFails`, `RemoveClient` | the reading goroutine's error and deferred cleanup |
| `Receive`, `Break` | the phone (`auction_detail_screen.dart`, `_connectWebSocket`) |

The network holds `Buffer` messages for a phone that does not read; then a write
waits, for the code sets no deadline.

### Chat

`rooms` and `messages` are the tables; `request[h]` is a `SendMessage` handler with
what it found so far; `clients` is `ChatHub.Clients`, one connection per user.
`FindRoom` and `CreateRoom` are the SELECT and the INSERT of
`FindOrCreateConversation`, which no transaction joins: the unique key refuses the
second of two concurrent INSERTs, and that request fails.  `SaveMessage` inserts,
`StartPush` and `WriteJSON` are `SendToUser` under the read lock, `Collide` is the
panic of gorilla/websocket when two of them write to one connection.  `Register`
replaces an entry and leaves the old connection open; `Unregister` deletes the
user's entry whatever it is by now.  Left out: the deletion of an auction, which
takes its conversations along; read-only queries; what a phone does with a message.

### Reviews

`posting[q]` is a `POST /reviews` request between its SELECT and its INSERT, which no
transaction joins.  `CheckReview` is the service's and the repository's check,
`InsertReview` the INSERT with its unique and foreign keys, `Cascade` what the deletion
of an auction takes along.  Every other step is one of `AuctionHouse`.

### Session

`token`, `user` are `AuthProvider`'s; `disk` is SharedPreferences and `channel` the writes
on their way to it.  Dart runs a callback up to its next await, so a write that follows
another is issued when that one's callback runs (`Follow`).  `form`, `sync` and `update`
are the three requests that may be under way: login or register, the silent sync, the
profile.  `screen` says whether a form is up and still waits for the answer: it can be left
by its back button while its request runs, and opened again; the button is off while
`isLoading`, and that is all.  So a second login may be submitted over the session that the
first one brought.  A token is its owner and the time it was issued; a profile is a version.

| Action | Code |
|---|---|
| `HandleRegister`, `HandleLogin`, `HandleGetMe`, `HandleUpdateProfile` | the handlers, with `AuthMiddleware` where it stands before them |
| `OpenLogin`, `Back`, `Submit` | the button of a guest's screen, the back button of the form, its own button |
| `ApplyLogin`, `FormEnds` | `login` and `register` when they are answered, and what the form does if it is still there |
| `PressLogout`, `SyncLogsOut` | `logout`, from the profile screen, also while a login is being saved, and on a 401 |
| `ApplySync`, `SyncFails` | `_syncUserSilently` |
| `SaveProfile`, `ApplyUpdate`, `UpdateFails` | the dialog and `updateProfile` |
| `WriteDisk` | a write reaches the disk, its callback runs |
| `Start`, `Kill` | `tryAutoLogin` behind `AuthWrapper`'s spinner; the process ends at any moment |
| `ChangeElsewhere`, `Tick` | another device; the end of tokens |

Three history variables.  `signedOut`: a logout's removal has reached the disk, and no login
is on its way.  `crossed`: an answer or a write has outlived its session, or an update was
answered while a login was being saved.  `replacing`: on disk a login's token took the place
of another, and its user is not there yet.  Simplified: writes to the disk do not fail and
come in order; the profile dialog has one request at a time, although the system's back can
dismiss it while one runs; logout is not pressed twice before its first removal returns; the
login and the register screen are one form.  Left out: hashing, validation, the role.

### Feed

`feed`, `page`, `hasMore`, `isLoading`, `fetchingMore`, `error` and `filter` are the fields of
`AuctionProvider`; a filter is a category and a search text together, with the auctions
that pass it.  A refresh overtakes whatever is under way, a page only another page
(`_isFetchingMore`), and every answer is applied when it comes.  `steady` is a history
variable: since a refresh that ran alone, requests ran one at a time and the listing stood
still.  Bids, purchases and new auctions refresh the list, and are `Refresh` here.  The
listing starts empty and any other one is reached by `Publish`.  `Keep` is the WHERE of the
query and the app's `removeWhere`: what `SelectSeq` does, stated by rank because the prover
knows nothing of `SelectSeq`; `MCFeed` compares the two.

### Watchlist

`shown[d]` is `_watchlist` on a device; `req[d][s]` a toggle with the fetch behind it, or a
fetch.  `SelectExists` and `Write` are the two statements of `ToggleWatchlist`.  A toggle
whose connection breaks may still be executed: it moves to `late` while the device
already fetches.  `calm[d]` is a history variable: the device's last request began alone,
it has sent no other, no fetch of it was lost, and nobody else wrote since.  A tap is `sure`
when the hearts it changed were those saved.

## 3. Runs

| Run | Bounds | Shows |
|---|---|---|
| `bidding` | 3 users (symmetric), 1 auction, clock 0..4, extension 2, 7 amounts | `TypeOK`, `LeaderHoldsTopBid`, `SecondPrice`, `LockedBidStaysValid`, `NothingGoesBack` |
| `closing` | 2 users, 2 auctions, clock 0..2, 1 fault | `OrderIsBacked`, `PaidNotCancelled`, `ClosedIsFrozen`, `OrderIsFinal`, `KeepsSale`, `ExpiredIsClosed` |
| `payments` | 2 orders, 2 intents, 1 session, 2 devices | `TypeOK`, `PaidIsReconciled`, `SecretAfterAttach`, `AckedIsSettled`, `ChargeSettles`, `KeepsOrderLife` |
| `hub` | 2 handlers, 2 connections, 3 bids, buffer 1 | `TypeOK`, `UpToDate`, `ScreensAgree`, `NoGaps`, `HubServes`, `BrokenIsRemoved` |
| `chat` | 2 users, 2 handlers, 2 connections of one user, 2 messages, buffer 1 | `TypeOK`, `OneRoomPerPair`, `PushedToOther`, `NoDangling`, `ChatServes` |
| `reviews` | 3 users and 2 requests (symmetric), 1 auction, 2 ratings, clock 0..1, 1 fault | `ReviewIsEarned`, `OneReviewEach`, `ReviewsStay` |
| `session` | 2 users (symmetric), tokens that last one tick of one, 2 profile versions, 1 kill | `TypeOK`, `LogoutSticks`, `NoMixedSession`, `SavedIsShown`, `WaitsAreServed` |
| `feed` | 2 auctions, 2 filters, pages of one, 2 requests, lists scrolled up to 3 | `FeedIsListing`, `SpinnerStops` |
| `watchlist` | 2 auctions, 2 devices, 2 requests each, 3 at once (all symmetric) | `HeartsAreSaved`, `TapIsDone` |
| `not_closed_early` | 3 users, 1 auction | the disagreements below |
| `intent_pays_its_order` | 1 order, 2 intents, 1 session, 2 devices | " |
| `online_is_found` | as `chat` | " |

`bidding`: the amounts start just under 100 Kč, where the increment steps from
5 to 10: 94.996 rounds up to the starting price and is rejected, 95.00 meets it,
100.00 and 100.004 tie after rounding and not before, 105, 110 and 120 are one
increment apart or tie; a third user is needed for a rival who lost to a leader
who lost.  Four clock values leave room for a bid inside the extension, its new
end, and a closing after it.

`closing` needs a second auction because the closer's list goes stale while it closes
the first one; symmetry is left out there since it has a liveness property.  The one
fault is either a failed closing or a restart.

`payments`: two intents, so that one can replace the other; a session beside them,
so that an order can be charged both ways; two orders, so that an event could pay the
wrong one; two devices, so that two requests for one order overlap.

`hub`: two handlers are enough to broadcast in the wrong order, and a third bid lets a
third message wait behind two; with a buffer of one the second message already
stalls `Run` at a phone that does not read; two clients show that one of them does
not hurt the other.

`chat`: both users write to each other, so that either may create the room; two
connections of one user replace each other; with two messages both handlers may write
to one connection.

`reviews`: two requests race for the unique key, two ratings make their reviews differ,
and the third user is one who has no business in the order.

`session`: with two users a request of one may be answered in the session of the other, and
one may log in over the other; the one kill comes between any two writes, and the one tick
lets a saved token expire.  `Session` states no fairness: that a spinner ends is stated as
`WaitsAreServed`, by which whoever waits has what he waits for under way.

`feed`: pages of one make every full page possibly the last; the second filter passes
one of the two auctions; two requests overtake each other.  A list may be scrolled past
the two auctions, by a page that arrives twice.

`watchlist`: two requests of one device overlap, the second device writes between the two
statements of the first, and a third request, possibly one that was given up, comes late.

### Fairness

- `closing`: the clock runs; PostgreSQL ends a transaction by commit or rollback;
  the ticker starts pass after pass and the loop goes from id to id.  The closer's
  UPDATE gets strong fairness: it waits in the row's lock queue, first come first
  served, so that bids which keep taking the lock do not starve it.  Nothing is
  assumed of users or of faults.
- `payments`: Stripe repeats an event until it is answered 200.  Nothing is assumed
  of buyers, sellers and handlers.
- `hub` and `chat`: the goroutines run.  A Go channel serves its senders and a Go
  mutex its waiters in turn, and a waiting writer keeps later readers of an RWMutex out:
  strong fairness for whoever may be overtaken.  `HubServes` and `ChatServes` also assume
  that a phone reads what it gets or that its connection breaks.  The code does not
  ensure this: it sets no write deadline, and without the assumption (`FairSpec`
  in place of `ReadingSpec`) one silent phone holds the mutex, and with it every
  joining screen and every bidder of the whole site, for ever.
- `feed`: a request is answered or fails.  That it ends is an assumption: the app sets no
  timeout, and a client that only waits to read gets none from TCP either, so that a backend
  which vanishes silently can leave a spinner on.  What the run shows is that the app's own
  paths end it.  Nobody has to press or scroll anything.

### What the code does and its words do not say

- `NotClosedEarly`: the closer lists an auction, a bid that held the row lock
  commits and moves the end three minutes on, the closer closes it all the same.
- `IntentPaysItsOrder`: a second checkout overwrites the stored intent; when the
  first is paid, its event finds no order and is answered 200.
- `OnlineIsFound`: a phone reconnects before its old connection is noticed to be
  broken; the old one's cleanup deletes the new entry.

Met while modelling, and checked by no run, since no line of the repository says
otherwise or since they are of a kind with those above.

In the backend:
- of two equal maxima the first bidder leads, and `ORDER BY amount DESC LIMIT 1` may give
  the order to the second; the order is for the hidden maximum that `bids.amount` holds,
  not for the price the leader saw;
- the buyer has paid, the event is on its way, the seller cancels for non-payment, and
  nothing refunds the charge; `int64(FinalAmount * 100)` truncates
  (`order_handler.go:110`); the tag `"required, max=10000"` makes `POST checkout` panic;
- two bids commit in one order and are broadcast in the other: screens agree, and keep
  the older price;
- `Delete` refuses an auction with an order only, and deletes bids with the row, though the
  handler's message says that an auction with bids cannot be deleted
  (`auction_handler.go:156`);
- the second of two concurrent first messages fails instead of using the room the other
  made; the second of two concurrent toggles of one heart that both add it answers 500;
- a `PUT /users/me` writes all fields, some as they were when the dialog opened;
- `GetAllActive` and `GetWatchlist` do not look at `rows.Err()`
  (`auction_repository.go:107-125`, `273-285`): a result that a failure of the database cuts
  off is answered 200 as a short page.  `Feed` and `Watchlist` do not model this; after such
  an answer `hasMore` is wrong, and hearts are missing, until the next fetch.

In the app:
- a silent sync answered after a logout shows and saves the old user again, without a
  token; its 401 logs out whoever has logged in since; an answer that was read before an
  update and applied after it shows the older profile (`crossed` and `signedOut` keep
  these apart from what does hold);
- a login over another session, submitted from a form that was left and opened again while
  its request ran, leaves the new token with the old user on disk between its two writes
  (`auth_provider.dart:41`, `42`); after a kill there the app starts with that pair, until
  the next login or sync (`replacing`);
- an update answered while a login is being saved is overwritten on disk by the older data
  of the login;
- a logout that a kill cuts off before its first write is undone at the next start;
- a page that was requested before a refresh is appended to the new list, so that rows
  come twice; an auction that leaves the listing makes the next page skip one; both last
  until the next refresh (`FeedIsListing`);
- a tap on a heart that shows what is no longer saved does the opposite of what it showed,
  and a lost fetch behind a tap leaves a wrong heart; a toggle that was given up may be
  executed after the fetch that was to undo it; two toggles that interleave leave the heart
  of either (`HeartsAreSaved` and `TapIsDone` are about a device that nobody writes beside);
- hearts stay on screen after a logout, until the next user's are fetched;
- `fetchMyAuctions` with `refresh` clears the list and then returns when an older request is
  running; a phone never reconnects its price socket; the web checkout reports success
  after fifteen seconds without a confirmation.

## 4. Proofs

All theorems hold for every value of the constants, under the assumptions that
the modules name and nothing more: null is no user, auction, order, charge or
connection; amounts are positive; intents are not sessions; users are numbers; bounds
are naturals, a page has at least one row and the network holds at least one message; null
is neither a token nor a user's data; a filter that is not set passes every auction.

`AuctionHouse_proofs` proves nine of the eleven properties of the runs `bidding` and
`closing`.  The inductive invariant is `IInv`: `TypeOK`, `ClosingIsBacked`, and for
each auction `Sound`, the conjunction of the invariants above with `SoundRow`.  They
need each other.  The second price needs the leader to hold the top bid, or a new
challenger could be priced against a maximum that is not the highest; both need
that the locked bid still passes its checks when it commits; the order is backed
only because the bid that the closer read is still in the table
(`ClosingIsBacked`), which needs that bids vanish with their auction alone; and a
buyer differs from the seller because no bid is the seller's (`SoundRow`).
`BidOutcome` is the heart: what one bid does to price, leader and maximum,
for all amounts, resting on the lemmas about `ProxyBid` for rounding (monotone, and the
identity on stored amounts) and for the increments (monotone across tiers).
The action properties follow from `IInv` and a case per action.

Its last part shows that `AuctionHouse` implements `Sale` (`AuctionsKeepSale`), with one
case per action that says which step of `Sale` it is, if any.  It rests on `IInv`: the
closer's winner is a bidder of the auction because of `ClosingIsBacked`, and a purchase comes
before any bid because the recorded leader and the bids table agree.  To this it adds
`FreshPass`: what the closer has yet to close in its pass it has not closed before, or an
auction that ended unsold could still be awarded.

`Reviews_proofs` lifts `IInv` to `Reviews` and adds `PostingIsEarned`: what a request has
checked stays true until it inserts.  That is so because an order that is paid or
cancelled is so for good, keeps its buyer, and keeps its auction and thereby its seller.  The
unique key alone gives `OneReviewEach`; `ReviewsStay` needs `ReviewIsEarned`, for a reviewed
auction has an order and cannot be deleted.

`OrderPayment_proofs` proves all properties of `payments` but `ChargeSettles`.  What has
to be added is `IntentsAreOwn`: the intent an order stores, and the one a request is
about to attach, was made for that order, and the latter is nobody else's and not
paid.  Without it an event could pay somebody else's order.  The refinement
(`PaymentsKeepOrderLife`) maps the webhook to `Settle`, `Pay` to `Charge`, the
seller to `Cancel` and all else to a stutter; `Settle` needs that the order which
stores a paid intent is the one it charged, hence `IntentsAreOwn` again.

`PriceHub_proofs` proves the safety properties of `hub`.  `UpToDate` is inductive with
the types (`Run` visits clients only).  `NoGaps` is about the messages and not their number,
and needs it: that the message `Run` writes comes next for a client is so because the client
is one short of the log's end (`UpToDate`) and the message is that end (`LastIsUnderWay`);
`ClientsAreRead` keeps a client from being added twice.  `ScreensAgree` is not inductive: by
`NoGaps` a screen that has read everything shows the entry of the log that `last` counts to,
and by `UpToDate` two clients count to the same.

`Chat_proofs` proves the safety properties of `chat`.  `OneRoomPerPair` follows from
`RoomsAreKeys` (a room is an ordered pair and no two are equal), which holds through
the race of two INSERTs because of the unique key alone.  `PushedToOther` needs
`RequestsAgree`, which carries "between the sender and the receiver" from the room
that was found through the message to the connection that was looked up, and for the last
step `NoDangling`: the entry of a user is a connection of his own.

`Watchlist_proofs` proves both properties of `watchlist` from `Inv`, which follows the only
request of a calm device: until the toggle has written, the screen shows the saved rows with
one heart flipped, and what SELECT EXISTS read is still so; afterwards it shows the rows.
A step of anybody else either changes no row or ends the calm, so that each action needs
one case for its device and one for the others.

`Session_proofs` proves the safety properties of `session`.  None of them is inductive: what a
kill leaves behind is decided by writes that are still on their way.  Always holding
(`Basics`): before the screens are up nothing is under way; an answer carries the data of the
token's owner; at most one write belongs to a login, only that one carries a token, and only
while the login is being saved (`LoginWrites`); once a logout is final, no write on its way
brings a token (`Removed`).  The last is `LogoutSticks`, and rests on `LoginWrites`.  While
nothing has outlived its session, `OneSession` says what the writes will make of the disk.  A
login that is being saved has one write on its way, its token and then its user, or two when
a logout was pressed beside it, in one of four orders (`Saving`).  Otherwise a token is on
disk until its removal is issued, and the last write is that of the user shown (`Settling`);
and if a replaced session was left mixed, the first write that is not a profile's change makes
it whole (`Healing`), which is what ends `replacing`.  `NoMixedSession` is `Pairs`, and
`SavedIsShown` is `Settling` with no write left.  `WaitsAreServed` is inductive with `OneEach`:
no function but logout has two writes on their way, or the first one done would end the wait
for both.

`Feed_proofs` proves `FeedIsListing` and, beyond what the run states, that no auction is in the
list twice (`RowsAreDistinct`).  `FeedIsListing` speaks of moments without a request; what
carries it from one to the next is `Undisturbed`: the request under way is for this page and
this filter, its rows are that page of the listing, and it replaces the list for page one or
continues a list that `Continues`.  `AnswerContinues` is the step that matters: the list up
to `(page - 1) * PageSize`, with the rows of the page, is the list up to its end, which is
`page * PageSize` for a full page and the end of the listing for a short one.  A deletion the
app is told of late leaves such a list alone, because what is closed is in no listing
(`ClosedIsGone`).  `RankIsOnto`, by which an order-preserving count of a finite set of positions
reaches each number, is what makes `Keep` a sequence of what it should keep.

Model-checked only: the liveness properties
`ExpiredIsClosed`, `ChargeSettles`, `HubServes`, `BrokenIsRemoved`, `ChatServes` and
`SpinnerStops`, which are out of the prover's reach; and that the disagreements of
Section 3 do occur.  Every invariant and every action property that a run checks is proved.

## 5. Not modelled, and what is left

Not modelled: widgets and forms (layout; the state is in the providers), routing, JSON,
CORS and the connection pool (no state of the system's own), hashing, signatures and
validation of forms (pure functions of one request), images (written once, read only),
amounts in cents.  Read-only lists of the backend other than those of `Feed`, `Watchlist`
and `Reviews` change no state.

Left, in this order:

1. The chat screen, which clears the messages of the last conversation, keeps its id
   and replaces its list when a late fetch is answered (`chat_provider.dart`), on top of
   `Chat`.
2. The two guarded lists of the activity screen, beside `Feed`; the detail screen, which
   mixes REST answers with socket messages, beside `PriceHub`.
