# WebMail in TLA+

WebMail hands out *card keys* to salespeople.  A buyer who receives a card
authorizes a mailbox for it, an administrator reviews the buyer, and the supplier
the buyer is assigned to reads that mailbox and reports *Failed* or *Completed*.
The program is an ASP.NET Core Razor Pages application over SQLite (EF Core).

This directory models the core of it, checks the models with TLC on small
instances, and proves invariants with TLAPS for all instances.  Paths below are
relative to the application, `src/WebMail/`, unless they start with `docs/` or
`tests/`.

## 1. Inventory

| Component | State | Operations | Talks to |
|---|---|---|---|
| Card keys (`Services/CardKeyService.cs`) | rows of `Buyers` | generate, send, delete | administrator's page |
| Buyer pages (`Pages/Buyer/*`) | same rows, `EmailAccounts` | verify, change email, clear authorization | rules |
| OAuth (`Pages/OAuth/*`, `CookieOAuthStateStore`) | state cookie, `EmailAccounts`, the row | start, callback | provider, rules, review |
| Review (`Services/BuyerReviewService.cs`, `Pages/Admin/Buyers`) | row, `BuyerSupplierAssignments` | approve, reject, auto-assign, assign by hand, set status, delete | users |
| Sales and supplier pages (`Pages/Sales`, `Pages/Supplier`) | the row | delete; set status | rules |
| Rules (`Services/BuyerRuleService.cs`) | none | pure predicates of a row | |
| Mail cache (`Services/MailCacheService.cs`) | entries per buyer with two ages, in memory | get-or-fetch, touch, degraded answer, mark abnormal | provider, row |
| Poll page (`Pages/Supplier/Mail`) | in-flight flag in the browser | poll, forced refresh | mail cache |
| Shipments (`Services/ShipmentService.cs`) | image files, `Shipments` rows | create, delete | numbers |
| Shipment numbers (`Services/SnowflakeIdGenerator.cs`) | last millisecond, sequence | next | clock |
| Users and login (`Services/UserAdminService.cs`, `Services/Auth/IdentitySeeder.cs`, `Pages/Login`) | `Users` rows, auth cookie | seed, create, reset, (de)activate, log in | |
| Client-side validation (`wwwroot/lib/jquery-validation*`) | in the page: validator and parsed rules of a form, marks, messages | parse, validate, reset, destroy | the user, scripts |
| Mail providers (`Services/EmailProviders/*`) | none | HTTP to Google and Microsoft | |
| Views, localization, routing, wiring, audit log | none that is read back | | |

**What makes it hard.**  Every page loads a row into a `DbContext` of its own,
decides on it, and saves.  Rows carry no concurrency token, and a save writes
only the columns whose value the request changed.  So decisions are taken on
rows that may be old by the time they are saved, and two saves *merge* instead of
one winning.  The callback keeps its row across a call to the provider that takes
seconds; the poll reads the row after one.  Inserts can fail on unique indexes,
updates and deletes on rows that another request removed, and then the whole
save fails.  On top of that a row goes through many cycles (bind, review, fail,
re-bind, clear), in which four handlers have to set the same columns.

Elsewhere two stores have to agree without a transaction (shipment rows and image
files), a clock that the machine may set back numbers the shipments and tells the age of
cached messages and of an authorization, the OAuth flow
keeps its state in one cookie that overlapping tabs share, users' names are lowered by two
different functions, and the form validation keeps marks in the page over
validators that come and go.

**What correctness means, per component.**

* *Life cycle:* mailbox and `EmailStatus` agree; a reset row carries nothing
  over; a buyer under processing keeps its mailbox; an approval covers the mailbox
  it was given for; dates are written once.
* *Requests:* what survives every overlap; a save is whole or not at all; requests that do not overlap behave
  as the life cycle says; every request ends.
* *Review:* auto-assignment never replaces an assignment; an approved buyer is
  assigned while there is one supplier.
* *Mail cache:* an answer that carries no warning is recent, and of a mailbox the
  buyer has or had until recently; reading never replaces messages; a failure
  shows the last result, but for the two exceptions that section 3 names.
* *Shipments:* a picture is shown whole, once, and goes for good; a file without a
  row, or a row without its file, has a cause that can be named.
* *Numbers:* strictly increasing while the process lives; who waits inside the lock gets one.
* *OAuth state:* what a callback completes is what its browser began, in time, and
  once its answer arrived only once; a rejection has a cause the buyer knows.
* *Users:* administration is atomic; two users differ only in case for a named
  cause; an owner of name and password is let in, nobody else is; the
  administrator stands.
* *Client-side validation:* the gate at submit, the marks and the messages say
  what the attributes ask.

## 2. Modules

| Module | Models | Depends on |
|---|---|---|
| `BuyerRules` | one row of `Buyers`, `BuyerRuleService`, and what each handler makes of a row (`After...`) | |
| `BuyerLifecycle` | every writing handler as one action: the system one request at a time | `BuyerRules` |
| `BuyerRequests` | the same handlers as concurrent requests with reads, awaits and column-wise saves; implements `BuyerLifecycle` | `BuyerLifecycle` |
| `Overlaps` | `BuyerRequests`, and for each request whether another one has changed something it has in hand (history `touched`) | `BuyerRequests` |
| `MailCache` | overlapping polls of one buyer's cached messages, the clock, the mailbox under it | |
| `Numbering` | abstract: what numbers promise | |
| `Snowflake` | `SnowflakeIdGenerator` with its clock, clamp, sequence, lock and spin | |
| `ShipmentAlbum` | abstract: what the shipments of a buyer promise to who looks at them | |
| `Shipments` | `CreateAsync`, `DeleteAsync`, files and rows, failures, crashes; implements `Numbering` and `ShipmentAlbum` | `Snowflake` |
| `OAuthState` | `Start`, `CookieOAuthStateStore` and the beginning of `Callback`, with browsers, cookies, answers under way | |
| `Accounts` | abstract: user administration, one call at a time | |
| `Users` | `UserAdminService`, seeding and `Login` as overlapping calls; implements `Accounts` | `Accounts` |
| `Adapters` | how `data-val-*` attributes become rules, and what the rules say of a value | |
| `Unobtrusive` | parsing, the validator, its marks and messages, submit and reset | `Adapters` |
| `MC...` | what TLC needs beside a `.cfg`: symmetry sets, clocks, names, attributes | the module they are named after |
| `BuyerLifecycleProofs` | the inductive invariant of `BuyerLifecycle` and the theorems | `BuyerLifecycle`, TLAPS |
| `BuyerRequestsProofs` | the same for `BuyerRequests` | `BuyerRequests`, TLAPS |
| `IsolationProofs` | requests that never meet on a card implement `BuyerLifecycle`; of those that do, saves whose cards were left alone are serial | `BuyerRequestsProofs`, `BuyerLifecycleProofs`, `Overlaps` |
| `MailCacheProofs` | the same for `MailCache` | `MailCache`, TLAPS |
| `ShipmentsProofs`, `OAuthStateProofs`, `UsersProofs`, `UnobtrusiveProofs` | the same for their modules, with the refinements of `Shipments` and `Users` | TLAPS |

### From code to model

*Rows.*  `row[b]` is the row of the card number `b` in `Buyers`; `cards` are the
numbers that have one.  `account[b]` is the mailbox (provider and address,
compared ignoring case as the callback does; in `BuyerRequests` a pair of the two, as they
are two columns) of its `EmailAccounts` row and
`assignment[b]` the supplier of its `BuyerSupplierAssignments` row, `None` when
there is no such row (each table has a unique index on `BuyerId`).  `active` is
the set of suppliers with `IsActive`.  In `BuyerRequests`, `token[b]` is the
mailbox that the stored refresh token opens.  A row outside `cards` is the blank
of an entity not inserted yet.

*Actions.*  In `BuyerLifecycle` an action is a handler: its guard is the query's
filter, the early returns and the rule it asks; its primed variables are what is
saved.  Handlers that find nothing to change (an unknown card, a refused action, a
list) leave the state alone and are stuttering.  `Review` and `Callback`
contain the auto-assignment that `ApplyReviewAsync` performs.

*Requests.*  In `BuyerRequests` a request is a record: the read or await it waits
for (`phase`), the row it keeps (`loaded`, only the callback needs it), and its
unit of work: per buyer the columns to write (`Changes`, `Same` for a column
whose value is the one that was read), rows to insert, and a statement on the
account and on the assignment row.  A callback that finds an account updates the
columns that differ (`Binding`: the provider, the address, both, or the token alone), so
that two callbacks may mix.  `SaveChanges` applies all of it in one step;
`SaveFails` drops all of it when `CanSave` is false.  A deletion marks the
statements that other requests have pending on the deleted row as `lost`:
AUTOINCREMENT ids are not used twice, so the statement finds no row even if
the buyer has a new one by then, and EF Core fails the save.  `Abort` ends a
request at any moment: the client goes away, the provider does not answer, the
process stops; all that a request has in memory is its unit of work.

*Split points.*  A handler is split where the result depends on it: the
callback at its call to the provider and at the reads of auto-assignment,
`ChangeEmail` and `ClearAuth` between the row and the account, `AssignSupplier`
between the supplier and the existing assignment, the poll at its fetch.  A read
that finds nothing to do ends the request at once.  `SetActiveAsync` is one step
here: `Users`, which has its read and its save apart, shows that it takes effect at one
of the two (`Administered`).

*Polls.*  In `MailCache` a call of `GetOrFetchAsync` is `poll[p]`: its `phase`, the
time it took at its beginning (`start`; everything is judged and stamped with that
one), the entry it found and the messages it fetched.  Each call of the
dictionary is an action, and so is each await.  A list of messages is whose it is,
the instant at which the account row was read to fetch it (`asOf`; what the
provider lists is younger), and whether it is empty, which is all the service asks of
it.  `TryUpdate` compares the entry found with the one in the cache, the list by
reference: `intact` says that no other poll has stored a list since.  `leftAt` is
history, for a property.  The mailbox changes under the polls by `Rebind`, which
stands for the callback, `ChangeEmail` and `ClearAuth`.  Entries of different
buyers never meet, so the module has one buyer.  After a refusal the poll writes the
buyer's row (`FetchRefused` of `BuyerRequests`): when that succeeds it goes on like any
failed fetch (`FetchFails`), and when it throws nothing catches it (`MarkThrows`).
`SetBack` sets the machine's clock back, as much as `MaxBack` allows; `back` is what it was
set back so far, `Elapsed` the time that really passed, and both are history.

*Shipments.*  `rows` is the table, `files` the storage directory, `request[r]` what a call
of the service still has to do with which file.  `CreateAsync` is `BeginCreate` (the
file is opened), `Uploaded` or `UploadBreaks` (the copy, which is outside of the
`try`), `DrawNumber` (`NextId`), `Save` or `SaveFails` followed by `Undo`, or by
`UndoFails` when the storage refuses; `DeleteAsync` is `BeginDelete`, `Unlink`, and `Remove`
or `RemoveFails`, or ends with `UnlinkFails`.  `Crash` drops
the requests and the generator's memory.  In `Snowflake`, `NextId` is one step, as it runs
under a lock, but for a millisecond whose sequence is exhausted: then the caller
becomes the `spinner`, nobody else draws, and `Spin` is the last turn of the loop.
`ClockJumps` sets the clock to anything.  A number is its three fields packed by
sums, which is what the shifts and ors do while the sequence stays within its bits
(`ShipmentsTypeOK`).  `named`, `strays` and `torn` are history.

*OAuth state.*  Each browser has one cookie slot, `cookie[b]`.  `Start` is the
handler (it draws the nonce and seals), and `StartArrives` the browser's receipt of the
redirect with the cookie: until then, and if it never comes, the slot is as it
was.  A callback is a record `visit[v]`: `Send` takes the cookie the browser
sends at that moment, `NotUsed`, `Invalid` and `Consumed` are the handler's ways through its
early returns and `Consume`, and `AnswerArrives` applies the deletion of the cookie, by
name.  Seal and cookie have ends of their own: the seal's is an instant of the server's clock,
counted from `Start`, which `SetBack` may set back; the cookie's is counted by the browser from the
arrival (`Elapsed`).  `flow` keeps what each `Start` knew, and `disturbed` (of a flow whose
cookie has arrived), `answered`, `late`, `again` and `over` are history.  What an accepted callback does next is `Callback` of the
buyer modules.

*Users.*  `user[n]` is the row of the exact name `n` (unique index; no code renames or
removes a user).  A call is `called`, then at its `save`, then `done` with its answer, so
that each await of `UserAdminService` lies between two actions; the save writes
the columns that changed.  `Lower` is .NET's `ToLower` and `LowerSql` SQLite's `lower()`, both
constants.  `Restart` is a later start: `EnsureAdminSeededAsync` before the first request.
`seen`, `saw` and `owners` are history.

*Form validation.*  `rules` and `asked` are what `parseElement` collected, `validator` is
the object that jQuery Validate keeps on the form, with the copy of the rules it
was made with.  `container[f]` is the element `data-valmsg-for`: its class and the
labels in it.  Events and calls run to their end, so each is one action with
all handlers it runs.  A value is its length, which is all that `required` and
`length` look at.  `verdict`, `enabled` (the attributes of the last parse), `promised` (those from which
the validator in place was made) and `outcome` are history.

*Left out of the state.*  Columns that nothing modelled reads (`CreatedAt`,
`ProviderUserId`), the audit log (rows are appended in the same save and never
read), texts shown to the user, and who is logged in: an action takes the
salesperson or supplier it runs for from the set of them.

## 3. Runs

Sizes are distinct states; times are with two workers.

| Run | Instance | Shows |
|---|---|---|
| `Requests` | 1 card, 1 provider with 2 addresses, 1 supplier, 1 salesperson, 1 instant, 2 requests of 12 handlers; 852,000, two minutes | what no interleaving breaks, and that a save whose cards were left alone is serial |
| `Assignment` | 1 card, 1 mailbox, 2 suppliers, 2 requests of 6 handlers; 282,000, two minutes | auto-assignment never overrides; every request ends |
| `OneAtATime` | 1 card, 2 providers with 2 addresses each, 2 of everything else, 1 request of all handlers; 366,000, a minute | all invariants and action properties of the life cycle, and that requests that do not overlap implement `BuyerLifecycle` |
| `MailCache` | 2 polls, 1 mailbox, time to live 1, idle age 2, clock to 2, set back by 1; 3,200,000, a minute and a half | answers without a warning are recent; only fetches replace messages |
| `Shipments` | 2 requests, 3 files, clock of 2 milliseconds, sequence of 1 bit, 1 crash; 267,000 | files and rows, the album and the numbering are implemented, spins end |
| `OAuthState` | 2 browsers, 2 cards, 2 flows, 2 callbacks at a time, clock to 2, set back by 1, lifetime 1; 2,700,000, a minute and a half | what is accepted, how often, and why one is rejected |
| `Unobtrusive` | 2 fields, 2 sets of attributes, values of 0 and 1; 580,000 | gate, marks, messages, reset |
| `Users` | 2 calls, the administrator and two spellings of one name of which SQLite lowers none, 2 passwords; 334,000 | the administration is atomic; twins, logins and the administrator |

The others check one statement of a document or a comment each, and find it broken:

| Run | Instance | Statement, and what breaks it |
|---|---|---|
| `Rebound` | serial | a new mailbox starts the supplier's part over; a callback that replaces one does not |
| `CallbackReview` | 2 requests | an approval is of one mailbox; a callback swaps it |
| `MailTimeout` | as `MailCache`, clock not set back | a failed fetch shows the last messages; one that times out does not |
| `Reparsed` | as `Unobtrusive` | parsing enables validation; not over a validator that is there |

**Why these bounds are enough to be interesting.**  Handlers act on one card;
only `Generate` and `Send` take several, and they treat each card by itself (the
theorems are for any set of cards).  Two mailboxes let one replace the other, two instants
tell a date that was kept from one written again, two suppliers tell "exactly one
active" from one and from none.  Two requests are what a lost update needs: each
saves once, and between the two any number of complete requests run, since a slot
is used again when it is idle.  One card is enough where requests overlap, because
overlaps on different cards do not meet (theorems `OverlapsStay` and `Isolation`
below, for any number of cards): whatever an overlap breaks, two
requests on one card break.  `Requests` has two mailboxes of one provider, so that a callback may bind, refresh or
replace, and one instant and one salesperson, so a date or a salesperson written twice shows only in
`OneAtATime` and in the proofs (`Untouched` has any number of either); `Assignment` and
`CallbackReview` have what matters to them.  `Handlers` restricts which pages are in
use, so that a run is about its question: `Requests` has all but `AssignSupplier`
and `SetActive`, which `Assignment` has; `OneAtATime` has all.
`Handlers` and the constants are the only bounds of the buyer modules.  In
`MailCache` the clock is capped by `MaxTime`: with a time to live of 1 and an idle age of 2, two ticks
make an entry fresh, then old, then expired while a slow fetch is still under way, the step back
(`MaxBack`) makes an old one look fresh, and two polls are one that is slow and one that overtakes it;
one mailbox is bound, given up and bound again.  `MailTimeout` has the longer clock and no step back.  In `Shipments` (`MaxBoots` bounds the crashes) a sequence of one bit is exhausted by the
second number of a millisecond, and two milliseconds let the clock stand, pass and be
set back; a third file lets a deletion overlap a creation after one has failed.
A spin begins only where the clock's set still has a later millisecond (`TimeGoesOn`):
a real clock always has.  In `OAuthState` (`MaxTime` bounds the clock) two flows of two browsers are
two tabs, or two buyers, or one who opens the address elsewhere; with a lifetime of 1 the seal, which
ages from `Start`, and the cookie, which ages from the arrival, end at different times, in either order
once the clock was set back (by 1, `MaxBack`); the supply
of nonces bounds the starts.  In `Unobtrusive` one set of attributes gives a lone rule that lets an empty value
pass, the other two rules; one field's container takes messages and the other's
does not.  Values of two lengths (`MaxLength` is 1) are on either side of each bound.  In `Users` two calls are the overlap, and names that SQLite does
not lower make both ways of lowering differ.  The proof modules have none of these bounds.

**Symmetry.**  The actions never order or name mailboxes, suppliers, salespeople,
instants or request slots, and `CHOOSE` is applied only to a one-element set.
The same holds of browsers, cards, providers, nonces and callbacks in `OAuthState`.  Runs with a temporal property
that is not a plain action property (`OneAtATime`, `Assignment`, `Shipments`, `Users`)
are without symmetry.

**Deadlock** is checked for `MailCache`, `Shipments`, `Users` and `Unobtrusive`.  It is not for the
buyer modules (once every card number is drawn and every row deleted nothing
is left to do) nor for `OAuthState` (once the clock is at its bound, the nonces
are used up and the cards deleted).

**Fairness.**  `RequestsEnd` in run `Assignment` needs weak fairness of `Proceed` (a request
that runs is scheduled again: nothing in these handlers waits for another request
except SQLite's own write lock, which each save releases) and of
`ProviderReturns` (a call to a provider ends with an answer or with the timeout
of its `HttpClient`, which throws and ends the request).  `SpinEnds` in run
`Shipments` needs that the clock shows a later millisecond again and again (weak
fairness of `ClockCatchesUp`), and strong fairness of the spinning caller's
`DrawNumber`: the loop only sees the clock at the instants at which the scheduler runs it,
and a clock that is set back between them would otherwise be missed every time.

**Violations.**  TLC's trace is the scenario of each; `PROJECT.json` quotes the statement.
`Rebound` needs one request at a time only: the callback replaces a mailbox without
starting the supplier's part over.  `CallbackReview` is the race of the program: no row has a
concurrency token, so each handler asks its rule of the row it read, and saves over the row as it is by
then.  The same race has other outcomes, at other lines, which `PROJECT.json` lists as hazards: a
ClearAuth or a salesperson's deletion saved over an approval, two opposite reviews, two sends of a card,
two first uses, a status of the cycle before, a mailbox marked abnormal that was cleared, the token of one
mailbox beside the address of another.  They are not a run each.  `UntouchedIsSerial` says what they
have in common, and holds: a save departs from what its handler does alone only when another save has
changed a card of it since the request took that card in hand.  A check at the save, that the rows the
request has in hand are as it found them, would therefore remove them all.
In `MailTimeout` a `catch` meant for a client that left also takes the timeout of the provider's
`HttpClient`.  A refused poll that cannot mark its buyer (`MarkThrows`) ends without
the last messages as well, because it throws inside another `catch`.  In `Reparsed` `validate` keeps the validator
that is there, with its own rules; `HeldIffAsked`, which holds, is about forms that are not parsed again
with other attributes.
Two more departures are stated exactly by properties that hold.  The query that finds a
name free compares ignoring case, while the index that decides does not, so two
users may have one name: `TwinsOverlap` says that this takes two overlapping creations.  The stored
name is lowered by SQLite, which leaves letters outside of ASCII alone, and compared with
one lowered by .NET: `OwnerSignsIn` says who can sign in.

What holds under every overlap, touched or not, is weaker, and shows what the code may rely
on: `UsedBeforeReview`, `StockIsFresh`, `FactsAreKept`, `RemovalIsWhole`, `AutoAssignNeverOverrides`
and `ApprovedIsAssigned`.  A removal whose account is gone finds no row, and its columns go with it
(`RemovalIsWhole`).  The last two hold because of the unique index on
`BuyerSupplierAssignments.BuyerId`: an auto-assignment inserts, so it fails, and
with it the approval, if somebody assigned first.

## 4. Proofs

`BuyerLifecycleProofs` proves, from `NullIsNoValue` and `NullIsNoId` alone (NULL
is no id, date or mailbox) and for any sets of cards, mailboxes, suppliers,
salespeople and instants:

* `CardsInvariance`: `Spec => []CardsOK`, and from it `CardsTyped`,
  `MailboxStatusAgree`, `FreshCycle`, `ClearedWasApproved`, `AutoApproved`,
  which run `OneAtATime` checks on requests (but for the type, which `Requests` checks), and
  `StageHistory` (`HistoryMatchesStage`);
* `LockedMailbox`, `ApprovalMailbox`, `CardHistory`: its three action properties;
* `Unreset`: the state that `PendingIsUnprocessed` forbids (run `Rebound`) is entered in one
  way, by a callback that binds another mailbox to a card that is not auto-approved.

*Argument.*  A handler touches one row and its mailbox (`Generate` and `Send`
several, each on its own), so the inductive invariant is a predicate of one row and its
mailbox, `RowOK`, held for every buyer, with the type and "a card without a row has
no mailbox" (`CardOK`).  None of its conjuncts is inductive alone: a rejection keeps
`AutoApproveIsSticky` because an auto-approved card with a mailbox is not Pending,
and no Pending card is submitted without a mailbox; a refused poll keeps
`MailboxMatchesStatus` because only a bound mailbox is Authorized.  `Moves(b, y, a)` lists what
handlers may make of card `b`: row `y` and mailbox `a`.  `NextMoves` shows that no action does anything
else to any card, `MoveOK` that a move preserves `RowOK` (by one lemma per transform of
`BuyerRules`, under its handler's guard), `MoveKept` that it keeps what the action properties
promise (`BuyerKept`).

`BuyerRequestsProofs` proves, from the same and `SameIsNoValue`, for any handlers in use and any
number of overlapping requests: `Invariance` (`SpecRequests => []IInv`), `TypeCorrect`,
`Used`, `Stock`, `Facts`, `WholeRemoval`, `Overrides` and `Assigned`: every property of the runs `Requests`
and `Assignment` but `UntouchedIsSerial` (see below) and termination.  Of termination it proves the part that is not fairness,
`Advances`: each step of a request's own lowers `StepsLeft`, which is at most four, and nothing another
request does moves it.

*Argument.*  None of these properties is inductive: a save applies columns computed
from a row read arbitrarily long ago.  What saves the row is that its
*facts* (sent, used, deleted, out of stock) are never undone.  `Kept(x, y)` says that
row `y` has every fact of row `x`; `GoodChange(ch, x)` says what a pending change may
be while its row is `x`, and is stable when `x` gains facts (`ChangesGood`);
merging a good change into a good row gives a good row that kept its facts
(`MergeGood`).  `Shape(r)` is what a request holds by itself, `Grounded(r)` what it holds of the rows as
they are now.  There is one lemma per handler and per read that continues it.  `Overrides` needs
`Shape` (only `AssignSupplier` updates or deletes an assignment) and `CanSave` (an insert needs
a free `BuyerId`); `Assigned` has an invariant of its own, `AssignedOK`: a request that is going to
approve still has its auto-assignment ahead of it, or has it among its
statements, or the buyer is assigned already.

`IsolationProofs` says what overlapping is harmless.  `CardsOf(r)` are the cards that request `r`
reads, writes or inserts; `ApartOn(b)` says that no two requests under way have card `b` in common, and
`Apart` that no two have any.  From the same assumptions, for any number of cards and of overlapping
requests, it proves

* `OverlapsStay`: if `b` stays apart, what is proved of a card in `BuyerLifecycle` (`RowOK`,
  `BuyerKept`) holds of `b`, and its token opens its mailbox, even while
  requests collide on every other card;
* `CardsApart`, `StepsApart`, `TokensApart`: if all cards stay apart, the invariants and action
  properties of the life cycle and `TokenOpensMailbox` hold of overlapping requests;
* `Isolation`: if also `SuppliersStand`, they implement `BuyerLifecycle`;
* `Serial` and `TokenOpens`: both for requests of which no two overlap (`OneSlot`), without further
  hypotheses, which is what run `OneAtATime` checks (`TokenOpensMailbox` is proved only);
* `Untouched` (`UntouchedIsSerial`): without any hypothesis on the environment, a save whose cards
  no other request has changed since it took them in hand is an action of `BuyerLifecycle`, and keeps
  the token with its mailbox.

The hypotheses of the others are about the environment: which requests run when.  The program does not enforce
them (no row has a concurrency token), and the hazards in `PROJECT.json` are what happens when `Apart`
fails; `Untouched` says what that takes.  They are easily met: a buyer, a salesperson and an administrator who work on different cards
at the same time keep cards apart.  `SuppliersStand` says that no supplier is switched on or off between
the look that a request takes at the suppliers and its save; without it `Isolation` is false, and TLC shows
how with two requests: `AssignSupplier` finds the supplier active, an administrator disables
it, and the save assigns a supplier that is not active, which the serial handler never does.

*Argument.*  While nobody else writes the cards of a request, what it has read is
still so.  `Plan(r)` says what request `r` goes on to do to the rows *as they are now*, by what
it waits for; `Merge(x, Changes(x, y)) = y` (`MergeChanges`) turns its pending columns back
into the row that the handler computed.  One lemma per handler shows the plan with which a request
begins, one per read how it goes on; `SaveIsNext` shows, per kind of plan, that the save is an
action of `BuyerLifecycle`, and `PlanOfCards` that a plan depends on nothing but its request's own cards
and `active`, so that it survives what others save (`SaveSpares`).  `OverlapsStay` needs less and gets by
with less: `CardPlan(r, b)` is the part of the plan about one card, which depends on that card alone
(`CardPlanStands`), and the save is one of the card's `Moves` (`CardSaves`), so that `MoveOK` and
`MoveKept` apply again.  `Untouched` keeps the plan of each request that is not
`touched` (`UntouchedSteps`): a step that changes neither its cards nor its suppliers leaves it (`UntouchedStands`),
also when the step is a save of the same card (`SaveSparesUntouched`: what deletes a row that a request has a statement on
changes a card of that request).  That the token opens the mailbox rests on one part of the plan: a callback that
writes the token columns alone found its own mailbox bound.

`MailCacheProofs` proves, from `AgesAreIntegers` and `NoneIsNoMailbox` alone, for any
number of polls and any ages:

* `Invariance`: `Spec => []IInv`, and from it `TypeCorrect` and `Recent`
  (`FreshAnswer`), whatever the clock was set back;
* `Replacement` (`OnlyFetchesReplace`).

*Argument.*  `FreshAnswer` is about answers only, and says nothing of what a poll
will find or store later.  What is inductive is `Honest(v, stamp)`: the messages
were read at their stamp or later, and their mailbox was the buyer's at that time.
It holds of the entry in the cache, of what each poll fetched and of the entry each
poll found; a hit adds that the entry's stamp is within the time to live of its
poll's start.  `OnePollStep` lifts the change of one poll to the invariant, and
`HonestForEver` carries it over ticks, changes of mailbox and a clock set back: a stamp
is an instant of the clock, which never runs ahead of the time that elapsed, and when a poll looks at
the cache its own instant is behind by `back` at most.

`ShipmentsProofs` proves, for any number of requests and crashes, any clock and any widths of
the number's fields: `TypeCorrect`, `NoOrphans`, `NoBrokenPictures`, and two step refinements,
`Numbers` (to `Numbering`) and `Album` (to `ShipmentAlbum`).  *Argument.*  A creation in progress has its file
to itself (`CreationsApart`), what a deletion removed is gone (`RemovedIsGone`), and every name in
use was given (`NamesCover`).  Numbers grow as the pair of millisecond and sequence does;
the arithmetic of packing is in `NumberGrows` and the lemmas before it.

`OAuthStateProofs` proves `TypeCorrect`, `OwnFlow`, `Once` and `Cause`.  *Argument.*
A cookie, and what a callback carries, tells the truth about the flow whose nonce it
holds (`OfFlow`); it never holds a nonce already answered as accepted; and
the browser of an undisturbed flow still has its cookie.

`UsersProofs` proves `TypeCorrect`, `Twins`, `OwnersSignIn`, `Administrator` and
the refinement `Atomic`, from `LowerIsLower` (lowering by .NET undoes what SQLite's lowering
changes, and is idempotent) and `AdminIsGiven`.  *Argument.*  A call that waits for its save still stands on the
ground on which its check let it pass (`CallsHold`), because rows are never
removed and keep their role.

`UnobtrusiveProofs` proves `RulesExact` (the rules of a field refuse exactly the values that break
its attributes) and from it, for any fields, attributes and lengths, `TypeCorrect`,
`Marks`, `Messages`, `Handlers`, `Gate` and `Resets`.  *Argument.*  A validator's rules are those made from the
attributes noted when it was attached, and a judged field is either broken or, thanks to the rule
that always holds, ok.

*Only model-checked:* the two liveness properties (`RequestsEnd`, `SpinEnds`), which are out of
the prover's reach: they rest on fairness and thus on ENABLED.  Every invariant, action property and
refinement of the passing runs is a theorem.  That `SuppliersStand` cannot be dropped, and that each
violation exists, are facts about single behaviours, which TLC finds.

## 5. Plan

Done, in this order: `BuyerRules`, `BuyerLifecycle`, `BuyerRequests` and the first
proofs; `MailCache`; `Shipments` with `Snowflake`; `OAuthState`; `Users`; the form
validation; the proofs about any number of requests, about requests that do not
meet on a card, and about saves of requests that do (`Overlaps`).  What is left:

1. the adapters of the form validation that compare two fields (`equalto`) or ask the
   server (`remote`), with answers out of order;
2. the login cookie, if the application ever checks it against the table;
3. which pairs of handlers on *one* card are harmless even if one saves under the other, where `Untouched`
   speaks of saves that nothing was changed under.

## 6. Not modelled

* Wire formats of the providers (JSON, MIME, HTTP), texts, cultures, styles and
  views, redirects, password hashing, encryption of tokens, schema creation at start,
  the audit log: one request's pure functions, data that nothing reads back, or not this
  program's code.
* The login cookie (it slides for 14 days and is checked by the framework alone) and who may
  call what: an action takes the user it runs for from the set of them.
* Of the form validation: the adapters `regex`, `equalto`, `remote`, `password`, `range` and those for file
  types; rules given by HTML attributes or `data-rule-*`; other elements than text
  inputs.  No page of the application renders the partial view that loads these scripts
  today; the module is about the library as it is shipped.  One thing the model shows
  and no property forbids: the labels of a reset form stay in their containers
  (without the mark).
* `site.js` holds comments only; jQuery and Bootstrap are used as given.
* SQLite's `lower()` is assumed to lower ASCII letters only, as in its default build.
