# NexRead in TLA+

NexRead (`src/nexread-api`) is the back end of a library: a NestJS server over
PostgreSQL, through Prisma. Members borrow physical copies of books, one at a
time or with a cart; administrators catalogue copies, change their status, take
books back, resize and remove books, change roles and deactivate users. Almost
all that is hard in it comes from one fact: every request is a series of
database statements, the connection pool runs many requests at once, and the
checks of a request are often made before the transaction that acts on them.

The modules here model the requests at the grain of those statements, in four
parts, each over the tables its questions are about: the lending desk (`Library`),
accounts and sessions (`Accounts`), the catalogue with its reviews (`Catalogue`), and
the seed scripts on a library in use (`Staging`). TLC
checks small instances; TLAPS proves the central facts for instances of any size and
any number of requests in flight.

## The system

| component | source (below `src/nexread-api/src/`) | state it keeps | operations that change state |
|---|---|---|---|
| Loans | `loans/` | `Loan`, and it writes `BookCopy`, `Book`, `Author.borrowedBooksCount`, `CartItem` | borrow, adminBorrow, checkoutCart, returnLoan (request, return), adminUpdate |
| Book copies | `book-copies/` | `BookCopy`, `BookCopyAuditLog`, the counters of `Book` | create, updateStatus, returnByBarcode |
| Books | `books/` | `Book`, `Author.booksCount`, `BookCopy` | create, update (totalCopies, author), remove |
| Cart | `cart/` | `CartItem` | add, remove, clear |
| Users | `users/` | `User`, `AdminAuditLog` | create, update, updateRole, changePassword, adminRemove |
| Authentication | `auth/` | `User.refreshTokenHash`, `User.tokenVersion` | register, login, refresh, logout |
| Reviews | `reviews/` | `Review`, `Book.rating` | create, update, remove |
| Authors, categories | `authors/`, `categories/` | `Author`, `Category` | create, update, delete or archive |
| Own account | `users/me.controller.ts` | none of its own | update, changePassword, through Users |
| Dashboard, health | `admin/`, `health/` | none | none: the dashboard counts and ranks what the others wrote |
| Seeds | `prisma/seed.ts`, `seed-admin.ts`, `seed-staging-dashboard.ts` (beside `src/`) | none of their own | upserts of authors, categories, books, copies and the administrator; the dashboard fixture |

They share no memory: they interact through rows. Loans read `User` and `Book`,
lock and write `BookCopy`, and write `Book`'s counters, which Book copies and
Books write too. The barcode return calls the loans service. Checkout reads and
empties the cart. A book's removal decides, from loans, reviews and copy audit
rows, between deleting the book and archiving it. A user's removal reads loans and
empties the cart. The guards read the caller's `User` row at the start of every
request.

What makes it hard:

- *checks outside the transaction*: `borrow`, `returnLoan`, `updateStatus`,
  `BooksService.update` and `remove` read, decide, and then start a transaction
  that may find another database;
- *counting and then writing*: `syncBookInventory` counts copies in two statements
  and writes the counts in a third;
- *locks held by some*: an advisory lock orders administrators' operations, but
  loans do not take it; `SKIP LOCKED` orders claims, but a status change by id
  simply waits and overwrites;
- *columns written by id*: a refresh token, a revocation, a new role or rating goes to
  the row with that id, whatever happened to it since it was read;
- *scripts without a transaction*: the base seed commits every statement on its own,
  may be killed between any two of them, and is then run again;
- *roll-backs anywhere*: constraint violations, deadlocks, Prisma's time limit on
  interactive transactions, a server that stops.

What makes each part correct: a copy is never in two hands, a loan and its copy
change together, a returned loan stays returned, `LOANED` ends only by a return,
the counters agree with the copies, history is never deleted, an administrator is
always left, a user is deactivated only without loans, audit rows tell the truth, a
checkout is all or nothing; a refresh presents the one token that its account honours,
and no access token outlives the password it was issued on; a book, author or category that is
referred to stays; an author's counter counts, a rating is the mean of its reviews, a
member reviews a book once; a seed may be killed, repeated and run beside the library
without harm to copies, loans and counters.

## The modules

| module | what it is |
|---|---|
| `Database` | the tables as variables, row types, the slots in which requests run, locks, commit, roll-back, `syncBookInventory` |
| `LoanDesk` | `loans.service.ts`, `prisma-loans.repository.ts`, the barcode return |
| `Inventory` | `book-copies.service.ts`, `books.service.ts`, `prisma-books.repository.ts` |
| `Cart` | `cart.service.ts`, `prisma-cart.repository.ts` |
| `Members` | roles and deactivation in `users.service.ts`, `prisma-users.repository.ts` |
| `Library` | all of these over one database: `Next`, `Spec`, and the properties |
| `Custody` | the abstract specification of the lending desk: who has which copy |
| `MCLibrary` | the small libraries for TLC, and the symmetry of the slots |
| `Accounts` | `auth.service.ts`, `jwt.strategy.ts`, `users.service.ts`, `me.controller.ts`: `User` rows, tokens, sessions; its specification and properties |
| `Rotation` | the abstract specification of refresh tokens: a refresh presents the token its account honours then, and is later given a fresh one for it |
| `CatalogTables` | authors, categories, books and reviews, the slots, the row locks and foreign keys |
| `CatalogDesk` | `authors.service.ts`, `categories.service.ts` and what `books.service.ts` does to author, category and rating |
| `Reviews` | `reviews.service.ts`, `prisma-reviews.repository.ts` |
| `Catalogue` | both over these tables: waiting, deadlock, `Next`, fairness, the properties |
| `SeedTables` | the rows the seeds write, and the library's requests on them, one step each |
| `BaseSeed` | `prisma/seed.ts` with its modules, statement by statement; `seed-admin.ts`; crashes and errors |
| `DashboardFixture` | `prisma/seed-staging-dashboard.ts` |
| `Dashboard` | the ranking of `getDashboard`, over the seeds' tables |
| `Staging` | the scripts and the library together: `Next`, fairness, the properties |
| `MCAccounts`, `MCCatalogue`, `MCStaging` | the instances for TLC |
| `AccountsProofs` | proofs about accounts, tokens and sessions, and of the refinement of `Rotation` |
| `LibraryTypes` | proof of type correctness |
| `LendingProofs` | proofs about the locks |
| `CustodyProofs` | proofs about loans and copies, of the refinement of `Custody`, and of the authors' counters of loans |
| `SerialProofs` | proofs about requests served one at a time: loans, copies, counters, carts, removals |
| `AdminProofs` | proofs about what administrators take away: the advisory lock, the last administrator, audit rows, deleted books without history |
| `CatalogueProofs` | proofs about the catalogue: foreign keys, reviews and ratings, the authors' counters, history |
| `StagingProofs` | proofs about the seeds and the fixture |

### From code to model

A **slot** is one HTTP request in flight. `pc[s]` names the next statement it will
issue, `req[s]` holds what it asked for and what it has read. A request starts with
one of the *calls* (`Borrow`, `AskReturn`, `Resize`, ...): the guard is what the
guards and the service check, and `Begin` moves the slot to its first statement. The
checks of one call are one step: what matters is that they precede the transaction,
and every interleaving with statements after them is kept.

A **transaction** at READ COMMITTED sees the committed rows and its own writes.
Uncommitted writes of copies are in `hold[s]`, of book counters in `pend[s]`; both
are also the row locks (`CopyFree`, `BookFree`). `Sees(s, c)` is what a statement
reads. `Rollback(s)` forgets both, at any point of any request: it stands for an
exception, a constraint violation, a deadlock, the time limit and a crash; what a
guard refuses can only end in it.

| action | code |
|---|---|
| `Borrow`, `AdminBorrow`, `Checkout` | the checks of `LoansService.borrow`, `adminBorrow`, and the reads of `borrowFromCart` |
| `ClaimCopy` | `claimAvailableCopy`, both forms: the lowest free copy with `SKIP LOCKED`, or the requested one |
| `CountTotal`, `CountAvailable` | the two counts of `syncBookInventory`, separate snapshots |
| `LendNext` | the write of the counters and the insert of one loan of a checkout, with more books to come |
| `CommitLoans` | the last counters, the loans, the authors' counters, the emptied cart, the commit |
| `AskReturn`, `RequestReturn` | a member's `returnLoan`: the check, then the update by id |
| `AdminReturn`, `ScanReturn`, `ReturnCopy`, `CommitReturn` | an administrator's `returnLoan`, from the loans page or by barcode: two guarded updates, the counters, the commit |
| `CreateCopy`, `InsertCopy` | `BookCopiesService.create` |
| `UpdateStatus`, `WriteStatus` | `BookCopiesService.updateStatus` |
| `CreateBook` | `PrismaBooksRepository.create` |
| `Resize`, `WriteCopies` | `BooksService.update` with `totalCopies`: the list and the choice, then the write |
| `CommitStock` | the end of the three transactions that write copies |
| `MoveBook`, `WriteMove` | `update` with an `authorId`: the author read in the transaction, then the book and `booksCount` of both authors |
| `RemoveBook`, `ArchiveBook`, `DeleteBook` | `BooksService.remove`, then `deleteOrArchive` |
| `AddToCart`, `InsertItem`, `RemoveItem`, `ClearCart` | `CartService` |
| `ChangeRole`, `LockRole`, `WriteRole` | `updateRole`: the service's checks, the advisory lock and the rechecks, the writes |
| `DeleteUser`, `LockUser`, `WriteDelete` | `adminRemove` and `adminDelete` likewise |

In the other parts a request is written the same way, with locks and uncommitted
writes read off the program counters:

| action | code |
|---|---|
| `Register`, `CreateUser` | `UsersService.create`: the check of the address, then the insert |
| `Login`, `Refresh`, `IssueTokenPair` | the row read and the password or stored hash compared; then tokens signed from that row and the hash written by id |
| `Logout`, `ClearHash`; `UpdateMe`, `WriteEmail`; `ChangePassword`, `ComparePassword`, `WritePassword` | the guard reads the row (`Accepts`), later statements write it by id |
| `ChangeRole`, `UpdateRole`, `DeleteUser`, `AdminDelete` | the checks, then the transaction under the advisory lock as one step (`Members` has it statement by statement) |
| `CreateAuthor`, `TrySlug`, `CreateAuthorAs`, `InsertAuthor` | `AuthorsService.create` with and without an id |
| `RemoveAuthor`, `CountVisible`, `CountBooks`, `DropAuthor` | `AuthorsService.remove`, `deleteOrArchive` |
| `CreateCategory`, `RemoveCategory`, `CountCategory`, `DropCategory` | `CategoriesService` |
| `CreateBook`, `InsertBook`, `CountUp` | `PrismaBooksRepository.create` |
| `UpdateBook`, `ReadBook`, `MoveBook`, `Decrement`, `Increment` | `update` with an author, a category, perhaps a rating |
| `RemoveBook`, `ReadHistory`, `DropBook`, `CountDown` | `deleteOrArchive`, statement by statement (in `Inventory` it is one) |
| `CreateReview`, `InsertReview`, `ChangeReview`, `WriteReview`, `Average`, `Rate` | `ReviewsService`, and `recalculateRating` in two statements |
| `UpsertAuthor` ... `SetCounters`, `SeedAdmin` | the statements of `seed.ts` in order, `seed.pc` and `seed.at` its place |
| `Fails`, `Crash` | an error ends the script; somebody kills it; `StartSeed` runs it again |
| `SeedDashboard` | the whole transaction of `seed-staging-dashboard.ts` |

Abstractions, and why they are sound for the properties:

- `loans[c]` is the sequence of the loans of copy `c`. The code never removes a
  loan, and looks for one by its copy, book or user.
- The last update of the counters, the insert of the loan, the author's increment
  and the commit are one step: the update takes the lock on the book, and nothing
  another transaction can read changes until the commit. In between, the row lock
  on the book is held only in `pend`, by a checkout with more books to come.
- In `returnLoan` the update of the loan and the update of the copy are one step;
  from then to the commit the loan counts as locked (`LoanFree`).
- `DAMAGED` stands for `DAMAGED` and `LOST`, which the code never tells apart;
  `isAvailable` is `availableCopies > 0`, a CHECK constraint.
- `deleteOrArchive` is one step. History is never deleted, and a row that appears
  after it was counted makes the deletion fail on a foreign key, which is `Rollback`.
- A book has the author that `authorOf` says, until `WriteMove`. A loan is counted for the
  author that its request read, and carries that author (`loans[c][i].author`) so that
  `BorrowedBooksCounted` can say so; a move leaves the loans of the book counted where they
  are, as the code does. Authors are not removed in `Library`; a PATCH that changes the author
  and `totalCopies` at once is the two after one another.
- A checkout takes its books in any order; the code takes them by `createdAt`.
- `userAudit` is the latest `AdminAuditLog` row about a user.
- Due dates, texts and shelf codes are left out, and so are loans without a copy from
  before physical copies existed.
- *Accounts.* The two tokens of a pair carry the same claims and are one value, a
  number; each is issued once because its `jti` is random. A token that expires is one
  nobody presents any more. What a token says is what the code puts into it; that it
  also remembers the password it was issued on (`password`, `stored`) only the
  properties see.
- *Catalogue.* All author names have one slug, the worst case: the counter alone tells
  ids apart. An update of a book names its author and category. A rating is the exact
  mean, a pair of numbers. The writes of a transaction reach the tables with its last
  step; that an author's `booksCount` is locked, that a book is deleted or referred to,
  follows from the program counter. `overlapped`, `alone` and `stale` record which
  requests met, for the properties; no guard of the code reads them.
- *Staging.* A request of the library is one step, its transaction. The fixture is one
  step too: it updates its five `Book` rows first and keeps them locked, and a loan, a
  return or a removal under way needs such a row to commit. A rating is only known to be
  the mean of the reviews or not. An administrator types barcodes from `Typed`. Without
  `ADMIN_SEED_EMAIL` the base seed ends before its last statement, as `Crash` has it.
  That a request is one step hides one race: a request that counts copies before a
  statement of a script commits and writes its count afterwards.
  `name[x]` says who has the unique name (and slug) that the seeds write for row `x`: the row
  itself (`own`), nobody, or a row with an id no script knows (`other`), which a POST or PATCH
  of the library makes, takes or gives up (`Rename`). Seeded rows are not given one another's
  names. `SeedDashboard` leaves out the deletion of a category `staging-demo-category`, the
  counters and the rating of the fixture's author, and the rows of its demo users.

## What TLC checks

### The lending desk

A run gives the sets and lists in `Handlers` the endpoints its clients call, so
that each question is asked of the requests it is about. `MaxLoans` bounds the loans
of one copy (guard of `ClaimCopy`), `MaxSize` the size an administrator asks for and
`Targets` the statuses (`StockRace` leaves `ARCHIVED` to its resizes and removals, `Serial` leaves `DAMAGED` to `StockRace`
and lends each copy once, `DeskRace` twice);
`Copies` bounds the copies a book can ever have. Two slots are enough for every race
in the list of hazards: each is between two requests. Slots are interchangeable, and
no liveness is checked here, so their symmetry is sound.

**However requests interleave** (two slots):

| run | library | shows |
|---|---|---|
| `DeskRace` | one copy, lent twice; a member and two administrators, who demote and delete each other meanwhile | `OneUnreturnedLoanPerCopy`, the desk implements `Custody`, `SomeActiveAdmin`, `UserAuditTrue` |
| `StockRace` | a book with one copy and room for a second; loans and barcode returns beside status changes, resizing, removal | `TypeOK`, `LocksHeld`, `LoanedCopyHasLoan`, `LoanClosesWithItsCopy` |
| `CartRace` | two books of two authors, one not created yet; carts and checkouts beside creation, removal and changes of author | `HistoryKept`, `BorrowedBooksCounted` |

One copy is where the requests of `DeskRace` meet; that a claim skips a copy another
transaction has locked, and takes the next, is in `StockRace`.

**One request at a time** (one slot; a roll-back may still come at any statement):

| run | library | shows |
|---|---|---|
| `Serial` | a book with one copy and room for a second, a book with one copy that is not created yet; a member and an administrator | `CopyMatchesLoans`, `CountersMatchCopies`, `ReturnedIsFinal`, `LoanedEndsByReturn`, `DeactivatedCartEmpty`, `CheckoutLendsCart` |

The second group is what the code ensures when requests do not overlap. It is worth
checking, since one handler that forgets a table breaks it, and it is the yardstick
for the races: with two slots the code keeps only the first group. Each of its properties
crosses operations: a loan and the removal of the book, a checkout and a deactivation. What
would only repeat the check of one request (a book on loan is not removed, a member in debt
is not deactivated) is not asserted of one slot.
Three properties of the second group, and one of deactivation, are also what a document of
the repository says without qualification; for each a run finds two requests that break it:

| run | property | what happens | where it is said |
|---|---|---|---|
| `CountersLost` | `CountersMatchCopies` | two loans of a book; the one that counted first writes last, and `availableCopies` stays one too high | `docs/database-queries.md:14` |
| `LoanReopened` | `ReturnedIsFinal` | a member's return request is checked, an administrator returns the loan, the request is written: `RETURN_REQUESTED` again | `loans/dto/admin-loan.dto.ts:50` |
| `LoanedOverwritten` | `LoanedEndsByReturn` | a status change is checked, the copy is lent, the status is written: the copy leaves `LOANED` with its loan open, and the loan can then not be returned | `book-copies/dto/update-book-copy-status.dto.ts:19` |
| `DeactivatedInDebt` | `DeactivatedOwesNothing` | the user's loans are counted, the user borrows, the user is deactivated | `README.md:46` |

The removal of a book counts its loans before its transaction in the same way
(`docs/database-queries.md:16` says that active loans are rejected), and so does the removal of
an author count visible books (`:19` there). The actions have both races; they have no run of
their own. `LoanedEndsByReturn` is what the first of them breaks too: the copy that is lent
meanwhile is archived.

In the passing runs the clients may come to have nothing left to ask, because the bounds use up all
loans, the last book is removed, or the last member is deactivated; so these say
`CHECK_DEADLOCK FALSE`. A request in progress can always be rolled back.

### Accounts

`Accounts` has an administrator, an id and an address a registration may take, two
passwords, two pairs of tokens, two versions above the first and two slots.

- `AcceptedIsCurrent`: an access token the guard accepts was issued on the password the
  account has now. It rests on `tokenVersion` growing in the statement that writes it.
- `SessionIsCurrent`: the same of the refresh token, and of the role, *unless* the row
  changed between the read of a sign-in and the storing of its token. The exception is
  real: a sign-in that has compared the old password stores its token after a password
  change has revoked the one before, and that session goes on.
- `RotationSpec`: the accounts implement `Rotation`. There a refresh presents a token, and it
  must be the one its account honours at that moment, not one replaced or revoked before;
  later it is given a token never issued before. What happens to the account between the two
  is left open, because `auth.service.ts` leaves it open.
- `TypeOK`, with the uniqueness of addresses, which two early checks do not ensure and
  the index does.

Two pairs are a token that is replaced and the one that replaces it, or what two racing
sign-ins issue; the bounds use up tokens and versions, so the run says
`CHECK_DEADLOCK FALSE`.

What is left open is what the documents exclude. `auth.controller.ts:111` refuses a refresh
token that is "invalid, expired, revoked, or already used", and `README.md:314` says that a
previously used token is rejected and that a sign-out revokes the stored one. Run `StaleRefresh`
checks that as `RefreshesHonoured`, the token a pair is given for is the one the account honours
when the pair is stored, and finds a refresh that compares its token, a logout that clears the
hash, and the refresh storing a new hash over it (`auth.service.ts:108` writes by id). Two
refreshes of one token that both compare before either writes break it as well: both are answered.

### The catalogue

`Catalogue` has two slots, three requests, two books of two authors and one category, a
third author and a second category that may come to exist, two members and two ratings.
`MCEntries` holds what administrators write into a book: every author, the other
category, and a rating by hand. One of the books has been borrowed, so that its removal
archives it and the other's deletes it. Three requests are two that overlap and one
before or after them, which each of the mutants below needs.

- `TypeOK` includes the foreign keys: counts made before a removal may be stale, the
  keys must not be.
- `BooksCounted`: `booksCount` is the number of an author's visible books, which is what
  the statistics of `GET /admin/authors/statistics` show beside it (`AuthorStatistic`), as long as no
  book is edited by two requests at once. When it is, two moves of one book do count one
  author down twice, which the code leaves open.
- `RatingSettles`: a review that meets no other of its book leaves the rating right, also
  after reviews that overlapped or a rating written by hand (`stale`).
- `OneReviewEach`, `HistoryOutlivesBook`: two reviews of one member at once; a review
  inserted after the history of its book was read.
- `RequestsEnd`: every request is answered, though two moves may lock two authors
  crosswise and two creations chase one free slug.

**Fairness.** `Catalogue!FairSpec` has weak fairness, per slot, of its next statement, of
the answer to a statement that a check or a constraint refuses (`Refused`), and of the
abort of a transaction in a cycle of waiting ones (`Aborted`): Node and PostgreSQL keep
working on every request, PostgreSQL detects deadlocks, and a lock is given up when its
holder ends. Nothing is assumed of clients. Slots are not permuted in this run.

### The seeds

`Staging` has two base books, each of an author and a category of its own, and the five
of the fixture, whose ids sort last as they do in the source. The base seed may be
killed once (`MaxCrashes`), between any two statements; one crash per book is what the
statements from the count of its copies to the counters can suffer, and a second one on
the same book meets the same states. Two requests of the library (`MaxChanges`) on one
base book and one of the fixture, of any kind, are enough to make and take away the
row a later statement relies on.

- `StockCounted`: a book's counters agree with its copies, if no request changed it
  between the count of its copies and the update of the counters. A killed seed may
  leave a book with copies and counters unset; they agree because the copies are as many
  as the counters already say.
- `FixtureLoansMatch`: a copy is `LOANED` exactly while it has an open loan.
- `FixtureAsDocumented`: every run of the fixture leaves the numbers of
  `docs/staging-dashboard-fixtures.md`, and a ranking of at least five borrowed books.
- `FixtureReviews`: every visible book has three reviews of demo members, not all alike;
  others' reviews stay.
- `StockArrives`: the base books come to have copies, again and again, though a barcode
  that the seed was about to use may be typed by an administrator and end a run; *unless* a row
  with another id keeps the name of a seeded author or category from some time on. The upserts
  are by id, `Author.name`, `Category.name` and `Category.slug` are unique, and every run then
  fails before the first book. `Claimed` has an author, a category and the fixture's author
  whose names may be taken.

**Fairness.** `Staging!FairSpec` has weak fairness of the script (a process that is not
killed goes on or ends with an error) and of starting it: the operator runs the seed
again after it failed, as `README.md` describes. That is an assumption about a person;
without it nothing would make the stock arrive. `StockArrives` holds because crashes
and requests are bounded, that is, because they do not go on for ever at the worst moment.

The other runs state no fairness: in them no liveness is checked.

## What is proved

### The lending desk

For every set of users, books, copies and slots, and whatever the bounds, from
`RowAssumption` (administrators are users and there is one; copies are positive
numbers; every copy has a book and every book an author), `BoundAssumption` and
`TargetAssumption` (users,
books and copies are finitely many, the bounds are natural numbers; `Targets` holds
statuses):

| theorem | module | says |
|---|---|---|
| `TypeCorrect` | `LibraryTypes` | `Spec => []TypeOK` |
| `LocksProtect` | `LendingProofs` | `Spec => []LocksHeld` |
| `LentOnce` | `CustodyProofs` | `Spec => []OneUnreturnedLoanPerCopy` |
| `LoanedAccounted` | `CustodyProofs` | `Spec => []LoanedCopyHasLoan` |
| `LoansCloseWithTheirCopies` | `CustodyProofs` | `Spec => LoanClosesWithItsCopy` |
| `DeskImplementsCustody` | `CustodyProofs` | `Spec => CustodySpec` |
| `BorrowedBooksAreCounted` | `CustodyProofs` | `Spec => []BorrowedBooksCounted` |
| `AnAdminStays` | `AdminProofs` | `Spec => []SomeActiveAdmin` |
| `AuditRowsTrue` | `AdminProofs` | `Spec => UserAuditTrue` |
| `HistoryStays` | `AdminProofs` | `Spec => []HistoryKept` |
| `CopiesMatchLoans` | `SerialProofs` | `OneAtATime /\ Spec => []CopyMatchesLoans` |
| `CountersAgree` | `SerialProofs` | `OneAtATime /\ Spec => []CountersMatchCopies` |
| `DeactivatedCartsEmpty` | `SerialProofs` | `OneAtATime /\ Spec => []DeactivatedCartEmpty` |
| `ReturnedStaysReturned` | `SerialProofs` | `OneAtATime /\ Spec => ReturnedIsFinal` |
| `LoanedEndsOnlyByReturn` | `SerialProofs` | `OneAtATime /\ Spec => LoanedEndsByReturn` |
| `CheckoutsLendCarts` | `SerialProofs` | `OneAtATime /\ Spec => CheckoutLendsCart` |

The argument is a tower of inductive invariants, one per module.

1. `Typed` is `TypeOK` and `RequestOK`: which operation may be at which statement, and
   which fields of its request are then given. `TypeOK` alone is not inductive: a step
   that writes the row `req[s].copy` needs that a copy was given.
2. `Locking` adds `LocksHeld`, and that no two transactions hold one row (`RowLocksExclusive`,
   which is PostgreSQL's doing and no result of its own). `LocksHeld` is what makes two slots
   tractable: what a transaction read of a copy before writing it (a claimed copy
   was on the shelf, a copy being returned was `LOANED`) is still true of the committed
   row, because whoever commits a change of a copy holds its lock.
3. `Lent` adds `OneUnreturnedLoanPerCopy` and `LoanedCopyHasLoan`. A loan is inserted
   only for claimed copies, which are `LOANED` afterwards; a return closes the one open
   loan of a copy that is `LOANED` and makes it `AVAILABLE`; every other commit leaves
   loans alone and, because no status but a loan's writes `LOANED`, makes no copy
   `LOANED`.
4. The refinement maps `holder[c]` to the user of the open loan of a `LOANED` copy and
   to nobody otherwise. A commit of loans is `Lend`, one step for a whole checkout; a
   return, a status change, an archive or a removal is `Release`; everything else,
   the reopening of a loan included, is a stutter.

5. `Accounts` (beside `Locking`, on `Typed`) adds that at most one transaction holds the
   advisory lock, and `Checked`: what it read under the lock, the role it will put in the
   audit row and that another administrator is active, is still true when it writes,
   because only a holder of the lock changes roles or deactivates users.
6. `Kept` (on `Locking`) adds that a deleted book has no copy left and that no transaction
   has written a copy of one. Without it, a loan or a status change that began before the
   deletion could commit after it.
7. `Tallied` (on `Lent`) adds `BorrowedBooksCounted`, and `LoanRoom`: a transaction that
   claims a copy does so while the copy's list of loans is not at its bound. A commit of
   loans adds one loan to every copy it claimed, credited to the author the request read
   (`Credited`), and increments each author's counter by the number of copies so credited; the
   new loans of an author and those copies are the same number by a bijection. The increment is `+ 1` on the committed row, so that no
   increment is lost: this holds for any number of slots. `LoanRoom` is what makes the loans
   finitely many, and rests on the bound `MaxLoans`, not on the code.
8. `Serial` (on `Lent`) is for requests *served one at a time*: `OneAtATime` says that
   `Slots` has at most one member, so that a request may still be slow, fail or be rolled
   back after any statement, but meets no other. What the findings show to be false of two
   requests is then proved of any library. `Tidy` is what holds of the tables: copies match
   loans, counters match copies, the carts of deactivated users are empty, a book not yet
   catalogued has no copies. `Served(s)` is what holds of the request under way:
   - `StillTrue`: what the service or the transaction read is still what the tables hold;
   - `CartTaken`: of every book of the cart it has left behind, a checkout has claimed a copy;
   - `WrittenCopies`: the copies it has written are of the book whose counters it is
     counting or has written; an administrator's request has written none that is lent;
   - `CountsTrue`: what `syncBookInventory` has counted is still what the transaction sees,
     and so are the counters of the books it has finished with.

   Between requests `Served` is void and `Tidy` says it all; `CountersMatchCopies` follows
   at a commit from `WrittenCopies` and `CountsTrue`, because the counters of every book with
   a written copy are among the written ones. TLC checked `Serial`, and `LoanRoom`, as
   invariants of one-slot instances before they were proved.

The proof of each step has one named step per action or group of actions that share
their effect. With these, every property of the lending desk's passing runs is proved.

### Accounts

From `AccountAssumption` and `AccountBoundAssumption` (ids and tokens are positive
numbers, there is an administrator at the start, addresses are distinct), for any number
of accounts, addresses, tokens and slots:

| theorem | module | says |
|---|---|---|
| `AccountsTyped` | `AccountsProofs` | `Spec => []TypeOK` |
| `AcceptedStayCurrent` | `AccountsProofs` | `Spec => []AcceptedIsCurrent` |
| `SessionsStayCurrent` | `AccountsProofs` | `Spec => []SessionIsCurrent` |
| `TokensRotate` | `AccountsProofs` | `Spec => RotationSpec` |

The inductive invariant `IInv` adds to `TypeOK` what a request has read: the row in
`seen` has a version no greater than the account's, and *at the same version the same
password and role* (`Lags`); the same of the claims of every pair of tokens; and every
stored hash is that of a pair issued to this account. A change of password or role
raises the version, so whatever was read before is behind from then on; a sign-in that
was overtaken issues claims that are behind, which the guard refuses.

### The catalogue

From `CatalogAssumption` and `CatalogBoundAssumption` (the books, authors, categories and
ratings to begin with; ids are positive numbers; the sets are finite), for any number of
authors, categories, books, members and slots:

| theorem | module | says |
|---|---|---|
| `CatalogueTyped` | `CatalogueProofs` | `Spec => []TypeOK`, the foreign keys |
| `OneReview` | `CatalogueProofs` | `Spec => []OneReviewEach` |
| `RatingsSettle` | `CatalogueProofs` | `Spec => []RatingSettles` |
| `BooksAreCounted` | `CatalogueProofs` | `Spec => []BooksCounted` |
| `HistoryOutlives` | `CatalogueProofs` | `Spec => HistoryOutlivesBook` |

The foreign keys are not inductive by themselves: that a row may be written with the author
it names says nothing unless that author stays until the commit. `IInv` is the conjunction of

- `Typed`: `TypeOK`, and what a request at each of its statements has been given and read;
- `Locking`: what the locks in the program counters stand for. While a book is being written,
  the rows it will refer to stay (`Referred`); an inserted book is not yet there, a book to be
  deleted has no history (`Pending`); no two transactions write one row, and none deletes what
  another one's row refers to (`Exclusive`);
- `Reviewed1`: a review has one owner, one book and one id, those under way included;
- `Alone`, `MeanKnown`: a request on a book's reviews that met no other saw exactly the reviews
  that are still there, and the mean it read is still theirs, which is why the rating it
  leaves is right (`RatingSettles`);
- `Counting`: each author's counter is the number of his visible books, corrected by what the
  transactions that are between the book's row and the author's have counted already and what
  they have not (`Crossing`), as long as no book was edited by two requests at once.

TLC checked `IInv` as an invariant of the instance of run `Catalogue` before it was proved, and
showed there that a book's removal must be known to find the book until its last statement:
without that conjunct of `Pending` the archive could not be shown to count down once.

### The seeds

From `SeedAssumption` (the seeds' data has rows of each kind; no author's id is a category's; the fixture's books are not the
base seed's, have the fixture's author and seeded categories; 0 is no book) and
`SeedBoundAssumption` (bounds are numbers, the demo users are not among those who
registered), for any catalogue, any number of crashes and of requests of the library:

| theorem | module | says |
|---|---|---|
| `StagingTyped` | `StagingProofs` | `Spec => []TypeOK`, the foreign keys |
| `FixtureLoansAgree` | `StagingProofs` | `Spec => []FixtureLoansMatch` |
| `StockIsCounted` | `StagingProofs` | `Spec => []StockCounted` |
| `FixtureRefreshes` | `StagingProofs` | `Spec => FixtureAsDocumented` |
| `ReviewsRefreshed` | `StagingProofs` | `Spec => FixtureReviews` |

`IInv` is the conjunction of

- `Rows`: `TypeOK`, and that the base seed is at a row of its data (`SeedAt`). A loan keeps its
  copy because a book without history has no loan that its deletion could orphan, and because
  the fixture replaces the loans of its books with their copies;
- `LoansMatch`: a LOANED copy has an open loan, an open loan is of a LOANED copy, and no two are
  of one copy. The fixture's 7 LOANED copies are the copies of its 7 open loans, and the loans it
  keeps are of copies that it leaves;
- `Sown`: `StockCounted` is not inductive, because the update of a counter writes what the script
  read three statements before. A base book without copies still has the counters of its creation
  (`Fresh`), so that the seed creates one copy; what the seed remembers of the book it is at
  (`Remembered`) stays true, unless a request comes in between the count and the update,
  which is what `raced` says.

TLC checked `IInv` as an invariant of the instance of run `Staging` before it was proved.
The fixture's numbers are counted from its pattern (`Pattern`: a product of sets
less some of its rows) and from injections of books into loans; that five titles fill the
ranking is a fact about any finite set with at least five borrowed members (`TopFive`).
Nothing bounds the catalogue in these proofs: a visible book is reviewed whatever its place
among the others.

### What is only model-checked

Liveness and `ENABLED` are out of the prover's reach, so `RequestsEnd` and `StockArrives`
are TLC's. Every other property of a passing run is proved.

## Not modelled

- *The rankings and statistics* but for the dashboard and the authors' book counts: they read
  only. Each of the fourteen counts of a dashboard sees a snapshot of its own, so two of them may
  disagree about loans made in between, and nothing in the code or its documents bounds how far:
  nothing is said of them. `Dashboard` has the ranking, one statement, which the fixture is to fill.
- *Due dates* and the overdue listings: nothing but a listing reads them. `adminUpdate`
  saves a date and returns the loan in two transactions; the return is modelled.
- *PATCH of names, phones and pictures*: payload that no guard reads, but for the names of
  authors and categories, which are unique (`Rename` in `Staging`). The catalogue's queries and rankings, uploads and their files.
- *In the seeds*: the counters that `authors.data.ts` writes, which are not counts of
  anything; the demo users' own rows; the checks of the environment. `seed-admin.ts:9`
  says of the other seeds that they fail when run again; they are upserts, and `Staging`
  runs them again.
- Whatever keeps no state of the library: validation, status codes, health probes,
  configuration, rate limits, delivery; and the migrations of existing data, executed
  once while no server runs, whose constraints are part of the tables.

Known and left unasserted, because nothing in the repository says otherwise: two moves of one book at once
count one author down twice; a moved book's loans stay in the `borrowedBooksCount` of the author
it had; the item added to a cart during its checkout is dropped; a
fixture's `totalCopies` counts archived copies, other counters do not; a seeded
administrator's old access tokens stay valid, and one who was deactivated stays so.

## Plan

1. *Done*: the lending desk with its runs and proofs; accounts and sessions with theirs;
   the catalogue and the seeds with their runs.
2. *Done*: proofs about the catalogue.
3. *Done*: proofs about the lending desk, for any number of requests and for one at a time.
4. *Done*: proofs about the seeds and the fixture.
5. *Done*: books that change their author beside loans; the token that a refresh presents; names
   that stop a seed.
6. *Open*: requests of the library statement by statement beside the seeds, which a run of two
   books does not leave room for.

## Running

    tlc -config DeskRace.cfg MCLibrary
    tlapm LibraryTypes.tla
    tlapm LendingProofs.tla
    tlapm CustodyProofs.tla
    tlapm SerialProofs.tla
    tlapm AdminProofs.tla
    tlapm AccountsProofs.tla
    tlapm CatalogueProofs.tla
    tlapm StagingProofs.tla
    tlc -config Accounts.cfg MCAccounts
    tlc -config Catalogue.cfg MCCatalogue
    tlc -config Staging.cfg MCStaging

With two workers `DeskRace` (1.9 million states), `Serial` (1.8 million), `Catalogue` (340,000, with
liveness) and `Staging` (320,000, with liveness) take about a minute and a half each, `StockRace`
(840,000) and `CartRace` (640,000) less than one, `Accounts` (135,000) and the runs that end with a
counterexample seconds.
`CatalogueProofs` is checked in about two minutes, `SerialProofs` and `StagingProofs` in about one
each, the other proof modules in less.
