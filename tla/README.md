# Salon booking backend: a TLA+ model

The program (`src/`) is the booking backend of a salon's voice agent: an Express
server over one Firestore database. Callers ask for open times, book, cancel and
move appointments; staff block times and reset the demo data. This directory
models the parts of it that are hard to test, checks them with TLC on small
salons and proves the central results with TLAPS for salons of any size.

## The system

| Component | State | Operations | Talks to |
|---|---|---|---|
| Slot engine (`availability.service.ts`, `lib/time.ts`) | none | grid of starts, overlap, hours of a stylist, slot check | called by bookings and availability |
| Bookings (`booking.service.ts`) | `bookings` collection | create (transaction), find, cancel, reschedule (plain updates) | slot engine, catalogue, `blocks` |
| Admin (`admin.service.ts`) | `blocks` collection | add a block, list bookings and messages | bookings read its blocks |
| Availability search | none | open slots of a span, a counter-offer when there are none | slot engine, `bookings`, `blocks` |
| Idempotency (`middleware/idempotency.ts`) | `idempotencyKeys` collection | look up, expire, store, replay | in front of every public POST |
| Read endpoints and cache (`read.controller.ts`, `lib/cache.ts`) | in-memory map per server | get, fill, expire, invalidate | catalogue, admin reset |
| Seeding and boot (`db/seed.ts`, `index.ts`) | writes every collection | first boot, reset | all |
| Messages, confirmations | `messages` collection, mail | store a message, send a mail | bookings, mail provider |
| Date resolution (`dateResolve.service.ts`, `lib/dateparse.ts`) | none | phrase to date, text to date and time | called by handlers and schemas |
| Spoken texts (`lib/spoken.ts`, `company.service.ts`) | none | numbers, durations, times, hours to words | called by handlers |

A request is a chain of awaits on one Node event loop; several servers may run
over one database. Between two awaits of a handler every other handler may run,
so a handler's decisions are about documents it read some steps ago. Database
calls fail, a write may be durable although its caller sees an error, and the
client (a phone call that drops) retries. What each component has to get right:

- bookings: no stylist twice at a time, none over a block, what is confirmed
  stays, cancelled is final, a refusal leaves nothing behind (but for a create whose
  commit was not acknowledged, see below);
- slot engine: an offered slot is one that is accepted;
- idempotency: a retry does not repeat the effect, a replay is the truth;
- cache: what is read is not older than its lifetime, nor half of it from before a reset;
- seeding: a crash or two boots leave a salon that works;
- readers and confirmations: what one hears is what those before were told, what
  is reported as sent was sent, and a mail that fails is not an error;
- dates and words: a value survives being said and heard.

`PROJECT.json` lists the hazards, each at its line, with the properties about it.

## The modules

**SlotEngine** is the arithmetic. A date is a day number, an instant a number of
ticks since day 0, local midnight; `Hour` is a constant. `LocalToUtc` keeps what
matters of the conversion: it fails (`Invalid`, a null string and then NaN) for a
time luxon does not parse, although the request schema let it through, and
`Before` is false whenever a side is `Invalid`, as comparisons with NaN are.
`SlotsForStylistDate` is what the engine offers, `SlotVerdict` is
`assertSlotIsValid`, `ContextVerdict` is `resolveContext`. `isOpen` of opening
hours says that both times are there.

**BookingService** is the state machine. A request is a process; `pc` is the await
it is at. Between them:

| Action | Code |
|---|---|
| `Arrive` | route, validation, controller; the call is any of the enumerated ones |
| `ResolveContext` | company, service and stylists read and checked |
| `LoadBookings`, `LoadBlocks` | the two queries of `loadConfirmed`, issued at once, answered in either order |
| `AssertSlotIsValid` | the slot check on what was loaded, alternatives on a clash |
| `RunTransaction` | one attempt of the transaction of `createBooking`: read again, write or refuse; a lost acknowledgement answers 500 or has the library run it again (`RunAgain`) |
| `RequireBooking`, `CheckCancellationWindow` | first half of cancel and reschedule |
| `UpdateCancelled`, `ResolveMove`, `UpdateMoved` | the plain updates |
| `AddBlock` | `addBlock` |
| `StoreFails` | the awaited call fails without effect, answer 500 |
| `Tick` | the clock |

Every write may lose its acknowledgement (`AnswerWritten`): effect and 500.
The catalogue (company, services, stylists) is constant: no modelled endpoint
writes it, so the reads of it between the same two awaits are one step. An attempt
of a transaction is atomic, as Firestore promises, but `db.runTransaction` runs the
callback again when a commit fails with a code it retries, up to five times in all.
If that commit was durable and only its acknowledgement was lost, the second run
finds the request's own booking, which the query leaves in, and answers 409
`SLOT_TAKEN` while the booking stands; or, if somebody cancelled or moved the booking
in between, it writes it anew. `RunAgain` counts among the failing calls, so
`MaxFailures` bounds the runs; the proofs hold for any bound. A run that fails
without effect and is repeated changes nothing, and is left out. The seeding's and the
middleware's calls are no transactions. `placedBy` and `prior` are history
variables: who gave a booking its slot, and who had been answered when a request
arrived. `by` of a block names its writer.

**BookingLedger** is what the endpoints promise, without how: a book of appointments
in which every request acts at one moment, when it is answered. A create takes a
slot nobody holds (`Enter`); a move only one that nobody held since before it was
asked; being refused changes nothing. One request may act before it is answered: a
create that nobody acknowledges (`PlaceUnheard`) and that tries again, to be answered
well, refused or failed. It has no phases, clock, snapshots or blocks.
`ImplementsLedger` in BookingProperties says that BookingService
implements it: `ledger` is `bookings`, `answer` the code of a reply once it is out.

**BookingProperties** states what must hold. **MCBookingService** is the salon for
TLC: two active stylists with their own hours and one who left, services of one
and two hours, one not bookable by phone, one without a length, a day the
business is closed and one stylist is not, a seeded block.

**FindAndConfirm** puts those who read the book beside those who write it: a caller
who asks for her appointments, one who wants a mail, the salon's list. `ReadersNext`
is a step of the booking endpoints or one of:

| Action | Code |
|---|---|
| `Come` | route, validation, controller; any of the enumerated questions |
| `Query` | the query of `findBookings` or `listBookingsAdmin` |
| `FilterRows`, `Present` | `findBookings` before and after it reads the names: reference and time, then the hours left and the flag |
| `SortList` | the filters and the sort of `listBookingsAdmin`, which throws on a missing start |
| `Lookup`, `Render` | the booking, then its service and stylist and the text of the mail |
| `Send` | one turn of the loop over the channels: no address, taken, taken but the answer lost, not taken |
| `SaveResult` | the idempotency record and the 202 |
| `ReadFails` | an awaited call fails, answer 500 |

`since` and `heard` are history variables: who had been answered when a reader came,
and which readers had been answered when a request arrived; `mails` is what the
provider took. Owner, reference and address of a booking are constants, and two
bookings may have one reference. **MCFindAndConfirm** gives TLC two seeded bookings,
one that begins as the clock starts and one at the edge of the window.

**SpokenText** and **CallerText** are the conversions, as pure operators. A phrase is
the sequence of its number words (`numberToWords[14]` is `<<14>>`, of 2150
`<<2, 1000, 1, 100, 50>>`) and the few phrases around them; a text of a caller is the
sequence of its items, each a clock time, a written date, a yyyy-mm-dd date or an ISO
datetime. Beside each conversion stands a listener, defined without it:
`HearNumber` adds what follows, multiplies by hundred and thousand what is not yet
multiplied and by lakh all that was said; `HearTime` gives the times a clock and a
period of the day allow, `HearHours` a day's hours. **Texts** is the requests that convert, one
action each; **MCTexts** gives them their inputs.

**AvailabilitySearch** is `getAvailability` on top of BookingService: one search, in
the steps between its awaits, beside any requests. `SearchNext` is a step of the
booking endpoints or one of:

| Action | Code |
|---|---|
| `Begin` | route, validation, controller; any of the enumerated queries |
| `SearchContext` | `resolveContext`, without or with a stylist |
| `SearchBookings`, `SearchBlocks` | the two queries of `fetchBookingsAndBlocks`, answered in either order |
| `ComputeSlots` | the rest: span, `computeSlots`, limit, counter-offer |
| `SearchFails` | an awaited read fails, answer 500 |

The sorted list of the code is a set of slots here, no two of which start
together: `Deduped` keeps the stylist listed first, `First` cuts it. `standing`,
`stood`, `begun` and `undisturbed` are history variables. **MCAvailabilitySearch**
gives TLC the queries and closes the salon for a fortnight.

**Idempotency** is the middleware in front of the five public POSTs that take an
`Idempotency-Key`. Every HTTP attempt is a process that runs on one of the
`Servers`; a retry is another attempt with the same key. One document per
endpoint and key holds who saved it and when.

| Action | Code |
|---|---|
| `Arrive` | route and validation; without a key straight to the handler |
| `LookUp` | `ref.get()` and what follows up to the next await: replay, fall through, or expire |
| `Expire` | `ref.delete()`, whatever the document holds by then |
| `MiddlewareFails` | one of these two calls fails: an unhandled rejection ends the server (`Dies`) |
| `HandlerActs`, `HandlerRefuses`, `HandlerFails` | the controller: an effect (its acknowledgement may be lost, a create may be run again), an `ApiError`, another error |
| `Save` | `saveIdempotent` up to its await: `createdAt` is read off the clock (`stamp`) |
| `WriteRecord`, `SaveFails` | `ref.set`, maybe later, with or without an acknowledgement |
| `Respond` | the response |
| `Crash`, `Tick` | a server ends by itself, and is started again; an hour passes |

The handler is one step here because BookingService says what it does from
inside: `RefusalLeavesNoTrace` is why a refusal needs no effect, unless it is of a
create that was run again, which has acted before. One thing is kept
of the bookings, that a slot taken is refused to the next create (`Taken`); it is
what makes a retried create fail on its own booking. `prior`, `lookedAt` and
`firstSaved` are history variables. What a record says is whose result it is.
**MCIdempotency** gives TLC its attempts, servers and keys.

**Seeding** is `seedSalon`, whoever starts it, over one database and several
servers. A run of it is a process (`w`); a document is its collection, its entry in
`db/seed.ts` and whose it is: services and stylists have fixed ids, so the next seed
writes the same documents, bookings and blocks have fresh ones, so it writes others.

| Action | Code |
|---|---|
| `Boot`, `BootUnseeded` | a server starts, with or without `SEED_ON_START=false` |
| `IsSeeded` | the look for the company, and what `main` does with the answer |
| `PostAdminSeed`, `NpmRunSeed` | a reset, in a server or in a shell |
| `List` | the query of one `deleteWhereCompany`: its deletes start |
| `Operate` | one of the deletes and writes under way is performed |
| `Advance` | all calls of a `Promise.all` are done: the next stage starts |
| `CheckFails`, `ListFails`, `OperationFails` | a call is rejected, with or without effect: a boot and the script end their process, a reset answers 500 while the calls started with the failed one go on |
| `Crash` | a server dies with all it was doing |
| `ClientStores` | a message, a booking or a block of the other endpoints |

`met`, `latest` and `before` are history variables: who was at work together, who
began last and what was there then. **MCSeeding** gives TLC two things to seed
beside the company: one with a fixed id and one with a fresh one.

**ReadCache** puts the three cached reads on top of it. A read is a process on one
server, `cache` the map each server has of its own.

| Action | Code |
|---|---|
| `Get` | `cacheGet`: a hit is answered, an old entry dropped |
| `RequireCompany`, `QueryServices`, `QueryStylists` | the awaited reads, the two of a listing in either order |
| `Fill` | `cacheSet` and the response |
| `QueryFails` | an awaited read fails, answer 500 |
| `SeedingBeside` | a step of Seeding; `cacheInvalidateCompany` where a reset ends, nothing left of the cache and the reads of a server that dies |
| `ClientBeside` | a step of another endpoint; adding a block drops the entries |
| `Tick` | the clock |

Of an answer the model keeps which services and stylists are in it and which of
each other they name. `hadCompany`, `cleared` and `mixedAt` are history variables:
what a read found when it came, which servers have had a reset to themselves, and
when the data was last not whole. **MCReadCache** gives TLC a service, its stylist
and two queries, one that joins both collections and one that reads a single one; `GET /stylists`
makes the same two reads as `GET /services` and is covered by the proofs.

## The runs

Time is in quarter hours, the grid every half hour. Requests are sent at most
once each, so states without successors exist and deadlock is not checked.

| Run | Shows |
|---|---|
| BookingRace | three requests (create, cancel, reschedule, block) around the same starts, one failing call: a double booking needs a reschedule and a race, nothing is booked over an earlier block, counter-offers were open; refusals leave nothing but what a second run of a transaction meets of itself; a confirmation lasts until a cancel; nothing un-cancels and only a move changes a slot, once the create was answered; the endpoints implement the book |
| Validation | two requests with every kind of service, stylist, day and start, the clock moving in the first morning: what is accepted can be served |
| Readers | a reader beside two requests, each of any kind, one failing call, a mail provider that may refuse, the clock moving into the window: readers find what those before them were told, the flag agrees with the refusal of a cancel, mails are what is reported, only a malformed start breaks a reader; all are answered |
| Search | one search of thirteen kinds beside two requests that book, move, cancel and block: offers hold in a quiet salon and were open in a busy one, the list has no holes, the counter-offer is the first start |
| Replay | three attempts on two servers, keys for one slot and for two endpoints, a failing call, a crash, expiry: a client that was served is not acted upon again while its key lives, what is replayed happened, and a record that has not expired goes only in a race that began before its author was answered |
| Reseed | two seedings of any kind on two servers, over an empty database or an earlier seed, one failing call, one crash: appointments of two seeds mix only if both were at work together; a seed that was alone leaves exactly its data |
| Reads | two reads while a server boots, is reset or dies: the company is never gone for who has seen it, half a catalogue is given out for a lifetime at most, and not after a quiet reset |
| Texts | every minute of the day, all weeks of three kinds of days, amounts on both sides of every boundary, phrases on every weekday, some past the end of the calendar, starts in every shape: a listener knows the value, and a caller is understood or told of an error |
| Settles | two attempts at any endpoint, two failing calls, a crash: every attempt is answered or its server died |

Three requests are what the races need: one to hold a slot, two to compete. Two
are enough where the question is about one booking's history, and beside a
search, which has two reads for them to come between. `MaxNow` bounds the clock,
`MaxFailures` the failing calls; both are named in the module.

The queries of `Search` are one of each kind: a day with and without a stylist,
in a part of the day, with nobody free, for a service that may not be booked; a
range that is open, too long, empty, with one end; no date at all. Fifteen closed
days make the counter-offer go past its first two weeks. "Quiet" (`undisturbed`)
means that nobody wrote and no time passed since the search began; the quiet answers
among the states come before, between and after the writes of the requests.

`Readers` needs one reader, for readers write nothing that another reads. Two
requests give it what to see: a new booking, a moved one, a cancelled one, one with a
malformed start, and what races of two leave. The window is 34 hours, so that the
second seeded booking is told as inside it at one tick and not at the other. The
callers ask for that booking and for the one a request may make, the list for all.
The grid is two hours there, which keeps the counter-offers, about which no reader
asks, few; BookingRace and Validation have the half-hour grid.

`Texts` is exhaustive where the code is arithmetic on small ranges (minutes,
weekdays, days of the week) and stands on both sides of every comparison where it is
not. The calendar does not matter to it: a day is a number, and luxon's limit, the
end of the year 9999, is a constant, here five days past the last today, so that
weekdays lie on both sides of it. Past it `numberToWords` recurses for ever, and
`WeekdaysResolvedRight` asks that an error comes there, and no earlier.

The lifetime of a key is one hour in `Replay` and `Settles` and the clock runs for
two: enough for a record to be fresh, exactly at its limit and expired, while an
attempt is under way. One crash and one failing call suffice to separate an effect
from its record; the third attempt is there to come after two that raced.

`Reseed` has two seeders because its hazards are about two; the third state a
database may be in, left by a seed that died, comes from a failure or a crash of the
first. `Reads` needs two reads, one to fill the entry that the other is given, and
has one server and one seeder, which may be its own, another shell's or a boot: the
caches of two servers share nothing. The lifetime is one tick and the clock runs for
two, so an entry is fresh, at its limit and expired.

`ServedIsNotRepeated` counts the lifetime from the earliest `createdAt` of the key,
which a record written late brings along (`firstSaved`).
After that it promises nothing, and the code keeps nothing: see `FreshRecordsStay`.

Runs that TLC refutes, each a sentence of the repository that the code does not
keep (`findings` in `PROJECT.json`):

| Run | The code |
|---|---|
| MoveDoubleBooks | reschedule checks a snapshot and updates without a transaction: two bookings at a time |
| TwoEffects | two attempts with one key in flight together both run the handler |
| HalfSeeded | a server dies while its first boot seeds; the company document is there, so every later boot skips seeding and the salon has no services |

Fifteen more statements are written down and refuted by the same modules. They have
no run of their own; each counterexample comes from a run above with these changes:

| Property | Change | The code |
|---|---|---|
| `MoveReplyTruthful` | MoveDoubleBooks, `CreateCalls <- None`, `CancelCalls <- RaceCancels` (an action property) | a cancelled booking can be moved and is reported as confirmed |
| `NeverCancelledInsideWindow` | MoveDoubleBooks, `CreateCalls <- None`, `CancelCalls <- RaceCancels`, `RescheduleCalls <- SoonerMoves` | a cancel decided before a move cancels inside the window |
| `RefusedSlotNotReoffered` | MoveDoubleBooks, `CreateCalls <- RaceCreates`, `RescheduleCalls <- None` | a slot refused in the transaction is offered as its own alternative |
| `RefusedHoldsNothing` | MoveDoubleBooks, `CreateCalls <- RaceCreates`, `RescheduleCalls <- None`, `MaxFailures = 1` | a commit that is durable and not acknowledged is run again and refused for its own booking |
| `AcceptedIsOnGrid` | MoveDoubleBooks, `CreateCalls <- OffGridCreates`, `RescheduleCalls <- None` | a start off the grid is accepted |
| `ConfirmedHasStart` | MoveDoubleBooks, `CreateCalls <- OffGridCreates`, `RescheduleCalls <- None` | a start of "10:75" passes the schema and is stored as null; such a booking clashes with nothing and is never found |
| `RefusalSpokenTruthful` | the row before with `CancelCalls <- RaceCancels` | the window is rounded: refused as "within 24 hours" at 24 hours and 29 minutes |
| `CancelledWhenToldSo` | TwoEffects, `Asks <- TwoCancels` | the booking of the path is not in the key: a reused key replays another cancel |
| `RetryIsNotRefused` | TwoEffects, `Asks <- OneCreate`, `MaxClock = 1`, `MaxCrashes = 1` | the record is written after the effect: a crash in between, and the retry is refused for its own booking |
| `FailuresAreAnswered` | TwoEffects, `MaxFailures = 1` | a failing look-up of a key is an unhandled rejection and ends the server with all it was serving |
| `ResetInvalidates` | Reads | a read under way when a reset ends fills the cache with what it read before |
| `FreshRecordsStay` | TwoEffects, three attempts, `MaxClock = 2` | an attempt that read an expired record deletes the fresh one saved since |
| `RangesHeardRight` | Texts | a week that is closed on Wednesdays only is told as open "Monday to Sunday"; the closed day comes after |
| `AnyStartReadRight` | Texts | with the date in front ("September 5, 2026 7:07 PM") the first number, the day, is taken for the hour |
| `IsoReadRight` | Texts | an ISO datetime of another zone keeps its date and has its time converted |

Three small things met on the way: the comment on "next X" (`dateResolve.service.ts:55`)
speaks of a branch that is dead (line 56 asks for `next` and for no modifier), so
"next Thursday" said on a Friday is thirteen days ahead; the phrase the prompt gives as
an example, "the fifteenth" (line 66), is not understood itself; and
`sendConfirmation` says "I have sent your confirmation" whatever its results are, and
to a booking that is cancelled.

Fairness: weak fairness of every handler's steps (`Fairness`). Every await
settles, with a value or an error, and the event loop runs what is ready; nothing
is assumed about clients or the clock. `Readers` uses it, with the same for each
reader (`ReadersFair`, the mail provider's call is an await as well), and `Settles` the
same of Idempotency: crashes and `MiddlewareFails` are not fair, they need not happen.

## The proofs

`BookingServiceProofs` begins with the operators of the slot engine alone: every slot
offered is accepted by the slot check on the same data (`OfferedIsAccepted`), and
alternatives are in the future and clear of everything in their snapshot
(`AlternativesAreOpen`).

It then proves for every salon, every set of requests and every
number of failures: the type invariant, `RefusalLeavesNoTrace`,
`OverlapNeedsMove`, `OverlapOnlyIfConcurrent`, `HolidayRespected`, and
`NoDoubleBooking` for systems without reschedules. The invariants are not
inductive; the strengthening is `Typed /\ Traced`:

- `PhaseFits`, `DataFits`: which calls a phase belongs to and what the locals hold;
- `PriorAnswered`, `OwnBookings`, `IdsMatch`: what the history variables mean, and
  that a create which has its booking and goes on has met a failing call;
- `SnapshotCurrent`, `BlocksCurrent`: a handler that has loaded sees every booking
  and block of those who had been answered when it arrived, unless changed since;
- `Validated`, `BlockersAnswered`: what was checked when the handler goes to commit.

The double-booking result needs none of the snapshot part: the transaction reads
what it writes against. The results about reschedule and blocks do.

`BookingLedgerProofs` proves that BookingService implements BookingLedger
(`ServiceImplementsLedger`): each answer of a handler is one step of the book, so
is the unheard commit of a create, and every other step leaves the book alone. A commit needs what its handler found out
earlier, kept by `Typed /\ Traced` and by `Prepared`: what was checked of stylist,
skills and hours is still so of the call. `RefusalLeavesNoTrace`, `CancelledIsFinal` and
`SlotChangesOnlyByMove` name the second run of a create as their one exception; where no
call fails there is none. The same module proves the remaining
invariants of the service: `BookedUntilCancelled` by the invariant `Kept` (a booking
given to somebody is there, and what is cancelled was cancelled by a request),
`OffersWereOpen`, `BookedIsServable` (given that services of seeded bookings have a
length) and the action properties `CancelledStaysCancelled` and `SlotsAreStable`.

`FindAndConfirmProofs` first shows that readers write nothing of the service
(`ReadersLeaveTheService`), so whatever is proved of BookingService holds beside them.
Then, for any number of readers, questions and failures: `ReadersAreTyped`,
`TheBookIsTold`, `MailsAreHonest`, `ErrorsNeedMalformedStarts`,
`FlagAndRefusalAgree`. What a reader holds is
old by the time it answers; the invariant `Informed` says in which way it may be:
a booking placed by somebody in `since` and not placed again is among the rows, in the
slot it has now (`SeesBook`, `SeesSlot`), and one whose cancel was answered before is
there as cancelled only (`SeesCancels`); a mail keeps to the same, and every reported
success has its mail. `ErrorsNeedMalformedStarts` follows a missing start back to the
request that asked for it (`StartsAreAsked`), given that seeded bookings have one.
`FlagAndRefusalAgree` is about two parties who each computed the window at a moment of
their own. The invariant `Agreeing` says of each what it knows of a booking's start: it
is the one it read, unless somebody outside its `since` or `prior` has moved the booking
(`KnowsStart`); a start inside the window stays inside (`NearStays`); and whoever tries
after the flag was read out is on the way to a refusal (`WillRefuse`).

`AvailabilitySearchProofs` proves, for every salon, query and interleaving,
`SearchTypeOK`, `OfferedWasOpen` and `OfferCanBeBooked`. The last joins two pieces
of code: `OfferedIsAccepted` carries it. The invariant adds
what a search has heard so far (`HeardFits`: all that stands, and in a quiet salon
exactly what the collections hold) and what its context check said (`InContext`).
The same module proves that a search is complete, `NothingIsMissed` and
`CounterOffersComeFirst`. They need the other direction, `AcceptedIsOffered`, so that
search and check agree both ways; that merging over stylists loses no start
(`DedupedStarts`); that the cut at the limit keeps the earliest, as many as it may
(`FirstOfSlots`); and that a counter-offer is taken from the first block of days that
has any (`CounterOffersAreFirst`). Where an induction over the size of the list would
be natural, a least counterexample does (`LeastNatural`, from the library's theorem
that `<` is well-founded on the naturals).

`IdempotencyProofs` proves for any attempts, servers, keys, lifetime and number of
failures and crashes: the type invariant, `ServedIsNotRepeated` and
`ReplayTellsWhatHappened`. The argument runs over the earliest `createdAt` a record
of the document had (`FirstSavedFalls`: once there is one, it only falls). Whoever was served was served from a record (`ServedWasSaved`); until the
lifetime has passed nobody can find that record expired, so nobody is about to
delete it (`Lifetimes`, `ExpiringIsOld`), and whoever looks finds it; so an attempt
that arrived later and reached the handler looked after the lifetime
(`RunsOnlyExpired`). `RecordsTrue` and `ReplaysTrue` say that records and replays
name an attempt that acted. `FreshRecordsGoInRacesOnly` bounds the damage of the
unconditional delete: by `DeletersCameFirst`, whoever is about to delete a fresh
record looked the key up before that record was written, so its author was not over
when the deleter came. A client that sends its retry after an answer is not the one
that loses the record.

`SeedingProofs` proves `SeedTypeOK` and `SeedsDoNotMix` for all seed data, any
number of servers, seedings, failures and crashes. The strengthening is `SeedInv`:
the company is written first and never deleted (`CompanyFirst`, `WritesFit`), so a
boot that seeds found nothing; and what a reset did not meet it has listed, is
deleting or has deleted (`ForeignGoes`), so it writes beside none of it. While a
seeder is at work only those it has met add to the data (`ForeignShrinks`).
`LoneSeeds` needs more, `LoneInv`: while a seeder is alone nobody else is at work, every
stage behind it is written (`WrittenSoFar`), and what clients had stored before a reset
is still to be listed, being deleted or gone (`ClientsGo`).

`SeededWithoutFaults` is the other half of the run HalfSeeded. With one crash the
catalogue may be missing for good; with none, no failing call and no boot that skips
the seed, it never is once a server is up and nobody seeds, however many boots and
resets delete and write beside each other. The invariant `CatalogueComes` says why:
where there is a company, whatever is missing of the catalogue is still going to be
written by some seeder, for one that deletes has yet to write.

`ReadCacheProofs` proves `ReadTypeOK`, `CompanyIsNeverLost` (from `CompanyFirst`'s
lemma `CompanyStays`) and `PartialAnswersEnd`, by the invariant `MixFits`: an entry
that is not whole was filled when the data or a read was not. `ResetsAreSeen` stands on
`LoneSeeds`: while the seed that was alone is the last, every query finds all there is,
so no read of that server that began after it misses anything (`ResetFits`).

`TextsProofs` proves all that `Texts` checks, for every amount, minute of the day,
week of opening hours, day and documented start. A recursive function of TLA+ is a
CHOOSE, so the first thing to show is that `numberToWords` satisfies its own equation
(`NumberToWords`: its calls are of smaller numbers, and a least number without words
would have them) and that a listener is defined by hearing one word after another
(`HearsFrom`). Then it is followed word by word through tens, hundreds, thousands and
lakhs (`HeardTo99` to `HeardAll`): whatever it had heard before, it ends up with that
and the number. `NumbersAreHeard` is the result: for every n in Int,
`HearNumber(numberToWords[n]) = n`, so no two prices sound alike. On it stand
`AmountsUnderstood`; `TimesUnderstood` (the two times a clock shows are told apart by
the period); and `HoursUnderstood`: every open day lies behind the beginning of exactly
one part that reaches it (`PartOf`), and along a part the hours stay the same
(`PartKeepsHours`). `WeekdaysUnderstood` counts the days of that name on the way;
`StartsUnderstood` goes through the documented shapes.

Trying to prove these changed the model twice. `Unit` and `Period` were CASEs whose
guards overlapped, of which TLA+ may choose any; they are the chains of ifs that the
code is. And the listener took the multipliers for a number of its own after lakh, which
went wrong from a thousand lakhs on (the code says "twenty one thousand two lakh"):
`MCNumbers` now has such numbers, and the listener multiplies all that was said.

The assumptions are the named ones of the modules: ids that exist, closing times
within the day, a seed without collisions, requests that name an endpoint, finitely
many stylists (`ListingAssumption`), times that are minutes of a day and starts that
are one item or a time and a date (`TextsAssumption`; the time in front of a date has
its minutes or am or pm, since "7 September 11, 2026" is left to the runtime's `Date`,
which takes the 7 for the day, and no document names such a text). Two theorems ask for more:
`CreatesNeverDoubleBook` for no reschedules, `SeededWithoutFaults` for no faults.

## Only model-checked

Liveness, which is out of the prover's reach: `EveryRequestAnswered`,
`EveryReaderAnswered` and `EveryAttemptSettles`. Every other property of a passing run is
a theorem. What the violation runs and the table above refute is refuted on small
instances, which is enough for a counterexample.

## Not modelled

- Clock changes: the salon's zone has none; a tenant elsewhere would need them.
- A cache entry that lists documents by more than their ids: the seed data are
  constants of the program, so prices and names of an entry cannot be old.
- The wall clock going back.
- A database call that fails and takes effect later, after the answer.
- Names, notes, the wording around the values. Ordinals, names of months and spelled
  references (`ordinalToWords`, `dateToWords`, `referenceToWords`) are tables without
  arithmetic. Ids are fresh by assumption: random six characters, and nothing checks
  for a collision.
- The list of messages: a query, a filter and a sort, as in the list of bookings but of
  documents that nothing changes. `pick`, which takes the first of several names of a
  parameter.
- A reset beside idempotency records, which it keeps: a replay may name a booking that
  a reset has removed. Idempotency knows no reset and Seeding no records.
- How the mail providers talk to their services; `Send` is all a caller of them sees.
- Routing, validation library, API documentation: no state and no decisions.

## The plan, and what is left of it

Done, in this order: SlotEngine, BookingService and their proofs; Idempotency;
AvailabilitySearch; Seeding and ReadCache; BookingLedger and the refinement;
FindAndConfirm; the texts. Each with its proofs.

Left: Idempotency over Seeding, for the records that outlive a reset.
