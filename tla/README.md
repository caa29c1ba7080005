# A verification of SQLCPP-Homeworks

The repository is a series of homework programs on PostgreSQL: SQL scripts
(`src/02` to `src/04`), a client manager in C++ on libpqxx (`src/05`), whose
sources of libpqxx 7.9.0 lie beside it, and a book shop on Wt::Dbo (`src/06`).
The programs are short; what makes them right or wrong is how they behave as
*clients of a database*: several at once, over connections that break, on top
of a transaction layer with a life cycle of its own. That is what is modelled.

Contents: [inventory](#1-inventory), [modules](#2-the-modules-and-the-code),
[runs](#3-the-runs), [proofs](#4-the-proofs), [findings](#5-findings),
[what is left out](#6-what-is-not-modelled), [plan](#7-plan).

## 1. Inventory

| component | source | state it keeps | operations | model |
|---|---|---|---|---|
| client manager, `class Manager` | `src/05/Task#1/Client_Manager.cpp`, `.h` | one `pqxx::connection`; table `clients` in the database | `CreateTable`, `AddClient`, `AddPhone`, `DeletePhone`, `DeleteClient`, `UpdateClient`, `FindClients` | `Directory`, `ClientDirectory`, `ClientManager` |
| phones as text | the same: lines 35–42, 131–164, 222–242 | column `phones TEXT[]`, `Client::phones` | the array literal, cutting the text at commas, `ShowFoundClients` | `PhoneList` |
| demonstration, connection dialogue | `main.cpp`; `Client_Manager.cpp` from 166 | none | a fixed sequence of calls; the port loop | – (pure I/O) |
| transaction objects | libpqxx `transaction_base.cxx`, `transaction.cxx`, `nontransaction.hxx` | status, registration, focus, pending error | construct, `exec`, `exec_params`, `commit`, `abort`, destroy | `Transaction` |
| foci, `stream_to` | `transaction_focus.hxx`, `stream_to.cxx`, `stream_to.hxx` | transaction, registered, finished | open, write a row, move, `complete`, destroy | `Focus`, `Transaction` |
| PostgreSQL session | external | autocommit / block / failed block, COPY in progress | `BEGIN`, `COMMIT`, `ROLLBACK`, statements, `COPY` | `Backend`, and the server's part in every module |
| connection | `connection.cxx`, `connection.hxx`, `errorhandler.cxx` | the libpq connection, `m_trans`, error handlers | open, move, assign, close, seize, release; register, exec | `Session`, `Transaction`, `Backend` |
| notification receivers | `notification.cxx`, `connection.cxx` 398–456 | receivers by channel | listen, unlisten | `Session` |
| robusttransaction, transactor | `robusttransaction.cxx`, `transactor.hxx` | transaction id, backend id; attempts left | commit, ask another session how it ended; `perform` | `Outcomes` |
| exceptions | `except.hxx`, `result.cxx` 167–350 | none | which SQLSTATE becomes which class | `Errors` |
| subtransaction | `subtransaction.cxx` | a savepoint of its parent | begin, commit, abort, destroy | `Subtransaction` |
| pipeline | `pipeline.cxx`, `.hxx` | queued and issued queries, results, error position | `insert`, `retrieve`, `retain`, `resume`, `complete`, `flush`, `cancel`, destroy | `Pipeline` |
| cursors | `sql_cursor.cxx`, `cursor.cxx` | position, end position; a stream's list of iterators | move, fetch, retrieve; read, ignore, iterate | `SqlCursor`, `CursorStream` |
| blob | `blob.cxx` | connection, descriptor | open, read, write, seek, resize, move, close, the functions for whole objects | `Blob` |
| results | `result.cxx`, `row.cxx`, `field.cxx`, `row.hxx` | rows of a query | access, slices, iterators, conversion to tuples, `expect_rows` | `Results` |
| encodings | `internal/encodings.hxx`, `encodings.cxx` | none | the next character, the search for ASCII | `Encodings` |
| conversions | `strconv.cxx`, `time.cxx`, `util.cxx`, `internal/conversions.hxx`, `range.hxx` | none | value to text and back | `Numbers`, `Dates`, `Conversions`, `Ranges`, `RangeText` |
| arrays, composite values | `array.cxx`, `array.hxx`, `composite.hxx`, `internal/array-composite.hxx` | none | write, `array_parser`, `array`, `parse_composite` | `ArrayText`, `SqlArray` |
| COPY text | `stream_to.cxx`, `stream_from.cxx`, `internal/stream_query_impl.hxx` | none | a row to a line, a line to a row | `CopyText` |
| quoting, parameters | `connection.cxx` 900–1222, `separated_list.hxx`, `params.cxx` | none | quote values, names, patterns, lists; placeholders; options | `Quoting` |
| largeobject and its streams | `largeobject.cxx`, `.hxx` | as blob | the same libpq calls | – (deprecated) |
| book shop | `src/06/task#1/main.cpp` | none of its own: Wt::Dbo's | `Add*`, the query of the shops of a publisher | – (see 6) |
| SQL homework | `src/02`–`src/04`, `src/common` | tables | none: scripts run by hand | – |

**How they interact.** A `Manager` method makes a `pqxx::work` on its own
connection. Its constructor registers with the connection and sends `BEGIN`;
`exec_params` sends one statement; `commit()` sends `COMMIT`; whatever throws
leaves the `try` block through `~work`, which sends `ROLLBACK`, and ends in a
`catch` that prints. A stream is a *focus* of its transaction: while it is
open nothing else may be sent. Errors found in destructors, which must not
throw, wait in the transaction as its *pending error* and are thrown by the
next call. Several Managers meet in the server only: on the row locks of
`UPDATE` and `DELETE`, on the unique index of `email`, on the catalog in
`CREATE TABLE`.

**What is hard.** Two programs change one client, rename clients to each
other's emails, or create the table at the same moment. The server dies, or
the connection breaks between a `COMMIT` and its answer, and whoever asks for the
outcome may ask before there is one. A statement fails in a destructor. An object
is used after it was closed, closed while its stream is open, moved from while
others point to it. Results arrive late and are matched to queries by position;
a batch fails as a whole. The client counts where a cursor stands from the rows
it was given. A savepoint's failure is its parent's too. Text that carries a
separator, a quote or a second byte that looks like one. `PROJECT.json` lists
each such hazard at its line with the properties that look for it, or says why
there is none.

**What is right.**
- Transactions: one active transaction per connection; work is all or nothing;
  aborted work leaves nothing; an outcome is final; a `commit()` that returned is
  durable; the connection is left outside any block.
- The manager: each method call is one atomic step of a simple directory, made at
  most once; emails are unique; a call has no effect only for a reason; calls end.
- `perform`: the work of a callback is committed at most once however often it is
  run; what is thrown or returned is the truth about it; it ends.
- Subtransactions: durable is what was committed all the way up, and nothing else.
- Pipeline: every result is that of its query, every query runs once and in order,
  none after one that failed.
- Cursors: the client's position is the server's; each iterator gets its own rows.
- Objects that point to each other (connection and session, handlers, receivers;
  transaction and focus; blob and descriptor; stream and iterators) agree, whatever
  moves.
- Conversions: what is written is read back as it was meant, by the server and by
  the library, and what is special in it stays inside.

## 2. The modules and the code

```
 Backend <- Transaction <- MCTransaction           TLC
                        <- TransactionProofs
 Directory <- ClientManager <- MCClientManager     TLC
           |        |       <- ClientManagerProofs
           |        | implements (INSTANCE ... WITH)
           <- ClientDirectory

 SqlCursor <- CursorStream -----------.
 Errors <- Outcomes <- MCOutcomes ----|
 Focus, Session ----------------------+- MCLibrary TLC
 Pipeline, Subtransaction, Blob ------'
 PipelineProofs: of Pipeline
 ConnectionProofs: of Session, Focus, Outcomes and CursorStream
 ObjectProofs: of Subtransaction and Blob
 Induction: the lemmas on induction and sequences that ClientManagerProofs,
 ConnectionProofs, PipelineProofs, TextProofs and ValuesProofs use

 PhoneList <- MCPhoneList ----------------.
 Numbers <- Dates, Conversions -----------|
 ArrayText <- SqlArray <- RangeText ------|
 Ranges <- RangeText ---------------------|
 Encodings, CopyText, Results, Quoting ---+- MCValues  TLC
                                             |
 PhoneList, Encodings, Ranges, Quoting,      |
 CopyText <- TextProofs ---------------------+- ValuesProofs
```

`PROJECT.json` ("map") gives, for every definition, the lines it models.
Operators whose comment begins with *(mutant)* are no part of the model: each
is a deliberately wrong version of the operator that follows it, kept to see
that the properties can fail (see "mutants" in `PROJECT.json`).

**`Backend`** (external). One session as libpqxx drives it. Every command is an
action `Srv…(r)`, `r` being what `connection::make_result` turns the answer
into: a result, an `sql_error`, `statement_completion_unknown` (40003), or
`broken_connection`. An error fails the open block; `COMMIT` of a failed block
is answered without an error and rolls back; a lost session may have carried
out the command or not; a command sent during a `COPY` makes libpq end the
`COPY` with an error first. `SrvDies` lets the server process end at any
moment, which `is_open()` does not show yet.

**`Transaction`**. `m_trans` is the connection's; `status`, `registered`,
`focus`, `pending` are members of each object; `life` and `kind` say that it
exists and whether it is a `work` or a `nontransaction`. `told`, `sent` and
`late` are history. A call is one step since a connection belongs to one
thread; the choice in a step is the server's answer.

| code | action |
|---|---|
| constructors | `ConstructWork`, `ConstructNon` |
| `exec`, `exec_params`/`exec_prepared` | `Exec`, `ExecParams` (the second checks no status, as the code does not) |
| `stream_to`: constructor, `write_row`, `complete`/destructor | `OpenStream`, `StreamRow`, `CloseStream(t, byDestructor)` |
| `commit`, `abort`, destructor | `Commit`, `Abort`, `Destroy` |

`Habits` says what the program does beyond strict RAII: calls `abort()`
("abort"), calls it while a stream is open ("nested"), uses `exec_params` on a
closed object ("late"), goes on with a transaction after it threw ("ignore").
With `Habits = {}` an exception leaves the scope and the destructor follows:
that is how every method of `Manager` is written, and how the manual of libpqxx
asks one to write.

**`Directory`** holds the data both manager modules speak of: rows, calls, what a
call makes of a row (`NewRow`, `ChangedRow`, `Matching`) and when a call can
have no effect (`NoEffect`).

**`ClientDirectory`** is the promise: between `Invoke` and `Return` a call takes
effect once, at one moment (`Apply`, `Find`); it is skipped only if in between
there was a moment at which it could have no effect (no such client, the email
taken, no table), or if it was an `UpdateClient` sacrificed among others to
break a deadlock; a lost connection (`Lose`) leaves the last call to take
effect or not, even after it came back.

**`ClientManager`** is the code and the server it runs on. `pc[m]` is the state of
m's transaction: `begun`, then `lock` (waits for a row), `key` (waits for the
index or the catalog), `done`, `commit`, `ended`, or `failed` and rolled back.
`target` and `new` are the row it changes and its uncommitted version.
Statements see what was committed when they start (READ COMMITTED). `Lock`
re-reads the row after a wait and evaluates `WHERE email = …` again, as
PostgreSQL does; `EnterKey` is the unique index; `EnterTable` the race of two
`CREATE TABLE IF NOT EXISTS`; `Victim` the deadlock detector; `LoseConnection`
and `Exit` a connection that breaks while the session may still carry out what
it has received. `LoseConnection` is for good: `Manager` never reconnects.
Phones are values here; `PhoneList` shows that for clean numbers the
conversions of the code are the identity.

**`PhoneList`**. One client's phones through their five forms: given, array
literal (`AddClient`), stored array, the array's text cut at commas
(`FindClients`), printed text (`ShowFoundClients`), which loses spaces, apostrophes,
braces and quotes. The texts are sequences of characters because the properties are about
where the cuts fall. A client without phones has one found, `{}`, which `ShownAsMeant` says
too.

**`Outcomes`** (with **`Errors`**). `pqxx::perform` over a callback that opens a
connection and commits one transaction on it. `pc` says where perform is,
`server` what has become of the transaction there: a `COMMIT` whose session is
lost may be `committing` for as long as it likes (`Resolves`) while `Ask`, one
turn of `do_commit`'s loop, looks for its outcome on another session. The
query may find no connection, an answer, or an error of its own (`QueryErrors`: any that
is no `broken_connection`, and `internal_error` for an empty answer), which leaves
`commit()` as if `COMMIT` had failed with it. Which
exceptions end in another attempt is decided by their classes, so `Errors` has the
hierarchy of `except.hxx` and the table of `throw_sql_error`. Habit "remote": the
server answers `COMMIT` with a connection error of class 08 that is not its own. Habit
"conflict": the query for the outcome fails with a rollback (class 40), as on a standby in
conflict with recovery.

**`Subtransaction`**. Savepoints nested in a `work`; the server's block is a stack
of frames of writes. The program is strict RAII; habit "swallow" catches an
exception inside the scope it came from. `Above` of an object, what it is nested in, is
the least set with it that is closed under `parent`.

**`Pipeline`**. A call is an operator from a world (the members, the wire, the
server's block) to the worlds it may leave; how many results have arrived when
`is_busy` is asked is the choice in it. Iterators of `m_queries` are ids. `thrown` is
what the call has thrown, "none" when it returned; `Then` puts calls in sequence, and
what has thrown goes no further. The loops over the queries of a batch (`Singly` is the
replay) are recursive functions of how far they have come.
Habits "error" and "cancel" go on with a pipeline after `flush()` of one in error,
and after `cancel()`.

**`SqlCursor`**, **`CursorStream`**. The server's cursor has a place the client never
sees; `Adjust` is `sql_cursor::adjust`, statement by statement, since its cases are
what the properties are about. `CursorStream` keeps the doubly linked list of
iterators with its pointers; `Service` is `service_iterators`. Habits "beyond" (a stateless
retrieve that begins one past the last row) and "late" (an iterator made after a
block has been read away).

**`Blob`**. Descriptors belong to the session and end with its transaction; blobs move.
Reads and writes are at most `ChunkLimit` bytes, as 2 GB are in the code. Habit
"anonymous": `from_buf` with the id 0 and more data than fit.

**`Focus`**. Streams that move between objects: `MoveFocus` is the constructor of
`transaction_focus`, which registers the new one in place of the old,
`MoveStream` that of `stream_to` around it.

**`Session`**. Connection objects, the `PGconn` each holds, who is called by its
notice processor, what it listens on now and once its transaction commits. Error
handlers are a set: their order only says who sees a notice first.
Habits "intx" (a receiver made in a transaction) and "closed" (a handler made for a
closed connection).

**`Encodings`**, **`Numbers`**, **`Dates`**, **`Conversions`**, **`ArrayText`**, **`SqlArray`**,
**`Ranges`**, **`RangeText`**, **`CopyText`**, **`Results`**, **`Quoting`** are operators without
state, translated function by function and compared, in `MCValues`, with what they
are for: a writer followed by a reader is the identity, two readers agree, a text
that goes into SQL says what the value was to PostgreSQL's rules. Texts are
sequences of characters or of bytes here because that is what they are about; where
several characters behave alike, one stands for them (`Wide` is a character of more
than one byte). Integers have their width (4, 6 and 8 bits instead of 16 to 64: the
code is one template, and the borders are where they are in every width).

**`MCLibrary`** and **`MCValues`** put components that share no state side by side: a
behaviour is that of the one named by `part`, the others idle. It is a product of
specifications, not a composition of the programs: it saves runs, nothing else.

## 3. The runs

All runs are exhaustive within their bounds.

| run | result | states | what it shows |
|---|---|---|---|
| `raii` | pass | 23 000 | Strict RAII: `CommitMeansDurable`, `NothingHalfFinished` |
| `any` | pass | 276 000 | Any program but one that aborts under an open stream: `OneActive`, `AllOrNothing`, `AbortedLeavesNothing`, `OutcomeIsFinal`, `InDoubtOnlyIfSent`, and the inductive invariant `IInv` |
| `leak`, `late`, `nested` | violation | | three findings on transaction objects, section 5 |
| `manager_two` | pass | 324 000 | Two programs, two calls each, all seven methods: `KeepsPromise` (refinement of `ClientDirectory`), `EveryCallEnds` under fairness, `TableAfterCreate`, `TypeOK` |
| `manager_three` | pass | 114 000 | Three programs, one call each, on three clients: `UniqueEmail`, `OnlyRenamesDeadlock`, `KeepsPromise`, and the inductive invariant of the refinement, `PromiseInv` |
| `library` | pass | 433 000 | The stateful parts of libpqxx: `CursorKnowsItsPlace`, `RetrievesAsked` (cursor); `IteratorsServed` (stream); `ResultsMatch`, `QueriesDone`, `NothingBeyondError` (pipeline); `PerformTellsTruth`, `PerformEnds` (outcomes); `SubtransactionsKept`; `BlobsSound`; `FocusSound`; `SessionHeld`, `ReceiversAreListening` (session); the types of all |
| `values` | pass | 37 000 | `StoredAsMeant`, `ShownAsMeant`, `NothingLost` (phones); `TextsAreScanned` (encodings); `ValuesGoThrough` (integers, binary data, dates, nulls, room for floats, placeholders); `ArraysGoThrough`; `RangesGoThrough`; `RowsGoThrough` (COPY); `ResultsReadAlike`; `StatementsSayWhatIsMeant` (quoting, parameters, options) |
| `doubt`, `told`, `sub` | violation | | findings on robusttransaction and subtransaction |

**Bounds and why they are enough.**
- Transaction objects: two, each with at most two writes (`MaxWrites`). The
  connection admits one active transaction, so what matters is what a used one
  leaves behind for the next; two writes let one be durable and the other not.
  `nested` needs three objects with one write each.
- Managers: two with two calls each (`MaxCalls`) let every pair of methods
  overlap, with a call before or after. Waiting in cycles of more than two, and
  a waiter that meets two changers of its row, need three, with one call each;
  their calls are those that change rows, on three clients.
- `Ids` is as long as the calls can use up; it is a bound only of the instance.
  `Losses` names the Managers whose connection may break: in `manager_two` one may,
  and the other must not be held up by it.
- `perform`: three attempts and three queries for an outcome (500 in the code): the
  first, one between, and the last. `Codes` has a conflict, a constraint, a timeout, an
  unknown completion, a violation of the protocol and two errors of a connection:
  one SQLSTATE of every class that `perform` treats apart.
- Pipeline: three queries, none or two retained: a batch of one, of two, one
  behind a batch, an error at its head, in its middle and at its end.
- Cursors: up to three rows, distances from -5 to 5: moves within, to, and past
  either end, by one and by two. Three iterators over strides of one and two; with
  three there is one in the middle of the list to unlink.
- Subtransactions: three with one write each: two nested, or one after another
  (`ObjectProofs` proves any number).
- Blobs: two objects, two blobs, two descriptors, two bytes in chunks of one.
- Focus: two transactions, four streams, so that one moves twice while another is
  open. Session: two connections, two sessions, two receivers on one channel or
  two, one error handler (`ConnectionProofs` proves any number).
- Values: all texts of up to two special characters in every position that
  matters, at the borders of every byte class an encoding tests; every value of the
  narrow integer types; dates at every border of a calendar and of the format's
  four digits. Ranges between four integers, two of them adjacent. (For encodings, ranges, integers, binary
  data, quoted texts, parameters, patterns, options and
  rows of COPY `TextProofs` and `ValuesProofs` prove any texts and any number.)
- Phones (`TextProofs` proves any texts and any number): seven texts over two digits, a space, a comma and an apostrophe (one digit, one that
  repeats it, an inner space, an inner comma, a leading space, an apostrophe, empty), up to
  three phones (`MaxPhones`): first, middle and last, which the separator rule
  of `ShowFoundClients` treats differently, and equal ones in any place.

The runs are checked with `CHECK_DEADLOCK FALSE`: a program may stop once its
objects are destroyed or its calls made, which the bounds bring about; no waiting
is hidden by it, `EveryCallEnds` and `PerformEnds` are the checks against that.
Symmetry is used for the objects of `Transaction` and the Managers of
`manager_three`, which are interchangeable in every definition, and in no run with
a liveness property.

**Fairness.** `FairSpec` asks for weak fairness of `Progress(m)` for each Manager:
the program goes on to the next line of its method, the server carries out what
it has received, grants a lock that is free, runs its deadlock detector
(`deadlock_timeout`), and a session whose client is gone exits. Calls, and lost
connections, are never forced. Weak fairness suffices because each step, once
possible, stays so until it or another step of the same session is taken, but
for waits: there the run shows that every wait ends.
For `perform` it is weak fairness of `Perform`, the program's own thread, and of
`Resolves`, the server that ends every `COMMIT` it has begun. `PerformEnds` does not
need the second: the queries for an outcome are counted.

## 4. The proofs

Eight modules hold theorems, seven `…Proofs` modules and `Induction`. TLAPS checks them
to the last leaf; they hold for every number of objects, writes, Managers, calls,
clients, attempts, rows, iterators, queries, streams, connections and phones, and for
texts of any length.

**`Induction`** has what loops need. The induction theorems of the library take an operator
for the property, which the provers cannot instantiate; here induction is stated of sets and
functions. `LeastNumber` says that a set of naturals has a least element, `ByPositions` that
what holds at 0, and at a position where it holds at the one before, holds up to `n`, and
`Passing` that there is a function which starts with a given value and makes each next one
from the last by a given step. So a loop that the model writes as a recursive function can
be reasoned about: `RemovedAt` and `SelectSeq` on a client's phones, `Service` over the rows
of a block, `Singly` over the queries of a batch. `BySequences` is the same for sequences
built element by element, `FromTheEnd` induction from the last position to the first, and
`Jumping` and `ByRank` give the functions that a loop over a text is: what it is at a place is
made of what it is at later ones, not always the next. The lemmas on `FlattenSeq` after it
(`Concats`, `Spread`, `SpreadPlaces`) say that it takes concatenation to concatenation and
where each piece comes to stand: by them a text joined, quoted or erased piece by piece is
reasoned about. A machine that reads a text character by character `Leads` from one state to
another: what leads through two texts leads through both (`LeadsOn`), and through all pieces
of a text if it does through each (`LeadsSpread`); `LeadsThere` takes this back to the
recursive function the model computes.

**`TransactionProofs`** assumes `"nested" \notin Habits`, `NoTxn \notin Txns` and
`Writes = Txns \X Nums`. `AllOrNothing` by itself is not inductive: what is
durable after a `COMMIT` depends on what waits in the block, and that on whose
block it is. `IInv` adds: only live active objects have a focus or a pending
error (`Lifecycle`); writes belong to their object (`OwnWrites`); a `COPY` in
progress has an open stream (`CopyHasStream`); a block that can still take
effect is that of the active work, which has all it sent in it, unless an error
failed the block (`BlockOfWork`); nothing in the session was sent by a closed
object (`WaitingIsOpen`); nothing durable is unknown to its object
(`KnownWrites`). From `Invariant` follow `OneActiveAlways`,
`AllOrNothingAlways`, `AbortedLeavesNothingAlways`, `TypeCorrect`. The
assumption on "nested" is necessary: the run `nested` breaks the theorem's
conclusion without it. The lemmas follow the parts of the invariant: what a
command may do to the session (`SessionStep`), then the parts about objects
(`ObjectsKept`), the session (`SessionKept`), and those that tie the two
together (`TiedKept`).

Its second part is about strict RAII. `OutcomesAreFinal` (any habits but "nested") is
an action property that follows from `IInv` alone, and so is `DoubtOnlyIfSent`, from
the types. `NothingHalfFinished` and
`CommitMeansDurable` need `Habits = {}`; the strengthening `RaiiInv` says that
only an active work keeps a living session in a block (`NoLeak`), and that an
object whose caller has no reason for doubt yet has a sound block behind it
(`WorkStands`): this is where the pending error earns its keep.

**`ClientManagerProofs`** assumes `CallAssumption`, `StartAssumption` and
`IdAssumption`. `UniqueEmail` is not inductive: `COMMIT` brings in a row that
was checked long before. `IInv` adds that ids name rows and the sequence is
past them (`IdsUsed`), that one transaction at a time changes a row
(`OneChanger`), and that a key once entered is kept from every other row and
open transaction until the end (`KeysReserved`). `DeadlocksAreRenames` is the
combinatorial one: in a set of sessions each waiting for another of the set,
somebody waiting for a row would be waiting for one that waits for a key, and
whoever is waited for by its key has changed a committed row
(`DeadlockOfRenames`); so all of them run `UpdateClient`. `TableIsThere` proves
that a `CREATE TABLE` which failed did so because of one that committed.

It also proves `Spec => KeepsPromise`: the methods, in all their steps and however they
interleave, implement the atomic calls of `ClientDirectory`. `PromiseInv` adds to `IInv`
what a call still owes: what a transaction holds is what its call asked for, of a row that
is still as it was read (`Work`); one transaction at a time is about to make the table
(`OneCreator`); and whoever could now be decided without an effect, or waits for a row that
no longer has its email, has seen the moment that excuses it (`Excused`). With it each step
maps to a step or a stutter: a `COMMIT` to `Apply` (`CommitHasEffect`: nobody came between),
the end of a call that met a taken key, a row that was gone or no row at all to a skip
(`TakenKeyExcuses`, `NothingToDo`), `SELECT` to `Find`, and the rest to nothing.

`AlwaysTyped` proves `TypeOK` on top: that a row stays a row rests on `ChangedRow`, and
this on what is left of a sequence when elements are taken out of it (`WithoutIsSeq`).

**`ConnectionProofs`**, *Outcomes*, proves `PerformTellsTruth`. That a callback is not run
again after what may have taken effect rests on the exception that leaves it saying so; `OutcomeInv`
therefore says, for every place perform can be at, what the server may have made of
the transaction: a callback that is yet to commit is idle there; one that asks has
lost its connection; an exception without doubt leaves nothing committed or
committing, unless it is that of a query for the outcome, and such an exception is none after which
perform tries again. So the theorem says nothing of failures after a query
(`FailureMeansNothing` is `DoubtIsTold` where `asks = 0`): there the code lies, as run `doubt`
shows. It assumes neither "remote" nor "conflict" in `OutcomeHabits`, and needs to: with the first a
`COMMIT` that failed is reported as committed, with the second perform runs a callback
again that has taken effect (section 5).

**`ConnectionProofs`**, *Focus*, proves `FocusSound` for `Nobody \notin Streams`. The
invariant adds that a live stream is registered exactly as long as it has not finished
(`Together`), and that a session copies exactly while its transaction has a focus
(`Copying`): a move keeps both only because it takes the registration and `m_finished` along
in one call. The lemmas say first what a move and a completion make of the whole record.

**`ConnectionProofs`**, *SqlCursor*, proves `CursorKnowsItsPlace` for any number of rows and any
distances, all rows and backwards among them. `Knows(c, s)` ties what the client has
worked out to where the server's cursor stands; four lemmas give what `adjust()`
does when a move forwards or backwards is made in full or falls short, and each call
is then shown to keep `Knows`. `RetrievedAsAsked` follows a stateless `retrieve` through
its four moves, to the start, to the end, before its first row and over what it
fetches: each takes the cursor where `Knows` says, and the rows passed are those asked
for. It assumes `"beyond" \notin Habits`, and needs to (section 5).

**`ConnectionProofs`**, *CursorStream*, proves `IteratorsServed`. `ListSound`, what the
code's pointers say to each other, is not inductive: a ring of iterators apart from the head
satisfies it, and nobody would serve them. `StreamInv` therefore has two parts. `Listing`
gives every linked iterator a rank that grows along `next` from the head, so that the list
reaches all of them and none is left out of what `Service` looks through. `Reading` says
that positions lie a stride apart, that who waits does so ahead of what has been read, and
that who has a block has the rows of its place. The lemmas take the list first (`Linking`,
`Unlinking`), then one block (`Served`), all blocks up to a position (`Serviced`, by
induction over positions), then each call. It assumes `Null \notin Its` and `"late" \notin
Habits`, and needs to: with the habit an iterator sees an empty block where there were rows.

**`PipelineProofs`** proves `ResultsMatch`, `QueriesDone` and `NothingBeyondError`, for any
number of queries in batches of any size, any of which may fail, and a connection that may
be lost at any moment. None of them is inductive; what they rest on is that three parties
agree, the map of queries, the wire and the server. `Sound` says of every state:

- `Places`: the iterators `m_issuedrange` and `m_error` stand where the queries are, the
  count of those that wait is right, and once there is an error nothing is pending and no
  query that could still be sent comes before it.
- `Found`: what the map has for a query is nothing yet, an error, or the query's own
  answer, and then the server has carried it out; all before the batch is answered.
- `History`: what ran did so in the order of insertion, and nothing that may still be
  sent has run; a block or a session that failed did so because of a query.
- `Wire`: what is yet to be read is the answers of the batch, in order, with an error only
  at the end (`InOrder`), and for all of it unless the connection is lost (`AllAnswered`).
  A dummy that failed means that nothing of the batch has taken effect, and that sending
  it again one by one will meet the error (`Failing`): only this makes the replay of
  `obtain_dummy` right.
- what the program was told came out well, is done.

Then there is a lemma for each function of the class in turn, on what it makes of a sound
world: `ObtainKeeps`, `ReplayKeeps` and `DummyKeeps` for reading, `ReceiveKeeps` for the
loop around them, `SentKeeps` and `IssueKeeps` for writing, `InsertKeeps` ... `LostKeeps`
for the calls a program makes. Inside a call the invariant may not hold between two
statements; what a call may do to the parts it is not about is a relation between worlds
(`Goes`, `Receives`, `Lasts`). The proofs assume `"cancel" \notin PipeHabits`, and need to:
with it `AnswersAddUp` fails (section 5). They do not need to exclude "error": a pipeline
used on after `flush()` refuses its queries, which is not what the documentation says, but
it tells no lies.

**`ConnectionProofs`**, *Session*, proves `ReceiversAreListening` for `"intx" \notin
SessionHabits`. A session must listen both now and after its transaction (`ListensOn`);
connections must hold a session alone (`HeldOnce`), or the `UNLISTEN` of one would deafen
another.

It goes on with `SessionHeld` for `"closed" \notin SessionHabits`, with an invariant
of its own beside `HeldOnce`: every open session has a holder (`HeldAtAll`); handlers and
connections know each other, and a connection without a session has no handlers
(`Homes`), which is what makes its end harmless; a session that has not been opened yet
calls nobody (`NewIsSilent`). Habit "closed" breaks `Homes`, and with it the theorem.

**`ObjectProofs`**, *Subtransaction*, proves `SubtransactionsKept` for any number of objects, nested
in any way, for `"swallow" \notin SubHabits`. Nothing in the state says where an object's
savepoint is in the block, or who decides on a write once its object has committed, so
the invariant `SubInv` says that there are two functions that do: `pos`, which puts the
active objects' savepoints in the order they are nested (`Places`), and `own`, by which
a commit leaves the writes of an object to its parent and an abort gives them up
(`Owners`). Every write in the block lies between the savepoint of its owner and the next
active one (`Between`), and what an owner may still keep is there (`Present`); so a
`ROLLBACK TO` forgets the writes of its object and of what committed into it, no others,
and a `RELEASE` forgets none. Each call says which functions come after (`ConstructKeeps`
... `DestroyKeeps`), after lemmas on what the server makes of its frames. At the end of
the work its own are the committed ones: an owner 0 means that all of `Above` has
committed (`KeptIsCommitted`, by `Above` being the least set closed under parents, where
an induction along the chain of parents is not to be had).

**`ObjectProofs`**, *Blob*, proves `BlobsSound` for `"anonymous" \notin BlobHabits`, and for texts of any
length where TLC takes short ones. `BlobInv` says that descriptors have one holder, which
opened them on the object it is about (`Owned`), and that an object which does not exist
holds nothing (`NoneEmpty`): only so does a `from_buf` that failed leave what was there
before. Every call on an object "follows" (`Follows`) the state before: the descriptors stay
open on what they were open on, and nobody is closed or moved. From this `Owned` is kept,
and a blob that lives in one expression takes nothing from the others (`UsingFollows`,
`UsingRestores`). The lemmas before say exactly what a read, a write, a seek and a truncation
make of a descriptor and its object (`ReadUses` ... `SeekUses`), and what writing at the end
(`WrittenAtEnd`) and reading a part (`RestIsPart`) are on sequences; the static functions are
then composed of them, call by call. With the habit `from_buf` leaves an object behind
(section 5).

**`TextProofs`** proves the three properties of `PhoneList`, `StoredAsMeant`, `ShownAsMeant`
and `NothingLost`, for any set of texts without braces, quotes, backslashes, tabs, ends of lines and the letter N
(`TextsAssumption`, which is what `PhoneList` models) and any number of phones. The invariant `PhonesInv` is small: the
stored phones are made of the characters of `Texts`, clean ones are as meant, and what was
found and shown is what `FindAndShow` makes of what is stored. What it rests on is about every
text. `ElementsAre`: what is joined with commas from texts that have none is cut at them
into the same texts, and so `LiteralIsRead`: the server reads `AddClient`'s literal as the
phones it was given. `PiecesOfPhones`: the array's own text is cut into its elements, quotes
and braces still on, and so `CleanAreShown`: what is printed is the phones, the separators
between them, without their apostrophes. `ArrayErased`, `ShowErased` and `AllIsShown` need no clean
numbers: each step from the table to the screen only adds or erases spaces, commas, apostrophes,
quotes and braces.

It goes on with the operators of `values` that write and read texts. Each theorem is about
every text over every set of characters that has the ones the code treats apart.

- *Encodings.* `EveryCharacterEndsItself`: where a character ends is decided by its own bytes,
  whatever follows them or is cut off; a character that is cut off itself is refused.
  `EverySearchFindsCharacters`: in a text of the encoding, the search for ASCII characters, byte by
  byte where that is allowed, stops where a search character by character does. Both are for every group
  but MULE_INTERNAL, which is not a condition of the proofs but of the truth (section 5).
- *Ranges.* `EveryTwoRangesAgree`: for any integers as bounds, adjacent ones among them. The code
  compares bounds and does not know what lies between, as its comments say (`range.hxx:294`,
  `:317`). So it is exact for values that come as close as one likes, which
  half steps stand for: for these `empty()`, `contains()` and `==` are emptiness, inclusion and
  equality of sets. For the integers alone the intersection is exact, and what the others
  affirm is true; a range that holds no integer is called empty or is open around none.
- *Quoting.* `EveryValueIsQuoted` and `EveryPathIsQuoted`: the server reads the literal, or the
  names in a list, as what was quoted, and the text fits the room the code asked for. The
  server's reader is a function of places that goes two on over a doubled quote; the lemmas say
  where in the quoted text each character comes to stand. `EveryTextIsItsPattern`: the escaped
  pattern matches the text and no other, for texts without the escape character.
  `EveryParameterIsSent`: every entry in its place, with its length and format.
  `EveryOptionIsRestored`: for distinct keywords (libpq's are), and values that are not empty
  and have no blanks, quotes or backslashes, as those are written unquoted (section 5).
- *COPY.* `EveryRowIsStored`: however many rows are written, with whatever texts, the server
  reads these rows. `EveryRowIsRead`: `stream_from` and `stream_query` read from the server's
  line the row it was written for, and agree on the values for every choice of types. The
  characters COPY marks must be in the set of characters (`CopySigns`), so that fields with
  tabs, ends of lines, backslashes and what reads like a null are among those proved about.
  Three readers are machines that `Lead` over the fields (`RowParsed`, `FieldRead`, `RowCut`);
  `read_field` is a recursion over places and is taken from the tab back (`TextScanned`).

**`ValuesProofs`** proves of integers and binary data what `TextProofs` does of texts.
`EveryTextIsReadExactly`: any text, for an integer type of any width, is read as the number it
spells if the type has it, and refused if not; blanks before it are skipped and behind it are
not. The loop over the digits is followed from the left: once it has failed no further digit
brings it back, since a number with more digits lies further out.
`EveryIntegerGoesThrough` takes what is written, the lowest value's detour over an unsigned type
included, back to the value, and counts its digits against `digits10`.
`EveryBinaryGoesThrough` does the same for hexadecimal data.

It also ties the theorems of `TextProofs` to the run: `PickedIsInput` is the invariant of `ValuesSpec`, every
input of a part is an instance of the theorem's hypotheses, and so `TextsAlwaysScanned`,
`StatementsAlwaysSayIt` and `RowsAlwaysGoThrough` state the run's own properties. Their
strength is in the theorems they cite.

**Only model-checked:** of `ValuesGoThrough` the dates, nulls in wrappers, room for floats and
placeholders; `ArraysGoThrough` and the text of ranges in `RangesGoThrough`, whose
readers would need an induction of their own each, and `ResultsReadAlike`. `LibraryTypeOK` is the
conjunction of the types of all parts; the proofs establish the types part by part, as conjuncts of their
invariants (`PipeTypeOK` by name in `AlwaysPiped`), not the conjunction of the product.
`EveryCallEnds` and `PerformEnds` are liveness under fairness, which is beyond the provers.

## 5. Findings

Six are runs that TLC ends with the trace; two are stated by properties that hold (`values`).

- **`leak`** – `abort()` may send no `ROLLBACK`. A stream that fails in its
  destructor leaves a pending error; `do_abort` calls `direct_exec`, which
  throws it before sending; `abort()` swallows the exception and unregisters
  the transaction. The session stays in the failed block, for the next user of
  the connection. The documentation: "In no case will it leave half-finished
  work behind in the database" (`dbtransaction.hxx:31`). The destructor is
  right: it forgets the pending error first.
- **`late`** – `exec_params()` and `exec_prepared()` check no status, as `exec()`
  does: through an aborted object they run in autocommit.
- **`nested`** – `abort()` does not look at the focus, as `commit()` does. The
  forgotten stream ends the `COPY` of the *next* transaction; together with
  `leak`, a write of an aborted transaction is committed by a third one. A
  program must abort under an open stream to get there; no `Manager` method
  opens a stream.
- **`doubt`** – a `robusttransaction` asks for the outcome of a `COMMIT` whose answer was
  lost, and the query itself fails: with a timeout, an administrator's shutdown, an empty
  answer. `do_commit` catches `broken_connection` only (`robusttransaction.cxx:203`), so this
  leaves `commit()` as an ordinary failure, status aborted, though the work may be
  durable. "In that scenario, commit() will throw an in_doubt_error"
  (`transaction_base.hxx:107`). `perform` does not run the callback again after it, so work
  is not done twice.
- **`told`** – a `robusttransaction` that was told its `COMMIT` had failed ends in
  doubt all the same: `do_commit` then calls `do_abort`, which throws
  `broken_connection` on the connection that is lost, and the loop takes that for a
  query that failed (`robusttransaction.cxx:187`, `:198`) until its attempts are used up.
- **`sub`** – a `subtransaction` whose `commit()` throws has not rolled back to its
  savepoint: `transaction_base::commit` sets the status to aborted, and neither
  `abort()` nor the destructor sends `ROLLBACK TO` for an aborted one
  (`transaction_base.cxx:160`). A parent that catches the exception and goes on is
  inside a failed block.
- In **`values`**, `ShownAsMeant`: a client without phones is returned with one phone, `{}`, the
  text of an empty array (`Client_Manager.cpp:148`); on the screen the braces are erased, in
  `Client::phones` they are not. The task says a client may have no phone (`src/05/readme.md:45`).
- In **`values`**, `ValuesGoThrough`: integers are read with blanks or tabs before them
  (`strconv.cxx:424`), as `NEWS:236` and a test want it; `strconv.hxx:435` says "Whitespace is not
  stripped away." Behind the number they are refused.

More things the models say of the code, without a run of their own. A *habit* is a
constant of the module that lets its program do a thing; the run is without it, and
with it the named property fails.

- *Manager.* `FindClients` does not search phones at all (`Client_Manager.cpp:137` compares
  email and names only), though `src/05/readme.md:55` names the phone as one
  of four keys. The two ways to lose an update are closed by the server, not by the
  program: without the second look at the row after a wait (`LockBlindly`) or the row
  lock (`NoRowHolders`) `KeepsPromise` fails.
- *Transactions.* A program that catches an error of a transaction and goes on with
  it (habit "ignore") gets a normal return from `commit()` although the server rolls
  the block back: `CommitMeansDurable` is stated for strict RAII only.
- *Outcomes.* Habit "remote": the branch for an answered error looks at the exception's
  class, so one of class 08 on an open connection is asked about, and the answer
  "aborted" ends in a normal return of `commit()`. Habit "conflict": a query for the outcome that
  fails with a rollback makes `perform` run the callback again, also after a `COMMIT` that took
  effect; it takes a server that answers `txid_status` with class 40. `robusttransaction` never registers
  with its connection: two may be on one. `tx_unknown` is never produced.
- *Pipeline.* `flush()` does not reset `m_error` (`pipeline.cxx:111`, against
  `pipeline.hxx:99`; habit "error", with which later queries are refused and every property
  still holds). `cancel()` leaves the cancelled answer unread, and
  the next batch gets it: "Got more results from pipeline than there were queries"
  (habit "cancel"). A connection lost between the last result and the end of the
  answer gives the same logic error.
- *Cursors.* A stateless `retrieve(size, e)` returns row *e* (`cursor.cxx:46`, habit
  "beyond"). An iterator made after its rows have been read sees an empty block, as at
  the end (habit "late").
- *Subtransaction.* It never registers as a focus, so its parent may be used under it
  (`subtransaction.hxx:71` says it may not).
- *Blob.* `from_buf` with the id 0 and more than 2 GB leaves the object it has made
  behind (`blob.cxx:242` removes id 0; habit "anonymous"). `append_to_buf` turns a failed
  read's -1 into a size (`blob.cxx:293`); in the model it throws and leaves the buffer alone,
  but no read can fail there, just after it has been opened. A blob that outlives its transaction closes the descriptor of
  whoever has its number now (`blob.cxx:112`).
- *Session.* A receiver made in a transaction that is rolled back is deaf (habit "intx",
  `ReceiversAreListening`). A handler made for a closed connection keeps a dangling home
  (habit "closed", `SessionHeld`). The constructor with `connect_mode` leaks its `PGconn`
  when it throws (`connection.cxx:110`; that constructor is not modelled, so `SessionHeld` does not
  see it). `release_raw_connection` does not ask
  `check_movable`; the model's `Reseat` is of a program that releases a connection with nothing
  registered on it. `close()` does not reset `m_trans`. The POSIX branch of `set_blocking`
  is inverted (`connection.cxx:503`).
- *Focus.* Rows written to a stream that has been moved from go into the `COPY` of the
  one it was moved to. The message of `check_unique_register` names the new focus
  twice (`util.cxx:75`).
- *Encodings.* JOHAB's second test reads the first byte again; MULE_INTERNAL tests its
  second byte twice; GB18030 accepts 0xff as a lead byte.
- *Conversions.* The size of an array's or a composite's buffer counts no separators
  (`conversions.hxx:1084`, against `strconv.hxx:208`). A composite of one field is written
  as `(x,)`. `parse_composite` refuses an unquoted field that begins with a multibyte
  character (`array-composite.hxx:176`). The size of a null `optional` in such a buffer
  ends the program. Dates of years beyond 32767 wrap (`time.cxx:221`). The bounds of a
  range are not quoted.
- *COPY.* A conversion that throws inside a row leaves its beginning in the buffer, at
  the head of the next row (`stream_to.cxx:128`).
- *Ranges.* `empty()`, `contains(range)` and `==` do not know that no integer lies between
  adjacent ones, as their comments say; the properties state what they do know.
- *Results.* `row::to(tuple)` of a slice reads from the row's first column
  (`row.hxx:566`). `result::swap` leaves the encodings where they were.
- *Quoting.* `esc_like` does not escape the escape character (`connection.cxx:1031`).
  `connection_string` does not quote values with blanks (`connection.cxx:1212`).

## 6. What is not modelled

- *In `Transaction`:* prepared statements' names, `set_variable`, query helpers (no
  state of their own; what they expect of a result is in `Results`); a stream destroyed
  after its transaction (a dangling reference: the language forbids it); nested
  `BEGIN` by the user in SQL text; notices. Its streams do not move; those of `Focus` do.
- *In `ClientManager`:* cancelling a statement, isolation levels other than the
  default, tables left by other programs in another shape; `Manager`'s
  constructor, which only opens the connection. A connection known to be lost
  throws in the constructor of `work`: the call changes nothing and is no step.
  The whole transaction is not written through `Transaction` step by step: each
  method uses one statement and no stream, so the states of `Transaction` it
  reaches are those named by `pc`.
- *In `Outcomes`:* what else a callback may do with its connection; a backend id that
  is used again by another session while the outcome is asked for; the pauses between
  the queries.
- *In `Subtransaction`:* a parent used while its child is open, which the
  documentation forbids.
- *In `Pipeline`:* `get_further_available_results` on a lost connection takes what has arrived
  before it throws, in the model it throws at once (what has arrived may have been
  taken by a call before the loss); queries that contain a semicolon, which the documentation forbids;
  exceptions of memory.
- *In `Session`:* the polling of `connecting`, the loop of `get_notifs` over receivers
  that are destroyed by a callback, `cancel_query`, session variables.
- *In `CopyText`:* the life of `stream_from` and `stream_query` as foci.
- *Values:* the digits of floating-point numbers, which `std::to_chars` writes (the room
  the code gives them is modelled), and of times of day; types and tables of a
  result's columns.
- *In `PhoneList`:* backslashes, quotes, braces, tabs and ends of lines inside a phone, and
  the letter N, so that none reads `NULL`, which the array's syntax would treat differently. (`SqlArray`
  has them, for the array type of libpqxx, which `Manager` does not use.)
- *The book shop* (`src/06`) is one thread that calls Wt::Dbo, of which the repository
  has no source. What its hazards come to (a nested transaction after a failed one, a
  second run over the tables of the first, ids taken for granted) is decided by
  Wt::Dbo: a model would be a guess at it. They are listed as hazards without a
  property.
- *`largeobject`* and its streams: deprecated, the same calls of libpq as `blob`, under a
  `std::streambuf`.
- *Build files, tools, tests, manual; SQL homework:* no operations of a program.

## 7. Plan

Done: the modules of section 2 and the proofs of section 4. What would add most, in
this order:

1. *Proofs:* the readers of arrays and composite values and the text of ranges, as
   `TextProofs` does it for COPY; results; `LibraryTypeOK` part by part.
2. `get_notifs`: the delivery of notifications inside and outside transactions, and
   receivers that come and go in a callback.
3. `stream_from` and `stream_query` as foci, beside `stream_to`.
4. `connecting`: its polling, as a state machine over what libpq may answer.
