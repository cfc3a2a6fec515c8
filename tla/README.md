# A verification development for nip-ca-server

`nip-ca-server` is a certificate authority for the Neural Identity Protocol. The
released server is an ASP.NET host (`src/Program.cs`) around the external library
`NPS.NIP`; the certificate authority itself can be read in five ports under
`src/example`: Python, TypeScript, Java, Rust and Go. The ports share one SQLite
schema, one set of routes and one design, and differ in what is run without
interruption and in what becomes of an error. This directory models the five
ports and the counters of the .NET host in TLA+, checks them with TLC on small
instances, and proves the most important results for every size with TLAPS.

## The system

| component | state it keeps | operations | what is hard about it |
|---|---|---|---|
| serial numbers (`next_serial` of each port) | none; computed from the table | read the largest stored serial, add one, format | texts written in base 16 are read back in base 10 |
| table `nip_certificates` (`db/001_init.sql`) | one row per certificate: serial (UNIQUE), NID, entity type, key, dates, `revoked_at` | insert, revoke (one UPDATE), get_active, CRL | each call is atomic, sequences of calls are not; ties in ORDER BY |
| handlers register, register-x509, renew | request in hand: NID, key, serial, date | look up, take a serial, sign, insert, answer | races between requests, errors between the calls |
| handlers revoke, verify, CRL | date of the revocation; the row read | one database call each, and a clock read before or after it | answers made of a table and a clock read at different times; errors read as answers |
| start of the process | key file, root certificate file | load, or generate and save | crashes between and inside the writes; looks that fail and are taken for an absent file |
| dates (Rust) | none | seconds to year, month, day and back, by hand | leap years; texts are sorted, and parsed again |
| X.509 leaf | none | serial, key usage, DER, signature | serial and object identifiers converted by hand |
| metrics of the .NET host | three counters | count by path, method and status, after the handler | requests overlap, exceptions, classification |
| validation, discovery, health | none | answers from configuration | no state |
| .NET host, PostgreSQL schema (`src/db`) | in external libraries | none in this repository | |

The handlers interact only through the table, and with the process that is
started again only through the table and the two files. There are no callbacks
and no messages between components.

What makes each part correct:

- *serials*: unique and without gaps, as long as there are any;
- *table*: a ledger. A certificate is granted once, under a serial of its own; a
  revocation takes all certificates of its NID; nothing is revived and no date
  of the revocation list changes;
- *issuing handlers*: a client holds only certificates the table knows, a NID
  belongs to one subject (or to a bounded number, where requests race),
  renewals happen in the window, every request is answered;
- *the other handlers*: what an answer says held at some instant of the request;
- *start*: one key and one root through all crashes, as long as existing files are seen;
- *conversions*: what was written is read back, and order is kept;
- *metrics*: the counters agree with what was done.

`PROJECT.json` lists the hazards by source line with the properties that cover
them.

## Modules

| module | models |
|---|---|
| `Serials` | the serial numbers: `NextSerial` of a set of stored serials |
| `CaServer` | the table, requests, and the steps handlers are made of; revoke, clock, crash; the properties the ports share |
| `ThreadedCa` | the Rust, Go, Python and Java ports: which steps their handlers run, and what they make of errors |
| `Queries` | revoke, verify and CRL as requests of their own, next to the issuing handlers |
| `TsCa` | the TypeScript port: handlers as single steps of the event loop, `register-x509` as two |
| `Ledger` | abstract: the life of a certificate |
| `CaPromise` | abstract: the certificate authority as its clients would like it |
| `Boot` | how a process starts: key file and root file |
| `Calendar` | dates, as the Rust port computes, formats and parses them |
| `SerialText`, `Oid` | serials digit by digit and in the leaf; object identifiers of the leaf |
| `Conversions` | the three conversions side by side, for TLC |
| `Metrics` | the middleware of the .NET host and its counters |
| `MC*` | symmetry for TLC |
| `*Proofs` | the theorems |

They build on each other: `Queries` extends `ThreadedCa`, which extends
`CaServer`, which extends `Serials`; `TsCa` extends `CaServer` as well. The
abstract specifications are instances:

    Queries --KeepsThreaded--> ThreadedCa --KeepsLedger--> Ledger
    TsCa    --KeepsLedger----> Ledger
    TsCa    --Implements-----> CaPromise

`KeepsThreaded` says that the tasks that revoke, verify and list change the table
only as `ThreadedCa!Next` allows, so everything shown for `ThreadedCa` holds with
them. `KeepsLedger` maps the table to the two sets of the ledger: rows without
`revoked_at` are in force, rows with one are entries of the revocation list.

### State and actions

`rows` is the table. A row keeps serial, NID, entity type, key, `issued`,
`expires` and `revoked` (0 is NULL); capabilities, scope and metadata travel
with the key. A serial is the number its text was formatted from; 0..255 is
closed under `NextSerial`. `req[h]` is the request that handler `h` (a thread, a
goroutine, a task) serves: its phase and the local variables it carries from one
step to the next (a renewal keeps the expiry of the row it has read until it has
compared it with the clock). `delivered` is the set of certificates sent with 201 or 200.
`task[t]` is a request to revoke, verify or list; `row` is
the row verify has read. Two fields are a history: `seen` holds the verdicts that
have held of its NID since it came in, `current` the rows they were about.

In the threaded ports one action is one call of the database layer, or the code
between two calls: every call takes the lock or a connection of its own and
releases it before it returns, so requests interleave exactly there.

| phase | action | code (`src/example/rust/src`) |
|---|---|---|
| lookup | `DbGetActive` | `get_active` (`db.rs`), and the 409 or 404 the handler answers (`main.rs`) |
| window | `CheckWindow` | the clock a renewal reads after its row, and the 400 (`main.rs`) |
| serial | `DbNextSerial`, `LevelRejected` | `next_serial`; the assurance level (Java) |
| sign | `Sign`, `SignRejects` | `issue_cert`, `issue_cert_x509` (`ca.rs`); the date is taken here |
| insert | `DbInsert` | `insert`; UNIQUE or a database error makes it fail |
| answer | `Respond` | the answer with the certificate |
| revoke | `AskRevoke`, `DoRevoke`, `RevokeError` | the date of `iso_now`, then the lock and the UPDATE |
| verify | `AskVerify`, `ReadVerify`, `TellVerify`, `VerifyError` | `get_active`, then the comparison with `now` |
| CRL | `AskCrl`, `ReadCrl`, `CrlError` | `crl` |

The ports are instances of the constants that say what an error becomes:

| | Rust | Go | Python | Java | TypeScript (`TsCa`) |
|---|---|---|---|---|---|
| `QueryErrors`: get_active, revoke | absent (read as no row) | raised: 500 | raised | raised | 500 |
| `InsertErrors` | discarded | discarded | raised, rolled back | raised | 500 |
| `CrlErrors` | partial (200) | partial (200) | raised | raised | 500 |
| `Levels` | ignored | ignored | ignored | parsed, may be refused after the lookup | |
| error of next_serial | panic, connection closed | 500 | 500 | 500 | 500 |
| atomic | a call | a call | a call | a call | a handler, up to its `await` |

Requests that are refused before the first database call (401, 400) change
nothing and are not modelled. In `TsCa` a handler that throws without having
awaited has changed nothing and is no action either.

Time is counted in seconds of which `DaySeconds` make a day; the fraction of a
second by which the clock of a handler can be ahead of the stored date is left
out. `Crash` ends all requests and keeps the table. `Revoke` may be stamped with any
past second, because the date is taken before the wait for the lock. This allows
a little more than the code: after a crash also a second before the restart.
The `revoked_at` of the answer is a second call of the clock and not modelled.

In `Boot` a file is opened, which creates it empty, and written; the process can
stop between the two. The Rust port makes a new root at every start and ignores
an error when it writes the file (`rootMode = "reissued"`); Python, Go and Java
load the one they find. Whether a file exists is asked with a call whose errors
count as "no": `exists`, `os.Stat` (`src/example/go/main.go:94`), and for the root
of the Go port the read itself (`src/example/go/ca/ca.go:245`). So a look can miss
an existing file, which is then written over: `SeesNoKey` and `SeesNoRoot`, counted
by `keyMisses` and `rootMisses`. A file that is seen and cannot be read or parsed
ends the start. A start that fails before it has changed a file is no start.

In `Metrics` the handler of a request is external: it answers with any status or
throws, and only it knows whether a certificate was issued. `Count` is the
middleware, which sees method, path and status. Paths are those of the
repository's README, spelled as there.

## Runs

| run | question | bounds |
|---|---|---|
| `raising_table` | do table and clients' certificates stay consistent where errors are raised (Python, Java), and how much can race? | 2 threads, 1 NID, 2 keys, both entity types, 4 requests, 1 fault |
| `raising_full` | what happens when there are no serials left, when exactly is that; is everyone answered? | 2 threads, 12 requests: two more than the table holds; fair |
| `rust_table` | is the table a ledger where errors are read as answers, what is lost, and what does a lookup that fails open cost? | 2 tasks, 1 NID, 4 keys, 4 requests, 1 fault: one request and one key more than the bound on subjects |
| `queries` | can a revocation, a verification or a list be answered falsely? | Rust; 1 issuing task, 2 asking tasks, 2 certificates, validity 2 days, clock up to 3 days, 1 fault, 1 error of the asking tasks |
| `ts_atomic` | does the event loop keep the abstract promise, and the table the ledger? | 2 requests at once, 4 in all, 2 NIDs, 2 keys, 1 fault |
| `boot` | does the authority keep its identity through crashes, and what does a look that misses a file cost? | 3 keys, 5 starts, 2 misses, both root modes, fair |
| `conversions` | do dates, serials and identifiers read back? | every day of 400 years and two days more; every serial of two digits |
| `metrics` | do the counters agree with what was done? | 2 requests at once, 3 in all, every path, method and status |
| `window` | *violated*: renewals only in the window | 1 thread, validity 3 days of 2 seconds, window 1 day |
| `go_duplicates` | *violated*: one certificate per serial | 2 goroutines, 2 requests, no fault |
| `go_full` | *violated*: a next serial that is free | 1 goroutine, 12 requests |
| `metrics_rejected` | *violated*: only signing requests are counted as rejected | as `metrics` |

Why these bounds show the interesting cases: two handlers are what a race needs;
three or four requests allow register, renew, revoke, register again, with a race
in between; a day of two seconds and validities of one and two days put the
renewal window, expiry, and two certificates of one second all inside a clock of
two or three ticks; one fault is one error or one crash at any point. In `queries`
two asking tasks are a verification and a revocation that overlap, while a third
task renews; the clock passes the expiry of the first certificate, so a
verification can read a valid row and answer after it has run out, with or
without a revocation or a renewal in between. In `boot` two misses are a key and a
root, or one of them twice, and the bounds are reached. The calendar repeats after 400 years, and the conversion of an
instant is tried on seconds at the edges of minutes, hours and days up to 2038,
where TLC's integers end. What the small numbers cannot show (more handlers,
more requests, more faults, later days) is what the proofs are for. The runs of
`queries` and `rust_table` use the policy of the Rust port, in which most goes
wrong; the theorems cover every policy. Two NIDs meet in `ts_atomic` only; in the
other runs they would add states and no conflict, since NIDs share nothing but
the serials, and the theorems hold for any number of them.

The runs set `CHECK_DEADLOCK FALSE` because a server without requests, at the
end of its bounded clock, may rest. Symmetry is used for handlers, tasks, NIDs
and keys, and only in runs without liveness properties.

*Fairness.* `RequestsEnd` assumes `WF_vars(Serve(h))` for every handler: a
thread of the pool, a goroutine or a task that can go on is eventually run, and
no call of the database waits for another request. No fairness is assumed for
clients, the clock, errors or crashes. `ComesBack` assumes that the process is
started again (`restart: unless-stopped`,
`src/example/python/docker-compose.yml:4`) and that a started process goes on.

### What the runs show

The table is sound in every port: whatever interleaves or fails, the serials in
it are 1..k, and it is a ledger. The schema's UNIQUE and the single UPDATE carry
all of it.

In the TypeScript port UNIQUE does more: it is an optimistic lock. A
`register-x509` that was suspended can only insert if the table has not grown
since it took its serial, hence if its lookup still holds. This is why the port
implements `CaPromise`; the mutant that takes the serial after the `await`, an
innocent-looking improvement, breaks it.

The threaded ports do not keep that promise. Registrations that race for one NID
can bind it to two keys, renewals that race can both be granted, and a renewal
that is overtaken by a revocation still adds an active certificate. The last is
allowed by `RevocationTotal` and `KeepsLedger`: its row is a new certificate,
inserted after the revocation, and nothing in the repository says that a
revocation closes a NID. What the other races
can cost is bounded by the number of handlers (`SubjectsBounded`,
`OutsideWindowBounded`), in Rust plus the number of errors, and a certificate
that is delivered under a serial the table does not have costs an error of its own
(`LostOnlyByFault`). In Rust and Go the loser of a race is not stored either, but
its serial is, under another certificate: that is the first claim below.

Answers to revoke, verify and CRL requests hold at some instant of the
request in every port, until an error is read as an answer: in Rust a
revocation that failed and a certificate that could not be read are both "not
found", in Rust and Go an incomplete list is answered with 200. One answer holds in
a weaker sense. A verification that has read a valid row, is overtaken by a
revocation or a renewal, and reads the clock when the row has run out answers
"expired", which was never so of the NID. `AnswersTrue` allows this, and only when a
revocation or another row has come in between (`Overtaken`); also then the
certificate the answer quotes was the one in force during the request and has run
out. Whoever verifies nothing but that certificate is not misled.

One key and one root are kept through every crash and repair. What breaks that is
a look that misses an existing file: it costs one key or one root each, and after
one that missed the key a root that is loaded is still the old key's
(`RootMatchesKey` says nothing then). In Go any error of reading the root suffices.

The Rust calendar is the Gregorian one, its texts sort as time does, and an
instant survives being stored. Key usages read back from the leaf. The serial of
the leaf is that of its row in the Rust, Java and Python ports. In Go it is a random
one, because the parser refuses the prefix `0x`. TypeScript passes the prefix on as
well (`src/example/ts/src/ca.ts:303`), although the comment of the parameter asks for
a "hex string, no "0x" prefix" (`:244`); what its library makes of it is not modelled.
`LeafSerialIsRows` says which ports hand over a hexadecimal text.

Four claims the repository makes do not hold:

1. *Go answers 201 twice under one serial* (`go_duplicates`). Two goroutines take
   the same serial between their locked calls; the second Insert fails on UNIQUE
   and its error is discarded. The same holds for Rust.
2. *The numbering stops at ten* (`go_full`, all ports). `0x00000A` is read back as
   0, so `next_serial` returns 10 again and again, and every insert fails. This
   begins with the tenth certificate and not before (`FreshUntilTen`).
3. *Renewals open up to a day early* (`window`, all ports), because the time left
   is rounded down to whole days.
4. *A refused revocation is counted as a rejected signing request*
   (`metrics_rejected`).

Observed while reading, and outside the models: the TypeScript port exports its
public key in a format Node has only for private ones (`src/example/ts/src/ca.ts:30`)
and reads the raw seed as DER (`:90`), so its start fails; the Rust port writes
routes as `/:nid` (`src/example/rust/src/main.rs:362`), which the axum version it
pins refuses. `TsCa` and `ThreadedCa` describe the handlers as they are written.

## Proofs

The proofs assume `ConstantsAssumption` (finitely many handlers, parameters that
are natural numbers, a day and validities that are positive, a null value that is
no key), `PolicyAssumption` and `QueryAssumption` (the policies of the table above),
`BootAssumption` and `MetricsAssumption`. They hold for any number of handlers, tasks, NIDs, keys,
requests and faults, and for every port unless said otherwise.

- `CaServerProofs` begins with the serials: on a table with the serials 1..k, k at
  most ten, the next serial is k + 1, or ten if k is ten (`NextSerialExtends`).
- `CaServerProofs`, `ThreadedCaProofs`: the inductive invariant `CoreInv` joins
  types, dense and unique serials, the serials in the handlers' hands (each in
  use or next), and revocation. `SerialsDense` and `RevocationTotal` need each
  other's help: that a row inserted later has a larger serial follows only from
  density, and density only from what the handlers hold. There is one lemma per
  step, shared by all ports. `LedgerIsKept` maps an insert to `Grant`, because
  UNIQUE and density make its serial new, and an UPDATE to `RevokeAll`.
  From density also follow `SerialsFreshUntilTen` (a table that is dense has the
  serial ten exactly when it is full) and `TenAtMost`: no table ever holds more than
  ten rows.
- `RequestsAdvance` is the half of `RequestsEnd` that is about single steps: a handler's
  step lowers the number of steps its request has left, which is six at most, and
  no step of another raises it. With fairness, which TLC's run adds, every request
  ends.
- `RecordedInv`, for the ports that raise errors: delivered certificates are in
  the table and unique by serial. It rests on a handler that is about to answer
  having its row in the table, which is not so in Go and Rust.
- `BoundsProofs`: `SubjectsStayBounded` counts, besides the subjects of a NID, the
  handlers that may still bring it another one (`Pending`): while the NID is in
  use the sum does not grow, except by an error read as an absent row.
  `RenewalsStayBounded` counts, besides the certificates outside their window, the
  handlers that have decided to add one or are going to (`Renewing`). A renewal
  reads its row in one step and decides in another, and may have been overtaken in
  between; so the count is made for every threshold y at once, of the rows that
  expire after y and of the handlers deciding on an expiry up to y. With y the
  expiry a handler has read, which was the latest of its type, it is counted from
  its lookup on. While there is a row outside, a lookup that tells the truth adds
  no handler. Time only moves certificates into the window.
  `LossesStayPaid` counts the certificates lost and those about to be.
- `QueriesProofs`: `TaskInv` says what a task may rely on between its steps (the
  verdicts of now are among those it has seen, and the rows of now among those it
  was verified by; the row verify has read is one of these and, if it is still
  unexpired, was seen valid; the list only grows). If verify then says "expired",
  either its row is still the one the NID is verified by, and "expired" is the
  verdict of now, or the request has been overtaken (`ExpiredIsSeen`). From it follow `AnswersStayTrue`,
  and `QueriesRefine`, which needs that a revocation's date is not in the future.
  Through it what is proved of `ThreadedCa` holds with the tasks: `QueriesKeepTable`,
  `QueriesKeepLedger`.
- `ConversionsProofs`, dates: the conversions from days to dates and back are inverse
  for every day, those of instants for every second, since 1970. `CalendarIsKept`
  says that the dates are those of the Gregorian calendar on every day without
  end: within an era of 400 years, by the first days of its years and months.
- `ConversionsProofs`, texts: two and four digits stand for the number they were
  written from and sort as it does; so the text of an instant is read back as the
  instant (`StoredInstantIsRead`), and of two instants the later one has the later
  text (`TextsSortAsTime`), for every second up to the year 9999. After it `{:04}`
  writes five digits and the order of texts is no longer that of time, so the
  hypothesis `LastDay <= LastFourDigitDay` of `TextOrderKept` is needed.
- `ConversionsProofs`, serials: the text of a serial is found digit by digit, and
  CAST stops at the first digit that is not decimal: `ReadingIsCast`,
  `StopsAtTen` and `LeafSerialIsRows` hold on every serial.
- `ConversionsProofs`, object identifiers: a 64-bit number has nothing left after ten
  shifts by seven bits, so `EncodeArc` writes all of it; a reader of its bytes holds,
  after each of them, the arc without the septets still to come; so the bytes of
  arcs one after the other are read as these arcs, however many there are
  (`IdentifierReadsBack`). `UsageReadsBack` says this of the key usages, for every
  64-bit arc LabAcacia might have. Powers of two above 2^60 are written as numerals,
  because the prover multiplies numerals in 63 bits.
- `TsCaProofs`: `TsInv` adds that a suspended registration whose serial is still
  free has seen the present table. Hence two suspended registrations with a free
  serial hold the same one, and the one that inserts takes it from the other.
  From it follow `OneSubject`, `SuspendedIsCurrent`, `DeliveredRecorded`,
  `TsTableIsKept`, `TsLedgerIsKept`, `TsTenAtMost`, and
  `KeepsPromise`: every step of the port is a step of `CaPromise` or a stutter.
  `DatesInv` adds the dates: no row is dated in the future, and a row expires its
  validity after its date. A row that was issued later therefore expires later
  within a NID, which has one subject; so the most recent row, which `renew` and
  `verify` read, stands for the others (`OneOutsideWindow`, `VerifyFindsValid`).
- `BootProofs`: until a key is complete in its file nothing is signed with it, and
  the process holds what the file says. What has been served with and what is safe
  in its file are together at most one more than the looks that missed it
  (`Counted`), since a file changes from one complete content to another only
  after such a look; this gives `OneIdentity`, and `OneRoot` where the root is
  loaded. As long as no look has missed the key every root, on disk, in memory or
  shown, is under it (`RootMatchesKey`). As long as no look has missed anything,
  the invariant also gives the half of `ComesBack` that is about states and single
  steps: once it has served, no start meets a file it cannot read
  (`ServedIsUnhindered`), and every step of a start brings it nearer to serving
  (`StartsAdvance`).
- `MetricsProofs`: an answer is uncounted from the handler's return to its count,
  each slot on its own, and the middleware sorts requests as the README does;
  hence `CountersBalance` for any finite number of requests in flight.

What a recursive definition computes cannot be proved by the library's induction
theorems here, since they take an operator as their parameter. Two arguments take their
place. Where the domain is small (the digits of a serial, the places of a
number) the table of the recursion is written down: it satisfies the definition,
and what satisfies it is found index by index. Where it is not (the shifts of an
arc, the bytes of an identifier, its arcs) the proofs use that a set of naturals
that begins with 0 and never ends holds them all (`AllNaturals`), which follows from
a set without a least element being empty (`WFMin`); the set is one of positions up
to which a claim holds.

Only model-checked: the liveness properties `RequestsEnd` and `ComesBack`, which
are out of the prover's reach; what the proofs leave to the run is that a step that
can be taken is taken. Every other property of a passing run is a theorem.
Not proved are, of course, the four properties the code violates. TLC looks at
instants up to 2038 only, where its integers end, and at the serials of two digits,
which are all the serials of the model.

## Not modelled

- Encryption of the key file, a changed passphrase, canonical JSON, DER and
  signatures: conversions without state, done by libraries.
- The start of the TypeScript port, which fails (see above), and what the library
  that encodes its leaf makes of a serial with a prefix.
- Spellings of a path other than the README's, which the middleware of the .NET
  host sorts by their beginnings and endings.
- Request validation, authorisation, discovery, health: no state.
- Configured validities that are negative, which `days as u64` of the Rust port
  would turn into large numbers; the repository's configurations are positive.
- The .NET host and the PostgreSQL schema: the code that uses them is not in the
  repository. ACME issuance, which the external library answers under paths of its
  own, is not counted by the middleware.
- Two processes on one data directory: the compose files start one.

## Plan

Built, in this order: `Serials`, `CaServer` and the threaded ports, `TsCa` with
`CaPromise` and the refinement, `Boot`, `Calendar` and the other conversions,
`Metrics`, `Ledger` and `Queries` with their refinements, the proofs of the invariants
and refinements, and those of the conversions.

Next: a promise weaker than `CaPromise` that the threaded ports keep, with the
number of subjects of a NID as its parameter. Until then `Ledger` and the two
bounds say what they keep.
