# yaffle in TLA+

yaffle receives log messages as GELF and as syslog datagrams, turns them into
documents, posts them in batches to the search engine Quickwit, and serves a web
page on which they can be searched. This directory holds TLA+ models of that
program, what TLC checks about them and what TLAPS proves.

Line numbers are of `src/yaffle-server/src/main.rs` where no other file is named;
`gelf.rs`, `syslog.rs` and `schema.rs` are its neighbours, "macros" is
`src/yaffle-macros/src/lib.rs` and "app" is `src/app/src/lib.rs`.

## The system

| Component | State it keeps | Operations | Talks to |
|---|---|---|---|
| GELF reception (`gelf.rs`) | the map `partials`, an expiry channel of 10, one sleeping task for each entry ever made | receive a datagram, classify, store or complete a chunk, expire an id, send a message on | the socket; the ingest loop by a channel of 10 |
| Syslog reception (`syslog.rs`) | none between datagrams | receive, parse, send on | the socket; the ingest loop by a channel of 10 |
| Ingest loop (135-215) | the merge's turn, the batch being gathered and its timer, the request body | poll two channels, batch by size, age or end of stream, convert, post | both channels, DNS, Quickwit, the shared settings |
| Document conversion (`schema.rs`, macros) | none | from_gelf, from_syslog, is_valid, do_reverse_dns | called by the ingest loop |
| Start and shutdown (81-124, 217-249, 282-385) | the wait of the backoff, the shutdown channel, the settings' mutex | describe and create the index, back off, serve, drain, exit | Quickwit; HTTP server and receiver by a oneshot channel and the mutex |
| Search (387-480, app 263-297) | none between requests | time range to start time, build the URL, columns and rows of the answer | Quickwit, the shared settings |
| Column preferences (app 32-77, 111-135, 184-195) | a cookie, and a set of names for each open page | read the cookie, toggle a column, write the cookie | the browser |
| Quickwit requests and index schema (`quickwit.rs`, macros 279-344, 86-103) | none | the mapping of each field, what its JSON leaves out | Quickwit, once |
| Page, build | none of their own | rendering; image | - |

Data flows one way: socket, receive loop, channel, ingest loop, Quickwit. What
flows back is pressure (a full channel makes `send().await` wait, and the receive
loop then neither reads its socket nor handles expiries) and ends: a dropped
receiver makes a send fail, which ends a receive loop; dropped senders end the
merged stream, which ends the ingest loop; its end, or a panic on the way, resolves
`shutdown_rx`, which drains the HTTP server and ends the process.

### What is hard about it

* *Interleaving.* The receive loops, the expiry tasks and the ingest loop run
  concurrently over four bounded channels; several servers may create one index.
* *Stale state.* An expiry request names an id, not an entry. The timer of a batch
  that was returned by size goes on running. Two tabs share one cookie.
* *Loss, duplication, reordering* of datagrams, and of senders' chunk ids.
* *Partial failure.* A request may be carried out and its answer lost. A refusal
  whose reason cannot be read ends the ingest loop. The end of a receive loop is
  noticed by nobody.
* *Boundaries.* Counts of 0 and 1 chunks, the length of a batch as a divisor,
  casts between integers and floats of different widths and signs.
* *Liveness.* Entries must be given up, a batch that never fills must be posted, a
  quiet source must get its turn, the server must come up and go down.

`PROJECT.json` lists each of these at its line, with the properties that would be
violated if it went wrong.

### What makes each component correct

* GELF reception: a payload is assembled only from fragments of one id, one for
  each position, each used once; no decoded message is lost while somebody
  receives; no entry leaks; the task never panics.
* Ingest loop: every accepted record is settled once, in its source's order, in
  batches of 1 to `BATCH_SIZE` that are stored whole or not at all; the timer
  always belongs to the batch; neither source starves; nothing waits for ever.
* Start and shutdown: it receives only when the index is there; it never gives
  up; the end of ingestion takes the whole process down, but leaves no search
  unanswered.
* The process: no record is stored twice and a crash loses little; pressure passes
  off as long as Quickwit answers; the end of ingestion is the end of the process.
* Conversion: what is posted is complete, of the declared types and dated, and the
  index can read it, but for times that no index reads; a time is the one that its
  sender gave; a record is skipped only for a cause.
* Syslog parser: text is never lost between the optional parts, and well-formed
  headers are recognised whatever the text behind them looks like; a message is
  dated when it was sent.
* Search: a value stands in its field's column and its document's row; the window
  searched is the one on the label.
* Column preferences: what was chosen last, in any tab, is what the next page shows.

## The modules

| Module | Role | Models |
|---|---|---|
| `GelfService` | abstract | what GELF reception promises: a set of fragments, no map, tasks or expiry channel |
| `GelfRecv` | detailed | `gelf::run_recv_loop` with `parse_packet`, `assemble_chunked` and the expiry tasks |
| `GelfRecvProofs` | proofs | its invariants; that it implements `GelfService` and `Receiver` |
| `Receiver` | abstract | what any receive loop promises to `run_server`, which does not watch it |
| `Relay` | abstract | what ingestion promises of the records it accepted |
| `Subsequences` | function | the elements of a sequence that are in a set |
| `Ingest` | detailed | `ingest_loop`, with the polls of tokio-stream's `Merge` and `ChunksTimeout` |
| `IngestProofs` | proofs | its invariants; that it implements `Relay` |
| `Lifecycle` | detailed | `main`, `run_server`, `get_or_create_index`, the HTTP server, crash and restart |
| `LifecycleProofs` | proofs | its invariants |
| `Yaffle` | composition | a whole server process: two receive loops, `Ingest` and `Lifecycle`; death and restart |
| `YaffleProofs` | proofs | what is stored is in order and never stored twice; what a crash loses |
| `Schema` | functions | the 62 fields of `Document` with their attributes, and the index mapping derived from them |
| `Document` | functions and a machine | the conversions that the macro derives, `is_valid`, `do_reverse_dns` |
| `DocumentProofs` | proofs | what is posted, when a record is skipped, that times are kept, and what the index reads |
| `SyslogTime` | functions | the value of an RFC 3164 time, with year and daylight saving |
| `SyslogRecv` | machine | `syslog::run_recv_loop`, one action for each part of the parser |
| `SyslogRecvProofs` | proofs | that no text is lost, that headers are read back, when a message is dated; that it implements `Receiver` |
| `Search` | machine | `perform_search` and `ServerAPIImpl::search` |
| `SearchPage` | composition | `SearchPage` of the app on top of `Search`: navigation, the table, the column preferences of several tabs |
| `SearchPageProofs` | proofs | the table, the columns a tab opens with |
| `DataInduction` | lemmas | the least element and induction, for sets of natural numbers |
| `MC...` | instances | small sets for TLC |

An operator whose comment begins with "Mutant" is not used by the model. It is a
plausible bug of the definition next to it; `PROJECT.json` says which property
it violates when it takes that definition's place, so that every property is known
to be able to fail.

### How state and actions correspond to the code

**GelfRecv.** `pc` and `hand` are where the task stands and what it holds. A
`tokio::select!` is two actions enabled at `pc = "select"`, `RecvFrom` and
`Expire`; everything between two awaits is one step, except that `parse_packet`
takes a step for each recursion. `partials` is the map. `stage` and `tid` are the spawned tasks:
sleeping, sending, or with their request in the channel. `owner` is a history
variable: which task was spawned with the entry; the code does not know that,
and it is what the properties are about. A payload is what `parse_packet` makes of it -
a message, a chunk or an error - and `Join`, the payload that complete pieces
concatenate to, is a parameter: a chunk may be compressed, wrong, or a chunk
again. When the loop ends, `DropLoopState` drops what it owned.

**Ingest.** `Merge::poll_next` polls the stream whose turn it is, then the other,
and the receive loops may send in between, so that each poll is an action.
`ChunksTimeout` sets its timer when the first item of a batch arrives and looks at it only
when no item is ready (`SecondEmpty`); a batch returned by size leaves it running.
A record carries the outcome of its conversion. `armedFor` and `passed` are history
variables. A POST is stored, refused, lost, or stored with its answer
lost (`Failed`), and `RefusedUnread` is the `?` on reading the reason. `Pending`, what
`Relay` sees of it, is the records of a source in the batch being settled, in the one being
gathered and in the channel.

**Lifecycle.** One record of state for each server, and Quickwit's reachability and index
shared by all; nobody deletes the index. `baseUrl` is whether the configured URL can be a base: where it
cannot, `build_search_uri` panics at line 393 with the lock held. `Crash` restarts a
process anywhere. `CreateFails` includes the answer that is lost after the index
was created. An answered search is one step; it touches nothing else.

**Yaffle.** `EXTENDS Ingest` and an instance of `Lifecycle` with one server. A receive
loop is what `Receiver` says: `holding` is the record that it waits to send; that the
GELF loop is such a loop is `ImplementsReceiver`, and that the loop of `SyslogRecv` is one
is `EndsOnlyWithIngest` of `SyslogRecvProofs`. `Restart` is a crash anywhere or a start after the exit: all that was in
memory is gone, and a batch that was being posted may still be stored. `stored` is
Quickwit's. The datagrams that a new process receives are new records.

**Schema and Document.** Every field with its keys, conversions, Rust type and storage
type. The messages and the names that the DNS may give are parameters. `Given` is the keys of a field
that a message has, `Alternative` what one of them makes of it. Times and widths are scaled: `UsPerSec`, `NsPerUs`
and `Word` for 10^6, 10^3 and 2^64; a GELF time counts half seconds, so that there are
fractions, but none below a microsecond: a positive time that is cut to 0 does not occur. `as u64` saturates for floats and wraps for integers, as in Rust.
`FieldMapping` is the mapping that the macro writes down, `Serialised` leaves out what
`skip_serializing_if` does, and `Index` is that with Quickwit's defaults (external) put back. `QuickwitDates`, also
external, is the times that Quickwit reads as unix timestamps: within an i64, but the
repository does not say which. `Datable` is the times whose nanoseconds are positive in an
i64, 1970 to 2262. `SentUsec` is what the sender said, without any cast.

**SyslogRecv and SyslogTime.** A datagram is a sequence of tokens, classes of text that the
parser tells apart, and each optional part takes some off the front. `clock` is when the
datagram was sent and what the clock shows while it is parsed. Times count hours, in
years of `YearHours`, with daylight saving from `DstStart` to `DstEnd`: what the sender
writes has no year, and local times may stand for no time or for two.

**Search and SearchPage.** A hit is a function from fields to displayed values. `Sorted` puts the
fields of an answer into the order of `field_custom_sort`, which is the order of every row; a
column that is not enabled is left out of the page, where the others keep their order. `cookie` is shared by the tabs, `cols` is the signal of
each; the effect that writes the cookie runs with the signal, so both are one step.
The searches of one tab, `Page`, are followed. `Navigate` changes the parameters while
a request may be under way, whose answer is then never shown: that `create_resource` drops
it is taken from leptos, and no property is about it. `last` is a history variable.

## The runs

| Run | Bounds | Shows |
|---|---|---|
| `gelf` | 2 senders, 2 ids, counts to 3, 3 expiry tasks, channels of 2 and 1 | chunk assembly under any loss, duplication, order and mixture: `TypeOK`, `LoopNeverPanics`, `OnlyIncompleteKept`, `EntryHasPendingExpiry`, and `ImplementsService`, `ImplementsReceiver` |
| `gelf_live` | 1 sender, 2 tasks, channels of 1 | `EntriesReclaimed`, `LoopComesBack` |
| `gelf_stale` | as above, 3 tasks | **violated**: `ExpiresThisEntry` |
| `ingest` | batches of 2, channels of 1, 3 records a source, 5 in all | `TypeOK`, `BatchBound`, `TimerCoversBatch`, `MergeIsFair`, `ImplementsRelay`, and `EveryRecordSettled`, `EndsWithSenders` |
| `yaffle` | batches of 2, channels of 1, 4 records, 1 search, 1 restart | `StoredOnce`, `LossBound`, and `HeldIsSent`, `EndReachesExit` |
| `lifecycle` | 2 servers, 1 crash, 1 search each, good and bad URLs | `TypeOK`, `ReadyHasIndex`, `ExitIsClean`, `RetriesForever`, `EventuallyReady`, `ExitFollows`, if Quickwit answers no 5xx |
| `lifecycle_5xx` | no crash, Quickwit may answer 5xx | **violated**: `ReadyHasIndex` |
| `document` | some 7000 records: every kind of value under one or two keys of a field, times up to the last with an i64 of nanoseconds and the next | `TypeOK`, `WrittenIsComplete`, `IndexReadsWritten`, `TimesKept`, `GelfDatedAfterEpoch`, `SkippedForCause` |
| `syslog` | any four tokens behind a priority or none and any timestamp; behind a classic timestamp any six tokens of a header's kinds, and every header with any three tokens of text; years of 12 hours | `TypeOK`, `ReadsBack`, `SpacedTextKept`, `NoTextLost`, `DatedWhenSent` |
| `syslog_5424` | any two tokens | **violated**: `Rfc5424HostRead` |
| `search` | 2 tabs, 4 clicks, answers of 2 documents with different fields | `ColumnsInOrder`, `PageShowsHits`, and `OpenedAsLeft` |
| `search_label` | one document, each time range | **violated**: `WindowIsLabel` |

Why these bounds are enough to be telling. *gelf*: two chunks make a message and three slots
make an incomplete one that can still be filled in any order; a chunk inside a
chunk, counts 0 and 1, a number beyond its count and two senders with one id are
all among the datagrams; with three tasks an id can be used again while the task
of its completed message sleeps, and both channels fill. *ingest*: four records make
two full batches, so that a timer can be left over; three records of one source are what it
takes to pass over another twice and once more; with a channel of one the senders
are held back all the time, and what passes through the channels' order is kept
by `Relay`. *lifecycle*: two servers race; one crash between the creation and its answer.
*yaffle*: with a batch under way and a record in its channel, a source still has one in
hand, so that pressure reaches its receive loop; a restart while a batch is posted.
*syslog*: a header with host, identifier and process id is six tokens - host, space,
identifier, process id, colon, space - and what looks like another header in the text behind it
three, all of which the run has; a message may be sent and parsed on either side of New Year and of both changes of the clock. *search*: four
clicks empty the set of columns. *document*: the time fields meet values before, at and
beyond each end of `Datable` and of `QuickwitDates`. The proofs do away with the
bounds for what they cover.

Runs have `CHECK_DEADLOCK FALSE` because the program really stops: loops end with their
peers, a document is written, a search is answered. The end of the receive loops is
in the model, so that a state without successor is a state after the end.

### Fairness

* `GelfRecv`: the task is scheduled (weak fairness). `select!` picks among ready
  branches at random, so a branch that is ready again and again is taken: strong
  fairness on `Expire`. tokio's channels give room to waiting senders in order:
  strong fairness on `SendExpiry` and `SendPipe`. `Drain` assumes that the ingest loop
  reads on. Nothing is assumed of the sockets.
* `Ingest`: polls, the timer and conversions happen. Every POST is answered or
  fails: the client sets no timeout, so this is an assumption about Quickwit and the
  network. Which answer comes is not assumed, nor that a sender sends anything.
* `Yaffle`: tasks are scheduled, time passes, searches end. Not assumed: that a POST
  is ever answered, which is the premise of `HeldIsSent` and all that it needs; that
  datagrams come, that the process dies or does not.
* `Lifecycle`: tasks are scheduled, sleeps end, requests are answered or fail. Not
  assumed: that Quickwit is up (it is the premise of `EventuallyReady`), or when ingestion ends.

## What is proved

For every value of the constants that satisfies the assumptions named in the modules,
every safety invariant that a run checks and every safety refinement:

* `GelfRecvProofs`: `TypeCorrect`, `NeverPanics`, `CompleteNotKept`, `NoEntryLeaks`;
  `Implementation`, that `GelfRecv` implements `GelfService`, and
  `EndsOnlyWithIngest`, that it implements `Receiver`.
* `IngestProofs`: `TypeCorrect`, `BatchesBounded`, `TimerIsOwn`, `MergeFair`;
  `Implementation`, that `Ingest` implements `Relay`.
* `YaffleProofs`: `NeverStoredTwice`, `LossBounded`.
* `LifecycleProofs`: `TypeCorrect`, `IndexBeforeReady`, `CleanExit`, `NeverGivesUp`.
* `DocumentProofs`: `TypeCorrect`, `PostedComplete`, `TimesAreKept`, `DatedAfterEpoch`,
  `SkippedCause`, `PostedIsRead`.
* `SyslogRecvProofs`: `TypeCorrect`, `WholeText`, `SpacedText`, `ReadBack`, `SentTime`;
  `EndsOnlyWithIngest`, that `SyslogRecv` implements `Receiver`.
* `SearchPageProofs`: `Ordered`, `ShowsHits`, `Opened`.

The assumptions say what the code or its libraries give: sizes and capacities are positive
(`IngestAssumption` and its likes), the fields of the message structs have their Rust types
(`MessageAssumption`), text is split into the tokens it can be split into and a datagram is parsed
after it was sent (`SyslogAssumption`), daylight saving begins and ends within the year
(`SyslogTimeAssumption`), Quickwit's dates are within an i64 (`DocumentAssumption`), a document of an answer has known fields only (`SearchAssumption`), and
what is absent is no value (`None`). TLC evaluates each of them on the constants of a run.
Two assumptions about libraries are in definitions: that the first of the two times in chrono's
`Ambiguous` is the earlier one (`Earliest`; chrono 0.4.24), and what Quickwit reads into a field
(`ReadableAs`, `QuickwitDefault`).

Facts about data of any length - a function that recurses over a sequence, the longest
prefix of tokens, a sorted order, the first of several keys - rest on `DataInduction`: that a set of
natural numbers has a least element, and that one which holds 0 and with n also n + 1 holds all.
They are stated of sets, because the provers cannot use a theorem about an operator;
a proof by induction defines the set of the lengths for which the fact holds.

*GelfRecv.* The properties are inductive only together. A complete entry is never
stored because a chunk is stored only if its entry stays incomplete. That no
join panics needs that every entry has at least two slots, which the map keeps
since a first chunk with a count below two is refused. That no entry leaks needs more: that
a task has one stage and one request, that its id does not change while it
has work to do, and that a task that owns an entry is not free, for else it could be spawned
again for another id. The refinement maps the filled slots of the map to a set of fragments;
a stored chunk is `Hold`, or `Ignore` if its number is beyond the entry; a completing
chunk is `Assemble`; an expiry is `GiveUp`; the tasks' steps stutter.

*Ingest.* `BatchBound` and `TimerCoversBatch` are inductive with the type invariant.
`MergeIsFair` is not: `FairTurn` adds where the turn must stand. Whoever has been
passed over twice is polled next; while the other source is preferred at most one record was taken; and
after a poll that found the preferred channel empty nothing was. `Implementation` needs
`Batched` besides: records that were taken are either in the batch being gathered or in the one being
settled, `buffer` holds the valid ones of those that were converted, and in a channel are
records of its own source. Taking a record then leaves `Pending` as it is, a batch's end takes the
batch off its front, and the end of the loop is `Stop`. The lemmas on `Among` say
what it selects and how it goes on with `Append`.

*Yaffle.* That nothing is stored twice follows from an order: the records of a source are
numbered as they are sent, and the invariant `OInv` says that along the way they
take - `stored`, the body of the request, the rest of its batch, the batch being gathered,
the channel - the numbers of a source only rise, and none is above what was sent. A step moves
records from one place to the next or drops them, which keeps the order (the lemmas on
`Append`, `Tail` and `\o`); a restart empties all places but the first. `OInv` also says which
places are empty at which `pc` (`Stages`), and that gives `LossBounded`: while a batch
is converted or posted no other is gathered, and while one is gathered it is not full. Nothing about searches, the HTTP server or
the index is needed.

*Document.* The invariant says that the document is what the record decodes to, but for
the host name, which the lookup may have filled in, that what was decoded is valid once it is looked up
or written, and that a record which was skipped is not. The properties are then
about the conversions: each conversion gives a value of its field's type
or fails, and the first of the keys that are there is the one taken; on `Datable` every cast and
wrap is the identity, so that the conversions of times multiply and divide exactly; and each of
the mappings reads what its type can hold, the two for times what Quickwit has dates for. The last
is shown for the 62 fields by the kinds of fields there are.

*SyslogRecv.* The parser's parts come one after the other, so what each finds is a function of
the datagram and the clock: `Stamped` is what is left behind the priority, `Body` behind the time,
`Tagged` behind the host, `Remainder` behind the rest. `IInv` says for each `pc` which of these
`remaining` is (`RemainingIs`) and which fields of the message are what was found (`HeaderIs`,
`TextIs`). The properties are theorems about those functions.

*SearchPage.* `IInv` says that the cookie holds what was chosen last, but for the empty name (`CookieIsLast`), and
that the table on the page is one of the hits with columns that are sorted (`Table`); that a sorted order of
any set of fields exists, which makes the `CHOOSE` of `Sorted` one, is proved by induction on their
number.

*Lifecycle.* `ReadyHasIndex` is proved under the premise that Quickwit answers no
5xx, which is the code's own assumption and what `lifecycle_5xx` shows to be
necessary. `NeverGivesUp` needs that only a search with a bad URL poisons the lock.

### Only model-checked

The liveness properties, which are beyond the prover: `EntriesReclaimed`, `LoopComesBack`,
`EveryRecordSettled`, `EndsWithSenders`, `HeldIsSent`, `EndReachesExit`, `EventuallyReady` and
`ExitFollows`. That the properties of the violated runs fail is TLC's finding by its nature.

## Where the code disagrees with itself

* `gelf_stale`: "In 5s, send a message via the channel to expire this entry"
  (gelf.rs:87). The request holds an id only, and is not withdrawn when the message
  completes, so that it may expire the first chunks of a later one.
* `lifecycle_5xx`: "Found existing index" (121) is reached for every status but 404.
* `syslog_5424`: the parser takes an RFC 5424 header (syslog.rs:173), but leaves the space
  behind it, where no host name can begin; host and identifier stay in the message.
* `search_label`: "2h" is 180 minutes, "8h" is 720 (app 22-23).

Described by the models, but judged by no property, because nothing in the
repository says what should be: a syslog time before 1970 is cast with its sign and becomes one
far ahead, which passes `ts > 0` (schema.rs:29, 408); a GELF time of `inf` is posted as the
largest u64 (schema.rs:36), which is no date to Quickwit - `IndexReadsWritten` and `TimesKept`
say of which times they speak; a value that does not convert
rejects a record even under a key that is not used (macros 87; `SkippedForCause`
allows it); host names with a hyphen are not host names (syslog.rs:147); a POST that
failed may have been stored, and one that failed before it arrived is not tried
again; a message that is parsed in a later year than it was sent in is dated a year
late (syslog.rs:120; the premise of `DatedWhenSent`).

## Not modelled

* Layout, hydration and the error page; socket activation, configuration and logging;
  the build: no state of their own, or input and output only.
* The text of a query and the URL built from it, and how a value is displayed: they are
  one opaque value. The `selected` time range of the form, which is computed once.
* The tantivy schema, which nothing uses; the retention settings, a constant.
* DNS: `do_reverse_dns` is any name or the address.
* Reading documents back: what Quickwit returns for a time depends on the default of
  an `output_format` that the request leaves out, and the repository does not say.

## How the modules were built, and what could follow

`GelfRecv`, `Ingest`, `Lifecycle`, `Document`, `SyslogRecv` and `Search` came first, each
with its properties; then the compositions `Yaffle` and `SearchPage`, the schema, the
syslog time, and the proofs about them.

What is left would repeat what is here or leave the prover's reach: a
refinement of `Yaffle` as a whole, whose parts are proved, and two processes of `Yaffle` with
one index, which share nothing but what `Lifecycle` models already.
