# A model of the OrangeCheck relay

The repository runs `relay.ochk.io`: a strfry Nostr relay, in one Fly machine,
behind a Go front that replaces visitor addresses by a daily pseudonym, with a
write-policy plugin that strfry asks about every event. This directory models
the parts the repository itself wrote: the plugin and its limits, the directory
gate it asks in turn with all it reads, the front, the store rewrite at boot, and
the reads the archive is made from. strfry, Fly, Esplora and the
`@orangecheck` libraries are outside the repository; where a model needs one of
them it appears as a step that may have any outcome the code must be ready for.

## Inventory

| component | source | state it keeps | operations |
|---|---|---|---|
| write-policy main loop and directory bridge | `policy/oc-dtag-filter.py` `main`, `lines`, `DirGate` | the event in hand, `DirGate.proc`, `buf`, two pipes | receive, decide, ask, read, skip, time out, answer, stop |
| write limits per source | same, `SourceLimits` | `sources` (ordered), `limited`, `counts`, the counts file | `check`, `refused`, `_roll`, `_source`, `_limit`, `_flush`, `write_waiting`, `stop` |
| prefix gate | same, `decide`, `gated`, `chat_shape` | none | a pure function of one event |
| directory claim gate | `policy/dir-gate/rules.mjs` `check`, `listing`, `tombstone`, `index`, `stillLive` | the coin index, its promise | begin, read chain, load index, ask store, set, accept, refuse, overdue |
| device-record gate and copies cap | `rules.mjs` `deviceRecord` | none of its own; reads the slot of device records | file a signed statement, replace a record by advice, refuse |
| bound keys across relays | `rules.mjs` `boundKeys` | none between two checks | read the slot here, the signer's records, every public relay; decide |
| chain budget, windows, caches | `rules.mjs` `windows`, `remember`, `tip`, `headersFor`, `coin` | a window a minute per writer and for all; cached tip, headers and coins | charge, deny, fetch, keep, evict, expire |
| directory sidecar process | `policy/dir-gate/gate.mjs`, `tally.mjs` | one line at a time; the tally of the day | query relays, page, answer, roll the tally |
| visitor names | `front/main.go` `Names`, `Of` | the day and its salt | draw, hash |
| front proxy, health, report | `front/main.go` `ServeHTTP`, `rateLimited` | minute of the last log line | forward, refuse, report |
| supervision of strfry | `front/main.go` `Run`, `stop` | child process, listener, signal | start, first of three endings, stop |
| boot store rewrite | `boot/oc-relay-boot.sh` | the volume: `data.mdb`, the marker, `next/` | export, import, compare, swap, mark, start |
| archive fetch and relay paging | `sync/fetch.mjs`, `gate.mjs` `query` | the page's `until`, events seen | ask, take a short page, take a full one, give up |
| archive writer | `sync/archive.py` | archive files | verify, append |

How they interact. strfry writes one line per event to the plugin and reads one
line back; it asks nothing else until it has been answered. For an event the
limits and the prefix gate let through, and which the directory gates, the plugin
writes the line to a Node sidecar over a pipe and waits up to a deadline. The
sidecar asks Esplora, public relays and this relay's own store, and answers.
The plugin starts the sidecar when it needs it and kills it on anything
unexpected. The counts file the plugin writes is read by the front for its
report. The front starts strfry and ends with it. At boot, before the front, a
script rewrites the store once.

What is hard. The plugin and the sidecar run concurrently, over pipes that keep
what a process left behind; the sidecar may be late, dead or wrong. A check in
the sidecar that passes its deadline is answered but not stopped. The coin
index is memory over a store that only another process writes. The limits are
per source in a bounded table, across a midnight, with a file that a restart
must not set back. The boot script may fail or stop at any command.

What makes each part correct:

- bridge: one answer per event, and an accept only if the sidecar gave it to this
  asking; never stuck;
- limits: at most the stated rate, caps and brake, and no less; a source is
  forgotten only when it may be; the counts file never forgets a limited source;
- claims: one live claim per coin; no claim goes or comes back but by its own
  records or one that takes its place; nobody is blocked by an ended claim;
- store rewrite: no event lost, no address kept once marked, the relay starts;
- devices: the copies of a statement are capped, advice adds no record, and a key
  is taken as bound only by what was held while the check ran;
- chain reads: what is cached as final is final, the anchor of an admitted claim
  stands, budgets are kept;
- sidecar: its counts agree with its answers across restarts;
- names: one salt a day whatever the races, and no salt for two days; one log
  line at most in the stated time;
- supervision: strfry is gone when the front returns, the front returns when
  anything ends, and reports success only if it was told to stop;
- paging: a read answers whole or not at all, and ends.

The hazards, each with its line and the properties about it, are in
`PROJECT.json`.

## Modules

### WriteGate, GateBridge, MCGateBridge, GateBridgeProofs

`WriteGate` is what the plugin promises strfry: take an event, reply once, admit
only what the prefix gate accepts and, for a directory record, what the
directory check has blessed since the event was taken. It has no pipes,
processes or time.

`GateBridge` is the plugin's loop and `DirGate` in detail. `pc` is the place in
`main`/`ask`: `idle` (waiting in `lines()`), `judge` (limits and `decide`),
`write` (the line and its flush), `wait` (the loop under the deadline). `proc`
is `DirGate.proc`: `None`, running, or exited and not yet noticed by `poll()`.
A line to the sidecar passes through `inbox`, a line back through `outbox` (the
pipe) and `buf` (`DirGate.buf`). The plugin's actions follow `ask` statement by
statement: `Ask` and `SpawnFails` are `poll`/`Popen`, `Write`, `WriteDrained` and
`WriteBroken` the write and flush, `Read` the `os.read`, `Skip`, `Heed` and
`Garbled` the loop over the buffer, `Timeout` and `Eof` the two empty ends;
every exception is `Fail`, which kills the sidecar (`Stop`) and refuses as busy.
The sidecar writes one line per line it reads and may say anything, under the
right id or another, at any time, or exit. Over-the-limit is a choice here;
`SourceLimits` has the limits.

Two history variables serve the properties: `asks` numbers the askings, and
every line carries the number of the asking it answers, which the plugin never
looks at; `blessed` records that the sidecar accepted the current asking.

`ImplementsWriteGate` is the refinement: `cur` and `blessed` are the same, the
abstract verdict forgets the reason, every step of the bridge between taking
an event and answering it is a stutter or a `Bless`.

### CoinRegistry, DirectoryClaims, MCDirectoryClaims (proofs in SidecarProofs)

A claim is a listing's statement id, with its handle and its coin; a record is
a listing of a claim or a tombstone for one, stored by strfry under its key and
d tag. `runs["now"]` is the check the sidecar is on; `runs["late"]` is one that
was answered busy at its deadline and goes on, as `check` lets it. A check's
stages are its awaits: `chain` (every chain and relay read before the index),
`load` and `built` (the index's first build: before the store was read, and
after it but before the map is installed), `ask` (`stillLive`'s read) and
`decide`. `Resolve` is the code between the index and the next await, `Set` is
`idx.set`: on the map the check holds, which another check's build may have
replaced (`stale`). `Builds` leaves open which of two records of one second
the relay returns first. `Restart` loses the index and both checks. `Commit` is
strfry storing an accepted event, by its replacement rule; it stores before it
asks about the next event.

`Live` says what a reader of the relay finds: a stored listing that carries the
claim, by a key bound to its address, and no tombstone for it. `CoinRegistry` is what
the gate promises such a reader, with no store, index or check: the claims listed,
those of them that are live, and the record admitted. `Admit` lets in a listing
while its coin is free and a tombstone for a claim that is listed; `List`, `End` and
`Drop` (a newer one is stored) are what becomes of it. `ImplementsRegistry` is the
refinement: a name is a key and a handle, accepting is an `Admit`, a `Commit` one of
the other three, all else a stutter.

An address may have several keys, and a claim be listed under one of them and ended
under another. What is promised then depends on the order of the records, which the
gate does not look at. `OrderedSpec` is the behaviours in which every record admitted
is in step with the store (`InStep`): a listing is newer than what other claims have
listed on its coin, ended or not, and no record takes the place of another claim's
that stays listed under another key. As long as an address has one key, every
record is, and the condition says nothing (`OneKeyInStep`). What the code does with
the others is under Known limits. `LateSpec` has overdue checks as well.

### DeviceSlot, BoundKeys, MCDeviceSlot, MCBoundKeys, BoundKeysProofs

`DeviceSlot` is the slot of one address, a record per key, and `deviceRecord`'s rule
for filing in it: `FileSigned` (a statement the address signed, under the cap of
copies) and `FileAdvice` (a revocation it did not sign, by a key that has a record
of that device). A record is a statement and whether it carries the signature,
which any key may copy and nobody else make. Between the gate's answer and
`Commit` other events may be admitted, `Batch` of them at most.

`BoundKeys` puts `boundKeys` beside it. A check is for one signer; `whole`, `own`
and `pub[p]` are its reads, each made at its own moment with its own timer, and
each may go without an answer. `Change` is others storing and dropping records at a
public relay, at any moment. `VerifiedFrom` is the library's check of ids and
signatures: whatever else a relay serves under an id replaces nothing. `Bound` the decision over v2 binds, v3 binds and revocations, `V3Here`
the case that needs no public relay. While a check runs, records admitted before
it may still be committed (`File`). `through` and `abroad` are history: what was held
here, and at each public relay, ever since the check began.

### ChainReads, MCChainReads, ChainReadsProofs

The chain source is a function from heights to versions of blocks, and the height
at which the coin is spent. `NewBlock(r)` mines one and replaces the newest `r`. A
check walks tip, headers of its proof, coin; each read is served from a cache, or
charged (`Charge`), asked, answered by the chain as it is at that moment, and only
then used (`phase`). Several checks do so at once over the same caches and
windows, as late ones do. `Keep` is what each reader function leaves in its cache,
`Buried` its test of depth against the last tip any check has read. Ages replace
clock times: a window and the cached tip are a minute old or less. `Windows` are
the writers' and the one of all. `reads` and `anchors` are history: for each number
of ticks ago, how many reads were charged to each window since.

### RelayRead, RelayPages, MCRelayPages, RelayPagesProofs

`RelayRead` is what a reader of a changing relay needs: every event that was there
all along and none that never was, or no answer. `RelayPages` reads by pages, as
`query` (one kind, at most `Pages` pages) and `fetch.mjs` (its kinds in turn, no
such bound) do. `Ask` sends the REQ, and a page is one of `ShortPage`, `FullPage`,
`Crowded` (full and nothing new), `OutOfPages`, `NoPage` (timer, error, CLOSED).
The relay answers the newest events, of one second in any order, and changes
between any two steps. `ImplementsRelayRead` is the refinement: pages, seconds
and limits are forgotten, and an answer is what `phase = "answered"` leaves.

### Tally, Sidecar, MCSidecar, SidecarProofs

`Tally` is `tally.mjs`: counts by day and reason in memory, saved after each count,
a save that may fail, an end at any point (`ReopenHalfway`: the count is in the
file or not, the answer never given). `Sidecar` composes it with
`DirectoryClaims` (by EXTENDS, sharing nothing but the step): the check the
plugin waits on ends or is overdue, and is counted and answered in that step; a
late check that ends is not counted again; `Restart` loses both memories. A day's
total is the size of the set of its answers, numbered under each name
(`AnswersIn`).

### SourceLimits, MCSourceLimits, SourceLimitsProofs

The methods are functions of the object's value: `Roll`, `Source`, `Limit`,
`Flush`, `WriteWaiting`, composed in the order `check` and `refused` call them
(`Looked` is what `check` has done before it looks at a limit). `CheckOver` and
`CheckPass` are the two outcomes of `check`; the event passed is then being
judged, time goes on, and `JudgedQuiet` or `JudgedRefused` ends it. `Quiet` is the
loop's idle second, `Stop` and `Crash` end the plugin with and without its final
write. Time is in units of which `Refill` make a token, so that the bucket is
an integer. The counts by kind of limit are one count per day. `SetBack` sets the
clock back, as the system may; `Outage` makes the counts file unwritable and
writable again, and a `Flush` meanwhile takes the counts as written, as `_flush`
does.

`log`, `others` and `told` are history: each source's events, let through or
refused, with their times and the bytes so far that day; who was seen since; who was told to slow down on each day and whom
an outage kept out of the file; `limits.failed` the days of which a write failed.
The properties compare the object and the file with these.

### StoreRewrite, StoreRewriteProofs

One action per command of the script, in its order; `Fails` is any command of
`rewrite` failing, `PowerOff` the machine stopping between any two commands,
which leaves the volume and starts the next boot at `test`. An import may leave
events out and still succeed. The store is the set of its event ids and the
subset of them stored with an address. `Serve` is the relay in operation.

### VisitorNames, Supervisor, Front, FrontProofs

`VisitorNames` is a request's way through the front. Each request is a goroutine
(`req`); they share the day and its salt behind a mutex, and the time of the
last log line in an atomic. `Lock` takes the mutex, reads the clock and compares
the days; `Keep`, `Draw` and `DrawFails` are the three ways out of `key`, and
time may pass in between. A pseudonym is a function of salt and address, so the
salt stands for it; drawn salts are numbered, which takes two draws never to
agree. `ArriveUnknown`, `Load` and `Swap` are the three shared accesses of
`noteUnknown`; a goroutine that loses the swap logs nothing. `given` and
`logged` are history.

`Supervisor` is `Run` and `stop`: `run` is the place in `Run`, `child` strfry,
`served` and `sig` the two other channels of the `select`. When several are
ready any may be taken. strfry exits when it likes and may ignore a signal it
can refuse; `Die` is the front's own end by a signal it does not watch for,
after which the kernel's `Pdeathsig` asks strfry to end (`asked`).

`Front` composes them: the first salt is drawn before strfry starts (`Begin`),
requests are accepted while the listener is up, and those accepted go on until
the process ends. One process is modelled; a new one starts with a new salt.

## Runs

| run | shows | bounds |
|---|---|---|
| `bridge` | whatever the sidecar does: no late answer, `WriteGate` is implemented, every short line is answered | two directory events, one ungated event, one outside the family; one of the directory lines too long for a pipe; 2 askings |
| `claims` | one live claim per coin, the index names it, only live claims block, and `CoinRegistry` is implemented | 3 claims on 2 coins, 2 of them on one coin and 2 on one handle; 2 keys bound to two of them, one to the third; records in step; 3 seconds, 5 checks, 1 restart |
| `claims_late` | violated: one live claim per coin | 3 claims of one coin, one key, 4 checks, one of them late |
| `sidecar` | the counts agree with the answers | 2 claims of one coin, 2 keys bound to both, late checks, 3 checks, 1 restart; 3 days of which 2 are kept, one name of a reason |
| `slot` | the cap on copies, what advice may do, whom a check may take as bound, and that it ends | 3 keys, a v2 bind, a v3 bind and a revocation of one device, cap 2, one event on its way, one public relay that holds the v2 bind, the revocation or neither, and changes at any time |
| `slot_bound` | violated: three records in the slot for each signed statement | 4 keys, one signed bind, cap 3 |
| `chain` | what is kept as final is final, anchors stand, the budget of any minute | two checks of one writer, 2 reads a minute, chain of 1 to 3 blocks, 2 deep is final, 1 replaced, 1 mined during a read, one header kept |
| `pages` | a read answers whole or not at all, nothing is skipped between pages, stuck only where crowded, and it ends | 5 events, 4 of them of one kind in 3 seconds, 2 to a page, 3 pages |
| `limits_rate` | the burst and drip, the day caps, the brake held and earned | one source, sizes 1 and 2, bucket 2, caps 3 events and 4 bytes, brake at 2 refusals, a midnight, the clock set back once |
| `limits_sources` | who is forgotten, and what the counts file says | 3 sources in a table of 2, a midnight, the clock set back once, an outage of the file, one stop or crash |
| `front` | one salt a day and none for two, log lines apart, strfry gone and the right code when `Run` returns, and that it returns | 2 requests at a time, 3 days of one unit of time, log lines 2 units apart |
| `store_rewrite` | the script from any volume, every failure, two stops | 2 event ids |

Why the bounds are enough. The bridge's buffers are empty between events
(`NoLateAnswer`), so a second asking meets everything a first can leave; the
proofs remove the bound. In the claims runs a coin changes hands, is listed
again by a third claim, and the index is lost between; five checks list,
tombstone under another key, replace and list again, and the one overdue check at a
time is the least that overlaps with the next. In the sidecar's run a day is dropped, a
reason goes past the names, and the sidecar ends before and after a save. In the
slot three keys are one more than the cap, and every pair of binds and revocation
of the device meets in it; one event on its way at a time leaves out two filed
close together, which only the theorem `Capped` covers, for any batch. On the chain a block can be replaced while its header
is on its way to one check and the tip that would bury it to another, which is
what caching it wrongly takes; a window ends between the two. The pages' five
events fill a second, make a page end inside one, and leave a kind to read
after it; with what comes meanwhile a query runs out of pages. In the limits runs every limit is reached,
lifted and reached again, and the table is full with a source to spare. In the
front's run two requests are inside the request path at once over two
midnights, which is what a race for the salt or for the log line takes. In the
rewrite each command's failure and stop happens, and a stop again in the
following boot. The theorems below remove the bounds of what they state.

Bounds named in the modules, none of which appears in a property: `MaxAsks`
(`GateBridge`), `MaxChecks`, `MaxRestarts` (`DirectoryClaims`), `MaxTime`, `MaxEvents`,
`MaxRestarts`, `MaxBacks`, `MaxOutages` (`SourceLimits`), `MaxTime` (`Front`), `MaxStops`
(`StoreRewrite`), `LastDay` (`Tally`), `LastTip` (`ChainReads`), `LastSecond` (`RelayPages`;
no event is newer). `Batch`, `Reorg` and `Mined` are not bounds of the search but
assumptions on strfry and on the chain.

Symmetry is used in `limits_sources` over pseudonyms and in `chain` over the
checks, both compared by the code for equality only; neither run checks
liveness. Deadlock is checked in every run but `claims`: the actions `Ended`, `Rest`,
`Wait` are the code's own resting places. In `claims` the condition `InStep` ends a
behaviour whose only next step is an admission out of step.

Fairness. `GateBridge!FairSpec` has weak fairness of the plugin's own steps, the
deadline included: the process is scheduled and `select` returns when its
timeout is over. Nothing is assumed of the sidecar, nor of a write that needs
the sidecar to read. `BoundKeys!FairSpec` has weak fairness of each read, which
has a timer of its own that ends it without an answer, and of the decision once
they are in; nothing is assumed of other writers. `RelayPages!FairSpec` has weak
fairness of sending the next REQ and of the page or its timer; nothing of the
relay, which may change without end. `StoreRewrite!FairSpec` has weak fairness of the script's
next command. `Front!FairSpec` has weak fairness of `Run`'s own steps (`Runs`: its
two deadlines are timers), of the goroutine on `cmd.Wait` (`Reaps`) and of the
system ending a process killed with SIGKILL (`KillEnds`); nothing is assumed of
strfry, of visitors or of the randomness. The other modules are checked for safety only.

Type invariants that a theorem states for every instance (`GateBridge`,
`DirectoryClaims`, `StoreRewrite`, `RelayPages`, `BoundKeys`) are left to the proofs, as is
`AcceptIsBlessed`, which the refinement run implies.

Each property of a passing run has a fault, defined beside the code it alters
("Seeded fault"), with which the same run finds the property violated.

## Findings

- **An overdue check changes the index** (`claims_late`): it goes on after its busy answer,
  sets its own claim in the index or installs a map older than the one in use;
  a later listing is then compared with the wrong claim. `ABUSE.md` says that one
  coin backs at most one live claim.
- **Advice frees a place under the cap** (`slot_bound`): a key replaces its copy of a
  signed statement by an unsigned revocation of its device, another key files the
  copy again, and so on. `ABUSE.md` says that the slot holds no more than three
  records for each signed statement. `CopiesCapped` and `AdviceOnlyReplaces` say what
  the code does hold.

## Known limits

Behaviour the models show beyond the runs' findings, or which the environment
decides:

- `ABUSE.md` promises one live claim per coin whatever the keys ("One coin backs at
  most one live claim per namespace here"). With several keys bound to one address the
  code does not keep it, without any late check, in two ways. A tombstone is
  replaced by another claim's record at its key and handle, and the claim it ended,
  which another key still lists, is live again beside that one (`stillLive` asks the
  store only, `rules.mjs:225`). And an index that is rebuilt names the newest stored
  listing of a coin, whether or not a tombstone under another key ends it: an older
  listing admitted after it is hidden, and a third claim let in beside it
  (`rules.mjs:215`). `ClaimsKeys.cfg` shows the first: `tlc -config ClaimsKeys.cfg
  MCDirectoryClaims.tla` reports `OneLiveClaimPerCoin` violated. `InStep` leaves out
  the records that lead there (and some that would do no harm): `OneLiveClaim` holds of
  all others, and with one key to an address there are none (`OneKeyInStep`).
- The plugin spares only its own `GATE_BUSY` (`oc-dtag-filter.py:487`): a busy answer of
  the sidecar, `rate-limited: the directory check took too long, try again`, counts
  towards the brake of a source that did nothing wrong. The docstring of `refused` says "not
  for a limit, not for a busy gate" (line 368), and the code diverges from it. No
  module has the reasons of refusals, so no run shows it; in `SourceLimits` any event
  judged may be charged.
- `ask` writes and flushes before it sets the deadline: a line longer than the
  pipe, to a sidecar that no longer reads, blocks the plugin.
  `ShortLinesAnswered` holds of every event whose line fits.
- An event admitted and not yet stored is unknown to the next check: in
  `DeviceSlot` it costs the cap `Batch - 1` copies; two listings of one batch may
  share a coin, if strfry batches so (`DirectoryClaims` takes it that it does not).
- A v2 bind is decided here when a v3 bind of its signer is seen here by either
  read, although the public relays then are not asked.
- A record replaced between two pages is on neither; a relay that caps its pages
  below the limit asked ends a read early; a second with exactly a page of events
  counts as crowded.
- `fetch.mjs` has a timer for each page but none for its connection.
- An unreadable counts file of the sidecar is taken for none, and the next save
  replaces it.
- While the clock is set back a brake may be lifted or refusals kept for longer:
  `BrakeHolds` is about readings in order.
- A websocket open over midnight keeps the pseudonym it was opened under.

## Theorems

All are proved for every value of the constants, from the assumptions named in
the modules (`...Assumption`). One of them says something of the world:
`ChainAssumption` has `Reorg + Mined <= Deep`, that a block buried `Deep` deep, counted
from a tip `Mined` blocks older or younger, is not replaced.

- `GateBridgeProofs!Invariance`: types, `NoLateAnswer`, `AcceptIsBlessed`, from
  `BridgeAssumption`. Their conjunction is inductive: an answer can only be
  taken while waiting, with at most one line in all three buffers, and that
  line is of this asking; a failure empties the buffers. The id on the line
  alone would not do: the same event may be sent again.
- `GateBridgeProofs!Refinement`: `Spec => ImplementsWriteGate`, from that invariant,
  one case per action.
- `SidecarProofs!OneLiveClaim` and `IndexNames`: `OneLiveClaimPerCoin` and
  `IndexNamesLive` for `OrderedSpec`, with any number of keys to an address: every check
  keeps its deadline and every record admitted is in step with the store. The
  invariant (`IInv`) counts a listing on its way to the store with those in it: live
  claims are one to a coin, the index names them, no claim listed on a live claim's
  coin is newer, and the one check in progress has found what the store still says,
  since nothing is committed while it runs. `OneLiveClaimPerCoin` itself says nothing of
  the index and is not inductive.
- `SidecarProofs!OneKeyInStep`: under `OneKeyPerAddress` `Spec` implies `OrderedSpec`. A listing and
  the tombstone that ends it then share a slot, so a claim listed is live, and what
  is admitted on its coin is the same claim's. So the theorems for `OrderedSpec` hold of
  every behaviour in time, for addresses with one key.
- `SidecarProofs!IsRegistry`: `ImplementsRegistry`, for `OrderedSpec`, from that invariant and
  that a tombstone on its way ends a claim still listed. A record that lands changes
  what is listed under its own name only.
- `SidecarProofs!BlockedOnlyByLive`: `BlockedByLiveOnly` for `Spec`, whatever the keys and the
  order of records: the index names claims under their own coin, the claim asked
  about is another's, and the store has not changed since it was asked.
- `SidecarProofs!Typed`: `TypeOK` with any keys and late checks (`LateSpec`).
- `SidecarProofs!CountsOutlive` and `SidecarTyped`: `AnswersCounted` and `SidecarTypeOK`. The
  invariant (`CountInv`) says the same thing twice, of the memory and of the file
  (`CountsHold`): the file alone would not carry over a save, nor the memory over
  a restart. That a dropped day stays dropped takes counting the days
  after it (`FewAfter`, `LastFew`): one more day never brings an older one back among the
  last `KeepDays`.
- `SourceLimitsProofs!SourcesCounted` and `CountsKept`: `LimitedSourcesCounted` and
  `CountsAgree`, whatever the clock, the file and the plugin's ends. The invariant
  (`CountInv`) has three parts: the object's types (`Object`); for every day, what the
  file lacks of the sources told was missed in an outage or is past the table
  (`Written`); and for the object's own day, the file counts all the sources in memory
  but some it could not be told of (`Remembered`). The last is what carries the count over
  a restart, and is not in either property.
- `SourceLimitsProofs!NoBurst`, `CapsKept`, `BrakeKeeps`, `BrakesEarned`, `Remembers`, `LimitsTyped`:
  `BurstBound`, `DayCaps`, `BrakeHolds`, `BrakeEarned`, `RememberedWhileRecent` and `TypeOK`, from
  one invariant (`SourceInv`). Of the queue: whoever stands behind a source was seen
  since, and a source not in it has had too many seen since (`Seen`). Of each source's
  entry against its log (`EntryHolds`): the bucket and the events since any event let
  through together fit what the bucket held and what dripped in (`Filling`; a clock set back
  takes tokens as it takes time, so both sides agree); the day's
  counts are the log's (`Counting`); and some entry of the log is the last that
  braked (`Braking`): since then the queue has every refusal that is still recent
  (`Queued`), and nothing came through until the brake had lifted (`BrakedBy`). The
  properties are about logs only and forget the bucket and the queue, from
  which alone the next verdict follows.
- `BoundKeysProofs!Capped` and `AdviceAddsNone`, for any cap and batch. The invariant
  (`SlotInv`) counts the copies on their way with those in the slot: the gate reads
  the slot only, and each of the others in the batch may be one more. A check
  files nothing (`ReadsFileNothing`), so what holds of the slot alone holds beside it.
- `BoundKeysProofs!BoundByWhatIsHeld`, `HereStands`, `Typed`: each answer read contains
  what was held where it was read all along (`CheckInv`, `BoundInv`), and binding is antitone in
  what says otherwise (`BindsAmongFewer`).
- `RelayPagesProofs!NoneSkipped`, `StuckWhereCrowded`, `PagesImplementRead`, `Typed`: the
  invariant (`PagesInv`) adds to `NothingSkipped` that all read was seen, and that
  what was read of this kind lies at or above `until` (`ReadAbove`), so that a full
  page with nothing new lies in that second.
- `ChainReadsProofs!KeptIsFinal` and `AdmittedAnchorsStand`: an answer on its way is
  what the chain said when its tip was `check[c].tip`, at most `Mined` blocks ago
  (`ChecksHold`), so that what it says below `Reorg` of that tip still holds; the
  cached tip is never above the chain's (`CachesHold`). Neither property says
  anything of answers on their way.
- `ChainReadsProofs!BudgetKept`: `BudgetHeld`. The invariant (`BudgetInv`) is about one window
  at a time (`WindowHolds`): what was charged while it was open is what it counts,
  and what was charged in the last minute is at most that and one full window
  more, less a read if the window starts with one. A writer's does and the
  window of all need not (`Deny`), hence the two bounds of the property.
- `ChainReadsProofs!ChainTyped`: `TypeOK`; what it says of ages, heights and the number of
  headers kept is inductive with what the checks hold (`ShapeInv`).
- `StoreRewriteProofs!Cleared` and `EventsKept`: the marker is never ahead of the
  swap, and no boot step changes the set of events. The invariant says what
  each command may rely on (`Progress`).
- `FrontProofs!OneSaltEachDay`: `OneSaltADay` and `SaltNotKept`. Neither says what a
  goroutine inside `key` knows. The invariant does: it holds the mutex, its day
  is not ahead of the clock nor behind the salt's, and "keep" or "draw" is what
  that comparison said (`Inside`); salts were given out for no day after the
  salt's own, and the salt in memory for its own only (`GivenInOrder`). It needs
  a clock that does not go back.
- `FrontProofs!LinesApart`: `LogLinesApart`; a goroutine about to swap has found
  its time far enough from what it read, and the swap succeeds only if that is
  still the last line's (`LogInv`). The clock is not used.
- `FrontProofs!Supervised`: `GoneOnReturn` and `SuccessOnlyWhenTold`.
- `FrontProofs!FrontTyped`: `TypeOK`, with who holds the mutex (`TimesInv`) and which places
  of `Run` go with which states of strfry (`AskedInv`).

Every safety property of a passing run is the conclusion of one of these theorems.
Two assumptions are about names alone: that no writer is called `"all"`
(`ChainAssumption`), and that a check can accept (`SidecarAssumption`). What would be
an induction over data is done by looking at a least counterexample
(`LeastExists`: a set of numbers that is not empty has a least), so that no
theorem takes an operator as a parameter.

Only model-checked: liveness (`ShortLinesAnswered`, `CheckEnds`, `ReadEnds`,
`RunReturns`, `RelayStarts`), which the prover cannot do. No theorem is about a
RECURSIVE operator.

## What is abstracted or left out

- The prefix gate is the set `Family`: `decide`, its tables and the shape of a chat
  device record are a pure function of one event and have no state to be wrong
  about.
- In `DirectoryClaims` everything before the index is one stage which may refuse at
  any time: signatures and resolution are the library's, the reads are
  `BoundKeys` and `ChainReads`. A claim's coin is fixed (`CoinOf`); a coin re-pointed
  after listing, of which the index keeps the last, is not modelled.
- The windows of writes (`take`) use the same function as the chain's (`Filled`, `Room`) and are
  left out, as is an expiry inside a device statement.
- In `DirectoryClaims` strfry commits an accepted event before it asks about the
  next one; in `DeviceSlot` it may batch.
- Events that are not counted to a source (`_counted`: not new, or from another
  kind of source) leave the limits as they are and have no step in `SourceLimits`.
- The counts file of the plugin can always be read; its fourteen days are all
  kept, and the counts by reason (`count_refusal`) are left out.
- The parsing of a line in the sidecar: a line that is none is answered as such.
- The opening of a connection to a relay has no step of its own.
- The front's headers, its proxying (library code), `/health` and the report of
  the counts file (`rateLimited`), which only reads; the clock of the front does not go back, and the machine does
  not stop under it (a new front has no memory to be wrong about).
- A websocket open over midnight keeps the pseudonym it was opened under; that
  is in the model, but nothing compares it with the visitor's later connections.
- A cut-short line to or from the sidecar: the reader sees none of it, which is
  a `Timeout` or `Eof`.
- `archive.py`: Schnorr arithmetic, and one sequential append of one finished read;
  and everything in `strfry.conf`,
  `fly.toml` and the Dockerfile that configures others' code.

## Plan

Done: `WriteGate` and `GateBridge`, `CoinRegistry` and `DirectoryClaims`, `SourceLimits`, `StoreRewrite`, the
front's three modules, `DeviceSlot` and `BoundKeys`, `ChainReads`, `RelayRead` and
`RelayPages`, `Tally` and `Sidecar`, each with the proofs named above. Left, the most important
first:

1. `WritePolicy`: the reasons of refusals, so that what the sidecar's busy answers cost
   a source is a run's finding and not only a note; `SourceLimits` composed with
   `WriteGate`, so that what is charged and what is admitted meet in one module.
2. In `DirectoryClaims`, a commit delayed past the next check, as in `DeviceSlot`, and a
   coin re-pointed after listing.
3. `DayCounts`: `count_refusal` and the front's report of the two counts files.
4. In `Front`, a visitor's connections of one day compared.
