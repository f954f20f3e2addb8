# PrinterDriver in TLA+

PrinterDriver sends receipts to ESC/POS and Star printers and says, for every
job, how far it is known to have got. Its promise is in three words: a job ends
*done*, *failed* (nothing was printed) or *unknown* (look at the paper), and
never claims more than the printer confirmed. This directory models the code
that keeps that promise, from the bytes a printer answers to the document a
receipt is made from, checks it with TLC and proves its core with TLAPS.

Source paths below are relative to `src/`; `driver.cpp` is
`core/src/driver.cpp`, `job_store.cpp` is `core/src/job_store.cpp`.

## 1. The system

| component | state it keeps | operations | talks to |
|---|---|---|---|
| **PrinterRuntime** (`driver.cpp`), one per printer | `tasks_`, `active_`, `stopping_`, the transport and `link_down_`, the per-job backchannel state under `io_mutex_` | `submit`, `reserve`/`submitReserved`, `runJob`, `runStarJob`, `refreshStatus`, `probeNow`, `openDrawer`, `drain`, `stop`, `onBytes`, `onDisconnected` | journal, allocator, transport, parser, observers |
| **PrintJob** (`driver.cpp`) | state, confidence, history, subscribers, result | `subscribe`, `emit`, `finish`, `result` | worker thread to clients |
| **JobStore** (`job_store.cpp`) | append-only journal, one line per transition | `createJob`, `recordState`, `recordTokens`, `load`, `compact` | runtime, queue addon, disk |
| **MarkerAllocator**, nonce, **JobIndex** (`driver.cpp`) | next slot, tokens in use, a nonce that outlives the process; newest job of each key, jobs of each token | `acquire`, `release`; `findJob`, `jobByToken` | runtimes of one driver |
| **ResponseParser** (`response_parser.cpp`), **star::ResponseParser** (`star.cpp`) | outstanding expectations, partial frames | `expect*`, `feed`, `reset`, `flush` | transport bytes to runtime |
| **CapabilityProfile, probe, findings, auto-detection** | what a device can do; how high confidence may go | `run`, `promote`, `classify`, `maxConfidence` | runtime, network sweep |
| **Identity, probe path, discovery** | an assessment, a finding, a table of open hosts | `identify`, `probePath`, `discover` | set-up tools |
| **Cash drawer** (`driver.cpp`, `cash_drawer.cpp`) | last pulse, pin level, polarity and its file | `openDrawer`, `calibrate` | a task of the lane |
| **Registrations** (`registrations.cpp`) | five add-only tables of custom methods | `add...`, lookups that call back | any thread |
| **PrintQueue** (`queue/src/print_queue.cpp`) | per printer lane: waiting jobs, latched faults, `blocked`, `paused`, `in_flight`; an inbox | `enqueue`, the pump, `unblock`, `pause`, `resume`, `tick`, `stop` | reserves and submits jobs, hears device events and completions |
| **CloudPRNT server** (`agent/src/cloudprnt.cpp`) | pending jobs and a history per route, a pinned MAC, a fault | poll, download, confirm, submit | printers that dial in |
| **Agent, HTTP server** (`agent/src`) | printers by id, connections in a bounded queue | routes; accept, serve, stop | tills; the driver |
| **ePOS client** (`epos.cpp`) | one call and its budget | submit, retrieve | a print service |
| **Transports** (five kinds) | a descriptor, a reader thread, a wake pipe | `connect`, `send`, `close` | runtime |
| **C API, Android binding, React Native module** | handles, contexts, a reader's lock; questions to JavaScript, tokens | create, feed, await, destroy | applications |
| **Receipt DSL, encoders** | none: a pure compiler | read, bind, format, lay out, encode | engine |

One worker thread per printer runs the tasks in order; transport readers, client
threads, subscribers, the queue's pump, HTTP workers and the threads of language
runtimes run beside it.

What is hard here: the process may die between any two steps and recover from the
journal alone, whose own writes can tear; a write can fail after some of its
bytes went out; the printer can answer late, on the same connection, when the job
that asked has given up, or another host's answer can come instead; a client can
submit while a job of the same key is ending; a service repeats its requests; and
shutdown runs against all of it. `PROJECT.json` lists each hazard at its line
with the properties that watch it.

What makes each component correct:

- *engine*: durable before wire; failed means nothing printed; confirmed means
  printed; one copy per key; every job ends;
- *PrintJob*: every subscriber sees the history once, in order, to its end;
  results follow events; waiters wake;
- *lane*: every task ends once, in order; `drain` covers what was there; `stop`
  returns and leaves nothing;
- *JobStore*: what was sent is remembered through torn writes and a compaction
  that dies halfway;
- *parsers*: every answer is found whole however the stream is cut, and nothing is
  invented; a byte goes to the question that has precedence;
- *probe, path, identity*: no claim without its evidence;
- *queue addon*: one drained job in flight, nothing starts after an Unknown until an
  operator agrees, held jobs are started, expired or refused once;
- *CloudPRNT, ePOS, Star*: done is printed, once; failures are told on evidence;
- *drawer*: a verified opening energises no open drawer, and no coil that one has
  just heated; verdicts are measured;
- *handles, bridges, transports, servers*: nothing is used after it was freed, and
  every blocking call returns;
- *documents*: whatever a receipt loses is declared, but for the silent cases of
  section 3; the rest reads back as meant.

## 2. Modules

| module | models | checked by |
|---|---|---|
| `JobLedger` | the abstract promise: a job is safe, exposed or settled | `token_fence` |
| `PrintEngine` | jobs, fences, backchannel, link, journal, death and recovery | `token_fence`, `fences` |
| `JobFeedback`, `WorkerLane` | `PrintJob`; the task queue and its worker | `threads` |
| `LinkTransport` | TCP, Winsock, serial, RFCOMM and supplied links: connect, read, close | `threads` |
| `HandleLife` | C API handles, the Android reader, closing | `threads` |
| `JsBridge` | questions to JavaScript, async calls, tokens, unmounting | `threads` |
| `Registrations`, `HttpServer`, `SubnetSweep` | the tables of custom methods; the agent's server; `discover` | `threads` |
| `PrintQueue` | the queue addon with the core's `reserve`/`submitReserved` | `queue` |
| `JobJournal` | the journal on a disk that tears, fills up and loses power | `journal` |
| `CloudPrnt` | one route of the CloudPRNT server and its printers | `services` |
| `AgentJobs` | the agent's handlers over the driver | `services` |
| `Epos` | one `Client::print` and the print service | `services` |
| `StarFence` | `runStarJob` with ESC GS ETX and ETB | `services` |
| `CashDrawer` | the verified opening, the pulse, the read, the calibration | `services` |
| `ResponseParser`, `StarParser`, `EposXml` | the parsers of what comes back | `answers` |
| `Probing`, `PathProbe`, `Identity` | what is concluded from answers | `answers` |
| `ReceiptJson`, `ReceiptVocabulary`, `ReceiptTemplate`, `ReceiptValues`, `ReceiptLayout`, `ReceiptPage` | the receipt DSL, stage by stage | `documents` |
| `StarDocument`, `RasterImage` | the Star transcoder; the raster path | `documents` |
| `MCFences`, `MCThreads`, `MCServices`, `MCAnswers`, `MCDocuments` | the above, one behaviour at a time, for TLC; `Services` declares four of the instances | |
| `PrintEngineSafety`, `PrintQueueSafety`, `JobJournalSafety`, `CloudPrntSafety` | proofs about `PrintEngine`, `PrintQueue`, `JobJournal`, `CloudPrnt` | tlapm |
| `ServicesSafety` | lemmas about `AgentJobs`, `Epos`, `StarFence`, `CashDrawer`, as `Services` declares them | tlapm |
| `MCFencesSafety`, `MCThreadsSafety`, `MCServicesSafety` | the invariants of the three `MC` modules as theorems | tlapm |

An `MC` module brings several instances under one specification. They share
no state: the variable `part` is chosen in `Init` and says which instance a
behaviour is of, the steps are that instance's `Next`, and the others stand
still. A property of an `MC` module is a promise these components have in
common; each component states its own share as a named definition with its comment,
and the `MC` property conjoins them under `part = ...`. So the state space is a sum, not a product,
and a reader follows one name from the run into each module. `MCFences`, `MCThreads`
and `MCServices` leave their sizes to the `.cfg`: the names of threads, keys and
connections and the bounds are `CONSTANTS`, so that the theorems about these modules
are about every value of them.

### PrintEngine and JobLedger

One runtime, its clients, the journal and the printer:

- `jobs` are the requests in the order of their creation; `journal` is the last
  durable line of each; `pub` and `done` are `PrintJob::state_` and `terminal_`;
  `byKey` and `held` are the index entry of a key and whether it has a payload;
  `nextSlot` is the allocator's `next_`.
- `worker.pc` is the place in `runJob`: each action is one step between two points
  at which another thread, the printer or a crash can matter. A transition is
  `Advance`/`Terminate` (the journal line), then `Publish` (the event), then for
  a terminal one `Finish`; a crash can fall between any two.
- `io` is what `io_mutex_` guards. `toDev` and `fromDev` are the two byte streams
  as items: a payload, the part of one that a broken write got out, a fence, a cut
  command, a query.
- `Restart` is death and the next constructor: `journal` survives and
  `Recovered` settles each job as `load()` does; the printer keeps printing what
  it had received. With `SessionBound` answers die with the connection
  (TCP); without it they reach the next one (serial, RFCOMM).

`Completion` chooses the fence: `"GsParenH"` echoes the job's token, `"GsR1"`
answers with a byte that names nobody, `"None"` cannot answer. A wait is a guard:
the answer is there, or silence ends the wait at any moment (`timeout`,
link down, stopping), so every order of answer and timeout is covered.
`JobLedger` is the promise with all of this left out; `PrintEngine` is shown to
implement it (`KeepsTheLedger`). Bounds: `MaxJobs`, `MaxRestarts`, `MaxDrops`.

### Threads

- `JobFeedback`: the emitting thread (`Emit` under the mutex, `Deliver` outside
  it, then `finish`), subscribers that replay, park and go live, and threads in
  `result()`. `WorkerLane`: the queue and the worker, submitters that read
  `stopping_` and push in two steps, synchronous callers, `pushPeripheral`,
  `drain` and several `stop`s. In both a condition variable is explicit: the
  predicate's test and the enrolment are two steps, which is what a notification
  without the mutex can fall between.
- `LinkTransport`: the worker connects, writes and closes; the reader sits in
  `poll` or `recv`, reads the flag and reports a drop; the peer hangs up. The
  kinds differ in how a close reaches the reader (wake pipe and join, shutdown
  and close before the join, or only an unbinding). Both threads work on a
  descriptor copied under the mutex, so it can be closed under them:
  `OwnDescriptor` names the windows (section 3).
- `HandleLife`: `life` is how far closing has got, `touched` what a thread used
  after it was freed. `JsBridge`: a question is an entry of a table, a task and
  an object; `respond` knows only the id, and the thread that asked removes it after
  an answer or a deadline, its own thread among them. `Registrations`: frames on each thread's stack, so that
  a callback may call back in. `HttpServer`: accept thread, workers, the
  queue of `MaxQueued`, `stop` in its steps. `SubnetSweep`: the shared index, the
  table, the join, over W-bit addresses.

### PrintQueue and JobJournal

`PrintQueue` has one step per host call and per pump pass (both hold
`state_->mutex`), and the inbox apart, as it has its own mutex. The engine behind
`submitReserved` is abstract and ends jobs in any way it can. `JobJournal` writes
lines that may be torn, keeps what is synced apart from what is only written, and
takes `compact()` step by step: temporary file, fsync, rename, directory, either
fsync of which may fail with nobody looking (`SyncMayFail`).

### Services

`CloudPrnt`: what a handler does under the server's mutex is a step, and so is each
callback that `poll()` makes after it let go of it; its answer comes last. The printers
send, give up, repeat and lose power, and abandoned requests are served, or publish,
later.
`AgentJobs`: a handler is a process that lets go of the agent's mutex between
its steps. `Epos`: the call with its budget and each way an exchange can end;
the service prints, spools, forgets. `StarFence`: the printer's counter, frames
on their way, another host's ETB, a dropped link. `CashDrawer`: `step` is the
place in the sequence, `replies` what is on its way, the switch may move by
itself, and `coil` is what the solenoid remembers: who heated it last.

### Answers and documents

`ResponseParser` and `StarParser` are fed any chunks of any messages on byte
values, one turn of the drain loop per action; `EposXml` scans every well nested
reply, cut off anywhere. `Probing` asks its questions over a link that may fail
or answer late, and a sweep does or does not probe, and print, as its options say;
`PathProbe` asks over a path that may swallow, delay or mix answers;
`Identity` weighs what is known. The document modules have one state per
stage and enumerate every input within their bounds in `Init` or an input action;
each is compared with an independent definition (what a scanner, a reader or a
printer makes of the result).

## 3. Runs

Run one with `tlc -config <file>.cfg <module>.tla` (the pairs are in `PROJECT.json`
"runs"); check a proof with `tlapm <module>.tla`, up to ten
minutes for each module of section 4. An operator named
`X_y` is a faulty `X`; `PROJECT.json` "mutants" says which property it breaks.

| run | instance | shows |
|---|---|---|
| `token_fence` | token echo, two jobs of one key, reprints, one death, one link loss | types, `DurableBeforeWire`, `FailedKnownPrintedNothing`, `PublishedIsDurable`, `ConfirmedMeansPrinted`, `InStep`, `ForwardOnly`, `KeepsTheLedger` |
| `fences` | bare byte; no fence (three submissions); tokens on a serial link (three jobs, no death) | `OneCopyPerKey`, `TokenNamesOneReceipt`, `EveryJobEnds` |
| `threads` | eight components, two threads of every kind that can collide | `ObserversInOrder`, `LaneIsOrderly`, `ClosedIsClosed`, `OneForAll`, `BridgeAnswers`, `EveryCallReturns`, `NothingIsLeftHanging` |
| `services` | three CloudPRNT routes, two tills, one ePOS call, two Star jobs, two operations on a drawer | `DoneMeansPrinted`, `OneCopy`, `ToldOnEvidence`, `NothingForgotten`, `DrawerIsSpared`, `VerdictsStand`, `EveryRequestEnds` |
| `answers` | three messages per parser, two reply elements, two probes and a swap of devices, two stray answers, three vendors | `StreamsReadWhole`, `ClaimsAreEarned`, `RealtimeFirst` |
| `documents` | every input of two to five parts per stage | `DeclaredOrDone`, `FitsThePaper`, `ReadBackAsMeant`, `NothingLost` |
| `queue` | three keys, a lane of two, one fault kind, priorities, a time to live | `OnePassPerKey`, `LaneIsSound`, `UnknownStopsTheLane`, `DrainInOrder`, `HeldJobsMove` |
| `journal` | two jobs, three starts, one full disk or ignored fsync, power cuts | `NothingSentIsForgotten`, `MemoryIsOnDisk`, `HonestRecovery` |
| `bare_fence_late_answer`, `epos_failed_known`, `journal_spliced`, `drawer_stale` | | the disagreements below |

Why the bounds suffice: what goes wrong between jobs goes wrong between two (a
late answer and its victim, a job and its resubmission); the third job of
`fences` adds a chain (failed, retried, retried) and a slot that skips one. One
death, loss or fault can strike at every step, and a second one meets a state
that the first already leaves; `journal` starts three times so that a compaction
can die and the next start can read what it left. Threads collide in pairs. A
queue of one is full at once, a lane of two can be reordered, a parser's three
messages put something before and after an answer. Star counters wrap modulo 3.
In `MCThreads` a behaviour of the lane has a draining thread or a synchronous
caller, not both, which keeps it within minutes.
Deadlock is not checked anywhere: every model may come to rest when all
work is over and nobody asks for more.

Fairness is weak fairness of the threads the program owns, nothing else. The
engine's worker (each wait has a deadline); a thread inside a call; the queue's
thread and what it was told by; the HTTP handlers; the ePOS client and the sockets'
own timeouts. Printers, links, clerks, clients and operators owe nothing, with
two exceptions: a CloudPRNT job is confirmed only by a printer that keeps dialling,
printing and answering, and the drawer's printer answers a query or drops it before
the poll's timeout. By the
contract of `subscribe` a callback does not block. Nobody is obliged to subscribe,
submit, drain or stop. Weak fairness is enough because each mutex is taken
finitely often. `HeldJobsMove` says "moves or expires" only of what the queue's own
thread decides: a host that calls `tick()` itself owes the calls.

### Where the code and its documents disagree

With a run:

- `bare_fence_late_answer`: with a bare-byte fence the late answer of a timed-out
  job confirms the next one on the same connection.
- `epos_failed_known`: an ePOS request whose answer was lost ends as a known
  failure, also when it was sent whole and printed.
- `journal_spliced`: after an append that a full disk tore, the process goes on and
  the next line is written behind the torn one; both are dropped by the next
  `load()`, so a job that was being sent never began. The other properties of
  `JobJournal` say `~Damaged` for this reason and the next.
- `drawer_stale`: a verification poll without an answer falls back on the level
  read before the pulse and ends as `FailedToOpen`.

Met while modelling, without a run; a model that excludes one says where:

- `job_store.cpp:407`, `419`: `compact()` looks at neither of its fsyncs and goes on
  when one fails. A power cut after that may bring back a journal without lines
  that were acknowledged, against the same sentence of `job_store.hpp:18` (the
  cfg of `journal_spliced` with `SyncMayFail = TRUE` finds it). Process deaths
  after it do no harm, and the next start whose fsyncs succeed makes good for it:
  `slip` keeps these apart, and the properties except only the power cut.
- `transport.cpp:178`, `275`: `write()` sends on a copy of the descriptor which the
  reader's teardown of a dropped link closes meanwhile; a serial `close()` writes
  its wake-up byte into a pipe closed the same way (`transport_serial.cpp:405`,
  `371`); `transport_bluez.cpp:182` closes the socket before it joins a reader that is
  in `recv()`. The number may by then be another file's. Each lasts for one call;
  `OwnDescriptor` names the three and allows no other.
- `driver.cpp:2073`: after a forced reprint that failed, a plain resubmission prints
  a key whose first copy is done (`docs/api.md:158`). `OneCopyPerKey` is therefore
  about keys without forced reprints.
- `driver.cpp:375`: slots restart at zero under a persistent nonce, so a restart
  reissues identifiers of printed receipts (`driver.cpp:102`);
  `TokenNamesOneReceipt` is about one run of the process.
- `driver.cpp:2074`: between the `FailedKnown` event and `finish()` a
  resubmission gets the dead job back (`driver.cpp:2068`).
- `driver.cpp:290`: `finish()` stores `terminal_` without the mutex of the
  predicate, so a thread in an untimed `result()` can sleep for ever;
  `EveryCallReturns` is about the timed one.
- `driver.cpp:2112`: a submission that read `stopping_` before `stop()` and pushes
  after its sweep strands the job; `WorkerLane!Handed` excepts it.
- A cutter fault reported after both fences ends a printed job as `FailedKnown`:
  the ledger's stage `faulted`. `drain()` returns over a running job during a
  shutdown, hence `~stopped` in `DrainCoversTheLane`.
- Star: after a job that gave up, an ETB answer that comes late, or another
  host's, can stand for the next one's; `EtbConfirmsItsOwnJob` says "on an
  exclusive session in which no earlier job gave up".
- Drawer: the answer to GS r 2 carries no name, so a late one is taken for the next
  poll's. `CashDrawer` has the constant `Late`; with `TRUE`,
  `NeverPulsesIntoOpen` breaks, so the runs take answers to come in time or never.
- Drawer: only `openDrawer` waits for the cooldown, and only for pulses of its own
  process. `openCashDrawer` and a job's `open_drawer` option (`driver.cpp:2266`, `1396`,
  `1883`) send ESC p with no reading before it, wait for nothing and are not remembered,
  and `drawer_pulsed_` (`driver.cpp:676`) is lost with the process, against
  `docs/cash-drawer.md:144`, "Enforce the manufacturer cooldown before another pulse".
  All three are in `CashDrawer`; `coil` tells its own heat from the `other`, and
  `CooldownHeld` is about the former.
- Probe: the GS r 1 phase takes any event for its answer (`capability_probe.cpp:390`),
  so an echo of GS ( H that comes late gives a printer without GS r 1 that fence
  (`gs_r1`, `completion = GsR1`), in the store and in the profile. `borrowed` marks
  such findings and `QueuedFenceIsReal` excepts them alone; the token fence and ASB
  wait for answers of their own kind.
- Probe: what a printless sweep found is saved without a mark (`auto_detect.cpp:302`), and
  the next `autoDetect` or `addPrinter` promotes it to `Probed`, against
  `self_test.hpp:275`, "FULL PROMOTION STILL NEEDS THE PRINTING PROBE". The model does
  the same; `SweepClaimsNoFence` is about the report of the sweep itself.
- Path probe: without a token of the caller's every probe of every host uses the constant
  `PTH0` (`probe_path.cpp:301`, `probe_path.hpp:50`), so the echo of another host's path
  probe makes this one's path `PhysicalPrinter`. `AuthorityIsEarned` excepts a
  second marker with the shared token; a token of its own has no such exception.
- CloudPRNT: `poll()` publishes after it let go of the mutex (`cloudprnt.cpp:684`, `411`),
  so the callbacks of an abandoned poll may come after those of the one that
  repeats it and leave subscribers without a fault that is on record, or with one that
  is over, until the next event. `raced` marks these polls; `FaultsAreTold` excepts
  them and nothing else, and is about a fault on record, not about its end: one that
  another replaced is never taken back by an event of its own (`cloudprnt.cpp:435`).
- CloudPRNT: a printer whose firmware sends no token, and that repeats a DELETE
  whose answer was lost, confirms the job that heads the queue by then
  (`cloudprnt.cpp:769`); such printers are in one instance only, with one job,
  about faults.
- HTTP `start()` on a running server, and handles closed while the application
  still uses them, break `HttpServer` and `HandleLife`; `Careful` excludes both.
- React Native: a matcher written in JavaScript that `feedBytes` reaches on the
  JavaScript thread (`PrinterDriverModule.cpp:1366`, `829`; `driver.cpp:1038`) waits
  for itself until its deadline and gets no answer, and core threads that asked
  meanwhile wait with it, against the header's "never ... on the JS thread". The
  run has it (`JsMatcher`); `ParkedOnlyInMatcher` allows this case alone. And
  tokens survive the driver whose job's address they stand for (`Recycle`).
- Agent: `addPrinter` checks and acts in two critical sections
  (`agent.cpp:396`); the fleet dedupe swallows a retry of a failed job
  (`agent.cpp:1250`).
- `self_test.hpp`: a profile may read `Probed` although nothing was printed.
- Receipt DSL: `docs/receipt-dsl.md:31` and `103` say that what degrades is declared and
  that nothing silently disappears. Of these the render report and the
  warnings say nothing: line and letter spacing outside 0..255, a left edge or a
  right margin below zero, an area without room for one character, and GS L or GS W
  beyond a word are clamped (`render.cpp:614`, `623`, `628`, `635`, `652`;
  `ClampedInSilence`); an unknown word of `align`, `hri`, `dither` or `cut`, a feed or
  drawer object without a known key, and any option, style attribute, text or path of
  another type are the default (`document.cpp:613`, `642`, `567`, `219`;
  `DefaultInSilence`); a flex cell in a row without room is gone. `DeclaredOrDone`
  excepts the values those two operators name and nothing else: a scale outside 1..8,
  for example, must be in the report (`document.cpp:1004`). Lengths beyond a word, the
  attributes inside a style or cell, and flex cells are not among its inputs. On a Star
  printer the transcoder passes ESC M, GS L and GS k through as text
  (`star.cpp`); `StarDocument` has the commands of `escpos::Encoder` only.
- Queue: `tick()` can swallow a pending wake-up of the queue's own thread
  (`print_queue.cpp:420`), a lane latched by `ConnectionLost` stays so until
  `ConnectionRestored` (`print_queue.cpp:336`), and a job enqueued on a drainable
  lane overtakes (`print_queue.cpp:231`); `DrainInOrder` is about what the pump
  takes from the waiting set.

## 4. Proofs

A theorem holds for every set of keys, jobs, threads and printers and for every
bound; what it assumes of the constants is named below. Each safety property is
proved in the same way: an inductive invariant, a lemma per action, in it a step
per conjunct the action can disturb, and the property from the invariant.

### The engine

`PrintEngineSafety` needs only the four named assumptions of `PrintEngine`:
`TypeCorrect`, and `Inductive` with
`IInv == TypeOK /\ InStep /\ DurableBeforeWire /\ FailedKnownPrintedNothing /\ PublishedIsDurable`.
The three safety invariants are not inductive alone. `DurableBeforeWire` survives
the payload step only if the worker, at `"payload"`, stands on a job journalled
`SendStarted`; `FailedKnownPrintedNothing` survives a failed send only if that
job has nothing on the wire yet, and a cancelled leftover only if a queued job is
still `Queued` and held once; `PublishedIsDurable` survives an append only if the
worker moves its own job forward. `InStep` says exactly this: queued jobs are
distinct, untouched and not the worker's; the worker's place agrees with its
job's record (`OnSchedule`); and precisely the created jobs have records. From it
`AlwaysInStep`, `JournalLeadsWire`, `FailureIsClean`, `JournalLeadsObservers` and
the action property `JournalMovesForward`.

It also proves `EngineKeepsTheLedger`, that `PrintEngine`
implements `JobLedger`: `IInv` puts each step under one of the ledger's, or shows
that it leaves the ledger alone.

And it proves `TokenFenceIsProof` (`ConfirmedMeansPrinted`) under
`TellsApart`: the fence echoes a token, and an answer cannot outlive its
connection or else the process does not restart (slots count from zero again, so
an answer from before could name a new job). Run `bare_fence_late_answer` is the
counterexample without it. Its invariant `FInv` follows a token round the loop:
what the printer has been sent it takes in order, so a fence on the stream stands
behind the payload of its job (`OnTheStream`); an answer in flight or in
`io` names a job whose payload came before it (`OwnAnswers`); and the worker
claims no more than such an answer (`Claims`).

It also proves which copies of a key reach paper, whatever the fence:
`RepeatsAreAccountedFor` says of a key without forced reprints that an older copy
of it on paper is one whose cut was reported to have failed. So `OneKeyOneCopy`
(`OneCopyPerKey`) holds with `ReprintKeys = {}` and `Completion # "GsParenH"`, and both
conditions are needed: a cutter fault ends a printed job as failed, and a retry then
prints again. The invariant orders the attempts of a key (`AttemptsInOrder`).
`OneSlotOneReceipt` (`TokenNamesOneReceipt`) holds with `MaxRestarts = 0`, because a
start resets the slots (section 3), by `SlotsAreDistinct`. `MCFencesSafety` carries
both over to the printers of `MCFences` (`KeysReachPaperOnce`, `SerialTokensHold`),
whose instances are of `PrintEngineSafety`, so that its lemmas can be cited for each.

### Threads

`MCThreadsSafety` proves the five invariants of `MCThreads`. Each component has its
own inductive invariant; a step of the composition is a step of one component
and leaves the others alone (`OnlyFeedback`, `OnlyLane`, ...), so the conjunction
is kept. Nothing is assumed of the constants except `LastEvent \in Nat` for
`ObserversAgree` and `MaxQueued \in Nat` for `ClosingIsClean`.

- `LaneInv`: where a task of each fate is (a `pushed` one in the queue or among the
  leftovers of the one stopper that works), that nothing is swept before the worker
  has exited, and that the queue holds exactly the ordinary tasks pushed and not
  yet run, in order (`Waiting`); without this last part the order of running is
  not inductive, as nothing ties the head of the queue to what ran before.
  `DrainsAreComplete` rests on `active_`: with an empty queue and no active task a
  task that was handed over can only have run or been cancelled, and cancelling
  needs a stop.
- `FeedbackInv` splits the history, for each subscriber, into what it was given, what
  it replays, what is parked and the event that is due (`Covers`); `subscribe`, `emit`
  and the replay loop move the boundaries.
- `LinkInv`: a drop is reported at most once, and only when the peer has gone
  (`Reported`); and, kind by kind, where reader and worker are tells whether the
  transport still has its descriptor and its wake pipe: once it is in use only a
  teardown (`TornDown`) or an RFCOMM `close()` takes them away (`Held`).
- `HandlesInv`: closing waits in stages. Nobody is inside a call once `open` is
  left, every job has ended when the workers are joined, and no reader is left when
  the binding's handle goes (`ClosedInOrder`); a subscription's context and job
  are there for as long as it can be called (`ReferencesHold`).
- `BridgeInv`: a question keeps its number as a task, as an entry of the table and as
  an answer, because ids are counted up and never reused (`QuestionsKept`); no call
  that blocks parks JavaScript's own thread, only its own matcher's question can
  (`JsRunsFree`); the tokens given out are those of the map
  (`TokensKept`). It is about the instance, in which no address is used again
  (section 3).
- `RegistryInv`: no table has an id twice, and every registration a caller was told of
  is in its table. `HttpInv`: the listener is open for as long as the accept thread
  has not left its loop.

### Queue and journal

`PrintQueueSafety`: `LanesAreSound`, `KeysPassOnce`, `UnknownEndsDraining` and
`DrainsInOrder` from `QInv`, under `QueueAssumption` of `PrintQueue`. `QInv` says
where a key is - waiting in one lane, at one worker, or neither, as the driver's
index tells -, what a lane has under way, and what the events still to be
dispatched or heard will make of it (`Reports`): a lane's faults are stale until the
pump hears them, and the property alone cannot say what the last event brings.

`JobJournalSafety`: `JournalTypes` always; `SendingIsRemembered`, `DiskFollowsMemory` and
`StartsAreHonest` with `FsyncEnabled`, which is the default of `StorageConfig`.
Without it a power cut takes acknowledged lines, and no invariant of this
kind holds. `JInv` speaks of the journal as it stands and, as long as no ignored
fsync is outstanding, of every view that a power cut may leave of every file -
the journal, the temporary file, the one a rename has replaced: each reads back
with nothing forgotten, and while the process is up its memory agrees with them
up to the one line in doubt. The three except `Damaged`. Its first half,
`spliced`, needs a host which goes on after the `StoreError` of `createJob()`
(`OnlyASurvivorSplices`), its second an fsync of the compaction that fails
(`SyncMayFail`); with neither, `NobodyForgetsASend` proves the sentence of
`job_store.hpp` which run `journal_spliced` refutes.

`Without` of `PrintQueue` is a recursive function and `Replay` of `JobJournal` looks
for the first and last line of a job. What they return for every sequence
(`WithoutPicks`, and the lemmas on one line more) is proved from the least
counterexample (`LeastNumber`), since the library's induction theorems take an
operator as parameter, which none of the provers can instantiate.

### Services

`CloudPrntSafety` is about one route with any printers, pins and codes (`Deployment`
says only that "none" is no printer's name and that the bounds are numbers). `SInv`
is the server's half: tokens wait and are remembered in the order they were issued, what
waits has no outcome, and only the head of the queue may have been delivered. From it
`CloudTyped`, `JobsAreRetained` and `FirstCodeStands`. `FaultInv` says that while no
publications raced, at most the poll that collected the last event is publishing and
that event comes last; it gives `FaultsReachReaders`.
`PaperInv` adds what every printer and every message on the network stands for: only
the printer the route is bound to gets past its polls (`Alone`), a message saying
"printed" has its receipt on paper (`Evidence`), and power losses explain every copy
of a job but one (`Copies`).
It needs `Tokenless = {}` - a printer that names no job and repeats a DELETE whose
answer was lost does confirm the next one (section 3) -, and gives `DoneIsPrinted`
and `OneReceipt`.

`ServicesSafety` has four inductive invariants. `AgentInv`: a job that its key's index
entry no longer names has failed (`IndexOk`), and a handler holds, and an
answer tells, no more of a job than has come to pass (`HandsOk`). `EposInv`: what the
client believes of the service, the service has done. `StarInv` has two halves, one per fence: fences and
answers under way are numbered in order, so an answer names the job it was armed for
(`EtxInv`); an ETB answer on an exclusive session is the answer to the one question
open (`EtbInv`). `DrawerInv`: the one
outstanding answer belongs to the poll that waits for it (`DrawerPolls`), a level
the sequence goes by was measured since its operation began (`DrawerHeard`), and a coil
heated by a sequence is one the process remembers (`DrawerCoil`).

`MCServicesSafety` puts the seven routes and services together, under `ServiceBounds`
(bounds are natural numbers, the counter's modulus exceeds 1, at least one poll, and a
spooler is there or not): `ReportedIsPrinted`, `NoSecondReceipt`,
`VerdictsHaveEvidence`, `ServerForgetsNothing`, `DrawerSpared` and the action
property `VerdictsHold`.

### Only model-checked

- Liveness: `EveryJobEnds`, `EveryCallReturns`, `NothingIsLeftHanging`,
  `EveryRequestEnds`, `HeldJobsMove`. Fairness and `ENABLED` are outside the prover's reach.
- `EveryHostOnce` of `SubnetSweep`, which stands in `NothingIsLeftHanging`: that the
  addresses of a block are its multiples of a power of two needs an induction on the
  prefix, and the sorted result one on the table.
- `MCAnswers` and `MCDocuments`: what a parser makes of a stream and what the recursive
  definitions of `ReceiptValues`, `ReceiptLayout` and their like compute is an
  induction over data, and the prover has no backend for a module with a
  `RECURSIVE` operator. They are checked on every input within the bounds.

The theorems share what the models leave out or the properties except: a late answer
to a drawer's poll, the heat of plain pulses and of earlier processes, a CloudPRNT
printer without tokens, a closed handle that is used. Section 3 says which behaviour
of the code each of these stands for.

## 5. Not modelled

- Tables of constants (`device_profiles.cpp`, `code_page.cpp`, the OUI list) and
  byte literals of single commands: nothing changes state.
- `pdctl`, the Swift, Dart and .NET bindings, sample applications: thin callers.
- The conversions field by field of the JNI, React Native and C API layers; only
  their lifetimes, threads and the entry points that compute something are here.
- Inside the engine: custom completion methods and status queries as content of a
  task, and a token space that wraps (a hazard without a property).
- HTTP request parsing, TLS, sockets, serial settings, configuration files: I/O.
- Wording of the render report, the self-test receipt, the XML and JSON that is
  written.
