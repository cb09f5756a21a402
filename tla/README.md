# Verification of maycomb

maycomb is a mock LLM server: a client (a "harness") sends OpenAI-style chat
requests, a human operator reads them in a browser console, writes the answer,
and the server delivers it as a JSON object or as a paced SSE stream, with
aborts and error injections on request. Everything is logged so that it can be
replayed. One Python process, one asyncio event loop, one SQLite file.

The modules here are TLA+ models of that server, checked with TLC, with proofs
checked by TLAPS. `PROJECT.json` lists components, runs, the mutants that show
that each property can fail, the source lines of every definition, hazards,
findings and theorems.

## 1. Inventory

| component | state it keeps | operations | modelled in |
|---|---|---|---|
| Streaming runtime (`state.py`: `ExchangeRuntime`, `Hub`) | status, done, submit_meta, live stage, one injection slot, out_queue, sender task | submit, abort, inject, live_start/text/tool_call/finish, the `on_*` hooks, shutdown | `StreamExchange` |
| Paced sender (`Hub._paced_sender`) | the deltas still to send | queue a frame, sleep, finish, be cancelled | `StreamExchange` |
| SSE consumer (`sse.py`) | get_task, timeout of the wait, headers_started, what it is sending | take a frame, tick, disconnect, one `await send` after another, cancellation | `StreamExchange` |
| Non-streaming wait (`api_openai._wait_nonstream`, `Hub._deliver_nonstream`) | result_future, poll task | deliver, abort (500 or drop), inject, give up, shutdown | `JsonExchange` |
| Admission (`api_openai.chat_completions`) | requests whose body is awaited | refuse, persist, reject, accept | `ExchangeStore` |
| Store (`db.py`) | exchanges, wal_events, drafts, settings, raw files | one commit per call, list_exchanges | `ExchangeStore`, `ConsoleFeed` (the list) |
| Start and recovery (`app.py`, `mark_stale_active`) | rows left open | read settings, abort stale rows | `ExchangeStore`, `ServerSettings` |
| Wire (`wire.py`) | none | plan_deltas, reconstruct_from_frames, build_message, resolve_finish_reason; validate_draft | `WireReplay`, `DeltaPhases`; `DraftRules` |
| Tokenizer (`tokenizer.py`) | the encoding | split_pieces, usage counts | `WireReplay` (pieces) |
| CLI (`cli.py`) | none | verify, export | `WireReplay` (verify), `ExchangeStore` (choice of the result) |
| Console API (`api_console.py`) | none of its own | REST calls into the hub, put_config | the calls, in the modules of what they change |
| WebSocket and broadcast (`api_console.console_ws`, `Hub.notify`) | ws_clients, one task per notification | notify, broadcast, register, discard, live relay | `ConsoleFeed`, `Console` |
| Browser console (`static/console.js`) | queue, selection, composer, live mode, timers, settings | list, select, autosave, submit, live flush, reconnect, settings dialog | `ConsoleFeed`, `Console`, `ServerSettings` |
| Configuration (`config.py`, `put_config`) | settings, overrides, codec | load, coerce, override, rebuild the codec | `ServerSettings` |
| Identifiers (`ids.py`) | none | base62 both ways | not modelled |
| Demo client (`scripts/demo_client.py`) | none | accumulate a stream | `WireReplay` |
| Self test, tests, packaging | - | - | not modelled; read as documentation |

How they interact. The console calls `Hub` methods; none of them has an `await`
between its first read and its last write, so each call is one step of the
event loop. They talk to the sender by starting and cancelling a task, to the
SSE consumer by putting frames in `out_queue` and by setting `rt.injection`, and
to a non-streaming request by resolving `result_future`. The consumer reports
back through the `on_*` hooks, which close the exchange, write log and row and
drop the runtime. Every hub call writes to the store, commit by commit.

What is hard.
 - *Interleaving.* The consumer gives way in `asyncio.wait` and in every
   `await send`; between two of its steps any operator call, the sender, a tick,
   a disconnect, a cancellation or a shutdown may run.
 - *Check and use apart.* `inject()` looks at `headers_started` when a frame is
   queued, not when it is taken; `read_only` is looked at before the body is
   awaited; a wait's timeout is fixed when it begins.
 - *Several endings.* A finish, a hard abort, an injected error, a disconnect and
   a cancellation may all be under way at once.
 - *Crashes* between two commits of a handler, and of the recovery itself.
 - *A page of awaits and timers.* Between a click, its request and its answer the
   selection, the composer and the exchange itself may have changed.
 - *Broadcast.* Every change is a task that writes to one socket after another,
   some of them slow or gone.
 - *Replay.* What was logged chunk by chunk must rebuild to what was recorded.

What makes each part correct. The client reads a legal stream or one HTTP error;
the log has the chunks that were sent; an exchange is closed once and for the
reason its client saw; a submitted draft and a terminal frame end it in the end;
nobody waits for a future that nobody will resolve; index, log and drafts agree
at every commit and are brought together again at the next start; plan and
reconstruction are inverse to each other; a console shows what waits, and what is
typed for one exchange is saved, or sent live, for that exchange and nowhere else; the settings
in force are the ones a restart brings back. The full list of hazards, each with the
properties that cover it, is in `PROJECT.json`.

## 2. Modules

    DeltaPhases      what is assumed about a plan of deltas
      ├ StreamExchange   one streaming exchange          ─┐ both implement
      └ WireReplay       the content of a stream          │ ExchangeContract
    JsonExchange     one non-streaming exchange          ─┘
      └ DraftRules       the checks of a draft, the bypass, the finish reason
    ExchangeStore    what is on the disk, crash and recovery
    ConsoleFeed      changes on their way to the consoles' queues
    Console          the operator's page and the part of the server it meets
    ServerSettings   PUT /api/config, restart, the page's copy of the settings
    Selection        the elements of a sequence that are in a set
    StreamExchangeProofs, JsonExchangeProofs, WireReplayProofs, ExchangeStoreProofs,
    ConsoleFeedProofs, ConsoleProofs, ServerSettingsProofs
                                              theorems about the module of that name
    SelectionTheorems                         theorems about sequences and Selection
    MCStreamExchange, MCWireReplay, MCExchangeStore, MCConsole  instances for TLC

**ExchangeContract** is the abstract specification of an exchange: its row goes
pending, active, closed; the client's reply goes none, started, and then whole,
error or cut; and the two never contradict each other (a recorded response was
sent whole to the client, an operator's abort never leaves a whole answer).

**StreamExchange** has one action per operator call (`Submit`, `AbortGraceful`,
`InjectCutAfter`, `LiveText`, ...), the sender's stretches between two sleeps
(`SenderPauses`, `SenderEnds`), and one action per stretch of the consumer
between two awaits (`Take...` when it wakes up with a frame, `SendNext` and the
`...Sent` actions when a send returns). `Deliver` puts the sends a frame calls
for in `outbox`; `wire` records what was handed to `send`, `sent` the chunk_sent
events, `closings` the hooks that closed the exchange. Frames carry their phase,
not their text. `script` is an auxiliary variable: the chunks the accepted calls
stand for. A cancelled sender is stopped at once: between the call of `cancel()`
and the arrival of the exception in it the sender cannot run.

`SubmitFails` is the submit whose pacing values `float()`/`int()` refuse, which
leaves the exchange active without a sender.

**JsonExchange** is the same for a request without streaming. The delivery task is
not one an abort can cancel, so it checks again after its delay; the request's
wait sees a resolved future before it sees the poll. Its `Submit` is the whole
handler with the checks of **DraftRules**: request, draft and bypass are chosen, and
the record keeps the tags. `BreachMarked` says that an answer outside the requested
format, as `FormatMet` defines it independently of `validate_draft`, is tagged.
JSON's `null` is the exception: `json.loads` gives None, which the code takes for "not
parsed", and the schema is skipped (wire.py:425). A request whose schema is itself
invalid makes `jsonschema` raise: the submit fails, bypass or not (`Raises`).

**WireReplay** has the content: texts are sequences of characters, some of two
bytes, and the tokenizer may end a token after any byte. `SplitPieces` (byte by byte:
`TakeByte`), `PlanDeltas` and `Reconstruct` (chunk by chunk: `Read`) are the algorithms,
written as recursive functions and `FlattenSeq` so that they can be proved about;
`Submit`/`SendDelta`/`Finish`/`FinishPartial`/
`CutShort` the life of a stream, `Events` the read-back of `maycomb verify`.
`PlanPhased` is the assumption `PlansAssumption` of StreamExchange, checked and proved
here.
`StreamOnce` is the demo client's reader of the same stream.

**ExchangeStore** treats a handler as a sequence of commits; `Commit` carries out
the next one, `Crash` may come between any two, and no other handler starts in
between since no handler awaits there. `Start`, `Recover` and `Ready` are the
next start of the process, row by row.

**ConsoleFeed.** `Change` is a row's change with its notification: the summary is
taken at once, the task sends later. `Start` and `Resume` are the stretches of a
broadcast task between two sends it has to wait for; `Fill`, `Drain`, `Lose`,
`Close` are the sockets' buffers and ends. A status is its rank (pending, active,
ended). A broadcast goes through `list(self.ws_clients)`, in the order of the set's
table: `order` is each socket's place there, `Open` may change all of them, since a
table that grows is rebuilt. Two handlers change a row and raise before they notify,
and `ChangeSilently` is what they do: a request whose `request_flags` raises
(`ArriveUnflagged`, api_openai.py:100; its row has no runtime, so `runtimes` is apart
from the rows) and a submit whose pacing values do not convert (`ActivateUnpaced`,
state.py:282). The other way round, `Notice` is a notification without a change: a
stream's progress, an injection that is armed.

Of the page there are the queue, its two tabs, the reconnection, and its list requests,
any number at a time up to a bound: init's (`Load`) and those of the tabs and the refresh
button (`RequestList`), which work from the first moment on. Each request keeps the
filter it was asked with and is answered (`ServeList`), applied (`ApplyList`) under the
filter of that moment, or failed, in any order.

Two variables are history. `missed` has the exchanges of which the last change slipped
past the page: it was silent, its message found the page unconnected, was lost with its
connection or came in disorder, or an older list was applied after it. A later message or
list takes an exchange out again. `orderly` says that the broadcasts under way have kept
their order; it comes back when all of them are through.

**Console.** One action per handler of `console.js` up to its first await
(`Click`, `Submit`, `SaveTimer`, `LiveStart`, `Flush`, ...), one for each request's
service (`Serve...`) and one for the handler's rest when the answer comes
(`SelectAnswered`, `ValidateAnswered`). HTTP requests are served and answered in any
order, the WebSocket keeps its order both ways. Texts are lengths, with the exchange
they were typed for. `lapsed`, `excused` and `overtaken` are history: the situations
in which the page's own design gives up (section 6). The connection is not lost
here; that is `ConsoleFeed`'s. All exchanges are streaming and the server is not
read-only.

**ServerSettings.** A PUT is applied key by key (`Apply`), each with its commit;
`Refuse` is the 422 in the middle and `Restart` may come between any two keys, on a
file that was edited meanwhile. The page gets hello, the message `config` with the
refresh it causes, and the answer of its own PUT; `version` orders these snapshots.

In every module a definition marked `Fault` is a plausible bug, not part of the
specification; `PROJECT.json` pairs it with the definition it replaces and the
property that then fails.

## 3. Runs

| run | question | size (distinct states) | result |
|---|---|---|---|
| `stream` | is a streaming exchange safe under every interleaving, and does it implement the contract? | 2.4 million | holds |
| `stream_liveness` | does it end? | 128 thousand | holds |
| `json` | the same for a non-streaming exchange, with the checks of its draft, liveness included | 116 thousand | holds |
| `replay` | do plans rebuild to the draft, wherever the stream is cut, for the record and for a client? | 167 thousand | holds |
| `store` | do index, log and drafts agree, across crashes, and is an abandoned exchange closed in the end? | 985 thousand | holds |
| `feed` | does a console hear of changes in order, show what waits, and not depend on the other consoles? | 952 thousand | holds |
| `console` | does every text that is saved or sent live stay with its exchange, is it saved, is an end shown, does reasoning go out first? | 6 million | holds |
| `settings` | does a restart keep the settings, does the codec follow, does the page show what is in force? | 3.1 million | holds |
| `verify_long` | does `verify` accept a good long exchange? | - | violated |
| `accepted_served` | is an accepted request served? | - | violated |
| `queue_shows` | does a connected console show every request that waits? | - | violated |
| `submits_validated` | is what is submitted what was validated? | - | violated |

### Bounds, and why they are enough

 - *Plans*: a two-delta text and a four-delta thought followed by a tool call, the
   one plan with an unpaced delta in its middle. Consumer and sender treat deltas
   alike except for phase and pacing.
 - `CutAfter = {1, 3}`: a cut that is due on the first chunk, and one that may be
   armed before, at and after its count.
 - `ScriptBound = 3` caps the chunks of live mode (draft plans come on top), enough
   for every order of two phases after the role; `ControlBound = 2` lets the
   operator add a terminal frame to a queue of at most one other; the sender's
   frames and finish come on top. Two terminal frames in a
   queue, and an HTTP error behind data, both occur.
 - Repeated keep-alive comments in a row count once in `wire`.
 - `KeepAlive` and `IncludeUsage` are TRUE in the main run, which has the larger
   behaviour; the liveness run takes `IncludeUsage = FALSE`. The proofs cover both.
 - *Drafts of `replay`*: texts of up to two characters, arguments of up to three,
   one character two bytes wide, tokens ending after any of the first three bytes,
   up to two calls, both splitting modes and both call modes: 234 drafts in 32
   modes, each cut after every chunk.
   `EventLimit` is 6 in place of 5000 in `verify_long`; no property of `replay` depends
   on it.
 - *Store*: two exchanges are enough for recovery to be interrupted between two
   rows; two crashes for a recovery to be interrupted and repeated; two revisions
   for a gap between draft and log to be followed by another save; one injection
   for each exchange. No symmetry is used, since the run has a liveness property.

 - *DraftRules*: five requests, and drafts of five contents, three lists of calls and
   three finish reasons: every branch of `validate_draft` that decides something.
 - *Feed*: one exchange (every change of it, told or silent), two sockets, and two changes
   or list requests under way (`FlightBound` counts both): a slow console ahead of
   another, a task overtaking, a list crossed by an update, two lists that overlap under
   different tabs with a change between them, a silent change. The list is cut at its
   limit only with two exchanges. `QueueShown` with two exchanges, two requests and a
   limit of 1 (9.8 million states), and `feed` with two requests beside two changes (14.5
   million, without liveness), hold as well and are too large to keep as runs; the proofs
   are for all sizes. `queue_shows` takes two exchanges. `ListLimit` is 1 or 2 in place of
   300. Sockets are numbered in the order they open, exchanges in the order they come, and
   a request takes the lowest free slot: names only.
 - *Console*: two exchanges (interchangeable: symmetry), six clicks and keystrokes,
   two requests and two messages each way under way. Six is the least that starts
   live mode twice on one exchange with text in both fields.
 - *Settings*: two of the ten runtime keys, two PUTs of up to two keys, one restart,
   two requests of the page under way.

### Deadlock

Deadlock is checked in every run. The operator may always switch `read_only`, and
the process of `ExchangeStore` may always be started or crash within its bound
(an operator's call is possible in every state that is up); `WireReplay` says
`Ended` for a stream that is over. `Console` is the one run without it: an operator
who has used up the gestures may be left with nothing under way. That nobody waits
for good is the business of the liveness properties.

### Fairness

 - `StreamExchange`: weak fairness of the sender, of `GetTask`, of the consumer's
   wake-ups and of returning sends. The event loop runs every task that is ready,
   sleeps are finite, and a send to a peer that neither reads nor leaves is ended
   by the transport. Nothing is assumed of the operator, the client, a shutdown or
   a cancellation. A tick that never stops does not starve a frame: a frame that is
   there takes precedence in the wake-up, as in the code.
 - `JsonExchange`: weak fairness of the delivery (its delay is finite) and of the
   waiting request, the poll for a client that left included.
 - `ExchangeStore`: a handler that has begun goes on, and a server that is down is
   started again and recovers. `CrashBound` makes crashes finite; without that
   nothing could be promised.
 - `ConsoleFeed`: weak fairness of each place in the queue of broadcast tasks (fairness
   of some task's going on would not do: a stream's notices may follow one another for
   ever, and the event loop runs every task that is ready), of the page's receiving, and
   of `Drain` and `Close` of each socket: the WebSocket library closes a connection that does not
   answer its pings and gives up a close that is not answered. Nothing is assumed of
   the exchanges, of reconnections or of who leaves.

## 4. Findings

Each is a violation run; `PROJECT.json` quotes both sides.

1. `verify_long`: `maycomb verify` reports a mismatch for a good exchange with more
   than 5000 chunks.
2. `accepted_served`: a request that passes validation can make `request_flags`
   raise: 500 for the client, and a pending row that nobody serves until the next
   start.
3. `queue_shows`: a request that arrives while a console is connecting or reconnecting
   does not appear in its queue until the operator asks for the list.
4. `submits_validated`: a click during the validation makes the page submit a draft
   for another exchange than it was written and validated for.

Known from the models without a run of their own:

 - An HTTP error that `inject()` accepted can reach the consumer after the headers
   ("never expected here", sse.py:145): it is dropped, though logged and acknowledged.
   That the dropped error leaves the stream legal is `OneResponse`.
 - A delay replaced by `stream_cut(after_chunks)` while the consumer waits leaves the
   stream without keep-alives (README.md:34-35 promises them until the first chunk).
 - Live text after `live_finish` is acknowledged and never sent.
 - A crash between a draft's row and its event leaves a revision that is not in the
   log (README.md:41).
 - A request that was sending its body when read-only mode was switched on is
   persisted in read-only mode (api_openai.py:52).
 - README.md:54 lists what blocks a draft; content `null` against a schema does not.

## 5. Proofs

Every theorem is for all values of the constants and for behaviours of any length. It
rests on the named assumptions of the module it is about and on nothing else. Those of
`StreamExchange` are that a plan is one `IsPlan` allows (`PlansAssumption`, which
`PlansArePhased` proves of `wire.plan_deltas`), that the two switches are Boolean,
and that cut values and bounds are numbers; that of `WireReplay` (`WireAssumption`) is
that the texts of a draft are texts, as the console sends them (section 6), and that
`Wide`, `TokenEnds`, `IncludeUsage` and `EventLimit` have their types; those of the
others only say that bounds are numbers and that `Nobody` is not an exchange.

**`StreamExchangeProofs`.** `TypeCorrect`: `Spec => []TypeOK`. `TypeOK` is
inductive as it stands, because it ties `pc` to `outbox` and `current`; the proof
has one step per action under `Operator`, `Sender`, `Wakes` and `SendReturns`, and
lemmas for the operators several actions share (`Put`, `Deliver`, `Ending`).
`OneEnding`, `OneResponse` and `HardAbortTruncates`
are not inductive: none of them says what a send in progress is about to put on
the wire. `SafetyInv` does, in three parts:

 - `SendInv`: what is still in `outbox` belongs to the frame in hand, an item
   that ends the stream is the last of it, and headers that are not out yet are
   either being sent or not begun;
 - `WireInv`: while the consumer waits the wire has no ending; before the headers
   it is empty;
 - `ClosingInv`: `OneEnding`, and what each reason for a closing left on the wire.

`SafetyInvariant` proves `Spec => [](TypeOK /\ SafetyInv)` from `InitSafe` and
`NextSafe`; the latter splits into the actions that leave consumer and wire alone
(`OthersSafe`), the wake-ups (`WakesSafe`) and the returning sends
(`SendReturnsSafe`). The theorems `OneEndingAlways`, `OneResponseAlways` and
`HardAbortTruncatesAlways` follow from it. `ImplementsContract` is refinement
under the mapping `cause <- ClosingCause`, `reply <- ClientReply`: the invariant
gives `Agree` (`InvAgrees`), and each step is a step of the row (`RowStep`) and of
the reply (`RespondStep`).

Its second half has the properties that compare whole sequences: what was
accepted (`script`), what waits (`plan`, `out_queue`, the frame in hand, `outbox`), what
is on the wire and what is in the log. `TraceInv` is built in layers, each proved from
those before it: who may still add to the answer (`ModeInv`, `ScriptInv`), what is being
sent (`OutboxInv`), the log (`LogInv`), the cut (`CutInv`), whose an ending is
(`OwnerInv`), what is held and not sent (`HeldInv`), and then the conservation itself
(`PrefixInv`, `WholeInv`): wire, outbox, frame, queue and plan, one after another, are
a beginning of the script, and all of it as long as nothing has cut the stream. From it
follow `WireOrderAlways`, `LogTracksWireAlways`, `NothingLostAlways`,
`AnswerOnWireAlways`, `ResponseOwnedAlways`, `CutCountAlways` and `RecordFrozenAlways`,
so that every safety property of the `stream` run is a theorem.

**`SelectionTheorems`.** Those sequences are compared by their chunks only, which
`Selected` picks out. The library's induction takes an operator as a parameter; here
induction is over sets instead (`NatSetInduction`, from the well-foundedness of `<` on
the naturals, and `SeqSetInduction`), which the provers can instantiate with the set of
the sequences that satisfy the claim. A recursive function over a sequence is unfolded
in the same way for each one: it exists, it agrees on common beginnings, and so `Append`
adds one step (`Flattens`, `FlattenAppend`, `FlatMapAppend`). `Removed` and
`RemovedElements` say what taking an element out of a queue leaves (for the two modules
of the console). `SelectedConcat`, `SelectedAppend` and the others are proved that way.
It is also why `Selection` is written as a recursive function.

**`WireReplayProofs`.** All four properties of the `replay` run, for every set of drafts
(texts of any length, any number of calls), every choice of two-byte characters and of
token ends, and both switches of a mode. The argument goes the way of a text:

 - `PiecesJoin`: between two bytes of the tokenizer's loop the pieces so far and the
   bytes held back are together the bytes read so far, and these begin with a whole
   character (`Halfway`); so the pieces lie end to end as the text, and the branch that
   would decode a torn character (`errors="replace"`) is never taken with bytes left.
 - `Legal` says which delta may come where the reading of a draft stands, and
   `LegalReads` what the record makes of it; `Told`, that record and client have read the
   same beginning of the draft, is kept by every legal delta (`ToldDelta`) and by the
   frames that say nothing (`ToldOther`).
 - `PlanReads`: a plan is a sequence of legal deltas in the order of the phases and reads
   back as the whole draft. `Along` and `AlongEach` carry a claim through a sequence of
   deltas; for the calls the claim is `Reaches`, how many are open and how many pieces
   each has had, which `CallReaches` and `FragmentReaches` advance by one. In turn the
   calls fill up one by one (`InTurnAt`), interleaved they do round by round (`InRound`),
   and the one round too many that the plan makes adds nothing.
 - `ReplayInv` is inductive: the log tells a beginning of the draft (`TellsDraft`), log
   and rest are the plan while the stream is open (`SplitsPlan`), so that the next delta
   is legal, and what was recorded is the log's, and the draft's if the stream ran to its
   end (`Recorded`). `RoundTrip` alone would not be inductive: it does not know what the
   rest of the plan will make of the log.

`DualRepresentation` is the property of `verify_long`, where it fails. `VerifyAgrees` is
its other side, that the limit is all it fails by: a log no longer than `EventLimit` is
read back whole, and nothing is logged after the record was made from it.

**`JsonExchangeProofs`.** `SettledAlways`, `BreachMarkedAlways` and `ImplementsContract`.
The invariant relates the three things that end such an exchange apart from one another:
the record (`ClosingInv`: each reason has one status, and the future its possible
results), the future and what the waiting client was handed (`ReplyInv`), and an answer
with the tags of the submission that made it (`AnswerInv`).

**`ExchangeStoreProofs`.** `LogLeadsRow`, `RowTracksRuntime`, `ResultMatchesRow` and
`DraftsInStep`, for any number of exchanges, crashes and revisions. `Kept` is what the
disk says of one exchange at every commit. That it survives the next commit depends on
what the running handler has still to commit, so `HandlerInv` says which sequences those
can be, given what was committed (`Admitting`, `Drafting`, `Noting`, `Ended`); every
other exchange is `Quiet`. A crash drops the sequence and leaves `Kept`, from which
recovery restores the rest.

**`ConsoleFeedProofs`.** `FeedInOrder` and `QueueShown`, for any number of exchanges,
consoles, changes under way and list requests. `IInv` has three parts:

 - `BaseInv` holds always: the types, which sockets may be written to, that no rank on
   its way is ahead of the row, and that the tasks start, and tell of an exchange, in the
   order they were made.
 - `OrderInv` holds while `orderly` does. Of two tasks that wait the earlier waits
   further on in the table (`WaitInv`), and what it has still to send is still before the
   later one, too (`QueueInv`); so a task finds each earlier one's socket in its way
   (`InTurn`), and neither passes it nor finishes first (`NoOvertaking`). Hence what the
   inbox and the tasks hold for the page is in order (`InboxInv`, `MailInv`). When
   nothing is under way it holds again by itself (`EmptyOrder`).
 - `KnownInv` holds of each exchange outside `missed`: whenever anything of it is on its
   way to the page, so is its present state (`Heard`, with `Latest` for a page that
   connects while tasks have not started); it is shown right, or is about to be told, or
   a request under way will rebuild the list (`Right`); and whatever answer is still to be
   applied has it right (`Read`). In disorder that is kept only for what nothing tells of
   (`Quiet`).

Each part has a lemma for the step (`OrderStep`, `KnownStep`), with one step per action.
That overlapping answers do no harm is `Read` and `Right` together: an answer not yet
applied is right for every exchange that is not missed, so the order in which answers
come in does not matter to it.

**`ConsoleProofs`.** `OwnText`, `ReasoningFirst`, `EndShown` and `AutoSaved`. Each of them
speaks of a moment of rest, or of what has been sent, and has an invariant of its own
about what is under way:

 - `OwnInv`: whenever the page can save or send, the composer's text is that of the
   selected exchange, and so are the draft of a pending exchange and a load of it;
 - `EndInv`: an end that is not shown is announced or is being loaded;
 - `OrderInv`: on the WebSocket, in the stage the server has reached and in what the
   page may still send, reasoning comes after content only behind a `live_start`, which
   the server will refuse; a timer that is not left over is the last one (`TimerInv`);
 - `SavedInv`: the text shown is the draft, or the last save under way carries it, or
   the timer will send it, or a `live_start` will end the exchange's pending state.

**`ServerSettingsProofs`** proves the four invariants of `ServerSettings` for any
number of PUTs, restarts and requests of the page, from `BoundsAssumption` only:
`TypeCorrect`, `RestartKeepsAlways`, `CodecInStepAlways`, `SettingsShownAlways`.
`RestartKeeps` is inductive with the types (what a PUT may carry, what the dialog may
hold). `CodecInStep` speaks of the moments between PUTs; `CodecFollows` adds what holds
during one: the codec follows unless the PUT has set the tokenizer. `SettingsShown`
speaks of a page at rest; `PageInv` says why it comes to hold: every copy of the current
version, on its way or shown, has the settings in force, and a connected page has seen
that version, unless a snapshot of it or a refresh is on its way, a PUT is going on, or
a refused one told nobody. `NextInv` has one lemma per action.

Only model-checked: the liveness properties `EndingComes`, `SubmittedEnds`, `WaitEnds`,
`AbandonedEnds` and `ChangeDelivered` (fairness and ENABLED are out of the prover's
reach). Every other property of a passing run is stated by a theorem, and the inductive
invariants were checked on the small instances before they were proved.

## 6. What is left out

 - Loss of power (SQLite with `synchronous=NORMAL` may lose the last commits): only
   ends of the process are modelled.
 - Texts that are not strings in a draft: the sender task would die in
   `plan_deltas` with the exchange active. The console sends strings.
 - The columns of a row other than its status, the payloads of events other than
   what the properties need, tags, notes, usage counts (documented as
   approximations), ids, timestamps, the `reasoning` alias.
 - What the page gives up by design, excepted from `Console`'s properties and named
   there: `submit()` clears the autosave timer and saves nothing; a load replaces edits
   that were not saved yet; an answer that is older than the announcement of an end is
   shown; two saves may cross; a live timer left over from another exchange's live mode
   may fire into this one; a `live_ack` stops whichever live mode is on.
 - From `ConsoleFeed`'s `FeedInOrder`: a console that leaves while tasks wait for it lets
   newer tasks overtake them on the sockets behind it, and so does one that connects if
   the set's table is rebuilt (with the fifth entry, then more rarely) while a task waits;
   the order is not claimed until what was under way then is through. From `QueueShown`,
   for the exchange concerned: a row changed without a notification (`request_flags` or
   the pacing values raise, the restart's `mark_stale_active`); a change told while the
   page was not connected, or in disorder, or lost with its connection; a list read before
   a change and applied after it, or applied before an older answer that is still to come;
   pending requests beyond the limit of the list; a list request that failed, which the
   page says. In each case the exchange counts again from the next message or list on.
 - Two open settings dialogs overwrite each other's changes, key by key.
 - Rendering, the tool-call cards of the composer, the abort and injection buttons,
   the events and raw tabs.
 - `ids.py`: a numeral and its inverse, covered by the repository's own tests.
 - Real time: a sleep, a delay or a keep-alive interval ends at some time.
 - Authentication and the content of error bodies: admission chooses between
   accepting and rejecting.

## 7. Plan

Done: all modules of section 2 and the proofs of section 5, which cover every safety
property of the passing runs.

What would come next if the code grew: the approximate splitter of the tokenizer once a
guarantee is stated for it, and the events and raw tabs of the page once they keep state.
