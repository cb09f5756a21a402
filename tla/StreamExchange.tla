--------------------------- MODULE StreamExchange ---------------------------
(***************************************************************************)
(* One streaming exchange: the operator's calls on its ExchangeRuntime     *)
(* (state.py), the paced sender task that turns a submitted draft into     *)
(* frames, and the SSE consumer that takes the frames off out_queue and    *)
(* sends them to the client (sse.py).                                      *)
(*                                                                         *)
(* Everything runs on one event loop, so code between two awaits is one    *)
(* step.  The operator's calls have no await in them.  The sender gives    *)
(* way only in its sleeps.  The consumer gives way in asyncio.wait and in  *)
(* every `await send`; the task that reads the queue for it (get_task)     *)
(* runs meanwhile.                                                         *)
(***************************************************************************)
EXTENDS DeltaPhases, Selection

CONSTANTS
  Plans,         \* the delta plans a submitted draft may have (wire.plan_deltas)
  KeepAlive,     \* keepalive_interval > 0
  IncludeUsage,  \* stream_options.include_usage
  CutAfter,      \* the values of after_chunks an operator uses
  ScriptBound,   \* bound: chunks the operator asks for in live mode
  ControlBound   \* bound: frames queued when a terminal one is added

ASSUME PlansAssumption    == \A p \in Plans : IsPlan(p)
ASSUME SwitchesAssumption == KeepAlive \in BOOLEAN /\ IncludeUsage \in BOOLEAN
ASSUME CutAssumption      == CutAfter \subseteq Nat
ASSUME BoundsAssumption   == ScriptBound \in Nat /\ ControlBound \in Nat

VARIABLES
  \* the runtime, as the operator's calls see and change it
  status, done, meta, live, injection, readOnly,
  script,        \* the chunks the accepted calls stand for, in order
  \* the sender task and its queue
  queue, sender, todo,
  \* the SSE consumer
  pc, tick, fetched, current, outbox, headersStarted, disconnected,
  \* what it leaves behind
  sent,          \* the chunk_sent events
  wire,          \* what was handed to `send`, in order
  closings       \* the calls of the on_* hooks that closed the exchange

runtime  == <<status, done, meta, live, injection, readOnly, script>>
sending  == <<queue, sender, todo>>
consumer == <<pc, tick, fetched, current, outbox, headersStarted, disconnected>>
trace    == <<sent, wire, closings>>
vars     == <<runtime, sending, consumer, trace>>

-----------------------------------------------------------------------------
(* Frames and what the consumer puts on the wire                            *)

Frame(kind, tag) == [kind |-> kind, tag |-> tag]

DataFrames == [kind : {"data"}, tag : Phases]
Frames     == DataFrames
              \cup [kind : {"finish"}, tag : {"whole", "partial"}]
              \cup [kind : {"http_error"}, tag : {"injected"}]
              \cup [kind : {"hard_abort"},
                    tag : {"operator_hard_abort", "stream_cut_injected"}]

\* What the consumer may be sending for: a frame, a tick, or nobody.
NoFrame        == Frame("none", "none")
KeepAliveFrame == Frame("keepalive", "none")
GoneFrame      == Frame("gone", "none")

Chunks == Phases \cup {"finish", "usage", "done"}
Items  == Chunks \cup {"head", "keepalive", "errhead", "errbody", "end", "close"}

ToFrames(plan) == [i \in 1..Len(plan) |-> Frame("data", plan[i].what)]
Whats(plan)    == [i \in 1..Len(plan) |-> plan[i].what]

\* Repeated keep-alive comments count once.
Put(w, x) == IF x = "keepalive" /\ w # <<>> /\ w[Len(w)] = "keepalive"
               THEN w ELSE Append(w, x)

Delayed == injection.kind = "delay"

NoInjection == [kind |-> "none", after |-> 0, applied |-> FALSE, at |-> 0]

-----------------------------------------------------------------------------
(* The runtime a POST /v1/chat/completions registers, at its first wait     *)

Init ==
  /\ status = "pending" /\ done = FALSE /\ meta = "none"
  /\ live = "off" /\ injection = NoInjection
  /\ readOnly = FALSE /\ script = <<>>
  /\ queue = <<>> /\ sender = "none" /\ todo = <<>>
  /\ pc = "wait" /\ tick = KeepAlive /\ fetched = NoFrame /\ current = NoFrame
  /\ outbox = <<>> /\ headersStarted = FALSE /\ disconnected = FALSE
  /\ sent = <<>> /\ wire = <<>> /\ closings = <<>>

-----------------------------------------------------------------------------
(* The operator's calls                                                     *)

\* Hub.runtime() and `rt.done` together: a runtime is dropped when it is done.
Registered == ~done

CancelSender == IF sender = "running"
                  THEN sender' = "cancelled" /\ todo' = <<>>
                  ELSE UNCHANGED <<sender, todo>>

\* POST .../submit.  A draft that fails validation changes nothing.
Accept ==
  /\ ~readOnly
  /\ Registered
  /\ status = "pending"
  /\ status' = "active"
  /\ injection' = IF Delayed THEN [injection EXCEPT !.applied = TRUE]
                             ELSE injection
  /\ UNCHANGED <<done, live, readOnly, queue, consumer, trace>>

Submit(mode, plan) ==
  /\ Accept
  /\ meta' = mode
  /\ script' = script \o Whats(plan)
  /\ sender' = "running"
  /\ todo' = plan

\* A pacing value that int() or float() refuses: the call answers 500 with the
\* exchange already active.
SubmitFails(mode) ==
  /\ Accept
  /\ meta' = mode
  /\ UNCHANGED <<script, sender, todo>>

\* Fault: the abort leaves the response without a meta.
AbortGracefulWithoutMeta ==
  /\ Registered
  /\ Len(queue) < ControlBound
  /\ CancelSender
  /\ queue' = Append(queue, Frame("finish", "partial"))
  /\ UNCHANGED <<status, done, meta, live, injection, readOnly, script, consumer, trace>>

\* POST .../abort, graceful
AbortGraceful ==
  /\ Registered
  /\ Len(queue) < ControlBound
  /\ CancelSender
  /\ meta' = IF meta = "none" THEN "aborted_draft" ELSE meta
  /\ queue' = Append(queue, Frame("finish", "partial"))
  /\ UNCHANGED <<status, done, live, injection, readOnly, script, consumer, trace>>

\* POST .../abort, hard, and POST .../inject, stream_cut without after_chunks
CutNow(reason) ==
  /\ Registered
  /\ Len(queue) < ControlBound
  /\ CancelSender
  /\ queue' = Append(queue, Frame("hard_abort", reason))
  /\ UNCHANGED <<runtime, consumer, trace>>

AbortHard    == CutNow("operator_hard_abort")
InjectCutNow == CutNow("stream_cut_injected")

\* POST .../inject, the three HTTP errors
InjectHttpError ==
  /\ Registered
  /\ ~headersStarted
  /\ Len(queue) < ControlBound
  /\ queue' = Append(queue, Frame("http_error", "injected"))
  /\ UNCHANGED <<runtime, sender, todo, consumer, trace>>

\* The two injections that wait share one slot; the later one replaces.
Arm(inj) ==
  /\ Registered
  /\ injection' = inj
  /\ UNCHANGED <<status, done, meta, live, readOnly, script, sending, consumer, trace>>

InjectDelay       == Arm([kind |-> "delay", after |-> 0, applied |-> FALSE, at |-> 0])
InjectCutAfter(n) == Arm([kind |-> "stream_cut", after |-> n, applied |-> FALSE,
                          at |-> Len(sent)])

\* PUT /api/config read_only
PutReadOnly ==
  /\ readOnly' = ~readOnly
  /\ UNCHANGED <<status, done, meta, live, injection, script, sending, consumer, trace>>

-----------------------------------------------------------------------------
(* Live mode                                                                *)

Relay(whats) ==
  /\ Len(script) + Len(whats) =< ScriptBound
  /\ script' = script \o whats
  /\ queue' = queue \o [i \in 1..Len(whats) |-> Frame("data", whats[i])]
  /\ UNCHANGED <<done, injection, readOnly, sender, todo, consumer, trace>>

LiveStart ==
  /\ ~readOnly
  /\ Registered
  /\ status = "pending"
  /\ live' = "role"
  /\ status' = "active"
  /\ Relay(<<"role">>)
  /\ UNCHANGED meta

Live == ~readOnly /\ Registered /\ live # "off"

LiveText(field) ==
  /\ Live
  /\ Rank[field] >= Rank[live]
  /\ live' = field
  /\ Relay(<<field>>)
  /\ UNCHANGED <<status, meta>>

\* The call opens with its name; arguments, when given, are a second chunk.
LiveToolCall(chunks) ==
  /\ Live
  /\ live' = "tool"
  /\ Relay([i \in 1..chunks |-> "tool"])
  /\ UNCHANGED <<status, meta>>

\* Ends the answer, not the mode: rt.live stays as it is.
LiveFinish ==
  /\ Live
  /\ Len(queue) < ControlBound
  /\ meta' = "live"
  /\ queue' = Append(queue, Frame("finish", "whole"))
  /\ UNCHANGED <<status, done, live, injection, readOnly, script, sender, todo,
                 consumer, trace>>

-----------------------------------------------------------------------------
(* The sender task                                                          *)

\* It sleeps after a paced delta when it is ahead of its schedule.
SenderPauses(n) ==
  /\ sender = "running"
  /\ meta = "paced"
  /\ todo[n].paced
  /\ queue' = queue \o SubSeq(ToFrames(todo), 1, n)
  /\ todo' = SubSeq(todo, n + 1, Len(todo))
  /\ UNCHANGED <<sender, runtime, consumer, trace>>

\* Fault: the last deltas are left behind.
SenderEndsEarly ==
  /\ sender = "running"
  /\ queue' = Append(queue, Frame("finish", "whole"))
  /\ todo' = <<>>
  /\ sender' = "ended"
  /\ UNCHANGED <<runtime, consumer, trace>>

\* Fault: no finish marker.
SenderEndsSilently ==
  /\ sender = "running"
  /\ queue' = queue \o ToFrames(todo)
  /\ todo' = <<>>
  /\ sender' = "ended"
  /\ UNCHANGED <<runtime, consumer, trace>>

SenderEnds ==
  /\ sender = "running"
  /\ queue' = Append(queue \o ToFrames(todo), Frame("finish", "whole"))
  /\ todo' = <<>>
  /\ sender' = "ended"
  /\ UNCHANGED <<runtime, consumer, trace>>

\* Hub.shutdown
Shutdown ==
  /\ sender = "running"
  /\ sender' = "stopped"
  /\ todo' = <<>>
  /\ UNCHANGED <<queue, runtime, consumer, trace>>

-----------------------------------------------------------------------------
(* The hooks that close the exchange                                        *)

\* Fault: no `if rt.done: return`.
EndingAgain(s, reason) ==
  /\ done' = TRUE
  /\ status' = s
  /\ closings' = Append(closings, [status |-> s, reason |-> reason])

Ending(s, reason) ==
  IF done THEN UNCHANGED <<done, status, closings>>
  ELSE /\ done' = TRUE
       /\ status' = s
       /\ closings' = Append(closings, [status |-> s, reason |-> reason])

OnStreamComplete(tag)    == Ending("completed", tag) /\ UNCHANGED <<sender, todo>>
OnInjectedDelivered(tag) == Ending("injected", tag) /\ UNCHANGED <<sender, todo>>
EndCancelling(reason)    == /\ Ending("aborted", reason)
                            /\ IF done THEN UNCHANGED <<sender, todo>>
                                       ELSE CancelSender
OnHardAbort(reason)      == EndCancelling(reason)
OnClientDisconnect       == EndCancelling("client_disconnected")

-----------------------------------------------------------------------------
(* The consumer                                                             *)

\* Fault: a new get_task for each wait, over the one that holds a frame.
GetTaskAnew ==
  /\ pc = "wait" \/ current \in {KeepAliveFrame, GoneFrame}
  /\ queue # <<>>
  /\ fetched' = Head(queue)
  /\ queue' = Tail(queue)
  /\ UNCHANGED <<runtime, sender, todo, pc, tick, current, outbox,
                 headersStarted, disconnected, trace>>

\* get_task: created before each wait, so it may run in the wait and while a
\* keep-alive is sent, but not while a frame is.
GetTask ==
  /\ pc = "wait" \/ current \in {KeepAliveFrame, GoneFrame}
  /\ fetched = NoFrame
  /\ queue # <<>>
  /\ fetched' = Head(queue)
  /\ queue' = Tail(queue)
  /\ UNCHANGED <<runtime, sender, todo, pc, tick, current, outbox,
                 headersStarted, disconnected, trace>>

\* The timeout of the next wait is fixed on the way in.
EnterWait ==
  /\ pc' = "wait"
  /\ current' = NoFrame
  /\ outbox' = <<>>
  /\ tick' = (KeepAlive /\ sent' = <<>> /\ ~Delayed)

\* Fault: a consumer that ends keeps what it had still to send.
StopMidSend ==
  /\ pc' = "ended"
  /\ current' = NoFrame
  /\ tick' = FALSE
  /\ UNCHANGED outbox

Stop ==
  /\ pc' = "ended"
  /\ current' = NoFrame
  /\ outbox' = <<>>
  /\ tick' = FALSE

\* start_sse, then the sends that a frame calls for, one await after another.
Deliver(frame, items) ==
  LET sends == (IF headersStarted THEN <<>> ELSE <<"head">>) \o items
  IN  /\ pc' = "send"
      /\ current' = frame
      /\ outbox' = sends
      /\ wire' = Put(wire, Head(sends))
      /\ tick' = FALSE

\* The wait ended: a client that left comes before the frame, the frame before
\* the tick.
Waiting == pc = "wait"

TakeDisconnect ==
  /\ Waiting
  /\ disconnected
  /\ OnClientDisconnect
  /\ IF headersStarted
       THEN Stop /\ UNCHANGED wire
       ELSE Deliver(GoneFrame, <<"end">>)
  /\ UNCHANGED <<meta, live, injection, readOnly, script, queue, fetched,
                 headersStarted, disconnected, sent>>

Tick ==
  /\ Waiting
  /\ ~disconnected
  /\ tick
  /\ fetched = NoFrame
  /\ UNCHANGED <<runtime, sending, fetched, headersStarted, disconnected, sent,
                 closings>>
  /\ IF Delayed THEN EnterWait /\ UNCHANGED wire
                ELSE Deliver(KeepAliveFrame, <<"keepalive">>)

Taken(kind) ==
  /\ Waiting
  /\ ~disconnected
  /\ fetched.kind = kind
  /\ fetched' = NoFrame

TakeData ==
  /\ Taken("data")
  /\ Deliver(fetched, <<fetched.tag>>)
  /\ UNCHANGED <<runtime, sending, headersStarted, disconnected, sent, closings>>

\* A finish closes the answer: the role chunk if nothing was sent, the finish
\* chunk, the usage chunk if asked for, and [DONE].
FinishSends == (IF sent = <<>> THEN <<"role">> ELSE <<>>) \o <<"finish">>
               \o (IF IncludeUsage THEN <<"usage">> ELSE <<>>) \o <<"done">>

\* Fault: no role for a finish that comes first.
TakeFinishWithoutRole ==
  /\ Taken("finish")
  /\ Deliver(fetched, <<"finish">> \o (IF IncludeUsage THEN <<"usage">> ELSE <<>>)
                      \o <<"done">>)
  /\ UNCHANGED <<runtime, sending, headersStarted, disconnected, sent, closings>>

\* A finish with no chunk before it needs the role first.
TakeFinish ==
  /\ Taken("finish")
  /\ Deliver(fetched, FinishSends)
  /\ UNCHANGED <<runtime, sending, headersStarted, disconnected, sent, closings>>

\* Fault: the consumer trusts the guard in inject().
TakeHttpErrorUnchecked ==
  /\ Taken("http_error")
  /\ pc' = "send" /\ current' = fetched /\ tick' = FALSE
  /\ outbox' = <<"errhead", "errbody">>
  /\ wire' = Append(wire, "errhead")
  /\ UNCHANGED <<runtime, sending, headersStarted, disconnected, sent, closings>>

TakeHttpError ==
  /\ Taken("http_error")
  /\ ~headersStarted
  /\ pc' = "send" /\ current' = fetched /\ tick' = FALSE
  /\ outbox' = <<"errhead", "errbody">>
  /\ wire' = Append(wire, "errhead")
  /\ UNCHANGED <<runtime, sending, headersStarted, disconnected, sent, closings>>

\* Fault: the dropped error is recorded as delivered.
DropHttpErrorClosing ==
  /\ Taken("http_error")
  /\ headersStarted
  /\ OnInjectedDelivered(fetched.tag)
  /\ UNCHANGED <<meta, live, injection, readOnly, script, queue, headersStarted,
                 disconnected, sent, wire>>
  /\ EnterWait

\* Fault: `continue` before get_task is reset.
DropHttpErrorForever ==
  /\ Waiting
  /\ ~disconnected
  /\ fetched.kind = "http_error"
  /\ headersStarted
  /\ UNCHANGED <<runtime, sending, fetched, headersStarted, disconnected, trace>>
  /\ EnterWait

\* `if started: continue`
DropHttpError ==
  /\ Taken("http_error")
  /\ headersStarted
  /\ UNCHANGED <<runtime, sending, headersStarted, disconnected, trace>>
  /\ EnterWait

TakeHardAbort ==
  /\ Taken("hard_abort")
  /\ IF headersStarted
       THEN /\ OnHardAbort(fetched.tag)
            /\ Stop
            /\ wire' = Append(wire, "close")
       ELSE /\ Deliver(fetched, <<>>)
            /\ UNCHANGED <<done, status, closings, sender, todo>>
  /\ UNCHANGED <<meta, live, injection, readOnly, script, queue, headersStarted,
                 disconnected, sent>>

\* Fault: [DONE] is sent but not recorded.
ReturnedWithoutDone ==
  /\ pc = "send"
  /\ headersStarted' = (headersStarted \/ Head(outbox) \in {"head", "errhead"})
  /\ sent' = IF Head(outbox) \in Chunks \ {"done"} THEN Append(sent, Head(outbox)) ELSE sent
  /\ UNCHANGED <<fetched, disconnected, queue, meta, live, readOnly, script>>

\* A send returned: what it sent is recorded, then the next one is begun.
Returned ==
  /\ pc = "send"
  /\ headersStarted' = (headersStarted \/ Head(outbox) \in {"head", "errhead"})
  /\ sent' = IF Head(outbox) \in Chunks THEN Append(sent, Head(outbox)) ELSE sent
  /\ UNCHANGED <<fetched, disconnected, queue, meta, live, readOnly, script>>

SendNext ==
  /\ Returned
  /\ Len(outbox) > 1
  /\ outbox' = Tail(outbox)
  /\ wire' = Put(wire, outbox[2])
  /\ UNCHANGED <<done, status, closings, injection, sender, todo, pc, tick, current>>

Sent(kind) == Returned /\ Len(outbox) = 1 /\ current.kind = kind

KeepAliveSent ==
  /\ Sent("keepalive")
  /\ EnterWait
  /\ UNCHANGED <<done, status, closings, injection, sender, todo, wire>>

\* Fault: one chunk too many.
CutDueLate == /\ injection.kind = "stream_cut"
              /\ ~injection.applied
              /\ Len(sent) + 1 > injection.after

\* An armed cut fires on the first data chunk that brings the count to it.
CutDue == /\ injection.kind = "stream_cut"
          /\ ~injection.applied
          /\ Len(sent) + 1 >= injection.after

DataSent ==
  /\ Sent("data")
  /\ ~CutDue
  /\ EnterWait
  /\ UNCHANGED <<done, status, closings, injection, sender, todo, wire>>

\* Fault: the hub closes the exchange, but the connection is not severed.
DataSentAndNotSevered ==
  /\ Sent("data")
  /\ CutDue
  /\ injection' = [injection EXCEPT !.applied = TRUE]
  /\ OnHardAbort("stream_cut_injected")
  /\ EnterWait
  /\ UNCHANGED wire

DataSentAndCut ==
  /\ Sent("data")
  /\ CutDue
  /\ injection' = [injection EXCEPT !.applied = TRUE]
  /\ OnHardAbort("stream_cut_injected")
  /\ Stop
  /\ wire' = Append(wire, "close")

FinishSent ==
  /\ Sent("finish")
  /\ OnStreamComplete(current.tag)
  /\ Stop
  /\ UNCHANGED <<injection, wire>>

HttpErrorSent ==
  /\ Sent("http_error")
  /\ OnInjectedDelivered(current.tag)
  /\ Stop
  /\ UNCHANGED <<injection, wire>>

HardAbortHeadSent ==
  /\ Sent("hard_abort")
  /\ OnHardAbort(current.tag)
  /\ Stop
  /\ wire' = Append(wire, "close")
  /\ UNCHANGED injection

GoneSent ==
  /\ Sent("gone")
  /\ Stop
  /\ UNCHANGED <<done, status, closings, injection, sender, todo, wire>>

\* The server cancels the request's task: any await raises CancelledError.
ConsumerCancelled ==
  /\ pc # "ended"
  /\ OnClientDisconnect
  /\ Stop
  /\ UNCHANGED <<meta, live, injection, readOnly, script, queue, fetched,
                 headersStarted, disconnected, sent, wire>>

\* The watcher saw http.disconnect.
ClientLeaves ==
  /\ pc # "ended"
  /\ ~disconnected
  /\ disconnected' = TRUE
  /\ UNCHANGED <<runtime, sending, pc, tick, fetched, current, outbox,
                 headersStarted, trace>>

-----------------------------------------------------------------------------

Operator ==
  \/ \E mode \in {"paced", "instant"}, plan \in Plans : Submit(mode, plan)
  \/ \E mode \in {"paced", "instant"} : SubmitFails(mode)
  \/ AbortGraceful
  \/ AbortHard
  \/ InjectHttpError
  \/ InjectDelay
  \/ InjectCutNow
  \/ \E n \in CutAfter : InjectCutAfter(n)
  \/ LiveStart
  \/ \E field \in {"reasoning", "content"} : LiveText(field)
  \/ \E chunks \in 1..2 : LiveToolCall(chunks)
  \/ LiveFinish
  \/ PutReadOnly

Sender == SenderEnds \/ \E n \in 1..Len(todo) : SenderPauses(n)

Wakes == \/ TakeDisconnect
         \/ Tick
         \/ TakeData
         \/ TakeFinish
         \/ TakeHttpError
         \/ DropHttpError
         \/ TakeHardAbort

SendReturns == \/ SendNext
               \/ KeepAliveSent
               \/ DataSent
               \/ DataSentAndCut
               \/ FinishSent
               \/ HttpErrorSent
               \/ HardAbortHeadSent
               \/ GoneSent

Environment == ClientLeaves \/ ConsumerCancelled \/ Shutdown

Next == Operator \/ Sender \/ GetTask \/ Wakes \/ SendReturns \/ Environment

Spec == Init /\ [][Next]_vars

\* The event loop runs every ready task, and the transport takes what is sent.
Fairness == /\ WF_vars(Sender)
            /\ WF_vars(GetTask)
            /\ WF_vars(Wakes)
            /\ WF_vars(SendReturns)

FairSpec == Spec /\ Fairness

-----------------------------------------------------------------------------
(* Properties                                                               *)

Injected == [kind : {"none", "delay", "stream_cut"}, after : Nat,
             applied : BOOLEAN, at : Nat]
Reasons  == {"whole", "partial", "injected", "operator_hard_abort",
             "stream_cut_injected", "client_disconnected"}
Closing  == [status : {"completed", "aborted", "injected"}, reason : Reasons]

RuntimeType ==
  /\ status \in {"pending", "active", "completed", "aborted", "injected"}
  /\ done \in BOOLEAN
  /\ meta \in {"none", "aborted_draft", "paced", "instant", "live"}
  /\ live \in {"off"} \cup Phases
  /\ injection \in Injected
  /\ readOnly \in BOOLEAN
  /\ script \in Seq(Phases)

SendingType ==
  /\ queue \in Seq(Frames)
  /\ sender \in {"none", "running", "ended", "cancelled", "stopped"}
  /\ todo \in Seq(Step)

ConsumerType ==
  /\ pc \in {"wait", "send", "ended"}
  /\ tick \in BOOLEAN
  /\ fetched \in Frames \cup {NoFrame}
  /\ current \in Frames \cup {NoFrame, KeepAliveFrame, GoneFrame}
  /\ outbox \in Seq(Items)
  /\ headersStarted \in BOOLEAN
  /\ disconnected \in BOOLEAN
  /\ pc = "send" <=> outbox # <<>>
  /\ pc = "send" <=> current # NoFrame

TraceType ==
  /\ sent \in Seq(Chunks)
  /\ wire \in Seq(Items)
  /\ closings \in Seq(Closing)

\* Every variable keeps its type, and the consumer has something to send
\* exactly while it is in a send.
TypeOK == RuntimeType /\ SendingType /\ ConsumerType /\ TraceType

On(item) == \E i \in 1..Len(wire) : wire[i] = item

WireRank == [head |-> 0, errhead |-> 0, keepalive |-> 1, role |-> 2,
             reasoning |-> 3, content |-> 4, tool |-> 5, finish |-> 6,
             usage |-> 7, done |-> 8, errbody |-> 9, end |-> 9, close |-> 9]

\* Whatever the operator, the sender and the timers do in whatever order, the
\* client reads a legal stream: headers, keep-alives only before the first
\* chunk, one role first, then reasoning, content and tool calls in that
\* order, one finish, usage only after it, [DONE] last (README: "reasoning ->
\* content -> tool_calls -> finish"; sse.py's consumer loop).
WireOrder ==
  /\ wire # <<>> => wire[1] \in {"head", "errhead"}
  /\ \A i, j \in 1..Len(wire) : i < j =>
       \/ WireRank[wire[i]] < WireRank[wire[j]]
       \/ wire[i] = wire[j] /\ wire[i] \in {"reasoning", "content", "tool"}
  /\ (\E x \in Chunks : On(x)) => On("role")
  /\ On("done") => On("finish")

\* The client gets one response: an injected HTTP error is alone on the wire,
\* never after the headers of a stream (state.py's guard in inject() and
\* sse.py's own check for what happened between the two).
OneResponse == On("errhead") => wire \in {<<"errhead">>, <<"errhead", "errbody">>}

DataOn(w)   == Selected(w, Phases)
ChunksOn(w) == Selected(w, Chunks)

\* The chunk_sent events are the chunks on the wire, short of the one being
\* sent at most, even when the request is cancelled in a send; keep-alives are
\* not among them (Hub.on_chunk_sent, and README on what is logged).
LogTracksWire ==
  /\ ChunksOn(wire) \in {sent} \cup {Append(sent, x) : x \in Chunks}
  /\ pc = "wait" \/ (done /\ status = "completed") => ChunksOn(wire) = sent

Tags(frames) == [i \in 1..Len(frames) |-> frames[i].tag]

InHand == IF fetched.kind = "data" THEN <<fetched.tag>>
          ELSE IF current.kind = "data" /\ Len(outbox) = 2 THEN <<current.tag>>
          ELSE <<>>

\* While nothing has ended the answer, every chunk the operator's calls stand
\* for is somewhere, once and in its place: on the wire, in the consumer's
\* hand, in the queue or still to be sent.  get_task outlives keep-alive ticks,
\* so a frame it holds must not be lost with one.
NothingLost ==
  (pc # "ended" /\ current.kind # "finish" /\ sender \notin {"cancelled", "stopped"})
    => script = DataOn(wire) \o InHand
                \o Tags(Selected(queue, DataFrames)) \o Whats(todo)

Closed(s, reasons) == \E i \in 1..Len(closings) : /\ closings[i].status = s
                                                  /\ closings[i].reason \in reasons

\* What has reached the wire is a beginning of what the operator asked for, however
\* it was cut (tests/test_streaming.py, graceful abort mid stream), and all of it for
\* a draft that is recorded as complete and not partial (on_stream_complete's
\* `partial`, set by whoever queued the finish).
AnswerOnWire ==
  /\ script # <<>> => DataOn(wire) \in {SubSeq(script, 1, n) : n \in 0..Len(script)}
  /\ Closed("completed", {"whole"}) /\ meta \in {"paced", "instant"}
       => DataOn(wire) = script

\* A response is never recorded with the mode "unknown" on_stream_complete
\* falls back to, and a whole one always has an answer behind it: whatever
\* aborts, submits and live calls raced, its meta is that of a draft or of live.
ResponseOwned ==
  /\ Closed("completed", {"whole", "partial"}) => meta # "none"
  /\ Closed("completed", {"whole"}) => meta \in {"paced", "instant", "live"}

\* An armed cut that fired left after_chunks chunks, or one more than had been
\* sent when it was armed too late for that (test_stream_cut_after_n_chunks).
CutCount ==
  injection.kind = "stream_cut" /\ injection.applied
    => Len(sent) = IF injection.after > injection.at THEN injection.after
                                                     ELSE injection.at + 1

\* A hard abort and a cut really truncate: the stream has neither a finish nor
\* [DONE], and the connection is severed after its last chunk.
HardAbortTruncates ==
  Closed("aborted", {"operator_hard_abort", "stream_cut_injected"})
    => ~On("finish") /\ ~On("done") /\ wire[Len(wire)] = "close"

\* The exchange is closed once, although a cancellation may reach the consumer
\* after it closed the exchange itself; the status is that of the closing.
OneEnding ==
  /\ done <=> Len(closings) = 1
  /\ ~done => closings = <<>> /\ status \in {"pending", "active"}
  /\ done => status = closings[1].status

\* The chunk_sent log is final when the response is recorded: a sender that
\* still runs, or frames still queued, add nothing that `maycomb verify` would
\* find missing in response_submitted.
RecordFrozen == [][done => UNCHANGED sent]_vars

\* What the closing and the wire are to the contract of an exchange.
ClosingCause ==
  IF closings = <<>> THEN "none"
  ELSE CASE closings[1].reason \in {"whole", "partial"} -> "response"
         [] closings[1].reason = "injected" -> "injection"
         [] closings[1].reason = "client_disconnected" -> "disconnect"
         [] OTHER -> "operator"

ClientReply == IF On("done") THEN "whole"
               ELSE IF On("close") THEN "cut"
               ELSE IF On("errhead") THEN "error"
               ELSE IF On("head") THEN "started" ELSE "none"

Contract == INSTANCE ExchangeContract WITH cause <- ClosingCause, reply <- ClientReply

\* The client's stream and the exchange's row never contradict each other.
ContractSpec == Contract!Spec

\* A finish or a hard abort that was queued ends the exchange, whatever was queued
\* before it and however often a tick wakes the consumer; so does a client that leaves.
EndingComes ==
  LET Queued == \E i \in 1..Len(queue) : queue[i].kind \in {"finish", "hard_abort"}
  IN  Queued \/ disconnected ~> done

\* A submitted draft ends its exchange, unless the server is shut down.
SubmittedEnds == sender = "running" ~> (done \/ sender = "stopped")

=============================================================================
