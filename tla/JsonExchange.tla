---------------------------- MODULE JsonExchange ----------------------------
(***************************************************************************)
(* One exchange without streaming: the client's request waits in           *)
(* api_openai.py on the runtime's result_future; the task a submit starts, *)
(* an abort, an injection or the server's shutdown resolves it, and a poll *)
(* for a client that left may end the wait first.                          *)
(***************************************************************************)
EXTENDS Naturals, DraftRules

VARIABLES
  status, done, injection, readOnly,  \* the runtime and the settings it reads
  future,     \* result_future
  delivery,   \* the task running _deliver_nonstream
  handler,    \* the request's wait
  left,       \* the client closed its connection
  polled,     \* poll_task has returned
  reply,      \* what the client was handed
  closings,   \* the changes that closed the exchange
  request,    \* what the client asked for, as far as the draft's checks care
  rowTags,    \* the tags of the exchange's row
  submission  \* the draft submit() accepted, with its meta and finish reason

runtime == <<status, done, injection, readOnly, future, delivery, closings, rowTags>>
waiting == <<handler, left, polled, reply>>
asked   == <<request, submission>>
vars    == <<runtime, waiting, asked>>

NoSubmission == [draft  |-> [content |-> "empty", calls |-> <<>>, finish |-> "none"],
                 meta   |-> [bypassed |-> FALSE, tags |-> {}],
                 finish |-> "none"]

\* The operator's cancel has two styles.
Styles == {"cancel500", "drop"}

Init ==
  /\ status = "pending" /\ done = FALSE /\ injection = "none" /\ readOnly = FALSE
  /\ future = "pending" /\ delivery = "none"
  /\ handler = "waiting" /\ left = FALSE /\ polled = FALSE /\ reply = "none"
  /\ closings = <<>>
  /\ request \in Requests /\ submission = NoSubmission /\ rowTags = {}

-----------------------------------------------------------------------------
(* Closing the exchange, on the operator's side                             *)

\* Hub.runtime() and `rt.done` together: a runtime is dropped when it is done.
Registered == ~done

Record(s, reason, tags) ==
  /\ done' = TRUE
  /\ status' = s
  /\ rowTags' = tags
  /\ closings' = Append(closings, [status |-> s, reason |-> reason])

Resolve(result) == future' = IF future = "pending" THEN result ELSE future

\* POST .../submit; what it refuses, and the call validate_draft makes fail,
\* changes nothing.
Submit(draft, bypass) ==
  /\ ~readOnly
  /\ Registered
  /\ status = "pending"
  /\ Submittable(request, draft, bypass)
  /\ submission' = [draft  |-> draft,
                    meta   |-> SubmitMeta(request, draft, bypass),
                    finish |-> ResolveFinishReason(draft)]
  /\ status' = "active"
  /\ injection' = IF injection = "armed" THEN "applied" ELSE injection
  /\ delivery' = "started"
  /\ UNCHANGED <<done, readOnly, future, closings, rowTags, waiting, request>>

\* Fault: the delivery does not look again.
DeliverUnchecked ==
  /\ delivery = "started"
  /\ delivery' = "ended"
  /\ Record("completed", "answer", submission.meta.tags)
  /\ future' = "answer"
  /\ UNCHANGED <<injection, readOnly, waiting, asked>>

\* Fault: the delivery takes the submitted exchange for one that ended.
DeliverIfPending ==
  /\ delivery = "started"
  /\ delivery' = "ended"
  /\ IF status # "pending" \/ future # "pending"
       THEN UNCHANGED <<done, status, closings, future, rowTags>>
       ELSE Record("completed", "answer", submission.meta.tags) /\ Resolve("answer")
  /\ UNCHANGED <<injection, readOnly, waiting, asked>>

\* _deliver_nonstream, after its delay.  It is not a task abort() can cancel,
\* so it looks again whether there is still anybody to answer.
Deliver ==
  /\ delivery = "started"
  /\ delivery' = "ended"
  /\ IF done \/ future # "pending"
       THEN UNCHANGED <<done, status, closings, future, rowTags>>
       ELSE Record("completed", "answer", submission.meta.tags) /\ Resolve("answer")
  /\ UNCHANGED <<injection, readOnly, waiting, asked>>

\* Fault: the future is left to the delivery.
AbortUnresolved(style) ==
  /\ Registered
  /\ Record("aborted", "operator_cancel", rowTags)
  /\ UNCHANGED <<injection, readOnly, future, delivery, waiting, asked>>

Abort(style) ==
  /\ Registered
  /\ Record("aborted", "operator_cancel", rowTags)
  /\ Resolve(style)
  /\ UNCHANGED <<injection, readOnly, delivery, waiting, asked>>

\* Fault: an injection that reuses the answer's result.
InjectAnswer ==
  /\ Registered
  /\ Record("injected", "injected", {"injected"})
  /\ Resolve("answer")
  /\ UNCHANGED <<injection, readOnly, delivery, waiting, asked>>

InjectHttpError ==
  /\ Registered
  /\ Record("injected", "injected", {"injected"})
  /\ Resolve("injected")
  /\ UNCHANGED <<injection, readOnly, delivery, waiting, asked>>

\* A delay only counts for a submit that has not been made yet.
InjectDelay ==
  /\ Registered
  /\ injection' = "armed"
  /\ UNCHANGED <<status, done, readOnly, future, delivery, closings, rowTags, waiting, asked>>

PutReadOnly ==
  /\ readOnly' = ~readOnly
  /\ UNCHANGED <<status, done, injection, future, delivery, closings, rowTags, waiting, asked>>

\* Hub.shutdown: the row stays as it is.
Shutdown ==
  /\ Registered
  /\ future = "pending"
  /\ future' = "cancelled"
  /\ UNCHANGED <<status, done, injection, readOnly, delivery, closings, rowTags, waiting, asked>>

-----------------------------------------------------------------------------
(* The waiting request                                                      *)

ClientLeaves ==
  /\ ~left
  /\ left' = TRUE
  /\ UNCHANGED <<runtime, asked, handler, polled, reply>>

Poll ==
  /\ handler = "waiting"
  /\ left
  /\ ~polled
  /\ polled' = TRUE
  /\ UNCHANGED <<runtime, asked, handler, left, reply>>

\* A resolved future comes before the poll.  A cancelled one is answered with
\* an error of its own.
Answer ==
  /\ handler = "waiting"
  /\ future \in {"answer", "injected", "cancel500", "cancelled"}
  /\ handler' = "ended"
  /\ reply' = IF future = "cancelled" THEN "shutdown" ELSE future
  /\ UNCHANGED <<runtime, asked, left, polled>>

\* AbruptDropResponse: a 200 is started, then the connection is severed.
AnswerDrop ==
  /\ handler = "waiting"
  /\ future = "drop"
  /\ handler' = "dropping"
  /\ reply' = "started"
  /\ UNCHANGED <<runtime, asked, left, polled>>

Sever ==
  /\ handler = "dropping"
  /\ handler' = "ended"
  /\ reply' = "severed"
  /\ UNCHANGED <<runtime, asked, left, polled>>

OnClientDisconnect ==
  IF done THEN UNCHANGED <<done, status, closings, rowTags>>
          ELSE Record("aborted", "client_disconnected", rowTags)

GiveUp ==
  /\ handler = "waiting"
  /\ future = "pending"
  /\ polled
  /\ OnClientDisconnect
  /\ handler' = "ended"
  /\ UNCHANGED <<injection, readOnly, future, delivery, left, polled, reply, asked>>

\* The server cancels the request's task.  Nothing here closes the exchange.
RequestCancelled ==
  /\ handler = "waiting"
  /\ handler' = "ended"
  /\ UNCHANGED <<runtime, asked, left, polled, reply>>

-----------------------------------------------------------------------------

Request == Poll \/ Answer \/ AnswerDrop \/ Sever \/ GiveUp

Next ==
  \/ \E draft \in Drafts, bypass \in BOOLEAN : Submit(draft, bypass)
  \/ Deliver
  \/ \E style \in Styles : Abort(style)
  \/ InjectHttpError
  \/ InjectDelay
  \/ PutReadOnly
  \/ Shutdown
  \/ Request
  \/ ClientLeaves
  \/ RequestCancelled

Spec == Init /\ [][Next]_vars

\* The event loop runs every ready task and the delays are finite.
FairSpec == Spec /\ WF_vars(Deliver) /\ WF_vars(Request)

-----------------------------------------------------------------------------
(* Properties                                                               *)

\* A result is set once (set_result would raise on a second one), and a closed
\* exchange keeps its record: the late delivery after an abort, a disconnect or
\* a shutdown changes neither.
Settled == [][ /\ done => UNCHANGED <<status, closings>>
               /\ future # "pending" => UNCHANGED future ]_vars

\* What the client asked for, said apart from the checks: without tool calls the
\* content is JSON where a format is set, and fits the schema where there is one.
FormatMet ==
  LET draft == submission.draft
  IN  \/ request = "free" \/ draft.calls # <<>>
      \/ draft.content = "fitting"
      \/ draft.content \in {"unfitting", "null"} /\ request \in {"json_object", "no_schema"}

\* An answer that breaks the request's response_format, or carries arguments
\* that are no JSON, reaches the client only when the operator forced it, and
\* its row says what it breaks.  An answer that breaks nothing is not marked,
\* whatever the operator asked for.  Null content is the exception: validate_draft
\* takes it for a content it could not parse and skips the schema.
BreachMarked ==
  reply = "answer" =>
    LET breach == \/ ~FormatMet /\ submission.draft.content # "null"
                  \/ BrokenArguments(submission.draft)
    IN  /\ breach <=> "validation_bypassed" \in rowTags
        /\ breach <=> rowTags \cap {"response_format_violation",
                                   "broken_tool_arguments"} # {}
        /\ "validation_bypassed" \in rowTags <=> submission.meta.bypassed

\* What the closing and the reply are to the contract of an exchange.
ClosingCause ==
  IF closings = <<>> THEN "none"
  ELSE CASE closings[1].reason = "answer" -> "response"
         [] closings[1].reason = "injected" -> "injection"
         [] closings[1].reason = "operator_cancel" -> "operator"
         [] OTHER -> "disconnect"

ClientReply == CASE reply = "answer" -> "whole"
                 [] reply \in {"injected", "cancel500", "shutdown"} -> "error"
                 [] reply = "severed" -> "cut"
                 [] OTHER -> reply

Contract == INSTANCE ExchangeContract WITH cause <- ClosingCause, reply <- ClientReply

\* The client's reply and the exchange's row never contradict each other.
ContractSpec == Contract!Spec

\* A submitted draft is delivered, unless the server shut down before.
SubmittedEnds == delivery = "started" ~> (done \/ future = "cancelled")

\* A closed exchange, a shutdown and a client that left all end the request.
WaitEnds == (done \/ left \/ future = "cancelled") ~> handler = "ended"

=============================================================================
