------------------------- MODULE JsonExchangeProofs -------------------------
(***************************************************************************)
(* Theorems about one non-streaming exchange: its results and its record   *)
(* are final, an answer that breaks the request is marked, and it          *)
(* implements the contract of an exchange.                                 *)
(*                                                                         *)
(* The inductive invariant relates the three things that end an exchange   *)
(* apart from one another: the record, result_future and the request's     *)
(* wait.                                                                   *)
(***************************************************************************)
EXTENDS JsonExchange, TLAPS, SequenceTheorems

Results == {"pending", "answer", "injected", "cancel500", "drop", "cancelled"}
Tags    == {"injected", "validation_bypassed", "response_format_violation",
            "broken_tool_arguments"}

TypeInv ==
  /\ status \in {"pending", "active", "completed", "aborted", "injected"}
  /\ done \in BOOLEAN
  /\ injection \in {"none", "armed", "applied"}
  /\ readOnly \in BOOLEAN
  /\ future \in Results
  /\ delivery \in {"none", "started", "ended"}
  /\ handler \in {"waiting", "dropping", "ended"}
  /\ left \in BOOLEAN /\ polled \in BOOLEAN
  /\ reply \in {"none", "answer", "injected", "cancel500", "shutdown", "started", "severed"}
  /\ request \in Requests
  /\ rowTags \subseteq Tags

\* The record is made once, with the status that goes with its reason, and the
\* future tells who made it: only a client that left leaves it pending, and a
\* shutdown may have cancelled it before.
Reasons == [answer              |-> [status |-> "completed", futures |-> {"answer"}],
            injected            |-> [status |-> "injected",
                                     futures |-> {"injected", "cancelled"}],
            operator_cancel     |-> [status |-> "aborted",
                                     futures |-> {"cancel500", "drop", "cancelled"}],
            client_disconnected |-> [status |-> "aborted", futures |-> {"pending"}]]

ClosedBy(reason) ==
  /\ closings = <<[status |-> Reasons[reason].status, reason |-> reason]>>
  /\ status = Reasons[reason].status
  /\ future \in Reasons[reason].futures

ClosingInv ==
  /\ ~done => /\ closings = <<>> /\ status \in {"pending", "active"}
              /\ future \in {"pending", "cancelled"}
  /\ done => \E reason \in DOMAIN Reasons : ClosedBy(reason)

\* What the client was handed is what its wait found in the future.
ReplyInv ==
  /\ handler = "waiting" => reply = "none"
  /\ handler = "dropping" <=> reply = "started"
  /\ reply \in {"answer", "injected", "cancel500"} => future = reply
  /\ reply = "shutdown" => future = "cancelled"
  /\ reply \in {"started", "severed"} => future = "drop"

\* An answer is one that submit() let through, and its row has its tags.
Accepted ==
  \E draft \in Drafts, bypass \in BOOLEAN :
    /\ Submittable(request, draft, bypass)
    /\ submission = [draft  |-> draft,
                     meta   |-> SubmitMeta(request, draft, bypass),
                     finish |-> ResolveFinishReason(draft)]

AnswerInv ==
  /\ delivery # "none" => status # "pending" /\ Accepted
  /\ future = "answer" => delivery # "none" /\ rowTags = submission.meta.tags

IInv == TypeInv /\ ClosingInv /\ ReplyInv /\ AnswerInv

-----------------------------------------------------------------------------

LEMMA InitInv == Init => IInv
BY DEF Init, IInv, TypeInv, ClosingInv, ReplyInv, AnswerInv, Results

\* The tags a submit puts on the row.
LEMMA TagsType ==
  ASSUME NEW r, NEW draft, NEW bypass
  PROVE  SubmitMeta(r, draft, bypass).tags \subseteq Tags
BY DEF SubmitMeta, AutoTags, Tags

\* How an open exchange is closed.
LEMMA Recorded ==
  ASSUME IInv, ~done, NEW reason \in DOMAIN Reasons, NEW tags,
         Record(Reasons[reason].status, reason, tags),
         future' \in Reasons[reason].futures
  PROVE  ClosingInv' /\ done' /\ rowTags' = tags
<1>1. /\ closings = <<>> /\ done' /\ status' = Reasons[reason].status /\ rowTags' = tags
      /\ closings' = Append(closings, [status |-> Reasons[reason].status, reason |-> reason])
  BY DEF IInv, ClosingInv, Record
<1> DEFINE c == [status |-> Reasons[reason].status, reason |-> reason]
<1>2. Append(<<>>, c) = <<c>>
  OBVIOUS
<1>3. closings' = <<c>>
  BY <1>1, <1>2
<1>4. ClosedBy(reason)'
  BY <1>1, <1>3 DEF ClosedBy
<1> QED
  BY <1>1, <1>4 DEF ClosingInv

\* What settles a result settles it for good: nothing that comes later changes it.
LEMMA SettledStep == IInv /\ [Next]_vars =>
  /\ done => UNCHANGED <<status, closings, done, rowTags>>
  /\ future # "pending" => UNCHANGED future
<1> SUFFICES ASSUME IInv, [Next]_vars
             PROVE  /\ done => UNCHANGED <<status, closings, done, rowTags>>
                    /\ future # "pending" => UNCHANGED future
  OBVIOUS
<1>1. CASE \/ \E draft \in Drafts, bypass \in BOOLEAN : Submit(draft, bypass)
           \/ InjectDelay \/ PutReadOnly \/ ClientLeaves \/ RequestCancelled \/ UNCHANGED vars
  BY <1>1 DEF Submit, Registered, InjectDelay, PutReadOnly, ClientLeaves, RequestCancelled,
              runtime, vars
<1>2. CASE Deliver
  BY <1>2 DEF Deliver, Resolve
<1>3. CASE (\E style \in Styles : Abort(style)) \/ InjectHttpError \/ Shutdown
  BY <1>3 DEF Abort, InjectHttpError, Shutdown, Resolve, Registered
<1>4. CASE Request
  BY <1>4 DEF Request, Poll, Answer, AnswerDrop, Sever, GiveUp, OnClientDisconnect, runtime
<1> QED
  BY <1>1, <1>2, <1>3, <1>4 DEF Next

LEMMA TypeSafe == IInv /\ [Next]_vars => TypeInv'
<1> SUFFICES ASSUME IInv, [Next]_vars PROVE TypeInv'
  OBVIOUS
<1>1. TypeInv
  BY DEF IInv
<1>2. ASSUME NEW draft \in Drafts, NEW bypass \in BOOLEAN, Submit(draft, bypass)
      PROVE  TypeInv'
  BY <1>1, <1>2 DEF TypeInv, Submit, waiting
<1>3. CASE Deliver
  <2>1. delivery # "none" => submission.meta.tags \subseteq Tags
    <3>1. delivery # "none" => \E draft \in Drafts, bypass \in BOOLEAN :
            submission.meta = SubmitMeta(request, draft, bypass)
      BY DEF IInv, AnswerInv, Accepted
    <3> QED
      BY <3>1, TagsType
  <2> QED
    BY <1>1, <1>3, <2>1 DEF TypeInv, Deliver, Record, Resolve, Results, waiting, asked
<1>4. CASE InjectHttpError
  <2>1. rowTags' \subseteq Tags
    BY <1>4 DEF InjectHttpError, Record, Tags
  <2>2. status' = "injected" /\ done' /\ future' \in Results
    BY <1>1, <1>4 DEF TypeInv, InjectHttpError, Record, Resolve, Results
  <2> QED
    BY <1>1, <1>4, <2>1, <2>2 DEF TypeInv, InjectHttpError, Record, waiting, asked
<1>8. CASE Shutdown
  BY <1>1, <1>8 DEF TypeInv, Shutdown, Results, waiting, asked
<1>7. ASSUME NEW style \in Styles, Abort(style) PROVE TypeInv'
  BY <1>1, <1>7 DEF TypeInv, Abort, Record, Resolve, Styles, Results, waiting, asked
<1>5. CASE Request
  BY <1>1, <1>5 DEF TypeInv, Request, Poll, Answer, AnswerDrop, Sever, GiveUp,
                    OnClientDisconnect, Record, Results, runtime, asked
<1>6. CASE InjectDelay \/ PutReadOnly \/ ClientLeaves \/ RequestCancelled \/ UNCHANGED vars
  BY <1>1, <1>6 DEF TypeInv, InjectDelay, PutReadOnly, ClientLeaves, RequestCancelled, runtime,
                    waiting, asked, vars
<1> QED
  BY <1>2, <1>3, <1>4, <1>5, <1>6, <1>7, <1>8 DEF Next

LEMMA ClosingSafe == IInv /\ [Next]_vars => ClosingInv'
<1> SUFFICES ASSUME IInv, [Next]_vars PROVE ClosingInv'
  OBVIOUS
<1>1. ClosingInv /\ future \in Results
  BY DEF IInv, TypeInv
<1>2. ASSUME UNCHANGED <<done, closings, future>>,
             status' = status \/ (~done /\ status' = "active")
      PROVE  ClosingInv'
  BY <1>1, <1>2 DEF ClosingInv, ClosedBy
<1>3. CASE \/ \E draft \in Drafts, bypass \in BOOLEAN : Submit(draft, bypass)
           \/ InjectDelay \/ PutReadOnly \/ ClientLeaves \/ RequestCancelled \/ UNCHANGED vars
           \/ Poll \/ Answer \/ AnswerDrop \/ Sever
  BY <1>2, <1>3 DEF Submit, Registered, InjectDelay, PutReadOnly, ClientLeaves, RequestCancelled,
                    Poll, Answer, AnswerDrop, Sever, runtime, vars
<1>4. CASE Shutdown
  BY <1>1, <1>4 DEF Shutdown, Registered, ClosingInv
<1>5. CASE Deliver
  <2>1. CASE done \/ future # "pending"
    BY <1>2, <1>5, <2>1 DEF Deliver
  <2>2. CASE ~(done \/ future # "pending")
    BY <1>5, <2>2, Recorded DEF Deliver, Resolve, Reasons
  <2> QED
    BY <2>1, <2>2
<1>6. ASSUME NEW style \in Styles, Abort(style) PROVE ClosingInv'
  <2>1. future \in {"pending", "cancelled"} /\ ~done
    BY <1>1, <1>6 DEF Abort, Registered, ClosingInv
  <2> QED
    BY <1>6, <2>1, Recorded DEF Abort, Resolve, Reasons, Styles
<1>7. CASE InjectHttpError
  <2>1. future \in {"pending", "cancelled"} /\ ~done
    BY <1>1, <1>7 DEF InjectHttpError, Registered, ClosingInv
  <2> QED
    BY <1>7, <2>1, Recorded DEF InjectHttpError, Resolve, Reasons
<1>8. CASE GiveUp
  <2>1. CASE done
    BY <1>2, <1>8, <2>1 DEF GiveUp, OnClientDisconnect
  <2>2. CASE ~done
    BY <1>8, <2>2, Recorded DEF GiveUp, OnClientDisconnect, Reasons
  <2> QED
    BY <2>1, <2>2
<1> QED
  BY <1>3, <1>4, <1>5, <1>6, <1>7, <1>8 DEF Next, Request

LEMMA ReplySafe == IInv /\ [Next]_vars => ReplyInv'
<1> SUFFICES ASSUME IInv, [Next]_vars PROVE ReplyInv'
  OBVIOUS
<1>1. /\ ReplyInv /\ TypeInv
      /\ future # "pending" => UNCHANGED future
  BY SettledStep DEF IInv
<1>2. ASSUME UNCHANGED <<handler, reply>> PROVE ReplyInv'
  BY <1>1, <1>2 DEF ReplyInv
<1>3. CASE Answer \/ AnswerDrop \/ Sever \/ GiveUp \/ RequestCancelled
  BY <1>1, <1>3 DEF Answer, AnswerDrop, Sever, GiveUp, RequestCancelled, ReplyInv, runtime
<1>4. ASSUME ~(Answer \/ AnswerDrop \/ Sever \/ GiveUp \/ RequestCancelled)
      PROVE  UNCHANGED <<handler, reply>>
  BY <1>4 DEF Next, Request, Submit, Deliver, Abort, InjectHttpError, InjectDelay, PutReadOnly,
              Shutdown, Poll, ClientLeaves, waiting, vars
<1> QED
  BY <1>2, <1>3, <1>4

LEMMA AnswerSafe == IInv /\ [Next]_vars => AnswerInv'
<1> SUFFICES ASSUME IInv, [Next]_vars PROVE AnswerInv'
  OBVIOUS
<1>1. /\ AnswerInv
      /\ done => UNCHANGED <<status, closings, done, rowTags>>
      /\ future # "pending" => UNCHANGED future
      /\ future = "answer" => done
      /\ UNCHANGED request
  <2>1. UNCHANGED request
    BY DEF Next, Submit, Deliver, Abort, InjectHttpError, InjectDelay, PutReadOnly, Shutdown,
           Request, Poll, Answer, AnswerDrop, Sever, GiveUp, ClientLeaves, RequestCancelled,
           asked, vars
  <2> QED
    BY <2>1, SettledStep DEF IInv, ClosingInv
<1>2. ASSUME UNCHANGED <<delivery, submission>>, future' = "answer" => future = "answer",
             status' = "pending" => status = "pending"
      PROVE  AnswerInv'
  BY <1>1, <1>2 DEF AnswerInv, Accepted
<1>3. ASSUME NEW draft \in Drafts, NEW bypass \in BOOLEAN, Submit(draft, bypass)
      PROVE  AnswerInv'
  <2>1. Accepted' /\ status' = "active" /\ future' # "answer"
    BY <1>1, <1>3 DEF Submit, Registered, Accepted
  <2> QED
    BY <2>1 DEF AnswerInv
<1>4. CASE Deliver
  BY <1>1, <1>4 DEF Deliver, Record, Resolve, AnswerInv, Accepted, asked
<1>5. CASE (\E style \in Styles : Abort(style)) \/ InjectHttpError \/ Shutdown \/ GiveUp
  <2>1. /\ UNCHANGED <<delivery, submission>>
        /\ status' \in {status, "aborted", "injected"}
    BY <1>5 DEF Abort, InjectHttpError, Shutdown, GiveUp, OnClientDisconnect, Record, asked
  <2>2. future' = "answer" => future = "answer"
    BY <1>5 DEF Abort, InjectHttpError, Shutdown, GiveUp, Resolve, Styles
  <2> QED
    BY <1>2, <2>1, <2>2
<1>6. CASE \/ InjectDelay \/ PutReadOnly \/ ClientLeaves \/ RequestCancelled \/ UNCHANGED vars
           \/ Poll \/ Answer \/ AnswerDrop \/ Sever
  BY <1>2, <1>6 DEF InjectDelay, PutReadOnly, ClientLeaves, RequestCancelled,
                    Poll, Answer, AnswerDrop, Sever, runtime, asked, vars
<1> QED
  BY <1>3, <1>4, <1>5, <1>6 DEF Next, Request

\* The record, result_future and the waiting request of api_openai.py belong together
\* whichever of delivery, abort, injection, disconnect and shutdown comes first.
THEOREM InvAlways == Spec => []IInv
<1>1. IInv /\ [Next]_vars => IInv'
  BY TypeSafe, ClosingSafe, ReplySafe, AnswerSafe DEF IInv
<1> QED
  BY InitInv, <1>1, PTL DEF Spec

\* A result is set once and a closed exchange keeps its record, whatever delivery,
\* abort, injection, poll or shutdown comes late (_deliver_nonstream's second look
\* and the `if not fut.done()` of its callers).
THEOREM SettledAlways == Spec => Settled
<1>1. IInv /\ [Next]_vars =>
        [/\ done => UNCHANGED <<status, closings>>
         /\ future # "pending" => UNCHANGED future]_vars
  BY SettledStep
<1> QED
  BY <1>1, InvAlways, PTL DEF Spec, Settled

\* What a submit lets through, and how it marks it: the checks of validate_draft
\* against what the client asked for.
LEMMA AcceptedMarked ==
  ASSUME TypeInv, Accepted
  PROVE  LET breach == \/ ~FormatMet /\ submission.draft.content # "null"
                       \/ BrokenArguments(submission.draft)
             marks  == submission.meta.tags
         IN  /\ breach <=> "validation_bypassed" \in marks
             /\ breach <=> marks \cap {"response_format_violation",
                                       "broken_tool_arguments"} # {}
             /\ "validation_bypassed" \in marks <=> submission.meta.bypassed
<1>1. PICK draft \in Drafts, bypass \in BOOLEAN :
             /\ Submittable(request, draft, bypass)
             /\ submission = [draft  |-> draft,
                              meta   |-> SubmitMeta(request, draft, bypass),
                              finish |-> ResolveFinishReason(draft)]
  BY DEF Accepted
<1> DEFINE tags   == AutoTags(request, draft)
           breach == \/ ~FormatMet /\ draft.content # "null"
                     \/ BrokenArguments(draft)
<1>2. /\ submission.draft = draft /\ request \in Requests
      /\ draft.content \in Contents
  BY <1>1 DEF TypeInv, Drafts
<1>3. FormatViolated(request, draft) <=> ~FormatMet /\ draft.content # "null"
  <2>1. ~Raises(request, draft)
    BY <1>1 DEF Submittable
  <2> QED
    BY <1>2, <2>1 DEF FormatViolated, FormatApplies, SchemaConsulted, Raises, FormatMet, Requests,
                      Contents
<1>4. /\ tags = {} <=> ~breach
      /\ tags \subseteq {"response_format_violation", "broken_tool_arguments"}
  BY <1>3 DEF AutoTags
<1>5. /\ submission.meta.bypassed = (tags # {} /\ bypass)
      /\ submission.meta.tags = IF tags # {} /\ bypass THEN tags \cup {"validation_bypassed"}
                                                       ELSE {}
  BY <1>1 DEF SubmitMeta, Blocked
<1>6. tags # {} => bypass
  BY <1>1 DEF Submittable, Blocked
<1> HIDE DEF tags
<1> QED
  BY <1>2, <1>4, <1>5, <1>6

\* An answer that breaks what the client asked for reaches it only when the operator
\* forced it, and its row says so (submit's tags and _deliver_nonstream).
THEOREM BreachMarkedAlways == Spec => []BreachMarked
<1>1. IInv => BreachMarked
  <2> SUFFICES ASSUME IInv, reply = "answer" PROVE BreachMarked
    BY DEF BreachMarked
  <2>1. Accepted /\ rowTags = submission.meta.tags /\ TypeInv
    BY DEF IInv, ReplyInv, AnswerInv
  <2> QED
    BY <2>1, AcceptedMarked DEF BreachMarked
<1> QED
  BY <1>1, InvAlways, PTL

-----------------------------------------------------------------------------
(* Refinement                                                               *)

CauseInv ==
  /\ ~done => ClosingCause = "none" /\ status \in {"pending", "active"}
  /\ done => /\ ClosingCause \in {"response", "injection", "operator", "disconnect"}
             /\ status = Contract!StatusOf[ClosingCause]

LEMMA Causes ==
  ASSUME IInv
  PROVE  /\ ~done => ClosingCause = "none" /\ status \in {"pending", "active"}
         /\ done => /\ ClosingCause \in {"response", "injection", "operator", "disconnect"}
                    /\ status = Contract!StatusOf[ClosingCause]
                    /\ ClosingCause = "response" => future = "answer"
                    /\ ClosingCause = "injection" => future \in {"injected", "cancelled"}
                    /\ ClosingCause = "operator" => future \in {"cancel500", "drop", "cancelled"}
<1>1. CASE ~done
  BY <1>1 DEF IInv, ClosingInv, ClosingCause
<1>2. CASE done
  <2>1. PICK reason \in DOMAIN Reasons : ClosedBy(reason)
    BY <1>2 DEF IInv, ClosingInv
  <2> DEFINE c == [status |-> Reasons[reason].status, reason |-> reason]
  <2>2. closings = <<c>> /\ status = Reasons[reason].status /\ future \in Reasons[reason].futures
    BY <2>1 DEF ClosedBy
  <2>3. <<c>> # <<>> /\ <<c>>[1] = c
    OBVIOUS
  <2>4. closings # <<>> /\ closings[1].reason = reason
    BY <2>2, <2>3
  <2>5. reason \in {"answer", "injected", "operator_cancel", "client_disconnected"}
    BY DEF Reasons
  <2> QED
    BY <1>2, <2>2, <2>4, <2>5 DEF ClosingCause, Reasons, Contract!StatusOf
<1> QED
  BY <1>1, <1>2

LEMMA InvAgrees == IInv => Contract!Agree
<1> SUFFICES ASSUME IInv PROVE Contract!Agree
  OBVIOUS
<1>1. ClientReply \in Contract!Replies
  BY DEF IInv, TypeInv, ClientReply, Contract!Replies
<1>2. /\ ClientReply = "whole" => future = "answer"
      /\ ClientReply = "error" => future \in {"injected", "cancel500", "cancelled"}
      /\ ClientReply \in {"started", "cut"} => future = "drop"
  BY DEF IInv, TypeInv, ReplyInv, ClientReply
<1>3. CASE ~done
  BY <1>1, <1>3, Causes DEF Contract!Agree, Contract!Agreeing
<1>4. CASE done
  <2>1. CASE ClosingCause = "disconnect"
    BY <1>1, <2>1 DEF Contract!Agree, Contract!Agreeing
  <2>2. CASE ClosingCause = "response"
    BY <1>1, <1>2, <1>4, <2>2, Causes DEF Contract!Agree, Contract!Agreeing, Contract!Replies
  <2>3. CASE ClosingCause = "injection"
    BY <1>1, <1>2, <1>4, <2>3, Causes DEF Contract!Agree, Contract!Agreeing, Contract!Replies
  <2>4. CASE ClosingCause = "operator"
    BY <1>1, <1>2, <1>4, <2>4, Causes DEF Contract!Agree, Contract!Agreeing, Contract!Replies
  <2> QED
    BY <1>4, <2>1, <2>2, <2>3, <2>4, Causes
<1> QED
  BY <1>3, <1>4

LEMMA CausesNext == IInv' => CauseInv'
<1>1. IInv => CauseInv
  BY Causes DEF CauseInv
<1> QED
  BY <1>1, PTL

LEMMA RowStep == IInv /\ IInv' /\ [Next]_vars => Contract!Row
<1> SUFFICES ASSUME IInv, IInv', [Next]_vars PROVE Contract!Row
  OBVIOUS
<1>1. CASE done
  BY <1>1, SettledStep DEF Contract!Row, ClosingCause
<1>2. CASE ~done /\ done'
  <2>1. status \in {"pending", "active"} /\ done'
    BY <1>2, Causes
  <2>2. CauseInv'
    BY CausesNext
  <2> QED
    BY <1>2, <2>1, <2>2 DEF CauseInv, Contract!Row, Contract!Close, Contract!Open, Contract!Causes
<1>3. CASE ~done /\ ~done'
  <2>1. UNCHANGED closings /\ (UNCHANGED status \/ (status = "pending" /\ status' = "active"))
    BY <1>3 DEF Next, Submit, Deliver, Abort, InjectHttpError, InjectDelay, PutReadOnly, Shutdown,
           Request, Poll, Answer, AnswerDrop, Sever, GiveUp, OnClientDisconnect, Record,
           ClientLeaves, RequestCancelled, runtime, vars
  <2> QED
    BY <2>1 DEF Contract!Row, Contract!Activate, ClosingCause
<1> QED
  BY <1>1, <1>2, <1>3

LEMMA RespondStep == IInv /\ [Next]_vars => Contract!Respond
<1> SUFFICES ASSUME IInv, [Next]_vars PROVE Contract!Respond
  OBVIOUS
<1>1. CASE Answer
  BY <1>1 DEF Answer, IInv, TypeInv, ReplyInv, Contract!Respond, Contract!Follow, ClientReply
<1>2. CASE AnswerDrop
  BY <1>2 DEF AnswerDrop, IInv, TypeInv, ReplyInv, Contract!Respond, Contract!Follow, ClientReply
<1>3. CASE Sever
  BY <1>3 DEF Sever, IInv, TypeInv, ReplyInv, Contract!Respond, Contract!Follow, ClientReply
<1>4. CASE ~(Answer \/ AnswerDrop \/ Sever)
  <2>1. UNCHANGED reply
    BY <1>4 DEF Next, Request, Submit, Deliver, Abort, InjectHttpError, InjectDelay, PutReadOnly,
              Shutdown, Poll, ClientLeaves, GiveUp, RequestCancelled, waiting, vars
  <2> QED
    BY <2>1 DEF Contract!Respond, ClientReply
<1> QED
  BY <1>1, <1>2, <1>3, <1>4

\* A non-streaming exchange keeps the same contract as a streaming one: its row is
\* closed once and never contradicts what the waiting client was handed.
THEOREM ImplementsContract == Spec => ContractSpec
<1>1. Init => Contract!Init
  BY DEF Init, Contract!Init, ClosingCause, ClientReply
<1>2. IInv /\ IInv' /\ [Next]_vars => [Contract!Next]_(Contract!vars)
  <2>1. IInv' => Contract!Agree'
    BY InvAgrees, PTL
  <2> QED
    BY <2>1, RowStep, RespondStep DEF Contract!Next
<1> QED
  BY <1>1, <1>2, InvAlways, PTL DEF Spec, ContractSpec, Contract!Spec

=============================================================================
