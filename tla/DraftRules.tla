----------------------------- MODULE DraftRules -----------------------------
(***************************************************************************)
(* What wire.py lets an operator send: the checks of a draft against the   *)
(* request it answers, the bypass, and the finish reason.  Texts are       *)
(* abstracted to what the checks tell apart.                               *)
(***************************************************************************)
EXTENDS Sequences

\* The request's response_format: none, json_object, and json_schema without a
\* schema, with one, and with one that is itself no schema.
Requests == {"free", "json_object", "no_schema", "schema", "bad_schema"}

\* A draft's content: nothing, text that is no JSON, JSON's null, and other JSON
\* that satisfies the request's schema or does not.
Contents == {"empty", "prose", "null", "fitting", "unfitting"}

\* The arguments of a tool call: an object, JSON text, text that is no JSON.
Arguments == {"object", "json", "broken"}

Finishes == {"stop", "length", "tool_calls", "content_filter"}

\* Drafts as the console posts them; "bogus" is a finish reason that is none.
Drafts == [content : Contents,
           calls   : {<<>>, <<"json">>, <<"object", "broken">>},
           finish  : {"auto", "length", "bogus"}]

-----------------------------------------------------------------------------
(* validate_draft                                                           *)

BrokenArguments(draft) == \E i \in DOMAIN draft.calls : draft.calls[i] = "broken"

\* response_format binds a draft without tool calls.
FormatApplies(request, draft) == request # "free" /\ draft.calls = <<>>

\* The schema is consulted when json.loads gave something other than None.
SchemaConsulted(request, draft) ==
  /\ FormatApplies(request, draft)
  /\ request \in {"schema", "bad_schema"}
  /\ draft.content \in {"fitting", "unfitting"}

\* jsonschema's SchemaError is no ValidationError and leaves validate_draft: the
\* call fails, whatever the operator bypasses.
Raises(request, draft) ==
  request = "bad_schema" /\ SchemaConsulted(request, draft)

\* Fault: only the syntax is checked.
FormatViolatedSyntax(request, draft) ==
  /\ FormatApplies(request, draft)
  /\ draft.content \in {"empty", "prose"}

FormatViolated(request, draft) ==
  /\ FormatApplies(request, draft)
  /\ \/ draft.content \in {"empty", "prose"}
     \/ SchemaConsulted(request, draft) /\ draft.content = "unfitting"

\* Every blocker comes with its tag.
AutoTags(request, draft) ==
  {t \in {"broken_tool_arguments", "response_format_violation"} :
     CASE t = "broken_tool_arguments"     -> BrokenArguments(draft)
       [] t = "response_format_violation" -> FormatViolated(request, draft)}

Blocked(request, draft) == AutoTags(request, draft) # {}

-----------------------------------------------------------------------------
(* The rest of submit()'s checks, and what it keeps                         *)

FinishAccepted(draft) == draft.finish \in Finishes \cup {"auto"}

ResolveFinishReason(draft) ==
  CASE draft.finish # "auto" -> draft.finish
    [] draft.calls # <<>>    -> "tool_calls"
    [] OTHER                 -> "stop"

Submittable(request, draft, bypass) ==
  /\ ~Raises(request, draft)
  /\ Blocked(request, draft) => bypass
  /\ FinishAccepted(draft)

\* submit_meta; the tags are those submit() adds to the operator's.
SubmitMeta(request, draft, bypass) ==
  LET bypassed == Blocked(request, draft) /\ bypass
  IN  [bypassed |-> bypassed,
       tags |-> IF bypassed
                  THEN AutoTags(request, draft) \cup {"validation_bypassed"}
                  ELSE {}]

=============================================================================
