----------------------------- MODULE WireReplay -----------------------------
(***************************************************************************)
(* What a streamed answer says: a submitted draft is planned as deltas     *)
(* (wire.plan_deltas over tokenizer.split_pieces), the deltas go out one   *)
(* chunk at a time and into the event log, and the answer is rebuilt from  *)
(* the logged chunks (wire.reconstruct_from_frames) when the stream ends   *)
(* and again by `maycomb verify`.                                          *)
(*                                                                         *)
(* A text is a sequence of characters, its UTF-8 form a sequence of bytes, *)
(* and the tokenizer may end a token after any byte.                       *)
(***************************************************************************)
EXTENDS DeltaPhases, SequencesExt

CONSTANTS
  Drafts,        \* the drafts that may be submitted
  Wide,          \* the characters of two bytes
  TokenEnds,     \* byte offsets after which a token may end
  IncludeUsage,  \* stream_options.include_usage
  EventLimit     \* the `limit` of Database.events

Chars == Nat \ {0}
Texts == Seq(Chars)

ASSUME WireAssumption ==
  /\ Drafts \subseteq [reasoning : Texts, content : Texts,
                       tools : Seq([id : STRING, args : Texts]), finish : STRING]
  /\ Wide \subseteq Chars
  /\ TokenEnds \subseteq Nat \ {0}
  /\ IncludeUsage \in BOOLEAN
  /\ EventLimit \in Nat

VARIABLES
  draft,         \* the submitted draft
  mode,          \* how it is sent
  plan,          \* the deltas still to send
  log,           \* the chunk_sent events
  status,
  partial,       \* the answer was cut off by a graceful abort
  stored         \* the object recorded when the exchange ends

vars == <<draft, mode, plan, log, status, partial, stored>>

-----------------------------------------------------------------------------
(* Text and its pieces                                                      *)

Replacement == 0    \* what decode(errors="replace") makes of half a character

Width(c)    == IF c \in Wide THEN 2 ELSE 1
Bytes(text) == FlattenSeq([i \in 1..Len(text) |->
                             [k \in 1..Width(text[i]) |-> <<text[i], k>>]])
Whole(buf)  == buf[1][2] = 1 /\ buf[Len(buf)][2] = Width(buf[Len(buf)][1])
Firsts(buf) == FlattenSeq([k \in 1..Len(buf) |->
                             IF buf[k][2] = 1 THEN <<buf[k][1]>> ELSE <<>>])
Decode(buf) == IF Whole(buf) THEN Firsts(buf) ELSE <<Replacement>>

\* A token ends after each byte of `ends` and after the last one.
\* Fault: every token is decoded by itself.
SplitTokens(text, ends) ==
  LET bytes == Bytes(text)
      read[n \in 0..Len(bytes)] ==
        IF n = 0 THEN [pieces |-> <<>>, buf |-> <<>>]
        ELSE LET buf == Append(read[n - 1].buf, bytes[n])
             IN  IF n \in ends \/ n = Len(bytes)
                   THEN [pieces |-> Append(read[n - 1].pieces, Decode(buf)), buf |-> <<>>]
                   ELSE [pieces |-> read[n - 1].pieces, buf |-> buf]
  IN  read[Len(bytes)].pieces

\* One byte more: a token that ends inside a character waits for the next one.
TakeByte(acc, byte, ends) ==
  LET buf == Append(acc.buf, byte)
  IN  IF ends /\ Whole(buf)
        THEN [pieces |-> Append(acc.pieces, Decode(buf)), buf |-> <<>>]
        ELSE [pieces |-> acc.pieces, buf |-> buf]

SplitPieces(text, ends) ==
  LET bytes == Bytes(text)
      read[n \in 0..Len(bytes)] ==
        IF n = 0 THEN [pieces |-> <<>>, buf |-> <<>>]
        ELSE TakeByte(read[n - 1], bytes[n], n \in ends \/ n = Len(bytes))
      all   == read[Len(bytes)]
  IN  IF all.buf = <<>> THEN all.pieces ELSE Append(all.pieces, Decode(all.buf))

-----------------------------------------------------------------------------
(* Chunks and plans                                                         *)

Chunk(kind, index, label, text) ==
  [kind |-> kind, index |-> index, label |-> label, text |-> text]

Role            == Chunk("role", 0, "none", <<>>)
Says(kind, p)   == Chunk(kind, 0, "none", p)
Call(i, id)     == Chunk("call", i, id, <<>>)
Fragment(i, p)  == Chunk("fragment", i, "none", p)
FinishAs(reason) == Chunk("finish", 0, reason, <<>>)
Usage           == Chunk("usage", 0, "none", <<>>)
Done            == Chunk("done", 0, "none", <<>>)

SaysAll(kind, pieces) == [k \in 1..Len(pieces) |-> Says(kind, pieces[k])]

\* One call after the other.
InTurn(tools, frags) ==
  FlattenSeq([i \in 1..Len(tools) |->
    <<Call(i, tools[i].id)>> \o [k \in 1..Len(frags[i]) |-> Fragment(i, frags[i][k])]])

\* Round after round, one fragment of each call that has one left; the first
\* round opens the calls.
Interleaved(tools, frags) ==
  LET rounds == 1 + Len(CHOOSE f \in ToSet(frags) :
                          \A g \in ToSet(frags) : Len(g) =< Len(f))
      Turn(r, i) == (IF r = 1 THEN <<Call(i, tools[i].id)>> ELSE <<>>)
                    \o (IF r =< Len(frags[i]) THEN <<Fragment(i, frags[i][r])>> ELSE <<>>)
  IN  FlattenSeq([r \in 1..rounds |-> FlattenSeq([i \in 1..Len(tools) |-> Turn(r, i)])])

Pieces(text, m) == IF m.instant THEN <<text>> ELSE SplitPieces(text, m.ends)

\* Fault: the answer before the reasoning.
SpeechContentFirst(d, m) ==
  (IF d.content = <<>> THEN <<>> ELSE SaysAll("content", Pieces(d.content, m)))
  \o (IF d.reasoning = <<>> THEN <<>> ELSE SaysAll("reasoning", Pieces(d.reasoning, m)))

Speech(d, m) ==
  (IF d.reasoning = <<>> THEN <<>> ELSE SaysAll("reasoning", Pieces(d.reasoning, m)))
  \o (IF d.content = <<>> THEN <<>> ELSE SaysAll("content", Pieces(d.content, m)))

PlanDeltas(d, m) ==
  LET frags == [i \in 1..Len(d.tools) |-> Pieces(d.tools[i].args, m)]
  IN  <<Role>> \o Speech(d, m)
      \o (IF m.interleave /\ Len(d.tools) > 1 THEN Interleaved(d.tools, frags)
                                              ELSE InTurn(d.tools, frags))

-----------------------------------------------------------------------------
(* Rebuilding the answer                                                    *)

Message(reasoning, content, tools) ==
  [reasoning |-> reasoning, content |-> content, tools |-> tools]

\* The message the non-streaming endpoint would return for a draft.
BuildMessage(d) == Message(d.reasoning, d.content, d.tools)

ResolveFinishReason(requested, hasTools) ==
  IF requested # "auto" THEN requested ELSE IF hasTools THEN "tool_calls" ELSE "stop"

NoObject == [message |-> Message(<<>>, <<>>, <<>>), reason |-> "none", usage |-> FALSE,
             made |-> FALSE]

\* Fault: the fragments of all calls go to the call opened last.
SlotOpenedLast(slots, c) ==
  LET i    == IF c.kind = "call" \/ DOMAIN slots = {} THEN c.index
              ELSE CHOOSE j \in DOMAIN slots : \A k \in DOMAIN slots : k =< j
      slot == IF i \in DOMAIN slots THEN slots[i] ELSE [id |-> "none", args |-> <<>>]
  IN  [j \in DOMAIN slots \cup {i} |->
         IF j # i THEN slots[j]
         ELSE [id   |-> IF c.label = "none" THEN slot.id ELSE c.label,
               args |-> slot.args \o c.text]]

\* The slot of a call is made by the first chunk that names its index.
Slot(slots, c) ==
  LET slot == IF c.index \in DOMAIN slots THEN slots[c.index]
                                          ELSE [id |-> "none", args |-> <<>>]
  IN  [j \in DOMAIN slots \cup {c.index} |->
         IF j # c.index THEN slots[j]
         ELSE [id   |-> IF c.label = "none" THEN slot.id ELSE c.label,
               args |-> slot.args \o c.text]]

Blank == [reasoning |-> <<>>, content |-> <<>>, slots |-> <<>>,
          reason |-> "none", usage |-> FALSE]

Read(acc, c) ==
  CASE c.kind = "usage"     -> [acc EXCEPT !.usage = TRUE]
    [] c.kind = "finish"    -> [acc EXCEPT !.reason = c.label]
    [] c.kind = "reasoning" -> [acc EXCEPT !.reasoning = @ \o c.text]
    [] c.kind = "content"   -> [acc EXCEPT !.content = @ \o c.text]
    [] c.kind \in {"call", "fragment"} -> [acc EXCEPT !.slots = Slot(@, c)]
    [] c.kind \in {"role", "done"}     -> acc

Reading(frames) ==
  LET read[n \in 0..Len(frames)] ==
        IF n = 0 THEN Blank ELSE Read(read[n - 1], frames[n])
  IN  read[Len(frames)]

\* The slots in the order of their indexes.
InOrder(slots) ==
  LET Place(i) == Cardinality({j \in DOMAIN slots : j =< i})
  IN  [k \in 1..Cardinality(DOMAIN slots) |->
         slots[CHOOSE i \in DOMAIN slots : Place(i) = k]]

Reconstruct(frames) ==
  LET all == Reading(frames)
  IN  IF \A i \in 1..Len(frames) : frames[i].kind = "done" THEN NoObject
      ELSE [message |-> Message(all.reasoning, all.content, InOrder(all.slots)),
            reason |-> all.reason, usage |-> all.usage, made |-> TRUE]

-----------------------------------------------------------------------------
(* A client that accumulates the stream (scripts/demo_client.py)            *)

\* Fault: a call is told by its id, and what has none goes to the first.
StreamCallById(calls, c) ==
  LET named == {i \in 1..Len(calls) : calls[i].id = c.label}
      i     == IF named # {} THEN Min(named) ELSE 1
  IN  IF c.label # "none" /\ named = {} THEN Append(calls, [id |-> c.label, args |-> c.text])
      ELSE [calls EXCEPT ![i].args = @ \o c.text]

\* Indexes come in ascending order: a plan opens every call before the next one.
StreamCall(calls, c) ==
  LET made == IF c.index \in DOMAIN calls THEN calls
                                          ELSE Append(calls, [id |-> "none", args |-> <<>>])
  IN  [made EXCEPT ![c.index] = [id   |-> IF c.label = "none" THEN @.id ELSE c.label,
                                 args |-> @.args \o c.text]]

StreamCalls(frames) ==
  LET calls[n \in 0..Len(frames)] ==
        IF n = 0 THEN <<>>
        ELSE IF frames[n].kind \in {"call", "fragment"} THEN StreamCall(calls[n - 1], frames[n])
        ELSE calls[n - 1]
  IN  calls[Len(frames)]

StreamText(frames, kind) ==
  FlattenSeq([i \in 1..Len(frames) |->
                IF frames[i].kind = kind THEN frames[i].text ELSE <<>>])

\* stream_once(); it stops at [DONE], which is the last frame of a log.
StreamOnce(frames) ==
  Message(StreamText(frames, "reasoning"), StreamText(frames, "content"), StreamCalls(frames))

-----------------------------------------------------------------------------
(* The stream                                                               *)

EmptyDraft == [reasoning |-> <<>>, content |-> <<>>, tools |-> <<>>, finish |-> "auto"]

Modes == [instant : BOOLEAN, interleave : BOOLEAN, ends : SUBSET TokenEnds]
Idle  == [instant |-> FALSE, interleave |-> FALSE, ends |-> {}]

Init ==
  /\ draft = EmptyDraft /\ mode = Idle /\ plan = <<>>
  /\ log = <<>> /\ status = "pending" /\ partial = FALSE /\ stored = NoObject

Submit(d, m) ==
  /\ status = "pending"
  /\ status' = "active"
  /\ draft' = d
  /\ mode' = m
  /\ plan' = PlanDeltas(d, m)
  /\ UNCHANGED <<log, partial, stored>>

SendDelta ==
  /\ status = "active"
  /\ plan # <<>>
  /\ log' = Append(log, Head(plan))
  /\ plan' = Tail(plan)
  /\ UNCHANGED <<draft, mode, status, partial, stored>>

\* The consumer's answer to a finish frame.
Complete(reason, cutOff) ==
  /\ log' = log \o (IF log = <<>> THEN <<Role>> ELSE <<>>)
                \o <<FinishAs(reason)>>
                \o (IF IncludeUsage THEN <<Usage>> ELSE <<>>)
                \o <<Done>>
  /\ stored' = Reconstruct(log')
  /\ status' = "completed"
  /\ partial' = cutOff
  /\ UNCHANGED <<draft, mode, plan>>

Finish ==
  /\ status = "active"
  /\ plan = <<>>
  /\ Complete(ResolveFinishReason(draft.finish, draft.tools # <<>>), FALSE)

\* A graceful abort: the frames queued before it go out, the rest of the plan
\* never will.  An instant plan is queued in one step, its finish included.
FinishPartial(reason) ==
  /\ status \in {"pending", "active"}
  /\ mode.instant => log = <<>>
  /\ Complete(reason, TRUE)

\* A hard abort, a cut or a client that left.
CutShort ==
  /\ status \in {"pending", "active"}
  /\ status' = "aborted"
  /\ stored' = Reconstruct(log)
  /\ UNCHANGED <<draft, mode, plan, partial, log>>

Ended == status \in {"completed", "aborted"} /\ UNCHANGED vars

Next ==
  \/ \E d \in Drafts, m \in Modes : Submit(d, m)
  \/ SendDelta
  \/ Finish
  \/ \E reason \in {"stop", "length"} : FinishPartial(reason)
  \/ CutShort
  \/ Ended

Spec == Init /\ [][Next]_vars

-----------------------------------------------------------------------------
(* Properties                                                               *)

PhaseOf(c) == IF c.kind \in {"call", "fragment"} THEN "tool" ELSE c.kind
AsStep(c)  == [what  |-> PhaseOf(c),
               paced |-> c.kind \in {"reasoning", "content", "fragment"}]

\* What has been sent and what is still to send.
Deltas == log \o plan

\* A plan opens with the role and keeps reasoning, content and tool calls in
\* that order in every mode, the interleaved one included (wire.py:242-294).
\* It is what StreamExchange assumes of its Plans.
PlanPhased ==
  status = "active" => IsPlan([i \in 1..Len(Deltas) |-> AsStep(Deltas[i])])

\* Whatever has been sent so far rebuilds to a beginning of the draft: each
\* text a prefix, and each call that was opened under its own id and index
\* with a prefix of its own arguments (wire.py:298-375).
PrefixReplay ==
  LET part == Reconstruct(log).message
  IN  /\ IsPrefix(part.reasoning, draft.reasoning)
      /\ IsPrefix(part.content, draft.content)
      /\ Len(part.tools) =< Len(draft.tools)
      /\ \A i \in 1..Len(part.tools) :
           /\ part.tools[i].id = draft.tools[i].id
           /\ IsPrefix(part.tools[i].args, draft.tools[i].args)
      /\ part.tools # <<>> => part.content = draft.content
      /\ part.content # <<>> => part.reasoning = draft.reasoning

\* A stream that ran to its end is recorded as the very message the
\* non-streaming endpoint would have returned for the draft, with the finish
\* reason the draft resolves to (state.py:598, wire.py:180-192 and 379-385).
RoundTrip ==
  (status = "completed" /\ ~partial) =>
    stored = [message |-> BuildMessage(draft),
              reason  |-> ResolveFinishReason(draft.finish, draft.tools # <<>>),
              usage   |-> IncludeUsage,
              made    |-> TRUE]

\* `maycomb verify` replays the chunk_sent events it reads back, at most
\* EventLimit of them, and expects the stored object (cli.py:84-108).
Events == SubSeq(log, 1, IF Len(log) < EventLimit THEN Len(log) ELSE EventLimit)

DualRepresentation == status = "completed" => Reconstruct(Events) = stored

\* A client that accumulates the stream and the server that rebuilds it from its log
\* read the same message, wherever the stream stands: the client's reader
\* (demo_client.py:32-88) and the record (wire.py:298-375) are two programs.
ClientAgrees == StreamOnce(log) = Reconstruct(log).message

=============================================================================
