---------------------------- MODULE ConsoleProofs ----------------------------
(***************************************************************************)
(* Theorems about the operator's page: no text goes to another exchange,   *)
(* reasoning goes out before content, an end is shown, and what is typed   *)
(* is saved, however its requests, timers and messages cross.              *)
(*                                                                         *)
(* Each of the four has an invariant of its own about what is under way.   *)
(***************************************************************************)
EXTENDS Console, SelectionTheorems

Statuses == {"pending", "active", "ended"}
Stages   == {"off"} \cup DOMAIN StageRank
Texts    == [of : Exchanges \cup {Nobody}, reasoning : Nat, content : Nat]
Asked    == [op : {"select", "save", "validate", "submit"}, x : Exchanges,
             answer : Statuses \cup {"none", "passed", "blocked"}, text : Texts,
             checked : Exchanges]
Ups      == [op : {"start", "tools", "finish"}, x : Exchanges]
            \cup [op : {"text"}, x : Exchanges, field : Fields, of : Exchanges \cup {Nobody}]
Downs    == [op : {"terminal", "ack"}, x : Exchanges]
Timers   == [field : Fields, stray : BOOLEAN]

TypeInv ==
  /\ status \in [Exchanges -> Statuses] /\ stage \in [Exchanges -> Stages]
  /\ draft \in [Exchanges -> Texts]
  /\ selected \in Exchanges \cup {Nobody}
  /\ shown \in Statuses \cup {"none"}
  /\ composer \in [visible : BOOLEAN, text : Texts, locked : SUBSET Fields]
  /\ live \in [on : BOOLEAN, reasoning : Nat, content : Nat, pending : BOOLEAN]
  /\ timers \in Seq(Timers)
  /\ flight \in Seq(Asked) /\ up \in Seq(Ups) /\ down \in Seq(Downs)
  /\ lapsed \in BOOLEAN /\ armed \in BOOLEAN /\ autosave \in BOOLEAN

\* What is on the page, and with what it can be written.
PageInv ==
  /\ selected = Nobody => ~composer.visible /\ shown = "none"
  /\ composer.visible <=> shown \in {"pending", "active"}
  /\ armed => shown = "pending" /\ ~live.on
  /\ live.on => composer.visible
  /\ \A i \in DOMAIN flight :
       /\ flight[i].op = "select" => flight[i].answer \in Statuses \cup {"none"}
       /\ flight[i].op = "validate" => selected # Nobody

\* The text in the composer is that of the exchange it is saved and sent for.
OwnInv ==
  /\ shown = "pending" \/ live.on => composer.text.of = selected
  /\ \A x \in Exchanges : status[x] = "pending" => draft[x].of = x
  /\ \A i \in DOMAIN flight :
       flight[i].op = "select" /\ flight[i].answer = "pending" => flight[i].text.of = flight[i].x
  /\ OwnText

\* An end that is not shown yet is announced, or a load of it is under way.
Announcing(x) == \E k \in DOMAIN down : down[k] = [op |-> "terminal", x |-> x]
Loading(x)    == \E i \in DOMAIN flight : flight[i].op = "select" /\ flight[i].x = x

EndInv ==
  selected # Nobody /\ selected \notin overtaken /\ status[selected] = "ended" /\ shown # "ended"
    => Announcing(selected) \/ Loading(selected)

\* The running timers: those left over, then the one of this live mode.
TimerInv ==
  /\ live.pending => live.on /\ timers # <<>>
  /\ \A k \in DOMAIN timers : timers[k].stray <=> ~(live.pending /\ k = Len(timers))

Says(j, x, field) == up[j].op = "text" /\ up[j].x = x /\ up[j].field = field
Starts(k, x)      == up[k].op = "start" /\ up[k].x = x

\* The page may still send reasoning in this live mode.
MayReason ==
  live.on /\ \/ "reasoning" \notin composer.locked
             \/ live.pending /\ timers[Len(timers)].field = "reasoning"

\* Reasoning follows content only behind a start, which the server will refuse:
\* among the messages under way, after the stage reached, and in what the page
\* may still send.
UpInOrder(x) ==
  \A i, j \in DOMAIN up :
    i < j /\ Says(i, x, "content") /\ Says(j, x, "reasoning")
      => \E k \in i + 1..j - 1 : Starts(k, x)

StageInOrder(x) ==
  \A j \in DOMAIN up :
    stage[x] = "content" /\ Says(j, x, "reasoning") => \E k \in 1..j - 1 : Starts(k, x)

NextInOrder(x) ==
  MayReason /\ selected = x =>
    /\ \A i \in DOMAIN up : Says(i, x, "content") => \E k \in i + 1..Len(up) : Starts(k, x)
    /\ stage[x] = "content" => \E k \in DOMAIN up : Starts(k, x)

OffInv == \A x \in Exchanges : stage[x] # "off" => status[x] # "pending"

OrderInv ==
  /\ TimerInv /\ OffInv
  /\ \A x \in Exchanges \ excused : UpInOrder(x) /\ StageInOrder(x) /\ NextInOrder(x)
  /\ ReasoningFirst

\* The text on the page is the draft, or the last save under way brings it there,
\* or the timer will send it; live mode saves nothing, but then a start is under way.
Starting(x) == \E k \in DOMAIN up : Starts(k, x)

LastSave(i, x) == i \in SavesOf(x) /\ \A k \in SavesOf(x) : k =< i

ToKeep == ~autosave /\ ~lapsed /\ shown = "pending" /\ status[selected] = "pending"
          /\ ~Starting(selected)

SavedInv ==
  /\ live.on /\ status[selected] = "pending" => Starting(selected)
  /\ ToKeep =>
       /\ SavesOf(selected) = {} => draft[selected] = composer.text
       /\ \A i \in DOMAIN flight : LastSave(i, selected) => flight[i].text = composer.text

IInv == TypeInv /\ PageInv /\ OwnInv /\ EndInv /\ OrderInv /\ SavedInv


-----------------------------------------------------------------------------
(* Types                                                                    *)

LEMMA RequestType ==
  ASSUME NEW op \in {"select", "save", "validate", "submit"}, NEW x \in Exchanges,
         NEW text \in Texts
  PROVE  Request(op, x) \in Asked /\ [Request(op, x) EXCEPT !.text = text] \in Asked
BY DEF Request, Asked, Text, Texts

LEMMA ComposerType ==
  ASSUME TypeInv, NEW f \in Fields, NEW n \in Nat
  PROVE  [composer EXCEPT !.text[f] = n] \in [visible : BOOLEAN, text : Texts,
                                              locked : SUBSET Fields]
<1>1. composer.text \in Texts
  BY DEF TypeInv
<1>2. [composer.text EXCEPT ![f] = n] \in Texts
  BY <1>1 DEF Texts, Fields
<1> QED
  BY <1>2 DEF TypeInv

LEMMA StrayType ==
  ASSUME TypeInv, Leave
  PROVE  timers' \in Seq(Timers) /\ Len(timers') = Len(timers) /\ live' = NoLive
         /\ \A k \in DOMAIN timers : timers'[k].stray /\ timers'[k].field = timers[k].field
<1>1. /\ Len(timers) \in Nat /\ DOMAIN timers = 1..Len(timers)
      /\ \A k \in 1..Len(timers) : timers[k] \in Timers
  BY LenProperties, ElementOfSeq DEF TypeInv
<1>2. \A k \in 1..Len(timers) : [timers[k] EXCEPT !.stray = TRUE] \in Timers
  BY <1>1 DEF Timers
<1> QED
  BY <1>1, <1>2 DEF Leave, Timers

LEMMA TypeInit == Init => TypeInv
<1> SUFFICES ASSUME Init PROVE TypeInv
  OBVIOUS
<1>1. \A x \in Exchanges \cup {Nobody} : Text(x) \in Texts
  BY DEF Text, Texts
<1>2. draft \in [Exchanges -> Texts]
  BY <1>1 DEF Init
<1>3. composer \in [visible : BOOLEAN, text : Texts, locked : SUBSET Fields]
  BY <1>1 DEF Init
<1> QED
  BY <1>2, <1>3, EmptySeq DEF Init, TypeInv, Statuses, Stages, NoLive

\* A request that is sent, and nothing else that matters.
LEMMA AskType ==
  ASSUME TypeInv, NEW r \in Asked, Ask(r), autosave' \in BOOLEAN, lapsed' \in BOOLEAN,
         UNCHANGED <<status, stage, draft, selected, shown, composer, armed, mode, up, down>>
  PROVE  TypeInv'
BY DEF Ask, TypeInv, mode

LEMMA TypeNext == TypeInv /\ PageInv /\ Next => TypeInv'
<1> SUFFICES ASSUME TypeInv, PageInv, Next PROVE TypeInv'
  OBVIOUS
<1> USE NobodyAssumption
<1>n. shown = "pending" \/ live.on \/ composer.visible => selected \in Exchanges
  BY DEF TypeInv, PageInv
<1>s. selected \in Exchanges => [Request("save", selected) EXCEPT !.text = composer.text] \in Asked
  BY RequestType DEF TypeInv
<1>1. ASSUME NEW x \in Exchanges, End(x) PROVE TypeInv'
  <2>1. [op |-> "terminal", x |-> x] \in Downs
    BY DEF Downs
  <2> QED
    BY <1>1, <2>1 DEF End, TypeInv, page, view, mode, notes, Stages, Statuses
<1>2. ASSUME NEW x \in Exchanges, Click(x) PROVE TypeInv'
  <2>1. Request("select", x) \in Asked
    BY RequestType DEF TypeInv
  <2>2. Ask(Request("select", x)) /\ UNCHANGED <<server, view, up, down, notes>>
    BY <1>2 DEF Click
  <2> QED
    BY <2>1, <2>2, AskType DEF server, view, mode, notes, TypeInv
<1>3. ASSUME NEW f \in Fields, Type(f) PROVE TypeInv'
  <2>1. composer.text[f] \in Nat
    BY DEF TypeInv, Texts, Fields
  <2>2. composer' = [composer EXCEPT !.text[f] = composer.text[f] + 1]
    BY <1>3 DEF Type, Typed
  <2>3. composer' \in [visible : BOOLEAN, text : Texts, locked : SUBSET Fields]
    <3>1. composer.text[f] + 1 \in Nat
      BY <2>1
    <3> QED
      BY <2>2, <3>1, ComposerType, Zenon
  <2> QED
    BY <1>3, <2>3 DEF Type, Typed, TypeInv, server, net, mode
<1>4. ASSUME NEW f \in Fields, LiveType(f) PROVE TypeInv'
  <2>1. Timer(f) \in Timers
    BY DEF Timer, Timers
  <2>2. Front(timers) \in Seq(Timers)
    <3>1. Len(timers) - 1 \in Int /\ \A k \in 1..Len(timers) - 1 : timers[k] \in Timers
      BY LenProperties, ElementOfSeq DEF TypeInv
    <3> QED
      BY <3>1, SubSeqProperties DEF Front
  <2>3. timers' \in Seq(Timers)
    BY <1>4, <2>1, <2>2, AppendProperties DEF LiveType, TypeInv
  <2>4. composer.text[f] \in Nat
    BY DEF TypeInv, Texts, Fields
  <2>5. composer' = [composer EXCEPT !.text[f] = composer.text[f] + 1]
    BY <1>4 DEF LiveType, Typed
  <2>6. composer' \in [visible : BOOLEAN, text : Texts, locked : SUBSET Fields]
    <3>1. composer.text[f] + 1 \in Nat
      BY <2>4
    <3> QED
      BY <2>5, <3>1, ComposerType, Zenon
  <2> QED
    BY <1>4, <2>3, <2>6 DEF LiveType, Typed, TypeInv, server, net
<1>5. ASSUME NEW f \in Fields, EditSent(f) PROVE TypeInv'
  <2>1. live[f] \in Nat /\ composer' = [composer EXCEPT !.text[f] = live[f]]
    BY <1>5 DEF EditSent, TypeInv, Fields
  <2>2. composer' \in [visible : BOOLEAN, text : Texts, locked : SUBSET Fields]
    BY <2>1, ComposerType, Zenon
  <2> QED
    BY <1>5, <2>2 DEF EditSent, TypeInv, server, net, mode, notes
<1>6. ASSUME SaveClick PROVE TypeInv'
  BY <1>6, <1>n, <1>s, AskType DEF SaveClick, server, notes, TypeInv
<1>7. ASSUME Submit PROVE TypeInv'
  <2>1. [Request("validate", selected) EXCEPT !.text = composer.text] \in Asked
    BY <1>7, <1>n, RequestType DEF TypeInv, Submit
  <2> QED
    BY <1>7, <2>1, AskType DEF Submit, server, TypeInv
<1>8. ASSUME LiveStart PROVE TypeInv'
  <2>1. [op |-> "start", x |-> selected] \in Ups
    BY <1>8, <1>n DEF Ups, LiveStart
  <2> QED
    <3> DEFINE m == [op |-> "start", x |-> selected]
    <3>1. up' = Append(up, m) /\ m \in Ups
      BY <1>8, <2>1 DEF LiveStart, Send
    <3> HIDE DEF m
    <3>2. up' \in Seq(Ups)
      BY <3>1, AppendProperties DEF TypeInv
    <3> QED
      BY <1>8, <3>2 DEF LiveStart, TypeInv, server, notes, Texts
<1>9. ASSUME ToolCall PROVE TypeInv'
  <2>1. [op |-> "tools", x |-> selected] \in Ups
    BY <1>9, <1>n DEF Ups, ToolCall
  <2> QED
    BY <1>9, <2>1 DEF ToolCall, Send, TypeInv, server, notes, mode
<1>10. ASSUME LiveFinish PROVE TypeInv'
  <2>1. [op |-> "finish", x |-> selected] \in Ups
    BY <1>10, <1>n DEF Ups, LiveFinish
  <2> QED
    BY <1>10, <2>1 DEF LiveFinish, Send, TypeInv, server, notes, view, mode
<1>11. ASSUME NEW i \in DOMAIN flight, ServeSelect(i) PROVE TypeInv'
  <2>1. /\ flight' \in Seq(Asked)
        /\ UNCHANGED <<server, page, up, down, notes>>
    <3> DEFINE r == [flight[i] EXCEPT !.answer = status[flight[i].x],
                                      !.text = draft[flight[i].x]]
    <3>1. flight[i] \in Asked
      BY ElementOfSeq DEF TypeInv
    <3>2. r \in Asked
      BY <3>1 DEF Asked, TypeInv
    <3>3. flight' = [flight EXCEPT ![i] = r] /\ UNCHANGED <<server, page, up, down, notes>>
      BY <1>11 DEF ServeSelect
    <3> HIDE DEF r
    <3> QED
      BY <3>2, <3>3, ExceptSeq DEF TypeInv
  <2> QED
    BY <2>1 DEF TypeInv, server, page, view, mode, notes
<1>12. ASSUME NEW i \in DOMAIN flight, ServeValidate(i) PROVE TypeInv'
  <2>1. /\ flight' \in Seq(Asked)
        /\ UNCHANGED <<server, page, up, down, notes>>
    <3>1. PICK verdict \in {"passed", "blocked"} : flight' = [flight EXCEPT ![i].answer = verdict]
      BY <1>12 DEF ServeValidate
    <3> DEFINE r == [flight[i] EXCEPT !.answer = verdict]
    <3>2. flight[i] \in Asked
      BY ElementOfSeq DEF TypeInv
    <3>3. r \in Asked
      BY <3>2 DEF Asked
    <3>4. flight' = [flight EXCEPT ![i] = r] /\ UNCHANGED <<server, page, up, down, notes>>
      BY <1>12, <3>1 DEF ServeValidate
    <3> HIDE DEF r
    <3> QED
      BY <3>3, <3>4, ExceptSeq DEF TypeInv
  <2> QED
    BY <2>1 DEF TypeInv, server, page, view, mode, notes
<1>13. ASSUME NEW i \in DOMAIN flight, ServeSave(i) PROVE TypeInv'
  <2>1. flight' \in Seq(Asked) /\ flight[i] \in Asked
    BY <1>13, ElementOfSeq, Removed DEF ServeSave, TypeInv
  <2> QED
    BY <1>13, <2>1 DEF ServeSave, TypeInv, Asked, page, view, mode
<1>14. ASSUME NEW i \in DOMAIN flight, ServeSubmit(i) PROVE TypeInv'
  <2>1. flight' \in Seq(Asked) /\ flight[i] \in Asked
    BY <1>14, ElementOfSeq, Removed DEF ServeSubmit, TypeInv
  <2> QED
    BY <1>14, <2>1 DEF ServeSubmit, TypeInv, Asked, Statuses, page, view, mode, notes
<1>15. ASSUME NEW i \in DOMAIN flight, SelectAnswered(i) PROVE TypeInv'
  <2>1. flight' \in Seq(Asked) /\ flight[i] \in Asked
    BY <1>15, ElementOfSeq, Removed DEF SelectAnswered, TypeInv
  <2>2. flight[i].answer \in Statuses
    BY <1>15 DEF SelectAnswered, PageInv
  <2>3. timers' \in Seq(Timers) /\ live' = NoLive
    BY <1>15, StrayType DEF SelectAnswered, Load
  <2> QED
    BY <1>15, <2>1, <2>2, <2>3 DEF SelectAnswered, Load, TypeInv, Asked, server, NoLive
<1>16. ASSUME NEW i \in DOMAIN flight, ValidateAnswered(i) PROVE TypeInv'
  <2>1. flight[i] \in Asked /\ selected \in Exchanges
    BY <1>16, ElementOfSeq DEF ValidateAnswered, TypeInv, PageInv
  <2>2. [flight EXCEPT ![i].op = "submit", ![i].x = selected] \in Seq(Asked)
    <3> DEFINE r == [flight[i] EXCEPT !.op = "submit", !.x = selected]
    <3>1. r \in Asked
      BY <2>1 DEF Asked
    <3>2. [flight EXCEPT ![i].op = "submit", ![i].x = selected] = [flight EXCEPT ![i] = r]
      BY DEF TypeInv
    <3> HIDE DEF r
    <3>3. [flight EXCEPT ![i] = r] \in Seq(Asked)
      BY <3>1, ExceptSeq DEF TypeInv
    <3> QED
      BY <3>2, <3>3, Zenon
  <2>3. /\ flight' \in Seq(Asked)
        /\ UNCHANGED <<server, page, up, down, notes>>
    BY <1>16, <2>2, Removed DEF ValidateAnswered, TypeInv
  <2> QED
    BY <2>3 DEF TypeInv, server, page, view, mode, notes
<1>17. ASSUME SaveTimer PROVE TypeInv'
  <2>1. CASE Saves
    BY <1>17, <1>n, <1>s, <2>1, AskType DEF SaveTimer, Saves, server, notes, TypeInv
  <2>2. CASE ~Saves
    BY <1>17, <2>2 DEF SaveTimer, server, notes, mode, TypeInv
  <2> QED
    BY <2>1, <2>2
<1>18. ASSUME Flush PROVE TypeInv'
  <2>1. Head(timers) \in Timers /\ timers' \in Seq(Timers)
    BY <1>18, HeadTailProperties DEF Flush, TypeInv
  <2> DEFINE f == Head(timers).field
             sends == live.on /\ composer.text[f] > live[f]
             m == [op |-> "text", x |-> selected, field |-> f, of |-> composer.text.of]
  <2>2. f \in Fields /\ live[f] \in Nat /\ composer.text[f] \in Nat
    BY <2>1 DEF Timers, Fields, TypeInv, Texts
  <2>3. sends => m \in Ups
    BY <1>n, <2>2 DEF Ups, TypeInv, Texts
  <2>4. up' \in Seq(Ups)
    <3>1. up' = IF sends THEN Append(up, m) ELSE up
      BY <1>18 DEF Flush, Send
    <3> HIDE DEF m, sends
    <3> QED
      BY <2>3, <3>1, AppendProperties DEF TypeInv
  <2>5. live' \in [on : BOOLEAN, reasoning : Nat, content : Nat, pending : BOOLEAN]
    BY <1>18, <2>2 DEF Flush, TypeInv, Fields
  <2>6. composer' \in [visible : BOOLEAN, text : Texts, locked : SUBSET Fields]
    BY <1>18, <2>2 DEF Flush, TypeInv, Fields
  <2> QED
    BY <1>18, <2>1, <2>4, <2>5, <2>6 DEF Flush, server, TypeInv
<1>19. ASSUME ServeUp PROVE TypeInv'
  <2>1. Head(up) \in Ups /\ up' \in Seq(Ups)
    BY <1>19, HeadTailProperties DEF ServeUp, TypeInv
  <2> DEFINE m == Head(up)
  <2>2. m.x \in Exchanges /\ (m.op = "text" => m.field \in Fields)
    BY <2>1 DEF Ups
  <2> HIDE DEF m
  <2>3. UNCHANGED <<draft, selected, shown, composer, armed, autosave, mode, flight, lapsed>>
    BY <1>19 DEF ServeUp, page, view
  <2>4. CASE ServeStart(m)
    BY <2>1, <2>2, <2>3, <2>4 DEF ServeStart, TypeInv, Statuses, Stages, StageRank, mode
  <2>5. CASE ServeText(m)
    BY <2>1, <2>2, <2>3, <2>5 DEF ServeText, TypeInv, Fields, Stages, StageRank, mode
  <2>6. CASE ServeTools(m)
    BY <2>1, <2>2, <2>3, <2>6 DEF ServeTools, TypeInv, Stages, StageRank, mode
  <2>7. CASE ServeFinish(m)
    <3>1. [op |-> "ack", x |-> m.x] \in Downs
      BY <2>2 DEF Downs
    <3> DEFINE ack == [op |-> "ack", x |-> m.x]
    <3>2. /\ UNCHANGED <<status, stage>>
          /\ down' = down \/ down' = Append(down, ack)
      BY <2>7 DEF ServeFinish
    <3>3. ack \in Downs
      BY <3>1
    <3> HIDE DEF ack
    <3>4. down \in Seq(Downs)
      BY DEF TypeInv
    <3>5. down' \in Seq(Downs)
      BY <3>2, <3>3, <3>4, AppendProperties
    <3> QED
      BY <2>1, <2>3, <3>2, <3>5 DEF TypeInv, mode
  <2> QED
    BY <1>19, <2>4, <2>5, <2>6, <2>7 DEF ServeUp, m
<1>20. ASSUME OnAck PROVE TypeInv'
  <2>1. timers' \in Seq(Timers) /\ live' = NoLive /\ down' \in Seq(Downs)
    BY <1>20, StrayType, HeadTailProperties DEF OnAck, TypeInv
  <2> QED
    BY <1>20, <2>1 DEF OnAck, TypeInv, server, NoLive, notes
<1>21. ASSUME OnTerminal PROVE TypeInv'
  <2>1. Head(down) \in Downs /\ down' \in Seq(Downs)
    BY <1>21, HeadTailProperties DEF OnTerminal, TypeInv
  <2>2. Head(down).x \in Exchanges
    BY <2>1 DEF Downs
  <2>3. selected = Head(down).x => Request("select", selected) \in Asked
    BY <2>2, RequestType DEF TypeInv
  <2>4. flight' \in Seq(Asked)
    <3> DEFINE r == Request("select", selected)
    <3>1. \/ flight' = flight
          \/ selected = Head(down).x /\ flight' = Append(flight, r)
      BY <1>21 DEF OnTerminal, Ask
    <3>2. flight \in Seq(Asked) /\ (selected = Head(down).x => r \in Asked)
      BY <2>3 DEF TypeInv
    <3> HIDE DEF r
    <3> QED
      BY <3>1, <3>2, AppendProperties
  <2> QED
    BY <1>21, <2>1, <2>4 DEF OnTerminal, TypeInv, server, page, view, mode, notes
<1> QED
  BY <1>1, <1>2, <1>3, <1>4, <1>5, <1>6, <1>7, <1>8, <1>9, <1>10, <1>11, <1>12, <1>13,
     <1>14, <1>15, <1>16, <1>17, <1>18, <1>19, <1>20, <1>21
  DEF Next, Operator, Requests

-----------------------------------------------------------------------------
(* What the actions do to the requests in flight                            *)

LEMMA OnPage ==
  ASSUME TypeInv, PageInv, shown = "pending" \/ live.on \/ composer.visible
  PROVE  selected \in Exchanges
BY NobodyAssumption DEF TypeInv, PageInv

LEMMA Requested ==
  ASSUME TypeInv, NEW r \in Asked, Ask(r)
  PROVE  /\ DOMAIN flight = 1..Len(flight) /\ Len(flight) \in Nat
         /\ DOMAIN flight' = 1..Len(flight) + 1
         /\ flight'[Len(flight) + 1] = r
         /\ \A k \in DOMAIN flight : flight'[k] = flight[k]
<1>1. flight' = Append(flight, r) /\ flight \in Seq(Asked)
  BY DEF Ask, TypeInv
<1>2. Len(flight') = Len(flight) + 1 /\ flight' \in Seq(Asked)
  BY <1>1, AppendProperties
<1> QED
  BY <1>1, <1>2, AppendProperties, LenProperties

\* The save and validation requests of the page.
LEMMA TextRequested ==
  ASSUME TypeInv, selected \in Exchanges, NEW op \in {"select", "save", "validate", "submit"},
         Ask([Request(op, selected) EXCEPT !.text = composer.text])
  PROVE  /\ DOMAIN flight = 1..Len(flight) /\ Len(flight) \in Nat
         /\ DOMAIN flight' = 1..Len(flight) + 1
         /\ \A k \in DOMAIN flight : flight'[k] = flight[k]
         /\ flight'[Len(flight) + 1].op = op /\ flight'[Len(flight) + 1].x = selected
         /\ flight'[Len(flight) + 1].text = composer.text
<1> DEFINE r == [Request(op, selected) EXCEPT !.text = composer.text]
<1>1. r \in Asked /\ r.op = op /\ r.x = selected /\ r.text = composer.text
  BY RequestType DEF TypeInv, Request
<1>2. Ask(r)
  OBVIOUS
<1> HIDE DEF r
<1> QED
  BY <1>1, <1>2, Requested

LEMMA LoadRequest ==
  ASSUME TypeInv, NEW x \in Exchanges
  PROVE  LET r == Request("select", x)
         IN  r \in Asked /\ r.op = "select" /\ r.x = x /\ r.answer = "none"
BY RequestType DEF TypeInv, Request

LEMMA InFlight ==
  ASSUME TypeInv
  PROVE  /\ Len(flight) \in Nat /\ DOMAIN flight = 1..Len(flight)
         /\ \A k \in DOMAIN flight : flight[k] \in Asked /\ flight[k].x \in Exchanges
                                     /\ flight[k].text \in Texts
<1>1. Len(flight) \in Nat /\ DOMAIN flight = 1..Len(flight)
  BY LenProperties DEF TypeInv
<1>2. \A k \in DOMAIN flight : flight[k] \in Asked
  BY <1>1, ElementOfSeq DEF TypeInv
<1> QED
  BY <1>1, <1>2 DEF Asked

LEMMA SelectServed ==
  ASSUME TypeInv, NEW i \in DOMAIN flight, ServeSelect(i)
  PROVE  /\ DOMAIN flight' = DOMAIN flight
         /\ \A k \in DOMAIN flight \ {i} : flight'[k] = flight[k]
         /\ flight[i].op = "select" /\ flight'[i].op = "select" /\ flight'[i].x = flight[i].x
         /\ flight'[i].answer = status[flight[i].x] /\ flight'[i].text = draft[flight[i].x]
         /\ UNCHANGED <<server, page, up, down, notes>>
<1>1. flight[i] \in Asked
  BY InFlight
<1> QED
  BY <1>1 DEF ServeSelect, Asked

LEMMA ValidateServed ==
  ASSUME TypeInv, NEW i \in DOMAIN flight, ServeValidate(i)
  PROVE  /\ DOMAIN flight' = DOMAIN flight
         /\ \A k \in DOMAIN flight \ {i} : flight'[k] = flight[k]
         /\ flight[i].op = "validate" /\ flight'[i].op = "validate"
         /\ UNCHANGED <<server, page, up, down, notes>>
<1>1. flight[i] \in Asked
  BY InFlight
<1> QED
  BY <1>1 DEF ServeValidate, Asked

LEMMA Taken ==
  ASSUME TypeInv, NEW i \in DOMAIN flight, flight' = RemoveAt(flight, i)
  PROVE  /\ \A k \in DOMAIN flight' :
              \E j \in DOMAIN flight \ {i} :
                flight'[k] = flight[j] /\ k = IF j < i THEN j ELSE j - 1
         /\ \A j \in DOMAIN flight \ {i} :
              \E k \in DOMAIN flight' :
                flight'[k] = flight[j] /\ k = IF j < i THEN j ELSE j - 1
BY RemovedElements DEF TypeInv

\* A validation that has passed becomes the submission of what is selected now.
LEMMA Validated ==
  ASSUME TypeInv, NEW i \in DOMAIN flight, ValidateAnswered(i)
  PROVE  /\ flight[i].op = "validate"
         /\ \/ flight' = RemoveAt(flight, i)
            \/ /\ DOMAIN flight' = DOMAIN flight
               /\ \A k \in DOMAIN flight \ {i} : flight'[k] = flight[k]
               /\ flight'[i].op = "submit"
         /\ UNCHANGED <<server, page, up, down, notes>>
<1>1. flight[i] \in Asked
  BY InFlight
<1> DEFINE r == [flight[i] EXCEPT !.op = "submit", !.x = selected]
<1>2. r.op = "submit"
  BY <1>1 DEF Asked
<1>3. [flight EXCEPT ![i].op = "submit", ![i].x = selected] = [flight EXCEPT ![i] = r]
  BY DEF TypeInv
<1>4. CASE flight[i].answer = "passed"
  <2>1. flight' = [flight EXCEPT ![i] = r]
    BY <1>3, <1>4 DEF ValidateAnswered
  <2> HIDE DEF r
  <2> QED
    BY <1>2, <2>1 DEF ValidateAnswered
<1>5. CASE flight[i].answer # "passed"
  BY <1>5 DEF ValidateAnswered
<1> QED
  BY <1>4, <1>5

-----------------------------------------------------------------------------
(* The page                                                                 *)

LEMMA PageInit == Init => PageInv
BY DEF Init, PageInv, NoLive

\* The page does not change, and no request is new but a save, a load or a submission.
LEMMA PageKept ==
  ASSUME TypeInv, PageInv, UNCHANGED <<selected, shown, composer, armed, live>>,
         \A k \in DOMAIN flight' :
           \/ \E j \in DOMAIN flight : flight'[k] = flight[j]
           \/ flight'[k].op = "select" /\ flight'[k].answer \in Statuses \cup {"none"}
           \/ flight'[k].op \in {"save", "submit"}
           \/ flight'[k].op = "validate" /\ selected # Nobody
  PROVE  PageInv'
BY DEF PageInv

LEMMA PageNext == TypeInv /\ PageInv /\ Next => PageInv'
<1> SUFFICES ASSUME TypeInv, PageInv, Next PROVE PageInv'
  OBVIOUS
<1> USE NobodyAssumption
<1>1. ASSUME NEW x \in Exchanges, End(x) PROVE PageInv'
  BY <1>1 DEF End, PageInv, page, view, mode
<1>2. ASSUME NEW x \in Exchanges, Click(x) PROVE PageInv'
  BY <1>2, LoadRequest, Requested, PageKept DEF Click, view, mode
<1>3. ASSUME NEW f \in Fields, Type(f) PROVE PageInv'
  <2>1. composer'.visible = composer.visible
    BY <1>3 DEF Type, Typed, TypeInv
  <2> QED
    BY <1>3, <2>1 DEF Type, Typed, PageInv, net, mode
<1>4. ASSUME NEW f \in Fields, LiveType(f) PROVE PageInv'
  <2>1. composer'.visible = composer.visible /\ live'.on = live.on
    BY <1>4 DEF LiveType, Typed, TypeInv
  <2> QED
    BY <1>4, <2>1 DEF LiveType, Typed, PageInv, net
<1>5. ASSUME NEW f \in Fields, EditSent(f) PROVE PageInv'
  <2>1. composer'.visible = composer.visible
    BY <1>5 DEF EditSent, TypeInv
  <2> QED
    BY <1>5, <2>1 DEF EditSent, PageInv, net, mode
<1>6. ASSUME SaveClick PROVE PageInv'
  <2>1. selected \in Exchanges /\ Ask([Request("save", selected) EXCEPT !.text = composer.text])
    BY <1>6, OnPage DEF SaveClick
  <2> QED
    BY <1>6, <2>1, TextRequested, PageKept DEF SaveClick, mode
<1>7. ASSUME Submit PROVE PageInv'
  <2>1. /\ selected \in Exchanges
        /\ Ask([Request("validate", selected) EXCEPT !.text = composer.text])
    BY <1>7, OnPage DEF Submit
  <2> QED
    BY <1>7, <2>1, TextRequested, PageKept DEF Submit, mode
<1>8. ASSUME LiveStart PROVE PageInv'
  BY <1>8 DEF LiveStart, PageInv
<1>9. ASSUME ToolCall PROVE PageInv'
  <2>1. composer'.visible = composer.visible
    BY <1>9 DEF ToolCall, TypeInv
  <2> QED
    BY <1>9, <2>1 DEF ToolCall, PageInv, mode
<1>10. ASSUME LiveFinish PROVE PageInv'
  BY <1>10 DEF LiveFinish, PageInv, view, mode
<1>11. ASSUME NEW i \in DOMAIN flight, ServeSelect(i) PROVE PageInv'
  <2>1. status[flight[i].x] \in Statuses
    BY InFlight DEF TypeInv
  <2> QED
    BY <1>11, <2>1, SelectServed, PageKept DEF page, view, mode
<1>12. ASSUME NEW i \in DOMAIN flight, ServeValidate(i) PROVE PageInv'
  <2>1. flight[i].op = "validate" => selected # Nobody
    BY DEF PageInv
  <2> QED
    BY <1>12, <2>1, ValidateServed, PageKept DEF page, view, mode
<1>13. ASSUME NEW i \in DOMAIN flight, ServeSave(i) PROVE PageInv'
  BY <1>13, Taken, PageKept DEF ServeSave, page, view, mode
<1>14. ASSUME NEW i \in DOMAIN flight, ServeSubmit(i) PROVE PageInv'
  BY <1>14, Taken, PageKept DEF ServeSubmit, page, view, mode
<1>15. ASSUME NEW i \in DOMAIN flight, SelectAnswered(i) PROVE PageInv'
  <2>1. selected' \in Exchanges /\ shown' \in Statuses /\ live' = NoLive
    BY <1>15, InFlight DEF SelectAnswered, Load, Leave, PageInv
  <2>2. /\ composer'.visible <=> shown' \in {"pending", "active"}
        /\ armed' <=> shown' = "pending"
    BY <1>15, <2>1 DEF SelectAnswered, Load, TypeInv, Statuses
  <2>3. \A k \in DOMAIN flight' : \E j \in DOMAIN flight : flight'[k] = flight[j]
    BY <1>15, Taken DEF SelectAnswered
  <2> QED
    BY <2>1, <2>2, <2>3 DEF PageInv, NoLive
<1>16. ASSUME NEW i \in DOMAIN flight, ValidateAnswered(i) PROVE PageInv'
  <2>1. CASE flight' = RemoveAt(flight, i)
    BY <1>16, <2>1, Validated, Taken, PageKept DEF page, view, mode
  <2>2. CASE flight' # RemoveAt(flight, i)
    BY <1>16, <2>2, Validated, PageKept DEF page, view, mode
  <2> QED
    BY <2>1, <2>2
<1>17. ASSUME SaveTimer PROVE PageInv'
  <2>1. CASE Saves
    <3>1. /\ selected \in Exchanges
          /\ Ask([Request("save", selected) EXCEPT !.text = composer.text])
      BY <1>17, <2>1, OnPage DEF SaveTimer, Saves
    <3> QED
      BY <1>17, <3>1, TextRequested, PageKept DEF SaveTimer, mode
  <2>2. CASE ~Saves
    BY <1>17, <2>2, PageKept DEF SaveTimer, mode
  <2> QED
    BY <2>1, <2>2
<1>18. ASSUME Flush PROVE PageInv'
  <2> DEFINE done == [live EXCEPT !.pending = @ /\ Len(timers) > 1]
             f == Head(timers).field
  <2>1. composer'.visible = composer.visible /\ live'.on = live.on
    <3>1. composer'.visible = composer.visible
      BY <1>18 DEF Flush, TypeInv
    <3>2. f \in Fields
      <4>1. Head(timers) \in Timers
        BY <1>18, HeadTailProperties DEF Flush, TypeInv
      <4> QED
        BY <4>1 DEF Timers
    <3>3. live' = done \/ live' = [done EXCEPT ![f] = composer.text[f]]
      BY <1>18 DEF Flush
    <3>4. live'.on = live.on
      BY <3>2, <3>3 DEF Fields, TypeInv
    <3> QED
      BY <3>1, <3>4
  <2> QED
    BY <1>18, <2>1 DEF Flush, PageInv
<1>19. ASSUME ServeUp PROVE PageInv'
  BY <1>19 DEF ServeUp, PageInv, page, view, mode
<1>20. ASSUME OnAck PROVE PageInv'
  BY <1>20 DEF OnAck, Leave, NoLive, PageInv
<1>21. ASSUME OnTerminal PROVE PageInv'
  <2>1. Head(down).x \in Exchanges
    <3>1. Head(down) \in Downs
      BY <1>21, HeadTailProperties DEF OnTerminal, TypeInv
    <3> QED
      BY <3>1 DEF Downs
  <2>2. CASE selected = Head(down).x /\ shown # "ended"
    BY <1>21, <2>1, <2>2, LoadRequest, Requested, PageKept DEF OnTerminal, page, view, mode
  <2>3. CASE ~(selected = Head(down).x /\ shown # "ended")
    BY <1>21, <2>3, PageKept DEF OnTerminal, page, view, mode
  <2> QED
    BY <2>2, <2>3
<1> QED
  BY <1>1, <1>2, <1>3, <1>4, <1>5, <1>6, <1>7, <1>8, <1>9, <1>10, <1>11, <1>12, <1>13,
     <1>14, <1>15, <1>16, <1>17, <1>18, <1>19, <1>20, <1>21
  DEF Next, Operator, Requests

-----------------------------------------------------------------------------
(* The messages of the page                                                 *)

LEMMA OnTheWay ==
  ASSUME TypeInv
  PROVE  /\ Len(up) \in Nat /\ DOMAIN up = 1..Len(up)
         /\ Len(down) \in Nat /\ DOMAIN down = 1..Len(down)
         /\ \A k \in DOMAIN up : up[k] \in Ups
BY LenProperties, ElementOfSeq DEF TypeInv

LEMMA Sent ==
  ASSUME TypeInv, NEW m \in Ups, Send(m)
  PROVE  /\ Len(up') = Len(up) + 1 /\ DOMAIN up' = 1..Len(up) + 1
         /\ up'[Len(up) + 1] = m
         /\ \A k \in DOMAIN up : up'[k] = up[k]
<1>1. up \in Seq(Ups) /\ up' = Append(up, m)
  BY DEF Send, TypeInv
<1>2. up' \in Seq(Ups) /\ Len(up') = Len(up) + 1
  BY <1>1, AppendProperties
<1> QED
  BY <1>1, <1>2, AppendProperties, LenProperties

LEMMA UpServed ==
  ASSUME TypeInv, up # <<>>, up' = Tail(up)
  PROVE  /\ Head(up) = up[1] /\ 1 \in DOMAIN up /\ up[1] \in Ups /\ up[1].x \in Exchanges
         /\ Len(up') = Len(up) - 1 /\ DOMAIN up' = 1..Len(up) - 1
         /\ \A k \in 1..Len(up) - 1 : up'[k] = up[k + 1]
<1>1. up \in Seq(Ups) /\ Len(up) \in Nat \ {0} /\ DOMAIN up = 1..Len(up)
  BY EmptySeq, LenProperties DEF TypeInv
<1>2. Head(up) = up[1] /\ up[1] \in Ups
  BY <1>1, HeadTailProperties
<1>3. up' \in Seq(Ups) /\ Len(up') = Len(up) - 1 /\ \A k \in 1..Len(up') : up'[k] = up[k + 1]
  BY <1>1, HeadTailProperties
<1> QED
  BY <1>1, <1>2, <1>3, LenProperties DEF Ups

\* The action of each message.
LEMMA ServeUpCases ==
  ASSUME TypeInv, ServeUp
  PROVE  /\ up # <<>> /\ up' = Tail(up)
         /\ UNCHANGED <<draft, page, flight, lapsed, overtaken>>
         /\ ServeStart(up[1]) \/ ServeText(up[1]) \/ ServeTools(up[1]) \/ ServeFinish(up[1])
<1>1. up # <<>> /\ up' = Tail(up)
  BY DEF ServeUp
<1>2. Head(up) = up[1]
  BY <1>1, UpServed
<1> QED
  BY <1>1, <1>2 DEF ServeUp

LEMMA Flushed ==
  ASSUME TypeInv, PageInv, Flush
  PROVE  LET f     == timers[1].field
             sends == live.on /\ composer.text[f] > live[f]
             m     == [op |-> "text", x |-> selected, field |-> f, of |-> composer.text.of]
         IN  /\ timers # <<>> /\ timers' = Tail(timers)
             /\ f \in Fields
             /\ IF sends THEN m \in Ups /\ Send(m) ELSE up' = up
             /\ live'.on = live.on /\ (live'.pending <=> live.pending /\ Len(timers) > 1)
             /\ composer'.visible = composer.visible /\ composer'.text = composer.text
             /\ composer'.locked = IF sends /\ f = "content"
                                     THEN composer.locked \cup {"reasoning"} ELSE composer.locked
             /\ excused' = IF sends /\ timers[1].stray THEN excused \cup {selected} ELSE excused
             /\ UNCHANGED <<server, selected, shown, armed, autosave, gestures, flight, down,
                            lapsed, overtaken>>
<1> DEFINE f     == timers[1].field
           sends == live.on /\ composer.text[f] > live[f]
           m     == [op |-> "text", x |-> selected, field |-> f, of |-> composer.text.of]
           done  == [live EXCEPT !.pending = @ /\ Len(timers) > 1]
<1>1. timers # <<>> /\ timers \in Seq(Timers) /\ Head(timers) = timers[1] /\ timers[1] \in Timers
  BY HeadTailProperties DEF Flush, TypeInv
<1>2. f \in Fields
  BY <1>1 DEF Timers
<1>3. /\ timers' = Tail(timers)
      /\ live' = IF sends THEN [done EXCEPT ![f] = composer.text[f]] ELSE done
      /\ IF sends THEN Send(m) ELSE UNCHANGED up
      /\ composer' = IF sends /\ f = "content"
                       THEN [composer EXCEPT !.locked = @ \cup {"reasoning"}] ELSE composer
      /\ excused' = IF sends /\ timers[1].stray THEN excused \cup {selected} ELSE excused
      /\ UNCHANGED <<server, selected, shown, armed, autosave, gestures, flight, down, lapsed,
                     overtaken>>
  BY <1>1, Zenon DEF Flush
<1>4. sends => m \in Ups
  BY <1>2, OnPage DEF Ups, TypeInv, Texts
<1>5. live'.on = live.on /\ (live'.pending <=> live.pending /\ Len(timers) > 1)
  BY <1>2, <1>3 DEF TypeInv, Fields
<1>6. /\ composer'.visible = composer.visible /\ composer'.text = composer.text
      /\ composer'.locked = IF sends /\ f = "content"
                              THEN composer.locked \cup {"reasoning"} ELSE composer.locked
  BY <1>3 DEF TypeInv
<1> HIDE DEF sends, m, f, done
<1>7. IF sends THEN m \in Ups /\ Send(m) ELSE up' = up
  BY <1>3, <1>4
<1> QED
  BY <1>1, <1>2, <1>3, <1>5, <1>6, <1>7, Zenon DEF sends, m, f

-----------------------------------------------------------------------------
(* OwnText                                                                  *)

LEMMA OwnInit == Init => OwnInv
BY DEF Init, OwnInv, OwnText, NoLive, Text

OwnRequest(r) ==
  /\ r.op = "save" => r.text.of = r.x
  /\ r.op = "select" /\ r.answer = "pending" => r.text.of = r.x

OwnMessage(m) == m.op = "text" => m.of = m.x

OwnPage ==
  /\ shown = "pending" \/ live.on => composer.text.of = selected
  /\ \A x \in Exchanges : status[x] = "pending" => draft[x].of = x

LEMMA OwnParts ==
  OwnInv <=> /\ OwnPage
             /\ \A i \in DOMAIN flight : OwnRequest(flight[i])
             /\ \A k \in DOMAIN up : OwnMessage(up[k])
BY DEF OwnInv, OwnText, OwnPage, OwnRequest, OwnMessage

LEMMA OwnNext == TypeInv /\ PageInv /\ OwnInv /\ Next => OwnInv'
<1> SUFFICES ASSUME TypeInv, PageInv, OwnInv, Next PROVE OwnInv'
  OBVIOUS
<1> DEFINE OwnFlight == \A i \in DOMAIN flight : OwnRequest(flight[i])
           OwnUp     == \A k \in DOMAIN up : OwnMessage(up[k])
<1>o. OwnPage /\ OwnFlight /\ OwnUp
  BY OwnParts
<1>p. ASSUME OwnPage', OwnFlight', OwnUp' PROVE OwnInv'
  BY <1>p DEF OwnInv, OwnText, OwnPage, OwnRequest, OwnMessage
<1>u. UNCHANGED up => OwnUp'
  BY <1>o DEF OwnMessage
<1>f. UNCHANGED flight => OwnFlight'
  BY <1>o DEF OwnRequest
<1>t. ASSUME NEW i \in DOMAIN flight, flight' = RemoveAt(flight, i) PROVE OwnFlight'
  BY <1>o, <1>t, Taken DEF OwnRequest
<1>m. ASSUME NEW m \in Ups, Send(m), OwnMessage(m) PROVE OwnUp'
  BY <1>o, <1>m, Sent, OnTheWay DEF OwnMessage
<1>v. UNCHANGED <<shown, live, composer, selected, status, draft>> => OwnPage'
  BY <1>o DEF OwnPage
<1>s. OwnPage /\ composer'.text.of = composer.text.of /\ live'.on = live.on
        /\ UNCHANGED <<shown, selected, status, draft>> => OwnPage'
  BY DEF OwnPage
<1>e. ASSUME NEW f \in Fields, NEW n, composer' = [composer EXCEPT !.text[f] = n]
      PROVE  composer'.text.of = composer.text.of
  BY <1>e DEF TypeInv, Texts, Fields
<1> HIDE DEF OwnFlight, OwnUp
<1>w. ASSUME selected \in Exchanges, Ask([Request("save", selected) EXCEPT !.text = composer.text]),
             shown = "pending" \/ live.on
      PROVE  OwnFlight'
  <2>1. flight'[Len(flight) + 1].text.of = flight'[Len(flight) + 1].x
    BY <1>o, <1>w, TextRequested DEF OwnPage
  <2> QED
    BY <1>o, <1>w, <2>1, TextRequested DEF OwnFlight, OwnRequest
<1>1. ASSUME NEW x \in Exchanges, End(x) PROVE OwnInv'
  <2>1. OwnPage'
    BY <1>1, <1>o DEF End, OwnPage, page, view, mode, TypeInv
  <2> QED
    BY <1>1, <1>p, <1>u, <1>f, <2>1 DEF End
<1>2. ASSUME NEW x \in Exchanges, Click(x) PROVE OwnInv'
  <2>1. OwnFlight'
    BY <1>2, <1>o, LoadRequest, Requested DEF Click, OwnFlight, OwnRequest
  <2> QED
    BY <1>2, <1>p, <1>u, <1>v, <2>1 DEF Click, server, view, mode
<1>3. ASSUME NEW f \in Fields, Type(f) PROVE OwnInv'
  <2>1. composer'.text.of = composer.text.of
    BY <1>3, <1>e DEF Type, Typed
  <2> QED
    BY <1>3, <1>o, <1>p, <1>u, <1>f, <1>s, <2>1 DEF Type, Typed, server, net, mode
<1>4. ASSUME NEW f \in Fields, LiveType(f) PROVE OwnInv'
  <2>1. composer'.text.of = composer.text.of /\ live'.on = live.on
    BY <1>4, <1>e DEF LiveType, Typed, TypeInv
  <2> QED
    BY <1>4, <1>o, <1>p, <1>u, <1>f, <1>s, <2>1 DEF LiveType, Typed, server, net
<1>5. ASSUME NEW f \in Fields, EditSent(f) PROVE OwnInv'
  <2>1. composer'.text.of = composer.text.of
    BY <1>5, <1>e DEF EditSent
  <2> QED
    BY <1>5, <1>o, <1>p, <1>u, <1>f, <1>s, <2>1 DEF EditSent, server, net, mode
<1>6. ASSUME SaveClick PROVE OwnInv'
  <2>1. /\ selected \in Exchanges /\ Ask([Request("save", selected) EXCEPT !.text = composer.text])
        /\ shown = "pending"
    BY <1>6, OnPage DEF SaveClick
  <2> QED
    BY <1>6, <1>p, <1>u, <1>v, <1>w, <2>1 DEF SaveClick, server, mode
<1>7. ASSUME Submit PROVE OwnInv'
  <2>1. /\ selected \in Exchanges
        /\ Ask([Request("validate", selected) EXCEPT !.text = composer.text])
    BY <1>7, OnPage DEF Submit
  <2>2. OwnFlight'
    BY <1>o, <2>1, TextRequested DEF OwnFlight, OwnRequest
  <2> QED
    BY <1>7, <1>p, <1>u, <1>v, <2>2 DEF Submit, server, mode
<1>8. ASSUME LiveStart PROVE OwnInv'
  <2>1. [op |-> "start", x |-> selected] \in Ups
    BY <1>8, OnPage DEF Ups, LiveStart
  <2>2. OwnUp'
    BY <1>8, <1>m, <2>1 DEF LiveStart, OwnMessage
  <2>3. OwnPage'
    BY <1>8, <1>o DEF LiveStart, OwnPage, PageInv, server
  <2> QED
    BY <1>8, <1>p, <1>f, <2>2, <2>3 DEF LiveStart
<1>9. ASSUME ToolCall PROVE OwnInv'
  <2>1. [op |-> "tools", x |-> selected] \in Ups
    BY <1>9, OnPage DEF Ups, ToolCall
  <2>2. OwnUp'
    BY <1>9, <1>m, <2>1 DEF ToolCall, OwnMessage
  <2>3. composer'.text.of = composer.text.of
    BY <1>9 DEF ToolCall, TypeInv
  <2> QED
    BY <1>9, <1>o, <1>p, <1>f, <1>s, <2>2, <2>3 DEF ToolCall, server, mode
<1>10. ASSUME LiveFinish PROVE OwnInv'
  <2>1. [op |-> "finish", x |-> selected] \in Ups
    BY <1>10, OnPage DEF Ups, LiveFinish
  <2>2. OwnUp'
    BY <1>10, <1>m, <2>1 DEF LiveFinish, OwnMessage
  <2> QED
    BY <1>10, <1>p, <1>f, <1>v, <2>2 DEF LiveFinish, server, view, mode
<1>11. ASSUME NEW i \in DOMAIN flight, ServeSelect(i) PROVE OwnInv'
  <2>1. flight[i].x \in Exchanges
    BY InFlight
  <2>2. OwnRequest(flight'[i])
    BY <1>11, <1>o, <2>1, SelectServed DEF OwnRequest, OwnPage
  <2>3. OwnFlight'
    BY <1>11, <1>o, <2>2, SelectServed DEF OwnFlight, OwnRequest
  <2> QED
    BY <1>11, <1>p, <1>u, <1>v, <2>3, SelectServed DEF server, page, view, mode
<1>12. ASSUME NEW i \in DOMAIN flight, ServeValidate(i) PROVE OwnInv'
  <2>1. OwnFlight'
    BY <1>12, <1>o, ValidateServed DEF OwnFlight, OwnRequest
  <2> QED
    BY <1>12, <1>p, <1>u, <1>v, <2>1, ValidateServed DEF server, page, view, mode
<1>13. ASSUME NEW i \in DOMAIN flight, ServeSave(i) PROVE OwnInv'
  <2>1. flight[i].x \in Exchanges /\ flight[i].text.of = flight[i].x
    BY <1>13, <1>o, InFlight DEF ServeSave, OwnFlight, OwnRequest
  <2>2. OwnPage'
    BY <1>13, <1>o, <2>1 DEF ServeSave, OwnPage, page, view, mode, TypeInv
  <2> QED
    BY <1>13, <1>p, <1>u, <1>t, <2>2 DEF ServeSave
<1>14. ASSUME NEW i \in DOMAIN flight, ServeSubmit(i) PROVE OwnInv'
  <2>1. flight[i].x \in Exchanges
    BY InFlight
  <2>2. OwnPage'
    BY <1>14, <1>o, <2>1 DEF ServeSubmit, OwnPage, page, view, mode, TypeInv
  <2> QED
    BY <1>14, <1>p, <1>u, <1>t, <2>2 DEF ServeSubmit
<1>15. ASSUME NEW i \in DOMAIN flight, SelectAnswered(i) PROVE OwnInv'
  <2>1. flight[i].answer = "pending" => flight[i].text.of = flight[i].x
    BY <1>15, <1>o DEF SelectAnswered, OwnFlight, OwnRequest
  <2>2. shown' = "pending" => composer'.text = flight[i].text
    BY <1>15 DEF SelectAnswered, Load
  <2>3. OwnPage'
    BY <1>15, <1>o, <2>1, <2>2 DEF SelectAnswered, Load, Leave, NoLive, OwnPage, server
  <2> QED
    BY <1>15, <1>p, <1>u, <1>t, <2>3 DEF SelectAnswered
<1>16. ASSUME NEW i \in DOMAIN flight, ValidateAnswered(i) PROVE OwnInv'
  <2>1. OwnFlight'
    <3>1. CASE flight' = RemoveAt(flight, i)
      BY <1>t, <3>1
    <3>2. CASE flight' # RemoveAt(flight, i)
      BY <1>16, <1>o, <3>2, Validated DEF OwnFlight, OwnRequest
    <3> QED
      BY <3>1, <3>2
  <2> QED
    BY <1>16, <1>p, <1>u, <1>v, <2>1, Validated DEF server, page, view, mode
<1>17. ASSUME SaveTimer PROVE OwnInv'
  <2>1. OwnFlight'
    <3>1. CASE Saves
      <4>1. selected \in Exchanges
        BY <3>1, OnPage DEF Saves
      <4> QED
        BY <1>17, <1>w, <3>1, <4>1 DEF SaveTimer, Saves
    <3>2. CASE ~Saves
      BY <1>17, <1>f, <3>2 DEF SaveTimer
    <3> QED
      BY <3>1, <3>2
  <2> QED
    BY <1>17, <1>p, <1>u, <1>v, <2>1 DEF SaveTimer, server, mode
<1>18. ASSUME Flush PROVE OwnInv'
  <2> DEFINE f     == timers[1].field
             sends == live.on /\ composer.text[f] > live[f]
             m     == [op |-> "text", x |-> selected, field |-> f, of |-> composer.text.of]
  <2>1. OwnUp'
    <3>1. IF sends THEN m \in Ups /\ Send(m) ELSE up' = up
      BY <1>18, Flushed
    <3>2. sends => OwnMessage(m)
      BY <1>o DEF OwnMessage, OwnPage
    <3> HIDE DEF sends, m
    <3> QED
      BY <1>m, <1>u, <3>1, <3>2
  <2>2. /\ composer'.text.of = composer.text.of /\ live'.on = live.on
        /\ UNCHANGED <<flight, shown, selected, status, draft>>
    BY <1>18, Flushed DEF server
  <2> QED
    BY <1>o, <1>p, <1>f, <1>s, <2>1, <2>2
<1>19. ASSUME ServeUp PROVE OwnInv'
  <2>1. OwnUp'
    <3>1. /\ DOMAIN up' = 1..Len(up) - 1 /\ Len(up) \in Nat /\ DOMAIN up = 1..Len(up)
          /\ \A k \in 1..Len(up) - 1 : up'[k] = up[k + 1]
      BY <1>19, UpServed, OnTheWay, ServeUpCases
    <3>2. \A k \in DOMAIN up' : k + 1 \in DOMAIN up /\ up'[k] = up[k + 1]
      BY <3>1
    <3> QED
      BY <1>o, <3>2 DEF OwnUp, OwnMessage
  <2>2. /\ UNCHANGED <<draft, selected, shown, composer, live, flight>>
        /\ \A x \in Exchanges : status'[x] = "pending" => status[x] = "pending"
    <3>1. up[1].x \in Exchanges
      BY <1>19, UpServed, ServeUpCases
    <3>2. UNCHANGED status \/ status' = [status EXCEPT ![up[1].x] = "active"]
      BY <1>19, ServeUpCases DEF ServeStart, ServeText, ServeTools, ServeFinish
    <3> QED
      BY <1>19, <3>1, <3>2, ServeUpCases DEF page, view, mode, TypeInv
  <2>3. OwnPage'
    BY <1>o, <2>2 DEF OwnPage
  <2> QED
    BY <1>p, <1>f, <2>1, <2>2, <2>3
<1>20. ASSUME OnAck PROVE OwnInv'
  <2>1. OwnPage'
    BY <1>20, <1>o DEF OnAck, Leave, NoLive, OwnPage, server
  <2> QED
    BY <1>20, <1>p, <1>u, <1>f, <2>1 DEF OnAck
<1>21. ASSUME OnTerminal PROVE OwnInv'
  <2>1. OwnFlight'
    <3>1. Head(down).x \in Exchanges
      <4>1. Head(down) \in Downs
        BY <1>21, HeadTailProperties DEF OnTerminal, TypeInv
      <4> QED
        BY <4>1 DEF Downs
    <3>2. CASE selected = Head(down).x /\ shown # "ended"
      <4>1. selected \in Exchanges /\ Ask(Request("select", selected))
        BY <1>21, <3>1, <3>2 DEF OnTerminal
      <4> QED
        BY <1>o, <4>1, LoadRequest, Requested DEF OwnFlight, OwnRequest
    <3>3. CASE ~(selected = Head(down).x /\ shown # "ended")
      BY <1>21, <1>f, <3>3 DEF OnTerminal
    <3> QED
      BY <3>2, <3>3
  <2> QED
    BY <1>21, <1>p, <1>u, <1>v, <2>1 DEF OnTerminal, server, page, view, mode
<1> QED
  BY <1>1, <1>2, <1>3, <1>4, <1>5, <1>6, <1>7, <1>8, <1>9, <1>10, <1>11, <1>12, <1>13,
     <1>14, <1>15, <1>16, <1>17, <1>18, <1>19, <1>20, <1>21
  DEF Next, Operator, Requests

-----------------------------------------------------------------------------
(* EndShown                                                                 *)

LEMMA EndInit == Init => EndInv
BY DEF Init, EndInv

\* Nothing ends on the page's side, and what would show an end is still under way.
LEMMA EndKept ==
  ASSUME TypeInv, EndInv, UNCHANGED <<selected, shown, overtaken>>,
         selected # Nobody /\ status'[selected] = "ended" => status[selected] = "ended",
         Announcing(selected) => \E k \in DOMAIN down' : down'[k] = [op |-> "terminal", x |-> selected],
         Loading(selected) =>
           \E i \in DOMAIN flight' : flight'[i].op = "select" /\ flight'[i].x = selected
  PROVE  EndInv'
BY DEF EndInv, Announcing, Loading

LEMMA EndNext == TypeInv /\ PageInv /\ EndInv /\ Next => EndInv'
<1> SUFFICES ASSUME TypeInv, PageInv, EndInv, Next PROVE EndInv'
  OBVIOUS
<1> DEFINE Sel == selected
           Ann == \E k \in DOMAIN down' : down'[k] = [op |-> "terminal", x |-> Sel]
           Ldg == \E i \in DOMAIN flight' : flight'[i].op = "select" /\ flight'[i].x = Sel
           Same == /\ UNCHANGED <<selected, shown, overtaken>>
                   /\ selected # Nobody /\ status'[selected] = "ended" => status[selected] = "ended"
<1>k. ASSUME Same, Announcing(selected) => Ann, Loading(selected) => Ldg PROVE EndInv'
  BY <1>k, EndKept
<1>d. UNCHANGED down => (Announcing(selected) => Ann)
  BY DEF Announcing
<1>f. UNCHANGED flight => (Loading(selected) => Ldg)
  BY DEF Loading
<1>a. ASSUME NEW m \in Downs, down' = Append(down, m)
      PROVE  /\ Announcing(selected) => Ann
             /\ Len(down) + 1 \in DOMAIN down' /\ down'[Len(down) + 1] = m
             /\ \A k \in DOMAIN down : k \in DOMAIN down' /\ down'[k] = down[k]
  <2>1. down \in Seq(Downs) /\ Len(down) \in Nat /\ DOMAIN down = 1..Len(down)
    BY OnTheWay DEF TypeInv
  <2>2. down' \in Seq(Downs) /\ Len(down') = Len(down) + 1
    BY <1>a, <2>1, AppendProperties
  <2>3. DOMAIN down' = 1..Len(down) + 1
    BY <2>2, LenProperties
  <2>4. /\ \A k \in DOMAIN down : k \in DOMAIN down' /\ down'[k] = down[k]
        /\ Len(down) + 1 \in DOMAIN down' /\ down'[Len(down) + 1] = m
    BY <1>a, <2>1, <2>3, AppendProperties
  <2> QED
    BY <2>4 DEF Announcing
<1>r. ASSUME NEW r \in Asked, Ask(r) PROVE Loading(selected) => Ldg
  BY <1>r, Requested, OnTheWay DEF Loading
<1>w. ASSUME NEW op \in {"save", "validate"},
             selected \in Exchanges, Ask([Request(op, selected) EXCEPT !.text = composer.text])
      PROVE  Loading(selected) => Ldg
  BY <1>w, TextRequested DEF Loading
<1>t. ASSUME NEW i \in DOMAIN flight, flight' = RemoveAt(flight, i), flight[i].op # "select"
      PROVE  Loading(selected) => Ldg
  BY <1>t, Taken DEF Loading
<1>g. ASSUME down # <<>>, down' = Tail(down)
      PROVE  /\ Head(down) = down[1] /\ down[1] \in Downs /\ down[1].x \in Exchanges
             /\ \A k \in DOMAIN down : k # 1 => \E j \in DOMAIN down' : down'[j] = down[k]
  <2>1. down \in Seq(Downs) /\ Len(down) \in Nat \ {0} /\ DOMAIN down = 1..Len(down)
    BY <1>g, EmptySeq, LenProperties DEF TypeInv
  <2>2. Head(down) = down[1] /\ down[1] \in Downs
    BY <1>g, <2>1, HeadTailProperties
  <2>3. /\ down' \in Seq(Downs) /\ Len(down') = Len(down) - 1
        /\ \A k \in 1..Len(down') : down'[k] = down[k + 1]
    BY <1>g, <2>1, HeadTailProperties
  <2>4. DOMAIN down' = 1..Len(down) - 1
    BY <2>3, LenProperties
  <2>5. ASSUME NEW k \in DOMAIN down, k # 1 PROVE \E j \in DOMAIN down' : down'[j] = down[k]
    <3>1. k - 1 \in DOMAIN down' /\ down'[k - 1] = down[k]
      BY <2>1, <2>3, <2>4, <2>5
    <3> QED
      BY <3>1
  <2> QED
    BY <2>2, <2>5 DEF Downs
<1> HIDE DEF Ann, Ldg, Same
<1>s. UNCHANGED <<selected, shown, overtaken, status>> => Same
  BY DEF Same
<1>1. ASSUME NEW x \in Exchanges, End(x) PROVE EndInv'
  <2> DEFINE m == [op |-> "terminal", x |-> x]
  <2>1. m \in Downs /\ down' = Append(down, m)
    BY <1>1 DEF End, Downs
  <2>2. CASE x = selected
    <3>1. Announcing(selected)'
      <4>1. Len(down) + 1 \in DOMAIN down' /\ down'[Len(down) + 1] = m
        <5> HIDE DEF m
        <5> QED
          BY <1>a, <2>1
      <4>2. UNCHANGED selected
        BY <1>1 DEF End, page, view
      <4> QED
        BY <2>2, <4>1, <4>2 DEF Announcing
    <3> QED
      BY <3>1 DEF EndInv
  <2>3. CASE x # selected
    <3>1. Announcing(selected) => Ann
      <4> HIDE DEF m
      <4> QED
        BY <1>a, <2>1
    <3>2. Same
      BY <1>1, <2>3 DEF End, Same, page, view, notes, TypeInv
    <3> QED
      BY <1>1, <1>k, <1>f, <3>1, <3>2 DEF End
  <2> QED
    BY <2>2, <2>3
<1>2. ASSUME NEW x \in Exchanges, Click(x) PROVE EndInv'
  BY <1>2, <1>k, <1>d, <1>r, <1>s, LoadRequest DEF Click, server, view, notes
<1>3. ASSUME NEW f \in Fields, Type(f) PROVE EndInv'
  BY <1>3, <1>k, <1>d, <1>f, <1>s DEF Type, Typed, server, net
<1>4. ASSUME NEW f \in Fields, LiveType(f) PROVE EndInv'
  BY <1>4, <1>k, <1>d, <1>f, <1>s DEF LiveType, Typed, server, net
<1>5. ASSUME NEW f \in Fields, EditSent(f) PROVE EndInv'
  BY <1>5, <1>k, <1>d, <1>f, <1>s DEF EditSent, server, net, notes
<1>6. ASSUME SaveClick PROVE EndInv'
  <2>1. selected \in Exchanges /\ Ask([Request("save", selected) EXCEPT !.text = composer.text])
    BY <1>6, OnPage DEF SaveClick
  <2> QED
    BY <1>6, <1>k, <1>d, <1>w, <1>s, <2>1 DEF SaveClick, server, notes
<1>7. ASSUME Submit PROVE EndInv'
  <2>1. selected \in Exchanges /\ Ask([Request("validate", selected) EXCEPT !.text = composer.text])
    BY <1>7, OnPage DEF Submit
  <2> QED
    BY <1>7, <1>k, <1>d, <1>w, <1>s, <2>1 DEF Submit, server
<1>8. ASSUME LiveStart PROVE EndInv'
  BY <1>8, <1>k, <1>d, <1>f, <1>s DEF LiveStart, server, notes
<1>9. ASSUME ToolCall PROVE EndInv'
  BY <1>9, <1>k, <1>d, <1>f, <1>s DEF ToolCall, server, notes
<1>10. ASSUME LiveFinish PROVE EndInv'
  BY <1>10, <1>k, <1>d, <1>f, <1>s DEF LiveFinish, server, view, notes
<1>11. ASSUME NEW i \in DOMAIN flight, ServeSelect(i) PROVE EndInv'
  <2>1. Loading(selected) => Ldg
    BY <1>11, SelectServed DEF Loading, Ldg
  <2> QED
    BY <1>11, <1>k, <1>d, <1>s, <2>1, SelectServed DEF server, page, view, notes
<1>12. ASSUME NEW i \in DOMAIN flight, ServeValidate(i) PROVE EndInv'
  <2>1. Loading(selected) => Ldg
    BY <1>12, ValidateServed DEF Loading, Ldg
  <2> QED
    BY <1>12, <1>k, <1>d, <1>s, <2>1, ValidateServed DEF server, page, view, notes
<1>13. ASSUME NEW i \in DOMAIN flight, ServeSave(i) PROVE EndInv'
  <2>1. flight' = RemoveAt(flight, i) /\ flight[i].op # "select"
    BY <1>13 DEF ServeSave
  <2> QED
    BY <1>13, <1>k, <1>d, <1>t, <1>s, <2>1 DEF ServeSave, page, view
<1>14. ASSUME NEW i \in DOMAIN flight, ServeSubmit(i) PROVE EndInv'
  <2>1. flight' = RemoveAt(flight, i) /\ flight[i].op # "select"
    BY <1>14 DEF ServeSubmit
  <2>2. Same
    BY <1>14, InFlight DEF ServeSubmit, Same, page, view, notes, TypeInv
  <2> QED
    BY <1>14, <1>k, <1>d, <1>t, <2>1, <2>2 DEF ServeSubmit
<1>15. ASSUME NEW i \in DOMAIN flight, SelectAnswered(i) PROVE EndInv'
  <2>1. /\ selected' = flight[i].x /\ UNCHANGED <<status, down>>
        /\ shown' = flight[i].answer
        /\ flight[i].answer # "ended" /\ Announced(flight[i].x) => flight[i].x \in overtaken'
    BY <1>15 DEF SelectAnswered, Load, server
  <2> QED
    BY <2>1 DEF EndInv, Announced, Announcing
<1>16. ASSUME NEW i \in DOMAIN flight, ValidateAnswered(i) PROVE EndInv'
  <2>1. Loading(selected) => Ldg
    <3>1. CASE flight' = RemoveAt(flight, i)
      <4>1. flight[i].op # "select"
        BY <1>16, Validated
      <4> QED
        BY <1>t, <3>1, <4>1
    <3>2. CASE flight' # RemoveAt(flight, i)
      BY <1>16, <3>2, Validated DEF Loading, Ldg
    <3> QED
      BY <3>1, <3>2
  <2> QED
    BY <1>16, <1>k, <1>d, <1>s, <2>1, Validated DEF server, page, view, notes
<1>17. ASSUME SaveTimer PROVE EndInv'
  <2>1. Loading(selected) => Ldg
    <3>1. CASE Saves
      <4>1. selected \in Exchanges
        BY <3>1, OnPage DEF Saves
      <4> QED
        BY <1>17, <1>w, <3>1, <4>1 DEF SaveTimer
    <3>2. CASE ~Saves
      BY <1>17, <1>f, <3>2 DEF SaveTimer
    <3> QED
      BY <3>1, <3>2
  <2> QED
    BY <1>17, <1>k, <1>d, <1>s, <2>1 DEF SaveTimer, server, notes
<1>18. ASSUME Flush PROVE EndInv'
  BY <1>18, <1>k, <1>d, <1>f, <1>s DEF Flush, server
<1>19. ASSUME ServeUp PROVE EndInv'
  <2>1. up[1].x \in Exchanges /\ UNCHANGED <<selected, shown, overtaken, flight>>
    BY <1>19, UpServed, ServeUpCases DEF page, view
  <2>2. /\ UNCHANGED status \/ status' = [status EXCEPT ![up[1].x] = "active"]
        /\ UNCHANGED down \/ down' = Append(down, [op |-> "ack", x |-> up[1].x])
    BY <1>19, ServeUpCases DEF ServeStart, ServeText, ServeTools, ServeFinish
  <2>3. Same
    BY <2>1, <2>2 DEF Same, TypeInv
  <2>4. [op |-> "ack", x |-> up[1].x] \in Downs
    BY <2>1 DEF Downs
  <2>5. Announcing(selected) => Ann
    BY <1>a, <1>d, <2>2, <2>4
  <2> QED
    BY <1>k, <1>f, <2>1, <2>3, <2>5
<1>20. ASSUME OnAck PROVE EndInv'
  <2>1. down # <<>> /\ down' = Tail(down) /\ Head(down).op = "ack"
    BY <1>20 DEF OnAck
  <2>2. Announcing(selected) => Ann
    BY <1>g, <2>1 DEF Announcing, Ann
  <2> QED
    BY <1>20, <1>k, <1>f, <1>s, <2>2 DEF OnAck, server, notes
<1>21. ASSUME OnTerminal PROVE EndInv'
  <2>1. down # <<>> /\ down' = Tail(down) /\ UNCHANGED <<selected, shown, overtaken, status>>
    BY <1>21 DEF OnTerminal, server, page, view, notes
  <2>2. Head(down) = down[1] /\ down[1].x \in Exchanges
    BY <1>g, <2>1
  <2>3. CASE selected = down[1].x /\ shown # "ended"
    <3> DEFINE r == Request("select", selected)
    <3>1. r \in Asked /\ r.op = "select" /\ r.x = selected
      BY <2>2, <2>3, LoadRequest
    <3>2. Ask(r)
      BY <1>21, <2>2, <2>3 DEF OnTerminal
    <3> HIDE DEF r
    <3>3. flight'[Len(flight) + 1] = r /\ Len(flight) + 1 \in DOMAIN flight'
      BY <3>1, <3>2, Requested
    <3>4. Loading(selected)'
      BY <2>1, <3>1, <3>3 DEF Loading
    <3> QED
      BY <3>4 DEF EndInv
  <2>4. CASE ~(selected = down[1].x /\ shown # "ended")
    <3>1. UNCHANGED flight
      BY <1>21, <2>2, <2>4 DEF OnTerminal
    <3>2. CASE selected = down[1].x
      BY <2>1, <2>4, <3>2 DEF EndInv
    <3>3. CASE selected # down[1].x
      <4>1. Announcing(selected) => Ann
        <5>1. down[1] # [op |-> "terminal", x |-> selected]
          BY <3>3
        <5> QED
          BY <1>g, <2>1, <5>1 DEF Announcing, Ann
      <4> QED
        BY <1>k, <1>f, <1>s, <2>1, <3>1, <4>1
    <3> QED
      BY <3>2, <3>3
  <2> QED
    BY <2>3, <2>4
<1> QED
  BY <1>1, <1>2, <1>3, <1>4, <1>5, <1>6, <1>7, <1>8, <1>9, <1>10, <1>11, <1>12, <1>13,
     <1>14, <1>15, <1>16, <1>17, <1>18, <1>19, <1>20, <1>21
  DEF Next, Operator, Requests

-----------------------------------------------------------------------------
(* AutoSaved                                                                *)

LEMMA SavedInit == Init => SavedInv
BY DEF Init, SavedInv, ToKeep, NoLive

\* The saves of an exchange stay, with their texts.
SavesStay(x) ==
  /\ SavesOf(x)' = {} => SavesOf(x) = {}
  /\ \A k \in DOMAIN flight' :
       LastSave(k, x)' => \E j \in DOMAIN flight : LastSave(j, x) /\ flight'[k].text = flight[j].text

LEMMA SavesLeft ==
  ASSUME TypeInv, NEW i \in DOMAIN flight, flight' = RemoveAt(flight, i), NEW x
  PROVE  /\ SavesOf(x)' = {} => SavesOf(x) \subseteq {i}
         /\ \A k \in DOMAIN flight' : LastSave(k, x)' =>
              \E j \in SavesOf(x) \ {i} :
                /\ flight'[k] = flight[j]
                /\ \A n \in SavesOf(x) \ {i} : n =< j
<1>1. DOMAIN flight \subseteq Int
  BY InFlight
<1>2. ASSUME NEW j \in SavesOf(x) \ {i}
      PROVE  \E k \in SavesOf(x)' : flight'[k] = flight[j] /\ k = IF j < i THEN j ELSE j - 1
  <2>1. j \in DOMAIN flight \ {i} /\ flight[j].op = "save" /\ flight[j].x = x
    BY DEF SavesOf
  <2>2. PICK k \in DOMAIN flight' : flight'[k] = flight[j] /\ k = IF j < i THEN j ELSE j - 1
    BY <2>1, Taken
  <2>3. k \in SavesOf(x)'
    BY <2>1, <2>2 DEF SavesOf
  <2> QED
    BY <2>2, <2>3
<1>3. ASSUME NEW k \in DOMAIN flight', LastSave(k, x)'
      PROVE  \E j \in SavesOf(x) \ {i} :
               flight'[k] = flight[j] /\ \A n \in SavesOf(x) \ {i} : n =< j
  <2>1. PICK j \in DOMAIN flight \ {i} : flight'[k] = flight[j] /\ k = IF j < i THEN j ELSE j - 1
    BY Taken
  <2>2. /\ k \in SavesOf(x)' /\ \A n \in SavesOf(x)' : n =< k
        /\ flight'[k].op = "save" /\ flight'[k].x = x
    BY <1>3 DEF LastSave, SavesOf
  <2>3. j \in SavesOf(x) \ {i}
    BY <2>1, <2>2 DEF SavesOf
  <2>4. ASSUME NEW n \in SavesOf(x) \ {i} PROVE n =< j
    <3>1. PICK l \in SavesOf(x)' : flight'[l] = flight[n] /\ l = IF n < i THEN n ELSE n - 1
      BY <1>2
    <3>2. l =< k
      BY <2>2, <3>1
    <3>3. n \in Int /\ j \in Int /\ i \in Int /\ n # i /\ j # i
      BY <1>1 DEF SavesOf
    <3> QED
      BY <2>1, <3>1, <3>2, <3>3
  <2> QED
    BY <2>1, <2>3, <2>4
<1> QED
  BY <1>2, <1>3

\* A request that is not a save is taken out.
LEMMA SavesStayTaken ==
  ASSUME TypeInv, NEW i \in DOMAIN flight, flight' = RemoveAt(flight, i), NEW x,
         i \notin SavesOf(x)
  PROVE  SavesStay(x)
<1>1. SavesOf(x) \ {i} = SavesOf(x)
  OBVIOUS
<1>2. \A k \in DOMAIN flight' : LastSave(k, x)' =>
        \E j \in SavesOf(x) : flight'[k] = flight[j] /\ \A n \in SavesOf(x) : n =< j
  BY <1>1, SavesLeft
<1>3. SavesOf(x)' = {} => SavesOf(x) = {}
  BY SavesLeft
<1>4. SavesOf(x) \subseteq DOMAIN flight
  BY DEF SavesOf
<1> QED
  BY <1>2, <1>3, <1>4 DEF SavesStay, LastSave

\* A request that is not a save changes, or one is added.
LEMMA SavesStaySame ==
  ASSUME NEW x, DOMAIN flight \subseteq DOMAIN flight',
         \A k \in DOMAIN flight : flight[k].op = "save" /\ flight[k].x = x => flight'[k] = flight[k],
         \A k \in DOMAIN flight' :
           flight'[k].op = "save" /\ flight'[k].x = x
             => k \in DOMAIN flight /\ flight[k].op = "save" /\ flight[k].x = x
  PROVE  SavesStay(x)
<1>1. SavesOf(x)' = SavesOf(x)
  BY DEF SavesOf
<1>2. \A k \in SavesOf(x) : flight'[k] = flight[k] /\ k \in DOMAIN flight
  BY DEF SavesOf
<1> QED
  BY <1>1, <1>2 DEF SavesStay, LastSave

\* Nothing changes that the invariant is about.
LEMMA SavedKept ==
  ASSUME TypeInv, PageInv, SavedInv, UNCHANGED <<selected, shown>>, SavesStay(selected),
         live'.on => live.on,
         selected \in Exchanges /\ status'[selected] = "pending" => status[selected] = "pending",
         Starting(selected) => Starting(selected)',
         selected \in Exchanges /\ ToKeep'
           => ToKeep /\ draft'[selected] = draft[selected] /\ composer'.text = composer.text
  PROVE  SavedInv'
<1>0. live'.on \/ ToKeep' => selected \in Exchanges
  BY OnPage DEF ToKeep
<1>1. live'.on /\ status'[selected'] = "pending" => Starting(selected)'
  BY <1>0 DEF SavedInv, Starting
<1>2. ASSUME ToKeep' PROVE SavesOf(selected)' = {} => draft'[selected'] = composer'.text
  BY <1>0, <1>2 DEF SavedInv, SavesStay
<1>3. ASSUME ToKeep', NEW k \in DOMAIN flight', LastSave(k, selected)'
      PROVE  flight'[k].text = composer'.text
  BY <1>0, <1>3 DEF SavedInv, SavesStay
<1> QED
  BY <1>1, <1>2, <1>3 DEF SavedInv

LEMMA SavedNext == TypeInv /\ PageInv /\ SavedInv /\ Next => SavedInv'
<1> SUFFICES ASSUME TypeInv, PageInv, SavedInv, Next PROVE SavedInv'
  OBVIOUS
<1> DEFINE Same  == UNCHANGED <<selected, shown, status, draft>>
           Stays == Starting(selected) => Starting(selected)'
<1>u. UNCHANGED <<up, selected>> => Stays
  BY DEF Starting, Starts
<1>m. ASSUME NEW m \in Ups, Send(m), UNCHANGED selected PROVE Stays
  BY <1>m, Sent, OnTheWay DEF Starting, Starts
<1> HIDE DEF Stays
<1>k. ASSUME UNCHANGED <<selected, shown>>, SavesStay(selected), live'.on => live.on, Stays,
             selected \in Exchanges /\ status'[selected] = "pending"
               => status[selected] = "pending",
             selected \in Exchanges /\ ToKeep' /\ ~Starting(selected) =>
               ToKeep /\ draft'[selected] = draft[selected] /\ composer'.text = composer.text
      PROVE  SavedInv'
  <2>1. Starting(selected) => Starting(selected)'
    BY <1>k DEF Stays
  <2>2. ToKeep' => ~Starting(selected)
    BY <1>k, <2>1 DEF ToKeep
  <2> QED
    BY <1>k, <2>1, <2>2, SavedKept
<1>f. UNCHANGED flight => SavesStay(selected)
  BY SavesStaySame
<1>r. ASSUME NEW r \in Asked, Ask(r), r.op # "save" PROVE SavesStay(selected)
  BY <1>r, Requested, SavesStaySame
<1>w. ASSUME selected \in Exchanges, Ask([Request("save", selected) EXCEPT !.text = composer.text]),
             UNCHANGED <<selected, status, live, up, composer>>
      PROVE  SavedInv'
  <2> DEFINE last == Len(flight) + 1
  <2>1. /\ last \in SavesOf(selected)' /\ \A k \in DOMAIN flight' : k =< last
        /\ flight'[last].text = composer'.text
    BY <1>w, TextRequested DEF SavesOf
  <2>2. \A k \in DOMAIN flight' : LastSave(k, selected)' => k = last
    <3> SUFFICES ASSUME NEW k \in DOMAIN flight', LastSave(k, selected)' PROVE k = last
      OBVIOUS
    <3>1. k \in Int /\ last \in Int /\ k =< last
      BY <1>w, <2>1, TextRequested
    <3>2. last =< k
      BY <2>1 DEF LastSave
    <3> QED
      BY <3>1, <3>2
  <2>3. live'.on /\ status'[selected'] = "pending" => Starting(selected)'
    BY <1>w, <1>u DEF SavedInv, Stays
  <2>4. SavesOf(selected)' # {} /\ selected' = selected
    BY <1>w, <2>1
  <2> HIDE DEF last
  <2> QED
    BY <2>1, <2>2, <2>3, <2>4 DEF SavedInv
<1>1. ASSUME NEW x \in Exchanges, End(x) PROVE SavedInv'
  <2>1. UNCHANGED <<draft, selected, shown, composer, autosave, lapsed, live, up, flight>>
    BY <1>1 DEF End, page, view, mode, notes
  <2>2. status'[selected] = "pending" => status[selected] = "pending"
    BY <1>1 DEF End, TypeInv
  <2> QED
    BY <1>k, <1>u, <1>f, <2>1, <2>2 DEF ToKeep
<1>2. ASSUME NEW x \in Exchanges, Click(x) PROVE SavedInv'
  <2>1. SavesStay(selected)
    BY <1>2, <1>r, LoadRequest DEF Click
  <2> QED
    BY <1>2, <1>k, <1>u, <2>1 DEF Click, server, view, mode, notes, ToKeep
<1>3. ASSUME NEW f \in Fields, Type(f) PROVE SavedInv'
  BY <1>3, <1>k, <1>u, <1>f DEF Type, Typed, server, net, mode, ToKeep
<1>4. ASSUME NEW f \in Fields, LiveType(f) PROVE SavedInv'
  <2>1. live.on /\ UNCHANGED <<selected, status, up, flight>>
    BY <1>4 DEF LiveType, Typed, server, net
  <2>3. shown' = shown
    BY <1>4 DEF LiveType, Typed
  <2>2. ToKeep' => Starting(selected)
    BY <2>1 DEF SavedInv, ToKeep
  <2> QED
    BY <1>k, <1>u, <1>f, <2>1, <2>2, <2>3
<1>5. ASSUME NEW f \in Fields, EditSent(f) PROVE SavedInv'
  <2>1. live.on /\ UNCHANGED <<selected, status, up, flight, live>>
    BY <1>5 DEF EditSent, server, net, mode
  <2>3. shown' = shown
    BY <1>5 DEF EditSent
  <2>2. ToKeep' => Starting(selected)
    BY <2>1 DEF SavedInv, ToKeep
  <2> QED
    BY <1>k, <1>u, <1>f, <2>1, <2>2, <2>3
<1>6. ASSUME SaveClick PROVE SavedInv'
  <2>1. selected \in Exchanges
    BY <1>6, OnPage DEF SaveClick
  <2> QED
    BY <1>6, <1>w, <2>1 DEF SaveClick, server, mode
<1>7. ASSUME Submit PROVE SavedInv'
  <2>1. selected \in Exchanges /\ Ask([Request("validate", selected) EXCEPT !.text = composer.text])
    BY <1>7, OnPage DEF Submit
  <2>2. SavesStay(selected)
    BY <2>1, TextRequested, SavesStaySame
  <2> QED
    BY <1>7, <1>k, <1>u, <2>2 DEF Submit, server, mode, ToKeep
<1>8. ASSUME LiveStart PROVE SavedInv'
  <2> DEFINE m == [op |-> "start", x |-> selected]
  <2>1. m \in Ups /\ Send(m) /\ UNCHANGED selected
    BY <1>8, OnPage DEF Ups, LiveStart
  <2>2. m.op = "start" /\ m.x = selected
    OBVIOUS
  <2> HIDE DEF m
  <2>3. Starting(selected)'
    <3>1. Len(up) + 1 \in DOMAIN up' /\ up'[Len(up) + 1] = m
      BY <2>1, Sent, OnTheWay
    <3> QED
      BY <2>1, <2>2, <3>1 DEF Starting, Starts
  <2> QED
    BY <2>3 DEF SavedInv, ToKeep
<1>9. ASSUME ToolCall PROVE SavedInv'
  <2>1. [op |-> "tools", x |-> selected] \in Ups
    BY <1>9, OnPage DEF Ups, ToolCall
  <2>2. Stays
    BY <1>9, <1>m, <2>1 DEF ToolCall
  <2>3. composer'.text = composer.text
    BY <1>9 DEF ToolCall, TypeInv
  <2> QED
    BY <1>9, <1>k, <1>f, <2>2, <2>3 DEF ToolCall, server, mode, notes, ToKeep, Stays
<1>10. ASSUME LiveFinish PROVE SavedInv'
  <2>1. [op |-> "finish", x |-> selected] \in Ups
    BY <1>10, OnPage DEF Ups, LiveFinish
  <2>2. Stays
    BY <1>10, <1>m, <2>1 DEF LiveFinish, view
  <2> QED
    BY <1>10, <1>k, <1>f, <2>2 DEF LiveFinish, server, view, mode, notes, ToKeep
<1>11. ASSUME NEW i \in DOMAIN flight, ServeSelect(i) PROVE SavedInv'
  <2>1. SavesStay(selected)
    BY <1>11, SelectServed, SavesStaySame
  <2> QED
    BY <1>11, <1>k, <1>u, <2>1, SelectServed DEF server, page, view, mode, notes, ToKeep
<1>12. ASSUME NEW i \in DOMAIN flight, ServeValidate(i) PROVE SavedInv'
  <2>1. SavesStay(selected)
    BY <1>12, ValidateServed, SavesStaySame
  <2> QED
    BY <1>12, <1>k, <1>u, <2>1, ValidateServed DEF server, page, view, mode, notes, ToKeep
<1>13. ASSUME NEW i \in DOMAIN flight, ServeSave(i) PROVE SavedInv'
  <2>1. /\ flight' = RemoveAt(flight, i)
        /\ draft' = IF status[flight[i].x] = "ended" THEN draft
                    ELSE [draft EXCEPT ![flight[i].x] = flight[i].text]
        /\ lapsed' = (lapsed \/ \E k \in SavesOf(flight[i].x) : k < i)
        /\ UNCHANGED <<status, selected, shown, composer, autosave, live, up>>
    BY <1>13 DEF ServeSave, page, view, mode
  <2>2. i \in SavesOf(flight[i].x) /\ flight[i].x \in Exchanges
    BY <1>13, InFlight DEF ServeSave, SavesOf
  <2>3. CASE flight[i].x # selected
    <3>1. SavesStay(selected)
      <4>1. i \notin SavesOf(selected)
        BY <2>3 DEF SavesOf
      <4> QED
        BY <2>1, <4>1, SavesStayTaken
    <3>2. draft'[selected] = draft[selected]
      BY <2>1, <2>2, <2>3 DEF TypeInv
    <3> QED
      BY <1>k, <1>u, <2>1, <3>1, <3>2 DEF ToKeep
  <2>4. CASE flight[i].x = selected
    <3>1. live'.on /\ status'[selected'] = "pending" => Starting(selected)'
      BY <1>u, <2>1 DEF SavedInv, Stays
    <3>2. ASSUME ToKeep'
          PROVE  /\ SavesOf(selected)' = {} => draft'[selected'] = composer'.text
                 /\ \A k \in DOMAIN flight' :
                      LastSave(k, selected)' => flight'[k].text = composer'.text
      <4>1. ToKeep /\ \A k \in SavesOf(selected) : ~(k < i)
        BY <1>u, <2>1, <2>4, <3>2 DEF ToKeep, Stays
      <4>2. SavesOf(selected) \subseteq Int /\ i \in Int /\ SavesOf(selected) \subseteq DOMAIN flight
        BY InFlight DEF SavesOf
      <4>3. ASSUME SavesOf(selected)' = {} PROVE draft'[selected] = composer.text
        <5>1. SavesOf(selected) \subseteq {i}
          BY <2>1, <4>3, SavesLeft
        <5>2. LastSave(i, selected)
          BY <2>2, <2>4, <4>2, <5>1 DEF LastSave
        <5>3. flight[i].text = composer.text
          BY <4>1, <5>2 DEF SavedInv
        <5> QED
          BY <2>1, <2>2, <2>4, <4>1, <5>3 DEF ToKeep, TypeInv
      <4>4. ASSUME NEW k \in DOMAIN flight', LastSave(k, selected)'
            PROVE  flight'[k].text = composer.text
        <5>1. PICK j \in SavesOf(selected) \ {i} :
                flight'[k] = flight[j] /\ \A n \in SavesOf(selected) \ {i} : n =< j
          BY <2>1, <4>4, SavesLeft
        <5>2. i =< j
          BY <4>1, <4>2, <5>1
        <5>3. LastSave(j, selected)
          BY <5>1, <5>2 DEF LastSave
        <5> QED
          BY <4>1, <4>2, <5>1, <5>3 DEF SavedInv
      <4> QED
        BY <2>1, <4>3, <4>4
    <3>3. selected' = selected
      BY <2>1
    <3> QED
      BY <3>1, <3>2, <3>3 DEF SavedInv
  <2> QED
    BY <2>3, <2>4
<1>14. ASSUME NEW i \in DOMAIN flight, ServeSubmit(i) PROVE SavedInv'
  <2>1. SavesStay(selected)
    <3>1. i \notin SavesOf(selected)
      BY <1>14 DEF ServeSubmit, SavesOf
    <3> QED
      BY <1>14, <3>1, SavesStayTaken DEF ServeSubmit
  <2>2. /\ UNCHANGED <<selected, shown, composer, autosave, lapsed, live, up>>
        /\ selected \in Exchanges /\ status'[selected] = "pending" =>
             status[selected] = "pending" /\ draft'[selected] = draft[selected]
    BY <1>14, InFlight DEF ServeSubmit, page, view, mode, notes, TypeInv
  <2> QED
    BY <1>k, <1>u, <2>1, <2>2 DEF ToKeep
<1>15. ASSUME NEW i \in DOMAIN flight, SelectAnswered(i) PROVE SavedInv'
  <2>0. PICK x \in Exchanges : x = flight[i].x
    BY InFlight
  <2>1. /\ flight' = RemoveAt(flight, i) /\ UNCHANGED <<status, draft, up>>
        /\ selected' = x /\ shown' = flight[i].answer /\ ~live'.on
        /\ ~lapsed' => flight[i].text = draft[x] /\ SavesOf(x) = {}
        /\ shown' = "pending" => composer'.text = flight[i].text
    BY <1>15, <2>0 DEF SelectAnswered, Load, Leave, NoLive, server
  <2>2. ASSUME ~lapsed' PROVE \A k \in DOMAIN flight' : ~LastSave(k, x)'
    BY <2>1, <2>2, SavesLeft
  <2> QED
    BY <2>1, <2>2 DEF SavedInv, ToKeep, LastSave
<1>16. ASSUME NEW i \in DOMAIN flight, ValidateAnswered(i) PROVE SavedInv'
  <2>1. SavesStay(selected)
    <3>1. CASE flight' = RemoveAt(flight, i)
      <4>1. i \notin SavesOf(selected)
        BY <1>16, Validated DEF SavesOf
      <4> QED
        BY <3>1, <4>1, SavesStayTaken
    <3>2. CASE flight' # RemoveAt(flight, i)
      BY <1>16, <3>2, Validated, SavesStaySame
    <3> QED
      BY <3>1, <3>2
  <2> QED
    BY <1>16, <1>k, <1>u, <2>1, Validated DEF server, page, view, mode, notes, ToKeep
<1>17. ASSUME SaveTimer PROVE SavedInv'
  <2>1. CASE Saves
    <3>1. selected \in Exchanges
      BY <2>1, OnPage DEF Saves
    <3> QED
      BY <1>17, <1>w, <2>1, <3>1 DEF SaveTimer, server, mode
  <2>2. CASE ~Saves
    BY <1>17, <1>k, <1>u, <1>f, <2>2 DEF SaveTimer, Saves, server, mode, ToKeep
  <2> QED
    BY <2>1, <2>2
<1>18. ASSUME Flush PROVE SavedInv'
  <2> DEFINE f     == timers[1].field
             sends == live.on /\ composer.text[f] > live[f]
             m     == [op |-> "text", x |-> selected, field |-> f, of |-> composer.text.of]
  <2>1. IF sends THEN m \in Ups /\ Send(m) ELSE up' = up
    BY <1>18, Flushed
  <2>2. /\ live'.on = live.on /\ composer'.text = composer.text
        /\ UNCHANGED <<selected, shown, status, draft, autosave, lapsed, flight>>
    BY <1>18, Flushed DEF server
  <2> HIDE DEF sends, m
  <2>3. Stays
    BY <1>m, <1>u, <2>1, <2>2
  <2> QED
    BY <1>k, <1>f, <2>2, <2>3 DEF ToKeep
<1>19. ASSUME ServeUp PROVE SavedInv'
  <2>1. /\ up # <<>> /\ up' = Tail(up)
        /\ UNCHANGED <<draft, selected, shown, composer, autosave, live, flight, lapsed>>
    BY <1>19, ServeUpCases DEF page, view, mode
  <2>2. UNCHANGED status \/ status' = [status EXCEPT ![up[1].x] = "active"]
    BY <1>19, ServeUpCases DEF ServeStart, ServeText, ServeTools, ServeFinish
  <2>3. up[1].x \in Exchanges
    BY <2>1, UpServed
  <2>4. selected \in Exchanges /\ status'[selected] = "pending" => status[selected] = "pending"
    BY <2>2, <2>3 DEF TypeInv
  <2>5. CASE Starts(1, selected)
    <3>1. status'[selected] # "pending"
      BY <1>19, <2>3, <2>5, ServeUpCases
      DEF Starts, ServeStart, ServeText, ServeTools, ServeFinish, TypeInv
    <3> QED
      BY <2>1, <3>1 DEF SavedInv, ToKeep
  <2>6. CASE ~Starts(1, selected)
    <3>1. /\ DOMAIN up = 1..Len(up) /\ Len(up) \in Nat /\ DOMAIN up' = 1..Len(up) - 1
          /\ \A k \in 1..Len(up) - 1 : up'[k] = up[k + 1]
      BY <2>1, UpServed, OnTheWay
    <3>2. ASSUME NEW k \in DOMAIN up, Starts(k, selected) PROVE Starting(selected)'
      <4>1. k # 1 /\ k - 1 \in DOMAIN up' /\ up'[k - 1] = up[k]
        BY <2>6, <3>1, <3>2
      <4>2. up[k].op = "start" /\ up[k].x = selected'
        BY <2>1, <3>2 DEF Starts
      <4> QED
        BY <4>1, <4>2 DEF Starting, Starts
    <3>3. Stays
      BY <3>2 DEF Stays, Starting
    <3> QED
      BY <1>k, <1>f, <2>1, <2>4, <3>3 DEF ToKeep
  <2> QED
    BY <2>5, <2>6
<1>20. ASSUME OnAck PROVE SavedInv'
  BY <1>20, <1>k, <1>u, <1>f DEF OnAck, Leave, NoLive, server, notes, ToKeep
<1>21. ASSUME OnTerminal PROVE SavedInv'
  <2>1. Head(down).x \in Exchanges
    <3>1. Head(down) \in Downs
      BY <1>21, HeadTailProperties DEF OnTerminal, TypeInv
    <3> QED
      BY <3>1 DEF Downs
  <2>2. SavesStay(selected)
    <3>1. CASE selected = Head(down).x /\ shown # "ended"
      <4>1. selected \in Exchanges /\ Ask(Request("select", selected))
        BY <1>21, <2>1, <3>1 DEF OnTerminal
      <4> QED
        BY <1>r, <4>1, LoadRequest
    <3>2. CASE ~(selected = Head(down).x /\ shown # "ended")
      BY <1>21, <1>f, <3>2 DEF OnTerminal
    <3> QED
      BY <3>1, <3>2
  <2> QED
    BY <1>21, <1>k, <1>u, <2>2 DEF OnTerminal, server, page, view, mode, notes, ToKeep
<1> QED
  BY <1>1, <1>2, <1>3, <1>4, <1>5, <1>6, <1>7, <1>8, <1>9, <1>10, <1>11, <1>12, <1>13,
     <1>14, <1>15, <1>16, <1>17, <1>18, <1>19, <1>20, <1>21
  DEF Next, Operator, Requests

-----------------------------------------------------------------------------
(* ReasoningFirst                                                           *)

LEMMA OrderInit == Init => OrderInv
<1> SUFFICES ASSUME Init PROVE OrderInv
  OBVIOUS
<1>1. up = <<>> /\ timers = <<>> /\ ~live.pending /\ ~live.on /\ refused = {}
  BY DEF Init, NoLive
<1>2. DOMAIN up = {} /\ DOMAIN timers = {}
  BY <1>1
<1>3. TimerInv /\ OffInv /\ ReasoningFirst
  BY <1>1, <1>2 DEF Init, TimerInv, OffInv, ReasoningFirst
<1>4. \A x : UpInOrder(x) /\ StageInOrder(x) /\ NextInOrder(x)
  BY <1>1, <1>2 DEF UpInOrder, StageInOrder, NextInOrder, MayReason
<1> QED
  BY <1>3, <1>4 DEF OrderInv

\* Nothing is sent or served, and the page may send reasoning only as before.
LEMMA OrderKept ==
  ASSUME TypeInv, OrderInv, TimerInv', OffInv', UNCHANGED <<up, refused, excused>>,
         \A x \in Exchanges : stage'[x] = "content" => stage[x] = "content",
         MayReason' => MayReason /\ selected' = selected
  PROVE  OrderInv'
<1>1. ASSUME NEW x \in Exchanges \ excused
      PROVE  UpInOrder(x)' /\ StageInOrder(x)' /\ NextInOrder(x)'
  <2>1. UpInOrder(x) /\ StageInOrder(x) /\ NextInOrder(x)
    BY DEF OrderInv
  <2>2. UpInOrder(x)'
    BY <2>1 DEF UpInOrder, Says, Starts
  <2>3. StageInOrder(x)'
    BY <2>1 DEF StageInOrder, Says, Starts
  <2>4. NextInOrder(x)'
    <3>1. MayReason' /\ selected' = x => MayReason /\ selected = x
      OBVIOUS
    <3> HIDE DEF MayReason
    <3> QED
      BY <2>1, <3>1 DEF NextInOrder, Says, Starts
  <2> QED
    BY <2>2, <2>3, <2>4
<1>2. ReasoningFirst'
  BY DEF OrderInv, ReasoningFirst
<1> QED
  BY <1>1, <1>2 DEF OrderInv

\* A message that is not text keeps the order.
LEMMA OrderSent ==
  ASSUME TypeInv, OrderInv, NEW m \in Ups, Send(m), m.op # "text",
         TimerInv', UNCHANGED <<stage, status, refused, excused, selected>>,
         MayReason' => MayReason \/ (m.op = "start" /\ m.x = selected)
  PROVE  OrderInv'
<1>u. /\ Len(up) \in Nat /\ DOMAIN up = 1..Len(up) /\ Len(up') = Len(up) + 1
      /\ DOMAIN up' = 1..Len(up) + 1 /\ up'[Len(up) + 1] = m
      /\ \A k \in DOMAIN up : up'[k] = up[k]
  BY Sent, OnTheWay
<1>1. ASSUME NEW x \in Exchanges \ excused
      PROVE  UpInOrder(x)' /\ StageInOrder(x)' /\ NextInOrder(x)'
  <2>1. UpInOrder(x) /\ StageInOrder(x) /\ NextInOrder(x)
    BY DEF OrderInv
  <2>2. \A k \in DOMAIN up' : \A g : Says(k, x, g)' => k \in DOMAIN up /\ Says(k, x, g)
    BY <1>u DEF Says
  <2>3. \A k \in DOMAIN up : Starts(k, x) => Starts(k, x)'
    BY <1>u DEF Starts
  <2>4. ASSUME NEW n, n = Len(up) + 1, m.op = "start", m.x = x PROVE Starts(n, x)'
    BY <1>u, <2>4 DEF Starts
  <2> HIDE DEF Says, Starts, MayReason
  <2>5. UpInOrder(x)'
    <3> SUFFICES ASSUME NEW i \in DOMAIN up', NEW j \in DOMAIN up', i < j,
                        Says(i, x, "content")', Says(j, x, "reasoning")'
                 PROVE  \E k \in i + 1..j - 1 : Starts(k, x)'
      BY DEF UpInOrder
    <3>1. i \in DOMAIN up /\ Says(i, x, "content") /\ j \in DOMAIN up /\ Says(j, x, "reasoning")
      BY <2>2
    <3>2. PICK k \in i + 1..j - 1 : Starts(k, x)
      BY <2>1, <3>1 DEF UpInOrder
    <3>3. k \in DOMAIN up
      BY <1>u, <3>1
    <3> QED
      BY <2>3, <3>2, <3>3
  <2>6. StageInOrder(x)'
    <3> SUFFICES ASSUME NEW j \in DOMAIN up', stage[x] = "content", Says(j, x, "reasoning")'
                 PROVE  \E k \in 1..j - 1 : Starts(k, x)'
      BY DEF StageInOrder
    <3>1. j \in DOMAIN up /\ Says(j, x, "reasoning")
      BY <2>2
    <3>2. PICK k \in 1..j - 1 : Starts(k, x)
      BY <2>1, <3>1 DEF StageInOrder
    <3>3. k \in DOMAIN up
      BY <1>u, <3>1
    <3> QED
      BY <2>3, <3>2, <3>3
  <2>7. NextInOrder(x)'
    <3> SUFFICES ASSUME MayReason', selected = x
                 PROVE  /\ \A i \in DOMAIN up' : Says(i, x, "content")'
                             => \E k \in i + 1..Len(up') : Starts(k, x)'
                        /\ stage[x] = "content" => \E k \in DOMAIN up' : Starts(k, x)'
      BY DEF NextInOrder
    <3>1. CASE m.op = "start" /\ m.x = x
      <4>1. PICK n \in Nat : n = Len(up) + 1
        BY <1>u
      <4>2. Starts(n, x)' /\ n \in DOMAIN up'
        BY <1>u, <2>4, <3>1, <4>1
      <4>3. ASSUME NEW i \in DOMAIN up', Says(i, x, "content")' PROVE n \in i + 1..Len(up')
        <5>1. i \in DOMAIN up
          BY <2>2, <4>3
        <5> QED
          BY <1>u, <4>1, <5>1
      <4> QED
        BY <4>2, <4>3
    <3>2. CASE ~(m.op = "start" /\ m.x = x)
      <4>1. MayReason /\ selected = x
        BY <3>2
      <4>2. ASSUME NEW i \in DOMAIN up', Says(i, x, "content")'
            PROVE  \E k \in i + 1..Len(up') : Starts(k, x)'
        <5>1. i \in DOMAIN up /\ Says(i, x, "content")
          BY <2>2, <4>2
        <5>2. PICK k \in i + 1..Len(up) : Starts(k, x)
          BY <2>1, <4>1, <5>1 DEF NextInOrder
        <5>3. k \in DOMAIN up /\ k \in i + 1..Len(up')
          BY <1>u, <5>1
        <5> QED
          BY <2>3, <5>2, <5>3
      <4>3. ASSUME stage[x] = "content" PROVE \E k \in DOMAIN up' : Starts(k, x)'
        <5>1. PICK k \in DOMAIN up : Starts(k, x)
          BY <2>1, <4>1, <4>3 DEF NextInOrder
        <5> QED
          BY <1>u, <2>3, <5>1
      <4> QED
        BY <4>2, <4>3
    <3> QED
      BY <3>1, <3>2
  <2> QED
    BY <2>5, <2>6, <2>7
<1>2. ReasoningFirst'
  BY DEF OrderInv, ReasoningFirst
<1> QED
  BY <1>1, <1>2 DEF OrderInv, OffInv

\* Text of the page keeps the order: content locks reasoning, and reasoning goes out
\* only while it may.
LEMMA OrderText ==
  ASSUME TypeInv, OrderInv, NEW m \in Ups, Send(m), m.op = "text", m.x = selected,
         TimerInv', UNCHANGED <<stage, status, refused, selected>>,
         excused \subseteq excused', MayReason' => MayReason,
         selected \in excused' \/ (m.field = "content" /\ ~MayReason')
           \/ (m.field = "reasoning" /\ MayReason)
  PROVE  OrderInv'
<1>u. /\ Len(up) \in Nat /\ DOMAIN up = 1..Len(up) /\ Len(up') = Len(up) + 1
      /\ DOMAIN up' = 1..Len(up) + 1 /\ up'[Len(up) + 1] = m
      /\ \A k \in DOMAIN up : up'[k] = up[k]
  BY Sent, OnTheWay
<1>1. ASSUME NEW x \in Exchanges \ excused'
      PROVE  UpInOrder(x)' /\ StageInOrder(x)' /\ NextInOrder(x)'
  <2>1. UpInOrder(x) /\ StageInOrder(x) /\ NextInOrder(x)
    BY DEF OrderInv
  <2>0. PICK n \in Nat : n = Len(up) + 1
    BY <1>u
  <2>2. ASSUME NEW k \in DOMAIN up', NEW g, Says(k, x, g)'
        PROVE  \/ k \in DOMAIN up /\ Says(k, x, g)
               \/ k = n /\ x = selected /\ g = m.field
    BY <1>u, <2>0, <2>2 DEF Says
  <2>3. \A k \in DOMAIN up : Starts(k, x) => Starts(k, x)'
    BY <1>u DEF Starts
  <2> HIDE DEF Says, Starts, MayReason
  <2>4. x = selected /\ m.field = "reasoning" => MayReason
    OBVIOUS
  <2>5. UpInOrder(x)'
    <3> SUFFICES ASSUME NEW i \in DOMAIN up', NEW j \in DOMAIN up', i < j,
                        Says(i, x, "content")', Says(j, x, "reasoning")'
                 PROVE  \E k \in i + 1..j - 1 : Starts(k, x)'
      BY DEF UpInOrder
    <3>1. i \in DOMAIN up /\ Says(i, x, "content")
      <4>1. i # n
        BY <1>u, <2>0
      <4> QED
        BY <2>2, <4>1
    <3>2. CASE j \in DOMAIN up /\ Says(j, x, "reasoning")
      <4>1. PICK k \in i + 1..j - 1 : Starts(k, x)
        BY <2>1, <3>1, <3>2 DEF UpInOrder
      <4>2. k \in DOMAIN up
        BY <1>u, <3>1, <3>2
      <4> QED
        BY <2>3, <4>1, <4>2
    <3>3. CASE j = n /\ x = selected /\ m.field = "reasoning"
      <4>1. PICK k \in i + 1..Len(up) : Starts(k, x)
        BY <2>1, <2>4, <3>1, <3>3 DEF NextInOrder
      <4>2. k \in DOMAIN up /\ k \in i + 1..j - 1
        BY <1>u, <2>0, <3>1, <3>3
      <4> QED
        BY <2>3, <4>1, <4>2
    <3> QED
      BY <2>2, <3>2, <3>3
  <2>6. StageInOrder(x)'
    <3> SUFFICES ASSUME NEW j \in DOMAIN up', stage[x] = "content", Says(j, x, "reasoning")'
                 PROVE  \E k \in 1..j - 1 : Starts(k, x)'
      BY DEF StageInOrder
    <3>2. CASE j \in DOMAIN up /\ Says(j, x, "reasoning")
      <4>1. PICK k \in 1..j - 1 : Starts(k, x)
        BY <2>1, <3>2 DEF StageInOrder
      <4>2. k \in DOMAIN up
        BY <1>u, <3>2
      <4> QED
        BY <2>3, <4>1, <4>2
    <3>3. CASE j = n /\ x = selected /\ m.field = "reasoning"
      <4>1. PICK k \in DOMAIN up : Starts(k, x)
        BY <2>1, <2>4, <3>3 DEF NextInOrder
      <4>2. k \in 1..j - 1
        BY <1>u, <2>0, <3>3
      <4> QED
        BY <2>3, <4>1, <4>2
    <3> QED
      BY <2>2, <3>2, <3>3
  <2>7. NextInOrder(x)'
    <3> SUFFICES ASSUME MayReason', selected = x
                 PROVE  /\ \A i \in DOMAIN up' : Says(i, x, "content")'
                             => \E k \in i + 1..Len(up') : Starts(k, x)'
                        /\ stage[x] = "content" => \E k \in DOMAIN up' : Starts(k, x)'
      BY DEF NextInOrder
    <3>1. MayReason /\ m.field # "content"
      OBVIOUS
    <3>2. ASSUME NEW i \in DOMAIN up', Says(i, x, "content")'
          PROVE  \E k \in i + 1..Len(up') : Starts(k, x)'
      <4>1. i \in DOMAIN up /\ Says(i, x, "content")
        BY <2>2, <3>1, <3>2
      <4>2. PICK k \in i + 1..Len(up) : Starts(k, x)
        BY <2>1, <3>1, <4>1 DEF NextInOrder
      <4>3. k \in DOMAIN up /\ k \in i + 1..Len(up')
        BY <1>u, <4>1
      <4> QED
        BY <2>3, <4>2, <4>3
    <3>3. ASSUME stage[x] = "content" PROVE \E k \in DOMAIN up' : Starts(k, x)'
      <4>1. PICK k \in DOMAIN up : Starts(k, x)
        BY <2>1, <3>1, <3>3 DEF NextInOrder
      <4> QED
        BY <1>u, <2>3, <4>1
    <3> QED
      BY <3>2, <3>3
  <2> QED
    BY <2>5, <2>6, <2>7
<1>2. ReasoningFirst'
  BY DEF OrderInv, ReasoningFirst
<1> QED
  BY <1>1, <1>2 DEF OrderInv, OffInv

\* The server takes the first message.
LEMMA OrderServed ==
  ASSUME TypeInv, PageInv, OrderInv, ServeUp
  PROVE  OrderInv'
<1>u. /\ Len(up) \in Nat /\ DOMAIN up = 1..Len(up) /\ 1 \in DOMAIN up
      /\ up[1] \in Ups /\ up[1].x \in Exchanges
      /\ Len(up') = Len(up) - 1 /\ DOMAIN up' = 1..Len(up) - 1
      /\ \A k \in 1..Len(up) - 1 : up'[k] = up[k + 1]
  BY OnTheWay, UpServed, ServeUpCases
<1> DEFINE y == up[1].x
<1>v. /\ UNCHANGED <<selected, composer, live, timers>>
      /\ ServeStart(up[1]) \/ ServeText(up[1]) \/ ServeTools(up[1]) \/ ServeFinish(up[1])
  BY ServeUpCases DEF page, view, mode
<1>m. MayReason' <=> MayReason
  BY <1>v DEF MayReason
<1>s. /\ status \in [Exchanges -> Statuses] /\ stage \in [Exchanges -> Stages]
      /\ OffInv /\ ReasoningFirst
  BY DEF TypeInv, OrderInv
<1>1. TimerInv'
  BY <1>v DEF TimerInv, OrderInv
<1>2. OffInv'
  BY <1>u, <1>v, <1>s DEF OffInv, ServeStart, ServeText, ServeTools, ServeFinish
<1>e. excused \subseteq excused'
  BY <1>v DEF ServeStart, ServeText, ServeTools, ServeFinish
\* A start that is served or refused is not missed by the messages behind it.
<1>3. ASSUME NEW x \in Exchanges \ excused', Starts(1, x) PROVE stage'[x] = "role"
  BY <1>u, <1>v, <1>s, <1>3 DEF Starts, ServeStart, ServeText, ServeTools, ServeFinish
<1>4. ASSUME NEW x \in Exchanges \ excused', stage'[x] = "content"
      PROVE  stage[x] = "content" \/ Says(1, x, "content")
  BY <1>u, <1>v, <1>s, <1>4 DEF Says, ServeStart, ServeText, ServeTools, ServeFinish
<1>5. ASSUME NEW x \in Exchanges \ excused'
      PROVE  UpInOrder(x)' /\ StageInOrder(x)' /\ NextInOrder(x)'
  <2>1. UpInOrder(x) /\ StageInOrder(x) /\ NextInOrder(x)
    BY <1>e DEF OrderInv
  <2>2. \A k \in DOMAIN up' : \A g : Says(k, x, g)' => k + 1 \in DOMAIN up /\ Says(k + 1, x, g)
    BY <1>u DEF Says
  <2>3. \A k \in DOMAIN up' : Starts(k + 1, x) => Starts(k, x)'
    BY <1>u DEF Starts
  <2> HIDE DEF Says, Starts, MayReason
  <2>5. UpInOrder(x)'
    <3> SUFFICES ASSUME NEW i \in DOMAIN up', NEW j \in DOMAIN up', i < j,
                        Says(i, x, "content")', Says(j, x, "reasoning")'
                 PROVE  \E k \in i + 1..j - 1 : Starts(k, x)'
      BY DEF UpInOrder
    <3>1. /\ i + 1 \in DOMAIN up /\ Says(i + 1, x, "content")
          /\ j + 1 \in DOMAIN up /\ Says(j + 1, x, "reasoning") /\ i + 1 < j + 1
      BY <1>u, <2>2
    <3>2. PICK k \in (i + 1) + 1..(j + 1) - 1 : Starts(k, x)
      BY <2>1, <3>1 DEF UpInOrder
    <3>3. k - 1 \in DOMAIN up' /\ k - 1 \in i + 1..j - 1 /\ (k - 1) + 1 = k
      BY <1>u, <3>1
    <3> QED
      BY <2>3, <3>2, <3>3
  <2>6. StageInOrder(x)'
    <3> SUFFICES ASSUME NEW j \in DOMAIN up', stage'[x] = "content", Says(j, x, "reasoning")'
                 PROVE  \E k \in 1..j - 1 : Starts(k, x)'
      BY DEF StageInOrder
    <3>1. j + 1 \in DOMAIN up /\ Says(j + 1, x, "reasoning") /\ 1 < j + 1
      BY <1>u, <2>2
    <3>2. \E k \in 2..(j + 1) - 1 : Starts(k, x)
      <4>1. CASE stage[x] = "content"
        <5>1. PICK k \in 1..(j + 1) - 1 : Starts(k, x)
          BY <2>1, <3>1, <4>1 DEF StageInOrder
        <5>2. k # 1
          BY <1>3, <5>1
        <5> QED
          BY <1>u, <5>1, <5>2
      <4>2. CASE Says(1, x, "content")
        <5>1. \E k \in 1 + 1..(j + 1) - 1 : Starts(k, x)
          BY <1>u, <2>1, <3>1, <4>2 DEF UpInOrder
        <5> QED
          BY <5>1
      <4> QED
        BY <1>4, <4>1, <4>2
    <3>3. PICK k \in 2..(j + 1) - 1 : Starts(k, x)
      BY <3>2
    <3>4. k - 1 \in DOMAIN up' /\ k - 1 \in 1..j - 1 /\ (k - 1) + 1 = k
      BY <1>u, <3>1
    <3> QED
      BY <2>3, <3>3, <3>4
  <2>7. NextInOrder(x)'
    <3> SUFFICES ASSUME MayReason', selected' = x
                 PROVE  /\ \A i \in DOMAIN up' : Says(i, x, "content")'
                             => \E k \in i + 1..Len(up') : Starts(k, x)'
                        /\ stage'[x] = "content" => \E k \in DOMAIN up' : Starts(k, x)'
      BY DEF NextInOrder
    <3>1. MayReason /\ selected = x
      BY <1>m, <1>v
    <3>2. ASSUME NEW i \in DOMAIN up', Says(i, x, "content")'
          PROVE  \E k \in i + 1..Len(up') : Starts(k, x)'
      <4>1. i + 1 \in DOMAIN up /\ Says(i + 1, x, "content")
        BY <2>2, <3>2
      <4>2. PICK k \in (i + 1) + 1..Len(up) : Starts(k, x)
        BY <2>1, <3>1, <4>1 DEF NextInOrder
      <4>3. k - 1 \in DOMAIN up' /\ k - 1 \in i + 1..Len(up') /\ (k - 1) + 1 = k
        BY <1>u, <4>1
      <4> QED
        BY <2>3, <4>2, <4>3
    <3>3. ASSUME stage'[x] = "content" PROVE \E k \in DOMAIN up' : Starts(k, x)'
      <4>1. \E k \in 2..Len(up) : Starts(k, x)
        <5>1. CASE stage[x] = "content"
          <6>1. PICK k \in DOMAIN up : Starts(k, x)
            BY <2>1, <3>1, <5>1 DEF NextInOrder
          <6>2. k # 1
            BY <1>3, <3>3, <6>1
          <6> QED
            BY <1>u, <6>1, <6>2
        <5>2. CASE Says(1, x, "content")
          <6>1. \E k \in 1 + 1..Len(up) : Starts(k, x)
            BY <1>u, <2>1, <3>1, <5>2 DEF NextInOrder
          <6> QED
            BY <6>1
        <5> QED
          BY <1>4, <3>3, <5>1, <5>2
      <4>2. PICK k \in 2..Len(up) : Starts(k, x)
        BY <4>1
      <4>3. k - 1 \in DOMAIN up' /\ (k - 1) + 1 = k
        BY <1>u
      <4> QED
        BY <2>3, <4>2, <4>3
    <3> QED
      BY <3>2, <3>3
  <2> QED
    BY <2>5, <2>6, <2>7
\* Reasoning refused behind content was behind a start that was refused.
<1>6. ReasoningFirst'
  <2>1. ASSUME NEW r \in refused' \ refused, r.field = "reasoning", r.stage = "content"
        PROVE  r.x \in excused'
    <3>1. /\ up[1].op = "text" /\ excused' = excused
          /\ r = [x |-> y, field |-> up[1].field, stage |-> stage[y]]
      BY <1>v, <2>1 DEF ServeStart, ServeText, ServeTools, ServeFinish
    <3>2. Says(1, y, "reasoning") /\ stage[y] = "content" /\ r.x = y
      BY <2>1, <3>1 DEF Says
    <3>3. ~StageInOrder(y)
      <4>1. ~\E k \in 1..1 - 1 : Starts(k, y)
        OBVIOUS
      <4> QED
        BY <1>u, <3>2, <4>1 DEF StageInOrder
    <3> QED
      BY <1>u, <3>1, <3>2, <3>3 DEF OrderInv
  <2> QED
    BY <1>e, <1>s, <2>1 DEF ReasoningFirst
<1> QED
  BY <1>1, <1>2, <1>5, <1>6 DEF OrderInv

LEMMA Running ==
  ASSUME TypeInv
  PROVE  /\ Len(timers) \in Nat /\ DOMAIN timers = 1..Len(timers)
         /\ timers # <<>> => Len(timers) > 0
BY EmptySeq, LenProperties DEF TypeInv

\* The one timer of this live mode is set again by a keystroke.
LEMMA TimerSet ==
  ASSUME TypeInv, TimerInv, NEW f \in Fields, LiveType(f)
  PROVE  /\ TimerInv' /\ live'.on = live.on
         /\ live'.pending /\ timers'[Len(timers')].field = f
<1> DEFINE base == IF live.pending THEN Front(timers) ELSE timers
           n == Len(base)
<1>1. /\ live.on /\ timers' = Append(base, Timer(f)) /\ live' = [live EXCEPT !.pending = TRUE]
  BY DEF LiveType
<1>2. live'.on = live.on /\ live'.pending
  BY <1>1 DEF TypeInv
<1>3. /\ base \in Seq(Timers)
      /\ \A k \in 1..n : base[k].stray
  <2>1. CASE live.pending
    <3>1. Len(timers) \in Nat \ {0} /\ \A k \in 1..Len(timers) - 1 : timers[k] \in Timers
      BY <2>1, Running, ElementOfSeq DEF TypeInv, TimerInv
    <3>2. Len(timers) - 1 \in Int
      BY <3>1
    <3>3. /\ Front(timers) \in Seq(Timers) /\ Len(Front(timers)) = Len(timers) - 1
          /\ \A k \in 1..Len(timers) - 1 : Front(timers)[k] = timers[k]
      <4> DEFINE l == Len(timers) - 1
      <4>1. /\ SubSeq(timers, 1, l) \in Seq(Timers)
            /\ Len(SubSeq(timers, 1, l)) = IF 1 <= l THEN l - 1 + 1 ELSE 0
            /\ \A k \in 1..l - 1 + 1 : SubSeq(timers, 1, l)[k] = timers[1 + k - 1]
        <5>1. l \in Int /\ \A k \in 1..l : timers[k] \in Timers
          BY <3>1, <3>2
        <5> HIDE DEF l
        <5> QED
          BY <5>1, SubSeqProperties
      <4>2. /\ l \in Nat /\ l - 1 + 1 = l /\ (IF 1 <= l THEN l ELSE 0) = l
            /\ \A k \in 1..l : 1 + k - 1 = k
        <5>1. l \in Nat
          BY <3>1
        <5> HIDE DEF l
        <5> QED
          BY <5>1
      <4>3. Front(timers) = SubSeq(timers, 1, l)
        BY DEF Front
      <4> HIDE DEF l
      <4>4. /\ Front(timers) \in Seq(Timers) /\ Len(Front(timers)) = l
            /\ \A k \in 1..l : Front(timers)[k] = timers[k]
        BY <4>1, <4>2, <4>3
      <4> QED
        BY <4>4 DEF l
    <3>4. \A k \in 1..Len(timers) - 1 : timers[k].stray
      BY <3>1, Running DEF TimerInv
    <3> QED
      BY <2>1, <3>3, <3>4
  <2>2. CASE ~live.pending
    BY <2>2, Running DEF TypeInv, TimerInv
  <2> QED
    BY <2>1, <2>2
<1>4. Timer(f) \in Timers /\ Timer(f).field = f /\ ~Timer(f).stray
  BY DEF Timer, Timers
<1> HIDE DEF base
<1>5. /\ timers' \in Seq(Timers) /\ timers' # <<>> /\ Len(timers') = n + 1
      /\ \A k \in 1..n : timers'[k] = base[k]
      /\ timers'[n + 1] = Timer(f)
  BY <1>1, <1>3, <1>4, AppendProperties
<1>6. n \in Nat /\ DOMAIN timers' = 1..n + 1
  BY <1>3, <1>5, LenProperties
<1>7. TimerInv'
  <2>1. ASSUME NEW k \in DOMAIN timers'
        PROVE  timers'[k].stray <=> ~(live'.pending /\ k = Len(timers'))
    <3>1. CASE k = n + 1
      BY <1>2, <1>4, <1>5, <3>1
    <3>2. CASE k # n + 1
      <4>1. k \in 1..n
        BY <1>6, <3>2
      <4>2. timers'[k].stray
        BY <1>3, <1>5, <4>1
      <4> QED
        BY <1>5, <3>2, <4>2
    <3> QED
      BY <3>1, <3>2
  <2> QED
    BY <1>1, <1>2, <1>5, <2>1 DEF TimerInv
<1> QED
  BY <1>2, <1>4, <1>5, <1>7

\* Leaving live mode makes its timer one left over.
LEMMA TimerLeft ==
  ASSUME TypeInv, Leave
  PROVE  TimerInv' /\ ~live'.on
<1>1. /\ timers' \in Seq(Timers) /\ Len(timers') = Len(timers) /\ live' = NoLive
      /\ \A k \in DOMAIN timers : timers'[k].stray
  BY StrayType
<1>2. DOMAIN timers' = DOMAIN timers
  BY <1>1, Running, LenProperties
<1> QED
  BY <1>1, <1>2 DEF TimerInv, NoLive

\* The timer that fires is the last one unless it is left over.
LEMMA TimerFired ==
  ASSUME TypeInv, PageInv, TimerInv, Flush
  PROVE  /\ TimerInv'
         /\ ~timers[1].stray => live.pending /\ ~live'.pending /\ Len(timers) = 1
         /\ live'.pending => live.pending /\ timers'[Len(timers')] = timers[Len(timers)]
<1>1. /\ timers # <<>> /\ timers' = Tail(timers) /\ live'.on = live.on
      /\ (live'.pending <=> live.pending /\ Len(timers) > 1)
  BY Flushed
<1>2. /\ timers \in Seq(Timers) /\ Len(timers) \in Nat /\ Len(timers) > 0
      /\ DOMAIN timers = 1..Len(timers)
  BY <1>1, Running DEF TypeInv
<1>3. /\ timers' \in Seq(Timers) /\ Len(timers') = Len(timers) - 1
      /\ \A k \in 1..Len(timers') : timers'[k] = timers[k + 1]
  BY <1>1, <1>2, HeadTailProperties
<1>4. DOMAIN timers' = 1..Len(timers) - 1
  BY <1>3, LenProperties
<1>5. ASSUME NEW k \in DOMAIN timers'
      PROVE  timers'[k].stray <=> ~(live'.pending /\ k = Len(timers'))
  <2>1. k + 1 \in DOMAIN timers /\ timers'[k] = timers[k + 1] /\ Len(timers) > 1
    BY <1>2, <1>3, <1>4
  <2>2. timers[k + 1].stray <=> ~(live.pending /\ k + 1 = Len(timers))
    BY <2>1 DEF TimerInv
  <2> QED
    BY <1>1, <1>2, <1>3, <1>4, <2>1, <2>2
<1>6. live'.pending => timers' # <<>>
  <2>1. live'.pending => Len(timers') > 0
    BY <1>1, <1>2, <1>3
  <2> QED
    BY <2>1, EmptySeq
<1>7. TimerInv'
  BY <1>1, <1>5, <1>6 DEF TimerInv
<1>8. timers[1].stray <=> ~(live.pending /\ 1 = Len(timers))
  BY <1>2 DEF TimerInv
<1>9. live'.pending => timers'[Len(timers')] = timers[Len(timers)]
  BY <1>1, <1>2, <1>3
<1> QED
  BY <1>1, <1>7, <1>8, <1>9

LEMMA OrderNext == TypeInv /\ PageInv /\ OrderInv /\ Next => OrderInv'
<1> SUFFICES ASSUME TypeInv, PageInv, OrderInv, Next PROVE OrderInv'
  OBVIOUS
<1>o. TimerInv /\ OffInv
  BY DEF OrderInv
<1>t. UNCHANGED mode => TimerInv'
  BY <1>o DEF TimerInv, mode
<1>f. UNCHANGED <<status, stage>> => OffInv'
  BY <1>o DEF OffInv
<1>r. UNCHANGED <<live, timers, selected>> /\ composer'.locked = composer.locked
        => (MayReason' => MayReason) /\ selected' = selected
  BY DEF MayReason
<1>k. ASSUME UNCHANGED <<up, refused, excused, status, stage>>, TimerInv',
             MayReason' => MayReason /\ selected' = selected
      PROVE  OrderInv'
  BY <1>k, <1>f, OrderKept
<1>1. ASSUME NEW x \in Exchanges, End(x) PROVE OrderInv'
  <2>1. /\ UNCHANGED <<up, refused, excused, live, timers, selected, composer>>
        /\ status' = [status EXCEPT ![x] = "ended"] /\ stage' = [stage EXCEPT ![x] = "off"]
    BY <1>1 DEF End, page, view, mode, notes
  <2>2. OffInv'
    BY <1>o, <2>1 DEF OffInv, TypeInv
  <2>3. \A z \in Exchanges : stage'[z] = "content" => stage[z] = "content"
    BY <2>1 DEF TypeInv
  <2> QED
    BY <1>t, <1>r, <2>1, <2>2, <2>3, OrderKept DEF mode
<1>2. ASSUME NEW x \in Exchanges, Click(x) PROVE OrderInv'
  BY <1>2, <1>k, <1>t, <1>r DEF Click, server, view, mode, notes
<1>3. ASSUME NEW f \in Fields, Type(f) PROVE OrderInv'
  <2>1. composer'.locked = composer.locked
    BY <1>3 DEF Type, Typed, TypeInv
  <2> QED
    BY <1>3, <1>k, <1>t, <1>r, <2>1 DEF Type, Typed, server, mode, net
<1>4. ASSUME NEW f \in Fields, LiveType(f) PROVE OrderInv'
  <2>1. /\ composer'.locked = composer.locked /\ f \notin composer.locked /\ live.on
        /\ UNCHANGED <<up, refused, excused, status, stage, selected>>
    BY <1>4 DEF LiveType, Typed, CanType, TypeInv, server, net
  <2>2. /\ TimerInv' /\ live'.on = live.on
        /\ live'.pending /\ timers'[Len(timers')].field = f
    BY <1>4, <1>o, TimerSet
  <2>3. MayReason' => MayReason
    BY <2>1, <2>2 DEF MayReason
  <2> QED
    BY <1>k, <2>1, <2>2, <2>3
<1>5. ASSUME NEW f \in Fields, EditSent(f) PROVE OrderInv'
  <2>1. composer'.locked = composer.locked
    BY <1>5 DEF EditSent, TypeInv
  <2> QED
    BY <1>5, <1>k, <1>t, <1>r, <2>1 DEF EditSent, server, mode, net, notes
<1>6. ASSUME SaveClick PROVE OrderInv'
  BY <1>6, <1>k, <1>t, <1>r DEF SaveClick, server, mode, notes
<1>7. ASSUME Submit PROVE OrderInv'
  BY <1>7, <1>k, <1>t, <1>r DEF Submit, server, mode
<1>8. ASSUME LiveStart PROVE OrderInv'
  <2>1. /\ [op |-> "start", x |-> selected] \in Ups /\ Send([op |-> "start", x |-> selected])
        /\ UNCHANGED <<stage, status, refused, excused, selected, timers>>
        /\ ~live'.pending
    BY <1>8, OnPage DEF Ups, LiveStart, server, notes
  <2>2. TimerInv'
    <3>1. ~live.pending
      BY <1>8, <1>o DEF LiveStart, PageInv, TimerInv
    <3> QED
      BY <1>o, <2>1, <3>1 DEF TimerInv
  <2> DEFINE m == [op |-> "start", x |-> selected]
  <2>3. m.op = "start" /\ m.x = selected /\ m \in Ups /\ Send(m)
    BY <2>1
  <2> HIDE DEF m
  <2> QED
    BY <2>1, <2>2, <2>3, OrderSent
<1>9. ASSUME ToolCall PROVE OrderInv'
  <2> DEFINE m == [op |-> "tools", x |-> selected]
  <2>1. m.op # "text" /\ m \in Ups /\ Send(m)
    BY <1>9, OnPage DEF Ups, ToolCall
  <2>2. /\ UNCHANGED <<stage, status, refused, excused, selected, live, timers>>
        /\ composer'.locked = Fields
    BY <1>9 DEF ToolCall, server, mode, notes, TypeInv
  <2>3. MayReason' => MayReason
    BY <2>2 DEF MayReason, Fields
  <2> HIDE DEF m
  <2> QED
    BY <1>t, <2>1, <2>2, <2>3, OrderSent DEF mode
<1>10. ASSUME LiveFinish PROVE OrderInv'
  <2> DEFINE m == [op |-> "finish", x |-> selected]
  <2>1. m.op # "text" /\ m \in Ups /\ Send(m)
    BY <1>10, OnPage DEF Ups, LiveFinish
  <2>2. UNCHANGED <<stage, status, refused, excused, selected, composer, live, timers>>
    BY <1>10 DEF LiveFinish, server, view, mode, notes
  <2> HIDE DEF m
  <2> QED
    BY <1>t, <1>r, <2>1, <2>2, OrderSent DEF mode
<1>11. ASSUME NEW i \in DOMAIN flight, ServeSelect(i) PROVE OrderInv'
  BY <1>11, <1>k, <1>t, <1>r DEF ServeSelect, server, page, view, mode, notes
<1>12. ASSUME NEW i \in DOMAIN flight, ServeValidate(i) PROVE OrderInv'
  BY <1>12, <1>k, <1>t, <1>r DEF ServeValidate, server, page, view, mode, notes
<1>13. ASSUME NEW i \in DOMAIN flight, ServeSave(i) PROVE OrderInv'
  BY <1>13, <1>k, <1>t, <1>r DEF ServeSave, page, view, mode
<1>14. ASSUME NEW i \in DOMAIN flight, ServeSubmit(i) PROVE OrderInv'
  <2>1. /\ UNCHANGED <<up, stage, refused, excused, live, timers, selected, composer>>
        /\ UNCHANGED status \/ status' = [status EXCEPT ![flight[i].x] = "active"]
    BY <1>14 DEF ServeSubmit, page, view, mode, notes
  <2>2. OffInv'
    BY <1>o, <2>1, InFlight DEF OffInv, TypeInv
  <2> QED
    BY <1>t, <1>r, <2>1, <2>2, OrderKept DEF mode
<1>15. ASSUME NEW i \in DOMAIN flight, SelectAnswered(i) PROVE OrderInv'
  <2>1. Leave /\ UNCHANGED <<up, refused, excused, status, stage>>
    BY <1>15 DEF SelectAnswered, Load, server
  <2> QED
    BY <1>k, <2>1, TimerLeft DEF MayReason
<1>16. ASSUME NEW i \in DOMAIN flight, ValidateAnswered(i) PROVE OrderInv'
  BY <1>16, <1>k, <1>t, <1>r DEF ValidateAnswered, server, page, view, mode, notes
<1>17. ASSUME SaveTimer PROVE OrderInv'
  BY <1>17, <1>k, <1>t, <1>r DEF SaveTimer, server, mode, notes
<1>18. ASSUME Flush PROVE OrderInv'
  <2> DEFINE f     == timers[1].field
             sends == live.on /\ composer.text[f] > live[f]
             m     == [op |-> "text", x |-> selected, field |-> f, of |-> composer.text.of]
  <2>1. /\ f \in Fields
        /\ IF sends THEN m \in Ups /\ Send(m) ELSE up' = up
        /\ live'.on = live.on
        /\ composer'.locked = IF sends /\ f = "content"
                                THEN composer.locked \cup {"reasoning"} ELSE composer.locked
        /\ excused' = IF sends /\ timers[1].stray THEN excused \cup {selected} ELSE excused
        /\ UNCHANGED <<status, stage, refused, selected>>
    BY <1>18, Flushed DEF server
  <2>2. /\ TimerInv'
        /\ ~timers[1].stray => live.pending /\ ~live'.pending /\ Len(timers) = 1
        /\ live'.pending => live.pending /\ timers'[Len(timers')] = timers[Len(timers)]
    BY <1>18, <1>o, TimerFired
  <2>3. MayReason' => MayReason
    BY <2>1, <2>2 DEF MayReason
  <2>4. CASE sends
    <3>1. m \in Ups /\ Send(m) /\ m.op = "text" /\ m.x = selected /\ m.field = f
      BY <2>1, <2>4
    <3>2. excused \subseteq excused' /\ (timers[1].stray => selected \in excused')
      BY <2>1, <2>4
    <3>3. f = "content" /\ ~timers[1].stray => ~MayReason'
      BY <2>1, <2>2, <2>4 DEF MayReason
    <3>4. f = "reasoning" /\ ~timers[1].stray => MayReason
      BY <2>2, <2>4 DEF MayReason
    <3>5. f = "content" \/ f = "reasoning"
      BY <2>1 DEF Fields
    <3> HIDE DEF m, f, sends
    <3> QED
      BY <2>1, <2>2, <2>3, <3>1, <3>2, <3>3, <3>4, <3>5, OrderText
  <2>5. CASE ~sends
    BY <1>k, <2>1, <2>2, <2>3, <2>5
  <2> QED
    BY <2>4, <2>5
<1>19. ASSUME ServeUp PROVE OrderInv'
  BY <1>19, OrderServed
<1>20. ASSUME OnAck PROVE OrderInv'
  <2>1. Leave /\ UNCHANGED <<up, refused, excused, status, stage>>
    BY <1>20 DEF OnAck, server, notes
  <2> QED
    BY <1>k, <2>1, TimerLeft DEF MayReason
<1>21. ASSUME OnTerminal PROVE OrderInv'
  BY <1>21, <1>k, <1>t, <1>r DEF OnTerminal, server, page, view, mode, notes
<1> QED
  BY <1>1, <1>2, <1>3, <1>4, <1>5, <1>6, <1>7, <1>8, <1>9, <1>10, <1>11, <1>12, <1>13,
     <1>14, <1>15, <1>16, <1>17, <1>18, <1>19, <1>20, <1>21
  DEF Next, Operator, Requests

-----------------------------------------------------------------------------
(* The invariant and what it says                                           *)

\* The page's invariant: types, what the page shows, and the four arguments.
THEOREM InvAlways == Spec => []IInv
<1>1. Init => IInv
  BY TypeInit, PageInit, OwnInit, EndInit, OrderInit, SavedInit DEF IInv
<1>2. IInv /\ [Next]_vars => IInv'
  <2> SUFFICES ASSUME IInv, [Next]_vars PROVE IInv'
    OBVIOUS
  <2>1. CASE Next
    BY <2>1, TypeNext, PageNext, OwnNext, EndNext, OrderNext, SavedNext DEF IInv
  <2>2. CASE UNCHANGED vars
    <3>1. TypeInv' /\ PageInv' /\ OwnInv'
      BY <2>2 DEF vars, server, page, view, mode, net, notes, IInv, TypeInv, PageInv, OwnInv,
                  OwnText
    <3>2. EndInv'
      BY <2>2 DEF vars, server, page, view, mode, net, notes, IInv, EndInv, Announcing, Loading
    <3>3. OrderInv'
      <4>1. TimerInv' /\ OffInv' /\ UNCHANGED <<up, refused, excused, stage, selected>>
            /\ (MayReason' => MayReason)
        BY <2>2 DEF vars, server, page, view, mode, net, notes, IInv, OrderInv, TimerInv,
                    OffInv, MayReason
      <4> QED
        BY <4>1, OrderKept DEF IInv
    <3>4. SavedInv'
      <4>1. UNCHANGED <<selected, shown, live, status, draft, composer, autosave, lapsed, up, flight>>
        BY <2>2 DEF vars, server, page, view, mode, net, notes
      <4>2. SavesOf(selected)' = SavesOf(selected) /\ (Starting(selected)' <=> Starting(selected))
        BY <4>1 DEF SavesOf, Starting, Starts
      <4> QED
        BY <4>1, <4>2 DEF IInv, SavedInv, ToKeep, LastSave
    <3> QED
      BY <3>1, <3>2, <3>3, <3>4 DEF IInv
  <2> QED
    BY <2>1, <2>2
<1> QED
  BY <1>1, <1>2, PTL DEF Spec

\* saveDraft() and liveFlush() take the exchange from S.selected and the text from
\* the composer: however loads, saves and clicks cross, what is saved or relayed
\* live for an exchange was typed for it.
THEOREM OwnTextAlways == Spec => []OwnText
<1>1. IInv => OwnText
  BY DEF IInv, OwnInv
<1> QED
  BY <1>1, InvAlways, PTL

\* liveInput() keeps one timer for both fields and locks reasoning when content is
\* sent: the server never has to refuse reasoning for coming after content, but for
\* the excused cases.
THEOREM ReasoningFirstAlways == Spec => []ReasoningFirst
<1>1. IInv => ReasoningFirst
  BY DEF IInv, OrderInv
<1> QED
  BY <1>1, InvAlways, PTL

\* onSummary() reloads the exchange shown when its end is announced: at rest, an
\* ended exchange is shown as ended.
THEOREM EndShownAlways == Spec => []EndShown
<1>1. IInv => EndShown
  BY DEF IInv, EndInv, EndShown, AtRest, Announcing, Loading
<1> QED
  BY <1>1, InvAlways, PTL

\* markDirty() starts the timer again at each keystroke, and saveDraft() takes the
\* text of then: at rest, the server's draft of a pending exchange is the text shown.
THEOREM AutoSavedAlways == Spec => []AutoSaved
<1>1. IInv => AutoSaved
  <2> SUFFICES ASSUME IInv, AtRest, ~autosave, ~lapsed, composer.visible, shown = "pending",
                      status[selected] = "pending"
               PROVE  draft[selected] = composer.text
    BY DEF AutoSaved
  <2>1. DOMAIN up = {} /\ DOMAIN flight = {}
    BY DEF AtRest
  <2>2. ~Starting(selected) /\ SavesOf(selected) = {}
    BY <2>1 DEF Starting, SavesOf
  <2> QED
    BY <2>2 DEF IInv, SavedInv, ToKeep
<1> QED
  BY <1>1, InvAlways, PTL

=============================================================================
