------------------------------ MODULE Console -------------------------------
(***************************************************************************)
(* The operator's page (static/console.js): selecting an exchange, editing *)
(* its draft with autosave, submitting it, and live mode.  The page's      *)
(* handlers run one at a time; between them its requests are served and    *)
(* answered in any order, and its WebSocket keeps the order of messages.   *)
(*                                                                         *)
(* The exchanges are streaming ones the server has accepted.  A field's    *)
(* text is its length, with the exchange it was typed for; the server is   *)
(* the part of state.py the page meets.                                    *)
(***************************************************************************)
EXTENDS Naturals, SequencesExt

CONSTANTS
  Exchanges,
  Nobody,       \* no exchange is selected
  GestureBound, \* bound: clicks and keystrokes
  FlightBound,  \* bound: requests in flight
  WireBound     \* bound: messages on the WebSocket, each way

ASSUME NobodyAssumption == Nobody \notin Exchanges
ASSUME BoundsAssumption == {GestureBound, FlightBound, WireBound} \subseteq Nat

VARIABLES
  \* the server
  status,    \* "pending", "active", "ended"
  stage,     \* rt.live: "off" or the stage it has reached
  draft,     \* the drafts table
  refused,   \* history: the live texts refused for the stage reached
  \* the page
  selected,  \* S.selected
  shown,     \* S.detail.summary.status
  composer,  \* whether it is shown, the fields' text, the read-only fields
  armed,     \* the submit and live buttons are enabled
  autosave,  \* S.draftTimer is running
  live,      \* S.live: whether it is set, what was sent, its timer is pending
  timers,    \* the 350 ms timers running, in the order they fire
  gestures,  \* the operator's clicks and keystrokes so far
  \* between them
  flight,    \* the HTTP requests in flight
  up, down,  \* the WebSocket's messages
  \* history
  lapsed,    \* the page gave up saving an edit, or saves crossed
  excused,   \* exchanges whose live_start was refused, or whose text a timer
             \* left over from an earlier live mode has sent
  overtaken  \* exchanges whose end was announced before an older answer came in

server == <<status, stage, draft, refused>>
mode   == <<live, timers>>
view   == <<selected, shown, composer, armed, autosave, mode>>
page   == <<view, gestures>>
net    == <<flight, up, down>>
notes  == <<lapsed, excused, overtaken>>
vars   == <<server, page, net, notes>>

Fields == {"reasoning", "content"}

\* _LIVE_STAGES
StageRank == [role |-> 0, reasoning |-> 1, content |-> 2, tools |-> 3]

Text(x) == [of |-> x, reasoning |-> 0, content |-> 0]
NoLive  == [on |-> FALSE, reasoning |-> 0, content |-> 0, pending |-> FALSE]

Init ==
  /\ status = [x \in Exchanges |-> "pending"] /\ stage = [x \in Exchanges |-> "off"]
  /\ draft = [x \in Exchanges |-> Text(x)] /\ refused = {}
  /\ selected = Nobody /\ shown = "none"
  /\ composer = [visible |-> FALSE, text |-> Text(Nobody), locked |-> {}]
  /\ armed = FALSE /\ autosave = FALSE /\ gestures = 0
  /\ live = NoLive /\ timers = <<>>
  /\ flight = <<>> /\ up = <<>> /\ down = <<>>
  /\ lapsed = FALSE /\ excused = {} /\ overtaken = {}

-----------------------------------------------------------------------------
(* The exchanges                                                            *)

\* An exchange ends by itself: the stream is over, cut, or its client is gone.
End(x) ==
  /\ status[x] # "ended" /\ Len(down) < WireBound
  /\ status' = [status EXCEPT ![x] = "ended"]
  /\ stage' = [stage EXCEPT ![x] = "off"]
  /\ down' = Append(down, [op |-> "terminal", x |-> x])
  /\ UNCHANGED <<draft, refused, page, flight, up, notes>>

-----------------------------------------------------------------------------
(* select(): the page loads an exchange                                     *)

Request(op, x) == [op |-> op, x |-> x, answer |-> "none", text |-> Text(x), checked |-> x]

Ask(r) == Len(flight) < FlightBound /\ flight' = Append(flight, r)

Gesture == gestures < GestureBound /\ gestures' = gestures + 1

Click(x) ==
  /\ Gesture
  /\ Ask(Request("select", x))
  /\ UNCHANGED <<server, view, up, down, notes>>

Announced(x) == status[x] = "ended" /\ \A k \in DOMAIN down : down[k] # [op |-> "terminal", x |-> x]

SavesOf(x) == {k \in DOMAIN flight : flight[k].op = "save" /\ flight[k].x = x}

\* liveStop(): its timer keeps running.
Leave ==
  /\ live' = NoLive
  /\ timers' = [k \in DOMAIN timers |-> [timers[k] EXCEPT !.stray = TRUE]]

\* The answer replaces the page, whatever was selected since.
Load(x, st, text) ==
  /\ selected' = x /\ shown' = st
  /\ composer' = IF st = "ended" THEN [composer EXCEPT !.visible = FALSE]
                  ELSE [visible |-> TRUE, text |-> text, locked |-> {}]
  /\ armed' = (st = "pending")
  /\ Leave
  /\ lapsed' = (text # draft[x] \/ SavesOf(x) # {})
  /\ overtaken' = IF st # "ended" /\ Announced(x) THEN overtaken \cup {x} ELSE overtaken
  /\ UNCHANGED <<autosave, gestures, excused>>

-----------------------------------------------------------------------------
(* The composer and its autosave                                            *)

CanType(f) == composer.visible /\ f \notin composer.locked

Typed(f) ==
  /\ Gesture /\ CanType(f)
  /\ composer' = [composer EXCEPT !.text[f] = @ + 1]
  /\ UNCHANGED <<server, selected, shown, armed, net, excused, overtaken>>

\* Fault: a keystroke does not start the timer again while a save is under way.
TypeOnce(f) ==
  /\ ~live.on
  /\ Typed(f)
  /\ autosave' = (SavesOf(selected) = {}) /\ lapsed' = FALSE
  /\ UNCHANGED mode

\* markDirty()
Type(f) ==
  /\ ~live.on
  /\ Typed(f)
  /\ autosave' = TRUE /\ lapsed' = FALSE
  /\ UNCHANGED mode

\* Fault: the status is not looked at.
SaveAnyway ==
  /\ autosave /\ autosave' = FALSE
  /\ Ask([Request("save", selected) EXCEPT !.text = composer.text])
  /\ UNCHANGED <<server, selected, shown, composer, armed, mode, gestures, up, down, notes>>

Saves == shown = "pending" \/ live.on

\* saveDraft() when the timer fires
SaveTimer ==
  /\ autosave /\ autosave' = FALSE
  /\ IF Saves THEN Ask([Request("save", selected) EXCEPT !.text = composer.text])
              ELSE UNCHANGED flight
  /\ UNCHANGED <<server, selected, shown, composer, armed, mode, gestures, up, down, notes>>

\* saveDraft() from its button, which renderComposer() disables.
SaveClick ==
  /\ Gesture
  /\ composer.visible /\ shown = "pending"
  /\ autosave' = FALSE
  /\ Ask([Request("save", selected) EXCEPT !.text = composer.text])
  /\ UNCHANGED <<server, selected, shown, composer, armed, mode, up, down, notes>>

\* submit() up to its first await: the timer is cleared, nothing is saved.
Submit ==
  /\ Gesture
  /\ composer.visible /\ armed
  /\ autosave' = FALSE /\ lapsed' = (lapsed \/ autosave)
  /\ Ask([Request("validate", selected) EXCEPT !.text = composer.text])
  /\ UNCHANGED <<server, selected, shown, composer, armed, mode, up, down,
                 excused, overtaken>>

-----------------------------------------------------------------------------
(* The requests are served and answered in any order                        *)

ServeSelect(i) ==
  LET x == flight[i].x
  IN  /\ flight[i].op = "select" /\ flight[i].answer = "none"
      /\ flight' = [flight EXCEPT ![i].answer = status[x], ![i].text = draft[x]]
      /\ UNCHANGED <<server, page, up, down, notes>>

\* A dry run: the draft passes (or its blockers are bypassed), or it does not.
ServeValidate(i) ==
  /\ flight[i].op = "validate" /\ flight[i].answer = "none"
  /\ \E verdict \in {"passed", "blocked"} : flight' = [flight EXCEPT ![i].answer = verdict]
  /\ UNCHANGED <<server, page, up, down, notes>>

\* save_draft()
ServeSave(i) ==
  LET r == flight[i]
  IN  /\ r.op = "save"
      /\ flight' = RemoveAt(flight, i)
      /\ draft' = IF status[r.x] = "ended" THEN draft ELSE [draft EXCEPT ![r.x] = r.text]
      /\ lapsed' = (lapsed \/ \E k \in SavesOf(r.x) : k < i)
      /\ UNCHANGED <<status, stage, refused, page, up, down, excused, overtaken>>

\* Hub.submit(): accepted, or refused for its state or its blockers.
ServeSubmit(i) ==
  LET r == flight[i]
  IN  /\ r.op = "submit"
      /\ flight' = RemoveAt(flight, i)
      /\ \/ status[r.x] = "pending" /\ draft' = [draft EXCEPT ![r.x] = r.text]
            /\ status' = [status EXCEPT ![r.x] = "active"]
         \/ UNCHANGED <<draft, status>>
      /\ UNCHANGED <<stage, refused, page, up, down, notes>>

SelectAnswered(i) ==
  /\ flight[i].op = "select" /\ flight[i].answer # "none"
  /\ Load(flight[i].x, flight[i].answer, flight[i].text)
  /\ flight' = RemoveAt(flight, i)
  /\ UNCHANGED <<server, up, down>>

\* submit() after its await: the draft of then goes to the exchange of now.
ValidateAnswered(i) ==
  /\ flight[i].op = "validate" /\ flight[i].answer # "none"
  /\ flight' = IF flight[i].answer = "passed"
                 THEN [flight EXCEPT ![i].op = "submit", ![i].x = selected]
                 ELSE RemoveAt(flight, i)
  /\ UNCHANGED <<server, page, up, down, notes>>

-----------------------------------------------------------------------------
(* Live mode                                                                *)

Send(m) == Len(up) < WireBound /\ up' = Append(up, m)

\* liveStart(): the text there is counts as sent.
LiveStart ==
  /\ Gesture
  /\ composer.visible /\ armed
  /\ Send([op |-> "start", x |-> selected])
  /\ live' = [on |-> TRUE, reasoning |-> composer.text.reasoning,
               content |-> composer.text.content, pending |-> FALSE]
  /\ armed' = FALSE
  /\ UNCHANGED <<server, selected, shown, composer, autosave, timers, flight, down, notes>>

Timer(f) == [field |-> f, stray |-> FALSE]

\* Fault: each field keeps a timer of its own.
LiveTypeApart(f) ==
  /\ live.on
  /\ Typed(f)
  /\ timers' = Append(timers, Timer(f)) /\ live' = [live EXCEPT !.pending = TRUE]
  /\ UNCHANGED <<autosave, lapsed>>

\* liveInput(): one timer serves both fields; the last keystroke sets it.
LiveType(f) ==
  /\ live.on
  /\ Typed(f)
  /\ timers' = Append(IF live.pending THEN Front(timers) ELSE timers, Timer(f))
  /\ live' = [live EXCEPT !.pending = TRUE]
  /\ UNCHANGED <<autosave, lapsed>>

\* liveInput() on an edit of text already sent: the field is put back.
EditSent(f) ==
  /\ Gesture /\ live.on /\ CanType(f) /\ live[f] > 0
  /\ composer' = [composer EXCEPT !.text[f] = live[f]]
  /\ UNCHANGED <<server, selected, shown, armed, autosave, mode, net, notes>>

\* liveFlush(): whichever live mode is on when the timer fires.
Flush ==
  /\ timers # <<>>
  /\ timers' = Tail(timers)
  /\ LET f     == Head(timers).field
         sends == live.on /\ composer.text[f] > live[f]
         done  == [live EXCEPT !.pending = @ /\ Len(timers) > 1]
     IN  /\ live' = IF sends THEN [done EXCEPT ![f] = composer.text[f]] ELSE done
         /\ IF sends THEN Send([op |-> "text", x |-> selected, field |-> f,
                                of |-> composer.text.of])
                     ELSE UNCHANGED up
         /\ composer' = IF sends /\ f = "content"
                          THEN [composer EXCEPT !.locked = @ \cup {"reasoning"}]
                          ELSE composer
         /\ excused' = IF sends /\ Head(timers).stray THEN excused \cup {selected} ELSE excused
  /\ UNCHANGED <<server, selected, shown, armed, autosave, gestures, flight, down, lapsed, overtaken>>

\* lockForToolStage(): a timer already running is not cleared.
ToolCall ==
  /\ Gesture
  /\ live.on
  /\ Send([op |-> "tools", x |-> selected])
  /\ composer' = [composer EXCEPT !.locked = Fields]
  /\ UNCHANGED <<server, selected, shown, armed, autosave, mode, flight, down, notes>>

LiveFinish ==
  /\ Gesture
  /\ live.on
  /\ Send([op |-> "finish", x |-> selected])
  /\ UNCHANGED <<server, view, flight, down, notes>>

-----------------------------------------------------------------------------
(* The WebSocket                                                            *)

ServeStart(m) ==
  /\ m.op = "start"
  /\ IF status[m.x] = "pending"
       THEN /\ status' = [status EXCEPT ![m.x] = "active"]
            /\ stage' = [stage EXCEPT ![m.x] = "role"]
            /\ UNCHANGED excused
       ELSE excused' = excused \cup {m.x} /\ UNCHANGED <<status, stage>>
  /\ UNCHANGED <<refused, down>>

ServeText(m) ==
  /\ m.op = "text"
  /\ IF stage[m.x] = "off" THEN UNCHANGED <<stage, refused>>
     ELSE IF StageRank[m.field] >= StageRank[stage[m.x]]
       THEN stage' = [stage EXCEPT ![m.x] = m.field] /\ UNCHANGED refused
       ELSE UNCHANGED stage
            /\ refused' = refused \cup {[x |-> m.x, field |-> m.field, stage |-> stage[m.x]]}
  /\ UNCHANGED <<status, down, excused>>

ServeTools(m) ==
  /\ m.op = "tools"
  /\ stage' = IF stage[m.x] = "off" THEN stage ELSE [stage EXCEPT ![m.x] = "tools"]
  /\ UNCHANGED <<status, refused, down, excused>>

ServeFinish(m) ==
  /\ m.op = "finish"
  /\ IF stage[m.x] = "off" THEN UNCHANGED down
     ELSE Len(down) < WireBound /\ down' = Append(down, [op |-> "ack", x |-> m.x])
  /\ UNCHANGED <<status, stage, refused, excused>>

\* live_message(); the other acknowledgements and errors only show a notice.
ServeUp ==
  /\ up # <<>>
  /\ up' = Tail(up)
  /\ LET m == Head(up) IN ServeStart(m) \/ ServeText(m) \/ ServeTools(m) \/ ServeFinish(m)
  /\ UNCHANGED <<draft, page, flight, lapsed, overtaken>>

\* live_ack of live_finish: live mode ends, whichever exchange it is for.
OnAck ==
  /\ down # <<>> /\ Head(down).op = "ack"
  /\ down' = Tail(down)
  /\ Leave
  /\ UNCHANGED <<server, selected, shown, composer, armed, autosave, gestures, flight, up, notes>>

\* Fault: the page is not reloaded while live mode is on.
OnTerminalLive ==
  /\ down # <<>> /\ Head(down).op = "terminal"
  /\ down' = Tail(down)
  /\ IF selected = Head(down).x /\ shown # "ended" /\ ~live.on
       THEN Ask(Request("select", selected))
       ELSE UNCHANGED flight
  /\ UNCHANGED <<server, page, up, notes>>

\* onSummary() of a terminal status
OnTerminal ==
  /\ down # <<>> /\ Head(down).op = "terminal"
  /\ down' = Tail(down)
  /\ IF selected = Head(down).x /\ shown # "ended"
       THEN Ask(Request("select", selected))
       ELSE UNCHANGED flight
  /\ UNCHANGED <<server, page, up, notes>>

-----------------------------------------------------------------------------
Operator ==
  \/ \E x \in Exchanges : Click(x)
  \/ \E f \in Fields : Type(f) \/ LiveType(f) \/ EditSent(f)
  \/ SaveClick \/ Submit
  \/ LiveStart \/ ToolCall \/ LiveFinish

Requests ==
  \E i \in DOMAIN flight :
    \/ ServeSelect(i) \/ ServeValidate(i) \/ ServeSave(i) \/ ServeSubmit(i)
    \/ SelectAnswered(i) \/ ValidateAnswered(i)

Next ==
  \/ \E x \in Exchanges : End(x)
  \/ Operator \/ Requests
  \/ SaveTimer \/ Flush
  \/ ServeUp \/ OnAck \/ OnTerminal

Spec == Init /\ [][Next]_vars

-----------------------------------------------------------------------------

\* What is saved as the draft of an exchange, or relayed live to its client, was
\* typed for that exchange: saveDraft() and liveFlush() take the exchange from
\* S.selected and the text from the composer, which a load that finds the exchange
\* ended hides but does not empty, with the autosave timer still running.
OwnText ==
  /\ \A i \in DOMAIN flight : flight[i].op = "save" => flight[i].text.of = flight[i].x
  /\ \A k \in DOMAIN up : up[k].op = "text" => up[k].of = up[k].x

\* The page never sends reasoning the server has to refuse because content came
\* first (spec 4.2): with one timer for both fields, content is not sent while
\* reasoning waits.  Two things can spoil it, and they are excused: live mode
\* started on an exchange that is live already, and a timer left over from the
\* live mode of another exchange.
ReasoningFirst ==
  \A r \in refused : r.field = "reasoning" /\ r.stage = "content" => r.x \in excused

AtRest == flight = <<>> /\ up = <<>> /\ down = <<>>

\* When nothing is under way, the page does not show an ended exchange as one to be
\* answered: onSummary() reloads it whatever the page is doing.  (Excepted is the
\* answer of an older load that comes in after the announcement: nothing reloads then.)
EndShown ==
  AtRest /\ selected # Nobody /\ selected \notin overtaken /\ status[selected] = "ended"
    => shown = "ended"

\* When nothing is under way and the timer is off, the draft the server keeps of a
\* pending exchange is the one the operator sees: an edit while a save is under way
\* is saved by a timer of its own.  (Excepted is what the page gives up, see lapsed:
\* submit() clears the timer and saves nothing, a load may cross a save, and two
\* saves may cross each other.)
AutoSaved ==
  AtRest /\ ~autosave /\ ~lapsed /\ composer.visible /\ shown = "pending"
         /\ status[selected] = "pending"
    => draft[selected] = composer.text

\* "Dry-run draft validation so the console can show blockers before submit"
\* (api_console.py, validate): the draft submitted for an exchange was validated
\* against the request of that exchange.
SubmitsValidated ==
  \A i \in DOMAIN flight : flight[i].op = "submit" => flight[i].checked = flight[i].x

=============================================================================
