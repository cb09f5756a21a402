---------------------------- MODULE ExchangeStore ----------------------------
(***************************************************************************)
(* What survives the process: the exchanges index, the event log, the      *)
(* drafts and the settings (db.py), written by the handlers of the two     *)
(* APIs, and the recovery at the next start (app.py, mark_stale_active).   *)
(*                                                                         *)
(* Every write commits by itself, so a handler is a sequence of commits.   *)
(* No handler awaits between its commits: on the one event loop nothing    *)
(* comes between them except the end of the process.                       *)
(***************************************************************************)
EXTENDS Integers, Sequences, Selection

CONSTANTS
  Ids,          \* exchanges, in the order their requests may come
  DraftBound,   \* bound: revisions of one draft
  InjectBound,  \* bound: injections into one exchange
  CrashBound    \* bound: ends of the process

ASSUME StoreAssumption ==
  DraftBound \in Nat /\ InjectBound \in Nat /\ CrashBound \in Nat

VARIABLES
  \* the process
  phase,        \* "down", "recovering" or "up"
  readOnly,     \* settings.read_only
  reading,      \* requests whose body is awaited
  runtimes,     \* rt.status of each registered runtime, "none" without one
  stale,        \* the rows mark_stale_active has still to close
  commits,      \* what the running handler has still to commit
  crashes,
  \* the disk
  raw,          \* exchanges with a raw body file
  rows,         \* status column of the exchanges table, "absent" without a row
  log,          \* wal_events of each exchange
  drafts,       \* revision column of the drafts table, 0 without a row
  setting       \* the persisted read_only

memory == <<phase, readOnly, reading, runtimes, stale, crashes>>
disk   == <<raw, rows, log, drafts, setting>>
vars   == <<memory, commits, disk>>

Open    == {"pending", "active"}
Endings == {"response_submitted", "exchange_aborted", "request_rejected"}

-----------------------------------------------------------------------------
(* Commits                                                                  *)

\* An event carries the draft revision it is about, 0 when it is about none.
Event(type, why, revision) == [type |-> type, why |-> why, revision |-> revision]

Types  == Endings \cup {"request_received", "request_parsed", "draft_saved", "error_injected",
                        "client_disconnected"}
Whys   == {"none", "operator", "client_disconnected", "server_restart"}
Events == [type : Types, why : Whys, revision : Nat]

\* The events of an exchange that are of some types, in their order.
EventsOf(x, types) == Selected(log[x], {event \in Events : event.type \in types})

ToRaw(x)          == [to |-> "raw", x |-> x, value |-> "none"]
ToRow(x, s)       == [to |-> "row", x |-> x, value |-> s]
ToLog(x, event)   == [to |-> "log", x |-> x, value |-> event]
ToDraft(x, n)     == [to |-> "draft", x |-> x, value |-> n]
ToSetting(b)      == [to |-> "setting", x |-> "none", value |-> b]
Say(x, type, why) == ToLog(x, Event(type, why, 0))

\* A handler starts only when the one before it is through.
Idle == commits = <<>>
Up   == phase = "up" /\ Idle

Runs(handler) ==
  /\ Up
  /\ commits' = handler
  /\ UNCHANGED disk

Commit ==
  /\ commits # <<>>
  /\ LET c == Head(commits)
     IN  /\ raw'     = IF c.to = "raw" THEN raw \cup {c.x} ELSE raw
         /\ rows'    = IF c.to = "row" THEN [rows EXCEPT ![c.x] = c.value] ELSE rows
         /\ log'     = IF c.to = "log" THEN [log EXCEPT ![c.x] = Append(@, c.value)] ELSE log
         /\ drafts'  = IF c.to = "draft" THEN [drafts EXCEPT ![c.x] = c.value] ELSE drafts
         /\ setting' = IF c.to = "setting" THEN c.value ELSE setting
  /\ commits' = Tail(commits)
  /\ UNCHANGED memory

-----------------------------------------------------------------------------

Init ==
  /\ phase = "down" /\ readOnly = FALSE /\ reading = {} /\ stale = {}
  /\ runtimes = [x \in Ids |-> "none"] /\ commits = <<>> /\ crashes = 0
  /\ raw = {} /\ rows = [x \in Ids |-> "absent"] /\ log = [x \in Ids |-> <<>>]
  /\ drafts = [x \in Ids |-> 0] /\ setting = FALSE

-----------------------------------------------------------------------------
(* POST /v1/chat/completions                                                *)

\* In read-only mode the request is refused at once; otherwise the handler
\* awaits its body.
Arrive(x) ==
  /\ Up
  /\ ~readOnly
  /\ x \notin reading /\ x \notin raw
  /\ reading' = reading \cup {x}
  /\ UNCHANGED <<phase, readOnly, runtimes, stale, crashes, commits, disk>>

\* The client leaves before its body is complete.
Unread(x) ==
  /\ Up
  /\ x \in reading
  /\ reading' = reading \ {x}
  /\ UNCHANGED <<phase, readOnly, runtimes, stale, crashes, commits, disk>>

\* The body is there.  Authorization, JSON and validate_request accept or
\* reject it; preview_text and request_flags raise on fields of a shape they
\* do not expect, the one before the row is inserted, the other after.  The
\* update of the flags column is left out.
Received(x) == <<ToRaw(x), ToRow(x, "pending"), Say(x, "request_received", "none")>>
Parsed(x)   == Received(x) \o <<Say(x, "request_parsed", "none")>>
Rejected(x) == Received(x) \o <<Say(x, "request_rejected", "none"), ToRow(x, "rejected")>>

Admit(x, handler, runtime) ==
  /\ x \in reading
  /\ reading' = reading \ {x}
  /\ Runs(handler)
  /\ runtimes' = [runtimes EXCEPT ![x] = runtime]
  /\ UNCHANGED <<phase, readOnly, stale, crashes>>

Accept(x)      == Admit(x, Parsed(x), "pending")
Reject(x)      == Admit(x, Rejected(x), "none")
Unpreviewed(x) == Admit(x, <<ToRaw(x)>>, "none")
Unflagged(x)   == Admit(x, Parsed(x), "none")

-----------------------------------------------------------------------------
(* The operator's calls that write                                          *)

Registered(x) == runtimes[x] # "none"

\* Fault: the event first.
RevisionLoggedFirst(x) ==
  <<ToLog(x, Event("draft_saved", "none", drafts[x] + 1)), ToDraft(x, drafts[x] + 1)>>

Revision(x) ==
  <<ToDraft(x, drafts[x] + 1), ToLog(x, Event("draft_saved", "none", drafts[x] + 1))>>

SaveDraft(x) ==
  /\ ~readOnly
  /\ Registered(x)
  /\ drafts[x] < DraftBound
  /\ Runs(Revision(x))
  /\ UNCHANGED memory

Submit(x) ==
  /\ ~readOnly
  /\ runtimes[x] = "pending"
  /\ drafts[x] < DraftBound
  /\ Runs(Revision(x) \o <<ToRow(x, "active")>>)
  /\ runtimes' = [runtimes EXCEPT ![x] = "active"]
  /\ UNCHANGED <<phase, readOnly, reading, stale, crashes>>

\* Fault: the row stays pending.
LiveStartUnindexed(x) ==
  /\ ~readOnly
  /\ runtimes[x] = "pending"
  /\ Runs(<<>>)
  /\ runtimes' = [runtimes EXCEPT ![x] = "active"]
  /\ UNCHANGED <<phase, readOnly, reading, stale, crashes>>

LiveStart(x) ==
  /\ ~readOnly
  /\ runtimes[x] = "pending"
  /\ Runs(<<ToRow(x, "active")>>)
  /\ runtimes' = [runtimes EXCEPT ![x] = "active"]
  /\ UNCHANGED <<phase, readOnly, reading, stale, crashes>>

Count(x, type) == Len(EventsOf(x, {type}))

\* An injection that does not end the exchange by itself.
Inject(x) ==
  /\ Registered(x)
  /\ Count(x, "error_injected") < InjectBound
  /\ Runs(<<Say(x, "error_injected", "none")>>)
  /\ UNCHANGED memory

\* PUT /api/config read_only
PutReadOnly(b) ==
  /\ Runs(<<ToSetting(b)>>)
  /\ readOnly' = b
  /\ UNCHANGED <<phase, reading, runtimes, stale, crashes>>

-----------------------------------------------------------------------------
(* The ends of an exchange                                                  *)

Abortion(x, why) == ToLog(x, Event("exchange_aborted", why, drafts[x]))

\* Fault: the row first.
ClosingRowFirst(x, events, s) == <<ToRow(x, s)>> \o events

\* What happened is logged, then the row is updated.
Closing(x, events, s) == events \o <<ToRow(x, s)>>

\* Fault: the runtime stays registered.
CloseKept(x, events, s) ==
  /\ Registered(x)
  /\ Runs(Closing(x, events, s))
  /\ UNCHANGED memory

Close(x, events, s) ==
  /\ Registered(x)
  /\ Runs(Closing(x, events, s))
  /\ runtimes' = [runtimes EXCEPT ![x] = "none"]
  /\ UNCHANGED <<phase, readOnly, reading, stale, crashes>>

\* _deliver_nonstream, on_stream_complete
Complete(x) == Close(x, <<Say(x, "response_submitted", "none")>>, "completed")

\* abort of a non-streaming exchange, on_hard_abort
Abort(x) == Close(x, <<Abortion(x, "operator")>>, "aborted")

\* on_client_disconnect
Disconnect(x) ==
  Close(x, <<Say(x, "client_disconnected", "none"), Abortion(x, "client_disconnected")>>,
        "aborted")

\* An HTTP error for a non-streaming exchange ends it at once, for a streaming
\* one when it is delivered (on_injected_delivered).
InjectedNow(x) ==
  /\ Count(x, "error_injected") < InjectBound
  /\ Close(x, <<Say(x, "error_injected", "none")>>, "injected")

InjectedDelivered(x) ==
  /\ Count(x, "error_injected") > 0
  /\ Close(x, <<>>, "injected")

-----------------------------------------------------------------------------
(* The end of the process and the next start                                *)

\* A crash at any point, or a shutdown: Hub.shutdown writes nothing.  What is
\* committed stays.
Crash ==
  /\ phase # "down"
  /\ crashes < CrashBound
  /\ crashes' = crashes + 1
  /\ phase' = "down"
  /\ commits' = <<>>
  /\ reading' = {}
  /\ stale' = {}
  /\ runtimes' = [x \in Ids |-> "none"]
  /\ UNCHANGED <<readOnly, disk>>

\* Fault: only the exchanges nobody had answered.
StalePending == {x \in Ids : rows[x] = "pending"}

StaleRows == {x \in Ids : rows[x] \in Open}

\* create_app: the persisted settings win over the file; then the lifespan
\* reads which exchanges an earlier process left open.
Start ==
  /\ phase = "down"
  /\ phase' = "recovering"
  /\ readOnly' = setting
  /\ stale' = StaleRows
  /\ UNCHANGED <<reading, runtimes, crashes, commits, disk>>

Recover(x) ==
  /\ phase = "recovering" /\ Idle
  /\ x \in stale
  /\ stale' = stale \ {x}
  /\ commits' = Closing(x, <<Abortion(x, "server_restart")>>, "aborted")
  /\ UNCHANGED <<phase, readOnly, reading, runtimes, crashes, disk>>

Ready ==
  /\ phase = "recovering" /\ Idle
  /\ stale = {}
  /\ phase' = "up"
  /\ UNCHANGED <<readOnly, reading, runtimes, stale, crashes, commits, disk>>

Request(x)  == Arrive(x) \/ Unread(x) \/ Accept(x) \/ Reject(x) \/ Unpreviewed(x) \/ Unflagged(x)
Operator(x) == SaveDraft(x) \/ Submit(x) \/ LiveStart(x) \/ Inject(x)
Ends(x)     == Complete(x) \/ Abort(x) \/ Disconnect(x) \/ InjectedNow(x) \/ InjectedDelivered(x)

Next ==
  \/ \E x \in Ids : Request(x) \/ Operator(x) \/ Ends(x)
  \/ \E b \in BOOLEAN : PutReadOnly(b)
  \/ Commit
  \/ Crash
  \/ Start
  \/ \E x \in Ids : Recover(x)
  \/ Ready

Spec == Init /\ [][Next]_vars

\* The server is started again, and a handler that has begun runs on.
FairSpec ==
  /\ Spec
  /\ WF_vars(Commit)
  /\ WF_vars(Start)
  /\ WF_vars(\E x \in Ids : Recover(x))
  /\ WF_vars(Ready)

-----------------------------------------------------------------------------
(* Properties                                                               *)

Logged(x, type) == \E i \in 1..Len(log[x]) : log[x][i].type = type

\* A row never tells of an end that the log does not: at every commit and
\* after a crash at any of them, the event is there before the status, and
\* the raw body before both (db.py:100-163, called in that order everywhere).
LogLeadsRow ==
  \A x \in Ids :
    /\ rows[x] = "completed" => Logged(x, "response_submitted")
    /\ rows[x] = "aborted"   => Logged(x, "exchange_aborted")
    /\ rows[x] = "rejected"  => Logged(x, "request_rejected")
    /\ rows[x] = "injected"  => Logged(x, "error_injected")
    /\ rows[x] # "absent"    => x \in raw

\* Between handlers the row of an exchange that is being served carries the
\* status its runtime has: the guard of submit and live_start, which reads the
\* runtime, and the console's queue, which reads the rows, agree.
RowTracksRuntime ==
  Idle => \A x \in Ids : Registered(x) => rows[x] = runtimes[x]

LastEnding(x) ==
  LET ends == EventsOf(x, Endings)
  IN  IF ends = <<>> THEN "none" ELSE ends[Len(ends)].type

\* What the console and the export show as the result is the last ending event
\* (api_console.py:80, cli.py:52).  While the server runs it is the one the
\* row's status tells of, whatever crash came between the two before, and an
\* open exchange has none.  Only a restart may end what the log has ended already.
ResultMatchesRow ==
  \A x \in Ids :
    /\ \A i, j \in 1..Len(log[x]) :
         i < j /\ log[x][i].type \in Endings /\ log[x][j].type \in Endings
           => log[x][j].why = "server_restart"
    /\ Up => LastEnding(x) = CASE rows[x] = "completed" -> "response_submitted"
                            [] rows[x] = "aborted"   -> "exchange_aborted"
                            [] rows[x] = "rejected"  -> "request_rejected"
                            [] OTHER                 -> "none"

\* The logged revisions of a draft are 1, 2, 3, ... without a gap; the drafts
\* table is at most one ahead of them, and in step with them as long as the
\* exchange is being served (state.py:214-223 and 260-263).  The draft an abortion
\* records is the last one: nothing is saved after an end, across restarts too.
DraftsInStep ==
  \A x \in Ids :
    LET saved == EventsOf(x, {"draft_saved"})
    IN  /\ \A i \in 1..Len(saved) : saved[i].revision = i
        /\ drafts[x] \in Len(saved)..Len(saved) + 1
        /\ Up /\ Registered(x) => drafts[x] = Len(saved)
        /\ \A i \in 1..Len(log[x]) :
             log[x][i].type = "exchange_aborted" => log[x][i].revision = drafts[x]

\* An exchange that a process left open is aborted in the end, also when the
\* recovery itself is interrupted.
AbandonedEnds ==
  \A x \in Ids : (phase = "down" /\ rows[x] \in Open) ~> (rows[x] = "aborted")

\* README.md:52-53: what is not rejected is accepted and served.
AcceptedServed ==
  Up => \A x \in Ids : rows[x] \in Open => Registered(x)

=============================================================================
