---------------------------- MODULE ConsoleFeed -----------------------------
(***************************************************************************)
(* The operator's queue: every change of an exchange starts a task that    *)
(* sends its summary to the consoles' WebSockets (state.py, notify and     *)
(* broadcast), and a console keeps a list of its own, loaded once over     *)
(* HTTP and kept up by those messages (static/console.js).                 *)
(*                                                                         *)
(* A summary is abstracted to the rank of its status, which only grows:    *)
(* 1 pending, 2 active, 3 ended; 0 is no row at all.  Exchanges are        *)
(* numbered in the order of their creation.  One console's page is         *)
(* modelled; of the others only their sockets matter to it.                *)
(***************************************************************************)
EXTENDS Naturals, SequencesExt

CONSTANTS
  ExchangeBound,  \* bound: exchanges there may be
  SocketBound,    \* bound: WebSockets the consoles open
  FlightBound,    \* bound: changes and list requests under way at a time
  RequestBound,   \* bound: list requests among these
  ListLimit       \* rows GET /api/exchanges returns

ASSUME BoundsAssumption ==
  /\ {ExchangeBound, SocketBound, FlightBound, ListLimit} \subseteq Nat
  /\ RequestBound \in Nat \ {0}

Exchanges == 1..ExchangeBound
Sockets   == 1..SocketBound
Requests  == 1..RequestBound
Orders    == Injection(Sockets, Sockets)
InOrder   == [s \in Sockets |-> s]
Filters   == {"all", "pending"}     \* the two tabs of the queue

VARIABLES
  \* the server
  row,        \* the rank of each exchange's row
  runtimes,   \* the exchanges somebody can still answer
  tasks,      \* the broadcasts not finished yet, oldest first
  clients,    \* ws_clients
  order,      \* each socket's place in the table of the set ws_clients
  \* the sockets between
  socket,     \* "unused", "open", "closing" (the page is gone), "closed"
  slow,       \* the sockets whose send buffer is full
  inbox,      \* what is under way to the page
  \* the page
  page,       \* "loading", "offline", "online"
  at,         \* the page's socket, 0 for none
  list,       \* S.exchanges
  filter,     \* S.filter
  answers,    \* its list requests, each with the filter it asks for
  \* history
  missed,     \* the exchanges of which a change has slipped past the page
  orderly     \* the broadcasts under way have kept their order

server  == <<row, runtimes, tasks, clients, order>>
net     == <<socket, slow, inbox>>
tab     == <<page, at, list, filter, answers>>
history == <<missed, orderly>>
vars    == <<server, net, tab, history>>

NoRows   == [x \in Exchanges |-> 0]
NoAnswer == [state |-> "none", filter |-> "pending", rows |-> NoRows]

Matches(f, rank) == rank # 0 /\ (f = "pending" => rank = 1)

Init ==
  /\ row = NoRows /\ runtimes = {} /\ tasks = <<>> /\ clients = {} /\ order = InOrder
  /\ socket = [s \in Sockets |-> "unused"] /\ slow = {}
  /\ inbox = <<>>
  /\ page = "loading" /\ at = 0 /\ list = NoRows /\ filter = "pending"
  /\ answers = [r \in Requests |-> NoAnswer]
  /\ missed = {} /\ orderly = TRUE

-----------------------------------------------------------------------------
(* notify() and broadcast()                                                 *)

Answered == {r \in Requests : answers[r].state = "answered"}

\* Whatever the list says now, this request will make it say what the rows are.
Rebuilds(r) == answers[r].state # "none" /\ (answers[r].filter = "all" \/ filter = "pending")

\* The page will learn of a change: from a list that is still to be read, or from
\* a message that no older list will follow.
Listening ==
  /\ orderly /\ Answered = {}
  /\ at \in clients \/ \E r \in Requests : Rebuilds(r)

\* What is under way, for the bound on it.
Flight == Len(tasks) + Len(inbox) + Cardinality({r \in Requests : answers[r].state # "none"})

\* The row changes, or a notice repeats it; the summary is taken in the same step and
\* the task sends later.
Change(x, rank) ==
  /\ Flight < FlightBound
  /\ row' = [row EXCEPT ![x] = rank]
  /\ tasks' = Append(tasks, [x |-> x, rank |-> rank, todo |-> {}, order |-> InOrder,
                             waits |-> 0, started |-> FALSE])
  /\ missed' = IF Listening THEN missed \ {x}
               ELSE IF rank = row[x] /\ orderly THEN missed ELSE missed \cup {x}
  /\ UNCHANGED <<clients, order, net, tab, orderly>>

\* The handler raises between the row and its notification.
ChangeSilently(x, rank) ==
  /\ row' = [row EXCEPT ![x] = rank]
  /\ missed' = missed \cup {x}
  /\ UNCHANGED <<tasks, clients, order, net, tab, orderly>>

Comes(x) == row[x] = 0 /\ \A y \in 1..(x - 1) : row[y] # 0

\* A request is accepted.
Arrive(x) == Comes(x) /\ Change(x, 1) /\ runtimes' = runtimes \cup {x}

Reject(x) == Comes(x) /\ Change(x, 3) /\ UNCHANGED runtimes

\* request_flags raises: the row stays, with no runtime behind it.
ArriveUnflagged(x) == Comes(x) /\ ChangeSilently(x, 1) /\ UNCHANGED runtimes

\* A submit or a live_start.
Activate(x) == x \in runtimes /\ row[x] = 1 /\ Change(x, 2) /\ UNCHANGED runtimes

\* submit's pacing values do not convert.
ActivateUnpaced(x) ==
  x \in runtimes /\ row[x] = 1 /\ ChangeSilently(x, 2) /\ UNCHANGED runtimes

\* Progress of a stream, or an injection that is armed.
Notice(x) == x \in runtimes /\ Change(x, row[x]) /\ UNCHANGED runtimes

End(x) == x \in runtimes /\ Change(x, 3) /\ runtimes' = runtimes \ {x}

\* A send waits while the buffer is full, and behind those who wait already.
Waits(s) == socket[s] = "open" /\ (s \in slow \/ \E t \in Range(tasks) : t.waits = s)

NothingUnderWay == tasks = <<>> /\ inbox = <<>>

\* The task writes to the sockets reached, and tries again where it waited.  A
\* socket that is closing raises and is dropped from ws_clients.
Send(task, reached) ==
  /\ inbox' = IF at \in reached THEN Append(inbox, [x |-> task.x, rank |-> task.rank])
                                ELSE inbox
  /\ clients' = {s \in clients : s \in reached \cup {task.waits} => socket[s] = "open"}
  /\ orderly' = (orderly \/ NothingUnderWay')
  /\ UNCHANGED <<row, runtimes, order, socket, slow, tab, missed>>

\* It takes the sockets left in the table's order, up to the first it has to wait
\* for.
SendOn(i, task) ==
  LET blocked == {s \in task.todo : Waits(s)}
      Upto(n) == {s \in task.todo : task.order[s] =< task.order[n]}
  IN  \/ /\ blocked = {}
         /\ tasks' = RemoveAt(tasks, i)
         /\ Send(task, task.todo)
      \/ \E n \in blocked :
           /\ \A s \in blocked : task.order[n] =< task.order[s]
           /\ tasks' = [tasks EXCEPT ![i] = [task EXCEPT !.waits = n,
                                                         !.todo = task.todo \ Upto(n)]]
           /\ Send(task, Upto(n))

\* list(self.ws_clients): the sockets there are when the task starts.
Begun(task) == [task EXCEPT !.started = TRUE, !.todo = clients, !.order = order]

\* Fault: the tasks start in any order.
StartAny(i) ==
  /\ i \in DOMAIN tasks
  /\ ~tasks[i].started
  /\ SendOn(i, Begun(tasks[i]))

\* The event loop starts tasks in the order they were made.
Start(i) ==
  /\ i \in DOMAIN tasks
  /\ ~tasks[i].started
  /\ \A j \in 1..(i - 1) : tasks[j].started
  /\ SendOn(i, Begun(tasks[i]))

\* Fault: one exception ends the whole broadcast.
ResumeOrGiveUp(i) ==
  /\ i \in DOMAIN tasks
  /\ LET s == tasks[i].waits
     IN  /\ s # 0
         /\ \A j \in 1..(i - 1) : tasks[j].waits # s
         /\ \/ socket[s] = "open" /\ s \notin slow /\ SendOn(i, tasks[i])
            \/ /\ socket[s] = "closed"
               /\ tasks' = RemoveAt(tasks, i)
               /\ clients' = clients \ {s}
               /\ UNCHANGED <<row, runtimes, order, net, tab, history>>

\* The wait is over: the buffer has room, or the socket is closed.  Those who
\* wait for one socket go on in the order they came.
Resume(i) ==
  /\ i \in DOMAIN tasks
  /\ LET s == tasks[i].waits
     IN  /\ s # 0
         /\ \A j \in 1..(i - 1) : tasks[j].waits # s
         /\ \/ socket[s] = "open" /\ s \notin slow
            \/ socket[s] = "closed"
         /\ SendOn(i, tasks[i])

Broadcast == \E i \in DOMAIN tasks : Start(i) \/ Resume(i)

-----------------------------------------------------------------------------
(* The sockets and console_ws                                               *)

\* The exchanges something under way tells of.
UnderWayOf == {m.x : m \in Range(tasks) \cup Range(inbox)}

\* A page's WebSocket opens and console_ws registers it, at any place of the table;
\* a table that has to grow puts them all in new places.  Sockets are numbered in
\* the order they open.
Open(s) ==
  /\ socket[s] = "unused" /\ \A q \in 1..(s - 1) : socket[q] # "unused"
  /\ socket' = [socket EXCEPT ![s] = "open"]
  /\ clients' = clients \cup {s}
  /\ order' \in Orders
  /\ orderly' = (orderly /\ (order' = order \/ \A t \in Range(tasks) : ~t.started))
  /\ missed' = IF orderly' THEN missed ELSE missed \cup UnderWayOf
  /\ UNCHANGED <<row, runtimes, tasks, slow, inbox, list, filter, answers>>

Connect ==
  /\ page = "offline"
  /\ \E s \in Sockets : Open(s) /\ at' = s
  /\ page' = "online"

OtherConnects == (\E s \in Sockets : Open(s)) /\ UNCHANGED <<page, at>>

Stalled(s) == \E t \in Range(tasks) : t.waits = s

\* A connection ends on the page's side; what was under way is lost.  A task
\* that waits for the socket still waits while newer ones no longer do.
Lose(s) ==
  /\ socket[s] = "open"
  /\ socket' = [socket EXCEPT ![s] = "closing"]
  /\ slow' = slow \ {s}
  /\ inbox' = IF s = at THEN <<>> ELSE inbox
  /\ page' = IF s = at THEN "offline" ELSE page
  /\ at' = IF s = at THEN 0 ELSE at
  /\ orderly' = (orderly /\ ~Stalled(s))
  /\ missed' = IF s = at \/ Stalled(s) THEN missed \cup UnderWayOf ELSE missed
  /\ UNCHANGED <<server, list, filter, answers>>

\* console_ws reads the disconnect.
Discard(s) ==
  /\ s \in clients
  /\ socket[s] \in {"closing", "closed"}
  /\ clients' = clients \ {s}
  /\ UNCHANGED <<row, runtimes, tasks, order, net, tab, history>>

\* The close completes or times out: whoever waits for the socket is woken.
Close(s) ==
  /\ socket[s] = "closing"
  /\ socket' = [socket EXCEPT ![s] = "closed"]
  /\ UNCHANGED <<server, slow, inbox, tab, history>>

\* Only writes fill a buffer, and those who wait write no more until it drained.
Fill(s) ==
  /\ socket[s] = "open"
  /\ s \notin slow
  /\ ~Stalled(s)
  /\ slow' = slow \cup {s}
  /\ UNCHANGED <<server, socket, inbox, tab, history>>

Drain(s) ==
  /\ s \in slow
  /\ slow' = slow \ {s}
  /\ UNCHANGED <<server, socket, inbox, tab, history>>

\* The server stops, takes its tasks, sockets and requests with it, and closes what is
\* still open when it starts again (mark_stale_active), without a message.
Restart ==
  /\ row' = [x \in Exchanges |-> IF row[x] \in {1, 2} THEN 3 ELSE row[x]]
  /\ runtimes' = {} /\ tasks' = <<>> /\ clients' = {} /\ slow' = {}
  /\ socket' = [s \in Sockets |-> IF socket[s] = "unused" THEN "unused" ELSE "closed"]
  /\ inbox' = <<>>
  /\ page' = IF page = "loading" /\ answers[1].state # "asked" THEN page ELSE "offline"
  /\ at' = 0
  /\ answers' = [r \in Requests |-> IF answers[r].state = "asked" THEN NoAnswer
                                     ELSE answers[r]]
  /\ missed' = Exchanges /\ orderly' = TRUE
  /\ UNCHANGED <<order, list, filter>>

-----------------------------------------------------------------------------
(* The page                                                                 *)

\* Fault: only what the tab shows is kept.
OnSummaryShown(m) ==
  list' = IF Matches(filter, m.rank) THEN [list EXCEPT ![m.x] = m.rank] ELSE list

OnSummary(m) == list' = [list EXCEPT ![m.x] = m.rank]

Receive ==
  /\ inbox # <<>>
  /\ OnSummary(Head(inbox))
  /\ inbox' = Tail(inbox)
  /\ UNCHANGED <<server, socket, slow, page, at, filter, answers, missed>>
  /\ orderly' = (orderly \/ NothingUnderWay')

Ask(r, f) ==
  /\ answers[r].state = "none" /\ Flight < FlightBound
  /\ filter' = f
  /\ answers' = [answers EXCEPT ![r] = [NoAnswer EXCEPT !.state = "asked", !.filter = f]]
  /\ UNCHANGED <<server, net, page, at, list, history>>

\* init() asks for the list; the first request is kept for it.
Load == page = "loading" /\ Ask(1, filter)

\* A tab of the queue, or the refresh button, whatever requests are under way.
RequestList(r, f) ==
  /\ page = "loading" => r # 1
  /\ \A q \in 1..(r - 1) : answers[q].state = "none" => page = "loading" /\ q = 1
  /\ Ask(r, f)

\* The newest ListLimit rows of the filter's status.
Listed(f) ==
  LET matching == {x \in Exchanges : Matches(f, row[x])}
  IN  {x \in matching : Cardinality({y \in matching : y > x}) < ListLimit}

\* The page knows again what it had missed, unless older news or an older answer is
\* still to come; it misses what the limit cuts off.
ServeList(r) ==
  LET f == answers[r].filter
  IN  /\ answers[r].state = "asked"
      /\ answers' = [answers EXCEPT ![r].state = "answered",
           ![r].rows = [x \in Exchanges |-> IF x \in Listed(f) THEN row[x] ELSE 0]]
      /\ missed' = (IF Rebuilds(r) /\ Answered = {} THEN missed \cap UnderWayOf ELSE missed)
                     \cup {x \in Exchanges : Matches(f, row[x]) /\ x \notin Listed(f)}
      /\ UNCHANGED <<server, net, page, at, list, filter, orderly>>

\* The request is over; init() goes on and connects.
Over(r) ==
  /\ answers' = [answers EXCEPT ![r] = NoAnswer]
  /\ page' = IF page = "loading" /\ r = 1 THEN "offline" ELSE page
  /\ UNCHANGED <<server, net, at, filter, orderly>>

\* refreshList: the rows are set over the list, which the filter that is on by then
\* empties first.
ApplyList(r) ==
  /\ answers[r].state = "answered"
  /\ list' = [x \in Exchanges |->
                IF answers[r].rows[x] # 0 THEN answers[r].rows[x]
                ELSE IF filter = "all" THEN list[x] ELSE 0]
  /\ Over(r)
  /\ UNCHANGED missed

\* The request fails, and the page says so.
FailList(r) ==
  /\ answers[r].state # "none"
  /\ Over(r)
  /\ missed' = Exchanges
  /\ UNCHANGED list

-----------------------------------------------------------------------------

Runtime == \E x \in Exchanges : \/ Arrive(x) \/ Reject(x) \/ ArriveUnflagged(x)
                               \/ Activate(x) \/ ActivateUnpaced(x)
                               \/ Notice(x) \/ End(x)

Network == \/ OtherConnects
           \/ \E s \in Sockets : Lose(s) \/ Discard(s) \/ Close(s) \/ Fill(s) \/ Drain(s)

Page == \/ Connect
        \/ Receive
        \/ Load
        \/ \E r \in Requests : \/ \E f \in Filters : RequestList(r, f)
                               \/ ServeList(r) \/ ApplyList(r) \/ FailList(r)

Next == Runtime \/ Broadcast \/ Network \/ Restart \/ Page

Spec == Init /\ [][Next]_vars

\* The event loop runs every task that can go on.  The WebSocket library closes a
\* connection that does not answer its pings, so no buffer stays full and no
\* close stays open.  A page handles its messages.
FairSpec ==
  /\ Spec
  /\ \A i \in 1..FlightBound : WF_vars(Start(i) \/ Resume(i))
  /\ \A s \in Sockets : WF_vars(Drain(s) \/ Close(s))
  /\ WF_vars(Receive)

-----------------------------------------------------------------------------
(* Properties                                                               *)

\* What the page is told of one exchange comes in the order it happened, although
\* every change has a task of its own that sends to one socket after another.  Two
\* things disturb that, until all that is under way has come in: a console that
\* leaves while tasks wait for it, and one that connects while tasks wait if the
\* table of the consoles changes its order.
FeedInOrder ==
  orderly => \A i, j \in DOMAIN inbox :
               i < j /\ inbox[i].x = inbox[j].x => inbox[i].rank =< inbox[j].rank

AtRest == page = "online" /\ NothingUnderWay /\ \A r \in Requests : answers[r].state = "none"

Pending == {x \in Exchanges : row[x] = 1}
Shown   == {x \in Exchanges : list[x] = 1}

\* The pending requests the page shows are those there are, once everything sent
\* has come in, but for exchanges whose last change slipped past it: it sent no
\* message (a handler raised, a restart), its message found the page unconnected, was
\* lost with its connection or came in disorder, a list read before it was applied
\* after it, or a list was cut at its limit or failed.  A list read later, with no
\* older news or answer still to come, makes good for all of them.
QueueShown == AtRest => Shown \ missed = Pending \ missed

\* README.md:33 says that a request appears in the console's queue when the
\* harness sends it: a console that is connected, with nothing under way, shows
\* every request that can be answered (unless it has missed everything, as when its
\* list failed, and it said so).
QueueShows ==
  AtRest /\ missed # Exchanges => Pending \cap runtimes \subseteq Shown

\* A change reaches every page its broadcast set out for, however slow the
\* others are and whichever of them leave, unless the page itself leaves.
ChangeDelivered ==
  \A x \in Exchanges, rank \in 1..3 :
    LET underWay == \E t \in Range(tasks) :
                      t.x = x /\ t.rank = rank /\ at \in t.todo
    IN  underWay ~> (list[x] = rank \/ page # "online")

=============================================================================
