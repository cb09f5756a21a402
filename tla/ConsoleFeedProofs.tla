-------------------------- MODULE ConsoleFeedProofs --------------------------
(***************************************************************************)
(* Theorems about the operator's queue: what a page is told of an exchange *)
(* comes in order, and the pending requests it shows are those there are.  *)
(*                                                                         *)
(* What carries both: at every socket the broadcasts stay in the order of  *)
(* their tasks, because a task that started earlier waits further on in    *)
(* the table, where a later one has to wait behind it.                     *)
(***************************************************************************)
EXTENDS ConsoleFeed, SelectionTheorems

Ranks    == 0..3
Tasks    == [x : Exchanges, rank : 1..3, todo : SUBSET Sockets, order : Orders,
             waits : Sockets \cup {0}, started : BOOLEAN]
Messages == [x : Exchanges, rank : 1..3]
Answers  == [state : {"none", "asked", "answered"}, filter : Filters, rows : [Exchanges -> Ranks]]

TypeInv ==
  /\ row \in [Exchanges -> Ranks] /\ list \in [Exchanges -> Ranks]
  /\ tasks \in Seq(Tasks) /\ inbox \in Seq(Messages)
  /\ clients \subseteq Sockets /\ order \in Orders /\ slow \subseteq Sockets
  /\ socket \in [Sockets -> {"unused", "open", "closing", "closed"}]
  /\ at \in Sockets \cup {0} /\ page \in {"loading", "offline", "online"}
  /\ filter \in Filters /\ answers \in [Requests -> Answers]
  /\ runtimes \subseteq Exchanges /\ missed \subseteq Exchanges /\ orderly \in BOOLEAN

\* A console whose socket is open is registered; a page without one has no mail;
\* nothing is sent to a socket before it opens.
SocketInv ==
  /\ \A s \in Sockets : socket[s] = "open" => s \in clients
  /\ \A s \in clients : socket[s] # "unused"
  /\ \A i \in DOMAIN tasks : \A s \in tasks[i].todo : socket[s] # "unused"
  /\ at # 0 => socket[at] = "open"
  /\ at = 0 => inbox = <<>>
  /\ at = 0 <=> page # "online"

\* Nothing is told, shown or read that is ahead of the row; what can be answered has
\* one.
RankInv ==
  /\ \A x \in Exchanges : /\ list[x] =< row[x]
                          /\ \A r \in Requests : answers[r].rows[x] =< row[x]
  /\ \A k \in DOMAIN inbox : inbox[k].rank =< row[inbox[k].x]
  /\ \A i \in DOMAIN tasks : tasks[i].rank =< row[tasks[i].x]
  /\ \A x \in runtimes : row[x] \in 1..2

\* The tasks start, and tell of an exchange, in the order they were made.
TaskInv ==
  /\ \A i \in DOMAIN tasks : tasks[i].started <=> tasks[i].waits # 0
  /\ \A i, j \in DOMAIN tasks : i < j =>
       /\ tasks[j].started => tasks[i].started
       /\ tasks[i].x = tasks[j].x => tasks[i].rank =< tasks[j].rank

\* A task that waits has everything behind that socket before it, and whatever an
\* earlier one has left to do there.
Behind(task, s) == order[s] > order[task.waits]
Left(task)      == task.todo \cup {task.waits}

WaitInv ==
  \A i \in DOMAIN tasks : tasks[i].started =>
    /\ tasks[i].order = order /\ socket[tasks[i].waits] = "open"
    /\ \A s \in tasks[i].todo : Behind(tasks[i], s)

QueueInv ==
  \A i, j \in DOMAIN tasks : i < j /\ tasks[j].started =>
    /\ order[tasks[i].waits] >= order[tasks[j].waits]
    /\ \A s \in Left(tasks[i]) : socket[s] = "open" /\ Behind(tasks[j], s) => s \in tasks[j].todo

\* What the page is still to hear: from its inbox, or from a task.
ToPage(task) == at # 0 /\ (task.started => at \in task.todo)
Mailed(x, rank)   == \E k \in DOMAIN inbox : inbox[k] = [x |-> x, rank |-> rank]
ToSend(x, rank)   == \E i \in DOMAIN tasks : ToPage(tasks[i]) /\ tasks[i].x = x
                                             /\ tasks[i].rank = rank
UnderWay(x, rank) == Mailed(x, rank) \/ ToSend(x, rank)

\* What the inbox says of an exchange comes in order, and what a task will send is no
\* older.
InboxInv ==
  \A i, j \in DOMAIN inbox :
    i < j /\ inbox[i].x = inbox[j].x => inbox[i].rank =< inbox[j].rank

MailInv ==
  \A k \in DOMAIN inbox, i \in DOMAIN tasks :
    ToPage(tasks[i]) /\ inbox[k].x = tasks[i].x => inbox[k].rank =< tasks[i].rank

OrderInv == WaitInv /\ QueueInv /\ InboxInv /\ MailInv

\* As long as a task tells of an exchange, one tells its present state; as long as
\* the page is to hear of it, it is to hear that.
Latest(x) ==
  (\E i \in DOMAIN tasks : tasks[i].x = x) =>
    \E j \in DOMAIN tasks : tasks[j].x = x /\ tasks[j].rank = row[x]

Heard(x) == (\E rank \in 1..3 : UnderWay(x, rank)) => UnderWay(x, row[x])

\* The page shows whether it is pending, or is to hear of it, or its list will say it.
Right(x) ==
  (\A r \in Requests : ~Rebuilds(r)) => UnderWay(x, row[x]) \/ (list[x] = 1 <=> row[x] = 1)

Read(x) ==
  \A r \in Requests : answers[r].state = "answered" =>
    answers[r].rows[x] = IF Matches(answers[r].filter, row[x]) THEN row[x] ELSE 0

Known(x) == Latest(x) /\ Heard(x) /\ Right(x) /\ Read(x)

\* Nothing tells of the exchange.
Quiet(x) ==
  /\ \A i \in DOMAIN tasks : tasks[i].x # x
  /\ \A k \in DOMAIN inbox : inbox[k].x # x

BaseInv == TypeInv /\ SocketInv /\ RankInv /\ TaskInv

\* In disorder only what nothing tells of is known.
KnownInv == \A x \in Exchanges \ missed : Known(x) /\ (orderly \/ Quiet(x))

IInv == BaseInv /\ (orderly => OrderInv) /\ KnownInv

-----------------------------------------------------------------------------
(* What the steps do                                                        *)

LEMMA Bounds ==
  /\ Sockets \subseteq Nat \ {0} /\ Exchanges \subseteq Nat
  /\ \A o \in Orders : /\ o \in [Sockets -> Sockets]
                       /\ \A a, b \in Sockets : o[a] = o[b] => a = b
BY BoundsAssumption DEF Sockets, Exchanges, Orders, Injection, IsInjective

LEMMA FirstOrder == InOrder \in Orders
BY DEF InOrder, Orders, Injection, IsInjective

\* What is in the queues.
LEMMA Members ==
  ASSUME TypeInv
  PROVE  /\ \A k \in DOMAIN inbox : /\ inbox[k] \in Messages
                                    /\ inbox[k].x \in Exchanges /\ inbox[k].rank \in 1..3
         /\ \A i \in DOMAIN tasks :
              /\ tasks[i] \in Tasks
              /\ tasks[i].x \in Exchanges /\ tasks[i].rank \in 1..3
              /\ tasks[i].todo \subseteq Sockets /\ tasks[i].waits \in Sockets \cup {0}
         /\ DOMAIN inbox \subseteq Nat \ {0} /\ DOMAIN tasks \subseteq Nat \ {0}
<1>1. inbox \in Seq(Messages) /\ tasks \in Seq(Tasks)
  BY DEF TypeInv
<1>2. /\ DOMAIN inbox = 1..Len(inbox) /\ DOMAIN tasks = 1..Len(tasks)
      /\ Len(inbox) \in Nat /\ Len(tasks) \in Nat
  BY <1>1, LenProperties
<1>3. /\ \A k \in DOMAIN inbox : inbox[k] \in Messages
      /\ \A i \in DOMAIN tasks : tasks[i] \in Tasks
  BY <1>1, <1>2, ElementOfSeq
<1>4. \A m \in Messages : m.x \in Exchanges /\ m.rank \in 1..3
  BY DEF Messages
<1>5. \A t \in Tasks : /\ t.x \in Exchanges /\ t.rank \in 1..3
                       /\ t.todo \subseteq Sockets /\ t.waits \in Sockets \cup {0}
  BY DEF Tasks
<1> QED
  BY <1>2, <1>3, <1>4, <1>5

LEMMA AnswerTypes ==
  ASSUME TypeInv
  PROVE  \A r \in Requests : /\ answers[r].filter \in Filters
                              /\ \A x \in Exchanges : answers[r].rows[x] \in Nat
<1>1. \A r \in Requests : answers[r] \in Answers
  BY DEF TypeInv
<1>2. \A t \in Answers : t.filter \in Filters /\ \A x \in Exchanges : t.rows[x] \in Nat
  BY DEF Answers, Ranks
<1> QED
  BY <1>1, <1>2

\* A change never lowers the rank of a row, whether it is told or not.
LEMMA RuntimeSteps ==
  ASSUME TypeInv, RankInv, Runtime
  PROVE  /\ \E x \in Exchanges, rank \in 1..3 :
              row[x] =< rank /\ (Change(x, rank) \/ ChangeSilently(x, rank))
         /\ runtimes' \subseteq Exchanges /\ \A y \in runtimes' : row'[y] \in 1..2
<1>1. PICK x \in Exchanges : \/ Arrive(x) \/ Reject(x) \/ ArriveUnflagged(x)
                             \/ Activate(x) \/ ActivateUnpaced(x) \/ Notice(x) \/ End(x)
  BY DEF Runtime
<1>2. /\ row \in [Exchanges -> 0..3] /\ runtimes \subseteq Exchanges
      /\ \A y \in runtimes : row[y] \in 1..2
  BY DEF TypeInv, RankInv, Ranks
<1>3. ASSUME NEW rank, Change(x, rank) \/ ChangeSilently(x, rank)
      PROVE  row' = [row EXCEPT ![x] = rank]
  BY <1>3 DEF Change, ChangeSilently
<1>4. CASE Arrive(x)
  BY <1>2, <1>3, <1>4 DEF Arrive, Comes
<1>5. CASE Reject(x)
  BY <1>2, <1>3, <1>5 DEF Reject, Comes
<1>6. CASE ArriveUnflagged(x)
  BY <1>2, <1>3, <1>6 DEF ArriveUnflagged, Comes
<1>7. CASE Activate(x)
  BY <1>2, <1>3, <1>7 DEF Activate
<1>8. CASE ActivateUnpaced(x)
  BY <1>2, <1>3, <1>8 DEF ActivateUnpaced
<1>9. CASE Notice(x)
  BY <1>2, <1>3, <1>9 DEF Notice
<1>10. CASE End(x)
  BY <1>2, <1>3, <1>10 DEF End
<1> QED
  BY <1>1, <1>4, <1>5, <1>6, <1>7, <1>8, <1>9, <1>10

\* It adds a task behind the others.
LEMMA Changed ==
  ASSUME TypeInv, NEW x \in Exchanges, NEW rank \in 1..3, Change(x, rank)
  PROVE  LET n == Len(tasks)
             t == [x |-> x, rank |-> rank, todo |-> {}, order |-> InOrder,
                   waits |-> 0, started |-> FALSE]
         IN  /\ n \in Nat /\ DOMAIN tasks = 1..n /\ DOMAIN tasks' = 1..n + 1
             /\ tasks' \in Seq(Tasks)
             /\ \A i \in 1..n : tasks'[i] = tasks[i]
             /\ tasks'[n + 1] = t
             /\ tasks'[n + 1].x = x /\ tasks'[n + 1].rank = rank
             /\ tasks'[n + 1].waits = 0 /\ ~tasks'[n + 1].started
             /\ tasks'[n + 1].todo = {}
<1> DEFINE t == [x |-> x, rank |-> rank, todo |-> {}, order |-> InOrder,
                 waits |-> 0, started |-> FALSE]
<1>1. t \in Tasks
  BY FirstOrder DEF Tasks
<1>2. tasks \in Seq(Tasks) /\ tasks' = Append(tasks, t)
  BY DEF Change, TypeInv
<1> HIDE DEF t
<1>3. /\ Append(tasks, t) \in Seq(Tasks) /\ Len(Append(tasks, t)) = Len(tasks) + 1
      /\ \A i \in 1..Len(tasks) : Append(tasks, t)[i] = tasks[i]
      /\ Append(tasks, t)[Len(tasks) + 1] = t
  BY <1>1, <1>2, AppendProperties
<1>4. Len(tasks) \in Nat /\ DOMAIN tasks = 1..Len(tasks) /\ DOMAIN tasks' = 1..Len(tasks')
  BY <1>2, <1>3, LenProperties
<1>5. t.x = x /\ t.rank = rank /\ t.waits = 0 /\ ~t.started /\ t.todo = {}
  BY DEF t
<1> QED
  BY <1>2, <1>3, <1>4, <1>5 DEF t

\* A broadcast task starts in its turn, or goes on where it waited.
Starts(i, task) ==
  /\ ~tasks[i].started /\ task = Begun(tasks[i])
  /\ \A j \in 1..i - 1 : tasks[j].started

Resumes(i, task) ==
  /\ tasks[i].waits # 0 /\ task = tasks[i]
  /\ \A j \in 1..i - 1 : tasks[j].waits # tasks[i].waits

\* Then it is done, or waits further on.
Done(i, task) ==
  /\ \A s \in task.todo : ~Waits(s)
  /\ tasks' = RemoveAt(tasks, i)
  /\ Send(task, task.todo)

Upto(task, n) == {s \in task.todo : task.order[s] =< task.order[n]}

WaitsNext(i, task, n) ==
  /\ \A s \in task.todo : Waits(s) => task.order[n] =< task.order[s]
  /\ tasks' = [tasks EXCEPT ![i] = [task EXCEPT !.waits = n,
                                                !.todo = task.todo \ Upto(task, n)]]
  /\ Send(task, Upto(task, n))

LEMMA TaskType ==
  ASSUME TypeInv, TaskInv, NEW i \in DOMAIN tasks, NEW task,
         Starts(i, task) \/ Resumes(i, task)
  PROVE  /\ task \in Tasks /\ tasks[i] \in Tasks /\ task.started
         /\ task.x = tasks[i].x /\ task.rank = tasks[i].rank /\ task.waits = tasks[i].waits
<1>1. tasks[i] \in Tasks /\ order \in Orders /\ clients \subseteq Sockets
  BY ElementOfSeq, LenProperties DEF TypeInv
<1>2. CASE Starts(i, task)
  BY <1>1, <1>2 DEF Starts, Begun, Tasks
<1>3. CASE Resumes(i, task)
  BY <1>1, <1>3 DEF Resumes, TaskInv
<1> QED
  BY <1>2, <1>3

LEMMA BroadcastSteps ==
  ASSUME TypeInv, TaskInv, Broadcast
  PROVE  \E i \in DOMAIN tasks, task \in Tasks :
           /\ Starts(i, task) \/ Resumes(i, task)
           /\ Done(i, task) \/ \E n \in task.todo : Waits(n) /\ WaitsNext(i, task, n)
<1>1. PICK i \in DOMAIN tasks : Start(i) \/ Resume(i)
  BY DEF Broadcast
<1>2. (Starts(i, Begun(tasks[i])) /\ SendOn(i, Begun(tasks[i])))
        \/ (Resumes(i, tasks[i]) /\ SendOn(i, tasks[i]))
  BY <1>1 DEF Start, Resume, Starts, Resumes
<1>3. ASSUME NEW task, Starts(i, task) \/ Resumes(i, task), SendOn(i, task)
      PROVE  /\ task \in Tasks
             /\ Done(i, task) \/ \E n \in task.todo : Waits(n) /\ WaitsNext(i, task, n)
  <2>1. task \in Tasks
    BY <1>3, TaskType
  <2> QED
    BY <1>3, <2>1 DEF SendOn, Done, WaitsNext, Upto
<1> QED
  BY <1>2, <1>3

\* The tasks of before that are there still, and the one that waits.
LEMMA AfterWaiting ==
  ASSUME TypeInv, NEW i \in DOMAIN tasks, NEW task \in Tasks, NEW n \in task.todo,
         WaitsNext(i, task, n)
  PROVE  /\ tasks' \in Seq(Tasks) /\ DOMAIN tasks' = DOMAIN tasks
         /\ \A k \in DOMAIN tasks \ {i} : tasks'[k] = tasks[k]
         /\ tasks'[i].x = task.x /\ tasks'[i].rank = task.rank
         /\ tasks'[i].started = task.started /\ tasks'[i].order = task.order
         /\ tasks'[i].waits = n /\ tasks'[i].todo = task.todo \ Upto(task, n)
<1> DEFINE t == [task EXCEPT !.waits = n, !.todo = task.todo \ Upto(task, n)]
<1>1. /\ t \in Tasks
      /\ t.x = task.x /\ t.rank = task.rank /\ t.started = task.started
      /\ t.order = task.order /\ t.waits = n /\ t.todo = task.todo \ Upto(task, n)
  BY DEF Tasks
<1>2. tasks \in Seq(Tasks) /\ tasks' = [tasks EXCEPT ![i] = t]
  BY DEF WaitsNext, TypeInv
<1> HIDE DEF t
<1>3. i \in 1..Len(tasks) /\ DOMAIN tasks = 1..Len(tasks)
  BY <1>2, LenProperties
<1>4. /\ tasks' \in Seq(Tasks) /\ Len(tasks') = Len(tasks)
      /\ \A k \in 1..Len(tasks) : tasks'[k] = IF k = i THEN t ELSE tasks[k]
  BY <1>1, <1>2, <1>3, ExceptSeq
<1>5. DOMAIN tasks' = 1..Len(tasks')
  BY <1>4, LenProperties
<1> QED
  BY <1>1, <1>3, <1>4, <1>5 DEF t

LEMMA AfterDone ==
  ASSUME TypeInv, NEW i \in DOMAIN tasks, tasks' = RemoveAt(tasks, i)
  PROVE  /\ tasks' \in Seq(Tasks)
         /\ \A k \in DOMAIN tasks' :
              \E j \in DOMAIN tasks \ {i} : tasks'[k] = tasks[j] /\ k = IF j < i THEN j ELSE j - 1
         /\ \A j \in DOMAIN tasks \ {i} :
              \E k \in DOMAIN tasks' : tasks'[k] = tasks[j] /\ k = IF j < i THEN j ELSE j - 1
BY Removed, RemovedElements DEF TypeInv

\* What a send adds to the inbox.
LEMMA SendMails ==
  ASSUME TypeInv, NEW task \in Tasks, NEW reached, Send(task, reached)
  PROVE  LET n == Len(inbox)
             m == [x |-> task.x, rank |-> task.rank]
         IN  /\ n \in Nat /\ DOMAIN inbox = 1..n /\ inbox' \in Seq(Messages)
             /\ m \in Messages
             /\ \A k \in 1..n : inbox'[k] = inbox[k]
             /\ at \notin reached => inbox' = inbox
             /\ at \in reached => /\ DOMAIN inbox' = 1..n + 1 /\ inbox'[n + 1] = m
                                  /\ inbox'[n + 1].x = task.x
                                  /\ inbox'[n + 1].rank = task.rank
<1> DEFINE m == [x |-> task.x, rank |-> task.rank]
<1>1. m \in Messages /\ m.x = task.x /\ m.rank = task.rank
  BY DEF Tasks, Messages
<1>2. /\ inbox \in Seq(Messages)
      /\ inbox' = IF at \in reached THEN Append(inbox, m) ELSE inbox
  BY DEF Send, TypeInv
<1> HIDE DEF m
<1>3. Len(inbox) \in Nat /\ DOMAIN inbox = 1..Len(inbox)
  BY <1>2, LenProperties
<1>4. CASE at \in reached
  <2>1. /\ inbox' \in Seq(Messages) /\ Len(inbox') = Len(inbox) + 1
        /\ \A k \in 1..Len(inbox) : inbox'[k] = inbox[k]
        /\ inbox'[Len(inbox) + 1] = m
    BY <1>1, <1>2, <1>4, AppendProperties
  <2>2. DOMAIN inbox' = 1..Len(inbox')
    BY <2>1, LenProperties
  <2> QED
    BY <1>1, <1>3, <1>4, <2>1, <2>2 DEF m
<1>5. CASE at \notin reached
  BY <1>1, <1>2, <1>3, <1>5 DEF m
<1> QED
  BY <1>4, <1>5

-----------------------------------------------------------------------------
(* Types                                                                    *)

LEMMA TypeInit == Init => TypeInv
<1> SUFFICES ASSUME Init PROVE TypeInv
  OBVIOUS
<1>1. NoRows \in [Exchanges -> Ranks]
  BY DEF NoRows, Ranks
<1>2. answers \in [Requests -> Answers]
  BY <1>1 DEF Init, NoAnswer, Answers, Filters
<1> QED
  BY <1>1, <1>2, FirstOrder, EmptySeq DEF Init, TypeInv, Filters

LEMMA SendType ==
  ASSUME TypeInv, NEW task \in Tasks, NEW reached, Send(task, reached), tasks' \in Seq(Tasks)
  PROVE  TypeInv'
<1>1. inbox' \in Seq(Messages) /\ clients' \subseteq Sockets
  BY SendMails DEF Send, TypeInv
<1> QED
  BY <1>1 DEF Send, tab, TypeInv

LEMMA TypeStep ==
  ASSUME TypeInv, RankInv, TaskInv, [Next]_vars
  PROVE  TypeInv'
<1>0. NoRows \in [Exchanges -> Ranks] /\ NoAnswer \in Answers
  BY DEF NoRows, Ranks, NoAnswer, Answers, Filters
<1>1. ASSUME Runtime PROVE TypeInv'
  <2>1. /\ runtimes' \subseteq Exchanges
        /\ \E x \in Exchanges, rank \in 1..3 : Change(x, rank) \/ ChangeSilently(x, rank)
    BY <1>1, RuntimeSteps
  <2>2. PICK x \in Exchanges, rank \in 1..3 : Change(x, rank) \/ ChangeSilently(x, rank)
    BY <2>1
  <2>3. tasks' \in Seq(Tasks)
    BY <2>2, Changed DEF ChangeSilently, TypeInv
  <2>4. row' \in [Exchanges -> Ranks] /\ missed' \subseteq Exchanges
    BY <2>2 DEF Change, ChangeSilently, TypeInv, Ranks
  <2>5. UNCHANGED <<clients, order, net, tab, orderly>>
    BY <2>2 DEF Change, ChangeSilently
  <2> QED
    BY <2>1, <2>3, <2>4, <2>5 DEF TypeInv, net, tab
<1>2. ASSUME Broadcast PROVE TypeInv'
  <2>1. PICK i \in DOMAIN tasks, task \in Tasks :
          Done(i, task) \/ \E n \in task.todo : WaitsNext(i, task, n)
    BY <1>2, BroadcastSteps
  <2>2. CASE Done(i, task)
    BY <2>2, SendType, AfterDone DEF Done
  <2>3. ASSUME NEW n \in task.todo, WaitsNext(i, task, n) PROVE TypeInv'
    <3>1. tasks' \in Seq(Tasks)
      BY <2>3, AfterWaiting
    <3> QED
      BY <2>3, <3>1, SendType DEF WaitsNext
  <2> QED
    BY <2>1, <2>2, <2>3
<1>u. UnderWayOf \subseteq Exchanges
  BY Members DEF UnderWayOf, Range
<1>3. ASSUME NEW s \in Sockets, Open(s), at' \in {at, s}, page' \in {page, "online"}
      PROVE  TypeInv'
  BY <1>u, <1>3 DEF Open, TypeInv
<1>4. ASSUME NEW s \in Sockets, Lose(s) PROVE TypeInv'
  <2>1. inbox' \in Seq(Messages)
    BY <1>4, EmptySeq DEF Lose, TypeInv
  <2>2. missed' \subseteq Exchanges /\ orderly' \in BOOLEAN
    BY <1>u, <1>4 DEF Lose, TypeInv
  <2> QED
    BY <1>4, <2>1, <2>2 DEF Lose, TypeInv, server
<1>5. ASSUME NEW s \in Sockets, Discard(s) \/ Close(s) \/ Fill(s) \/ Drain(s) PROVE TypeInv'
  BY <1>5 DEF Discard, Close, Fill, Drain, TypeInv, server, net, tab, history
<1>6. ASSUME Restart PROVE TypeInv'
  <2>1. inbox' \in Seq(Messages) /\ tasks' \in Seq(Tasks)
    BY <1>6, EmptySeq DEF Restart
  <2>2. row' \in [Exchanges -> Ranks]
    BY <1>6 DEF Restart, TypeInv, Ranks
  <2>3. answers' \in [Requests -> Answers]
    BY <1>0, <1>6 DEF Restart, TypeInv
  <2> QED
    BY <1>6, <2>1, <2>2, <2>3 DEF Restart, TypeInv
<1>7. ASSUME Receive PROVE TypeInv'
  <2>1. Head(inbox) \in Messages /\ Tail(inbox) \in Seq(Messages)
    BY <1>7, HeadTailProperties DEF Receive, TypeInv
  <2> QED
    BY <1>7, <2>1 DEF Receive, OnSummary, TypeInv, Messages, Ranks, server
<1>8. ASSUME NEW r \in Requests, NEW f \in Filters, Ask(r, f) PROVE TypeInv'
  <2>1. [NoAnswer EXCEPT !.state = "asked", !.filter = f] \in Answers
    BY <1>0 DEF Answers
  <2> QED
    BY <1>8, <2>1 DEF Ask, TypeInv, server, net, history
<1>9. ASSUME NEW r \in Requests, ServeList(r) PROVE TypeInv'
  <2> DEFINE rows == [x \in Exchanges |-> IF x \in Listed(answers[r].filter) THEN row[x] ELSE 0]
  <2>0. rows \in [Exchanges -> Ranks]
    BY DEF TypeInv, Ranks
  <2>a. answers' = [answers EXCEPT ![r] = [answers[r] EXCEPT !.state = "answered", !.rows = rows]]
    BY <1>9 DEF ServeList, TypeInv, Answers
  <2> HIDE DEF rows
  <2>1. answers' \in [Requests -> Answers]
    BY <2>0, <2>a DEF TypeInv, Answers
  <2>2. missed' \subseteq Exchanges
    BY <1>9 DEF ServeList, TypeInv
  <2> QED
    BY <1>9, <2>1, <2>2 DEF ServeList, TypeInv, server, net
<1>10. ASSUME NEW r \in Requests, ApplyList(r) \/ FailList(r) PROVE TypeInv'
  <2>1. list' \in [Exchanges -> Ranks] /\ missed' \subseteq Exchanges
    <3>1. answers[r].rows \in [Exchanges -> Ranks]
      BY DEF TypeInv, Answers
    <3> QED
      BY <1>10, <3>1 DEF ApplyList, FailList, TypeInv, Ranks
  <2>2. Over(r)
    BY <1>10 DEF ApplyList, FailList
  <2> QED
    BY <1>0, <2>1, <2>2 DEF Over, TypeInv, server, net
<1>11. ASSUME UNCHANGED vars PROVE TypeInv'
  BY <1>11 DEF vars, server, net, tab, history, TypeInv
<1>12. ASSUME Connect \/ OtherConnects PROVE TypeInv'
  BY <1>3, <1>12 DEF Connect, OtherConnects
<1>13. ASSUME Load PROVE TypeInv'
  <2>1. Ask(1, filter) /\ filter \in Filters
    BY <1>13 DEF Load, TypeInv
  <2>2. 1 \in Requests
    BY BoundsAssumption DEF Requests
  <2> QED
    BY <1>8, <2>1, <2>2
<1> QED
  BY <1>1, <1>2, <1>4, <1>5, <1>6, <1>7, <1>8, <1>9, <1>10, <1>11, <1>12, <1>13
     DEF Next, Network, Page, RequestList

-----------------------------------------------------------------------------
(* Sockets, ranks, the tasks' order                                         *)

LEMMA SocketStep ==
  ASSUME TypeInv, RankInv, TaskInv, SocketInv, [Next]_vars
  PROVE  SocketInv'
<1>1. ASSUME Runtime PROVE SocketInv'
  <2>1. PICK x \in Exchanges, rank \in 1..3 : Change(x, rank) \/ ChangeSilently(x, rank)
    BY <1>1, RuntimeSteps
  <2>2. ASSUME Change(x, rank)
        PROVE  \A i \in DOMAIN tasks' : tasks'[i].todo = {} \/ \E j \in DOMAIN tasks : tasks'[i] = tasks[j]
    <3> DEFINE n == Len(tasks)
    <3>1. /\ n \in Nat /\ DOMAIN tasks = 1..n /\ DOMAIN tasks' = 1..n + 1
          /\ \A i \in 1..n : tasks'[i] = tasks[i]
          /\ tasks'[n + 1].todo = {}
      BY <2>2, Changed
    <3> HIDE DEF n
    <3> QED
      BY <3>1
  <2>3. CASE Change(x, rank)
    BY <2>2, <2>3 DEF Change, SocketInv, net, tab
  <2>4. CASE ChangeSilently(x, rank)
    BY <2>4 DEF ChangeSilently, SocketInv, net, tab
  <2> QED
    BY <2>1, <2>3, <2>4
<1>2. ASSUME Broadcast PROVE SocketInv'
  <2>1. PICK i \in DOMAIN tasks, task \in Tasks :
          /\ Starts(i, task) \/ Resumes(i, task)
          /\ Done(i, task) \/ \E n \in task.todo : WaitsNext(i, task, n)
    BY <1>2, BroadcastSteps
  <2>2. PICK reached \in SUBSET task.todo : Send(task, reached)
    BY <2>1 DEF Done, WaitsNext, Upto
  <2>3. at = 0 => at \notin reached
    BY Bounds DEF Tasks
  <2>4. \A s \in task.todo : socket[s] # "unused"
    <3>1. CASE Starts(i, task)
      <4>1. task.todo = clients
        BY <3>1, Members DEF Starts, Begun, Tasks
      <4> QED
        BY <4>1 DEF SocketInv
    <3>2. CASE Resumes(i, task)
      BY <3>2 DEF Resumes, SocketInv
    <3> QED
      BY <2>1, <3>1, <3>2
  <2>5. \A k \in DOMAIN tasks' : \A s \in tasks'[k].todo : socket[s] # "unused"
    <3>1. CASE Done(i, task)
      BY <3>1, AfterDone DEF Done, SocketInv
    <3>2. ASSUME NEW n \in task.todo, WaitsNext(i, task, n)
          PROVE  \A k \in DOMAIN tasks' : \A s \in tasks'[k].todo : socket[s] # "unused"
      <4>1. /\ DOMAIN tasks' = DOMAIN tasks
            /\ \A k \in DOMAIN tasks \ {i} : tasks'[k] = tasks[k]
            /\ tasks'[i].todo \subseteq task.todo
        BY <3>2, AfterWaiting
      <4> QED
        BY <2>4, <4>1 DEF SocketInv
    <3> QED
      BY <2>1, <3>1, <3>2
  <2> QED
    BY <2>2, <2>3, <2>5 DEF Send, SocketInv, tab
<1>3. ASSUME NEW s \in Sockets, Open(s), inbox' = inbox, at' = at, page' = page PROVE SocketInv'
  BY <1>3, Members DEF Open, SocketInv, TypeInv
<1>4. ASSUME Connect PROVE SocketInv'
  <2>1. PICK s \in Sockets : Open(s) /\ at' = s
    BY <1>4 DEF Connect
  <2> QED
    BY <1>4, <2>1, Bounds, Members DEF Connect, Open, SocketInv, TypeInv
<1>5. ASSUME NEW s \in Sockets, Lose(s) PROVE SocketInv'
  <2>1. /\ UNCHANGED <<tasks, clients>>
        /\ \A u \in Sockets : socket'[u] = IF u = s THEN "closing" ELSE socket[u]
    BY <1>5 DEF Lose, TypeInv, server
  <2> QED
    BY <1>5, <2>1, Members DEF Lose, SocketInv, TypeInv
<1>6. ASSUME NEW s \in Sockets, Discard(s) \/ Close(s) \/ Fill(s) \/ Drain(s) PROVE SocketInv'
  <2>1. /\ UNCHANGED <<tasks, at, inbox, page>>
        /\ \A u \in Sockets : \/ socket'[u] = socket[u]
                              \/ socket[u] = "closing" /\ socket'[u] = "closed"
        /\ clients' \subseteq clients
        /\ \A u \in clients : socket'[u] = "open" => u \in clients'
    BY <1>6 DEF Discard, Close, Fill, Drain, TypeInv, server, net, tab
  <2> QED
    BY <2>1, Members DEF SocketInv, TypeInv
<1>7. ASSUME Restart PROVE SocketInv'
  BY <1>7 DEF Restart, SocketInv
<1>8. ASSUME Receive PROVE SocketInv'
  BY <1>8 DEF Receive, SocketInv, server
<1>9. ASSUME NEW r \in Requests, NEW f,
             Ask(r, f) \/ ServeList(r) \/ ApplyList(r) \/ FailList(r)
      PROVE  SocketInv'
  <2>1. CASE Ask(r, f) \/ ServeList(r)
    BY <2>1 DEF Ask, ServeList, SocketInv, server, net
  <2>2. CASE ApplyList(r) \/ FailList(r)
    <3>1. Over(r)
      BY <2>2 DEF ApplyList, FailList
    <3>2. UNCHANGED <<socket, clients, tasks, at, inbox>>
      BY <3>1 DEF Over, server, net
    <3>3. (page' = "online") <=> (page = "online")
      BY <3>1 DEF Over
    <3> QED
      BY <3>2, <3>3 DEF SocketInv
  <2> QED
    BY <1>9, <2>1, <2>2
<1>12. ASSUME Load PROVE SocketInv'
  <2>1. 1 \in Requests
    BY BoundsAssumption DEF Requests
  <2> QED
    BY <1>9, <1>12, <2>1 DEF Load
<1>10. ASSUME UNCHANGED vars PROVE SocketInv'
  BY <1>10 DEF vars, server, net, tab, SocketInv
<1>11. ASSUME OtherConnects PROVE SocketInv'
  BY <1>3, <1>11 DEF OtherConnects, Open
<1> QED
  BY <1>1, <1>2, <1>4, <1>5, <1>6, <1>7, <1>8, <1>9, <1>10, <1>11, <1>12
     DEF Next, Network, Page, RequestList

\* Ranks only grow, and are handed on as they are.
LEMMA RankStep ==
  ASSUME TypeInv, TaskInv, RankInv, [Next]_vars
  PROVE  RankInv'
<1>m. /\ \A k \in DOMAIN inbox : inbox[k].x \in Exchanges /\ inbox[k].rank \in 1..3
      /\ \A i \in DOMAIN tasks : tasks[i].x \in Exchanges /\ tasks[i].rank \in 1..3
  BY Members
<1>1. ASSUME Runtime PROVE RankInv'
  <2>1. PICK x \in Exchanges, rank \in 1..3 :
          row[x] =< rank /\ (Change(x, rank) \/ ChangeSilently(x, rank))
    BY <1>1, RuntimeSteps
  <2>a. row' = [row EXCEPT ![x] = rank] /\ UNCHANGED <<list, answers, inbox>>
    BY <2>1 DEF Change, ChangeSilently, net, tab
  <2>2. /\ \A y \in Exchanges : row[y] =< row'[y]
        /\ row'[x] = rank /\ UNCHANGED <<list, answers, inbox>>
        /\ row \in [Exchanges -> Ranks] /\ row' \in [Exchanges -> Ranks]
    BY <2>1, <2>a DEF TypeInv, Ranks
  <2>3. ASSUME NEW y \in Exchanges
        PROVE  list'[y] =< row'[y] /\ \A r \in Requests : answers'[r].rows[y] =< row'[y]
    <3>1. /\ list[y] \in Nat /\ row[y] \in Nat /\ row'[y] \in Nat
          /\ \A r \in Requests : answers[r].rows[y] \in Nat
      BY <2>2, AnswerTypes DEF TypeInv, Ranks
    <3>2. list[y] =< row[y] /\ \A r \in Requests : answers[r].rows[y] =< row[y]
      BY DEF RankInv
    <3> QED
      BY <2>2, <3>1, <3>2
  <2>4. \A k \in DOMAIN inbox' : inbox'[k].rank =< row'[inbox'[k].x]
    BY <1>m, <2>2 DEF RankInv, Ranks
  <2>5. \A i \in DOMAIN tasks' : tasks'[i].rank =< row'[tasks'[i].x]
    <3>1. \A i \in DOMAIN tasks : tasks[i].rank =< row'[tasks[i].x]
      BY <1>m, <2>2 DEF RankInv, Ranks
    <3>2. CASE Change(x, rank)
      <4> DEFINE n == Len(tasks)
      <4>1. /\ n \in Nat /\ DOMAIN tasks = 1..n /\ DOMAIN tasks' = 1..n + 1
            /\ \A i \in 1..n : tasks'[i] = tasks[i]
            /\ tasks'[n + 1].x = x /\ tasks'[n + 1].rank = rank
        BY <3>2, Changed
      <4> HIDE DEF n
      <4> QED
        BY <2>2, <3>1, <4>1
    <3>3. CASE ChangeSilently(x, rank)
      BY <3>1, <3>3 DEF ChangeSilently
    <3> QED
      BY <2>1, <3>2, <3>3
  <2>6. \A y \in runtimes' : row'[y] \in 1..2
    BY <1>1, RuntimeSteps
  <2> QED
    BY <2>3, <2>4, <2>5, <2>6 DEF RankInv
<1>2. ASSUME Broadcast PROVE RankInv'
  <2>1. PICK i \in DOMAIN tasks, task \in Tasks :
          /\ Starts(i, task) \/ Resumes(i, task)
          /\ Done(i, task) \/ \E n \in task.todo : WaitsNext(i, task, n)
    BY <1>2, BroadcastSteps
  <2>2. task.x = tasks[i].x /\ task.rank = tasks[i].rank
    BY <2>1, TaskType
  <2>3. PICK reached : Send(task, reached)
    BY <2>1 DEF Done, WaitsNext
  <2>4. UNCHANGED <<row, list, answers, runtimes>>
    BY <2>3 DEF Send, tab
  <2>5. \A k \in DOMAIN inbox' : inbox'[k].rank =< row'[inbox'[k].x]
    <3> DEFINE n == Len(inbox)
    <3>1. /\ n \in Nat /\ DOMAIN inbox = 1..n
          /\ \A k \in 1..n : inbox'[k] = inbox[k]
          /\ at \notin reached => inbox' = inbox
          /\ at \in reached => /\ DOMAIN inbox' = 1..n + 1
                               /\ inbox'[n + 1].x = task.x /\ inbox'[n + 1].rank = task.rank
      BY <2>3, SendMails
    <3> HIDE DEF n
    <3>2. task.rank =< row[task.x]
      BY <2>2 DEF RankInv
    <3> QED
      BY <2>4, <3>1, <3>2 DEF RankInv
  <2>6. \A k \in DOMAIN tasks' : tasks'[k].rank =< row'[tasks'[k].x]
    <3>1. CASE Done(i, task)
      BY <2>4, <3>1, AfterDone DEF Done, RankInv
    <3>2. ASSUME NEW n \in task.todo, WaitsNext(i, task, n)
          PROVE  \A k \in DOMAIN tasks' : tasks'[k].rank =< row'[tasks'[k].x]
      <4>1. /\ DOMAIN tasks' = DOMAIN tasks
            /\ \A k \in DOMAIN tasks : tasks'[k].x = tasks[k].x /\ tasks'[k].rank = tasks[k].rank
        BY <2>2, <3>2, AfterWaiting
      <4> QED
        BY <2>4, <4>1 DEF RankInv
    <3> QED
      BY <2>1, <3>1, <3>2
  <2> QED
    BY <2>4, <2>5, <2>6 DEF RankInv
<1>3. ASSUME UNCHANGED <<row, list, answers, inbox, tasks, runtimes>> PROVE RankInv'
  BY <1>3 DEF RankInv
<1>4. ASSUME NEW s \in Sockets, Lose(s) PROVE RankInv'
  BY <1>4 DEF Lose, RankInv, server
<1>5. ASSUME Restart PROVE RankInv'
  <2>1. \A x \in Exchanges : row[x] =< row'[x]
    BY <1>5 DEF Restart, TypeInv, Ranks
  <2>2. ASSUME NEW x \in Exchanges
        PROVE  list'[x] =< row'[x] /\ \A r \in Requests : answers'[r].rows[x] =< row'[x]
    <3>1. \A r \in Requests : answers'[r].rows[x] = 0 \/ answers'[r].rows[x] = answers[r].rows[x]
      BY <1>5 DEF Restart, NoAnswer, NoRows
    <3>a. /\ UNCHANGED list
          /\ row' = [y \in Exchanges |-> IF row[y] \in {1, 2} THEN 3 ELSE row[y]]
      BY <1>5 DEF Restart
    <3>2. UNCHANGED list /\ row[x] \in Nat /\ row'[x] \in Nat /\ list[x] \in Nat
      BY <3>a DEF TypeInv, Ranks
    <3>3. \A r \in Requests : answers[r].rows[x] \in Nat /\ answers[r].rows[x] =< row[x]
      BY AnswerTypes DEF RankInv
    <3>4. \A r \in Requests : answers'[r].rows[x] =< row'[x]
      BY <2>1, <3>1, <3>2, <3>3
    <3> QED
      BY <2>1, <3>2, <3>4 DEF RankInv
  <2>3. DOMAIN inbox' = {} /\ DOMAIN tasks' = {} /\ runtimes' = {}
    BY <1>5 DEF Restart
  <2> QED
    BY <2>2, <2>3 DEF RankInv
<1>6. ASSUME Receive PROVE RankInv'
  <2>1. /\ Head(inbox) = inbox[1] /\ 1 \in DOMAIN inbox
        /\ \A k \in DOMAIN inbox' : k + 1 \in DOMAIN inbox /\ inbox'[k] = inbox[k + 1]
    BY <1>6, HeadTailProperties, LenProperties, EmptySeq DEF Receive, TypeInv
  <2>2. list' = [list EXCEPT ![inbox[1].x] = inbox[1].rank]
        /\ UNCHANGED <<row, answers, tasks, runtimes>>
    BY <1>6, <2>1 DEF Receive, OnSummary, server
  <2>3. \A x \in Exchanges : list'[x] =< row'[x]
    BY <2>1, <2>2 DEF RankInv, TypeInv
  <2> QED
    BY <2>1, <2>2, <2>3 DEF RankInv
<1>7. ASSUME NEW r \in Requests, NEW f, Ask(r, f) PROVE RankInv'
  <2>1. /\ UNCHANGED <<row, list, inbox, tasks, runtimes>>
        /\ \A q \in Requests, x \in Exchanges :
             answers'[q].rows[x] = 0 \/ answers'[q].rows[x] = answers[q].rows[x]
    BY <1>7 DEF Ask, TypeInv, NoAnswer, NoRows, server, net
  <2>2. \A x \in Exchanges : row[x] \in Nat
    BY DEF TypeInv, Ranks
  <2> QED
    BY <2>1, <2>2 DEF RankInv
<1>8. ASSUME NEW r \in Requests, ServeList(r) PROVE RankInv'
  <2>1. /\ UNCHANGED <<row, list, inbox, tasks, runtimes>>
        /\ \A q \in Requests, x \in Exchanges :
             answers'[q].rows[x] \in {0, row[x], answers[q].rows[x]}
    BY <1>8 DEF ServeList, TypeInv, Answers, server, net
  <2>2. \A x \in Exchanges : row[x] \in Nat
    BY DEF TypeInv, Ranks
  <2> QED
    BY <2>1, <2>2 DEF RankInv
<1>9. ASSUME NEW r \in Requests, ApplyList(r) \/ FailList(r) PROVE RankInv'
  <2>1. /\ UNCHANGED <<row, inbox, tasks, runtimes>>
        /\ \A q \in Requests, x \in Exchanges :
             answers'[q].rows[x] = 0 \/ answers'[q].rows[x] = answers[q].rows[x]
    BY <1>9 DEF ApplyList, FailList, Over, TypeInv, NoAnswer, NoRows, server, net
  <2>2. \A x \in Exchanges : list'[x] \in {0, list[x], answers[r].rows[x]}
    BY <1>9 DEF ApplyList, FailList
  <2>3. \A x \in Exchanges : row[x] \in Nat
    BY DEF TypeInv, Ranks
  <2> QED
    BY <2>1, <2>2, <2>3 DEF RankInv
<1>10. ASSUME NEW s \in Sockets,
              Open(s) \/ Discard(s) \/ Close(s) \/ Fill(s) \/ Drain(s) \/ UNCHANGED vars
       PROVE  UNCHANGED <<row, list, answers, tasks, runtimes>>
              /\ (Discard(s) \/ Close(s) \/ Fill(s) \/ Drain(s) \/ UNCHANGED vars
                    => UNCHANGED inbox)
  BY <1>10 DEF Open, Discard, Close, Fill, Drain, vars, server, net, tab
<1>11. ASSUME Connect \/ OtherConnects PROVE RankInv'
  BY <1>3, <1>11 DEF Connect, OtherConnects, Open
<1>12. ASSUME UNCHANGED vars PROVE RankInv'
  BY <1>3, <1>12 DEF vars, server, net, tab
<1>13. ASSUME Load PROVE RankInv'
  <2>1. 1 \in Requests
    BY BoundsAssumption DEF Requests
  <2> QED
    BY <1>7, <1>13, <2>1 DEF Load
<1> QED
  BY <1>1, <1>2, <1>3, <1>4, <1>5, <1>6, <1>7, <1>8, <1>9, <1>10, <1>11, <1>12, <1>13
     DEF Next, Network, Page, RequestList

LEMMA TaskStep ==
  ASSUME TypeInv, RankInv, TaskInv, [Next]_vars
  PROVE  TaskInv'
<1>1. ASSUME Runtime PROVE TaskInv'
  <2>1. PICK x \in Exchanges, rank \in 1..3 :
          row[x] =< rank /\ (Change(x, rank) \/ ChangeSilently(x, rank))
    BY <1>1, RuntimeSteps
  <2>2. CASE Change(x, rank)
    <3> DEFINE n == Len(tasks)
    <3>1. /\ n \in Nat /\ DOMAIN tasks = 1..n /\ DOMAIN tasks' = 1..n + 1
          /\ \A i \in 1..n : tasks'[i] = tasks[i]
          /\ tasks'[n + 1].x = x /\ tasks'[n + 1].rank = rank
          /\ tasks'[n + 1].waits = 0 /\ ~tasks'[n + 1].started
      BY <2>2, Changed
    <3> HIDE DEF n
    <3>2. \A i \in 1..n : tasks[i].x = x => tasks[i].rank =< rank
      <4>1. row[x] \in Nat
        BY DEF TypeInv, Ranks
      <4>2. \A i \in 1..n : tasks[i].rank \in Nat
        BY <3>1, Members
      <4> QED
        BY <2>1, <3>1, <4>1, <4>2 DEF RankInv
    <3> QED
      BY <3>1, <3>2 DEF TaskInv
  <2>3. CASE ChangeSilently(x, rank)
    BY <2>3 DEF ChangeSilently, TaskInv
  <2> QED
    BY <2>1, <2>2, <2>3
<1>2. ASSUME Broadcast PROVE TaskInv'
  <2>1. PICK i \in DOMAIN tasks, task \in Tasks :
          /\ Starts(i, task) \/ Resumes(i, task)
          /\ Done(i, task) \/ \E n \in task.todo : WaitsNext(i, task, n)
    BY <1>2, BroadcastSteps
  <2>2. CASE Done(i, task)
    <3>1. \A k \in DOMAIN tasks' :
            \E j \in DOMAIN tasks : tasks'[k] = tasks[j] /\ j # i /\ k = IF j < i THEN j ELSE j - 1
      BY <2>2, AfterDone DEF Done
    <3>2. \A k \in DOMAIN tasks' : tasks'[k].started <=> tasks'[k].waits # 0
      BY <3>1 DEF TaskInv
    <3>3. ASSUME NEW k \in DOMAIN tasks', NEW l \in DOMAIN tasks', k < l
          PROVE  /\ tasks'[l].started => tasks'[k].started
                 /\ tasks'[k].x = tasks'[l].x => tasks'[k].rank =< tasks'[l].rank
      <4>1. PICK a \in DOMAIN tasks :
              tasks'[k] = tasks[a] /\ a # i /\ k = IF a < i THEN a ELSE a - 1
        BY <3>1
      <4>2. PICK b \in DOMAIN tasks :
              tasks'[l] = tasks[b] /\ b # i /\ l = IF b < i THEN b ELSE b - 1
        BY <3>1
      <4>3. a < b
        <5>1. a \in Nat /\ b \in Nat /\ i \in Nat
          BY Members
        <5> QED
          BY <3>3, <4>1, <4>2, <5>1
      <4> QED
        BY <4>1, <4>2, <4>3 DEF TaskInv
    <3> QED
      BY <3>2, <3>3 DEF TaskInv
  <2>3. ASSUME NEW n \in task.todo, WaitsNext(i, task, n) PROVE TaskInv'
    <3>1. /\ task.started /\ task.x = tasks[i].x /\ task.rank = tasks[i].rank
          /\ n # 0
      BY <2>1, TaskType, Bounds DEF Tasks
    <3>2. /\ DOMAIN tasks' = DOMAIN tasks
          /\ \A k \in DOMAIN tasks : /\ tasks'[k].x = tasks[k].x
                                     /\ tasks'[k].rank = tasks[k].rank
                                     /\ k # i => tasks'[k] = tasks[k]
          /\ tasks'[i].started /\ tasks'[i].waits = n
      BY <2>3, <3>1, AfterWaiting
    <3>3. \A j \in DOMAIN tasks : j < i => tasks[j].started
      <4>1. \A j \in DOMAIN tasks : j < i => j \in 1..i - 1
        BY Members
      <4>2. CASE Starts(i, task)
        BY <4>1, <4>2 DEF Starts
      <4>3. CASE Resumes(i, task)
        BY <4>3 DEF Resumes, TaskInv
      <4> QED
        BY <2>1, <4>2, <4>3
    <3>4. \A k \in DOMAIN tasks' : tasks'[k].started <=> tasks'[k].waits # 0
      BY <3>1, <3>2 DEF TaskInv
    <3>5. ASSUME NEW k \in DOMAIN tasks', NEW l \in DOMAIN tasks', k < l
          PROVE  /\ tasks'[l].started => tasks'[k].started
                 /\ tasks'[k].x = tasks'[l].x => tasks'[k].rank =< tasks'[l].rank
      BY <3>2, <3>3, <3>5 DEF TaskInv
    <3> QED
      BY <3>4, <3>5 DEF TaskInv
  <2> QED
    BY <2>1, <2>2, <2>3
<1>3. ASSUME UNCHANGED tasks PROVE TaskInv'
  BY <1>3 DEF TaskInv
<1>4. ASSUME Restart PROVE TaskInv'
  BY <1>4 DEF Restart, TaskInv
<1>5. ASSUME NEW s \in Sockets,
             Open(s) \/ Lose(s) \/ Discard(s) \/ Close(s) \/ Fill(s) \/ Drain(s)
      PROVE  UNCHANGED tasks
  BY <1>5 DEF Open, Lose, Discard, Close, Fill, Drain, server
<1>6. ASSUME NEW r \in Requests, NEW f,
             Ask(r, f) \/ ServeList(r) \/ ApplyList(r) \/ FailList(r)
      PROVE  UNCHANGED tasks
  BY <1>6 DEF Ask, ServeList, ApplyList, FailList, Over, server
<1>7. ASSUME Connect \/ OtherConnects PROVE UNCHANGED tasks
  BY <1>5, <1>7 DEF Connect, OtherConnects
<1>8. ASSUME Load \/ Receive \/ UNCHANGED vars PROVE UNCHANGED tasks
  BY <1>8 DEF Load, Ask, Receive, server, vars
<1> QED
  BY <1>1, <1>2, <1>3, <1>4, <1>5, <1>6, <1>7, <1>8 DEF Next, Network, Page, RequestList

-----------------------------------------------------------------------------
(* Broadcasts stay in order                                                 *)

LEMMA Places ==
  ASSUME TypeInv
  PROVE  /\ \A s \in Sockets : order[s] \in Nat
         /\ \A s, u \in Sockets : order[s] = order[u] => s = u
<1>1. order \in [Sockets -> Sockets]
  BY Bounds DEF TypeInv
<1>2. \A s \in Sockets : order[s] \in Sockets
  BY <1>1
<1>3. \A s, u \in Sockets : order[s] = order[u] => s = u
  BY Bounds DEF TypeInv
<1> QED
  BY <1>2, <1>3, Bounds

\* A task that goes on finds in its way every socket an earlier one waits for, and
\* leaves to those behind it nothing they have passed.
LEMMA InTurn ==
  ASSUME BaseInv, WaitInv, QueueInv, NEW i \in DOMAIN tasks, NEW task \in Tasks,
         Starts(i, task) \/ Resumes(i, task)
  PROVE  /\ task.order = order
         /\ \A j \in DOMAIN tasks : j < i =>
              /\ tasks[j].started
              /\ tasks[j].waits \in task.todo /\ Waits(tasks[j].waits)
              /\ \A s \in Left(tasks[j]) : socket[s] = "open" => s \in task.todo
         /\ \A k \in DOMAIN tasks : i < k /\ tasks[k].started =>
              \A s \in task.todo :
                /\ order[s] >= order[tasks[k].waits]
                /\ socket[s] = "open" /\ Behind(tasks[k], s) => s \in tasks[k].todo
         /\ at # 0 => (ToPage(tasks[i]) <=> at \in task.todo)
<1>n. /\ \A k \in DOMAIN tasks : /\ k \in Nat
                                 /\ tasks[k].todo \subseteq Sockets
                                 /\ tasks[k].started =>
                                      /\ tasks[k].waits \in Sockets
                                      /\ order[tasks[k].waits] \in Nat
      /\ \A s \in Sockets : order[s] \in Nat
  <2>1. \A k \in DOMAIN tasks : /\ k \in Nat
                                /\ tasks[k].todo \subseteq Sockets
                                /\ tasks[k].started => tasks[k].waits \in Sockets
    BY Members DEF BaseInv, TaskInv
  <2> QED
    BY <2>1, Places DEF BaseInv
<1>w. \A j \in DOMAIN tasks : tasks[j].started => Waits(tasks[j].waits)
  BY DEF WaitInv, Waits, Range
<1>1. CASE Starts(i, task)
  <2>1. /\ task.order = order /\ task.todo = clients /\ ~tasks[i].started
        /\ \A j \in DOMAIN tasks : j < i => tasks[j].started
    BY <1>n, <1>1, Members DEF Starts, Begun, Tasks, BaseInv
  <2>2. \A s \in Sockets : socket[s] = "open" => s \in task.todo
    BY <2>1 DEF BaseInv, SocketInv
  <2>3. \A j \in DOMAIN tasks : j < i =>
          /\ tasks[j].waits \in task.todo
          /\ \A s \in Left(tasks[j]) : socket[s] = "open" => s \in task.todo
    BY <1>n, <2>1, <2>2 DEF Left, WaitInv
  <2>4. \A k \in DOMAIN tasks : i < k => ~tasks[k].started
    BY <2>1 DEF BaseInv, TaskInv
  <2>5. at # 0 => ToPage(tasks[i]) /\ at \in task.todo
    BY <2>1, <2>2 DEF ToPage, BaseInv, SocketInv, TypeInv
  <2> QED
    BY <1>w, <2>1, <2>3, <2>4, <2>5
<1>2. CASE Resumes(i, task)
  <2>1. /\ task = tasks[i] /\ tasks[i].started /\ task.order = order
        /\ \A j \in DOMAIN tasks : j < i => tasks[j].started /\ tasks[j].waits # task.waits
    <3>1. task = tasks[i] /\ tasks[i].started
      BY <1>2 DEF Resumes, BaseInv, TaskInv
    <3>2. ASSUME NEW j \in DOMAIN tasks, j < i
          PROVE  tasks[j].started /\ tasks[j].waits # task.waits
      <4>1. tasks[j].started
        BY <3>1, <3>2 DEF BaseInv, TaskInv
      <4>2. j \in 1..i - 1
        BY <3>2, Members DEF BaseInv
      <4> QED
        BY <1>2, <4>1, <4>2 DEF Resumes
    <3> QED
      BY <3>1, <3>2 DEF WaitInv
  <2>2. ASSUME NEW j \in DOMAIN tasks, j < i
        PROVE  /\ tasks[j].waits \in task.todo
               /\ \A s \in Left(tasks[j]) : socket[s] = "open" => s \in task.todo
    <3>1. order[tasks[j].waits] >= order[task.waits]
      BY <2>1, <2>2 DEF QueueInv
    <3>2. order[tasks[j].waits] # order[task.waits]
      BY <1>n, <2>1, <2>2, Places DEF BaseInv
    <3>3. Behind(task, tasks[j].waits)
      BY <1>n, <2>1, <2>2, <3>1, <3>2 DEF Behind
    <3>4. \A s \in Left(tasks[j]) : Behind(task, s)
      <4>1. \A s \in tasks[j].todo : Behind(tasks[j], s)
        BY <2>1, <2>2 DEF WaitInv
      <4>2. \A s \in tasks[j].todo : Behind(task, s)
        BY <1>n, <2>1, <2>2, <3>1, <4>1 DEF Behind
      <4> QED
        BY <3>3, <4>2 DEF Left
    <3>5. \A s \in Left(tasks[j]) : socket[s] = "open" => s \in task.todo
      BY <2>1, <2>2, <3>4 DEF QueueInv
    <3>6. tasks[j].waits \in Left(tasks[j]) /\ socket[tasks[j].waits] = "open"
      BY <2>1, <2>2 DEF Left, WaitInv
    <3> QED
      BY <3>5, <3>6
  <2>3. ASSUME NEW k \in DOMAIN tasks, i < k, tasks[k].started, NEW s \in task.todo
        PROVE  /\ order[s] >= order[tasks[k].waits]
               /\ socket[s] = "open" /\ Behind(tasks[k], s) => s \in tasks[k].todo
    <3>1. order[task.waits] >= order[tasks[k].waits] /\ Behind(task, s)
      BY <2>1, <2>3 DEF QueueInv, WaitInv
    <3>2. order[s] >= order[tasks[k].waits]
      BY <1>n, <2>1, <2>3, <3>1 DEF Behind
    <3>3. s \in Left(tasks[i])
      BY <2>1, <2>3 DEF Left
    <3> QED
      BY <2>1, <2>3, <3>2, <3>3 DEF QueueInv
  <2>4. at # 0 => (ToPage(tasks[i]) <=> at \in task.todo)
    BY <2>1 DEF ToPage
  <2> QED
    BY <1>w, <2>1, <2>2, <2>3, <2>4
<1> QED
  BY <1>1, <1>2

\* So only the first task is done, and the others stop before the sockets that
\* earlier ones have yet to reach.
LEMMA NoOvertaking ==
  ASSUME BaseInv, WaitInv, QueueInv, NEW i \in DOMAIN tasks, NEW task \in Tasks,
         Starts(i, task) \/ Resumes(i, task)
  PROVE  /\ Done(i, task) => \A j \in DOMAIN tasks : ~(j < i)
         /\ \A n \in task.todo : WaitsNext(i, task, n) =>
              \A j \in DOMAIN tasks : j < i =>
                /\ order[tasks[j].waits] >= order[n]
                /\ \A s \in tasks[j].todo : s \notin Upto(task, n)
<1>1. /\ task.order = order
      /\ \A j \in DOMAIN tasks : j < i =>
           /\ tasks[j].started
           /\ tasks[j].waits \in task.todo /\ Waits(tasks[j].waits)
  BY InTurn
<1>2. ASSUME NEW n \in task.todo, WaitsNext(i, task, n), NEW j \in DOMAIN tasks, j < i
      PROVE  /\ order[tasks[j].waits] >= order[n]
             /\ \A s \in tasks[j].todo : s \notin Upto(task, n)
  <2>1. order[n] =< order[tasks[j].waits]
    BY <1>1, <1>2 DEF WaitsNext
  <2>2. /\ order[n] \in Nat /\ order[tasks[j].waits] \in Nat
        /\ \A s \in tasks[j].todo : order[s] \in Nat
    <3>1. task.todo \subseteq Sockets /\ tasks[j].todo \subseteq Sockets
      BY Members DEF BaseInv, Tasks
    <3>2. tasks[j].waits \in Sockets
      BY <1>1, <1>2, <3>1
    <3> QED
      BY <3>1, <3>2, Places DEF BaseInv
  <2>3. \A s \in tasks[j].todo : Behind(tasks[j], s)
    BY <1>1, <1>2 DEF WaitInv
  <2> QED
    BY <1>1, <2>1, <2>2, <2>3 DEF Behind, Upto
<1> QED
  BY <1>1, <1>2 DEF Done

LEMMA BroadcastKeepsOrder ==
  ASSUME BaseInv, WaitInv, QueueInv, NEW i \in DOMAIN tasks, NEW task \in Tasks,
         Starts(i, task) \/ Resumes(i, task),
         Done(i, task) \/ \E n \in task.todo : Waits(n) /\ WaitsNext(i, task, n)
  PROVE  WaitInv' /\ QueueInv'
<1>1. UNCHANGED <<order, socket>>
  BY DEF Done, WaitsNext, Send
<1>2. CASE Done(i, task)
  <2>1. \A k \in DOMAIN tasks' :
          \E j \in DOMAIN tasks : tasks'[k] = tasks[j] /\ j # i /\ k = IF j < i THEN j ELSE j - 1
    BY <1>2, AfterDone DEF Done, BaseInv
  <2>2. WaitInv'
    BY <1>1, <2>1 DEF WaitInv, Behind
  <2>3. ASSUME NEW k \in DOMAIN tasks', NEW l \in DOMAIN tasks', k < l
        PROVE  \E a, b \in DOMAIN tasks : a < b /\ tasks'[k] = tasks[a] /\ tasks'[l] = tasks[b]
    <3>1. PICK a \in DOMAIN tasks :
            tasks'[k] = tasks[a] /\ a # i /\ k = IF a < i THEN a ELSE a - 1
      BY <2>1
    <3>2. PICK b \in DOMAIN tasks :
            tasks'[l] = tasks[b] /\ b # i /\ l = IF b < i THEN b ELSE b - 1
      BY <2>1
    <3>3. a < b
      <4>1. a \in Nat /\ b \in Nat /\ i \in Nat
        BY Members DEF BaseInv
      <4> QED
        BY <2>3, <3>1, <3>2, <4>1
    <3> QED
      BY <3>1, <3>2, <3>3
  <2>4. QueueInv'
    BY <1>1, <2>3 DEF QueueInv, Behind, Left
  <2> QED
    BY <2>2, <2>4
<1>3. ASSUME NEW n \in task.todo, Waits(n), WaitsNext(i, task, n)
      PROVE  WaitInv' /\ QueueInv'
  <2>1. /\ DOMAIN tasks' = DOMAIN tasks
        /\ \A k \in DOMAIN tasks \ {i} : tasks'[k] = tasks[k]
        /\ tasks'[i].started /\ tasks'[i].order = order
        /\ tasks'[i].waits = n /\ tasks'[i].todo = task.todo \ Upto(task, n)
    BY <1>3, AfterWaiting, TaskType, InTurn DEF BaseInv
  <2>2. /\ task.todo \subseteq Sockets /\ task.order = order
        /\ \A s \in task.todo : order[s] \in Nat
    BY InTurn, Places DEF Tasks, BaseInv
  <2>3. \A s \in task.todo : s \notin Upto(task, n) <=> order[s] > order[n]
    BY <2>2 DEF Upto
  <2>4. WaitInv'
    <3>1. socket[n] = "open" /\ \A s \in tasks'[i].todo : order[s] > order[n]
      BY <1>3, <2>1, <2>3 DEF Waits
    <3> QED
      BY <1>1, <2>1, <3>1 DEF WaitInv, Behind
  <2>5. ASSUME NEW k \in DOMAIN tasks', NEW l \in DOMAIN tasks', k < l, tasks'[l].started
        PROVE  /\ order[tasks'[k].waits] >= order[tasks'[l].waits]
               /\ \A s \in Left(tasks'[k]) :
                    socket[s] = "open" /\ order[s] > order[tasks'[l].waits] => s \in tasks'[l].todo
    <3>1. CASE k # i /\ l # i
      BY <2>1, <2>5, <3>1 DEF QueueInv, Behind
    <3>2. CASE l = i
      <4>1. /\ tasks'[k] = tasks[k] /\ order[tasks[k].waits] >= order[n]
            /\ \A s \in Left(tasks[k]) : socket[s] = "open" => s \in task.todo
        <5>1. k # i
          BY <2>5, <3>2, Members DEF BaseInv
        <5> QED
          BY <1>3, <2>1, <2>5, <3>2, <5>1, InTurn, NoOvertaking
      <4> QED
        BY <2>1, <2>3, <3>2, <4>1
    <3>3. CASE k = i
      <4>1. tasks'[l] = tasks[l] /\ tasks[l].started
        <5>1. l # i
          BY <2>5, <3>3, Members DEF BaseInv
        <5> QED
          BY <2>1, <2>5, <5>1
      <4>2. Left(tasks'[i]) \subseteq task.todo
        BY <2>1 DEF Left
      <4>3. \A s \in task.todo :
              /\ order[s] >= order[tasks[l].waits]
              /\ socket[s] = "open" /\ Behind(tasks[l], s) => s \in tasks[l].todo
        BY <2>1, <2>5, <3>3, <4>1, InTurn
      <4> QED
        BY <2>1, <3>3, <4>1, <4>2, <4>3 DEF Behind
    <3> QED
      BY <3>1, <3>2, <3>3
  <2>6. QueueInv'
    BY <1>1, <2>5 DEF QueueInv, Behind, Left
  <2> QED
    BY <2>4, <2>6
<1> QED
  BY <1>2, <1>3

\* Nothing else moves a task; what it waits for stays open.
LEMMA OrderKept ==
  ASSUME BaseInv, WaitInv, QueueInv, UNCHANGED tasks,
         order' = order \/ \A i \in DOMAIN tasks : ~tasks[i].started,
         \A i \in DOMAIN tasks :
           /\ tasks[i].started => socket'[tasks[i].waits] = "open"
           /\ tasks[i].started => \A s \in Left(tasks[i]) : socket'[s] = "open" => socket[s] = "open"
  PROVE  WaitInv' /\ QueueInv'
<1>1. CASE \A i \in DOMAIN tasks : ~tasks[i].started
  BY <1>1 DEF WaitInv, QueueInv
<1>2. CASE order' = order
  <2>1. WaitInv'
    BY <1>2 DEF WaitInv, Behind
  <2>2. \A i, j \in DOMAIN tasks : i < j /\ tasks[j].started => tasks[i].started
    BY DEF BaseInv, TaskInv
  <2>3. QueueInv'
    BY <1>2, <2>2 DEF QueueInv, Behind, Left
  <2> QED
    BY <2>1, <2>3
<1> QED
  BY <1>1, <1>2

LEMMA ChangeKeepsOrder ==
  ASSUME BaseInv, WaitInv, QueueInv, NEW x \in Exchanges, NEW rank \in 1..3, Change(x, rank)
  PROVE  WaitInv' /\ QueueInv'
<1> DEFINE n == Len(tasks)
<1>1. /\ n \in Nat /\ DOMAIN tasks = 1..n /\ DOMAIN tasks' = 1..n + 1
      /\ \A i \in 1..n : tasks'[i] = tasks[i]
      /\ ~tasks'[n + 1].started
  BY Changed DEF BaseInv
<1> HIDE DEF n
<1>2. UNCHANGED <<order, socket>>
  BY DEF Change, net
<1>3. WaitInv'
  BY <1>1, <1>2 DEF WaitInv, Behind
<1>4. ASSUME NEW i \in DOMAIN tasks', NEW j \in DOMAIN tasks', i < j, tasks'[j].started
      PROVE  i \in DOMAIN tasks /\ j \in DOMAIN tasks
             /\ tasks'[i] = tasks[i] /\ tasks'[j] = tasks[j]
  BY <1>1, <1>4
<1>5. QueueInv'
  BY <1>2, <1>4 DEF QueueInv, Behind, Left
<1> QED
  BY <1>3, <1>5

-----------------------------------------------------------------------------
(* What the page is told                                                    *)

\* The task that goes on tells the sockets it reached, none of which an earlier
\* task has still to tell; what is left of it is the rest, or nothing, and then it
\* was the first.
Rest(task, reached, k) ==
  /\ tasks'[k].x = task.x /\ tasks'[k].rank = task.rank
  /\ tasks'[k].started /\ tasks'[k].todo = task.todo \ reached

LEMMA BroadcastEffect ==
  ASSUME BaseInv, WaitInv, QueueInv, NEW i \in DOMAIN tasks, NEW task \in Tasks,
         Starts(i, task) \/ Resumes(i, task),
         Done(i, task) \/ \E n \in task.todo : Waits(n) /\ WaitsNext(i, task, n)
  PROVE  \E reached \in SUBSET task.todo :
           /\ Send(task, reached)
           /\ \A j \in DOMAIN tasks : j < i =>
                tasks[j].started /\ \A s \in tasks[j].todo : s \notin reached
           /\ \A j \in DOMAIN tasks \ {i} : \E k \in DOMAIN tasks' : tasks'[k] = tasks[j]
           /\ \/ /\ \E k \in DOMAIN tasks' : Rest(task, reached, k)
                 /\ \A k \in DOMAIN tasks' :
                      Rest(task, reached, k) \/ \E j \in DOMAIN tasks \ {i} : tasks'[k] = tasks[j]
              \/ /\ reached = task.todo
                 /\ \A j \in DOMAIN tasks : ~(j < i)
                 /\ \A k \in DOMAIN tasks' : \E j \in DOMAIN tasks \ {i} : tasks'[k] = tasks[j]
<1>0. \A j \in DOMAIN tasks : j < i => tasks[j].started
  BY InTurn
<1>1. CASE Done(i, task)
  <2>1. \A j \in DOMAIN tasks : ~(j < i)
    BY <1>1, NoOvertaking
  <2>2. Send(task, task.todo)
    BY <1>1 DEF Done
  <2>3. /\ \A j \in DOMAIN tasks \ {i} : \E k \in DOMAIN tasks' : tasks'[k] = tasks[j]
        /\ \A k \in DOMAIN tasks' : \E j \in DOMAIN tasks \ {i} : tasks'[k] = tasks[j]
    BY <1>1, AfterDone DEF Done, BaseInv
  <2> QED
    BY <2>1, <2>2, <2>3
<1>2. ASSUME NEW n \in task.todo, WaitsNext(i, task, n)
      PROVE  /\ Upto(task, n) \in SUBSET task.todo
             /\ Send(task, Upto(task, n))
             /\ \A j \in DOMAIN tasks : j < i => \A s \in tasks[j].todo : s \notin Upto(task, n)
             /\ \A j \in DOMAIN tasks \ {i} : \E k \in DOMAIN tasks' : tasks'[k] = tasks[j]
             /\ \E k \in DOMAIN tasks' : Rest(task, Upto(task, n), k)
             /\ \A k \in DOMAIN tasks' :
                  \/ Rest(task, Upto(task, n), k)
                  \/ \E j \in DOMAIN tasks \ {i} : tasks'[k] = tasks[j]
  <2>1. /\ DOMAIN tasks' = DOMAIN tasks
        /\ \A k \in DOMAIN tasks \ {i} : tasks'[k] = tasks[k]
        /\ Rest(task, Upto(task, n), i)
    BY <1>2, AfterWaiting, TaskType DEF BaseInv, Rest
  <2>2. /\ Upto(task, n) \in SUBSET task.todo
        /\ Send(task, Upto(task, n))
    BY <1>2 DEF WaitsNext, Upto
  <2>3. \A j \in DOMAIN tasks : j < i => \A s \in tasks[j].todo : s \notin Upto(task, n)
    BY <1>2, NoOvertaking
  <2> QED
    BY <2>1, <2>2, <2>3
<1>3. CASE \E n \in task.todo : WaitsNext(i, task, n)
  <2>1. PICK n \in task.todo : WaitsNext(i, task, n)
    BY <1>3
  <2> QED
    BY <1>0, <1>2, <2>1
<1> QED
  BY <1>1, <1>3

LEMMA BroadcastTells ==
  ASSUME BaseInv, OrderInv, Broadcast
  PROVE  /\ InboxInv' /\ MailInv'
         /\ \A x \in Exchanges : Latest(x) => Latest(x)'
         /\ \A x, rank : UnderWay(x, rank)' <=> UnderWay(x, rank)
<1>o. WaitInv /\ QueueInv /\ InboxInv /\ MailInv
  BY DEF OrderInv
<1>1. PICK i \in DOMAIN tasks, task \in Tasks :
        /\ Starts(i, task) \/ Resumes(i, task)
        /\ Done(i, task) \/ \E n \in task.todo : Waits(n) /\ WaitsNext(i, task, n)
  BY BroadcastSteps DEF BaseInv
<1>2. PICK reached \in SUBSET task.todo :
        /\ Send(task, reached)
        /\ \A j \in DOMAIN tasks : j < i =>
             tasks[j].started /\ \A s \in tasks[j].todo : s \notin reached
        /\ \A j \in DOMAIN tasks \ {i} : \E k \in DOMAIN tasks' : tasks'[k] = tasks[j]
        /\ \/ /\ \E k \in DOMAIN tasks' : Rest(task, reached, k)
              /\ \A k \in DOMAIN tasks' :
                   Rest(task, reached, k) \/ \E j \in DOMAIN tasks \ {i} : tasks'[k] = tasks[j]
           \/ /\ reached = task.todo
              /\ \A j \in DOMAIN tasks : ~(j < i)
              /\ \A k \in DOMAIN tasks' : \E j \in DOMAIN tasks \ {i} : tasks'[k] = tasks[j]
  BY <1>o, <1>1, BroadcastEffect
<1>3. /\ UNCHANGED <<at, row>>
      /\ task.x = tasks[i].x /\ task.rank = tasks[i].rank
      /\ task.x \in Exchanges /\ task.rank \in 1..3
      /\ at # 0 => (ToPage(tasks[i]) <=> at \in task.todo)
      /\ at \in reached => at # 0
  <2>1. UNCHANGED <<at, row>>
    BY <1>2 DEF Send, tab
  <2>2. at \in reached => at # 0
    BY Bounds DEF Tasks
  <2> QED
    BY <1>1, <2>1, <2>2, <1>o, TaskType, InTurn, Members DEF BaseInv
<1> DEFINE n == Len(inbox)
<1>4. /\ n \in Nat /\ DOMAIN inbox = 1..n
      /\ \A k \in 1..n : inbox'[k] = inbox[k]
      /\ at \notin reached => inbox' = inbox
      /\ at \in reached => /\ DOMAIN inbox' = 1..n + 1
                           /\ inbox'[n + 1] = [x |-> task.x, rank |-> task.rank]
                           /\ inbox'[n + 1].x = task.x /\ inbox'[n + 1].rank = task.rank
  BY <1>2, SendMails DEF BaseInv
<1> HIDE DEF n
<1>5. InboxInv'
  <2>1. at \in reached =>
          \A k \in 1..n : inbox[k].x = task.x => inbox[k].rank =< task.rank
    BY <1>2, <1>3, <1>4 DEF OrderInv, MailInv
  <2>2. CASE at \notin reached
    BY <1>4, <2>2 DEF OrderInv, InboxInv
  <2>3. CASE at \in reached
    <3>1. SUFFICES ASSUME NEW k \in 1..n + 1, NEW l \in 1..n + 1, k < l,
                          inbox'[k].x = inbox'[l].x
                   PROVE  inbox'[k].rank =< inbox'[l].rank
      BY <1>4, <2>3 DEF InboxInv
    <3>2. k \in 1..n /\ (l \in 1..n \/ l = n + 1)
      BY <1>4, <3>1
    <3> QED
      BY <1>4, <2>1, <2>3, <3>1, <3>2 DEF OrderInv, InboxInv
  <2> QED
    BY <2>2, <2>3
\* An earlier task that the page is to hear has not been passed.
<1>6. ASSUME NEW j \in DOMAIN tasks \ {i}, ToPage(tasks[j]), tasks[j].x = task.x, at \in reached
      PROVE  task.rank =< tasks[j].rank
  <2>1. ~(j < i)
    BY <1>2, <1>6 DEF ToPage
  <2>2. i < j
    BY <1>6, <2>1, Members DEF BaseInv
  <2> QED
    BY <1>3, <1>6, <2>2 DEF BaseInv, TaskInv
<1>7. MailInv'
  <2>1. SUFFICES ASSUME NEW k \in DOMAIN inbox', NEW l \in DOMAIN tasks',
                        ToPage(tasks[l])', inbox'[k].x = tasks'[l].x
                 PROVE  inbox'[k].rank =< tasks'[l].rank
    BY DEF MailInv
  <2>2. \/ k \in DOMAIN inbox /\ inbox'[k] = inbox[k]
        \/ at \in reached /\ inbox'[k].x = task.x /\ inbox'[k].rank = task.rank
    BY <1>4
  <2>3. CASE \E j \in DOMAIN tasks \ {i} : tasks'[l] = tasks[j]
    <3>1. PICK j \in DOMAIN tasks \ {i} : tasks'[l] = tasks[j]
      BY <2>3
    <3>2. ToPage(tasks[j])
      BY <1>3, <2>1, <3>1 DEF ToPage
    <3> QED
      BY <1>6, <2>1, <2>2, <3>1, <3>2 DEF OrderInv, MailInv
  <2>4. CASE Rest(task, reached, l)
    <3>1. at # 0 /\ at \in task.todo /\ at \notin reached
      BY <1>3, <2>1, <2>4 DEF Rest, ToPage
    <3>2. ToPage(tasks[i]) /\ k \in DOMAIN inbox /\ inbox'[k] = inbox[k]
      BY <1>3, <2>2, <3>1
    <3> QED
      BY <1>3, <2>1, <2>4, <3>2 DEF Rest, OrderInv, MailInv
  <2> QED
    BY <1>2, <2>3, <2>4
<1>8. ASSUME NEW x \in Exchanges, Latest(x) PROVE Latest(x)'
  <2>1. SUFFICES ASSUME NEW k \in DOMAIN tasks', tasks'[k].x = x
                 PROVE  \E l \in DOMAIN tasks' : tasks'[l].x = x /\ tasks'[l].rank = row[x]
    BY <1>3 DEF Latest
  <2>2. PICK a \in DOMAIN tasks :
          /\ tasks'[k].x = tasks[a].x /\ tasks'[k].rank = tasks[a].rank
          /\ a = i => Rest(task, reached, k)
          /\ a # i => tasks'[k] = tasks[a]
    BY <1>2, <1>3 DEF Rest
  <2>3. PICK b \in DOMAIN tasks : tasks[b].x = x /\ tasks[b].rank = row[x]
    BY <1>8, <2>1, <2>2 DEF Latest
  <2>4. CASE b # i
    BY <1>2, <1>3, <2>3, <2>4
  <2>5. CASE b = i
    <3>1. CASE \E l \in DOMAIN tasks' : Rest(task, reached, l)
      BY <1>3, <2>3, <2>5, <3>1 DEF Rest
    <3>2. CASE ~\E l \in DOMAIN tasks' : Rest(task, reached, l)
      <4>1. a # i /\ ~(a < i)
        BY <1>2, <2>2, <3>2
      <4>2. i < a
        BY <4>1, Members DEF BaseInv
      <4>3. tasks[i].rank =< tasks[a].rank /\ tasks[a].rank =< row[x]
        BY <2>1, <2>2, <2>3, <2>5, <4>2 DEF BaseInv, TaskInv, RankInv
      <4>4. tasks[a].rank = row[x]
        BY <2>3, <2>5, <4>3, Members DEF BaseInv
      <4> QED
        BY <2>1, <2>2, <4>4
    <3> QED
      BY <3>1, <3>2
  <2> QED
    BY <2>4, <2>5
<1>9. ASSUME NEW x, NEW rank, UnderWay(x, rank)'
      PROVE  UnderWay(x, rank)
  <2>1. CASE Mailed(x, rank)'
    <3>1. PICK k \in DOMAIN inbox' : inbox'[k] = [x |-> x, rank |-> rank]
      BY <2>1 DEF Mailed
    <3>2. CASE k \in DOMAIN inbox /\ inbox'[k] = inbox[k]
      BY <3>1, <3>2 DEF UnderWay, Mailed
    <3>3. CASE at \in reached /\ inbox'[k].x = task.x /\ inbox'[k].rank = task.rank
      <4>1. tasks[i].x = x /\ tasks[i].rank = rank /\ ToPage(tasks[i])
        BY <1>3, <3>1, <3>3
      <4> QED
        BY <4>1 DEF UnderWay, ToSend
    <3> QED
      BY <1>4, <3>2, <3>3
  <2>2. CASE ToSend(x, rank)'
    <3>1. PICK k \in DOMAIN tasks' : ToPage(tasks[k])' /\ tasks'[k].x = x /\ tasks'[k].rank = rank
      BY <2>2 DEF ToSend
    <3>2. CASE \E j \in DOMAIN tasks \ {i} : tasks'[k] = tasks[j]
      BY <1>3, <3>1, <3>2 DEF UnderWay, ToSend, ToPage
    <3>3. CASE Rest(task, reached, k)
      <4>1. ToPage(tasks[i])
        BY <1>3, <3>1, <3>3 DEF Rest, ToPage
      <4> QED
        BY <1>3, <3>1, <3>3, <4>1 DEF Rest, UnderWay, ToSend
    <3> QED
      BY <1>2, <3>2, <3>3
  <2> QED
    BY <1>9, <2>1, <2>2 DEF UnderWay
<1>10. ASSUME NEW x, NEW rank, UnderWay(x, rank)
       PROVE  UnderWay(x, rank)'
  <2>1. CASE Mailed(x, rank)
    BY <1>4, <2>1 DEF UnderWay, Mailed
  <2>2. CASE ToSend(x, rank)
    <3>1. PICK j \in DOMAIN tasks : ToPage(tasks[j]) /\ tasks[j].x = x /\ tasks[j].rank = rank
      BY <2>2 DEF ToSend
    <3>2. CASE j # i
      <4>1. PICK k \in DOMAIN tasks' : tasks'[k] = tasks[j]
        BY <1>2, <3>2
      <4> QED
        BY <1>3, <3>1, <4>1 DEF UnderWay, ToSend, ToPage
    <3>3. CASE j = i /\ at \in reached
      <4>1. inbox'[n + 1] = [x |-> x, rank |-> rank] /\ n + 1 \in DOMAIN inbox'
        BY <1>3, <1>4, <3>1, <3>3
      <4> QED
        BY <4>1 DEF UnderWay, Mailed
    <3>4. CASE j = i /\ at \notin reached
      <4>1. at # 0 /\ at \in task.todo \ reached
        BY <1>3, <3>1, <3>4 DEF ToPage
      <4>2. PICK k \in DOMAIN tasks' : Rest(task, reached, k)
        BY <1>2, <4>1
      <4>3. ToPage(tasks[k])' /\ tasks'[k].x = x /\ tasks'[k].rank = rank
        BY <1>3, <3>1, <3>4, <4>1, <4>2 DEF Rest, ToPage
      <4> QED
        BY <4>3 DEF UnderWay, ToSend
    <3> QED
      BY <3>2, <3>3, <3>4
  <2> QED
    BY <1>10, <2>1, <2>2 DEF UnderWay
<1> QED
  BY <1>5, <1>7, <1>8, <1>9, <1>10

\* What leaves the queues and the rows alone leaves what was told as it was.
LEMMA ToldKept ==
  ASSUME NEW x \in Exchanges, UNCHANGED <<row, tasks, inbox, at>>
  PROVE  /\ Latest(x) => Latest(x)'
         /\ Heard(x) => Heard(x)'
         /\ UnderWay(x, row[x])' <=> UnderWay(x, row[x])
<1>1. \A rank : UnderWay(x, rank)' <=> UnderWay(x, rank)
  BY DEF UnderWay, Mailed, ToSend, ToPage
<1>2. PICK r : r = row[x] /\ r = row'[x]
  OBVIOUS
<1>3. UnderWay(x, row[x])' <=> UnderWay(x, r)'
  BY <1>2 DEF UnderWay, Mailed, ToSend
<1> QED
  BY <1>1, <1>2, <1>3 DEF Latest, Heard

\* An exchange is known still if all the page could hear of it is what it was.
LEMMA KnownCarried ==
  ASSUME NEW x \in Exchanges, Known(x), Latest(x)',
         row'[x] = row[x], list'[x] = list[x], UNCHANGED <<filter, answers>>,
         \A rank : UnderWay(x, rank)' <=> UnderWay(x, rank)
  PROVE  Known(x)'
<1>1. \A r \in Requests : Rebuilds(r)' <=> Rebuilds(r)
  BY DEF Rebuilds
<1>2. PICK now : now = row[x] /\ now = row'[x]
  OBVIOUS
<1>3. UnderWay(x, row[x])' <=> UnderWay(x, now)'
  BY <1>2 DEF UnderWay, Mailed, ToSend
<1>4. Heard(x)'
  BY <1>2, <1>3 DEF Known, Heard
<1>5. Right(x)'
  BY <1>1, <1>2, <1>3 DEF Known, Right
<1>6. Read(x)'
  BY DEF Known, Read
<1> QED
  BY <1>4, <1>5, <1>6 DEF Known

LEMMA KnownKept ==
  ASSUME NEW x \in Exchanges, Known(x), UNCHANGED <<row, tasks, inbox, at, list, filter, answers>>
  PROVE  Known(x)'
<1>1. Latest(x)' /\ \A rank : UnderWay(x, rank)' <=> UnderWay(x, rank)
  BY DEF Known, Latest, UnderWay, Mailed, ToSend, ToPage
<1> QED
  BY <1>1, KnownCarried

LEMMA QuietKnown ==
  ASSUME NEW x \in Exchanges, Known(x), Quiet(x), Quiet(x)',
         row'[x] = row[x], list'[x] = list[x], UNCHANGED <<filter, answers>>
  PROVE  Known(x)'
<1>1. Latest(x)' /\ \A rank : ~UnderWay(x, rank) /\ ~UnderWay(x, rank)'
  BY DEF Quiet, Latest, UnderWay, Mailed, ToSend
<1> QED
  BY <1>1, KnownCarried

LEMMA QuietSet ==
  ASSUME TypeInv, NEW x \in Exchanges
  PROVE  x \notin UnderWayOf <=> Quiet(x)
BY DEF UnderWayOf, Quiet, Range

LEMMA QuietStays ==
  ASSUME NEW x \in Exchanges, Quiet(x), UNCHANGED tasks, inbox' \in {inbox, <<>>}
  PROVE  Quiet(x)'
BY DEF Quiet

\* A change adds a task no older than anything that tells of the exchange.
LEMMA ChangeMails ==
  ASSUME BaseInv, OrderInv, NEW x \in Exchanges, NEW rank \in 1..3,
         row[x] =< rank, Change(x, rank)
  PROVE  OrderInv'
<1>1. UNCHANGED <<at, inbox>>
  BY DEF Change, net, tab
<1>n. PICK n : n = Len(tasks)
  OBVIOUS
<1>2. /\ n \in Nat /\ DOMAIN tasks = 1..n /\ DOMAIN tasks' = 1..n + 1
      /\ \A i \in 1..n : tasks'[i] = tasks[i]
      /\ tasks'[n + 1].x = x /\ tasks'[n + 1].rank = rank
  BY <1>n, Changed DEF BaseInv
<1>3. \A i \in 1..n : ToPage(tasks[i])' <=> ToPage(tasks[i])
  BY <1>1, <1>2 DEF ToPage
<1>4. \A k \in DOMAIN inbox : inbox[k].x = x => inbox[k].rank =< rank
  <2>1. \A k \in DOMAIN inbox : inbox[k].rank \in Nat /\ row[x] \in Nat
    BY Members DEF BaseInv, TypeInv, Ranks
  <2> QED
    BY <2>1 DEF BaseInv, RankInv
<1>5. InboxInv' /\ MailInv'
  BY <1>1, <1>2, <1>3, <1>4 DEF OrderInv, InboxInv, MailInv
<1> QED
  BY <1>5, ChangeKeepsOrder DEF OrderInv

\* It tells a page that listens.
LEMMA ChangeTells ==
  ASSUME BaseInv, NEW x \in Exchanges, NEW rank \in 1..3, Change(x, rank),
         Listening \/ (rank = row[x] /\ Known(x))
  PROVE  Known(x)'
<1>1. /\ UNCHANGED <<at, inbox, list, filter, answers>>
      /\ row'[x] = rank
  BY DEF Change, net, tab, BaseInv, TypeInv
<1>n. PICK n : n = Len(tasks)
  OBVIOUS
<1>2. /\ n \in Nat /\ DOMAIN tasks = 1..n /\ DOMAIN tasks' = 1..n + 1
      /\ tasks'[n + 1].x = x /\ tasks'[n + 1].rank = rank
      /\ ~tasks'[n + 1].started
  BY <1>n, Changed DEF BaseInv
<1>3. n + 1 \in DOMAIN tasks' /\ (ToPage(tasks[n + 1])' <=> at # 0)
  BY <1>1, <1>2 DEF ToPage
<1>4. at # 0 => UnderWay(x, row[x])'
  BY <1>1, <1>2, <1>3 DEF UnderWay, ToSend
<1>5. \A r : UnderWay(x, r) \/ UnderWay(x, r)' => at # 0
  BY <1>1 DEF UnderWay, Mailed, ToSend, ToPage, BaseInv, SocketInv
<1>6. Latest(x)'
  BY <1>1, <1>2, <1>3 DEF Latest
<1>7. Heard(x)'
  BY <1>4, <1>5 DEF Heard
<1>8. \A r \in Requests : Rebuilds(r)' <=> Rebuilds(r)
  BY <1>1 DEF Rebuilds
<1>9. Right(x)'
  <2>1. SUFFICES ASSUME \A r \in Requests : ~Rebuilds(r), at = 0
                 PROVE  list'[x] = 1 <=> row'[x] = 1
    BY <1>4, <1>8 DEF Right
  <2>2. ~Listening
    BY <2>1, Bounds DEF Listening, BaseInv, TypeInv
  <2> QED
    BY <1>1, <1>5, <2>1, <2>2 DEF Known, Right
<1>10. Read(x)'
  BY <1>1 DEF Read, Listening, Answered, Known
<1> QED
  BY <1>6, <1>7, <1>9, <1>10 DEF Known

\* It has no bearing on the other exchanges.
LEMMA ChangeElsewhere ==
  ASSUME BaseInv, NEW x \in Exchanges, NEW rank \in 1..3,
         Change(x, rank) \/ ChangeSilently(x, rank),
         NEW y \in Exchanges, y # x, Known(y)
  PROVE  Known(y)' /\ (Quiet(y) => Quiet(y)')
<1>1. UNCHANGED <<at, inbox, list, filter, answers>> /\ row'[y] = row[y]
  BY DEF Change, ChangeSilently, net, tab, BaseInv, TypeInv
<1>2. CASE ChangeSilently(x, rank)
  <2>1. UNCHANGED tasks
    BY <1>2 DEF ChangeSilently
  <2>2. Latest(y)' /\ \A r : UnderWay(y, r)' <=> UnderWay(y, r)
    BY <1>1, <2>1 DEF Known, Latest, UnderWay, Mailed, ToSend, ToPage
  <2> QED
    BY <1>1, <2>1, <2>2, KnownCarried, QuietStays
<1>3. CASE Change(x, rank)
  <2>n. PICK n : n = Len(tasks)
    OBVIOUS
  <2>1. /\ n \in Nat /\ DOMAIN tasks = 1..n /\ DOMAIN tasks' = 1..n + 1
        /\ \A i \in 1..n : tasks'[i] = tasks[i]
        /\ tasks'[n + 1].x = x
    BY <1>3, <2>n, Changed DEF BaseInv
  <2>2. Latest(y)'
    BY <1>1, <2>1 DEF Known, Latest
  <2>3. \A i \in 1..n : ToPage(tasks[i])' <=> ToPage(tasks[i])
    BY <1>1, <2>1 DEF ToPage
  <2>4. \A r : UnderWay(y, r)' <=> UnderWay(y, r)
    <3>1. ASSUME NEW r PROVE Mailed(y, r)' <=> Mailed(y, r)
      BY <1>1 DEF Mailed
    <3>2. ASSUME NEW r PROVE ToSend(y, r)' <=> ToSend(y, r)
      BY <2>1, <2>3 DEF ToSend
    <3> QED
      BY <3>1, <3>2 DEF UnderWay
  <2>5. Quiet(y) => Quiet(y)'
    BY <1>1, <2>1 DEF Quiet
  <2> QED
    BY <1>1, <2>2, <2>4, <2>5, KnownCarried
<1> QED
  BY <1>2, <1>3

\* The page hears the oldest of what is in its inbox.
LEMMA Heads ==
  ASSUME BaseInv, Receive
  PROVE  LET m == inbox[1]
         IN  /\ 1 \in DOMAIN inbox /\ Head(inbox) = m
             /\ \A k \in DOMAIN inbox' : /\ k \in Nat \ {0} /\ k < k + 1 /\ 1 < k + 1
                                          /\ k + 1 \in DOMAIN inbox /\ inbox'[k] = inbox[k + 1]
             /\ \A k \in DOMAIN inbox : k # 1 => k - 1 \in DOMAIN inbox' /\ inbox'[k - 1] = inbox[k]
             /\ m.x \in Exchanges /\ m.rank \in 1..3 /\ m = [x |-> m.x, rank |-> m.rank]
             /\ UNCHANGED <<row, tasks, order, socket, at, filter, answers>>
             /\ \A y \in Exchanges : list'[y] = IF y = m.x THEN m.rank ELSE list[y]
<1> DEFINE m == inbox[1]
<1>1. /\ 1 \in DOMAIN inbox /\ Head(inbox) = m
      /\ \A k \in DOMAIN inbox' : k + 1 \in DOMAIN inbox /\ inbox'[k] = inbox[k + 1]
      /\ \A k \in DOMAIN inbox : k # 1 => k - 1 \in DOMAIN inbox' /\ inbox'[k - 1] = inbox[k]
      /\ \A k \in DOMAIN inbox' : k \in Nat \ {0}
  BY HeadTailProperties, LenProperties, EmptySeq DEF Receive, BaseInv, TypeInv
<1>2. /\ m.x \in Exchanges /\ m.rank \in 1..3 /\ m = [x |-> m.x, rank |-> m.rank]
  BY <1>1, Members DEF BaseInv, Messages
<1>3. /\ UNCHANGED <<row, tasks, order, socket, at, filter, answers>>
      /\ \A y \in Exchanges : list'[y] = IF y = m.x THEN m.rank ELSE list[y]
  BY <1>1, <1>2 DEF Receive, OnSummary, server, BaseInv, TypeInv
<1>4. \A k \in DOMAIN inbox' : k < k + 1 /\ 1 < k + 1
  BY <1>1
<1> HIDE DEF m
<1> QED
  BY <1>1, <1>2, <1>3, <1>4 DEF m

LEMMA ReceiveMails ==
  ASSUME BaseInv, InboxInv, MailInv, Receive
  PROVE  InboxInv' /\ MailInv'
<1>1. /\ \A k \in DOMAIN inbox' : k + 1 \in DOMAIN inbox /\ inbox'[k] = inbox[k + 1]
      /\ \A k \in DOMAIN inbox' : k \in Nat \ {0}
      /\ UNCHANGED <<tasks, at>>
  BY Heads
<1>2. InboxInv'
  BY <1>1 DEF InboxInv
<1>3. \A i \in DOMAIN tasks : ToPage(tasks[i])' <=> ToPage(tasks[i])
  BY <1>1 DEF ToPage
<1> QED
  BY <1>1, <1>2, <1>3 DEF MailInv

\* If that was the present state, nothing older of the exchange is under way.
LEMMA ReceiveTells ==
  ASSUME BaseInv, OrderInv, Receive, NEW y \in Exchanges, Known(y)
  PROVE  Known(y)'
<1>m. PICK m : m = inbox[1]
  OBVIOUS
<1>1. /\ 1 \in DOMAIN inbox
      /\ \A k \in DOMAIN inbox' : k + 1 \in DOMAIN inbox /\ 1 < k + 1 /\ inbox'[k] = inbox[k + 1]
      /\ \A k \in DOMAIN inbox : k # 1 => k - 1 \in DOMAIN inbox' /\ inbox'[k - 1] = inbox[k]
      /\ m.x \in Exchanges /\ m.rank \in 1..3 /\ m = [x |-> m.x, rank |-> m.rank]
      /\ UNCHANGED <<row, tasks, at, filter, answers>>
      /\ list'[y] = IF y = m.x THEN m.rank ELSE list[y]
  BY <1>m, Heads
<1>2. row[y] \in Nat
  BY DEF BaseInv, TypeInv, Ranks
<1>3. Latest(y)'
  BY <1>1 DEF Known, Latest
<1>4. \A r : ToSend(y, r)' <=> ToSend(y, r)
  BY <1>1 DEF ToSend, ToPage
<1>5. ASSUME NEW r, UnderWay(y, r)'
      PROVE  UnderWay(y, r) /\ r \in 1..3 /\ r =< row[y] /\ (y = m.x => m.rank =< r)
  <2>1. CASE ToSend(y, r)'
    <3>1. PICK i \in DOMAIN tasks : ToPage(tasks[i]) /\ tasks[i].x = y /\ tasks[i].rank = r
      BY <1>4, <2>1 DEF ToSend
    <3>2. r \in 1..3 /\ r =< row[y]
      BY <3>1, Members DEF BaseInv, RankInv
    <3>3. y = m.x => m.rank =< r
      BY <1>m, <1>1, <3>1 DEF OrderInv, MailInv
    <3> QED
      BY <1>4, <2>1, <3>2, <3>3 DEF UnderWay
  <2>2. CASE Mailed(y, r)'
    <3>1. PICK k \in DOMAIN inbox' : inbox'[k] = [x |-> y, rank |-> r]
      BY <2>2 DEF Mailed
    <3>2. inbox[k + 1] = [x |-> y, rank |-> r] /\ k + 1 \in DOMAIN inbox /\ 1 < k + 1
      BY <1>1, <3>1
    <3>3. inbox[k + 1].x = y /\ inbox[k + 1].rank = r
      BY <3>2
    <3>4. r \in 1..3 /\ r =< row[y]
      BY <3>2, <3>3, Members DEF BaseInv, RankInv
    <3>5. y = m.x => m.rank =< r
      BY <1>m, <1>1, <3>2, <3>3 DEF OrderInv, InboxInv
    <3> QED
      BY <3>2, <3>4, <3>5 DEF UnderWay, Mailed
  <2> QED
    BY <1>5, <2>1, <2>2 DEF UnderWay
<1>6. ASSUME NEW r, UnderWay(y, r), y # m.x \/ r # m.rank
      PROVE  UnderWay(y, r)'
  <2>1. CASE ToSend(y, r)
    BY <1>4, <2>1 DEF UnderWay
  <2>2. CASE Mailed(y, r)
    <3>1. PICK k \in DOMAIN inbox : inbox[k] = [x |-> y, rank |-> r]
      BY <2>2 DEF Mailed
    <3>2. k # 1
      BY <1>m, <1>6, <3>1
    <3> QED
      BY <1>1, <3>1, <3>2 DEF UnderWay, Mailed
  <2> QED
    BY <1>6, <2>1, <2>2 DEF UnderWay
<1>7. PICK now : now = row[y] /\ now = row'[y]
  BY <1>1
<1>8. UnderWay(y, row[y])' <=> UnderWay(y, now)'
  BY <1>7 DEF UnderWay, Mailed, ToSend
<1>9. Heard(y)'
  <2>1. SUFFICES ASSUME NEW r \in 1..3, UnderWay(y, r)' PROVE UnderWay(y, now)'
    BY <1>8 DEF Heard
  <2>2. UnderWay(y, now)
    BY <1>5, <1>7, <2>1 DEF Known, Heard
  <2>3. CASE y = m.x /\ now = m.rank
    <3>1. r = now
      BY <1>1, <1>2, <1>5, <1>7, <2>1, <2>3
    <3> QED
      BY <2>1, <3>1
  <2>4. CASE y # m.x \/ now # m.rank
    BY <1>6, <2>2, <2>4
  <2> QED
    BY <2>3, <2>4
<1>10. \A r \in Requests : Rebuilds(r)' <=> Rebuilds(r)
  BY <1>1 DEF Rebuilds
<1>11. Right(y)'
  <2>1. SUFFICES ASSUME \A r \in Requests : ~Rebuilds(r)
                 PROVE  UnderWay(y, now)' \/ (list'[y] = 1 <=> now = 1)
    BY <1>7, <1>8, <1>10 DEF Right
  <2>2. CASE y # m.x
    BY <1>1, <1>6, <1>7, <2>1, <2>2 DEF Known, Right
  <2>3. CASE y = m.x /\ now = m.rank
    BY <1>1, <2>3
  <2>4. CASE y = m.x /\ now # m.rank
    <3>1. UnderWay(y, m.rank)
      BY <1>m, <1>1, <2>4 DEF UnderWay, Mailed
    <3>2. UnderWay(y, now)
      BY <1>1, <1>7, <3>1 DEF Known, Heard
    <3> QED
      BY <1>6, <2>4, <3>2
  <2> QED
    BY <2>2, <2>3, <2>4
<1>12. Read(y)'
  BY <1>1 DEF Known, Read
<1> QED
  BY <1>3, <1>9, <1>11, <1>12 DEF Known

\* A page that connects is to hear from the tasks that have not started; the present
\* state of an exchange one of them tells of is told by one of them.
LEMMA ConnectTells ==
  ASSUME BaseInv, Connect, NEW x \in Exchanges, Known(x)
  PROVE  Known(x)'
<1>1. PICK s \in Sockets : Open(s) /\ at' = s
  BY DEF Connect
<1>2. /\ UNCHANGED <<row, tasks, inbox, list, filter, answers>>
      /\ at = 0 /\ inbox = <<>> /\ DOMAIN inbox = {}
      /\ socket[s] = "unused" /\ s # 0
  <2>1. at = 0 /\ inbox = <<>>
    BY DEF Connect, BaseInv, SocketInv
  <2>2. inbox' = inbox
    BY <1>1 DEF Open
  <2> QED
    BY <1>1, <2>1, <2>2, Bounds DEF Open
<1>3. \A i \in DOMAIN tasks : ToPage(tasks[i])' <=> ~tasks[i].started
  <2>1. \A i \in DOMAIN tasks : s \notin tasks[i].todo
    BY <1>2 DEF BaseInv, SocketInv
  <2> QED
    BY <1>1, <1>2, <2>1 DEF ToPage
<1>4. Latest(x)'
  BY <1>2 DEF Known, Latest
<1>5. Heard(x)'
  <2>1. SUFFICES ASSUME NEW rank \in 1..3, UnderWay(x, rank)'
                 PROVE  UnderWay(x, row[x])'
    BY DEF Heard
  <2>2. PICK i \in DOMAIN tasks : ~tasks[i].started /\ tasks[i].x = x
    BY <1>2, <1>3, <2>1 DEF UnderWay, Mailed, ToSend
  <2>3. PICK j \in DOMAIN tasks : tasks[j].x = x /\ tasks[j].rank = row[x]
    BY <2>2 DEF Known, Latest
  <2>4. CASE ~tasks[j].started
    BY <1>2, <1>3, <2>3, <2>4 DEF UnderWay, ToSend
  <2>5. CASE tasks[j].started
    <3>1. j < i
      <4>1. ~(i < j) /\ i # j
        BY <2>2, <2>5 DEF BaseInv, TaskInv
      <4> QED
        BY <4>1, Members DEF BaseInv
    <3>2. tasks[j].rank =< tasks[i].rank /\ tasks[i].rank =< row[x]
      BY <2>2, <2>3, <3>1 DEF BaseInv, TaskInv, RankInv
    <3>3. tasks[i].rank = row[x]
      BY <2>3, <3>2, Members DEF BaseInv
    <3> QED
      BY <1>2, <1>3, <2>2, <3>3 DEF UnderWay, ToSend
  <2> QED
    BY <2>4, <2>5
<1>6. ~UnderWay(x, row[x])
  BY <1>2 DEF UnderWay, Mailed, ToSend, ToPage
<1>7. \A r \in Requests : Rebuilds(r)' <=> Rebuilds(r)
  BY <1>2 DEF Rebuilds
<1>8. Right(x)'
  BY <1>2, <1>6, <1>7 DEF Known, Right
<1>9. Read(x)'
  BY <1>2 DEF Known, Read
<1> QED
  BY <1>4, <1>5, <1>8, <1>9 DEF Known

\* While a request is asked under the filter that is on, the list is still to be made
\* right.
LEMMA AskTells ==
  ASSUME BaseInv, NEW r \in Requests, NEW f \in Filters, Ask(r, f), NEW x \in Exchanges, Known(x)
  PROVE  Known(x)'
<1>1. /\ UNCHANGED <<row, tasks, inbox, at>> /\ filter' = f
      /\ answers' = [answers EXCEPT ![r] = [NoAnswer EXCEPT !.state = "asked", !.filter = f]]
  BY DEF Ask, server, net
<1>2. /\ answers'[r].state = "asked" /\ answers'[r].filter = f
      /\ \A q \in Requests : q # r => answers'[q] = answers[q]
  BY <1>1 DEF BaseInv, TypeInv, NoAnswer
<1>3. Rebuilds(r)'
  BY <1>1, <1>2 DEF Rebuilds, Filters
<1>4. Right(x)'
  BY <1>3 DEF Right
<1>5. Read(x)'
  BY <1>1, <1>2 DEF Known, Read
<1> QED
  BY <1>1, <1>4, <1>5, ToldKept DEF Known

\* The list that is read says what the row is, unless it was cut off.
LEMMA ServeTells ==
  ASSUME BaseInv, NEW r \in Requests, ServeList(r), NEW x \in Exchanges, x \notin missed',
         x \in missed \/ Known(x)
  PROVE  Known(x)' /\ (x \in missed => Quiet(x))
<1> DEFINE f == answers[r].filter
           rows == [y \in Exchanges |-> IF y \in Listed(f) THEN row[y] ELSE 0]
<1>1. /\ UNCHANGED <<row, tasks, inbox, at, list, filter>>
      /\ answers[r].state = "asked"
      /\ Matches(f, row[x]) => x \in Listed(f)
      /\ x \in missed => Rebuilds(r) /\ Answered = {} /\ x \notin UnderWayOf
  BY DEF ServeList, server, net
<1>2. answers' = [answers EXCEPT ![r] = [answers[r] EXCEPT !.state = "answered", !.rows = rows]]
  BY DEF ServeList, BaseInv, TypeInv, Answers
<1>3. answers[r] \in Answers
  BY DEF BaseInv, TypeInv
<1>4. rows[x] = IF Matches(f, row[x]) THEN row[x] ELSE 0
  <2>1. x \in Listed(f) => Matches(f, row[x])
    BY DEF Listed
  <2> QED
    BY <1>1, <2>1
<1>5. /\ answers'[r].state = "answered" /\ answers'[r].filter = f /\ answers'[r].rows = rows
      /\ \A q \in Requests : q # r => answers'[q] = answers[q]
  <2> HIDE DEF rows
  <2> QED
    BY <1>2, <1>3 DEF BaseInv, TypeInv, Answers
<1> HIDE DEF f, rows
<1>6. \A q \in Requests : Rebuilds(q)' <=> Rebuilds(q)
  BY <1>1, <1>5 DEF Rebuilds, f
<1>7. answers'[r].rows[x] = IF Matches(answers'[r].filter, row'[x]) THEN row'[x] ELSE 0
  BY <1>1, <1>4, <1>5
<1>8. CASE x \notin missed
  <2>1. Right(x)'
    BY <1>1, <1>6, <1>8, ToldKept DEF Known, Right
  <2>2. Read(x)'
    BY <1>1, <1>5, <1>7, <1>8 DEF Known, Read
  <2> QED
    BY <1>1, <1>8, <2>1, <2>2, ToldKept DEF Known
<1>9. CASE x \in missed
  <2>1. Quiet(x)
    BY <1>1, <1>9, QuietSet DEF BaseInv
  <2>2. Latest(x)' /\ Heard(x)'
    BY <1>1, <2>1 DEF Quiet, Latest, Heard, UnderWay, Mailed, ToSend
  <2>3. Right(x)'
    BY <1>1, <1>6, <1>9 DEF Right
  <2>4. Read(x)'
    BY <1>1, <1>5, <1>7, <1>9 DEF Read, Answered
  <2> QED
    BY <2>1, <2>2, <2>3, <2>4 DEF Known
<1> QED
  BY <1>8, <1>9

\* The page that applies it says so too, if the list replaces the page's; otherwise
\* the page's was right.
LEMMA ApplyTells ==
  ASSUME BaseInv, NEW r \in Requests, ApplyList(r), NEW x \in Exchanges, Known(x)
  PROVE  Known(x)'
<1>1. /\ UNCHANGED <<row, tasks, inbox, at, filter>>
      /\ answers[r].state = "answered" /\ answers'[r].state = "none"
      /\ \A q \in Requests : q # r => answers'[q] = answers[q]
      /\ list'[x] = IF answers[r].rows[x] # 0 THEN answers[r].rows[x]
                    ELSE IF filter = "all" THEN list[x] ELSE 0
  BY DEF ApplyList, Over, NoAnswer, BaseInv, TypeInv, server, net
<1>2. answers[r].rows[x] = IF Matches(answers[r].filter, row[x]) THEN row[x] ELSE 0
  BY <1>1 DEF Known, Read
<1>3. /\ row[x] \in Nat /\ list[x] \in Nat /\ list[x] =< row[x]
      /\ filter \in {"all", "pending"} /\ answers[r].filter \in {"all", "pending"}
  BY AnswerTypes DEF BaseInv, TypeInv, RankInv, Ranks, Filters
<1>4. ASSUME Rebuilds(r) PROVE list'[x] = 1 <=> row[x] = 1
  <2>1. CASE answers[r].filter = "all"
    BY <1>1, <1>2, <1>3, <2>1 DEF Matches
  <2>2. CASE answers[r].filter = "pending" /\ filter = "pending"
    BY <1>1, <1>2, <2>2 DEF Matches
  <2> QED
    BY <1>3, <1>4, <2>1, <2>2 DEF Rebuilds
<1>5. ASSUME ~Rebuilds(r), list[x] = 1 <=> row[x] = 1
      PROVE  list'[x] = 1 <=> row[x] = 1
  BY <1>1, <1>2, <1>3, <1>5 DEF Rebuilds, Matches
<1>6. \A q \in Requests : q # r => (Rebuilds(q)' <=> Rebuilds(q))
  BY <1>1 DEF Rebuilds
<1>7. Right(x)'
  <2>1. SUFFICES ASSUME \A q \in Requests : ~Rebuilds(q)'
                 PROVE  UnderWay(x, row[x])' \/ (list'[x] = 1 <=> row'[x] = 1)
    BY DEF Right
  <2>2. CASE Rebuilds(r)
    BY <1>1, <1>4, <2>2
  <2>3. CASE ~Rebuilds(r)
    <3>1. UnderWay(x, row[x]) \/ (list[x] = 1 <=> row[x] = 1)
      BY <1>6, <2>1, <2>3 DEF Known, Right
    <3> QED
      BY <1>1, <1>5, <2>3, <3>1, ToldKept
  <2> QED
    BY <2>2, <2>3
<1>8. Read(x)'
  BY <1>1 DEF Known, Read
<1> QED
  BY <1>1, <1>7, <1>8, ToldKept DEF Known

-----------------------------------------------------------------------------
(* The invariant                                                            *)

LEMMA InitInv == Init => IInv
<1> SUFFICES ASSUME Init PROVE IInv
  OBVIOUS
<1>1. /\ TypeInv
      /\ DOMAIN inbox = {} /\ DOMAIN tasks = {}
      /\ \A r \in Requests : answers[r] = NoAnswer
      /\ \A x \in Exchanges : NoAnswer.rows[x] = 0 /\ row[x] = 0 /\ list[x] = 0
      /\ NoAnswer.state = "none"
  BY TypeInit DEF Init, NoAnswer, NoRows
<1>2. SocketInv
  BY <1>1 DEF Init, SocketInv
<1>3. RankInv
  BY <1>1 DEF Init, RankInv
<1>4. TaskInv
  BY <1>1 DEF TaskInv
<1>5. OrderInv
  BY <1>1 DEF OrderInv, WaitInv, QueueInv, InboxInv, MailInv
<1>6. ASSUME NEW x \in Exchanges PROVE Known(x) /\ Quiet(x)
  <2>1. Latest(x) /\ Heard(x) /\ Quiet(x)
    BY <1>1 DEF Latest, Heard, Quiet, UnderWay, Mailed, ToSend
  <2>2. Right(x)
    BY <1>1, <1>6 DEF Right
  <2>3. Read(x)
    BY <1>1 DEF Read
  <2> QED
    BY <2>1, <2>2, <2>3 DEF Known
<1> QED
  BY <1>1, <1>2, <1>3, <1>4, <1>5, <1>6 DEF IInv, BaseInv, KnownInv

\* With nothing under way there is nothing to be out of order.
LEMMA EmptyOrder ==
  ASSUME tasks' = <<>>, inbox' = <<>>
  PROVE  OrderInv'
<1>1. DOMAIN inbox' = {} /\ DOMAIN tasks' = {}
  OBVIOUS
<1> QED
  BY <1>1 DEF OrderInv, WaitInv, QueueInv, InboxInv, MailInv

\* Where nothing is sent, what waits stays in order as long as the table and the
\* sockets waited for stay.
LEMMA OrderCarried ==
  ASSUME BaseInv, OrderInv, UNCHANGED tasks,
         inbox' = <<>> \/ UNCHANGED <<inbox, at>>,
         order' = order \/ \A i \in DOMAIN tasks : ~tasks[i].started,
         \A s \in Sockets : socket'[s] = "open" => socket[s] \in {"open", "unused"},
         \A s \in Sockets : socket[s] = "open" /\ socket'[s] # "open" => ~Stalled(s)
  PROVE  OrderInv'
<1>1. ASSUME NEW i \in DOMAIN tasks, tasks[i].started
      PROVE  /\ socket'[tasks[i].waits] = "open"
             /\ \A s \in Left(tasks[i]) : socket'[s] = "open" => socket[s] = "open"
  <2>1. socket[tasks[i].waits] = "open"
    BY <1>1 DEF OrderInv, WaitInv
  <2>2. Stalled(tasks[i].waits)
    BY DEF Stalled, Range
  <2>3. tasks[i].waits \in Sockets /\ tasks[i].todo \subseteq Sockets
    BY <1>1, Members DEF BaseInv, TaskInv
  <2>4. \A s \in tasks[i].todo : socket[s] # "unused"
    BY DEF BaseInv, SocketInv
  <2> QED
    BY <2>1, <2>2, <2>3, <2>4 DEF Left
<1>2. WaitInv' /\ QueueInv'
  BY <1>1, OrderKept DEF OrderInv
<1>3. InboxInv' /\ MailInv'
  <2>1. CASE inbox' = <<>>
    <3>1. DOMAIN inbox' = {}
      BY <2>1
    <3> QED
      BY <3>1 DEF InboxInv, MailInv
  <2>2. CASE UNCHANGED <<inbox, at>>
    BY <2>2 DEF OrderInv, InboxInv, MailInv, ToPage
  <2> QED
    BY <2>1, <2>2
<1> QED
  BY <1>2, <1>3 DEF OrderInv

LEMMA OrderStep ==
  ASSUME IInv, [Next]_vars, orderly'
  PROVE  OrderInv'
<1>b. BaseInv /\ (orderly => OrderInv)
  BY DEF IInv
<1>1. ASSUME Runtime PROVE OrderInv'
  <2>1. PICK x \in Exchanges, rank \in 1..3 :
          row[x] =< rank /\ (Change(x, rank) \/ ChangeSilently(x, rank))
    BY <1>b, <1>1, RuntimeSteps DEF BaseInv
  <2>2. OrderInv
    BY <1>b, <2>1 DEF Change, ChangeSilently
  <2>3. CASE Change(x, rank)
    BY <1>b, <2>1, <2>2, <2>3, ChangeMails
  <2>4. CASE ChangeSilently(x, rank)
    <3>1. UNCHANGED <<tasks, inbox, at, order, socket>>
      BY <2>4 DEF ChangeSilently, net, tab
    <3> QED
      BY <1>b, <2>2, <3>1, OrderCarried
  <2> QED
    BY <2>1, <2>3, <2>4
<1>2. ASSUME Broadcast PROVE OrderInv'
  <2>1. PICK i \in DOMAIN tasks, task \in Tasks :
          /\ Starts(i, task) \/ Resumes(i, task)
          /\ Done(i, task) \/ \E n \in task.todo : Waits(n) /\ WaitsNext(i, task, n)
    BY <1>b, <1>2, BroadcastSteps DEF BaseInv
  <2>2. CASE orderly
    <3>1. OrderInv
      BY <1>b, <2>2
    <3>2. WaitInv' /\ QueueInv'
      BY <1>b, <2>1, <3>1, BroadcastKeepsOrder DEF OrderInv
    <3> QED
      BY <1>b, <1>2, <3>1, <3>2, BroadcastTells DEF OrderInv
  <2>3. CASE ~orderly
    <3>1. orderly' = (orderly \/ NothingUnderWay')
      BY <2>1 DEF Done, WaitsNext, Send
    <3> QED
      BY <2>3, <3>1, EmptyOrder DEF NothingUnderWay
  <2> QED
    BY <2>2, <2>3
<1>3. ASSUME NEW s \in Sockets, Open(s), Connect \/ OtherConnects PROVE OrderInv'
  <2>1. /\ orderly /\ UNCHANGED <<tasks, inbox>>
        /\ order' = order \/ \A i \in DOMAIN tasks : ~tasks[i].started
        /\ socket[s] = "unused"
    BY <1>3 DEF Open, Range
  <2>2. \A u \in Sockets : socket'[u] = IF u = s THEN "open" ELSE socket[u]
    BY <1>b, <1>3 DEF Open, BaseInv, TypeInv
  <2>3. inbox' = <<>> \/ UNCHANGED <<inbox, at>>
    BY <1>b, <1>3, <2>1 DEF Connect, OtherConnects, BaseInv, SocketInv
  <2> QED
    BY <1>b, <2>1, <2>2, <2>3, OrderCarried
<1>4. ASSUME NEW s \in Sockets, Lose(s) PROVE OrderInv'
  <2>1. /\ orderly /\ ~Stalled(s) /\ UNCHANGED <<tasks, order>>
        /\ inbox' = <<>> \/ UNCHANGED <<inbox, at>>
    BY <1>4 DEF Lose, server
  <2>2. \A u \in Sockets : socket'[u] = IF u = s THEN "closing" ELSE socket[u]
    BY <1>b, <1>4 DEF Lose, BaseInv, TypeInv
  <2> QED
    BY <1>b, <2>1, <2>2, OrderCarried
<1>5. ASSUME NEW s \in Sockets, Discard(s) \/ Close(s) \/ Fill(s) \/ Drain(s) PROVE OrderInv'
  <2>1. orderly /\ UNCHANGED <<tasks, order, inbox, at>>
    BY <1>5 DEF Discard, Close, Fill, Drain, server, net, tab, history
  <2>2. \A u \in Sockets : \/ socket'[u] = socket[u]
                           \/ socket[u] = "closing" /\ socket'[u] = "closed"
    BY <1>b, <1>5 DEF Discard, Close, Fill, Drain, BaseInv, TypeInv, net
  <2> QED
    BY <1>b, <2>1, <2>2, OrderCarried
<1>6. ASSUME Restart PROVE OrderInv'
  BY <1>6, EmptyOrder DEF Restart
<1>7. ASSUME Receive PROVE OrderInv'
  <2>1. CASE orderly
    <3>1. UNCHANGED <<tasks, order, socket>> /\ OrderInv
      BY <1>b, <1>7, <2>1 DEF Receive, server
    <3>2. WaitInv' /\ QueueInv'
      BY <3>1 DEF OrderInv, WaitInv, QueueInv, Behind, Left
    <3> QED
      BY <1>b, <1>7, <3>1, <3>2, ReceiveMails DEF OrderInv
  <2>2. CASE ~orderly
    BY <1>7, <2>2, EmptyOrder DEF Receive, NothingUnderWay
  <2> QED
    BY <2>1, <2>2
<1>8. ASSUME NEW r \in Requests, NEW f,
             Ask(r, f) \/ ServeList(r) \/ ApplyList(r) \/ FailList(r) \/ UNCHANGED vars
      PROVE  OrderInv'
  <2>1. orderly /\ UNCHANGED <<tasks, order, socket, inbox, at>>
    BY <1>8 DEF Ask, ServeList, ApplyList, FailList, Over, vars, server, net, tab, history
  <2> QED
    BY <1>b, <2>1, OrderCarried
<1>9. ASSUME Load \/ UNCHANGED vars PROVE OrderInv'
  <2>1. 1 \in Requests
    BY BoundsAssumption DEF Requests
  <2> QED
    BY <1>8, <1>9, <2>1 DEF Load
<1>10. ASSUME Connect \/ OtherConnects PROVE OrderInv'
  BY <1>3, <1>10 DEF Connect, OtherConnects
<1> QED
  BY <1>1, <1>2, <1>4, <1>5, <1>6, <1>7, <1>8, <1>9, <1>10 DEF Next, Network, Page, RequestList

-----------------------------------------------------------------------------
(* What the page knows                                                      *)

LEMMA QuietBroadcast ==
  ASSUME TypeInv, TaskInv, NEW x \in Exchanges, Quiet(x), Broadcast
  PROVE  Quiet(x)'
<1>1. PICK i \in DOMAIN tasks, task \in Tasks :
        /\ Starts(i, task) \/ Resumes(i, task)
        /\ Done(i, task) \/ \E n \in task.todo : Waits(n) /\ WaitsNext(i, task, n)
  BY BroadcastSteps
<1>2. task.x # x
  BY <1>1, TaskType DEF Quiet
<1>3. ASSUME NEW reached, Send(task, reached)
      PROVE  \A k \in DOMAIN inbox' : inbox'[k].x # x
  <2>n. PICK n : n = Len(inbox)
    OBVIOUS
  <2>1. /\ n \in Nat /\ DOMAIN inbox = 1..n
        /\ \A k \in 1..n : inbox'[k] = inbox[k]
        /\ at \notin reached => inbox' = inbox
        /\ at \in reached => DOMAIN inbox' = 1..n + 1 /\ inbox'[n + 1].x = task.x
    BY <1>3, <2>n, SendMails
  <2> QED
    BY <1>2, <2>1 DEF Quiet
<1>4. CASE Done(i, task)
  <2>1. \A k \in DOMAIN tasks' : \E j \in DOMAIN tasks : tasks'[k] = tasks[j]
    BY <1>4, AfterDone DEF Done
  <2> QED
    BY <1>3, <1>4, <2>1 DEF Done, Quiet
<1>5. ASSUME NEW n \in task.todo, WaitsNext(i, task, n) PROVE Quiet(x)'
  <2>1. /\ DOMAIN tasks' = DOMAIN tasks /\ tasks'[i].x = task.x
        /\ \A k \in DOMAIN tasks \ {i} : tasks'[k] = tasks[k]
    BY <1>5, AfterWaiting
  <2> QED
    BY <1>2, <1>3, <1>5, <2>1 DEF WaitsNext, Quiet
<1> QED
  BY <1>1, <1>4, <1>5

\* What has not slipped past the page is known, or becomes known by the step.
LEMMA KnownStep ==
  ASSUME IInv, [Next]_vars, NEW x \in Exchanges, x \notin missed'
  PROVE  Known(x)' /\ (orderly' \/ Quiet(x)')
<1>b. /\ BaseInv /\ TypeInv /\ TaskInv /\ (orderly => OrderInv)
      /\ x \notin missed => Known(x) /\ (orderly \/ Quiet(x))
  BY DEF IInv, BaseInv, KnownInv
<1>1. ASSUME Runtime PROVE Known(x)' /\ (orderly' \/ Quiet(x)')
  <2>1. PICK y \in Exchanges, rank \in 1..3 :
          row[y] =< rank /\ (Change(y, rank) \/ ChangeSilently(y, rank))
    BY <1>b, <1>1, RuntimeSteps DEF BaseInv
  <2>2. orderly' = orderly
    BY <2>1 DEF Change, ChangeSilently
  <2>3. CASE x # y
    <3>1. x \notin missed
      BY <2>1, <2>3 DEF Change, ChangeSilently
    <3> QED
      BY <1>b, <2>1, <2>2, <2>3, <3>1, ChangeElsewhere
  <2>4. CASE x = y
    <3>1. Change(x, rank)
      BY <2>1, <2>4 DEF ChangeSilently
    <3>2. Listening \/ (rank = row[x] /\ orderly /\ x \notin missed)
      BY <3>1 DEF Change
    <3>3. orderly /\ (Listening \/ (rank = row[x] /\ Known(x)))
      BY <1>b, <3>2 DEF Listening
    <3> QED
      BY <1>b, <2>2, <3>1, <3>3, ChangeTells
  <2> QED
    BY <2>3, <2>4
<1>2. ASSUME Broadcast PROVE Known(x)' /\ (orderly' \/ Quiet(x)')
  <2>1. /\ UNCHANGED <<row, list, filter, answers, missed>>
        /\ orderly => orderly'
    <3>1. PICK i \in DOMAIN tasks, task \in Tasks :
            Done(i, task) \/ \E n \in task.todo : WaitsNext(i, task, n)
      BY <1>b, <1>2, BroadcastSteps
    <3> QED
      BY <3>1 DEF Done, WaitsNext, Send, tab
  <2>2. CASE orderly
    <3>1. Latest(x)' /\ \A rank : UnderWay(x, rank)' <=> UnderWay(x, rank)
      BY <1>b, <1>2, <2>1, <2>2, BroadcastTells DEF Known
    <3> QED
      BY <1>b, <2>1, <2>2, <3>1, KnownCarried
  <2>3. CASE ~orderly
    BY <1>b, <1>2, <2>1, <2>3, QuietBroadcast, QuietKnown
  <2> QED
    BY <2>2, <2>3
<1>3. ASSUME Connect \/ OtherConnects PROVE Known(x)' /\ (orderly' \/ Quiet(x)')
  <2>1. PICK s \in Sockets : Open(s)
    BY <1>3 DEF Connect, OtherConnects
  <2>2. /\ UNCHANGED <<row, tasks, inbox, list, filter, answers>>
        /\ x \notin missed /\ (orderly' \/ x \notin UnderWayOf)
    BY <2>1 DEF Open
  <2>3. Known(x)'
    BY <1>b, <1>3, <2>2, ConnectTells, KnownKept DEF OtherConnects
  <2> QED
    BY <1>b, <2>2, <2>3, QuietSet, QuietStays
<1>4. ASSUME NEW s \in Sockets, Lose(s) PROVE Known(x)' /\ (orderly' \/ Quiet(x)')
  <2>1. UNCHANGED <<row, tasks, list, filter, answers>> /\ inbox' \in {inbox, <<>>}
    BY <1>4 DEF Lose, server
  <2>2. CASE s # at /\ ~Stalled(s)
    <3>1. UNCHANGED <<inbox, at>> /\ x \notin missed /\ (orderly => orderly')
      BY <1>4, <2>2 DEF Lose
    <3> QED
      BY <1>b, <2>1, <3>1, KnownKept, QuietStays
  <2>3. CASE s = at \/ Stalled(s)
    <3>1. x \notin missed /\ x \notin UnderWayOf
      BY <1>4, <2>3 DEF Lose
    <3>2. Quiet(x) /\ Quiet(x)'
      BY <1>b, <2>1, <3>1, QuietSet, QuietStays
    <3> QED
      BY <1>b, <2>1, <3>1, <3>2, QuietKnown
  <2> QED
    BY <2>2, <2>3
<1>5. ASSUME \/ \E s \in Sockets : Discard(s) \/ Close(s) \/ Fill(s) \/ Drain(s)
             \/ UNCHANGED vars
      PROVE  Known(x)' /\ (orderly' \/ Quiet(x)')
  <2>1. UNCHANGED <<row, tasks, inbox, at, list, filter, answers, missed, orderly>>
    BY <1>5 DEF Discard, Close, Fill, Drain, vars, server, net, tab, history
  <2> QED
    BY <1>b, <2>1, KnownKept, QuietStays
<1>6. ASSUME Receive PROVE Known(x)' /\ (orderly' \/ Quiet(x)')
  <2>1. x \notin missed /\ (orderly => orderly')
    BY <1>6 DEF Receive
  <2>2. CASE orderly
    BY <1>b, <1>6, <2>1, <2>2, ReceiveTells
  <2>3. CASE ~orderly
    <3>1. /\ 1 \in DOMAIN inbox /\ UNCHANGED <<row, tasks, filter, answers>>
          /\ \A k \in DOMAIN inbox' : k + 1 \in DOMAIN inbox /\ inbox'[k] = inbox[k + 1]
          /\ list'[x] = IF x = inbox[1].x THEN inbox[1].rank ELSE list[x]
      BY <1>b, <1>6, Heads
    <3>2. Quiet(x)' /\ list'[x] = list[x]
      BY <1>b, <2>1, <2>3, <3>1 DEF Quiet
    <3> QED
      BY <1>b, <2>1, <2>3, <3>1, <3>2, QuietKnown
  <2> QED
    BY <2>2, <2>3
<1>7. ASSUME NEW r \in Requests, NEW f \in Filters, Ask(r, f) \/ ServeList(r) \/ ApplyList(r)
      PROVE  Known(x)' /\ (orderly' \/ Quiet(x)')
  <2>1. UNCHANGED <<tasks, inbox, orderly>>
    BY <1>7 DEF Ask, ServeList, ApplyList, Over, server, net, history
  <2>2. CASE ServeList(r)
    BY <1>b, <2>1, <2>2, ServeTells, QuietStays
  <2>3. CASE Ask(r, f) \/ ApplyList(r)
    <3>1. x \notin missed
      BY <2>3 DEF Ask, ApplyList, history
    <3> QED
      BY <1>b, <2>1, <2>3, <3>1, AskTells, ApplyTells, QuietStays
  <2> QED
    BY <1>7, <2>2, <2>3
<1>8. ASSUME Load PROVE Known(x)' /\ (orderly' \/ Quiet(x)')
  <2>1. 1 \in Requests /\ filter \in Filters
    BY <1>b, BoundsAssumption DEF Requests, TypeInv
  <2> QED
    BY <1>7, <1>8, <2>1 DEF Load
<1>9. ~Restart /\ \A r \in Requests : ~FailList(r)
  BY DEF Restart, FailList
<1>10. ASSUME Network PROVE Known(x)' /\ (orderly' \/ Quiet(x)')
  BY <1>3, <1>4, <1>5, <1>10 DEF Network
<1>11. ASSUME Page PROVE Known(x)' /\ (orderly' \/ Quiet(x)')
  <2>1. ASSUME NEW r \in Requests, NEW f \in Filters, RequestList(r, f) \/ ServeList(r) \/ ApplyList(r)
        PROVE  Known(x)' /\ (orderly' \/ Quiet(x)')
    BY <1>7, <2>1 DEF RequestList
  <2>2. Filters # {}
    BY DEF Filters
  <2> QED
    BY <1>3, <1>6, <1>8, <1>9, <1>11, <2>1, <2>2 DEF Page
<1> QED
  BY <1>1, <1>2, <1>5, <1>9, <1>10, <1>11 DEF Next

LEMMA InvStep == IInv /\ [Next]_vars => IInv'
<1> SUFFICES ASSUME IInv, [Next]_vars PROVE IInv'
  OBVIOUS
<1>1. BaseInv'
  BY TypeStep, SocketStep, RankStep, TaskStep DEF IInv, BaseInv
<1>2. orderly' => OrderInv'
  BY OrderStep
<1>3. KnownInv'
  BY KnownStep DEF KnownInv
<1> QED
  BY <1>1, <1>2, <1>3 DEF IInv

\* The invariant: as long as the broadcasts have kept their order they go on keeping it,
\* and of every exchange of which no change has slipped past it the page shows the
\* truth or is still to be told it.
THEOREM InvAlways == Spec => []IInv
BY InitInv, InvStep, PTL DEF Spec

-----------------------------------------------------------------------------
(* What the page relies on                                                  *)

\* What the page is told of one exchange comes in the order it happened, although
\* every change has a task of its own that sends to one socket after another: for any
\* number of exchanges and consoles (Hub.notify, Hub.broadcast).
THEOREM FeedInOrderAlways == Spec => []FeedInOrder
<1>1. IInv => FeedInOrder
  BY DEF IInv, OrderInv, InboxInv, FeedInOrder
<1> QED
  BY <1>1, InvAlways, PTL

\* The pending requests the page shows are those there are, once everything sent has
\* come in, but for exchanges whose last change slipped past it: for any number of list
\* requests, answered in any order (onSummary, refreshList).
THEOREM QueueShownAlways == Spec => []QueueShown
<1>1. ASSUME IInv PROVE QueueShown
  <2>1. SUFFICES ASSUME AtRest, NEW x \in Exchanges \ missed
                 PROVE  list[x] = 1 <=> row[x] = 1
    BY DEF QueueShown, Shown, Pending
  <2>2. DOMAIN inbox = {} /\ DOMAIN tasks = {}
    BY <2>1 DEF AtRest, NothingUnderWay
  <2>3. ~UnderWay(x, row[x]) /\ \A r \in Requests : ~Rebuilds(r)
    BY <2>1, <2>2 DEF UnderWay, Mailed, ToSend, AtRest, Rebuilds
  <2> QED
    BY <1>1, <2>1, <2>3 DEF IInv, KnownInv, Known, Right
<1> QED
  BY <1>1, InvAlways, PTL

=============================================================================
