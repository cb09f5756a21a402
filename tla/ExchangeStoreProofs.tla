------------------------ MODULE ExchangeStoreProofs ------------------------
(***************************************************************************)
(* Theorems about the store: after every commit, and after a crash at any  *)
(* of them, the index, the event log and the drafts agree.                 *)
(*                                                                         *)
(* What the disk holds of an exchange is always Kept.  Of all exchanges    *)
(* the running handler is about at most one: that one is Working, its      *)
(* remaining commits told by what the disk already has of it, and the      *)
(* others are Quiet.                                                       *)
(***************************************************************************)
EXTENDS ExchangeStore, SelectionTheorems

Saves(x)  == EventsOf(x, {"draft_saved"})
EndsOf(x) == EventsOf(x, Endings)

EndingOf == [completed |-> "response_submitted", aborted  |-> "exchange_aborted",
             rejected  |-> "request_rejected",   injected |-> "none"]

Closed == DOMAIN EndingOf

TypeInv ==
  /\ phase \in {"down", "recovering", "up"}
  /\ runtimes \in [Ids -> Open \cup {"none"}]
  /\ raw \subseteq Ids /\ reading \subseteq Ids /\ stale \subseteq Ids
  /\ rows \in [Ids -> Open \cup Closed \cup {"absent"}]
  /\ log \in [Ids -> Seq(Events)]
  /\ drafts \in [Ids -> Nat]

\* The log has the end that the status s tells of.
Told(x, s) ==
  /\ LastEnding(x) = EndingOf[s]
  /\ s = "injected" => Logged(x, "error_injected")

EndedOnce(x) ==
  \A i, j \in 1..Len(log[x]) :
    i < j /\ log[x][i].type \in Endings /\ log[x][j].type \in Endings
      => log[x][j].why = "server_restart"

RevisionsInRow(x) ==
  /\ \A i \in 1..Len(Saves(x)) : Saves(x)[i].revision = i
  /\ drafts[x] \in Len(Saves(x))..Len(Saves(x)) + 1

AbortsLast(x) ==
  \A i \in 1..Len(log[x]) :
    log[x][i].type = "exchange_aborted" => log[x][i].revision = drafts[x]

\* Of every exchange, at every commit, with or without a process.
Kept(x) ==
  /\ x \notin raw => rows[x] = "absent"
  /\ rows[x] = "absent" => log[x] = <<>> /\ drafts[x] = 0
  /\ rows[x] \in Closed => Told(x, rows[x])
  /\ EndedOnce(x)
  /\ RevisionsInRow(x)
  /\ AbortsLast(x)

\* Of an exchange that the running handler is not about.
Quiet(x) ==
  /\ Registered(x) => phase = "up" /\ rows[x] = runtimes[x] /\ drafts[x] = Len(Saves(x))
  /\ phase = "up" /\ rows[x] \in Open => EndsOf(x) = <<>>
  /\ phase = "recovering" => (rows[x] \in Open <=> x \in stale)
  /\ x \in reading => x \notin raw

\* A request's handler, up to its events: nothing is served yet.
Admitting(x) ==
  /\ phase = "up" /\ x \notin reading
  /\ EndsOf(x) = <<>> /\ Saves(x) = <<>> /\ drafts[x] = 0
  /\ LET store    == ToRaw(x)
         row      == ToRow(x, "pending")
         received == Say(x, "request_received", "none")
         parsed   == Say(x, "request_parsed", "none")
         refused  == Say(x, "request_rejected", "none")
         closed   == ToRow(x, "rejected")
     IN  \/ /\ runtimes[x] \in {"none", "pending"}
            /\ \/ /\ rows[x] = "absent" /\ x \notin raw
                  /\ commits = <<store, row, received, parsed>>
               \/ rows[x] = "absent" /\ x \in raw /\ commits = <<row, received, parsed>>
               \/ rows[x] = "pending" /\ commits = <<received, parsed>>
               \/ rows[x] = "pending" /\ commits = <<parsed>>
         \/ /\ runtimes[x] = "none"
            /\ \/ rows[x] = "absent" /\ x \notin raw /\ commits = <<store>>
               \/ /\ rows[x] = "absent" /\ x \notin raw
                  /\ commits = <<store, row, received, refused, closed>>
               \/ /\ rows[x] = "absent" /\ x \in raw
                  /\ commits = <<row, received, refused, closed>>
               \/ rows[x] = "pending" /\ commits = <<received, refused, closed>>

\* A handler of an exchange that is served: a revision, an activation or both.
Drafting(x) ==
  /\ phase = "up" /\ x \notin reading /\ rows[x] \in Open /\ EndsOf(x) = <<>>
  /\ LET n      == Len(Saves(x)) + 1
         table  == ToDraft(x, n)
         event  == ToLog(x, Event("draft_saved", "none", n))
         active == ToRow(x, "active")
     IN  \/ /\ runtimes[x] = rows[x]
            /\ \/ drafts[x] + 1 = n /\ commits = <<table, event>>
               \/ drafts[x] = n /\ commits = <<event>>
         \/ /\ runtimes[x] = "active"
            /\ \/ drafts[x] + 1 = n /\ commits = <<table, event, active>>
               \/ drafts[x] = n /\ commits = <<event, active>>
               \/ drafts[x] + 1 = n /\ commits = <<active>>

Noting(x) ==
  /\ phase = "up" /\ rows[x] \in Open /\ Quiet(x)
  /\ commits = <<Say(x, "error_injected", "none")>>

\* The event may be told once more only by a restart.
Ending(x, s, event) ==
  /\ event \in Events /\ event.type = EndingOf[s]
  /\ event.type = "exchange_aborted" => event.revision = drafts[x]
  /\ EndsOf(x) = <<>> \/ event.why = "server_restart"

\* The end of an exchange, or its recovery: the status comes last.
Ended(x) ==
  /\ phase # "down" /\ runtimes[x] = "none" /\ x \notin reading /\ rows[x] \in Open
  /\ phase = "recovering" => x \notin stale
  /\ \/ \E s \in Closed : Told(x, s) /\ commits = <<ToRow(x, s)>>
     \/ \E s \in Closed \ {"injected"}, event \in Events :
          Ending(x, s, event) /\ commits = <<ToLog(x, event), ToRow(x, s)>>
     \/ \E event \in Events :
          /\ Ending(x, "aborted", event)
          /\ commits = <<Say(x, "client_disconnected", "none"), ToLog(x, event),
                         ToRow(x, "aborted")>>
     \/ /\ EndsOf(x) = <<>>
        /\ commits = <<Say(x, "error_injected", "none"), ToRow(x, "injected")>>

Working(x) == Admitting(x) \/ Drafting(x) \/ Noting(x) \/ Ended(x)

HandlerInv ==
  \/ commits = <<>> /\ \A x \in Ids : Quiet(x)
  \/ /\ phase = "up" /\ \A x \in Ids : Quiet(x)
     /\ \E b \in BOOLEAN : commits = <<ToSetting(b)>>
  \/ \E x \in Ids : Working(x) /\ \A y \in Ids \ {x} : Quiet(y)

IInv == TypeInv /\ (\A x \in Ids : Kept(x)) /\ HandlerInv

-----------------------------------------------------------------------------
(* Queues of commits, and the events of a log                               *)

LEMMA Queues ==
  ASSUME NEW a, NEW b, NEW c, NEW d, NEW e
  PROVE  /\ <<a>> # <<>> /\ <<a, b>> # <<>> /\ <<a, b, c>> # <<>>
         /\ <<a, b, c, d>> # <<>> /\ <<a, b, c, d, e>> # <<>>
         /\ Head(<<a>>) = a /\ Head(<<a, b>>) = a /\ Head(<<a, b, c>>) = a
         /\ Head(<<a, b, c, d>>) = a /\ Head(<<a, b, c, d, e>>) = a
         /\ Tail(<<a>>) = <<>> /\ Tail(<<a, b>>) = <<b>> /\ Tail(<<a, b, c>>) = <<b, c>>
         /\ Tail(<<a, b, c, d>>) = <<b, c, d>> /\ Tail(<<a, b, c, d, e>>) = <<b, c, d, e>>
<1>1. /\ <<a>> # <<>> /\ <<a, b>> # <<>> /\ <<a, b, c>> # <<>>
      /\ <<a, b, c, d>> # <<>> /\ <<a, b, c, d, e>> # <<>>
  OBVIOUS
<1>2. /\ Head(<<a>>) = a /\ Head(<<a, b>>) = a /\ Head(<<a, b, c>>) = a
      /\ Head(<<a, b, c, d>>) = a /\ Head(<<a, b, c, d, e>>) = a
  OBVIOUS
<1>3. Tail(<<a>>) = <<>>
  OBVIOUS
<1>4. Tail(<<a, b>>) = <<b>>
  OBVIOUS
<1>5. Tail(<<a, b, c>>) = <<b, c>>
  OBVIOUS
<1>6. Tail(<<a, b, c, d>>) = <<b, c, d>>
  OBVIOUS
<1>7. Tail(<<a, b, c, d, e>>) = <<b, c, d, e>>
  OBVIOUS
<1> QED
  BY <1>1, <1>2, <1>3, <1>4, <1>5, <1>6, <1>7

LEMMA Joined ==
  ASSUME NEW S, NEW s \in Seq(S), NEW t \in Seq(S), NEW u \in Seq(S),
         Len(u) = Len(s) + Len(t),
         \A i \in 1..Len(u) : u[i] = IF i =< Len(s) THEN s[i] ELSE t[i - Len(s)]
  PROVE  s \o t = u
<1>1. /\ s \o t \in Seq(S) /\ Len(s \o t) = Len(s) + Len(t)
      /\ \A i \in 1..Len(s) + Len(t) :
           (s \o t)[i] = IF i =< Len(s) THEN s[i] ELSE t[i - Len(s)]
  BY ConcatProperties
<1> QED
  BY <1>1, SeqEqual

LEMMA Joins ==
  ASSUME NEW a, NEW b, NEW c
  PROVE  <<>> \o <<a>> = <<a>> /\ <<a>> \o <<b>> = <<a, b>> /\ <<a, b>> \o <<c>> = <<a, b, c>>
<1> DEFINE S  == {a, b, c}
           s1 == <<a>>
           s2 == <<a, b>>
           s3 == <<a, b, c>>
           t1 == <<b>>
           t2 == <<c>>
<1>1. <<>> \o <<a>> = <<a>>
  OBVIOUS
<1>2. /\ s1 \in Seq(S) /\ s2 \in Seq(S) /\ s3 \in Seq(S) /\ t1 \in Seq(S) /\ t2 \in Seq(S)
      /\ Len(s1) = 1 /\ Len(s2) = 2 /\ Len(s3) = 3 /\ Len(t1) = 1 /\ Len(t2) = 1
  OBVIOUS
<1>3. \A i \in 1..2 : s2[i] = IF i =< 1 THEN s1[i] ELSE t1[i - 1]
  OBVIOUS
<1>4. \A i \in 1..3 : s3[i] = IF i =< 2 THEN s2[i] ELSE t2[i - 2]
  OBVIOUS
<1> HIDE DEF S, s1, s2, s3, t1, t2
<1>5. s1 \o t1 = s2
  <2>1. /\ Len(s2) = Len(s1) + Len(t1)
        /\ \A i \in 1..Len(s2) : s2[i] = IF i =< Len(s1) THEN s1[i] ELSE t1[i - Len(s1)]
    BY <1>2, <1>3
  <2> QED
    BY <1>2, <2>1, Joined
<1>6. s2 \o t2 = s3
  <2>1. /\ Len(s3) = Len(s2) + Len(t2)
        /\ \A i \in 1..Len(s3) : s3[i] = IF i =< Len(s2) THEN s2[i] ELSE t2[i - Len(s2)]
    BY <1>2, <1>4
  <2> QED
    BY <1>2, <2>1, Joined
<1> QED
  BY <1>1, <1>5, <1>6 DEF s1, s2, s3, t1, t2

LEMMA JoinedOne ==
  ASSUME NEW a, NEW b, NEW c, NEW d, NEW s, NEW t, s = <<a, b, c>>, t = <<d>>
  PROVE  s \o t = <<a, b, c, d>>
<1> DEFINE S == {a, b, c, d}
           u == <<a, b, c, d>>
<1>1. /\ s \in Seq(S) /\ t \in Seq(S) /\ u \in Seq(S)
      /\ Len(s) = 3 /\ Len(t) = 1 /\ Len(u) = 4
  OBVIOUS
<1>2. \A i \in 1..4 : u[i] = IF i =< 3 THEN s[i] ELSE t[i - 3]
  OBVIOUS
<1> HIDE DEF S, u
<1>3. \A i \in 1..Len(u) : u[i] = IF i =< Len(s) THEN s[i] ELSE t[i - Len(s)]
  BY <1>1, <1>2
<1>4. Len(u) = Len(s) + Len(t)
  BY <1>1
<1>5. s \o t = u
  BY <1>1, <1>3, <1>4, Joined, Zenon
<1> QED
  BY <1>5 DEF u

LEMMA JoinedTwo ==
  ASSUME NEW a, NEW b, NEW c, NEW d, NEW e, NEW s, NEW t, s = <<a, b, c>>, t = <<d, e>>
  PROVE  s \o t = <<a, b, c, d, e>>
<1> DEFINE S == {a, b, c, d, e}
           u == <<a, b, c, d, e>>
<1>1. /\ s \in Seq(S) /\ t \in Seq(S) /\ u \in Seq(S)
      /\ Len(s) = 3 /\ Len(t) = 2 /\ Len(u) = 5
  OBVIOUS
<1>2. \A i \in 1..5 : u[i] = IF i =< 3 THEN s[i] ELSE t[i - 3]
  OBVIOUS
<1> HIDE DEF S, u
<1>3. \A i \in 1..Len(u) : u[i] = IF i =< Len(s) THEN s[i] ELSE t[i - Len(s)]
  BY <1>1, <1>2
<1>4. Len(u) = Len(s) + Len(t)
  BY <1>1
<1>5. s \o t = u
  BY <1>1, <1>3, <1>4, Joined, Zenon
<1> QED
  BY <1>5 DEF u

LEMMA LoggedEvents ==
  ASSUME TypeInv, NEW x \in Ids, NEW types
  PROVE  /\ EventsOf(x, types) \in Seq(Events)
         /\ \A e : (\E i \in 1..Len(EventsOf(x, types)) : EventsOf(x, types)[i] = e)
                     <=> /\ e \in Events /\ e.type \in types
                         /\ \E i \in 1..Len(log[x]) : log[x][i] = e
<1> DEFINE K == {event \in Events : event.type \in types}
           s == log[x]
<1>1. s \in Seq(Events)
  BY DEF TypeInv
<1>2. Selected(s, K) \in Seq(Events \cap K)
  BY <1>1, SelectedType
<1>3. Events \cap K = K /\ Seq(K) \subseteq Seq(Events)
  OBVIOUS
<1>4. \A e : (\E i \in 1..Len(Selected(s, K)) : Selected(s, K)[i] = e)
               <=> e \in K /\ \E i \in 1..Len(s) : s[i] = e
  <2> HIDE DEF K, s
  <2> QED
    BY <1>1, SelectedElements
<1>5. EventsOf(x, types) = Selected(s, K)
  BY DEF EventsOf
<1> HIDE DEF K, s
<1>6. EventsOf(x, types) \in Seq(Events)
  BY <1>2, <1>3, <1>5
<1> QED
  BY <1>4, <1>5, <1>6 DEF K, s

LEMMA EventsType ==
  ASSUME TypeInv, NEW x \in Ids
  PROVE  /\ \A types : EventsOf(x, types) \in Seq(Events)
         /\ EndsOf(x) = <<>> => \A i \in 1..Len(log[x]) : log[x][i].type \notin Endings
         /\ Count(x, "error_injected") > 0 => Logged(x, "error_injected")
<1>0. log[x] \in Seq(Events)
  BY DEF TypeInv
<1>2. ASSUME EndsOf(x) = <<>>, NEW i \in 1..Len(log[x]) PROVE log[x][i].type \notin Endings
  <2>1. log[x][i] \in Events
    BY <1>0
  <2>2. Len(EndsOf(x)) = 0
    BY <1>2
  <2> QED
    BY <2>1, <2>2, LoggedEvents DEF EndsOf
<1>3. ASSUME Count(x, "error_injected") > 0 PROVE Logged(x, "error_injected")
  <2> DEFINE s == EventsOf(x, {"error_injected"})
  <2>1. s \in Seq(Events) /\ Len(s) > 0
    BY <1>3, LoggedEvents DEF Count
  <2>2. 1 \in 1..Len(s)
    BY <2>1
  <2> QED
    BY <2>2, LoggedEvents DEF Logged
<1> QED
  BY <1>2, <1>3, LoggedEvents

LEMMA Logging ==
  ASSUME TypeInv, NEW x \in Ids, NEW e \in Events,
         log' = [log EXCEPT ![x] = Append(@, e)]
  PROVE  /\ log' \in [Ids -> Seq(Events)]
         /\ \A y \in Ids \ {x} : log'[y] = log[y]
         /\ Len(log'[x]) = Len(log[x]) + 1 /\ log'[x][Len(log[x]) + 1] = e
         /\ \A i \in 1..Len(log[x]) : log'[x][i] = log[x][i]
         /\ EndsOf(x)' = IF e.type \in Endings THEN Append(EndsOf(x), e) ELSE EndsOf(x)
         /\ Saves(x)' = IF e.type = "draft_saved" THEN Append(Saves(x), e) ELSE Saves(x)
<1>1. log[x] \in Seq(Events) /\ log'[x] = Append(log[x], e)
  BY DEF TypeInv
<1>2. ASSUME NEW types
      PROVE  Selected(log'[x], {event \in Events : event.type \in types}) =
               IF e.type \in types THEN Append(EventsOf(x, types), e) ELSE EventsOf(x, types)
  <2> DEFINE K == {event \in Events : event.type \in types}
             s == log[x]
  <2>1. s \in Seq(Events) /\ log'[x] = Append(s, e) /\ (e \in K <=> e.type \in types)
    BY <1>1
  <2>2. EventsOf(x, types) = Selected(s, K)
    BY DEF EventsOf
  <2> HIDE DEF K, s
  <2>3. Selected(Append(s, e), K) = IF e \in K THEN Append(Selected(s, K), e) ELSE Selected(s, K)
    BY <2>1, SelectedAppend
  <2>4. Selected(log'[x], K) =
          IF e.type \in types THEN Append(EventsOf(x, types), e) ELSE EventsOf(x, types)
    BY <2>1, <2>2, <2>3
  <2> QED
    BY <2>4 DEF K
<1>3. /\ EndsOf(x)' = Selected(log'[x], {event \in Events : event.type \in Endings})
      /\ Saves(x)' = Selected(log'[x], {event \in Events : event.type \in {"draft_saved"}})
  BY DEF EndsOf, Saves, EventsOf
<1>4. /\ EndsOf(x)' = IF e.type \in Endings THEN Append(EndsOf(x), e) ELSE EndsOf(x)
      /\ Saves(x)' = IF e.type = "draft_saved" THEN Append(Saves(x), e) ELSE Saves(x)
  BY <1>2, <1>3 DEF EndsOf, Saves
<1>5. log' \in [Ids -> Seq(Events)] /\ \A y \in Ids \ {x} : log'[y] = log[y]
  BY DEF TypeInv
<1> QED
  BY <1>1, <1>4, <1>5

-----------------------------------------------------------------------------
(* What a commit leaves of Kept and Quiet                                   *)

\* Both speak of nothing but the exchange itself and the process's phase.
LEMMA Elsewhere ==
  ASSUME NEW y \in Ids, rows'[y] = rows[y], log'[y] = log[y], drafts'[y] = drafts[y],
         y \in raw' <=> y \in raw
  PROVE  /\ Kept(y) => Kept(y)'
         /\ UNCHANGED phase /\ runtimes'[y] = runtimes[y]
            /\ (y \in stale' <=> y \in stale) /\ (y \in reading' => y \in reading) /\ Quiet(y)
              => Quiet(y)'
         /\ EndsOf(y)' = EndsOf(y) /\ Saves(y)' = Saves(y) /\ LastEnding(y)' = LastEnding(y)
<1>1. EndsOf(y)' = EndsOf(y) /\ Saves(y)' = Saves(y) /\ LastEnding(y)' = LastEnding(y)
  BY DEF EndsOf, Saves, LastEnding, EventsOf
<1>2. (Logged(y, "error_injected"))' <=> Logged(y, "error_injected")
  BY DEF Logged
<1>3. /\ EndedOnce(y)' <=> EndedOnce(y)
      /\ RevisionsInRow(y)' <=> RevisionsInRow(y)
      /\ AbortsLast(y)' <=> AbortsLast(y)
  BY <1>1 DEF EndedOnce, RevisionsInRow, AbortsLast
<1>4. \A s : Told(y, s)' <=> Told(y, s)
  BY <1>1, <1>2 DEF Told
<1> QED
  BY <1>1, <1>3, <1>4 DEF Kept, Quiet, Registered

LEMMA KeptRaw ==
  ASSUME NEW x \in Ids, Kept(x), raw \subseteq raw', UNCHANGED <<rows, log, drafts>>
  PROVE  Kept(x)'
<1>1. EndsOf(x)' = EndsOf(x) /\ Saves(x)' = Saves(x) /\ LastEnding(x)' = LastEnding(x)
  BY DEF EndsOf, Saves, LastEnding, EventsOf
<1>2. Told(x, rows[x]) => Told(x, rows[x])'
  BY <1>1 DEF Told, Logged
<1> QED
  BY <1>1, <1>2 DEF Kept, EndedOnce, RevisionsInRow, AbortsLast

LEMMA KeptRow ==
  ASSUME TypeInv, NEW x \in Ids, Kept(x), x \in raw, NEW s \in Open \cup Closed,
         s \in Open \/ Told(x, s),
         rows' = [rows EXCEPT ![x] = s], UNCHANGED <<raw, log, drafts>>
  PROVE  Kept(x)'
<1>1. /\ EndsOf(x)' = EndsOf(x) /\ Saves(x)' = Saves(x) /\ LastEnding(x)' = LastEnding(x)
      /\ rows'[x] = s
  BY DEF EndsOf, Saves, LastEnding, EventsOf, TypeInv
<1>2. s \notin Open => Told(x, rows[x])'
  BY <1>1 DEF Told, Logged
<1>3. s # "absent" /\ (s \in Open => s \notin Closed)
  BY DEF Open, Closed, EndingOf
<1> QED
  BY <1>1, <1>2, <1>3 DEF Kept, EndedOnce, RevisionsInRow, AbortsLast

LEMMA KeptDraft ==
  ASSUME TypeInv, NEW x \in Ids, Kept(x), rows[x] \in Open, EndsOf(x) = <<>>,
         drafts[x] = Len(Saves(x)), drafts' = [drafts EXCEPT ![x] = drafts[x] + 1],
         UNCHANGED <<raw, rows, log>>
  PROVE  Kept(x)'
<1>1. /\ Saves(x)' = Saves(x) /\ drafts'[x] = drafts[x] + 1 /\ drafts[x] \in Nat
  BY DEF Saves, EventsOf, TypeInv
<1>2. RevisionsInRow(x)'
  BY <1>1 DEF Kept, RevisionsInRow
<1>3. AbortsLast(x)'
  BY EventsType DEF AbortsLast, Endings
<1>4. rows[x] \notin Closed /\ rows[x] # "absent"
  BY DEF Open, Closed, EndingOf
<1> QED
  BY <1>2, <1>3, <1>4 DEF Kept, EndedOnce

LEMMA KeptLog ==
  ASSUME TypeInv, NEW x \in Ids, Kept(x), rows[x] \in Open, NEW e \in Events,
         e.type \in Endings => EndsOf(x) = <<>> \/ e.why = "server_restart",
         e.type = "exchange_aborted" => e.revision = drafts[x],
         e.type = "draft_saved" => e.revision = Len(Saves(x)) + 1 /\ drafts[x] = Len(Saves(x)) + 1,
         log' = [log EXCEPT ![x] = Append(@, e)], UNCHANGED <<raw, rows, drafts>>
  PROVE  Kept(x)'
<1> DEFINE n == Len(log[x])
<1>1. /\ n \in Nat /\ Len(log'[x]) = n + 1 /\ log'[x][n + 1] = e
      /\ \A i \in 1..n : log'[x][i] = log[x][i]
  BY Logging DEF TypeInv
<1>2. Saves(x) \in Seq(Events)
  BY EventsType DEF Saves
<1>3. Saves(x)' = IF e.type = "draft_saved" THEN Append(Saves(x), e) ELSE Saves(x)
  BY Logging
<1> HIDE DEF n
<1>4. EndedOnce(x)'
  <2> SUFFICES ASSUME NEW i \in 1..n + 1, NEW j \in 1..n + 1, i < j,
                      log'[x][i].type \in Endings, log'[x][j].type \in Endings
               PROVE  log'[x][j].why = "server_restart"
    BY <1>1 DEF EndedOnce
  <2>1. CASE j = n + 1
    <3>1. i \in 1..n
      BY <1>1, <2>1
    <3>2. EndsOf(x) # <<>>
      BY <1>1, <3>1, EventsType DEF n
    <3> QED
      BY <1>1, <2>1, <3>2
  <2>2. CASE j # n + 1
    <3>1. i \in 1..n /\ j \in 1..n
      BY <1>1, <2>2
    <3> QED
      BY <1>1, <3>1 DEF Kept, EndedOnce, n
  <2> QED
    BY <2>1, <2>2
<1>5. RevisionsInRow(x)'
  <2>1. CASE e.type # "draft_saved"
    BY <1>3, <2>1 DEF Kept, RevisionsInRow
  <2>2. CASE e.type = "draft_saved"
    <3> DEFINE s == Saves(x)
               t == Append(s, e)
    <3>1. /\ Len(t) = Len(s) + 1 /\ t[Len(s) + 1] = e /\ Len(s) \in Nat
          /\ \A i \in 1..Len(s) : t[i] = s[i]
      BY <1>2, AppendProperties
    <3>2. \A i \in 1..Len(s) : s[i].revision = i
      BY DEF Kept, RevisionsInRow
    <3>3. \A i \in 1..Len(t) : t[i].revision = i
      <4> HIDE DEF s, t
      <4>1. e.revision = Len(s) + 1
        BY <2>2 DEF s
      <4>2. \A i \in 1..Len(t) : i \in 1..Len(s) \/ i = Len(s) + 1
        BY <3>1
      <4> QED
        BY <3>1, <3>2, <4>1, <4>2
    <3>4. drafts[x] = Len(s) + 1
      BY <2>2
    <3> HIDE DEF s, t
    <3>5. Saves(x)' = t
      BY <1>3, <2>2 DEF s, t
    <3>6. drafts[x] \in Len(t)..Len(t) + 1
      BY <3>1, <3>4
    <3> QED
      BY <3>3, <3>5, <3>6 DEF RevisionsInRow
  <2> QED
    BY <2>1, <2>2
<1>6. AbortsLast(x)'
  <2> SUFFICES ASSUME NEW i \in 1..n + 1, log'[x][i].type = "exchange_aborted"
               PROVE  log'[x][i].revision = drafts[x]
    BY <1>1 DEF AbortsLast
  <2>1. CASE i = n + 1
    BY <1>1, <2>1
  <2>2. CASE i # n + 1
    <3>1. i \in 1..n
      BY <1>1, <2>2
    <3> QED
      BY <1>1, <3>1 DEF Kept, AbortsLast, n
  <2> QED
    BY <2>1, <2>2
<1>7. rows[x] \notin Closed /\ rows[x] # "absent"
  BY DEF Open, Closed, EndingOf
<1> QED
  BY <1>4, <1>5, <1>6, <1>7 DEF Kept

-----------------------------------------------------------------------------
(* One commit                                                               *)

\* Nothing but x changes on the disk.
Only(x) ==
  \A y \in Ids \ {x} : /\ rows'[y] = rows[y] /\ log'[y] = log[y] /\ drafts'[y] = drafts[y]
                       /\ y \in raw' <=> y \in raw

LEMMA RawCommit ==
  ASSUME TypeInv, NEW x \in Ids, Kept(x), Commit, Head(commits) = ToRaw(x)
  PROVE  /\ TypeInv' /\ Kept(x)' /\ Only(x)
         /\ UNCHANGED <<memory, rows, log, drafts>> /\ raw' = raw \cup {x}
         /\ commits' = Tail(commits)
         /\ EndsOf(x)' = EndsOf(x) /\ Saves(x)' = Saves(x)
<1>1. /\ UNCHANGED <<memory, rows, log, drafts>> /\ raw' = raw \cup {x}
      /\ commits' = Tail(commits)
  BY DEF Commit, ToRaw
<1>2. TypeInv'
  BY <1>1 DEF TypeInv, memory
<1>3. EndsOf(x)' = EndsOf(x) /\ Saves(x)' = Saves(x)
  BY <1>1 DEF EndsOf, Saves, EventsOf
<1> QED
  BY <1>1, <1>2, <1>3, KeptRaw DEF Only

LEMMA RowCommit ==
  ASSUME TypeInv, NEW x \in Ids, Kept(x), x \in raw, NEW s \in Open \cup Closed,
         s \in Open \/ Told(x, s), Commit, Head(commits) = ToRow(x, s)
  PROVE  /\ TypeInv' /\ Kept(x)' /\ Only(x)
         /\ UNCHANGED <<memory, raw, log, drafts>> /\ rows'[x] = s
         /\ commits' = Tail(commits)
         /\ EndsOf(x)' = EndsOf(x) /\ Saves(x)' = Saves(x)
<1>1. /\ UNCHANGED <<memory, raw, log, drafts>> /\ rows' = [rows EXCEPT ![x] = s]
      /\ commits' = Tail(commits)
  <2> DEFINE c == Head(commits)
  <2>1. c.to = "row" /\ c.x = x /\ c.value = s
    BY DEF ToRow
  <2>2. /\ raw' = IF c.to = "raw" THEN raw \cup {c.x} ELSE raw
        /\ rows' = IF c.to = "row" THEN [rows EXCEPT ![c.x] = c.value] ELSE rows
        /\ log' = IF c.to = "log" THEN [log EXCEPT ![c.x] = Append(@, c.value)] ELSE log
        /\ drafts' = IF c.to = "draft" THEN [drafts EXCEPT ![c.x] = c.value] ELSE drafts
        /\ commits' = Tail(commits) /\ UNCHANGED memory
    BY DEF Commit
  <2> HIDE DEF c
  <2> QED
    BY <2>1, <2>2
<1>2. TypeInv' /\ rows'[x] = s
  BY <1>1 DEF TypeInv, memory
<1>3. EndsOf(x)' = EndsOf(x) /\ Saves(x)' = Saves(x)
  BY <1>1 DEF EndsOf, Saves, EventsOf
<1> QED
  BY <1>1, <1>2, <1>3, KeptRow DEF Only, TypeInv

LEMMA DraftCommit ==
  ASSUME TypeInv, NEW x \in Ids, Kept(x), rows[x] \in Open, EndsOf(x) = <<>>,
         drafts[x] = Len(Saves(x)), Commit, Head(commits) = ToDraft(x, drafts[x] + 1)
  PROVE  /\ TypeInv' /\ Kept(x)' /\ Only(x)
         /\ UNCHANGED <<memory, raw, rows, log>> /\ drafts'[x] = drafts[x] + 1
         /\ commits' = Tail(commits)
         /\ EndsOf(x)' = EndsOf(x) /\ Saves(x)' = Saves(x)
<1>1. /\ UNCHANGED <<memory, raw, rows, log>>
      /\ drafts' = [drafts EXCEPT ![x] = drafts[x] + 1] /\ commits' = Tail(commits)
  <2> DEFINE c == Head(commits)
  <2>1. c.to = "draft" /\ c.x = x /\ c.value = drafts[x] + 1
    BY DEF ToDraft
  <2>2. /\ raw' = IF c.to = "raw" THEN raw \cup {c.x} ELSE raw
        /\ rows' = IF c.to = "row" THEN [rows EXCEPT ![c.x] = c.value] ELSE rows
        /\ log' = IF c.to = "log" THEN [log EXCEPT ![c.x] = Append(@, c.value)] ELSE log
        /\ drafts' = IF c.to = "draft" THEN [drafts EXCEPT ![c.x] = c.value] ELSE drafts
        /\ commits' = Tail(commits) /\ UNCHANGED memory
    BY DEF Commit
  <2> HIDE DEF c
  <2> QED
    BY <2>1, <2>2
<1>2. TypeInv' /\ drafts'[x] = drafts[x] + 1
  BY <1>1 DEF TypeInv, memory
<1>3. EndsOf(x)' = EndsOf(x) /\ Saves(x)' = Saves(x)
  BY <1>1 DEF EndsOf, Saves, EventsOf
<1> QED
  BY <1>1, <1>2, <1>3, KeptDraft DEF Only, TypeInv

LEMMA LogCommit ==
  ASSUME TypeInv, NEW x \in Ids, Kept(x), rows[x] \in Open, NEW e \in Events,
         e.type \in Endings => EndsOf(x) = <<>> \/ e.why = "server_restart",
         e.type = "exchange_aborted" => e.revision = drafts[x],
         e.type = "draft_saved" => e.revision = Len(Saves(x)) + 1 /\ drafts[x] = Len(Saves(x)) + 1,
         Commit, Head(commits) = ToLog(x, e)
  PROVE  /\ TypeInv' /\ Kept(x)' /\ Only(x)
         /\ UNCHANGED <<memory, raw, rows, drafts>>
         /\ commits' = Tail(commits)
         /\ EndsOf(x)' = IF e.type \in Endings THEN Append(EndsOf(x), e) ELSE EndsOf(x)
         /\ Saves(x)' = IF e.type = "draft_saved" THEN Append(Saves(x), e) ELSE Saves(x)
         /\ (Logged(x, e.type))'
<1>1. /\ UNCHANGED <<memory, raw, rows, drafts>>
      /\ log' = [log EXCEPT ![x] = Append(@, e)] /\ commits' = Tail(commits)
  <2> DEFINE c == Head(commits)
  <2>1. c.to = "log" /\ c.x = x /\ c.value = e
    BY DEF ToLog
  <2>2. /\ raw' = IF c.to = "raw" THEN raw \cup {c.x} ELSE raw
        /\ rows' = IF c.to = "row" THEN [rows EXCEPT ![c.x] = c.value] ELSE rows
        /\ log' = IF c.to = "log" THEN [log EXCEPT ![c.x] = Append(@, c.value)] ELSE log
        /\ drafts' = IF c.to = "draft" THEN [drafts EXCEPT ![c.x] = c.value] ELSE drafts
        /\ commits' = Tail(commits) /\ UNCHANGED memory
    BY DEF Commit
  <2> HIDE DEF c
  <2> QED
    BY <2>1, <2>2
<1>2. /\ log' \in [Ids -> Seq(Events)] /\ \A y \in Ids \ {x} : log'[y] = log[y]
      /\ Len(log'[x]) = Len(log[x]) + 1 /\ log'[x][Len(log[x]) + 1] = e
      /\ EndsOf(x)' = IF e.type \in Endings THEN Append(EndsOf(x), e) ELSE EndsOf(x)
      /\ Saves(x)' = IF e.type = "draft_saved" THEN Append(Saves(x), e) ELSE Saves(x)
  BY <1>1, Logging
<1>3. TypeInv'
  BY <1>1, <1>2 DEF TypeInv, memory
<1>4. (Logged(x, e.type))'
  <2>1. Len(log[x]) + 1 \in 1..Len(log'[x])
    BY <1>2 DEF TypeInv
  <2> QED
    BY <1>2, <2>1 DEF Logged
<1>5. Kept(x)'
  BY <1>1, KeptLog
<1> QED
  BY <1>1, <1>2, <1>3, <1>4, <1>5 DEF Only

\* The events the handlers write.
LEMMA EventTypes ==
  /\ \A type \in Types, why \in Whys, n \in Nat :
       /\ Event(type, why, n) \in Events
       /\ Event(type, why, n).type = type /\ Event(type, why, n).why = why
       /\ Event(type, why, n).revision = n
  /\ \A type \in Types, why \in Whys : \A x : Say(x, type, why) = ToLog(x, Event(type, why, 0))
BY DEF Event, Events, Say

\* The running handler goes on, or is through.
LEMMA OthersQuiet ==
  ASSUME IInv, NEW x \in Ids, \A y \in Ids \ {x} : Quiet(y), Only(x),
         UNCHANGED memory, TypeInv', Kept(x)',
         (commits' = <<>> /\ Quiet(x)') \/ Working(x)'
  PROVE  IInv'
<1>1. ASSUME NEW y \in Ids \ {x} PROVE Kept(y)' /\ Quiet(y)'
  <2>1. rows'[y] = rows[y] /\ log'[y] = log[y] /\ drafts'[y] = drafts[y] /\ (y \in raw' <=> y \in raw)
    BY DEF Only
  <2>2. Kept(y) /\ Quiet(y)
    BY DEF IInv
  <2> QED
    BY <2>1, <2>2, Elsewhere DEF memory
<1> QED
  BY <1>1 DEF IInv, HandlerInv

-----------------------------------------------------------------------------
(* The handlers, commit by commit                                           *)

LEMMA AdmittingStep ==
  ASSUME IInv, Commit, NEW x \in Ids, Admitting(x), \A y \in Ids \ {x} : Quiet(y)
  PROVE  IInv'
<1> DEFINE store    == ToRaw(x)
           row      == ToRow(x, "pending")
           received == Say(x, "request_received", "none")
           parsed   == Say(x, "request_parsed", "none")
           refused  == Say(x, "request_rejected", "none")
           closed   == ToRow(x, "rejected")
           Rcv      == Event("request_received", "none", 0)
           Prs      == Event("request_parsed", "none", 0)
           Rej      == Event("request_rejected", "none", 0)
<1>0. /\ TypeInv /\ Kept(x)
      /\ phase = "up" /\ x \notin reading
      /\ EndsOf(x) = <<>> /\ Saves(x) = <<>> /\ drafts[x] = 0
      /\ "pending" \in Open /\ "rejected" \in Closed /\ "absent" \notin Open
      /\ Len(<<>>) = 0
  BY DEF IInv, Admitting, Open, Closed, EndingOf
<1>1. /\ Rcv \in Events /\ Prs \in Events /\ Rej \in Events
      /\ received = ToLog(x, Rcv) /\ parsed = ToLog(x, Prs) /\ refused = ToLog(x, Rej)
      /\ Rcv.type = "request_received" /\ Prs.type = "request_parsed"
      /\ Rej.type = "request_rejected"
      /\ {Rcv.type, Prs.type} \cap (Endings \cup {"exchange_aborted", "draft_saved"}) = {}
  BY EventTypes DEF Types, Whys, Endings, Event, Say
<1>2. CASE rows[x] = "absent" /\ x \notin raw /\ Head(commits) = store
  <2>1. /\ TypeInv' /\ Kept(x)' /\ Only(x)
        /\ UNCHANGED <<memory, rows, log, drafts>> /\ raw' = raw \cup {x}
        /\ commits' = Tail(commits)
        /\ EndsOf(x)' = EndsOf(x) /\ Saves(x)' = Saves(x)
    BY <1>0, <1>2, RawCommit
  <2>2. CASE runtimes[x] = "none" /\ commits = <<store>>
    <3>1. commits' = <<>>
      BY <2>1, <2>2, Queues
    <3>2. Quiet(x)'
      BY <1>0, <1>2, <2>1, <2>2 DEF Quiet, Registered, memory
    <3> QED
      BY <2>1, <3>1, <3>2, OthersQuiet
  <2>3. CASE /\ runtimes[x] = "none"
             /\ commits = <<store, row, received, refused, closed>>
    <3>1. commits' = <<row, received, refused, closed>>
      BY <2>1, <2>3, Queues
    <3>2. Admitting(x)'
      BY <1>0, <1>2, <2>1, <2>3, <3>1 DEF Admitting, memory
    <3> QED
      BY <2>1, <3>2, OthersQuiet DEF Working
  <2>4. CASE /\ runtimes[x] \in {"none", "pending"}
             /\ commits = <<store, row, received, parsed>>
    <3>1. commits' = <<row, received, parsed>>
      BY <2>1, <2>4, Queues
    <3>2. Admitting(x)'
      BY <1>0, <1>2, <2>1, <2>4, <3>1 DEF Admitting, memory
    <3> QED
      BY <2>1, <3>2, OthersQuiet DEF Working
  <2>5. Head(commits) # row /\ Head(commits) # received /\ Head(commits) # parsed
    BY <1>2 DEF ToRaw, ToRow, ToLog, Say
  <2> QED
    BY <1>2, <2>2, <2>3, <2>4, <2>5, Queues DEF Admitting
<1>3. CASE rows[x] = "absent" /\ x \in raw /\ Head(commits) = row
  <2>1. /\ TypeInv' /\ Kept(x)' /\ Only(x)
        /\ UNCHANGED <<memory, raw, log, drafts>> /\ rows'[x] = "pending"
        /\ commits' = Tail(commits)
        /\ EndsOf(x)' = EndsOf(x) /\ Saves(x)' = Saves(x)
    BY <1>0, <1>3, RowCommit
  <2>2. CASE runtimes[x] = "none" /\ commits = <<row, received, refused, closed>>
    <3>1. commits' = <<received, refused, closed>>
      BY <2>1, <2>2, Queues
    <3>2. Admitting(x)'
      BY <1>0, <1>3, <2>1, <2>2, <3>1 DEF Admitting, memory
    <3> QED
      BY <2>1, <3>2, OthersQuiet DEF Working
  <2>3. CASE runtimes[x] \in {"none", "pending"} /\ commits = <<row, received, parsed>>
    <3>1. commits' = <<received, parsed>>
      BY <2>1, <2>3, Queues
    <3>2. Admitting(x)'
      BY <1>0, <1>3, <2>1, <2>3, <3>1 DEF Admitting, memory
    <3> QED
      BY <2>1, <3>2, OthersQuiet DEF Working
  <2> QED
    BY <1>3, <2>2, <2>3 DEF Admitting
<1>4. CASE rows[x] = "pending" /\ Head(commits) = received
  <2>1. /\ TypeInv' /\ Kept(x)' /\ Only(x)
        /\ UNCHANGED <<memory, raw, rows, drafts>>
        /\ commits' = Tail(commits)
        /\ EndsOf(x)' = EndsOf(x) /\ Saves(x)' = Saves(x)
    BY <1>0, <1>1, <1>4, LogCommit
  <2>2. CASE runtimes[x] = "none" /\ commits = <<received, refused, closed>>
    <3>1. commits' = <<refused, closed>>
      BY <2>1, <2>2, Queues
    <3>2. Ending(x, "rejected", Rej)'
      BY <1>0, <1>1, <2>1 DEF Ending, EndingOf
    <3>3. commits' = <<ToLog(x, Rej), ToRow(x, "rejected")>>
      BY <1>1, <3>1
    <3>4. /\ phase' = "up" /\ runtimes'[x] = "none" /\ x \notin reading'
          /\ rows'[x] \in Open
      BY <1>0, <1>4, <2>1, <2>2 DEF memory
    <3>5. Ended(x)'
      <4>1. "rejected" \in Closed \ {"injected"}
        BY DEF Closed, EndingOf
      <4> QED
        BY <1>1, <3>2, <3>3, <3>4, <4>1 DEF Ended
    <3> QED
      BY <2>1, <3>5, OthersQuiet DEF Working
  <2>3. CASE runtimes[x] \in {"none", "pending"} /\ commits = <<received, parsed>>
    <3>1. commits' = <<parsed>>
      BY <2>1, <2>3, Queues
    <3>2. Admitting(x)'
      BY <1>0, <1>4, <2>1, <2>3, <3>1 DEF Admitting, memory
    <3> QED
      BY <2>1, <3>2, OthersQuiet DEF Working
  <2>4. Head(commits) # parsed
    BY <1>1, <1>4 DEF ToLog
  <2> QED
    BY <1>0, <1>4, <2>2, <2>3, <2>4, Queues DEF Admitting
<1>5. CASE /\ rows[x] = "pending" /\ commits = <<parsed>>
           /\ runtimes[x] \in {"none", "pending"}
  <2>1. /\ TypeInv' /\ Kept(x)' /\ Only(x)
        /\ UNCHANGED <<memory, raw, rows, drafts>>
        /\ commits' = <<>>
        /\ EndsOf(x)' = EndsOf(x) /\ Saves(x)' = Saves(x)
    BY <1>0, <1>1, <1>5, LogCommit, Queues
  <2>2. Quiet(x)'
    BY <1>0, <1>5, <2>1 DEF Quiet, Registered, memory
  <2> QED
    BY <2>1, <2>2, OthersQuiet
<1> QED
  BY <1>2, <1>3, <1>4, <1>5, Queues DEF Admitting

LEMMA DraftingStep ==
  ASSUME IInv, Commit, NEW x \in Ids, Drafting(x), \A y \in Ids \ {x} : Quiet(y)
  PROVE  IInv'
<1> DEFINE n      == Len(Saves(x)) + 1
           table  == ToDraft(x, n)
           Saved  == Event("draft_saved", "none", n)
           event  == ToLog(x, Saved)
           active == ToRow(x, "active")
<1>0. /\ TypeInv /\ Kept(x)
      /\ phase = "up" /\ x \notin reading /\ rows[x] \in Open /\ EndsOf(x) = <<>>
      /\ Saves(x) \in Seq(Events) /\ Len(Saves(x)) \in Nat /\ n \in Nat
      /\ "active" \in Open /\ x \in raw /\ drafts[x] \in Nat
      /\ rows[x] # "none"
  BY EventsType DEF IInv, Drafting, Open, Kept, Saves, TypeInv
<1>1. /\ Saved \in Events /\ Saved.type = "draft_saved" /\ Saved.revision = n
      /\ Saved.type \notin Endings
  BY <1>0, EventTypes DEF Types, Whys, Endings
<1>2. CASE drafts[x] + 1 = n /\ Head(commits) = table
  <2>1. /\ TypeInv' /\ Kept(x)' /\ Only(x)
        /\ UNCHANGED <<memory, raw, rows, log>> /\ drafts'[x] = n
        /\ commits' = Tail(commits)
        /\ EndsOf(x)' = EndsOf(x) /\ Saves(x)' = Saves(x)
    BY <1>0, <1>2, DraftCommit
  <2>2. ASSUME \/ commits' = <<event>> /\ runtimes[x] = rows[x]
               \/ commits' = <<event, active>> /\ runtimes[x] = "active"
        PROVE  Drafting(x)'
    BY <1>0, <2>1, <2>2 DEF Drafting, memory
  <2>3. \/ commits = <<table, event>> /\ runtimes[x] = rows[x]
        \/ commits = <<table, event, active>> /\ runtimes[x] = "active"
    <3>1. table # event /\ table # active
      BY DEF ToDraft, ToLog, ToRow
    <3> QED
      BY <1>2, <3>1, Queues DEF Drafting
  <2>4. \/ commits' = <<event>> /\ runtimes[x] = rows[x]
        \/ commits' = <<event, active>> /\ runtimes[x] = "active"
    <3> HIDE DEF table, event, active
    <3>1. Tail(<<table, event>>) = <<event>> /\ Tail(<<table, event, active>>) = <<event, active>>
      BY Queues
    <3> QED
      BY <2>1, <2>3, <3>1
  <2>5. Drafting(x)'
    BY <2>2, <2>4
  <2> QED
    BY <2>1, <2>5, OthersQuiet DEF Working
<1>3. CASE drafts[x] = n /\ Head(commits) = event
  <2>1. /\ TypeInv' /\ Kept(x)' /\ Only(x)
        /\ UNCHANGED <<memory, raw, rows, drafts>>
        /\ commits' = Tail(commits)
        /\ EndsOf(x)' = EndsOf(x) /\ Saves(x)' = Append(Saves(x), Saved)
    BY <1>0, <1>1, <1>3, LogCommit
  <2>2. Len(Saves(x)') = n /\ drafts'[x] = n
    BY <1>0, <1>3, <2>1, AppendProperties
  <2>3. CASE commits = <<event>> /\ runtimes[x] = rows[x]
    <3>1. commits' = <<>>
      BY <2>1, <2>3, Queues
    <3>2. Quiet(x)'
      BY <1>0, <2>1, <2>2, <2>3 DEF Quiet, Registered, memory
    <3> QED
      BY <2>1, <3>1, <3>2, OthersQuiet
  <2>4. CASE commits = <<event, active>> /\ runtimes[x] = "active"
    <3>1. commits' = <<active>>
      BY <2>1, <2>4, Queues
    <3>2. drafts'[x] + 1 = Len(Saves(x)') + 1
      BY <2>2
    <3> HIDE DEF n
    <3>3. Drafting(x)'
      BY <1>0, <2>1, <2>4, <3>1, <3>2 DEF Drafting, memory
    <3> QED
      BY <2>1, <3>3, OthersQuiet DEF Working
  <2>5. event # table /\ event # active
    BY DEF ToDraft, ToLog, ToRow
  <2> QED
    BY <1>3, <2>3, <2>4, <2>5, Queues DEF Drafting
<1>4. CASE drafts[x] + 1 = n /\ commits = <<active>> /\ runtimes[x] = "active"
  <2>1. /\ TypeInv' /\ Kept(x)' /\ Only(x)
        /\ UNCHANGED <<memory, raw, log, drafts>> /\ rows'[x] = "active"
        /\ commits' = <<>>
        /\ EndsOf(x)' = EndsOf(x) /\ Saves(x)' = Saves(x)
    BY <1>0, <1>4, RowCommit, Queues
  <2>2. Quiet(x)'
    BY <1>0, <1>4, <2>1 DEF Quiet, Registered, memory
  <2> QED
    BY <2>1, <2>2, OthersQuiet
<1> QED
  BY <1>2, <1>3, <1>4, Queues DEF Drafting

LEMMA NotingStep ==
  ASSUME IInv, Commit, NEW x \in Ids, Noting(x), \A y \in Ids \ {x} : Quiet(y)
  PROVE  IInv'
<1> DEFINE noted == Event("error_injected", "none", 0)
<1>1. /\ noted \in Events /\ noted.type = "error_injected"
      /\ Say(x, "error_injected", "none") = ToLog(x, noted)
      /\ noted.type \notin Endings \cup {"exchange_aborted", "draft_saved"}
  BY EventTypes DEF Types, Whys, Endings
<1>2. /\ TypeInv /\ Kept(x) /\ rows[x] \in Open /\ Quiet(x)
      /\ Head(commits) = ToLog(x, noted) /\ Tail(commits) = <<>>
  BY <1>1, Queues DEF IInv, Noting
<1>3. /\ TypeInv' /\ Kept(x)' /\ Only(x)
      /\ UNCHANGED <<memory, raw, rows, drafts>> /\ commits' = <<>>
      /\ EndsOf(x)' = EndsOf(x) /\ Saves(x)' = Saves(x)
  BY <1>1, <1>2, LogCommit
<1>4. Quiet(x)'
  BY <1>2, <1>3 DEF Quiet, Registered, memory
<1> QED
  BY <1>3, <1>4, OthersQuiet

LEMMA EndedStep ==
  ASSUME IInv, Commit, NEW x \in Ids, Ended(x), \A y \in Ids \ {x} : Quiet(y)
  PROVE  IInv'
<1>0. /\ TypeInv /\ Kept(x) /\ x \in raw /\ rows[x] \notin Closed
      /\ phase # "down" /\ runtimes[x] = "none" /\ x \notin reading /\ rows[x] \in Open
      /\ phase = "recovering" => x \notin stale
  BY DEF IInv, Ended, Kept, Open, Closed, EndingOf
<1>1. ASSUME NEW s \in Closed, Told(x, s), commits = <<ToRow(x, s)>> PROVE IInv'
  <2>1. /\ TypeInv' /\ Kept(x)' /\ Only(x)
        /\ UNCHANGED <<memory, raw, log, drafts>> /\ rows'[x] = s
        /\ commits' = <<>>
    BY <1>0, <1>1, RowCommit, Queues
  <2>2. s \notin Open
    BY DEF Open, Closed, EndingOf
  <2>3. Quiet(x)'
    BY <1>0, <2>1, <2>2 DEF Quiet, Registered, memory
  <2> QED
    BY <2>1, <2>3, OthersQuiet
<1>2. ASSUME NEW s \in Closed \ {"injected"}, NEW event \in Events, Ending(x, s, event),
             commits = <<ToLog(x, event), ToRow(x, s)>>
      PROVE  IInv'
  <2>1. /\ Head(commits) = ToLog(x, event) /\ Tail(commits) = <<ToRow(x, s)>>
        /\ event.type \in Endings /\ event.type # "draft_saved" /\ event.type = EndingOf[s]
    BY <1>2, Queues DEF Ending, Closed, EndingOf, Endings
  <2>2. /\ TypeInv' /\ Kept(x)' /\ Only(x)
        /\ UNCHANGED <<memory, raw, rows, drafts>> /\ commits' = <<ToRow(x, s)>>
        /\ EndsOf(x)' = Append(EndsOf(x), event)
    BY <1>0, <1>2, <2>1, LogCommit DEF Ending
  <2>3. LastEnding(x)' = EndingOf[s]
    <3> DEFINE t == EndsOf(x)
               u == Append(t, event)
    <3>1. t \in Seq(Events)
      BY <1>0, EventsType DEF EndsOf
    <3> HIDE DEF t
    <3>2. Len(u) = Len(t) + 1 /\ Len(t) \in Nat /\ u[Len(u)] = event /\ u # <<>>
      BY <3>1, AppendProperties
    <3> HIDE DEF u
    <3>3. EndsOf(x)' = u
      BY <2>2 DEF t, u
    <3>4. LastEnding(x)' = event.type
      BY <3>2, <3>3 DEF LastEnding, EndsOf
    <3> QED
      BY <2>1, <3>4
  <2>4. Told(x, s)'
    BY <1>2, <2>3 DEF Told
  <2>5. Ended(x)'
    BY <1>0, <2>2, <2>4 DEF Ended, memory
  <2> QED
    BY <2>2, <2>5, OthersQuiet DEF Working
<1>3. ASSUME NEW event \in Events, Ending(x, "aborted", event),
             commits = <<Say(x, "client_disconnected", "none"), ToLog(x, event),
                         ToRow(x, "aborted")>>
      PROVE  IInv'
  <2> DEFINE gone == Event("client_disconnected", "none", 0)
  <2>1. /\ gone \in Events /\ gone.type = "client_disconnected"
        /\ Say(x, "client_disconnected", "none") = ToLog(x, gone)
        /\ gone.type \notin Endings \cup {"exchange_aborted", "draft_saved"}
    BY EventTypes DEF Types, Whys, Endings
  <2>2. /\ Head(commits) = ToLog(x, gone)
        /\ Tail(commits) = <<ToLog(x, event), ToRow(x, "aborted")>>
    BY <1>3, <2>1, Queues
  <2>3. /\ TypeInv' /\ Kept(x)' /\ Only(x)
        /\ UNCHANGED <<memory, raw, rows, drafts>>
        /\ commits' = <<ToLog(x, event), ToRow(x, "aborted")>>
        /\ EndsOf(x)' = EndsOf(x)
    BY <1>0, <2>1, <2>2, LogCommit
  <2>4. Ending(x, "aborted", event)'
    BY <1>3, <2>3 DEF Ending
  <2>5. "aborted" \in Closed \ {"injected"}
    BY DEF Closed, EndingOf
  <2>6. Ended(x)'
    BY <1>0, <2>3, <2>4, <2>5 DEF Ended, memory
  <2> QED
    BY <2>3, <2>6, OthersQuiet DEF Working
<1>4. ASSUME EndsOf(x) = <<>>,
             commits = <<Say(x, "error_injected", "none"), ToRow(x, "injected")>>
      PROVE  IInv'
  <2> DEFINE noted == Event("error_injected", "none", 0)
  <2>1. /\ noted \in Events /\ noted.type = "error_injected"
        /\ Say(x, "error_injected", "none") = ToLog(x, noted)
        /\ noted.type \notin Endings \cup {"exchange_aborted", "draft_saved"}
    BY EventTypes DEF Types, Whys, Endings
  <2>2. Head(commits) = ToLog(x, noted) /\ Tail(commits) = <<ToRow(x, "injected")>>
    BY <1>4, <2>1, Queues
  <2>3. /\ TypeInv' /\ Kept(x)' /\ Only(x)
        /\ UNCHANGED <<memory, raw, rows, drafts>> /\ commits' = <<ToRow(x, "injected")>>
        /\ EndsOf(x)' = <<>> /\ (Logged(x, "error_injected"))'
    BY <1>0, <1>4, <2>1, <2>2, LogCommit
  <2>4. Told(x, "injected")'
    BY <2>3 DEF Told, LastEnding, EndsOf, EndingOf
  <2>5. "injected" \in Closed
    BY DEF Closed, EndingOf
  <2>6. Ended(x)'
    BY <1>0, <2>3, <2>4, <2>5 DEF Ended, memory
  <2> QED
    BY <2>3, <2>6, OthersQuiet DEF Working
<1> QED
  BY <1>1, <1>2, <1>3, <1>4 DEF Ended

LEMMA CommitStep == IInv /\ Commit => IInv'
<1> SUFFICES ASSUME IInv, Commit PROVE IInv'
  OBVIOUS
<1>1. CASE commits = <<>>
  BY <1>1 DEF Commit
<1>2. CASE /\ phase = "up" /\ \A x \in Ids : Quiet(x)
           /\ \E b \in BOOLEAN : commits = <<ToSetting(b)>>
  <2>1. PICK b \in BOOLEAN : commits = <<ToSetting(b)>>
    BY <1>2
  <2>2. commits' = <<>> /\ Head(commits).to = "setting" /\ UNCHANGED memory
    BY <2>1, Queues DEF Commit, ToSetting
  <2>3. UNCHANGED <<rows, log, drafts, raw>>
    BY <2>2 DEF Commit
  <2>4. TypeInv'
    BY <2>2, <2>3 DEF IInv, TypeInv, memory
  <2>5. ASSUME NEW y \in Ids PROVE Kept(y)' /\ Quiet(y)'
    BY <1>2, <2>2, <2>3, Elsewhere DEF IInv, memory
  <2> QED
    BY <2>2, <2>4, <2>5 DEF IInv, HandlerInv
<1>3. CASE \E x \in Ids : Working(x) /\ \A y \in Ids \ {x} : Quiet(y)
  BY <1>3, AdmittingStep, DraftingStep, NotingStep, EndedStep DEF Working
<1> QED
  BY <1>1, <1>2, <1>3 DEF IInv, HandlerInv

-----------------------------------------------------------------------------
(* The handlers begin, the process ends and starts                          *)

\* Between two handlers nothing is working.
LEMMA AllQuiet ==
  ASSUME IInv, Idle
  PROVE  \A x \in Ids : Quiet(x)
<1>1. \A x \in Ids : ~Working(x)
  BY Queues DEF Idle, Working, Admitting, Drafting, Noting, Ended
<1>2. \A b : commits # <<ToSetting(b)>>
  BY Queues DEF Idle
<1> QED
  BY <1>1, <1>2 DEF IInv, HandlerInv

\* A handler about x begins.
LEMMA Begins ==
  ASSUME IInv, Idle, NEW x \in Ids, UNCHANGED <<phase, raw, rows, log, drafts>>, TypeInv',
         \A y \in Ids \ {x} : /\ runtimes'[y] = runtimes[y]
                              /\ y \in stale' <=> y \in stale
                              /\ y \in reading' => y \in reading,
         (commits' = <<>> /\ Quiet(x)') \/ Working(x)'
  PROVE  IInv'
<1>1. ASSUME NEW y \in Ids PROVE Kept(y)' /\ (y # x => Quiet(y)')
  <2>1. Kept(y) /\ Quiet(y)
    BY AllQuiet DEF IInv
  <2>2. Kept(y)'
    BY <2>1, Elsewhere
  <2>3. ASSUME y # x PROVE Quiet(y)'
    <3>1. y \in Ids \ {x}
      BY <2>3
    <3>2. /\ runtimes'[y] = runtimes[y] /\ (y \in stale' <=> y \in stale)
          /\ (y \in reading' => y \in reading)
      BY <3>1
    <3> QED
      BY <2>1, <3>2, Elsewhere
  <2> QED
    BY <2>2, <2>3
<1> QED
  BY <1>1 DEF IInv, HandlerInv

LEMMA CrashStep == IInv /\ Crash => IInv'
<1> SUFFICES ASSUME IInv, Crash PROVE IInv'
  OBVIOUS
<1>1. /\ UNCHANGED <<rows, log, drafts, raw>> /\ phase' = "down" /\ commits' = <<>>
      /\ reading' = {} /\ stale' = {} /\ runtimes' = [x \in Ids |-> "none"]
  BY DEF Crash, disk
<1>2. TypeInv'
  BY <1>1 DEF IInv, TypeInv
<1>3. ASSUME NEW y \in Ids PROVE Kept(y)' /\ Quiet(y)'
  <2>1. Kept(y)'
    BY <1>1, Elsewhere DEF IInv
  <2>2. Quiet(y)'
    BY <1>1 DEF Quiet, Registered
  <2> QED
    BY <2>1, <2>2
<1> QED
  BY <1>1, <1>2, <1>3 DEF IInv, HandlerInv

LEMMA StartStep == IInv /\ (Start \/ Ready) => IInv'
<1> SUFFICES ASSUME IInv, Start \/ Ready PROVE IInv'
  OBVIOUS
<1>1. /\ UNCHANGED <<rows, log, drafts, raw, runtimes, commits, reading>>
      /\ phase' \in {"recovering", "up"} /\ stale' \subseteq Ids
  BY DEF Start, Ready, disk, StaleRows, IInv, TypeInv
<1>2. TypeInv'
  BY <1>1 DEF IInv, TypeInv
<1>3. commits = <<>> /\ \A y \in Ids : Quiet(y)
  <2>1. CASE Start
    <3>1. \A x \in Ids : ~Working(x)
      BY <2>1 DEF Start, Working, Admitting, Drafting, Noting, Ended, Quiet, IInv, TypeInv
    <3> QED
      BY <2>1, <3>1 DEF Start, IInv, HandlerInv
  <2>2. CASE Ready
    BY <2>2, AllQuiet DEF Ready, Idle
  <2> QED
    BY <2>1, <2>2
<1>4. ASSUME NEW y \in Ids PROVE Kept(y)' /\ Quiet(y)'
  <2>1. Kept(y)' /\ Saves(y)' = Saves(y) /\ EndsOf(y)' = EndsOf(y)
    BY <1>1, Elsewhere DEF IInv
  <2>2. Quiet(y)
    BY <1>3
  <2>3. CASE Start
    BY <1>1, <2>1, <2>2, <2>3 DEF Start, StaleRows, Quiet, Registered
  <2>4. CASE Ready
    BY <1>1, <2>1, <2>2, <2>4 DEF Ready, Quiet, Registered
  <2> QED
    BY <2>1, <2>3, <2>4
<1> QED
  BY <1>1, <1>2, <1>3, <1>4 DEF IInv, HandlerInv

LEMMA InitInv == Init => IInv
<1> SUFFICES ASSUME Init PROVE IInv
  OBVIOUS
<1>1. TypeInv
  BY EmptySeq DEF Init, TypeInv
<1>2. ASSUME NEW x \in Ids PROVE Kept(x) /\ Quiet(x)
  <2>1. log[x] = <<>> /\ drafts[x] = 0 /\ rows[x] = "absent" /\ runtimes[x] = "none"
    BY DEF Init
  <2>2. EndsOf(x) = <<>> /\ Saves(x) = <<>>
    BY <2>1, SelectedEmpty DEF EndsOf, Saves, EventsOf
  <2>3. Len(<<>>) = 0
    OBVIOUS
  <2>4. EndedOnce(x) /\ RevisionsInRow(x) /\ AbortsLast(x)
    BY <2>1, <2>2, <2>3 DEF EndedOnce, RevisionsInRow, AbortsLast
  <2>5. "absent" \notin Closed /\ "absent" \notin Open
    BY DEF Open, Closed, EndingOf
  <2> QED
    BY <2>1, <2>4, <2>5 DEF Init, Kept, Quiet, Registered
<1> QED
  BY <1>1, <1>2 DEF Init, IInv, HandlerInv

\* A request of whose body nothing is stored yet.
LEMMA Unseen ==
  ASSUME IInv, NEW x \in Ids, x \notin raw
  PROVE  /\ rows[x] = "absent" /\ log[x] = <<>> /\ drafts[x] = 0
         /\ EndsOf(x) = <<>> /\ Saves(x) = <<>>
<1>1. rows[x] = "absent" /\ log[x] = <<>> /\ drafts[x] = 0
  BY DEF IInv, Kept
<1> QED
  BY <1>1, SelectedEmpty DEF EndsOf, Saves, EventsOf

LEMMA RequestStep == ASSUME IInv, NEW x \in Ids, Request(x) PROVE IInv'
<1>0. TypeInv /\ Idle /\ phase = "up" /\ Quiet(x) /\ UNCHANGED <<rows, log, drafts, raw, phase>>
  <2>1. Idle /\ phase = "up" /\ UNCHANGED <<rows, log, drafts, raw, phase>>
    BY DEF Request, Arrive, Unread, Accept, Reject, Unpreviewed, Unflagged, Admit, Runs, Up, disk
  <2> QED
    BY <2>1, AllQuiet DEF IInv
<1>1. CASE Arrive(x) \/ Unread(x)
  <2>1. /\ UNCHANGED <<runtimes, stale>> /\ commits' = <<>> /\ reading' \subseteq reading \cup {x}
        /\ x \in reading' => x \notin raw
    BY <1>0, <1>1 DEF Arrive, Unread, Idle, Quiet
  <2>2. TypeInv'
    BY <1>0, <2>1 DEF TypeInv
  <2>3. EndsOf(x)' = EndsOf(x) /\ Saves(x)' = Saves(x)
    BY <1>0, Elsewhere
  <2>4. Quiet(x)'
    BY <1>0, <2>1, <2>3 DEF Quiet, Registered
  <2> QED
    BY <1>0, <2>1, <2>2, <2>4, Begins
<1>2. ASSUME NEW handler, NEW runtime \in {"none", "pending"}, Admit(x, handler, runtime),
             \/ handler \in {Parsed(x)}
             \/ runtime = "none" /\ handler \in {<<ToRaw(x)>>, Rejected(x)}
      PROVE  IInv'
  <2>1. /\ x \in reading /\ reading' = reading \ {x} /\ commits' = handler
        /\ runtimes' = [runtimes EXCEPT ![x] = runtime] /\ UNCHANGED stale
    BY <1>2 DEF Admit, Runs
  <2>2. /\ TypeInv' /\ runtimes'[x] = runtime
        /\ \A y \in Ids \ {x} : runtimes'[y] = runtimes[y]
    BY <1>0, <2>1 DEF TypeInv, Open
  <2>3. /\ x \notin raw /\ rows[x] = "absent" /\ drafts[x] = 0
        /\ EndsOf(x) = <<>> /\ Saves(x) = <<>>
    BY <1>0, <2>1, Unseen DEF Quiet
  <2>4. EndsOf(x)' = EndsOf(x) /\ Saves(x)' = Saves(x)
    BY <1>0, Elsewhere
  <2>5. /\ Parsed(x) = <<ToRaw(x), ToRow(x, "pending"), Say(x, "request_received", "none"),
                         Say(x, "request_parsed", "none")>>
        /\ Rejected(x) = <<ToRaw(x), ToRow(x, "pending"), Say(x, "request_received", "none"),
                           Say(x, "request_rejected", "none"), ToRow(x, "rejected")>>
    <3> DEFINE store    == ToRaw(x)
               row      == ToRow(x, "pending")
               received == Say(x, "request_received", "none")
               parsed   == Say(x, "request_parsed", "none")
               refused  == Say(x, "request_rejected", "none")
               closed   == ToRow(x, "rejected")
               begun    == <<store, row, received>>
               served   == <<parsed>>
               ended    == <<refused, closed>>
    <3>1. Parsed(x) = begun \o served /\ Rejected(x) = begun \o ended
      BY DEF Parsed, Rejected, Received
    <3>2. /\ begun \o served = <<store, row, received, parsed>>
          /\ begun \o ended = <<store, row, received, refused, closed>>
      <4> HIDE DEF store, row, received, parsed, refused, closed
      <4>1. begun = <<store, row, received>> /\ served = <<parsed>> /\ ended = <<refused, closed>>
        OBVIOUS
      <4> HIDE DEF begun, served, ended
      <4>2. begun \o served = <<store, row, received, parsed>>
        BY <4>1, JoinedOne
      <4>3. begun \o ended = <<store, row, received, refused, closed>>
        BY <4>1, JoinedTwo
      <4> QED
        BY <4>2, <4>3
    <3> QED
      BY <3>1, <3>2
  <2>6. Admitting(x)'
    BY <1>0, <1>2, <2>1, <2>2, <2>3, <2>4, <2>5 DEF Admitting
  <2> QED
    BY <1>0, <2>1, <2>2, <2>6, Begins DEF Working
<1> QED
  BY <1>1, <1>2 DEF Request, Accept, Reject, Unpreviewed, Unflagged

LEMMA OperatorStep == ASSUME IInv, NEW x \in Ids, Operator(x) PROVE IInv'
<1>0. /\ TypeInv /\ Idle /\ phase = "up" /\ UNCHANGED <<rows, log, drafts, raw, phase, reading, stale>>
      /\ Quiet(x) /\ Kept(x) /\ Registered(x)
  <2>1. /\ Idle /\ phase = "up" /\ UNCHANGED <<rows, log, drafts, raw, phase, reading, stale>>
        /\ Registered(x)
    BY DEF Operator, SaveDraft, Submit, LiveStart, Inject, Runs, Up, disk, memory, Registered
  <2> QED
    BY <2>1, AllQuiet DEF IInv
<1>1. /\ rows[x] = runtimes[x] /\ rows[x] \in Open /\ EndsOf(x) = <<>>
      /\ drafts[x] = Len(Saves(x)) /\ x \in raw /\ x \notin reading
  BY <1>0 DEF Quiet, Registered, TypeInv, Kept, Open
<1>2. EndsOf(x)' = EndsOf(x) /\ Saves(x)' = Saves(x)
  BY <1>0, Elsewhere
<1> DEFINE n      == Len(Saves(x)) + 1
           table  == ToDraft(x, n)
           event  == ToLog(x, Event("draft_saved", "none", n))
           active == ToRow(x, "active")
<1>3. Revision(x) = <<table, event>> /\ Revision(x) \o <<active>> = <<table, event, active>>
  BY <1>1, Joins DEF Revision
<1>4. CASE SaveDraft(x)
  <2>1. UNCHANGED runtimes /\ commits' = <<table, event>>
    BY <1>3, <1>4 DEF SaveDraft, Runs, memory
  <2>2. TypeInv'
    BY <1>0, <2>1 DEF TypeInv
  <2>3. Drafting(x)'
    BY <1>0, <1>1, <1>2, <2>1 DEF Drafting
  <2> QED
    BY <1>0, <2>1, <2>2, <2>3, Begins DEF Working
<1>5. CASE Submit(x) \/ LiveStart(x)
  <2>1. /\ runtimes' = [runtimes EXCEPT ![x] = "active"]
        /\ commits' = <<table, event, active>> \/ commits' = <<active>>
    BY <1>3, <1>5 DEF Submit, LiveStart, Runs
  <2>2. /\ TypeInv' /\ runtimes'[x] = "active"
        /\ \A y \in Ids \ {x} : runtimes'[y] = runtimes[y]
    BY <1>0, <2>1 DEF TypeInv, Open
  <2>3. Drafting(x)'
    BY <1>0, <1>1, <1>2, <2>1, <2>2 DEF Drafting
  <2> QED
    BY <1>0, <2>2, <2>3, Begins DEF Working
<1>6. CASE Inject(x)
  <2>1. UNCHANGED runtimes /\ commits' = <<Say(x, "error_injected", "none")>>
    BY <1>6 DEF Inject, Runs, memory
  <2>2. TypeInv'
    BY <1>0, <2>1 DEF TypeInv
  <2>3. Noting(x)'
    BY <1>0, <1>1, <1>2, <2>1 DEF Noting, Quiet, Registered
  <2> QED
    BY <1>0, <2>1, <2>2, <2>3, Begins DEF Working
<1> QED
  BY <1>4, <1>5, <1>6 DEF Operator

LEMMA EndsStep == ASSUME IInv, NEW x \in Ids, Ends(x) PROVE IInv'
<1>0. /\ TypeInv /\ Idle /\ phase = "up" /\ UNCHANGED <<rows, log, drafts, raw, phase, reading, stale>>
      /\ Quiet(x) /\ Kept(x) /\ Registered(x)
      /\ runtimes' = [runtimes EXCEPT ![x] = "none"]
  <2>1. /\ Idle /\ phase = "up" /\ UNCHANGED <<rows, log, drafts, raw, phase, reading, stale>>
        /\ Registered(x) /\ runtimes' = [runtimes EXCEPT ![x] = "none"]
    BY DEF Ends, Complete, Abort, Disconnect, InjectedNow, InjectedDelivered, Close, Runs, Up, disk
  <2> QED
    BY <2>1, AllQuiet DEF IInv
<1>1. /\ rows[x] = runtimes[x] /\ rows[x] \in Open /\ EndsOf(x) = <<>>
      /\ drafts[x] = Len(Saves(x)) /\ drafts[x] \in Nat /\ x \in raw /\ x \notin reading
  BY <1>0 DEF Quiet, Registered, TypeInv, Kept, Open
<1>2. EndsOf(x)' = EndsOf(x) /\ Saves(x)' = Saves(x)
  BY <1>0, Elsewhere
<1>3. /\ TypeInv' /\ runtimes'[x] = "none"
      /\ \A y \in Ids \ {x} : runtimes'[y] = runtimes[y]
  BY <1>0 DEF TypeInv
<1>4. ASSUME Ended(x)' PROVE IInv'
  BY <1>0, <1>3, <1>4, Begins DEF Working
<1>5. /\ phase' # "down" /\ runtimes'[x] = "none" /\ x \notin reading' /\ rows'[x] \in Open
      /\ phase' = "recovering" => x \notin stale'
      /\ EndsOf(x)' = <<>> /\ drafts'[x] = drafts[x]
  BY <1>0, <1>1, <1>2, <1>3
<1>6. /\ "completed" \in Closed \ {"injected"} /\ "aborted" \in Closed \ {"injected"}
      /\ "injected" \in Closed
      /\ EndingOf.completed = "response_submitted" /\ EndingOf.aborted = "exchange_aborted"
  BY DEF Closed, EndingOf
<1>7. CASE Complete(x)
  <2> DEFINE told == Event("response_submitted", "none", 0)
  <2>1. told \in Events /\ told.type = "response_submitted"
        /\ Say(x, "response_submitted", "none") = ToLog(x, told)
    BY EventTypes DEF Types, Whys, Endings
  <2>2. commits' = <<ToLog(x, told), ToRow(x, "completed")>>
    BY <1>7, <2>1, Joins DEF Complete, Close, Closing, Runs
  <2>3. Ending(x, "completed", told)'
    BY <1>5, <1>6, <2>1 DEF Ending
  <2>4. Ended(x)'
    BY <1>5, <1>6, <2>1, <2>2, <2>3 DEF Ended
  <2> QED
    BY <1>4, <2>4
<1>8. ASSUME NEW why \in {"operator", "client_disconnected"}
      PROVE  LET told == Event("exchange_aborted", why, drafts[x])
             IN  told \in Events /\ Ending(x, "aborted", told)' /\ Abortion(x, why) = ToLog(x, told)
  <2>1. /\ "exchange_aborted" \in Types /\ why \in Whys
    BY DEF Types, Whys, Endings
  <2> QED
    BY <1>1, <1>5, <1>6, <2>1, EventTypes DEF Ending, Abortion
<1>9. CASE Abort(x)
  <2>1. commits' = <<Abortion(x, "operator"), ToRow(x, "aborted")>>
    BY <1>9, Joins DEF Abort, Close, Closing, Runs
  <2>2. Ended(x)'
    BY <1>5, <1>6, <1>8, <2>1 DEF Ended
  <2> QED
    BY <1>4, <2>2
<1>10. CASE Disconnect(x)
  <2>1. commits' = <<Say(x, "client_disconnected", "none"), Abortion(x, "client_disconnected"),
                     ToRow(x, "aborted")>>
    BY <1>10, Joins DEF Disconnect, Close, Closing, Runs
  <2>2. Ended(x)'
    BY <1>5, <1>8, <2>1 DEF Ended
  <2> QED
    BY <1>4, <2>2
<1>11. CASE InjectedNow(x)
  <2>1. commits' = <<Say(x, "error_injected", "none"), ToRow(x, "injected")>>
    BY <1>11, Joins DEF InjectedNow, Close, Closing, Runs
  <2>2. Ended(x)'
    BY <1>5, <2>1 DEF Ended
  <2> QED
    BY <1>4, <2>2
<1>12. CASE InjectedDelivered(x)
  <2>1. commits' = <<ToRow(x, "injected")>>
    BY <1>12, Joins DEF InjectedDelivered, Close, Closing, Runs
  <2>2. Logged(x, "error_injected")
    BY <1>0, <1>12, EventsType DEF InjectedDelivered
  <2>3. Told(x, "injected")'
    BY <1>0, <1>5, <2>2 DEF Told, LastEnding, EndsOf, EndingOf, Logged
  <2>4. Ended(x)'
    BY <1>5, <1>6, <2>1, <2>3 DEF Ended
  <2> QED
    BY <1>4, <2>4
<1> QED
  BY <1>7, <1>9, <1>10, <1>11, <1>12 DEF Ends

LEMMA RecoverStep == ASSUME IInv, NEW x \in Ids, Recover(x) PROVE IInv'
<1>0. /\ TypeInv /\ Idle /\ phase = "recovering"
      /\ UNCHANGED <<rows, log, drafts, raw, phase, reading, runtimes>>
      /\ stale' = stale \ {x} /\ x \in stale /\ Quiet(x) /\ Kept(x)
  BY AllQuiet DEF Recover, IInv, disk
<1>1. rows[x] \in Open /\ runtimes[x] = "none" /\ x \notin reading /\ drafts[x] \in Nat
  BY <1>0 DEF Quiet, Registered, TypeInv, Kept, Open
<1> DEFINE told == Event("exchange_aborted", "server_restart", drafts[x])
<1>2. /\ told \in Events /\ told.type = "exchange_aborted" /\ told.why = "server_restart"
      /\ told.revision = drafts[x] /\ Abortion(x, "server_restart") = ToLog(x, told)
  BY <1>1, EventTypes DEF Types, Whys, Endings, Abortion
<1>3. commits' = <<ToLog(x, told), ToRow(x, "aborted")>>
  BY <1>2, Joins DEF Recover, Closing
<1>4. Ending(x, "aborted", told)' /\ "aborted" \in Closed \ {"injected"}
  BY <1>0, <1>2 DEF Ending, EndingOf, Closed
<1>5. Ended(x)'
  BY <1>0, <1>1, <1>2, <1>3, <1>4 DEF Ended
<1>6. TypeInv'
  BY <1>0 DEF TypeInv
<1> QED
  BY <1>0, <1>5, <1>6, Begins DEF Working

LEMMA SettingStep == ASSUME IInv, NEW b \in BOOLEAN, PutReadOnly(b) PROVE IInv'
<1>1. /\ Idle /\ phase = "up" /\ UNCHANGED <<rows, log, drafts, raw, phase, reading, runtimes, stale>>
      /\ commits' = <<ToSetting(b)>>
  BY DEF PutReadOnly, Runs, Up, disk
<1>2. TypeInv'
  BY <1>1 DEF IInv, TypeInv
<1>3. ASSUME NEW y \in Ids PROVE Kept(y)' /\ Quiet(y)'
  <2>1. Kept(y) /\ Quiet(y)
    BY <1>1, AllQuiet DEF IInv
  <2> QED
    BY <1>1, <2>1, Elsewhere
<1> QED
  BY <1>1, <1>2, <1>3 DEF IInv, HandlerInv

LEMMA Stutter == IInv /\ UNCHANGED vars => IInv'
<1> SUFFICES ASSUME IInv, UNCHANGED vars PROVE IInv'
  OBVIOUS
<1>1. TypeInv'
  BY DEF IInv, TypeInv, vars, memory, disk
<1>2. ASSUME NEW y \in Ids PROVE Kept(y)' /\ (Quiet(y) => Quiet(y)')
  BY Elsewhere DEF IInv, vars, memory, disk
<1>3. ASSUME NEW y \in Ids, Working(y) PROVE Working(y)'
  <2>1. EndsOf(y)' = EndsOf(y) /\ Saves(y)' = Saves(y) /\ LastEnding(y)' = LastEnding(y)
    BY Elsewhere DEF vars, memory, disk
  <2>2. UNCHANGED <<phase, reading, stale, raw, rows, log, drafts, runtimes, commits>>
    BY DEF vars, memory, disk
  <2>3. \A s : (Told(y, s)' <=> Told(y, s)) /\ \A e : Ending(y, s, e)' <=> Ending(y, s, e)
    BY <2>1, <2>2 DEF Told, Logged, Ending
  <2>4. Admitting(y) => Admitting(y)'
    BY <2>1, <2>2 DEF Admitting
  <2>5. Drafting(y) => Drafting(y)'
    BY <2>1, <2>2 DEF Drafting
  <2>6. Noting(y) => Noting(y)'
    BY <1>2, <2>2 DEF Noting
  <2>7. Ended(y) => Ended(y)'
    BY <2>1, <2>2, <2>3 DEF Ended
  <2> QED
    BY <1>3, <2>4, <2>5, <2>6, <2>7 DEF Working
<1> QED
  BY <1>1, <1>2, <1>3 DEF IInv, HandlerInv, vars, memory

-----------------------------------------------------------------------------
(* Theorems                                                                 *)

\* Whichever handler runs and wherever the process ends, what the disk holds of an
\* exchange is consistent, and the handler's remaining commits lead to what its runtime
\* says (the sequences of append_event, update_exchange and save_draft in api_openai.py,
\* state.py and mark_stale_active).
THEOREM InvAlways == Spec => []IInv
<1>1. IInv /\ [Next]_vars => IInv'
  BY RequestStep, OperatorStep, EndsStep, SettingStep, CommitStep, CrashStep, StartStep,
     RecoverStep, Stutter
     DEF Next
<1> QED
  BY InitInv, <1>1, PTL DEF Spec

\* No row tells of an end that the log does not, at any commit and after any crash.
THEOREM LogLeadsRowAlways == Spec => []LogLeadsRow
<1>1. IInv => LogLeadsRow
  <2> SUFFICES ASSUME IInv, NEW x \in Ids
               PROVE  /\ rows[x] = "completed" => Logged(x, "response_submitted")
                      /\ rows[x] = "aborted"   => Logged(x, "exchange_aborted")
                      /\ rows[x] = "rejected"  => Logged(x, "request_rejected")
                      /\ rows[x] = "injected"  => Logged(x, "error_injected")
                      /\ rows[x] # "absent"    => x \in raw
    BY DEF LogLeadsRow
  <2>1. Kept(x) /\ TypeInv
    BY DEF IInv
  <2>2. ASSUME NEW type \in Endings, LastEnding(x) = type PROVE Logged(x, type)
    <3> DEFINE s == EndsOf(x)
    <3>1. s \in Seq(Events) /\ type # "none"
      BY <2>1, EventsType DEF EndsOf, Endings
    <3>2. s # <<>> /\ s[Len(s)].type = type
      BY <2>2, <3>1 DEF LastEnding, EndsOf
    <3>3. Len(s) \in 1..Len(s)
      BY <3>1, <3>2, EmptySeq
    <3>4. \E i \in 1..Len(log[x]) : log[x][i] = s[Len(s)]
      BY <2>1, <3>3, LoggedEvents DEF EndsOf
    <3> QED
      BY <3>2, <3>4 DEF Logged
  <2> QED
    BY <2>1, <2>2 DEF Kept, Told, Closed, EndingOf, Endings
<1> QED
  BY <1>1, InvAlways, PTL

\* Between handlers the row of an exchange that is served has its runtime's status.
THEOREM RowTracksRuntimeAlways == Spec => []RowTracksRuntime
<1>1. IInv => RowTracksRuntime
  BY AllQuiet DEF RowTracksRuntime, Quiet
<1> QED
  BY <1>1, InvAlways, PTL

\* The last ending event, which the console and the export show, is the one the row's
\* status tells of while the server runs, after any number of crashes and recoveries.
THEOREM ResultMatchesRowAlways == Spec => []ResultMatchesRow
<1>1. IInv => ResultMatchesRow
  <2> SUFFICES ASSUME IInv, NEW x \in Ids
               PROVE  /\ EndedOnce(x)
                      /\ Up => LastEnding(x) = CASE rows[x] = "completed" -> "response_submitted"
                                                 [] rows[x] = "aborted"   -> "exchange_aborted"
                                                 [] rows[x] = "rejected"  -> "request_rejected"
                                                 [] OTHER                 -> "none"
    BY DEF ResultMatchesRow, EndedOnce
  <2>1. Kept(x) /\ TypeInv
    BY DEF IInv
  <2>2. CASE ~Up
    BY <2>1, <2>2 DEF Kept
  <2>3. CASE Up
    <3>1. Quiet(x) /\ phase = "up"
      BY <2>3, AllQuiet DEF Up
    <3>2. CASE rows[x] \in Closed
      BY <2>1, <3>2 DEF Kept, Told, Closed, EndingOf
    <3>3. CASE rows[x] \in Open
      BY <2>1, <3>1, <3>3 DEF Kept, Quiet, LastEnding, EndsOf, Open
    <3>4. CASE rows[x] = "absent"
      <4>1. EventsOf(x, Endings) = <<>>
        BY <2>1, <3>4, SelectedEmpty DEF Kept, EventsOf
      <4> QED
        BY <2>1, <3>4, <4>1 DEF Kept, LastEnding
    <3> QED
      BY <2>1, <3>2, <3>3, <3>4 DEF TypeInv
  <2> QED
    BY <2>2, <2>3
<1> QED
  BY <1>1, InvAlways, PTL

\* The revisions of a draft are logged without a gap, at most one behind the table, and
\* every abortion records the last one (save_draft and submit, for any number of saves).
THEOREM DraftsInStepAlways == Spec => []DraftsInStep
<1>1. IInv => DraftsInStep
  <2> SUFFICES ASSUME IInv, NEW x \in Ids
               PROVE  /\ RevisionsInRow(x) /\ AbortsLast(x)
                      /\ Up /\ Registered(x) => drafts[x] = Len(Saves(x))
    BY DEF DraftsInStep, RevisionsInRow, AbortsLast, Saves
  <2>1. Up => Quiet(x)
    BY AllQuiet DEF Up
  <2> QED
    BY <2>1 DEF IInv, Kept, Quiet
<1> QED
  BY <1>1, InvAlways, PTL

=============================================================================
