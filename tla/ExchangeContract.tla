-------------------------- MODULE ExchangeContract --------------------------
(***************************************************************************)
(* What maycomb promises about one exchange, whatever its transport: the   *)
(* row an operator sees and the reply the waiting client gets agree, the   *)
(* row is closed at most once, and a reply that is over stays over.        *)
(* StreamExchange and JsonExchange are each shown to implement it.         *)
(***************************************************************************)

VARIABLES status,  \* the exchange's status, in memory and in its row
          cause,   \* why it was closed, "none" while it is open
          reply    \* what the client has been handed

vars == <<status, cause, reply>>

Open     == {"pending", "active"}
Statuses == Open \cup {"completed", "aborted", "injected"}
Causes   == {"none", "response", "injection", "operator", "disconnect"}

\* "started": 200 and headers, no ending yet.  "whole": a complete answer.
\* "error": an HTTP error.  "cut": a 200 severed before its end.
Replies  == {"none", "started", "whole", "error", "cut"}

Follow == [none    |-> {"started", "whole", "error", "cut"},
           started |-> {"whole", "cut"},
           whole   |-> {},
           error   |-> {},
           cut     |-> {}]

StatusOf == [response   |-> "completed", injection  |-> "injected",
             operator   |-> "aborted",   disconnect |-> "aborted"]

\* The replies that do not contradict a closing.  A client that left may have
\* been handed anything before it did.
Agreeing == [none       |-> Replies,
             response   |-> {"none", "whole"},
             injection  |-> {"none", "error"},
             operator   |-> {"none", "started", "error", "cut"},
             disconnect |-> Replies]

Agree == reply \in Agreeing[cause]

TypeOK ==
  /\ status \in Statuses
  /\ cause \in Causes
  /\ reply \in Replies

Init == status = "pending" /\ cause = "none" /\ reply = "none"

Activate == status = "pending" /\ status' = "active" /\ cause' = cause

Close(c) == status \in Open /\ status' = StatusOf[c] /\ cause' = c

Row == \/ Activate
       \/ \E c \in Causes \ {"none"} : Close(c)
       \/ UNCHANGED <<status, cause>>

Respond == reply' \in Follow[reply] \cup {reply}

Next == Row /\ Respond /\ Agree'

Spec == Init /\ [][Next]_vars

=============================================================================
