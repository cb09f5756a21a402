-------------------------- MODULE MCStreamExchange --------------------------
(* StreamExchange on small instances: the plans of a few drafts.            *)
EXTENDS StreamExchange

Unpaced(what) == [what |-> what, paced |-> FALSE]
Paced(what)   == [what |-> what, paced |-> TRUE]

\* An empty draft, a text, and a thought followed by a tool call: the call's
\* opening chunk is not paced, its arguments are.
MCPlans == {<<Unpaced("role"), Paced("content")>>,
            <<Unpaced("role"), Paced("reasoning"), Unpaced("tool"), Paced("tool")>>}

\* One short draft, for the liveness run.
MCShortPlans == {<<Unpaced("role"), Paced("content")>>}

=============================================================================
