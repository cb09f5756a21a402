---- MODULE MCExchangeStore ----
(* Two exchanges; a single one for the runs that look for a violation.      *)
EXTENDS ExchangeStore

CONSTANTS x1, x2

MCIds == {x1, x2}
MCOne == {x1}
================================
