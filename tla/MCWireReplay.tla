---- MODULE MCWireReplay ----
(* Drafts with texts of up to two characters and up to two tool calls, whose *)
(* arguments have up to three; one character of each is two bytes wide.      *)
EXTENDS WireReplay

MCTexts == {<<>>, <<1>>, <<2, 3>>}
MCArgs  == {<<>>, <<4>>, <<5, 6, 5>>}
MCCalls == {<<>>}
           \cup {<<[id |-> "a", args |-> x]>> : x \in MCArgs}
           \cup {<<[id |-> "a", args |-> x], [id |-> "b", args |-> y]>> :
                   x, y \in MCArgs}

MCDrafts == [reasoning : MCTexts, content : MCTexts, tools : MCCalls,
             finish : {"auto", "length"}]
MCWide      == {2, 5}
MCTokenEnds == {1, 2, 3}
=============================
