--------------------------- MODULE ArticleFunnel ---------------------------
(***************************************************************************)
(* What the analysis promises about one article: it moves down one path,   *)
(* is noise or signal, then out of scope or in scope, then embedded, and   *)
(* never back or across.  ArticleAnalysis is shown to implement it.        *)
(***************************************************************************)
CONSTANT Articles

VARIABLE place  \* [Articles -> {"new", "noise", "signal", "out", "in", "embedded"}]

Moves == {<<"new", "noise">>, <<"new", "signal">>, <<"signal", "out">>,
          <<"signal", "in">>, <<"in", "embedded">>}

Init == place = [a \in Articles |-> "new"]

Move(a, to) ==
  /\ <<place[a], to>> \in Moves
  /\ place' = [place EXCEPT ![a] = to]

Next == \E a \in Articles, m \in Moves : Move(a, m[2])

Spec == Init /\ [][Next]_place
=============================================================================
