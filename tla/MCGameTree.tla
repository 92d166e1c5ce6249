----------------------------- MODULE MCGameTree ------------------------------
(***************************************************************************)
(* Games of at most one bet per street, over the last one or two streets.  *)
(* The root may be any point of the betting, with or without a history.    *)
(***************************************************************************)
EXTENDS GameTree

MCDeck == <<"2c", "2d", "2h", "2s">>

\* begun: the actions of the root's street before the root.
MCGames ==
  [history : {<<>>, <<"x", "x">>}, board : {{"2d"}}, streets : {1, 2}, begun : {<<>>}]
  \cup [history : {<<"x">>}, board : {{"2d"}, {"2c", "2s"}}, streets : {1, 2}, begun : {<<"x">>}]
  \cup [history : {<<"b">>, <<"x", "x", "C", "b">>}, board : {{"2d", "2h"}}, streets : {1, 2},
        begun : {<<"b">>}]
  \cup [history : {<<>>, <<"b", "c">>}, board : {{"2d"}}, streets : {2}, begun : {<<"b", "c">>}]

\* The actions since the last card, and the number of cards.
Street(g, path) ==
  LET dealt == {i \in 1 .. Len(path) : path[i] \in Cards}
      last == IF dealt = {} THEN 0 ELSE CHOOSE i \in dealt : \A j \in dealt : j <= i
      since == SubSeq(path, last + 1, Len(path))
  IN  [actions |-> IF dealt = {} THEN g.begun \o since ELSE since, dealt |-> Cardinality(dealt)]

MCActor(g, path) ==
  LET street == Street(g, path)
      actions == street.actions
  IN  CASE actions \in {<<>>, <<"x", "b">>} -> 0
        [] actions \in {<<"x">>, <<"b">>} -> 1
        [] actions \in {<<"x", "x">>, <<"b", "c">>, <<"x", "b", "c">>}
             /\ street.dealt + 1 < g.streets -> ChancePlayer
        [] OTHER -> TerminalPlayer

MCActions(g, path) ==
  IF Street(g, path).actions \in {<<>>, <<"x">>} THEN <<"x", "b">> ELSE <<"f", "c">>
==============================================================================
