--------------------------- MODULE MCMatchmaking ---------------------------
(***************************************************************************)
(* Three queued players, with one view left for a player who joins or     *)
(* joins again, and four of whom nobody can join again.                    *)
(* Only the ratings of selected races matter, and who has them does not,   *)
(* so the players are given configurations in ascending order: in the      *)
(* first start the nearest pair comes first and a swap then helps, in the  *)
(* second and third players of both races are dealt, in the last one of    *)
(* them changes sides.                                                     *)
(***************************************************************************)
EXTENDS Matchmaking

CONSTANTS p1, p2, p3, p4

Level == <<[bw |-> 1500, sc2 |-> 1570], [bw |-> 1580, sc2 |-> 1510], [bw |-> 1760, sc2 |-> 1640]>>
Selections == {{"bw"}, {"sc2"}, {"bw", "sc2"}}
Configurations == <<[level |-> 1, races |-> {"bw"}], [level |-> 2, races |-> {"bw"}],
                    [level |-> 1, races |-> {"sc2"}], [level |-> 3, races |-> {"sc2"}],
                    [level |-> 2, races |-> {"bw", "sc2"}],
                    [level |-> 3, races |-> {"bw", "sc2"}]>>
Order == <<p1, p2, p3, p4>>
Number(p) == CHOOSE i \in 1..4 : Order[i] = p

Start(given, size) ==
  [queue |-> SubSeq(Order, 1, size),
   rating |-> [p \in Player |-> Level[Configurations[given[Number(p)]].level]],
   races |-> [p \in Player |-> Configurations[given[Number(p)]].races]]
QueueStarts ==
  {Start(given, 4) : given \in {<<1, 2, 3, 4>>, <<1, 4, 5, 6>>, <<2, 3, 3, 5>>, <<5, 5, 6, 6>>}}
  \cup {Start(<<1, 4, 6, 1>>, 3)}
=============================================================================
