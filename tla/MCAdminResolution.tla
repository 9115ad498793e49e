--------------------------- MODULE MCAdminResolution ---------------------------
(* Small instances of AdminResolution: two players who meet twice, on opposite *)
(* sides the second time; the favourite wins one point, the outsider three.    *)
EXTENDS AdminResolution, TLC

CONSTANTS p1, p2, a1, a2

MCSides == <<<<p1, p2>>, <<p2, p1>>>>

(* Points of side 1: like the Elo rule, more against a stronger opponent and   *)
(* a draw moves the ratings towards each other; the pair's sum stays the same. *)
MCPoints(a, b, result) ==
    CASE result = 1 -> IF a > b THEN 1 ELSE IF a < b THEN 3 ELSE 2
      [] result = 2 -> IF a < b THEN -1 ELSE IF a > b THEN -3 ELSE -2
      [] result = 0 -> IF a > b THEN -1 ELSE IF a < b THEN 1 ELSE 0

MCAdjustment == {[op |-> "subtract", value |-> 6]}
================================================================================
