-------------------------------- MODULE MCFlow --------------------------------
(* Instances of ClientFlow for TLC: clients of one account, each with an   *)
(* id of its own for its order.                                            *)
EXTENDS FlowProperties

CONSTANTS c1, c2, o1, o2

Canonical == [id \in OrderIds |-> id]
OwnIds == [c \in Clients |-> IF c = c1 THEN {o1} ELSE {o2}]
AllRight == [c \in Clients |-> "right"]
TwoQueries == <<"QueryPosition", "QueryTrades">>
OneQuery == <<"QueryAccount">>
AllFull == [c \in Clients |-> "Full"]
SecondQueries == [c \in Clients |-> IF c = c1 THEN "Full" ELSE "QueryOnly"]
===============================================================================
