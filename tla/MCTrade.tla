-------------------------------- MODULE MCTrade --------------------------------
(* Instances of TradeSession for TLC: up to two clients of one account,    *)
(* each with an id of its own for its orders.                              *)
EXTENDS TradeProperties
LOCAL INSTANCE SequencesExt

CONSTANTS c1, c2

AllFull == [c \in Clients |-> "Full"]

(* References of two characters. *)
References == INSTANCE OrderRefs WITH Alphanumeric <- {"a", "b"}, RefLength <- 2
Normalized == [id \in OrderIds |-> References!normalize_order_ref(id)]

(* The ids clients use: two that are references as they stand, and one     *)
(* that normalization cuts down to the first.                              *)
plain == <<"a", "a">>
other == <<"b", "a">>
marked == <<"a", "-", "a", "b">>

PlainIds == {plain}
PlainAndOther == {plain, other}
PlainAndMarked == {plain, marked}

(* Each client its own.  With PlainAndMarked the ids of two clients        *)
(* collide.                                                                *)
OwnIds == [c \in Clients |-> IF c = c1 THEN {plain} ELSE OrderIds \ {plain}]
MarkedIds == [c \in Clients |-> {marked}]

(* Over all values of up to four characters: a reference is kept as it     *)
(* stands, and any value is made one.                                      *)
ASSUME ReferencesAssumption ==
    \A value \in BoundedSeq({"a", "b", "-"}, 4) :
        LET ref == References!normalize_order_ref(value) IN
        /\ ref \in BoundedSeq({"a", "b"}, 2)
        /\ value \in BoundedSeq({"a", "b"}, 2) => ref = value
        /\ References!normalize_order_ref(ref) = ref
===============================================================================
