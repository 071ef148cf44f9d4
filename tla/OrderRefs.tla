------------------------------- MODULE OrderRefs -------------------------------
(***************************************************************************)
(* CTP order references (crates/model/src/ctp.rs): what of a               *)
(* client_order_id reaches the front.                                      *)
(***************************************************************************)
EXTENDS Integers, Sequences

CONSTANTS
    Alphanumeric,    \* the characters that are kept
    RefLength        \* as many of them as are kept: 12

normalize_order_ref(value) ==
    LET kept == SelectSeq(value, LAMBDA c : c \in Alphanumeric)
    IN  IF Len(kept) <= RefLength THEN kept ELSE SubSeq(kept, 1, RefLength)
================================================================================
