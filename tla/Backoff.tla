-------------------------------- MODULE Backoff --------------------------------
(***************************************************************************)
(* The delays of ExponentialBackoff (crates/common/src/network/backoff.rs) *)
(* in milliseconds, as functions of delay_current and immediate_reconnect. *)
(***************************************************************************)
EXTENDS Integers

CONSTANTS
    DelayInitial, DelayMax,
    FactorNum, FactorDen,    \* the factor, as a fraction
    JitterMs

(* What new accepts.                                                       *)
ASSUME BackoffAssumption ==
    /\ DelayInitial \in Nat \ {0} /\ DelayMax \in Nat /\ JitterMs \in Nat
    /\ FactorNum \in Nat /\ FactorDen \in Nat \ {0}
    /\ DelayInitial <= DelayMax
    /\ FactorDen <= FactorNum /\ FactorNum <= 100 * FactorDen

Lesser(a, b) == IF a <= b THEN a ELSE b
Greater(a, b) == IF a <= b THEN b ELSE a

(* (delay_current.as_secs_f64() * factor * 1000.0) as u64: truncation, and *)
(* an exact product may come out of the floating-point product just below. *)
Products(current) ==
    LET exact == (current * FactorNum) \div FactorDen
    IN  {exact} \cup {p \in {exact - 1} : p * FactorDen + FactorDen = current * FactorNum}

(* What delay_current may be after a delay.                                *)
NextDelays(current) ==
    {Greater(Lesser(p, DelayMax), DelayInitial) : p \in Products(current)}

(* The first attempt of all goes at once.                                  *)
Immediate(current, immediate) == immediate /\ current = DelayInitial

(* Faulty variant: jitter in both directions.                              *)
DelaysAround(current, immediate) ==
    IF Immediate(current, immediate) THEN {0}
    ELSE {current + j : j \in (-JitterMs)..JitterMs}

(* The delays slept before an attempt.                                     *)
Delays(current, immediate) ==
    IF Immediate(current, immediate) THEN {0} ELSE {current + j : j \in 0..JitterMs}

(* delay_current and immediate_reconnect after it.                         *)
Advanced(current, immediate) ==
    IF Immediate(current, immediate)
    THEN {[current |-> current, immediate |-> FALSE]}
    ELSE {[current |-> next, immediate |-> immediate] : next \in NextDelays(current)}

(* Faulty variants: reset to no delay at all, or to the state of new.      *)
ResetToZero == [current |-> 0, immediate |-> FALSE]
ResetToNew == [current |-> DelayInitial, immediate |-> TRUE]

(* new with immediate_first, and reset.                                    *)
Fresh == [current |-> DelayInitial, immediate |-> TRUE]
Reset == [current |-> DelayInitial, immediate |-> FALSE]
================================================================================
