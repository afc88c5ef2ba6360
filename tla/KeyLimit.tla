-------------------------------- MODULE KeyLimit --------------------------------
(***************************************************************************)
(* The usage limit of a session key (crypto/kernel/key.c): a 64-bit count  *)
(* of the packets left, and a state that is written and never read by the  *)
(* packet functions.                                                       *)
(***************************************************************************)
EXTENDS Integers

CONSTANTS
    SoftLimit,    \* soft_limit (0x10000)
    CounterMax,   \* number of values of the 64-bit num_left
    InitialLimit  \* what srtp_stream_init_keys passes: 2^48 - 1

ASSUME KeyLimitAssumption ==
    /\ SoftLimit \in Nat /\ SoftLimit > 1
    /\ InitialLimit \in Nat /\ InitialLimit >= SoftLimit
    /\ CounterMax \in Nat /\ CounterMax > InitialLimit

KeyStates == {"normal", "past_soft_limit", "expired"}
KeyEvents == {"normal", "soft_limit", "hard_limit"}

LimitType == [num_left : 0 .. CounterMax - 1, state : KeyStates]

(* srtp_key_limit_set; the refusal of a value below the soft limit is never
   met, the only caller passes 2^48 - 1. *)
KeyLimitSet == [num_left |-> InitialLimit, state |-> "normal"]

(* Mutant of KeyLimitUpdate: the soft limit is reported and not noted. *)
KeyLimitUpdateForgets(limit) ==
    LET left == (limit.num_left - 1) % CounterMax
    IN  [limit |-> [limit EXCEPT !.num_left = left],
         event |-> IF left >= SoftLimit THEN "normal"
                   ELSE IF left < 1 THEN "hard_limit" ELSE "soft_limit"]

(* srtp_key_limit_update: what it leaves in the limit, and what it returns.
   The unsigned decrement comes first and wraps at zero. *)
KeyLimitUpdate(limit) ==
    LET left == (limit.num_left - 1) % CounterMax
    IN  CASE left >= SoftLimit ->
               [limit |-> [limit EXCEPT !.num_left = left],
                event |-> "normal"]
          [] left < 1 ->
               [limit |-> [num_left |-> left, state |-> "expired"],
                event |-> "hard_limit"]
          [] OTHER ->
               [limit |-> [num_left |-> left,
                           state |-> IF limit.state = "normal"
                                     THEN "past_soft_limit"
                                     ELSE limit.state],
                event |-> "soft_limit"]
================================================================================
