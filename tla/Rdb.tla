----------------------------------- MODULE Rdb -----------------------------------
(***************************************************************************)
(* The replay database of SRTCP (crypto/replay/rdb.c).  A receiver uses it *)
(* as a window that starts at window_start; a sender uses window_start     *)
(* alone, as the counter of the packets it has protected.                  *)
(***************************************************************************)
EXTENDS Integers

CONSTANTS
    RdbBits,   \* rdb_bits_in_bitmask (128)
    RtcpMax    \* the largest SRTCP index (0x7fffffff)

ASSUME RdbAssumption ==
    /\ RdbBits \in Nat \ {0}
    /\ RtcpMax \in Nat \ {0}

RtcpIndices == 0 .. RtcpMax

RdbType == [window_start : RtcpIndices, bitmask : SUBSET (0 .. RdbBits - 1)]

(* srtp_rdb_init *)
RdbInit == [window_start |-> 0, bitmask |-> {}]

(* Mutant of RdbCheck: the last position of the window counts as after it. *)
RdbCheckShort(rdb, p_index) ==
    IF p_index >= rdb.window_start + RdbBits - 1 THEN "ok"
    ELSE IF p_index < rdb.window_start THEN "replay_old"
    ELSE IF p_index - rdb.window_start \in rdb.bitmask THEN "replay_fail"
    ELSE "ok"

(* srtp_rdb_check *)
RdbCheck(rdb, p_index) ==
    IF p_index >= rdb.window_start + RdbBits THEN "ok"
    ELSE IF p_index < rdb.window_start THEN "replay_old"
    ELSE IF p_index - rdb.window_start \in rdb.bitmask THEN "replay_fail"
    ELSE "ok"

(* Mutants of RdbAddIndex: the window is moved one too far; it is moved and
   the bits are not. *)
RdbAddIndexFar(rdb, p_index) ==
    LET delta == p_index - rdb.window_start
        shift == delta - (RdbBits - 1) + 1
    IN  IF p_index < rdb.window_start THEN rdb
        ELSE IF delta < RdbBits
        THEN [rdb EXCEPT !.bitmask = @ \cup {delta}]
        ELSE [window_start |-> rdb.window_start + shift,
              bitmask |-> {b \in 0 .. RdbBits - 1 : b + shift \in rdb.bitmask}
                            \cup {RdbBits - 1}]

RdbAddIndexNoShift(rdb, p_index) ==
    LET delta == p_index - rdb.window_start
    IN  IF p_index < rdb.window_start THEN rdb
        ELSE IF delta < RdbBits
        THEN [rdb EXCEPT !.bitmask = @ \cup {delta}]
        ELSE [window_start |-> rdb.window_start + delta - (RdbBits - 1),
              bitmask |-> rdb.bitmask \cup {RdbBits - 1}]

(* srtp_rdb_add_index, with v128_left_shift: an index past the window becomes
   its last position, one before it is refused (here: changes nothing). *)
RdbAddIndex(rdb, p_index) ==
    LET delta == p_index - rdb.window_start
        shift == delta - (RdbBits - 1)
    IN  IF p_index < rdb.window_start THEN rdb
        ELSE IF delta < RdbBits
        THEN [rdb EXCEPT !.bitmask = @ \cup {delta}]
        ELSE [window_start |-> rdb.window_start + shift,
              bitmask |-> {b \in 0 .. RdbBits - 1 : b + shift \in rdb.bitmask}
                            \cup {RdbBits - 1}]

(* srtp_rdb_increment: refused when the 31 bits are used up. *)
RdbIncrement(rdb) ==
    IF rdb.window_start >= RtcpMax
    THEN [status |-> "key_expired", rdb |-> rdb]
    ELSE [status |-> "ok", rdb |-> [rdb EXCEPT !.window_start = @ + 1]]
================================================================================
