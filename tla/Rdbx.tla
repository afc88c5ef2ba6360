---------------------------------- MODULE Rdbx ----------------------------------
(***************************************************************************)
(* The extended replay database of an SRTP stream (crypto/replay/rdbx.c):  *)
(* a 64-bit index, the highest packet index recorded so far, and a bitmask *)
(* whose last bit stands for that index and whose bit WindowSize - 1 - d   *)
(* stands for the index d below it.                                        *)
(*                                                                         *)
(* Each operator is one function of the source, taking the database as a   *)
(* record and returning what the function returns or writes.  The bitmask  *)
(* is the set of the positions whose bit is 1.                             *)
(***************************************************************************)
EXTENDS Integers

CONSTANTS
    SeqMedian,   \* seq_num_median: half of the sequence numbers (2^15)
    RocMax,      \* number of rollover counter values (2^32)
    WindowSize   \* bitvector_get_length(&rdbx->bitmask)

(* seq_num_max: the number of sequence numbers (2^16). *)
SeqMax == 2 * SeqMedian

(* The packet indices that fit in the 48 bits of ROC || SEQ. *)
IndexSpace == RocMax * SeqMax

(* A policy's window is below 2^15, and bitvector_alloc rounds it up to a
   multiple of 32, so it may be equal to the median and never above it. *)
ASSUME RdbxAssumption ==
    /\ SeqMedian \in Nat \ {0}
    /\ RocMax \in Nat \ {0}
    /\ WindowSize \in 1 .. SeqMedian

Seqs == 0 .. SeqMax - 1
Rocs == 0 .. RocMax - 1
Bits == 0 .. WindowSize - 1

RdbxType == [index : Nat, bitmask : SUBSET Bits]

(* srtp_rdbx_init *)
RdbxInit == [index |-> 0, bitmask |-> {}]

(* srtp_rdbx_get_roc: the 32 bits of the index above the sequence number. *)
GetRoc(rdbx) == (rdbx.index \div SeqMax) % RocMax

(* Mutants of IndexGuess: the rollover counter is never taken one higher; the
   difference forgets the step of the rollover counter. *)
IndexGuessNoRollover(local, s) ==
    LET local_roc == (local \div SeqMax) % RocMax
        local_seq == local % SeqMax
        step == IF local_seq < SeqMedian /\ s - local_seq > SeqMedian
                THEN -1 ELSE 0
    IN  [guess |-> ((local_roc + step) % RocMax) * SeqMax + s,
         delta |-> s - local_seq + step * SeqMax]

IndexGuessNoCarry(local, s) ==
    LET local_roc == (local \div SeqMax) % RocMax
        local_seq == local % SeqMax
        step == IF local_seq < SeqMedian
                THEN IF s - local_seq > SeqMedian THEN -1 ELSE 0
                ELSE IF local_seq - SeqMedian > s THEN 1 ELSE 0
    IN  [guess |-> ((local_roc + step) % RocMax) * SeqMax + s,
         delta |-> s - local_seq]

(* srtp_index_guess: the rollover counter is taken one lower, as it is, or
   one higher; the guess is a 48-bit number because the counter is a uint32. *)
IndexGuess(local, s) ==
    LET local_roc == (local \div SeqMax) % RocMax
        local_seq == local % SeqMax
        step == IF local_seq < SeqMedian
                THEN IF s - local_seq > SeqMedian THEN -1 ELSE 0
                ELSE IF local_seq - SeqMedian > s THEN 1 ELSE 0
    IN  [guess |-> ((local_roc + step) % RocMax) * SeqMax + s,
         delta |-> s - local_seq + step * SeqMax]

(* srtp_rdbx_estimate_index *)
RdbxEstimateIndex(rdbx, s) ==
    IF rdbx.index > SeqMedian
    THEN IndexGuess(rdbx.index, s)
    ELSE [guess |-> s, delta |-> s - rdbx.index]

(* Mutants of RdbxCheck: the window is taken one longer than it is; the
   newest packet is not looked up. *)
RdbxCheckLongWindow(rdbx, delta) ==
    IF delta > 0 THEN "ok"
    ELSE IF WindowSize + delta < 0 THEN "replay_old"
    ELSE IF (WindowSize - 1) + delta \in rdbx.bitmask THEN "replay_fail"
    ELSE "ok"

RdbxCheckSkipsNewest(rdbx, delta) ==
    IF delta >= 0 THEN "ok"
    ELSE IF (WindowSize - 1) + delta < 0 THEN "replay_old"
    ELSE IF (WindowSize - 1) + delta \in rdbx.bitmask THEN "replay_fail"
    ELSE "ok"

(* srtp_rdbx_check *)
RdbxCheck(rdbx, delta) ==
    IF delta > 0 THEN "ok"
    ELSE IF (WindowSize - 1) + delta < 0 THEN "replay_old"
    ELSE IF (WindowSize - 1) + delta \in rdbx.bitmask THEN "replay_fail"
    ELSE "ok"

(* bitvector_left_shift: every bit moves towards position 0 and the ones
   that pass it are lost. *)
LeftShift(bitmask, shift) == {b \in Bits : b + shift \in bitmask}

(* srtp_rdbx_add_index: the advance of the index is cast to the 16 bits of a
   sequence number, the shift of the bitmask is not. *)
RdbxAddIndex(rdbx, delta) ==
    IF delta > 0
    THEN [index   |-> rdbx.index + (delta % SeqMax),
          bitmask |-> LeftShift(rdbx.bitmask, delta) \cup {WindowSize - 1}]
    ELSE [rdbx EXCEPT !.bitmask = @ \cup {WindowSize - 1 + delta}]

(* Mutant of RdbxSetRocSeq: the window is not zeroed. *)
RdbxSetRocSeqKeepsWindow(rdbx, roc, seq) ==
    IF roc < rdbx.index \div SeqMax
    THEN rdbx
    ELSE [rdbx EXCEPT !.index = roc * SeqMax + seq]

(* srtp_rdbx_set_roc_seq: refuses (here: leaves alone) to move backwards. *)
RdbxSetRocSeq(rdbx, roc, seq) ==
    IF roc < rdbx.index \div SeqMax
    THEN rdbx
    ELSE [index |-> roc * SeqMax + seq, bitmask |-> {}]

(* The database is exact for a set of indices: none lies above its index, and
   each bit is set exactly when the index it stands for is in the set. *)
Exact(rdbx, indices) ==
    /\ \A i \in indices : i <= rdbx.index
    /\ \A b \in Bits :
          b \in rdbx.bitmask <=> rdbx.index - (WindowSize - 1) + b \in indices
================================================================================
