--------------------------------- MODULE RtpPath ---------------------------------
(***************************************************************************)
(* A sending and a receiving stream with the same keys (two instances of   *)
(* SrtpStream), and between them a network that loses, duplicates and      *)
(* reorders packets and may corrupt them.  The sending application         *)
(* protects its packets in the order of their sequence numbers, from an    *)
(* arbitrary first one; the receiving application may pass on the sender's *)
(* ROC with srtp_stream_set_roc.  The errors that do not depend on the      *)
(* other side (a malformed packet, a failing cipher) are in SrtpStream and *)
(* left out here.                                                          *)
(***************************************************************************)
EXTENDS Rdbx, KeyLimit

CONSTANTS
    Keys, RccMode, RocTxRate, Aead, AuthService, AllowRepeatTx, KeepKeys,
    MaxIndex,    \* as in SrtpStream
    LossyBelow   \* only packets with a lower index may be lost when sent

VARIABLES
    s_rdbx, s_pending_roc, s_direction, s_limit, s_sent, s_received, s_last,
    r_rdbx, r_pending_roc, r_direction, r_limit, r_sent, r_received, r_last,
    app_seq,     \* the sequence number of the sender's next packet
    net          \* the packets the network may deliver, any number of times

S == INSTANCE SrtpStream
       WITH rdbx <- s_rdbx, pending_roc <- s_pending_roc,
            direction <- s_direction, limit <- s_limit, sent <- s_sent,
            received <- s_received, last <- s_last

R == INSTANCE SrtpStream
       WITH rdbx <- r_rdbx, pending_roc <- r_pending_roc,
            direction <- r_direction, limit <- r_limit, sent <- r_sent,
            received <- r_received, last <- r_last

sender == <<s_rdbx, s_pending_roc, s_direction, s_limit, s_sent, s_received,
            s_last>>
receiver == <<r_rdbx, r_pending_roc, r_direction, r_limit, r_sent, r_received,
              r_last>>
vars == <<sender, receiver, app_seq, net>>

Init ==
    /\ S!Init
    /\ R!Init
    /\ app_seq \in Seqs
    /\ net = {}

(* Mutant of CarriedRocs: the field of the ROC is left at zero. *)
CarriedRocsZero(seq, est) == {0}

(* What the first four octets of the tag of a ROC-carrying packet can be.
   srtp_protect writes the ROC there as part of writing the tag; when the
   service does not authenticate there is no tag to write, and the receiver
   reads whatever the buffer held. *)
CarriedRocs(seq, est) ==
    IF S!RccCarry(seq) /\ ~Aead /\ ~AuthService
    THEN Rocs
    ELSE {est \div SeqMax}

(* The packet as the network gets it, if it gets it. *)
Transmit(k, est) ==
    \E roc \in CarriedRocs(app_seq, est) :
        LET p == [seq |-> app_seq, roc |-> roc, key |-> k, genuine |-> TRUE,
                  index |-> est]
        IN  \/ net' = net \cup {p}
            \/ est < LossyBelow /\ net' = net

(* The application protects its next packet. *)
Send ==
    \E k \in Keys :
        /\ S!ProtectPacket(app_seq, k, "ok")
        /\ app_seq' = (app_seq + 1) % SeqMax
        /\ Transmit(k, s_last'.est)
        /\ UNCHANGED receiver

(* srtp_unprotect on a packet in its original form or with changed bits. *)
Deliver(p) ==
    /\ \/ R!UnprotectRefused(p)
       \/ R!UnprotectAuthFail(p)
       \/ R!UnprotectExpired(p)
       \/ R!UnprotectPacket(p)
    /\ UNCHANGED <<sender, app_seq, net>>

(* The receiving application learns the sender's ROC from its signalling. *)
SignalRoc ==
    /\ R!SetRoc(GetRoc(s_rdbx))
    /\ UNCHANGED <<sender, app_seq, net>>

Next ==
    \/ Send
    \/ \E p \in net : Deliver(p)
    \/ \E p \in R!Packets : ~p.genuine /\ Deliver(p)
    \/ SignalRoc

Spec == Init /\ [][Next]_vars

(* The application goes on sending, and each packet in the network that carries
   the ROC is, in the end, processed with no error of the cipher. *)
Fairness ==
    /\ WF_vars(Send)
    /\ \A seq \in {x \in Seqs : S!RccCarry(x)}, roc \in Rocs, k \in Keys :
          LET p == [seq |-> seq, roc |-> roc, key |-> k, genuine |-> TRUE,
                    index |-> roc * SeqMax + seq]
          IN  WF_vars(p \in net /\ R!UnprotectPacket(p)
                      /\ UNCHANGED <<sender, app_seq, net>>)

FairSpec == Spec /\ Fairness

-----------------------------------------------------------------------------
(***************************************************************************)
(* Properties                                                              *)
(***************************************************************************)

(* The receiver accepts a packet only under the index the sender protected it
   with: nothing it records was not sent, whatever was lost, repeated,
   reordered or corrupted on the way.  Stated for the services that
   authenticate every packet. *)
ReceivedWasSent ==
    Aead \/ (AuthService /\ RccMode # 1) =>
        {i % IndexSpace : i \in r_received}
            \subseteq {i % IndexSpace : i \in s_sent}

(* A packet that carries the ROC and is ahead of the receiver is put at its
   sender's index and passes the replay check, however far behind the
   receiver is (srtp_estimate_index with the carried ROC). *)
CarriedRocSynchronizes ==
    \A p \in net :
        S!RccCarry(p.seq) /\ p.index > r_rdbx.index =>
            R!ReceiveIndex(p).est = p.index /\ R!MayUnprotect(p)

(* A receiver that missed the beginning of the stream arrives at the sender's
   rollover counter once the sender has come to its last packet (the bound
   MaxIndex, below the key limit). *)
CatchesUp ==
    <>(/\ s_rdbx.index = MaxIndex
       /\ r_rdbx.index \div SeqMax = s_rdbx.index \div SeqMax)
================================================================================
