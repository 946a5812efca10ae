------------------------------ MODULE MptcpDss -------------------------------
(***************************************************************************)
(* The data-level send side of one MPTCP connection, as the options a      *)
(* subflow receives drive it (bsd/netinet/mptcp_opt.c): the MP_CAPABLE     *)
(* SYN/ACK, the DSS option with its Data ACK and data-level window, the    *)
(* DATA_FIN acknowledgement, MP_FASTCLOSE and MP_FAIL, and the resync      *)
(* after a fallback to TCP.                                                *)
(*                                                                         *)
(* The peer is the environment: it receives our data in order, sends its  *)
(* own data, and sends options in any format RFC 8684 allows, with stale   *)
(* (reordered or duplicated) Data ACKs and malformed lengths. The          *)
(* application's writes and close, the transmission of data, the          *)
(* establishment of the connection and the fallback are done by code that  *)
(* is not in this repository (mptcp_usrreq.c, mptcp_output.c, tcp_input.c, *)
(* mptcp_subr.c) and are environment actions too. The receive side         *)
(* (mptcp_update_rcv_state_meat) is not in this repository either.         *)
(*                                                                         *)
(* Data sequence numbers are 64-bit; the bounds keep them far below 2^63,  *)
(* so the MPTCP_SEQ_* comparisons (signed 64-bit differences) are the      *)
(* integer ones.                                                           *)
(***************************************************************************)
EXTENDS Integers, FiniteSets

CONSTANTS
    LocalIdsn,      \* mpt_local_idsn
    PeerIdsn,       \* the peer's initial data sequence number
    MaxData,        \* bytes the application writes
    PeerMaxData,    \* bytes the peer sends
    Formats,        \* the DSS flag sets (A, a, M, m) the peer uses
    Wins            \* data-level windows the peer advertises

VARIABLES
    mpt_state,      \* MPTCPS_*
    mpt_version,
    mpt_snduna, mpt_sndnxt, mpt_sndmax,
    sb_cc,          \* mp_so->so_snd.sb_cc
    mpt_sndwnd, mpt_sndwl1, mpt_sndwl2,
    mpt_flags,      \* MPTCPF_*
    t_mpflags,      \* TMPF_* of the subflow
    mpt_dsn_at_csum_fail,
    peerRcvNxt,     \* the next of our DSNs the peer expects
    peerDsn,        \* the next DSN the peer sends
    peerAckSent     \* the highest Data ACK the peer has sent

vars == <<mpt_state, mpt_version, mpt_snduna, mpt_sndnxt, mpt_sndmax, sb_cc,
          mpt_sndwnd, mpt_sndwl1, mpt_sndwl2, mpt_flags, t_mpflags,
          mpt_dsn_at_csum_fail, peerRcvNxt, peerDsn, peerAckSent>>

\* The MPTCPS_* states in their enum order (mptcp_var.h).
StateRank == [CLOSED |-> 0, ESTABLISHED |-> 2, FIN_WAIT_1 |-> 4, FIN_WAIT_2 |-> 7]
States == DOMAIN StateRank
AtLeast(s) == StateRank[mpt_state] >= StateRank[s]

MpFlags == {"CHECKSUM", "RCVD_64BITACK", "SND_64BITACK", "SND_64BITDSN",
            "POST_FALLBACK_SYNC", "RECVD_MPFAIL", "FALLBACK_TO_TCP"}
TpFlags == {"SND_KEYS", "MPTCP_TRUE", "RCVD_DACK", "SEND_DFIN",
            "TCP_FALLBACK", "FASTCLOSERCV"}

DssFlags == SUBSET {"A", "a", "M", "m"}
\* The formats mptcp_do_dss_opt_meat() handles; any other falls to default.
Handled == {{"M"}, {"A"}, {"M", "A"}, {"M", "m"}, {"A", "a"},
            {"M", "m", "A"}, {"M", "A", "a"}, {"M", "m", "A", "a"}}

FirstDsn == LocalIdsn + 1
Dsns == FirstDsn .. FirstDsn + MaxData + 1
PeerDsns == PeerIdsn + 1 .. PeerIdsn + 1 + PeerMaxData

\* A DATA_FIN has been queued (it takes one DSN but no buffer byte) and is
\* not yet acknowledged.
DataFinOutstanding ==
    IF AtLeast("FIN_WAIT_1") /\ mpt_snduna < mpt_sndmax THEN 1 ELSE 0

TypeOK ==
    /\ mpt_state \in States
    /\ mpt_version \in {0, 1}
    /\ {mpt_snduna, mpt_sndnxt, mpt_sndmax, peerRcvNxt} \subseteq Dsns
    /\ sb_cc \in 0 .. MaxData
    /\ mpt_sndwnd \in {0} \cup Wins
    /\ mpt_sndwl1 \in PeerDsns
    /\ mpt_sndwl2 \in Dsns \cup PeerDsns
    /\ mpt_flags \subseteq MpFlags
    /\ t_mpflags \subseteq TpFlags
    /\ mpt_dsn_at_csum_fail \in {0} \cup Dsns
    /\ peerDsn \in PeerDsns
    /\ peerAckSent \in Dsns

Init ==
    /\ mpt_state = "CLOSED"
    /\ mpt_version = 1
    /\ mpt_snduna = FirstDsn /\ mpt_sndnxt = FirstDsn /\ mpt_sndmax = FirstDsn
    /\ sb_cc = 0
    /\ mpt_sndwnd = 0 /\ mpt_sndwl1 = PeerIdsn + 1 /\ mpt_sndwl2 = FirstDsn
    /\ mpt_flags = {}
    /\ t_mpflags = {}
    /\ mpt_dsn_at_csum_fail = 0
    /\ peerRcvNxt = FirstDsn
    /\ peerDsn = PeerIdsn + 1
    /\ peerAckSent = FirstDsn

-----------------------------------------------------------------------------
(***************************************************************************)
(* The handlers. The send-side state is threaded as a record, as the code *)
(* updates mp_tp in place along the call chain.                            *)
(***************************************************************************)
S == [snduna |-> mpt_snduna, sndnxt |-> mpt_sndnxt, sb_cc |-> sb_cc,
      sndwnd |-> mpt_sndwnd, sndwl1 |-> mpt_sndwl1, sndwl2 |-> mpt_sndwl2,
      mpf |-> mpt_flags, tpf |-> t_mpflags, state |-> mpt_state]

Store(s) ==
    /\ mpt_snduna' = s.snduna /\ mpt_sndnxt' = s.sndnxt /\ sb_cc' = s.sb_cc
    /\ mpt_sndwnd' = s.sndwnd /\ mpt_sndwl1' = s.sndwl1 /\ mpt_sndwl2' = s.sndwl2
    /\ mpt_flags' = s.mpf /\ t_mpflags' = s.tpf /\ mpt_state' = s.state

\* The 32-bit fields are extended with MPTCP_EXTEND_DSN (mptcp_var.h, not in
\* this repository) against mpt_snduna or mpt_rcvnxt. Every DSN of the model
\* lies within 2^31 of both, where the extension gives back the full value,
\* so the model passes the full values.

\* Mutant of DataAckDrop: sbdrop() of all that is acked, the DATA_FIN too.
DataAckDropNoClamp(s, acked) ==
    IF acked = 0 THEN s
    ELSE [s EXCEPT !.sb_cc = @ - acked, !.snduna = @ + acked]

\* mptcp_data_ack_rcvd(), the part under "if (acked)": drop the acknowledged
\* bytes (a DATA_FIN takes a DSN but no byte of sb_cc), advance snduna, and in
\* fallback bring sndnxt back to the DSN of the checksum failure.
DataAckDrop(s, acked) ==
    IF acked = 0 THEN s
    ELSE LET una == s.snduna + acked
             resync == /\ "TCP_FALLBACK" \in s.tpf
                       /\ "POST_FALLBACK_SYNC" \notin s.mpf
                       /\ s.sndnxt > una
         IN [s EXCEPT !.sb_cc = IF acked > @ THEN 0 ELSE @ - acked,
                      !.snduna = una,
                      !.sndnxt = IF resync THEN mpt_dsn_at_csum_fail ELSE @,
                      !.mpf = IF resync THEN @ \cup {"POST_FALLBACK_SYNC"} ELSE @]

\* Mutant of DataAckFin: the DATA_FIN ack is looked for only past FIN_WAIT_1.
DataAckFinPastFw1(s, full_dack) ==
    IF full_dack = mpt_sndmax /\ StateRank[s.state] > StateRank["FIN_WAIT_1"]
    THEN [s EXCEPT !.state = IF @ = "FIN_WAIT_1" THEN "FIN_WAIT_2" ELSE @,
                   !.tpf = @ \ {"SEND_DFIN"}]
    ELSE s

\* The Data ACK of the DATA_FIN: mptcp_close_fsm(MPCE_RECV_DATA_ACK) (in
\* mptcp_subr.c, not in this repository) moves FIN_WAIT_1 to FIN_WAIT_2.
DataAckFin(s, full_dack) ==
    IF full_dack = mpt_sndmax /\ StateRank[s.state] >= StateRank["FIN_WAIT_1"]
    THEN [s EXCEPT !.state = IF @ = "FIN_WAIT_1" THEN "FIN_WAIT_2" ELSE @,
                   !.tpf = @ \ {"SEND_DFIN"}]
    ELSE s

\* Our keys stop being sent once the peer has acknowledged our first byte.
DataAckKeys(s) ==
    IF "SND_KEYS" \in s.tpf /\ s.snduna > LocalIdsn + 1
    THEN [s EXCEPT !.tpf = @ \ {"SND_KEYS"}]
    ELSE s

mptcp_data_ack_rcvd(s, full_dack) ==
    DataAckKeys(DataAckFin(DataAckDrop(s, full_dack - s.snduna), full_dack))

\* mptcp_update_window(): take the window of the newest (seq, ack) pair.
mptcp_update_window(s, ack, seq, tiwin) ==
    IF \/ s.sndwl1 < seq
       \/ s.sndwl1 = seq /\ (s.sndwl2 < ack \/ (s.sndwl2 = ack /\ tiwin > s.sndwnd))
    THEN [s EXCEPT !.sndwnd = tiwin, !.sndwl1 = seq, !.sndwl2 = ack]
    ELSE s

\* Mutant of AckInWindow: MPTCP_SEQ_LT in place of MPTCP_SEQ_LEQ on sndmax.
AckInWindowBelowMax(s, full_dack) ==
    full_dack < mpt_sndmax /\ full_dack >= s.snduna

\* The Data ACK is applied only when it lies in [snduna, sndmax].
AckInWindow(s, full_dack) ==
    full_dack <= mpt_sndmax /\ full_dack >= s.snduna

\* A Data ACK acknowledges a 64-bit ACK we sent, so we return to 32-bit DSNs.
Clear64(s) ==
    IF "RCVD_64BITACK" \in s.mpf
    THEN [s EXCEPT !.mpf = @ \ {"RCVD_64BITACK", "SND_64BITDSN"}]
    ELSE s

AckApply(s, full_dack) ==
    IF AckInWindow(s, full_dack) THEN Clear64(mptcp_data_ack_rcvd(s, full_dack)) ELSE s

mptcp_do_dss_opt_ack_meat(s, full_dack, full_dsn, tiwin) ==
    mptcp_update_window(AckApply([s EXCEPT !.tpf = @ \cup {"RCVD_DACK"}], full_dack),
                        full_dack, full_dsn, tiwin)

\* The flags a 64-bit field sets: a 64-bit DSN (m) makes us answer with
\* 64-bit Data ACKs, a 64-bit Data ACK (a) is remembered as received.
Flags64(fmt) ==
    {f \in {"SND_64BITACK", "RCVD_64BITACK"} :
        \/ f = "SND_64BITACK" /\ "m" \in fmt
        \/ f = "RCVD_64BITACK" /\ "a" \in fmt}

\* Mutant of FullDack: the 32-bit DSS + Data ACK case reads the DSN too.
FullDackFromDsn(fmt, ack, dsn) ==
    IF fmt \in {{"M", "m", "A", "a"}, {"M", "A"}} THEN dsn ELSE ack

\* The full_dack each format reads. In the 64-bit DSN + 64-bit Data ACK case
\* the code reads it from the mdss_dsn field.
FullDack(fmt, ack, dsn) ==
    IF fmt = {"M", "m", "A", "a"} THEN dsn ELSE ack

\* The seq given to mptcp_update_window: the DSN, or mpt_sndwl1 without one.
FullSeq(s, fmt, dsn) == IF "M" \in fmt THEN dsn ELSE s.sndwl1

DssAck(s, fmt, ack, dsn, tiwin) ==
    IF "A" \in fmt
    THEN mptcp_do_dss_opt_ack_meat(s, FullDack(fmt, ack, dsn), FullSeq(s, fmt, dsn), tiwin)
    ELSE s

\* mptcp_do_dss_opt_meat(); the receive-side mapping update is not modelled.
\* An option whose length fails MPTCP_DSS_OPT_SZ_CHK (the format's length,
\* plus two bytes of checksum in the formats with a mapping when
\* MPTCPF_CHECKSUM is set) returns before any change: the stuttering step.
mptcp_do_dss_opt_meat(s, fmt, ack, dsn, tiwin) ==
    IF fmt \notin Handled THEN s
    ELSE DssAck([s EXCEPT !.mpf = @ \cup Flags64(fmt)], fmt, ack, dsn, tiwin)

-----------------------------------------------------------------------------
(***************************************************************************)
(* Options received, dispatched by tcp_do_mptcp_options() after            *)
(* mptcp_sanitize_option(): before ESTABLISHED only MP_CAPABLE is looked   *)
(* at. An option shorter than 4 bytes, or of an unknown subtype, changes   *)
(* nothing and is the stuttering step.                                     *)
(***************************************************************************)
mptcp_sanitize_option(subtype) ==
    subtype = "CAPABLE" \/ AtLeast("ESTABLISHED")

Frozen == <<mpt_sndmax, peerRcvNxt, peerDsn, peerAckSent>>

\* A DSS option. Its F flag goes to the receive map (t_rcv_map.mpt_dfin),
\* which belongs to the receive side and is not modelled.
mptcp_do_dss_opt(fmt, ack, dsn, tiwin) ==
    /\ mptcp_sanitize_option("DSS")
    /\ Store(mptcp_do_dss_opt_meat(S, fmt, ack, dsn, tiwin))
    /\ UNCHANGED <<mpt_version, mpt_dsn_at_csum_fail>>
    /\ UNCHANGED <<mpt_sndmax, peerRcvNxt, peerDsn>>

\* An MP_CAPABLE SYN/ACK with valid flags and length, before ESTABLISHED
\* (the other early returns change nothing). The checksum bit is taken
\* before the version check; a lower version is adopted and the option
\* dropped; mptcp_init_remote_parms() (not in this repository) may fail.
mptcp_do_mpcapable_opt(cbit, version, initOk) ==
    /\ mptcp_sanitize_option("CAPABLE")
    /\ ~AtLeast("ESTABLISHED")
    /\ mpt_flags' = IF cbit THEN mpt_flags \cup {"CHECKSUM"} ELSE mpt_flags
    /\ IF version < mpt_version
       THEN mpt_version' = version /\ UNCHANGED t_mpflags
       ELSE /\ UNCHANGED mpt_version
            /\ t_mpflags' = IF initOk THEN t_mpflags \cup {"SND_KEYS", "MPTCP_TRUE"}
                            ELSE t_mpflags
    /\ UNCHANGED <<mpt_state, mpt_snduna, mpt_sndnxt, sb_cc, mpt_sndwnd, mpt_sndwl1,
                   mpt_sndwl2, mpt_dsn_at_csum_fail>>
    /\ UNCHANGED Frozen

\* An MP_FASTCLOSE on a bare ACK, of the right length, carrying our key, at
\* rcv_nxt (the other early returns change nothing): the flow is reset.
mptcp_do_fastclose_opt ==
    /\ mptcp_sanitize_option("FASTCLOSE")
    /\ t_mpflags' = t_mpflags \cup {"FASTCLOSERCV"}
    /\ UNCHANGED <<mpt_state, mpt_version, mpt_snduna, mpt_sndnxt, sb_cc, mpt_sndwnd,
                   mpt_sndwl1, mpt_sndwl2, mpt_flags, mpt_dsn_at_csum_fail>>
    /\ UNCHANGED Frozen

\* An MP_FAIL at rcv_nxt, on an ACK or RST, of the right length: the peer
\* reports the DSN at which its checksum failed, its next expected one.
mptcp_do_mpfail_opt ==
    /\ mptcp_sanitize_option("FAIL")
    /\ mpt_flags' = mpt_flags \cup {"RECVD_MPFAIL"}
    /\ mpt_dsn_at_csum_fail' = peerRcvNxt
    /\ UNCHANGED <<mpt_state, mpt_version, mpt_snduna, mpt_sndnxt, sb_cc, mpt_sndwnd,
                   mpt_sndwl1, mpt_sndwl2, t_mpflags>>
    /\ UNCHANGED Frozen

\* Mutant of mptcp_update_window_wakeup: sndwl1 and sndwl2 swapped.
WindowWakeupSwapped ==
    /\ "FALLBACK_TO_TCP" \in mpt_flags
    /\ \E snd_wnd \in Wins, rcvnxt \in PeerIdsn + 1 .. peerDsn :
          /\ mpt_sndwnd' = snd_wnd
          /\ mpt_sndwl1' = mpt_snduna
          /\ mpt_sndwl2' = rcvnxt
    /\ UNCHANGED <<mpt_state, mpt_version, mpt_snduna, mpt_sndnxt, sb_cc, mpt_flags,
                   t_mpflags, mpt_dsn_at_csum_fail>>
    /\ UNCHANGED Frozen

\* mptcp_update_window_wakeup(): after a fallback to TCP the data-level
\* window follows the subflow's (snd_wnd), at our rcv_nxt and snduna. The
\* receive side is not modelled: rcvnxt is any DSN the peer has sent.
mptcp_update_window_wakeup ==
    /\ "FALLBACK_TO_TCP" \in mpt_flags
    /\ \E snd_wnd \in Wins, rcvnxt \in PeerIdsn + 1 .. peerDsn :
          /\ mpt_sndwnd' = snd_wnd
          /\ mpt_sndwl1' = rcvnxt
          /\ mpt_sndwl2' = mpt_snduna
    /\ UNCHANGED <<mpt_state, mpt_version, mpt_snduna, mpt_sndnxt, sb_cc, mpt_flags,
                   t_mpflags, mpt_dsn_at_csum_fail>>
    /\ UNCHANGED Frozen

-----------------------------------------------------------------------------
(***************************************************************************)
(* The environment: code outside this repository, and the peer.            *)
(***************************************************************************)
Rest == <<mpt_version, mpt_sndwnd, mpt_sndwl1, mpt_sndwl2, mpt_dsn_at_csum_fail,
          peerAckSent>>

\* The subflow completes its handshake as an MPTCP subflow.
Establish ==
    /\ mpt_state = "CLOSED" /\ "MPTCP_TRUE" \in t_mpflags
    /\ mpt_state' = "ESTABLISHED"
    /\ UNCHANGED <<mpt_snduna, mpt_sndnxt, mpt_sndmax, sb_cc, mpt_flags, t_mpflags,
                   peerRcvNxt, peerDsn>>
    /\ UNCHANGED Rest

\* The application appends a byte to the MPTCP socket's send buffer.
AppWrite ==
    /\ mpt_state = "ESTABLISHED"
    /\ mpt_sndmax < FirstDsn + MaxData
    /\ sb_cc' = sb_cc + 1 /\ mpt_sndmax' = mpt_sndmax + 1
    /\ UNCHANGED <<mpt_state, mpt_snduna, mpt_sndnxt, mpt_flags, t_mpflags,
                   peerRcvNxt, peerDsn>>
    /\ UNCHANGED Rest

\* The application closes: the DATA_FIN takes one DSN past the data.
AppClose ==
    /\ mpt_state = "ESTABLISHED"
    /\ mpt_state' = "FIN_WAIT_1"
    /\ mpt_sndmax' = mpt_sndmax + 1
    /\ t_mpflags' = t_mpflags \cup {"SEND_DFIN"}
    /\ UNCHANGED <<mpt_snduna, mpt_sndnxt, sb_cc, mpt_flags, peerRcvNxt, peerDsn>>
    /\ UNCHANGED Rest

\* mptcp_output sends the next DSN (the DATA_FIN included).
Transmit ==
    /\ AtLeast("ESTABLISHED")
    /\ mpt_sndnxt < mpt_sndmax
    /\ mpt_sndnxt' = mpt_sndnxt + 1
    /\ UNCHANGED <<mpt_state, mpt_snduna, mpt_sndmax, sb_cc, mpt_flags, t_mpflags,
                   peerRcvNxt, peerDsn>>
    /\ UNCHANGED Rest

\* The peer receives, in order, a DSN we have sent.
PeerReceive ==
    /\ peerRcvNxt < mpt_sndnxt
    /\ peerRcvNxt' = peerRcvNxt + 1
    /\ UNCHANGED <<mpt_state, mpt_snduna, mpt_sndnxt, mpt_sndmax, sb_cc, mpt_flags,
                   t_mpflags, peerDsn>>
    /\ UNCHANGED Rest

\* The peer sends a byte of its own.
PeerSend ==
    /\ AtLeast("ESTABLISHED")
    /\ peerDsn < PeerIdsn + 1 + PeerMaxData
    /\ peerDsn' = peerDsn + 1
    /\ UNCHANGED <<mpt_state, mpt_snduna, mpt_sndnxt, mpt_sndmax, sb_cc, mpt_flags,
                   t_mpflags, peerRcvNxt>>
    /\ UNCHANGED Rest

\* After an MP_FAIL the subflow falls back to TCP (mptcp_subr.c).
Fallback ==
    /\ "RECVD_MPFAIL" \in mpt_flags /\ "TCP_FALLBACK" \notin t_mpflags
    /\ t_mpflags' = t_mpflags \cup {"TCP_FALLBACK"}
    /\ mpt_flags' = mpt_flags \cup {"FALLBACK_TO_TCP"}
    /\ UNCHANGED <<mpt_state, mpt_snduna, mpt_sndnxt, mpt_sndmax, sb_cc, peerRcvNxt,
                   peerDsn>>
    /\ UNCHANGED Rest

\* The DSN a DSS option of the peer carries: that of a mapping it has sent,
\* or its next one in a format without a mapping (where it is not read).
PeerMappings(fmt) ==
    IF "M" \in fmt THEN PeerIdsn + 1 .. peerDsn - 1 ELSE {peerDsn}

\* A DSS option from the peer: a Data ACK it has sent before (the segment
\* reordered or duplicated) or a fresh one up to what it has received, and
\* any of its mappings.
PeerDss ==
    \E fmt \in Formats, tiwin \in Wins, ack \in FirstDsn .. peerRcvNxt :
       \E dsn \in PeerMappings(fmt) :
        /\ mptcp_do_dss_opt(fmt, ack, dsn, tiwin)
        /\ peerAckSent' = IF "A" \in fmt /\ ack > peerAckSent THEN ack ELSE peerAckSent

\* The peer acknowledges all it has received.
PeerDataAck ==
    \E fmt \in {f \in Formats : "A" \in f}, tiwin \in Wins :
        \E dsn \in PeerMappings(fmt) :
            /\ mptcp_do_dss_opt(fmt, peerRcvNxt, dsn, tiwin)
            /\ peerAckSent' = peerRcvNxt

PeerMpCapable ==
    \E cbit, initOk \in BOOLEAN, version \in {0, 1} :
        mptcp_do_mpcapable_opt(cbit, version, initOk)

Next ==
    \/ PeerMpCapable
    \/ PeerDss
    \/ mptcp_do_fastclose_opt
    \/ mptcp_do_mpfail_opt
    \/ mptcp_update_window_wakeup
    \/ Establish \/ AppWrite \/ AppClose \/ Transmit
    \/ PeerReceive \/ PeerSend \/ Fallback

Spec == Init /\ [][Next]_vars

\* mptcp_output and the peer are driven by timers and acknowledgements: what
\* is sent is eventually received, and what is received eventually acked.
\* The peer's obligation is weak fairness of PeerDataAck in the states
\* where it owes a Data ACK: it has received more than it has acknowledged,
\* so every PeerDataAck step changes peerAckSent. Written out, as ENABLED of
\* the DSS handler is costly for TLC.
AckOwed ==
    AtLeast("ESTABLISHED") /\ peerAckSent < peerRcvNxt

FairSpec ==
    /\ Spec
    /\ WF_vars(Transmit) /\ WF_vars(PeerReceive)
    /\ <>[]AckOwed => []<><<PeerDataAck>>_vars

-----------------------------------------------------------------------------
(***************************************************************************)
(* Properties.                                                             *)
(***************************************************************************)

\* The send buffer holds exactly the unacknowledged data: sndmax - snduna
\* less the DSN of a DATA_FIN not yet acknowledged. mptcp_data_ack_rcvd()
\* must drop acked bytes but never the DATA_FIN's DSN from sb_cc.
SendBufferExact ==
    sb_cc = mpt_sndmax - mpt_snduna - DataFinOutstanding

\* Data is released from the send buffer only once the peer has received
\* it: the Data ACK that mptcp_do_dss_opt_meat() applies never runs ahead of
\* what the peer has acknowledged, whatever format the peer uses.
AckedOnlyReceived ==
    mpt_snduna <= peerRcvNxt

\* Every DSN the peer receives is eventually released by a Data ACK.
AckedDataReleased ==
    \A n \in Dsns : peerRcvNxt >= n ~> mpt_snduna >= n

\* Once the peer has received our DATA_FIN, its Data ACK moves the
\* connection from FIN_WAIT_1 to FIN_WAIT_2 (mptcp_data_ack_rcvd()).
DataFinCompletes ==
    (mpt_state = "FIN_WAIT_1" /\ peerRcvNxt = mpt_sndmax) ~> mpt_state = "FIN_WAIT_2"
=============================================================================
