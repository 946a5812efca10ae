--------------------------- MODULE ContentFilter ----------------------------
(***************************************************************************)
(* The data path and verdict protocol of one filtered TCP flow in          *)
(* bsd/net/content_filter.c: one "struct cfil_info" with its per-direction *)
(* inject queue and pending window, one "struct cfil_entry" per attached   *)
(* agent with its ctl/pending queues and pass/peek/peeked offsets, the     *)
(* agents' kernel-control sockets (bounded receive buffers) and the        *)
(* CFF_FLOW_CONTROLLED flag of each "struct content_filter".               *)
(*                                                                         *)
(* Every kernel entry point runs under the socket lock, so each handler    *)
(* is one atomic action.  The nested calls cfil_data_service_ctl_q ->      *)
(* cfil_service_pending_queue -> cfil_data_filter -> ... are mutually      *)
(* recursive operators that thread a record W of the whole state.          *)
(***************************************************************************)
EXTENDS Naturals, Sequences, SequencesExt, FiniteSets, CfilQueue

CONSTANTS
    Units,          \* kcunits of the agents attached to the flow (1..8)
    ControlUnit,    \* [Units -> Nat]: cfe_necp_control_unit, orders the chain
    Lens,           \* lengths a span submitted by the socket layer may have
    MaxBytes,       \* bound: bytes submitted per direction
    InboxCap,       \* messages an agent's kernel-control socket can hold
    CFM_MAX_OFFSET, \* the "pass/peek everything" offset
    AllocMayFail,   \* whether M_DONTWAIT allocations may fail (ENOMEM)
    MaxReinjectFail,\* bound: sosend_reinject() failures in a behaviour
    ReinjectFailAt, \* bound: queue positions at which such a failure may hit
    Verdicts,       \* the CFM_OP_DATA_UPDATE messages an agent may send
    DataDirs,       \* the directions the socket layer submits data on
    Ops,            \* the optional operations of the environment: the
                    \* application's shutdown() and close(), an agent
                    \* closing its kernel-control socket, an application
                    \* thread inside sosend() holding SB_LOCK of so_snd
    Dgram,          \* NEED_DGRAM_FLOW_TRACKING(so): a UDP flow of the socket's
                    \* soflow database instead of a TCP connection
    GcMbufNumMax,   \* cfil_udp_gc_mbuf_num_max: mbufs a UDP flow may hold
    GcMbufCntMax    \* cfil_udp_gc_mbuf_cnt_max: mbuf bytes a UDP flow may hold

ASSUME Units \subseteq 1..8 /\ Units # {}
ASSUME ControlUnit \in [Units -> Nat]
ASSUME Lens \subseteq (Nat \ {0}) /\ MaxBytes \in Nat /\ InboxCap \in Nat \ {0}
ASSUME CFM_MAX_OFFSET \in Nat /\ CFM_MAX_OFFSET > MaxBytes
ASSUME AllocMayFail \in BOOLEAN /\ MaxReinjectFail \in Nat /\ ReinjectFailAt \subseteq Nat \ {0}
ASSUME DataDirs \subseteq {"out", "in"} /\ DataDirs # {}
ASSUME Verdicts \subseteq [{"out", "in"} -> [pass : Nat, peek : Nat]]
ASSUME Ops \subseteq {"shutdown", "close", "agent_disconnect", "app_send",
                      "is_dead", "time_wait", "connect"}
ASSUME Dgram \in BOOLEAN /\ GcMbufNumMax \in Nat /\ GcMbufCntMax \in Nat

Dirs == {"out", "in"}

\* Error codes returned along the call chain.
OK == "OK"
ENOBUFS == "ENOBUFS"
ENOMEM == "ENOMEM"
EJUSTRETURN == "EJUSTRETURN"
EPIPE == "EPIPE"
EBUSY == "EBUSY"
ENOTCONN == "ENOTCONN"

\* cfe_flags (CFEF_*), cfi_flags (CFIF_*) and socket-level state.
EntryFlags == {"SENT_SOCK_ATTACHED", "DATA_START", "FLOW_CONTROLLED",
               "SENT_DISCONNECT_IN", "SENT_DISCONNECT_OUT",
               "SENT_SOCK_CLOSED", "CFIL_DETACHED"}
InfoFlags == {"DROP", "CLOSE_WAIT", "SOCK_CLOSED", "RETRY_INJECT_IN",
              "RETRY_INJECT_OUT", "SHUT_WR", "SHUT_RD", "INITIAL_VERDICT",
              "SOCKET_CONNECTED", "SO_DELAYED_DEAD", "SO_DELAYED_TCP_TIME_WAIT"}

Span == [off : 0..MaxBytes, len : Lens]
Queue == [start : Nat, end : Nat, q : Seq(Span)]
Event == [start : Nat, end : Nat, off : Nat]

\* cfil_info_attach_unit() inserts each entry before the first one with a
\* strictly greater control unit while walking kcunit 1..8 upwards.
Order == SetToSortSeq(Units, LAMBDA a, b :
            ControlUnit[a] < ControlUnit[b]
            \/ (ControlUnit[a] = ControlUnit[b] /\ a < b))
Pos(u) == CHOOSE i \in 1..Len(Order) : Order[i] = u
\* SLIST_NEXT(entry, cfe_order_link) and the entries after it.
After(u) == SubSeq(Order, Pos(u) + 1, Len(Order))

RetryFlag(d) == IF d = "out" THEN "RETRY_INJECT_OUT" ELSE "RETRY_INJECT_IN"
\* so_state bits the socket layer sets when a side is shut down.
SockStates == {"CANTSENDMORE", "CANTRCVMORE", "ISCONNECTED", "DEAD", "TIME_WAIT"}
\* The stages of the closing thread: soclose() calls cfil_sock_close_wait(),
\* which may sleep, and then cfil_sock_is_closed().
Phases == {"open", "sleeping", "closing", "closed"}

SentDisconnect(d) == IF d = "out" THEN "SENT_DISCONNECT_OUT" ELSE "SENT_DISCONNECT_IN"
MaxOf(a, b) == IF a >= b THEN a ELSE b

VARIABLES
    ctl, pend,          \* [Dirs -> [Units -> Queue]]: cfe_ctl_q, cfe_pending_q
    pass, peek, peeked, \* [Dirs -> [Units -> Nat]]: cfe_pass/peek_offset, cfe_peeked
    inj,                \* [Dirs -> Queue]: cfi_inject_q
    pfirst, plast,      \* [Dirs -> Nat]: cfi_pending_first, cfi_pending_last
    cfipass,            \* [Dirs -> Nat]: cfi_pass_offset
    ef,                 \* [Units -> SUBSET EntryFlags]: cfe_flags
    filter,             \* [Units -> BOOLEAN]: cfe_filter != NULL
    cff,                \* [Units -> BOOLEAN]: CFF_FLOW_CONTROLLED of the filter
    inbox,              \* [Units -> 0..InboxCap]: messages (of any flow) queued
                        \* on the agent's kernel-control socket
    fl,                 \* SUBSET InfoFlags: cfi_flags
    defunct,            \* SS_DEFUNCT / SOF_DEFUNCT of the socket
    accepted,           \* ghost [Dirs -> Seq(Span)]: spans taken by cfil_data_common
    handed,             \* ghost [Dirs -> Seq(Span)]: spans given back to the socket
    flushed,            \* ghost [Dirs -> Seq(Span)]: spans thrown away by a flush
    evlog,              \* ghost [Units -> [Dirs -> Seq(Event)]]: data events sent
    granted,            \* ghost [Dirs -> [Units -> Nat]]: largest pass offset the
                        \* agent itself has sent
    reinjFails,         \* ghost: sosend_reinject() failures so far
    sock,               \* SUBSET SockStates: so_state of the socket
    woken,              \* a wakeup(cfil_info) reached the close-wait sleeper
    phase,              \* Phases: where the closing thread is
    waitOn,             \* the entry the UDP close-wait sleeper sleeps for (0:
                        \* none; the TCP sleeper keeps no entry)
    mbcnt, mbnum,       \* [Dirs -> Nat]: cfi_pending_mbcnt, cfi_pending_mbnum; a
                        \* span is one mbuf whose storage is its length
    tailDrop,           \* [Dirs -> Nat]: cfi_tail_drop_cnt
    linked,             \* the flow's soflow_feat_ctxt still points to the
                        \* cfil_info (always, for TCP's so_cfil)
    idle,               \* SUBSET Units: entries whose cfe_last_action is at
                        \* least UDP_FLOW_GC_ACTION_TO seconds old
    freed,              \* cfil_info_free() has run: the last reference is gone
    sbLocked,           \* SB_LOCK of so_snd is held by an application thread
                        \* in sosend(), which runs without the socket lock
    parked              \* <<>> or <<[u, v]>>: the CFM_OP_DATA_UPDATE of agent
                        \* u asleep in cfil_acquire_sockbuf(so_snd), holding
                        \* a reference on the cfil_info (at most one thread)

\* The state of the flow itself, and the ghost state.
flowVars == <<ctl, pend, pass, peek, peeked, inj, pfirst, plast, cfipass, ef,
              filter, fl, defunct, mbcnt, mbnum, tailDrop, linked, freed, idle>>
ghostVars == <<accepted, handed, flushed, evlog, granted, reinjFails>>
lifeVars == <<sock, woken, phase, waitOn>>
threadVars == <<sbLocked, parked>>

vars == <<ctl, pend, pass, peek, peeked, inj, pfirst, plast, cfipass, ef,
          filter, cff, inbox, fl, defunct, accepted, handed, flushed, evlog,
          granted, reinjFails, sock, woken, phase, waitOn, mbcnt, mbnum, tailDrop,
          linked, freed, idle, sbLocked, parked>>

\* The whole state as one record, threaded through the nested calls.
W == [ctl |-> ctl, pend |-> pend, pass |-> pass, peek |-> peek,
      peeked |-> peeked, inj |-> inj, pfirst |-> pfirst, plast |-> plast,
      cfipass |-> cfipass, ef |-> ef, cff |-> cff, inbox |-> inbox, fl |-> fl,
      accepted |-> accepted, handed |-> handed, flushed |-> flushed,
      evlog |-> evlog, granted |-> granted,
      reinjFails |-> reinjFails, sock |-> sock, woken |-> woken,
      mbcnt |-> mbcnt, mbnum |-> mbnum, tailDrop |-> tailDrop]

Apply(w) ==
    /\ ctl' = w.ctl /\ pend' = w.pend /\ pass' = w.pass /\ peek' = w.peek
    /\ peeked' = w.peeked /\ inj' = w.inj /\ pfirst' = w.pfirst
    /\ plast' = w.plast /\ cfipass' = w.cfipass /\ ef' = w.ef /\ cff' = w.cff
    /\ inbox' = w.inbox /\ fl' = w.fl /\ accepted' = w.accepted
    /\ handed' = w.handed /\ flushed' = w.flushed /\ evlog' = w.evlog /\ granted' = w.granted /\ reinjFails' = w.reinjFails
    /\ sock' = w.sock /\ woken' = w.woken
    /\ mbcnt' = w.mbcnt /\ mbnum' = w.mbnum /\ tailDrop' = w.tailDrop

Result(w, err) == [w |-> w, err |-> err]

\* The spans held by the filters in stream order: the furthest along (the
\* inject queue, then the last entry of the chain) hold the oldest bytes.
HeldIn(w, d) ==
    w.inj[d].q \o FoldLeft(LAMBDA acc, u : w.pend[d][u].q \o w.ctl[d][u].q \o acc,
                           << >>, Order)

-----------------------------------------------------------------------------
(***************************************************************************)
(* Messages to an agent.  ctl_enqueuedata()/ctl_enqueuembuf() fail with    *)
(* ENOBUFS when the agent's socket is full; every dispatcher then sets     *)
(* CFEF_FLOW_CONTROLLED on the entry and CFF_FLOW_CONTROLLED on the filter *)
(* and leaves its data where it is.                                        *)
(***************************************************************************)
FlowControlled(w, u) ==
    Result([w EXCEPT !.ef[u] = @ \cup {"FLOW_CONTROLLED"}, !.cff[u] = TRUE],
           ENOBUFS)

\* Mutation: an off-by-one in the socket space check lets one more in.
InboxFullOffByOne(w, u) == w.inbox[u] > InboxCap

InboxFull(w, u) == w.inbox[u] >= InboxCap

\* cfil_dispatch_attach_event(): the socket-attached event, sent once.
DispatchAttach(w, u, memfail) ==
    IF ~filter[u] \/ "SENT_SOCK_ATTACHED" \in w.ef[u] THEN Result(w, OK)
    ELSE IF memfail /\ ~w.cff[u] THEN Result(w, ENOMEM)
    ELSE IF w.cff[u] \/ InboxFull(w, u) THEN FlowControlled(w, u)
    ELSE Result([w EXCEPT !.inbox[u] = @ + 1,
                          !.ef[u] = @ \cup {"SENT_SOCK_ATTACHED"}], OK)

\* Mutation: the event is labelled with q_start instead of cfe_peeked.
DispatchDataWrongStart(w, d, u, m, coff, clen, memfail) ==
    IF ~filter[u] THEN Result(w, OK)
    ELSE IF memfail /\ ~w.cff[u] THEN Result(w, ENOMEM)
    ELSE IF w.cff[u] \/ InboxFull(w, u) THEN FlowControlled(w, u)
    ELSE LET s == w.ctl[d][u].start IN
         Result([w EXCEPT
                   !.inbox[u] = @ + 1,
                   !.ef[u] = @ \ {"FLOW_CONTROLLED"},
                   !.evlog[u][d] = Append(@, [start |-> s, end |-> s + clen,
                                              off |-> m.off + coff])], OK)

\* cfil_dispatch_data_event(): a copy of bytes [coff, coff+clen) of span m,
\* announced to the agent as [cfe_peeked, cfe_peeked + clen).
DispatchData(w, d, u, m, coff, clen, memfail) ==
    IF ~filter[u] THEN Result(w, OK)
    ELSE IF memfail /\ ~w.cff[u] THEN Result(w, ENOMEM)
    ELSE IF w.cff[u] \/ InboxFull(w, u) THEN FlowControlled(w, u)
    ELSE LET s == w.peeked[d][u] IN
         Result([w EXCEPT
                   !.inbox[u] = @ + 1,
                   !.ef[u] = @ \ {"FLOW_CONTROLLED"},
                   !.evlog[u][d] = Append(@, [start |-> s, end |-> s + clen,
                                              off |-> m.off + coff])], OK)

\* cfil_dispatch_disconnect_event(); also marks a loopback flow that has
\* had no verdict as CFIF_NO_CLOSE_WAIT (not modelled: TCP to a remote peer).
DispatchDisconnect(w, d, u) ==
    IF ~filter[u] \/ SentDisconnect(d) \in w.ef[u] THEN Result(w, OK)
    ELSE IF d = "out" /\ ~QEmpty(w.ctl[d][u]) THEN Result(w, EBUSY)
    ELSE IF w.cff[u] \/ InboxFull(w, u) THEN FlowControlled(w, u)
    ELSE Result([w EXCEPT !.inbox[u] = @ + 1,
                          !.ef[u] = @ \cup {SentDisconnect(d)}], OK)

\* cfil_dispatch_closed_event(): the socket-closed event, once per entry
\* that got the attach event.  Flow control is tested first, so a flow
\* controlled filter gets ENOBUFS (and the flags) even if already sent.
DispatchClosed(w, u) ==
    IF ~filter[u] THEN Result(w, OK)
    ELSE IF w.cff[u] THEN FlowControlled(w, u)
    ELSE IF "SENT_SOCK_CLOSED" \in w.ef[u] \/ "SENT_SOCK_ATTACHED" \notin w.ef[u]
    THEN Result(w, OK)
    ELSE IF InboxFull(w, u) THEN FlowControlled(w, u)
    ELSE Result([w EXCEPT !.inbox[u] = @ + 1,
                          !.ef[u] = @ \cup {"SENT_SOCK_CLOSED"}], OK)

\* The loops over kcunit = 1 .. MAX_CONTENT_FILTER walk the entry table in
\* kcunit order, not in the chain order of cfi_ordered_entries.
Kcunits == SetToSortSeq(Units, LAMBDA a, b : a < b)

\* cfil_sock_notify_shutdown(): for each kcunit a disconnect event for the
\* incoming side (unless SHUT_WR), then for the outgoing side (unless
\* SHUT_RD); the errors are ignored.
NotifyIn(w, how, u) ==
    IF how # "SHUT_WR" THEN DispatchDisconnect(w, "in", u).w ELSE w
NotifyOut(w, how, u) ==
    IF how # "SHUT_RD" THEN DispatchDisconnect(w, "out", u).w ELSE w

RECURSIVE NotifyUnits(_, _, _)
NotifyUnits(w, how, ks) ==
    IF ks = << >> THEN w
    ELSE NotifyUnits(NotifyOut(NotifyIn(w, how, Head(ks)), how, Head(ks)),
                     how, Tail(ks))

NotifyShutdown(w, how) == NotifyUnits(w, how, Kcunits)

\* cfil_sock_notify_shutdown() of a datagram socket goes through
\* cfil_sock_udp_notify_shutdown(so, how, 0, 0): the flows still in the flow
\* database are notified.
SockNotifyShutdown(w, how) == IF Dgram /\ ~linked THEN w ELSE NotifyShutdown(w, how)

\* cfil_filters_attached(): some entry has a filter, got the attach event
\* and is not yet detached.
EntryAttached(flags, u) ==
    /\ filter[u] /\ "SENT_SOCK_ATTACHED" \in flags[u]
    /\ "CFIL_DETACHED" \notin flags[u]

AnyAttached(flags) == \E u \in Units : EntryAttached(flags, u)

\* cfil_filters_udp_attached(): only a flow still in the socket's flow
\* database counts (none once the GC unlinked it).
FiltersUdpAttached(w) == linked /\ AnyAttached(w.ef)

FiltersAttached(w) == IF Dgram THEN FiltersUdpAttached(w) ELSE AnyAttached(w.ef)

\* if ((cfi_flags & CFIF_CLOSE_WAIT) && cfil_filters_attached(so) == 0)
\*     wakeup(cfil_info): the close-wait sleeper becomes runnable.
WakeIfDetached(w) ==
    IF "CLOSE_WAIT" \in w.fl /\ ~FiltersAttached(w) THEN [w EXCEPT !.woken = TRUE]
    ELSE w

-----------------------------------------------------------------------------
(***************************************************************************)
(* cfil_data_service_ctl_q(), first loop: move every span that can fully  *)
(* pass from the ctl queue to the pending queue, raising cfe_peeked over   *)
(* what passes; stop at a span that only partially passes.                 *)
(***************************************************************************)
RECURSIVE PassLoop(_, _, _)
PassLoop(w, d, u) ==
    LET Q == w.ctl[d][u]
        po == w.pass[d][u]
    IN  IF QEmpty(Q) \/ Q.start >= po THEN w
        ELSE LET m == QFirst(Q)
                 copylen == IF Q.start + m.len <= po THEN m.len ELSE po - Q.start
                 w1 == [w EXCEPT !.peeked[d][u] = MaxOf(@, Q.start + copylen)]
             IN  IF copylen < m.len THEN w1
                 ELSE PassLoop([w1 EXCEPT !.ctl[d][u] = QRemoveFirst(Q),
                                          !.pend[d][u] = QEnqueue(@, m)], d, u)

(***************************************************************************)
(* cfil_data_service_ctl_q(), second loop: walk the ctl queue from         *)
(* q_start and show the agent the not yet peeked bytes below the peek      *)
(* offset; stop on a dispatch error (data stays in ctl_q) or on a span     *)
(* that could not be shown in full.                                        *)
(***************************************************************************)
RECURSIVE PeekLoop(_, _, _, _, _, _), PeekShown(_, _, _, _, _, _, _, _, _)
PeekLoop(w, d, u, i, cur, memfail) ==
    LET Q == w.ctl[d][u] IN
    IF i > Len(Q.q) \/ cur >= w.peek[d][u] THEN Result(w, OK)
    ELSE LET m == Q.q[i] IN
         IF cur + m.len <= w.peeked[d][u]
         THEN PeekLoop(w, d, u, i + 1, cur + m.len, memfail)
         ELSE LET coff == w.peeked[d][u] - cur
                  clen == IF cur + m.len > w.peek[d][u]
                          THEN w.peek[d][u] - (cur + coff) ELSE m.len - coff
              IN  IF clen = 0 THEN Result(w, OK)
                  ELSE PeekShown(DispatchData(w, d, u, m, coff, clen, memfail),
                                 d, u, i, cur, m.len, coff, clen, memfail)

\* After the data event r for clen bytes at coff of an mlen-byte span: on
\* success raise cfe_peeked and go on unless the span was cut short.
PeekShown(r, d, u, i, cur, mlen, coff, clen, memfail) ==
    IF r.err # OK THEN r
    ELSE LET w2 == [r.w EXCEPT !.peeked[d][u] = @ + clen] IN
         IF clen + coff < mlen THEN Result(w2, OK)
         ELSE PeekLoop(w2, d, u, i + 1, cur + mlen, memfail)

(***************************************************************************)
(* The mutually recursive servicing of one entry and of the entries after *)
(* it in the chain.                                                        *)
(***************************************************************************)
RECURSIVE ServiceCtlQ(_, _, _, _), AttachThen(_, _, _, _, _, _),
          CtlQBody(_, _, _, _), CtlQDone(_, _, _),
          ServicePending(_, _, _, _), ChainCtlQ(_, _, _, _),
          ChainCtlQThen(_, _, _, _), PendingLoop(_, _, _, _, _, _, _),
          PendingThen(_, _, _, _, _, _, _), ChainFilters(_, _, _, _, _, _),
          ChainFiltersThen(_, _, _, _, _), DataFilter(_, _, _, _, _)

\* cfil_data_service_ctl_q(): send the attach event if not yet done, or wait
\* for the agent's first action (CFEF_DATA_START); then pass, peek, service
\* the pending queue and send a deferred disconnect event.
ServiceCtlQ(w, d, u, memfail) ==
    LET sent == "SENT_SOCK_ATTACHED" \in w.ef[u] IN
    AttachThen(IF sent THEN Result(w, OK) ELSE DispatchAttach(w, u, memfail),
               w, d, u, sent, memfail)

\* After the attach event a (if one was due): flow control and memory
\* shortage end the servicing without an error.
AttachThen(a, w, d, u, sent, memfail) ==
    IF ~sent /\ a.err # OK
    THEN Result(a.w, IF a.err \in {ENOBUFS, ENOMEM} THEN OK ELSE a.err)
    ELSE IF sent /\ "DATA_START" \notin w.ef[u] THEN Result(w, OK)
    ELSE CtlQBody(a.w, d, u, memfail)

CtlQBody(w, d, u, memfail) ==
    LET w1 == PassLoop(w, d, u) IN
    CtlQDone(ServicePending(PeekLoop(w1, d, u, 1, w1.ctl[d][u].start, memfail).w,
                            d, u, memfail), d, u)

\* The tail of cfil_data_service_ctl_q(): a disconnect event held back
\* while data was queued is sent once the servicing succeeded.
CtlQDone(r, d, u) ==
    IF r.err = OK /\ (IF d = "out" THEN "SHUT_WR" ELSE "SHUT_RD") \in r.w.fl
                 /\ SentDisconnect(d) \notin r.w.ef[u]
    THEN Result(DispatchDisconnect(r.w, d, u).w, OK)
    ELSE r

\* cfil_service_pending_queue(): pass on to the next entries (or to the
\* inject queue) every whole span below the pass offset; with an empty
\* pending queue, service the ctl queues of the next entries instead.
ServicePending(w, d, u, memfail) ==
    LET P == w.pend[d][u] IN
    IF QEmpty(P) THEN ChainCtlQ(w, d, After(u), memfail)
    ELSE PendingLoop(w, d, u, w.pass[d][u] - P.start, 0, OK, memfail)

ChainCtlQ(w, d, vs, memfail) ==
    IF vs = << >> THEN Result(w, OK)
    ELSE ChainCtlQThen(ServiceCtlQ(w, d, Head(vs), memfail), d, vs, memfail)

ChainCtlQThen(r, d, vs, memfail) ==
    IF r.err # OK THEN r ELSE ChainCtlQ(r.w, d, Tail(vs), memfail)

PendingLoop(w, d, u, passlen, curlen, err, memfail) ==
    LET P == w.pend[d][u] IN
    IF QEmpty(P) \/ curlen + QFirst(P).len > passlen THEN Result(w, err)
    ELSE PendingThen(ChainFilters([w EXCEPT !.pend[d][u] = QRemoveFirst(P)],
                                  d, After(u), QFirst(P), err, memfail),
                     d, u, QFirst(P), passlen, curlen, memfail)

\* A span no later entry claimed (r.err = OK) goes to the inject queue.
PendingThen(r, d, u, m, passlen, curlen, memfail) ==
    PendingLoop(IF r.err = OK THEN [r.w EXCEPT !.inj[d] = QEnqueue(@, m)] ELSE r.w,
                d, u, passlen, curlen + m.len, r.err, memfail)

\* The for-loop over the next entries: the error of the previous span is
\* kept when there is no next entry.
ChainFilters(w, d, vs, m, err, memfail) ==
    IF vs = << >> THEN Result(w, err)
    ELSE ChainFiltersThen(DataFilter(w, d, Head(vs), m, memfail), d, vs, m, memfail)

ChainFiltersThen(r, d, vs, m, memfail) ==
    IF r.err # OK THEN r ELSE ChainFilters(r.w, d, Tail(vs), m, r.err, memfail)

\* cfil_data_filter(): an attached entry takes the span into its ctl queue
\* and services it; the span now belongs to the filter (EJUSTRETURN).
DataFilter(w, d, v, m, memfail) ==
    IF ~filter[v] THEN Result(w, OK)
    ELSE Result(ServiceCtlQ([w EXCEPT !.ctl[d][v] = QEnqueue(@, m)],
                            d, v, memfail).w, EJUSTRETURN)
-----------------------------------------------------------------------------
(***************************************************************************)
(* The socket side of the flow.                                            *)
(***************************************************************************)

\* cfil_update_entry_offsets(): the fast path, every attached entry lets
\* len bytes go by without queueing them.
UpdateEntryOffsets(w, d, len) ==
    [w EXCEPT
       !.ctl[d] = [u \in Units |-> IF filter[u]
                     THEN [@[u] EXCEPT !.start = @ + len, !.end = @ + len]
                     ELSE @[u]],
       !.pass[d] = [u \in Units |-> IF filter[u]
                      THEN MaxOf(@[u], w.ctl[d][u].start + len) ELSE @[u]],
       !.peeked[d] = [u \in Units |-> IF filter[u]
                        THEN w.ctl[d][u].start + len ELSE @[u]],
       !.peek[d] = [u \in Units |-> IF filter[u]
                      THEN MaxOf(@[u], MaxOf(w.pass[d][u], w.ctl[d][u].start + len))
                      ELSE @[u]],
       !.pend[d] = [u \in Units |-> IF filter[u]
                      THEN [@[u] EXCEPT !.start = @ + len, !.end = @ + len]
                      ELSE @[u]]]

\* A span nobody claimed leaves the pending window and the mbuf counts at
\* once.
DataCommonDone(r, d, m) ==
    IF r.err = OK
    THEN [r.w EXCEPT !.pfirst[d] = @ + m.len, !.handed[d] = Append(@, m),
                     !.mbcnt[d] = @ - m.len, !.mbnum[d] = @ - 1]
    ELSE r.w

\* The NEED_DGRAM_FLOW_TRACKING check of cfil_data_common(): a UDP flow
\* now holding more mbufs or mbuf bytes than allowed drops the datagram.
OverGcLimit(w, d) ==
    Dgram /\ (w.mbnum[d] > GcMbufNumMax \/ w.mbcnt[d] > GcMbufCntMax)

\* Mutation: the tail drop forgets to take the mbuf counts back.
TailDropNoRestore(w, d, m) == [w EXCEPT !.tailDrop[d] = @ + 1]

\* The tail drop counts itself and takes the mbuf counts back, returning
\* EPIPE; cfi_pending_last keeps the dropped datagram's length.
TailDrop(w, d, m) ==
    [w EXCEPT !.tailDrop[d] = @ + 1, !.mbcnt[d] = @ - m.len, !.mbnum[d] = @ - 1]

\* Mutation: the fast-path test looks at where the span starts, not where
\* it ends, so a span crossing cfi_pass_offset goes by unfiltered.
DataCommonCountedStart(w, d, m, memfail) ==
    LET w1 == [w EXCEPT !.accepted[d] = Append(@, m)] IN
    IF OverGcLimit(w, d) THEN TailDrop(w, d, m)
    ELSE DataCommonDone(IF m.off < w1.cfipass[d]
                        THEN Result(UpdateEntryOffsets(w1, d, m.len), OK)
                        ELSE ChainFilters(w1, d, Order, m, OK, memfail), d, m)

\* The span, counted, either passes at once (below cfi_pass_offset) or is
\* given to the first attached entry of the chain; if no entry claims it,
\* it passes.
DataCommonCounted(w, d, m, memfail) ==
    LET w1 == [w EXCEPT !.accepted[d] = Append(@, m)] IN
    IF OverGcLimit(w, d) THEN TailDrop(w, d, m)
    ELSE DataCommonDone(IF w1.plast[d] <= w1.cfipass[d]
                        THEN Result(UpdateEntryOffsets(w1, d, m.len), OK)
                        ELSE ChainFilters(w1, d, Order, m, OK, memfail), d, m)

\* cfil_data_common(): account for the span in the pending window and in
\* cfi_pending_mbcnt/mbnum, then filter it.
DataCommon(w, d, len, memfail) ==
    DataCommonCounted([w EXCEPT !.plast[d] = @ + len, !.mbcnt[d] = @ + len,
                                !.mbnum[d] = @ + 1],
                      d, [off |-> w.plast[d], len |-> len], memfail)

\* cfil_sock_data_pending(&so->so_snd): the pending window, which TCP caps
\* by cfi_pending_mbcnt and cfil_sock_udp_data_pending() raises to it,
\* summed over the flows still linked to the socket.
TcpDataPending(w, d, p) == IF p > w.mbcnt[d] THEN w.mbcnt[d] ELSE p

UdpDataPending(w, d, p) == IF linked THEN MaxOf(p, w.mbcnt[d]) ELSE 0

\* cfil_sock_data_pending() of so_snd (d = "out") or so_rcv (d = "in").
DataPending(w, d) ==
    IF Dgram THEN UdpDataPending(w, d, w.plast[d] - w.pfirst[d])
    ELSE TcpDataPending(w, d, w.plast[d] - w.pfirst[d])

\* cfil_sock_is_dead() (from flow divert) and cfil_sock_tcp_add_time_wait()
\* (from tcp_timer.c): with data pending on either socket buffer the step
\* is delayed by a CFIF_SO_DELAYED_* flag, else it is taken (in_pcbdetach,
\* add_to_time_wait_now) and the flag cleared.
AnyDataPending(w) == DataPending(w, "out") # 0 \/ DataPending(w, "in") # 0

DelayOrTake(w, flag, done) ==
    IF AnyDataPending(w) THEN [w EXCEPT !.fl = @ \cup {flag}]
    ELSE [w EXCEPT !.fl = @ \ {flag}, !.sock = @ \cup {done}]

IsDead(w) == DelayOrTake(w, "SO_DELAYED_DEAD", "DEAD")

TcpAddTimeWait(w) == DelayOrTake(w, "SO_DELAYED_TCP_TIME_WAIT", "TIME_WAIT")

\* Mutation: the delayed steps are never retried.
DelayedRetryNever(w) == w

\* The very end of cfil_service_inject_queue(): a delayed dead marking and
\* a delayed time wait are tried again.
DeadRetry(w) == IF "SO_DELAYED_DEAD" \in w.fl THEN IsDead(w) ELSE w

TimeWaitRetry(w) ==
    IF "SO_DELAYED_TCP_TIME_WAIT" \in w.fl THEN TcpAddTimeWait(w) ELSE w

DelayedRetry(w) == TimeWaitRetry(DeadRetry(w))

\* soshutdownlock_final(so, SHUT_WR) once cfil_sock_data_pending(&so_snd)
\* is 0: the delayed write shutdown takes effect.
ShutWrFinal(w) ==
    IF DataPending(w, "out") = 0
    THEN [w EXCEPT !.sock = @ \cup {"CANTSENDMORE"}] ELSE w

\* The tail of cfil_service_inject_queue() once the queue was walked: with
\* CFIF_SHUT_WR the disconnect events are retried and the delayed write
\* shutdown completed, a close-wait sleeper is woken, and a delayed dead
\* marking or time wait is tried again.
InjectTail(w) ==
    DelayedRetry(WakeIfDetached(IF "SHUT_WR" \in w.fl
                                THEN ShutWrFinal(SockNotifyShutdown(w, "SHUT_WR")) ELSE w))

\* sosend_reinject() fails on the rfail-th queued span (outgoing only; an
\* rfail of 0 or past the end of the queue means every span goes through).
ReinjectFails(Q, d, rfail) == d = "out" /\ rfail \in 1..Len(Q.q)

\* The number of spans the loop removes: up to and including the failed one.
SpansServed(Q, d, rfail) == IF ReinjectFails(Q, d, rfail) THEN rfail ELSE Len(Q.q)

\* After the loop, a failure sets CFIF_RETRY_INJECT_OUT.
MarkRetry(w, d, failed) ==
    IF failed THEN [w EXCEPT !.fl = @ \cup {RetryFlag(d)}, !.reinjFails = @ + 1] ELSE w

\* The first k spans leave the queue and the pending window (mbcnt, mbnum)
\* one by one; each is handed to the socket, the failed one freed by
\* sosend_reinject() and so consumed as well.
InjectSpansTo(w, d, Q, R, k) ==
    [w EXCEPT !.inj[d] = R,
              !.pfirst[d] = @ + (R.start - Q.start),
              !.mbcnt[d] = @ - (R.start - Q.start), !.mbnum[d] = @ - k,
              !.handed[d] = @ \o SubSeq(Q.q, 1, k)]

InjectSpans(w, d, Q, k) == InjectSpansTo(w, d, Q, QRemoveN(Q, k), k)

\* Mutation: a failed re-injection leaves the span queued but still
\* advances cfi_pending_first over it.
InjectSpansKeepFailed(w, d, Q, k, failed) ==
    [InjectSpans(w, d, Q, k) EXCEPT !.inj[d] = QRemoveN(Q, IF failed THEN k - 1 ELSE k)]

ServiceInjectKeepsFailed(w, d, rfail) ==
    LET w1 == [w EXCEPT !.fl = @ \ {RetryFlag(d)}]
    IN  IF defunct THEN w
        ELSE IF QEmpty(w1.inj[d]) THEN w1
        ELSE InjectTail(MarkRetry(InjectSpansKeepFailed(w1, d, w1.inj[d],
                                      SpansServed(w1.inj[d], d, rfail),
                                      ReinjectFails(w1.inj[d], d, rfail)),
                                  d, ReinjectFails(w1.inj[d], d, rfail)))

\* Mutation: the pending window is advanced by the first span only when
\* the whole queue goes through.
InjectSpansOneCursor(w, d, Q, k, failed) ==
    IF failed THEN InjectSpans(w, d, Q, k)
    ELSE [InjectSpans(w, d, Q, k) EXCEPT !.pfirst[d] = w.pfirst[d] + QFirst(Q).len]

ServiceInjectOneCursor(w, d, rfail) ==
    LET w1 == [w EXCEPT !.fl = @ \ {RetryFlag(d)}]
    IN  IF defunct THEN w
        ELSE IF QEmpty(w1.inj[d]) THEN w1
        ELSE InjectTail(MarkRetry(InjectSpansOneCursor(w1, d, w1.inj[d],
                                      SpansServed(w1.inj[d], d, rfail),
                                      ReinjectFails(w1.inj[d], d, rfail)),
                                  d, ReinjectFails(w1.inj[d], d, rfail)))

\* Mutation: the shutdown/close-wait tail is left out.
ServiceInjectNoTail(w, d, rfail) ==
    LET w1 == [w EXCEPT !.fl = @ \ {RetryFlag(d)}]
    IN  IF defunct THEN w
        ELSE IF QEmpty(w1.inj[d]) THEN w1
        ELSE MarkRetry(InjectSpans(w1, d, w1.inj[d], SpansServed(w1.inj[d], d, rfail)),
                       d, ReinjectFails(w1.inj[d], d, rfail))

\* cfil_service_inject_queue(): hand the passed spans back to the socket.
\* Each span leaves the queue and the pending window before it is
\* re-injected; an outgoing sosend_reinject() failure stops the loop and
\* sets CFIF_RETRY_INJECT_OUT.  Inbound sbappend cannot fail.  The early
\* returns (defunct socket, empty queue) skip the tail.
ServiceInject(w, d, rfail) ==
    LET w1 == [w EXCEPT !.fl = @ \ {RetryFlag(d)}]
    IN  IF defunct THEN w
        ELSE IF QEmpty(w1.inj[d]) THEN w1
        ELSE InjectTail(MarkRetry(InjectSpans(w1, d, w1.inj[d],
                                              SpansServed(w1.inj[d], d, rfail)),
                                  d, ReinjectFails(w1.inj[d], d, rfail)))

\* Mutation: the largest pass offset is taken instead of the smallest.
SetSocketPassOffsetMax(w, d) ==
    LET att == {u \in Units : filter[u]}
        most == IF att = {} THEN 0
                ELSE CHOOSE p \in {w.pass[d][u] : u \in att} :
                       \A v \in att : p >= w.pass[d][v]
    IN  IF w.plast[d] - w.pfirst[d] = 0 THEN [w EXCEPT !.cfipass[d] = most]
        ELSE w

\* cfil_set_socket_pass_offset(): with nothing pending, the socket-level
\* pass offset becomes the smallest pass offset of the attached entries.
SetSocketPassOffset(w, d) ==
    LET att == {u \in Units : filter[u]}
        least == IF att = {} THEN 0
                 ELSE CHOOSE p \in {w.pass[d][u] : u \in att} :
                        \A v \in att : p <= w.pass[d][v]
    IN  IF w.plast[d] - w.pfirst[d] = 0 THEN [w EXCEPT !.cfipass[d] = least]
        ELSE w

-----------------------------------------------------------------------------
(***************************************************************************)
(* The verdict side.                                                       *)
(***************************************************************************)

\* The end of cfil_update_data_offsets(): an entry that passed everything
\* both ways, or whose queues are empty once the socket waits to close,
\* is effectively detached.
\* Mutation: detaching does not wake the close-wait sleeper.
DetachCheckNoWakeup(w, u) ==
    IF \/ w.pass["out"][u] = CFM_MAX_OFFSET /\ w.pass["in"][u] = CFM_MAX_OFFSET
       \/ "CLOSE_WAIT" \in w.fl /\ QEmpty(w.ctl["out"][u]) /\ QEmpty(w.ctl["in"][u])
    THEN [w EXCEPT !.ef[u] = @ \cup {"CFIL_DETACHED"}]
    ELSE w

\* ... and wakes the close-wait sleeper if it was the last attached one.
DetachCheck(w, u) ==
    IF \/ w.pass["out"][u] = CFM_MAX_OFFSET /\ w.pass["in"][u] = CFM_MAX_OFFSET
       \/ "CLOSE_WAIT" \in w.fl /\ QEmpty(w.ctl["out"][u]) /\ QEmpty(w.ctl["in"][u])
    THEN WakeIfDetached([w EXCEPT !.ef[u] = @ \cup {"CFIL_DETACHED"}])
    ELSE w

\* The result of the servicing s: EJUSTRETURN when an offset moved and the
\* servicing succeeded, then the detach check.
OffsetsServiced(s, moved, u) ==
    Result(DetachCheck(s.w, u), IF moved /\ s.err = OK THEN EJUSTRETURN ELSE s.err)

\* Mutation: raising the pass offset does not raise the peek offset.
UpdateDataOffsetsNoPeekRaise(w, d, u, po, pk, memfail) ==
    LET up1 == po > w.pass[d][u]
        w1 == IF up1 THEN [w EXCEPT !.pass[d][u] = po,
                                    !.granted[d][u] = MaxOf(@, po)] ELSE w
        up2 == pk > w1.pass[d][u] /\ pk > w1.peek[d][u]
        w2 == IF up2 THEN [w1 EXCEPT !.peek[d][u] = pk] ELSE w1
    IN  IF "DROP" \in w.fl THEN Result(w, EPIPE)
        ELSE OffsetsServiced(IF up1 \/ up2 THEN ServiceCtlQ(w2, d, u, memfail)
                             ELSE Result(w2, OK), up1 \/ up2, u)

\* Mutation: the pass offset is taken from the message even when lower.
UpdateDataOffsetsNoCompare(w, d, u, po, pk, memfail) ==
    LET up1 == po # w.pass[d][u]
        w1 == IF up1 THEN [w EXCEPT !.pass[d][u] = po, !.peek[d][u] = MaxOf(@, po),
                                    !.granted[d][u] = MaxOf(@, po)]
              ELSE w
        up2 == pk > w1.pass[d][u] /\ pk > w1.peek[d][u]
        w2 == IF up2 THEN [w1 EXCEPT !.peek[d][u] = pk] ELSE w1
    IN  IF "DROP" \in w.fl THEN Result(w, EPIPE)
        ELSE OffsetsServiced(IF up1 \/ up2 THEN ServiceCtlQ(w2, d, u, memfail)
                             ELSE Result(w2, OK), up1 \/ up2, u)

\* cfil_update_data_offsets(): record the agent's new offsets and, if one
\* moved, service the entry's ctl queue.
UpdateDataOffsets(w, d, u, po, pk, memfail) ==
    LET up1 == po > w.pass[d][u]
        w1 == IF up1 THEN [w EXCEPT !.pass[d][u] = po, !.peek[d][u] = MaxOf(@, po),
                                    !.granted[d][u] = MaxOf(@, po)]
              ELSE w
        up2 == pk > w1.pass[d][u] /\ pk > w1.peek[d][u]
        w2 == IF up2 THEN [w1 EXCEPT !.peek[d][u] = pk] ELSE w1
    IN  IF "DROP" \in w.fl THEN Result(w, EPIPE)
        ELSE OffsetsServiced(IF up1 \/ up2 THEN ServiceCtlQ(w2, d, u, memfail)
                             ELSE Result(w2, OK), up1 \/ up2, u)

PassNoInjectThen(r, d) == Result(SetSocketPassOffset(r.w, d), r.err)

\* Mutation: the inject queue is not serviced after a verdict.
ActionDataPassNoInject(w, d, u, po, pk, memfail, rfail) ==
    IF "DROP" \in w.fl THEN Result(w, EPIPE)
    ELSE PassNoInjectThen(UpdateDataOffsets(w, d, u, po, pk, memfail), d)

\* After the offsets were updated (r): re-inject and recompute.
PassThen(r, d, rfail) ==
    Result(SetSocketPassOffset(ServiceInject(r.w, d, rfail), d), r.err)

\* cfil_action_data_pass(): cfil_acquire_sockbuf() refuses a dropped flow;
\* otherwise update the offsets, re-inject and recompute the socket pass
\* offset.
ActionDataPass(w, d, u, po, pk, memfail, rfail) ==
    IF "DROP" \in w.fl THEN Result(w, EPIPE)
    ELSE PassThen(UpdateDataOffsets(w, d, u, po, pk, memfail), d, rfail)

\* The CFM_OP_DATA_UPDATE case of cfil_ctl_send(): cfil_action_data_pass()
\* for each direction whose offsets are not both zero, outgoing first; an
\* error other than EJUSTRETURN skips the incoming direction.
RECURSIVE DataUpdate(_, _, _, _, _, _), DataUpdateThen(_, _, _, _, _, _)
DataUpdate(w, u, v, ds, mf, rf) ==
    IF ds = << >> THEN w
    ELSE DataUpdateThen(IF v[Head(ds)].pass # 0 \/ v[Head(ds)].peek # 0
                        THEN ActionDataPass(w, Head(ds), u, v[Head(ds)].pass,
                                            v[Head(ds)].peek, mf, rf)
                        ELSE Result(w, OK), u, v, ds, mf, rf)

DataUpdateThen(r, u, v, ds, mf, rf) ==
    IF r.err \in {OK, EJUSTRETURN} THEN DataUpdate(r.w, u, v, Tail(ds), mf, rf)
    ELSE r.w

\* cfil_flush_queues(): drain every queue of both directions; the pending
\* window cursors are left as they are.
FlushQueues(w) ==
    [w EXCEPT
       !.ctl = [d \in Dirs |-> [u \in Units |-> QDrain(@[d][u])]],
       !.pend = [d \in Dirs |-> [u \in Units |-> QDrain(@[d][u])]],
       !.inj = [d \in Dirs |-> QDrain(@[d])],
       !.flushed = [d \in Dirs |-> @[d] \o HeldIn(w, d)]]
-----------------------------------------------------------------------------
(***************************************************************************)
(* Shutdown and close.                                                     *)
(***************************************************************************)
ShutdownHow == {"SHUT_RD", "SHUT_WR", "SHUT_RDWR"}

\* The result of cfil_sock_shutdown(): the state, the error and *how, which
\* it may narrow from SHUT_RDWR to SHUT_RD.
ShutResult(w, err, how) == [w |-> w, err |-> err, how |-> how]

\* The read side: refused if already shut down, else flagged and notified.
ShutRd(w, how) ==
    IF how = "SHUT_WR" THEN ShutResult(w, OK, how)
    ELSE IF "SHUT_RD" \in w.fl THEN ShutResult(w, ENOTCONN, how)
    ELSE ShutResult(NotifyShutdown([w EXCEPT !.fl = @ \cup {"SHUT_RD"}], "SHUT_RD"),
                    OK, how)

\* With outgoing data pending the write shutdown is delayed: SHUT_WR alone
\* returns EJUSTRETURN, SHUT_RDWR goes on as SHUT_RD.
ShutWrDelay(w, how) ==
    IF DataPending(w, "out") = 0 THEN ShutResult(w, OK, how)
    ELSE IF how = "SHUT_WR" THEN ShutResult(w, EJUSTRETURN, how)
    ELSE ShutResult(w, OK, "SHUT_RD")

\* The write side, after the read side r (whose changes stay even when
\* this one fails).
ShutWr(r) ==
    IF r.err # OK \/ r.how = "SHUT_RD" THEN r
    ELSE IF "SHUT_WR" \in r.w.fl THEN ShutResult(r.w, ENOTCONN, r.how)
    ELSE ShutWrDelay(NotifyShutdown([r.w EXCEPT !.fl = @ \cup {"SHUT_WR"}],
                                    "SHUT_WR"), r.how)

\* cfil_sock_udp_notify_shutdown() over the socket's one flow: a dropped
\* flow counts as done without being told, one already shut this way is
\* skipped, any other is marked with flag and its filters are told.  With
\* no flow done (none linked, or already shut) the result is ENOTCONN.
UdpNotifyShutdown(w, how, flag) ==
    IF ~linked THEN Result(w, ENOTCONN)
    ELSE IF "DROP" \in w.fl THEN Result(w, OK)
    ELSE IF flag \in w.fl THEN Result(w, ENOTCONN)
    ELSE Result(NotifyShutdown([w EXCEPT !.fl = @ \cup {flag}], how), OK)

UdpNotified(r, how) == ShutResult(r.w, r.err, how)

\* cfil_sock_udp_shutdown(): the read side, then the write side, each
\* through cfil_sock_udp_notify_shutdown(); a dropped flow is not exempt
\* from the pending-data delay.
UdpShutRd(w, how) ==
    IF how = "SHUT_WR" THEN ShutResult(w, OK, how)
    ELSE UdpNotified(UdpNotifyShutdown(w, "SHUT_RD", "SHUT_RD"), how)

UdpShutWrThen(r, how) ==
    IF r.err # OK THEN ShutResult(r.w, r.err, how) ELSE ShutWrDelay(r.w, how)

UdpShutWr(r) ==
    IF r.err # OK \/ r.how = "SHUT_RD" THEN r
    ELSE UdpShutWrThen(UdpNotifyShutdown(r.w, "SHUT_WR", "SHUT_WR"), r.how)

SideAlreadyShut(w, how) ==
    \/ how # "SHUT_WR" /\ "CANTRCVMORE" \in w.sock
    \/ how # "SHUT_RD" /\ "CANTSENDMORE" \in w.sock

\* cfil_sock_shutdown(): refused for a side the socket already shut down;
\* a dropped TCP flow is left to the socket layer; a datagram socket goes
\* to cfil_sock_udp_shutdown().
CfilSockShutdown(w, how) ==
    IF SideAlreadyShut(w, how) THEN ShutResult(w, ENOTCONN, how)
    ELSE IF Dgram THEN UdpShutWr(UdpShutRd(w, how))
    ELSE IF "DROP" \in w.fl THEN ShutResult(w, OK, how)
    ELSE ShutWr(ShutRd(w, how))

\* The caller, soshutdownlock(), shuts the sides *how names when the
\* filter returned 0 and does nothing on an error or EJUSTRETURN.
SoShutdown(r) ==
    IF r.err # OK THEN r.w
    ELSE [r.w EXCEPT !.sock = @ \cup
            (IF r.how # "SHUT_WR" THEN {"CANTRCVMORE"} ELSE {})
            \cup (IF r.how # "SHUT_RD" THEN {"CANTSENDMORE"} ELSE {})]

\* One turn of the while loop of cfil_sock_close_wait(): with a filter
\* still attached, notify SHUT_RDWR and, if one still is, set
\* CFIF_CLOSE_WAIT and msleep() (which drops the socket lock atomically).
\* The UDP sleeper (cfil_filters_udp_attached(so, TRUE)) sleeps for the
\* first attached entry in kcunit order.
WaitEntry(w) ==
    IF ~Dgram THEN 0
    ELSE CHOOSE u \in Units : /\ EntryAttached(w.ef, u)
                              /\ \A v \in Units : v < u => ~EntryAttached(w.ef, v)

SleepIfAttached(w) ==
    IF ~FiltersAttached(w) THEN [w |-> w, phase |-> "closing", on |-> 0]
    ELSE [w |-> [w EXCEPT !.fl = @ \cup {"CLOSE_WAIT"}, !.woken = FALSE],
          phase |-> "sleeping", on |-> WaitEntry(w)]

CloseWaitTurn(w) ==
    IF ~FiltersAttached(w) THEN [w |-> w, phase |-> "closing", on |-> 0]
    ELSE SleepIfAttached(NotifyShutdown(w, "SHUT_RDWR"))

\* A UDP flow garbage-collected while the closing thread slept: the
\* sleeper finds its cfil_info no longer in the flow database.
FlowGone == Dgram /\ ~linked

\* The UDP sleeper's timeout forces the entry it slept for detached.
ForceDetach(w) ==
    IF Dgram THEN [w EXCEPT !.ef[waitOn] = @ \cup {"CFIL_DETACHED"}] ELSE w

\* The kcunit loop of cfil_sock_is_closed() over cfil_dispatch_closed_event().
RECURSIVE ClosedEvents(_, _)
ClosedEvents(w, ks) ==
    IF ks = << >> THEN w
    ELSE ClosedEvents(DispatchClosed(w, Head(ks)).w, Tail(ks))

\* "Last chance to push passed data out": cfil_acquire_sockbuf() fails
\* with EPIPE on a dropped flow, else the outgoing inject queue is serviced.
LastInject(w, rfail) ==
    IF "DROP" \in w.fl THEN w ELSE ServiceInject(w, "out", rfail)

\* cfil_sock_is_closed(): closed events, a last re-injection, then
\* CFIF_SOCK_CLOSED and cfil_flush_queues().
SockClosed(w, rfail) ==
    FlushQueues([LastInject(ClosedEvents(w, Kcunits), rfail)
                   EXCEPT !.fl = @ \cup {"SOCK_CLOSED"}])

\* Mutation: the closing socket's cfil_info is used without the flow lookup.
UdpIsClosedNoLookup(w, rfail) == SockClosed(w, rfail)

\* cfil_sock_udp_is_closed_per_flow() for the flows in the flow database.
UdpIsClosed(w, rfail) == IF linked THEN SockClosed(w, rfail) ELSE w
-----------------------------------------------------------------------------
(***************************************************************************)
(* Initial state: cfil_sock_attach() has allocated the cfil_info, attached *)
(* every unit (cfil_info_attach_unit) and sent the attach event to the     *)
(* first entry of the chain, which may have failed with ENOBUFS/ENOMEM.    *)
(* The agents' sockets may already hold messages of other flows, and a    *)
(* filter is flow controlled only if its socket filled up.                *)
(***************************************************************************)
MemFail == IF AllocMayFail THEN BOOLEAN ELSE {FALSE}
ReinjFail == IF reinjFails < MaxReinjectFail THEN {0} \cup ReinjectFailAt ELSE {0}
ZeroQ == [d \in Dirs |-> [u \in Units |-> QInit]]
ZeroOff == [d \in Dirs |-> [u \in Units |-> 0]]

Attached(ib, cf) ==
    [ctl |-> ZeroQ, pend |-> ZeroQ, pass |-> ZeroOff, peek |-> ZeroOff,
     peeked |-> ZeroOff, inj |-> [d \in Dirs |-> QInit],
     pfirst |-> [d \in Dirs |-> 0], plast |-> [d \in Dirs |-> 0],
     cfipass |-> [d \in Dirs |-> 0], ef |-> [u \in Units |-> {}],
     cff |-> cf, inbox |-> ib, fl |-> {},
     accepted |-> [d \in Dirs |-> << >>], handed |-> [d \in Dirs |-> << >>],
     flushed |-> [d \in Dirs |-> << >>],
     evlog |-> [u \in Units |-> [d \in Dirs |-> << >>]], granted |-> ZeroOff,
     reinjFails |-> 0, sock |-> {}, woken |-> FALSE,
     mbcnt |-> [d \in Dirs |-> 0], mbnum |-> [d \in Dirs |-> 0],
     tailDrop |-> [d \in Dirs |-> 0]]

IsState(w) ==
    /\ ctl = w.ctl /\ pend = w.pend /\ pass = w.pass /\ peek = w.peek
    /\ peeked = w.peeked /\ inj = w.inj /\ pfirst = w.pfirst
    /\ plast = w.plast /\ cfipass = w.cfipass /\ ef = w.ef /\ cff = w.cff
    /\ inbox = w.inbox /\ fl = w.fl /\ accepted = w.accepted
    /\ handed = w.handed /\ flushed = w.flushed /\ evlog = w.evlog
    /\ granted = w.granted
    /\ reinjFails = w.reinjFails /\ sock = w.sock /\ woken = w.woken
    /\ mbcnt = w.mbcnt /\ mbnum = w.mbnum /\ tailDrop = w.tailDrop

\* cfil_info_alloc() and cfil_info_attach_unit() for every unit, then the
\* attach event to the first entry of the chain, which may fail with
\* ENOBUFS/ENOMEM ("We can recover from flow control or out of memory").
FlowAttach(n, cf, mf) == DispatchAttach(Attached(n, cf), Order[1], mf).w

\* The agents' sockets may hold messages of other flows; a filter is flow
\* controlled only if its socket filled up.
InboxStates ==
    {ib \in [Units -> 0..InboxCap] \X [Units -> BOOLEAN] :
        \A u \in Units : ib[2][u] => ib[1][u] = InboxCap}

\* TCP: cfil_sock_attach() attaches the flow when the connection starts.
InitStream ==
    \E ib \in InboxStates, mf \in MemFail : IsState(FlowAttach(ib[1], ib[2], mf))

\* UDP: cfil_sock_udp_handle_data() creates the flow (through
\* cfil_sock_udp_get_info()) for its first datagram and then filters that
\* datagram with cfil_data_common(), under the same socket lock.
InitDgram ==
    \E ib \in InboxStates, mf, mf2 \in MemFail, d \in DataDirs, len \in Lens :
        IsState(DataCommon(FlowAttach(ib[1], ib[2], mf), d, len, mf2))

Init ==
    /\ filter = [u \in Units |-> TRUE]
    /\ defunct = FALSE
    /\ phase = "open" /\ waitOn = 0
    /\ linked = TRUE /\ freed = FALSE /\ idle = {}
    /\ sbLocked = FALSE /\ parked = << >>
    /\ IF Dgram THEN InitDgram ELSE InitStream

-----------------------------------------------------------------------------
(***************************************************************************)
(* References on the cfil_info (cfi_ref_count).                            *)
(***************************************************************************)

\* One reference for the flow's link from the socket (so_cfil, or the
\* soflow entry's feature context) and one for the sleeping verdict thread.
RefCount == (IF linked THEN 1 ELSE 0) + Len(parked)

\* Mutation: the release frees the cfil_info while one reference is left.
LastReferenceOffByOne(n) == n <= 1
\* Mutation: the result of os_ref_release() is ignored.
LastReferenceNever(n) == FALSE

\* CFIL_INFO_FREE(): os_ref_release() returned n, and 0 frees the cfil_info.
LastReference(n) == n = 0

\* cfil_info_free(): every entry leaves its filter and the inject, pending
\* and ctl queues of both directions are drained.
CfilInfoFree(w) == FlushQueues(w)

InfoRelease(w, n) == IF LastReference(n) THEN CfilInfoFree(w) ELSE w

\* The part of cfil_info_free() outside the threaded state: cfe_filter is
\* cleared for every entry.
Release(n) ==
    /\ freed' = LastReference(n)
    /\ filter' = IF LastReference(n) THEN [u \in Units |-> FALSE] ELSE filter

-----------------------------------------------------------------------------
(***************************************************************************)
(* Actions.                                                                *)
(***************************************************************************)

\* cfil_sock_data_out() / cfil_sock_data_in() -> cfil_data_common(): the
\* socket layer submits len bytes (refused with EPIPE once dropped).  The
\* application writes until it closes or the send side is shut down
\* (sosend() checks SS_CANTSENDMORE); TCP receives until the receive side
\* is shut down or the socket is closed.  A datagram after the flow was
\* garbage-collected gets a new cfil_info, which is another instance of
\* this model.
SockDataCommon(d, len) ==
    /\ "DROP" \notin fl /\ linked /\ plast[d] + len <= MaxBytes
    /\ \E mf \in MemFail : Apply(DataCommon(W, d, len, mf))
    /\ UNCHANGED <<filter, linked, freed, threadVars, defunct, phase, waitOn, idle>>

\* cfil_sock_data_out(), from sosend() with SB_LOCK of so_snd held by the
\* sending thread (it panics otherwise); a datagram goes through
\* cfil_sock_udp_handle_data(), which finds the linked flow.
SockDataOut(len) ==
    /\ "out" \in DataDirs
    /\ phase = "open" /\ "CANTSENDMORE" \notin sock
    /\ "app_send" \in Ops => sbLocked
    /\ "connect" \in Ops => "ISCONNECTED" \in sock
    /\ SockDataCommon("out", len)

\* cfil_sock_data_in(), from sbappend() of the protocol's input path.
SockDataIn(len) ==
    /\ "in" \in DataDirs
    /\ phase # "closed" /\ "CANTRCVMORE" \notin sock
    /\ SockDataCommon("in", len)

\* cfil_socket_from_sock_id(): a TCP socket is found while its inpcb is not
\* dead (cfil_sock_is_dead() detached it); for a datagram socket,
\* cfil_ctl_send() then looks the flow up in its flow database.
SocketFound == IF Dgram THEN linked ELSE "DEAD" \notin sock

\* cfil_ctl_send() finds the flow (the soflow lookup fails once it is
\* unlinked) and rejects, with EINVAL, a dropped flow, a detached entry or
\* a message before the attach event.
CtlSendAccepts(u) ==
    /\ SocketFound /\ "DROP" \notin fl /\ filter[u] /\ "SENT_SOCK_ATTACHED" \in ef[u]

\* cfil_sock_received_verdict(): a TCP flow (so_cfil set) records its first
\* verdict, and a connection cfil_sock_connected_pending_verdict() held
\* back is reported now with soisconnected().
SockReceivedVerdict(w) ==
    IF Dgram THEN w
    ELSE IF "SOCKET_CONNECTED" \in w.fl
    THEN [w EXCEPT !.fl = (@ \cup {"INITIAL_VERDICT"}) \ {"SOCKET_CONNECTED"},
                   !.sock = @ \cup {"ISCONNECTED"}]
    ELSE [w EXCEPT !.fl = @ \cup {"INITIAL_VERDICT"}]

\* CFEF_DATA_START, then cfil_sock_received_verdict().
VerdictReceived(w, u) == SockReceivedVerdict([w EXCEPT !.ef[u] = @ \cup {"DATA_START"}])

\* cfil_action_data_pass() is called for the outgoing side.
OutOffsets(v) == v["out"].pass # 0 \/ v["out"].peek # 0

\* cfil_ctl_send() with CFM_OP_DATA_UPDATE: offsets for the outgoing
\* direction, then (if that did not fail) for the incoming one.  Messages
\* for a dropped flow, a detached entry or before the attach event are
\* rejected with EINVAL and change nothing.
CtlSendUpdate(u, v) ==
    /\ CtlSendAccepts(u) /\ ~(sbLocked /\ OutOffsets(v))
    /\ \E mf \in MemFail, rf \in ReinjFail :
         Apply(DataUpdate(VerdictReceived(W, u), u, v, <<"out", "in">>, mf, rf))
    /\ UNCHANGED <<filter, linked, freed, threadVars, defunct, phase, waitOn>>
    /\ idle' = idle \ {u}

\* The same message while an application thread holds SB_LOCK of so_snd:
\* cfil_action_data_pass() for the outgoing side sleeps in
\* cfil_acquire_sockbuf(), which drops the socket lock; the thread keeps
\* the reference os_ref_retain_try() took.
CtlSendPark(u, v) ==
    /\ CtlSendAccepts(u) /\ sbLocked /\ OutOffsets(v) /\ parked = << >>
    /\ Apply(VerdictReceived(W, u))
    /\ parked' = <<[u |-> u, v |-> v]>>
    /\ UNCHANGED <<filter, linked, freed, sbLocked, defunct, phase, waitOn>>
    /\ idle' = idle \ {u}

\* sbunlock() woke the sleeper and it has the socket lock again: the rest of
\* the verdict runs on the cfil_info as it is now (cfil_acquire_sockbuf()
\* re-checks only CFIF_DROP), and CFIL_INFO_FREE() at "unlock" frees it if
\* the flow was unlinked meanwhile.
CtlSendResume ==
    /\ parked # << >> /\ ~sbLocked
    /\ \E mf \in MemFail, rf \in ReinjFail :
         Apply(InfoRelease(DataUpdate(W, parked[1].u, parked[1].v,
                                      <<"out", "in">>, mf, rf), RefCount - 1))
    /\ Release(RefCount - 1)
    /\ parked' = << >>
    /\ UNCHANGED <<linked, sbLocked, defunct, phase, waitOn, idle>>

\* cfil_ctl_send() with CFM_OP_DROP -> cfil_action_drop(): mark the flow
\* dropped, make the TCP socket defunct (not a datagram socket, whose
\* so_flow_db is set), detach the entry, flush all queues, and wake the
\* close-wait sleeper if no filter is attached any more; then
\* cfil_sock_received_verdict().
CtlSendDrop(u) ==
    /\ CtlSendAccepts(u) /\ ~sbLocked
    /\ Apply(SockReceivedVerdict(WakeIfDetached(FlushQueues([W EXCEPT
                 !.ef[u] = @ \cup {"DATA_START", "CFIL_DETACHED"},
                 !.fl = @ \cup {"DROP"}]))))
    /\ defunct' = ~Dgram
    /\ UNCHANGED <<filter, linked, freed, threadVars, phase, waitOn>>
    /\ idle' = idle \ {u}

\* The agent reads one message from its kernel-control socket, after which
\* the kernel calls cfil_ctl_rcvd(): it clears CFF_FLOW_CONTROLLED and then
\* looks for a flow-controlled entry to service, but its TAILQ_FOREACH
\* ends with entry == NULL every time, so the loop always breaks there.
CtlRcvd(u) ==
    /\ inbox[u] > 0
    /\ inbox' = [inbox EXCEPT ![u] = @ - 1]
    /\ cff' = [cff EXCEPT ![u] = FALSE]
    /\ UNCHANGED <<flowVars, ghostVars, lifeVars, threadVars>>

\* Events of the filter's other flows fill its socket; a dispatch of
\* theirs that finds it full raises CFF_FLOW_CONTROLLED for all flows.
OtherFlowEvent(u) ==
    /\ IF InboxFull(W, u)
       THEN ~cff[u] /\ cff' = [cff EXCEPT ![u] = TRUE] /\ UNCHANGED inbox
       ELSE inbox' = [inbox EXCEPT ![u] = @ + 1] /\ UNCHANGED cff
    /\ UNCHANGED <<flowVars, ghostVars, lifeVars, threadVars>>

\* cfil_sock_buf_update(): the socket buffer changed; retry a failed
\* re-injection (nothing to do unless CFIF_RETRY_INJECT_* is set).
SockBufUpdate(d) ==
    /\ RetryFlag(d) \in fl /\ linked /\ (d = "in" \/ ~sbLocked)
    /\ "DROP" \notin fl /\ phase # "closed"
    /\ \E rf \in ReinjFail : Apply(ServiceInject(W, d, rf))
    /\ UNCHANGED <<filter, linked, freed, threadVars, defunct, phase, waitOn, idle>>

\* shutdown(2): soshutdownlock() -> cfil_sock_shutdown(), then the socket
\* layer's own shutdown of the sides it was told to go on with.
SockShutdown(how) ==
    /\ "shutdown" \in Ops /\ phase = "open"
    /\ Apply(SoShutdown(CfilSockShutdown(W, how)))
    /\ UNCHANGED <<filter, linked, freed, threadVars, defunct, phase, waitOn, idle>>

CloseStep(r) == Apply(r.w) /\ phase' = r.phase /\ waitOn' = r.on

\* close(2): soclose() -> cfil_sock_close_wait(), up to its first msleep().
SockCloseWait ==
    /\ "close" \in Ops /\ phase = "open"
    /\ CloseStep(CloseWaitTurn(W))
    /\ UNCHANGED <<filter, linked, freed, threadVars, defunct, idle>>

\* msleep() returns 0 after a wakeup(cfil_info): clear CFIF_CLOSE_WAIT and
\* go round the loop again.
\* A UDP sleeper whose flow is gone stops waiting.
CloseWakeup ==
    /\ phase = "sleeping" /\ woken
    /\ CloseStep(IF FlowGone THEN [w |-> W, phase |-> "closing", on |-> 0]
                 ELSE CloseWaitTurn([W EXCEPT !.fl = @ \ {"CLOSE_WAIT"},
                                              !.woken = FALSE]))
    /\ UNCHANGED <<filter, linked, freed, threadVars, defunct, idle>>

\* msleep() returns EWOULDBLOCK after cfil_close_wait_timeout (or EINTR on
\* a signal): clear CFIF_CLOSE_WAIT and stop waiting; the UDP sleeper
\* also forces its entry detached, unless its flow is gone.
CloseTimeout ==
    /\ phase = "sleeping"
    /\ Apply(IF FlowGone THEN W
             ELSE ForceDetach([W EXCEPT !.fl = @ \ {"CLOSE_WAIT"}, !.woken = FALSE]))
    /\ phase' = "closing" /\ waitOn' = 0
    /\ UNCHANGED <<filter, linked, freed, threadVars, defunct, idle>>

\* cfil_ctl_disconnect() for this flow's entry: "Need to let data flow
\* immediately", then cfil_action_data_pass() with CFM_MAX_OFFSET for the
\* outgoing and then the incoming side (errors ignored).
CtlDisconnectPass(w, u, mf, rf) ==
    ActionDataPass(
        ActionDataPass([w EXCEPT !.ef[u] = @ \cup {"SENT_SOCK_ATTACHED", "DATA_START"}],
                       "out", u, CFM_MAX_OFFSET, CFM_MAX_OFFSET, mf, rf).w,
        "in", u, CFM_MAX_OFFSET, CFM_MAX_OFFSET, mf, rf).w

\* cfil_socket_from_sock_id(): a TCP socket is found while it has so_cfil;
\* a UDP socket by its generation count while it has its flow database,
\* which is destroyed once it is closed.
SocketFromSockId == ~(Dgram /\ ~linked /\ phase = "closed")

\* The recheck after the passes (the socket may have been unlocked in
\* cfil_acquire_sockbuf()): if the flow is no longer in the socket's flow
\* database, "goto release" leaves the entry attached; otherwise "the
\* filter is now detached" and the close-wait sleeper is woken if it was
\* the last one.
CtlDisconnectDetach(w, u) ==
    IF FlowGone THEN w
    ELSE WakeIfDetached([w EXCEPT !.ef[u] = @ \cup {"CFIL_DETACHED"}])

\* The agent closes its kernel-control socket: cfil_ctl_disconnect() walks
\* the filter's entries. An entry whose cfil_info is being freed is gone
\* already (cfil_info_free() cleared its cfe_filter). If the socket is not
\* found the entry is removed from the filter without a pass; otherwise,
\* under the socket lock, everything is passed and, unless the recheck
\* fails, the entry detached and cfe_filter cleared. After a failed
\* recheck the entry stays first on cf_sock_entries and the loop takes it
\* again.
CtlDisconnect(u) ==
    /\ "agent_disconnect" \in Ops /\ filter[u]
    /\ \/ /\ ~SocketFromSockId
          /\ Apply(W)
          /\ filter' = [filter EXCEPT ![u] = FALSE]
       \/ /\ SocketFromSockId /\ ~sbLocked
          /\ \E mf \in MemFail, rf \in ReinjFail :
               Apply(CtlDisconnectDetach(CtlDisconnectPass(W, u, mf, rf), u))
          /\ filter' = IF FlowGone THEN filter ELSE [filter EXCEPT ![u] = FALSE]
    /\ UNCHANGED <<defunct, phase, linked, freed, threadVars, waitOn, idle>>

\* soclose_locked() -> cfil_sock_is_closed(); a garbage-collected UDP flow
\* is no longer in the socket's flow database.
SockIsClosed ==
    /\ phase = "closing" /\ (~sbLocked \/ FlowGone)
    /\ \E rf \in ReinjFail : Apply(IF Dgram THEN UdpIsClosed(W, rf) ELSE SockClosed(W, rf))
    /\ phase' = "closed"
    /\ UNCHANGED <<filter, linked, freed, threadVars, defunct, waitOn, idle>>

\* cfil_info_action_timed_out(): more is pending than the socket pass offset
\* covers, and some entry with a filter that has not passed all that is
\* pending got its last action UDP_FLOW_GC_ACTION_TO or more ago.
ActionTimedOut ==
    /\ \E d \in Dirs : plast[d] > cfipass[d]
    /\ \E u \in idle : filter[u] /\ \E d \in Dirs : plast[d] > pass[d][u]

\* cfil_info_buffer_threshold_exceeded(): a datagram was tail-dropped.
BufferThresholdExceeded == \E d \in Dirs : tailDrop[d] # 0

\* cfil_sock_udp_unlink_flow(): the flow is cut from its soflow entry, which
\* the caller then drops from the socket's flow database.
UnlinkFlow == linked' = FALSE

\* The soflow garbage collector, for a UDP flow that cfil_dgram_gc_needed()
\* picks: cfil_dgram_gc_perform() sends the closed events, unlinks the flow
\* from the socket and drops the link's reference with CFIL_INFO_FREE(),
\* which frees the cfil_info unless a verdict thread still holds one.
DgramGc ==
    /\ Dgram /\ linked
    /\ ActionTimedOut \/ BufferThresholdExceeded
    /\ Apply(InfoRelease(ClosedEvents(W, Kcunits), RefCount - 1))
    /\ Release(RefCount - 1) /\ UnlinkFlow
    /\ UNCHANGED <<defunct, phase, waitOn, threadVars, idle>>

\* The socket's flow database is destroyed after close: soflow calls
\* cfil_dgram_detach_entry(), which unlinks the flow and drops the link's
\* reference with CFIL_INFO_FREE(), without closed events of its own.
DgramDetachEntry ==
    /\ Dgram /\ linked /\ phase = "closed"
    /\ Apply(InfoRelease(W, RefCount - 1))
    /\ Release(RefCount - 1) /\ UnlinkFlow
    /\ UNCHANGED <<defunct, phase, waitOn, threadVars, idle>>

\* UDP_FLOW_GC_ACTION_TO seconds pass: the last action of every entry (from
\* cfil_info_alloc() or cfil_ctl_send()) is now that old.
GcActionTimeoutElapses ==
    /\ Dgram /\ linked /\ idle # Units
    /\ idle' = Units
    /\ UNCHANGED <<ctl, pend, pass, peek, peeked, inj, pfirst, plast, cfipass, ef,
                   filter, fl, defunct, mbcnt, mbnum, tailDrop, linked, freed,
                   cff, inbox, ghostVars, lifeVars, threadVars>>

\* An application thread enters sosend(): sblock() takes SB_LOCK of so_snd
\* (no content filter thread holds it between two steps), and the socket
\* lock is dropped while the data is copied in or the thread waits for
\* space.
SockSendLock ==
    /\ "app_send" \in Ops /\ ~sbLocked
    /\ phase = "open" /\ "CANTSENDMORE" \notin sock
    /\ sbLocked' = TRUE
    /\ UNCHANGED <<flowVars, ghostVars, lifeVars, cff, inbox, parked>>

\* sosend() returns: sbunlock() clears SB_LOCK and wakes the threads asleep
\* in cfil_acquire_sockbuf() (sb_wantlock > 0).
SockSendUnlock ==
    /\ sbLocked /\ sbLocked' = FALSE
    /\ UNCHANGED <<flowVars, ghostVars, lifeVars, cff, inbox, parked>>

\* The TCP handshake completes: cfil_sock_connected_pending_verdict() holds
\* soisconnected() back (CFIF_SOCKET_CONNECTED) until the first verdict.
ConnectedPendingVerdict(w) ==
    IF "INITIAL_VERDICT" \in w.fl THEN [w EXCEPT !.sock = @ \cup {"ISCONNECTED"}]
    ELSE [w EXCEPT !.fl = @ \cup {"SOCKET_CONNECTED"}]

SockConnected ==
    /\ "connect" \in Ops /\ ~Dgram /\ phase = "open"
    /\ "ISCONNECTED" \notin sock /\ "SOCKET_CONNECTED" \notin fl
    /\ Apply(ConnectedPendingVerdict(W))
    /\ UNCHANGED <<filter, linked, freed, threadVars, defunct, phase, waitOn, idle>>

\* Flow divert done with a TCP socket: cfil_sock_is_dead().  (On a datagram
\* socket the delay flag lives in the soflow database, not modelled.)
SockIsDead ==
    /\ "is_dead" \in Ops /\ ~Dgram
    /\ "DEAD" \notin sock /\ "SO_DELAYED_DEAD" \notin fl
    /\ Apply(IsDead(W))
    /\ UNCHANGED <<filter, linked, freed, threadVars, defunct, phase, waitOn, idle>>

\* tcp_timer.c moving the connection to TIME_WAIT once our FIN went out
\* (the write side shut, or the socket closed): cfil_sock_tcp_add_time_wait().
TcpTimeWait ==
    /\ "time_wait" \in Ops /\ ~Dgram
    /\ "CANTSENDMORE" \in sock \/ phase = "closed"
    /\ "TIME_WAIT" \notin sock /\ "SO_DELAYED_TCP_TIME_WAIT" \notin fl
    /\ Apply(TcpAddTimeWait(W))
    /\ UNCHANGED <<filter, linked, freed, threadVars, defunct, phase, waitOn, idle>>

Next ==
    \/ \E len \in Lens : SockDataOut(len) \/ SockDataIn(len)
    \/ \E u \in Units, v \in Verdicts : CtlSendUpdate(u, v)
    \/ \E u \in Units, v \in Verdicts : CtlSendPark(u, v)
    \/ CtlSendResume \/ SockSendLock \/ SockSendUnlock
    \/ \E u \in Units : CtlSendDrop(u)
    \/ \E u \in Units : CtlRcvd(u)
    \/ \E u \in Units : OtherFlowEvent(u)
    \/ \E d \in Dirs : SockBufUpdate(d)
    \/ \E how \in ShutdownHow : SockShutdown(how)
    \/ SockCloseWait \/ CloseWakeup \/ CloseTimeout \/ SockIsClosed
    \/ \E u \in Units : CtlDisconnect(u)
    \/ DgramGc \/ DgramDetachEntry \/ GcActionTimeoutElapses
    \/ SockConnected \/ SockIsDead \/ TcpTimeWait

Spec == Init /\ [][Next]_vars
-----------------------------------------------------------------------------
(***************************************************************************)
(* Properties.                                                             *)
(***************************************************************************)
Bytes(s) == FoldLeft(LAMBDA a, m : a + m.len, 0, s)
Held(d) == HeldIn(W, d)

TypeOK ==
    /\ ctl \in [Dirs -> [Units -> Queue]] /\ pend \in [Dirs -> [Units -> Queue]]
    /\ pass \in [Dirs -> [Units -> Nat]] /\ peek \in [Dirs -> [Units -> Nat]]
    /\ peeked \in [Dirs -> [Units -> Nat]] /\ inj \in [Dirs -> Queue]
    /\ pfirst \in [Dirs -> Nat] /\ plast \in [Dirs -> Nat] /\ cfipass \in [Dirs -> Nat]
    /\ ef \in [Units -> SUBSET EntryFlags] /\ fl \in SUBSET InfoFlags
    /\ filter \in [Units -> BOOLEAN] /\ cff \in [Units -> BOOLEAN]
    /\ defunct \in BOOLEAN
    /\ inbox \in [Units -> 0..InboxCap]
    /\ accepted \in [Dirs -> Seq(Span)] /\ handed \in [Dirs -> Seq(Span)]
    /\ flushed \in [Dirs -> Seq(Span)]
    /\ evlog \in [Units -> [Dirs -> Seq(Event)]] /\ reinjFails \in 0..MaxReinjectFail
    /\ granted \in [Dirs -> [Units -> Nat]]
    /\ sock \subseteq SockStates /\ woken \in BOOLEAN /\ phase \in Phases
    /\ mbcnt \in [Dirs -> Nat] /\ mbnum \in [Dirs -> Nat]
    /\ tailDrop \in [Dirs -> Nat] /\ linked \in BOOLEAN /\ waitOn \in Units \cup {0}
    /\ freed \in BOOLEAN /\ sbLocked \in BOOLEAN /\ idle \subseteq Units
    /\ parked \in {<< >>} \cup {<<t>> : t \in [u : Units, v : Verdicts]}

\* The assertions of cfil_info_verify() (cfil_queue_verify, cfil_entry_buf_verify,
\* cfil_info_buf_verify) hold after every handler, and cfe_peeked never
\* passes cfe_peek_offset, which the unsigned copylen computation of the
\* peek loop of cfil_data_service_ctl_q() relies on.
CfilInfoVerify ==
    \A d \in Dirs :
       /\ pfirst[d] <= plast[d] /\ QVerify(inj[d])
       /\ \A u \in Units :
            /\ QVerify(ctl[d][u]) /\ QVerify(pend[d][u])
            /\ ctl[d][u].start >= pend[d][u].end
            /\ peek[d][u] >= pass[d][u]
            /\ ctl[d][u].start <= peeked[d][u] /\ peeked[d][u] <= peek[d][u]

\* No byte the socket layer handed to cfil_data_common() is lost, duplicated
\* or reordered: what went back to the socket, what a flush threw away and
\* what the queues still hold, in stream order, is exactly what came in.
StreamConservation ==
    \A d \in Dirs : accepted[d] = handed[d] \o flushed[d] \o Held(d)

\* The pending window [cfi_pending_first, cfi_pending_last) that
\* cfil_sock_data_pending() reports is exactly the bytes still held or
\* flushed, and while nothing was flushed the q_start/q_end of every
\* entry's queues, which are compared with the agent's pass and peek
\* offsets, are the stream offsets of the spans it holds (the fast path of
\* cfil_update_entry_offsets() moves them without queueing; the inject
\* queue's cursors are never compared and do not follow the stream).
PendingWindowExact ==
    \A d \in Dirs :
       /\ plast[d] = Bytes(accepted[d])
       /\ plast[d] - pfirst[d] = Bytes(flushed[d] \o Held(d))
       /\ flushed[d] = << >> =>
            \A u \in Units : QAligned(ctl[d][u]) /\ QAligned(pend[d][u])

\* cfi_pending_mbcnt and cfi_pending_mbnum, which the UDP tail drop compares
\* with its limits and cfil_sock_data_pending() with the window, count
\* exactly the spans cfil_data_common() took and did not give back to the
\* socket (held by the filter, or thrown away by a flush or a free, which
\* leave the counts alone): no path leaks or double-counts an mbuf.
PendingMbufsExact ==
    \A d \in Dirs : /\ mbcnt[d] = Bytes(flushed[d] \o Held(d))
                   /\ mbnum[d] = Len(flushed[d] \o Held(d))

\* Chaining: a span is given to an entry, to the inject queue or back to the
\* socket (also by the fast path below cfi_pass_offset) only once the agent
\* of every entry before it in cfi_ordered_entries has itself sent a pass
\* offset covering all of its bytes (the fast path raises cfe_pass_offset,
\* so the entry's own offset cannot tell).
PassedBy(d, u) ==
    handed[d] \o inj[d].q \o pend[d][u].q
      \o FlattenSeq([i \in 1..Len(After(u)) |->
                       ctl[d][After(u)[i]].q \o pend[d][After(u)[i]].q])

ChainingOrder ==
    \A d \in Dirs, u \in Units :
       filter[u] => \A i \in 1..Len(PassedBy(d, u)) :
                      PassedBy(d, u)[i].off + PassedBy(d, u)[i].len <= granted[d][u]

\* The data events cfil_dispatch_data_event() sends an agent label bytes
\* with their true stream offset, never show a byte twice or out of order,
\* and never go beyond the peek offset the agent asked for.
DataEventsTruthful ==
    \A u \in Units, d \in Dirs :
       LET e == evlog[u][d] IN
       \A i \in 1..Len(e) :
          /\ e[i].start = e[i].off
          /\ e[i].end <= peek[d][u]
          /\ i > 1 => e[i].start >= e[i - 1].end

\* No handler moves an entry's pass, peek or peeked offset, or the socket
\* pass offset cfi_pass_offset, backwards.
OffsetsNeverRegress ==
    [][\A d \in Dirs :
         /\ cfipass'[d] >= cfipass[d]
         /\ \A u \in Units : /\ pass'[d][u] >= pass[d][u]
                            /\ peek'[d][u] >= peek[d][u]
                            /\ peeked'[d][u] >= peeked[d][u]]_vars

\* Data that every attached agent has passed is eventually given back to
\* the socket (unless the flow is dropped, or the socket closed and
\* cfil_flush_queues() threw it away), given that the socket layer
\* keeps calling cfil_sock_buf_update() while a re-injection is to retry.
\* Spans pass whole, so n is the end of a submitted span.
AllPassed(d, n) ==
    /\ \E i \in 1..Len(accepted[d]) : accepted[d][i].off + accepted[d][i].len = n
    /\ \A u \in Units : filter[u] => pass[d][u] >= n

PassedDataReinjected ==
    \A d \in Dirs, n \in 1..MaxBytes :
       AllPassed(d, n) ~> (pfirst[d] >= n \/ "DROP" \in fl \/ "SOCK_CLOSED" \in fl)

\* Flow control is lifted when the agent reads (cfil_ctl_rcvd()), and data
\* held back by it is then shown to the agent: data in an entry's ctl queue
\* below its peek offset that it has not been shown is eventually shown.
Unshown(d, u) ==
    /\ "DROP" \notin fl
    /\ ctl[d][u].end > peeked[d][u] /\ peek[d][u] > peeked[d][u]

FlowControlLiftResumes ==
    \A d \in Dirs, u \in Units, n \in 0..MaxBytes :
       (Unshown(d, u) /\ peeked[d][u] = n) ~> (peeked[d][u] > n \/ "DROP" \in fl)

\* A write shutdown that cfil_sock_shutdown() delayed because outgoing data
\* was pending takes effect (soshutdownlock_final() sets SS_CANTSENDMORE)
\* once every attached agent has passed all the data submitted, unless the
\* flow is dropped or the socket closed first: the tail of
\* cfil_service_inject_queue() has to notice that the window emptied, also
\* after a re-injection retry.
ShutdownCompletes ==
    ("SHUT_WR" \in fl /\ \A u \in Units : filter[u] => pass["out"][u] >= plast["out"])
      ~> ("CANTSENDMORE" \in sock \/ "DROP" \in fl \/ phase = "closed")

\* Every attached agent has passed everything submitted in both directions.
EveryAgentPassedAll == \A d \in Dirs, u \in Units : filter[u] => pass[d][u] >= plast[d]

\* cfil_sock_is_dead() and cfil_sock_tcp_add_time_wait() promise to delay
\* the dead marking and the TCP time wait "until all data has been processed
\* by filter(s)": once every agent has passed all data, or the socket was
\* closed and its queues flushed, the delayed step is taken, unless the flow
\* was dropped.
DelayedTeardownCompletes ==
    /\ ("SO_DELAYED_DEAD" \in fl /\ (EveryAgentPassedAll \/ "SOCK_CLOSED" \in fl))
         ~> ("DEAD" \in sock \/ "DROP" \in fl)
    /\ ("SO_DELAYED_TCP_TIME_WAIT" \in fl /\ (EveryAgentPassedAll \/ "SOCK_CLOSED" \in fl))
         ~> ("TIME_WAIT" \in sock \/ "DROP" \in fl)

\* A TCP connection whose soisconnected() cfil_sock_connected_pending_verdict()
\* held back until the first verdict is reported connected once no agent is
\* left that could send that verdict (each closed its control socket, which
\* passes all data), unless the flow was dropped or the socket closed.
ConnectReported ==
    ("SOCKET_CONNECTED" \in fl /\ \A u \in Units : ~filter[u])
      ~> ("ISCONNECTED" \in sock \/ "DROP" \in fl \/ phase = "closed")

\* No lost wakeup in cfil_sock_close_wait(): when the last attached filter
\* detaches (a pass-all verdict or, in close wait, empty queues in
\* cfil_update_data_offsets(), or a drop), the sleeper is woken and stops
\* waiting without relying on the timeout, unless a filter got attached
\* again (a late attach event) before it ran.
CloseWaitEndsWhenDetached ==
    (phase = "sleeping" /\ ~AnyAttached(ef))
      ~> (phase # "sleeping" \/ AnyAttached(ef))

\* cfil_action_drop() ends the filtering of the flow for good ("wake
\* close-wait waiters"): a close waiting on a dropped flow stops waiting
\* without relying on the timeout.
DropWakesCloseWait ==
    (phase = "sleeping" /\ "DROP" \in fl) ~> phase # "sleeping"

\* shutdown() is all or nothing: once cfil_sock_shutdown() has recorded the
\* read shutdown (CFIF_SHUT_RD) and told the filters, the socket layer has
\* shut the read side too (SS_CANTRCVMORE).
ReadShutdownTakesEffect ==
    "SHUT_RD" \in fl => "CANTRCVMORE" \in sock

\* cfil_sock_notify_shutdown() lets the filters know "that no more data will
\* come": once an entry got the disconnect event of a direction, it is sent
\* no data event of that direction.
NoDataAfterDisconnect ==
    [][\A u \in Units, d \in Dirs :
         SentDisconnect(d) \in ef[u] => evlog'[u][d] = evlog[u][d]]_vars

\* cfil_sock_is_closed() lets every filter that got the attach event know
\* of the closing (cfil_dispatch_closed_event(): "We can recover from flow
\* control"): the closed event eventually reaches it once agents read.
ClosedEventDelivered ==
    \A u \in Units :
       ("SOCK_CLOSED" \in fl /\ filter[u] /\ "SENT_SOCK_ATTACHED" \in ef[u])
         ~> "SENT_SOCK_CLOSED" \in ef[u]

\* The flow implements CfilStream in each direction: the pending window's
\* cfi_pending_last and cfi_pending_first are the bytes submitted and the
\* bytes given back, the pass offsets the agents sent are what they allow,
\* the entries with a filter of a linked flow are the attached agents, CFIF_DROP or the
\* garbage collection of a datagram flow is the end of the flow.
StreamOut == INSTANCE CfilStream
                 WITH submitted <- plast["out"], released <- pfirst["out"],
                      allowed <- granted["out"],
                      attached <- {u \in Units : filter[u] /\ linked},
                      dropped <- "DROP" \in fl \/ ~linked
StreamIn == INSTANCE CfilStream
                WITH submitted <- plast["in"], released <- pfirst["in"],
                     allowed <- granted["in"],
                     attached <- {u \in Units : filter[u] /\ linked},
                     dropped <- "DROP" \in fl \/ ~linked

\* Whatever the interleaving of submits, verdicts, re-injection retries,
\* drops and agents leaving, the socket gets back only a prefix of what it
\* submitted that every attached agent has passed, and nothing once the
\* flow is dropped.
StreamRefinement == StreamOut!Spec /\ StreamIn!Spec

\* Once the last reference on the cfil_info is released and cfil_info_free()
\* has run, no handler touches the flow again: a verdict asleep in
\* cfil_acquire_sockbuf() when the garbage collector unlinks the flow holds
\* its reference, so cfil_dgram_gc_perform()'s CFIL_INFO_FREE() must not
\* free it under the sleeper.
NoUseAfterFree ==
    [][freed => UNCHANGED <<ctl, pend, pass, peek, peeked, inj, pfirst, plast,
                            cfipass, ef, fl, filter, evlog, handed>>]_vars

\* A garbage-collected datagram flow is eventually freed: if a verdict
\* thread held a reference when cfil_dgram_gc_perform() unlinked it, that
\* thread's CFIL_INFO_FREE() at the end of cfil_ctl_send() drops the last
\* one.
GcEventuallyFrees == ~linked ~> freed

FairSpec == Spec /\ \A d \in Dirs : WF_vars(SockBufUpdate(d))
AgentsReadSpec == Spec /\ \A u \in Units : WF_vars(CtlRcvd(u))
\* The scheduler runs the close-wait sleeper once it is woken; the timeout
\* is not assumed, so these runs show what the wakeups alone achieve.
CloseSpec == Spec /\ WF_vars(CloseWakeup)
\* Both of the above: the socket layer keeps calling cfil_sock_buf_update()
\* and a woken close-wait sleeper runs.
LifecycleSpec == FairSpec /\ WF_vars(CloseWakeup)
\* CtlSendResume is enabled exactly when a verdict sleeps and SB_LOCK is
\* free (its other conjuncts always have a successor).
ResumeEnabled == parked # << >> /\ ~sbLocked

\* sosend() of a datagram returns, and a thread woken in
\* cfil_acquire_sockbuf() runs if SB_LOCK is free infinitely often:
\* SF_vars(CtlSendResume) with its ENABLED written out.  Weak fairness is
\* not enough, since sblock() does not look at sb_wantlock and the sender
\* may take SB_LOCK again every time before the woken thread runs.
SendersSpec ==
    /\ Spec /\ WF_vars(SockSendUnlock)
    /\ <>[]~ResumeEnabled \/ []<><<CtlSendResume>>_vars
=============================================================================
