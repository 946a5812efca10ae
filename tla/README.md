# TLA+ models of the XNU socket content filter (CFIL) and MPTCP option processing

These modules model `bsd/net/content_filter.c` (CFIL), the kernel side of
the socket content filter. User-space filter agents connect to it over a
kernel-control socket. CFIL shows them the data of each filtered socket
through *events*. It holds the data back until every agent has sent a *pass
offset* beyond it, then hands it back to the socket.

## The system and its parts

| Part | Code | Modelled by |
|---|---|---|
| Byte-range queue `struct cfil_queue` | `cfil_queue_*` (1029–1164) | `CfilQueue` |
| Per-flow state `cfil_info` / `cfil_entry` | structs 400–560 | `ContentFilter` variables |
| Events to agents (attach, data, disconnect, closed) with flow control | `cfil_dispatch_*_event` | `DispatchAttach`, `DispatchData`, `DispatchDisconnect`, `DispatchClosed` |
| Servicing an entry and chaining to the next | `cfil_data_service_ctl_q`, `cfil_service_pending_queue`, `cfil_data_filter` (4076–4676) | `ServiceCtlQ` … `DataFilter` (mutually recursive) |
| Data from the socket, fast path, GC-limit tail drop | `cfil_sock_data_out/in`, `cfil_data_common` (5140–5412) | `SockDataOut`, `SockDataIn`, `DataCommon`, `TailDrop` |
| Re-injection and its retry | `cfil_service_inject_queue`, `cfil_sock_buf_update` | `ServiceInject`, `SockBufUpdate` |
| Verdicts, drop, agent reads | `cfil_ctl_send`, `cfil_action_*`, `cfil_flush_queues`, `cfil_ctl_rcvd` | `CtlSendUpdate`, `CtlSendDrop`, `CtlRcvd` |
| Verdict asleep on `SB_LOCK`; `cfil_info` references | `cfil_acquire_sockbuf`, `os_ref_retain_try`, `CFIL_INFO_FREE` | `CtlSendPark`, `CtlSendResume`, `SockSendLock/Unlock`, `Release` |
| Shutdown, close wait, closed event | `cfil_sock_shutdown`, `cfil_sock_close_wait`, `cfil_sock_is_closed` and their UDP variants (5413–5695, 6488–6862) | `SockShutdown`, `SockCloseWait`, `CloseWakeup`, `CloseTimeout`, `SockIsClosed` |
| Connect held until the first verdict; delayed dead / time wait | `cfil_sock_connected_pending_verdict`, `cfil_sock_received_verdict`, `cfil_sock_is_dead`, `cfil_sock_tcp_add_time_wait` (2848–2973) | `SockConnected`, `SockIsDead`, `TcpTimeWait`, `DelayedRetry` |
| Datagram flow and its garbage collection | `cfil_sock_udp_*`, `cfil_dgram_gc_*`, `cfil_dgram_detach_entry` (6200–7153) | `Dgram = TRUE`, `DgramGc`, `DgramDetachEntry` |
| Agent closes its control socket, per flow | `cfil_ctl_disconnect` (1363–1497) | `ContentFilter!CtlDisconnect` |
| Filter registry: connect, options, disconnect, socket attach | `cfil_ctl_connect`, `cfil_ctl_setopt`, `cfil_update_behavior_flags`, `cfil_ctl_disconnect`, `cfil_sock_attach`, `cfil_info_attach_unit` | `CfilRegistry` |
| What the filter promises the socket | — | `CfilStream`, refined by `ContentFilter` |
| MPTCP options driving the data-level send side | `mptcp_opt.c` 982–1633, 1879–1938 | `MptcpDss` |
| Statistics reports, crypto signing, sysctl, logging | 1768–1897, 3151–3370, 5833–6140, 7167–7568 | not modelled |

`MptcpDss` models a second, independent part: the MPTCP options in
`bsd/netinet/mptcp_opt.c` that drive the data-level send side of an MPTCP
connection (see *MPTCP* below). `mac_vfs.c` and the three headers are not
modelled (see *What is not modelled*).

### How the parts interact

- An agent connects (`cfil_ctl_connect`), names the NECP control unit whose
  traffic it filters, and may ask to preserve existing connections
  (`cfil_ctl_setopt`). The global flag `CFIL_BEHAVIOR_FLAG_PRESERVE_CONNECTIONS`
  is recomputed from all registered filters.
- A TCP socket gets a `cfil_info` at connection set-up (`cfil_sock_attach`),
  with one entry per registered filter whose NECP unit matches its policy,
  ordered by control unit. A UDP socket gets one `cfil_info` per flow, in its
  `soflow` database, created by the first datagram.
- Data the socket submits goes through `cfil_data_common`. Below
  `cfi_pass_offset` it passes at once (the fast path); otherwise it goes to the
  first entry's `cfe_ctl_q`. Servicing an entry moves bytes below its pass
  offset to its pending queue and on to the next entry, or to `cfi_inject_q`
  after the last one; bytes below its peek offset are shown to the agent.
- Verdicts come through `cfil_ctl_send`. It holds a reference on the
  `cfil_info` and, for outgoing data, may sleep in `cfil_acquire_sockbuf`
  while the application holds `SB_LOCK`; the socket lock is dropped meanwhile.
  The first verdict also completes a TCP connect held back by
  `cfil_sock_connected_pending_verdict`.
- `shutdown`, `close`, TCP time wait and `in_pcbdetach` are delayed while data
  is pending (`EJUSTRETURN`, `CFIF_CLOSE_WAIT`, `SO_DELAYED_*`); the tail of
  `cfil_service_inject_queue` and the close-wait wakeups complete them.
- The UDP GC (`cfil_dgram_gc_perform`) tears down flows that saw no verdict for
  `UDP_FLOW_GC_ACTION_TO` or hold too many mbufs: closed events, unlink,
  `CFIL_INFO_FREE`.
- When an agent closes its control socket, `cfil_ctl_disconnect` walks the
  filter's flows, dropping the global lock for each: it passes everything,
  detaches the entry, and finally unregisters the filter.

## Modules

- **`CfilQueue.tla`** models `struct cfil_queue`. An mbuf chain is a span
  `[off, len]`; `off` is a ghost field, the true stream offset. `QVerify` is
  `cfil_queue_verify`.
- **`ContentFilter.tla`** models one filtered flow (TCP, or with
  `Dgram = TRUE` one UDP flow) and its agents.
  - **Variables** are fields of the code's structures, per direction and per
    kcunit (`ctl`, `pend`, `pass`, `peek`, `peeked`, `inj`, `pfirst`, `plast`,
    `cfipass`, `ef`, `fl`, `filter`, `mbcnt`, `mbnum`, `tailDrop`), the
    socket's `sock` state bits, the agents' socket fill (`inbox`, `cff`), the
    closing thread (`phase`, `waitOn`), and the flow's life: `linked` (the
    `soflow` entry still points to it), `freed`, `idle` (GC action timeout
    elapsed), `sbLocked` and `parked` (a verdict asleep on `SB_LOCK`). Ghost
    variables (`accepted`, `handed`, `flushed`, `evlog`, `granted`) record the
    spans in, out and thrown away, the events sent and the offsets agents sent.
  - **Atomic handlers.** Every kernel entry point runs under the socket lock,
    so each handler is one action. The nested calls are operators that thread
    the state as a record `W` and return `[w, err]`, like the code's `errno_t`.
    The one place a handler gives up the lock, the `msleep` of
    `cfil_acquire_sockbuf`, is split into `CtlSendPark` and `CtlSendResume`.
  - **Reference count.** `RefCount` is the `soflow` link plus the parked
    verdict's reference; `Release` frees the `cfil_info` when it reaches 0.
  - **Agent disconnect.** `CtlDisconnect` follows the three outcomes of
    `cfil_ctl_disconnect` for the flow's entry:
    - socket not found (a UDP socket found by generation count has lost its
      flow database at close): the entry leaves the filter with no pass;
    - found, but the flow was garbage-collected: everything is passed, the
      recheck at 1446 fails, and the entry stays attached (so the loop takes
      it again until the `cfil_info` is freed);
    - otherwise: everything is passed and the entry is detached.

    A `cfil_info` whose retain fails is already freed, and
    `cfil_info_free` has cleared its entries.
  - **`Ops`** picks which optional environment operations a run includes
    (shutdown, close, agent disconnect, application send, connect, is_dead,
    time wait), to keep each state space small.
  - **Nondeterminism.** An `M_DONTWAIT` allocation may fail; an outgoing
    re-injection may fail, up to `MaxReinjectFail` times, on any queued span
    whose position is in `ReinjectFailAt`. The spans before it have been
    handed to the socket, and the failed one was freed by `sosend_reinject`; the GC action timeout may elapse
    for an idle entry at any time.
  - **`Init`** is the state after `cfil_sock_attach` (TCP) or the first
    datagram's `cfil_sock_udp_get_info` (UDP): every unit attached and the
    attach event sent to the first entry (which may fail).
- **`CfilStream.tla`** is the abstract specification of one direction: the
  bytes submitted and released, each agent's allowed offset, the attached
  agents, and a dropped flag. A step releases bytes only up to the least
  offset an attached agent allowed; after a drop it releases nothing.
  `ContentFilter` instantiates it twice (`StreamOut`, `StreamIn`):
  `submitted ← cfi_pending_last`, `released ← cfi_pending_first`,
  `allowed ← granted`, `attached ← cfe_filter set`, `dropped ← CFIF_DROP`.
  `cfil_ctl_disconnect`'s pass of `CFM_MAX_OFFSET` is `Leave(u)`.
- **`CfilRegistry.tla`** models the global registry: `content_filters[]`,
  each filter's NECP unit and flags, `cfil_active_count`, the behaviour flag,
  the stats buffers, and the registry-visible state of TCP sockets
  (`so_cfil`, `SOF_CONTENT_FILTER`, the saved policy unit and generation, the
  attached entries). NECP policy changes are an environment action
  (`PolicyChange`); NECP itself is not in the repository.
  `cfil_ctl_connect`'s lock drop to allocate the stats buffer is its own step,
  and so is each turn of `cfil_ctl_disconnect`'s loop over its flows.
  `UpdateBehaviorFlags` is the kcunit loop of `cfil_update_behavior_flags`,
  written as a `RECURSIVE` operator with its `break`.
- **`MptcpDss.tla`** models one MPTCP connection's data-level send side
  (see *MPTCP*).
- **`MCContentFilter.tla`, `MCCfilRegistry.tla`, `MCMptcpDss.tla`**
  instantiate them for TLC.
  In `MCContentFilter`, kcunit 2 has the lower control unit, so it is first in
  the chain: the chain follows control units, not kcunits.

## MPTCP

`MptcpDss.tla` models one MPTCP connection of XNU as the options its subflow
receives drive it (`bsd/netinet/mptcp_opt.c`):

| Code | Model |
|---|---|
| `tcp_do_mptcp_options`, `mptcp_sanitize_option` (982–1008, 1879–1938) | `PeerMpCapable`, `PeerDss`, `PeerDataAck` and the option actions; before `ESTABLISHED` only MP_CAPABLE passes |
| `mptcp_do_mpcapable_opt` (1029–1098) | `mptcp_do_mpcapable_opt`: checksum bit, version downgrade, `TMPF_SND_KEYS \| TMPF_MPTCP_TRUE` |
| `mptcp_do_dss_opt`, `mptcp_do_dss_opt_meat` (1293–1548) | the eight formats: `Flags64`, `FullDack`, `FullSeq`, `DssAck` |
| `mptcp_do_dss_opt_ack_meat`, `mptcp_data_ack_rcvd`, `mptcp_update_window` (1183–1291) | `AckApply`, `DataAckDrop`, `DataAckFin`, `DataAckKeys`, `mptcp_update_window` |
| `mptcp_do_fastclose_opt`, `mptcp_do_mpfail_opt` (1550–1633) | actions of the same names |
| `mptcp_update_window_wakeup` (1236–1250) | action of the same name |

- **State.** `mpt_state` (the `MPTCPS_*` states it reaches, ranked in the
  enum's order), `mpt_version`, `mpt_snduna/sndnxt/sndmax`, `sb_cc` of the
  MPTCP socket's send buffer, `mpt_sndwnd/sndwl1/sndwl2`, the `MPTCPF_*` and
  `TMPF_*` flags the handlers touch, and `mpt_dsn_at_csum_fail`. The nested
  calls thread `mp_tp` as a record, as in `ContentFilter`.
- **The peer and the environment.** The peer receives our DSNs in order
  (`PeerReceive`), sends its own data (`PeerSend`), and sends options: a DSS
  in any format of the `Formats` constant with any Data ACK it has sent or
  could send (a reordered or duplicated segment), MP_CAPABLE with either
  version and checksum bit, MP_FASTCLOSE and MP_FAIL. The application's
  writes and close (the DATA_FIN takes one DSN), `mptcp_output`, the
  subflow's establishment and its fallback after MP_FAIL are code outside
  this repository and are environment actions.
- **Abstracted.** Options that fail a length, flag or sequence check return
  before changing anything: they are stuttering steps. The 32-bit fields
  are extended with `MPTCP_EXTEND_DSN` (not in this repository); all DSNs of
  the model are within 2^31 of the reference, where it gives the full value.
  The receive side (`mptcp_update_rcv_state_meat`, the DATA_FIN flag of the
  receive map) and `mptcp_close_fsm` are not in this repository; of the
  latter only `FIN_WAIT_1` to `FIN_WAIT_2` on the DATA_FIN's ack is used.

Properties of `MptcpDss`:

- `SendBufferExact`: `sb_cc` is `sndmax - snduna` less a DATA_FIN not yet
  acknowledged, whatever Data ACKs arrive.
- `AckedOnlyReceived`: `snduna` never passes what the peer has received.
- `AckedDataReleased` (liveness): every DSN the peer receives is eventually
  released.
- `DataFinCompletes` (liveness): once the peer has the DATA_FIN, the
  connection reaches `FIN_WAIT_2`.

## Runs

Every run asks one question. Each property of a passing run has a mutant in
`PROJECT.json`: a plausible bug in a definition that models the code, which
TLC catches under that run's cfg.

| Run | cfg | Expect | What it shows |
|---|---|---|---|
| `safety` | `MCContentFilter.cfg` | pass | Two chained agents, outgoing spans of 1–2 bytes, any verdict order, flow control, `ENOMEM`, a reinjection failure and its retry, drop: the invariants below hold (193k states). |
| `lifecycle` | `MCContentFilterLifecycle.cfg` | pass | One agent with shutdown, close and its control socket closing: passed data is handed back, a delayed write shutdown takes effect, a close wait ends once no filter is attached, and the flow implements `CfilStream`. |
| `reinject_retry` | `MCContentFilterReinject.cfg` | violation | Finding 1. |
| `flow_control_lift` | `MCContentFilterFlowCtl.cfg` | violation | Finding 2. |
| `dgram_gc` | `MCContentFilterGcRef.cfg` | pass | One agent on a UDP flow with two datagrams and a GC limit of one mbuf: a verdict asleep on `SB_LOCK`, the application sending, `close`, the agent closing its control socket, a failed reinjection and the GC unlinking the flow, in any order: the mbuf counts are exact, no use after free, and an unlinked flow is eventually freed (162k states). |
| `teardown_delayed` | `MCContentFilterTeardown.cfg` | pass | A delayed `in_pcbdetach` or time wait is carried out once every agent passed the received data. |
| `connect_pending` | `MCContentFilterConnect.cfg` | violation | Finding 3. |
| `time_wait_close` | `MCContentFilterTimeWaitClose.cfg` | violation | Finding 4. |
| `registry` | `MCCfilRegistry.cfg` | pass | Agents connecting, setting options and disconnecting while a socket attaches, sends, changes policy and detaches: the registry invariants and the disconnect liveness hold. |
| `registry_preserve` | `MCCfilRegistryPreserve.cfg` | violation | Finding 5. |
| `mptcp_dss` | `MCMptcpDss.cfg` | pass | An MPTCP peer using every DSS format XNU sends, with reordered and duplicated Data ACKs, MP_FAIL and fallback, fastclose, and a DATA_FIN: the MPTCP properties below hold (34k states). |
| `mptcp_dss64` | `MCMptcpDss64.cfg` | violation | Finding 6. |

Properties of `ContentFilter`:

- `CfilInfoVerify`: the `VERIFY`s of `cfil_info_verify`, compiled in only with
  `cfil_debug`, plus `cfe_peeked ≤ cfe_peek_offset`, which the unsigned
  `copylen` of the peek loop relies on.
- `StreamConservation`: the bytes handed back, then flushed, then held by the
  inject queue and the entries, equal the bytes accepted, in stream order.
- `PendingWindowExact`: `[cfi_pending_first, cfi_pending_last)` is exactly the
  bytes held or flushed; every queue's `q_start`/`q_end` are real offsets.
- `PendingMbufsExact`: `cfi_pending_mbcnt`/`mbnum` count exactly the spans
  taken and not given back or flushed.
- `ChainingOrder`: a span is at or after entry *u*, or back at the socket,
  only if *u*'s agent sent a pass offset covering it (also via the fast path).
- `DataEventsTruthful`: data events carry the true offset, are in order
  without overlap, and stay below the peek offset.
- `OffsetsNeverRegress` (action): no pass, peek or peeked offset, and no
  `cfi_pass_offset`, decreases.
- `StreamRefinement`: every behaviour is one of `CfilStream`'s.
- `NoUseAfterFree` (action): once the `cfil_info` is freed, nothing in it
  changes.
- `NoDataAfterDisconnect` (action): no data event of a direction after that
  direction's disconnect event.
- `ReadShutdownTakesEffect`: `CFIF_SHUT_RD` implies the socket's read side is
  shut.
- Liveness: `PassedDataReinjected`, `FlowControlLiftResumes`,
  `CloseWaitEndsWhenDetached` (unless a late attach event re-arms the wait),
  `DropWakesCloseWait`, `ShutdownCompletes`, `ClosedEventDelivered`,
  `GcEventuallyFrees` (an unlinked flow is eventually freed),
  `DelayedTeardownCompletes` (a delayed dead marking or time wait is done once
  every attached agent passed everything, or the socket closed),
  `ConnectReported` (a held-back connect is reported once no filter is
  attached).

Properties of `CfilRegistry`:

- `BehaviorFlagsAlgorithm`: the loop of `cfil_update_behavior_flags` equals
  "some filter is registered and all registered filters preserve", for every
  reachable registry and every combination of options.
- `RegistryConsistent`: `cfil_active_count` counts the registered filters; no
  flow has an entry on an unregistered (freed) filter; stats buffers exist
  only for registered kcunits.
- `DisconnectCompletes` (liveness): a disconnecting filter is eventually
  unregistered, even while sockets attach to it.
- `UnfilteredNeedsConsent` (action): an unfiltered socket whose policy names a
  filter sends while a filter is active only if every filter preserves
  connections.
- `LastDisconnectClearsPolicy`: with no filter registered, no filtered flow
  keeps its saved policy unit and generation.

### Findings

1. **A reinjection retry leaves `cfi_pass_offset` stale** (5828).
   `cfil_sock_buf_update` does not call `cfil_set_socket_pass_offset`; the
   next span takes the slow path into `cfi_inject_q`, which nothing services
   again (`PassedDataReinjected`).
2. **`cfil_ctl_rcvd` never resumes a flow-controlled flow** (2437–2448). Its
   `TAILQ_FOREACH` has `continue` in both branches and never `break`s, so
   `entry` is `NULL` after it. Data held back by `ENOBUFS` is not shown after
   the agent drains its socket (`FlowControlLiftResumes`).
3. **A held-back TCP connect is never reported when the agents disconnect**
   (1432). `cfil_sock_received_verdict` is called only from verdict paths,
   not from `cfil_ctl_disconnect`; `SS_ISCONNECTED` is never set
   (`ConnectReported`).
4. **A delayed time wait (or dead marking) is never taken after close**
   (4882). `cfil_flush_queues` leaves `cfi_pending_first/last` and the mbuf
   counts, so `cfil_sock_data_pending` stays non-zero and the
   `SO_DELAYED_*` retry never succeeds (`DelayedTeardownCompletes`).
5. **`cfil_ctl_connect` does not recompute the behaviour flag** (1262). With
   filter 1 preserving connections, filter 2 connects and the flag stays set:
   a pre-existing unfiltered socket keeps sending without filter 2's consent
   (`UnfilteredNeedsConsent`).
6. **A 64-bit DSN + 64-bit Data ACK option is read with the DSN as its Data
   ACK** (`mptcp_opt.c:1504`). In the `MDSS_M | MDSS_m | MDSS_A | MDSS_a`
   case, `full_dack = mptcp_ntoh64(dss64_ack64->mdss_dsn)`; the seven other
   formats read `mdss_ack`. XNU never sends this format, but RFC 8684 lets a
   peer do so. When the peer's DSN lies in `[snduna, sndmax]`, data the peer
   has not received is dropped from the send buffer and is never
   retransmitted (`AckedOnlyReceived`). TLC's trace has 5 steps:
   MP_CAPABLE, establish, the application writes one byte (`sb_cc` 1),
   the peer sends a mapping, and its 64/64 DSS carries a DSN equal to
   `sndmax`. `mpt_snduna` becomes 2 and `sb_cc` becomes 0, while the peer
   has received nothing (`peerRcvNxt` 1). Otherwise the real Data ACK
   is ignored and `mptcp_update_window` stores the peer's DSN as
   `mpt_sndwl2`.

### Further counterexamples

These properties are stated in the modules and violated under the cfg
named; the runs above do not repeat them. Run them with
`tlc -config <cfg> MCContentFilter` (or `MCCfilRegistry`).

| cfg | Property | What the code does |
|---|---|---|
| `MCContentFilterLateVerdict.cfg` | `StreamRefinement` | A verdict asleep in `cfil_acquire_sockbuf` resumes on a flow the GC unlinked (1571): it re-injects data after the agents got their closed events; only `CFIF_DROP` is re-checked after `msleep`. |
| `MCContentFilterDropWait.cfg` | `DropWakesCloseWait` | A drop wakes close only when no filter is attached (5005); after the drop `cfil_ctl_send` refuses the other agent's verdicts (2034), so close sleeps until the timeout. |
| `MCContentFilterDisconnect.cfg` | `NoDataAfterDisconnect` | `cfil_sock_notify_shutdown` sends disconnect events in kcunit order, not chain order (5564): an entry gets a data event after its disconnect event. |
| `MCContentFilterClosedEvent.cfg` | `ClosedEventDelivered` | A closed event lost to flow control is never retried (3715). |
| `MCContentFilterShutRd.cfg` | `ReadShutdownTakesEffect` | `shutdown(SHUT_RDWR)` after a delayed `SHUT_WR` sets `CFIF_SHUT_RD`, then fails with `ENOTCONN` (5453–5468): the read side is never shut. |
| `MCContentFilterTailDrop.cfg` | `PendingWindowExact` | The UDP tail drop takes the mbuf counts back but leaves `cfi_pending_last` advanced (5183). |
| `MCContentFilterGcWait.cfg` | `CloseWaitEndsWhenDetached` | The GC frees a flow close sleeps on without a wakeup (7128). |
| `MCContentFilterGcShutdown.cfg` | `ShutdownCompletes` | A delayed UDP write shutdown is lost when the GC frees the flow (7128). |
| `MCCfilRegistryLastDisconnect.cfg` | `LastDisconnectClearsPolicy` | The "last filter disconnecting" reset runs only when `cfil_active_count == 1` and only for that filter's flows (1481); a flow attached only to a filter that left earlier keeps its saved unit. |

## Bounds and why they are enough

| Bound | Value | Why |
|---|---|---|
| Agents (`Units`) | 2; 1 in `lifecycle`, `dgram_gc` and the reinjection retry | Two give chaining, and a chain order that differs from kcunit order. The liveness checks with shutdown and close, the GC races and the reinjection retry take one agent: with two they exceed several minutes, and a second agent only repeats the first one's events there. `safety` and the other violation runs keep two. |
| Span lengths (`Lens`) | 1–2 (`safety`, `lifecycle`), 1 elsewhere | A span of 2 can be partly passed or peeked, and crosses a pass offset. |
| Bytes per direction (`MaxBytes`) | 3 (reinjection retry), 2 (`safety`, `lifecycle`, `dgram_gc`, tail drop, late verdict, GC shutdown), 1 (teardown, connect, close races) | Three spans are needed for finding 1; two for a datagram to reach the GC limit behind another; one held byte is enough for the close, connect, GC and teardown races. |
| Agent socket (`InboxCap`) | 1 message | The socket fills, so `ENOBUFS` is reached. |
| Directions (`DataDirs`) | outgoing; incoming for teardown | The directions share no queue; the delayed dead / time wait runs use received data. |
| Reinjection failures | 0 or 1, at queue position 1 or 2 (`ReinjectFailAt` {1, 2} in `dgram_gc` and tail drop, {1, 2, 3} for finding 1, {1} in `safety`, where {1, 2} reaches the same 192,942 states at twice the cost) | One failure is enough for finding 1 and for the retry path. A failure on the second span also covers the spans before it being re-injected and consumed first. |
| GC limits | 1 mbuf (`dgram_gc`, tail drop), 5 (GC shutdown) | 1 makes the second datagram hit the limit. |
| MPTCP | initial DSNs 0 (ours) and 1 (the peer's), 2 bytes and a DATA_FIN from us, 1 byte from the peer, windows {1} | The two DSN spaces overlap, so a DSN read as a Data ACK can fall in `[snduna, sndmax]`; two bytes give a partial Data ACK before the DATA_FIN's. |
| Registry | 2 kcunits, 1 socket, NECP units {1, 2}, 2 policy generations | Two filters give disconnects overlapping another filter, attaches to a detaching filter and a connect after another filter set its options. Three kcunits took over 6 minutes. |

Every action and every disjunct of the three `Next` relations fires in some
passing run.

## Fairness

- `FairSpec` (ContentFilter): weak fairness of `SockBufUpdate`. The socket
  layer calls `cfil_sock_buf_update` whenever the buffer changes.
- `AgentsReadSpec`: weak fairness of `CtlRcvd`; an agent keeps reading.
- `CloseSpec`: weak fairness of `CloseWakeup`; a woken thread runs. The
  timeout is deliberately not assumed.
- `LifecycleSpec`: `FairSpec` and `CloseSpec` together, for `lifecycle`.
- `SendersSpec`: weak fairness of the application releasing `SB_LOCK`, and
  *strong* fairness of the woken verdict thread getting it. `sblock` does not
  look at `sb_wantlock`, so under weak fairness a busy sender starves the
  verdict forever; TLC finds that, and it is the scheduler, not the code,
  that rules it out.
- `FairSpec` (CfilRegistry): weak fairness of the steps of a running
  `cfil_ctl_disconnect`.
- `FairSpec` (MptcpDss): weak fairness of `Transmit` and `PeerReceive`
  (retransmission timers), and of `PeerDataAck` in the states where the peer
  owes a Data ACK for data it received. This last one is written out
  (`<>[]AckOwed => []<><<PeerDataAck>>_vars`): there a `PeerDataAck` step
  always changes `peerAckSent`, so it is weak fairness restricted to those
  states, and TLC avoids evaluating `ENABLED` of the DSS handler.

No run assumes an agent sends a verdict: that is the agent's decision.

## What is not modelled

- **Several flows of one UDP socket.** `soflow` hashing is not in this
  repository; one flow is modelled, and `cfil_dgram_detach_db` (the whole
  database) is not.
- **The policy-change `EPIPE` and TFO returns at the head of
  `cfil_sock_data_out/in` in `ContentFilter`.** They are modelled in
  `CfilRegistry`, which has the registry state they read.
- **The sleep of `cfil_acquire_sockbuf` for drop, disconnect,
  `cfil_sock_buf_update` and `cfil_sock_is_closed`.** Those actions are
  enabled only while `SB_LOCK` is free; `SB_LOCK` of `so_rcv` is not
  modelled.
- **Close wait details**: the `IS_NO_CLOSE_WAIT` early return for loopback
  flows; `so_cfil` becoming `NULL` while the thread sleeps.
- **The UDP `SO_DELAYED_DEAD` handling in `so_flow_db`.**
- **`cfi_pass_offset` with no filter left.** When every agent has closed its
  control socket, `cfil_set_socket_pass_offset` sets it to 0, lower than
  before; `OffsetsNeverRegress` is checked only without agent disconnects, and
  `StreamRefinement` shows nothing unsafe follows.
- **mbuf storage** is the span's byte length (`mbcnt`).
- **MPTCP beyond the send side's options.** MP_JOIN and ADD_ADDR need the
  HMAC of keys and create subflows; REMOVE_ADDR and MP_PRIO only set a flag
  of the caller. `mptcp_setup_opts` builds outgoing options: the formats a
  peer uses are the `Formats` constant instead. The receive side, the close
  state machine and `mptcp_output` are not in this repository. The fallback
  resync can leave `mpt_sndnxt` below `mpt_snduna` (1213); what
  `mptcp_output` does then is outside this repository.
- **`mac_vfs.c`** is a list of hooks that call the MAC policy modules'
  checks and labels; the policies, and the VFS that calls the hooks, are not
  in this repository, so there is no state machine to model. The three
  headers declare types only.
- **Statistics, logging, sysctl and crypto signing.** They compute or format
  reports; no control decision depends on them. `cfil_ctl_getopt` changes no
  state.
