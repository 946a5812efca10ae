---------------------------- MODULE CfilRegistry ----------------------------
(***************************************************************************)
(* The global registry of content filters in content_filter.c and the     *)
(* per-socket decisions that read it.                                      *)
(*                                                                         *)
(* An agent connecting its kernel-control socket installs a                *)
(* struct content_filter in content_filters[kcunit - 1]                    *)
(* (cfil_ctl_connect), sets its NECP control unit and its                  *)
(* preserve-connections option (cfil_ctl_setopt), and closing the socket   *)
(* removes the filter from every flow and frees it (cfil_ctl_disconnect,   *)
(* which drops the global lock between flows).  A TCP socket is attached   *)
(* to the filters whose NECP unit matches its policy (cfil_sock_attach,    *)
(* cfil_info_attach_unit) and every send or receive first checks whether   *)
(* the filter state changed under it (the head of cfil_sock_data_out and  *)
(* cfil_sock_data_in).  The per-flow data path of an attached socket is    *)
(* ContentFilter.tla; here a flow is its registry-visible state only.     *)
(***************************************************************************)
EXTENDS Integers, FiniteSets, Bitwise

CONSTANTS
    MaxFilters,     \* MAX_CONTENT_FILTER: kcunits are 1..MaxFilters
    Sockets,        \* TCP sockets
    NecpUnits,      \* non-zero NECP filter control units (bit masks)
    MaxGen,         \* bound on a socket's NECP policy generation count
    PreserveValues  \* values an agent gives CFIL_OPT_PRESERVE_CONNECTIONS

ASSUME MaxFilters \in Nat \ {0} /\ MaxGen \in Nat \ {0}
ASSUME NecpUnits \subseteq Nat \ {0} /\ PreserveValues \subseteq BOOLEAN

Kcunits == 1..MaxFilters

VARIABLES
    content_filters,      \* content_filters[kcunit - 1] != NULL
    cf_necp_control_unit, \* cfc->cf_necp_control_unit (0: not set yet)
    cf_preserve,          \* CFF_PRESERVE_CONNECTIONS in cfc->cf_flags
    cf_detaching,         \* CFF_DETACHING in cfc->cf_flags
    cfil_active_count,
    behaviorPreserve,     \* CFIL_BEHAVIOR_FLAG_PRESERVE_CONNECTIONS
    statsBuf,             \* global_cfil_stats_report_buffers[kcunit - 1]
    connecting,           \* kcunits whose cfil_ctl_connect() dropped the
                          \* lock to allocate the stats buffer
    policyUnit,           \* necp_socket_get_content_filter_control_unit()
    policyGen,            \* necp_socket_get_policy_gencount()
    so,                   \* per socket: state, so_cfil != NULL,
                          \* SOF_CONTENT_FILTER, cfi_filter_control_unit,
                          \* cfi_filter_policy_gencount, attached entries
    dataResult            \* what the data call of this step returned

regVars == <<content_filters, cf_necp_control_unit, cf_preserve,
             cf_detaching, cfil_active_count, behaviorPreserve, statsBuf,
             connecting>>
vars == <<regVars, policyUnit, policyGen, so, dataResult>>

SoStates == {"new", "open", "closed"}
Results == {"none", "unfiltered", "filtered", "EPIPE"}
NoResult == [s \in Sockets |-> "none"]
NoData == dataResult' = NoResult

NewSocket == [state |-> "new", cfil |-> FALSE, sof |-> FALSE,
              unit |-> 0, gen |-> 0, entries |-> {}]

TypeOK ==
    /\ content_filters \in [Kcunits -> BOOLEAN]
    /\ cf_necp_control_unit \in [Kcunits -> {0} \cup NecpUnits]
    /\ cf_preserve \in [Kcunits -> BOOLEAN]
    /\ cf_detaching \in [Kcunits -> BOOLEAN]
    /\ cfil_active_count \in 0..MaxFilters
    /\ behaviorPreserve \in BOOLEAN
    /\ statsBuf \in [Kcunits -> BOOLEAN]
    /\ connecting \subseteq Kcunits
    /\ policyUnit \in [Sockets -> {0} \cup NecpUnits]
    /\ policyGen \in [Sockets -> 1..MaxGen]
    /\ so \in [Sockets -> [state : SoStates, cfil : BOOLEAN, sof : BOOLEAN,
                           unit : {0} \cup NecpUnits, gen : 0..MaxGen,
                           entries : SUBSET Kcunits]]
    /\ dataResult \in [Sockets -> Results]

\* A policy generation count is never 0 for a socket NECP evaluated.
Init ==
    /\ content_filters = [k \in Kcunits |-> FALSE]
    /\ cf_necp_control_unit = [k \in Kcunits |-> 0]
    /\ cf_preserve = [k \in Kcunits |-> FALSE]
    /\ cf_detaching = [k \in Kcunits |-> FALSE]
    /\ cfil_active_count = 0
    /\ behaviorPreserve = FALSE
    /\ statsBuf = [k \in Kcunits |-> FALSE]
    /\ connecting = {}
    /\ policyUnit \in [Sockets -> {0} \cup NecpUnits]
    /\ policyGen = [s \in Sockets |-> 1]
    /\ so = [s \in Sockets |-> NewSocket]
    /\ dataResult = NoResult
-----------------------------------------------------------------------------
\* The loop below without its break: the last registered filter decides.
RECURSIVE PreserveLoopNoBreak(_, _, _, _)
PreserveLoopNoBreak(cfs, pres, i, p) ==
    IF i > MaxFilters THEN p
    ELSE PreserveLoopNoBreak(cfs, pres, i + 1, IF cfs[i] THEN pres[i] ELSE p)
UpdateBehaviorFlagsNoBreak(cfs, pres) == PreserveLoopNoBreak(cfs, pres, 1, FALSE)

\* cfil_update_behavior_flags(): walk kcunit 1..MAX_CONTENT_FILTER; a
\* registered filter with CFF_PRESERVE_CONNECTIONS sets the result, the
\* first one without it clears the result and breaks out of the loop.
RECURSIVE PreserveLoop(_, _, _, _)
PreserveLoop(cfs, pres, i, p) ==
    IF i > MaxFilters THEN p
    ELSE IF ~cfs[i] THEN PreserveLoop(cfs, pres, i + 1, p)
    ELSE IF pres[i] THEN PreserveLoop(cfs, pres, i + 1, TRUE)
    ELSE FALSE
UpdateBehaviorFlags(cfs, pres) == PreserveLoop(cfs, pres, 1, FALSE)

\* What the global flag stands for: some filter is registered and every
\* registered filter asked to preserve connections.
AllPreserve(cfs, pres) ==
    (\E k \in Kcunits : cfs[k]) /\ \A k \in Kcunits : cfs[k] => pres[k]

\* The step below without the EADDRINUSE test of a used kcunit.
CtlConnectNoInUse(k) ==
    /\ content_filters' = [content_filters EXCEPT ![k] = TRUE]
    /\ cf_necp_control_unit' = [cf_necp_control_unit EXCEPT ![k] = 0]
    /\ cf_preserve' = [cf_preserve EXCEPT ![k] = FALSE]
    /\ cf_detaching' = [cf_detaching EXCEPT ![k] = FALSE]
    /\ cfil_active_count' = cfil_active_count + 1
    /\ connecting' = IF statsBuf[k] THEN connecting ELSE connecting \cup {k}
    /\ NoData
    /\ UNCHANGED <<behaviorPreserve, statsBuf, policyUnit, policyGen, so>>

\* cfil_ctl_connect() for a free kcunit (a used one fails with EADDRINUSE
\* and changes nothing): install a zeroed content_filter and count it.  If
\* the kcunit has no stats buffer yet the lock is dropped to allocate one.
\* cfil_update_behavior_flags() is not called.
CtlConnect(k) ==
    /\ ~content_filters[k]
    /\ content_filters' = [content_filters EXCEPT ![k] = TRUE]
    /\ cf_necp_control_unit' = [cf_necp_control_unit EXCEPT ![k] = 0]
    /\ cf_preserve' = [cf_preserve EXCEPT ![k] = FALSE]
    /\ cf_detaching' = [cf_detaching EXCEPT ![k] = FALSE]
    /\ cfil_active_count' = cfil_active_count + 1
    /\ connecting' = IF statsBuf[k] THEN connecting ELSE connecting \cup {k}
    /\ NoData
    /\ UNCHANGED <<behaviorPreserve, statsBuf, policyUnit, policyGen, so>>

\* cfil_ctl_connect() retakes the lock and installs the buffer (freeing its
\* own if another thread installed one meanwhile).
CtlConnectStatsBuf(k) ==
    /\ k \in connecting
    /\ statsBuf' = [statsBuf EXCEPT ![k] = TRUE]
    /\ connecting' = connecting \ {k}
    /\ NoData
    /\ UNCHANGED <<content_filters, cf_necp_control_unit, cf_preserve,
                   cf_detaching, cfil_active_count, behaviorPreserve,
                   policyUnit, policyGen, so>>

\* The kernel-control socket of kcunit k is connected and its connect
\* callback returned, so the agent may set options or close it.
Registered(k) == content_filters[k] /\ k \notin connecting /\ ~cf_detaching[k]

\* cfil_ctl_setopt(CFIL_OPT_NECP_CONTROL_UNIT): refused once set.
CtlSetoptNecp(k, n) ==
    /\ Registered(k) /\ cf_necp_control_unit[k] = 0
    /\ cf_necp_control_unit' = [cf_necp_control_unit EXCEPT ![k] = n]
    /\ NoData
    /\ UNCHANGED <<content_filters, cf_preserve, cf_detaching,
                   cfil_active_count, behaviorPreserve, statsBuf, connecting,
                   policyUnit, policyGen, so>>

\* cfil_ctl_setopt(CFIL_OPT_PRESERVE_CONNECTIONS): set or clear the
\* filter's flag, then cfil_update_behavior_flags().
CtlSetoptPreserve(k, b) ==
    /\ Registered(k)
    /\ cf_preserve' = [cf_preserve EXCEPT ![k] = b]
    /\ behaviorPreserve' = UpdateBehaviorFlags(content_filters, cf_preserve')
    /\ NoData
    /\ UNCHANGED <<content_filters, cf_necp_control_unit, cf_detaching,
                   cfil_active_count, statsBuf, connecting, policyUnit,
                   policyGen, so>>

\* cfil_ctl_disconnect(): validate the unit info and mark CFF_DETACHING.
CtlDisconnect(k) ==
    /\ Registered(k)
    /\ cf_detaching' = [cf_detaching EXCEPT ![k] = TRUE]
    /\ NoData
    /\ UNCHANGED <<content_filters, cf_necp_control_unit, cf_preserve,
                   cfil_active_count, behaviorPreserve, statsBuf, connecting,
                   policyUnit, policyGen, so>>

\* The turn below without the TAILQ_REMOVE of the entry.
CtlDisconnectEntryKeep(k, s) ==
    /\ cf_detaching[k] /\ k \in so[s].entries
    /\ so' = [so EXCEPT ![s].unit = IF cfil_active_count = 1 THEN 0 ELSE @,
                        ![s].gen = IF cfil_active_count = 1 THEN 0 ELSE @]
    /\ NoData
    /\ UNCHANGED <<regVars, policyUnit, policyGen>>

\* One turn of its loop over cf_sock_entries: with the cfil_info retained
\* and the socket locked (the global lock is dropped, so other sockets may
\* attach meanwhile), pass everything (ContentFilter's CtlDisconnect),
\* remove the entry and, if this is the only active filter, clear the
\* flow's saved policy state.
CtlDisconnectEntry(k, s) ==
    /\ cf_detaching[k] /\ k \in so[s].entries
    /\ so' = [so EXCEPT ![s].entries = @ \ {k},
                        ![s].unit = IF cfil_active_count = 1 THEN 0 ELSE @,
                        ![s].gen = IF cfil_active_count = 1 THEN 0 ELSE @]
    /\ NoData
    /\ UNCHANGED <<regVars, policyUnit, policyGen>>

\* The step below taken before cf_sock_entries is empty.
CtlDisconnectFinishEarly(k) ==
    /\ cf_detaching[k]
    /\ statsBuf' = [statsBuf EXCEPT ![k] = FALSE]
    /\ content_filters' = [content_filters EXCEPT ![k] = FALSE]
    /\ cf_detaching' = [cf_detaching EXCEPT ![k] = FALSE]
    /\ cfil_active_count' = cfil_active_count - 1
    /\ behaviorPreserve' = UpdateBehaviorFlags(content_filters', cf_preserve)
    /\ NoData
    /\ UNCHANGED <<cf_necp_control_unit, cf_preserve, connecting, policyUnit,
                   policyGen, so>>

\* The loop found cf_sock_entries empty under the lock: free the stats
\* buffer, clear content_filters[kcunit - 1], count the filter out,
\* cfil_update_behavior_flags(), and free the content_filter.
CtlDisconnectFinish(k) ==
    /\ cf_detaching[k]
    /\ \A s \in Sockets : k \notin so[s].entries
    /\ statsBuf' = [statsBuf EXCEPT ![k] = FALSE]
    /\ content_filters' = [content_filters EXCEPT ![k] = FALSE]
    /\ cf_detaching' = [cf_detaching EXCEPT ![k] = FALSE]
    /\ cfil_active_count' = cfil_active_count - 1
    /\ behaviorPreserve' = UpdateBehaviorFlags(content_filters', cf_preserve)
    /\ NoData
    /\ UNCHANGED <<cf_necp_control_unit, cf_preserve, connecting, policyUnit,
                   policyGen, so>>
\* cfil_info_attach_unit(): an entry for every registered filter (also one
\* being disconnected: CFF_DETACHING is not tested) whose NECP unit
\* shares a bit with the socket's policy unit.
AttachUnit(u) ==
    {k \in Kcunits : content_filters[k] /\ (cf_necp_control_unit[k] & u) # 0}

\* The socket after cfil_sock_attach() allocated its cfil_info with the
\* policy's unit and generation; SOF_CONTENT_FILTER only if some entry
\* was attached (otherwise so_cfil stays allocated, unused).
AttachedSocket(u, g, ents) ==
    [state |-> "open", cfil |-> TRUE, sof |-> ents # {}, unit |-> u,
     gen |-> g, entries |-> ents]

\* cfil_sock_attach() when the TCP connection is set up: nothing to do
\* without a filter policy or without an active filter.
SockAttach(s) ==
    /\ so[s].state = "new"
    /\ so' = [so EXCEPT ![s] =
                IF policyUnit[s] = 0 \/ cfil_active_count = 0
                THEN [@ EXCEPT !.state = "open"]
                ELSE AttachedSocket(policyUnit[s], policyGen[s],
                                    AttachUnit(policyUnit[s]))]
    /\ NoData
    /\ UNCHANGED <<regVars, policyUnit, policyGen>>

\* cfil_sock_detach() -> cfil_info_free(): clear SOF_CONTENT_FILTER and
\* remove the flow's entries from their filters' cf_sock_entries.
SockDetach(s) ==
    /\ so[s].state = "open"
    /\ so' = [so EXCEPT ![s] = [@ EXCEPT !.state = "closed", !.cfil = FALSE,
                                         !.sof = FALSE, !.entries = {}]]
    /\ NoData
    /\ UNCHANGED <<regVars, policyUnit, policyGen>>

\* NECP re-evaluates the socket's policy (outside this file): a new
\* generation with a possibly different filter control unit.
PolicyChange(s, u) ==
    /\ so[s].state # "closed" /\ policyGen[s] < MaxGen
    /\ policyUnit' = [policyUnit EXCEPT ![s] = u]
    /\ policyGen' = [policyGen EXCEPT ![s] = @ + 1]
    /\ NoData
    /\ UNCHANGED <<regVars, so>>

Returns(s, r) == dataResult' = [NoResult EXCEPT ![s] = r]

\* The checks at the head of cfil_sock_data_out() and cfil_sock_data_in().
\* A socket the filter does not handle is refused (EPIPE) if a filter is
\* active, its policy now names one and connections are not preserved.
\* A filtered flow whose policy names another unit keeps going (adopting
\* that unit) if connections are preserved or the policy generation is the
\* one it was attached under, and is refused otherwise.
DataPolicyCheck(s) ==
    \/ /\ ~so[s].sof \/ ~so[s].cfil
       /\ Returns(s, IF ~behaviorPreserve /\ cfil_active_count > 0
                        /\ policyUnit[s] > 0
                     THEN "EPIPE" ELSE "unfiltered")
       /\ UNCHANGED so
    \/ /\ so[s].sof /\ so[s].cfil
       /\ policyUnit[s] = 0 \/ policyUnit[s] = so[s].unit
       /\ Returns(s, "filtered") /\ UNCHANGED so
    \/ /\ so[s].sof /\ so[s].cfil
       /\ policyUnit[s] > 0 /\ policyUnit[s] # so[s].unit
       /\ behaviorPreserve \/ so[s].gen = policyGen[s]
       /\ so' = [so EXCEPT ![s].unit = policyUnit[s]]
       /\ Returns(s, "filtered")
    \/ /\ so[s].sof /\ so[s].cfil
       /\ policyUnit[s] > 0 /\ policyUnit[s] # so[s].unit
       /\ ~behaviorPreserve /\ so[s].gen # policyGen[s]
       /\ Returns(s, "EPIPE") /\ UNCHANGED so

\* cfil_sock_data_out() or cfil_sock_data_in() on an open TCP socket; the
\* two run the same checks, so one action stands for both.
SockData(s) ==
    /\ so[s].state = "open" /\ DataPolicyCheck(s)
    /\ UNCHANGED <<regVars, policyUnit, policyGen>>

Next ==
    \/ \E k \in Kcunits : \/ CtlConnect(k) \/ CtlConnectStatsBuf(k)
                          \/ CtlDisconnect(k) \/ CtlDisconnectFinish(k)
                          \/ \E n \in NecpUnits : CtlSetoptNecp(k, n)
                          \/ \E b \in PreserveValues : CtlSetoptPreserve(k, b)
                          \/ \E s \in Sockets : CtlDisconnectEntry(k, s)
    \/ \E s \in Sockets : \/ SockAttach(s) \/ SockDetach(s)
                          \/ SockData(s)
                          \/ \E u \in {0} \cup NecpUnits : PolicyChange(s, u)

Spec == Init /\ [][Next]_vars

\* The thread in cfil_ctl_disconnect() runs its loop to the end.
FairSpec == Spec /\ \A k \in Kcunits :
                /\ WF_vars(CtlDisconnectFinish(k))
                /\ \A s \in Sockets : WF_vars(CtlDisconnectEntry(k, s))
-----------------------------------------------------------------------------
(***************************************************************************)
(* Properties.                                                             *)
(***************************************************************************)

\* cfil_update_behavior_flags() computes exactly "some filter is registered
\* and every registered filter set CFIL_OPT_PRESERVE_CONNECTIONS", for every
\* reachable registry and every combination of the filters' options.
BehaviorFlagsAlgorithm ==
    \A pres \in [Kcunits -> BOOLEAN] :
        UpdateBehaviorFlags(content_filters, pres)
            = AllPreserve(content_filters, pres)

\* The registry stays consistent across concurrent connects, option
\* changes, socket attaches and detaches, and the lock-dropping loop of
\* cfil_ctl_disconnect(): cfil_active_count counts the registered filters,
\* every attached entry's cfe_filter is a registered content_filter (the
\* VERIFY in cfil_info_free(), and no entry is left on a freed filter), and
\* a stats buffer exists only for a registered kcunit.
RegistryConsistent ==
    /\ cfil_active_count = Cardinality({k \in Kcunits : content_filters[k]})
    /\ \A s \in Sockets, k \in Kcunits :
           k \in so[s].entries => content_filters[k]
    /\ \A k \in Kcunits : statsBuf[k] => content_filters[k]

\* An agent closing its kernel-control socket is eventually unregistered:
\* the loop of cfil_ctl_disconnect() empties cf_sock_entries even while
\* other sockets attach to the filter it is detaching.
DisconnectCompletes ==
    \A k \in Kcunits : cf_detaching[k] ~> ~content_filters[k]

\* A send or receive on a socket the filter does not handle is let through
\* while a filter is active and its policy names one only if every
\* registered filter asked to preserve existing connections (the intent of
\* cfil_update_behavior_flags() and the "Drop pre-existing TCP sockets if
\* filter is enabled now" test of cfil_sock_data_out()).
UnfilteredNeedsConsent ==
    [][\A s \in Sockets :
          dataResult'[s] = "unfiltered" /\ cfil_active_count > 0
          /\ policyUnit[s] > 0
          => AllPreserve(content_filters, cf_preserve)]_vars

\* Once the last filter has disconnected, no filtered flow keeps the
\* policy state it was attached under, "so we will be able to drop this
\* flow if a new filter get installed" (cfil_ctl_disconnect()).
LastDisconnectClearsPolicy ==
    cfil_active_count = 0 =>
        \A s \in Sockets : so[s].sof => so[s].unit = 0 /\ so[s].gen = 0
=============================================================================
