-------------------------- MODULE RingMakerProofs --------------------------
(***************************************************************************)
(* Proofs about RingMaker, for every bound on faults and crashes and for   *)
(* either order of the edges in the manifest.  Inv strengthens the safety  *)
(* properties to an inductive invariant.                                   *)
(***************************************************************************)
EXTENDS RingMaker, TLAPS

\* The journal records a signature before the wallet makes it, and the wallet
\* makes it before the session sends it.
SigInv ==
    /\ "made" \in sig => "created" \in flags
    /\ "sent" \in sig => "made" \in sig

SignedStates == {"signing", "signed", "broadcast", "confirmed_open", "recovery_required"}

\* The signature mark excludes the retirement intent and the retired states.
CreatedInv ==
    /\ "created" \in flags => "intent" \notin flags /\ state \in SignedStates
    /\ "intent" \in flags => state # "invited"

\* Someone is in the course of abandoning a channel, may still do so, or did.
Abandoning ==
    \/ \E a \in Actors : pc[a] \in RetireLabels
    \/ {"abandon_out", "abandon_in"} \cap rpc # {}
    \/ \E e \in Ends : chan[e] = "abandoned"

\* Abandoning is covered by a durable claim and never beside a signature.
RetireInv ==
    Abandoning => "created" \notin flags /\ ("intent" \in flags \/ state = "retired")

\* Readiness rests on two channels LND really holds.
ChanInv ==
    /\ "observed" \in flags => \A e \in Ends : chan[e] # "none"
    /\ state \in {"ready", "signing"} \/ "created" \in flags => "observed" \in flags
    /\ \A a \in Actors : seenState[a] \in {"ready", "signing"} => "observed" \in flags
    /\ state = "none" => flags = {}

\* What the handler's suspension point says about the signature mark.
HandlerInv ==
    /\ pc["handler"] \in {"sign", "send"} => "created" \in flags
    /\ pc["handler"] = "send" => "made" \in sig
    /\ pc["handler"] \notin {"idle", "sign", "send"} => "created" \notin flags

\* An invitation that a pass found orphaned is still untouched.
OrphanInv ==
    /\ state = "invited" => pc["handler"] = "idle"
    /\ /\ pc["reconciler"] = "scan"
       /\ seenState["reconciler"] = "invited"
       /\ seenLive = {}
       => /\ session \notin {"live", "complete"}
          /\ pc["handler"] = "idle" /\ state = "invited"

\* Inputs the maker gave back belong to a record that stays inactive.
LeaseInv ==
    /\ lease = "released" => \/ state \in {"retired", "confirmed_open"}
                             \/ state = "none" /\ session # "live"
    /\ state = "confirmed_open" => tx = "confirmed" /\ "created" \in flags

Inv ==
    /\ TypeOK /\ SigInv /\ CreatedInv /\ RetireInv /\ ChanInv
    /\ HandlerInv /\ OrphanInv /\ LeaseInv

-----------------------------------------------------------------------------
(* What the journal's rules guarantee                                      *)

\* Only an active record can be escalated (_ALLOWED_TRANSITIONS).
LEMMA RecoveryFromActive ==
    ASSUME NEW s, can_transition_to(s, "recovery_required")
    PROVE  s \in ActiveStates
  BY DEF can_transition_to, AllowedTransitions, ActiveStates, States

\* Which states an accepted change may join, and that an accepted record never
\* has both a signature mark and a retirement intent.
LEMMA TransitionFacts ==
    ASSUME NEW s, NEW f, NEW t, NEW g, transition_allowed(s, f, t, g)
    PROVE  /\ s = "retired" => t = "retired"
           /\ s = "none" => t = "none"
           /\ s = "confirmed_open" => t \in {"confirmed_open", "retiring", "retired"}
           /\ t \in {"none", "invited", "planned"} => s \in {t, "invited"}
           /\ t = "ready" => s \in {"ready", "psbt_verified"}
           /\ t = "signing" => s \in {"signing", "ready"}
           /\ (s = t /\ f = g) \/ validate_record(t, g)
  BY DEF transition_allowed, can_transition_to, AllowedTransitions, ActiveStates, States

\* What validate_record guarantees of an accepted record.
LEMMA ValidRecord ==
    ASSUME NEW t, NEW g, validate_record(t, g)
    PROVE  /\ "intent" \in g => "created" \notin g /\ t \in IntentStates
           /\ t \in {"signed", "broadcast", "confirmed_open"} => "created" \in g
  BY DEF validate_record, has_unsigned_funding_evidence

-----------------------------------------------------------------------------
(* Type correctness                                                        *)

\* The suspension points each step may go to.
LEMMA LabelMembers ==
    {"idle", "plan", "open", "resolve", "verify", "observe", "sign", "send", "cancel",
     "shim", "scan", "chain", "rebroadcast", "chain_again", "inputs", "points",
     "release", "release_retired", "r_tx", "r_utxo", "r_first", "w_first",
     "r_second", "w_second"} \subseteq Labels
  BY DEF Labels, RetireLabels

\* The lifecycle states each step may save.
LEMMA StateMembers ==
    {"invited", "planned", "acceptor_armed", "prepared_not_verified", "verifying",
     "psbt_verified", "ready", "signing", "signed", "broadcast", "confirmed_open",
     "retiring", "retired", "recovery_required"} \subseteq States
  BY DEF States

\* The facts each step may journal.
LEMMA FlagMembers ==
    {"maker", "open_started", "prepared", "evidence", "points", "observed",
     "readiness", "created", "sent", "final", "absent", "intent"} \subseteq Flags
  BY DEF Flags

\* Moving one actor keeps the type of pc.
LEMMA GotoType ==
    ASSUME pc \in [Actors -> Labels], NEW a, NEW l \in Labels, Goto(a, l)
    PROVE  pc' \in [Actors -> Labels]
  BY DEF Goto

\* The `except' clauses keep the types of what they write.
LEMMA FailType ==
    ASSUME TypeOK, NEW a, Fail(a)
    PROVE  /\ state' \in States \cup {"none"} /\ flags' \subseteq Flags
           /\ pc' \in [Actors -> Labels]
  BY GotoType, LabelMembers, StateMembers DEF TypeOK, Fail

\* So does a journal change or its refusal.
LEMMA TransitionOrFailType ==
    ASSUME TypeOK, NEW a, NEW t \in States \cup {"none"}, NEW g \in SUBSET Flags,
           NEW l \in Labels, transition_or_fail(a, t, g, l)
    PROVE  /\ state' \in States \cup {"none"} /\ flags' \subseteq Flags
           /\ pc' \in [Actors -> Labels]
  BY GotoType, FailType DEF TypeOK, transition_or_fail

\* So does claiming a retirement.
LEMMA BeginRetireType ==
    ASSUME TypeOK, NEW a, NEW s \in States \cup {"none"}, BeginRetire(a, s)
    PROVE  /\ state' \in States \cup {"none"} /\ flags' \subseteq Flags
           /\ pc' \in [Actors -> Labels]
           /\ lease' \in {"held", "free", "released", "taken"}
<1>1. flags \cup {"intent"} \in SUBSET Flags
  BY FlagMembers DEF TypeOK
<1>2. (IF s = "retired" THEN "idle" ELSE "r_tx") \in Labels
  BY LabelMembers
<1>3. transition_or_fail(a, s, flags \cup {"intent"}, IF s = "retired" THEN "idle" ELSE "r_tx")
  BY DEF BeginRetire
<1>4. lease' \in {"held", "free", "released", "taken"}
  BY DEF BeginRetire, Released, TypeOK
<1> QED
  BY <1>1, <1>2, <1>3, <1>4, TransitionOrFailType

\* So does the decision of ring_cancel.
LEMMA CancelDecisionType ==
    ASSUME TypeOK, NEW s \in States \cup {"none"}, NEW f, CancelDecision(s, f)
    PROVE  /\ state' \in States \cup {"none"} /\ flags' \subseteq Flags
           /\ pc' \in [Actors -> Labels]
           /\ rpc' \subseteq Requests
           /\ lease' \in {"held", "free", "released", "taken"}
<1>1. CASE BeginRetire("handler", s)
  <2>1. rpc' = rpc
    BY <1>1 DEF BeginRetire
  <2> QED BY <1>1, <2>1, BeginRetireType DEF TypeOK
<1>2. CASE Fail("handler") /\ UNCHANGED <<rpc, lease>>
  BY <1>2, FailType DEF TypeOK
<1>3. CASE /\ state' \in {"retired", "recovery_required", "retiring"} /\ flags' = flags
           /\ \E l \in {"idle", "shim"} : Goto("handler", l)
           /\ lease' \in {Released, lease} /\ rpc' \in {rpc, rpc \cup {"cancel"}}
  BY <1>3, GotoType, LabelMembers, StateMembers DEF TypeOK, Released, Requests
<1> QED
  BY <1>1, <1>2, <1>3 DEF CancelDecision

\* So does the end of one edge's retirement.
LEMMA EdgeRetiredType ==
    ASSUME TypeOK, NEW a, NEW e, EdgeRetired(a, e)
    PROVE  /\ state' \in States \cup {"none"} /\ flags' \subseteq Flags
           /\ pc' \in [Actors -> Labels]
           /\ lease' \in {"held", "free", "released", "taken"}
<1>1. CASE e = FirstEnd
  BY <1>1, GotoType, LabelMembers DEF EdgeRetired, TypeOK, journal
<1>2. CASE e # FirstEnd
  <2>1. (IF a = "handler" THEN "idle" ELSE "release_retired") \in Labels
    BY LabelMembers
  <2>2. transition_or_fail(a, "retired", flags,
                           IF a = "handler" THEN "idle" ELSE "release_retired")
    BY <1>2 DEF EdgeRetired
  <2>3. lease' \in {"held", "free", "released", "taken"}
    BY <1>2 DEF EdgeRetired, Released, TypeOK
  <2> QED BY <2>1, <2>2, <2>3, TransitionOrFailType, StateMembers, ZenonT(60) DEF TypeOK
<1> QED BY <1>1, <1>2, Zenon

\* The variables a handler writes; the others keep their values.
LEMMA HandlerType ==
    ASSUME TypeOK, state' \in States \cup {"none"}, flags' \subseteq Flags,
           pc' \in [Actors -> Labels], memory' \subseteq Memory, rpc' \subseteq Requests,
           lease' \in {"held", "free", "released", "taken"},
           UNCHANGED <<session, seenState, seenFlags, seenLive, proc, shim, chan, sig, tx,
                       spent, faults, crashes>>
    PROVE  TypeOK'
  BY ZenonT(60) DEF TypeOK

\* The variables the pass and a retirement write.
LEMMA PassType ==
    ASSUME TypeOK, state' \in States \cup {"none"}, flags' \subseteq Flags,
           pc' \in [Actors -> Labels], memory' \subseteq Memory, rpc' \subseteq Requests,
           lease' \in {"held", "free", "released", "taken"},
           tx' \in {"absent", "mempool", "confirmed"}, Fault \/ NoFault,
           UNCHANGED <<session, seenState, seenFlags, seenLive, proc, shim, chan, sig,
                       spent, crashes>>
    PROVE  TypeOK'
<1>1. faults' \in 0..MaxFaults
  BY BoundsAssumption, SMTT(60) DEF TypeOK, Fault, NoFault
<1> QED BY <1>1, ZenonT(60) DEF TypeOK

\* The parts of TypeOK these lemmas leave to the caller.
LEMMA Types ==
    ASSUME TypeOK
    PROVE  /\ state \in States \cup {"none"} /\ flags \subseteq Flags
           /\ pc \in [Actors -> Labels] /\ memory \subseteq Memory /\ rpc \subseteq Requests
           /\ lease \in {"held", "free", "released", "taken"}
           /\ tx \in {"absent", "mempool", "confirmed"}
           /\ seenState \in [Actors -> States \cup {"none"}]
           /\ seenFlags \in [Actors -> SUBSET Flags]
  BY Zenon DEF TypeOK

\* A released input is in one of the lease states.
LEMMA ReleasedType ==
    ASSUME lease \in {"held", "free", "released", "taken"}
    PROVE  Released \in {"held", "free", "released", "taken"}
  BY SMTT(60) DEF Released

\* The handler's messages up to the signature.
LEMMA MessageType ==
    ASSUME TypeOK,
           \/ _invite \/ _plan \/ _plan_armed \/ _open \/ _open_prepared \/ _unsigned
           \/ _unsigned_verify \/ _unsigned_verified \/ _unsigned_ready \/ _ready_set \/ _sign
           \/ on_tx
    PROVE  TypeOK'
<1>1. UNCHANGED <<session, seenState, seenFlags, seenLive, proc, shim, chan, sig, tx,
                  spent, faults, crashes>>
  BY ZenonT(60)
  DEF _invite, _plan, _plan_armed, _open, _open_prepared, _unsigned, _unsigned_verify,
      _unsigned_verified, _unsigned_ready, _ready_set, _sign, on_tx, process, lnd, chain, counters
<1>2. state' \in {state, "invited", "planned", "acceptor_armed", "prepared_not_verified",
                  "verifying", "psbt_verified", "ready", "signing"}
  BY ZenonT(60)
  DEF _invite, _plan, _plan_armed, _open, _open_prepared, _unsigned, _unsigned_verify,
      _unsigned_verified, _unsigned_ready, _ready_set, _sign, on_tx, journal, transition
<1>3. \/ flags' \in {flags, {"maker"}}
      \/ \E x \in {"open_started", "prepared", "evidence", "points", "observed",
                   "readiness", "created"} : flags' = flags \cup {x}
  BY ZenonT(60)
  DEF _invite, _plan, _plan_armed, _open, _open_prepared, _unsigned, _unsigned_verify,
      _unsigned_verified, _unsigned_ready, _ready_set, _sign, on_tx, journal, transition
<1>4. \/ pc' = pc
      \/ \E l \in {"idle", "plan", "open", "resolve", "verify", "observe", "sign"} :
            Goto("handler", l)
  BY ZenonT(60)
  DEF _invite, _plan, _plan_armed, _open, _open_prepared, _unsigned, _unsigned_verify,
      _unsigned_verified, _unsigned_ready, _ready_set, _sign, on_tx, process
<1>5. \/ memory' \in {memory, memory \cup {"seen"}, memory \cup {"verified"},
                      memory \cup {"observed_out", "observed_in"}}
      \/ \E seen \in SUBSET {"observed_out", "observed_in"} : memory' = memory \cup seen
  BY ZenonT(60)
  DEF _invite, _plan, _plan_armed, _open, _open_prepared, _unsigned, _unsigned_verify,
      _unsigned_verified, _unsigned_ready, _ready_set, _sign, on_tx, process
<1>6. rpc' \in {rpc, rpc \cup {"open"}, rpc \cup {"cancel"}, rpc \cup {"verify"}}
  BY ZenonT(60)
  DEF _invite, _plan, _plan_armed, _open, _open_prepared, _unsigned, _unsigned_verify,
      _unsigned_verified, _unsigned_ready, _ready_set, _sign, on_tx, lnd
<1>7. lease' \in {lease, "held", Released}
  BY ZenonT(60)
  DEF _invite, _plan, _plan_armed, _open, _open_prepared, _unsigned, _unsigned_verify,
      _unsigned_verified, _unsigned_ready, _ready_set, _sign, on_tx
<1>8. state' \in States \cup {"none"} /\ flags' \subseteq Flags
  BY <1>2, <1>3, Types, StateMembers, FlagMembers, SMTT(60)
<1>9. pc' \in [Actors -> Labels]
  BY <1>4, Types, GotoType, LabelMembers, SMTT(60)
<1>10. memory' \subseteq Memory /\ rpc' \subseteq Requests
  <2>1. memory' \subseteq memory \cup {"seen", "verified", "observed_out", "observed_in"}
    BY <1>5, ZenonT(60)
  <2> QED BY <1>6, <2>1, Types, SMTT(60) DEF Memory, Requests
<1>11. lease' \in {"held", "free", "released", "taken"}
  BY <1>7, Types, ReleasedType, SMTT(60)
<1> QED BY <1>1, <1>8, <1>9, <1>10, <1>11, HandlerType, Zenon

\* The signatures, !push and the deadline.
LEMMA SendType ==
    ASSUME TypeOK, on_tx_signed \/ on_tx_send \/ _handle_push \/ _expire_timed_out_session
    PROVE  TypeOK'
<1>1. UNCHANGED <<seenState, seenFlags, seenLive, proc, memory, rpc, shim, chan, spent,
                  faults, crashes>>
  BY ZenonT(60)
  DEF on_tx_signed, on_tx_send, _handle_push, _expire_timed_out_session, process, lnd, chain,
      counters
<1>2. /\ state' \in {state, "signed", "broadcast"}
      /\ flags' \in {flags, flags \cup {"sent"}, flags \cup {"final"}}
      /\ pc' = pc \/ \E l \in {"idle", "send"} : Goto("handler", l)
  BY ZenonT(60)
  DEF on_tx_signed, on_tx_send, _handle_push, _expire_timed_out_session, process, journal,
      transition
<1>3. /\ session' \in {session, "complete", "expired"}
      /\ sig' \in {sig, sig \cup {"made"}, sig \cup {"sent"}}
      /\ lease' \in {lease, Released}
  BY ZenonT(60)
  DEF on_tx_signed, on_tx_send, _handle_push, _expire_timed_out_session, process, chain
<1>4. tx' \in {tx, "absent", "mempool"}
  BY SMTT(60) DEF on_tx_signed, on_tx_send, _handle_push, _expire_timed_out_session, chain
<1>5. state' \in States \cup {"none"} /\ flags' \subseteq Flags
  BY <1>2, Types, StateMembers, FlagMembers, SMTT(60)
<1>6. pc' \in [Actors -> Labels]
  BY <1>2, Types, GotoType, LabelMembers, SMTT(60)
<1>7. /\ session' \in {"live", "complete", "expired", "none"} /\ sig' \subseteq {"made", "sent"}
      /\ lease' \in {"held", "free", "released", "taken"}
      /\ tx' \in {"absent", "mempool", "confirmed"}
  BY <1>3, <1>4, ReleasedType, SMTT(60) DEF TypeOK
<1> QED BY <1>1, <1>5, <1>6, <1>7, ZenonT(60) DEF TypeOK

\* ring_cancel.
LEMMA CancelType ==
    ASSUME TypeOK, _cancel \/ _cancel_decide \/ _cancel_shim
    PROVE  TypeOK'
<1>0. "handler" \in Actors
  BY DEF Actors
<1>1. ASSUME NEW s \in States \cup {"none"}, NEW f, CancelDecision(s, f),
             UNCHANGED <<session, seenState, seenFlags, seenLive, proc, memory, shim, chan,
                         sig, tx, spent, faults, crashes>>
      PROVE  TypeOK'
  <2>1. memory' \subseteq Memory
    BY <1>1, Types, Zenon
  <2> QED BY <1>1, <2>1, CancelDecisionType, HandlerType, ZenonT(60)
<1>2. CASE _cancel
  <2>1. /\ UNCHANGED <<session, seenLive, proc, memory, shim, chan, sig, tx, spent, faults, crashes>>
        /\ state \in States \cup {"none"}
    BY <1>2, Types, ZenonT(60) DEF _cancel, chain, counters
  <2>2. CASE CancelDecision(state, flags) /\ UNCHANGED <<seenState, seenFlags>>
    BY <1>1, <2>1, <2>2, ZenonT(60)
  <2>3. CASE Goto("handler", "cancel") /\ Read("handler") /\ UNCHANGED <<journal, rpc, lease>>
    <3>1. pc' \in [Actors -> Labels]
      BY <2>3, Types, GotoType, LabelMembers, SMTT(60)
    <3>2. /\ seenState' \in [Actors -> States \cup {"none"}]
          /\ seenFlags' \in [Actors -> SUBSET Flags]
      BY <2>3, Types, SMTT(60) DEF Read
    <3> QED BY <2>1, <2>3, <3>1, <3>2, ZenonT(60) DEF TypeOK, journal
  <2> QED BY <1>2, <2>2, <2>3, ZenonT(60) DEF _cancel
<1>3. CASE _cancel_decide
  <2>1. seenState["handler"] \in States \cup {"none"}
    BY <1>0, Types, Zenon
  <2> QED BY <1>1, <1>3, <2>1, ZenonT(60) DEF _cancel_decide, chain, counters
<1>4. CASE _cancel_shim
  <2>1. /\ memory' \in {memory, memory \ {"pending", "shim_known"}}
        /\ lease' \in {lease, Released} /\ (Fault \/ NoFault)
        /\ transition_or_fail("handler", "retired", flags, "idle") \/ Fail("handler")
        /\ UNCHANGED <<session, seenState, seenFlags, seenLive, proc, rpc, shim, chan, sig, tx,
                       spent, crashes>>
    BY <1>4, ZenonT(60) DEF _cancel_shim, lnd, chain
  <2>2. /\ memory' \subseteq Memory /\ lease' \in {"held", "free", "released", "taken"}
        /\ rpc' \subseteq Requests /\ tx' \in {"absent", "mempool", "confirmed"}
    BY <2>1, Types, ReleasedType, SMTT(60)
  <2>3. "retired" \in States \cup {"none"} /\ flags \in SUBSET Flags /\ "idle" \in Labels
    BY Types, StateMembers, LabelMembers, SMTT(60)
  <2>4. /\ state' \in States \cup {"none"} /\ flags' \subseteq Flags
        /\ pc' \in [Actors -> Labels]
    BY <1>0, <2>1, <2>3, FailType, TransitionOrFailType, ZenonT(60)
  <2> QED BY <2>1, <2>2, <2>4, PassType, ZenonT(60)
<1> QED BY <1>2, <1>3, <1>4, Zenon

\* The reconciliation pass beside the retirement it begins.
LEMMA ReconcileType ==
    ASSUME TypeOK,
           \/ reconcile_record \/ reconcile_chain \/ reconcile_rebroadcast \/ reconcile_inputs
           \/ reconcile_points
    PROVE  TypeOK'
<1>0. /\ "reconciler" \in Actors /\ seenState["reconciler"] \in States \cup {"none"}
      /\ seenFlags["reconciler"] \in SUBSET Flags
  BY Types, SMTT(60) DEF Actors
<1>1. UNCHANGED <<session, seenState, seenFlags, seenLive, proc, shim, chan, sig, spent, crashes>>
  BY ZenonT(60)
  DEF reconcile_record, reconcile_chain, reconcile_rebroadcast, reconcile_inputs,
      reconcile_points, lnd, chain, counters
<1>2. CASE reconcile_record
  <2>1. UNCHANGED <<tx, faults>> /\ tx' \in {"absent", "mempool", "confirmed"}
    BY <1>2, Types, ZenonT(60) DEF reconcile_record, chain, counters
  <2>2. CASE BeginRetire("reconciler", seenState["reconciler"])
    <3>1. memory' \subseteq Memory /\ rpc' \subseteq Requests
      BY <2>2, Types, ZenonT(60) DEF BeginRetire
    <3> QED BY <1>0, <1>1, <2>1, <2>2, <3>1, BeginRetireType, HandlerType, ZenonT(60)
  <2>3. CASE /\ \E l \in {"release", "release_retired", "chain", "points"} : Goto("reconciler", l)
             /\ state' \in {state, "retired"} /\ flags' = flags /\ UNCHANGED <<lease, rpc>>
             /\ memory' \in {memory, Resumed(memory, seenFlags["reconciler"])}
    <3>1. state' \in States \cup {"none"} /\ flags' \subseteq Flags
      BY <2>3, Types, StateMembers, SMTT(60)
    <3>2. pc' \in [Actors -> Labels]
      BY <2>3, Types, GotoType, LabelMembers, SMTT(60)
    <3>3. memory' \subseteq Memory
      BY <2>3, Types, SMTT(60) DEF Resumed, Memory
    <3>4. /\ rpc' \subseteq Requests /\ lease' \in {"held", "free", "released", "taken"}
      BY <2>3, Types, Zenon
    <3> QED BY <1>1, <2>1, <3>1, <3>2, <3>3, <3>4, HandlerType, ZenonT(60)
  <2> QED BY <1>2, <2>2, <2>3, ZenonT(60) DEF reconcile_record, journal
<1>3. CASE reconcile_chain \/ reconcile_rebroadcast \/ reconcile_inputs \/ reconcile_points
  <2>1. /\ UNCHANGED <<memory, rpc, lease>> /\ (Fault \/ NoFault)
        /\ tx' \in {tx, "mempool"}
    BY <1>3, ZenonT(60)
    DEF reconcile_chain, reconcile_rebroadcast, reconcile_inputs, reconcile_points, lnd, chain
  <2>2. \/ Fail("reconciler")
        \/ transition_or_fail("reconciler", "confirmed_open", Confirmed(flags), "release")
        \/ /\ state' \in {state, "broadcast"} /\ flags' = flags
           /\ \E l \in {"rebroadcast", "inputs", "chain_again", "points", "release"} :
                 Goto("reconciler", l)
    BY <1>3, ZenonT(60)
    DEF reconcile_chain, reconcile_rebroadcast, reconcile_inputs, reconcile_points,
        TransactionFound, journal
  <2>3. CASE Fail("reconciler")
             \/ transition_or_fail("reconciler", "confirmed_open", Confirmed(flags), "release")
    <3>1. /\ "confirmed_open" \in States \cup {"none"} /\ Confirmed(flags) \in SUBSET Flags
          /\ "release" \in Labels
      BY Types, StateMembers, LabelMembers, SMTT(60) DEF Confirmed, Flags
    <3>2. /\ state' \in States \cup {"none"} /\ flags' \subseteq Flags
          /\ pc' \in [Actors -> Labels]
      BY <1>0, <2>3, <3>1, FailType, TransitionOrFailType, ZenonT(60)
    <3>3. /\ memory' \subseteq Memory /\ rpc' \subseteq Requests
          /\ lease' \in {"held", "free", "released", "taken"}
          /\ tx' \in {"absent", "mempool", "confirmed"}
      BY <2>1, Types, SMTT(60)
    <3> QED BY <1>1, <2>1, <3>2, <3>3, PassType, ZenonT(60)
  <2>4. CASE /\ state' \in {state, "broadcast"} /\ flags' = flags
             /\ \E l \in {"rebroadcast", "inputs", "chain_again", "points", "release"} :
                   Goto("reconciler", l)
    <3>1. state' \in States \cup {"none"} /\ flags' \subseteq Flags
      BY <2>4, Types, StateMembers, SMTT(60)
    <3>2. pc' \in [Actors -> Labels]
      BY <2>4, Types, GotoType, LabelMembers, SMTT(60)
    <3>3. /\ memory' \subseteq Memory /\ rpc' \subseteq Requests
          /\ lease' \in {"held", "free", "released", "taken"}
          /\ tx' \in {"absent", "mempool", "confirmed"}
      BY <2>1, Types, SMTT(60)
    <3> QED BY <1>1, <2>1, <3>1, <3>2, <3>3, PassType, ZenonT(60)
  <2> QED BY <2>2, <2>3, <2>4, Zenon
<1> QED BY <1>2, <1>3, Zenon

\* The pass's beginning and end, the crash and the restart.
LEMMA ProcessType ==
    ASSUME TypeOK, reconcile_begin \/ reconcile_end \/ Crash \/ Restart
    PROVE  TypeOK'
<1>1. ASSUME Stopped, UNCHANGED journal \/ TornJournal, crashes' \in 0..MaxCrashes,
             UNCHANGED <<rpc, shim, chan, sig, tx, spent, lease, faults>>
      PROVE  TypeOK'
  <2>1. /\ state' \in {state, "retiring"} /\ flags' \in {flags, flags \cup {"observed"}}
    BY <1>1, ZenonT(60) DEF TornJournal, journal
  <2>2. state' \in States \cup {"none"} /\ flags' \subseteq Flags
    BY <2>1, Types, StateMembers, FlagMembers, SMTT(60)
  <2>3. /\ session' \in {"live", "complete", "expired", "none"} /\ proc' \in {"up", "down"}
        /\ pc' \in [Actors -> Labels] /\ seenState' \in [Actors -> States \cup {"none"}]
        /\ seenFlags' \in [Actors -> SUBSET Flags] /\ seenLive' \subseteq {"live"}
        /\ memory' \subseteq Memory
    BY <1>1, LabelMembers, SMTT(60) DEF Stopped
  <2> QED BY <1>1, <2>2, <2>3, ZenonT(60) DEF TypeOK
<1>2. CASE Crash
  <2>1. crashes' \in 0..MaxCrashes
    BY <1>2, BoundsAssumption, SMTT(60) DEF TypeOK, Crash
  <2> QED BY <1>1, <1>2, <2>1, ZenonT(60) DEF Crash, lnd, chain
<1>3. CASE Restart
  BY <1>3, ZenonT(60) DEF Restart, TypeOK, journal, lnd, chain, counters
<1>4. CASE reconcile_begin
  <2>1. /\ seenState' \in [Actors -> States \cup {"none"}]
        /\ seenFlags' \in [Actors -> SUBSET Flags] /\ seenLive' \subseteq {"live"}
    BY <1>4, Types, SMTT(60) DEF reconcile_begin, Read
  <2>2. pc' \in [Actors -> Labels]
    BY <1>4, Types, GotoType, LabelMembers, SMTT(60) DEF reconcile_begin
  <2> QED BY <1>4, <2>1, <2>2, ZenonT(60)
          DEF reconcile_begin, TypeOK, journal, lnd, chain, counters
<1>5. CASE reconcile_end
  <2>1. UNCHANGED <<rpc, shim, chan, sig, tx, spent, faults, crashes>>
    BY <1>5, ZenonT(60) DEF reconcile_end, lnd, chain, counters
  <2>2. CASE Stopped /\ UNCHANGED <<journal, lease>>
    <3>1. crashes' \in 0..MaxCrashes
      BY <2>1, Zenon DEF TypeOK
    <3> QED BY <1>1, <2>1, <2>2, <3>1, ZenonT(60)
  <2>3. CASE /\ Goto("reconciler", "idle")
             /\ lease' \in {"held", Released, lease}
             /\ state' = state /\ flags' \in {flags, flags \ {"intent"}}
             /\ UNCHANGED <<session, seenState, seenFlags, seenLive, proc, memory>>
    <3>1. pc' \in [Actors -> Labels]
      BY <2>3, Types, GotoType, LabelMembers, SMTT(60)
    <3>2. /\ state' \in States \cup {"none"} /\ flags' \subseteq Flags
          /\ memory' \subseteq Memory /\ rpc' \subseteq Requests
          /\ lease' \in {"held", "free", "released", "taken"}
      BY <2>1, <2>3, Types, ReleasedType, SMTT(60)
    <3> QED BY <2>1, <2>3, <3>1, <3>2, HandlerType, ZenonT(60)
  <2> QED BY <1>5, <2>2, <2>3, ZenonT(60) DEF reconcile_end
<1> QED BY <1>2, <1>3, <1>4, <1>5, Zenon

\* _retire_unsigned_record.
LEMMA RetireType ==
    ASSUME TypeOK, NEW a \in Actors, _retire_unsigned_record(a)
    PROVE  TypeOK'
<1>1. /\ UNCHANGED <<session, seenState, seenLive, proc, shim, chan, sig, tx, spent, crashes>>
      /\ Fault \/ NoFault
  BY ZenonT(60)
  DEF _retire_unsigned_record, retire_check_tx, retire_check_inputs, retire_edge,
      retire_edge_gone, lnd, chain
<1>2. tx' \in {"absent", "mempool", "confirmed"}
  BY <1>1, Types, Zenon
<1>3. CASE retire_check_inputs(a)
  <2>1. /\ memory' \in {memory, Resumed(memory, flags)} /\ UNCHANGED <<rpc, lease>>
        /\ \/ seenFlags' = seenFlags
           \/ seenFlags' = [x \in Actors |-> IF x = a THEN flags \cup {"absent"} ELSE seenFlags[x]]
        /\ \/ transition_or_fail(a, "retiring", flags \cup {"absent"}, "r_first")
           \/ Fail(a)
    BY <1>3, ZenonT(60) DEF retire_check_inputs, lnd
  <2>2. /\ "retiring" \in States \cup {"none"} /\ flags \cup {"absent"} \in SUBSET Flags
        /\ "r_first" \in Labels
    BY Types, StateMembers, FlagMembers, LabelMembers, SMTT(60)
  <2>3. /\ state' \in States \cup {"none"} /\ flags' \subseteq Flags
        /\ pc' \in [Actors -> Labels]
    BY <2>1, <2>2, FailType, TransitionOrFailType, ZenonT(60)
  <2>4. seenFlags' \in [Actors -> SUBSET Flags]
    BY <2>1, <2>2, Types, SMTT(60)
  <2>5. memory' \subseteq Memory
    BY <2>1, Types, SMTT(60) DEF Resumed, Memory
  <2>6. faults' \in 0..MaxFaults
    BY <1>1, BoundsAssumption, SMTT(60) DEF TypeOK, Fault, NoFault
  <2> QED BY <1>1, <2>1, <2>3, <2>4, <2>5, <2>6, ZenonT(60) DEF TypeOK
<1>4. ASSUME memory' \in {memory} \cup {Forgotten(memory, e) : e \in Ends}, UNCHANGED seenFlags,
             rpc' \in {rpc} \cup {rpc \cup {Abandon(e)} : e \in Ends},
             state' \in States \cup {"none"}, flags' \subseteq Flags,
             pc' \in [Actors -> Labels], lease' \in {"held", "free", "released", "taken"}
      PROVE  TypeOK'
  <2>1. memory' \subseteq Memory /\ rpc' \subseteq Requests
    BY <1>4, Types, SMTT(60) DEF Forgotten, Memory, Abandon, Requests, Ends
  <2> QED BY <1>1, <1>2, <1>4, <2>1, PassType, ZenonT(60)
<1>5. ASSUME Fail(a), UNCHANGED <<memory, rpc, lease, seenFlags>> PROVE TypeOK'
  BY <1>4, <1>5, Types, FailType, ZenonT(60)
<1>6. ASSUME NEW l \in {"r_utxo", "w_first", "w_second"}, Goto(a, l), UNCHANGED <<journal, lease>>,
             UNCHANGED <<memory, seenFlags>>,
             rpc' \in {rpc} \cup {rpc \cup {Abandon(e)} : e \in Ends}
      PROVE  TypeOK'
  <2>1. pc' \in [Actors -> Labels]
    BY <1>6, Types, GotoType, LabelMembers, SMTT(60)
  <2> QED BY <1>4, <1>6, <2>1, Types, ZenonT(60) DEF journal
<1>7. CASE retire_check_tx(a)
  BY <1>5, <1>6, <1>7, ZenonT(60) DEF retire_check_tx, lnd
<1>8. ASSUME NEW e \in Ends, EdgeRetired(a, e), memory' = Forgotten(memory, e),
             UNCHANGED <<rpc, seenFlags>>
      PROVE  TypeOK'
  BY <1>4, <1>8, EdgeRetiredType, ZenonT(60)
<1>9. ASSUME NEW e \in Ends, retire_edge(a, e) \/ retire_edge_gone(a, e) PROVE TypeOK'
  BY <1>5, <1>6, <1>8, <1>9, ZenonT(60) DEF retire_edge, retire_edge_gone, lnd
<1> QED BY <1>3, <1>7, <1>9, ZenonT(60) DEF _retire_unsigned_record

\* LND, the chain and the wallet's other users.
LEMMA EnvironmentType == ASSUME TypeOK, Environment PROVE TypeOK'
<1>1. UNCHANGED <<state, flags, session, pc, seenState, seenFlags, seenLive, proc, sig, crashes>>
  BY ZenonT(60)
  DEF Environment, LndExecute, PredecessorVerifies, TakerBroadcasts, Confirm, Evict,
      LeaseExpires, OthersTake, OthersSpend, journal, process, lnd, chain, counters
<1>2. /\ rpc' \subseteq rpc /\ shim' \in {shim, "open", "consumed", "canceled"}
      /\ memory' \in {memory, memory \cup {"pending", "shim_known"}}
  BY SMTT(60)
  DEF Environment, LndExecute, PredecessorVerifies, TakerBroadcasts, Confirm, Evict,
      LeaseExpires, OthersTake, OthersSpend, process, lnd
<1>3. chan' \in [Ends -> {"none", "pending", "abandoned"}]
  BY SMTT(60)
  DEF TypeOK, Environment, LndExecute, PredecessorVerifies, TakerBroadcasts, Confirm, Evict,
      LeaseExpires, OthersTake, OthersSpend, lnd
<1>4. /\ tx' \in {tx, "absent", "mempool", "confirmed"} /\ spent' \in {spent, {"other"}}
      /\ lease' \in {lease, "free", "taken"} /\ (faults' = faults \/ Fault)
  BY SMTT(60)
  DEF Environment, LndExecute, PredecessorVerifies, TakerBroadcasts, Confirm, Evict,
      LeaseExpires, OthersTake, OthersSpend, chain, counters
<1>5. rpc' \subseteq Requests /\ memory' \subseteq Memory
  BY <1>2, Types, SMTT(60) DEF Memory
<1>6. /\ shim' \in {"none", "open", "consumed", "canceled"}
      /\ tx' \in {"absent", "mempool", "confirmed"} /\ spent' \subseteq {"other"}
      /\ lease' \in {"held", "free", "released", "taken"} /\ faults' \in 0..MaxFaults
  BY <1>2, <1>4, BoundsAssumption, SMTT(60) DEF TypeOK, Fault
<1> QED BY <1>1, <1>3, <1>5, <1>6, ZenonT(60) DEF TypeOK

\* Every step of the maker and of its environment preserves the types.
LEMMA TypeStep == TypeOK /\ [Next]_vars => TypeOK'
<1> SUFFICES ASSUME TypeOK, [Next]_vars PROVE TypeOK'
  OBVIOUS
<1>1. CASE Handler
  BY <1>1, MessageType, SendType, CancelType, RetireType, ZenonT(60) DEF Handler, Actors
<1>2. CASE reconcile_ring_records
  BY <1>2, ReconcileType, ProcessType, RetireType, ZenonT(60)
  DEF reconcile_ring_records, Actors
<1>3. CASE UNCHANGED vars
  BY <1>3, ZenonT(60) DEF TypeOK, vars, journal, process, lnd, chain, counters
<1> QED BY <1>1, <1>2, <1>3, SendType, ProcessType, EnvironmentType, ZenonT(60) DEF Next

-----------------------------------------------------------------------------
(* The inductive step                                                      *)

\* The parts of Inv beside the types.
Parts ==
    /\ SigInv /\ CreatedInv /\ RetireInv /\ ChanInv
    /\ HandlerInv /\ OrphanInv /\ LeaseInv

\* What the suspended parts of a handler or of the pass never touch.
Quiet ==
    UNCHANGED <<session, seenState, seenLive, chan, sig>>

\* A failed cancellation or pass leaves Parts intact.
LEMMA FailParts ==
    ASSUME TypeOK, Parts, NEW a \in Actors, pc[a] # "idle" \/ session = "live",
           Fail(a), Quiet, UNCHANGED <<rpc, lease>>, tx = "confirmed" => tx' = tx
    PROVE  Parts'
<1> USE DEF Parts, Quiet, Actors
<1>1. /\ pc' = [x \in Actors |-> IF x = a THEN IF a = "handler" THEN "idle" ELSE "release"
                                 ELSE pc[x]]
      /\ flags' = flags
      /\ state' = state \/ (state' = "recovery_required" /\ state \in ActiveStates)
  BY RecoveryFromActive DEF Fail, Goto
<1>2. SigInv' /\ CreatedInv'
  BY <1>1 DEF SigInv, CreatedInv, SignedStates
<1>3. RetireInv'
  BY <1>1 DEF RetireInv, Abandoning, RetireLabels, ActiveStates
<1>4. ChanInv' /\ LeaseInv'
  BY <1>1 DEF ChanInv, LeaseInv, ActiveStates, States
<1>5. HandlerInv' /\ OrphanInv'
  BY <1>1 DEF HandlerInv, OrphanInv, TypeOK
<1> QED BY <1>2, <1>3, <1>4, <1>5, Zenon

\* So does reaching "retired" without a signature.
LEMMA RetiredParts ==
    ASSUME TypeOK, Parts, NEW a \in Actors, pc[a] # "idle" \/ session = "live",
           "created" \notin flags, state' = "retired", flags' = flags,
           NEW l \in {"idle", "release_retired"}, Goto(a, l), a = "reconciler" => l # "idle",
           Quiet, UNCHANGED <<rpc, tx>>
    PROVE  Parts'
<1> USE DEF Parts, Quiet, Actors
<1>1. pc' = [x \in Actors |-> IF x = a THEN l ELSE pc[x]]
  BY DEF Goto
<1>2. SigInv' /\ CreatedInv' /\ LeaseInv'
  BY DEF SigInv, CreatedInv, LeaseInv
<1>3. RetireInv'
  BY DEF RetireInv
<1>4. ChanInv'
  BY DEF ChanInv
<1>5. HandlerInv' /\ OrphanInv'
  BY <1>1 DEF HandlerInv, OrphanInv, TypeOK
<1> QED BY <1>2, <1>3, <1>4, <1>5, Zenon

\* And so does a step to another suspension point, once an abandonment is
\* claimed or while the signature and the retirement are both far.
LEMMA GotoParts ==
    ASSUME TypeOK, Parts, NEW a \in Actors, pc[a] # "idle", UNCHANGED journal,
           NEW l \in Labels \ {"scan", "sign", "send"}, Goto(a, l),
           l \in RetireLabels => pc[a] \in RetireLabels,
           a = "handler" => pc[a] \notin {"sign", "send"},
           rpc' \cap {"abandon_out", "abandon_in"} # {} =>
               rpc \cap {"abandon_out", "abandon_in"} # {} \/ pc[a] \in RetireLabels,
           Quiet, UNCHANGED lease, tx = "confirmed" => tx' = tx
    PROVE  Parts'
<1> USE DEF Parts, Quiet, Actors, journal
<1>1. pc' = [x \in Actors |-> IF x = a THEN l ELSE pc[x]]
  BY DEF Goto
<1>2. SigInv' /\ CreatedInv' /\ LeaseInv' /\ ChanInv'
  BY DEF SigInv, CreatedInv, LeaseInv, ChanInv
<1>3. Abandoning' => Abandoning
  BY <1>1 DEF Abandoning
<1>4. RetireInv'
  BY <1>3 DEF RetireInv
<1>5. HandlerInv' /\ OrphanInv'
  BY <1>1 DEF HandlerInv, OrphanInv, TypeOK
<1> QED BY <1>2, <1>4, <1>5, Zenon

\* Claiming a retirement, under whatever state the claimant read.
LEMMA BeginRetireParts ==
    ASSUME TypeOK, Parts, NEW a \in Actors, pc[a] # "idle" \/ session = "live",
           a = "handler" => pc[a] \notin {"sign", "send"},
           NEW s \in States \cup {"none"}, s \in {"ready", "signing"} => "observed" \in flags,
           BeginRetire(a, s), Quiet, UNCHANGED <<rpc, tx>>
    PROVE  Parts'
<1> DEFINE g == flags \cup {"intent"}
<1>1. CASE transition_allowed(state, flags, s, g)
  <2> USE DEF Parts, Quiet, Actors
  <2>1. /\ state' = s /\ flags' = g
        /\ pc' = [x \in Actors |-> IF x = a THEN IF s = "retired" THEN "idle" ELSE "r_tx"
                                   ELSE pc[x]]
        /\ lease' = IF s = "retired" THEN Released ELSE lease
    BY <1>1 DEF BeginRetire, transition_or_fail, Goto
  <2>2. \/ state = s /\ "intent" \in flags
        \/ validate_record(s, g)
    BY <1>1, TransitionFacts
  <2>3. "created" \notin flags
    BY <2>2, ValidRecord DEF CreatedInv
  <2>4. s \notin {"none", "invited", "confirmed_open"}
    BY <2>2, <2>3, ValidRecord DEF CreatedInv, ChanInv, LeaseInv, IntentStates
  <2>5. state = "retired" => s = "retired"
    BY <1>1, TransitionFacts
  <2>6. state # "none"
    BY <1>1, <2>4, TransitionFacts
  <2>7. state # "confirmed_open"
    BY <2>3 DEF LeaseInv
  <2>8. SigInv' /\ CreatedInv' /\ RetireInv'
    BY <2>1, <2>3, <2>4 DEF SigInv, CreatedInv, RetireInv
  <2>9. ChanInv' /\ LeaseInv'
    BY SMTT(60), <2>1, <2>3, <2>4, <2>5, <2>6, <2>7 DEF ChanInv, LeaseInv, Released
  <2>10. HandlerInv' /\ OrphanInv'
    BY <2>1, <2>3, <2>4 DEF HandlerInv, OrphanInv, TypeOK
  <2> QED BY <2>8, <2>9, <2>10, Zenon
<1>2. CASE ~transition_allowed(state, flags, s, g)
  <2>1. Fail(a)
    BY <1>2 DEF BeginRetire, transition_or_fail
  <2>2. lease' = lease
    BY <1>2 DEF BeginRetire
  <2> QED BY <2>1, <2>2, FailParts
<1> QED BY <1>1, <1>2, Zenon

\* ring_cancel, with the record read before or after the acceptor ended.
LEMMA CancelDecisionParts ==
    ASSUME TypeOK, Parts, NEW s \in States \cup {"none"}, NEW f,
           pc["handler"] # "idle" \/ session = "live",
           pc["handler"] \notin {"sign", "send"}, "created" \notin flags,
           s \in {"ready", "signing"} => "observed" \in flags,
           CancelDecision(s, f), Quiet, UNCHANGED tx
    PROVE  Parts'
<1>0. "handler" \in Actors
  BY DEF Actors
<1>1. CASE Fail("handler") /\ UNCHANGED <<rpc, lease>>
  BY <1>0, <1>1, FailParts
<1>2. CASE BeginRetire("handler", s)
  <2>1. UNCHANGED rpc
    BY <1>2 DEF BeginRetire
  <2> QED BY <1>0, <1>2, <2>1, BeginRetireParts
<1>3. CASE /\ state' = "retired" /\ flags' = flags /\ Goto("handler", "idle")
           /\ rpc' = rpc
  BY <1>0, <1>3, RetiredParts
<1>4. CASE /\ transition_allowed(state, flags, "retiring", flags)
           /\ state' \in {"recovery_required", "retiring"} /\ flags' = flags
           /\ \E l \in {"idle", "shim"} : Goto("handler", l)
           /\ lease' = lease /\ rpc' \in {rpc, rpc \cup {"cancel"}}
  <2> USE DEF Parts, Quiet, Actors
  <2>1. PICK l \in {"idle", "shim"} : pc' = [x \in Actors |-> IF x = "handler" THEN l ELSE pc[x]]
    BY <1>4 DEF Goto
  <2>2. state \notin {"retired", "confirmed_open", "none"}
    BY <1>4, TransitionFacts DEF LeaseInv
  <2>3. SigInv' /\ CreatedInv' /\ ChanInv' /\ LeaseInv'
    BY <1>4, <2>2 DEF SigInv, CreatedInv, ChanInv, LeaseInv, SignedStates
  <2>4. Abandoning' => Abandoning
    BY <1>4, <2>1 DEF Abandoning, RetireLabels
  <2>5. RetireInv'
    BY <1>4, <2>2, <2>4 DEF RetireInv
  <2>6. HandlerInv' /\ OrphanInv'
    BY <1>4, <2>1 DEF HandlerInv, OrphanInv, TypeOK
  <2> QED BY <2>3, <2>5, <2>6, Zenon
<1> QED
  BY <1>1, <1>2, <1>3, <1>4 DEF CancelDecision

\* A change that only the reconciler or a retirement makes, to a state that
\* needs no new evidence beside the mark it may set.
LEMMA AdvanceParts ==
    ASSUME TypeOK, Parts, NEW a \in Actors, pc[a] # "idle",
           a = "handler" => pc[a] \notin {"sign", "send"},
           NEW l \in Labels \ {"scan", "sign", "send", "idle"}, Goto(a, l),
           l \in RetireLabels => pc[a] \in RetireLabels,
           NEW t \in {"broadcast", "confirmed_open", "retiring"}, NEW g,
           g \in {flags, flags \cup {"absent"}, Confirmed(flags)},
           transition_allowed(state, flags, t, g), state' = t, flags' = g,
           t = "confirmed_open" => tx = "confirmed",
           t = "retiring" => "created" \notin flags,
           Quiet, UNCHANGED <<rpc, lease, tx>>
    PROVE  Parts'
<1> USE DEF Parts, Quiet, Actors
<1>1. pc' = [x \in Actors |-> IF x = a THEN l ELSE pc[x]]
  BY DEF Goto
<1>2. \A m \in {"created", "intent", "observed"} : m \in flags' <=> m \in flags
  BY DEF Confirmed
<1>3. state \notin {"retired", "none"}
  BY TransitionFacts
<1>4. "created" \in flags \/ t = state \/ t = "retiring"
  BY <1>2, TransitionFacts, ValidRecord
<1>5. SigInv' /\ CreatedInv'
  BY <1>2, <1>4, TransitionFacts, ValidRecord DEF SigInv, CreatedInv, SignedStates
<1>6. Abandoning' => Abandoning
  BY <1>1 DEF Abandoning
<1>7. RetireInv'
  BY <1>2, <1>3, <1>6 DEF RetireInv
<1>8. ChanInv'
  BY <1>2 DEF ChanInv
<1>9. LeaseInv'
  BY SMTT(60), <1>2, <1>3, <1>4, TransitionFacts DEF LeaseInv
<1>10. HandlerInv' /\ OrphanInv'
  BY <1>1, <1>2 DEF HandlerInv, OrphanInv, TypeOK
<1> QED BY <1>5, <1>7, <1>8, <1>9, <1>10, Zenon

\* The steps of ring_cancel keep Parts.
LEMMA CancelParts ==
    ASSUME TypeOK, Parts, _cancel \/ _cancel_decide
    PROVE  Parts'
<1>1. "handler" \in Actors /\ seenState["handler"] \in States \cup {"none"}
  BY DEF Actors, TypeOK
<1>2. CASE _cancel_decide
  <2>1. pc["handler"] = "cancel" /\ "created" \notin flags
    BY <1>2 DEF _cancel_decide, Parts, HandlerInv
  <2>2. seenState["handler"] \in {"ready", "signing"} => "observed" \in flags
    BY <1>1 DEF Parts, ChanInv
  <2>3. Quiet /\ UNCHANGED tx
    BY <1>2 DEF _cancel_decide, Quiet, chain
  <2> QED BY <1>1, <1>2, <2>1, <2>2, <2>3, CancelDecisionParts DEF _cancel_decide
<1>3. CASE _cancel
  <2>1. /\ pc["handler"] = "idle" /\ session = "live" /\ "created" \notin flags
        /\ state \in States /\ state # "none"
    BY <1>3 DEF _cancel, Dispatch, TypeOK
  <2>2. state \in {"ready", "signing"} => "observed" \in flags
    BY DEF Parts, ChanInv
  <2>3. UNCHANGED <<session, seenLive, chan, sig, tx>>
    BY <1>3 DEF _cancel, chain
  <2>4. CASE CancelDecision(state, flags) /\ UNCHANGED <<seenState, seenFlags>>
    <3>1. Quiet
      BY <2>3, <2>4 DEF Quiet
    <3> QED BY <2>1, <2>2, <2>3, <2>4, <3>1, CancelDecisionParts
  <2>5. CASE /\ state \in {"planned", "acceptor_armed", "retiring", "recovery_required"}
             /\ Goto("handler", "cancel") /\ Read("handler") /\ UNCHANGED <<journal, rpc, lease>>
    <3> USE DEF Parts, Actors, journal
    <3>1. pc' = [x \in Actors |-> IF x = "handler" THEN "cancel" ELSE pc[x]]
      BY <2>5 DEF Goto
    <3>2. SigInv' /\ CreatedInv' /\ LeaseInv'
      BY <2>3, <2>5 DEF SigInv, CreatedInv, LeaseInv
    <3>3. Abandoning' => Abandoning
      BY <2>3, <2>5, <3>1 DEF Abandoning, RetireLabels
    <3>4. RetireInv'
      BY <2>5, <3>3 DEF RetireInv
    <3>5. ChanInv'
      BY <2>3, <2>5 DEF ChanInv, Read
    <3>6. HandlerInv' /\ OrphanInv'
      BY <2>1, <2>3, <2>5, <3>1, SMTT(40) DEF HandlerInv, OrphanInv, Read, TypeOK
    <3> QED BY <3>2, <3>4, <3>5, <3>6, Zenon
  <2> QED BY <1>3, <2>4, <2>5 DEF _cancel
<1> QED BY <1>2, <1>3, Zenon

\* The pass's decision about the record keeps Parts.
LEMMA ReconcileRecordParts ==
    ASSUME TypeOK, Parts, reconcile_record
    PROVE  Parts'
<1>1. /\ "reconciler" \in Actors /\ seenState["reconciler"] \in States \cup {"none"}
      /\ pc["reconciler"] = "scan"
  BY SMTT(40) DEF Actors, TypeOK, reconcile_record
<1>2. Quiet /\ UNCHANGED tx
  BY DEF reconcile_record, Quiet, chain
<1>3. CASE BeginRetire("reconciler", seenState["reconciler"])
  <2>1. rpc' = rpc
    BY <1>3 DEF BeginRetire
  <2>2. seenState["reconciler"] \in {"ready", "signing"} => "observed" \in flags
    BY <1>1 DEF Parts, ChanInv
  <2> QED BY <1>1, <1>2, <1>3, <2>1, <2>2, BeginRetireParts
<1>4. CASE /\ seenState["reconciler"] = "invited" /\ seenLive = {}
           /\ state' = "retired" /\ flags' = flags
           /\ Goto("reconciler", "release_retired") /\ UNCHANGED <<lease, rpc>>
  <2>1. "created" \notin flags
    BY <1>1, <1>4 DEF Parts, OrphanInv, CreatedInv, SignedStates
  <2> QED BY <1>1, <1>2, <1>4, <2>1, RetiredParts
<1>5. CASE /\ \E l \in {"release", "release_retired", "chain", "points"} : Goto("reconciler", l)
           /\ UNCHANGED <<journal, lease, rpc>>
  <2>1. PICK l \in {"release", "release_retired", "chain", "points"} : Goto("reconciler", l)
    BY <1>5
  <2>2. l \in Labels \ {"scan", "sign", "send"} /\ l \notin RetireLabels
    BY LabelMembers DEF RetireLabels
  <2> QED BY <1>1, <1>2, <1>5, <2>1, <2>2, GotoParts
<1> QED BY <1>3, <1>4, <1>5 DEF reconcile_record

\* What the pass finds on the chain keeps Parts.
LEMMA ReconcileChainParts ==
    ASSUME TypeOK, Parts, reconcile_chain
    PROVE  Parts'
<1>1. /\ "reconciler" \in Actors /\ pc["reconciler"] # "idle"
      /\ {"rebroadcast", "inputs", "release", "points"} \subseteq Labels
      /\ {"rebroadcast", "inputs", "release", "points"} \cap RetireLabels = {}
  BY LabelMembers DEF Actors, reconcile_chain, RetireLabels
<1>2. Quiet /\ UNCHANGED <<rpc, lease, tx>>
  BY DEF reconcile_chain, Quiet, chain, lnd
<1>3. CASE Fail("reconciler")
  BY <1>1, <1>2, <1>3, FailParts
<1>4. CASE \E l \in {"rebroadcast", "inputs", "points"} :
               Goto("reconciler", l) /\ UNCHANGED journal
  BY <1>1, <1>2, <1>4, GotoParts
<1>5. CASE /\ tx = "confirmed"
           /\ transition_allowed(state, flags, "confirmed_open", Confirmed(flags))
           /\ state' = "confirmed_open" /\ flags' = Confirmed(flags)
           /\ Goto("reconciler", "release")
  BY <1>1, <1>2, <1>5, AdvanceParts
<1>6. CASE /\ transition_allowed(state, flags, "broadcast", flags)
           /\ state' = "broadcast" /\ flags' = flags /\ Goto("reconciler", "points")
  BY <1>1, <1>2, <1>6, AdvanceParts
<1>7. tx # "absent" /\ TransactionFound => Parts'
  BY <1>3, <1>4, <1>5, <1>6 DEF TransactionFound, transition_or_fail, journal
<1> QED BY <1>4, <1>7 DEF reconcile_chain

\* Each step of a retirement happens under its claim.
LEMMA RetireParts ==
    ASSUME TypeOK, Parts, NEW a \in Actors, _retire_unsigned_record(a)
    PROVE  Parts'
<1>1. pc[a] \in RetireLabels /\ pc[a] \notin {"idle", "sign", "send"}
  BY DEF _retire_unsigned_record, retire_check_tx, retire_check_inputs, retire_edge,
         retire_edge_gone, RetireLabels
<1>2. "created" \notin flags
  BY <1>1 DEF Parts, RetireInv, Abandoning
<1>3. /\ RetireLabels \subseteq Labels \ {"scan", "sign", "send", "idle"}
      /\ {"r_utxo", "r_first", "r_second", "w_first", "w_second"} \subseteq RetireLabels
  BY SMTT(60) DEF RetireLabels, Labels
<1>4. Quiet /\ UNCHANGED tx
  BY DEF _retire_unsigned_record, retire_check_tx, retire_check_inputs, retire_edge,
         retire_edge_gone, Quiet, chain, lnd
<1>5. CASE Fail(a) /\ UNCHANGED <<rpc, lease>>
  BY <1>1, <1>4, <1>5, FailParts
<1>6. CASE /\ \E l \in {"r_utxo", "r_second", "w_first", "w_second"} : Goto(a, l)
           /\ UNCHANGED <<journal, lease>>
  BY SMTT(60), <1>1, <1>3, <1>4, <1>6, GotoParts
<1>7. CASE retire_check_tx(a)
  BY <1>5, <1>6, <1>7 DEF retire_check_tx, lnd
<1>8. CASE retire_check_inputs(a)
  <2>1. CASE Fail(a)
    BY SMTT(60), <1>5, <1>8, <2>1 DEF retire_check_inputs, lnd
  <2>2. CASE /\ transition_allowed(state, flags, "retiring", flags \cup {"absent"})
             /\ state' = "retiring" /\ flags' = flags \cup {"absent"} /\ Goto(a, "r_first")
    <3>1. UNCHANGED <<rpc, lease>>
      BY <1>8 DEF retire_check_inputs, lnd
    <3> QED BY <1>1, <1>2, <1>3, <1>4, <2>2, <3>1, AdvanceParts
  <2> QED BY <1>8, <2>1, <2>2 DEF retire_check_inputs, transition_or_fail
<1>9. ASSUME NEW e \in Ends, EdgeRetired(a, e), rpc' = rpc PROVE Parts'
  <2>1. CASE state' = "retired" /\ flags' = flags
             /\ Goto(a, IF a = "handler" THEN "idle" ELSE "release_retired")
    BY <1>1, <1>2, <1>4, <1>9, <2>1, RetiredParts, SMTT(40) DEF Actors
  <2> QED BY <1>5, <1>6, <1>9, <2>1 DEF EdgeRetired, transition_or_fail
<1>10. ASSUME NEW e \in Ends, retire_edge(a, e) \/ retire_edge_gone(a, e) PROVE Parts'
  BY <1>5, <1>6, <1>9, <1>10, SMTT(40) DEF retire_edge, retire_edge_gone, lnd
<1> QED BY <1>7, <1>8, <1>10 DEF _retire_unsigned_record

\* Steps of the world outside the maker keep Parts.
LEMMA PartsFrame ==
    ASSUME Parts, UNCHANGED <<state, flags, session, pc, seenState, seenLive, rpc, chan, sig>>,
           lease' = "released" => lease = "released", tx = "confirmed" => tx' = tx
    PROVE  Parts'
<1>1. SigInv' /\ CreatedInv' /\ ChanInv' /\ HandlerInv' /\ OrphanInv'
  BY ZenonT(60) DEF Parts, SigInv, CreatedInv, ChanInv, HandlerInv, OrphanInv
<1>2. RetireInv' /\ LeaseInv'
  BY ZenonT(60) DEF Parts, RetireInv, Abandoning, LeaseInv
<1> QED BY <1>1, <1>2, Zenon DEF Parts

\* Steps outside the maker process, and a restart, keep the parts of the invariant.
LEMMA OutsideParts ==
    ASSUME TypeOK, Parts,
           \/ Restart \/ TakerBroadcasts \/ Confirm \/ Evict \/ LeaseExpires
           \/ OthersTake \/ OthersSpend \/ UNCHANGED vars
    PROVE  Parts'
<1>1. UNCHANGED <<state, flags, session, pc, seenState, seenLive, rpc, chan, sig>>
  BY ZenonT(60)
  DEF Restart, TakerBroadcasts, Confirm, Evict, LeaseExpires, OthersTake, OthersSpend, vars,
      journal, process, lnd, chain
<1>2. /\ lease' = "released" => lease = "released"
      /\ tx = "confirmed" => tx' = tx
  BY SMTT(60)
  DEF Restart, TakerBroadcasts, Confirm, Evict, LeaseExpires, OthersTake, OthersSpend, vars, chain
<1> QED BY <1>1, <1>2, PartsFrame, Zenon

\* Nobody begins to abandon a channel in a step of the handler elsewhere.
LEMMA AbandoningKept ==
    ASSUME pc' = pc \/ \E l \in Labels \ RetireLabels : Goto("handler", l),
           rpc' \cap {"abandon_out", "abandon_in"} \subseteq rpc, UNCHANGED chan
    PROVE  Abandoning' => Abandoning
  BY SMTT(60) DEF Abandoning, Goto, Actors

\* Accepting an invitation opens the record and keeps the parts of the invariant.
LEMMA InviteParts == ASSUME TypeOK, Parts, _invite PROVE Parts'
<1>1. /\ state = "none" /\ state' = "invited" /\ flags' = {"maker"} /\ flags = {}
      /\ session = "live" /\ pc["handler"] = "idle"
      /\ UNCHANGED <<session, pc, seenState, seenLive, rpc, chan, sig, lease>>
  BY ZenonT(60) DEF _invite, Dispatch, process, lnd, chain, Parts, ChanInv
<1>2. ~Abandoning /\ ~Abandoning'
  BY <1>1, SMTT(60) DEF Parts, RetireInv, Abandoning
<1>3. SigInv' /\ CreatedInv' /\ RetireInv' /\ LeaseInv'
  BY <1>1, <1>2, SMTT(60) DEF Parts, SigInv, CreatedInv, RetireInv, LeaseInv
<1>4. ChanInv' /\ HandlerInv' /\ OrphanInv'
  BY <1>1, SMTT(60) DEF Parts, ChanInv, HandlerInv, OrphanInv
<1> QED BY <1>3, <1>4, Zenon DEF Parts

\* The handler's steps before the signature.
LEMMA EarlyParts ==
    ASSUME TypeOK, Parts, "created" \notin flags, pc["handler"] # "idle" \/ session = "live",
           NEW l \in {"idle", "plan", "open", "resolve", "verify", "observe"}, Goto("handler", l),
           NEW t \in {"planned", "acceptor_armed", "prepared_not_verified", "verifying",
                      "psbt_verified", "ready"},
           NEW g \in SUBSET (flags \cup {"open_started", "prepared", "evidence", "points",
                                         "observed"}),
           \/ UNCHANGED journal /\ (l = "idle" \/ state # "invited")
           \/ transition(t, g) /\ flags \subseteq g,
           t = "ready" => "observed" \in g,
           "observed" \in g => "observed" \in flags \/ \A e \in Ends : chan[e] # "none",
           rpc' \cap {"abandon_out", "abandon_in"} \subseteq rpc,
           Quiet, UNCHANGED <<lease, tx>>
    PROVE  Parts'
<1>1. l \in Labels \ RetireLabels
  BY LabelMembers DEF RetireLabels
<1>2. /\ Abandoning' => Abandoning
      /\ pc' = [x \in Actors |-> IF x = "handler" THEN l ELSE pc[x]]
  BY <1>1, AbandoningKept, Zenon DEF Quiet, Goto
<1>3. CASE UNCHANGED journal /\ (l = "idle" \/ state # "invited")
  <2>1. SigInv' /\ CreatedInv' /\ RetireInv' /\ ChanInv' /\ LeaseInv'
    BY <1>2, <1>3, ZenonT(60)
    DEF Parts, Quiet, journal, SigInv, CreatedInv, RetireInv, ChanInv, LeaseInv
  <2>2. HandlerInv' /\ OrphanInv'
    BY <1>2, <1>3, SMTT(60) DEF Parts, Quiet, journal, HandlerInv, OrphanInv, Actors
  <2> QED BY <2>1, <2>2, Zenon DEF Parts
<1>4. CASE transition(t, g) /\ flags \subseteq g
  <2>1. /\ state' = t /\ flags' = g /\ state \notin {"retired", "none", "confirmed_open"}
        /\ "created" \notin g /\ ("intent" \in g <=> "intent" \in flags)
    BY <1>4, TransitionFacts, SMTT(60) DEF transition
  <2>2. SigInv' /\ CreatedInv' /\ LeaseInv'
    BY <2>1, SMTT(60) DEF Parts, Quiet, SigInv, CreatedInv, LeaseInv
  <2>3. RetireInv'
    BY <1>2, <2>1, SMTT(60) DEF Parts, RetireInv
  <2>4. ChanInv'
    BY <1>4, <2>1, SMTT(60) DEF Parts, Quiet, ChanInv
  <2>5. HandlerInv' /\ OrphanInv'
    BY <1>2, <2>1, SMTT(60) DEF Parts, Quiet, HandlerInv, OrphanInv, Actors
  <2> QED BY <2>2, <2>3, <2>4, <2>5, Zenon DEF Parts
<1> QED BY <1>3, <1>4, Zenon

\* The steps from the plan to the observed channels keep the parts of the invariant.
LEMMA PrepareParts ==
    ASSUME TypeOK, Parts,
           \/ _plan \/ _plan_armed \/ _open \/ _open_prepared \/ _unsigned
           \/ _unsigned_verify \/ _unsigned_verified \/ _unsigned_ready
    PROVE  Parts'
<1>1. pc["handler"] # "idle" \/ session = "live"
  BY SMTT(60)
  DEF _plan, _plan_armed, _open, _open_prepared, _unsigned, _unsigned_verify,
      _unsigned_verified, _unsigned_ready, Dispatch
<1>2. "created" \notin flags
  <2>1. \/ pc["handler"] \in {"plan", "open", "resolve", "verify", "observe"}
        \/ state \in {"invited", "acceptor_armed", "prepared_not_verified"}
    BY ZenonT(60)
    DEF _plan, _plan_armed, _open, _open_prepared, _unsigned, _unsigned_verify,
        _unsigned_verified, _unsigned_ready, Dispatch
  <2> QED BY <2>1, SMTT(60) DEF Parts, HandlerInv, CreatedInv, SignedStates
<1>3. Quiet /\ UNCHANGED <<lease, tx>>
  BY ZenonT(60)
  DEF _plan, _plan_armed, _open, _open_prepared, _unsigned, _unsigned_verify,
      _unsigned_verified, _unsigned_ready, Quiet, lnd, chain
<1>4. rpc' \in {rpc, rpc \cup {"open"}, rpc \cup {"cancel"}, rpc \cup {"verify"}}
  BY ZenonT(60)
  DEF _plan, _plan_armed, _open, _open_prepared, _unsigned, _unsigned_verify,
      _unsigned_verified, _unsigned_ready, lnd
<1>5. rpc' \cap {"abandon_out", "abandon_in"} \subseteq rpc
  BY <1>4, SMTT(60)
<1>6. ASSUME UNCHANGED journal, Goto("handler", "idle") PROVE Parts'
  <2>1. flags \in SUBSET (flags \cup {"open_started", "prepared", "evidence", "points", "observed"})
    BY SMTT(60)
  <2> QED BY <1>1, <1>2, <1>3, <1>5, <1>6, <2>1, EarlyParts, ZenonT(60)
<1>7. ASSUME NEW x \in {"maker", "open_started", "prepared", "evidence", "points", "observed"},
             NEW g \in {flags, flags \cup {x}},
             x = "observed" => \A e \in Ends : chan[e] # "none",
             NEW t \in {"planned", "acceptor_armed", "prepared_not_verified", "verifying",
                        "psbt_verified", "ready"}, transition(t, g),
             x = "maker" => g = flags, t = "ready" => "observed" \in g,
             NEW l \in {"idle", "plan", "open", "resolve", "verify", "observe"},
             Goto("handler", l)
      PROVE  Parts'
  <2>1. /\ g \in SUBSET (flags \cup {"open_started", "prepared", "evidence", "points", "observed"})
        /\ flags \subseteq g
        /\ "observed" \in g => "observed" \in flags \/ \A e \in Ends : chan[e] # "none"
    BY <1>7, SMTT(60)
  <2> QED BY <1>1, <1>2, <1>3, <1>5, <1>7, <2>1, EarlyParts, ZenonT(60)
<1>8. CASE _plan \/ _plan_armed
  BY <1>6, <1>7, <1>8, ZenonT(60) DEF _plan, _plan_armed
<1>9. CASE _open
  <2>1. transition("acceptor_armed", flags \cup {"open_started"})
    BY <1>9 DEF _open
  <2>2. Goto("handler", "idle") \/ Goto("handler", "open")
    BY <1>9, ZenonT(60) DEF _open
  <2> QED BY <1>7, <2>1, <2>2, ZenonT(60)
<1>10. CASE _open_prepared
  BY <1>6, <1>7, <1>10, ZenonT(60) DEF _open_prepared
<1>11. CASE _unsigned
  <2>1. UNCHANGED journal /\ Goto("handler", "resolve") /\ state # "invited"
    BY <1>11, ZenonT(60) DEF _unsigned
  <2>2. flags \in SUBSET (flags \cup {"open_started", "prepared", "evidence", "points", "observed"})
    BY SMTT(60)
  <2> QED BY <1>1, <1>2, <1>3, <1>5, <2>1, <2>2, EarlyParts, ZenonT(60)
<1>12. CASE _unsigned_verify
  <2>1. \/ UNCHANGED journal /\ Goto("handler", "idle")
        \/ /\ transition("verifying", flags \cup {"evidence"})
           /\ Goto("handler", "verify") \/ Goto("handler", "idle")
    BY <1>12, ZenonT(60) DEF _unsigned_verify, journal
  <2> QED BY <1>6, <1>7, <2>1, ZenonT(60)
<1>13. CASE _unsigned_verified
  <2>1. \/ UNCHANGED journal /\ Goto("handler", "idle")
        \/ transition("psbt_verified", flags \cup {"points"}) /\ Goto("handler", "observe")
    BY <1>13, ZenonT(60) DEF _unsigned_verified, journal
  <2> QED BY <1>6, <1>7, <2>1, ZenonT(60)
<1>14. CASE _unsigned_ready
  <2>1. /\ Goto("handler", "idle")
        /\ \/ UNCHANGED journal
           \/ /\ transition("ready", flags \cup {"observed"})
              /\ chan["out"] = "pending" /\ chan["in"] = "pending"
    BY <1>14, ZenonT(60) DEF _unsigned_ready
  <2>2. CASE UNCHANGED journal
    BY <1>6, <2>1, <2>2, Zenon
  <2>3. CASE /\ transition("ready", flags \cup {"observed"})
             /\ chan["out"] = "pending" /\ chan["in"] = "pending"
    <3>1. (\A e \in Ends : chan[e] # "none") /\ "observed" \in flags \cup {"observed"}
      BY <2>3, SMTT(60) DEF Ends
    <3> QED BY <1>7, <2>1, <2>3, <3>1, ZenonT(60)
  <2> QED BY <2>1, <2>2, <2>3, Zenon
<1> QED BY <1>8, <1>9, <1>10, <1>11, <1>12, <1>13, <1>14, ZenonT(60)

\* Readiness and the authorization to sign, of a record of which nobody
\* abandons a channel when it is signed.
LEMMA AuthorizeParts == ASSUME TypeOK, Parts, _ready_set \/ _sign PROVE Parts'
<1>1. /\ state = "ready" /\ session = "live" /\ pc["handler"] = "idle"
      /\ state' \in {"ready", "signing"} /\ flags' \in {flags, flags \cup {"readiness"}}
      /\ UNCHANGED <<session, pc, seenState, seenLive, rpc, chan, sig, lease, tx>>
  BY ZenonT(60) DEF _ready_set, _sign, Dispatch, transition, process, lnd, chain
<1>2. Abandoning' <=> Abandoning
  BY <1>1, Zenon DEF Abandoning
<1>3. SigInv' /\ CreatedInv' /\ RetireInv' /\ LeaseInv'
  BY <1>1, <1>2, SMTT(60) DEF Parts, SigInv, CreatedInv, RetireInv, LeaseInv, SignedStates
<1>4. ChanInv' /\ HandlerInv' /\ OrphanInv'
  BY <1>1, SMTT(60) DEF Parts, ChanInv, HandlerInv, OrphanInv
<1> QED BY <1>3, <1>4, Zenon DEF Parts

\* The signature is marked only while nobody abandons a channel.
LEMMA TxParts == ASSUME TypeOK, Parts, on_tx PROVE Parts'
<1>1. /\ session = "live" /\ pc["handler"] = "idle"
      /\ UNCHANGED <<session, seenState, seenLive, rpc, chan, sig, tx>>
  BY ZenonT(60) DEF on_tx, Dispatch, lnd, chain
<1>2. CASE /\ state = "signing" /\ "intent" \notin flags /\ lease' = lease
           /\ state' = "signing" /\ flags' = flags \cup {"created"} /\ Goto("handler", "sign")
  <2>1. "sign" \in Labels \ RetireLabels
    BY LabelMembers DEF RetireLabels
  <2>2. ~Abandoning
    BY <1>2, SMTT(60) DEF Parts, RetireInv
  <2>3. ~Abandoning'
    BY <1>1, <1>2, <2>1, <2>2, AbandoningKept, SMTT(60)
  <2>4. SigInv' /\ CreatedInv' /\ RetireInv' /\ LeaseInv'
    BY <1>1, <1>2, <2>3, SMTT(60) DEF Parts, SigInv, CreatedInv, RetireInv, LeaseInv, SignedStates
  <2>5. ChanInv' /\ HandlerInv' /\ OrphanInv'
    BY <1>1, <1>2, SMTT(60) DEF Parts, ChanInv, HandlerInv, OrphanInv, Goto, Actors
  <2> QED BY <2>4, <2>5, Zenon DEF Parts
<1>3. CASE state \in {"retired", "confirmed_open"} /\ lease' = Released /\ UNCHANGED <<journal, pc>>
  <2>1. SigInv' /\ CreatedInv' /\ RetireInv' /\ ChanInv' /\ HandlerInv' /\ OrphanInv'
    BY <1>1, <1>3, ZenonT(60)
    DEF Parts, journal, SigInv, CreatedInv, RetireInv, Abandoning, ChanInv, HandlerInv, OrphanInv
  <2>2. LeaseInv'
    BY <1>1, <1>3, SMTT(60) DEF Parts, journal, LeaseInv
  <2> QED BY <2>1, <2>2, Zenon DEF Parts
<1> QED BY <1>2, <1>3, ZenonT(60) DEF on_tx, transition

\* What the wallet signed under that mark is recorded and sent.
LEMMA SentParts == ASSUME TypeOK, Parts, on_tx_signed \/ on_tx_send PROVE Parts'
<1>0. "idle" \in Labels \ RetireLabels /\ "send" \in Labels \ RetireLabels
  BY LabelMembers DEF RetireLabels
<1>1. /\ "created" \in flags /\ UNCHANGED <<seenState, seenLive, rpc, chan, tx, lease>>
      /\ pc["handler"] \in {"sign", "send"}
  BY ZenonT(60) DEF on_tx_signed, on_tx_send, lnd, Parts, HandlerInv
<1>2. ~Abandoning
  BY <1>1, Zenon DEF Parts, RetireInv
<1>3. /\ state' = state \/ state' = "signed"
      /\ flags' \in {flags, flags \cup {"sent"}}
      /\ Goto("handler", "idle") \/ (Goto("handler", "send") /\ "made" \in sig')
      /\ sig' \in {sig, sig \cup {"made"}} \/ ("made" \in sig /\ sig' = sig \cup {"sent"})
      /\ session' = session \/ session' \in {"complete", "expired"}
  <2>1. CASE on_tx_signed
    <3>1. /\ state' = state \/ state' = "signed"
          /\ flags' \in {flags, flags \cup {"sent"}}
          /\ session' = session
          /\ \/ sig' = sig /\ Goto("handler", "idle")
             \/ /\ sig' = sig \cup {"made"}
                /\ Goto("handler", "idle") \/ Goto("handler", "send")
      BY <2>1, ZenonT(60) DEF on_tx_signed, transition, journal
    <3> QED BY <3>1, SMTT(60)
  <2>2. CASE on_tx_send
    <3>1. "made" \in sig
      BY <2>2, ZenonT(60) DEF on_tx_send, Parts, HandlerInv
    <3> QED BY <2>2, <3>1, ZenonT(60) DEF on_tx_send, journal
  <2> QED BY <2>1, <2>2, Zenon
<1>4. ~Abandoning'
  BY <1>0, <1>1, <1>2, <1>3, AbandoningKept, SMTT(60)
<1>5. state' \in SignedStates /\ (state' = "confirmed_open" => state = "confirmed_open")
  BY <1>1, <1>3, SMTT(60) DEF Parts, CreatedInv, SignedStates
<1>6. SigInv' /\ CreatedInv' /\ RetireInv'
  BY <1>1, <1>3, <1>4, <1>5, SMTT(60) DEF Parts, SigInv, CreatedInv, RetireInv, SignedStates
<1>7. ChanInv'
  BY <1>1, <1>3, <1>5, SMTT(60) DEF Parts, ChanInv, SignedStates
<1>8. HandlerInv'
  BY <1>1, <1>3, SMTT(60) DEF Parts, HandlerInv, Goto, Actors
<1>9. OrphanInv'
  BY <1>1, <1>3, <1>5, SMTT(60) DEF Parts, OrphanInv, Goto, Actors, SignedStates
<1>10. LeaseInv'
  <2>1. state \notin {"retired", "none"}
    BY <1>1, SMTT(60) DEF Parts, CreatedInv, SignedStates
  <2>2. state = "confirmed_open" => state' = state
    BY ZenonT(60) DEF on_tx_signed, on_tx_send, transition, journal
  <2> QED BY <1>1, <1>3, <1>5, <2>1, <2>2, SMTT(60) DEF Parts, LeaseInv
<1> QED BY <1>6, <1>7, <1>8, <1>9, <1>10, Zenon DEF Parts

\* A pushed transaction reaches a record that signed, and keeps the parts of the invariant.
LEMMA PushParts == ASSUME TypeOK, Parts, _handle_push PROVE Parts'
<1>1. /\ "sent" \in sig /\ lease = "held"
      /\ UNCHANGED <<session, pc, seenState, seenLive, rpc, chan, sig, lease>>
  BY ZenonT(60) DEF _handle_push, process, lnd
<1>2. tx = "confirmed" => tx' = tx
  BY SMTT(60) DEF _handle_push
<1>3. CASE UNCHANGED journal
  BY <1>1, <1>2, <1>3, PartsFrame, Zenon DEF journal
<1>4. CASE /\ state \in {"signed", "broadcast"} /\ state' = "broadcast"
           /\ flags' = flags \cup {"final"}
  <2>1. "created" \in flags /\ "made" \in sig
    BY <1>1, Zenon DEF Parts, SigInv
  <2>2. ~Abandoning /\ ~Abandoning'
    BY <1>1, <2>1, Zenon DEF Parts, RetireInv, Abandoning
  <2>3. SigInv' /\ CreatedInv' /\ RetireInv' /\ LeaseInv'
    BY <1>1, <1>4, <2>1, <2>2, SMTT(60)
    DEF Parts, SigInv, CreatedInv, RetireInv, LeaseInv, SignedStates
  <2>4. ChanInv' /\ HandlerInv' /\ OrphanInv'
    BY <1>1, <1>4, <2>1, SMTT(60) DEF Parts, ChanInv, HandlerInv, OrphanInv
  <2> QED BY <2>3, <2>4, Zenon DEF Parts
<1> QED BY <1>3, <1>4, ZenonT(60) DEF _handle_push, transition

\* A cancelled shim retires a record that created no signature.
LEMMA CancelShimParts == ASSUME TypeOK, Parts, _cancel_shim PROVE Parts'
<1>1. /\ "handler" \in Actors /\ pc["handler"] = "shim" /\ Quiet /\ UNCHANGED <<rpc, tx>>
      /\ "idle" \in {"idle", "release_retired"} /\ "handler" # "reconciler"
  BY ZenonT(60) DEF _cancel_shim, Actors, Quiet, lnd, chain
<1>2. "created" \notin flags
  BY <1>1, SMTT(60) DEF Parts, HandlerInv
<1>3. CASE Fail("handler") /\ UNCHANGED lease
  BY <1>1, <1>3, FailParts, ZenonT(60)
<1>4. CASE state' = "retired" /\ flags' = flags /\ Goto("handler", "idle")
  BY <1>1, <1>2, <1>4, RetiredParts, ZenonT(60)
<1> QED BY <1>3, <1>4, ZenonT(60) DEF _cancel_shim, transition_or_fail

\* A pass starts from the journal and the live sessions it reads.
LEMMA ReconcileBeginParts == ASSUME TypeOK, Parts, reconcile_begin PROVE Parts'
<1>1. /\ seenState' = [x \in Actors |-> IF x = "reconciler" THEN state ELSE seenState[x]]
      /\ seenLive' = {} => session \notin {"live", "complete"}
      /\ pc' = [x \in Actors |-> IF x = "reconciler" THEN "scan" ELSE pc[x]]
      /\ UNCHANGED <<state, flags, session, rpc, chan, sig, lease, tx>>
  BY SMTT(60) DEF reconcile_begin, Read, Goto, journal, lnd, chain
<1>2. Abandoning' => Abandoning
  BY <1>1, SMTT(60) DEF Abandoning, RetireLabels, Actors
<1>3. SigInv' /\ CreatedInv' /\ RetireInv' /\ LeaseInv'
  BY <1>1, <1>2, ZenonT(60) DEF Parts, SigInv, CreatedInv, RetireInv, LeaseInv
<1>4. ChanInv'
  BY <1>1, SMTT(60) DEF Parts, ChanInv
<1>5. HandlerInv' /\ OrphanInv'
  BY <1>1, SMTT(60) DEF Parts, HandlerInv, OrphanInv, Actors
<1> QED BY <1>3, <1>4, <1>5, Zenon DEF Parts

\* The pass's other steps.
LEMMA ReconcileRestParts ==
    ASSUME TypeOK, Parts, reconcile_rebroadcast \/ reconcile_inputs \/ reconcile_points
    PROVE  Parts'
<1>1. /\ "reconciler" \in Actors /\ pc["reconciler"] \in {"rebroadcast", "inputs", "points"}
      /\ "reconciler" # "handler"
  BY ZenonT(60) DEF Actors, reconcile_rebroadcast, reconcile_inputs, reconcile_points
<1>2. Quiet /\ UNCHANGED <<rpc, lease>>
  BY ZenonT(60)
  DEF reconcile_rebroadcast, reconcile_inputs, reconcile_points, Quiet, lnd, chain
<1>3. tx = "confirmed" => tx' = tx
  BY SMTT(60) DEF reconcile_rebroadcast, reconcile_inputs, reconcile_points, chain
<1>4. pc["reconciler"] # "idle"
  BY <1>1, SMTT(60)
<1>5. CASE Fail("reconciler")
  BY <1>1, <1>2, <1>3, <1>4, <1>5, FailParts, ZenonT(60)
<1>6. CASE /\ \E l \in {"chain_again", "points", "release"} : Goto("reconciler", l)
           /\ UNCHANGED journal
  <2>1. \A l \in {"chain_again", "points", "release"} :
           l \in Labels \ {"scan", "sign", "send"} /\ l \notin RetireLabels
    BY LabelMembers, SMTT(60) DEF RetireLabels
  <2> QED BY <1>1, <1>2, <1>3, <1>4, <1>6, <2>1, GotoParts, ZenonT(60)
<1> QED
  BY <1>5, <1>6, ZenonT(60) DEF reconcile_rebroadcast, reconcile_inputs, reconcile_points

\* The end of the process keeps what is durable.
LEMMA StoppedParts ==
    ASSUME TypeOK, Parts, Stopped, UNCHANGED journal \/ TornJournal,
           UNCHANGED <<rpc, chan, sig, lease, tx>>
    PROVE  Parts'
<1>1. /\ flags' \in {flags, flags \cup {"observed"}}
      /\ "observed" \in flags' => "observed" \in flags \/ \A e \in Ends : chan[e] # "none"
      /\ \/ state' = state
         \/ /\ state \in {"invited", "planned", "acceptor_armed"} /\ state' = "retiring"
            /\ flags' = flags
  BY SMTT(60) DEF TornJournal, journal, Ends
<1>2. Abandoning' => Abandoning
  BY SMTT(60) DEF Abandoning, Stopped, RetireLabels, Actors
<1>3. SigInv' /\ CreatedInv' /\ RetireInv'
  BY <1>1, <1>2, SMTT(60) DEF Parts, SigInv, CreatedInv, RetireInv, SignedStates
<1>4. ChanInv'
  <2>1. state = "none" => flags' = flags
    BY SMTT(60) DEF TornJournal, journal
  <2> QED BY <1>1, <2>1, SMTT(60) DEF Parts, ChanInv, Stopped
<1>5. HandlerInv' /\ OrphanInv' /\ LeaseInv'
  BY <1>1, SMTT(60) DEF Parts, HandlerInv, OrphanInv, LeaseInv, Stopped, Actors
<1> QED BY <1>3, <1>4, <1>5, Zenon DEF Parts

\* Only inputs of an inactive record are given back after the pass.
LEMMA ReconcileEndParts == ASSUME TypeOK, Parts, reconcile_end PROVE Parts'
<1>1. CASE Stopped /\ UNCHANGED <<journal, lease>>
  BY <1>1, StoppedParts, ZenonT(60) DEF reconcile_end, lnd, chain
<1>2. CASE /\ Goto("reconciler", "idle") /\ state' = state
           /\ \/ flags' = flags
              \/ state = "retired" /\ flags' = flags \ {"intent"}
           /\ \/ lease' = lease
              \/ state \in ActiveStates /\ lease' = "held"
              \/ state = "retired" /\ lease' = Released
           /\ UNCHANGED <<session, seenState, seenLive>>
  <2>1. UNCHANGED <<rpc, chan, sig, tx>>
    BY ZenonT(60) DEF reconcile_end, lnd, chain
  <2>2. Abandoning' => Abandoning
    BY <1>2, <2>1, SMTT(60) DEF Abandoning, Goto, RetireLabels, Actors
  <2>3. SigInv' /\ CreatedInv' /\ RetireInv' /\ ChanInv'
    BY <1>2, <2>1, <2>2, SMTT(60) DEF Parts, SigInv, CreatedInv, RetireInv, ChanInv
  <2>4. HandlerInv' /\ OrphanInv'
    BY <1>2, <2>1, SMTT(60) DEF Parts, HandlerInv, OrphanInv, Goto, Actors
  <2>5. LeaseInv'
    BY <1>2, <2>1, SMTT(60) DEF Parts, LeaseInv, Released
  <2> QED BY <2>3, <2>4, <2>5, Zenon DEF Parts
<1> QED BY <1>1, <1>2, ZenonT(60) DEF reconcile_end

\* The deadline ends the session, whatever its handler was awaiting.
LEMMA ExpireParts == ASSUME TypeOK, Parts, _expire_timed_out_session PROVE Parts'
<1>1. /\ UNCHANGED <<state, flags, seenState, seenLive, rpc, chan, sig, tx>>
      /\ Goto("handler", "idle") \/ pc' = pc
      /\ session' = "expired"
  BY ZenonT(60) DEF _expire_timed_out_session, journal, lnd, chain
<1>2. "idle" \in Labels \ RetireLabels
  BY LabelMembers DEF RetireLabels
<1>3. Abandoning' => Abandoning
  BY <1>1, <1>2, AbandoningKept, SMTT(60)
<1>4. SigInv' /\ CreatedInv' /\ RetireInv' /\ ChanInv'
  BY <1>1, <1>3, ZenonT(60) DEF Parts, SigInv, CreatedInv, RetireInv, ChanInv
<1>5. HandlerInv' /\ OrphanInv'
  BY <1>1, SMTT(60) DEF Parts, HandlerInv, OrphanInv, Goto, Actors
<1>6. state \notin ActiveStates => state \in {"retired", "confirmed_open", "none"}
  BY SMTT(60) DEF ActiveStates, States, TypeOK
<1>7. lease' = lease \/ (state \notin ActiveStates /\ lease' = Released)
  BY ZenonT(60) DEF _expire_timed_out_session
<1>8. LeaseInv'
  BY <1>1, <1>6, <1>7, SMTT(60) DEF Parts, LeaseInv
<1> QED BY <1>4, <1>5, <1>8, Zenon DEF Parts

\* LND's late execution, and the predecessor's verification.
LEMMA LndParts ==
    ASSUME TypeOK, Parts, (\E r \in Requests : LndExecute(r)) \/ PredecessorVerifies
    PROVE  Parts'
<1>1. UNCHANGED <<state, flags, session, pc, seenState, seenLive, sig, lease, tx>>
  BY ZenonT(60) DEF LndExecute, PredecessorVerifies, journal, process, chain
<1>2. \A e \in Ends : /\ chan[e] # "none" => chan'[e] # "none"
                      /\ chan'[e] = "abandoned" => chan[e] = "abandoned" \/ Abandon(e) \in rpc
  BY SMTT(60) DEF LndExecute, PredecessorVerifies, Ends
<1>3. rpc' \subseteq rpc
  BY SMTT(60) DEF LndExecute, PredecessorVerifies
<1>4. Abandoning' => Abandoning
  BY <1>1, <1>2, <1>3, SMTT(60) DEF Abandoning, Abandon, Ends
<1>5. SigInv' /\ CreatedInv' /\ RetireInv' /\ LeaseInv' /\ HandlerInv' /\ OrphanInv'
  BY <1>1, <1>4, ZenonT(60)
  DEF Parts, SigInv, CreatedInv, RetireInv, LeaseInv, HandlerInv, OrphanInv
<1>6. ChanInv'
  BY <1>1, <1>2, ZenonT(60) DEF Parts, ChanInv
<1> QED BY <1>5, <1>6, Zenon DEF Parts

\* Every step of the maker and of its environment preserves Parts.
LEMMA PartsStep == Inv /\ [Next]_vars => Parts'
<1> SUFFICES ASSUME TypeOK, Parts, [Next]_vars PROVE Parts'
  BY Zenon DEF Inv, Parts
<1>1. CASE Handler
  BY <1>1, InviteParts, PrepareParts, AuthorizeParts, TxParts, SentParts, CancelParts,
     CancelShimParts, RetireParts, ZenonT(60) DEF Handler, Actors
<1>2. CASE _handle_push \/ _expire_timed_out_session
  BY <1>2, PushParts, ExpireParts, Zenon
<1>3. CASE reconcile_ring_records
  BY <1>3, ReconcileBeginParts, ReconcileRecordParts, ReconcileChainParts,
     ReconcileRestParts, ReconcileEndParts, RetireParts, ZenonT(60)
  DEF reconcile_ring_records, Actors
<1>4. CASE Crash
  BY <1>4, StoppedParts, ZenonT(60) DEF Crash, lnd, chain
<1>5. CASE Restart \/ UNCHANGED vars
  BY <1>5, OutsideParts, Zenon
<1>6. CASE Environment
  BY <1>6, LndParts, OutsideParts, ZenonT(60) DEF Environment
<1> QED BY <1>1, <1>2, <1>3, <1>4, <1>5, <1>6, ZenonT(60) DEF Next

-----------------------------------------------------------------------------
(* The theorems                                                            *)

\* The inductive invariant holds before the invitation ...
LEMMA InitInv == Init => Inv
<1> SUFFICES ASSUME Init PROVE Inv
  OBVIOUS
<1> USE DEF Init
<1>1. TypeOK
  BY LabelMembers, BoundsAssumption DEF TypeOK, Actors, Ends
<1>2. ~Abandoning
  BY DEF Abandoning, RetireLabels, Actors, Ends
<1> QED
  BY <1>1, <1>2 DEF Inv, SigInv, CreatedInv, RetireInv, ChanInv, HandlerInv, OrphanInv,
                    LeaseInv, Actors, Ends

\* ... and every step preserves it.
LEMMA InvStep == Inv /\ [Next]_vars => Inv'
  BY TypeStep, PartsStep DEF Inv, Parts

\* The inductive invariant holds for ever: the journal, the two suspended actors,
\* the requests LND may still execute, the channels and the lease agree.
THEOREM Invariance == Spec => []Inv
  BY InitInv, InvStep, PTL DEF Spec

\* Every variable keeps its type, whatever fails and whenever the process dies.
THEOREM TypeCorrect == Spec => []TypeOK
<1>1. Inv => TypeOK
  BY DEF Inv
<1> QED BY <1>1, Invariance, PTL

\* A wallet signature exists only when the journal marks it and LND held both
\* channels; no step of any actor ever abandons one of them beside it.
THEOREM SignatureSafety == Spec => []SignatureImpliesChannels
<1>1. Inv => SignatureImpliesChannels
  BY DEF Inv, TypeOK, SigInv, ChanInv, RetireInv, Abandoning, SignatureImpliesChannels, Ends
<1> QED BY <1>1, Invariance, PTL

\* The maker never gives back an input that a signature of its own may spend.
THEOREM ReleaseSafety == Spec => []ReleasedImpliesUnsigned
<1>1. Inv => ReleasedImpliesUnsigned
  BY SMTT(60) DEF Inv, TypeOK, SigInv, CreatedInv, ChanInv, LeaseInv, SignedStates,
         ReleasedImpliesUnsigned
<1> QED BY <1>1, Invariance, PTL

\* The signature mark is never erased, and is never set by a step that also
\* drops a retirement intent.
LEMMA MarkStep ==
    ASSUME Inv, [Next]_vars
    PROVE  /\ "created" \in flags => "created" \in flags'
           /\ "created" \in flags' \ flags => ("intent" \in flags => "intent" \in flags')
<1> DEFINE Mark ==
       /\ "created" \in flags => "created" \in flags'
       /\ "created" \in flags' \ flags => ("intent" \in flags => "intent" \in flags')
<1> USE DEF transition, Fail, journal
<1>1. ASSUME NEW a, NEW s, BeginRetire(a, s) PROVE Mark
  BY <1>1, SMTT(40) DEF BeginRetire, transition_or_fail
<1>2. ASSUME NEW a, _retire_unsigned_record(a) PROVE Mark
  BY <1>2, ZenonT(60) DEF _retire_unsigned_record, retire_check_tx, retire_check_inputs, retire_edge,
       retire_edge_gone, EdgeRetired, transition_or_fail
<1>3. ASSUME NEW s, NEW f, CancelDecision(s, f) PROVE Mark
  BY <1>1, <1>3, SMTT(40) DEF CancelDecision
<1>4. CASE _cancel \/ _cancel_decide \/ _cancel_shim
  BY <1>3, <1>4, ZenonT(60) DEF _cancel, _cancel_decide, _cancel_shim, transition_or_fail
<1>5. CASE _invite \/ _plan \/ _plan_armed \/ _open \/ _open_prepared
  BY <1>5, SMTT(40) DEF Inv, ChanInv, _invite, _plan, _plan_armed, _open, _open_prepared
<1>6. CASE \/ _unsigned \/ _unsigned_verify \/ _unsigned_verified \/ _unsigned_ready
           \/ _ready_set \/ _sign
  BY <1>6, SMTT(40) DEF _unsigned, _unsigned_verify, _unsigned_verified, _unsigned_ready, _ready_set, _sign
<1>7. CASE on_tx \/ on_tx_signed \/ on_tx_send \/ _handle_push
  BY <1>7, SMTT(40) DEF on_tx, on_tx_signed, on_tx_send, _handle_push
<1>8. CASE reconcile_begin \/ reconcile_record
  BY <1>1, <1>8, ZenonT(60) DEF reconcile_begin, reconcile_record
<1>9. CASE reconcile_chain \/ reconcile_rebroadcast \/ reconcile_inputs \/ reconcile_points
  BY <1>9, SMTT(60)
  DEF reconcile_chain, reconcile_rebroadcast, reconcile_inputs, reconcile_points,
       TransactionFound, transition_or_fail, Confirmed
<1>10. CASE reconcile_end
  BY SMTT(60), <1>10 DEF reconcile_end
<1>11. CASE _expire_timed_out_session \/ Crash \/ Restart
  BY <1>11, SMTT(40) DEF _expire_timed_out_session, Crash, TornJournal, Restart
<1>12. CASE Environment
  BY <1>12 DEF Environment, PredecessorVerifies, TakerBroadcasts, Confirm, Evict, LeaseExpires,
       OthersTake, OthersSpend, LndExecute
<1>13. CASE UNCHANGED vars
  BY <1>13 DEF vars
<1> QED
  BY SMTT(60), <1>2, <1>4, <1>5, <1>6, <1>7, <1>8, <1>9, <1>10, <1>11, <1>12, <1>13
     DEF Next, Handler, reconcile_ring_records

\* No step takes a record whose signature is marked to retirement, and none
\* marks a signature while a retirement is claimed.
THEOREM NeverRetires == Spec => SignedNeverRetires
<1>1. Inv /\ Inv' /\ [Next]_vars =>
        [/\ "created" \in flags => state' \notin {"retiring", "retired"}
         /\ "intent" \in flags => "created" \notin flags']_vars
  BY SMTT(60), MarkStep DEF Inv, CreatedInv, SignedStates
<1> QED BY <1>1, Invariance, PTL DEF Spec, SignedNeverRetires

-----------------------------------------------------------------------------
(* A retired record leaves no outgoing channel                             *)

\* LND is asked to verify once, after the evidence is journalled; the funding
\* points are journalled after it verified.
VerifyInv ==
    /\ "verify" \in rpc \/ shim = "consumed" => "evidence" \in flags
    /\ "verify" \in rpc => shim # "consumed"
    /\ chan["out"] # "none" => shim = "consumed"
    /\ "points" \in flags => shim = "consumed"
    /\ "evidence" \in flags => state \notin PreVerifiedStates \cup {"none"}

\* A record in one of these states was verified by LND.
VerifiedStates == {"psbt_verified", "ready", "signing"}

\* Who retires verified channels knows their funding points: what the journal
\* says, and what each actor read of it.
PointsInv ==
    /\ "conflict" \notin flags /\ \A a \in Actors : "conflict" \notin seenFlags[a]
    /\ state \in VerifiedStates \/ {"intent", "absent"} \cap flags # {} => "points" \in flags
    /\ \A a \in Actors :
          \/ seenState[a] \in VerifiedStates
          \/ {"intent", "absent"} \cap seenFlags[a] # {}
          \/ pc[a] \in RetireLabels
          => "points" \in flags

\* A handler that cancels the shim was never at verification, and a retirement
\* that is past its first edge found that edge's channel gone.
ShimInv ==
    /\ pc["handler"] = "cancel" =>
          /\ seenState["handler"] \in {"planned", "acceptor_armed", "retiring", "recovery_required"}
          /\ seenState["handler"] \in PreVerifiedStates => "evidence" \notin flags
    /\ pc["handler"] = "shim" => "evidence" \notin flags
    /\ FirstEnd = "out" /\ (\E a \in Actors : pc[a] \in {"r_second", "w_second"})
          => chan["out"] # "pending"

OutInv == VerifyInv /\ PointsInv /\ ShimInv /\ RetiredNoOutgoing

\* A record enters a state before verification only from another such state.
LEMMA PreVerifiedFrom ==
    ASSUME NEW s, NEW f, NEW t \in PreVerifiedStates, NEW g, transition_allowed(s, f, t, g)
    PROVE  s \in PreVerifiedStates
  BY DEF transition_allowed, can_transition_to, AllowedTransitions, PreVerifiedStates,
         ActiveStates, States

\* A shim is cancelled only for a record before verification, when no conflict
\* was recorded.
LEMMA ShimCancelled ==
    ASSUME NEW s, NEW f, "conflict" \notin f
    PROVE  /\ retirement_action(s, f) = "shim_cancel" <=> s \in PreVerifiedStates
           /\ retirement_action(s, f) = "abandon_verified" => "absent" \in f
  BY DEF retirement_action, PreVerifiedStates

\* A failed call leaves OutInv intact.
LEMMA FailOut ==
    ASSUME TypeOK, OutInv, NEW a \in Actors, Fail(a),
           UNCHANGED <<seenState, seenFlags, rpc, shim, chan>>
    PROVE  OutInv'
<1>1. /\ flags' = flags /\ (Goto(a, "idle") \/ Goto(a, "release"))
      /\ state' = state \/ (state' = "recovery_required" /\ state \in ActiveStates)
  BY RecoveryFromActive, ZenonT(60) DEF Fail
<1>2. VerifyInv' /\ RetiredNoOutgoing'
  BY <1>1, SMTT(60) DEF OutInv, VerifyInv, RetiredNoOutgoing, PreVerifiedStates
<1>3. PointsInv' /\ ShimInv'
  BY <1>1, SMTT(60)
  DEF OutInv, PointsInv, ShimInv, VerifiedStates, RetireLabels, Actors, Goto
<1> QED BY <1>2, <1>3, Zenon DEF OutInv

\* So does reaching "retired" beside an outgoing channel that is gone, or that
\* was never verified.
LEMMA RetiredOut ==
    ASSUME TypeOK, OutInv, NEW a \in Actors, state' = "retired", flags' = flags,
           NEW l \in {"idle", "release_retired"}, Goto(a, l),
           \/ "evidence" \notin flags
           \/ "points" \in flags /\ chan["out"] # "pending",
           UNCHANGED <<seenState, seenFlags, rpc, shim, chan>>
    PROVE  OutInv'
<1>1. VerifyInv' /\ RetiredNoOutgoing'
  BY SMTT(60) DEF OutInv, VerifyInv, RetiredNoOutgoing, PreVerifiedStates
<1>2. PointsInv' /\ ShimInv'
  BY SMTT(60) DEF OutInv, PointsInv, ShimInv, VerifiedStates, RetireLabels, Actors, Goto
<1> QED BY <1>1, <1>2, Zenon DEF OutInv

\* So does a step to a suspension point other than those ShimInv speaks of.
LEMMA GotoOut ==
    ASSUME TypeOK, OutInv, NEW a \in Actors, UNCHANGED journal,
           NEW l \in Labels \ {"cancel", "shim", "r_second", "w_second"}, Goto(a, l),
           l \in RetireLabels => pc[a] \in RetireLabels,
           "verify" \in rpc' => "verify" \in rpc,
           UNCHANGED <<seenState, seenFlags, shim, chan>>
    PROVE  OutInv'
<1>1. state' = state /\ flags' = flags
  BY DEF journal
<1>2. VerifyInv' /\ RetiredNoOutgoing'
  BY <1>1, ZenonT(60) DEF OutInv, VerifyInv, RetiredNoOutgoing
<1>3. PointsInv' /\ ShimInv'
  BY <1>1, SMTT(60) DEF OutInv, PointsInv, ShimInv, Actors, Goto
<1> QED BY <1>2, <1>3, Zenon DEF OutInv

\* And so does the claim of a retirement by an actor that knows the points.
LEMMA BeginRetireOut ==
    ASSUME TypeOK, Parts, OutInv, NEW a \in Actors, NEW s \in States \cup {"none"},
           "points" \in flags, s = "retired" => state = "retired", BeginRetire(a, s),
           UNCHANGED <<seenState, seenFlags, shim, chan>>
    PROVE  OutInv'
<1> DEFINE g == flags \cup {"intent"}
<1>0. rpc' = rpc
  BY DEF BeginRetire
<1>1. CASE transition_allowed(state, flags, s, g)
  <2>1. /\ state' = s /\ flags' = g
        /\ Goto(a, IF s = "retired" THEN "idle" ELSE "r_tx")
    BY SMTT(60), <1>1 DEF BeginRetire, transition_or_fail
  <2>2. (state = s /\ flags = g) \/ validate_record(s, g)
    BY SMTT(60), <1>1, TransitionFacts
  <2>3. s \notin PreVerifiedStates \cup {"none"}
    BY <2>2, ValidRecord, SMTT(60) DEF IntentStates, PreVerifiedStates, OutInv, VerifyInv
  <2>4. VerifyInv' /\ PointsInv'
    BY <1>0, <2>1, <2>3, SMTT(60)
    DEF OutInv, VerifyInv, PointsInv, VerifiedStates, RetireLabels, Actors, Goto
  <2>5. ShimInv' /\ RetiredNoOutgoing'
    BY <1>0, <2>1, SMTT(60) DEF OutInv, ShimInv, RetiredNoOutgoing, Actors, Goto
  <2> QED BY <2>4, <2>5, Zenon DEF OutInv
<1>2. CASE ~transition_allowed(state, flags, s, g)
  BY SMTT(60), <1>0, <1>2, FailOut DEF BeginRetire, transition_or_fail
<1> QED BY <1>1, <1>2, Zenon

\* ring_cancel, with the record it read: before verification only the shim is
\* cancelled, afterwards the retirement needs the funding points.
LEMMA CancelDecisionOut ==
    ASSUME TypeOK, Parts, OutInv, NEW s \in States \cup {"none"}, NEW f, "conflict" \notin f,
           s \in PreVerifiedStates => "evidence" \notin flags,
           s \in VerifiedStates \/ {"intent", "absent"} \cap f # {} => "points" \in flags,
           s = "retired" => state = "retired", CancelDecision(s, f),
           UNCHANGED <<seenState, seenFlags, shim, chan>>
    PROVE  OutInv'
<1>0. "handler" \in Actors
  BY DEF Actors
<1>1. CASE Fail("handler") /\ UNCHANGED rpc
  BY SMTT(60), <1>0, <1>1, FailOut
<1>2. CASE s \in PreVerifiedStates /\ ~(Fail("handler") /\ UNCHANGED rpc)
  <2>1. CASE state' = "retired" /\ flags' = flags /\ Goto("handler", "idle") /\ rpc' = rpc
    BY <1>0, <1>2, <2>1, RetiredOut, ZenonT(60)
  <2>2. CASE /\ transition_allowed(state, flags, "retiring", flags)
             /\ state' \in {"recovery_required", "retiring"} /\ flags' = flags
             /\ \E l \in {"idle", "shim"} : Goto("handler", l)
             /\ rpc' \in {rpc, rpc \cup {"cancel"}}
    <3>1. VerifyInv' /\ RetiredNoOutgoing'
      BY <1>2, <2>2, TransitionFacts, SMTT(60)
      DEF OutInv, VerifyInv, RetiredNoOutgoing, PreVerifiedStates
    <3>2. PointsInv' /\ ShimInv'
      BY <1>2, <2>2, SMTT(60)
      DEF OutInv, PointsInv, ShimInv, VerifiedStates, RetireLabels, Actors, Goto
    <3> QED BY <3>1, <3>2, ZenonT(60) DEF OutInv
  <2>3. retirement_action(s, f) = "shim_cancel"
    BY <1>2, ShimCancelled
  <2> QED BY <1>2, <2>1, <2>2, <2>3 DEF CancelDecision
<1>3. CASE s \notin PreVerifiedStates /\ BeginRetire("handler", s)
           /\ ("intent" \in f \/ retirement_action(s, f) = "abandon_verified" \/ s \in VerifiedStates)
  <2>1. "points" \in flags
    BY <1>3, ShimCancelled
  <2> QED BY <1>0, <1>3, <2>1, BeginRetireOut
<1> QED BY <1>1, <1>2, <1>3, ShimCancelled DEF CancelDecision, VerifiedStates

\* What an edge's end makes of the record.
LEMMA EdgeRetiredOut ==
    ASSUME TypeOK, OutInv, NEW a \in Actors, NEW e \in Ends, pc[a] \in RetireLabels,
           e # FirstEnd => pc[a] \in {"r_second", "w_second"},
           chan[e] # "pending", EdgeRetired(a, e),
           UNCHANGED <<seenState, seenFlags, rpc, shim, chan>>
    PROVE  OutInv'
<1>0. "points" \in flags
  BY Zenon DEF OutInv, PointsInv
<1>1. CASE e = FirstEnd
  <2>1. Goto(a, "r_second") /\ state' = state /\ flags' = flags
    BY <1>1, Zenon DEF EdgeRetired, journal
  <2>2. VerifyInv' /\ RetiredNoOutgoing'
    BY <2>1, ZenonT(60) DEF OutInv, VerifyInv, RetiredNoOutgoing
  <2>3. PointsInv' /\ ShimInv'
    BY <1>0, <1>1, <2>1, SMTT(60) DEF OutInv, PointsInv, ShimInv, Actors, Goto
  <2> QED BY <2>2, <2>3, Zenon DEF OutInv
<1>2. CASE e # FirstEnd
  <2>1. chan["out"] # "pending"
    BY <1>2, FirstEndAssumption DEF Ends, OutInv, ShimInv
  <2> QED BY <1>0, <1>2, <2>1, FailOut, RetiredOut DEF EdgeRetired, transition_or_fail
<1> QED BY <1>1, <1>2, Zenon

\* A retirement in progress, of a cancellation or of the reconciler.
LEMMA CheckTxOut ==
    ASSUME TypeOK, OutInv, NEW a \in Actors, retire_check_tx(a)
    PROVE  OutInv'
<1>1. pc[a] \in RetireLabels /\ UNCHANGED <<seenState, seenFlags, rpc, shim, chan>>
  BY ZenonT(60) DEF retire_check_tx, RetireLabels, lnd
<1>2. CASE Goto(a, "r_utxo") /\ UNCHANGED journal
  <2>1. "r_utxo" \in Labels \ {"cancel", "shim", "r_second", "w_second"}
    BY LabelMembers
  <2> QED BY <1>1, <1>2, <2>1, GotoOut, ZenonT(60)
<1>3. CASE Fail(a)
  BY <1>1, <1>3, FailOut, ZenonT(60)
<1> QED BY <1>2, <1>3, ZenonT(60) DEF retire_check_tx

\* The record that enters "retiring" was verified.
LEMMA CheckInputsOut ==
    ASSUME TypeOK, OutInv, NEW a \in Actors, retire_check_inputs(a)
    PROVE  OutInv'
<1>1. /\ pc[a] \in RetireLabels /\ "points" \in flags /\ pc \in [Actors -> Labels]
      /\ seenFlags \in [Actors -> SUBSET Flags]
      /\ UNCHANGED <<seenState, rpc, shim, chan>>
  BY ZenonT(60) DEF retire_check_inputs, RetireLabels, lnd, OutInv, PointsInv, TypeOK
<1>2. CASE Fail(a) /\ seenFlags' = seenFlags
  BY <1>1, <1>2, FailOut, ZenonT(60)
<1>3. CASE /\ state' = "retiring" /\ flags' = flags \cup {"absent"} /\ Goto(a, "r_first")
           /\ seenFlags' = [x \in Actors |-> IF x = a THEN flags \cup {"absent"}
                                            ELSE seenFlags[x]]
  <2>1. VerifyInv' /\ RetiredNoOutgoing'
    BY <1>1, <1>3, SMTT(60) DEF OutInv, VerifyInv, RetiredNoOutgoing, PreVerifiedStates
  <2>2. PointsInv'
    BY <1>1, <1>3, SMTT(60) DEF OutInv, PointsInv
  <2>3. ShimInv'
    BY <1>1, <1>3, SMTT(60) DEF OutInv, ShimInv, PreVerifiedStates, Actors, Goto
  <2> QED BY <2>1, <2>2, <2>3, Zenon DEF OutInv
<1>4. CASE Fail(a) /\ seenFlags' = [x \in Actors |-> IF x = a THEN flags \cup {"absent"}
                                            ELSE seenFlags[x]]
  <2>0. /\ UNCHANGED flags /\ (state' = state \/ state' = "recovery_required")
        /\ Goto(a, "idle") \/ Goto(a, "release")
    BY <1>4, ZenonT(60) DEF Fail
  <2>1. VerifyInv' /\ RetiredNoOutgoing'
    BY <1>1, <2>0, SMTT(60) DEF OutInv, VerifyInv, RetiredNoOutgoing, PreVerifiedStates
  <2>2. PointsInv'
    BY <1>1, <1>4, <2>0, SMTT(60) DEF OutInv, PointsInv, VerifiedStates
  <2>3. ShimInv'
    BY <1>1, <2>0, SMTT(60) DEF OutInv, ShimInv, PreVerifiedStates, Actors, Goto
  <2> QED BY <2>1, <2>2, <2>3, Zenon DEF OutInv
<1> QED BY <1>2, <1>3, <1>4, ZenonT(60) DEF retire_check_inputs, transition_or_fail

\* The steps of a retirement keep the account of the outgoing channel.
LEMMA RetireOut ==
    ASSUME TypeOK, Parts, OutInv, NEW a \in Actors, _retire_unsigned_record(a)
    PROVE  OutInv'
<1>1. ASSUME NEW e \in Ends, retire_edge(a, e) PROVE OutInv'
  <2>1. /\ pc[a] \in RetireLabels
        /\ e # FirstEnd => pc[a] = "r_second"
        /\ UNCHANGED <<seenState, seenFlags, shim, chan>>
    BY <1>1, ZenonT(60) DEF retire_edge, RetireLabels
  <2>2. CASE chan[e] # "pending" /\ EdgeRetired(a, e) /\ rpc' = rpc
    BY <2>1, <2>2, EdgeRetiredOut, ZenonT(60)
  <2>3. CASE Fail(a) /\ rpc' = rpc
    BY <2>1, <2>3, FailOut, ZenonT(60)
  <2>4. CASE /\ Goto(a, IF e = FirstEnd THEN "w_first" ELSE "w_second")
             /\ rpc' = rpc \cup {Abandon(e)} /\ UNCHANGED journal
    <3>1. "verify" \in rpc' => "verify" \in rpc
      BY <2>4, SMTT(60) DEF Abandon, Ends
    <3>2. CASE e = FirstEnd
      <4>1. "w_first" \in Labels \ {"cancel", "shim", "r_second", "w_second"}
        BY LabelMembers
      <4> QED BY <2>1, <2>4, <3>1, <3>2, <4>1, GotoOut, ZenonT(60)
    <3>3. CASE e # FirstEnd
      <4>1. /\ pc \in [Actors -> Labels] /\ Goto(a, "w_second") /\ pc[a] = "r_second"
            /\ UNCHANGED <<state, flags>>
        BY <2>1, <2>4, <3>3, ZenonT(60) DEF TypeOK, journal
      <4>2. VerifyInv' /\ RetiredNoOutgoing'
        BY <2>1, <3>1, <4>1, SMTT(60) DEF OutInv, VerifyInv, RetiredNoOutgoing
      <4>3. PointsInv' /\ ShimInv'
        BY <2>1, <4>1, SMTT(60) DEF OutInv, PointsInv, ShimInv, RetireLabels, Actors, Goto
      <4> QED BY <4>2, <4>3, Zenon DEF OutInv
    <3> QED BY <3>2, <3>3, Zenon
  <2> QED BY <1>1, <2>2, <2>3, <2>4, ZenonT(60) DEF retire_edge
<1>2. ASSUME NEW e \in Ends, retire_edge_gone(a, e) PROVE OutInv'
  <2>1. /\ pc[a] \in RetireLabels
        /\ e # FirstEnd => pc[a] = "w_second"
        /\ UNCHANGED <<seenState, seenFlags, rpc, shim, chan>>
    BY <1>2, ZenonT(60) DEF retire_edge_gone, RetireLabels, lnd
  <2>2. CASE chan[e] # "pending" /\ EdgeRetired(a, e)
    BY <2>1, <2>2, EdgeRetiredOut, ZenonT(60)
  <2>3. CASE Fail(a)
    BY <2>1, <2>3, FailOut, ZenonT(60)
  <2> QED BY <1>2, <2>2, <2>3, ZenonT(60) DEF retire_edge_gone
<1> QED
  BY <1>1, <1>2, CheckTxOut, CheckInputsOut, ZenonT(60) DEF _retire_unsigned_record

\* Steps that touch neither the record, LND nor a suspension point keep OutInv.
LEMMA OutFrame ==
    ASSUME OutInv, UNCHANGED <<state, flags, pc, seenState, seenFlags, rpc, shim, chan>>
    PROVE  OutInv'
  BY ZenonT(60) DEF OutInv, VerifyInv, PointsInv, ShimInv, RetiredNoOutgoing

\* A record that stays before verification keeps OutInv.
LEMMA EarlyOut ==
    ASSUME OutInv, NEW t \in PreVerifiedStates, NEW g, transition(t, g),
           flags \subseteq g, g \subseteq flags \cup {"open_started", "prepared"},
           NEW l \in {"idle", "plan", "open"}, Goto("handler", l),
           "verify" \in rpc' => "verify" \in rpc, UNCHANGED <<seenState, seenFlags, shim, chan>>
    PROVE  OutInv'
<1>1. state \in PreVerifiedStates
  BY PreVerifiedFrom, Zenon DEF transition
<1>2. "evidence" \notin flags
  BY <1>1, Zenon DEF OutInv, VerifyInv
<1>3. state' = t /\ flags' = g
  BY Zenon DEF transition
<1>4. VerifyInv' /\ RetiredNoOutgoing'
  BY <1>2, <1>3, SMTT(60) DEF OutInv, VerifyInv, RetiredNoOutgoing, PreVerifiedStates
<1>5. PointsInv' /\ ShimInv'
  BY <1>2, <1>3, SMTT(60)
  DEF OutInv, PointsInv, ShimInv, VerifiedStates, PreVerifiedStates, RetireLabels, Actors, Goto
<1> QED BY <1>4, <1>5, Zenon DEF OutInv

\* A record past verification that gains evidence of its signing keeps OutInv.
LEMMA LaterOut ==
    ASSUME OutInv, state' \notin PreVerifiedStates \cup {"none", "retired"},
           state' \in VerifiedStates => "points" \in flags,
           flags \subseteq flags',
           flags' \subseteq flags \cup {"observed", "readiness", "created", "sent", "final"},
           pc' = pc \/ \E l \in {"idle", "sign", "send"} : Goto("handler", l),
           UNCHANGED <<seenState, seenFlags, rpc, shim, chan>>
    PROVE  OutInv'
<1>1. VerifyInv' /\ RetiredNoOutgoing'
  BY SMTT(60) DEF OutInv, VerifyInv, RetiredNoOutgoing
<1>2. PointsInv' /\ ShimInv'
  BY SMTT(60)
  DEF OutInv, PointsInv, ShimInv, VerifiedStates, PreVerifiedStates, RetireLabels, Actors, Goto
<1> QED BY <1>1, <1>2, Zenon DEF OutInv

\* The invitation begins a record without any evidence.
LEMMA InviteOut == ASSUME TypeOK, OutInv, _invite PROVE OutInv'
<1>1. /\ state = "none" /\ state' = "invited" /\ flags' = {"maker"}
      /\ UNCHANGED <<pc, seenState, seenFlags, rpc, shim, chan>>
  BY Zenon DEF _invite, process, lnd
<1>2. VerifyInv' /\ RetiredNoOutgoing'
  BY <1>1, SMTT(60) DEF OutInv, VerifyInv, RetiredNoOutgoing, PreVerifiedStates
<1>3. PointsInv' /\ ShimInv'
  BY <1>1, SMTT(60)
  DEF OutInv, PointsInv, ShimInv, VerifyInv, VerifiedStates, PreVerifiedStates, RetireLabels, Actors
<1> QED BY <1>2, <1>3, Zenon DEF OutInv

\* The evidence is journalled before LND is asked to verify.
LEMMA VerifyOut == ASSUME TypeOK, OutInv, _unsigned_verify PROVE OutInv'
<1>0. "handler" \in Actors
  BY DEF Actors
<1>1. CASE /\ state = "prepared_not_verified" /\ transition("verifying", flags \cup {"evidence"})
           /\ \E l \in {"verify", "idle"} : Goto("handler", l)
           /\ rpc' \in {rpc, rpc \cup {"verify"}}
  <2>1. /\ "evidence" \notin flags /\ state' = "verifying" /\ flags' = flags \cup {"evidence"}
        /\ UNCHANGED <<seenState, seenFlags, shim, chan>>
    BY <1>1, ZenonT(60) DEF _unsigned_verify, transition, OutInv, VerifyInv, PreVerifiedStates
  <2>2. VerifyInv' /\ RetiredNoOutgoing'
    BY <1>1, <2>1, SMTT(60) DEF OutInv, VerifyInv, RetiredNoOutgoing, PreVerifiedStates
  <2>3. PointsInv' /\ ShimInv'
    BY <1>1, <2>1, SMTT(60)
    DEF OutInv, PointsInv, ShimInv, VerifiedStates, PreVerifiedStates, RetireLabels, Actors, Goto
  <2> QED BY <2>2, <2>3, Zenon DEF OutInv
<1>2. CASE Goto("handler", "idle") /\ UNCHANGED <<journal, rpc>>
  BY <1>0, <1>2, GotoOut, LabelMembers, ZenonT(60) DEF _unsigned_verify, RetireLabels
<1> QED BY <1>1, <1>2, ZenonT(60) DEF _unsigned_verify

\* The funding points are journalled when LND has consumed the shim.
LEMMA VerifiedOut == ASSUME TypeOK, OutInv, _unsigned_verified PROVE OutInv'
<1>0. "handler" \in Actors
  BY DEF Actors
<1>1. CASE /\ shim = "consumed" /\ transition("psbt_verified", flags \cup {"points"})
           /\ Goto("handler", "observe")
  <2>1. /\ state' = "psbt_verified" /\ flags' = flags \cup {"points"}
        /\ UNCHANGED <<seenState, seenFlags, rpc, shim, chan>>
    BY <1>1, ZenonT(60) DEF _unsigned_verified, transition, lnd
  <2>2. VerifyInv' /\ RetiredNoOutgoing'
    BY <1>1, <2>1, SMTT(60) DEF OutInv, VerifyInv, RetiredNoOutgoing, PreVerifiedStates
  <2>3. PointsInv' /\ ShimInv'
    BY <1>1, <2>1, SMTT(60)
    DEF OutInv, PointsInv, ShimInv, VerifiedStates, PreVerifiedStates, RetireLabels, Actors, Goto
  <2> QED BY <2>2, <2>3, Zenon DEF OutInv
<1>2. CASE Goto("handler", "idle") /\ UNCHANGED journal
  BY <1>0, <1>2, GotoOut, LabelMembers, ZenonT(60) DEF _unsigned_verified, RetireLabels, lnd
<1> QED BY <1>1, <1>2, ZenonT(60) DEF _unsigned_verified

\* An actor that reads the record reads what OutInv says of it.
LEMMA ReadOut ==
    ASSUME OutInv, NEW a \in Actors, Read(a), NEW l \in {"cancel", "scan"}, Goto(a, l),
           l = "cancel" =>
              a = "handler"
              /\ state \in {"planned", "acceptor_armed", "retiring", "recovery_required"},
           UNCHANGED <<state, flags, rpc, shim, chan>>
    PROVE  OutInv'
<1>1. VerifyInv' /\ RetiredNoOutgoing'
  BY Zenon DEF OutInv, VerifyInv, RetiredNoOutgoing
<1>2. PointsInv'
  BY SMTT(60) DEF OutInv, PointsInv, VerifiedStates, RetireLabels, Actors, Read, Goto
<1>3. ShimInv'
  BY SMTT(60) DEF OutInv, VerifyInv, ShimInv, PreVerifiedStates, Actors, Read, Goto
<1> QED BY <1>1, <1>2, <1>3, Zenon DEF OutInv

\* The end of the process, and of a pass, keeps OutInv.
LEMMA StoppedOut ==
    ASSUME OutInv, Stopped, UNCHANGED journal \/ TornJournal, UNCHANGED <<rpc, shim, chan>>
    PROVE  OutInv'
<1>1. /\ flags' \in {flags, flags \cup {"observed"}}
      /\ \/ state' = state
         \/ state \in PreVerifiedStates /\ state' = "retiring"
  BY SMTT(60) DEF TornJournal, journal, PreVerifiedStates
<1>2. VerifyInv' /\ RetiredNoOutgoing'
  BY <1>1, SMTT(60) DEF OutInv, VerifyInv, RetiredNoOutgoing, PreVerifiedStates
<1>3. PointsInv' /\ ShimInv'
  BY <1>1, SMTT(60)
  DEF OutInv, PointsInv, ShimInv, VerifiedStates, PreVerifiedStates, RetireLabels, Actors, Stopped
<1> QED BY <1>2, <1>3, Zenon DEF OutInv

\* The end of a pass keeps the account of the outgoing channel.
LEMMA ReconcileEndOut == ASSUME TypeOK, OutInv, reconcile_end PROVE OutInv'
<1>1. CASE Stopped /\ UNCHANGED journal
  BY <1>1, StoppedOut, ZenonT(60) DEF reconcile_end, lnd
<1>2. CASE /\ Goto("reconciler", "idle") /\ state' = state
           /\ flags' \in {flags, flags \ {"intent"}} /\ UNCHANGED <<seenState, seenFlags>>
  <2>1. UNCHANGED <<rpc, shim, chan>>
    BY ZenonT(60) DEF reconcile_end, lnd
  <2>2. VerifyInv' /\ RetiredNoOutgoing'
    BY <1>2, <2>1, SMTT(60) DEF OutInv, VerifyInv, RetiredNoOutgoing
  <2>3. PointsInv' /\ ShimInv'
    BY <1>2, <2>1, SMTT(60)
    DEF OutInv, PointsInv, ShimInv, VerifiedStates, PreVerifiedStates, RetireLabels, Actors, Goto
  <2> QED BY <2>2, <2>3, Zenon DEF OutInv
<1> QED BY <1>1, <1>2, ZenonT(60) DEF reconcile_end, journal

\* LND executes requests, and the predecessor verifies, in accord with OutInv.
LEMMA LndOut ==
    ASSUME TypeOK, OutInv, (\E r \in Requests : LndExecute(r)) \/ PredecessorVerifies
    PROVE  OutInv'
<1>1. UNCHANGED <<state, flags, pc, seenState, seenFlags>>
  BY ZenonT(60) DEF LndExecute, PredecessorVerifies, journal, process
<1>2. VerifyInv' /\ RetiredNoOutgoing'
  BY <1>1, SMTT(60)
  DEF OutInv, VerifyInv, RetiredNoOutgoing, LndExecute, PredecessorVerifies, Requests, Ends, Abandon
<1>3. PointsInv'
  BY <1>1, Zenon DEF OutInv, PointsInv
<1>4. chan["out"] # "pending" => chan'["out"] # "pending" \/ "verify" \in rpc
  BY SMTT(60) DEF LndExecute, PredecessorVerifies, Requests, Ends, Abandon
<1>5. ShimInv'
  <2>1. FirstEnd = "out" /\ (\E a \in Actors : pc[a] \in {"r_second", "w_second"})
          => "verify" \notin rpc
    BY Zenon DEF OutInv, PointsInv, VerifyInv, RetireLabels
  <2> QED BY <1>1, <1>4, <2>1, ZenonT(60) DEF OutInv, ShimInv
<1> QED BY <1>2, <1>3, <1>5, Zenon DEF OutInv

\* What a call to the record's own state may decide in ring_cancel.
LEMMA CancelOut == ASSUME TypeOK, Parts, OutInv, _cancel \/ _cancel_decide PROVE OutInv'
<1>0. "handler" \in Actors
  BY SMTT(60) DEF Actors
<1>1. ASSUME NEW s \in States \cup {"none"}, NEW f, CancelDecision(s, f), "conflict" \notin f,
             s \in PreVerifiedStates => "evidence" \notin flags,
             s \in VerifiedStates \/ {"intent", "absent"} \cap f # {} => "points" \in flags,
             s = "retired" => state = "retired",
             UNCHANGED <<seenState, seenFlags, shim, chan>>
      PROVE  OutInv'
  BY <1>1, CancelDecisionOut
<1>2. CASE _cancel
  <2>1. CASE CancelDecision(state, flags) /\ UNCHANGED <<seenState, seenFlags>>
    <3>1. state \in States \cup {"none"} /\ UNCHANGED <<shim, chan>>
      BY <1>2 DEF TypeOK, _cancel
    <3>2. /\ "conflict" \notin flags
          /\ state \in PreVerifiedStates => "evidence" \notin flags
          /\ state \in VerifiedStates \/ {"intent", "absent"} \cap flags # {} => "points" \in flags
      BY ZenonT(60) DEF OutInv, VerifyInv, PointsInv
    <3> QED BY <1>1, <2>1, <3>1, <3>2, ZenonT(60)
  <2>2. CASE /\ state \in {"planned", "acceptor_armed", "retiring", "recovery_required"}
             /\ Goto("handler", "cancel") /\ Read("handler") /\ UNCHANGED <<journal, rpc>>
    BY <1>0, <1>2, <2>2, ReadOut, ZenonT(60) DEF _cancel, journal
  <2> QED BY <1>2, <2>1, <2>2, ZenonT(60) DEF _cancel
<1>3. CASE _cancel_decide
  <2>1. /\ CancelDecision(seenState["handler"], seenFlags["handler"])
        /\ pc["handler"] = "cancel" /\ UNCHANGED <<seenState, seenFlags, shim, chan>>
    BY SMTT(60), <1>3 DEF _cancel_decide
  <2>2. seenState["handler"] \in States \cup {"none"} /\ "conflict" \notin seenFlags["handler"]
    BY SMTT(60), <1>0 DEF TypeOK, OutInv, PointsInv
  <2>3. /\ seenState["handler"] # "retired"
        /\ seenState["handler"] \in PreVerifiedStates => "evidence" \notin flags
    BY <2>1, SMTT(60) DEF OutInv, ShimInv
  <2>4. seenState["handler"] \in VerifiedStates \/ {"intent", "absent"} \cap seenFlags["handler"] # {}
          => "points" \in flags
    BY <1>0, ZenonT(60) DEF OutInv, PointsInv
  <2> QED BY <1>1, <2>1, <2>2, <2>3, <2>4, ZenonT(60)
<1> QED BY <1>2, <1>3, Zenon

\* The shim's cancellation was answered: the record was never at verification.
LEMMA CancelShimOut == ASSUME TypeOK, OutInv, _cancel_shim PROVE OutInv'
<1>1. "handler" \in Actors /\ "evidence" \notin flags
  BY ZenonT(60) DEF Actors, _cancel_shim, OutInv, ShimInv
<1>2. UNCHANGED <<seenState, seenFlags, rpc, shim, chan>>
  BY ZenonT(60) DEF _cancel_shim, lnd
<1>3. CASE Fail("handler")
  BY <1>1, <1>2, <1>3, FailOut, ZenonT(60)
<1>4. CASE state' = "retired" /\ flags' = flags /\ Goto("handler", "idle")
  BY <1>1, <1>2, <1>4, RetiredOut, ZenonT(60)
<1> QED BY <1>3, <1>4, ZenonT(60) DEF _cancel_shim, transition_or_fail

\* The messages up to the opened shim keep the record before verification.
LEMMA PlanOut ==
    ASSUME TypeOK, OutInv, _plan \/ _plan_armed \/ _open \/ _open_prepared
    PROVE  OutInv'
<1>0. /\ "handler" \in Actors
      /\ {"planned", "acceptor_armed", "prepared_not_verified"} \subseteq PreVerifiedStates
      /\ "idle" \in Labels \ {"cancel", "shim", "r_second", "w_second"}
      /\ "idle" \notin RetireLabels
  BY LabelMembers DEF Actors, PreVerifiedStates, RetireLabels
<1>1. ASSUME NEW t \in {"planned", "acceptor_armed", "prepared_not_verified"},
             NEW g \in {flags, flags \cup {"open_started"}, flags \cup {"prepared"}},
             transition(t, g), NEW l \in {"idle", "plan", "open"}, Goto("handler", l),
             rpc' \in {rpc, rpc \cup {"open"}}, UNCHANGED <<seenState, seenFlags, shim, chan>>
      PROVE  OutInv'
  <2>1. /\ flags \subseteq g /\ g \subseteq flags \cup {"open_started", "prepared"}
        /\ "verify" \in rpc' => "verify" \in rpc
    BY <1>1, SMTT(60)
  <2> QED BY <1>0, <1>1, <2>1, EarlyOut, ZenonT(60)
<1>2. ASSUME UNCHANGED journal, Goto("handler", "idle"), rpc' \in {rpc, rpc \cup {"cancel"}},
             UNCHANGED <<seenState, seenFlags, shim, chan>>
      PROVE  OutInv'
  <2>1. "verify" \in rpc' => "verify" \in rpc
    BY <1>2, SMTT(60)
  <2> QED BY <1>0, <1>2, <2>1, GotoOut, ZenonT(60)
<1>3. CASE _plan
  BY <1>1, <1>3, ZenonT(60) DEF _plan, lnd
<1>4. CASE _plan_armed
  BY <1>1, <1>2, <1>4, ZenonT(60) DEF _plan_armed, lnd
<1>5. CASE _open
  BY <1>1, <1>5, ZenonT(60) DEF _open
<1>6. CASE _open_prepared
  BY <1>1, <1>2, <1>6, ZenonT(60) DEF _open_prepared
<1> QED BY <1>3, <1>4, <1>5, <1>6, Zenon

\* Readiness, the authorization to sign, and the signatures come after it.
LEMMA SignOut ==
    ASSUME TypeOK, OutInv,
           _unsigned_ready \/ _ready_set \/ _sign \/ on_tx \/ on_tx_signed \/ _handle_push
    PROVE  OutInv'
<1>0. /\ "handler" \in Actors
      /\ "idle" \in Labels \ {"cancel", "shim", "r_second", "w_second"}
      /\ "idle" \notin RetireLabels
  BY LabelMembers DEF Actors, RetireLabels
<1>1. ASSUME NEW t \in {"ready", "signing", "signed", "broadcast"},
             NEW x \in {"observed", "readiness", "created", "sent", "final"},
             NEW g \in {flags, flags \cup {x}}, transition(t, g),
             pc' = pc \/ \E l \in {"idle", "sign", "send"} : Goto("handler", l),
             UNCHANGED <<seenState, seenFlags, rpc, shim, chan>>
      PROVE  OutInv'
  <2>1. state' = t /\ flags' = g
    BY <1>1, Zenon DEF transition
  <2>2. t \in VerifiedStates => state \in VerifiedStates
    BY <1>1, TransitionFacts, SMTT(60) DEF transition, VerifiedStates
  <2>3. /\ state' \notin PreVerifiedStates \cup {"none", "retired"}
        /\ state' \in VerifiedStates => "points" \in flags
    BY <2>1, <2>2, SMTT(60) DEF OutInv, PointsInv, PreVerifiedStates, VerifiedStates
  <2>4. /\ flags \subseteq flags'
        /\ flags' \subseteq flags \cup {"observed", "readiness", "created", "sent", "final"}
    BY <2>1, SMTT(60)
  <2> QED BY <1>1, <2>3, <2>4, LaterOut, ZenonT(60)
<1>2. ASSUME UNCHANGED journal, Goto("handler", "idle"),
             UNCHANGED <<seenState, seenFlags, rpc, shim, chan>>
      PROVE  OutInv'
  BY <1>0, <1>2, GotoOut, ZenonT(60)
<1>3. ASSUME UNCHANGED journal, pc' = pc, UNCHANGED <<seenState, seenFlags, rpc, shim, chan>>
      PROVE  OutInv'
  BY <1>3, OutFrame, ZenonT(60) DEF journal
<1>4. CASE _unsigned_ready
  BY <1>1, <1>2, <1>4, ZenonT(60) DEF _unsigned_ready, lnd
<1>5. CASE _ready_set
  BY <1>1, <1>5, ZenonT(60) DEF _ready_set, process, lnd
<1>6. CASE _sign
  BY <1>1, <1>6, ZenonT(60) DEF _sign, process, lnd
<1>7. CASE on_tx
  BY <1>1, <1>3, <1>7, ZenonT(60) DEF on_tx, lnd
<1>8. CASE on_tx_signed
  <2>1. UNCHANGED <<seenState, seenFlags, rpc, shim, chan>>
    BY <1>8, Zenon DEF on_tx_signed, lnd
  <2>2. CASE UNCHANGED journal /\ Goto("handler", "idle")
    BY <1>2, <2>1, <2>2, ZenonT(60)
  <2>3. CASE /\ transition("signed", flags \cup {"sent"})
             /\ Goto("handler", "send") \/ Goto("handler", "idle")
    BY <1>1, <2>1, <2>3, ZenonT(60)
  <2> QED BY <1>8, <2>2, <2>3, ZenonT(60) DEF on_tx_signed
<1>9. CASE _handle_push
  BY <1>1, <1>3, <1>9, ZenonT(60) DEF _handle_push, process, lnd
<1> QED BY <1>4, <1>5, <1>6, <1>7, <1>8, <1>9, Zenon

\* The pass resumes, retires or leaves the record it read.
LEMMA ReconcileRecordOut == ASSUME TypeOK, Parts, OutInv, reconcile_record PROVE OutInv'
<1> DEFINE s == seenState["reconciler"]
           f == seenFlags["reconciler"]
<1>1. /\ "reconciler" \in Actors /\ s \in States \cup {"none"}
      /\ pc["reconciler"] = "scan" /\ UNCHANGED <<seenState, seenFlags, shim, chan>>
  BY ZenonT(60) DEF reconcile_record, TypeOK, Actors
<1>2. CASE /\ \E l \in {"release_retired", "release", "chain", "points"} : Goto("reconciler", l)
           /\ UNCHANGED <<journal, rpc>>
  <2>1. \A l \in {"release_retired", "release", "chain", "points"} :
           /\ l \in Labels \ {"cancel", "shim", "r_second", "w_second"}
           /\ l \notin RetireLabels
    BY LabelMembers, SMTT(60) DEF RetireLabels
  <2> QED BY <1>1, <1>2, <2>1, GotoOut, ZenonT(60)
<1>3. CASE /\ s = "invited" /\ seenLive = {} /\ rpc' = rpc
           /\ state' = "retired" /\ flags' = flags /\ Goto("reconciler", "release_retired")
  <2>1. state = "invited"
    BY <1>1, <1>3, ZenonT(60) DEF Parts, OrphanInv
  <2>2. "evidence" \notin flags
    BY <2>1, SMTT(60) DEF OutInv, VerifyInv, PreVerifiedStates
  <2> QED BY <1>1, <1>3, <2>2, RetiredOut, ZenonT(60)
<1>4. CASE s \in ActiveStates /\ unsigned(s, f) /\ BeginRetire("reconciler", s)
  <2>1. s # "retired"
    BY <1>4, SMTT(60) DEF ActiveStates
  <2>2. "points" \in flags
    BY <1>1, <1>4, SMTT(60) DEF unsigned, OutInv, PointsInv, VerifiedStates
  <2> QED BY <1>1, <1>4, <2>1, <2>2, BeginRetireOut, ZenonT(60)
<1> QED BY <1>2, <1>3, <1>4, ZenonT(60) DEF reconcile_record, BeginRetire

\* A transaction that is found ends the record's way past verification.
LEMMA ReconcileChainOut == ASSUME TypeOK, OutInv, reconcile_chain PROVE OutInv'
<1>1. /\ "reconciler" \in Actors /\ pc \in [Actors -> Labels]
      /\ UNCHANGED <<seenState, seenFlags, rpc, shim, chan>>
  BY ZenonT(60) DEF reconcile_chain, TypeOK, Actors, lnd
<1>2. CASE Fail("reconciler")
  BY <1>1, <1>2, FailOut, ZenonT(60)
<1>3. CASE /\ \E l \in {"rebroadcast", "inputs", "points"} : Goto("reconciler", l)
           /\ UNCHANGED journal
  <2>1. \A l \in {"rebroadcast", "inputs", "points"} :
           /\ l \in Labels \ {"cancel", "shim", "r_second", "w_second"}
           /\ l \notin RetireLabels
    BY LabelMembers, SMTT(60) DEF RetireLabels
  <2> QED BY <1>1, <1>3, <2>1, GotoOut, ZenonT(60)
<1>4. CASE /\ state' \in {"broadcast", "confirmed_open"} /\ flags' \in {flags, Confirmed(flags)}
           /\ \E l \in {"release", "points"} : Goto("reconciler", l)
  <2>1. VerifyInv' /\ RetiredNoOutgoing'
    BY <1>1, <1>4, SMTT(60) DEF OutInv, VerifyInv, RetiredNoOutgoing, PreVerifiedStates, Confirmed
  <2>2. PointsInv' /\ ShimInv'
    BY <1>1, <1>4, SMTT(60)
    DEF OutInv, PointsInv, ShimInv, VerifiedStates, PreVerifiedStates, RetireLabels, Actors, Goto,
        Confirmed
  <2> QED BY <2>1, <2>2, Zenon DEF OutInv
<1>5. CASE TransactionFound
  BY <1>2, <1>3, <1>4, <1>5, ZenonT(60) DEF TransactionFound, transition_or_fail, journal
<1>6. CASE /\ Goto("reconciler", "rebroadcast") \/ Goto("reconciler", "inputs")
           /\ UNCHANGED journal
  BY <1>3, <1>6, ZenonT(60)
<1> QED BY <1>5, <1>6, ZenonT(60) DEF reconcile_chain

\* The rest of the pass, the requests that only suspend the handler and the
\* session's deadline leave the record alone, or record a failure.
LEMMA SuspendOut ==
    ASSUME TypeOK, OutInv,
           \/ _unsigned \/ on_tx_send \/ reconcile_rebroadcast \/ reconcile_inputs
           \/ reconcile_points \/ _expire_timed_out_session
    PROVE  OutInv'
<1>0. /\ "handler" \in Actors /\ "reconciler" \in Actors
      /\ \A l \in {"idle", "resolve", "chain_again", "points", "release"} :
           /\ l \in Labels \ {"cancel", "shim", "r_second", "w_second"}
           /\ l \notin RetireLabels
  BY LabelMembers, SMTT(60) DEF RetireLabels, Actors
<1>1. ASSUME NEW a \in Actors, NEW l \in {"idle", "resolve", "chain_again", "points", "release"},
             Goto(a, l), UNCHANGED journal, UNCHANGED <<seenState, seenFlags, rpc, shim, chan>>
      PROVE  OutInv'
  BY <1>0, <1>1, GotoOut, ZenonT(60)
<1>2. ASSUME Fail("reconciler"), UNCHANGED <<seenState, seenFlags, rpc, shim, chan>>
      PROVE  OutInv'
  BY <1>0, <1>2, FailOut, ZenonT(60)
<1>3. CASE _unsigned
  BY <1>0, <1>1, <1>3, ZenonT(60) DEF _unsigned, lnd
<1>4. CASE on_tx_send
  BY <1>0, <1>1, <1>4, ZenonT(60) DEF on_tx_send, lnd
<1>5. CASE reconcile_rebroadcast
  BY <1>0, <1>1, <1>2, <1>5, ZenonT(60) DEF reconcile_rebroadcast, lnd
<1>6. CASE reconcile_inputs
  BY <1>0, <1>1, <1>2, <1>6, ZenonT(60) DEF reconcile_inputs, lnd
<1>7. CASE reconcile_points
  BY <1>0, <1>1, <1>2, <1>7, ZenonT(60) DEF reconcile_points, lnd
<1>8. CASE _expire_timed_out_session
  <2>1. CASE pc' = pc
    BY <1>8, <2>1, OutFrame, ZenonT(60) DEF _expire_timed_out_session, journal, lnd
  <2> QED BY <1>0, <1>1, <1>8, <2>1, ZenonT(60) DEF _expire_timed_out_session, lnd
<1> QED BY <1>3, <1>4, <1>5, <1>6, <1>7, <1>8, ZenonT(60)

\* The restart, the chain and the wallet's other users touch no part of OutInv.
LEMMA OutsideOut ==
    ASSUME OutInv,
           \/ Restart \/ TakerBroadcasts \/ Confirm \/ Evict \/ LeaseExpires
           \/ OthersTake \/ OthersSpend \/ UNCHANGED vars
    PROVE  OutInv'
<1>1. UNCHANGED <<state, flags, pc, seenState, seenFlags, rpc, shim, chan>>
  BY ZenonT(60)
  DEF Restart, TakerBroadcasts, Confirm, Evict, LeaseExpires, OthersTake, OthersSpend, vars,
      journal, process, lnd
<1> QED BY <1>1, OutFrame, Zenon

\* Every step keeps the account of the outgoing channel.
LEMMA OutStep == Inv /\ OutInv /\ [Next]_vars => OutInv'
<1> SUFFICES ASSUME TypeOK, Parts, OutInv, [Next]_vars PROVE OutInv'
  BY Zenon DEF Inv, Parts
<1>1. CASE Handler
  <2>1. CASE \E a \in Actors : _retire_unsigned_record(a)
    BY <2>1, RetireOut, ZenonT(60)
  <2> QED BY <1>1, <2>1, InviteOut, PlanOut, VerifyOut, VerifiedOut, SignOut, SuspendOut,
             CancelOut, CancelShimOut, RetireOut, ZenonT(60) DEF Handler, Actors
<1>2. CASE _handle_push \/ _expire_timed_out_session
  BY <1>2, SignOut, SuspendOut, Zenon
<1>3. CASE reconcile_ring_records
  <2>1. CASE reconcile_begin
    BY <2>1, ReadOut, ZenonT(60) DEF reconcile_begin, journal, lnd, Actors
  <2> QED BY <1>3, <2>1, ReconcileRecordOut, ReconcileChainOut, SuspendOut, ReconcileEndOut,
             RetireOut, ZenonT(60) DEF reconcile_ring_records, Actors
<1>4. CASE Crash
  BY <1>4, StoppedOut, ZenonT(60) DEF Crash, lnd
<1>5. CASE Restart \/ UNCHANGED vars
  BY <1>5, OutsideOut, Zenon
<1>6. CASE Environment
  BY <1>6, LndOut, OutsideOut, ZenonT(60) DEF Environment
<1> QED BY <1>1, <1>2, <1>3, <1>4, <1>5, <1>6, ZenonT(60) DEF Next

\* A record is retired only when its outgoing channel is gone and LND has no
\* verification left that could still create it, through late requests, failing
\* calls, crashes and a cancellation beside the reconciler.
THEOREM RetiredSafety == Spec => []RetiredNoOutgoing
<1>1. Init => OutInv
  BY DEF Init, OutInv, VerifyInv, PointsInv, ShimInv, RetiredNoOutgoing, VerifiedStates,
         PreVerifiedStates, RetireLabels, Actors, Ends
<1>2. Inv /\ OutInv /\ [Next]_vars => (Inv /\ OutInv)'
  BY InvStep, OutStep
<1>3. OutInv => RetiredNoOutgoing
  BY DEF OutInv
<1> QED BY InitInv, <1>1, <1>2, <1>3, PTL DEF Spec
=============================================================================
