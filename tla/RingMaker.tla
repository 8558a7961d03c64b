------------------------------ MODULE RingMaker ------------------------------
(***************************************************************************)
(* One maker's part in a private channel ring: the journal of one ring     *)
(* revision (maker/channel_ring.py, MakerRingParticipant), the CoinJoin    *)
(* session it belongs to, the reconciler that runs beside the sessions,    *)
(* the maker's LND node and the wallet lease on the maker's inputs.        *)
(*                                                                         *)
(* The process is one asyncio loop: a handler or the reconciler runs       *)
(* without interruption from one await to the next, so an action is the    *)
(* code between two awaits and `pc' says which await each of the two is    *)
(* suspended in.  A request to LND is issued, executed and answered in     *)
(* separate steps, because the process may time out, be cancelled or die   *)
(* while LND still executes it.                                            *)
(***************************************************************************)
EXTENDS Naturals, RingLifecycle

CONSTANTS
    FirstEnd,    \* the endpoint whose edge comes first in the manifest
    MaxFaults,   \* bound on failing calls to LND and the chain backend
    MaxCrashes   \* bound on process crashes

ASSUME FirstEndAssumption == FirstEnd \in {"out", "in"}
ASSUME BoundsAssumption == MaxFaults \in Nat /\ MaxCrashes \in Nat

VARIABLES
    state,      \* the journal's lifecycle state, "none" before the invitation
    flags,      \* the journal's recorded facts
    session,    \* the taker's session: live, complete, expired or none
    pc,         \* where the handler and the reconciler are suspended
    seenState,  \* the record each of them read last ...
    seenFlags,  \* ... which may be stale
    seenLive,   \* {"live"} iff the session was active when the pass began
    proc,       \* the maker process: up or down
    memory,     \* what the LND client remembers until the process ends
    rpc,        \* requests LND has been sent and may still execute
    shim,       \* LND: the outgoing funding shim
    chan,       \* LND: the pending channel of each endpoint
    sig,        \* whether this maker's input signatures were made, sent
    tx,         \* the ring transaction: absent, mempool or confirmed
    spent,      \* {"other"} iff another transaction spent the inputs
    lease,      \* the record owner's wallet lease on the inputs
    faults, crashes

journal == <<state, flags>>
process == <<session, pc, seenState, seenFlags, seenLive, proc, memory>>
lnd == <<rpc, shim, chan>>
chain == <<sig, tx, spent>>
counters == <<faults, crashes>>
vars == <<journal, process, lnd, chain, lease, counters>>

Ends == {"out", "in"}
Actors == {"handler", "reconciler"}
SecondEnd == IF FirstEnd = "out" THEN "in" ELSE "out"

\* The suspension points inside _retire_unsigned_record.
RetireLabels == {"r_tx", "r_utxo", "r_first", "w_first", "r_second", "w_second"}
Labels == RetireLabels \cup
    {"idle", "plan", "open", "resolve", "verify", "observe", "sign", "send",
     "cancel", "shim", "scan", "chain", "rebroadcast", "chain_again", "inputs",
     "points", "release", "release_retired"}

Requests == {"open", "verify", "cancel", "abandon_out", "abandon_in"}
Memory == {"seen", "pending", "shim_known", "verified", "observed_out", "observed_in"}

Abandon(e) == IF e = "out" THEN "abandon_out" ELSE "abandon_in"
Observed(e) == IF e = "out" THEN "observed_out" ELSE "observed_in"

Init ==
    /\ state = "none" /\ flags = {}
    /\ session = "live"
    /\ pc = [a \in Actors |-> "idle"]
    /\ seenState = [a \in Actors |-> "none"]
    /\ seenFlags = [a \in Actors |-> {}]
    /\ seenLive = {}
    /\ proc = "up"
    /\ memory = {}
    /\ rpc = {} /\ shim = "none" /\ chan = [e \in Ends |-> "none"]
    /\ sig = {} /\ tx = "absent" /\ spent = {}
    /\ lease = "held"
    /\ faults = 0 /\ crashes = 0

-----------------------------------------------------------------------------
(* Building blocks                                                         *)

Goto(a, label) == pc' = [x \in Actors |-> IF x = a THEN label ELSE pc[x]]

\* The session's lock is free and MakerSession.run_handler lets a message in.
Dispatch ==
    /\ proc = "up" /\ session = "live" /\ pc["handler"] = "idle"

\* What an actor keeps of the record it read.
Read(a) ==
    /\ seenState' = [x \in Actors |-> IF x = a THEN state ELSE seenState[x]]
    /\ seenFlags' = [x \in Actors |-> IF x = a THEN flags ELSE seenFlags[x]]

\* RingParticipantStore.transition: reload, check, save.
transition(t, g) ==
    /\ transition_allowed(state, flags, t, g)
    /\ state' = t /\ flags' = g

\* The `except' clauses of _cancel and of the reconciliation pass.
Fail(a) ==
    /\ state' = IF can_transition_to(state, "recovery_required")
                THEN "recovery_required" ELSE state
    /\ flags' = flags
    /\ Goto(a, IF a = "handler" THEN "idle" ELSE "release")

\* A call to LND or the chain backend raises.
Fault == faults < MaxFaults /\ faults' = faults + 1

NoFault == faults' = faults

\* Owner-qualified release: only the lease this owner still holds.
Released == IF lease = "held" THEN "released" ELSE lease

\* The process ended; only the journal, LND, the chain and the lease remain.
Stopped ==
    /\ proc' = "down" /\ session' = "none"
    /\ pc' = [a \in Actors |-> "idle"]
    /\ seenState' = [a \in Actors |-> "none"]
    /\ seenFlags' = [a \in Actors |-> {}]
    /\ seenLive' = {} /\ memory' = {}

-----------------------------------------------------------------------------
(* Ring messages before verification                                       *)

\* A repeated invitation finds the record and answers from its cache.
_invite ==
    /\ Dispatch /\ state = "none"
    /\ state' = "invited" /\ flags' = {"maker"}
    /\ UNCHANGED <<process, lnd, chain, lease, counters>>

\* The plan is journalled, then the handler waits for its channel acceptor.
_plan ==
    /\ Dispatch /\ state = "invited"
    /\ transition("planned", flags)
    /\ Goto("handler", "plan")
    /\ UNCHANGED <<session, seenState, seenFlags, seenLive, proc, memory,
                   lnd, chain, lease, counters>>

_plan_armed ==
    /\ pc["handler"] = "plan"
    /\ \/ transition("acceptor_armed", flags)
       \/ UNCHANGED journal       \* the acceptor never became ready, or the
                                  \* journal refused the change
    /\ Goto("handler", "idle")
    /\ UNCHANGED <<session, seenState, seenFlags, seenLive, proc, memory,
                   lnd, chain, lease, counters>>

\* outgoing_open_started is durable before LND hears of the channel.
_open ==
    /\ Dispatch /\ state = "acceptor_armed"
    /\ transition("acceptor_armed", flags \cup {"open_started"})
    /\ IF "seen" \in memory       \* the pending channel ID was used before
       THEN Goto("handler", "idle") /\ UNCHANGED <<memory, rpc>>
       ELSE /\ Goto("handler", "open")
            /\ memory' = memory \cup {"seen"}
            /\ rpc' = rpc \cup {"open"}
    /\ UNCHANGED <<session, seenState, seenFlags, seenLive, proc, shim, chan,
                   chain, lease, counters>>

\* Both legs succeeded, or one failed.  gather() does not stop the other leg:
\* LND may still open the shim afterwards.  A timed-out OpenChannel asks for the
\* cancellation of its shim and ignores the answer.
_open_prepared ==
    /\ pc["handler"] = "open"
    /\ \/ /\ shim = "open"
          /\ transition("prepared_not_verified", flags \cup {"prepared"})
          /\ rpc' = rpc
       \/ UNCHANGED journal /\ rpc' \in {rpc, rpc \cup {"cancel"}}
    /\ Goto("handler", "idle")
    /\ UNCHANGED <<session, seenState, seenFlags, seenLive, proc, memory,
                   shim, chan, chain, lease, counters>>

-----------------------------------------------------------------------------
(* Verification, readiness, signing authorization                          *)

\* The manifest is checked, then every prevout is looked up.
_unsigned ==
    /\ Dispatch /\ state = "prepared_not_verified"
    /\ Goto("handler", "resolve")
    /\ UNCHANGED <<journal, session, seenState, seenFlags, seenLive, proc,
                   memory, lnd, chain, lease, counters>>

\* Mutant: PsbtVerify is called before the journal says so.
_unsigned_verify_unjournaled ==
    /\ pc["handler"] = "resolve"
    /\ IF state = "prepared_not_verified" /\ "pending" \in memory
       THEN rpc' = rpc \cup {"verify"} /\ Goto("handler", "verify")
       ELSE rpc' = rpc /\ Goto("handler", "idle")
    /\ UNCHANGED <<journal, session, seenState, seenFlags, seenLive, proc, memory,
                   shim, chan, chain, lease, counters>>

\* The exact transaction is journalled as "verifying" before PsbtVerify.
_unsigned_verify ==
    /\ pc["handler"] = "resolve"
    /\ \/ /\ state = "prepared_not_verified"
          /\ transition("verifying", flags \cup {"evidence"})
          /\ IF "pending" \in memory
             THEN rpc' = rpc \cup {"verify"} /\ Goto("handler", "verify")
             ELSE rpc' = rpc /\ Goto("handler", "idle")
       \/ /\ UNCHANGED <<journal, rpc>>
          /\ Goto("handler", "idle")
    /\ UNCHANGED <<session, seenState, seenFlags, seenLive, proc, memory,
                   shim, chan, chain, lease, counters>>

\* PsbtVerify answered: persist that the shim is consumed.  Otherwise it
\* failed or timed out, whatever LND did with it.
_unsigned_verified ==
    /\ pc["handler"] = "verify"
    /\ \/ /\ shim = "consumed"
          /\ memory' = memory \cup {"verified"}
          /\ \/ /\ transition("psbt_verified", flags \cup {"points"})
                /\ Goto("handler", "observe")
             \/ /\ ~transition_allowed(state, flags, "psbt_verified", flags \cup {"points"})
                /\ UNCHANGED journal
                /\ Goto("handler", "idle")
       \/ UNCHANGED <<journal, memory>> /\ Goto("handler", "idle")
    /\ UNCHANGED <<session, seenState, seenFlags, seenLive, proc, lnd, chain,
                   lease, counters>>

\* Mutant: the incoming channel is not waited for.
_unsigned_ready_outgoing ==
    /\ pc["handler"] = "observe"
    /\ chan["out"] = "pending"
    /\ transition("ready", flags \cup {"observed"})
    /\ memory' = memory \cup {"observed_out", "observed_in"}
    /\ Goto("handler", "idle")
    /\ UNCHANGED <<session, seenState, seenFlags, seenLive, proc, lnd, chain,
                   lease, counters>>

\* Both pending channels are observed and the record becomes ready, or an
\* observation or a check of it failed.  By then either, both or none is recorded
\* in memory, or will be: gather() leaves the other observation running, and
\* only that of a channel which is pending is ever looked at.
_unsigned_ready ==
    /\ pc["handler"] = "observe"
    /\ \/ /\ chan["out"] = "pending" /\ chan["in"] = "pending"
          /\ transition("ready", flags \cup {"observed"})
          /\ memory' = memory \cup {"observed_out", "observed_in"}
       \/ /\ UNCHANGED journal
          /\ \E seen \in SUBSET {"observed_out", "observed_in"} : memory' = memory \cup seen
    /\ Goto("handler", "idle")
    /\ UNCHANGED <<session, seenState, seenFlags, seenLive, proc, lnd, chain,
                   lease, counters>>

_ready_set ==
    /\ Dispatch /\ state = "ready"
    /\ transition("ready", flags \cup {"readiness"})
    /\ UNCHANGED <<process, lnd, chain, lease, counters>>

_sign ==
    /\ Dispatch /\ state = "ready" /\ "readiness" \in flags
    /\ transition("signing", flags)
    /\ UNCHANGED <<process, lnd, chain, lease, counters>>

-----------------------------------------------------------------------------
(* !tx, the signatures and !push                                           *)

\* prepare_coinjoin_signing: the intent to sign is durable before the wallet
\* signs.  Refused outside an authorized record, which frees the inputs of a
\* record that is no longer active.
on_tx ==
    /\ Dispatch
    /\ \/ /\ state = "signing" /\ "intent" \notin flags
          /\ {"readiness", "evidence"} \subseteq flags
          /\ transition("signing", flags \cup {"created"})
          /\ Goto("handler", "sign")
          /\ lease' = lease
       \/ /\ state \in {"retired", "confirmed_open"}
          /\ lease' = Released
          /\ UNCHANGED <<journal, pc>>
    /\ UNCHANGED <<session, seenState, seenFlags, seenLive, proc, memory,
                   lnd, chain, counters>>

\* The wallet answered: mark_signatures_sent before anything is sent.  A journal
\* that left "signing" meanwhile makes the handler refuse; so does a wallet
\* error, and then the session stays open for another !tx.
on_tx_signed ==
    /\ pc["handler"] = "sign"
    /\ \/ /\ sig' = sig \cup {"made"}
          /\ IF state = "signing" /\ "created" \in flags
             THEN /\ transition("signed", flags \cup {"sent"})
                  /\ Goto("handler", IF session = "live" THEN "send" ELSE "idle")
             ELSE UNCHANGED journal /\ Goto("handler", "idle")
       \/ /\ UNCHANGED <<sig, journal>>
          /\ Goto("handler", "idle")
    /\ UNCHANGED <<session, seenState, seenFlags, seenLive, proc, memory,
                   lnd, tx, spent, lease, counters>>

\* Register the signed round, send every !sig and complete the session; or the
\* registry is full, or the session ended, and nothing is sent.
on_tx_send ==
    /\ pc["handler"] = "send"
    /\ \/ /\ session = "live"
          /\ sig' = sig \cup {"sent"} /\ session' = "complete"
       \/ /\ session = "live"
          /\ session' = "expired" /\ sig' = sig
       \/ /\ session # "live"
          /\ UNCHANGED <<session, sig>>
    /\ Goto("handler", "idle")
    /\ UNCHANGED <<journal, seenState, seenFlags, seenLive, proc, memory, lnd,
                   tx, spent, lease, counters>>

\* The taker asks this maker to broadcast.  While the session is routable the
\* final transaction is journalled first, and refused out of order.
_handle_push ==
    /\ proc = "up" /\ session \in {"complete", "expired"}
    /\ "sent" \in sig /\ lease = "held"
    /\ IF session = "complete"
       THEN /\ state \in {"signed", "broadcast"}
            /\ transition("broadcast", flags \cup {"final"})
       ELSE UNCHANGED journal
    /\ tx' \in IF tx = "absent" /\ spent = {} THEN {"absent", "mempool"} ELSE {tx}
    /\ UNCHANGED <<process, lnd, sig, spent, lease, counters>>

-----------------------------------------------------------------------------
(* _retire_unsigned_record, run by a cancellation or by the reconciler     *)

\* The journal change, or the exception the store raises.
transition_or_fail(a, t, g, label) ==
    IF transition_allowed(state, flags, t, g)
    THEN state' = t /\ flags' = g /\ Goto(a, label)
    ELSE Fail(a)

\* Claim the retirement: the intent is saved under the state the caller read.
\* A record that is already retired needs nothing more.
BeginRetire(a, s) ==
    /\ transition_or_fail(a, s, flags \cup {"intent"},
                          IF s = "retired" THEN "idle" ELSE "r_tx")
    /\ lease' = IF /\ s = "retired"
                   /\ transition_allowed(state, flags, s, flags \cup {"intent"})
                THEN Released ELSE lease
    /\ UNCHANGED <<memory, rpc>>

\* get_transaction swallows a failed RPC and answers "absent".
retire_check_tx(a) ==
    /\ pc[a] = "r_tx"
    /\ IF tx = "absent"
       THEN Goto(a, "r_utxo") /\ UNCHANGED journal /\ NoFault
       ELSE \/ Goto(a, "r_utxo") /\ UNCHANGED journal /\ Fault
            \/ Fail(a) /\ NoFault
    /\ UNCHANGED <<session, seenState, seenFlags, seenLive, proc, memory, lnd,
                   chain, lease, crashes>>

\* _resume_verified_channels: what the client knows again of a record.
Resumed(m, f) ==
    m \cup {"seen", "pending"}
      \cup (IF "points" \in f THEN {"verified", "shim_known"} ELSE {})
      \cup (IF {"points", "observed"} \subseteq f
            THEN {"observed_out", "observed_in"} ELSE {})

\* Every local input is unspent, in the mempool's view too: the exact
\* transaction is proved absent and the record enters "retiring".
retire_check_inputs(a) ==
    /\ pc[a] = "r_utxo"
    /\ \/ /\ tx = "absent" /\ spent = {} /\ NoFault
          /\ transition_or_fail(a, "retiring", flags \cup {"absent"}, "r_first")
          /\ memory' = IF transition_allowed(state, flags, "retiring", flags \cup {"absent"})
                       THEN Resumed(memory, flags) ELSE memory
          /\ seenFlags' = [x \in Actors |-> IF x = a THEN flags \cup {"absent"}
                                           ELSE seenFlags[x]]
       \/ /\ \/ (tx # "absent" \/ spent # {}) /\ NoFault
             \/ Fault
          /\ Fail(a)
          /\ UNCHANGED <<memory, seenFlags>>
    /\ UNCHANGED <<session, seenState, seenLive, proc, lnd, chain, lease, crashes>>

\* The client forgets an endpoint that is gone.
Forgotten(m, e) ==
    m \ (IF e = "out" THEN {"pending", "verified", "shim_known", "observed_out"}
         ELSE {"observed_in"})

\* One edge is done: go on with the other, or the record is retired; the
\* cancelled session releases its inputs in the same step, the reconciler's
\* caller does so after the pass.
EdgeRetired(a, e) ==
    IF e = FirstEnd
    THEN Goto(a, "r_second") /\ UNCHANGED <<journal, lease>>
    ELSE /\ transition_or_fail(a, "retired", flags,
                               IF a = "handler" THEN "idle" ELSE "release_retired")
         /\ lease' = IF /\ a = "handler"
                        /\ transition_allowed(state, flags, "retired", flags)
                     THEN Released ELSE lease

\* _validate_retirement_authorization, on the record that entered "retiring".
RetirementAuthorized(a) == {"created", "sent", "final"} \cap seenFlags[a] = {}

\* retire_verified_external_channel up to AbandonChannel.  An absent point is
\* done; a pending one must have been observed by this client at that point.
retire_edge(a, e) ==
    /\ pc[a] = IF e = FirstEnd THEN "r_first" ELSE "r_second"
    /\ \/ /\ NoFault /\ RetirementAuthorized(a) /\ chan[e] # "pending"
          /\ EdgeRetired(a, e)
          /\ memory' = Forgotten(memory, e) /\ rpc' = rpc
       \/ /\ NoFault /\ RetirementAuthorized(a) /\ chan[e] = "pending"
          /\ Observed(e) \in memory
          /\ Goto(a, IF e = FirstEnd THEN "w_first" ELSE "w_second")
          /\ rpc' = rpc \cup {Abandon(e)}
          /\ UNCHANGED <<journal, memory, lease>>
       \/ /\ IF RetirementAuthorized(a) /\ (chan[e] = "pending" => Observed(e) \in memory)
             THEN Fault ELSE NoFault
          /\ Fail(a)
          /\ UNCHANGED <<memory, rpc, lease>>
    /\ UNCHANGED <<session, seenState, seenFlags, seenLive, proc, shim, chan,
                   chain, crashes>>

\* AbandonChannel was answered and the point is gone; or the call or the
\* check failed, and LND may execute it later.
retire_edge_gone(a, e) ==
    /\ pc[a] = IF e = FirstEnd THEN "w_first" ELSE "w_second"
    /\ \/ /\ NoFault /\ chan[e] # "pending"
          /\ EdgeRetired(a, e)
          /\ memory' = Forgotten(memory, e)
       \/ /\ Fault
          /\ Fail(a)
          /\ UNCHANGED <<memory, lease>>
    /\ UNCHANGED <<session, seenState, seenFlags, seenLive, proc, lnd, chain,
                   crashes>>

_retire_unsigned_record(a) ==
    \/ retire_check_tx(a)
    \/ retire_check_inputs(a)
    \/ \E e \in Ends : retire_edge(a, e) \/ retire_edge_gone(a, e)

-----------------------------------------------------------------------------
(* ring_cancel                                                             *)

\* With the record as it was read before the acceptor was awaited.
CancelDecision(s, f) ==
    IF retirement_action(s, f) = "shim_cancel"
    THEN IF ~transition_allowed(state, flags, "retiring", flags)
         THEN Fail("handler") /\ UNCHANGED <<rpc, lease>>
         ELSE IF {"open_started", "prepared"} \cap f = {}
         THEN /\ state' = "retired" /\ flags' = flags
              /\ Goto("handler", "idle")
              /\ lease' = Released /\ rpc' = rpc
         ELSE IF "verified" \in memory
         THEN /\ state' = "recovery_required" /\ flags' = flags
              /\ Goto("handler", "idle")
              /\ UNCHANGED <<lease, rpc>>
         ELSE /\ state' = "retiring" /\ flags' = flags
              /\ Goto("handler", "shim")
              /\ rpc' = rpc \cup {"cancel"} /\ lease' = lease
    ELSE IF \/ "intent" \in f
            \/ retirement_action(s, f) = "abandon_verified"
            \/ s \in {"psbt_verified", "ready", "signing"}
    THEN BeginRetire("handler", s)
    ELSE Fail("handler") /\ UNCHANGED <<rpc, lease>>

\* Refused once signing has begun.  The acceptor may still be running; then
\* the handler cancels and awaits it before it decides.
_cancel ==
    /\ Dispatch /\ state # "none"
    /\ {"created", "sent", "final"} \cap flags = {}
    /\ \/ /\ state \in {"planned", "acceptor_armed", "retiring", "recovery_required"}
          /\ Goto("handler", "cancel")
          /\ Read("handler")
          /\ UNCHANGED <<journal, rpc, lease>>
       \/ /\ CancelDecision(state, flags)
          /\ UNCHANGED <<seenState, seenFlags>>
    /\ UNCHANGED <<session, seenLive, proc, memory, shim, chan, chain, counters>>

_cancel_decide ==
    /\ pc["handler"] = "cancel"
    /\ CancelDecision(seenState["handler"], seenFlags["handler"])
    /\ UNCHANGED <<session, seenState, seenFlags, seenLive, proc, memory, shim,
                   chan, chain, counters>>

\* The shim cancellation was answered.  "Not found" counts as cancelled only
\* when this process created the shim and never verified it.
_cancel_shim ==
    /\ pc["handler"] = "shim"
    /\ \/ /\ "cancel" \notin rpc /\ NoFault
          /\ \/ shim = "canceled"
             \/ IF "pending" \in memory THEN "shim_known" \in memory
                                        ELSE "seen" \in memory
          /\ transition_or_fail("handler", "retired", flags, "idle")
          /\ lease' = IF transition_allowed(state, flags, "retired", flags)
                      THEN Released ELSE lease
          /\ memory' = memory \ {"pending", "shim_known"}
       \/ /\ \/ "cancel" \notin rpc /\ NoFault /\ shim # "canceled"
                /\ ~IF "pending" \in memory THEN "shim_known" \in memory
                                            ELSE "seen" \in memory
             \/ Fault
          /\ Fail("handler")
          /\ UNCHANGED <<memory, lease>>
    /\ UNCHANGED <<session, seenState, seenFlags, seenLive, proc, lnd, chain,
                   crashes>>

-----------------------------------------------------------------------------
(* The reconciliation pass, at start-up and then periodically              *)

\* Mutant: the identity of a session counts although the session ended.
reconcile_begin_any_session ==
    /\ proc = "up" /\ pc["reconciler"] = "idle"
    /\ Read("reconciler")
    /\ seenLive' = {session} \ {"none"}
    /\ Goto("reconciler", "scan")
    /\ UNCHANGED <<journal, session, proc, memory, lnd, chain, lease, counters>>

\* The live sessions and the records are read once, when the pass begins.
reconcile_begin ==
    /\ proc = "up" /\ pc["reconciler"] = "idle"
    /\ Read("reconciler")
    /\ seenLive' = IF session \in {"live", "complete"} THEN {"live"} ELSE {}
    /\ Goto("reconciler", "scan")
    /\ UNCHANGED <<journal, session, proc, memory, lnd, chain, lease, counters>>

\* Mutants: an interrupted retirement is not resumed, or not begun.
unsigned_signing(s, f) == s = "signing" /\ has_unsigned_funding_evidence(f)
unsigned_claimed(s, f) == "intent" \in f

\* An orphaned record whose channels may be retired without a signature.
unsigned(s, f) ==
    "intent" \in f \/ (s = "signing" /\ has_unsigned_funding_evidence(f))

\* The pass reaches this record, after it awaited others.
reconcile_record ==
    LET s == seenState["reconciler"]
        f == seenFlags["reconciler"]
        orphan == seenLive = {}
    IN  /\ pc["reconciler"] = "scan"
        /\ \/ /\ s = "retired" /\ "intent" \in f
              /\ Goto("reconciler", "release_retired")
              /\ UNCHANGED <<journal, lease, memory, rpc>>
           \/ /\ s \notin ActiveStates /\ ~(s = "retired" /\ "intent" \in f)
              /\ Goto("reconciler", "release")
              /\ UNCHANGED <<journal, lease, memory, rpc>>
           \/ /\ s = "invited" /\ orphan    \* and past its grace period
              /\ transition_allowed(state, flags, "retiring", flags)
              /\ state' = "retired" /\ flags' = flags
              /\ Goto("reconciler", "release_retired")
              /\ UNCHANGED <<lease, memory, rpc>>
           \/ /\ s \in ActiveStates /\ orphan /\ unsigned(s, f)
              /\ BeginRetire("reconciler", s)
           \/ /\ s \in ActiveStates /\ ~(orphan /\ unsigned(s, f))
              /\ Goto("reconciler", IF s \in {"signed", "broadcast"} THEN "chain" ELSE "points")
              /\ memory' = IF s \in {"prepared_not_verified", "psbt_verified", "ready", "signing"}
                           THEN Resumed(memory, f) ELSE memory
              /\ UNCHANGED <<journal, lease, rpc>>
        /\ UNCHANGED <<session, seenState, seenFlags, seenLive, proc, shim, chan,
                       chain, counters>>

\* The chain status of the confirmed transaction replaces the record's.
Confirmed(f) == (f \ {"absent"}) \cup {"confirmed"}

\* The transaction was found: note the broadcast, and the confirmation.
TransactionFound ==
    IF /\ seenState["reconciler"] = "signed"
       /\ ~transition_allowed(state, flags, "broadcast", flags)
    THEN Fail("reconciler")
    ELSE IF tx = "confirmed"
    THEN transition_or_fail("reconciler", "confirmed_open", Confirmed(flags), "release")
    ELSE /\ state' = IF seenState["reconciler"] = "signed" THEN "broadcast" ELSE state
         /\ flags' = flags
         /\ Goto("reconciler", "points")

\* get_transaction, which reports a failed RPC as an absent transaction.
reconcile_chain ==
    /\ pc["reconciler"] \in {"chain", "chain_again"}
    /\ \/ tx # "absent" /\ TransactionFound /\ NoFault
       \/ /\ \/ tx = "absent" /\ NoFault
             \/ tx # "absent" /\ Fault
          /\ Goto("reconciler", IF /\ pc["reconciler"] = "chain"
                                  /\ "final" \in seenFlags["reconciler"]
                               THEN "rebroadcast" ELSE "inputs")
          /\ UNCHANGED journal
    /\ UNCHANGED <<session, seenState, seenFlags, seenLive, proc, memory, lnd,
                   chain, lease, crashes>>

\* The retained final transaction is sent again.  The node refuses it when its
\* inputs are spent, by another transaction or by its own confirmation.
reconcile_rebroadcast ==
    /\ pc["reconciler"] = "rebroadcast"
    /\ \/ /\ tx # "confirmed" /\ spent = {} /\ NoFault
          /\ tx' = "mempool"
          /\ Goto("reconciler", "chain_again") /\ UNCHANGED journal
       \/ /\ \/ (tx = "confirmed" \/ spent # {}) /\ NoFault
             \/ Fault
          /\ Fail("reconciler") /\ tx' = tx
    /\ UNCHANGED <<session, seenState, seenFlags, seenLive, proc, memory, lnd,
                   sig, spent, lease, crashes>>

\* No transaction was found: a local input that is not unspent, in the
\* mempool's view too, sends the record to recovery.
reconcile_inputs ==
    /\ pc["reconciler"] = "inputs"
    /\ \/ /\ tx = "absent" /\ spent = {} /\ NoFault
          /\ Goto("reconciler", "points") /\ UNCHANGED journal
       \/ /\ \/ (tx # "absent" \/ spent # {}) /\ NoFault
             \/ Fault
          /\ Fail("reconciler")
    /\ UNCHANGED <<session, seenState, seenFlags, seenLive, proc, memory, lnd,
                   chain, lease, crashes>>

\* Each known funding point is looked up, then an orphan that needs its taker
\* is escalated.
reconcile_points ==
    LET s == seenState["reconciler"]
        f == seenFlags["reconciler"]
    IN  /\ pc["reconciler"] = "points"
        /\ \/ /\ NoFault
              /\ IF /\ seenLive = {}
                    /\ \/ s \in {"planned", "prepared", "verifying"}
                       \/ s = "signing" /\ "created" \in f /\ "sent" \notin f
                 THEN Fail("reconciler")
                 ELSE Goto("reconciler", "release") /\ UNCHANGED journal
           \/ Fault /\ "points" \in f /\ Fail("reconciler")
        /\ UNCHANGED <<session, seenState, seenFlags, seenLive, proc, memory, lnd,
                       chain, lease, crashes>>

\* After the pass, without an await: _renew_channel_ring_input_locks keeps or
\* restores the lease of an active record, or the maker stops; then
\* _release_retired_ring_inputs frees the inputs of a retired one.
reconcile_end ==
    LET retired == pc["reconciler"] = "release_retired" /\ state = "retired"
    IN  /\ pc["reconciler"] \in {"release", "release_retired"}
        /\ IF state \in ActiveStates /\ lease = "taken"
           THEN /\ Stopped
                /\ UNCHANGED <<journal, lease>>
           ELSE /\ Goto("reconciler", "idle")
                /\ lease' = IF state \in ActiveStates THEN "held"
                            ELSE IF retired THEN Released ELSE lease
                /\ state' = state
                /\ flags' = IF retired THEN flags \ {"intent"} ELSE flags
                /\ UNCHANGED <<session, seenState, seenFlags, seenLive, proc, memory>>
        /\ UNCHANGED <<lnd, chain, counters>>

-----------------------------------------------------------------------------
(* The session's deadline, the process's end and restart                   *)

\* Mutant: the session's inputs are freed without asking the journal.
_expire_timed_out_session_releasing ==
    /\ proc = "up" /\ session \in {"live", "complete"}
    /\ session' = "expired"
    /\ Goto("handler", "idle") \/ pc' = pc
    /\ lease' = IF session = "live" THEN Released ELSE lease
    /\ UNCHANGED <<journal, seenState, seenFlags, seenLive, proc, memory, lnd,
                   chain, counters>>

\* The handler is cancelled at its await, or suppresses that and goes on
\* detached.  Inputs are kept while the record is active or was signed.
_expire_timed_out_session ==
    /\ proc = "up" /\ session \in {"live", "complete"}
    /\ session' = "expired"
    /\ Goto("handler", "idle") \/ pc' = pc
    /\ lease' = IF session = "live" /\ state \notin ActiveStates THEN Released ELSE lease
    /\ UNCHANGED <<journal, seenState, seenFlags, seenLive, proc, memory, lnd,
                   chain, counters>>

\* The process dies between two saves of one handler.
TornJournal ==
    \/ /\ state = "invited"
       /\ state' = "retiring" /\ flags' = flags
    \/ /\ state \in {"planned", "acceptor_armed"} /\ "open_started" \notin flags
       /\ state' = "retiring" /\ flags' = flags
    \/ /\ pc["handler"] = "observe" /\ state = "psbt_verified"
       /\ chan["out"] = "pending" /\ chan["in"] = "pending"
       /\ state' = state /\ flags' = flags \cup {"observed"}

Crash ==
    /\ proc = "up" /\ crashes < MaxCrashes
    /\ crashes' = crashes + 1
    /\ Stopped
    /\ UNCHANGED journal \/ TornJournal
    /\ UNCHANGED <<lnd, chain, lease, faults>>

Restart ==
    /\ proc = "down" /\ proc' = "up"
    /\ UNCHANGED <<journal, session, pc, seenState, seenFlags, seenLive, memory,
                   lnd, chain, lease, counters>>

-----------------------------------------------------------------------------
(* LND, the other participants, the chain and the wallet's other users     *)

\* Requests are executed in any order and however late.
LndExecute(r) ==
    /\ r \in rpc /\ rpc' = rpc \ {r}
    /\ shim' = IF r = "open" /\ shim = "none" THEN "open"
               ELSE IF r = "verify" /\ shim = "open" THEN "consumed"
               ELSE IF r = "cancel" /\ shim = "open" THEN "canceled"
               ELSE shim
    /\ chan' = [e \in Ends |->
                  IF r = "verify" /\ shim = "open" /\ e = "out" THEN "pending"
                  ELSE IF r = Abandon(e) /\ chan[e] = "pending" THEN "abandoned"
                  ELSE chan[e]]
    /\ memory' = IF r = "open" /\ shim = "none" /\ "seen" \in memory
                 THEN memory \cup {"pending", "shim_known"} ELSE memory
    /\ UNCHANGED <<journal, session, pc, seenState, seenFlags, seenLive, proc,
                   chain, lease, counters>>

\* The predecessor verifies its outgoing edge, this maker's incoming one.
PredecessorVerifies ==
    /\ "prepared" \in flags /\ chan["in"] = "none"
    /\ chan' = [e \in Ends |-> IF e = "in" THEN "pending" ELSE chan[e]]
    /\ UNCHANGED <<journal, process, rpc, shim, chain, lease, counters>>

\* With every participant's signatures the taker broadcasts.
TakerBroadcasts ==
    /\ "sent" \in sig /\ tx = "absent" /\ spent = {}
    /\ tx' = "mempool"
    /\ UNCHANGED <<journal, process, lnd, sig, spent, lease, counters>>

Confirm ==
    /\ tx = "mempool" /\ tx' = "confirmed"
    /\ UNCHANGED <<journal, process, lnd, sig, spent, lease, counters>>

\* The node drops the transaction from its mempool.
Evict ==
    /\ tx = "mempool" /\ tx' = "absent" /\ Fault
    /\ UNCHANGED <<journal, process, lnd, sig, spent, lease, crashes>>

\* A lease nobody renews runs out: the maker is down or the record inactive.
LeaseExpires ==
    /\ lease = "held"
    /\ proc = "down" \/ state \notin ActiveStates
    /\ lease' = "free"
    /\ UNCHANGED <<journal, process, lnd, chain, counters>>

\* Another round or wallet process takes the inputs, and spends them.
OthersTake ==
    /\ lease \in {"free", "released"} /\ lease' = "taken"
    /\ UNCHANGED <<journal, process, lnd, chain, counters>>

OthersSpend ==
    /\ lease = "taken" /\ tx = "absent" /\ spent = {}
    /\ spent' = {"other"}
    /\ UNCHANGED <<journal, process, lnd, sig, tx, lease, counters>>

-----------------------------------------------------------------------------

Handler ==
    \/ _invite \/ _plan \/ _plan_armed \/ _open \/ _open_prepared
    \/ _unsigned \/ _unsigned_verify \/ _unsigned_verified \/ _unsigned_ready
    \/ _ready_set \/ _sign \/ on_tx \/ on_tx_signed \/ on_tx_send
    \/ _cancel \/ _cancel_decide \/ _cancel_shim
    \/ _retire_unsigned_record("handler")

reconcile_ring_records ==
    \/ reconcile_begin \/ reconcile_record
    \/ reconcile_chain \/ reconcile_rebroadcast \/ reconcile_inputs
    \/ reconcile_points \/ reconcile_end
    \/ _retire_unsigned_record("reconciler")

Environment ==
    \/ PredecessorVerifies \/ TakerBroadcasts \/ Confirm \/ Evict
    \/ LeaseExpires \/ OthersTake \/ OthersSpend
    \/ \E r \in Requests : LndExecute(r)

Next ==
    \/ Handler \/ _handle_push \/ reconcile_ring_records
    \/ _expire_timed_out_session \/ Crash \/ Restart
    \/ Environment

Spec == Init /\ [][Next]_vars

\* The reconciler runs for ever beside the sessions, LND executes what it was
\* sent and an operator restarts a maker that stopped.  Nothing is assumed of
\* the taker, the other makers, the session or its handler.
FairSpec ==
    /\ Spec
    /\ WF_vars(reconcile_ring_records)
    /\ \A r \in Requests : WF_vars(LndExecute(r))
    /\ WF_vars(Restart)

-----------------------------------------------------------------------------
(* Properties                                                              *)

\* Each variable of the journal, the process, LND, the chain and the lease stays
\* in its range: no journal state outside RingLifecycleState, no suspension point
\* outside those of the handlers and of the pass.
TypeOK ==
    /\ state \in States \cup {"none"} /\ flags \subseteq Flags
    /\ session \in {"live", "complete", "expired", "none"}
    /\ pc \in [Actors -> Labels]
    /\ seenState \in [Actors -> States \cup {"none"}]
    /\ seenFlags \in [Actors -> SUBSET Flags]
    /\ seenLive \subseteq {"live"}
    /\ proc \in {"up", "down"}
    /\ memory \subseteq Memory
    /\ rpc \subseteq Requests
    /\ shim \in {"none", "open", "consumed", "canceled"}
    /\ chan \in [Ends -> {"none", "pending", "abandoned"}]
    /\ sig \subseteq {"made", "sent"}
    /\ tx \in {"absent", "mempool", "confirmed"}
    /\ spent \subseteq {"other"}
    /\ lease \in {"held", "free", "released", "taken"}
    /\ faults \in 0..MaxFaults /\ crashes \in 0..MaxCrashes

\* Once this maker's wallet has signed the ring transaction, both of its
\* channels exist in LND: no retirement, however late LND executes it and
\* whoever of the two asked for it, abandons a channel that the signed
\* transaction may fund.
SignatureImpliesChannels ==
    "made" \in sig => \A e \in Ends : chan[e] = "pending"

\* A retired record leaves no outgoing channel behind: neither a pending one
\* nor a verification that LND may still carry out.
RetiredNoOutgoing ==
    state = "retired" => chan["out"] # "pending" /\ "verify" \notin rpc

\* The maker itself gives the inputs back only when no signature of them
\* exists or the ring transaction is confirmed.
ReleasedImpliesUnsigned ==
    lease = "released" => sig = {} \/ tx = "confirmed"

\* A step never takes the record of a signature to retirement, and never sets
\* the signature mark beside a retirement intent.
SignedNeverRetires ==
    [][/\ "created" \in flags => state' \notin {"retiring", "retired"}
       /\ "intent" \in flags => "created" \notin flags']_vars

\* A claimed retirement of channels this maker observed is finished and
\* acknowledged once its session is gone, through failing calls, crashes and
\* restarts; unless others took the inputs while the maker was down.
RetirementCompletes ==
    ({"intent", "observed"} \subseteq flags /\ session # "live")
        ~> (state = "retired" /\ "intent" \notin flags) \/ lease = "taken"

\* A maker that was authorized to sign, never did and lost its session retires
\* both channels, whatever crashes and restarts happen, when no call fails.
UnsignedOrphanRetires ==
    (state = "signing" /\ "created" \notin flags /\ session # "live")
        ~> \/ state = "retired" /\ "intent" \notin flags
           \/ lease = "taken" \/ faults > 0

\* "Records whose taker session is still live in this process are resumed but
\* never escalated" (reconcile_ring_records): a pass that saw the session live
\* does not move its record to recovery.
LiveNeverEscalated ==
    [][pc["reconciler"] \notin {"idle", "release"} /\ pc'["reconciler"] = "release"
         /\ seenLive = {"live"} /\ state' = "recovery_required"
       => state = "recovery_required"]_vars
====
