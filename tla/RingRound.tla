------------------------------ MODULE RingRound ------------------------------
(***************************************************************************)
(* A channel-ring round: the taker (party 0, taker/channel_ring.py) drives *)
(* its makers (maker/channel_ring.py) through invitation, plan, opening,   *)
(* verification, readiness and signing authorization, then the CoinJoin    *)
(* collects their signatures.  Party p opens a channel to succ(p).         *)
(*                                                                         *)
(* RingMaker has one maker's awaits, crashes and LND calls in full.  Here  *)
(* a handler is atomic between the points where it waits for another       *)
(* participant, because what is checked is what the participants do to     *)
(* each other.                                                             *)
(***************************************************************************)
EXTENDS Naturals, RingLifecycle

CONSTANTS
    N,           \* the makers of the ring are 1..N
    MaxFaults    \* bound on time-outs, failing calls and crashes

ASSUME RingAssumption == N \in Nat \ {0} /\ MaxFaults \in Nat

VARIABLES
    st,         \* each participant's journal state, "none" before its record
    observed,   \* records holding both pending-channel states
    readiness,  \* makers whose record holds the complete readiness set
    created,    \* records with local_input_signature_created
    phase,      \* what the taker's round is waiting for
    inbox,      \* requests each maker may still be delivered
    replies,    \* typed replies that reached the taker
    live,       \* makers whose session still routes messages
    busy,       \* what each maker's running handler waits for
    armed,      \* participants whose channel acceptor is running
    opening,    \* openers that asked LND to open their channel
    shim,       \* openers whose channel was negotiated, awaiting PsbtVerify
    verified,   \* openers whose LND consumed its shim
    wire,       \* <<p, kind>>: p's PsbtVerify, funding_created or its answer under way
    pending,    \* <<p, end>>: p's LND lists the channel at that end as pending
    tx,         \* the ring transaction: absent, mempool, confirmed
    faults

records == <<st, observed, readiness, created>>
lnd == <<armed, opening, shim, verified, wire, pending>>
vars == <<records, phase, inbox, replies, live, busy, lnd, tx, faults>>

Makers == 1..N
Parties == 0..N
succ(p) == IF p = N THEN 0 ELSE p + 1
pred(p) == IF p = 0 THEN N ELSE p - 1
Endpoints(p) == {<<p, "out">>, <<p, "in">>}

Requests == {"invite", "plan", "open", "unsigned", "ready_set", "sign", "tx", "cancel"}
Replies == {"hello", "plan_ack", "prepared", "ready", "ready_set_ack", "sign_ack", "sig"}
Phases == {"idle", "invite", "plan", "open", "unsigned", "ready_set", "sign",
           "tx", "local_sign", "assemble", "push", "cancel", "retire", "ended", "down"}

Init ==
    /\ st = [p \in Parties |-> "none"]
    /\ observed = {} /\ readiness = {} /\ created = {}
    /\ phase = "idle"
    /\ inbox = [m \in Makers |-> {}] /\ replies = {}
    /\ live = Makers /\ busy = [m \in Makers |-> "idle"]
    /\ armed = {} /\ opening = {} /\ shim = {} /\ verified = {} /\ wire = {} /\ pending = {}
    /\ tx = "absent" /\ faults = 0

Journal(p, s) == st' = [q \in Parties |-> IF q = p THEN s ELSE st[q]]
Fault == faults < MaxFaults /\ faults' = faults + 1

-----------------------------------------------------------------------------
(* The taker                                                               *)

\* _exchange: a request to every maker.
Send(kind) == inbox' = [m \in Makers |-> inbox[m] \cup {kind}]
\* _receive: every maker answered with the expected type.
Received(kind) == Makers \X {kind} \subseteq replies

taker_invite ==
    /\ phase = "idle"
    /\ phase' = "invite" /\ Journal(0, "invited") /\ Send("invite")
    /\ UNCHANGED <<observed, readiness, created, replies, live, busy, lnd, tx, faults>>

taker_plan ==
    /\ phase = "invite" /\ Received("hello")
    /\ phase' = "plan" /\ Journal(0, "planned") /\ Send("plan")
    /\ UNCHANGED <<observed, readiness, created, replies, live, busy, lnd, tx, faults>>

\* Mutant: the taker leaves its own channel for after the makers' replies.
taker_open_late ==
    /\ phase = "plan" /\ Received("plan_ack")
    /\ phase' = "open" /\ Journal(0, "acceptor_armed") /\ Send("open")
    /\ armed' = armed \cup {0}
    /\ UNCHANGED <<observed, readiness, created, replies, live, busy, opening, shim,
                   verified, wire, pending, tx, faults>>

\* The taker arms its own acceptor last and opens its channel like everyone.
taker_open ==
    /\ phase = "plan" /\ Received("plan_ack")
    /\ phase' = "open" /\ Journal(0, "acceptor_armed") /\ Send("open")
    /\ armed' = armed \cup {0} /\ opening' = opening \cup {0}
    /\ UNCHANGED <<observed, readiness, created, replies, live, busy, shim, verified,
                   wire, pending, tx, faults>>

\* The end of _open: both local channels are negotiated, every maker is prepared.
taker_prepared ==
    /\ phase = "open" /\ st[0] = "acceptor_armed"
    /\ Received("prepared") /\ {0, pred(0)} \subseteq shim \cup verified
    /\ Journal(0, "prepared_not_verified")
    /\ UNCHANGED <<observed, readiness, created, phase, inbox, replies, live, busy,
                   lnd, tx, faults>>

\* The transaction is built and "verifying" saved before LND is asked to verify
\* it, while the makers do the same.
taker_unsigned ==
    /\ phase = "open" /\ st[0] = "prepared_not_verified"
    /\ phase' = "unsigned" /\ Journal(0, "verifying") /\ Send("unsigned")
    /\ wire' = wire \cup {<<0, "verify">>}
    /\ UNCHANGED <<observed, readiness, created, replies, live, busy, armed, opening,
                   shim, verified, pending, tx, faults>>

_verify_local ==
    /\ phase = "unsigned" /\ st[0] = "verifying" /\ 0 \in verified
    /\ Journal(0, "psbt_verified")
    /\ UNCHANGED <<observed, readiness, created, phase, inbox, replies, live, busy,
                   lnd, tx, faults>>

\* Both local channels are observed and every maker attested both of its own:
\* _validate_readiness finds two reciprocal states for every edge.
taker_ready_set ==
    /\ phase = "unsigned" /\ st[0] = "psbt_verified" /\ Received("ready")
    /\ Endpoints(0) \subseteq pending
    /\ phase' = "ready_set" /\ Journal(0, "ready") /\ Send("ready_set")
    /\ observed' = observed \cup {0}
    /\ UNCHANGED <<readiness, created, replies, live, busy, lnd, tx, faults>>

taker_sign ==
    /\ phase = "ready_set" /\ Received("ready_set_ack") /\ st[0] = "ready"
    /\ phase' = "sign" /\ Send("sign")
    /\ UNCHANGED <<records, replies, live, busy, lnd, tx, faults>>

\* prepare() returned: the CoinJoin session sends !tx to its makers.
taker_tx ==
    /\ phase = "sign" /\ Received("sign_ack") /\ st[0] = "ready"
    /\ phase' = "tx" /\ Journal(0, "signing") /\ Send("tx")
    /\ UNCHANGED <<observed, readiness, created, replies, live, busy, lnd, tx, faults>>

\* Every required maker signed; only then does the taker sign its own inputs.
mark_local_signature_creation ==
    /\ phase = "tx" /\ Received("sig") /\ st[0] = "signing"
    /\ created' = created \cup {0} /\ phase' = "local_sign"
    /\ UNCHANGED <<st, observed, readiness, inbox, replies, live, busy, lnd, tx, faults>>

mark_local_signatures ==
    /\ phase = "local_sign" /\ st[0] = "signing"
    /\ Journal(0, "signed") /\ phase' = "assemble"
    /\ UNCHANGED <<observed, readiness, created, inbox, replies, live, busy, lnd, tx, faults>>

\* The assembled transaction is saved before anybody is sent it.
persist_final_transaction ==
    /\ phase = "assemble" /\ st[0] = "signed"
    /\ Journal(0, "broadcast") /\ phase' = "push"
    /\ UNCHANGED <<observed, readiness, created, inbox, replies, live, busy, lnd, tx, faults>>

\* The reconciliation may have sent the saved transaction already.
phase_broadcast ==
    /\ phase = "push"
    /\ phase' = "ended" /\ tx' = IF tx = "absent" THEN "mempool" ELSE tx
    /\ UNCHANGED <<records, inbox, replies, live, busy, lnd, faults>>

\* Mutant: a failure after the signing authorization cancels like any other.
prepare_fails_cancelling ==
    /\ phase \in {"invite", "plan", "open", "unsigned", "ready_set", "sign", "tx"} /\ Fault
    /\ phase' = "cancel" /\ Send("cancel")
    /\ armed' = armed \ {0}
    /\ UNCHANGED <<records, replies, live, busy, opening, shim, verified, wire, pending, tx>>

\* A phase timed out or was refused, or finds its record escalated by the
\* reconciliation beside it, from which no transition leads on.  Before
\* sign_authorized every maker is sent a cancellation; afterwards the record is
\* left as it is.
prepare_fails ==
    /\ \/ Fault
       \/ st[0] = "recovery_required" /\ phase # "push" /\ faults' = faults
    /\ \/ /\ phase \in {"invite", "plan", "open", "unsigned", "ready_set"}
          /\ phase' = "cancel" /\ Send("cancel")
          /\ armed' = armed \ {0}
       \/ /\ phase \in {"sign", "tx", "local_sign", "assemble", "push"}
          /\ phase' = "ended" /\ UNCHANGED <<inbox, armed>>
    /\ UNCHANGED <<records, replies, live, busy, opening, shim, verified, wire, pending, tx>>

\* The second half of cancel(), whether or not the makers acknowledged: a shim
\* is cancelled, verified channels are given up, anything else is escalated, as
\* is a record whose retirement raised.
_retire_local ==
    /\ phase = "cancel"
    /\ \/ /\ st[0] \in PreVerifiedStates /\ faults' = faults
          /\ Journal(0, "retired") /\ phase' = "ended"
          /\ shim' = shim \ {0} /\ opening' = opening \ {0}
       \/ /\ st[0] \in {"psbt_verified", "ready"} /\ tx = "absent" /\ faults' = faults
          /\ Journal(0, "retiring") /\ phase' = "retire"
          /\ UNCHANGED <<shim, opening>>
       \/ /\ \/ Fault
             \/ /\ st[0] \notin PreVerifiedStates \cup {"psbt_verified", "ready"}
                /\ faults' = faults
          /\ Journal(0, "recovery_required") /\ phase' = "ended"
          /\ UNCHANGED <<shim, opening>>
    /\ UNCHANGED <<observed, readiness, created, inbox, replies, live, busy, armed,
                   verified, wire, pending, tx>>

\* Both local channels are abandoned, or LND refused.
_retire_local_end ==
    /\ phase = "retire" /\ phase' = "ended"
    /\ \/ /\ Journal(0, "retired")
          /\ pending' = pending \ Endpoints(0) /\ faults' = faults
       \/ /\ Fault
          /\ Journal(0, "recovery_required") /\ pending' = pending
    /\ UNCHANGED <<observed, readiness, created, inbox, replies, live, busy, armed,
                   opening, shim, verified, wire, tx>>

taker_crash ==
    /\ phase # "down" /\ Fault
    /\ phase' = "down" /\ armed' = armed \ {0}
    /\ UNCHANGED <<records, inbox, replies, live, busy, opening, shim, verified, wire, pending, tx>>

\* One pass of reconcile_taker_ring_records, at start or periodically, also
\* beside a live round (_periodic_channel_ring_reconciliation).  A negotiation
\* whose session is gone is escalated, a live one that waits for its incoming
\* channel has its acceptor registered again; a final transaction that is not on
\* the network is sent again and a confirmed one is booked.  A call that raises,
\* or a local input spent while the transaction is absent, escalates the record
\* whether or not its round is live.
reconcile_taker_ring_records ==
    /\ \/ /\ phase \in {"ended", "down"}
          /\ st[0] \in {"acceptor_armed", "prepared_not_verified", "verifying",
                        "psbt_verified", "ready", "signing"}
          /\ Journal(0, "recovery_required") /\ UNCHANGED <<armed, tx, faults>>
       \/ /\ phase \in {"open", "cancel"} /\ st[0] = "acceptor_armed"
          /\ armed' = armed \cup {0} /\ UNCHANGED <<st, tx, faults>>
       \/ /\ st[0] = "broadcast" /\ tx = "absent"
          /\ tx' = "mempool" /\ UNCHANGED <<st, armed, faults>>
       \/ /\ st[0] = "broadcast" /\ tx = "confirmed"
          /\ Journal(0, "confirmed_open") /\ UNCHANGED <<armed, tx, faults>>
       \/ /\ st[0] \in {"prepared_not_verified", "psbt_verified", "ready", "signing",
                        "signed", "broadcast"}
          /\ Fault /\ Journal(0, "recovery_required") /\ UNCHANGED <<armed, tx>>
    /\ UNCHANGED <<observed, readiness, created, phase, inbox, replies, live, busy,
                   opening, shim, verified, wire, pending>>

-----------------------------------------------------------------------------
(* A maker                                                                 *)

\* The session lock runs one handler at a time.
Deliver(m, kind) ==
    /\ m \in live /\ busy[m] = "idle" /\ kind \in inbox[m]
    /\ inbox' = [x \in Makers |-> IF x = m THEN inbox[m] \ {kind} ELSE inbox[x]]
Wait(m, label) == busy' = [x \in Makers |-> IF x = m THEN label ELSE busy[x]]
Reply(m, kind) == replies' = replies \cup {<<m, kind>>}

_invite(m) ==
    /\ Deliver(m, "invite") /\ st[m] = "none"
    /\ Journal(m, "invited") /\ Reply(m, "hello")
    /\ UNCHANGED <<observed, readiness, created, phase, live, busy, lnd, tx, faults>>

_plan(m) ==
    /\ Deliver(m, "plan") /\ st[m] = "invited"
    /\ Journal(m, "planned") /\ Wait(m, "plan")
    /\ UNCHANGED <<observed, readiness, created, phase, replies, live, lnd, tx, faults>>

\* Mutant: the acceptor is armed at the next position, past the end of the ring.
_arm_acceptor_next(m) ==
    /\ busy[m] = "plan" /\ st[m] = "planned"
    /\ Journal(m, "acceptor_armed") /\ Wait(m, "idle") /\ Reply(m, "plan_ack")
    /\ armed' = armed \cup {m + 1}
    /\ UNCHANGED <<observed, readiness, created, phase, inbox, live, opening, shim,
                   verified, wire, pending, tx, faults>>

_arm_acceptor(m) ==
    /\ busy[m] = "plan" /\ st[m] = "planned"
    /\ Journal(m, "acceptor_armed") /\ Wait(m, "idle") /\ Reply(m, "plan_ack")
    /\ armed' = armed \cup {m}
    /\ UNCHANGED <<observed, readiness, created, phase, inbox, live, opening, shim,
                   verified, wire, pending, tx, faults>>

_open(m) ==
    /\ Deliver(m, "open") /\ st[m] = "acceptor_armed"
    /\ Wait(m, "open") /\ opening' = opening \cup {m}
    /\ UNCHANGED <<records, phase, replies, live, armed, shim, verified, wire, pending, tx, faults>>

\* gather(): the outgoing channel is negotiated and the incoming one accepted.
_open_prepared(m) ==
    /\ busy[m] = "open" /\ st[m] = "acceptor_armed" /\ {m, pred(m)} \subseteq shim \cup verified
    /\ Journal(m, "prepared_not_verified") /\ Wait(m, "idle") /\ Reply(m, "prepared")
    /\ UNCHANGED <<observed, readiness, created, phase, inbox, live, lnd, tx, faults>>

_unsigned(m) ==
    /\ Deliver(m, "unsigned") /\ st[m] = "prepared_not_verified"
    /\ Journal(m, "verifying") /\ Wait(m, "verify")
    /\ wire' = wire \cup {<<m, "verify">>}
    /\ UNCHANGED <<observed, readiness, created, phase, replies, live, armed, opening,
                   shim, verified, pending, tx, faults>>

_unsigned_verified(m) ==
    /\ busy[m] = "verify" /\ st[m] = "verifying" /\ m \in verified
    /\ Journal(m, "psbt_verified") /\ Wait(m, "observe")
    /\ UNCHANGED <<observed, readiness, created, phase, inbox, replies, live, lnd, tx, faults>>

\* Mutant: a maker reports readiness when its own verification succeeded.
_unsigned_ready_blind(m) ==
    /\ busy[m] = "observe" /\ st[m] = "psbt_verified"
    /\ Journal(m, "ready") /\ observed' = observed \cup {m}
    /\ Wait(m, "idle") /\ Reply(m, "ready")
    /\ UNCHANGED <<readiness, created, phase, inbox, live, lnd, tx, faults>>

_unsigned_ready(m) ==
    /\ busy[m] = "observe" /\ st[m] = "psbt_verified" /\ Endpoints(m) \subseteq pending
    /\ Journal(m, "ready") /\ observed' = observed \cup {m}
    /\ Wait(m, "idle") /\ Reply(m, "ready")
    /\ UNCHANGED <<readiness, created, phase, inbox, live, lnd, tx, faults>>

_ready_set(m) ==
    /\ Deliver(m, "ready_set") /\ st[m] = "ready"
    /\ readiness' = readiness \cup {m} /\ Reply(m, "ready_set_ack")
    /\ UNCHANGED <<st, observed, created, phase, live, busy, lnd, tx, faults>>

_sign(m) ==
    /\ Deliver(m, "sign") /\ st[m] = "ready" /\ m \in readiness
    /\ Journal(m, "signing") /\ Reply(m, "sign_ack")
    /\ UNCHANGED <<observed, readiness, created, phase, live, busy, lnd, tx, faults>>

\* prepare_coinjoin_signing, before the wallet signs ...
on_tx(m) ==
    /\ Deliver(m, "tx") /\ st[m] = "signing" /\ m \in readiness
    /\ created' = created \cup {m} /\ Wait(m, "sign")
    /\ UNCHANGED <<st, observed, readiness, phase, replies, live, lnd, tx, faults>>

\* ... and mark_signatures_sent, before they are sent.
on_tx_signed(m) ==
    /\ busy[m] = "sign" /\ st[m] = "signing"
    /\ Journal(m, "signed") /\ Wait(m, "idle") /\ Reply(m, "sig")
    /\ UNCHANGED <<observed, readiness, created, phase, inbox, live, lnd, tx, faults>>

\* A wait timed out or LND failed, or the journal was moved meanwhile: the
\* handler raises and nothing is replied.
handler_fails(m) ==
    /\ busy[m] # "idle"
    /\ \/ Fault
       \/ st[m] \in {"retiring", "retired", "recovery_required"} /\ faults' = faults
    /\ Wait(m, "idle")
    /\ UNCHANGED <<records, phase, inbox, replies, live, lnd, tx>>

\* Refused once signing has begun.  Whether the makers acknowledge does not
\* matter to the taker.
_cancel(m) ==
    /\ Deliver(m, "cancel") /\ st[m] # "none" /\ m \notin created
    /\ armed' = armed \ {m}
    /\ \/ /\ st[m] \in PreVerifiedStates
          /\ Journal(m, "retired") /\ shim' = shim \ {m} /\ opening' = opening \ {m}
       \/ /\ st[m] \in {"psbt_verified", "ready", "signing"} /\ tx = "absent"
          /\ Journal(m, "retiring") /\ UNCHANGED <<shim, opening>>
       \/ /\ st[m] = "verifying"
          /\ Journal(m, "recovery_required") /\ UNCHANGED <<shim, opening>>
    /\ UNCHANGED <<observed, readiness, created, phase, replies, live, busy, verified,
                   wire, pending, tx, faults>>

\* _retire_unsigned_record gave up both channels, now or in a later pass, or
\* LND refused and the operator is asked.
_retire_unsigned_record(m) ==
    /\ st[m] = "retiring"
    /\ \/ /\ Journal(m, "retired")
          /\ pending' = pending \ Endpoints(m) /\ faults' = faults
       \/ Fault /\ Journal(m, "recovery_required") /\ pending' = pending
    /\ UNCHANGED <<observed, readiness, created, phase, inbox, replies, live, busy,
                   armed, opening, shim, verified, wire, tx>>

\* The session timed out; its handler, if any, runs on.
_expire_timed_out_session(m) ==
    /\ m \in live /\ Fault
    /\ live' = live \ {m}
    /\ UNCHANGED <<records, phase, inbox, replies, busy, lnd, tx>>

maker_crash(m) ==
    /\ Fault
    /\ live' = live \ {m} /\ Wait(m, "idle") /\ armed' = armed \ {m}
    /\ UNCHANGED <<records, phase, inbox, replies, opening, shim, verified, wire, pending, tx>>

\* Mutant: an authorized record is retired whether or not it signed.
reconcile_ring_records_signed(m) ==
    /\ \/ m \notin live /\ st[m] = "invited" /\ Journal(m, "retired") /\ faults' = faults
       \/ /\ m \notin live /\ st[m] = "signing" /\ tx = "absent"
          /\ Journal(m, "retiring") /\ faults' = faults
       \/ /\ m \notin live /\ st[m] \in {"planned", "verifying"}
          /\ Journal(m, "recovery_required") /\ faults' = faults
       \/ /\ st[m] \in {"psbt_verified", "ready", "signing", "signed", "broadcast"}
          /\ Fault /\ Journal(m, "recovery_required")
       \/ /\ st[m] \in {"signed", "broadcast"} /\ tx = "confirmed"
          /\ Journal(m, "confirmed_open") /\ faults' = faults
    /\ UNCHANGED <<observed, readiness, created, phase, inbox, replies, live, busy, lnd, tx>>

\* One record of a reconciliation pass: an orphaned invitation and an orphaned
\* authorization without a signature are retired, a negotiation that needs its
\* taker and whatever met an error are escalated.
reconcile_ring_records(m) ==
    /\ \/ m \notin live /\ st[m] = "invited" /\ Journal(m, "retired") /\ faults' = faults
       \/ /\ m \notin live /\ st[m] = "signing" /\ m \notin created /\ tx = "absent"
          /\ Journal(m, "retiring") /\ faults' = faults
       \/ /\ m \notin live
          /\ st[m] \in {"planned", "verifying"} \/ (st[m] = "signing" /\ m \in created)
          /\ Journal(m, "recovery_required") /\ faults' = faults
       \/ /\ st[m] \in {"psbt_verified", "ready", "signing", "signed", "broadcast"}
          /\ Fault /\ Journal(m, "recovery_required")
       \/ /\ st[m] \in {"signed", "broadcast"} /\ tx = "confirmed"
          /\ Journal(m, "confirmed_open") /\ faults' = faults
    /\ UNCHANGED <<observed, readiness, created, phase, inbox, replies, live, busy, lnd, tx>>

\* The final transaction reached the maker.
_handle_push(m) ==
    /\ tx # "absent" /\ st[m] = "signed"
    /\ Journal(m, "broadcast")
    /\ UNCHANGED <<observed, readiness, created, phase, inbox, replies, live, busy, lnd, tx, faults>>

-----------------------------------------------------------------------------
(* LND and the network                                                     *)

\* open_channel meets the peer's armed acceptor, which takes one channel.
Negotiate(p) ==
    /\ p \in opening /\ succ(p) \in armed
    /\ shim' = shim \cup {p} /\ opening' = opening \ {p}
    /\ armed' = armed \ {succ(p)}
    /\ UNCHANGED <<records, phase, inbox, replies, live, busy, verified, wire, pending, tx, faults>>

PsbtVerify(p) ==
    /\ p \in shim /\ <<p, "verify">> \in wire
    /\ verified' = verified \cup {p} /\ shim' = shim \ {p}
    /\ wire' = (wire \ {<<p, "verify">>}) \cup {<<p, "created">>}
    /\ UNCHANGED <<records, phase, inbox, replies, live, busy, armed, opening, pending, tx, faults>>

\* The verified opener's funding_created makes the channel pending at its peer,
\* the answer makes it pending at the opener, whatever their records say by then.
FundingCreated(p) ==
    /\ <<p, "created">> \in wire
    /\ wire' = (wire \ {<<p, "created">>}) \cup {<<p, "signed">>}
    /\ pending' = pending \cup {<<succ(p), "in">>}
    /\ UNCHANGED <<records, phase, inbox, replies, live, busy, armed, opening, shim,
                   verified, tx, faults>>

FundingSigned(p) ==
    /\ <<p, "signed">> \in wire
    /\ wire' = wire \ {<<p, "signed">>}
    /\ pending' = pending \cup {<<p, "out">>}
    /\ UNCHANGED <<records, phase, inbox, replies, live, busy, armed, opening, shim,
                   verified, tx, faults>>

Confirm ==
    /\ tx = "mempool" /\ tx' = "confirmed"
    /\ UNCHANGED <<records, phase, inbox, replies, live, busy, lnd, faults>>

-----------------------------------------------------------------------------
Taker ==
    \/ taker_invite \/ taker_plan \/ taker_open \/ taker_prepared \/ taker_unsigned
    \/ _verify_local \/ taker_ready_set \/ taker_sign \/ taker_tx \/ mark_local_signature_creation
    \/ mark_local_signatures \/ persist_final_transaction \/ phase_broadcast
    \/ prepare_fails \/ _retire_local \/ _retire_local_end \/ taker_crash
    \/ reconcile_taker_ring_records

Maker(m) ==
    \/ _invite(m) \/ _plan(m) \/ _arm_acceptor(m) \/ _open(m) \/ _open_prepared(m)
    \/ _unsigned(m) \/ _unsigned_verified(m) \/ _unsigned_ready(m) \/ _ready_set(m)
    \/ _sign(m) \/ on_tx(m) \/ on_tx_signed(m) \/ handler_fails(m) \/ _cancel(m)
    \/ _retire_unsigned_record(m) \/ _expire_timed_out_session(m) \/ maker_crash(m)
    \/ reconcile_ring_records(m) \/ _handle_push(m)

Lnd(p) == Negotiate(p) \/ PsbtVerify(p) \/ FundingCreated(p) \/ FundingSigned(p)

Next ==
    \/ Taker
    \/ \E m \in Makers : Maker(m)
    \/ \E p \in Parties : Lnd(p)
    \/ Confirm

Spec == Init /\ [][Next]_vars

\* The event loops, the LND nodes and the miners keep running; a time-out, a
\* failure or a crash need never come.
FairSpec == Spec /\ WF_vars(Next /\ UNCHANGED faults)

-----------------------------------------------------------------------------
(* Properties                                                              *)

\* Every variable holds a value of its kind.
TypeOK ==
    /\ st \in [Parties -> States \cup {"none"}]
    /\ observed \subseteq Parties /\ readiness \subseteq Makers /\ created \subseteq Parties
    /\ phase \in Phases
    /\ inbox \in [Makers -> SUBSET Requests]
    /\ replies \subseteq Makers \X Replies
    /\ live \subseteq Makers
    /\ busy \in [Makers -> {"idle", "plan", "open", "verify", "observe", "sign"}]
    /\ armed \subseteq Parties /\ opening \subseteq Parties
    /\ shim \subseteq Parties /\ verified \subseteq Parties
    /\ wire \subseteq Parties \X {"verify", "created", "signed"}
    /\ pending \subseteq Parties \X {"out", "in"}
    /\ tx \in {"absent", "mempool", "confirmed"}
    /\ faults \in 0..MaxFaults

\* Once the network has the ring transaction, every participant's LND holds both
\* of its channels: no money is sent to a channel somebody gave up, however the
\* round's time-outs, crashes and reconciliations fell.
TxImpliesChannels ==
    tx # "absent" => \A p \in Parties : Endpoints(p) \subseteq pending

\* A cancellation is never sent in a round in which any participant signed:
\* sign_authorized separates the two for good (prepare, cancel).
CancelMeansUnsigned ==
    (\E m \in Makers : "cancel" \in inbox[m]) \/ phase = "cancel" => created = {}

\* The round is an atomic ring: signatures follow everybody's readiness, only
\* unsigned participants retire, the transaction needs all signatures.
Atomic == INSTANCE AtomicRing WITH
    prepared <- observed,
    signed <- created,
    retired <- {p \in Parties : st[p] = "retired"},
    funded <- IF tx = "absent" THEN {} ELSE {"tx"}
ImplementsAtomicRing == Atomic!Spec

\* Without time-outs, failures or crashes the round funds its ring: the circular
\* waits of opening and verification never block (every participant opens and
\* verifies before it waits for its predecessor).
RoundCompletes == (phase = "invite") ~> (tx = "confirmed" \/ faults > 0)
==============================================================================
