------------------------------ MODULE RingStore ------------------------------
(***************************************************************************)
(* All the channel-ring records of one maker, and the wallet leases of     *)
(* their inputs: the limits the store enforces on every save               *)
(* (jmcore/channel_ring_store.py), the sessions that invite, advance and   *)
(* cancel revisions of their ring, and the reconciliation pass that        *)
(* restores the leases of active records and frees those of retired ones   *)
(* (maker/bot.py).                                                         *)
(*                                                                         *)
(* RingMaker follows one record in detail; here a record is its lifecycle  *)
(* state and its retirement intent, and a handler is one step.  A state    *)
(* stands for its neighbours that no rule of the store or of the pass      *)
(* tells apart: acceptor_armed for prepared_not_verified, ready for        *)
(* psbt_verified, signed for broadcast.                                    *)
(***************************************************************************)
EXTENDS Naturals, FiniteSets, RingLifecycle

CONSTANTS
    Sessions,      \* the authenticated sessions; each owns one lease token
    Inputs,        \* the wallet's outpoints
    MaxRevision,   \* bound on the revisions a taker asks for
    MaxActive,     \* max_active_sessions
    MaxVerified,   \* max_verified_sessions
    MaxCrashes     \* bound on process crashes

ASSUME StoreAssumption ==
    /\ IsFiniteSet(Sessions) /\ IsFiniteSet(Inputs)
    /\ MaxRevision \in Nat /\ MaxCrashes \in Nat
    /\ MaxActive \in Nat \ {0} /\ MaxVerified \in 1..MaxActive

ASSUME OwnerAssumption == {"free", "other"} \cap Sessions = {}

VARIABLES
    rec,        \* the lifecycle state of each record, "none" if there is none
    intent,     \* the records with unsigned_retirement_pending
    session,    \* new, live or ended
    our_utxos,  \* the inputs a session reserved; its records copy them
    record_key, \* the revision a session's participant works on
    lease,      \* the owner of the lease on each input
    proc,       \* down, starting or up
    validated,  \* channel_ring_capability_validated
    todo,       \* what the pass has still to do with each record
    retired,    \* the retired records whose inputs the pass may release
    crashes

journal == <<rec, intent>>
sessions == <<session, our_utxos, record_key>>
process == <<proc, validated, crashes>>
pass == <<todo, retired>>
vars == <<journal, sessions, lease, process, pass>>

Revisions == 0..MaxRevision
Keys == Sessions \X Revisions
StoreStates == States \cup {"none"}

\* A participant exists from the first !ring on; it has no record until an
\* invitation is accepted.
NoParticipant == MaxRevision + 1
NoRecord == MaxRevision + 2

active(k) == rec[k] \in ActiveStates
verified_unresolved(k) == rec[k] \in VerifiedUnresolvedStates
local_input_outpoints(k) == our_utxos[k[1]]

Init ==
    /\ rec = [k \in Keys |-> "none"] /\ intent = {}
    /\ session = [s \in Sessions |-> "new"]
    /\ our_utxos = [s \in Sessions |-> {}]
    /\ record_key = [s \in Sessions |-> NoParticipant]
    /\ lease = [i \in Inputs |-> "free"]
    /\ proc = "up" /\ validated = TRUE /\ crashes = 0
    /\ todo = [k \in Keys |-> "idle"] /\ retired = {}

-----------------------------------------------------------------------------
(* The store                                                               *)

\* Mutants: the inputs of other records are not compared; the verified limit
\* is off by one.
_enforce_limits_inputs(k, t) ==
    /\ t \in ActiveStates => Cardinality({j \in Keys \ {k} : active(j)}) < MaxActive
    /\ t \in VerifiedUnresolvedStates =>
           Cardinality({j \in Keys \ {k} : verified_unresolved(j)}) < MaxVerified
_enforce_limits_off(k, t) ==
    /\ t \in ActiveStates =>
           /\ Cardinality({j \in Keys \ {k} : active(j)}) < MaxActive
           /\ \A j \in Keys \ {k} :
                  active(j) => local_input_outpoints(j) \cap local_input_outpoints(k) = {}
    /\ t \in VerifiedUnresolvedStates =>
           Cardinality({j \in Keys \ {k} : verified_unresolved(j)}) <= MaxVerified

\* What the other records allow a record to be saved as.
_enforce_limits(k, t) ==
    LET others == Keys \ {k}
    IN  /\ t \in ActiveStates =>
              /\ Cardinality({j \in others : active(j)}) < MaxActive
              /\ \A j \in others :
                    active(j) => local_input_outpoints(j) \cap local_input_outpoints(k) = {}
              /\ \A j \in others : j[1] = k[1] => ~verified_unresolved(j)
        /\ t \in VerifiedUnresolvedStates =>
              Cardinality({j \in others : verified_unresolved(j)}) < MaxVerified

\* The record may be saved in state t, and then is.
save(k, t) ==
    /\ _enforce_limits(k, t)
    /\ rec' = [rec EXCEPT ![k] = t]

saveable(k, t) == can_transition_to(rec[k], t) /\ _enforce_limits(k, t)

-----------------------------------------------------------------------------
(* The sessions                                                            *)

\* An unknown record counts as bound; so does a newer revision that shares
\* the inputs of the one the participant works on.
holds_active_record(s) ==
    CASE record_key[s] = NoParticipant -> FALSE
      [] record_key[s] = NoRecord -> TRUE
      [] OTHER -> \/ active(<<s, record_key[s]>>)
                  \/ \E k \in Keys : active(k) /\ our_utxos[s] \cap local_input_outpoints(k) # {}

\* release_input_locks, once the record is what `holds' says.
release_input_locks(s, holds) ==
    lease' = IF holds THEN lease
             ELSE [i \in Inputs |-> IF i \in our_utxos[s] /\ lease[i] = s
                                    THEN "free" ELSE lease[i]]

\* The session reserves its inputs, all or none, and discloses them.
on_auth(s, I) ==
    /\ proc = "up" /\ session[s] = "new"
    /\ I # {} /\ \A i \in I : lease[i] = "free"
    /\ session' = [session EXCEPT ![s] = "live"]
    /\ our_utxos' = [our_utxos EXCEPT ![s] = I]
    /\ lease' = [i \in Inputs |-> IF i \in I THEN s ELSE lease[i]]
    /\ UNCHANGED <<journal, record_key, process, pass>>

\* The same invitation again is answered from the record, which becomes the
\* participant's again; a later revision needs the previous one retired.
_invite(s, r) ==
    /\ proc = "up" /\ validated /\ session[s] = "live"
    /\ \/ /\ rec[<<s, r>>] # "none"
          /\ record_key' = [record_key EXCEPT ![s] = r]
          /\ UNCHANGED journal
       \/ /\ rec[<<s, r>>] = "none"
          /\ \A q \in Revisions : rec[<<s, q>>] # "none" => q < r /\ rec[<<s, q>>] = "retired"
          /\ save(<<s, r>>, "invited")
          /\ record_key' = [record_key EXCEPT ![s] = r]
          /\ UNCHANGED intent
       \/ /\ record_key[s] = NoParticipant     \* refused: the participant stays
          /\ record_key' = [record_key EXCEPT ![s] = NoRecord]
          /\ UNCHANGED journal
    /\ UNCHANGED <<session, our_utxos, lease, process, pass>>

Forward ==
    {<<"invited", "planned">>, <<"planned", "acceptor_armed">>,
     <<"acceptor_armed", "verifying">>, <<"verifying", "ready">>,
     <<"ready", "signing">>, <<"signing", "signed">>}

\* The next phase of the ring: plan, open, unsigned, ready set, sign, !tx.  An
\* unsuccessful verification leaves the record for recovery.
advance(s, t) ==
    LET k == <<s, record_key[s]>>
    IN  /\ proc = "up" /\ validated /\ session[s] = "live"
        /\ record_key[s] \in Revisions
        /\ \/ <<rec[k], t>> \in Forward
           \/ rec[k] = "verifying" /\ t = "recovery_required"
        /\ save(k, t)
        /\ UNCHANGED <<intent, sessions, lease, process, pass>>

\* ring_cancel for the participant's record, then release_input_locks: a shim
\* is cancelled before verification; verified channels are abandoned, under an
\* intent; a failure leaves the record for recovery.
_cancel(s) ==
    LET k == <<s, record_key[s]>>
        others == {j \in Keys \ {k} : active(j)
                       /\ our_utxos[s] \cap local_input_outpoints(j) # {}}
    IN  /\ proc = "up" /\ validated /\ session[s] = "live"
        /\ record_key[s] \in Revisions
        /\ \/ /\ rec[k] = "retired"
              /\ UNCHANGED journal /\ release_input_locks(s, others # {})
           \/ /\ rec[k] \in PreVerifiedStates /\ saveable(k, "retiring")
              /\ rec' = [rec EXCEPT ![k] = "retired"] /\ intent' = intent
              /\ release_input_locks(s, others # {})
           \/ /\ rec[k] \in {"ready", "signing"} \/ (k \in intent /\ active(k))
              /\ saveable(k, "retiring")
              /\ rec' = [rec EXCEPT ![k] = "retired"] /\ intent' = intent \cup {k}
              /\ release_input_locks(s, others # {})
           \/ /\ rec[k] \in {"acceptor_armed", "verifying", "ready", "signing"}
              /\ saveable(k, "recovery_required")
              /\ rec' = [rec EXCEPT ![k] = "recovery_required"]
              /\ intent' \in {intent, IF rec[k] \in {"ready", "signing"}
                                      THEN intent \cup {k} ELSE intent}
              /\ UNCHANGED lease
        /\ UNCHANGED <<sessions, process, pass>>

\* The deadline: inputs that no active record binds return to the wallet,
\* unless the session completed.
_expire_timed_out_session(s) ==
    /\ proc = "up" /\ session[s] = "live"
    /\ session' = [session EXCEPT ![s] = "ended"]
    /\ release_input_locks(s, \/ holds_active_record(s)
                              \/ \E r \in Revisions : rec[<<s, r>>] = "confirmed_open")
    /\ UNCHANGED <<journal, our_utxos, record_key, process, pass>>

-----------------------------------------------------------------------------
(* The reconciliation pass                                                 *)

Idle == todo = [k \in Keys |-> "idle"]

\* The process is gone, and with it its sessions and the pass.  What an
\* orderly stop releases is among the leases that may run out then.
Stop ==
    /\ proc' = "down" /\ validated' = FALSE
    /\ session' = [s \in Sessions |-> IF session[s] = "live" THEN "ended" ELSE session[s]]
    /\ todo' = [k \in Keys |-> "idle"] /\ retired' = {}
    /\ UNCHANGED <<our_utxos, record_key>>

\* What the pass does with a record as it is when the pass begins, given the
\* sessions that are live then.
kind(k, live) ==
    LET orphan == k[1] \notin live
    IN  CASE rec[k] = "retired" /\ k \in intent -> "release"
          [] rec[k] \notin ActiveStates -> "done"
          [] rec[k] = "invited" /\ orphan -> "expire"
          [] (k \in intent \/ rec[k] = "signing") /\ orphan -> "retire"
          [] rec[k] \in {"planned", "verifying"} /\ orphan -> "escalate"
          [] rec[k] \in PreVerifiedStates -> "done"     \* no call that can fail
          [] rec[k] = "signed" -> "chain"
          [] OTHER -> "resume"

\* The records and the live sessions are read when the pass begins.
reconcile_begin ==
    /\ proc = "up" /\ Idle
    /\ LET live == {s \in Sessions : session[s] = "live"}
       IN  todo' = [k \in Keys |-> kind(k, live)]
    /\ retired' = {}
    /\ UNCHANGED <<journal, sessions, lease, process>>

Done(k) ==
    /\ todo' = [todo EXCEPT ![k] = "done"]
    /\ UNCHANGED <<sessions, proc, validated>>

\* The record goes to recovery after a failed call or without its taker; if
\* the store refuses that, the exception ends the pass and the maker.
escalate(k) ==
    /\ IF saveable(k, "recovery_required")
       THEN rec' = [rec EXCEPT ![k] = "recovery_required"] /\ Done(k) /\ UNCHANGED retired
       ELSE IF can_transition_to(rec[k], "recovery_required")
       THEN Stop /\ rec' = rec
       ELSE Done(k) /\ rec' = rec /\ UNCHANGED retired

\* Its channels and its record are retired.
retire(k) ==
    /\ saveable(k, "retiring")
    /\ rec' = [rec EXCEPT ![k] = "retired"]
    /\ retired' = retired \cup {k}
    /\ Done(k)

\* One record of the pass.
reconcile_record(k) ==
    /\ \/ /\ todo[k] = "release"
          /\ retired' = retired \cup {k}
          /\ Done(k) /\ UNCHANGED journal
       \/ /\ todo[k] = "expire" /\ UNCHANGED intent
          /\ IF saveable(k, "retiring") THEN retire(k) ELSE Stop /\ rec' = rec
       \/ /\ todo[k] = "retire" /\ retire(k)
          /\ intent' = intent \cup {k}
       \/ /\ todo[k] = "retire" /\ escalate(k)
          /\ intent' \in {intent, intent \cup {k}}
       \/ /\ todo[k] \in {"resume", "chain"}
          /\ Done(k) /\ UNCHANGED <<journal, retired>>
       \/ /\ todo[k] = "chain" /\ can_transition_to(rec[k], "confirmed_open")
          /\ rec' = [rec EXCEPT ![k] = "confirmed_open"]
          /\ Done(k) /\ UNCHANGED <<intent, retired>>
       \/ /\ todo[k] \in {"escalate", "resume", "chain"}
          /\ escalate(k) /\ UNCHANGED intent
    /\ UNCHANGED <<lease, crashes>>

\* Mutant: the inputs of active revisions are not spared.
_release_retired_ring_inputs_all(l) ==
    [i \in Inputs |->
        IF \E k \in retired : rec[k] = "retired" /\ l[i] = k[1] /\ i \in local_input_outpoints(k)
        THEN "free" ELSE l[i]]

\* The leases of retired records, except on inputs an active record reuses.
_release_retired_ring_inputs(l) ==
    [i \in Inputs |->
        IF /\ \E k \in retired : rec[k] = "retired" /\ l[i] = k[1] /\ i \in local_input_outpoints(k)
           /\ ~\E k \in Keys : active(k) /\ i \in local_input_outpoints(k)
        THEN "free" ELSE l[i]]

\* An active record keeps or gets back all its leases, or none.
renewable(k) == \A i \in local_input_outpoints(k) : lease[i] \in {"free", k[1]}

\* Mutant: the leases are restored without the records' own owner.
_renew_channel_ring_input_locks_unowned(K) ==
    [i \in Inputs |-> IF \E k \in K : i \in local_input_outpoints(k)
                      THEN "maker" ELSE lease[i]]

\* The leases once the records in K hold theirs.
_renew_channel_ring_input_locks(K) ==
    [i \in Inputs |-> IF \E k \in K : i \in local_input_outpoints(k)
                      THEN (CHOOSE k \in K : i \in local_input_outpoints(k))[1]
                      ELSE lease[i]]

\* After the pass, without an await.  The first lease that another owner holds
\* stops the maker; at start-up it does not start.
reconcile_end ==
    /\ \A k \in Keys : todo[k] = "done"
    /\ \/ /\ \A k \in Keys : active(k) => renewable(k)
          /\ lease' = _release_retired_ring_inputs(
                         _renew_channel_ring_input_locks({k \in Keys : active(k)}))
          /\ intent' = intent \ {k \in retired : rec[k] = "retired"}
          /\ proc' = "up"
          /\ validated' = IF proc = "up" THEN validated
                          ELSE /\ Cardinality({k \in Keys : active(k)}) < MaxActive
                               /\ Cardinality({k \in Keys : verified_unresolved(k)}) < MaxVerified
          /\ todo' = [k \in Keys |-> "idle"] /\ retired' = {}
          /\ UNCHANGED sessions
       \/ /\ \E k \in Keys : active(k) /\ ~renewable(k)
          /\ \E K \in SUBSET {k \in Keys : active(k) /\ renewable(k)} :
                lease' = _renew_channel_ring_input_locks(K)
          /\ Stop /\ UNCHANGED intent
    /\ UNCHANGED <<rec, crashes>>

-----------------------------------------------------------------------------
(* The process and the other users of the wallet                           *)

Crash ==
    /\ proc # "down" /\ crashes < MaxCrashes
    /\ crashes' = crashes + 1
    /\ Stop
    /\ UNCHANGED <<journal, lease>>

\* Start-up runs a pass in which no session is live.
Restart ==
    /\ proc = "down"
    /\ proc' = "starting"
    /\ todo' = [k \in Keys |-> kind(k, {})] /\ retired' = {}
    /\ UNCHANGED <<journal, sessions, lease, validated, crashes>>

\* A lease runs out when nobody renews it.
LeaseExpires(i) ==
    /\ lease[i] \in Sessions
    /\ \/ proc = "down"
       \/ /\ session[lease[i]] = "ended"
          /\ ~\E r \in Revisions : active(<<lease[i], r>>)
    /\ lease' = [lease EXCEPT ![i] = "free"]
    /\ UNCHANGED <<journal, sessions, process, pass>>

\* Another process that shares the wallet.
OthersLease(i) ==
    /\ lease[i] \in {"free", "other"}
    /\ lease' = [lease EXCEPT ![i] = IF @ = "free" THEN "other" ELSE "free"]
    /\ UNCHANGED <<journal, sessions, process, pass>>

Pass == reconcile_begin \/ (\E k \in Keys : reconcile_record(k)) \/ reconcile_end

Next ==
    \/ \E s \in Sessions :
          \/ \E I \in SUBSET Inputs : on_auth(s, I)
          \/ \E r \in Revisions : _invite(s, r)
          \/ \E t \in States : advance(s, t)
          \/ _cancel(s) \/ _expire_timed_out_session(s)
    \/ Pass \/ Crash \/ Restart
    \/ \E i \in Inputs : LeaseExpires(i) \/ OthersLease(i)

Spec == Init /\ [][Next]_vars

\* The periodic pass and the operator's restarts go on.
FairSpec == Spec /\ WF_vars(Pass) /\ WF_vars(Restart)

-----------------------------------------------------------------------------
(* Properties                                                              *)

\* Each variable of the store, the sessions, the pass and the process stays in
\* its range; a lease's owner in particular is a session's own token.
TypeOK ==
    /\ rec \in [Keys -> StoreStates] /\ intent \subseteq Keys
    /\ session \in [Sessions -> {"new", "live", "ended"}]
    /\ our_utxos \in [Sessions -> SUBSET Inputs]
    /\ record_key \in [Sessions -> Revisions \cup {NoParticipant, NoRecord}]
    /\ lease \in [Inputs -> Sessions \cup {"free", "other"}]
    /\ proc \in {"down", "starting", "up"} /\ validated \in BOOLEAN
    /\ crashes \in 0..MaxCrashes
    /\ todo \in [Keys -> {"idle", "done", "release", "expire", "retire", "escalate",
                          "chain", "resume"}]
    /\ retired \subseteq Keys

\* No input backs two active records, through cancellations, new revisions,
\* restarts and leases that expired or were reissued meanwhile.
ActiveInputsDisjoint ==
    \A j, k \in Keys :
        j # k /\ active(j) /\ active(k) => local_input_outpoints(j) \cap local_input_outpoints(k) = {}

\* The two limits on a maker's exposure hold in every state.
WithinLimits ==
    /\ Cardinality({k \in Keys : active(k)}) <= MaxActive
    /\ Cardinality({k \in Keys : verified_unresolved(k)}) <= MaxVerified

\* No step of a running maker frees a lease that an active record needs: not
\* a replayed cancellation, not an expiring session, and not the pass that
\* releases an older revision's inputs.
ActiveLeaseKept ==
    [][proc = "up" =>
        \A k \in Keys : \A i \in local_input_outpoints(k) :
            rec[k] \in ActiveStates /\ rec'[k] \in ActiveStates /\ lease[i] = k[1]
                => lease'[i] = k[1]]_vars

\* A ring with durable active state keeps its inputs reserved
\* (release_input_locks) while its maker runs without a crash.
ActiveKeepsInputs ==
    crashes = 0 /\ proc = "up" =>
        \A k \in Keys : active(k) => \A i \in local_input_outpoints(k) : lease[i] = k[1]

\* An abandoned invitation does not stay (reconcile_ring_records): the pass
\* retires it, or escalates it when a call failed.
AbandonedInviteExpires ==
    \A k \in Keys : (rec[k] = "invited" /\ session[k[1]] = "ended") ~> rec[k] # "invited"
=============================================================================
