---------------------------- MODULE RingLifecycle ----------------------------
(***************************************************************************)
(* The rules of one channel-ring participant journal                       *)
(* (jmcore/channel_ring_store.py, RingParticipantRecord): its lifecycle    *)
(* states, the transitions between them, what a record must satisfy to be  *)
(* saved and when its channels may be retired.                             *)
(*                                                                         *)
(* The facts a record accumulates are kept as a set of flags:              *)
(*   maker         local_role is MAKER                                     *)
(*   open_started  outgoing_open_started                                   *)
(*   prepared      prepared_outgoing / prepared_incoming                   *)
(*   evidence      manifest, unsigned_tx, unsigned_psbt, exact_txid        *)
(*   points        the funding outpoints of both edges                     *)
(*   observed      outgoing_pending_state and incoming_pending_state       *)
(*   readiness     readiness_set and readiness_hash                        *)
(*   created       local_input_signature_created                           *)
(*   sent          local_input_signature_sent with local_signatures        *)
(*   final         final_tx                                                *)
(*   absent        chain_status: exact txid absent in mempool and chain    *)
(*   confirmed     chain_status: exact txid in the chain, confirmed        *)
(*   conflict      chain_status.confirmed_conflict_txid                    *)
(*   intent        unsigned_retirement_pending                             *)
(***************************************************************************)

States == {"invited", "planned", "acceptor_armed", "prepared",
           "prepared_not_verified", "verifying", "psbt_verified", "ready",
           "signing", "signed", "broadcast", "confirmed_open", "retiring",
           "retired", "conflicted", "recovery_required"}

Flags == {"maker", "open_started", "prepared", "evidence", "points",
          "observed", "readiness", "created", "sent", "final", "absent",
          "confirmed", "conflict", "intent"}

PreVerifiedStates ==
    {"invited", "planned", "acceptor_armed", "prepared_not_verified"}

VerifiedUnresolvedStates ==
    {"prepared", "verifying", "psbt_verified", "ready", "signing", "signed",
     "broadcast", "retiring", "recovery_required"}

ActiveStates == States \ {"confirmed_open", "retired"}

AllowedTransitions ==
    {<<"invited", "planned">>, <<"invited", "retiring">>,
     <<"planned", "acceptor_armed">>, <<"planned", "retiring">>,
     <<"acceptor_armed", "prepared_not_verified">>,
     <<"acceptor_armed", "retiring">>,
     <<"prepared_not_verified", "verifying">>,
     <<"prepared_not_verified", "retiring">>,
     <<"verifying", "psbt_verified">>,
     <<"psbt_verified", "ready">>, <<"psbt_verified", "retiring">>,
     <<"ready", "signing">>, <<"ready", "retiring">>,
     <<"signing", "signed">>, <<"signing", "retiring">>,
     <<"signed", "broadcast">>, <<"signed", "confirmed_open">>,
     <<"signed", "conflicted">>,
     <<"broadcast", "confirmed_open">>, <<"broadcast", "conflicted">>,
     <<"confirmed_open", "retiring">>, <<"confirmed_open", "retired">>,
     <<"retiring", "retired">>,
     <<"conflicted", "retiring">>,
     <<"recovery_required", "confirmed_open">>,
     <<"recovery_required", "conflicted">>,
     <<"recovery_required", "retiring">>}
    \cup {<<s, "recovery_required">> :
             s \in ActiveStates \ {"recovery_required"}}

can_transition_to(s, t) == s = t \/ <<s, t>> \in AllowedTransitions

\* Mutant: only signatures that were handed out count.
has_unsigned_funding_evidence_sent(f) ==
    /\ {"maker", "evidence"} \subseteq f
    /\ {"sent", "final"} \cap f = {}

\* This maker's signature on the exact funding transaction cannot exist.
has_unsigned_funding_evidence(f) ==
    /\ {"maker", "evidence"} \subseteq f
    /\ {"created", "sent", "final"} \cap f = {}

\* What an operator, a cancellation or a recovery may do with the record.
retirement_action(s, f) ==
    IF s \in PreVerifiedStates THEN "shim_cancel"
    ELSE IF s = "signing" \/ "intent" \in f
         THEN IF has_unsigned_funding_evidence(f) /\ "absent" \in f
              THEN "abandon_verified" ELSE "blocked"
    ELSE IF s \in {"psbt_verified", "ready"}
         THEN IF {"created", "sent"} \cap f = {} /\ {"evidence", "absent"} \subseteq f
              THEN "abandon_verified" ELSE "blocked"
    ELSE IF s = "conflicted" /\ "conflict" \in f
         THEN IF "evidence" \notin f /\ "created" \notin f
              THEN "shim_cancel" ELSE "abandon_verified"
    ELSE IF s = "recovery_required"
         THEN IF {"created", "sent", "final"} \cap f = {} /\ {"evidence", "absent"} \subseteq f
              THEN "abandon_verified" ELSE "blocked"
    ELSE IF s = "confirmed_open" THEN "normal_channel_retirement"
    ELSE "blocked"

\* The states an unsigned retirement intent may be carried through.
IntentStates ==
    {"psbt_verified", "ready", "signing", "retiring", "retired",
     "conflicted", "recovery_required"}

\* The model validator that runs on every record that is built or loaded.
validate_record(s, f) ==
    /\ "sent" \in f => "created" \in f
    /\ s \in {"signed", "broadcast", "confirmed_open"} => {"created", "sent"} \subseteq f
    /\ s = "confirmed_open" => "confirmed" \in f
    /\ s = "verifying" => "evidence" \in f
    /\ "intent" \in f => has_unsigned_funding_evidence(f) /\ s \in IntentStates

\* Entering "retiring" from state s with flags f0, the new record having f.
validate_retirement(s, f0, f) ==
    \/ /\ s = "signing" \/ "intent" \in f
       /\ has_unsigned_funding_evidence(f)
       /\ "absent" \in f
    \/ /\ s # "signing" /\ "intent" \notin f
       /\ \/ s \in PreVerifiedStates \cup {"confirmed_open"}
          \/ s = "conflicted" /\ "conflict" \in f
          \/ s = "recovery_required" /\ retirement_action(s, f0) # "blocked"
          \/ /\ s \in {"psbt_verified", "ready"}
             /\ {"created", "sent"} \cap f = {}
             /\ {"evidence", "absent"} \subseteq f

\* RingParticipantRecord.transition: whether the change is accepted.
transition_allowed(s, f, t, g) ==
    \/ s = t /\ f = g
    \/ /\ can_transition_to(s, t)
       /\ validate_record(t, g)
       /\ "intent" \in f /\ "intent" \notin g => t = "retired"
       /\ t = "retiring" /\ (s # t \/ "intent" \in g) => validate_retirement(s, f, g)
       /\ t = "conflicted" => "conflict" \in g
==============================================================================
