--------------------------- MODULE RingStoreProofs ---------------------------
(***************************************************************************)
(* No input backs two active records and the limits on the records hold,   *)
(* for any number of sessions, inputs and revisions and any limits.        *)
(***************************************************************************)
EXTENDS RingStore, FiniteSetTheorems, TLAPS

\* A session that has not reserved its inputs has no record, so the inputs of
\* a record never change.
Inv ==
    /\ rec \in [Keys -> StoreStates]
    /\ session \in [Sessions -> {"new", "live", "ended"}]
    /\ our_utxos \in [Sessions -> SUBSET Inputs]
    /\ record_key \in [Sessions -> Revisions \cup {NoParticipant, NoRecord}]
    /\ \A k \in Keys : session[k[1]] = "new" => rec[k] = "none"
    /\ ActiveInputsDisjoint

\* A record is kept, becomes inactive, or is saved under the store's limits.
Saved ==
    \/ rec' = rec
    \/ \E k \in Keys, t \in StoreStates :
          /\ rec' = [rec EXCEPT ![k] = t]
          /\ t \in ActiveStates => _enforce_limits(k, t)
          /\ session[k[1]] # "new"

\* The inputs of the sessions that have records stay what they are.
Kept ==
    /\ \A s \in Sessions : session[s] # "new" => our_utxos'[s] = our_utxos[s]
    /\ \A s \in Sessions : session'[s] = "new" => session[s] = "new"
    /\ session' \in [Sessions -> {"new", "live", "ended"}]
    /\ our_utxos' \in [Sessions -> SUBSET Inputs]
    /\ record_key' \in [Sessions -> Revisions \cup {NoParticipant, NoRecord}]

\* What the proof needs of the lifecycle states.
LEMMA StateFacts ==
    /\ ActiveStates \subseteq StoreStates /\ "none" \notin ActiveStates
    /\ {"retired", "confirmed_open"} \cap ActiveStates = {}
    /\ {"retired", "confirmed_open", "invited", "recovery_required"} \subseteq StoreStates
  BY DEF StoreStates, ActiveStates, States

\* A record that was never saved has no allowed transition into an active state.
LEMMA NoneStays ==
    ASSUME NEW s, NEW t \in States, can_transition_to(s, t)
    PROVE  s # "none"
  BY DEF can_transition_to, AllowedTransitions, ActiveStates, States

\* Saving one record under _enforce_limits keeps the inputs apart.
LEMMA SavedKeeps == Inv /\ Saved /\ Kept => Inv'
<1> SUFFICES ASSUME Inv, Saved, Kept PROVE Inv'
  OBVIOUS
<1> USE DEF Inv, Kept
<1>1. rec' \in [Keys -> StoreStates]
  BY DEF Saved
<1>2. \A k \in Keys : k[1] \in Sessions
  BY DEF Keys
<1>3. \A k \in Keys : session'[k[1]] = "new" => rec'[k] = "none"
  BY <1>2 DEF Saved
<1>4. ASSUME NEW j \in Keys, NEW k \in Keys, j # k,
             rec'[j] \in ActiveStates, rec'[k] \in ActiveStates
      PROVE  our_utxos'[j[1]] \cap our_utxos'[k[1]] = {}
  <2>1. our_utxos'[j[1]] = our_utxos[j[1]] /\ our_utxos'[k[1]] = our_utxos[k[1]]
    BY <1>2, <1>4, StateFacts DEF Saved
  <2>2. CASE rec' = rec
    BY <1>4, <2>1, <2>2 DEF ActiveInputsDisjoint, active, local_input_outpoints
  <2>3. ASSUME NEW l \in Keys, NEW t \in StoreStates, rec' = [rec EXCEPT ![l] = t],
               t \in ActiveStates => _enforce_limits(l, t)
        PROVE  our_utxos[j[1]] \cap our_utxos[k[1]] = {}
    BY <1>4, <2>3 DEF ActiveInputsDisjoint, _enforce_limits, active, local_input_outpoints
  <2> QED BY <2>1, <2>2, <2>3 DEF Saved
<1>5. ActiveInputsDisjoint'
  BY <1>4, SMTT(40) DEF ActiveInputsDisjoint, active, local_input_outpoints
<1> QED BY <1>1, <1>3, <1>5

\* The end of the process changes no reservation of a recorded session.
LEMMA StopKept == Inv /\ Stop => Kept
  BY DEF Inv, Stop, Kept

\* Nor does a step that leaves the sessions alone.
LEMMA SessionsKept == Inv /\ UNCHANGED sessions => Kept
  BY DEF Inv, sessions, Kept

\* Every step is at most one save under _enforce_limits, or changes no record.
LEMMA NextSaves == Inv /\ [Next]_vars => Saved /\ Kept
<1> SUFFICES ASSUME Inv, [Next]_vars PROVE Saved /\ Kept
  OBVIOUS
<1> USE StateFacts DEF journal
<1>0. \A k \in Keys, t \in States : can_transition_to(rec[k], t) => session[k[1]] # "new"
  BY NoneStays DEF Inv
<1>1. ASSUME NEW s \in Sessions, NEW I \in SUBSET Inputs, on_auth(s, I) PROVE Saved /\ Kept
  BY <1>1 DEF on_auth, Inv, Saved, Kept
<1>2. ASSUME NEW s \in Sessions, NEW r \in Revisions, _invite(s, r) PROVE Saved /\ Kept
  BY <1>2 DEF _invite, save, Inv, Saved, Kept, Keys
<1>3. ASSUME NEW s \in Sessions, NEW t \in States, advance(s, t) PROVE Saved /\ Kept
  <2>1. /\ <<s, record_key[s]>> \in Keys /\ session[s] # "new" /\ t \in StoreStates
        /\ save(<<s, record_key[s]>>, t) /\ UNCHANGED sessions
    BY <1>3 DEF advance, Keys, StoreStates
  <2> QED BY <2>1, SessionsKept, ZenonT(60) DEF save, Saved
<1>4. ASSUME NEW s \in Sessions, _cancel(s) PROVE Saved /\ Kept
  BY <1>4, SessionsKept DEF _cancel, saveable, Saved, Keys
<1>5. ASSUME NEW s \in Sessions, _expire_timed_out_session(s) PROVE Saved /\ Kept
  BY <1>5 DEF _expire_timed_out_session, Inv, Saved, Kept
<1>6. CASE reconcile_begin
  BY <1>6, SessionsKept DEF reconcile_begin, Saved
<1>7. ASSUME NEW k \in Keys, reconcile_record(k) PROVE Saved /\ Kept
  <2>1. {"retiring", "recovery_required", "confirmed_open"} \subseteq States
    BY DEF States
  <2>2. ASSUME saveable(k, "retiring"), retire(k) PROVE Saved /\ Kept
    BY <1>0, <2>1, <2>2, SessionsKept, ZenonT(60) DEF retire, Done, saveable, Saved
  <2>3. ASSUME escalate(k) PROVE Saved /\ Kept
    BY <1>0, <2>1, <2>3, SessionsKept, StopKept DEF escalate, Done, saveable, Saved
  <2>4. ASSUME Stop, rec' = rec PROVE Saved /\ Kept
    BY <2>4, StopKept DEF Saved
  <2>5. ASSUME Done(k), rec' = rec PROVE Saved /\ Kept
    BY <2>5, SessionsKept DEF Done, Saved
  <2>6. ASSUME Done(k), can_transition_to(rec[k], "confirmed_open"),
               rec' = [rec EXCEPT ![k] = "confirmed_open"]
        PROVE  Saved /\ Kept
    BY <1>0, <2>1, <2>6, SessionsKept, ZenonT(60) DEF Done, Saved
  <2> QED BY <1>7, <2>2, <2>3, <2>4, <2>5, <2>6 DEF reconcile_record, retire
<1>8. CASE reconcile_end
  BY <1>8, SessionsKept, StopKept, ZenonT(60) DEF reconcile_end, Saved
<1>9. CASE Crash \/ Restart
  BY <1>9, SessionsKept, StopKept DEF Crash, Restart, Saved
<1>10. ASSUME NEW i \in Inputs, LeaseExpires(i) \/ OthersLease(i) PROVE Saved /\ Kept
  BY <1>10, SessionsKept DEF LeaseExpires, OthersLease, Saved
<1>11. CASE UNCHANGED vars
  BY <1>11, SessionsKept DEF vars, Saved, sessions
<1> QED
  BY <1>1, <1>2, <1>3, <1>4, <1>5, <1>6, <1>7, <1>8, <1>9, <1>10, <1>11 DEF Next, Pass

\* An empty store satisfies the invariant.
LEMMA InitInv == Init => Inv
  BY StateFacts DEF Init, Inv, ActiveInputsDisjoint, active, StoreStates, Keys

\* A finite set that gains at most one element grows by at most one.
LEMMA OneMore ==
    ASSUME NEW A, IsFiniteSet(A), NEW k, NEW B \in SUBSET (A \cup {k})
    PROVE  IsFiniteSet(B) /\ Cardinality(B) <= Cardinality(A) + 1
<1>1. /\ IsFiniteSet(A \cup {k}) /\ Cardinality(A) \in Nat
      /\ Cardinality(A \cup {k}) = IF k \in A THEN Cardinality(A) ELSE Cardinality(A) + 1
  BY FS_AddElement, FS_CardinalityType
<1>2. IsFiniteSet(B) /\ Cardinality(B) <= Cardinality(A \cup {k}) /\ Cardinality(B) \in Nat
  BY <1>1, FS_Subset, FS_CardinalityType
<1> QED BY <1>1, <1>2

\* The store holds finitely many records.
LEMMA KeysFinite == IsFiniteSet(Keys)
<1>1. IsFiniteSet(Sessions) /\ IsFiniteSet(0..MaxRevision)
  BY StoreAssumption, FS_Interval
<1> QED BY <1>1, FS_Product, ZenonT(60) DEF Keys, Revisions

\* Saving one record under _enforce_limits keeps both limits.
LEMMA SavedWithin == Inv /\ WithinLimits /\ Saved => WithinLimits'
<1> SUFFICES ASSUME Inv, WithinLimits, Saved PROVE WithinLimits'
  OBVIOUS
<1> DEFINE A(r, S) == {j \in Keys : r[j] \in S}
<1>1. CASE rec' = rec
  BY <1>1 DEF WithinLimits, active, verified_unresolved
<1>2. ASSUME NEW k \in Keys, NEW t \in StoreStates, rec' = [rec EXCEPT ![k] = t],
             t \in ActiveStates => _enforce_limits(k, t)
      PROVE  WithinLimits'
  <2>1. rec \in [Keys -> StoreStates] /\ VerifiedUnresolvedStates \subseteq ActiveStates
    BY DEF Inv, VerifiedUnresolvedStates, ActiveStates, States
  <2>2. ASSUME NEW S, NEW n \in Nat, Cardinality(A(rec, S)) <= n,
               t \in S => Cardinality({j \in Keys \ {k} : rec[j] \in S}) < n
        PROVE  Cardinality(A(rec', S)) <= n
    <3> DEFINE O == {j \in Keys \ {k} : rec[j] \in S}
    <3>1. IsFiniteSet(O) /\ IsFiniteSet(A(rec, S)) /\ Cardinality(O) \in Nat
          /\ Cardinality(A(rec, S)) \in Nat
      BY KeysFinite, FS_Subset, FS_CardinalityType
    <3>2. CASE t \in S
      <4>1. A(rec', S) \in SUBSET (O \cup {k})
        BY <1>2, <2>1
      <4>2. IsFiniteSet(A(rec', S)) /\ Cardinality(A(rec', S)) <= Cardinality(O) + 1
        BY ZenonT(60), <3>1, <4>1, OneMore
      <4>3. Cardinality(A(rec', S)) \in Nat
        BY <4>2, FS_CardinalityType
      <4> QED BY <2>2, <3>1, <3>2, <4>2, <4>3
    <3>3. CASE t \notin S
      <4>1. A(rec', S) \subseteq A(rec, S)
        BY <1>2, <2>1, <3>3
      <4>2. Cardinality(A(rec', S)) <= Cardinality(A(rec, S)) /\ IsFiniteSet(A(rec', S))
        BY <3>1, <4>1, FS_Subset
      <4>3. Cardinality(A(rec', S)) \in Nat
        BY <4>2, FS_CardinalityType
      <4> QED BY <2>2, <3>1, <4>2, <4>3
    <3> QED BY <3>2, <3>3
  <2>3. MaxActive \in Nat /\ MaxVerified \in Nat
    BY StoreAssumption
  <2>4. /\ Cardinality(A(rec, ActiveStates)) <= MaxActive
        /\ Cardinality(A(rec, VerifiedUnresolvedStates)) <= MaxVerified
    BY DEF WithinLimits, active, verified_unresolved
  <2>5. t \in ActiveStates =>
            Cardinality({j \in Keys \ {k} : rec[j] \in ActiveStates}) < MaxActive
    BY <1>2 DEF _enforce_limits, active
  <2>6. t \in VerifiedUnresolvedStates =>
            Cardinality({j \in Keys \ {k} : rec[j] \in VerifiedUnresolvedStates}) < MaxVerified
    BY <1>2, <2>1 DEF _enforce_limits, verified_unresolved
  <2>7. Cardinality(A(rec', ActiveStates)) <= MaxActive
    BY <2>2, <2>3, <2>4, <2>5
  <2>8. Cardinality(A(rec', VerifiedUnresolvedStates)) <= MaxVerified
    BY <2>2, <2>3, <2>4, <2>6
  <2> QED BY <2>7, <2>8 DEF WithinLimits, active, verified_unresolved
<1> QED BY <1>1, <1>2 DEF Saved

\* An empty store is within its limits.
LEMMA InitWithin == Init => WithinLimits
<1> SUFFICES ASSUME Init PROVE WithinLimits
  OBVIOUS
<1>1. {k \in Keys : active(k)} = {} /\ {k \in Keys : verified_unresolved(k)} = {}
  BY DEF Init, active, verified_unresolved, ActiveStates, VerifiedUnresolvedStates, States
<1> QED BY <1>1, FS_EmptySet, StoreAssumption DEF WithinLimits

\* No input backs two active records, whatever the sessions, the passes, the
\* crashes and the other users of the wallet do.
THEOREM InputsDisjoint == Spec => []ActiveInputsDisjoint
<1>1. Inv /\ [Next]_vars => Inv'
  BY NextSaves, SavedKeeps
<1>2. Inv => ActiveInputsDisjoint
  BY DEF Inv
<1> QED BY InitInv, <1>1, <1>2, PTL DEF Spec

\* The limits on active and on verified records hold in every state: each
\* handler, pass and restart saves at most one record, under the limits.
THEOREM LimitsHold == Spec => []WithinLimits
<1>1. Inv /\ WithinLimits /\ [Next]_vars => (Inv /\ WithinLimits)'
  BY NextSaves, SavedKeeps, SavedWithin
<1>2. Init => Inv /\ WithinLimits
  BY InitInv, InitWithin
<1> QED BY <1>1, <1>2, PTL DEF Spec
=============================================================================
