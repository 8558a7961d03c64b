------------------------- MODULE InputLeasesProofs -------------------------
(***************************************************************************)
(* Lease exclusion for any set of owners, inputs and lifetimes.  The       *)
(* inductive invariant is TypeOK together with PromiseIsDurable: exclusion *)
(* alone is not inductive, because nothing in it says that the file still  *)
(* protects the promise an owner was given.                                *)
(***************************************************************************)
EXTENDS InputLeases, TLAPS

IInv == TypeOK /\ PromiseIsDurable

\* The initial file promises nothing to anyone.
LEMMA InitIInv == Init => IInv
  BY DEF Init, IInv, TypeOK, PromiseIsDurable, Holds, None, Callers

\* An acquisition keeps every running promise: it only takes unlocked inputs,
\* and the markers it prunes have expired.
LEMMA TryLockIInv ==
    ASSUME IInv, NEW caller \in Callers, NEW wanted \in SUBSET Outpoints,
           NEW ttl \in Ttls, try_lock_outpoints(caller, wanted, ttl)
    PROVE  IInv'
  <1>1. ttl \in Nat \ {0} /\ now \in Nat
    BY TtlsAssumption DEF IInv, TypeOK
  <1>2. TypeOK'
    BY <1>1 DEF IInv, TypeOK, try_lock_outpoints, Relock, Promised, None, Callers
  <1>3. ASSUME NEW o \in Owners, NEW x \in Outpoints, Holds(o, x)'
        PROVE  lock_owner'[x] = o /\ lock_until'[x] >= claims'[o][x]
    <2>1. CASE o = caller /\ x \in wanted
      BY <2>1, <1>1 DEF try_lock_outpoints, Relock, Promised
    <2>2. CASE ~ (o = caller /\ x \in wanted)
      <3>1. claims'[o][x] = claims[o][x] /\ Holds(o, x)
        BY <2>2, <1>3 DEF try_lock_outpoints, Promised, Holds
      <3>2. lock_owner[x] = o /\ lock_until[x] >= claims[o][x]
        BY <3>1 DEF IInv, PromiseIsDurable
      <3>3. is_locked(x) /\ x \notin expired
        BY <3>1, <3>2 DEF IInv, TypeOK, Holds, is_locked, expired
      <3>4. x \notin wanted
        BY <3>3 DEF try_lock_outpoints, lockable
      <3>. QED  BY <3>1, <3>2, <3>3, <3>4 DEF try_lock_outpoints, Relock
    <2>. QED  BY <2>1, <2>2
  <1>. QED  BY <1>2, <1>3 DEF IInv, PromiseIsDurable

\* A renewal only extends locks its own caller holds.
LEMMA RenewIInv ==
    ASSUME IInv, NEW owner \in Owners, NEW wanted \in SUBSET Outpoints,
           NEW ttl \in Ttls, renew_outpoints(owner, wanted, ttl)
    PROVE  IInv'
  <1>1. ttl \in Nat \ {0} /\ now \in Nat
    BY TtlsAssumption DEF IInv, TypeOK
  <1>2. TypeOK'
    BY <1>1 DEF IInv, TypeOK, renew_outpoints, Promised
  <1>3. ASSUME NEW o \in Owners, NEW x \in Outpoints, Holds(o, x)'
        PROVE  lock_owner'[x] = o /\ lock_until'[x] >= claims'[o][x]
    <2>1. CASE o = owner /\ x \in wanted
      BY <2>1, <1>1 DEF renew_outpoints, renewable, Promised
    <2>2. CASE ~ (o = owner /\ x \in wanted)
      <3>1. claims'[o][x] = claims[o][x] /\ Holds(o, x)
        BY <2>2, <1>3 DEF renew_outpoints, Promised, Holds
      <3>2. lock_owner[x] = o /\ lock_until[x] >= claims[o][x]
        BY <3>1 DEF IInv, PromiseIsDurable
      <3>3. x \notin wanted
        BY <3>2, <2>2 DEF renew_outpoints, renewable
      <3>. QED  BY <3>1, <3>2, <3>3 DEF renew_outpoints
    <2>. QED  BY <2>1, <2>2
  <1>. QED  BY <1>2, <1>3 DEF IInv, PromiseIsDurable

\* A release ends the caller's own promises and no one else's.
LEMMA ReleaseIInv ==
    ASSUME IInv, NEW caller \in Callers, NEW wanted \in SUBSET Outpoints,
           release_outpoints(caller, wanted)
    PROVE  IInv'
  <1>1. TypeOK'
    BY DEF IInv, TypeOK, release_outpoints, Relock, Promised, None, Callers
  <1>2. ASSUME NEW o \in Owners, NEW x \in Outpoints, Holds(o, x)'
        PROVE  lock_owner'[x] = o /\ lock_until'[x] >= claims'[o][x]
    <2>1. /\ ~ (o = caller /\ x \in wanted)
          /\ claims'[o][x] = claims[o][x]
          /\ Holds(o, x)
      BY <1>2 DEF release_outpoints, Promised, Holds, None, IInv, TypeOK
    <2>2. lock_owner[x] = o /\ lock_until[x] >= claims[o][x]
      BY <2>1 DEF IInv, PromiseIsDurable
    <2>3. x \notin {y \in wanted : releasable(y, caller)} \cup expired
      BY <2>1, <2>2 DEF releasable, expired, IInv, TypeOK, Holds
    <2>. QED  BY <2>1, <2>2, <2>3 DEF release_outpoints, Relock
  <1>. QED  BY <1>1, <1>2 DEF IInv, PromiseIsDurable

\* Every step of the store and of the clock keeps the inductive invariant.
LEMMA NextIInv == IInv /\ [Next]_vars => IInv'
  <1> SUFFICES ASSUME IInv, [Next]_vars PROVE IInv'
    OBVIOUS
  <1>1. ASSUME NEW freezing \in SUBSET Outpoints, NEW unfreezing \in SUBSET Outpoints,
               set_frozen(freezing, unfreezing)
        PROVE  IInv'
    BY <1>1 DEF set_frozen, IInv, TypeOK, PromiseIsDurable, Holds
  <1>2. CASE Tick
    BY <1>2 DEF Tick, IInv, TypeOK, PromiseIsDurable, Holds
  <1>3. CASE UNCHANGED vars
    BY <1>3 DEF vars, IInv, TypeOK, PromiseIsDurable, Holds
  <1>. QED  BY <1>1, <1>2, <1>3, TryLockIInv, RenewIInv, ReleaseIInv DEF Next

\* Exclusion follows from durability: the file names one owner per input.
LEMMA IInvExclusion == IInv => LeaseExclusion
  BY DEF IInv, PromiseIsDurable, LeaseExclusion

\* The store never forgets a running promise, for any owners and inputs.
THEOREM Durability == Spec => []PromiseIsDurable
  <1>1. IInv => PromiseIsDurable
    BY DEF IInv
  <1>. QED  BY InitIInv, NextIInv, <1>1, PTL DEF Spec

\* Two rounds never both hold a running lease on one input.
THEOREM Exclusion == Spec => []LeaseExclusion
  BY InitIInv, NextIInv, IInvExclusion, PTL DEF Spec

=============================================================================
