----------------------------- MODULE InputLeases -----------------------------
(***************************************************************************)
(* The temporary CoinJoin input locks ("leases") that every round of every *)
(* process takes in the shared wallet metadata file                        *)
(* (jmwallet/wallet/utxo_metadata.py, UTXOMetadataStore), together with    *)
(* the user freezes kept in the same records.                              *)
(*                                                                         *)
(* Each public operation of the store runs under one exclusive file lock:  *)
(* it reloads the file, decides, and replaces the file atomically.  It is  *)
(* therefore one step on the content of the file.  Processes appear only   *)
(* as the owners that call it.                                             *)
(***************************************************************************)
EXTENDS Naturals

CONSTANTS
    Owners,      \* lease owner tokens, one per session or round
    NoOwner,     \* the owner of a lock taken through the ownerless legacy API
    Outpoints,   \* wallet inputs
    Ttls,        \* lifetimes a caller may ask for
    MaxTime      \* bound on the clock

ASSUME OwnersAssumption == NoOwner \notin Owners
ASSUME TtlsAssumption == Ttls \subseteq Nat \ {0}
ASSUME MaxTimeAssumption == MaxTime \in Nat

VARIABLES
    frozen,      \* the outpoints whose record says spendable = False
    lock_until,  \* the records' lock_until
    lock_owner,  \* the records' lock_owner
    now,         \* time.time()
    claims       \* the deadline each owner was last promised for an outpoint

vars == <<frozen, lock_until, lock_owner, now, claims>>

\* No lock_until / no promise.  The clock starts above it.
None == 0

Callers == Owners \cup {NoOwner}

is_locked(x) == lock_until[x] > now

\* The locks whose markers _prune_expired_locks clears.
expired == {x \in Outpoints : lock_until[x] # None /\ lock_until[x] <= now}

Init ==
    /\ frozen = {}
    /\ lock_until = [x \in Outpoints |-> None]
    /\ lock_owner = [x \in Outpoints |-> NoOwner]
    /\ now = 1
    /\ claims = [o \in Owners |-> [x \in Outpoints |-> None]]

\* What `caller' may rely on after a call that returned True for `wanted'.
Promised(caller, wanted, deadline) ==
    [o \in Owners |-> [x \in Outpoints |->
        IF o = caller /\ x \in wanted THEN deadline ELSE claims[o][x]]]

\* Drop the lock markers of `cleared', give those of `taken' to `caller'.
Relock(taken, caller, deadline, cleared) ==
    /\ lock_until' = [x \in Outpoints |->
                         IF x \in taken THEN deadline
                         ELSE IF x \in cleared THEN None ELSE lock_until[x]]
    /\ lock_owner' = [x \in Outpoints |->
                         IF x \in taken THEN caller
                         ELSE IF x \in cleared THEN NoOwner ELSE lock_owner[x]]

-----------------------------------------------------------------------------

\* Mutant: a lock that only looks at the freeze.
lockable_unfrozen(x) == x \notin frozen

lockable(x) == x \notin frozen /\ ~ is_locked(x)

\* Mutant: the deadline computed with the wrong sign.
try_lock_outpoints_past(caller, wanted, ttl) ==
    /\ wanted # {}
    /\ \A x \in wanted : lockable(x)
    /\ Relock(wanted, caller, now - ttl, expired)
    /\ claims' = Promised(caller, wanted, now - ttl)
    /\ UNCHANGED <<frozen, now>>

\* Lock all of `wanted' or nothing; the expired markers go in the same write.
try_lock_outpoints(caller, wanted, ttl) ==
    /\ wanted # {}
    /\ \A x \in wanted : lockable(x)
    /\ Relock(wanted, caller, now + ttl, expired)
    /\ claims' = Promised(caller, wanted, now + ttl)
    /\ UNCHANGED <<frozen, now>>

\* Mutant: a renewal that does not look at the freeze.
renewable_frozen(x, owner) == is_locked(x) /\ lock_owner[x] = owner

renewable(x, owner) ==
    /\ x \notin frozen
    /\ is_locked(x)
    /\ lock_owner[x] = owner

\* Extend every lock of `wanted', all of them live and owned, or nothing.
renew_outpoints(owner, wanted, ttl) ==
    /\ wanted # {}
    /\ \A x \in wanted : renewable(x, owner)
    /\ lock_until' = [x \in Outpoints |->
                         IF x \in wanted THEN now + ttl ELSE lock_until[x]]
    /\ claims' = Promised(owner, wanted, now + ttl)
    /\ UNCHANGED <<frozen, lock_owner, now>>

releasable(x, caller) == lock_until[x] # None /\ lock_owner[x] = caller

\* Compare-and-release.  The file is only rewritten, without the expired
\* markers, when something was released.
release_outpoints(caller, wanted) ==
    LET released == {x \in wanted : releasable(x, caller)} IN
    /\ wanted # {}
    /\ IF released = {}
       THEN UNCHANGED <<lock_until, lock_owner>>
       ELSE Relock({}, NoOwner, None, released \cup expired)
    /\ claims' = Promised(caller, wanted, None)
    /\ UNCHANGED <<frozen, now>>

\* Mutant: an unfreeze that drops the whole record, its lock included.
set_frozen_dropping(freezing, unfreezing) ==
    /\ freezing \cup unfreezing # {}
    /\ freezing \cap unfreezing = {}
    /\ frozen' = (frozen \cup freezing) \ unfreezing
    /\ Relock({}, NoOwner, None, unfreezing)
    /\ UNCHANGED <<now, claims>>

\* Freezes and unfreezes of a batch, in one write.  A record that carries a
\* lock is kept when its outpoint is unfrozen.  freeze, unfreeze and
\* toggle_freeze are the batches of one outpoint.
set_frozen(freezing, unfreezing) ==
    /\ freezing \cup unfreezing # {}
    /\ freezing \cap unfreezing = {}
    /\ frozen' = (frozen \cup freezing) \ unfreezing
    /\ UNCHANGED <<lock_until, lock_owner, now, claims>>

Tick ==
    /\ now < MaxTime
    /\ now' = now + 1
    /\ UNCHANGED <<frozen, lock_until, lock_owner, claims>>

Next ==
    \/ \E caller \in Callers, wanted \in SUBSET Outpoints, ttl \in Ttls :
          try_lock_outpoints(caller, wanted, ttl)
    \/ \E owner \in Owners, wanted \in SUBSET Outpoints, ttl \in Ttls :
          renew_outpoints(owner, wanted, ttl)
    \/ \E caller \in Callers, wanted \in SUBSET Outpoints :
          release_outpoints(caller, wanted)
    \/ \E freezing, unfreezing \in SUBSET Outpoints :
          set_frozen(freezing, unfreezing)
    \/ Tick

Spec == Init /\ [][Next]_vars

-----------------------------------------------------------------------------

\* The records, the clock and the promises have their types.
TypeOK ==
    /\ frozen \subseteq Outpoints
    /\ lock_until \in [Outpoints -> Nat]
    /\ lock_owner \in [Outpoints -> Callers]
    /\ now \in Nat \ {0}
    /\ claims \in [Owners -> [Outpoints -> Nat]]

Holds(o, x) == claims[o][x] > now

\* While a promise made to an owner runs, the file still records that owner's
\* lock with at least that deadline: no other owner's acquisition, renewal,
\* release or prune and no freeze or unfreeze shortens or removes it.
PromiseIsDurable ==
    \A o \in Owners, x \in Outpoints :
        Holds(o, x) => lock_owner[x] = o /\ lock_until[x] >= claims[o][x]

\* Two rounds never both hold a running promise on one input, so they never
\* sign two transactions that spend it.
LeaseExclusion ==
    \A o, p \in Owners, x \in Outpoints :
        Holds(o, x) /\ Holds(p, x) => o = p

\* A step that takes or extends a promise never does so on a frozen input.
NoPromiseOnFrozen ==
    [][\A o \in Owners, x \in Outpoints :
          claims'[o][x] > claims[o][x] => x \notin frozen]_vars

=============================================================================
