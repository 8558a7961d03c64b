# A formal model of JoinMarket NG with channel rings

TLA+ modules that follow the Python source, TLC runs over small instances of
them, and TLAPS proofs for every value of their constants. The modules keep the
source's names: an action `_cancel` models the method `_cancel`, and the `map` of
`PROJECT.json` gives the lines of each definition.

## The system

JoinMarket NG coordinates CoinJoin transactions. *Directory servers* relay
messages between *makers*, who offer coins, and *takers*, who build the
transaction. A maker proves it owns its coins and signs after checking the
transaction; the taker spends a PoDLE commitment per attempt. Wallets run beside
makers, takers, the tumbler and a daemon, and share a metadata file with freezes
and leases.

This branch adds *private channel rings*. The CoinJoin's participants stand in a
circle, and the CoinJoin transaction also funds one Lightning channel from each
participant to the next. Each LND node opens its channel with a PSBT shim, so that
nobody's channel exists unless the one transaction is signed by everybody. Two
further protocols build on it: buyouts (a ring member's channel is bought out)
and a market for ring credentials.

What makes this hard is money held in two systems. A channel must not be given
up once the transaction that funds it may appear, and an input must not be
returned to the wallet while a signature that spends it exists. Both must hold
through time-outs, late answers of LND, crashes, restarts and a reconciler that
runs beside the sessions.

### Inventory

| Part | State | Operations | Hard behaviour |
|---|---|---|---|
| wallet leases (`jmwallet/wallet/utxo_metadata.py`) | lock, owner, freeze per outpoint, in one file | lock, renew, release, freeze | several processes, expiry while a round works |
| record lifecycle (`jmcore/channel_ring_store.py`) | 16 states, evidence marks | transition, validation | points of no return |
| participant store (same file, `maker/bot.py`) | one file per record, limits | save, load, release, renew | limits, revisions of one ring |
| maker participant (`maker/channel_ring.py`, `maker_session.py`, `protocol_handlers.py`) | record, session, LND client memory | ring handlers, cancel, retire, reconcile, expire | two actors on one record, crash between two systems |
| taker coordinator (`taker/channel_ring.py`) | record, phase | eleven phases, cancel, retire, reconcile | circular waits, authorization against cancellation |
| maker-only coordinator (`taker/channel_ring_maker_only.py`, its store) | coordinator journal | the round without an own channel | same as above |
| LND adapter (`jmswap/lnd.py`) | pending ids, verified points | open, verify, cancel, abandon | executed after the caller gave up |
| buyouts (`jmswap/buyout_*.py`) | session journal, escrow | terms, signing, settlement, recovery | refund against claim deadlines |
| credential market (`jmcore/market_store.py`, `taker/market_*.py`) | listings, purchases | list, reserve, pay, redeem | double sale, crash after payment |
| maker CoinJoin session | session state, deadlines | fill, auth, tx, push | detached handlers, expiry |
| taker CoinJoin session | phases, maker sessions | fill, auth, build, collect, broadcast | replacement of makers |
| PoDLE (`podle_manager.py`, `commitment_blacklist.py`) | used commitments | generate, mark, blacklist | retries, lost acknowledgement |
| directory server, clients | peers, queues, rates | handshake, route, heartbeat | disconnects, queues at their limit |
| tumbler (`runner.py`) | plan with phases on disk | step, retry, resume | crash between phases |
| wallet sync, history, bonds, coin selection | addresses, entries | scan, select, update | gap limits, boundary values |
| daemon (`jmwalletd`) | running services | lock, unlock, start, stop | exclusion of services |
| orderbook watcher, CLI, settings, cryptography | - | - | I/O and formatting |

## Modules

| Module | Models |
|---|---|
| `InputLeases` | the lease and freeze columns of `UTXOMetadataStore` |
| `RingLifecycle` | the states, the transition table and the validators of a ring record |
| `RingMaker` | one maker's record against its handlers, the reconciler, LND, the chain and the lease |
| `RingStore` | all records of a maker: limits, sessions, revisions, leases, passes |
| `RingRound` | a taker and N makers with their LND nodes |
| `AtomicRing` | what a round promises: one transaction funds all channels or none |
| `Tumbler` | the tumbler's plan file, its runner, and the daemon and command line that start runners |
| `*Proofs` | the theorems |
| `MC*` | instances for TLC |

**InputLeases.** The file is two functions (`lock_until`, `lock_owner`) and the set
`frozen`; every operation runs under the file lock and is one action.
`claims` is history: the deadline each owner was last told. The clock is an action.

**RingLifecycle.** A record is a state and a set of marks (`Flags`), one for every
field that a rule looks at; `confirmed` stands for a chain status with confirmations,
without which no record is `confirmed_open`. `transition_allowed` is `RingParticipantRecord.transition`
with both validators.

**RingMaker.** The process is one asyncio loop. An action is the code between two
awaits, and `pc` holds the await in which the handler and the reconciler are
suspended. Records they read before an await are kept in `seenState` and `seenFlags`
and may be stale. A request to LND is put into `rpc` and executed whenever LND
pleases, also after the caller timed out, was cancelled or died. `memory` is what the LND
client remembers until the process ends; a crash empties it, and
`TornJournal` is a crash between two saves of one handler. Several actions stand
for one method: `_unsigned`, `_unsigned_verify`, `_unsigned_verified` and
`_unsigned_ready` are the four parts of `_unsigned`.

**RingStore.** A record is its state and its retirement intent, and a handler is one
step; in exchange there are several sessions, each with several revisions, and
the leases of their inputs. States that no rule of the store or of the pass tells
apart are merged (acceptor_armed with prepared_not_verified, ready with psbt_verified,
signed with broadcast).

**RingRound.** Party 0 is the taker. `inbox` and `replies` are the messages,
`busy` is what a maker's handler waits for, `wire` holds what the LND nodes have been
asked or have sent each other and not yet received. The taker's periodic reconciliation
runs beside a live round: it arms the acceptor again, rebroadcasts, confirms and, when a
call of its own fails, escalates the record the round works on. Faults (a time-out, a failing call, a
crash, an expired session) are counted. `ImplementsAtomicRing` maps readiness to
`prepared`, signatures to `signed`, retired records to `retired` and the transaction
to `funded`.

**Tumbler.** `disk` is the plan file and `plan` the runner's copy, which runs ahead of it.
`pc` is the await of the runner; at `top` and `advance` it is between two saves. A stop
request, a forced cancellation, a crash, a failing save, the startup reconciliation and
`--resume` may follow each other in any order. `_phase_broadcast` is the moment the
transaction leaves; the txid enters the plan a step later and the file two steps later.
`kept` remembers every txid the file has held with the state of its phase, and `gated` is the
setting `min_confirmations_between_phases`. The daemon and the command line are used
one at a time. A death of the process is external in every module; the graceful stops of
the programs are actions of their own (`request_stop`, `stop_and_wait`, `daemon_ends`) or
left out.

External parts are modelled from how the code uses them: LND's funding exchange, the
taker as one maker sees it, other users of the wallet, the network.

## Runs

| Run | Instance | Distinct states | Shows |
|---|---|---|---|
| `input_leases` | 2 owners and an anonymous caller, 2 inputs, time to 4 | 6 228 | no running promise is lost, shared, or given on a frozen coin |
| `ring_maker` | outgoing edge first, 1 fault, 1 crash | 303 347 | signature and retirement exclude each other; a retired record has no outgoing channel; inputs are given back only unsigned or confirmed |
| `ring_maker_retirement` | incoming edge first, 1 fault, 1 crash | 283 736 | a claimed retirement completes; an authorized record without a signature and without its session is retired |
| `ring_store_revisions` | 2 sessions, 1 input, 2 revisions, 1 crash | 484 016 | no input backs two active records; releases spare active revisions |
| `ring_store_limits` | 2 sessions, 2 inputs, limits 2 and 1, 1 crash | 106 396 | no history of saves and crashes exceeds a limit |
| `ring_round` | 2 makers, 3 faults | 261 720 | the transaction pays into existing channels, a cancelled round is unsigned, the round implements `AtomicRing`, and without a fault the circle never blocks |
| `tumbler` | CoinJoin, maker session; 1 retry, 1 crash or failing save, 1 resume | 48 638 | the gate, the retry budget and finished phases survive restarts; a CoinJoin the file recorded is paid again only after a stop; a stop ends the runner |

Bounds. One fault and one crash already give every pair of "a call fails" and "the
process dies" at every suspension point; later faults meet records that the first
one sent to recovery. Two sessions with one input conflict on it; two
revisions are what a cancel and a new invitation need. Two makers give every kind
of neighbour (taker-maker, maker-maker, maker-taker), and three faults let each
participant fail once. The CoinJoin of `tumbler` has a successor, so its gate is entered,
and the maker session is a last phase without a transaction; a resume after a crash or a stop
meets the states that both leave behind. Its histories are those of one plan. In
`ring_store_limits` there are as many records as the active limit allows, so its active half
is shown by the theorem `LimitsHold`, not by the run.

Deadlock is not checked where the system may stop: a finished round stops.

### Disagreements found

Five runs show behaviour that contradicts the repository's own text.

* `ring_maker_escalation`: the pass escalates the record of a live round when a call
  fails; its docstring says never.
* `ring_store_reinvite`: after a cancellation gave the leases back, a later revision
  in the same session is active without them.
* `ring_store_invite`: with the verified limit reached, retiring an abandoned invitation
  is refused outside the pass's `try`; the maker ends, and ends again at every restart.
* `tumbler_create`: a plan that is started while a create request awaits the balances is
  overwritten on disk, although running plans are "always protected". The await suspends
  only for a mixdepth that is not in `utxo_cache` (`wallet/service.py:687`), for
  instance between an unlock and the end of the background synchronisation.
* `tumbler_replay`: a stop marks a phase that only waits for its confirmations as cancelled,
  and a resume pays it again; the comment at `runner.py:248` says that a restart never
  replays the CoinJoin. `ReplayNeedsStop` shows that without a stop it does not. The same
  end is reached when the grace period of a stop ends while the taker is torn down.

One text is only imprecise: the help of `--resume` (`cli.py:666`) says that all phases but
the completed ones are reset; a skipped phase stays skipped, which is what
`FinishedStays` states.

## Fairness

`RingMaker!FairSpec`: the reconciler is a periodic task and runs for ever; LND executes
what it was sent; an operator restarts a maker that stopped. Nothing is assumed of
the taker, of other makers, of the session or of its handler. `RingStore!FairSpec`
assumes the pass and the restart. `RingRound!FairSpec` is weak fairness of
the steps that are not faults: the loops, the nodes and the miners go on, and nobody is
made to time out. Completion is claimed only of rounds without a fault. `Tumbler!FairSpec` assumes that the
runner's waits end (a CoinJoin has time-outs) and that the grace period of a stop ends;
miners and the backend's answers may fail for ever.

## Proofs

All theorems hold for every value of the constants.

* `InputLeasesProofs`: `Durability`, `Exclusion`. The invariant is the durability of
  running promises itself; exclusion follows, because the file has one owner per
  input.
* `RingMakerProofs`: `TypeCorrect`, `SignatureSafety`, `ReleaseSafety`, `RetiredSafety`,
  `NeverRetires`. The
  invariant relates the journal, the two suspended actors, the requests LND
  may still execute, the channels and the lease. It is needed because the handler that
  signs, the reconciler that retires and the request that abandons
  are each correct only by what the journal said when they began: an
  abandonment is on its way only under an intent, an intent excludes the signature
  mark, and the wallet signs only under that mark. `RetiredSafety` adds that the last look at
  LND before a record is retired found no channel, and that no verification is then left
  that could create one.
* `RingStoreProofs`: `InputsDisjoint`, `LimitsHold`. Every step is at most one save under
  `_enforce_limits`, and the inputs of a recorded session never change; a save that adds a record to a limited
  class was checked against the count of the others.
* `RingRoundProofs`: `ChannelSafety`, `CancelSafety`, `Refinement`, for every number of makers
  and of faults. The invariant has four parts: the ready and the signed hold both
  channels; what was sent tells that all were ready; the taker's progress tells that
  all signed; cancellation and authorization exclude each other.

Only model-checked: `ActiveLeaseKept`, `NoPromiseOnFrozen`, `Tumbler`
and all liveness properties (liveness under fairness is beyond this prover).

## Not modelled, and the plan

Cryptography, serialisation, RPC wrappers, configuration, display and command lines
are pure I/O or computation without state. The other parts are planned in this order:

1. the taker's ring record in the detail `RingMaker` has, the maker-only coordinator
   and its store;
2. the buyout store, signing and settlement; the market store and its payments;
3. the ordinary CoinJoin: maker session, taker session, PoDLE commitments;
4. directory server (routing, rate limits, heartbeat), directory clients, the daemon's
   services (maker, taker, tumbler, locking);
5. pure algorithms: coin selection, fee arithmetic, bond timelocks, deduplication;
6. proofs of the new invariants.
