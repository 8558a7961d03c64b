------------------------------- MODULE Tumbler -------------------------------
(***************************************************************************)
(* The tumbler: a plan of phases in one YAML file, the runner that works   *)
(* it off, and the two programs that start runners, the wallet daemon and  *)
(* the command line.                                                       *)
(*                                                                         *)
(* disk is the file.  plan is the runner's copy, which the code changes    *)
(* before it saves it.  pc is the await in which the runner is suspended;  *)
(* at "top" and "advance" it is between two saves, and only a crash may    *)
(* come in between.  A txid is 0 (none) or the number of the broadcast     *)
(* among those of its phase; the taker always returns one, so the gate's   *)
(* branch for a phase without a txid is never taken.  The daemon and the   *)
(* command line are used one at a time.                                    *)
(***************************************************************************)
EXTENDS Integers, Sequences, FiniteSets

CONSTANTS
  Kinds,       \* the kind of each phase of a plan
  MaxRetries,  \* parameters.max_phase_retries
  MaxPlans,    \* bound: plans ever saved
  MaxCrashes,  \* bound: crashes and failing saves
  MaxResumes   \* bound: uses of --resume

ASSUME TumblerAssumption ==
  /\ Kinds \in Seq({"taker_coinjoin", "maker_session"})
  /\ MaxRetries \in Nat

VARIABLES
  disk,      \* the plan file, NoPlan if there is none
  plan,      \* the runner's plan, NoPlan if there is no runner
  pc,        \* where the runner is, "none" if there is no runner
  stop,      \* _stop_requested
  resolved,  \* ever_resolved of the confirmation gate
  gated,     \* the settings ask for confirmations between phases
  program,   \* "daemon", "cli" or "off"
  creating,  \* the daemon's create_plan awaits the balances
  starts,    \* history: dispatches of each phase
  sent,      \* history: broadcasts of each phase
  kept,      \* history: <<phase, txid, status>> that the file has held
  mined,     \* broadcasts with enough confirmations
  waived,    \* history: broadcasts the gate gave up on
  plans,
  crashes,
  resumes

file == <<disk, kept>>
runnerVars == <<plan, pc, stop, resolved>>
history == <<starts, sent, mined, waived>>
bounds == <<plans, crashes, resumes>>
vars == <<file, runnerVars, gated, program, creating, history, bounds>>

Phases == DOMAIN Kinds
PhaseStatus == {"pending", "running", "awaiting_confirmation", "completed",
                "failed", "cancelled", "skipped"}
PlanStatus == {"pending", "running", "completed", "failed", "cancelled"}
Awaits == {"begin", "taker", "sent", "teardown", "maker", "balance", "retry",
           "gate", "delay"}
NoPlan == [id |-> 0]

\* mutant: the plan points before its first phase
NewPlan_past(id) ==
  [id |-> id, status |-> "pending", current |-> 0,
   phase |-> [i \in Phases |-> "pending"], txid |-> [i \in Phases |-> 0],
   attempt_count |-> [i \in Phases |-> 0]]

NewPlan(id) ==
  [id |-> id, status |-> "pending", current |-> 1,
   phase |-> [i \in Phases |-> "pending"], txid |-> [i \in Phases |-> 0],
   attempt_count |-> [i \in Phases |-> 0]]

Init ==
  /\ disk = NoPlan /\ plan = NoPlan
  /\ pc = "none" /\ stop = FALSE /\ resolved = FALSE
  /\ gated \in BOOLEAN
  /\ program = "off" /\ creating = FALSE
  /\ starts = [i \in Phases |-> 0] /\ sent = [i \in Phases |-> 0]
  /\ kept = {} /\ mined = {} /\ waived = {}
  /\ plans = 0 /\ crashes = 0 /\ resumes = 0

-----------------------------------------------------------------------------
(* Resuming *)

is_safely_resumable_confirmation_wait(p) ==
  /\ p.current \in Phases
  /\ Kinds[p.current] = "taker_coinjoin" /\ p.txid[p.current] # 0
  /\ \/ p.phase[p.current] = "awaiting_confirmation"
     \/ p.phase[p.current] = "completed" /\ p.current + 1 \in Phases

\* mutant: a skipped phase is attempted again
rolled_back_skipped(s) == s \in {"failed", "running", "cancelled", "skipped"}

rolled_back(s) == s \in {"failed", "running", "cancelled"}

first_pending(ph) ==
  CHOOSE i \in 1 .. Len(Kinds) + 1 :
    /\ \A j \in 1 .. i - 1 : ph[j] \in {"completed", "skipped"}
    /\ i \in Phases => ph[i] \notin {"completed", "skipped"}

reset_plan_for_resume(p) ==
  LET ph == [i \in Phases |->
               IF rolled_back(p.phase[i]) THEN "pending"
               ELSE IF i = p.current /\ is_safely_resumable_confirmation_wait(p)
               THEN "awaiting_confirmation"
               ELSE p.phase[i]]
  IN [p EXCEPT !.phase = ph, !.current = first_pending(ph), !.status = "pending"]

_reconcile_on_request(p) ==
  IF p = NoPlan \/ p.status # "running" THEN p
  ELSE IF is_safely_resumable_confirmation_wait(p) THEN reset_plan_for_resume(p)
  ELSE [p EXCEPT !.status = "failed"]

reconcile_stale_tumbler_plans(p) ==
  IF p = NoPlan \/ p.status \notin {"running", "pending"} THEN p
  ELSE IF p.status = "running" /\ is_safely_resumable_confirmation_wait(p)
  THEN reset_plan_for_resume(p)
  ELSE [p EXCEPT !.status = "failed",
                 !.phase = [i \in Phases |-> IF i = p.current /\ @[i] = "running"
                                             THEN "failed" ELSE @[i]]]

-----------------------------------------------------------------------------
(* The runner *)

cur == plan.current
At(l) == pc = l
SetPhase(p, s) == [p EXCEPT !.phase[p.current] = s]
Advanced(p) == [p EXCEPT !.current = @ + 1]

\* a txid is in the file for the first time with one of these states of its
\* phase
KeptAs == {"awaiting_confirmation", "cancelled"}

\* the file holds p
save_plan(p) ==
  /\ disk' = p
  /\ kept' = kept \cup {<<i, p.txid[i], p.phase[i]>> :
                        i \in {j \in Phases : /\ p.txid[j] # 0
                                             /\ p.phase[j] \in KeptAs}}

\* a step of the runner's task leaves the rest of the system alone
RunnerKeeps == UNCHANGED <<gated, program, creating, plans, resumes>>

\* the task goes on at l; ever_resolved is a local of the gate
Goto(l) ==
  /\ pc' = l /\ resolved' = FALSE
  /\ UNCHANGED <<stop, crashes>> /\ RunnerKeeps

\* run() returned or raised: _run's finally forgets the runner
Ends == pc' = "none" /\ plan' = NoPlan /\ stop' = FALSE /\ resolved' = FALSE

Cancelled(p) == [p EXCEPT !.status = "cancelled"]

\* the plan p that a runner left when it ended during a stop
_record_cancelled_plan(p) ==
  IF p.status \in {"completed", "failed"} THEN UNCHANGED file
  ELSE save_plan(Cancelled(IF p.current \in Phases /\ p.phase[p.current] = "running"
                           THEN SetPhase(p, "cancelled") ELSE p))

\* save_plan raises on p: the exception leaves run(); a stop_and_wait of the
\* daemon swallows it and records the plan, otherwise the file keeps its state
persist_fails(p) ==
  /\ crashes < MaxCrashes /\ crashes' = crashes + 1
  /\ IF stop /\ program = "daemon" THEN _record_cancelled_plan(p) ELSE UNCHANGED file
  /\ Ends /\ RunnerKeeps

\* self.plan is p from here on and is saved, and the task goes on at l
_persist(p, l) ==
  \/ plan' = p /\ save_plan(p) /\ Goto(l)
  \/ persist_fails(p)

\* the final save and the return
Finish(p) ==
  \/ save_plan(p) /\ Ends /\ RunnerKeeps /\ UNCHANGED crashes
  \/ persist_fails(p)

run ==
  /\ At("begin")
  /\ _persist([plan EXCEPT !.status = "running"], "top")
  /\ UNCHANGED history

\* the top of the loop with no phase left
run_completed ==
  /\ At("top") /\ cur \notin Phases
  /\ Finish([plan EXCEPT !.status = "completed"])
  /\ UNCHANGED history

\* the top of the loop after a stop request; a phase that waits for its
\* confirmations loses that state and keeps its txid
run_stopped ==
  /\ At("top") /\ cur \in Phases /\ stop
  /\ Finish(Cancelled(SetPhase(plan, "cancelled")))
  /\ UNCHANGED history

\* the gate is entered only if it is enabled and another phase follows
AfterBroadcast(p) ==
  _persist(p, IF gated /\ p.current + 1 \in Phases THEN "gate" ELSE "advance")

run_awaiting ==
  /\ At("top") /\ cur \in Phases /\ ~stop
  /\ plan.phase[cur] = "awaiting_confirmation"
  /\ AfterBroadcast(plan)
  /\ UNCHANGED history

\* the phase is saved as running and dispatched unless that save fails
Dispatch ==
  /\ _persist(SetPhase(plan, "running"),
              IF Kinds[cur] = "taker_coinjoin" THEN "taker" ELSE "maker")
  /\ starts' = IF pc' = "none" THEN starts ELSE [starts EXCEPT ![cur] = @ + 1]
  /\ UNCHANGED <<sent, mined, waived>>

\* mutant: the status of the phase is not looked at before it is dispatched
_run_one_phase_always ==
  /\ At("top") /\ cur \in Phases /\ ~stop
  /\ Dispatch

_run_one_phase ==
  /\ At("top") /\ cur \in Phases /\ ~stop
  /\ plan.phase[cur] # "awaiting_confirmation"
  /\ Dispatch

\* the taker hands the transaction to the network
_phase_broadcast ==
  /\ At("taker")
  /\ sent' = [sent EXCEPT ![cur] = @ + 1]
  /\ Goto("sent")
  /\ UNCHANGED <<file, plan, starts, mined, waived>>

\* do_coinjoin returned the txid; the taker is torn down
_run_taker_phase ==
  /\ At("sent")
  /\ plan' = [plan EXCEPT !.txid[cur] = sent[cur]]
  /\ Goto("teardown")
  /\ UNCHANGED <<file, history>>

\* the phase has broadcast and waits for the gate
_run_one_phase_awaiting ==
  /\ At("teardown")
  /\ AfterBroadcast(SetPhase(plan, "awaiting_confirmation"))
  /\ UNCHANGED history

\* mutant: one attempt too many
_try_tweak_for_retry_extra(p) ==
  IF p.attempt_count[cur] > MaxRetries
  THEN Finish([p EXCEPT !.status = "failed"])
  ELSE /\ plan' = [SetPhase(p, "pending") EXCEPT !.attempt_count[cur] = @ + 1]
       /\ Goto("retry")
       /\ UNCHANGED file

_try_tweak_for_retry(p) ==
  IF p.attempt_count[cur] >= MaxRetries
  THEN Finish([p EXCEPT !.status = "failed"])
  ELSE /\ plan' = [SetPhase(p, "pending") EXCEPT !.attempt_count[cur] = @ + 1]
       /\ Goto("retry")
       /\ UNCHANGED file

\* do_coinjoin returned None or raised, also after a broadcast it could not
\* verify; an error about eligible inputs asks for the balance first
taker_phase_failed(unfunded) ==
  /\ pc \in {"taker", "sent"}
  /\ IF unfunded
     THEN plan' = SetPhase(plan, "failed") /\ Goto("balance") /\ UNCHANGED file
     ELSE _try_tweak_for_retry(SetPhase(plan, "failed"))
  /\ UNCHANGED history

_mark_skipped_if_unfunded(empty) ==
  /\ At("balance")
  /\ IF empty
     THEN _persist(Advanced(SetPhase(plan, "skipped")), "top")
     ELSE _try_tweak_for_retry(plan)
  /\ UNCHANGED history

\* the back-off is over: the attempt is saved and the phase runs again
retry_over ==
  /\ At("retry")
  /\ _persist(plan, "top")
  /\ UNCHANGED history

retry_stopped ==
  /\ At("retry") /\ stop
  /\ Finish(Cancelled(SetPhase(plan, "cancelled")))
  /\ UNCHANGED history

_run_maker_phase ==
  /\ At("maker")
  /\ _persist(SetPhase(plan, "completed"), "advance")
  /\ UNCHANGED history

maker_phase_failed ==
  /\ At("maker")
  /\ _persist(Advanced(SetPhase(plan, "skipped")), "top")
  /\ UNCHANGED history

maker_phase_stopped ==
  /\ At("maker") /\ stop
  /\ Finish(Cancelled(SetPhase(plan, "cancelled")))
  /\ UNCHANGED history

\* a poll of the gate that finds too few confirmations
_wait_for_phase_confirmations_low ==
  /\ At("gate") /\ ~stop
  /\ resolved' = TRUE
  /\ UNCHANGED <<file, plan, pc, stop, history, crashes>> /\ RunnerKeeps

\* mutant: any answer of the backend opens the gate
_wait_for_phase_confirmations_any ==
  /\ At("gate")
  /\ Goto("advance")
  /\ UNCHANGED <<file, plan, history>>

_wait_for_phase_confirmations ==
  /\ At("gate")
  /\ <<cur, plan.txid[cur]>> \in mined
  /\ Goto("advance")
  /\ UNCHANGED <<file, plan, history>>

\* the backend never resolved the transaction: confirmation_unknown_timeout
_wait_for_phase_confirmations_unknown ==
  /\ At("gate") /\ ~resolved
  /\ waived' = waived \cup {<<cur, plan.txid[cur]>>}
  /\ Goto("advance")
  /\ UNCHANGED <<file, plan, starts, sent, mined>>

\* mutant: the polls do not look at the stop request
gate_stopped_never ==
  FALSE

gate_stopped ==
  /\ At("gate") /\ stop
  /\ Finish(Cancelled(plan))
  /\ UNCHANGED history

\* mutant: the phase is not marked completed when the plan moves on
run_advance_unmarked ==
  /\ At("advance")
  /\ _persist(Advanced(plan),
              IF cur + 1 \in Phases THEN "delay" ELSE "top")
  /\ UNCHANGED history

run_advance ==
  /\ At("advance")
  /\ _persist(Advanced(SetPhase(plan, "completed")),
              IF cur + 1 \in Phases THEN "delay" ELSE "top")
  /\ UNCHANGED history

delay_over ==
  /\ At("delay")
  /\ Goto("top")
  /\ UNCHANGED <<file, plan, history>>

delay_stopped ==
  /\ At("delay") /\ stop
  /\ Finish(Cancelled(plan))
  /\ UNCHANGED history

RunnerStep ==
  \/ run \/ run_completed \/ run_stopped \/ run_awaiting \/ _run_one_phase
  \/ _run_taker_phase \/ _run_one_phase_awaiting
  \/ \E b \in BOOLEAN : taker_phase_failed(b)
  \/ \E b \in BOOLEAN : _mark_skipped_if_unfunded(b)
  \/ retry_over \/ retry_stopped
  \/ _run_maker_phase \/ maker_phase_failed \/ maker_phase_stopped
  \/ _wait_for_phase_confirmations \/ _wait_for_phase_confirmations_unknown
  \/ gate_stopped \/ run_advance \/ delay_over \/ delay_stopped

-----------------------------------------------------------------------------
(* Stopping *)

Suspended == pc \notin {"top", "advance"}

\* stop_plan, lock_wallet and the signal handler of the command line; there
\* the task has always begun before a signal is delivered
request_stop ==
  /\ pc \in Awaits /\ ~stop
  /\ program = "cli" => pc # "begin"
  /\ stop' = TRUE
  /\ UNCHANGED <<file, plan, pc, resolved, gated, program, creating, history, bounds>>

\* the grace period is over: the task is cancelled where it hangs, and
\* _record_cancelled_plan saves what it left, unless that save fails too
stop_and_wait ==
  /\ program = "daemon" /\ stop
  /\ pc \in {"taker", "sent", "teardown", "maker", "balance", "gate"}
  /\ \/ _record_cancelled_plan(plan) /\ UNCHANGED crashes
     \/ crashes < MaxCrashes /\ crashes' = crashes + 1 /\ UNCHANGED file
  /\ Ends /\ RunnerKeeps
  /\ UNCHANGED history

-----------------------------------------------------------------------------
(* The programs that start a runner *)

NoRunner == pc = "none"

\* a reconciliation, which may find no file
Rewrite(p) == IF p = NoPlan THEN UNCHANGED file ELSE save_plan(p)

Begins(p) ==
  /\ plan' = p /\ pc' = "begin" /\ stop' = FALSE /\ resolved' = FALSE

daemon_starts ==
  /\ program # "daemon" /\ NoRunner
  /\ program' = "daemon"
  /\ Rewrite(reconcile_stale_tumbler_plans(disk))
  /\ UNCHANGED <<runnerVars, gated, creating, history, bounds>>

daemon_ends ==
  /\ program = "daemon" /\ NoRunner /\ ~creating
  /\ program' = "off"
  /\ UNCHANGED <<file, runnerVars, gated, creating, history, bounds>>

\* up to the await of the balances
create_plan ==
  /\ program = "daemon" /\ NoRunner /\ ~creating
  /\ plans < MaxPlans
  /\ Rewrite(_reconcile_on_request(disk))
  /\ creating' = TRUE
  /\ UNCHANGED <<runnerVars, gated, program, history, bounds>>

\* after it, with or without coins to tumble
create_plan_saves(coins) ==
  /\ creating /\ Suspended
  /\ creating' = FALSE
  /\ IF coins
     THEN save_plan(NewPlan(plans + 1)) /\ plans' = plans + 1
     ELSE UNCHANGED <<file, plans>>
  /\ UNCHANGED <<runnerVars, gated, program, history, crashes, resumes>>

\* every mixdepth is in utxo_cache: the handler does not suspend
create_plan_cached ==
  /\ program = "daemon" /\ NoRunner /\ ~creating
  /\ plans < MaxPlans
  /\ save_plan(NewPlan(plans + 1)) /\ plans' = plans + 1
  /\ UNCHANGED <<runnerVars, gated, program, creating, history, crashes, resumes>>

get_status ==
  /\ program = "daemon" /\ NoRunner /\ disk # NoPlan
  /\ Rewrite(_reconcile_on_request(disk))
  /\ UNCHANGED <<runnerVars, gated, program, creating, history, bounds>>

start_plan ==
  /\ program = "daemon" /\ NoRunner /\ disk # NoPlan
  /\ LET p == _reconcile_on_request(disk)
     IN p.status = "pending" /\ save_plan(p) /\ Begins(p)
  /\ UNCHANGED <<gated, program, creating, history, bounds>>

delete_plan_endpoint ==
  /\ program = "daemon" /\ NoRunner /\ disk # NoPlan
  /\ disk' = NoPlan /\ UNCHANGED kept
  /\ UNCHANGED <<runnerVars, gated, program, creating, history, bounds>>

\* jm-tumbler run of a plan that was not started
run_command ==
  /\ program # "daemon" /\ NoRunner /\ disk # NoPlan
  /\ disk.status = "pending"
  /\ Begins(disk)
  /\ program' = "cli"
  /\ UNCHANGED <<file, gated, creating, history, bounds>>

\* jm-tumbler run of a plan that a dead process left running
run_command_stale ==
  /\ program # "daemon" /\ NoRunner /\ disk # NoPlan
  /\ disk.status = "running"
  /\ save_plan([disk EXCEPT !.status = "failed"])
  /\ UNCHANGED <<runnerVars, gated, program, creating, history, bounds>>

\* jm-tumbler run --resume
run_command_resume ==
  /\ program # "daemon" /\ NoRunner /\ disk # NoPlan
  /\ disk.status \in {"failed", "cancelled", "running"}
  /\ resumes < MaxResumes
  /\ LET p == reset_plan_for_resume(disk) IN save_plan(p) /\ Begins(p)
  /\ program' = "cli"
  /\ resumes' = resumes + 1
  /\ UNCHANGED <<gated, creating, history, plans, crashes>>

-----------------------------------------------------------------------------
(* The environment *)

\* the process dies anywhere, also between two saves
Crash ==
  /\ crashes < MaxCrashes /\ program # "off"
  /\ crashes' = crashes + 1
  /\ Ends /\ program' = "off" /\ creating' = FALSE
  /\ UNCHANGED <<file, gated, history, plans, resumes>>

Mine ==
  /\ Suspended
  /\ \E i \in Phases : \E n \in 1 .. sent[i] :
       <<i, n>> \notin mined /\ mined' = mined \cup {<<i, n>>}
  /\ UNCHANGED <<file, runnerVars, gated, program, creating, starts, sent, waived, bounds>>

Next ==
  \/ RunnerStep \/ _phase_broadcast \/ _wait_for_phase_confirmations_low
  \/ request_stop \/ stop_and_wait
  \/ daemon_starts \/ daemon_ends
  \/ create_plan \/ \E b \in BOOLEAN : create_plan_saves(b)
  \/ create_plan_cached
  \/ get_status \/ start_plan \/ delete_plan_endpoint
  \/ run_command \/ run_command_stale \/ run_command_resume
  \/ Crash \/ Mine

Spec == Init /\ [][Next]_vars

\* The event loop runs what is ready: waits end, do_coinjoin returns because
\* its phases have time-outs, the grace period of a stop ends.  Nothing is
\* assumed of the users, the miners or the answers.
FairSpec == Spec /\ WF_vars(RunnerStep) /\ WF_vars(stop_and_wait)

-----------------------------------------------------------------------------
(* Properties *)

TypeOK ==
  /\ \A p \in {disk, plan} : p # NoPlan =>
       /\ p.id \in 1 .. MaxPlans /\ p.status \in PlanStatus
       /\ p.current \in 1 .. Len(Kinds) + 1
       /\ p.phase \in [Phases -> PhaseStatus]
       /\ p.txid \in [Phases -> Nat] /\ p.attempt_count \in [Phases -> Nat]
  /\ pc \in Awaits \cup {"none", "top", "advance"}
  /\ (pc = "none") = (plan = NoPlan)
  /\ stop \in BOOLEAN /\ resolved \in BOOLEAN /\ creating \in BOOLEAN
  /\ program \in {"daemon", "cli", "off"}

\* The confirmation gate holds through stops, crashes, failing saves and
\* resumes: with the gate enabled, when a phase is dispatched, the last
\* broadcast of every earlier CoinJoin phase that was not skipped has its
\* confirmations, or the backend could never resolve it (runner.py: "a
\* restart neither skips the gate").
GateKept ==
  (gated /\ pc \in {"taker", "maker"}) =>
    \A i \in 1 .. cur - 1 :
      (Kinds[i] = "taker_coinjoin" /\ plan.phase[i] # "skipped") =>
        <<i, sent[i]>> \in mined \cup waived

\* Only a stop makes the tumbler pay a phase again whose txid is in the file:
\* whatever crashes, failing saves, reconciliations and resumes come between,
\* a broadcast that the file recorded is repeated only if the file also
\* showed its phase as cancelled (_record_cancelled_plan, run).
ReplayNeedsStop ==
  \A r \in kept : sent[r[1]] > r[2] => <<r[1], r[2], "cancelled">> \in kept

\* "AWAITING_CONFIRMATION is resumable, so a restart neither skips the gate
\* nor replays the CoinJoin" (run): no phase that the file has shown waiting
\* for its confirmations pays a second time.
NoReplay ==
  \A r \in kept : r[3] = "awaiting_confirmation" => sent[r[1]] = r[2]

\* The retry budget is kept across restarts ("otherwise a stuck phase would
\* silently get unlimited retries"): only a resume grants one more attempt.
RetryBudget ==
  \A i \in Phases : starts[i] <= MaxRetries + 1 + resumes

\* A completed or skipped phase is final: no restart, reconciliation or
\* resume opens it again as long as the plan exists.
FinishedStays ==
  [][\A i \in Phases :
       (disk # NoPlan /\ disk'.id = disk.id
        /\ disk.phase[i] \in {"completed", "skipped"})
       => disk'.phase[i] = disk.phase[i]]_vars

\* A plan that says completed has paid every CoinJoin that it did not skip,
\* and no phase of it is left open.
CompletedIsPaid ==
  (disk # NoPlan /\ disk.status = "completed") =>
    \A i \in Phases :
      \/ disk.phase[i] = "skipped"
      \/ disk.phase[i] = "completed" /\ (Kinds[i] = "taker_coinjoin" => disk.txid[i] # 0)

\* A requested stop ends the runner, whatever it is doing.
StopEnds == stop ~> pc = "none"

\* "An already-running plan for the wallet is always protected" (create_plan):
\* while a runner works on a plan, the file holds that plan.
RunningPlanProtected == pc # "none" => disk.id = plan.id
=============================================================================
