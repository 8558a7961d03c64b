--------------------------- MODULE RingRoundProofs ---------------------------
(***************************************************************************)
(* For every number of makers and every number of faults, a ring round     *)
(* implements AtomicRing, its transaction pays into existing channels      *)
(* only, and a cancelled round has no signature.                           *)
(*                                                                         *)
(* The inductive invariant has four parts: a participant that is ready or  *)
(* has signed holds both channels (ChanInv); what was sent and received so *)
(* far tells that everybody was ready (ReadyInv); the taker's progress     *)
(* tells that everybody signed (SignedInv); a cancellation and a signing   *)
(* authorization exclude each other (CancelInv).                           *)
(***************************************************************************)
EXTENDS RingRound, TLAPS

\* The ring as a set: all that is needed of positions.
LEMMA RingFacts ==
    /\ 0 \in Parties /\ 0 \notin Makers
    /\ Parties = Makers \cup {0}
    /\ \A p \in Parties : succ(p) \in Parties
    /\ N \in Makers
BY RingAssumption DEF Parties, Makers, succ

\* A participant that reached readiness keeps both channels and its attestation
\* until it retires unsigned; a signature is recorded before it is made.
ChanInv ==
    /\ \A p \in created :
          /\ st[p] \in {"signing", "signed", "broadcast", "confirmed_open",
                        "recovery_required"}
          /\ Endpoints(p) \subseteq pending
    /\ \A p \in Parties :
          /\ st[p] \in {"ready", "signing"} => Endpoints(p) \subseteq pending
          /\ st[p] \in {"signed", "broadcast", "confirmed_open"} => p \in created
    /\ \A m \in Makers : busy[m] = "sign" => m \in created
    /\ phase \in {"idle", "invite", "plan", "open", "unsigned", "ready_set", "sign",
                  "tx", "cancel", "retire"} => 0 \notin created
    /\ phase = "local_sign" => 0 \in created
    /\ phase \notin {"ended", "down"} => st[0] # "retired"

\* What shows that every participant reported readiness.
ReadyInv ==
    /\ \A m \in Makers : <<m, "ready">> \in replies => m \in observed
    /\ \A m \in Makers :
          "ready_set" \in inbox[m] \/ m \in readiness => observed = Parties
    /\ phase \in {"ready_set", "sign", "tx"} => observed = Parties

\* What shows that every participant signed.
SignedInv ==
    /\ \A m \in Makers : <<m, "sig">> \in replies => m \in created
    /\ phase \in {"local_sign", "assemble", "push"} => created = Parties
    /\ st[0] \in {"signed", "broadcast", "confirmed_open"} => created = Parties
    /\ tx # "absent" => created = Parties

\* Nobody was authorized to sign.
Unauthorized ==
    /\ created = {}
    /\ \A m \in Makers : {"sign", "tx"} \cap inbox[m] = {} /\ st[m] # "signing"

\* Nobody was sent a cancellation.
Uncancelled == \A m \in Makers : "cancel" \notin inbox[m]

CancelInv ==
    /\ phase \in {"idle", "invite", "plan", "open", "unsigned", "ready_set"}
          => Unauthorized /\ Uncancelled
    /\ phase \in {"sign", "tx", "local_sign", "assemble", "push"} => Uncancelled
    /\ phase \in {"cancel", "retire"} => Unauthorized
    /\ Uncancelled \/ Unauthorized

Inv == TypeOK /\ ChanInv /\ ReadyInv /\ SignedInv /\ CancelInv

\* The states the journals are moved to.
LEMMA StateFacts ==
    /\ {"invited", "planned", "acceptor_armed", "prepared_not_verified", "verifying",
        "psbt_verified", "ready", "signing", "signed", "broadcast", "confirmed_open",
        "retiring", "retired", "recovery_required"} \subseteq States
    /\ PreVerifiedStates \cap {"ready", "signing", "signed", "broadcast",
                                "confirmed_open", "recovery_required"} = {}
BY SMTT(60) DEF States, PreVerifiedStates

\* Every step keeps the types.
LEMMA TypeStep ==
    ASSUME TypeOK, [Next]_vars
    PROVE  TypeOK'
<1> USE RingFacts, StateFacts, RingAssumption
<1>1. CASE taker_invite
  BY <1>1 DEF taker_invite, TypeOK, Requests, Replies, Phases, Journal, Send, lnd
<1>2. CASE taker_plan
  BY <1>2 DEF taker_plan, TypeOK, Requests, Replies, Phases, Journal, Send, Received, lnd
<1>3. CASE taker_open
  BY <1>3 DEF taker_open, TypeOK, Requests, Replies, Phases, Journal, Send, Received
<1>4. CASE taker_unsigned
  BY <1>4 DEF taker_unsigned, TypeOK, Requests, Replies, Phases, Journal, Send, Received
<1>5. CASE _verify_local
  BY <1>5 DEF _verify_local, TypeOK, Requests, Replies, Phases, Journal, lnd
<1>6. CASE taker_ready_set
  BY <1>6 DEF taker_ready_set, TypeOK, Requests, Replies, Phases, Journal, Send, Received,
       lnd
<1>7. CASE taker_sign
  BY <1>7 DEF taker_sign, TypeOK, Requests, Replies, Phases, Send, Received, records, lnd
<1>8. CASE taker_tx
  BY <1>8 DEF taker_tx, TypeOK, Requests, Replies, Phases, Journal, Send, Received, lnd
<1>9. CASE mark_local_signature_creation
  BY <1>9 DEF mark_local_signature_creation, TypeOK, Requests, Replies, Phases, Received,
       lnd
<1>10. CASE mark_local_signatures
  BY <1>10 DEF mark_local_signatures, TypeOK, Requests, Replies, Phases, Journal, lnd
<1>11. CASE persist_final_transaction
  BY <1>11 DEF persist_final_transaction, TypeOK, Requests, Replies, Phases, Journal, lnd
<1>12. CASE phase_broadcast
  BY <1>12 DEF phase_broadcast, TypeOK, Requests, Replies, Phases, records, lnd
<1>13. CASE prepare_fails
  <2>1. inbox' \in [Makers -> SUBSET Requests]
    BY <1>13 DEF prepare_fails, TypeOK, Send, Requests
  <2>2. phase' \in Phases /\ armed' \subseteq Parties
    BY <1>13, ZenonT(60) DEF prepare_fails, TypeOK, Phases
  <2>3. faults' \in 0..MaxFaults
    BY <1>13 DEF prepare_fails, TypeOK, Fault
  <2> QED
    BY <1>13, <2>1, <2>2, <2>3 DEF prepare_fails, TypeOK, records
<1>14. CASE _retire_local
  <2>1. st' \in [Parties -> States \cup {"none"}]
    BY <1>14 DEF _retire_local, TypeOK, Journal
  <2>2. phase' \in Phases /\ shim' \subseteq Parties /\ opening' \subseteq Parties
    BY <1>14, ZenonT(60) DEF _retire_local, TypeOK, Phases
  <2>3. faults' \in 0..MaxFaults
    BY <1>14 DEF _retire_local, TypeOK, Fault
  <2> QED
    BY <1>14, <2>1, <2>2, <2>3 DEF _retire_local, TypeOK
<1>15. CASE _retire_local_end
  BY <1>15 DEF _retire_local_end, TypeOK, Requests, Replies, Phases, Endpoints, Journal,
       Fault
<1>16. CASE taker_crash
  BY <1>16 DEF taker_crash, TypeOK, Requests, Replies, Phases, Fault, records
<1>17. CASE reconcile_taker_ring_records
  <2>1. st' \in [Parties -> States \cup {"none"}]
    BY <1>17 DEF reconcile_taker_ring_records, TypeOK, Journal
  <2>2. faults' \in 0..MaxFaults
    BY <1>17 DEF reconcile_taker_ring_records, TypeOK, Fault
  <2>3. armed' \subseteq Parties /\ tx' \in {"absent", "mempool", "confirmed"}
    BY <1>17, ZenonT(60) DEF reconcile_taker_ring_records, TypeOK
  <2> QED
    BY <1>17, <2>1, <2>2, <2>3 DEF reconcile_taker_ring_records, TypeOK
<1>18. ASSUME NEW m \in Makers, _invite(m) PROVE TypeOK'
  BY <1>18 DEF _invite, TypeOK, Requests, Replies, Phases, Journal, Deliver, Reply, lnd
<1>19. ASSUME NEW m \in Makers, _plan(m) PROVE TypeOK'
  BY <1>19 DEF _plan, TypeOK, Requests, Replies, Phases, Journal, Deliver, Wait, lnd
<1>20. ASSUME NEW m \in Makers, _arm_acceptor(m) PROVE TypeOK'
  BY <1>20 DEF _arm_acceptor, TypeOK, Requests, Replies, Phases, Journal, Wait, Reply
<1>21. ASSUME NEW m \in Makers, _open(m) PROVE TypeOK'
  BY <1>21 DEF _open, TypeOK, Requests, Replies, Phases, Deliver, Wait, records
<1>22. ASSUME NEW m \in Makers, _open_prepared(m) PROVE TypeOK'
  BY <1>22 DEF _open_prepared, TypeOK, Requests, Replies, Phases, Journal, Wait, Reply, lnd
<1>23. ASSUME NEW m \in Makers, _unsigned(m) PROVE TypeOK'
  BY <1>23 DEF _unsigned, TypeOK, Requests, Replies, Phases, Journal, Deliver, Wait
<1>24. ASSUME NEW m \in Makers, _unsigned_verified(m) PROVE TypeOK'
  BY <1>24 DEF _unsigned_verified, TypeOK, Requests, Replies, Phases, Journal, Wait, lnd
<1>25. ASSUME NEW m \in Makers, _unsigned_ready(m) PROVE TypeOK'
  BY <1>25 DEF _unsigned_ready, TypeOK, Requests, Replies, Phases, Journal, Wait, Reply, lnd
<1>26. ASSUME NEW m \in Makers, _ready_set(m) PROVE TypeOK'
  BY <1>26 DEF _ready_set, TypeOK, Requests, Replies, Phases, Deliver, Reply, lnd
<1>27. ASSUME NEW m \in Makers, _sign(m) PROVE TypeOK'
  BY <1>27 DEF _sign, TypeOK, Requests, Replies, Phases, Journal, Deliver, Reply, lnd
<1>28. ASSUME NEW m \in Makers, on_tx(m) PROVE TypeOK'
  BY <1>28 DEF on_tx, TypeOK, Requests, Replies, Phases, Deliver, Wait, lnd
<1>29. ASSUME NEW m \in Makers, on_tx_signed(m) PROVE TypeOK'
  BY <1>29 DEF on_tx_signed, TypeOK, Requests, Replies, Phases, Journal, Wait, Reply, lnd
<1>30. ASSUME NEW m \in Makers, handler_fails(m) PROVE TypeOK'
  BY <1>30 DEF handler_fails, TypeOK, Requests, Replies, Phases, Fault, Wait, records, lnd
<1>31. ASSUME NEW m \in Makers, _cancel(m) PROVE TypeOK'
  <2>1. st' \in [Parties -> States \cup {"none"}]
    BY <1>31 DEF _cancel, TypeOK, Journal
  <2>2. inbox' \in [Makers -> SUBSET Requests]
    BY <1>31 DEF _cancel, TypeOK, Deliver
  <2>3. armed' \subseteq Parties /\ shim' \subseteq Parties /\ opening' \subseteq Parties
    BY <1>31, ZenonT(60) DEF _cancel, TypeOK
  <2> QED
    BY <1>31, <2>1, <2>2, <2>3 DEF _cancel, TypeOK
<1>32. ASSUME NEW m \in Makers, _retire_unsigned_record(m) PROVE TypeOK'
  BY <1>32 DEF _retire_unsigned_record, TypeOK, Requests, Replies, Phases, Endpoints,
       Journal, Fault
<1>33. ASSUME NEW m \in Makers, _expire_timed_out_session(m) PROVE TypeOK'
  BY <1>33 DEF _expire_timed_out_session, TypeOK, Requests, Replies, Phases, Fault, records,
       lnd
<1>34. ASSUME NEW m \in Makers, maker_crash(m) PROVE TypeOK'
  BY <1>34 DEF maker_crash, TypeOK, Requests, Replies, Phases, Fault, Wait, records
<1>35. ASSUME NEW m \in Makers, reconcile_ring_records(m) PROVE TypeOK'
  BY <1>35 DEF reconcile_ring_records, TypeOK, Requests, Replies, Phases, Journal, Fault,
       lnd
<1>36. ASSUME NEW m \in Makers, _handle_push(m) PROVE TypeOK'
  BY <1>36 DEF _handle_push, TypeOK, Requests, Replies, Phases, Journal, lnd
<1>37. ASSUME NEW p \in Parties, Negotiate(p) PROVE TypeOK'
  BY <1>37, ZenonT(60) DEF Negotiate, TypeOK, Requests, Replies, Phases, records
<1>38. ASSUME NEW p \in Parties, PsbtVerify(p) PROVE TypeOK'
  BY <1>38 DEF PsbtVerify, TypeOK, Requests, Replies, Phases, records
<1>39. ASSUME NEW p \in Parties, FundingCreated(p) PROVE TypeOK'
  BY <1>39 DEF FundingCreated, TypeOK, Requests, Replies, Phases, records
<1>40. ASSUME NEW p \in Parties, FundingSigned(p) PROVE TypeOK'
  BY <1>40 DEF FundingSigned, TypeOK, Requests, Replies, Phases, records
<1>41. CASE Confirm
  BY <1>41 DEF Confirm, TypeOK, Requests, Replies, Phases, records, lnd
<1>42. CASE UNCHANGED vars
  BY SMTT(60), <1>42 DEF vars, TypeOK, Requests, Replies, Phases, records, lnd
<1>43. CASE taker_prepared
  BY <1>43 DEF taker_prepared, TypeOK, Requests, Replies, Phases, Journal, Received, lnd
<1> QED
  BY SMTT(60), <1>1, <1>2, <1>3, <1>4, <1>5, <1>6, <1>7, <1>8, <1>9, <1>10,
     <1>11, <1>12, <1>13, <1>14, <1>15, <1>16, <1>17, <1>18, <1>19,
     <1>20, <1>21, <1>22, <1>23, <1>24, <1>25, <1>26, <1>27, <1>28,
     <1>29, <1>30, <1>31, <1>32, <1>33, <1>34, <1>35, <1>36, <1>37,
     <1>38, <1>39, <1>40, <1>41, <1>42,
     <1>43
  DEF Next, Taker, Maker, Lnd

\* Every step keeps the channels of the ready and the signed.
LEMMA ChanStep ==
    ASSUME TypeOK, ChanInv, [Next]_vars
    PROVE  ChanInv'
<1> USE RingFacts, StateFacts
<1>1. CASE taker_invite
  BY <1>1 DEF taker_invite, ChanInv, TypeOK, Endpoints, Journal, Send, lnd
<1>2. CASE taker_plan
  BY <1>2 DEF taker_plan, ChanInv, TypeOK, Endpoints, Journal, Send, Received, lnd
<1>3. CASE taker_open
  BY <1>3 DEF taker_open, ChanInv, TypeOK, Endpoints, Journal, Send, Received
<1>4. CASE taker_unsigned
  BY <1>4 DEF taker_unsigned, ChanInv, TypeOK, Endpoints, Journal, Send, Received
<1>5. CASE _verify_local
  BY <1>5 DEF _verify_local, ChanInv, TypeOK, Endpoints, Journal, lnd
<1>6. CASE taker_ready_set
  BY <1>6 DEF taker_ready_set, ChanInv, TypeOK, Endpoints, Journal, Send, Received, lnd
<1>7. CASE taker_sign
  BY <1>7 DEF taker_sign, ChanInv, TypeOK, Endpoints, Send, Received, records, lnd
<1>8. CASE taker_tx
  BY <1>8 DEF taker_tx, ChanInv, TypeOK, Endpoints, Journal, Send, Received, lnd
<1>9. CASE mark_local_signature_creation
  BY <1>9 DEF mark_local_signature_creation, ChanInv, TypeOK, Endpoints, Received, lnd
<1>10. CASE mark_local_signatures
  BY <1>10 DEF mark_local_signatures, ChanInv, TypeOK, Endpoints, Journal, lnd
<1>11. CASE persist_final_transaction
  BY <1>11 DEF persist_final_transaction, ChanInv, TypeOK, Endpoints, Journal, lnd
<1>12. CASE phase_broadcast
  BY <1>12 DEF phase_broadcast, ChanInv, TypeOK, Endpoints, records, lnd
<1>13. CASE prepare_fails
  BY <1>13 DEF prepare_fails, ChanInv, TypeOK, Endpoints, Fault, Send, records
<1>14. CASE _retire_local
  BY <1>14 DEF _retire_local, ChanInv, TypeOK, Endpoints, Journal
<1>15. CASE _retire_local_end
  BY <1>15 DEF _retire_local_end, ChanInv, TypeOK, Endpoints, Journal, Fault
<1>16. CASE taker_crash
  BY <1>16 DEF taker_crash, ChanInv, TypeOK, Endpoints, Fault, records
<1>17. CASE reconcile_taker_ring_records
  BY <1>17 DEF reconcile_taker_ring_records, ChanInv, TypeOK, Endpoints, Journal, lnd
<1>18. ASSUME NEW m \in Makers, _invite(m) PROVE ChanInv'
  BY <1>18 DEF _invite, ChanInv, TypeOK, Endpoints, Journal, Deliver, Reply, lnd
<1>19. ASSUME NEW m \in Makers, _plan(m) PROVE ChanInv'
  BY <1>19 DEF _plan, ChanInv, TypeOK, Endpoints, Journal, Deliver, Wait, lnd
<1>20. ASSUME NEW m \in Makers, _arm_acceptor(m) PROVE ChanInv'
  BY <1>20 DEF _arm_acceptor, ChanInv, TypeOK, Endpoints, Journal, Wait, Reply
<1>21. ASSUME NEW m \in Makers, _open(m) PROVE ChanInv'
  BY <1>21 DEF _open, ChanInv, TypeOK, Endpoints, Deliver, Wait, records
<1>22. ASSUME NEW m \in Makers, _open_prepared(m) PROVE ChanInv'
  BY <1>22 DEF _open_prepared, ChanInv, TypeOK, Endpoints, Journal, Wait, Reply, lnd
<1>23. ASSUME NEW m \in Makers, _unsigned(m) PROVE ChanInv'
  BY <1>23 DEF _unsigned, ChanInv, TypeOK, Endpoints, Journal, Deliver, Wait
<1>24. ASSUME NEW m \in Makers, _unsigned_verified(m) PROVE ChanInv'
  BY <1>24 DEF _unsigned_verified, ChanInv, TypeOK, Endpoints, Journal, Wait, lnd
<1>25. ASSUME NEW m \in Makers, _unsigned_ready(m) PROVE ChanInv'
  BY <1>25 DEF _unsigned_ready, ChanInv, TypeOK, Endpoints, Journal, Wait, Reply, lnd
<1>26. ASSUME NEW m \in Makers, _ready_set(m) PROVE ChanInv'
  BY <1>26 DEF _ready_set, ChanInv, TypeOK, Endpoints, Deliver, Reply, lnd
<1>27. ASSUME NEW m \in Makers, _sign(m) PROVE ChanInv'
  BY <1>27 DEF _sign, ChanInv, TypeOK, Endpoints, Journal, Deliver, Reply, lnd
<1>28. ASSUME NEW m \in Makers, on_tx(m) PROVE ChanInv'
  BY <1>28 DEF on_tx, ChanInv, TypeOK, Endpoints, Deliver, Wait, lnd
<1>29. ASSUME NEW m \in Makers, on_tx_signed(m) PROVE ChanInv'
  BY <1>29 DEF on_tx_signed, ChanInv, TypeOK, Endpoints, Journal, Wait, Reply, lnd
<1>30. ASSUME NEW m \in Makers, handler_fails(m) PROVE ChanInv'
  BY <1>30 DEF handler_fails, ChanInv, TypeOK, Endpoints, Fault, Wait, records, lnd
<1>31. ASSUME NEW m \in Makers, _cancel(m) PROVE ChanInv'
  BY <1>31 DEF _cancel, ChanInv, TypeOK, Endpoints, Journal, Deliver
<1>32. ASSUME NEW m \in Makers, _retire_unsigned_record(m) PROVE ChanInv'
  BY <1>32 DEF _retire_unsigned_record, ChanInv, TypeOK, Endpoints, Journal, Fault
<1>33. ASSUME NEW m \in Makers, _expire_timed_out_session(m) PROVE ChanInv'
  BY <1>33 DEF _expire_timed_out_session, ChanInv, TypeOK, Endpoints, Fault, records, lnd
<1>34. ASSUME NEW m \in Makers, maker_crash(m) PROVE ChanInv'
  BY <1>34 DEF maker_crash, ChanInv, TypeOK, Endpoints, Fault, Wait, records
<1>35. ASSUME NEW m \in Makers, reconcile_ring_records(m) PROVE ChanInv'
  BY <1>35 DEF reconcile_ring_records, ChanInv, TypeOK, Endpoints, Journal, Fault, lnd
<1>36. ASSUME NEW m \in Makers, _handle_push(m) PROVE ChanInv'
  BY <1>36 DEF _handle_push, ChanInv, TypeOK, Endpoints, Journal, lnd
<1>37. ASSUME NEW p \in Parties, Negotiate(p) PROVE ChanInv'
  BY <1>37 DEF Negotiate, ChanInv, TypeOK, Endpoints, records
<1>38. ASSUME NEW p \in Parties, PsbtVerify(p) PROVE ChanInv'
  BY <1>38 DEF PsbtVerify, ChanInv, TypeOK, Endpoints, records
<1>39. ASSUME NEW p \in Parties, FundingCreated(p) PROVE ChanInv'
  BY <1>39 DEF FundingCreated, ChanInv, TypeOK, Endpoints, records
<1>40. ASSUME NEW p \in Parties, FundingSigned(p) PROVE ChanInv'
  BY <1>40 DEF FundingSigned, ChanInv, TypeOK, Endpoints, records
<1>41. CASE Confirm
  BY <1>41 DEF Confirm, ChanInv, TypeOK, Endpoints, records, lnd
<1>42. CASE UNCHANGED vars
  BY SMTT(60), <1>42 DEF vars, ChanInv, TypeOK, Endpoints, records, lnd
<1>43. CASE taker_prepared
  BY <1>43 DEF taker_prepared, ChanInv, TypeOK, Endpoints, Journal, Received, lnd
<1> QED
  BY SMTT(60), <1>1, <1>2, <1>3, <1>4, <1>5, <1>6, <1>7, <1>8, <1>9, <1>10,
     <1>11, <1>12, <1>13, <1>14, <1>15, <1>16, <1>17, <1>18, <1>19,
     <1>20, <1>21, <1>22, <1>23, <1>24, <1>25, <1>26, <1>27, <1>28,
     <1>29, <1>30, <1>31, <1>32, <1>33, <1>34, <1>35, <1>36, <1>37,
     <1>38, <1>39, <1>40, <1>41, <1>42,
     <1>43
  DEF Next, Taker, Maker, Lnd

\* Every step keeps what shows that everybody was ready.
LEMMA ReadyStep ==
    ASSUME TypeOK, ReadyInv, [Next]_vars
    PROVE  ReadyInv'
<1> USE RingFacts
<1>1. CASE taker_invite
  BY <1>1 DEF taker_invite, ReadyInv, TypeOK, Journal, Send, lnd
<1>2. CASE taker_plan
  BY <1>2 DEF taker_plan, ReadyInv, TypeOK, Journal, Send, Received, lnd
<1>3. CASE taker_open
  BY <1>3 DEF taker_open, ReadyInv, TypeOK, Journal, Send, Received
<1>4. CASE taker_unsigned
  BY <1>4 DEF taker_unsigned, ReadyInv, TypeOK, Journal, Send, Received
<1>5. CASE _verify_local
  BY <1>5 DEF _verify_local, ReadyInv, TypeOK, Journal, lnd
<1>6. CASE taker_ready_set
  BY <1>6, ZenonT(60) DEF taker_ready_set, ReadyInv, TypeOK, Journal, Send, Received, lnd
<1>7. CASE taker_sign
  BY <1>7 DEF taker_sign, ReadyInv, TypeOK, Send, Received, records, lnd
<1>8. CASE taker_tx
  BY <1>8 DEF taker_tx, ReadyInv, TypeOK, Journal, Send, Received, lnd
<1>9. CASE mark_local_signature_creation
  BY <1>9 DEF mark_local_signature_creation, ReadyInv, TypeOK, Received, lnd
<1>10. CASE mark_local_signatures
  BY <1>10 DEF mark_local_signatures, ReadyInv, TypeOK, Journal, lnd
<1>11. CASE persist_final_transaction
  BY <1>11 DEF persist_final_transaction, ReadyInv, TypeOK, Journal, lnd
<1>12. CASE phase_broadcast
  BY <1>12 DEF phase_broadcast, ReadyInv, TypeOK, records, lnd
<1>13. CASE prepare_fails
  BY <1>13 DEF prepare_fails, ReadyInv, TypeOK, Fault, Send, records
<1>14. CASE _retire_local
  BY <1>14 DEF _retire_local, ReadyInv, TypeOK, Journal
<1>15. CASE _retire_local_end
  BY <1>15 DEF _retire_local_end, ReadyInv, TypeOK, Journal, Fault
<1>16. CASE taker_crash
  BY <1>16 DEF taker_crash, ReadyInv, TypeOK, Fault, records
<1>17. CASE reconcile_taker_ring_records
  BY <1>17 DEF reconcile_taker_ring_records, ReadyInv, TypeOK, Journal, lnd
<1>18. ASSUME NEW m \in Makers, _invite(m) PROVE ReadyInv'
  BY <1>18 DEF _invite, ReadyInv, TypeOK, Journal, Deliver, Reply, lnd
<1>19. ASSUME NEW m \in Makers, _plan(m) PROVE ReadyInv'
  BY <1>19 DEF _plan, ReadyInv, TypeOK, Journal, Deliver, Wait, lnd
<1>20. ASSUME NEW m \in Makers, _arm_acceptor(m) PROVE ReadyInv'
  BY <1>20 DEF _arm_acceptor, ReadyInv, TypeOK, Journal, Wait, Reply
<1>21. ASSUME NEW m \in Makers, _open(m) PROVE ReadyInv'
  BY <1>21 DEF _open, ReadyInv, TypeOK, Deliver, Wait, records
<1>22. ASSUME NEW m \in Makers, _open_prepared(m) PROVE ReadyInv'
  BY <1>22 DEF _open_prepared, ReadyInv, TypeOK, Journal, Wait, Reply, lnd
<1>23. ASSUME NEW m \in Makers, _unsigned(m) PROVE ReadyInv'
  BY <1>23 DEF _unsigned, ReadyInv, TypeOK, Journal, Deliver, Wait
<1>24. ASSUME NEW m \in Makers, _unsigned_verified(m) PROVE ReadyInv'
  BY <1>24 DEF _unsigned_verified, ReadyInv, TypeOK, Journal, Wait, lnd
<1>25. ASSUME NEW m \in Makers, _unsigned_ready(m) PROVE ReadyInv'
  BY <1>25 DEF _unsigned_ready, ReadyInv, TypeOK, Journal, Wait, Reply, lnd
<1>26. ASSUME NEW m \in Makers, _ready_set(m) PROVE ReadyInv'
  BY <1>26 DEF _ready_set, ReadyInv, TypeOK, Deliver, Reply, lnd
<1>27. ASSUME NEW m \in Makers, _sign(m) PROVE ReadyInv'
  BY <1>27 DEF _sign, ReadyInv, TypeOK, Journal, Deliver, Reply, lnd
<1>28. ASSUME NEW m \in Makers, on_tx(m) PROVE ReadyInv'
  BY <1>28 DEF on_tx, ReadyInv, TypeOK, Deliver, Wait, lnd
<1>29. ASSUME NEW m \in Makers, on_tx_signed(m) PROVE ReadyInv'
  BY <1>29 DEF on_tx_signed, ReadyInv, TypeOK, Journal, Wait, Reply, lnd
<1>30. ASSUME NEW m \in Makers, handler_fails(m) PROVE ReadyInv'
  BY <1>30 DEF handler_fails, ReadyInv, TypeOK, Fault, Wait, records, lnd
<1>31. ASSUME NEW m \in Makers, _cancel(m) PROVE ReadyInv'
  BY <1>31 DEF _cancel, ReadyInv, TypeOK, Journal, Deliver
<1>32. ASSUME NEW m \in Makers, _retire_unsigned_record(m) PROVE ReadyInv'
  BY <1>32 DEF _retire_unsigned_record, ReadyInv, TypeOK, Journal, Fault
<1>33. ASSUME NEW m \in Makers, _expire_timed_out_session(m) PROVE ReadyInv'
  BY <1>33 DEF _expire_timed_out_session, ReadyInv, TypeOK, Fault, records, lnd
<1>34. ASSUME NEW m \in Makers, maker_crash(m) PROVE ReadyInv'
  BY <1>34 DEF maker_crash, ReadyInv, TypeOK, Fault, Wait, records
<1>35. ASSUME NEW m \in Makers, reconcile_ring_records(m) PROVE ReadyInv'
  BY <1>35 DEF reconcile_ring_records, ReadyInv, TypeOK, Journal, Fault, lnd
<1>36. ASSUME NEW m \in Makers, _handle_push(m) PROVE ReadyInv'
  BY <1>36 DEF _handle_push, ReadyInv, TypeOK, Journal, lnd
<1>37. ASSUME NEW p \in Parties, Negotiate(p) PROVE ReadyInv'
  BY <1>37 DEF Negotiate, ReadyInv, TypeOK, records
<1>38. ASSUME NEW p \in Parties, PsbtVerify(p) PROVE ReadyInv'
  BY <1>38 DEF PsbtVerify, ReadyInv, TypeOK, records
<1>39. ASSUME NEW p \in Parties, FundingCreated(p) PROVE ReadyInv'
  BY <1>39 DEF FundingCreated, ReadyInv, TypeOK, records
<1>40. ASSUME NEW p \in Parties, FundingSigned(p) PROVE ReadyInv'
  BY <1>40 DEF FundingSigned, ReadyInv, TypeOK, records
<1>41. CASE Confirm
  BY SMTT(60), <1>41 DEF Confirm, ReadyInv, TypeOK, records, lnd
<1>42. CASE UNCHANGED vars
  BY <1>42, SMTT(40) DEF vars, ReadyInv, TypeOK, records, lnd
<1>43. CASE taker_prepared
  BY <1>43 DEF taker_prepared, ReadyInv, TypeOK, Journal, Received, lnd
<1> QED
  BY SMTT(60), <1>1, <1>2, <1>3, <1>4, <1>5, <1>6, <1>7, <1>8, <1>9, <1>10,
     <1>11, <1>12, <1>13, <1>14, <1>15, <1>16, <1>17, <1>18, <1>19,
     <1>20, <1>21, <1>22, <1>23, <1>24, <1>25, <1>26, <1>27, <1>28,
     <1>29, <1>30, <1>31, <1>32, <1>33, <1>34, <1>35, <1>36, <1>37,
     <1>38, <1>39, <1>40, <1>41, <1>42,
     <1>43
  DEF Next, Taker, Maker, Lnd

\* Every step keeps what shows that everybody signed.
LEMMA SignedStep ==
    ASSUME TypeOK, ChanInv, SignedInv, [Next]_vars
    PROVE  SignedInv'
<1> USE RingFacts, StateFacts
<1>1. CASE taker_invite
  BY <1>1 DEF taker_invite, SignedInv, ChanInv, TypeOK, Journal, Send, lnd
<1>2. CASE taker_plan
  BY SMTT(60), <1>2 DEF taker_plan, SignedInv, ChanInv, TypeOK, Journal, Send, Received, lnd
<1>3. CASE taker_open
  BY <1>3 DEF taker_open, SignedInv, ChanInv, TypeOK, Journal, Send, Received
<1>4. CASE taker_unsigned
  BY <1>4 DEF taker_unsigned, SignedInv, ChanInv, TypeOK, Journal, Send, Received
<1>5. CASE _verify_local
  BY SMTT(60), <1>5 DEF _verify_local, SignedInv, ChanInv, TypeOK, Journal, lnd
<1>6. CASE taker_ready_set
  BY <1>6 DEF taker_ready_set, SignedInv, ChanInv, TypeOK, Journal, Send, Received, lnd
<1>7. CASE taker_sign
  BY <1>7 DEF taker_sign, SignedInv, ChanInv, TypeOK, Send, Received, records, lnd
<1>8. CASE taker_tx
  BY <1>8 DEF taker_tx, SignedInv, ChanInv, TypeOK, Journal, Send, Received, lnd
<1>9. CASE mark_local_signature_creation
  BY <1>9, ZenonT(60) DEF mark_local_signature_creation, SignedInv, ChanInv, TypeOK, Received, lnd
<1>10. CASE mark_local_signatures
  BY <1>10 DEF mark_local_signatures, SignedInv, ChanInv, TypeOK, Journal, lnd
<1>11. CASE persist_final_transaction
  BY <1>11 DEF persist_final_transaction, SignedInv, ChanInv, TypeOK, Journal, lnd
<1>12. CASE phase_broadcast
  BY SMTT(60), <1>12 DEF phase_broadcast, SignedInv, ChanInv, TypeOK, records, lnd
<1>13. CASE prepare_fails
  BY SMTT(60), <1>13 DEF prepare_fails, SignedInv, ChanInv, TypeOK, Fault, Send, records
<1>14. CASE _retire_local
  BY SMTT(60), <1>14 DEF _retire_local, SignedInv, ChanInv, TypeOK, Journal
<1>15. CASE _retire_local_end
  BY SMTT(60), <1>15 DEF _retire_local_end, SignedInv, ChanInv, TypeOK, Journal, Fault
<1>16. CASE taker_crash
  BY SMTT(60), <1>16 DEF taker_crash, SignedInv, ChanInv, TypeOK, Fault, records
<1>17. CASE reconcile_taker_ring_records
  BY SMTT(60), <1>17 DEF reconcile_taker_ring_records, SignedInv, ChanInv, TypeOK, Journal, lnd
<1>18. ASSUME NEW m \in Makers, _invite(m) PROVE SignedInv'
  BY SMTT(60), <1>18 DEF _invite, SignedInv, ChanInv, TypeOK, Journal, Deliver, Reply, lnd
<1>19. ASSUME NEW m \in Makers, _plan(m) PROVE SignedInv'
  BY SMTT(60), <1>19 DEF _plan, SignedInv, ChanInv, TypeOK, Journal, Deliver, Wait, lnd
<1>20. ASSUME NEW m \in Makers, _arm_acceptor(m) PROVE SignedInv'
  BY <1>20 DEF _arm_acceptor, SignedInv, ChanInv, TypeOK, Journal, Wait, Reply
<1>21. ASSUME NEW m \in Makers, _open(m) PROVE SignedInv'
  BY SMTT(60), <1>21 DEF _open, SignedInv, ChanInv, TypeOK, Deliver, Wait, records
<1>22. ASSUME NEW m \in Makers, _open_prepared(m) PROVE SignedInv'
  BY SMTT(60), <1>22 DEF _open_prepared, SignedInv, ChanInv, TypeOK, Journal, Wait, Reply, lnd
<1>23. ASSUME NEW m \in Makers, _unsigned(m) PROVE SignedInv'
  BY SMTT(60), <1>23 DEF _unsigned, SignedInv, ChanInv, TypeOK, Journal, Deliver, Wait
<1>24. ASSUME NEW m \in Makers, _unsigned_verified(m) PROVE SignedInv'
  BY SMTT(60), <1>24 DEF _unsigned_verified, SignedInv, ChanInv, TypeOK, Journal, Wait, lnd
<1>25. ASSUME NEW m \in Makers, _unsigned_ready(m) PROVE SignedInv'
  BY SMTT(60), <1>25 DEF _unsigned_ready, SignedInv, ChanInv, TypeOK, Journal, Wait, Reply, lnd
<1>26. ASSUME NEW m \in Makers, _ready_set(m) PROVE SignedInv'
  BY SMTT(60), <1>26 DEF _ready_set, SignedInv, ChanInv, TypeOK, Deliver, Reply, lnd
<1>27. ASSUME NEW m \in Makers, _sign(m) PROVE SignedInv'
  BY SMTT(60), <1>27 DEF _sign, SignedInv, ChanInv, TypeOK, Journal, Deliver, Reply, lnd
<1>28. ASSUME NEW m \in Makers, on_tx(m) PROVE SignedInv'
  BY SMTT(60), <1>28 DEF on_tx, SignedInv, ChanInv, TypeOK, Deliver, Wait, lnd
<1>29. ASSUME NEW m \in Makers, on_tx_signed(m) PROVE SignedInv'
  BY SMTT(60), <1>29 DEF on_tx_signed, SignedInv, ChanInv, TypeOK, Journal, Wait, Reply, lnd
<1>30. ASSUME NEW m \in Makers, handler_fails(m) PROVE SignedInv'
  BY SMTT(60), <1>30 DEF handler_fails, SignedInv, ChanInv, TypeOK, Fault, Wait, records, lnd
<1>31. ASSUME NEW m \in Makers, _cancel(m) PROVE SignedInv'
  BY SMTT(60), <1>31 DEF _cancel, SignedInv, ChanInv, TypeOK, Journal, Deliver
<1>32. ASSUME NEW m \in Makers, _retire_unsigned_record(m) PROVE SignedInv'
  BY SMTT(60), <1>32 DEF _retire_unsigned_record, SignedInv, ChanInv, TypeOK, Journal, Fault
<1>33. ASSUME NEW m \in Makers, _expire_timed_out_session(m) PROVE SignedInv'
  BY SMTT(60), <1>33 DEF _expire_timed_out_session, SignedInv, ChanInv, TypeOK, Fault, records, lnd
<1>34. ASSUME NEW m \in Makers, maker_crash(m) PROVE SignedInv'
  BY SMTT(60), <1>34 DEF maker_crash, SignedInv, ChanInv, TypeOK, Fault, Wait, records
<1>35. ASSUME NEW m \in Makers, reconcile_ring_records(m) PROVE SignedInv'
  BY SMTT(60), <1>35 DEF reconcile_ring_records, SignedInv, ChanInv, TypeOK, Journal, Fault, lnd
<1>36. ASSUME NEW m \in Makers, _handle_push(m) PROVE SignedInv'
  BY SMTT(60), <1>36 DEF _handle_push, SignedInv, ChanInv, TypeOK, Journal, lnd
<1>37. ASSUME NEW p \in Parties, Negotiate(p) PROVE SignedInv'
  BY SMTT(60), <1>37 DEF Negotiate, SignedInv, ChanInv, TypeOK, records
<1>38. ASSUME NEW p \in Parties, PsbtVerify(p) PROVE SignedInv'
  BY SMTT(60), <1>38 DEF PsbtVerify, SignedInv, ChanInv, TypeOK, records
<1>39. ASSUME NEW p \in Parties, FundingCreated(p) PROVE SignedInv'
  BY SMTT(60), <1>39 DEF FundingCreated, SignedInv, ChanInv, TypeOK, records
<1>40. ASSUME NEW p \in Parties, FundingSigned(p) PROVE SignedInv'
  BY SMTT(60), <1>40 DEF FundingSigned, SignedInv, ChanInv, TypeOK, records
<1>41. CASE Confirm
  BY SMTT(60), <1>41 DEF Confirm, SignedInv, ChanInv, TypeOK, records, lnd
<1>42. CASE UNCHANGED vars
  BY <1>42, SMTT(40) DEF vars, SignedInv, ChanInv, TypeOK, records, lnd
<1>43. CASE taker_prepared
  BY <1>43 DEF taker_prepared, SignedInv, ChanInv, TypeOK, Journal, Received, lnd
<1> QED
  BY SMTT(40), <1>1, <1>2, <1>3, <1>4, <1>5, <1>6, <1>7, <1>8, <1>9, <1>10,
     <1>11, <1>12, <1>13, <1>14, <1>15, <1>16, <1>17, <1>18, <1>19,
     <1>20, <1>21, <1>22, <1>23, <1>24, <1>25, <1>26, <1>27, <1>28,
     <1>29, <1>30, <1>31, <1>32, <1>33, <1>34, <1>35, <1>36, <1>37,
     <1>38, <1>39, <1>40, <1>41, <1>42,
     <1>43
  DEF Next, Taker, Maker, Lnd

\* Every step keeps cancellation and authorization apart.
LEMMA CancelStep ==
    ASSUME TypeOK, CancelInv, [Next]_vars
    PROVE  CancelInv'
<1> USE RingFacts
<1>1. CASE taker_invite
  BY <1>1 DEF taker_invite, CancelInv, Unauthorized, Uncancelled, TypeOK, Journal, Send, lnd
<1>2. CASE taker_plan
  BY <1>2 DEF taker_plan, CancelInv, Unauthorized, Uncancelled, TypeOK, Journal, Send,
       Received, lnd
<1>3. CASE taker_open
  BY SMTT(60), <1>3 DEF taker_open, CancelInv, Unauthorized, Uncancelled, TypeOK, Journal, Send,
       Received
<1>4. CASE taker_unsigned
  BY <1>4 DEF taker_unsigned, CancelInv, Unauthorized, Uncancelled, TypeOK, Journal, Send,
       Received
<1>5. CASE _verify_local
  BY <1>5 DEF _verify_local, CancelInv, Unauthorized, Uncancelled, TypeOK, Journal, lnd
<1>6. CASE taker_ready_set
  BY <1>6 DEF taker_ready_set, CancelInv, Unauthorized, Uncancelled, TypeOK, Journal, Send,
       Received, lnd
<1>7. CASE taker_sign
  BY <1>7 DEF taker_sign, CancelInv, Unauthorized, Uncancelled, TypeOK, Send, Received,
       records, lnd
<1>8. CASE taker_tx
  BY <1>8 DEF taker_tx, CancelInv, Unauthorized, Uncancelled, TypeOK, Journal, Send,
       Received, lnd
<1>9. CASE mark_local_signature_creation
  BY <1>9 DEF mark_local_signature_creation, CancelInv, Unauthorized, Uncancelled, TypeOK,
       Received, lnd
<1>10. CASE mark_local_signatures
  BY <1>10 DEF mark_local_signatures, CancelInv, Unauthorized, Uncancelled, TypeOK, Journal,
       lnd
<1>11. CASE persist_final_transaction
  BY <1>11 DEF persist_final_transaction, CancelInv, Unauthorized, Uncancelled, TypeOK,
       Journal, lnd
<1>12. CASE phase_broadcast
  BY <1>12 DEF phase_broadcast, CancelInv, Unauthorized, Uncancelled, TypeOK, records, lnd
<1>13. CASE prepare_fails
  BY SMTT(60), <1>13 DEF prepare_fails, CancelInv, Unauthorized, Uncancelled, TypeOK, Fault, Send,
       records
<1>14. CASE _retire_local
  BY <1>14 DEF _retire_local, CancelInv, Unauthorized, Uncancelled, TypeOK, Journal
<1>15. CASE _retire_local_end
  BY <1>15 DEF _retire_local_end, CancelInv, Unauthorized, Uncancelled, TypeOK, Journal,
       Fault
<1>16. CASE taker_crash
  BY SMTT(60), <1>16 DEF taker_crash, CancelInv, Unauthorized, Uncancelled, TypeOK, Fault, records
<1>17. CASE reconcile_taker_ring_records
  BY SMTT(60), <1>17 DEF reconcile_taker_ring_records, CancelInv, Unauthorized, Uncancelled, TypeOK,
       Journal, lnd
<1>18. ASSUME NEW m \in Makers, _invite(m) PROVE CancelInv'
  BY SMTT(60), <1>18 DEF _invite, CancelInv, Unauthorized, Uncancelled, TypeOK, Journal, Deliver,
       Reply, lnd
<1>19. ASSUME NEW m \in Makers, _plan(m) PROVE CancelInv'
  BY SMTT(60), <1>19 DEF _plan, CancelInv, Unauthorized, Uncancelled, TypeOK, Journal, Deliver, Wait,
       lnd
<1>20. ASSUME NEW m \in Makers, _arm_acceptor(m) PROVE CancelInv'
  BY SMTT(60), <1>20 DEF _arm_acceptor, CancelInv, Unauthorized, Uncancelled, TypeOK, Journal, Wait,
       Reply
<1>21. ASSUME NEW m \in Makers, _open(m) PROVE CancelInv'
  BY SMTT(60), <1>21 DEF _open, CancelInv, Unauthorized, Uncancelled, TypeOK, Deliver, Wait, records
<1>22. ASSUME NEW m \in Makers, _open_prepared(m) PROVE CancelInv'
  BY SMTT(60), <1>22 DEF _open_prepared, CancelInv, Unauthorized, Uncancelled, TypeOK, Journal, Wait,
       Reply, lnd
<1>23. ASSUME NEW m \in Makers, _unsigned(m) PROVE CancelInv'
  BY SMTT(60), <1>23 DEF _unsigned, CancelInv, Unauthorized, Uncancelled, TypeOK, Journal, Deliver,
       Wait
<1>24. ASSUME NEW m \in Makers, _unsigned_verified(m) PROVE CancelInv'
  BY SMTT(60), <1>24 DEF _unsigned_verified, CancelInv, Unauthorized, Uncancelled, TypeOK, Journal,
       Wait, lnd
<1>25. ASSUME NEW m \in Makers, _unsigned_ready(m) PROVE CancelInv'
  BY SMTT(60), <1>25 DEF _unsigned_ready, CancelInv, Unauthorized, Uncancelled, TypeOK, Journal, Wait,
       Reply, lnd
<1>26. ASSUME NEW m \in Makers, _ready_set(m) PROVE CancelInv'
  BY SMTT(60), <1>26 DEF _ready_set, CancelInv, Unauthorized, Uncancelled, TypeOK, Deliver, Reply, lnd
<1>27. ASSUME NEW m \in Makers, _sign(m) PROVE CancelInv'
  BY SMTT(60), <1>27 DEF _sign, CancelInv, Unauthorized, Uncancelled, TypeOK, Journal, Deliver, Reply,
       lnd
<1>28. ASSUME NEW m \in Makers, on_tx(m) PROVE CancelInv'
  BY SMTT(60), <1>28 DEF on_tx, CancelInv, Unauthorized, Uncancelled, TypeOK, Deliver, Wait, lnd
<1>29. ASSUME NEW m \in Makers, on_tx_signed(m) PROVE CancelInv'
  BY SMTT(60), <1>29 DEF on_tx_signed, CancelInv, Unauthorized, Uncancelled, TypeOK, Journal, Wait,
       Reply, lnd
<1>30. ASSUME NEW m \in Makers, handler_fails(m) PROVE CancelInv'
  BY SMTT(60), <1>30 DEF handler_fails, CancelInv, Unauthorized, Uncancelled, TypeOK, Fault, Wait,
       records, lnd
<1>31. ASSUME NEW m \in Makers, _cancel(m) PROVE CancelInv'
  BY SMTT(60), <1>31 DEF _cancel, CancelInv, Unauthorized, Uncancelled, TypeOK, Journal, Deliver
<1>32. ASSUME NEW m \in Makers, _retire_unsigned_record(m) PROVE CancelInv'
  BY SMTT(60), <1>32 DEF _retire_unsigned_record, CancelInv, Unauthorized, Uncancelled, TypeOK,
       Journal, Fault
<1>33. ASSUME NEW m \in Makers, _expire_timed_out_session(m) PROVE CancelInv'
  BY SMTT(60), <1>33 DEF _expire_timed_out_session, CancelInv, Unauthorized, Uncancelled, TypeOK,
       Fault, records, lnd
<1>34. ASSUME NEW m \in Makers, maker_crash(m) PROVE CancelInv'
  BY SMTT(60), <1>34 DEF maker_crash, CancelInv, Unauthorized, Uncancelled, TypeOK, Fault, Wait,
       records
<1>35. ASSUME NEW m \in Makers, reconcile_ring_records(m) PROVE CancelInv'
  BY SMTT(60), <1>35 DEF reconcile_ring_records, CancelInv, Unauthorized, Uncancelled, TypeOK,
       Journal, Fault, lnd
<1>36. ASSUME NEW m \in Makers, _handle_push(m) PROVE CancelInv'
  BY SMTT(60), <1>36 DEF _handle_push, CancelInv, Unauthorized, Uncancelled, TypeOK, Journal, lnd
<1>37. ASSUME NEW p \in Parties, Negotiate(p) PROVE CancelInv'
  BY SMTT(60), <1>37 DEF Negotiate, CancelInv, Unauthorized, Uncancelled, TypeOK, records
<1>38. ASSUME NEW p \in Parties, PsbtVerify(p) PROVE CancelInv'
  BY SMTT(60), <1>38 DEF PsbtVerify, CancelInv, Unauthorized, Uncancelled, TypeOK, records
<1>39. ASSUME NEW p \in Parties, FundingCreated(p) PROVE CancelInv'
  BY SMTT(60), <1>39 DEF FundingCreated, CancelInv, Unauthorized, Uncancelled, TypeOK, records
<1>40. ASSUME NEW p \in Parties, FundingSigned(p) PROVE CancelInv'
  BY SMTT(60), <1>40 DEF FundingSigned, CancelInv, Unauthorized, Uncancelled, TypeOK, records
<1>41. CASE Confirm
  BY SMTT(60), <1>41 DEF Confirm, CancelInv, Unauthorized, Uncancelled, TypeOK, records, lnd
<1>42. CASE UNCHANGED vars
  BY <1>42, SMTT(40) DEF vars, CancelInv, Unauthorized, Uncancelled, TypeOK, records, lnd
<1>43. CASE taker_prepared
  BY <1>43 DEF taker_prepared, CancelInv, Unauthorized, Uncancelled, TypeOK, Journal,
       Received, lnd
<1> QED
  BY SMTT(60), <1>1, <1>2, <1>3, <1>4, <1>5, <1>6, <1>7, <1>8, <1>9, <1>10,
     <1>11, <1>12, <1>13, <1>14, <1>15, <1>16, <1>17, <1>18, <1>19,
     <1>20, <1>21, <1>22, <1>23, <1>24, <1>25, <1>26, <1>27, <1>28,
     <1>29, <1>30, <1>31, <1>32, <1>33, <1>34, <1>35, <1>36, <1>37,
     <1>38, <1>39, <1>40, <1>41, <1>42,
     <1>43
  DEF Next, Taker, Maker, Lnd

\* Every step of a round is a step of AtomicRing or changes nothing it speaks of.
LEMMA RefineStep ==
    ASSUME Inv, [Next]_vars
    PROVE  [Atomic!Next]_(Atomic!vars)
<1> USE RingFacts, StateFacts
<1> DEFINE Same == /\ UNCHANGED <<observed, created, tx>>
                   /\ \A p \in Parties : (st'[p] = "retired") = (st[p] = "retired")
<1>a. st \in [Parties -> States \cup {"none"}]
  BY DEF Inv, TypeOK
<1>b. Same => [Atomic!Next]_(Atomic!vars)
  BY DEF Atomic!vars
<1>c. phase \in {"idle", "invite", "plan", "open", "sign"} => st[0] # "retired"
  BY SMTT(60) DEF Inv, TypeOK, ChanInv, ReadyInv, SignedInv
<1> HIDE DEF Same
<1>1. CASE taker_invite
  BY Zenon, <1>1, <1>a, <1>b, <1>c DEF taker_invite, Journal, Send, lnd, Same
<1>2. CASE taker_plan
  BY <1>2, <1>a, <1>b, <1>c DEF taker_plan, Journal, Send, Received, lnd, Same
<1>3. CASE taker_open
  BY <1>3, <1>a, <1>b, <1>c DEF taker_open, Journal, Send, Received, Same
<1>4. CASE taker_unsigned
  BY <1>4, <1>a, <1>b, <1>c DEF taker_unsigned, Journal, Send, Received, Same
<1>5. CASE _verify_local
  BY SMTT(60), <1>5, <1>a, <1>b DEF _verify_local, Journal, lnd, Same
<1>6. CASE taker_ready_set
  BY SMTT(60), <1>6 DEF taker_ready_set, Inv, ChanInv, ReadyInv, SignedInv, TypeOK, Atomic!Next,
       Atomic!vars, Atomic!Prepare, Atomic!Sign, Atomic!Retire, Atomic!Fund, Journal, Send,
       Received, lnd
<1>7. CASE taker_sign
  BY ZenonT(60), <1>7, <1>a, <1>b DEF taker_sign, Send, Received, records, lnd, Same
<1>8. CASE taker_tx
  BY ZenonT(60), <1>8, <1>a, <1>b, <1>c DEF taker_tx, Journal, Send, Received, lnd, Same
<1>9. CASE mark_local_signature_creation
  BY <1>9 DEF mark_local_signature_creation, Inv, ChanInv, ReadyInv, SignedInv, TypeOK,
       Atomic!Next, Atomic!vars, Atomic!Prepare, Atomic!Sign, Atomic!Retire, Atomic!Fund,
       Received, lnd
<1>10. CASE mark_local_signatures
  BY <1>10, <1>a, <1>b DEF mark_local_signatures, Journal, lnd, Same
<1>11. CASE persist_final_transaction
  BY SMTT(60), <1>11, <1>a, <1>b DEF persist_final_transaction, Journal, lnd, Same
<1>12. CASE phase_broadcast
  BY <1>12 DEF phase_broadcast, Inv, ChanInv, ReadyInv, SignedInv, TypeOK, Atomic!Next,
       Atomic!vars, Atomic!Prepare, Atomic!Sign, Atomic!Retire, Atomic!Fund, records, lnd
<1>13. CASE prepare_fails
  BY SMTT(60), <1>13, <1>a, <1>b DEF prepare_fails, Fault, Send, records, Same
<1>14. CASE _retire_local
  BY SMTT(60), <1>14 DEF _retire_local, Inv, ChanInv, ReadyInv, SignedInv, TypeOK, Atomic!Next,
       Atomic!vars, Atomic!Prepare, Atomic!Sign, Atomic!Retire, Atomic!Fund, Journal
<1>15. CASE _retire_local_end
  BY <1>15 DEF _retire_local_end, Inv, ChanInv, ReadyInv, SignedInv, TypeOK, Atomic!Next,
       Atomic!vars, Atomic!Prepare, Atomic!Sign, Atomic!Retire, Atomic!Fund, Journal, Fault
<1>16. CASE taker_crash
  BY SMTT(60), <1>16, <1>a, <1>b DEF taker_crash, Fault, records, Same
<1>17. CASE reconcile_taker_ring_records
  BY <1>17, SMTT(40) DEF reconcile_taker_ring_records, Inv, ChanInv, ReadyInv, SignedInv, TypeOK,
       Atomic!Next, Atomic!vars, Atomic!Prepare, Atomic!Sign, Atomic!Retire, Atomic!Fund,
       Journal, lnd
<1>18. ASSUME NEW m \in Makers, _invite(m) PROVE [Atomic!Next]_(Atomic!vars)
  BY SMTT(60), <1>18, <1>a, <1>b DEF _invite, Journal, Deliver, Reply, lnd, Same
<1>19. ASSUME NEW m \in Makers, _plan(m) PROVE [Atomic!Next]_(Atomic!vars)
  BY <1>19, <1>a, <1>b DEF _plan, Journal, Deliver, Wait, lnd, Same
<1>20. ASSUME NEW m \in Makers, _arm_acceptor(m) PROVE [Atomic!Next]_(Atomic!vars)
  BY SMTT(60), <1>20, <1>a, <1>b DEF _arm_acceptor, Journal, Wait, Reply, Same
<1>21. ASSUME NEW m \in Makers, _open(m) PROVE [Atomic!Next]_(Atomic!vars)
  BY <1>21, <1>a, <1>b DEF _open, Deliver, Wait, records, Same
<1>22. ASSUME NEW m \in Makers, _open_prepared(m) PROVE [Atomic!Next]_(Atomic!vars)
  BY SMTT(60), <1>22, <1>a, <1>b DEF _open_prepared, Journal, Wait, Reply, lnd, Same
<1>23. ASSUME NEW m \in Makers, _unsigned(m) PROVE [Atomic!Next]_(Atomic!vars)
  BY <1>23, <1>a, <1>b DEF _unsigned, Journal, Deliver, Wait, Same
<1>24. ASSUME NEW m \in Makers, _unsigned_verified(m) PROVE [Atomic!Next]_(Atomic!vars)
  BY SMTT(60), <1>24, <1>a, <1>b DEF _unsigned_verified, Journal, Wait, lnd, Same
<1>25. ASSUME NEW m \in Makers, _unsigned_ready(m) PROVE [Atomic!Next]_(Atomic!vars)
  BY <1>25, SMTT(40) DEF _unsigned_ready, Inv, ChanInv, ReadyInv, SignedInv, TypeOK, Atomic!Next,
       Atomic!vars, Atomic!Prepare, Atomic!Sign, Atomic!Retire, Atomic!Fund, Journal, Wait,
       Reply, lnd
<1>26. ASSUME NEW m \in Makers, _ready_set(m) PROVE [Atomic!Next]_(Atomic!vars)
  BY SMTT(60), <1>26, <1>a, <1>b DEF _ready_set, Deliver, Reply, lnd, Same
<1>27. ASSUME NEW m \in Makers, _sign(m) PROVE [Atomic!Next]_(Atomic!vars)
  BY SMTT(60), <1>27, <1>a, <1>b DEF _sign, Journal, Deliver, Reply, lnd, Same
<1>28. ASSUME NEW m \in Makers, on_tx(m) PROVE [Atomic!Next]_(Atomic!vars)
  BY <1>28, SMTT(40) DEF on_tx, Inv, ChanInv, ReadyInv, SignedInv, TypeOK, Atomic!Next, Atomic!vars,
       Atomic!Prepare, Atomic!Sign, Atomic!Retire, Atomic!Fund, Deliver, Wait, lnd
<1>29. ASSUME NEW m \in Makers, on_tx_signed(m) PROVE [Atomic!Next]_(Atomic!vars)
  BY <1>29, <1>a, <1>b DEF on_tx_signed, Journal, Wait, Reply, lnd, Same
<1>30. ASSUME NEW m \in Makers, handler_fails(m) PROVE [Atomic!Next]_(Atomic!vars)
  BY SMTT(60), <1>30, <1>a, <1>b DEF handler_fails, Fault, Wait, records, lnd, Same
<1>31. ASSUME NEW m \in Makers, _cancel(m) PROVE [Atomic!Next]_(Atomic!vars)
  BY <1>31, SMTT(40) DEF _cancel, Inv, ChanInv, ReadyInv, SignedInv, TypeOK, Atomic!Next, Atomic!vars,
       Atomic!Prepare, Atomic!Sign, Atomic!Retire, Atomic!Fund, Journal, Deliver
<1>32. ASSUME NEW m \in Makers, _retire_unsigned_record(m) PROVE [Atomic!Next]_(Atomic!vars)
  <2>1. st \in [Parties -> States \cup {"none"}] /\ m \in Parties
    BY SMTT(60) DEF Inv, TypeOK
  <2>2. UNCHANGED <<observed, created, tx>> /\ m \notin created
    BY <1>32, <2>1 DEF _retire_unsigned_record, Inv, ChanInv
  <2>3. CASE Journal(m, "retired")
    <3>1. {p \in Parties : st'[p] = "retired"} = {p \in Parties : st[p] = "retired"} \cup {m}
      BY <2>1, <2>3 DEF Journal
    <3>2. Atomic!Retire(m)
      BY <2>2, <3>1 DEF Atomic!Retire
    <3>3. QED
      BY <2>1, <3>2 DEF Atomic!Next
  <2>4. CASE Journal(m, "recovery_required")
    <3>1. {p \in Parties : st'[p] = "retired"} = {p \in Parties : st[p] = "retired"}
      BY <1>32, <2>1, <2>4 DEF Journal, _retire_unsigned_record
    <3>2. QED
      BY SMTT(60), <2>2, <3>1 DEF Atomic!vars
  <2>5. QED
    BY <1>32, <2>3, <2>4 DEF _retire_unsigned_record
<1>33. ASSUME NEW m \in Makers, _expire_timed_out_session(m) PROVE [Atomic!Next]_(Atomic!vars)
  BY <1>33, <1>a, <1>b DEF _expire_timed_out_session, Fault, records, lnd, Same
<1>34. ASSUME NEW m \in Makers, maker_crash(m) PROVE [Atomic!Next]_(Atomic!vars)
  BY SMTT(60), <1>34, <1>a, <1>b DEF maker_crash, Fault, Wait, records, Same
<1>35. ASSUME NEW m \in Makers, reconcile_ring_records(m) PROVE [Atomic!Next]_(Atomic!vars)
  <2>1. UNCHANGED <<observed, created, tx>> /\ m \in Parties
    BY <1>35 DEF reconcile_ring_records
  <2>2. CASE st[m] = "invited" /\ Journal(m, "retired")
    <3>1. {p \in Parties : st'[p] = "retired"} = {p \in Parties : st[p] = "retired"} \cup {m}
      BY <1>a, <2>1, <2>2 DEF Journal
    <3>2. m \notin created
      BY <2>2 DEF Inv, ChanInv
    <3>3. Atomic!Retire(m)
      BY <2>1, <3>1, <3>2 DEF Atomic!Retire
    <3>4. QED
      BY <2>1, <3>3 DEF Atomic!Next
  <2>3. CASE /\ st[m] # "retired"
             /\ \/ Journal(m, "retiring")
                \/ Journal(m, "recovery_required")
                \/ Journal(m, "confirmed_open")
    BY <1>a, <1>b, <2>1, <2>3 DEF Journal, Same
  <2>4. QED
    BY <1>35, <2>2, <2>3, ZenonT(60) DEF reconcile_ring_records
<1>36. ASSUME NEW m \in Makers, _handle_push(m) PROVE [Atomic!Next]_(Atomic!vars)
  BY <1>36, <1>a, <1>b DEF _handle_push, Journal, lnd, Same
<1>37. ASSUME NEW p \in Parties, Negotiate(p) PROVE [Atomic!Next]_(Atomic!vars)
  BY SMTT(60), <1>37, <1>a, <1>b DEF Negotiate, records, Same
<1>38. ASSUME NEW p \in Parties, PsbtVerify(p) PROVE [Atomic!Next]_(Atomic!vars)
  BY <1>38, <1>a, <1>b DEF PsbtVerify, records, Same
<1>39. ASSUME NEW p \in Parties, FundingCreated(p) PROVE [Atomic!Next]_(Atomic!vars)
  BY <1>39, <1>a, <1>b DEF FundingCreated, records, Same
<1>40. ASSUME NEW p \in Parties, FundingSigned(p) PROVE [Atomic!Next]_(Atomic!vars)
  BY SMTT(60), <1>40, <1>a, <1>b DEF FundingSigned, records, Same
<1>41. CASE Confirm
  BY <1>41, SMTT(40) DEF Confirm, Inv, ChanInv, ReadyInv, SignedInv, TypeOK, Atomic!Next, Atomic!vars,
       Atomic!Prepare, Atomic!Sign, Atomic!Retire, Atomic!Fund, records, lnd
<1>42. CASE UNCHANGED vars
  BY SMTT(60), <1>42, <1>a, <1>b DEF vars, records, lnd, Same
<1>43. CASE taker_prepared
  BY <1>43, <1>a, <1>b, <1>c DEF taker_prepared, Journal, Received, Same, lnd
<1> QED
  BY SMTT(40), <1>1, <1>2, <1>3, <1>4, <1>5, <1>6, <1>7, <1>8, <1>9, <1>10,
     <1>11, <1>12, <1>13, <1>14, <1>15, <1>16, <1>17, <1>18, <1>19,
     <1>20, <1>21, <1>22, <1>23, <1>24, <1>25, <1>26, <1>27, <1>28,
     <1>29, <1>30, <1>31, <1>32, <1>33, <1>34, <1>35, <1>36, <1>37,
     <1>38, <1>39, <1>40, <1>41, <1>42,
     <1>43
  DEF Next, Taker, Maker, Lnd

\* The invariant holds initially.
LEMMA InitInv == Init => Inv
BY RingFacts, RingAssumption
   DEF Init, Inv, TypeOK, ChanInv, ReadyInv, SignedInv, CancelInv, Unauthorized,
       Uncancelled, Phases

\* Every reachable state of a round satisfies the invariant.
THEOREM Invariance == Spec => []Inv
<1>1. Inv /\ [Next]_vars => Inv'
  BY TypeStep, ChanStep, ReadyStep, SignedStep, CancelStep DEF Inv
<1> QED
  BY InitInv, <1>1, PTL DEF Spec

\* No ring transaction reaches the network while a participant's LND lacks one of
\* its two channels.
THEOREM ChannelSafety == Spec => []TxImpliesChannels
<1>1. Inv => TxImpliesChannels
  BY DEF Inv, SignedInv, ChanInv, TxImpliesChannels
<1> QED
  BY Invariance, <1>1, PTL

\* No participant has signed in a round whose taker sent a cancellation.
THEOREM CancelSafety == Spec => []CancelMeansUnsigned
<1>1. Inv => CancelMeansUnsigned
  BY DEF Inv, CancelInv, Unauthorized, Uncancelled, CancelMeansUnsigned
<1> QED
  BY Invariance, <1>1, PTL

\* A round implements the atomic ring: whatever times out, fails or crashes, nobody
\* signs before everybody is ready, only the unsigned give up their channels, and
\* the transaction exists only when all have signed.
THEOREM Refinement == Spec => ImplementsAtomicRing
<1>1. Init => Atomic!Init
  BY RingFacts DEF Init, Atomic!Init
<1>2. Inv /\ [Next]_vars => [Atomic!Next]_(Atomic!vars)
  BY RefineStep
<1> QED
  BY <1>1, <1>2, Invariance, PTL DEF Spec, ImplementsAtomicRing, Atomic!Spec

=============================================================================
