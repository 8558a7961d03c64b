------------------------------ MODULE AtomicRing ------------------------------
(***************************************************************************)
(* What a channel ring promises its participants, whatever the protocol:   *)
(* one transaction funds every channel of the ring or none of them, nobody *)
(* signs it before every participant holds both of its pending channels,   *)
(* and nobody gives a channel up once it has signed.                       *)
(***************************************************************************)
CONSTANT Parties

VARIABLES
    prepared,   \* the participants that have seen both their channels pending
    signed,     \* those whose signature on the funding transaction exists
    retired,    \* those that gave their channels up
    funded      \* {"tx"} iff the network has seen the funding transaction

vars == <<prepared, signed, retired, funded>>

Init == prepared = {} /\ signed = {} /\ retired = {} /\ funded = {}

Prepare(p) ==
    /\ prepared' = prepared \cup {p}
    /\ UNCHANGED <<signed, retired, funded>>

Sign(p) ==
    /\ prepared = Parties /\ p \notin retired
    /\ signed' = signed \cup {p}
    /\ UNCHANGED <<prepared, retired, funded>>

Retire(p) ==
    /\ p \notin signed
    /\ retired' = retired \cup {p}
    /\ UNCHANGED <<prepared, signed, funded>>

Fund ==
    /\ signed = Parties
    /\ funded' = {"tx"}
    /\ UNCHANGED <<prepared, signed, retired>>

Next == (\E p \in Parties : Prepare(p) \/ Sign(p) \/ Retire(p)) \/ Fund

Spec == Init /\ [][Next]_vars
==============================================================================
