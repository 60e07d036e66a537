----------------------------- MODULE MCAuthority -----------------------------
(* Two components that share no state: one of them moves, the other stays   *)
(* in its initial state.                                                    *)
EXTENDS Clock, Authorization, TLC
CONSTANTS v1, v2
MCBase == [c \in Clocks |-> [b \in 0..MaxBoots |-> IF c = "source" THEN 5 - b ELSE 7 + 5 * b]]

MCRecord(type, receipt, serial, nonce, scope, needs, notBefore, expires) ==
    [type |-> type, receipt |-> receipt, serial |-> serial, nonce |-> nonce, scope |-> scope,
     needs |-> needs, notBefore |-> notBefore, expires |-> expires, deadline |-> 2,
     before |-> ConsumedBefore[type], flaw |-> "NONE"]

(* A run authorization and its gate; two that collide with it, by serial    *)
(* and by nonce; the gate collides with the latter by receipt identity.     *)
MCRecords ==
    LET Run(receipt, serial, nonce, notBefore, expires) ==
            MCRecord("DiscoveryRunAuthorization", receipt, serial, nonce, "x1", {"gate"},
                     notBefore, expires)
    IN [run     |-> Run("r1", "s1", "n1", 0, 3),
        reissue |-> Run("r2", "s1", "n2", 1, 3),
        renonce |-> Run("r3", "s3", "n1", 0, 1),
        gate    |-> MCRecord("GateReceipt", "r3", "s5", "n1", "x2", {}, 0, 3)]
VerifierSymmetry == Permutations(Verifiers)

VARIABLE part    \* the component that moves

AuthorityInit ==
    /\ part \in {"clock", "authorization"} /\ ClockInit /\ AuthInit
    /\ part = "clock" => mode = "TEST"
AuthorityNext ==
    \/ part = "clock" /\ ClockNext /\ UNCHANGED <<part, authVars>>
    \/ part = "authorization" /\ AuthNext /\ UNCHANGED <<part, clockVars>>
AuthoritySpec == AuthorityInit /\ [][AuthorityNext]_<<part, clockVars, authVars>>
=============================================================================
