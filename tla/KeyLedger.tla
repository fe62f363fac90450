------------------------------ MODULE KeyLedger ------------------------------
(***************************************************************************)
(* What the session layer promises the callers of encrypt: each call     *)
(* "advance[s] the sending chain, obtaining a fresh message key" (spec     *)
(* section 4.7), "no message key is ever produced twice" (section 3), and  *)
(* the design exists so that nothing "can cause key reuse" (section 1).   *)
(* The keys handed out, by the sessions of both ends together, form a     *)
(* ledger in which no key appears twice.  A failed call may hand out       *)
(* nothing; a returned ciphertext always adds a key not seen before.      *)
(***************************************************************************)
EXTENDS Sequences

CONSTANT Keys       \* message keys

VARIABLE handed     \* the keys of the ciphertexts returned, in order

Init == handed = <<>>

\* A ciphertext is returned under key k, which no earlier one used.
Issue(k) ==
    /\ k \notin {handed[i] : i \in DOMAIN handed}
    /\ handed' = Append(handed, k)

Next == \E k \in Keys : Issue(k)

Spec == Init /\ [][Next]_handed

=============================================================================
