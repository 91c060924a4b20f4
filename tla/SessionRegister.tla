-------------------------- MODULE SessionRegister --------------------------
(***************************************************************************)
(* What the refresh tokens of one account promise, without tables,         *)
(* transactions or requests.  A token stands until it is redeemed for one  *)
(* successor or revoked.  A redemption is promised when its answer leaves  *)
(* and settled when it is stored: in between it may still be taken back.   *)
(* Settled and revoked are for ever.                                       *)
(***************************************************************************)
CONSTANT Tokens

VARIABLES
    standing,   \* what a token is worth
    heirs       \* the tokens it was redeemed for and not taken back

Standing == {"unused", "valid", "promised", "settled", "revoked"}

register == <<standing, heirs>>

RegisterInit ==
    /\ standing = [t \in Tokens |-> "unused"]
    /\ heirs = [t \in Tokens |-> {}]

\* A sign-in hands out a token.
Grant(n) ==
    /\ standing[n] = "unused"
    /\ standing' = [standing EXCEPT ![n] = "valid"]
    /\ UNCHANGED heirs

\* A token is exchanged for a new one.
Redeem(t, n) ==
    /\ standing[t] = "valid" /\ standing[n] = "unused"
    /\ standing' = [standing EXCEPT ![t] = "promised", ![n] = "valid"]
    /\ heirs' = [heirs EXCEPT ![t] = {n}]

\* The exchange is stored.
Settle(t) ==
    /\ standing[t] = "promised"
    /\ standing' = [standing EXCEPT ![t] = "settled"]
    /\ UNCHANGED heirs

\* The exchange could not be stored: the token stands again.
TakeBack(t) ==
    /\ standing[t] = "promised"
    /\ standing' = [standing EXCEPT ![t] = "valid"]
    /\ heirs' = [heirs EXCEPT ![t] = {}]

\* The user ends sessions, any number of them at once (also none): none of
\* them has been redeemed or is being redeemed.
Revoke ==
    /\ \A t \in Tokens : \/ standing'[t] = standing[t]
                        \/ /\ standing[t] = "valid"
                           /\ standing'[t] = "revoked"
    /\ standing' \in [Tokens -> Standing]
    /\ UNCHANGED heirs

RegisterNext ==
    \/ Revoke
    \/ \E t \in Tokens : Grant(t) \/ Settle(t) \/ TakeBack(t)
    \/ \E t, n \in Tokens : Redeem(t, n)

RegisterSpec == RegisterInit /\ [][RegisterNext]_register
=============================================================================
