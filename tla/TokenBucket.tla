---------------------------- MODULE TokenBucket ----------------------------
(***************************************************************************)
(* What a rate limiter promises: every address has a bucket of Burst       *)
(* tokens, a connection takes one, and one comes back with every tick.     *)
(* The bucket of an address that has not been heard of for StaleAfter      *)
(* ticks, connections turned away included, may be full at once.           *)
(***************************************************************************)
EXTENDS Integers

CONSTANTS Addrs, Burst, StaleAfter

VARIABLES tokens, idle

Init == tokens = [a \in Addrs |-> Burst] /\ idle = [a \in Addrs |-> StaleAfter]

Take(a) ==
    /\ tokens[a] > 0 /\ tokens' = [tokens EXCEPT ![a] = @ - 1]
    /\ idle' = [idle EXCEPT ![a] = 0]
Refuse(a) ==
    /\ tokens[a] = 0 /\ UNCHANGED tokens
    /\ idle' = [idle EXCEPT ![a] = 0]
Refill ==
    /\ tokens' = [a \in Addrs |-> IF tokens[a] < Burst THEN tokens[a] + 1 ELSE Burst]
    /\ idle' = [a \in Addrs |-> IF idle[a] < StaleAfter THEN idle[a] + 1 ELSE StaleAfter]
Forget ==
    /\ tokens' = [a \in Addrs |-> IF idle[a] >= StaleAfter THEN Burst ELSE tokens[a]]
    /\ UNCHANGED idle

Spec == Init /\ [][Refill \/ Forget \/ \E a \in Addrs : Take(a) \/ Refuse(a)]_<<tokens, idle>>
=============================================================================
