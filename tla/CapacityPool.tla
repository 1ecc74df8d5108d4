---------------------------- MODULE CapacityPool ----------------------------
(***************************************************************************)
(* What the routing coordinator promises to the Workers that use it, free  *)
(* of rows, ages, buckets and messages: a pool of permits per provider     *)
(* credential.  A holder gets one permit of one pool, only while the pool  *)
(* is not silenced and never beyond its ceiling; permits may lapse; only   *)
(* what a holder of a permit reports can silence its pool, and a silence   *)
(* is never cut short.                                                     *)
(***************************************************************************)
EXTENDS Naturals, FiniteSets

CONSTANTS
    Holders,    \* those who ask for permits
    Pools,      \* one pool per credential
    Ceiling     \* permits of each pool; zero means any number

VARIABLES
    held,       \* the holders of each pool's permits
    silentTill, \* when each pool admits again
    clock       \* the present

poolVars == <<held, silentTill, clock>>

Init ==
    /\ held = [p \in Pools |-> {}]
    /\ silentTill = [p \in Pools |-> 0]
    /\ clock \in Nat

(* No permit is handed out, any number lapse.                              *)
OnlyLapses(pools) == \A p \in pools : held'[p] \subseteq held[p]

(* The holder h, who has no permit, gets one of pool p.                    *)
Admit(h, p) ==
    /\ \A q \in Pools : h \notin held[q]
    /\ clock >= silentTill[p]
    /\ h \in held'[p]
    /\ held'[p] \subseteq held[p] \cup {h}
    /\ Ceiling[p] > 0 => Cardinality(held'[p]) <= Ceiling[p]
    /\ OnlyLapses(Pools \ {p})
    /\ UNCHANGED <<silentTill, clock>>

Lapse ==
    /\ OnlyLapses(Pools)
    /\ UNCHANGED <<silentTill, clock>>

(* The holder h gives its permit of p back, and may silence the pool.      *)
GiveBack(h, p) ==
    /\ h \in held[p]
    /\ held'[p] = held[p] \ {h}
    /\ silentTill'[p] >= silentTill[p]
    /\ \A q \in Pools \ {p} : held'[q] = held[q] /\ silentTill'[q] = silentTill[q]
    /\ UNCHANGED clock

Advance ==
    /\ clock' > clock
    /\ UNCHANGED <<held, silentTill>>

Next ==
    \/ \E h \in Holders, p \in Pools : Admit(h, p) \/ GiveBack(h, p)
    \/ Lapse
    \/ Advance

Spec == Init /\ [][Next]_poolVars
=============================================================================
