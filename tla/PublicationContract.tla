------------------------ MODULE PublicationContract ------------------------
(***************************************************************************)
(* What publishing an assembled plan promises its readers, without journal, *)
(* staging, workers or restarts: content-addressed stores that only fill,   *)
(* and one announcement that a store holds the whole object set.            *)
(***************************************************************************)
EXTENDS Naturals

CONSTANTS NumObjects, Bases, NoBase

VARIABLES stored, announced

cvars == <<stored, announced>>

Plan == 1..NumObjects

Init ==
    /\ stored \in [Bases -> SUBSET Plan]
    /\ announced = NoBase

Store(b, o) ==
    /\ stored' = [stored EXCEPT ![b] = @ \cup {o}]
    /\ UNCHANGED announced

Announce(b) ==
    /\ announced = NoBase
    /\ stored[b] = Plan
    /\ announced' = b
    /\ UNCHANGED stored

Next ==
    \/ \E b \in Bases, o \in Plan : Store(b, o)
    \/ \E b \in Bases : Announce(b)

Spec == Init /\ [][Next]_cvars
=============================================================================
