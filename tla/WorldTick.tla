------------------------------ MODULE WorldTick ------------------------------
(***************************************************************************)
(* What MapManager::Update promises the rest of the world: in one tick     *)
(* every map is updated, once, by one thread, and none is being updated    *)
(* outside the tick, when maps are made and deleted and the world thread   *)
(* does all its other work.                                                *)
(***************************************************************************)
CONSTANTS Maps, Threads

VARIABLES
    maps,       \* the maps that exist
    inTick,
    updating,   \* <<t, m>>: thread t is in the update of map m
    updated     \* the maps done in this tick

vars == <<maps, inTick, updating, updated>>

Init ==
    /\ maps = {}
    /\ inTick = FALSE
    /\ updating = {}
    /\ updated = {}

\* Maps come and go between two ticks.
Change ==
    /\ ~inTick
    /\ maps' \in SUBSET Maps
    /\ UNCHANGED <<inTick, updating, updated>>

Begin ==
    /\ ~inTick
    /\ inTick' = TRUE
    /\ updated' = {}
    /\ UNCHANGED <<maps, updating>>

Start(t, m) ==
    /\ inTick
    /\ m \in maps \ updated
    /\ \A u \in Threads : <<u, m>> \notin updating
    /\ updating' = updating \cup {<<t, m>>}
    /\ UNCHANGED <<maps, inTick, updated>>

Finish(t, m) ==
    /\ <<t, m>> \in updating
    /\ updating' = updating \ {<<t, m>>}
    /\ updated' = updated \cup {m}
    /\ UNCHANGED <<maps, inTick>>

End ==
    /\ inTick
    /\ updating = {}
    /\ updated = maps
    /\ inTick' = FALSE
    /\ UNCHANGED <<maps, updating, updated>>

Next ==
    \/ Change \/ Begin \/ End
    \/ \E t \in Threads, m \in Maps : Start(t, m) \/ Finish(t, m)

Spec == Init /\ [][Next]_vars
=============================================================================
