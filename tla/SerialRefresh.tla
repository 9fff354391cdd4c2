--------------------------- MODULE SerialRefresh ---------------------------
(***************************************************************************)
(* What the single-flight layer of hub_cache.rs promises for each key,     *)
(* told without tasks, warmer or locks: refreshes of a key run one at a    *)
(* time, each writes at most once, and what it writes is never older than  *)
(* what the refresh before it wrote.                                       *)
(***************************************************************************)
EXTENDS Naturals

CONSTANT Keys

VARIABLES
    phase,      \* of each key: "idle", "running" or "done"
    written,    \* version of the last refresh that succeeded
    upstream    \* version that upstream would answer with now

serialVars == <<phase, written, upstream>>

SerialInit ==
    /\ phase = [k \in Keys |-> "idle"]
    /\ written = [k \in Keys |-> 0]
    /\ upstream = 0

Move(k, from, to) == phase[k] = from /\ phase' = [phase EXCEPT ![k] = to]

Begin(k) == Move(k, "idle", "running") /\ UNCHANGED <<written, upstream>>

Write(k) ==
    /\ Move(k, "running", "done")
    /\ \E v \in written[k]..upstream : written' = [written EXCEPT ![k] = v]
    /\ UNCHANGED upstream

Fail(k) == Move(k, "running", "done") /\ UNCHANGED <<written, upstream>>

End(k) == Move(k, "done", "idle") /\ UNCHANGED <<written, upstream>>

Change == upstream' = upstream + 1 /\ UNCHANGED <<phase, written>>

SerialNext == Change \/ \E k \in Keys : Begin(k) \/ Write(k) \/ Fail(k) \/ End(k)

SerialSpec == SerialInit /\ [][SerialNext]_serialVars
=============================================================================
