---------------------------- MODULE WallTracker ----------------------------
(***************************************************************************)
(* The liquidity walls: LiquidityWallStrategy follows each wall of the     *)
(* order book through its lifecycle in memory, and the orchestrator's      *)
(* _wall_persist_loop copies the lifecycle to the table wall_events while  *)
(* snapshots and signals go on changing it.                                *)
(*                                                                         *)
(* A wall is <<id, n>>, the n-th one detected at the level id; the code    *)
(* tells it by wall_id and detected_ms. Sizes, prices and times are        *)
(* reduced to the states they allow next.                                  *)
(***************************************************************************)
EXTENDS Integers, FiniteSets

CONSTANTS
    Ids,          \* levels of the book, as _wall_id names them
    MaxWalls,     \* bound: walls detected at one level
    MaxFaults     \* bound: database errors and restarts

ASSUME WallAssumption == MaxWalls \in Nat /\ MaxFaults \in Nat

VARIABLES
    wall,         \* the state of every wall detected so far, in memory
    latest,       \* how many walls each level has had
    held,         \* the levels with an entry in strategy.walls
    aged,         \* levels a pass has started with: they may be collected when finished
    row,          \* wall_events.final_state of each wall, "none" without a row
    cache,        \* _wall_persist_state, by level
    phase, todo, writing, staged,   \* the pass of _persist_walls_once
    faults

bookVars == <<wall, latest, held>>
passVars == <<phase, todo, writing, staged>>
wallVars == <<bookVars, aged, row, cache, passVars, faults>>

Walls == Ids \X (1 .. MaxWalls)
Finished == {"vanished", "expired", "fired"}
States == {"tracking", "confirmed"} \cup Finished

\* What the lifecycle allows after a state, itself included.
Onward(s) ==
    CASE s = "none"      -> States \cup {"none"}
      [] s = "tracking"  -> States
      [] s = "confirmed" -> {"confirmed"} \cup Finished
      [] OTHER           -> {s}

WallTypeOK ==
    /\ wall \in [Walls -> States \cup {"none"}] /\ row \in [Walls -> States \cup {"none"}]
    /\ latest \in [Ids -> 0 .. MaxWalls]
    /\ held \subseteq {id \in Ids : latest[id] > 0} /\ aged \subseteq Ids
    /\ cache \in [Ids -> States \cup {"none"}]
    /\ phase \in {"idle", "next", "selecting", "committing"}
    /\ todo \subseteq Walls /\ writing \in Walls \cup {<<>>}
    /\ phase \in {"selecting", "committing"} => writing \in Walls
    /\ staged \in States \cup {"none"}
    /\ faults \in Nat

WallInit ==
    /\ wall = [w \in Walls |-> "none"] /\ row = [w \in Walls |-> "none"]
    /\ latest = [id \in Ids |-> 0]
    /\ held = {} /\ aged = {}
    /\ cache = [id \in Ids |-> "none"]
    /\ phase = "idle" /\ todo = {} /\ writing = <<>> /\ staged = "none"
    /\ faults = 0

\* The entry of strategy.walls for a level in held.
Entry(id) == <<id, latest[id]>>

----------------------------------------------------------------------------
\* The states on_l2 can leave an entry in: confirmation needs the level in the snapshot,
\* vanishing needs it gone, and a wall the price has broken expires in the same call.
After(s, present) ==
    CASE s = "tracking" /\ present    -> {"tracking", "confirmed", "expired"}
      [] s = "tracking" /\ ~present   -> {"tracking", "vanished"}
      [] s = "confirmed" /\ present   -> {"confirmed", "expired"}
      [] s = "confirmed" /\ ~present  -> {"confirmed", "vanished", "expired"}
      [] OTHER                        -> {s}

\* A finished entry is collected half an hour after it was last seen, by when a pass has started
\* with it and is through; after a gap between the snapshots as long as that, a wall may vanish or
\* expire and be collected in the same call.
Collectable(present, seen) ==
    {id \in held \cap aged :
        /\ seen[id] \in Finished /\ (id \in present => wall[Entry(id)] \in Finished)
        /\ Entry(id) \notin todo /\ (phase \in {"selecting", "committing"} => writing # Entry(id))}

\* One snapshot.
OnL2 ==
    \E present \in SUBSET Ids, seen \in [held -> States] :
    \E collected \in SUBSET Collectable(present, seen) :
        LET new == present \ held IN
        /\ \A id \in held : seen[id] \in After(wall[Entry(id)], id \in present)
        /\ \A id \in new : latest[id] < MaxWalls
        /\ latest' = [id \in Ids |-> IF id \in new THEN latest[id] + 1 ELSE latest[id]]
        /\ wall' = [w \in Walls |->
                       IF w[1] \in held /\ w = Entry(w[1]) THEN seen[w[1]]
                       ELSE IF w[1] \in new /\ w[2] = latest[w[1]] + 1 THEN "tracking"
                       ELSE wall[w]]
        /\ held' = (held \cup new) \ collected
        /\ aged' = aged \ collected
        /\ UNCHANGED <<row, cache, passVars, faults>>

\* Faulty variant: the fired wall gets the state the comments call consumed.
EvaluateConsumes ==
    \E id \in held :
        /\ wall[Entry(id)] = "confirmed"
        /\ wall' = [wall EXCEPT ![Entry(id)] = "consumed"]
        /\ UNCHANGED <<latest, held, aged, row, cache, passVars, faults>>

\* evaluate gives a signal and marks its wall, before the risk check sees the signal.
Evaluate ==
    \E id \in held :
        /\ wall[Entry(id)] = "confirmed"
        /\ wall' = [wall EXCEPT ![Entry(id)] = "fired"]
        /\ UNCHANGED <<latest, held, aged, row, cache, passVars, faults>>

----------------------------------------------------------------------------
(* A pass takes the walls one by one: it compares the state with the       *)
(* cache, selects the row, stages the state, commits, and fills the cache  *)
(* with the state the wall has by then.                                    *)

PersistPass ==
    /\ phase = "idle"
    /\ phase' = "next"
    /\ todo' = {Entry(id) : id \in held}
    /\ aged' = held
    /\ UNCHANGED <<bookVars, row, cache, writing, staged, faults>>

PersistSkips ==
    \E w \in todo :
        /\ phase = "next" /\ cache[w[1]] = wall[w]
        /\ todo' = todo \ {w}
        /\ UNCHANGED <<bookVars, aged, row, cache, phase, writing, staged, faults>>

PersistSelects ==
    \E w \in todo :
        /\ phase = "next" /\ cache[w[1]] # wall[w]
        /\ phase' = "selecting" /\ writing' = w /\ todo' = todo \ {w}
        /\ UNCHANGED <<bookVars, aged, row, cache, staged, faults>>

\* Faulty variant: the cache is filled when the state is staged, before the commit.
PersistStagesAndCaches ==
    /\ phase = "selecting"
    /\ phase' = "committing" /\ staged' = wall[writing]
    /\ cache' = [cache EXCEPT ![writing[1]] = wall[writing]]
    /\ UNCHANGED <<bookVars, aged, row, todo, writing, faults>>

PersistStages ==
    /\ phase = "selecting"
    /\ phase' = "committing" /\ staged' = wall[writing]
    /\ UNCHANGED <<bookVars, aged, row, cache, todo, writing, faults>>

\* Faulty variant: the row is looked for by wall_id alone.
FoundById(w) == <<w[1], 1>>

\* The row found by wall_id and detected_ms, or added: the wall's own.
Found(w) == w

PersistCommits ==
    /\ phase = "committing"
    /\ row' = [row EXCEPT ![Found(writing)] = staged]
    /\ cache' = [cache EXCEPT ![writing[1]] = wall[writing]]
    /\ phase' = "next"
    /\ UNCHANGED <<bookVars, aged, todo, writing, staged, faults>>

PersistEnds ==
    /\ phase = "next" /\ todo = {}
    /\ phase' = "idle"
    /\ UNCHANGED <<bookVars, aged, row, cache, todo, writing, staged, faults>>

\* The transaction is rolled back and the rest of the pass is given up.
PersistFails ==
    /\ phase \in {"selecting", "committing"} /\ faults < MaxFaults
    /\ faults' = faults + 1
    /\ phase' = "idle" /\ todo' = {}
    /\ UNCHANGED <<bookVars, aged, row, cache, writing, staged>>

PersistLoop ==
    \/ PersistPass \/ PersistSkips \/ PersistSelects \/ PersistStages
    \/ PersistCommits \/ PersistEnds \/ PersistFails

\* A new process: the table is all that is left.
WallRestart ==
    /\ faults < MaxFaults
    /\ faults' = faults + 1
    /\ held' = {} /\ aged' = {}
    /\ cache' = [id \in Ids |-> "none"]
    /\ phase' = "idle" /\ todo' = {}
    /\ UNCHANGED <<wall, latest, row, writing, staged>>

WallNext == OnL2 \/ Evaluate \/ PersistLoop \/ WallRestart

WallSpec == WallInit /\ [][WallNext]_wallVars

\* The loop is one task that sleeps a fixed time between two passes, and its awaits return.
WallFairSpec == WallSpec /\ WF_wallVars(PersistLoop)

----------------------------------------------------------------------------
\* The table never says of a wall what did not happen to it, and what is about to be
\* committed lies between the row and the wall.
PersistInv ==
    /\ \A w \in Walls : w[2] > latest[w[1]] => wall[w] = "none"
    /\ \A w \in Walls : wall[w] \in Onward(row[w])
    /\ phase = "committing" => /\ staged \in Onward(row[writing])
                               /\ wall[writing] \in Onward(staged)

\* A row is never taken back along the lifecycle, whatever the loop reads late, and the row
\* of a wall is never reused for a later wall of its level.
RowsOnlyAdvance == [][\A w \in Walls : row'[w] \in Onward(row[w])]_wallVars

\* The first wall of a level in a process gets its row, failed passes notwithstanding,
\* unless its entry is gone first.
FirstIsRecorded ==
    \A id \in Ids :
        id \in held /\ cache[id] = "none" ~> (id \in held => row[Entry(id)] # "none")

----------------------------------------------------------------------------
(* Statements of the documents that the code does not meet.                *)

\* The orchestrator's comment on the cache: the last persisted state of each wall_id.
CacheIsPersisted ==
    \A id \in Ids : cache[id] # "none" => \E w \in Walls : w[1] = id /\ row[w] = cache[id]

\* The strategy's head comment: the lifecycle of a wall is persisted. Here: it has a row.
EveryWallIsRecorded == \A w \in Walls : wall[w] # "none" ~> row[w] # "none"

=============================================================================
