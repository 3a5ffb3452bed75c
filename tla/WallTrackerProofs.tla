------------------------- MODULE WallTrackerProofs -------------------------
(***************************************************************************)
(* The table wall_events follows the lifecycles in order: proved for any   *)
(* set of levels and any number of walls, passes, errors and restarts.     *)
(***************************************************************************)
EXTENDS WallTracker, TLAPS

\* Onward is a preorder on the states of the lifecycle.
LEMMA OnwardIsTransitive ==
  ASSUME NEW a \in States \cup {"none"}, NEW b \in Onward(a), NEW c \in Onward(b)
  PROVE  c \in Onward(a)
BY DEF Onward, States, Finished

\* Its reflexive half.
LEMMA OnwardIsReflexive ==
  ASSUME NEW a \in States \cup {"none"}
  PROVE  a \in Onward(a)
BY DEF Onward, States, Finished

\* A level in held has had a wall.
LEMMA EntryIsAWall ==
  ASSUME WallTypeOK, NEW id \in held
  PROVE  id \in Ids /\ Entry(id) \in Walls /\ Entry(id)[1] = id
BY WallAssumption DEF WallTypeOK, Entry, Walls

----------------------------------------------------------------------------
\* A snapshot counts the new walls and moves every other wall on.
LEMMA OnL2Step ==
  ASSUME WallTypeOK, PersistInv, OnL2
  PROVE  /\ wall' \in [Walls -> States \cup {"none"}]
         /\ latest' \in [Ids -> 0 .. MaxWalls]
         /\ held' \subseteq {id \in Ids : latest'[id] > 0}
         /\ \A w \in Walls : wall'[w] \in Onward(wall[w])
         /\ \A w \in Walls : w[2] > latest'[w[1]] => wall'[w] = "none"
<1>1. PICK present \in SUBSET Ids, collected \in SUBSET held, seen \in [held -> States] :
          LET new == present \ held IN
          /\ \A id \in held : seen[id] \in After(wall[Entry(id)], id \in present)
          /\ \A id \in new : latest[id] < MaxWalls
          /\ latest' = [id \in Ids |-> IF id \in new THEN latest[id] + 1 ELSE latest[id]]
          /\ wall' = [w \in Walls |->
                         IF w[1] \in held /\ w = Entry(w[1]) THEN seen[w[1]]
                         ELSE IF w[1] \in new /\ w[2] = latest[w[1]] + 1 THEN "tracking"
                         ELSE wall[w]]
          /\ held' = (held \cup new) \ collected
  BY DEF OnL2, Collectable
<1> DEFINE new == present \ held
<1> USE WallAssumption
<1>2. latest' \in [Ids -> 0 .. MaxWalls]
  BY <1>1 DEF WallTypeOK
<1>3. held' \subseteq {id \in Ids : latest'[id] > 0}
  <2> SUFFICES ASSUME NEW id \in held'
               PROVE  id \in Ids /\ latest'[id] > 0
    OBVIOUS
  <2>1. id \in held \/ id \in new
    BY <1>1
  <2> QED  BY <1>1, <2>1 DEF WallTypeOK
<1>4. ASSUME NEW w \in Walls
      PROVE  /\ wall'[w] \in States \cup {"none"}
             /\ wall'[w] \in Onward(wall[w])
             /\ w[2] > latest'[w[1]] => wall'[w] = "none"
  <2>1. w[1] \in Ids /\ w[2] \in 1 .. MaxWalls /\ latest[w[1]] \in 0 .. MaxWalls
        /\ wall[w] \in States \cup {"none"}
    BY DEF Walls, WallTypeOK
  <2>2. CASE w[1] \in held /\ w = Entry(w[1])
    <3>1. wall'[w] = seen[w[1]] /\ seen[w[1]] \in States
      BY <1>1, <2>2
    <3>2. seen[w[1]] \in After(wall[w], w[1] \in present)
      BY <1>1, <2>2
    <3>3. wall'[w] \in Onward(wall[w])
      BY <2>1, <3>1, <3>2 DEF After, Onward, States, Finished
    <3>4. w[2] = latest[w[1]] /\ latest'[w[1]] = latest[w[1]]
      BY <1>1, <2>1, <2>2 DEF Entry
    <3> QED  BY <2>1, <3>1, <3>3, <3>4
  <2>3. CASE ~(w[1] \in held /\ w = Entry(w[1])) /\ w[1] \in new /\ w[2] = latest[w[1]] + 1
    <3>1. wall'[w] = "tracking" /\ latest'[w[1]] = latest[w[1]] + 1
      BY <1>1, <2>1, <2>3
    <3>2. wall[w] = "none"
      BY <2>1, <2>3 DEF PersistInv
    <3> QED  BY <2>1, <2>3, <3>1, <3>2 DEF Onward, States
  <2>4. CASE ~(w[1] \in held /\ w = Entry(w[1])) /\ ~(w[1] \in new /\ w[2] = latest[w[1]] + 1)
    <3>1. wall'[w] = wall[w]
      BY <1>1, <2>4
    <3>2. latest'[w[1]] = latest[w[1]] \/ latest'[w[1]] = latest[w[1]] + 1
      BY <1>1, <2>1
    <3>3. w[2] > latest'[w[1]] => w[2] > latest[w[1]]
      BY <2>1, <3>2
    <3> QED  BY <2>1, <3>1, <3>3, OnwardIsReflexive DEF PersistInv
  <2> QED  BY <2>2, <2>3, <2>4
<1>5. wall' \in [Walls -> States \cup {"none"}]
  BY <1>1, <1>4
<1> QED  BY <1>2, <1>3, <1>4, <1>5

\* No step takes a wall back along its lifecycle.
LEMMA WallStep ==
  ASSUME WallTypeOK, PersistInv, [WallNext]_wallVars
  PROVE  /\ wall' \in [Walls -> States \cup {"none"}]
         /\ latest' \in [Ids -> 0 .. MaxWalls]
         /\ held' \subseteq {id \in Ids : latest'[id] > 0}
         /\ \A w \in Walls : wall'[w] \in Onward(wall[w])
         /\ \A w \in Walls : w[2] > latest'[w[1]] => wall'[w] = "none"
<1>1. CASE OnL2
  BY <1>1, OnL2Step
<1>2. CASE Evaluate
  <2>1. PICK id \in held : /\ wall[Entry(id)] = "confirmed"
                           /\ wall' = [wall EXCEPT ![Entry(id)] = "fired"]
                           /\ UNCHANGED <<latest, held>>
    BY <1>2 DEF Evaluate
  <2>2. Entry(id) \in Walls
    BY EntryIsAWall
  <2>3. ASSUME NEW w \in Walls
        PROVE  /\ wall'[w] \in Onward(wall[w])
               /\ w[2] > latest'[w[1]] => wall'[w] = "none"
    <3>1. CASE w = Entry(id)
      BY <2>1, <2>2, <3>1 DEF WallTypeOK, PersistInv, Onward, Finished
    <3>2. CASE w # Entry(id)
      <4>1. wall'[w] = wall[w] /\ wall[w] \in States \cup {"none"}
        BY <2>1, <2>2, <3>2 DEF WallTypeOK
      <4> QED  BY <2>1, <4>1, OnwardIsReflexive DEF PersistInv
    <3> QED  BY <3>1, <3>2
  <2>4. wall' \in [Walls -> States \cup {"none"}]
    BY <2>1, <2>2 DEF WallTypeOK, States, Finished
  <2> QED  BY <2>1, <2>3, <2>4 DEF WallTypeOK
<1>3. CASE PersistLoop \/ WallRestart \/ UNCHANGED wallVars
  <2>1. wall' = wall /\ latest' = latest /\ (held' = held \/ held' = {})
    BY <1>3 DEF PersistLoop, PersistPass, PersistSkips, PersistSelects, PersistStages,
                PersistCommits, PersistEnds, PersistFails, WallRestart, wallVars, bookVars
  <2> QED  BY <2>1, OnwardIsReflexive DEF WallTypeOK, PersistInv
<1> QED  BY <1>1, <1>2, <1>3 DEF WallNext

\* The loop's own variables keep their types.
LEMMA PassStep ==
  ASSUME WallTypeOK, [WallNext]_wallVars
  PROVE  /\ row' \in [Walls -> States \cup {"none"}]
         /\ cache' \in [Ids -> States \cup {"none"}]
         /\ phase' \in {"idle", "next", "selecting", "committing"}
         /\ todo' \subseteq Walls /\ writing' \in Walls \cup {<<>>}
         /\ phase' \in {"selecting", "committing"} => writing' \in Walls
         /\ staged' \in States \cup {"none"}
         /\ faults' \in Nat /\ aged' \subseteq Ids
<1> USE DEF WallTypeOK
<1>1. CASE OnL2
  BY <1>1 DEF OnL2, passVars
<1>2. CASE Evaluate
  BY <1>2 DEF Evaluate, passVars
<1>3. CASE PersistPass
  BY <1>3, EntryIsAWall DEF PersistPass
<1>4. CASE PersistSkips \/ PersistSelects
  BY <1>4 DEF PersistSkips, PersistSelects
<1>5. CASE PersistStages
  BY <1>5 DEF PersistStages
<1>6. CASE PersistCommits
  <2>1. writing \in Walls /\ writing[1] \in Ids /\ wall[writing] \in States \cup {"none"}
    BY <1>6 DEF PersistCommits, Walls
  <2> QED  BY <1>6, <2>1 DEF PersistCommits, Found
<1>7. CASE PersistEnds \/ PersistFails
  BY <1>7 DEF PersistEnds, PersistFails
<1>8. CASE WallRestart
  BY <1>8 DEF WallRestart
<1>9. CASE UNCHANGED wallVars
  BY <1>9 DEF wallVars, passVars
<1> QED  BY <1>1, <1>2, <1>3, <1>4, <1>5, <1>6, <1>7, <1>8, <1>9 DEF WallNext, PersistLoop

\* Every step keeps the rows behind the walls, and moves no row back.
LEMMA RowStep ==
  ASSUME WallTypeOK, PersistInv, [WallNext]_wallVars
  PROVE  /\ PersistInv'
         /\ \A w \in Walls : row'[w] \in Onward(row[w])
<1>1. /\ \A w \in Walls : wall'[w] \in Onward(wall[w])
      /\ \A w \in Walls : w[2] > latest'[w[1]] => wall'[w] = "none"
  BY WallStep
<1>2. \A w \in Walls : row[w] \in States \cup {"none"} /\ wall[w] \in States \cup {"none"}
  BY DEF WallTypeOK
<1>3. CASE PersistStages
  <2>1. /\ writing \in Walls /\ writing' = writing /\ staged' = wall[writing]
        /\ row' = row /\ wall' = wall /\ latest' = latest
    BY <1>3 DEF PersistStages, WallTypeOK, bookVars
  <2> QED  BY <1>1, <1>2, <2>1, OnwardIsReflexive DEF PersistInv
<1>4. CASE PersistCommits
  <2>1. /\ writing \in Walls /\ row' = [row EXCEPT ![writing] = staged]
        /\ wall' = wall /\ phase' = "next"
        /\ staged \in Onward(row[writing]) /\ wall[writing] \in Onward(staged)
    BY <1>4 DEF PersistCommits, WallTypeOK, PersistInv, bookVars, Found
  <2>2. ASSUME NEW w \in Walls
        PROVE  wall'[w] \in Onward(row'[w]) /\ row'[w] \in Onward(row[w])
    BY <1>2, <2>1, OnwardIsReflexive DEF WallTypeOK, PersistInv
  <2> QED  BY <1>1, <2>1, <2>2 DEF PersistInv
<1>5. CASE ~PersistStages /\ ~PersistCommits
  <2>1. /\ row' = row
        /\ phase' = "committing" =>
              phase = "committing" /\ writing' = writing /\ staged' = staged
    BY <1>5 DEF WallNext, OnL2, Evaluate, PersistLoop, PersistPass, PersistSkips,
                PersistSelects, PersistEnds, PersistFails, WallRestart, wallVars, passVars
  <2>2. \A w \in Walls : wall'[w] \in Onward(row[w])
    BY <1>1, <1>2, OnwardIsTransitive DEF PersistInv
  <2>3. phase' = "committing" => /\ staged' \in Onward(row'[writing'])
                                 /\ wall'[writing'] \in Onward(staged')
    <3> SUFFICES ASSUME phase' = "committing"
                 PROVE  /\ staged' \in Onward(row'[writing'])
                        /\ wall'[writing'] \in Onward(staged')
      OBVIOUS
    <3>1. /\ staged \in Onward(row[writing]) /\ wall[writing] \in Onward(staged)
          /\ writing \in Walls /\ staged \in States \cup {"none"}
      BY <2>1 DEF PersistInv, WallTypeOK
    <3>2. wall'[writing] \in Onward(staged)
      BY <1>1, <3>1, OnwardIsTransitive
    <3> QED  BY <2>1, <3>1, <3>2
  <2> QED  BY <1>1, <1>2, <2>1, <2>2, <2>3, OnwardIsReflexive DEF PersistInv
<1> QED  BY <1>3, <1>4, <1>5

----------------------------------------------------------------------------
\* The invariants hold at the start ...
LEMMA WallInitially == WallInit => WallTypeOK /\ PersistInv
<1> SUFFICES ASSUME WallInit
             PROVE  WallTypeOK /\ PersistInv
  OBVIOUS
<1>1. WallTypeOK
  BY WallAssumption DEF WallInit, WallTypeOK
<1>2. PersistInv
  BY OnwardIsReflexive DEF WallInit, PersistInv
<1> QED  BY <1>1, <1>2

\* ... and every step keeps them.
LEMMA WallInvStep ==
  ASSUME WallTypeOK, PersistInv, [WallNext]_wallVars
  PROVE  WallTypeOK' /\ PersistInv'
<1>1. WallTypeOK'
  BY WallStep, PassStep DEF WallTypeOK
<1> QED  BY <1>1, RowStep

\* The tracker, the table and the loop keep their types.
THEOREM WallTypeCorrect == WallSpec => []WallTypeOK
BY WallInitially, WallInvStep, PTL DEF WallSpec

\* The table never says of a wall what did not happen to it.
THEOREM RowsFollowWalls == WallSpec => []PersistInv
BY WallInitially, WallInvStep, PTL DEF WallSpec

\* No row goes back along the lifecycle.
THEOREM RowsAdvance == WallSpec => RowsOnlyAdvance
<1>1. WallTypeOK /\ PersistInv /\ [WallNext]_wallVars
        => [\A w \in Walls : row'[w] \in Onward(row[w])]_wallVars
  BY RowStep
<1> QED  BY <1>1, WallTypeCorrect, RowsFollowWalls, PTL DEF WallSpec, RowsOnlyAdvance

=============================================================================
