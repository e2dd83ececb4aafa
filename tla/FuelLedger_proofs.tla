--------------------------- MODULE FuelLedger_proofs ---------------------------
(***************************************************************************)
(* What holds of the virtual tank of FuelLedger for every set of handlers, *)
(* every capacity and all bounds: the types of the tank and of what works  *)
(* on it, the modelled burn as a distance, and the level that stands.      *)
(***************************************************************************)
EXTENDS TLAPS, FuelLedger, FiniteSetTheorems

\* The types of what works on the tank.
FrameState == [pc : {"idle", "read", "priced", "insert"}, at : 0..MaxRecord, ign : BOOLEAN,
               row : Tank, burn : Nat]
EntryState == [pc : {"idle", "read"}, kind : {"refuel", "debit"}, amount : Level, level : Level]
FloorState == [at : 0..MaxRecord, ign : BOOLEAN, carried : Nat]

\* TypeOK without the counters and the ledger's totals.
TankTypes ==
  /\ tank \in Tank
  /\ floor \in FloorState
  /\ frame \in [Frames -> FrameState]
  /\ entry \in EntryState
  /\ backstep \in BOOLEAN

-----------------------------------------------------------------------------
(* The operators on rows                                                   *)

\* Clamp makes a level of every number.
LEMMA ClampType == ASSUME NEW n \in Int PROVE Clamp(n) \in Level
  BY LedgerConstants DEF Clamp, AtMost, AtLeast, Level

\* A level is left alone by Clamp.
LEMMA ClampLevel == ASSUME NEW n \in Level PROVE Clamp(n) = n
  BY LedgerConstants DEF Clamp, AtMost, AtLeast, Level

\* A hop burns nothing or something.
LEMMA HopType ==
  ASSUME NEW row \in Tank, NEW k \in 0..MaxRecord
  PROVE  Hop(row, k) \in Nat
<1>1. row.last \in Int /\ k \in Int
  BY LedgerConstants DEF Tank
<1> QED
  BY <1>1 DEF Hop, AtLeast

\* The anchor a reading leaves behind: numbers, never null.
LEMMA AfterReadingFields ==
  ASSUME NEW row \in Tank, NEW k \in 0..MaxRecord
  PROVE  LET new == AfterReading(row, k) IN
           /\ new.modelled = row.modelled + Hop(row, k)
           /\ new.modelled \in Nat
           /\ new.anchorModelled \in Nat
           /\ new.anchorLevel \in Level
           /\ new.level = LevelFromAnchor(new.anchorLevel, new.anchorModelled, new.modelled)
           /\ new.last = k
           /\ new.origin = IF row.last = 0 THEN k ELSE row.origin
<1> DEFINE new == AfterReading(row, k)
<1>1. row.modelled + Hop(row, k) \in Nat
  BY HopType DEF Tank
<1>2. new.modelled = row.modelled + Hop(row, k)
  BY DEF AfterReading
<1>3. new.anchorModelled \in Nat
  BY <1>1 DEF AfterReading, Tank
<1>4. new.anchorLevel \in Level
  BY DEF AfterReading, Tank
<1>5. new.level = LevelFromAnchor(new.anchorLevel, new.anchorModelled, new.modelled)
  BY DEF AfterReading
<1>6. new.last = k /\ new.origin = IF row.last = 0 THEN k ELSE row.origin
  BY DEF AfterReading
<1> QED
  BY <1>1, <1>2, <1>3, <1>4, <1>5, <1>6

\* The level computed from an anchor is a level.
LEMMA LevelFromAnchorType ==
  ASSUME NEW a \in Level, NEW m \in Nat, NEW n \in Nat
  PROVE  LevelFromAnchor(a, m, n) \in Level
<1>1. a - AtLeast(n - m, 0) \in Int
  BY LedgerConstants DEF Level, AtLeast
<1> QED
  BY <1>1, ClampType DEF LevelFromAnchor

LEMMA AfterReadingType ==
  ASSUME NEW row \in Tank, NEW k \in 0..MaxRecord
  PROVE  AfterReading(row, k) \in Tank
<1> DEFINE new == AfterReading(row, k)
<1>1. new = [level |-> new.level, anchorLevel |-> new.anchorLevel, modelled |-> new.modelled,
             anchorModelled |-> new.anchorModelled, last |-> new.last, origin |-> new.origin]
  BY DEF AfterReading
<1>2. new.level \in Level
  BY AfterReadingFields, LevelFromAnchorType
<1>3. new.origin \in 0..MaxRecord
  BY AfterReadingFields DEF Tank
<1>4. /\ new.modelled \in Nat /\ new.anchorModelled \in Nat /\ new.anchorLevel \in Level
      /\ new.last \in 0..MaxRecord
  BY AfterReadingFields
<1> HIDE DEF new
<1>5. new \in Tank
  BY <1>1, <1>2, <1>3, <1>4 DEF Tank
<1> QED
  BY <1>5 DEF new

\* The row initTank writes.
LEMMA NewTankType == NewTank \in Tank
<1>1. Capacity \div 2 \in Level
  BY LedgerConstants DEF Level
<1> QED
  BY <1>1, LedgerConstants DEF NewTank, Tank, NoAnchor

LEMMA IdleFrameType == IdleFrame \in FrameState
  BY NewTankType, LedgerConstants DEF IdleFrame, FrameState

LEMMA NoFloorType == NoFloor \in FloorState
  BY LedgerConstants DEF NoFloor, FloorState

LEMMA IdleEntryType == IdleEntry \in EntryState
  BY LedgerConstants DEF IdleEntry, EntryState, Level

LEMMA MovedType == ASSUME entry \in EntryState, NEW level \in Level PROVE Moved(level) \in Level
  BY LedgerConstants DEF Moved, EntryState, AtMost, AtLeast, Level

-----------------------------------------------------------------------------
(* Types                                                                   *)

LEMMA TankTypesInit == Init => TankTypes
<1> SUFFICES ASSUME Init PROVE TankTypes
  OBVIOUS
<1>1. frame \in [Frames -> FrameState]
  BY IdleFrameType DEF Init
<1>2. tank \in Tank /\ floor \in FloorState /\ entry \in EntryState
  BY NewTankType, NoFloorType, IdleEntryType DEF Init
<1> QED
  BY <1>1, <1>2 DEF Init, TankTypes

\* A handler that moves on keeps its type.
LEMMA FrameMoves ==
  ASSUME frame \in [Frames -> FrameState], NEW f \in Frames, NEW s \in FrameState
  PROVE  [frame EXCEPT ![f] = s] \in [Frames -> FrameState]
  OBVIOUS

\* Types are preserved by every step.
LEMMA TankTypesNext == TankTypes /\ [Next]_vars => TankTypes'
<1> SUFFICES ASSUME TankTypes, [Next]_vars PROVE TankTypes'
  OBVIOUS
<1> USE LedgerConstants DEF TankTypes
<1>1. ASSUME NEW f \in Frames, NEW k \in Record, ReadTank(f, k) PROVE TankTypes'
  <2>1. k \in 0..MaxRecord
    BY DEF Record
  <2>2. [IdleFrame EXCEPT !.pc = "read", !.at = k, !.row = tank] \in FrameState
    BY <2>1, IdleFrameType DEF FrameState
  <2> QED
    BY <1>1, <2>2, FrameMoves DEF ReadTank
<1>2. ASSUME NEW f \in Frames, WriteTank(f) PROVE TankTypes'
  <2>1. frame[f].row \in Tank /\ frame[f].at \in 0..MaxRecord
    BY DEF FrameState
  <2>2. Hop(frame[f].row, frame[f].at) \in Nat
    BY <2>1, HopType
  <2>3. tank' \in Tank
    BY <1>2, <2>1, AfterReadingType DEF WriteTank
  <2>4. [frame[f] EXCEPT !.pc = "priced", !.burn = Hop(frame[f].row, frame[f].at),
                         !.row = NewTank] \in FrameState
    BY <2>2, NewTankType DEF FrameState
  <2>5. frame' = [frame EXCEPT ![f] =
          [frame[f] EXCEPT !.pc = "priced", !.burn = Hop(frame[f].row, frame[f].at),
                           !.row = NewTank]]
    BY <1>2 DEF WriteTank, FrameState
  <2>6. backstep' \in BOOLEAN
    BY <1>2 DEF WriteTank
  <2> QED
    BY <1>2, <2>3, <2>4, <2>5, <2>6, FrameMoves DEF WriteTank
<1>3. ASSUME NEW f \in Frames, ReadingFails(f) PROVE TankTypes'
  <2>1. [frame[f] EXCEPT !.pc = "priced", !.burn = 0, !.row = NewTank] \in FrameState
    BY NewTankType DEF FrameState
  <2>2. frame' = [frame EXCEPT ![f] =
          [frame[f] EXCEPT !.pc = "priced", !.burn = 0, !.row = NewTank]]
    BY <1>3 DEF ReadingFails, FrameState
  <2> QED
    BY <1>3, <2>1, <2>2, FrameMoves DEF ReadingFails
<1>4. ASSUME NEW f \in Frames, NEW event \in BOOLEAN, NEW ign \in BOOLEAN, ApplyFloor(f, event, ign)
      PROVE TankTypes'
  <2>1. frame[f].burn \in Nat /\ floor.carried \in Nat
    BY DEF FrameState, FloorState
  <2>2. [frame[f] EXCEPT !.pc = "insert", !.ign = ign, !.burn = @ + floor.carried] \in FrameState
    <3>1. frame[f].burn + floor.carried \in Nat
      BY <2>1
    <3>2. frame[f] \in FrameState
      OBVIOUS
    <3> QED
      BY <3>1, <3>2 DEF FrameState
  <2>3. floor' \in FloorState
    BY <1>4, <2>1 DEF ApplyFloor, FloorState
  <2>4. \/ frame' = [frame EXCEPT ![f] = IdleFrame]
        \/ frame' = [frame EXCEPT ![f] =
             [frame[f] EXCEPT !.pc = "insert", !.ign = ign, !.burn = @ + floor.carried]]
    BY <1>4 DEF ApplyFloor, FrameState
  <2>5. frame' \in [Frames -> FrameState]
    BY <2>2, <2>4, IdleFrameType, FrameMoves
  <2> QED
    BY <1>4, <2>3, <2>5 DEF ApplyFloor
<1>5. ASSUME NEW f \in Frames, InsertRow(f) PROVE TankTypes'
  <2>1. floor' \in FloorState
    BY <1>5 DEF InsertRow, FloorState, FrameState
  <2> QED
    BY <1>5, <2>1, IdleFrameType, FrameMoves DEF InsertRow
<1>6. ASSUME NEW f \in Frames, InsertFails(f) PROVE TankTypes'
  BY <1>6, IdleFrameType, FrameMoves DEF InsertFails
<1>7. ASSUME NEW level \in Level, Calibrate(level) PROVE TankTypes'
  BY <1>7 DEF Calibrate, Tank
<1>8. ASSUME NEW kind \in {"refuel", "debit"}, NEW amount \in Level, ReadLevel(kind, amount)
      PROVE TankTypes'
  <2>1. tank.level \in Level
    BY DEF Tank
  <2> QED
    BY <1>8, <2>1 DEF ReadLevel, EntryState
<1>9. CASE WriteLevel
  <2>1. Moved(entry.level) \in Level
    BY MovedType DEF EntryState
  <2>2. tank' \in Tank
    BY <1>9, <2>1 DEF WriteLevel, Tank
  <2>3. entry' \in EntryState
    BY <1>9, IdleEntryType DEF WriteLevel
  <2> QED
    BY <1>9, <2>2, <2>3 DEF WriteLevel
<1>10. CASE Restart
  <2>1. frame' \in [Frames -> FrameState]
    BY <1>10, IdleFrameType DEF Restart
  <2>2. floor' \in FloorState
    <3>1. floor' = floor \/ floor' = NoFloor
      BY <1>10 DEF Restart
    <3> QED
      BY <3>1, NoFloorType
  <2>3. entry' \in EntryState
    BY <1>10, IdleEntryType DEF Restart
  <2> QED
    BY <1>10, <2>1, <2>2, <2>3 DEF Restart
<1>11. CASE UNCHANGED vars
  BY <1>11 DEF vars
<1> QED
  BY <1>1, <1>2, <1>3, <1>4, <1>5, <1>6, <1>7, <1>8, <1>9, <1>10, <1>11 DEF Next, Handler, Entry

\* The tank, the floor and everything that works on them keep their types.
THEOREM TankTypesCorrect == Spec => []TankTypes
  BY TankTypesInit, TankTypesNext, PTL DEF Spec

-----------------------------------------------------------------------------
(* The modelled burn is a distance                                         *)

\* The burn modelled in a row is the distance from where the row began to count.
Distance(row) == row.modelled = IF row.last = 0 THEN 0 ELSE row.last - row.origin

\* Until a record arrives out of order this holds of the row and of every copy a suspended
\* reading holds: a reading that writes an old copy back writes a true total back.
Distances == ~backstep => Distance(tank) /\ \A f \in Frames : Distance(frame[f].row)

LEMMA NewTankDistance == Distance(NewTank)
  BY DEF Distance, NewTank

\* A reading that is not older than its row adds the distance between the two.
LEMMA ReadingDistance ==
  ASSUME NEW row \in Tank, NEW k \in 0..MaxRecord, Distance(row), ~(k < row.last)
  PROVE  Distance(AfterReading(row, k))
<1> DEFINE new == AfterReading(row, k)
<1>1. /\ new.modelled = row.modelled + Hop(row, k)
      /\ new.last = k
      /\ new.origin = IF row.last = 0 THEN k ELSE row.origin
  BY AfterReadingFields
<1>2. row.last \in Nat /\ row.origin \in Int /\ row.modelled \in Int /\ k \in Nat
  BY LedgerConstants DEF Tank
<1>3. Hop(row, k) = IF row.last = 0 THEN 0 ELSE k - row.last
  BY <1>2 DEF Hop, AtLeast
<1> HIDE DEF new
<1>4. Distance(new)
  BY <1>1, <1>2, <1>3 DEF Distance
<1> QED
  BY <1>4 DEF new

LEMMA DistancesNext == TankTypes /\ Distances /\ [Next]_vars => Distances'
<1> SUFFICES ASSUME TankTypes, Distances, [Next]_vars, ~backstep' PROVE
      Distance(tank)' /\ \A f \in Frames : Distance(frame[f].row)'
  BY DEF Distances
<1> DEFINE Goal == Distance(tank)' /\ \A f \in Frames : Distance(frame[f].row)'
<1> SUFFICES Goal
  OBVIOUS
<1> USE DEF TankTypes, Distances
<1>1. ASSUME NEW f \in Frames, NEW k \in Record, ReadTank(f, k) PROVE Goal
  <2>1. tank' = tank /\ frame'[f].row = tank
    BY <1>1 DEF ReadTank, IdleFrame
  <2>2. \A g \in Frames \ {f} : frame'[g] = frame[g]
    BY <1>1 DEF ReadTank
  <2>3. ~backstep
    BY <1>1 DEF ReadTank
  <2> QED
    BY <2>1, <2>2, <2>3 DEF Distance
<1>2. ASSUME NEW f \in Frames, WriteTank(f) PROVE Goal
  <2>1. frame[f].row \in Tank /\ frame[f].at \in 0..MaxRecord
    BY DEF FrameState
  <2>2. ~backstep /\ ~(frame[f].at < frame[f].row.last)
    BY <1>2 DEF WriteTank
  <2>3. tank' = AfterReading(frame[f].row, frame[f].at)
    BY <1>2 DEF WriteTank
  <2>4. Distance(tank)'
    BY <2>1, <2>2, <2>3, ReadingDistance DEF Distance
  <2>5. frame'[f].row = NewTank /\ \A g \in Frames \ {f} : frame'[g] = frame[g]
    BY <1>2 DEF WriteTank, FrameState
  <2> QED
    BY <2>2, <2>4, <2>5, NewTankDistance DEF Distance
<1>3. ASSUME NEW f \in Frames, ReadingFails(f) PROVE Goal
  <2>1. frame'[f].row = NewTank /\ \A g \in Frames \ {f} : frame'[g] = frame[g]
    BY <1>3 DEF ReadingFails, FrameState
  <2>2. tank' = tank /\ ~backstep
    BY <1>3 DEF ReadingFails
  <2> QED
    BY <2>1, <2>2, NewTankDistance DEF Distance
<1>4. ASSUME NEW f \in Frames, NEW event \in BOOLEAN, NEW ign \in BOOLEAN,
             ApplyFloor(f, event, ign) \/ InsertRow(f) \/ InsertFails(f)
      PROVE Goal
  <2>1. frame'[f].row \in {frame[f].row, NewTank} /\ \A g \in Frames \ {f} : frame'[g] = frame[g]
    BY <1>4 DEF ApplyFloor, InsertRow, InsertFails, FrameState, IdleFrame
  <2>2. tank' = tank /\ ~backstep
    BY <1>4 DEF ApplyFloor, InsertRow, InsertFails
  <2> QED
    BY <2>1, <2>2, NewTankDistance DEF Distance
<1>5. ASSUME NEW level \in Level, Calibrate(level) PROVE Goal
  BY <1>5 DEF Calibrate, Distance, Tank
<1>6. CASE WriteLevel
  BY <1>6 DEF WriteLevel, Distance, Tank
<1>7. CASE Restart
  <2>1. tank' = tank /\ ~backstep /\ \A g \in Frames : frame'[g].row = NewTank
    BY <1>7 DEF Restart, IdleFrame
  <2> QED
    BY <2>1, NewTankDistance DEF Distance
<1>8. CASE UNCHANGED <<tank, frame, backstep>>
  BY <1>8 DEF Distance
<1> QED
  BY <1>1, <1>2, <1>3, <1>4, <1>5, <1>6, <1>7, <1>8
  DEF Next, Handler, Entry, ReadLevel, vars

\* Readings that overlap, fail or race a calibration never make the modelled burn anything
\* but the distance between two odometers, until a record arrives out of order.
THEOREM ModelledIsDistanceAlways == Spec => []ModelledIsDistance
<1>1. Init => Distances
  <2>1. ASSUME Init PROVE Distance(tank)
    BY <2>1, NewTankDistance DEF Init
  <2>2. ASSUME Init, NEW f \in Frames PROVE Distance(frame[f].row)
    <3>1. frame[f].row = NewTank
      BY <2>2 DEF Init, IdleFrame
    <3> QED
      BY <3>1, NewTankDistance
  <2> QED
    BY <2>1, <2>2 DEF Distances
<1>2. Distances => ModelledIsDistance
  BY DEF Distances, Distance, ModelledIsDistance
<1> QED
  BY <1>1, <1>2, DistancesNext, TankTypesCorrect, PTL DEF Spec

-----------------------------------------------------------------------------
(* The level stands                                                        *)

Stands(row) == AfterReading(row, row.last).level = row.level

\* A reading at the odometer the row already has books no hop.
LEMMA NoHop == ASSUME NEW row \in Tank PROVE Hop(row, row.last) = 0
<1>1. row.last \in Int
  BY LedgerConstants DEF Tank
<1> QED
  BY <1>1 DEF Hop, AtLeast

\* What a reading computes is what the next one computes again: it leaves its anchor behind.
LEMMA ReadingStands ==
  ASSUME NEW row \in Tank, NEW k \in 0..MaxRecord
  PROVE  Stands(AfterReading(row, k))
<1> DEFINE new == AfterReading(row, k)
<1>1. new \in Tank
  BY AfterReadingType
<1>2. new.anchorModelled \in Nat /\ new.anchorLevel \in Level /\ new.modelled \in Nat
  BY AfterReadingFields
<1>3. new.level = LevelFromAnchor(new.anchorLevel, new.anchorModelled, new.modelled)
  BY AfterReadingFields
<1> HIDE DEF new
<1>4. Hop(new, new.last) = 0
  BY <1>1, NoHop
<1>5. new.anchorModelled # NoAnchor /\ new.anchorLevel # NoAnchor
  BY <1>2, LedgerConstants DEF NoAnchor, Level
<1>6. new.modelled + 0 = new.modelled
  BY <1>2
<1>7. AfterReading(new, new.last).level
        = LevelFromAnchor(new.anchorLevel, new.anchorModelled, new.modelled)
  BY <1>4, <1>5, <1>6 DEF AfterReading
<1> QED
  BY <1>3, <1>7 DEF Stands, new

\* A row anchored at the burn modelled so far shows the level of its anchor.
LEMMA AnchoredStands ==
  ASSUME NEW row \in Tank, row.anchorModelled \in {row.modelled, NoAnchor},
         row.anchorLevel \in {row.level, NoAnchor}
  PROVE  Stands(row)
<1>1. Hop(row, row.last) = 0
  BY NoHop
<1>2. row.modelled \in Nat /\ row.level \in Level
  BY DEF Tank
<1>3. row.modelled + 0 = row.modelled
  BY <1>2
<1>4. row.modelled # NoAnchor /\ row.level # NoAnchor
  BY <1>2, LedgerConstants DEF NoAnchor, Level
<1>5. AfterReading(row, row.last).level = LevelFromAnchor(row.level, row.modelled, row.modelled)
  BY <1>1, <1>3, <1>4 DEF AfterReading
<1>6. row.level - AtLeast(row.modelled - row.modelled, 0) = row.level
  BY <1>2, LedgerConstants DEF AtLeast, Level
<1>7. LevelFromAnchor(row.level, row.modelled, row.modelled) = Clamp(row.level)
  BY <1>6 DEF LevelFromAnchor
<1> QED
  BY <1>2, <1>5, <1>7, ClampLevel DEF Stands

LEMMA StandsNext == TankTypes /\ TankTypes' /\ Stands(tank) /\ [Next]_vars => Stands(tank)'
<1> SUFFICES ASSUME TankTypes, TankTypes', Stands(tank), [Next]_vars PROVE Stands(tank)'
  OBVIOUS
<1> USE DEF TankTypes
<1>1. ASSUME NEW f \in Frames, WriteTank(f) PROVE Stands(tank)'
  <2>1. frame[f].row \in Tank /\ frame[f].at \in 0..MaxRecord
    BY DEF FrameState
  <2>2. tank' = AfterReading(frame[f].row, frame[f].at)
    BY <1>1 DEF WriteTank
  <2> QED
    BY <2>1, <2>2, ReadingStands DEF Stands
<1>2. ASSUME NEW level \in Level, Calibrate(level) PROVE Stands(tank)'
  <2>1. /\ tank'.anchorModelled = tank'.modelled
        /\ tank'.anchorLevel = NoAnchor
    BY <1>2 DEF Calibrate, Tank
  <2>2. Stands(tank')
    BY <2>1, AnchoredStands
  <2> QED
    BY <2>2 DEF Stands
<1>3. CASE WriteLevel
  <2>1. /\ tank'.anchorModelled = tank'.modelled
        /\ tank'.anchorLevel = tank'.level
    BY <1>3 DEF WriteLevel, Tank
  <2>2. Stands(tank')
    BY <2>1, AnchoredStands
  <2> QED
    BY <2>2 DEF Stands
<1>4. CASE UNCHANGED tank
  BY <1>4 DEF Stands
<1> QED
  BY <1>1, <1>2, <1>3, <1>4
  DEF Next, Handler, Entry, ReadTank, ReadingFails, ApplyFloor, InsertRow, InsertFails, ReadLevel,
      Restart, vars

\* The level a vehicle that stands still is shown does not jump at its next record, whatever
\* wrote the tank last and whatever it raced.
THEOREM LevelStandsAlways == Spec => []LevelStands
<1>1. Init => Stands(tank)
  BY NewTankType, AnchoredStands DEF Init, NewTank
<1>2. Stands(tank) => LevelStands
  BY DEF Stands, LevelStands
<1> QED
  BY <1>1, <1>2, StandsNext, TankTypesCorrect, PTL DEF Spec

-----------------------------------------------------------------------------
(* The level that is due                                                   *)

\* The anchor of a row: none before the first reading or entry, else not ahead of the burn
\* modelled, and exactly there while a calibration has left no level with it.
Anchored(row) ==
  IF row.anchorModelled = NoAnchor
  THEN row.anchorLevel = NoAnchor /\ row.last = 0
  ELSE row.anchorModelled <= row.modelled
       /\ (row.anchorLevel = NoAnchor => row.anchorModelled = row.modelled)

AllAnchored == Anchored(tank) /\ \A f \in Frames : Anchored(frame[f].row)

\* Burn beyond the anchor comes off the level, down to an empty tank.
LEMMA BurnLowers ==
  ASSUME NEW a \in Level, NEW m \in Nat, NEW n \in Nat, NEW h \in Nat, m <= n
  PROVE  LevelFromAnchor(a, m, n + h) = AtLeast(LevelFromAnchor(a, m, n) - h, 0)
  BY LedgerConstants DEF LevelFromAnchor, Clamp, AtMost, AtLeast, Level

\* A reading takes its hop off the level of the row it read, wherever the anchor is.
LEMMA ReadingLowers ==
  ASSUME NEW row \in Tank, NEW k \in 0..MaxRecord, Anchored(row), Stands(row)
  PROVE  AfterReading(row, k).level = AtLeast(row.level - Hop(row, k), 0)
<1> DEFINE h == Hop(row, k)
<1>1. h \in Nat /\ row.modelled \in Nat /\ row.level \in Level
  BY HopType DEF Tank
<1>2. Hop(row, row.last) = 0 /\ row.modelled + 0 = row.modelled
  BY <1>1, NoHop
<1>3. AfterReading(row, k).level =
        LevelFromAnchor(IF row.anchorLevel = NoAnchor THEN row.level ELSE row.anchorLevel,
                        IF row.anchorModelled = NoAnchor THEN row.modelled + h
                                                         ELSE row.anchorModelled,
                        row.modelled + h)
  BY DEF AfterReading
<1>4. row.level =
        LevelFromAnchor(IF row.anchorLevel = NoAnchor THEN row.level ELSE row.anchorLevel,
                        IF row.anchorModelled = NoAnchor THEN row.modelled
                                                         ELSE row.anchorModelled,
                        row.modelled)
  BY <1>2 DEF AfterReading, Stands
<1>5. CASE row.anchorModelled = NoAnchor
  <2>1. h = 0 /\ row.modelled + h = row.modelled
    BY <1>1, <1>5 DEF Anchored, Hop
  <2>2. AfterReading(row, k).level = row.level
    BY <1>3, <1>4, <1>5, <2>1
  <2> QED
    BY <1>1, <2>1, <2>2, LedgerConstants DEF AtLeast, Level
<1>6. CASE row.anchorModelled # NoAnchor
  <2> DEFINE a == IF row.anchorLevel = NoAnchor THEN row.level ELSE row.anchorLevel
  <2>1. a \in Level /\ row.anchorModelled \in Nat /\ row.anchorModelled <= row.modelled
    BY <1>1, <1>6 DEF Tank, Anchored
  <2>2. row.level = LevelFromAnchor(a, row.anchorModelled, row.modelled)
    BY <1>4, <1>6
  <2>3. AfterReading(row, k).level = LevelFromAnchor(a, row.anchorModelled, row.modelled + h)
    BY <1>3, <1>6
  <2> HIDE DEF a, h
  <2>4. LevelFromAnchor(a, row.anchorModelled, row.modelled + h)
          = AtLeast(LevelFromAnchor(a, row.anchorModelled, row.modelled) - h, 0)
    BY <1>1, <2>1, BurnLowers
  <2>5. AfterReading(row, k).level = AtLeast(row.level - h, 0)
    BY <2>2, <2>3, <2>4
  <2> QED
    BY <2>5 DEF h
<1> QED
  BY <1>5, <1>6

\* A reading leaves an anchor that is not ahead of the burn.
LEMMA ReadingAnchored ==
  ASSUME NEW row \in Tank, NEW k \in 0..MaxRecord, Anchored(row)
  PROVE  Anchored(AfterReading(row, k))
<1> DEFINE new == AfterReading(row, k)
<1>1. /\ new.modelled = row.modelled + Hop(row, k)
      /\ new.anchorModelled \in Nat /\ new.anchorLevel \in Level
  BY AfterReadingFields
<1>2. Hop(row, k) \in Nat /\ row.modelled \in Nat
  BY HopType DEF Tank
<1>3. new.anchorModelled = IF row.anchorModelled = NoAnchor THEN row.modelled + Hop(row, k)
                                                            ELSE row.anchorModelled
  BY DEF AfterReading
<1>4. new.anchorModelled <= new.modelled
  <2>1. CASE row.anchorModelled = NoAnchor
    BY <1>1, <1>2, <1>3, <2>1
  <2>2. CASE row.anchorModelled # NoAnchor
    <3>1. row.anchorModelled \in Nat /\ row.anchorModelled <= row.modelled
      BY <2>2 DEF Anchored, Tank
    <3> QED
      BY <1>1, <1>2, <1>3, <2>2, <3>1
  <2> QED
    BY <2>1, <2>2
<1>5. new.anchorModelled # NoAnchor /\ new.anchorLevel # NoAnchor
  BY <1>1, LedgerConstants DEF NoAnchor, Level
<1> HIDE DEF new
<1>6. Anchored(new)
  BY <1>4, <1>5 DEF Anchored
<1> QED
  BY <1>6 DEF new

LEMMA NewTankAnchored == Anchored(NewTank)
  BY DEF Anchored, NewTank

\* What an entry writes is anchored at the burn modelled so far.
LEMMA EntryAnchored == ASSUME NEW row \in Tank, row.anchorModelled = row.modelled PROVE Anchored(row)
<1>1. row.modelled \in Nat
  BY DEF Tank
<1> QED
  BY <1>1 DEF Anchored, NoAnchor

LEMMA AnchoredNext == TankTypes /\ TankTypes' /\ AllAnchored /\ [Next]_vars => AllAnchored'
<1> SUFFICES ASSUME TankTypes, TankTypes', AllAnchored, [Next]_vars PROVE AllAnchored'
  OBVIOUS
<1> USE DEF TankTypes, AllAnchored
<1>1. ASSUME NEW f \in Frames, NEW k \in Record, ReadTank(f, k) PROVE AllAnchored'
  <2>1. /\ tank' = tank /\ frame'[f].row = tank
        /\ \A g \in Frames \ {f} : frame'[g] = frame[g]
    BY <1>1 DEF ReadTank, IdleFrame
  <2> QED
    BY <2>1 DEF Anchored
<1>2. ASSUME NEW f \in Frames, WriteTank(f) PROVE AllAnchored'
  <2>1. frame[f].row \in Tank /\ frame[f].at \in 0..MaxRecord
    BY DEF FrameState
  <2>2. tank' = AfterReading(frame[f].row, frame[f].at)
    BY <1>2 DEF WriteTank
  <2>3. Anchored(tank)'
    BY <2>1, <2>2, ReadingAnchored DEF Anchored
  <2>4. frame'[f].row = NewTank /\ \A g \in Frames \ {f} : frame'[g] = frame[g]
    BY <1>2 DEF WriteTank, FrameState
  <2> QED
    BY <2>3, <2>4, NewTankAnchored DEF Anchored
<1>3. ASSUME NEW f \in Frames, NEW event \in BOOLEAN, NEW ign \in BOOLEAN,
             \/ ReadingFails(f)
             \/ ApplyFloor(f, event, ign) \/ InsertRow(f) \/ InsertFails(f)
      PROVE AllAnchored'
  <2>1. frame'[f].row \in {frame[f].row, NewTank} /\ \A g \in Frames \ {f} : frame'[g] = frame[g]
    BY <1>3 DEF ReadingFails, ApplyFloor, InsertRow, InsertFails, FrameState, IdleFrame
  <2>2. tank' = tank
    BY <1>3 DEF ReadingFails, ApplyFloor, InsertRow, InsertFails
  <2> QED
    BY <2>1, <2>2, NewTankAnchored DEF Anchored
<1>4. ASSUME (\E level \in Level : Calibrate(level)) \/ WriteLevel PROVE AllAnchored'
  <2>1. tank'.anchorModelled = tank'.modelled /\ frame' = frame
    BY <1>4 DEF Calibrate, WriteLevel, Tank
  <2>2. Anchored(tank')
    BY <2>1, EntryAnchored
  <2> QED
    BY <2>1, <2>2 DEF Anchored
<1>5. CASE Restart
  <2>1. tank' = tank /\ \A g \in Frames : frame'[g].row = NewTank
    BY <1>5 DEF Restart, IdleFrame
  <2> QED
    BY <2>1, NewTankAnchored DEF Anchored
<1>6. CASE UNCHANGED <<tank, frame>>
  BY <1>6 DEF Anchored
<1> QED
  BY <1>1, <1>2, <1>3, <1>4, <1>5, <1>6
  DEF Next, Handler, Entry, ReadLevel, vars

LEMMA DueNext ==
  TankTypes /\ AllAnchored /\ Stands(tank) /\ LevelIsDue /\ [Next]_vars => LevelIsDue'
<1> SUFFICES ASSUME TankTypes, AllAnchored, Stands(tank), LevelIsDue, [Next]_vars, ~stale'
             PROVE  tank'.level = due'
  BY DEF LevelIsDue
<1> USE DEF TankTypes, LevelIsDue
<1>1. ASSUME NEW f \in Frames, WriteTank(f) PROVE tank'.level = due'
  <2>1. /\ ~stale /\ frame[f].row = tank
        /\ tank' = AfterReading(tank, frame[f].at)
        /\ due' = AtLeast(due - Hop(tank, frame[f].at), 0)
    BY <1>1 DEF WriteTank
  <2>2. frame[f].at \in 0..MaxRecord
    BY DEF FrameState
  <2> QED
    BY <2>1, <2>2, ReadingLowers DEF AllAnchored
<1>2. ASSUME NEW level \in Level, Calibrate(level) PROVE tank'.level = due'
  BY <1>2 DEF Calibrate, Tank
<1>3. CASE WriteLevel
  <2>1. ~stale /\ entry.level = tank.level
    BY <1>3 DEF WriteLevel
  <2>2. tank'.level = Moved(entry.level) /\ due' = Moved(due)
    BY <1>3 DEF WriteLevel, Tank
  <2> QED
    BY <2>1, <2>2
<1>4. CASE UNCHANGED <<tank, due, stale>>
  BY <1>4
<1> QED
  BY <1>1, <1>2, <1>3, <1>4
  DEF Next, Handler, Entry, ReadTank, ReadingFails, ApplyFloor, InsertRow, InsertFails, ReadLevel,
      Restart, vars

\* The level is what every hop, calibration, refuel and debit makes of the level before it,
\* as long as nobody wrote the tank from an old row: the anchored computation of the code is
\* the running subtraction it replaces, for every capacity and any number of handlers.
THEOREM LevelIsDueAlways == Spec => []LevelIsDue
<1>1. Init => AllAnchored
  <2>1. Init => Anchored(tank)
    BY NewTankAnchored DEF Init
  <2>2. ASSUME Init, NEW f \in Frames PROVE Anchored(frame[f].row)
    <3>1. frame[f].row = NewTank
      BY <2>2 DEF Init, IdleFrame
    <3> QED
      BY <3>1, NewTankAnchored
  <2> QED
    BY <2>1, <2>2 DEF AllAnchored
<1>2. Init => Stands(tank) /\ LevelIsDue
  BY NewTankType, AnchoredStands DEF Init, NewTank, LevelIsDue
<1> QED
  BY <1>1, <1>2, AnchoredNext, StandsNext, DueNext, TankTypesCorrect, PTL DEF Spec

-----------------------------------------------------------------------------
(* The burn in flight                                                      *)

\* The millilitres of one handler, and those of a set of handlers.
DropsOf(f, n) == {f} \X (1..n)
Drops(S, burn) == UNION {DropsOf(f, burn[f]) : f \in S}

\* A handler that holds n millilitres contributes n.
LEMMA DropsOfCount ==
  ASSUME NEW f, NEW n \in Nat
  PROVE  IsFiniteSet(DropsOf(f, n)) /\ Cardinality(DropsOf(f, n)) = n
<1>1. IsFiniteSet({f}) /\ Cardinality({f}) = 1
  BY FS_Singleton
<1>2. IsFiniteSet(1..n) /\ Cardinality(1..n) = n
  BY FS_Interval
<1>3. /\ IsFiniteSet({f} \X (1..n))
      /\ Cardinality({f} \X (1..n)) = Cardinality({f}) * Cardinality(1..n)
  BY <1>1, <1>2, FS_Product, Zenon
<1>4. Cardinality({f}) * Cardinality(1..n) = n
  BY <1>1, <1>2
<1> QED
  BY <1>3, <1>4, Zenon DEF DropsOf

LEMMA DropsFinite ==
  ASSUME NEW S, IsFiniteSet(S), NEW burn \in [S -> Nat]
  PROVE  IsFiniteSet(Drops(S, burn))
<1> DEFINE T == {DropsOf(f, burn[f]) : f \in S}
           of == [f \in S |-> DropsOf(f, burn[f])]
<1>1. of \in Surjection(S, T)
  BY DEF Surjection
<1>2. IsFiniteSet(T)
  BY <1>1, FS_Surjection
<1>3. \A D \in T : IsFiniteSet(D)
  BY DropsOfCount
<1>4. IsFiniteSet(UNION T)
  BY <1>2, <1>3, FS_UNION
<1> QED
  BY <1>4 DEF Drops

\* The sum of all handlers is one of them plus the others.
LEMMA DropsSplit ==
  ASSUME NEW S, IsFiniteSet(S), NEW burn \in [S -> Nat], NEW f \in S
  PROVE  /\ Cardinality(Drops(S, burn)) = Cardinality(Drops(S \ {f}, burn)) + burn[f]
         /\ Cardinality(Drops(S \ {f}, burn)) \in Nat
<1> DEFINE Others == Drops(S \ {f}, burn)
           Own == DropsOf(f, burn[f])
<1>1. IsFiniteSet(S \ {f})
  BY FS_RemoveElement
<1>2. IsFiniteSet(Others)
  <2>1. [g \in S \ {f} |-> burn[g]] \in [S \ {f} -> Nat]
    OBVIOUS
  <2>2. IsFiniteSet(Drops(S \ {f}, [g \in S \ {f} |-> burn[g]]))
    BY <1>1, <2>1, DropsFinite
  <2>3. Drops(S \ {f}, [g \in S \ {f} |-> burn[g]]) = Others
    BY DEF Drops
  <2> QED
    BY <2>2, <2>3
<1>3. IsFiniteSet(Own) /\ Cardinality(Own) = burn[f]
  BY DropsOfCount
<1>4. Drops(S, burn) = Others \union Own
  BY DEF Drops
<1>5. Others \cap Own = {}
  BY DEF Drops, DropsOf
<1>6. Cardinality(Others \cap Own) = 0
  BY <1>5, FS_EmptySet
<1>7. Cardinality(Others) \in Nat
  BY <1>2, FS_CardinalityType
<1> HIDE DEF Others, Own
<1>8. Cardinality(Others \union Own) = Cardinality(Others) + Cardinality(Own) - Cardinality(Others \cap Own)
  BY <1>2, <1>3, FS_Union
<1>9. Cardinality(Drops(S, burn)) = Cardinality(Others) + burn[f]
  BY <1>3, <1>4, <1>6, <1>7, <1>8
<1> QED
  BY <1>7, <1>9 DEF Others

\* When one handler's burn changes, the sum changes by as much.
LEMMA DropsChange ==
  ASSUME NEW S, IsFiniteSet(S), NEW burn \in [S -> Nat], NEW new \in [S -> Nat], NEW f \in S,
         \A g \in S \ {f} : new[g] = burn[g]
  PROVE  /\ Cardinality(Drops(S, new)) = Cardinality(Drops(S, burn)) - burn[f] + new[f]
         /\ Cardinality(Drops(S, new)) \in Nat
<1>1. Drops(S \ {f}, new) = Drops(S \ {f}, burn)
  BY DEF Drops
<1>2. /\ Cardinality(Drops(S, burn)) = Cardinality(Drops(S \ {f}, burn)) + burn[f]
      /\ Cardinality(Drops(S \ {f}, burn)) \in Nat
  BY DropsSplit
<1>3. /\ Cardinality(Drops(S, new)) = Cardinality(Drops(S \ {f}, new)) + new[f]
      /\ Cardinality(Drops(S \ {f}, new)) \in Nat
  BY DropsSplit
<1>4. burn[f] \in Nat /\ new[f] \in Nat
  OBVIOUS
<1> QED
  BY <1>1, <1>2, <1>3, <1>4

\* What each handler holds.
Burns == [f \in Frames |-> frame[f].burn]

LEMMA BurnsType == frame \in [Frames -> FrameState] => Burns \in [Frames -> Nat]
  BY DEF Burns, FrameState

\* The drops of a table of burns are those of the records it was read from.
LEMMA DropsOfRecords ==
  ASSUME NEW S, NEW burn, NEW rec, \A f \in S : burn[f] = rec[f].burn
  PROVE  Drops(S, burn) = UNION {{f} \X (1..rec[f].burn) : f \in S}
<1>1. \A f \in S : DropsOf(f, burn[f]) = {f} \X (1..rec[f].burn)
  BY DEF DropsOf
<1>2. {DropsOf(f, burn[f]) : f \in S} = {{f} \X (1..rec[f].burn) : f \in S}
  BY <1>1, Zenon
<1> QED
  BY <1>2, Zenon DEF Drops

LEMMA BurnInFlightIsDrops == BurnInFlight = Cardinality(Drops(Frames, Burns))
<1>1. \A f \in Frames : Burns[f] = frame[f].burn
  BY DEF Burns
<1>2. Drops(Frames, Burns) = UNION {{f} \X (1..frame[f].burn) : f \in Frames}
  BY <1>1, DropsOfRecords
<1> QED
  BY <1>2, Zenon DEF BurnInFlight

LEMMA BurnInFlightType == frame \in [Frames -> FrameState] => BurnInFlight \in Nat
<1> SUFFICES ASSUME frame \in [Frames -> FrameState] PROVE BurnInFlight \in Nat
  OBVIOUS
<1>1. Burns \in [Frames -> Nat]
  BY BurnsType
<1>2. IsFiniteSet(Drops(Frames, Burns))
  BY <1>1, LedgerConstants, DropsFinite
<1> QED
  BY <1>2, FS_CardinalityType, BurnInFlightIsDrops

\* A step of one handler changes the sum by what it changes of the handler's own burn.
LEMMA BurnMoves ==
  ASSUME frame \in [Frames -> FrameState], frame' \in [Frames -> FrameState], NEW f \in Frames,
         \A g \in Frames \ {f} : frame'[g] = frame[g]
  PROVE  /\ BurnInFlight' = BurnInFlight - frame[f].burn + frame'[f].burn
         /\ BurnInFlight' \in Nat
<1>1. Burns \in [Frames -> Nat] /\ Burns' \in [Frames -> Nat]
  BY DEF Burns, FrameState
<1>2. \A g \in Frames \ {f} : Burns'[g] = Burns[g]
  BY DEF Burns
<1>3. BurnInFlight' = Cardinality(Drops(Frames, Burns'))
  <2>1. \A g \in Frames : Burns'[g] = frame'[g].burn
    BY DEF Burns
  <2>2. Drops(Frames, Burns') = UNION {{g} \X (1..frame'[g].burn) : g \in Frames}
    BY <2>1, DropsOfRecords
  <2> QED
    BY <2>2, Zenon DEF BurnInFlight
<1>4. Burns[f] = frame[f].burn /\ Burns'[f] = frame'[f].burn
  BY DEF Burns
<1> DEFINE old == Burns
           new == Burns'
<1>5. \A b, c \in [Frames -> Nat] : (\A g \in Frames \ {f} : c[g] = b[g]) =>
        /\ Cardinality(Drops(Frames, c)) = Cardinality(Drops(Frames, b)) - b[f] + c[f]
        /\ Cardinality(Drops(Frames, c)) \in Nat
  BY LedgerConstants, DropsChange
<1>6. /\ Cardinality(Drops(Frames, Burns')) = Cardinality(Drops(Frames, Burns)) - Burns[f] + Burns'[f]
      /\ Cardinality(Drops(Frames, Burns')) \in Nat
  BY <1>1, <1>2, <1>5, Zenon
<1> QED
  BY <1>3, <1>4, <1>6, BurnInFlightIsDrops

\* Handlers that hold nothing add up to nothing.
LEMMA NoBurn == (\A f \in Frames : frame[f].burn = 0) => BurnInFlight = 0
<1> SUFFICES ASSUME \A f \in Frames : frame[f].burn = 0 PROVE BurnInFlight = 0
  OBVIOUS
<1>1. \A f \in Frames : {f} \X (1..frame[f].burn) = {}
  OBVIOUS
<1>2. UNION {{f} \X (1..frame[f].burn) : f \in Frames} = {}
  BY <1>1
<1> QED
  BY <1>2, FS_EmptySet DEF BurnInFlight

-----------------------------------------------------------------------------
(* The ledger balances                                                     *)

\* A handler holds no burn before its reading is priced.
Unpriced == \A f \in Frames : frame[f].pc \in {"idle", "read"} => frame[f].burn = 0
Totals == booked \in Nat /\ hopped \in Nat

\* As long as no burn was lost, nothing is carried while a row is being written: the carry of
\* before the INSERT, which the floor is set to after it, is the carry there is.
Clean == ~dropped /\ ~overlapped
CarryTaken == \A f \in Frames : frame[f].pc = "insert" => floor.carried = 0

LedgerInv == Totals /\ Unpriced /\ LedgerBalances /\ (Clean => CarryTaken)

LEMMA LedgerInvInit == Init => LedgerInv
<1> SUFFICES ASSUME Init PROVE LedgerInv
  OBVIOUS
<1>1. \A f \in Frames : frame[f].burn = 0
  BY DEF Init, IdleFrame
<1>2. BurnInFlight = 0
  BY <1>1, NoBurn
<1>3. floor.carried = 0 /\ booked = 0 /\ hopped = 0
  BY DEF Init, NoFloor
<1>4. Held = 0
  BY <1>2, <1>3 DEF Held
<1> QED
  BY <1>1, <1>3, <1>4 DEF LedgerInv, Totals, Unpriced, LedgerBalances, CarryTaken

LEMMA LedgerInvNext == TankTypes /\ TankTypes' /\ LedgerInv /\ [Next]_vars => LedgerInv'
<1> SUFFICES ASSUME TankTypes, TankTypes', LedgerInv, [Next]_vars PROVE LedgerInv'
  OBVIOUS
<1> USE DEF TankTypes, LedgerInv, Totals, Clean
<1>0. /\ floor.carried \in Nat /\ floor'.carried \in Nat /\ BurnInFlight \in Nat
      /\ \A f \in Frames : frame[f].burn \in Nat /\ frame'[f].burn \in Nat
  BY BurnInFlightType DEF FloorState, FrameState
<1>b. Held <= hopped /\ (Clean => Held = hopped) /\ Held \in Nat
  BY <1>0 DEF LedgerBalances, Held
<1>e. IdleFrame.pc = "idle" /\ IdleFrame.burn = 0
  BY DEF IdleFrame
\* What one handler does to the books, given what it does to its own burn.
<1>h. ASSUME NEW f \in Frames, Totals',
             \A g \in Frames \ {f} : frame'[g] = frame[g],
             frame'[f].pc \in {"idle", "read"} => frame'[f].burn = 0,
             booked' + floor'.carried + frame'[f].burn - hopped'
               <= booked + floor.carried + frame[f].burn - hopped,
             Clean' => /\ Clean /\ CarryTaken'
                       /\ booked' + floor'.carried + frame'[f].burn - hopped'
                            = booked + floor.carried + frame[f].burn - hopped
      PROVE  LedgerInv'
  <2>1. /\ BurnInFlight' = BurnInFlight - frame[f].burn + frame'[f].burn
        /\ BurnInFlight' \in Nat
    BY <1>h, BurnMoves
  <2>2. Unpriced'
    BY <1>h DEF Unpriced
  <2>3. LedgerBalances'
    <3> DEFINE x == frame[f].burn
               x2 == frame'[f].burn
               b == BurnInFlight
               b2 == BurnInFlight'
               d == booked + floor.carried - hopped
               d2 == booked' + floor'.carried - hopped'
    <3>1. x \in Int /\ x2 \in Int /\ b \in Int /\ b2 \in Int /\ d \in Int /\ d2 \in Int
      BY <1>0, <1>h, <2>1
    <3>2. d2 + x2 <= d + x /\ (Clean' => d2 + x2 = d + x)
      <4>1. /\ booked' + floor'.carried + x2 - hopped' = d2 + x2
            /\ booked + floor.carried + x - hopped = d + x
        BY <1>0, <1>h
      <4> QED
        BY <4>1, <1>h
    <3>3. d + b <= 0 /\ (Clean => d + b = 0)
      <4>1. Held - hopped = d + b
        BY <1>0 DEF Held
      <4> QED
        BY <1>b, <4>1
    <3>4. b2 = b - x + x2
      BY <2>1
    <3>5. Held' - hopped' = d2 + b2
      BY <1>0, <1>h, <2>1 DEF Held
    <3>6. Held' \in Nat /\ hopped' \in Nat
      BY <1>0, <1>h, <2>1 DEF Held
    <3>7. Clean' => Clean
      BY <1>h
    <3> HIDE DEF x, x2, b, b2, d, d2, Clean
    <3>8. d2 + b2 <= 0
      BY <3>1, <3>2, <3>3, <3>4
    <3>9. Clean' => d2 + b2 = 0
      BY <3>1, <3>2, <3>3, <3>4, <3>7
    <3>10. Held' <= hopped' /\ (Clean' => Held' = hopped')
      <4> DEFINE e == d2 + b2
                 p == Held'
                 q == hopped'
      <4>1. p - q = e
        BY <3>5
      <4>2. e \in Int
        BY <3>1
      <4>3. p \in Int /\ q \in Int
        BY <3>6
      <4>4. e <= 0
        BY <3>8
      <4>5. Clean' => e = 0
        BY <3>9
      <4> HIDE DEF e, p, q
      <4>6. p <= q /\ (Clean' => p = q)
        BY <4>1, <4>2, <4>3, <4>4, <4>5
      <4> QED
        BY <4>6 DEF p, q
    <3> QED
      BY <3>10 DEF LedgerBalances, Clean
  <2> QED
    BY <1>h, <2>2, <2>3
<1>1. ASSUME NEW f \in Frames, NEW k \in Record, ReadTank(f, k) PROVE LedgerInv'
  <2>1. frame'[f].pc = "read" /\ frame'[f].burn = 0 /\ \A g \in Frames \ {f} : frame'[g] = frame[g]
    BY <1>1, <1>e DEF ReadTank, IdleFrame
  <2>2. frame[f].burn = 0
    BY <1>1 DEF ReadTank, Unpriced
  <2>3. UNCHANGED <<booked, hopped, floor, dropped, overlapped>>
    BY <1>1 DEF ReadTank, losses
  <2>4. Clean' => CarryTaken'
    BY <2>1, <2>3 DEF CarryTaken
  <2> QED
    BY <1>0, <1>h, <2>1, <2>2, <2>3, <2>4
<1>2. ASSUME NEW f \in Frames, WriteTank(f) PROVE LedgerInv'
  <2> DEFINE hop == Hop(frame[f].row, frame[f].at)
  <2>1. frame[f].row \in Tank /\ frame[f].at \in 0..MaxRecord
    BY DEF FrameState
  <2>2. hop \in Nat
    BY <2>1, HopType
  <2>3. frame'[f].pc = "priced" /\ frame'[f].burn = hop /\ \A g \in Frames \ {f} : frame'[g] = frame[g]
    BY <1>2 DEF WriteTank, FrameState
  <2>4. frame[f].burn = 0
    BY <1>2 DEF WriteTank, Unpriced
  <2>5. hopped' = hopped + hop /\ UNCHANGED <<booked, floor, dropped, overlapped>>
    BY <1>2 DEF WriteTank, losses
  <2> HIDE DEF hop
  <2>6. Totals'
    BY <2>2, <2>5
  <2>7. Clean' => CarryTaken'
    BY <2>3, <2>5 DEF CarryTaken
  <2> QED
    BY <1>h, <1>0, <2>2, <2>3, <2>4, <2>5, <2>6, <2>7
<1>3. ASSUME NEW f \in Frames, ReadingFails(f) PROVE LedgerInv'
  <2>1. frame'[f].pc = "priced" /\ frame'[f].burn = 0 /\ \A g \in Frames \ {f} : frame'[g] = frame[g]
    BY <1>3 DEF ReadingFails, FrameState
  <2>2. /\ dropped' = (dropped \/ frame[f].burn # 0)
        /\ UNCHANGED <<booked, floor, hopped, overlapped>>
    BY <1>3 DEF ReadingFails
  <2>3. Clean' => Clean /\ CarryTaken' /\ frame[f].burn = 0
    BY <2>1, <2>2 DEF CarryTaken
  <2> QED
    BY <1>h, <1>0, <2>1, <2>2, <2>3
<1>4. ASSUME NEW f \in Frames, NEW event \in BOOLEAN, NEW ign \in BOOLEAN, ApplyFloor(f, event, ign)
      PROVE LedgerInv'
  <2>1. UNCHANGED <<booked, hopped, dropped>>
    BY <1>4 DEF ApplyFloor
  <2>2. \A g \in Frames \ {f} : frame'[g] = frame[g]
    BY <1>4 DEF ApplyFloor
  <2>3. CASE Skips(frame[f].at, event, ign)
    <3>1. /\ frame'[f] = IdleFrame /\ floor'.carried = floor.carried + frame[f].burn
          /\ overlapped' = (overlapped \/ (frame[f].burn # 0 /\ Inserting))
      BY <1>4, <2>3 DEF ApplyFloor, FloorState
    <3>2. Clean' => Clean /\ CarryTaken'
      <4>1. ASSUME Clean', NEW g \in Frames, frame'[g].pc = "insert" PROVE floor'.carried = 0
        <5>1. Clean /\ g # f /\ frame[g].pc = "insert"
          BY <1>e, <2>1, <2>2, <3>1, <4>1
        <5>2. frame[f].burn = 0
          BY <3>1, <4>1, <5>1 DEF Inserting
        <5>3. floor.carried = 0
          BY <5>1 DEF CarryTaken
        <5> QED
          BY <3>1, <5>2, <5>3
      <4>2. Clean' => Clean
        BY <2>1, <3>1
      <4> QED
        BY <4>1, <4>2 DEF CarryTaken
    <3> QED
      BY <1>0, <1>e, <1>h, <2>1, <2>2, <3>1, <3>2
  <2>4. CASE ~Skips(frame[f].at, event, ign)
    <3>1. floor'.carried = 0 /\ overlapped' = overlapped
      BY <1>4, <2>4 DEF ApplyFloor, FloorState
    <3>2. frame'[f].pc = "insert" /\ frame'[f].burn = frame[f].burn + floor.carried
      BY <1>4, <2>4 DEF ApplyFloor, FrameState
    <3>3. Clean' => Clean /\ CarryTaken'
      BY <2>1, <3>1 DEF CarryTaken
    <3> QED
      BY <1>0, <1>h, <2>1, <2>2, <3>1, <3>2, <3>3
  <2> QED
    BY <2>3, <2>4
<1>5. ASSUME NEW f \in Frames, InsertRow(f) PROVE LedgerInv'
  <2>1. /\ frame[f].pc = "insert"
        /\ frame'[f] = IdleFrame /\ \A g \in Frames \ {f} : frame'[g] = frame[g]
    BY <1>5 DEF InsertRow
  <2>2. /\ booked' = booked + frame[f].burn /\ floor'.carried = 0
        /\ UNCHANGED <<hopped, dropped, overlapped>>
    BY <1>5 DEF InsertRow, losses
  <2>3. Clean' => Clean /\ CarryTaken' /\ floor.carried = 0
    BY <2>1, <2>2 DEF CarryTaken
  <2> QED
    BY <1>0, <1>e, <1>h, <2>1, <2>2, <2>3
<1>6. ASSUME NEW f \in Frames, InsertFails(f) PROVE LedgerInv'
  <2>1. frame'[f] = IdleFrame /\ \A g \in Frames \ {f} : frame'[g] = frame[g]
    BY <1>6 DEF InsertFails
  <2>2. /\ dropped' = (dropped \/ frame[f].burn # 0)
        /\ UNCHANGED <<booked, floor, hopped, overlapped>>
    BY <1>6 DEF InsertFails
  <2>3. Clean' => Clean /\ CarryTaken' /\ frame[f].burn = 0
    BY <1>e, <2>1, <2>2 DEF CarryTaken
  <2> QED
    BY <1>0, <1>e, <1>h, <2>1, <2>2, <2>3
<1>7. CASE Restart
  <2>1. \A f \in Frames : frame'[f] = IdleFrame
    BY <1>7 DEF Restart
  <2>2. BurnInFlight' = 0
    <3>1. \A f \in Frames : {f} \X (1..frame'[f].burn) = {}
      BY <1>e, <2>1
    <3>2. UNION {{f} \X (1..frame'[f].burn) : f \in Frames} = {}
      BY <3>1
    <3> QED
      BY <3>2, FS_EmptySet DEF BurnInFlight
  <2>3. floor'.carried = floor.carried \/ floor'.carried = 0
    BY <1>7 DEF Restart, NoFloor
  <2>4. /\ dropped' = (dropped \/ BurnInFlight # 0 \/ floor'.carried # floor.carried)
        /\ UNCHANGED <<booked, hopped, overlapped>>
    BY <1>7 DEF Restart
  <2>5. Unpriced' /\ CarryTaken'
    BY <1>e, <2>1 DEF Unpriced, CarryTaken
  <2>6. Totals'
    BY <2>4
  <2>7. Held' <= Held /\ Held' \in Nat
    BY <1>0, <2>2, <2>3, <2>4 DEF Held
  <2>8. Clean' => Clean /\ Held' = Held
    BY <1>0, <2>2, <2>4 DEF Held
  <2>9. LedgerBalances'
    BY <1>b, <2>4, <2>7, <2>8 DEF LedgerBalances
  <2> QED
    BY <2>5, <2>6, <2>9
<1>8. CASE UNCHANGED <<frame, floor, booked, hopped, dropped, overlapped>>
  <2>1. BurnInFlight' = BurnInFlight
    BY <1>8 DEF BurnInFlight
  <2> QED
    BY <1>8, <2>1 DEF Unpriced, LedgerBalances, Held, CarryTaken
<1> QED
  BY <1>1, <1>2, <1>3, <1>4, <1>5, <1>6, <1>7, <1>8
  DEF Next, Handler, Entry, Calibrate, ReadLevel, WriteLevel, vars, losses

\* No millilitre is in the books twice, and none is missing unless a failed call or a restart
\* took it or a record was folded while another's row was being written: for any number of
\* handlers.
THEOREM LedgerBalancesAlways == Spec => []LedgerBalances
<1>1. LedgerInv => LedgerBalances
  BY DEF LedgerInv
<1> QED
  BY <1>1, LedgerInvInit, LedgerInvNext, TankTypesCorrect, PTL DEF Spec

\* Types of everything, the totals of the ledger and its histories included.
THEOREM LedgerTypesCorrect == Spec => []TypeOK
<1> DEFINE Rest ==
      /\ received \in SUBSET Record
      /\ entries \in 0..MaxEntries /\ upsets \in 0..MaxUpsets
      /\ due \in Level /\ stale \in BOOLEAN /\ dropped \in BOOLEAN /\ overlapped \in BOOLEAN
<1>1. Init => Rest
  <2>1. NewTank.level \in Level
    BY NewTankType DEF Tank
  <2>2. 0 \in 0..MaxEntries /\ 0 \in 0..MaxUpsets
    BY LedgerConstants
  <2> QED
    BY <2>1, <2>2 DEF Init
<1>2. TankTypes /\ Rest /\ [Next]_vars => Rest'
  <2> SUFFICES ASSUME TankTypes, Rest, [Next]_vars PROVE Rest'
    OBVIOUS
  <2> USE LedgerConstants DEF TankTypes
  <2>1. ASSUME NEW f \in Frames, NEW k \in Record, ReadTank(f, k) PROVE Rest'
    BY <2>1 DEF ReadTank, losses
  <2>2. ASSUME NEW f \in Frames, WriteTank(f) PROVE Rest'
    <3>1. Hop(frame[f].row, frame[f].at) \in Nat
      BY HopType DEF FrameState
    <3>2. due' \in Level
      BY <2>2, <3>1 DEF WriteTank, AtLeast, Level
    <3>3. stale' \in BOOLEAN
      BY <2>2 DEF WriteTank
    <3> QED
      BY <2>2, <3>2, <3>3 DEF WriteTank, losses
  <2>3. ASSUME NEW f \in Frames, NEW event \in BOOLEAN, NEW ign \in BOOLEAN,
               \/ ReadingFails(f) \/ InsertFails(f)
               \/ ApplyFloor(f, event, ign) \/ InsertRow(f)
        PROVE Rest'
    <3>1. UNCHANGED <<received, entries, due, stale>> /\ upsets' \in 0..MaxUpsets
      BY <2>3 DEF ReadingFails, InsertFails, ApplyFloor, InsertRow
    <3>2. dropped' \in BOOLEAN
      BY <2>3, Zenon DEF ReadingFails, InsertFails, ApplyFloor, InsertRow, losses
    <3>3. overlapped' \in BOOLEAN
      BY <2>3, Zenon DEF ReadingFails, InsertFails, ApplyFloor, InsertRow, losses
    <3> QED
      BY <3>1, <3>2, <3>3
  <2>4. ASSUME NEW level \in Level, Calibrate(level) PROVE Rest'
    BY <2>4 DEF Calibrate, losses
  <2>5. ASSUME NEW kind, NEW amount, ReadLevel(kind, amount) PROVE Rest'
    BY <2>5 DEF ReadLevel, losses
  <2>6. CASE WriteLevel
    <3>1. due' \in Level
      BY <2>6, MovedType DEF WriteLevel
    <3>2. stale' \in BOOLEAN
      BY <2>6 DEF WriteLevel
    <3> QED
      BY <2>6, <3>1, <3>2 DEF WriteLevel, losses
  <2>7. CASE Restart
    BY <2>7 DEF Restart
  <2>8. CASE UNCHANGED vars
    BY <2>8 DEF vars
  <2> QED
    BY <2>1, <2>2, <2>3, <2>4, <2>5, <2>6, <2>7, <2>8 DEF Next, Handler, Entry
<1>3. TankTypes /\ Rest /\ LedgerInv => TypeOK
  BY DEF TankTypes, FloorState, FrameState, EntryState, LedgerInv, Totals, TypeOK
<1> QED
  BY <1>1, <1>2, <1>3, LedgerInvInit, LedgerInvNext, TankTypesCorrect, PTL DEF Spec

-----------------------------------------------------------------------------
(* The reports are what was driven                                         *)

\* While nobody writes the tank from an old row, its total is that of all hops.
HopsAreModelled == ~stale => hopped = tank.modelled

LEMMA HopsNext == TankTypes /\ HopsAreModelled /\ [Next]_vars => HopsAreModelled'
<1> SUFFICES ASSUME TankTypes, HopsAreModelled, [Next]_vars, ~stale' PROVE hopped' = tank'.modelled
  BY DEF HopsAreModelled
<1> USE DEF TankTypes, HopsAreModelled
<1>1. ASSUME NEW f \in Frames, WriteTank(f) PROVE hopped' = tank'.modelled
  <2>1. /\ ~stale /\ frame[f].row = tank
        /\ tank' = AfterReading(tank, frame[f].at)
        /\ hopped' = hopped + Hop(tank, frame[f].at)
    BY <1>1 DEF WriteTank
  <2>2. frame[f].at \in 0..MaxRecord
    BY DEF FrameState
  <2>3. AfterReading(tank, frame[f].at).modelled = tank.modelled + Hop(tank, frame[f].at)
    BY <2>2, AfterReadingFields
  <2> QED
    BY <2>1, <2>3
<1>2. ASSUME NEW level \in Level, Calibrate(level) PROVE hopped' = tank'.modelled
  BY <1>2 DEF Calibrate, Tank
<1>3. CASE WriteLevel
  <2>1. ~stale
    BY <1>3 DEF WriteLevel
  <2> QED
    BY <1>3, <2>1 DEF WriteLevel, Tank
<1>4. CASE UNCHANGED <<tank, hopped, stale>>
  BY <1>4
<1> QED
  BY <1>1, <1>2, <1>3, <1>4
  DEF Next, Handler, Entry, ReadTank, ReadingFails, ApplyFloor, InsertRow, InsertFails, ReadLevel,
      Restart, vars

\* What the rows, the carry and the handlers hold is the distance since the first reading,
\* once, as long as no row was written from an old one, no record came late, no burn was
\* dropped and no record was folded while a row was being written: the books that balance are
\* the books of what was driven.
THEOREM ReportsAreDrivenAlways == Spec => []ReportsAreDriven
<1>1. Init => HopsAreModelled
  BY DEF Init, NewTank, HopsAreModelled
<1>2. (TypeOK /\ LedgerBalances /\ ModelledIsDistance /\ HopsAreModelled /\ TankTypes)
        => ReportsAreDriven
  <2> SUFFICES ASSUME TypeOK, LedgerBalances, ModelledIsDistance, HopsAreModelled, TankTypes,
                      ~stale, ~backstep, ~dropped, ~overlapped, tank.last # 0
               PROVE  Held = tank.last - tank.origin
    BY DEF ReportsAreDriven
  <2>1. BurnInFlight \in Nat /\ floor.carried \in Nat /\ booked \in Nat
    BY BurnInFlightType DEF TankTypes, FloorState, TypeOK
  <2>2. hopped = tank.last - tank.origin
    BY DEF ModelledIsDistance, HopsAreModelled
  <2> QED
    BY <2>1, <2>2 DEF LedgerBalances
<1> QED
  BY <1>1, <1>2, HopsNext, LedgerBalancesAlways, ModelledIsDistanceAlways, LedgerTypesCorrect,
     TankTypesCorrect, PTL DEF Spec

=============================================================================
