------------------------------- MODULE FuelLedger -------------------------------
(***************************************************************************)
(* Where one vehicle's fuel goes: the virtual tank of                      *)
(* fuel/virtual-tank.service.ts, the burn of each hop it hands to          *)
(* saveTelemetry of tcp-server.ts, and the write floor that folds the burn *)
(* of records without a row of their own into the next row.  The reports   *)
(* add up the burn of the rows; the dashboard shows the level of the tank. *)
(*                                                                         *)
(* Packets of one tracker are handled concurrently, so a record handler    *)
(* is a program counter and the tank row it read; managers and receipts    *)
(* write the same row in between.  Each step goes from one await to the    *)
(* next.  Records may arrive in any order (a tracker that empties its      *)
(* buffer) and may fail half way; the process may restart.                 *)
(*                                                                         *)
(* A record is its position in the series the tracker recorded: time and   *)
(* odometer grow with it, and a hop of n positions burns n millilitres.    *)
(* The floor is what its DetectorState holds in memory; what a restart may *)
(* do to it is the subject of module DetectorState.                        *)
(***************************************************************************)
EXTENDS Integers, FiniteSets, FiniteSetsExt

CONSTANTS Frames,       \* record handlers that can be suspended at once
          MaxRecord,    \* the tracker's records are 1..MaxRecord
          Capacity,     \* of the tank
          Spacing,      \* TELEMETRY_MIN_SPACING_S
          MaxEntries,   \* bound on calibrations, refuels and debits
          MaxUpsets     \* bound on failed database calls and restarts

ASSUME LedgerConstants ==
  /\ {MaxRecord, Capacity, Spacing, MaxEntries, MaxUpsets} \subseteq Nat
  /\ IsFiniteSet(Frames)

VARIABLES
  tank,      \* the virtual_tanks row, see Tank
  floor,     \* WriteFloorState: [at, ign, carried], at = 0 when no row was written
  frame,     \* the record handlers: [Frames -> [pc, at, ign, row, burn]]
  entry,     \* creditRefuel or debitUnrecordedDistance under way: [pc, kind, amount, level]
  received,  \* the records that have arrived
  entries, upsets,  \* how much of each bound is used
  booked,    \* the burn of all telemetry rows
  hopped,    \* history: the burn of all hops the tank has modelled
  dropped,   \* history: a failed call or a restart took burn with it
  overlapped,  \* history: burn was carried while another record's row was being written
  due,       \* history: the level, had every change been applied to the one before
  stale,     \* history: the tank was written by a handler that had read an older row
  backstep   \* history: a record found the tank further on than itself

vars == <<tank, floor, frame, entry, received, entries, upsets,
          booked, hopped, dropped, overlapped, due, stale, backstep>>
\* How burn can be lost on its way to a row.
losses == <<dropped, overlapped>>

Record == 1..MaxRecord
Level == 0..Capacity
NoAnchor == -1

\* last is last_odometer_m (0: none).  origin is not a column: it is where the modelled burn
\* of this row began to count.
Tank == [level : Level, anchorLevel : Level \union {NoAnchor},
         modelled : Nat, anchorModelled : Nat \union {NoAnchor},
         last : 0..MaxRecord, origin : 0..MaxRecord]

\* initTank: half full, never anchored.
NewTank == [level |-> Capacity \div 2, anchorLevel |-> NoAnchor, modelled |-> 0,
            anchorModelled |-> NoAnchor, last |-> 0, origin |-> 0]

NoFloor == [at |-> 0, ign |-> FALSE, carried |-> 0]
IdleFrame == [pc |-> "idle", at |-> 0, ign |-> FALSE, row |-> NewTank, burn |-> 0]
IdleEntry == [pc |-> "idle", kind |-> "refuel", amount |-> 0, level |-> 0]

TypeOK ==
  /\ tank \in Tank
  /\ floor \in [at : 0..MaxRecord, ign : BOOLEAN, carried : Nat]
  /\ frame \in [Frames -> [pc : {"idle", "read", "priced", "insert"}, at : 0..MaxRecord,
                           ign : BOOLEAN, row : Tank, burn : Nat]]
  /\ entry \in [pc : {"idle", "read"}, kind : {"refuel", "debit"}, amount : Level, level : Level]
  /\ received \in SUBSET Record
  /\ entries \in 0..MaxEntries /\ upsets \in 0..MaxUpsets
  /\ booked \in Nat /\ hopped \in Nat
  /\ due \in Level
  /\ {dropped, overlapped, stale, backstep} \subseteq BOOLEAN

Init ==
  /\ tank = NewTank
  /\ floor = NoFloor
  /\ frame = [f \in Frames |-> IdleFrame]
  /\ entry = IdleEntry
  /\ received = {}
  /\ entries = 0 /\ upsets = 0
  /\ booked = 0 /\ hopped = 0
  /\ due = NewTank.level
  /\ dropped = FALSE /\ overlapped = FALSE /\ stale = FALSE /\ backstep = FALSE

AtMost(n, limit) == IF n > limit THEN limit ELSE n
AtLeast(n, limit) == IF n < limit THEN limit ELSE n
Clamp(n) == AtLeast(AtMost(n, Capacity), 0)

-----------------------------------------------------------------------------
(* processFuelGpsReading                                                   *)

\* The record arrives and its handler gets as far as the tank row.
ReadTank(f, k) ==
  /\ frame[f].pc = "idle" /\ k \notin received
  /\ received' = received \union {k}
  /\ frame' = [frame EXCEPT ![f] = [IdleFrame EXCEPT !.pc = "read", !.at = k, !.row = tank]]
  /\ UNCHANGED <<tank, floor, entry, entries, upsets, booked, hopped, losses, due, stale, backstep>>

\* Mutant: the first odometer is taken for a distance.
Hop_FromZero(row, k) == AtLeast(k - row.last, 0)

\* modelHopBurnMl: the distance since the last odometer; a step back books nothing.
Hop(row, k) == IF row.last = 0 THEN 0 ELSE AtLeast(k - row.last, 0)

\* Mutant: no lower bound.
LevelFromAnchor_Below(anchorLevel, anchorModelled, modelled) ==
  AtMost(anchorLevel - AtLeast(modelled - anchorModelled, 0), Capacity)

\* levelFromAnchor.
LevelFromAnchor(anchorLevel, anchorModelled, modelled) ==
  Clamp(anchorLevel - AtLeast(modelled - anchorModelled, 0))

\* The row as a reading at record k leaves it.
AfterReading(row, k) ==
  LET modelled == row.modelled + Hop(row, k)
      anchorModelled == IF row.anchorModelled = NoAnchor THEN modelled ELSE row.anchorModelled
      anchorLevel == IF row.anchorLevel = NoAnchor THEN row.level ELSE row.anchorLevel
  IN [level |-> LevelFromAnchor(anchorLevel, anchorModelled, modelled),
      anchorLevel |-> anchorLevel, modelled |-> modelled, anchorModelled |-> anchorModelled,
      last |-> k, origin |-> IF row.last = 0 THEN k ELSE row.origin]

\* Mutant: the modelled burn is incremented in the database.
WriteTank_Increments(f) ==
  /\ frame[f].pc = "read"
  /\ LET row == frame[f].row
         hop == Hop(row, frame[f].at)
     IN /\ tank' = [AfterReading(row, frame[f].at) EXCEPT !.modelled = tank.modelled + hop]
        /\ frame' = [frame EXCEPT ![f].pc = "priced", ![f].burn = hop, ![f].row = NewTank]
        /\ hopped' = hopped + hop
        /\ due' = AtLeast(due - hop, 0)
        /\ stale' = (stale \/ row # tank)
        /\ backstep' = (backstep \/ frame[f].at < row.last)
  /\ UNCHANGED <<floor, entry, received, entries, upsets, booked, losses>>

\* The UPDATE writes every column from the row that was read.
WriteTank(f) ==
  /\ frame[f].pc = "read"
  /\ LET row == frame[f].row
         hop == Hop(row, frame[f].at)
     IN /\ tank' = AfterReading(row, frame[f].at)
        /\ frame' = [frame EXCEPT ![f].pc = "priced", ![f].burn = hop, ![f].row = NewTank]
        /\ hopped' = hopped + hop
        /\ due' = AtLeast(due - hop, 0)
        /\ stale' = (stale \/ row # tank)
        /\ backstep' = (backstep \/ frame[f].at < row.last)
  /\ UNCHANGED <<floor, entry, received, entries, upsets, booked, losses>>

\* The reading fails before its UPDATE, or after it (idle waste, low-fuel alert).  The catch
\* of saveTelemetry goes on with a record that has no burn.
ReadingFails(f) ==
  /\ frame[f].pc \in {"read", "priced"} /\ upsets < MaxUpsets
  /\ upsets' = upsets + 1
  /\ dropped' = (dropped \/ frame[f].burn # 0)
  /\ frame' = [frame EXCEPT ![f].pc = "priced", ![f].burn = 0, ![f].row = NewTank]
  /\ UNCHANGED <<tank, floor, entry, received, entries, booked, hopped, overlapped, due, stale, backstep>>

-----------------------------------------------------------------------------
(* The write floor                                                         *)

\* shouldSkipTelemetryRow.
Skips(at, event, ign) ==
  /\ Spacing > 0 /\ floor.at # 0
  /\ ~event /\ ign = floor.ign
  /\ 0 <= at - floor.at /\ at - floor.at < Spacing

Inserting == \E g \in Frames : frame[g].pc = "insert"

\* Mutant: the row does not take what was carried.
ApplyFloor_NoCarry(f, event, ign) ==
  /\ frame[f].pc = "priced"
  /\ IF Skips(frame[f].at, event, ign)
     THEN /\ floor' = [floor EXCEPT !.carried = @ + frame[f].burn]
          /\ frame' = [frame EXCEPT ![f] = IdleFrame]
          /\ overlapped' = (overlapped \/ (frame[f].burn # 0 /\ Inserting))
     ELSE /\ floor' = [floor EXCEPT !.carried = 0]
          /\ frame' = [frame EXCEPT ![f].pc = "insert", ![f].ign = ign]
          /\ UNCHANGED overlapped
  /\ UNCHANGED <<tank, entry, received, entries, upsets, booked, hopped, dropped, due, stale, backstep>>

\* applyBurnCarry, kept in the floor before the row is written.  Whether the record was
\* triggered by an event and its ignition bear on nothing before this step.
ApplyFloor(f, event, ign) ==
  /\ frame[f].pc = "priced"
  /\ IF Skips(frame[f].at, event, ign)
     THEN /\ floor' = [floor EXCEPT !.carried = @ + frame[f].burn]
          /\ frame' = [frame EXCEPT ![f] = IdleFrame]
          /\ overlapped' = (overlapped \/ (frame[f].burn # 0 /\ Inserting))
     ELSE /\ floor' = [floor EXCEPT !.carried = 0]
          /\ frame' = [frame EXCEPT ![f].pc = "insert", ![f].ign = ign, ![f].burn = @ + floor.carried]
          /\ UNCHANGED overlapped
  /\ UNCHANGED <<tank, entry, received, entries, upsets, booked, hopped, dropped, due, stale, backstep>>

\* The row is written.  The floor is then set with the carry of before the INSERT, which is
\* zero: the burn of a record folded meanwhile is forgotten.
InsertRow(f) ==
  /\ frame[f].pc = "insert"
  /\ booked' = booked + frame[f].burn
  /\ floor' = [at |-> frame[f].at, ign |-> frame[f].ign, carried |-> 0]
  /\ frame' = [frame EXCEPT ![f] = IdleFrame]
  /\ UNCHANGED <<tank, entry, received, entries, upsets, hopped, losses, due, stale, backstep>>

\* The INSERT fails: the record is dropped, and what was carried to it.
InsertFails(f) ==
  /\ frame[f].pc = "insert" /\ upsets < MaxUpsets
  /\ upsets' = upsets + 1
  /\ dropped' = (dropped \/ frame[f].burn # 0)
  /\ frame' = [frame EXCEPT ![f] = IdleFrame]
  /\ UNCHANGED <<tank, floor, entry, received, entries, booked, hopped, overlapped, due, stale, backstep>>

\* The sum of what the handlers hold, millilitre by millilitre.
BurnInFlight == Cardinality(UNION {{f} \X (1..frame[f].burn) : f \in Frames})

\* Handlers are gone; the floor comes back from Redis, or does not.
Restart ==
  /\ upsets < MaxUpsets
  /\ upsets' = upsets + 1
  /\ frame' = [f \in Frames |-> IdleFrame]
  /\ entry' = IdleEntry
  /\ floor' \in {floor, NoFloor}
  /\ dropped' = (dropped \/ BurnInFlight # 0 \/ floor'.carried # floor.carried)
  /\ UNCHANGED <<tank, received, entries, booked, hopped, overlapped, due, stale, backstep>>

-----------------------------------------------------------------------------
(* calibrateTank, creditRefuel, debitUnrecordedDistance                    *)

\* Mutant: the anchor of the last refuel stays.
Calibrate_KeepsAnchor(level) ==
  /\ entries < MaxEntries
  /\ entries' = entries + 1
  /\ tank' = [tank EXCEPT !.level = level, !.anchorModelled = tank.modelled]
  /\ due' = level
  /\ UNCHANGED <<floor, frame, entry, received, upsets, booked, hopped, losses, stale, backstep>>

\* A calibration declares the level, whatever the row holds.
Calibrate(level) ==
  /\ entries < MaxEntries
  /\ entries' = entries + 1
  /\ tank' = [tank EXCEPT !.level = level, !.anchorLevel = NoAnchor,
                          !.anchorModelled = tank.modelled]
  /\ due' = level
  /\ UNCHANGED <<floor, frame, entry, received, upsets, booked, hopped, losses, stale, backstep>>

\* A refuel or a debit reads the level first.
ReadLevel(kind, amount) ==
  /\ entry.pc = "idle" /\ entries < MaxEntries
  /\ amount > 0
  /\ entries' = entries + 1
  /\ entry' = [pc |-> "read", kind |-> kind, amount |-> amount, level |-> tank.level]
  /\ UNCHANGED <<tank, floor, frame, received, upsets, booked, hopped, losses, due, stale, backstep>>

Moved(level) ==
  IF entry.kind = "refuel" THEN AtMost(level + entry.amount, Capacity)
                           ELSE AtLeast(level - entry.amount, 0)

\* Mutant: a debit is credited.
WriteLevel_Adds ==
  /\ entry.pc = "read"
  /\ LET level == AtMost(entry.level + entry.amount, Capacity) IN
       tank' = [tank EXCEPT !.level = level, !.anchorLevel = level, !.anchorModelled = tank.modelled]
  /\ due' = Moved(due)
  /\ stale' = (stale \/ entry.level # tank.level)
  /\ entry' = IdleEntry
  /\ UNCHANGED <<floor, frame, received, entries, upsets, booked, hopped, losses, backstep>>

\* ... and writes the level it makes of it, re-anchored at the burn modelled so far.
WriteLevel ==
  /\ entry.pc = "read"
  /\ LET level == Moved(entry.level) IN
       tank' = [tank EXCEPT !.level = level, !.anchorLevel = level, !.anchorModelled = tank.modelled]
  /\ due' = Moved(due)
  /\ stale' = (stale \/ entry.level # tank.level)
  /\ entry' = IdleEntry
  /\ UNCHANGED <<floor, frame, received, entries, upsets, booked, hopped, losses, backstep>>

-----------------------------------------------------------------------------

Handler(f) ==
  \/ \E k \in Record : ReadTank(f, k)
  \/ WriteTank(f) \/ ReadingFails(f)
  \/ \E event, ign \in BOOLEAN : ApplyFloor(f, event, ign)
  \/ InsertRow(f) \/ InsertFails(f)

Entry ==
  \/ \E level \in Level : Calibrate(level) \/ ReadLevel("refuel", level) \/ ReadLevel("debit", level)
  \/ WriteLevel

Next == (\E f \in Frames : Handler(f)) \/ Entry \/ Restart

Spec == Init /\ [][Next]_vars

-----------------------------------------------------------------------------
(* What is checked                                                         *)

\* The sum is that of "the unthinned series" (telemetry-write-floor.service.ts:81-82): the
\* burn of a hop is folded, carried, restored and inserted by several handlers, and no
\* millilitre is ever counted twice; none is missing either, unless a failure or a restart
\* took it, or a record was folded while the row of another was being written (then the
\* second set() of tcp-server.ts:390 drops what was carried, and the comment is wrong).
Held == booked + floor.carried + BurnInFlight

LedgerBalances ==
  /\ Held <= hopped
  /\ ~dropped /\ ~overlapped => Held = hopped

\* The tank heals itself: a reading that was priced from an old row writes that row's total
\* plus the distance since, so however readings overlap or fail the modelled burn stays the
\* distance between the odometer it counts from and the last one stored, as long as no
\* record is older than the one the tank has.
ModelledIsDistance == ~backstep /\ tank.last # 0 => tank.modelled = tank.last - tank.origin

\* What the reports add up is what was driven: if no reading or refuel used an old row, no
\* record was older than the tank, no burn was dropped and no record was folded while a row
\* was being written, the rows and the carry hold the distance since the first reading, once.
ReportsAreDriven ==
  ~stale /\ ~backstep /\ ~dropped /\ ~overlapped /\ tank.last # 0 =>
    Held = tank.last - tank.origin

\* The level does not jump: what the row shows is what the next reading computes from the
\* row's anchor if the vehicle has not moved, also after a calibration, a refuel or a debit,
\* and also when one of them raced a reading.
LevelStands == AfterReading(tank, tank.last).level = tank.level

\* If nobody wrote the tank from an old row, the level is the one that results from applying
\* every hop, calibration, refuel and debit to the level before it.
LevelIsDue == ~stale => tank.level = due

\* Calibrations and debits are re-anchored "so the next device frame keeps the lower level
\* rather than recomputing the old one" (virtual-tank.service.ts:1081-1082; the same is said
\* of calibrations at 894-899).  With one record handled at a time the level is always the
\* one that is due.  In the code a reading that has read the row before the entry writes the
\* level and the anchor it read over it.
EntriesStick == tank.level = due

\* "A per-hop figure is order-independent and exact" (virtual-tank.service.ts:551): with one
\* record handled at a time and no failure, the hops of the records received add up to no
\* more than the distance they span, whatever their order.  In the code a record that is
\* older than the one before it moves the odometer of the tank back, and the next one is
\* charged for the same distance again.
OrderIndependent ==
  received # {} /\ (\A f \in Frames : frame[f].pc = "idle") =>
    hopped <= Max(received) - Min(received)

=============================================================================
