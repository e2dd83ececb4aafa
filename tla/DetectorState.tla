----------------------------- MODULE DetectorState -----------------------------
(***************************************************************************)
(* The per-device detector state of shared/detector-state.ts: a Map in     *)
(* the process, the set of devices whose Redis copy has been consulted,    *)
(* and a copy in Redis written in the background.  Every detector of the   *)
(* ingest path (trip, idle, fuel stop, write floor, anomaly) is one        *)
(* instance of the class, used by the frame handlers of tcp-server.ts in   *)
(* the same way: await get, compute, then set or delete.                   *)
(*                                                                         *)
(* The process runs one handler at a time and switches at an await, so the *)
(* code between two awaits is one action.  Redis is reached over HTTP,     *)
(* request by request: a request in flight may land in any order, fail, or *)
(* outlive the process that sent it.                                       *)
(*                                                                         *)
(* A detector's state is represented by a version: the number of the       *)
(* set() or delete() that produced it, 0 standing for null.                *)
(***************************************************************************)
EXTENDS Naturals

CONSTANTS Devices,      \* the IMEIs that report
          Frames,       \* the record handlers that can be suspended at once
          MaxVersion,   \* bound on set() and delete() calls
          MaxBoots      \* bound on restarts of the process

ASSUME BoundsAreNat == MaxVersion \in Nat /\ MaxBoots \in Nat
ASSUME SomeDevice == Devices # {}

VARIABLES
  memory,    \* the Map: [Devices -> version or 0]
  hydrated,  \* the Set of devices not to be asked about again this boot
  paused,    \* Date.now() < redisPausedUntil, shared by all devices
  redis,     \* the copies: [Devices -> version or 0]
  wire,      \* SET and DEL requests on their way to Redis
  frame,     \* the handlers: [Frames -> [pc, dev, got]]
  boot,      \* which run of the process this is
  clock,     \* versions handed out so far
  latest,    \* history: the state last recorded for each device
  reads,     \* history: GETs sent for each device in this boot
  disturbed  \* history: devices whose writes were skipped, failed or overlapped

vars == <<memory, hydrated, paused, redis, wire, frame, boot, clock, latest, reads, disturbed>>

None == 0
Version == 0..MaxVersion

\* A SET carries the version it stores, a DEL stores None; ver tells two DELs apart.
Request == [dev : Devices, val : Version, ver : Version, boot : 0..MaxBoots]

Pc == {"idle", "asked", "answered", "has"}

IdleFrame == [pc |-> "idle", dev |-> CHOOSE d \in Devices : TRUE, got |-> None]

TypeOK ==
  /\ memory \in [Devices -> Version]
  /\ hydrated \in SUBSET Devices
  /\ paused \in BOOLEAN
  /\ redis \in [Devices -> Version]
  /\ wire \in SUBSET Request
  /\ frame \in [Frames -> [pc : Pc, dev : Devices, got : Version]]
  /\ boot \in 0..MaxBoots
  /\ clock \in Version
  /\ latest \in [Devices -> Version]
  /\ reads \in [Devices -> Nat]
  /\ disturbed \in SUBSET Devices

Init ==
  /\ memory = [d \in Devices |-> None]
  /\ hydrated = {}
  /\ paused = FALSE
  /\ redis = [d \in Devices |-> None]
  /\ wire = {}
  /\ frame = [f \in Frames |-> IdleFrame]
  /\ boot = 0
  /\ clock = 0
  /\ latest = [d \in Devices |-> None]
  /\ reads = [d \in Devices |-> 0]
  /\ disturbed = {}

InFlight(d) == {w \in wire : w.dev = d}

\* redisAvailable(): configured, and not backing off after a failure.
RedisAvailable == ~paused

Resume(f, d, v) == frame' = [frame EXCEPT ![f] = [pc |-> "has", dev |-> d, got |-> v]]

-----------------------------------------------------------------------------
(* get                                                                     *)

\* get() answered without the network: a hit in the Map, or null because the
\* copy was already consulted this boot or Redis is left alone.
GetFromMemory(f, d) ==
  /\ frame[f].pc = "idle"
  /\ memory[d] # None \/ d \in hydrated \/ ~RedisAvailable
  /\ Resume(f, d, memory[d])
  /\ UNCHANGED <<memory, hydrated, paused, redis, wire, boot, clock, latest, reads, disturbed>>

\* Mutant: the device is marked only once the answer is in.
GetFromRedis_MarkedLate(f, d) ==
  /\ frame[f].pc = "idle"
  /\ memory[d] = None /\ d \notin hydrated /\ RedisAvailable
  /\ frame' = [frame EXCEPT ![f] = [pc |-> "asked", dev |-> d, got |-> None]]
  /\ reads' = [reads EXCEPT ![d] = @ + 1]
  /\ UNCHANGED <<memory, hydrated, paused, redis, wire, boot, clock, latest, disturbed>>

\* Mutant: the connection is marked, not its device.
GetFromRedis_MarksFrame(f, d) ==
  /\ frame[f].pc = "idle"
  /\ memory[d] = None /\ d \notin hydrated /\ RedisAvailable
  /\ hydrated' = hydrated \union {f}
  /\ frame' = [frame EXCEPT ![f] = [pc |-> "asked", dev |-> d, got |-> None]]
  /\ reads' = [reads EXCEPT ![d] = @ + 1]
  /\ UNCHANGED <<memory, paused, redis, wire, boot, clock, latest, disturbed>>

\* The first get() of a boot: marks the device, sends a GET and suspends.
GetFromRedis(f, d) ==
  /\ frame[f].pc = "idle"
  /\ memory[d] = None /\ d \notin hydrated /\ RedisAvailable
  /\ hydrated' = hydrated \union {d}
  /\ frame' = [frame EXCEPT ![f] = [pc |-> "asked", dev |-> d, got |-> None]]
  /\ reads' = [reads EXCEPT ![d] = @ + 1]
  /\ UNCHANGED <<memory, paused, redis, wire, boot, clock, latest, disturbed>>

\* Redis executes the GET; the answer is on its way back.
RedisAnswers(f) ==
  /\ frame[f].pc = "asked"
  /\ frame' = [frame EXCEPT ![f].pc = "answered", ![f].got = redis[frame[f].dev]]
  /\ UNCHANGED <<memory, hydrated, paused, redis, wire, boot, clock, latest, reads, disturbed>>

\* Mutant: the restored state is returned and not kept.
Restore_NotKept(f) ==
  /\ frame[f].pc = "answered"
  /\ Resume(f, frame[f].dev, frame[f].got)
  /\ UNCHANGED <<memory, hydrated, paused, redis, wire, boot, clock, latest, reads, disturbed>>

\* The answer arrives in time.  A hit is put in the Map, whatever the Map holds.
Restore(f) ==
  /\ frame[f].pc = "answered"
  /\ memory' = IF frame[f].got = None THEN memory
               ELSE [memory EXCEPT ![frame[f].dev] = frame[f].got]
  /\ Resume(f, frame[f].dev, frame[f].got)
  /\ UNCHANGED <<hydrated, paused, redis, wire, boot, clock, latest, reads, disturbed>>

\* Mutant: no timer, so only a Redis that answers can fail the read.
ReadFails_NoTimer(f) ==
  /\ frame[f].pc = "answered"
  /\ Resume(f, frame[f].dev, None)
  /\ paused' = TRUE
  /\ UNCHANGED <<memory, hydrated, redis, wire, boot, clock, latest, reads, disturbed>>

\* READ_TIMEOUT_MS passes, or the GET is refused: back off and go on with null.
ReadFails(f) ==
  /\ frame[f].pc \in {"asked", "answered"}
  /\ Resume(f, frame[f].dev, None)
  /\ paused' = TRUE
  /\ UNCHANGED <<memory, hydrated, redis, wire, boot, clock, latest, reads, disturbed>>

-----------------------------------------------------------------------------
(* set and delete                                                          *)

\* The background write of persist() and delete(): skipped while backing off.
SendToRedis(d, v) ==
  wire' = IF RedisAvailable
          THEN wire \union {[dev |-> d, val |-> v, ver |-> clock', boot |-> boot]}
          ELSE wire

\* What a set or a delete of device d with state v does, up to the Map.
RecordState(d, v) ==
  /\ hydrated' = hydrated \union {d}
  /\ SendToRedis(d, v)
  /\ latest' = [latest EXCEPT ![d] = v]
  /\ disturbed' = IF RedisAvailable /\ InFlight(d) = {} THEN disturbed
                  ELSE disturbed \union {d}

Set(f) ==
  /\ frame[f].pc = "has" /\ clock < MaxVersion
  /\ clock' = clock + 1
  /\ memory' = [memory EXCEPT ![frame[f].dev] = clock']
  /\ RecordState(frame[f].dev, clock')
  /\ frame' = [frame EXCEPT ![f].pc = "idle"]
  /\ UNCHANGED <<paused, redis, boot, reads>>

\* Mutant: the copy in Redis is left behind.
Delete_MapOnly(f) ==
  /\ frame[f].pc = "has" /\ clock < MaxVersion
  /\ clock' = clock + 1
  /\ memory' = [memory EXCEPT ![frame[f].dev] = None]
  /\ hydrated' = hydrated \union {frame[f].dev}
  /\ latest' = [latest EXCEPT ![frame[f].dev] = None]
  /\ frame' = [frame EXCEPT ![f].pc = "idle"]
  /\ UNCHANGED <<paused, redis, wire, boot, reads, disturbed>>

Delete(f) ==
  /\ frame[f].pc = "has" /\ clock < MaxVersion
  /\ clock' = clock + 1
  /\ memory' = [memory EXCEPT ![frame[f].dev] = None]
  /\ RecordState(frame[f].dev, None)
  /\ frame' = [frame EXCEPT ![f].pc = "idle"]
  /\ UNCHANGED <<paused, redis, boot, reads>>

\* The detector had nothing to record.
Leave(f) ==
  /\ frame[f].pc = "has"
  /\ frame' = [frame EXCEPT ![f].pc = "idle"]
  /\ UNCHANGED <<memory, hydrated, paused, redis, wire, boot, clock, latest, reads, disturbed>>

-----------------------------------------------------------------------------
(* Redis, the clock and the process                                        *)

RedisWrites(w) ==
  /\ redis' = [redis EXCEPT ![w.dev] = w.val]
  /\ wire' = wire \ {w}
  /\ UNCHANGED <<memory, hydrated, paused, frame, boot, clock, latest, reads, disturbed>>

\* The request is refused or lost.  Only the process that sent it backs off.
WriteFails(w) ==
  /\ wire' = wire \ {w}
  /\ paused' = (paused \/ w.boot = boot)
  /\ disturbed' = disturbed \union {w.dev}
  /\ UNCHANGED <<memory, hydrated, redis, frame, boot, clock, latest, reads>>

\* BACKOFF_MS have passed since the last failure.
BackoffEnds ==
  /\ paused
  /\ paused' = FALSE
  /\ UNCHANGED <<memory, hydrated, redis, wire, frame, boot, clock, latest, reads, disturbed>>

\* ttlSeconds without a write: the entry goes.
Expire(d) ==
  /\ redis[d] # None
  /\ redis' = [redis EXCEPT ![d] = None]
  /\ UNCHANGED <<memory, hydrated, paused, wire, frame, boot, clock, latest, reads, disturbed>>

\* A deploy or a crash.  Requests already sent may still reach Redis.
Restart ==
  /\ boot < MaxBoots
  /\ boot' = boot + 1
  /\ memory' = [d \in Devices |-> None]
  /\ hydrated' = {}
  /\ paused' = FALSE
  /\ frame' = [f \in Frames |-> IdleFrame]
  /\ reads' = [d \in Devices |-> 0]
  /\ UNCHANGED <<redis, wire, clock, latest, disturbed>>

Next ==
  \/ \E f \in Frames, d \in Devices : GetFromMemory(f, d) \/ GetFromRedis(f, d)
  \/ \E f \in Frames : RedisAnswers(f) \/ Restore(f) \/ ReadFails(f)
  \/ \E f \in Frames : Set(f) \/ Delete(f) \/ Leave(f)
  \/ \E w \in wire : RedisWrites(w) \/ WriteFails(w)
  \/ \E d \in Devices : Expire(d)
  \/ BackoffEnds
  \/ Restart

Spec == Init /\ [][Next]_vars

\* The timer of withTimeout fires and an answer that arrived is delivered; nothing
\* is assumed of Redis itself.
FairSpec == Spec /\ \A f \in Frames : WF_vars(Restore(f) \/ ReadFails(f))

-----------------------------------------------------------------------------
(* What is checked                                                         *)

Reading(d) == {f \in Frames : frame[f].dev = d /\ frame[f].pc \in {"asked", "answered"}}

\* "read exactly once per device: the first time a frame arrives after boot"
\* (detector-state.ts:13).  The device is marked before the await, so two frames of
\* one device that arrive together cost one GET and not two.
ReadOncePerBoot == \A d \in Devices : reads[d] <= 1

\* The copy follows the Map: as long as no write of a device was skipped by the backoff,
\* failed, or was issued while another of its writes was still in flight, what Redis
\* holds is the last state recorded (or nothing, when it expired), or the one write that
\* will make it so is on its way.  It says which disturbances can leave a stale copy
\* behind for the next boot: set() and delete() themselves never do.
FaithfulCopy ==
  \A d \in Devices \ disturbed :
    /\ \A w, x \in InFlight(d) : w = x
    /\ \A w \in InFlight(d) : w.val = latest[d]
    /\ InFlight(d) = {} => redis[d] \in {latest[d], None}

\* "No frame is ever dropped or delayed past one short timeout" (detector-state.ts:17):
\* a handler suspended in get() goes on, whatever Redis does, unless the process ends.
FrameGoesOn ==
  \A f \in Frames : frame[f].pc \in {"asked", "answered"} ~> frame[f].pc \in {"has", "idle"}

\* "The in-process Map is the source of truth while the process runs"
\* (detector-state.ts:11): a copy restored from Redis never displaces a state in the Map.
\* The code puts a hit in the Map whatever has been recorded there during the await.
MapIsTruth ==
  [][\A f \in Frames : Restore(f) /\ memory[frame[f].dev] # None => UNCHANGED memory]_vars

=============================================================================
