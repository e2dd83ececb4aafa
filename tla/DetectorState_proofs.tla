------------------------ MODULE DetectorState_proofs ------------------------
(***************************************************************************)
(* What holds of DetectorState for every set of devices and of frames and  *)
(* for all bounds: its types, one read per device and boot, the faithful   *)
(* copy, and that it implements DetectorCell as long as it is undisturbed. *)
(***************************************************************************)
EXTENDS TLAPS, DetectorStateOrdered

USE DEF None, Version

\* The stand-in device of an idle frame is a device.
LEMMA IdleFrameType == IdleFrame \in [pc : Pc, dev : Devices, got : Version]
  BY BoundsAreNat, SomeDevice DEF IdleFrame, Pc

LEMMA TypeInit == Init => TypeOK
<1> SUFFICES ASSUME Init PROVE TypeOK
  OBVIOUS
<1>1. frame \in [Frames -> [pc : Pc, dev : Devices, got : Version]]
  BY IdleFrameType DEF Init
<1>2. 0 \in Version /\ 0 \in 0..MaxBoots
  BY BoundsAreNat
<1> QED
  BY <1>1, <1>2 DEF Init, TypeOK

\* Types are preserved by every step.
LEMMA TypeNext == TypeOK /\ [Next]_vars => TypeOK'
<1> SUFFICES ASSUME TypeOK, [Next]_vars PROVE TypeOK'
  OBVIOUS
<1> USE BoundsAreNat DEF TypeOK
<1>1. ASSUME NEW f \in Frames, NEW d \in Devices, GetFromMemory(f, d) PROVE TypeOK'
  BY <1>1 DEF GetFromMemory, Resume, Pc
<1>2. ASSUME NEW f \in Frames, NEW d \in Devices, GetFromRedis(f, d) PROVE TypeOK'
  BY <1>2 DEF GetFromRedis, Pc
<1>3. ASSUME NEW f \in Frames, RedisAnswers(f) PROVE TypeOK'
  BY <1>3 DEF RedisAnswers, Pc
<1>4. ASSUME NEW f \in Frames, Restore(f) PROVE TypeOK'
  BY <1>4 DEF Restore, Resume, Pc
<1>5. ASSUME NEW f \in Frames, ReadFails(f) PROVE TypeOK'
  BY <1>5 DEF ReadFails, Resume, Pc
<1>6. ASSUME NEW f \in Frames, Set(f) PROVE TypeOK'
  <2>1. clock' \in Version
    BY <1>6 DEF Set
  <2>2. wire' \in SUBSET Request
    BY <1>6, <2>1 DEF Set, RecordState, SendToRedis, Request
  <2> QED BY <1>6, <2>1, <2>2 DEF Set, RecordState, Pc
<1>7. ASSUME NEW f \in Frames, Delete(f) PROVE TypeOK'
  <2>1. clock' \in Version
    BY <1>7 DEF Delete
  <2>2. wire' \in SUBSET Request
    BY <1>7, <2>1 DEF Delete, RecordState, SendToRedis, Request
  <2> QED BY <1>7, <2>1, <2>2 DEF Delete, RecordState, Pc
<1>8. ASSUME NEW f \in Frames, Leave(f) PROVE TypeOK'
  BY <1>8 DEF Leave, Pc
<1>9. ASSUME NEW w \in wire, RedisWrites(w) PROVE TypeOK'
  BY <1>9 DEF RedisWrites, Request
<1>10. ASSUME NEW w \in wire, WriteFails(w) PROVE TypeOK'
  BY <1>10 DEF WriteFails, Request
<1>11. ASSUME NEW d \in Devices, Expire(d) PROVE TypeOK'
  BY <1>11 DEF Expire
<1>12. CASE BackoffEnds
  BY <1>12 DEF BackoffEnds
<1>13. CASE Restart
  <2>1. frame' \in [Frames -> [pc : Pc, dev : Devices, got : Version]]
    BY <1>13, IdleFrameType DEF Restart
  <2>2. boot' \in 0..MaxBoots
    BY <1>13 DEF Restart
  <2>3. reads' \in [Devices -> Nat] /\ memory' \in [Devices -> Version]
    BY <1>13 DEF Restart
  <2> QED
    BY <1>13, <2>1, <2>2, <2>3 DEF Restart
<1>14. CASE UNCHANGED vars
  BY <1>14 DEF vars
<1> QED
  BY <1>1, <1>2, <1>3, <1>4, <1>5, <1>6, <1>7, <1>8, <1>9, <1>10, <1>11, <1>12, <1>13, <1>14
  DEF Next

\* Types hold in every state of every behaviour.
THEOREM TypeCorrect == Spec => []TypeOK
<1>1. Init => TypeOK
  BY TypeInit
<1>2. TypeOK /\ [Next]_vars => TypeOK'
  BY TypeNext
<1> QED
  BY <1>1, <1>2, PTL DEF Spec

-----------------------------------------------------------------------------
(* One read per device and boot                                            *)

\* A device that has been asked about is marked, and was asked about once.
MarkedWhenRead == \A d \in Devices : reads[d] <= 1 /\ (reads[d] # 0 => d \in hydrated)

LEMMA MarkedNext == TypeOK /\ MarkedWhenRead /\ [Next]_vars => MarkedWhenRead'
<1> SUFFICES ASSUME TypeOK, MarkedWhenRead, [Next]_vars PROVE MarkedWhenRead'
  OBVIOUS
<1> USE DEF TypeOK, MarkedWhenRead
<1>1. ASSUME NEW f \in Frames, NEW d \in Devices, GetFromRedis(f, d) PROVE MarkedWhenRead'
  BY <1>1 DEF GetFromRedis
<1>2. ASSUME NEW f \in Frames, Set(f) \/ Delete(f) PROVE MarkedWhenRead'
  BY <1>2 DEF Set, Delete, RecordState
<1>3. CASE Restart
  BY <1>3 DEF Restart
<1>4. CASE UNCHANGED <<hydrated, reads>>
  BY <1>4
<1> QED
  BY <1>1, <1>2, <1>3, <1>4 DEF Next, GetFromMemory, RedisAnswers, Restore, ReadFails, Leave,
     RedisWrites, WriteFails, Expire, BackoffEnds, vars

\* However many frames of a device arrive together after a boot, Redis is asked once.
THEOREM ReadOnce == Spec => []ReadOncePerBoot
<1>1. ASSUME Init PROVE MarkedWhenRead
  <2>1. \A d \in Devices : reads[d] \in Nat /\ reads[d] = 0
    BY <1>1 DEF Init
  <2> QED
    BY <2>1 DEF MarkedWhenRead
<1>2. MarkedWhenRead => ReadOncePerBoot
  BY DEF MarkedWhenRead, ReadOncePerBoot
<1> QED
  BY <1>1, <1>2, MarkedNext, TypeCorrect, PTL DEF Spec

-----------------------------------------------------------------------------
(* The copy in Redis                                                       *)

\* FaithfulCopy is inductive: a write of an undisturbed device is issued only when none
\* is in flight, so the one that lands is the last one.
LEMMA FaithfulNext == TypeOK /\ FaithfulCopy /\ [Next]_vars => FaithfulCopy'
<1> SUFFICES ASSUME TypeOK, FaithfulCopy, [Next]_vars PROVE FaithfulCopy'
  OBVIOUS
<1> USE DEF TypeOK, FaithfulCopy, InFlight
<1>1. ASSUME NEW f \in Frames, NEW v \in Version, RecordState(frame[f].dev, v), UNCHANGED redis
      PROVE FaithfulCopy'
  <2> SUFFICES ASSUME NEW d \in Devices, d \notin disturbed'
               PROVE /\ \A w, x \in InFlight(d)' : w = x
                     /\ \A w \in InFlight(d)' : w.val = latest'[d]
                     /\ InFlight(d)' = {} => redis'[d] \in {latest'[d], None}
    OBVIOUS
  <2>1. CASE d = frame[f].dev
    <3> DEFINE r == [dev |-> d, val |-> v, ver |-> clock', boot |-> boot]
    <3>1. InFlight(d) = {} /\ wire' = wire \union {r}
      BY <1>1, <2>1 DEF RecordState, SendToRedis
    <3>2. InFlight(d)' = {r} /\ latest'[d] = v
      BY <1>1, <2>1, <3>1 DEF RecordState
    <3>3. r.val = v
      OBVIOUS
    <3> HIDE DEF r, InFlight
    <3> QED
      BY <3>2, <3>3
  <2>2. CASE d # frame[f].dev
    <3>1. InFlight(d)' = InFlight(d) /\ latest'[d] = latest[d] /\ d \notin disturbed
      BY <1>1, <2>2 DEF RecordState, SendToRedis
    <3> QED
      BY <1>1, <3>1
  <2> QED
    BY <2>1, <2>2
<1>2. ASSUME NEW w \in wire, RedisWrites(w) PROVE FaithfulCopy'
  BY <1>2 DEF RedisWrites, Request
<1>3. ASSUME NEW w \in wire, WriteFails(w) PROVE FaithfulCopy'
  BY <1>3 DEF WriteFails
<1>4. ASSUME NEW d \in Devices, Expire(d) PROVE FaithfulCopy'
  BY <1>4 DEF Expire
<1>5. ASSUME NEW f \in Frames, Set(f) PROVE FaithfulCopy'
  <2>1. clock' \in Version /\ RecordState(frame[f].dev, clock') /\ UNCHANGED redis
    BY <1>5, BoundsAreNat DEF Set
  <2> HIDE DEF FaithfulCopy
  <2> QED
    BY <1>1, <2>1
<1>6. ASSUME NEW f \in Frames, Delete(f) PROVE FaithfulCopy'
  BY <1>1, <1>6, BoundsAreNat DEF Delete
<1>7. CASE UNCHANGED <<redis, wire, latest, disturbed>>
  BY <1>7
<1> HIDE DEF TypeOK, FaithfulCopy, InFlight
<1> QED
  BY <1>2, <1>3, <1>4, <1>5, <1>6, <1>7 DEF Next, GetFromMemory, GetFromRedis, RedisAnswers,
     Restore, ReadFails, Leave, BackoffEnds, Restart, vars

\* A device none of whose writes was skipped, failed or overlapped another has its last
\* state in Redis, or on its way there, or has let it expire.
THEOREM Faithful == Spec => []FaithfulCopy
<1>1. Init => FaithfulCopy
  BY DEF Init, FaithfulCopy, InFlight
<1> QED
  BY <1>1, FaithfulNext, TypeCorrect, PTL DEF Spec

-----------------------------------------------------------------------------
(* The cell behind it                                                      *)

IsReading(f) == frame[f].pc \in {"asked", "answered"}

\* What a boot has of a device is the last state recorded, or nothing.  A device that is being
\* read is marked and has nothing in the Map yet, and the answer on its way is the last state
\* recorded, or nothing.
Restored ==
  /\ \A d \in Devices : /\ memory[d] \in {None, latest[d]}
                        /\ d \notin hydrated => memory[d] = None
  /\ \A f \in Frames : /\ IsReading(f) => frame[f].dev \in hydrated /\ memory[frame[f].dev] = None
                       /\ frame[f].pc = "answered" => frame[f].got \in {None, latest[frame[f].dev]}

\* A frame that is not idle is alone with its device.
LEMMA AloneWithDevice ==
  ASSUME Ordered, NEW f \in Frames, NEW g \in Frames,
         frame[f].pc # "idle", frame[g].pc # "idle", frame[f].dev = frame[g].dev
  PROVE  f = g
  BY DEF Ordered

LEMMA RestoredNext ==
  TypeOK /\ FaithfulCopy /\ Ordered /\ Restored /\ [Next /\ Ordered']_vars => Restored'
<1> SUFFICES ASSUME TypeOK, FaithfulCopy, Ordered, Restored, [Next /\ Ordered']_vars
             PROVE  Restored'
  OBVIOUS
<1>m. /\ memory \in [Devices -> Version] /\ latest \in [Devices -> Version]
      /\ frame \in [Frames -> [pc : Pc, dev : Devices, got : Version]]
  BY DEF TypeOK
<1>k. /\ \A d \in Devices : /\ memory[d] \in {None, latest[d]}
                            /\ d \notin hydrated => memory[d] = None
      /\ \A f \in Frames : /\ IsReading(f) => frame[f].dev \in hydrated /\ memory[frame[f].dev] = None
                           /\ frame[f].pc = "answered" => frame[f].got \in {None, latest[frame[f].dev]}
  BY DEF Restored
<1>a. \A f, g \in Frames : frame[f].pc # "idle" /\ frame[g].pc # "idle" /\ frame[f].dev = frame[g].dev => f = g
  BY AloneWithDevice
<1>1. ASSUME NEW f \in Frames, NEW d \in Devices, GetFromMemory(f, d) PROVE Restored'
  BY <1>1, <1>m, <1>k DEF GetFromMemory, Resume, Restored, IsReading
<1>2. ASSUME NEW f \in Frames, NEW d \in Devices, GetFromRedis(f, d) PROVE Restored'
  BY <1>2, <1>m, <1>k DEF GetFromRedis, Restored, IsReading
<1>3. ASSUME NEW f \in Frames, RedisAnswers(f) PROVE Restored'
  <2>1. redis[frame[f].dev] \in {None, latest[frame[f].dev]}
    <3>1. frame[f].dev \in Devices /\ f \in Reading(frame[f].dev)
      BY <1>3, <1>m DEF RedisAnswers, Reading
    <3>2. InFlight(frame[f].dev) = {} /\ frame[f].dev \notin disturbed
      BY <3>1 DEF Ordered
    <3> QED
      BY <3>1, <3>2 DEF FaithfulCopy
  <2> QED
    BY <1>3, <1>m, <1>k, <2>1 DEF RedisAnswers, Restored, IsReading
<1>4. ASSUME NEW f \in Frames, Restore(f) PROVE Restored'
  <2>1. frame[f].dev \in Devices /\ frame[f].got \in {None, latest[frame[f].dev]} /\ IsReading(f)
    BY <1>4, <1>m, <1>k DEF Restore, IsReading
  <2>2. ASSUME NEW g \in Frames, IsReading(g)' PROVE IsReading(g) /\ frame'[g] = frame[g] /\ frame[g].dev # frame[f].dev
    <3>1. g # f
      BY <1>4, <1>m, <2>2 DEF Restore, Resume, IsReading
    <3>2. frame'[g] = frame[g]
      BY <1>4, <1>m, <3>1 DEF Restore, Resume
    <3> QED
      BY <1>a, <2>1, <2>2, <3>1, <3>2 DEF IsReading
  <2>3. \A g \in Frames : frame'[g].pc = "answered" => IsReading(g)'
    BY DEF IsReading
  <2>4. /\ UNCHANGED <<latest, hydrated>>
        /\ \A d \in Devices : memory'[d] = memory[d] \/ (d = frame[f].dev /\ memory'[d] = frame[f].got)
        /\ \A d \in Devices : d # frame[f].dev => memory'[d] = memory[d]
    BY <1>4, <1>m DEF Restore
  <2>5. \A g \in Frames : frame[g].dev \in Devices
    BY <1>m
  <2>6. \A g \in Frames : IsReading(g)' => /\ frame'[g].dev \in hydrated' /\ memory'[frame'[g].dev] = None
    BY <1>k, <2>2, <2>4, <2>5
  <2>7. \A g \in Frames : frame'[g].pc = "answered" => frame'[g].got \in {None, latest'[frame'[g].dev]}
    BY <1>k, <2>2, <2>3, <2>4
  <2>8. \A d \in Devices : /\ memory'[d] \in {None, latest'[d]}
                           /\ d \notin hydrated' => memory'[d] = None
    BY <1>k, <2>1, <2>4
  <2> QED
    BY <2>6, <2>7, <2>8 DEF Restored
<1>5. ASSUME NEW f \in Frames, ReadFails(f) PROVE Restored'
  BY <1>5, <1>m, <1>k DEF ReadFails, Resume, Restored, IsReading
<1>6. ASSUME NEW f \in Frames, NEW v \in Version, frame[f].pc = "has",
             memory' = [memory EXCEPT ![frame[f].dev] = v], RecordState(frame[f].dev, v),
             frame' = [frame EXCEPT ![f].pc = "idle"]
      PROVE Restored'
  <2>1. /\ \A d \in Devices : d # frame[f].dev => memory'[d] = memory[d] /\ latest'[d] = latest[d]
        /\ memory'[frame[f].dev] = v /\ latest'[frame[f].dev] = v /\ frame[f].dev \in Devices
        /\ hydrated' = hydrated \union {frame[f].dev}
    BY <1>6, <1>m DEF RecordState
  <2>2. ASSUME NEW g \in Frames, frame'[g].pc # "idle" PROVE frame'[g] = frame[g] /\ frame[g].dev # frame[f].dev
    <3>1. g # f /\ frame'[g] = frame[g]
      BY <1>6, <1>m, <2>2
    <3> QED
      BY <1>6, <1>a, <2>2, <3>1
  <2>3. \A g \in Frames : frame[g].dev \in Devices
    BY <1>m
  <2>4. \A g \in Frames : /\ IsReading(g)' => frame'[g].dev \in hydrated' /\ memory'[frame'[g].dev] = None
                          /\ frame'[g].pc = "answered" => frame'[g].got \in {None, latest'[frame'[g].dev]}
    BY <1>k, <2>1, <2>2, <2>3 DEF IsReading
  <2>5. \A d \in Devices : /\ memory'[d] \in {None, latest'[d]}
                           /\ d \notin hydrated' => memory'[d] = None
    BY <1>k, <2>1
  <2> QED
    BY <2>4, <2>5 DEF Restored
<1>7. ASSUME NEW f \in Frames, Set(f) PROVE Restored'
  <2>1. clock' \in Version
    BY <1>7, BoundsAreNat DEF Set, TypeOK
  <2> QED
    BY <1>6, <1>7, <2>1 DEF Set
<1>8. ASSUME NEW f \in Frames, Delete(f) PROVE Restored'
  <2>1. None \in Version
    BY BoundsAreNat
  <2> QED
    BY <1>6, <1>8, <2>1 DEF Delete
<1>9. ASSUME NEW f \in Frames, Leave(f) PROVE Restored'
  BY <1>9, <1>m, <1>k DEF Leave, Restored, IsReading
<1>10. CASE Restart
  BY <1>10, <1>m, <1>k DEF Restart, IdleFrame, Restored, IsReading
<1>11. CASE UNCHANGED <<memory, hydrated, latest, frame>>
  BY <1>11, <1>k DEF Restored, IsReading
<1> QED
  BY <1>1, <1>2, <1>3, <1>4, <1>5, <1>7, <1>8, <1>9, <1>10, <1>11
  DEF Next, RedisWrites, WriteFails, Expire, BackoffEnds, vars

\* What is true for as long as Ordered has held.
OrderedInv == TypeOK /\ FaithfulCopy /\ Ordered /\ Restored

LEMMA OrderedInvAlways == WatchedSpec => [](ordered => OrderedInv)
<1>1. WatchedInit => OrderedInv
  <2> SUFFICES ASSUME Init PROVE OrderedInv
    BY DEF WatchedInit
  <2>1. TypeOK
    BY TypeInit
  <2>2. FaithfulCopy /\ Ordered
    BY DEF Init, FaithfulCopy, InFlight, Ordered, Reading, IdleFrame
  <2>3. Restored
    BY DEF Init, Restored, IsReading, IdleFrame
  <2> QED
    BY <2>1, <2>2, <2>3 DEF OrderedInv
<1>2. (ordered => OrderedInv) /\ [WatchedNext]_watched => (ordered => OrderedInv)'
  <2> SUFFICES ASSUME ordered => OrderedInv, [WatchedNext]_watched, ordered' PROVE OrderedInv'
    OBVIOUS
  <2>1. CASE UNCHANGED watched
    BY <2>1 DEF watched, vars, OrderedInv, TypeOK, FaithfulCopy, Ordered, Restored, IsReading, Reading, InFlight
  <2>2. CASE WatchedNext
    <3>1. OrderedInv /\ Next /\ Ordered'
      BY <2>2 DEF WatchedNext
    <3>2. TypeOK' /\ FaithfulCopy'
      BY <3>1, TypeNext, FaithfulNext DEF OrderedInv
    <3>3. Restored'
      BY <3>1, RestoredNext DEF OrderedInv
    <3> QED
      BY <3>1, <3>2, <3>3 DEF OrderedInv
  <2> QED
    BY <2>1, <2>2
<1> QED
  BY <1>1, <1>2, PTL DEF WatchedSpec

-----------------------------------------------------------------------------
(* DetectorState implements DetectorCell                                   *)

FrameState == [pc : Pc, dev : Devices, got : Version]

\* A frame moves: only its own answer changes.
LEMMA AnswersMove ==
  ASSUME frame \in [Frames -> FrameState], NEW f \in Frames, NEW j \in FrameState,
         frame' = [frame EXCEPT ![f] = j]
  PROVE  Answers' = [Answers EXCEPT ![f] =
                       IF j.pc = "has" THEN [dev |-> j.dev, val |-> j.got] ELSE NoAnswer]
  BY DEF Answers

\* A frame that is not reading, before or after, does not change who reads.
LEMMA ReadersStay ==
  ASSUME frame \in [Frames -> FrameState], NEW f \in Frames, NEW j \in FrameState,
         frame' = [frame EXCEPT ![f] = j], ~IsReading(f), j.pc \notin {"asked", "answered"}
  PROVE  \A d \in Devices : Reading(d)' = Reading(d)
  BY DEF Reading, IsReading

\* A frame that is reading touches no reader of another device.
LEMMA OtherReadersStay ==
  ASSUME frame \in [Frames -> FrameState], NEW f \in Frames, NEW j \in FrameState,
         frame' = [frame EXCEPT ![f] = j],
         NEW d \in Devices, d # j.dev, IsReading(f) => frame[f].dev # d
  PROVE  Reading(d)' = Reading(d)
  BY DEF Reading, IsReading

\* What this boot has of a device depends on that device alone.
LEMMA ViewMoves ==
  ASSUME NEW d \in Devices,
         \A e \in Devices \ {d} : /\ e \in hydrated' <=> e \in hydrated
                                  /\ Reading(e)' = Reading(e)
                                  /\ memory'[e] = memory[e] /\ latest'[e] = latest[e],
         NEW v, View'[d] = v
  PROVE  View' = [View EXCEPT ![d] = v]
<1>1. \A e \in Devices \ {d} : View'[e] = View[e]
  BY DEF View
<1>2. View = [e \in Devices |-> View[e]] /\ View' = [e \in Devices |-> View'[e]]
  BY DEF View
<1> QED
  BY <1>1, <1>2

\* A frame that has an answer is not one that has none.
LEMMA HasAnswer ==
  ASSUME frame \in [Frames -> FrameState], NEW f \in Frames
  PROVE  Answers[f] = NoAnswer <=> frame[f].pc # "has"
<1>1. frame[f].got \in 0..MaxVersion /\ MaxVersion \in Nat
  BY BoundsAreNat DEF FrameState
<1>2. frame[f].got # MaxVersion + 1
  BY <1>1
<1>3. frame[f].pc = "has" => Answers[f].val = frame[f].got
  BY DEF Answers
<1>4. NoAnswer.val = MaxVersion + 1
  BY DEF NoAnswer
<1>5. frame[f].pc # "has" => Answers[f] = NoAnswer
  BY DEF Answers
<1> QED
  BY <1>2, <1>3, <1>4, <1>5

\* The end of a first lookup, with the state or without.
LEMMA FirstLookupEnds ==
  ASSUME TypeOK, Ordered, Restored, NEW f \in Frames, IsReading(f), NEW got \in Version,
         got \in {None, latest[frame[f].dev]},
         Resume(f, frame[f].dev, got),
         memory' = IF got = None THEN memory ELSE [memory EXCEPT ![frame[f].dev] = got],
         UNCHANGED <<hydrated, latest>>
  PROVE  Cell!Next
<1>m. /\ frame \in [Frames -> FrameState] /\ memory \in [Devices -> Version]
      /\ latest \in [Devices -> Version]
  BY DEF TypeOK, FrameState
<1>1. PICK d \in Devices : d = frame[f].dev
  BY <1>m DEF FrameState
<1>2. PICK j \in FrameState : j = [pc |-> "has", dev |-> d, got |-> got]
  BY <1>1 DEF FrameState, Pc
<1>3. frame' = [frame EXCEPT ![f] = j] /\ j.pc = "has" /\ j.dev = d /\ j.got = got
  BY <1>1, <1>2 DEF Resume
<1>4. d \in hydrated /\ memory[d] = None
  BY <1>1 DEF Restored
<1>5. Reading(d) # {} /\ Reading(d)' = {}
  <2>1. \A g \in Frames : IsReading(g) /\ frame[g].dev = d => g = f
    BY <1>1, AloneWithDevice DEF IsReading
  <2> QED
    BY <1>m, <1>1, <1>3, <2>1 DEF Reading, IsReading
<1>6. View[d] = "unknown" /\ Answers[f] = NoAnswer
  BY <1>m, <1>5, HasAnswer DEF View, IsReading
<1>7. Answers' = [Answers EXCEPT ![f] = [dev |-> d, val |-> got]]
  BY <1>m, <1>3, AnswersMove
<1>8. memory'[d] = got /\ \A e \in Devices \ {d} : memory'[e] = memory[e]
  BY <1>m, <1>1, <1>4
<1>9. \A e \in Devices \ {d} : Reading(e)' = Reading(e)
  BY <1>m, <1>1, <1>3, OtherReadersStay
<1>10. CASE got = latest[d]
  <2>1. View'[d] = "kept"
    BY <1>4, <1>5, <1>8, <1>10 DEF View
  <2>2. View' = [View EXCEPT ![d] = "kept"]
    BY <1>8, <1>9, <2>1, ViewMoves
  <2> QED
    BY <1>6, <1>7, <1>10, <2>2 DEF Cell!Next, Cell!FirstLookup, Cell!Answer, Cell!NoAnswer, NoAnswer
<1>11. CASE got # latest[d]
  <2>1. got = None
    BY <1>1, <1>11
  <2>2. View'[d] = "forgotten"
    BY <1>4, <1>5, <1>8, <1>11 DEF View
  <2>3. View' = [View EXCEPT ![d] = "forgotten"]
    BY <1>8, <1>9, <2>2, ViewMoves
  <2> QED
    BY <1>6, <1>7, <1>11, <2>1, <2>3
    DEF Cell!Next, Cell!FirstLookup, Cell!Answer, Cell!NoAnswer, NoAnswer, Cell!None
<1> QED
  BY <1>10, <1>11

\* A set or a delete is a new state of the cell.
LEMMA CellRecords ==
  ASSUME TypeOK, Ordered, NEW f \in Frames, NEW v \in Version, frame[f].pc = "has",
         memory' = [memory EXCEPT ![frame[f].dev] = v], RecordState(frame[f].dev, v),
         frame' = [frame EXCEPT ![f].pc = "idle"]
  PROVE  Cell!Next
<1>m. /\ frame \in [Frames -> FrameState] /\ memory \in [Devices -> Version]
      /\ latest \in [Devices -> Version]
  BY DEF TypeOK, FrameState
<1>1. PICK d \in Devices : d = frame[f].dev
  BY <1>m DEF FrameState
<1>2. PICK j \in FrameState : j = [frame[f] EXCEPT !.pc = "idle"]
  BY <1>m DEF FrameState, Pc
<1>3. frame' = [frame EXCEPT ![f] = j] /\ j.pc = "idle"
  BY <1>m, <1>2 DEF FrameState
<1>4. /\ \A e \in Devices \ {d} : memory'[e] = memory[e] /\ latest'[e] = latest[e]
      /\ memory'[d] = v /\ latest'[d] = v /\ latest' = [latest EXCEPT ![d] = v]
      /\ hydrated' = hydrated \union {d}
  BY <1>m, <1>1 DEF RecordState
<1>5. \A e \in Devices : Reading(e)' = Reading(e)
  BY <1>m, <1>3, ReadersStay DEF IsReading
<1>6. Reading(d) = {}
  <2>1. \A g \in Frames : frame[g].pc # "idle" /\ frame[g].dev = d => g = f
    BY <1>1, AloneWithDevice
  <2> QED
    BY <2>1 DEF Reading
<1>7. View' = [View EXCEPT ![d] = "kept"]
  <2>1. View'[d] = "kept"
    BY <1>4, <1>5, <1>6 DEF View
  <2> QED
    BY <1>4, <1>5, <2>1, ViewMoves
<1>8. Answers[f] # NoAnswer /\ Answers[f].dev = d
  BY <1>m, <1>1, HasAnswer DEF Answers
<1>9. Answers' = [Answers EXCEPT ![f] = NoAnswer]
  BY <1>m, <1>3, AnswersMove
<1> QED
  BY <1>4, <1>7, <1>8, <1>9 DEF Cell!Next, Cell!Record, Cell!NoAnswer, NoAnswer, Cell!Version

LEMMA CellNext ==
  ASSUME OrderedInv, OrderedInv', [Next]_vars
  PROVE  [Cell!Next]_<<latest, View, Answers>>
<1> USE DEF OrderedInv
<1>m. /\ frame \in [Frames -> FrameState] /\ memory \in [Devices -> Version]
      /\ latest \in [Devices -> Version]
  BY DEF TypeOK, FrameState
<1>1. ASSUME NEW f \in Frames, NEW d \in Devices, GetFromMemory(f, d) PROVE Cell!Next
  <2>1. PICK j \in FrameState : j = [pc |-> "has", dev |-> d, got |-> memory[d]]
    BY <1>m DEF FrameState, Pc
  <2>2. /\ frame' = [frame EXCEPT ![f] = j] /\ j.pc = "has" /\ j.dev = d /\ j.got = memory[d]
        /\ frame[f].pc = "idle" /\ UNCHANGED <<memory, hydrated, latest>>
    BY <1>1, <2>1 DEF GetFromMemory, Resume
  <2>3. \A e \in Devices : Reading(e)' = Reading(e)
    BY <1>m, <2>2, ReadersStay DEF IsReading
  <2>4. View' = View
    BY <2>2, <2>3 DEF View
  <2>5. Answers[f] = NoAnswer /\ Answers' = [Answers EXCEPT ![f] = [dev |-> d, val |-> memory[d]]]
    <3>1. Answers[f] = NoAnswer
      BY <1>m, <2>2, HasAnswer
    <3>2. Answers' = [Answers EXCEPT ![f] =
                        IF j.pc = "has" THEN [dev |-> j.dev, val |-> j.got] ELSE NoAnswer]
      BY <1>m, <2>2, AnswersMove
    <3> QED
      BY <2>2, <3>1, <3>2
  <2>6. CASE View[d] = "unknown"
    <3>1. Reading(d) = {}
      <4> SUFFICES ASSUME NEW g \in Reading(d) PROVE FALSE
        OBVIOUS
      <4>1. g \in Frames /\ g # f /\ frame'[g].pc # "idle" /\ frame'[g].dev = d
        BY <1>m, <2>2 DEF Reading
      <4>2. frame'[f].pc # "idle" /\ frame'[f].dev = d
        BY <1>m, <2>2
      <4> QED
        BY <4>1, <4>2 DEF Ordered
    <3>2. d \notin hydrated
      BY <2>6, <3>1 DEF View
    <3>3. memory[d] = None
      BY <3>2 DEF Restored
    <3> QED
      BY <2>2, <2>4, <2>5, <2>6, <3>3
      DEF Cell!Next, Cell!FirstLookup, Cell!Answer, Cell!NoAnswer, NoAnswer, Cell!None
  <2>7. CASE View[d] # "unknown"
    <3>1. memory[d] = IF View[d] = "kept" THEN latest[d] ELSE None
      BY <2>7 DEF View, Restored
    <3> QED
      BY <2>2, <2>4, <2>5, <2>7, <3>1
      DEF Cell!Next, Cell!Lookup, Cell!Answer, Cell!NoAnswer, NoAnswer, Cell!None
  <2> QED
    BY <2>6, <2>7
<1>2. ASSUME NEW f \in Frames, NEW d \in Devices, GetFromRedis(f, d)
      PROVE UNCHANGED <<latest, View, Answers>>
  <2>1. PICK j \in FrameState : j = [pc |-> "asked", dev |-> d, got |-> None]
    <3>1. None \in Version
      BY BoundsAreNat
    <3> QED
      BY <3>1 DEF FrameState, Pc
  <2>2. /\ frame' = [frame EXCEPT ![f] = j] /\ j.pc = "asked" /\ j.dev = d
        /\ frame[f].pc = "idle" /\ UNCHANGED <<memory, latest>>
        /\ d \notin hydrated /\ hydrated' = hydrated \union {d}
    BY <1>2, <2>1 DEF GetFromRedis
  <2>3. \A e \in Devices \ {d} : Reading(e)' = Reading(e)
    BY <1>m, <2>2, OtherReadersStay DEF IsReading
  <2>4. f \in Reading(d)'
    BY <1>m, <2>2 DEF Reading
  <2>5. View' = View
    BY <2>2, <2>3, <2>4 DEF View
  <2>6. Answers' = Answers
    BY <1>m, <2>2 DEF Answers
  <2> QED
    BY <2>2, <2>5, <2>6
<1>3. ASSUME NEW f \in Frames, RedisAnswers(f) PROVE UNCHANGED <<latest, View, Answers>>
  <2>1. /\ UNCHANGED <<memory, latest, hydrated>> /\ frame[f].pc = "asked"
        /\ frame'[f].pc = "answered" /\ frame'[f].dev = frame[f].dev
        /\ \A g \in Frames : g # f => frame'[g] = frame[g]
    BY <1>3, <1>m DEF RedisAnswers, FrameState
  <2>2. \A d \in Devices : Reading(d)' = Reading(d)
    BY <2>1 DEF Reading
  <2> QED
    BY <2>1, <2>2 DEF View, Answers
<1>4. ASSUME NEW f \in Frames, Restore(f) PROVE Cell!Next
  <2>1. /\ IsReading(f) /\ frame[f].got \in Version /\ frame[f].got \in {None, latest[frame[f].dev]}
        /\ Resume(f, frame[f].dev, frame[f].got) /\ UNCHANGED <<hydrated, latest>>
        /\ memory' = IF frame[f].got = None THEN memory
                     ELSE [memory EXCEPT ![frame[f].dev] = frame[f].got]
    BY <1>4, <1>m DEF Restore, IsReading, Restored, FrameState
  <2> QED
    BY <2>1, FirstLookupEnds
<1>5. ASSUME NEW f \in Frames, ReadFails(f) PROVE Cell!Next
  <2>1. /\ IsReading(f) /\ None \in Version /\ Resume(f, frame[f].dev, None)
        /\ UNCHANGED <<memory, hydrated, latest>>
    BY <1>5, BoundsAreNat DEF ReadFails, IsReading
  <2> QED
    BY <2>1, FirstLookupEnds
<1>6. ASSUME NEW f \in Frames, Set(f) PROVE Cell!Next
  <2>1. clock' \in Version
    BY DEF TypeOK
  <2> QED
    BY <1>6, <2>1, CellRecords DEF Set
<1>7. ASSUME NEW f \in Frames, Delete(f) PROVE Cell!Next
  <2>1. None \in Version
    BY BoundsAreNat
  <2> QED
    BY <1>7, <2>1, CellRecords DEF Delete
<1>8. ASSUME NEW f \in Frames, Leave(f) PROVE Cell!Next
  <2>1. PICK j \in FrameState : j = [frame[f] EXCEPT !.pc = "idle"]
    BY <1>m DEF FrameState, Pc
  <2>2. /\ frame' = [frame EXCEPT ![f] = j] /\ j.pc = "idle" /\ frame[f].pc = "has"
        /\ UNCHANGED <<memory, hydrated, latest>>
    BY <1>8, <1>m, <2>1 DEF Leave, FrameState
  <2>3. \A e \in Devices : Reading(e)' = Reading(e)
    BY <1>m, <2>2, ReadersStay DEF IsReading
  <2>4. View' = View
    BY <2>2, <2>3 DEF View
  <2>5. Answers[f] # NoAnswer /\ Answers' = [Answers EXCEPT ![f] = NoAnswer]
    BY <1>m, <2>2, HasAnswer, AnswersMove
  <2> QED
    BY <2>2, <2>4, <2>5 DEF Cell!Next, Cell!Leave, Cell!NoAnswer, NoAnswer
<1>9. CASE Restart
  <2>1. View' = [d \in Devices |-> "unknown"]
    BY <1>9 DEF Restart, View
  <2>2. Answers' = [f \in Frames |-> NoAnswer]
    BY <1>9 DEF Restart, IdleFrame, Answers, NoAnswer
  <2>3. UNCHANGED latest
    BY <1>9 DEF Restart
  <2> QED
    BY <2>1, <2>2, <2>3 DEF Cell!Next, Cell!Restart, Cell!NoAnswer, NoAnswer
<1>10. CASE UNCHANGED <<memory, hydrated, latest, frame>>
  <2>1. \A d \in Devices : Reading(d)' = Reading(d)
    BY <1>10 DEF Reading
  <2> QED
    BY <1>10, <2>1 DEF View, Answers
<1> QED
  BY <1>1, <1>2, <1>3, <1>4, <1>5, <1>6, <1>7, <1>8, <1>9, <1>10
  DEF Next, RedisWrites, WriteFails, Expire, BackoffEnds, vars

\* Until something disturbs it a DetectorState is a cell per device: only the first lookup of a
\* boot may find that the state has been forgotten, every other one returns the last state
\* recorded, and what has been seen, or recorded, stays.  Each step of the code is one of the
\* cell's or none.
THEOREM ImplementsCell == WatchedSpec => FollowsCell
<1>1. WatchedInit => Cell!Init
  BY DEF WatchedInit, Init, Cell!Init, View, Answers, IdleFrame, NoAnswer, Cell!NoAnswer, Cell!None
<1>2. (ordered => OrderedInv) /\ (ordered => OrderedInv)' /\ [WatchedNext]_watched
        => [ordered' => [Cell!Next]_<<latest, View, Answers>>]_watched
  <2> SUFFICES ASSUME ordered => OrderedInv, (ordered => OrderedInv)', WatchedNext, ordered'
               PROVE  [Cell!Next]_<<latest, View, Answers>>
    OBVIOUS
  <2>1. OrderedInv /\ OrderedInv' /\ [Next]_vars
    BY DEF WatchedNext
  <2> QED
    BY <2>1, CellNext
<1> QED
  BY <1>1, <1>2, OrderedInvAlways, PTL DEF WatchedSpec, FollowsCell

=============================================================================
