------------------------ MODULE TripSegmentation_proofs ------------------------
(***************************************************************************)
(* What segmentTrips and findStops make of any rows, for any thresholds:   *)
(* the trips are the ones that were driven, their stops are one line of    *)
(* time, and no halt is left out.  The functions loop over the rows, so    *)
(* the argument is an induction over them.  It is done with sets of        *)
(* numbers: the library's well-founded induction has a form that needs no  *)
(* operator, a set without a least element is empty.                       *)
(***************************************************************************)
EXTENDS TripSegmentation, WellFoundedInduction, TLAPS

-----------------------------------------------------------------------------
(* Numbers                                                                 *)

\* A set of naturals has a least element, and one that is bounded a greatest.
LEMMA LeastNumber ==
  ASSUME NEW T, T \subseteq Nat, T # {}
  PROVE  \E m \in T : \A k \in T : m <= k
<1>1. PICK m \in T : \A k \in T : <<k, m>> \notin OpToRel(<, Nat)
  BY NatLessThanWellFounded, WFMin
<1>2. \A k \in T : ~(k < m)
  BY <1>1 DEF OpToRel
<1> QED
  BY <1>2

\* Induction: a set with 0 that is closed under one more has every natural.
LEMMA NatSetInduction ==
  ASSUME NEW S, 0 \in S, \A n \in Nat : n \in S => n + 1 \in S
  PROVE  Nat \subseteq S
<1> DEFINE T == Nat \ S
<1> SUFFICES ASSUME T # {} PROVE FALSE
  OBVIOUS
<1>1. PICK m \in T : \A k \in T : m <= k
  BY LeastNumber, T \subseteq Nat
<1>2. m # 0 /\ m - 1 \in Nat /\ m = (m - 1) + 1
  OBVIOUS
<1> QED
  BY <1>1, <1>2

LEMMA GreatestNumber ==
  ASSUME NEW n \in Nat, NEW T, T \subseteq 0..n, T # {}
  PROVE  \E m \in T : \A k \in T : k <= m
<1> DEFINE D == {d \in Nat : n - d \in T}
<1>1. D # {}
  <2>1. PICK m \in T : TRUE
    OBVIOUS
  <2>2. n - m \in Nat /\ n - (n - m) = m
    BY <2>1
  <2> QED
    BY <2>1, <2>2
<1>2. PICK d \in D : \A e \in D : d <= e
  BY <1>1, LeastNumber, D \subseteq Nat
<1>3. ASSUME NEW k \in T PROVE k <= n - d
  <2>1. n - k \in Nat /\ n - (n - k) = k
    OBVIOUS
  <2>2. d <= n - k
    BY <1>2, <2>1
  <2> QED
    BY <2>2, <2>1
<1> QED
  BY <1>2, <1>3

-----------------------------------------------------------------------------
(* segmentTrips: the loop                                                  *)

\* The types of a row and of what the loop holds.
Row == [at : Nat, fix : Fixes]
Cut == [done : Seq(Seq(Row)), open : Seq(Row), active : Nat]
NoCut == [done |-> <<>>, open |-> <<>>, active |-> 0]

InOrder(s) == \A i \in 1..Len(s), j \in 1..Len(s) : i < j => s[i].at < s[j].at

\* The recursive function Cuts is what it says: one is built row by row.
LEMMA CutsDef ==
  ASSUME NEW s, Len(s) \in Nat
  PROVE  Cuts(s) = [n \in 0..Len(s) |-> IF n = 0 THEN NoCut ELSE TakeRow(Cuts(s)[n - 1], s[n])]
<1> DEFINE Rec(f, m) == f = [n \in 0..m |-> IF n = 0 THEN NoCut ELSE TakeRow(f[n - 1], s[n])]
           S == {m \in Nat : \E f : Rec(f, m)}
<1>1. 0 \in S
  <2> DEFINE f == [n \in 0..0 |-> NoCut]
  <2>1. Rec(f, 0)
    OBVIOUS
  <2> QED
    BY <2>1
<1>2. ASSUME NEW m \in Nat, m \in S PROVE m + 1 \in S
  <2>1. PICK f : Rec(f, m)
    BY <1>2
  <2> DEFINE g == [n \in 0..m + 1 |-> IF n <= m THEN f[n] ELSE TakeRow(f[m], s[m + 1])]
  <2>2. Rec(g, m + 1)
    BY <2>1
  <2>3. \E h : Rec(h, m + 1)
    BY <2>2
  <2> QED
    BY <2>3
<1>3. PICK f : Rec(f, Len(s))
  BY <1>1, <1>2, NatSetInduction
<1> QED
  BY <1>3, Zenon DEF Cuts, NoCut

LEMMA SegThresholds == TripBreak \in Nat \ {0} /\ MinStop \in Nat \ {0} /\ MinPause \in Nat \ {0}
                       /\ MinTraffic \in Nat \ {0} /\ Slack \in Nat \ {0} /\ Spacings \subseteq Nat \ {0}
  BY SegmentationConstants

\* The time of a row is a number, and grows.
LEMMA RowTimes ==
  ASSUME NEW s \in Seq(Row), InOrder(s)
  PROVE  /\ \A i \in 1..Len(s) : s[i].at \in Nat
         /\ \A i \in 1..Len(s), j \in 1..Len(s) : i <= j => s[i].at <= s[j].at
<1>1. \A i \in 1..Len(s) : s[i] \in Row
  OBVIOUS
<1> QED
  BY <1>1 DEF Row, InOrder

\* A trip is a piece of the rows: what it has, and how it grows.
LEMMA Pieces ==
  ASSUME NEW s \in Seq(Row), NEW o \in 1..Len(s), NEW e \in o..Len(s)
  PROVE  /\ SubSeq(s, o, e) \in Seq(Row)
         /\ Len(SubSeq(s, o, e)) = e - o + 1
         /\ SubSeq(s, o, e) # <<>>
         /\ \A k \in 1..e - o + 1 : SubSeq(s, o, e)[k] = s[o + k - 1]
  OBVIOUS

LEMMA PieceGrows ==
  ASSUME NEW s \in Seq(Row), NEW o \in 1..Len(s), NEW e \in o..Len(s), e < Len(s)
  PROVE  Append(SubSeq(s, o, e), s[e + 1]) = SubSeq(s, o, e + 1)
  OBVIOUS

LEMMA PieceStarts ==
  ASSUME NEW s \in Seq(Row), NEW o \in 1..Len(s)
  PROVE  Append(<<>>, s[o]) = SubSeq(s, o, o)
  OBVIOUS

\* What closing a segment, and putting a row to it, does to each part of the cut.
LEMMA CloseIs ==
  ASSUME NEW c \in Cut, NEW d, d = Close(c)
  PROVE  /\ d \in Cut /\ d.open = <<>> /\ d.active = c.active
         /\ IsTrip(c.open) => d.done = Append(c.done, c.open)
         /\ ~IsTrip(c.open) => d.done = c.done
<1> DEFINE A == Seq(Seq(Row))
           B == Seq(Row)
           e == <<>>
           x == IF IsTrip(c.open) THEN Append(c.done, c.open) ELSE c.done
<1>1. c \in [done : A, open : B, active : Nat] /\ e \in B
  BY DEF Cut
<1>2. x \in A
  <2>1. c.done \in Seq(Seq(Row)) /\ c.open \in Seq(Row)
    BY DEF Cut
  <2> QED
    BY <2>1
<1>3. d = [c EXCEPT !.done = x, !.open = e]
  BY Zenon DEF Close
<1> HIDE DEF A, B, e, x
<1>4. d \in [done : A, open : B, active : Nat] /\ d.done = x /\ d.open = e /\ d.active = c.active
  BY <1>1, <1>2, <1>3
<1> QED
  BY <1>4, Zenon DEF A, B, e, x, Cut

Push(c, r) == [c EXCEPT !.open = Append(@, r), !.active = IF Active(r) THEN r.at ELSE @]

LEMMA PushIs ==
  ASSUME NEW c \in Cut, NEW r \in Row, NEW d, d = Push(c, r)
  PROVE  /\ d \in Cut /\ d.open = Append(c.open, r) /\ d.done = c.done
         /\ d.active = IF Active(r) THEN r.at ELSE c.active
<1> DEFINE A == Seq(Seq(Row))
           B == Seq(Row)
           o == Append(c.open, r)
           x == IF Active(r) THEN r.at ELSE c.active
<1>1. c \in [done : A, open : B, active : Nat]
  BY DEF Cut
<1>2. o \in B
  <2>1. c.open \in Seq(Row)
    BY DEF Cut
  <2> QED
    BY <2>1
<1>3. x \in Nat
  BY <1>1 DEF Row
<1>4. d = [c EXCEPT !.open = o, !.active = x]
  BY DEF Push
<1> HIDE DEF A, B, o, x
<1>5. d \in [done : A, open : B, active : Nat] /\ d.done = c.done /\ d.open = o /\ d.active = x
  BY <1>1, <1>2, <1>3, <1>4
<1> QED
  BY <1>5, Zenon DEF A, B, o, x, Cut

\* Rows from o to e are one whole trip of the first n.
WholeTrip(s, o, e, n) ==
  /\ Opens(s, o)
  /\ \A k \in o..e : Belongs(s, k)
  /\ \A p \in o + 1..e : ~Opens(s, p)
  /\ \A k \in e + 1..n : Belongs(s, k) => \E p \in e + 1..k : Opens(s, p)

\* The open segment began at o, and was last active with the last active row of all.
OpenSince(s, n, c, o) ==
  /\ o \in 1..n /\ WholeTrip(s, o, n, n) /\ c.open = SubSeq(s, o, n)
  /\ \A k \in 1..n : Active(s[k]) => s[k].at <= c.active
  /\ \E a \in o..n : Active(s[a]) /\ c.active = s[a].at

\* The trips that are over, in the order of time and before what is open.
DoneAre(s, n, c) ==
  /\ \A i \in 1..Len(c.done) :
       /\ IsTrip(c.done[i])
       /\ \E o \in 1..n, e \in 1..n : o <= e /\ WholeTrip(s, o, e, n) /\ c.done[i] = SubSeq(s, o, e)
       /\ LastOf(c.done[i]).at <= s[n].at
       /\ c.open # <<>> => LastOf(c.done[i]).at < c.open[1].at
  /\ \A i \in 1..Len(c.done), j \in 1..Len(c.done) : i < j => LastOf(c.done[i]).at < c.done[j][1].at

\* No opener is forgotten.
NoneMissing(s, n, c) ==
  \A o \in 1..n : Opens(s, o) =>
    \E e \in o..n :
      /\ WholeTrip(s, o, e, n)
      /\ \/ c.open # <<>> /\ c.open = SubSeq(s, o, e)
         \/ ~IsTrip(SubSeq(s, o, e))
         \/ \E i \in 1..Len(c.done) : c.done[i] = SubSeq(s, o, e)

\* With nothing open, all activity is longer than a break ago.
Quiescent(s, n, c, t) == c.open = <<>> => \A k \in 1..n : Active(s[k]) => t - s[k].at >= TripBreak

\* The invariant of the loop.
CutInv(s, n, c) ==
  /\ c \in Cut
  /\ c.open # <<>> => \E o \in 1..n : OpenSince(s, n, c, o)
  /\ DoneAre(s, n, c)
  /\ NoneMissing(s, n, c)
  /\ n > 0 => Quiescent(s, n, c, s[n].at)

\* The segment's activity is no later than its last row.
LEMMA LaterStill ==
  ASSUME NEW t \in Nat, NEW last \in Nat, NEW active \in Nat, NEW at \in Nat, NEW break \in Nat,
         at <= active, active <= last, t - last >= break \/ t - active >= break
  PROVE  t - at >= break
  OBVIOUS

\* A segment that closes is the trip it stands for, or went nowhere.
LEMMA OpenCloses ==
  ASSUME NEW s \in Seq(Row), InOrder(s), NEW n \in 0..Len(s), NEW c, CutInv(s, n, c), c.open # <<>>
  PROVE  Close(c) \in Cut /\ Close(c).open = <<>> /\ DoneAre(s, n, Close(c)) /\ NoneMissing(s, n, Close(c))
<1> DEFINE d == Close(c)
<1>1. c \in Cut /\ c.open # <<>>
  BY DEF CutInv
<1>2. PICK o \in 1..n : OpenSince(s, n, c, o)
  BY <1>1 DEF CutInv
<1>3. n \in 1..Len(s) /\ s[n] \in Row
  BY <1>2
<1>4. c.open \in Seq(Row) /\ c.done \in Seq(Seq(Row))
  BY <1>1 DEF Cut
<1>5. /\ d \in Cut /\ d.open = <<>> /\ d.active = c.active
      /\ IsTrip(c.open) => d.done = Append(c.done, c.open)
      /\ ~IsTrip(c.open) => d.done = c.done
  BY <1>1, CloseIs
<1>6. d \in Cut /\ d.open = <<>>
  BY <1>5
<1>7. DoneAre(s, n, d)
  <2>1. CASE ~IsTrip(c.open)
    <3>1. d.done = c.done
      BY <1>5, <2>1
    <3> QED
      BY <3>1, <1>6 DEF CutInv, DoneAre
  <2>2. CASE IsTrip(c.open)
    <3>1. d.done = Append(c.done, c.open)
      BY <1>5, <2>2
    <3>2. Len(d.done) = Len(c.done) + 1 /\ d.done[Len(c.done) + 1] = c.open
          /\ \A i \in 1..Len(c.done) : d.done[i] = c.done[i]
      BY <3>1, <1>4
    <3>3. LastOf(c.open) = s[n] /\ c.open = SubSeq(s, o, n) /\ WholeTrip(s, o, n, n)
      BY <1>2, <1>3, Pieces DEF OpenSince, LastOf
    <3>4. ASSUME NEW i \in 1..Len(d.done)
          PROVE  /\ IsTrip(d.done[i])
                 /\ \E x \in 1..n, e \in 1..n : x <= e /\ WholeTrip(s, x, e, n) /\ d.done[i] = SubSeq(s, x, e)
                 /\ LastOf(d.done[i]).at <= s[n].at
      <4>1. CASE i = Len(c.done) + 1
        <5>1. d.done[i] = c.open /\ s[n].at \in Nat
          BY <4>1, <3>2, <1>3 DEF Row
        <5>2. o \in 1..n /\ n \in 1..n /\ o <= n
          BY <1>3
        <5>3. s[n].at <= s[n].at
          BY <5>1
        <5> QED
          BY <5>1, <5>2, <5>3, <3>3, <2>2, Zenon
      <4>2. CASE i \in 1..Len(c.done)
        BY <4>2, <3>2, <1>4 DEF CutInv, DoneAre
      <4> QED
        BY <4>1, <4>2, <3>2, <1>4
    <3>5. ASSUME NEW i \in 1..Len(d.done), NEW j \in 1..Len(d.done), i < j
          PROVE  LastOf(d.done[i]).at < d.done[j][1].at
      <4>1. i \in 1..Len(c.done)
        BY <3>5, <3>2, <1>4
      <4>2. CASE j = Len(c.done) + 1
        BY <4>1, <4>2, <3>2, <1>1 DEF CutInv, DoneAre
      <4>3. CASE j \in 1..Len(c.done)
        BY <4>1, <4>3, <3>2, <3>5 DEF CutInv, DoneAre
      <4> QED
        BY <4>2, <4>3, <3>2, <1>4
    <3> QED
      BY <3>4, <3>5, <1>6 DEF DoneAre
  <2> QED
    BY <2>1, <2>2
<1>8. NoneMissing(s, n, d)
  <2> SUFFICES ASSUME NEW x \in 1..n, Opens(s, x)
               PROVE  \E e \in x..n :
                        /\ WholeTrip(s, x, e, n)
                        /\ \/ ~IsTrip(SubSeq(s, x, e))
                           \/ \E i \in 1..Len(d.done) : d.done[i] = SubSeq(s, x, e)
    BY Zenon DEF NoneMissing
  <2>1. PICK e \in x..n :
          /\ WholeTrip(s, x, e, n)
          /\ \/ c.open # <<>> /\ c.open = SubSeq(s, x, e)
             \/ ~IsTrip(SubSeq(s, x, e))
             \/ \E i \in 1..Len(c.done) : c.done[i] = SubSeq(s, x, e)
    BY Zenon DEF CutInv, NoneMissing
  <2>2. CASE c.open = SubSeq(s, x, e) /\ IsTrip(c.open)
    <3>1. d.done = Append(c.done, c.open)
      BY <1>5, <2>2
    <3>2. Len(c.done) + 1 \in 1..Len(d.done) /\ d.done[Len(c.done) + 1] = SubSeq(s, x, e)
      BY <3>1, <1>4, <2>2
    <3> QED
      BY <3>2, <2>1
  <2>3. CASE \E i \in 1..Len(c.done) : c.done[i] = SubSeq(s, x, e)
    <3>1. PICK i \in 1..Len(c.done) : c.done[i] = SubSeq(s, x, e)
      BY <2>3
    <3>2. i \in 1..Len(d.done) /\ d.done[i] = c.done[i]
      <4>1. CASE IsTrip(c.open)
        <5>1. d.done = Append(c.done, c.open)
          BY <4>1, <1>5
        <5> QED
          BY <5>1, <1>4
      <4>2. CASE ~IsTrip(c.open)
        BY <4>2, <3>1, <1>5
      <4> QED
        BY <4>1, <4>2
    <3> QED
      BY <3>1, <3>2, <2>1
  <2> QED
    BY <2>1, <2>2, <2>3
<1> QED
  BY <1>6, <1>7, <1>8

LEMMA Closed ==
  ASSUME NEW s \in Seq(Row), InOrder(s), NEW n \in 0..Len(s), NEW c, CutInv(s, n, c)
  PROVE  Close(c) \in Cut /\ Close(c).open = <<>> /\ DoneAre(s, n, Close(c)) /\ NoneMissing(s, n, Close(c))
<1> SUFFICES ASSUME c.open = <<>>
             PROVE  Close(c) \in Cut /\ Close(c).open = <<>> /\ DoneAre(s, n, Close(c)) /\ NoneMissing(s, n, Close(c))
  BY OpenCloses
<1> DEFINE d == Close(c)
<1>1. c \in Cut /\ DoneAre(s, n, c) /\ NoneMissing(s, n, c)
  BY DEF CutInv
<1>2. ~IsTrip(c.open)
  BY DEF IsTrip
<1>3. d \in Cut /\ d.open = <<>> /\ d.done = c.done
  BY <1>1, <1>2, CloseIs
<1> HIDE DEF d
<1>4. DoneAre(s, n, d)
  BY <1>1, <1>3 DEF DoneAre
<1>5. NoneMissing(s, n, d)
  BY <1>1, <1>3 DEF NoneMissing
<1> QED
  BY <1>3, <1>4, <1>5 DEF d

\* A break is one for all that was active: nothing before it is near the row after it.
LEMMA Rests ==
  ASSUME NEW s \in Seq(Row), InOrder(s), NEW n \in 0..Len(s) - 1, NEW c, CutInv(s, n, c),
         TripOver(c, s[n + 1])
  PROVE  \A k \in 1..n : Active(s[k]) => s[n + 1].at - s[k].at >= TripBreak
<1> DEFINE r == s[n + 1]
<1>1. c \in Cut /\ c.open # <<>>
  BY DEF CutInv, TripOver
<1>2. PICK o \in 1..n : OpenSince(s, n, c, o)
  BY <1>1 DEF CutInv
<1>3. n \in 1..Len(s) /\ s[n] \in Row /\ r \in Row /\ s[n].at < r.at
  BY <1>2 DEF InOrder
<1>9. ASSUME NEW k \in 1..n, Active(s[k]) PROVE r.at - s[k].at >= TripBreak
  <2>1. s[k].at <= c.active /\ c.active \in Nat /\ s[k].at \in Nat /\ r.at \in Nat /\ s[n].at \in Nat
    <3>1. s[k] \in Row
      OBVIOUS
    <3> QED
      BY <1>9, <1>2, <1>1, <1>3, <3>1 DEF OpenSince, Cut, Row
  <2>2. c.active <= s[n].at
    <3>1. PICK a \in o..n : c.active = s[a].at
      BY <1>2 DEF OpenSince
    <3>2. a = n \/ s[a].at < s[n].at
      BY <1>3 DEF InOrder
    <3> QED
      BY <3>1, <3>2, <2>1
  <2>3. LastOf(c.open) = s[n]
    BY <1>2, <1>3, Pieces DEF OpenSince, LastOf
  <2>4. r.at - s[n].at >= TripBreak \/ r.at - c.active >= TripBreak
    BY <2>3 DEF TripOver
  <2> QED
    BY <2>1, <2>2, <2>4, SegThresholds, LaterStill
<1> QED
  BY <1>9

\* What holds of the cut when row n + 1 is taken, once it was tested for a break.
Ready(s, n, c) ==
  /\ c \in Cut
  /\ c.open # <<>> => s[n + 1].at - c.active < TripBreak /\ \E o \in 1..n : OpenSince(s, n, c, o)
  /\ DoneAre(s, n, c)
  /\ NoneMissing(s, n, c)
  /\ Quiescent(s, n, c, s[n + 1].at)

LEMMA BreakTested ==
  ASSUME NEW s \in Seq(Row), InOrder(s), NEW n \in 0..Len(s) - 1, NEW c, CutInv(s, n, c)
  PROVE  Ready(s, n, IF TripOver(c, s[n + 1]) THEN Close(c) ELSE c)
<1>1. CASE TripOver(c, s[n + 1])
  <2>1. Ready(s, n, Close(c))
    BY <1>1, Closed, Rests DEF Ready, Quiescent
  <2> QED
    BY <1>1, <2>1
<1>2. CASE ~TripOver(c, s[n + 1])
  <2>1. c \in Cut /\ s[n + 1] \in Row
    BY DEF CutInv
  <2>2. c.open # <<>> => s[n + 1].at - c.active < TripBreak
    <3>1. c.active \in Nat /\ s[n + 1].at \in Nat
      BY <2>1 DEF Cut, Row
    <3> QED
      BY <3>1, <1>2, SegThresholds DEF TripOver
  <2>3. Quiescent(s, n, c, s[n + 1].at)
    <3> SUFFICES ASSUME c.open = <<>>, NEW k \in 1..n, Active(s[k]) PROVE s[n + 1].at - s[k].at >= TripBreak
      BY DEF Quiescent
    <3>1. s[n].at - s[k].at >= TripBreak
      BY DEF CutInv, Quiescent
    <3>2. n \in 1..Len(s) /\ s[n].at < s[n + 1].at
      BY DEF InOrder
    <3>3. s[n] \in Row /\ s[k] \in Row
      BY <3>2
    <3>4. s[n].at \in Nat /\ s[k].at \in Nat /\ s[n + 1].at \in Nat
      BY <3>3, <2>1 DEF Row
    <3> QED
      BY <3>1, <3>2, <3>4, SegThresholds
  <2>4. Ready(s, n, c)
    BY <2>1, <2>2, <2>3 DEF CutInv, Ready
  <2> QED
    BY <1>2, <2>4
<1> QED
  BY <1>1, <1>2

\* After a long rest a row is near none before it.
LEMMA Rested ==
  ASSUME NEW s \in Seq(Row), NEW n \in 0..Len(s) - 1, NEW c, Ready(s, n, c), c.open = <<>>
  PROVE  /\ Active(s[n + 1]) => Opens(s, n + 1)
         /\ Belongs(s, n + 1) => Opens(s, n + 1)
<1>1. ASSUME NEW i \in DOMAIN s PROVE ~Near(s, i, n + 1)
  <2> SUFFICES ASSUME i < n + 1, Active(s[i]), s[n + 1].at - s[i].at < TripBreak PROVE FALSE
    BY DEF Near
  <2>1. i \in 1..n
    OBVIOUS
  <2>2. s[n + 1].at - s[i].at >= TripBreak
    BY <2>1 DEF Ready, Quiescent
  <2>3. s[i] \in Row /\ s[n + 1] \in Row
    OBVIOUS
  <2>4. s[i].at \in Nat /\ s[n + 1].at \in Nat
    BY <2>3 DEF Row
  <2> QED
    BY <2>2, <2>4, SegThresholds
<1> QED
  BY <1>1 DEF Opens, Belongs

\* A trip that is over stays as it is.
LEMMA Carried ==
  ASSUME NEW s \in Seq(Row), NEW n \in 0..Len(s) - 1, NEW c, Ready(s, n, c),
         NEW o \in 1..n, NEW e \in o..n, WholeTrip(s, o, e, n), c.open # <<>> => e < n
  PROVE  WholeTrip(s, o, e, n + 1)
<1> SUFFICES ASSUME Belongs(s, n + 1) PROVE \E p \in e + 1..n + 1 : Opens(s, p)
  <2>1. ASSUME NEW k \in e + 1..n + 1, Belongs(s, k), k # n + 1 PROVE \E p \in e + 1..k : Opens(s, p)
    BY <2>1 DEF WholeTrip
  <2> QED
    BY <2>1 DEF WholeTrip
<1>1. CASE c.open = <<>>
  <2>1. Opens(s, n + 1)
    BY <1>1, Rested
  <2> QED
    BY <2>1
<1>2. CASE c.open # <<>>
  <2>1. PICK x \in 1..n : OpenSince(s, n, c, x)
    BY <1>2 DEF Ready
  <2>2. Belongs(s, n) /\ n \in e + 1..n
    BY <2>1, <1>2 DEF OpenSince, WholeTrip
  <2>3. \E p \in e + 1..n : Opens(s, p)
    BY <2>2 DEF WholeTrip
  <2> QED
    BY <2>3
<1> QED
  BY <1>1, <1>2

\* The three things the row can do: be left out, open a segment, or go on with one.
LEMMA LeftOut ==
  ASSUME NEW s \in Seq(Row), InOrder(s), NEW n \in 0..Len(s) - 1, NEW c, Ready(s, n, c),
         c.open = <<>>, ~Active(s[n + 1])
  PROVE  CutInv(s, n + 1, c)
<1>1. c \in Cut /\ DoneAre(s, n, c) /\ NoneMissing(s, n, c)
  BY DEF Ready
<1>2. \A k \in 1..n + 1 : k = n + 1 \/ k \in 1..n
  OBVIOUS
<1>3. DoneAre(s, n + 1, c)
  <2>1. ASSUME NEW i \in 1..Len(c.done)
        PROVE  /\ \E o \in 1..n + 1, e \in 1..n + 1 :
                    o <= e /\ WholeTrip(s, o, e, n + 1) /\ c.done[i] = SubSeq(s, o, e)
               /\ LastOf(c.done[i]).at <= s[n + 1].at
    <3>1. PICK o \in 1..n, e \in 1..n : o <= e /\ WholeTrip(s, o, e, n) /\ c.done[i] = SubSeq(s, o, e)
      BY <1>1 DEF DoneAre
    <3>2. WholeTrip(s, o, e, n + 1)
      BY <3>1, Carried
    <3>3. LastOf(c.done[i]) = s[e]
      BY <3>1, Pieces DEF LastOf
    <3>4. e \in 1..Len(s) /\ n + 1 \in 1..Len(s) /\ e <= n + 1 /\ o \in 1..n + 1 /\ e \in 1..n + 1
      OBVIOUS
    <3>5. s[e].at <= s[n + 1].at
      BY <3>4, RowTimes
    <3> QED
      BY <3>1, <3>2, <3>3, <3>4, <3>5
  <2> QED
    BY <2>1, <1>1 DEF DoneAre
<1>4. NoneMissing(s, n + 1, c)
  <2> SUFFICES ASSUME NEW o \in 1..n + 1, Opens(s, o)
               PROVE  \E e \in o..n + 1 :
                        /\ WholeTrip(s, o, e, n + 1)
                        /\ \/ ~IsTrip(SubSeq(s, o, e))
                           \/ \E i \in 1..Len(c.done) : c.done[i] = SubSeq(s, o, e)
    BY Zenon DEF NoneMissing
  <2>1. o \in 1..n
    BY <1>2 DEF Opens
  <2>2. PICK e \in o..n : /\ WholeTrip(s, o, e, n)
                          /\ \/ ~IsTrip(SubSeq(s, o, e))
                             \/ \E i \in 1..Len(c.done) : c.done[i] = SubSeq(s, o, e)
    BY <1>1, <2>1, Zenon DEF NoneMissing
  <2>3. WholeTrip(s, o, e, n + 1) /\ e \in o..n + 1
    BY <2>1, <2>2, Carried
  <2> QED
    BY <2>2, <2>3
<1>5. Quiescent(s, n + 1, c, s[n + 1].at)
  BY <1>2 DEF Ready, Quiescent
<1> QED
  BY <1>1, <1>3, <1>4, <1>5 DEF CutInv

LEMMA OpensOne ==
  ASSUME NEW s \in Seq(Row), InOrder(s), NEW n \in 0..Len(s) - 1, NEW c, Ready(s, n, c),
         c.open = <<>>, Active(s[n + 1]), NEW d, d \in Cut, d.done = c.done,
         d.open = Append(c.open, s[n + 1]), d.active = s[n + 1].at
  PROVE  CutInv(s, n + 1, d)
<1>1. c \in Cut /\ DoneAre(s, n, c) /\ NoneMissing(s, n, c)
  BY DEF Ready
<1>2. \A k \in 1..n + 1 : k = n + 1 \/ k \in 1..n
  OBVIOUS
<1>3. s[n + 1] \in Row /\ n + 1 \in 1..Len(s)
  OBVIOUS
<1>4. d.open = SubSeq(s, n + 1, n + 1) /\ d.open # <<>> /\ d.open[1] = s[n + 1]
  BY <1>3, PieceStarts
<1>5. WholeTrip(s, n + 1, n + 1, n + 1)
  <2>1. Opens(s, n + 1)
    BY Rested
  <2> QED
    BY <2>1 DEF WholeTrip, Belongs
<1>6. OpenSince(s, n + 1, d, n + 1)
  <2>1. ASSUME NEW k \in 1..n + 1 PROVE s[k].at <= d.active
    BY RowTimes, <1>3
  <2> QED
    BY <2>1, <1>3, <1>4, <1>5 DEF OpenSince
<1>7. DoneAre(s, n + 1, d)
  <2>1. ASSUME NEW i \in 1..Len(c.done)
        PROVE  /\ \E o \in 1..n + 1, e \in 1..n + 1 :
                    o <= e /\ WholeTrip(s, o, e, n + 1) /\ c.done[i] = SubSeq(s, o, e)
               /\ LastOf(c.done[i]).at < s[n + 1].at
               /\ LastOf(c.done[i]).at <= s[n + 1].at
    <3>1. PICK o \in 1..n, e \in 1..n : o <= e /\ WholeTrip(s, o, e, n) /\ c.done[i] = SubSeq(s, o, e)
      BY <1>1 DEF DoneAre
    <3>2. WholeTrip(s, o, e, n + 1)
      BY <3>1, Carried
    <3>3. LastOf(c.done[i]) = s[e]
      BY <3>1, Pieces DEF LastOf
    <3>4. e \in 1..Len(s) /\ n + 1 \in 1..Len(s) /\ e < n + 1 /\ o \in 1..n + 1 /\ e \in 1..n + 1
      OBVIOUS
    <3>5. s[e].at < s[n + 1].at /\ s[e].at <= s[n + 1].at
      BY <3>4, RowTimes DEF InOrder
    <3> QED
      BY <3>1, <3>2, <3>3, <3>4, <3>5
  <2> QED
    BY <2>1, <1>1, <1>4 DEF DoneAre
<1>8. NoneMissing(s, n + 1, d)
  <2> SUFFICES ASSUME NEW o \in 1..n + 1, Opens(s, o)
               PROVE  \E e \in o..n + 1 :
                        /\ WholeTrip(s, o, e, n + 1)
                        /\ \/ d.open # <<>> /\ d.open = SubSeq(s, o, e)
                           \/ ~IsTrip(SubSeq(s, o, e))
                           \/ \E i \in 1..Len(d.done) : d.done[i] = SubSeq(s, o, e)
    BY Zenon DEF NoneMissing
  <2>1. CASE o = n + 1
    <3>1. n + 1 \in o..n + 1
      BY <2>1
    <3> QED
      BY <2>1, <3>1, <1>4, <1>5
  <2>2. CASE o \in 1..n
    <3>1. PICK e \in o..n : /\ WholeTrip(s, o, e, n)
                            /\ \/ ~IsTrip(SubSeq(s, o, e))
                               \/ \E i \in 1..Len(c.done) : c.done[i] = SubSeq(s, o, e)
      BY <1>1, <2>2, Zenon DEF NoneMissing
    <3>2. WholeTrip(s, o, e, n + 1) /\ e \in o..n + 1
      BY <2>2, <3>1, Carried
    <3> QED
      BY <3>1, <3>2
  <2> QED
    BY <2>1, <2>2, <1>2
<1>9. n + 1 \in 1..n + 1
  OBVIOUS
<1> QED
  BY <1>4, <1>6, <1>7, <1>8, <1>9 DEF CutInv, Quiescent

LEMMA GoesOn ==
  ASSUME NEW s \in Seq(Row), InOrder(s), NEW n \in 0..Len(s) - 1, NEW c, Ready(s, n, c),
         c.open # <<>>, NEW d, d \in Cut, d.done = c.done, d.open = Append(c.open, s[n + 1]),
         d.active = IF Active(s[n + 1]) THEN s[n + 1].at ELSE c.active
  PROVE  CutInv(s, n + 1, d)
<1>1. c \in Cut /\ DoneAre(s, n, c) /\ NoneMissing(s, n, c)
  BY DEF Ready
<1>2. \A k \in 1..n + 1 : k = n + 1 \/ k \in 1..n
  OBVIOUS
<1>3. PICK o \in 1..n : OpenSince(s, n, c, o)
  BY DEF Ready
<1>4. n \in 1..Len(s) /\ n + 1 \in 1..Len(s) /\ o \in 1..Len(s) /\ n \in o..Len(s) /\ s[n + 1] \in Row
  BY <1>3
<1>5. c.open = SubSeq(s, o, n) /\ WholeTrip(s, o, n, n)
  BY <1>3 DEF OpenSince
<1>6. d.open = SubSeq(s, o, n + 1) /\ d.open # <<>> /\ d.open[1] = c.open[1] /\ d.open[1] = s[o]
      /\ LastOf(c.open) = s[n]
  <2>1. Append(c.open, s[n + 1]) = SubSeq(s, o, n + 1)
    BY <1>4, <1>5, PieceGrows
  <2>2. n + 1 \in o..Len(s) /\ 1 \in 1..n + 1 - o + 1 /\ 1 \in 1..n - o + 1 /\ o + 1 - 1 = o
    BY <1>4
  <2> DEFINE m == n + 1
  <2>5. m \in o..Len(s) /\ 1 \in 1..m - o + 1
    BY <2>2
  <2> HIDE DEF m
  <2>6. SubSeq(s, o, m) # <<>> /\ SubSeq(s, o, m)[1] = s[o]
    BY <1>4, <2>2, <2>5, Pieces
  <2>3. SubSeq(s, o, n + 1) # <<>> /\ SubSeq(s, o, n + 1)[1] = s[o]
    BY <2>6 DEF m
  <2>4. c.open[1] = s[o] /\ Len(c.open) = n - o + 1 /\ c.open[n - o + 1] = s[n]
    BY <1>4, <1>5, <2>2, Pieces
  <2> QED
    BY <2>1, <2>3, <2>4 DEF LastOf
<1>7. PICK a \in o..n : Active(s[a]) /\ c.active = s[a].at
  BY <1>3 DEF OpenSince
<1>8. Near(s, a, n + 1) /\ ~Opens(s, n + 1) /\ Belongs(s, n + 1)
  <2>1. a < n + 1 /\ a \in DOMAIN s /\ s[n + 1].at - s[a].at < TripBreak
    BY <1>4, <1>7 DEF Ready
  <2> QED
    BY <2>1, <1>7 DEF Near, Opens, Belongs
<1>9. WholeTrip(s, o, n + 1, n + 1)
  <2>1. \A k \in o..n + 1 : k = n + 1 \/ k \in o..n
    OBVIOUS
  <2>2. \A k \in o + 1..n + 1 : k = n + 1 \/ k \in o + 1..n
    OBVIOUS
  <2>3. n + 1 + 1..n + 1 = {}
    OBVIOUS
  <2> QED
    BY <2>1, <2>2, <2>3, <1>5, <1>8 DEF WholeTrip
<1>10. OpenSince(s, n + 1, d, o)
  <2>1. o \in 1..n + 1
    OBVIOUS
  <2>2. \A k \in 1..n + 1 : Active(s[k]) => s[k].at <= d.active
    <3>1. CASE Active(s[n + 1])
      BY <3>1, RowTimes, <1>4
    <3>2. CASE ~Active(s[n + 1])
      BY <3>2, <1>2, <1>3 DEF OpenSince
    <3> QED
      BY <3>1, <3>2
  <2>3. \E k \in o..n + 1 : Active(s[k]) /\ d.active = s[k].at
    <3>1. CASE Active(s[n + 1])
      BY <3>1, <1>4
    <3>2. CASE ~Active(s[n + 1])
      BY <3>2, <1>7
    <3> QED
      BY <3>1, <3>2
  <2> QED
    BY <2>1, <2>2, <2>3, <1>6, <1>9 DEF OpenSince
<1>11. DoneAre(s, n + 1, d)
  <2>1. ASSUME NEW i \in 1..Len(c.done)
        PROVE  /\ \E x \in 1..n + 1, e \in 1..n + 1 :
                    x <= e /\ WholeTrip(s, x, e, n + 1) /\ c.done[i] = SubSeq(s, x, e)
               /\ LastOf(c.done[i]).at <= s[n + 1].at
    <3>1. PICK x \in 1..n, e \in 1..n : x <= e /\ WholeTrip(s, x, e, n) /\ c.done[i] = SubSeq(s, x, e)
      BY <1>1 DEF DoneAre
    <3>2. LastOf(c.done[i]) = s[e]
      BY <3>1, Pieces DEF LastOf
    <3>3. e < n
      <4>1. s[e].at < s[o].at
        BY <3>2, <1>1, <1>6 DEF DoneAre
      <4>2. e < o
        BY <4>1, RowTimes, <1>4
      <4> QED
        BY <4>2
    <3>4. WholeTrip(s, x, e, n + 1)
      BY <3>1, <3>3, Carried
    <3>5. e \in 1..Len(s) /\ n + 1 \in 1..Len(s) /\ e <= n + 1 /\ x \in 1..n + 1 /\ e \in 1..n + 1
      OBVIOUS
    <3>6. s[e].at <= s[n + 1].at
      BY <3>5, RowTimes
    <3> QED
      BY <3>1, <3>2, <3>4, <3>5, <3>6
  <2> QED
    BY <2>1, <1>1, <1>6 DEF DoneAre
<1>12. NoneMissing(s, n + 1, d)
  <2> SUFFICES ASSUME NEW x \in 1..n + 1, Opens(s, x)
               PROVE  \E e \in x..n + 1 :
                        /\ WholeTrip(s, x, e, n + 1)
                        /\ \/ d.open # <<>> /\ d.open = SubSeq(s, x, e)
                           \/ ~IsTrip(SubSeq(s, x, e))
                           \/ \E i \in 1..Len(d.done) : d.done[i] = SubSeq(s, x, e)
    BY Zenon DEF NoneMissing
  <2>1. x \in 1..n
    BY <1>2, <1>8
  <2>2. PICK e \in x..n : /\ WholeTrip(s, x, e, n)
                          /\ \/ c.open # <<>> /\ c.open = SubSeq(s, x, e)
                             \/ ~IsTrip(SubSeq(s, x, e))
                             \/ \E i \in 1..Len(c.done) : c.done[i] = SubSeq(s, x, e)
    BY <1>1, <2>1, Zenon DEF NoneMissing
  <2>3. CASE e = n
    <3>1. x = o
      <4>1. ~(o \in x + 1..n) /\ ~(x \in o + 1..n)
        BY <2>2, <2>3, <1>5 DEF WholeTrip
      <4> QED
        BY <4>1, <2>1
    <3>2. n + 1 \in x..n + 1
      BY <2>1
    <3> QED
      BY <3>1, <3>2, <1>6, <1>9
  <2>4. CASE e < n
    <3>1. c.open # SubSeq(s, x, e)
      <4> SUFFICES ASSUME c.open = SubSeq(s, x, e) PROVE FALSE
        OBVIOUS
      <4>1. LastOf(SubSeq(s, x, e)) = s[e]
        BY <2>1, Pieces DEF LastOf
      <4>2. s[e].at < s[n].at /\ s[e].at \in Nat /\ s[n].at \in Nat
        BY <2>1, <2>4, <1>4, RowTimes DEF InOrder
      <4>3. s[n] = s[e]
        BY <1>6, <4>1, Zenon
      <4> QED
        BY <4>2, <4>3
    <3>2. WholeTrip(s, x, e, n + 1) /\ e \in x..n + 1
      BY <2>1, <2>2, <2>4, Carried
    <3>3. ~IsTrip(SubSeq(s, x, e)) \/ \E i \in 1..Len(d.done) : d.done[i] = SubSeq(s, x, e)
      BY <3>1, <2>2
    <3> QED
      BY <3>2, <3>3, Zenon
  <2>5. e = n \/ e < n
    BY <2>1
  <2> QED
    BY <2>3, <2>4, <2>5, Zenon
<1>13. o \in 1..n + 1 /\ n + 1 > 0
  OBVIOUS
<1> QED
  BY <1>6, <1>10, <1>11, <1>12, <1>13 DEF CutInv, Quiescent

LEMMA RowTaken ==
  ASSUME NEW s \in Seq(Row), InOrder(s), NEW n \in 0..Len(s) - 1, NEW c, CutInv(s, n, c)
  PROVE  CutInv(s, n + 1, TakeRow(c, s[n + 1]))
<1> DEFINE r == s[n + 1]
           b == IF TripOver(c, r) THEN Close(c) ELSE c
           d == Push(b, r)
<1>1. Ready(s, n, b)
  BY BreakTested
<1>2. b \in Cut /\ r \in Row
  BY <1>1 DEF Ready
<1>3. TakeRow(c, r) = IF b.open = <<>> /\ ~Active(r) THEN b ELSE d
  BY Zenon DEF TakeRow, Push
<1> HIDE DEF b, r
<1>4. /\ d \in Cut /\ d.open = Append(b.open, r) /\ d.done = b.done
      /\ d.active = IF Active(r) THEN r.at ELSE b.active
  BY <1>2, PushIs
<1> HIDE DEF d
<1>5. CASE b.open = <<>> /\ ~Active(r)
  <2>1. CutInv(s, n + 1, b)
    BY <1>1, <1>5, LeftOut DEF r
  <2> QED
    BY <2>1, <1>3, <1>5, Zenon DEF r
<1>6. CASE b.open = <<>> /\ Active(r)
  <2>1. d.active = r.at
    BY <1>4, <1>6
  <2>2. CutInv(s, n + 1, d)
    BY <2>1, <1>1, <1>4, <1>6, OpensOne DEF r
  <2> QED
    BY <2>2, <1>3, <1>6, Zenon DEF r
<1>7. CASE b.open # <<>>
  <2>1. CutInv(s, n + 1, d)
    BY <1>1, <1>4, <1>7, GoesOn DEF r
  <2> QED
    BY <2>1, <1>3, <1>7, Zenon DEF r
<1> QED
  BY <1>5, <1>6, <1>7

\* So the invariant holds after each of the rows.
LEMMA CutsAreInv ==
  ASSUME NEW s \in Seq(Row), InOrder(s), NEW n \in 0..Len(s)
  PROVE  CutInv(s, n, Cuts(s)[n])
<1> DEFINE S == {m \in Nat : m <= Len(s) => CutInv(s, m, Cuts(s)[m])}
<1>0. Len(s) \in Nat
  OBVIOUS
<1>1. 0 \in S
  <2>1. Cuts(s)[0] = NoCut
    <3>1. 0 \in 0..Len(s)
      BY <1>0
    <3> QED
      BY <3>1, <1>0, CutsDef
  <2>2. CutInv(s, 0, NoCut)
    <3>1. NoCut \in Cut /\ NoCut.open = <<>> /\ NoCut.done = <<>>
      BY DEF NoCut, Cut
    <3>2. 1..0 = {} /\ 1..Len(NoCut.done) = {}
      BY <3>1
    <3> QED
      BY <3>1, <3>2 DEF CutInv, DoneAre, NoneMissing
  <2> QED
    BY <2>1, <2>2
<1>2. ASSUME NEW m \in Nat, m \in S PROVE m + 1 \in S
  <2> SUFFICES ASSUME m + 1 <= Len(s) PROVE CutInv(s, m + 1, Cuts(s)[m + 1])
    OBVIOUS
  <2>1. m \in 0..Len(s) - 1 /\ m + 1 \in 0..Len(s) /\ m + 1 # 0 /\ (m + 1) - 1 = m
    BY <1>0
  <2>2. Cuts(s)[m + 1] = TakeRow(Cuts(s)[m], s[m + 1])
    BY <2>1, <1>0, CutsDef
  <2>3. CutInv(s, m, Cuts(s)[m])
    BY <2>1, <1>2
  <2> QED
    BY <2>1, <2>2, <2>3, RowTaken
<1> HIDE DEF S
<1>3. n \in S
  BY <1>1, <1>2, NatSetInduction
<1> QED
  BY <1>3, <1>0 DEF S

-----------------------------------------------------------------------------
(* segmentTrips: the trips                                                 *)

\* A segment without its order.
TripRows(segment) == {segment[k] : k \in DOMAIN segment}

\* What is said of the trips of s by the loop: pieces of s, in order, each a whole trip, none missing.
LEMMA SegmentsAre ==
  ASSUME NEW s \in Seq(Row), InOrder(s)
  PROVE  /\ Segments(s) \in Seq(Seq(Row))
         /\ \A i \in 1..Len(Segments(s)) :
              /\ IsTrip(Segments(s)[i])
              /\ \E o \in 1..Len(s), e \in 1..Len(s) :
                   o <= e /\ WholeTrip(s, o, e, Len(s)) /\ Segments(s)[i] = SubSeq(s, o, e)
         /\ \A i \in 1..Len(Segments(s)), j \in 1..Len(Segments(s)) :
              i < j => LastOf(Segments(s)[i]).at < Segments(s)[j][1].at
         /\ \A o \in 1..Len(s) : Opens(s, o) =>
              \E e \in o..Len(s) :
                /\ WholeTrip(s, o, e, Len(s))
                /\ IsTrip(SubSeq(s, o, e)) => \E i \in 1..Len(Segments(s)) : Segments(s)[i] = SubSeq(s, o, e)
<1> DEFINE n == Len(s)
           c == Cuts(s)[n]
           d == Close(c)
<1>1. n \in Nat /\ n \in 0..n
  OBVIOUS
<1>2. CutInv(s, n, c)
  BY <1>1, CutsAreInv
<1>3. Segments(s) = d.done
  BY DEF Segments
<1> HIDE DEF c, d
<1>4. DoneAre(s, n, d) /\ NoneMissing(s, n, d) /\ d \in Cut /\ d.open = <<>>
  BY <1>1, <1>2, Closed DEF d
<1>5. d.done \in Seq(Seq(Row))
  BY <1>4 DEF Cut
<1>6. ASSUME NEW o \in 1..n, Opens(s, o)
      PROVE \E e \in o..n :
                /\ WholeTrip(s, o, e, n)
                /\ IsTrip(SubSeq(s, o, e)) => \E i \in 1..Len(d.done) : d.done[i] = SubSeq(s, o, e)
  BY <1>4, <1>6 DEF NoneMissing
<1> QED
  BY <1>3, <1>4, <1>5, <1>6 DEF DoneAre

\* A whole piece is what TripFrom says of its first row, and IsTrip what Went says.
LEMMA PieceRows ==
  ASSUME NEW s \in Seq(Row), NEW o \in 1..Len(s), NEW e \in o..Len(s)
  PROVE  TripRows(SubSeq(s, o, e)) = {s[k] : k \in o..e}
<1> DEFINE p == SubSeq(s, o, e)
<1>1. DOMAIN p = 1..e - o + 1 /\ \A k \in 1..e - o + 1 : p[k] = s[o + k - 1]
  OBVIOUS
<1> HIDE DEF p
<1>2. ASSUME NEW k \in 1..e - o + 1 PROVE p[k] \in {s[j] : j \in o..e}
  <2>1. o + k - 1 \in o..e
    OBVIOUS
  <2> QED
    BY <1>1, <2>1
<1>3. ASSUME NEW j \in o..e PROVE \E k \in 1..e - o + 1 : s[j] = p[k]
  <2>1. j - o + 1 \in 1..e - o + 1 /\ o + (j - o + 1) - 1 = j
    OBVIOUS
  <2> QED
    BY <1>1, <2>1
<1>4. TripRows(p) = {s[k] : k \in o..e}
  BY <1>1, <1>2, <1>3 DEF TripRows
<1> QED
  BY <1>4 DEF p

LEMMA WholeIs ==
  ASSUME NEW s \in Seq(Row), NEW o \in 1..Len(s), NEW e \in o..Len(s), WholeTrip(s, o, e, Len(s))
  PROVE  TripFrom(s, o) = TripRows(SubSeq(s, o, e))
<1> DEFINE K == {k \in o..Len(s) : Belongs(s, k) /\ \A p \in o + 1..k : ~Opens(s, p)}
<1>1. K \subseteq o..e
  <2> SUFFICES ASSUME NEW k \in K, ~(k \in o..e) PROVE FALSE
    OBVIOUS
  <2>1. k \in e + 1..Len(s) /\ Belongs(s, k) /\ \A p \in o + 1..k : ~Opens(s, p)
    OBVIOUS
  <2>2. PICK p \in e + 1..k : Opens(s, p)
    BY <2>1 DEF WholeTrip
  <2>3. p \in o + 1..k
    BY <2>2
  <2> QED
    BY <2>1, <2>2, <2>3
<1>2. o..e \subseteq K
  BY DEF WholeTrip
<1> QED
  BY <1>1, <1>2, PieceRows DEF TripFrom

LEMMA TripsWent ==
  ASSUME NEW s \in Seq(Row), InOrder(s), NEW o \in 1..Len(s), NEW e \in o..Len(s)
  PROVE  IsTrip(SubSeq(s, o, e)) <=> Went(TripRows(SubSeq(s, o, e)))
<1> DEFINE p == SubSeq(s, o, e)
<1>1. Len(p) = e - o + 1 /\ \A k \in 1..e - o + 1 : p[k] = s[o + k - 1]
  BY Pieces
<1>2. TripRows(p) = {s[k] : k \in o..e}
  BY PieceRows
<1> HIDE DEF p
<1>3. ASSUME IsTrip(p) PROVE Went(TripRows(p))
  <2>1. PICK i \in 2..e - o + 1 : p[i].fix.moved
    BY <1>1, <1>3 DEF IsTrip
  <2>2. o + i - 1 \in o..e /\ o \in o..e /\ o < o + i - 1 /\ i \in 1..e - o + 1
    OBVIOUS
  <2>3. p[i] = s[o + i - 1]
    BY <1>1, <2>2
  <2>4. s[o].at < s[o + i - 1].at
    BY <2>2 DEF InOrder
  <2> QED
    BY <1>2, <2>1, <2>2, <2>3, <2>4 DEF Went
<1>4. ASSUME Went(TripRows(p)) PROVE IsTrip(p)
  <2>1. PICK k \in o..e, j \in o..e : s[k].fix.moved /\ s[j].at < s[k].at
    BY <1>2, <1>4 DEF Went
  <2>2. j < k
    <3>1. s[j].at \in Nat /\ s[k].at \in Nat /\ (k <= j => s[k].at <= s[j].at)
      BY RowTimes
    <3> QED
      BY <3>1, <2>1
  <2>3. k - o + 1 \in 2..e - o + 1 /\ o + (k - o + 1) - 1 = k /\ e - o + 1 >= 2 /\ k - o + 1 \in 1..e - o + 1
    BY <2>2
  <2>4. p[k - o + 1] = s[k]
    BY <1>1, <2>3
  <2> QED
    BY <1>1, <2>1, <2>3, <2>4 DEF IsTrip
<1> QED
  BY <1>3, <1>4 DEF p

\* Rows come in the order of their time: all else is said of what is made of them.
SegInv == SegTypeOK /\ InOrder(rows)

LEMMA InvGivesTrips == SegInv => SegmentsAreTrips
<1> SUFFICES ASSUME SegInv PROVE SegmentsAreTrips
  OBVIOUS
<1> DEFINE n == Len(rows)
           d == Segments(rows)
           Trips == {TripRows(segment) : segment \in {d[i] : i \in DOMAIN d}}
           Froms == {TripFrom(rows, o) : o \in {j \in DOMAIN rows : Opens(rows, j)}}
<1>1. rows \in Seq(Row) /\ InOrder(rows) /\ DOMAIN rows = 1..n /\ n \in Nat
  BY DEF SegInv, SegTypeOK, Row
<1>2. d \in Seq(Seq(Row)) /\ DOMAIN d = 1..Len(d)
  BY <1>1, SegmentsAre
<1>3. ASSUME NEW i \in 1..Len(d) PROVE TripRows(d[i]) \in Froms /\ Went(TripRows(d[i]))
  <2>1. IsTrip(d[i])
    BY <1>1, SegmentsAre
  <2>2. PICK o \in 1..n, e \in 1..n : o <= e /\ WholeTrip(rows, o, e, n) /\ d[i] = SubSeq(rows, o, e)
    BY <1>1, SegmentsAre
  <2> HIDE DEF d
  <2>3. o \in 1..n /\ e \in o..n /\ Opens(rows, o)
    BY <2>2 DEF WholeTrip
  <2>4. TripRows(d[i]) = TripFrom(rows, o)
    BY <1>1, <2>2, <2>3, WholeIs
  <2>5. Went(TripRows(d[i]))
    BY <1>1, <2>1, <2>2, <2>3, TripsWent
  <2> QED
    BY <1>1, <2>3, <2>4, <2>5
<1>4. ASSUME NEW o \in 1..n, Opens(rows, o), Went(TripFrom(rows, o))
      PROVE  \E i \in 1..Len(d) : TripFrom(rows, o) = TripRows(d[i])
  <2>1. PICK e \in o..n :
          /\ WholeTrip(rows, o, e, n)
          /\ IsTrip(SubSeq(rows, o, e)) => \E i \in 1..Len(d) : d[i] = SubSeq(rows, o, e)
    BY <1>1, <1>4, SegmentsAre
  <2> HIDE DEF d
  <2>2. TripFrom(rows, o) = TripRows(SubSeq(rows, o, e))
    BY <1>1, <2>1, WholeIs
  <2>3. IsTrip(SubSeq(rows, o, e))
    BY <1>1, <1>4, <2>2, TripsWent
  <2> QED
    BY <2>1, <2>2, <2>3
<1> HIDE DEF d
<1>5. Trips = {trip \in Froms : Went(trip)}
  BY <1>1, <1>2, <1>3, <1>4
<1> QED
  BY <1>5 DEF SegmentsAreTrips, TripRows, d

-----------------------------------------------------------------------------
(* findStops                                                               *)

\* A stop, and two that do not overlap.
Stop == [arrived : Nat, departed : Nat, kind : {"origin", "stop", "pause", "traffic", "destination"}]
Apart(x, y) == x.departed <= y.arrived \/ y.departed <= x.arrived

\* What the stops on the way are at any point of findStops.
OnTheWay(s, stops) ==
  /\ \A x \in stops :
       /\ x \in Stop /\ x.kind # "destination"
       /\ \E p \in 1..Len(s), q \in 1..Len(s) :
            /\ p <= q /\ x.arrived = s[p].at /\ x.departed = s[q].at
            /\ x.kind \in {"stop", "pause"} => p < q
  /\ \A x \in stops, y \in stops : x # y => Apart(x, y)

\* Runs of rows: two of them are the same or apart, and any stretch of good rows is in one.
LEMMA Intervals ==
  ASSUME NEW G, NEW H, NEW a \in Nat, NEW b \in Nat, NEW c \in Nat, NEW d \in Nat,
         a <= b, c <= d, a..b \subseteq G, c..d \subseteq H, G \intersect H = {}
  PROVE  b < c \/ d < a
<1> SUFFICES ASSUME c <= b, a <= d PROVE FALSE
  OBVIOUS
<1>1. CASE a <= c
  <2>1. c \in a..b /\ c \in c..d
    BY <1>1
  <2> QED
    BY <2>1
<1>2. CASE c < a
  <2>1. a \in a..b /\ a \in c..d
    BY <1>2
  <2> QED
    BY <2>1
<1> QED
  BY <1>1, <1>2

LEMMA RunsApart ==
  ASSUME NEW G, G \subseteq Nat \ {0}, NEW r \in RunsOf(G), NEW t \in RunsOf(G), r # t
  PROVE  r[2] < t[1] \/ t[2] < r[1]
<1> DEFINE a == r[1]
           b == r[2]
           c == t[1]
           d == t[2]
<1>1. /\ a \in Nat \ {0} /\ b \in Nat \ {0} /\ a < b /\ a..b \subseteq G /\ a - 1 \notin G /\ b + 1 \notin G
      /\ c \in Nat \ {0} /\ d \in Nat \ {0} /\ c < d /\ c..d \subseteq G /\ c - 1 \notin G /\ d + 1 \notin G
  BY DEF RunsOf
<1>2. r = <<a, b>> /\ t = <<c, d>>
  BY DEF RunsOf
<1> SUFFICES ASSUME c <= b, a <= d PROVE FALSE
  BY <1>1
<1> HIDE DEF a, b, c, d
<1>3. ~(a < c)
  <2> SUFFICES ASSUME a < c PROVE FALSE
    OBVIOUS
  <2>1. c - 1 \in a..b
    BY <1>1
  <2> QED
    BY <2>1, <1>1
<1>4. ~(c < a)
  <2> SUFFICES ASSUME c < a PROVE FALSE
    OBVIOUS
  <2>1. a - 1 \in c..d
    BY <1>1
  <2> QED
    BY <2>1, <1>1
<1>5. ~(b < d)
  <2> SUFFICES ASSUME b < d PROVE FALSE
    OBVIOUS
  <2>1. b + 1 \in c..d
    BY <1>1
  <2> QED
    BY <2>1, <1>1
<1>6. ~(d < b)
  <2> SUFFICES ASSUME d < b PROVE FALSE
    OBVIOUS
  <2>1. d + 1 \in a..b
    BY <1>1
  <2> QED
    BY <2>1, <1>1
<1>7. a = c /\ b = d
  BY <1>1, <1>3, <1>4, <1>5, <1>6
<1> QED
  BY <1>2, <1>7

LEMMA LongestRun ==
  ASSUME NEW N \in Nat, NEW G, G \subseteq 1..N, NEW i \in Nat, NEW j \in Nat, i < j, i..j \subseteq G
  PROVE  \E r \in RunsOf(G) : r[1] <= i /\ j <= r[2]
<1> DEFINE A == {a \in 1..N : a <= i /\ a..j \subseteq G}
           B == {b \in 1..N : j <= b /\ i..b \subseteq G}
<1>1. i \in A /\ j \in B
  OBVIOUS
<1>2. PICK a \in A : \A x \in A : a <= x
  BY <1>1, LeastNumber, A \subseteq Nat
<1>3. PICK b \in B : \A x \in B : x <= b
  BY <1>1, GreatestNumber, B \subseteq 0..N
<1>4. a..b \subseteq G
  <2> SUFFICES ASSUME NEW k \in a..b PROVE k \in G
    OBVIOUS
  <2>1. k \in a..j \/ k \in i..b
    OBVIOUS
  <2> QED
    BY <2>1
<1>5. a - 1 \notin G
  <2> SUFFICES ASSUME a - 1 \in G PROVE FALSE
    OBVIOUS
  <2>1. a - 1 \in 1..N /\ a - 1 <= i
    OBVIOUS
  <2>2. ASSUME NEW k \in a - 1..j PROVE k \in G
    <3>1. k = a - 1 \/ k \in a..j
      BY <2>1
    <3> QED
      BY <3>1
  <2>3. a - 1 \in A
    BY <2>1, <2>2
  <2> QED
    BY <1>2, <2>3
<1>6. b + 1 \notin G
  <2> SUFFICES ASSUME b + 1 \in G PROVE FALSE
    OBVIOUS
  <2>1. b + 1 \in 1..N /\ j <= b + 1
    OBVIOUS
  <2>2. ASSUME NEW k \in i..b + 1 PROVE k \in G
    <3>1. k = b + 1 \/ k \in i..b
      BY <2>1
    <3> QED
      BY <3>1
  <2>3. b + 1 \in B
    BY <2>1, <2>2
  <2> QED
    BY <1>3, <2>3
<1>7. a \in G /\ b \in G /\ a < b
  <2>1. a \in a..b /\ b \in a..b /\ a < b
    OBVIOUS
  <2> QED
    BY <2>1, <1>4
<1>8. <<a, b>> \in RunsOf(G)
  BY <1>4, <1>5, <1>6, <1>7 DEF RunsOf
<1> QED
  BY <1>8

\* The halts and crawls of s by the rows they run over.
HaltRuns(s) == RunsOf({k \in Between(s) : Halted(s[k])})
CrawlRuns(s) == RunsOf({k \in Between(s) : Crawling(s[k])})

LEMMA RunRows ==
  ASSUME NEW s \in Seq(Row), NEW G, G \subseteq Between(s), NEW r \in RunsOf(G)
  PROVE  r[1] \in 2..Len(s) - 1 /\ r[2] \in 2..Len(s) - 1 /\ r[1] < r[2] /\ r[1]..r[2] \subseteq G
  BY DEF RunsOf, Between

\* A halt, and a crawl, is told for a run.
LEMMA HaltsAre ==
  ASSUME NEW s, NEW x \in HaltStops(s)
  PROVE  \E r \in HaltRuns(s), kind \in {"stop", "pause"} :
           x = [arrived |-> s[r[1]].at, departed |-> s[r[2]].at, kind |-> kind]
<1>1. PICK r \in HaltRuns(s) : x = StopOf(s, r[1], r[2], IF Lasted(s, r) >= MinStop THEN "stop" ELSE "pause")
  BY DEF HaltStops, HaltRuns
<1> DEFINE kind == IF Lasted(s, r) >= MinStop THEN "stop" ELSE "pause"
<1>2. kind \in {"stop", "pause"}
  OBVIOUS
<1> HIDE DEF kind
<1>3. x = [arrived |-> s[r[1]].at, departed |-> s[r[2]].at, kind |-> kind]
  BY <1>1, Zenon DEF StopOf, kind
<1> QED
  BY <1>2, <1>3

LEMMA CrawlsAre ==
  ASSUME NEW s, NEW x \in TrafficStops(s)
  PROVE  \E r \in CrawlRuns(s) :
           x = [arrived |-> s[r[1]].at, departed |-> s[r[2]].at, kind |-> "traffic"]
  BY DEF TrafficStops, CrawlRuns, StopOf

\* Runs that do not meet are stops apart in time.
LEMMA RunsInTime ==
  ASSUME NEW s \in Seq(Row), InOrder(s),
         NEW a \in 1..Len(s), NEW b \in 1..Len(s), NEW c \in 1..Len(s), NEW d \in 1..Len(s),
         b < c \/ d < a, NEW x, NEW y,
         x.arrived = s[a].at, x.departed = s[b].at, y.arrived = s[c].at, y.departed = s[d].at
  PROVE  Apart(x, y)
<1>1. CASE b < c
  <2>1. s[b].at <= s[c].at
    BY <1>1, RowTimes
  <2> QED
    BY <2>1 DEF Apart
<1>2. CASE d < a
  <2>1. s[d].at <= s[a].at
    BY <1>2, RowTimes
  <2> QED
    BY <2>1 DEF Apart
<1> QED
  BY <1>1, <1>2

\* The origin, the halts and the crawls do not overlap: no row is both.
LEMMA RunsOnTheWay ==
  ASSUME NEW s \in Seq(Row), InOrder(s), Len(s) >= 2
  PROVE  OnTheWay(s, {StopOf(s, 1, 1, "origin")} \union HaltStops(s) \union TrafficStops(s))
<1> DEFINE n == Len(s)
           H == {k \in Between(s) : Halted(s[k])}
           C == {k \in Between(s) : Crawling(s[k])}
           origin == StopOf(s, 1, 1, "origin")
<1>1. \A i \in 1..n : s[i].at \in Nat
  BY RowTimes
<1>2. H \subseteq Between(s) /\ C \subseteq Between(s) /\ H \intersect C = {} /\ H \subseteq Nat \ {0} /\ C \subseteq Nat \ {0}
  BY DEF Halted, Crawling, Between
<1>3. HaltRuns(s) = RunsOf(H) /\ CrawlRuns(s) = RunsOf(C)
  BY DEF HaltRuns, CrawlRuns
<1> HIDE DEF H, C
<1>4. \A r \in HaltRuns(s) : r[1] \in 2..n - 1 /\ r[2] \in 2..n - 1 /\ r[1] < r[2] /\ r[1]..r[2] \subseteq H
  BY <1>2, <1>3, RunRows
<1>5. \A r \in CrawlRuns(s) : r[1] \in 2..n - 1 /\ r[2] \in 2..n - 1 /\ r[1] < r[2] /\ r[1]..r[2] \subseteq C
  BY <1>2, <1>3, RunRows
<1>6. ASSUME NEW x \in HaltStops(s)
      PROVE  /\ x \in Stop /\ x.kind # "destination"
             /\ \E p \in 1..n, q \in 1..n : p < q /\ x.arrived = s[p].at /\ x.departed = s[q].at
  <2>1. PICK r \in HaltRuns(s), kind \in {"stop", "pause"} :
           x = [arrived |-> s[r[1]].at, departed |-> s[r[2]].at, kind |-> kind]
    BY HaltsAre
  <2>2. r[1] \in 1..n /\ r[2] \in 1..n /\ r[1] < r[2]
    BY <1>4
  <2> QED
    BY <2>1, <2>2, <1>1 DEF Stop
<1>7. ASSUME NEW x \in TrafficStops(s)
      PROVE  /\ x \in Stop /\ x.kind = "traffic"
             /\ \E p \in 1..n, q \in 1..n : p < q /\ x.arrived = s[p].at /\ x.departed = s[q].at
  <2>1. PICK r \in CrawlRuns(s) : x = [arrived |-> s[r[1]].at, departed |-> s[r[2]].at, kind |-> "traffic"]
    BY CrawlsAre
  <2>2. r[1] \in 1..n /\ r[2] \in 1..n /\ r[1] < r[2]
    BY <1>5
  <2> QED
    BY <2>1, <2>2, <1>1 DEF Stop
<1>8. /\ origin \in Stop /\ origin.kind = "origin" /\ 1 \in 1..n
      /\ origin.arrived = s[1].at /\ origin.departed = s[1].at
  BY <1>1 DEF origin, StopOf, Stop
<1>9. ASSUME NEW x \in HaltStops(s) \union TrafficStops(s) PROVE Apart(origin, x) /\ Apart(x, origin)
  <2>1. PICK p \in 1..n : x.arrived = s[p].at
    BY <1>6, <1>7
  <2>2. s[1].at <= s[p].at
    BY <1>8, RowTimes
  <2> QED
    BY <2>1, <2>2, <1>8 DEF Apart
<1>10. ASSUME NEW x \in HaltStops(s), NEW y \in HaltStops(s), x # y PROVE Apart(x, y)
  <2>1. PICK r \in HaltRuns(s) :
           x = StopOf(s, r[1], r[2], IF Lasted(s, r) >= MinStop THEN "stop" ELSE "pause")
    BY DEF HaltStops, HaltRuns
  <2>2. PICK t \in HaltRuns(s) :
           y = StopOf(s, t[1], t[2], IF Lasted(s, t) >= MinStop THEN "stop" ELSE "pause")
    BY DEF HaltStops, HaltRuns
  <2>3. r # t
    BY <1>10, <2>1, <2>2
  <2>4. r[2] < t[1] \/ t[2] < r[1]
    BY <2>3, <1>2, <1>3, RunsApart
  <2>5. r[1] \in 1..n /\ r[2] \in 1..n /\ t[1] \in 1..n /\ t[2] \in 1..n
    BY <1>4
  <2>6. x.arrived = s[r[1]].at /\ x.departed = s[r[2]].at /\ y.arrived = s[t[1]].at /\ y.departed = s[t[2]].at
    BY <2>1, <2>2 DEF StopOf
  <2> QED
    BY <2>4, <2>5, <2>6, RunsInTime
<1>11. ASSUME NEW x \in TrafficStops(s), NEW y \in TrafficStops(s), x # y PROVE Apart(x, y)
  <2>1. PICK r \in CrawlRuns(s) : x = [arrived |-> s[r[1]].at, departed |-> s[r[2]].at, kind |-> "traffic"]
    BY CrawlsAre
  <2>2. PICK t \in CrawlRuns(s) : y = [arrived |-> s[t[1]].at, departed |-> s[t[2]].at, kind |-> "traffic"]
    BY CrawlsAre
  <2>3. r # t
    BY <1>11, <2>1, <2>2
  <2>4. r[2] < t[1] \/ t[2] < r[1]
    BY <2>3, <1>2, <1>3, RunsApart
  <2>5. r[1] \in 1..n /\ r[2] \in 1..n /\ t[1] \in 1..n /\ t[2] \in 1..n
    BY <1>5
  <2>6. x.arrived = s[r[1]].at /\ x.departed = s[r[2]].at /\ y.arrived = s[t[1]].at /\ y.departed = s[t[2]].at
    BY <2>1, <2>2
  <2> QED
    BY <2>4, <2>5, <2>6, RunsInTime
<1>12. ASSUME NEW x \in HaltStops(s), NEW y \in TrafficStops(s) PROVE Apart(x, y) /\ Apart(y, x)
  <2>1. PICK r \in HaltRuns(s), kind \in {"stop", "pause"} :
           x = [arrived |-> s[r[1]].at, departed |-> s[r[2]].at, kind |-> kind]
    BY HaltsAre
  <2>2. PICK t \in CrawlRuns(s) : y = [arrived |-> s[t[1]].at, departed |-> s[t[2]].at, kind |-> "traffic"]
    BY CrawlsAre
  <2>3. /\ r[1] \in 1..n /\ r[2] \in 1..n /\ t[1] \in 1..n /\ t[2] \in 1..n
        /\ r[1] <= r[2] /\ t[1] <= t[2] /\ r[1]..r[2] \subseteq H /\ t[1]..t[2] \subseteq C
    BY <1>4, <1>5
  <2>4. r[2] < t[1] \/ t[2] < r[1]
    BY <2>3, <1>2, Intervals
  <2>5. x.arrived = s[r[1]].at /\ x.departed = s[r[2]].at /\ y.arrived = s[t[1]].at /\ y.departed = s[t[2]].at
    BY <2>1, <2>2
  <2> QED
    BY <2>3, <2>4, <2>5, RunsInTime
<1> DEFINE All == {origin} \union HaltStops(s) \union TrafficStops(s)
<1> HIDE DEF origin
<1>13. ASSUME NEW x \in All
       PROVE  /\ x \in Stop /\ x.kind # "destination"
              /\ \E p \in 1..n, q \in 1..n : /\ p <= q /\ x.arrived = s[p].at /\ x.departed = s[q].at
                                             /\ x.kind \in {"stop", "pause"} => p < q
  <2>1. CASE x = origin
    <3>1. 1 \in 1..n /\ 1 <= 1 /\ "origin" \notin {"stop", "pause"}
      BY <1>8
    <3> QED
      BY <2>1, <3>1, <1>8
  <2>2. CASE x \in HaltStops(s)
    <3>1. PICK p \in 1..n, q \in 1..n : p < q /\ x.arrived = s[p].at /\ x.departed = s[q].at
      BY <2>2, <1>6
    <3>2. p <= q
      BY <3>1
    <3> QED
      BY <2>2, <3>1, <3>2, <1>6
  <2>3. CASE x \in TrafficStops(s)
    <3>1. PICK p \in 1..n, q \in 1..n : p < q /\ x.arrived = s[p].at /\ x.departed = s[q].at
      BY <2>3, <1>7
    <3>2. p <= q
      BY <3>1
    <3> QED
      BY <2>3, <3>1, <3>2, <1>7
  <2> QED
    BY <2>1, <2>2, <2>3
<1>14. \A x \in All, y \in All : x # y => Apart(x, y)
  BY <1>9, <1>10, <1>11, <1>12
<1>15. OnTheWay(s, All)
  BY <1>13, <1>14 DEF OnTheWay
<1> QED
  BY <1>15 DEF origin

\* The pass over the gaps: it only adds, and what it adds is apart from what was found.
LEMMA WithGapsIs ==
  ASSUME NEW s \in Seq(Row), NEW stops
  PROVE  \E f : /\ f = [i \in 1..Len(s) |-> IF i = 1 THEN stops ELSE TellGap(s, f[i - 1], i)]
                /\ WithGaps(s, stops) = f[Len(s)]
<1> DEFINE Rec(f, m) == f = [i \in 1..m |-> IF i = 1 THEN stops ELSE TellGap(s, f[i - 1], i)]
           S == {m \in Nat : \E f : Rec(f, m)}
<1>1. 0 \in S
  <2> DEFINE f == [i \in 1..0 |-> stops]
  <2>1. Rec(f, 0)
    OBVIOUS
  <2> QED
    BY <2>1
<1>2. ASSUME NEW m \in Nat, m \in S PROVE m + 1 \in S
  <2>1. PICK f : Rec(f, m)
    BY <1>2
  <2> DEFINE g == [i \in 1..m + 1 |-> IF i <= m THEN f[i] ELSE IF i = 1 THEN stops ELSE TellGap(s, f[m], i)]
  <2>2. Rec(g, m + 1)
    BY <2>1
  <2>3. \E h : Rec(h, m + 1)
    BY <2>2
  <2> QED
    BY <2>3
<1>3. Len(s) \in Nat
  OBVIOUS
<1>4. PICK f : Rec(f, Len(s))
  BY <1>1, <1>2, <1>3, NatSetInduction
<1> DEFINE found == CHOOSE f_1 : Rec(f_1, Len(s))
<1>5. Rec(found, Len(s))
  BY <1>4, Zenon
<1>6. WithGaps(s, stops) = found[Len(s)]
  BY Zenon DEF WithGaps
<1> QED
  BY <1>5, <1>6

\* A gap that is told overlaps nothing: the slack is more than nothing.
LEMMA GapTold ==
  ASSUME NEW s \in Seq(Row), InOrder(s), NEW stops, OnTheWay(s, stops), NEW i \in 2..Len(s)
  PROVE  OnTheWay(s, TellGap(s, stops, i)) /\ stops \subseteq TellGap(s, stops, i)
<1> DEFINE a == s[i - 1]
           b == s[i]
           gap == StopOf(s, i - 1, i, "stop")
<1>1. i - 1 \in 1..Len(s) /\ i \in 1..Len(s) /\ i - 1 < i /\ i - 1 <= i
  OBVIOUS
<1>2. a.at \in Nat /\ b.at \in Nat /\ a.at < b.at
  BY <1>1, RowTimes DEF InOrder
<1>3. CASE TellGap(s, stops, i) = stops
  BY <1>3
<1>4. CASE TellGap(s, stops, i) # stops
  <2>1. TellGap(s, stops, i) = stops \union {gap} /\ ~AlreadyTold(stops, a, b)
    BY <1>4, Zenon DEF TellGap
  <2>2. gap = [arrived |-> a.at, departed |-> b.at, kind |-> "stop"]
    BY DEF StopOf
  <2> HIDE DEF gap
  <2>3. gap \in Stop /\ gap.kind # "destination" /\ gap.arrived = s[i - 1].at /\ gap.departed = s[i].at
    BY <2>2, <1>2 DEF Stop
  <2>4. ASSUME NEW x \in stops PROVE Apart(x, gap) /\ Apart(gap, x)
    <3>1. x.arrived \in Nat /\ x.departed \in Nat
      BY DEF OnTheWay, Stop
    <3>2. ~(a.at < x.departed + Slack /\ b.at + Slack > x.arrived)
      BY <2>1 DEF AlreadyTold
    <3>3. x.departed <= a.at \/ b.at <= x.arrived
      BY <3>1, <3>2, <1>2, SegThresholds
    <3> QED
      BY <3>3, <2>3 DEF Apart
  <2>5. \A x \in stops \union {gap}, y \in stops \union {gap} : x # y => Apart(x, y)
    BY <2>4 DEF OnTheWay
  <2>6. ASSUME NEW x \in stops \union {gap}
        PROVE  /\ x \in Stop /\ x.kind # "destination"
               /\ \E p \in 1..Len(s), q \in 1..Len(s) :
                    /\ p <= q /\ x.arrived = s[p].at /\ x.departed = s[q].at
                    /\ x.kind \in {"stop", "pause"} => p < q
    <3>1. CASE x = gap
      BY <3>1, <1>1, <2>3
    <3>2. CASE x \in stops
      BY <3>2 DEF OnTheWay
    <3> QED
      BY <3>1, <3>2
  <2>7. OnTheWay(s, stops \union {gap})
    BY <2>5, <2>6 DEF OnTheWay
  <2> QED
    BY <2>1, <2>7
<1> QED
  BY <1>3, <1>4

\* A long gap is told, or was.
LEMMA LongGapTold ==
  ASSUME NEW s \in Seq(Row), InOrder(s), NEW stops, NEW i \in 2..Len(s), LongGap(s, i)
  PROVE  AlreadyTold(TellGap(s, stops, i), s[i - 1], s[i])
<1> DEFINE a == s[i - 1]
           b == s[i]
           gap == StopOf(s, i - 1, i, "stop")
<1>1. i - 1 \in 1..Len(s) /\ i \in 1..Len(s) /\ i - 1 < i
  OBVIOUS
<1>2. a.at \in Nat /\ b.at \in Nat /\ a.at < b.at
  BY <1>1, RowTimes DEF InOrder
<1>3. CASE AlreadyTold(stops, a, b)
  <2>1. TellGap(s, stops, i) = stops
    BY <1>3, Zenon DEF TellGap
  <2> QED
    BY <2>1, <1>3
<1>4. CASE ~AlreadyTold(stops, a, b)
  <2>1. ~(b.at - a.at < MinStop) /\ ~b.fix.moved
    BY <1>2, SegThresholds DEF LongGap
  <2>2. TellGap(s, stops, i) = stops \union {gap}
    BY <1>4, <2>1, Zenon DEF TellGap
  <2>3. gap.arrived = a.at /\ gap.departed = b.at
    BY DEF StopOf
  <2> HIDE DEF gap
  <2>4. a.at < gap.departed + Slack /\ b.at + Slack > gap.arrived
    BY <1>2, <2>3, SegThresholds
  <2> QED
    BY <2>2, <2>4 DEF AlreadyTold
<1> QED
  BY <1>3, <1>4

\* What was told stays told when stops are added.
LEMMA ToldStays ==
  ASSUME NEW stops, NEW more, stops \subseteq more, NEW a, NEW b, AlreadyTold(stops, a, b)
  PROVE  AlreadyTold(more, a, b)
  BY DEF AlreadyTold

NoGapLeft(s, stops) == \A i \in 2..Len(s) : LongGap(s, i) => AlreadyTold(stops, s[i - 1], s[i])

LEMMA GapsTold ==
  ASSUME NEW s \in Seq(Row), InOrder(s), Len(s) >= 1, NEW stops, OnTheWay(s, stops)
  PROVE  /\ OnTheWay(s, WithGaps(s, stops)) /\ stops \subseteq WithGaps(s, stops)
         /\ NoGapLeft(s, WithGaps(s, stops))
<1>0. Len(s) \in Nat /\ Len(s) - 1 \in Nat /\ (Len(s) - 1) + 1 = Len(s)
  OBVIOUS
<1>1. PICK f : /\ f = [i \in 1..Len(s) |-> IF i = 1 THEN stops ELSE TellGap(s, f[i - 1], i)]
               /\ WithGaps(s, stops) = f[Len(s)]
  BY WithGapsIs
<1> DEFINE ToldTo(m, found) == \A i \in 2..m : LongGap(s, i) => AlreadyTold(found, s[i - 1], s[i])
           S == {m \in Nat : m + 1 <= Len(s) =>
                   OnTheWay(s, f[m + 1]) /\ stops \subseteq f[m + 1] /\ ToldTo(m + 1, f[m + 1])}
<1>2. 0 \in S
  <2>1. f[1] = stops
    BY <1>1, <1>0
  <2>2. 0 + 1 = 1 /\ 2..1 = {}
    OBVIOUS
  <2>3. ToldTo(1, f[1])
    BY <2>2
  <2> HIDE DEF ToldTo
  <2> QED
    BY <2>1, <2>2, <2>3
<1>3. ASSUME NEW m \in Nat, m \in S PROVE m + 1 \in S
  <2> SUFFICES ASSUME m + 1 + 1 <= Len(s)
               PROVE  /\ OnTheWay(s, f[m + 1 + 1]) /\ stops \subseteq f[m + 1 + 1]
                      /\ ToldTo(m + 1 + 1, f[m + 1 + 1])
    OBVIOUS
  <2>1. m + 1 + 1 \in 2..Len(s) /\ m + 1 + 1 \in 1..Len(s) /\ m + 1 + 1 # 1 /\ (m + 1 + 1) - 1 = m + 1
    BY <1>0
  <2>2. f[m + 1 + 1] = TellGap(s, f[m + 1], m + 1 + 1)
    BY <2>1, <1>1
  <2>3. OnTheWay(s, f[m + 1]) /\ stops \subseteq f[m + 1] /\ ToldTo(m + 1, f[m + 1])
    BY <1>3, <2>1
  <2>4. OnTheWay(s, f[m + 1 + 1]) /\ f[m + 1] \subseteq f[m + 1 + 1]
    BY <2>1, <2>2, <2>3, GapTold
  <2>5. ASSUME NEW i \in 2..m + 1 + 1, LongGap(s, i) PROVE AlreadyTold(f[m + 1 + 1], s[i - 1], s[i])
    <3>1. CASE i \in 2..m + 1
      BY <2>3, <2>4, <2>5, <3>1, ToldStays
    <3>2. CASE i = m + 1 + 1
      BY <2>1, <2>2, <2>5, <3>2, LongGapTold
    <3> QED
      BY <3>1, <3>2
  <2> QED
    BY <2>3, <2>4, <2>5
<1> HIDE DEF S
<1>4. Len(s) - 1 \in S
  BY <1>0, <1>2, <1>3, NatSetInduction
<1>5. OnTheWay(s, f[Len(s)]) /\ stops \subseteq f[Len(s)] /\ ToldTo(Len(s), f[Len(s)])
  BY <1>0, <1>4 DEF S
<1> QED
  BY <1>1, <1>5 DEF NoGapLeft

LEMMA MidIs ==
  ASSUME NEW s \in Seq(Row), InOrder(s), Len(s) >= 2
  PROVE  OnTheWay(s, Mid(s)) /\ HaltStops(s) \subseteq Mid(s) /\ Mid(s) # {} /\ NoGapLeft(s, Mid(s))
<1> DEFINE All == {StopOf(s, 1, 1, "origin")} \union HaltStops(s) \union TrafficStops(s)
<1>1. OnTheWay(s, All)
  BY RunsOnTheWay
<1>2. Mid(s) = WithGaps(s, All)
  BY DEF Mid
<1>3. HaltStops(s) \subseteq All /\ All # {}
  OBVIOUS
<1> HIDE DEF All
<1> QED
  BY <1>1, <1>2, <1>3, GapsTold

\* The CHOOSE of the latest stop chooses one.
LEMMA TrailingIs ==
  ASSUME NEW s \in Seq(Row), InOrder(s), NEW stops, OnTheWay(s, stops), stops # {}
  PROVE  Trailing(stops) \in stops /\ \A y \in stops : y.arrived <= Trailing(stops).arrived
<1> DEFINE K == {p \in 1..Len(s) : \E x \in stops : x.arrived = s[p].at}
<1>1. K # {}
  BY DEF OnTheWay
<1>2. K \subseteq 0..Len(s) /\ Len(s) \in Nat
  OBVIOUS
<1>3. PICK p \in K : \A k \in K : k <= p
  BY <1>1, <1>2, GreatestNumber
<1>4. PICK x \in stops : x.arrived = s[p].at
  OBVIOUS
<1>5. ASSUME NEW y \in stops PROVE y.arrived <= x.arrived
  <2>1. PICK k \in 1..Len(s) : y.arrived = s[k].at
    BY DEF OnTheWay
  <2>2. k <= p
    BY <1>3, <2>1
  <2>3. s[k].at <= s[p].at
    BY <2>2, RowTimes
  <2> QED
    BY <2>1, <2>3, <1>4
<1> QED
  BY <1>4, <1>5, Zenon DEF Trailing

\* What findStops promises of a segment, when nothing after end is told of.
Covers(s, stops) ==
  \A i \in 2..Len(s) - 1, j \in 2..Len(s) - 1 :
    s[j].at - s[i].at >= MinPause /\ (\A k \in i..j : Halted(s[k]))
    => \E x \in stops : x.arrived <= s[i].at /\ s[j].at <= x.departed

\* What findStops promises of one segment.
StopsTold(s, stops) ==
  /\ \A x \in stops : /\ x \in Stop /\ x.arrived <= x.departed
                       /\ s[1].at <= x.arrived /\ x.departed <= LastOf(s).at
  /\ \A x \in stops, y \in stops : x # y => Apart(x, y)
  /\ \A x \in stops, y \in stops : x # y /\ x.kind = "destination" =>
       y.kind # "destination" /\ y.departed <= x.arrived
  /\ Covers(s, stops)
  /\ NoGapLeft(s, stops)

\* Every long enough halt between the bookends is in a run, so it is told.
LEMMA HaltsCover ==
  ASSUME NEW s \in Seq(Row), InOrder(s), Len(s) >= 2
  PROVE  Covers(s, HaltStops(s))
<1> SUFFICES ASSUME NEW i \in 2..Len(s) - 1, NEW j \in 2..Len(s) - 1,
                    s[j].at - s[i].at >= MinPause, \A k \in i..j : Halted(s[k])
             PROVE  \E x \in HaltStops(s) : x.arrived <= s[i].at /\ s[j].at <= x.departed
  BY DEF Covers
<1> DEFINE G == {k \in Between(s) : Halted(s[k])}
<1>1. Len(s) \in Nat /\ i \in 1..Len(s) /\ j \in 1..Len(s) /\ i \in Nat /\ j \in Nat
  OBVIOUS
<1>2. s[i].at \in Nat /\ s[j].at \in Nat /\ (j <= i => s[j].at <= s[i].at)
  BY <1>1, RowTimes
<1>3. i < j
  BY <1>1, <1>2, SegThresholds
<1>4. G \subseteq 1..Len(s) /\ i..j \subseteq G /\ G \subseteq Between(s)
  BY <1>3 DEF Between
<1>5. PICK r \in RunsOf(G) : r[1] <= i /\ j <= r[2]
  BY <1>1, <1>3, <1>4, LongestRun
<1>6. r[1] \in 1..Len(s) /\ r[2] \in 1..Len(s)
  BY <1>4, <1>5, RunRows
<1>7. /\ s[r[1]].at \in Nat /\ s[r[2]].at \in Nat
      /\ s[r[1]].at <= s[i].at /\ s[j].at <= s[r[2]].at
  BY <1>1, <1>5, <1>6, RowTimes
<1>8. Lasted(s, r) >= MinPause
  <2> DEFINE a == s[r[1]].at
             b == s[i].at
             c == s[j].at
             d == s[r[2]].at
  <2>1. a \in Nat /\ b \in Nat /\ c \in Nat /\ d \in Nat /\ a <= b /\ c <= d /\ c - b >= MinPause /\ MinPause \in Nat
    BY <1>2, <1>7, SegThresholds
  <2> HIDE DEF a, b, c, d
  <2>2. d - a >= MinPause
    BY <2>1
  <2> QED
    BY <2>2, Zenon DEF Lasted, a, d
<1> DEFINE x == StopOf(s, r[1], r[2], IF Lasted(s, r) >= MinStop THEN "stop" ELSE "pause")
<1>9. x \in HaltStops(s)
  BY <1>5, <1>8 DEF HaltStops
<1>10. x.arrived = s[r[1]].at /\ x.departed = s[r[2]].at
  BY DEF StopOf
<1> QED
  BY <1>7, <1>9, <1>10

\* The destination takes the place of a halt that runs to the end, and covers it.
LEMMA StopsFound ==
  ASSUME NEW s \in Seq(Row), InOrder(s), Len(s) >= 2
  PROVE  StopsTold(s, FindStops(s))
<1> DEFINE n == Len(s)
           M == Mid(s)
           t == Trailing(M)
           end == LastOf(s).at
           terminal == t.kind \in {"stop", "pause"} /\ end - t.departed < Slack
           others == IF terminal THEN M \ {t} ELSE M
           dest == [arrived |-> IF terminal THEN t.arrived ELSE end, departed |-> end, kind |-> "destination"]
<1>1. OnTheWay(s, M) /\ HaltStops(s) \subseteq M /\ M # {} /\ NoGapLeft(s, M)
  BY MidIs
<1>2. t \in M /\ \A y \in M : y.arrived <= t.arrived
  BY <1>1, TrailingIs
<1>3. n \in 1..n /\ 1 \in 1..n /\ end = s[n].at
  BY DEF LastOf
<1>4. end \in Nat /\ \A i \in 1..n : s[i].at \in Nat /\ s[1].at <= s[i].at /\ s[i].at <= end
  BY <1>3, RowTimes
<1>5. FindStops(s) = others \union {dest}
  BY Zenon DEF FindStops
<1> HIDE DEF M, t, end
<1>6. ASSUME NEW x \in M
      PROVE  /\ x \in Stop /\ x.kind # "destination" /\ x.arrived \in Nat /\ x.departed \in Nat
             /\ s[1].at <= x.arrived /\ x.arrived <= x.departed /\ x.departed <= end
             /\ x.kind \in {"stop", "pause"} => x.arrived < x.departed
  <2>1. PICK p \in 1..n, q \in 1..n :
           /\ p <= q /\ x.arrived = s[p].at /\ x.departed = s[q].at
           /\ x.kind \in {"stop", "pause"} => p < q
    BY <1>1 DEF OnTheWay
  <2>2. s[p].at <= s[q].at /\ (p < q => s[p].at < s[q].at)
    BY <2>1, RowTimes DEF InOrder
  <2> QED
    BY <2>1, <2>2, <1>1, <1>4 DEF OnTheWay
<1>7. others \subseteq M /\ (terminal => t \notin others) /\ (~terminal => others = M)
  OBVIOUS
<1>8. /\ dest.kind = "destination" /\ dest.departed = end
      /\ terminal => dest.arrived = t.arrived
      /\ ~terminal => dest.arrived = end
  OBVIOUS
<1>9. dest \in Stop
  <2>1. CASE terminal
    BY <2>1, <1>2, <1>4, <1>6 DEF Stop
  <2>2. CASE ~terminal
    BY <2>2, <1>4 DEF Stop
  <2> QED
    BY <2>1, <2>2
<1>10. terminal => t.kind \in {"stop", "pause"}
  OBVIOUS
<1> HIDE DEF terminal, others, dest
<1>11. s[1].at <= dest.arrived /\ dest.arrived <= dest.departed
  <2>1. CASE terminal
    BY <2>1, <1>2, <1>4, <1>6, <1>8
  <2>2. CASE ~terminal
    BY <2>2, <1>3, <1>4, <1>8
  <2> QED
    BY <2>1, <2>2
<1>12. ASSUME NEW y \in others PROVE y.departed <= dest.arrived
  <2>1. CASE terminal
    <3>1. y \in M /\ y # t
      BY <2>1, <1>7
    <3>2. Apart(y, t)
      BY <3>1, <1>1, <1>2 DEF OnTheWay
    <3>3. y.arrived <= t.arrived /\ t.arrived < t.departed /\ t.arrived \in Nat /\ t.departed \in Nat /\ y.arrived \in Nat
      BY <2>1, <3>1, <1>2, <1>6, <1>10
    <3>4. y.departed <= t.arrived
      BY <3>2, <3>3 DEF Apart
    <3> QED
      BY <3>4, <2>1, <1>8
  <2>2. CASE ~terminal
    BY <2>2, <1>6, <1>7, <1>8
  <2> QED
    BY <2>1, <2>2
<1>13. ASSUME NEW x \in others \union {dest}
       PROVE  x \in Stop /\ x.arrived <= x.departed /\ s[1].at <= x.arrived /\ x.departed <= end
  <2>1. CASE x = dest
    <3>1. end <= end
      BY <1>4
    <3> QED
      BY <2>1, <3>1, <1>8, <1>9, <1>11
  <2>2. CASE x \in others
    BY <2>2, <1>6, <1>7
  <2> QED
    BY <2>1, <2>2
<1>14. \A x \in others \union {dest}, y \in others \union {dest} : x # y => Apart(x, y)
  BY <1>1, <1>7, <1>12 DEF Apart, OnTheWay
<1>15. \A x \in others \union {dest}, y \in others \union {dest} :
         x # y /\ x.kind = "destination" => y.kind # "destination" /\ y.departed <= x.arrived
  BY <1>6, <1>7, <1>12
<1>16. Covers(s, others \union {dest})
  <2> SUFFICES ASSUME NEW i \in 2..n - 1, NEW j \in 2..n - 1,
                      s[j].at - s[i].at >= MinPause, \A k \in i..j : Halted(s[k])
               PROVE  \E x \in others \union {dest} : x.arrived <= s[i].at /\ s[j].at <= x.departed
    BY DEF Covers
  <2>1. PICK x \in HaltStops(s) : x.arrived <= s[i].at /\ s[j].at <= x.departed
    BY HaltsCover DEF Covers
  <2>2. x \in M
    BY <1>1
  <2>3. CASE x \in others
    BY <2>1, <2>3
  <2>4. CASE x \notin others
    <3>1. terminal /\ x = t
      BY <2>2, <2>4, <1>7 DEF others
    <3>2. s[j].at <= end
      BY <1>4
    <3> QED
      BY <3>1, <3>2, <2>1, <1>8
  <2> QED
    BY <2>3, <2>4
<1>17. NoGapLeft(s, others \union {dest})
  <2> SUFFICES ASSUME NEW i \in 2..n, LongGap(s, i)
               PROVE  AlreadyTold(others \union {dest}, s[i - 1], s[i])
    BY DEF NoGapLeft
  <2>0. s[i - 1].at \in Nat /\ s[i].at \in Nat /\ Slack \in Nat
    <3>1. i - 1 \in 1..n /\ i \in 1..n
      OBVIOUS
    <3> QED
      BY <3>1, <1>4, SegThresholds
  <2>1. PICK x \in M : s[i - 1].at < x.departed + Slack /\ s[i].at + Slack > x.arrived
    BY <1>1 DEF NoGapLeft, AlreadyTold
  <2>2. CASE x \in others
    BY <2>1, <2>2 DEF AlreadyTold
  <2>3. CASE x \notin others
    <3>1. terminal /\ x = t
      BY <2>3, <1>7 DEF others
    <3>2. x.departed <= dest.departed /\ x.arrived = dest.arrived /\ x.departed \in Nat /\ dest.departed \in Nat
      BY <3>1, <1>4, <1>6, <1>8
    <3>3. s[i - 1].at < dest.departed + Slack /\ s[i].at + Slack > dest.arrived
      BY <2>0, <2>1, <3>2
    <3> QED
      BY <3>3 DEF AlreadyTold
  <2> QED
    BY <2>2, <2>3
<1>18. StopsTold(s, others \union {dest})
  BY <1>13, <1>14, <1>15, <1>16, <1>17 DEF StopsTold, end
<1> QED
  BY <1>5, <1>18

-----------------------------------------------------------------------------
(* segmentTrips: the time parked                                           *)

\* The stops of a trip that was parked until some later time.
LEMMA ParkedStops ==
  ASSUME NEW s \in Seq(Row), InOrder(s), Len(s) >= 2, NEW now, NEW until \in Nat,
         LastOf(s).at <= until, NEW t, t = Parked(BuildTrip(s, now), until)
  PROVE  /\ t.start = s[1].at /\ t.end = LastOf(s).at
         /\ \A x \in t.stops : /\ x.arrived <= x.departed /\ s[1].at <= x.arrived /\ x.departed <= until
                                /\ x.arrived \in Nat /\ x.departed \in Nat
         /\ \A x \in t.stops, y \in t.stops : x # y => Apart(x, y)
         /\ Covers(s, t.stops) /\ NoGapLeft(s, t.stops)
<1> DEFINE F == FindStops(s)
           b == BuildTrip(s, now)
           Later(x) == IF x.kind = "destination" THEN [x EXCEPT !.departed = until] ELSE x
<1>1. StopsTold(s, F)
  BY StopsFound
<1>2. LastOf(s).at \in Nat
  <2>1. Len(s) \in 1..Len(s)
    OBVIOUS
  <2> QED
    BY <2>1, RowTimes DEF LastOf
<1>3. b.start = s[1].at /\ b.end = LastOf(s).at /\ b.stops = F
  BY DEF BuildTrip
<1>4. \A x \in F : /\ x \in Stop /\ x.arrived \in Nat /\ x.departed \in Nat /\ x.arrived <= x.departed
                   /\ s[1].at <= x.arrived /\ x.departed <= until
  <2> SUFFICES ASSUME NEW x \in F
               PROVE  /\ x \in Stop /\ x.arrived \in Nat /\ x.departed \in Nat /\ x.arrived <= x.departed
                      /\ s[1].at <= x.arrived /\ x.departed <= until
    OBVIOUS
  <2>1. x \in Stop /\ x.arrived <= x.departed /\ s[1].at <= x.arrived /\ x.departed <= LastOf(s).at
    BY <1>1 DEF StopsTold
  <2>2. x.arrived \in Nat /\ x.departed \in Nat
    BY <2>1 DEF Stop
  <2> QED
    BY <2>1, <2>2, <1>2
<1>5. CASE t = b
  BY <1>1, <1>3, <1>4, <1>5 DEF StopsTold
<1>6. CASE t # b
  <2>1. t = [b EXCEPT !.stops = {Later(x) : x \in @}]
    BY <1>6, Zenon DEF Parked
  <2>2. t.start = s[1].at /\ t.end = LastOf(s).at /\ t.stops = {Later(x) : x \in F}
    BY <2>1, <1>3 DEF BuildTrip
  <2>3. ASSUME NEW x \in F
        PROVE  /\ Later(x).arrived = x.arrived /\ x.departed <= Later(x).departed
               /\ Later(x).departed \in Nat /\ Later(x).departed <= until
               /\ x.kind # "destination" => Later(x) = x
    <3>1. CASE x.kind = "destination"
      <4>1. Later(x) = [x EXCEPT !.departed = until]
        BY <3>1
      <4>2. Later(x).arrived = x.arrived /\ Later(x).departed = until
        BY <4>1, <1>4 DEF Stop
      <4>3. until <= until
        OBVIOUS
      <4> QED
        BY <4>2, <4>3, <3>1, <1>4
    <3>2. CASE x.kind # "destination"
      <4>1. Later(x) = x /\ x.departed <= x.departed
        BY <3>2, <1>4
      <4> QED
        BY <4>1, <1>4
    <3> QED
      BY <3>1, <3>2
  <2> HIDE DEF F, Later
  <2>4. ASSUME NEW y \in t.stops
        PROVE  /\ y.arrived <= y.departed /\ s[1].at <= y.arrived /\ y.departed <= until
               /\ y.arrived \in Nat /\ y.departed \in Nat
    <3>1. PICK x \in F : y = Later(x)
      BY <2>2
    <3>2. y.arrived = x.arrived /\ x.departed <= y.departed /\ y.departed \in Nat /\ y.departed <= until
      BY <2>3, <3>1
    <3>3. y.arrived <= y.departed
      BY <3>2, <1>4
    <3> QED
      BY <3>2, <3>3, <1>4
  <2>5. ASSUME NEW x \in F, NEW y \in F, x # y PROVE Apart(Later(x), Later(y))
    <3>1. Apart(x, y)
      BY <1>1, <2>5 DEF StopsTold
    <3>2. CASE x.kind = "destination"
      <4>1. y.kind # "destination" /\ y.departed <= x.arrived
        BY <1>1, <2>5, <3>2 DEF StopsTold
      <4> QED
        BY <4>1, <2>3 DEF Apart
    <3>3. CASE y.kind = "destination"
      <4>1. x.kind # "destination" /\ x.departed <= y.arrived
        BY <1>1, <2>5, <3>3 DEF StopsTold
      <4> QED
        BY <4>1, <2>3 DEF Apart
    <3>4. CASE x.kind # "destination" /\ y.kind # "destination"
      BY <3>1, <3>4, <2>3
    <3> QED
      BY <3>2, <3>3, <3>4
  <2>6. \A x \in t.stops, y \in t.stops : x # y => Apart(x, y)
    BY <2>2, <2>5
  <2>7. Covers(s, t.stops)
    <3> SUFFICES ASSUME NEW i \in 2..Len(s) - 1, NEW j \in 2..Len(s) - 1,
                        s[j].at - s[i].at >= MinPause, \A k \in i..j : Halted(s[k])
                 PROVE  \E x \in t.stops : x.arrived <= s[i].at /\ s[j].at <= x.departed
      BY DEF Covers
    <3>1. PICK x \in F : x.arrived <= s[i].at /\ s[j].at <= x.departed
      BY <1>1 DEF StopsTold, Covers
    <3>2. Later(x) \in t.stops
      BY <2>2
    <3>3. s[j].at \in Nat
      <4>1. j \in 1..Len(s)
        OBVIOUS
      <4> QED
        BY <4>1, RowTimes
    <3>4. s[j].at <= Later(x).departed
      BY <3>1, <3>3, <2>3, <1>4
    <3> QED
      BY <3>1, <3>2, <3>4, <2>3
  <2>8. NoGapLeft(s, t.stops)
    <3> SUFFICES ASSUME NEW i \in 2..Len(s), LongGap(s, i) PROVE AlreadyTold(t.stops, s[i - 1], s[i])
      BY DEF NoGapLeft
    <3>1. PICK x \in F : s[i - 1].at < x.departed + Slack /\ s[i].at + Slack > x.arrived
      BY <1>1 DEF StopsTold, NoGapLeft, AlreadyTold
    <3>2. Later(x) \in t.stops
      BY <2>2
    <3>3. s[i - 1].at \in Nat /\ Slack \in Nat
      <4>1. i - 1 \in 1..Len(s)
        OBVIOUS
      <4> QED
        BY <4>1, RowTimes, SegThresholds
    <3>4. s[i - 1].at < Later(x).departed + Slack /\ s[i].at + Slack > Later(x).arrived
      BY <3>1, <3>3, <2>3, <1>4
    <3> QED
      BY <3>2, <3>4 DEF AlreadyTold
  <2> QED
    BY <2>2, <2>4, <2>6, <2>7, <2>8
<1> QED
  BY <1>5, <1>6

\* A piece of rows in order is in order.
LEMMA PieceInOrder ==
  ASSUME NEW s \in Seq(Row), InOrder(s), NEW o \in 1..Len(s), NEW e \in o..Len(s)
  PROVE  InOrder(SubSeq(s, o, e))
<1> DEFINE p == SubSeq(s, o, e)
<1>1. Len(p) = e - o + 1 /\ \A k \in 1..e - o + 1 : p[k] = s[o + k - 1]
  BY Pieces
<1> HIDE DEF p
<1>2. ASSUME NEW i \in 1..e - o + 1, NEW j \in 1..e - o + 1, i < j PROVE p[i].at < p[j].at
  <2>1. o + i - 1 \in 1..Len(s) /\ o + j - 1 \in 1..Len(s) /\ o + i - 1 < o + j - 1
    BY <1>2
  <2>2. s[o + i - 1].at < s[o + j - 1].at
    BY <2>1 DEF InOrder
  <2> QED
    BY <1>1, <2>2
<1>3. InOrder(p)
  BY <1>1, <1>2 DEF InOrder
<1> QED
  BY <1>3 DEF p

\* The trips of s by the segments: each is one of them, and parked until the next or now.
LEMMA TripsAre ==
  ASSUME NEW s \in Seq(Row), InOrder(s), s # <<>>, NEW now \in Nat, LastOf(s).at <= now
  PROVE  /\ DOMAIN TripsOf(s, now) = 1..Len(Segments(s)) /\ Len(Segments(s)) \in Nat
         /\ \A i \in 1..Len(Segments(s)) :
              /\ Segments(s)[i] \in Seq(Row) /\ InOrder(Segments(s)[i]) /\ Len(Segments(s)[i]) >= 2
              /\ \E until \in Nat :
                   /\ LastOf(Segments(s)[i]).at <= until
                   /\ TripsOf(s, now)[i] = Parked(BuildTrip(Segments(s)[i], now), until)
                   /\ \A j \in 1..Len(Segments(s)) : i < j => until <= Segments(s)[j][1].at
<1> DEFINE D == Segments(s)
           n == Len(D)
           built == [i \in DOMAIN D |-> BuildTrip(D[i], now)]
<1>1. D \in Seq(Seq(Row)) /\ DOMAIN D = 1..n /\ n \in Nat
  BY SegmentsAre
<1>2. \A i \in 1..n : /\ IsTrip(D[i])
                      /\ \E o \in 1..Len(s), e \in 1..Len(s) : o <= e /\ D[i] = SubSeq(s, o, e)
  BY SegmentsAre
<1>3. \A i \in 1..n, j \in 1..n : i < j => LastOf(D[i]).at < D[j][1].at
  BY SegmentsAre
<1> HIDE DEF D
<1>4. Len(built) = n /\ DOMAIN built = 1..n
  BY <1>1
<1>5. TripsOf(s, now) = [i \in DOMAIN built |->
                           Parked(built[i], IF i < Len(built) THEN built[i + 1].start ELSE now)]
  BY Zenon DEF TripsOf, D
<1>6. \A i \in 1..n : built[i] = BuildTrip(D[i], now) /\ built[i].start = D[i][1].at
  BY <1>1 DEF BuildTrip
<1> HIDE DEF built
<1>7. ASSUME NEW i \in 1..n
      PROVE  /\ D[i] \in Seq(Row) /\ InOrder(D[i]) /\ Len(D[i]) >= 2
             /\ LastOf(D[i]).at \in Nat /\ D[i][1].at \in Nat /\ D[i][1].at <= LastOf(D[i]).at
             /\ LastOf(D[i]).at <= now
  <2>1. PICK o \in 1..Len(s), e \in 1..Len(s) : o <= e /\ D[i] = SubSeq(s, o, e)
    BY <1>2
  <2>2. e \in o..Len(s) /\ Len(s) \in 1..Len(s)
    BY <2>1
  <2>3. D[i] \in Seq(Row) /\ InOrder(D[i]) /\ LastOf(D[i]) = s[e] /\ D[i][1] = s[o]
    <3>1. D[i] \in Seq(Row) /\ Len(D[i]) = e - o + 1 /\ \A k \in 1..e - o + 1 : D[i][k] = s[o + k - 1]
      BY <2>1, <2>2, Pieces
    <3>2. InOrder(D[i])
      BY <2>1, <2>2, PieceInOrder
    <3>3. 1 \in 1..e - o + 1 /\ e - o + 1 \in 1..e - o + 1 /\ o + 1 - 1 = o /\ o + (e - o + 1) - 1 = e
      BY <2>2
    <3>4. D[i][1] = s[o] /\ D[i][e - o + 1] = s[e]
      BY <3>1, <3>3
    <3> QED
      BY <3>1, <3>2, <3>4 DEF LastOf
  <2>4. Len(D[i]) >= 2
    BY <1>2 DEF IsTrip
  <2>5. s[o].at <= s[e].at /\ s[e].at <= s[Len(s)].at /\ s[o].at \in Nat /\ s[e].at \in Nat /\ s[Len(s)].at \in Nat
    BY <2>1, <2>2, RowTimes
  <2>6. s[e].at <= now
    BY <2>5 DEF LastOf
  <2> QED
    BY <2>3, <2>4, <2>5, <2>6
<1>8. ASSUME NEW i \in 1..n
      PROVE  \E until \in Nat :
               /\ LastOf(D[i]).at <= until
               /\ TripsOf(s, now)[i] = Parked(BuildTrip(D[i], now), until)
               /\ \A j \in 1..n : i < j => until <= D[j][1].at
  <2>1. CASE i < n
    <3>1. i + 1 \in 1..n /\ i < i + 1
      BY <2>1
    <3>2. TripsOf(s, now)[i] = Parked(BuildTrip(D[i], now), D[i + 1][1].at)
      BY <2>1, <3>1, <1>4, <1>5, <1>6
    <3>3. D[i + 1][1].at \in Nat /\ LastOf(D[i]).at < D[i + 1][1].at /\ LastOf(D[i]).at \in Nat
      BY <3>1, <1>3, <1>7
    <3>4. ASSUME NEW j \in 1..n, i < j PROVE D[i + 1][1].at <= D[j][1].at
      <4>1. CASE j = i + 1
        BY <4>1, <3>3
      <4>2. CASE i + 1 < j
        <5>1. LastOf(D[i + 1]).at < D[j][1].at /\ D[i + 1][1].at <= LastOf(D[i + 1]).at
          BY <4>2, <3>1, <1>3, <1>7
        <5>2. LastOf(D[i + 1]).at \in Nat /\ D[j][1].at \in Nat
          BY <3>1, <1>7
        <5> QED
          BY <5>1, <5>2, <3>3
      <4> QED
        BY <3>4, <4>1, <4>2
    <3>5. LastOf(D[i]).at <= D[i + 1][1].at
      BY <3>3
    <3> QED
      BY <3>2, <3>3, <3>4, <3>5
  <2>2. CASE ~(i < n)
    <3>1. TripsOf(s, now)[i] = Parked(BuildTrip(D[i], now), now)
      BY <2>2, <1>4, <1>5, <1>6
    <3>2. \A j \in 1..n : ~(i < j)
      BY <2>2, <1>1
    <3> QED
      BY <3>1, <3>2, <1>7
  <2> QED
    BY <2>1, <2>2
<1>9. DOMAIN TripsOf(s, now) = 1..n
  BY <1>4, <1>5
<1> QED
  BY <1>1, <1>7, <1>8, <1>9 DEF D

\* Stops within a trip are apart, and those of an earlier trip end before a later one starts.
LEMMA TripsInLine ==
  ASSUME NEW s \in Seq(Row), InOrder(s), s # <<>>, NEW now \in Nat, LastOf(s).at <= now
  PROVE  OneLine(TripsOf(s, now))
<1> DEFINE D == Segments(s)
           T == TripsOf(s, now)
           n == Len(D)
<1>1. DOMAIN T = 1..n /\ n \in Nat
  BY TripsAre
<1>2. \A i \in 1..n : /\ D[i] \in Seq(Row) /\ InOrder(D[i]) /\ Len(D[i]) >= 2
                      /\ \E until \in Nat :
                           /\ LastOf(D[i]).at <= until /\ T[i] = Parked(BuildTrip(D[i], now), until)
                           /\ \A j \in 1..n : i < j => until <= D[j][1].at
  BY TripsAre
<1> HIDE DEF D, T
<1>3. ASSUME NEW i \in 1..n
      PROVE  /\ \A x \in T[i].stops : x.arrived <= x.departed /\ D[i][1].at <= x.arrived /\ x.arrived \in Nat /\ x.departed \in Nat
             /\ \A x \in T[i].stops, y \in T[i].stops : x # y => Apart(x, y)
             /\ \A x \in T[i].stops, j \in 1..n : i < j => x.departed <= D[j][1].at
  <2>1. PICK until \in Nat :
           /\ LastOf(D[i]).at <= until /\ T[i] = Parked(BuildTrip(D[i], now), until)
           /\ \A j \in 1..n : i < j => until <= D[j][1].at
    BY <1>2
  <2>2. /\ \A x \in T[i].stops : x.arrived <= x.departed /\ D[i][1].at <= x.arrived /\ x.departed <= until
                                 /\ x.arrived \in Nat /\ x.departed \in Nat
        /\ \A x \in T[i].stops, y \in T[i].stops : x # y => Apart(x, y)
    BY <1>2, <2>1, ParkedStops
  <2>3. \A j \in 1..n : D[j][1].at \in Nat
    <3> TAKE j \in 1..n
    <3>1. D[j] \in Seq(Row) /\ InOrder(D[j]) /\ 1 \in 1..Len(D[j])
      BY <1>2
    <3> QED
      BY <3>1, RowTimes
  <2>4. ASSUME NEW x \in T[i].stops, NEW j \in 1..n, i < j PROVE x.departed <= D[j][1].at
    <3>1. x.departed <= until /\ until <= D[j][1].at /\ x.departed \in Nat /\ D[j][1].at \in Nat
      BY <2>1, <2>2, <2>3, <2>4
    <3> QED
      BY <3>1
  <2> QED
    BY <2>2, <2>4
<1>4. ASSUME NEW i \in 1..n, NEW j \in 1..n, NEW x \in T[i].stops, NEW y \in T[j].stops
      PROVE  /\ x.arrived <= x.departed
             /\ i < j => x.departed <= y.arrived
             /\ i = j /\ x # y => x.departed <= y.arrived \/ y.departed <= x.arrived
  <2>1. x.arrived <= x.departed
    BY <1>3
  <2>2. i < j => x.departed <= y.arrived
    <3> SUFFICES ASSUME i < j PROVE x.departed <= y.arrived
      OBVIOUS
    <3>1. x.departed <= D[j][1].at /\ D[j][1].at <= y.arrived /\ x.departed \in Nat /\ y.arrived \in Nat
      BY <1>3
    <3>2. D[j] \in Seq(Row) /\ InOrder(D[j]) /\ 1 \in 1..Len(D[j])
      BY <1>2
    <3>3. D[j][1].at \in Nat
      BY <3>2, RowTimes
    <3> QED
      BY <3>1, <3>3
  <2>3. i = j /\ x # y => Apart(x, y)
    BY <1>3
  <2> QED
    BY <2>1, <2>2, <2>3 DEF Apart
<1>5. OneLine(T)
  BY <1>1, <1>4, Zenon DEF OneLine
<1> QED
  BY <1>5 DEF T

\* No halt is lost on the way from the runs of a segment to the trips.
LEMMA HaltsKept ==
  ASSUME NEW s \in Seq(Row), InOrder(s), s # <<>>, NEW now \in Nat, LastOf(s).at <= now
  PROVE  EveryHalt(s, TripsOf(s, now))
<1> DEFINE D == Segments(s)
           T == TripsOf(s, now)
<1>1. DOMAIN T = 1..Len(D) /\ Len(D) \in Nat
  BY TripsAre
<1>2. \A n \in 1..Len(D) : /\ D[n] \in Seq(Row) /\ InOrder(D[n]) /\ Len(D[n]) >= 2
                           /\ \E until \in Nat :
                                LastOf(D[n]).at <= until /\ T[n] = Parked(BuildTrip(D[n], now), until)
  BY TripsAre
<1>3. \A n \in 1..Len(D) : \E o \in 1..Len(s), e \in 1..Len(s) : o <= e /\ D[n] = SubSeq(s, o, e)
  BY SegmentsAre
<1> HIDE DEF D, T
<1>4. ASSUME NEW n \in 1..Len(D), NEW i \in 1..Len(s), NEW j \in 1..Len(s),
             T[n].start < s[i].at, s[j].at < T[n].end, s[j].at - s[i].at >= MinPause,
             \A k \in i..j : Halted(s[k])
      PROVE  \E x \in T[n].stops : x.arrived <= s[i].at /\ s[j].at <= x.departed
  <2>1. PICK o \in 1..Len(s), e \in 1..Len(s) : o <= e /\ D[n] = SubSeq(s, o, e)
    BY <1>3
  <2>2. e \in o..Len(s)
    BY <2>1
  <2>3. Len(D[n]) = e - o + 1 /\ \A k \in 1..e - o + 1 : D[n][k] = s[o + k - 1]
    BY <2>1, <2>2, Pieces
  <2>4. LastOf(D[n]) = s[e] /\ D[n][1] = s[o]
    <3>1. 1 \in 1..e - o + 1 /\ e - o + 1 \in 1..e - o + 1 /\ o + 1 - 1 = o /\ o + (e - o + 1) - 1 = e
      BY <2>2
    <3>2. D[n][1] = s[o] /\ D[n][e - o + 1] = s[e]
      BY <2>3, <3>1
    <3> QED
      BY <2>3, <3>2 DEF LastOf
  <2>5. T[n].start = s[o].at /\ T[n].end = s[e].at /\ Covers(D[n], T[n].stops)
    BY <1>2, <2>4, ParkedStops
  <2>6. o < i /\ j < e
    <3>1. s[o].at \in Nat /\ s[e].at \in Nat /\ s[i].at \in Nat /\ s[j].at \in Nat
          /\ (i <= o => s[i].at <= s[o].at) /\ (e <= j => s[e].at <= s[j].at)
      BY RowTimes
    <3> DEFINE p == s[o].at
               q == s[e].at
               x == s[i].at
               y == s[j].at
    <3>2. p < x /\ y < q
      BY <2>5, <1>4
    <3>3. /\ p \in Nat /\ q \in Nat /\ x \in Nat /\ y \in Nat
          /\ (i <= o => x <= p) /\ (e <= j => q <= y)
      BY <3>1
    <3> HIDE DEF p, q, x, y
    <3>4. ~(i <= o) /\ ~(e <= j)
      BY <3>2, <3>3
    <3> QED
      BY <3>4
  <2>7. i < j
    <3>1. s[i].at \in Nat /\ s[j].at \in Nat /\ (j <= i => s[j].at <= s[i].at)
      BY RowTimes
    <3>2. MinPause \in Nat /\ MinPause > 0
      BY SegmentationConstants
    <3> DEFINE p == s[i].at
               q == s[j].at
    <3>3. q - p >= MinPause /\ p \in Nat /\ q \in Nat /\ (j <= i => q <= p)
      BY <3>1, <1>4
    <3> HIDE DEF p, q
    <3>4. ~(q <= p)
      BY <3>2, <3>3
    <3> QED
      BY <3>3, <3>4
  <2> DEFINE a == i - o + 1
             b == j - o + 1
             m == e - o + 1
  <2>8. a \in 2..m - 1 /\ b \in 2..m - 1 /\ o + a - 1 = i /\ o + b - 1 = j
    BY <2>6, <2>7
  <2>9. D[n][a] = s[i] /\ D[n][b] = s[j] /\ Len(D[n]) = m
    BY <2>3, <2>8
  <2>10. ASSUME NEW k \in a..b PROVE Halted(D[n][k])
    <3>1. k \in 1..m /\ o + k - 1 \in i..j
      BY <2>8
    <3> QED
      BY <3>1, <2>3, <1>4
  <2> HIDE DEF a, b, m
  <2> QED
    BY <2>5, <2>8, <2>9, <2>10, <1>4 DEF Covers
<1>5. DOMAIN s = 1..Len(s)
  OBVIOUS
<1>6. EveryHalt(s, T)
  BY <1>1, <1>4, <1>5 DEF EveryHalt
<1> QED
  BY <1>6 DEF T

\* Nor does a long gap: if it lies in the trip, it lies in the segment.
LEMMA GapsKept ==
  ASSUME NEW s \in Seq(Row), InOrder(s), s # <<>>, NEW now \in Nat, LastOf(s).at <= now
  PROVE  EveryGap(s, TripsOf(s, now))
<1> DEFINE D == Segments(s)
           T == TripsOf(s, now)
<1>1. DOMAIN T = 1..Len(D) /\ Len(D) \in Nat
  BY TripsAre
<1>2. \A n \in 1..Len(D) : /\ D[n] \in Seq(Row) /\ InOrder(D[n]) /\ Len(D[n]) >= 2
                           /\ \E until \in Nat :
                                LastOf(D[n]).at <= until /\ T[n] = Parked(BuildTrip(D[n], now), until)
  BY TripsAre
<1>3. \A n \in 1..Len(D) : \E o \in 1..Len(s), e \in 1..Len(s) : o <= e /\ D[n] = SubSeq(s, o, e)
  BY SegmentsAre
<1> HIDE DEF D, T
<1>4. ASSUME NEW n \in 1..Len(D), NEW i \in 2..Len(s),
             T[n].start <= s[i - 1].at, s[i].at <= T[n].end, LongGap(s, i)
      PROVE  AlreadyTold(T[n].stops, s[i - 1], s[i])
  <2>1. PICK o \in 1..Len(s), e \in 1..Len(s) : o <= e /\ D[n] = SubSeq(s, o, e)
    BY <1>3
  <2>2. e \in o..Len(s) /\ i - 1 \in 1..Len(s) /\ i \in 1..Len(s)
    BY <2>1
  <2>3. Len(D[n]) = e - o + 1 /\ \A k \in 1..e - o + 1 : D[n][k] = s[o + k - 1]
    BY <2>1, <2>2, Pieces
  <2>4. LastOf(D[n]) = s[e] /\ D[n][1] = s[o]
    BY <2>1, <2>2, <2>3 DEF LastOf
  <2>5. T[n].start = s[o].at /\ T[n].end = s[e].at /\ NoGapLeft(D[n], T[n].stops)
    BY <1>2, <2>4, ParkedStops
  <2>6. o <= i - 1 /\ i <= e
    <3>1. s[o].at \in Nat /\ s[e].at \in Nat /\ s[i - 1].at \in Nat /\ s[i].at \in Nat
      BY <2>2, RowTimes
    <3>2. (i - 1 < o => s[i - 1].at < s[o].at) /\ (e < i => s[e].at < s[i].at)
      BY <2>2 DEF InOrder
    <3> QED
      BY <3>1, <3>2, <2>5, <1>4
  <2> DEFINE b == i - o + 1
             m == e - o + 1
  <2>7. b \in 2..m /\ b - 1 \in 1..m /\ b \in 1..m /\ o + b - 1 = i /\ o + (b - 1) - 1 = i - 1
    BY <2>6
  <2>8. D[n][b - 1] = s[i - 1] /\ D[n][b] = s[i] /\ Len(D[n]) = m
    BY <2>3, <2>7
  <2> HIDE DEF b, m
  <2>9. LongGap(D[n], b)
    BY <2>8, <1>4 DEF LongGap
  <2> QED
    BY <2>5, <2>7, <2>8, <2>9 DEF NoGapLeft
<1>5. EveryGap(s, T)
  BY <1>1, <1>4 DEF EveryGap
<1> QED
  BY <1>5 DEF T

LEMMA InvGivesHalts == SegInv => HaltsToldOnce
<1> SUFFICES ASSUME SegInv, rows # <<>>, NEW lag \in {0, TripBreak}
             PROVE  LET trips == TripsOf(rows, LastOf(rows).at + lag) IN
                      OneLine(trips) /\ EveryHalt(rows, trips) /\ EveryGap(rows, trips)
  BY DEF HaltsToldOnce
<1> DEFINE now == LastOf(rows).at + lag
<1>1. rows \in Seq(Row) /\ InOrder(rows)
  BY DEF SegInv, SegTypeOK, Row
<1>2. LastOf(rows).at \in Nat
  <2>1. Len(rows) \in 1..Len(rows)
    BY <1>1
  <2> QED
    BY <1>1, <2>1, RowTimes DEF LastOf
<1>3. now \in Nat /\ LastOf(rows).at <= now
  BY <1>2, SegThresholds
<1> HIDE DEF now
<1>4. OneLine(TripsOf(rows, now)) /\ EveryHalt(rows, TripsOf(rows, now)) /\ EveryGap(rows, TripsOf(rows, now))
  BY <1>1, <1>3, TripsInLine, HaltsKept, GapsKept
<1> QED
  BY <1>4 DEF now

LEMMA SegInvInit == SegInit => SegInv
<1> SUFFICES ASSUME SegInit PROVE SegInv
  OBVIOUS
<1>1. rows = <<>> /\ rows \in Seq([at : Nat, fix : Fixes]) /\ 1..Len(rows) = {}
  BY DEF SegInit
<1> QED
  BY <1>1 DEF SegInv, SegTypeOK, InOrder

LEMMA SegInvStep == SegInv /\ [SegNext]_rows => SegInv'
<1> SUFFICES ASSUME SegInv, [SegNext]_rows PROVE SegInv'
  OBVIOUS
<1>1. CASE UNCHANGED rows
  BY <1>1 DEF SegInv, SegTypeOK, InOrder
<1>2. ASSUME NEW dt \in Spacings, NEW f \in Fixes, RowCame(dt, f) PROVE SegInv'
  <2> DEFINE n == Len(rows)
             r == [at |-> IF rows = <<>> THEN 1 ELSE rows[Len(rows)].at + dt, fix |-> f]
  <2>1. rows \in Seq(Row) /\ InOrder(rows) /\ n \in Nat /\ dt \in Nat \ {0}
    BY SegThresholds DEF SegInv, SegTypeOK, Row
  <2>2. rows # <<>> => n \in 1..n /\ rows[n].at \in Nat
    BY <2>1, RowTimes
  <2>3. r \in Row
    BY <2>1, <2>2 DEF Row
  <2>4. \A i \in 1..n : rows[i].at < r.at
    <3> TAKE i \in 1..n
    <3>1. rows # <<>> /\ rows[i].at <= rows[n].at /\ rows[i].at \in Nat
      BY <2>1, RowTimes
    <3> QED
      BY <2>1, <2>2, <3>1
  <2>5. rows' = Append(rows, r)
    BY <1>2, Zenon DEF RowCame
  <2> HIDE DEF r
  <2>6. /\ rows' \in Seq(Row) /\ Len(rows') = n + 1 /\ rows'[n + 1] = r
        /\ \A i \in 1..n : rows'[i] = rows[i]
    BY <2>1, <2>3, <2>5
  <2>7. ASSUME NEW i \in 1..n + 1, NEW j \in 1..n + 1, i < j PROVE rows'[i].at < rows'[j].at
    <3>1. i \in 1..n
      BY <2>7, <2>1
    <3>2. CASE j = n + 1
      BY <3>1, <3>2, <2>4, <2>6
    <3>3. CASE j \in 1..n
      BY <3>1, <3>3, <2>1, <2>6, <2>7 DEF InOrder
    <3> QED
      BY <3>2, <3>3, <2>1
  <2> QED
    BY <2>6, <2>7 DEF SegInv, SegTypeOK, InOrder, Row
<1> QED
  BY <1>1, <1>2 DEF SegNext

\* For any rows and thresholds, the trips are what was driven and their stops one line of time.
THEOREM TripsAsDrivenAlways == SegSpec => []TripsAsDriven
<1>1. SegInv => TripsAsDriven
  BY InvGivesTrips, InvGivesHalts DEF TripsAsDriven
<1> QED
  BY <1>1, SegInvInit, SegInvStep, PTL DEF SegSpec

=============================================================================
