-------------------------- MODULE TimeTravelProofs --------------------------
(***************************************************************************)
(* Theorems about TimeTravel, for every bound, retention window and        *)
(* capacity: types, that the snapshots alone answer AS OF with the rows    *)
(* that were on disk, and that the change log in memory is the end of its  *)
(* file.                                                                   *)
(***************************************************************************)
EXTENDS TimeTravel, SequenceTheorems, WellFoundedInduction, TLAPS

-----------------------------------------------------------------------------
(* Least and greatest elements.                                             *)
LEMMA LeastExists ==
    ASSUME NEW S \in SUBSET Nat, S # {}
    PROVE  \E x \in S : \A y \in S : x <= y
  <1>1. PICK x \in S : \A y \in S : <<y, x>> \notin OpToRel(<, Nat)
    BY NatLessThanWellFounded, WFMin
  <1>2. ASSUME NEW y \in S PROVE x <= y
    <2>1. x \in Nat /\ y \in Nat
      OBVIOUS
    <2>2. y < x => <<y, x>> \in OpToRel(<, Nat)
      BY <2>1 DEF OpToRel
    <2>3. ~(y < x)
      BY <1>1, <2>2, Zenon
    <2> QED
      BY <2>1, <2>3
  <1> QED
    BY <1>2

LEMMA MinProperties ==
    ASSUME NEW S \in SUBSET Nat, S # {}
    PROVE  Min(S) \in S /\ \A y \in S : Min(S) <= y
  BY LeastExists DEF Min

LEMMA GreatestExists ==
    ASSUME NEW n \in Nat, NEW S \in SUBSET (1..n), S # {}
    PROVE  \E x \in S : \A y \in S : y <= x
  <1> DEFINE D == {n - i : i \in S}
  <1>1. D \in SUBSET Nat /\ D # {}
    <2>1. \A i \in S : n - i \in Nat
      OBVIOUS
    <2> QED
      BY <2>1
  <1>2. PICK m \in D : \A k \in D : m <= k
    <2> HIDE DEF D
    <2> QED
      BY <1>1, LeastExists
  <1>3. PICK x \in S : m = n - x
    OBVIOUS
  <1>4. ASSUME NEW y \in S PROVE y <= x
    <2>1. m <= n - y
      BY <1>2
    <2> QED
      BY <1>3, <2>1
  <1> QED
    BY <1>4

LEMMA MaxIs ==
    ASSUME NEW S \in SUBSET Int, NEW x \in S, \A y \in S : y <= x
    PROVE  Max(S) = x
  <1>1. \A z \in S : (\A y \in S : z >= y) => z = x
    OBVIOUS
  <1>2. \A y \in S : x >= y
    OBVIOUS
  <1> QED
    BY <1>1, <1>2 DEF Max

LEMMA MinOfTwo ==
    ASSUME NEW a \in Nat, NEW b \in Nat
    PROVE  Min({a, b}) = IF a <= b THEN a ELSE b
  BY DEF Min

LEMMA IsMinOfTwo ==
    ASSUME NEW a \in Nat, NEW b \in Nat, NEW x \in Nat
    PROVE  x = Min({a, b}) <=> x \in {a, b} /\ x <= a /\ x <= b
  BY MinOfTwo

LEMMA MaxOfTwo ==
    ASSUME NEW a \in Int, NEW b \in Int
    PROVE  Max({a, b}) = IF a <= b THEN b ELSE a
  BY DEF Max

-----------------------------------------------------------------------------
(* The snapshots are in the order of their times, none from the future.     *)
Ordered(snaps) ==
    \A i, j \in DOMAIN snaps : i <= j => snaps[i].ts <= snaps[j].ts
Past(snaps) == \A i \in DOMAIN snaps : snaps[i].ts <= now

(* i is the last of snaps that is not later than ts.                        *)
LastAt(i, snaps, ts) ==
    /\ i \in DOMAIN snaps /\ snaps[i].ts <= ts
    /\ \A j \in DOMAIN snaps : i < j => ts < snaps[j].ts

LEMMA SnapshotTimes ==
    ASSUME NEW snaps \in Seq(Snapshot)
    PROVE  /\ Len(snaps) \in Nat /\ DOMAIN snaps = 1..Len(snaps)
           /\ \A i \in DOMAIN snaps : snaps[i] \in Snapshot /\ snaps[i].ts \in Nat
  <1>1. \A i \in DOMAIN snaps : snaps[i] \in Snapshot
    BY ElementOfSeq
  <1>2. \A s \in Snapshot : s.ts \in Nat
    BY TimeConstants DEF Snapshot, Moments
  <1> QED
    BY <1>1, <1>2

LEMMA LastIsNewest ==
    ASSUME NEW snaps \in Seq(Snapshot), Ordered(snaps), NEW ts \in Moments, NEW i,
           LastAt(i, snaps, ts)
    PROVE  NewestAt(snaps, ts) = snaps[i].rows
  <1> DEFINE F == {k \in Found(snaps, ts) :
                     \A j \in Found(snaps, ts) : snaps[j].ts <= snaps[k].ts}
  <1>1. /\ DOMAIN snaps = 1..Len(snaps) /\ Len(snaps) \in Nat
        /\ \A k \in DOMAIN snaps : snaps[k].ts \in Nat
    BY SnapshotTimes
  <1>2. \A k \in Found(snaps, ts) : k \in DOMAIN snaps /\ k <= i
    <2>1. ts \in Nat
      BY TimeConstants DEF Moments
    <2> QED
      BY <1>1, <2>1 DEF Found, LastAt
  <1>3. i \in F
    BY <1>1, <1>2 DEF Found, LastAt, Ordered
  <1>4. F \in SUBSET Int /\ \A k \in F : k <= i
    BY <1>1, <1>2
  <1>5. Max(F) = i
    BY <1>3, <1>4, MaxIs
  <1> QED
    BY <1>5 DEF NewestAt

LEMMA LastExists ==
    ASSUME NEW snaps \in Seq(Snapshot), NEW ts \in Moments, Found(snaps, ts) # {}
    PROVE  \E i : LastAt(i, snaps, ts)
  <1>1. Len(snaps) \in Nat /\ Found(snaps, ts) \in SUBSET (1..Len(snaps))
    BY DEF Found
  <1>2. PICK i \in Found(snaps, ts) : \A j \in Found(snaps, ts) : j <= i
    BY <1>1, GreatestExists
  <1>3. \A j \in DOMAIN snaps : snaps[j].ts \in Nat
    BY SnapshotTimes
  <1>4. ts \in Nat
    BY TimeConstants DEF Moments
  <1>5. \A j \in DOMAIN snaps : i < j => ts < snaps[j].ts
    BY <1>1, <1>2, <1>3, <1>4 DEF Found
  <1> QED
    BY <1>2, <1>5 DEF LastAt, Found

(* A capture appends, and takes away some of the front: the rest is as it   *)
(* was, at a distance of k.                                                 *)
LEMMA CaptureShape ==
    ASSUME TypeOK, Past(snapshots), NEW r \in Versions
    PROVE  \E k \in 0..Len(snapshots) :
             LET n == Len(snapshots) + 1 - k
                 snaps == Capture(r)
             IN  /\ snaps \in Seq(Snapshot) /\ Len(snaps) = n
                 /\ \A i \in 1..(n - 1) : snaps[i] = snapshots[i + k]
                 /\ snaps[n] = [ts |-> now, rows |-> r]
  <1> DEFINE s == [ts |-> now, rows |-> r]
             all == Append(snapshots, s)
             young == {i \in DOMAIN all : now - all[i].ts <= Retention}
             m == Min(young)
  <1>1. now \in Nat /\ s \in Snapshot /\ Retention \in Nat
    BY TimeConstants DEF TypeOK, Snapshot, Moments
  <1>2. /\ all \in Seq(Snapshot) /\ Len(all) = Len(snapshots) + 1
        /\ \A i \in 1..Len(snapshots) : all[i] = snapshots[i]
        /\ all[Len(all)] = s /\ Len(snapshots) \in Nat
    BY <1>1, AppendProperties DEF TypeOK
  <1>3. DOMAIN all = 1..Len(all)
    BY <1>2
  <1> HIDE DEF all
  <1>4. Len(all) \in young
    BY <1>1, <1>2, <1>3
  <1>5. young \in SUBSET Nat /\ young \subseteq 1..Len(all)
    BY <1>3
  <1> HIDE DEF young
  <1>6. m \in 1..Len(all)
    BY <1>4, <1>5, MinProperties
  <1> HIDE DEF m
  <1> DEFINE snaps == SubSeq(all, m, Len(all))
  <1>7. \A i \in m..Len(all) : all[i] \in Snapshot
    BY <1>2, <1>3, <1>6
  <1>8. /\ snaps \in Seq(Snapshot) /\ Len(snaps) = Len(all) - m + 1
        /\ \A i \in 1..(Len(all) - m + 1) : snaps[i] = all[m + i - 1]
    <2>1. m \in Int /\ Len(all) \in Int /\ m <= Len(all)
      BY <1>2, <1>6
    <2> QED
      BY <1>7, <2>1, SubSeqProperties
  <1>9. Capture(r) = snaps
    BY DEF Capture, all, young, m
  <1> HIDE DEF snaps, s
  <1>10. m - 1 \in 0..Len(snapshots) /\ Len(snaps) = Len(snapshots) + 1 - (m - 1)
    BY <1>2, <1>6, <1>8
  <1>11. \A i \in 1..(Len(snaps) - 1) : snaps[i] = snapshots[i + (m - 1)]
    <2> SUFFICES ASSUME NEW i \in 1..(Len(snaps) - 1)
                 PROVE  snaps[i] = snapshots[i + (m - 1)]
      OBVIOUS
    <2>1. i \in 1..(Len(all) - m + 1) /\ m + i - 1 \in 1..Len(snapshots)
      BY <1>2, <1>6, <1>8, <1>10
    <2>2. m + i - 1 = i + (m - 1)
      BY <1>6
    <2> QED
      BY <1>2, <1>8, <2>1, <2>2
  <1>12. snaps[Len(snaps)] = s
    <2>1. Len(snaps) \in 1..(Len(all) - m + 1) /\ m + Len(snaps) - 1 = Len(all)
      BY <1>2, <1>6, <1>8
    <2> QED
      BY <1>2, <1>8, <2>1
  <1> QED
    BY <1>8, <1>9, <1>10, <1>11, <1>12 DEF s

-----------------------------------------------------------------------------
(* The change log: log is the end of file, all of it or Capacity events.    *)
IsTail(log, file) ==
    /\ Len(log) \in {Len(file), Capacity}
    /\ Len(log) <= Len(file) /\ Len(log) <= Capacity
    /\ \A i \in 1..Len(log) : log[i] = file[Len(file) - Len(log) + i]

LEMMA TailIsSubSeqOf ==
    ASSUME NEW log \in Seq(Operations), NEW file \in Seq(Operations)
    PROVE  IsTail(log, file) <=>
             /\ Len(log) = Min({Len(file), Capacity})
             /\ log = SubSeq(file, Len(file) - Len(log) + 1, Len(file))
  <1> DEFINE m == Len(file) - Len(log) + 1
             sub == SubSeq(file, m, Len(file))
  <1>1. /\ Len(log) \in Nat /\ Len(file) \in Nat /\ Capacity \in Nat
        /\ DOMAIN log = 1..Len(log) /\ DOMAIN file = 1..Len(file)
    BY TimeConstants
  <1>2. \A i \in 1..Len(log) : m - 1 + i = Len(file) - Len(log) + i
    BY <1>1
  <1>3. Len(log) = Min({Len(file), Capacity}) <=>
           /\ Len(log) \in {Len(file), Capacity}
           /\ Len(log) <= Len(file) /\ Len(log) <= Capacity
    BY <1>1, IsMinOfTwo
  <1> SUFFICES ASSUME Len(log) <= Len(file)
               PROVE  log = sub <=> \A i \in 1..Len(log) : log[i] = file[m - 1 + i]
    <2> HIDE DEF m
    <2> QED
      BY <1>2, <1>3 DEF IsTail, m
  <1>4. /\ sub \in Seq(Operations) /\ Len(sub) = Len(log)
        /\ \A i \in 1..Len(log) : sub[i] = file[m - 1 + i]
    <2>1. m \in Int /\ Len(file) \in Int /\ m >= 1
      BY <1>1
    <2>2. \A i \in m..Len(file) : file[i] \in Operations
      BY <1>1, <2>1, ElementOfSeq
    <2>3. /\ sub \in Seq(Operations)
          /\ Len(sub) = IF m <= Len(file) THEN Len(file) - m + 1 ELSE 0
          /\ \A i \in 1..(Len(file) - m + 1) : sub[i] = file[m + i - 1]
      BY <2>1, <2>2, SubSeqProperties
    <2>4. Len(file) - m + 1 = Len(log) /\ \A i \in 1..Len(log) : m + i - 1 = m - 1 + i
      BY <1>1
    <2> HIDE DEF sub, m
    <2> QED
      BY <1>1, <2>1, <2>3, <2>4
  <1> HIDE DEF sub, m
  <1>5. (\A i \in 1..Len(log) : log[i] = sub[i]) => log = sub
    BY <1>4, SeqEqual
  <1> QED
    BY <1>4, <1>5

LEMMA RecordKeeps ==
    ASSUME TypeOK, CdcTail, NEW op \in Operations, RecordCdc(op)
    PROVE  /\ cdc' \in Seq(Operations) /\ cdcFile' \in Seq(Operations)
           /\ Len(cdc') <= Capacity /\ CdcTail'
  <1> DEFINE longer == Append(cdc, op)
  <1>1. /\ cdc \in Seq(Operations) /\ cdcFile \in Seq(Operations)
        /\ Len(cdc) \in Nat /\ Len(cdcFile) \in Nat /\ Len(cdc) <= Capacity
        /\ Capacity \in Nat /\ Capacity > 0
    BY TimeConstants DEF TypeOK
  <1>2. IsTail(cdc, cdcFile)
    BY <1>1, TailIsSubSeqOf DEF CdcTail
  <1>3. /\ longer \in Seq(Operations) /\ Len(longer) = Len(cdc) + 1
        /\ longer # << >>
        /\ \A i \in 1..Len(cdc) : longer[i] = cdc[i]
        /\ longer[Len(cdc) + 1] = op
    BY <1>1, AppendProperties
  <1>4. /\ cdcFile' \in Seq(Operations) /\ Len(cdcFile') = Len(cdcFile) + 1
        /\ \A i \in 1..Len(cdcFile) : cdcFile'[i] = cdcFile[i]
        /\ cdcFile'[Len(cdcFile) + 1] = op
    BY <1>1, AppendProperties DEF RecordCdc
  <1> HIDE DEF longer
  <1>5. /\ cdc' \in Seq(Operations) /\ Len(cdc') <= Capacity /\ IsTail(cdc', cdcFile')
    <2>1. CASE Len(longer) > Capacity
      <3>1. cdc' = Tail(longer)
        BY <2>1 DEF RecordCdc, Keep, longer
      <3>2. /\ cdc' \in Seq(Operations) /\ Len(cdc') = Len(cdc)
            /\ \A i \in 1..Len(cdc) : cdc'[i] = longer[i + 1]
        BY <1>1, <1>3, <3>1, HeadTailProperties
      <3>3. Len(cdc) = Capacity /\ Len(cdc) <= Len(cdcFile)
        BY <1>1, <1>2, <1>3, <2>1 DEF IsTail
      <3>4. ASSUME NEW i \in 1..Len(cdc)
            PROVE  cdc'[i] = cdcFile'[Len(cdcFile') - Len(cdc') + i]
        <4>1. Len(cdcFile') - Len(cdc') + i = Len(cdcFile) - Len(cdc) + (i + 1)
          BY <1>1, <1>4, <3>2
        <4>2. CASE i = Len(cdc)
          <5>1. Len(cdcFile) - Len(cdc) + (i + 1) = Len(cdcFile) + 1
            BY <1>1, <4>2
          <5> QED
            BY <1>3, <1>4, <3>2, <4>1, <4>2, <5>1
        <4>3. CASE i # Len(cdc)
          <5>1. /\ i + 1 \in 1..Len(cdc)
                /\ Len(cdcFile) - Len(cdc) + (i + 1) \in 1..Len(cdcFile)
            BY <1>1, <3>3, <4>3
          <5>2. cdc'[i] = cdcFile[Len(cdcFile) - Len(cdc) + (i + 1)]
            BY <1>2, <1>3, <3>2, <5>1 DEF IsTail
          <5> QED
            BY <1>4, <4>1, <5>1, <5>2
        <4> QED
          BY <4>2, <4>3
      <3> QED
        BY <1>1, <1>4, <3>2, <3>3, <3>4 DEF IsTail
    <2>2. CASE ~(Len(longer) > Capacity)
      <3>1. cdc' = longer /\ Len(cdc') = Len(cdc) + 1
        BY <1>3, <2>2 DEF RecordCdc, Keep, longer
      <3>2. Len(cdc) = Len(cdcFile) /\ Len(cdc) < Capacity
        BY <1>1, <1>2, <1>3, <2>2 DEF IsTail
      <3>3. ASSUME NEW i \in 1..Len(cdc')
            PROVE  cdc'[i] = cdcFile'[Len(cdcFile') - Len(cdc') + i]
        <4>1. Len(cdcFile') - Len(cdc') + i = i
          BY <1>1, <1>4, <3>1, <3>2
        <4>2. CASE i = Len(cdc) + 1
          BY <1>3, <1>4, <3>1, <3>2, <4>1, <4>2
        <4>3. CASE i # Len(cdc) + 1
          <5>1. i \in 1..Len(cdc) /\ Len(cdcFile) - Len(cdc) + i = i
            BY <1>1, <3>1, <3>2, <4>3
          <5>2. cdc'[i] = cdcFile[i]
            BY <1>2, <1>3, <3>1, <5>1 DEF IsTail
          <5> QED
            BY <1>4, <3>2, <4>1, <5>1, <5>2
        <4> QED
          BY <4>2, <4>3
      <3> QED
        BY <1>1, <1>3, <1>4, <3>1, <3>2, <3>3 DEF IsTail
    <2> QED
      BY <2>1, <2>2
  <1>6. CdcTail'
    <2>1. \A log, file \in Seq(Operations) : IsTail(log, file) =>
             /\ Len(log) = Min({Len(file), Capacity})
             /\ log = SubSeq(file, Len(file) - Len(log) + 1, Len(file))
      BY TailIsSubSeqOf
    <2> QED
      BY <1>4, <1>5, <2>1 DEF CdcTail
  <1> QED
    BY <1>4, <1>5, <1>6

LEMMA RereadKeeps ==
    ASSUME NEW file \in Seq(Operations)
    PROVE  /\ Reread(file) \in Seq(Operations) /\ IsTail(Reread(file), file)
           /\ Len(Reread(file)) <= Capacity
  <1> DEFINE m == Max({1, Len(file) - Capacity + 1})
             read == SubSeq(file, m, Len(file))
  <1>1. /\ Len(file) \in Nat /\ Capacity \in Nat
        /\ DOMAIN file = 1..Len(file)
    BY TimeConstants
  <1>2. m = IF 1 <= Len(file) - Capacity + 1 THEN Len(file) - Capacity + 1 ELSE 1
    BY <1>1, MaxOfTwo
  <1>3. Reread(file) = read
    BY DEF Reread
  <1> HIDE DEF m
  <1>4. m \in Int /\ m >= 1 /\ m <= Len(file) + 1
    BY <1>1, <1>2
  <1>5. \A i \in m..Len(file) : file[i] \in Operations
    BY <1>1, <1>4, ElementOfSeq
  <1>6. /\ read \in Seq(Operations)
        /\ Len(read) = IF m <= Len(file) THEN Len(file) - m + 1 ELSE 0
        /\ \A i \in 1..(Len(file) - m + 1) : read[i] = file[m + i - 1]
    BY <1>1, <1>4, <1>5, SubSeqProperties
  <1> HIDE DEF read
  <1>7. Len(read) = Len(file) - m + 1
    <2>1. CASE m <= Len(file)
      BY <1>6, <2>1
    <2>2. CASE ~(m <= Len(file))
      <3>1. m = Len(file) + 1
        BY <1>1, <1>4, <2>2
      <3>2. Len(read) = 0
        BY <1>6, <2>2
      <3> QED
        BY <1>1, <3>1, <3>2
    <2> QED
      BY <2>1, <2>2
  <1>8. /\ Len(read) \in {Len(file), Capacity}
        /\ Len(read) <= Len(file) /\ Len(read) <= Capacity
    <2>1. CASE Capacity <= Len(file)
      <3>1. m = Len(file) - Capacity + 1
        BY <1>1, <1>2, <2>1
      <3>2. Len(read) = Capacity
        BY <1>1, <1>7, <3>1
      <3> QED
        BY <1>1, <2>1, <3>2
    <2>2. CASE ~(Capacity <= Len(file))
      <3>1. m = 1
        BY <1>1, <1>2, <2>2
      <3>2. Len(read) = Len(file)
        BY <1>1, <1>7, <3>1
      <3> QED
        BY <1>1, <2>2, <3>2
    <2> QED
      BY <2>1, <2>2
  <1>9. \A i \in 1..Len(read) : m + i - 1 = Len(file) - Len(read) + i
    BY <1>1, <1>4, <1>7
  <1> QED
    BY <1>1, <1>3, <1>6, <1>7, <1>8, <1>9 DEF IsTail

-----------------------------------------------------------------------------
(* The invariant. HistoryTrue: the last snapshot that is not later than a   *)
(* captured moment has the rows of that moment. HistoryIsDisk: the ghost is *)
(* what it is named for.                                                    *)
HistoryTrue ==
    \A ts \in 0..now : history[ts] # None =>
        \A i \in DOMAIN snapshots :
            LastAt(i, snapshots, ts) => snapshots[i].rows = history[ts]
HistoryIsDisk == history[now] \in {None, disk}

SnapshotsOK ==
    /\ snapshots \in Seq(Snapshot) /\ Ordered(snapshots) /\ Past(snapshots)
    /\ HistoryTrue

IInv == TypeOK /\ SnapshotsOK /\ HistoryIsDisk /\ CdcTail

LEMMA NowIsMoment ==
    ASSUME TypeOK
    PROVE  /\ now \in Nat /\ Clock \in Nat /\ now <= Clock /\ 0..now \subseteq Moments
           /\ None \notin Versions /\ Versions \subseteq Nat
  BY TimeConstants DEF TypeOK, Moments, Versions

LEMMA CaptureStep ==
    ASSUME IInv, NEW r \in Versions, NEW h \in {r, None},
           snapshots' = Capture(r), history' = [history EXCEPT ![now] = h], now' = now
    PROVE  SnapshotsOK' /\ history' \in [Moments -> Versions \cup {None}]
           /\ history'[now] = h
  <1>1. /\ now \in Nat /\ 0..now \subseteq Moments /\ now \in Moments
        /\ history \in [Moments -> Versions \cup {None}]
        /\ Len(snapshots) \in Nat /\ DOMAIN snapshots = 1..Len(snapshots)
    BY NowIsMoment DEF IInv, TypeOK
  <1>2. PICK k \in 0..Len(snapshots) :
          LET n == Len(snapshots) + 1 - k
          IN  /\ snapshots' \in Seq(Snapshot) /\ Len(snapshots') = n
              /\ \A i \in 1..(n - 1) : snapshots'[i] = snapshots[i + k]
              /\ snapshots'[n] = [ts |-> now, rows |-> r]
    BY CaptureShape DEF IInv, SnapshotsOK
  <1> DEFINE n == Len(snapshots')
  <1>3. /\ n \in Nat /\ n >= 1 /\ DOMAIN snapshots' = 1..n
        /\ n = Len(snapshots) + 1 - k
        /\ snapshots'[n].ts = now /\ snapshots'[n].rows = r
    BY <1>1, <1>2
  <1>4. \A i \in 1..(n - 1) : /\ i + k \in DOMAIN snapshots
                              /\ snapshots'[i] = snapshots[i + k]
    BY <1>1, <1>2, <1>3
  <1>5. \A i \in DOMAIN snapshots : snapshots[i].ts \in Nat /\ snapshots[i].ts <= now
    BY SnapshotTimes DEF IInv, SnapshotsOK, Past
  <1> HIDE DEF n
  <1>6. \A i \in 1..n : i = n \/ i \in 1..(n - 1)
    BY <1>3
  <1>7. \A i \in 1..n : snapshots'[i].ts \in Nat /\ snapshots'[i].ts <= now
    <2>1. snapshots'[n].ts \in Nat /\ snapshots'[n].ts <= now
      BY <1>1, <1>3
    <2>2. ASSUME NEW i \in 1..(n - 1)
          PROVE  snapshots'[i].ts \in Nat /\ snapshots'[i].ts <= now
      <3>1. snapshots'[i] = snapshots[i + k] /\ i + k \in DOMAIN snapshots
        BY <1>4
      <3> QED
        BY <1>5, <3>1
    <2> QED
      BY <1>6, <2>1, <2>2
  <1>8. Past(snapshots)'
    BY <1>3, <1>7 DEF Past
  <1>9. Ordered(snapshots)'
    <2> SUFFICES ASSUME NEW i \in 1..n, NEW j \in 1..n, i <= j
                 PROVE  snapshots'[i].ts <= snapshots'[j].ts
      BY <1>3 DEF Ordered
    <2>1. CASE j = n
      BY <1>3, <1>7, <2>1
    <2>2. CASE j # n
      <3>1. i \in 1..(n - 1) /\ j \in 1..(n - 1) /\ i + k <= j + k
        BY <1>3, <2>2
      <3> QED
        BY <1>4, <3>1 DEF IInv, SnapshotsOK, Ordered
    <2> QED
      BY <2>1, <2>2
  <1>10. history' \in [Moments -> Versions \cup {None}] /\ history'[now] = h
    BY <1>1
  <1>11. HistoryTrue'
    <2> SUFFICES ASSUME NEW ts \in 0..now, history'[ts] # None,
                        NEW i \in 1..n, LastAt(i, snapshots', ts)
                 PROVE  snapshots'[i].rows = history'[ts]
      BY <1>3 DEF HistoryTrue, LastAt
    <2>1. CASE i = n
      <3>1. ts = now
        BY <1>1, <1>3, <2>1 DEF LastAt
      <3>2. history'[ts] = h
        BY <1>10, <3>1
      <3> QED
        BY <1>3, <2>1, <3>2
    <2>2. CASE i # n
      <3>1. i \in 1..(n - 1) /\ i < n /\ n \in 1..n
        BY <1>3, <2>2
      <3>2. ts < now
        BY <1>3, <3>1 DEF LastAt
      <3>3. history'[ts] = history[ts]
        BY <1>1, <3>2
      <3>4. LastAt(i + k, snapshots, ts)
        <4>1. i + k \in DOMAIN snapshots /\ snapshots[i + k].ts <= ts
          BY <1>4, <3>1 DEF LastAt
        <4>2. ASSUME NEW j \in DOMAIN snapshots, i + k < j PROVE ts < snapshots[j].ts
          <5>1. j - k \in 1..(n - 1) /\ i < j - k /\ (j - k) + k = j
            BY <1>1, <1>3, <3>1, <4>2
          <5>2. j - k \in 1..n
            BY <1>3, <5>1
          <5>3. ts < snapshots'[j - k].ts
            BY <1>3, <5>1, <5>2 DEF LastAt
          <5> QED
            BY <1>4, <5>1, <5>3
        <4> QED
          BY <4>1, <4>2 DEF LastAt
      <3>5. snapshots[i + k].rows = history[ts]
        BY <3>3, <3>4 DEF IInv, SnapshotsOK, HistoryTrue, LastAt
      <3> QED
        BY <1>4, <3>1, <3>3, <3>5
    <2> QED
      BY <2>1, <2>2
  <1> QED
    BY <1>2, <1>8, <1>9, <1>10, <1>11 DEF SnapshotsOK

LEMMA NoCaptureStep ==
    ASSUME IInv, NEW h \in {history[now], None},
           snapshots' = snapshots, history' = [history EXCEPT ![now] = h], now' = now
    PROVE  SnapshotsOK' /\ history' \in [Moments -> Versions \cup {None}]
           /\ history'[now] = h
  <1>1. /\ now \in Nat /\ 0..now \subseteq Moments /\ now \in Moments
        /\ history \in [Moments -> Versions \cup {None}]
    BY NowIsMoment DEF IInv, TypeOK
  <1>2. \A ts \in 0..now : history'[ts] # None => history'[ts] = history[ts]
    BY <1>1
  <1>3. HistoryTrue'
    BY <1>2 DEF IInv, SnapshotsOK, HistoryTrue
  <1> QED
    BY <1>1, <1>3 DEF IInv, SnapshotsOK, Ordered, Past

LEMMA CapturedStep ==
    ASSUME IInv, NEW r \in Versions, Captured(r), now' = now, r = disk'
    PROVE  /\ SnapshotsOK' /\ history' \in [Moments -> Versions \cup {None}]
           /\ HistoryIsDisk' /\ enabled' = enabled
  <1>1. CASE enabled
    <2>1. snapshots' = Capture(r) /\ history' = [history EXCEPT ![now] = r]
      BY <1>1 DEF Captured
    <2>2. /\ SnapshotsOK' /\ history' \in [Moments -> Versions \cup {None}]
          /\ history'[now] = r
      BY <2>1, CaptureStep
    <2> QED
      BY <2>2 DEF Captured, HistoryIsDisk
  <1>2. CASE ~enabled
    <2>1. snapshots' = snapshots /\ history' = [history EXCEPT ![now] = None]
      BY <1>2 DEF Captured
    <2>2. /\ SnapshotsOK' /\ history' \in [Moments -> Versions \cup {None}]
          /\ history'[now] = None
      BY <2>1, NoCaptureStep
    <2> QED
      BY <2>2 DEF Captured, HistoryIsDisk
  <1> QED
    BY <1>1, <1>2

LEMMA NotCapturedStep ==
    ASSUME IInv, NEW r \in Versions, NotCaptured(r), now' = now, r = disk'
    PROVE  /\ SnapshotsOK' /\ history' \in [Moments -> Versions \cup {None}]
           /\ HistoryIsDisk' /\ enabled' = enabled
  <1>1. history' = [history EXCEPT ![now] = IF r = disk THEN history[now] ELSE None]
    BY NowIsMoment DEF NotCaptured, IInv, TypeOK
  <1> DEFINE h == IF r = disk THEN history[now] ELSE None
  <1>2. h \in {history[now], None}
    OBVIOUS
  <1> HIDE DEF h
  <1>3. /\ SnapshotsOK' /\ history' \in [Moments -> Versions \cup {None}]
        /\ history'[now] = h
    BY <1>1, <1>2, NoCaptureStep DEF NotCaptured, h
  <1>4. HistoryIsDisk'
    BY <1>3 DEF h, HistoryIsDisk, IInv
  <1> QED
    BY <1>3, <1>4 DEF NotCaptured

-----------------------------------------------------------------------------
(* The statements. Every one of them keeps the invariant.                   *)
LEMMA Numbers ==
    ASSUME TypeOK
    PROVE  /\ fresh < Changes => fresh + 1 \in Versions
           /\ now < Clock => now + 1 \in Moments
           /\ None \notin Versions
           /\ txn # None => /\ txn.files \in Versions
                            /\ txn.backup \in Versions \cup {None}
  BY TimeConstants DEF TypeOK, Versions, Moments

(* A statement that records op, or leaves the change log alone.             *)
LEMMA LogStep ==
    ASSUME IInv, NEW op \in Operations, RecordCdc(op) \/ UNCHANGED changelog
    PROVE  /\ cdc' \in Seq(Operations) /\ cdcFile' \in Seq(Operations)
           /\ Len(cdc') <= Capacity /\ CdcTail'
  <1>1. CASE RecordCdc(op)
    BY <1>1, RecordKeeps DEF IInv
  <1>2. CASE UNCHANGED changelog
    BY <1>2 DEF changelog, IInv, TypeOK, CdcTail
  <1> QED
    BY <1>1, <1>2

LEMMA InsertStep == ASSUME IInv, Insert PROVE IInv'
  <1>1. fresh + 1 \in Versions /\ disk \in Versions
    BY Numbers DEF Insert, IInv, TypeOK
  <1>2. /\ SnapshotsOK' /\ history' \in [Moments -> Versions \cup {None}]
        /\ HistoryIsDisk' /\ enabled' = enabled
    BY <1>1, CapturedStep DEF Insert
  <1>3. /\ cdc' \in Seq(Operations) /\ cdcFile' \in Seq(Operations)
        /\ Len(cdc') <= Capacity /\ CdcTail'
    BY LogStep DEF Insert, Operations
  <1>4. TypeOK'
    BY <1>1, <1>2, <1>3 DEF Insert, IInv, TypeOK, SnapshotsOK
  <1> QED
    BY <1>2, <1>3, <1>4 DEF IInv

LEMMA WriteStep == ASSUME IInv, NEW op \in Operations, Write(op) PROVE IInv'
  <1>1. fresh + 1 \in Versions
    BY Numbers DEF Write, IInv
  <1>2. /\ SnapshotsOK' /\ history' \in [Moments -> Versions \cup {None}]
        /\ HistoryIsDisk' /\ enabled' = enabled
    BY <1>1, CapturedStep DEF Write
  <1>3. /\ cdc' \in Seq(Operations) /\ cdcFile' \in Seq(Operations)
        /\ Len(cdc') <= Capacity /\ CdcTail'
    BY LogStep DEF Write
  <1>4. txn' \in {None} \cup [files : Versions, backup : Versions \cup {None}]
    BY DEF Write, IInv, TypeOK
  <1>5. TypeOK'
    BY <1>1, <1>2, <1>3, <1>4 DEF Write, IInv, TypeOK, SnapshotsOK
  <1> QED
    BY <1>2, <1>3, <1>5 DEF IInv

LEMMA HandleTruncateStep == ASSUME IInv, HandleTruncate PROVE IInv'
  <1>1. fresh + 1 \in Versions
    BY Numbers DEF HandleTruncate, IInv
  <1>2. /\ SnapshotsOK' /\ history' \in [Moments -> Versions \cup {None}]
        /\ HistoryIsDisk' /\ enabled' = enabled
    BY <1>1, NotCapturedStep DEF HandleTruncate
  <1>3. /\ cdc' \in Seq(Operations) /\ cdcFile' \in Seq(Operations)
        /\ Len(cdc') <= Capacity /\ CdcTail'
    BY LogStep DEF HandleTruncate, Operations
  <1>4. txn' \in {None} \cup [files : Versions, backup : Versions \cup {None}]
    BY <1>1 DEF HandleTruncate, IInv, TypeOK
  <1>5. TypeOK'
    BY <1>1, <1>2, <1>3, <1>4 DEF HandleTruncate, IInv, TypeOK, SnapshotsOK
  <1> QED
    BY <1>2, <1>3, <1>5 DEF IInv

LEMMA FlushStep == ASSUME IInv, Flush PROVE IInv'
  <1> DEFINE r == total
  <1>1. r \in Versions
    BY Numbers DEF Flush, IInv, TypeOK
  <1>2. NotCaptured(r) /\ now' = now /\ disk' = r
    BY DEF Flush
  <1> HIDE DEF r
  <1>3. /\ SnapshotsOK' /\ history' \in [Moments -> Versions \cup {None}]
        /\ HistoryIsDisk' /\ enabled' = enabled
    BY <1>1, <1>2, NotCapturedStep
  <1>4. /\ cdc' \in Seq(Operations) /\ cdcFile' \in Seq(Operations)
        /\ Len(cdc') <= Capacity /\ CdcTail'
    BY LogStep DEF Flush, Operations
  <1>5. txn' \in {None} \cup [files : Versions, backup : Versions \cup {None}]
    BY DEF Flush, IInv, TypeOK
  <1>6. total' \in Versions
    BY <1>1 DEF Flush, IInv, TypeOK, r
  <1>7. TypeOK'
    BY <1>1, <1>2, <1>3, <1>4, <1>5, <1>6 DEF Flush, IInv, TypeOK, SnapshotsOK
  <1> QED
    BY <1>3, <1>4, <1>7 DEF IInv

LEMMA HandleBeginStep == ASSUME IInv, HandleBegin PROVE IInv'
  <1> DEFINE r == total
  <1>1. r \in Versions
    BY Numbers DEF HandleBegin, IInv, TypeOK
  <1>2. NotCaptured(r) /\ now' = now /\ disk' = r
    BY DEF HandleBegin
  <1> HIDE DEF r
  <1>3. /\ SnapshotsOK' /\ history' \in [Moments -> Versions \cup {None}]
        /\ HistoryIsDisk' /\ enabled' = enabled
    BY <1>1, <1>2, NotCapturedStep
  <1>4. /\ cdc' \in Seq(Operations) /\ cdcFile' \in Seq(Operations)
        /\ Len(cdc') <= Capacity /\ CdcTail'
    BY LogStep DEF HandleBegin, Operations
  <1>5. txn' \in {None} \cup [files : Versions, backup : Versions \cup {None}]
    BY DEF HandleBegin, IInv, TypeOK
  <1>6. total' \in Versions
    BY <1>1 DEF HandleBegin, IInv, TypeOK, r
  <1>7. TypeOK'
    BY <1>1, <1>2, <1>3, <1>4, <1>5, <1>6 DEF HandleBegin, IInv, TypeOK, SnapshotsOK
  <1> QED
    BY <1>3, <1>4, <1>7 DEF IInv

LEMMA HandleCommitStep == ASSUME IInv, HandleCommit PROVE IInv'
  <1> DEFINE r == total
  <1>1. r \in Versions
    BY Numbers DEF HandleCommit, IInv, TypeOK
  <1>2. Captured(r) /\ now' = now /\ disk' = r
    BY DEF HandleCommit
  <1> HIDE DEF r
  <1>3. /\ SnapshotsOK' /\ history' \in [Moments -> Versions \cup {None}]
        /\ HistoryIsDisk' /\ enabled' = enabled
    BY <1>1, <1>2, CapturedStep
  <1>4. /\ cdc' \in Seq(Operations) /\ cdcFile' \in Seq(Operations)
        /\ Len(cdc') <= Capacity /\ CdcTail'
    BY LogStep DEF HandleCommit, Operations
  <1>5. txn' \in {None} \cup [files : Versions, backup : Versions \cup {None}]
    BY DEF HandleCommit, IInv, TypeOK
  <1>6. total' \in Versions
    BY <1>1 DEF HandleCommit, IInv, TypeOK, r
  <1>7. TypeOK'
    BY <1>1, <1>2, <1>3, <1>4, <1>5, <1>6 DEF HandleCommit, IInv, TypeOK, SnapshotsOK
  <1> QED
    BY <1>3, <1>4, <1>7 DEF IInv

LEMMA HandleRollbackStep == ASSUME IInv, HandleRollback PROVE IInv'
  <1> DEFINE r == IF txn.backup = None THEN txn.files ELSE txn.backup
  <1>1. r \in Versions
    BY Numbers DEF HandleRollback, IInv, TypeOK
  <1>2. NotCaptured(r) /\ now' = now /\ disk' = r
    BY DEF HandleRollback
  <1> HIDE DEF r
  <1>3. /\ SnapshotsOK' /\ history' \in [Moments -> Versions \cup {None}]
        /\ HistoryIsDisk' /\ enabled' = enabled
    BY <1>1, <1>2, NotCapturedStep
  <1>4. /\ cdc' \in Seq(Operations) /\ cdcFile' \in Seq(Operations)
        /\ Len(cdc') <= Capacity /\ CdcTail'
    BY LogStep DEF HandleRollback, Operations
  <1>5. txn' \in {None} \cup [files : Versions, backup : Versions \cup {None}]
    BY DEF HandleRollback, IInv, TypeOK
  <1>6. total' \in Versions
    BY <1>1 DEF HandleRollback, IInv, TypeOK, r
  <1>7. TypeOK'
    BY <1>1, <1>2, <1>3, <1>4, <1>5, <1>6 DEF HandleRollback, IInv, TypeOK, SnapshotsOK
  <1> QED
    BY <1>3, <1>4, <1>7 DEF IInv

(* The snapshots that AS OF searches, and the answer.                       *)
LEMMA ExecuteAsOfStep == ASSUME IInv, NEW ts \in Moments, ExecuteAsOf(ts) PROVE IInv'
  <1> DEFINE snaps == IF enabled THEN snapshots ELSE Capture(disk)
  <1>1. /\ snapshots' = snaps /\ enabled' = TRUE
        /\ UNCHANGED <<disk, total, fresh, txn, now, cdc, cdcFile>>
        /\ history' = IF enabled THEN history ELSE [history EXCEPT ![now] = disk]
        /\ plan' = IF Found(snaps, ts) = {} THEN plan ELSE AsOfAnswer(snaps, ts)
    BY DEF ExecuteAsOf, rows, changelog
  <1> HIDE DEF snaps
  <1>2. disk \in Versions
    BY DEF IInv, TypeOK
  <1>3. SnapshotsOK' /\ history' \in [Moments -> Versions \cup {None}] /\ HistoryIsDisk'
    <2>1. CASE enabled
      <3>1. snapshots' = snapshots /\ history' = history /\ now' = now /\ disk' = disk
        BY <1>1, <2>1 DEF snaps
      <3> QED
        BY <3>1 DEF IInv, TypeOK, SnapshotsOK, Ordered, Past, HistoryTrue, HistoryIsDisk
    <2>2. CASE ~enabled
      <3>1. snapshots' = Capture(disk) /\ history' = [history EXCEPT ![now] = disk]
        BY <1>1, <2>2 DEF snaps
      <3>2. /\ SnapshotsOK' /\ history' \in [Moments -> Versions \cup {None}]
            /\ history'[now] = disk
        BY <1>1, <1>2, <3>1, CaptureStep
      <3> QED
        BY <1>1, <3>2 DEF HistoryIsDisk
    <2> QED
      BY <2>1, <2>2
  <1>4. snaps \in Seq(Snapshot) /\ Ordered(snaps)
    BY <1>1, <1>3 DEF SnapshotsOK, Ordered
  <1>5. plan' \in Versions \cup {None}
    <2>1. ASSUME Found(snaps, ts) # {} PROVE NewestAt(snaps, ts) \in Versions
      <3>1. PICK i : LastAt(i, snaps, ts)
        BY <1>4, <2>1, LastExists
      <3>2. NewestAt(snaps, ts) = snaps[i].rows
        BY <1>4, <3>1, LastIsNewest
      <3>3. snaps[i] \in Snapshot
        BY <1>4, <3>1, SnapshotTimes DEF LastAt
      <3> QED
        BY <3>2, <3>3 DEF Snapshot
    <2> QED
      BY <1>1, <2>1 DEF AsOfAnswer, IInv, TypeOK
  <1>6. CdcTail'
    BY <1>1 DEF IInv, CdcTail
  <1>7. TypeOK'
    BY <1>1, <1>3, <1>5 DEF IInv, TypeOK, SnapshotsOK
  <1> QED
    BY <1>3, <1>6, <1>7 DEF IInv

(* One snapshot of this moment.                                             *)
LEMMA OneSnapshot ==
    ASSUME TypeOK, NEW r \in Versions
    PROVE  LET snaps == <<[ts |-> now, rows |-> r]>>
           IN  snaps \in Seq(Snapshot) /\ Ordered(snaps) /\ Past(snaps)
  BY NowIsMoment DEF Snapshot, Ordered, Past, TypeOK

LEMMA ReopenStep == ASSUME IInv, Reopen PROVE IInv'
  <1>1. disk \in Versions /\ now' = now /\ now \in Moments /\ now \in Nat
    BY NowIsMoment DEF IInv, TypeOK, Reopen
  <1>2. history' = [m \in Moments |-> None] /\ \A ts \in 0..now : history'[ts] = None
    BY NowIsMoment DEF IInv, Reopen
  <1>3. HistoryTrue' /\ HistoryIsDisk'
    BY <1>1, <1>2 DEF HistoryTrue, HistoryIsDisk
  <1>4. /\ snapshots' \in Seq(Snapshot) /\ Ordered(snapshots') /\ Past(snapshots')
    BY <1>1, OneSnapshot DEF Reopen, IInv
  <1>5. SnapshotsOK'
    BY <1>1, <1>3, <1>4 DEF SnapshotsOK, Ordered, Past
  <1>6. /\ cdc' \in Seq(Operations) /\ cdcFile' \in Seq(Operations)
        /\ Len(cdc') <= Capacity /\ IsTail(cdc', cdcFile')
    BY RereadKeeps DEF Reopen, IInv, TypeOK
  <1>7. CdcTail'
    BY <1>6, TailIsSubSeqOf DEF CdcTail
  <1>8. TypeOK'
    BY <1>1, <1>2, <1>4, <1>6 DEF Reopen, IInv, TypeOK
  <1> QED
    BY <1>3, <1>5, <1>7, <1>8 DEF IInv

LEMMA TickStep == ASSUME IInv, Tick PROVE IInv'
  <1>1. /\ now' = now + 1 /\ now \in Nat /\ now + 1 \in Moments
        /\ now \in Moments /\ 0..(now + 1) \subseteq Moments
        /\ history \in [Moments -> Versions \cup {None}]
    BY NowIsMoment, TimeConstants DEF Tick, IInv, TypeOK, Moments
  <1>2. /\ history' = [history EXCEPT ![now + 1] = history[now]]
        /\ UNCHANGED <<disk, total, fresh, txn, snapshots, enabled, plan, cdc, cdcFile>>
    BY DEF Tick, rows, changelog
  <1>3. \A ts \in 0..now : history'[ts] = history[ts]
    BY <1>1, <1>2
  <1>4. history'[now + 1] = history[now] /\ history' \in [Moments -> Versions \cup {None}]
    BY <1>1, <1>2
  <1>5. \A i \in DOMAIN snapshots : snapshots[i].ts \in Nat /\ snapshots[i].ts <= now
    BY SnapshotTimes DEF IInv, SnapshotsOK, Past
  <1>6. HistoryTrue'
    <2> SUFFICES ASSUME NEW ts \in 0..(now + 1), history'[ts] # None,
                        NEW i \in DOMAIN snapshots, LastAt(i, snapshots, ts)
                 PROVE  snapshots[i].rows = history'[ts]
      BY <1>1, <1>2 DEF HistoryTrue, LastAt
    <2>1. CASE ts \in 0..now
      BY <1>3, <2>1 DEF IInv, SnapshotsOK, HistoryTrue
    <2>2. CASE ts = now + 1
      <3>1. LastAt(i, snapshots, now)
        BY <1>1, <1>5, <2>2 DEF LastAt
      <3>2. now \in 0..now
        BY <1>1
      <3> QED
        BY <1>4, <2>2, <3>1, <3>2 DEF IInv, SnapshotsOK, HistoryTrue
    <2> QED
      BY <1>1, <2>1, <2>2
  <1>7. SnapshotsOK'
    BY <1>1, <1>2, <1>5, <1>6 DEF IInv, SnapshotsOK, Ordered, Past
  <1>8. HistoryIsDisk' /\ CdcTail'
    BY <1>1, <1>2, <1>4 DEF IInv, HistoryIsDisk, CdcTail
  <1>9. TypeOK'
    BY <1>1, <1>2, <1>4 DEF IInv, TypeOK
  <1> QED
    BY <1>7, <1>8, <1>9 DEF IInv

-----------------------------------------------------------------------------
LEMMA InitInv == Init => IInv
  <1> SUFFICES ASSUME Init PROVE IInv
    OBVIOUS
  <1>1. /\ 0 \in Versions /\ 0 \in Moments /\ 0..now = {0} /\ now = 0
        /\ \A m \in Moments : history[m] = None
    BY TimeConstants DEF Init, Versions, Moments
  <1>2. TypeOK
    <2>1. snapshots \in Seq(Snapshot)
      BY <1>1 DEF Init, Snapshot
    <2>2. /\ cdc \in Seq(Operations) /\ cdcFile \in Seq(Operations)
          /\ Len(cdc) <= Capacity
      BY TimeConstants DEF Init
    <2> QED
      BY <1>1, <2>1, <2>2 DEF Init, TypeOK
  <1>3. SnapshotsOK
    <2>1. snapshots \in Seq(Snapshot) /\ Ordered(snapshots) /\ Past(snapshots)
      BY <1>1, <1>2, OneSnapshot DEF Init
    <2> QED
      BY <1>1, <2>1 DEF SnapshotsOK, HistoryTrue
  <1>4. HistoryIsDisk
    BY <1>1 DEF HistoryIsDisk
  <1>5. CdcTail
    <2>1. cdc \in Seq(Operations) /\ cdcFile \in Seq(Operations)
      BY <1>2 DEF TypeOK
    <2>2. IsTail(cdc, cdcFile)
      BY TimeConstants DEF Init, IsTail
    <2> QED
      BY <2>1, <2>2, TailIsSubSeqOf DEF CdcTail
  <1> QED
    BY <1>2, <1>3, <1>4, <1>5 DEF IInv

LEMMA NextInv == IInv /\ [Next]_vars => IInv'
  <1> SUFFICES ASSUME IInv, [Next]_vars PROVE IInv'
    OBVIOUS
  <1>1. CASE Insert
    BY <1>1, InsertStep
  <1>2. CASE HandleTruncate
    BY <1>2, HandleTruncateStep
  <1>3. CASE Flush
    BY <1>3, FlushStep
  <1>4. ASSUME NEW op \in {"UPDATE", "COPY_FROM"}, Write(op) PROVE IInv'
    <2>1. op \in Operations
      BY DEF Operations
    <2> QED
      BY <1>4, <2>1, WriteStep
  <1>5. ASSUME NEW ts \in Moments, ExecuteAsOf(ts) PROVE IInv'
    BY <1>5, ExecuteAsOfStep
  <1>6. CASE HandleBegin
    BY <1>6, HandleBeginStep
  <1>7. CASE HandleCommit
    BY <1>7, HandleCommitStep
  <1>8. CASE HandleRollback
    BY <1>8, HandleRollbackStep
  <1>9. CASE Reopen
    BY <1>9, ReopenStep
  <1>10. CASE Tick
    BY <1>10, TickStep
  <1>11. CASE UNCHANGED vars
    BY <1>11 DEF vars, rows, captures, changelog, IInv, TypeOK, SnapshotsOK, Ordered, Past,
       HistoryTrue, HistoryIsDisk, CdcTail
  <1> QED
    BY <1>1, <1>2, <1>3, <1>4, <1>5, <1>6, <1>7, <1>8, <1>9, <1>10, <1>11 DEF Next

(* The snapshots are in order and true, the log is the end of its file, at  *)
(* every capacity, window and interval.                                     *)
THEOREM Invariance == Spec => []IInv
  BY InitInv, NextInv, PTL DEF Spec

-----------------------------------------------------------------------------
(* Every variable keeps its type; the log in memory never exceeds its       *)
(* capacity.                                                                *)
THEOREM TypeCorrect == Spec => []TypeOK
  BY Invariance, PTL DEF IInv

(* capture_snapshot and execute_as_of_timestamp: whenever the rows of a     *)
(* moment were captured and a snapshot that old is still kept, the one that *)
(* AS OF selects has the rows that were on disk at the end of that moment.  *)
THEOREM AsOfFindsTruth == Spec => []AsOfTruth
  <1>1. IInv => AsOfTruth
    <2> SUFFICES ASSUME IInv, NEW ts \in 0..(now - 1), history[ts] # None,
                        Found(snapshots, ts) # {}
                 PROVE  NewestAt(snapshots, ts) = history[ts]
      BY DEF AsOfTruth
    <2>1. ts \in 0..now /\ ts \in Moments
      BY NowIsMoment DEF IInv
    <2>2. PICK i : LastAt(i, snapshots, ts)
      BY <2>1, LastExists DEF IInv, SnapshotsOK
    <2>3. NewestAt(snapshots, ts) = snapshots[i].rows
      BY <2>1, <2>2, LastIsNewest DEF IInv, SnapshotsOK
    <2>4. snapshots[i].rows = history[ts]
      BY <2>1, <2>2 DEF IInv, SnapshotsOK, HistoryTrue, LastAt
    <2> QED
      BY <2>3, <2>4
  <1> QED
    BY <1>1, Invariance, PTL

(* The ghost that AsOfTruth compares with: what it says of this moment is   *)
(* what the files of the table have.                                        *)
THEOREM HistoryOfDisk == Spec => []HistoryIsDisk
  BY Invariance, PTL DEF IInv

(* record_cdc_event and the reading of _cdc_log.jsonl in open: the events   *)
(* in memory are the newest of the file, at the limit and after a restart.  *)
THEOREM ChangeLogIsTail == Spec => []CdcTail
  BY Invariance, PTL DEF IInv
=============================================================================
