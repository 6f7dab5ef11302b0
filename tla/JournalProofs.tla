--------------------------- MODULE JournalProofs ----------------------------
(***************************************************************************)
(* Proofs about the module Journal.  The first part is about load alone:   *)
(* what appending a record adds to it, that a torn tail adds nothing, and  *)
(* that replaying a journal over a snapshot that already contains it       *)
(* changes nothing.  The second part is the inductive invariant.           *)
(***************************************************************************)
EXTENDS Journal, TLAPS

Entry == Record \cup Torn

\* Every record that was put has a last put, and the scanned epochs have a maximum.
WellFormed(j) ==
  /\ \A k \in Key : Puts(j, k) # {} => \E i \in Puts(j, k) : LastPut(j, k, i)
  /\ Scanned(j) # {} => \E i \in Scanned(j) : \A h \in Scanned(j) : j[h].epoch <= j[i].epoch

-----------------------------------------------------------------------------
(* What load returns *)

\* A scanned index is the index of a whole record.
LEMMA ScannedRecord ==
  ASSUME NEW j \in Seq(Entry), NEW i \in Scanned(j)
  PROVE  i \in 1..Len(j) /\ i \in Int /\ j[i] \in Record
<1>1. i \in 1..Len(j) /\ i \in Int /\ j[i] \in Entry
  BY DEF Scanned
<1>2. i \notin TornAt(j)
  BY <1>1 DEF Scanned
<1>3. ~j[i].torn
  BY <1>1, <1>2 DEF TornAt
<1> QED  BY <1>1, <1>3, Zenon DEF Entry, Torn

\* A record that was put has the value of its last put.
LEMMA LoadPut ==
  ASSUME NEW s, NEW j \in Seq(Entry), NEW k \in Key, NEW i \in Puts(j, k), LastPut(j, k, i)
  PROVE  load(s, j).records[k] = [version |-> j[i].version, live |-> TRUE]
<1> DEFINE c == CHOOSE h \in Puts(j, k) : LastPut(j, k, h)
<1>1. c \in Puts(j, k) /\ LastPut(j, k, c)
  OBVIOUS
<1>2. c \in Int /\ i \in Int
  BY <1>1, ScannedRecord DEF Puts
<1>3. c <= i /\ i <= c
  BY <1>1 DEF LastPut
<1>4. c = i
  BY <1>2, <1>3
<1>5. load(s, j).records[k] = [version |-> j[c].version, live |-> TRUE]
  BY <1>1 DEF load
<1> QED  BY <1>4, <1>5, Zenon

\* A record that was not put has the value of the snapshot.
LEMMA LoadKept ==
  ASSUME NEW s, NEW j, NEW k \in Key, Puts(j, k) = {}
  PROVE  load(s, j).records[k] = s.records[k]
BY DEF load

\* The loaded epoch is the maximum.
LEMMA LoadEpoch ==
  ASSUME NEW s \in Plane, NEW j \in Seq(Entry), NEW e, LastEpoch(s, j, e)
  PROVE  load(s, j).epoch = e
<1> DEFINE E == {s.epoch} \cup {j[i].epoch : i \in Scanned(j)}
           c == CHOOSE h \in E : LastEpoch(s, j, h)
<1>0. s.epoch \in Nat /\ \A i \in Scanned(j) : j[i].epoch \in Nat
  BY ScannedRecord, Zenon DEF Plane, Record
<1>1. E \subseteq Nat
  BY <1>0
<1>2. e \in E
  BY DEF LastEpoch
<1>3. c \in E /\ LastEpoch(s, j, c)
  BY <1>2
<1>4. \A x \in E : x <= e /\ x <= c
  BY <1>3 DEF LastEpoch
<1>5. e <= c /\ c <= e
  BY <1>2, <1>3, <1>4
<1>6. c = e
  BY <1>1, <1>2, <1>3, <1>5
<1>7. load(s, j).epoch = c
  BY DEF load
<1> QED  BY <1>6, <1>7

\* A well-formed journal has a highest epoch over every snapshot.
LEMMA EpochExists ==
  ASSUME NEW s \in Plane, NEW j \in Seq(Entry), WellFormed(j)
  PROVE  \E e \in Nat : LastEpoch(s, j, e)
<1>0. s.epoch \in Nat /\ \A i \in Scanned(j) : j[i].epoch \in Nat
  BY ScannedRecord, Zenon DEF Plane, Record
<1>1. CASE Scanned(j) = {}
  BY <1>0, <1>1 DEF LastEpoch
<1>2. CASE Scanned(j) # {}
  <2>1. PICK i \in Scanned(j) : \A h \in Scanned(j) : j[h].epoch <= j[i].epoch
    BY <1>2 DEF WellFormed
  <2>2. CASE j[i].epoch >= s.epoch
    <3>1. LastEpoch(s, j, j[i].epoch)
      BY <1>0, <2>1, <2>2 DEF LastEpoch
    <3> QED  BY <1>0, <3>1
  <2>3. CASE j[i].epoch < s.epoch
    <3>1. \A h \in Scanned(j) : s.epoch >= j[h].epoch
      BY <1>0, <2>1, <2>3
    <3>2. LastEpoch(s, j, s.epoch)
      BY <1>0, <3>1 DEF LastEpoch
    <3> QED  BY <1>0, <3>2
  <2> QED  BY <1>0, <2>2, <2>3
<1> QED  BY <1>1, <1>2

\* load returns a plane.
LEMMA LoadType ==
  ASSUME NEW s \in Plane, NEW j \in Seq(Entry), WellFormed(j)
  PROVE  load(s, j) \in Plane
<1>1. load(s, j).epoch \in Nat
  BY EpochExists, LoadEpoch
<1>2. ASSUME NEW k \in Key PROVE load(s, j).records[k] \in Value
  <2>1. CASE Puts(j, k) = {}
    BY <2>1, LoadKept DEF Plane
  <2>2. CASE Puts(j, k) # {}
    <3>1. PICK i \in Puts(j, k) : LastPut(j, k, i)
      BY <2>2 DEF WellFormed
    <3>2. j[i].version \in Nat
      BY ScannedRecord, Zenon DEF Puts, Record
    <3>3. load(s, j).records[k] = [version |-> j[i].version, live |-> TRUE]
      BY <3>1, LoadPut
    <3> QED  BY <3>2, <3>3 DEF Value
  <2> QED  BY <2>1, <2>2
<1> DEFINE R == load(s, j).records
<1>3. R = [k \in Key |-> R[k]]
  BY DEF load
<1>4. R \in [Key -> Value]
  <2> HIDE DEF R
  <2>1. \A k \in Key : R[k] \in Value
    BY <1>2 DEF R
  <2> QED  BY <1>3, <2>1
<1>5. load(s, j) = [records |-> R, epoch |-> load(s, j).epoch]
  BY DEF load
<1> HIDE DEF R
<1> QED  BY <1>1, <1>4, <1>5 DEF Plane

-----------------------------------------------------------------------------
(* What an append does to load *)

\* The entries of a journal after an append.
LEMMA Appended ==
  ASSUME NEW j \in Seq(Entry), NEW x \in Entry
  PROVE  /\ Append(j, x) \in Seq(Entry)
         /\ Len(Append(j, x)) = Len(j) + 1
         /\ DOMAIN Append(j, x) = DOMAIN j \cup {Len(j) + 1}
         /\ \A i \in DOMAIN j : Append(j, x)[i] = j[i]
         /\ Append(j, x)[Len(j) + 1] = x
         /\ Len(j) + 1 \notin DOMAIN j
         /\ \A i \in DOMAIN j : i \in Int /\ i < Len(j) + 1
         /\ Len(j) \in Nat
OBVIOUS

\* The torn entries after an append.
LEMMA TornAppended ==
  ASSUME NEW j \in Seq(Entry), NEW x \in Entry
  PROVE  TornAt(Append(j, x)) = TornAt(j) \cup (IF x.torn THEN {Len(j) + 1} ELSE {})
BY Appended DEF TornAt

\* Two planes with the same records and epoch are equal.
LEMMA SamePlane ==
  ASSUME NEW p \in Plane, NEW q \in Plane, p.epoch = q.epoch,
         \A k \in Key : p.records[k] = q.records[k]
  PROVE  p = q
<1>1. p.records = q.records
  BY DEF Plane
<1> QED  BY <1>1 DEF Plane

\* load depends on the scanned entries only.
LEMMA SameScan ==
  ASSUME NEW s \in Plane, NEW j \in Seq(Entry), NEW a \in Seq(Entry), WellFormed(j),
         Scanned(a) = Scanned(j), \A i \in Scanned(j) : a[i] = j[i]
  PROVE  WellFormed(a) /\ load(s, a) = load(s, j)
<1>1. \A k : Puts(a, k) = Puts(j, k)
  BY DEF Puts
<1>2. \A k, i : LastPut(a, k, i) <=> LastPut(j, k, i)
  BY <1>1 DEF LastPut
<1>3. WellFormed(a)
  BY <1>1, <1>2 DEF WellFormed
<1>4. load(s, a).epoch = load(s, j).epoch
  <2>1. PICK e \in Nat : LastEpoch(s, j, e)
    BY EpochExists
  <2>2. {a[i].epoch : i \in Scanned(a)} = {j[i].epoch : i \in Scanned(j)}
    OBVIOUS
  <2>3. LastEpoch(s, a, e)
    BY <2>1, <2>2 DEF LastEpoch
  <2> QED  BY <2>1, <2>3, LoadEpoch
<1>5. ASSUME NEW k \in Key PROVE load(s, a).records[k] = load(s, j).records[k]
  <2>1. CASE Puts(j, k) = {}
    BY <1>1, <2>1, LoadKept
  <2>2. CASE Puts(j, k) # {}
    <3>1. PICK i \in Puts(j, k) : LastPut(j, k, i)
      BY <2>2 DEF WellFormed
    <3>2. i \in Puts(a, k) /\ LastPut(a, k, i) /\ a[i] = j[i]
      BY <1>1, <1>2, <3>1 DEF Puts
    <3>3. load(s, j).records[k] = [version |-> j[i].version, live |-> TRUE]
      BY <3>1, LoadPut
    <3>4. load(s, a).records[k] = [version |-> a[i].version, live |-> TRUE]
      BY <3>2, LoadPut
    <3> QED  BY <3>2, <3>3, <3>4
  <2> QED  BY <2>1, <2>2
<1> QED  BY <1>3, <1>4, <1>5, LoadType, SamePlane

\* An entry that is torn, or follows a torn one, is not scanned: load is unchanged.
LEMMA UnscannedAppend ==
  ASSUME NEW s \in Plane, NEW j \in Seq(Entry), NEW x \in Entry, WellFormed(j),
         x.torn \/ TornAt(j) # {}
  PROVE  WellFormed(Append(j, x)) /\ load(s, Append(j, x)) = load(s, j)
<1> DEFINE a == Append(j, x)
<1>1. TornAt(j) \subseteq DOMAIN j
  BY DEF TornAt
<1>2. \A i \in DOMAIN j : i < Len(j) + 1
  BY Appended
<1>3. Len(j) + 1 \notin Scanned(a)
  <2>1. CASE x.torn
    <3>1. Len(j) + 1 \in TornAt(a) /\ ~(Len(j) + 1 < Len(j) + 1)
      BY <2>1, TornAppended, Appended
    <3> QED  BY <3>1 DEF Scanned
  <2>2. CASE TornAt(j) # {}
    <3>1. PICK h \in TornAt(j) : TRUE
      BY <2>2
    <3>2. h \in TornAt(a) /\ h \in Int /\ h < Len(j) + 1
      BY <1>1, <3>1, TornAppended, Appended
    <3>3. ~(Len(j) + 1 < h) /\ Len(j) \in Nat
      BY <3>2, Appended
    <3> QED  BY <3>2, <3>3 DEF Scanned
  <2> QED  BY <2>1, <2>2
<1>4. Scanned(a) = Scanned(j)
  BY <1>2, <1>3, TornAppended, Appended DEF Scanned
<1>5. \A i \in Scanned(j) : a[i] = j[i]
  BY Appended DEF Scanned
<1> QED  BY <1>4, <1>5, Appended, SameScan, Zenon

\* A whole record appended to a journal without a torn entry is applied by load.
LEMMA RecordAppend ==
  ASSUME NEW s \in Plane, NEW j \in Seq(Entry), NEW x \in Record, WellFormed(j), TornAt(j) = {}
  PROVE  /\ WellFormed(Append(j, x)) /\ TornAt(Append(j, x)) = {}
         /\ load(s, Append(j, x)) = Apply(load(s, j), x)
<1> DEFINE a == Append(j, x)
           n == Len(j) + 1
<1>0. x \in Entry /\ ~x.torn
  BY Zenon DEF Entry, Record
<1>1. TornAt(a) = {}
  BY <1>0, TornAppended
<1>2. Scanned(j) = DOMAIN j /\ Scanned(a) = DOMAIN j \cup {n}
  BY <1>0, <1>1, Appended, Zenon DEF Scanned
<1>3. /\ a \in Seq(Entry) /\ a[n] = x /\ n \notin DOMAIN j /\ n \in Int
      /\ \A i \in DOMAIN j : a[i] = j[i] /\ i \in Int /\ i <= n
  BY <1>0, Appended
<1> HIDE DEF a, n
<1>4. \A k : Puts(a, k) = Puts(j, k) \cup (IF k \in x.keys THEN {n} ELSE {})
  BY <1>2, <1>3 DEF Puts
<1>5. \A k : Puts(j, k) \subseteq DOMAIN j
  BY <1>2 DEF Puts
<1>6. \A k : k \in x.keys => n \in Puts(a, k) /\ LastPut(a, k, n)
  BY <1>3, <1>4, <1>5 DEF LastPut
<1>7. \A k : k \notin x.keys => /\ Puts(a, k) = Puts(j, k)
                                /\ \A i : LastPut(a, k, i) <=> LastPut(j, k, i)
  BY <1>4, Zenon DEF LastPut
<1>8. WellFormed(a)
  <2>1. \A k \in Key : Puts(a, k) # {} => \E i \in Puts(a, k) : LastPut(a, k, i)
    BY <1>6, <1>7 DEF WellFormed
  <2>2. \A i \in DOMAIN j : j[i].epoch \in Nat
    BY <1>2, ScannedRecord, Zenon DEF Record
  <2>3. x.epoch \in Nat
    BY DEF Record
  <2>4. \E i \in Scanned(a) : \A h \in Scanned(a) : a[h].epoch <= a[i].epoch
    <3>1. CASE DOMAIN j = {}
      BY <1>2, <1>3, <2>3, <3>1
    <3>2. CASE DOMAIN j # {}
      <4>1. PICK i \in DOMAIN j : \A h \in DOMAIN j : j[h].epoch <= j[i].epoch
        BY <1>2, <3>2 DEF WellFormed
      <4>2. CASE x.epoch <= j[i].epoch
        BY <1>2, <1>3, <4>1, <4>2, Zenon
      <4>3. CASE x.epoch > j[i].epoch
        <5>1. \A h \in DOMAIN j : a[h].epoch <= a[n].epoch
          BY <1>3, <2>2, <2>3, <4>1, <4>3
        <5> QED  BY <1>2, <1>3, <2>3, <5>1
      <4> QED  BY <2>2, <2>3, <4>2, <4>3
    <3> QED  BY <3>1, <3>2, Zenon
  <2> QED  BY <2>1, <2>4 DEF WellFormed
<1>9. load(s, a).epoch = Apply(load(s, j), x).epoch
  <2>1. PICK e \in Nat : LastEpoch(s, j, e)
    BY EpochExists
  <2>2. load(s, j).epoch = e
    BY <2>1, LoadEpoch
  <2>3. x.epoch \in Nat /\ s.epoch \in Nat /\ \A i \in DOMAIN j : j[i].epoch \in Nat
    BY <1>2, ScannedRecord, Zenon DEF Record, Plane
  <2>4. LastEpoch(s, a, IF x.epoch > e THEN x.epoch ELSE e)
    <3>1. /\ e \in {s.epoch} \cup {j[i].epoch : i \in DOMAIN j}
          /\ e >= s.epoch /\ \A i \in DOMAIN j : e >= j[i].epoch
      BY <1>2, <2>1 DEF LastEpoch
    <3>2. {a[i].epoch : i \in Scanned(a)} = {j[i].epoch : i \in DOMAIN j} \cup {x.epoch}
      BY <1>2, <1>3
    <3>3. CASE x.epoch > e
      <4>1. \A i \in Scanned(a) : x.epoch >= a[i].epoch
        BY <1>2, <1>3, <2>3, <3>1, <3>3
      <4>2. x.epoch >= s.epoch
        BY <2>3, <3>1, <3>3
      <4> QED  BY <3>2, <3>3, <4>1, <4>2 DEF LastEpoch
    <3>4. CASE ~(x.epoch > e)
      <4>1. \A i \in Scanned(a) : e >= a[i].epoch
        BY <1>2, <1>3, <2>3, <3>1, <3>4
      <4> QED  BY <3>1, <3>2, <3>4, <4>1, Zenon DEF LastEpoch
    <3> QED  BY <3>3, <3>4
  <2> QED  BY <1>3, <2>2, <2>4, LoadEpoch DEF Apply
<1>10. ASSUME NEW k \in Key
       PROVE  load(s, a).records[k] = Apply(load(s, j), x).records[k]
  <2>1. CASE k \in x.keys
    <3>1. load(s, a).records[k] = [version |-> a[n].version, live |-> TRUE]
      BY <1>3, <1>6, <2>1, LoadPut
    <3> QED  BY <1>3, <2>1, <3>1 DEF Apply
  <2>2. CASE k \notin x.keys /\ Puts(j, k) = {}
    <3>1. load(s, a).records[k] = s.records[k] /\ load(s, j).records[k] = s.records[k]
      BY <1>7, <2>2, LoadKept
    <3> QED  BY <2>2, <3>1 DEF Apply
  <2>3. CASE k \notin x.keys /\ Puts(j, k) # {}
    <3>1. PICK i \in Puts(j, k) : LastPut(j, k, i)
      BY <2>3 DEF WellFormed
    <3>2. i \in Puts(a, k) /\ LastPut(a, k, i) /\ a[i] = j[i]
      BY <1>3, <1>5, <1>7, <2>3, <3>1
    <3>3. load(s, j).records[k] = [version |-> j[i].version, live |-> TRUE]
      BY <3>1, LoadPut
    <3>4. load(s, a).records[k] = [version |-> a[i].version, live |-> TRUE]
      BY <1>3, <3>2, LoadPut
    <3> QED  BY <2>3, <3>2, <3>3, <3>4 DEF Apply
  <2> QED  BY <2>1, <2>2, <2>3
<1>11. load(s, a) \in Plane /\ load(s, j) \in Plane
  BY <1>3, <1>8, LoadType
<1>12. Apply(load(s, j), x) \in Plane
  <2> DEFINE p == load(s, j)
  <2>1. p \in Plane
    BY <1>11
  <2> HIDE DEF p
  <2>2. Apply(p, x) \in Plane
    BY <2>1 DEF Apply, Plane, Value, Record
  <2> QED  BY <2>2 DEF p
<1>13. load(s, a) = Apply(load(s, j), x)
  BY <1>9, <1>10, <1>11, <1>12, SamePlane
<1> QED  BY <1>1, <1>8, <1>13 DEF a

\* An append, finished or not, keeps the journal well formed; without an earlier torn entry it
\* leaves at most a torn tail, and load returns the old plane or the new one.
LEMMA AnyAppend ==
  ASSUME NEW s \in Plane, NEW j \in Seq(Entry), NEW record \in Record, WellFormed(j),
         NEW x \in {record} \cup Torn
  PROVE  /\ Append(j, x) \in Seq(Entry) /\ WellFormed(Append(j, x))
         /\ \A i \in Scanned(Append(j, x)) : i \in Scanned(j) \/ Append(j, x)[i] = record
         /\ \A i \in Scanned(Append(j, x)) : i \in Scanned(j) => Append(j, x)[i] = j[i]
         /\ TornAt(j) = {} => /\ \A i \in TornAt(Append(j, x)) : i = Len(Append(j, x))
                              /\ load(s, Append(j, x)) \in {load(s, j), Apply(load(s, j), record)}
<1> DEFINE a == Append(j, x)
           n == Len(j) + 1
<1>1. x \in Entry /\ (x.torn \/ x = record)
  BY Zenon DEF Entry, Torn
<1>2. /\ a \in Seq(Entry) /\ DOMAIN a = DOMAIN j \cup {n} /\ a[n] = x /\ Len(a) = n
      /\ n \notin DOMAIN j /\ \A i \in DOMAIN j : a[i] = j[i] /\ i \in Int
  BY <1>1, Appended
<1>3. WellFormed(a)
  BY <1>1, UnscannedAppend, RecordAppend
<1>4. TornAt(j) \subseteq TornAt(a) /\ TornAt(a) \subseteq TornAt(j) \cup {n}
  BY <1>1, TornAppended
<1>5. x.torn => n \in TornAt(a)
  BY <1>1, TornAppended
<1>6. n \in Int
  BY Appended
<1> HIDE DEF a, n
<1>7. \A i \in Scanned(a) : i \in Scanned(j) \/ a[i] = record
  <2> SUFFICES ASSUME NEW i \in Scanned(a) PROVE i \in Scanned(j) \/ a[i] = record
    OBVIOUS
  <2>1. CASE i = n
    <3>1. n \notin TornAt(a)
      BY <1>6, <2>1 DEF Scanned
    <3> QED  BY <1>1, <1>2, <1>5, <2>1, <3>1
  <2>2. CASE i # n
    BY <1>2, <1>4, <2>2 DEF Scanned
  <2> QED  BY <2>1, <2>2
<1>8. \A i \in Scanned(a) : i \in Scanned(j) => a[i] = j[i]
  BY <1>2 DEF Scanned
<1>9. ASSUME TornAt(j) = {}
      PROVE  /\ \A i \in TornAt(a) : i = Len(a)
             /\ load(s, a) \in {load(s, j), Apply(load(s, j), record)}
  <2>1. \A i \in TornAt(a) : i = Len(a)
    BY <1>2, <1>4, <1>9
  <2>2. load(s, a) \in {load(s, j), Apply(load(s, j), record)}
    BY <1>1, <1>9, UnscannedAppend, RecordAppend DEF a
  <2> QED  BY <2>1, <2>2
<1> QED  BY <1>2, <1>3, <1>7, <1>8, <1>9, Zenon DEF a

\* The empty journal adds nothing to the snapshot.
LEMMA LoadEmpty ==
  ASSUME NEW s \in Plane
  PROVE  /\ << >> \in Seq(Entry) /\ WellFormed(<< >>) /\ Scanned(<< >>) = {}
         /\ TornAt(<< >>) = {} /\ load(s, << >>) = s
<1>1. Scanned(<< >>) = {} /\ TornAt(<< >>) = {} /\ << >> \in Seq(Entry)
  BY DEF Scanned, TornAt
<1>2. \A k : Puts(<< >>, k) = {}
  BY <1>1 DEF Puts
<1>3. WellFormed(<< >>)
  BY <1>1, <1>2 DEF WellFormed
<1>4. LastEpoch(s, << >>, s.epoch)
  BY <1>1 DEF LastEpoch, Plane
<1>5. load(s, << >>).epoch = s.epoch
  BY <1>1, <1>4, LoadEpoch, Zenon
<1>6. \A k \in Key : load(s, << >>).records[k] = s.records[k]
  BY <1>2, LoadKept
<1>7. load(s, << >>) \in Plane
  BY <1>1, <1>3, LoadType, Zenon
<1> QED  BY <1>1, <1>3, <1>5, <1>6, <1>7, SamePlane

\* Replaying a journal over a plane that contains it keeps its versions, and no epoch is lost.
LEMMA LoadOver ==
  ASSUME NEW s \in Plane, NEW p \in Plane, NEW j \in Seq(Entry), WellFormed(j),
         \A k \in Key : p.records[k].version = load(s, j).records[k].version
  PROVE  /\ load(p, j) \in Plane /\ load(p, j).epoch >= p.epoch
         /\ \A k \in Key : load(p, j).records[k].version = p.records[k].version
<1>1. load(p, j) \in Plane
  BY LoadType
<1>2. PICK e \in Nat : LastEpoch(p, j, e)
  BY EpochExists
<1>3. load(p, j).epoch >= p.epoch
  BY <1>2, LoadEpoch DEF LastEpoch
<1>4. ASSUME NEW k \in Key PROVE load(p, j).records[k].version = p.records[k].version
  <2>1. CASE Puts(j, k) = {}
    BY <2>1, LoadKept
  <2>2. CASE Puts(j, k) # {}
    <3>1. PICK i \in Puts(j, k) : LastPut(j, k, i)
      BY <2>2 DEF WellFormed
    <3>2. /\ load(p, j).records[k] = [version |-> j[i].version, live |-> TRUE]
          /\ load(s, j).records[k] = [version |-> j[i].version, live |-> TRUE]
      BY <3>1, LoadPut
    <3> QED  BY <3>2
  <2> QED  BY <2>1, <2>2
<1> QED  BY <1>1, <1>3, <1>4

\* Replaying a journal over the plane it produced changes nothing.
LEMMA LoadAgain ==
  ASSUME NEW s \in Plane, NEW j \in Seq(Entry), WellFormed(j)
  PROVE  load(load(s, j), j) = load(s, j)
<1> DEFINE p == load(s, j)
<1>1. p \in Plane
  BY LoadType
<1>2. PICK e \in Nat : LastEpoch(s, j, e)
  BY EpochExists
<1>3. p.epoch = e
  BY <1>2, LoadEpoch
<1>4. ASSUME NEW k \in Key PROVE load(p, j).records[k] = p.records[k]
  <2>1. CASE Puts(j, k) = {}
    BY <2>1, LoadKept
  <2>2. CASE Puts(j, k) # {}
    <3>1. PICK i \in Puts(j, k) : LastPut(j, k, i)
      BY <2>2 DEF WellFormed
    <3>2. /\ load(p, j).records[k] = [version |-> j[i].version, live |-> TRUE]
          /\ load(s, j).records[k] = [version |-> j[i].version, live |-> TRUE]
      BY <3>1, LoadPut
    <3> QED  BY <3>2
  <2> QED  BY <2>1, <2>2
<1> HIDE DEF p
<1>5. LastEpoch(p, j, e)
  BY <1>2, <1>3 DEF LastEpoch
<1>6. load(p, j).epoch = p.epoch
  BY <1>1, <1>3, <1>5, LoadEpoch
<1>7. load(p, j) \in Plane
  BY <1>1, LoadType
<1>8. load(p, j) = p
  BY <1>1, <1>4, <1>6, <1>7, SamePlane
<1> QED  BY <1>8 DEF p

\* A journal whose only torn entry is its last one can be scanned.
LEMMA TailIsNotCorrupt ==
  ASSUME NEW j \in Seq(Entry), \A i \in TornAt(j) : i = Len(j)
  PROVE  ~Corrupt(j)
<1> SUFFICES ASSUME NEW i \in TornAt(j), Len(j) - i > j[i].reach PROVE FALSE
  BY DEF Corrupt
<1>0. i \in DOMAIN j /\ j[i].torn
  BY DEF TornAt
<1>1. i = Len(j) /\ Len(j) \in Nat /\ j[i] \in Torn
  <2>1. j[i] \in Entry /\ Len(j) \in Nat
    BY <1>0
  <2> QED  BY <1>0, <2>1, Zenon DEF Entry, Record
<1>2. j[i].reach \in 0..MaxReach
  BY <1>1, Zenon DEF Torn
<1> QED  BY <1>1, <1>2

-----------------------------------------------------------------------------
(* The inductive invariant *)

\* The records of p were put by mutations up to n.
Older(p, n) == \A k \in Key : p.records[k].version <= n

\* While no failed append has left its mark: only the tail can be torn, nothing is torn while
\* the process serves, and a restart would read the served plane, the plane the running
\* mutation will produce, or the recovered plane with its epoch fenced.
Kept ==
  /\ \A i \in TornAt(journal) : i = Len(journal)
  /\ OnDisk.epoch >= served
  /\ phase \in Serving => TornAt(journal) = {}
  /\ phase \in {"idle", "snapshot", "reset"} => OnDisk = plane
  /\ phase = "appended" => OnDisk = Apply(plane, pending)
  /\ phase \in {"boot_snapshot", "boot_reset"} =>
       plane.epoch > served /\ Versions(plane) = Versions(OnDisk)

\* TypeOK says nothing of the order of puts, which load depends on; WellFormed carries it.
\* Between the two steps of a checkpoint the new snapshot is the plane.
JournalInv ==
  /\ TypeOK /\ WellFormed(journal)
  /\ Older(plane, issued) /\ Older(snapshot, issued) /\ pending.version <= issued
  /\ \A i \in Scanned(journal) : journal[i].version <= issued
  /\ phase \in {"reset", "boot_reset"} => snapshot = plane
  /\ ~tainted => Kept

\* What the invariant says of the types, in the form the lemmas above need.
LEMMA InvTypes ==
  ASSUME JournalInv
  PROVE  /\ plane \in Plane /\ snapshot \in Plane /\ pending \in Record
         /\ journal \in Seq(Entry) /\ WellFormed(journal)
         /\ OnDisk = load(snapshot, journal) /\ OnDisk \in Plane
         /\ issued \in Nat /\ served \in Nat /\ since \in Nat /\ acked \in [Key -> Nat]
         /\ plane.epoch \in Nat
<1>1. /\ plane \in Plane /\ snapshot \in Plane /\ pending \in Record
      /\ journal \in Seq(Entry) /\ WellFormed(journal)
  BY DEF JournalInv, TypeOK, Entry
<1>2. OnDisk \in Plane
  BY <1>1, LoadType DEF OnDisk
<1>3. plane.epoch \in Nat
  BY <1>1 DEF Plane
<1> QED  BY <1>1, <1>2, <1>3 DEF JournalInv, TypeOK, OnDisk

\* The records a mutation appends.
LEMMA NewRecordType ==
  ASSUME JournalInv, NEW record \in NewRecord
  PROVE  record \in Record /\ record.version = issued + 1
<1>1. issued \in Nat /\ plane.epoch \in Nat
  BY InvTypes
<1>2. CASE \E D \in SUBSET Key \ {{}} :
             record = [torn |-> FALSE, keys |-> D, version |-> issued + 1, epoch |-> 0]
  BY <1>1, <1>2 DEF Record
<1>3. CASE \E e \in {plane.epoch + 1} :
             record = [torn |-> FALSE, keys |-> {}, version |-> issued + 1, epoch |-> e]
  BY <1>1, <1>3 DEF Record
<1> QED  BY <1>2, <1>3 DEF NewRecord

\* The empty plane, the result of apply and the recovered plane are planes.
LEMMA PlaneTypes ==
  /\ EmptyPlane \in Plane /\ None \in Record /\ None.version = 0
  /\ \A n \in Nat : Older(EmptyPlane, n)
  /\ \A p \in Plane, x \in Record : Apply(p, x) \in Plane /\ Apply(p, x).epoch >= p.epoch
  /\ \A p \in Plane, x \in Record, n \in Nat :
       Older(p, n) /\ x.version <= n => Older(Apply(p, x), n)
  /\ \A p \in Plane : /\ Recovered(p) \in Plane /\ Recovered(p).epoch = p.epoch + 1
                      /\ Versions(Recovered(p)) = Versions(p)
<1>1. EmptyPlane \in Plane /\ None \in Record /\ None.version = 0
  BY DEF EmptyPlane, Plane, Value, None, Record
<1>2. \A n \in Nat : Older(EmptyPlane, n)
  BY DEF EmptyPlane, Older
<1>3. ASSUME NEW p \in Plane, NEW x \in Record
      PROVE  Apply(p, x) \in Plane /\ Apply(p, x).epoch >= p.epoch
  BY DEF Apply, Plane, Value, Record
<1>4. ASSUME NEW p \in Plane, NEW x \in Record, NEW n \in Nat, Older(p, n), x.version <= n
      PROVE  Older(Apply(p, x), n)
  BY <1>4 DEF Apply, Plane, Value, Record, Older
<1>5. ASSUME NEW p \in Plane
      PROVE  /\ Recovered(p) \in Plane /\ Recovered(p).epoch = p.epoch + 1
             /\ Versions(Recovered(p)) = Versions(p)
  BY DEF Recovered, Plane, Value, Versions
<1> QED  BY <1>1, <1>2, <1>3, <1>4, <1>5

\* What a restart would read was put by mutations up to n when the store was.
LEMMA LoadOlder ==
  ASSUME NEW s \in Plane, NEW j \in Seq(Entry), NEW n \in Nat, WellFormed(j), Older(s, n),
         \A i \in Scanned(j) : j[i].version <= n
  PROVE  Older(load(s, j), n)
<1> SUFFICES ASSUME NEW k \in Key PROVE load(s, j).records[k].version <= n
  BY DEF Older
<1>1. CASE Puts(j, k) = {}
  BY <1>1, LoadKept DEF Older
<1>2. CASE Puts(j, k) # {}
  <2>1. PICK i \in Puts(j, k) : LastPut(j, k, i)
    BY <1>2 DEF WellFormed
  <2>2. load(s, j).records[k] = [version |-> j[i].version, live |-> TRUE]
    BY <2>1, LoadPut
  <2>3. j[i].version <= n
    BY <2>1 DEF Puts
  <2> QED  BY <2>2, <2>3
<1> QED  BY <1>1, <1>2

\* A bound on the versions can be raised.
LEMMA OlderMore ==
  ASSUME NEW p \in Plane, NEW n \in Nat, Older(p, n)
  PROVE  Older(p, n + 1)
BY DEF Older, Plane, Value

-----------------------------------------------------------------------------
(* Every step preserves it *)

\* What an append that did not finish leaves.
LEMMA UnfinishedStep ==
  ASSUME JournalInv, NEW record \in NewRecord, journal' \in Unfinished(record),
         issued' = issued + 1, snapshot' = snapshot, phase = "idle"
  PROVE  /\ journal' \in Seq(Entry) /\ WellFormed(journal') /\ Older(snapshot', issued')
         /\ \A i \in Scanned(journal') : journal'[i].version <= issued'
         /\ ~tainted => /\ \A i \in TornAt(journal') : i = Len(journal')
                        /\ OnDisk' \in {plane, Apply(plane, record)}
                        /\ OnDisk'.epoch >= served
<1> USE InvTypes
<1>1. record \in Record /\ record.version = issued + 1
  BY NewRecordType
<1>2. Older(snapshot', issued')
  BY OlderMore DEF JournalInv
<1>3. \A i \in Scanned(journal) : journal[i].version \in Nat /\ journal[i].version <= issued
  BY ScannedRecord, Zenon DEF JournalInv, Record
<1>4. ~tainted => TornAt(journal) = {} /\ OnDisk = plane /\ OnDisk.epoch >= served
  BY DEF JournalInv, Kept, Serving
<1>5. CASE journal' = journal
  <2>1. OnDisk' = OnDisk
    BY <1>5 DEF OnDisk
  <2> QED  BY <1>2, <1>3, <1>4, <1>5, <2>1
<1>6. CASE \E x \in {record} \cup Torn : journal' = Append(journal, x)
  <2>1. PICK x \in {record} \cup Torn : journal' = Append(journal, x)
    BY <1>6
  <2>2. /\ journal' \in Seq(Entry) /\ WellFormed(journal')
        /\ \A i \in Scanned(journal') : i \in Scanned(journal) \/ journal'[i] = record
        /\ \A i \in Scanned(journal') : i \in Scanned(journal) => journal'[i] = journal[i]
        /\ TornAt(journal) = {} =>
             /\ \A i \in TornAt(journal') : i = Len(journal')
             /\ load(snapshot, journal') \in {OnDisk, Apply(OnDisk, record)}
    <3> DEFINE a == Append(journal, x)
    <3>1. /\ a \in Seq(Entry) /\ WellFormed(a)
          /\ \A i \in Scanned(a) : i \in Scanned(journal) \/ a[i] = record
          /\ \A i \in Scanned(a) : i \in Scanned(journal) => a[i] = journal[i]
          /\ TornAt(journal) = {} =>
               /\ \A i \in TornAt(a) : i = Len(a)
               /\ load(snapshot, a) \in {load(snapshot, journal),
                                         Apply(load(snapshot, journal), record)}
      BY <1>1, AnyAppend, Zenon
    <3> HIDE DEF a
    <3>2. journal' = a
      BY <2>1 DEF a
    <3> QED  BY <3>1, <3>2
  <2>3. \A i \in Scanned(journal') : journal'[i].version <= issued'
    BY <1>1, <1>3, <2>2
  <2>4. Apply(plane, record).epoch >= plane.epoch /\ Apply(plane, record) \in Plane
    BY <1>1, PlaneTypes
  <2>5. ASSUME ~tainted
        PROVE  OnDisk' \in {plane, Apply(plane, record)} /\ OnDisk'.epoch >= served
    <3>1. OnDisk' \in {plane, Apply(plane, record)}
      BY <1>4, <2>2, <2>5 DEF OnDisk
    <3> QED  BY <1>4, <2>4, <2>5, <3>1 DEF Plane
  <2> QED  BY <1>2, <1>4, <2>2, <2>3, <2>5
<1> QED  BY <1>5, <1>6, Zenon DEF Unfinished, Torn

\* A mutation whose record reached the journal.
LEMMA AppendStep ==
  ASSUME JournalInv, NEW record \in NewRecord, append(record)
  PROVE  JournalInv'
<1> USE InvTypes
<1>1. record \in Record /\ record.version = issued + 1
  BY NewRecordType
<1>2. /\ journal' = Append(journal, record) /\ snapshot' = snapshot /\ plane' = plane
      /\ issued' = issued + 1 /\ pending' = record /\ phase' = "appended" /\ phase = "idle"
      /\ tainted' = tainted /\ served' = served
      /\ UNCHANGED <<durable, since, acked>>
  BY DEF append
<1>3. /\ journal' \in Seq(Entry) /\ WellFormed(journal') /\ Older(snapshot', issued')
      /\ \A i \in Scanned(journal') : journal'[i].version <= issued'
  BY <1>2, UnfinishedStep, Zenon DEF Unfinished
<1>4. TypeOK'
  BY <1>1, <1>2, <1>3 DEF JournalInv, TypeOK, Entry, Phase
<1>5. Older(plane', issued') /\ pending'.version <= issued'
  BY <1>1, <1>2, OlderMore DEF JournalInv
<1>6. ASSUME ~tainted PROVE Kept'
  <2>1. TornAt(journal) = {} /\ OnDisk = plane /\ OnDisk.epoch >= served
    BY <1>2, <1>6 DEF JournalInv, Kept, Serving
  <2>2. TornAt(journal') = {} /\ OnDisk' = Apply(plane, record)
    BY <1>1, <1>2, <2>1, RecordAppend DEF OnDisk
  <2>3. Apply(plane, record).epoch >= plane.epoch /\ Apply(plane, record) \in Plane
    BY <1>1, PlaneTypes
  <2>4. OnDisk'.epoch >= served
    BY <2>1, <2>2, <2>3 DEF Plane
  <2> QED  BY <1>2, <2>2, <2>4 DEF Kept
<1> QED  BY <1>2, <1>3, <1>4, <1>5, <1>6, Zenon DEF JournalInv

\* An append that failed in a process that lives on.
LEMMA AppendFailedStep ==
  ASSUME JournalInv, NEW record \in NewRecord, append_failed(record)
  PROVE  JournalInv'
<1> USE InvTypes
<1>1. record \in Record /\ record.version = issued + 1
  BY NewRecordType
<1>2. /\ journal' \in Unfinished(record) /\ snapshot' = snapshot /\ plane' = plane
      /\ issued' = issued + 1 /\ phase = "idle" /\ served' = served
      /\ UNCHANGED <<durable, since, acked>>
      /\ tainted' = (tainted \/ journal' # journal \/ ~durable)
      /\ \/ durable /\ pending' = pending /\ phase' = phase
         \/ ~durable /\ pending' = record /\ phase' = "appended"
  BY DEF append_failed
<1>3. /\ journal' \in Seq(Entry) /\ WellFormed(journal') /\ Older(snapshot', issued')
      /\ \A i \in Scanned(journal') : journal'[i].version <= issued'
  BY <1>2, UnfinishedStep
<1>4. TypeOK'
  <2>1. pending' \in Record /\ phase' \in Phase /\ tainted' \in BOOLEAN
    BY <1>1, <1>2 DEF Phase
  <2> QED  BY <1>2, <1>3, <2>1 DEF JournalInv, TypeOK, Entry
<1>5. Older(plane', issued') /\ pending'.version <= issued'
  <2>1. pending.version \in Nat /\ pending.version <= issued
    BY Zenon DEF JournalInv, Record
  <2> QED  BY <1>1, <1>2, <2>1, OlderMore DEF JournalInv
<1>6. phase' \notin {"reset", "boot_reset"}
  BY <1>2
<1>7. ASSUME ~tainted' PROVE Kept'
  <2>1. ~tainted /\ journal' = journal /\ phase' = "idle" /\ pending' = pending
    BY <1>2, <1>7, Zenon
  <2>2. Kept
    BY <2>1 DEF JournalInv
  <2> QED  BY <1>2, <2>1, <2>2 DEF Kept, OnDisk
<1> QED  BY <1>3, <1>4, <1>5, <1>6, <1>7 DEF JournalInv

\* A process that died inside the append.
LEMMA AppendCrashedStep ==
  ASSUME JournalInv, NEW record \in NewRecord, append_crashed(record)
  PROVE  JournalInv'
<1> USE InvTypes
<1>1. /\ journal' \in Unfinished(record) /\ snapshot' = snapshot /\ plane' = EmptyPlane
      /\ issued' = issued + 1 /\ phase = "idle" /\ phase' = "down" /\ served' = served
      /\ since' = 0 /\ UNCHANGED <<durable, pending, acked, tainted>>
  BY DEF append_crashed
<1>2. /\ journal' \in Seq(Entry) /\ WellFormed(journal') /\ Older(snapshot', issued')
      /\ \A i \in Scanned(journal') : journal'[i].version <= issued'
      /\ ~tainted => (\A i \in TornAt(journal') : i = Len(journal')) /\ OnDisk'.epoch >= served
  BY <1>1, UnfinishedStep
<1>3. TypeOK'
  <2>1. /\ durable' \in BOOLEAN /\ phase' \in Phase /\ tainted' \in BOOLEAN
        /\ pending' \in Record /\ acked' \in [Key -> Nat]
    <3>1. TypeOK
      BY DEF JournalInv
    <3>2. phase' = "down" /\ "down" \in Phase
      BY <1>1 DEF Phase
    <3> QED  BY <1>1, <3>1, <3>2 DEF TypeOK
  <2>2. plane' \in Plane /\ snapshot' \in Plane
    BY <1>1, PlaneTypes
  <2>3. since' \in Nat /\ issued' \in Nat /\ served' \in Nat
    BY <1>1
  <2> QED  BY <1>2, <2>1, <2>2, <2>3 DEF TypeOK, Entry
<1>4. Older(plane', issued') /\ pending'.version <= issued'
  <2>1. pending.version \in Nat /\ pending.version <= issued
    BY Zenon DEF JournalInv, Record
  <2> QED  BY <1>1, <2>1, PlaneTypes
<1>5. ASSUME ~tainted PROVE Kept'
  BY <1>1, <1>2, <1>5 DEF Kept, Serving
<1> QED  BY <1>1, <1>2, <1>3, <1>4, <1>5 DEF JournalInv

\* The mutation becomes visible.
LEMMA ApplyStep ==
  ASSUME JournalInv, apply
  PROVE  JournalInv'
<1> USE InvTypes
<1>1. /\ phase = "appended" /\ plane' = Apply(plane, pending) /\ served' = plane'.epoch
      /\ since' = since + 1 /\ phase' \in {"idle", "snapshot"}
      /\ pending' \in {pending, None} /\ acked' \in {acked, Acknowledged(pending)}
      /\ UNCHANGED <<durable, snapshot, journal, issued, tainted>>
  BY DEF apply
<1>2. plane' \in Plane /\ Older(plane', issued)
  BY <1>1, PlaneTypes DEF JournalInv
<1>3. pending' \in Record /\ pending'.version <= issued
  BY SMTT(60), <1>1, PlaneTypes DEF JournalInv
<1>4. acked' \in [Key -> Nat]
  BY <1>1 DEF Acknowledged, Record
<1>5. TypeOK'
  BY SMTT(60), <1>1, <1>2, <1>3, <1>4 DEF JournalInv, TypeOK, Phase, Plane
<1>6. OnDisk' = OnDisk
  BY <1>1 DEF OnDisk
<1>7. ASSUME ~tainted PROVE Kept'
  <2>1. /\ TornAt(journal) = {} /\ OnDisk = plane'
    BY <1>1, <1>7 DEF JournalInv, Kept, Serving
  <2>2. OnDisk'.epoch >= served'
    BY <1>1, <1>2, <1>6, <2>1 DEF Plane
  <2> QED  BY <1>1, <1>6, <2>1, <2>2 DEF Kept
<1> QED  BY <1>1, <1>2, <1>3, <1>5, <1>7 DEF JournalInv

\* A checkpoint begins.
LEMMA PersistStep ==
  ASSUME JournalInv, persist
  PROVE  JournalInv'
<1>1. /\ phase = "idle" /\ phase' = "snapshot"
      /\ UNCHANGED <<durable, plane, pending, since, snapshot, journal, issued, acked, served,
                     tainted>>
  BY DEF persist
<1>2. OnDisk' = OnDisk
  BY <1>1 DEF OnDisk
<1>3. TypeOK'
  BY <1>1 DEF JournalInv, TypeOK, Phase
<1>4. ASSUME ~tainted PROVE Kept'
  BY <1>1, <1>2, <1>4 DEF JournalInv, Kept, Serving
<1> QED  BY <1>1, <1>3, <1>4 DEF JournalInv

\* The first half of a checkpoint: the old journal is now behind the new snapshot.
LEMMA ReplaceSnapshotStep ==
  ASSUME JournalInv, replace_snapshot
  PROVE  JournalInv'
<1> USE InvTypes
<1>1. /\ phase \in {"snapshot", "boot_snapshot"} /\ snapshot' = plane
      /\ phase' = IF phase = "snapshot" THEN "reset" ELSE "boot_reset"
      /\ UNCHANGED <<durable, plane, pending, since, journal, issued, acked, served, tainted>>
  BY DEF replace_snapshot
<1>2. TypeOK'
  BY <1>1 DEF JournalInv, TypeOK, Phase
<1>3. OnDisk' = load(plane, journal)
  BY <1>1 DEF OnDisk
<1>4. ASSUME ~tainted PROVE Kept'
  <2>1. Kept
    BY <1>4 DEF JournalInv
  <2>2. CASE phase = "snapshot"
    <3>1. OnDisk = plane /\ TornAt(journal) = {} /\ OnDisk.epoch >= served
      BY <2>1, <2>2 DEF Kept, Serving
    <3>2. OnDisk' = plane
      BY <1>3, <3>1, LoadAgain
    <3> QED  BY <1>1, <2>2, <3>1, <3>2 DEF Kept
  <2>3. CASE phase = "boot_snapshot"
    <3>1. plane.epoch > served /\ Versions(plane) = Versions(OnDisk)
      BY <2>1, <2>3 DEF Kept
    <3>2. \A k \in Key : plane.records[k].version = load(snapshot, journal).records[k].version
      <4>1. ASSUME NEW k \in Key PROVE Versions(plane)[k] = Versions(OnDisk)[k]
        BY <3>1
      <4> QED  BY <4>1 DEF Versions
    <3>3. /\ load(plane, journal) \in Plane /\ load(plane, journal).epoch >= plane.epoch
          /\ \A k \in Key : load(plane, journal).records[k].version = plane.records[k].version
      BY <3>2, LoadOver
    <3>4. OnDisk'.epoch >= served
      BY <1>3, <3>1, <3>3 DEF Plane
    <3>5. Versions(plane) = Versions(OnDisk')
      BY <1>3, <3>3 DEF Versions
    <3>6. \A i \in TornAt(journal) : i = Len(journal)
      BY <2>1 DEF Kept
    <3>7. Versions(plane') = Versions(OnDisk')
      BY <1>1, <3>5
    <3> QED  BY <1>1, <2>3, <3>1, <3>4, <3>6, <3>7 DEF Kept, Serving, Versions
  <2> QED  BY <1>1, <2>2, <2>3
<1> QED  BY <1>1, <1>2, <1>4 DEF JournalInv

\* The second half of a checkpoint ends the call or the recovery.
LEMMA ResetJournalStep ==
  ASSUME JournalInv, reset_journal
  PROVE  JournalInv'
<1> USE InvTypes
<1>1. /\ phase \in {"reset", "boot_reset"} /\ journal' = << >> /\ since' = 0
      /\ tainted' = FALSE /\ phase' = "idle" /\ served' = plane.epoch
      /\ acked' = Acknowledged(pending) /\ pending' = None
      /\ UNCHANGED <<durable, plane, snapshot, issued>>
  BY DEF reset_journal
<1>2. snapshot = plane
  BY <1>1 DEF JournalInv
<1>3. /\ << >> \in Seq(Entry) /\ WellFormed(<< >>) /\ Scanned(<< >>) = {}
      /\ TornAt(<< >>) = {} /\ load(snapshot, << >>) = snapshot
  BY LoadEmpty
<1>4. acked' \in [Key -> Nat]
  BY <1>1 DEF Acknowledged, Record
<1>5. TypeOK'
  BY <1>1, <1>3, <1>4, PlaneTypes, Zenon DEF JournalInv, TypeOK, Phase, Entry
<1>6. OnDisk' = plane
  BY <1>1, <1>2, <1>3 DEF OnDisk
<1>7. Kept'
  BY <1>1, <1>3, <1>6 DEF Kept
<1>8. pending'.version <= issued
  BY <1>1, PlaneTypes
<1> QED  BY <1>1, <1>3, <1>5, <1>7, <1>8 DEF JournalInv

\* A checkpoint that failed at either half.
LEMMA CheckpointFailedStep ==
  ASSUME JournalInv, checkpoint_failed
  PROVE  JournalInv'
<1> USE InvTypes
<1>1. UNCHANGED <<durable, since, snapshot, journal, issued, served, tainted>>
  BY DEF checkpoint_failed
<1>2. OnDisk' = OnDisk
  BY <1>1 DEF OnDisk
<1>3. CASE phase \in {"snapshot", "reset"}
  <2>1. /\ phase' = "idle" /\ pending' = None /\ plane' = plane
        /\ acked' \in {acked, Acknowledged(pending)}
    BY <1>3 DEF checkpoint_failed
  <2>2. acked' \in [Key -> Nat]
    BY <2>1 DEF Acknowledged, Record
  <2>3. TypeOK'
    BY <1>1, <2>1, <2>2, PlaneTypes DEF JournalInv, TypeOK, Phase
  <2>4. ASSUME ~tainted PROVE Kept'
    <3>1. Kept
      BY <2>4 DEF JournalInv
    <3>2. TornAt(journal) = {} /\ OnDisk = plane /\ OnDisk.epoch >= served
      BY <1>3, <3>1 DEF Kept, Serving
    <3> QED  BY <1>1, <1>2, <2>1, <3>2 DEF Kept
  <2>5. pending'.version <= issued
    BY <2>1, PlaneTypes
  <2> QED  BY <1>1, <2>1, <2>3, <2>4, <2>5 DEF JournalInv
<1>4. CASE phase \in {"boot_snapshot", "boot_reset"}
  <2>1. phase' = "down" /\ plane' = EmptyPlane /\ UNCHANGED <<pending, acked>>
    BY <1>4 DEF checkpoint_failed
  <2>2. TypeOK'
    BY <1>1, <2>1, PlaneTypes DEF JournalInv, TypeOK, Phase
  <2>3. ASSUME ~tainted PROVE Kept'
    BY <1>1, <1>2, <2>1, <2>3, Zenon DEF JournalInv, Kept, Serving
  <2>4. Older(plane', issued)
    BY <2>1, PlaneTypes
  <2> QED  BY <1>1, <2>1, <2>2, <2>3, <2>4 DEF JournalInv
<1> QED  BY <1>3, <1>4 DEF checkpoint_failed

\* A new process has read the store and recovered the plane.
LEMMA InitializeStep ==
  ASSUME JournalInv, initialize
  PROVE  JournalInv'
<1> USE InvTypes
<1>1. /\ phase = "down" /\ plane' = Recovered(OnDisk) /\ since' = 0 /\ phase' = "boot_snapshot"
      /\ UNCHANGED <<durable, pending, snapshot, journal, issued, acked, served, tainted>>
  BY DEF initialize
<1>2. /\ plane' \in Plane /\ plane'.epoch = OnDisk.epoch + 1
      /\ Versions(plane') = Versions(OnDisk)
  BY <1>1, PlaneTypes
<1>3. TypeOK'
  BY <1>1, <1>2 DEF JournalInv, TypeOK, Phase
<1>4. Older(plane', issued)
  <2>1. Older(OnDisk, issued)
    BY LoadOlder DEF JournalInv
  <2>2. \A k \in Key : plane'.records[k].version = OnDisk.records[k].version
    BY <1>1 DEF Recovered
  <2> QED  BY <2>1, <2>2 DEF Older
<1>5. OnDisk' = OnDisk
  BY <1>1 DEF OnDisk
<1>6. ASSUME ~tainted PROVE Kept'
  <2>1. OnDisk.epoch >= served /\ \A i \in TornAt(journal) : i = Len(journal)
    BY <1>6 DEF JournalInv, Kept
  <2>2. plane'.epoch > served
    BY <1>2, <2>1 DEF Plane
  <2> QED  BY <1>1, <1>2, <1>5, <2>1, <2>2 DEF Kept, Serving, Versions
<1> QED  BY <1>1, <1>3, <1>4, <1>6 DEF JournalInv

\* The process dies, keeping the files.
LEMMA CrashStep ==
  ASSUME JournalInv, crash
  PROVE  JournalInv'
<1> USE InvTypes
<1>1. /\ phase' = "down" /\ plane' = EmptyPlane /\ pending' = None /\ since' = 0
      /\ UNCHANGED <<durable, snapshot, journal, issued, acked, served, tainted>>
  BY DEF crash
<1>2. OnDisk' = OnDisk
  BY <1>1 DEF OnDisk
<1>3. TypeOK'
  BY <1>1, PlaneTypes DEF JournalInv, TypeOK, Phase
<1>4. ASSUME ~tainted PROVE Kept'
  BY <1>1, <1>2, <1>4 DEF JournalInv, Kept, Serving
<1>5. Older(plane', issued) /\ pending'.version <= issued
  BY <1>1, PlaneTypes
<1> QED  BY <1>1, <1>3, <1>4, <1>5 DEF JournalInv

\* The invariant holds initially: the store is empty.
LEMMA InitInv ==
  ASSUME Init
  PROVE  JournalInv
<1>1. /\ phase = "down" /\ plane = EmptyPlane /\ pending = None /\ since = 0
      /\ snapshot = EmptyPlane /\ journal = << >> /\ issued = 0 /\ served = 0
      /\ tainted = FALSE /\ durable \in BOOLEAN /\ acked = [k \in Key |-> 0]
  BY DEF Init
<1>2. /\ << >> \in Seq(Entry) /\ WellFormed(<< >>) /\ Scanned(<< >>) = {}
      /\ TornAt(<< >>) = {} /\ load(snapshot, << >>) = snapshot
  BY <1>1, PlaneTypes, LoadEmpty
<1>3. TypeOK
  BY <1>1, <1>2, PlaneTypes, Zenon DEF TypeOK, Phase, Entry
<1>4. OnDisk.epoch >= served
  BY <1>1, <1>2 DEF OnDisk, EmptyPlane
<1>5. Kept
  BY <1>1, <1>2, <1>4 DEF Kept, Serving
<1>6. Older(EmptyPlane, 0) /\ None.version <= 0
  BY PlaneTypes
<1> QED  BY <1>1, <1>2, <1>3, <1>5, <1>6 DEF JournalInv

\* Nothing changes.
LEMMA StutterInv ==
  ASSUME JournalInv, UNCHANGED vars
  PROVE  JournalInv'
BY DEF JournalInv, vars, TypeOK, Kept, OnDisk, Older, Versions

\* JournalInv is preserved by every step.
LEMMA StepInv ==
  ASSUME JournalInv, [Next]_vars
  PROVE  JournalInv'
BY AppendStep, AppendFailedStep, AppendCrashedStep, ApplyStep, PersistStep, ReplaceSnapshotStep,
   ResetJournalStep, CheckpointFailedStep, InitializeStep, CrashStep, StutterInv DEF Next

\* JournalInv holds in every reachable state.
THEOREM JournalInductive == Spec => []JournalInv
<1>1. Init => JournalInv
  BY InitInv
<1>2. JournalInv /\ [Next]_vars => JournalInv'
  BY StepInv
<1> QED  BY <1>1, <1>2, PTL DEF Spec

-----------------------------------------------------------------------------
(* What follows from it *)

\* A store no failed append has marked can be scanned.
LEMMA KeptIsNotCorrupt ==
  ASSUME NEW j \in Seq(Record \cup Torn), \A i \in TornAt(j) : i = Len(j)
  PROVE  ~Corrupt(j)
BY TailIsNotCorrupt DEF Entry

\* The types of Journal, for every set of records and every bound.
THEOREM JournalTypes == Spec => []TypeOK
<1>1. JournalInv => TypeOK
  BY DEF JournalInv
<1> QED  BY <1>1, JournalInductive, PTL

\* A crash alone never leaves a store that cannot be opened again.
THEOREM CrashedStoresOpen == Spec => []CrashedStoreOpens
<1>1. JournalInv => CrashedStoreOpens
  BY KeptIsNotCorrupt, Zenon DEF JournalInv, Kept, TypeOK, CrashedStoreOpens
<1> QED  BY <1>1, JournalInductive, PTL

\* Between two mutations a restart would read exactly what is served.
THEOREM ServedPlaneIsDurable == Spec => []ServedIsDurable
<1>1. JournalInv => ServedIsDurable
  BY KeptIsNotCorrupt, Zenon DEF JournalInv, Kept, TypeOK, ServedIsDurable
<1> QED  BY <1>1, JournalInductive, PTL

\* A process starts to serve with an epoch above every epoch served before it.
THEOREM EpochsFence == Spec => NewProcessHasNewEpoch
<1>1. JournalInv /\ [Next]_vars
        => [phase = "boot_reset" /\ phase' = "idle" /\ ~tainted => plane.epoch > served]_vars
  BY DEF JournalInv, Kept
<1> QED  BY <1>1, JournalInductive, PTL DEF Spec, NewProcessHasNewEpoch

-----------------------------------------------------------------------------
(* Journal implements AtomicStore *)

\* What the refinement mapping says of a store that no failed append has marked.
LEMMA Mapped ==
  ASSUME JournalInv, ~tainted
  PROVE  /\ Stored = Versions(OnDisk)
         /\ phase \in {"idle", "snapshot", "reset"} => Stored = Versions(plane)
BY KeptIsNotCorrupt DEF JournalInv, Kept, TypeOK, Stored

\* The same of the next state.
LEMMA MappedNext ==
  ASSUME JournalInv', ~tainted'
  PROVE  /\ Stored' = Versions(OnDisk')
         /\ phase' \in {"idle", "snapshot", "reset"} => Stored' = Versions(plane')
<1>1. ~Corrupt(journal')
  BY KeptIsNotCorrupt DEF JournalInv, Kept, TypeOK
<1>2. phase' \in {"idle", "snapshot", "reset"} => OnDisk' = plane'
  BY DEF JournalInv, Kept
<1>3. Stored' = Versions(OnDisk')
  BY <1>1 DEF Stored, Versions
<1> QED  BY <1>2, <1>3

\* A record applied to a plane is one mutation of AtomicStore.
LEMMA ApplyIsOneMutation ==
  ASSUME NEW p \in Plane, NEW n \in Nat, Older(p, n), NEW record \in Record,
         record.version = n + 1
  PROVE  Promise!OneMutation(Versions(p), Versions(Apply(p, record)))
<1> DEFINE D == record.keys
<1>1. D \in SUBSET Key
  BY DEF Record
<1>2. \A k \in Key \ D : Versions(Apply(p, record))[k] = Versions(p)[k]
  BY DEF Versions, Apply
<1>3. \A k \in D : Versions(Apply(p, record))[k] = n + 1
  BY <1>1 DEF Versions, Apply
<1>4. \A k \in D : Versions(p)[k] <= n /\ Versions(p)[k] \in Nat
  BY <1>1 DEF Versions, Older, Plane, Value
<1> HIDE DEF D
<1>5. \A k \in D : Versions(Apply(p, record))[k] > Versions(p)[k]
  BY <1>3, <1>4
<1> QED  BY <1>1, <1>2, <1>3, <1>5 DEF Promise!OneMutation

\* A step that changes nothing the abstract store speaks of.
LEMMA Unseen ==
  ASSUME JournalInv, JournalInv', ~tainted, ~tainted', Stored' = Stored, View' = View, Up' = Up
  PROVE  UNCHANGED Promise!vars
<1>1. tainted' = tainted
  BY DEF JournalInv, TypeOK
<1> QED  BY <1>1 DEF Promise!vars

\* A step after which the store is marked by a failed append, or that removes the mark.
LEMMA MarkedStep ==
  ASSUME JournalInv', [Next]_vars, tainted \/ tainted'
  PROVE  [Promise!Next]_(Promise!vars)
<1>1. CASE tainted'
  BY <1>1 DEF Promise!Next, Promise!Unpromised
<1>2. CASE tainted /\ ~tainted'
  <2>1. reset_journal
    BY <1>2, Zenon DEF Next, append, append_failed, append_crashed, apply, persist, replace_snapshot,
                checkpoint_failed, initialize, crash, vars
  <2>2. phase' = "idle"
    BY <2>1 DEF reset_journal
  <2>3. View' = Stored'
    BY <1>2, <2>2, MappedNext DEF View, Up, Serving, Versions
  <2> QED  BY <1>2, <2>3 DEF Promise!Next, Promise!Unpromised
<1> QED  BY <1>1, <1>2

\* A mutation commits when its record is appended as a whole, and a crash inside the append
\* keeps it whole or not at all.
LEMMA AppendRefines ==
  ASSUME JournalInv, JournalInv', ~tainted, ~tainted', NEW record \in NewRecord,
         append(record) \/ append_failed(record) \/ append_crashed(record)
  PROVE  [Promise!Next]_(Promise!vars)
<1>1. record \in Record /\ record.version = issued + 1
  BY NewRecordType
<1>2. phase = "idle" /\ snapshot' = snapshot /\ Up
  BY DEF append, append_failed, append_crashed, Up, Serving
<1>3. Stored = Versions(plane) /\ View = Stored /\ Stored' = Versions(OnDisk')
  BY <1>2, Mapped, MappedNext DEF View
<1>4. Promise!OneMutation(Stored, Versions(Apply(plane, record)))
  <2>1. plane \in Plane /\ issued \in Nat /\ Older(plane, issued)
    BY InvTypes DEF JournalInv
  <2> QED  BY <1>1, <1>3, <2>1, ApplyIsOneMutation
<1>5. CASE append(record)
  <2>1. plane' = plane /\ phase' = "appended" /\ pending' = record
    BY <1>5 DEF append
  <2>2. OnDisk' = Apply(plane, record)
    BY <2>1, Zenon DEF JournalInv, Kept
  <2>3. Up' /\ View' = View
    BY <1>2, <2>1 DEF View, Up, Serving, Versions
  <2>4. Promise!Commit
    BY <1>2, <1>3, <1>4, <2>2, <2>3 DEF Promise!Commit
  <2> QED  BY <2>4 DEF Promise!Next
<1>6. CASE append_failed(record)
  <2>1. journal' = journal /\ plane' = plane /\ phase' = phase
    BY <1>6, Zenon DEF append_failed
  <2>2. Stored' = Stored /\ View' = View /\ Up' = Up
    BY <1>2, <2>1, Zenon DEF Stored, View, Up, OnDisk, Versions
  <2> QED  BY <2>2, Unseen
<1>7. CASE append_crashed(record)
  <2>1. journal' \in Unfinished(record) /\ issued' = issued + 1 /\ phase' = "down"
    BY <1>7 DEF append_crashed
  <2>2. OnDisk' \in {plane, Apply(plane, record)}
    BY <1>2, <2>1, UnfinishedStep
  <2>3. Up' = FALSE /\ View' = Promise!Nothing
    BY <2>1 DEF View, Up, Serving, Promise!Nothing
  <2>4. Promise!Crash
    BY <1>2, <1>3, <1>4, <2>2, <2>3 DEF Promise!Crash
  <2> QED  BY <2>4 DEF Promise!Next
<1> QED  BY <1>5, <1>6, <1>7

\* A checkpoint is not seen, and the last step of a recovery is the restart.
LEMMA CheckpointRefines ==
  ASSUME JournalInv, JournalInv', ~tainted, ~tainted',
         persist \/ replace_snapshot \/ reset_journal \/ checkpoint_failed
  PROVE  [Promise!Next]_(Promise!vars)
<1>1. /\ Stored = Versions(OnDisk) /\ Stored' = Versions(OnDisk')
      /\ phase \in {"idle", "snapshot", "reset"} => Stored = Versions(plane)
      /\ phase' \in {"idle", "snapshot", "reset"} => Stored' = Versions(plane')
  BY Mapped, MappedNext
<1>2. CASE persist
  <2>1. UNCHANGED <<plane, snapshot, journal>> /\ Up /\ Up' = Up
    BY <1>2 DEF persist, Up, Serving
  <2>2. Stored' = Stored /\ View' = View
    BY <2>1 DEF Stored, View, OnDisk, Versions
  <2> QED  BY <2>1, <2>2, Unseen
<1>3. CASE replace_snapshot /\ phase = "snapshot"
  <2>1. phase' = "reset" /\ plane' = plane /\ Up /\ Up' = Up
    BY <1>3 DEF replace_snapshot, Up, Serving
  <2>2. Stored' = Stored /\ View' = View
    BY <1>1, <1>3, <2>1 DEF View, Versions
  <2> QED  BY <2>1, <2>2, Unseen
<1>4. CASE replace_snapshot /\ phase = "boot_snapshot"
  <2>1. phase' = "boot_reset" /\ plane' = plane /\ Up = FALSE /\ Up' = FALSE
    BY <1>4 DEF replace_snapshot, Up, Serving
  <2>2. Versions(plane) = Versions(OnDisk) /\ Versions(plane') = Versions(OnDisk')
    BY <1>4, <2>1 DEF JournalInv, Kept, Versions
  <2>3. Versions(plane') = Versions(plane)
    BY <2>1
  <2>4. Stored' = Stored /\ View' = View
    BY <1>1, <2>1, <2>2, <2>3 DEF View
  <2> QED  BY <2>1, <2>4, Unseen, Zenon
<1>5. CASE reset_journal
  <2>1. phase' = "idle" /\ plane' = plane /\ Up' /\ phase \in {"reset", "boot_reset"}
    BY <1>5 DEF reset_journal, Up, Serving
  <2>2. Stored' = Versions(plane) /\ View' = Stored'
    BY <1>1, <2>1 DEF View, Versions
  <2>3. CASE phase = "reset"
    <3>1. Stored' = Stored /\ View' = View /\ Up' = Up
      BY <1>1, <2>1, <2>2, <2>3 DEF View, Up, Serving
    <3> QED  BY <3>1, Unseen
  <2>4. CASE phase = "boot_reset"
    <3>1. Versions(plane) = Versions(OnDisk) /\ ~Up
      BY <2>4 DEF JournalInv, Kept, Up, Serving
    <3>2. Stored' = Stored
      BY <1>1, <2>2, <3>1
    <3>3. Promise!Restart
      BY <2>1, <2>2, <3>1, <3>2 DEF Promise!Restart
    <3> QED  BY <3>3 DEF Promise!Next
  <2> QED  BY <2>1, <2>3, <2>4
<1>6. CASE checkpoint_failed
  <2>1. UNCHANGED <<snapshot, journal>>
    BY <1>6 DEF checkpoint_failed
  <2>2. Stored' = Stored
    BY <2>1 DEF Stored, OnDisk, Versions
  <2>3. Up' = Up /\ View' = View
    BY <1>6 DEF checkpoint_failed, Up, Serving, View, Versions
  <2> QED  BY <2>2, <2>3, Unseen
<1> QED  BY <1>2, <1>3, <1>4, <1>5, <1>6 DEF replace_snapshot

\* A mutation is published when it is applied; a crash keeps what is stored.
LEMMA ProcessRefines ==
  ASSUME JournalInv, JournalInv', ~tainted, ~tainted', apply \/ initialize \/ crash
  PROVE  [Promise!Next]_(Promise!vars)
<1>1. UNCHANGED <<snapshot, journal>>
  BY DEF apply, initialize, crash
<1>2. Stored' = Stored
  BY <1>1 DEF Stored, OnDisk, Versions
<1>3. CASE apply
  <2>1. Up /\ Up' /\ phase' \in {"idle", "snapshot"}
    BY <1>3 DEF apply, Up, Serving
  <2>2. View' = Stored'
    BY <2>1, MappedNext DEF View, Versions
  <2>3. Promise!Publish
    BY <1>2, <2>1, <2>2 DEF Promise!Publish, Up, Serving
  <2> QED  BY <2>3 DEF Promise!Next
<1>4. CASE initialize
  <2>1. Up' = Up /\ View' = View
    BY <1>4 DEF initialize, Up, Serving, View
  <2> QED  BY <1>2, <2>1, Unseen
<1>5. CASE crash
  <2>1. Up' = FALSE /\ View' = Promise!Nothing
    BY <1>5 DEF crash, Up, Serving, View, Promise!Nothing
  <2>2. CASE Up
    BY <1>2, <2>1, <2>2 DEF Promise!Next, Promise!Crash
  <2>3. CASE ~Up
    <3>1. View' = View /\ Up' = Up
      BY <2>1, <2>3 DEF View, Up, Promise!Nothing
    <3> QED  BY <1>2, <3>1, Unseen
  <2> QED  BY <2>2, <2>3
<1> QED  BY <1>3, <1>4, <1>5

\* The journal, the snapshot and their recovery together implement a store whose mutations
\* are atomic and durable before they are visible.
THEOREM PromiseIsKept == Spec => KeepsPromise
<1>1. Init => Promise!Init
  <2> SUFFICES ASSUME Init PROVE Promise!Init
    OBVIOUS
  <2>1. JournalInv /\ ~tainted /\ phase = "down" /\ snapshot = EmptyPlane /\ journal = << >>
    BY InitInv, Zenon DEF Init
  <2>2. OnDisk = EmptyPlane
    BY <2>1, PlaneTypes, LoadEmpty DEF OnDisk
  <2>3. Stored = Promise!Nothing
    BY <2>1, <2>2, Mapped DEF Versions, EmptyPlane, Promise!Nothing
  <2>4. Up = FALSE /\ View = Promise!Nothing
    BY <2>1 DEF Up, Serving, View, Promise!Nothing
  <2> QED  BY <2>1, <2>3, <2>4 DEF Promise!Init, JournalInv, TypeOK
<1>2. JournalInv /\ JournalInv' /\ [Next]_vars => [Promise!Next]_(Promise!vars)
  <2> SUFFICES ASSUME JournalInv, JournalInv', [Next]_vars PROVE [Promise!Next]_(Promise!vars)
    OBVIOUS
  <2>1. CASE tainted \/ tainted'
    BY <2>1, MarkedStep
  <2>2. CASE ~tainted /\ ~tainted' /\ Next
    BY <2>2, AppendRefines, CheckpointRefines, ProcessRefines DEF Next
  <2>3. CASE ~tainted /\ ~tainted' /\ UNCHANGED vars
    <3>1. Stored' = Stored /\ View' = View /\ Up' = Up
      BY <2>3 DEF vars, Stored, View, Up, OnDisk, Versions
    <3> QED  BY <2>3, <3>1, Unseen
  <2> QED  BY <2>1, <2>2, <2>3
<1> QED  BY <1>1, <1>2, JournalInductive, PTL DEF Spec, KeepsPromise, Promise!Spec

=============================================================================
