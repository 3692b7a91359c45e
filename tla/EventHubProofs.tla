--------------------------- MODULE EventHubProofs ----------------------------
(***************************************************************************)
(* The hub of any capacity: its ring holds the newest events in order of   *)
(* their ids, none left out from the oldest on, and what it keeps under an *)
(* id, in the ring, in a channel or as the latest of a cached type, is one *)
(* event.                                                                  *)
(***************************************************************************)
EXTENDS EventHub, FiniteSetTheorems, WellFoundedInduction, TLAPS

-----------------------------------------------------------------------------
(* Sequences of events. *)

IdsOf(q) == {q[i].id : i \in DOMAIN q}

Ascends(q) == \A i, j \in DOMAIN q : i < j => q[i].id < q[j].id

LEMMA AscendsNone == Ascends(<< >>) /\ IdsOf(<< >>) = {} /\ Range(<< >>) = {}
BY DEF Ascends, IdsOf, Range

LEMMA AscendsAppend ==
    ASSUME NEW q \in Seq(Events), NEW rec \in Events, Ascends(q),
           \A e \in IdsOf(q) : e < rec.id
    PROVE  /\ Append(q, rec) \in Seq(Events)
           /\ Ascends(Append(q, rec))
           /\ IdsOf(Append(q, rec)) = IdsOf(q) \union {rec.id}
           /\ Range(Append(q, rec)) = Range(q) \union {rec}
<1> DEFINE a == Append(q, rec)
<1>1. /\ a \in Seq(Events) /\ Len(q) \in Nat
      /\ DOMAIN a = 1 .. Len(q) + 1 /\ DOMAIN q = 1 .. Len(q)
      /\ \A i \in DOMAIN q : a[i] = q[i]
      /\ a[Len(q) + 1] = rec
  OBVIOUS
<1> HIDE DEF a
<1>2. \A i \in DOMAIN a : i \in DOMAIN q \/ i = Len(q) + 1
  BY <1>1
<1>3. \A i \in DOMAIN q : q[i].id < rec.id
  BY DEF IdsOf
<1>4. Ascends(a)
  BY <1>1, <1>2, <1>3 DEF Ascends
<1>5. IdsOf(a) = IdsOf(q) \union {rec.id}
  BY <1>1, <1>2 DEF IdsOf
<1>6. Range(a) = Range(q) \union {rec}
  BY <1>1, <1>2 DEF Range
<1>7. QED
  BY <1>1, <1>4, <1>5, <1>6 DEF a

LEMMA AscendsTail ==
    ASSUME NEW q \in Seq(Events), Ascends(q), q # << >>
    PROVE  /\ Tail(q) \in Seq(Events) /\ Head(q) \in Events
           /\ Ascends(Tail(q))
           /\ IdsOf(q) = IdsOf(Tail(q)) \union {Head(q).id}
           /\ \A e \in IdsOf(Tail(q)) : e > Head(q).id
           /\ Range(q) = Range(Tail(q)) \union {Head(q)}
<1> DEFINE a == Tail(q)
<1>1. /\ a \in Seq(Events) /\ Len(q) \in Nat \ {0}
      /\ DOMAIN a = 1 .. Len(q) - 1 /\ DOMAIN q = 1 .. Len(q)
      /\ \A i \in DOMAIN a : a[i] = q[i + 1] /\ i + 1 \in DOMAIN q /\ i + 1 > 1
      /\ Head(q) = q[1] /\ 1 \in DOMAIN q /\ q[1] \in Events
  OBVIOUS
<1> HIDE DEF a
<1>2. \A i \in DOMAIN q : i = 1 \/ (i - 1 \in DOMAIN a /\ q[i] = a[i - 1])
  BY <1>1
<1>3. Ascends(a)
  <2> SUFFICES ASSUME NEW i \in DOMAIN a, NEW j \in DOMAIN a, i < j
               PROVE  a[i].id < a[j].id
    BY DEF Ascends
  <2>1. i + 1 < j + 1 /\ i + 1 \in DOMAIN q /\ j + 1 \in DOMAIN q
    BY <1>1
  <2>2. q[i + 1].id < q[j + 1].id
    BY <2>1 DEF Ascends
  <2>3. QED
    BY <2>2, <1>1
<1>4. IdsOf(q) = IdsOf(a) \union {Head(q).id}
  BY <1>1, <1>2 DEF IdsOf
<1>5. Range(q) = Range(a) \union {Head(q)}
  BY <1>1, <1>2 DEF Range
<1>6. \A e \in IdsOf(a) : e > Head(q).id
  <2> SUFFICES ASSUME NEW i \in DOMAIN a PROVE a[i].id > q[1].id
    BY <1>1 DEF IdsOf
  <2>1. q[1].id < q[i + 1].id
    BY <1>1 DEF Ascends
  <2>2. q[i + 1] \in Events /\ q[1] \in Events
    BY <1>1
  <2>3. QED
    BY <2>1, <2>2, <1>1 DEF Events
<1>7. QED
  BY <1>1, <1>3, <1>4, <1>5, <1>6 DEF a

-----------------------------------------------------------------------------
(* The ring. *)

LEMMA Slots ==
    ASSUME NEW C \in Nat \ {0}, NEW h \in 0 .. C - 1, NEW k \in 0 .. C
    PROVE  (h + k) % C = IF h + k < C THEN h + k ELSE h + k - C
<1>1. CASE h + k < C
  BY <1>1
<1>2. CASE h + k >= C /\ h + k < 2 * C
  BY <1>2
<1>3. QED
  BY <1>1, <1>2

RingTypes ==
    /\ ring \in [0 .. RingCapacity - 1 -> Events \union {NoEvent}]
    /\ ringHead \in 0 .. RingCapacity - 1
    /\ ringCount \in 0 .. RingCapacity

\* Storing an event appends it to what is recorded; a full ring drops the first.
LEMMA Stores ==
    ASSUME RingTypes, NEW rec \in Events, RingStore(rec)
    PROVE  /\ RingTypes'
           /\ \/ /\ ringCount < RingCapacity /\ ringCount' = ringCount + 1
                 /\ \A i \in 1 .. ringCount : Recorded'[i] = Recorded[i]
              \/ /\ ringCount = RingCapacity /\ ringCount' = ringCount
                 /\ \A i \in 1 .. ringCount - 1 : Recorded'[i] = Recorded[i + 1]
           /\ Recorded'[ringCount'] = rec
<1> USE HubAssumption
<1> DEFINE C == RingCapacity
<1>1. CASE ringCount < C
  <2>1. /\ ring' = [ring EXCEPT ![(ringHead + ringCount) % C] = rec]
        /\ ringCount' = ringCount + 1 /\ ringHead' = ringHead
    BY <1>1 DEF RingStore
  <2>2. \A k \in 0 .. C : (ringHead + k) % C = IF ringHead + k < C THEN ringHead + k
                                                              ELSE ringHead + k - C
    BY Slots DEF RingTypes
  <2>3. \A k \in 0 .. ringCount : (ringHead + k) % C \in 0 .. C - 1
    BY <2>2, <1>1 DEF RingTypes
  <2>4. RingTypes'
    BY <2>1, <2>3, <1>1 DEF RingTypes
  <2>5. \A i \in 1 .. ringCount : (ringHead + (i - 1)) % C # (ringHead + ringCount) % C
    BY <2>2, <1>1 DEF RingTypes
  <2>6. \A i \in 1 .. ringCount : ringHead + i - 1 = ringHead + (i - 1)
    BY DEF RingTypes
  <2>7. ASSUME NEW i \in 1 .. ringCount PROVE Recorded'[i] = Recorded[i]
    <3> DEFINE slot == (ringHead + (i - 1)) % C
    <3>1. i - 1 \in 0 .. ringCount /\ i \in 1 .. ringCount + 1
      BY DEF RingTypes
    <3>2. slot \in 0 .. C - 1 /\ slot # (ringHead + ringCount) % C
      BY <3>1, <2>3, <2>5
    <3>3. Recorded[i] = ring[slot] /\ Recorded'[i] = ring'[slot]
      BY <3>1, <2>1, <2>6 DEF Recorded
    <3> HIDE DEF slot
    <3>4. QED
      BY <3>2, <3>3, <2>1 DEF RingTypes
  <2>8. Recorded'[ringCount + 1] = rec
    BY <2>1, <2>3, <1>1 DEF Recorded, RingTypes
  <2>9. QED
    BY <2>1, <2>4, <2>7, <2>8, <1>1
<1>2. CASE ringCount = C
  <2>1. /\ ring' = [ring EXCEPT ![ringHead] = rec]
        /\ ringCount' = ringCount /\ ringHead' = (ringHead + 1) % C
    BY <1>2 DEF RingStore
  <2>2. \A k \in 0 .. C : (ringHead + k) % C = IF ringHead + k < C THEN ringHead + k
                                                              ELSE ringHead + k - C
    BY Slots DEF RingTypes
  <2>3. ringHead' = IF ringHead + 1 < C THEN ringHead + 1 ELSE 0
    BY <2>1, <2>2, <1>2 DEF RingTypes
  <2>4. RingTypes'
    BY <2>1, <2>3, <1>2 DEF RingTypes
  <2>5. \A k \in 0 .. C : (ringHead' + k) % C = IF ringHead' + k < C THEN ringHead' + k
                                                                ELSE ringHead' + k - C
    BY <2>4, Slots DEF RingTypes
  <2>6. ASSUME NEW i \in 1 .. C - 1
        PROVE  /\ (ringHead' + (i - 1)) % C = (ringHead + i) % C
               /\ (ringHead + i) % C \in 0 .. C - 1
               /\ (ringHead + i) % C # ringHead
    <3>1. i \in 0 .. C /\ i - 1 \in 0 .. C /\ ringHead \in 0 .. C - 1
      BY DEF RingTypes
    <3>2. (ringHead + i) % C = IF ringHead + i < C THEN ringHead + i ELSE ringHead + i - C
      BY <3>1, <2>2
    <3>3. (ringHead' + (i - 1)) % C = IF ringHead' + (i - 1) < C THEN ringHead' + (i - 1)
                                                           ELSE ringHead' + (i - 1) - C
      BY <3>1, <2>5
    <3>4. QED
      BY <3>1, <3>2, <3>3, <2>3
  <2>7. (ringHead' + (C - 1)) % C = ringHead
    BY <2>2, <2>3, <2>5, <1>2 DEF RingTypes
  <2>8. \A i \in 1 .. C : ringHead' + i - 1 = ringHead' + (i - 1)
                            /\ ringHead + (i + 1) - 1 = ringHead + i
    BY <2>4 DEF RingTypes
  <2>9. \A i \in 1 .. C - 1 : Recorded'[i] = Recorded[i + 1]
    BY <2>1, <2>6, <2>8, <1>2 DEF Recorded, RingTypes
  <2>10. Recorded'[C] = rec
    BY <2>1, <2>7, <2>8, <1>2 DEF Recorded, RingTypes
  <2>11. QED
    BY <2>1, <2>4, <2>9, <2>10, <1>2
<1>3. QED
  BY <1>1, <1>2 DEF RingTypes

\* What was issued under id e is in the ring unless everything there is newer.
Vouched(e) ==
    /\ e <= nextEventID
    /\ ringCount > 0
    /\ e >= Oldest => e \in IdsOf(Recorded)

RingInOrder ==
    /\ nextEventID \in Nat
    /\ RingTypes
    /\ Ascends(Recorded)
    /\ \A i \in 1 .. ringCount : Recorded[i] \in Events /\ Recorded[i].id <= nextEventID

LEMMA Newest ==
    ASSUME RingInOrder, NEW rec \in Events, rec.id = nextEventID + 1,
           nextEventID' = rec.id, RingStore(rec)
    PROVE  /\ RingInOrder'
           /\ \A i \in 1 .. ringCount' :
                 Recorded'[i] = rec \/ \E j \in 1 .. ringCount : Recorded'[i] = Recorded[j]
           /\ \A e \in Nat : Vouched(e) => Vouched(e)'
           /\ Vouched(rec.id)'
<1> USE HubAssumption
<1>1. RingTypes
  BY DEF RingInOrder
<1>2. /\ RingTypes'
      /\ \/ /\ ringCount < RingCapacity /\ ringCount' = ringCount + 1
            /\ \A i \in 1 .. ringCount : Recorded'[i] = Recorded[i]
         \/ /\ ringCount = RingCapacity /\ ringCount' = ringCount
            /\ \A i \in 1 .. ringCount - 1 : Recorded'[i] = Recorded[i + 1]
      /\ Recorded'[ringCount'] = rec
  BY <1>1, Stores
<1>3. ringCount \in Nat /\ ringCount' \in Nat \ {0} /\ nextEventID \in Nat
  BY <1>1, <1>2 DEF RingTypes, RingInOrder
<1>4. DOMAIN Recorded = 1 .. ringCount /\ DOMAIN Recorded' = 1 .. ringCount'
  BY DEF Recorded
\* Where entry i of the ring comes from.
<1> DEFINE from(i) == IF ringCount < RingCapacity THEN i ELSE i + 1
<1>5. ASSUME NEW i \in 1 .. ringCount', i # ringCount'
      PROVE  from(i) \in 1 .. ringCount /\ Recorded'[i] = Recorded[from(i)]
  BY <1>2, <1>3, <1>5
<1>6. ASSUME NEW i \in 1 .. ringCount'
      PROVE  Recorded'[i] \in Events /\ Recorded'[i].id <= rec.id
               /\ (i # ringCount' => Recorded'[i].id < rec.id)
  <2>1. CASE i = ringCount'
    BY <2>1, <1>2 DEF Events
  <2>2. CASE i # ringCount'
    <3>1. PICK j \in 1 .. ringCount : Recorded'[i] = Recorded[j]
      BY <2>2, <1>5
    <3>2. Recorded[j] \in Events /\ Recorded[j].id <= nextEventID
      BY DEF RingInOrder
    <3>3. QED
      BY <3>1, <3>2, <1>3 DEF Events
  <2>3. QED
    BY <2>1, <2>2
<1>7. Ascends(Recorded)'
  <2> SUFFICES ASSUME NEW i \in 1 .. ringCount', NEW j \in 1 .. ringCount', i < j
               PROVE  Recorded'[i].id < Recorded'[j].id
    BY <1>4 DEF Ascends
  <2>1. i # ringCount'
    BY <1>3
  <2>2. CASE j = ringCount'
    BY <2>1, <2>2, <1>2, <1>6
  <2>3. CASE j # ringCount'
    <3>1. from(i) \in 1 .. ringCount /\ from(j) \in 1 .. ringCount /\ from(i) < from(j)
      BY <2>1, <2>3, <1>5
    <3>2. Recorded[from(i)].id < Recorded[from(j)].id
      BY <3>1, <1>4 DEF RingInOrder, Ascends
    <3>3. QED
      BY <3>2, <2>1, <2>3, <1>5
  <2>4. QED
    BY <2>2, <2>3
<1>8. RingInOrder'
  BY <1>2, <1>3, <1>6, <1>7 DEF RingInOrder, Events
<1>9. \A i \in 1 .. ringCount' :
         Recorded'[i] = rec \/ \E j \in 1 .. ringCount : Recorded'[i] = Recorded[j]
  BY <1>2, <1>5
<1>first. \A h \in 0 .. RingCapacity - 1 : (h + 1 - 1) % RingCapacity = h
  <2>1. \A h \in 0 .. RingCapacity - 1 : (h + 0) % RingCapacity = h
    BY Slots
  <2>2. QED
    BY <2>1
<1>10. ringCount > 0 => Oldest = Recorded[1].id
  <2>1. ringCount > 0 => Recorded[1] = ring[(ringHead + 1 - 1) % RingCapacity]
    BY <1>3 DEF Recorded
  <2>2. ringHead \in 0 .. RingCapacity - 1
    BY <1>1 DEF RingTypes
  <2>3. (ringHead + 1 - 1) % RingCapacity = ringHead
    BY <2>2, <1>first
  <2>4. QED
    BY <2>1, <2>3 DEF Oldest
<1>11. Oldest' = Recorded'[1].id
  <2>1. Recorded'[1] = ring'[(ringHead' + 1 - 1) % RingCapacity]
    BY <1>3 DEF Recorded
  <2>2. ringHead' \in 0 .. RingCapacity - 1
    BY <1>2 DEF RingTypes
  <2>3. (ringHead' + 1 - 1) % RingCapacity = ringHead'
    BY <2>2, <1>first
  <2>4. QED
    BY <2>1, <2>3 DEF Oldest
<1>12. Oldest' = Recorded'[1].id /\ Recorded'[1].id <= rec.id
  BY <1>11, <1>2, <1>3, <1>6
<1>13. rec.id \in IdsOf(Recorded')
  BY <1>2, <1>3, <1>4 DEF IdsOf
<1>14. Vouched(rec.id)'
  BY <1>3, <1>13 DEF Vouched, Events
<1>15. ASSUME NEW e \in Nat, Vouched(e) PROVE Vouched(e)'
  <2>1. e <= nextEventID /\ ringCount > 0 /\ (e >= Oldest => e \in IdsOf(Recorded))
    BY <1>15 DEF Vouched
  <2>2. e <= nextEventID' /\ ringCount' > 0
    BY <2>1, <1>3
  <2>3. ASSUME e >= Oldest' PROVE e \in IdsOf(Recorded')
    <3>1. ringCount' # 1
      <4>1. ringCount' = 1 => Oldest' = rec.id
        BY <1>12, <1>2
      <4>2. QED
        BY <4>1, <2>1, <2>3, <1>3
    <3>2. from(1) \in 1 .. ringCount /\ Recorded'[1] = Recorded[from(1)]
      BY <3>1, <1>3, <1>5
    <3>3. Oldest <= Oldest'
      <4>1. Oldest = Recorded[1].id /\ Oldest' = Recorded[from(1)].id
        BY <2>1, <1>1, <1>10, <1>12, <3>2
      <4>2. Recorded[1] \in Events /\ Recorded[from(1)] \in Events
        BY <3>2, <1>3 DEF RingInOrder
      <4>3. from(1) = 1 \/ 1 < from(1)
        OBVIOUS
      <4>4. 1 < from(1) => Recorded[1].id < Recorded[from(1)].id
        BY <3>2, <1>3, <1>4 DEF RingInOrder, Ascends
      <4>5. QED
        BY <4>1, <4>2, <4>3, <4>4 DEF Events
    <3>4. Oldest \in Nat /\ Oldest' \in Nat
      <4>1. Recorded[1] \in Events /\ Recorded'[1] \in Events
        BY <2>1, <1>3, <1>6 DEF RingInOrder
      <4>2. QED
        BY <4>1, <2>1, <1>1, <1>10, <1>12 DEF Events
    <3>5. PICK k \in 1 .. ringCount : e = Recorded[k].id
      BY <2>1, <2>3, <3>3, <3>4, <1>4 DEF IdsOf
    <3>6. k >= from(1)
      <4>1. k < from(1) => Recorded[k].id < Recorded[from(1)].id
        BY <3>2, <1>4 DEF RingInOrder, Ascends
      <4>2. Recorded[k] \in Events
        BY DEF RingInOrder
      <4>3. QED
        BY <4>1, <4>2, <2>3, <3>2, <3>4, <3>5, <1>12 DEF Events
    <3>7. PICK i \in 1 .. ringCount' : i # ringCount' /\ from(i) = k
      <4>1. CASE ringCount < RingCapacity
        BY <4>1, <1>2, <1>3
      <4>2. CASE ringCount = RingCapacity
        <5>1. from(k - 1) = k /\ k - 1 \in 1 .. ringCount' /\ k - 1 # ringCount'
          BY <4>2, <3>6, <1>2, <1>3
        <5>2. QED
          BY <5>1
      <4>3. QED
        BY <4>1, <4>2, <1>1 DEF RingTypes
    <3>8. Recorded'[i].id = e
      BY <3>5, <3>7, <1>5
    <3>9. QED
      BY <3>8, <1>4 DEF IdsOf
  <2>4. QED
    BY <2>2, <2>3 DEF Vouched
<1>16. QED
  BY <1>8, <1>9, <1>14, <1>15

LEMMA LeastOf ==
    ASSUME NEW N \in SUBSET Nat, N # {}
    PROVE  Min(N) \in N /\ \A y \in N : Min(N) <= y
<1>1. PICK x \in N : \A y \in N : <<y, x>> \notin OpToRel(<, Nat)
  BY WFMin, NatLessThanWellFounded, Zenon
<1>2. \A y \in N : ~(y < x)
  BY <1>1 DEF OpToRel
<1>3. \A y \in N : x <= y
  BY <1>2
<1>4. QED
  BY <1>3 DEF Min

\* What is replayed since a cursor: the recorded events after it, in order.
LEMMA Replays ==
    ASSUME RingInOrder, NEW cursor \in Nat
    PROVE  /\ After(cursor) \in Seq(Events)
           /\ Ascends(After(cursor))
           /\ Range(After(cursor)) \subseteq {Recorded[i] : i \in 1 .. ringCount}
           /\ IdsOf(After(cursor)) = {e \in IdsOf(Recorded) : e > cursor}
<1> DEFINE newer == {i \in 1 .. ringCount : Recorded[i].id > cursor}
           first == Min(newer)
           a     == After(cursor)
<1>1. ringCount \in Nat /\ DOMAIN Recorded = 1 .. ringCount
  BY DEF RingInOrder, RingTypes, Recorded
<1>2. \A i \in 1 .. ringCount : Recorded[i] \in Events
  BY DEF RingInOrder
<1>3. CASE newer = {}
  <2>1. a = << >>
    BY <1>3 DEF After
  <2>2. {e \in IdsOf(Recorded) : e > cursor} = {}
    BY <1>1, <1>3 DEF IdsOf
  <2>3. QED
    BY <2>1, <2>2, AscendsNone
<1>4. CASE newer # {}
  <2>1. first \in newer /\ \A i \in newer : first <= i
    BY <1>1, <1>4, LeastOf
  <2>2. a = SubSeq(Recorded, first, ringCount)
    BY <1>4 DEF After
  <2> HIDE DEF first
  <2>3. first \in 1 .. ringCount
    BY <2>1
  <2>4. Recorded \in Seq(Events) /\ Len(Recorded) = ringCount
    <3>1. Recorded = [i \in 1 .. ringCount |-> Recorded[i]]
      BY DEF Recorded
    <3>2. QED
      BY <1>1, <1>2, <3>1
  <2>5. /\ a \in Seq(Events) /\ DOMAIN a = 1 .. ringCount - first + 1
        /\ \A j \in DOMAIN a : a[j] = Recorded[first + j - 1]
    BY <1>1, <2>2, <2>3, <2>4
  <2> HIDE DEF a
  <2>6. \A j \in DOMAIN a : first + j - 1 \in 1 .. ringCount /\ first + j - 1 >= first
    BY <1>1, <2>3, <2>5
  <2>7. Ascends(a)
    <3> SUFFICES ASSUME NEW i \in DOMAIN a, NEW j \in DOMAIN a, i < j
                 PROVE  a[i].id < a[j].id
      BY DEF Ascends
    <3>1. first + i - 1 < first + j - 1
      BY <1>1, <2>3, <2>5
    <3>2. Recorded[first + i - 1].id < Recorded[first + j - 1].id
      BY <3>1, <2>6, <1>1 DEF RingInOrder, Ascends
    <3>3. QED
      BY <3>2, <2>5
  <2>8. Range(a) \subseteq {Recorded[i] : i \in 1 .. ringCount}
    BY <2>5, <2>6 DEF Range
  <2>9. ASSUME NEW e \in IdsOf(a) PROVE e \in IdsOf(Recorded) /\ e > cursor
    <3>1. PICK j \in DOMAIN a : e = a[j].id
      BY DEF IdsOf
    <3> DEFINE k == first + j - 1
    <3>2. k \in 1 .. ringCount /\ k >= first /\ e = Recorded[k].id
      BY <3>1, <2>5, <2>6
    <3> HIDE DEF k
    <3>3. Recorded[first].id > cursor
      BY <2>1
    <3>4. first < k => Recorded[first].id < Recorded[k].id
      BY <3>2, <2>3, <1>1 DEF RingInOrder, Ascends
    <3>5. Recorded[first].id \in Nat /\ Recorded[k].id \in Nat
      BY <3>2, <2>3, <1>2 DEF Events
    <3>6. Recorded[k].id > cursor
      BY <3>2, <3>3, <3>4, <3>5, <2>3
    <3>7. QED
      BY <3>2, <3>6, <1>1 DEF IdsOf
  <2>10. ASSUME NEW e \in IdsOf(Recorded), e > cursor PROVE e \in IdsOf(a)
    <3>1. PICK i \in 1 .. ringCount : e = Recorded[i].id
      BY <1>1 DEF IdsOf
    <3>2. i \in newer
      BY <3>1, <2>10
    <3>3. first <= i
      BY <3>2, <2>1
    <3> DEFINE j == i - first + 1
    <3>4. j \in DOMAIN a /\ first + j - 1 = i
      BY <3>3, <2>3, <2>5, <1>1
    <3>5. a[j] = Recorded[i]
      BY <3>4, <2>5
    <3>6. QED
      BY <3>1, <3>4, <3>5 DEF IdsOf
  <2>11. QED
    BY <2>5, <2>7, <2>8, <2>9, <2>10 DEF a
<1>5. QED
  BY <1>3, <1>4

-----------------------------------------------------------------------------
(* The hub. *)

\* An event that was issued, and not under the id of another cached one.
Genuine(rec) ==
    /\ rec \in Events
    /\ rec.id <= nextEventID
    /\ \A t \in CachedTypes : rec.id = cached[t].id => rec.type = t

RingGenuine == \A i \in 1 .. ringCount : Genuine(Recorded[i])

CachedGenuine ==
    \A t \in CachedTypes :
        cached[t] = NoEvent \/ (Genuine(cached[t]) /\ Vouched(cached[t].id))

ChannelsInOrder ==
    \A s \in Streams :
        /\ Ascends(chan[s].buf)
        /\ \A rec \in Range(chan[s].buf) : Genuine(rec)

HubInv == HubTypeOK /\ RingInOrder /\ RingGenuine /\ CachedGenuine /\ ChannelsInOrder

LEMMA EmptyChannels ==
    /\ [s \in Streams |-> [buf |-> << >>, closed |-> TRUE]]
            \in [Streams -> [buf : Seq(Events), closed : BOOLEAN]]
    /\ \A s \in Streams : [x \in Streams |-> [buf |-> << >>, closed |-> TRUE]][s].buf = << >>
<1>1. ASSUME NEW end \in BOOLEAN
      PROVE  [buf |-> << >>, closed |-> end] \in [buf : Seq(Events), closed : BOOLEAN]
  OBVIOUS
<1>2. [buf |-> << >>, closed |-> TRUE] \in [buf : Seq(Events), closed : BOOLEAN]
  BY <1>1
<1>3. QED
  BY <1>2

LEMMA HubStarts == HubInit => HubInv
<1> SUFFICES ASSUME HubInit PROVE HubInv
  OBVIOUS
<1> USE HubAssumption
<1>1. RingTypes /\ nextEventID \in Nat
  BY DEF HubInit, RingTypes
<1>2. \A s \in Streams : chan[s].buf = << >>
  BY DEF HubInit
<1>3. HubTypeOK
  <2>1. chan \in [Streams -> [buf : Seq(Events), closed : BOOLEAN]]
    BY EmptyChannels DEF HubInit
  <2>2. \A s \in Streams : Len(chan[s].buf) <= ChanCapacity
    BY <1>2
  <2>3. QED
    BY <1>1, <2>1, <2>2 DEF HubTypeOK, HubInit, RingTypes
<1>4. ringCount = 0 /\ 1 .. ringCount = {} /\ DOMAIN Recorded = {}
  BY DEF HubInit, Recorded
<1>5. RingInOrder
  BY <1>1, <1>4 DEF RingInOrder, Ascends
<1>6. QED
  BY <1>2, <1>3, <1>4, <1>5, AscendsNone
     DEF HubInv, RingGenuine, CachedGenuine, ChannelsInOrder, HubInit

LEMMA HubRestarts == NewLifetime => HubInv'
<1> SUFFICES ASSUME NewLifetime PROVE HubInv'
  OBVIOUS
<1> USE HubAssumption
<1>1. RingTypes' /\ nextEventID' \in Nat
  BY DEF NewLifetime, RingTypes
<1>2. \A s \in Streams : chan'[s].buf = << >>
  BY DEF NewLifetime
<1>3. HubTypeOK'
  <2>1. chan' \in [Streams -> [buf : Seq(Events), closed : BOOLEAN]]
    BY EmptyChannels DEF NewLifetime
  <2>2. \A s \in Streams : Len(chan'[s].buf) <= ChanCapacity
    BY <1>2
  <2>3. QED
    BY <1>1, <2>1, <2>2 DEF HubTypeOK, NewLifetime, RingTypes
<1>4. ringCount' = 0 /\ 1 .. ringCount' = {} /\ DOMAIN Recorded' = {}
  BY DEF NewLifetime, Recorded
<1>5. RingInOrder'
  BY <1>1, <1>4 DEF RingInOrder, Ascends
<1>6. QED
  BY <1>2, <1>3, <1>4, <1>5, AscendsNone
     DEF HubInv, RingGenuine, CachedGenuine, ChannelsInOrder, NewLifetime

\* Everything but the channels as it was.
HubKept == UNCHANGED << ring, ringHead, ringCount, cached >> /\ nextEventID' \in Nat
              /\ nextEventID' >= nextEventID

\* What the hub vouches for outlives any step that leaves its history alone.
LEMMA HistoryKept ==
    ASSUME HubInv, HubKept
    PROVE  /\ RingInOrder' /\ RingGenuine' /\ CachedGenuine'
           /\ \A rec : Genuine(rec) => Genuine(rec)'
           /\ \A e \in Nat : Vouched(e) => Vouched(e)'
<1>1. /\ ring' = ring /\ ringHead' = ringHead /\ ringCount' = ringCount /\ cached' = cached
      /\ nextEventID' \in Nat /\ nextEventID' >= nextEventID /\ nextEventID \in Nat
      /\ ringCount \in Nat
  BY DEF HubKept, HubInv, HubTypeOK
<1>2. Recorded' = Recorded /\ Oldest' = Oldest
  BY <1>1 DEF Recorded, Oldest
<1>3. ASSUME NEW rec, Genuine(rec) PROVE Genuine(rec)'
  BY <1>1, <1>3 DEF Genuine, Events
<1>4. ASSUME NEW e \in Nat, Vouched(e) PROVE Vouched(e)'
  BY <1>1, <1>2, <1>4 DEF Vouched
<1>5. RingInOrder'
  <2>1. RingTypes' /\ Ascends(Recorded)'
    BY <1>1, <1>2 DEF HubInv, RingInOrder, RingTypes
  <2>2. ASSUME NEW i \in 1 .. ringCount'
        PROVE  Recorded'[i] \in Events /\ Recorded'[i].id <= nextEventID'
    <3>1. Recorded[i] \in Events /\ Recorded[i].id <= nextEventID
      BY <1>1 DEF HubInv, RingInOrder
    <3>2. QED
      BY <3>1, <1>1, <1>2 DEF Events
  <2>3. QED
    BY <1>1, <2>1, <2>2 DEF RingInOrder
<1>6. RingGenuine'
  BY <1>1, <1>2, <1>3 DEF HubInv, RingGenuine
<1>7. CachedGenuine'
  <2> SUFFICES ASSUME NEW t \in CachedTypes
               PROVE  cached'[t] = NoEvent \/ (Genuine(cached[t])' /\ Vouched(cached[t].id)')
    BY <1>1 DEF CachedGenuine
  <2>1. CASE cached[t] = NoEvent
    BY <2>1, <1>1
  <2>2. CASE cached[t] # NoEvent
    <3>1. Genuine(cached[t]) /\ Vouched(cached[t].id)
      BY <2>2 DEF HubInv, CachedGenuine
    <3>2. cached[t].id \in Nat
      BY <3>1 DEF Genuine, Events
    <3>3. \A c : c = cached[t] => Genuine(c)'
      BY <3>1, <1>3
    <3>4. QED
      BY <3>1, <3>2, <3>3, <1>1, <1>4
  <2>3. QED
    BY <2>1, <2>2
<1>8. QED
  BY <1>3, <1>4, <1>5, <1>6, <1>7

-----------------------------------------------------------------------------
(* Its operations. *)

LEMMA BroadcastKeeps ==
    ASSUME HubInv, NEW type \in EventTypes, Broadcast(type),
           NEW rec, rec = [id |-> nextEventID + 1, type |-> type]
    PROVE  /\ HubInv'
           /\ nextEventID' = rec.id
           /\ \A t \in CachedTypes : cached'[t] = IF t = type THEN rec ELSE cached[t]
           /\ \A r : Genuine(r) => Genuine(r)'
           /\ \A e \in Nat : Vouched(e) => Vouched(e)'
           /\ Vouched(rec.id)'
           /\ subscribers' \subseteq subscribers
           /\ \A s \in Streams :
                 /\ s \in subscribers' =>
                       IdsOf(chan'[s].buf) = IdsOf(chan[s].buf) \union {rec.id}
                 /\ s \notin subscribers' => chan'[s].buf = chan[s].buf
<1> USE HubAssumption
<1>1. /\ nextEventID \in Nat /\ RingTypes
      /\ cached \in [CachedTypes -> Events \union {NoEvent}]
      /\ subscribers \subseteq Streams
      /\ chan \in [Streams -> [buf : Seq(Events), closed : BOOLEAN]]
      /\ \A s \in Streams : Len(chan[s].buf) <= ChanCapacity
      /\ done \in BOOLEAN /\ closed \in BOOLEAN
  BY DEF HubInv, HubTypeOK, RingTypes
<1>2. rec \in Events /\ rec.id = nextEventID + 1 /\ rec.type = type
  BY <1>1 DEF Events
<1>3. /\ nextEventID' = rec.id
      /\ cached' = [t \in CachedTypes |-> IF t = type THEN rec ELSE cached[t]]
      /\ RingStore(rec)
      /\ subscribers' = {s \in subscribers : ~Slow(s)}
      /\ chan' = [s \in Streams |->
                    IF s \notin subscribers THEN chan[s]
                    ELSE IF Slow(s) THEN [chan[s] EXCEPT !.closed = TRUE]
                    ELSE [chan[s] EXCEPT !.buf = Append(@, rec)]]
      /\ done' = done /\ closed' = closed
  BY DEF Broadcast
<1>4. /\ RingInOrder'
      /\ \A i \in 1 .. ringCount' :
            Recorded'[i] = rec \/ \E j \in 1 .. ringCount : Recorded'[i] = Recorded[j]
      /\ \A e \in Nat : Vouched(e) => Vouched(e)'
      /\ Vouched(rec.id)'
  BY <1>2, <1>3, Newest DEF HubInv
<1>5. ASSUME NEW r, Genuine(r) PROVE Genuine(r)'
  <2>1. r \in Events /\ r.id <= nextEventID
    BY <1>5 DEF Genuine
  <2>2. ASSUME NEW t \in CachedTypes, r.id = cached'[t].id PROVE r.type = t
    <3>1. CASE t = type
      BY <3>1, <1>1, <1>2, <1>3, <2>1, <2>2 DEF Events
    <3>2. CASE t # type
      BY <3>2, <1>3, <1>5, <2>2 DEF Genuine
    <3>3. QED
      BY <3>1, <3>2
  <2>3. QED
    BY <2>1, <2>2, <1>1, <1>2, <1>3 DEF Genuine, Events
<1>6. Genuine(rec)'
  <2>1. ASSUME NEW t \in CachedTypes, rec.id = cached'[t].id PROVE rec.type = t
    <3>1. CASE t = type
      BY <3>1, <1>2
    <3>2. CASE t # type
      <4>1. cached'[t] = cached[t] /\ (cached[t] = NoEvent \/ cached[t].id <= nextEventID)
        BY <3>2, <1>3 DEF HubInv, CachedGenuine, Genuine
      <4>2. cached[t].id # rec.id
        BY <4>1, <1>1, <1>2 DEF NoEvent, Events
      <4>3. QED
        BY <4>1, <4>2, <2>1
    <3>3. QED
      BY <3>1, <3>2
  <2>2. QED
    BY <2>1, <1>1, <1>2, <1>3 DEF Genuine
<1>7. RingGenuine'
  BY <1>4, <1>5, <1>6 DEF RingGenuine, HubInv
<1>8. CachedGenuine'
  <2> SUFFICES ASSUME NEW t \in CachedTypes
               PROVE  cached'[t] = NoEvent \/ (Genuine(cached[t])' /\ Vouched(cached[t].id)')
    BY DEF CachedGenuine
  <2>1. CASE t = type
    BY <2>1, <1>3, <1>4, <1>6
  <2>2. CASE t # type
    <3>1. cached'[t] = cached[t]
      BY <2>2, <1>3
    <3>2. CASE cached[t] = NoEvent
      BY <3>1, <3>2
    <3>3. CASE cached[t] # NoEvent
      <4>1. Genuine(cached[t]) /\ Vouched(cached[t].id)
        BY <3>3 DEF HubInv, CachedGenuine
      <4>2. cached[t].id \in Nat
        BY <4>1 DEF Genuine, Events
      <4>3. \A c : c = cached[t] => Genuine(c)'
        BY <4>1, <1>5
      <4>4. QED
        BY <4>1, <4>2, <4>3, <3>1, <1>4
    <3>4. QED
      BY <3>2, <3>3
  <2>3. QED
    BY <2>1, <2>2
<1>9. ASSUME NEW s \in Streams
      PROVE  /\ chan'[s] \in [buf : Seq(Events), closed : BOOLEAN]
             /\ Len(chan'[s].buf) <= ChanCapacity
             /\ Ascends(chan'[s].buf)
             /\ \A r \in Range(chan'[s].buf) : Genuine(r)'
             /\ s \in subscribers' =>
                   IdsOf(chan'[s].buf) = IdsOf(chan[s].buf) \union {rec.id}
             /\ s \notin subscribers' => chan'[s].buf = chan[s].buf
  <2>1. /\ chan[s] \in [buf : Seq(Events), closed : BOOLEAN]
        /\ Len(chan[s].buf) <= ChanCapacity
        /\ Ascends(chan[s].buf) /\ \A r \in Range(chan[s].buf) : Genuine(r)
    BY <1>1 DEF HubInv, ChannelsInOrder
  <2>2. CASE s \in subscribers /\ ~Slow(s)
    <3>1. chan'[s] = [chan[s] EXCEPT !.buf = Append(@, rec)] /\ s \in subscribers'
      BY <2>2, <1>3
    <3>2. chan'[s].buf = Append(chan[s].buf, rec) /\ chan[s].buf \in Seq(Events)
      BY <3>1, <2>1
    <3>3. Len(chan[s].buf) \in Nat /\ Len(chan[s].buf) < ChanCapacity
      BY <2>1, <2>2, <3>2 DEF Slow
    <3>4. Len(chan'[s].buf) <= ChanCapacity
      BY <3>2, <3>3
    <3>5. \A e \in IdsOf(chan[s].buf) : e < rec.id
      <4> SUFFICES ASSUME NEW i \in DOMAIN chan[s].buf PROVE chan[s].buf[i].id < rec.id
        BY DEF IdsOf
      <4>1. Genuine(chan[s].buf[i])
        BY <2>1 DEF Range
      <4>2. QED
        BY <4>1, <1>1, <1>2 DEF Genuine, Events
    <3>6. /\ Append(chan[s].buf, rec) \in Seq(Events)
          /\ Ascends(Append(chan[s].buf, rec))
          /\ IdsOf(Append(chan[s].buf, rec)) = IdsOf(chan[s].buf) \union {rec.id}
          /\ Range(Append(chan[s].buf, rec)) = Range(chan[s].buf) \union {rec}
      BY <1>2, <2>1, <3>2, <3>5, AscendsAppend
    <3>7. chan'[s] \in [buf : Seq(Events), closed : BOOLEAN]
      BY <3>1, <3>6, <2>1
    <3>8. QED
      BY <3>1, <3>2, <3>4, <3>6, <3>7, <2>1, <1>5, <1>6
  <2>3. CASE ~(s \in subscribers /\ ~Slow(s))
    <3>1. chan'[s] = chan[s] \/ chan'[s] = [chan[s] EXCEPT !.closed = TRUE]
      BY <2>3, <1>3
    <3>2. chan'[s].buf = chan[s].buf /\ s \notin subscribers'
      BY <2>3, <3>1, <2>1, <1>3
    <3>3. chan'[s] \in [buf : Seq(Events), closed : BOOLEAN]
      BY <3>1, <2>1
    <3>4. QED
      BY <3>2, <3>3, <2>1, <1>5
  <2>4. QED
    BY <2>2, <2>3
<1>10. HubTypeOK'
  <2>1. nextEventID' \in Nat /\ RingTypes'
    BY <1>4 DEF RingInOrder
  <2>2. cached' \in [CachedTypes -> Events \union {NoEvent}]
    BY <1>1, <1>2, <1>3
  <2>3. subscribers' \subseteq Streams /\ done' \in BOOLEAN /\ closed' \in BOOLEAN
    BY <1>1, <1>3
  <2>4. chan' \in [Streams -> [buf : Seq(Events), closed : BOOLEAN]]
    BY <1>3, <1>9
  <2>5. QED
    BY <2>1, <2>2, <2>3, <2>4, <1>9 DEF HubTypeOK, RingTypes
<1>11. ChannelsInOrder'
  BY <1>9 DEF ChannelsInOrder
<1>12. QED
  BY <1>2, <1>3, <1>4, <1>5, <1>7, <1>8, <1>9, <1>10, <1>11 DEF HubInv

\* The hub after a step that changes at most its channels and its subscribers,
\* each channel to one in order.
LEMMA ChannelsKept ==
    ASSUME HubInv, HubKept, subscribers' \subseteq Streams,
           done' \in BOOLEAN, closed' \in BOOLEAN,
           chan' \in [Streams -> [buf : Seq(Events), closed : BOOLEAN]],
           NEW s \in Streams,
           \A x \in Streams \ {s} : chan'[x].buf = chan[x].buf,
           Len(chan'[s].buf) <= ChanCapacity, Ascends(chan'[s].buf),
           \A r \in Range(chan'[s].buf) : Genuine(r)
    PROVE  HubInv'
<1>1. /\ RingInOrder' /\ RingGenuine' /\ CachedGenuine'
      /\ \A r : Genuine(r) => Genuine(r)'
  BY HistoryKept
<1>2. HubTypeOK'
  <2>1. \A x \in Streams : Len(chan'[x].buf) <= ChanCapacity
    BY DEF HubInv, HubTypeOK
  <2>2. RingTypes' /\ nextEventID' \in Nat
    BY <1>1 DEF RingInOrder
  <2>3. cached' \in [CachedTypes -> Events \union {NoEvent}]
    BY DEF HubKept, HubInv, HubTypeOK
  <2>4. QED
    BY <2>1, <2>2, <2>3 DEF HubTypeOK, RingTypes
<1>3. ChannelsInOrder'
  <2> SUFFICES ASSUME NEW x \in Streams
               PROVE  Ascends(chan'[x].buf) /\ \A r \in Range(chan'[x].buf) : Genuine(r)'
    BY DEF ChannelsInOrder
  <2>1. Ascends(chan'[x].buf) /\ \A r \in Range(chan'[x].buf) : Genuine(r)
    BY DEF HubInv, ChannelsInOrder
  <2>2. QED
    BY <2>1, <1>1
<1>4. QED
  BY <1>1, <1>2, <1>3 DEF HubInv

\* Only the channels' ends, the subscribers and the counter change.
LEMMA BuffersKept ==
    ASSUME HubInv, HubKept, subscribers' \subseteq Streams,
           done' \in BOOLEAN, closed' \in BOOLEAN,
           chan' \in [Streams -> [buf : Seq(Events), closed : BOOLEAN]],
           \A x \in Streams : chan'[x].buf = chan[x].buf
    PROVE  HubInv'
<1>1. /\ RingInOrder' /\ RingGenuine' /\ CachedGenuine'
      /\ \A r : Genuine(r) => Genuine(r)'
  BY HistoryKept
<1>2. HubTypeOK'
  <2>1. \A x \in Streams : Len(chan'[x].buf) <= ChanCapacity
    BY DEF HubInv, HubTypeOK
  <2>2. RingTypes' /\ nextEventID' \in Nat
    BY <1>1 DEF RingInOrder
  <2>3. cached' \in [CachedTypes -> Events \union {NoEvent}]
    BY DEF HubKept, HubInv, HubTypeOK
  <2>4. QED
    BY <2>1, <2>2, <2>3 DEF HubTypeOK, RingTypes
<1>3. ChannelsInOrder'
  BY <1>1 DEF HubInv, ChannelsInOrder
<1>4. QED
  BY <1>1, <1>2, <1>3 DEF HubInv

LEMMA UnsubscribeKeeps ==
    ASSUME HubInv, HubKept, done' \in BOOLEAN, closed' \in BOOLEAN,
           NEW S \in SUBSET Streams, Unsubscribe(S)
    PROVE  HubInv' /\ \A x \in Streams : chan'[x].buf = chan[x].buf
<1>1. /\ chan \in [Streams -> [buf : Seq(Events), closed : BOOLEAN]]
      /\ subscribers' \subseteq Streams
  BY DEF HubInv, HubTypeOK, Unsubscribe
<1>2. ASSUME NEW x \in Streams
      PROVE  chan'[x] \in [buf : Seq(Events), closed : BOOLEAN] /\ chan'[x].buf = chan[x].buf
  <2>1. chan'[x] = chan[x] \/ chan'[x] = [chan[x] EXCEPT !.closed = TRUE]
    BY DEF Unsubscribe
  <2>2. chan[x] \in [buf : Seq(Events), closed : BOOLEAN]
    BY <1>1
  <2>3. QED
    BY <2>1, <2>2
<1>3. chan' \in [Streams -> [buf : Seq(Events), closed : BOOLEAN]]
  BY <1>2 DEF Unsubscribe
<1>4. QED
  BY <1>1, <1>2, <1>3, BuffersKept

LEMMA ReceiveKeeps ==
    ASSUME HubInv, NEW s \in Streams, chan[s].buf # << >>, Receive(s),
           UNCHANGED << nextEventID, ring, ringHead, ringCount, cached, subscribers, done,
                        closed >>
    PROVE  /\ HubInv'
           /\ chan'[s].buf = Tail(chan[s].buf)
           /\ \A x \in Streams \ {s} : chan'[x].buf = chan[x].buf
<1>1. /\ chan \in [Streams -> [buf : Seq(Events), closed : BOOLEAN]]
      /\ chan' = [chan EXCEPT ![s].buf = Tail(@)]
      /\ subscribers' \subseteq Streams /\ done' \in BOOLEAN /\ closed' \in BOOLEAN
  BY DEF HubInv, HubTypeOK, Receive
<1>2. HubKept
  BY DEF HubInv, HubTypeOK, HubKept
<1>3. chan[s].buf \in Seq(Events) /\ Ascends(chan[s].buf) /\ Len(chan[s].buf) <= ChanCapacity
      /\ \A r \in Range(chan[s].buf) : Genuine(r)
  BY <1>1 DEF HubInv, HubTypeOK, ChannelsInOrder
<1>4. /\ Tail(chan[s].buf) \in Seq(Events) /\ Ascends(Tail(chan[s].buf))
      /\ \A r \in Range(Tail(chan[s].buf)) : Genuine(r)
  BY <1>3, AscendsTail
<1>5. Len(Tail(chan[s].buf)) <= ChanCapacity
  BY <1>3, HubAssumption
<1>6. chan' \in [Streams -> [buf : Seq(Events), closed : BOOLEAN]]
  BY <1>1, <1>4
<1>7. chan'[s].buf = Tail(chan[s].buf) /\ \A x \in Streams \ {s} : chan'[x].buf = chan[x].buf
  BY <1>1
<1>8. QED
  BY <1>1, <1>2, <1>4, <1>5, <1>6, <1>7, ChannelsKept

\* A fresh subscriber finds every cached event, or it brought a cursor.
LEMMA SubscribeKeeps ==
    ASSUME HubInv, NEW s \in Streams, NEW inject \in BOOLEAN, Subscribe(s, inject)
    PROVE  /\ HubInv'
           /\ \A x \in Streams \ {s} : chan'[x].buf = chan[x].buf
           /\ subscribers \subseteq subscribers' /\ subscribers' \subseteq subscribers \union {s}
           /\ ~inject \/ s \notin subscribers' => IdsOf(chan'[s].buf) = {}
           /\ inject /\ s \in subscribers' \ subscribers => \A t \in CachedTypes :
                 cached[t] = NoEvent \/ cached[t].id \in IdsOf(chan'[s].buf)
<1> USE HubAssumption
<1>1. /\ chan \in [Streams -> [buf : Seq(Events), closed : BOOLEAN]]
      /\ subscribers \subseteq Streams /\ done' \in BOOLEAN /\ closed' \in BOOLEAN
      /\ ChanCapacity \in Nat
      /\ subscribers' = IF closed THEN subscribers ELSE subscribers \union {s}
  BY DEF HubInv, HubTypeOK, Subscribe
<1>2. HubKept
  BY DEF HubInv, HubTypeOK, HubKept, Subscribe
<1>3. ASSUME NEW q \in Seq(Events), NEW end \in BOOLEAN,
             chan' = [chan EXCEPT ![s] = [buf |-> q, closed |-> end]],
             Len(q) <= ChanCapacity, Ascends(q), \A r \in Range(q) : Genuine(r)
      PROVE  /\ HubInv' /\ chan'[s].buf = q
             /\ \A x \in Streams \ {s} : chan'[x].buf = chan[x].buf
  <2>1. [buf |-> q, closed |-> end] \in [buf : Seq(Events), closed : BOOLEAN]
    OBVIOUS
  <2>2. /\ chan' \in [Streams -> [buf : Seq(Events), closed : BOOLEAN]]
        /\ chan'[s].buf = q
        /\ \A x \in Streams \ {s} : chan'[x].buf = chan[x].buf
    BY <1>1, <1>3, <2>1
  <2>3. QED
    BY <1>1, <1>2, <1>3, <2>2, ChannelsKept
<1>4. /\ << >> \in Seq(Events) /\ Len(<< >>) <= ChanCapacity /\ Ascends(<< >>)
      /\ \A r \in Range(<< >>) : Genuine(r)
      /\ TRUE \in BOOLEAN /\ FALSE \in BOOLEAN
  BY <1>1, AscendsNone
<1>5. CASE closed
  <2>1. chan' = [chan EXCEPT ![s] = [buf |-> << >>, closed |-> TRUE]]
    BY <1>5 DEF Subscribe
  <2>2. QED
    BY <2>1, <1>1, <1>3, <1>4, <1>5, AscendsNone
<1>6. CASE ~closed
  <2>1. PICK q \in [1 .. Cardinality(Latest) -> Latest] :
           /\ CachedInOrder(q)
           /\ chan' = [chan EXCEPT ![s] = [buf    |-> IF inject THEN q ELSE << >>,
                                           closed |-> FALSE]]
    BY <1>6 DEF Subscribe
  <2>2. CASE ~inject
    <3>1. chan' = [chan EXCEPT ![s] = [buf |-> << >>, closed |-> FALSE]]
      BY <2>1, <2>2
    <3>2. QED
      BY <3>1, <2>2, <1>1, <1>3, <1>4, <1>6, AscendsNone
  <2>3. CASE inject
    <3>1. chan' = [chan EXCEPT ![s] = [buf |-> q, closed |-> FALSE]]
      BY <2>1, <2>3
    <3>2. /\ IsFiniteSet(Latest) /\ Cardinality(Latest) <= ChanCapacity
          /\ Cardinality(Latest) \in Nat
      <4> DEFINE images == {cached[t] : t \in CachedTypes}
      <4>1. IsFiniteSet(images) /\ Cardinality(images) <= Cardinality(CachedTypes)
        <5>1. cached \in Surjection(CachedTypes, images)
          BY DEF HubInv, HubTypeOK, Surjection
        <5>2. QED
          BY <5>1, FS_Surjection
      <4>2. Latest \subseteq images
        BY DEF Latest
      <4>3. IsFiniteSet(Latest) /\ Cardinality(Latest) <= Cardinality(images)
        BY <4>1, <4>2, FS_Subset
      <4>4. Cardinality(Latest) \in Nat /\ Cardinality(images) \in Nat
              /\ Cardinality(CachedTypes) \in Nat
        BY <4>1, <4>3, FS_CardinalityType
      <4> HIDE DEF images
      <4>5. QED
        BY <4>1, <4>3, <4>4
    <3>3. \A r \in Latest : Genuine(r) /\ r \in Events
      BY DEF HubInv, CachedGenuine, Genuine, Latest
    <3>4. q \in Seq(Events) /\ Len(q) = Cardinality(Latest) /\ Range(q) = Latest /\ Ascends(q)
      <4>1. q \in [1 .. Cardinality(Latest) -> Events]
        BY <3>3
      <4>2. q \in Seq(Events) /\ Len(q) = Cardinality(Latest)
        BY <4>1, <3>2
      <4>3. QED
        BY <4>2, <2>1 DEF CachedInOrder, Ascends
    <3>5. /\ HubInv' /\ chan'[s].buf = q
          /\ \A x \in Streams \ {s} : chan'[x].buf = chan[x].buf
      BY <3>1, <3>2, <3>3, <3>4, <1>3, <1>4
    <3>6. ASSUME NEW t \in CachedTypes, cached[t] # NoEvent PROVE cached[t].id \in IdsOf(q)
      <4>1. cached[t] \in Range(q)
        BY <3>4, <3>6 DEF Latest
      <4>2. QED
        BY <4>1 DEF Range, IdsOf
    <3>7. QED
      BY <3>5, <3>6, <1>1, <1>6, <2>3
  <2>4. QED
    BY <2>2, <2>3
<1>7. QED
  BY <1>5, <1>6

LEMMA HubUnchanged == ASSUME HubInv, UNCHANGED hubVars PROVE HubInv' /\ HubKept
<1>1. /\ HubKept /\ subscribers' \subseteq Streams
      /\ done' \in BOOLEAN /\ closed' \in BOOLEAN
      /\ chan' \in [Streams -> [buf : Seq(Events), closed : BOOLEAN]]
      /\ \A x \in Streams : chan'[x].buf = chan[x].buf
  BY DEF hubVars, HubKept, HubInv, HubTypeOK
<1>2. QED
  BY <1>1, BuffersKept

LEMMA CachedTyped ==
    ASSUME HubInv, NEW t \in CachedTypes
    PROVE  /\ cached[t].id \in Nat
           /\ cached[t] = NoEvent \/ (Genuine(cached[t]) /\ cached[t].id > 0
                                        /\ Vouched(cached[t].id) /\ cached[t].type = t)
           /\ cached[t] = NoEvent => cached[t].id = 0
<1>1. cached[t] \in Events \union {NoEvent}
  BY DEF HubInv, HubTypeOK
<1>2. cached[t] = NoEvent \/ (Genuine(cached[t]) /\ Vouched(cached[t].id))
  BY DEF HubInv, CachedGenuine
<1>3. Genuine(cached[t]) => cached[t].type = t
  BY DEF Genuine
<1>4. QED
  BY <1>1, <1>2, <1>3 DEF Events, NoEvent

LEMMA IdsTyped ==
    ASSUME NEW q \in Seq(Events)
    PROVE  IdsOf(q) \subseteq Nat /\ \A rec \in Range(q) : rec \in Events /\ rec.id \in IdsOf(q)
<1>1. \A i \in DOMAIN q : q[i] \in Events
  OBVIOUS
<1>2. QED
  BY <1>1 DEF IdsOf, Range, Events
=============================================================================
