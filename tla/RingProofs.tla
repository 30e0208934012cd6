----------------------------- MODULE RingProofs -----------------------------
(***************************************************************************)
(* Facts about rings, for every capacity: a ring stays well formed, and a  *)
(* write through the modular indexing of tier_append and persist_append is *)
(* seen by a reader as one step of a bounded history.                      *)
(***************************************************************************)
EXTENDS Ring, TLAPS

\* The only modular sums the rings form stay below twice the capacity.
LEMMA ModBelow == \A a, c \in Nat : c > 0 /\ a < c => a % c = a
  BY SMT

LEMMA ModWraps == \A a, c \in Nat : c > 0 /\ c <= a /\ a < 2 * c => a % c = a - c
  BY SMT

LEMMA ModUnique ==
  \A q \in Int : \A r \in Nat : \A c \in Nat \ {0} : r < c => (q * c + r) % c = r
  BY SMT

LEMMA DivMod ==
  ASSUME NEW a \in Int, NEW c \in Int, c > 0
  PROVE  a = c * (a \div c) + (a % c)
  BY Z3

\* Advancing an index that is already reduced.
LEMMA ModStep ==
  ASSUME NEW a \in Nat, NEW c \in Nat \ {0}
  PROVE  ((a % c) + 1) % c = (a + 1) % c
<1> DEFINE q == a \div c
           r == a % c
<1>1. a = c * q + r
  BY DivMod
<1>2. r \in 0 .. c - 1 /\ q \in Int
  BY SMT
<1> HIDE DEF q, r
<1>3. CASE r + 1 < c
  <2>1. a + 1 = q * c + (r + 1)
    BY <1>1, <1>2
  <2>2. (a + 1) % c = r + 1
    <3>1. r + 1 \in Nat
      BY <1>2
    <3>2. (q * c + (r + 1)) % c = r + 1
      BY <1>2, <1>3, <3>1, ModUnique
    <3> QED
      BY <2>1, <3>2
  <2>3. (r + 1) % c = r + 1
    BY <1>2, <1>3, ModBelow
  <2> QED
    BY <2>2, <2>3 DEF r
<1>4. CASE r + 1 = c
  <2>1. a + 1 = (q + 1) * c + 0
    BY <1>1, <1>2, <1>4
  <2>2. q + 1 \in Int /\ 0 < c
    BY <1>2
  <2>3. ((q + 1) * c + 0) % c = 0
    BY <2>2, ModUnique
  <2>4. (r + 1) % c = 0
    BY <1>2, <1>4, ModWraps
  <2> QED
    BY <2>1, <2>3, <2>4 DEF r
<1> QED
  BY <1>2, <1>3, <1>4

\* Reading an empty ring yields nothing.
LEMMA EmptyRingIsEmpty ==
  ASSUME NEW cap \in Nat \ {0}, NEW E, NEW zero \in E
  PROVE  /\ EmptyRing(cap, zero) \in RingType(cap, E)
         /\ Contents(EmptyRing(cap, zero), cap) = << >>
  BY DEF EmptyRing, RingType, Contents

\* tier_append keeps head and count within the ring.
LEMMA PutType ==
  ASSUME NEW cap \in Nat \ {0}, NEW E, NEW r \in RingType(cap, E), NEW e \in E
  PROVE  Put(r, cap, e) \in RingType(cap, E)
<1>1. (r.head + 1) % cap \in 0 .. cap - 1
  BY SMT DEF RingType
<1> QED
  BY <1>1 DEF Put, RingType

\* What a reader sees of a ring is a sequence of its count entries.
LEMMA ContentsType ==
  ASSUME NEW cap \in Nat \ {0}, NEW E, NEW r \in RingType(cap, E)
  PROVE  /\ Contents(r, cap) \in Seq(E)
         /\ Len(Contents(r, cap)) = r.count
<1>1. \A k \in 1 .. r.count : SlotOf(r, cap, k - 1) \in 0 .. cap - 1
  BY SMT DEF RingType, SlotOf, Start
<1>2. Contents(r, cap) \in [1 .. r.count -> E]
  BY <1>1 DEF Contents, RingType
<1> QED
  BY <1>2 DEF RingType

\* The slots of a ring, without the modulus.
LEMMA SlotCases ==
  ASSUME NEW cap \in Nat \ {0}, NEW E, NEW r \in RingType(cap, E),
         NEW k \in 0 .. cap
  PROVE  /\ Start(r, cap) = IF r.head >= r.count THEN r.head - r.count
                                                 ELSE r.head + cap - r.count
         /\ SlotOf(r, cap, k) = IF Start(r, cap) + k < cap THEN Start(r, cap) + k
                                                         ELSE Start(r, cap) + k - cap
<1>1. r.head \in 0 .. cap - 1 /\ r.count \in 0 .. cap
  BY DEF RingType
<1>2. Start(r, cap) = IF r.head >= r.count THEN r.head - r.count
                                           ELSE r.head + cap - r.count
  <2>1. CASE r.head >= r.count
    BY <1>1, <2>1, ModWraps DEF Start
  <2>2. CASE r.head < r.count
    BY <1>1, <2>2, ModBelow DEF Start
  <2> QED
    BY <1>1, <2>1, <2>2
<1>3. Start(r, cap) \in 0 .. cap - 1
  BY <1>1, <1>2
<1> QED
  BY <1>2, <1>3, ModBelow, ModWraps DEF SlotOf

(***************************************************************************)
(* The central fact about the program's ring buffers: one tier_append (or  *)
(* persist_append) followed by a read from (head + capacity - count) %     *)
(* capacity is one step of the bounded history, wrapped or not.            *)
(***************************************************************************)
THEOREM PutSlides ==
  ASSUME NEW cap \in Nat \ {0}, NEW E, NEW r \in RingType(cap, E), NEW e \in E
  PROVE  Contents(Put(r, cap, e), cap) = Slide(Contents(r, cap), cap, e)
<1> DEFINE p == Put(r, cap, e)
<1>1. p \in RingType(cap, E)
  BY PutType
<1>2. r.head \in 0 .. cap - 1 /\ r.count \in 0 .. cap /\ r.slots \in [0 .. cap - 1 -> E]
  BY DEF RingType
<1>3. p.head = IF r.head + 1 < cap THEN r.head + 1 ELSE 0
  BY <1>2, ModBelow, ModWraps DEF Put
<1>4. p.count = IF r.count < cap THEN r.count + 1 ELSE r.count
  BY DEF Put
<1>5. \A s \in 0 .. cap - 1 : p.slots[s] = IF s = r.head THEN e ELSE r.slots[s]
  BY <1>2 DEF Put
<1>6. Contents(r, cap) \in Seq(E) /\ Len(Contents(r, cap)) = r.count
  BY ContentsType
<1>r. Start(r, cap) = IF r.head >= r.count THEN r.head - r.count ELSE r.head + cap - r.count
  BY <1>2, SlotCases
<1>p. Start(p, cap) = IF p.head >= p.count THEN p.head - p.count ELSE p.head + cap - p.count
  BY <1>1, <1>2, SlotCases
<1>s. \A k \in 0 .. cap : SlotOf(r, cap, k) = IF Start(r, cap) + k < cap
                                               THEN Start(r, cap) + k
                                               ELSE Start(r, cap) + k - cap
  BY SlotCases
<1>7. CASE r.count < cap
  <2>1. Slide(Contents(r, cap), cap, e) = Append(Contents(r, cap), e)
    BY <1>6, <1>7 DEF Slide
  <2>0. Start(p, cap) = Start(r, cap)
    <3> HIDE DEF p
    <3> QED
      BY <1>2, <1>3, <1>4, <1>7, <1>r, <1>p
  <2>2. \A k \in 0 .. r.count - 1 : /\ SlotOf(p, cap, k) = SlotOf(r, cap, k)
                                    /\ SlotOf(r, cap, k) \in (0 .. cap - 1) \ {r.head}
    <3>1. ASSUME NEW k \in 0 .. r.count - 1
          PROVE  SlotOf(r, cap, k) \in (0 .. cap - 1) \ {r.head}
      <4>1. k \in 0 .. cap
        BY <1>2
      <4>2. SlotOf(r, cap, k) = IF Start(r, cap) + k < cap THEN Start(r, cap) + k
                                                          ELSE Start(r, cap) + k - cap
        BY <1>s, <4>1
      <4>3. CASE r.head >= r.count
        <5>1. SlotOf(r, cap, k) = r.head - r.count + k
          BY <1>2, <1>r, <4>2, <4>3
        <5> QED
          BY <1>2, <4>3, <5>1
      <4>4. CASE r.head < r.count
        <5>1. \/ SlotOf(r, cap, k) = r.head + cap - r.count + k /\ r.head + cap - r.count + k < cap
              \/ SlotOf(r, cap, k) = r.head - r.count + k /\ r.head + cap - r.count + k >= cap
          BY <1>2, <1>r, <4>2, <4>4
        <5> QED
          BY <1>2, <1>7, <4>4, <5>1, SMTT(60)
      <4> QED
        BY <1>2, <4>3, <4>4
    <3> QED
      BY <2>0, <3>1 DEF SlotOf
  <2>3. SlotOf(p, cap, r.count) = r.head
    <3>1. SlotOf(r, cap, r.count) = r.head
      BY <1>2, <1>7, <1>r, <1>s
    <3> QED
      BY <2>0, <3>1 DEF SlotOf
  <2>4. \A k \in 1 .. r.count : p.slots[SlotOf(p, cap, k - 1)] = r.slots[SlotOf(r, cap, k - 1)]
    BY <1>2, <1>5, <2>2
  <2>5. p.slots[SlotOf(p, cap, r.count)] = e
    BY <1>2, <1>5, <2>3
  <2>6. \A k \in 1 .. r.count + 1 :
           Contents(p, cap)[k] = Append(Contents(r, cap), e)[k]
    BY <1>2, <1>4, <1>6, <1>7, <2>4, <2>5 DEF Contents
  <2>7. Contents(p, cap) \in Seq(E) /\ Len(Contents(p, cap)) = r.count + 1
    BY <1>1, <1>4, <1>7, ContentsType
  <2> QED
    BY <1>2, <1>6, <2>1, <2>6, <2>7
<1>8. CASE r.count = cap
  <2>1. Slide(Contents(r, cap), cap, e) = Append(Tail(Contents(r, cap)), e)
    BY <1>2, <1>6, <1>8 DEF Slide
  <2>0. Start(r, cap) = r.head /\ Start(p, cap) = p.head
    <3> HIDE DEF p
    <3> QED
      BY <1>2, <1>3, <1>4, <1>8, <1>r, <1>p
  <2>a. \A k \in 0 .. cap : SlotOf(p, cap, k) = IF p.head + k < cap THEN p.head + k
                                                                ELSE p.head + k - cap
    BY <1>1, <2>0, SlotCases
  <2>2. \A k \in 0 .. cap - 2 : /\ SlotOf(p, cap, k) = SlotOf(r, cap, k + 1)
                                /\ SlotOf(r, cap, k + 1) \in (0 .. cap - 1) \ {r.head}
    <3> SUFFICES ASSUME NEW k \in 0 .. cap - 2
                 PROVE  /\ SlotOf(p, cap, k) = SlotOf(r, cap, k + 1)
                        /\ SlotOf(r, cap, k + 1) \in (0 .. cap - 1) \ {r.head}
      OBVIOUS
    <3> HIDE DEF p
    <3>1. k \in 0 .. cap /\ k + 1 \in 0 .. cap
      OBVIOUS
    <3>2. SlotOf(p, cap, k) = IF p.head + k < cap THEN p.head + k ELSE p.head + k - cap
      BY <2>a, <3>1
    <3>3. SlotOf(r, cap, k + 1) = IF r.head + (k + 1) < cap THEN r.head + (k + 1)
                                                           ELSE r.head + (k + 1) - cap
      BY <1>s, <2>0, <3>1
    <3> QED
      BY <1>2, <1>3, <3>2, <3>3, SMTT(60)
  <2>3. SlotOf(p, cap, cap - 1) = r.head
    <3> HIDE DEF p
    <3> QED
      BY <1>2, <1>3, <2>a
  <2>4. \A k \in 1 .. cap - 1 : p.slots[SlotOf(p, cap, k - 1)] = r.slots[SlotOf(r, cap, k)]
    <3> SUFFICES ASSUME NEW k \in 1 .. cap - 1
                 PROVE  p.slots[SlotOf(p, cap, k - 1)] = r.slots[SlotOf(r, cap, k)]
      OBVIOUS
    <3>1. k - 1 \in 0 .. cap - 2 /\ (k - 1) + 1 = k
      OBVIOUS
    <3>2. SlotOf(p, cap, k - 1) = SlotOf(r, cap, k) /\ SlotOf(r, cap, k) \in (0 .. cap - 1) \ {r.head}
      BY <2>2, <3>1
    <3> QED
      BY <1>5, <3>2
  <2>5. p.slots[SlotOf(p, cap, cap - 1)] = e
    BY <1>2, <1>5, <2>3
  <2>6. Tail(Contents(r, cap)) \in Seq(E) /\ Len(Tail(Contents(r, cap))) = cap - 1
    BY <1>2, <1>6, <1>8
  <2>7. \A k \in 1 .. cap - 1 : Contents(p, cap)[k] = Tail(Contents(r, cap))[k]
    BY <1>2, <1>4, <1>6, <1>8, <2>4 DEF Contents
  <2>8. Contents(p, cap)[cap] = e
    BY <1>2, <1>4, <1>8, <2>5 DEF Contents
  <2>9. Contents(p, cap) \in Seq(E) /\ Len(Contents(p, cap)) = cap
    BY <1>1, <1>4, <1>8, ContentsType
  <2> QED
    BY <1>2, <1>6, <2>1, <2>6, <2>7, <2>8, <2>9
<1> QED
  BY <1>2, <1>7, <1>8
=============================================================================
