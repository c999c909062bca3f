------------------------- MODULE ReplayFilterProofs -------------------------
(***************************************************************************)
(* Proofs about the anti-replay filter, for every size of block and ring:  *)
(* its ring is exact, and it implements the sliding window.                *)
(***************************************************************************)
EXTENDS ReplayFilter, TLAPS

\* Zenon first, and more time for SMT.
USE ZenonT(3), SMTT(30)

-----------------------------------------------------------------------------
(* Division with remainder.                                                *)

\* Multiplication by a positive factor is strictly monotone.
LEMMA MulMono ==
    ASSUME NEW x \in Int, NEW y \in Int, NEW k \in Nat \ {0}, x < y
    PROVE  k * x + k <= k * y
<1>1. PICK d \in Nat : y = x + 1 + d
  BY y - x - 1 \in Nat
<1>2. k * y = k * x + k + k * d
  BY <1>1
<1>3. k * d >= 0
  BY <1>1
<1>4. QED
  BY <1>2, <1>3

\* Quotient and remainder recompose the dividend: block and bit of a counter.
LEMMA DivMod ==
    ASSUME NEW a \in Nat, NEW k \in Nat \ {0}
    PROVE  /\ a \div k \in Nat
           /\ a % k \in 0 .. k - 1
           /\ a = k * (a \div k) + (a % k)
  OBVIOUS

\* A larger counter is in the same or in a later block.
LEMMA DivMono ==
    ASSUME NEW a \in Nat, NEW b \in Nat, NEW k \in Nat \ {0}, a <= b
    PROVE  a \div k <= b \div k
<1> DEFINE qa == a \div k
           qb == b \div k
<1>1. qa \in Nat /\ qb \in Nat /\ a = k * qa + (a % k) /\ b = k * qb + (b % k)
      /\ a % k \in 0 .. k - 1 /\ b % k \in 0 .. k - 1
  BY DivMod
<1>2. ASSUME qb < qa PROVE FALSE
  <2>1. k * qb + k <= k * qa
    BY <1>1, <1>2, MulMono
  <2>2. k * qb \in Int /\ k * qa \in Int
    BY <1>1
  <2> HIDE DEF qa, qb
  <2>3. QED
    BY <1>1, <2>1, <2>2
<1>3. QED
  BY <1>1, <1>2

\* Two numbers less than k apart with the same remainder are equal: blocks of
\* one window never share a slot of the ring.
LEMMA ModInjective ==
    ASSUME NEW a \in Nat, NEW b \in Nat, NEW k \in Nat \ {0},
           a % k = b % k, a <= b, b - a < k
    PROVE  a = b
<1> DEFINE qa == a \div k
           qb == b \div k
<1>1. qa \in Nat /\ qb \in Nat /\ a = k * qa + (a % k) /\ b = k * qb + (b % k)
  BY DivMod
<1>2. qa <= qb
  BY DivMono
<1>3. ASSUME qa < qb PROVE FALSE
  <2>1. k * qa + k <= k * qb
    BY <1>1, <1>3, MulMono
  <2>2. k * qb \in Int /\ k * qa \in Int
    BY <1>1
  <2>3. a % k \in Int
    BY DivMod
  <2> HIDE DEF qa, qb
  <2>4. QED
    BY <1>1, <2>1, <2>2, <2>3
<1>4. QED
  BY <1>1, <1>2, <1>3

\* The quotient and the remainder are unique.
LEMMA DivUnique ==
    ASSUME NEW q \in Nat, NEW k \in Nat \ {0}, NEW r \in 0 .. k - 1
    PROVE  (k * q + r) \div k = q /\ (k * q + r) % k = r
<1> DEFINE a == k * q + r
           p == a \div k
           m == a % k
<1>1. a \in Nat /\ k * q \in Nat
  OBVIOUS
<1>2. p \in Nat /\ m \in 0 .. k - 1 /\ a = k * p + m
  BY <1>1, DivMod
<1>3. ASSUME p < q PROVE FALSE
  <2>1. k * p + k <= k * q
    BY <1>2, <1>3, MulMono
  <2>2. k * p \in Int
    BY <1>2
  <2> HIDE DEF p, m
  <2>3. QED
    BY <1>1, <1>2, <2>1, <2>2
<1>4. ASSUME q < p PROVE FALSE
  <2>1. k * q + k <= k * p
    BY <1>2, <1>4, MulMono
  <2>2. k * p \in Int
    BY <1>2
  <2> HIDE DEF p, m
  <2>3. QED
    BY <1>1, <1>2, <2>1, <2>2
<1>5. p = q
  BY <1>2, <1>3, <1>4
<1>6. m = r
  <2> HIDE DEF p, m
  <2>1. QED
    BY <1>1, <1>2, <1>5
<1>7. QED
  BY <1>5, <1>6

\* Any k consecutive numbers meet every remainder: a capped clearing loop
\* clears the whole ring.
LEMMA ResidueCover ==
    ASSUME NEW n \in Nat, NEW k \in Nat \ {0}, NEW s \in 0 .. k - 1
    PROVE  \E i \in n + 1 .. n + k : i % k = s
<1> DEFINE m == n + 1
           q == m \div k
           r == m % k
<1>1. q \in Nat /\ r \in 0 .. k - 1 /\ m = k * q + r
  BY m \in Nat, DivMod
<1>2. k * q \in Nat /\ k * (q + 1) = k * q + k
  BY <1>1
<1>3. (k * q + s) % k = s /\ (k * (q + 1) + s) % k = s
  BY <1>1, DivUnique, q + 1 \in Nat
<1> HIDE DEF q, r
<1>4. CASE s >= r
  <2>1. k * q + s \in n + 1 .. n + k
    BY <1>1, <1>2, <1>4
  <2>2. QED
    BY <2>1, <1>3
<1>5. CASE s < r
  <2>1. k * (q + 1) + s \in n + 1 .. n + k
    BY <1>1, <1>2, <1>5
  <2>2. QED
    BY <2>1, <1>3
<1>6. QED
  BY <1>1, <1>4, <1>5

-----------------------------------------------------------------------------
(* The ring.                                                               *)

\* A counter is determined by its block and its bit.
LEMMA BlockBit ==
    ASSUME NEW c \in Nat
    PROVE  /\ Block(c) \in Nat
           /\ Bit(c) \in 0 .. BlockBits - 1
           /\ c = BlockBits * Block(c) + Bit(c)
  BY FilterAssumption, DivMod DEF Block, Bit

\* A block number has a slot in the ring.
LEMMA SlotType ==
    ASSUME NEW b \in Nat
    PROVE  Slot(b) \in 0 .. RingBlocks - 1
  BY FilterAssumption, DivMod DEF Slot

\* Counters at most windowSize apart are less than a ring of blocks apart.
LEMMA WindowBlocks ==
    ASSUME NEW c \in Nat, NEW l \in Nat, c <= l, l - c <= WindowSize
    PROVE  Block(c) <= Block(l) /\ Block(l) - Block(c) < RingBlocks
<1> DEFINE bc == Block(c)
           bl == Block(l)
<1>1. bc \in Nat /\ bl \in Nat /\ bc <= bl
  BY BlockBit, FilterAssumption, DivMono DEF Block
<1>2. Bit(c) \in 0 .. BlockBits - 1 /\ c = BlockBits * bc + Bit(c)
      /\ Bit(l) \in 0 .. BlockBits - 1 /\ l = BlockBits * bl + Bit(l)
  BY BlockBit
<1>3. ASSUME bl - bc >= RingBlocks PROVE FALSE
  <2>1. bc + (RingBlocks - 1) < bl
    BY <1>1, <1>3, FilterAssumption
  <2>2. BlockBits * (bc + (RingBlocks - 1)) + BlockBits <= BlockBits * bl
    <3>1. bc + (RingBlocks - 1) \in Int /\ bl \in Int
      BY <1>1, FilterAssumption
    <3> HIDE DEF bc, bl
    <3>2. QED
      BY <2>1, <3>1, FilterAssumption, MulMono
  <2>3. BlockBits * (bc + (RingBlocks - 1))
          = BlockBits * bc + (RingBlocks - 1) * BlockBits
    BY <1>1, FilterAssumption
  <2>4. (RingBlocks - 1) * BlockBits \in Int /\ BlockBits * bc \in Int
        /\ BlockBits * bl \in Int
    BY <1>1, FilterAssumption
  <2> DEFINE w == (RingBlocks - 1) * BlockBits
             x == BlockBits * bc
             y == BlockBits * bl
  <2>5. x + w + BlockBits <= y /\ c = x + Bit(c) /\ l = y + Bit(l) /\ l - c <= w
        /\ x \in Int /\ y \in Int /\ w \in Int
    BY <1>2, <2>2, <2>3, <2>4 DEF WindowSize
  <2> HIDE DEF x, y, w
  <2>6. QED
    BY <2>5, <1>2, FilterAssumption
<1>4. QED
  BY <1>1, <1>3, FilterAssumption

\* Clearing the blocks the window enters keeps the ring exact for the counters
\* accepted so far: the blocks entered are empty and none that stays in the
\* window is cleared, also when the loop is capped.
LEMMA AdvanceExact ==
    ASSUME TypeOK, RingExact, NEW c \in Nat, c > last
    PROVE  /\ Advance(c) \in [0 .. RingBlocks - 1 -> SUBSET (0 .. BlockBits - 1)]
           /\ Exact(Advance(c), accepted, c)
<1> DEFINE current == Block(last)
           diff == IF Block(c) - current > RingBlocks THEN RingBlocks
                                                      ELSE Block(c) - current
           Cleared(s) == \E i \in current + 1 .. current + diff : Slot(i) = s
<1>1. /\ current \in Nat /\ Block(c) \in Nat /\ current <= Block(c)
      /\ RingBlocks \in Nat \ {0} /\ BlockBits \in Nat \ {0}
  <2>1. last \in Nat /\ last <= c
    BY DEF TypeOK
  <2>2. current <= Block(c)
    BY <2>1, FilterAssumption, DivMono DEF Block
  <2>3. QED
    BY <2>1, <2>2, BlockBit, FilterAssumption
<1>2. Advance(c) = [s \in 0 .. RingBlocks - 1 |-> IF Cleared(s) THEN {} ELSE ring[s]]
  BY DEF Advance
<1>3. Advance(c) \in [0 .. RingBlocks - 1 -> SUBSET (0 .. BlockBits - 1)]
  BY <1>2 DEF TypeOK
<1>4. ASSUME NEW b \in 0 .. Block(c), Block(c) - b < RingBlocks
      PROVE  Advance(c)[Slot(b)]
               = {k \in 0 .. BlockBits - 1 : BlockBits * b + k \in accepted}
  <2>1. b \in Nat /\ Slot(b) \in 0 .. RingBlocks - 1
    BY <1>1, SlotType
  <2>2. CASE b > current
    <3>1. Cleared(Slot(b))
      <4>1. CASE Block(c) - current > RingBlocks
        <5>1. diff = RingBlocks
          BY <4>1
        <5>2. \E i \in current + 1 .. current + RingBlocks : i % RingBlocks = Slot(b)
          <6>1. current \in Nat /\ RingBlocks \in Nat \ {0}
                /\ Slot(b) \in 0 .. RingBlocks - 1
            BY <1>1, <2>1
          <6> HIDE DEF current
          <6>2. QED
            BY <6>1, ResidueCover
        <5>3. QED
          BY <5>1, <5>2 DEF Slot
      <4>2. CASE ~(Block(c) - current > RingBlocks)
        <5>1. b \in current + 1 .. current + diff
          BY <1>1, <2>1, <2>2, <4>2
        <5>2. QED
          BY <5>1
      <4>3. QED
        BY <4>1, <4>2
    <3>2. ASSUME NEW k \in 0 .. BlockBits - 1 PROVE BlockBits * b + k \notin accepted
      <4>1. BlockBits * current + BlockBits <= BlockBits * b
        BY <1>1, <2>1, <2>2, MulMono
      <4>2. last = BlockBits * current + Bit(last) /\ Bit(last) \in 0 .. BlockBits - 1
        BY BlockBit DEF TypeOK
      <4>3. BlockBits * current \in Int /\ BlockBits * b \in Int /\ last \in Int
        BY <1>1, <2>1 DEF TypeOK
      <4>4. last < BlockBits * b + k
        <5> DEFINE x == BlockBits * current
                   y == BlockBits * b
        <5>1. x + BlockBits <= y /\ last = x + Bit(last) /\ x \in Int /\ y \in Int
          BY <4>1, <4>2, <4>3
        <5> HIDE DEF x
        <5>2. last < y + k
          <6> HIDE DEF y
          <6>1. QED
            BY <5>1, <4>2, <4>3, <1>1
        <5>3. QED
          BY <5>2
      <4>5. BlockBits * b + k \in Int
        BY <1>1, <2>1
      <4>6. QED
        BY <4>3, <4>4, <4>5 DEF RingExact, TypeOK
    <3>3. Advance(c)[Slot(b)] = {}
      BY <1>2, <2>1, <3>1
    <3>4. QED
      BY <3>2, <3>3
  <2>3. CASE b <= current
    <3>1. ASSUME NEW i \in current + 1 .. current + diff, Slot(i) = Slot(b)
          PROVE  FALSE
      <4>1. ~(Block(c) - current > RingBlocks)
        BY <1>1, <1>4, <2>1, <2>3
      <4>2. i \in Nat /\ b <= i /\ i - b < RingBlocks /\ i # b
        BY <1>1, <1>4, <2>1, <2>3, <4>1
      <4>3. b = i
        BY <1>1, <2>1, <3>1, <4>2, ModInjective DEF Slot
      <4>4. QED
        BY <4>2, <4>3
    <3>2. ~Cleared(Slot(b))
      BY <3>1
    <3>3. Advance(c)[Slot(b)] = ring[Slot(b)]
      BY <1>2, <2>1, <3>2
    <3>4. b \in 0 .. Block(last) /\ Block(last) - b < RingBlocks
      BY <1>1, <1>4, <2>1, <2>3
    <3>5. ring[Slot(b)] = {k \in 0 .. BlockBits - 1 : BlockBits * b + k \in accepted}
      BY <3>4 DEF RingExact, Exact
    <3>6. QED
      BY <3>3, <3>5
  <2>4. QED
    BY <1>1, <2>1, <2>2, <2>3
<1>5. QED
  BY <1>3, <1>4 DEF Exact

\* Test-and-set on an exact ring: the answer says whether the counter is new,
\* and the ring stays exact with the counter added.
LEMMA CheckAndSetExact ==
    ASSUME TypeOK,
           NEW l \in Nat, NEW c \in Nat, NEW r, c <= l,
           Block(c) <= Block(l), Block(l) - Block(c) < RingBlocks,
           r \in [0 .. RingBlocks - 1 -> SUBSET (0 .. BlockBits - 1)],
           Exact(r, accepted, l), CheckAndSet(c, r)
    PROVE  /\ ret' = (c \notin accepted)
           /\ accepted' = accepted \cup {c}
           /\ ring' \in [0 .. RingBlocks - 1 -> SUBSET (0 .. BlockBits - 1)]
           /\ Exact(ring', accepted', l)
<1>1. /\ Block(c) \in Nat /\ Block(l) \in Nat /\ Block(c) \in 0 .. Block(l)
      /\ Bit(c) \in 0 .. BlockBits - 1 /\ c = BlockBits * Block(c) + Bit(c)
      /\ RingBlocks \in Nat \ {0} /\ BlockBits \in Nat \ {0}
      /\ Slot(Block(c)) \in 0 .. RingBlocks - 1
  <2>1. Block(c) \in Nat /\ Block(l) \in Nat /\ Bit(c) \in 0 .. BlockBits - 1
        /\ c = BlockBits * Block(c) + Bit(c)
    BY BlockBit
  <2>2. Slot(Block(c)) \in 0 .. RingBlocks - 1
    BY <2>1, SlotType
  <2>3. Block(c) \in 0 .. Block(l)
    BY <2>1
  <2>4. QED
    BY <2>1, <2>2, <2>3, FilterAssumption
<1>2. r[Slot(Block(c))] = {k \in 0 .. BlockBits - 1 : BlockBits * Block(c) + k \in accepted}
  BY <1>1 DEF Exact
<1>3. Bit(c) \in r[Slot(Block(c))] <=> c \in accepted
  BY <1>1, <1>2
<1>4. ret' = (c \notin accepted)
  BY <1>3 DEF CheckAndSet
<1>5. accepted' = accepted \cup {c}
  BY <1>4 DEF CheckAndSet
<1>6. ring' = [r EXCEPT ![Slot(Block(c))] = @ \cup {Bit(c)}]
  BY DEF CheckAndSet
<1>7. ring' \in [0 .. RingBlocks - 1 -> SUBSET (0 .. BlockBits - 1)]
  BY <1>1, <1>6
<1>8. ASSUME NEW b \in 0 .. Block(l), Block(l) - b < RingBlocks
      PROVE  ring'[Slot(b)]
               = {k \in 0 .. BlockBits - 1 : BlockBits * b + k \in accepted'}
  <2>1. b \in Nat /\ Slot(b) \in 0 .. RingBlocks - 1
    BY <1>1, SlotType
  <2>2. r[Slot(b)] = {k \in 0 .. BlockBits - 1 : BlockBits * b + k \in accepted}
    BY <1>8 DEF Exact
  <2>3. CASE b = Block(c)
    <3>1. ring'[Slot(b)] = r[Slot(b)] \cup {Bit(c)}
      BY <1>1, <1>6, <2>3
    <3>2. \A k \in 0 .. BlockBits - 1 : BlockBits * b + k = c <=> k = Bit(c)
      <4> DEFINE x == BlockBits * b
      <4>1. x \in Int /\ c = x + Bit(c)
        BY <1>1, <2>1, <2>3
      <4> HIDE DEF x
      <4>2. Bit(c) \in Int /\ \A k \in 0 .. BlockBits - 1 : k \in Int
        BY <1>1
      <4>3. \A k \in 0 .. BlockBits - 1 : x + k = c <=> k = Bit(c)
        BY <4>1, <4>2
      <4>4. QED
        BY <4>3 DEF x
    <3>3. QED
      BY <1>1, <1>5, <2>2, <3>1, <3>2
  <2>4. CASE b # Block(c)
    <3>1. Slot(b) # Slot(Block(c))
      <4>1. CASE b < Block(c)
        <5>1. Block(c) - b < RingBlocks /\ b <= Block(c)
          BY <1>1, <1>8, <2>1, <4>1
        <5>2. QED
          BY <1>1, <2>1, <2>4, <5>1, ModInjective DEF Slot
      <4>2. CASE b > Block(c)
        <5>1. b - Block(c) < RingBlocks /\ Block(c) <= b
          BY <1>1, <1>8, <2>1, <4>2
        <5>2. QED
          BY <1>1, <2>1, <2>4, <5>1, ModInjective DEF Slot
      <4>3. QED
        BY <1>1, <2>1, <2>4, <4>1, <4>2
    <3>2. ring'[Slot(b)] = r[Slot(b)]
      BY <1>1, <1>6, <2>1, <3>1
    <3>3. \A k \in 0 .. BlockBits - 1 : BlockBits * b + k # c
      <4>1. ASSUME NEW k \in 0 .. BlockBits - 1, BlockBits * b + k = c PROVE FALSE
        <5>1. (BlockBits * b + k) \div BlockBits = b
          BY <1>1, <2>1, DivUnique
        <5>2. QED
          BY <2>4, <4>1, <5>1 DEF Block
      <4>2. QED
        BY <4>1
    <3>4. QED
      BY <1>5, <2>2, <3>2, <3>3
  <2>5. QED
    BY <2>3, <2>4
<1>9. QED
  BY <1>4, <1>5, <1>7, <1>8 DEF Exact

-----------------------------------------------------------------------------
(* The theorems.                                                           *)

\* A call on an exact ring, by cases: it refuses a counter above the limit or
\* behind the window and changes nothing, or it answers whether the counter is
\* new, remembers it and keeps the ring exact.
LEMMA ValidateCases ==
    ASSUME TypeOK, RingExact, NEW c \in Nat, ValidateCounter(c)
    PROVE  \/ /\ c >= Limit \/ last - c > WindowSize
              /\ ret' = FALSE
              /\ UNCHANGED <<last, ring, accepted>>
           \/ /\ c < Limit /\ last - c <= WindowSize
              /\ last' = IF c > last THEN c ELSE last
              /\ ret' = (c \notin accepted)
              /\ accepted' = accepted \cup {c}
              /\ TypeOK' /\ RingExact'
<1>1. CASE /\ c >= Limit \/ (c <= last /\ last - c > WindowSize)
           /\ ret' = FALSE
           /\ UNCHANGED <<last, ring, accepted>>
  BY <1>1
<1>2. last \in Nat /\ ring \in [0 .. RingBlocks - 1 -> SUBSET (0 .. BlockBits - 1)]
  BY DEF TypeOK
<1>3. ASSUME NEW l \in Nat, NEW r, c <= l, last <= l, last' = l,
             Block(c) <= Block(l), Block(l) - Block(c) < RingBlocks,
             r \in [0 .. RingBlocks - 1 -> SUBSET (0 .. BlockBits - 1)],
             Exact(r, accepted, l), CheckAndSet(c, r)
      PROVE  /\ ret' = (c \notin accepted)
             /\ accepted' = accepted \cup {c}
             /\ TypeOK' /\ RingExact'
  <2>1. /\ ret' = (c \notin accepted)
        /\ accepted' = accepted \cup {c}
        /\ ring' \in [0 .. RingBlocks - 1 -> SUBSET (0 .. BlockBits - 1)]
        /\ Exact(ring', accepted', l)
    BY <1>3, CheckAndSetExact
  <2>2. TypeOK'
    BY <1>3, <2>1 DEF TypeOK
  <2>3. \A d \in accepted' : d <= last'
    BY <1>2, <1>3, <2>1 DEF RingExact, TypeOK
  <2>4. RingExact'
    BY <1>3, <2>1, <2>3 DEF RingExact, Exact, Block, Slot
  <2>5. QED
    BY <2>1, <2>2, <2>4
<1>4. CASE c < Limit /\ c > last /\ last' = c /\ CheckAndSet(c, Advance(c))
  <2>1. /\ Advance(c) \in [0 .. RingBlocks - 1 -> SUBSET (0 .. BlockBits - 1)]
        /\ Exact(Advance(c), accepted, c)
    BY <1>4, AdvanceExact
  <2>2. Block(c) <= Block(c) /\ Block(c) - Block(c) < RingBlocks
    BY BlockBit, FilterAssumption
  <2>3. c <= c /\ last <= c
    BY <1>2, <1>4
  <2>4. ret' = (c \notin accepted) /\ accepted' = accepted \cup {c} /\ TypeOK' /\ RingExact'
    BY <1>3, <1>4, <2>1, <2>2, <2>3
  <2>5. last - c <= WindowSize
    <3>1. (RingBlocks - 1) * BlockBits >= 0
      BY FilterAssumption
    <3>2. QED
      BY <1>2, <1>4, <3>1, FilterAssumption DEF WindowSize
  <2>6. QED
    BY <1>4, <2>4, <2>5
<1>5. CASE c < Limit /\ c <= last /\ last - c <= WindowSize
           /\ UNCHANGED last /\ CheckAndSet(c, ring)
  <2>1. Block(c) <= Block(last) /\ Block(last) - Block(c) < RingBlocks
    BY <1>2, <1>5, WindowBlocks
  <2>2. last <= last /\ Exact(ring, accepted, last)
    BY <1>2 DEF RingExact
  <2>3. ret' = (c \notin accepted) /\ accepted' = accepted \cup {c} /\ TypeOK' /\ RingExact'
    BY <1>2, <1>3, <1>5, <2>1, <2>2
  <2>4. QED
    BY <1>2, <1>5, <2>3
<1>6. QED
  BY <1>1, <1>4, <1>5 DEF ValidateCounter

\* Emptying block 0 alone makes the ring exact for the empty history: the window
\* that ends at counter 0 covers no other block.
LEMMA ResetExact ==
    ASSUME TypeOK, Reset
    PROVE  TypeOK' /\ RingExact'
<1>1. 0 \in 0 .. RingBlocks - 1 /\ Block(0) = 0 /\ Slot(0) = 0
  <2>1. RingBlocks * 0 + 0 = 0 /\ BlockBits * 0 + 0 = 0
    BY FilterAssumption
  <2>2. 0 \in 0 .. RingBlocks - 1 /\ 0 \in 0 .. BlockBits - 1
    BY FilterAssumption
  <2>3. (RingBlocks * 0 + 0) % RingBlocks = 0 /\ (BlockBits * 0 + 0) \div BlockBits = 0
    BY <2>2, FilterAssumption, DivUnique
  <2>4. QED
    BY <2>1, <2>2, <2>3 DEF Block, Slot
<1>2. ring'[0] = {} /\ last' = 0 /\ accepted' = {}
  BY <1>1 DEF Reset, TypeOK
<1>3. TypeOK'
  BY <1>1 DEF Reset, TypeOK
<1>4. Exact(ring', accepted', last')
  BY <1>1, <1>2 DEF Exact
<1>5. QED
  BY <1>2, <1>3, <1>4 DEF RingExact, Exact, Block, Slot

\* In every reachable state the filter is well typed and its ring holds exactly
\* the counters accepted since the last Reset (ValidateCounter, Reset).
THEOREM FilterExact == Spec => [](TypeOK /\ RingExact)
<1>1. Init => TypeOK /\ RingExact
  <2> SUFFICES ASSUME Init PROVE TypeOK /\ RingExact
    OBVIOUS
  <2>1. TypeOK
    BY DEF Init, TypeOK
  <2>2. \A b \in 0 .. Block(last) : b \in Nat /\ Slot(b) \in 0 .. RingBlocks - 1
    BY <2>1, BlockBit, SlotType DEF TypeOK
  <2>3. QED
    BY <2>1, <2>2 DEF Init, RingExact, Exact
<1>2. TypeOK /\ RingExact /\ [Next]_vars => (TypeOK /\ RingExact)'
  <2> SUFFICES ASSUME TypeOK, RingExact, [Next]_vars PROVE TypeOK' /\ RingExact'
    OBVIOUS
  <2>1. CASE Reset
    BY <2>1, ResetExact
  <2>2. ASSUME NEW c \in Counters, ValidateCounter(c) PROVE TypeOK' /\ RingExact'
    <3>1. c \in Nat
      BY FilterAssumption
    <3>2. CASE ret' = FALSE /\ UNCHANGED <<last, ring, accepted>>
      BY <3>2 DEF TypeOK, RingExact, Exact, Block, Slot
    <3>3. CASE TypeOK' /\ RingExact'
      BY <3>3
    <3>4. QED
      BY <2>2, <3>1, <3>2, <3>3, ValidateCases
  <2>3. CASE UNCHANGED vars
    BY <2>3 DEF vars, TypeOK, RingExact, Exact, Block, Slot
  <2>4. QED
    BY <2>1, <2>2, <2>3 DEF Next
<1>3. QED
  BY <1>1, <1>2, PTL DEF Spec

\* The filter implements the sliding window: no counter is accepted twice, and
\* none in the window is refused that was not accepted before.
THEOREM FilterImplementsWindow == Spec => ImplementsWindow
<1>1. Init => Window!Init
  BY DEF Init, Window!Init
<1>2. TypeOK /\ RingExact /\ [Next]_vars => [Window!Next]_(Window!vars)
  <2> SUFFICES ASSUME TypeOK, RingExact, [Next]_vars
               PROVE  [Window!Next]_(Window!vars)
    OBVIOUS
  <2>1. CASE Reset
    BY <2>1 DEF Reset, Window!Reset, Window!Next
  <2>2. ASSUME NEW c \in Counters, ValidateCounter(c)
        PROVE  Window!Accept(c) \/ Window!Reject(c)
    <3>1. c \in Nat /\ last \in Nat /\ WindowSize \in Int /\ Limit \in Nat
      BY FilterAssumption DEF TypeOK, WindowSize
    <3>2. Window!InWindow(c) <=> last - c <= WindowSize
      BY <3>1 DEF Window!InWindow
    <3>3. CASE /\ c >= Limit \/ last - c > WindowSize
               /\ ret' = FALSE /\ UNCHANGED <<last, ring, accepted>>
      BY <3>1, <3>2, <3>3 DEF Window!Reject
    <3>4. CASE /\ c < Limit /\ last - c <= WindowSize
               /\ last' = IF c > last THEN c ELSE last
               /\ ret' = (c \notin accepted)
               /\ accepted' = accepted \cup {c}
      <4>1. CASE c \in accepted
        <5>1. c <= last
          BY <4>1 DEF RingExact
        <5>2. last' = last
          BY <3>1, <3>4, <5>1
        <5>3. accepted' = accepted /\ ret' = FALSE
          BY <3>4, <4>1
        <5>4. QED
          BY <4>1, <5>2, <5>3 DEF Window!Reject
      <4>2. CASE c \notin accepted
        BY <3>2, <3>4, <4>2 DEF Window!Accept
      <4>3. QED
        BY <4>1, <4>2
    <3>5. QED
      BY <2>2, <3>1, <3>3, <3>4, ValidateCases
  <2>3. CASE UNCHANGED vars
    BY <2>3 DEF vars, Window!vars
  <2>4. QED
    BY <2>1, <2>2, <2>3 DEF Next, Window!Next
<1>3. QED
  BY <1>1, <1>2, FilterExact, PTL DEF Spec, ImplementsWindow, Window!Spec
=============================================================================
