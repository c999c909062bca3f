---------------------------- MODULE ReplayFilter ----------------------------
(***************************************************************************)
(* The anti-replay filter of package replay (RFC 6479): a ring of blocks   *)
(* of bits addressed by the counter's block number modulo the ring size.   *)
(* Moving the window forward clears the blocks it enters; Reset clears     *)
(* block 0 only, and relies on that.  One goroutine per peer calls the     *)
(* filter (RoutineSequentialReceiver), so a call is one step.              *)
(***************************************************************************)
EXTENDS Integers

CONSTANTS BlockBits,   \* bits of a block (64 in the code)
          RingBlocks,  \* blocks of the ring (128 in the code)
          Limit,       \* RejectAfterMessages
          Counters     \* the counters callers present

ASSUME FilterAssumption ==
    /\ BlockBits \in Nat \ {0}
    /\ RingBlocks \in Nat \ {0}
    /\ Limit \in Nat
    /\ Counters \subseteq Nat

WindowSize == (RingBlocks - 1) * BlockBits

VARIABLES last,        \* Filter.last
          ring,        \* Filter.ring, a block as the set of its 1 bits
          accepted,    \* history: the counters accepted since the last Reset
          ret          \* the answer of the latest call

vars == <<last, ring, accepted, ret>>

Block(c) == c \div BlockBits

\* Mutation: the bit mask is one too large.
BitWide(c) == c % (BlockBits + 1)

Bit(c)   == c % BlockBits
Slot(b)  == b % RingBlocks

TypeOK ==
    /\ last \in Nat
    /\ ring \in [0 .. RingBlocks - 1 -> SUBSET (0 .. BlockBits - 1)]
    /\ accepted \subseteq Nat
    /\ ret \in BOOLEAN

Init ==
    /\ last = 0
    /\ ring = [s \in 0 .. RingBlocks - 1 |-> {}]
    /\ accepted = {}
    /\ ret = FALSE

Reset ==
    /\ last' = 0
    /\ ring' = [ring EXCEPT ![0] = {}]
    /\ accepted' = {}
    /\ UNCHANGED ret

\* Mutation: the loop stops one block short of the block the window enters.
AdvanceShort(c) ==
    LET current == Block(last)
        diff    == IF Block(c) - current > RingBlocks THEN RingBlocks
                                                      ELSE Block(c) - current
    IN  [s \in 0 .. RingBlocks - 1 |->
            IF \E i \in current + 1 .. current + diff - 1 : Slot(i) = s
            THEN {} ELSE ring[s]]

\* The ring after the window has moved forward to counter c: the blocks
\* entered since the old one, at most the whole ring, are cleared.
Advance(c) ==
    LET current == Block(last)
        diff    == IF Block(c) - current > RingBlocks THEN RingBlocks
                                                      ELSE Block(c) - current
    IN  [s \in 0 .. RingBlocks - 1 |->
            IF \E i \in current + 1 .. current + diff : Slot(i) = s
            THEN {} ELSE ring[s]]

\* Test and set the bit of counter c in ring r.
CheckAndSet(c, r) ==
    /\ ring' = [r EXCEPT ![Slot(Block(c))] = @ \cup {Bit(c)}]
    /\ ret' = (Bit(c) \notin r[Slot(Block(c))])
    /\ accepted' = IF ret' THEN accepted \cup {c} ELSE accepted

\* Mutation: the window check is off by one block.
ValidateWide(c) ==
    \/ /\ c >= Limit \/ (c <= last /\ last - c > WindowSize + BlockBits)
       /\ ret' = FALSE
       /\ UNCHANGED <<last, ring, accepted>>
    \/ /\ c < Limit /\ c > last
       /\ last' = c
       /\ CheckAndSet(c, Advance(c))
    \/ /\ c < Limit /\ c <= last /\ last - c <= WindowSize + BlockBits
       /\ UNCHANGED last
       /\ CheckAndSet(c, ring)

ValidateCounter(c) ==
    \/ /\ c >= Limit \/ (c <= last /\ last - c > WindowSize)
       /\ ret' = FALSE
       /\ UNCHANGED <<last, ring, accepted>>
    \/ /\ c < Limit /\ c > last
       /\ last' = c
       /\ CheckAndSet(c, Advance(c))
    \/ /\ c < Limit /\ c <= last /\ last - c <= WindowSize
       /\ UNCHANGED last
       /\ CheckAndSet(c, ring)

Next == Reset \/ \E c \in Counters : ValidateCounter(c)

Spec == Init /\ [][Next]_vars

-----------------------------------------------------------------------------
\* Ring r holds, in every block the window ending at l covers, the counters of
\* the set A and no others.
Exact(r, A, l) ==
    \A b \in 0 .. Block(l) :
        Block(l) - b < RingBlocks =>
            r[Slot(b)] = {k \in 0 .. BlockBits - 1 : BlockBits * b + k \in A}

\* The bits of the blocks the window covers are exactly the counters accepted
\* since the last Reset, whatever older blocks left in the ring: the reuse of
\* ring slots, the cap of the clearing loop and the partial clearing of Reset
\* never leave a stale bit or lose a fresh one (replay.go).
RingExact ==
    /\ \A c \in accepted : c <= last
    /\ Exact(ring, accepted, last)

Window == INSTANCE ReplayWindow

\* The ring implements the sliding window: a call answers TRUE exactly for a
\* counter below the limit, not accepted since the last Reset and at most
\* windowSize behind the newest one, so no counter is accepted twice and none
\* in the window is lost (ValidateCounter, Reset).
ImplementsWindow == Window!Spec
=============================================================================
