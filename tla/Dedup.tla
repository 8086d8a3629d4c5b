-------------------------------- MODULE Dedup --------------------------------
(***************************************************************************)
(* The filter by which a dongle recognises frames it has seen               *)
(* (apps/gibberish-firmware/src/radio/dedup.rs): two Bloom filters, of which *)
(* the active one takes Threshold insertions before it becomes the previous  *)
(* one, and a ring of the last few keys.  A key is a message id with a chunk *)
(* index.  Hashing is a constant: the bits each key sets.                    *)
(***************************************************************************)
EXTENDS Naturals

CONSTANTS
  Keys,
  Bits,       \* key -> the bit positions that hash_coords leads to
  Zero,       \* the key (0, 0), which fills the ring at the start
  Threshold,  \* EPOCH_THRESHOLD
  LruSize     \* LRU_SIZE

ASSUME DedupAssumption ==
  /\ Zero \in Keys /\ Threshold \in Nat \ {0}
  /\ LruSize \in Nat \ {0} /\ LruSize <= Threshold

VARIABLES
  active, previous,  \* active_epoch and previous_epoch: the bits that are set
  entries,           \* entries_in_epoch
  recent, lruHead,   \* recent_lru and lru_head
  age                \* history: key -> insertions since its own, up to Forgotten

filterVars == <<active, previous, entries, recent, lruHead, age>>

Forgotten == 2 * Threshold
LruSlots == 0..(LruSize - 1)

FilterInit ==
  /\ active = {} /\ previous = {} /\ entries = 0
  /\ recent = [i \in LruSlots |-> Zero] /\ lruHead = 0
  /\ age = [k \in Keys |-> Forgotten]

\* contains: the ring has the key, or every bit is set in one epoch or the other.
InRing(k) == \E i \in LruSlots : recent[i] = k
InFilter(k) == Bits[k] \subseteq active \cup previous
Contains(k) == InRing(k) \/ InFilter(k)

\* Faulty variants: the epoch that ends is forgotten; the new epoch keeps the bits.
TurnOverForgets(k) ==
  /\ previous' = {} /\ active' = Bits[k] /\ entries' = 1
TurnOverKeeps(k) ==
  /\ previous' = active /\ active' = active \cup Bits[k] /\ entries' = 1

\* The active epoch is full: it becomes the previous one.
TurnOver(k) ==
  /\ previous' = active /\ active' = Bits[k] /\ entries' = 1

\* Faulty variant: an epoch takes one insertion more.
EpochLate == entries > Threshold

EpochFull == entries >= Threshold

Insert(k) ==
  /\ recent' = [recent EXCEPT ![lruHead] = k]
  /\ lruHead' = (lruHead + 1) % LruSize
  /\ IF EpochFull
       THEN TurnOver(k)
       ELSE active' = active \cup Bits[k] /\ entries' = entries + 1 /\ UNCHANGED previous
  /\ age' = [j \in Keys |-> IF j = k THEN 0 ELSE IF age[j] < Forgotten THEN age[j] + 1 ELSE Forgotten]

\* A frame from the air: new (main.rs:425), or dropped (main.rs:420-424).
HearNew(k) == ~Contains(k) /\ Insert(k)
HearKnown(k) == Contains(k) /\ UNCHANGED filterVars

\* A frame from the host or of the button is inserted, known or not (main.rs:225, 522).
Originate(k) == Insert(k)

FilterNext == \E k \in Keys : HearNew(k) \/ HearKnown(k) \/ Originate(k)

FilterSpec == FilterInit /\ [][FilterNext]_filterVars

-----------------------------------------------------------------------------
(* Properties *)

\* The variables have their types; an epoch takes no more than Threshold insertions.
FilterTypeOK ==
  /\ active \subseteq UNION {Bits[k] : k \in Keys}
  /\ previous \subseteq UNION {Bits[k] : k \in Keys}
  /\ entries \in 0..Threshold
  /\ recent \in [LruSlots -> Keys] /\ lruHead \in LruSlots
  /\ age \in [Keys -> 0..Forgotten]

\* No frame is taken for new again too soon: the last Threshold + 1 insertions are
\* remembered at any time, the moment after an epoch has ended included (dedup.rs:1-4).
Remembered == \A k \in Keys : age[k] <= Threshold => Contains(k)

\* Nothing is remembered for ever: what the filter claims to have seen is covered by
\* its last 2 * Threshold insertions, so that a message id may come round again.
\* (The ring never knows more than the filter, but for the key Zero it starts with.)
Recent == {k \in Keys : age[k] < Forgotten}
ForgetsInTime ==
  \A k \in Keys : Contains(k) => k = Zero \/ Bits[k] \subseteq UNION {Bits[j] : j \in Recent}
=============================================================================
