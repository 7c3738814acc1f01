----------------------------- MODULE R2F2Flags ------------------------------
(***************************************************************************)
(* The flag word of a metadata entry on flash that flips bits              *)
(* (r2f2_metadata.h, r2f2_metadata.c, with ECC_ON_METADATA).  A flag is    *)
(* nine bits of the word.  Erased flash is all ones; marking a flag clears *)
(* its bits, and programming NOR flash can only clear bits.  A flag counts *)
(* as set when at most four of its bits are one.  R2F2File and R2F2Dir     *)
(* take flags for Booleans: the theorem below is what allows it.           *)
(*                                                                         *)
(* A word is the set of its bits that are one.                             *)
(***************************************************************************)
EXTENDS Integers, FiniteSets, FiniteSetTheorems, TLAPS

Flags == {"committed", "used", "reclaimable"}
Shift(f) == CASE f = "committed" -> 0 [] f = "used" -> 9 [] f = "reclaimable" -> 18
Mask(f) == Shift(f) .. Shift(f) + 8
Word == 0 .. 31

\* mark_entry_committed, mark_entry_used, mark_entry_reclaimable
Mark(w, f) == w \ Mask(f)

\* entry_flag_state: ENTRY_FLAG_SET, otherwise ENTRY_FLAG_UNSET
IsSet(w, f) == Cardinality(w \cap Mask(f)) <= 4

VARIABLES word,     \* on flash
          marked,   \* the flags that calls have marked
          flipped   \* the bits that are not what was programmed

vars == <<word, marked, flipped>>

\* Bound of the faults: a flag has at most four wrong bits.
Tolerable(bits) == \A f \in Flags : Cardinality(bits \cap Mask(f)) <= 4

Init == word = Word /\ marked = {} /\ flipped = {}

\* write_dir_meta_entry_flags and its like
Program(w) == word' = word \cap w

\* r2f2_register_file, r2f2_mkdir, r2f2_fsync: used and then committed, from a copy in
\* RAM of what was written before
MarkCopy(f) ==
    /\ Program(Mark({b \in Word : \A g \in marked : b \notin Mask(g)}, f))
    /\ marked' = marked \cup {f}
    /\ UNCHANGED flipped

\* r2f2_remove: from the flags that r2f2_get_dir_entry has read
MarkRead(f) ==
    /\ Program(Mark(word, f))
    /\ marked' = marked \cup {f}
    /\ UNCHANGED flipped

\* The flash flips a bit.
Flip(b) ==
    /\ word' = IF b \in word THEN word \ {b} ELSE word \cup {b}
    /\ flipped' = flipped \cup {b}
    /\ Tolerable(flipped')
    /\ UNCHANGED marked

Next == \/ \E f \in Flags : MarkCopy(f) \/ MarkRead(f)
        \/ \E b \in Word : Flip(b)

Spec == Init /\ [][Next]_vars

\* r2f2_metadata.c:310: an entry's flags read as the calls have marked them, and no
\* other way, as long as no flag has more than four wrong bits.
FlagsReadAsMarked == \A f \in Flags : IsSet(word, f) <=> f \in marked
-----------------------------------------------------------------------------
\* The bits of a flag that are wrong are flipped ones.
OnlyFlippedWrong ==
    \A f \in Flags : IF f \in marked THEN word \cap Mask(f) \subseteq flipped
                     ELSE Mask(f) \ word \subseteq flipped
IInv == /\ word \subseteq Word /\ marked \subseteq Flags /\ flipped \subseteq Word
        /\ Tolerable(flipped) /\ OnlyFlippedWrong

\* A flag's bits: nine of the word's, none of them another flag's.
LEMMA Masks ==
    ASSUME NEW f \in Flags
    PROVE  /\ Mask(f) \subseteq Word
           /\ IsFiniteSet(Mask(f)) /\ Cardinality(Mask(f)) = 9
           /\ \A g \in Flags : g # f => Mask(f) \cap Mask(g) = {}
<1>1. Shift(f) \in 0 .. 18
  BY DEF Flags, Shift
<1>2. IsFiniteSet(Mask(f)) /\ Cardinality(Mask(f)) = 9
  <2>1. \A n \in Int : /\ IsFiniteSet(n .. n + 8)
                      /\ Cardinality(n .. n + 8) = 9
    <3> SUFFICES ASSUME NEW n \in Int
                 PROVE  IsFiniteSet(n .. n + 8) /\ Cardinality(n .. n + 8) = 9
      OBVIOUS
    <3>1. n + 8 \in Int /\ ~(n > n + 8) /\ (n + 8) - n + 1 = 9
      OBVIOUS
    <3> QED
      BY <3>1, FS_Interval
  <2>2. Shift(f) \in Int
    BY <1>1
  <2> QED
    BY <2>1, <2>2 DEF Mask
<1>3. Mask(f) \subseteq Word
  BY <1>1 DEF Mask, Word
<1>4. ASSUME NEW g \in Flags, g # f  PROVE Mask(f) \cap Mask(g) = {}
  BY <1>4 DEF Flags, Shift, Mask
<1> QED
  BY <1>2, <1>3, <1>4

\* The threshold of four: with four wrong bits of nine, a marked flag has at most
\* four ones and an erased one has at least five.
LEMMA FourOfNine ==
    ASSUME NEW w \in SUBSET Word, NEW wrong \in SUBSET Word, NEW f \in Flags,
           Cardinality(wrong \cap Mask(f)) <= 4
    PROVE  /\ w \cap Mask(f) \subseteq wrong => IsSet(w, f)
           /\ Mask(f) \ w \subseteq wrong => ~IsSet(w, f)
<1> DEFINE mask == Mask(f)
           few == wrong \cap mask
<1>1. IsFiniteSet(mask) /\ Cardinality(mask) = 9
  BY Masks
<1>2. IsFiniteSet(few) /\ Cardinality(few) \in Nat /\ Cardinality(few) <= 4
  BY <1>1, FS_Subset, FS_CardinalityType
<1>3. ASSUME w \cap mask \subseteq wrong  PROVE Cardinality(w \cap mask) <= 4
  <2>1. w \cap mask \subseteq few
    BY <1>3
  <2>2. Cardinality(w \cap mask) <= Cardinality(few) /\ IsFiniteSet(w \cap mask)
    BY <1>2, <2>1, FS_Subset
  <2>3. Cardinality(w \cap mask) \in Nat
    BY <2>2, FS_CardinalityType
  <2> QED
    BY <1>2, <2>2, <2>3
<1>4. ASSUME mask \ w \subseteq wrong  PROVE Cardinality(w \cap mask) >= 5
  <2> DEFINE zeros == mask \ w
  <2>1. zeros \subseteq few
    BY <1>4
  <2>2. Cardinality(zeros) <= Cardinality(few) /\ IsFiniteSet(zeros)
    BY <1>2, <2>1, FS_Subset
  <2>3. Cardinality(zeros) \in Nat
    BY <2>2, FS_CardinalityType
  <2>4. mask \ zeros = w \cap mask /\ mask \cap zeros = zeros
    OBVIOUS
  <2>5. Cardinality(mask \ zeros) = Cardinality(mask) - Cardinality(mask \cap zeros)
    BY <1>1, FS_Difference
  <2>6. Cardinality(w \cap mask) = 9 - Cardinality(zeros)
    BY <1>1, <2>4, <2>5
  <2>7. Cardinality(zeros) <= 4
    BY <1>2, <2>2, <2>3
  <2> HIDE DEF zeros
  <2> QED
    BY <2>3, <2>6, <2>7
<1>5. IsFiniteSet(w \cap mask) /\ Cardinality(w \cap mask) \in Nat
  BY <1>1, FS_Subset, FS_CardinalityType
<1> QED
  BY <1>3, <1>4, <1>5 DEF IsSet

LEMMA InitHolds == Init => IInv
<1> SUFFICES ASSUME Init  PROVE IInv
  OBVIOUS
<1>1. \A f \in Flags : flipped \cap Mask(f) = {} /\ Mask(f) \ word = {}
  BY Masks DEF Init
<1>2. Tolerable(flipped)
  BY <1>1, FS_EmptySet DEF Tolerable
<1>3. OnlyFlippedWrong
  BY <1>1 DEF Init, OnlyFlippedWrong
<1> QED
  BY <1>2, <1>3 DEF Init, IInv

\* Marking a flag, from either copy, clears its bits and no other flag's but those
\* that are wrong already.
LEMMA MarkKeeps ==
    ASSUME IInv, NEW f \in Flags, MarkCopy(f) \/ MarkRead(f)
    PROVE  IInv'
<1>1. /\ marked' = marked \cup {f} /\ flipped' = flipped
      /\ word' \subseteq word /\ word' \cap Mask(f) = {}
  BY DEF MarkCopy, MarkRead, Program, Mark
<1>2. ASSUME NEW g \in Flags, g \notin marked'  PROVE word \cap Mask(g) \subseteq word'
  <2>1. g # f /\ g \notin marked
    BY <1>1, <1>2
  <2>2. Mask(g) \cap Mask(f) = {}
    BY <2>1, Masks
  <2>3. \A h \in marked : Mask(g) \cap Mask(h) = {}
    BY <2>1, Masks DEF IInv
  <2>4. Mask(g) \subseteq Word
    BY Masks
  <2>5. CASE MarkCopy(f)
    BY <2>2, <2>3, <2>4, <2>5 DEF MarkCopy, Program, Mark
  <2>6. CASE MarkRead(f)
    BY <2>2, <2>6 DEF MarkRead, Program, Mark
  <2> QED
    BY <2>5, <2>6
<1>3. OnlyFlippedWrong'
  <2> SUFFICES ASSUME NEW g \in Flags
               PROVE  IF g \in marked' THEN word' \cap Mask(g) \subseteq flipped'
                      ELSE Mask(g) \ word' \subseteq flipped'
    BY DEF OnlyFlippedWrong
  <2>1. CASE g = f
    BY <1>1, <2>1
  <2>2. CASE g # f /\ g \in marked
    BY <1>1, <2>2 DEF IInv, OnlyFlippedWrong
  <2>3. CASE g # f /\ g \notin marked
    BY <1>1, <1>2, <2>3 DEF IInv, OnlyFlippedWrong
  <2> QED
    BY <2>1, <2>2, <2>3
<1> QED
  BY <1>1, <1>3 DEF IInv, Tolerable

LEMMA FlipKeeps ==
    ASSUME IInv, NEW b \in Word, Flip(b)
    PROVE  IInv'
<1>1. OnlyFlippedWrong'
  BY DEF IInv, OnlyFlippedWrong, Flip
<1> QED
  BY <1>1 DEF IInv, Flip

\* Every state the program can reach reads the flags as they were marked: the bits
\* that are wrong are flipped ones, and four of nine do not change how a flag reads.
THEOREM FlagsSound == Spec => []FlagsReadAsMarked
<1>1. IInv /\ [Next]_vars => IInv'
  <2> SUFFICES ASSUME IInv, [Next]_vars  PROVE IInv'
    OBVIOUS
  <2>1. ASSUME NEW f \in Flags, MarkCopy(f) \/ MarkRead(f)  PROVE IInv'
    BY <2>1, MarkKeeps
  <2>2. ASSUME NEW b \in Word, Flip(b)  PROVE IInv'
    BY <2>2, FlipKeeps
  <2>3. CASE UNCHANGED vars
    BY <2>3 DEF vars, IInv, OnlyFlippedWrong, Tolerable
  <2> QED
    BY <2>1, <2>2, <2>3 DEF Next
<1>2. IInv => FlagsReadAsMarked
  <2> SUFFICES ASSUME IInv, NEW f \in Flags  PROVE IsSet(word, f) <=> f \in marked
    BY DEF FlagsReadAsMarked
  <2>1. Cardinality(flipped \cap Mask(f)) <= 4
    BY DEF IInv, Tolerable
  <2> QED
    BY <2>1, FourOfNine DEF IInv, OnlyFlippedWrong
<1> QED
  BY InitHolds, <1>1, <1>2, PTL DEF Spec

\* What is programmed into a word never unsets a flag: a power loss between the
\* writes of an entry's flags leaves those before it in force.
THEOREM ProgrammingKeepsFlags ==
    ASSUME NEW w \in SUBSET Word, NEW old \in SUBSET Word, NEW f \in Flags, IsSet(old, f)
    PROVE  IsSet(old \cap w, f)
<1>1. IsFiniteSet(old \cap Mask(f))
  BY Masks, FS_Subset
<1>2. /\ Cardinality(old \cap w \cap Mask(f)) <= Cardinality(old \cap Mask(f))
      /\ IsFiniteSet(old \cap w \cap Mask(f))
  BY <1>1, FS_Subset
<1>3. Cardinality(old \cap Mask(f)) \in Nat /\ Cardinality(old \cap w \cap Mask(f)) \in Nat
  BY <1>1, <1>2, FS_CardinalityType
<1> QED
  BY <1>2, <1>3 DEF IsSet
=============================================================================
