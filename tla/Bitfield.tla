------------------------------ MODULE Bitfield ------------------------------
(***************************************************************************)
(* bitfield.c: a set of bits in an array that is only there when the set is  *)
(* neither empty nor full, with a count of its members.  A field whose size   *)
(* is not known yet (a magnet link's peers) has hints instead of a size.      *)
(***************************************************************************)
EXTENDS Naturals, FiniteSets, FiniteSetsExt

CONSTANTS ByteBits,      \* 8 in the code
          FieldSizes,    \* bit_count; 0 is not known
          MaxBit,        \* the largest bit a peer may name when it is not
          MaxFieldCalls
ASSUME BitfieldAssumption == ByteBits \in Nat \ {0} /\ FieldSizes \subseteq Nat /\ {MaxBit, MaxFieldCalls} \subseteq Nat

VARIABLES
    field,      \* the tr_bitfield: its array as the set of its bits that are 1
    truth,      \* the set it stands for
    fieldCalls
fieldVars == <<field, truth, fieldCalls>>
FieldCall == fieldCalls < MaxFieldCalls /\ fieldCalls' = fieldCalls + 1

HasAll(b) == IF b.count > 0 THEN b.true = b.count ELSE b.all
HasNone(b) == IF b.count > 0 THEN b.true = 0 ELSE b.none
(* tr_bitfieldHas *)
Has(b, n) == HasAll(b) \/ (~HasNone(b) /\ n \div ByteBits < b.alloc /\ n \in b.bits)
(* get_bytes_needed *)
BytesNeeded(n) == (n + ByteBits - 1) \div ByteBits
InBytes(n) == 0..(n * ByteBits - 1)

(* countRange; bits beyond the array are not looked at *)
CountRange(b, begin, end) ==
    IF HasAll(b) THEN end - begin
    ELSE IF HasNone(b) \/ b.count = 0 \/ begin \div ByteBits >= b.alloc THEN 0
    ELSE Cardinality({n \in begin..(end - 1) : n \in b.bits /\ n \div ByteBits < b.alloc})

(* tr_bitfieldFreeArray, tr_bitfieldSetTrueCount *)
Freed(b) == [b EXCEPT !.bits = {}, !.alloc = 0]
SetTrueCount(b, n) ==
    LET counted == [b EXCEPT !.true = n] IN IF HasAll(counted) \/ HasNone(counted) THEN Freed(counted) ELSE counted
(* Mutant: the array of a full field is made empty *)
EnsureBitsAlloced_Empty(b, n) == [b EXCEPT !.alloc = IF @ < BytesNeeded(n) THEN BytesNeeded(n) ELSE @]
(* tr_bitfieldEnsureBitsAlloced: the array of a full field had been freed *)
EnsureBitsAlloced(b, n) ==
    LET needed == BytesNeeded(IF HasAll(b) /\ b.true > n THEN b.true ELSE n)
    IN  IF b.alloc >= needed THEN b
        ELSE [b EXCEPT !.alloc = needed, !.bits = IF HasAll(b) THEN 0..(b.true - 1) ELSE @]

SetHasNone(b) == [Freed(b) EXCEPT !.true = 0, !.all = FALSE, !.none = TRUE]
SetHasAll(b) == [Freed(b) EXCEPT !.true = b.count, !.all = TRUE, !.none = FALSE]
(* tr_bitfieldConstruct *)
Constructed(n) == [bits |-> {}, alloc |-> 0, count |-> n, true |-> 0, all |-> FALSE, none |-> FALSE]

BitAdded(b, n) ==
    IF Has(b, n) THEN b
    ELSE LET room == EnsureBitsAlloced(b, n + 1) IN SetTrueCount([room EXCEPT !.bits = @ \cup {n}], b.true + 1)
(* tr_bitfieldAddRange, tr_bitfieldRemRange: the range [begin, end) *)
RangeAdded(b, begin, end) ==
    LET diff == (end - begin) - CountRange(b, begin, end)
        room == EnsureBitsAlloced(b, end)
    IN  IF diff = 0 \/ end > b.count \/ begin >= end THEN b
        ELSE SetTrueCount([room EXCEPT !.bits = @ \cup begin..(end - 1)], b.true + diff)
RangeRemoved(b, begin, end) ==
    LET diff == CountRange(b, begin, end)
        room == EnsureBitsAlloced(b, end)
    IN  IF diff = 0 \/ end > b.count \/ begin >= end THEN b
        ELSE SetTrueCount([room EXCEPT !.bits = @ \ begin..(end - 1)], b.true - diff)
(* tr_bitfieldSetRaw: bounded, the excess bits of the last byte are cleared *)
SetRaw(b, bytes, bits, bounded) ==
    LET n == IF bounded /\ BytesNeeded(b.count) < bytes THEN BytesNeeded(b.count) ELSE bytes
        kept == {i \in bits : i \in InBytes(n) /\ (bounded => i < b.count)}
    IN  SetTrueCount([b EXCEPT !.bits = kept, !.alloc = n], Cardinality(kept))
(* tr_bitfieldSetFromFlags, tr_bitfieldSetFromBitfield *)
SetFromFlags(b, S) == SetTrueCount([EnsureBitsAlloced(Freed(b), b.count) EXCEPT !.bits = @ \cup S], Cardinality(S))
SetFromBitfield(b, src) ==
    IF HasAll(src) THEN SetHasAll(b) ELSE IF HasNone(src) THEN SetHasNone(b)
    ELSE SetRaw(b, src.alloc, src.bits, TRUE)
(* tr_bitfieldGetRaw *)
GetRaw(b) == IF b.alloc > 0 THEN b.bits ELSE IF HasAll(b) THEN 0..(b.count - 1) ELSE {}

(***************************************************************************)
(* A field in use: truth is what its calls ask for                         *)
(***************************************************************************)
BitfieldInit == /\ \E n \in FieldSizes : field = Constructed(n)
                /\ truth = {} /\ fieldCalls = 0
Bits == IF field.count > 0 THEN 0..(field.count - 1) ELSE 0..MaxBit
Does(b, S) == FieldCall /\ field' = b /\ truth' = S
AddBit(n) == Does(BitAdded(field, n), truth \cup {n})
AddRange(begin, end) == field.count > 0 /\ Does(RangeAdded(field, begin, end), truth \cup begin..(end - 1))
RemRange(begin, end) == field.count > 0 /\ Does(RangeRemoved(field, begin, end), truth \ begin..(end - 1))
SetAll == Does(SetHasAll(field), Bits)
SetNone == Does(SetHasNone(field), {})
(* tr_cpCreatePieceBitfield: into a field that was just made *)
SetFlags(S) == field = Constructed(field.count) /\ field.count > 0 /\ Does(SetFromFlags(field, S), S)
(* A BITFIELD message, or what a resume file holds *)
SetBytes(bytes, S) ==
    /\ S \subseteq InBytes(bytes) /\ (field.count > 0 => BytesNeeded(field.count) <= bytes)
    /\ Does(SetRaw(field, bytes, S, field.count > 0), S \cap (IF field.count > 0 THEN Bits ELSE S))
(* tr_peerMgrOnTorrentGotMetainfo and such: into a new field that has a size *)
Sized(n) ==
    /\ field.count = 0 /\ n > 0 /\ (field.alloc > 0 => BytesNeeded(n) <= field.alloc)
    /\ ~field.none   \* else what came after the hint is lost
    /\ Does(SetFromBitfield(Constructed(n), field), IF HasAll(field) THEN 0..(n - 1) ELSE truth \cap 0..(n - 1))

BitfieldNext ==
    \/ \E n \in Bits : AddBit(n)
    \/ \E begin, end \in Bits \cup {field.count} : begin < end /\ (AddRange(begin, end) \/ RemRange(begin, end))
    \/ SetAll
    \/ SetNone
    \/ \E S \in SUBSET Bits : SetFlags(S) \/ \E bytes \in 1..BytesNeeded(MaxBit + 1) : SetBytes(bytes, S)
    \/ \E n \in FieldSizes : Sized(n)
BitfieldSpec == BitfieldInit /\ [][BitfieldNext]_fieldVars

(***************************************************************************)
(* Properties                                                              *)
(***************************************************************************)
(* The field is the set it stands for, bit by bit, by count, by ranges and    *)
(* as bytes, whatever the array had been freed and made for - if its size is   *)
(* known.  The hint "none" of a field without a size is never taken back, so   *)
(* that what comes after it is lost.                                           *)
FieldIsSet ==
    /\ field.count > 0 =>
          /\ field.true = Cardinality(truth)
          /\ \A n \in Bits : Has(field, n) <=> n \in truth
          /\ \A begin, end \in 0..field.count :
                begin < end => CountRange(field, begin, end) = Cardinality(truth \cap begin..(end - 1))
          /\ GetRaw(field) = truth
    /\ field.count = 0 /\ ~field.none /\ ~field.all => \A n \in Bits : Has(field, n) <=> n \in truth
    /\ field.alloc > 0 => field.bits \subseteq InBytes(field.alloc)
=============================================================================
