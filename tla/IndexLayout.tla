----------------------------- MODULE IndexLayout -----------------------------
(***************************************************************************)
(* The byte layout of a block's index file, as index_handle.cpp reads and  *)
(* writes it through the shared mapping:                                   *)
(*                                                                         *)
(*    IndexHeader (44 bytes) | BucketSize 4-byte slots | MetaInfo nodes    *)
(*                                                                         *)
(* The file is a function from word addresses to integers; a MetaInfo is   *)
(* six consecutive words.  IndexHandle::create starts the node area at     *)
(* sizeof(IndexHandle) + slots, not at sizeof(IndexHeader) + slots, so the *)
(* first node lies on top of the last five bucket slots.  The layout below *)
(* keeps that overlap: both are addresses of the same words.               *)
(***************************************************************************)
EXTENDS Integers

CONSTANTS
  BucketSize,  \* number of hash buckets (1000 in the tools)
  FileWords    \* capacity of the storage under the index file, in words

HEADER_SIZE == 44      \* sizeof(IndexHeader)
HANDLE_SIZE == 24      \* sizeof(IndexHandle): vtable, file_op_, is_load_
META_SIZE   == 24      \* sizeof(MetaInfo), its padding word included

ASSUME LayoutAssumption ==
  /\ BucketSize \in Nat /\ BucketSize > 5
  /\ FileWords \in Nat /\ 4 * FileWords >= HEADER_SIZE + 4 * BucketSize

(* Addresses of the header fields: BlockInfo, then the rest of IndexHeader. *)
BLOCK_ID         == 0
VERSION          == 4
FILE_COUNT       == 8
SIZE             == 12
DEL_FILE_COUNT   == 16
DEL_SIZE         == 20
SEQ_NO           == 24
BUCKET_SIZE      == 28
DATA_FILE_OFFSET == 32
INDEX_FILE_SIZE  == 36
FREE_HEAD        == 40

Addr     == {4 * i : i \in 0 .. FileWords - 1}
Capacity == 4 * FileWords

(* bucket_slot()[s], and the hash function of hash_find and hash_insert. *)
SlotAddr(s)  == HEADER_SIZE + 4 * s
Slot(m, key) == key % m[BUCKET_SIZE]

(* Where create() lets the node area begin. *)
NodeBase    == HANDLE_SIZE + 4 * BucketSize
NodeOffsets == {o \in Addr : /\ \E i \in 0 .. FileWords : o = NodeBase + 24 * i
                             /\ o + META_SIZE <= Capacity}

(* A node at byte offset o lies inside the storage.                        *)
Within(o) == o >= 0 /\ o + META_SIZE <= Capacity

(***************************************************************************)
(* The 32-bit word at byte offset o.  Offsets that come out of an          *)
(* overlapped slot need not be aligned; then the four bytes are assembled  *)
(* from the two words they straddle, the last one carrying the sign.       *)
(***************************************************************************)
Byte(m, b) ==
  LET w == m[4 * (b \div 4)]
  IN  CASE b % 4 = 0 -> w % 256
        [] b % 4 = 1 -> (w \div 256) % 256
        [] b % 4 = 2 -> (w \div 65536) % 256
        [] b % 4 = 3 -> (w \div 16777216) % 256

Word(m, o) ==
  IF o \in Addr
  THEN m[o]
  ELSE LET top == Byte(m, o + 3)
       IN  Byte(m, o) + 256 * Byte(m, o + 1) + 65536 * Byte(m, o + 2)
             + 16777216 * (IF top < 128 THEN top ELSE top - 256)

(* A MetaInfo: the 64-bit fileid_ as two words, location_, the chain link. *)
MetaInfo == [lo : Int, hi : Int, inner_offset : Int, size : Int,
             next : Int, pad : Int]

ReadMeta(m, o) ==
  [lo |-> Word(m, o), hi |-> Word(m, o + 4), inner_offset |-> Word(m, o + 8),
   size |-> Word(m, o + 12), next |-> Word(m, o + 16), pad |-> Word(m, o + 20)]

WriteMeta(m, o, v) ==
  [m EXCEPT ![o] = v.lo, ![o + 4] = v.hi, ![o + 8] = v.inner_offset,
            ![o + 12] = v.size, ![o + 16] = v.next, ![o + 20] = v.pad]

(* Only the first n bytes of v reach the file at the word address o.  The  *)
(* last of its words that they reach may keep its upper bytes.             *)
LowBytes(new, old, k) ==
  LET bound == <<256, 65536, 16777216>>[k]
  IN  (new % bound) + bound * (old \div bound)

PartOfMeta(m, o, v, n) ==
  LET word   == <<v.lo, v.hi, v.inner_offset, v.size, v.next, v.pad>>
      new(a) == word[(a - o) \div 4 + 1]
  IN  [a \in Addr |-> CASE a >= o /\ a + 4 <= o + n            -> new(a)
                       [] a >= o /\ a < o + n /\ o + n < a + 4 -> LowBytes(new(a), m[a], o + n - a)
                       [] OTHER                                -> m[a]]

HasKey(v, key) == v.lo = key /\ v.hi = 0

(* What block_init leaves in the file: the header, and every bucket empty. *)
FreshIndex(block_id) ==
  [a \in Addr |-> CASE a = BLOCK_ID        -> block_id
                    [] a = SEQ_NO          -> 1
                    [] a = BUCKET_SIZE     -> BucketSize
                    [] a = INDEX_FILE_SIZE -> NodeBase
                    [] OTHER               -> 0]
=============================================================================
