----------------------------- MODULE IndexSafety -----------------------------
(***************************************************************************)
(* What holds of a block for every number of buckets, every size of the    *)
(* storage and every number of files and kills: the types, what each kind  *)
(* of store changes, and IndexInv, an invariant of a block whose ids hash  *)
(* below the overlapped slots and whose index fits into the largest        *)
(* mapping.                                                                *)
(***************************************************************************)
EXTENDS IndexProperties, TLAPS

USE LayoutAssumption, IndexHandleAssumption

(* The constants, all natural numbers.                                     *)
LEMMA Sizes ==
  /\ HEADER_SIZE = 44 /\ HANDLE_SIZE = 24 /\ META_SIZE = 24
  /\ Capacity \in Nat /\ NodeBase \in Nat
  /\ Capacity = 4 * FileWords /\ NodeBase = 24 + 4 * BucketSize
  /\ 44 + 4 * BucketSize <= Capacity
BY DEF HEADER_SIZE, HANDLE_SIZE, META_SIZE, Capacity, NodeBase

(* The addresses are the multiples of four inside the storage.             *)
LEMMA AddrIsWord == \A a : a \in Addr <=> a \in Nat /\ a % 4 = 0 /\ a < Capacity
BY DEF Addr, Capacity

(* Reading a node that lies inside the storage yields integers, also when  *)
(* its address is not that of a word.                                      *)
LEMMA ReadMetaType ==
  ASSUME NEW m \in [Addr -> Int], NEW o \in Int, Within(o)
  PROVE  ReadMeta(m, o) \in MetaInfo
<1>1. ASSUME NEW b \in Int, 0 <= b, b < Capacity
      PROVE  Byte(m, b) \in Int
  <2>1. 4 * (b \div 4) \in Addr
    BY <1>1 DEF Addr, Capacity
  <2>2. m[4 * (b \div 4)] \in Int
    BY <2>1
  <2>3. b % 4 \in 0 .. 3
    BY <1>1
  <2> QED  BY <2>2, <2>3 DEF Byte
<1>2. ASSUME NEW a \in Int, 0 <= a, a + 4 <= Capacity
      PROVE  Word(m, a) \in Int
  <2>1. /\ Byte(m, a) \in Int /\ Byte(m, a + 1) \in Int
        /\ Byte(m, a + 2) \in Int /\ Byte(m, a + 3) \in Int
    BY <1>1, <1>2, Sizes
  <2> QED  BY <2>1 DEF Word
<1> QED
  BY <1>2, Sizes DEF Within, ReadMeta, MetaInfo

(* Storing a node leaves a word in every address.                          *)
LEMMA WriteMetaType ==
  ASSUME NEW m \in [Addr -> Int], NEW o, NEW v \in MetaInfo
  PROVE  WriteMeta(m, o, v) \in [Addr -> Int]
BY DEF WriteMeta, MetaInfo
-----------------------------------------------------------------------------
(* Type correctness.  Which tool is at which step, and how far             *)
(* update_block_info can count, are part of the induction.                 *)

StepOK ==
  /\ pc # "idle" => op # "none"
  /\ pc \in {"pwrite_block", "alloc", "store", "link", "relink", "commit"} => op = "write"
  /\ pc \in {"unlink", "unlink_prev", "bypass", "free", "push"} => op = "delete"
  /\ pc = "update" => /\ op \in {"write", "delete"}
                      /\ op = "write" => step <= 4
                      /\ op = "delete" => step <= 5
  /\ pc \notin {"update", "flush", "reset"} => step = 1
  /\ pc = "flush" => op \in {"write", "delete"}
  /\ pc \in {"read_meta", "pread_block"} => op \in {"read", "recla"}
  /\ pc \in ReclaSteps => op = "recla"
  /\ pc \in {"relink", "bypass"} => Within(prev)

TypeInv == TypeOK /\ StepOK

SizesOK == /\ fsize \in FirstMap .. Capacity
           /\ mapped \in 0 .. Smaller(MaxMap, Capacity)

(* remapFile keeps the mapping within max_mmap_size_ and the file within   *)
(* the storage.                                                            *)
LEMMA RemappedType ==
  ASSUME TypeOK, NEW o \in Int, NEW r \in Remapped(o)
  PROVE  /\ r.mapped \in 0 .. Smaller(MaxMap, Capacity)
         /\ r.fsize \in FirstMap .. Capacity
BY Sizes DEF TypeOK, Remapped, Larger, Smaller

(* So does the first mapping, made by load.                                *)
LEMMA LoadType ==
  ASSUME TypeOK, Load
  PROVE  SizesOK'
BY Sizes DEF TypeOK, Load, Loaded, Larger, Smaller, SizesOK

(* pread_file succeeds only on a node inside the storage.                  *)
LEMMA PreadsType ==
  ASSUME TypeOK, NEW o \in Int, Preads(o)
  PROVE  Within(o) /\ SizesOK'
<1>1. PICK r \in Remapped(o) : /\ o >= 0 /\ o + META_SIZE <= Larger(r.mapped, r.fsize)
                               /\ mapped' = r.mapped /\ fsize' = r.fsize
  BY DEF Preads
<1> QED  BY <1>1, RemappedType, Sizes DEF Within, Larger, Smaller, SizesOK

(* The same of pwrite_file.                                                *)
LEMMA PwritesType ==
  ASSUME TypeOK, NEW o \in Int, Pwrites(o)
  PROVE  Within(o) /\ SizesOK'
<1>1. PICK r \in Remapped(o) : /\ o >= 0 /\ o + META_SIZE <= Capacity
                               /\ mapped' = r.mapped
                               /\ fsize' = Larger(r.fsize, o + META_SIZE)
  BY DEF Pwrites
<1> QED  BY <1>1, RemappedType, Sizes DEF Within, Larger, Smaller, SizesOK

(* The nodes the code builds are nodes: a cleared one, one with its inner  *)
(* offset reset, one with another link.                                    *)
LEMMA MetaTypes ==
  /\ NoMeta \in MetaInfo
  /\ \A v \in MetaInfo : /\ v.next \in Int /\ v.size \in Int
                         /\ Inserted(v) \in MetaInfo
                         /\ \A n \in Int : [v EXCEPT !.next = n] \in MetaInfo
BY DEF NoMeta, MetaInfo, Inserted

(* A tool that ends leaves its registers cleared.                          *)
LEMMA ExitType ==
  ASSUME TypeOK, NEW r \in Results, Exit(r), (mem \in [Addr -> Int])',
         (fsize \in FirstMap .. Capacity)', (block \in [DataOffsets -> Int])',
         UNCHANGED <<op, key>>, (kills \in 0 .. MaxKills)'
  PROVE  TypeInv'
BY MetaTypes, Sizes DEF TypeOK, StepOK, TypeInv, Exit, Steps, ReclaSteps, Smaller

(* A read that fails ends the tool and leaves every variable its type.     *)
LEMMA FailsType ==
  ASSUME TypeOK, NEW o \in Int, NEW m \in [Addr -> Int], Fails(o, m)
  PROVE  TypeInv'
<1>1. PICK r \in Remapped(o) : fsize' = r.fsize
  BY DEF Fails
<1>2. (fsize \in FirstMap .. Capacity)'
  BY <1>1, RemappedType
<1>3. Exit("IO_ERROR") /\ mem' = m /\ UNCHANGED <<block, op, key, kills>>
  BY DEF Fails
<1>4. "IO_ERROR" \in Results
  BY DEF Results
<1> QED  BY <1>2, <1>3, <1>4, ExitType DEF TypeOK

(* A word of which only some bytes are stored is an integer.               *)
LEMMA LowBytesType ==
  ASSUME NEW x \in Int, NEW y \in Int, NEW k \in 1 .. 3
  PROVE  LowBytes(x, y, k) \in Int
BY DEF LowBytes

(* A store that fails in the middle leaves integers, and every word before *)
(* and behind the node as it was.                                          *)
LEMMA PartOfMetaType ==
  ASSUME NEW m \in [Addr -> Int], NEW o \in Int, NEW v \in MetaInfo, NEW n \in 0 .. 23
  PROVE  /\ PartOfMeta(m, o, v, n) \in [Addr -> Int]
         /\ \A a \in Addr : a < o \/ a >= o + 24 => PartOfMeta(m, o, v, n)[a] = m[a]
<1> DEFINE word == <<v.lo, v.hi, v.inner_offset, v.size, v.next, v.pad>>
<1>1. \A i \in 1 .. 6 : word[i] \in Int
  BY DEF MetaInfo
<1> DEFINE new(a)  == word[(a - o) \div 4 + 1]
           part(a) == CASE a >= o /\ a + 4 <= o + n            -> new(a)
                        [] a >= o /\ a < o + n /\ o + n < a + 4 -> LowBytes(new(a), m[a], o + n - a)
                        [] OTHER                                -> m[a]
<1>2. ASSUME NEW a \in Addr, a >= o, a < o + n
      PROVE  new(a) \in Int
  <2>1. (a - o) \div 4 + 1 \in 1 .. 6
    BY <1>2, AddrIsWord
  <2> HIDE DEF word
  <2> QED  BY <1>1, <2>1
<1>3. ASSUME NEW a \in Addr
      PROVE  part(a) \in Int /\ (a < o \/ a >= o + 24 => part(a) = m[a])
  <2>1. a \in Int /\ m[a] \in Int
    BY AddrIsWord
  <2>2. CASE a >= o /\ a + 4 <= o + n
    <3>1. new(a) \in Int
      BY <1>2, <2>1, <2>2
    <3> HIDE DEF new
    <3> QED  BY <2>1, <2>2, <3>1
  <2>3. CASE a >= o /\ a < o + n /\ o + n < a + 4
    <3>1. LowBytes(new(a), m[a], o + n - a) \in Int
      <4>1. new(a) \in Int /\ o + n - a \in 1 .. 3
        BY <1>2, <2>1, <2>3
      <4> HIDE DEF new
      <4> QED  BY <2>1, <4>1, LowBytesType
    <3> HIDE DEF new
    <3> QED  BY <2>1, <2>3, <3>1
  <2>4. CASE ~ (a >= o /\ a + 4 <= o + n) /\ ~ (a >= o /\ a < o + n /\ o + n < a + 4)
    <3> HIDE DEF new
    <3> QED  BY <2>1, <2>4
  <2> QED  BY <2>2, <2>3, <2>4
<1>4. PartOfMeta(m, o, v, n) = [a \in Addr |-> part(a)]
  BY DEF PartOfMeta
<1> HIDE DEF part
<1> QED  BY <1>3, <1>4

(* So does a store that is cut short, by a failure or by a kill.           *)
LEMMA StoresPartType ==
  ASSUME TypeOK, NEW o \in Int, NEW v \in MetaInfo, NEW m \in [Addr -> Int],
         NEW r \in Remapped(o), NEW n \in TornBytes, StoresPart(n, o, v, m, r)
  PROVE  (mem \in [Addr -> Int])' /\ (fsize \in FirstMap .. Capacity)'
<1>1. n \in 0 .. 23
  BY Sizes
<1>2. (fsize \in FirstMap .. Capacity)'
  BY <1>1, RemappedType, Sizes DEF StoresPart, Larger
<1>3. mem' \in [Addr -> Int]
  BY <1>1, PartOfMetaType DEF StoresPart
<1> QED  BY <1>2, <1>3

(* A tool whose store fails ends and leaves every variable its type.       *)
LEMMA FailsStoringType ==
  ASSUME TypeOK, NEW o \in Int, NEW v \in MetaInfo, NEW m \in [Addr -> Int],
         FailsStoring(o, v, m)
  PROVE  TypeInv'
<1>1. PICK r \in Remapped(o), n \in TornBytes : StoresPart(n, o, v, m, r)
  BY DEF FailsStoring
<1>2. (mem \in [Addr -> Int])' /\ (fsize \in FirstMap .. Capacity)'
  BY <1>1, StoresPartType
<1>3. Exit("IO_ERROR") /\ UNCHANGED <<block, op, key, kills>>
  BY DEF FailsStoring
<1>4. "IO_ERROR" \in Results
  BY DEF Results
<1> QED  BY <1>2, <1>3, <1>4, ExitType DEF TypeOK

(* The words the stores write are integers.                                *)
LEMMA StoreTypes ==
  ASSUME NEW m \in [Addr -> Int]
  PROVE  /\ \A k, o \in Int : LinkedAtHead(m, k, o) \in [Addr -> Int]
         /\ \A o \in Int : Pushed(m, o) \in [Addr -> Int]
         /\ Grown(m) \in [Addr -> Int] /\ RolledBack(m) \in [Addr -> Int]
         /\ Committed(m) \in [Addr -> Int]
         /\ Within(m[FREE_HEAD]) => Popped(m) \in [Addr -> Int]
         /\ \A v \in MetaInfo : Freed(m, v) \in MetaInfo
         /\ \A p, o \in Int : Within(p) => Relinked(m, p, o) \in MetaInfo
         /\ \A p \in Int, v \in MetaInfo : Within(p) => Bypassing(m, p, v) \in MetaInfo
         /\ \A a \in Addr, n \in Int : Updated(m, <<a, n>>) \in [Addr -> Int]
<1>1. FREE_HEAD \in Addr /\ INDEX_FILE_SIZE \in Addr /\ DATA_FILE_OFFSET \in Addr
  BY Sizes, AddrIsWord DEF FREE_HEAD, INDEX_FILE_SIZE, DATA_FILE_OFFSET
<1>2. \A k, o \in Int : LinkedAtHead(m, k, o) \in [Addr -> Int]
  BY DEF LinkedAtHead
<1>3. \A o \in Int : Pushed(m, o) \in [Addr -> Int]
  BY DEF Pushed
<1>4. /\ Grown(m) \in [Addr -> Int] /\ RolledBack(m) \in [Addr -> Int]
      /\ Committed(m) \in [Addr -> Int]
  BY <1>1, Sizes DEF Grown, RolledBack, Committed
<1>5. ASSUME Within(m[FREE_HEAD]) PROVE Popped(m) \in [Addr -> Int]
  <2>1. m[FREE_HEAD] \in Int
    BY <1>1
  <2>2. ReadMeta(m, m[FREE_HEAD]).next \in Int
    BY <2>1, <1>5, ReadMetaType, MetaTypes
  <2> QED  BY <2>2 DEF Popped
<1>6. \A v \in MetaInfo : Freed(m, v) \in MetaInfo
  BY <1>1, MetaTypes DEF Freed
<1>7. \A p, o \in Int : Within(p) => Relinked(m, p, o) \in MetaInfo
  BY ReadMetaType, MetaTypes DEF Relinked
<1>8. \A p \in Int, v \in MetaInfo : Within(p) => Bypassing(m, p, v) \in MetaInfo
  BY ReadMetaType, MetaTypes DEF Bypassing
<1>9. \A a \in Addr, n \in Int : Updated(m, <<a, n>>) \in [Addr -> Int]
  BY DEF Updated
<1> QED  BY <1>2, <1>3, <1>4, <1>5, <1>6, <1>7, <1>8, <1>9

(* A block fresh from block_init has the types.                            *)
LEMMA TypeInvInit == Init => TypeInv
<1> SUFFICES ASSUME Init PROVE TypeInv
  OBVIOUS
<1>1. mem \in [Addr -> Int]
  BY Sizes DEF Init, FreshIndex
<1> QED  BY <1>1, MetaTypes, Sizes DEF Init, TypeInv, TypeOK, StepOK, Steps, ReclaSteps, Results, Smaller

(* The slot of a key is a bucket of the index as long as bucket_size_ is    *)
(* what it was created with.                                               *)
LEMMA SlotIsWord ==
  ASSUME NEW m \in [Addr -> Int], m[BUCKET_SIZE] = BucketSize, NEW k \in Int
  PROVE  SlotAddr(Slot(m, k)) \in Addr
<1>1. k % BucketSize \in 0 .. BucketSize - 1
  OBVIOUS
<1> QED  BY <1>1, Sizes, AddrIsWord DEF SlotAddr, Slot

(* Every step keeps the types while bucket_size_ is what the index was     *)
(* created with: only then is every hash slot a word of the index.         *)
LEMMA TypeInvStep ==
  ASSUME TypeInv, mem[BUCKET_SIZE] = BucketSize, [Next]_vars
  PROVE  TypeInv'
<1> USE DEF TypeInv
<1>a. mem \in [Addr -> Int] /\ pos \in Int /\ prev \in Int /\ cur \in Int /\ key \in Int
      /\ meta \in MetaInfo
  BY DEF TypeOK
<1>b. FREE_HEAD \in Addr /\ INDEX_FILE_SIZE \in Addr /\ SEQ_NO \in Addr
      /\ DATA_FILE_OFFSET \in Addr /\ VERSION \in Addr /\ FILE_COUNT \in Addr
      /\ SIZE \in Addr /\ DEL_FILE_COUNT \in Addr /\ DEL_SIZE \in Addr
  BY Sizes, AddrIsWord
     DEF FREE_HEAD, INDEX_FILE_SIZE, SEQ_NO, DATA_FILE_OFFSET, VERSION, FILE_COUNT,
         SIZE, DEL_FILE_COUNT, DEL_SIZE
<1>c. "IO_ERROR" \in Results /\ "TFS_SUCCESS" \in Results /\ "TFS_ERROR" \in Results
      /\ "killed" \in Results /\ "EXIT_MEFA_NOT_FOUND_ERROR" \in Results
      /\ "EXIT_META_UNEXPECT_FOUND_ERROR" \in Results
  BY DEF Results
<1>1. CASE StartWrite
  <2>1. meta' = [lo |-> mem[SEQ_NO], hi |-> 0, inner_offset |-> mem[DATA_FILE_OFFSET],
                 size |-> FileSize, next |-> 0, pad |-> 0]
    BY <1>1 DEF StartWrite, NoMeta
  <2>2. meta' \in MetaInfo /\ key' \in Int
    BY <1>1, <1>a, <1>b, <2>1 DEF StartWrite, MetaInfo
  <2> QED  BY <1>1, <2>2, LoadType DEF StartWrite, TypeOK, StepOK, Steps, ReclaSteps, Results, SizesOK
<1>2. ASSUME NEW t \in {"read", "delete"}, NEW k \in FileIds, StartLookup(t, k)
      PROVE  TypeInv'
  BY <1>2, LoadType DEF StartLookup, TypeOK, StepOK, Steps, ReclaSteps, Results, SizesOK, FileIds
<1>3. CASE WriteBlock
  <2>1. CASE /\ block' = [block EXCEPT ![meta.inner_offset] = key]
             /\ Goto("find")
             /\ UNCHANGED <<mem, fsize, mapped, regVars>>
    BY <2>1, <1>3 DEF WriteBlock, Goto, regVars, TypeOK, StepOK, Steps, ReclaSteps
  <2>2. CASE /\ \/ UNCHANGED block
                \/ block' = [block EXCEPT ![meta.inner_offset] = Overwritten(@, key)]
             /\ Exit("IO_ERROR")
             /\ UNCHANGED <<mem, fsize, op, key, kills>>
    <3>1. (block \in [DataOffsets -> Int])'
      BY <2>2 DEF TypeOK, Overwritten, TORN
    <3> QED  BY <2>2, <3>1, <1>c, ExitType DEF TypeOK
  <2> QED  BY <1>3, <2>1, <2>2 DEF WriteBlock
<1>4. CASE HashFindSlot
  <2>1. mem[SlotAddr(Slot(mem, key))] \in Int
    BY <1>a, SlotIsWord
  <2> QED  BY <1>4, <2>1 DEF HashFindSlot, Goto, fileVars, TypeOK, StepOK, Steps, ReclaSteps
<1>5. CASE HashFindEnd
  <2>1. CASE op = "write"
    BY <1>5, <2>1 DEF HashFindEnd, Goto, fileVars, regVars, TypeOK, StepOK, Steps, ReclaSteps
  <2>2. CASE op # "write"
    BY <1>5, <2>2, <1>c, ExitType DEF HashFindEnd, fileVars, TypeOK
  <2> QED  BY <2>1, <2>2
<1>6. CASE HashFindHit
  <2>1. CASE op = "write"
    <3>1. PICK r \in Remapped(pos) : fsize' = r.fsize
      BY <1>6, <2>1 DEF HashFindHit, HitOn
    <3>2. (fsize \in FirstMap .. Capacity)'
      BY <3>1, <1>a, RemappedType
    <3> QED  BY <1>6, <2>1, <3>2, <1>c, ExitType DEF HashFindHit, HitOn, TypeOK
  <2>2. CASE op # "write"
    BY <1>6, <2>2, <1>a, PreadsType DEF HashFindHit, HitOn, Goto, TypeOK, StepOK, Steps, ReclaSteps, SizesOK
  <2> QED  BY <2>1, <2>2
<1>7. CASE HashFindNext
  <2>1. Within(pos) /\ SizesOK'
    BY <1>7, <1>a, PreadsType DEF HashFindNext, PassOn
  <2>2. ReadMeta(mem, pos).next \in Int
    BY <2>1, <1>a, ReadMetaType, MetaTypes
  <2> QED  BY <1>7, <2>1, <2>2 DEF HashFindNext, PassOn, Goto, TypeOK, StepOK, Steps, ReclaSteps, SizesOK
<1>8. CASE HashFindFails
  <2>1. CASE Fails(pos, mem)
    BY <2>1, <1>a, FailsType
  <2>2. CASE Faults(pos)
    BY <2>2, <1>c, ExitType DEF Faults, fileVars, TypeOK
  <2> QED  BY <1>8, <2>1, <2>2 DEF HashFindFails
<1>9. CASE ReuseNode
  <2>0. mem[FREE_HEAD] \in Int
    BY <1>a, <1>b
  <2>1. CASE Fails(mem[FREE_HEAD], mem)
    BY <2>0, <2>1, <1>a, FailsType
  <2>2. CASE ~ Fails(mem[FREE_HEAD], mem)
    <3>1. Within(mem[FREE_HEAD]) /\ SizesOK'
      BY <1>9, <2>0, <2>2, PreadsType DEF ReuseNode
    <3>2. Popped(mem) \in [Addr -> Int]
      BY <3>1, <1>a, StoreTypes
    <3> QED
      BY <1>9, <2>0, <2>2, <3>1, <3>2 DEF ReuseNode, Goto, TypeOK, StepOK, Steps, ReclaSteps, SizesOK
  <2> QED  BY <2>1, <2>2
<1>10. CASE AppendNode
  <2>1. Grown(mem) \in [Addr -> Int] /\ mem[INDEX_FILE_SIZE] \in Int
    BY <1>a, <1>b, StoreTypes
  <2> QED  BY <1>10, <2>1 DEF AppendNode, Goto, TypeOK, StepOK, Steps, ReclaSteps
<1>11. CASE StoreMeta
  <2> DEFINE fails == FailsStoring(cur, Inserted(meta), RolledBack(mem))
  <2>1. CASE fails
    BY <2>1, <1>a, StoreTypes, MetaTypes, FailsStoringType
  <2>2. CASE ~ fails
    <3>1. SizesOK' /\ meta' = Inserted(meta) /\ mem' = WriteMeta(mem, cur, meta')
      BY <1>11, <2>2, <1>a, PwritesType DEF StoreMeta
    <3>2. meta' \in MetaInfo /\ mem' \in [Addr -> Int]
      BY <3>1, <1>a, MetaTypes, WriteMetaType
    <3> QED
      BY <1>11, <2>2, <3>1, <3>2 DEF StoreMeta, Goto, TypeOK, StepOK, Steps, ReclaSteps, SizesOK
  <2> QED  BY <2>1, <2>2
<1>12. CASE LinkNode
  <2>1. CASE Fails(prev, RolledBack(mem))
    BY <2>1, <1>a, StoreTypes, FailsType
  <2>2. CASE ~ Fails(prev, RolledBack(mem)) /\ prev = 0
    BY <1>12, <2>2, <1>a, StoreTypes DEF LinkNode, Goto, regVars, TypeOK, StepOK, Steps, ReclaSteps
  <2>3. CASE ~ Fails(prev, RolledBack(mem)) /\ prev # 0
    <3>1. Within(prev) /\ SizesOK'
      BY <1>12, <2>3, <1>a, PreadsType DEF LinkNode
    <3>2. Within(prev')
      BY <1>12, <2>3, <3>1 DEF LinkNode, regVars
    <3> QED
      BY <1>12, <2>3, <3>1, <3>2
         DEF LinkNode, Goto, regVars, TypeOK, StepOK, Steps, ReclaSteps, SizesOK
  <2> QED  BY <2>1, <2>2, <2>3
<1>13. CASE RelinkNode
  <2> DEFINE v == Relinked(mem, prev, cur)
             fails == FailsStoring(cur, v, RolledBack(mem))
  <2>1. v \in MetaInfo
    BY <1>13, <1>a, StoreTypes DEF RelinkNode, StepOK
  <2>2. CASE fails
    BY <2>1, <2>2, <1>a, StoreTypes, FailsStoringType
  <2>3. CASE ~ fails
    <3>1. SizesOK' /\ mem' = WriteMeta(mem, cur, v)
      BY <1>13, <2>3, <1>a, PwritesType DEF RelinkNode
    <3>2. mem' \in [Addr -> Int]
      BY <2>1, <3>1, <1>a, WriteMetaType
    <3> QED
      BY <1>13, <2>3, <3>1, <3>2 DEF RelinkNode, Goto, regVars, TypeOK, StepOK, Steps, ReclaSteps, SizesOK
  <2> QED  BY <2>2, <2>3
<1>14. CASE CommitOffset
  BY <1>14, <1>a, StoreTypes DEF CommitOffset, Goto, regVars, TypeOK, StepOK, Steps, ReclaSteps
<1>15. CASE UpdateBlockInfo
  <2> DEFINE u == BlockInfoUpdates(op, meta.size)
  <2>1. meta.size \in Int
    BY <1>a, MetaTypes
  <2>2. step \in 1 .. 6 /\ (op = "write" => step <= 4) /\ (op = "delete" => step <= 5)
        /\ op \in {"write", "delete"}
    BY <1>15 DEF UpdateBlockInfo, TypeOK, StepOK
  <2>3. CASE op = "write"
    <3>1. u = << <<VERSION, 1>>, <<FILE_COUNT, 1>>, <<SEQ_NO, 1>>, <<SIZE, meta.size>> >>
      BY <2>3 DEF BlockInfoUpdates
    <3>2. step \in {1, 2, 3, 4}
      BY <2>2, <2>3
    <3>3. Len(u) = 4 /\ \E a \in Addr, n \in Int : u[step] = <<a, n>>
      BY <3>1, <3>2, <2>1, <1>b
    <3>4. mem' \in [Addr -> Int]
      BY <1>15, <3>3, <1>a, StoreTypes DEF UpdateBlockInfo
    <3>5. pc' = (IF step = 4 THEN "flush" ELSE "update") /\ step' = step + 1
      BY <1>15, <3>3 DEF UpdateBlockInfo, Goto
    <3>6. UNCHANGED <<fsize, mapped, block, pos, prev, cur, meta, op, key, ret, kills>>
      BY <1>15 DEF UpdateBlockInfo, Goto
    <3> QED
      BY <2>3, <3>2, <3>4, <3>5, <3>6 DEF TypeOK, StepOK, Steps, ReclaSteps
  <2>4. CASE op = "delete"
    <3>1. u = << <<VERSION, 1>>, <<FILE_COUNT, -1>>, <<SIZE, -meta.size>>,
                 <<DEL_FILE_COUNT, 1>>, <<DEL_SIZE, meta.size>> >>
      BY <2>4 DEF BlockInfoUpdates
    <3>2. step \in {1, 2, 3, 4, 5}
      BY <2>2, <2>4
    <3>3. Len(u) = 5 /\ \E a \in Addr, n \in Int : u[step] = <<a, n>>
      BY <3>1, <3>2, <2>1, <1>b
    <3>4. mem' \in [Addr -> Int]
      BY <1>15, <3>3, <1>a, StoreTypes DEF UpdateBlockInfo
    <3>5. pc' = (IF step = 5 THEN "flush" ELSE "update") /\ step' = step + 1
      BY <1>15, <3>3 DEF UpdateBlockInfo, Goto
    <3>6. UNCHANGED <<fsize, mapped, block, pos, prev, cur, meta, op, key, ret, kills>>
      BY <1>15 DEF UpdateBlockInfo, Goto
    <3> QED
      BY <2>4, <3>2, <3>4, <3>5, <3>6 DEF TypeOK, StepOK, Steps, ReclaSteps
  <2> QED  BY <2>2, <2>3, <2>4
<1>16. CASE Flush
  BY <1>16, <1>c, ExitType DEF Flush, fileVars, TypeOK
<1>17. CASE UnlinkNode
  <2>1. CASE Fails(cur, mem)
    BY <2>1, <1>a, FailsType
  <2>2. CASE ~ Fails(cur, mem)
    <3>1. Within(cur) /\ SizesOK' /\ meta' = ReadMeta(mem, cur)
      BY <1>17, <2>2, <1>a, PreadsType DEF UnlinkNode
    <3>2. meta' \in MetaInfo
      BY <3>1, <1>a, ReadMetaType
    <3>3. mem' \in [Addr -> Int]
      <4>1. mem' = IF prev = 0 THEN LinkedAtHead(mem, key, meta'.next) ELSE mem
        BY <1>17, <2>2 DEF UnlinkNode
      <4>2. meta'.next \in Int
        BY <3>2, MetaTypes
      <4>3. LinkedAtHead(mem, key, meta'.next) \in [Addr -> Int]
        BY <4>2, <1>a, StoreTypes
      <4> QED  BY <4>1, <4>3, <1>a
    <3> QED
      BY <1>17, <2>2, <3>1, <3>2, <3>3 DEF UnlinkNode, Goto, TypeOK, StepOK, Steps, ReclaSteps, SizesOK
  <2> QED  BY <2>1, <2>2
<1>18. CASE UnlinkBehind
  <2>1. CASE Fails(prev, mem)
    BY <2>1, <1>a, FailsType
  <2>2. CASE ~ Fails(prev, mem)
    <3>1. Within(prev) /\ SizesOK' /\ prev' = prev
      BY <1>18, <2>2, <1>a, PreadsType DEF UnlinkBehind, regVars
    <3> QED
      BY <1>18, <2>2, <3>1
         DEF UnlinkBehind, Goto, regVars, TypeOK, StepOK, Steps, ReclaSteps, SizesOK
  <2> QED  BY <2>1, <2>2
<1>18a. CASE BypassNode
  <2> DEFINE v == Bypassing(mem, prev, meta)
             fails == FailsStoring(prev, v, mem)
  <2>1. v \in MetaInfo
    BY <1>18a, <1>a, StoreTypes DEF BypassNode, StepOK
  <2>2. CASE fails
    BY <2>1, <2>2, <1>a, FailsStoringType
  <2>3. CASE ~ fails
    <3>1. SizesOK' /\ mem' = WriteMeta(mem, prev, v)
      BY <1>18a, <2>3, <1>a, PwritesType DEF BypassNode
    <3>2. mem' \in [Addr -> Int]
      BY <2>1, <3>1, <1>a, WriteMetaType
    <3> QED
      BY <1>18a, <2>3, <3>1, <3>2 DEF BypassNode, Goto, regVars, TypeOK, StepOK, Steps, ReclaSteps, SizesOK
  <2> QED  BY <2>2, <2>3
<1>19. CASE FreeNode
  <2> DEFINE v == Freed(mem, meta)
             fails == FailsStoring(cur, v, mem)
  <2>1. v \in MetaInfo
    BY <1>a, StoreTypes
  <2>2. CASE fails
    BY <2>1, <2>2, <1>a, FailsStoringType
  <2>3. CASE ~ fails
    <3>1. SizesOK' /\ mem' = WriteMeta(mem, cur, v)
      BY <1>19, <2>3, <1>a, PwritesType DEF FreeNode
    <3>2. mem' \in [Addr -> Int]
      BY <2>1, <3>1, <1>a, WriteMetaType
    <3> QED
      BY <1>19, <2>3, <3>1, <3>2 DEF FreeNode, Goto, regVars, TypeOK, StepOK, Steps, ReclaSteps, SizesOK
  <2> QED  BY <2>2, <2>3
<1>20. CASE PushNode
  BY <1>20, <1>a, StoreTypes DEF PushNode, Goto, regVars, TypeOK, StepOK, Steps, ReclaSteps
<1>21. CASE ReadSegmentMeta
  <2>1. CASE Fails(cur, mem)
    BY <2>1, <1>a, FailsType
  <2>2. CASE ~ Fails(cur, mem)
    <3>1. Within(cur) /\ SizesOK' /\ meta' = ReadMeta(mem, cur)
      BY <1>21, <2>2, <1>a, PreadsType DEF ReadSegmentMeta, TakesMeta
    <3>2. meta' \in MetaInfo
      BY <3>1, <1>a, ReadMetaType
    <3> QED
      BY <1>21, <2>2, <3>1, <3>2 DEF ReadSegmentMeta, TakesMeta, Goto, TypeOK, StepOK, Steps, ReclaSteps, SizesOK
  <2> QED  BY <2>1, <2>2
<1>22. CASE ReadBlock
  BY <1>22, <1>c, ExitType DEF ReadBlock, fileVars, TypeOK
<1>23. CASE Kill
  <2>1. (kills \in 0 .. MaxKills)'
    BY <1>23 DEF Kill, TypeOK
  <2> QED  BY <1>23, <2>1, <1>c, ExitType DEF Kill, fileVars, TypeOK
<1>24. CASE KillStoring
  <2>1. PICK o \in Int, v \in MetaInfo : Torn(o, v)
    <3>1. pc = "relink" => Relinked(mem, prev, cur) \in MetaInfo
      BY <1>a, StoreTypes DEF StepOK
    <3>2. pc = "bypass" => Bypassing(mem, prev, meta) \in MetaInfo
      BY <1>a, StoreTypes DEF StepOK
    <3>3. Inserted(meta) \in MetaInfo /\ Freed(mem, meta) \in MetaInfo
      BY <1>a, StoreTypes, MetaTypes
    <3> QED  BY <1>24, <1>a, <3>1, <3>2, <3>3 DEF KillStoring
  <2>2. (mem \in [Addr -> Int])' /\ (fsize \in FirstMap .. Capacity)'
    BY <2>1, <1>a, StoresPartType DEF Torn
  <2>3. (kills \in 0 .. MaxKills)'
    BY <1>24 DEF KillStoring, TypeOK
  <2> QED  BY <1>24, <2>2, <2>3, <1>c, ExitType DEF KillStoring, TypeOK
<1>25. CASE UNCHANGED vars
  BY <1>25 DEF vars, TypeOK, StepOK, Within
<1> QED
  BY <1>1, <1>2, <1>3, <1>4, <1>5, <1>6, <1>7, <1>8, <1>9, <1>10, <1>11, <1>12,
     <1>13, <1>14, <1>15, <1>16, <1>17, <1>18, <1>18a, <1>19, <1>20, <1>21, <1>22, <1>23,
     <1>24, <1>25 DEF Next, Start, ToolStep
-----------------------------------------------------------------------------
(* How the stores of the tools change what can be read from the index,     *)
(* while all ids in play hash below the overlapped slots.                  *)

(* The header fields are distinct words before the first bucket slot.      *)
LEMMA HeaderAddresses ==
  /\ \A a \in {BLOCK_ID, VERSION, FILE_COUNT, SIZE, DEL_FILE_COUNT, DEL_SIZE, SEQ_NO,
               BUCKET_SIZE, DATA_FILE_OFFSET, INDEX_FILE_SIZE, FREE_HEAD} :
       a \in Addr /\ a < HEADER_SIZE
  /\ \A a \in {VERSION, FILE_COUNT, SIZE, DEL_FILE_COUNT, DEL_SIZE, SEQ_NO,
               DATA_FILE_OFFSET} : a \notin {BUCKET_SIZE, INDEX_FILE_SIZE, FREE_HEAD}
  /\ \A a \in {VERSION, FILE_COUNT, SIZE, DEL_FILE_COUNT, DEL_SIZE,
               DATA_FILE_OFFSET, INDEX_FILE_SIZE, FREE_HEAD} : a # SEQ_NO
  /\ INDEX_FILE_SIZE # FREE_HEAD /\ BUCKET_SIZE # FREE_HEAD
  /\ INDEX_FILE_SIZE # BUCKET_SIZE /\ SEQ_NO # BUCKET_SIZE
BY Sizes, AddrIsWord
   DEF BLOCK_ID, VERSION, FILE_COUNT, SIZE, DEL_FILE_COUNT, DEL_SIZE, SEQ_NO,
       BUCKET_SIZE, DATA_FILE_OFFSET, INDEX_FILE_SIZE, FREE_HEAD

(* A node lies behind the slots of the early ids, on word addresses.       *)
LEMMA NodeAddresses ==
  ASSUME NEW o \in NodeOffsets
  PROVE  /\ o \in Nat /\ IsNodeOffset(o) /\ Within(o)
         /\ o \in Addr /\ o + 4 \in Addr /\ o + 8 \in Addr
         /\ o + 12 \in Addr /\ o + 16 \in Addr /\ o + 20 \in Addr
<1>1. PICK i \in 0 .. FileWords : o = NodeBase + 24 * i
  BY DEF NodeOffsets
<1>2. o \in Addr /\ o + 24 <= Capacity
  BY Sizes DEF NodeOffsets
<1> QED  BY <1>1, <1>2, Sizes, AddrIsWord DEF IsNodeOffset, Within

(* An offset at a multiple of a node behind NodeBase, inside the storage,  *)
(* is a node.                                                              *)
LEMMA IsNode ==
  ASSUME NEW o \in Int, IsNodeOffset(o), Within(o)
  PROVE  o \in NodeOffsets
<1> DEFINE i == (o - NodeBase) \div 24
<1>1. i \in Nat /\ o = NodeBase + 24 * i
  BY Sizes DEF IsNodeOffset
<1>2. o \in Addr
  BY <1>1, Sizes, AddrIsWord DEF Within
<1>3. i \in 0 .. FileWords
  BY <1>1, Sizes DEF Within
<1> QED  BY <1>1, <1>2, <1>3, Sizes DEF NodeOffsets, Within

(* Two nodes do not overlap.                                               *)
LEMMA NodesApart ==
  ASSUME NEW o \in Int, NEW p \in Int, IsNodeOffset(o), IsNodeOffset(p), o < p
  PROVE  o + META_SIZE <= p
<1>1. /\ (o - NodeBase) % 24 = 0 /\ (p - NodeBase) % 24 = 0
  BY Sizes DEF IsNodeOffset
<1> QED  BY <1>1, Sizes

(* Reading a node is reading its six words.                                *)
LEMMA ReadMetaWords ==
  ASSUME NEW m, NEW o \in NodeOffsets
  PROVE  ReadMeta(m, o) = [lo |-> m[o], hi |-> m[o + 4], inner_offset |-> m[o + 8],
                           size |-> m[o + 12], next |-> m[o + 16], pad |-> m[o + 20]]
BY NodeAddresses DEF ReadMeta, Word

(* The early ids have slots of their own, before the first node.           *)
LEMMA SlotAddresses ==
  ASSUME EarlyBlock, NEW k \in FileIds
  PROVE  /\ k % BucketSize = k
         /\ SlotAddr(k) \in Addr /\ SlotAddr(k) < NodeBase /\ SlotAddr(k) >= HEADER_SIZE
         /\ \A j \in FileIds : SlotAddr(j) = SlotAddr(k) => j = k
<1>1. k \in Nat /\ k < BucketSize - 5
  BY DEF EarlyBlock, FileIds
<1>2. k % BucketSize = k
  BY <1>1
<1>3. /\ SlotAddr(k) = 44 + 4 * k
      /\ SlotAddr(k) \in Nat /\ SlotAddr(k) % 4 = 0 /\ SlotAddr(k) < Capacity
  BY <1>1, Sizes DEF SlotAddr
<1>4. SlotAddr(k) \in Addr
  BY <1>3, AddrIsWord
<1>5. \A j \in FileIds : SlotAddr(j) = SlotAddr(k) => j = k
  BY <1>1, Sizes DEF SlotAddr, FileIds
<1> QED  BY <1>1, <1>2, <1>3, <1>4, <1>5, Sizes
-----------------------------------------------------------------------------
(* What a step keeps of what can be read.                                  *)

SameBuckets == \A k \in FileIds : BucketHead(k)' = BucketHead(k)
SameNodes   == \A o \in NodeOffsets : ReadMeta(mem', o) = ReadMeta(mem, o)
SameHeader  == \A a \in Addr : a < HEADER_SIZE => mem'[a] = mem[a]

(* A store to a word below the node area changes no node.                  *)
LEMMA LowStore ==
  ASSUME TypeOK, NEW a \in Addr, a < NodeBase, NEW x, mem' = [mem EXCEPT ![a] = x]
  PROVE  SameNodes
<1> SUFFICES ASSUME NEW o \in NodeOffsets PROVE ReadMeta(mem', o) = ReadMeta(mem, o)
  BY DEF SameNodes
<1>1. \A b \in Addr : b # a => mem'[b] = mem[b]
  BY DEF TypeOK
<1>2. o \in Int /\ o >= NodeBase
  BY NodeAddresses DEF IsNodeOffset
<1>3. /\ mem'[o] = mem[o] /\ mem'[o + 4] = mem[o + 4] /\ mem'[o + 8] = mem[o + 8]
      /\ mem'[o + 12] = mem[o + 12] /\ mem'[o + 16] = mem[o + 16]
      /\ mem'[o + 20] = mem[o + 20]
  BY <1>1, <1>2, NodeAddresses, Sizes, AddrIsWord
<1> QED  BY <1>3, ReadMetaWords

(* A store to a header field changes no bucket and no node.                *)
LEMMA HeaderStore ==
  ASSUME EarlyBlock, TypeOK, NEW a \in Addr, a < HEADER_SIZE, NEW x,
         mem' = [mem EXCEPT ![a] = x]
  PROVE  /\ SameBuckets /\ SameNodes
         /\ mem'[a] = x /\ \A b \in Addr : b # a => mem'[b] = mem[b]
<1>1. mem'[a] = x /\ \A b \in Addr : b # a => mem'[b] = mem[b]
  BY DEF TypeOK
<1>2. a \in Nat /\ a < NodeBase
  BY Sizes, AddrIsWord
<1>3. SameNodes
  BY <1>2, LowStore
<1>4. SameBuckets
  BY <1>1, <1>2, SlotAddresses, Sizes DEF SameBuckets, BucketHead, FileIds
<1> QED  BY <1>1, <1>3, <1>4

(* LinkedAtHead changes one bucket and nothing else.                       *)
LEMMA SlotStore ==
  ASSUME EarlyBlock, TypeOK, mem[BUCKET_SIZE] = BucketSize, NEW k \in FileIds, NEW x,
         mem' = LinkedAtHead(mem, k, x)
  PROVE  /\ SameHeader /\ SameNodes
         /\ BucketHead(k)' = x
         /\ \A j \in FileIds : j # k => BucketHead(j)' = BucketHead(j)
<1>1. Slot(mem, k) = k /\ SlotAddr(k) \in Addr
  BY SlotAddresses DEF Slot
<1>2. mem' = [mem EXCEPT ![SlotAddr(k)] = x]
  BY <1>1 DEF LinkedAtHead
<1>3. SameNodes
  BY <1>1, <1>2, SlotAddresses, LowStore
<1>4. \A b \in Addr : b # SlotAddr(k) => mem'[b] = mem[b]
  BY <1>2 DEF TypeOK
<1>5. SameHeader
  <2>1. SlotAddr(k) \in Nat /\ HEADER_SIZE \in Nat /\ SlotAddr(k) >= HEADER_SIZE
    BY <1>1, SlotAddresses, Sizes, AddrIsWord
  <2> QED  BY <1>4, <2>1, AddrIsWord DEF SameHeader
<1>6. BucketHead(k)' = x
  BY <1>1, <1>2, SlotAddresses DEF BucketHead, TypeOK
<1>7. ASSUME NEW j \in FileIds, j # k PROVE BucketHead(j)' = BucketHead(j)
  BY <1>4, <1>7, SlotAddresses DEF BucketHead
<1> QED  BY <1>3, <1>5, <1>6, <1>7

(* Storing a node changes that node and nothing else.                      *)
LEMMA NodeStore ==
  ASSUME EarlyBlock, TypeOK, NEW o \in NodeOffsets, NEW v \in MetaInfo,
         mem' = WriteMeta(mem, o, v)
  PROVE  /\ SameHeader /\ SameBuckets
         /\ ReadMeta(mem', o) = v
         /\ \A p \in NodeOffsets : p # o => ReadMeta(mem', p) = ReadMeta(mem, p)
<1>1. /\ o \in Nat /\ o >= NodeBase /\ IsNodeOffset(o)
      /\ o \in Addr /\ o + 4 \in Addr /\ o + 8 \in Addr
      /\ o + 12 \in Addr /\ o + 16 \in Addr /\ o + 20 \in Addr
  BY NodeAddresses DEF IsNodeOffset
<1>2. /\ mem'[o] = v.lo /\ mem'[o + 4] = v.hi /\ mem'[o + 8] = v.inner_offset
      /\ mem'[o + 12] = v.size /\ mem'[o + 16] = v.next /\ mem'[o + 20] = v.pad
  BY <1>1 DEF WriteMeta, TypeOK
<1>3. \A b \in Addr : b < o \/ b >= o + 24 => mem'[b] = mem[b]
  BY <1>1, AddrIsWord DEF WriteMeta, TypeOK
<1>4. SameHeader
  BY <1>1, <1>3, Sizes, AddrIsWord DEF SameHeader
<1>5. SameBuckets
  <2> SUFFICES ASSUME NEW k \in FileIds PROVE BucketHead(k)' = BucketHead(k)
    BY DEF SameBuckets
  <2>1. SlotAddr(k) \in Addr /\ SlotAddr(k) < o
    BY <1>1, SlotAddresses, Sizes, AddrIsWord
  <2> QED  BY <2>1, <1>3, SlotAddresses DEF BucketHead
<1>6. ReadMeta(mem', o) = v
  BY <1>2, ReadMetaWords DEF MetaInfo
<1>7. ASSUME NEW p \in NodeOffsets, p # o PROVE ReadMeta(mem', p) = ReadMeta(mem, p)
  <2>1. /\ p \in Nat /\ IsNodeOffset(p)
        /\ p \in Addr /\ p + 4 \in Addr /\ p + 8 \in Addr
        /\ p + 12 \in Addr /\ p + 16 \in Addr /\ p + 20 \in Addr
    BY NodeAddresses
  <2>2. p + 24 <= o \/ o + 24 <= p
    BY <1>1, <1>7, <2>1, NodesApart, Sizes
  <2> QED  BY <1>1, <1>3, <2>1, <2>2, ReadMetaWords
<1> QED  BY <1>4, <1>5, <1>6, <1>7

(* A store cut short changes at most the node it was to change, also when  *)
(* that one does not fit into the storage.                                 *)
LEMMA TornStore ==
  ASSUME EarlyBlock, TypeOK, NEW o \in Int, IsNodeOffset(o), NEW v \in MetaInfo,
         NEW n \in TornBytes, mem' = PartOfMeta(mem, o, v, n)
  PROVE  /\ SameHeader /\ SameBuckets
         /\ \A p \in NodeOffsets : p # o => ReadMeta(mem', p) = ReadMeta(mem, p)
<1>1. \A a \in Addr : a < o \/ a >= o + 24 => mem'[a] = mem[a]
  <2>1. n \in 0 .. 23 /\ mem \in [Addr -> Int]
    BY Sizes DEF TypeOK
  <2> QED  BY <2>1, PartOfMetaType
<1>2. o >= NodeBase
  BY DEF IsNodeOffset
<1>3. SameHeader
  BY <1>1, <1>2, Sizes, AddrIsWord DEF SameHeader
<1>4. SameBuckets
  <2> SUFFICES ASSUME NEW k \in FileIds PROVE BucketHead(k)' = BucketHead(k)
    BY DEF SameBuckets
  <2>1. SlotAddr(k) \in Addr /\ SlotAddr(k) < o
    BY <1>2, SlotAddresses, Sizes, AddrIsWord
  <2> QED  BY <2>1, <1>1, SlotAddresses DEF BucketHead
<1>5. ASSUME NEW p \in NodeOffsets, p # o PROVE ReadMeta(mem', p) = ReadMeta(mem, p)
  <2>1. /\ p \in Nat /\ IsNodeOffset(p)
        /\ p \in Addr /\ p + 4 \in Addr /\ p + 8 \in Addr
        /\ p + 12 \in Addr /\ p + 16 \in Addr /\ p + 20 \in Addr
    BY NodeAddresses
  <2>2. p + 24 <= o \/ o + 24 <= p
    BY <1>5, <2>1, NodesApart, Sizes
  <2> QED  BY <1>1, <2>1, <2>2, ReadMetaWords
<1> QED  BY <1>3, <1>4, <1>5
-----------------------------------------------------------------------------
(* From here on the sound index.                                           *)

(* Under BucketsInv a file is indexed when its bucket is not empty.        *)
LEMMA LiveView ==
  ASSUME TypeOK, BucketsInv
  PROVE  /\ \A k \in FileIds : k \in Indexed <=> BucketHead(k) # 0
         /\ \A o : o \in LiveNodes <=> o # 0 /\ \E k \in FileIds : o = BucketHead(k)
         /\ \A o \in LiveNodes : Stored(o)
<1>1. 0 \notin NodeOffsets
  BY NodeAddresses, Sizes DEF IsNodeOffset
<1>2. \A o \in AllocatedNodes : o \in NodeOffsets
  BY DEF AllocatedNodes
<1>3. \A k \in FileIds : k \in Indexed <=> BucketHead(k) # 0
  BY <1>1, <1>2 DEF BucketsInv, Indexed, Stored
<1>4. \A o : o \in LiveNodes <=> o # 0 /\ \E k \in FileIds : o = BucketHead(k)
  BY <1>3 DEF LiveNodes, Indexed
<1> QED  BY <1>3, <1>4 DEF BucketsInv

(* The same after a step.                                                  *)
LEMMA LiveViewNext ==
  ASSUME TypeOK', BucketsInv'
  PROVE  /\ \A k \in FileIds : k \in Indexed' <=> BucketHead(k)' # 0
         /\ \A o : o \in LiveNodes' <=> o # 0 /\ \E k \in FileIds : o = BucketHead(k)'
<1>1. 0 \notin NodeOffsets
  BY NodeAddresses, Sizes DEF IsNodeOffset
<1>2. \A o \in AllocatedNodes' : o \in NodeOffsets
  BY DEF AllocatedNodes
<1>3. \A k \in FileIds : k \in Indexed' <=> BucketHead(k)' # 0
  BY <1>1, <1>2 DEF BucketsInv, Indexed, Stored
<1> QED  BY <1>3 DEF LiveNodes, Indexed

(* How far a tool can rely on the index is a length.                       *)
LEMMA ReachType ==
  /\ TypeOK => Reach \in Nat
  /\ TypeOK' => Reach' \in Nat
BY Sizes DEF TypeOK, Reach, Smaller

(* It does not get shorter when the file does not, and the mapping is that *)
(* of before or just made.                                                 *)
KeepsReach ==
  /\ fsize' >= fsize
  /\ Mapping' => mapped' = fsize' \/ (Mapping /\ mapped' = mapped)

LEMMA ReachKept ==
  ASSUME TypeOK, TypeOK', MappedInv, KeepsReach
  PROVE  Reach' >= Reach /\ MappedInv'
<1>1. /\ fsize \in Int /\ mapped \in Int /\ fsize' \in Int /\ mapped' \in Int
  BY Sizes DEF TypeOK, Smaller
<1>2. /\ fsize' >= fsize
      /\ Mapping => mapped <= fsize
      /\ Mapping' => mapped' = fsize' \/ (Mapping /\ mapped' = mapped)
  BY DEF KeepsReach, MappedInv
<1> QED  BY <1>1, <1>2 DEF Reach, Mapping, MappedInv

(* A step that keeps the buckets and the nodes in use keeps the files.     *)
LEMMA BucketsKept ==
  ASSUME TypeOK, TypeOK', BucketsInv, SameBuckets, Reach' >= Reach,
         \A o \in LiveNodes : o \in AllocatedNodes' /\ ReadMeta(mem', o) = ReadMeta(mem, o)
  PROVE  BucketsInv' /\ LiveNodes' = LiveNodes /\ Indexed' = Indexed
<1>1. BucketsInv'
  <2> SUFFICES ASSUME NEW k \in FileIds, BucketHead(k) # 0
               PROVE  /\ (Stored(BucketHead(k)))'
                      /\ (HasKey(ReadMeta(mem, BucketHead(k)), k))'
                      /\ (NextOf(BucketHead(k)))' = 0
    BY DEF BucketsInv, SameBuckets
  <2>1. BucketHead(k)' = BucketHead(k) /\ BucketHead(k) \in LiveNodes
    BY LiveView DEF SameBuckets
  <2>2. /\ BucketHead(k) \in NodeOffsets /\ BucketHead(k) + META_SIZE <= Reach
        /\ HasKey(ReadMeta(mem, BucketHead(k)), k) /\ NextOf(BucketHead(k)) = 0
    BY DEF BucketsInv, Stored, AllocatedNodes
  <2>3. BucketHead(k) + META_SIZE <= Reach'
    BY <2>2, NodeAddresses, ReachType, Sizes
  <2> QED  BY <2>1, <2>2, <2>3 DEF Stored, NextOf
<1>2. \A k \in FileIds : k \in Indexed' <=> k \in Indexed
  BY <1>1, LiveView, LiveViewNext DEF SameBuckets
<1>3. Indexed' = Indexed
  BY <1>2 DEF Indexed
<1>4. LiveNodes' = LiveNodes
  BY <1>3 DEF LiveNodes, SameBuckets, Indexed
<1> QED  BY <1>1, <1>3, <1>4

(* A step that keeps the head and the nodes of the free list keeps it.     *)
LEMMA FreeKept ==
  ASSUME TypeOK, TypeOK', NEW S \in SUBSET AllocatedNodes, FreeNodes(S),
         \A o \in S : /\ o + META_SIZE <= Reach
                      /\ o \in AllocatedNodes' /\ ReadMeta(mem', o) = ReadMeta(mem, o),
         mem'[FREE_HEAD] = mem[FREE_HEAD], LiveNodes' \cap S = {}, Reach' >= Reach,
         pc' \in {"store", "link", "free", "push"} => cur' \notin S
  PROVE  FreeInv'
<1>1. \A o \in S : NextOf(o)' = NextOf(o)
  BY DEF NextOf
<1>2. FreeNodes(S)'
  <2>1. [o \in S |-> NextOf(o)]' = [o \in S |-> NextOf(o)]
    BY <1>1
  <2> QED  BY <2>1 DEF FreeNodes
<1>3. \A o \in S : o + META_SIZE <= Reach'
  BY Sizes, NodeAddresses, ReachType DEF AllocatedNodes
<1>4. S \in SUBSET AllocatedNodes'
  OBVIOUS
<1> QED  BY <1>2, <1>3, <1>4 DEF FreeInv

(* The file never gets shorter, and a stored node is mapped while the      *)
(* mapping is as long as the file.                                         *)
LEMMA AccessSizes ==
  ASSUME TypeOK, NEW o \in Int, NEW r \in Remapped(o)
  PROVE  /\ r.fsize >= fsize
         /\ o + META_SIZE <= mapped => r.mapped = mapped /\ r.fsize = fsize
BY Sizes DEF TypeOK, Remapped, Larger, Smaller

(* load maps the whole index when it fits into the largest mapping.        *)
LEMMA LoadSizes ==
  ASSUME FullyMapped, TypeOK, Load
  PROVE  mapped' = fsize /\ fsize' = fsize
BY Sizes DEF TypeOK, Load, Loaded, Larger, Smaller, FullyMapped

(* A read of a mapped node changes no length, another one only the longer  *)
(* way.                                                                    *)
LEMMA PreadsSizes ==
  ASSUME TypeOK, NEW o \in Int, Preads(o)
  PROVE  /\ fsize' >= fsize
         /\ o + META_SIZE <= mapped => mapped' = mapped /\ fsize' = fsize
<1>1. PICK r \in Remapped(o) : mapped' = r.mapped /\ fsize' = r.fsize
  BY DEF Preads
<1> QED  BY <1>1, AccessSizes

(* After a store the file reaches at least to the end of the node.         *)
LEMMA PwritesSizes ==
  ASSUME TypeOK, NEW o \in Int, Pwrites(o)
  PROVE  fsize' >= fsize /\ o + META_SIZE <= fsize'
<1>1. PICK r \in Remapped(o) : fsize' = Larger(r.fsize, o + META_SIZE)
  BY DEF Pwrites
<1>2. r.fsize >= fsize /\ r.fsize \in Int
  BY AccessSizes, RemappedType
<1> QED  BY <1>1, <1>2, Sizes DEF Larger, TypeOK

(* A read fails only behind the mapping, and never shortens the file.      *)
LEMMA FailsSizes ==
  ASSUME TypeOK, NEW o \in Int, NEW m, Fails(o, m)
  PROVE  fsize' >= fsize /\ o + META_SIZE > mapped
<1>1. PICK r \in Remapped(o) : o + META_SIZE > r.mapped /\ fsize' = r.fsize
  BY DEF Fails
<1>2. r.mapped \in Int /\ mapped \in Int /\ o + META_SIZE \in Int
  BY RemappedType, Sizes DEF TypeOK
<1> QED  BY <1>1, <1>2, AccessSizes

(* The same of a store.                                                    *)
LEMMA FailsStoringSizes ==
  ASSUME TypeOK, NEW o \in Int, NEW v, NEW m, FailsStoring(o, v, m)
  PROVE  fsize' >= fsize /\ o + META_SIZE > mapped
<1>1. PICK r \in Remapped(o), n \in TornBytes :
        /\ o + META_SIZE > r.mapped
        /\ fsize' = IF n = 0 THEN r.fsize ELSE Larger(r.fsize, o + n)
  BY DEF FailsStoring, StoresPart
<1>2. r.mapped \in Int /\ r.fsize \in Int /\ fsize \in Int /\ mapped \in Int
      /\ o + META_SIZE \in Int /\ n \in Int
  BY RemappedType, Sizes DEF TypeOK
<1>3. r.fsize >= fsize /\ (o + META_SIZE <= mapped => r.mapped = mapped)
  BY AccessSizes
<1>4. fsize' >= r.fsize /\ fsize' \in Int
  BY <1>1, <1>2 DEF Larger
<1> QED  BY <1>1, <1>2, <1>3, <1>4

(* Of a kill in the middle of a store: the file does not get shorter.      *)
LEMMA TornSizes ==
  ASSUME TypeOK, NEW o \in Int, NEW v, Torn(o, v)
  PROVE  fsize' >= fsize
<1>1. PICK r \in Remapped(o), n \in TornBytes :
        fsize' = IF n = 0 THEN r.fsize ELSE Larger(r.fsize, o + n)
  BY DEF Torn, StoresPart
<1>2. r.fsize \in Int /\ fsize \in Int /\ n \in Int /\ r.fsize >= fsize
  BY AccessSizes, RemappedType, Sizes DEF TypeOK
<1> QED  BY <1>1, <1>2 DEF Larger
-----------------------------------------------------------------------------
(* Steps that store nothing, or only to the header.                        *)

(* A step that stores nothing keeps the parts of the invariant that speak  *)
(* of the index.                                                           *)
LEMMA QuietStep ==
  ASSUME TypeOK, TypeOK', IndexInv, mem' = mem, KeepsReach
  PROVE  /\ HeaderInv' /\ BucketsInv' /\ LiveNodes' = LiveNodes /\ Indexed' = Indexed
         /\ \A k : BucketHead(k)' = BucketHead(k)
         /\ MappedInv' /\ Reach' >= Reach /\ AllocatedNodes' = AllocatedNodes
         /\ pc' \notin {"store", "link", "free", "push"} => FreeInv'
<1>0. Reach' >= Reach /\ MappedInv'
  BY ReachKept DEF IndexInv
<1>1. HeaderInv'
  BY DEF IndexInv, HeaderInv
<1>2. AllocatedNodes' = AllocatedNodes /\ SameBuckets /\ \A k : BucketHead(k)' = BucketHead(k)
  BY DEF AllocatedNodes, SameBuckets, BucketHead
<1>3. BucketsInv' /\ LiveNodes' = LiveNodes /\ Indexed' = Indexed
  BY <1>0, <1>2, BucketsKept, LiveView DEF IndexInv, Stored
<1>4. ASSUME pc' \notin {"store", "link", "free", "push"} PROVE FreeInv'
  <2>1. PICK S \in SUBSET AllocatedNodes :
          FreeNodes(S) /\ \A o \in S : o + META_SIZE <= Reach
    BY DEF IndexInv, FreeInv
  <2> QED  BY <1>0, <1>2, <1>3, <1>4, <2>1, FreeKept DEF FreeNodes
<1> QED  BY <1>0, <1>1, <1>2, <1>3, <1>4

(* A tool that ends, having stored nothing in this step.                   *)
LEMMA QuietExit ==
  ASSUME TypeOK, TypeOK', IndexInv, mem' = mem, fsize' >= fsize, NEW r, Exit(r)
  PROVE  IndexInv'
<1>1. pc' = "idle" /\ KeepsReach
  BY DEF Exit, KeepsReach, Mapping
<1> QED  BY <1>1, QuietStep DEF IndexInv, RegistersInv, TruthInv

(* A store to a header field other than the three the invariant watches.   *)
LEMMA CounterStep ==
  ASSUME EarlyBlock, TypeOK, TypeOK', IndexInv, UNCHANGED <<fsize, block>>,
         NEW a \in {VERSION, FILE_COUNT, SIZE, DEL_FILE_COUNT, DEL_SIZE, SEQ_NO,
                   DATA_FILE_OFFSET},
         NEW x \in Int, mem' = [mem EXCEPT ![a] = x], a = SEQ_NO => x >= 1,
         pc' \in {"idle", "update", "flush", "reset"}
  PROVE  /\ HeaderInv' /\ MappedInv' /\ BucketsInv' /\ FreeInv'
         /\ LiveNodes' = LiveNodes /\ Indexed' = Indexed /\ SameBuckets
<1>1. /\ a \in Addr /\ a < HEADER_SIZE
      /\ BUCKET_SIZE \in Addr /\ INDEX_FILE_SIZE \in Addr /\ FREE_HEAD \in Addr
      /\ SEQ_NO \in Addr
      /\ a # BUCKET_SIZE /\ a # INDEX_FILE_SIZE /\ a # FREE_HEAD
  BY HeaderAddresses
<1>2. /\ SameBuckets /\ SameNodes
      /\ mem'[a] = x /\ \A b \in Addr : b # a => mem'[b] = mem[b]
  BY <1>1, HeaderStore
<1>3. HeaderInv'
  BY <1>1, <1>2 DEF IndexInv, HeaderInv
<1>4. AllocatedNodes' = AllocatedNodes /\ mem'[FREE_HEAD] = mem[FREE_HEAD]
  BY <1>1, <1>2 DEF AllocatedNodes
<1>5. Reach' >= Reach /\ MappedInv'
  <2>1. KeepsReach
    BY DEF TypeOK, KeepsReach, Mapping
  <2> QED  BY <2>1, ReachKept DEF IndexInv
<1>6. BucketsInv' /\ LiveNodes' = LiveNodes /\ Indexed' = Indexed
  BY <1>2, <1>4, <1>5, BucketsKept, LiveView DEF IndexInv, Stored, SameNodes, AllocatedNodes
<1>7. PICK S \in SUBSET AllocatedNodes :
        FreeNodes(S) /\ \A o \in S : o + META_SIZE <= Reach
  BY DEF IndexInv, FreeInv
<1>8. \A o \in S : /\ o + META_SIZE <= Reach
                  /\ o \in AllocatedNodes' /\ ReadMeta(mem', o) = ReadMeta(mem, o)
  BY <1>2, <1>4, <1>7 DEF SameNodes, AllocatedNodes
<1>9. FreeInv'
  BY <1>4, <1>5, <1>6, <1>7, <1>8, FreeKept DEF FreeNodes
<1> QED  BY <1>2, <1>3, <1>5, <1>6, <1>9
-----------------------------------------------------------------------------
(* The steps of the tools.  Inductive names what each of them may use.     *)

Inductive == /\ EarlyBlock /\ FullyMapped
             /\ TypeInv /\ TypeInv' /\ IndexInv

(* Starting a tool keeps the invariant: it maps the whole index, and its   *)
(* id is one in play.                                                      *)
LEMMA StartStep ==
  ASSUME Inductive, Start
  PROVE  IndexInv'
<1> USE DEF Inductive, TypeInv
<1>1. CASE StartWrite
  <2>1. mem' = mem /\ mapped' = fsize /\ fsize' = fsize /\ pc' = "pwrite_block"
    BY <1>1, LoadSizes DEF StartWrite
  <2>2. key' = mem[SEQ_NO] /\ key' \in FileIds
    BY <1>1, HeaderAddresses DEF StartWrite, MayWrite, IndexInv, HeaderInv, FileIds, TypeOK
  <2>3. HasKey(meta', key') /\ meta'.next = 0
    BY <1>1 DEF StartWrite, NoMeta, HasKey
  <2>4. KeepsReach
    BY <2>1 DEF TypeOK, KeepsReach
  <2> QED
    BY <2>1, <2>2, <2>3, <2>4, QuietStep DEF IndexInv, RegistersInv, TruthInv
<1>2. ASSUME NEW t \in {"read", "delete"}, NEW k \in FileIds, StartLookup(t, k)
      PROVE  IndexInv'
  <2>1. /\ mem' = mem /\ mapped' = fsize /\ fsize' = fsize /\ pc' = "find"
        /\ op' # "write" /\ key' \in FileIds
    BY <1>2, LoadSizes DEF StartLookup
  <2>2. KeepsReach
    BY <2>1 DEF TypeOK, KeepsReach
  <2> QED
    BY <2>1, <2>2, QuietStep DEF IndexInv, RegistersInv, TruthInv
<1> QED  BY <1>1, <1>2 DEF Start

(* So does each step of hash_find: a chain has one node.                   *)
LEMMA FindStep ==
  ASSUME Inductive, HashFindSlot \/ HashFindEnd \/ HashFindHit \/ HashFindNext \/ HashFindFails
  PROVE  IndexInv'
<1> USE DEF Inductive, TypeInv
<1>a. /\ pc = "walk" => /\ pos = BucketHead(key) /\ prev = 0
                        /\ pos # 0 => Stored(pos) /\ HasKey(ReadMeta(mem, pos), key)
      /\ pc # "idle" => key \in FileIds
  BY DEF IndexInv, RegistersInv, BucketsInv
<1>b. pos \in Int
  BY DEF TypeOK
<1>c. pc = "walk" /\ pos # 0 /\ Preads(pos) => mapped' = mapped /\ fsize' = fsize
  BY <1>a, <1>b, PreadsSizes DEF Stored, Reach, Mapping
<1>1. CASE HashFindSlot
  <2>1. /\ pc = "find" /\ pos' = mem[SlotAddr(Slot(mem, key))] /\ prev' = 0 /\ pc' = "walk"
        /\ UNCHANGED <<mem, fsize, mapped, meta, op, key>>
    BY <1>1 DEF HashFindSlot, Goto, fileVars
  <2>2. pos' = BucketHead(key)
    BY <1>a, <2>1, SlotAddresses DEF BucketHead, Slot, IndexInv, HeaderInv
  <2>3. KeepsReach
    BY <2>1 DEF TypeOK, KeepsReach, Mapping
  <2> QED
    BY <2>1, <2>2, <2>3, QuietStep DEF IndexInv, RegistersInv, TruthInv
<1>2. CASE HashFindEnd
  <2>1. pc = "walk" /\ BucketHead(key) = 0 /\ mem' = mem /\ fsize' = fsize
    BY <1>2, <1>a DEF HashFindEnd, fileVars
  <2>2. fsize' >= fsize
    BY <2>1 DEF TypeOK
  <2>3. CASE op = "write"
    <3>1. pc' = "alloc" /\ UNCHANGED <<mapped, pos, prev, cur, meta, op, key>>
      BY <1>2, <2>3 DEF HashFindEnd, Goto, fileVars, regVars
    <3>2. KeepsReach
      BY <2>1, <2>2, <3>1 DEF KeepsReach, Mapping
    <3> QED
      BY <2>1, <2>3, <3>1, <3>2, QuietStep DEF IndexInv, RegistersInv, TruthInv
  <2>4. CASE op # "write"
    BY <1>2, <2>1, <2>2, <2>4, QuietExit DEF HashFindEnd
  <2> QED  BY <2>3, <2>4
<1>3. CASE HashFindHit
  <2>1. pc = "walk" /\ pos # 0 /\ mem' = mem
    BY <1>3 DEF HashFindHit, HitOn
  <2>2. CASE op = "write"
    <3>1. fsize' >= fsize
      BY <1>3, <1>b, <2>2, AccessSizes DEF HashFindHit, HitOn
    <3> QED  BY <1>3, <2>1, <2>2, <3>1, QuietExit DEF HashFindHit, HitOn
  <2>3. CASE op # "write"
    <3>1. /\ Preads(pos) /\ cur' = pos /\ prev' = prev /\ op' = op /\ key' = key
          /\ pc' = IF op = "delete" THEN "unlink" ELSE "read_meta"
      BY <1>3, <2>3 DEF HashFindHit, HitOn, Goto
    <3>2. KeepsReach
      BY <1>c, <2>1, <3>1 DEF TypeOK, KeepsReach, Mapping
    <3>3. key \in Indexed
      BY <1>a, <2>1, LiveView DEF IndexInv
    <3> QED
      BY <1>a, <2>1, <3>1, <3>2, <3>3, QuietStep
         DEF IndexInv, RegistersInv, TruthInv
  <2> QED  BY <2>2, <2>3
<1>4. CASE HashFindNext
  BY <1>4, <1>a DEF HashFindNext, PassOn
<1>5. CASE HashFindFails
  <2>1. CASE Fails(pos, mem)
    BY <2>1, <1>b, FailsSizes, QuietExit DEF Fails
  <2>2. CASE Faults(pos)
    <3>1. fsize' = fsize /\ mem' = mem
      BY <2>2 DEF Faults, fileVars
    <3>2. fsize' >= fsize
      BY <3>1 DEF TypeOK
    <3> QED  BY <2>2, <3>1, <3>2, QuietExit DEF Faults
  <2> QED  BY <1>5, <2>1, <2>2 DEF HashFindFails
<1> QED  BY <1>1, <1>2, <1>3, <1>4, <1>5

(* hash_insert takes the head of the free list: the rest stays a list.     *)
LEMMA ReuseStep ==
  ASSUME Inductive, ReuseNode
  PROVE  IndexInv'
<1> USE DEF Inductive, TypeInv
<1> DEFINE head == mem[FREE_HEAD]
<1>1. pc = "alloc" /\ head # 0 /\ head \in Int /\ op = "write"
  BY HeaderAddresses DEF ReuseNode, TypeOK, StepOK
<1>2. CASE Fails(head, mem)
  BY <1>1, <1>2, FailsSizes, QuietExit DEF Fails
<1>3. CASE ~ Fails(head, mem)
  <2>1. /\ Preads(head) /\ cur' = head /\ mem' = Popped(mem) /\ pc' = "store"
        /\ UNCHANGED <<prev, meta, op, key>>
    BY <1>3 DEF ReuseNode, Goto
  <2>2. PICK S \in SUBSET AllocatedNodes :
          FreeNodes(S) /\ \A o \in S : o + META_SIZE <= Reach
    BY DEF IndexInv, FreeInv
  <2>3. head \in S /\ head \in NodeOffsets /\ head < mem[INDEX_FILE_SIZE]
        /\ head + META_SIZE <= Reach /\ IsNodeOffset(head)
    BY <1>1, <2>2, NodeAddresses DEF FreeNodes, ProperList, AllocatedNodes
  <2>4. Reach' >= Reach /\ MappedInv' /\ Reach' = Reach
    <3>1. mapped' = mapped /\ fsize' = fsize
      BY <1>1, <2>1, <2>3, PreadsSizes DEF Reach, Mapping
    <3>2. KeepsReach
      BY <1>1, <2>1, <3>1 DEF TypeOK, KeepsReach, Mapping
    <3>3. Reach' = Reach
      BY <1>1, <2>1, <3>1 DEF Reach, Mapping
    <3> QED  BY <3>2, <3>3, ReachKept DEF IndexInv
  <2>5. mem' = [mem EXCEPT ![FREE_HEAD] = NextOf(head)]
    BY <2>1 DEF Popped, NextOf
  <2>6. /\ SameBuckets /\ SameNodes /\ mem'[FREE_HEAD] = NextOf(head)
        /\ mem'[BUCKET_SIZE] = mem[BUCKET_SIZE] /\ mem'[SEQ_NO] = mem[SEQ_NO]
        /\ mem'[INDEX_FILE_SIZE] = mem[INDEX_FILE_SIZE]
    BY <2>5, HeaderStore, HeaderAddresses
  <2>7. AllocatedNodes' = AllocatedNodes /\ HeaderInv'
    BY <2>6 DEF AllocatedNodes, IndexInv, HeaderInv
  <2>8. BucketsInv' /\ LiveNodes' = LiveNodes /\ Indexed' = Indexed
    BY <2>4, <2>6, <2>7, BucketsKept, LiveView DEF IndexInv, Stored, SameNodes, AllocatedNodes
  <2>9. FreeInv'
    <3>0. PICK T : T = S \ {head}
      OBVIOUS
    <3>1. \A o \in S : NextOf(o)' = NextOf(o)
      BY <2>2, <2>6 DEF NextOf, SameNodes, AllocatedNodes
    <3>2. ProperList(S, head, [o \in S |-> NextOf(o)])
      BY <2>2 DEF FreeNodes
    <3>3. ProperList(T, NextOf(head), [o \in T |-> NextOf(o)])
      BY <1>1, <2>3, <3>0, <3>2 DEF ProperList
    <3>4. FreeNodes(T)'
      <4>1. [o \in T |-> NextOf(o)]' = [o \in T |-> NextOf(o)]
        BY <3>0, <3>1
      <4>2. ProperList(T, mem[FREE_HEAD], [o \in T |-> NextOf(o)])'
        BY <2>6, <3>3, <4>1
      <4>3. T \cap LiveNodes' = {} /\ cur' \notin T
        BY <2>1, <2>2, <2>8, <3>0 DEF FreeNodes
      <4> QED  BY <4>2, <4>3 DEF FreeNodes
    <3>5. T \in SUBSET AllocatedNodes' /\ \A o \in T : o + META_SIZE <= Reach'
      BY <2>2, <2>4, <2>7, <3>0
    <3> QED  BY <3>4, <3>5 DEF FreeInv
  <2>10. cur' \notin LiveNodes'
    BY <2>1, <2>2, <2>3, <2>8 DEF FreeNodes
  <2>11. RegistersInv'
    BY <1>1, <2>1, <2>3, <2>4, <2>6, <2>10 DEF IndexInv, RegistersInv, SameBuckets
  <2> QED
    BY <1>1, <2>1, <2>4, <2>7, <2>8, <2>9, <2>11 DEF IndexInv, TruthInv
<1> QED  BY <1>2, <1>3

(* hash_insert takes a new node at the end of the index.                   *)
LEMMA AppendStep ==
  ASSUME Inductive, AppendNode
  PROVE  IndexInv'
<1> USE DEF Inductive, TypeInv
<1> DEFINE end == mem[INDEX_FILE_SIZE]
<1>1. /\ pc = "alloc" /\ op = "write"
      /\ cur' = end /\ mem' = Grown(mem) /\ pc' = "store"
      /\ UNCHANGED <<fsize, mapped, prev, meta, op, key>>
  BY DEF AppendNode, Goto, StepOK
<1>2. end \in Int /\ IsNodeOffset(end)
  BY HeaderAddresses DEF IndexInv, HeaderInv, TypeOK
<1>3. /\ SameBuckets /\ SameNodes /\ mem'[INDEX_FILE_SIZE] = end + META_SIZE
      /\ mem'[BUCKET_SIZE] = mem[BUCKET_SIZE] /\ mem'[SEQ_NO] = mem[SEQ_NO]
      /\ mem'[FREE_HEAD] = mem[FREE_HEAD]
  BY <1>1, HeaderStore, HeaderAddresses DEF Grown
<1>4. \A o \in AllocatedNodes : o \in NodeOffsets /\ o < end /\ o \in AllocatedNodes'
  BY <1>2, <1>3, NodeAddresses, Sizes DEF AllocatedNodes
<1>5. HeaderInv'
  <2>1. (end + 24 - NodeBase) % 24 = 0 /\ end + 24 >= NodeBase
    BY <1>2, Sizes DEF IsNodeOffset
  <2>2. IsNodeOffset(end + META_SIZE)
    BY <1>2, <2>1, Sizes DEF IsNodeOffset
  <2>3. IsNodeOffset(mem[INDEX_FILE_SIZE])'
    BY <1>3, <2>2
  <2> QED  BY <1>3, <2>3 DEF IndexInv, HeaderInv
<1>6. Reach' >= Reach /\ MappedInv'
  <2>1. KeepsReach
    BY <1>1 DEF TypeOK, KeepsReach, Mapping
  <2> QED  BY <2>1, ReachKept DEF IndexInv
<1>7. BucketsInv' /\ LiveNodes' = LiveNodes /\ Indexed' = Indexed
  BY <1>3, <1>4, <1>6, BucketsKept, LiveView DEF IndexInv, Stored, SameNodes
<1>8. cur' \notin AllocatedNodes
  BY <1>1, <1>2, <1>4
<1>9. FreeInv'
  <2>1. PICK S \in SUBSET AllocatedNodes :
          FreeNodes(S) /\ \A o \in S : o + META_SIZE <= Reach
    BY DEF IndexInv, FreeInv
  <2>2. \A o \in S : /\ o + META_SIZE <= Reach
                    /\ o \in AllocatedNodes' /\ ReadMeta(mem', o) = ReadMeta(mem, o)
    BY <1>3, <1>4, <2>1 DEF SameNodes
  <2>3. LiveNodes' \cap S = {} /\ cur' \notin S
    BY <1>7, <1>8, <2>1 DEF FreeNodes
  <2> QED  BY <1>3, <1>6, <2>1, <2>2, <2>3, FreeKept
<1>10. cur' \notin LiveNodes'
  BY <1>7, <1>8, LiveView DEF IndexInv, Stored
<1>11. cur' < mem'[INDEX_FILE_SIZE] /\ cur' + META_SIZE = mem'[INDEX_FILE_SIZE]
  BY <1>1, <1>2, <1>3, Sizes
<1>12. RegistersInv'
  BY <1>1, <1>2, <1>3, <1>10, <1>11 DEF IndexInv, RegistersInv, SameBuckets
<1> QED
  BY <1>1, <1>5, <1>6, <1>7, <1>9, <1>12 DEF IndexInv, TruthInv

(* Storing the node the running tool holds, which no bucket and no free    *)
(* link leads to.                                                          *)
LEMMA HeldNodeStep ==
  ASSUME Inductive, pc \in {"store", "free"}, cur \in NodeOffsets, cur' = cur,
         NEW v \in MetaInfo, mem' = WriteMeta(mem, cur, v), KeepsReach
  PROVE  /\ HeaderInv' /\ MappedInv' /\ BucketsInv' /\ FreeInv' /\ Reach' >= Reach
         /\ LiveNodes' = LiveNodes /\ Indexed' = Indexed /\ AllocatedNodes' = AllocatedNodes
         /\ SameBuckets /\ ReadMeta(mem', cur) = v /\ mem'[FREE_HEAD] = mem[FREE_HEAD]
<1> USE DEF Inductive, TypeInv
<1>1. /\ SameHeader /\ SameBuckets /\ ReadMeta(mem', cur) = v
      /\ \A p \in NodeOffsets : p # cur => ReadMeta(mem', p) = ReadMeta(mem, p)
  BY NodeStore
<1>2. /\ mem'[BUCKET_SIZE] = mem[BUCKET_SIZE] /\ mem'[SEQ_NO] = mem[SEQ_NO]
      /\ mem'[INDEX_FILE_SIZE] = mem[INDEX_FILE_SIZE] /\ mem'[FREE_HEAD] = mem[FREE_HEAD]
  BY <1>1, HeaderAddresses DEF SameHeader
<1>3. AllocatedNodes' = AllocatedNodes /\ HeaderInv'
  BY <1>2 DEF AllocatedNodes, IndexInv, HeaderInv
<1>0. Reach' >= Reach /\ MappedInv'
  BY ReachKept DEF IndexInv
<1>4. cur \notin LiveNodes
  BY DEF IndexInv, RegistersInv
<1>5. BucketsInv' /\ LiveNodes' = LiveNodes /\ Indexed' = Indexed
  BY <1>0, <1>1, <1>3, <1>4, BucketsKept, LiveView DEF IndexInv, Stored, AllocatedNodes
<1>6. PICK S \in SUBSET AllocatedNodes :
        FreeNodes(S) /\ \A o \in S : o + META_SIZE <= Reach
  BY DEF IndexInv, FreeInv
<1>7. cur \notin S /\ LiveNodes \cap S = {}
  BY <1>6 DEF FreeNodes
<1>8. \A o \in S : /\ o + META_SIZE <= Reach
                  /\ o \in AllocatedNodes' /\ ReadMeta(mem', o) = ReadMeta(mem, o)
  BY <1>1, <1>3, <1>6, <1>7 DEF AllocatedNodes
<1>9. FreeInv'
  BY <1>0, <1>2, <1>5, <1>6, <1>7, <1>8, FreeKept
<1> QED  BY <1>0, <1>1, <1>2, <1>3, <1>5, <1>9

(* When hash_insert cannot store a node, the node is a new one, and all    *)
(* that is left of it is a word or more behind the end of the node area,   *)
(* which is set back: a reused node is mapped, so its store does not fail. *)
LEMMA FailedStore ==
  ASSUME Inductive, pc = "store", FailsStoring(cur, Inserted(meta), RolledBack(mem))
  PROVE  /\ pc' = "idle" /\ KeepsReach /\ Reach < mem[INDEX_FILE_SIZE]
         /\ IsNodeOffset(cur) /\ mem[INDEX_FILE_SIZE] = cur + META_SIZE
         /\ mem'[INDEX_FILE_SIZE] = cur
         /\ \A a \in Addr : a < HEADER_SIZE /\ a # INDEX_FILE_SIZE => mem'[a] = mem[a]
         /\ SameBuckets
         /\ \A o \in NodeOffsets : o < cur => ReadMeta(mem', o) = ReadMeta(mem, o)
<1> USE DEF Inductive, TypeInv
<1> DEFINE v == Inserted(meta)
           end == mem[INDEX_FILE_SIZE]
<1>1. /\ Reach = mapped /\ IsNodeOffset(cur)
      /\ cur + META_SIZE <= Reach \/ cur + META_SIZE = end
      /\ cur \in Int /\ cur >= NodeBase /\ meta \in MetaInfo /\ end \in Int
  BY HeaderAddresses DEF TypeOK, IndexInv, RegistersInv, IsNodeOffset, Reach, Mapping
<1>2. pc' = "idle" /\ KeepsReach /\ cur + META_SIZE > mapped
  BY <1>1, FailsStoringSizes DEF FailsStoring, Exit, KeepsReach, Mapping
<1>3. end = cur + META_SIZE /\ Reach < end
  BY <1>1, <1>2, Sizes DEF TypeOK
<1>4. /\ \A a \in Addr : a < cur /\ a # INDEX_FILE_SIZE => mem'[a] = mem[a]
      /\ mem'[INDEX_FILE_SIZE] = cur
  <2>1. PICK n \in TornBytes : mem' = PartOfMeta(RolledBack(mem), cur, v, n)
    BY DEF FailsStoring, StoresPart
  <2>2. RolledBack(mem) \in [Addr -> Int] /\ v \in MetaInfo /\ n \in 0 .. 23
    BY <1>1, Sizes, StoreTypes, MetaTypes DEF TypeOK
  <2>3. \A a \in Addr : a < cur => mem'[a] = RolledBack(mem)[a]
    <3> HIDE DEF v
    <3> QED  BY <1>1, <2>1, <2>2, PartOfMetaType
  <2>4. RolledBack(mem) = [mem EXCEPT ![INDEX_FILE_SIZE] = cur]
    BY <1>1, <1>3, Sizes DEF RolledBack
  <2>5. INDEX_FILE_SIZE \in Addr /\ INDEX_FILE_SIZE < cur
    BY <1>1, HeaderAddresses, Sizes DEF INDEX_FILE_SIZE
  <2> QED  BY <2>3, <2>4, <2>5 DEF TypeOK
<1>5. \A a \in Addr : a < HEADER_SIZE /\ a # INDEX_FILE_SIZE => mem'[a] = mem[a]
  BY <1>1, <1>4, Sizes, AddrIsWord
<1>6. SameBuckets
  <2> SUFFICES ASSUME NEW k \in FileIds PROVE BucketHead(k)' = BucketHead(k)
    BY DEF SameBuckets
  <2>1. SlotAddr(k) \in Addr /\ SlotAddr(k) < cur /\ SlotAddr(k) # INDEX_FILE_SIZE
    BY <1>1, SlotAddresses, Sizes, AddrIsWord DEF INDEX_FILE_SIZE
  <2> QED  BY <1>4, <2>1, SlotAddresses DEF BucketHead
<1>7. ASSUME NEW o \in NodeOffsets, o < cur PROVE ReadMeta(mem', o) = ReadMeta(mem, o)
  <2>1. /\ o \in Nat /\ IsNodeOffset(o) /\ o + 24 <= cur
        /\ o \in Addr /\ o + 4 \in Addr /\ o + 8 \in Addr
        /\ o + 12 \in Addr /\ o + 16 \in Addr /\ o + 20 \in Addr
    BY <1>1, <1>7, NodeAddresses, NodesApart, Sizes
  <2>2. o > INDEX_FILE_SIZE
    BY <2>1, Sizes DEF IsNodeOffset, INDEX_FILE_SIZE
  <2>3. /\ mem'[o] = mem[o] /\ mem'[o + 4] = mem[o + 4] /\ mem'[o + 8] = mem[o + 8]
        /\ mem'[o + 12] = mem[o + 12] /\ mem'[o + 16] = mem[o + 16]
        /\ mem'[o + 20] = mem[o + 20]
    BY <1>1, <1>4, <2>1, <2>2 DEF INDEX_FILE_SIZE
  <2> QED  BY <2>3, ReadMetaWords
<1> QED  BY <1>1, <1>2, <1>3, <1>4, <1>5, <1>6, <1>7

(* hash_insert stores the node, or takes a new one back when it cannot.    *)
LEMMA StoreStep ==
  ASSUME Inductive, StoreMeta
  PROVE  IndexInv'
<1> USE DEF Inductive, TypeInv
<1> DEFINE end == mem[INDEX_FILE_SIZE]
<1>1. /\ pc = "store" /\ op = "write" /\ prev = 0
      /\ HasKey(meta, key) /\ meta.next = 0 /\ BucketHead(key) = 0 /\ key \in FileIds
      /\ IsNodeOffset(cur) /\ cur < end
      /\ cur \in Int /\ meta \in MetaInfo /\ end \in Int
  BY HeaderAddresses DEF StoreMeta, TypeOK, StepOK, IndexInv, RegistersInv
<1> DEFINE fails == FailsStoring(cur, Inserted(meta), RolledBack(mem))
<1>2. CASE fails
  <2>1. /\ pc' = "idle" /\ KeepsReach /\ Reach < end
        /\ end = cur + META_SIZE /\ mem'[INDEX_FILE_SIZE] = cur
        /\ \A a \in Addr : a < HEADER_SIZE /\ a # INDEX_FILE_SIZE => mem'[a] = mem[a]
        /\ SameBuckets
        /\ \A o \in NodeOffsets : o < cur => ReadMeta(mem', o) = ReadMeta(mem, o)
    BY <1>1, <1>2, FailedStore
  <2>2. /\ mem'[BUCKET_SIZE] = mem[BUCKET_SIZE] /\ mem'[SEQ_NO] = mem[SEQ_NO]
        /\ mem'[FREE_HEAD] = mem[FREE_HEAD]
    BY <2>1, HeaderAddresses
  <2>4. HeaderInv'
    BY <1>1, <2>1, <2>2 DEF IndexInv, HeaderInv
  <2>5. ASSUME NEW o \in AllocatedNodes, o + META_SIZE <= Reach
        PROVE  o \in AllocatedNodes' /\ ReadMeta(mem', o) = ReadMeta(mem, o)
    <3>1. o \in NodeOffsets /\ o \in Int /\ o < cur
      BY <1>1, <2>1, <2>5, NodeAddresses, ReachType, Sizes DEF AllocatedNodes
    <3> QED  BY <2>1, <3>1 DEF AllocatedNodes
  <2>3. Reach' >= Reach /\ MappedInv'
    BY <2>1, ReachKept DEF IndexInv
  <2>6. BucketsInv' /\ LiveNodes' = LiveNodes /\ Indexed' = Indexed
    BY <2>1, <2>3, <2>5, BucketsKept, LiveView DEF IndexInv, Stored
  <2>7. PICK S \in SUBSET AllocatedNodes :
          FreeNodes(S) /\ \A o \in S : o + META_SIZE <= Reach
    BY DEF IndexInv, FreeInv
  <2>8. FreeInv'
    BY <2>1, <2>2, <2>3, <2>5, <2>6, <2>7, FreeKept DEF FreeNodes
  <2> QED
    BY <2>1, <2>3, <2>4, <2>6, <2>8 DEF IndexInv, RegistersInv, TruthInv
<1>3. CASE ~ fails
  <2>1. /\ Pwrites(cur) /\ meta' = Inserted(meta) /\ mem' = WriteMeta(mem, cur, meta')
        /\ pc' = "link" /\ cur' = cur /\ prev' = prev /\ op' = op /\ key' = key
    BY <1>3 DEF StoreMeta, Goto
  <2>2. cur \in NodeOffsets
    BY <1>1, <2>1, PwritesType, IsNode
  <2>3. meta' \in MetaInfo /\ HasKey(meta', key) /\ meta'.next = 0
    BY <1>1, <2>1, MetaTypes DEF Inserted, HasKey, MetaInfo
  <2>4. KeepsReach /\ cur + META_SIZE <= Reach'
    BY <1>1, <2>1, PwritesSizes DEF KeepsReach, Reach, Mapping
  <2>5. /\ HeaderInv' /\ MappedInv' /\ BucketsInv' /\ FreeInv'
        /\ LiveNodes' = LiveNodes /\ Indexed' = Indexed /\ AllocatedNodes' = AllocatedNodes
        /\ SameBuckets /\ ReadMeta(mem', cur) = meta'
    BY <1>1, <2>1, <2>2, <2>3, <2>4, HeldNodeStep
  <2>6. cur \notin LiveNodes
    BY <1>1 DEF IndexInv, RegistersInv
  <2>7. Stored(cur)'
    BY <1>1, <2>1, <2>2, <2>4, <2>5 DEF Stored, AllocatedNodes
  <2>8. (HasKey(ReadMeta(mem, cur), key))' /\ NextOf(cur)' = 0
    BY <2>1, <2>3, <2>5 DEF NextOf
  <2>9. RegistersInv'
    BY <1>1, <2>1, <2>5, <2>6, <2>7, <2>8 DEF RegistersInv, SameBuckets
  <2> QED
    BY <2>1, <2>5, <2>9 DEF IndexInv, TruthInv
<1> QED  BY <1>2, <1>3

(* hash_insert makes the node the head of its bucket: the file exists.     *)
LEMMA LinkStep ==
  ASSUME Inductive, LinkNode
  PROVE  IndexInv'
<1> USE DEF Inductive, TypeInv
<1>1. /\ pc = "link" /\ op = "write" /\ prev = 0 /\ BucketHead(key) = 0 /\ key \in FileIds
      /\ Stored(cur) /\ HasKey(ReadMeta(mem, cur), key) /\ NextOf(cur) = 0
      /\ cur \notin LiveNodes
  BY DEF LinkNode, StepOK, IndexInv, RegistersInv
<1>2. /\ mem' = LinkedAtHead(mem, key, cur) /\ pc' = "commit"
      /\ UNCHANGED <<fsize, mapped, op, key, cur>>
  BY <1>1 DEF LinkNode, Goto, regVars
<1>3. /\ SameHeader /\ SameNodes /\ BucketHead(key)' = cur
      /\ \A j \in FileIds : j # key => BucketHead(j)' = BucketHead(j)
  BY <1>1, <1>2, SlotStore DEF IndexInv, HeaderInv
<1>4. /\ mem'[BUCKET_SIZE] = mem[BUCKET_SIZE] /\ mem'[SEQ_NO] = mem[SEQ_NO]
      /\ mem'[INDEX_FILE_SIZE] = mem[INDEX_FILE_SIZE] /\ mem'[FREE_HEAD] = mem[FREE_HEAD]
  BY <1>3, HeaderAddresses DEF SameHeader
<1>5. AllocatedNodes' = AllocatedNodes /\ HeaderInv'
  BY <1>4 DEF AllocatedNodes, IndexInv, HeaderInv
<1>6. \A o \in AllocatedNodes : ReadMeta(mem', o) = ReadMeta(mem, o)
  BY <1>3 DEF SameNodes, AllocatedNodes
<1>11. Reach' = Reach /\ MappedInv' /\ Reach' >= Reach
  BY <1>1, <1>2, ReachType DEF Reach, Mapping, MappedInv
<1>7. BucketsInv'
  <2> SUFFICES ASSUME NEW k \in FileIds, BucketHead(k)' # 0
               PROVE  /\ (Stored(BucketHead(k)))'
                      /\ (HasKey(ReadMeta(mem, BucketHead(k)), k))'
                      /\ (NextOf(BucketHead(k)))' = 0
    BY DEF BucketsInv
  <2>1. CASE k = key
    BY <1>1, <1>2, <1>3, <1>5, <1>6, <1>11, <2>1 DEF Stored, NextOf
  <2>2. CASE k # key
    <3>1. BucketHead(k)' = BucketHead(k) /\ BucketHead(k) # 0
      BY <1>3, <2>2
    <3>2. /\ Stored(BucketHead(k)) /\ HasKey(ReadMeta(mem, BucketHead(k)), k)
          /\ NextOf(BucketHead(k)) = 0
      BY <3>1 DEF IndexInv, BucketsInv
    <3> QED  BY <1>2, <1>5, <1>6, <1>11, <3>1, <3>2 DEF Stored, NextOf
  <2> QED  BY <2>1, <2>2
<1>8. LiveNodes' = LiveNodes \cup {cur}
  <2>1. cur # 0
    BY <1>1, NodeAddresses, Sizes DEF Stored, AllocatedNodes, IsNodeOffset
  <2>2. ASSUME NEW o PROVE o \in LiveNodes' <=> o \in LiveNodes \cup {cur}
    BY <1>1, <1>2, <1>3, <1>7, <2>1, LiveView, LiveViewNext DEF IndexInv
  <2> QED  BY <2>2
<1>9. FreeInv'
  <2>1. PICK S \in SUBSET AllocatedNodes :
          FreeNodes(S) /\ \A o \in S : o + META_SIZE <= Reach
    BY DEF IndexInv, FreeInv
  <2>2. LiveNodes' \cap S = {}
    BY <1>1, <1>8, <2>1 DEF FreeNodes
  <2>3. \A o \in S : /\ o + META_SIZE <= Reach
                    /\ o \in AllocatedNodes' /\ ReadMeta(mem', o) = ReadMeta(mem, o)
    BY <1>5, <1>6, <2>1
  <2> QED  BY <1>2, <1>4, <1>11, <2>1, <2>2, <2>3, FreeKept
<1>10. key \in Indexed'
  <2>1. BucketHead(key)' # 0
    BY <1>1, <1>3, NodeAddresses, Sizes DEF Stored, AllocatedNodes, IsNodeOffset
  <2> QED  BY <1>1, <1>2, <1>7, <2>1, LiveViewNext
<1> QED
  BY <1>1, <1>2, <1>5, <1>7, <1>9, <1>10, <1>11 DEF IndexInv, RegistersInv, TruthInv

(* Committing the offset and updating a header counter store one counter,  *)
(* and keep the next id positive.                                          *)
LEMMA CounterStored ==
  ASSUME Inductive, CommitOffset \/ UpdateBlockInfo
  PROVE  \E a \in {VERSION, FILE_COUNT, SIZE, DEL_FILE_COUNT, DEL_SIZE, SEQ_NO,
                   DATA_FILE_OFFSET}, x \in Int :
            mem' = [mem EXCEPT ![a] = x] /\ (a = SEQ_NO => x >= 1)
<1> USE DEF Inductive, TypeInv
<1>1. CASE CommitOffset
  <2>1. mem' = [mem EXCEPT ![DATA_FILE_OFFSET] = mem[DATA_FILE_OFFSET] + FileSize]
    BY <1>1 DEF CommitOffset, Committed
  <2>2. mem[DATA_FILE_OFFSET] + FileSize \in Int /\ DATA_FILE_OFFSET # SEQ_NO
    BY HeaderAddresses DEF TypeOK
  <2> QED  BY <2>1, <2>2
<1>2. CASE UpdateBlockInfo
  <2> DEFINE u == BlockInfoUpdates(op, meta.size)
  <2>0. meta.size \in Int
    BY MetaTypes DEF TypeOK
  <2>1. /\ meta.size \in Int /\ -meta.size \in Int /\ step \in 1 .. 6
        /\ op \in {"write", "delete"}
        /\ (op = "write" => step <= 4) /\ (op = "delete" => step <= 5)
    BY <1>2, <2>0 DEF UpdateBlockInfo, TypeOK, StepOK
  <2>2. PICK a \in {VERSION, FILE_COUNT, SIZE, DEL_FILE_COUNT, DEL_SIZE, SEQ_NO}, n \in Int :
           u[step] = <<a, n>> /\ (a = SEQ_NO => n = 1)
    <3>1. CASE op = "write"
      <4>1. u = << <<VERSION, 1>>, <<FILE_COUNT, 1>>, <<SEQ_NO, 1>>, <<SIZE, meta.size>> >>
        BY <3>1 DEF BlockInfoUpdates
      <4>2. step \in {1, 2, 3, 4}
        BY <2>1, <3>1
      <4> QED  BY <2>1, <4>1, <4>2, HeaderAddresses
    <3>2. CASE op = "delete"
      <4>1. u = << <<VERSION, 1>>, <<FILE_COUNT, -1>>, <<SIZE, -meta.size>>,
                   <<DEL_FILE_COUNT, 1>>, <<DEL_SIZE, meta.size>> >>
        BY <3>2 DEF BlockInfoUpdates
      <4>2. step \in {1, 2, 3, 4, 5}
        BY <2>1, <3>2
      <4>3. u[step] \in {<<VERSION, 1>>, <<FILE_COUNT, -1>>, <<SIZE, -meta.size>>,
                          <<DEL_FILE_COUNT, 1>>, <<DEL_SIZE, meta.size>>}
        BY <4>1, <4>2
      <4>4. SEQ_NO \notin {VERSION, FILE_COUNT, SIZE, DEL_FILE_COUNT, DEL_SIZE}
        BY HeaderAddresses
      <4> QED  BY <2>1, <4>3, <4>4
    <3> QED  BY <2>1, <3>1, <3>2
  <2>3. mem' = [mem EXCEPT ![a] = mem[a] + n]
    BY <1>2, <2>2 DEF UpdateBlockInfo, Updated
  <2>4. a \in Addr /\ mem[a] \in Int /\ mem[a] + n \in Int
    BY HeaderAddresses DEF TypeOK
  <2>5. a = SEQ_NO => mem[a] + n >= 1
    BY <2>2, <2>4 DEF IndexInv, HeaderInv
  <2> QED  BY <2>3, <2>4, <2>5
<1> QED  BY <1>1, <1>2

(* commit_block_data_offset and update_block_info store to the header.     *)
LEMMA CountStep ==
  ASSUME Inductive, CommitOffset \/ UpdateBlockInfo
  PROVE  IndexInv'
<1> USE DEF Inductive, TypeInv
<1>1. /\ pc \in {"commit", "update"} /\ pc' \in {"update", "flush"}
      /\ UNCHANGED <<fsize, block, op, key, prev, cur>>
      /\ key \in FileIds /\ pc = "commit" => op = "write"
      /\ IF op = "write" THEN key \in Indexed ELSE key \notin Indexed
  BY DEF CommitOffset, UpdateBlockInfo, Goto, regVars, IndexInv, RegistersInv, TruthInv, StepOK
<1>2. PICK a \in {VERSION, FILE_COUNT, SIZE, DEL_FILE_COUNT, DEL_SIZE, SEQ_NO, DATA_FILE_OFFSET},
         x \in Int : mem' = [mem EXCEPT ![a] = x] /\ (a = SEQ_NO => x >= 1)
  BY CounterStored
<1>3. HeaderInv' /\ MappedInv' /\ BucketsInv' /\ FreeInv' /\ Indexed' = Indexed
  BY <1>1, <1>2, CounterStep
<1> QED
  BY <1>1, <1>3 DEF IndexInv, RegistersInv, TruthInv

(* A tool that reads a node or a file, or ends, stores nothing.            *)
LEMMA QuietToolStep ==
  ASSUME Inductive, WriteBlock \/ ReadSegmentMeta \/ Flush \/ ReadBlock \/ Kill
  PROVE  IndexInv'
<1> USE DEF Inductive, TypeInv
<1>1. CASE WriteBlock
  <2>1. /\ pc = "pwrite_block" /\ mem' = mem /\ fsize' = fsize
        /\ pc' \in {"find", "idle"} /\ UNCHANGED <<op, key>>
    BY <1>1 DEF WriteBlock, Goto, Exit
  <2>3. pc' = "find" => UNCHANGED <<mapped, prev, meta>>
    BY <1>1 DEF WriteBlock, Exit, regVars
  <2>2. KeepsReach
    BY <2>1, <2>3 DEF TypeOK, KeepsReach, Mapping
  <2> QED
    BY <2>1, <2>2, <2>3, QuietStep DEF IndexInv, RegistersInv, TruthInv
<1>2. CASE ReadSegmentMeta
  <2>1. CASE Fails(cur, mem)
    BY <2>1, FailsSizes, QuietExit DEF Fails, TypeOK
  <2>2. CASE ~ Fails(cur, mem)
    <3>1. /\ pc = "read_meta" /\ pc' = "pread_block" /\ mem' = mem /\ Preads(cur)
          /\ UNCHANGED <<op, key>>
      BY <1>2, <2>2 DEF ReadSegmentMeta, TakesMeta, Goto
    <3>2. KeepsReach
      BY <3>1, PreadsSizes DEF TypeOK, KeepsReach, Mapping
    <3> QED
      BY <3>1, <3>2, QuietStep DEF IndexInv, RegistersInv, TruthInv
  <2> QED  BY <2>1, <2>2
<1>3. CASE Flush \/ ReadBlock \/ Kill
  <2>1. mem' = mem /\ fsize' = fsize /\ \E r \in Results : Exit(r)
    BY <1>3 DEF Flush, ReadBlock, Kill, fileVars, Results
  <2>2. fsize' >= fsize
    BY <2>1 DEF TypeOK
  <2> QED  BY <2>1, <2>2, QuietExit
<1> QED  BY <1>1, <1>2, <1>3

(* A tool killed while it copies a node leaves a torn node, but one that   *)
(* no bucket leads to.                                                     *)
LEMMA KilledStore ==
  ASSUME Inductive, KillStoring
  PROVE  /\ pc \in {"store", "free"} /\ pc' = "idle"
         /\ cur \in Int /\ IsNodeOffset(cur) /\ cur \notin LiveNodes
         /\ KeepsReach /\ SameHeader /\ SameBuckets
         /\ \A p \in NodeOffsets : p # cur => ReadMeta(mem', p) = ReadMeta(mem, p)
<1> USE DEF Inductive, TypeInv
<1>1. /\ pc \in {"store", "free"} /\ pc' = "idle"
      /\ cur \in Int /\ IsNodeOffset(cur) /\ cur \notin LiveNodes
  BY NodeAddresses
     DEF KillStoring, Exit, TypeOK, IndexInv, RegistersInv, Stored, AllocatedNodes
<1>2. PICK v \in MetaInfo : Torn(cur, v)
  <2>1. Inserted(meta) \in MetaInfo /\ Freed(mem, meta) \in MetaInfo
    BY MetaTypes, StoreTypes DEF TypeOK
  <2> QED  BY <1>1, <2>1 DEF KillStoring
<1>3. KeepsReach
  BY <1>1, <1>2, TornSizes DEF KeepsReach, Mapping
<1>4. /\ SameHeader /\ SameBuckets
      /\ \A p \in NodeOffsets : p # cur => ReadMeta(mem', p) = ReadMeta(mem, p)
  <2>1. PICK n \in TornBytes : mem' = PartOfMeta(mem, cur, v, n)
    BY <1>2 DEF Torn, StoresPart
  <2> QED  BY <1>1, <2>1, TornStore
<1> QED  BY <1>1, <1>3, <1>4

(* Nor is the torn node on the free list.                                  *)
LEMMA KillStoringStep ==
  ASSUME Inductive, KillStoring
  PROVE  IndexInv'
<1> USE DEF Inductive, TypeInv
<1>1. /\ pc \in {"store", "free"} /\ pc' = "idle"
      /\ cur \in Int /\ IsNodeOffset(cur) /\ cur \notin LiveNodes
      /\ KeepsReach /\ SameHeader /\ SameBuckets
      /\ \A p \in NodeOffsets : p # cur => ReadMeta(mem', p) = ReadMeta(mem, p)
  BY KilledStore
<1>2. /\ mem'[BUCKET_SIZE] = mem[BUCKET_SIZE] /\ mem'[SEQ_NO] = mem[SEQ_NO]
      /\ mem'[INDEX_FILE_SIZE] = mem[INDEX_FILE_SIZE] /\ mem'[FREE_HEAD] = mem[FREE_HEAD]
  BY <1>1, HeaderAddresses DEF SameHeader
<1>3. AllocatedNodes' = AllocatedNodes /\ HeaderInv'
  BY <1>2 DEF AllocatedNodes, IndexInv, HeaderInv
<1>9. Reach' >= Reach /\ MappedInv'
  BY <1>1, ReachKept DEF IndexInv
<1>4. BucketsInv' /\ LiveNodes' = LiveNodes
  BY <1>1, <1>3, <1>9, BucketsKept, LiveView DEF IndexInv, Stored, AllocatedNodes
<1>5. PICK S \in SUBSET AllocatedNodes :
        FreeNodes(S) /\ \A o \in S : o + META_SIZE <= Reach
  BY DEF IndexInv, FreeInv
<1>6. cur \notin S /\ LiveNodes \cap S = {}
  BY <1>1, <1>5 DEF FreeNodes
<1>7. \A o \in S : /\ o + META_SIZE <= Reach
                   /\ o \in AllocatedNodes' /\ ReadMeta(mem', o) = ReadMeta(mem, o)
  BY <1>1, <1>3, <1>5, <1>6 DEF AllocatedNodes
<1>8. FreeInv'
  BY <1>1, <1>2, <1>4, <1>5, <1>6, <1>7, <1>9, FreeKept
<1> QED
  BY <1>1, <1>3, <1>4, <1>8, <1>9 DEF IndexInv, RegistersInv, TruthInv

(* delete_segment_meta takes the node out of its bucket: the file is gone. *)
LEMMA UnlinkStep ==
  ASSUME Inductive, UnlinkNode
  PROVE  IndexInv'
<1> USE DEF Inductive, TypeInv
<1>1. /\ pc = "unlink" /\ op = "delete" /\ prev = 0
      /\ key \in FileIds /\ cur = BucketHead(key) /\ cur # 0 /\ cur \in Int
      /\ Stored(cur) /\ HasKey(ReadMeta(mem, cur), key) /\ NextOf(cur) = 0
  BY DEF UnlinkNode, StepOK, TypeOK, IndexInv, RegistersInv, BucketsInv
<1>2. CASE Fails(cur, mem)
  BY <1>1, <1>2, FailsSizes, QuietExit DEF Fails
<1>3. CASE ~ Fails(cur, mem)
  <2>1. /\ Preads(cur) /\ mem' = LinkedAtHead(mem, key, 0) /\ pc' = "free"
        /\ UNCHANGED <<op, key, cur>>
    BY <1>1, <1>3 DEF UnlinkNode, Goto, NextOf
  <2>2. Reach' = Reach /\ Reach' >= Reach /\ MappedInv'
    <3>1. mapped' = mapped /\ fsize' = fsize
      BY <1>1, <2>1, PreadsSizes DEF Stored, Reach, Mapping
    <3>2. KeepsReach
      BY <1>1, <3>1 DEF TypeOK, KeepsReach, Mapping
    <3>3. Reach' = Reach
      BY <1>1, <2>1, <3>1 DEF Reach, Mapping
    <3> QED  BY <3>2, <3>3, ReachKept DEF IndexInv
  <2>3. /\ SameHeader /\ SameNodes /\ BucketHead(key)' = 0
        /\ \A j \in FileIds : j # key => BucketHead(j)' = BucketHead(j)
    BY <1>1, <2>1, SlotStore DEF IndexInv, HeaderInv
  <2>4. /\ mem'[BUCKET_SIZE] = mem[BUCKET_SIZE] /\ mem'[SEQ_NO] = mem[SEQ_NO]
        /\ mem'[INDEX_FILE_SIZE] = mem[INDEX_FILE_SIZE] /\ mem'[FREE_HEAD] = mem[FREE_HEAD]
    BY <2>3, HeaderAddresses DEF SameHeader
  <2>5. AllocatedNodes' = AllocatedNodes /\ HeaderInv'
    BY <2>4 DEF AllocatedNodes, IndexInv, HeaderInv
  <2>6. \A o \in AllocatedNodes : ReadMeta(mem', o) = ReadMeta(mem, o)
    BY <2>3 DEF SameNodes, AllocatedNodes
  <2>7. BucketsInv'
    <3> SUFFICES ASSUME NEW k \in FileIds, BucketHead(k)' # 0
                 PROVE  /\ (Stored(BucketHead(k)))'
                        /\ (HasKey(ReadMeta(mem, BucketHead(k)), k))'
                        /\ (NextOf(BucketHead(k)))' = 0
      BY DEF BucketsInv
    <3>1. BucketHead(k)' = BucketHead(k) /\ BucketHead(k) # 0
      BY <2>1, <2>3
    <3>2. /\ Stored(BucketHead(k)) /\ HasKey(ReadMeta(mem, BucketHead(k)), k)
          /\ NextOf(BucketHead(k)) = 0
      BY <3>1 DEF IndexInv, BucketsInv
    <3> QED  BY <2>2, <2>5, <2>6, <3>1, <3>2 DEF Stored, NextOf
  <2>8. LiveNodes' = LiveNodes \ {cur}
    <3>1. \A j \in FileIds : BucketHead(j) = cur => j = key
      BY <1>1 DEF IndexInv, BucketsInv, HasKey
    <3>2. ASSUME NEW o PROVE o \in LiveNodes' <=> o \in LiveNodes \ {cur}
      BY <1>1, <2>1, <2>3, <2>7, <3>1, LiveView, LiveViewNext DEF IndexInv
    <3> QED  BY <3>2
  <2>9. PICK S \in SUBSET AllocatedNodes :
          FreeNodes(S) /\ \A o \in S : o + META_SIZE <= Reach
    BY DEF IndexInv, FreeInv
  <2>10. LiveNodes' \cap S = {} /\ cur \notin S
    BY <1>1, <2>8, <2>9, LiveView DEF FreeNodes, IndexInv
  <2>11. \A o \in S : /\ o + META_SIZE <= Reach
                     /\ o \in AllocatedNodes' /\ ReadMeta(mem', o) = ReadMeta(mem, o)
    BY <2>5, <2>6, <2>9
  <2>12. FreeInv'
    BY <2>1, <2>2, <2>4, <2>9, <2>10, <2>11, FreeKept
  <2>13. RegistersInv'
    BY <1>1, <2>1, <2>2, <2>3, <2>5, <2>8 DEF RegistersInv, Stored
  <2> QED
    BY <1>1, <2>1, <2>2, <2>5, <2>7, <2>12, <2>13 DEF IndexInv, TruthInv
<1> QED  BY <1>2, <1>3

(* It then makes the node point at the free list.                          *)
LEMMA FreeStep ==
  ASSUME Inductive, FreeNode
  PROVE  IndexInv'
<1> USE DEF Inductive, TypeInv
<1>1. /\ pc = "free" /\ op = "delete" /\ key \in FileIds /\ BucketHead(key) = 0
      /\ Stored(cur) /\ cur \notin LiveNodes /\ cur \in Int /\ meta \in MetaInfo
  BY DEF FreeNode, StepOK, TypeOK, IndexInv, RegistersInv
<1> DEFINE v == Freed(mem, meta)
           fails == FailsStoring(cur, v, mem)
<1>2. ~ fails
  BY <1>1, FailsStoringSizes, Sizes DEF Stored, Reach, Mapping, TypeOK
<1>3. CASE ~ fails
  <2>1. /\ Pwrites(cur) /\ mem' = WriteMeta(mem, cur, v) /\ pc' = "push"
        /\ UNCHANGED <<op, key, cur>>
    BY <1>3 DEF FreeNode, Goto, regVars
  <2>2. cur \in NodeOffsets /\ v \in MetaInfo /\ v.next = mem[FREE_HEAD]
    BY <1>1, HeaderAddresses, StoreTypes DEF Freed, Stored, AllocatedNodes, TypeOK, MetaInfo
  <2>3. KeepsReach
    BY <1>1, <2>1, PwritesSizes DEF KeepsReach, Mapping
  <2>4. /\ HeaderInv' /\ MappedInv' /\ BucketsInv' /\ FreeInv' /\ Reach' >= Reach
        /\ LiveNodes' = LiveNodes /\ AllocatedNodes' = AllocatedNodes
        /\ SameBuckets /\ ReadMeta(mem', cur) = v /\ mem'[FREE_HEAD] = mem[FREE_HEAD]
    <3> HIDE DEF v
    <3> QED  BY <1>1, <2>1, <2>2, <2>3, HeldNodeStep
  <2>5. NextOf(cur)' = mem'[FREE_HEAD]
    BY <2>1, <2>2, <2>4 DEF NextOf
  <2>6. Stored(cur)'
    BY <1>1, <2>1, <2>2, <2>4, NodeAddresses, ReachType, Sizes DEF Stored
  <2>7. RegistersInv'
    BY <1>1, <2>1, <2>4, <2>5, <2>6 DEF RegistersInv, SameBuckets
  <2> QED
    BY <2>1, <2>4, <2>7 DEF IndexInv, TruthInv
<1> QED  BY <1>2, <1>3

(* A proper list stays one when a new node that points at its head is put  *)
(* in front of it, as delete_segment_meta does.                            *)
LEMMA PushedList ==
  ASSUME NEW S, NEW first, NEW o, o \notin S, o # 0, NEW T, T = S \cup {o},
         NEW next, NEW link, ProperList(S, first, next), link[o] = first,
         \A p \in S : link[p] = next[p]
  PROVE  ProperList(T, o, link)
<1>1. first \in S \cup {0} /\ \A p \in S : link[p] \in S \cup {0}
  BY DEF ProperList
<1>2. \A p \in S : link[p] = first => link[p] = 0
  BY DEF ProperList
<1>3. \A p, q \in S : link[p] = link[q] /\ link[p] # 0 => p = q
  BY DEF ProperList
<1> QED  BY <1>1, <1>2, <1>3 DEF ProperList

(* At last it makes the node the head of the free list.                    *)
LEMMA PushStep ==
  ASSUME Inductive, PushNode
  PROVE  IndexInv'
<1> USE DEF Inductive, TypeInv
<1>1. /\ pc = "push" /\ op = "delete" /\ key \in FileIds /\ BucketHead(key) = 0
      /\ Stored(cur) /\ cur \notin LiveNodes /\ NextOf(cur) = mem[FREE_HEAD]
  BY DEF PushNode, StepOK, IndexInv, RegistersInv
<1>2. /\ mem' = [mem EXCEPT ![FREE_HEAD] = cur] /\ pc' = "update"
      /\ UNCHANGED <<fsize, op, key>> /\ KeepsReach
  BY DEF PushNode, Pushed, Goto, TypeOK, KeepsReach, Mapping
<1>8. Reach' = Reach /\ Reach' >= Reach /\ MappedInv'
  BY <1>1, <1>2, ReachKept DEF IndexInv, Reach, Mapping
<1>3. /\ SameBuckets /\ SameNodes /\ mem'[FREE_HEAD] = cur
      /\ mem'[BUCKET_SIZE] = mem[BUCKET_SIZE] /\ mem'[SEQ_NO] = mem[SEQ_NO]
      /\ mem'[INDEX_FILE_SIZE] = mem[INDEX_FILE_SIZE]
  BY <1>2, HeaderStore, HeaderAddresses
<1>4. AllocatedNodes' = AllocatedNodes /\ HeaderInv'
  BY <1>3 DEF AllocatedNodes, IndexInv, HeaderInv
<1>5. BucketsInv' /\ LiveNodes' = LiveNodes /\ Indexed' = Indexed
  BY <1>3, <1>4, <1>8, BucketsKept, LiveView DEF IndexInv, Stored, SameNodes, AllocatedNodes
<1>6. FreeInv'
  <2>1. PICK S \in SUBSET AllocatedNodes :
          FreeNodes(S) /\ \A o \in S : o + META_SIZE <= Reach
    BY DEF IndexInv, FreeInv
  <2>2. PICK T, o : T = S \cup {o} /\ o = cur
    OBVIOUS
  <2>3. o \notin S /\ o # 0 /\ NextOf(o) = mem[FREE_HEAD]
        /\ o \in AllocatedNodes /\ o + META_SIZE <= Reach
    BY <1>1, <2>1, <2>2, NodeAddresses, Sizes
       DEF FreeNodes, Stored, AllocatedNodes, IsNodeOffset
  <2>4. [p \in T |-> NextOf(p)]' = [p \in T |-> NextOf(p)]
    BY <1>3, <2>1, <2>2, <2>3 DEF NextOf, SameNodes, AllocatedNodes
  <2>5. ProperList(T, o, [p \in T |-> NextOf(p)])
    <3>1. ProperList(S, mem[FREE_HEAD], [p \in S |-> NextOf(p)])
      BY <2>1 DEF FreeNodes
    <3> QED  BY <2>2, <2>3, <3>1, PushedList
  <2>6. FreeNodes(T)'
    <3>1. T \cap LiveNodes' = {}
      BY <1>1, <1>5, <2>1, <2>2 DEF FreeNodes
    <3> QED  BY <1>2, <1>3, <2>2, <2>4, <2>5, <3>1 DEF FreeNodes
  <2> QED  BY <1>4, <1>8, <2>1, <2>2, <2>3, <2>6 DEF FreeInv
<1>7. key \notin Indexed'
  BY <1>1, <1>5, LiveView DEF IndexInv
<1> QED
  BY <1>1, <1>2, <1>4, <1>5, <1>6, <1>7, <1>8 DEF IndexInv, RegistersInv, TruthInv
-----------------------------------------------------------------------------
(* A step of another process that only lengthens the file keeps it.        *)
LEMMA StretchStep ==
  ASSUME TypeInv, TypeInv', IndexInv, fsize' >= fsize,
         UNCHANGED <<mem, mapped, op, pc, key, pos, prev, cur, meta>>
  PROVE  IndexInv'
<1> USE DEF TypeInv
<1>1. KeepsReach
  BY DEF KeepsReach, Mapping
<1>2. /\ HeaderInv' /\ MappedInv' /\ BucketsInv' /\ Reach' >= Reach
      /\ LiveNodes' = LiveNodes /\ Indexed' = Indexed /\ AllocatedNodes' = AllocatedNodes
      /\ \A k : BucketHead(k)' = BucketHead(k)
  BY <1>1, QuietStep
<1>3. FreeInv'
  <2>1. PICK S \in SUBSET AllocatedNodes :
          FreeNodes(S) /\ \A o \in S : o + META_SIZE <= Reach
    BY DEF IndexInv, FreeInv
  <2> QED  BY <1>2, <2>1, FreeKept DEF FreeNodes
<1>4. RegistersInv'
  <2>1. pc = "store" => cur \in Int
    BY DEF TypeOK
  <2>2. ASSUME cur \in Int, cur + META_SIZE <= Reach PROVE cur + META_SIZE <= Reach'
    BY <1>2, <2>2, ReachType, Sizes
  <2>3. pc \in {"link", "free", "push"} => cur \in Int
    BY DEF TypeOK
  <2>4. pc = "link" => (HasKey(ReadMeta(mem, cur), key))' /\ NextOf(cur)' = 0
    BY DEF IndexInv, RegistersInv, NextOf
  <2>5. pc = "push" => NextOf(cur)' = mem'[FREE_HEAD]
    BY DEF IndexInv, RegistersInv, NextOf
  <2>6. pc \in {"link", "free", "push"} => Stored(cur)'
    BY <1>2, <2>2, <2>3 DEF IndexInv, RegistersInv, Stored
  <2> QED
    BY <1>2, <2>1, <2>2, <2>4, <2>5, <2>6 DEF IndexInv, RegistersInv
<1>5. TruthInv'
  BY <1>2 DEF IndexInv, TruthInv
<1> QED  BY <1>2, <1>3, <1>4, <1>5 DEF IndexInv

(* Every step of every tool keeps IndexInv.                                *)
LEMMA IndexInvStep ==
  ASSUME EarlyBlock, FullyMapped, TypeInv, IndexInv, [Next]_vars
  PROVE  TypeInv' /\ IndexInv'
<1>1. TypeInv'
  BY TypeInvStep DEF IndexInv, HeaderInv
<1>2. Inductive
  BY <1>1 DEF Inductive
<1>3. IndexInv'
  <2>1. CASE Start
    BY <1>2, <2>1, StartStep
  <2>2. CASE HashFindSlot \/ HashFindEnd \/ HashFindHit \/ HashFindNext \/ HashFindFails
    BY <1>2, <2>2, FindStep
  <2>3. CASE ReuseNode
    BY <1>2, <2>3, ReuseStep
  <2>4. CASE AppendNode
    BY <1>2, <2>4, AppendStep
  <2>5. CASE StoreMeta
    BY <1>2, <2>5, StoreStep
  <2>6. CASE LinkNode
    BY <1>2, <2>6, LinkStep
  <2>7. CASE CommitOffset \/ UpdateBlockInfo
    BY <1>2, <2>7, CountStep
  <2>8. CASE UnlinkNode
    BY <1>2, <2>8, UnlinkStep
  <2>9. CASE FreeNode
    BY <1>2, <2>9, FreeStep
  <2>10. CASE PushNode
    BY <1>2, <2>10, PushStep
  <2>11. CASE WriteBlock \/ ReadSegmentMeta \/ Flush \/ ReadBlock \/ Kill
    BY <1>2, <2>11, QuietToolStep
  <2>12. CASE RelinkNode \/ UnlinkBehind \/ BypassNode
    BY <2>12 DEF RelinkNode, UnlinkBehind, BypassNode, IndexInv, RegistersInv
  <2>13. CASE KillStoring
    BY <1>2, <2>13, KillStoringStep
  <2>14. CASE UNCHANGED vars
    <3>1. fsize' >= fsize
      BY <2>14 DEF vars, TypeInv, TypeOK
    <3> QED  BY <1>1, <2>14, <3>1, StretchStep DEF vars
  <2> QED
    BY <2>1, <2>2, <2>3, <2>4, <2>5, <2>6, <2>7, <2>8, <2>9, <2>10, <2>11, <2>12, <2>13,
       <2>14
       DEF Next, ToolStep
<1> QED  BY <1>1, <1>3

(* It holds of the index that block_init leaves.                           *)
LEMMA IndexInvInit ==
  ASSUME EarlyBlock, Init
  PROVE  IndexInv
<1>1. /\ mem[BUCKET_SIZE] = BucketSize /\ mem[SEQ_NO] = 1
      /\ mem[INDEX_FILE_SIZE] = NodeBase /\ mem[FREE_HEAD] = 0
  BY HeaderAddresses
     DEF Init, FreshIndex, BLOCK_ID, SEQ_NO, BUCKET_SIZE, INDEX_FILE_SIZE, FREE_HEAD
<1>2. pc = "idle"
  BY DEF Init
<1>3. HeaderInv
  BY <1>1, Sizes DEF HeaderInv, IsNodeOffset
<1>4. \A k \in FileIds : BucketHead(k) = 0
  <2> SUFFICES ASSUME NEW k \in FileIds PROVE BucketHead(k) = 0
    OBVIOUS
  <2>1. SlotAddr(k) \in Addr /\ SlotAddr(k) >= 44 /\ SlotAddr(k) \in Nat /\ k % BucketSize = k
    BY SlotAddresses, Sizes, AddrIsWord
  <2>2. mem[SlotAddr(k)] = 0
    BY <2>1 DEF Init, FreshIndex, BLOCK_ID, SEQ_NO, BUCKET_SIZE, INDEX_FILE_SIZE
  <2> QED  BY <2>1, <2>2 DEF BucketHead
<1>5. BucketsInv /\ LiveNodes = {}
  <2>1. 0 \notin NodeOffsets
    BY NodeAddresses, Sizes DEF IsNodeOffset
  <2> QED  BY <1>4, <2>1 DEF BucketsInv, LiveNodes, Indexed
<1>6. FreeInv
  <2>1. FreeNodes({})
    BY <1>1, <1>2 DEF FreeNodes, ProperList
  <2> QED  BY <2>1 DEF FreeInv
<1> QED
  BY <1>2, <1>3, <1>5, <1>6 DEF IndexInv, MappedInv, Mapping, RegistersInv, TruthInv

(* IndexInv holds of a block in every reachable state, however many ids    *)
(* there are below the overlapped slots, however the index grows inside    *)
(* the mapping, and however often a tool is killed.                        *)
THEOREM IndexSound ==
  ASSUME EarlyBlock, FullyMapped
  PROVE  Spec => [](TypeInv /\ IndexInv)
<1>1. Init => TypeInv /\ IndexInv
  BY TypeInvInit, IndexInvInit
<1>2. TypeInv /\ IndexInv /\ [Next]_vars => TypeInv' /\ IndexInv'
  BY IndexInvStep
<1> QED  BY <1>1, <1>2, PTL DEF Spec

(* Type correctness: the mapping never outgrows its maximum, update_block_ *)
(* info never counts past its last counter, every word stays an integer.   *)
THEOREM TypeCorrect ==
  ASSUME EarlyBlock, FullyMapped
  PROVE  Spec => []TypeOK
<1>1. TypeInv /\ IndexInv => TypeOK
  BY DEF TypeInv
<1> QED  BY <1>1, IndexSound, PTL

(* IndexInv says that the free list is one.                                *)
LEMMA FreeListView ==
  ASSUME TypeInv, IndexInv
  PROVE  FreeListSound
<1>1. LiveNodes \subseteq AllocatedNodes
  BY LiveView DEF TypeInv, IndexInv, Stored
<1> QED  BY <1>1 DEF IndexInv, FreeInv, FreeListSound

(* No node is ever on the free list twice, or there and in use, or handed  *)
(* out twice, whenever tools are killed.                                   *)
THEOREM FreeListCorrect ==
  ASSUME EarlyBlock, FullyMapped
  PROVE  Spec => []FreeListSound
<1>1. TypeInv /\ IndexInv => FreeListSound
  BY FreeListView
<1> QED  BY <1>1, IndexSound, PTL

(* Every report of a tool is true when it is made, and stays true until    *)
(* the next tool starts.                                                   *)
LEMMA ReportStep ==
  ASSUME EarlyBlock, FullyMapped, TypeInv, IndexInv, ReportsTruth, [Next]_vars
  PROVE  ReportsTruth'
<1> USE DEF TypeInv
<1>a. TypeInv' /\ IndexInv'
  BY IndexInvStep
<1>b. ASSUME pc' # "idle" \/ ret' \in {"IO_ERROR", "killed"} PROVE ReportsTruth'
  BY <1>b DEF ReportsTruth, AtRest
<1>c. ASSUME mem' = mem PROVE Indexed' = Indexed
  BY <1>c DEF Indexed, BucketHead
<1>1. CASE Start
  BY <1>1, <1>b DEF Start, StartWrite, StartLookup
<1>2. CASE HashFindSlot \/ HashFindNext \/ HashFindFails
  BY <1>2, <1>b DEF HashFindSlot, HashFindNext, PassOn, HashFindFails, Fails, Faults, Exit, Goto
<1>3. CASE HashFindEnd
  <2>1. CASE op = "write"
    BY <1>3, <2>1, <1>b DEF HashFindEnd, Goto
  <2>2. CASE op # "write"
    <3>1. /\ pc = "walk" /\ pos = 0 /\ mem' = mem /\ UNCHANGED <<op, key>>
          /\ ret' = "EXIT_MEFA_NOT_FOUND_ERROR"
      BY <1>3, <2>2 DEF HashFindEnd, Exit, fileVars
    <3>2. key \notin Indexed'
      <4>1. key \in FileIds /\ BucketHead(key) = 0
        BY <3>1 DEF IndexInv, RegistersInv
      <4> QED  BY <3>1, <4>1, <1>c, LiveView DEF IndexInv
    <3> QED  BY <2>2, <3>1, <3>2 DEF ReportsTruth
  <2> QED  BY <2>1, <2>2
<1>4. CASE HashFindHit
  <2>1. CASE op # "write"
    BY <1>4, <2>1, <1>b DEF HashFindHit, HitOn, Goto
  <2>2. CASE op = "write"
    <3>1. /\ pc = "walk" /\ pos # 0 /\ mem' = mem /\ UNCHANGED <<op, key>>
          /\ ret' = "EXIT_META_UNEXPECT_FOUND_ERROR"
      BY <1>4, <2>2 DEF HashFindHit, HitOn, Exit
    <3>2. key \in Indexed'
      <4>1. key \in FileIds /\ BucketHead(key) # 0
        BY <3>1 DEF IndexInv, RegistersInv
      <4> QED  BY <3>1, <4>1, <1>c, LiveView DEF IndexInv
    <3> QED  BY <2>2, <3>1, <3>2 DEF ReportsTruth
  <2> QED  BY <2>1, <2>2
<1>5. CASE Flush
  <2>1. /\ pc = "flush" /\ mem' = mem /\ UNCHANGED <<op, key>>
        /\ ret' \in {"TFS_SUCCESS", "TFS_ERROR"} /\ op \in {"write", "delete"}
    BY <1>5 DEF Flush, Exit, fileVars, StepOK
  <2>2. IF op = "write" THEN key \in Indexed' ELSE key \notin Indexed'
    BY <2>1, <1>c DEF IndexInv, TruthInv
  <2> QED  BY <2>1, <2>2 DEF ReportsTruth
<1>6. CASE ReadBlock
  <2>1. /\ pc = "pread_block" /\ mem' = mem /\ UNCHANGED <<op, key>>
        /\ ret' \in {"TFS_SUCCESS", "IO_ERROR"} /\ op = "read"
    BY <1>6 DEF ReadBlock, Exit, fileVars, StepOK
  <2>2. key \in Indexed'
    BY <2>1, <1>c DEF IndexInv, TruthInv
  <2> QED  BY <2>1, <2>2 DEF ReportsTruth
<1>7. CASE WriteBlock \/ ReadSegmentMeta \/ Kill \/ KillStoring
  BY <1>7, <1>b DEF WriteBlock, ReadSegmentMeta, TakesMeta, Kill, KillStoring, Fails, Exit, Goto
<1>8. CASE ReuseNode \/ AppendNode \/ StoreMeta \/ LinkNode \/ RelinkNode
  BY <1>8, <1>b
     DEF ReuseNode, AppendNode, StoreMeta, LinkNode, RelinkNode, Fails, FailsStoring, Exit, Goto
<1>9. CASE CommitOffset \/ UpdateBlockInfo \/ PushNode
  BY <1>9, <1>b DEF CommitOffset, UpdateBlockInfo, PushNode, Goto
<1>10. CASE UnlinkNode \/ UnlinkBehind \/ BypassNode \/ FreeNode
  BY <1>10, <1>b
     DEF UnlinkNode, UnlinkBehind, BypassNode, FreeNode, Fails, FailsStoring, Exit, Goto
<1>11. CASE UNCHANGED vars
  BY <1>11, <1>c DEF vars, ReportsTruth, AtRest
<1> QED
  BY <1>1, <1>2, <1>3, <1>4, <1>5, <1>6, <1>7, <1>8, <1>9, <1>10, <1>11 DEF Next, ToolStep

(* What a tool reports is true, whenever other runs were killed: a write   *)
(* that succeeded can be found, a delete that succeeded cannot, a file is  *)
(* denied exactly when it is not there.                                    *)
THEOREM ReportsCorrect ==
  ASSUME EarlyBlock, FullyMapped
  PROVE  Spec => []ReportsTruth
<1>1. Init => ReportsTruth
  BY DEF Init, ReportsTruth
<1>2. TypeInv /\ IndexInv /\ ReportsTruth /\ [Next]_vars => ReportsTruth'
  BY ReportStep
<1> QED  BY <1>1, <1>2, IndexSound, PTL DEF Spec
=============================================================================
