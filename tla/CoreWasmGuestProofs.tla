------------------------- MODULE CoreWasmGuestProofs -------------------------
(***************************************************************************)
(* Proofs about CoreWasmGuest for every page size, heap base, resource     *)
(* bound and sequence of host calls.                                       *)
(***************************************************************************)
EXTENDS CoreWasmGuest, TLAPS

\* Aligning never moves an address down.
LEMMA AlignUp ==
    ASSUME NEW v \in Nat, NEW a \in Nat \ {0}
    PROVE  AlignTo(v, a) \in Nat /\ v <= AlignTo(v, a)
  <1>1. (v + a - 1) \div a \in Nat /\ v <= ((v + a - 1) \div a) * a
    OBVIOUS
  <1>2. QED BY <1>1 DEF AlignTo

\* Rounding the missing pages up is enough.
LEMMA PagesUp ==
    ASSUME NEW p \in Nat, NEW b \in Nat \ {0}, NEW r \in Nat, r > p * b
    PROVE  /\ (r - p * b + b - 1) \div b \in Nat
           /\ r <= (p + (r - p * b + b - 1) \div b) * b
  <1> DEFINE m == r - p * b
             q == (m + b - 1) \div b
  <1>1. m \in Nat \ {0} /\ p * b \in Nat
    OBVIOUS
  <1>2. q \in Nat /\ m <= q * b
    <2> HIDE DEF m
    <2>1. QED BY <1>1
  <1>3. (p + q) * b = p * b + q * b
    <2> HIDE DEF q
    <2>1. QED BY <1>2
  <1>4. QED
    <2>1. r = m + p * b
      BY <1>1
    <2> HIDE DEF q
    <2>2. q * b \in Nat
      BY <1>2
    <2>3. QED BY <1>1, <1>2, <1>3, <2>1, <2>2 DEF q

\* More pages, more bytes.
LEMMA MoreBytes ==
    ASSUME NEW p \in Nat, NEW g \in Nat, NEW b \in Nat
    PROVE  p * b \in Nat /\ (p + g) * b \in Nat /\ p * b <= (p + g) * b
  <1>1. (p + g) * b = p * b + g * b /\ p * b \in Nat /\ g * b \in Nat
    OBVIOUS
  <1>2. QED BY <1>1

\* Blocks are handed out upwards, below NEXT and inside memory.
Heap ==
    /\ pages <= MaxPages
    /\ \A i \in DOMAIN blocks :
         /\ blocks[i].lo <= blocks[i].hi
         /\ blocks[i].hi <= next
         /\ blocks[i].lo < MemoryBytes
         /\ blocks[i].hi <= MemoryBytes
    /\ \A i, j \in DOMAIN blocks : i < j => blocks[i].hi <= blocks[j].lo

\* A list entry computes into a block of its whole output.
Computing == entry = "list" /\ call.pc = "compute" => OutputAt(call.out, OutputCap)

Inv == TypeOK /\ Heap /\ Computing /\ PointersFit /\ NoFalseOverlap

LEMMA InitInv == Init => Inv
  BY GuestAssumption DEF Init, Inv, TypeOK, Heap, Computing, PointersFit, NoFalseOverlap, Idle, Trap

\* Where a successful allocation lands.
LEMMA Lands ==
    ASSUME TypeOK, Heap, NEW size \in Nat, NEW a \in Nat, CanAllocate(size, a),
           pages' = pages + Growth(Required(size, a))
    PROVE  /\ Start(a) \in Nat
           /\ next <= Start(a)
           /\ pages' \in Nat /\ pages' <= MaxPages
           /\ MemoryBytes \in Nat /\ MemoryBytes' \in Nat /\ MemoryBytes <= MemoryBytes'
           /\ Start(a) < MemoryBytes'
           /\ Start(a) + size <= MemoryBytes'
           /\ MemoryBytes' < Half
  <1>1. next \in Nat /\ pages \in Nat /\ Page \in Nat \ {0} /\ MinAlign \in Nat \ {0}
        /\ HeapBase \in Nat /\ MaxPages \in Nat /\ Half \in Nat
    BY GuestAssumption DEF TypeOK
  <1>2. AlignTo(HeapBase, MinAlign) \in Nat
    BY <1>1, AlignUp
  <1>3. /\ MaxOf(next, AlignTo(HeapBase, MinAlign)) \in Nat
        /\ next <= MaxOf(next, AlignTo(HeapBase, MinAlign))
        /\ MaxOf(a, MinAlign) \in Nat \ {0}
    BY <1>1, <1>2 DEF MaxOf
  <1>4. Start(a) \in Nat /\ next <= Start(a)
    <2>1. /\ AlignTo(MaxOf(next, AlignTo(HeapBase, MinAlign)), MaxOf(a, MinAlign)) \in Nat
          /\ MaxOf(next, AlignTo(HeapBase, MinAlign))
               <= AlignTo(MaxOf(next, AlignTo(HeapBase, MinAlign)), MaxOf(a, MinAlign))
      BY <1>3, AlignUp
    <2>2. QED BY <1>1, <1>3, <2>1 DEF Start
  <1>5. /\ Required(size, a) \in Nat
        /\ Start(a) < Required(size, a)
        /\ Start(a) + size <= Required(size, a)
    BY <1>4 DEF Required
  <1>6. MemoryBytes = pages * Page /\ MemoryBytes' = pages' * Page /\ MemoryBytes \in Nat
    BY <1>1, MoreBytes DEF MemoryBytes
  <1>7. Growth(Required(size, a)) \in Nat /\ Required(size, a) <= pages' * Page
    <2>1. CASE Required(size, a) <= MemoryBytes
      BY <1>1, <1>5, <1>6, <2>1 DEF Growth
    <2>2. CASE ~(Required(size, a) <= MemoryBytes)
      <3>1. Growth(Required(size, a)) = (Required(size, a) - pages * Page + Page - 1) \div Page
        BY <1>6, <2>2 DEF Growth
      <3>2. Required(size, a) > pages * Page
        BY <1>5, <1>6, <2>2
      <3>3. /\ (Required(size, a) - pages * Page + Page - 1) \div Page \in Nat
            /\ Required(size, a) <=
                 (pages + (Required(size, a) - pages * Page + Page - 1) \div Page) * Page
        BY <1>1, <1>5, <3>2, PagesUp
      <3>4. QED BY <3>1, <3>3
    <2>3. QED BY <2>1, <2>2
  <1>8. pages' \in Nat /\ pages' <= MaxPages
    BY <1>1, <1>7 DEF CanAllocate
  <1>9. MemoryBytes' \in Nat /\ MemoryBytes <= MemoryBytes'
    BY <1>1, <1>6, <1>7, MoreBytes
  <1>10. MemoryBytes' < Half
    <2>1. PICK k \in Nat : MaxPages = pages' + k
      <3>1. MaxPages - pages' \in Nat /\ MaxPages = pages' + (MaxPages - pages')
        BY <1>1, <1>8
      <3>2. QED BY <3>1
    <2>2. pages' * Page <= MaxPages * Page /\ pages' * Page \in Nat /\ MaxPages * Page \in Nat
      BY <1>1, <1>8, <2>1, MoreBytes
    <2>3. QED BY <1>1, <1>6, <2>2, GuestAssumption DEF ValidBounds
  <1>11. QED BY <1>4, <1>5, <1>6, <1>7, <1>8, <1>9, <1>10

\* An allocation keeps the heap in order.
LEMMA AllocateHeap ==
    ASSUME TypeOK, Heap, NEW size \in Nat, NEW a \in Nat, NEW for \in {"host", "guest", "output"},
           Allocate(size, a, for)
    PROVE  /\ Heap'
           /\ next' \in Nat /\ pages' \in Nat /\ blocks' \in Seq(Block)
           /\ DOMAIN blocks' = 1 .. Len(blocks) + 1 /\ Len(blocks') = Len(blocks) + 1
           /\ Len(blocks) \in Nat /\ DOMAIN blocks = 1 .. Len(blocks)
           /\ \A i \in DOMAIN blocks : blocks'[i] = blocks[i]
           /\ blocks'[Len(blocks) + 1] = [lo |-> Start(a), hi |-> Start(a) + size, for |-> for]
  <1> DEFINE b == [lo |-> Start(a), hi |-> Start(a) + size, for |-> for]
  <1>1. CanAllocate(size, a) /\ pages' = pages + Growth(Required(size, a))
    BY DEF Allocate
  <1>2. /\ Start(a) \in Nat /\ next <= Start(a)
        /\ pages' \in Nat /\ pages' <= MaxPages
        /\ MemoryBytes \in Nat /\ MemoryBytes' \in Nat /\ MemoryBytes <= MemoryBytes'
        /\ Start(a) < MemoryBytes' /\ Start(a) + size <= MemoryBytes'
    BY <1>1, Lands
  <1>3. b \in Block /\ next' = Start(a) + size /\ next' \in Nat /\ next \in Nat
    <2>1. Start(a) + size \in Nat
      BY <1>2
    <2>2. b \in Block
      BY <1>2, <2>1 DEF Block
    <2>3. next' = Start(a) + size /\ next \in Nat
      BY DEF Allocate, TypeOK
    <2>4. QED BY <2>1, <2>2, <2>3
  <1>4. /\ blocks' = Append(blocks, b) /\ blocks \in Seq(Block)
        /\ blocks' \in Seq(Block)
        /\ DOMAIN blocks' = 1 .. Len(blocks) + 1 /\ Len(blocks') = Len(blocks) + 1
        /\ Len(blocks) \in Nat /\ DOMAIN blocks = 1 .. Len(blocks)
        /\ \A i \in DOMAIN blocks : blocks'[i] = blocks[i]
        /\ blocks'[Len(blocks) + 1] = b
    <2>1. blocks' = Append(blocks, b) /\ blocks \in Seq(Block)
      BY DEF Allocate, TypeOK
    <2> HIDE DEF b
    <2>2. QED BY <1>3, <2>1
  <1>5. \A i \in DOMAIN blocks : blocks[i] \in Block /\ blocks[i].lo \in Nat /\ blocks[i].hi \in Nat
    <2>1. \A i \in DOMAIN blocks : blocks[i] \in Block
      BY <1>4
    <2>2. QED BY <2>1 DEF Block
  <1>6. ASSUME NEW i \in DOMAIN blocks'
        PROVE  /\ blocks'[i].lo <= blocks'[i].hi /\ blocks'[i].hi <= next'
               /\ blocks'[i].lo < MemoryBytes' /\ blocks'[i].hi <= MemoryBytes'
    <2>1. CASE i = Len(blocks) + 1
      BY <1>2, <1>3, <1>4, <2>1
    <2>2. CASE i \in DOMAIN blocks
      <3>1. /\ blocks[i].lo <= blocks[i].hi /\ blocks[i].hi <= next
            /\ blocks[i].lo < MemoryBytes /\ blocks[i].hi <= MemoryBytes
        BY <2>2 DEF Heap
      <3>2. QED BY <1>2, <1>3, <1>4, <1>5, <2>2, <3>1
    <2>3. QED BY <1>4, <2>1, <2>2
  <1>7. ASSUME NEW i \in DOMAIN blocks', NEW j \in DOMAIN blocks', i < j
        PROVE  blocks'[i].hi <= blocks'[j].lo
    <2>1. i \in DOMAIN blocks /\ blocks'[i] = blocks[i]
      BY <1>4, <1>7
    <2>2. CASE j = Len(blocks) + 1
      <3>1. blocks[i].hi <= next
        BY <2>1 DEF Heap
      <3>2. QED BY <1>2, <1>3, <1>4, <1>5, <2>1, <2>2, <3>1
    <2>3. CASE j \in DOMAIN blocks
      BY <1>4, <1>7, <2>1, <2>3 DEF Heap
    <2>4. QED BY <1>4, <2>2, <2>3
  <1>8. QED BY <1>2, <1>3, <1>4, <1>6, <1>7 DEF Heap

\* All of memory lies below 2^31.
LEMMA MemoryBelowHalf ==
    ASSUME TypeOK, Heap
    PROVE  MemoryBytes \in Nat /\ MemoryBytes < Half
  <1>1. pages \in Nat /\ MaxPages \in Nat /\ Page \in Nat /\ Half \in Nat /\ pages <= MaxPages
    BY GuestAssumption DEF TypeOK, Heap
  <1>2. MaxPages - pages \in Nat /\ MaxPages = pages + (MaxPages - pages)
    BY <1>1
  <1>3. pages * Page \in Nat /\ pages * Page <= MaxPages * Page /\ MaxPages * Page \in Nat
    BY <1>1, <1>2, MoreBytes
  <1>4. QED BY <1>1, <1>3, GuestAssumption DEF MemoryBytes, ValidBounds

\* What the primed call and answer may be in a step that hands out no block ...
QuietAnswer ==
    \/ last' = last
    \/ last'.tag \notin {"pointer too large", "overlap", "result"}
    \/ /\ last'.tag = "result"
       /\ last'.ptr < Half /\ OutputAt(last'.ptr, last'.len)

\* ... and in one that does.
BlockAnswer(size, a, for) ==
    \/ last' = last /\ for # "host"
    \/ last'.tag = "pointer"
    \/ last'.tag = "result" /\ for = "output" /\ last'.ptr = Start(a) /\ last'.len = size
    \/ last'.tag = "overlap" /\ for # "host" /\ Start(a) < last'.ptr + last'.len

CallTypes ==
    /\ call \in [pc : {"idle", "called", "compute"}, ptr : Nat, len : Nat, out : Nat]
    /\ last \in [tag : {"none", "memory", "argument", "pointer", "pointer too large",
                        "overlap", "result", "entry"}, ptr : Nat, len : Nat]

\* A list entry computes only after the allocation of its whole output.
ComputesInto(size, a, for) ==
    entry = "list" /\ call'.pc = "compute" =>
        \/ call' = call
        \/ for = "output" /\ size = OutputCap /\ call'.out = Start(a)

\* A step that leaves the heap alone.
LEMMA QuietInv ==
    ASSUME Inv, UNCHANGED <<entry, next, pages, blocks>>, CallTypes', Computing', QuietAnswer
    PROVE  Inv'
  <1>1. Heap'
    BY DEF Inv, Heap, MemoryBytes
  <1>2. OutputAt(last.ptr, last.len)' = OutputAt(last'.ptr, last'.len)
    BY DEF OutputAt
  <1>3. PointersFit'
    <2>1. CASE last' = last
      BY <1>2, <2>1 DEF Inv, PointersFit
    <2>2. CASE last'.tag \notin {"pointer too large", "overlap", "result"}
      BY <2>2 DEF PointersFit
    <2>3. CASE /\ last'.tag = "result"
               /\ last'.ptr < Half /\ OutputAt(last'.ptr, last'.len)
      BY <1>2, <2>3 DEF PointersFit
    <2>4. QED BY <2>1, <2>2, <2>3 DEF QuietAnswer
  <1>4. NoFalseOverlap'
    BY DEF Inv, NoFalseOverlap, QuietAnswer
  <1>5. TypeOK'
    BY DEF Inv, TypeOK, CallTypes
  <1>6. QED BY <1>1, <1>3, <1>4, <1>5 DEF Inv

\* A step that hands out a block.
LEMMA AllocInv ==
    ASSUME Inv, NEW size \in Nat, NEW a \in Nat, NEW for \in {"host", "guest", "output"},
           Allocate(size, a, for), entry' = entry, CallTypes', ComputesInto(size, a, for),
           BlockAnswer(size, a, for)
    PROVE  Inv'
  <1>0. TypeOK /\ Heap
    BY DEF Inv
  <1>1. /\ Heap'
        /\ next' \in Nat /\ pages' \in Nat /\ blocks' \in Seq(Block)
        /\ DOMAIN blocks' = 1 .. Len(blocks) + 1 /\ Len(blocks') = Len(blocks) + 1
        /\ Len(blocks) \in Nat /\ DOMAIN blocks = 1 .. Len(blocks)
        /\ \A i \in DOMAIN blocks : blocks'[i] = blocks[i]
        /\ blocks'[Len(blocks) + 1] = [lo |-> Start(a), hi |-> Start(a) + size, for |-> for]
    BY <1>0, AllocateHeap
  <1>2. /\ Start(a) \in Nat /\ next <= Start(a)
        /\ MemoryBytes \in Nat /\ MemoryBytes' \in Nat /\ MemoryBytes <= MemoryBytes'
        /\ Start(a) < MemoryBytes' /\ Start(a) + size <= MemoryBytes' /\ MemoryBytes' < Half
    <2>1. CanAllocate(size, a) /\ pages' = pages + Growth(Required(size, a))
      BY DEF Allocate
    <2>2. QED BY <1>0, <2>1, Lands
  <1>3. TypeOK'
    BY <1>0, <1>1 DEF TypeOK, CallTypes
  <1>4. Computing'
    <2> SUFFICES ASSUME entry' = "list", call'.pc = "compute" PROVE OutputAt(call.out, OutputCap)'
      BY DEF Computing
    <2>1. CASE call' = call
      <3>1. PICK i \in DOMAIN blocks :
               blocks[i].for = "output" /\ blocks[i].lo = call.out /\ call.out + OutputCap <= blocks[i].hi
        BY <2>1 DEF Inv, Computing, OutputAt
      <3>2. QED BY <1>1, <2>1, <3>1 DEF OutputAt
    <2>2. CASE for = "output" /\ size = OutputCap /\ call'.out = Start(a)
      BY <1>1, <1>2, <2>2 DEF OutputAt
    <2>3. QED BY <2>1, <2>2 DEF ComputesInto
  <1>5. PointersFit'
    <2>1. CASE last' = last
      <3>1. CASE last.tag = "result"
        <4>1. PICK i \in DOMAIN blocks : blocks[i].for = "output" /\ blocks[i].lo = last.ptr
                                        /\ last.ptr + last.len <= blocks[i].hi
          BY <3>1 DEF Inv, PointersFit, OutputAt
        <4>2. OutputAt(last.ptr, last.len)'
          BY <1>1, <2>1, <4>1 DEF OutputAt
        <4>3. QED BY <2>1, <3>1, <4>2 DEF Inv, PointersFit
      <3>2. QED BY <2>1, <3>1 DEF Inv, PointersFit
    <2>2. CASE last'.tag \in {"pointer", "overlap"}
      BY <2>2 DEF PointersFit
    <2>3. CASE last'.tag = "result" /\ for = "output" /\ last'.ptr = Start(a) /\ last'.len = size
      <3>1. Half \in Nat
        BY GuestAssumption
      <3>2. last'.ptr < Half /\ OutputAt(last.ptr, last.len)'
        BY <1>1, <1>2, <2>3, <3>1 DEF OutputAt
      <3>3. QED BY <2>3, <3>2 DEF PointersFit
    <2>4. QED BY <2>1, <2>2, <2>3 DEF BlockAnswer
  <1>6. NoFalseOverlap'
    <2> SUFFICES ASSUME last'.tag = "overlap", NEW i \in DOMAIN blocks',
                        blocks'[i].for = "host", blocks'[i].lo <= last'.ptr,
                        last'.ptr + last'.len <= blocks'[i].hi
                 PROVE  FALSE
      BY DEF NoFalseOverlap
    <2>1. for # "host"
      BY DEF BlockAnswer
    <2>2. i \in DOMAIN blocks /\ blocks'[i] = blocks[i]
      <3>1. CASE i = Len(blocks) + 1
        BY <1>1, <2>1, <3>1
      <3>2. QED BY <1>1, <3>1
    <2>3. CASE last' = last
      BY <2>2, <2>3 DEF Inv, NoFalseOverlap
    <2>4. CASE Start(a) < last'.ptr + last'.len
      <3>1. blocks[i].hi <= next /\ next \in Nat
        BY <1>0, <2>2 DEF Heap, TypeOK
      <3>2. blocks[i].hi \in Nat
        <4>1. blocks[i] \in Block
          <5>1. blocks \in Seq(Block) /\ i \in 1 .. Len(blocks)
            BY <1>0, <1>1, <2>2 DEF TypeOK
          <5>2. QED BY <5>1
        <4>2. QED BY <4>1 DEF Block
      <3>3. last'.ptr \in Nat /\ last'.len \in Nat
        BY DEF CallTypes
      <3>4. QED BY <1>2, <2>2, <2>4, <3>1, <3>2, <3>3
    <2>5. QED BY <2>3, <2>4 DEF BlockAnswer
  <1>7. QED BY <1>1, <1>3, <1>4, <1>5, <1>6 DEF Inv

\* The steps of the two exports.
LEMMA NextInv == Inv /\ [Next]_vars => Inv'
  <1> SUFFICES ASSUME Inv, [Next]_vars PROVE Inv'
    OBVIOUS
  <1>0. /\ TypeOK /\ Heap /\ CallTypes /\ Computing
        /\ InputCap \in Nat /\ OutputCap \in Nat /\ MinAlign \in Nat /\ Half \in Nat
        /\ HostInts \subseteq Int /\ Sizes \subseteq Nat /\ Aligns \subseteq Nat
        /\ MemoryBytes \in Nat /\ MemoryBytes < Half
    BY GuestAssumption, MemoryBelowHalf DEF Inv, TypeOK, CallTypes
  <1>1. ASSUME NEW size \in HostInts, HoloAllocRefuses(size) PROVE Inv'
    <2>1. CallTypes' /\ Computing' /\ QuietAnswer
      BY <1>0, <1>1 DEF HoloAllocRefuses, CallTypes, Computing, QuietAnswer, Trap, Idle
    <2>2. QED BY <1>1, <2>1, QuietInv DEF HoloAllocRefuses
  <1>2. ASSUME NEW size, NEW a, CannotAllocate(size, a) PROVE Inv'
    <2>1. CallTypes' /\ Computing' /\ QuietAnswer
      BY <1>0, <1>2 DEF CannotAllocate, CallTypes, Computing, QuietAnswer, Trap, Idle
    <2>2. QED BY <1>2, <2>1, QuietInv DEF CannotAllocate
  <1>3. ASSUME NEW size \in HostInts, HoloAlloc(size) PROVE Inv'
    <2>1. size \in Nat /\ Allocate(size, MinAlign, "host") /\ entry' = entry /\ call' = call /\ call = Idle
      <3>1. size \in 0 .. InputCap
        BY <1>3 DEF HoloAlloc
      <3>2. size \in Nat
        BY <1>0, <3>1
      <3>3. QED BY <1>3, <3>2 DEF HoloAlloc
    <2>2. Start(MinAlign) \in Nat /\ Start(MinAlign) < Half
      <3>1. CanAllocate(size, MinAlign) /\ pages' = pages + Growth(Required(size, MinAlign))
        BY <2>1 DEF Allocate
      <3>2. /\ Start(MinAlign) \in Nat /\ MemoryBytes' \in Nat
            /\ Start(MinAlign) < MemoryBytes' /\ MemoryBytes' < Half
        BY <1>0, <2>1, <3>1, Lands
      <3>3. QED BY <1>0, <3>2
    <2>3. last' = [tag |-> "pointer", ptr |-> Start(MinAlign), len |-> size]
      BY <1>3, <2>2 DEF HoloAlloc
    <2>4. CallTypes' /\ ComputesInto(size, MinAlign, "host") /\ BlockAnswer(size, MinAlign, "host")
      BY <1>0, <2>1, <2>2, <2>3 DEF CallTypes, ComputesInto, BlockAnswer, Idle
    <2>5. QED BY <1>0, <2>1, <2>4, AllocInv
  <1>4. ASSUME NEW ptr \in HostInts, NEW len \in HostInts, RunRefuses(ptr, len) PROVE Inv'
    <2>1. CallTypes' /\ Computing' /\ QuietAnswer
      BY <1>0, <1>4 DEF RunRefuses, CallTypes, Computing, QuietAnswer, Trap, Idle
    <2>2. QED BY <1>4, <2>1, QuietInv DEF RunRefuses
  <1>5. ASSUME NEW ptr \in HostInts, NEW len \in HostInts, Run(ptr, len) PROVE Inv'
    <2>1. ptr \in Nat /\ len \in Nat
      BY <1>0, <1>5 DEF Run, Readable
    <2>2. CallTypes' /\ Computing' /\ QuietAnswer
      BY <1>0, <1>5, <2>1 DEF Run, CallTypes, Computing, QuietAnswer
    <2>3. QED BY <1>5, <2>2, QuietInv DEF Run
  <1>6. ASSUME ListOutput PROVE Inv'
    <2>1. Allocate(OutputCap, MinAlign, "output") /\ entry' = entry
      BY <1>6 DEF ListOutput
    <2>2. CASE Overlaps(Start(MinAlign), Start(MinAlign) + OutputCap)
      <3>1. call' = Idle /\ last' = [tag |-> "overlap", ptr |-> call.ptr, len |-> call.len]
        BY <1>6, <2>2 DEF ListOutput
      <3>2. Start(MinAlign) < call.ptr + call.len
        BY <2>2 DEF Overlaps
      <3>3. CallTypes' /\ ComputesInto(OutputCap, MinAlign, "output") /\ BlockAnswer(OutputCap, MinAlign, "output")
        BY <1>0, <3>1, <3>2 DEF CallTypes, ComputesInto, BlockAnswer, Idle
      <3>4. QED BY <1>0, <2>1, <3>3, AllocInv
    <2>3. CASE ~Overlaps(Start(MinAlign), Start(MinAlign) + OutputCap)
      <3>1. call' = [call EXCEPT !.pc = "compute", !.out = Start(MinAlign)] /\ last' = last
        BY <1>6, <2>3 DEF ListOutput
      <3>2. Start(MinAlign) \in Nat
        <4>1. CanAllocate(OutputCap, MinAlign) /\ pages' = pages + Growth(Required(OutputCap, MinAlign))
          BY <2>1 DEF Allocate
        <4>2. QED BY <1>0, <4>1, Lands
      <3>3. CallTypes' /\ ComputesInto(OutputCap, MinAlign, "output") /\ BlockAnswer(OutputCap, MinAlign, "output")
        BY <1>0, <3>1, <3>2 DEF CallTypes, ComputesInto, BlockAnswer
      <3>4. QED BY <1>0, <2>1, <3>3, AllocInv
    <2>4. QED BY <2>2, <2>3
  <1>7. ASSUME NEW len \in Sizes, ListReturn(len) PROVE Inv'
    <2>1. /\ entry = "list" /\ call.pc = "compute" /\ len \in 0 .. OutputCap
          /\ call' = Idle /\ last' = [tag |-> "result", ptr |-> call.out, len |-> len]
      BY <1>7 DEF ListReturn
    <2>2. OutputAt(call.out, OutputCap) /\ len \in Nat /\ len <= OutputCap /\ call.out \in Nat
      <3>1. OutputAt(call.out, OutputCap)
        BY <1>0, <2>1 DEF Computing
      <3>2. call.out \in Nat
        BY <1>0 DEF CallTypes
      <3>3. len \in Nat /\ len <= OutputCap
        BY <1>0, <2>1
      <3>4. QED BY <3>1, <3>2, <3>3
    <2>3. PICK i \in DOMAIN blocks :
             blocks[i].for = "output" /\ blocks[i].lo = call.out /\ call.out + OutputCap <= blocks[i].hi
      BY <2>2 DEF OutputAt
    <2>4. blocks[i].hi \in Nat
      <3>1. blocks[i] \in Block
        <4>1. blocks \in Seq(Block)
          BY <1>0 DEF TypeOK
        <4>2. QED BY <2>3, <4>1
      <3>2. QED BY <3>1 DEF Block
    <2>5. blocks[i].lo < MemoryBytes /\ call.out < Half /\ call.out + len <= blocks[i].hi
      BY <1>0, <2>2, <2>3, <2>4 DEF Heap
    <2>6. OutputAt(call.out, len)
      BY <2>3, <2>5 DEF OutputAt
    <2>7. CallTypes' /\ Computing' /\ QuietAnswer
      BY <2>1, <2>2, <2>5, <2>6 DEF CallTypes, Computing, QuietAnswer, Idle
    <2>8. QED BY <1>7, <2>7, QuietInv DEF ListReturn
  <1>8. ASSUME ToVec PROVE Inv'
    <2>1. entry = "bytes" /\ entry' = entry /\ call' = [call EXCEPT !.pc = "compute"] /\ last' = last
      BY <1>8 DEF ToVec
    <2>2. CallTypes' /\ Computing' /\ QuietAnswer
      BY <1>0, <2>1 DEF CallTypes, Computing, QuietAnswer
    <2>3. CASE call.len = 0
      <3>1. UNCHANGED <<entry, next, pages, blocks>>
        BY <1>8, <2>1, <2>3 DEF ToVec
      <3>2. QED BY <2>2, <3>1, QuietInv
    <2>4. CASE call.len # 0
      <3>1. Allocate(call.len, 1, "guest") /\ call.len \in Nat
        BY <1>0, <1>8, <2>4 DEF ToVec, CallTypes
      <3>2. ComputesInto(call.len, 1, "guest") /\ BlockAnswer(call.len, 1, "guest")
        BY <2>1 DEF ComputesInto, BlockAnswer
      <3>3. QED BY <2>1, <2>2, <3>1, <3>2, AllocInv
    <2>5. QED BY <2>3, <2>4
  <1>9. ASSUME NEW size \in Sizes, NEW a \in Aligns, EntryAlloc(size, a) PROVE Inv'
    <2>1. /\ size \in Nat /\ a \in Nat /\ Allocate(size, a, "guest")
          /\ entry' = entry /\ call' = call /\ last' = last
      BY <1>0, <1>9 DEF EntryAlloc
    <2>2. CallTypes' /\ ComputesInto(size, a, "guest") /\ BlockAnswer(size, a, "guest")
      BY <1>0, <2>1 DEF CallTypes, ComputesInto, BlockAnswer
    <2>3. QED BY <2>1, <2>2, AllocInv
  <1>10. ASSUME NEW len \in Sizes, BytesReturn(len) PROVE Inv'
    <2>1. /\ len \in Nat /\ Allocate(len, MinAlign, "output")
          /\ entry = "bytes" /\ entry' = entry /\ call' = Idle
      BY <1>0, <1>10 DEF BytesReturn
    <2>2. Start(MinAlign) \in Nat
      <3>1. CanAllocate(len, MinAlign) /\ pages' = pages + Growth(Required(len, MinAlign))
        BY <2>1 DEF Allocate
      <3>2. QED BY <1>0, <2>1, <3>1, Lands
    <2>3. CASE Overlaps(Start(MinAlign), Start(MinAlign) + len)
      <3>1. last' = [tag |-> "overlap", ptr |-> call.ptr, len |-> call.len]
        BY <1>10, <2>3 DEF BytesReturn
      <3>2. Start(MinAlign) < call.ptr + call.len
        BY <2>3 DEF Overlaps
      <3>3. CallTypes' /\ ComputesInto(len, MinAlign, "output") /\ BlockAnswer(len, MinAlign, "output")
        BY <1>0, <2>1, <3>1, <3>2 DEF CallTypes, ComputesInto, BlockAnswer, Idle
      <3>4. QED BY <1>0, <2>1, <3>3, AllocInv
    <2>4. CASE ~Overlaps(Start(MinAlign), Start(MinAlign) + len)
      <3>1. last' = [tag |-> "result", ptr |-> Start(MinAlign), len |-> len]
        BY <1>10, <2>4 DEF BytesReturn
      <3>2. CallTypes' /\ ComputesInto(len, MinAlign, "output") /\ BlockAnswer(len, MinAlign, "output")
        BY <1>0, <2>1, <2>2, <3>1 DEF CallTypes, ComputesInto, BlockAnswer, Idle
      <3>3. QED BY <1>0, <2>1, <3>2, AllocInv
    <2>5. QED BY <2>3, <2>4
  <1>11. ASSUME EntryFails PROVE Inv'
    <2>1. CallTypes' /\ Computing' /\ QuietAnswer
      BY <1>11 DEF EntryFails, CallTypes, Computing, QuietAnswer, Trap, Idle
    <2>2. QED BY <1>11, <2>1, QuietInv DEF EntryFails
  <1>12. ASSUME UNCHANGED vars PROVE Inv'
    <2>1. CallTypes' /\ Computing' /\ QuietAnswer
      BY <1>0, <1>12 DEF vars, CallTypes, Computing, OutputAt, QuietAnswer
    <2>2. QED BY <1>12, <2>1, QuietInv DEF vars
  <1>13. QED
    BY <1>1, <1>2, <1>3, <1>4, <1>5, <1>6, <1>7, <1>8, <1>9, <1>10, <1>11, <1>12
       DEF Next, HoloAllocTraps, RunOutOfMemory

\* The invariant holds in every sequence of host calls.
THEOREM Invariance == Spec => []Inv
  BY InitInv, NextInv, PTL DEF Spec

\* No two blocks ever share a byte, across calls and traps.
THEOREM Disjointness == Spec => []BlocksDisjoint
  <1>1. Inv => BlocksDisjoint
    BY DEF Inv, Heap, BlocksDisjoint
  <1>2. QED BY Invariance, <1>1, PTL

\* Every block lies in linear memory, which stays within its page bound.
THEOREM InMemory == Spec => []BlocksInMemory
  <1>1. Inv => BlocksInMemory
    BY DEF Inv, Heap, BlocksInMemory
  <1>2. QED BY Invariance, <1>1, PTL

\* The i32 conversion never traps and a packed result is never negative.
THEOREM PointerRange == Spec => []PointersFit
  BY Invariance, PTL DEF Inv

\* Whatever is allocated can be reached by the host.
THEOREM Reachable == Spec => []BlocksReachable
  BY InMemory, PointerRange, PTL DEF BlocksReachable

\* An input that holo_alloc handed out never meets the output.
THEOREM OverlapIsHostError == Spec => []NoFalseOverlap
  BY Invariance, PTL DEF Inv
=============================================================================
