---------------------------- MODULE CoreWasmGuest ----------------------------
(***************************************************************************)
(* The runtime that generate_core_wasm_package puts around a generated     *)
(* entry: one instance of the guest, its linear memory, the bump allocator *)
(* NEXT, and the two exports the host may call in any order with any       *)
(* arguments, `holo_alloc` and the run export.  A wasm trap ends the call  *)
(* it happens in and leaves memory and NEXT as they are: the host may call *)
(* the same instance again.  The guest has one thread, so `allocate` is    *)
(* one step (a weak compare-exchange that fails spuriously recomputes the  *)
(* same start).                                                            *)
(*                                                                         *)
(* Numbers keep their width: Word is 2^32 for u32 and Half is 2^31, where  *)
(* i32 ends; Page is 65536 and MinAlign 8.  The run scales them down.      *)
(***************************************************************************)
EXTENDS Integers, Sequences

CONSTANTS
    Word, Half, Page, MinAlign,
    HeapBase,       \* the linker's __heap_base
    InitPages,      \* the memory the module is instantiated with
    MaxPages, InputCap, OutputCap,    \* CoreWasmSpec
    HostInts,       \* the i32 arguments the host passes
    Sizes, Aligns,  \* the layouts the generated entry asks for
    MaxBlocks       \* bound on the blocks handed out (zero-sized ones are free)

\* What generate_core_wasm_package accepts: maximum_pages <= 32767, so that all
\* of memory lies below 2^31.
ValidBounds ==
    /\ InputCap # 0
    /\ OutputCap # 0
    /\ MaxPages # 0
    /\ MaxPages * Page < Half

ASSUME GuestAssumption ==
    /\ Page \in Nat \ {0} /\ MinAlign \in Nat \ {0}
    /\ Word \in Nat /\ Half \in Nat /\ Half <= Word
    /\ HeapBase \in Nat /\ InitPages \in Nat
    /\ MaxPages \in Nat /\ InputCap \in Nat /\ OutputCap \in Nat /\ MaxBlocks \in Nat
    /\ HostInts \subseteq Int /\ Sizes \subseteq Nat /\ Aligns \subseteq Nat
    /\ InitPages <= MaxPages
    /\ ValidBounds

VARIABLES
    entry,   \* which of the two entry signatures was generated
    next,    \* NEXT
    pages,   \* memory_size
    blocks,  \* every block handed out, oldest first: [lo, hi, for]
    call,    \* the run export in progress: its arguments and output_ptr
    last     \* how the last call ended: [tag, ptr, len]

vars == <<entry, next, pages, blocks, call, last>>

Idle == [pc |-> "idle", ptr |-> 0, len |-> 0, out |-> 0]

Trap(cause) == [tag |-> cause, ptr |-> 0, len |-> 0]

Init ==
    /\ entry \in {"list", "bytes"}
    /\ next = 0
    /\ pages = InitPages
    /\ blocks = <<>>
    /\ call = Idle
    /\ last = Trap("none")

----------------------------------------------------------------------------
(* The allocator.                                                          *)

MaxOf(a, b) == IF a < b THEN b ELSE a

MemoryBytes == pages * Page

\* align_to: the least multiple of the alignment that is not below v.
AlignTo(v, a) == ((v + a - 1) \div a) * a

\* Defect: the block starts at NEXT rounded down.
StartRoundedDown(a) ==
    (MaxOf(next, AlignTo(HeapBase, MinAlign)) \div MaxOf(a, MinAlign)) * MaxOf(a, MinAlign)

\* Where `allocate` puts a block of this alignment.
Start(a) == AlignTo(MaxOf(next, AlignTo(HeapBase, MinAlign)), MaxOf(a, MinAlign))

\* Defect: a zero-sized block asks for no memory.
RequiredExactly(size, a) == Start(a) + size

\* A zero-sized block still needs an address inside memory.
Required(size, a) == IF size = 0 THEN Start(a) + 1 ELSE Start(a) + size

\* ensure_memory: the pages to add so that `required` bytes exist.
Growth(required) ==
    IF required <= MemoryBytes THEN 0
    ELSE (required - MemoryBytes + Page - 1) \div Page

\* Every checked addition fits a u32 and the page bound allows the growth.
CanAllocate(size, a) ==
    /\ MaxOf(next, AlignTo(HeapBase, MinAlign)) + MaxOf(a, MinAlign) - 1 < Word
    /\ Required(size, a) < Word
    /\ pages + Growth(Required(size, a)) <= MaxPages

\* `allocate` succeeds.
Allocate(size, a, for) ==
    /\ CanAllocate(size, a)
    /\ Len(blocks) < MaxBlocks
    /\ next' = Start(a) + size
    /\ pages' = pages + Growth(Required(size, a))
    /\ blocks' = Append(blocks, [lo |-> Start(a), hi |-> Start(a) + size, for |-> for])

\* `allocate` traps: over a bound, or the engine refuses to grow the memory.
CannotAllocate(size, a) ==
    /\ ~CanAllocate(size, a) \/ Growth(Required(size, a)) > 0
    /\ call' = Idle
    /\ last' = Trap("memory")
    /\ UNCHANGED <<entry, next, pages, blocks>>

----------------------------------------------------------------------------
(* holo_alloc                                                              *)

HoloAllocRefuses(size) ==
    /\ call = Idle
    /\ size < 0 \/ size > InputCap
    /\ last' = Trap("argument")
    /\ UNCHANGED <<entry, next, pages, blocks, call>>

HoloAllocTraps(size) ==
    /\ call = Idle
    /\ size \in 0 .. InputCap
    /\ CannotAllocate(size, MinAlign)

\* The pointer goes back to the host as an i32.
HoloAlloc(size) ==
    /\ call = Idle
    /\ size \in 0 .. InputCap
    /\ Allocate(size, MinAlign, "host")
    /\ last' = IF Start(MinAlign) < Half
               THEN [tag |-> "pointer", ptr |-> Start(MinAlign), len |-> size]
               ELSE Trap("pointer too large")
    /\ UNCHANGED <<entry, call>>

----------------------------------------------------------------------------
(* The run export.                                                         *)

\* The host's arguments name bytes of linear memory.
Readable(ptr, len) ==
    /\ ptr >= 0 /\ len >= 0
    /\ len <= InputCap
    /\ ptr + len < Word
    /\ ptr + len <= MemoryBytes

RunRefuses(ptr, len) ==
    /\ call = Idle
    /\ ~Readable(ptr, len)
    /\ last' = Trap("argument")
    /\ UNCHANGED <<entry, next, pages, blocks, call>>

Run(ptr, len) ==
    /\ call = Idle
    /\ Readable(ptr, len)
    /\ Len(blocks) < MaxBlocks
    /\ call' = [pc |-> "called", ptr |-> ptr, len |-> len, out |-> 0]
    /\ UNCHANGED <<entry, next, pages, blocks, last>>

\* Defect: the comparison of the two ranges is not strict.
OverlapsOrTouches(lo, hi) == call.ptr <= hi /\ lo <= call.ptr + call.len

\* The output range meets the input range.
Overlaps(lo, hi) == call.ptr < hi /\ lo < call.ptr + call.len

\* (List UInt8) -> List UInt8: the output buffer is allocated first ...
ListOutput ==
    /\ entry = "list" /\ call.pc = "called"
    /\ Allocate(OutputCap, MinAlign, "output")
    /\ IF Overlaps(Start(MinAlign), Start(MinAlign) + OutputCap)
       THEN call' = Idle /\ last' = [tag |-> "overlap", ptr |-> call.ptr, len |-> call.len]
       ELSE call' = [call EXCEPT !.pc = "compute", !.out = Start(MinAlign)] /\ UNCHANGED last
    /\ UNCHANGED entry

\* ... and the entry fills a prefix of it.
ListReturn(len) ==
    /\ entry = "list" /\ call.pc = "compute"
    /\ len \in 0 .. OutputCap
    /\ call' = Idle
    /\ last' = [tag |-> "result", ptr |-> call.out, len |-> len]
    /\ UNCHANGED <<entry, next, pages, blocks>>

\* Bytes -> Bytes: the input is copied (an empty Vec allocates nothing) ...
ToVec ==
    /\ entry = "bytes" /\ call.pc = "called"
    /\ IF call.len = 0 THEN UNCHANGED <<next, pages, blocks>>
                       ELSE Allocate(call.len, 1, "guest")
    /\ call' = [call EXCEPT !.pc = "compute"]
    /\ UNCHANGED <<entry, last>>

\* ... an entry of either kind allocates as it likes (dealloc gives nothing back) ...
EntryAlloc(size, a) ==
    /\ call.pc = "compute"
    /\ Allocate(size, a, "guest")
    /\ UNCHANGED <<entry, call, last>>

\* ... and the result of this one is copied into a block of exactly its length.
BytesReturn(len) ==
    /\ entry = "bytes" /\ call.pc = "compute"
    /\ len <= OutputCap
    /\ Allocate(len, MinAlign, "output")
    /\ call' = Idle
    /\ last' = IF Overlaps(Start(MinAlign), Start(MinAlign) + len)
               THEN [tag |-> "overlap", ptr |-> call.ptr, len |-> call.len]
               ELSE [tag |-> "result", ptr |-> Start(MinAlign), len |-> len]
    /\ UNCHANGED entry

\* An allocation of the call in progress traps.
RunOutOfMemory ==
    /\ \/ entry = "list" /\ call.pc = "called" /\ CannotAllocate(OutputCap, MinAlign)
       \/ entry = "bytes" /\ call.pc = "called" /\ call.len # 0 /\ CannotAllocate(call.len, 1)
       \/ /\ call.pc = "compute"
          /\ \E size \in Sizes, a \in Aligns : CannotAllocate(size, a)

\* The entry reports an error or panics, or its result is over OUTPUT_CAP.
EntryFails ==
    /\ call.pc = "compute"
    /\ call' = Idle
    /\ last' = Trap("entry")
    /\ UNCHANGED <<entry, next, pages, blocks>>

Next ==
    \/ \E size \in HostInts :
         HoloAllocRefuses(size) \/ HoloAllocTraps(size) \/ HoloAlloc(size)
    \/ \E ptr, len \in HostInts : RunRefuses(ptr, len) \/ Run(ptr, len)
    \/ ListOutput
    \/ \E len \in Sizes : ListReturn(len) \/ BytesReturn(len)
    \/ ToVec
    \/ \E size \in Sizes, a \in Aligns : EntryAlloc(size, a)
    \/ RunOutOfMemory
    \/ EntryFails

Spec == Init /\ [][Next]_vars

----------------------------------------------------------------------------
(* Properties.                                                             *)

Block == [lo : Nat, hi : Nat, for : {"host", "guest", "output"}]

\* Every variable holds a value of its kind.
TypeOK ==
    /\ entry \in {"list", "bytes"}
    /\ next \in Nat
    /\ pages \in Nat
    /\ blocks \in Seq(Block)
    /\ call \in [pc : {"idle", "called", "compute"}, ptr : Nat, len : Nat, out : Nat]
    /\ last \in [tag : {"none", "memory", "argument", "pointer", "pointer too large",
                        "overlap", "result", "entry"}, ptr : Nat, len : Nat]

\* No two blocks share a byte, whichever call they were handed out in and
\* whatever trapped in between: the host's inputs, the entry's heap and the
\* results already returned never overwrite one another.
BlocksDisjoint ==
    \A i, j \in DOMAIN blocks :
        i < j => \/ blocks[i].hi <= blocks[j].lo
                 \/ blocks[j].hi <= blocks[i].lo

\* Every block, and the address of every empty one, exists in linear memory,
\* which stays within maximum_pages.
BlocksInMemory ==
    /\ pages <= MaxPages
    /\ \A i \in DOMAIN blocks :
         blocks[i].lo < MemoryBytes /\ blocks[i].hi <= MemoryBytes

\* A block was allocated for output at this address, of at least this length.
OutputAt(ptr, len) ==
    \E i \in DOMAIN blocks :
        blocks[i].for = "output" /\ blocks[i].lo = ptr /\ ptr + len <= blocks[i].hi

\* The i32 conversion of the pointer in holo_alloc cannot trap (core_wasm.rs:243),
\* every returned pointer keeps the packed i64 non-negative, and what it names lies
\* in a block that was allocated for output.
PointersFit ==
    /\ last.tag # "pointer too large"
    /\ last.tag = "result" => last.ptr < Half /\ OutputAt(last.ptr, last.len)

\* Whatever is allocated can be reached by the host: it lies in memory that was
\* grown for it, within the pages of the specification, and its address and
\* length survive their conversions.  A result is in its own block, whatever the
\* entry allocated between the output and the return.
BlocksReachable == BlocksInMemory /\ PointersFit

\* A call is never refused for an overlap when its input lies in a block that
\* holo_alloc handed out: only a pointer the host made up can meet the output.
NoFalseOverlap ==
    last.tag = "overlap" =>
        ~\E i \in DOMAIN blocks :
            /\ blocks[i].for = "host"
            /\ blocks[i].lo <= last.ptr /\ last.ptr + last.len <= blocks[i].hi
=============================================================================
