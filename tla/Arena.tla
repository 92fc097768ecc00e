-------------------------------- MODULE Arena --------------------------------
(***************************************************************************)
(* laserd.memory (library/laserd/memory.d): an Arena with one of its three *)
(* backends, over rpmalloc, which may refuse any block.  A call is one     *)
(* step: the code is sequential and callers serialise access to an arena.  *)
(*                                                                         *)
(* A block of rpmalloc is an identifier; its address matters only modulo   *)
(* the largest alignment and is its phase.  An allocation handed to a      *)
(* caller is a record: the rpmalloc block it lies in, its offset there,    *)
(* its size, the alignment that its address was chosen for or tested       *)
(* against (placed), the one that its caller last asked for (alignment)    *)
(* and, as a ghost, the offsets at which its caller must find the data     *)
(* they stored.  Of memory the model knows which bytes hold data; all      *)
(* others are zero.                                                        *)
(***************************************************************************)
EXTENDS Integers, Sequences, FiniteSets

CONSTANTS
  Null,               \* the null pointer
  Ids,                \* rpmalloc blocks
  Phases,             \* addresses of rpmalloc blocks modulo the largest alignment
  SIZE_MAX,           \* size_t.max
  DEFAULT_ALIGNMENT,  \* (void*).sizeof
  BUMP_REGION_SIZE,   \* 8 KiB in the source
  Alignments,         \* zero, or the powers of two that callers ask for
  Sizes,              \* sizes in bytes that callers ask for
  RegionSizes,        \* sizes of fixed regions
  Counts,             \* element counts that callers ask for
  Kinds,              \* the backends that arenas are created with
  MaxHeld             \* bound: allocations that callers hold at once

ASSUME ArenaConstants ==
  /\ SIZE_MAX \in Nat /\ BUMP_REGION_SIZE \in 0 .. SIZE_MAX
  /\ DEFAULT_ALIGNMENT \in Nat \ {0}
  /\ Alignments \subseteq Nat
  /\ Phases \subseteq Nat
  /\ Sizes \subseteq 0 .. SIZE_MAX /\ RegionSizes \subseteq 0 .. SIZE_MAX
  /\ Counts \subseteq 0 .. SIZE_MAX
  /\ Kinds \subseteq {"rpmalloc", "fixedregion", "bump"}
  /\ MaxHeld \in Nat
  /\ Null \notin Ids

VARIABLES
  heap,     \* [Ids -> Int]: 1 for a block in use, 0 for a free one
  arena,    \* the arena, or Null
  blocks,   \* ghost: the allocations that callers hold
  written,  \* the bytes <<block, offset>> of memory that hold data
  failed    \* ghost: the last call was a request to which the backend returned null

vars == <<heap, arena, blocks, written, failed>>

Init ==
  /\ heap = [id \in Ids |-> 0]
  /\ arena = Null
  /\ blocks = {}
  /\ written = {}
  /\ failed = FALSE

-----------------------------------------------------------------------------
(* rpmalloc, as an arena uses it.  It may refuse any request.              *)

Unused(h) == {id \in Ids : h[id] = 0}
Fresh(h) == CHOOSE id \in Unused(h) : TRUE
Taken(h) == [h EXCEPT ![Fresh(h)] = 1]
rpfree(h, id) == [h EXCEPT ![id] = @ - 1]

\* The next request may be granted.
Grants(h) == Unused(h) # {}

-----------------------------------------------------------------------------
(* Fixed regions: a block of memory and the offset up to which it is used. *)

\* What may come of a new region: the heap after its two allocations, and the
\* region unless one of them is refused.  The node is freed again when the memory
\* is refused.
fixed_region_arena_create(h, size) ==
  LET node == Fresh(h)
      half == [heap |-> rpfree(Taken(h), node), region |-> Null]
      made(phase) ==
        [heap |-> Taken(Taken(h)),
         region |-> [node |-> node, memory |-> Fresh(Taken(h)),
                     phase |-> phase, size |-> size, offset |-> 0]]
  IN  {[heap |-> h, region |-> Null]}
        \cup (IF Grants(h) THEN {half} ELSE {})
        \cup (IF Grants(h) /\ Grants(Taken(h)) THEN {made(phase) : phase \in Phases} ELSE {})

fixed_region_arena_destroy(h, region) ==
  rpfree(rpfree(h, region.memory), region.node)

Effective(alignment) == IF alignment = 0 THEN DEFAULT_ALIGNMENT ELSE alignment

\* Mutant: pads the offset and not the address.
PadsOffset(region, alignment) == region.offset + ((0 - region.offset) % alignment)

\* Where an allocation of this alignment starts: after the padding.
Start(region, alignment) ==
  region.offset + ((0 - (region.phase + region.offset)) % alignment)

\* Mutant: forgets the padding in the test for room.
IgnoresPadding(region, alignment, size) == size # 0 /\ region.offset + size <= region.size

Fits(region, alignment, size) ==
  /\ size # 0
  /\ Start(region, alignment) + size <= region.size

\* Mutant: forgets the padding in the new offset.
ForgetsPadding(region, alignment, size) == [region EXCEPT !.offset = @ + size]

\* The region and the allocation after a request that fits.
Bumped(region, alignment, size) ==
  [region EXCEPT !.offset = Start(region, alignment) + size]

Placed(region, alignment, size) ==
  [memory |-> region.memory, start |-> Start(region, alignment), size |-> size,
   address |-> region.phase + Start(region, alignment), placed |-> alignment,
   alignment |-> alignment, data |-> {}]

-----------------------------------------------------------------------------
(* Requests: the set of their outcomes.  An outcome is the state after the  *)
(* request, its result, and whether that is null because rpmalloc refused. *)

NoBlock(a, h, refused) == [arena |-> a, heap |-> h, block |-> Null, refused |-> refused]

\* From region i of the arena.
FromRegion(a, h, i, alignment, size) ==
  [arena |-> [a EXCEPT !.regions[i] = Bumped(@, alignment, size)], heap |-> h,
   block |-> Placed(a.regions[i], alignment, size), refused |-> FALSE]

fixed_region_aligned_alloc(a, h, alignment, size) ==
  IF Fits(a.regions[1], alignment, size) THEN {FromRegion(a, h, 1, alignment, size)}
  ELSE {NoBlock(a, h, FALSE)}

\* The arena with one more region.
WithRegion(a, region, make_current) ==
  [a EXCEPT !.regions = Append(@, region),
            !.current = IF make_current THEN Len(a.regions) + 1 ELSE @]

\* Mutant: drops a region in which the request does not fit without freeing it.
LeaksRegion(a, h, region_size, alignment, size, make_current) ==
  {IF made.region = Null THEN NoBlock(a, made.heap, TRUE)
   ELSE IF ~ Fits(made.region, alignment, size) THEN NoBlock(a, made.heap, FALSE)
   ELSE FromRegion(WithRegion(a, made.region, make_current), made.heap,
                   Len(a.regions) + 1, alignment, size) :
     made \in fixed_region_arena_create(h, region_size)}

bump_create_region_and_allocate(a, h, region_size, alignment, size, make_current) ==
  {IF made.region = Null THEN NoBlock(a, made.heap, TRUE)
   ELSE IF ~ Fits(made.region, alignment, size)
   THEN NoBlock(a, fixed_region_arena_destroy(made.heap, made.region), FALSE)
   ELSE FromRegion(WithRegion(a, made.region, make_current), made.heap,
                   Len(a.regions) + 1, alignment, size) :
     made \in fixed_region_arena_create(h, region_size)}

\* Mutant: a dedicated region without room for padding.
ExactRegion(a, h, alignment, size) ==
  bump_create_region_and_allocate(a, h, size, alignment, size, FALSE)

\* A region of its own, with room for any padding.
Dedicated(a, h, alignment, size) ==
  IF alignment - 1 > SIZE_MAX - size THEN {NoBlock(a, h, FALSE)}
  ELSE bump_create_region_and_allocate(a, h, size + alignment - 1, alignment, size, FALSE)

bump_aligned_alloc(a, h, alignment, size) ==
  LET ordinary == bump_create_region_and_allocate(a, h, BUMP_REGION_SIZE,
                    alignment, size, TRUE)
  IN  IF size = 0 THEN {NoBlock(a, h, FALSE)}
      ELSE IF a.current # 0 /\ Fits(a.regions[a.current], alignment, size)
      THEN {FromRegion(a, h, a.current, alignment, size)}
      ELSE IF size > BUMP_REGION_SIZE THEN Dedicated(a, h, alignment, size)
      ELSE UNION {IF o.block # Null THEN {o} ELSE Dedicated(a, o.heap, alignment, size) :
                    o \in ordinary}

\* rpzalloc, or rpaligned_zalloc, which places a block at the alignment.
rpmalloc_aligned_alloc(a, h, alignment, size) ==
  LET raised == IF alignment < DEFAULT_ALIGNMENT THEN DEFAULT_ALIGNMENT ELSE alignment
      block(address) == [memory |-> Fresh(h), start |-> 0, size |-> size,
                         address |-> address, placed |-> alignment,
                         alignment |-> alignment, data |-> {}]
  IN  {NoBlock(a, h, TRUE)}
        \cup {[arena |-> a, heap |-> Taken(h), block |-> block(address), refused |-> FALSE] :
                address \in {p \in Phases : Grants(h) /\ p % raised = 0}}

Outcomes(alignment, size) ==
  CASE arena.kind = "rpmalloc" -> rpmalloc_aligned_alloc(arena, heap, alignment, size)
    [] arena.kind = "fixedregion" -> fixed_region_aligned_alloc(arena, heap, alignment, size)
    [] arena.kind = "bump" -> bump_aligned_alloc(arena, heap, alignment, size)

-----------------------------------------------------------------------------
(* What a caller sees of a request.                                        *)

Bytes(block) == {<<block.memory, block.start + i>> : i \in 0 .. block.size - 1}

\* Offsets in a block at which memory holds data.
Data(block) == {i \in 0 .. block.size - 1 : <<block.memory, block.start + i>> \in written}

Returns(outcome) ==
  /\ arena' = outcome.arena
  /\ heap' = outcome.heap
  /\ failed' = (outcome.block = Null)

\* A call that never reaches the backend.
ReturnsEarly == failed' = FALSE /\ UNCHANGED <<heap, arena, blocks, written>>

Allocates(alignment, size) ==
  /\ Cardinality(blocks) < MaxHeld
  /\ \E outcome \in Outcomes(alignment, size) :
       /\ Returns(outcome)
       /\ blocks' = blocks \cup ({outcome.block} \ {Null})
       /\ UNCHANGED written

-----------------------------------------------------------------------------
(* Creating and destroying.                                                *)

Made(kind, h, self, ctx, regions) ==
  /\ heap' = h
  /\ arena' = [kind |-> kind, self |-> self, ctx |-> ctx, regions |-> regions, current |-> 0]

Arena_create_rpmalloc ==
  \/ UNCHANGED <<heap, arena>>
  \/ Grants(heap) /\ Made("rpmalloc", Taken(heap), Fresh(heap), Null, << >>)

\* Mutant: keeps the header when the region is refused.
LeaksHeader(size) ==
  \/ UNCHANGED <<heap, arena>>
  \/ /\ Grants(heap)
     /\ \E made \in fixed_region_arena_create(Taken(heap), size) :
          IF made.region = Null THEN heap' = made.heap /\ UNCHANGED arena
          ELSE Made("fixedregion", made.heap, Fresh(heap), made.region.node, <<made.region>>)

Arena_create_fixedregion(size) ==
  \/ UNCHANGED <<heap, arena>>
  \/ /\ Grants(heap)
     /\ \E made \in fixed_region_arena_create(Taken(heap), size) :
          IF made.region = Null
          THEN heap' = rpfree(made.heap, Fresh(heap)) /\ UNCHANGED arena
          ELSE Made("fixedregion", made.heap, Fresh(heap), made.region.node, <<made.region>>)

\* The header is freed again when the context is refused.
Arena_create_bump ==
  \/ UNCHANGED <<heap, arena>>
  \/ /\ Grants(heap)
     /\ \/ heap' = rpfree(Taken(heap), Fresh(heap)) /\ UNCHANGED arena
        \/ /\ Grants(Taken(heap))
           /\ Made("bump", Taken(Taken(heap)), Fresh(heap), Fresh(Taken(heap)), << >>)

Create ==
  /\ arena = Null
  /\ \/ "rpmalloc" \in Kinds /\ Arena_create_rpmalloc
     \/ "fixedregion" \in Kinds /\ \E size \in RegionSizes : Arena_create_fixedregion(size)
     \/ "bump" \in Kinds /\ Arena_create_bump
  /\ failed' = FALSE
  /\ UNCHANGED <<blocks, written>>

\* bump_destroy walks the list of regions; fixed regions have one, whose node
\* is the context.  A caller frees the blocks of an rpmalloc arena first.
Destroyed(a) ==
  LET freed[i \in 0 .. Len(a.regions)] ==
        IF i = 0 THEN heap ELSE fixed_region_arena_destroy(freed[i - 1], a.regions[i])
      emptied == freed[Len(a.regions)]
  IN  rpfree(IF a.kind = "bump" THEN rpfree(emptied, a.ctx) ELSE emptied, a.self)

Arena_destroy ==
  /\ arena.kind = "rpmalloc" => blocks = {}
  /\ heap' = Destroyed(arena)
  /\ arena' = Null
  /\ blocks' = {}
  /\ written' = {}
  /\ failed' = FALSE

-----------------------------------------------------------------------------
(* The methods of an arena.  alloc, calloc and realloc are the aligned     *)
(* forms with alignment zero.                                              *)

aligned_alloc(alignment, size) == Allocates(Effective(alignment), size)

\* The region backends refuse a product of count and size that overflows.
\* rpcalloc and rpaligned_calloc multiply without a test, as rpmalloc is built
\* (ENABLE_VALIDATE_ARGS 0), and hand out a block of the wrapped size.
aligned_calloc(alignment, count, size) ==
  /\ alignment # 0 => size % alignment = 0
  /\ IF arena.kind = "rpmalloc"
     THEN Allocates(Effective(alignment), (count * size) % (SIZE_MAX + 1))
     ELSE IF count * size > SIZE_MAX THEN ReturnsEarly
     ELSE Allocates(Effective(alignment), count * size)

\* Alignments that types have.
TypeAlignments == (Alignments \ {0}) \cup {DEFAULT_ALIGNMENT}

\* The elements are of a type with this alignment and size.
allocArray(alignment, count, size) ==
  /\ size # 0 /\ size % alignment = 0
  /\ IF count = 0 \/ count > SIZE_MAX \div size THEN ReturnsEarly
     ELSE Allocates(alignment, count * size)

\* What a call of realloc starts from: a caller without a block passes null and
\* the old size zero.
OldSize(old) == IF old = Null THEN 0 ELSE old.size
OldBytes(old) == IF old = Null THEN {} ELSE {b \in written : b[1] = old.memory}
Freed(h, old) == IF old = Null THEN h ELSE rpfree(h, old.memory)

\* The caller goes on with new instead of old, and expects its bytes there.
Replaces(old, new) ==
  LET expected == IF old = Null THEN {} ELSE {i \in old.data : i < new.size}
  IN  blocks' = (blocks \ {old}) \cup {[new EXCEPT !.data = expected]}

\* The region backends keep a block that is large enough where it is and do not
\* look at the alignment asked for; otherwise they copy it.
RegionRealloc(old, alignment, size) ==
  \/ /\ size <= old.size
     /\ Replaces(old, [old EXCEPT !.size = size, !.alignment = alignment])
     /\ failed' = FALSE
     /\ UNCHANGED <<heap, arena, written>>
  \/ /\ size > old.size
     /\ \E outcome \in Outcomes(alignment, size) :
          LET new == outcome.block
          IN  /\ Returns(outcome)
              /\ IF new = Null THEN UNCHANGED <<blocks, written>>
                 ELSE /\ Replaces(old, new)
                      /\ written' = written \cup
                           {<<new.memory, new.start + i>> : i \in Data(old)}

\* Mutant: leaves what a shrunk block held behind its end.
KeepsTail(bytes, block, oldSize) == bytes

\* Clears the bytes of the block that the caller did not have before.
zero_reallocated_tail(bytes, block, oldSize) ==
  bytes \ {<<block.memory, i>> : i \in oldSize .. block.size - 1}

\* The block is large enough and aligned, and stays, with whatever lies behind
\* the bytes in use.  A request without an alignment of its own takes a block
\* that was moved up for its alignment back to where its memory begins.
RpmallocKeeps(old, alignment, size) ==
  LET origins == IF alignment = DEFAULT_ALIGNMENT /\ old.placed # alignment
                 THEN {p \in Phases : p % alignment = 0} ELSE {old.address}
  IN  /\ old.address % alignment = 0
      /\ \E address \in origins :
           LET kept == [old EXCEPT !.size = size, !.address = address,
                                   !.placed = alignment, !.alignment = alignment]
           IN  /\ Replaces(old, kept)
               /\ written' = zero_reallocated_tail(written, kept, old.size)
      /\ failed' = FALSE
      /\ UNCHANGED <<heap, arena>>

\* A block is taken without clearing it, the bytes in use are copied and the old
\* block, if there was one, is freed; a refusal leaves the old block alone.
RpmallocMoves(old, alignment, size) ==
  \E outcome \in Outcomes(alignment, size) :
    LET new == outcome.block
        copied == {<<new.memory, b[2]>> : b \in {c \in OldBytes(old) : c[2] < size}}
        junk == {<<new.memory, i>> : i \in OldSize(old) .. size - 1}
    IN  IF new = Null
        THEN Returns(outcome) /\ UNCHANGED <<blocks, written>>
        ELSE /\ Returns([outcome EXCEPT !.heap = Freed(@, old)])
             /\ Replaces(old, new)
             /\ written' = (written \ OldBytes(old))
                  \cup zero_reallocated_tail(copied \cup junk, new, OldSize(old))

aligned_realloc(old, alignment, size) ==
  /\ old = Null => Cardinality(blocks) < MaxHeld
  /\ IF arena.kind = "rpmalloc"
     THEN \/ old # Null /\ RpmallocKeeps(old, Effective(alignment), size)
          \/ RpmallocMoves(old, Effective(alignment), size)
     ELSE IF old = Null THEN Allocates(Effective(alignment), size)
     ELSE RegionRealloc(old, Effective(alignment), size)

\* The array holds elements of this size and alignment; it never shrinks.
expandArray(old, alignment, count, size) ==
  LET length == IF old = Null THEN 0 ELSE old.size \div size
  IN  /\ size # 0 /\ size % alignment = 0
      /\ old # Null => old.size % size = 0 /\ old.address % alignment = 0
      /\ IF count <= length
         THEN ReturnsEarly
         ELSE IF count > SIZE_MAX \div size THEN ReturnsEarly
         ELSE aligned_realloc(old, alignment, count * size)

\* The region backends reclaim nothing.
free(block) ==
  /\ blocks' = blocks \ {block}
  /\ IF arena.kind = "rpmalloc"
     THEN /\ heap' = rpfree(heap, block.memory)
          /\ written' = {b \in written : b[1] # block.memory}
     ELSE UNCHANGED <<heap, written>>
  /\ failed' = FALSE
  /\ UNCHANGED arena

\* A caller fills a block.
Write(block) ==
  /\ written' = written \cup Bytes(block)
  /\ blocks' = (blocks \ {block}) \cup {[block EXCEPT !.data = 0 .. block.size - 1]}
  /\ failed' = FALSE
  /\ UNCHANGED <<heap, arena>>

Next ==
  \/ Create
  \/ /\ arena # Null
     /\ \/ Arena_destroy
        \/ \E alignment \in Alignments, size \in Sizes :
             \/ aligned_alloc(alignment, size)
             \/ \E count \in Counts : aligned_calloc(alignment, count, size)
             \/ \E old \in blocks \cup {Null} : aligned_realloc(old, alignment, size)
        \/ \E alignment \in TypeAlignments, count \in Counts, size \in Sizes :
             \/ allocArray(alignment, count, size)
             \/ \E old \in blocks \cup {Null} : expandArray(old, alignment, count, size)
        \/ \E block \in blocks : free(block) \/ Write(block)

Spec == Init /\ [][Next]_vars

-----------------------------------------------------------------------------
(* Properties.                                                             *)

\* docs/memory.md: "Allocations are zero-filled.  Successful growth preserves
\* existing bytes and zeroes newly exposed bytes", after a shrink too, and no
\* later call disturbs the bytes of a block that a caller holds.
ContentsKept == \A b \in blocks : Data(b) = b.data

\* rpmalloc blocks that the arena, its regions and its callers own.
Owned ==
  IF arena = Null THEN {}
  ELSE ({arena.self, arena.ctx} \ {Null})
         \cup UNION {{r.node, r.memory} : r \in {arena.regions[i] : i \in DOMAIN arena.regions}}
         \cup (IF arena.kind = "rpmalloc" THEN {b.memory : b \in blocks} ELSE {})

\* Nothing leaks and nothing is freed twice: after every call, failed ones
\* included, the blocks in use are the ones that something owns, so that
\* Arena_destroy gives all of them back.
OwnsHeap == heap = [id \in Ids |-> IF id \in Owned THEN 1 ELSE 0]

\* Every allocation starts at the alignment of the request that placed it and at
\* the one that its caller last asked for, with one exception that the code makes: a
\* region backend that keeps a block on realloc (memory.d:382, 520) returns it even
\* when it was placed for a smaller alignment than the one asked for.  The
\* allocations of the region backends lie inside the used part of a region that the
\* arena owns; and no two that callers hold share a byte, whatever is freed, shrunk,
\* grown or moved.
BlocksPlaced ==
  /\ \A b \in blocks :
       /\ b.address % b.placed = 0
       /\ \/ b.address % b.alignment = 0
          \/ arena.kind # "rpmalloc" /\ b.placed < b.alignment
  /\ \A b, c \in blocks : b # c => Bytes(b) \cap Bytes(c) = {}
  /\ arena # Null /\ arena.kind # "rpmalloc" =>
       \A b \in blocks : \E i \in DOMAIN arena.regions :
         /\ b.memory = arena.regions[i].memory
         /\ b.start + b.size <= arena.regions[i].offset
         /\ arena.regions[i].offset <= arena.regions[i].size

\* A bump arena can fail only when rpmalloc refuses or the request with its
\* padding exceeds size_t, whatever is requested in whatever state of its regions: a
\* dedicated region always has room for the padding.
BumpFailsOnlyWhenRefused ==
  arena # Null /\ arena.kind = "bump" =>
    \A alignment \in TypeAlignments, size \in 1 .. SIZE_MAX :
      \A outcome \in Outcomes(alignment, size) :
        outcome.block = Null => outcome.refused \/ size + alignment - 1 > SIZE_MAX

\* docs/memory.md: "failure leaves the original allocation valid".
FailureChangesNothing ==
  [][failed' => UNCHANGED <<heap, arena, blocks, written>>]_vars
=============================================================================
