------------------------------ MODULE Rpmalloc ------------------------------
(***************************************************************************)
(* The block allocator of rpmalloc (rpmalloc/rpmalloc.c) for blocks up to  *)
(* the large limit: every thread owns a heap, a heap owns pages, a page is  *)
(* cut into the blocks of one size class. The owner allocates and frees     *)
(* without synchronisation; any other thread hands a block back through one *)
(* of two lock-free lists. A thread that ends leaves its heap, with all     *)
(* that it holds, to a later thread.                                        *)
(*                                                                          *)
(* One step makes at most one access that other threads can observe: a      *)
(* deferred list, the full flag, or a section of the global heap lock. The  *)
(* memory is sequentially consistent. All pages have one page type.         *)
(*                                                                          *)
(* Assumed: no thread gets the id of an earlier one. get_thread_id is an    *)
(* address of thread-local storage, which a later thread may have again,    *)
(* and a released heap keeps the id of its last owner; the code does not    *)
(* rule out what follows from that, and this module does not show it.       *)
(***************************************************************************)
EXTENDS Integers, FiniteSets, SequencesExt

CONSTANTS
  Workers,      \* the thread ids; a thread is started once and may end
  Heaps,        \* the heap structures that can be carved from mappings
  HeapsPerMap,  \* how many heaps one mapping is carved into
  Pages,        \* 0 .. n - 1: the pages of all the spans that can be mapped
  PagesPerSpan,
  Classes,      \* the size classes
  BlockCount,   \* the blocks of a page
  LinkedBlocks, \* for every class, the blocks of one memory page
  FreeOverflow, \* global_page_free_overflow of the page type
  FreeRetain,   \* global_page_free_retain of the page type
  CommitFails,  \* whether the commit of a page may be refused
  NoHeap        \* the heap of a thread that has none

(* No size class has a single block per page (global_size_class).           *)
ASSUME BlockCountAssumption == BlockCount \in Nat /\ BlockCount >= 2

VARIABLES
  page,      \* the page headers
  heaps,     \* the heap structures
  unmapped,  \* the pages of the spans that are not mapped yet
  queue,     \* global_heap_queue
  pristine,  \* global_heap_pristine
  uncarved,  \* the heaps not carved from any mapping yet
  creating,  \* global_heap_creating
  worker,    \* what every thread is doing
  lent,      \* the blocks that clients hold
  zeroed,    \* those of them that were asked for as zeroed memory
  dirty      \* the blocks whose memory is not all zero

pageVars == <<page, heaps, unmapped>>
poolVars == <<queue, pristine, uncarved, creating>>
dataVars == <<lent, zeroed, dirty>>
rpVars == <<pageVars, poolVars, dataVars, worker>>

Block == Pages \X (0 .. BlockCount - 1)
NoBlk == <<>>

Idle == [at |-> "idle", heap |-> NoHeap, class |-> 0, zero |-> FALSE,
         page |-> 0, block |-> NoBlk, list |-> <<>>, seen |-> <<>>, full |-> FALSE,
         known |-> FALSE]

(* The program starts some of the threads.                                  *)
RpInit ==
  /\ page = [p \in Pages |->
       [class |-> 0, used |-> 0, initialized |-> 0, local_free |-> <<>>, thread_free |-> <<>>,
        is_full |-> FALSE, is_free |-> FALSE, is_zero |-> FALSE, is_decommitted |-> FALSE,
        heap |-> NoHeap]]
  /\ heaps = [h \in Heaps |->
       [owner |-> NoHeap, local_free |-> [c \in Classes |-> <<>>],
        page_available |-> [c \in Classes |-> <<>>], page_free |-> <<>>,
        page_free_commit_count |-> 0, thread_free |-> <<>>, span_partial |-> <<>>]]
  /\ unmapped = [i \in 1 .. Cardinality(Pages) |-> i - 1]
  /\ queue = <<>>
  /\ pristine = <<>>
  /\ uncarved = SetToSeq(Heaps)
  /\ creating = FALSE
  /\ worker \in [Workers -> {[Idle EXCEPT !.at = "new_heap"], [Idle EXCEPT !.at = "ended"]}]
  /\ lent = {}
  /\ zeroed = {}
  /\ dirty = {}
-----------------------------------------------------------------------------
(* Pages. Operators take and return m, the headers and the heaps:           *)
(* [page |-> page, heaps |-> heaps].                                        *)

Memory == [page |-> page, heaps |-> heaps]

Stores(m) == page' = m.page /\ heaps' = m.heaps

HeapOf(m, p) == m.page[p].heap

(* The free pages behind the retained ones that are still committed, up to  *)
(* the first one that is not, or for which memory_decommit is refused: that *)
(* many are granted.                                                        *)
Decommits(m, list, granted) ==
  {i \in FreeRetain + 1 .. Len(list) :
     /\ i <= FreeRetain + granted
     /\ \A j \in FreeRetain + 1 .. i : ~m.page[list[j]].is_decommitted}

heap_page_free_decommit(m, h, granted) ==
  LET list == m.heaps[h].page_free
      gone == Decommits(m, list, granted)
  IN [page |-> [p \in Pages |->
                  IF \E i \in gone : list[i] = p
                  THEN [m.page[p] EXCEPT !.is_decommitted = TRUE] ELSE m.page[p]],
      heaps |-> [m.heaps EXCEPT ![h].page_free_commit_count = @ - Cardinality(gone)]]

(* Mutant: a used page that becomes free still counts as zero.              *)
KeepsZeroFlag(m, p, granted) ==
  LET h == HeapOf(m, p)
      freed == [page |-> [m.page EXCEPT ![p].is_free = TRUE],
                heaps |-> [m.heaps EXCEPT
                  ![h].page_available[m.page[p].class] = Remove(@, p),
                  ![h].page_free = <<p>> \o @,
                  ![h].page_free_commit_count = @ + 1]]
  IN IF freed.heaps[h].page_free_commit_count >= FreeOverflow
     THEN heap_page_free_decommit(freed, h, granted) ELSE freed

(* A page whose last block came back goes to the free pages of its heap.    *)
page_available_to_free(m, p, granted) ==
  LET h == HeapOf(m, p)
      freed == [page |-> [m.page EXCEPT ![p].is_free = TRUE, ![p].is_zero = FALSE],
                heaps |-> [m.heaps EXCEPT
                  ![h].page_available[m.page[p].class] = Remove(@, p),
                  ![h].page_free = <<p>> \o @,
                  ![h].page_free_commit_count = @ + 1]]
  IN IF freed.heaps[h].page_free_commit_count >= FreeOverflow
     THEN heap_page_free_decommit(freed, h, granted) ELSE freed

page_full_to_available(m, p) ==
  [page |-> [m.page EXCEPT ![p].is_full = FALSE],
   heaps |-> [m.heaps EXCEPT ![HeapOf(m, p)].page_available[m.page[p].class] = <<p>> \o @]]

page_available_to_full(m, p) ==
  [page |-> [m.page EXCEPT ![p].is_full = TRUE, ![p].is_zero = FALSE],
   heaps |-> [m.heaps EXCEPT ![HeapOf(m, p)].page_available[m.page[p].class] = Remove(@, p)]]

(* Mutant: a full page that gets a block back stays full.                   *)
ForgetsFull(m, b, granted) ==
  LET p == b[1]
      put == [m EXCEPT !.page[p].local_free = <<b>> \o @, !.page[p].used = @ - 1]
  IN IF put.page[p].used = 0 THEN page_available_to_free(put, p, granted) ELSE put

(* A block comes back to its page on the owner's thread. The fast path of   *)
(* block_deallocate is the case of a page that is not full.                 *)
page_put_local_free_block(m, b, granted) ==
  LET p == b[1]
      put == [m EXCEPT !.page[p].local_free = <<b>> \o @, !.page[p].used = @ - 1]
  IN IF put.page[p].used = 0 THEN page_available_to_free(put, p, granted)
     ELSE IF m.page[p].is_full THEN page_full_to_available(put, p)
     ELSE put

(* The deferred blocks of a page become its local free list; nothing is     *)
(* done while it still has one.                                             *)
page_adopt_thread_free_block_list(m, p) ==
  IF m.page[p].local_free # <<>> THEN m
  ELSE [m EXCEPT !.page[p].local_free = m.page[p].thread_free,
                 !.page[p].used = @ - Len(m.page[p].thread_free),
                 !.page[p].thread_free = <<>>]

(* The rest of the memory page behind a new block is linked up as well.     *)
Linked(m, p) ==
  LET c == m.page[p].class
      first == m.page[p].initialized
      last == ((first \div LinkedBlocks[c]) + 1) * LinkedBlocks[c] - 1
  IN [i \in 1 .. (IF last < BlockCount THEN last ELSE BlockCount - 1) - first |-> <<p, first + i>>]

page_initialize_blocks(m, p) ==
  [m EXCEPT !.page[p].initialized = @ + 1 + Len(Linked(m, p)),
            !.page[p].used = @ + 1,
            !.page[p].local_free = Linked(m, p)]

page_push_local_free_to_heap(m, p) ==
  [m EXCEPT !.heaps[HeapOf(m, p)].local_free[m.page[p].class] = m.page[p].local_free,
            !.page[p].used = @ + Len(m.page[p].local_free),
            !.page[p].local_free = <<>>]

page_get_local_free_block(m, p) ==
  [m EXCEPT !.page[p].local_free = Tail(@), !.page[p].used = @ + 1]
-----------------------------------------------------------------------------
(* Allocation, on the thread that owns the heap.                            *)

Goto(t, at) == worker' = [worker EXCEPT ![t].at = at]

MyHeap(t) == worker[t].heap

(* What a thread keeps from one operation to the next is its heap.          *)
Finishes(t) == worker' = [worker EXCEPT ![t] = [Idle EXCEPT !.heap = MyHeap(t)]]

(* The client of t gets block b, cleared if it asked for that; a block of a *)
(* page that is known to be zero is not cleared again.                      *)
Lends(t, b, zero, known, soiled) ==
  /\ Finishes(t)
  /\ lent' = lent \cup {b}
  /\ zeroed' = IF zero THEN zeroed \cup {b} ELSE zeroed
  /\ dirty' = IF zero /\ ~known THEN soiled \ {b} ELSE soiled

(* A block on the free list of the heap is the fast path; otherwise a page  *)
(* is needed.                                                               *)
heap_allocate_block(t, c, zero) ==
  LET list == heaps[MyHeap(t)].local_free[c] IN
  /\ worker[t].at = "idle"
  /\ \/ /\ list # <<>>
        /\ heaps' = [heaps EXCEPT ![MyHeap(t)].local_free[c] = Tail(@)]
        /\ Lends(t, Head(list), zero, FALSE, dirty)
        /\ UNCHANGED page
     \/ /\ list = <<>>
        /\ worker' = [worker EXCEPT ![t].at = "get_page", ![t].class = c, ![t].zero = zero]
        /\ UNCHANGED <<page, heaps, dataVars>>
  /\ UNCHANGED <<unmapped, poolVars>>

AllocatesFrom(t, p) == worker' = [worker EXCEPT ![t].at = "allocate", ![t].page = p]

(* The first available page of the class.                                   *)
heap_get_page(t) ==
  LET available == heaps[MyHeap(t)].page_available[worker[t].class] IN
  /\ worker[t].at = "get_page"
  /\ available # <<>>
  /\ AllocatesFrom(t, Head(available))
  /\ UNCHANGED <<pageVars, poolVars, dataVars>>

NoPageAvailable(t) ==
  /\ worker[t].at = "get_page"
  /\ heaps[MyHeap(t)].page_available[worker[t].class] = <<>>

(* Otherwise what other threads handed back to the heap is taken over ...   *)
TakeDeferred(t) ==
  /\ NoPageAvailable(t)
  /\ heaps[MyHeap(t)].thread_free # <<>>
  /\ worker' = [worker EXCEPT ![t].at = "drain", ![t].list = heaps[MyHeap(t)].thread_free]
  /\ heaps' = [heaps EXCEPT ![MyHeap(t)].thread_free = <<>>]
  /\ UNCHANGED <<page, unmapped, poolVars, dataVars>>

(* ... and freed one by one, as the owner; then a page is looked for again. *)
DrainDeferred(t) ==
  LET rest == Tail(worker[t].list) IN
  /\ worker[t].at = "drain"
  /\ \E granted \in 0 .. Cardinality(Pages) :
       Stores(page_put_local_free_block(Memory, Head(worker[t].list), granted))
  /\ worker' = [worker EXCEPT ![t].list = rest,
                              ![t].at = IF rest = <<>> THEN "get_page" ELSE "drain"]
  /\ UNCHANGED <<unmapped, poolVars, dataVars>>

(* A page is laid out for a size class and made available.                  *)
heap_make_free_page_available(m, h, c, p) ==
  [page |-> [m.page EXCEPT ![p] =
     [@ EXCEPT !.class = c, !.used = 0, !.initialized = 0, !.local_free = <<>>,
               !.thread_free = <<>>, !.is_full = FALSE, !.is_free = FALSE, !.heap = h]],
   heaps |-> [m.heaps EXCEPT ![h].page_available[c] = <<p>> \o @]]

(* Committing a page again clears its memory. If it is refused the page     *)
(* stays available, decommitted, and the allocation fails.                  *)
page_commit_memory_pages(t, m, p) ==
  \/ /\ Stores([m EXCEPT !.page[p].is_decommitted = FALSE, !.page[p].is_zero = TRUE])
     /\ dirty' = {b \in dirty : b[1] # p}
     /\ AllocatesFrom(t, p)
     /\ UNCHANGED <<lent, zeroed>>
  \/ /\ CommitFails
     /\ Stores(m)
     /\ Finishes(t)
     /\ UNCHANGED dataVars

TakeFreePage(t) ==
  LET h == MyHeap(t)
      p == Head(heaps[h].page_free)
      popped == [page |-> page,
                 heaps |-> [heaps EXCEPT ![h].page_free = Tail(@),
                   ![h].page_free_commit_count = IF page[p].is_decommitted THEN @ ELSE @ - 1]]
      ready == heap_make_free_page_available(popped, h, worker[t].class, p)
  IN
  /\ NoPageAvailable(t)
  /\ heaps[h].thread_free = <<>>
  /\ heaps[h].page_free # <<>>
  /\ IF page[p].is_decommitted
     THEN page_commit_memory_pages(t, ready, p)
     ELSE Stores(ready) /\ AllocatesFrom(t, p) /\ UNCHANGED dataVars
  /\ UNCHANGED <<unmapped, poolVars>>

(* The last resort is a page of a span, mapped if need be. A new page is    *)
(* zero.                                                                    *)
NeedsSpan(t) ==
  /\ NoPageAvailable(t)
  /\ heaps[MyHeap(t)].thread_free = <<>>
  /\ heaps[MyHeap(t)].page_free = <<>>

(* The null page is read through, which ends the process.                   *)
ReadsNullPage ==
  /\ worker' = [t \in Workers |-> [Idle EXCEPT !.at = "ended"]]
  /\ UNCHANGED <<page, heaps>>

(* A later page of the span is committed first. If that is refused there is *)
(* no page, which heap_get_page_generic does not look for.                  *)
span_allocate_page(t, pagesLeft) ==
  LET p == Head(pagesLeft)
      taken == [page |-> [page EXCEPT ![p].is_zero = TRUE],
                heaps |-> [heaps EXCEPT ![MyHeap(t)].span_partial = Tail(pagesLeft)]]
  IN \/ /\ Stores(heap_make_free_page_available(taken, MyHeap(t), worker[t].class, p))
        /\ AllocatesFrom(t, p)
     \/ CommitFails /\ p % PagesPerSpan # 0 /\ ReadsNullPage

heap_get_span(t) ==
  LET partial == heaps[MyHeap(t)].span_partial IN
  /\ NeedsSpan(t)
  /\ \/ /\ partial # <<>>
        /\ span_allocate_page(t, partial)
        /\ UNCHANGED unmapped
     \/ /\ partial = <<>> /\ unmapped # <<>>
        /\ span_allocate_page(t, SubSeq(unmapped, 1, PagesPerSpan))
        /\ unmapped' = SubSeq(unmapped, PagesPerSpan + 1, Len(unmapped))
     \/ /\ partial = <<>>
        /\ Finishes(t)
        /\ UNCHANGED pageVars
  /\ UNCHANGED <<poolVars, dataVars>>

(* What is left of an allocation once block b is found: the local free list *)
(* of the page moves to an empty heap list, and a page that is now in full  *)
(* use is looked at again.                                                  *)
GotBlock(t, m, b, known, soiled) ==
  LET p == worker[t].page
      empty == m.heaps[MyHeap(t)].local_free[m.page[p].class] = <<>>
      pushed == IF m.page[p].local_free # <<>> /\ empty
                THEN page_push_local_free_to_heap(m, p) ELSE m
  IN /\ Stores(pushed)
     /\ IF pushed.page[p].used = BlockCount
        THEN /\ worker' = [worker EXCEPT ![t].at = "adopt", ![t].block = b, ![t].known = known]
             /\ dirty' = soiled
             /\ UNCHANGED <<lent, zeroed>>
        ELSE Lends(t, b, worker[t].zero, known, soiled)

page_allocate_block(t) ==
  LET p == worker[t].page
      adopted == page_adopt_thread_free_block_list(Memory, p)
      list == adopted.page[p].local_free
  IN
  /\ worker[t].at = "allocate"
  /\ \/ /\ list # <<>>
        /\ GotBlock(t, page_get_local_free_block(adopted, p), Head(list), FALSE, dirty)
     \/ /\ list = <<>>
        /\ GotBlock(t, page_initialize_blocks(adopted, p), <<p, page[p].initialized>>,
                    page[p].is_zero, dirty \cup Range(Linked(adopted, p)))
  /\ UNCHANGED <<unmapped, poolVars>>

(* Blocks other threads freed since keep the page available ...             *)
AdoptBeforeFull(t) ==
  LET p == worker[t].page
      adopted == page_adopt_thread_free_block_list(Memory, p)
  IN
  /\ worker[t].at = "adopt"
  /\ Stores(adopted)
  /\ IF adopted.page[p].used = BlockCount
     THEN Goto(t, "full") /\ UNCHANGED dataVars
     ELSE Lends(t, worker[t].block, worker[t].zero, worker[t].known, dirty)
  /\ UNCHANGED <<unmapped, poolVars>>

(* ... and otherwise it leaves the available pages.                         *)
MarkFull(t) ==
  /\ worker[t].at = "full"
  /\ Stores(page_available_to_full(Memory, worker[t].page))
  /\ Lends(t, worker[t].block, worker[t].zero, worker[t].known, dirty)
  /\ UNCHANGED <<unmapped, poolVars>>
-----------------------------------------------------------------------------
(* Deallocation, on any thread.                                             *)

(* The client of t gives block b back; whatever it wrote there remains.     *)
GivesBack(b) ==
  /\ b \in lent
  /\ lent' = lent \ {b}
  /\ zeroed' = zeroed \ {b}
  /\ dirty' = dirty \cup {b}

(* What a compare-and-swap compares: the head of the list of a heap, and    *)
(* the head and the length of the list of a page.                           *)
Top(list) == IF list = <<>> THEN NoBlk ELSE Head(list)
Token(full, list) == IF full THEN Top(list) ELSE <<Top(list), Len(list)>>

Deferred(full, p) == IF full THEN heaps[page[p].heap].thread_free ELSE page[p].thread_free

(* The owner of the page frees the block at once. Another thread chooses a  *)
(* deferred list by the full flag and reads its head.                       *)
block_deallocate(t, b) ==
  LET p == b[1] IN
  /\ worker[t].at = "idle"
  /\ GivesBack(b)
  /\ \/ /\ heaps[page[p].heap].owner = t
        /\ \E granted \in 0 .. Cardinality(Pages) :
             Stores(page_put_local_free_block(Memory, b, granted))
        /\ UNCHANGED worker
     \/ /\ heaps[page[p].heap].owner # t
        /\ worker' = [worker EXCEPT
             ![t].at = "push", ![t].block = b, ![t].full = page[p].is_full,
             ![t].seen = Token(page[p].is_full, Deferred(page[p].is_full, p))]
        /\ UNCHANGED <<page, heaps>>
  /\ UNCHANGED <<unmapped, poolVars>>

Pushes(full, p, list) ==
  IF full
  THEN heaps' = [heaps EXCEPT ![page[p].heap].thread_free = list] /\ UNCHANGED page
  ELSE page' = [page EXCEPT ![p].thread_free = list] /\ UNCHANGED heaps

(* Mutant: the head is stored without comparing it with the one read, to    *)
(* which the block is linked.                                               *)
PushesBlindly(t) ==
  LET w == worker[t]
      list == Deferred(w.full, w.block[1])
      linked == IF w.full THEN w.seen ELSE w.seen[1]
  IN
  /\ w.at = "push"
  /\ Pushes(w.full, w.block[1],
            <<w.block>> \o CASE linked = NoBlk -> <<>>
                             [] linked # NoBlk /\ list = <<>> -> <<linked>>
                             [] OTHER -> list)
  /\ Finishes(t)
  /\ UNCHANGED <<unmapped, poolVars, dataVars>>

(* The block becomes the head of the list if the head is still the one it   *)
(* is linked to; otherwise it is linked to the new head.                    *)
page_put_thread_free_block(t) ==
  LET w == worker[t]
      p == w.block[1]
      list == Deferred(w.full, p)
  IN
  /\ w.at = "push"
  /\ \/ /\ Token(w.full, list) = w.seen
        /\ Pushes(w.full, p, <<w.block>> \o list)
        /\ Finishes(t)
     \/ /\ Token(w.full, list) # w.seen
        /\ worker' = [worker EXCEPT ![t].seen = Token(w.full, list)]
        /\ UNCHANGED <<page, heaps>>
  /\ UNCHANGED <<unmapped, poolVars, dataVars>>
-----------------------------------------------------------------------------
(* Threads and their heaps. Every step but the mapping of new heaps is a    *)
(* section of the global heap lock.                                         *)

TakesHeap(t, h) == worker' = [worker EXCEPT ![t].at = "use_heap", ![t].heap = h]

(* rpmalloc_thread_initialize takes a released heap, else one that was      *)
(* never used; with neither, one thread maps new ones and the others wait   *)
(* for it.                                                                  *)
heap_allocate_new(t) ==
  /\ worker[t].at = "new_heap"
  /\ \/ /\ queue # <<>>
        /\ TakesHeap(t, Head(queue))
        /\ queue' = Tail(queue)
        /\ UNCHANGED <<pristine, creating>>
     \/ /\ queue = <<>> /\ pristine # <<>>
        /\ TakesHeap(t, Head(pristine))
        /\ pristine' = Tail(pristine)
        /\ UNCHANGED <<queue, creating>>
     \/ /\ queue = <<>> /\ pristine = <<>> /\ ~creating
        /\ creating' = TRUE
        /\ Goto(t, "map_heaps")
        /\ UNCHANGED <<queue, pristine>>
  /\ UNCHANGED <<uncarved, pageVars, dataVars>>

(* The first heap of the mapping is for the thread, the others are queued,  *)
(* the last one carved in front. A thread whose mapping is refused has no   *)
(* heap and does not go on.                                                 *)
MapHeaps(t) ==
  /\ worker[t].at = "map_heaps"
  /\ creating' = FALSE
  /\ \/ /\ Len(uncarved) >= HeapsPerMap
        /\ TakesHeap(t, Head(uncarved))
        /\ pristine' = Reverse(SubSeq(uncarved, 2, HeapsPerMap)) \o pristine
        /\ uncarved' = SubSeq(uncarved, HeapsPerMap + 1, Len(uncarved))
     \/ /\ Goto(t, "ended")
        /\ UNCHANGED <<pristine, uncarved>>
  /\ UNCHANGED <<queue, pageVars, dataVars>>

heap_allocate(t) ==
  /\ worker[t].at = "use_heap"
  /\ heaps' = [heaps EXCEPT ![MyHeap(t)].owner = t]
  /\ Finishes(t)
  /\ UNCHANGED <<page, unmapped, poolVars, dataVars>>

(* The heap keeps its pages, its lists and the id of the thread that left.  *)
heap_release(t) ==
  /\ worker[t].at = "idle"
  /\ queue' = <<MyHeap(t)>> \o queue
  /\ worker' = [worker EXCEPT ![t] = [Idle EXCEPT !.at = "ended"]]
  /\ UNCHANGED <<pristine, uncarved, creating, pageVars, dataVars>>

RpStep(t) ==
  \/ heap_allocate_new(t) \/ MapHeaps(t)
  \/ heap_allocate(t) \/ heap_release(t)
  \/ heap_get_page(t) \/ TakeDeferred(t) \/ DrainDeferred(t) \/ TakeFreePage(t)
  \/ heap_get_span(t) \/ page_allocate_block(t) \/ AdoptBeforeFull(t) \/ MarkFull(t)
  \/ \E b \in lent : block_deallocate(t, b)
  \/ page_put_thread_free_block(t)

(* Every thread has ended.                                                  *)
RpEnded == (\A t \in Workers : worker[t].at = "ended") /\ UNCHANGED rpVars

(* The threads ask for blocks of these classes, zeroed or not.              *)
RpNextBy(classes, zeros) ==
  \/ \E t \in Workers :
       \/ \E c \in classes, zero \in zeros : heap_allocate_block(t, c, zero)
       \/ RpStep(t)
  \/ RpEnded

RpNext == RpNextBy(Classes, BOOLEAN)

RpSpec == RpInit /\ [][RpNext]_rpVars
-----------------------------------------------------------------------------
Positions(b, list) == {i \in DOMAIN list : list[i] = b}

(* A block a thread has found for its client, or is about to hand back.     *)
InHand(t) == IF worker[t].at \in {"adopt", "full", "push"} THEN <<worker[t].block>> ELSE <<>>

(* In how many places block b is.                                           *)
Copies(b) ==
  LET p == b[1] IN
  Cardinality({b} \cap lent)
    + Cardinality(Positions(b, page[p].local_free \o page[p].thread_free))
    + Cardinality(UNION {{t} \X Positions(b, worker[t].list \o InHand(t)) : t \in Workers})
    + Cardinality(UNION {{h} \X Positions(b, heaps[h].thread_free) : h \in Heaps})
    + Cardinality(UNION {{<<h, c>>} \X Positions(b, heaps[h].local_free[c]) :
                           h \in Heaps, c \in Classes})

(* No block is lost and none is handed out twice: every block that was ever *)
(* cut from a page is in exactly one place, whichever threads free it, and  *)
(* block_used counts those that are not on the local list of the page.      *)
EveryBlockInOnePlace ==
  \A p \in Pages :
    /\ \A i \in 0 .. BlockCount - 1 :
         Copies(<<p, i>>) = IF i < page[p].initialized THEN 1 ELSE 0
    /\ page[p].used = page[p].initialized - Len(page[p].local_free)

(* Freeing b will bring its page back to the heap: it does not wait on the  *)
(* list of a full page, which nobody looks at, and is not on its way there. *)
BringsPageBack(b) ==
  LET h == page[b[1]].heap IN
  \/ b \in lent
  \/ b \in Range(heaps[h].thread_free)
  \/ b \in Range(heaps[h].local_free[page[b[1]].class])
  \/ \E t \in Workers : \/ b \in Range(worker[t].list)
                        \/ b \in Range(InHand(t)) /\ (worker[t].at = "push" => worker[t].full)

(* No page is lost: a page of a heap is available, free or full, and on the *)
(* list that says so. A full page is on no list at all; although a thread   *)
(* may read the full flag too early and leave its block on the list of the  *)
(* page, some other block of the page always brings it back.                *)
NoPageLost ==
  \A p \in {q \in Pages : page[q].heap # NoHeap} :
    LET h == page[p].heap IN
    /\ Cardinality(Positions(p, heaps[h].page_available[page[p].class]))
         = IF page[p].is_full \/ page[p].is_free THEN 0 ELSE 1
    /\ Cardinality(Positions(p, heaps[h].page_free)) = IF page[p].is_free THEN 1 ELSE 0
    /\ page[p].is_full => \E i \in 0 .. BlockCount - 1 : BringsPageBack(<<p, i>>)

(* rpzalloc returns zeroed memory, also where it relies on the page being   *)
(* known to be zero and clears nothing.                                     *)
ZeroedIsZero == zeroed \cap dirty = {}

(* Clients only get blocks of committed pages.                              *)
LentIsCommitted == \A b \in lent : ~page[b[1]].is_decommitted
=============================================================================
