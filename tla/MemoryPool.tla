------------------------------ MODULE MemoryPool ------------------------------
(***************************************************************************)
(* The memory pool of the forwarding server, switch/.../MemoryPool.cpp.    *)
(* Its free and used chunks, their list nodes and the caches of unused     *)
(* nodes are linked lists in one heap; the functions here map a heap to    *)
(* the heap after one call.  poll_alloc and poll_free hold the mutex of    *)
(* the pool throughout, so a call is one step.                             *)
(*                                                                         *)
(* A list node is a number: 1..Blocks are the chunk nodes, the next        *)
(* Points are the nodes of the free list, the heads are negative and NULL  *)
(* is 0.  Memory is addressed by the number of the byte in pbuffer.        *)
(***************************************************************************)
EXTENDS Integers, FiniteSets, FiniteSetsExt

CONSTANTS
    Blocks,         \* block_size, the number of blocks
    BLOCKSIZE       \* bytes in a block

ASSUME PoolAssumption == Blocks \in Nat \ {0} /\ BLOCKSIZE \in Nat \ {0}

NULL == 0
Points == Blocks \div 2 + 1     \* free_max_size
ChunkNode == 1..Blocks
PointNode == (Blocks + 1)..(Blocks + Points)

chunk_list == -1                \* pmemory_chunk_list
chunk_cache == -2               \* pmemory_chunk_list_cahce_poll
free_list == -3                 \* pmemory_chunk_free_list
free_cache == -4                \* pmemory_chunk_free_list_cache
Head == {chunk_list, chunk_cache, free_list, free_cache}
Node == ChunkNode \cup PointNode \cup Head

Block == 0..(Blocks - 1)
Chunk == ChunkNode \cup {chunk_list}

\* The bytes of a request, rounded up to whole blocks
uptoblock(size) == ((size + BLOCKSIZE - 1) \div BLOCKSIZE) * BLOCKSIZE

-----------------------------------------------------------------------------
(* The lists. *)

\* getchunk: the first node after the head, or NULL
First(h, head) == h.next[head]

\* getchunk's effect, when there is one; the next node's prev is not adjusted
Unlink(h, head) == [h EXCEPT !.next[head] = h.next[h.next[head]]]

\* pushFront and addchunkcache
PushFront(h, head, n) ==
    LET after == h.next[head]
        linked == [h EXCEPT !.next[head] = n, !.prev[n] = head,
                            !.next[n] = after]
    IN IF after = NULL THEN linked ELSE [linked EXCEPT !.prev[after] = n]

insert_before(h, n, new) ==
    LET before == h.prev[n]
    IN [h EXCEPT !.prev[new] = before, !.next[new] = n,
                 !.prev[n] = new, !.next[before] = new]

list_delete(h, n) ==
    LET before == h.prev[n]
        after == h.next[n]
        linked == [h EXCEPT !.next[before] = after]
    IN IF after = NULL THEN linked ELSE [linked EXCEPT !.prev[after] = before]

\* The list after a head, as a function on positions; NULL past its end
Walk(h, head) ==
    LET at[i \in 0..(Blocks + Points + 1)] ==
          IF i = 0 THEN h.next[head]
          ELSE IF at[i - 1] = NULL THEN NULL
          ELSE h.next[at[i - 1]]
    IN at

\* A free-list node for the chunk c, taken from the cache
AddFree(h, c) ==
    LET p == First(h, free_cache)
    IN PushFront([Unlink(h, free_cache) EXCEPT !.data[p] = c, !.pfree[c] = p],
                 free_list, p)

\* A mutated form: the node does not go back to the cache.
DropFree_Lost(h, p) == list_delete(h, p)

\* A free-list node goes back to the cache.
DropFree(h, p) == PushFront(list_delete(h, p), free_cache, p)

-----------------------------------------------------------------------------
(* The calls. *)

\* create_memory_poll: one free chunk of all blocks.  No block points to it.
FreshHeap ==
    LET chain(from, to) == [n \in from..to |-> IF n = to THEN NULL ELSE n + 1]
        h == [next |-> [n \in Node |->
                CASE n = chunk_cache -> 1
                  [] n = free_cache -> Blocks + 1
                  [] n \in ChunkNode -> chain(1, Blocks)[n]
                  [] n \in PointNode -> chain(Blocks + 1, Blocks + Points)[n]
                  [] OTHER -> NULL],
              prev |-> [n \in Node |->
                CASE n = 1 -> chunk_cache
                  [] n = Blocks + 1 -> free_cache
                  [] n \in Head -> NULL
                  [] OTHER -> n - 1],
              count |-> [c \in ChunkNode |-> IF c = 1 THEN Blocks ELSE 0],
              first |-> [c \in ChunkNode |-> 0],
              bUse |-> [c \in Chunk |-> c = chunk_list],
              pfree |-> [c \in ChunkNode |-> NULL],
              data |-> [p \in PointNode |-> NULL],
              owner |-> [b \in Block |-> NULL],
              used_size |-> 0]
    IN AddFree(PushFront(Unlink(h, chunk_cache), chunk_list, 1), 1)

\* The places in the free list of the chunks that have n blocks
Fitting(h, n) ==
    {i \in 0..Points :
        LET p == Walk(h, free_list)[i]
        IN p # NULL /\ h.count[h.data[p]] >= n}

\* A mutated form: the rest of a split chunk keeps the head of the whole.
Split_Overlap(h, c, new, n) ==
    LET at == h.first[c]
        cut == [h EXCEPT !.first[new] = at, !.count[new] = n,
                         !.bUse[new] = TRUE, !.owner[at] = new,
                         !.count[c] = @ - n]
    IN insert_before(cut, c, new)

\* The first n blocks of the free chunk c become the used chunk new.
Split(h, c, new, n) ==
    LET at == h.first[c]
        cut == [h EXCEPT !.first[new] = at, !.count[new] = n,
                         !.bUse[new] = TRUE, !.owner[at] = new,
                         !.first[c] = at + n, !.count[c] = @ - n,
                         !.owner[at + n] = c]
    IN insert_before(cut, c, new)

\* poll_alloc, when a free chunk is large enough: first fit.
poll_alloc(h, size) ==
    LET n == uptoblock(size) \div BLOCKSIZE
        p == Walk(h, free_list)[Min(Fitting(h, n))]
        c == h.data[p]
        new == First(h, chunk_cache)
        counted == [h EXCEPT !.used_size = @ + uptoblock(size)]
    IN IF h.count[c] = n
       THEN [heap |-> DropFree([counted EXCEPT !.bUse[c] = TRUE], p),
             addr |-> h.first[c] * BLOCKSIZE]
       ELSE [heap |-> Split(Unlink(counted, chunk_cache), c, new, n),
             addr |-> h.first[c] * BLOCKSIZE]

CanAlloc(h, size) == Fitting(h, uptoblock(size) \div BLOCKSIZE) # {}

\* The chunk an address was handed out from
ChunkAt(h, addr) == h.owner[addr \div BLOCKSIZE]

IsFree(h, c) == c # NULL /\ ~ h.bUse[c]

\* poll_free joins the freed chunk c to the chunk before it ...
MergeIntoPrev(h, c) ==
    LET joined == [h EXCEPT !.count[h.prev[c]] = @ + h.count[c]]
    IN [PushFront(list_delete(joined, c), chunk_cache, c)
          EXCEPT !.bUse[c] = FALSE]

\* ... and the chunk n after it to the chunk c, which need not be free yet
MergeNext(h, c, n) ==
    LET joined == [h EXCEPT !.bUse[c] = FALSE, !.count[c] = @ + h.count[n],
                            !.bUse[n] = FALSE]
    IN DropFree(PushFront(list_delete(joined, n), chunk_cache, n), h.pfree[n])

\* A mutated form: a chunk with a free one after it is not joined to it.
poll_free_NoNext(h, addr) ==
    LET c == ChunkAt(h, addr)
        less == [h EXCEPT !.used_size = @ - h.count[c] * BLOCKSIZE]
    IN IF ~ h.bUse[c] THEN h
       ELSE IF IsFree(h, h.prev[c]) THEN MergeIntoPrev(less, c)
       ELSE AddFree([less EXCEPT !.bUse[c] = FALSE], c)

poll_free(h, addr) ==
    LET c == ChunkAt(h, addr)
        before == h.prev[c]
        after == h.next[c]
        less == [h EXCEPT !.used_size = @ - h.count[c] * BLOCKSIZE]
        joined == IF IsFree(h, before) THEN MergeIntoPrev(less, c) ELSE less
        kept == IF IsFree(h, before) THEN before ELSE c
        whole == IF IsFree(h, after) THEN MergeNext(joined, kept, after)
                 ELSE [joined EXCEPT !.bUse[kept] = FALSE]
    IN IF ~ h.bUse[c] THEN h
       ELSE IF IsFree(h, before) THEN whole ELSE AddFree(whole, c)

-----------------------------------------------------------------------------
(* What a heap must keep. *)

\* The nodes in the list after a head
Listed(h, head) ==
    {Walk(h, head)[i] : i \in 0..(Blocks + Points)} \ {NULL}

Chunks(h) == Listed(h, chunk_list)
UsedChunks(h) == {c \in Chunks(h) : h.bUse[c]}
FreeChunks(h) == Chunks(h) \ UsedChunks(h)

\* The chunks lie side by side from the first block to the last in the order of
\* their list, whichever way it is followed.
Tiled(h) ==
    LET at == Walk(h, chunk_list)
    IN /\ at[0] # NULL /\ h.first[at[0]] = 0 /\ h.prev[at[0]] = chunk_list
       /\ \A i \in 0..(Blocks - 1) :
            at[i] # NULL =>
              /\ h.count[at[i]] > 0
              /\ IF at[i + 1] = NULL
                 THEN h.first[at[i]] + h.count[at[i]] = Blocks
                 ELSE /\ h.first[at[i + 1]] = h.first[at[i]] + h.count[at[i]]
                      /\ h.prev[at[i + 1]] = at[i]
                      /\ h.bUse[at[i]] \/ h.bUse[at[i + 1]]

\* The free list holds each free chunk once and no other.
FreeIndexed(h) ==
    /\ \A p, q \in Listed(h, free_list) : h.data[p] = h.data[q] => p = q
    /\ {h.data[p] : p \in Listed(h, free_list)} = FreeChunks(h)
    /\ \A p \in Listed(h, free_list) : h.pfree[h.data[p]] = p
=============================================================================
