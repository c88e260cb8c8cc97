---------------------------- MODULE SwitchBuffers ----------------------------
(***************************************************************************)
(* The send buffers of the forwarding server, TCPNetworkDataCache of       *)
(* TCPNetworkEngine.cpp, over the memory pool they are allocated from.     *)
(*                                                                         *)
(* A connection is a pair of items, one to the client and one to the game  *)
(* server.  What send() does not take is kept in the item's buffer; the    *)
(* buffer grows by an allocation, a copy and a free, and only the pool's   *)
(* calls hold the mutex of the pool, so the threads of different pairs     *)
(* interleave between them.  The lock of the pair keeps the second thread  *)
(* out of a pair that is being handled.                                    *)
(***************************************************************************)
EXTENDS MemoryPool

CONSTANTS
    Item,           \* the connection items
    partner,        \* the other item of an item's pair
    kChunkSize,     \* a buffer's size is a multiple of this
    Sizes,          \* the sizes of the messages
    Threads         \* how many threads handle pairs at a time

ASSUME BuffersAssumption ==
    /\ partner \in [Item -> Item]
    /\ \A c \in Item : partner[c] # c /\ partner[partner[c]] = c
    /\ kChunkSize \in Nat \ {0} /\ Sizes \subseteq Nat \ {0}
    /\ Threads \in Nat \ {0}

VARIABLES
    heap,           \* g_pmemory_poll
    cache,          \* _dataCache of each item
    grow,           \* the new buffer of an item whose old one is not yet freed
    closing         \* the items that are still to be reset by a close

vars == <<heap, cache, grow, closing>>

None == -1      \* no buffer; 0 is an address
NoCache == [buf |-> None, size |-> 0, index |-> 0, use |-> 0]
NoGrowth == [buf |-> None, size |-> 0, add |-> 0]

RoundUp(size) == ((size + kChunkSize - 1) \div kChunkSize) * kChunkSize

\* No first message takes the whole pool.  A chunk of all blocks that was never
\* cut is one no block points to: poll_free would not find it.  The pool has
\* 512 MB and a message less than 64 KB.
ASSUME MessagesAssumption ==
    \A n \in Sizes : uptoblock(RoundUp(n)) \div BLOCKSIZE # Blocks

Pair(c) == {c, partner[c]}
Handled == {c \in Item : grow[c] # NoGrowth} \cup closing

\* A thread that handles other pairs is free, and nobody holds c's lock.
MayHandle(c) ==
    /\ Pair(c) \cap Handled = {}
    /\ Cardinality({Pair(d) : d \in Handled}) < Threads

Init ==
    /\ heap = FreshHeap
    /\ cache = [c \in Item |-> NoCache]
    /\ grow = [c \in Item |-> NoGrowth]
    /\ closing = {}

-----------------------------------------------------------------------------
(* addDataBuffer, as _sendData calls it: into an empty buffer after send()  *)
(* would block, else behind what waits.  A failure closes the pair.         *)

\* The message is appended where the buffer has room behind its last byte.
Append(c, n) ==
    /\ cache[c].index + cache[c].use + n <= cache[c].size
    /\ cache' = [cache EXCEPT ![c].use = @ + n]
    /\ UNCHANGED <<heap, grow, closing>>

\* There is no buffer yet.
NewBuffer(c, n) ==
    /\ cache[c].buf = None
    /\ IF CanAlloc(heap, RoundUp(n))
       THEN LET got == poll_alloc(heap, RoundUp(n))
            IN /\ heap' = got.heap
               /\ cache' = [cache EXCEPT ![c] =
                    [buf |-> got.addr, size |-> RoundUp(n),
                     index |-> 0, use |-> n]]
               /\ UNCHANGED closing
       ELSE closing' = closing \cup Pair(c) /\ UNCHANGED <<heap, cache>>
    /\ UNCHANGED grow

\* The buffer is too small: a larger one is allocated ...
Grow(c, n) ==
    LET size == RoundUp(cache[c].use + n)
    IN /\ cache[c].buf # None
       /\ cache[c].use + n > cache[c].size
       /\ IF CanAlloc(heap, size)
          THEN LET got == poll_alloc(heap, size)
               IN /\ heap' = got.heap
                  /\ grow' = [grow EXCEPT ![c] =
                       [buf |-> got.addr, size |-> size, add |-> n]]
                  /\ UNCHANGED closing
          ELSE closing' = closing \cup Pair(c) /\ UNCHANGED <<heap, grow>>
       /\ UNCHANGED cache

\* ... what waits is copied into it, the old one is freed and the message added.
Grown(c) ==
    /\ grow[c] # NoGrowth
    /\ heap' = poll_free(heap, cache[c].buf)
    /\ cache' = [cache EXCEPT ![c] =
         [buf |-> grow[c].buf, size |-> grow[c].size, index |-> 0,
          use |-> @.use + grow[c].add]]
    /\ grow' = [grow EXCEPT ![c] = NoGrowth]
    /\ UNCHANGED closing

\* A mutated form: the message is written where the buffer has no room for it.
Compact_InPlace(c, n) ==
    /\ cache[c].use + n <= cache[c].size
    /\ cache[c].index + cache[c].use + n > cache[c].size
    /\ cache' = [cache EXCEPT ![c].use = @ + n]
    /\ UNCHANGED <<heap, grow, closing>>

\* The room is before the first byte: the bytes are moved to the front.
Compact(c, n) ==
    /\ cache[c].use + n <= cache[c].size
    /\ cache[c].index + cache[c].use + n > cache[c].size
    /\ cache' = [cache EXCEPT ![c].index = 0, ![c].use = @ + n]
    /\ UNCHANGED <<heap, grow, closing>>

addDataBuffer(c, n) ==
    /\ MayHandle(c)
    /\ Append(c, n) \/ NewBuffer(c, n) \/ Grow(c, n) \/ Compact(c, n)

-----------------------------------------------------------------------------
(* The other uses of a buffer. *)

\* resetData: the buffer goes back to the pool.
resetData(c) ==
    /\ heap' = IF cache[c].buf = None THEN heap
               ELSE poll_free(heap, cache[c].buf)
    /\ cache' = [cache EXCEPT ![c] = NoCache]

\* onEventEpollOut: send() takes the first n bytes that wait.
onEventEpollOut(c, n) ==
    /\ MayHandle(c)
    /\ n <= cache[c].use
    /\ IF n = cache[c].use THEN resetData(c)
       ELSE /\ cache' = [cache EXCEPT ![c].index = @ + n, ![c].use = @ - n]
            /\ UNCHANGED heap
    /\ UNCHANGED <<grow, closing>>

\* A failing send(), the end of a stream or the 30 seconds' timeout close a
\* pair.  The timeout is taken to find the pair unlocked, which nothing in the
\* code ensures.
CloseSocket(c) ==
    /\ MayHandle(c)
    /\ closing' = closing \cup Pair(c)
    /\ UNCHANGED <<heap, cache, grow>>

\* resumeData resets one item after the other.
resumeData(c) ==
    /\ c \in closing
    /\ resetData(c)
    /\ closing' = closing \ {c}
    /\ UNCHANGED grow

Next ==
    \E c \in Item :
        \/ \E n \in Sizes : addDataBuffer(c, n)
        \/ \E n \in Sizes : onEventEpollOut(c, n)
        \/ Grown(c)
        \/ CloseSocket(c)
        \/ resumeData(c)

Spec == Init /\ [][Next]_vars

-----------------------------------------------------------------------------
(* Properties. *)

\* The blocks an item holds, each as the address of its first byte
Buffers(c) ==
    ({cache[c].buf} \cup {grow[c].buf}) \ {None}

\* The buffers are the used chunks: every buffer is the head of a used chunk of
\* at least its size, no two items share one, no used chunk is without an item
\* that will give it back, and the bytes that wait lie inside their buffer
\* (addDataBuffer, resetData, skipDataBuffer).
BuffersOwned ==
    /\ \A c, d \in Item : c # d => Buffers(c) \cap Buffers(d) = {}
    /\ {heap.first[k] * BLOCKSIZE : k \in UsedChunks(heap)}
         = UNION {Buffers(c) : c \in Item}
    /\ \A c \in Item :
         /\ cache[c].index + cache[c].use <= cache[c].size
         /\ cache[c].buf # None =>
              LET k == ChunkAt(heap, cache[c].buf)
              IN k \in UsedChunks(heap) /\ cache[c].use > 0
                   /\ heap.count[k] * BLOCKSIZE >= cache[c].size

\* However allocations, frees and merges of the threads follow each other, the
\* chunks tile the pool in order, no two free ones lie side by side, and the
\* free list holds each free chunk once (poll_alloc, poll_free).
HeapTiled == Tiled(heap) /\ FreeIndexed(heap)

\* No list node is lost or in two lists, so that neither cache of nodes runs
\* dry (getchunk in poll_alloc and poll_free), and used_size counts what is out.
NodesKept ==
    /\ Chunks(heap) \cap Listed(heap, chunk_cache) = {}
    /\ Chunks(heap) \cup Listed(heap, chunk_cache) = ChunkNode
    /\ Listed(heap, free_list) \cap Listed(heap, free_cache) = {}
    /\ Listed(heap, free_list) \cup Listed(heap, free_cache) = PointNode
    /\ heap.used_size =
         BLOCKSIZE * MapThenSumSet(LAMBDA k : heap.count[k], UsedChunks(heap))

Pool == INSTANCE BlockPool WITH
    held <- {[first |-> heap.first[k], count |-> heap.count[k]] :
               k \in UsedChunks(heap)}

\* The pool hands out runs of blocks that nobody holds, one a call, and takes
\* them back whole (poll_alloc, poll_free): it implements BlockPool.
HandsOutRuns == Pool!PoolSpec
=============================================================================
