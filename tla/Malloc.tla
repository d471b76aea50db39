------------------------------- MODULE Malloc -------------------------------
(***************************************************************************)
(* The block allocator (threads/malloc.c) over the kernel pool of the page *)
(* allocator (threads/palloc.c) and its bitmap (lib/kernel/bitmap.c).      *)
(* Memory is addressed by bytes; page n is n * PGSIZE up to the next page. *)
(*                                                                         *)
(* The lock of a descriptor is held from the test of its free list to the  *)
(* end of malloc or free, that of the pool while its bitmap is scanned and *)
(* flipped.  Pages are given back without a lock, one bit at a time.       *)
(* call[t].at is where thread t is:                                        *)
(*    "out"     not in the allocator                                       *)
(*    "lock"    malloc: at lock_acquire (&d->lock)                         *)
(*    "pool"    palloc_get_multiple: at lock_acquire (&pool->lock)         *)
(*    "scan"    bitmap_scan: at bit page                                   *)
(*    "flip"    bitmap_scan_and_flip: found cnt clear bits from page on    *)
(*    "init"    malloc: has got cnt pages from page on                     *)
(*    "take"    malloc: about to pop a block off the free list             *)
(*    "copied"  realloc: about to free the old block                       *)
(*    "f_lock"  free: at lock_acquire (&d->lock), with block               *)
(*    "fill"    palloc_free_multiple: about to overwrite the pages         *)
(*    "reset"   palloc_free_multiple: cnt bits from page on to be cleared  *)
(*    "panic"   an assertion has failed                                    *)
(* calloc is malloc; a size of 0 changes nothing in malloc and makes       *)
(* realloc free.                                                           *)
(***************************************************************************)
EXTENDS Integers, Sequences, FiniteSets, FiniteSetsExt

CONSTANTS
  Client,      \* the threads
  PageCnt,     \* pages of the kernel pool
  PGSIZE,
  ARENA,       \* sizeof (struct arena)
  MIN_BLOCK,   \* the smallest block size
  Size,        \* the sizes asked for
  MaxHeld,     \* bound: blocks in use at a time
  NONE

ASSUME MallocAssumption ==
  /\ {PageCnt, PGSIZE, ARENA, MIN_BLOCK} \cup Size \subseteq Nat \ {0}
  /\ ARENA + MIN_BLOCK <= PGSIZE

VARIABLES
  used_map,    \* the pages whose bit is set
  pool_lock,   \* the holder of the pool's lock, or NONE
  free_list,   \* free_list[d]: the addresses of the free blocks of size d
  desc_lock,   \* desc_lock[d]: the holder of the lock, or NONE
  arena,       \* arena[n]: the arena header in page n, or NONE
  held,        \* the blocks in use: address and size asked for
  call         \* call[t]: where t is, and its local variables

mallocVars == <<used_map, pool_lock, free_list, desc_lock, arena, held, call>>

Pages == 0..(PageCnt - 1)
PageOf(addr) == addr \div PGSIZE
PageRange(n, k) == n..(n + k - 1)

\* malloc_init: the block sizes of the descriptors, which also name them.
Desc == {d \in 1..PGSIZE : d < PGSIZE \div 2 /\ \E i \in 0..PGSIZE : d = MIN_BLOCK * 2 ^ i}
blocks_per_arena(d) == (PGSIZE - ARENA) \div d

Out == [at |-> "out", size |-> 0, old |-> NONE, desc |-> NONE, page |-> 0, cnt |-> 0,
        block |-> 0]

MallocInit ==
  /\ used_map = {} /\ pool_lock = NONE
  /\ free_list = [d \in Desc |-> <<>>]
  /\ desc_lock = [d \in Desc |-> NONE]
  /\ arena = [n \in Pages |-> NONE]
  /\ held = {}
  /\ call = [t \in Client |-> Out]

At(t, label) == call[t].at = label

\* lock_release (&d->lock), where the lock of a descriptor is held.
Unlocked(d) == IF d = NONE THEN desc_lock ELSE [desc_lock EXCEPT ![d] = NONE]

arena_to_block(n, d, i) == n * PGSIZE + ARENA + i * d
BlocksOf(n, d) == [i \in 1..blocks_per_arena(d) |-> arena_to_block(n, d, i - 1)]

\* The assertions of block_to_arena.
block_to_arena(addr) ==
  LET a == arena[PageOf(addr)]
  IN  /\ a # NONE
      /\ \/ a.desc # NONE /\ ((addr % PGSIZE) - ARENA) % a.desc = 0
         \/ a.desc = NONE /\ addr % PGSIZE = ARENA

-----------------------------------------------------------------------------
(* malloc and realloc.                                                      *)

\* malloc up to the first lock: the smallest descriptor that is large enough, or
\* whole pages.
Request(t, size, b) ==
  LET fitting == {d \in Desc : d >= size}
  IN  call' = [call EXCEPT ![t] =
        IF fitting # {}
          THEN [Out EXCEPT !.at = "lock", !.size = size, !.old = b,
                           !.desc = Min(fitting), !.cnt = 1]
          ELSE [Out EXCEPT !.at = "pool", !.size = size, !.old = b,
                           !.cnt = (size + ARENA + PGSIZE - 1) \div PGSIZE]]

malloc(t, size) ==
  /\ At(t, "out") /\ Cardinality(held) < MaxHeld
  /\ Request(t, size, NONE)
  /\ UNCHANGED <<used_map, pool_lock, free_list, desc_lock, arena, held>>

\* b is in use, and nobody is reallocating it.
Usable(b) == b \in held /\ \A u \in Client : call[u].old # b

realloc(t, b, size) ==
  /\ At(t, "out") /\ Usable(b) /\ Cardinality(held) < MaxHeld
  /\ Request(t, size, b)
  /\ UNCHANGED <<used_map, pool_lock, free_list, desc_lock, arena, held>>

malloc_lock(t) ==
  LET d == call[t].desc
  IN  /\ At(t, "lock") /\ desc_lock[d] = NONE
      /\ desc_lock' = [desc_lock EXCEPT ![d] = t]
      /\ call' = [call EXCEPT ![t].at = IF free_list[d] = <<>> THEN "pool" ELSE "take"]
      /\ UNCHANGED <<used_map, pool_lock, free_list, arena, held>>

\* The new block is the result; realloc copies the data and goes on.
Returned(t, addr) ==
  /\ held' = held \cup {[addr |-> addr, size |-> call[t].size]}
  /\ call' = [call EXCEPT ![t] =
                IF @.old = NONE THEN Out ELSE [Out EXCEPT !.at = "copied", !.old = call[t].old]]

\* A new arena, cut into blocks, or a big block.
malloc_init_arena(t) ==
  LET c == call[t]
  IN  /\ At(t, "init")
      /\ \/ /\ c.desc # NONE
            /\ arena' = [arena EXCEPT ![c.page] =
                           [desc |-> c.desc, free_cnt |-> blocks_per_arena(c.desc)]]
            /\ free_list' = [free_list EXCEPT ![c.desc] = @ \o BlocksOf(c.page, c.desc)]
            /\ call' = [call EXCEPT ![t].at = "take"]
            /\ UNCHANGED held
         \/ /\ c.desc = NONE
            /\ arena' = [arena EXCEPT ![c.page] = [desc |-> NONE, free_cnt |-> c.cnt]]
            /\ Returned(t, c.page * PGSIZE + ARENA)
            /\ UNCHANGED free_list
      /\ UNCHANGED <<used_map, pool_lock, desc_lock>>

malloc_take(t) ==
  LET d == call[t].desc
      b == Head(free_list[d])
  IN  /\ At(t, "take")
      /\ free_list' = [free_list EXCEPT ![d] = Tail(@)]
      /\ arena' = [arena EXCEPT ![PageOf(b)].free_cnt = @ - 1]
      /\ desc_lock' = Unlocked(d)
      /\ Returned(t, b)
      /\ UNCHANGED <<used_map, pool_lock>>

-----------------------------------------------------------------------------
(* palloc_get_multiple.                                                     *)

\* Mutant: the lock of the pool is not taken.
palloc_lock_not(t) ==
  /\ At(t, "pool")
  /\ call' = [call EXCEPT ![t].at = "scan", ![t].page = 0]
  /\ UNCHANGED <<used_map, pool_lock, free_list, desc_lock, arena, held>>

palloc_lock(t) ==
  /\ At(t, "pool") /\ pool_lock = NONE
  /\ pool_lock' = t
  /\ call' = [call EXCEPT ![t].at = "scan", ![t].page = 0]
  /\ UNCHANGED <<used_map, free_list, desc_lock, arena, held>>

\* bitmap_scan: one position after the other; malloc fails when there is none.
bitmap_scan(t) ==
  LET c == call[t]
  IN  /\ At(t, "scan")
      /\ \/ /\ c.page + c.cnt <= PageCnt
            /\ call' = IF PageRange(c.page, c.cnt) \cap used_map = {}
                         THEN [call EXCEPT ![t].at = "flip"]
                         ELSE [call EXCEPT ![t].page = @ + 1]
            /\ UNCHANGED <<pool_lock, desc_lock>>
         \/ /\ c.page + c.cnt > PageCnt
            /\ pool_lock' = NONE
            /\ desc_lock' = Unlocked(c.desc)
            /\ call' = [call EXCEPT ![t] = Out]
      /\ UNCHANGED <<used_map, free_list, arena, held>>

bitmap_flip(t) ==
  /\ At(t, "flip")
  /\ used_map' = used_map \cup PageRange(call[t].page, call[t].cnt)
  /\ pool_lock' = NONE
  /\ call' = [call EXCEPT ![t].at = "init"]
  /\ UNCHANGED <<free_list, desc_lock, arena, held>>

-----------------------------------------------------------------------------
(* free and palloc_free_multiple.                                           *)

\* free up to the lock of the descriptor, or to the pages of a big block.
Release(t, b) ==
  LET n == PageOf(b.addr)
  IN  /\ held' = held \ {b}
      /\ call' = [call EXCEPT ![t] =
           IF ~ block_to_arena(b.addr) THEN [Out EXCEPT !.at = "panic"]
           ELSE IF arena[n].desc # NONE
             THEN [Out EXCEPT !.at = "f_lock", !.desc = arena[n].desc, !.block = b.addr]
             ELSE [Out EXCEPT !.at = "fill", !.page = n, !.cnt = arena[n].free_cnt]]
      /\ UNCHANGED <<used_map, pool_lock, free_list, desc_lock, arena>>

free(t, b) == At(t, "out") /\ Usable(b) /\ Release(t, b)

realloc_free(t) == At(t, "copied") /\ Release(t, call[t].old)

\* Mutant: the test is never true.
Unused_over(n) == arena[n].free_cnt + 1 > blocks_per_arena(arena[n].desc)

\* The arena in page n is unused once one more block is free.
Unused(n) == arena[n].free_cnt + 1 >= blocks_per_arena(arena[n].desc)

\* The block joins the free list; an arena that is unused now leaves it.
free_block(t) ==
  LET d == call[t].desc
      n == PageOf(call[t].block)
      Kept(b) == Unused(n) => PageOf(b) # n
  IN  /\ At(t, "f_lock") /\ desc_lock[d] = NONE
      /\ arena' = [arena EXCEPT ![n].free_cnt = @ + 1]
      /\ free_list' = [free_list EXCEPT ![d] = SelectSeq(<<call[t].block>> \o @, Kept)]
      /\ desc_lock' = IF Unused(n) THEN [desc_lock EXCEPT ![d] = t] ELSE desc_lock
      /\ call' = [call EXCEPT ![t] =
           IF Unused(n) THEN [Out EXCEPT !.at = "fill", !.desc = d, !.page = n, !.cnt = 1]
                        ELSE Out]
      /\ UNCHANGED <<used_map, pool_lock, held>>

\* palloc_free_multiple fills the pages with 0xcc, the arena header included.
palloc_fill(t) ==
  LET pages == PageRange(call[t].page, call[t].cnt)
  IN  /\ At(t, "fill")
      /\ arena' = [n \in Pages |-> IF n \in pages THEN NONE ELSE arena[n]]
      /\ call' = [call EXCEPT ![t].at = IF pages \subseteq used_map THEN "reset" ELSE "panic"]
      /\ UNCHANGED <<used_map, pool_lock, free_list, desc_lock, held>>

palloc_reset(t) ==
  LET c == call[t]
  IN  /\ At(t, "reset")
      /\ used_map' = used_map \ {c.page}
      /\ IF c.cnt = 1
           THEN call' = [call EXCEPT ![t] = Out] /\ desc_lock' = Unlocked(c.desc)
           ELSE /\ call' = [call EXCEPT ![t].page = @ + 1, ![t].cnt = @ - 1]
                /\ UNCHANGED desc_lock
      /\ UNCHANGED <<pool_lock, free_list, arena, held>>

-----------------------------------------------------------------------------

MallocNext ==
  \E t \in Client :
    \/ \E s \in Size : malloc(t, s)
    \/ \E b \in held : free(t, b)
    \/ \E b \in held, s \in Size : realloc(t, b, s)
    \/ malloc_lock(t)
    \/ malloc_init_arena(t)
    \/ malloc_take(t)
    \/ palloc_lock(t)
    \/ bitmap_scan(t)
    \/ bitmap_flip(t)
    \/ realloc_free(t)
    \/ free_block(t)
    \/ palloc_fill(t)
    \/ palloc_reset(t)

MallocSpec == MallocInit /\ [][MallocNext]_mallocVars

-----------------------------------------------------------------------------
(* Properties.                                                              *)

\* The type of the state; no assertion has failed.
MallocTypeOK ==
  /\ used_map \subseteq Pages
  /\ pool_lock \in Client \cup {NONE}
  /\ desc_lock \in [Desc -> Client \cup {NONE}]
  /\ \A d \in Desc : free_list[d] \in Seq(0..(PageCnt * PGSIZE - 1))
  /\ \A n \in Pages : arena[n] # NONE => /\ arena[n].desc \in Desc \cup {NONE}
                                         /\ arena[n].free_cnt \in 0..PGSIZE
  /\ \A t \in Client : ~ At(t, "panic")

Bytes(addr, size) == addr..(addr + size - 1)
InUse(b) == Bytes(b.addr, b.size)

\* The pages that t has and that no arena stands for.
PagesOf(t) ==
  IF At(t, "init") \/ At(t, "reset") THEN PageRange(call[t].page, call[t].cnt) ELSE {}

\* The memory that malloc has given out belongs to its caller alone: it lies in
\* pages taken from the pool, apart from every other block in use, from the
\* headers of arenas, from the free blocks, whose first bytes link the free
\* lists, and from pages on their way to or from another caller; and no
\* assertion fails.
BlocksDisjoint ==
  /\ MallocTypeOK
  /\ \A b \in held :
       /\ \A x \in InUse(b) : PageOf(x) \in used_map
       /\ \A c \in held \ {b} : InUse(b) \cap InUse(c) = {}
       /\ \A n \in Pages : arena[n] # NONE => InUse(b) \cap Bytes(n * PGSIZE, ARENA) = {}
       /\ \A d \in Desc : \A i \in DOMAIN free_list[d] :
            InUse(b) \cap Bytes(free_list[d][i], d) = {}
       /\ \A t \in Client : \A x \in InUse(b) : PageOf(x) \notin PagesOf(t)

\* No memory is lost: a page whose bit is set has an arena or is on its way,
\* and while the lock of a descriptor is free, each block of its arenas is
\* free, in use or about to be freed, free_cnt counts the free ones, and at
\* least one is not.  What malloc pops off a free list passes the assertions of
\* block_to_arena.
MemoryAccounted ==
  /\ \A d \in Desc : \A i \in DOMAIN free_list[d] : block_to_arena(free_list[d][i])
  /\ used_map = (UNION {PageRange(n, IF arena[n].desc = NONE THEN arena[n].free_cnt ELSE 1) :
                          n \in {m \in Pages : arena[m] # NONE}})
                  \cup (UNION {PagesOf(t) : t \in Client})
  /\ \A d \in Desc : desc_lock[d] = NONE =>
       \A n \in {m \in Pages : arena[m] # NONE /\ arena[m].desc = d} :
         /\ arena[n].free_cnt =
              Cardinality({i \in DOMAIN free_list[d] : PageOf(free_list[d][i]) = n})
         /\ arena[n].free_cnt < blocks_per_arena(d)
         /\ blocks_per_arena(d) = arena[n].free_cnt
              + Cardinality({b \in held : PageOf(b.addr) = n})
              + Cardinality({t \in Client : At(t, "f_lock") /\ PageOf(call[t].block) = n})

=============================================================================
