--------------------------- MODULE BuddyAllocator --------------------------
(***************************************************************************)
(* cppcms::impl::buddy_allocator (private/buddy_allocator.h), which serves *)
(* the shared memory of the cache of pre-forked processes.                 *)
(*                                                                         *)
(* The unit is the smallest page (2 * alignment bytes); a page of level b  *)
(* has 2^b units.  head keeps the word that page::bits would be at every   *)
(* unit: where no page starts it is what was left there, or what the owner *)
(* of the memory wrote.  A free list is the sequence of its pages.         *)
(*                                                                         *)
(* shmem_control calls malloc() and free() under its mutex.                *)
(***************************************************************************)
EXTENDS Integers, SequencesExt

CONSTANTS memory_size_,     \* usable memory in units
          alignment         \* bytes, half of a unit

MaxLevel == CHOOSE b \in 0..memory_size_ : 2^b <= memory_size_ /\ memory_size_ < 2^(b + 1)
Levels   == 0..MaxLevel
Units    == 0..(memory_size_ - 1)

page_in_use == 256          \* 0x100
InUse(b)    == b + page_in_use

VARIABLES
    free_list_,     \* level -> sequence of positions of free pages
    head,           \* unit -> page::bits there
    owned           \* pages malloc() gave away: set of [at, level]

vars == <<free_list_, head, owned>>

\* The chunks of the constructor: one for every binary digit of the size.
HasChunk(b) == (memory_size_ \div 2^b) % 2 = 1
ChunkAt(b)  == (memory_size_ \div 2^(b + 1)) * 2^(b + 1)

Init == /\ free_list_ = [b \in Levels |-> IF HasChunk(b) THEN <<ChunkAt(b)>> ELSE <<>>]
        /\ head = [u \in Units |->
                      IF \E b \in Levels : HasChunk(b) /\ ChunkAt(b) = u
                      THEN CHOOSE b \in Levels : HasChunk(b) /\ ChunkAt(b) = u
                      ELSE 0]
        /\ owned = {}
-----------------------------------------------------------------------------
\* The level of a page of at least n bytes; MaxLevel + 1 for more than there is
get_bits(n) == Min({b \in Levels : 2 * alignment * 2^b >= n} \cup {MaxLevel + 1})

\* malloc() makes room for the header and rounds up to the alignment.
Level(required_size) ==
    get_bits(((required_size + alignment - 1) \div alignment + 1) * alignment)

MaxRequest == 2 * alignment * memory_size_

\* page_alloc(): takes the first page of the first level that has one, and
\* splits it down; every level it passes had no page and keeps the upper half.
CanAlloc(bits) == \E b \in bits..MaxLevel : free_list_[b] # <<>>
SplitLevel(bits) == Min({b \in bits..MaxLevel : free_list_[b] # <<>>})

malloc(required_size) ==
    LET bits == Level(required_size)
        top  == SplitLevel(bits)
        at   == Head(free_list_[top])
    IN  /\ CanAlloc(bits)
        /\ free_list_' = [b \in Levels |->
               IF b = top THEN Tail(free_list_[b])
               ELSE IF b \in bits..(top - 1) THEN <<at + 2^b>>
               ELSE free_list_[b]]
        /\ head' = [u \in Units |->
               IF u = at THEN InUse(bits)
               ELSE IF \E b \in bits..(top - 1) : u = at + 2^b
               THEN CHOOSE b \in bits..(top - 1) : u = at + 2^b
               ELSE head[u]]
        /\ owned' = owned \cup {[at |-> at, level |-> bits]}

\* get_buddy(): the position of the other half (an exclusive or), if all of it
\* is inside the memory
BuddyAt(at, b) == IF (at \div 2^b) % 2 = 0 THEN at + 2^b ELSE at - 2^b

HasBuddy(at, b) == BuddyAt(at, b) + 2^b <= memory_size_

\* free_page(): the page is joined with its buddy as long as the word there
\* says that it is a free page of the same level.
Joined(at, b) == (at \div 2^b) * 2^b            \* the page at level b that begins there

Joins_AnyFree(at, b) == /\ HasBuddy(Joined(at, b), b)
                        /\ head[BuddyAt(Joined(at, b), b)] < page_in_use

Joins(at, b) == HasBuddy(Joined(at, b), b) /\ head[BuddyAt(Joined(at, b), b)] = b

free(p) ==
    LET top == Min({b \in p.level..(MaxLevel + 1) : ~Joins(p.at, b)})
        At(b) == Joined(p.at, b)
    IN  /\ p \in owned
        /\ free_list_' = [b \in Levels |->
               IF b \in p.level..(top - 1) THEN Remove(free_list_[b], BuddyAt(At(b), b))
               ELSE IF b = top THEN <<At(b)>> \o free_list_[b]
               ELSE free_list_[b]]
        /\ head' = [u \in Units |->
               IF \E b \in p.level..top : u = At(b)
               THEN Max({b \in p.level..top : u = At(b)})
               ELSE head[u]]
        /\ owned' = owned \ {p}

\* The owner of a page writes anything into it, behind the header.
Scribble(p, word) ==
    /\ p \in owned
    /\ head' = [u \in Units |-> IF u \in (p.at + 1)..(p.at + 2^p.level - 1) THEN word ELSE head[u]]
    /\ UNCHANGED <<free_list_, owned>>

Next == \/ \E required_size \in 1..MaxRequest : malloc(required_size)
        \/ \E p \in owned : free(p)
        \/ \E p \in owned, word \in Levels : Scribble(p, word)

Spec == Init /\ [][Next]_vars
-----------------------------------------------------------------------------
(* Properties *)

Free == UNION {{[at |-> free_list_[b][i], level |-> b] : i \in DOMAIN free_list_[b]}
                  : b \in Levels}

Extent(p) == p.at..(p.at + 2^p.level - 1)

\* Free and owned pages cover the memory, and no two pages, owned or free, have
\* a unit in common: nobody's memory is given away twice and none is lost.
Tiling ==
    /\ \A u \in Units : \E p \in Free \cup owned : u \in Extent(p)
    /\ \A p, q \in Free \cup owned : p # q => Extent(p) \cap Extent(q) = {}
    /\ Free \cap owned = {}
    /\ \A b \in Levels : IsInjective(free_list_[b])

\* Every page has its header, whatever the owners write, and two free halves of
\* a page are never left apart: the word that free_page() reads at the buddy is
\* the header of a page.
Coalesced ==
    /\ \A p \in Free : head[p.at] = p.level
    /\ \A p \in owned : head[p.at] = InUse(p.level)
    /\ \A p \in Free \cup owned : HasBuddy(p.at, p.level) =>
          \E q \in Free \cup owned : /\ q.at = BuddyAt(p.at, p.level)
                                     /\ q.level <= p.level
                                     /\ p \in Free /\ q \in Free => q.level < p.level
=============================================================================
