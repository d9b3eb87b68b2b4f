------------------------------ MODULE MemoryPool ------------------------------
(***************************************************************************)
(* DS_MemoryPool.h: pages of blocks of one size, in two circular lists, of *)
(* the pages that have a block to give and of those that have none.  A     *)
(* page that is no longer in a list is freed.                              *)
(***************************************************************************)
EXTENDS Integers, Sequences, FiniteSets

CONSTANTS
  Pages,            \* names for the pages the system can give at one time
  PageSizes,        \* the numbers of blocks per page that SetPageSize can ask
  DS_MEMORY_POOL_MAX_FREE_PAGES,  \* 4 in the code, which wants more than 1
  NoPage

VARIABLES
  availableStack,    \* of an allocated page, its free blocks
  blocks,            \* of an allocated page, how many it was made with
  next, prev,        \* of an allocated page
  availablePages, unavailablePages,
  availablePagesSize, unavailablePagesSize,
  blocksPerPage,     \* what memoryPoolPageSize makes of it
  inUse              \* the blocks the user has, <<page, number>>

page == <<availableStack, blocks, next, prev>>
lists == <<availablePages, unavailablePages, availablePagesSize,
           unavailablePagesSize>>
vars == <<page, lists, blocksPerPage, inUse>>

Allocated == DOMAIN blocks

BlockNumbers == 1 .. CHOOSE n \in PageSizes : \A m \in PageSizes : m <= n

TypeOK ==
  /\ Allocated \in SUBSET Pages
  /\ availableStack \in [Allocated -> Seq(BlockNumbers)]
  /\ blocks \in [Allocated -> PageSizes]
  /\ next \in [Allocated -> Allocated] /\ prev \in [Allocated -> Allocated]
  /\ availablePages \in Pages \cup {NoPage}
  /\ unavailablePages \in Pages \cup {NoPage}
  /\ availablePagesSize \in 0 .. Cardinality(Pages)
  /\ unavailablePagesSize \in 0 .. Cardinality(Pages)
  /\ blocksPerPage \in PageSizes
  /\ inUse \in SUBSET (Pages \X BlockNumbers)

Nothing == [p \in {} |-> NoPage]

Init ==
  /\ availableStack = Nothing /\ blocks = Nothing
  /\ next = Nothing /\ prev = Nothing
  /\ availablePages = NoPage /\ unavailablePages = NoPage
  /\ availablePagesSize = 0 /\ unavailablePagesSize = 0
  /\ blocksPerPage \in PageSizes
  /\ inUse = {}

-------------------------------------------------------------------------------

Extended(f, p, value) ==
  [x \in DOMAIN f \cup {p} |-> IF x = p THEN value ELSE f[x]]

\* Slip: only one of the two neighbours is told.
HalfUnlinked(p) == [next |-> next, prev |-> [prev EXCEPT ![next[p]] = prev[p]]]

\* The links of all pages when p is taken out of its list.
Unlinked(p) ==
  [next |-> [next EXCEPT ![prev[p]] = next[p]],
   prev |-> [prev EXCEPT ![next[p]] = prev[p]]]

\* The links when p comes to the end of the list that starts with head.
Linked(links, p, head, size) ==
  IF size = 0
    THEN [next |-> [links.next EXCEPT ![p] = p],
          prev |-> [links.prev EXCEPT ![p] = p]]
    ELSE LET last == links.prev[head]
         IN [next |-> [links.next EXCEPT ![p] = head, ![last] = p],
             prev |-> [links.prev EXCEPT ![p] = last, ![head] = p]]

\* Slip: the block at the bottom.
Bottom(p) == availableStack[p][1]

Top(p) == availableStack[p][Len(availableStack[p])]

\* A block of the first page that has one.  When it was its last the page moves
\* to the end of the other list.
Allocate ==
  LET p == availablePages
      links == Linked(Unlinked(p), p, unavailablePages, unavailablePagesSize)
  IN
  /\ availablePagesSize > 0
  /\ availableStack[p] # <<>>
  /\ inUse' = inUse \cup {<<p, Top(p)>>}
  /\ availableStack' =
       [availableStack EXCEPT ![p] = SubSeq(@, 1, Len(@) - 1)]
  /\ IF Len(availableStack[p]) = 1
       THEN /\ availablePages' = next[p]
            /\ availablePagesSize' = availablePagesSize - 1
            /\ unavailablePages' =
                 IF unavailablePagesSize = 0 THEN p ELSE unavailablePages
            /\ unavailablePagesSize' = unavailablePagesSize + 1
            /\ next' = links.next /\ prev' = links.prev
       ELSE UNCHANGED <<lists, next, prev>>
  /\ UNCHANGED <<blocks, blocksPerPage>>

\* No page has a block: there is a new one, and its last block is taken.  The
\* system has the memory.
AllocatePage(p) ==
  /\ availablePagesSize = 0
  /\ p \in Pages \ Allocated
  /\ blocks' = Extended(blocks, p, blocksPerPage)
  /\ next' = Extended(next, p, p)
  /\ prev' = Extended(prev, p, p)
  /\ availablePages' = p
  /\ availablePagesSize' = 1
  /\ availableStack' =
       Extended(availableStack, p, [i \in 1 .. blocksPerPage - 1 |-> i])
  /\ inUse' = inUse \cup {<<p, blocksPerPage>>}
  /\ UNCHANGED <<unavailablePages, unavailablePagesSize, blocksPerPage>>

\* The first block of a page without any: the page moves to the end of the
\* available ones.
ReleaseToFull(p, b) ==
  LET links == Linked(Unlinked(p), p, availablePages, availablePagesSize)
  IN
  /\ <<p, b>> \in inUse
  /\ availableStack[p] = <<>>
  /\ inUse' = inUse \ {<<p, b>>}
  /\ availableStack' = [availableStack EXCEPT ![p] = <<b>>]
  /\ unavailablePagesSize' = unavailablePagesSize - 1
  /\ unavailablePages' =
       IF unavailablePagesSize > 1 /\ p = unavailablePages
         THEN next[p] ELSE unavailablePages
  /\ availablePages' = IF availablePagesSize = 0 THEN p ELSE availablePages
  /\ availablePagesSize' = availablePagesSize + 1
  /\ next' = links.next /\ prev' = links.prev
  /\ UNCHANGED <<blocks, blocksPerPage>>

\* Slip: one page more is kept.
EnoughPagesOffByOne == availablePagesSize > DS_MEMORY_POOL_MAX_FREE_PAGES

EnoughPages == availablePagesSize >= DS_MEMORY_POOL_MAX_FREE_PAGES

Without(f, p) == [x \in DOMAIN f \ {p} |-> f[x]]

\* Slip: the neighbours are not told.
LinksOfTheOthers(p) == [next |-> Without(next, p), prev |-> Without(prev, p)]

LinksWithout(p) ==
  [next |-> Without(Unlinked(p).next, p), prev |-> Without(Unlinked(p).prev, p)]

\* With one block more p has all of them.
Complete(p) == Len(availableStack[p]) + 1 = blocksPerPage

AvailablePagesWithout(p) ==
  IF p = availablePages THEN next[p] ELSE availablePages

\* Another block of a page.  A page with all its blocks is freed, if there are
\* pages enough.
Release(p, b) ==
  /\ <<p, b>> \in inUse
  /\ availableStack[p] # <<>>
  /\ inUse' = inUse \ {<<p, b>>}
  /\ IF Complete(p) /\ EnoughPages
       THEN /\ availablePages' = AvailablePagesWithout(p)
            /\ availablePagesSize' = availablePagesSize - 1
            /\ next' = LinksWithout(p).next
            /\ prev' = LinksWithout(p).prev
            /\ availableStack' = Without(availableStack, p)
            /\ blocks' = Without(blocks, p)
       ELSE /\ availableStack' = [availableStack EXCEPT ![p] = Append(@, b)]
            /\ UNCHANGED <<availablePages, availablePagesSize, next, prev,
                           blocks>>
  /\ UNCHANGED <<unavailablePages, unavailablePagesSize, blocksPerPage>>

\* Complete compares with this size: the program sets it before the first block.
SetPageSize(n) ==
  /\ Allocated = {}
  /\ blocksPerPage' = n
  /\ UNCHANGED <<page, lists, inUse>>

\* All pages are freed.  The program clears a pool whose blocks it has released.
Clear ==
  /\ inUse = {}
  /\ availableStack' = Nothing /\ blocks' = Nothing
  /\ next' = Nothing /\ prev' = Nothing
  /\ availablePagesSize' = 0 /\ unavailablePagesSize' = 0
  /\ UNCHANGED <<availablePages, unavailablePages, blocksPerPage, inUse>>

-------------------------------------------------------------------------------
(* Properties.                                                             *)

\* The pages that a list leads to, from its head along next.
Along(p, n) ==
  LET walk[i \in 1 .. n] == IF i = 1 THEN p ELSE next[walk[i - 1]]
  IN {walk[i] : i \in 1 .. n}

\* However pages move, each list leads to the pages it counts, and a page is in
\* the list it belongs to (DS_MemoryPool.h:69-71, 112-135, 165-211).
PagesFiled ==
  /\ Along(availablePages, availablePagesSize)
       = {p \in Allocated : availableStack[p] # <<>>}
  /\ Along(unavailablePages, unavailablePagesSize)
       = {p \in Allocated : availableStack[p] = <<>>}
  /\ availablePagesSize + unavailablePagesSize = Cardinality(Allocated)
  /\ \A p \in Allocated : prev[next[p]] = p

\* A block is the user's or the pool's, once (lines 113, 168, 194).
BlocksOnce ==
  \A p \in Allocated :
    LET stack == availableStack[p]
        free == {stack[i] : i \in 1 .. Len(stack)}
    IN /\ Cardinality(free) = Len(stack)
       /\ free \cap {b \in BlockNumbers : <<p, b>> \in inUse} = {}
       /\ free \cup {b \in BlockNumbers : <<p, b>> \in inUse} = 1 .. blocks[p]

\* "After a certain point, just deallocate empty pages" (line 199): a page that
\* is freed has none of its blocks with the user.
FreedPagesAreEmpty == \A u \in inUse : u[1] \in Allocated

\* "just deallocate empty pages rather than keep them around" (line 199).
FewEmptyPages ==
  Cardinality({p \in Allocated : Len(availableStack[p]) = blocks[p]})
    < DS_MEMORY_POOL_MAX_FREE_PAGES

\* The pages are where they should be, and none is freed or kept in vain: the four
\* above.
PagesKept == PagesFiled /\ BlocksOnce /\ FreedPagesAreEmpty /\ FewEmptyPages

===============================================================================
