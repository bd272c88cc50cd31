-------------------------------- MODULE Pages -------------------------------
(***************************************************************************)
(* The memory allocator of one core: struct page, cpu_pages and small_pool *)
(* (src/include/future/future_all11.hh).  Page numbers are offsets from    *)
(* memory; there is one small_pool, whose spans are one page.  Reclaimers  *)
(* are left out: what they give back they free like anybody else.          *)
(***************************************************************************)
EXTENDS Naturals, Sequences, FiniteSets

CONSTANTS Sizes,      \* nr_pages at first, and after do_resize
          PageStructs,  \* page structures that fit in one page
          Aligns,     \* alignments, in pages
          MaxLarge,   \* bound on the pages of one large allocation
          Slots,      \* objects in a page of the small_pool
          MaxFree     \* its _max_free

VARIABLES cpu,    \* cpu_pages: pages, free_spans, nr_pages, nr_free_pages
          array,  \* where the page structures are: first page and number
          pool,   \* small_pool: _free, and _span_list of pages
          held    \* what is allocated, with its true size in pages

pagesVars == <<cpu, array, pool, held>>

Last == Sizes[Len(Sizes)]
Page == 0 .. Last
Object == Page \X (1 .. Slots)
ArrayPages(n) == n \div PageStructs + 1

-----------------------------------------------------------------------------
(* Spans of free pages. *)

List == 0 .. Last    \* indices of free_spans that can be used

\* The largest i with n >= 2^i, and the smallest with n <= 2^i.
index_of(n) == CHOOSE i \in List : 2^i <= n /\ n < 2^(i + 1)
index_of_conservative(n) == IF n = 1 THEN 0 ELSE index_of(n - 1) + 1

\* page_list::erase
erase(list, p) ==
    IF \A i \in DOMAIN list : list[i] # p THEN list
    ELSE LET i == CHOOSE i \in DOMAIN list : list[i] = p
         IN SubSeq(list, 1, i - 1) \o SubSeq(list, i + 1, Len(list))

unlink(c, n, start) ==
    [c EXCEPT !.free_spans[index_of(n)] = erase(@, start),
              !.nr_free_pages = @ - n]

\* The first and the last page of a span have what is known of it.
Mark(c, start, n, free) ==
    [c EXCEPT !.pages = [p \in Page |-> IF p \in {start, start + n - 1}
                                        THEN [c.pages[p] EXCEPT !.free = free, !.span_size = n]
                                        ELSE c.pages[p]]]

free_span_no_merge(c, start, n) ==
    [Mark(c, start, n, TRUE) EXCEPT !.free_spans[index_of(n)] = <<start>> \o @,
                                    !.nr_free_pages = @ + n]

\* Fault: the size of the span before is looked up at the freed span.
free_span_WrongSize(c, start, n) ==
    LET before == IF c.pages[start - 1].free THEN c.pages[start].span_size ELSE 0
        after  == IF c.pages[start + n].free THEN c.pages[start + n].span_size ELSE 0
        merged == IF before = 0 THEN c ELSE unlink(c, before, start - before)
    IN free_span_no_merge(IF after = 0 THEN merged ELSE unlink(merged, after, start + n),
                          start - before, n + before + after)

free_span(c, start, n) ==
    LET before == IF c.pages[start - 1].free THEN c.pages[start - 1].span_size ELSE 0
        after  == IF c.pages[start + n].free THEN c.pages[start + n].span_size ELSE 0
        merged == IF before = 0 THEN c ELSE unlink(c, before, start - before)
    IN free_span_no_merge(IF after = 0 THEN merged ELSE unlink(merged, after, start + n),
                          start - before, n + before + after)

Least(S) == CHOOSE i \in S : \A j \in S : i <= j

\* find_and_unlink_span: a span of at least n pages, or 0.  Only without a
\* list whose spans are all large enough is one searched.
FindSpan(c, n) ==
    LET lists == {i \in List : i >= index_of_conservative(n) /\ c.free_spans[i] # << >>}
        rest  == c.free_spans[index_of(n)]
        fits  == {j \in DOMAIN rest : c.pages[rest[j]].span_size >= n}
    IN IF lists # {} THEN Head(c.free_spans[Least(lists)])
       ELSE IF fits # {} THEN rest[Least(fits)] ELSE 0

\* allocate_large_and_trim: n pages at a multiple of align, with the span
\* searched as large as that may take.  What is before and after goes back.
\* The page of the result is 0 when there is none.
Allocate(c, align, n) ==
    LET span   == IF n + align - 1 >= c.nr_pages THEN 0 ELSE FindSpan(c, n + align - 1)
        size   == c.pages[span].span_size
        offset == (align - (span % align)) % align
        taken  == unlink(c, size, span)
        front  == IF offset = 0 THEN taken ELSE free_span_no_merge(taken, span, offset)
        back   == IF n = size - offset THEN front
                  ELSE free_span_no_merge(front, span + offset + n, size - offset - n)
    IN IF span = 0 THEN [cpu |-> c, page |-> 0]
       ELSE [cpu |-> [Mark(back, span + offset, n, FALSE) EXCEPT !.pages[span + offset].pool = FALSE],
             page |-> span + offset]

-----------------------------------------------------------------------------
(* The small_pool. *)

Goal == (MaxFree \div 2 + MaxFree) \div 2
ObjectsOf(p) == {p} \X (1 .. Slots)

\* One turn of add_more_objects: takes the objects of the first span of
\* _span_list, or those of a new one.
MoreObjects(c, q) ==
    IF Cardinality(q.free) >= Goal THEN [cpu |-> c, pool |-> q]
    ELSE IF q.span_list # << >>
    THEN LET p == Head(q.span_list) IN
         [cpu  |-> [c EXCEPT !.pages[p].nr_small_alloc = @ + Cardinality(c.pages[p].freelist),
                             !.pages[p].freelist = {}],
          pool |-> [free |-> q.free \cup c.pages[p].freelist, span_list |-> Tail(q.span_list)]]
    ELSE LET more == Allocate(c, 1, 1)
             p == more.page
         IN IF p = 0 THEN [cpu |-> c, pool |-> q]
            ELSE [cpu  |-> [more.cpu EXCEPT !.pages[p].pool = TRUE, !.pages[p].freelist = {},
                                            !.pages[p].nr_small_alloc = Slots],
                  pool |-> [q EXCEPT !.free = @ \cup ObjectsOf(p)]]

\* add_more_objects: each turn brings at least one object, or none will.
AddMore(c, q) ==
    LET after[turn \in 0 .. Goal] ==
            IF turn = 0 THEN [cpu |-> c, pool |-> q]
            ELSE LET m == after[turn - 1] IN MoreObjects(m.cpu, m.pool)
    IN after[Goal]

\* Fault: the page stays in _span_list.
TrimObject_KeepsLink(c, q, o) ==
    LET p == o[1]
        linked == IF c.pages[p].freelist = {} THEN <<p>> \o q.span_list ELSE q.span_list
        back == [c EXCEPT !.pages[p].freelist = @ \cup {o}, !.pages[p].nr_small_alloc = @ - 1]
        rest == [free |-> q.free \ {o}, span_list |-> linked]
    IN IF back.pages[p].nr_small_alloc = 0
       THEN [cpu |-> free_span(back, p, back.pages[p].span_size), pool |-> rest]
       ELSE [cpu |-> back, pool |-> rest]

\* One object leaves _free in trim_free_list; with the last one of its page,
\* the page is freed.
TrimObject(c, q, o) ==
    LET p == o[1]
        linked == IF c.pages[p].freelist = {} THEN <<p>> \o q.span_list ELSE q.span_list
        back == [c EXCEPT !.pages[p].freelist = @ \cup {o}, !.pages[p].nr_small_alloc = @ - 1]
        rest == [free |-> q.free \ {o}, span_list |-> linked]
    IN IF back.pages[p].nr_small_alloc = 0
       THEN [cpu |-> free_span(back, p, back.pages[p].span_size),
             pool |-> [rest EXCEPT !.span_list = erase(@, p)]]
       ELSE [cpu |-> back, pool |-> rest]

\* trim_free_list; which objects are in front of _free is left open.
Trimmed(c, q) ==
    LET turns == IF Cardinality(q.free) <= Goal THEN 0 ELSE Cardinality(q.free) - Goal
        after[n \in 0 .. turns] ==
            IF n = 0 THEN {[cpu |-> c, pool |-> q]}
            ELSE UNION {{TrimObject(m.cpu, m.pool, o) : o \in m.pool.free} : m \in after[n - 1]}
    IN after[turns]

-----------------------------------------------------------------------------
EmptyPage == [free |-> FALSE, span_size |-> 0, pool |-> FALSE, freelist |-> {}, nr_small_alloc |-> 0]

\* initialize()
Init == /\ array = [first |-> 0, number |-> ArrayPages(Sizes[1])]
        /\ cpu = free_span_no_merge([pages |-> [p \in Page |-> EmptyPage],
                                     free_spans |-> [i \in List |-> << >>],
                                     nr_pages |-> Sizes[1], nr_free_pages |-> 0],
                                    array.number, Sizes[1] - array.number)
        /\ pool = [free |-> {}, span_list |-> << >>]
        /\ held = {}

\* allocate_large, allocate_large_aligned
AllocateLarge(align, n) ==
    \E got \in {Allocate(cpu, align, n)} :
       /\ got.page # 0
       /\ cpu' = got.cpu
       /\ held' = held \cup {[at |-> got.page, slot |-> 0, pages |-> n]}
       /\ UNCHANGED <<array, pool>>

\* small_pool::allocate
AllocateSmall ==
    \E m \in {IF pool.free = {} THEN AddMore(cpu, pool) ELSE [cpu |-> cpu, pool |-> pool]} :
       /\ cpu' = m.cpu
       /\ \E o \in m.pool.free :
             /\ pool' = [m.pool EXCEPT !.free = @ \ {o}]
             /\ held' = held \cup {[at |-> o[1], slot |-> o[2], pages |-> 0]}
       /\ UNCHANGED array

\* free(): small or large is what the first page of the pointer says.
Free(h) ==
    /\ held' = held \ {h}
    /\ UNCHANGED array
    /\ IF cpu.pages[h.at].pool
       THEN \E q \in {[pool EXCEPT !.free = @ \cup {<<h.at, h.slot>>}]} :
            \E t \in IF Cardinality(q.free) >= MaxFree THEN Trimmed(cpu, q) ELSE {[cpu |-> cpu, pool |-> q]} :
               cpu' = t.cpu /\ pool' = t.pool
       ELSE cpu' = free_span(cpu, h.at, cpu.pages[h.at].span_size) /\ UNCHANGED pool

\* shrink() to n pages.
Shrink(h, n) ==
    /\ ~cpu.pages[h.at].pool
    /\ n < cpu.pages[h.at].span_size
    /\ cpu' = free_span([cpu EXCEPT !.pages[h.at].span_size = n,
                                    !.pages[h.at + n - 1].free = FALSE,
                                    !.pages[h.at + n - 1].span_size = n],
                        h.at + n, cpu.pages[h.at].span_size - n)
    /\ held' = (held \ {h}) \cup {[h EXCEPT !.pages = n]}
    /\ UNCHANGED <<array, pool>>

\* do_resize: the page structures move to an array that is allocated from
\* the memory they describe; page 0 is never freed.
DoResize ==
    /\ cpu.nr_pages = Sizes[1] /\ Last > Sizes[1]
    /\ \E got \in {Allocate(cpu, 1, ArrayPages(Last))} :
          /\ got.page # 0
          /\ LET freed == free_span([got.cpu EXCEPT !.nr_pages = Last], 1, array.number - 1)
             IN cpu' = free_span(freed, Sizes[1], Last - Sizes[1])
          /\ array' = [first |-> got.page, number |-> ArrayPages(Last)]
    /\ UNCHANGED <<pool, held>>

-----------------------------------------------------------------------------
TypeOK == /\ cpu.pages \in [Page -> [free : BOOLEAN, span_size : 0 .. Last, pool : BOOLEAN,
                                     freelist : SUBSET Object, nr_small_alloc : 0 .. Slots]]
          /\ cpu.free_spans \in [List -> Seq(Page)]
          /\ cpu.nr_pages \in {Sizes[i] : i \in DOMAIN Sizes}
          /\ cpu.nr_free_pages \in 0 .. Last
          /\ pool.free \subseteq Object
          /\ pool.span_list \in Seq(Page)

FreeStarts == UNION {{cpu.free_spans[i][j] : j \in DOMAIN cpu.free_spans[i]} : i \in List}
Large == {h \in held : h.slot = 0}
PoolPages == {o[1] : o \in pool.free} \cup {h.at : h \in held \ Large}
             \cup {pool.span_list[i] : i \in DOMAIN pool.span_list}

\* How often a page is in a free span, allocated, or part of the allocator.
Uses(p) == Cardinality({s \in FreeStarts : s <= p /\ p < s + cpu.pages[s].span_size})
           + Cardinality({h \in Large : h.at <= p /\ p < h.at + h.pages})
           + (IF p \in PoolPages THEN 1 ELSE 0)
           + (IF p = 0 \/ (array.first <= p /\ p < array.first + array.number) THEN 1 ELSE 0)

\* Whatever is allocated, aligned, shrunk, freed and resized in whatever
\* order, and although only the ends of a span are kept up to date, every
\* page of the memory is in exactly one use; a free span is in the list of
\* its size and known at both ends, next to no other free span, and the free
\* pages are counted.
SpansTile ==
    /\ \A p \in 0 .. cpu.nr_pages - 1 : Uses(p) = 1
    /\ \A i \in List : \A j \in DOMAIN cpu.free_spans[i] :
          LET s == cpu.free_spans[i][j]
              n == cpu.pages[s].span_size
          IN /\ n > 0 /\ index_of(n) = i
             /\ cpu.pages[s].free /\ cpu.pages[s + n - 1].free
             /\ cpu.pages[s + n - 1].span_size = n
             /\ ~cpu.pages[s - 1].free /\ ~cpu.pages[s + n].free
    /\ \A h \in Large : cpu.pages[h.at].span_size = h.pages
    /\ cpu.nr_free_pages = Cardinality({p \in Page : \E s \in FreeStarts :
                                           s <= p /\ p < s + cpu.pages[s].span_size})

\* Every object of a page of the pool is held, in _free, or in the list of
\* its page, once; the page counts those that are not in its own list, is
\* in _span_list (once) as long as its list has objects, and is given back
\* when the last object is there.
ObjectsAccounted ==
    LET small == {<<h.at, h.slot>> : h \in held \ Large} IN
    /\ small \cap pool.free = {}
    /\ \A p \in PoolPages :
          LET out == ObjectsOf(p) \cap (small \cup pool.free) IN
          /\ cpu.pages[p].freelist = ObjectsOf(p) \ out
          /\ cpu.pages[p].nr_small_alloc = Cardinality(out) /\ out # {}
          /\ Cardinality({i \in DOMAIN pool.span_list : pool.span_list[i] = p})
                = IF cpu.pages[p].freelist = {} THEN 0 ELSE 1
    /\ \/ Cardinality(pool.free) < MaxFree
       \/ Cardinality(pool.free) < Goal + Slots - 1
=============================================================================
