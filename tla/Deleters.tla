------------------------------ MODULE Deleters ------------------------------
(***************************************************************************)
(* class deleter: owners of actions (an object to free, a function to      *)
(* call) that can be shared and appended to each other                     *)
(* (src/include/future/future_all11.hh).                                   *)
(***************************************************************************)
EXTENDS Naturals, Sequences, FiniteSets, Functions

CONSTANTS Holder,    \* the deleter objects of the user
          Impl,      \* addresses of deleter::impl
          Resource,  \* what the actions release
          Null

VARIABLES holder,    \* _impl of each deleter; a resource is a tagged raw object
          impl,      \* the objects at the addresses
          dropping,  \* the pointers whose deleters are being destroyed, in order
          released,  \* how often each action was carried out
          covers     \* history: the actions each deleter stands for

deleterVars == <<holder, impl, dropping, released, covers>>

Pointer == Impl \cup Resource \cup {Null}

\* own is the member del, obj or (of an object_deleter_impl) a deleter.
Free == [refs |-> 0, own |-> Null, next |-> Null]

Init == /\ holder = [h \in Holder |-> Null]
        /\ impl = [n \in Impl |-> Free]
        /\ dropping = << >>
        /\ released = [r \in Resource |-> 0]
        /\ covers = [h \in Holder |-> {}]

Allocatable == {n \in Impl : impl[n].refs = 0}
Unused == {r \in Resource : released[r] = 0 /\ \A h \in Holder : r \notin covers[h]}

\* The user's code runs between destructions.
UserCode == dropping = << >>
Empty(h) == holder[h] = Null

-----------------------------------------------------------------------------
\* make_free_deleter(obj)
MakeFree(h, r) ==
    /\ UserCode /\ Empty(h)
    /\ r \in Unused
    /\ holder' = [holder EXCEPT ![h] = r]
    /\ covers' = [covers EXCEPT ![h] = {r}]
    /\ UNCHANGED <<impl, dropping, released>>

\* h = make_deleter(std::move(d), o), where d may be h or empty.
Make(h, d, r) ==
    /\ UserCode
    /\ Empty(h) \/ h = d
    /\ r \in Unused /\ Allocatable # {}
    /\ LET n == CHOOSE n \in Allocatable : TRUE IN
          /\ impl' = [impl EXCEPT ![n] = [refs |-> 1, own |-> r, next |-> holder[d]]]
          /\ holder' = [holder EXCEPT ![d] = Null, ![h] = n]
    /\ covers' = [covers EXCEPT ![d] = {}, ![h] = covers[d] \cup {r}]
    /\ UNCHANGED <<dropping, released>>

\* g = h.share(); a raw object gets an impl first.
Share(h, g) ==
    /\ UserCode /\ ~Empty(h) /\ Empty(g)
    /\ holder[h] \in Resource => Allocatable # {}
    /\ LET raw == holder[h] \in Resource
           n == IF raw THEN CHOOSE n \in Allocatable : TRUE ELSE holder[h]
       IN /\ impl' = [impl EXCEPT ![n] =
                        IF raw THEN [refs |-> 2, own |-> holder[h], next |-> Null]
                        ELSE [impl[n] EXCEPT !.refs = @ + 1]]
          /\ holder' = [holder EXCEPT ![h] = n, ![g] = n]
    /\ covers' = [covers EXCEPT ![g] = covers[h]]
    /\ UNCHANGED <<dropping, released>>

\* The chain of a deleter: its pointer, its next, and so on.
After(p) == IF p \in Impl THEN impl[p].next ELSE Null
Chain(p) ==
    LET chain[q \in Pointer] == IF q = Null THEN {} ELSE {q} \cup chain[After(q)]
    IN chain[p]

\* Fault: a shared impl is appended to.
Owned_Shared(p) == p \in Impl

\* What append() leaves alone: the impls of which this chain is the owner.
Owned(p) == p \in Impl /\ impl[p].refs = 1

\* h.append(std::move(d)).  A raw object gets an impl, a shared impl is put
\* into one of its own that takes over its next, and d comes last: Link(p) is
\* what takes the place of p, Was(n) the pointer of which n takes the place.
\* An impl of the chain is not appended to it again (an assertion).
append(h, d) ==
    LET chain == Chain(holder[h])
        wrapped == {p \in chain : ~Owned(p)}
        new == CHOOSE f \in Injection(wrapped, Allocatable) : TRUE
        Link(p) == IF p = Null THEN holder[d] ELSE IF p \in wrapped THEN new[p] ELSE p
        Was(n) == CHOOSE p \in chain : Link(p) = n
    IN /\ UserCode /\ h # d /\ ~Empty(d)
       /\ holder[d] \notin chain
       /\ Cardinality(wrapped) <= Cardinality(Allocatable)
       /\ impl' = [n \in Impl |->
             IF \E p \in chain : Link(p) = n
             THEN [refs |-> 1, next |-> Link(After(Was(n))),
                   own |-> IF Was(n) \in wrapped THEN Was(n) ELSE impl[n].own]
             ELSE IF n \in chain THEN [impl[n] EXCEPT !.next = Null]
             ELSE impl[n]]
       /\ holder' = [holder EXCEPT ![d] = Null, ![h] = Link(holder[h])]
       /\ covers' = [covers EXCEPT ![d] = {}, ![h] = @ \cup covers[d]]
       /\ UNCHANGED <<dropping, released>>

\* ~deleter, and operator= from h (empty or not) to g.
Destroy(h) ==
    /\ UserCode /\ ~Empty(h)
    /\ dropping' = <<holder[h]>>
    /\ holder' = [holder EXCEPT ![h] = Null]
    /\ covers' = [covers EXCEPT ![h] = {}]
    /\ UNCHANGED <<impl, released>>

Assign(g, h) ==
    /\ UserCode /\ g # h /\ ~Empty(g)
    /\ dropping' = <<holder[g]>>
    /\ holder' = [holder EXCEPT ![g] = holder[h], ![h] = Null]
    /\ covers' = [covers EXCEPT ![g] = covers[h], ![h] = {}]
    /\ UNCHANGED <<impl, released>>

\* One destructor of a deleter: a raw object is freed, an impl that nobody
\* refers to any more is deleted, which carries out its action (or destroys
\* the deleter it holds) and then destroys next.
Drop ==
    /\ dropping # << >>
    /\ LET p == Head(dropping) IN
          /\ released' = IF p \in Resource THEN [released EXCEPT ![p] = @ + 1] ELSE released
          /\ IF p \in Impl /\ impl[p].refs = 1
             THEN /\ dropping' = <<impl[p].own, impl[p].next>> \o Tail(dropping)
                  /\ impl' = [impl EXCEPT ![p] = Free]
             ELSE /\ dropping' = Tail(dropping)
                  /\ impl' = IF p \in Impl THEN [impl EXCEPT ![p].refs = @ - 1] ELSE impl
    /\ UNCHANGED <<holder, covers>>

-----------------------------------------------------------------------------
TypeOK == /\ holder \in [Holder -> Pointer]
          /\ impl \in [Impl -> [refs : Nat, own : Pointer, next : Pointer]]
          /\ dropping \in Seq(Pointer)
          /\ released \in [Resource -> Nat]
          /\ covers \in [Holder -> SUBSET Resource]

PointersTo(p) == Cardinality({h \in Holder : holder[h] = p})
                 + Cardinality({n \in Impl : impl[n].own = p})
                 + Cardinality({n \in Impl : impl[n].next = p})
                 + Cardinality({i \in DOMAIN dropping : dropping[i] = p})

\* After any sequence of share, append, assignment and destruction: the count
\* of an impl is the number of pointers to it, none points to a deleted one,
\* an action is carried out at most once and not while it can be reached, and
\* once the last deleter that stands for it is gone it has been.
DeletedOnce ==
    /\ \A n \in Impl : impl[n].refs = PointersTo(n)
    /\ \A r \in Resource : released[r] + PointersTo(r) <= 1
    /\ UserCode => \A r \in Resource : PointersTo(r) = 1 => \E h \in Holder : r \in covers[h]

\* "The encapsulated action will only be carried out after both the original
\* deleter and the returned deleter are both destroyed" (HH 549): no deleter
\* stands for an action that was carried out.
SharersAwaited == \A h \in Holder : \A r \in covers[h] : released[r] = 0
=============================================================================
