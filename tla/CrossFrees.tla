----------------------------- MODULE CrossFrees -----------------------------
(***************************************************************************)
(* Objects of one core that other cores free: cpu_pages::free_cross_cpu    *)
(* and drain_cross_cpu_freelist (src/include/future/future_all11.hh).  The *)
(* list is linked through the objects themselves.                          *)
(***************************************************************************)
EXTENDS Naturals, FiniteSets

CONSTANTS Core,     \* the other cores
          Memory,   \* objects of the core
          Null

VARIABLES object,   \* whether each object is free, allocated or in the list
          link,     \* its next pointer
          xcpu_freelist,
          freeing,  \* the object a core pushes, and the old it will compare with
          drained,  \* p in drain_cross_cpu_freelist
          live      \* live_cpus of the core

crossVars == <<object, link, xcpu_freelist, freeing, drained, live>>

Idle == [p |-> Null, old |-> Null]

Init == /\ object = [o \in Memory |-> "free"]
        /\ link = [o \in Memory |-> Null]
        /\ xcpu_freelist = Null
        /\ freeing = [c \in Core |-> Idle]
        /\ drained = Null
        /\ live = TRUE

\* allocate(): its memory is given to somebody, who may overwrite next.
Allocate(o) ==
    /\ live /\ object[o] = "free"
    /\ object' = [object EXCEPT ![o] = "allocated"]
    /\ link' = [link EXCEPT ![o] = Null]
    /\ UNCHANGED <<xcpu_freelist, freeing, drained, live>>

\* free_cross_cpu on another core, up to the load of the list; the objects
\* of a core that has ended are leaked.
FreeCross(c, o) ==
    /\ freeing[c] = Idle /\ object[o] = "allocated"
    /\ IF live
       THEN /\ object' = [object EXCEPT ![o] = "listed"]
            /\ freeing' = [freeing EXCEPT ![c] = [p |-> o, old |-> xcpu_freelist]]
       ELSE object' = [object EXCEPT ![o] = "leaked"] /\ UNCHANGED freeing
    /\ UNCHANGED <<link, xcpu_freelist, drained, live>>

\* Fault: next still says what the first load found.
CompareExchange_NextOnce(c) ==
    /\ freeing[c] # Idle
    /\ IF xcpu_freelist = freeing[c].old
       THEN xcpu_freelist' = freeing[c].p /\ freeing' = [freeing EXCEPT ![c] = Idle]
       ELSE freeing' = [freeing EXCEPT ![c].old = xcpu_freelist] /\ UNCHANGED xcpu_freelist
    /\ link' = IF link[freeing[c].p] = Null
               THEN [link EXCEPT ![freeing[c].p] = freeing[c].old] ELSE link
    /\ UNCHANGED <<object, drained, live>>

\* One turn of its loop: p->next = old, seen by nobody before the exchange.
CompareExchange(c) ==
    /\ freeing[c] # Idle
    /\ link' = [link EXCEPT ![freeing[c].p] = freeing[c].old]
    /\ IF xcpu_freelist = freeing[c].old
       THEN xcpu_freelist' = freeing[c].p /\ freeing' = [freeing EXCEPT ![c] = Idle]
       ELSE freeing' = [freeing EXCEPT ![c].old = xcpu_freelist] /\ UNCHANGED xcpu_freelist
    /\ UNCHANGED <<object, drained, live>>

\* The core frees an object itself.
FreeLocal(o) ==
    /\ live /\ object[o] = "allocated"
    /\ object' = [object EXCEPT ![o] = "free"]
    /\ UNCHANGED <<link, xcpu_freelist, freeing, drained, live>>

\* drain_cross_cpu_freelist takes the list.
Drain ==
    /\ live /\ drained = Null /\ xcpu_freelist # Null
    /\ drained' = xcpu_freelist
    /\ xcpu_freelist' = Null
    /\ UNCHANGED <<object, link, freeing, live>>

\* One turn of its loop; the memory of a free object is written over.
DrainNext ==
    /\ drained # Null
    /\ drained' = link[drained]
    /\ object' = [object EXCEPT ![drained] = "free"]
    /\ link' = [link EXCEPT ![drained] = Null]
    /\ UNCHANGED <<xcpu_freelist, freeing, live>>

\* ~cpu_pages
Exit == /\ live /\ drained = Null
        /\ live' = FALSE
        /\ UNCHANGED <<object, link, xcpu_freelist, freeing, drained>>

-----------------------------------------------------------------------------
TypeOK == /\ object \in [Memory -> {"free", "allocated", "listed", "leaked"}]
          /\ link \in [Memory -> Memory \cup {Null}]
          /\ xcpu_freelist \in Memory \cup {Null}
          /\ freeing \in [Core -> [p : Memory \cup {Null}, old : Memory \cup {Null}]]
          /\ drained \in Memory \cup {Null}
          /\ live \in BOOLEAN

\* What the links from a pointer lead to, in as many steps as there are
\* objects: the objects of a list and Null, unless they go round.
Linked(start) ==
    LET walk[n \in 0 .. Cardinality(Memory)] ==
            IF n = 0 THEN start
            ELSE LET o == walk[n - 1] IN IF o = Null THEN Null ELSE link[o]
    IN {walk[n] : n \in DOMAIN walk}

\* Whatever cores free at the same time as the owner drains and allocates
\* the same memory again, an object that was freed is in exactly one place
\* until it is free: with the core that pushes it, in the list, or in the
\* part that is drained; and both lists end.
FreedOnce ==
    LET shared  == Linked(xcpu_freelist)
        private == Linked(drained)
        pushed  == {freeing[c].p : c \in {d \in Core : freeing[d] # Idle}}
    IN /\ shared \cup private \cup pushed = {o \in Memory : object[o] = "listed"} \cup {Null}
       /\ shared \cap private = {Null} /\ pushed \cap (shared \cup private) = {}
       /\ \A c, d \in Core : freeing[c] # Idle /\ freeing[c].p = freeing[d].p => c = d
=============================================================================
