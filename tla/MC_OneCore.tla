---------------------------- MODULE MC_OneCore ------------------------------
(***************************************************************************)
(* What the fibers of one core wait with, and its memory, side by side: a  *)
(* semaphore for whose two or three units three fibers ask, so that one    *)
(* that asks for one waits behind one that asks for two; a condition       *)
(* variable; the pages of a core, resized once; the objects of a core that *)
(* two others free; and deleters that own memory together.  subject says   *)
(* which a behaviour is about, the others keep their initial state.        *)
(***************************************************************************)
EXTENDS CondVar, TLC

CONSTANTS f1, f2, f3,
          Core, Memory, Null,      \* those of CrossFrees
          PageStructs, MaxLarge, Slots, MaxFree,  \* those of Pages
          Holder, Impl, Resource   \* those of Deleters

ASSUME OneCoreAssumption == /\ 1 \in Nr
                            /\ IsFiniteSet(Memory) /\ Null \notin Memory
\* The page structures take two or three of the first five pages.
ASSUME PagesAssumption == /\ PageStructs \in 2 .. 5 /\ MaxLarge \in Nat
                          /\ Slots \in Nat \ {0} /\ MaxFree \in Nat \ {0}
ASSUME DeleterAssumption == /\ IsFiniteSet(Holder) /\ IsFiniteSet(Impl)
                            /\ Null \notin Impl \cup Resource /\ Impl \cap Resource = {}

VARIABLES subject,
          cpu, array, pool, held,
          object, link, xcpu_freelist, freeing, drained, live,
          holder, impl, dropping, released, covers

\* Fibers are interchangeable, and so are deleters and objects, which bear
\* the same names here.
MCSymmetry == Permutations(Fiber)

MCAligns == {1, 2}

P == INSTANCE Pages WITH Sizes <- <<5, 8>>, Aligns <- MCAligns
X == INSTANCE CrossFrees
D == INSTANCE Deleters

pagesVars == <<cpu, array, pool, held>>
crossVars == <<object, link, xcpu_freelist, freeing, drained, live>>
deleterVars == <<holder, impl, dropping, released, covers>>
MCVars == <<subject, vars, pagesVars, crossVars, deleterVars>>

MCInit == /\ \/ subject = "condvar" /\ CvInit
             \/ subject \in {"semaphore", "pages", "cross_cpu_free", "deleter"} /\ Init
          /\ P!Init /\ X!Init /\ D!Init

Of(s) == subject = s /\ UNCHANGED subject
Waits(s) == Of(s) /\ UNCHANGED <<pagesVars, crossVars, deleterVars>>
Memories == Of("pages") /\ UNCHANGED <<vars, crossVars, deleterVars>>
Frees == Of("cross_cpu_free") /\ UNCHANGED <<vars, pagesVars, deleterVars>>
Owners == Of("deleter") /\ UNCHANGED <<vars, pagesVars, crossVars>>

\* Resources are interchangeable: any one of those not yet used.
NewResource == IF D!Unused = {} THEN {} ELSE {CHOOSE r \in D!Unused : TRUE}

MCNext ==
    \/ \E f \in Fiber : Waits("semaphore") /\ Wait(f)
    \/ \E f \in Fiber : Waits("semaphore") /\ Resume(f)
    \/ \E f \in Fiber : Waits("semaphore") /\ Keep(f)
    \/ \E f \in Fiber : Waits("semaphore") /\ Release(f)
    \/ \E f \in Fiber, nr \in Nr : Waits("semaphore") /\ TryWait(f, nr)
    \/ \E f \in Fiber, nr \in Nr : Waits("semaphore") /\ Consume(f, nr)
    \/ \E nr \in Nr : Waits("semaphore") /\ Deposit(nr)
    \/ \E i \in DOMAIN list : Waits("semaphore") /\ Expire(i)
    \/ Waits("semaphore") /\ Grant
    \/ Waits("semaphore") /\ EndSignal
    \/ \E f \in Fiber : Waits("condvar") /\ CvWait(f)
    \/ \E f \in Fiber : Waits("condvar") /\ CvResume(f)
    \/ Waits("condvar") /\ CvSignal
    \/ Waits("condvar") /\ CvBroadcast
    \/ \E i \in DOMAIN list : Waits("condvar") /\ Expire(i)
    \/ Waits("condvar") /\ Signal
    \/ \E align \in MCAligns, n \in 1 .. MaxLarge : Memories /\ P!AllocateLarge(align, n)
    \/ Memories /\ P!AllocateSmall
    \/ \E h \in held : Memories /\ P!Free(h)
    \/ \E h \in held, n \in 1 .. MaxLarge : Memories /\ h.slot = 0 /\ P!Shrink(h, n)
    \/ Memories /\ P!DoResize
    \/ \E o \in Memory : Frees /\ X!Allocate(o)
    \/ \E c \in Core, o \in Memory : Frees /\ X!FreeCross(c, o)
    \/ \E c \in Core : Frees /\ X!CompareExchange(c)
    \/ \E o \in Memory : Frees /\ X!FreeLocal(o)
    \/ Frees /\ X!Drain
    \/ Frees /\ X!DrainNext
    \/ Frees /\ X!Exit
    \/ Frees /\ ~live /\ UNCHANGED crossVars   \* the core has ended
    \/ \E h \in Holder, r \in NewResource : Owners /\ D!MakeFree(h, r)
    \/ \E h, d \in Holder, r \in NewResource : Owners /\ D!Make(h, d, r)
    \/ \E h, g \in Holder : Owners /\ D!Share(h, g)
    \/ \E h, d \in Holder : Owners /\ D!append(h, d)
    \/ \E g, h \in Holder : Owners /\ D!Assign(g, h)
    \/ \E h \in Holder : Owners /\ D!Destroy(h)
    \/ Owners /\ D!Drop
    \/ Owners /\ (\A r \in Resource : released[r] # 0) /\ UNCHANGED deleterVars

MCSpec == MCInit /\ [][MCNext]_MCVars

-----------------------------------------------------------------------------
\* Signals of a condition variable are not remembered: see CondVar.  (The
\* units of a semaphore are.)
CvSignalsNotRemembered == subject = "condvar" => SignalsNotRemembered

\* The pages of a core are in exactly one use: see Pages.
SpansTile == P!TypeOK /\ P!SpansTile

\* The objects of a small_pool are in exactly one place: see Pages.
ObjectsAccounted == P!ObjectsAccounted

\* What other cores free becomes free once: see CrossFrees.
FreedOnce == X!TypeOK /\ X!FreedOnce

\* Actions of deleters are carried out once, with their last owner: see
\* Deleters.
DeletedOnce == D!TypeOK /\ D!DeletedOnce

\* No action is carried out before its last sharer is gone: see Deleters.
SharersAwaited == D!SharersAwaited
=============================================================================
