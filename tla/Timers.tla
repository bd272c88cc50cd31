------------------------------- MODULE Timers -------------------------------
(***************************************************************************)
(* Timers of one reactor on the steady clock: class timer, timer_set,      *)
(* reactor::add_timer, del_timer, complete_timers and the one kernel timer *)
(* whose signal makes the reactor look for expired timers                  *)
(* (src/include/future/future_all11.hh, .tpp and .cc).                     *)
(*                                                                         *)
(* timer_set is a radix queue: a timer is kept in the bucket numbered by   *)
(* how many leading bits its expiry shares with _last, the time of the     *)
(* last expire(), so that expire() only looks at one bucket.  Time points  *)
(* are numbers of Bits bits here, 63 in the code.                          *)
(***************************************************************************)
EXTENDS Integers, Sequences, Functions

CONSTANTS Timer,
          Bits,      \* timestamp_bits
          Horizon,   \* bound: the clock stops here
          Period,    \* the periods of periodic timers
          CallbacksCancel  \* callbacks cancel, rearm and destroy timers

ASSUME CallbackAssumption == CallbacksCancel \in BOOLEAN

\* Powers of two, as far as time points need them.
Power[n \in 0 .. Bits] == IF n = 0 THEN 1 ELSE 2 * Power[n - 1]

MaxTimestamp == Power[Bits] - 1

ASSUME TimeAssumption == Bits \in Nat /\ Horizon \in 1 .. MaxTimestamp
ASSUME PeriodAssumption == \A p \in Period : p \in Nat \ {0} /\ Horizon + p <= MaxTimestamp

Time == 0 .. MaxTimestamp
Never == -1
NoTimer == "none"
Bucket == 0 .. Bits       \* n_buckets of them; the last one for the past

VARIABLES now,       \* steady_clock::now()
          timer,     \* the members of every timer
          buckets, nonEmpty, last, next,   \* timer_set
          expired,   \* reactor::_expired_timers
          deadline,  \* the kernel timer: when it is to expire, or Never
          signal,    \* SIGALRM is pending or not yet polled
          pc,        \* reactor: in its loop, in complete_timers, in a callback, or
                     \* (with low-resolution timers) asleep
          running,   \* the timer whose callback runs
          crashed    \* the process died of an access through a null iterator

setVars == <<buckets, nonEmpty, last, next>>
vars == <<now, timer, setVars, expired, deadline, signal, pc, running, crashed>>

Fresh == [expiry |-> 0, period |-> 0, armed |-> FALSE, queued |-> FALSE, expired |-> FALSE]

\* The handler of SIGALRM is registered with its pending bit set.
Init == /\ now = 1
        /\ timer = [t \in Timer |-> Fresh]
        /\ buckets = [b \in Bucket |-> << >>]
        /\ nonEmpty = {}
        /\ last = 0
        /\ next = MaxTimestamp
        /\ expired = << >>
        /\ deadline = Never
        /\ signal = TRUE
        /\ pc = "loop"
        /\ running = NoTimer
        /\ crashed = FALSE

Lesser(a, b) == IF a <= b THEN a ELSE b
Greater(a, b) == IF a >= b THEN a ELSE b

-----------------------------------------------------------------------------
(* timer_set as operators on records with the fields of setVars.            *)

Set == [buckets |-> buckets, nonEmpty |-> nonEmpty, last |-> last, next |-> next]

SetTo(s) == /\ buckets' = s.buckets /\ nonEmpty' = s.nonEmpty
            /\ last' = s.last /\ next' = s.next

\* The k leading bits of a time point.
Leading(ts, k) == ts \div Power[Bits - k]

\* get_index: the number of leading zeros of ts ^ l, for every ts and l.
Index ==
    [ts \in Time |-> [l \in Time |->
        IF ts <= l THEN Bits
        ELSE CHOOSE k \in 0 .. Bits - 1 :
                Leading(ts, k) = Leading(l, k) /\ Leading(ts, k + 1) # Leading(l, k + 1)]]

get_index(ts, l) == Index[ts][l]

\* The timers of a list that are in a set, in their order.
Only(list, S) ==
    LET only[n \in 0 .. Len(list)] ==
            IF n = 0 THEN << >>
            ELSE IF list[n] \in S THEN Append(only[n - 1], list[n]) ELSE only[n - 1]
    IN only[Len(list)]

\* Fault: the bit of the next bucket is set.
insert_WrongBit(s, t, ts) ==
    LET i == get_index(ts, s.last) IN
    [s EXCEPT !.buckets[i] = Append(@, t),
              !.nonEmpty = @ \cup {i + 1},
              !.next = Lesser(ts, @)]

insert(s, t, ts) ==
    LET i == get_index(ts, s.last) IN
    [s EXCEPT !.buckets[i] = Append(@, t),
              !.nonEmpty = @ \cup {i},
              !.next = Lesser(ts, @)]

\* Fault: the bit of an emptied bucket stays set.
remove_KeepsBit(s, t, ts) ==
    [s EXCEPT !.buckets = [b \in Bucket |-> Only(@[b], Timer \ {t})]]

\* The list node is unlinked wherever it is; only the list of the computed
\* index is tested for emptiness.
remove(s, t, ts) ==
    LET i == get_index(ts, s.last)
        rest == [b \in Bucket |-> Only(s.buckets[b], Timer \ {t})]
    IN [s EXCEPT !.buckets = rest,
                 !.nonEmpty = IF rest[i] = << >> THEN @ \ {i} ELSE @]

\* The timers of the n buckets above bucket i, whose bits are set, spliced.
Above(s, i, n) ==
    LET above[k \in 0 .. n] ==
            IF k = 0 THEN << >>
            ELSE IF i + k \in s.nonEmpty THEN above[k - 1] \o s.buckets[i + k] ELSE above[k - 1]
    IN above[n]

\* The timers that have expired at a time, and those that have not.
Over(time, due) == {t \in Timer : due[t] <= time}
Ahead(time, due) == {t \in Timer : due[t] > time}

\* Fault: the timers of the bucket of the new time are not compared with it.
expireList_WholeBucket(s, time, due) ==
    LET i == get_index(time, s.last) IN Above(s, i, Bits - i) \o s.buckets[i]

\* The timers of the buckets above that of the new time have expired; those
\* of its own bucket have expired or move to a higher bucket.
expireList(s, time, due) ==
    LET i == get_index(time, s.last)
    IN Above(s, i, Bits - i) \o Only(s.buckets[i], Over(time, due))

LeastOf(S) == IF S = {} THEN MaxTimestamp ELSE CHOOSE x \in S : \A y \in S : x <= y

\* Fault: next is not looked for in the buckets that were left alone.
expireSet_NextLost(s, time, due) ==
    LET i == get_index(time, s.last)
        kept == Only(s.buckets[i], Ahead(time, due))
        moved(b) == Only(kept, {t \in Timer : get_index(due[t], time) = b})
    IN [ buckets |-> [b \in Bucket |-> (IF b < i THEN s.buckets[b] ELSE << >>) \o moved(b)],
         nonEmpty |-> {b \in s.nonEmpty : b < i}
                        \cup {get_index(due[t], time) : t \in Range(kept)},
         last |-> time,
         next |-> LeastOf({due[t] : t \in Range(kept)}) ]

expireSet(s, time, due) ==
    LET i == get_index(time, s.last)
        kept == Only(s.buckets[i], Ahead(time, due))
        moved(b) == Only(kept, {t \in Timer : get_index(due[t], time) = b})
        new == [b \in Bucket |->
                  IF b < i THEN s.buckets[b]
                  ELSE (IF b > i /\ b \notin s.nonEmpty THEN s.buckets[b] ELSE << >>)
                         \o moved(b)]
        full == {b \in s.nonEmpty : b < i}
                  \cup {get_index(due[t], time) : t \in Range(kept)}
        first == LeastOf({due[t] : t \in Range(kept)})
    IN [ buckets |-> new,
         nonEmpty |-> IF new[i] = << >> THEN full \ {i} ELSE full \cup {i},
         last |-> time,
         next |-> IF first = MaxTimestamp /\ full # {}
                  THEN LeastOf({due[t] : t \in Range(new[CHOOSE b \in full : \A c \in full : c <= b])})
                  ELSE first ]

get_next_timeout(s) == Greater(s.last, s.next)

Expiry == [t \in Timer |-> timer[t].expiry]

-----------------------------------------------------------------------------
\* reactor::enable_timer: timer_settime(TIMER_ABSTIME); a zero value disarms.
enable_timer(when) == deadline' = IF when = 0 THEN Never ELSE when

\* timer::arm_state
ArmState(t, until, p) ==
    [timer EXCEPT ![t] = [expiry |-> until, period |-> p,
                          armed |-> TRUE, queued |-> TRUE, expired |-> FALSE]]

\* User code runs: a task of the loop, or a callback.
UserCode == ~crashed /\ pc \in {"loop", "callback"}
CancellingCode == UserCode /\ (pc = "loop" \/ CallbacksCancel)

\* timer::arm, arm_periodic and reactor::add_timer, on a set s.  It is an
\* error to arm a timer that is armed.
ArmOn(s, t, until, p) ==
    /\ timer' = ArmState(t, until, p)
    /\ SetTo(insert(s, t, until))
    /\ IF until < s.next
       THEN enable_timer(get_next_timeout(insert(s, t, until)))
       ELSE UNCHANGED deadline

Arm(t, until, p) ==
    /\ UserCode
    /\ ~timer[t].armed
    /\ ArmOn(Set, t, until, p)
    /\ UNCHANGED <<now, expired, signal, pc, running, crashed>>

\* reactor::del_timer of a timer that complete_timers has moved to the list
\* of expired timers erases it through expired_it, which is never set.
DelTimerCrashes(t) == timer[t].queued /\ timer[t].expired

Crash == /\ crashed' = TRUE
         /\ UNCHANGED <<now, timer, setVars, expired, deadline, signal, pc, running>>

\* timer::cancel.  An unarmed timer is left alone.
Cancel(t) ==
    /\ CancellingCode
    /\ timer[t].armed
    /\ IF DelTimerCrashes(t)
       THEN Crash
       ELSE /\ timer' = [timer EXCEPT ![t].armed = FALSE, ![t].queued = FALSE]
            /\ SetTo(IF timer[t].queued THEN remove(Set, t, timer[t].expiry) ELSE Set)
            /\ UNCHANGED <<now, expired, deadline, signal, pc, running, crashed>>

\* timer::rearm of an armed timer: cancel, then arm.
Rearm(t, until, p) ==
    /\ CancellingCode
    /\ timer[t].armed
    /\ IF DelTimerCrashes(t)
       THEN Crash
       ELSE /\ ArmOn(IF timer[t].queued THEN remove(Set, t, timer[t].expiry) ELSE Set,
                     t, until, p)
            /\ UNCHANGED <<now, expired, signal, pc, running, crashed>>

\* timer::~timer, and a new timer in its place; a callback does not destroy
\* its own timer.
Destroy(t) ==
    /\ CancellingCode
    /\ running # t
    /\ IF DelTimerCrashes(t)
       THEN Crash
       ELSE /\ timer' = [timer EXCEPT ![t] = Fresh]
            /\ SetTo(IF timer[t].queued THEN remove(Set, t, timer[t].expiry) ELSE Set)
            /\ UNCHANGED <<now, expired, deadline, signal, pc, running, crashed>>

-----------------------------------------------------------------------------
\* complete_timers moves the expired timers to its own list.
CollectExpired ==
    \E due \in {[t \in Timer |-> timer[t].expiry]} :
    \E list \in {expireList(Set, now, due)}, s \in {expireSet(Set, now, due)} :
       /\ expired' = list
       /\ timer' = [t \in Timer |->
             IF t \in Range(list) THEN [timer[t] EXCEPT !.expired = TRUE] ELSE timer[t]]
       /\ SetTo(s)

\* signals::poll_signal runs the handler of SIGALRM.
StartExpiring ==
    /\ ~crashed /\ pc = "loop" /\ signal
    /\ signal' = FALSE
    /\ pc' = "expiring"
    /\ CollectExpired
    /\ UNCHANGED <<now, deadline, running, crashed>>

\* One turn of its loop: the timer leaves the list, is armed again when it is
\* periodic, and its callback is called.
Fire ==
    /\ ~crashed /\ pc = "expiring" /\ expired # << >>
    /\ LET t == Head(expired) IN
          IF ~timer[t].armed
          THEN /\ timer' = [timer EXCEPT ![t].queued = FALSE]
               /\ UNCHANGED <<setVars, pc, running>>
          ELSE /\ IF timer[t].period = 0
                  THEN /\ timer' = [timer EXCEPT ![t].queued = FALSE, ![t].armed = FALSE]
                       /\ UNCHANGED setVars
                  ELSE LET until == now + timer[t].period IN
                       /\ timer' = ArmState(t, until, timer[t].period)
                       /\ SetTo(insert(Set, t, until))
               /\ pc' = "callback"
               /\ running' = t
    /\ expired' = Tail(expired)
    /\ UNCHANGED <<now, deadline, signal, crashed>>

EndCallback ==
    /\ ~crashed /\ pc = "callback"
    /\ pc' = "expiring"
    /\ running' = NoTimer
    /\ UNCHANGED <<now, timer, setVars, expired, deadline, signal, crashed>>

\* Fault: the kernel timer is not set again.
EndExpiring_NotEnabled ==
    /\ ~crashed /\ pc = "expiring" /\ expired = << >>
    /\ pc' = "loop"
    /\ UNCHANGED <<now, timer, setVars, expired, deadline, signal, running, crashed>>

\* The enable_fn of the steady clock: the kernel timer is set again.
EndExpiring ==
    /\ ~crashed /\ pc = "expiring" /\ expired = << >>
    /\ IF nonEmpty # {} THEN enable_timer(get_next_timeout(Set)) ELSE UNCHANGED deadline
    /\ pc' = "loop"
    /\ UNCHANGED <<now, timer, setVars, expired, signal, running, crashed>>

\* The kernel timer expires, once.
KernelTimer ==
    /\ deadline # Never /\ deadline <= now
    /\ deadline' = Never
    /\ signal' = TRUE
    /\ UNCHANGED <<now, timer, setVars, expired, pc, running, crashed>>

\* SIGALRM is also what reactor::wakeup sends.
Wakeup ==
    /\ ~signal
    /\ signal' = TRUE
    /\ UNCHANGED <<now, timer, setVars, expired, deadline, pc, running, crashed>>

TimePasses ==
    /\ now < Horizon
    /\ now' = now + 1
    /\ UNCHANGED <<timer, setVars, expired, deadline, signal, pc, running, crashed>>

User == \E t \in Timer :
            \/ Cancel(t) \/ Destroy(t)
            \/ \E until \in Time : Arm(t, until, 0) \/ Rearm(t, until, 0)
            \/ \E p \in Period : Arm(t, now + p, p) \/ Rearm(t, now + p, p)

Reactor == StartExpiring \/ Fire \/ EndCallback \/ EndExpiring

Next == User \/ Reactor \/ KernelTimer \/ Wakeup \/ TimePasses

\* The reactor polls (StartExpiring is the step that leaves the loop), works
\* through the expired timers, callbacks end, and the kernel delivers.
Poll == ~crashed /\ pc = "loop" /\ signal /\ pc' = "expiring"

Fairness == WF_pc(Poll) /\ WF_vars(Fire \/ EndCallback \/ EndExpiring) /\ WF_vars(KernelTimer)

Spec == Init /\ [][Next]_vars /\ Fairness

-----------------------------------------------------------------------------
\* The variables have their types.
TypeOK ==
    /\ now \in 1 .. Horizon
    /\ timer \in [Timer -> [expiry : Time, period : Period \cup {0},
                            armed : BOOLEAN, queued : BOOLEAN, expired : BOOLEAN]]
    /\ buckets \in [Bucket -> Seq(Timer)]
    /\ nonEmpty \subseteq Bucket
    /\ last \in Time /\ next \in Time
    /\ expired \in Seq(Timer)
    /\ deadline \in Time \cup {Never}
    /\ signal \in BOOLEAN /\ crashed \in BOOLEAN
    /\ pc \in {"loop", "expiring", "callback", "asleep"}
    /\ running \in Timer \cup {NoTimer}

InSet(t) == \E b \in Bucket : t \in Range(buckets[b])

\* timer_set is consistent after any sequence of operations, although timers
\* are never moved when _last changes: a timer is where get_index looks for
\* it, the bitmap is exact, every queued timer is in the set or in the list
\* of expired ones, and there only once.
SetConsistent ==
    /\ \A b \in Bucket :
          /\ (b \in nonEmpty) = (buckets[b] # << >>)
          /\ \A t \in Range(buckets[b]) : get_index(timer[t].expiry, last) = b
    /\ \A t \in Timer :
          /\ timer[t].queued <=> InSet(t) \/ t \in Range(expired)
          /\ ~(InSet(t) /\ t \in Range(expired))
    /\ IsInjective(expired) /\ \A b \in Bucket : IsInjective(buckets[b])

\* Whenever the reactor may sleep, the kernel timer is set early enough for
\* every timer in the set, or its signal is waiting: no deadline is missed
\* although only insert() and complete_timers ever set the kernel timer.  The
\* largest time point is how next says that there is nothing to wait for.
NoMissedDeadline ==
    pc = "loop" =>
        \A t \in Timer : timer[t].queued /\ timer[t].expiry < MaxTimestamp =>
            \/ signal
            \/ deadline # Never /\ deadline <= Greater(timer[t].expiry, last)

\* Timers are alarms: no timer fires early, twice for one arming, or after
\* it was cancelled.
Alarm == INSTANCE Alarms WITH
            Period <- Period,
            due <- [t \in Timer |-> IF timer[t].armed THEN timer[t].expiry ELSE Never],
            calling <- running,
            every <- [t \in Timer |-> timer[t].period]
ImplementsAlarms == Alarm!Spec

\* An armed timer whose time has come.
Overdue(t) == timer[t].armed /\ timer[t].expiry <= now

\* "expired_it; // position in the list of expired timers" (HH 1630): a timer
\* can be cancelled, rearmed or destroyed by the callback of another timer.
CancelIsSafe == ~crashed
=============================================================================
