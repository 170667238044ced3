------------------------------- MODULE Timers -------------------------------
(***************************************************************************)
(* The timers of the EventLoop (event_loop.cpp).  fire_timers reads the    *)
(* clock once and walks over timers_; then it removes the one-shot timers  *)
(* that are due, by a reading of the clock of its own for each; time may   *)
(* pass in every callback and between the readings.  Callbacks that call   *)
(* back into the loop are left out: they would change the vector under the *)
(* walk.                                                                   *)
(***************************************************************************)
EXTENDS Naturals, Sequences, SequencesExt

CONSTANTS
    Delays,     \* delays and intervals add_timer is called with
    MaxTimers,  \* bound: calls of add_timer
    MaxClock    \* bound: how far the clock runs

ASSUME TimersAssumption ==
    Delays \subseteq Nat /\ MaxTimers \in Nat /\ MaxClock \in Nat

TimerId == 1..MaxTimers

VARIABLES
    clock,          \* steady_clock
    timers,         \* timers_, in the order of the vector
    next_timer_id,
    pc,             \* "idle", "fire" (the walk) or "sweep" (the removal)
    now,            \* fire_timers' first reading
    pos,            \* the position of the walk, then of the removal
    ran,            \* ran[id]: how often a one-shot timer ran, or whether a
                    \* repeating one has run
    cancelled       \* ids given to cancel_timer

vars == <<clock, timers, next_timer_id, pc, now, pos, ran, cancelled>>

Timer(id, delay, repeat) ==
    [id |-> id, deadline |-> clock + delay, repeat |-> repeat, interval |-> delay]

Init ==
    /\ clock = 0 /\ timers = <<>> /\ next_timer_id = 1
    /\ pc = "idle" /\ now = 0 /\ pos = 1
    /\ ran = [id \in TimerId |-> 0]
    /\ cancelled = {}

AddTimer(delay, repeat) ==
    /\ pc = "idle" /\ next_timer_id \in TimerId
    /\ timers' = Append(timers, Timer(next_timer_id, delay, repeat))
    /\ next_timer_id' = next_timer_id + 1
    /\ UNCHANGED <<clock, pc, now, pos, ran, cancelled>>

CancelTimer(id) ==
    /\ pc = "idle" /\ id < next_timer_id
    /\ timers' = SelectSeq(timers, LAMBDA t : t.id # id)
    /\ cancelled' = cancelled \cup {id}
    /\ UNCHANGED <<clock, next_timer_id, pc, now, pos, ran>>

FireTimers ==
    /\ pc = "idle"
    /\ pc' = "fire" /\ now' = clock /\ pos' = 1
    /\ UNCHANGED <<clock, timers, next_timer_id, ran, cancelled>>

DeadlineAfter(t) == IF t.repeat THEN now + t.interval ELSE t.deadline

\* One turn of the walk.
Visit ==
    /\ pc = "fire" /\ pos \in DOMAIN timers
    /\ LET t == timers[pos] IN
       IF now >= t.deadline
       THEN /\ ran' = [ran EXCEPT ![t.id] = IF t.repeat THEN 1 ELSE @ + 1]
            /\ timers' = [timers EXCEPT ![pos].deadline = DeadlineAfter(t)]
       ELSE UNCHANGED <<ran, timers>>
    /\ pos' = pos + 1
    /\ UNCHANGED <<clock, next_timer_id, pc, now, cancelled>>

WalkDone ==
    /\ pc = "fire" /\ pos \notin DOMAIN timers
    /\ pc' = "sweep" /\ pos' = 1
    /\ UNCHANGED <<clock, timers, next_timer_id, now, ran, cancelled>>

\* What remove_if keeps.
FaultyKept(t) == t.repeat \/ now <= t.deadline
Kept(t) == t.repeat \/ clock < t.deadline

\* One turn of the removal.
Sweep ==
    /\ pc = "sweep" /\ pos \in DOMAIN timers
    /\ IF Kept(timers[pos])
       THEN pos' = pos + 1 /\ UNCHANGED timers
       ELSE timers' = RemoveAt(timers, pos) /\ UNCHANGED pos
    /\ UNCHANGED <<clock, next_timer_id, pc, now, ran, cancelled>>

SweepDone ==
    /\ pc = "sweep" /\ pos \notin DOMAIN timers
    /\ pc' = "idle"
    /\ UNCHANGED <<clock, timers, next_timer_id, now, pos, ran, cancelled>>

\* External: the clock.
Tick ==
    /\ clock < MaxClock
    /\ clock' = clock + 1
    /\ UNCHANGED <<timers, next_timer_id, pc, now, pos, ran, cancelled>>

Next ==
    \/ \E d \in Delays, r \in BOOLEAN : AddTimer(d, r)
    \/ \E id \in TimerId : CancelTimer(id)
    \/ FireTimers \/ Visit \/ WalkDone \/ Sweep \/ SweepDone
    \/ Tick

Spec == Init /\ [][Next]_vars

----------------------------------------------------------------------------
(* Properties.                                                             *)

\* A one-shot timer runs at most once: the removal's readings of the clock
\* are behind that of the walk, so it takes out every one-shot timer that ran,
\* and no later call of fire_timers finds it (fire_timers).
OneShotOnce ==
    \A i \in DOMAIN timers :
       ~timers[i].repeat => ran[timers[i].id] <= 1

\* A one-shot timer leaves the vector only after it ran or was cancelled.  The
\* code does not do this: fire_timers also removes one that was not due for
\* the walk and is for the removal.
OneShotRuns ==
    \A id \in 1 .. next_timer_id - 1 :
       \/ \E i \in DOMAIN timers : timers[i].id = id
       \/ ran[id] > 0 \/ id \in cancelled

=============================================================================
