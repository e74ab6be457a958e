----------------------------- MODULE TimerWheel -----------------------------
(***************************************************************************)
(* The timer wheel of lispd (lib/timers.c).  A wheel has WHEEL_SIZE        *)
(* spokes; a running timer is linked into the list of one of them, and     *)
(* every second handle_timers moves to the next spoke and serves its list. *)
(*                                                                         *)
(* lispd is single threaded: lmtimer_create, lmtimer_start and             *)
(* lmtimer_stop are called by the handlers of other events (pc = "idle")   *)
(* or by the callback of the timer being served (pc = "callback"), never   *)
(* while handle_timers itself is executing (pc = "loop").                  *)
(*                                                                         *)
(* A spoke is the set of the timers linked to it: the order of its list,   *)
(* which is the order of the lmtimer_start calls, is left open.  One thing *)
(* about the list matters and is kept.  The loop continues with            *)
(* prev->next, where prev precedes the timer it has just looked at.  The   *)
(* first timer looked at follows the head of the spoke, and it is looked   *)
(* at again as long as it stays linked, so prev is always the head.        *)
(***************************************************************************)
EXTENDS Integers, FiniteSets

CONSTANTS Timers,      \* the timers the program may allocate
          Durations,   \* the values of sexpiry given to lmtimer_start
          WHEEL_SIZE,  \* number of spokes, 4096 in the code
          NULL         \* the null pointer

ASSUME WheelAssumption ==
    /\ WHEEL_SIZE \in Nat \ {0}
    /\ IsFiniteSet(Timers)
    /\ NULL \notin Timers
    /\ NULL \notin Int
    /\ Durations \subseteq Nat

VARIABLES allocated,       \* timers created and not yet freed
          spoke,           \* spoke[t]: the spoke t is linked to, NULL if unlinked
          rotation_count,  \* tptr->rotation_count
          duration,        \* tptr->duration
          current_spoke,   \* timer_wheel.current_spoke
          running_timers,  \* timer_wheel.running_timers
          pc,              \* who is executing: see the head of the module
          tptr,            \* the cursor of the loop of handle_timers
          age              \* history: ticks since t was last started

vars == <<allocated, spoke, rotation_count, duration, current_spoke,
          running_timers, pc, tptr, age>>

Spokes == 0 .. WHEEL_SIZE - 1

Linked == {t \in Timers : spoke[t] # NULL}

TypeOK ==
    /\ allocated \subseteq Timers
    /\ spoke \in [Timers -> Spokes \cup {NULL}]
    /\ rotation_count \in [Timers -> Nat]
    /\ duration \in [Timers -> Nat]
    /\ current_spoke \in Spokes
    /\ running_timers \in Nat
    /\ pc \in {"idle", "loop", "callback"}
    /\ tptr \in Timers \cup {NULL}
    /\ age \in [Timers -> Nat]

Init ==
    /\ allocated = {}
    /\ spoke = [t \in Timers |-> NULL]
    /\ rotation_count = [t \in Timers |-> 0]
    /\ duration = [t \in Timers |-> 0]
    /\ current_spoke = 0
    /\ running_timers = 0
    /\ pc = "idle"
    /\ tptr = NULL
    /\ age = [t \in Timers |-> 0]

-----------------------------------------------------------------------------
(* The interface: lmtimer_create, lmtimer_start and lmtimer_stop.          *)

lmtimer_create(t) ==
    /\ pc # "loop"
    /\ t \notin allocated
    /\ allocated' = allocated \cup {t}
    /\ UNCHANGED <<spoke, rotation_count, duration, current_spoke,
                   running_timers, pc, tptr, age>>

\* Plausible mistakes in the computation of the spoke: see PROJECT.json.
SpokeForOffByOne(d) == (current_spoke + (d % WHEEL_SIZE) + 1) % WHEEL_SIZE

\* The spoke at which a timer of d ticks is linked.
SpokeFor(d) == (current_spoke + (d % WHEEL_SIZE)) % WHEEL_SIZE

insert_timer(t, d) ==
    /\ rotation_count' = [rotation_count EXCEPT ![t] = d \div WHEEL_SIZE]
    /\ spoke' = [spoke EXCEPT ![t] = SpokeFor(d)]

\* A restart that forgets to count the timer out.
lmtimer_startNoRecount(t, d) ==
    /\ pc # "loop"
    /\ t \in allocated
    /\ duration' = [duration EXCEPT ![t] = d]
    /\ age' = [age EXCEPT ![t] = 0]
    /\ insert_timer(t, d)
    /\ running_timers' = running_timers + 1
    /\ UNCHANGED <<allocated, current_spoke, pc, tptr>>

\* Starting a running timer unlinks it first, and counts it out and in again.
lmtimer_start(t, d) ==
    /\ pc # "loop"
    /\ t \in allocated
    /\ duration' = [duration EXCEPT ![t] = d]
    /\ age' = [age EXCEPT ![t] = 0]
    /\ insert_timer(t, d)
    /\ running_timers' = (IF t \in Linked THEN running_timers - 1 ELSE running_timers) + 1
    /\ UNCHANGED <<allocated, current_spoke, pc, tptr>>

\* Stopping a timer also frees it.
lmtimer_stop(t) ==
    /\ pc # "loop"
    /\ t \in allocated
    /\ spoke' = [spoke EXCEPT ![t] = NULL]
    /\ running_timers' = IF t \in Linked THEN running_timers - 1 ELSE running_timers
    /\ allocated' = allocated \ {t}
    /\ UNCHANGED <<rotation_count, duration, current_spoke, pc, tptr, age>>

-----------------------------------------------------------------------------
(* The tick: handle_timers, from the read of the signal to the return.     *)

\* The candidates for the first timer of a list, NULL when the list is empty.
First(links, p) ==
    LET on == {t \in Timers : links[t] = p}
    IN  IF on = {} THEN {NULL} ELSE on

handle_timers_begin ==
    /\ pc = "idle"
    /\ current_spoke' = (current_spoke + 1) % WHEEL_SIZE
    /\ age' = [t \in Timers |-> IF t \in Linked THEN age[t] + 1 ELSE age[t]]
    /\ pc' = "loop"
    /\ tptr' \in First(spoke, current_spoke')
    /\ UNCHANGED <<allocated, spoke, rotation_count, duration, running_timers>>

\* The rotations are not counted down.
handle_timers_rotateStuck ==
    /\ pc = "loop"
    /\ tptr # NULL
    /\ rotation_count[tptr] > 0
    /\ UNCHANGED vars

\* The timer stays linked, so that prev->next is the same timer again.
handle_timers_rotate ==
    /\ pc = "loop"
    /\ tptr # NULL
    /\ rotation_count[tptr] > 0
    /\ rotation_count' = [rotation_count EXCEPT ![tptr] = @ - 1]
    /\ UNCHANGED <<allocated, spoke, duration, current_spoke, running_timers, pc, tptr, age>>

\* The timer is unlinked before its callback is called.
handle_timers_expire ==
    /\ pc = "loop"
    /\ tptr # NULL
    /\ rotation_count[tptr] = 0
    /\ spoke' = [spoke EXCEPT ![tptr] = NULL]
    /\ running_timers' = running_timers - 1
    /\ pc' = "callback"
    /\ UNCHANGED <<allocated, rotation_count, duration, current_spoke, tptr, age>>

\* A loop that serves one timer of the spoke at every tick.
handle_timers_nextOnce ==
    /\ pc = "callback"
    /\ pc' = "idle"
    /\ tptr' = NULL
    /\ UNCHANGED <<allocated, spoke, rotation_count, duration, current_spoke,
                   running_timers, age>>

\* The callback returns and the loop continues with the head of the list.
handle_timers_next ==
    /\ pc = "callback"
    /\ pc' = "loop"
    /\ tptr' \in First(spoke, current_spoke)
    /\ UNCHANGED <<allocated, spoke, rotation_count, duration, current_spoke,
                   running_timers, age>>

handle_timers_end ==
    /\ pc = "loop"
    /\ tptr = NULL
    /\ pc' = "idle"
    /\ UNCHANGED <<allocated, spoke, rotation_count, duration, current_spoke,
                   running_timers, tptr, age>>

handle_timers ==
    \/ handle_timers_begin
    \/ handle_timers_rotate
    \/ handle_timers_expire
    \/ handle_timers_next
    \/ handle_timers_end

Next ==
    \/ \E t \in Timers : \/ lmtimer_create(t)
                         \/ \E d \in Durations : lmtimer_start(t, d)
                         \/ lmtimer_stop(t)
    \/ handle_timers

Spec == Init /\ [][Next]_vars

\* The kernel keeps delivering SIGRTMIN every second, the loop of
\* handle_timers keeps running and every callback returns.
FairSpec == Spec /\ WF_vars(handle_timers)

-----------------------------------------------------------------------------
(* Properties                                                              *)

\* The timers of less than a turn of the wheel.
Short(t) == duration[t] \in 1 .. WHEEL_SIZE - 1

\* handle_timers calls the callback of a timer of less than a turn exactly as
\* many ticks after lmtimer_start as the caller asked for, and leaves none
\* linked that should have been called before, whatever longer timers and
\* callbacks do.
ExpiresOnTime ==
    /\ pc = "loop" /\ tptr # NULL /\ rotation_count[tptr] = 0 /\ Short(tptr) =>
            age[tptr] = duration[tptr]
    /\ \A t \in Linked : Short(t) => age[t] <= duration[t]

\* "Full rotations required before this timer expires" (insert_timer): a
\* timer of a turn or more waits for its rotations too.
WaitsForRotations ==
    pc = "loop" /\ tptr # NULL /\ rotation_count[tptr] = 0 => age[tptr] >= duration[tptr]

\* timer_wheel.running_timers, which every link and unlink maintains by
\* hand, is the number of timers linked in the wheel, and no timer is linked
\* after lmtimer_stop has freed it.
RunningTimersExact ==
    /\ running_timers = Cardinality(Linked)
    /\ Linked \subseteq allocated

\* The loop of handle_timers comes to an end, whatever the callbacks start
\* and stop: it is not fed for ever by timers linked to the spoke it serves.
TickTerminates == pc = "loop" ~> pc = "idle"

\* The ticks a timer has left to wait: its duration less those it has seen.
Remaining(t) ==
    IF t \notin Linked THEN NULL ELSE IF Short(t) THEN duration[t] - age[t] ELSE -1

\* The wheel implements TimerService.
Service == INSTANCE TimerService WITH
    Turn <- WHEEL_SIZE,
    remaining <- [t \in Timers |-> Remaining(t)],
    firing <- IF pc = "callback" THEN tptr ELSE NULL

\* Every behaviour of the wheel is one of the abstract timer service, in which
\* a short timer fires exactly on time and only once per start.
ServiceSpec == Service!SSpec

=============================================================================
