-------------------------- MODULE TimerWheelProofs --------------------------
(***************************************************************************)
(* TLAPS proofs about TimerWheel, for every number of timers, every wheel  *)
(* size and every set of durations.                                        *)
(***************************************************************************)
EXTENDS TimerWheel, FiniteSetTheorems, TLAPS

USE DEF Spokes

\* Division and remainder by the wheel size stay in range.
LEMMA WheelArithmetic ==
    ASSUME NEW d \in Nat
    PROVE  /\ d \div WHEEL_SIZE \in Nat
           /\ d % WHEEL_SIZE \in Spokes
  BY WheelAssumption

\* The spoke k ticks after spoke c, without a remainder.
At(c, k) == IF c + k < WHEEL_SIZE THEN c + k ELSE c + k - WHEEL_SIZE

\* The wrap around of the wheel in insert_timer and handle_timers.
LEMMA WheelWrap ==
    ASSUME NEW c \in Spokes, NEW k \in 0 .. WHEEL_SIZE
    PROVE  (c + k) % WHEEL_SIZE = At(c, k)
  BY WheelAssumption, Z3 DEF At

-----------------------------------------------------------------------------
(* running_timers counts the linked timers, for durations of any length.   *)

\* The timer under the cursor of handle_timers is still linked: it is
\* unlinked in the step that leaves the loop for its callback.
CountInv ==
    /\ TypeOK
    /\ RunningTimersExact
    /\ pc = "loop" /\ tptr # NULL => tptr \in Linked

\* Linking or unlinking one timer changes the number of linked timers by one.
LEMMA LinkedCount ==
    ASSUME TypeOK, NEW t \in Timers
    PROVE  /\ IsFiniteSet(Linked)
           /\ Cardinality(Linked) \in Nat
           /\ Cardinality(Linked \cup {t}) = IF t \in Linked THEN Cardinality(Linked)
                                                             ELSE Cardinality(Linked) + 1
           /\ Cardinality(Linked \ {t}) = IF t \in Linked THEN Cardinality(Linked) - 1
                                                          ELSE Cardinality(Linked)
  <1>1. IsFiniteSet(Linked)
    <2>1. Linked \subseteq Timers
      BY DEF Linked
    <2> QED
      BY <2>1, WheelAssumption, FS_Subset
  <1> QED
    BY <1>1, FS_AddElement, FS_RemoveElement, FS_CardinalityType

\* The initial state.
LEMMA CountInit == Init => CountInv
  <1> SUFFICES ASSUME Init PROVE CountInv
    OBVIOUS
  <1>1. TypeOK
    BY WheelAssumption DEF Init, TypeOK
  <1>2. Linked = {}
    BY DEF Init, Linked
  <1>3. RunningTimersExact
    BY <1>2, FS_EmptySet DEF Init, RunningTimersExact
  <1> QED
    BY <1>1, <1>3 DEF CountInv, Init

\* Every step keeps the count.
LEMMA CountStep == CountInv /\ [Next]_vars => CountInv'
  <1> SUFFICES ASSUME CountInv, [Next]_vars PROVE CountInv'
    OBVIOUS
  <1> USE WheelAssumption DEF CountInv
  <1>1. ASSUME NEW t \in Timers, lmtimer_create(t) PROVE CountInv'
    <2>1. TypeOK'
      BY <1>1 DEF lmtimer_create, TypeOK
    <2>2. Linked' = Linked
      BY <1>1 DEF lmtimer_create, Linked
    <2>3. RunningTimersExact'
      BY <1>1, <2>2, Zenon DEF lmtimer_create, RunningTimersExact
    <2>4. pc' = pc /\ tptr' = tptr
      BY <1>1, Zenon DEF lmtimer_create
    <2> QED
      BY <2>1, <2>2, <2>3, <2>4, Zenon
  <1>2. ASSUME NEW t \in Timers, NEW d \in Durations, lmtimer_start(t, d) PROVE CountInv'
    <2>1. SpokeFor(d) \in Spokes /\ d \div WHEEL_SIZE \in Nat
      <3>1. current_spoke \in Spokes /\ d \in Nat
        BY DEF TypeOK
      <3>2. d % WHEEL_SIZE \in Spokes /\ d \div WHEEL_SIZE \in Nat
        BY <3>1, WheelArithmetic, Zenon
      <3>3. current_spoke + (d % WHEEL_SIZE) \in Nat
        BY <3>1, <3>2 DEF Spokes
      <3>4. (current_spoke + (d % WHEEL_SIZE)) % WHEEL_SIZE \in Spokes
        BY <3>3, WheelArithmetic, Zenon
      <3> QED
        BY <3>2, <3>4, Zenon DEF SpokeFor
    <2>2. Linked' = Linked \cup {t}
      BY <1>2, <2>1 DEF lmtimer_start, insert_timer, Linked, TypeOK
    <2>3. /\ Cardinality(Linked) \in Nat
          /\ Cardinality(Linked \cup {t}) = IF t \in Linked THEN Cardinality(Linked)
                                                            ELSE Cardinality(Linked) + 1
      BY LinkedCount, Zenon
    <2>4. running_timers' = Cardinality(Linked \cup {t})
      <3>1. running_timers = Cardinality(Linked)
        BY DEF RunningTimersExact
      <3>2. running_timers' = (IF t \in Linked THEN running_timers - 1 ELSE running_timers) + 1
        BY <1>2 DEF lmtimer_start
      <3> QED
        BY <2>3, <3>1, <3>2
    <2>5. RunningTimersExact'
      BY <1>2, <2>2, <2>4 DEF lmtimer_start, RunningTimersExact
    <2>6. running_timers' \in Nat
      BY <2>3, <2>4
    <2>7. TypeOK'
      BY <1>2, <2>1, <2>6 DEF lmtimer_start, insert_timer, TypeOK
    <2> QED
      BY <1>2, <2>5, <2>7 DEF lmtimer_start
  <1>3. ASSUME NEW t \in Timers, lmtimer_stop(t) PROVE CountInv'
    <2>1. Linked' = Linked \ {t}
      BY <1>3 DEF lmtimer_stop, Linked, TypeOK
    <2>2. RunningTimersExact'
      BY <1>3, <2>1, LinkedCount, Zenon DEF lmtimer_stop, RunningTimersExact
    <2>3. running_timers' \in Nat
      BY <1>3, <2>1, <2>2, LinkedCount, FS_RemoveElement, FS_CardinalityType, Zenon DEF RunningTimersExact
    <2>4. TypeOK'
      BY <1>3, <2>3 DEF lmtimer_stop, TypeOK
    <2> QED
      BY <1>3, <2>2, <2>4 DEF lmtimer_stop
  <1>4. CASE handle_timers_begin
    <2>1. (current_spoke + 1) % WHEEL_SIZE \in Spokes
      BY WheelArithmetic DEF TypeOK
    <2>2. TypeOK'
      BY <1>4, <2>1 DEF handle_timers_begin, TypeOK, First
    <2>3. Linked' = Linked
      BY <1>4 DEF handle_timers_begin, Linked
    <2>4. tptr' # NULL => tptr' \in Linked
      BY <1>4, <2>1 DEF handle_timers_begin, First, Linked
    <2> QED
      BY <1>4, <2>2, <2>3, <2>4 DEF handle_timers_begin, RunningTimersExact
  <1>5. CASE handle_timers_rotate
    <2>1. TypeOK'
      BY <1>5 DEF handle_timers_rotate, TypeOK
    <2>2. Linked' = Linked
      BY <1>5 DEF handle_timers_rotate, Linked
    <2> QED
      BY <1>5, <2>1, <2>2 DEF handle_timers_rotate, RunningTimersExact
  <1>6. CASE handle_timers_expire
    <2>1. tptr \in Linked /\ tptr \in Timers
      BY <1>6 DEF handle_timers_expire, TypeOK
    <2>2. Linked' = Linked \ {tptr}
      BY <1>6, <2>1 DEF handle_timers_expire, Linked, TypeOK
    <2>3. RunningTimersExact'
      BY <1>6, <2>1, <2>2, LinkedCount DEF handle_timers_expire, RunningTimersExact
    <2>4. running_timers' \in Nat
      BY <2>1, <2>2, <2>3, LinkedCount, FS_RemoveElement, FS_CardinalityType DEF RunningTimersExact
    <2>5. TypeOK'
      BY <1>6, <2>4 DEF handle_timers_expire, TypeOK
    <2> QED
      BY <1>6, <2>3, <2>5 DEF handle_timers_expire
  <1>7. CASE handle_timers_next
    <2>1. TypeOK'
      BY <1>7 DEF handle_timers_next, TypeOK, First
    <2>2. Linked' = Linked
      BY <1>7 DEF handle_timers_next, Linked
    <2>3. tptr' # NULL => tptr' \in Linked
      BY <1>7 DEF handle_timers_next, First, Linked, TypeOK
    <2> QED
      BY <1>7, <2>1, <2>2, <2>3 DEF handle_timers_next, RunningTimersExact
  <1>8. CASE handle_timers_end
    <2>1. TypeOK'
      BY <1>8 DEF handle_timers_end, TypeOK
    <2>2. Linked' = Linked
      BY <1>8 DEF handle_timers_end, Linked
    <2> QED
      BY <1>8, <2>1, <2>2 DEF handle_timers_end, RunningTimersExact
  <1>9. CASE UNCHANGED vars
    BY <1>9 DEF vars, TypeOK, RunningTimersExact, Linked
  <1> QED
    BY <1>1, <1>2, <1>3, <1>4, <1>5, <1>6, <1>7, <1>8, <1>9 DEF Next, handle_timers

\* The state variables of the wheel keep their types, whatever durations the
\* program starts timers with.
THEOREM TypeCorrect == Spec => []TypeOK
  <1>1. CountInv => TypeOK
    BY DEF CountInv
  <1> QED
    BY <1>1, CountInit, CountStep, PTL DEF Spec

\* timer_wheel.running_timers is the number of linked timers in every
\* reachable state, and lmtimer_stop never frees a timer that stays linked.
THEOREM RunningTimersCounted == Spec => []RunningTimersExact
  <1>1. CountInv => RunningTimersExact
    BY DEF CountInv
  <1> QED
    BY <1>1, CountInit, CountStep, PTL DEF Spec

-----------------------------------------------------------------------------
(* Timers of less than a turn of the wheel expire on time.                 *)

ShortLinked == {t \in Linked : Short(t)}

\* Where the short timers are: as many spokes ahead of the current one as
\* they have ticks left to wait.  Between two ticks none is due, and the
\* cursor of handle_timers is NULL only when none is due any more.
PlaceInv ==
    /\ \A t \in ShortLinked : /\ rotation_count[t] = 0
                              /\ age[t] <= duration[t]
                              /\ spoke[t] = At(current_spoke, duration[t] - age[t])
    /\ pc = "idle" => \A t \in ShortLinked : age[t] < duration[t]
    /\ pc = "loop" => tptr \in First(spoke, current_spoke)

\* A short timer is on the current spoke exactly when it is due.
LEMMA DueOnCurrentSpoke ==
    ASSUME TypeOK, PlaceInv, NEW t \in ShortLinked
    PROVE  spoke[t] = current_spoke <=> age[t] = duration[t]
  <1>1. /\ t \in Timers
        /\ duration[t] \in 1 .. WHEEL_SIZE - 1
        /\ age[t] \in Nat
        /\ age[t] <= duration[t]
        /\ spoke[t] = At(current_spoke, duration[t] - age[t])
    BY DEF PlaceInv, ShortLinked, Short, Linked, TypeOK
  <1>2. current_spoke \in Spokes
    BY DEF TypeOK
  <1> QED
    BY <1>1, <1>2, WheelAssumption DEF At

\* One tick brings every linked timer one spoke nearer.
LEMMA TickMoves ==
    ASSUME NEW c \in Spokes, NEW k \in 1 .. WHEEL_SIZE - 1
    PROVE  At(At(c, 1), k - 1) = At(c, k)
  BY WheelAssumption DEF At

\* A timer of less than a turn is linked d spokes ahead.
LEMMA StartPlaces ==
    ASSUME TypeOK, NEW d \in 1 .. WHEEL_SIZE - 1
    PROVE  /\ SpokeFor(d) = At(current_spoke, d)
           /\ d \div WHEEL_SIZE = 0
  <1>1. d \in 1 .. WHEEL_SIZE - 1
    OBVIOUS
  <1>2. d % WHEEL_SIZE = d /\ d \div WHEEL_SIZE = 0
    <2>1. (0 + d) % WHEEL_SIZE = At(0, d)
      BY <1>1, WheelWrap, WheelAssumption
    <2>2. d % WHEEL_SIZE = d
      BY <1>1, <2>1, WheelAssumption DEF At
    <2>3. d \in Nat /\ WHEEL_SIZE \in Nat \ {0} /\ d < WHEEL_SIZE
      BY <1>1, WheelAssumption
    <2>4. d \div WHEEL_SIZE = 0
      BY <2>3, Z3
    <2> QED
      BY <2>2, <2>4
  <1>3. current_spoke \in Spokes
    BY DEF TypeOK
  <1>4. SpokeFor(d) = At(current_spoke, d)
    <2>1. (current_spoke + d) % WHEEL_SIZE = At(current_spoke, d)
      BY <1>1, <1>3, WheelWrap, WheelAssumption
    <2> QED
      BY <1>2, <2>1 DEF SpokeFor
  <1> QED
    BY <1>1, <1>2, <1>3, <1>4, WheelAssumption DEF At

\* The initial state.
LEMMA PlaceInit == Init => PlaceInv
  BY DEF Init, PlaceInv, ShortLinked, Linked

\* Every step keeps the timers in place.
LEMMA PlaceStep == TypeOK /\ PlaceInv /\ [Next]_vars => PlaceInv'
  <1> SUFFICES ASSUME TypeOK, PlaceInv, [Next]_vars PROVE PlaceInv'
    OBVIOUS
  <1>1. ASSUME NEW t \in Timers, lmtimer_create(t) PROVE PlaceInv'
    BY <1>1 DEF lmtimer_create, PlaceInv, ShortLinked, Short, Linked, First
  <1>2. ASSUME NEW t \in Timers, NEW d \in Durations, lmtimer_start(t, d) PROVE PlaceInv'
    <2>1. /\ spoke' = [spoke EXCEPT ![t] = SpokeFor(d)]
          /\ rotation_count' = [rotation_count EXCEPT ![t] = d \div WHEEL_SIZE]
          /\ duration' = [duration EXCEPT ![t] = d]
          /\ age' = [age EXCEPT ![t] = 0]
          /\ UNCHANGED <<current_spoke, pc, tptr>>
          /\ pc # "loop"
      BY <1>2 DEF lmtimer_start, insert_timer
    <2>2. ASSUME NEW u \in ShortLinked'
          PROVE  /\ rotation_count'[u] = 0
                 /\ age'[u] <= duration'[u]
                 /\ spoke'[u] = At(current_spoke', duration'[u] - age'[u])
                 /\ pc = "idle" => age'[u] < duration'[u]
      <3>1. CASE u = t
        <4>1. d \in 1 .. WHEEL_SIZE - 1
          BY <2>1, <2>2, <3>1 DEF ShortLinked, Short, TypeOK
        <4>2. SpokeFor(d) = At(current_spoke, d) /\ d \div WHEEL_SIZE = 0
          BY <4>1, StartPlaces
        <4> QED
          BY <2>1, <3>1, <4>1, <4>2, WheelAssumption DEF TypeOK, At
      <3>2. CASE u # t
        <4>1. u \in ShortLinked
          BY <2>1, <2>2, <3>2 DEF ShortLinked, Short, Linked, TypeOK
        <4>2. /\ duration'[u] = duration[u] /\ age'[u] = age[u] /\ spoke'[u] = spoke[u]
              /\ rotation_count'[u] = rotation_count[u]
          BY <2>1, <3>2, <4>1 DEF TypeOK, ShortLinked, Linked
        <4> QED
          BY <2>1, <4>1, <4>2 DEF PlaceInv
      <3> QED
        BY <3>1, <3>2
    <2> QED
      BY <2>1, <2>2 DEF PlaceInv
  <1>3. ASSUME NEW t \in Timers, lmtimer_stop(t) PROVE PlaceInv'
    <2>1. ShortLinked' \subseteq ShortLinked /\ \A u \in ShortLinked' : spoke'[u] = spoke[u]
      BY <1>3 DEF lmtimer_stop, ShortLinked, Short, Linked, TypeOK
    <2> QED
      BY <1>3, <2>1 DEF lmtimer_stop, PlaceInv
  <1>4. CASE handle_timers_begin
    <2>1. current_spoke' = At(current_spoke, 1) /\ current_spoke \in Spokes
      BY <1>4, WheelWrap, WheelAssumption DEF handle_timers_begin, TypeOK
    <2>2. ShortLinked' = ShortLinked
      BY <1>4 DEF handle_timers_begin, ShortLinked, Short, Linked
    <2>3. ASSUME NEW u \in ShortLinked
          PROVE  /\ rotation_count'[u] = 0
                 /\ age'[u] <= duration'[u]
                 /\ spoke'[u] = At(current_spoke', duration'[u] - age'[u])
      <3>1. /\ u \in Timers /\ u \in Linked
            /\ age[u] \in Nat
            /\ duration[u] \in 1 .. WHEEL_SIZE - 1
            /\ age[u] < duration[u]
            /\ spoke[u] = At(current_spoke, duration[u] - age[u])
            /\ rotation_count[u] = 0
        BY <1>4 DEF handle_timers_begin, PlaceInv, ShortLinked, Short, Linked, TypeOK
      <3>2. /\ age'[u] = age[u] + 1 /\ duration'[u] = duration[u] /\ spoke'[u] = spoke[u]
            /\ rotation_count'[u] = rotation_count[u]
        BY <1>4, <3>1 DEF handle_timers_begin
      <3>3. (duration[u] - age[u]) - 1 = duration[u] - (age[u] + 1)
        BY <3>1
      <3>4. duration[u] - age[u] \in 1 .. WHEEL_SIZE - 1
        BY <3>1, WheelAssumption
      <3>5. At(At(current_spoke, 1), (duration[u] - age[u]) - 1) = spoke[u]
        BY <2>1, <3>1, <3>4, TickMoves
      <3> QED
        BY <2>1, <3>1, <3>2, <3>3, <3>5
    <2> QED
      BY <1>4, <2>2, <2>3 DEF handle_timers_begin, PlaceInv, First
  <1>5. CASE handle_timers_rotate
    <2>1. tptr \in Timers /\ tptr \notin ShortLinked
      BY <1>5 DEF handle_timers_rotate, PlaceInv, TypeOK
    <2>2. ShortLinked' = ShortLinked /\ \A u \in ShortLinked : rotation_count'[u] = rotation_count[u]
      BY <1>5, <2>1 DEF handle_timers_rotate, ShortLinked, Short, Linked, TypeOK
    <2> QED
      BY <1>5, <2>2 DEF handle_timers_rotate, PlaceInv, First
  <1>6. CASE handle_timers_expire
    <2>1. ShortLinked' \subseteq ShortLinked /\ \A u \in ShortLinked' : spoke'[u] = spoke[u]
      BY <1>6 DEF handle_timers_expire, ShortLinked, Short, Linked, TypeOK
    <2> QED
      BY <1>6, <2>1 DEF handle_timers_expire, PlaceInv
  <1>7. CASE handle_timers_next
    BY <1>7 DEF handle_timers_next, PlaceInv, ShortLinked, Short, Linked, First
  <1>8. CASE handle_timers_end
    <2>1. \A u \in ShortLinked : age[u] < duration[u]
      <3> SUFFICES ASSUME NEW u \in ShortLinked PROVE age[u] < duration[u]
        OBVIOUS
      <3>1. spoke[u] # current_spoke
        BY <1>8, WheelAssumption DEF handle_timers_end, PlaceInv, First, ShortLinked, Linked
      <3>2. age[u] <= duration[u] /\ age[u] \in Nat /\ duration[u] \in Nat
        BY DEF PlaceInv, TypeOK, ShortLinked, Linked
      <3>3. age[u] # duration[u]
        BY <3>1, DueOnCurrentSpoke
      <3> QED
        BY <3>2, <3>3
    <2> QED
      BY <1>8, <2>1 DEF handle_timers_end, PlaceInv, ShortLinked, Short, Linked
  <1>9. CASE UNCHANGED vars
    BY <1>9 DEF vars, PlaceInv, ShortLinked, Short, Linked, First
  <1> QED
    BY <1>1, <1>2, <1>3, <1>4, <1>5, <1>6, <1>7, <1>8, <1>9 DEF Next, handle_timers

\* In such a state the timer about to be called has waited its duration.
LEMMA PlaceOnTime == TypeOK /\ PlaceInv => ExpiresOnTime
  <1> SUFFICES ASSUME TypeOK, PlaceInv PROVE ExpiresOnTime
    OBVIOUS
  <1>1. ASSUME pc = "loop", tptr # NULL, Short(tptr) PROVE age[tptr] = duration[tptr]
    <2>1. tptr \in ShortLinked /\ spoke[tptr] = current_spoke
      BY <1>1, WheelAssumption DEF PlaceInv, First, ShortLinked, Linked, TypeOK
    <2> QED
      BY <2>1, DueOnCurrentSpoke
  <1> QED
    BY <1>1 DEF ExpiresOnTime, PlaceInv, ShortLinked

\* handle_timers calls every timer of less than a turn exactly the number of
\* seconds after lmtimer_start that was asked for, for any wheel and any
\* number of timers, and beside timers of any duration.
THEOREM TimersExpireOnTime == Spec => []ExpiresOnTime
  <1>1. CountInv => TypeOK
    BY DEF CountInv
  <1>2. Init => CountInv /\ PlaceInv
    BY CountInit, PlaceInit
  <1>3. (CountInv /\ PlaceInv) /\ [Next]_vars => (CountInv /\ PlaceInv)'
    BY <1>1, CountStep, PlaceStep
  <1>4. CountInv /\ PlaceInv => ExpiresOnTime
    BY <1>1, PlaceOnTime
  <1> QED
    BY <1>2, <1>3, <1>4, PTL DEF Spec

-----------------------------------------------------------------------------
(* The wheel implements TimerService.                                      *)

USE DEF Service!SInit, Service!SNext, Service!svars

\* The refinement mapping of the module TimerWheel, by name.
Waits == [t \in Timers |-> Remaining(t)]

Firing == IF pc = "callback" THEN tptr ELSE NULL

\* While a callback executes, the cursor is the timer that is being served.
CallbackInv == pc = "callback" => tptr # NULL

\* A timer has ticks left exactly when it is linked.
LEMMA RunningIsLinked ==
    ASSUME TypeOK
    PROVE  Service!Running = Linked
  <1>1. \A t \in Linked : Remaining(t) \in Int
    BY DEF Linked, TypeOK, Remaining
  <1>2. \A t \in Timers : t \notin Linked => Remaining(t) = NULL
    BY DEF Remaining
  <1> QED
    BY <1>1, <1>2, WheelAssumption DEF Service!Running, Linked

\* Every step of the wheel is a step of the service or leaves it unchanged.
LEMMA ServiceStep ==
    ASSUME TypeOK, PlaceInv, CallbackInv, [Next]_vars
    PROVE  [Service!SNext]_(Service!svars)
  <1> USE WheelAssumption
  <1>1. ASSUME NEW t \in Timers, lmtimer_create(t) PROVE UNCHANGED <<Waits, Firing>>
    BY <1>1 DEF lmtimer_create, Waits, Remaining, Short, Firing, Linked
  <1>2. ASSUME NEW t \in Timers, NEW d \in Durations, lmtimer_start(t, d)
        PROVE  Service!SStart(t, d)
    <2>1. SpokeFor(d) \in Spokes
      BY WheelArithmetic DEF SpokeFor, TypeOK
    <2>2. Linked' = Linked \cup {t}
      BY <1>2, <2>1 DEF lmtimer_start, insert_timer, Linked, TypeOK
    <2>3. /\ duration' = [duration EXCEPT ![t] = d]
          /\ age' = [age EXCEPT ![t] = 0]
          /\ UNCHANGED <<pc, tptr>>
      BY <1>2 DEF lmtimer_start
    <2>4. Remaining(t)' = IF d \in 1 .. WHEEL_SIZE - 1 THEN d ELSE -1
      BY <2>2, <2>3 DEF TypeOK, Remaining, Short
    <2>5. \A u \in Timers \ {t} : Remaining(u)' = Remaining(u)
      BY <2>2, <2>3 DEF TypeOK, Remaining, Short
    <2>6. Waits' = [Waits EXCEPT ![t] = IF d \in 1 .. WHEEL_SIZE - 1 THEN d ELSE -1]
      BY <2>4, <2>5, Zenon DEF Waits
    <2> QED
      BY <2>3, <2>6 DEF Service!SStart, Service!Sometime, Waits, Firing
  <1>3. ASSUME NEW t \in Timers, lmtimer_stop(t) PROVE Service!SStop(t)
    <2>1. Linked' = Linked \ {t}
      BY <1>3 DEF lmtimer_stop, Linked, TypeOK
    <2>2. Waits' = [Waits EXCEPT ![t] = NULL]
      BY <1>3, <2>1, Zenon DEF lmtimer_stop, Waits, Remaining, Short
    <2> QED
      BY <1>3, <2>2 DEF lmtimer_stop, Service!SStop, Waits
  <1>4. CASE handle_timers_begin
    <2>1. Linked' = Linked /\ duration' = duration
      BY <1>4 DEF handle_timers_begin, Linked
    <2>2. \A t \in ShortLinked : duration[t] - age[t] > 0
      BY <1>4 DEF handle_timers_begin, PlaceInv, ShortLinked, Linked, TypeOK
    <2>3. \A t \in Linked : /\ duration[t] \in Nat /\ age[t] \in Nat
                            /\ age'[t] = age[t] + 1
      BY <1>4 DEF handle_timers_begin, Linked, TypeOK
    <2>4. ASSUME NEW t \in Timers
          PROVE  /\ t \in Linked => Remaining(t) # 0
                 /\ Remaining(t)' = IF t \in Linked /\ Remaining(t) # -1 THEN Remaining(t) - 1
                                                                        ELSE Remaining(t)
      <3>1. CASE t \notin Linked
        BY <2>1, <3>1 DEF Remaining
      <3>2. CASE t \in Linked /\ ~Short(t)
        BY <2>1, <3>2 DEF Remaining, Short
      <3>3. CASE t \in ShortLinked
        <4>1. Remaining(t) = duration[t] - age[t] /\ Remaining(t)' = duration[t] - (age[t] + 1)
          BY <2>1, <2>3, <3>3 DEF Remaining, Short, ShortLinked
        <4> QED
          BY <2>2, <2>3, <3>3, <4>1 DEF ShortLinked
      <3> QED
        BY <3>1, <3>2, <3>3 DEF ShortLinked
    <2>5. Firing = NULL /\ Firing' = NULL
      BY <1>4 DEF handle_timers_begin, Firing
    <2>6. /\ \A t \in Linked : Waits[t] # 0
          /\ Waits' = [t \in Timers |-> IF t \in Linked /\ Waits[t] # -1 THEN Waits[t] - 1
                                                                        ELSE Waits[t]]
      BY <2>4 DEF Waits, Linked
    <2> QED
      BY <2>5, <2>6, RunningIsLinked DEF Service!STick, Service!Sometime, Waits, Firing
  <1>5. CASE handle_timers_rotate
    BY <1>5 DEF handle_timers_rotate, Remaining, Short, Linked
  <1>6. CASE handle_timers_expire
    <2>1. tptr \in Timers /\ tptr \in Linked /\ spoke[tptr] = current_spoke
      BY <1>6 DEF handle_timers_expire, PlaceInv, First, Linked, TypeOK
    <2>2. Linked' = Linked \ {tptr}
      BY <1>6, <2>1 DEF handle_timers_expire, Linked, TypeOK
    <2>3. Short(tptr) => age[tptr] = duration[tptr]
      BY <2>1, DueOnCurrentSpoke DEF ShortLinked
    <2>4. Waits[tptr] \in {0, -1}
      BY <2>1, <2>3 DEF Waits, Remaining, TypeOK
    <2>5. Waits' = [Waits EXCEPT ![tptr] = NULL]
      BY <1>6, <2>2, Zenon DEF handle_timers_expire, Waits, Remaining, Short
    <2>6. Firing = NULL /\ Firing' = tptr
      BY <1>6 DEF handle_timers_expire, Firing
    <2>7. PICK t \in Timers : t = tptr
      BY <2>1
    <2>8. Service!SFire(t)
      BY <2>1, <2>4, <2>5, <2>6, <2>7, RunningIsLinked
         DEF Service!SFire, Service!Sometime, Waits, Firing
    <2> QED
      BY <2>8
  <1>7. CASE handle_timers_next
    <2>1. Firing # NULL /\ Firing' = NULL /\ Waits' = Waits
      BY <1>7 DEF handle_timers_next, Firing, Waits, Remaining, Short, Linked, CallbackInv
    <2> QED
      BY <2>1 DEF Service!SReturn, Firing, Waits
  <1>8. CASE handle_timers_end
    BY <1>8 DEF handle_timers_end, Linked, Remaining, Short
  <1>9. CASE UNCHANGED vars
    BY <1>9 DEF vars, Linked, Remaining, Short
  <1>10. ASSUME NEW t \in Timers, lmtimer_create(t) PROVE UNCHANGED Service!svars
    BY <1>1, <1>10 DEF Waits, Firing
  <1> QED
    BY <1>2, <1>3, <1>4, <1>5, <1>6, <1>7, <1>8, <1>9, <1>10 DEF Next, handle_timers

\* The wheel of lib/timers.c implements the timers the rest of lispd relies
\* on, exactly for durations of less than a turn.
THEOREM WheelImplementsService == Spec => ServiceSpec
  <1> DEFINE I == CountInv /\ PlaceInv /\ CallbackInv
  <1>1. Init => I
    BY CountInit, PlaceInit DEF Init, CallbackInv
  <1>2. I /\ [Next]_vars => I'
    <2>1. CallbackInv /\ [Next]_vars => CallbackInv'
      BY DEF CallbackInv, Next, vars, handle_timers, lmtimer_create, lmtimer_start,
             lmtimer_stop, handle_timers_begin, handle_timers_rotate,
             handle_timers_expire, handle_timers_next, handle_timers_end
    <2> QED
      BY <2>1, CountStep, PlaceStep DEF CountInv
  <1>3. Init => Service!SInit
    BY DEF Init, Linked, Remaining
  <1>4. I /\ [Next]_vars => [Service!SNext]_(Service!svars)
    BY ServiceStep DEF CountInv
  <1> QED
    BY <1>1, <1>2, <1>3, <1>4, PTL DEF Spec, ServiceSpec, Service!SSpec

=============================================================================
