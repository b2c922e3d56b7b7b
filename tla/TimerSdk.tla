------------------------------ MODULE TimerSdk -------------------------------
(***************************************************************************)
(* The timer software development kit: a stopwatch, an alarm and a wait,   *)
(* used by an application whose interrupt handler stops the timer and      *)
(* clears the interrupt.                                                   *)
(***************************************************************************)
EXTENDS RvTimer

CONSTANTS
    Thresholds,     \* arguments of timer_arm_set and timer_arm_start
    Waits,          \* arguments of timer_wait_us
    CyclesPerUs,    \* freq_hz / 1000000
    Lead,           \* cycles subtracted for the initialisation (50)
    Frequencies,    \* frequencies of the clock and asked of the counter
    MaxCalls

\* The comparator has two words, and the lead is less than a word.
ASSUME SdkAssumption ==
    /\ Thresholds \subseteq 0..W * W - 1
    /\ Waits \subseteq Nat /\ CyclesPerUs \in Nat /\ Lead \in 0..W
    /\ Frequencies \subseteq Nat \ {0}

VARIABLES
    prog,           \* what the running function has still to do
    isr,            \* what the handler has still to do
    mie,            \* mstatus.MIE and mie.MTIE
    upper, lower,   \* the halves read by rv_timer_counter_read
    hw_timer_value, \* int32_t, as a word
    ticks,          \* tick_params asked for: <<>> or <<[clock, counter]>>
    fn, calls,      \* the function called last, the calls made
    armed,          \* the thresholds in force: the last one, and the one being written
    seen,           \* the counter at the call and at the return of the last read
    watch           \* the stopwatch: the counter when it was called to start, when
                    \* it had started, when it was called to stop, and what it returned

sdkVars == <<prog, isr, mie, upper, lower, hw_timer_value, ticks, fn, calls, armed, seen, watch>>
vars == <<timerVars, sdkVars>>

NotSeen == [from |-> 0, value |-> 0, to |-> 0]
NoWatch == [on |-> FALSE, called |-> 0, started |-> 0, stopping |-> 0, until |-> 0, result |-> <<>>]

SdkInit ==
    /\ TimerInit
    /\ prog = <<>> /\ isr = <<>> /\ mie = FALSE /\ upper = 0 /\ lower = 0
    /\ hw_timer_value = 0 /\ ticks = <<>> /\ fn = "none" /\ calls = 0
    /\ armed = {Value(AllOnes)} /\ seen = NotSeen
    /\ watch = NoWatch

-----------------------------------------------------------------------------
(* The functions: accesses to registers and what is done with a value read. *)

Do(what) == <<[do |-> what]>>

timer_get_cycles == rv_timer_counter_read
timer_start_keeping == timer_get_cycles \o rv_timer_counter_set_enabled(TRUE)
timer_start == timer_get_cycles \o Do("subtract") \o rv_timer_counter_set_enabled(TRUE)
timer_stop == timer_get_cycles \o Do("add") \o rv_timer_counter_set_enabled(FALSE)
timer_reset == Do("zero") \o rv_timer_reset \o <<[do |-> "armed", threshold |-> Value(AllOnes)]>>
timer_arm_set(threshold) ==
    <<[do |-> "arming", threshold |-> threshold]>> \o rv_timer_arm(threshold)
        \o <<[do |-> "armed", threshold |-> threshold]>>
timer_arm_start(threshold) == timer_arm_set(threshold) \o timer_start
timer_arm_stop == rv_timer_counter_set_enabled(FALSE)

\* The rate asked for is the clock's.
timer_cycles_init ==
    timer_reset \o rv_timer_init
        \o rv_timer_set_tick_params(rv_timer_approximate_tick_params(1, 1)[1])

\* The number of cycles is a word: it wraps.
WaitThreshold(us) == (W + us * CyclesPerUs - Lead) % W

timer_wait_us_masked(us) ==
    timer_cycles_init \o timer_arm_start(WaitThreshold(us)) \o Do("wfi") \o rv_timer_irq_clear

timer_wait_us(us) ==
    timer_cycles_init \o rv_timer_irq_enable(TRUE) \o timer_arm_start(WaitThreshold(us))
        \o Do("wfi") \o rv_timer_irq_clear

\* The names tell apart the functions the properties are about.
Functions ==
    {[name |-> "timer_start", code |-> timer_start],
     [name |-> "timer_stop", code |-> timer_stop],
     [name |-> "timer_get_cycles", code |-> timer_get_cycles],
     [name |-> "timer_cycles_init", code |-> timer_cycles_init],
     [name |-> "other", code |-> timer_reset],
     [name |-> "other", code |-> rv_timer_irq_clear],
     [name |-> "other", code |-> rv_timer_irq_force],
     [name |-> "other", code |-> rv_timer_irq_disable]}
    \cup {[name |-> "other", code |-> rv_timer_irq_enable(on)] : on \in BOOLEAN}
    \cup {[name |-> "other", code |-> rv_timer_irq_restore(on)] : on \in BOOLEAN}
    \cup {[name |-> "other", code |-> timer_arm_set(t)] : t \in Thresholds}
    \cup {[name |-> "other", code |-> timer_arm_start(t)] : t \in Thresholds}
    \cup {[name |-> "timer_wait_us", code |-> timer_wait_us(us)] : us \in Waits}

Idle == prog = <<>> /\ isr = <<>>

\* The stopwatch runs from timer_start to timer_stop; anything else that
\* writes the counter or the value ends it.
Called(name) ==
    CASE name = "timer_start" -> [NoWatch EXCEPT !.on = TRUE, !.called = Value(mtime)]
      [] name = "timer_stop" -> [watch EXCEPT !.stopping = Value(mtime)]
      [] name = "timer_get_cycles" -> watch
      [] OTHER -> NoWatch

\* The application has called enable_timer_interrupt before timer_wait_us, as
\* timer_sdk.h:105 asks.
Call(f) ==
    /\ Idle /\ calls < MaxCalls
    /\ f.name = "timer_wait_us" => mie
    /\ f.name = "timer_stop" => watch.on /\ watch.result = <<>>
    /\ prog' = f.code /\ fn' = f.name /\ calls' = calls + 1
    /\ watch' = Called(f.name) /\ seen' = NotSeen
    /\ UNCHANGED <<timerVars, isr, mie, upper, lower, hw_timer_value, ticks, armed>>

\* rv_timer_approximate_tick_params and rv_timer_set_tick_params, refused when
\* the ratio cannot be represented.
SetTickParams(clock, counter) ==
    LET params == rv_timer_approximate_tick_params(clock, counter)
    IN /\ Idle /\ calls < MaxCalls /\ ~active
       /\ params # <<>>
       /\ Writes(rv_timer_set_tick_params(params[1])[1])
       /\ ticks' = <<[clock |-> clock, counter |-> counter]>>
       /\ calls' = calls + 1 /\ watch' = NoWatch
       /\ UNCHANGED <<prog, isr, mie, upper, lower, hw_timer_value, fn, armed, seen>>

enable_timer_interrupt ==
    /\ Idle /\ ~mie /\ mie' = TRUE
    /\ UNCHANGED <<timerVars, prog, isr, upper, lower, hw_timer_value, ticks, fn, calls, armed, seen, watch>>

-----------------------------------------------------------------------------
(* The steps of the running function and of the handler. *)

IsAccess(step) == "reg" \in DOMAIN step
Running == isr = <<>> /\ prog # <<>>
Leave == prog' = Tail(prog)

\* The end of timer_start and of timer_stop.
Returned(w) ==
    IF Len(prog) > 1 \/ ~w.on THEN w
    ELSE CASE fn = "timer_start" -> [w EXCEPT !.started = Value(mtime)]
           [] fn = "timer_stop" -> [w EXCEPT !.until = Value(mtime), !.result = <<hw_timer_value>>]
           [] OTHER -> w

WriteRegister ==
    /\ Running /\ IsAccess(prog[1]) /\ ~ReadsRegister(prog[1])
    /\ Writes(prog[1]) /\ Leave
    /\ watch' = Returned(watch)
    /\ ticks' = IF prog[1].reg = "cfg" THEN <<>> ELSE ticks
    /\ UNCHANGED <<isr, mie, upper, lower, hw_timer_value, fn, calls, armed, seen>>

ReadRegister ==
    /\ Running /\ IsAccess(prog[1])
    /\ \/ /\ prog[1].reg = "read_upper" /\ upper' = mtime.hi /\ UNCHANGED lower
          /\ seen' = [seen EXCEPT !.from = Value(mtime)] /\ Leave
       \/ /\ prog[1].reg = "read_lower" /\ lower' = mtime.lo /\ UNCHANGED upper
          /\ seen' = [seen EXCEPT !.value = upper * W + mtime.lo, !.to = Value(mtime)] /\ Leave
       \/ /\ prog[1].reg = "check_upper" /\ UNCHANGED <<upper, lower>>
          /\ IF mtime.hi = upper
             THEN seen' = [seen EXCEPT !.value = upper * W + lower, !.to = Value(mtime)] /\ Leave
             ELSE prog' = rv_timer_counter_read \o Tail(prog) /\ UNCHANGED seen
    /\ UNCHANGED <<timerVars, isr, mie, hw_timer_value, ticks, fn, calls, armed, watch>>

Compute ==
    /\ Running /\ ~IsAccess(prog[1]) /\ prog[1].do \notin {"wfi", "asleep"} /\ Leave
    /\ hw_timer_value' = CASE prog[1].do = "subtract" -> (W - lower) % W
                           [] prog[1].do = "add" -> (hw_timer_value + lower) % W
                           [] prog[1].do = "zero" -> 0
                           [] OTHER -> hw_timer_value
    /\ armed' = CASE prog[1].do = "arming" -> armed \cup {prog[1].threshold}
                  [] prog[1].do = "armed" -> {prog[1].threshold}
                  [] OTHER -> armed
    /\ UNCHANGED <<timerVars, isr, mie, upper, lower, ticks, fn, calls, seen, watch>>

\* The core goes to sleep unless an enabled interrupt is pending, and sleeps
\* until one is.
wfi ==
    /\ Running /\ prog[1] \in {[do |-> "wfi"], [do |-> "asleep"]}
    /\ IF line /\ mie THEN Leave
       ELSE prog[1] = [do |-> "wfi"] /\ prog' = <<[do |-> "asleep"]>> \o Tail(prog)
    /\ UNCHANGED <<timerVars, isr, mie, upper, lower, hw_timer_value, ticks, fn, calls, armed, seen, watch>>

\* The interrupt is taken, by a core that sleeps after the wake-up.
TakeInterrupt ==
    /\ line /\ mie /\ isr = <<>>
    /\ isr' = timer_arm_stop \o rv_timer_irq_clear
    /\ prog' = IF prog # <<>> /\ prog[1] = [do |-> "asleep"] THEN Tail(prog) ELSE prog
    /\ watch' = NoWatch
    /\ UNCHANGED <<timerVars, mie, upper, lower, hw_timer_value, ticks, fn, calls, armed, seen>>

handler_irq_timer ==
    /\ isr # <<>> /\ Writes(isr[1]) /\ isr' = Tail(isr)
    /\ UNCHANGED <<prog, mie, upper, lower, hw_timer_value, ticks, fn, calls, armed, seen, watch>>

Main == WriteRegister \/ ReadRegister \/ Compute \/ wfi
Handler == TakeInterrupt \/ handler_irq_timer

SdkNext ==
    \/ \E f \in Functions : Call(f)
    \/ \E clock, counter \in Frequencies : SetTickParams(clock, counter)
    \/ enable_timer_interrupt
    \/ Main \/ Handler
    \/ (Tick \/ Expire) /\ UNCHANGED sdkVars

\* The timer is clocked while it is active, the core runs its handler and then
\* the function it has interrupted.
SdkSpec ==
    /\ SdkInit /\ [][SdkNext]_vars
    /\ WF_vars(Main) /\ WF_vars(Handler)
    /\ WF_vars(Tick /\ UNCHANGED sdkVars) /\ WF_vars(Expire /\ UNCHANGED sdkVars)

-----------------------------------------------------------------------------
(* Properties. *)

\* Every register and variable has a value of its width.
TimerTypeOK ==
    /\ {mtime.hi, mtime.lo, mtimecmp.hi, mtimecmp.lo, upper, lower, hw_timer_value} \subseteq Words
    /\ cfg.prescale \in 0..PRESCALE_MASK /\ cfg.step \in 0..STEP_MASK
    /\ {active, intr_enable, intr_state, mie} \subseteq BOOLEAN

\* rv_timer_counter_read returns a value the running counter had during the
\* call, even when the lower half overflows between the reads.
ReadNotTorn ==
    prog = <<>> /\ fn = "timer_get_cycles" => seen.value \in seen.from..seen.to

\* timer_stop returns the cycles counted between timer_start and timer_stop:
\* at least those from the return of the one to the call of the other, at
\* most those from call to return, across overflows of the word.
StopwatchExact ==
    watch.result # <<>> =>
        \E cycles \in (watch.stopping - watch.started)..(watch.until - watch.called) :
            watch.result[1] = cycles % W

\* The counter runs at the rate asked for: rv_timer_approximate_tick_params
\* loses nothing in the ratio it accepts.
RateExact ==
    ticks # <<>> => cfg.step * ticks[1].clock = (cfg.prescale + 1) * ticks[1].counter

\* The interrupt of an alarm comes only when the counter has reached the
\* threshold in force, also while a new one is written in halves.
NoSpuriousAlarm ==
    [][~intr_state /\ intr_state' =>
          \/ \E t \in armed : Value(mtime) >= t
          \/ prog # <<>> /\ IsAccess(prog[1]) /\ prog[1].reg = "intr_test"]_vars

\* A timer_wait_us that goes to sleep with its counter running is woken and
\* returns, wherever the alarm finds it and whatever was armed before.
WaitReturns ==
    (fn = "timer_wait_us" /\ prog # <<>> /\ prog[1] = [do |-> "asleep"] /\ active) ~> prog = <<>>

\* timer_sdk.h:104, "Wait for a certain amount of microseconds": every
\* timer_wait_us returns.  An interrupt taken before the wfi is waited for in
\* vain (timer_sdk.c:121).
WaitEnds == (fn = "timer_wait_us" /\ prog # <<>>) ~> prog = <<>>

=============================================================================
