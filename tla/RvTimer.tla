------------------------------ MODULE RvTimer --------------------------------
(***************************************************************************)
(* The timer with one hart and one comparator, and its driver.  The 64-bit *)
(* registers are two words of W values each; the counter runs between any  *)
(* two register accesses.  A function of the driver is the sequence of its *)
(* accesses.                                                               *)
(***************************************************************************)
EXTENDS Naturals, Sequences, FiniteSetsExt

CONSTANTS
    W,              \* values of a register word (2^32)
    PRESCALE_MASK, STEP_MASK \* the largest values of the two fields of CFG0

ASSUME TimerAssumption ==
    W \in Nat \ {0, 1} /\ PRESCALE_MASK \in Nat /\ STEP_MASK \in Nat \ {0}

VARIABLES
    mtime,        \* [hi, lo]
    mtimecmp,     \* [hi, lo]
    cfg,          \* [prescale, step]
    active,       \* the hart's bit of CTRL
    intr_enable, intr_state

timerVars == <<mtime, mtimecmp, cfg, active, intr_enable, intr_state>>

Words == 0..W - 1
Value(r) == r.hi * W + r.lo
Pair(v) == [hi |-> v \div W, lo |-> v % W]
AllOnes == [hi |-> W - 1, lo |-> W - 1]

TimerInit ==
    /\ mtime = Pair(0) /\ mtimecmp = AllOnes /\ cfg = [prescale |-> 0, step |-> 1]
    /\ active = FALSE /\ intr_enable = FALSE /\ intr_state = FALSE

-----------------------------------------------------------------------------
(* The hardware.  The prescaler decides how long a tick takes, the counter is *)
(* followed until its 64 bits are used up.                                    *)

Tick ==
    /\ active /\ cfg.step > 0 /\ Value(mtime) + cfg.step < W * W
    /\ mtime' = Pair(Value(mtime) + cfg.step)
    /\ UNCHANGED <<mtimecmp, cfg, active, intr_enable, intr_state>>

Expired == active /\ Value(mtime) >= Value(mtimecmp)

Expire ==
    /\ Expired /\ ~intr_state /\ intr_state' = TRUE
    /\ UNCHANGED <<mtime, mtimecmp, cfg, active, intr_enable>>

line == intr_state /\ intr_enable

-----------------------------------------------------------------------------
(* The driver. *)

Access(reg, value) == [reg |-> reg, value |-> value]

\* Euclid's loop: from (a, b) to (b, a % b) until b is 0.
euclidean_gcd(x, y) ==
    LET gcd[b \in 0..Max({x, y})] ==
            [a \in 0..Max({x, y}) |-> IF b = 0 THEN a ELSE gcd[a % b][b]]
    IN gcd[y][x]

\* <<>> when the ratio cannot be represented.
rv_timer_approximate_tick_params(clock_freq, counter_freq) ==
    LET gcd == euclidean_gcd(clock_freq, counter_freq)
        prescale == clock_freq \div gcd - 1
        step == counter_freq \div gcd
    IN IF prescale > PRESCALE_MASK \/ step > STEP_MASK
       THEN <<>> ELSE <<[prescale |-> prescale, step |-> step]>>

rv_timer_set_tick_params_early(params) == <<Access("cfg", [params EXCEPT !.prescale = @ + 1])>>
rv_timer_set_tick_params(params) == <<Access("cfg", params)>>
rv_timer_counter_set_enabled(on) == <<Access("ctrl", on)>>
rv_timer_irq_enable(on) == <<Access("intr_enable", on)>>
rv_timer_irq_disable == <<Access("intr_enable", FALSE)>>
rv_timer_irq_restore(state) == <<Access("intr_enable", state)>>
rv_timer_irq_clear == <<Access("intr_state", FALSE)>>
rv_timer_irq_force == <<Access("intr_test", TRUE)>>

rv_timer_counter_read_once == <<Access("read_upper", 0), Access("read_lower", 0)>>

\* Upper, lower and upper again, from the start when the two differ.
rv_timer_counter_read ==
    <<Access("read_upper", 0), Access("read_lower", 0), Access("check_upper", 0)>>

rv_timer_arm_lower_first(threshold) ==
    <<Access("cmp_lower", Pair(threshold).lo), Access("cmp_upper", Pair(threshold).hi)>>

\* The upper half is out of reach while the lower one is written.
rv_timer_arm(threshold) ==
    <<Access("cmp_upper", W - 1), Access("cmp_lower", Pair(threshold).lo),
      Access("cmp_upper", Pair(threshold).hi)>>

rv_timer_reset ==
    <<Access("ctrl", FALSE), Access("intr_enable", FALSE), Access("intr_state", FALSE)>>
        \o rv_timer_arm(Value(AllOnes))
        \o <<Access("mtime_lower", 0), Access("mtime_upper", 0)>>

rv_timer_init == rv_timer_reset

-----------------------------------------------------------------------------
(* What an access does to the registers; a write to the comparator clears the *)
(* interrupt.                                                                 *)

ReadsRegister(a) == a.reg \in {"read_upper", "read_lower", "check_upper"}

Writes(a) ==
    /\ mtime' = CASE a.reg = "mtime_lower" -> [mtime EXCEPT !.lo = a.value]
                  [] a.reg = "mtime_upper" -> [mtime EXCEPT !.hi = a.value]
                  [] OTHER -> mtime
    /\ mtimecmp' = CASE a.reg = "cmp_lower" -> [mtimecmp EXCEPT !.lo = a.value]
                     [] a.reg = "cmp_upper" -> [mtimecmp EXCEPT !.hi = a.value]
                     [] OTHER -> mtimecmp
    /\ cfg' = IF a.reg = "cfg" THEN a.value ELSE cfg
    /\ active' = IF a.reg = "ctrl" THEN a.value ELSE active
    /\ intr_enable' = IF a.reg = "intr_enable" THEN a.value ELSE intr_enable
    /\ intr_state' = IF a.reg = "intr_test" THEN TRUE
                     ELSE intr_state /\ a.reg \notin {"intr_state", "cmp_lower", "cmp_upper"}

=============================================================================
