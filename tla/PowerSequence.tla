--------------------------- MODULE PowerSequence ---------------------------
(***************************************************************************)
(* The three small state machines the power manager is built from, as      *)
(* functions from the registers of a machine and its inputs in a clock     *)
(* cycle to the registers in the next one:                                 *)
(*   power_manager_sequence          one control signal of a domain that   *)
(*                                   software times,                       *)
(*   power_manager_counter_sequence  one control signal of the CPU domain, *)
(*                                   timed by two counters,                *)
(*   reg_to_counter                  a register that counts down.          *)
(* A control signal is TRUE when it has its idle value: the switch         *)
(* conducts, the outputs are not clamped, the reset is not asserted.       *)
(***************************************************************************)
EXTENDS Integers

CONSTANT Modulus                 \* the counters are registers modulo 2^32
ASSUME ModulusAssumption == Modulus \in Nat /\ Modulus > 2

Sequence == [fsm : {"RESET", "IDLE", "WAIT_SWITCH_ON", "WAIT_ACK", "SWITCH_ON"},
             out : BOOLEAN]

CounterSequence ==
    [fsm : {"RESET", "IDLE", "WAIT_SWITCH_OFF_COUNTER", "SWITCH_OFF",
            "WAIT_SWITCH_ON_COUNTER", "WAIT_ACK", "SWITCH_ON"},
     out : BOOLEAN]

Counter == [fsm : {"IDLE", "COUNT", "EXPIRE"}, q : 0 .. Modulus - 1]

AtReset(onoff) == [fsm |-> "RESET", out |-> onoff]

\* s is the machine in this cycle, onoff its signal during the reset.
power_manager_sequence(s, onoff, start_off, start_on, switch_ack) ==
    [fsm |-> CASE s.fsm = "RESET"          -> "IDLE"
               [] s.fsm = "IDLE"           -> IF start_off THEN "WAIT_SWITCH_ON" ELSE "IDLE"
               [] s.fsm = "WAIT_SWITCH_ON" -> IF start_on THEN "WAIT_ACK" ELSE "WAIT_SWITCH_ON"
               [] s.fsm = "WAIT_ACK"       -> IF switch_ack THEN "SWITCH_ON" ELSE "WAIT_ACK"
               [] s.fsm = "SWITCH_ON"      -> "IDLE",
     out |-> IF s.fsm = "RESET" THEN onoff ELSE s.fsm \in {"IDLE", "SWITCH_ON"}]

\* off_expired, on_expired: done_o of the two counters.
power_manager_counter_sequence(s, onoff, start_off, start_on, switch_ack, off_expired, on_expired) ==
    [fsm |-> CASE s.fsm = "RESET" -> "IDLE"
               [] s.fsm = "IDLE"  -> IF start_off THEN "WAIT_SWITCH_OFF_COUNTER" ELSE "IDLE"
               [] s.fsm = "WAIT_SWITCH_OFF_COUNTER" ->
                     IF off_expired THEN "SWITCH_OFF" ELSE s.fsm
               [] s.fsm = "SWITCH_OFF" ->
                     IF start_on THEN "WAIT_SWITCH_ON_COUNTER" ELSE s.fsm
               [] s.fsm = "WAIT_SWITCH_ON_COUNTER" ->
                     IF ~on_expired THEN s.fsm
                     ELSE IF switch_ack THEN "SWITCH_ON" ELSE "WAIT_ACK"
               [] s.fsm = "WAIT_ACK"  -> IF switch_ack THEN "SWITCH_ON" ELSE "WAIT_ACK"
               [] s.fsm = "SWITCH_ON" -> "IDLE",
     out |-> IF s.fsm = "RESET" THEN onoff
             ELSE s.fsm \in {"IDLE", "WAIT_SWITCH_OFF_COUNTER", "SWITCH_ON"}]

counter_start_switch_off(s, start_off) == s.fsm = "IDLE" /\ start_off
counter_start_switch_on(s, start_on) == s.fsm = "SWITCH_OFF" /\ start_on

\* The register is decremented in the cycle of the start and in every cycle
\* of COUNT, modulo its width: started at 0 or 1 it counts all the way round.
reg_to_counter(c, start, stop) ==
    LET d == (c.q + Modulus - 1) % Modulus
    IN  CASE c.fsm = "IDLE"   -> IF start THEN [fsm |-> "COUNT", q |-> d] ELSE c
          [] c.fsm = "COUNT"  -> [fsm |-> IF d = 0 THEN "EXPIRE" ELSE "COUNT", q |-> d]
          [] c.fsm = "EXPIRE" -> [c EXCEPT !.fsm = IF stop THEN "IDLE" ELSE "EXPIRE"]

done_o(c) == c.fsm = "EXPIRE"

=============================================================================
