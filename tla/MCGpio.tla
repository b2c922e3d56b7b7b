------------------------------- MODULE MCGpio --------------------------------
(***************************************************************************)
(* One always-on pin, the LED of the handlers, and two pins with           *)
(* interrupts.  Main sets up one pin as example_gpio_intr does, with its   *)
(* handler assigned before interrupts are enabled, and goes on with calls  *)
(* that leave the LED's output to the handlers.                            *)
(***************************************************************************)
EXTENDS Gpio_proofs

Config(p, out, sampling, intr) ==
    [f |-> "config", pin |-> p, out |-> out, en_input_sampling |-> sampling, intr |-> intr]

MCSetup ==
    <<[f |-> "plic_init"],
      [f |-> "assign", pin |-> 8], [f |-> "assign", pin |-> 9],
      [f |-> "plic_prio", pin |-> 8, p |-> 1], [f |-> "plic_prio", pin |-> 9, p |-> 1],
      [f |-> "plic_enable", pin |-> 8, v |-> TRUE], [f |-> "plic_enable", pin |-> 9, v |-> TRUE],
      Config(8, FALSE, TRUE, <<"RISE", "FALL">>)>>

MCCalls ==
    {Config(1, TRUE, FALSE, <<>>), Config(9, FALSE, TRUE, <<"FALL", "HIGH">>),
     Config(9, FALSE, TRUE, <<"RISE">>),
     [f |-> "intr_mode", pin |-> 8, v |-> TRUE], [f |-> "reset", pin |-> 8],
     [f |-> "reset_all"], [f |-> "set_mode", pin |-> 9, out |-> TRUE],
     [f |-> "sampling", pin |-> 9, v |-> TRUE], [f |-> "sampling", pin |-> 8, v |-> FALSE],
     [f |-> "read", pin |-> 8], [f |-> "write", pin |-> 9, v |-> TRUE], [f |-> "toggle", pin |-> 9],
     [f |-> "intr", pin |-> 8, v |-> FALSE, k |-> "RISE"], [f |-> "intr", pin |-> 9, v |-> TRUE, k |-> "LOW"],
     [f |-> "check", pin |-> 8], [f |-> "check_kind", pin |-> 8, k |-> "FALL"],
     [f |-> "clear", pin |-> 9], [f |-> "clear_kind", pin |-> 8, k |-> "RISE"],
     [f |-> "plic_enable", pin |-> 8, v |-> FALSE], [f |-> "plic_edge", pin |-> 8, v |-> TRUE],
     [f |-> "plic_read"], [f |-> "threshold", p |-> 1], [f |-> "threshold", p |-> 2]}
==============================================================================
