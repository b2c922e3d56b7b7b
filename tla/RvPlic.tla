------------------------------- MODULE RvPlic --------------------------------
(***************************************************************************)
(* The platform interrupt controller as the driver sees it: the gateways,  *)
(* which latch a source until it is claimed and hold it off until it is    *)
(* completed, the target, which offers the pending source of the highest   *)
(* priority one cycle later, and the calls of the driver as the sequences  *)
(* of register accesses they are.  Every step of a specification that      *)
(* extends this module is one clock cycle.                                 *)
(***************************************************************************)
EXTENDS Naturals, Sequences, FiniteSets

CONSTANTS
    Sources,         \* interrupt ids in use, without NULL_INTR
    plicMaxPriority

ASSUME PlicAssumption == Sources \subseteq Nat \ {0} /\ plicMaxPriority \in Nat \ {0}

NULL_INTR == 0

VARIABLES
    ie, le,          \* sources enabled, sources triggered by an edge
    prio, threshold,
    ip, ia,          \* interrupt pending, interrupt active
    src_q,           \* the sources in the cycle before
    irq, irq_id,     \* the registered outputs of the target
    handlers         \* the table of the driver: "null" until it is filled

plicVars == <<ie, le, prio, threshold, ip, ia, src_q, irq, irq_id, handlers>>

PlicInit ==
    /\ ie = {} /\ le = {} /\ prio = [s \in Sources |-> 0] /\ threshold = 0
    /\ ip = {} /\ ia = {} /\ src_q = {}
    /\ irq = FALSE /\ irq_id = NULL_INTR
    /\ handlers = [s \in Sources \cup {NULL_INTR} |-> "null"]

\* IP, LE and IE hold one bit per source, PRIO one register per source, and the threshold is
\* compared with the priorities.
BitRegs == SUBSET Sources
Priorities == 0..plicMaxPriority

PlicTypeOK ==
    /\ {ie, le, ip, ia, src_q} \subseteq BitRegs
    /\ prio \in [Sources -> Priorities] /\ threshold \in Priorities
    /\ irq \in BOOLEAN /\ irq_id \in Sources \cup {NULL_INTR}
    /\ handlers \in [Sources \cup {NULL_INTR} -> {"null", "dummy", "handler_irq_gpio"}]

-----------------------------------------------------------------------------
(* The hardware, in one cycle: src are the sources, claim and complete the  *)
(* ids read from and written to CC0 in this cycle.                          *)

\* A source sets its gateway by its level or by its rise.
Triggered(src) == {s \in src : s \in le => s \notin src_q}

Gateway(src, claim, complete) ==
    /\ ip' = (ip \cup (Triggered(src) \ ia)) \ (ip \cap claim)
    /\ ia' = (ia \cup Triggered(src)) \ ((ia \cap complete) \ ip)
    /\ src_q' = src

\* The tree prefers the higher priority and, of equals, the lower id.
Winners == {s \in ip \cap ie : \A t \in (ip \cap ie) \ {s} :
                prio[s] > prio[t] \/ (prio[s] = prio[t] /\ s < t)}

\* The threshold holds back the request but not the id.
Target ==
    /\ irq' = (\E s \in Winners : prio[s] > threshold)
    /\ irq_id' = IF Winners = {} THEN NULL_INTR ELSE CHOOSE s \in Winners : TRUE

-----------------------------------------------------------------------------
(* The driver.  An access names a register, and the bit or the number it     *)
(* writes; a read-modify-write is two accesses.                              *)

Op(op, r, bit, n) == [op |-> op, reg |-> r, bit |-> bit, n |-> n]
Modify(r, bit, v) == <<Op("load", r, 0, 0), Op(IF v THEN "set" ELSE "unset", r, bit, 0)>>

plic_irq_set_enabled(s, on) == Modify("IE0", s, on)
plic_irq_get_enabled == <<Op("load", "IE0", 0, 0)>>
plic_irq_is_pending == <<Op("load", "IP0", 0, 0)>>
plic_irq_set_trigger(s, edge) == Modify("LE0", s, edge)
plic_irq_set_priority(s, p) == IF p \notin Priorities THEN <<>> ELSE <<Op("prio", "PRIO", s, p)>>
plic_target_set_threshold(t) == IF t \notin Priorities THEN <<>> ELSE <<Op("threshold", "THRESHOLD0", 0, t)>>

\* The fixed handlers of the peripherals, the dummy for the rest.
plic_reset_handlers_list(gpios) ==
    [s \in Sources \cup {NULL_INTR} |-> IF s \in gpios THEN "handler_irq_gpio" ELSE "dummy"]

\* Clears the triggers, the priorities, the enables and the threshold, in this order.
plic_Init ==
    <<Op("clear", "LE0", 0, 0), Op("prio0", "PRIO", 0, 0), Op("clear", "IE0", 0, 0),
      Op("threshold", "THRESHOLD0", 0, 0), Op("handlers", "", 0, 0)>>
==============================================================================
