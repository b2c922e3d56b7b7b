---------------------------- MODULE FastIntrCtrl ----------------------------
(***************************************************************************)
(* The fast interrupt controller (hw/ip/fast_intr_ctrl/rtl/                *)
(* fast_intr_ctrl.sv), the handlers of its driver (sw/device/lib/drivers/  *)
(* fast_intr_ctrl/fast_intr_ctrl.c) and the devices on its lines.          *)
(*                                                                         *)
(* One step is one clock cycle: the registers of the controller move, a    *)
(* device may raise its line, and software makes at most one access.       *)
(***************************************************************************)
EXTENDS Integers, FiniteSets

CONSTANTS
    Lines,      \* the lines in use, of the 15 of fast_intr_i
    Pulsing,    \* the lines whose device raises them for one cycle only
    MaxEvents   \* bound on the events of one device

ASSUME FicAssumption ==
    /\ Pulsing \subseteq Lines
    /\ MaxEvents \in Nat

VARIABLES
    fast_intr_i,        \* the lines
    fast_intr_pending,  \* the registers of the controller, one bit per line;
    fast_intr_clear,    \* fast_intr_o is fast_intr_pending
    fast_intr_enable,
    handler,            \* the handler that runs, and how far it is
    owed,               \* history: events that no handler has attended to
    events              \* history: how often each device raised its line

ficVars == << fast_intr_i, fast_intr_pending, fast_intr_clear, fast_intr_enable,
              handler, owed, events >>

None == [ line |-> "none", at |-> "none" ]
Off == [ l \in Lines |-> FALSE ]

FicInit ==
    /\ fast_intr_i = Off /\ fast_intr_pending = Off /\ fast_intr_clear = Off
    /\ fast_intr_enable = [ l \in Lines |-> TRUE ]
    /\ handler = None
    /\ owed = Off /\ events = [ l \in Lines |-> 0 ]

-----------------------------------------------------------------------------
(* The registers.  A line that is cleared, or that is up, makes the        *)
(* hardware write the whole pending register, with 0 for every other line; *)
(* a clear bit resets itself unless software writes it in that cycle.      *)

(* fast_intr_pending_de, before it is or-ed over the lines.                *)
pending_de == \E l \in Lines : fast_intr_clear[l] \/ fast_intr_i[l]

pending_d == [ l \in Lines |-> /\ ~fast_intr_clear[l]
                               /\ fast_intr_i[l]
                               /\ fast_intr_enable[l] ]

Pending == fast_intr_pending' = IF pending_de THEN pending_d ELSE fast_intr_pending

(* Mutant: fast_intr_clear_de is not driven, a clear bit stays set.        *)
ClearSticks(written) ==
    fast_intr_clear' = [ l \in Lines |-> IF written = {} THEN fast_intr_clear[l]
                                                         ELSE l \in written ]

Clear(written) ==
    fast_intr_clear' = [ l \in Lines |-> l \in written ]

-----------------------------------------------------------------------------
(* The devices.  raised are the devices with a new event in this cycle; a  *)
(* line stays up until its device is attended to (acked), a pulse falls by *)
(* itself.                                                                 *)
Devices(raised, acked) ==
    /\ \A l \in raised : events[l] < MaxEvents
    /\ fast_intr_i' = [ l \in Lines |-> \/ l \in raised
                                        \/ l \notin Pulsing \cup acked /\ fast_intr_i[l] ]
    /\ owed' = [ l \in Lines |-> l \in raised \/ (l \notin acked /\ owed[l]) ]
    /\ events' = [ l \in Lines |-> events[l] + (IF l \in raised THEN 1 ELSE 0) ]

-----------------------------------------------------------------------------
(* Software.  handler_irq_fast_x first calls clear_fast_interrupt, which   *)
(* writes FAST_INTR_CLEAR, then fic_irq_x, which attends to the device;    *)
(* interrupts are off while it runs.                                       *)

Hardware(raised, written, acked) ==
    Pending /\ Clear(written) /\ Devices(raised, acked)

Cycle(raised) ==
    /\ Hardware(raised, {}, {})
    /\ UNCHANGED << handler, fast_intr_enable >>

TakeInterrupt(raised, l) ==
    /\ handler = None
    /\ fast_intr_pending[l]
    /\ handler' = [ line |-> l, at |-> "clear" ]
    /\ Hardware(raised, {}, {})
    /\ UNCHANGED fast_intr_enable

clear_fast_interrupt(raised) ==
    /\ handler.at = "clear"
    /\ handler' = [ handler EXCEPT !.at = "fic_irq" ]
    /\ Hardware(raised, {handler.line}, {})
    /\ UNCHANGED fast_intr_enable

fic_irq(raised) ==
    /\ handler.at = "fic_irq"
    /\ handler' = None
    /\ Hardware(raised, {}, {handler.line})
    /\ UNCHANGED fast_intr_enable

enable_fast_interrupt(raised, l, enable) ==
    /\ handler = None
    /\ fast_intr_enable' = [ fast_intr_enable EXCEPT ![l] = enable ]
    /\ Hardware(raised, {}, {})
    /\ UNCHANGED handler

enable_all_fast_interrupts(raised, enable) ==
    /\ handler = None
    /\ fast_intr_enable' = [ l \in Lines |-> enable ]
    /\ Hardware(raised, {}, {})
    /\ UNCHANGED handler

Service(raised) ==
    \/ \E l \in Lines : TakeInterrupt(raised, l)
    \/ clear_fast_interrupt(raised)
    \/ fic_irq(raised)

Configure(raised) ==
    \E enable \in BOOLEAN :
        \/ \E l \in Lines : enable_fast_interrupt(raised, l, enable)
        \/ enable_all_fast_interrupts(raised, enable)

FicNext == \E raised \in SUBSET Lines :
               Cycle(raised) \/ Service(raised) \/ Configure(raised)

(* The clock runs, and the processor takes a pending interrupt and         *)
(* finishes its handler.                                                   *)
FicSpec ==
    /\ FicInit /\ [][FicNext]_ficVars
    /\ WF_ficVars(\E raised \in SUBSET Lines : Cycle(raised))
    /\ WF_ficVars(\E raised \in SUBSET Lines : Service(raised))

-----------------------------------------------------------------------------
(* Every event of a device that holds its line is attended to by a         *)
(* handler that runs after it, or its line is disabled: no clear of        *)
(* another line, and no clear that meets a new event, loses it.            *)
LevelServed ==
    \A l \in Lines \ Pulsing : owed[l] ~> (~owed[l] \/ ~fast_intr_enable[l])

=============================================================================
