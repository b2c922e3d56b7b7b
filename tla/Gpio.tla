-------------------------------- MODULE Gpio ---------------------------------
(***************************************************************************)
(* The two GPIO blocks, the driver's calls and the interrupt path through  *)
(* the PLIC.  A step is one clock cycle: the processor makes one register  *)
(* access, the pins may move, the blocks sample them and the gateways      *)
(* latch.  The driver selects a block through one global pointer and       *)
(* changes shared registers by reading and writing them back, so an        *)
(* interrupt may come between any two accesses of a call.                  *)
(***************************************************************************)
EXTENDS RvPlic

CONSTANTS
    Pins,                  \* pin numbers, the bits of every register
    GPIO_AO_DOMAIN_LIMIT,  \* pins below it belong to the always-on block
    Led,                   \* the output an interrupt handler toggles
    Setup, Calls,          \* the calls main starts with; the calls it may go on with
    MaxCalls, MaxMoves,    \* bounds: further calls, changes of an input
    ClockGated             \* the build of the input stage

ASSUME GpioAssumption == /\ Pins \subseteq Nat /\ Led \in Pins /\ GPIO_AO_DOMAIN_LIMIT \in Nat
                         /\ Sources = {p \in Pins : p >= GPIO_AO_DOMAIN_LIMIT}

VARIABLES
    regs,          \* per block, the registers as sets of bits
    gpio_perif,    \* the driver's pointer
    gpio_handlers, \* per source: "null", "dummy" or "app"
    thread,        \* main and isr: accesses to go, selected block, value loaded
    int_id,        \* id claimed by the interrupt in service
    pin, serial, serial_q, \* inputs, synchronised, and registered
    calls, moves,
    want,          \* ghost: per pin, the registers whose bit the caller wants set
    owed, events   \* ghosts: edges not served yet, pins with a reason for an interrupt

gpioVars == <<regs, gpio_perif, gpio_handlers, thread, int_id, pin, serial, serial_q,
              calls, moves, want, owed, events>>
vars == <<plicVars, gpioVars>>

AO == "AO"
PERI == "PERI"
Domain(p) == IF p < GPIO_AO_DOMAIN_LIMIT THEN AO ELSE PERI

Edges == {"RISE", "FALL"}
Kinds == {"RISE", "FALL", "HIGH", "LOW"}
Enables == [RISE |-> "RISE_EN0", FALL |-> "FALL_EN0", HIGH |-> "HIGH_EN0", LOW |-> "LOW_EN0"]
Status == [RISE |-> "RISE_STATUS0", FALL |-> "FALL_STATUS0",
           HIGH |-> "HIGH_STATUS0", LOW |-> "LOW_STATUS0"]
ConfigRegs == {"MODE0", "EN0", "OUT0"} \cup {Enables[k] : k \in Kinds}
BlockRegs == ConfigRegs \cup {Status[k] : k \in Kinds} \cup {"CFG"}

\* The calls with the arguments their types allow; a type of interrupt is none, one kind or two.
Types == {<<>>} \cup {<<k>> : k \in Kinds} \cup {<<j, k>> : j, k \in Kinds}
DriverCalls ==
    [f : {"config"}, pin : Pins, out : BOOLEAN, en_input_sampling : BOOLEAN, intr : Types]
    \cup [f : {"reset", "read", "toggle", "check", "clear"}, pin : Pins]
    \cup [f : {"set_mode"}, pin : Pins, out : BOOLEAN]
    \cup [f : {"sampling", "write", "intr_mode"}, pin : Pins, v : BOOLEAN]
    \cup [f : {"intr"}, pin : Pins, v : BOOLEAN, k : Kinds]
    \cup [f : {"check_kind", "clear_kind"}, pin : Pins, k : Kinds]
    \cup [f : {"plic_enable", "plic_edge"}, pin : Sources, v : BOOLEAN]
    \cup [f : {"assign"}, pin : Sources] \cup [f : {"plic_prio"}, pin : Sources, p : Nat]
    \cup [f : {"threshold"}, p : Nat] \cup [f : {"reset_all", "plic_init", "plic_read"}]

ASSUME CallsAssumption == Setup \in Seq(DriverCalls) /\ Calls \subseteq DriverCalls

-----------------------------------------------------------------------------
(* The calls of the driver. *)

select_gpio_domain(p) == <<Op("select", "", p, 0)>>
Set1(p, r, v) == select_gpio_domain(p) \o Modify(r, p, v)

gpio_intr_set_mode(p, mode) == select_gpio_domain(p) \o Modify("CFG", 0, mode)
gpio_set_mode(p, out) == Set1(p, "MODE0", out)
gpio_en_input_sampling(p) == Set1(p, "EN0", TRUE)
gpio_dis_input_sampling(p) == Set1(p, "EN0", FALSE)
gpio_write(p, v) == Set1(p, "OUT0", v)
\* Reads the register once for the other bits and once for its own.
gpio_toggle(p) ==
    select_gpio_domain(p)
    \o <<Op("load", "OUT0", 0, 0), Op("load", "OUT0", 0, 0), Op("toggle", "OUT0", p, 0)>>
gpio_read(p) == select_gpio_domain(p) \o <<Op("load", "IN0", 0, 0)>>
gpio_intr_en_kind(p, k) == Set1(p, Enables[k], TRUE)
gpio_intr_dis_kind(p, k) == Set1(p, Enables[k], FALSE)
gpio_intr_check_stat_kind(p, k) == select_gpio_domain(p) \o <<Op("load", Status[k], 0, 0)>>
\* The block is the one the last call left in the pointer.
gpio_intr_check_stat(p) == <<Op("unselected", "", p, 0), Op("load", "STATUS0", 0, 0)>>
gpio_intr_clear_stat_kind(p, k) == Set1(p, Status[k], TRUE)
gpio_intr_clear_stat(p) == Set1(p, "STATUS0", TRUE)

gpio_intr_dis_all(p) ==
    select_gpio_domain(p) \o Modify("RISE_EN0", p, FALSE) \o Modify("FALL_EN0", p, FALSE)
    \o Modify("HIGH_EN0", p, FALSE) \o Modify("LOW_EN0", p, FALSE)

\* A type of interrupt is one kind or two; the edge is enabled first.
gpio_intr_en(p, type) ==
    gpio_intr_dis_all(p)
    \o (IF Len(type) > 0 THEN gpio_intr_en_kind(p, type[1]) ELSE <<>>)
    \o (IF Len(type) > 1 THEN gpio_intr_en_kind(p, type[2]) ELSE <<>>)

\* CLEAR0 and SET0 read as zero: writing them back changes no output.
gpio_reset(p) ==
    gpio_intr_set_mode(p, FALSE) \o gpio_set_mode(p, FALSE) \o gpio_dis_input_sampling(p)
    \o gpio_intr_dis_all(p) \o gpio_intr_clear_stat(p)

\* gpio_config with the interrupts enabled before the input is sampled.
gpio_config_intr_first(c) ==
    gpio_reset(c.pin) \o gpio_set_mode(c.pin, c.out)
    \o (IF c.intr # <<>> THEN gpio_intr_en(c.pin, c.intr) ELSE <<>>)
    \o (IF c.en_input_sampling THEN gpio_en_input_sampling(c.pin) ELSE <<>>)

gpio_config(c) ==
    gpio_reset(c.pin) \o gpio_set_mode(c.pin, c.out)
    \o (IF c.en_input_sampling THEN gpio_en_input_sampling(c.pin) ELSE <<>>)
    \o (IF c.intr # <<>> THEN gpio_intr_en(c.pin, c.intr) ELSE <<>>)

ClearBlock(p) ==
    select_gpio_domain(p)
    \o [i \in 1..6 |-> Op("clear", <<"MODE0", "EN0", "RISE_EN0", "FALL_EN0", "HIGH_EN0", "LOW_EN0">>[i], 0, 0)]
    \o <<Op("ones", "STATUS0", 0, 0)>>

gpio_reset_all ==
    ClearBlock(0) \o ClearBlock(GPIO_AO_DOMAIN_LIMIT) \o <<Op("gpio_handlers", "", 0, 0)>>

Program(c) ==
    CASE c.f = "config"      -> gpio_config(c)
      [] c.f = "reset"       -> gpio_reset(c.pin)
      [] c.f = "reset_all"   -> gpio_reset_all
      [] c.f = "set_mode"    -> gpio_set_mode(c.pin, c.out)
      [] c.f = "sampling"    -> IF c.v THEN gpio_en_input_sampling(c.pin) ELSE gpio_dis_input_sampling(c.pin)
      [] c.f = "read"        -> gpio_read(c.pin)
      [] c.f = "write"       -> gpio_write(c.pin, c.v)
      [] c.f = "toggle"      -> gpio_toggle(c.pin)
      [] c.f = "intr"        -> IF c.v THEN gpio_intr_en_kind(c.pin, c.k) ELSE gpio_intr_dis_kind(c.pin, c.k)
      [] c.f = "check"       -> gpio_intr_check_stat(c.pin)
      [] c.f = "check_kind"  -> gpio_intr_check_stat_kind(c.pin, c.k)
      [] c.f = "clear"       -> gpio_intr_clear_stat(c.pin)
      [] c.f = "clear_kind"  -> gpio_intr_clear_stat_kind(c.pin, c.k)
      [] c.f = "intr_mode"   -> gpio_intr_set_mode(c.pin, c.v)
      [] c.f = "assign"      -> <<Op("assign", "", c.pin, 0)>>
      [] c.f = "plic_init"   -> plic_Init
      [] c.f = "plic_enable" -> plic_irq_set_enabled(c.pin, c.v)
      [] c.f = "plic_read"   -> plic_irq_get_enabled \o plic_irq_is_pending
      [] c.f = "plic_edge"   -> plic_irq_set_trigger(c.pin, c.v)
      [] c.f = "plic_prio"   -> plic_irq_set_priority(c.pin, c.p)
      [] c.f = "threshold"   -> plic_target_set_threshold(c.p)

\* The calls that configure their pin.
Configuring == {"config", "reset", "set_mode", "sampling", "write", "toggle", "intr"}

\* What the caller of a call asks for: the registers that hold the pin's bit.
Asked(c, p) ==
    LET w == want[p]
        Only(on, r) == IF on THEN w \cup {r} ELSE w \ {r}
    IN IF c.f = "reset_all" THEN w \cap {"OUT0"}
       ELSE IF c.f \notin Configuring \/ p # c.pin THEN w
       ELSE CASE c.f = "config" -> (w \cap {"OUT0"}) \cup (IF c.out THEN {"MODE0"} ELSE {})
                                     \cup (IF c.en_input_sampling THEN {"EN0"} ELSE {})
                                     \cup {Enables[c.intr[i]] : i \in DOMAIN c.intr}
              [] c.f = "reset"    -> w \cap {"OUT0"}
              [] c.f = "set_mode" -> Only(c.out, "MODE0")
              [] c.f = "sampling" -> Only(c.v, "EN0")
              [] c.f = "write"    -> Only(c.v, "OUT0")
              [] c.f = "toggle"   -> Only("OUT0" \notin w, "OUT0")
              [] c.f = "intr"     -> Only(c.v, Enables[c.k])

-----------------------------------------------------------------------------
(* The blocks. *)

Sampling(p) == p \in regs[Domain(p)]["EN0"] \ regs[Domain(p)]["MODE0"]

\* The signals of a pin that an enable bit lets through in this cycle.
Signals(k) ==
    {p \in Pins : CASE k = "RISE" -> serial[p] /\ ~serial_q[p]
                    [] k = "FALL" -> ~serial[p] /\ serial_q[p]
                    [] k = "HIGH" -> serial_q[p]
                    [] k = "LOW"  -> ~serial_q[p]}
Raised(d, k) == {p \in Signals(k) : Domain(p) = d /\ p \in regs[d][Enables[k]]}
Pending(d) == UNION {regs[d][Status[k]] : k \in Kinds}
Sticky(d) == 0 \in regs[d]["CFG"]
\* The lines to the PLIC: status in one mode, pulses in the other.
Lines == IF Sticky(PERI) THEN Pending(PERI) \cap Sources
                         ELSE UNION {Raised(PERI, k) : k \in Kinds}

\* A signal whose input stage is switched off stays as it was.
Frozen(p) == ~Sampling(p) /\ serial[p] # serial_q[p]

SampleInputs ==
    /\ serial' = [p \in Pins |-> IF ClockGated /\ ~Sampling(p) THEN serial[p] ELSE pin[p]]
    /\ serial_q' = [p \in Pins |-> IF Sampling(p) THEN serial[p] ELSE serial_q[p]]

\* New status is set, the bits written as one are cleared, and clearing wins.
Updated(d, r, value) ==
    [x \in BlockRegs |->
        IF \E k \in Kinds : x = Status[k]
        THEN LET k == CHOOSE k \in Kinds : x = Status[k]
             IN (regs[d][x] \cup Raised(d, k)) \ (IF r \in {x, "STATUS0"} THEN value ELSE {})
        ELSE IF x = r THEN value ELSE regs[d][x]]

Write(d, r, value) ==
    regs' = [b \in {AO, PERI} |-> Updated(b, IF b = d THEN r ELSE "", value)]
NoWrite == Write(AO, "", {})

\* What only main's calls change.
software == <<ie, le, prio, threshold, handlers, gpio_handlers>>
\* A cycle in which the processor writes no register.
Quiet == NoWrite /\ Gateway(Lines, {}, {}) /\ UNCHANGED software

ReadReg(d, r) ==
    CASE r = "IE0" -> ie [] r = "LE0" -> le [] r = "IP0" -> ip
      [] r = "IN0" -> {p \in Pins : Domain(p) = d /\ serial_q[p]}
      [] r = "STATUS0" -> Pending(d)
      [] OTHER -> regs[d][r]

-----------------------------------------------------------------------------
(* The processor: main, and the handler that preempts it. *)

Idle == [ops |-> <<>>, base |-> AO, value |-> {}]
Running == IF thread.isr.ops # <<>> THEN "isr" ELSE "main"
Current == thread[Running]
Ready(op) == Current.ops # <<>> /\ Head(Current.ops).op = op /\ ~(irq /\ Running = "main")
op1 == Head(Current.ops)
Advance(base, value) ==
    thread' = [thread EXCEPT ![Running] = [ops |-> Tail(@.ops), base |-> base, value |-> value]]
Proceed == Advance(Current.base, Current.value)

Select ==
    /\ Ready("select") /\ gpio_perif' = Domain(op1.bit) /\ Advance(Domain(op1.bit), Current.value)
    /\ Quiet /\ UNCHANGED int_id

Unselected ==
    /\ Ready("unselected") /\ Advance(gpio_perif, Current.value)
    /\ Quiet /\ UNCHANGED <<gpio_perif, int_id>>

\* The build that reads the pointer again for the second access.
Load_pointer_again ==
    /\ Ready("load") /\ Advance(gpio_perif, ReadReg(gpio_perif, op1.reg))
    /\ Quiet /\ UNCHANGED <<gpio_perif, int_id>>

Load ==
    /\ Ready("load") /\ Advance(Current.base, ReadReg(Current.base, op1.reg))
    /\ Quiet /\ UNCHANGED <<gpio_perif, int_id>>

\* The value of a write, the second half of a read-modify-write among them.
StoreValue ==
    CASE op1.op = "set"    -> Current.value \cup {op1.bit}
      [] op1.op = "unset"  -> Current.value \ {op1.bit}
      [] op1.op = "toggle" -> IF op1.bit \in Current.value THEN Current.value \ {op1.bit}
                                                          ELSE Current.value \cup {op1.bit}
      [] op1.op = "clear"  -> {}
      [] op1.op = "ones"   -> Pins
Storing(r) == /\ \E op \in {"set", "unset", "toggle", "clear", "ones"} : Ready(op)
              /\ op1.reg = r

Store ==
    /\ Current.ops # <<>> /\ Storing(op1.reg)
    /\ ie' = IF op1.reg = "IE0" THEN StoreValue ELSE ie
    /\ le' = IF op1.reg = "LE0" THEN StoreValue ELSE le
    /\ Write(Current.base, op1.reg, StoreValue)
    /\ Proceed /\ Gateway(Lines, {}, {})
    /\ UNCHANGED <<prio, threshold, handlers, gpio_handlers, gpio_perif, int_id>>

SetPlic ==
    /\ \E op \in {"prio", "prio0", "threshold"} : Ready(op)
    /\ prio' = CASE op1.op = "prio"  -> [prio EXCEPT ![op1.bit] = op1.n]
                 [] op1.op = "prio0" -> [s \in Sources |-> 0]
                 [] OTHER            -> prio
    /\ threshold' = IF op1.op = "threshold" THEN op1.n ELSE threshold
    /\ Proceed /\ NoWrite /\ Gateway(Lines, {}, {})
    /\ UNCHANGED <<ie, le, handlers, gpio_handlers, gpio_perif, int_id>>

SetHandlers ==
    /\ \E op \in {"handlers", "gpio_handlers", "assign"} : Ready(op)
    /\ handlers' = IF op1.op = "handlers" THEN plic_reset_handlers_list(Sources) ELSE handlers
    /\ gpio_handlers' = CASE op1.op = "gpio_handlers" -> [s \in Sources |-> "dummy"]
                          [] op1.op = "assign"        -> [gpio_handlers EXCEPT ![op1.bit] = "app"]
                          [] OTHER                    -> gpio_handlers
    /\ Proceed /\ NoWrite /\ Gateway(Lines, {}, {})
    /\ UNCHANGED <<ie, le, prio, threshold, gpio_perif, int_id>>

\* The processor takes the interrupt before the next access of main.
Trap ==
    /\ irq /\ Running = "main"
    /\ thread' = [thread EXCEPT !.isr = [Idle EXCEPT !.ops = <<Op("claim", "CC0", 0, 0)>>]]
    /\ Quiet /\ UNCHANGED <<gpio_perif, int_id>>

\* The handler of an application: clears its pin's status, then does its work.
app_handler(p) == gpio_intr_clear_stat(p) \o gpio_toggle(Led)
handler_irq_gpio(p) == IF gpio_handlers[p] = "app" THEN app_handler(p) ELSE <<>>

\* The claim and the call through the table.
handler_irq_external ==
    /\ Ready("claim") /\ int_id' = irq_id
    /\ thread' = [thread EXCEPT !.isr.ops =
           (IF handlers[irq_id] = "handler_irq_gpio" THEN handler_irq_gpio(irq_id) ELSE <<>>)
           \o <<Op("complete", "CC0", 0, 0), Op("mret", "", 0, 0)>>]
    /\ NoWrite /\ Gateway(Lines, {irq_id}, {})
    /\ UNCHANGED <<software, gpio_perif>>

\* plic_irq_complete that writes back another id.
plic_irq_complete_null ==
    /\ Ready("complete") /\ Proceed
    /\ NoWrite /\ Gateway(Lines, {}, {NULL_INTR})
    /\ UNCHANGED <<software, gpio_perif, int_id>>

plic_irq_complete ==
    /\ Ready("complete") /\ Proceed
    /\ NoWrite /\ Gateway(Lines, {}, {int_id})
    /\ UNCHANGED <<software, gpio_perif, int_id>>

Return ==
    /\ Ready("mret") /\ Proceed
    /\ Quiet /\ UNCHANGED <<gpio_perif, int_id>>

MainIdle == thread.main.ops = <<>>

\* Main makes its next call: first those of Setup, then any.
NextCalls == IF calls < Len(Setup) THEN {Setup[calls + 1]} ELSE Calls
Call(c) ==
    /\ Running = "main" /\ MainIdle /\ ~irq /\ calls < Len(Setup) + MaxCalls
    /\ calls' = calls + 1
    /\ thread' = [thread EXCEPT !.main.ops = Program(c)]
    /\ want' = [p \in Pins |-> Asked(c, p)]
    /\ Quiet /\ UNCHANGED <<gpio_perif, int_id>>

\* What a pin did before it is configured is no event of the new configuration, unless it is
\* on its way to the PLIC.
Forgotten(c) ==
    IF c.f \notin {"config", "reset"} THEN {}
    ELSE {p \in {c.pin} : /\ p \notin ip \cup Pending(PERI)
                          /\ Sampling(p) => pin[p] = serial[p] /\ serial[p] = serial_q[p]}

\* Nothing to do for main.
Wait ==
    /\ Running = "main" /\ MainIdle /\ ~irq /\ UNCHANGED thread
    /\ Quiet /\ UNCHANGED <<gpio_perif, int_id>>

Step ==
    \/ Select \/ Unselected \/ Load \/ Store \/ SetPlic \/ SetHandlers
    \/ Trap \/ handler_irq_external \/ plic_irq_complete \/ Return \/ Wait

\* The pins the processor clears the status of in this cycle.
Cleared == {p \in Sources : /\ \E r \in {"STATUS0"} \cup {Status[k] : k \in Kinds} : Storing(r)
                            /\ p \in StoreValue /\ Current.base = PERI}
\* An edge that the interrupt path must bring to its handler: not one in the cycle in which
\* its status is cleared or the mode of its block is written, and not a pulse while the
\* handler of the same pin runs.
Edge(p) ==
    /\ \E k \in Edges : p \in Raised(PERI, k)
    /\ p \notin Cleared /\ ~Storing("CFG")
    /\ Sticky(PERI) \/ p \notin ia
Served(p) ==
    \/ Running = "isr" /\ int_id = p /\ p \in Cleared
    \/ Ready("claim") /\ irq_id = p /\ gpio_handlers[p] # "app"

Environment(kept) ==
    /\ SampleInputs /\ Target
    /\ \/ pin' = pin /\ moves' = moves
       \/ \E p \in Sources : moves < MaxMoves /\ moves' = moves + 1 /\ pin' = [pin EXCEPT ![p] = ~@]
    /\ events' = kept \cup {p \in Sources : pin'[p] # pin[p]} \cup Raised(PERI, "HIGH") \cup Raised(PERI, "LOW")
    /\ owed' = {p \in Sources : Edge(p) \/ (p \in owed /\ ~Served(p))}

Next ==
    \/ Step /\ UNCHANGED <<calls, want>> /\ Environment(events \ (IF Ready("claim") THEN {irq_id} ELSE {}))
    \/ \E c \in NextCalls : Call(c) /\ Environment(events \ Forgotten(c))

Init ==
    /\ PlicInit
    /\ regs = [d \in {AO, PERI} |-> [r \in BlockRegs |-> {}]]
    /\ gpio_perif = AO /\ gpio_handlers = [s \in Sources |-> "null"]
    /\ thread = [main |-> Idle, isr |-> Idle] /\ int_id = NULL_INTR
    /\ pin = [p \in Pins |-> FALSE] /\ serial = pin /\ serial_q = pin
    /\ calls = 0 /\ moves = 0 /\ want = [p \in Pins |-> {}]
    /\ owed = {} /\ events = {}

Spec == Init /\ [][Next]_vars /\ WF_vars(Next)

-----------------------------------------------------------------------------
(* Properties. *)

\* Every variable keeps its type, and the interrupt path its shape: a block holds only bits of
\* its registers, a thread only accesses of the driver.
GpioTypeOK ==
    /\ PlicTypeOK
    /\ regs \in [{AO, PERI} -> [BlockRegs -> SUBSET (Pins \cup {0})]]
    /\ gpio_perif \in {AO, PERI} /\ gpio_handlers \in [Sources -> {"null", "dummy", "app"}]
    /\ {Current.base, thread.main.base} \subseteq {AO, PERI}
    /\ {Current.value, thread.main.value} \subseteq SUBSET (Pins \cup {0})
    /\ {pin, serial, serial_q} \subseteq [Pins -> BOOLEAN]
    /\ owed \subseteq Sources /\ events \subseteq Sources

\* Whenever no call is under way, every pin that main configures is configured as the calls so
\* far asked, in its own block, whatever handlers preempted the calls.
PinsAsConfigured ==
    MainIdle => \A p \in Pins, r \in ConfigRegs :
        (p # Led \/ r # "OUT0") => (p \in regs[Domain(p)][r] <=> r \in want[p])

\* A pin's handler is called only when the pin moved, or had a level it interrupts on, since it
\* was configured and since its handler was last called; except while an input stage is
\* switched off in the middle of an edge, which then never ends.
NoSpuriousDispatch ==
    [][(Ready("claim") /\ irq_id # NULL_INTR) =>
          irq_id \in events \/ (\E q \in Sources : Frozen(q))]_vars

\* Every edge of an enabled pin reaches its handler as long as the PLIC lets the pin through.
EdgeServed ==
    \A p \in Sources :
        []<>(\/ p \notin owed
             \/ p \notin ie \/ p \in le \/ prio[p] <= threshold
             \/ \E q \in Sources : Frozen(q))
==============================================================================
