---------------------------- MODULE PowerManager ----------------------------
(***************************************************************************)
(* The power manager and the driver that runs on the core it switches off. *)
(*                                                                         *)
(* A step is a clock cycle of the always-on domain: every sequence and     *)
(* counter moves, the supply of a domain follows its switch after at most  *)
(* MaxLag cycles, its acknowledge goes through the synchroniser, and the   *)
(* core executes one access of the driver or, waiting for the bus, none.   *)
(*                                                                         *)
(* The core calls power_gate_core: it programs the counters, enables the   *)
(* wake-up interrupt, saves its context and sleeps; asleep with            *)
(* POWER_GATE_CORE set, its own domain is isolated, reset and switched     *)
(* off.  The interrupt starts the sequence that switches the domain on     *)
(* again; the core leaves the reset in the boot ROM, which jumps to        *)
(* power_manager_cpu_restore.  The other domains are switched by a         *)
(* sequence of register writes, with no wait for the acknowledge.          *)
(***************************************************************************)
EXTENDS PowerSequence, Sequences

CONSTANTS
    Counters,      \* the power_manager_counters_t applications pass
    Gated,         \* domains other than the CPU's, a subset of {"periph", "ram", "external"}
    MaxLag,        \* cycles a supply takes to follow its switch
    Uses,          \* ways the chip is used: wake, when the interrupt may rise (a
                   \* subset of {"awake", "falling", "off"}), and wfi, whether the
                   \* application also executes wfi outside power_gate_core
    Polls          \* the application polls *_power_domain_is_off after each call

ASSUME PowerAssumption ==
    /\ \A c \in Counters : c \in [{"reset_off", "reset_on", "switch_off", "switch_on",
                                   "iso_off", "iso_on"} -> 0 .. Modulus - 1]
    /\ Gated \subseteq {"periph", "ram", "external"}
    /\ MaxLag \in Nat
    /\ Uses \subseteq [wake : SUBSET {"awake", "falling", "off"}, wfi : BOOLEAN]
    /\ Polls \in BOOLEAN

VARIABLES
    regs,          \* always-on registers of the CPU domain
    cnt,           \* its six counters: cnt[signal].off and cnt[signal].on
    cpuSeq,        \* its three sequences
    greg,          \* registers of the other domains: TRUE is 0x1, the off value
    gseq,          \* their sequences
    rail, lag,     \* supply of each domain, and cycles it lags its switch
    ack,           \* synchroniser of pwrgate_ack_n and the acknowledge register
    garbage,       \* the domain has lost power and has not been reset since
    cpu,           \* the core: pc, the accesses a call still has to make
    irq,           \* the selected interrupt, level
    use            \* the way the chip is used in this behaviour

vars == <<regs, cnt, cpuSeq, greg, gseq, rail, lag, ack, garbage, cpu, irq, use>>

Signals == {"reset", "switch", "iso"}
Domains == Gated \cup {"cpu"}
HasReset(d) == d \in {"cpu", "periph", "external"}

RegFile == [power_gate_core : BOOLEAN, en_wait_for_intr : BOOLEAN, wait_ack : BOOLEAN,
            counters_stop : BOOLEAN, wakeup_state : BOOLEAN, restore_address : BOOLEAN]

DomainRegs == {"wait_ack", "switch", "iso", "reset", "retentive"}

-----------------------------------------------------------------------------
(* The driver: power_gate_periph, power_gate_ram_block, power_gate_external *)

Set(r) == [reg |-> r, val |-> TRUE]
Clear(r) == [reg |-> r, val |-> FALSE]

\* The register writes of a call; the nops between them are cycles in which
\* the core makes no access.  TRUE is 0x1, the off value.

\* Mutant: the domain's reset is never written.
power_gate_periph_no_reset(state) ==
    <<Set("wait_ack")>> \o
    (IF state = "kOn_e" THEN <<Clear("switch"), Clear("iso")>>
                        ELSE <<Set("iso"), Set("switch")>>)

power_gate_periph(state) ==
    <<Set("wait_ack")>> \o
    (IF state = "kOn_e" THEN <<Clear("switch"), Clear("iso"), Clear("reset")>>
                        ELSE <<Set("iso"), Set("switch"), Set("reset")>>)

\* kRetOff_e is the final else.
power_gate_ram_block(state) ==
    CASE state = "kOn_e"    -> <<Set("wait_ack"), Clear("switch"), Clear("iso")>>
      [] state = "kOff_e"   -> <<Set("wait_ack"), Set("iso"), Set("switch")>>
      [] state = "kRetOn_e" -> <<Clear("wait_ack"), Set("retentive")>>
      [] OTHER              -> <<Clear("wait_ack"), Clear("retentive")>>

power_gate_external(state) ==
    CASE state = "kOn_e"    -> <<Set("wait_ack"), Clear("switch"), Clear("iso"), Clear("reset")>>
      [] state = "kOff_e"   -> <<Set("wait_ack"), Set("iso"), Set("switch"), Set("reset")>>
      [] state = "kRetOn_e" -> <<Clear("wait_ack"), Set("retentive")>>
      [] OTHER              -> <<Clear("wait_ack"), Clear("retentive")>>

PowerGateWrites(d, state) == CASE d = "periph"   -> power_gate_periph(state)
                               [] d = "ram"      -> power_gate_ram_block(state)
                               [] d = "external" -> power_gate_external(state)

\* power_gate_periph has no retention: every state but kOn_e is its else.
CallsOf(d) == IF d = "periph" THEN {"kOn_e", "kOff_e"}
              ELSE {"kOn_e", "kOff_e", "kRetOn_e", "kRetOff_e"}

Idle(pc) == [pc |-> pc, todo |-> <<>>, poll |-> "none"]

-----------------------------------------------------------------------------
(* What the hardware sees of the core                                      *)

CanRun == /\ cpuSeq["iso"].out /\ cpuSeq["reset"].out
          /\ rail["cpu"] /\ ~garbage["cpu"]

\* core_sleep_o, clamped while the domain is isolated.
core_sleep == cpu.pc \in {"sleep", "plain_sleep"} /\ ~irq /\ CanRun

start_off_sequence == regs.power_gate_core /\ core_sleep
start_on_sequence == regs.en_wait_for_intr /\ irq
cpu_switch_no_wait == TRUE                 \* mutant: the acknowledge is not awaited
cpu_switch_wait_ack == regs.wait_ack => ack["cpu"][3]
switch_wait_ack(d) == greg[d]["wait_ack"] => ack[d][3]

\* All sequences are off; a sequence starts or has left IDLE.
AllOff == \A s \in Signals : cpuSeq[s].fsm = "SWITCH_OFF"
Falling == /\ start_off_sequence \/ \E s \in Signals : cpuSeq[s].fsm # "IDLE"
           /\ ~AllOff

SwitchOf(d) == IF d = "cpu" THEN cpuSeq["switch"].out ELSE gseq[d]["switch"].out
IsoOf(d)    == IF d = "cpu" THEN cpuSeq["iso"].out    ELSE gseq[d]["iso"].out
ResetOf(d)  == IF d = "cpu" THEN cpuSeq["reset"].out  ELSE gseq[d]["reset"].out

-----------------------------------------------------------------------------
(* The hardware in a clock cycle                                           *)

\* Only the switch does not wait for its own acknowledge.
CpuSequences ==
    cpuSeq' = [s \in Signals |->
        power_manager_counter_sequence(cpuSeq[s], s # "reset",
            start_off_sequence, start_on_sequence,
            s = "switch" \/ cpu_switch_wait_ack,
            done_o(cnt[s].off), done_o(cnt[s].on))]

CountDown ==
    cnt' = [s \in Signals |->
        [off |-> reg_to_counter(cnt[s].off,
                    counter_start_switch_off(cpuSeq[s], start_off_sequence),
                    regs.counters_stop),
         on  |-> reg_to_counter(cnt[s].on,
                    counter_start_switch_on(cpuSeq[s], start_on_sequence),
                    regs.counters_stop)]]

\* A write of the core wins over the decrement of the same cycle.
OffField == [reset |-> "reset_off", switch |-> "switch_off", iso |-> "iso_off"]
OnField == [reset |-> "reset_on", switch |-> "switch_on", iso |-> "iso_on"]

LoadCounters(c) ==
    cnt' = [s \in Signals |-> [off |-> [cnt[s].off EXCEPT !.q = c[OffField[s]]],
                               on  |-> [cnt[s].on  EXCEPT !.q = c[OnField[s]]]]]

GatedSequences ==
    gseq' = [d \in Gated |-> [s \in DomainRegs \ {"wait_ack"} |->
        power_manager_sequence(gseq[d][s], s # "reset", greg[d][s], ~greg[d][s],
            s \in {"switch", "retentive"} \/ switch_wait_ack(d))]]

\* The supply of a domain (external): it follows the switch within MaxLag
\* cycles.  pwrgate_ack_n is the supply, seen after two stages of sync and
\* the register.
Supplies ==
    /\ \E moved \in SUBSET {d \in Domains : rail[d] # SwitchOf(d)} :
         /\ \A d \in Domains : rail[d] # SwitchOf(d) /\ lag[d] = MaxLag => d \in moved
         /\ rail' = [d \in Domains |-> IF d \in moved THEN SwitchOf(d) ELSE rail[d]]
         /\ lag' = [d \in Domains |->
                IF rail[d] = SwitchOf(d) \/ d \in moved THEN 0 ELSE lag[d] + 1]
    /\ ack' = [d \in Domains |-> <<rail[d], ack[d][1], ack[d][2]>>]
    /\ garbage' = [d \in Domains |->
          ~rail'[d] \/ (garbage[d] /\ HasReset(d) /\ ResetOf(d))]

-----------------------------------------------------------------------------
(* The core in a clock cycle                                               *)

\* Held in reset, unpowered, or waiting for the bus.
CoreIdle ==
    /\ cpu' = IF ~cpuSeq["reset"].out THEN Idle("reset") ELSE cpu
    /\ CountDown
    /\ UNCHANGED <<regs, greg>>

Jump(from, to) == cpu.pc = from /\ cpu' = Idle(to)
Write(r, v) == regs' = [regs EXCEPT ![r] = v]

\* power_gate_core up to power_manager_cpu_store
power_gate_core ==
    \/ /\ Jump("set_counters", "enable_intr")
       /\ \E c \in Counters : LoadCounters(c)
       /\ UNCHANGED regs
    \/ /\ \/ Jump("enable_intr", "wait_ack") /\ Write("en_wait_for_intr", TRUE)
          \/ Jump("wait_ack", "gate") /\ Write("wait_ack", TRUE)
       /\ CountDown

\* Mutant: the restore address is not written.
power_manager_cpu_store_no_address ==
    /\ \/ Jump("gate", "wakeup") /\ Write("power_gate_core", TRUE)
       \/ Jump("wakeup", "address") /\ Write("wakeup_state", TRUE)
       \/ Jump("address", "wfi") /\ UNCHANGED regs
       \/ Jump("wfi", IF irq THEN "disable_intr" ELSE "sleep") /\ UNCHANGED regs
       \/ irq /\ Jump("sleep", "disable_intr") /\ UNCHANGED regs
    /\ CountDown

\* power_manager_cpu_store: the context goes to memory, then wfi, which
\* does not sleep when the interrupt is already pending.
power_manager_cpu_store ==
    /\ \/ Jump("gate", "wakeup") /\ Write("power_gate_core", TRUE)
       \/ Jump("wakeup", "address") /\ Write("wakeup_state", TRUE)
       \/ Jump("address", "wfi") /\ Write("restore_address", TRUE)
       \/ Jump("wfi", IF irq THEN "disable_intr" ELSE "sleep") /\ UNCHANGED regs
       \/ irq /\ Jump("sleep", "disable_intr") /\ UNCHANGED regs
    /\ CountDown

\* The rest of power_gate_core, after either return of the store.
power_gate_core_cleanup ==
    /\ \/ Jump("disable_intr", "stop") /\ Write("en_wait_for_intr", FALSE)
       \/ Jump("stop", "app") /\ Write("counters_stop", TRUE)
    /\ CountDown

\* entry of the boot ROM, and the program a cold boot starts.
boot_rom ==
    /\ \/ Jump("reset", "entry") /\ UNCHANGED regs
       \/ Jump("entry", IF regs.wakeup_state THEN "restore" ELSE "boot") /\ UNCHANGED regs
       \/ Jump("boot", "app") /\ UNCHANGED regs
    /\ CountDown

\* Mutant: the core stays marked for power gating.
power_manager_cpu_restore_gated ==
    /\ \/ Jump("restore", "restore_wakeup") /\ UNCHANGED regs
       \/ Jump("restore_wakeup", "restore_address") /\ Write("wakeup_state", FALSE)
       \/ Jump("restore_address", "disable_intr") /\ Write("restore_address", FALSE)
    /\ CountDown

power_manager_cpu_restore ==
    /\ \/ Jump("restore", "restore_wakeup") /\ Write("power_gate_core", FALSE)
       \/ Jump("restore_wakeup", "restore_address") /\ Write("wakeup_state", FALSE)
       \/ Jump("restore_address", "disable_intr") /\ Write("restore_address", FALSE)
    /\ CountDown

\* The application between its calls of the driver goes to sleep; where the
\* interrupt comes only in a sleep, it is served before the next.
GateCore == (irq => "awake" \in use.wake) /\ Jump("app", "set_counters")

\* It executes a plain wfi, as dma_launch and timer_wait_us do.
PlainWfi == \/ use.wfi /\ Jump("app", "plain_sleep")
            \/ irq /\ Jump("plain_sleep", "app")

\* It switches another domain.
GateDomain(d) ==
    /\ cpu.pc = "app"
    /\ \E state \in CallsOf(d) :
          cpu' = [pc |-> "gate_domain", todo |-> PowerGateWrites(d, state),
                  poll |-> [dom |-> d, state |-> state]]

Application ==
    /\ GateCore \/ PlainWfi \/ \E d \in Gated : GateDomain(d)
    /\ CountDown /\ UNCHANGED regs

\* periph_, ram_block_ and external_power_domain_is_off read the acknowledge.
power_domain_is_off(d) == ~ack[d][3]

\* The application waits until the domain is off, or on again.
PollDone == \/ ~Polls
            \/ cpu.poll.state = "kOff_e" /\ power_domain_is_off(cpu.poll.dom)
            \/ cpu.poll.state = "kOn_e" /\ ~power_domain_is_off(cpu.poll.dom)
            \/ cpu.poll.state \in {"kRetOn_e", "kRetOff_e"}

power_gate_domain ==
    /\ cpu.pc = "gate_domain"
    /\ \/ /\ cpu.todo # <<>>
          /\ greg' = [greg EXCEPT ![cpu.poll.dom][Head(cpu.todo).reg] = Head(cpu.todo).val]
          /\ cpu' = [cpu EXCEPT !.todo = Tail(@)]
       \/ /\ cpu.todo = <<>> /\ PollDone
          /\ cpu' = Idle("app")
          /\ UNCHANGED greg
    /\ CountDown /\ UNCHANGED regs

CoreStep ==
    /\ CanRun
    /\ \/ /\ \/ power_gate_core \/ power_manager_cpu_store \/ power_gate_core_cleanup
             \/ boot_rom \/ power_manager_cpu_restore \/ Application
          /\ UNCHANGED greg
       \/ power_gate_domain

\* The interrupt is a level: it rises when its source fires and falls when
\* the application, running, serves it.
Interrupt ==
    \/ irq' = irq
    \/ /\ ~irq /\ irq' = TRUE
       /\ \/ AllOff /\ "off" \in use.wake
          \/ Falling /\ "falling" \in use.wake
          \/ ~Falling /\ ~AllOff /\ ("awake" \in use.wake \/ cpu.pc = "plain_sleep")
    \/ irq /\ irq' = FALSE /\ cpu.pc = "app"

Clock == CpuSequences /\ GatedSequences /\ Supplies /\ Interrupt /\ UNCHANGED use

-----------------------------------------------------------------------------
Init ==
    /\ regs = [r \in {"power_gate_core", "en_wait_for_intr", "wait_ack", "counters_stop",
                      "wakeup_state", "restore_address"} |-> FALSE]
    /\ cnt = [s \in Signals |-> [off |-> [fsm |-> "IDLE", q |-> 0],
                                 on  |-> [fsm |-> "IDLE", q |-> 0]]]
    /\ cpuSeq = [s \in Signals |-> AtReset(s # "reset")]
    /\ greg = [d \in Gated |-> [r \in DomainRegs |-> FALSE]]
    /\ gseq = [d \in Gated |-> [s \in DomainRegs \ {"wait_ack"} |-> AtReset(s # "reset")]]
    /\ rail = [d \in Domains |-> TRUE]
    /\ lag = [d \in Domains |-> 0]
    /\ ack = [d \in Domains |-> <<FALSE, FALSE, FALSE>>]
    /\ garbage = [d \in Domains |-> FALSE]
    /\ cpu = Idle("reset")
    /\ irq = FALSE
    /\ use \in Uses

Cycle == Clock /\ CoreIdle
CoreCycle == Clock /\ CoreStep
Next == Cycle \/ CoreCycle

\* The clock runs, and the bus grants every access of a running core.
Spec == Init /\ [][Next]_vars /\ WF_vars(Next) /\ WF_vars(CoreCycle)

-----------------------------------------------------------------------------
PowerTypeOK ==
    /\ regs \in RegFile
    /\ cnt \in [Signals -> [off : Counter, on : Counter]]
    /\ cpuSeq \in [Signals -> CounterSequence]
    /\ greg \in [Gated -> [DomainRegs -> BOOLEAN]]
    /\ gseq \in [Gated -> [DomainRegs \ {"wait_ack"} -> Sequence]]
    /\ rail \in [Domains -> BOOLEAN] /\ garbage \in [Domains -> BOOLEAN]
    /\ lag \in [Domains -> 0 .. MaxLag]
    /\ ack \in [Domains -> BOOLEAN \X BOOLEAN \X BOOLEAN]
    /\ irq \in BOOLEAN /\ use \in Uses

\* The outputs of a domain without supply never reach the rest of the chip:
\* between the loss of its supply and the acknowledge that it is back, the
\* isolation is on (the order of the off counters and the wait for the
\* acknowledge in the on sequence).
UnpoweredIsIsolated == \A d \in Domains : ~rail[d] => ~IsoOf(d)

\* A domain that lost its supply is reset before its outputs are visible
\* and its reset is released.
ResetBeforeVisible ==
    \A d \in Domains : HasReset(d) /\ garbage[d] => ~(IsoOf(d) /\ ResetOf(d))

\* When the core enters the boot ROM, the mark that sends it to the restore
\* code is there exactly when the address to restore is: it neither jumps to
\* an address nobody wrote nor boots over a context it saved.
WakesWhereItSlept ==
    cpu.pc = "entry" => (regs.wakeup_state <=> regs.restore_address)

\* The interrupt that power_gate_core selects wakes the core, whose call
\* returns to the application.
SelectedInterruptWakes == (cpu.pc \in {"sleep", "plain_sleep"} /\ irq) ~> cpu.pc = "app"

=============================================================================
