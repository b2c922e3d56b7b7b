------------------------ MODULE PowerManager_proofs ------------------------
(***************************************************************************)
(* Proofs about PowerManager, for every set of counters, every lag of a    *)
(* supply and every set of gated domains.                                  *)
(*                                                                         *)
(* First the return from a sleep: the invariant relates the mark and the   *)
(* restore address to the place of the core and to the reset sequence.     *)
(* Then the phases of the domain (boot, awake, falling, rising), which     *)
(* relate the three sequences, the six counters, the supply and the        *)
(* synchroniser of its acknowledge.                                        *)
(*                                                                         *)
(* Last the other domains: power_gate_periph, power_gate_ram_block and     *)
(* power_gate_external write the registers of a domain one after the       *)
(* other, with no wait between them; the sequences of the domain, its      *)
(* supply and its acknowledge follow at their own pace.  The invariant     *)
(* says for every call and every write that is left of it in which phase   *)
(* the domain is: on, leaving, falling, off, rising.                       *)
(***************************************************************************)
EXTENDS PowerManager, SequenceTheorems, TLAPS

Asleep == cpu.pc \in {"sleep", "plain_sleep"} /\ ~irq

\* The states of power_manager_counter_sequence.
SequenceStates ==
    {"RESET", "IDLE", "WAIT_SWITCH_OFF_COUNTER", "SWITCH_OFF", "WAIT_SWITCH_ON_COUNTER",
     "WAIT_ACK", "SWITCH_ON"}

\* cpu is a record of its three fields.
CpuShape == cpu = [pc |-> cpu.pc, todo |-> cpu.todo, poll |-> cpu.poll]

\* Saved: the mark and the address are both there.
Saved == regs.wakeup_state /\ regs.restore_address

\* What the core does after a reset, up to the last write of the restore.
BootSteps == {"reset", "entry", "boot", "restore", "restore_wakeup", "restore_address"}

\* The core is out of reset before the reset sequence falls and after it has
\* risen; in between, while its output is still up, the core sleeps or was
\* woken by an interrupt that came meanwhile.  Its context is saved then,
\* and whatever it executes leaves the mark and the address alone.
ResetHolds ==
    /\ cpuSeq["reset"].out
         => cpuSeq["reset"].fsm \in {"IDLE", "WAIT_SWITCH_OFF_COUNTER", "SWITCH_OFF"}
    /\ cpuSeq["reset"].fsm = "WAIT_SWITCH_OFF_COUNTER" => cpuSeq["reset"].out
    /\ cpuSeq["reset"].out /\ cpuSeq["reset"].fsm # "IDLE"
         => Saved /\ cpu.pc \notin BootSteps

\* wakeup_state and restore_address are written one after the other: they
\* differ only between two writes of a core that no reset can interrupt, and
\* the request that starts the sequence is there only with both.
MarkInv ==
    /\ cpu.pc = "address" => regs.wakeup_state
    /\ cpu.pc = "restore_address" => ~regs.wakeup_state
    /\ ~(regs.wakeup_state <=> regs.restore_address)
         => cpu.pc \in {"address", "restore_address"} /\ cpuSeq["reset"].out
    /\ regs.power_gate_core
         => Saved \/ (cpu.pc \in {"wakeup", "address"} /\ cpuSeq["reset"].out)
    /\ cpu.pc \in {"restore_wakeup", "restore_address"} => ~regs.power_gate_core

WakeInv ==
    /\ regs \in RegFile /\ use \in Uses /\ irq \in BOOLEAN
    /\ cpuSeq["reset"].fsm \in SequenceStates
    /\ CpuShape /\ ResetHolds /\ MarkInv

(* A core that sleeps without an interrupt executes nothing.               *)
LEMMA SleepersStay ==
    ASSUME Asleep, CpuShape, cpuSeq["reset"].out, CoreIdle \/ CoreStep
    PROVE  cpu' = cpu
<1>1. CASE CoreIdle
  BY <1>1 DEF CoreIdle
<1>2. CASE CoreStep
  BY <1>2 DEF CoreStep, Asleep, power_gate_core, power_manager_cpu_store,
     power_gate_core_cleanup, boot_rom, power_manager_cpu_restore, Application,
     GateCore, PlainWfi, GateDomain, power_gate_domain, Jump
<1> QED BY <1>1, <1>2

(* Every step keeps the shape of cpu and the type of the registers.        *)
LEMMA ShapeStep ==
    ASSUME CpuShape, regs \in RegFile, CoreIdle \/ CoreStep
    PROVE  CpuShape' /\ regs' \in RegFile
<1>1. CASE CoreIdle
  BY <1>1 DEF CoreIdle, CpuShape, Idle
<1>2. CASE CoreStep
  <2>1. CASE power_gate_domain
    BY <2>1 DEF power_gate_domain, CpuShape, Idle
  <2>2. CASE Application
    BY <2>2 DEF Application, CpuShape, Idle, GateCore, PlainWfi, GateDomain, Jump
  <2>3. CASE power_gate_core
    BY <2>3 DEF power_gate_core, CpuShape, Idle, Jump, Write, RegFile
  <2>4. CASE power_manager_cpu_store
    BY <2>4 DEF power_manager_cpu_store, CpuShape, Idle, Jump, Write, RegFile
  <2>5. CASE power_gate_core_cleanup
    BY <2>5 DEF power_gate_core_cleanup, CpuShape, Idle, Jump, Write, RegFile
  <2>6. CASE boot_rom
    BY <2>6 DEF boot_rom, CpuShape, Idle, Jump
  <2>7. CASE power_manager_cpu_restore
    BY <2>7 DEF power_manager_cpu_restore, CpuShape, Idle, Jump, Write, RegFile
  <2> QED BY <1>2, <2>1, <2>2, <2>3, <2>4, <2>5, <2>6, <2>7 DEF CoreStep
<1> QED BY <1>1, <1>2

(* The reset sequence of the CPU domain in a cycle.                        *)
LEMMA ResetStep ==
    ASSUME CpuSequences, cpuSeq["reset"].fsm \in SequenceStates
    PROVE  /\ cpuSeq'["reset"].fsm \in SequenceStates
           /\ cpuSeq'["reset"].out
                <=> cpuSeq["reset"].fsm \in {"IDLE", "WAIT_SWITCH_OFF_COUNTER", "SWITCH_ON"}
           /\ cpuSeq'["reset"].fsm = "WAIT_SWITCH_OFF_COUNTER"
                => cpuSeq["reset"].fsm \in {"IDLE", "WAIT_SWITCH_OFF_COUNTER"}
           /\ cpuSeq["reset"].fsm = "IDLE"
                => cpuSeq'["reset"].fsm
                     = IF start_off_sequence THEN "WAIT_SWITCH_OFF_COUNTER" ELSE "IDLE"
           /\ cpuSeq["reset"].fsm = "WAIT_SWITCH_OFF_COUNTER"
                => cpuSeq'["reset"].fsm \in {"WAIT_SWITCH_OFF_COUNTER", "SWITCH_OFF"}
           /\ cpuSeq["reset"].fsm = "SWITCH_ON" => cpuSeq'["reset"].fsm = "IDLE"
BY DEF CpuSequences, Signals, power_manager_counter_sequence, SequenceStates

(* While the reset sequence falls the core may run, but not what clears    *)
(* the mark and the address.                                               *)
LEMMA SavedStays ==
    ASSUME CpuShape, regs \in RegFile, Saved, cpu.pc \notin BootSteps, cpuSeq["reset"].out,
           CoreIdle \/ CoreStep
    PROVE  Saved' /\ cpu'.pc \notin BootSteps
<1> USE DEF Saved, BootSteps
<1>1. CASE CoreIdle
  BY <1>1 DEF CoreIdle
<1>2. CASE CoreStep
  <2>1. CASE power_gate_domain
    BY <2>1 DEF power_gate_domain, CpuShape, Idle
  <2>2. CASE Application
    BY <2>2 DEF Application, CpuShape, Idle, GateCore, PlainWfi, GateDomain, Jump
  <2>3. CASE power_gate_core
    BY <2>3 DEF power_gate_core, CpuShape, Idle, Jump, Write, RegFile
  <2>4. CASE power_manager_cpu_store
    BY <2>4 DEF power_manager_cpu_store, CpuShape, Idle, Jump, Write, RegFile
  <2>5. CASE power_gate_core_cleanup
    BY <2>5 DEF power_gate_core_cleanup, CpuShape, Idle, Jump, Write, RegFile
  <2>6. CASE boot_rom \/ power_manager_cpu_restore
    BY <2>6 DEF boot_rom, power_manager_cpu_restore, Jump
  <2> QED BY <1>2, <2>1, <2>2, <2>3, <2>4, <2>5, <2>6 DEF CoreStep
<1> QED BY <1>1, <1>2

(* The sequence starts in a sleep with the context saved, and the context  *)
(* stays until the core is reset.                                          *)
LEMMA ResetHoldsStep ==
    ASSUME WakeInv, Clock, CoreIdle \/ CoreStep
    PROVE  irq' \in BOOLEAN /\ ResetHolds'
<1>1. irq' \in BOOLEAN
  BY DEF Clock, Interrupt, WakeInv
<1>2. CASE cpuSeq["reset"].fsm = "IDLE"
  <2>1. cpuSeq'["reset"].fsm = "IDLE" => ResetHolds'
    BY DEF ResetHolds
  <2>2. CASE start_off_sequence
    <3>1. regs.power_gate_core /\ cpu.pc \in {"sleep", "plain_sleep"} /\ cpuSeq["reset"].out
      BY <2>2 DEF start_off_sequence, core_sleep, CanRun
    <3>2. Saved /\ cpu.pc \notin BootSteps
      BY <3>1 DEF WakeInv, MarkInv, BootSteps
    <3>3. Saved' /\ cpu'.pc \notin BootSteps
      BY <3>1, <3>2, SavedStays DEF WakeInv
    <3> QED BY <1>1, <1>2, <2>2, <3>3, ResetStep DEF ResetHolds, Clock, WakeInv
  <2> QED BY <1>1, <1>2, <2>1, <2>2, ResetStep DEF Clock, WakeInv
<1>3. CASE cpuSeq["reset"].fsm = "WAIT_SWITCH_OFF_COUNTER"
  <2>1. Saved /\ cpu.pc \notin BootSteps /\ cpuSeq["reset"].out
    BY <1>3 DEF WakeInv, ResetHolds
  <2>2. Saved' /\ cpu'.pc \notin BootSteps
    BY <2>1, SavedStays DEF WakeInv
  <2> QED BY <1>1, <1>3, <2>2, ResetStep DEF ResetHolds, Clock, WakeInv
<1>4. CASE cpuSeq["reset"].fsm \notin {"IDLE", "WAIT_SWITCH_OFF_COUNTER"}
  BY <1>1, <1>4, ResetStep DEF ResetHolds, Clock, WakeInv
<1> QED BY <1>1, <1>2, <1>3, <1>4

(* Every write of the mark or of the address keeps them together, whenever *)
(* the core executes it.                                                   *)
LEMMA MarkStep ==
    ASSUME WakeInv, Clock, CoreIdle \/ CoreStep
    PROVE  MarkInv'
<1> USE DEF MarkInv, Saved
<1>1. CASE CoreIdle /\ ~cpuSeq["reset"].out
  BY <1>1 DEF CoreIdle, Idle, WakeInv
<1>2. CASE cpuSeq["reset"].out /\ cpuSeq["reset"].fsm # "IDLE"
  <2>1. Saved' /\ cpu'.pc \notin BootSteps
    BY <1>2, SavedStays DEF WakeInv, ResetHolds
  <2> QED BY <2>1 DEF BootSteps
<1>3. CASE cpuSeq["reset"].out /\ cpuSeq["reset"].fsm = "IDLE"
  <2>0. cpuSeq'["reset"].out
    BY <1>3, ResetStep DEF WakeInv, Clock
  <2>1. CASE CoreIdle
    BY <1>3, <2>0, <2>1 DEF CoreIdle, WakeInv
  <2>2. CASE power_gate_domain
    BY <2>0, <2>2 DEF power_gate_domain, WakeInv, CpuShape, Idle
  <2>3. CASE Application
    BY <2>0, <2>3
       DEF Application, WakeInv, CpuShape, Idle, GateCore, PlainWfi, GateDomain, Jump
  <2>4. CASE power_gate_core
    BY <2>0, <2>4 DEF power_gate_core, WakeInv, CpuShape, Idle, Jump, Write, RegFile
  <2>5. CASE power_manager_cpu_store
    BY <2>0, <2>5 DEF power_manager_cpu_store, WakeInv, Idle, Jump, Write, RegFile
  <2>6. CASE power_gate_core_cleanup
    BY <2>0, <2>6 DEF power_gate_core_cleanup, WakeInv, CpuShape, Idle, Jump, Write, RegFile
  <2>7. CASE boot_rom
    BY <2>0, <2>7 DEF boot_rom, WakeInv, CpuShape, Idle, Jump
  <2>8. CASE power_manager_cpu_restore
    BY <2>0, <2>8
       DEF power_manager_cpu_restore, WakeInv, CpuShape, Idle, Jump, Write, RegFile
  <2> QED BY <2>1, <2>2, <2>3, <2>4, <2>5, <2>6, <2>7, <2>8 DEF CoreStep
<1>4. CoreStep => cpuSeq["reset"].out
  BY DEF CoreStep, CanRun
<1> QED BY <1>1, <1>2, <1>3, <1>4

(* When the core enters the boot ROM, the mark that sends it to            *)
(* power_manager_cpu_restore is there exactly when the address that        *)
(* power_manager_cpu_store wrote is: for all counters, wherever the        *)
(* interrupt comes, while the core is awake, while its domain is switched  *)
(* off or when it is off, and whatever other wfi the application executes. *)
THEOREM WakeSafety == Spec => []WakesWhereItSlept
<1>1. Init => WakeInv
  <2> SUFFICES ASSUME Init PROVE WakeInv
    OBVIOUS
  <2>1. regs \in RegFile
    BY DEF Init, RegFile
  <2>2. cpuSeq["reset"].fsm \in SequenceStates
    BY DEF Init, AtReset, Signals, SequenceStates
  <2>3. CpuShape /\ MarkInv
    BY DEF Init, CpuShape, MarkInv, Idle
  <2>4. ResetHolds
    BY DEF Init, ResetHolds, Signals, AtReset
  <2> QED BY <2>1, <2>2, <2>3, <2>4 DEF Init, WakeInv
<1>2. WakeInv /\ [Next]_vars => WakeInv'
  <2> SUFFICES ASSUME WakeInv, [Next]_vars PROVE WakeInv'
    OBVIOUS
  <2>1. CASE Next
    <3>1. Clock /\ (CoreIdle \/ CoreStep)
      BY <2>1 DEF Next, Cycle, CoreCycle
    <3>2. CpuShape' /\ regs' \in RegFile
      BY <3>1, ShapeStep DEF WakeInv
    <3>3. irq' \in BOOLEAN /\ ResetHolds' /\ MarkInv'
      BY <3>1, ResetHoldsStep, MarkStep
    <3>4. cpuSeq'["reset"].fsm \in SequenceStates
      BY <3>1, ResetStep DEF WakeInv, Clock
    <3> QED BY <3>1, <3>2, <3>3, <3>4 DEF WakeInv, Clock
  <2>2. CASE UNCHANGED vars
    BY <2>2 DEF vars, WakeInv, CpuShape, ResetHolds, MarkInv, Saved
  <2> QED BY <2>1, <2>2
<1>3. WakeInv => WakesWhereItSlept
  BY DEF WakeInv, MarkInv, Saved, WakesWhereItSlept
<1> QED BY <1>1, <1>2, <1>3, PTL DEF Spec

-----------------------------------------------------------------------------
(* The domain of the CPU                                                   *)

\* A chip on which an interrupt may also rise awake does not sleep outside
\* power_gate_core: with both, POWER_GATE_CORE may be set in a plain wfi.
HealthyUses ==
    \A u \in Uses : "falling" \notin u.wake /\ ~(u.wfi /\ "awake" \in u.wake)

\* The counters of the applications: none starts at 0 or 1 (it would count
\* all the way round), the isolation is not later than the switch, and on
\* the way back isolation and reset leave time for the synchroniser.
Ordered(c) ==
    /\ \A x \in {"reset_off", "reset_on", "switch_off", "switch_on", "iso_off", "iso_on"} :
          c[x] >= 2
    /\ c["iso_off"] <= c["switch_off"]
    /\ c["reset_on"] >= c["switch_on"] + 5 /\ c["iso_on"] >= c["switch_on"] + 5

OrderedCounters == \A c \in Counters : Ordered(c)

\* A sequence of the domain, its output, and what the phases say of them.
Fsm(s) == cpuSeq[s].fsm
Out(s) == cpuSeq[s].out

AllIn(states) == \A s \in Signals : Fsm(s) \in states

\* Inside power_gate_core, once the counters are loaded.
Gating == {"enable_intr", "wait_ack", "gate", "wakeup", "address", "wfi", "sleep"}

\* The counters hold what LoadCounters gave them.
OnCountersLoaded ==
    /\ \A s \in Signals : cnt[s].on.fsm = "IDLE" /\ cnt[s].on.q >= 2
    /\ \A s \in {"reset", "iso"} : cnt[s].on.q >= cnt["switch"].on.q + 5

CountersLoaded ==
    /\ OnCountersLoaded
    /\ \A s \in Signals : cnt[s].off.fsm = "IDLE" /\ cnt[s].off.q >= 2
    /\ cnt["iso"].off.q <= cnt["switch"].off.q

\* The reset of the chip.
CpuBoot ==
    /\ AllIn({"RESET"}) /\ cpu.pc = "reset"
    /\ Out("switch") /\ Out("iso") /\ ~Out("reset")

Powered == rail["cpu"] /\ ~garbage["cpu"]

\* No counter counts; those that have expired will be stopped; all stopped.
Settled == \A s \in Signals : {cnt[s].off.fsm, cnt[s].on.fsm} \subseteq {"IDLE", "EXPIRE"}

Stopped ==
    \A s \in Signals : cnt[s].off.fsm = "EXPIRE" \/ cnt[s].on.fsm = "EXPIRE" => regs.counters_stop

AllIdle == \A s \in Signals : cnt[s].off.fsm = "IDLE" /\ cnt[s].on.fsm = "IDLE"

\* Awake, the registers and counters are those the place of the core says.
Programmed ==
    /\ Settled
    /\ \/ cpu.pc \in {"app", "gate_domain", "plain_sleep", "boot"}
       \/ cpu.pc \in {"reset", "entry"} /\ ~regs.wakeup_state
       => Stopped
    /\ cpu.pc = "set_counters" => AllIdle
    /\ cpu.pc \in Gating => CountersLoaded
    /\ cpu.pc = "gate" => regs.wait_ack
    /\ cpu.pc \in {"address", "wfi", "sleep"} => regs.wakeup_state
    /\ cpu.pc \in {"reset", "entry"} /\ regs.power_gate_core => regs.wakeup_state
    /\ cpu.pc = "plain_sleep" => use.wfi
    /\ use.wfi /\ cpu.pc \in Gating \cup {"set_counters"} => ~irq
    /\ use.wfi /\ regs.power_gate_core
         => cpu.pc \in {"wakeup", "address", "wfi", "sleep", "reset", "entry", "restore"}

\* No sequence runs; the core may still be in reset for a cycle.
CpuAwake ==
    /\ AllIn({"IDLE"}) /\ Out("switch") /\ Out("iso")
    /\ Out("reset") \/ cpu.pc = "reset"
    /\ Powered /\ Programmed

\* The sequences fall or are off: the isolation before the switch.
CpuFalling ==
    /\ AllIn({"WAIT_SWITCH_OFF_COUNTER", "SWITCH_OFF"})
    /\ \A s \in Signals :
          /\ Fsm(s) = "WAIT_SWITCH_OFF_COUNTER" =>
                /\ Out(s) /\ ~irq
                /\ cnt[s].off.fsm = "EXPIRE" \/ (cnt[s].off.fsm = "COUNT" /\ cnt[s].off.q >= 1)
          /\ Fsm(s) = "SWITCH_OFF" => cnt[s].off.fsm \in {"IDLE", "EXPIRE"}
          /\ Out(s) => ~irq
    /\ Fsm("switch") = "SWITCH_OFF" => Fsm("iso") = "SWITCH_OFF"
    /\ Fsm("iso") = "WAIT_SWITCH_OFF_COUNTER" =>
          \/ cnt["iso"].off.fsm = "EXPIRE"
          \/ cnt["switch"].off.fsm = "COUNT" /\ cnt["iso"].off.q <= cnt["switch"].off.q
    /\ ~Out("switch") => ~Out("iso")
    /\ Out("switch") => Powered
    /\ OnCountersLoaded
    /\ cpu.pc = "sleep" \/ (cpu.pc = "reset" /\ ~Out("reset"))
    /\ regs.wakeup_state /\ regs.wait_ack

\* How far the counter of s is behind that of the switch: when it expires,
\* the acknowledges on their way are those of the supply that came back.
Ahead(s) ==
    \/ /\ Fsm("switch") = "WAIT_SWITCH_ON_COUNTER" /\ cnt["switch"].on.fsm = "COUNT"
       /\ cnt["switch"].on.q >= 1
       /\ cnt[s].on.fsm = "COUNT" /\ cnt[s].on.q >= cnt["switch"].on.q + 5
    \/ /\ Fsm("switch") = "WAIT_SWITCH_ON_COUNTER" /\ cnt["switch"].on.fsm = "EXPIRE"
       /\ cnt[s].on.fsm = "COUNT" /\ cnt[s].on.q >= 5
    \/ /\ Fsm("switch") = "SWITCH_ON" /\ cnt[s].on.fsm = "COUNT" /\ cnt[s].on.q >= 4
    \/ /\ Fsm("switch") = "IDLE"
       /\ \/ cnt[s].on.fsm = "COUNT" /\ cnt[s].on.q >= 3
          \/ /\ cnt[s].on.fsm = "COUNT" /\ cnt[s].on.q >= 2
             /\ ack["cpu"][1] => rail["cpu"]
          \/ /\ cnt[s].on.fsm = "COUNT" /\ cnt[s].on.q >= 1
             /\ ack["cpu"][1] \/ ack["cpu"][2] => rail["cpu"]
          \/ /\ cnt[s].on.fsm = "EXPIRE"
             /\ ack["cpu"][1] \/ ack["cpu"][2] \/ ack["cpu"][3] => rail["cpu"]

\* The interrupt has come: the switch first, the others on its acknowledge.
CpuRising ==
    /\ Fsm("switch") \in {"WAIT_SWITCH_ON_COUNTER", "SWITCH_ON", "IDLE"}
    /\ Out("switch") <=> Fsm("switch") = "IDLE"
    /\ \A s \in Signals : cnt[s].off.fsm \in {"IDLE", "EXPIRE"}
    /\ Fsm("switch") # "WAIT_SWITCH_ON_COUNTER" => cnt["switch"].on.fsm \in {"IDLE", "EXPIRE"}
    /\ \A s \in {"iso", "reset"} :
          /\ Fsm(s) \in {"WAIT_SWITCH_ON_COUNTER", "WAIT_ACK", "SWITCH_ON", "IDLE"}
          /\ Out(s) <=> Fsm(s) = "IDLE"
          /\ Fsm(s) = "WAIT_SWITCH_ON_COUNTER" => Ahead(s)
          /\ Fsm(s) # "WAIT_SWITCH_ON_COUNTER" =>
                /\ Fsm("switch") = "IDLE" /\ cnt[s].on.fsm \in {"IDLE", "EXPIRE"}
          /\ Fsm(s) = "WAIT_ACK" =>
                (ack["cpu"][1] \/ ack["cpu"][2] \/ ack["cpu"][3] => rail["cpu"])
          /\ Fsm(s) \in {"SWITCH_ON", "IDLE"} => rail["cpu"]
    /\ Fsm("reset") \in {"SWITCH_ON", "IDLE"} => ~garbage["cpu"]
    /\ ~AllIn({"IDLE"}) /\ cpu.pc = "reset"
    /\ regs.wakeup_state /\ regs.wait_ack

\* What every phase keeps.
CpuTypes ==
    /\ CpuShape /\ regs \in RegFile /\ use \in Uses /\ irq \in BOOLEAN
    /\ cnt \in [Signals -> [off : Counter, on : Counter]]
    /\ regs.power_gate_core => regs.wait_ack

\* The domain is in one of its phases.
CpuInv ==
    /\ CpuTypes
    /\ \/ CpuBoot /\ Powered /\ Programmed
       \/ CpuAwake
       \/ CpuFalling
       \/ CpuRising

-----------------------------------------------------------------------------
(* The small state machines, signal by signal.                             *)
LEMMA SequenceStep ==
    ASSUME CpuSequences, NEW s \in Signals
    PROVE  /\ Fsm(s) = "RESET" => Fsm(s)' = "IDLE" /\ (Out(s)' <=> s # "reset")
           /\ Fsm(s) = "IDLE" =>
                Out(s)' /\ Fsm(s)' = IF start_off_sequence THEN "WAIT_SWITCH_OFF_COUNTER" ELSE "IDLE"
           /\ Fsm(s) = "WAIT_SWITCH_OFF_COUNTER" =>
                Out(s)' /\ Fsm(s)' = IF cnt[s].off.fsm = "EXPIRE" THEN "SWITCH_OFF"
                                     ELSE "WAIT_SWITCH_OFF_COUNTER"
           /\ Fsm(s) = "SWITCH_OFF" =>
                ~Out(s)' /\ Fsm(s)' = IF start_on_sequence THEN "WAIT_SWITCH_ON_COUNTER"
                                      ELSE "SWITCH_OFF"
           /\ Fsm(s) = "WAIT_SWITCH_ON_COUNTER" =>
                ~Out(s)' /\ Fsm(s)' = IF cnt[s].on.fsm # "EXPIRE" THEN "WAIT_SWITCH_ON_COUNTER"
                                      ELSE IF s = "switch" \/ cpu_switch_wait_ack THEN "SWITCH_ON"
                                      ELSE "WAIT_ACK"
           /\ Fsm(s) = "WAIT_ACK" =>
                ~Out(s)' /\ Fsm(s)' = IF s = "switch" \/ cpu_switch_wait_ack THEN "SWITCH_ON"
                                      ELSE "WAIT_ACK"
           /\ Fsm(s) = "SWITCH_ON" => Out(s)' /\ Fsm(s)' = "IDLE"
BY DEF CpuSequences, power_manager_counter_sequence, Fsm, Out, done_o

\* What reg_to_counter makes of c, as long as it is not started with 0 or 1.
Counts(c, next, start, stop) ==
    /\ c.fsm = "IDLE" /\ ~start => next = c
    /\ c.fsm = "IDLE" /\ start /\ c.q >= 2 => next.fsm = "COUNT" /\ next.q = c.q - 1
    /\ c.fsm = "COUNT" /\ c.q >= 1 =>
          next.q = c.q - 1 /\ next.fsm = IF c.q = 1 THEN "EXPIRE" ELSE "COUNT"
    /\ c.fsm = "EXPIRE" => next.fsm = IF stop THEN "IDLE" ELSE "EXPIRE"

LEMMA CounterStep ==
    ASSUME NEW c \in Counter, NEW start, NEW stop
    PROVE  /\ reg_to_counter(c, start, stop) \in Counter
           /\ Counts(c, reg_to_counter(c, start, stop), start, stop)
<1> DEFINE d == (c.q + Modulus - 1) % Modulus
<1>1. /\ d \in 0 .. Modulus - 1
      /\ c.q >= 1 => d = c.q - 1
  <2>1. c.q \in 0 .. Modulus - 1
    BY DEF Counter
  <2>2. CASE c.q = 0
    BY <2>2, ModulusAssumption
  <2>3. CASE c.q >= 1
    <3>1. c.q + Modulus - 1 = 1 * Modulus + (c.q - 1)
      BY <2>1, ModulusAssumption
    <3> QED BY <3>1, <2>1, <2>3, ModulusAssumption
  <2> QED BY <2>1, <2>2, <2>3
<1> HIDE DEF d
<1>2. c.fsm \in {"IDLE", "COUNT", "EXPIRE"}
  BY DEF Counter
<1>3. CASE c.fsm = "IDLE"
  <2>1. reg_to_counter(c, start, stop) = IF start THEN [fsm |-> "COUNT", q |-> d] ELSE c
    BY <1>3 DEF reg_to_counter, d
  <2> QED BY <1>1, <1>3, <2>1 DEF Counter, Counts
<1>4. CASE c.fsm = "COUNT"
  <2>1. reg_to_counter(c, start, stop) = [fsm |-> IF d = 0 THEN "EXPIRE" ELSE "COUNT", q |-> d]
    BY <1>4 DEF reg_to_counter, d
  <2> QED BY <1>1, <1>4, <2>1, ModulusAssumption DEF Counter, Counts
<1>5. CASE c.fsm = "EXPIRE"
  <2>1. reg_to_counter(c, start, stop) = [c EXCEPT !.fsm = IF stop THEN "IDLE" ELSE "EXPIRE"]
    BY <1>5 DEF reg_to_counter, d
  <2> QED BY <1>5, <2>1 DEF Counter, Counts
<1> QED BY <1>2, <1>3, <1>4, <1>5

(* CountDown, for the counters of one signal.                              *)
LEMMA CountersStep ==
    ASSUME CountDown, cnt \in [Signals -> [off : Counter, on : Counter]]
    PROVE  /\ cnt' \in [Signals -> [off : Counter, on : Counter]]
           /\ \A s \in Signals :
                /\ Counts(cnt[s].off, cnt'[s].off,
                          Fsm(s) = "IDLE" /\ start_off_sequence, regs.counters_stop)
                /\ Counts(cnt[s].on, cnt'[s].on,
                          Fsm(s) = "SWITCH_OFF" /\ start_on_sequence, regs.counters_stop)
<1>1. ASSUME NEW s \in Signals
      PROVE  /\ cnt'[s] \in [off : Counter, on : Counter]
             /\ Counts(cnt[s].off, cnt'[s].off,
                       Fsm(s) = "IDLE" /\ start_off_sequence, regs.counters_stop)
             /\ Counts(cnt[s].on, cnt'[s].on,
                       Fsm(s) = "SWITCH_OFF" /\ start_on_sequence, regs.counters_stop)
  <2> DEFINE starts == Fsm(s) = "IDLE" /\ start_off_sequence
             resumes == Fsm(s) = "SWITCH_OFF" /\ start_on_sequence
             stop == regs.counters_stop
             x == reg_to_counter(cnt[s].off, starts, stop)
             y == reg_to_counter(cnt[s].on, resumes, stop)
  <2>1. cnt'[s] = [off |-> x, on |-> y]
    BY DEF CountDown, Fsm, counter_start_switch_off, counter_start_switch_on
  <2>2. cnt[s].off \in Counter /\ cnt[s].on \in Counter
    OBVIOUS
  <2>3. /\ x \in Counter /\ Counts(cnt[s].off, x, starts, stop)
        /\ y \in Counter /\ Counts(cnt[s].on, y, resumes, stop)
    <3> HIDE DEF starts, resumes, stop
    <3> QED BY <2>2, CounterStep
  <2> HIDE DEF x, y
  <2> QED BY <2>1, <2>3
<1> QED BY <1>1 DEF CountDown

(* A core that is held or sleeps without an interrupt executes nothing.    *)
LEMMA CoreHeld ==
    ASSUME CoreIdle \/ CoreStep, ~CanRun \/ Asleep
    PROVE  CoreIdle
<1>1. CASE ~CanRun
  BY <1>1 DEF CoreStep
<1>2. CASE Asleep
  BY <1>2 DEF CoreStep, Asleep, power_gate_core, power_manager_cpu_store,
     power_gate_core_cleanup, boot_rom, power_manager_cpu_restore, Application,
     GateCore, PlainWfi, GateDomain, power_gate_domain, Jump
<1> QED BY <1>1, <1>2

(* Supplies, for one domain and for the CPU's.                             *)
LEMMA SupplyStep ==
    ASSUME Supplies, NEW d \in Domains
    PROVE  /\ rail'[d] = rail[d] \/ rail'[d] = SwitchOf(d)
           /\ ack'[d] = <<rail[d], ack[d][1], ack[d][2]>>
           /\ garbage'[d] <=> ~rail'[d] \/ (garbage[d] /\ HasReset(d) /\ ResetOf(d))
BY DEF Supplies

(* The supply follows the switch; the acknowledge lags it by three cycles. *)
LEMMA CpuSupply ==
    ASSUME Supplies
    PROVE  /\ rail["cpu"] /\ Out("switch") => rail'["cpu"]
           /\ rail'["cpu"] => rail["cpu"] \/ Out("switch")
           /\ Powered /\ Out("switch") => Powered'
           /\ rail'["cpu"] /\ ~Out("reset") => ~garbage'["cpu"]
           /\ rail'["cpu"] /\ ~garbage["cpu"] => ~garbage'["cpu"]
           /\ ack'["cpu"][1] <=> rail["cpu"]
           /\ ack'["cpu"][2] <=> ack["cpu"][1]
           /\ ack'["cpu"][3] <=> ack["cpu"][2]
BY SupplyStep DEF Domains, SwitchOf, ResetOf, Out, Powered

(* Where the interrupt may rise.                                           *)
LEMMA InterruptStep ==
    ASSUME Interrupt, irq \in BOOLEAN, use \in Uses, HealthyUses
    PROVE  /\ irq' \in BOOLEAN
           /\ ~irq /\ irq' => \/ AllOff
                              \/ ~Falling /\ ("awake" \in use.wake \/ cpu.pc = "plain_sleep")
           /\ use.wfi => "awake" \notin use.wake
<1>1. "falling" \notin use.wake /\ (use.wfi => "awake" \notin use.wake)
  BY DEF HealthyUses
<1>2. CASE irq' = irq
  BY <1>1, <1>2
<1>3. CASE irq' # irq
  BY <1>1, <1>3 DEF Interrupt
<1> QED BY <1>2, <1>3

(* While no sequence starts the counters that have expired are stopped,    *)
(* the others keep their value.                                            *)
LEMMA CountersRest ==
    ASSUME CountDown, cnt \in [Signals -> [off : Counter, on : Counter]], Settled,
           ~start_off_sequence \/ AllIn({"RESET"}), AllIn({"RESET", "IDLE"})
    PROVE  /\ Settled'
           /\ Stopped => AllIdle'
           /\ AllIdle => AllIdle'
           /\ CountersLoaded => CountersLoaded'
<1>1. ASSUME NEW s \in Signals
      PROVE  /\ cnt[s].off.fsm = "IDLE" => cnt'[s].off = cnt[s].off
             /\ cnt[s].off.fsm = "EXPIRE" =>
                   cnt'[s].off.fsm = IF regs.counters_stop THEN "IDLE" ELSE "EXPIRE"
             /\ cnt[s].on.fsm = "IDLE" => cnt'[s].on = cnt[s].on
             /\ cnt[s].on.fsm = "EXPIRE" =>
                   cnt'[s].on.fsm = IF regs.counters_stop THEN "IDLE" ELSE "EXPIRE"
  <2>1. ~(Fsm(s) = "IDLE" /\ start_off_sequence) /\ Fsm(s) # "SWITCH_OFF"
    BY DEF AllIn
  <2> QED BY <2>1, CountersStep DEF Counts
<1>2. ASSUME NEW s \in Signals
      PROVE  /\ cnt[s].off.fsm \in {"IDLE", "EXPIRE"}
             /\ cnt[s].on.fsm \in {"IDLE", "EXPIRE"}
  BY DEF Settled
<1>3. Settled'
  BY <1>1, <1>2 DEF Settled
<1>4. Stopped => AllIdle'
  BY <1>1, <1>2 DEF Stopped, AllIdle
<1>5. AllIdle => AllIdle'
  BY <1>1 DEF AllIdle
<1>6. CountersLoaded => CountersLoaded'
  BY <1>1 DEF CountersLoaded, OnCountersLoaded, Signals
<1> QED BY <1>3, <1>4, <1>5, <1>6

(* The first cycle after the reset of the chip.                            *)
LEMMA BootStep ==
    ASSUME CpuTypes, CpuBoot, Powered, Programmed, Clock, CoreIdle \/ CoreStep
    PROVE  CpuAwake'
<1>1. ~CanRun
  BY DEF CpuBoot, Out, CanRun
<1>2. CoreIdle
  BY <1>1, CoreHeld
<1>3. cpu' = Idle("reset") /\ regs' = regs /\ CountDown
  BY <1>2 DEF CpuBoot, Out, CoreIdle
<1>4. Powered'
  BY CpuSupply DEF CpuBoot, Clock
<1>5. AllIn({"IDLE"})' /\ Out("switch")' /\ Out("iso")'
  BY SequenceStep DEF CpuBoot, AllIn, Signals, Clock
<1>6. Programmed'
  <2>1. Settled' /\ (Stopped => AllIdle')
    BY <1>3, CountersRest DEF CpuBoot, AllIn, Programmed, CpuTypes
  <2>2. AllIdle' => Stopped'
    BY DEF AllIdle, Stopped
  <2> QED BY <1>3, <2>1, <2>2 DEF Programmed, Idle, CpuBoot, Gating
<1> QED BY <1>3, <1>4, <1>5, <1>6 DEF CpuAwake, Idle

(* power_gate_core loads the counters with the order the property needs.   *)
LEMMA CountersAreLoaded ==
    ASSUME OrderedCounters, NEW c \in Counters, LoadCounters(c), AllIdle,
           cnt \in [Signals -> [off : Counter, on : Counter]]
    PROVE  /\ cnt' \in [Signals -> [off : Counter, on : Counter]]
           /\ Settled' /\ CountersLoaded'
<1>1. ASSUME NEW x \in {"reset_off", "reset_on", "switch_off", "switch_on", "iso_off", "iso_on"}
      PROVE  c[x] \in 0 .. Modulus - 1 /\ c[x] >= 2
  BY PowerAssumption DEF OrderedCounters, Ordered
<1>2. ASSUME NEW s \in Signals
      PROVE  /\ cnt'[s] \in [off : Counter, on : Counter]
             /\ cnt'[s].off.fsm = "IDLE" /\ cnt'[s].off.q = c[OffField[s]]
             /\ cnt'[s].on.fsm = "IDLE" /\ cnt'[s].on.q = c[OnField[s]]
  <2>1. c[OffField[s]] \in 0 .. Modulus - 1 /\ c[OnField[s]] \in 0 .. Modulus - 1
    BY <1>1 DEF Signals, OffField, OnField
  <2> DEFINE x == [cnt[s].off EXCEPT !.q = c[OffField[s]]]
             y == [cnt[s].on EXCEPT !.q = c[OnField[s]]]
  <2>2. cnt'[s] = [off |-> x, on |-> y]
    BY DEF LoadCounters
  <2>3. /\ x \in Counter /\ x.fsm = "IDLE" /\ x.q = c[OffField[s]]
        /\ y \in Counter /\ y.fsm = "IDLE" /\ y.q = c[OnField[s]]
    BY <2>1 DEF AllIdle, Counter
  <2> HIDE DEF x, y
  <2> QED BY <2>2, <2>3
<1>3. cnt' \in [Signals -> [off : Counter, on : Counter]]
  BY <1>2 DEF LoadCounters
<1>4. Settled'
  BY <1>2 DEF Settled
<1>5. CountersLoaded'
  BY <1>1, <1>2
     DEF CountersLoaded, OnCountersLoaded, OrderedCounters, Ordered, Signals, OffField, OnField
<1> QED BY <1>3, <1>4, <1>5

(* No sequence starts: the core executes one of its steps, or none.        *)
LEMMA AwakeStays ==
    ASSUME HealthyUses, OrderedCounters, CpuTypes, CpuAwake, Clock,
           CoreIdle \/ CoreStep, ~start_off_sequence
    PROVE  CpuAwake' /\ cnt' \in [Signals -> [off : Counter, on : Counter]]
           /\ (regs.power_gate_core => regs.wait_ack)'
<1>1. Powered'
  BY CpuSupply DEF CpuAwake, Clock
<1>2. AllIn({"IDLE"})' /\ \A s \in Signals : Out(s)'
  BY SequenceStep DEF CpuAwake, AllIn, Clock
<1>3. irq' \in BOOLEAN /\ use' = use
      /\ (use.wfi /\ ~irq /\ irq' => cpu.pc = "plain_sleep")
      /\ (use.wfi => "awake" \notin use.wake)
  <2>1. ~AllOff
    BY DEF CpuAwake, AllIn, AllOff, Fsm, Signals
  <2> QED BY <2>1, InterruptStep DEF CpuTypes, Clock
<1>4. CountDown =>
         /\ cnt' \in [Signals -> [off : Counter, on : Counter]]
         /\ Settled' /\ (Stopped => AllIdle') /\ (AllIdle => AllIdle')
         /\ CountersLoaded => CountersLoaded'
  <2>1. AllIn({"RESET", "IDLE"})
    BY DEF CpuAwake, AllIn
  <2>2. CountDown => cnt' \in [Signals -> [off : Counter, on : Counter]]
    BY CountersStep DEF CpuTypes
  <2> QED BY <2>1, <2>2, CountersRest DEF CpuTypes, CpuAwake, Programmed
<1>5. AllIdle' => Stopped'
  BY DEF AllIdle, Stopped
<1>6. Programmed
  BY DEF CpuAwake
<1>7. CASE CoreIdle
  <2>1. regs' = regs /\ cpu'.pc = cpu.pc /\ CountDown
    BY <1>7 DEF CoreIdle, CpuAwake, Out, Idle
  <2> QED BY <1>1, <1>2, <1>3, <1>4, <1>5, <1>6, <2>1
          DEF CpuAwake, CpuTypes, Programmed, Gating, Stopped, AllIdle, Signals
<1>8. CASE CoreStep
  <2>0. Out("reset")'
    BY <1>2 DEF Signals
  <2> SUFFICES Programmed' /\ cnt' \in [Signals -> [off : Counter, on : Counter]]
               /\ (regs.power_gate_core => regs.wait_ack)'
    BY <1>1, <1>2, <2>0 DEF CpuAwake, Signals
  <2>1. CASE power_gate_domain
    BY <1>3, <1>4, <1>5, <1>6, <2>1
       DEF power_gate_domain, CpuTypes, CpuShape, Programmed, Idle, Gating
  <2>2. CASE Application
    BY <1>3, <1>4, <1>5, <1>6, <2>2
       DEF Application, GateCore, PlainWfi, GateDomain, CpuTypes, Programmed, Idle, Jump, Gating
  <2>3. CASE power_gate_core
    <3>1. CASE /\ \/ Jump("enable_intr", "wait_ack") /\ Write("en_wait_for_intr", TRUE)
                  \/ Jump("wait_ack", "gate") /\ Write("wait_ack", TRUE)
               /\ CountDown
      BY <1>3, <1>4, <1>5, <1>6, <3>1
         DEF CpuTypes, RegFile, Programmed, Idle, Jump, Gating, Write
    <3>2. CASE /\ Jump("set_counters", "enable_intr") /\ UNCHANGED regs
               /\ \E c \in Counters : LoadCounters(c)
      <4>1. AllIdle
        BY <1>6, <3>2 DEF Programmed, Jump
      <4>2. cnt' \in [Signals -> [off : Counter, on : Counter]] /\ Settled' /\ CountersLoaded'
        BY <3>2, <4>1, CountersAreLoaded DEF CpuTypes
      <4> QED BY <1>3, <1>6, <3>2, <4>2 DEF CpuTypes, Programmed, Idle, Jump, Gating
    <3> QED BY <2>3, <3>1, <3>2 DEF power_gate_core
  <2>4. CASE power_manager_cpu_store
    BY <1>3, <1>4, <1>5, <1>6, <2>4
       DEF power_manager_cpu_store, CpuTypes, RegFile, Programmed, Idle, Jump, Gating, Write
  <2>5. CASE power_gate_core_cleanup
    BY <1>3, <1>4, <1>5, <1>6, <2>5
       DEF power_gate_core_cleanup, CpuTypes, RegFile, Programmed, Idle, Jump, Gating, Write, Stopped
  <2>6. CASE boot_rom
    BY <1>3, <1>4, <1>5, <1>6, <2>6 DEF boot_rom, CpuTypes, Programmed, Idle, Jump, Gating
  <2>7. CASE power_manager_cpu_restore
    BY <1>3, <1>4, <1>5, <1>6, <2>7
       DEF power_manager_cpu_restore, CpuTypes, RegFile, Programmed, Idle, Jump, Gating, Write
  <2> QED BY <1>8, <2>1, <2>2, <2>3, <2>4, <2>5, <2>6, <2>7 DEF CoreStep
<1> QED BY <1>7, <1>8

(* All three sequences leave IDLE together, with the counters loaded.      *)
LEMMA AwakeFalls ==
    ASSUME HealthyUses, OrderedCounters, CpuTypes, CpuAwake, Clock,
           CoreIdle \/ CoreStep, start_off_sequence
    PROVE  /\ CpuFalling' /\ cnt' \in [Signals -> [off : Counter, on : Counter]]
           /\ (regs.power_gate_core => regs.wait_ack)'
<1>1. /\ Asleep /\ Out("reset") /\ regs.power_gate_core /\ regs.wait_ack
      /\ cpu.pc = "sleep" /\ regs.wakeup_state /\ CountersLoaded
  BY DEF start_off_sequence, core_sleep, CanRun, Asleep, Out, CpuAwake, Programmed,
         CpuTypes, Gating
<1>2. CoreIdle
  BY <1>1, CoreHeld
<1>3. cpu' = cpu /\ regs' = regs /\ CountDown
  BY <1>1, <1>2 DEF CoreIdle, Out
<1>4. irq' = FALSE
  <2>1. ~AllOff /\ Falling
    BY DEF CpuAwake, AllIn, AllOff, Falling, Fsm, Signals
  <2> QED BY <1>1, <2>1, InterruptStep DEF CpuTypes, Clock, Asleep
<1>5. ASSUME NEW s \in Signals
      PROVE  /\ Fsm(s)' = "WAIT_SWITCH_OFF_COUNTER" /\ Out(s)'
             /\ cnt'[s].off.fsm = "COUNT" /\ cnt'[s].off.q = cnt[s].off.q - 1
             /\ cnt[s].off.q \in Nat /\ cnt[s].off.q >= 2
             /\ cnt'[s].on = cnt[s].on
  <2>1. Fsm(s)' = "WAIT_SWITCH_OFF_COUNTER" /\ Out(s)'
    BY SequenceStep DEF CpuAwake, AllIn, Clock
  <2>2. cnt[s].off.fsm = "IDLE" /\ cnt[s].off.q >= 2 /\ cnt[s].on.fsm = "IDLE"
    BY <1>1 DEF CountersLoaded, OnCountersLoaded
  <2>3. cnt[s].off.q \in Nat
    BY ModulusAssumption DEF CpuTypes, Counter
  <2>4. Fsm(s) = "IDLE"
    BY DEF CpuAwake, AllIn
  <2> QED BY <1>3, <2>1, <2>2, <2>3, <2>4, CountersStep DEF CpuTypes, Counts
<1>6. Powered'
  BY CpuSupply DEF CpuAwake, Clock
<1>7. OnCountersLoaded'
  BY <1>1, <1>5 DEF CountersLoaded, OnCountersLoaded, Signals
<1>8. cnt["iso"].off.q <= cnt["switch"].off.q
  BY <1>1 DEF CountersLoaded
<1>9. CpuFalling'
  BY <1>1, <1>3, <1>4, <1>5, <1>6, <1>7, <1>8 DEF CpuFalling, AllIn, Signals
<1> QED BY <1>1, <1>3, <1>9, CountersStep DEF CpuTypes

(* The sequences run down; an interrupt that comes when all have, starts   *)
(* them on together.                                                       *)
LEMMA FallingStep ==
    ASSUME HealthyUses, CpuTypes, CpuFalling, Clock, CoreIdle \/ CoreStep
    PROVE  /\ CpuFalling' \/ CpuRising'
           /\ cnt' \in [Signals -> [off : Counter, on : Counter]]
           /\ (regs.power_gate_core => regs.wait_ack)'
<1>1. Out("reset") => Asleep /\ cpu.pc = "sleep"
  BY DEF CpuFalling, Asleep, Signals
<1>2. CoreIdle
  BY <1>1, CoreHeld DEF CanRun, Out
<1>3. /\ regs' = regs /\ CountDown
      /\ cnt' \in [Signals -> [off : Counter, on : Counter]]
      /\ cpu' = IF Out("reset") THEN cpu ELSE Idle("reset")
  BY <1>2, CountersStep DEF CoreIdle, Out, CpuTypes
<1>4. ASSUME NEW s \in Signals
      PROVE  /\ Fsm(s) = "WAIT_SWITCH_OFF_COUNTER" \/ Fsm(s) = "SWITCH_OFF"
             /\ Out(s)' <=> Fsm(s) = "WAIT_SWITCH_OFF_COUNTER"
             /\ Fsm(s) = "WAIT_SWITCH_OFF_COUNTER" =>
                   Fsm(s)' = IF cnt[s].off.fsm = "EXPIRE" THEN "SWITCH_OFF"
                             ELSE "WAIT_SWITCH_OFF_COUNTER"
             /\ Fsm(s) = "SWITCH_OFF" =>
                   Fsm(s)' = IF start_on_sequence THEN "WAIT_SWITCH_ON_COUNTER" ELSE "SWITCH_OFF"
  BY SequenceStep DEF CpuFalling, AllIn, Clock
<1>5. ASSUME NEW s \in Signals
      PROVE  /\ cnt[s].on.q \in Nat /\ cnt[s].off.q \in Nat
             /\ Counts(cnt[s].off, cnt'[s].off, FALSE, regs.counters_stop)
             /\ Counts(cnt[s].on, cnt'[s].on,
                       Fsm(s) = "SWITCH_OFF" /\ start_on_sequence, regs.counters_stop)
  <2>1. cnt[s].on.q \in Nat /\ cnt[s].off.q \in Nat
    BY ModulusAssumption DEF CpuTypes, Counter
  <2>2. Fsm(s) # "IDLE"
    BY <1>4
  <2> QED BY <1>3, <2>1, <2>2, CountersStep DEF CpuTypes, Counts
<1>6. OnCountersLoaded
  BY DEF CpuFalling
<1>7. CASE start_on_sequence
  <2>1. irq
    BY <1>7 DEF start_on_sequence
  <2>2. ASSUME NEW s \in Signals PROVE Fsm(s) = "SWITCH_OFF" /\ ~Out(s)
    BY <1>4, <2>1 DEF CpuFalling
  <2>3. ASSUME NEW s \in Signals
        PROVE  /\ Fsm(s)' = "WAIT_SWITCH_ON_COUNTER" /\ ~Out(s)'
               /\ cnt'[s].on.fsm = "COUNT" /\ cnt'[s].on.q = cnt[s].on.q - 1
               /\ cnt[s].on.q >= 2
               /\ cnt'[s].off.fsm \in {"IDLE", "EXPIRE"}
    <3>1. cnt[s].on.fsm = "IDLE" /\ cnt[s].on.q >= 2 /\ cnt[s].off.fsm \in {"IDLE", "EXPIRE"}
      BY <1>6, <2>2 DEF OnCountersLoaded, CpuFalling
    <3> QED BY <1>4, <1>5, <1>7, <2>2, <3>1 DEF Counts
  <2>4. ASSUME NEW s \in {"iso", "reset"} PROVE Ahead(s)'
    <3>1. cnt[s].on.q >= cnt["switch"].on.q + 5
      BY <1>6 DEF OnCountersLoaded
    <3> QED BY <1>5, <2>3, <3>1 DEF Ahead, Signals
  <2>5. cpu'.pc = "reset"
    BY <1>3, <2>2 DEF Idle, Signals
  <2>6. CpuRising'
    BY <1>3, <2>3, <2>4, <2>5 DEF CpuRising, CpuFalling, AllIn, Signals
  <2> QED BY <1>3, <2>6 DEF CpuTypes
<1>8. CASE ~start_on_sequence
  <2>1. ASSUME NEW s \in Signals
        PROVE  /\ Fsm(s)' = "WAIT_SWITCH_OFF_COUNTER" =>
                    /\ Fsm(s) = "WAIT_SWITCH_OFF_COUNTER"
                    /\ Out(s)' /\ Out(s) /\ ~irq
                    /\ cnt[s].off.fsm = "COUNT" /\ cnt[s].off.q >= 1
                    /\ cnt'[s].off.q = cnt[s].off.q - 1
                    /\ cnt'[s].off.fsm = IF cnt[s].off.q = 1 THEN "EXPIRE" ELSE "COUNT"
               /\ Fsm(s)' = "SWITCH_OFF" => cnt'[s].off.fsm \in {"IDLE", "EXPIRE"}
               /\ Fsm(s)' \in {"WAIT_SWITCH_OFF_COUNTER", "SWITCH_OFF"}
               /\ cnt'[s].on = cnt[s].on
    <3>1. /\ Fsm(s) = "WAIT_SWITCH_OFF_COUNTER" =>
                /\ Out(s) /\ ~irq
                /\ cnt[s].off.fsm = "EXPIRE" \/ (cnt[s].off.fsm = "COUNT" /\ cnt[s].off.q >= 1)
          /\ Fsm(s) = "SWITCH_OFF" => cnt[s].off.fsm \in {"IDLE", "EXPIRE"}
      BY DEF CpuFalling
    <3>2. cnt[s].on.fsm = "IDLE"
      BY <1>6 DEF OnCountersLoaded
    <3> QED BY <1>4, <1>5, <1>8, <3>1, <3>2 DEF Counts
  <2>2. (\E s \in Signals : Fsm(s) = "WAIT_SWITCH_OFF_COUNTER") => irq' = FALSE
    <3>1. (\E s \in Signals : Fsm(s) = "WAIT_SWITCH_OFF_COUNTER") => ~AllOff /\ Falling /\ ~irq
      BY DEF Falling, AllOff, CpuFalling, Fsm
    <3> QED BY <3>1, InterruptStep DEF CpuTypes, Clock
  <2>3. OnCountersLoaded'
    BY <1>6, <2>1 DEF OnCountersLoaded, Signals
  <2>4. Out("switch")' => Powered'
    BY <1>4, CpuSupply DEF CpuFalling, Signals, Clock
  <2>5. cpu'.pc = "sleep" \/ (cpu'.pc = "reset" /\ ~Out("reset")')
    <3>1. ~Out("reset") => ~Out("reset")'
      BY <1>4 DEF CpuFalling, Signals
    <3> QED BY <1>1, <1>3, <3>1 DEF Idle
  <2>6. Fsm("switch")' = "SWITCH_OFF" => Fsm("iso")' = "SWITCH_OFF"
    BY <1>4, <1>8 DEF CpuFalling, Signals
  <2>7. Fsm("iso")' = "WAIT_SWITCH_OFF_COUNTER" =>
          \/ cnt'["iso"].off.fsm = "EXPIRE"
          \/ cnt'["switch"].off.fsm = "COUNT" /\ cnt'["iso"].off.q <= cnt'["switch"].off.q
    BY <1>4, <1>5, <1>8, <2>1, <2>6 DEF CpuFalling, Signals
  <2>8. ~Out("switch")' => ~Out("iso")'
    BY <1>4 DEF CpuFalling, Signals
  <2>9. CpuFalling'
    <3>1. regs'.wakeup_state /\ regs'.wait_ack
      BY <1>3 DEF CpuFalling
    <3>2. AllIn({"WAIT_SWITCH_OFF_COUNTER", "SWITCH_OFF"})'
      BY <2>1 DEF AllIn
    <3>3. ASSUME NEW s \in Signals
          PROVE  /\ Fsm(s)' = "WAIT_SWITCH_OFF_COUNTER" =>
                    /\ Out(s)' /\ ~irq'
                    /\ \/ cnt'[s].off.fsm = "EXPIRE"
                       \/ cnt'[s].off.fsm = "COUNT" /\ cnt'[s].off.q >= 1
                 /\ Fsm(s)' = "SWITCH_OFF" => cnt'[s].off.fsm \in {"IDLE", "EXPIRE"}
                 /\ Out(s)' => ~irq'
      <4>1. cnt[s].off.q \in Nat
        BY <1>5
      <4>2. Fsm(s) = "WAIT_SWITCH_OFF_COUNTER" => ~irq'
        BY <2>2
      <4> QED BY <1>4, <2>1, <4>1, <4>2
    <3> QED BY <2>3, <2>4, <2>5, <2>6, <2>7, <2>8, <3>1, <3>2, <3>3 DEF CpuFalling
  <2> QED BY <1>3, <2>9 DEF CpuTypes
<1> QED BY <1>7, <1>8

(* The counters of isolation and reset run behind the switch; when they    *)
(* expire the acknowledge that is read cannot be older than the supply.    *)
LEMMA RisingStep ==
    ASSUME HealthyUses, CpuTypes, CpuRising, Clock, CoreIdle \/ CoreStep
    PROVE  /\ CpuRising' \/ CpuAwake'
           /\ cnt' \in [Signals -> [off : Counter, on : Counter]]
           /\ (regs.power_gate_core => regs.wait_ack)'
<1>1. ~CanRun
  <2>1. CanRun => AllIn({"IDLE"})
    BY DEF CanRun, CpuRising, AllIn, Signals, Out
  <2> QED BY <2>1 DEF CpuRising
<1>2. CoreIdle
  BY <1>1, CoreHeld
<1>3. /\ regs' = regs /\ CountDown /\ cpu'.pc = "reset"
      /\ cnt' \in [Signals -> [off : Counter, on : Counter]]
  BY <1>2, CountersStep DEF CoreIdle, CpuTypes, CpuRising, Idle
<1>4. ~start_off_sequence
  BY <1>1 DEF start_off_sequence, core_sleep
<1>5. ASSUME NEW s \in Signals
      PROVE  /\ cnt[s].on.q \in Nat
             /\ Counts(cnt[s].off, cnt'[s].off, FALSE, regs.counters_stop)
             /\ Counts(cnt[s].on, cnt'[s].on, FALSE, regs.counters_stop)
  <2>1. cnt[s].on.q \in Nat
    BY ModulusAssumption DEF CpuTypes, Counter
  <2>2. Fsm(s) # "SWITCH_OFF"
    BY DEF CpuRising, Signals
  <2> QED BY <1>3, <1>4, <2>1, <2>2, CountersStep DEF CpuTypes, Counts
<1>6. \A s \in Signals : cnt'[s].off.fsm \in {"IDLE", "EXPIRE"}
  BY <1>5 DEF CpuRising, Counts
<1>7. cpu_switch_wait_ack <=> ack["cpu"][3]
  BY DEF cpu_switch_wait_ack, CpuRising
<1>8. /\ Fsm("switch") = "IDLE" => Fsm("switch")' = "IDLE"
      /\ Fsm("switch") = "SWITCH_ON" => Fsm("switch")' = "IDLE"
      /\ Fsm("switch") = "WAIT_SWITCH_ON_COUNTER" =>
            Fsm("switch")' = IF cnt["switch"].on.fsm = "EXPIRE" THEN "SWITCH_ON"
                             ELSE "WAIT_SWITCH_ON_COUNTER"
      /\ Out("switch")' <=> Fsm("switch")' = "IDLE"
  BY <1>4, SequenceStep DEF CpuRising, Clock, Signals
<1>9. ASSUME NEW s \in {"iso", "reset"}
      PROVE  /\ Fsm(s) = "WAIT_SWITCH_ON_COUNTER" =>
                   Fsm(s)' = IF cnt[s].on.fsm # "EXPIRE" THEN "WAIT_SWITCH_ON_COUNTER"
                             ELSE IF ack["cpu"][3] THEN "SWITCH_ON" ELSE "WAIT_ACK"
             /\ Fsm(s) = "WAIT_ACK" =>
                   Fsm(s)' = IF ack["cpu"][3] THEN "SWITCH_ON" ELSE "WAIT_ACK"
             /\ Fsm(s) = "SWITCH_ON" => Fsm(s)' = "IDLE"
             /\ Fsm(s) = "IDLE" => Fsm(s)' = "IDLE"
             /\ Out(s)' <=> Fsm(s)' = "IDLE"
  BY <1>4, <1>7, SequenceStep DEF CpuRising, Clock, Signals
<1>10. /\ rail["cpu"] /\ Fsm("switch") = "IDLE" => rail'["cpu"]
       /\ ack'["cpu"][1] <=> rail["cpu"]
       /\ ack'["cpu"][2] <=> ack["cpu"][1]
       /\ ack'["cpu"][3] <=> ack["cpu"][2]
  BY CpuSupply DEF CpuRising, Clock
<1>11. ASSUME NEW s \in {"iso", "reset"}, Fsm(s) = "WAIT_SWITCH_ON_COUNTER"
       PROVE  \/ Fsm(s)' = "WAIT_SWITCH_ON_COUNTER" /\ Ahead(s)'
              \/ /\ Fsm("switch") = "IDLE" /\ cnt[s].on.fsm = "EXPIRE"
                 /\ ack["cpu"][1] \/ ack["cpu"][2] \/ ack["cpu"][3] => rail["cpu"]
  <2>1. Ahead(s)
    BY <1>11 DEF CpuRising
  <2>2. /\ cnt[s].on.q \in Nat /\ cnt["switch"].on.q \in Nat
        /\ Counts(cnt[s].on, cnt'[s].on, FALSE, regs.counters_stop)
        /\ Counts(cnt["switch"].on, cnt'["switch"].on, FALSE, regs.counters_stop)
    BY <1>5 DEF Signals
  <2> QED BY <1>8, <1>9, <1>10, <1>11, <2>1, <2>2 DEF Ahead, Counts
<1>12. ASSUME NEW s \in {"iso", "reset"}
       PROVE  /\ Fsm(s)' \in {"WAIT_SWITCH_ON_COUNTER", "WAIT_ACK", "SWITCH_ON", "IDLE"}
              /\ Fsm(s)' = "WAIT_SWITCH_ON_COUNTER" => Ahead(s)'
              /\ Fsm(s)' # "WAIT_SWITCH_ON_COUNTER" =>
                    /\ Fsm("switch") = "IDLE" /\ cnt'[s].on.fsm \in {"IDLE", "EXPIRE"}
              /\ Fsm(s)' = "WAIT_ACK" =>
                    (ack'["cpu"][1] \/ ack'["cpu"][2] \/ ack'["cpu"][3] => rail'["cpu"])
              /\ Fsm(s)' \in {"SWITCH_ON", "IDLE"} => rail["cpu"] /\ rail'["cpu"]
  <2>1. Counts(cnt[s].on, cnt'[s].on, FALSE, regs.counters_stop)
    BY <1>5 DEF Signals
  <2>2. CASE Fsm(s) = "WAIT_SWITCH_ON_COUNTER"
    BY <1>9, <1>10, <1>11, <2>1, <2>2 DEF Counts
  <2>3. CASE Fsm(s) # "WAIT_SWITCH_ON_COUNTER"
    BY <1>9, <1>10, <2>1, <2>3 DEF Counts, CpuRising
  <2> QED BY <2>2, <2>3
<1>13. Fsm("reset")' \in {"SWITCH_ON", "IDLE"} => ~garbage'["cpu"]
  <2>1. CASE Fsm("reset") \in {"SWITCH_ON", "IDLE"}
    BY <1>12, <2>1, CpuSupply DEF CpuRising, Clock
  <2>2. CASE Fsm("reset") \notin {"SWITCH_ON", "IDLE"}
    BY <1>12, <2>2, CpuSupply DEF CpuRising, Clock
  <2> QED BY <2>1, <2>2
<1>14. CASE AllIn({"IDLE"})'
  <2>1. Out("switch")' /\ Out("iso")' /\ Out("reset")'
    BY <1>8, <1>9, <1>14 DEF AllIn, Signals
  <2>2. Powered'
    BY <1>12, <1>13, <1>14 DEF AllIn, Signals, Powered
  <2>3. Settled'
    <3>1. \A s \in {"iso", "reset"} : cnt'[s].on.fsm \in {"IDLE", "EXPIRE"}
      BY <1>12, <1>14 DEF AllIn, Signals
    <3>2. Fsm("switch") = "IDLE"
      BY <1>12, <1>14 DEF AllIn, Signals
    <3>3. cnt'["switch"].on.fsm \in {"IDLE", "EXPIRE"}
      BY <1>5, <3>2 DEF CpuRising, Counts, Signals
    <3> QED BY <1>6, <3>1, <3>3 DEF Settled, Signals
  <2>4. Programmed'
    BY <1>3, <2>3 DEF Programmed, CpuRising, Gating
  <2> QED BY <1>3, <1>14, <2>1, <2>2, <2>4 DEF CpuAwake, CpuTypes
<1>15. CASE ~AllIn({"IDLE"})'
  <2>1. Fsm("switch")' # "WAIT_SWITCH_ON_COUNTER" => cnt'["switch"].on.fsm \in {"IDLE", "EXPIRE"}
    BY <1>5, <1>8 DEF CpuRising, Counts, Signals
  <2>2. Fsm("switch")' \in {"WAIT_SWITCH_ON_COUNTER", "SWITCH_ON", "IDLE"}
    BY <1>8 DEF CpuRising
  <2>3. CpuRising'
    BY <1>3, <1>6, <1>8, <1>9, <1>12, <1>13, <1>15, <2>1, <2>2 DEF CpuRising
  <2> QED BY <1>3, <2>3 DEF CpuTypes
<1> QED BY <1>14, <1>15

(* A reset of the chip leaves the CPU domain powered and nothing counting. *)
LEMMA CpuInit == ASSUME Init PROVE CpuInv
<1>1. CpuTypes
  <2>1. regs \in RegFile
    BY DEF Init, RegFile
  <2>2. cnt \in [Signals -> [off : Counter, on : Counter]]
    BY ModulusAssumption DEF Init, Counter
  <2>3. CpuShape
    BY DEF Init, CpuShape, Idle
  <2> QED BY <2>1, <2>2, <2>3 DEF Init, CpuTypes
<1>2. CpuBoot
  BY DEF Init, CpuBoot, AllIn, Fsm, Out, Signals, AtReset, Idle
<1>3. Powered
  BY DEF Init, Powered, Domains
<1>4. Programmed
  BY DEF Init, Programmed, Settled, Stopped, AllIdle, Signals, Idle, Gating
<1> QED BY <1>1, <1>2, <1>3, <1>4 DEF CpuInv

(* Every cycle leaves the CPU domain in its phase or takes it to the next. *)
LEMMA CpuStep ==
    ASSUME HealthyUses, OrderedCounters, CpuInv, Clock, CoreIdle \/ CoreStep
    PROVE  CpuInv'
<1>1. CpuTypes
  BY DEF CpuInv
<1>2. /\ CpuShape' /\ regs' \in RegFile /\ use' \in Uses /\ irq' \in BOOLEAN
  BY <1>1, ShapeStep, InterruptStep DEF CpuTypes, Clock
<1>3. CASE CpuBoot /\ Powered /\ Programmed
  <2>1. CpuAwake'
    BY <1>1, <1>3, BootStep
  <2>2. CoreIdle
    BY <1>3, CoreHeld DEF CpuBoot, Out, CanRun
  <2>3. cnt' \in [Signals -> [off : Counter, on : Counter]] /\ regs' = regs
    BY <1>1, <2>2, CountersStep DEF CoreIdle, CpuTypes
  <2> QED BY <1>1, <1>2, <2>1, <2>3 DEF CpuInv, CpuTypes
<1>4. CASE CpuAwake
  BY <1>1, <1>2, <1>4, AwakeStays, AwakeFalls DEF CpuInv, CpuTypes
<1>5. CASE CpuFalling
  BY <1>1, <1>2, <1>5, FallingStep DEF CpuInv, CpuTypes
<1>6. CASE CpuRising
  BY <1>1, <1>2, <1>6, RisingStep DEF CpuInv, CpuTypes
<1> QED BY <1>3, <1>4, <1>5, <1>6 DEF CpuInv

(* In every phase a domain that has lost its power is clamped, and clamped *)
(* or in reset until its garbage is gone; the core switches another domain *)
(* only while it is out of reset.                                          *)
LEMMA CpuSafe ==
    ASSUME CpuInv
    PROVE  /\ ~rail["cpu"] => ~Out("iso")
           /\ garbage["cpu"] => ~(Out("iso") /\ Out("reset"))
           /\ cpu.pc = "gate_domain" => Out("reset")
           /\ CpuShape
<1>1. CASE CpuBoot /\ Powered
  BY <1>1 DEF CpuBoot, Powered, CpuInv, CpuTypes
<1>2. CASE CpuAwake
  BY <1>2 DEF CpuAwake, Powered, CpuInv, CpuTypes
<1>3. CASE CpuFalling
  BY <1>3 DEF CpuFalling, AllIn, Signals, Powered, CpuInv, CpuTypes
<1>4. CASE CpuRising
  BY <1>4 DEF CpuRising, CpuInv, CpuTypes
<1> QED BY <1>1, <1>2, <1>3, <1>4 DEF CpuInv

-----------------------------------------------------------------------------
\* The calls, and what is left of them after one, two and three writes.
Call(d, a, b, c, r) == IF HasReset(d) THEN <<a, b, c, r>> ELSE <<a, b, c>>
Left1(d, b, c, r)   == IF HasReset(d) THEN <<b, c, r>> ELSE <<b, c>>
Left2(d, c, r)      == IF HasReset(d) THEN <<c, r>> ELSE <<c>>
Left3(d, r)         == IF HasReset(d) THEN <<r>> ELSE <<>>

\* power_gate_<domain>(kOn_e)
OnCall(d)  == Call(d, Set("wait_ack"), Clear("switch"), Clear("iso"), Clear("reset"))
OnLeft1(d) == Left1(d, Clear("switch"), Clear("iso"), Clear("reset"))
OnLeft2(d) == Left2(d, Clear("iso"), Clear("reset"))
OnLeft3(d) == Left3(d, Clear("reset"))

\* power_gate_<domain>(kOff_e)
OffCall(d)  == Call(d, Set("wait_ack"), Set("iso"), Set("switch"), Set("reset"))
OffLeft1(d) == Left1(d, Set("iso"), Set("switch"), Set("reset"))
OffLeft2(d) == Left2(d, Set("switch"), Set("reset"))
OffLeft3(d) == Left3(d, Set("reset"))

\* What a call for the retention has left to write.
RetentionLeft == UNION {{<<Clear("wait_ack"), w>>, <<w>>, <<>>} :
                            w \in {Set("retentive"), Clear("retentive")}}

\* A sequence of the domain, its output, and those that wait for the
\* acknowledge: ram has no reset.
GFsm(d, s) == gseq[d][s].fsm
GOut(d, s) == gseq[d][s].out
Edges(d) == IF HasReset(d) THEN {"iso", "reset"} ELSE {"iso"}

\* The acknowledge has gone through the synchroniser.
AckUp(d) == ack[d][1] /\ ack[d][2] /\ ack[d][3]

\* The reset of the chip.
DomainBoot(d) ==
    /\ \A s \in Signals : GFsm(d, s) = "RESET"
    /\ \A r \in Signals : ~greg[d][r]
    /\ GOut(d, "switch") /\ GOut(d, "iso") /\ ~GOut(d, "reset")
    /\ rail[d] /\ ~garbage[d]
    /\ cpu.pc = "reset" /\ ~Out("reset") /\ Fsm("reset") = "RESET"

\* After a reset of the chip the acknowledge is on its way.
AckArrives(d) ==
    \/ AckUp(d)
    \/ ack[d][1] /\ cpu.pc = "reset" /\ (ack[d][2] \/ ~Out("reset"))

\* Powered, or powered again with the edges on their way.
DomainOn(d) ==
    /\ \A s \in Edges(d) \cup {"switch"} : ~greg[d][s]
    /\ GFsm(d, "switch") = "IDLE" /\ GOut(d, "switch")
    /\ rail[d] /\ ~garbage[d] /\ AckArrives(d)
    /\ \A s \in Edges(d) : GFsm(d, s) \in {"IDLE", "WAIT_ACK", "SWITCH_ON"}

\* Switched off, and the acknowledge says so.
DomainOff(d) ==
    /\ \A s \in Edges(d) \cup {"switch"} : greg[d][s] /\ GFsm(d, s) = "WAIT_SWITCH_ON"
    /\ ~GOut(d, "switch") /\ ~GOut(d, "iso")
    /\ HasReset(d) /\ GOut(d, "reset") => cpu.pc = "app"
    /\ ~rail[d] /\ ~ack[d][1] /\ ~ack[d][2] /\ ~ack[d][3]

\* The isolation is on its way; nothing else has been written.
DomainLeaves(d) ==
    /\ greg[d]["iso"] /\ ~greg[d]["switch"]
    /\ GFsm(d, "switch") = "IDLE" /\ GOut(d, "switch")
    /\ GFsm(d, "iso") \in {"IDLE", "WAIT_SWITCH_ON"}
    /\ HasReset(d) => ~greg[d]["reset"] /\ GFsm(d, "reset") = "IDLE"
    /\ rail[d] /\ ~garbage[d] /\ AckUp(d)

\* The switch has been written as well; the isolation takes effect first.
DomainFalls(d) ==
    /\ greg[d]["iso"] /\ greg[d]["switch"]
    /\ GFsm(d, "iso") = "WAIT_SWITCH_ON"
    /\ \/ /\ GFsm(d, "switch") = "IDLE" /\ GOut(d, "switch")
          /\ rail[d] /\ ~garbage[d] /\ AckUp(d)
       \/ /\ GFsm(d, "switch") = "WAIT_SWITCH_ON" /\ ~GOut(d, "iso")
          /\ GOut(d, "switch") => rail[d]
    /\ HasReset(d) => \/ GFsm(d, "reset") = "IDLE"
                      \/ GFsm(d, "reset") = "WAIT_SWITCH_ON" /\ greg[d]["reset"]
    /\ rail[d] => ack[d][1]
    /\ ack[d][1] => ack[d][2]
    /\ ack[d][2] => ack[d][3]

\* The switch has been cleared; isolation and reset wait for the acknowledge.
DomainRises(d) ==
    /\ greg[d]["wait_ack"] /\ ~greg[d]["switch"]
    /\ GFsm(d, "switch") \in {"WAIT_SWITCH_ON", "WAIT_ACK", "SWITCH_ON", "IDLE"}
    /\ GOut(d, "switch") <=> GFsm(d, "switch") = "IDLE"
    /\ rail[d] => GOut(d, "switch")
    /\ ack[d][1] => rail[d]
    /\ ack[d][2] => ack[d][1]
    /\ ack[d][3] => ack[d][2]
    /\ \A s \in Edges(d) : 
          /\ greg[d][s] => GFsm(d, s) = "WAIT_SWITCH_ON"
          /\ GFsm(d, s) \in {"WAIT_SWITCH_ON", "WAIT_ACK", "SWITCH_ON", "IDLE"}
          /\ GOut(d, s) <=> GFsm(d, s) = "IDLE"
          /\ GFsm(d, s) \in {"SWITCH_ON", "IDLE"} => ack[d][3]
    /\ HasReset(d) /\ GFsm(d, "reset") \in {"SWITCH_ON", "IDLE"} => ~garbage[d]

\* The core is in the call for d.
Mine(d, state) ==
    cpu.pc = "gate_domain" /\ cpu.poll = [dom |-> d, state |-> state]

\* How far the call is, and how far the domain.
SwitchingOn(d) ==
    \/ /\ cpu.todo \in {OnCall(d), OnLeft1(d), OnLeft2(d), OnLeft3(d), <<>>}
       /\ DomainOn(d)
    \/ cpu.todo = OnCall(d) /\ DomainOff(d)
    \/ cpu.todo = OnLeft1(d) /\ DomainOff(d) /\ greg[d]["wait_ack"]
    \/ cpu.todo = OnLeft2(d) /\ DomainRises(d) /\ \A s \in Edges(d) : greg[d][s]
    \/ /\ cpu.todo = OnLeft3(d) /\ DomainRises(d)
       /\ ~greg[d]["iso"] /\ (HasReset(d) => greg[d]["reset"])
    \/ cpu.todo = <<>> /\ DomainRises(d) /\ \A s \in Edges(d) : ~greg[d][s]

SwitchingOff(d) ==
    \/ /\ cpu.todo \in {OffCall(d), OffLeft1(d), OffLeft2(d), OffLeft3(d), <<>>}
       /\ DomainOff(d)
    \/ /\ cpu.todo = OffCall(d) /\ DomainOn(d)
       /\ \A s \in Edges(d) : GFsm(d, s) \in {"IDLE", "SWITCH_ON"}
    \/ cpu.todo = OffLeft1(d) /\ DomainOn(d) /\ \A s \in Edges(d) : GFsm(d, s) = "IDLE"
    \/ cpu.todo = OffLeft2(d) /\ DomainLeaves(d)
    \/ cpu.todo = OffLeft3(d) /\ DomainFalls(d)
    \/ cpu.todo = <<>> /\ DomainFalls(d) /\ (HasReset(d) => greg[d]["reset"])

\* A domain is in a phase; outside the calls it is on or off.
GatedInv(d) ==
    \/ DomainBoot(d)
    \/ Mine(d, "kOn_e") /\ SwitchingOn(d)
    \/ Mine(d, "kOff_e") /\ SwitchingOff(d)
    \/ /\ ~Mine(d, "kOn_e") /\ ~Mine(d, "kOff_e")
       /\ Mine(d, "kRetOn_e") \/ Mine(d, "kRetOff_e") => cpu.todo \in RetentionLeft
       /\ DomainOn(d) \/ DomainOff(d)

\* The registers of a domain, whatever their values.
GregShape ==
    DOMAIN greg = Gated /\ \A d \in Gated : DOMAIN greg[d] = DomainRegs

\* The phases of all domains.
GatesInv ==
    /\ GregShape
    /\ cpu.pc = "gate_domain" =>
          \E d \in Gated : \E state \in CallsOf(d) : cpu.poll = [dom |-> d, state |-> state]
    /\ \A d \in Gated : GatedInv(d)

-----------------------------------------------------------------------------
(* power_gate_periph appends to the write of WAIT_ACK.                     *)
LEMMA OneAndThree ==
    ASSUME NEW a, NEW b, NEW c, NEW d
    PROVE  <<a>> \o <<b, c, d>> = <<a, b, c, d>>
<1> DEFINE S == {a, b, c, d}
           q == <<a>> \o <<b, c, d>>
           t == <<a, b, c, d>>
<1>1. <<a>> \in Seq(S) /\ <<b, c, d>> \in Seq(S) /\ t \in Seq(S)
  OBVIOUS
<1>2. Len(<<a>>) = 1 /\ Len(<<b, c, d>>) = 3 /\ Len(t) = 4
  OBVIOUS
<1>3. q \in Seq(S) /\ Len(q) = 4
  BY <1>1, <1>2, ConcatProperties
<1>4. q[1] = a /\ q[2] = b /\ q[3] = c /\ q[4] = d
  BY <1>1, <1>2, ConcatProperties
<1>5. t[1] = a /\ t[2] = b /\ t[3] = c /\ t[4] = d
  OBVIOUS
<1>6. q = t
  <2> HIDE DEF q, t, S
  <2> QED BY <1>1, <1>2, <1>3, <1>4, <1>5, SeqEqual
<1> QED BY <1>6

(* The calls of the driver, as the writes they make.                       *)
LEMMA CallWrites ==
    ASSUME NEW d \in Gated
    PROVE  /\ PowerGateWrites(d, "kOn_e") = OnCall(d)
           /\ PowerGateWrites(d, "kOff_e") = OffCall(d)
           /\ d # "periph" => /\ PowerGateWrites(d, "kRetOn_e") \in RetentionLeft
                              /\ PowerGateWrites(d, "kRetOff_e") \in RetentionLeft
<1>1. CASE d = "periph"
  <2>1. power_gate_periph("kOn_e")
          = <<Set("wait_ack"), Clear("switch"), Clear("iso"), Clear("reset")>>
    BY OneAndThree DEF power_gate_periph
  <2>2. power_gate_periph("kOff_e")
          = <<Set("wait_ack"), Set("iso"), Set("switch"), Set("reset")>>
    BY OneAndThree DEF power_gate_periph
  <2> QED BY <1>1, <2>1, <2>2 DEF PowerGateWrites, OnCall, OffCall, Call, HasReset
<1>2. CASE d = "ram"
  BY <1>2
     DEF PowerGateWrites, power_gate_ram_block, OnCall, OffCall, Call, HasReset, RetentionLeft
<1>3. CASE d = "external"
  BY <1>3
     DEF PowerGateWrites, power_gate_external, OnCall, OffCall, Call, HasReset, RetentionLeft
<1> QED BY <1>1, <1>2, <1>3, PowerAssumption

(* What is left of a call after each of its writes.                        *)
LEMMA CallsLeft ==
    ASSUME NEW d
    PROVE  /\ OnCall(d) # <<>> /\ Head(OnCall(d)) = Set("wait_ack")
           /\ Tail(OnCall(d)) = OnLeft1(d)
           /\ OnLeft1(d) # <<>> /\ Head(OnLeft1(d)) = Clear("switch")
           /\ Tail(OnLeft1(d)) = OnLeft2(d)
           /\ OnLeft2(d) # <<>> /\ Head(OnLeft2(d)) = Clear("iso")
           /\ Tail(OnLeft2(d)) = OnLeft3(d)
           /\ HasReset(d) => /\ OnLeft3(d) # <<>> /\ Head(OnLeft3(d)) = Clear("reset")
                             /\ Tail(OnLeft3(d)) = <<>>
           /\ ~HasReset(d) => OnLeft3(d) = <<>>
           /\ OffCall(d) # <<>> /\ Head(OffCall(d)) = Set("wait_ack")
           /\ Tail(OffCall(d)) = OffLeft1(d)
           /\ OffLeft1(d) # <<>> /\ Head(OffLeft1(d)) = Set("iso")
           /\ Tail(OffLeft1(d)) = OffLeft2(d)
           /\ OffLeft2(d) # <<>> /\ Head(OffLeft2(d)) = Set("switch")
           /\ Tail(OffLeft2(d)) = OffLeft3(d)
           /\ HasReset(d) => /\ OffLeft3(d) # <<>> /\ Head(OffLeft3(d)) = Set("reset")
                             /\ Tail(OffLeft3(d)) = <<>>
           /\ ~HasReset(d) => OffLeft3(d) = <<>>
BY DEF OnCall, OnLeft1, OnLeft2, OnLeft3, OffCall, OffLeft1, OffLeft2, OffLeft3,
       Call, Left1, Left2, Left3

(* A call for the retention leaves switch, isolation and reset alone.      *)
LEMMA RetentionWrites ==
    ASSUME NEW todo \in RetentionLeft, todo # <<>>
    PROVE  /\ Head(todo).reg \in {"wait_ack", "retentive"}
           /\ Tail(todo) \in RetentionLeft
<1>1. PICK w \in {Set("retentive"), Clear("retentive")} :
          todo \in {<<Clear("wait_ack"), w>>, <<w>>, <<>>}
  BY DEF RetentionLeft
<1>2. CASE todo = <<Clear("wait_ack"), w>>
  <2>1. Head(todo) = Clear("wait_ack") /\ Tail(todo) = <<w>>
    BY <1>2
  <2> QED BY <2>1 DEF RetentionLeft, Clear
<1>3. CASE todo = <<w>>
  <2>1. Head(todo) = w /\ Tail(todo) = <<>>
    BY <1>3
  <2> QED BY <2>1 DEF RetentionLeft, Set, Clear
<1> QED BY <1>1, <1>2, <1>3

(* A machine that software times, in one cycle.                            *)
LEMMA SoftSequenceStep ==
    ASSUME NEW n, NEW s, NEW onoff, NEW off, NEW on, NEW ready,
           n = power_manager_sequence(s, onoff, off, on, ready)
    PROVE  /\ s.fsm = "RESET" => n.fsm = "IDLE" /\ (n.out <=> onoff)
           /\ s.fsm = "IDLE" => n.out /\ n.fsm = IF off THEN "WAIT_SWITCH_ON" ELSE "IDLE"
           /\ s.fsm = "WAIT_SWITCH_ON" =>
                ~n.out /\ n.fsm = IF on THEN "WAIT_ACK" ELSE "WAIT_SWITCH_ON"
           /\ s.fsm = "WAIT_ACK" => ~n.out /\ n.fsm = IF ready THEN "SWITCH_ON" ELSE "WAIT_ACK"
           /\ s.fsm = "SWITCH_ON" => n.out /\ n.fsm = "IDLE"
BY DEF power_manager_sequence

(* The three signals of a domain that is not the CPU's.                    *)
LEMMA GatedSequenceStep ==
    ASSUME GatedSequences, NEW d \in Gated, NEW s \in Signals
    PROVE  /\ GFsm(d, s) = "RESET" => GFsm(d, s)' = "IDLE" /\ (GOut(d, s)' <=> s # "reset")
           /\ GFsm(d, s) = "IDLE" =>
                GOut(d, s)' /\ GFsm(d, s)' = IF greg[d][s] THEN "WAIT_SWITCH_ON" ELSE "IDLE"
           /\ GFsm(d, s) = "WAIT_SWITCH_ON" =>
                ~GOut(d, s)' /\ GFsm(d, s)' = IF greg[d][s] THEN "WAIT_SWITCH_ON" ELSE "WAIT_ACK"
           /\ GFsm(d, s) = "WAIT_ACK" =>
                ~GOut(d, s)' /\ GFsm(d, s)' = IF s = "switch" \/ switch_wait_ack(d)
                                              THEN "SWITCH_ON" ELSE "WAIT_ACK"
           /\ GFsm(d, s) = "SWITCH_ON" => GOut(d, s)' /\ GFsm(d, s)' = "IDLE"
<1>1. s \in DomainRegs \ {"wait_ack"}
  BY DEF Signals, DomainRegs
<1> DEFINE onoff == s # "reset"
           off == greg[d][s]
           on == ~greg[d][s]
           ready == s \in {"switch", "retentive"} \/ switch_wait_ack(d)
           q == gseq[d][s]
           n == gseq'[d][s]
<1>2. n = power_manager_sequence(q, onoff, off, on, ready)
  BY <1>1 DEF GatedSequences
<1>3. ready <=> s = "switch" \/ switch_wait_ack(d)
  BY DEF Signals
<1>4. on <=> ~off
  OBVIOUS
<1>5. onoff <=> s # "reset"
  OBVIOUS
<1>6. GFsm(d, s) = q.fsm /\ GFsm(d, s)' = n.fsm
  BY DEF GFsm
<1>7. (GOut(d, s)' <=> n.out) /\ (greg[d][s] <=> off)
  BY DEF GOut
<1> HIDE DEF onoff, off, on, ready, q, n
<1>8. /\ q.fsm = "RESET" => n.fsm = "IDLE" /\ (n.out <=> onoff)
      /\ q.fsm = "IDLE" => n.out /\ n.fsm = IF off THEN "WAIT_SWITCH_ON" ELSE "IDLE"
      /\ q.fsm = "WAIT_SWITCH_ON" =>
           ~n.out /\ n.fsm = IF on THEN "WAIT_ACK" ELSE "WAIT_SWITCH_ON"
      /\ q.fsm = "WAIT_ACK" => ~n.out /\ n.fsm = IF ready THEN "SWITCH_ON" ELSE "WAIT_ACK"
      /\ q.fsm = "SWITCH_ON" => n.out /\ n.fsm = "IDLE"
  BY <1>2, SoftSequenceStep
<1> QED BY <1>3, <1>4, <1>5, <1>6, <1>7, <1>8

(* The supply of a domain that is not the CPU's.                           *)
LEMMA GatedSupply ==
    ASSUME Supplies, NEW d \in Gated
    PROVE  /\ rail[d] /\ GOut(d, "switch") => rail'[d]
           /\ rail'[d] => rail[d] \/ GOut(d, "switch")
           /\ garbage'[d] => ~rail'[d] \/ (garbage[d] /\ HasReset(d) /\ GOut(d, "reset"))
           /\ ack'[d][1] <=> rail[d]
           /\ ack'[d][2] <=> ack[d][1]
           /\ ack'[d][3] <=> ack[d][2]
BY SupplyStep, PowerAssumption DEF Domains, SwitchOf, ResetOf, GOut

\* What the core may do to domain d in a cycle.
Calls == {"kOn_e", "kOff_e", "kRetOn_e", "kRetOff_e"}

CoreWaits(d) == cpu' = cpu /\ greg'[d] = greg[d]

CoreElsewhere(d) ==
    greg'[d] = greg[d] /\ \A state \in Calls : ~Mine(d, state) /\ ~Mine(d, state)'

CoreCalls(d, state) ==
    /\ cpu.pc = "app" /\ Mine(d, state)' /\ cpu'.todo = PowerGateWrites(d, state)
    /\ greg'[d] = greg[d]

CoreWrites(d, state) ==
    /\ Mine(d, state) /\ Mine(d, state)'
    /\ cpu.todo # <<>> /\ cpu'.todo = Tail(cpu.todo)
    /\ greg'[d] = [greg[d] EXCEPT ![Head(cpu.todo).reg] = Head(cpu.todo).val]

CoreReturns(d, state) ==
    /\ Mine(d, state) /\ cpu.todo = <<>> /\ PollDone
    /\ cpu' = Idle("app") /\ greg'[d] = greg[d]

(* The registers keep their places, and the core knows whom it switches.   *)
LEMMA PollStep ==
    ASSUME CpuShape, GregShape, CoreIdle \/ CoreStep,
           cpu.pc = "gate_domain" =>
               \E e \in Gated : \E state \in CallsOf(e) : cpu.poll = [dom |-> e, state |-> state]
    PROVE  /\ GregShape'
           /\ cpu'.pc = "gate_domain" =>
                 \E e \in Gated : \E state \in CallsOf(e) :
                    cpu'.poll = [dom |-> e, state |-> state]
<1>1. CASE CoreIdle
  BY <1>1 DEF CoreIdle, Idle, GregShape
<1>2. CASE power_gate_domain
  <2>1. GregShape'
    BY <1>2 DEF power_gate_domain, GregShape
  <2>2. cpu' = Idle("app") \/ cpu' = [cpu EXCEPT !.todo = Tail(@)]
    BY <1>2 DEF power_gate_domain
  <2>3. cpu'.pc = "gate_domain" => cpu'.poll = cpu.poll /\ cpu.pc = "gate_domain"
    BY <1>2, <2>2 DEF CpuShape, Idle, power_gate_domain
  <2> QED BY <2>1, <2>3
<1>3. CASE UNCHANGED greg /\ cpu'.pc # "gate_domain"
  BY <1>3 DEF GregShape
<1>4. CASE Application /\ UNCHANGED greg
  BY <1>3, <1>4 DEF Application, GateCore, PlainWfi, Jump, Idle, GateDomain, GregShape
<1>5. CASE power_gate_core /\ UNCHANGED greg
  BY <1>3, <1>5 DEF power_gate_core, Jump, Idle, Write
<1>6. CASE power_manager_cpu_store /\ UNCHANGED greg
  BY <1>3, <1>6 DEF power_manager_cpu_store, Jump, Idle, Write
<1>7. CASE power_gate_core_cleanup /\ UNCHANGED greg
  BY <1>3, <1>7 DEF power_gate_core_cleanup, Jump, Idle, Write
<1>8. CASE boot_rom /\ UNCHANGED greg
  BY <1>3, <1>8 DEF boot_rom, Jump, Idle
<1>9. CASE power_manager_cpu_restore /\ UNCHANGED greg
  BY <1>3, <1>9 DEF power_manager_cpu_restore, Jump, Idle, Write
<1> QED BY <1>1, <1>2, <1>4, <1>5, <1>6, <1>7, <1>8, <1>9 DEF CoreStep

(* What the core does to a domain is one of these.                         *)
LEMMA CoreCases ==
    ASSUME CpuShape, GregShape, CoreIdle \/ CoreStep, NEW d \in Gated,
           cpu.pc = "gate_domain" => 
               /\ Out("reset")
               /\ \E e \in Gated : \E state \in CallsOf(e) :
                     cpu.poll = [dom |-> e, state |-> state]
    PROVE  /\ \/ CoreWaits(d) \/ CoreElsewhere(d)
              \/ \E state \in CallsOf(d) :
                    CoreCalls(d, state) \/ CoreWrites(d, state) \/ CoreReturns(d, state)
           /\ cpu.pc = "reset" /\ ~Out("reset") => cpu'.pc = "reset"
<1>1. CASE CoreIdle /\ ~Out("reset")
  BY <1>1 DEF CoreIdle, Out, Idle, CoreElsewhere, Mine
<1>2. CASE CoreIdle /\ Out("reset")
  BY <1>2 DEF CoreIdle, Out, CoreWaits
<1>3. CASE CoreStep
  <2>0. Out("reset")
    BY <1>3 DEF CoreStep, CanRun, Out
  <2>1. CASE power_gate_domain
    <3>0. PICK e \in Gated : \E state \in CallsOf(e) : cpu.poll = [dom |-> e, state |-> state]
      BY <2>1 DEF power_gate_domain
    <3>1. PICK state \in CallsOf(e) : cpu.poll = [dom |-> e, state |-> state]
      BY <3>0
    <3>2. CASE cpu.todo = <<>>
      <4>1. cpu' = Idle("app") /\ PollDone /\ greg' = greg
        BY <2>1, <3>2 DEF power_gate_domain
      <4>2. CASE e = d
        BY <2>0, <2>1, <3>1, <3>2, <4>1, <4>2 DEF power_gate_domain, CoreReturns, Mine, Idle
      <4>3. CASE e # d
        BY <2>0, <2>1, <3>1, <3>2, <4>1, <4>3
           DEF power_gate_domain, CoreElsewhere, Mine, Idle
      <4> QED BY <4>2, <4>3
    <3>3. CASE cpu.todo # <<>>
      <4> DEFINE w == Head(cpu.todo)
      <4>1. /\ greg' = [greg EXCEPT ![e][w.reg] = w.val]
            /\ cpu' = [cpu EXCEPT !.todo = Tail(@)]
        BY <2>1, <3>1, <3>3 DEF power_gate_domain
      <4>2. /\ cpu'.pc = cpu.pc /\ cpu'.poll = cpu.poll /\ cpu'.todo = Tail(cpu.todo)
            /\ cpu.pc = "gate_domain"
        BY <2>1, <4>1 DEF CpuShape, power_gate_domain
      <4>4. CASE e = d
        <5>1. greg'[d] = [greg[d] EXCEPT ![w.reg] = w.val]
          BY <4>1, <4>4 DEF GregShape
        <5> QED BY <2>0, <3>1, <3>3, <4>2, <4>4, <5>1 DEF CoreWrites, Mine
      <4>5. CASE e # d
        <5>1. greg'[d] = greg[d]
          BY <4>1, <4>5 DEF GregShape
        <5> QED BY <2>0, <3>1, <4>2, <4>5, <5>1 DEF CoreElsewhere, Mine
      <4> QED BY <4>4, <4>5
    <3> QED BY <3>2, <3>3
  <2>2. CASE \E e \in Gated : GateDomain(e) /\ UNCHANGED greg
    <3>0. PICK e \in Gated : GateDomain(e) /\ UNCHANGED greg
      BY <2>2
    <3>1. PICK state \in CallsOf(e) :
              /\ cpu' = [pc |-> "gate_domain", todo |-> PowerGateWrites(e, state),
                         poll |-> [dom |-> e, state |-> state]]
              /\ cpu.pc = "app" /\ greg' = greg
      BY <3>0 DEF GateDomain
    <3>2. CASE e = d
      BY <3>1, <3>2 DEF CoreCalls, Mine
    <3>3. CASE e # d
      BY <3>1, <3>3 DEF CoreElsewhere, Mine, GregShape
    <3> QED BY <3>2, <3>3
  <2>3. CASE /\ cpu.pc # "gate_domain" /\ UNCHANGED greg
             /\ cpu'.pc # "gate_domain"
    BY <2>0, <2>3 DEF CoreElsewhere, Mine, GregShape
  <2>4. CASE Application /\ UNCHANGED greg
    BY <2>2, <2>3, <2>4 DEF Application, GateCore, PlainWfi, Jump, Idle
  <2>5. CASE /\ UNCHANGED greg
             /\ \/ power_gate_core \/ power_manager_cpu_store \/ power_gate_core_cleanup
                \/ boot_rom \/ power_manager_cpu_restore
    <3>1. cpu.pc # "gate_domain" /\ cpu'.pc # "gate_domain"
      <4>1. CASE power_gate_core
        BY <4>1 DEF power_gate_core, Jump, Idle, Write
      <4>2. CASE power_manager_cpu_store
        BY <4>2 DEF power_manager_cpu_store, Jump, Idle, Write
      <4>3. CASE power_gate_core_cleanup
        BY <4>3 DEF power_gate_core_cleanup, Jump, Idle, Write
      <4>4. CASE boot_rom
        BY <4>4 DEF boot_rom, Jump, Idle
      <4>5. CASE power_manager_cpu_restore
        BY <4>5 DEF power_manager_cpu_restore, Jump, Idle, Write
      <4> QED BY <2>5, <4>1, <4>2, <4>3, <4>4, <4>5
    <3> QED BY <2>3, <2>5, <3>1
  <2> QED BY <1>3, <2>1, <2>4, <2>5 DEF CoreStep
<1> QED BY <1>1, <1>2, <1>3

(* The edges and the switch are signals of the domain.                     *)
LEMMA EdgesAreSignals == ASSUME NEW d PROVE Edges(d) \cup {"switch"} \subseteq Signals
BY DEF Edges, Signals

(* On, a domain stays on; its edges settle once the acknowledge is up.     *)
LEMMA OnStep ==
    ASSUME Clock, NEW d \in Gated, DomainOn(d),
           cpu.pc = "reset" /\ ~Out("reset") => cpu'.pc = "reset"
    PROVE  /\ GFsm(d, "switch")' = "IDLE" /\ GOut(d, "switch")'
           /\ rail'[d] /\ ~garbage'[d] /\ AckArrives(d)'
           /\ AckUp(d) => AckUp(d)'
           /\ \A s \in Edges(d) :
                 /\ GFsm(d, s)' \in {"IDLE", "WAIT_ACK", "SWITCH_ON"}
                 /\ AckUp(d) => GFsm(d, s)' \in {"IDLE", "SWITCH_ON"}
                 /\ GFsm(d, s) \in {"IDLE", "SWITCH_ON"} => GFsm(d, s)' = "IDLE"
<1>1. GatedSequences /\ Supplies
  BY DEF Clock
<1>2. GFsm(d, "switch")' = "IDLE" /\ GOut(d, "switch")'
  BY <1>1, GatedSequenceStep DEF DomainOn, Signals
<1>3. /\ rail'[d] /\ ~garbage'[d]
      /\ ack'[d][1] /\ (ack'[d][2] <=> ack[d][1]) /\ (ack'[d][3] <=> ack[d][2])
  BY <1>1, GatedSupply DEF DomainOn
<1>4. AckArrives(d)' /\ (AckUp(d) => AckUp(d)')
  BY <1>3 DEF DomainOn, AckArrives, AckUp
<1>5. ASSUME NEW s \in Edges(d)
      PROVE  /\ GFsm(d, s)' \in {"IDLE", "WAIT_ACK", "SWITCH_ON"}
             /\ AckUp(d) => GFsm(d, s)' \in {"IDLE", "SWITCH_ON"}
             /\ GFsm(d, s) \in {"IDLE", "SWITCH_ON"} => GFsm(d, s)' = "IDLE"
  <2>1. s \in Signals /\ ~greg[d][s] /\ GFsm(d, s) \in {"IDLE", "WAIT_ACK", "SWITCH_ON"}
    BY EdgesAreSignals DEF DomainOn
  <2>2. AckUp(d) => switch_wait_ack(d)
    BY DEF AckUp, switch_wait_ack
  <2> QED BY <1>1, <2>1, <2>2, GatedSequenceStep
<1> QED BY <1>2, <1>3, <1>4, <1>5

(* Off, a domain stays off whatever the next write is.                     *)
LEMMA OffStep ==
    ASSUME Clock, NEW d \in Gated, DomainOff(d)
    PROVE  /\ \A s \in Edges(d) \cup {"switch"} :
                 GFsm(d, s)' = "WAIT_SWITCH_ON" /\ ~GOut(d, s)'
           /\ ~rail'[d] /\ ~ack'[d][1] /\ ~ack'[d][2] /\ ~ack'[d][3]
<1>1. GatedSequences /\ Supplies
  BY DEF Clock
<1>2. ASSUME NEW s \in Edges(d) \cup {"switch"}
      PROVE  GFsm(d, s)' = "WAIT_SWITCH_ON" /\ ~GOut(d, s)'
  <2>1. s \in Signals /\ greg[d][s] /\ GFsm(d, s) = "WAIT_SWITCH_ON"
    BY EdgesAreSignals DEF DomainOff
  <2> QED BY <1>1, <2>1, GatedSequenceStep
<1>3. ~rail'[d] /\ ~ack'[d][1] /\ ~ack'[d][2] /\ ~ack'[d][3]
  BY <1>1, GatedSupply DEF DomainOff
<1> QED BY <1>2, <1>3

(* The isolation is written before the switch: it is on when the write of  *)
(* the switch takes effect.                                                *)
LEMMA LeavesStep ==
    ASSUME Clock, NEW d \in Gated, DomainLeaves(d)
    PROVE  /\ GFsm(d, "switch")' = "IDLE" /\ GOut(d, "switch")'
           /\ GFsm(d, "iso")' = "WAIT_SWITCH_ON"
           /\ HasReset(d) => GFsm(d, "reset")' = "IDLE"
           /\ rail'[d] /\ ~garbage'[d] /\ AckUp(d)'
<1>1. GatedSequences /\ Supplies
  BY DEF Clock
<1>2. rail'[d] /\ ~garbage'[d] /\ AckUp(d)'
  BY <1>1, GatedSupply DEF DomainLeaves, AckUp
<1> QED BY <1>1, <1>2, GatedSequenceStep DEF DomainLeaves, Signals

(* The supply falls, and its acknowledge with it, after the isolation.     *)
LEMMA FallsStep ==
    ASSUME Clock, NEW d \in Gated, DomainFalls(d), greg'[d]["iso"], greg'[d]["switch"],
           HasReset(d) /\ greg[d]["reset"] => greg'[d]["reset"]
    PROVE  /\ DomainFalls(d)'
           /\ ~ack[d][3] /\ (HasReset(d) => greg[d]["reset"]) =>
                 /\ \A s \in Edges(d) \cup {"switch"} : GFsm(d, s)' = "WAIT_SWITCH_ON"
                 /\ ~GOut(d, "switch")' /\ ~GOut(d, "iso")'
                 /\ ~rail'[d] /\ ~ack'[d][1] /\ ~ack'[d][2] /\ ~ack'[d][3]
<1>1. GatedSequences /\ Supplies
  BY DEF Clock
<1>2. GFsm(d, "iso")' = "WAIT_SWITCH_ON" /\ ~GOut(d, "iso")'
  BY <1>1, GatedSequenceStep DEF DomainFalls, Signals
<1>3. /\ GFsm(d, "switch")' = "WAIT_SWITCH_ON"
      /\ GOut(d, "switch")' <=> GFsm(d, "switch") = "IDLE"
  BY <1>1, GatedSequenceStep DEF DomainFalls, Signals
<1>4. HasReset(d) =>
        /\ \/ GFsm(d, "reset")' = "IDLE"
           \/ GFsm(d, "reset")' = "WAIT_SWITCH_ON" /\ greg[d]["reset"]
        /\ greg[d]["reset"] => GFsm(d, "reset")' = "WAIT_SWITCH_ON"
  BY <1>1, GatedSequenceStep DEF DomainFalls, Signals
<1>5. /\ rail'[d] => rail[d] \/ GOut(d, "switch")
      /\ rail[d] /\ GOut(d, "switch") => rail'[d]
      /\ ack'[d][1] <=> rail[d]
      /\ ack'[d][2] <=> ack[d][1]
      /\ ack'[d][3] <=> ack[d][2]
  BY <1>1, GatedSupply
<1>6. /\ GFsm(d, "switch") = "IDLE" => rail'[d]
      /\ rail'[d] => rail[d]
  BY <1>5 DEF DomainFalls
<1>7. DomainFalls(d)'
  BY <1>2, <1>3, <1>4, <1>5, <1>6 DEF DomainFalls
<1>8. ASSUME ~ack[d][3], HasReset(d) => greg[d]["reset"]
      PROVE  /\ \A s \in Edges(d) \cup {"switch"} : GFsm(d, s)' = "WAIT_SWITCH_ON"
             /\ ~GOut(d, "switch")' /\ ~GOut(d, "iso")'
             /\ ~rail'[d] /\ ~ack'[d][1] /\ ~ack'[d][2] /\ ~ack'[d][3]
  <2>1. ~rail[d] /\ ~ack[d][1] /\ ~ack[d][2] /\ GFsm(d, "switch") # "IDLE"
    BY <1>8 DEF DomainFalls
  <2> QED BY <1>2, <1>3, <1>4, <1>5, <1>6, <1>8, <2>1 DEF Edges
<1> QED BY <1>7, <1>8

(* The supply rises, then its acknowledge; the edges wait for it.          *)
LEMMA RisesStep ==
    ASSUME Clock, NEW d \in Gated, DomainRises(d), greg'[d]["wait_ack"], ~greg'[d]["switch"],
           \A s \in Edges(d) : greg'[d][s] => greg[d][s]
    PROVE  /\ DomainRises(d)'
           /\ ack[d][3] =>
                 /\ GFsm(d, "switch")' = "IDLE" /\ GOut(d, "switch")'
                 /\ rail'[d] /\ AckUp(d)'
                 /\ (\A s \in Edges(d) : ~greg[d][s]) =>
                       /\ \A s \in Edges(d) : GFsm(d, s)' \in {"IDLE", "WAIT_ACK", "SWITCH_ON"}
                       /\ ~garbage'[d]
<1>1. GatedSequences /\ Supplies
  BY DEF Clock
<1>2. /\ GFsm(d, "switch")' \in {"WAIT_SWITCH_ON", "WAIT_ACK", "SWITCH_ON", "IDLE"}
      /\ GOut(d, "switch")' <=> GFsm(d, "switch")' = "IDLE"
      /\ GFsm(d, "switch") = "IDLE" => GFsm(d, "switch")' = "IDLE"
  BY <1>1, GatedSequenceStep DEF DomainRises, Signals
<1>3. /\ rail'[d] => rail[d] \/ GOut(d, "switch")
      /\ rail[d] /\ GOut(d, "switch") => rail'[d]
      /\ garbage'[d] => ~rail'[d] \/ (garbage[d] /\ HasReset(d) /\ GOut(d, "reset"))
      /\ ack'[d][1] <=> rail[d]
      /\ ack'[d][2] <=> ack[d][1]
      /\ ack'[d][3] <=> ack[d][2]
  BY <1>1, GatedSupply
<1>4. /\ rail'[d] => GOut(d, "switch")'
      /\ rail[d] => rail'[d]
      /\ ack[d][3] => ack[d][2] /\ ack[d][1] /\ rail[d] /\ GFsm(d, "switch") = "IDLE"
  BY <1>2, <1>3 DEF DomainRises
<1>5. ASSUME NEW s \in Edges(d)
      PROVE  /\ greg[d][s] => GFsm(d, s)' = "WAIT_SWITCH_ON"
             /\ ~greg[d][s] => GFsm(d, s)' \in {"WAIT_ACK", "SWITCH_ON", "IDLE"}
             /\ GOut(d, s)' <=> GFsm(d, s)' = "IDLE"
             /\ GFsm(d, s)' \in {"SWITCH_ON", "IDLE"} =>
                    ack[d][3] /\ GFsm(d, s) \in {"WAIT_ACK", "SWITCH_ON", "IDLE"}
             /\ GFsm(d, s) \in {"WAIT_ACK", "WAIT_SWITCH_ON"} => ~GOut(d, s)
  <2>1. /\ s \in Signals /\ s # "switch"
        /\ greg[d][s] => GFsm(d, s) = "WAIT_SWITCH_ON"
        /\ GFsm(d, s) \in {"WAIT_SWITCH_ON", "WAIT_ACK", "SWITCH_ON", "IDLE"}
        /\ GFsm(d, s) \in {"SWITCH_ON", "IDLE"} => ack[d][3]
        /\ GOut(d, s) <=> GFsm(d, s) = "IDLE"
    BY EdgesAreSignals DEF DomainRises, Edges
  <2>2. switch_wait_ack(d) => ack[d][3]
    BY DEF DomainRises, switch_wait_ack
  <2> QED BY <1>1, <2>1, <2>2, GatedSequenceStep
<1>6. HasReset(d) /\ GFsm(d, "reset")' \in {"SWITCH_ON", "IDLE"} => ~garbage'[d]
  <2> SUFFICES ASSUME HasReset(d), GFsm(d, "reset")' \in {"SWITCH_ON", "IDLE"}
               PROVE  ~garbage'[d]
    OBVIOUS
  <2>1. "reset" \in Edges(d)
    BY DEF Edges
  <2>2. rail'[d] /\ GFsm(d, "reset") \in {"WAIT_ACK", "SWITCH_ON", "IDLE"}
    BY <1>4, <1>5, <2>1
  <2> QED BY <1>3, <1>5, <2>1, <2>2 DEF DomainRises
<1>7. DomainRises(d)'
  BY <1>2, <1>3, <1>4, <1>5, <1>6 DEF DomainRises
<1>8. ASSUME ack[d][3]
      PROVE  /\ GFsm(d, "switch")' = "IDLE" /\ GOut(d, "switch")'
             /\ rail'[d] /\ AckUp(d)'
             /\ (\A s \in Edges(d) : ~greg[d][s]) =>
                   /\ \A s \in Edges(d) : GFsm(d, s)' \in {"IDLE", "WAIT_ACK", "SWITCH_ON"}
                   /\ ~garbage'[d]
  <2>1. /\ GFsm(d, "switch")' = "IDLE" /\ GOut(d, "switch")'
        /\ rail'[d] /\ AckUp(d)'
    BY <1>2, <1>3, <1>4, <1>8 DEF AckUp
  <2>2. ~garbage'[d]
    <3>1. HasReset(d) => "reset" \in Edges(d)
      BY DEF Edges
    <3>2. HasReset(d) /\ GFsm(d, "reset") \in {"SWITCH_ON", "IDLE"} => ~garbage[d]
      BY DEF DomainRises
    <3>3. HasReset(d) /\ GFsm(d, "reset") \notin {"SWITCH_ON", "IDLE"} => ~GOut(d, "reset")
      BY <3>1 DEF DomainRises
    <3> QED BY <1>3, <2>1, <3>2, <3>3
  <2> QED BY <1>5, <2>1, <2>2
<1> QED BY <1>7, <1>8

(* A write changes the register it names and no other.                     *)
LEMMA WriteTakes ==
    ASSUME NEW d \in Gated, GregShape, NEW state, CoreWrites(d, state), NEW r \in DomainRegs
    PROVE  /\ Head(cpu.todo) = Set(r) => greg'[d][r] /\ r = Head(cpu.todo).reg
           /\ Head(cpu.todo) = Clear(r) => ~greg'[d][r] /\ r = Head(cpu.todo).reg
           /\ Head(cpu.todo).reg # r => greg'[d][r] = greg[d][r]
BY DEF CoreWrites, GregShape, Set, Clear

(* A domain that is on stays on while its registers ask for nothing else.  *)
LEMMA OnKept ==
    ASSUME Clock, NEW d \in Gated, DomainOn(d),
           cpu.pc = "reset" /\ ~Out("reset") => cpu'.pc = "reset",
           \A s \in Edges(d) \cup {"switch"} : ~greg'[d][s]
    PROVE  DomainOn(d)'
BY OnStep DEF DomainOn, Edges

(* One that is off stays off.                                              *)
LEMMA OffKept ==
    ASSUME Clock, NEW d \in Gated, DomainOff(d),
           \A s \in Edges(d) \cup {"switch"} : greg'[d][s]
    PROVE  DomainOff(d)'
BY OffStep DEF DomainOff, Edges

(* A cycle of a call with kOn_e: the core waits, writes or returns.        *)
LEMMA SwitchingOnStep ==
    ASSUME Polls, GregShape, Clock, NEW d \in Gated, Mine(d, "kOn_e"), SwitchingOn(d),
           \/ CoreWaits(d)
           \/ CoreWrites(d, "kOn_e")
           \/ CoreReturns(d, "kOn_e")
    PROVE  GatedInv(d)'
<1>1. cpu.pc = "gate_domain" /\ cpu.poll.state = "kOn_e" /\ cpu.poll.dom = d
  BY DEF Mine
<1> DEFINE S == Edges(d) \cup {"switch"}
<1>2. S \subseteq Signals /\ S \subseteq DomainRegs /\ "wait_ack" \in DomainRegs /\ "wait_ack" \notin S
  BY DEF Edges, Signals, DomainRegs
<1>3. S = IF HasReset(d) THEN {"switch", "iso", "reset"} ELSE {"switch", "iso"}
  BY DEF Edges
<1>4. DomainOn(d) => \A s \in S : ~greg[d][s]
  BY DEF DomainOn
<1>5. DomainOff(d) => \A s \in S : greg[d][s]
  BY DEF DomainOff
<1> HIDE DEF S
<1>6. CASE CoreWaits(d)
  <2>1. /\ cpu' = cpu /\ greg'[d] = greg[d] /\ Mine(d, "kOn_e")'
    BY <1>6 DEF CoreWaits, Mine
  <2>2. DomainOn(d) => DomainOn(d)'
    BY <1>1, <2>1, OnKept DEF DomainOn
  <2>3. DomainOff(d) => DomainOff(d)'
    BY <2>1, OffKept DEF DomainOff
  <2>4. DomainRises(d) => DomainRises(d)'
    BY <2>1, RisesStep DEF DomainRises
  <2>5. SwitchingOn(d)'
    BY <2>1, <2>2, <2>3, <2>4 DEF SwitchingOn, OnCall, OnLeft1, OnLeft2, OnLeft3
  <2> QED BY <2>1, <2>5 DEF GatedInv
<1>7. CASE CoreWrites(d, "kOn_e")
  <2>1. Mine(d, "kOn_e")' /\ cpu.todo # <<>> /\ cpu'.todo = Tail(cpu.todo)
    BY <1>7 DEF CoreWrites
  <2>2. ASSUME NEW r \in DomainRegs
        PROVE  /\ Head(cpu.todo) = Set(r) => greg'[d][r] /\ r = Head(cpu.todo).reg
               /\ Head(cpu.todo) = Clear(r) => ~greg'[d][r] /\ r = Head(cpu.todo).reg
               /\ Head(cpu.todo).reg # r => greg'[d][r] = greg[d][r]
    BY <1>7, WriteTakes
  <2>3. /\ cpu.todo = OnCall(d) => Head(cpu.todo) = Set("wait_ack") /\ cpu'.todo = OnLeft1(d)
        /\ cpu.todo = OnLeft1(d) => Head(cpu.todo) = Clear("switch") /\ cpu'.todo = OnLeft2(d)
        /\ cpu.todo = OnLeft2(d) => Head(cpu.todo) = Clear("iso") /\ cpu'.todo = OnLeft3(d)
        /\ cpu.todo = OnLeft3(d) =>
              Head(cpu.todo) = Clear("reset") /\ cpu'.todo = <<>> /\ HasReset(d)
        /\ ~HasReset(d) => OnLeft3(d) = <<>>
    BY <2>1, CallsLeft
  <2>4. /\ Set("wait_ack").reg = "wait_ack" /\ Clear("switch").reg = "switch"
        /\ Clear("iso").reg = "iso" /\ Clear("reset").reg = "reset"
    BY DEF Set, Clear
  <2>5. {"wait_ack", "switch", "iso", "reset"} \subseteq DomainRegs
    BY DEF DomainRegs
  <2>6. CASE DomainOn(d) /\ cpu.todo \in {OnCall(d), OnLeft1(d), OnLeft2(d), OnLeft3(d), <<>>}
    <3>1. \A s \in S : ~greg'[d][s]
      <4> TAKE s \in S
      <4> QED BY <1>2, <1>4, <2>1, <2>2, <2>3, <2>4, <2>5, <2>6
    <3>2. DomainOn(d)'
      BY <1>1, <2>6, <3>1, OnKept DEF S
    <3>3. cpu'.todo \in {OnCall(d), OnLeft1(d), OnLeft2(d), OnLeft3(d), <<>>}
      BY <2>1, <2>3, <2>6
    <3> QED BY <2>1, <3>2, <3>3 DEF GatedInv, SwitchingOn, OnCall, OnLeft1, OnLeft2, OnLeft3
  <2>7. CASE cpu.todo = OnCall(d) /\ DomainOff(d)
    <3>1. greg'[d]["wait_ack"] /\ \A s \in S : greg'[d][s]
      BY <1>2, <1>5, <2>2, <2>3, <2>4, <2>7
    <3>2. DomainOff(d)'
      BY <2>7, <3>1, OffKept DEF S
    <3> QED BY <2>1, <2>3, <2>7, <3>1, <3>2 DEF GatedInv, SwitchingOn, OnCall, OnLeft1
  <2>8. CASE cpu.todo = OnLeft1(d) /\ DomainOff(d) /\ greg[d]["wait_ack"]
    <3>1. /\ greg'[d]["wait_ack"] /\ ~greg'[d]["switch"]
          /\ \A s \in Edges(d) : greg'[d][s]
      BY <1>2, <1>5, <2>2, <2>3, <2>4, <2>5, <2>8 DEF S, Edges
    <3>2. DomainRises(d)'
      BY <2>8, <3>1, OffStep DEF DomainRises, Edges
    <3> QED BY <2>1, <2>3, <2>8, <3>1, <3>2 DEF GatedInv, SwitchingOn, OnLeft2, Edges
  <2>9. CASE cpu.todo = OnLeft2(d) /\ DomainRises(d) /\ \A s \in Edges(d) : greg[d][s]
    <3>1. /\ greg'[d]["wait_ack"] /\ ~greg'[d]["switch"] /\ ~greg'[d]["iso"]
          /\ HasReset(d) => greg'[d]["reset"]
          /\ \A s \in Edges(d) : greg'[d][s] => greg[d][s]
      BY <2>2, <2>3, <2>4, <2>5, <2>9 DEF DomainRises, Edges
    <3>2. DomainRises(d)'
      BY <2>9, <3>1, RisesStep
    <3> QED BY <2>1, <2>3, <2>9, <3>1, <3>2 DEF GatedInv, SwitchingOn, OnLeft3
  <2>10. CASE /\ cpu.todo = OnLeft3(d) /\ DomainRises(d)
              /\ ~greg[d]["iso"] /\ (HasReset(d) => greg[d]["reset"])
    <3>1. /\ greg'[d]["wait_ack"] /\ ~greg'[d]["switch"]
          /\ \A s \in Edges(d) : ~greg'[d][s]
      BY <2>2, <2>3, <2>4, <2>5, <2>10 DEF DomainRises, Edges
    <3>2. DomainRises(d)'
      BY <2>10, <3>1, RisesStep
    <3> QED BY <2>1, <2>3, <2>10, <3>1, <3>2 DEF GatedInv, SwitchingOn, Edges
  <2> QED BY <2>1, <2>6, <2>7, <2>8, <2>9, <2>10 DEF SwitchingOn
<1>8. CASE CoreReturns(d, "kOn_e")
  <2>1. cpu.todo = <<>> /\ cpu' = Idle("app") /\ greg'[d] = greg[d] /\ ack[d][3]
    BY <1>1, <1>8 DEF CoreReturns, PollDone, power_domain_is_off
  <2>2. OnCall(d) # <<>> /\ OnLeft1(d) # <<>> /\ OnLeft2(d) # <<>>
    BY CallsLeft
  <2>3. HasReset(d) => OnLeft3(d) # <<>>
    BY CallsLeft
  <2>4. CASE DomainOn(d)
    <3>1. DomainOn(d)'
      BY <1>1, <2>1, <2>4, OnKept DEF DomainOn
    <3> QED BY <2>1, <3>1 DEF GatedInv, Mine, Idle
  <2>5. CASE DomainRises(d) /\ \A s \in Edges(d) : ~greg[d][s]
    <3>1. /\ GFsm(d, "switch")' = "IDLE" /\ GOut(d, "switch")'
          /\ rail'[d] /\ AckUp(d)' /\ ~garbage'[d]
          /\ \A s \in Edges(d) : GFsm(d, s)' \in {"IDLE", "WAIT_ACK", "SWITCH_ON"}
      <4>1. greg'[d]["wait_ack"] /\ ~greg'[d]["switch"]
        BY <2>1, <2>5 DEF DomainRises
      <4> QED BY <2>1, <2>5, <4>1, RisesStep
    <3>2. DomainOn(d)'
      BY <2>1, <2>5, <3>1 DEF DomainOn, DomainRises, AckArrives
    <3> QED BY <2>1, <3>2 DEF GatedInv, Mine, Idle
  <2>6. \/ DomainOn(d)
        \/ DomainRises(d) /\ \A s \in Edges(d) : ~greg[d][s]
    BY <2>1, <2>2, <2>3 DEF SwitchingOn, Edges
  <2> QED BY <2>4, <2>5, <2>6
<1> QED BY <1>6, <1>7, <1>8

(* A cycle of a call with kOff_e.                                          *)
LEMMA SwitchingOffStep ==
    ASSUME Polls, GregShape, Clock, NEW d \in Gated, Mine(d, "kOff_e"), SwitchingOff(d),
           \/ CoreWaits(d)
           \/ CoreWrites(d, "kOff_e")
           \/ CoreReturns(d, "kOff_e")
    PROVE  GatedInv(d)'
<1>1. cpu.pc = "gate_domain" /\ cpu.poll.state = "kOff_e" /\ cpu.poll.dom = d
  BY DEF Mine
<1> DEFINE S == Edges(d) \cup {"switch"}
<1>2. S \subseteq Signals /\ S \subseteq DomainRegs /\ "wait_ack" \in DomainRegs /\ "wait_ack" \notin S
  BY DEF Edges, Signals, DomainRegs
<1>3. S = IF HasReset(d) THEN {"switch", "iso", "reset"} ELSE {"switch", "iso"}
  BY DEF Edges
<1>4. DomainOn(d) => AckUp(d) /\ \A s \in S : ~greg[d][s]
  BY <1>1 DEF DomainOn, AckArrives
<1>5. DomainOff(d) => \A s \in S : greg[d][s]
  BY DEF DomainOff
<1> HIDE DEF S
<1>6. CASE CoreWaits(d)
  <2>1. /\ cpu' = cpu /\ greg'[d] = greg[d] /\ Mine(d, "kOff_e")'
    BY <1>6 DEF CoreWaits, Mine
  <2>2. DomainOn(d) => DomainOn(d)'
    BY <1>1, <2>1, OnKept DEF DomainOn
  <2>3. DomainOff(d) => DomainOff(d)'
    BY <2>1, OffKept DEF DomainOff
  <2>4. DomainLeaves(d) => DomainLeaves(d)'
    BY <2>1, LeavesStep DEF DomainLeaves
  <2>5. DomainFalls(d) => DomainFalls(d)'
    BY <2>1, FallsStep DEF DomainFalls
  <2>6. DomainOn(d) /\ (\A s \in Edges(d) : GFsm(d, s) \in {"IDLE", "SWITCH_ON"})
          => \A s \in Edges(d) : GFsm(d, s)' = "IDLE"
    BY <1>1, OnStep
  <2>7. SwitchingOff(d)'
    BY <2>1, <2>2, <2>3, <2>4, <2>5, <2>6
       DEF SwitchingOff, OffCall, OffLeft1, OffLeft2, OffLeft3
  <2> QED BY <2>1, <2>7 DEF GatedInv
<1>7. CASE CoreWrites(d, "kOff_e")
  <2>1. Mine(d, "kOff_e")' /\ cpu.todo # <<>> /\ cpu'.todo = Tail(cpu.todo)
    BY <1>7 DEF CoreWrites
  <2>2. ASSUME NEW r \in DomainRegs
        PROVE  /\ Head(cpu.todo) = Set(r) => greg'[d][r] /\ r = Head(cpu.todo).reg
               /\ Head(cpu.todo) = Clear(r) => ~greg'[d][r] /\ r = Head(cpu.todo).reg
               /\ Head(cpu.todo).reg # r => greg'[d][r] = greg[d][r]
    BY <1>7, WriteTakes
  <2>3. /\ cpu.todo = OffCall(d) => Head(cpu.todo) = Set("wait_ack") /\ cpu'.todo = OffLeft1(d)
        /\ cpu.todo = OffLeft1(d) => Head(cpu.todo) = Set("iso") /\ cpu'.todo = OffLeft2(d)
        /\ cpu.todo = OffLeft2(d) => Head(cpu.todo) = Set("switch") /\ cpu'.todo = OffLeft3(d)
        /\ cpu.todo = OffLeft3(d) =>
              Head(cpu.todo) = Set("reset") /\ cpu'.todo = <<>> /\ HasReset(d)
        /\ ~HasReset(d) => OffLeft3(d) = <<>>
    BY <2>1, CallsLeft
  <2>4. /\ Set("wait_ack").reg = "wait_ack" /\ Set("switch").reg = "switch"
        /\ Set("iso").reg = "iso" /\ Set("reset").reg = "reset"
    BY DEF Set
  <2>5. {"wait_ack", "switch", "iso", "reset"} \subseteq DomainRegs
    BY DEF DomainRegs
  <2>6. CASE DomainOff(d) /\ cpu.todo \in {OffCall(d), OffLeft1(d), OffLeft2(d), OffLeft3(d), <<>>}
    <3>1. \A s \in S : greg'[d][s]
      <4> TAKE s \in S
      <4> QED BY <1>2, <1>5, <2>1, <2>2, <2>3, <2>4, <2>5, <2>6
    <3>2. DomainOff(d)'
      BY <2>6, <3>1, OffKept DEF S
    <3>3. cpu'.todo \in {OffCall(d), OffLeft1(d), OffLeft2(d), OffLeft3(d), <<>>}
      BY <2>1, <2>3, <2>6
    <3> QED BY <2>1, <3>2, <3>3
       DEF GatedInv, SwitchingOff, OffCall, OffLeft1, OffLeft2, OffLeft3
  <2>7. CASE /\ cpu.todo = OffCall(d) /\ DomainOn(d)
             /\ \A s \in Edges(d) : GFsm(d, s) \in {"IDLE", "SWITCH_ON"}
    <3>1. \A s \in S : ~greg'[d][s]
      BY <1>2, <1>4, <2>2, <2>3, <2>4, <2>7
    <3>2. DomainOn(d)' /\ \A s \in Edges(d) : GFsm(d, s)' = "IDLE"
      BY <1>1, <2>7, <3>1, OnKept, OnStep DEF S
    <3> QED BY <2>1, <2>3, <2>7, <3>2 DEF GatedInv, SwitchingOff, OffLeft1
  <2>8. CASE /\ cpu.todo = OffLeft1(d) /\ DomainOn(d)
             /\ \A s \in Edges(d) : GFsm(d, s) = "IDLE"
    <3>1. /\ greg'[d]["iso"] /\ ~greg'[d]["switch"]
          /\ HasReset(d) => ~greg'[d]["reset"]
      BY <1>3, <1>4, <2>2, <2>3, <2>4, <2>5, <2>8
    <3>2. \A s \in Edges(d) : GFsm(d, s)' = "IDLE"
      BY <1>1, <2>8, OnStep
    <3>3. DomainLeaves(d)'
      BY <1>1, <1>4, <2>8, <3>1, <3>2, OnStep DEF DomainLeaves, Edges
    <3> QED BY <2>1, <2>3, <2>8, <3>3 DEF GatedInv, SwitchingOff, OffLeft2
  <2>9. CASE cpu.todo = OffLeft2(d) /\ DomainLeaves(d)
    <3>1. /\ greg'[d]["iso"] /\ greg'[d]["switch"]
      BY <2>2, <2>3, <2>4, <2>5, <2>9 DEF DomainLeaves
    <3>2. DomainFalls(d)'
      BY <2>9, <3>1, LeavesStep DEF DomainFalls, AckUp
    <3> QED BY <2>1, <2>3, <2>9, <3>2 DEF GatedInv, SwitchingOff, OffLeft3
  <2>10. CASE cpu.todo = OffLeft3(d) /\ DomainFalls(d)
    <3>1. /\ greg'[d]["iso"] /\ greg'[d]["switch"] /\ greg'[d]["reset"]
      BY <2>2, <2>3, <2>4, <2>5, <2>10 DEF DomainFalls
    <3>2. DomainFalls(d)'
      BY <2>10, <3>1, FallsStep
    <3> QED BY <2>1, <2>3, <2>10, <3>1, <3>2 DEF GatedInv, SwitchingOff
  <2> QED BY <2>1, <2>6, <2>7, <2>8, <2>9, <2>10 DEF SwitchingOff
<1>8. CASE CoreReturns(d, "kOff_e")
  <2>1. cpu.todo = <<>> /\ cpu' = Idle("app") /\ greg'[d] = greg[d] /\ ~ack[d][3]
    BY <1>1, <1>8 DEF CoreReturns, PollDone, power_domain_is_off
  <2>2. OffCall(d) # <<>> /\ OffLeft1(d) # <<>> /\ OffLeft2(d) # <<>>
    BY CallsLeft
  <2>3. HasReset(d) => OffLeft3(d) # <<>>
    BY CallsLeft
  <2>4. CASE DomainOff(d)
    <3>1. DomainOff(d)'
      BY <2>1, <2>4, OffKept DEF DomainOff
    <3> QED BY <2>1, <3>1 DEF GatedInv, Mine, Idle
  <2>5. CASE DomainFalls(d) /\ (HasReset(d) => greg[d]["reset"])
    <3>1. DomainOff(d)'
      <4>1. greg'[d]["iso"] /\ greg'[d]["switch"]
        BY <2>1, <2>5 DEF DomainFalls
      <4>2. /\ \A s \in Edges(d) \cup {"switch"} : GFsm(d, s)' = "WAIT_SWITCH_ON"
            /\ ~GOut(d, "switch")' /\ ~GOut(d, "iso")'
            /\ ~rail'[d] /\ ~ack'[d][1] /\ ~ack'[d][2] /\ ~ack'[d][3]
        BY <2>1, <2>5, <4>1, FallsStep
      <4>3. \A s \in Edges(d) \cup {"switch"} : greg'[d][s]
        BY <2>1, <2>5, <4>1 DEF Edges
      <4> QED BY <2>1, <4>2, <4>3 DEF DomainOff, Idle
    <3> QED BY <2>1, <3>1 DEF GatedInv, Mine, Idle
  <2>6. DomainOff(d) \/ (DomainFalls(d) /\ (HasReset(d) => greg[d]["reset"]))
    BY <2>1, <2>2, <2>3 DEF SwitchingOff
  <2> QED BY <2>4, <2>5, <2>6
<1> QED BY <1>6, <1>7, <1>8

(* Between the calls, and in those of the retention, a domain is on or off.*)
LEMMA SettledStep ==
    ASSUME GregShape, Clock, NEW d \in Gated, DomainOn(d) \/ DomainOff(d),
           ~Mine(d, "kOn_e"), ~Mine(d, "kOff_e"),
           Mine(d, "kRetOn_e") \/ Mine(d, "kRetOff_e") => cpu.todo \in RetentionLeft,
           cpu.pc = "reset" /\ ~Out("reset") => cpu'.pc = "reset",
           \/ CoreWaits(d) \/ CoreElsewhere(d)
           \/ \E state \in CallsOf(d) :
                  CoreCalls(d, state) \/ CoreWrites(d, state) \/ CoreReturns(d, state)
    PROVE  GatedInv(d)'
<1> DEFINE S == Edges(d) \cup {"switch"}
<1>1. CASE /\ \A s \in S : greg'[d][s] = greg[d][s]
           /\ ~Mine(d, "kOn_e")' /\ ~Mine(d, "kOff_e")'
           /\ Mine(d, "kRetOn_e")' \/ Mine(d, "kRetOff_e")' => cpu'.todo \in RetentionLeft
  <2>1. DomainOn(d) => \A s \in S : ~greg'[d][s]
    BY <1>1 DEF DomainOn
  <2>2. DomainOff(d) => \A s \in S : greg'[d][s]
    BY <1>1 DEF DomainOff
  <2>3. DomainOn(d)' \/ DomainOff(d)'
    BY <2>1, <2>2, OnKept, OffKept
  <2> QED BY <1>1, <2>3 DEF GatedInv
<1>2. CASE CoreWaits(d)
  BY <1>1, <1>2 DEF CoreWaits, Mine
<1>3. CASE CoreElsewhere(d)
  BY <1>1, <1>3 DEF CoreElsewhere, Calls
<1>4. ASSUME NEW state \in CallsOf(d), CoreCalls(d, state) PROVE GatedInv(d)'
  <2>1. greg'[d] = greg[d] /\ cpu.pc = "app" /\ Mine(d, state)' /\ cpu'.todo = PowerGateWrites(d, state)
    BY <1>4 DEF CoreCalls
  <2>2. state \in {"kOn_e", "kOff_e", "kRetOn_e", "kRetOff_e"}
        /\ (state \in {"kRetOn_e", "kRetOff_e"} => d # "periph")
    BY DEF CallsOf
  <2>3. DomainOn(d) => AckUp(d)
    BY <2>1 DEF DomainOn, AckArrives
  <2>4. DomainOn(d) => DomainOn(d)' /\ \A s \in Edges(d) : GFsm(d, s)' \in {"IDLE", "SWITCH_ON"}
    BY <2>1, <2>3, OnKept, OnStep DEF DomainOn
  <2>5. DomainOff(d) => DomainOff(d)'
    BY <2>1, OffKept DEF DomainOff
  <2>6. CASE state = "kOn_e"
    BY <2>1, <2>4, <2>5, <2>6, CallWrites DEF GatedInv, SwitchingOn, OnCall
  <2>7. CASE state = "kOff_e"
    BY <2>1, <2>4, <2>5, <2>7, CallWrites DEF GatedInv, SwitchingOff, OffCall
  <2>8. CASE state \in {"kRetOn_e", "kRetOff_e"}
    <3>1. cpu'.todo \in RetentionLeft
      BY <2>1, <2>2, <2>8, CallWrites
    <3>2. ~Mine(d, "kOn_e")' /\ ~Mine(d, "kOff_e")'
      BY <2>1, <2>8 DEF Mine
    <3> QED BY <1>1, <2>1, <3>1, <3>2
  <2> QED BY <2>2, <2>6, <2>7, <2>8
<1>5. ASSUME NEW state \in CallsOf(d), CoreWrites(d, state) PROVE GatedInv(d)'
  <2>1. state \in {"kRetOn_e", "kRetOff_e"}
    BY <1>5 DEF CallsOf, CoreWrites
  <2>2. cpu.todo \in RetentionLeft /\ cpu.todo # <<>> /\ cpu'.todo = Tail(cpu.todo)
    BY <1>5, <2>1 DEF CoreWrites
  <2>3. Head(cpu.todo).reg \in {"wait_ack", "retentive"} /\ Tail(cpu.todo) \in RetentionLeft
    BY <2>2, RetentionWrites
  <2>4. \A s \in S : greg'[d][s] = greg[d][s]
    BY <1>5, <2>3, WriteTakes DEF Edges, DomainRegs
  <2>5. ~Mine(d, "kOn_e")' /\ ~Mine(d, "kOff_e")'
    BY <1>5, <2>1 DEF CoreWrites, Mine
  <2> QED BY <1>1, <2>2, <2>3, <2>4, <2>5
<1>6. ASSUME NEW state \in CallsOf(d), CoreReturns(d, state) PROVE GatedInv(d)'
  BY <1>1, <1>6 DEF CoreReturns, Mine, Idle
<1> QED BY <1>2, <1>3, <1>4, <1>5, <1>6

(* Leaving the reset of the chip.                                          *)
LEMMA GatedBootStep ==
    ASSUME Clock, NEW d \in Gated, DomainBoot(d), CoreIdle \/ CoreStep
    PROVE  GatedInv(d)'
<1>1. GatedSequences /\ Supplies /\ CpuSequences
  BY DEF Clock
<1>2. cpu' = Idle("reset") /\ greg' = greg
  BY DEF DomainBoot, CoreIdle, CoreStep, CanRun, Out
<1>3. ~Out("reset")'
  BY <1>1, SequenceStep DEF DomainBoot, Signals
<1>4. \A s \in Signals : GFsm(d, s)' = "IDLE" /\ (GOut(d, s)' <=> s # "reset")
  BY <1>1, GatedSequenceStep DEF DomainBoot
<1>5. rail'[d] /\ ~garbage'[d] /\ ack'[d][1]
  BY <1>1, GatedSupply DEF DomainBoot
<1>6. DomainOn(d)'
  BY <1>2, <1>3, <1>4, <1>5 DEF DomainOn, DomainBoot, AckArrives, Edges, Signals, Idle
<1> QED BY <1>2, <1>6 DEF GatedInv, Mine, Idle

(* A reset of the chip leaves every domain powered.                        *)
LEMMA GatesInit == ASSUME Init PROVE GatesInv
<1>1. GregShape /\ cpu.pc = "reset"
  BY DEF Init, GregShape, Idle
<1>2. ASSUME NEW d \in Gated PROVE DomainBoot(d)
  BY DEF Init, DomainBoot, GFsm, GOut, Fsm, Out, AtReset, Signals, DomainRegs, Domains, Idle
<1> QED BY <1>1, <1>2 DEF GatesInv, GatedInv

(* Every cycle leaves every domain in its phase or takes it to the next.   *)
LEMMA GatesStep ==
    ASSUME Polls, CpuInv, GatesInv, Clock, CoreIdle \/ CoreStep
    PROVE  GatesInv'
<1>1. /\ CpuShape /\ GregShape
      /\ cpu.pc = "gate_domain" =>
            /\ Out("reset")
            /\ \E e \in Gated : \E state \in CallsOf(e) : cpu.poll = [dom |-> e, state |-> state]
  BY CpuSafe DEF GatesInv
<1>2. /\ GregShape'
      /\ cpu'.pc = "gate_domain" =>
            \E e \in Gated : \E state \in CallsOf(e) : cpu'.poll = [dom |-> e, state |-> state]
  BY <1>1, PollStep
<1>3. ASSUME NEW d \in Gated PROVE GatedInv(d)'
  <2>1. /\ \/ CoreWaits(d) \/ CoreElsewhere(d)
           \/ \E state \in CallsOf(d) :
                 CoreCalls(d, state) \/ CoreWrites(d, state) \/ CoreReturns(d, state)
        /\ cpu.pc = "reset" /\ ~Out("reset") => cpu'.pc = "reset"
    BY <1>1, CoreCases
  <2>2. ASSUME NEW state \in Calls, Mine(d, state)
        PROVE  CoreWaits(d) \/ CoreWrites(d, state) \/ CoreReturns(d, state)
    <3>1. ~CoreElsewhere(d)
      BY <2>2 DEF CoreElsewhere
    <3>2. ASSUME NEW e, CoreCalls(d, e) PROVE FALSE
      BY <2>2, <3>2 DEF CoreCalls, Mine
    <3>3. ASSUME NEW e, CoreWrites(d, e) \/ CoreReturns(d, e) PROVE e = state
      BY <2>2, <3>3 DEF CoreWrites, CoreReturns, Mine
    <3> QED BY <2>1, <3>1, <3>2, <3>3
  <2>3. CASE DomainBoot(d)
    BY <2>3, GatedBootStep
  <2>4. CASE Mine(d, "kOn_e") /\ SwitchingOn(d)
    BY <1>1, <2>2, <2>4, SwitchingOnStep DEF Calls
  <2>5. CASE Mine(d, "kOff_e") /\ SwitchingOff(d)
    BY <1>1, <2>2, <2>5, SwitchingOffStep DEF Calls
  <2>6. CASE /\ ~Mine(d, "kOn_e") /\ ~Mine(d, "kOff_e")
             /\ Mine(d, "kRetOn_e") \/ Mine(d, "kRetOff_e") => cpu.todo \in RetentionLeft
             /\ DomainOn(d) \/ DomainOff(d)
    BY <1>1, <2>1, <2>6, SettledStep
  <2> QED BY <2>3, <2>4, <2>5, <2>6 DEF GatesInv, GatedInv
<1> QED BY <1>2, <1>3 DEF GatesInv

(* In every phase a domain that has lost its power is clamped, and clamped *)
(* or in reset until its garbage is gone.                                  *)
LEMMA GatesSafe ==
    ASSUME GatesInv, NEW d \in Gated
    PROVE  /\ ~rail[d] => ~GOut(d, "iso")
           /\ HasReset(d) /\ garbage[d] => ~(GOut(d, "iso") /\ GOut(d, "reset"))
<1>1. CASE DomainBoot(d) \/ DomainOn(d)
  BY <1>1 DEF DomainBoot, DomainOn
<1>2. CASE DomainOff(d)
  BY <1>2 DEF DomainOff
<1>3. CASE DomainLeaves(d)
  BY <1>3 DEF DomainLeaves
<1>4. CASE DomainFalls(d)
  BY <1>4 DEF DomainFalls
<1>5. CASE DomainRises(d)
  BY <1>5 DEF DomainRises, Edges
<1> QED BY <1>1, <1>2, <1>3, <1>4, <1>5 DEF GatesInv, GatedInv, SwitchingOn, SwitchingOff

-----------------------------------------------------------------------------
\* All domains.
PowerInv == CpuInv /\ GatesInv

(* The invariant is inductive.                                             *)
LEMMA PowerInvariant ==
    ASSUME HealthyUses, OrderedCounters, Polls
    PROVE  Spec => []PowerInv
<1>1. Init => PowerInv
  BY CpuInit, GatesInit DEF PowerInv
<1>2. PowerInv /\ [Next]_vars => PowerInv'
  <2> SUFFICES ASSUME PowerInv, [Next]_vars PROVE PowerInv'
    OBVIOUS
  <2>1. CASE Next
    <3>1. Clock /\ (CoreIdle \/ CoreStep)
      BY <2>1 DEF Next, Cycle, CoreCycle
    <3> QED BY <3>1, CpuStep, GatesStep DEF PowerInv
  <2>2. CASE UNCHANGED vars
    <3>1. CpuInv'
      <4>1. CpuTypes <=> CpuTypes'
        BY <2>2 DEF vars, CpuTypes, CpuShape
      <4>2. (Powered <=> Powered') /\ (Programmed <=> Programmed')
        BY <2>2 DEF vars, Powered, Programmed, Settled, Stopped, AllIdle, CountersLoaded,
           OnCountersLoaded
      <4>3. CpuBoot <=> CpuBoot'
        BY <2>2 DEF vars, CpuBoot, AllIn, Fsm, Out
      <4>4. CpuAwake <=> CpuAwake'
        BY <2>2, <4>2 DEF vars, CpuAwake, AllIn, Fsm, Out
      <4>5. CpuFalling <=> CpuFalling'
        BY <2>2, <4>2 DEF vars, CpuFalling, AllIn, Fsm, Out, OnCountersLoaded
      <4>6. CpuRising <=> CpuRising'
        BY <2>2, <4>2 DEF vars, CpuRising, AllIn, Ahead, Fsm, Out
      <4> QED BY <4>1, <4>2, <4>3, <4>4, <4>5, <4>6 DEF PowerInv, CpuInv
    <3>2. GatesInv'
      <4>1. GregShape <=> GregShape'
        BY <2>2 DEF vars, GregShape
      <4>2. ASSUME NEW d \in Gated
            PROVE  GatedInv(d)'
        <5>1. DomainBoot(d) <=> DomainBoot(d)'
          BY <2>2 DEF vars, DomainBoot, GFsm, GOut, Fsm, Out
        <5>2. /\ DomainOn(d) <=> DomainOn(d)'
              /\ DomainOff(d) <=> DomainOff(d)'
          BY <2>2 DEF vars, DomainOn, DomainOff, GFsm, GOut, AckUp, AckArrives, Out
        <5>3. /\ DomainLeaves(d) <=> DomainLeaves(d)'
              /\ DomainFalls(d) <=> DomainFalls(d)'
          BY <2>2 DEF vars, DomainLeaves, DomainFalls, GFsm, GOut, AckUp
        <5>4. DomainRises(d) <=> DomainRises(d)'
          BY <2>2 DEF vars, DomainRises, GFsm, GOut
        <5>5. cpu' = cpu /\ greg' = greg /\ \A s : GFsm(d, s)' = GFsm(d, s)
          BY <2>2 DEF vars, GFsm
        <5>6. GatedInv(d)
          BY DEF PowerInv, GatesInv
        <5>7. /\ SwitchingOn(d) => SwitchingOn(d)'
              /\ SwitchingOff(d) => SwitchingOff(d)'
          BY <5>2, <5>3, <5>4, <5>5 DEF SwitchingOn, SwitchingOff
        <5>8. \A state : Mine(d, state)' <=> Mine(d, state)
          BY <5>5 DEF Mine
        <5> QED BY <5>1, <5>2, <5>5, <5>6, <5>7, <5>8 DEF GatedInv
      <4> QED BY <2>2, <4>1, <4>2 DEF vars, PowerInv, GatesInv
    <3> QED BY <3>1, <3>2 DEF PowerInv
  <2> QED BY <2>1, <2>2
<1> QED BY <1>1, <1>2, PTL DEF Spec

(* It implies the two properties.                                          *)
LEMMA PowerSafe ==
    ASSUME PowerInv
    PROVE  UnpoweredIsIsolated /\ ResetBeforeVisible
<1>1. ASSUME NEW d \in Domains
      PROVE  /\ ~rail[d] => ~IsoOf(d)
             /\ HasReset(d) /\ garbage[d] => ~(IsoOf(d) /\ ResetOf(d))
  <2>1. CASE d = "cpu"
    BY <2>1, CpuSafe DEF PowerInv, IsoOf, ResetOf, Out
  <2>2. CASE d \in Gated /\ d # "cpu"
    BY <2>2, GatesSafe DEF PowerInv, IsoOf, ResetOf, GOut
  <2> QED BY <2>1, <2>2 DEF Domains
<1> QED BY <1>1 DEF UnpoweredIsIsolated, ResetBeforeVisible

(* The outputs of a domain without supply are clamped: in the CPU domain   *)
(* by the order of the counters and the wait for the acknowledge, in the   *)
(* others by the order of the driver's writes.                             *)
THEOREM IsolationSafety ==
    ASSUME HealthyUses, OrderedCounters, Polls
    PROVE  Spec => []UnpoweredIsIsolated
BY PowerInvariant, PowerSafe, PTL

(* A domain that has lost its supply is reset before its outputs are       *)
(* visible and its reset is released.                                      *)
THEOREM ResetSafety ==
    ASSUME HealthyUses, OrderedCounters, Polls
    PROVE  Spec => []ResetBeforeVisible
BY PowerInvariant, PowerSafe, PTL

=============================================================================
