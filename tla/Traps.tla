-------------------------------- MODULE Traps --------------------------------
(***************************************************************************)
(* The start of the kernel and what becomes of it when the processor       *)
(* raises an exception: _start and arch_init (core/init.c), the segments   *)
(* (amd64/gdt.c) and exception tables of both ports (amd64/idt.c,          *)
(* amd64/exceptions.c, aarch64/exceptions.s), and panic (core/panic.c),    *)
(* which every handler ends in and which is itself interrupted like any    *)
(* other code.                                                             *)
(*                                                                         *)
(* Exceptions are vectors on amd64 and exception classes on aarch64.  No   *)
(* handler returns, and none has a stack of its own, so every exception    *)
(* leaves its frame on the one stack there is.                             *)
(***************************************************************************)
EXTENDS Integers, Sequences

CONSTANTS
  Ports,          \* "amd64" and "aarch64"
  Faults,         \* by port: the exceptions the kernel's code may raise
  StackRoom,      \* the frames the stack has room for
  MaxFaults       \* bound: exceptions raised by chance

ASSUME PortAssumption == Ports \subseteq {"amd64", "aarch64"}
ASSUME FaultAssumption == Faults \in [Ports -> SUBSET (0 .. 255)]
ASSUME RoomAssumption == StackRoom \in Nat \ {0} /\ MaxFaults \in Nat

NonMaskable == 2
Interrupt == 32        \* the first vector of external interrupts
DoubleFault == 8
Protection == 13

VARIABLES
  port,          \* the port running
  pc,            \* the step being executed
  loaded,        \* does idtr (vbar_el1) hold the kernel's table?
  gdtr,          \* amd64: whose segment descriptors are in use
  idt,           \* amd64: the gates registered, by vector
  gates,         \* amd64: calls of register_exception made
  irq,           \* are external interrupts enabled?
  halted,        \* does the processor wait in hlt or wfi?
  depth,         \* frames of exceptions on the stack
  faults,        \* bound: counts exceptions raised by chance
  raised,        \* history: the last exception raised, or -1
  message        \* what the last panic reports: a vector or class, or -1

table_vars == <<gdtr, loaded, idt, gates>>
trap_vars  == <<depth, faults, raised, message>>
vars == <<port, pc, table_vars, irq, halted, trap_vars>>

\* The calls of REGISTER_EXCEPTION, in their order.
Registered == <<0, 1, 3, 4, 5, 6, 7, 8, 10, 11, 12, 13, 14>>

\* The order of _start and arch_init.
After(step) ==
  CASE step = "hello" -> "pmm"
    [] step = "pmm"   -> IF port = "amd64" THEN "gdt" ELSE "vbar"
    [] step = "gdt"   -> "idt"
    [] step = "idt"   -> "gates"
    [] step = "vbar"  -> "mmu"
    [] step = "mmu"   -> "board"
    [] OTHER          -> "idle"

BootSteps == {"hello", "pmm", "gdt", "idt", "gates", "vbar", "mmu", "board", "idle"}

(***************************************************************************)
(* amd64: the segment descriptors, by selector.  Of a descriptor the       *)
(* processor looks at the access byte and the flags when it enters a       *)
(* handler; base and limit mean nothing in long mode.                      *)
(***************************************************************************)
Entry(access, granularity) == [access |-> access, granularity |-> granularity]

Null == Entry(0, 0)

\* Mutant: the 64-bit segments in the order of the 32-bit ones, data first.
Bug_Swapped(sel) == IF sel = 48 THEN Entry(154, 32) ELSE IF sel = 40 THEN Entry(146, 0) ELSE Null

\* The entries of gdt[256]; those after 0x40 are zero.
gdt(sel) ==
  CASE sel = 8  -> Entry(154, 0)        \* 0x08: 0x9A, 0x00
    [] sel = 16 -> Entry(146, 0)        \* 0x10: 0x92, 0x00
    [] sel = 24 -> Entry(154, 207)      \* 0x18: 0x9A, 0xCF
    [] sel = 32 -> Entry(146, 207)      \* 0x20: 0x92, 0xCF
    [] sel = 40 -> Entry(154, 32)       \* 0x28: 0x9A, 0x20
    [] sel = 48 -> Entry(146, 0)        \* 0x30: 0x92, 0x00
    [] sel = 56 -> Entry(250, 175)      \* 0x38: 0xFA, 0xAF
    [] sel = 64 -> Entry(242, 0)        \* 0x40: 0xF2, 0x00
    [] OTHER    -> Null

\* What the boot protocol promises of the bootloader's descriptors: the kernel
\* is entered with cs = 0x28, a 64-bit code segment.
boot_gdt(sel) == IF sel = 40 THEN Entry(154, 32) ELSE Null

Descriptor(sel) == IF gdtr = "kernel" THEN gdt(sel) ELSE boot_gdt(sel)

\* A handler of the kernel can run in this segment: present, of privilege 0,
\* a code segment (access is 1 00 1 1 . . .) that does not conform, and 64 bits
\* wide (L = 1 and D = 0).
LongCode(d) == /\ d.access \div 8 = 19 /\ (d.access \div 4) % 2 = 0
               /\ (d.granularity \div 32) % 4 = 1

Running == ~halted /\ pc \notin {"lost", "reset", "stuck", "astray"}

------------------------------------------------------------------------------

\* As Limine enters the kernel: with exceptions masked that can be, and with
\* its own table or none.
Init ==
  /\ port \in Ports
  /\ pc = "hello"
  /\ gdtr = "bootloader" /\ loaded = FALSE /\ idt = <<>> /\ gates = 0
  /\ irq = FALSE /\ halted = FALSE
  /\ depth = 0 /\ faults = 0 /\ raised = -1 /\ message = -1

\* A step of _start or arch_init that the model does not look into.
Advance ==
  /\ Running /\ pc \in {"hello", "pmm", "mmu", "board"}
  /\ pc' = After(pc)
  /\ UNCHANGED <<port, table_vars, irq, halted, trap_vars>>

\* gdt_load: lgdt.  No segment register is loaded anew, so the segment the kernel
\* runs in stays as it is until the next exception reads its descriptor.
LoadGdt ==
  /\ Running /\ pc = "gdt"
  /\ gdtr' = "kernel"
  /\ pc' = After(pc)
  /\ UNCHANGED <<port, loaded, idt, gates, irq, halted, trap_vars>>

\* idt_load, before any gate is in, or msr vbar_el1.
LoadTable ==
  /\ Running /\ pc \in {"idt", "vbar"}
  /\ loaded' = TRUE
  /\ pc' = After(pc)
  /\ UNCHANGED <<port, gdtr, idt, gates, irq, halted, trap_vars>>

\* The flags register_exception passes on.
IDT_TRAP_GATE_FLAGS == 143

\* The entry set_desc writes: the flags are cut to the four bits of the type.
GateFor(v) == [handler |-> v, cs |-> 40, type |-> IDT_TRAP_GATE_FLAGS % 16, p |-> 1]

\* Mutant: every gate leads to the handler of the gate before.
Bug_Shifted(v) ==
  [w \in DOMAIN idt \cup {v} |-> IF w = v THEN GateFor(v - 1) ELSE idt[w]]

\* register_exception and set_desc.
set_desc(v) == [w \in DOMAIN idt \cup {v} |-> IF w = v THEN GateFor(v) ELSE idt[w]]

RegisterGate ==
  /\ Running /\ pc = "gates" /\ gates < Len(Registered)
  /\ idt' = set_desc(Registered[gates + 1])
  /\ gates' = gates + 1
  /\ UNCHANGED <<port, pc, gdtr, loaded, irq, halted, trap_vars>>

GatesDone ==
  /\ Running /\ pc = "gates" /\ gates = Len(Registered)
  /\ pc' = After(pc)
  /\ UNCHANGED <<port, table_vars, irq, halted, trap_vars>>

\* panic without an exception: pmm.c finds no usable memory.
Panic ==
  /\ Running /\ pc = "pmm"
  /\ pc' = "report"
  /\ message' = -1
  /\ UNCHANGED <<port, table_vars, irq, halted, depth, faults, raised>>

\* The message of panic has been printed.
Report ==
  /\ Running /\ pc = "report"
  /\ pc' = "mask"
  /\ UNCHANGED <<port, table_vars, irq, halted, trap_vars>>

\* Mutant: interrupts stay as they are.
Bug_StaysEnabled == UNCHANGED irq

global_irq_disable == irq' = FALSE

Mask ==
  /\ Running /\ pc = "mask"
  /\ global_irq_disable
  /\ pc' = "halt"
  /\ UNCHANGED <<port, table_vars, halted, trap_vars>>

\* global_irq_enable: pal.h offers it to the code that runs once the kernel has
\* started.
EnableIrq ==
  /\ Running /\ pc = "idle" /\ ~irq
  /\ irq' = TRUE
  /\ UNCHANGED <<port, pc, table_vars, halted, trap_vars>>

\* Mutant: a branch to itself in place of the instruction that waits.
Bug_Spins == Running /\ pc \in {"halt", "idle"} /\ UNCHANGED vars

\* halt(), at the end of panic or in the loop of _start.
Halt ==
  /\ Running /\ pc \in {"halt", "idle"}
  /\ halted' = TRUE
  /\ UNCHANGED <<port, pc, table_vars, irq, trap_vars>>

------------------------------------------------------------------------------

\* amd64: the exceptions that make a double fault of one raised while they are
\* being delivered.
Severe == {0, 10, 11, 12, 13, 14, 20, 21}

\* amd64: the processor can enter the handler of v: there is an interrupt or
\* trap gate, present, and its segment can run it.  An entry never written is
\* zero, which is neither.
Enterable(v) == /\ v \in DOMAIN idt
                /\ idt[v].type \in {14, 15} /\ idt[v].p = 1
                /\ LongCode(Descriptor(idt[v].cs))

\* amd64: the gate through which exception v is delivered, or -1.  A gate that
\* cannot be used is itself a general protection fault.
Gate(v) ==
  IF Enterable(v) THEN v
  ELSE IF v \notin Severe \cup {DoubleFault} /\ Enterable(Protection) THEN Protection
  ELSE IF v # DoubleFault /\ Enterable(DoubleFault) THEN DoubleFault
  ELSE -1

\* Mutant: the two comparisons exchanged.
Bug_Exchanged(v) == IF v = 21 THEN 37 ELSE IF v = 37 THEN 21 ELSE 0

\* aarch64: el1_sp0_sync tells two classes from all others.
Class(v) == IF v \in {21, 37} THEN v ELSE 0

Delivered(v) == IF port = "amd64" THEN Gate(v) ELSE Class(v)

\* The message of the handler that exception v reaches.
MessageOf(v) == IF port = "amd64" THEN idt[Gate(v)].handler ELSE Class(v)

\* What the processor does about exception v.  Its frame goes onto the stack in
\* use (ist = 0; on aarch64 the handler switches back to that stack).
Enter(v) ==
  /\ raised' = v
  /\ halted' = FALSE
  /\ IF ~loaded
     THEN pc' = "lost" /\ UNCHANGED <<depth, message>>
     ELSE IF depth = StackRoom \/ Delivered(v) = -1
     THEN /\ pc' = IF port = "amd64" THEN "reset" ELSE "stuck"
          /\ UNCHANGED <<depth, message>>
     ELSE /\ pc' = "report"
          /\ message' = MessageOf(v)
          /\ depth' = depth + 1
  /\ UNCHANGED <<port, table_vars, irq>>

\* An exception raised by whatever code is running.
Fault(v) ==
  /\ Running /\ faults < MaxFaults
  /\ faults' = faults + 1
  /\ Enter(v)

\* amd64: a non-maskable interrupt, also when the processor waits.
Nmi ==
  /\ port = "amd64" /\ (Running \/ halted) /\ faults < MaxFaults
  /\ faults' = faults + 1
  /\ Enter(NonMaskable)

\* amd64: an external interrupt, when enabled, takes vectors without gates.
Irq ==
  /\ port = "amd64" /\ irq /\ (Running \/ halted) /\ faults < MaxFaults
  /\ faults' = faults + 1
  /\ Enter(Interrupt)

\* aarch64: the table ends after its first entry, so that an interrupt enters
\* whatever lies behind it.
NoEntry ==
  /\ port = "aarch64" /\ irq /\ Running
  /\ pc' = "astray"
  /\ UNCHANGED <<port, table_vars, irq, halted, trap_vars>>

\* aarch64: wfi ends when an interrupt is pending, masked or not, and "b 0"
\* then branches to address 0, not to the label before the wfi.
Wake ==
  /\ port = "aarch64" /\ halted
  /\ halted' = FALSE
  /\ pc' = "astray"
  /\ UNCHANGED <<port, table_vars, irq, trap_vars>>

\* The code of the kernel itself.
Kernel == \/ Advance \/ LoadGdt \/ LoadTable \/ RegisterGate \/ GatesDone
          \/ Report \/ Mask \/ Halt

Next == \/ Kernel \/ Panic \/ EnableIrq
        \/ Nmi \/ Irq \/ NoEntry \/ Wake \/ \E v \in Faults[port] : Fault(v)

Spec == Init /\ [][Next]_vars

\* The processor keeps executing.  Nothing has to be raised or enabled.
FairSpec == Spec /\ WF_vars(Kernel)

------------------------------------------------------------------------------

TypeOK ==
  /\ port \in Ports /\ loaded \in BOOLEAN /\ irq \in BOOLEAN /\ halted \in BOOLEAN
  /\ pc \in BootSteps \cup {"report", "mask", "halt", "lost", "reset", "stuck", "astray"}
  /\ gates \in 0 .. Len(Registered)
  /\ DOMAIN idt \subseteq 0 .. 255
  /\ \A v \in DOMAIN idt : idt[v].handler \in 0 .. 255
  /\ gdtr \in {"bootloader", "kernel"}
  /\ depth \in 0 .. StackRoom /\ faults \in 0 .. MaxFaults
  /\ raised \in -1 .. 255 /\ message \in -1 .. 255

\* The vectors register_exception has been called for.
Covered == {Registered[k] : k \in 1 .. gates}

\* From the gate of the double fault on, no exception resets the machine while
\* the stack has room: not one without a gate of its own, and not one in a
\* panic about a panic (exceptions.c:59-74, idt.c:45-69).
NoReset == [][pc' = "reset" => DoubleFault \notin Covered \/ depth = StackRoom]_vars

\* The exceptions that have a message of their own.
Handled == IF port = "amd64" THEN {Registered[k] : k \in DOMAIN Registered} ELSE {21, 37}

\* A panic names the last exception raised, if that has a message, however many
\* were raised before it (exceptions.c:36-74, exceptions.s:52-76).
NamesTheException ==
  (pc = "report" /\ raised \in Handled /\ (port = "amd64" => gates = Len(Registered)))
    => message = raised

\* On amd64 only a non-maskable interrupt ends the wait at the end of a panic,
\* wherever panic was called and whatever had enabled interrupts (panic.c:43-44).
StaysHalted ==
  [][port = "amd64" /\ halted /\ pc = "halt" => halted' \/ raised' = NonMaskable]_vars

\* The same on either port: "To fully halt the CPU ensure you use
\* global_irq_disable() first" (pal.h:40-41).
FullyHalted == [][halted /\ pc = "halt" => halted' \/ raised' = NonMaskable]_vars

\* However often it is interrupted, the kernel comes to rest (init.c:125-138,
\* panic.c:34-45): it waits, or is where no exception leads back from.
ComesToRest == <>[](~Running)

------------------------------------------------------------------------------

\* Every gate registered leads to the handler of its vector.
IdtInv == DOMAIN idt = Covered /\ \A v \in DOMAIN idt : idt[v] = GateFor(v)

\* The kernel starts without an exception, and waits in a panic masked.
PhaseInv ==
  /\ pc \in BootSteps => raised = -1
  /\ pc = "halt" => irq = FALSE

IInv == TypeOK /\ IdtInv /\ PhaseInv /\ NamesTheException
==============================================================================
