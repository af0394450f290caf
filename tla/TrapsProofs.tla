----------------------------- MODULE TrapsProofs -----------------------------
(***************************************************************************)
(* Proofs about Traps, for every stack, every set of exceptions and either *)
(* port.                                                                   *)
(***************************************************************************)
EXTENDS Traps, TLAPS

\* The vectors that have gates are known by their number: the double fault is
\* the eighth, and all of them are handled.
LEMMA RegisteredVectors ==
  /\ Len(Registered) = 13
  /\ \A k \in 1 .. 13 : Registered[k] \in 0 .. 255
BY DEF Registered

\* The initial states satisfy the invariant: no gate, no exception.
LEMMA InitInv == Init => IInv
<1> SUFFICES ASSUME Init PROVE IInv
  OBVIOUS
<1>1. DOMAIN idt = {} /\ gates = 0
  BY DEF Init
<1>2. TypeOK
  <2>1. pc \in BootSteps
    BY DEF Init, BootSteps
  <2>2. depth \in 0 .. StackRoom /\ faults \in 0 .. MaxFaults
    BY RoomAssumption DEF Init
  <2>3. gates \in 0 .. Len(Registered)
    BY <1>1, RegisteredVectors
  <2>4. raised \in -1 .. 255 /\ message \in -1 .. 255
    BY DEF Init
  <2>5. port \in Ports /\ loaded \in BOOLEAN /\ irq \in BOOLEAN /\ halted \in BOOLEAN
        /\ gdtr \in {"bootloader", "kernel"}
    BY DEF Init
  <2> QED
    BY <1>1, <2>1, <2>2, <2>3, <2>4, <2>5 DEF TypeOK
<1>3. IdtInv
  BY <1>1 DEF IdtInv, Covered
<1>4. PhaseInv /\ NamesTheException
  BY DEF Init, PhaseInv, NamesTheException
<1> QED
  BY <1>2, <1>3, <1>4 DEF IInv

\* A registered gate extends the table by the vector of the call.
LEMMA RegisterStep ==
  ASSUME IInv, RegisterGate
  PROVE  /\ gates' \in 0 .. Len(Registered)
         /\ DOMAIN idt' \subseteq 0 .. 255
         /\ \A v \in DOMAIN idt' : idt'[v].handler \in 0 .. 255
         /\ IdtInv'
<1> DEFINE v == Registered[gates + 1]
<1>1. gates \in 0 .. 12 /\ gates' = gates + 1
  BY RegisteredVectors DEF IInv, TypeOK, RegisterGate
<1>2. v \in 0 .. 255
  BY <1>1, RegisteredVectors
<1>3. idt' = [w \in DOMAIN idt \cup {v} |-> IF w = v THEN GateFor(v) ELSE idt[w]]
  BY DEF RegisterGate, set_desc
<1>4. DOMAIN idt' = DOMAIN idt \cup {v}
  BY <1>3
<1>5. \A w \in DOMAIN idt' : idt'[w] = GateFor(w)
  BY <1>3, <1>4 DEF IInv, IdtInv
<1>6. Covered' = Covered \cup {v}
  <2>1. 1 .. gates' = (1 .. gates) \cup {gates + 1}
    BY <1>1
  <2> QED
    BY <2>1 DEF Covered, Registered
<1>7. \A w \in DOMAIN idt' : idt'[w].handler = w
  BY <1>5 DEF GateFor
<1>8. gates' \in 0 .. Len(Registered)
  BY <1>1, RegisteredVectors
<1>9. DOMAIN idt' \subseteq 0 .. 255
  <2>1. DOMAIN idt \subseteq 0 .. 255
    BY DEF IInv, TypeOK
  <2> HIDE DEF v
  <2> QED
    BY <1>2, <1>4, <2>1
<1>10. DOMAIN idt' = Covered'
  BY <1>4, <1>6 DEF IInv, IdtInv
<1> QED
  BY <1>5, <1>7, <1>8, <1>9, <1>10 DEF IInv, IdtInv

\* The segment of every gate is a 64-bit code segment, with the descriptors of
\* the bootloader and with those of the kernel.
LEMMA SegmentFits ==
  ASSUME IInv, NEW v \in DOMAIN idt
  PROVE  Enterable(v)
<1>1. idt[v] = GateFor(v)
  BY DEF IInv, IdtInv
<1>2. idt[v].type = 15 /\ idt[v].p = 1 /\ idt[v].cs = 40
  BY <1>1 DEF GateFor, IDT_TRAP_GATE_FLAGS
<1>3. Descriptor(40) = Entry(154, 32)
  BY DEF Descriptor, gdt, boot_gdt
<1>4. LongCode(Entry(154, 32))
  BY DEF LongCode, Entry
<1> QED
  BY <1>2, <1>3, <1>4 DEF Enterable

\* Once the double fault has its gate, the processor finds a gate for every
\* vector.
LEMMA GateFound ==
  ASSUME IInv, DoubleFault \in Covered, NEW v \in 0 .. 255
  PROVE  Gate(v) \in DOMAIN idt
<1>1. DoubleFault \in DOMAIN idt
  BY DEF IInv, IdtInv
<1>2. Enterable(DoubleFault)
  BY <1>1, SegmentFits
<1>3. \A w : Enterable(w) => w \in DOMAIN idt
  BY DEF Enterable
<1> QED
  BY <1>2, <1>3 DEF Gate

\* Whatever the table, an exception is delivered to a gate or to none.
LEMMA GateType ==
  ASSUME IInv, NEW v \in 0 .. 255
  PROVE  Delivered(v) # -1 => MessageOf(v) \in 0 .. 255
<1>1. Gate(v) \in DOMAIN idt \/ Gate(v) = -1
  BY DEF Gate, Enterable
<1>2. \A w \in DOMAIN idt : idt[w].handler \in 0 .. 255
  BY DEF IInv, TypeOK
<1>3. CASE port = "amd64"
  BY <1>1, <1>2, <1>3 DEF Delivered, MessageOf
<1>4. CASE port # "amd64"
  BY <1>4 DEF MessageOf, Class
<1> QED
  BY <1>3, <1>4

\* What the processor does about an exception keeps the invariant: the message
\* of a handled exception is its own.
LEMMA EnterStep ==
  ASSUME IInv, NEW v \in 0 .. 255, Enter(v), faults' \in 0 .. MaxFaults
  PROVE  IInv'
<1>1. UNCHANGED <<port, loaded, gdtr, idt, gates, irq>> /\ raised' = v /\ halted' = FALSE
  BY DEF Enter, table_vars
<1>2. CASE pc' = "report" /\ message' = MessageOf(v) /\ depth' = depth + 1
           /\ depth # StackRoom /\ Delivered(v) # -1
  <2>1. message' \in 0 .. 255
    BY <1>2, GateType
  <2>2. depth' \in 0 .. StackRoom
    BY <1>2, RoomAssumption DEF IInv, TypeOK
  <2>3. TypeOK'
    <3>1. raised' \in -1 .. 255 /\ message' \in -1 .. 255
      BY <1>1, <2>1
    <3> QED
      BY <1>1, <1>2, <2>2, <3>1 DEF IInv, TypeOK
  <2>4. IdtInv' /\ PhaseInv'
    BY <1>1, <1>2 DEF IInv, IdtInv, PhaseInv, Covered, BootSteps
  <2>5. ASSUME v \in Handled, port = "amd64" => gates = Len(Registered)
        PROVE  message' = v
    <3>1. CASE port = "amd64"
      <4>1. v \in DOMAIN idt
        BY <2>5, <3>1, RegisteredVectors DEF IInv, IdtInv, Handled, Covered, Registered
      <4>2. Gate(v) = v
        BY <4>1, SegmentFits DEF Gate
      <4>3. idt[v].handler = v
        BY <4>1 DEF IInv, IdtInv, GateFor
      <4> QED
        BY <1>2, <3>1, <4>2, <4>3 DEF MessageOf
    <3>2. CASE port # "amd64"
      BY <1>2, <2>5, <3>2 DEF Handled, MessageOf, Class
    <3> QED
      BY <3>1, <3>2
  <2>6. NamesTheException'
    BY <1>1, <2>5 DEF NamesTheException, Handled
  <2> QED
    BY <2>3, <2>4, <2>6 DEF IInv
<1>3. CASE pc' \in {"lost", "reset", "stuck"} /\ UNCHANGED <<depth, message>>
  <2>1. TypeOK'
    <3>1. raised' \in -1 .. 255
      BY <1>1
    <3> QED
      BY <1>1, <1>3, <3>1 DEF IInv, TypeOK
  <2>2. IdtInv' /\ PhaseInv' /\ NamesTheException'
    BY <1>1, <1>3 DEF IInv, IdtInv, PhaseInv, NamesTheException, Covered, BootSteps
  <2> QED
    BY <2>1, <2>2 DEF IInv
<1> QED
  BY <1>2, <1>3 DEF Enter

\* A step that moves on, without an exception and without a new gate, keeps the
\* invariant when it stays inside the steps of the kernel and does not enable
\* interrupts in a panic.
LEMMA QuietStep ==
  ASSUME IInv, UNCHANGED <<port, idt, gates, depth, faults, raised>>,
         loaded' \in BOOLEAN, irq' \in BOOLEAN, halted' \in BOOLEAN,
         gdtr' \in {"bootloader", "kernel"}, message' \in {-1, message},
         pc' \in BootSteps \cup {"report", "mask", "halt", "astray"},
         pc' \in BootSteps => pc \in BootSteps,
         pc' = "report" => (pc = "report" /\ message' = message) \/ raised = -1,
         pc' = "halt" => irq' = FALSE
  PROVE  IInv'
<1>1. TypeOK'
  BY DEF IInv, TypeOK
<1>2. IdtInv' /\ PhaseInv'
  BY DEF IInv, IdtInv, PhaseInv, Covered
<1>3. -1 \notin Handled
  BY RegisteredVectors DEF Handled, Registered
<1>4. NamesTheException'
  BY <1>3 DEF IInv, NamesTheException, Handled
<1> QED
  BY <1>1, <1>2, <1>4 DEF IInv

\* Every step keeps the invariant.
LEMMA StepInv == IInv /\ [Next]_vars => IInv'
<1> SUFFICES ASSUME IInv, [Next]_vars PROVE IInv'
  OBVIOUS
<1> USE DEF table_vars, trap_vars
<1>1. CASE Advance
  BY <1>1, QuietStep DEF IInv, TypeOK, Advance, After, BootSteps
<1>16. CASE LoadGdt
  BY <1>16, QuietStep DEF IInv, TypeOK, LoadGdt, After, BootSteps
<1>2. CASE LoadTable
  BY <1>2, QuietStep DEF IInv, TypeOK, LoadTable, After, BootSteps
<1>3. CASE RegisterGate
  <2>1. TypeOK' /\ IdtInv'
    BY <1>3, RegisterStep DEF IInv, TypeOK, RegisterGate
  <2>2. PhaseInv' /\ NamesTheException'
    BY <1>3 DEF IInv, PhaseInv, NamesTheException, RegisterGate
  <2> QED
    BY <2>1, <2>2 DEF IInv
<1>4. CASE GatesDone
  BY <1>4, QuietStep DEF IInv, TypeOK, GatesDone, After, BootSteps
<1>5. CASE Panic
  BY <1>5, QuietStep DEF IInv, TypeOK, PhaseInv, Panic, BootSteps
<1>6. CASE Report
  BY <1>6, QuietStep DEF IInv, TypeOK, Report, BootSteps
<1>7. CASE Mask
  BY <1>7, QuietStep DEF IInv, TypeOK, Mask, global_irq_disable, BootSteps
<1>8. CASE EnableIrq
  BY <1>8, QuietStep DEF IInv, TypeOK, EnableIrq, BootSteps
<1>9. CASE Halt
  BY <1>9, QuietStep DEF IInv, TypeOK, PhaseInv, Halt, BootSteps
<1>0. faults' = faults + 1 /\ faults < MaxFaults => faults' \in 0 .. MaxFaults
  BY RoomAssumption DEF IInv, TypeOK
<1>10. CASE Nmi
  <2>1. NonMaskable \in 0 .. 255
    BY DEF NonMaskable
  <2> QED
    BY <1>10, <1>0, <2>1, EnterStep DEF Nmi
<1>11. CASE Irq
  <2>1. Interrupt \in 0 .. 255
    BY DEF Interrupt
  <2> QED
    BY <1>11, <1>0, <2>1, EnterStep DEF Irq
<1>12. CASE NoEntry
  BY <1>12, QuietStep DEF IInv, TypeOK, NoEntry, BootSteps
<1>13. CASE Wake
  BY <1>13, QuietStep DEF IInv, TypeOK, Wake, BootSteps
<1>14. ASSUME NEW v \in Faults[port], Fault(v) PROVE IInv'
  <2>1. v \in 0 .. 255
    BY <1>14, FaultAssumption DEF IInv, TypeOK
  <2> QED
    BY <1>14, <1>0, <2>1, EnterStep DEF Fault
<1>15. CASE UNCHANGED vars
  <2>1. UNCHANGED <<port, pc, gates, idt, gdtr, loaded, irq, halted, depth, faults, raised, message>>
    BY <1>15 DEF vars, table_vars, trap_vars
  <2>2. TypeOK'
    BY <2>1 DEF IInv, TypeOK
  <2>3. IdtInv'
    BY <2>1 DEF IInv, IdtInv, Covered
  <2>4. PhaseInv' /\ NamesTheException'
    BY <2>1 DEF IInv, PhaseInv, NamesTheException, Handled
  <2> QED
    BY <2>2, <2>3, <2>4 DEF IInv
<1> QED
  BY <1>1, <1>2, <1>3, <1>4, <1>5, <1>6, <1>7, <1>8, <1>9, <1>10, <1>11, <1>12,
     <1>13, <1>14, <1>15, <1>16 DEF Next, Kernel

\* The tables are consistent in every reachable state of either port: a gate
\* leads to the handler of its own vector, a start has seen no exception, and a
\* panic waits masked (core/init.c, exceptions.c, panic.c).
THEOREM TablesInductive == Spec => []IInv
BY InitInv, StepInv, PTL DEF Spec

\* The state of the tables keeps its types: no gate leads outside the 256
\* handlers, and the stack never holds more than it has room for (idt.c:45-69,
\* exceptions.c:36-74).
THEOREM TypeCorrect == Spec => []TypeOK
<1>1. IInv => TypeOK
  BY DEF IInv
<1> QED
  BY <1>1, TablesInductive, PTL

\* A panic names the last exception raised, if that has a message, for every
\* stack and every sequence of exceptions (exceptions.c:36-74,
\* exceptions.s:52-76).
THEOREM PanicNamesTheException == Spec => []NamesTheException
<1>1. IInv => NamesTheException
  BY DEF IInv
<1> QED
  BY <1>1, TablesInductive, PTL

\* From the gate of the double fault on, only an exhausted stack resets the
\* machine, whichever exceptions the code raises (exceptions.c:59-74,
\* idt.c:45-69).
THEOREM ResetsNeverAfterDoubleFault == Spec => NoReset
<1> DEFINE Safe == pc' = "reset" => DoubleFault \notin Covered \/ depth = StackRoom
<1>1. ASSUME IInv, NEW v \in 0 .. 255, Enter(v) PROVE Safe
  <2> SUFFICES ASSUME DoubleFault \in Covered, depth # StackRoom PROVE pc' # "reset"
    OBVIOUS
  <2>1. Gate(v) # -1
    <3>1. Gate(v) \in DOMAIN idt
      BY <1>1, GateFound
    <3>2. DOMAIN idt \subseteq 0 .. 255
      BY <1>1 DEF IInv, TypeOK
    <3> QED
      BY <3>1, <3>2
  <2> QED
    BY <1>1, <2>1 DEF Enter, Delivered, Class
<1>2. IInv /\ [Next]_vars => [Safe]_vars
  <2> SUFFICES ASSUME IInv, Next PROVE Safe
    BY DEF NoReset
  <2>1. ASSUME NEW v \in Faults[port], Fault(v) PROVE Safe
    <3>1. v \in 0 .. 255
      BY <2>1, FaultAssumption DEF IInv, TypeOK
    <3> QED
      BY <1>1, <2>1, <3>1 DEF Fault
  <2>2. CASE Nmi \/ Irq
    BY <1>1, <2>2 DEF Nmi, Irq, NonMaskable, Interrupt
  <2>3. CASE ~(Nmi \/ Irq) /\ \A v \in Faults[port] : ~Fault(v)
    BY <2>3 DEF Next, Kernel, Advance, LoadGdt, LoadTable, RegisterGate, GatesDone,
       Panic, Report, Mask, EnableIrq, Halt, NoEntry, Wake, After, Running
  <2> QED
    BY <2>1, <2>2, <2>3
<1> QED
  BY <1>2, TablesInductive, PTL DEF Spec, NoReset

\* On amd64 nothing but a non-maskable interrupt ends the wait of a panic,
\* whatever enabled interrupts before it (panic.c:43-44).
THEOREM PanicStaysHalted == Spec => StaysHalted
<1> DEFINE Safe ==
      port = "amd64" /\ halted /\ pc = "halt" => halted' \/ raised' = NonMaskable
<1>1. IInv /\ [Next]_vars => [Safe]_vars
  <2> SUFFICES ASSUME IInv, Next, port = "amd64", halted, pc = "halt"
               PROVE  halted' \/ raised' = NonMaskable
    OBVIOUS
  <2>1. irq = FALSE
    BY DEF IInv, PhaseInv
  <2>2. CASE Nmi
    BY <2>2 DEF Nmi, Enter
  <2>3. CASE Halt
    BY <2>3 DEF Halt
  <2> QED
    BY <2>1, <2>2, <2>3 DEF Next, Kernel, Advance, LoadGdt, LoadTable, RegisterGate, GatesDone,
       Panic, Report, Mask, EnableIrq, Irq, NoEntry, Wake, Fault, Running
<1> QED
  BY <1>1, TablesInductive, PTL DEF Spec, StaysHalted

==============================================================================
