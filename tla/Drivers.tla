------------------------------ MODULE Drivers ------------------------------
(***************************************************************************)
(* The drivers of crates/kernel/src/drivers: the interrupt controller      *)
(* (plic.rs) and the serial port (ns16550a.rs), with the devices they      *)
(* program.  The kernel does not create them yet; their client is the one  *)
(* that drivers.rs documents: init once, then calls from any hart, and on  *)
(* an external interrupt claim, handle_interrupt, finish.  A hart's code   *)
(* and the interrupt that suspends it are two activities, each access to a *)
(* device register is a step, and the devices move on in between.          *)
(***************************************************************************)
EXTENDS Integers, Sequences, FiniteSets

CONSTANTS Harts,     \* hart ids
          NDEV,      \* the property riscv,ndev: the largest interrupt id
          Sources,   \* ids of interrupts that are used
          UART,      \* the id of the serial port
          MESSAGE,   \* what write_str is called with
          CALLS,     \* bound: calls by the harts' own code
          EVENTS     \* bound: bytes received and interrupts of other devices

ASSUME DriversAssumption ==
    /\ Harts \subseteq Nat /\ IsFiniteSet(Harts)
    /\ NDEV \in 0 .. 1023   \* VolBlock of 1024 priorities; 1024 enable bits
    /\ Sources \subseteq 1 .. NDEV /\ UART \in Sources \ {NDEV}
    /\ MESSAGE \in Seq(0 .. 255) \ {<<>>}
    /\ CALLS \in Nat /\ EVENTS \in Nat

VARIABLES uart,       \* registers and buffers of the serial port
          line,       \* bytes that left it
          written,    \* bytes the driver stored in the data register
          races,      \* history: how often a hart found the transmitter empty
                      \* while another was about to store its byte
          priorities, \* the controller's registers
          enables,    \* set bits of the enable block, as <<byte, bit>>
          thresholds,
          pending,    \* ids that wait to be claimed
          service,    \* ids that were claimed and not completed
          setup,      \* steps of the two init() that were done
          task, irq,  \* what a hart's code and its interrupt handler do
          requested,  \* <<hart, id>> that should be enabled
          muted,      \* ids without a priority: those the client gave 0, and at
                      \* first the largest one, which init leaves out
          calls, events, power

uartVars   == <<uart, line, written, races>>
plicVars   == <<priorities, enables, thresholds, pending, service>>
clientVars == <<requested, muted, calls, events, power>>
driverVars == <<uartVars, plicVars, setup, task, irq, clientVars>>

NoTask == [op |-> "idle", id |-> 0, word |-> {}, rest |-> <<>>, locked |-> FALSE]
NoIrq == [op |-> "idle", id |-> 0]

DriversAt(state) ==
    /\ uart = [fcr |-> 0, lcr |-> 0, ier |-> 0, dll |-> 0, dlm |-> 0,
               thr |-> <<>>, rx |-> <<>>]
    /\ line = <<>> /\ written = <<>> /\ races = 0
    /\ priorities = [id \in Sources |-> 0]
    /\ enables = {}
    /\ thresholds = [h \in Harts |-> 0]
    /\ pending = {} /\ service = {}
    /\ setup = 0
    /\ task = [h \in Harts |-> NoTask]
    /\ irq = [h \in Harts |-> NoIrq]
    /\ requested = {} /\ muted = Sources \cap {NDEV}
    /\ calls = CALLS /\ events = EVENTS
    /\ power = state

DriversInit == DriversAt("on")

-----------------------------------------------------------------------------
(* The devices *)

\* The serial port.  Bit 7 of LCR puts the divisor latch over the first two
\* registers; the transmitter holds one byte, and a second one is lost.
SetRegister(u, offset, x) ==
    LET latch == u.lcr \div 128 = 1
    IN  CASE offset = 0 /\ latch            -> [u EXCEPT !.dll = x]
          [] offset = 1 /\ latch            -> [u EXCEPT !.dlm = x]
          [] offset = 0 /\ ~ latch          -> [u EXCEPT !.thr = IF @ = <<>> THEN <<x>> ELSE @]
          [] offset = 1 /\ ~ latch          -> [u EXCEPT !.ier = x]
          [] offset = 2                     -> [u EXCEPT !.fcr = x]
          [] offset = 3                     -> [u EXCEPT !.lcr = x]

Transmit ==
    /\ power = "on" /\ uart.thr # <<>>
    /\ line' = line \o uart.thr
    /\ uart' = [uart EXCEPT !.thr = <<>>]
    /\ UNCHANGED <<written, races, plicVars, setup, task, irq, clientVars>>

S == 83  \* b'S'

Receive ==
    /\ power = "on" /\ events > 0
    /\ events' = events - 1
    /\ \E x \in {S, S + 1} : uart' = [uart EXCEPT !.rx = Append(@, x)]
    /\ UNCHANGED <<line, written, races, plicVars, setup, task, irq, requested, muted, calls, power>>

\* The interrupt controller.  The enable bits of a context are 128 bytes, one
\* bit per id; contexts 2h and 2h + 1 are the machine and the supervisor mode
\* of hart h.
EnableBit(ctx, id) == <<128 * ctx + id \div 8, id % 8>>
Supervisor(h) == 2 * h + 1

\* A gateway lets one request through until it is completed.
Signals(id) ==
    /\ power = "on" /\ id \notin pending \cup service
    /\ pending' = pending \cup {id}
    /\ UNCHANGED <<uartVars, priorities, enables, thresholds, service, setup, task, irq,
                   requested, muted, calls, power>>

UartSignals == uart.ier % 2 = 1 /\ uart.rx # <<>> /\ Signals(UART) /\ UNCHANGED events

OtherSignals == /\ events > 0 /\ events' = events - 1
                /\ \E id \in Sources \ {UART} : Signals(id)

\* What a context can claim: the threshold holds back the notification only.
Claimable(ctx) == {id \in pending : EnableBit(ctx, id) \in enables /\ priorities[id] > 0}

Notified(h) == \E id \in Claimable(Supervisor(h)) : priorities[id] > thresholds[h]

\* The largest priority, and among those the smallest id.
Best(ids) == CHOOSE id \in ids :
                \A j \in ids : \/ priorities[id] > priorities[j]
                               \/ priorities[id] = priorities[j] /\ id <= j

-----------------------------------------------------------------------------
(* Initialisation *)

DEFAULT_PRIORITY == 1

divisor == 592

\* Device::init: FCR, LCR, IER, the latch, the divisor as two bytes, LCR.
InitWrites ==
    << <<2, 1>>, <<3, 3>>, <<1, 1>>, <<3, 128 + 3>>,
       <<0, divisor % 256>>, <<1, divisor \div 256>>, <<3, 3>> >>

UartInit ==
    /\ power = "on" /\ setup < Len(InitWrites)
    /\ LET w == InitWrites[setup + 1] IN uart' = SetRegister(uart, w[1], w[2])
    /\ setup' = setup + 1
    /\ UNCHANGED <<line, written, races, plicVars, task, irq, clientVars>>

\* Controller::init: ids 1 .. max_interrupts - 1.  The loop is one step: no id
\* is enabled yet, so nobody looks at a priority.
PlicInit ==
    /\ power = "on" /\ setup = Len(InitWrites)
    /\ priorities' = [id \in Sources |-> IF id < NDEV THEN DEFAULT_PRIORITY
                                                     ELSE priorities[id]]
    /\ setup' = setup + 1
    /\ UNCHANGED <<uartVars, enables, thresholds, pending, service, task, irq, clientVars>>

Ready == setup > Len(InitWrites)

-----------------------------------------------------------------------------
(* Calls from the harts' code, which waits while its hart handles an       *)
(* interrupt.                                                              *)

plic_context(h) == 1 + 2 * h

\* Mutant of enable_idx_bit: a context has one word.
enable_idx_bit_narrow(ctx, id) == <<ctx + id \div 32, id % 32>>

enable_idx_bit(ctx, id) == <<ctx * 32 + id \div 32, id % 32>>

\* Words are four bytes, the least significant first.
BitOf(entry, bit) == <<4 * entry + bit \div 8, bit % 8>>
ReadWord(entry) == {bit \in 0 .. 31 : BitOf(entry, bit) \in enables}
WriteWord(entry, word) ==
    enables' = {b \in enables : b[1] \div 4 # entry} \cup {BitOf(entry, bit) : bit \in word}

Runs(h) == power = "on" /\ irq[h].op = "idle"
Does(h, op) == Runs(h) /\ task[h].op = op
Calls(h) == Ready /\ Does(h, "idle") /\ calls > 0 /\ calls' = calls - 1
Becomes(h, t) == task' = [task EXCEPT ![h] = t]

\* enable and disable read the word that holds the bit ...
LoadEnables(h, op, id) ==
    /\ Calls(h)
    /\ Becomes(h, [NoTask EXCEPT !.op = op, !.id = id,
                                 !.word = ReadWord(enable_idx_bit(plic_context(h), id)[1])])
    /\ UNCHANGED <<uartVars, plicVars, setup, irq, requested, muted, events, power>>

\* ... and write it back with the bit changed.
StoreEnables(h) ==
    LET t   == task[h]
        loc == enable_idx_bit(plic_context(h), t.id)
    IN  /\ \/ /\ Does(h, "enable")
              /\ WriteWord(loc[1], t.word \cup {loc[2]})
              /\ requested' = requested \cup {<<h, t.id>>}
           \/ /\ Does(h, "disable")
              /\ WriteWord(loc[1], t.word \ {loc[2]})
              /\ requested' = requested \ {<<h, t.id>>}
        /\ Becomes(h, NoTask)
        /\ UNCHANGED <<uartVars, priorities, thresholds, pending, service, setup, irq,
                       muted, calls, events, power>>

set_threshold(h, threshold) ==
    /\ Calls(h)
    /\ thresholds' = [thresholds EXCEPT ![h] = threshold]
    /\ UNCHANGED <<uartVars, priorities, enables, pending, service, setup, task, irq,
                   requested, muted, events, power>>

set_priority(h, id, priority) ==
    /\ Calls(h)
    /\ priorities' = [priorities EXCEPT ![id] = priority]
    /\ muted' = IF priority = 0 THEN muted \cup {id} ELSE muted \ {id}
    /\ UNCHANGED <<uartVars, enables, thresholds, pending, service, setup, task, irq,
                   requested, events, power>>

\* Bits 6 and 0 of LSR.
transmitter_empty == uart.thr = <<>>
data_ready == uart.rx # <<>>

\* The code goes on to write the bytes, one after the other.
StartWrite(h, rest, locked) ==
    /\ Calls(h)
    /\ Becomes(h, [NoTask EXCEPT !.op = "write", !.rest = rest, !.locked = locked])
    /\ UNCHANGED <<uartVars, plicVars, setup, irq, requested, muted, events, power>>

\* Logger::write_str is called under the LOG mutex, by one hart at a time.
write_str(h) == (\A g \in Harts : ~ task[g].locked) /\ StartWrite(h, MESSAGE, TRUE)

\* Device::write takes no lock, and neither does try_write.
write(h) == StartWrite(h, <<Head(MESSAGE)>>, FALSE)

\* A hart has found the transmitter empty and will store its byte next.
Checked == races' = races + (IF \E g \in Harts : task[g].op = "write_data" THEN 1 ELSE 0)

try_write(h) ==
    /\ Calls(h)
    /\ IF transmitter_empty
       THEN /\ Checked
            /\ Becomes(h, [NoTask EXCEPT !.op = "write_data", !.rest = <<Head(MESSAGE)>>])
       ELSE UNCHANGED <<races, task>>
    /\ UNCHANGED <<uart, line, written, plicVars, setup, irq, requested, muted, events, power>>

\* Mutant of WaitTransmitter: write does not wait.
WaitNot(h) ==
    /\ Does(h, "write")
    /\ Checked
    /\ Becomes(h, [task[h] EXCEPT !.op = "write_data"])
    /\ UNCHANGED <<uart, line, written, plicVars, setup, irq, clientVars>>

\* write: `while !self.transmitter_empty() {}`.
WaitTransmitter(h) ==
    /\ Does(h, "write")
    /\ transmitter_empty
    /\ Checked
    /\ Becomes(h, [task[h] EXCEPT !.op = "write_data"])
    /\ UNCHANGED <<uart, line, written, plicVars, setup, irq, clientVars>>

\* The store, whatever happened since the check: two harts that checked before
\* either stored lose a byte.
write_data(h) ==
    /\ Does(h, "write_data")
    /\ LET rest == task[h].rest
       IN  /\ uart' = SetRegister(uart, 0, Head(rest))
           /\ written' = Append(written, Head(rest))
           /\ Becomes(h, IF Len(rest) = 1 THEN NoTask
                         ELSE [task[h] EXCEPT !.op = "write", !.rest = Tail(rest)])
    /\ UNCHANGED <<line, races, plicVars, setup, irq, clientVars>>

\* read: `while !self.data_ready() {}`, then read_data.  An
\* interrupt between the two may have taken the byte: an old one is read.
read(h) ==
    /\ Calls(h)
    /\ Becomes(h, [NoTask EXCEPT !.op = "read"])
    /\ UNCHANGED <<uartVars, plicVars, setup, irq, requested, muted, events, power>>

WaitData(h) ==
    /\ Does(h, "read")
    /\ data_ready
    /\ Becomes(h, [task[h] EXCEPT !.op = "read_data"])
    /\ UNCHANGED <<uartVars, plicVars, setup, irq, clientVars>>

TakeByte == uart' = [uart EXCEPT !.rx = IF @ = <<>> THEN @ ELSE Tail(@)]

read_data(h) ==
    /\ Does(h, "read_data")
    /\ TakeByte
    /\ Becomes(h, NoTask)
    /\ UNCHANGED <<line, written, races, plicVars, setup, irq, clientVars>>

-----------------------------------------------------------------------------
(* External interrupts *)

Handles(h, op) == power = "on" /\ irq[h].op = op
Continues(h, op) == irq' = [irq EXCEPT ![h].op = op]

TakeInterrupt(h) ==
    /\ Runs(h) /\ Notified(h)
    /\ Continues(h, "claim")
    /\ UNCHANGED <<uartVars, plicVars, setup, task, clientVars>>

\* claim: 0, that is None, when another hart was faster.  The client looks up
\* the driver by its interrupt_id.
claim(h) ==
    /\ Handles(h, "claim")
    /\ LET ids == Claimable(plic_context(h))
       IN  IF ids = {} THEN Continues(h, "idle") /\ UNCHANGED <<pending, service>>
           ELSE /\ pending' = pending \ {Best(ids)}
                /\ service' = service \cup {Best(ids)}
                /\ irq' = [irq EXCEPT ![h] =
                              [id |-> Best(ids),
                               op |-> IF Best(ids) = UART THEN "try_read" ELSE "finish"]]
    /\ UNCHANGED <<uartVars, priorities, enables, thresholds, setup, task, clientVars>>

\* handle_interrupt: `while let Some(c) = self.try_read()`.
TryRead(h) ==
    /\ Handles(h, "try_read")
    /\ Continues(h, IF data_ready THEN "drain" ELSE "finish")
    /\ UNCHANGED <<uartVars, plicVars, setup, task, clientVars>>

\* The byte S shuts the system down.  (The byte read is an old one if a read
\* on another hart was faster.)
Drain(h) ==
    /\ Handles(h, "drain")
    /\ TakeByte
    /\ power' = IF uart.rx # <<>> /\ Head(uart.rx) = S THEN "off" ELSE "on"
    /\ Continues(h, "try_read")
    /\ UNCHANGED <<line, written, races, plicVars, setup, task, requested, muted, calls, events>>

\* Mutant of finish: the guard is dropped instead.
finish_dropped(h) ==
    /\ Handles(h, "finish")
    /\ Continues(h, "idle")
    /\ UNCHANGED <<uartVars, plicVars, setup, task, clientVars>>

\* ClaimGuard::finish writes the id to the claim register; the controller
\* ignores the id of an interrupt that is not enabled for the context.
finish(h) ==
    /\ Handles(h, "finish")
    /\ service' = IF EnableBit(plic_context(h), irq[h].id) \in enables
                  THEN service \ {irq[h].id} ELSE service
    /\ Continues(h, "idle")
    /\ UNCHANGED <<uartVars, priorities, enables, thresholds, pending, setup, task, clientVars>>

-----------------------------------------------------------------------------

ClientCall(h) ==
    \/ \E id \in Sources : \/ LoadEnables(h, "enable", id)
                           \/ LoadEnables(h, "disable", id)
                           \/ \E p \in {0, 2} : set_priority(h, id, p)
    \/ \E t \in 0 .. 1 : set_threshold(h, t)
    \/ write_str(h) \/ write(h) \/ try_write(h) \/ read(h)

TaskStep(h) == StoreEnables(h) \/ WaitTransmitter(h) \/ write_data(h) \/ WaitData(h) \/ read_data(h)

IrqStep(h) == TakeInterrupt(h) \/ claim(h) \/ TryRead(h) \/ Drain(h) \/ finish(h)

DriversNext == \/ UartInit \/ PlicInit
               \/ Transmit \/ Receive \/ UartSignals \/ OtherSignals
               \/ \E h \in Harts : ClientCall(h) \/ TaskStep(h) \/ IrqStep(h)

\* The harts run, and the devices do what they promise; nothing calls the
\* drivers, and nothing arrives, by promise.
DriversFairness ==
    /\ WF_driverVars(UartInit \/ PlicInit)
    /\ WF_driverVars(Transmit)
    /\ WF_driverVars(UartSignals)
    /\ \A h \in Harts : WF_driverVars(TaskStep(h)) /\ WF_driverVars(IrqStep(h))

DriversSpec == DriversInit /\ [][DriversNext]_driverVars /\ DriversFairness

-----------------------------------------------------------------------------
(* Properties *)

\* The enable block holds exactly the pairs that were enabled and not disabled
\* since, in the controller's layout, although harts update its words by
\* reading and writing back and are interrupted in between: no call changes
\* the bit of another id or of another hart.
EnableExact ==
    enables = {EnableBit(Supervisor(pair[1]), pair[2]) : pair \in requested}

\* The line carries what was written, in order and without loss, as long as no
\* two harts were between the check of the transmitter and the store at once
\* (only the LOG mutex keeps them apart, and only in write_str), and each time
\* that happens costs at most one byte.  Nothing that init stores in registers
\* that share their address with the data register goes out; after init the
\* port has the data bits, divisor and receive interrupt the code asked for.
SentAsWritten ==
    /\ races = 0 => line \o uart.thr = written
    /\ Len(written) <= Len(line \o uart.thr) + races
    /\ setup >= Len(InitWrites) =>
          /\ uart.lcr = 3 /\ uart.fcr = 1 /\ uart.ier = 1
          /\ uart.dlm * 256 + uart.dll = divisor

\* An interrupt the client wants and that has an effect left to wait for.
Wanted(id) ==
    /\ power = "on" /\ Ready /\ id \notin muted
    /\ \E h \in Harts : <<h, id>> \in requested /\ thresholds[h] = 0
    /\ IF id = UART THEN uart.rx # <<>> ELSE id \in pending

\* Input is drained and interrupts are taken, again and again: every claim is
\* completed, whichever harts race for it, and no other source stands in the
\* way.  (The largest id needs a priority from the client first.)
Served == \A id \in Sources : Wanted(id) ~> ~ Wanted(id)
=============================================================================
