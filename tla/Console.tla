------------------------------ MODULE Console -------------------------------
(***************************************************************************)
(* The input side of the console: the receive interrupt of the serial      *)
(* device that stores bytes in a ring (components/drivers/serial/serial.c, *)
(* opened with RT_DEVICE_FLAG_INT_RX), the callback that releases the      *)
(* shell's semaphore, and the shell thread that reads one byte at a time   *)
(* and waits for the semaphore when there is none                          *)
(* (components/finsh/shell.c).                                             *)
(*                                                                         *)
(* The semaphore only says "look again": one interrupt may bring several   *)
(* bytes and releases it once, and the shell reads bytes without taking    *)
(* it.  Steps of the shell thread happen only outside the interrupt.       *)
(***************************************************************************)
EXTENDS Integers, Sequences

CONSTANTS Bytes,      \* the bytes the line can bring
          BufSz,      \* serial->config.bufsz
          ValueMax    \* the largest value of the 16-bit counter of rx_sem

ASSUME ConsoleAssumption == BufSz \in Nat /\ BufSz > 1 /\ ValueMax \in Nat \ {0}

VARIABLES line,    \* the data register: at most one byte (RXNE)
          buffer, put, get, full,      \* struct rt_serial_rx_fifo
          isr,     \* where the receive interrupt is, "out" when not running
          ind,     \* rx_indicate is set
          value,   \* rx_sem.value
          sh,      \* where the shell thread is
          ch       \* the byte finsh_getchar returned last

fifo == <<buffer, put, get, full>>
vars == <<line, fifo, isr, ind, value, sh, ch>>

Indices == 0 .. BufSz - 1

\* At boot the device is closed; it is opened with an empty FIFO.
Init == /\ line = {}
        /\ buffer \in {[i \in Indices |-> b] : b \in Bytes}
        /\ put = 0 /\ get = 0 /\ full = FALSE
        /\ isr = "out" /\ ind = FALSE
        /\ value = 0
        /\ sh = "open"
        /\ ch = buffer[0]

\* "index += 1; if (index >= bufsz) index = 0".
Advance(i) == IF i + 1 >= BufSz THEN 0 ELSE i + 1

Empty == get = put /\ ~full

\* rx_length, as the interrupt computes it from the two indices.
Length == IF put >= get THEN put - get ELSE BufSz - (get - put)

\* A byte arrives; one that finds the register occupied is lost (overrun).
Arrive(b) == /\ line = {}
             /\ line' = {b}
             /\ UNCHANGED <<fifo, isr, ind, value, sh, ch>>

-----------------------------------------------------------------------------
(* The interrupt. *)

\* Bound: the counter does not wrap between a read that found nothing and the
\* take that follows it; it may wrap anywhere else.
NoWrapBeforeTake == sh = "take" => value < ValueMax

\* uart_isr: RXNE is set and its interrupt enabled, which the open did.
Enter == /\ isr = "out" /\ sh # "open" /\ line # {}
         /\ NoWrapBeforeTake
         /\ isr' = "getc"
         /\ UNCHANGED <<line, fifo, ind, value, sh, ch>>

\* Mutant: a full ring does not discard its oldest byte.
Store_KeepsOldest ==
    /\ isr = "getc"
    /\ \E b \in line : buffer' = [buffer EXCEPT ![put] = b]
    /\ line' = {}
    /\ put' = Advance(put)
    /\ full' = (full \/ Advance(put) = get)
    /\ UNCHANGED <<get, isr, ind, value, sh, ch>>

\* getc returned a byte: store it; when the ring is full discard the oldest.
Store == /\ isr = "getc"
         /\ \E b \in line : buffer' = [buffer EXCEPT ![put] = b]
         /\ line' = {}
         /\ put' = Advance(put)
         /\ \/ Advance(put) = get /\ get' = Advance(get) /\ full' = TRUE
            \/ Advance(put) # get /\ UNCHANGED <<get, full>>
         /\ UNCHANGED <<isr, ind, value, sh, ch>>

\* rt_sem_release: the waiting shell gets the token, or the count grows, and wraps.
Release == \/ sh = "asleep" /\ sh' = "read" /\ UNCHANGED value
           \/ sh # "asleep" /\ value' = (value + 1) % (ValueMax + 1) /\ UNCHANGED sh

\* Mutant: only the first byte of an empty ring is announced.
Indicate_FirstByte ==
    /\ isr = "getc" /\ line = {}
    /\ isr' = "out"
    /\ \/ ind /\ Length = 1 /\ Release
       \/ ~(ind /\ Length = 1) /\ UNCHANGED <<value, sh>>
    /\ UNCHANGED <<line, fifo, ind, ch>>

\* getc returned -1: call rx_indicate (finsh_rx_ind) if it is set and there
\* is something to read, and leave.
Indicate == /\ isr = "getc" /\ line = {}
            /\ isr' = "out"
            /\ \/ ind /\ Length > 0 /\ Release
               \/ ~(ind /\ Length > 0) /\ UNCHANGED <<value, sh>>
            /\ UNCHANGED <<line, fifo, ind, ch>>

Interrupt == Enter \/ Store \/ Indicate

-----------------------------------------------------------------------------
(* The shell thread. *)

\* finsh_set_device: open the device, which enables the receive interrupt ...
Open == /\ isr = "out" /\ sh = "open"
        /\ sh' = "set"
        /\ UNCHANGED <<line, fifo, isr, ind, value, ch>>

\* Mutant: the shell waits for the semaphore before it reads for the first time.
SetRxIndicate_Waits == /\ isr = "out" /\ sh = "set"
                       /\ ind' = TRUE
                       /\ sh' = "take"
                       /\ UNCHANGED <<line, fifo, isr, value, ch>>

\* ... and only then install the callback.
SetRxIndicate == /\ isr = "out" /\ sh = "set"
                 /\ ind' = TRUE
                 /\ sh' = "read"
                 /\ UNCHANGED <<line, fifo, isr, value, ch>>

\* finsh_getchar reads one byte (_serial_int_rx with length 1).
ReadByte == /\ isr = "out" /\ sh = "read" /\ ~Empty
            /\ ch' = buffer[get]
            /\ get' = Advance(get)
            /\ full' = FALSE
            /\ sh' = "busy"
            /\ UNCHANGED <<line, buffer, put, isr, ind, value>>

\* ... or finds none, interrupts being enabled again before it takes rx_sem.
ReadNone == /\ isr = "out" /\ sh = "read" /\ Empty
            /\ sh' = "take"
            /\ UNCHANGED <<line, fifo, isr, ind, value, ch>>

\* rt_sem_take(&shell->rx_sem, RT_WAITING_FOREVER).
Take == /\ isr = "out" /\ sh = "take"
        /\ \/ value > 0 /\ value' = value - 1 /\ sh' = "read"
           \/ value = 0 /\ sh' = "asleep" /\ UNCHANGED value
        /\ UNCHANGED <<line, fifo, isr, ind, ch>>

\* The shell is done with the byte: echo, line editing or a whole command.
Handle == /\ isr = "out" /\ sh = "busy"
          /\ sh' = "read"
          /\ UNCHANGED <<line, fifo, isr, ind, value, ch>>

Shell == Open \/ SetRxIndicate \/ ReadByte \/ ReadNone \/ Take \/ Handle

Next == (\E b \in Bytes : Arrive(b)) \/ Interrupt \/ Shell

Spec == Init /\ [][Next]_vars

\* The interrupt handler runs, and its loop is faster than the line: again
\* and again getc finds the register empty, so the loop ends.  The shell
\* thread gets the processor again and again between interrupts.
FairSpec == Spec /\ WF_vars(Interrupt) /\ SF_vars(Indicate) /\ SF_vars(Shell)

-----------------------------------------------------------------------------
(* Properties. *)

\* Every variable has its type, the indices of the ring stay inside it.
TypeOK == /\ \E b \in Bytes : line \in {{}, {b}}
          /\ buffer \in [Indices -> Bytes]
          /\ put \in Indices /\ get \in Indices /\ full \in BOOLEAN
          /\ isr \in {"out", "getc"} /\ ind \in BOOLEAN
          /\ value \in 0 .. ValueMax
          /\ sh \in {"open", "set", "read", "take", "busy", "asleep"}
          /\ ch \in Bytes

\* The bytes between the two indices, oldest first.
Content == [i \in 1 .. Length |-> buffer[(get + i - 1) % BufSz]]

Queue == INSTANCE LossyQueue WITH Size <- BufSz - 1, queue <- Content, got <- ch

\* rt_hw_serial_isr and _serial_int_rx together implement a queue that keeps
\* the newest bufsz - 1 bytes in order: a full ring loses its oldest byte
\* only, never the order, and the shell never reads a byte twice.
IsLossyQueue == Queue!Spec

\* Lost wakeup: whenever the interrupt is out and the shell waits for rx_sem,
\* there is no byte in the ring; finsh_getchar finds the ring empty before it
\* takes the semaphore, bytes may come between the two, and the counter may have
\* wrapped to 0 during a long command.
NoByteWaits == TypeOK /\ (sh = "asleep" /\ isr = "out" => Empty)

\* A byte in the ring, even one stored before the callback was installed,
\* makes finsh_getchar return.
InputHandled == ~Empty ~> sh = "busy"
=============================================================================
