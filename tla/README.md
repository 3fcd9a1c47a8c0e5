# Verification of an RT-Thread firmware for the STM32F429

The firmware in `src/` runs the real-time kernel RT-Thread 4.0.2 on one core, with lwIP,
a serial console, and an application whose main service is a firmware update over TCP.
This directory holds TLA+ modules that model its concurrent parts, TLC configurations
that check them on small instances, and proofs, checked by TLAPS, of the most important
properties for every value of the constants. `PROJECT.json` is the index: components,
runs, mutants, the source lines behind each definition, findings, hazards, theorems.

## 1. The system and its parts

| Part | Source | State | Operations | Here |
|---|---|---|---|---|
| IPC wait lists | `rt-thread/src/ipc.c`, `thread.c` | the list of suspended threads of an object; a thread's `stat`, `error`, timer | suspend in FIFO or priority order, resume the first, resume all, timeout | `IpcThread` |
| Semaphore | `ipc.c` | 16-bit `value`, list | take, trytake, release, reset, delete, detach | `Semaphore` |
| Mutex | `ipc.c` | `value`, `owner`, `hold`, `original_priority`, list | take (nested, inheriting), release (handing over), delete, detach | `Mutex` |
| Event | `ipc.c` | bit set, list; each waiter's `event_set`, `event_info` | send, recv (AND/OR, CLEAR), reset, delete, detach | `Event` |
| Mailbox | `ipc.c` | ring, offsets, `entry`, two lists | send, send_wait, recv, reset, delete, detach | `Mailbox` |
| Message queue | `ipc.c` | chained slots, free list, head, tail, `entry`, two lists | send, send_wait, urgent, recv, reset, delete, detach | `MessageQueue` |
| Work queue | `components/drivers/src/workqueue.c` | work list, current work, pending flags, worker thread | submit, critical work, cancel, cancel sync, cancel all, delayed works, destroy | `WorkQueue` (delayed works and destroy left out) |
| Firmware update | `applications/update.c` | header and page buffers, counters, flash pages, connection | accept, receive header / size / packet, write page, write information page, reset | `Update` |
| Scheduler, threads, idle | `scheduler.c`, `thread.c`, `idle.c`, `clock.c` | ready lists and bitmap, scheduler lock, time slices, defunct list | schedule, startup, suspend, resume, sleep, yield, change priority, critical sections, exit, delete, detach, reap | `Scheduler` |
| Timers and tick | `timer.c`, `clock.c` | ordered lists of hard and soft timers, 32-bit tick, timer thread | start, stop, control, detach, delete, check, soft check | `Timer` |
| Ethernet | `drivers/test_eth.c`, lwIP's `ethernetif.c` | two descriptor rings shared with the DMA, handle lock, mailboxes of two threads, link flags | interrupt, receive, transmit, link output, link poll | `Ethernet` |
| Console input | `components/drivers/serial/serial.c`, `drivers/drv_usart.c`, `components/finsh/shell.c` | receive ring, indication callback, semaphore of the shell | interrupt, open, set indication, read, take | `Console` |
| Everything else | memory, ring buffer, lwIP, file systems, HAL, start-up | | | not modelled, section 9 |

How they interact. Threads and interrupt handlers call the IPC objects; a call that must
wait suspends its thread, with a timer if the wait is timed, and calls `rt_schedule()`.
The tick interrupt runs due thread timers (`rt_thread_timeout`), which remove a thread
from whatever list it is in. The work queue waits with a semaphore and with bare
`rt_thread_suspend`/`rt_thread_resume`; the update thread uses a mutex, the heap, the
sockets of lwIP and a flash device; the network threads talk through mailboxes. The timer
thread sleeps on a hard timer to serve the soft ones; the Ethernet and serial interrupts
wake their threads through a mailbox and a semaphore.

What is hard. The kernel protects its data by disabling interrupts, so code between two
such sections may be interleaved with everything: a wakeup may meet a timeout, a thread
that was woken may find its message taken by a faster one, a list that was tested may be
empty when it is used, an object may be deleted under its waiters. Messages are copied
with interrupts enabled. The network splits, delays and drops; power fails between two
page writes.

What must hold. Exclusion and correct bookkeeping of the mutex; no token, message, slot
or event lost, invented or consumed twice; no thread left suspended when its condition
holds; the most urgent waiter first; inherited priority given back; mailbox and message
queue are queues; no work listed twice or re-entered; an update marked valid only when
complete, and a packet acknowledged only when kept; timed waits, synchronous
cancellations and undisturbed uploads end. Timer lists stay ordered across the wrap of
the tick, and no timer is served early or after it was stopped; the bitmap is that of the
ready queues, and no preemption is missed; frames go in and out whole and in order, and
neither a frame, a link change nor a typed byte is forgotten.

## 2. Modules and their correspondence to the code

The step. One section that runs with interrupts disabled, or one unprotected access, is
one step; between two steps everything else may happen. A thread is its position inside
the call it is in. `rt_schedule()` appears as the point where a call is left suspended
and continues when `stat` is "ready" again: the models allow every ready thread to run,
which includes what the priority scheduler does, for every safety property.

**IpcThread** holds `stat`, `error` and `timer` of the threads and the list operators.
`ListSuspend` is `rt_ipc_list_suspend`: `Position` is the search for the first less
urgent thread, `Linked` the insertion. `Suspend`, `Resume`, `ThreadTimeout` are
`rt_thread_suspend` with the timer start, `rt_thread_resume`, `rt_thread_timeout`;
`ResumeError` is a pass of `rt_ipc_list_resume_all`.

**Semaphore**: `Take` is the first section of `rt_sem_take` (counter, failure or
suspension), `Return` what follows `rt_schedule()`. `Release`, `Reset`, `Timeout` are one
section each. The counter wraps at `ValueMax`. `issued` and `acquired` are history.

**Mutex** is about a set of mutexes, since a thread may hold several. The branches of
`rt_mutex_take` are `TakeNested`, `TakeFree`, `TryFails` and `TakeWaits` (with
`Inherited`), those of `rt_mutex_release` `ReleaseRefused`, `ReleaseNested` and
`ReleaseLast` (with `Restored` and the hand-over). `depth` is history: how often a thread
is inside, by the results its calls returned.

**Event**: `Send` is the whole of `rt_event_send`, its loop over the waiters the fold
`Walk` of `WalkStep`, which tests a waiter against the set its predecessors left and
clears on the way. A receive is `RecvNow`, `RecvFails`, or `RecvWaits` and `Return`.

**Mailbox** and **MessageQueue**: `SendSection` and `RecvSection` are what a call does
each time it gets to look at the object; `Send`/`Recv` start with one and `Retry` repeats
it after a wakeup, with less time left. In the message queue a send claims a slot,
copies, and links it in three steps (`Claim`, `CopyIn`, `Link`), a receive unlinks,
copies, and gives the slot back (`Unlink`, `CopyOut`, `GiveBack`). **BoundedQueue** is
the abstract specification both implement.

Deletion is the same in all five: `DeleteCheck` is the emptiness test of
`rt_ipc_list_resume_all` with interrupts enabled, `DeleteResume` its protected body,
`DeleteFree` the removal of the object. `del = "fault"` is the state after the body ran
on an empty list: the list head was taken for a thread and the assertion of
`rt_thread_resume` stops the kernel. `del = "stale"` is a woken thread that goes back to
a mailbox or queue which is gone. The models stop there.

**WorkQueue**: `Test`, `Suspend`, `Take`, `Finish`, `Complete` are the steps of the worker;
the test and the suspension are unprotected, and so separate. A submit is a protected
section (`Submit`, `CriticalWork`) and, if no work is being executed, a later `Resume`.
`rt_workqueue_cancel_work_sync` calls `rt_sem_take` with interrupts disabled: the switch
to another thread is taken only when they are enabled again at the end of the function,
so all of it is one step and the client then waits.

**Update** is `tcp_update_thread_entry` with `blocking_lwip_recv`. A byte is the pair of
its frame and its place in it, so that what is in a buffer or in flash can be compared
with what was sent. A header is recognised when its three bytes belong to one frame and
arrive in one receive, the others are answered with NAK, as in the code; that three
bytes of data happen to look like a header is left out. The peer and TCP are external:
a stop-and-wait sender that starts again from the first frame on a new connection, and
an ordered stream that arrives in pieces of any size, late, or not at all. `refused`
counts the frames answered with NAK or given up when the retries ran out.

**Timer** has both lists as sequences, the tick modulo `TickValues`, and compares as
`timer.c` does (`Before`, `Due`). The tick interrupt is `Tick`, then `Check` per due timer
(`Fire`, with a timeout function that may start or stop its own timer, or `TimeOut` for
the timer thread), then `CheckEnd`; nothing else happens in between (`isr`). A start is
`StartRemove`, `StartCompute`, `StartInsert`, `StartResume`, a stop `StopTest`,
`StopRemove`, `StopClear`, with ticks between the steps. The timer thread is
`NextTimeout`, `Suspend` or `Delta` and `Delay`, then `CheckSoft`, `Serve`, `Return`,
`Finish`, `Leave`; `n` is its place in the list, which a timeout function can make stale.
`left` is history: the ticks still to pass, counted without wrapping.

**Scheduler** keeps what `rt_schedule` reads and writes in one record `k`, on which
`InsertThread`, `RemoveThread`, `Highest`, `Keeps`, `Dispatch` and `Schedule` compute as
the C functions do. Only the current thread steps, besides the interrupts `Tick`,
`Timeout` and `ResumeFromInterrupt`; `todo` is what it has still to do in its function:
the call of `rt_schedule`, or the later sections of a deletion.

**Ethernet**: a descriptor is its OWN bit and what the DMA or the driver put there. `Irq`
and `IrqEnd` are the handler up to and after the mail. The receive thread is `RxRecv` ...
`RxDone`, the transmit thread `TxRecv` ... `TxAck`, `__HAL_LOCK` being a test and a later
write (`RxTest`/`RxLock`, `TxTest`/`TxLock`), since nothing protects it. `Store` and `Send`,
the DMA engine, are external.

**Console**: `Enter`, `Store`, `Indicate` are the interrupt, byte by byte; `Open`,
`SetRxIndicate`, `ReadByte`, `ReadNone`, `Take`, `Handle` the shell thread. **LossyQueue**
is the abstract specification: a queue that forgets its oldest byte when it is full.

## 3. Runs

One invariant of each module's run has the type invariant as a conjunct, except for the
semaphore and the mutex, where types are proved (section 5).

| Run | Checks | Instance |
|---|---|---|
| `semaphore` | no lost wakeup; tokens conserved; most urgent first; timed takes return | 3 threads, 2 priorities, 4 tokens, reset, deletion |
| `mutex` | exclusion; `owner`/`hold` bookkeeping; wait lists; inheritance and its end; the most urgent thread's take returns | 3 threads of 3 priorities, one mutex, nesting to 3, deletion |
| `event` | one walk misses no waiter; a clearing receive consumes; what is reported was sent | 3 threads, 2 bits, each sent once |
| `mailbox` | implements `BoundedQueue`; no sender or receiver forgotten | 3 threads, 2 slots, 2 messages, deletion |
| `message_queue` | the same, and slots neither lost nor shared, tail and count right, copies undisturbed | 3 threads, 2 slots, 2 messages, urgent, deletion |
| `work_queue` | no work listed twice or while executed; synchronous cancellation returns | 3 clients, 2 works |
| `update` | acknowledged packets are kept; the information page only over a complete image; receives stay in the buffer; an undisturbed upload ends | 3 packets, pages of 2, 3 tries, 2 failures, 1 refused frame |
| `timer` | both lists in order; a tick leaves no due hard timer; none served early or after a successful stop | 1 hard, 1 periodic and 1 one-shot soft timer, 10 tick values |
| `scheduler` | queues and bitmap exact; no missed preemption; a running timer means a suspended thread; time slices rotate | 3 threads of 2 priorities and the idle thread |
| `ethernet` | received frames taken whole and none forgotten; segments sent as given; sending never stuck; link state taken over | 3 receive and 2 transmit descriptors, frames of 1 or 2 segments, mailbox of 1 |
| `console` | implements `LossyQueue`; the shell never sleeps over a byte; a byte makes `finsh_getchar` return | ring of 4, 2 byte values, counter to 3 |

One run, `update_lost`, shows that the code does not do what its comment says: the header
loop treats a lost connection as a timeout for ever; the thread never accepts another
connection and never releases its lock.

### Bounds

Three threads are needed for the races of interest: a waiter, a faster competitor and
a thread that wakes them, with a timer or deletion as the fourth actor. Two slots are the
smallest ring or chain with a first, a last and a wrap; two messages tell an order apart.
`MaxIssued`, `MaxSent`, `MaxDepth`, `MaxDrops` and `MaxRefused` bound what would
otherwise grow for ever; each is a guard of the action that counts. Four tokens exceed
what three threads can hold at once. Three packets with two per page give a full page and
a partial last one; packets of two bytes can be split; two failures allow one in a restarted
upload. `Event` is run with the two bits sent once each, which is enough for two clearing
waiters to compete for one bit. Symmetry is used where all threads have one priority
(`event`, `mailbox`, `message_queue`), in runs without liveness.

`timer`: ten tick values are the fewest for which timeouts of 1 and 2 ticks, one tick of
lateness and half the range fit the assumption on the constants; they wrap in every
behaviour. `MaxCalls` and `MaxLate` bound the calls in progress and how far the timer
thread or an interrupted caller falls behind. A view drops the timeouts of timers outside
the lists, which are set again before they are read. `scheduler`: two equals and a more
urgent thread are what preemption, slices and the lock need; a slice of two ticks tells
a tick inside it from its end. `ethernet`: three receive descriptors hold a frame of two
segments and another one, two transmit descriptors exactly the frame that is sent;
a mailbox of one entry is full as soon as one mail waits. `console`: a ring of four
wraps and overflows; `ValueMax` is the width of the counter, which wraps wherever
`NoWrapBeforeTake` does not forbid it.

Deadlock is checked in `timer`, `scheduler`, `ethernet` and `console`. The other runs
contain states in which the system may stop: a deleted object, a fault, the bound on the
tokens, the reset of the processor.

### Fairness

- `Semaphore`: weak fairness of `Timeout` and `Return`: the tick interrupt goes on for
  ever and a ready thread gets the processor. A thread that is never the most urgent one
  would not; the property is about the semaphore, not about an overloaded system.
- `Mutex`: the same, and strong fairness of the release at each nesting depth: an owner
  gives a mutex back after finitely many nested takes, an obligation of the application.
  In priority order only the most urgent thread is promised the mutex.
- `WorkQueue`: the worker runs when it is ready, work functions return, and a submit that
  was begun is ended.
- `Update`: the thread goes on when it can, and the peer connects, sends and reads
  answers. Nothing is assumed of timeouts, losses or power failures.
- `Scheduler`: the tick goes on for ever, a thread ends the function it is in, and strong
  fairness of `ExitCritical`: a critical section is left, an obligation of the application.
- `Console`: the interrupt runs, its loop ends because the processor is faster than the
  line (strong fairness of `Indicate`), and the shell gets the processor again and again.

## 4. Properties the code does not have

These are defined in the modules and were checked with TLC, each with the cfg of the run
of its module, `Spec` as specification, the named constants changed and the property as
the only one. Each has a counterexample. What the passing runs say is limited by them:
`mutex` checks `PriorityRestored` with one mutex only, `scheduler` deletes no thread whose
timer runs, and `NoFrameForgotten` excepts the call that found the handle locked. The
other four situations do occur in the passing runs, which state no property about them.

| Property | Change to the cfg | What happens |
|---|---|---|
| `ResumeAllFindsThread` (`Semaphore`) | none | `rt_ipc_list_resume_all` tests the list before it disables interrupts (`ipc.c:163`); a timeout or release in between leaves it without the "next suspended thread" of `ipc.c:168` |
| `PriorityRestored` (`Mutex`) | `Mutexes = {"m1", "m2"}`, `HoldMax = 1`, `MaxDepth = 1`, `Deletable = {}` | a thread that takes a second mutex while boosted through the first, and releases the first one first, keeps the boosted priority when it owns nothing ("change the owner thread to original priority", `ipc.c:833`) |
| `WorkToDo` (`WorkQueue`) | none | the worker takes the head of its list without testing it again (`workqueue.c:70`); a cancellation in between leaves no "work to do with" |
| `SleepsWithoutTimers` (`Timer`) | none | a soft timer started between the look at the list and the suspension resumes nobody, and the thread sleeps with a timer in its list ("no software timer exist, suspend self.", `timer.c:649`); so it does when a timeout falls on `RT_TICK_MAX` |
| `YieldGivesWay` (`Scheduler`) | none | `rt_thread_yield` does not set the yield flag, so a caller with an equal in the queue stays RUNNING; `thread.c:468` says it "is still in READY state" |
| `QueuesExact` (`Scheduler`) | `DeletesTimed = TRUE` | `rt_thread_delete` detaches the timer after it has left the queues (`thread.c:443`, `447`); a timeout in between makes the deleted thread ready again |
| `ReceivesAll` (`Ethernet`) | `TxSegs = {1, 2}`, `PoolFails = FALSE` | `eth_rx` returns NULL because the transmit thread holds the handle lock (`test_eth.c:1216`); the frame stays until the next interrupt, though the loop is to "receive all of buffer" (`ethernetif.c:682`) |

## 5. Proofs

`IpcThreadProofs` has the lemmas on the wait lists: insertion at any position, removal
and taking the head keep a list a sequence of distinct threads and change its members as
expected. They are proved with the arithmetic of indices, for every list. With
`RT_IPC_FLAG_PRIO` all of them also keep a list sorted by priority; for the insertion
(`ListSuspendSorted`) the search must find the first less urgent thread, which exists
because a set of numbers has a least element.

`SemaphoreProofs` proves, for any set of threads, any priorities, both orders and any
width of the counter, `TypeCorrect`, `ListAlwaysConsistent` and `WakeupsNotLost`. The
inductive invariant is `TypeOK /\ ListConsistent /\ NoLostWakeup`: that no wakeup is lost
needs the list to be exactly the suspended threads, because a release looks only at the
list. `TokensAlwaysConserved` adds two assumptions, finitely many threads and no more
tokens than the counter holds (`MaxIssued <= ValueMax`); without the second it is false,
since the counter wraps. It counts `Granted`, and so needs the cardinality theorems: a
release moves one thread into it, a return one out of it, and a timeout none, since a
thread that is suspended is not granted. `MostUrgentFirst` is the action property
`UrgentFirst`: the list is always sorted (`ListSorted`, with the invariant above), and a
release wakes its head.

`MutexProofs` proves, for any sets of threads and mutexes, any priorities, both orders and
deletable mutexes, `TypeCorrect`, `MutexExcludes`, `HoldAlwaysCounts`, `FreeHasNoWaiter`
and `ListsAlwaysConsistent`. Exclusion follows from `HoldCounts` (who is inside, and how
often, is what `owner` and `hold` say, a hand-over that the new owner has not seen yet
included). `HoldCounts` is inductive only together with `ListsConsistent` and
`FreeMeansNoWaiter` (a hand-over must go to a thread that waits for this mutex and does
not own it) and `WaiterOutside` (a thread that waits for a mutex is not inside it). The
assumption is `MaxDepth <= HoldMax`: the application does not nest deeper than the 8-bit
counter allows.

The priorities are right only for threads that take one mutex at a time (section 4), so
`PriorityAlwaysRestored` and `OwnerAlwaysInherits` have the hypothesis `[]OneAtATime`: a
thread that owns a mutex owns no other and waits for no other. With a single mutex it is
no restriction (`SingleMutexPriorities`). The invariant is `PriorityInv`: besides the two
properties, `orig` is the priority the owner was created with (`OriginalKept`), and with
`RT_IPC_FLAG_PRIO` the lists are sorted, without which a hand-over could make a less urgent
thread the owner while a more urgent one waits. So inheritance is stated for that flag
only. The priority of a waiter does not change while it waits, since it owns nothing:
that is where the discipline is needed. TLC finds `OneAtATime => PriorityInv` true with
two mutexes and three threads under both flags.

`ConsoleProofs` proves, for any size of the ring and any width of the semaphore, that no
byte waits in the ring while the shell sleeps and the interrupt is out (`NoByteEverWaits`)
and that the ring implements `LossyQueue` (`RingIsLossyQueue`). The shell tests the ring
and takes the semaphore in two steps, so the invariant needs `TakeInv`: between the two
there is a token for the bytes that came since. The refinement maps the indices to the
sequence `Content` between them; `StoreRefines` and `ReadRefines` show that the step of an
index is `Put` (with the loss of the oldest byte if the ring is full) or `Get`.

`MailboxProofs` proves, for any finite set of threads, any priorities, both orders, any
size and with or without a deletion, that the mailbox implements `BoundedQueue`
(`MailboxIsQueue`) and that no thread stays suspended while there is a message or a slot
that nobody else has been woken for (`NobodyForgotten`). `BaseInv` says that the lists are
the suspended receivers and senders, and that `in` is `entry` places ahead of `out` modulo
the size. `NobodyForgotten` compares `entry` with the number of woken threads: a wakeup
adds one to it, the section a woken thread then runs takes one away, and a timeout finds
the thread not woken. It is a cardinality argument, hence the finite set.

`MessageQueueProofs` proves, for any finite set of threads, any priorities, both orders, any
number of slots and with or without a deletion, the four safety properties of the run:
`SlotsNeverLost`, `CopiesUndisturbed`, `MessageQueueIsQueue` and `NobodyForgotten`.
`SlotsPartitioned` and the refinement speak of `Chain(p)`, the slots met from `p` along
`next`, which is a choice among sequences. The proof carries the two sequences along
instead: `State(f, q)` says that `f` is the list at `free` and `q` the one at `head`
(`LinkInv`), and each step gives the next pair. Only at the end `ChainUnique` shows that a
chain is determined by its start, by the least index at which two would differ, and so is
`Chain`. What makes it inductive is about the calls in the middle of a copy, when
interrupts are enabled: `HeldInv` (every slot is in one of the lists or held by exactly one
call) and `EndsInv` (a sender about to link has a slot whose `next` is `RT_NULL`, so that
linking behind the tail ends the list). That `rt_mq_control` moves the whole queue to the
free list, in one section, is `MoveList`. The
refinement reads `BoundedQueue`'s messages off the slots (`Bytes`): linking is `Put` or
`PutFirst`, unlinking `Get`; claiming, copying and giving back are stutters, because nobody
else writes to a slot a call holds. `Remembered` counts woken threads as in the mailbox; the
number of free slots stands for the space, since a slot that is being copied is in neither
list.

`EthernetProofs` proves, for rings and a mailbox of any size and frames of any number of
segments that fit into the rings: `TakesWholeFrames`, `ForgetsNoFrame`,
`SendsWhatWasGiven`, `NothingStopsSending` and `TakesLinkOver`. `Inductive` has four parts.
`RecvInv` describes the receive ring from its oldest segment (`RingAt`: the DMA owns
exactly what lies behind the filled descriptors; `FramesAt`: first and last marks delimit
frames, and the frame that arrives fits; `PlaceInv`, `MetAt`: where the thread is in its
scan, across calls that gave up in the middle) and says that a frame left there has an
interrupt or a mail to come. `SendInv` describes the transmit ring the same way and finds
the one message of the caller in exactly one place. `LinkingInv` is the link, and
`SharedInv` who can hold `__HAL_LOCK`, which both threads test and set without protection
and so may both hold. The descriptors are reasoned about by their distance from a place in
the ring (`On`), with the wrap in lemmas of its own.

`SchedulerProofs` proves, for any finite set of threads, any priorities, time slices and
depth of the scheduler lock, `QueuesAlwaysExact`, `PreemptionNeverMissed` and
`TimeoutFindsSuspended`, all three under the hypothesis that no thread is deleted while its
timer runs (`~DeletesTimed`); without it the queues are not exact (section 4). The
operations on `k` are treated first, as functions (`InsertLists`, `RemoveLists`,
`ScheduleLists`: `rt_schedule` does nothing or switches to a queued thread, and leaves no
more urgent one queued), then what each operation of `thread.c` does to `Good`, then one
lemma per action. `Good` strengthens the three properties by what a deletion under way
means (`DeleteInv`: the deleted thread has no timer and has left the queues for good,
unless it deletes itself; one thread deletes it, and is not itself deleted by another) and
by the idle thread being ready or running, without which `rt_schedule` could find nothing
to switch to. `NestInv` is why a locked scheduler never has a current thread that is
suspended.

Each proof has one lemma per action or group of similar actions and one step per conjunct
that the action can disturb. TLC finds every inductive invariant (`BaseInv` in
`MailboxProofs` and `MessageQueueProofs`, `IInv` elsewhere) true on the instance of its
run: a module that extends the `MC` module and the proof module, checked with the `.cfg`
of the run and the invariant in place of its properties, repeats this. For the message
queue the two sequences of `BaseInv` are then `Chain(free)` and `Chain(head)`.

Two facts come from the library of theorems, that a set of numbers has a least element and
how the cardinality of a set changes. Lemmas before the place where a module brings the
library in have them as hypotheses (`WellOrdered`, `Counted`), which `LeastNumber` and
`WokenCount` discharge.

## 6. Only model-checked

Liveness (fairness and ENABLED are out of the prover's reach): `TimedTakeReturns`,
`TakeReturns`, `CancelSyncReturns`, `TurnComes`, `InputHandled` and the end of an upload. Of the safety properties, those of `Event`,
`WorkQueue`, `Update` and `Timer`. `Event` folds over the waiters and `Timer` searches and
orders its lists by a comparison that wraps: what such a function returns for every list
needs an induction over data. `WorkQueue` and `Update` have no such obstacle, but no
theorem is written about them: the proofs are about the objects whose lists, pools and
rings can have any size, where a small instance says least.

Several mutexes at once are covered by the proofs of `MutexProofs` only, not by the run;
`PriorityRestored` is false there without `OneAtATime`. A deletion of a thread whose timer
runs is in neither the scheduler's run nor its proofs.

## 7. Abstractions

- The processor: one core; an interrupt handler is an action that may happen between any
  two steps. Outside `Scheduler`, priorities order wait lists and inheritance, not who
  runs next.
- In the kernel objects and the scheduler the timer of a thread is active or not; an
  active one may expire at any step. What start and stop do is in `Timer`.
- `Timer`: a timeout function acts on its own timer only, each timer has one caller at
  a time, and interrupts start no soft timers. `random_nr` is irrelevant with one list
  level.
- `Scheduler`: a direct `rt_thread_suspend` or `rt_thread_resume` is one step, as it is
  inside the kernel objects; a detached static thread may be initialised again at once;
  cleanup functions and idle hooks do nothing.
- `Ethernet`: `heth->State` is not modelled, nothing on these paths tests it; the
  transmit and error branches of the handler are not enabled; one lwIP thread sends.
- `Console`: one device, opened once and never closed; output is polled.
- Signals are not compiled, so `-RT_EINTR` does not occur. Hooks, logging and parameter
  assertions are left out. `detach` and `delete` differ in who owns the memory only.
- The remaining time of a woken sender or receiver is "some" or "none".
- `rt_malloc` in the update thread is taken to succeed, the listening socket to be set
  up, and nobody deletes the thread.

## 8. Hazards outside the models

`PROJECT.json` lists the hazards the runs are aimed at. Besides them the code has these,
which no model covers: a second caller of `ethernetif_linkoutput` shares `tx_ack` with the
first; a mutex nested 256 times wraps its counter; a second upload overwrites the pages of
an image still marked valid; `rt_malloc` failing in the update thread; direct calls of
`rt_thread_resume` by two threads at once (`thread.c:774`, `794`); a one-shot timer
restarted from its own function, which loses its active flag (`timer.c:542`) and cannot be
stopped any more; `rt_serial_close` freeing its ring before it disables the interrupt
(`serial.c:731`); `rt_workqueue_cancel_all_work` leaving pending flags set; objects used
while they are deleted.

## 9. Not modelled

Delayed works: their timer and their cancellation race into an assertion, a null pointer
or a lost request, so that only the faults could be stated. `rt_workqueue_destroy` has no
caller. The heap is one sequential algorithm over addresses under a semaphore, and its
interest, arithmetic on block sizes, is out of reach of small instances; the memory pool,
ring buffer, data queue, completion and pipe have no user in this firmware. lwIP is
a third-party stack of which only the byte stream that `update.c` uses, and the thread that
sends a frame, appear as an environment. File systems and the shell's commands are
sequential input and output. The HAL and the I2C, SPI and GPIO drivers are register
accesses and pin timing. `memheap`, `slab`, SMP and signals are not compiled in this
configuration, serial DMA is not configured. Start-up runs once, before there is
any concurrency.
