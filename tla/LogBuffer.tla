----------------------------- MODULE LogBuffer -----------------------------
(***************************************************************************)
(* The ring buffer of log messages (lib/log_buffer.cpp): any CPU enqueues, *)
(* one consumer thread dequeues and prints.  enqueue and dequeue hold      *)
(* buffer_lock with interrupts off, so each is one step; between dequeue   *)
(* and the output the consumer holds its message in a local variable.      *)
(*                                                                         *)
(* A message stands for the LogMessage that enqueue fills in.  enqueue of  *)
(* a null pointer returns false and changes nothing.                       *)
(***************************************************************************)
EXTENDS Integers, Sequences

CONSTANTS
  Messages,          \* the log messages
  Errors,            \* those of level LOG_ERR or worse
  LOG_BUFFER_SIZE,
  MaxAccepted        \* bound on the messages accepted in a behaviour

ASSUME MessageAssumption == Errors \subseteq Messages
ASSUME SizeAssumption == LOG_BUFFER_SIZE \in Nat \ {0, 1} /\ MaxAccepted \in Nat

VARIABLES
  buffer,            \* the slots; a slot that was never filled is <<>>
  head,
  tail,
  consumer_running,
  message,           \* the consumer's local variable: <<m>> from dequeue to output
  serial,            \* what serial_puts has written
  console,           \* what Console::print has written
  accepted           \* history: the messages for which enqueue returned true

logVars == <<buffer, head, tail, consumer_running, message, serial, console, accepted>>

Slots == 0 .. LOG_BUFFER_SIZE - 1

LogTypeOK ==
  /\ buffer \in [Slots -> Messages \cup {<<>>}]
  /\ head \in Slots
  /\ tail \in Slots
  /\ consumer_running \in BOOLEAN
  /\ message \in {<<>>} \cup {<<m>> : m \in Messages}
  /\ serial \in Seq(Messages)
  /\ console \in Seq(Errors)
  /\ accepted \in Seq(Messages)

\* The constructor and init().
LogInit ==
  /\ buffer = [s \in Slots |-> <<>>]
  /\ head = 0
  /\ tail = 0
  /\ consumer_running = FALSE
  /\ message = <<>>
  /\ serial = <<>>
  /\ console = <<>>
  /\ accepted = <<>>

Succ(i) == (i + 1) % LOG_BUFFER_SIZE
IsEmpty == head = tail

\* Mutant: the whole array is used, so a full buffer looks like an empty one.
IsFullNever == FALSE

IsFull == Succ(tail) = head

GetMessageCount == IF tail >= head THEN tail - head ELSE LOG_BUFFER_SIZE - head + tail

-----------------------------------------------------------------------------
\* enqueue by any CPU; when the buffer is full the message is dropped.
Enqueue(m) ==
  /\ ~IsFull
  /\ Len(accepted) < MaxAccepted
  /\ buffer' = [buffer EXCEPT ![tail] = m]
  /\ tail' = Succ(tail)
  /\ accepted' = Append(accepted, m)
  /\ UNCHANGED <<head, consumer_running, message, serial, console>>

\* start_consumer creates the consumer's task.  It puts it on no run queue:
\* that the thread ever runs is up to whoever starts it.
StartConsumer ==
  /\ ~consumer_running
  /\ consumer_running' = TRUE
  /\ UNCHANGED <<buffer, head, tail, message, serial, console, accepted>>

\* Mutant: dequeue copies the slot after it has moved head.
DequeueLate ==
  /\ consumer_running /\ message = <<>>
  /\ ~IsEmpty
  /\ message' = <<buffer[Succ(head)]>>
  /\ head' = Succ(head)
  /\ UNCHANGED <<buffer, tail, consumer_running, serial, console, accepted>>

\* The consumer's call of dequeue; on an empty buffer it pauses and tries again.
Dequeue ==
  /\ consumer_running /\ message = <<>>
  /\ ~IsEmpty
  /\ message' = <<buffer[head]>>
  /\ head' = Succ(head)
  /\ UNCHANGED <<buffer, tail, consumer_running, serial, console, accepted>>

\* The output under serial_lock: errors to the console too.
Output ==
  /\ message # <<>>
  /\ serial' = serial \o message
  /\ console' = IF Head(message) \in Errors THEN console \o message ELSE console
  /\ message' = <<>>
  /\ UNCHANGED <<buffer, head, tail, consumer_running, accepted>>

LogNext ==
  \/ \E m \in Messages : Enqueue(m)
  \/ StartConsumer
  \/ Dequeue
  \/ Output

LogSpec == LogInit /\ [][LogNext]_logVars

-----------------------------------------------------------------------------
\* The messages between head and tail, oldest first.
Contents ==
  [i \in 1 .. (tail - head) % LOG_BUFFER_SIZE |-> buffer[(head + i - 1) % LOG_BUFFER_SIZE]]

Fifo ==
  INSTANCE BoundedFifo WITH queue <- Contents, taken <- message,
                            Capacity <- LOG_BUFFER_SIZE - 1

\* The ring buffer is a first-in first-out queue of one message less than it
\* has slots, whichever way head and tail wrap around.
ImplementsFifo == Fifo!Spec

\* Every message enqueue accepted is on the serial line, in the consumer's
\* hands or in the buffer: none lost, doubled or out of order.
NothingLost == serial \o message \o Contents = accepted

\* get_message_count, which distinguishes two cases, counts the contents.
CountExact == GetMessageCount = Len(Contents)

=============================================================================
