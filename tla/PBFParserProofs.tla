-------------------------- MODULE PBFParserProofs ---------------------------
(***************************************************************************)
(* Proofs about PBFParser and the queue between its threads, for every     *)
(* file, every capacity and every number of parse threads.                 *)
(*                                                                         *)
(* The inductive invariant counts the blocks that were popped, c: the      *)
(* queue holds the blocks from c + 1 to the last one pushed, in order, and *)
(* behind them only end markers; each of the first c blocks was delivered  *)
(* or is in the hands of exactly one parse thread.                         *)
(***************************************************************************)
EXTENDS PBFParser, TLAPS

\* Blocks the reader has pushed.
Pushed == IF thread_data[Reader] = nullptr THEN position ELSE position - 1

\* Control states of the two kinds of thread, and the block that goes with them.
ControlOK ==
    /\ pc[Reader] \in {"read", "push", "pushEnd", "done", "terminated"}
    /\ pc[Reader] = "push" => thread_data[Reader] # nullptr
    /\ pc[Reader] \in {"read", "pushEnd", "done"} => thread_data[Reader] = nullptr
    /\ thread_data[Reader] # nullptr => thread_data[Reader] = position
    /\ \A t \in Parsers :
         /\ pc[t] \in {"pop", "parse", "pushEnd", "done", "terminated"}
         /\ pc[t] = "parse" => thread_data[t] # nullptr
         /\ pc[t] \in {"pop", "pushEnd", "done"} => thread_data[t] = nullptr
    /\ \A s, t \in Threads : pc[s] = "terminated" => pc[t] = "terminated"
    /\ parsed => \A t \in Threads : pc[t] = "done"

\* Reading stops at the first block that cannot be read, and at no other.
ReadSoFar ==
    /\ \A i \in 1 .. position : file[i].readable
    /\ pc[Reader] \in {"pushEnd", "done"} => ~HasNextBlock

\* The queue after c blocks were popped.
QueueHolds(c) ==
    /\ c <= Pushed
    /\ parsed \/ Pushed - c <= Len(m_internal_queue)
    /\ \A i \in DOMAIN m_internal_queue :
         m_internal_queue[i] = IF c + i <= Pushed THEN c + i ELSE nullptr
    /\ Pushed - c < Len(m_internal_queue) => pc[Reader] \in {"done", "terminated"}
    /\ \A t \in Parsers : pc[t] \in {"pushEnd", "done"} => c = Pushed /\ pc[Reader] = "done"

\* Each of the first c blocks is delivered or in the hands of one parse thread.
Taken(c) ==
    /\ \A b \in 1 .. c : \/ \E k \in DOMAIN delivered : delivered[k].block = b
                         \/ \E t \in Parsers : thread_data[t] = b
    /\ \A k \in DOMAIN delivered : /\ delivered[k].block \in 1 .. c
                                   /\ delivered[k] = Delivered(file, delivered[k].block)
    /\ \A t \in Parsers : thread_data[t] \in 0 .. c
    /\ \A j, k \in DOMAIN delivered : delivered[j].block = delivered[k].block => j = k
    /\ \A s, t \in Parsers : thread_data[s] = thread_data[t] => s = t \/ thread_data[s] = nullptr
    /\ \A t \in Parsers : \A k \in DOMAIN delivered : delivered[k].block # thread_data[t]

\* A single parse thread delivers the blocks in the order of the file.
InOrder(c) ==
    \A p \in Parsers : (\A t \in Parsers : t = p) =>
      /\ \A k \in DOMAIN delivered : delivered[k].block = k
      /\ thread_data[p] = nullptr => Len(delivered) = c
      /\ thread_data[p] # nullptr => thread_data[p] = c /\ Len(delivered) = c - 1

Blocks == \E c \in Nat : QueueHolds(c) /\ Taken(c) /\ InOrder(c)

\* Blocks that exist are those in the hands of a thread or in the queue.
Owned ==
    /\ allocated = (Range(thread_data) \cup Range(m_internal_queue)) \ {nullptr}
    /\ parsed => allocated = {}

IInv == TypeOK /\ ControlOK /\ ReadSoFar /\ Blocks /\ Owned

-----------------------------------------------------------------------------
(* Queue and delivery *)

\* The blocks of a file are numbered from 1.
LEMMA FileIsSequence ==
    ASSUME TypeOK
    PROVE  Len(file) \in Nat /\ file \in Seq(PrimitiveBlock)
BY FilesAssumption DEF TypeOK

\* Delivered names its block.
LEMMA DeliveredBlock == \A f, b : Delivered(f, b).block = b
BY DEF Delivered

\* What push makes of the queue.
LEMMA PushTail ==
    ASSUME NEW t, NEW S, NEW x \in S, m_internal_queue \in Seq(S), push(t, x)
    PROVE  /\ m_internal_queue' \in Seq(S)
           /\ Len(m_internal_queue') = Len(m_internal_queue) + 1
           /\ Len(m_internal_queue') <= capacity
           /\ \A i \in 1 .. Len(m_internal_queue) : m_internal_queue'[i] = m_internal_queue[i]
           /\ m_internal_queue'[Len(m_internal_queue) + 1] = x
           /\ m_not_empty' \subseteq m_not_empty /\ m_not_full' = m_not_full
BY CapacityAssumption DEF push, notify_one

\* What pop takes off the queue.
LEMMA PopHead ==
    ASSUME NEW t, NEW S, m_internal_queue \in Seq(S), pop(t)
    PROVE  /\ m_internal_queue' \in Seq(S)
           /\ Len(m_internal_queue) \in Nat /\ Len(m_internal_queue) > 0
           /\ Len(m_internal_queue') = Len(m_internal_queue) - 1
           /\ \A i \in 1 .. Len(m_internal_queue') : m_internal_queue'[i] = m_internal_queue[i + 1]
           /\ Head(m_internal_queue) = m_internal_queue[1]
           /\ Head(m_internal_queue) \in S
           /\ m_not_full' \subseteq m_not_full /\ m_not_empty' = m_not_empty
BY DEF pop, notify_one

\* The empty queue.
LEMMA EmptyQueue == \A S : <<>> \in Seq(S) /\ Len(<<>>) = 0
OBVIOUS

-----------------------------------------------------------------------------
\* The invariant holds when Parse() has started its threads.
LEMMA InitIInv == Init => IInv
<1> SUFFICES ASSUME Init PROVE IInv
  OBVIOUS
<1>0. file \in Files /\ Len(file) \in Nat
  BY FilesAssumption DEF Init
<1>a. 0 \in 0 .. Len(file)
  BY <1>0
<1>1. TypeOK
  <2>1. m_internal_queue \in Seq(0 .. Len(file)) /\ Len(m_internal_queue) <= capacity
    BY CapacityAssumption, EmptyQueue DEF Init, QueueInit
  <2>2. delivered \in Seq(Deliveries(file))
    BY EmptyQueue DEF Init
  <2>3. /\ thread_data \in [Threads -> 0 .. Len(file)] /\ position \in 0 .. Len(file)
        /\ allocated \subseteq 1 .. Len(file) /\ parsed \in BOOLEAN
    BY <1>a DEF Init, nullptr
  <2>4. pc \in [Threads -> {"read", "push", "pushEnd", "pop", "parse", "done", "terminated"}]
    BY DEF Init
  <2> QED
    BY <1>0, <2>1, <2>2, <2>3, <2>4 DEF Init, QueueInit, TypeOK
<1>2. ControlOK
  BY ThreadsAssumption DEF Init, ControlOK, Threads, nullptr
<1>3. ReadSoFar
  BY DEF Init, ReadSoFar, Threads
<1>4. QueueHolds(0) /\ Taken(0) /\ InOrder(0)
  BY ThreadsAssumption DEF Init, QueueInit, QueueHolds, Taken, InOrder, Pushed, Threads, nullptr
<1>5. Owned
  BY DEF Init, QueueInit, Owned, Threads, nullptr, Range
<1> QED
  BY <1>1, <1>2, <1>3, <1>4, <1>5 DEF IInv, Blocks

\* Types are preserved.
LEMMA NextTypeOK ==
    ASSUME IInv, [Next]_vars
    PROVE  TypeOK'
<1> USE DEF IInv, nullptr
<1>0. /\ Len(file) \in Nat /\ 0 \in 0 .. Len(file)
      /\ Reader \in Threads /\ Parsers \subseteq Threads
  BY FileIsSequence DEF Threads
<1>1. CASE ReadNextBlock
  BY <1>1, <1>0 DEF ReadNextBlock, HasNextBlock, Goto, queue, TypeOK
<1>2. CASE ReadFails
  BY <1>2, <1>0 DEF ReadFails, Goto, queue, TypeOK
<1>3. CASE PushBlock
  <2>1. push(Reader, thread_data[Reader]) /\ thread_data[Reader] \in 0 .. Len(file)
    BY <1>3, <1>0 DEF PushBlock, TypeOK
  <2>2. /\ m_internal_queue' \in Seq(0 .. Len(file)) /\ Len(m_internal_queue') <= capacity
        /\ m_not_full' \subseteq Threads /\ m_not_empty' \subseteq Threads
    BY <2>1, PushTail DEF TypeOK
  <2>3. thread_data' \in [Threads -> 0 .. Len(file)]
    BY <1>3, <1>0 DEF PushBlock, TypeOK
  <2> QED
    BY <2>2, <2>3, <1>3, <1>0 DEF PushBlock, Goto, TypeOK
<1>4. ASSUME NEW t \in Threads, PushEnd(t)
      PROVE  TypeOK'
  <2>1. push(t, nullptr) /\ nullptr \in 0 .. Len(file)
    BY <1>4, <1>0 DEF PushEnd
  <2>2. /\ m_internal_queue' \in Seq(0 .. Len(file)) /\ Len(m_internal_queue') <= capacity
        /\ m_not_full' \subseteq Threads /\ m_not_empty' \subseteq Threads
    BY <2>1, PushTail DEF TypeOK
  <2> QED
    BY <2>2, <1>4, <1>0 DEF PushEnd, Goto, TypeOK
<1>5. ASSUME NEW t \in Threads, PushWaits(t)
      PROVE  TypeOK'
  BY <1>5, <1>0 DEF PushWaits, push_waits, TypeOK
<1>6. ASSUME NEW t \in Parsers, PopBlock(t)
      PROVE  TypeOK'
  <2>1. pop(t)
    BY <1>6 DEF PopBlock
  <2>2. /\ m_internal_queue' \in Seq(0 .. Len(file)) /\ Len(m_internal_queue') <= capacity
        /\ m_not_full' \subseteq Threads /\ m_not_empty' \subseteq Threads
        /\ Head(m_internal_queue) \in 0 .. Len(file)
    BY <2>1, <1>0, PopHead, CapacityAssumption, SMTT(60) DEF TypeOK
  <2>3. thread_data' \in [Threads -> 0 .. Len(file)]
    BY <2>2, <1>6, <1>0 DEF PopBlock, TypeOK
  <2> QED
    BY <2>2, <2>3, <1>6, <1>0 DEF PopBlock, Goto, TypeOK
<1>7. ASSUME NEW t \in Parsers, PopWaits(t)
      PROVE  TypeOK'
  BY <1>7, <1>0 DEF PopWaits, pop_waits, TypeOK
<1>8. ASSUME NEW t \in Parsers, ParseBlock(t)
      PROVE  TypeOK'
  <2>1. thread_data[t] \in 1 .. Len(file)
    BY <1>8, <1>0 DEF ParseBlock, Goto, ControlOK, TypeOK
  <2>2. delivered' \in Seq(Deliveries(file))
    BY <2>1, <1>8 DEF ParseBlock, Deliveries, TypeOK
  <2>3. thread_data' \in [Threads -> 0 .. Len(file)] /\ allocated' \subseteq 1 .. Len(file)
    BY <1>8, <1>0 DEF ParseBlock, TypeOK
  <2> QED
    BY <2>2, <2>3, <1>8, <1>0 DEF ParseBlock, Goto, queue, TypeOK
<1>9. ASSUME NEW t \in Parsers, ParseThrows(t)
      PROVE  TypeOK'
  BY <1>9, <1>0 DEF ParseThrows, queue, TypeOK
<1>10. CASE Return
  <2>1. m_internal_queue' \in Seq(0 .. Len(file)) /\ Len(m_internal_queue') <= capacity
    BY <1>10, CapacityAssumption, EmptyQueue DEF Return
  <2>2. allocated' \subseteq 1 .. Len(file)
    BY <1>10 DEF Return, TypeOK
  <2> QED
    BY <2>1, <2>2, <1>10 DEF Return, TypeOK
<1>11. ASSUME NEW t \in Threads, WakeUp(t)
       PROVE  TypeOK'
  BY <1>11, <1>0 DEF WakeUp, spurious_wakeup, TypeOK
<1>12. CASE UNCHANGED vars
  BY <1>12, <1>0 DEF vars, queue, TypeOK
<1> QED
  BY <1>0, <1>1, <1>2, <1>3, <1>4, <1>5, <1>6, <1>7, <1>8, <1>9, <1>10, <1>11, <1>12
     DEF Next, ReaderStep, ParserStep

\* The control states, and what the reader knows of the file.
LEMMA NextControl ==
    ASSUME IInv, [Next]_vars
    PROVE  ControlOK' /\ ReadSoFar'
<1> USE DEF IInv, nullptr
<1>0. /\ Len(file) \in Nat /\ Reader \in Threads /\ Parsers \subseteq Threads
      /\ Threads = Parsers \cup {Reader} /\ Reader \notin Parsers
      /\ position \in 0 .. Len(file)
  BY FileIsSequence, ThreadsAssumption DEF Threads, TypeOK
<1>1. CASE ReadNextBlock
  <2>1. ControlOK'
    BY <1>1, <1>0 DEF ReadNextBlock, Goto, TypeOK, ControlOK
  <2>2. ReadSoFar'
    BY <1>1, <1>0 DEF ReadNextBlock, HasNextBlock, Goto, TypeOK, ReadSoFar
  <2> QED
    BY <2>1, <2>2
<1>2. CASE ReadFails
  BY <1>2, <1>0 DEF ReadFails, HasNextBlock, Goto, TypeOK, ControlOK, ReadSoFar
<1>3. CASE PushBlock
  BY <1>3, <1>0 DEF PushBlock, HasNextBlock, Goto, TypeOK, ControlOK, ReadSoFar
<1>4. ASSUME NEW t \in Threads, PushEnd(t)
      PROVE  ControlOK' /\ ReadSoFar'
  BY <1>4, <1>0 DEF PushEnd, HasNextBlock, Goto, TypeOK, ControlOK, ReadSoFar
<1>5. ASSUME NEW t \in Parsers, PopBlock(t)
      PROVE  ControlOK' /\ ReadSoFar'
  BY <1>5, <1>0 DEF PopBlock, HasNextBlock, Goto, TypeOK, ControlOK, ReadSoFar
<1>6. ASSUME NEW t \in Parsers, ParseBlock(t)
      PROVE  ControlOK' /\ ReadSoFar'
  BY <1>6, <1>0 DEF ParseBlock, HasNextBlock, Goto, TypeOK, ControlOK, ReadSoFar
<1>7. ASSUME NEW t \in Parsers, ParseThrows(t)
      PROVE  ControlOK' /\ ReadSoFar'
  BY <1>7, <1>0 DEF ParseThrows, HasNextBlock, TypeOK, ControlOK, ReadSoFar
<1>8. CASE Return
  BY <1>8, <1>0 DEF Return, HasNextBlock, TypeOK, ControlOK, ReadSoFar
<1>9. CASE UNCHANGED <<file, position, pc, thread_data, parsed>>
  BY <1>9 DEF HasNextBlock, ControlOK, ReadSoFar
<1>10. ASSUME NEW t \in Threads, PushWaits(t) \/ PopWaits(t) \/ WakeUp(t)
       PROVE  UNCHANGED <<file, position, pc, thread_data, parsed>>
  BY <1>10 DEF PushWaits, PopWaits, WakeUp
<1>11. CASE UNCHANGED vars
  BY <1>9, <1>11 DEF vars
<1> QED
  BY <1>0, <1>1, <1>2, <1>3, <1>4, <1>5, <1>6, <1>7, <1>8, <1>9, <1>10, <1>11
     DEF Next, ReaderStep, ParserStep

\* A block that was taken stays taken.
LEMMA TakenStable ==
    ASSUME NEW c, delivered' = delivered, file' = file,
           \A t \in Parsers : thread_data'[t] = thread_data[t],
           Taken(c), InOrder(c)
    PROVE  Taken(c)' /\ InOrder(c)'
<1>1. Taken(c)'
  BY DEF Taken
<1>2. InOrder(c)'
  BY DEF InOrder
<1> QED
  BY <1>1, <1>2

\* The blocks in the queue and in the hands of the parse threads.  Only pushes, pops
\* and the delivery itself move a block.
LEMMA NextBlocks ==
    ASSUME IInv, [Next]_vars
    PROVE  Blocks'
<1> USE DEF nullptr
<1> DEFINE q == m_internal_queue
<1>0. /\ TypeOK /\ ControlOK /\ Len(file) \in Nat
      /\ Reader \in Threads /\ Parsers \subseteq Threads
      /\ Threads = Parsers \cup {Reader} /\ Reader \notin Parsers
      /\ position \in 0 .. Len(file) /\ Pushed \in Nat
      /\ q \in Seq(0 .. Len(file)) /\ Len(q) \in Nat /\ DOMAIN q = 1 .. Len(q)
      /\ delivered \in Seq(Deliveries(file))
      /\ Len(delivered) \in Nat /\ DOMAIN delivered = 1 .. Len(delivered)
  BY FileIsSequence, ThreadsAssumption DEF IInv, Threads, TypeOK, ControlOK, Pushed
<1>n. Pushed \in Nat /\ Len(q) \in Nat /\ DOMAIN q = 1 .. Len(q)
  BY <1>0
<1>c. PICK c \in Nat : QueueHolds(c) /\ Taken(c) /\ InOrder(c)
  BY DEF IInv, Blocks
<1>q. QueueHolds(c)
  BY <1>c
<1>1. CASE ReadNextBlock
  <2>1. /\ Pushed' = Pushed /\ q' = q /\ delivered' = delivered /\ file' = file /\ parsed' = parsed
        /\ \A t \in Parsers : thread_data'[t] = thread_data[t] /\ pc'[t] = pc[t]
        /\ pc[Reader] = "read"
    BY <1>1, <1>0 DEF ReadNextBlock, Goto, queue, Pushed, TypeOK, ControlOK
  <2>2. QueueHolds(c)'
    BY <2>1, <1>c, <1>0 DEF QueueHolds
  <2>3. Taken(c)' /\ InOrder(c)'
    BY <2>1, <1>c, <1>0, TakenStable
  <2> QED
    BY <2>2, <2>3 DEF Blocks
<1>2. CASE ReadFails
  <2>1. /\ Pushed' = Pushed /\ q' = q /\ delivered' = delivered /\ file' = file /\ parsed' = parsed
        /\ \A t \in Parsers : thread_data'[t] = thread_data[t] /\ pc'[t] = pc[t]
        /\ pc[Reader] = "read"
    BY <1>2, <1>0 DEF ReadFails, Goto, queue, Pushed, TypeOK, ControlOK
  <2>2. QueueHolds(c)'
    BY <2>1, <1>c, <1>0 DEF QueueHolds
  <2>3. Taken(c)' /\ InOrder(c)'
    BY <2>1, <1>c, <1>0, TakenStable
  <2> QED
    BY <2>2, <2>3 DEF Blocks
<1>3. CASE PushBlock
  <2>1. /\ Pushed' = Pushed + 1 /\ thread_data[Reader] = Pushed + 1
        /\ delivered' = delivered /\ file' = file /\ parsed' = parsed
        /\ \A t \in Parsers : thread_data'[t] = thread_data[t] /\ pc'[t] = pc[t]
        /\ pc[Reader] = "push"
    BY <1>3, <1>0 DEF PushBlock, Goto, Pushed, TypeOK, ControlOK
  <2>2. /\ Len(q') = Len(q) + 1 /\ q' \in Seq(0 .. Len(file))
        /\ \A i \in 1 .. Len(q) : q'[i] = q[i]
        /\ q'[Len(q) + 1] = Pushed + 1
    BY <2>1, <1>3, <1>0, PushTail DEF PushBlock, TypeOK
  <2>3. Pushed - c = Len(q)
    <3>1. ~parsed
      BY <2>1, <1>0 DEF ControlOK
    <3> QED
      BY <3>1, <2>1, <1>q, <1>n DEF QueueHolds
  <2>4. QueueHolds(c)'
    <3>1. DOMAIN q' = 1 .. Len(q) + 1
      BY <2>2, <1>n
    <3>2. ASSUME NEW i \in 1 .. Len(q) + 1
          PROVE  q'[i] = IF c + i <= Pushed + 1 THEN c + i ELSE 0
      <4>1. CASE i = Len(q) + 1
        BY <4>1, <2>2, <2>3, <1>n
      <4>2. CASE i \in 1 .. Len(q)
        <5>1. q'[i] = q[i] /\ q[i] = IF c + i <= Pushed THEN c + i ELSE 0
          BY <4>2, <2>2, <1>q, <1>n DEF QueueHolds
        <5> QED
          BY <5>1, <4>2, <2>3, <1>n
      <4> QED
        BY <4>1, <4>2, <1>n
    <3>3. c <= Pushed + 1 /\ (Pushed + 1) - c = Len(q') /\ Len(q') \in Nat
      BY <2>2, <2>3, <1>n
    <3>4. \A t \in Parsers : pc'[t] \notin {"pushEnd", "done"}
      BY <2>1, <1>q DEF QueueHolds
    <3>5. \A i \in DOMAIN q' : q'[i] = IF c + i <= Pushed' THEN c + i ELSE 0
      BY <3>1, <3>2, <2>1
    <3>6. /\ c <= Pushed' /\ Pushed' - c <= Len(q')
          /\ ~(Pushed' - c < Len(q'))
      BY <3>3, <2>1, <1>n
    <3> QED
      BY <3>4, <3>5, <3>6 DEF QueueHolds
  <2>5. Taken(c)' /\ InOrder(c)'
    BY <2>1, <1>c, <1>0, TakenStable
  <2> QED
    BY <2>4, <2>5 DEF Blocks
<1>4. ASSUME NEW t \in Threads, PushEnd(t)
      PROVE  Blocks'
  <2>1. /\ thread_data' = thread_data /\ Pushed' = Pushed
        /\ delivered' = delivered /\ file' = file /\ parsed' = parsed
        /\ pc[t] = "pushEnd" /\ pc'[t] = "done"
        /\ \A u \in Threads : u # t => pc'[u] = pc[u]
        /\ ~parsed
    BY <1>4, <1>0 DEF PushEnd, Goto, Pushed, TypeOK, ControlOK
  <2>2. /\ Len(q') = Len(q) + 1 /\ q' \in Seq(0 .. Len(file))
        /\ \A i \in 1 .. Len(q) : q'[i] = q[i]
        /\ q'[Len(q) + 1] = 0
    <3>1. push(t, 0) /\ 0 \in 0 .. Len(file)
      BY <1>4, <1>0 DEF PushEnd
    <3> QED
      BY <3>1, <1>0, PushTail
  <2>3. pc'[Reader] = "done"
    BY <2>1, <1>c, <1>0 DEF QueueHolds
  <2>4. Pushed - c <= Len(q) /\ c <= Pushed
    BY <2>1, <1>q DEF QueueHolds
  <2>5. QueueHolds(c)'
    <3>1. DOMAIN q' = 1 .. Len(q) + 1
      BY <2>2, <1>n
    <3>2. ASSUME NEW i \in 1 .. Len(q) + 1
          PROVE  q'[i] = IF c + i <= Pushed THEN c + i ELSE 0
      <4>1. CASE i = Len(q) + 1
        BY <4>1, <2>2, <2>4, <1>n
      <4>2. CASE i \in 1 .. Len(q)
        BY <4>2, <2>2, <1>q, <1>n DEF QueueHolds
      <4> QED
        BY <4>1, <4>2, <1>n
    <3>3. Pushed - c <= Len(q')
      BY <2>2, <2>4, <1>n
    <3>4. ASSUME NEW u \in Parsers, pc'[u] \in {"pushEnd", "done"}
          PROVE  c = Pushed
      <4>1. CASE u # t
        BY <4>1, <3>4, <2>1, <1>q, <1>0 DEF QueueHolds
      <4>2. CASE u = t
        BY <4>2, <2>1, <1>q DEF QueueHolds
      <4> QED
        BY <4>1, <4>2
    <3> QED
      BY <3>1, <3>2, <3>3, <3>4, <2>1, <2>3, <2>4 DEF QueueHolds
  <2>6. Taken(c)' /\ InOrder(c)'
    BY <2>1, <1>c, <1>0, TakenStable
  <2> QED
    BY <2>5, <2>6 DEF Blocks
<1>5. ASSUME NEW t \in Parsers, PopBlock(t)
      PROVE  Blocks'
  <2>1. /\ Pushed' = Pushed /\ delivered' = delivered /\ file' = file /\ parsed' = parsed
        /\ pc[t] = "pop" /\ thread_data[t] = 0 /\ thread_data'[t] = q[1]
        /\ \A u \in Threads : u # t => pc'[u] = pc[u] /\ thread_data'[u] = thread_data[u]
        /\ ~parsed
    BY <1>5, <1>0, PopHead DEF PopBlock, Goto, Pushed, TypeOK, ControlOK
  <2>2. /\ Len(q) > 0 /\ Len(q') = Len(q) - 1 /\ q' \in Seq(0 .. Len(file))
        /\ \A i \in 1 .. Len(q') : q'[i] = q[i + 1]
        /\ Head(q) = q[1]
    BY <1>5, <1>0, PopHead DEF PopBlock, TypeOK
  <2>3. pc'[t] = IF q[1] = 0 THEN "pushEnd" ELSE "parse"
    BY <2>2, <1>5, <1>0 DEF PopBlock, Goto, TypeOK
  <2>4. CASE q[1] = 0
    <3>1. c = Pushed /\ pc[Reader] \in {"done", "terminated"}
      BY <2>2, <2>4, <1>q, <1>n DEF QueueHolds
    <3>2. pc[Reader] = "done" /\ pc'[Reader] = "done"
      BY <3>1, <2>1, <1>0 DEF ControlOK
    <3>3. QueueHolds(c)'
      <4>1. DOMAIN q' = 1 .. Len(q')
        BY <2>2
      <4>2. ASSUME NEW i \in 1 .. Len(q')
            PROVE  q'[i] = 0 /\ ~(c + i <= Pushed)
        <5>1. q'[i] = q[i + 1] /\ i + 1 \in 1 .. Len(q)
          BY <2>2, <1>n
        <5> QED
          BY <5>1, <3>1, <1>q, <1>n DEF QueueHolds
      <4>3. Pushed - c <= Len(q')
        BY <3>1, <2>2, <1>n
      <4> QED
        BY <4>1, <4>2, <4>3, <3>1, <3>2, <2>1, <1>n DEF QueueHolds
    <3>4. \A u \in Parsers : thread_data'[u] = thread_data[u]
      BY <2>1, <2>4, <1>0
    <3>5. Taken(c)' /\ InOrder(c)'
      BY <3>4, <2>1, <1>c, TakenStable
    <3> QED
      BY <3>3, <3>5 DEF Blocks
  <2>5. CASE q[1] # 0
    <3>0. q[1] = IF c + 1 <= Pushed THEN c + 1 ELSE 0
      BY <2>2, <1>q, <1>n, SMTT(60) DEF QueueHolds
    <3>1. q[1] = c + 1 /\ c + 1 <= Pushed
      BY <3>0, <2>5
    <3>2. QueueHolds(c + 1)'
      <4>1. DOMAIN q' = 1 .. Len(q')
        BY <2>2
      <4>2. ASSUME NEW i \in 1 .. Len(q')
            PROVE  q'[i] = IF (c + 1) + i <= Pushed THEN (c + 1) + i ELSE 0
        <5>1. q'[i] = q[i + 1] /\ i + 1 \in 1 .. Len(q)
          BY <2>2, <1>n
        <5>2. q[i + 1] = IF c + (i + 1) <= Pushed THEN c + (i + 1) ELSE 0
          BY <5>1, <1>q, <1>n DEF QueueHolds
        <5> QED
          BY <5>1, <5>2, <1>n
      <4>3. /\ Pushed - (c + 1) <= Len(q')
            /\ Pushed - (c + 1) < Len(q') => pc[Reader] \in {"done", "terminated"}
        BY <3>1, <2>1, <2>2, <1>q, <1>n DEF QueueHolds
      <4>4. pc'[Reader] = pc[Reader]
        BY <2>1, <1>0
      <4>5. \A u \in Parsers : pc'[u] \notin {"pushEnd", "done"}
        <5>1. \A u \in Parsers : pc[u] \notin {"pushEnd", "done"}
          BY <3>1, <1>q, <1>n DEF QueueHolds
        <5> QED
          BY <5>1, <2>1, <2>3, <2>5, <1>0
      <4> QED
        BY <4>1, <4>2, <4>3, <4>4, <4>5, <3>1, <2>1 DEF QueueHolds
    <3>3. Taken(c + 1)'
      <4> DEFINE HandsNow == \A u \in Parsers : thread_data'[u] = IF u = t THEN c + 1 ELSE thread_data[u]
      <4>0. HandsNow
        BY <3>1, <2>1, <1>0
      <4> HIDE DEF HandsNow
      <4>1. \A b \in 1 .. c + 1 : \/ \E k \in DOMAIN delivered : delivered[k].block = b
                                  \/ \E u \in Parsers : thread_data'[u] = b
        <5> SUFFICES ASSUME NEW b \in 1 .. c + 1,
                            \A k \in DOMAIN delivered : delivered[k].block # b
                     PROVE  \E u \in Parsers : thread_data'[u] = b
          OBVIOUS
        <5>1. CASE b = c + 1
          BY <5>1, <4>0 DEF HandsNow
        <5>2. CASE b \in 1 .. c
          <6>1. PICK u \in Parsers : thread_data[u] = b
            BY <5>2, <1>c DEF Taken
          <6> QED
            BY <6>1, <5>2, <4>0, <2>1 DEF HandsNow
        <5> QED
          BY <5>1, <5>2
      <4>2. \A k \in DOMAIN delivered : /\ delivered[k].block \in 1 .. c + 1
                                        /\ delivered[k] = Delivered(file, delivered[k].block)
        BY <1>c DEF Taken
      <4>3. \A u \in Parsers : thread_data'[u] \in 0 .. c + 1
        BY <4>0, <1>c DEF Taken, HandsNow
      <4>4. \A j, k \in DOMAIN delivered : delivered[j].block = delivered[k].block => j = k
        BY <1>c DEF Taken
      <4>5. \A u, v \in Parsers : thread_data'[u] = thread_data'[v] => u = v \/ thread_data'[u] = 0
        <5>1. \A u \in Parsers : thread_data[u] # c + 1
          BY <1>c DEF Taken
        <5> QED
          BY <5>1, <4>0, <1>c DEF Taken, HandsNow
      <4>6. \A u \in Parsers : \A k \in DOMAIN delivered : delivered[k].block # thread_data'[u]
        <5>1. \A k \in DOMAIN delivered : delivered[k].block # c + 1
          BY <1>c DEF Taken
        <5> QED
          BY <5>1, <4>0, <1>c DEF Taken, HandsNow
      <4> QED
        BY <4>1, <4>2, <4>3, <4>4, <4>5, <4>6, <2>1 DEF Taken
    <3>4. InOrder(c + 1)'
      BY <3>1, <2>1, <1>c DEF InOrder
    <3> QED
      BY <3>2, <3>3, <3>4 DEF Blocks
  <2> QED
    BY <2>4, <2>5
<1>6. ASSUME NEW t \in Parsers, ParseBlock(t)
      PROVE  Blocks'
  <2> DEFINE b == thread_data[t]
  <2>1. /\ Pushed' = Pushed /\ q' = q /\ file' = file /\ parsed' = parsed
        /\ pc[t] = "parse" /\ b # 0 /\ thread_data'[t] = 0 /\ pc'[t] = "pop"
        /\ \A u \in Threads : u # t => pc'[u] = pc[u] /\ thread_data'[u] = thread_data[u]
        /\ delivered' = Append(delivered, Delivered(file, b))
    BY <1>6, <1>0 DEF ParseBlock, Goto, queue, Pushed, TypeOK, ControlOK
  <2>2. /\ Len(delivered') = Len(delivered) + 1
        /\ DOMAIN delivered' = 1 .. (Len(delivered) + 1)
        /\ \A k \in 1 .. Len(delivered) : delivered'[k] = delivered[k]
        /\ delivered'[Len(delivered) + 1] = Delivered(file, b)
        /\ Delivered(file, b).block = b
    BY <2>1, <1>0, DeliveredBlock
  <2>3. b \in 1 .. c
    BY <2>1, <1>c, <1>0 DEF Taken
  <2>0. /\ \A u \in Parsers : thread_data'[u] = IF u = t THEN 0 ELSE thread_data[u]
        /\ DOMAIN delivered = 1 .. Len(delivered) /\ Len(delivered) \in Nat
    BY <2>1, <1>0
  <2>4. QueueHolds(c)'
    BY <2>1, <1>c, <1>0 DEF QueueHolds
  <2>5. Taken(c)'
    <3>1. \A x \in 1 .. c : \/ \E k \in DOMAIN delivered' : delivered'[k].block = x
                            \/ \E u \in Parsers : thread_data'[u] = x
      <4> SUFFICES ASSUME NEW x \in 1 .. c,
                          \A u \in Parsers : thread_data'[u] # x
                   PROVE  \E k \in 1 .. Len(delivered) + 1 : delivered'[k].block = x
        BY <2>2
      <4>1. CASE x = b
        BY <4>1, <2>0, <2>2
      <4>2. CASE x # b
        <5>1. \A u \in Parsers : thread_data[u] # x
          BY <4>2, <2>0
        <5>2. PICK k \in 1 .. Len(delivered) : delivered[k].block = x
          BY <5>1, <2>0, <1>c DEF Taken
        <5> QED
          BY <5>2, <2>0, <2>2
      <4> QED
        BY <4>1, <4>2
    <3>2. \A k \in DOMAIN delivered' : /\ delivered'[k].block \in 1 .. c
                                       /\ delivered'[k] = Delivered(file, delivered'[k].block)
      <4>1. \A k \in 1 .. Len(delivered) : /\ delivered[k].block \in 1 .. c
                                           /\ delivered[k] = Delivered(file, delivered[k].block)
        BY <2>0, <1>c DEF Taken
      <4> QED
        BY <4>1, <2>0, <2>2, <2>3
    <3>3. \A u \in Parsers : thread_data'[u] \in 0 .. c
      BY <2>1, <1>c, <1>0 DEF Taken
    <3>4. \A j, k \in DOMAIN delivered' : delivered'[j].block = delivered'[k].block => j = k
      BY <2>2, <1>c, <1>0, SMTT(60) DEF Taken
    <3>5. \A u, v \in Parsers : thread_data'[u] = thread_data'[v] => u = v \/ thread_data'[u] = 0
      BY <2>0, <1>c DEF Taken
    <3>6. \A u \in Parsers : \A k \in DOMAIN delivered' : delivered'[k].block # thread_data'[u]
      BY <2>1, <2>2, <2>3, <3>2, <1>c, <1>0 DEF Taken
    <3> QED
      BY <3>1, <3>2, <3>3, <3>4, <3>5, <3>6, <2>1 DEF Taken
  <2>6. InOrder(c)'
    <3> SUFFICES ASSUME NEW p \in Parsers, \A u \in Parsers : u = p
                 PROVE  /\ \A k \in DOMAIN delivered' : delivered'[k].block = k
                        /\ thread_data'[p] = 0 /\ Len(delivered') = c
      BY DEF InOrder
    <3>1. /\ p = t /\ b = c /\ Len(delivered) = c - 1
          /\ \A k \in DOMAIN delivered : delivered[k].block = k
      BY <2>1, <1>c DEF InOrder
    <3> QED
      BY <3>1, <2>0, <2>2
  <2> QED
    BY <2>4, <2>5, <2>6 DEF Blocks
<1>7. ASSUME NEW t \in Parsers, ParseThrows(t)
      PROVE  Blocks'
  <2>1. /\ Pushed' = Pushed /\ q' = q /\ delivered' = delivered /\ file' = file
        /\ parsed' = parsed /\ thread_data' = thread_data
        /\ \A u \in Threads : pc'[u] = "terminated"
    BY <1>7, <1>0 DEF ParseThrows, queue, Pushed
  <2>2. QueueHolds(c)'
    BY <2>1, <1>c, <1>0 DEF QueueHolds
  <2>3. Taken(c)' /\ InOrder(c)'
    BY <2>1, <1>c, <1>0, TakenStable
  <2> QED
    BY <2>2, <2>3 DEF Blocks
<1>8. CASE Return
  <2>1. /\ Pushed' = Pushed /\ delivered' = delivered /\ file' = file
        /\ thread_data' = thread_data /\ pc' = pc /\ parsed' /\ pc[Reader] = "done"
        /\ q' = <<>> /\ Len(q') = 0 /\ DOMAIN q' = {}
    BY <1>8, <1>0 DEF Return, Pushed
  <2>2. QueueHolds(c)'
    BY <2>1, <1>c, <1>0 DEF QueueHolds
  <2>3. Taken(c)' /\ InOrder(c)'
    BY <2>1, <1>c, <1>0, TakenStable
  <2> QED
    BY <2>2, <2>3 DEF Blocks
<1>9. CASE UNCHANGED <<m_internal_queue, file, position, pc, thread_data, delivered, parsed>>
  BY <1>9, <1>c, SMTT(60) DEF Blocks, QueueHolds, Taken, InOrder, Pushed
<1>10. ASSUME NEW t \in Threads, PushWaits(t) \/ PopWaits(t) \/ WakeUp(t)
       PROVE  UNCHANGED <<m_internal_queue, file, position, pc, thread_data, delivered, parsed>>
  BY <1>10 DEF PushWaits, PopWaits, WakeUp, push_waits, pop_waits, spurious_wakeup
<1>11. CASE UNCHANGED vars
  BY <1>9, <1>11 DEF vars, queue
<1> QED
  BY <1>0, <1>1, <1>2, <1>3, <1>4, <1>5, <1>6, <1>7, <1>8, <1>9, <1>10, <1>11
     DEF Next, ReaderStep, ParserStep

\* What a push adds to the elements of the queue, and what a pop takes.
LEMMA SlotsAfterPush ==
    ASSUME NEW S, NEW q \in Seq(S), NEW r \in Seq(S),
           Len(r) = Len(q) + 1,
           \A i \in 1 .. Len(q) : r[i] = q[i]
    PROVE  Range(r) = Range(q) \cup {r[Len(q) + 1]}
<1>1. Len(q) \in Nat /\ DOMAIN q = 1 .. Len(q) /\ DOMAIN r = 1 .. Len(q) + 1
  OBVIOUS
<1>2. \A y \in Range(r) : y \in Range(q) \cup {r[Len(q) + 1]}
  BY <1>1 DEF Range
<1>3. \A i \in DOMAIN q : i \in DOMAIN r /\ r[i] = q[i]
  BY <1>1
<1>4. Len(q) + 1 \in DOMAIN r
  BY <1>1
<1> QED
  BY <1>2, <1>3, <1>4 DEF Range

\* The blocks in the queue after a pop.
LEMMA SlotsAfterPop ==
    ASSUME NEW S, NEW q \in Seq(S), NEW r \in Seq(S),
           Len(q) > 0, Len(r) = Len(q) - 1,
           \A i \in 1 .. Len(r) : r[i] = q[i + 1]
    PROVE  Range(q) = Range(r) \cup {q[1]}
<1>1. Len(q) \in Nat /\ DOMAIN q = 1 .. Len(q) /\ DOMAIN r = 1 .. Len(q) - 1
  OBVIOUS
<1>2. \A i \in DOMAIN r : i + 1 \in DOMAIN q /\ r[i] = q[i + 1]
  BY <1>1
<1>3. \A i \in DOMAIN q : i = 1 \/ (i - 1 \in DOMAIN r /\ q[i] = r[i - 1])
  <2> SUFFICES ASSUME NEW i \in DOMAIN q, i # 1
               PROVE  i - 1 \in DOMAIN r /\ q[i] = r[i - 1]
    OBVIOUS
  <2>1. i - 1 \in 1 .. Len(r) /\ (i - 1) + 1 = i
    BY <1>1
  <2> QED
    BY <2>1, <1>1
<1>4. 1 \in DOMAIN q
  BY <1>1
<1>5. Range(r) \cup {q[1]} \subseteq Range(q)
  BY <1>2, <1>4 DEF Range
<1>6. Range(q) \subseteq Range(r) \cup {q[1]}
  BY <1>3 DEF Range
<1> QED
  BY <1>5, <1>6

\* Ownership of the blocks: a block moves from the reader to the queue, from there to
\* a parse thread, and its memory is freed after it was delivered.
LEMMA NextOwned ==
    ASSUME IInv, [Next]_vars
    PROVE  Owned'
<1> USE DEF nullptr
<1> DEFINE q == m_internal_queue
           Hands == {thread_data[t] : t \in Threads}
           Slots == Range(q)
<1>0. /\ TypeOK /\ ControlOK /\ Owned
      /\ Reader \in Threads /\ Parsers \subseteq Threads
      /\ Threads = Parsers \cup {Reader} /\ Reader \notin Parsers
      /\ position \in Nat /\ Pushed \in Nat
      /\ q \in Seq(0 .. Len(file)) /\ Len(q) \in Nat /\ DOMAIN q = 1 .. Len(q)
      /\ thread_data \in [Threads -> 0 .. Len(file)]
  BY FileIsSequence, ThreadsAssumption DEF IInv, Threads, TypeOK, ControlOK, Pushed
<1>c. PICK c \in Nat : QueueHolds(c) /\ Taken(c)
  BY DEF IInv, Blocks
<1>h. Range(thread_data) = Hands /\ Range(thread_data') = Hands'
  BY <1>0, NextTypeOK DEF TypeOK, Range
<1>a. allocated = (Hands \cup Slots) \ {0}
  BY <1>0, <1>h DEF Owned
<1>1. CASE ReadNextBlock
  <2>1. /\ thread_data[Reader] = 0 /\ ~parsed /\ parsed' = parsed /\ q' = q
        /\ allocated' = allocated \cup {position + 1}
        /\ \A t \in Threads : thread_data'[t] = IF t = Reader THEN position + 1 ELSE thread_data[t]
    BY <1>1, <1>0 DEF ReadNextBlock, Goto, queue, ControlOK
  <2>2. \A x : x \in Hands' <=> x = position + 1 \/ \E t \in Parsers : x = thread_data[t]
    BY <2>1, <1>0
  <2>3. \A x : x # 0 => (x \in Hands <=> \E t \in Parsers : x = thread_data[t])
    BY <2>1, <1>0
  <2>4. allocated' = (Hands' \cup Slots') \ {0}
    BY <2>1, <2>2, <2>3, <1>a, <1>0
  <2> QED
    BY <2>1, <2>4, <1>h DEF Owned
<1>2. CASE ReadFails
  BY <1>2, <1>0 DEF ReadFails, Goto, queue, Owned
<1>3. CASE PushBlock
  <2>1. /\ thread_data[Reader] # 0 /\ ~parsed /\ parsed' = parsed
        /\ allocated' = allocated
        /\ \A t \in Threads : thread_data'[t] = IF t = Reader THEN 0 ELSE thread_data[t]
    BY <1>3, <1>0 DEF PushBlock, Goto, ControlOK
  <2>2. /\ Len(q') = Len(q) + 1 /\ q' \in Seq(0 .. Len(file))
        /\ \A i \in 1 .. Len(q) : q'[i] = q[i]
        /\ q'[Len(q) + 1] = thread_data[Reader]
    BY <1>3, <1>0, PushTail DEF PushBlock
  <2>3. Slots' = Slots \cup {thread_data[Reader]}
    BY <2>2, <1>0, SlotsAfterPush
  <2>4. \A x : x # 0 => (x \in Hands' \cup {thread_data[Reader]} <=> x \in Hands)
    BY <2>1, <1>0
  <2>5. allocated' = (Hands' \cup Slots') \ {0}
    BY <2>1, <2>3, <2>4, <1>a
  <2> QED
    BY <2>1, <2>5, <1>h DEF Owned
<1>4. ASSUME NEW t \in Threads, PushEnd(t)
      PROVE  Owned'
  <2>1. /\ ~parsed /\ parsed' = parsed /\ allocated' = allocated /\ thread_data' = thread_data
        /\ push(t, 0) /\ 0 \in 0 .. Len(file)
    BY <1>4, <1>0, FileIsSequence DEF PushEnd, Goto, ControlOK
  <2>2. /\ Len(q') = Len(q) + 1 /\ q' \in Seq(0 .. Len(file))
        /\ \A i \in 1 .. Len(q) : q'[i] = q[i]
        /\ q'[Len(q) + 1] = 0
    BY <2>1, <1>0, PushTail
  <2>3. Slots' = Slots \cup {0}
    <3>1. Slots' = Slots \cup {q'[Len(q) + 1]}
      BY <2>2, <1>0, SlotsAfterPush
    <3> QED
      BY <3>1, <2>2
  <2>4. allocated' = (Hands' \cup Slots') \ {0}
    BY <2>1, <2>3, <1>a
  <2> QED
    BY <2>1, <2>4, <1>h DEF Owned
<1>5. ASSUME NEW t \in Parsers, PopBlock(t)
      PROVE  Owned'
  <2>1. /\ thread_data[t] = 0 /\ ~parsed /\ parsed' = parsed
        /\ allocated' = allocated
        /\ \A u \in Threads : thread_data'[u] = IF u = t THEN Head(q) ELSE thread_data[u]
    BY <1>5, <1>0 DEF PopBlock, Goto, ControlOK
  <2>2. /\ Len(q) > 0 /\ Len(q') = Len(q) - 1 /\ q' \in Seq(0 .. Len(file))
        /\ \A i \in 1 .. Len(q') : q'[i] = q[i + 1]
        /\ Head(q) = q[1]
    BY <1>5, <1>0, PopHead DEF PopBlock
  <2>3. Slots = Slots' \cup {q[1]}
    BY <2>2, <1>0, SlotsAfterPop
  <2>4. \A x : x # 0 => (x \in Hands \cup {q[1]} <=> x \in Hands')
    <3>1. \A u \in Threads : thread_data'[u] = IF u = t THEN q[1] ELSE thread_data[u]
      BY <2>1, <2>2
    <3>2. ASSUME NEW x, x # 0, x \in Hands'
          PROVE  x \in Hands \cup {q[1]}
      BY <3>1, <3>2
    <3>3. q[1] \in Hands'
      BY <3>1, <1>0
    <3>4. ASSUME NEW x, x # 0, x \in Hands
          PROVE  x \in Hands'
      <4>1. PICK u \in Threads : x = thread_data[u]
        BY <3>4
      <4>2. u # t /\ x = thread_data'[u]
        BY <4>1, <3>4, <3>1, <2>1
      <4> QED
        BY <4>2
    <3> QED
      BY <3>2, <3>3, <3>4
  <2>5. allocated' = (Hands' \cup Slots') \ {0}
    BY <2>1, <2>3, <2>4, <1>a
  <2> QED
    BY <2>1, <2>5, <1>h DEF Owned
<1>6. ASSUME NEW t \in Parsers, ParseBlock(t)
      PROVE  Owned'
  <2>1. /\ thread_data[t] # 0 /\ ~parsed /\ parsed' = parsed /\ q' = q
        /\ allocated' = allocated \ {thread_data[t]}
        /\ \A u \in Threads : thread_data'[u] = IF u = t THEN 0 ELSE thread_data[u]
    BY <1>6, <1>0 DEF ParseBlock, Goto, queue, ControlOK
  <2>2. \A u \in Parsers : u # t => thread_data[u] # thread_data[t]
    BY <2>1, <1>c DEF Taken
  <2>3. thread_data[Reader] # thread_data[t]
    <3>1. thread_data[t] \in 1 .. c /\ c <= Pushed
      BY <2>1, <1>c DEF Taken, QueueHolds
    <3> QED
      BY <3>1, <1>0 DEF Pushed, ControlOK
  <2>4. thread_data[t] \notin Slots
    <3>1. thread_data[t] \in 1 .. c
      BY <2>1, <1>c DEF Taken
    <3>2. \A i \in 1 .. Len(q) : q[i] = c + i \/ q[i] = 0
      BY <1>c, <1>0 DEF QueueHolds
    <3> QED
      BY <3>1, <3>2, <1>0 DEF Range
  <2>5. \A x : x # 0 => (x \in Hands' <=> x \in Hands /\ x # thread_data[t])
    BY <2>1, <2>2, <2>3, <1>0
  <2>6. allocated' = (Hands' \cup Slots') \ {0}
    BY <2>1, <2>4, <2>5, <1>a
  <2> QED
    BY <2>1, <2>6, <1>h DEF Owned
<1>7. ASSUME NEW t \in Parsers, ParseThrows(t)
      PROVE  Owned'
  BY <1>7, <1>0 DEF ParseThrows, queue, Owned
<1>8. CASE Return
  <2>1. /\ \A t \in Threads : thread_data[t] = 0
        /\ thread_data' = thread_data /\ q' = <<>> /\ Slots' = {}
        /\ allocated' = allocated \ Slots
    BY <1>8, <1>0 DEF Return, ControlOK, Range
  <2>2. allocated' = {} /\ (Hands' \cup Slots') \ {0} = {}
    BY <2>1, <1>a
  <2> QED
    BY <2>2, <1>h DEF Owned
<1>9. CASE UNCHANGED <<m_internal_queue, thread_data, allocated, parsed>>
  BY <1>9, <1>0 DEF Owned
<1>10. ASSUME NEW t \in Threads, PushWaits(t) \/ PopWaits(t) \/ WakeUp(t)
       PROVE  UNCHANGED <<m_internal_queue, thread_data, allocated, parsed>>
  BY <1>10 DEF PushWaits, PopWaits, WakeUp, push_waits, pop_waits, spurious_wakeup
<1>11. CASE UNCHANGED vars
  BY <1>9, <1>11 DEF vars, queue
<1> QED
  BY <1>0, <1>1, <1>2, <1>3, <1>4, <1>5, <1>6, <1>7, <1>8, <1>9, <1>10, <1>11
     DEF Next, ReaderStep, ParserStep

-----------------------------------------------------------------------------
(* Theorems *)

\* The invariant holds in every reachable state.
LEMMA Invariance == Spec => []IInv
<1>1. Init => IInv
  BY InitIInv
<1>2. IInv /\ [Next]_vars => IInv'
  BY NextTypeOK, NextControl, NextBlocks, NextOwned DEF IInv
<1> QED
  BY <1>1, <1>2, PTL DEF Spec

\* Reading ends at the first block that cannot be read.
LEMMA ReadToTheEnd ==
    ASSUME TypeOK, ReadSoFar, ~HasNextBlock
    PROVE  ReadableBlocks = position
<1> DEFINE P(n) == /\ \A i \in 1 .. n : file[i].readable
                   /\ n = Len(file) \/ ~file[n + 1].readable
<1>1. position \in 0 .. Len(file) /\ Len(file) \in Nat
  BY FileIsSequence DEF TypeOK
<1>2. P(position)
  BY <1>1 DEF ReadSoFar, HasNextBlock
<1>3. ReadableBlocks \in 0 .. Len(file) /\ P(ReadableBlocks)
  BY <1>1, <1>2 DEF ReadableBlocks
<1>4. ASSUME NEW m \in 0 .. Len(file), NEW n \in 0 .. Len(file), P(m), P(n), m < n
      PROVE  FALSE
  <2>1. m + 1 \in 1 .. n /\ m # Len(file)
    BY <1>4, <1>1
  <2> QED
    BY <2>1, <1>4
<1> QED
  BY <1>1, <1>2, <1>3, <1>4

\* What the invariant says when Parse() has returned.
LEMMA AllDelivered ==
    ASSUME IInv
    PROVE  BlocksDelivered
<1> USE DEF nullptr
<1> SUFFICES ASSUME parsed
             PROVE  /\ (\A s, t \in Parsers : s = t) =>
                         delivered = [b \in 1 .. ReadableBlocks |-> Delivered(file, b)]
                    /\ \A k \in DOMAIN delivered :
                         \E b \in 1 .. ReadableBlocks : delivered[k] = Delivered(file, b)
                    /\ \A b \in 1 .. ReadableBlocks : \E k \in DOMAIN delivered :
                         \A j \in DOMAIN delivered : delivered[j].block = b <=> j = k
  BY DEF BlocksDelivered
<1>c. PICK c \in Nat : QueueHolds(c) /\ Taken(c) /\ InOrder(c)
  BY DEF IInv, Blocks
<1>1. /\ \A t \in Threads : pc[t] = "done" /\ thread_data[t] = 0
      /\ Reader \in Threads /\ Parsers \subseteq Threads
  BY DEF IInv, ControlOK, Threads
<1>2. c = position
  BY <1>1, <1>c, ThreadsAssumption DEF QueueHolds, Pushed
<1>3. ReadableBlocks = c
  BY <1>1, <1>2, ReadToTheEnd DEF IInv, ReadSoFar
<1>4. /\ Len(delivered) \in Nat /\ DOMAIN delivered = 1 .. Len(delivered)
      /\ delivered = [k \in 1 .. Len(delivered) |-> delivered[k]]
  BY DEF IInv, TypeOK
<1>5. \A k \in DOMAIN delivered : \E b \in 1 .. c : delivered[k] = Delivered(file, b)
  BY <1>c DEF Taken
<1>6. ASSUME NEW b \in 1 .. c
      PROVE  \E k \in DOMAIN delivered : \A j \in DOMAIN delivered : delivered[j].block = b <=> j = k
  <2>1. \A t \in Parsers : thread_data[t] # b
    BY <1>1
  <2>2. PICK k \in DOMAIN delivered : delivered[k].block = b
    BY <2>1, <1>c DEF Taken
  <2>3. \A j \in DOMAIN delivered : delivered[j].block = b => j = k
    BY <2>2, <1>c DEF Taken
  <2> QED
    BY <2>2, <2>3
<1>7. ASSUME \A s, t \in Parsers : s = t
      PROVE  delivered = [b \in 1 .. c |-> Delivered(file, b)]
  <2>1. PICK p \in Parsers : \A t \in Parsers : t = p
    BY <1>7, ThreadsAssumption
  <2>2. Len(delivered) = c /\ \A k \in DOMAIN delivered : delivered[k].block = k
    BY <2>1, <1>c, <1>1 DEF InOrder
  <2>3. \A k \in 1 .. c : delivered[k] = Delivered(file, k)
    BY <2>2, <1>4, <1>c DEF Taken
  <2> QED
    BY <2>2, <2>3, <1>4
<1> QED
  BY <1>3, <1>5, <1>6, <1>7

\* A block is in one place: blocks in the queue were not popped, those of the parse
\* threads were, and the reader's was not pushed.
LEMMA OneOwner ==
    ASSUME IInv
    PROVE  BlocksOwned
<1> USE DEF nullptr
<1> DEFINE q == m_internal_queue
<1>c. PICK c \in Nat : QueueHolds(c) /\ Taken(c)
  BY DEF IInv, Blocks
<1>1. /\ Threads = Parsers \cup {Reader} /\ Len(q) \in Nat /\ DOMAIN q = 1 .. Len(q)
      /\ position \in Nat /\ ControlOK /\ Owned
      /\ \A t \in Threads : thread_data[t] \in Nat
  BY FileIsSequence DEF IInv, TypeOK, Threads
<1>2. \A t \in Parsers : thread_data[t] = 0 \/ thread_data[t] \in 1 .. c
  BY <1>c, <1>1 DEF Taken
<1>3. thread_data[Reader] = 0 \/ (c < position /\ thread_data[Reader] = position)
  BY <1>c, <1>1 DEF QueueHolds, Pushed, ControlOK
<1>4. \A i \in DOMAIN q : q[i] = 0 \/ (q[i] = c + i /\ c + i <= Pushed)
  BY <1>c DEF QueueHolds
<1>5. thread_data[Reader] # 0 => Pushed < position
  BY <1>1 DEF Pushed
<1>6. \A s, t \in Threads : thread_data[s] = thread_data[t] => s = t \/ thread_data[s] = 0
  BY <1>c, <1>1, <1>2, <1>3 DEF Taken
<1>7. \A i, j \in DOMAIN q : q[i] = q[j] => i = j \/ q[i] = 0
  BY <1>1, <1>4
<1>8. \A t \in Threads : \A i \in DOMAIN q : thread_data[t] = q[i] => thread_data[t] = 0
  <2>1. \A t \in Parsers : \A i \in DOMAIN q : thread_data[t] = q[i] => thread_data[t] = 0
    BY <1>1, <1>2, <1>4
  <2>2. Pushed \in Nat
    BY <1>1, <1>3 DEF Pushed
  <2>3. \A i \in DOMAIN q : thread_data[Reader] = q[i] => thread_data[Reader] = 0
    BY <2>2, <1>1, <1>3, <1>4, <1>5
  <2> QED
    BY <2>1, <2>3, <1>1
<1> QED
  BY <1>1, <1>6, <1>7, <1>8 DEF BlocksOwned, Owned

\* Types; in particular the circular buffer is never pushed to when it is full.
THEOREM ParserTypes == Spec => []TypeOK
BY Invariance, PTL DEF IInv

\* Whatever the file, the capacity of the queue and the number of parse threads: when
\* Parse() returns, each block before the first unreadable one went through the
\* callbacks exactly once, and in the order of the file when one thread parses.
THEOREM EachBlockDelivered == Spec => []BlocksDelivered
BY Invariance, AllDelivered, PTL

\* A block always has exactly one owner, and Parse() leaves none behind.
THEOREM EachBlockOwned == Spec => []BlocksOwned
BY Invariance, OneOwner, PTL
=============================================================================
