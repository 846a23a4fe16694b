----------------------------- MODULE PBFParser ------------------------------
(***************************************************************************)
(* Reading of a PBF file by osrm-extract (Extractor/PBFParser.cpp): a      *)
(* thread reads blocks and pushes them into a bounded queue, parse threads *)
(* pop them and hand the entities to the extractor callbacks; a null       *)
(* pointer marks the end.                                                  *)
(*                                                                         *)
(* A file is a sequence of blocks [readable, groups]; a group is the set   *)
(* of kinds of entities in it.  Blocks are named by their position.        *)
(***************************************************************************)
EXTENDS ConcurrentQueue, Integers, Functions

CONSTANTS
    Files,          \* input files to read
    Reader,         \* read_thread
    Parsers         \* parse threads (the code starts one)

Kinds == {"dense", "relation", "way", "node"}
PrimitiveBlock == [readable : BOOLEAN, groups : Seq(SUBSET Kinds)]

ASSUME ThreadsAssumption == Reader \notin Parsers /\ Parsers # {}
ASSUME FilesAssumption ==
    \A f \in Files : f \in Seq(PrimitiveBlock)

VARIABLES
    file,
    position,           \* blocks taken from the stream
    pc,
    thread_data,        \* block each thread works on, 0 if none
    delivered,          \* blocks handed to the callbacks, in order, with their entities
    allocated,          \* blocks whose ParserThreadData exists
    parsed              \* Parse() has returned true

vars == <<queue, file, position, pc, thread_data, delivered, allocated, parsed>>

Threads == Parsers \cup {Reader}
nullptr == 0

Goto(t, from, to) == pc[t] = from /\ pc' = [pc EXCEPT ![t] = to]

-----------------------------------------------------------------------------
(* ReadData *)

\* readNextBlock: the next block, unless the stream ends, the header is not the one
\* of a data block, or the blob or the block cannot be read.
HasNextBlock == position < Len(file) /\ file[position + 1].readable

ReadNextBlock ==
    /\ HasNextBlock
    /\ Goto(Reader, "read", "push")
    /\ position' = position + 1
    /\ thread_data' = [thread_data EXCEPT ![Reader] = position + 1]
    /\ allocated' = allocated \cup {position + 1}
    /\ UNCHANGED <<queue, file, delivered, parsed>>

\* The thread_data of the failed attempt holds no block and stays the reader's own.
ReadFails ==
    /\ ~HasNextBlock
    /\ Goto(Reader, "read", "pushEnd")
    /\ UNCHANGED <<queue, file, position, thread_data, delivered, allocated, parsed>>

PushBlock ==
    /\ Goto(Reader, "push", "read")
    /\ push(Reader, thread_data[Reader])
    /\ thread_data' = [thread_data EXCEPT ![Reader] = nullptr]
    /\ UNCHANGED <<file, position, delivered, allocated, parsed>>

\* The end is marked, by the reader and again by every parse thread that finds it.
PushEnd(t) ==
    /\ Goto(t, "pushEnd", "done")
    /\ push(t, nullptr)
    /\ UNCHANGED <<file, position, thread_data, delivered, allocated, parsed>>

PushWaits(t) ==
    /\ pc[t] \in {"push", "pushEnd"}
    /\ push_waits(t)
    /\ UNCHANGED <<file, position, pc, thread_data, delivered, allocated, parsed>>

-----------------------------------------------------------------------------
(* ParseData *)

PopBlock(t) ==
    /\ pop(t)
    /\ Goto(t, "pop", IF Head(m_internal_queue) = nullptr THEN "pushEnd" ELSE "parse")
    /\ thread_data' = [thread_data EXCEPT ![t] = Head(m_internal_queue)]
    /\ UNCHANGED <<file, position, delivered, allocated, parsed>>

PopWaits(t) ==
    /\ pc[t] = "pop"
    /\ pop_waits(t)
    /\ UNCHANGED <<file, position, pc, thread_data, delivered, allocated, parsed>>

\* loadGroup: one kind of entity is parsed for each group.
entityTypeIndicator(group) ==
    IF "dense" \in group THEN "dense"
    ELSE IF "relation" \in group THEN "relation"
    ELSE IF "way" \in group THEN "way"
    ELSE IF "node" \in group THEN "node"
    ELSE "dummy"

Delivered(f, b) ==
    [block |-> b,
     entities |-> SelectSeq([i \in DOMAIN f[b].groups |-> entityTypeIndicator(f[b].groups[i])],
                            LAMBDA kind : kind # "dummy")]

\* Mutant: the block is not deleted after it was parsed.
ParseAndKeep(t) ==
    /\ Goto(t, "parse", "pop")
    /\ delivered' = Append(delivered, Delivered(file, thread_data[t]))
    /\ thread_data' = [thread_data EXCEPT ![t] = nullptr]
    /\ UNCHANGED <<queue, file, position, allocated, parsed>>

\* All groups of a block, then delete; the callbacks of one parse thread run in order.
ParseBlock(t) ==
    /\ Goto(t, "parse", "pop")
    /\ \A i \in DOMAIN file[thread_data[t]].groups :
         entityTypeIndicator(file[thread_data[t]].groups[i]) # "node"
    /\ delivered' = Append(delivered, Delivered(file, thread_data[t]))
    /\ allocated' = allocated \ {thread_data[t]}
    /\ thread_data' = [thread_data EXCEPT ![t] = nullptr]
    /\ UNCHANGED <<queue, file, position, parsed>>

\* parseNode throws in the parse thread, which ends the process.
ParseThrows(t) ==
    /\ pc[t] = "parse"
    /\ \E i \in DOMAIN file[thread_data[t]].groups :
         entityTypeIndicator(file[thread_data[t]].groups[i]) = "node"
    /\ pc' = [u \in Threads |-> "terminated"]
    /\ UNCHANGED <<queue, file, position, thread_data, delivered, allocated, parsed>>

\* Both threads are joined; the destructor deletes what is left in the queue.
Return ==
    /\ ~parsed
    /\ \A t \in Threads : pc[t] = "done"
    /\ parsed' = TRUE
    /\ allocated' = allocated \ Range(m_internal_queue)
    /\ m_internal_queue' = <<>>
    /\ UNCHANGED <<m_not_full, m_not_empty, file, position, pc, thread_data, delivered>>

WakeUp(t) ==
    /\ spurious_wakeup(t)
    /\ UNCHANGED <<file, position, pc, thread_data, delivered, allocated, parsed>>

-----------------------------------------------------------------------------
Init ==
    /\ QueueInit
    /\ file \in Files
    /\ position = 0
    /\ pc = [t \in Threads |-> IF t = Reader THEN "read" ELSE "pop"]
    /\ thread_data = [t \in Threads |-> nullptr]
    /\ delivered = <<>>
    /\ allocated = {}
    /\ parsed = FALSE

ReaderStep == ReadNextBlock \/ ReadFails \/ PushBlock \/ PushEnd(Reader) \/ PushWaits(Reader)
ParserStep(t) ==
    PopBlock(t) \/ PopWaits(t) \/ ParseBlock(t) \/ ParseThrows(t) \/ PushEnd(t) \/ PushWaits(t)

Ended == parsed \/ \A t \in Threads : pc[t] = "terminated"

Next ==
    \/ ReaderStep \/ Return
    \/ \E t \in Parsers : ParserStep(t)
    \/ \E t \in Threads : WakeUp(t)
    \/ Ended /\ UNCHANGED vars

\* Threads that can run do; nobody relies on spurious wake-ups.
Spec ==
    /\ Init /\ [][Next]_vars
    /\ WF_vars(ReaderStep) /\ WF_vars(Return)
    /\ \A t \in Parsers : WF_vars(ParserStep(t))

-----------------------------------------------------------------------------
Deliveries(f) == {Delivered(f, b) : b \in 1 .. Len(f)}

\* Type correctness; the queue never outgrows its capacity (the circular buffer would
\* overwrite its oldest block).
TypeOK ==
    /\ file \in Files
    /\ m_internal_queue \in Seq(0 .. Len(file)) /\ Len(m_internal_queue) <= capacity
    /\ m_not_full \subseteq Threads /\ m_not_empty \subseteq Threads
    /\ position \in 0 .. Len(file)
    /\ pc \in [Threads -> {"read", "push", "pushEnd", "pop", "parse", "done", "terminated"}]
    /\ thread_data \in [Threads -> 0 .. Len(file)]
    /\ allocated \subseteq 1 .. Len(file)
    /\ delivered \in Seq(Deliveries(file))
    /\ parsed \in BOOLEAN

\* Blocks that precede the first unreadable one.
ReadableBlocks ==
    CHOOSE n \in 0 .. Len(file) :
      /\ \A i \in 1 .. n : file[i].readable
      /\ n = Len(file) \/ ~file[n + 1].readable

\* When Parse() returns, the callbacks were called for every block that was read,
\* once and for nothing else, and with the single parse thread of the code in the
\* order of the file.
BlocksDelivered ==
    parsed =>
      /\ (\A s, t \in Parsers : s = t) =>
           delivered = [b \in 1 .. ReadableBlocks |-> Delivered(file, b)]
      /\ \A k \in DOMAIN delivered : \E b \in 1 .. ReadableBlocks : delivered[k] = Delivered(file, b)
      /\ \A b \in 1 .. ReadableBlocks :
           \E k \in DOMAIN delivered : \A j \in DOMAIN delivered : delivered[j].block = b <=> j = k

\* A block's memory has one owner, a thread or a slot of the queue, and is freed once:
\* blocks that exist are exactly those in somebody's hands, and none is left in the end.
BlocksOwned ==
    /\ allocated = (Range(thread_data) \cup Range(m_internal_queue)) \ {nullptr}
    /\ \A s, t \in Threads : thread_data[s] = thread_data[t] => s = t \/ thread_data[s] = nullptr
    /\ \A i, j \in DOMAIN m_internal_queue :
         m_internal_queue[i] = m_internal_queue[j] => i = j \/ m_internal_queue[i] = nullptr
    /\ \A t \in Threads : \A i \in DOMAIN m_internal_queue :
         thread_data[t] = m_internal_queue[i] => thread_data[t] = nullptr
    /\ parsed => allocated = {}

\* No thread waits forever for room or for data: Parse() returns, or the process was
\* terminated by a group of simple nodes.
ParseReturns == <>Ended
=============================================================================
