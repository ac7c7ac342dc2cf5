----------------------------- MODULE BoundedFifo -----------------------------
(***************************************************************************)
(* What the user of a ring buffer may rely on: frames come out in the      *)
(* order they went in, none twice and none altered; a push into a full     *)
(* queue is cut short, and only pushOver() gives up old frames for new     *)
(* ones, as few as have to go.  What is in the queue when its capacity     *)
(* changes is not promised to survive, only to stay countable.             *)
(* AudioRingBuffer is shown to implement this.                             *)
(***************************************************************************)
EXTENDS Naturals, Sequences

CONSTANTS Frames,
          Inputs,      \* the sequences of frames that are pushed
          Asked,       \* the numbers of frames that are asked for
          Capacity,    \* the capacity at first
          Capacities   \* those it is changed to

VARIABLES capacity,
          queue,       \* the frames in the buffer, oldest first
          frames,      \* the frames the last call delivered, from position 0 on
          count        \* what the last call returned

fifo == <<capacity, queue, frames, count>>

Shorter(m, n) == IF m < n THEN m ELSE n

FifoInit == 
    capacity = Capacity /\ queue = <<>> /\ frames = <<>> /\ count = 0

Push(in) ==
    LET n == Shorter(Len(in), capacity - Len(queue))
    IN  /\ queue' = queue \o SubSeq(in, 1, n)
        /\ frames' = <<>>
        /\ count' = n
        /\ UNCHANGED capacity

\* As many of the new frames as the buffer can hold get in, and the oldest that
\* are left no room are pushed out.
PushOver(in) ==
    LET n == Shorter(Len(in), capacity)
        kept == Shorter(Len(queue), capacity - n)
    IN  /\ queue' = SubSeq(queue, Len(queue) - kept + 1, Len(queue)) \o SubSeq(in, 1, n)
        /\ frames' = <<>>
        /\ count' = n
        /\ UNCHANGED capacity

Peek(elements, offset) ==
    LET n == Shorter(elements, Len(queue) - offset)
    IN  /\ offset <= Len(queue)
        /\ frames' = [j \in 0 .. n - 1 |-> queue[offset + j + 1]]
        /\ count' = n
        /\ UNCHANGED <<capacity, queue>>

Pop(elements) ==
    LET n == Shorter(elements, Len(queue))
    IN  /\ frames' = [j \in 0 .. n - 1 |-> queue[j + 1]]
        /\ queue' = SubSeq(queue, n + 1, Len(queue))
        /\ count' = n
        /\ UNCHANGED capacity

Clear == /\ queue' = <<>> /\ frames' = <<>> /\ count' = 0
         /\ UNCHANGED capacity

\* There are as many frames in the queue, but any, unless the capacity is the same.
Stretch(n) ==
    /\ capacity <= n
    /\ capacity' = n
    /\ queue' \in [DOMAIN queue -> Frames]
    /\ n = capacity => queue' = queue
    /\ frames' = <<>> /\ count' = 0

FifoNext ==
    \/ \E in \in Inputs : Push(in) \/ PushOver(in)
    \/ \E elements \in Asked : 
          Pop(elements) \/ \E offset \in 0 .. capacity : Peek(elements, offset)
    \/ Clear
    \/ \E n \in Capacities : Stretch(n)

FifoSpec == FifoInit /\ [][FifoNext]_fifo
=============================================================================
