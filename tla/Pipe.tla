-------------------------------- MODULE Pipe --------------------------------
(***************************************************************************)
(* Pipes (pipe.c): a ring buffer with a list of waiting readers and one of *)
(* waiting writers.  The flags of the pipe say whether a read or a write   *)
(* waits, and whether a write overwrites.                                  *)
(***************************************************************************)
EXTENDS IpcWait, RingBuffer

CONSTANT MaxWrite   \* bound: the longest read and write

ASSUME PipeAssumption == MaxWrite \in Nat \ {0}

VARIABLES
    ring,       \* pipe->ringbuffer
    pipe_got    \* what the last read copied out

pipeVars == <<ring, pipe_got>>

PipeTypeOK == ring \in Buffers /\ pipe_got \in Seq(Byte)

\* rt_pipe_init
PipeInit == ring = rt_ringbuffer_init /\ pipe_got = <<>>

-----------------------------------------------------------------------------

Strings == UNION {[1..k -> Byte] : k \in 1..MaxWrite}

BlocksRead == "block_rd" \in w.app.flags
BlocksWrite == "block_wr" \in w.app.flags
Forces == "force_wr" \in w.app.flags

\* rt_ringbuffer_get and, if there was something, _rt_pipe_resume_writer.
ReadSection(size) ==
    /\ pipe_got' = Got(ring, size)
    /\ ring' = rt_ringbuffer_get(ring, size)
    /\ w' = ResumeFirst(w, "pipe_wr")

\* One evaluation of the loop of rt_pipe_read.
TryRead(t, size) ==
    \/ rt_ringbuffer_data_len(ring) > 0 /\ ReadSection(size) /\ Return(t)
    \/ /\ rt_ringbuffer_data_len(ring) = 0
       /\ IF BlocksRead THEN /\ w' = SuspendLast(w, "pipe_rd", t, FALSE)
                             /\ call' = [call EXCEPT ![t] = [op |-> "pipe_rd", size |-> size]]
                        ELSE Return(t) /\ UNCHANGED w
       /\ UNCHANGED pipeVars

rt_pipe_read(t, size) == Free(t) /\ TryRead(t, size)

WokenRead(t) == Woken(t, "pipe_rd") /\ TryRead(t, call[t].size)

\* A write that does not wait resumes a reader whatever it wrote.
WriteSection(s) ==
    /\ ring' = rt_ringbuffer_put(ring, s)
    /\ w' = ResumeFirst(w, "pipe_rd")
    /\ UNCHANGED pipe_got

ForceSection(s) ==
    /\ \E junk \in Byte : ring' = rt_ringbuffer_put_force(ring, s, junk)
    /\ w' = ResumeFirst(w, "pipe_rd")
    /\ UNCHANGED pipe_got

\* One evaluation of the loop of rt_pipe_write.
TryWrite(t, s) ==
    \/ Forces /\ ForceSection(s) /\ Return(t)
    \/ ~Forces /\ (PutLength(ring, s) > 0 \/ ~BlocksWrite) /\ WriteSection(s) /\ Return(t)
    \/ /\ ~Forces /\ PutLength(ring, s) = 0 /\ BlocksWrite
       /\ w' = SuspendLast(w, "pipe_wr", t, FALSE)
       /\ call' = [call EXCEPT ![t] = [op |-> "pipe_wr", string |-> s]]
       /\ UNCHANGED pipeVars

rt_pipe_write(t, s) == Free(t) /\ TryWrite(t, s)

WokenWrite(t) == Woken(t, "pipe_wr") /\ TryWrite(t, call[t].string)

PipeNext ==
    \E t \in Thread :
        \/ t \in w.app.senders /\ \E s \in Strings : rt_pipe_write(t, s)
        \/ t \notin w.app.senders /\ \E size \in 1..MaxWrite : rt_pipe_read(t, size)
        \/ WokenRead(t) \/ WokenWrite(t)

-----------------------------------------------------------------------------

\* The bytes of a pipe whose writes do not overwrite.
Piped(s) == IF Forces THEN <<>> ELSE s

PipeStream == INSTANCE Stream
    WITH Item <- Byte, Size <- BufferSize, Lossy <- FALSE, queue <- Piped(Contents(ring)),
         got <- Piped(pipe_got)

\* Bytes come out of a pipe in the order they went in, none twice and none lost,
\* over every wrap of the two indices.
PipeIsStream == PipeStream!Spec

\* While a reader waits the pipe is empty, and while a writer waits it is full, or
\* one of them was resumed and has not run yet.
PipeWakes ==
    /\ w.list["pipe_rd"] # <<>> =>
          rt_ringbuffer_data_len(ring) = 0 \/ Resumed("pipe_rd") # {}
    /\ w.list["pipe_wr"] # <<>> =>
          rt_ringbuffer_space_len(ring) = 0 \/ Resumed("pipe_wr") # {}

\* "When the buffer is full, it will discard the old data." (ringbuffer.c:97): what
\* was just written is not discarded.
ForceKeepsNew ==
    [][\A s \in Strings : ForceSection(s) => Contents(ring') # <<>>]_<<ring, pipe_got>>

=============================================================================
