------------------------------- MODULE SyncPipe -------------------------------
(***************************************************************************)
(* The sync pipe from dumpcap to the process that started it: the writing  *)
(* side (src/sync_pipe_write.c) and the framing of the reading side        *)
(* (pipe_read_block, src/capture/capture_sync.c).                          *)
(*                                                                         *)
(* A message is written with a write for its header and one for its body;  *)
(* an error message is a header around two messages of its own.  Each      *)
(* write is a piece; nothing keeps two writers' pieces apart, and a        *)
(* process that dies leaves a message unfinished.                          *)
(***************************************************************************)
EXTENDS Naturals, Sequences

CONSTANTS
    Writers,    \* the threads of dumpcap that write messages
    PipeSize,   \* pieces the pipe holds
    MaxFile,    \* bound: files of a capture
    MaxCount    \* bound: packets of a capture

ASSUME SyncPipeAssumption ==
    /\ PipeSize \in Nat /\ PipeSize >= 5
    /\ MaxFile \in Nat \ {0} /\ MaxCount \in Nat

VARIABLES
    pipe,       \* pieces written and not yet read
    writing,    \* of each writer: the message it is in, and its next piece
    skewed      \* the reader has taken pieces of two messages for one

pipeVars == <<pipe, writing, skewed>>

\* SP_FILE, SP_PACKET_COUNT, SP_ERROR_MSG, SP_DROPS and SP_LOG_MSG; the
\* number is that of the file, and for a count that of the packets.
Kinds   == {"file", "count", "error", "drops", "log"}
Message == [kind : Kinds, file : 0..MaxFile, n : 0..MaxCount]
Msg(kind, file, n) == [kind |-> kind, file |-> file, n |-> n]
NoMessage == Msg("none", 0, 0)
Parts(m)  == IF m.kind = "error" THEN 5 ELSE 2
Piece(w, m, i) == [by |-> w, msg |-> m, part |-> i]
Pieces    == {Piece(w, m, i) : w \in Writers, m \in Message, i \in 1..5}

Idle == [msg |-> NoMessage, part |-> 0]

SyncPipeType ==
    /\ pipe \in Seq(Pieces) /\ Len(pipe) <= PipeSize
    /\ \A w \in Writers :
          writing[w] = Idle \/ (writing[w].msg \in Message /\ writing[w].part \in 2..Parts(writing[w].msg))
    /\ skewed \in BOOLEAN

SyncPipeInit ==
    /\ pipe = <<>> /\ writing = [w \in Writers |-> Idle] /\ skewed = FALSE

Room == Len(pipe) < PipeSize

\* sync_pipe_write_header, and the rest of a message a write at a time; a
\* write to a full pipe blocks.
WriteHeader(w, m) ==
    /\ writing[w] = Idle /\ Room
    /\ pipe' = Append(pipe, Piece(w, m, 1))
    /\ writing' = [writing EXCEPT ![w] = [msg |-> m, part |-> 2]]
    /\ UNCHANGED skewed

WriteRest(w) ==
    /\ writing[w] # Idle /\ Room
    /\ LET m == writing[w].msg  i == writing[w].part IN
         /\ pipe' = Append(pipe, Piece(w, m, i))
         /\ writing' = [writing EXCEPT ![w] = IF i = Parts(m) THEN Idle ELSE [@ EXCEPT !.part = i + 1]]
    /\ UNCHANGED skewed

\* pipe_read_block.  A block is there when all its bytes are, whosever they
\* are; what follows a skewed block, or starts with something that is no
\* header, has an impossible length.
Header     == Head(pipe).msg
BlockReady == pipe # <<>> /\ Len(pipe) >= Parts(Header)
BadHeader  == pipe # <<>> /\ (skewed \/ Head(pipe).part # 1)
Whole      == \A i \in 1..Parts(Header) : pipe[i] = Piece(Head(pipe).by, Header, i)

\* [mutant: of an error message only the first of its parts is read]
ReadBlockShort ==
    /\ BlockReady /\ ~BadHeader
    /\ pipe' = SubSeq(pipe, 3, Len(pipe))
    /\ skewed' = ~Whole
    /\ UNCHANGED writing

\* A whole message, or the indicator of the first with the bytes of another.
ReadBlock ==
    /\ BlockReady /\ ~BadHeader
    /\ pipe' = SubSeq(pipe, Parts(Header) + 1, Len(pipe))
    /\ skewed' = ~Whole
    /\ UNCHANGED writing
===============================================================================
