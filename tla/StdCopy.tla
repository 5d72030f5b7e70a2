------------------------------ MODULE StdCopy ------------------------------
(***************************************************************************)
(* The copier of a step's output: StdCopy                                  *)
(* (internal/docker/stdcopy/stdcopy.go) on the goroutine that Docker's     *)
(* tail starts for a container, and for a process of the host the copying  *)
(* of os/exec.  The daemon multiplexes the output of a container into      *)
(* frames, a header and a payload; the copier reads whatever has arrived,  *)
(* keeps what it has read of the next frames in its buffer, and hands each *)
(* payload to the writer of the step's log.  It only reads and decodes     *)
(* here; the writes are steps of the module that owns the writer.          *)
(*                                                                         *)
(* Abstraction: a byte is a natural number.  A header is HeaderLen bytes:  *)
(* the stream first, the size of the payload, one byte instead of four,    *)
(* last.                                                                   *)
(***************************************************************************)
EXTENDS Integers, SequencesExt

CONSTANTS HeaderLen,      \* stdWriterPrefixLen
          StartingBufLen  \* startingBufLen

ASSUME StdCopyAssumption ==
    /\ HeaderLen \in Nat /\ HeaderLen >= 2
    /\ StartingBufLen \in Nat /\ StartingBufLen > HeaderLen

Streams == 0..2  \* Stdin, Stdout, Stderr

VARIABLES
    wire,   \* the connection to the daemon, or the pipe to the process: bytes that have not
            \* been read, state, and for the properties only sent (the chunks put on it) and
            \* cut (bytes were lost)
    copier  \* the copier: pc, buf (what it has read and not dropped), cap (the length of its
            \* buffer), and for the properties only handed (the pieces handed to the writer)

stdCopyVars == <<wire, copier>>

Chunk == [stream : Nat, data : Seq(Nat)]

StdCopyTypeOK ==
    /\ wire \in [bytes : Seq(Nat), state : {"open", "eof", "broken"}, sent : Seq(Chunk),
                 cut : BOOLEAN]
    /\ copier \in [pc : {"off", "header", "frame", "write", "raw", "rawwrite", "eof", "failed"},
                   buf : Seq(Nat), cap : Nat, handed : Seq(Seq(Nat))]

StdCopyInit ==
    /\ wire = [bytes |-> <<>>, state |-> "open", sent |-> <<>>, cut |-> FALSE]
    /\ copier = [pc |-> "off", buf |-> <<>>, cap |-> 0, handed |-> <<>>]

-----------------------------------------------------------------------------
(* The other end: the daemon (stdWriter.Write), or the process itself.      *)

Header(chunk) ==
    [i \in 1..HeaderLen |-> CASE i = 1 -> chunk.stream
                              [] i = HeaderLen -> Len(chunk.data)
                              [] OTHER -> 0]

Encode(chunk) == Header(chunk) \o chunk.data

Transmit(chunk, framed) ==
    /\ wire.state = "open"
    /\ wire' = [wire EXCEPT !.bytes = @ \o (IF framed THEN Encode(chunk) ELSE chunk.data),
                            !.sent = Append(@, chunk)]
    /\ UNCHANGED copier

\* The connection ends with all but the last `lost` bytes that are under way.
HangUp(state, lost) ==
    /\ wire.state = "open"
    /\ wire' = [wire EXCEPT !.state = state, !.bytes = SubSeq(@, 1, Len(@) - lost),
                            !.cut = lost > 0]
    /\ UNCHANGED copier

-----------------------------------------------------------------------------
(* StdCopy.                                                                 *)

Room      == copier.cap - Len(copier.buf)  \* len(buf[nr:])
FrameSize == copier.buf[HeaderLen]
Needed    == IF copier.pc = "header" THEN HeaderLen ELSE HeaderLen + FrameSize
Payload   == SubSeq(copier.buf, HeaderLen + 1, HeaderLen + FrameSize)

Copies(l) == copier.pc = l /\ UNCHANGED wire

StdCopyStart ==
    /\ Copies("off")
    /\ copier' = [copier EXCEPT !.pc = "header", !.cap = StartingBufLen]

\* A read returns between one byte and what has arrived and fits; none into a full buffer.
ReadSome(n) ==
    /\ copier.pc \in {"header", "frame"}
    /\ Len(copier.buf) < Needed
    /\ n <= Room
    /\ n <= Len(wire.bytes)
    /\ copier' = [copier EXCEPT !.buf = @ \o SubSeq(wire.bytes, 1, n)]
    /\ wire' = [wire EXCEPT !.bytes = SubSeq(@, n + 1, Len(@))]

\* At the end of the connection a frame that is not whole is dropped.
ReadEnd ==
    /\ copier.pc \in {"header", "frame"} /\ UNCHANGED wire
    /\ Len(copier.buf) < Needed
    /\ wire.bytes = <<>>
    /\ wire.state # "open"
    /\ Room > 0
    /\ copier' = [copier EXCEPT !.pc = IF wire.state = "eof" THEN "eof" ELSE "failed"]

\* Mutant: the header is forgotten when the buffer is extended.
TightExtend(size) == IF size > copier.cap THEN size ELSE copier.cap

Extend(size) ==
    IF size + HeaderLen > copier.cap THEN size + HeaderLen + 1 ELSE copier.cap

\* A header is there: the stream must be one of the three, the buffer must hold the frame.
HeaderDone ==
    /\ Copies("header")
    /\ Len(copier.buf) >= HeaderLen
    /\ copier' = IF copier.buf[1] \in Streams
                 THEN [copier EXCEPT !.pc = "frame", !.cap = Extend(FrameSize)]
                 ELSE [copier EXCEPT !.pc = "failed"]

FrameDone ==
    /\ Copies("frame")
    /\ Len(copier.buf) >= Needed
    /\ copier' = [copier EXCEPT !.pc = "write"]

\* Mutant: what was read past the frame is dropped with it.
DropRest(buf) == <<>>

\* What was read past the frame moves to the beginning of the buffer.
AfterFrame(buf) == SubSeq(buf, HeaderLen + FrameSize + 1, Len(buf))

\* The writer has returned n: the frame is done with, or not fully written.
FrameWritten(n) ==
    /\ Copies("write")
    /\ copier' = IF n = FrameSize
                 THEN [copier EXCEPT !.pc = "header", !.buf = AfterFrame(copier.buf),
                                     !.handed = Append(@, Payload)]
                 ELSE [copier EXCEPT !.pc = "failed", !.handed = Append(@, Payload)]

StdCopyStep ==
    \/ \E n \in 1..Len(wire.bytes) : ReadSome(n)
    \/ ReadEnd
    \/ HeaderDone
    \/ FrameDone

-----------------------------------------------------------------------------
(* os/exec: every read is handed on as it is.                               *)

RawStart == Copies("off") /\ copier' = [copier EXCEPT !.pc = "raw"]

RawRead(n) ==
    /\ copier.pc = "raw"
    /\ copier' = [copier EXCEPT !.pc = "rawwrite", !.buf = SubSeq(wire.bytes, 1, n)]
    /\ wire' = [wire EXCEPT !.bytes = SubSeq(@, n + 1, Len(@))]

RawEnd ==
    /\ Copies("raw")
    /\ wire.bytes = <<>>
    /\ wire.state # "open"
    /\ copier' = [copier EXCEPT !.pc = "eof"]

RawWritten ==
    /\ Copies("rawwrite")
    /\ copier' = [copier EXCEPT !.pc = "raw", !.buf = <<>>, !.handed = Append(@, copier.buf)]

RawStep == RawEnd \/ \E n \in 1..Len(wire.bytes) : RawRead(n)
=============================================================================
