------------------------------ MODULE Sources ------------------------------
(***************************************************************************)
(* The sources of src/parser.zig: a buffer, a stdio stream, and the two    *)
(* functions of a user.  Each has a get and a peek, and counts the bytes   *)
(* it has given in position.                                               *)
(*                                                                         *)
(* A stream may be shared with a reader of its own, which takes bytes      *)
(* between two calls.  The functions of the user behave as those of a      *)
(* buffer the user keeps.                                                  *)
(***************************************************************************)
EXTENDS Integers, Sequences

CONSTANTS
  Inputs,     \* the inputs tried: sequences of "byte" and "ff", the byte 0xFF
  Signed,     \* char is signed on the target
  Fixed       \* -Dfix-0xff

ASSUME SourcesAssumption ==
  /\ Inputs \subseteq Seq({"byte", "ff"})
  /\ {Signed, Fixed} \subseteq BOOLEAN

VARIABLES
  sourceKind,        \* "buffer", "stream" or "user"
  inputBytes,
  position,    \* source->position
  file,        \* the offset of the stream, or of the user
  lastCall, given, \* ghost: the last call, "get", "peek" or another's "read", and what it gave
  taken        \* ghost: bytes that gets gave

sourceVars == <<sourceKind, inputBytes, position, file, lastCall, given, taken>>

Eof == "eof"

SourceInit ==
  /\ sourceKind \in {"buffer", "stream", "user"}
  /\ inputBytes \in Inputs
  /\ position = 0 /\ file = 0
  /\ lastCall = "none" /\ given = "none" /\ taken = 0

(* byteAsC: where char is signed, 0xFF is the end. *)
ByteAsC(b) == IF b = "ff" /\ Signed /\ ~Fixed THEN Eof ELSE b

BufferByte == IF position < Len(inputBytes) THEN ByteAsC(inputBytes[position + 1]) ELSE Eof
FileByte   == IF file < Len(inputBytes) THEN inputBytes[file + 1] ELSE Eof

Gave(c) == lastCall' = "get" /\ given' = c /\ taken' = IF c = Eof THEN taken ELSE taken + 1

Counts(c) == position' = IF c = Eof THEN position ELSE position + 1

BufferGet ==
  /\ sourceKind = "buffer"
  /\ Gave(BufferByte) /\ Counts(BufferByte)
  /\ UNCHANGED <<sourceKind, inputBytes, file>>

(* fgetc, or the user's get. *)
FileGet ==
  /\ sourceKind \in {"stream", "user"}
  /\ Gave(FileByte) /\ Counts(FileByte)
  /\ file' = IF FileByte = Eof THEN file ELSE file + 1
  /\ UNCHANGED <<sourceKind, inputBytes>>

Shows(c) == lastCall' = "peek" /\ given' = c /\ UNCHANGED <<sourceKind, inputBytes, position, taken>>

BufferPeek == sourceKind = "buffer" /\ Shows(BufferByte) /\ UNCHANGED file

UserPeek == sourceKind = "user" /\ Shows(FileByte) /\ UNCHANGED file

(* A slip: the byte is not pushed back. *)
StreamPeekTaking ==
  /\ sourceKind = "stream"
  /\ Shows(FileByte)
  /\ file' = IF FileByte = Eof THEN file ELSE file + 1

(* fgetc, and ungetc where it gave a byte. *)
StreamPeek ==
  /\ sourceKind = "stream"
  /\ LET after  == IF FileByte = Eof THEN file ELSE file + 1
         pushed == IF FileByte = Eof THEN after ELSE after - 1
     IN  file' = pushed
  /\ Shows(FileByte)

(* Another reader of the stream. *)
Foreign ==
  /\ sourceKind = "stream" /\ file < Len(inputBytes)
  /\ file' = file + 1
  /\ lastCall' = "read" /\ given' = inputBytes[file + 1]
  /\ UNCHANGED <<sourceKind, inputBytes, position, taken>>

SourcesNext == BufferGet \/ FileGet \/ BufferPeek \/ UserPeek \/ StreamPeek \/ Foreign

SourcesSpec == SourceInit /\ [][SourcesNext]_sourceVars

-----------------------------------------------------------------------------
(***************************************************************************)
(* What the parser takes for granted of a source: the end once given stays *)
(* the end, even where it is the byte 0xFF in the middle of a buffer, what *)
(* peek shows is what the next get gives if no one else reads between, and *)
(* position is what gets gave, whatever was peeked at or read by others.   *)
(***************************************************************************)
SourceIsSteady ==
  [][/\ given = Eof => given' = Eof
     /\ lastCall = "peek" /\ lastCall' = "get" => given' = given
     /\ position' = taken']_sourceVars
=============================================================================
