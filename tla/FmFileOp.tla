------------------------------ MODULE FmFileOp ------------------------------
(***************************************************************************)
(* The two helpers through which both ends of a transfer touch a file,     *)
(* fmReadFile and fmWriteFile (FileManFileOp.cpp).  A file is a sequence   *)
(* of blocks.  The block at position i of a SOURCE file has the content i, *)
(* so a block written at a wrong place, twice, or out of an older file is  *)
(* visible in the destination; OldBlock is the content of a destination    *)
(* that is about to be overwritten.                                        *)
(***************************************************************************)
EXTENDS Integers, Sequences

OldBlock == 0

\* The n source blocks that follow position pos.
Slice(pos, n) == [i \in 1 .. n |-> pos + i]

\* Mutant: the end is reported one block too early.
fmReadFileEarlyEnd(size, pos, len) ==
    IF size < pos
    THEN [result |-> "SeekExceed", pos |-> pos, buf |-> <<>>]
    ELSE IF size - pos > len + 1
         THEN [result |-> "Ok", pos |-> pos, buf |-> Slice(pos, len)]
         ELSE [result |-> "ReachEnd", pos |-> pos,
               buf |-> Slice(pos, IF size - pos > len THEN len ELSE size - pos)]

\* fmReadFile on a source of `size' blocks.  Past the end nothing but the
\* result is put on the wire; up to `len' blocks are sent, and the last of
\* them are marked "ReachEnd" (exactly len left counts as the end).
fmReadFile(size, pos, len) ==
    IF size < pos
    THEN [result |-> "SeekExceed", pos |-> pos, buf |-> <<>>]
    ELSE IF size - pos > len
         THEN [result |-> "Ok", pos |-> pos, buf |-> Slice(pos, len)]
         ELSE [result |-> "ReachEnd", pos |-> pos, buf |-> Slice(pos, size - pos)]

\* fmReadFile when fopen fails.
fmReadFileNoOpen(pos) == [result |-> "NotExist", pos |-> pos, buf |-> <<>>]

\* Mutant: the position is not compared with the length of the file.
fmWriteFileAnywhere(file, seg, wrote) ==
    [ret |-> Len(seg.buf), file |-> file \o SubSeq(seg.buf, 1, wrote)]

\* Mutant: a segment that is already there is refused.
fmWriteFileNoTail(file, seg, wrote) ==
    IF seg.pos = Len(file)
    THEN [ret |-> Len(seg.buf), file |-> file \o SubSeq(seg.buf, 1, wrote)]
    ELSE [ret |-> -1, file |-> file]

\* fmWriteFile on an opened file: append at the end, accept a segment that
\* is already the tail of the file, refuse everything else.  fwrite stores
\* `wrote' blocks and its result is not looked at.
fmWriteFile(file, seg, wrote) ==
    IF seg.pos = Len(file)
    THEN [ret |-> Len(seg.buf), file |-> file \o SubSeq(seg.buf, 1, wrote)]
    ELSE IF seg.pos + Len(seg.buf) = Len(file)
         THEN [ret |-> Len(seg.buf), file |-> file]
         ELSE [ret |-> -1, file |-> file]
=============================================================================
