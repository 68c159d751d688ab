---------------------------- MODULE Compression ----------------------------
(***************************************************************************)
(* src/src/compression.c: rs_compress and rs_decompress push data through  *)
(* zlib by way of buffers of a fixed size, and put the output together     *)
(* with realloc and memcpy.                                                *)
(*                                                                         *)
(* Data is a sequence of units, numbered from 1.  A compressed stream has  *)
(* a head, a unit for each unit of data, and a foot.  zlib is external: it *)
(* takes all the input it gets unless it runs out of room for output, and  *)
(* is free to hold output back until it is told to finish.                 *)
(***************************************************************************)
EXTENDS Integers, Sequences, FiniteSetsExt

CONSTANTS
    Large,     \* RS_Z_BUFFER_SIZE, in units
    Small,     \* RS_Z_SMALL_BUFFER_SIZE
    MaxLen,    \* bound: units of data
    NULL

ASSUME BufferAssumption ==
    /\ {Large, Small} \subseteq Nat \ {0} /\ MaxLen \in Nat
    /\ NULL \notin Seq(Int)

Known == {"gzip", "zlib"}
Format == Known \cup {"unknown"}
Encoding == Format \cup {"auto"}

\* A compressed stream: `size' units come out of it before it turns out to be
\* complete, to be cut off, or to be faulty (or to need a dictionary).
Stream == [format : Format, size : 0 .. MaxLen, then : {"whole", "cut", "faulty"}]

NoStream == [format |-> "unknown", size |-> 0, then |-> "cut"]

\* Units of a buffer that are not data (and so not positive, to be told from
\* data): the two ends of a stream, and fresh memory.
First == 0
Foot == -1
Junk == -2
Unit == 1 .. MaxLen \cup {First, Foot, Junk}

VARIABLES
    pc,         \* where in which function, or which function has returned
    enc,
    stream,     \* input of rs_decompress
    rawlen,     \* length of the input of rs_compress
    copied,     \* input_read_head: how much of it was copied for zlib
    avail_in,   \* how much of that zlib has not taken
    finishing,  \* flush = Z_FINISH
    made,       \* units zlib has put out
    out,        \* *outdata or *gzdata
    write_head, \* output_write_head; *gzdatalen in rs_compress
    avail_out,
    ret         \* of the last call of zlib

vars == <<pc, enc, stream, rawlen, copied, avail_in, finishing, made, out,
          write_head, avail_out, ret>>

Init ==
    /\ pc = "idle" /\ enc = "auto" /\ stream = NoStream
    /\ rawlen = 0 /\ copied = 0 /\ avail_in = 0 /\ finishing = FALSE
    /\ made = 0 /\ out = NULL /\ write_head = 0 /\ avail_out = 0 /\ ret = "ok"

\* The heads stay in their buffers and the output is made of known units; no
\* length exceeds what the input can give.
TypeOK ==
    /\ pc \in {"idle", "inflate", "inflated", "decompressed",
               "copy", "deflate", "compressed"}
    /\ enc \in Encoding
    /\ stream \in Stream
    /\ {rawlen, copied} \subseteq 0 .. MaxLen
    /\ avail_in \in 0 .. Large
    /\ finishing \in BOOLEAN
    /\ made \in 0 .. MaxLen + 2
    /\ out = NULL \/ out \in Seq(Unit)
    /\ write_head \in 0 .. MaxLen + 2
    /\ avail_out \in 0 .. Max({Large, Small})
    /\ ret \in {"ok", "end", "stuck", "error"}

Returned == pc \in {"decompressed", "compressed"}

\* The caller takes what was returned.
Take ==
    /\ Returned
    /\ pc' = "idle" /\ enc' = "auto" /\ stream' = NoStream
    /\ rawlen' = 0 /\ copied' = 0 /\ avail_in' = 0 /\ finishing' = FALSE
    /\ made' = 0 /\ out' = NULL /\ write_head' = 0 /\ avail_out' = 0 /\ ret' = "ok"

Least(a, b) == IF a < b THEN a ELSE b

\* Mutant: each block is copied to the start of the output.
StoreFirst(block, at, len) ==
    out' = [i \in 1 .. len |-> IF i \in DOMAIN block THEN block[i] ELSE Junk]

\* rs_malloc or rs_realloc to length len, then memcpy of block to position at.
Store(block, at, len) ==
    out' = [i \in 1 .. len |->
               IF i - at \in DOMAIN block THEN block[i - at]
               ELSE IF out # NULL /\ i \in DOMAIN out THEN out[i]
               ELSE Junk]

-----------------------------------------------------------------------------
(* rs_decompress.                                                          *)

\* The encoding used: rs_get_compression_type finds it in the first bytes.
Chosen(e, s) == IF e = "auto" THEN s.format ELSE e

Decompress(e, s) ==
    /\ pc = "idle"
    /\ enc' = e /\ stream' = s
    /\ \/ Chosen(e, s) \in Known /\ pc' = "inflate"
       \/ pc' = "decompressed"    \* neither, or inflateInit2 has no memory
    /\ UNCHANGED <<rawlen, copied, avail_in, finishing, made, out, write_head,
                   avail_out, ret>>

\* What inflate may return after putting out n units: it finds what is behind the
\* last unit in the same call or, if that one filled the buffer, in the next.
\* It may run out of memory in any.
InflateResult(n) ==
    LET last == made + n = stream.size
    IN  {"error"}
        \cup (IF n = Large \/ ~last THEN {"ok"} ELSE {})
        \cup (IF ~last THEN {}
              ELSE CASE stream.then = "whole" -> {"end"}
                     [] stream.then = "cut" -> IF n = 0 THEN {"stuck"} ELSE {"ok"}
                     [] OTHER -> {})

\* inflate fills the buffer with as much as it can; a stream of another format
\* than the one chosen is an error from its first byte.
Inflate ==
    /\ pc = "inflate"
    /\ LET n == Least(Large, stream.size - made)
       IN  /\ \E r \in IF Chosen(enc, stream) = stream.format THEN InflateResult(n)
                       ELSE {"error"} :
                 /\ r # "error"
                 /\ ret' = r
           /\ made' = made + n
           /\ avail_out' = Large - n
           /\ Store([i \in 1 .. n |-> made + i], write_head,
                    IF out = NULL THEN n ELSE Len(out) + n)
           /\ write_head' = write_head + n
           /\ pc' = IF avail_out' = 0 THEN "inflate" ELSE "inflated"
    /\ UNCHANGED <<enc, stream, rawlen, copied, avail_in, finishing>>

InflateError ==
    /\ pc = "inflate"
    /\ ret' = "error"
    /\ out' = NULL
    /\ pc' = "decompressed"
    /\ UNCHANGED <<enc, stream, rawlen, copied, avail_in, finishing, made, write_head,
                   avail_out>>

\* Mutant: what has come out is returned, complete or not.
InflatedSoFar ==
    /\ pc = "inflated"
    /\ pc' = "decompressed"
    /\ UNCHANGED <<enc, stream, rawlen, copied, avail_in, finishing, made, out, write_head,
                   avail_out, ret>>

\* Input that ends before its stream does is an error.
Inflated ==
    /\ pc = "inflated"
    /\ out' = IF ret = "end" THEN out ELSE NULL
    /\ pc' = "decompressed"
    /\ UNCHANGED <<enc, stream, rawlen, copied, avail_in, finishing, made, write_head,
                   avail_out, ret>>

-----------------------------------------------------------------------------
(* rs_compress.                                                            *)

Compress(e, n) ==
    /\ pc = "idle"
    /\ enc' = e /\ rawlen' = n
    /\ \/ e \in Known /\ pc' = "copy"
       \/ pc' = "compressed"      \* neither, or deflateInit2 has no memory
    /\ UNCHANGED <<stream, copied, avail_in, finishing, made, out, write_head,
                   avail_out, ret>>

\* Mutant: zlib is never told that the input has ended.
CopyWithoutEnd ==
    /\ pc = "copy"
    /\ LET copylen == Least(Large, rawlen - copied)
       IN  copied' = copied + copylen /\ avail_in' = copylen
    /\ finishing' = FALSE
    /\ pc' = "deflate"
    /\ UNCHANGED <<enc, stream, rawlen, made, out, write_head, avail_out, ret>>

CopyIn ==
    /\ pc = "copy"
    /\ LET copylen == Least(Large, rawlen - copied)
       IN  copied' = copied + copylen /\ avail_in' = copylen
    /\ finishing' = (copied' = rawlen)
    /\ pc' = "deflate"
    /\ UNCHANGED <<enc, stream, rawlen, made, out, write_head, avail_out, ret>>

\* Unit i of the stream that rs_compress makes of its input.
StreamUnit(i) ==
    IF i = 1 THEN First ELSE IF i = rawlen + 2 THEN Foot ELSE i - 1

\* deflate takes k units and puts out n.  It stops when its input is used up, and
\* all of the stream is out if it is to finish, or when the buffer is full.  The
\* head comes out with the first call.
Deflates(k, n) ==
    LET taken == copied - avail_in + k
        ready == taken + (IF finishing /\ taken = rawlen THEN 2 ELSE 1)
    IN  /\ made + n <= ready
        /\ made = 0 => n > 0
        /\ n = Small \/ (k = avail_in /\ (finishing => made + n = ready))

DeflateResult(n) ==
    IF n = 0 /\ ~finishing THEN {"stuck"}
    ELSE (IF made + n = rawlen + 2 THEN {"end"} ELSE {})
         \cup (IF made + n < rawlen + 2 \/ n = Small THEN {"ok"} ELSE {})

Deflate ==
    /\ pc = "deflate"
    /\ \E k \in 0 .. avail_in, n \in 0 .. Small :
          /\ Deflates(k, n)
          /\ ret' \in DeflateResult(n)
          /\ avail_in' = avail_in - k
          /\ avail_out' = Small - n
          /\ made' = made + n
          /\ Store([i \in 1 .. n |-> StreamUnit(made + i)], write_head, write_head + n)
          /\ write_head' = write_head + n
          /\ pc' = IF avail_out' = 0 THEN "deflate"
                   ELSE IF avail_in' # 0 \/ finishing THEN "compressed"
                   ELSE "copy"
    /\ UNCHANGED <<enc, stream, rawlen, copied, finishing>>

-----------------------------------------------------------------------------
Next ==
    \/ \E e \in Encoding, s \in Stream : Decompress(e, s)
    \/ Inflate \/ InflateError \/ Inflated
    \/ \E e \in Encoding, n \in 0 .. MaxLen : Compress(e, n)
    \/ CopyIn \/ Deflate
    \/ Take

Spec == Init /\ [][Next]_vars

-----------------------------------------------------------------------------
(* Properties.                                                             *)

\* rs_decompress returns all of the data, in order and without a gap at the
\* seams of the buffer, or NULL; it returns data exactly if zlib found the end of
\* the stream ("In the event of an error, *outdata will be set to NULL",
\* compression.h:46).
DecompressesWhole ==
    pc = "decompressed" =>
        IF ret = "end" THEN stream.then = "whole" /\ out = [i \in 1 .. stream.size |-> i]
        ELSE out = NULL

\* rs_compress returns the whole stream of all its input, or NULL if it did not
\* start.  Its checks that zlib took all input and reached the end of the stream
\* pass (compression.c:213, 217).
CompressesWhole ==
    pc = "compressed" /\ out # NULL =>
        /\ out = [i \in 1 .. rawlen + 2 |-> StreamUnit(i)]
        /\ avail_in = 0
        /\ ret = "end"
=============================================================================
