------------------------------ MODULE NBTStore ------------------------------
(***************************************************************************)
(* Documents in files and in regions: rs_nbt_parse_from_file,              *)
(* rs_nbt_parse_from_region, rs_nbt_write_to_file and                      *)
(* rs_nbt_write_to_region of src/src/nbt.c, on top of the loops of module  *)
(* Compression and of the region that module RegionStore promises.         *)
(*                                                                         *)
(* A file is written through stdio, a unit of the compressed stream at a   *)
(* time, and read through a mapping that other processes may write under.  *)
(* One such process saves documents to the same file; nothing locks it.    *)
(* The disk may be full, and any process may die.                          *)
(*                                                                         *)
(* A document is told by its length in units.  That the writer and the     *)
(* parser invert each other, and that the parser takes nothing but whole   *)
(* documents, is shown by module NBT.                                      *)
(***************************************************************************)
EXTENDS Compression

CONSTANTS
    Doc,       \* documents that have a root
    MaxFds,    \* files the process may have open at once
    Absent, Torn, Nothing    \* see RegionStore

ASSUME DocAssumption ==
    /\ Doc \subseteq 1 .. MaxLen /\ MaxFds \in Nat
    /\ NULL \notin Int \cup [doc : Int, at : Int]
    /\ {Absent, Torn, Nothing} \cap Seq(Int) = {}

VARIABLES
    use,       \* what this process works with: "buffer", "file" or "region"
    nbt,       \* its document
    call,      \* the function in progress, or just returned
    answer,    \* what the last save returned
    file,      \* units by the document they belong to, or NULL for no file
    mapped,    \* what the parser has read of its mapping, and would read
    written,   \* units of the stream that fwrite has put into the file
    fds,       \* descriptors in use
    other,     \* the document another process is saving, and how far it is
    store, pending, mode,
    whole,     \* history: the documents a load in progress may give
    unsaved,   \* history: the document that waits for a flush
    spoilt,    \* history: the file was interfered with since it was opened
    loads      \* history: the files this process has mapped to load from

carrier == <<store, pending, mode>>
history == <<whole, unsaved, spoilt, loads>>
caller == <<use, nbt, call, answer, mapped, written, fds>>
svars == <<vars, caller, file, other, carrier, history>>

Rootless == 0
Gap == 0           \* zeros in a file, or behind its end
One == "chunk"

StreamOf(d) == [i \in 1 .. d + 2 |-> IF i = 1 THEN First ELSE IF i = d + 2 THEN Foot ELSE i - 1]

Streams == {StreamOf(d) : d \in Doc}

\* The region has one chunk, and no other that could be read for it: each stream has
\* a date of its own.
R == INSTANCE RegionStore WITH
        Chunk <- {One}, Value <- Streams, Date <- [s \in Streams |-> s]

\* The call in progress, the file, and what the other process is at.
CallTypeOK ==
    /\ TypeOK
    /\ use \in {"buffer", "file", "region"}
    /\ nbt \in Doc \cup {NULL, Rootless}
    /\ call \in {"none", "save", "writing", "closing", "saved", "load", "loaded", "faulted"}
    /\ answer \in BOOLEAN
    /\ file = NULL \/ file \in Seq(Doc \cup {Gap})
    /\ mapped \in Seq(Doc \cup {Gap})
    /\ written \in 0 .. MaxLen + 2
    /\ fds \in 0 .. MaxFds
    /\ other # NULL => other.doc \in Doc /\ other.at \in 0 .. other.doc + 2
    /\ whole \subseteq Doc \cup {NULL} /\ unsaved \in Doc \cup {NULL}
    /\ spoilt \in BOOLEAN

\* The region holds, and has outstanding, nothing but whole streams.
RegionTypeOK ==
    /\ store \in [{One} -> Streams \cup {Absent, Torn}]
    /\ pending \in [{One} -> Streams \cup {Nothing}]
    /\ mode \in {"closed", "ro", "rw"}

\* A save gives its descriptor back, on every way out and once; a load that has
\* mapped its file never does (nbt.c:62-75).
DescriptorsOK ==
    /\ loads \in Nat
    /\ fds = loads + (IF call \in {"writing", "closing"} THEN 1 ELSE 0)

\* Everything stays in its type.  The process has a descriptor for each file it has
\* mapped since it began, and for the one it is writing: no more and no fewer, and
\* never more than it may have.
StoreTypeOK == CallTypeOK /\ RegionTypeOK /\ DescriptorsOK

StoreInit ==
    /\ Init
    /\ use \in {"buffer", "file", "region"}
    /\ nbt = NULL /\ call = "none" /\ answer = FALSE
    /\ file = NULL /\ mapped = <<>> /\ written = 0 /\ fds = 0 /\ other = NULL
    /\ store = [c \in {One} |-> Absent] /\ pending = R!NonePending /\ mode = "closed"
    /\ whole = {} /\ unsaved = NULL /\ spoilt = FALSE /\ loads = 0

Idle == call = "none" /\ pc = "idle"

-----------------------------------------------------------------------------
(* The document in memory.                                                 *)

\* rs_nbt_new, rs_nbt_set_root and rs_nbt_free, each with nothing else in progress.
HoldDocument(d) ==
    /\ Idle /\ use # "buffer"
    /\ nbt = NULL => d \in {NULL, Rootless}
    /\ nbt' = d
    /\ UNCHANGED <<vars, use, call, answer, file, mapped, written, fds, other, carrier, history>>

\* The document in what rs_decompress returned: the parser takes it if it is whole.
Parsed(data) == IF data # NULL /\ Len(data) \in Doc THEN Len(data) ELSE NULL

-----------------------------------------------------------------------------
(* Files.                                                                  *)

\* What zlib finds in the units s.
StreamIn(s) ==
    LET d == s[1]
        n == Max({i \in DOMAIN s : \A j \in 1 .. i : s[j] = d})
    IN  IF d = Gap THEN NoStream
        ELSE [format |-> "gzip", size |-> Least(n - 1, d),
              then |-> IF n >= d + 2 THEN "whole" ELSE IF n = Len(s) THEN "cut" ELSE "faulty"]

Readable(f) ==
    IF f = NULL \/ f = <<>> THEN NULL
    ELSE IF StreamIn(f).then = "whole" THEN StreamIn(f).size ELSE NULL

UnitAt(f, i) == IF i \in DOMAIN f THEN f[i] ELSE Gap

\* f with the units of d behind position `from', up to `to'.
Overlay(f, from, to, d) ==
    [i \in 1 .. Max({Len(f), to}) |-> IF i \in from + 1 .. to THEN d ELSE UnitAt(f, i)]

\* The units of its mapping that a load has behind it.
Consumed == IF pc = "inflate" THEN made + 1 ELSE 0

\* The file becomes f.  The process sees that in its mapping, as far as it has not
\* read yet; the mapping keeps its length.
Becomes(f) ==
    /\ file' = f
    /\ IF call = "load" /\ pc \in {"idle", "inflate"}
       THEN /\ mapped' = [i \in DOMAIN mapped |-> IF i <= Consumed THEN mapped[i] ELSE UnitAt(f, i)]
            /\ stream' = IF pc = "inflate" THEN StreamIn(mapped') ELSE stream
            /\ whole' = whole \cup {Readable(f)}
       ELSE UNCHANGED <<mapped, stream, whole>>
    /\ UNCHANGED <<pc, enc, rawlen, copied, avail_in, finishing, made, out, write_head,
                   avail_out, ret>>

\* Another process saves d.  What it does while this one is in rs_compress it might
\* as well do before.
OtherSaves ==
    /\ use = "file" /\ pc \notin {"copy", "deflate"}
    /\ \/ /\ other = NULL
          /\ \E d \in Doc : other' = [doc |-> d, at |-> 0]
          /\ Becomes(<<>>)
       \/ /\ other # NULL
          /\ \E k \in other.at + 1 .. other.doc + 2 :
                /\ other' = [other EXCEPT !.at = k]
                /\ Becomes(Overlay(file, other.at, k, other.doc))
    /\ spoilt' = (call \in {"writing", "closing", "saved"})
    /\ UNCHANGED <<use, nbt, call, answer, written, fds, carrier, unsaved, loads>>

\* It is done, or has died.
OtherStops ==
    /\ other # NULL
    /\ other' = NULL
    /\ UNCHANGED <<vars, caller, file, carrier, history>>

-----------------------------------------------------------------------------
(* Saving.                                                                 *)

\* rs_nbt_write measures, fills a buffer and has it compressed.
SaveStart ==
    /\ Idle /\ nbt # NULL
    /\ use = "file" \/ mode # "closed"
    /\ IF nbt = Rootless
       THEN call' = "saved" /\ UNCHANGED vars
       ELSE call' = "save" /\ Compress(IF use = "file" THEN "gzip" ELSE "zlib", nbt)
    /\ answer' = FALSE
    /\ UNCHANGED <<use, nbt, file, mapped, written, fds, other, carrier, history>>

\* rs_nbt_write, or fopen, has failed.
SaveFails ==
    /\ call = "save" /\ pc = "compressed"
    /\ out = NULL \/ use = "file"
    /\ call' = "saved"
    /\ Take
    /\ UNCHANGED <<use, nbt, answer, file, mapped, written, fds, other, carrier, history>>

\* Mutant: the file is opened before there is anything to write to it.
OpenEarly ==
    /\ call = "save" /\ pc = "copy" /\ use = "file"
    /\ fds < MaxFds /\ fds' = fds + 1
    /\ file' = <<>>
    /\ call' = "writing" /\ written' = 0 /\ spoilt' = FALSE
    /\ UNCHANGED <<vars, use, nbt, answer, mapped, other, carrier, whole, unsaved, loads>>

\* fopen truncates the file.
SaveOpen ==
    /\ call = "save" /\ pc = "compressed" /\ use = "file" /\ out # NULL
    /\ fds < MaxFds /\ fds' = fds + 1
    /\ file' = <<>>
    /\ call' = "writing" /\ written' = 0 /\ spoilt' = FALSE
    /\ UNCHANGED <<vars, use, nbt, answer, mapped, other, carrier, whole, unsaved, loads>>

\* Mutant: what fwrite returns is not looked at.
WriteBlindly ==
    /\ call = "writing"
    /\ \E k \in 0 .. Len(out) : file' = Overlay(file, 0, k, nbt)
    /\ call' = "closing" /\ written' = Len(out)
    /\ UNCHANGED <<vars, use, nbt, answer, mapped, fds, other, carrier, history>>

\* Mutant: a save that cannot write everything returns without fclose.
WriteLeaks ==
    /\ call = "writing"
    /\ \E k \in 0 .. Len(out) :
          /\ file' = Overlay(file, 0, k, nbt)
          /\ \/ call' = "closing" /\ written' = k /\ UNCHANGED vars
             \/ k < Len(out) /\ call' = "saved" /\ UNCHANGED written /\ Take
    /\ UNCHANGED <<use, nbt, answer, mapped, fds, other, carrier, history>>

\* fwrite hands k units to the file, and keeps the others in its buffer unless the
\* disk is full.
SaveWrite ==
    /\ call = "writing"
    /\ \E k \in 0 .. Len(out) :
          /\ file' = Overlay(file, 0, k, nbt)
          /\ \/ call' = "closing" /\ written' = k /\ UNCHANGED <<vars, fds>>
             \/ k < Len(out) /\ call' = "saved" /\ fds' = fds - 1 /\ UNCHANGED written /\ Take
    /\ UNCHANGED <<use, nbt, answer, mapped, other, carrier, history>>

\* fclose writes what is in the buffer.  If the disk is full now nobody is told.
SaveClose ==
    /\ call = "closing"
    /\ \E k \in written .. Len(out) :
          /\ file' = Overlay(file, written, k, nbt)
          /\ spoilt' = (spoilt \/ k < Len(out))
    /\ answer' = TRUE /\ call' = "saved" /\ fds' = fds - 1
    /\ Take
    /\ UNCHANGED <<use, nbt, mapped, written, other, carrier, whole, unsaved, loads>>

\* rs_nbt_write_to_region.  A handle that is not writable takes nothing, which the
\* caller does not learn.
SaveToRegion ==
    /\ call = "save" /\ pc = "compressed" /\ use = "region" /\ out # NULL
    /\ \/ R!Put(One, out) /\ unsaved' = nbt
       \/ mode # "rw" /\ UNCHANGED <<carrier, unsaved>>
    /\ answer' = TRUE /\ call' = "saved"
    /\ Take
    /\ UNCHANGED <<use, nbt, file, mapped, written, fds, other, whole, spoilt, loads>>

-----------------------------------------------------------------------------
(* Loading.                                                                *)

\* There is no file, it is empty, or one of open, fstat and mmap fails.
LoadNothing ==
    /\ Idle /\ use = "file" /\ nbt = NULL
    /\ call' = "loaded"
    /\ UNCHANGED <<vars, use, nbt, answer, file, mapped, written, fds, other, carrier, history>>

\* The descriptor stays open.
LoadOpen ==
    /\ Idle /\ use = "file" /\ nbt = NULL
    /\ file # NULL /\ file # <<>>
    /\ fds < MaxFds /\ fds' = fds + 1 /\ loads' = loads + 1
    /\ mapped' = file
    /\ whole' = {Readable(file)}
    /\ call' = "load"
    /\ UNCHANGED <<vars, use, nbt, answer, file, written, other, carrier, unsaved, spoilt>>

\* rs_get_compression_type looks at the first bytes.
LoadStart ==
    /\ call = "load" /\ use = "file" /\ pc = "idle" /\ file # <<>>
    /\ Decompress(StreamIn(mapped).format, StreamIn(mapped))
    /\ UNCHANGED <<caller, file, other, carrier, history>>

\* A page of the mapping that is behind the end of the file now.
LoadFault ==
    /\ call = "load" /\ use = "file" /\ pc \in {"idle", "inflate"}
    /\ Consumed \in Len(file) .. Len(mapped) - 1
    /\ call' = "faulted"
    /\ UNCHANGED <<vars, use, nbt, answer, file, mapped, written, fds, other, carrier, history>>

LoadFromRegion ==
    /\ Idle /\ use = "region" /\ nbt = NULL /\ mode # "closed"
    /\ IF store[One] = Absent
       THEN call' = "loaded" /\ UNCHANGED vars
       ELSE /\ call' = "load"
            /\ Decompress("zlib", [format |-> "zlib", size |-> Len(store[One]) - 2,
                  then |-> IF store[One] = StreamOf(Len(store[One]) - 2) THEN "whole" ELSE "faulty"])
    /\ UNCHANGED <<use, nbt, answer, file, mapped, written, fds, other, carrier, history>>

LoadEnd ==
    /\ call = "load" /\ pc = "decompressed"
    /\ nbt' = Parsed(out)
    /\ mapped' = <<>>
    /\ call' = "loaded"
    /\ Take
    /\ UNCHANGED <<use, answer, file, written, fds, other, carrier, history>>

Return ==
    /\ call \in {"saved", "loaded"}
    /\ call' = "none" /\ answer' = FALSE /\ written' = 0 /\ spoilt' = FALSE
    /\ whole' = IF use = "file" THEN {} ELSE whole
    /\ UNCHANGED <<vars, use, nbt, file, mapped, fds, other, carrier, unsaved, loads>>

-----------------------------------------------------------------------------
(* The region, and the end of the process.                                 *)

Flushed == IF unsaved = NULL THEN whole ELSE {unsaved}

RegionStep ==
    /\ Idle /\ use = "region"
    /\ \/ \E m \in {"ro", "rw"} : R!OpenStore(m) /\ UNCHANGED <<whole, unsaved>>
       \/ (R!FlushStore \/ R!CloseStore) /\ whole' = Flushed /\ unsaved' = NULL
    /\ UNCHANGED <<vars, caller, file, other, spoilt, loads>>

\* The process dies, and another takes its place.  A death within rs_compress or
\* rs_decompress leaves what one before leaves.
Crash ==
    /\ use # "buffer"
    /\ IF pc = "idle" \/ call = "faulted" THEN TRUE ELSE Returned
    /\ pc' = "idle" /\ enc' = "auto" /\ stream' = NoStream
    /\ rawlen' = 0 /\ copied' = 0 /\ avail_in' = 0 /\ finishing' = FALSE
    /\ made' = 0 /\ out' = NULL /\ write_head' = 0 /\ avail_out' = 0 /\ ret' = "ok"
    /\ nbt' = NULL /\ call' = "none" /\ answer' = FALSE
    /\ mapped' = <<>> /\ written' = 0 /\ fds' = 0 /\ loads' = 0
    /\ R!CrashStore \/ (mode = "closed" /\ UNCHANGED carrier)
    /\ whole' = IF use = "region" THEN whole \cup Flushed ELSE {}
    /\ unsaved' = NULL /\ spoilt' = FALSE
    /\ UNCHANGED <<use, file, other>>

-----------------------------------------------------------------------------
(* The steps of Compression, for a client that calls it itself or within a *)
(* save or a load.                                                         *)

BufferCall ==
    /\ use = "buffer"
    /\ \/ \E e \in Encoding, s \in Stream : Decompress(e, s)
       \/ \E e \in Encoding, n \in 0 .. MaxLen : Compress(e, n)
    /\ UNCHANGED <<caller, file, other, carrier, history>>

BufferReturn ==
    /\ use = "buffer" /\ Take
    /\ UNCHANGED <<caller, file, other, carrier, history>>

Loop ==
    /\ call # "faulted"
    /\ Inflate \/ InflateError \/ Inflated \/ CopyIn \/ Deflate
    /\ UNCHANGED <<caller, file, other, carrier, history>>

StoreNext ==
    \/ \E d \in Doc \cup {NULL, Rootless} : HoldDocument(d)
    \/ SaveStart \/ SaveFails \/ SaveOpen \/ SaveWrite \/ SaveClose \/ SaveToRegion
    \/ LoadNothing \/ LoadOpen \/ LoadStart \/ LoadFault \/ LoadFromRegion \/ LoadEnd
    \/ Return
    \/ OtherSaves \/ OtherStops
    \/ RegionStep
    \/ Crash
    \/ BufferCall \/ BufferReturn
    \/ Loop

StoreSpec == StoreInit /\ [][StoreNext]_svars

\* What goes on within a call, which one thread does.
Inside ==
    \/ Loop \/ BufferReturn
    \/ SaveFails \/ SaveOpen \/ SaveWrite \/ SaveClose \/ SaveToRegion
    \/ LoadStart \/ LoadFault \/ LoadEnd \/ Return

FairStoreSpec == StoreSpec /\ WF_svars(Inside)

-----------------------------------------------------------------------------
(* Properties.                                                             *)

\* A load gives its caller a document that was whole in the file at some time
\* since the load began, though another process may empty and rewrite the file
\* under the mapping; or one that the region holds since its last flush ("must
\* flush region after writes", nbt.h:28); or none.
LoadedWasSaved == call = "loaded" /\ nbt # NULL => nbt \in whole

\* A save touches the file only once it has the whole stream in hand: one that
\* fails in rs_nbt_write, or for want of a descriptor, leaves the old document
\* (nbt.c:571-579).
FileTouchedLast == [][file' # file /\ other' = other => out = StreamOf(nbt)]_svars

\* When rs_nbt_write_to_file returns true the file reads as the document ("returns
\* true on success", nbt.h:26), unless another process wrote to it meanwhile or
\* the disk was full in fclose, whose result nobody looks at (nbt.c:581-590).
TrueIsWhole ==
    call = "saved" /\ use = "file" /\ answer /\ ~spoilt => Readable(file) = nbt

\* Every call comes to its end or to a fault, whatever the other process does, also
\* where data and buffer end together: a last call of zlib leaves room in the
\* output buffer.
CallsReturn == pc # "idle" \/ call # "none" ~> (pc = "idle" /\ call = "none") \/ call = "faulted"
=============================================================================
