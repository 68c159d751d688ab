-------------------------- MODULE NBTStoreProofs --------------------------
(***************************************************************************)
(* Proofs about NBTStore and Compression: the loops put the whole of their *)
(* output together for buffers of any size, and what is saved and loaded   *)
(* is whole for any documents, any number of descriptors and any moment at *)
(* which another process writes.                                           *)
(*                                                                         *)
(* The argument about loading is the one that is not plain.  What a load   *)
(* has read comes from several versions of the file, so no one version     *)
(* need agree with it.  But a stream is taken only with its foot, and the  *)
(* foot is read last: the version it comes from was whole, since the other *)
(* process writes front to back and empties the file before it begins.     *)
(***************************************************************************)
EXTENDS NBTStore, SequenceLemmas

\* The first n units of the data, and of the stream that is made of it.
Data(n) == [i \in 1 .. n |-> i]
Made(n) == [i \in 1 .. n |-> StreamUnit(i)]

\* Between calls nothing is left of the last one.
AtRest ==
    pc = "idle" =>
        /\ rawlen = 0 /\ copied = 0 /\ avail_in = 0 /\ ~finishing
        /\ made = 0 /\ out = NULL /\ write_head = 0 /\ ret = "ok"

\* rs_decompress has put together what zlib has put out.
Inflating ==
    pc \in {"inflate", "inflated"} =>
        /\ made <= stream.size /\ write_head = made
        /\ IF out = NULL THEN made = 0 /\ pc = "inflate" ELSE out = Data(made)
        /\ pc = "inflated" /\ ret = "end" => stream.then = "whole" /\ made = stream.size

\* rs_compress too, and zlib has put out no more than its input gives.
Deflating ==
    pc \in {"copy", "deflate"} =>
        /\ copied <= rawlen /\ avail_in <= copied /\ write_head = made
        /\ made <= (copied - avail_in) + (IF finishing /\ avail_in = 0 THEN 2 ELSE 1)
        /\ IF out = NULL THEN made = 0 ELSE out = Made(made)
        /\ pc = "copy" => avail_in = 0 /\ ~finishing
        /\ pc = "deflate" => (finishing <=> copied = rawlen)

LoopInv ==
    /\ TypeOK
    /\ AtRest /\ Inflating /\ Deflating
    /\ DecompressesWhole /\ CompressesWhole

\* Which loop a call is in.
CallsInOrder ==
    /\ use = "buffer" => call = "none" /\ nbt = NULL
    /\ use # "buffer" /\ call \in {"none", "saved", "loaded"} => pc = "idle"
    /\ call \in {"save", "writing", "closing"} =>
          /\ nbt \in Doc /\ rawlen = nbt /\ ~answer
          /\ pc \in {"copy", "deflate", "compressed"}
    /\ call \in {"writing", "closing"} =>
          /\ use = "file" /\ pc = "compressed" /\ out # NULL
          /\ file # NULL /\ fds > 0
    /\ call = "closing" => written <= nbt + 2
    /\ call = "load" =>
          /\ nbt = NULL
          /\ pc \in {"idle", "inflate", "inflated", "decompressed"}
          /\ use = "file" \/ pc # "idle"
    /\ other # NULL => other \in [doc : Doc, at : Nat] /\ file # NULL

\* What a save has written stands in the file, unless it was interfered with.
SavedSoFar ==
    use = "file" /\ ~spoilt =>
        /\ call = "writing" => file = <<>>
        /\ call = "closing" => file = [i \in 1 .. written |-> nbt]
        /\ TrueIsWhole

\* A load of a file has some units behind it, and has the others before it as they
\* are in the file now.  Where the other process has written its document, and the
\* load has read a unit of that document, the file holds it too.  If what was read
\* and what is still to be read make a document, the file has held that.
Mapped ==
    call = "load" /\ use = "file" /\ pc \in {"idle", "inflate"} =>
        /\ mapped # <<>> /\ file # NULL
        /\ pc = "inflate" => stream = StreamIn(mapped)
        /\ \A i \in DOMAIN mapped : i > Consumed => mapped[i] = UnitAt(file, i)
        /\ other # NULL =>
              \A i \in DOMAIN mapped :
                 i <= Consumed /\ i <= other.at /\ mapped[i] = other.doc =>
                    UnitAt(file, i) = other.doc
        /\ \A d \in Doc :
              /\ Consumed <= d + 1
              /\ \A i \in 1 .. Consumed : mapped[i] = d
              /\ \A i \in Consumed + 1 .. d + 2 : UnitAt(file, i) = d
              => d \in whole

\* What a load gives is one of the documents it may give.
Found ==
    /\ call = "load" /\ pc \in {"inflated", "decompressed"} /\ ret = "end" =>
          stream.size \in whole
    /\ call = "load" /\ use = "region" => stream.size \in whole
    /\ LoadedWasSaved

\* The region holds nothing, or the document it may give, or is torn and closed.  A
\* closed one has nothing to flush.
InRegion ==
    use = "region" =>
        /\ \/ store = [c \in {One} |-> Absent]
           \/ \E d \in Doc : d \in whole /\ store = [c \in {One} |-> StreamOf(d)]
           \/ store = [c \in {One} |-> Torn] /\ mode = "closed"
        /\ pending = [c \in {One} |-> IF unsaved = NULL THEN Nothing ELSE StreamOf(unsaved)]
        /\ mode = "closed" => unsaved = NULL

StoreInv ==
    /\ LoopInv /\ CallTypeOK
    /\ CallsInOrder /\ SavedSoFar /\ Mapped /\ Found /\ InRegion

-----------------------------------------------------------------------------
(* The loops.                                                              *)

\* The lesser of two numbers is one of them.
LEMMA LeastIs ==
  ASSUME NEW a \in Int, NEW b \in Int
  PROVE  /\ Least(a, b) \in {a, b} /\ Least(a, b) <= a /\ Least(a, b) <= b
  BY DEF Least

\* The buffers have some size, and units are numbers.
LEMMA Sizes ==
  /\ Large \in Nat /\ Large > 0 /\ Small \in Nat /\ Small > 0 /\ MaxLen \in Nat
  /\ Large <= Max({Large, Small}) /\ Small <= Max({Large, Small})
  /\ Max({Large, Small}) \in Nat
  /\ Unit \subseteq Int
<1>1. Large \in Nat /\ Large > 0 /\ Small \in Nat /\ Small > 0 /\ MaxLen \in Nat
  BY BufferAssumption
<1>2. PICK b \in Nat : Large <= b /\ Small <= b
  BY <1>1
<1>3. Max({Large, Small}) \in {Large, Small} /\ \A y \in {Large, Small} : y <= Max({Large, Small})
  BY <1>1, <1>2, MaxProperties
<1> QED
  BY <1>1, <1>3 DEF Unit, First, Foot, Junk

\* Storing a block behind what is there puts the two together.
LEMMA StorePuts ==
  ASSUME NEW m \in Nat, NEW n \in Nat, NEW g,
         \A i \in 1 .. m + n : i \in DOMAIN g,
         IF out = NULL THEN m = 0 ELSE out = [i \in 1 .. m |-> g[i]],
         Store([i \in 1 .. n |-> g[m + i]], m, m + n)
  PROVE  out' = [i \in 1 .. m + n |-> g[i]]
<1> DEFINE block == [i \in 1 .. n |-> g[m + i]]
<1>1. DOMAIN block = 1 .. n
  OBVIOUS
<1>2. out' = [i \in 1 .. m + n |->
                 IF i - m \in DOMAIN block THEN block[i - m]
                 ELSE IF out # NULL /\ i \in DOMAIN out THEN out[i]
                 ELSE Junk]
  BY DEF Store
<1>3. ASSUME NEW i \in 1 .. m + n
      PROVE  (IF i - m \in DOMAIN block THEN block[i - m]
              ELSE IF out # NULL /\ i \in DOMAIN out THEN out[i] ELSE Junk) = g[i]
  <2>1. CASE i > m
    <3>1. i - m \in 1 .. n /\ m + (i - m) = i
      BY <2>1
    <3> QED
      BY <3>1
  <2>2. CASE i <= m
    <3>1. i - m \notin 1 .. n /\ i \in 1 .. m /\ m # 0
      BY <2>2
    <3>2. out # NULL /\ out = [j \in 1 .. m |-> g[j]]
      BY <3>1
    <3> QED
      BY <1>1, <3>1, <3>2
  <2> QED
    BY <2>1, <2>2
<1> QED
  BY <1>2, <1>3

\* Data and streams are made of units.
LEMMA UnitsOf ==
  ASSUME rawlen \in 0 .. MaxLen
  PROVE  /\ \A n \in 0 .. MaxLen : Data(n) \in Seq(Unit) /\ Len(Data(n)) = n
         /\ \A n \in 0 .. rawlen + 2 : Made(n) \in Seq(Unit) /\ Len(Made(n)) = n
<1>1. MaxLen \in Nat
  BY Sizes
<1>2. ASSUME NEW n \in 0 .. MaxLen PROVE Data(n) \in Seq(Unit) /\ Len(Data(n)) = n
  <2>1. \A i \in 1 .. n : i \in Unit
    BY <1>1 DEF Unit
  <2>2. Data(n) \in [1 .. n -> Unit] /\ n \in Nat
    BY <1>1, <2>1 DEF Data
  <2> QED
    BY <2>2
<1>3. ASSUME NEW n \in 0 .. rawlen + 2 PROVE Made(n) \in Seq(Unit) /\ Len(Made(n)) = n
  <2>1. \A i \in 1 .. n : StreamUnit(i) \in Unit
    BY <1>1 DEF StreamUnit, Unit
  <2>2. Made(n) \in [1 .. n -> Unit] /\ n \in Nat
    BY <1>1, <2>1 DEF Made
  <2> QED
    BY <2>2
<1> QED
  BY <1>2, <1>3

\* What is returned is NULL or a sequence, and no sequence is NULL.
LEMMA NullIsNone ==
  NULL \notin Seq(Unit)
<1>1. ASSUME NEW s \in Seq(Unit) PROVE s \in Seq(Int)
  <2>1. Len(s) \in Nat /\ s \in [1 .. Len(s) -> Unit]
    OBVIOUS
  <2>2. s \in [1 .. Len(s) -> Int]
    BY <2>1, Sizes
  <2> QED
    BY <2>1, <2>2
<1> QED
  BY <1>1, BufferAssumption

\* A round of rs_decompress puts out more of its stream, and no more than there is.
LEMMA LoopInflate ==
  ASSUME LoopInv, Inflate
  PROVE  /\ LoopInv' /\ UNCHANGED <<stream, rawlen>>
         /\ pc = "inflate" /\ pc' \in {"inflate", "inflated"}
         /\ {made, made', stream.size} \subseteq Nat /\ made <= made' /\ made' <= stream.size
         /\ ret' = "end" => stream.then = "whole" /\ made' = stream.size
<1>1. PICK n : /\ n = Least(Large, stream.size - made)
               /\ ret' \in InflateResult(n) /\ ret' # "error"
               /\ made' = made + n /\ avail_out' = Large - n
               /\ Store([i \in 1 .. n |-> made + i], write_head,
                        IF out = NULL THEN n ELSE Len(out) + n)
               /\ write_head' = write_head + n
               /\ pc' = IF avail_out' = 0 THEN "inflate" ELSE "inflated"
  BY DEF Inflate
<1>2. /\ pc = "inflate" /\ UNCHANGED <<enc, stream, rawlen, copied, avail_in, finishing>>
  BY DEF Inflate
<1>3. /\ stream \in Stream /\ made \in Nat /\ rawlen \in 0 .. MaxLen
      /\ stream.size \in 0 .. MaxLen /\ stream.then \in {"whole", "cut", "faulty"}
      /\ made <= stream.size /\ write_head = made
      /\ IF out = NULL THEN made = 0 ELSE out = Data(made)
  <2>1. stream \in Stream /\ made \in 0 .. MaxLen + 2 /\ rawlen \in 0 .. MaxLen
    BY DEF LoopInv, TypeOK
  <2> QED
    BY <1>2, <2>1, Sizes DEF LoopInv, Inflating, Stream
<1>4. n \in Nat /\ n <= Large /\ made + n <= stream.size
      /\ (n # Large => made + n = stream.size)
  <2>1. Large \in Int /\ stream.size - made \in Nat /\ Large > 0
    BY <1>3, Sizes
  <2>2. n \in {Large, stream.size - made} /\ n <= Large /\ n <= stream.size - made
    BY <1>1, <2>1, LeastIs
  <2> QED
    BY <1>3, <2>1, <2>2
<1>5. made + n \in 0 .. MaxLen /\ Large - n \in 0 .. Max({Large, Small})
  BY <1>3, <1>4, Sizes
<1>6. out' = Data(made + n)
  <2>1. PICK g : g = Data(made + n)
    OBVIOUS
  <2>2. \A i \in 1 .. made + n : i \in DOMAIN g /\ g[i] = i
    BY <2>1 DEF Data
  <2>3. [i \in 1 .. n |-> made + i] = [i \in 1 .. n |-> g[made + i]]
    <3>1. \A i \in 1 .. n : g[made + i] = made + i
      BY <1>3, <1>4, <2>2
    <3> QED
      BY <3>1
  <2>4. Data(made) = [i \in 1 .. made |-> g[i]]
    <3>1. \A i \in 1 .. made : g[i] = i
      BY <1>3, <1>4, <2>2
    <3> QED
      BY <3>1 DEF Data
  <2>5. (IF out = NULL THEN n ELSE Len(out) + n) = made + n
    <3>1. made \in 0 .. MaxLen
      BY <1>3, Sizes
    <3>2. Len(Data(made)) = made
      BY <1>3, <3>1, UnitsOf
    <3> QED
      BY <1>3, <1>4, <3>2
  <2>6. Store([i \in 1 .. n |-> g[made + i]], made, made + n)
    BY <1>1, <1>3, <2>3, <2>5
  <2>7. out' = [i \in 1 .. made + n |-> g[i]]
    <3>1. IF out = NULL THEN made = 0 ELSE out = [i \in 1 .. made |-> g[i]]
      BY <1>3, <2>4
    <3> QED
      BY <1>3, <1>4, <2>2, <2>6, <3>1, StorePuts
  <2> QED
    BY <2>2, <2>7 DEF Data
<1>7. out' \in Seq(Unit) /\ out' # NULL
  BY <1>3, <1>5, <1>6, UnitsOf, NullIsNone
<1>8. ret' \in {"ok", "end", "stuck"}
      /\ (ret' = "end" => stream.then = "whole" /\ made + n = stream.size)
  BY <1>1, <1>3 DEF InflateResult
<1>9. TypeOK'
  <2>1. /\ made' \in 0 .. MaxLen + 2 /\ write_head' \in 0 .. MaxLen + 2
        /\ avail_out' \in 0 .. Max({Large, Small})
    BY <1>1, <1>3, <1>5, Sizes
  <2> QED
    BY <1>1, <1>2, <1>7, <1>8, <2>1 DEF LoopInv, TypeOK
<1>10. Inflating'
  BY <1>1, <1>2, <1>3, <1>4, <1>6, <1>7, <1>8 DEF Inflating
<1>11. pc' \in {"inflate", "inflated"}
  BY <1>1
<1>12. LoopInv'
  BY <1>9, <1>10, <1>11 DEF LoopInv, AtRest, Deflating, DecompressesWhole, CompressesWhole
<1>13. {made, made', stream.size} \subseteq Nat /\ made <= made' /\ made' <= stream.size
  BY <1>1, <1>3, <1>4, Sizes, SMTT(30)
<1> QED
  BY <1>1, <1>2, <1>8, <1>11, <1>12, <1>13

\* The ends of rs_decompress.
LEMMA LoopInflated ==
  ASSUME LoopInv, InflateError \/ Inflated
  PROVE  LoopInv' /\ pc' = "decompressed" /\ UNCHANGED <<rawlen, stream>>
                  /\ (out' # NULL => ret' = "end" /\ UNCHANGED ret)
<1>1. CASE InflateError
  <2>1. TypeOK'
    BY <1>1 DEF InflateError, LoopInv, TypeOK
  <2> QED
    BY <1>1, <2>1
       DEF InflateError, LoopInv, AtRest, Inflating, Deflating, DecompressesWhole,
           CompressesWhole
<1>2. CASE Inflated
  <2>1. TypeOK'
    BY <1>2 DEF Inflated, LoopInv, TypeOK
  <2>2. DecompressesWhole'
    <3>1. CASE ret = "end"
      <4>1. stream.then = "whole" /\ made = stream.size /\ out = Data(made)
        BY <1>2, <3>1 DEF Inflated, LoopInv, Inflating
      <4> QED
        BY <1>2, <3>1, <4>1 DEF Inflated, DecompressesWhole, Data
    <3>2. CASE ret # "end"
      BY <1>2, <3>2 DEF Inflated, DecompressesWhole
    <3> QED
      BY <3>1, <3>2
  <2> QED
    BY <1>2, <2>1, <2>2
       DEF Inflated, LoopInv, AtRest, Inflating, Deflating, CompressesWhole
<1> QED
  BY <1>1, <1>2

\* rs_compress copies the next block of its input.
LEMMA LoopCopyIn ==
  ASSUME LoopInv, CopyIn
  PROVE  LoopInv'
<1>1. PICK k : k = Least(Large, rawlen - copied) /\ copied' = copied + k /\ avail_in' = k
  BY DEF CopyIn
<1>2. /\ pc = "copy" /\ pc' = "deflate" /\ finishing' = (copied' = rawlen)
      /\ UNCHANGED <<enc, stream, rawlen, made, out, write_head, avail_out, ret>>
  BY DEF CopyIn
<1>3. /\ rawlen \in 0 .. MaxLen /\ copied \in Nat /\ made \in Nat
      /\ copied <= rawlen /\ avail_in = 0 /\ ~finishing /\ write_head = made
      /\ made <= copied + 1
      /\ IF out = NULL THEN made = 0 ELSE out = Made(made)
  <2>1. rawlen \in 0 .. MaxLen /\ copied \in 0 .. MaxLen /\ made \in 0 .. MaxLen + 2
    BY DEF LoopInv, TypeOK
  <2> QED
    BY <1>2, <2>1, Sizes DEF LoopInv, Deflating
<1>4. k \in Nat /\ k <= Large /\ copied + k <= rawlen
  <2>1. Large \in Int /\ Large > 0 /\ rawlen - copied \in Nat
    BY <1>3, Sizes
  <2>2. k \in {Large, rawlen - copied} /\ k <= Large /\ k <= rawlen - copied
    BY <1>1, <2>1, LeastIs
  <2> QED
    BY <1>3, <2>1, <2>2
<1>5. TypeOK'
  <2>1. copied' \in 0 .. MaxLen /\ avail_in' \in 0 .. Large
    BY <1>1, <1>3, <1>4, Sizes
  <2> QED
    BY <1>2, <2>1 DEF LoopInv, TypeOK
<1>6. Deflating'
  <2>1. Made(made)' = Made(made)
    BY <1>2 DEF Made, StreamUnit
  <2>2. /\ copied' - avail_in' = copied /\ copied' <= rawlen /\ avail_in' <= copied'
        /\ made <= copied + (IF finishing' /\ avail_in' = 0 THEN 2 ELSE 1)
    BY <1>1, <1>3, <1>4
  <2> QED
    BY <1>2, <1>3, <2>1, <2>2 DEF Deflating
<1> QED
  BY <1>2, <1>5, <1>6 DEF LoopInv, AtRest, Inflating, DecompressesWhole, CompressesWhole

\* A call of deflate.  It leaves room in the buffer only if it took all of its input
\* and, where there is no more to come, put out all of the stream.
LEMMA LoopDeflate ==
  ASSUME LoopInv, Deflate
  PROVE  LoopInv' /\ pc' \in {"copy", "deflate", "compressed"} /\ UNCHANGED <<stream, rawlen>>
<1>1. PICK k \in 0 .. avail_in, n \in 0 .. Small :
        /\ Deflates(k, n) /\ ret' \in DeflateResult(n)
        /\ avail_in' = avail_in - k /\ avail_out' = Small - n /\ made' = made + n
        /\ Store([i \in 1 .. n |-> StreamUnit(made + i)], write_head, write_head + n)
        /\ write_head' = write_head + n
        /\ pc' = IF avail_out' = 0 THEN "deflate"
                 ELSE IF avail_in' # 0 \/ finishing THEN "compressed"
                 ELSE "copy"
  BY DEF Deflate
<1>2. pc = "deflate" /\ UNCHANGED <<enc, stream, rawlen, copied, finishing>>
  BY DEF Deflate
<1>2a. finishing <=> copied = rawlen
  BY <1>2 DEF LoopInv, Deflating
<1>3. /\ rawlen \in 0 .. MaxLen /\ rawlen \in Nat /\ copied \in Nat /\ made \in Nat
      /\ avail_in \in Nat /\ avail_in <= Large /\ finishing \in BOOLEAN
      /\ copied <= rawlen /\ avail_in <= copied /\ write_head = made
      /\ IF out = NULL THEN made = 0 ELSE out = Made(made)
  <2>1. /\ rawlen \in 0 .. MaxLen /\ copied \in 0 .. MaxLen /\ made \in 0 .. MaxLen + 2
        /\ avail_in \in 0 .. Large /\ finishing \in BOOLEAN
    BY DEF LoopInv, TypeOK
  <2> QED
    BY <1>2, <2>1, Sizes DEF LoopInv, Deflating
<1>4. k \in Nat /\ n \in Nat /\ k <= avail_in /\ n <= Small
  BY <1>1, <1>3, Sizes
<1>5. PICK r : r = (copied - avail_in + k)
                   + (IF finishing /\ copied - avail_in + k = rawlen THEN 2 ELSE 1)
  OBVIOUS
<1>6. /\ r \in Nat /\ r <= rawlen + 2 /\ made + n <= r
      /\ n = Small \/ (k = avail_in /\ (finishing => made + n = r))
  <2>1. /\ made + n <= r
        /\ n = Small \/ (k = avail_in /\ (finishing => made + n = r))
    BY <1>1, <1>5 DEF Deflates
  <2> QED
    BY <1>3, <1>4, <1>5, <2>1
<1>7. made + n \in 0 .. rawlen + 2
  BY <1>3, <1>4, <1>6
<1>8. out' = Made(made + n)
  <2>1. PICK g : g = Made(made + n)
    OBVIOUS
  <2>2. \A i \in 1 .. made + n : i \in DOMAIN g /\ g[i] = StreamUnit(i)
    BY <2>1 DEF Made
  <2>3. [i \in 1 .. n |-> StreamUnit(made + i)] = [i \in 1 .. n |-> g[made + i]]
    <3>1. \A i \in 1 .. n : g[made + i] = StreamUnit(made + i)
      BY <1>3, <1>4, <2>2
    <3> QED
      BY <3>1
  <2>4. Made(made) = [i \in 1 .. made |-> g[i]]
    <3>1. \A i \in 1 .. made : g[i] = StreamUnit(i)
      BY <1>3, <1>4, <2>2
    <3> QED
      BY <3>1 DEF Made
  <2>5. Store([i \in 1 .. n |-> g[made + i]], made, made + n)
    BY <1>1, <1>3, <2>3
  <2>6. IF out = NULL THEN made = 0 ELSE out = [i \in 1 .. made |-> g[i]]
    BY <1>3, <2>4
  <2>7. out' = [i \in 1 .. made + n |-> g[i]]
    <3>1. made \in Nat /\ n \in Nat /\ \A i \in 1 .. made + n : i \in DOMAIN g
      BY <1>3, <1>4, <2>2
    <3> QED
      BY <2>5, <2>6, <3>1, StorePuts
  <2> QED
    BY <2>2, <2>7 DEF Made
<1>9. \A m : Made(m)' = Made(m)
  BY <1>2 DEF Made, StreamUnit
<1>10. out' \in Seq(Unit) /\ out' # NULL
  BY <1>3, <1>7, <1>8, UnitsOf, NullIsNone
<1>11. TypeOK'
  <2>1. /\ made' \in 0 .. MaxLen + 2 /\ write_head' \in 0 .. MaxLen + 2
        /\ avail_out' \in 0 .. Max({Large, Small}) /\ avail_in' \in 0 .. Large
    BY <1>1, <1>3, <1>4, <1>7, Sizes
  <2>2. ret' \in {"ok", "end", "stuck", "error"}
    BY <1>1 DEF DeflateResult
  <2>3. pc' \in {"copy", "deflate", "compressed"}
    BY <1>1
  <2> QED
    BY <1>2, <1>10, <2>1, <2>2, <2>3 DEF LoopInv, TypeOK
<1>12. Deflating'
  <2>1. made' = made + n /\ write_head' = made + n /\ copied - avail_in' = copied - avail_in + k
        /\ avail_in' <= copied /\ avail_in' \in Nat
    BY <1>1, <1>3, <1>4
  <2>2. made' <= (copied - avail_in') + (IF finishing /\ avail_in' = 0 THEN 2 ELSE 1)
    <3>1. copied = rawlen => (copied - avail_in + k = rawlen <=> avail_in' = 0)
      BY <1>1, <1>3, <1>4
    <3>2. r = (copied - avail_in') + (IF finishing /\ avail_in' = 0 THEN 2 ELSE 1)
      BY <1>2a, <1>5, <2>1, <3>1
    <3> QED
      BY <1>6, <2>1, <3>2
  <2>3. pc' = "copy" => avail_in' = 0 /\ ~finishing
    BY <1>1
  <2> QED
    BY <1>2, <1>2a, <1>3, <1>8, <1>9, <1>10, <2>1, <2>2, <2>3 DEF Deflating
<1>13. CompressesWhole'
  <2> SUFFICES ASSUME pc' = "compressed"
               PROVE  /\ made + n = rawlen + 2 /\ avail_in' = 0 /\ ret' = "end"
    BY <1>1, <1>2, <1>3, <1>8, <1>9 DEF CompressesWhole, Made
  <2>1. n # Small /\ (avail_in' # 0 \/ finishing)
    BY <1>1, <1>4, Sizes
  <2>2. k = avail_in /\ avail_in' = 0 /\ finishing
    BY <1>1, <1>3, <1>6, <2>1
  <2>3. made + n = rawlen + 2
    <3>1. copied = rawlen
      BY <1>2a, <2>2
    <3>3. copied - avail_in + k = rawlen
      BY <1>3, <2>2, <3>1
    <3>2. r = rawlen + 2
      BY <1>5, <2>2, <3>3
    <3> QED
      BY <1>6, <2>1, <2>2, <3>2
  <2>4. ret' = "end"
    BY <1>1, <1>3, <1>4, <2>1, <2>2, <2>3 DEF DeflateResult
  <2> QED
    BY <2>2, <2>3, <2>4
<1> QED
  BY <1>1, <1>2, <1>11, <1>12, <1>13 DEF LoopInv, AtRest, Inflating, DecompressesWhole

\* A call begins.
LEMMA LoopBegins ==
  ASSUME LoopInv, NEW e \in Encoding,
         \/ \E s \in Stream : Decompress(e, s)
         \/ \E n \in 0 .. MaxLen : Compress(e, n)
  PROVE  LoopInv'
<1>1. ASSUME NEW s \in Stream, Decompress(e, s) PROVE LoopInv'
  <2>1. TypeOK'
    BY <1>1 DEF Decompress, LoopInv, TypeOK
  <2>2. /\ made = 0 /\ out = NULL /\ write_head = 0 /\ ret = "ok" /\ s.size >= 0
    BY <1>1 DEF Decompress, LoopInv, AtRest, Stream
  <2> QED
    BY <1>1, <2>1, <2>2
       DEF Decompress, LoopInv, AtRest, Inflating, Deflating, DecompressesWhole,
           CompressesWhole
<1>2. ASSUME NEW n \in 0 .. MaxLen, Compress(e, n) PROVE LoopInv'
  <2>1. TypeOK'
    BY <1>2 DEF Compress, LoopInv, TypeOK
  <2>2. /\ copied = 0 /\ avail_in = 0 /\ ~finishing
        /\ made = 0 /\ out = NULL /\ write_head = 0 /\ ret = "ok" /\ n >= 0
    BY <1>2, Sizes DEF Compress, LoopInv, AtRest
  <2> QED
    BY <1>2, <2>1, <2>2
       DEF Compress, LoopInv, AtRest, Inflating, Deflating, DecompressesWhole,
           CompressesWhole
<1> QED
  BY <1>1, <1>2

\* What Take, and the end of the process, leave.
AtStart ==
    /\ pc = "idle" /\ enc = "auto" /\ stream = NoStream
    /\ rawlen = 0 /\ copied = 0 /\ avail_in = 0 /\ finishing = FALSE
    /\ made = 0 /\ out = NULL /\ write_head = 0 /\ ret = "ok" /\ avail_out = 0

\* There the invariant holds.
LEMMA LoopStarts ==
  (AtStart => LoopInv) /\ (AtStart' => LoopInv')
<1>1. NoStream \in Stream /\ "auto" \in Encoding /\ 0 \in 0 .. MaxLen
      /\ 0 \in 0 .. Large /\ 0 \in 0 .. MaxLen + 2 /\ 0 \in 0 .. Max({Large, Small})
  BY Sizes DEF NoStream, Stream, Format, Encoding
<1>2. (AtStart => TypeOK) /\ (AtStart' => TypeOK')
  BY <1>1 DEF AtStart, TypeOK
<1> QED
  BY <1>2 DEF AtStart, LoopInv, AtRest, Inflating, Deflating, DecompressesWhole,
              CompressesWhole

\* Nothing happens.
LEMMA LoopStands ==
  ASSUME LoopInv, UNCHANGED vars
  PROVE  LoopInv'
<1>1. UNCHANGED <<pc, enc, stream, rawlen, copied, avail_in, finishing, made, out,
                  write_head, avail_out, ret>>
  BY DEF vars
<1>2. TypeOK'
  BY <1>1 DEF LoopInv, TypeOK
<1>3. \A m : Made(m)' = Made(m) /\ [i \in 1 .. rawlen + 2 |-> StreamUnit(i)]'
                                     = [i \in 1 .. rawlen + 2 |-> StreamUnit(i)]
  BY <1>1 DEF Made, StreamUnit
<1> QED
  BY <1>1, <1>2, <1>3 DEF LoopInv, AtRest, Inflating, Deflating, DecompressesWhole,
                     CompressesWhole

-----------------------------------------------------------------------------
(* Files.                                                                  *)

Files == Seq(Doc \cup {Gap})

\* Documents have a unit at least, are no gap, and are not NULL.
LEMMA Docs ==
  /\ \A d \in Doc : d \in Nat /\ d > 0 /\ d <= MaxLen /\ d # Gap /\ d # NULL
  /\ NULL # Rootless /\ NULL \notin Files
  /\ \A d, k \in Int : NULL # [doc |-> d, at |-> k]
  /\ MaxLen \in Nat /\ MaxFds \in Nat
<1>1. MaxLen \in Nat /\ MaxFds \in Nat /\ Doc \subseteq 1 .. MaxLen /\ NULL \notin Int
      /\ NULL \notin [doc : Int, at : Int]
  BY Sizes, DocAssumption
<1>2. ASSUME NEW s \in Seq(Doc \cup {Gap}) PROVE s \in Seq(Int)
  <2>1. Len(s) \in Nat /\ s \in [1 .. Len(s) -> Doc \cup {Gap}]
    OBVIOUS
  <2>2. \A d \in Doc \cup {Gap} : d \in Int
    BY <1>1 DEF Gap
  <2>3. s \in [1 .. Len(s) -> Int]
    BY <2>1, <2>2
  <2> QED
    BY <2>1, <2>3
<1>3. NULL \notin Files
  BY <1>2, BufferAssumption DEF Files
<1> QED
  BY <1>1, <1>3 DEF Gap, Rootless

\* A file by its places.
LEMMA FileIs ==
  ASSUME NEW s \in Files
  PROVE  /\ Len(s) \in Nat /\ DOMAIN s = 1 .. Len(s)
         /\ \A i \in DOMAIN s : s[i] \in Doc \cup {Gap} /\ s[i] \in Nat
         /\ \A i : UnitAt(s, i) \in Doc \cup {Gap}
         /\ \A i : UnitAt(s, i) # Gap => i \in DOMAIN s /\ s[i] = UnitAt(s, i)
         /\ \A i \in DOMAIN s : UnitAt(s, i) = s[i]
         /\ s # <<>> => 1 \in DOMAIN s
<1>1. /\ Len(s) \in Nat /\ DOMAIN s = 1 .. Len(s)
      /\ \A i \in DOMAIN s : s[i] \in Doc \cup {Gap}
  BY DEF Files
<1>2. s # <<>> => 1 \in DOMAIN s
  BY <1>1 DEF Files
<1>3. \A d \in Doc \cup {Gap} : d \in Nat
  BY Docs DEF Gap
<1> QED
  BY <1>1, <1>2, <1>3 DEF UnitAt

\* How many units at the start of s are alike.
Run(s) == Max({i \in DOMAIN s : \A j \in 1 .. i : s[j] = s[1]})

\* The longest such start is one, and no longer one is.
LEMMA RunIs ==
  ASSUME NEW s \in Files, s # <<>>
  PROVE  /\ Run(s) \in 1 .. Len(s)
         /\ \A j \in 1 .. Run(s) : s[j] = s[1]
         /\ \A i \in DOMAIN s : (\A j \in 1 .. i : s[j] = s[1]) => i <= Run(s)
<1> DEFINE S == {i \in DOMAIN s : \A j \in 1 .. i : s[j] = s[1]}
<1>1. Len(s) \in Nat /\ DOMAIN s = 1 .. Len(s) /\ 1 \in DOMAIN s
  BY FileIs
<1>2. S \in SUBSET Nat /\ 1 \in S /\ \A i \in S : i <= Len(s)
  BY <1>1
<1>3. Max(S) \in S /\ \A y \in S : y <= Max(S)
  <2> HIDE DEF S
  <2> QED
    BY <1>1, <1>2, MaxProperties
<1> QED
  BY <1>1, <1>3 DEF Run

\* What zlib finds in a file: as much of a document as there is of it, and the whole
\* if its foot is there.
LEMMA StreamInIs ==
  ASSUME NEW s \in Files, s # <<>>
  PROVE  /\ StreamIn(s) \in Stream
         /\ StreamIn(s).size \in Nat /\ StreamIn(s).size + 1 \in DOMAIN s
         /\ \A j \in 1 .. StreamIn(s).size + 1 : s[j] = s[1]
         /\ StreamIn(s).size <= s[1]
         /\ StreamIn(s).then = "whole" =>
               /\ s[1] \in Doc /\ StreamIn(s).size = s[1] /\ s[1] + 2 <= Len(s)
               /\ \A j \in 1 .. s[1] + 2 : s[j] = s[1]
         /\ \A m \in Nat : m <= s[1] /\ m + 1 \in DOMAIN s
                           /\ (\A j \in 1 .. m + 1 : s[j] = s[1]) => m <= StreamIn(s).size
         /\ s[1] \in Doc /\ s[1] + 2 <= Len(s) /\ (\A j \in 1 .. s[1] + 2 : s[j] = s[1]) =>
               StreamIn(s).then = "whole" /\ StreamIn(s).size = s[1]
<1>1. /\ Len(s) \in Nat /\ DOMAIN s = 1 .. Len(s) /\ 1 \in DOMAIN s
      /\ s[1] \in Doc \cup {Gap} /\ s[1] \in Nat
  BY FileIs
<1>2. PICK n \in 1 .. Len(s) :
        /\ n = Run(s) /\ \A j \in 1 .. n : s[j] = s[1]
        /\ \A i \in DOMAIN s : (\A j \in 1 .. i : s[j] = s[1]) => i <= n
  BY RunIs
<1>3. CASE s[1] = Gap
  <2>1. StreamIn(s) = NoStream
    BY <1>3 DEF StreamIn
  <2>2. NoStream \in Stream /\ NoStream.size = 0 /\ NoStream.then = "cut"
    BY Sizes DEF NoStream, Stream, Format
  <2>3. s[1] = 0 /\ s[1] \notin Doc
    BY <1>3, Docs DEF Gap
  <2> QED
    BY <1>1, <2>1, <2>2, <2>3
<1>4. CASE s[1] # Gap
  <2>1. PICK m : m = Least(n - 1, s[1])
    OBVIOUS
  <2>2. StreamIn(s) = [format |-> "gzip", size |-> m,
            then |-> IF n >= s[1] + 2 THEN "whole" ELSE IF n = Len(s) THEN "cut" ELSE "faulty"]
    BY <1>2, <1>4, <2>1 DEF StreamIn, Run
  <2>3. m \in {n - 1, s[1]} /\ m <= n - 1 /\ m <= s[1] /\ m \in Nat
    BY <1>1, <1>2, <2>1, LeastIs
  <2>4. s[1] \in Doc /\ s[1] <= MaxLen /\ MaxLen \in Nat
    BY <1>1, <1>4, Docs
  <2>5. StreamIn(s) \in Stream
    <3>1. m \in 0 .. MaxLen /\ "gzip" \in Format
      BY <1>1, <2>3, <2>4 DEF Format, Known
    <3> QED
      BY <2>2, <3>1 DEF Stream
  <2>6. StreamIn(s).size = m /\ (StreamIn(s).then = "whole" <=> n >= s[1] + 2)
    BY <2>2
  <2>7. m + 1 \in DOMAIN s /\ \A j \in 1 .. m + 1 : s[j] = s[1]
    BY <1>1, <1>2, <2>3
  <2>8. n >= s[1] + 2 =>
           m = s[1] /\ s[1] + 2 <= Len(s) /\ \A j \in 1 .. s[1] + 2 : s[j] = s[1]
    BY <1>1, <1>2, <2>3
  <2>9. ASSUME NEW k \in Nat, k <= s[1], k + 1 \in DOMAIN s, \A j \in 1 .. k + 1 : s[j] = s[1]
        PROVE  k <= m
    <3>1. k + 1 <= n
      BY <1>2, <2>9
    <3> QED
      BY <1>1, <2>3, <2>9, <3>1
  <2>10. ASSUME s[1] + 2 <= Len(s), \A j \in 1 .. s[1] + 2 : s[j] = s[1]
         PROVE  n >= s[1] + 2 /\ m = s[1]
    <3>1. s[1] + 2 \in DOMAIN s
      BY <1>1, <2>10
    <3>2. s[1] + 2 <= n
      BY <1>2, <2>10, <3>1
    <3> QED
      BY <1>1, <1>2, <2>3, <3>2
  <2> QED
    BY <2>3, <2>4, <2>5, <2>6, <2>7, <2>8, <2>9, <2>10
<1> QED
  BY <1>3, <1>4

\* A file reads as a document of the model, or as none, and as the one whose units
\* it begins with.
LEMMA ReadableIs ==
  ASSUME NEW f, f = NULL \/ f \in Files
  PROVE  /\ Readable(f) \in Doc \cup {NULL}
         /\ \A d \in Doc : f # NULL /\ (\A i \in 1 .. d + 2 : UnitAt(f, i) = d) =>
               Readable(f) = d
<1>1. CASE f = NULL \/ f = <<>>
  <2>1. ASSUME NEW d \in Doc, f = <<>> PROVE 1 \in 1 .. d + 2 /\ UnitAt(f, 1) # d
    BY <2>1, Docs DEF UnitAt
  <2> QED
    BY <1>1, <2>1 DEF Readable
<1>2. CASE f # NULL /\ f # <<>>
  <2>1. f \in Files
    BY <1>2
  <2>2. Readable(f) \in Doc \cup {NULL}
    BY <1>2, <2>1, StreamInIs DEF Readable
  <2>3. ASSUME NEW d \in Doc, \A i \in 1 .. d + 2 : UnitAt(f, i) = d
        PROVE  Readable(f) = d
    <3>1. d \in Nat /\ d # Gap
      BY Docs
    <3>2. \A i \in 1 .. d + 2 : i \in DOMAIN f /\ f[i] = d
      BY <2>1, <2>3, <3>1, FileIs
    <3>3. Len(f) \in Nat /\ DOMAIN f = 1 .. Len(f)
      BY <2>1, FileIs
    <3>4. d + 2 <= Len(f) /\ f[1] = d
      BY <3>1, <3>2, <3>3
    <3>5. StreamIn(f).then = "whole" /\ StreamIn(f).size = d
      BY <1>2, <2>1, <3>2, <3>4, StreamInIs
    <3> QED
      BY <1>2, <3>5 DEF Readable
  <2> QED
    BY <2>2, <2>3
<1> QED
  BY <1>1, <1>2

\* Writing into a file changes the units that are written and no others.
LEMMA OverlayIs ==
  ASSUME NEW f \in Files, NEW from \in Nat, NEW to \in Nat, NEW d \in Doc \cup {Gap}
  PROVE  /\ Overlay(f, from, to, d) \in Files
         /\ Len(Overlay(f, from, to, d)) >= to
         /\ \A i \in Nat \ {0} : UnitAt(Overlay(f, from, to, d), i) =
               IF i \in from + 1 .. to THEN d ELSE UnitAt(f, i)
<1>1. Len(f) \in Nat /\ DOMAIN f = 1 .. Len(f) /\ \A i : UnitAt(f, i) \in Doc \cup {Gap}
  BY FileIs
<1>2. PICK b \in Nat : Len(f) <= b /\ to <= b
  BY <1>1
<1>3. PICK m \in {Len(f), to} :
         m = Max({Len(f), to}) /\ \A y \in {Len(f), to} : y <= m
  <2>1. {Len(f), to} \in SUBSET Nat /\ {Len(f), to} # {} /\ \A x \in {Len(f), to} : x <= b
    BY <1>1, <1>2
  <2> QED
    BY <2>1, MaxProperties
<1>4. m \in Nat /\ Len(f) <= m /\ to <= m
  BY <1>1, <1>3
<1>5. PICK g : g = Overlay(f, from, to, d)
  OBVIOUS
<1>6. g = [i \in 1 .. m |-> IF i \in from + 1 .. to THEN d ELSE UnitAt(f, i)]
  BY <1>3, <1>5 DEF Overlay
<1>7. g \in [1 .. m -> Doc \cup {Gap}]
  BY <1>1, <1>6
<1>8. g \in Files /\ Len(g) = m /\ DOMAIN g = 1 .. m
  BY <1>4, <1>7 DEF Files
<1>9. ASSUME NEW i \in Nat \ {0}
      PROVE  UnitAt(g, i) = IF i \in from + 1 .. to THEN d ELSE UnitAt(f, i)
  <2>1. CASE i \in 1 .. m
    BY <1>6, <1>8, <2>1 DEF UnitAt
  <2>2. CASE i \notin 1 .. m
    <3>1. i \in Nat /\ i > m
      BY <1>4, <2>2
    <3>2. i \notin from + 1 .. to /\ i \notin 1 .. Len(f)
      <4>1. Len(f) \in Nat /\ m \in Nat /\ Len(f) <= m /\ to <= m
        BY <1>1, <1>4
      <4>2. ~(i <= to) /\ ~(i <= Len(f))
        BY <3>1, <4>1
      <4> QED
        BY <4>2
    <3> QED
      BY <1>1, <1>8, <2>2, <3>2 DEF UnitAt
  <2> QED
    BY <2>1, <2>2
<1> QED
  BY <1>4, <1>5, <1>8, <1>9

\* So of the other process, which has written up to some place and writes on.
LEMMA OverlayWrites ==
  ASSUME file \in Files, NEW e \in Doc, NEW at \in Nat, NEW k \in Nat
  PROVE  /\ Overlay(file, at, k, e) \in Files
         /\ \A i \in Nat \ {0} : UnitAt(Overlay(file, at, k, e), i) =
               IF i \in at + 1 .. k THEN e ELSE UnitAt(file, i)
<1>1. e \in Doc \cup {Gap}
  OBVIOUS
<1>2. ASSUME NEW i \in Nat \ {0}
      PROVE  UnitAt(Overlay(file, at, k, e), i) =
                IF i \in at + 1 .. k THEN e ELSE UnitAt(file, i)
  BY <1>1, OverlayIs
<1> QED
  BY <1>1, <1>2, OverlayIs

\* Writing the units of a document behind those that stand there already.
LEMMA OverlayAppends ==
  ASSUME NEW d \in Doc, NEW from \in Nat, NEW to \in Nat, from <= to
  PROVE  /\ [i \in 1 .. from |-> d] \in Files
         /\ Overlay([i \in 1 .. from |-> d], from, to, d) = [i \in 1 .. to |-> d]
<1>1. PICK f : f = [i \in 1 .. from |-> d]
  OBVIOUS
<1>2. f \in Files /\ Len(f) = from /\ DOMAIN f = 1 .. from
  BY <1>1 DEF Files
<1>3. PICK m \in {from, to} : m = Max({from, to}) /\ \A y \in {from, to} : y <= m
  BY MaxProperties
<1>4. m = to
  BY <1>3
<1>5. Overlay(f, from, to, d) =
         [i \in 1 .. to |-> IF i \in from + 1 .. to THEN d ELSE UnitAt(f, i)]
  BY <1>2, <1>3, <1>4 DEF Overlay
<1>6. ASSUME NEW i \in 1 .. to, i \notin from + 1 .. to PROVE UnitAt(f, i) = d
  <2>1. i \in 1 .. from
    BY <1>6
  <2> QED
    BY <1>1, <1>2, <2>1 DEF UnitAt
<1> QED
  BY <1>1, <1>2, <1>5, <1>6

-----------------------------------------------------------------------------
(* Another process writes to the file.                                     *)

\* The mapping keeps what was read of it and its length.
LEMMA BecomesMapping ==
  ASSUME StoreInv, NEW f \in Files, Becomes(f),
         call = "load", use = "file", pc \in {"idle", "inflate"}
  PROVE  /\ mapped \in Files /\ mapped # <<>> /\ mapped' \in Files /\ mapped' # <<>>
         /\ DOMAIN mapped' = DOMAIN mapped /\ Consumed' = Consumed /\ Consumed \in Nat
         /\ \A i \in DOMAIN mapped :
               mapped'[i] = IF i <= Consumed THEN mapped[i] ELSE UnitAt(f, i)
         /\ UNCHANGED <<pc, made>>
<1>1. mapped \in Files /\ mapped # <<>>
  BY DEF StoreInv, CallTypeOK, Mapped, Files
<1>2. mapped' = [i \in DOMAIN mapped |-> IF i <= Consumed THEN mapped[i] ELSE UnitAt(f, i)]
      /\ UNCHANGED <<pc, made>>
  BY DEF Becomes
<1>3. Len(mapped) \in Nat /\ DOMAIN mapped = 1 .. Len(mapped) /\ 1 \in DOMAIN mapped
  BY <1>1, FileIs
<1>4. mapped' \in [1 .. Len(mapped) -> Doc \cup {Gap}]
  <2>1. \A i \in DOMAIN mapped : mapped[i] \in Doc \cup {Gap} /\ UnitAt(f, i) \in Doc \cup {Gap}
    BY <1>1, FileIs
  <2> QED
    BY <1>2, <1>3, <2>1
<1>5. mapped' \in Files /\ DOMAIN mapped' = DOMAIN mapped
  BY <1>3, <1>4 DEF Files
<1>6. mapped' # <<>>
  <2>1. DOMAIN <<>> = {}
    OBVIOUS
  <2> QED
    BY <1>3, <1>5, <2>1
<1>7. made \in Nat
  BY Sizes DEF StoreInv, LoopInv, TypeOK
<1> QED
  BY <1>1, <1>2, <1>5, <1>6, <1>7 DEF Consumed

\* What was read is in the mapping.
LEMMA ConsumedInside ==
  ASSUME StoreInv, call = "load", use = "file", pc \in {"idle", "inflate"}
  PROVE  /\ Consumed \in Nat /\ Consumed <= Len(mapped) /\ Len(mapped) \in Nat
         /\ \A i \in 1 .. Consumed : i \in DOMAIN mapped /\ mapped[i] = mapped[1]
<1>1. mapped \in Files /\ mapped # <<>>
  BY DEF StoreInv, CallTypeOK, Mapped, Files
<1>2. Len(mapped) \in Nat /\ DOMAIN mapped = 1 .. Len(mapped) /\ made \in Nat
  BY <1>1, FileIs, Sizes DEF StoreInv, LoopInv, TypeOK
<1>3. CASE pc = "idle"
  BY <1>2, <1>3 DEF Consumed
<1>4. CASE pc = "inflate"
  <2>1. stream = StreamIn(mapped) /\ made <= stream.size /\ Consumed = made + 1
    BY <1>4 DEF StoreInv, Mapped, LoopInv, Inflating, Consumed
  <2>2. /\ stream.size \in Nat /\ stream.size + 1 \in DOMAIN mapped
        /\ \A j \in 1 .. stream.size + 1 : mapped[j] = mapped[1]
    BY <1>1, <2>1, StreamInIs
  <2>3. \A j \in 1 .. Consumed : j \in 1 .. stream.size + 1 /\ j \in DOMAIN mapped
    BY <1>2, <2>1, <2>2
  <2> QED
    BY <1>2, <2>1, <2>2, <2>3
<1> QED
  BY <1>3, <1>4

\* So the stream that zlib reads may change, but not before what it has put out.
LEMMA BecomesLoop ==
  ASSUME StoreInv, NEW f \in Files, Becomes(f), use = "file"
  PROVE  /\ LoopInv' /\ UNCHANGED <<pc, rawlen, out, ret>>
         /\ mapped' \in Files /\ whole' \in SUBSET (Doc \cup {NULL})
<1>1. UNCHANGED <<pc, enc, rawlen, copied, avail_in, finishing, made, out, write_head,
                  avail_out, ret>>
  BY DEF Becomes
<1>2. mapped \in Files /\ whole \in SUBSET (Doc \cup {NULL})
  BY DEF StoreInv, CallTypeOK, Files
<1>3. CASE call = "load" /\ pc \in {"idle", "inflate"}
  <2>1. /\ mapped \in Files /\ mapped # <<>> /\ mapped' \in Files /\ mapped' # <<>>
        /\ DOMAIN mapped' = DOMAIN mapped
        /\ \A i \in DOMAIN mapped :
              mapped'[i] = IF i <= Consumed THEN mapped[i] ELSE UnitAt(f, i)
    BY <1>3, BecomesMapping
  <2>2. whole' \in SUBSET (Doc \cup {NULL})
    <3>1. whole' = whole \cup {Readable(f)}
      BY <1>3 DEF Becomes
    <3> QED
      BY <1>2, <3>1, ReadableIs
  <2>3. stream' = IF pc = "inflate" THEN StreamIn(mapped') ELSE stream
    BY <1>3 DEF Becomes
  <2>4. stream' \in Stream
    BY <2>1, <2>3, StreamInIs DEF StoreInv, LoopInv, TypeOK
  <2>5. TypeOK'
    BY <1>1, <2>4 DEF StoreInv, LoopInv, TypeOK
  <2>6. pc = "inflate" => made <= stream'.size
    <3> SUFFICES ASSUME pc = "inflate" PROVE made <= StreamIn(mapped').size
      BY <2>3
    <3>1. /\ stream = StreamIn(mapped) /\ made \in Nat /\ made <= stream.size
          /\ Consumed = made + 1
      BY <1>3, Sizes DEF StoreInv, Mapped, LoopInv, TypeOK, Inflating, Consumed
    <3>2. /\ stream.size \in Nat /\ stream.size + 1 \in DOMAIN mapped
          /\ \A j \in 1 .. stream.size + 1 : mapped[j] = mapped[1]
          /\ stream.size <= mapped[1] /\ mapped[1] \in Nat
      BY <2>1, <3>1, StreamInIs, FileIs
    <3>3. DOMAIN mapped = 1 .. Len(mapped) /\ Len(mapped) \in Nat
      BY <2>1, FileIs
    <3>4. \A j \in 1 .. made + 1 :
             j \in DOMAIN mapped /\ j <= Consumed /\ j \in 1 .. stream.size + 1
      BY <3>1, <3>2, <3>3
    <3>5. \A j \in 1 .. made + 1 : mapped'[j] = mapped[1]
      BY <2>1, <3>2, <3>4
    <3>6. 1 \in 1 .. made + 1 /\ made + 1 \in 1 .. made + 1
      BY <3>1
    <3>7. mapped'[1] = mapped[1] /\ made + 1 \in DOMAIN mapped' /\ made <= mapped[1]
      BY <2>1, <3>1, <3>2, <3>4, <3>5, <3>6
    <3> QED
      BY <2>1, <3>1, <3>5, <3>7, StreamInIs
  <2>7. Inflating'
    BY <1>1, <1>3, <2>6 DEF StoreInv, LoopInv, Inflating
  <2> QED
    BY <1>1, <1>3, <2>1, <2>2, <2>5, <2>7
       DEF StoreInv, LoopInv, AtRest, Deflating, DecompressesWhole, CompressesWhole
<1>4. CASE ~(call = "load" /\ pc \in {"idle", "inflate"})
  <2>1. UNCHANGED <<mapped, stream, whole>>
    BY <1>4 DEF Becomes
  <2>2. UNCHANGED vars
    BY <1>1, <2>1 DEF vars
  <2> QED
    BY <1>1, <1>2, <2>1, <2>2, LoopStands DEF StoreInv
<1> QED
  BY <1>3, <1>4

\* The other process begins: it empties the file, and nothing is left to be read
\* that could make a document.
LEMMA MappedEmptied ==
  ASSUME StoreInv, Becomes(<<>>), UNCHANGED <<use, call>>, other' # NULL => other'.at = 0
  PROVE  Mapped'
<1> SUFFICES ASSUME call = "load", use = "file", pc \in {"idle", "inflate"}
             PROVE  Mapped'
  BY DEF Mapped, Becomes
<1>1. <<>> \in Files /\ \A i : UnitAt(<<>>, i) = Gap
  BY DEF Files, UnitAt
<1>2. /\ mapped \in Files /\ mapped' \in Files /\ mapped' # <<>>
      /\ DOMAIN mapped' = DOMAIN mapped /\ Consumed' = Consumed /\ Consumed \in Nat
      /\ \A i \in DOMAIN mapped :
            mapped'[i] = IF i <= Consumed THEN mapped[i] ELSE UnitAt(<<>>, i)
      /\ UNCHANGED <<pc, made>>
  BY <1>1, BecomesMapping
<1>3. file' = <<>> /\ file' # NULL /\ (pc = "inflate" => stream' = StreamIn(mapped'))
  BY <1>1, Docs DEF Becomes
<1>4. DOMAIN mapped = 1 .. Len(mapped) /\ Len(mapped) \in Nat
  BY <1>2, FileIs
<1>5. \A i \in DOMAIN mapped' : i > Consumed' => mapped'[i] = UnitAt(file', i)
  BY <1>2, <1>3, <1>4
<1>6. other' # NULL => \A i \in DOMAIN mapped' : ~(i <= other'.at)
  BY <1>2, <1>4
<1>7. ASSUME NEW d \in Doc, Consumed' <= d + 1,
             \A i \in Consumed' + 1 .. d + 2 : UnitAt(file', i) = d
      PROVE  FALSE
  <2>1. d \in Nat /\ d # Gap
    BY Docs
  <2>2. d + 2 \in Consumed' + 1 .. d + 2
    BY <1>2, <1>7, <2>1
  <2> QED
    BY <1>1, <1>3, <1>7, <2>1, <2>2
<1> QED
  BY <1>2, <1>3, <1>5, <1>6, <1>7 DEF Mapped

\* It writes on.  Where it makes the file whole, what the load has behind it does not
\* tell the file from a whole one.
LEMMA MappedWritten ==
  ASSUME StoreInv, UNCHANGED <<use, call>>, use = "file",
         NEW e \in Doc, NEW at \in Nat, NEW k \in Nat, at < k,
         other # NULL, other.doc = e, other.at = at, other'.doc = e, other'.at = k,
         NEW f \in Files, Becomes(f),
         \A i \in Nat \ {0} : UnitAt(f, i) = IF i \in at + 1 .. k THEN e ELSE UnitAt(file, i)
  PROVE  Mapped'
<1> SUFFICES ASSUME call = "load", pc \in {"idle", "inflate"}
             PROVE  Mapped'
  BY DEF Mapped, Becomes
<1>1. /\ mapped \in Files /\ mapped' \in Files /\ mapped' # <<>>
      /\ DOMAIN mapped' = DOMAIN mapped /\ Consumed' = Consumed /\ Consumed \in Nat
      /\ \A i \in DOMAIN mapped :
            mapped'[i] = IF i <= Consumed THEN mapped[i] ELSE UnitAt(f, i)
      /\ UNCHANGED <<pc, made>>
  BY BecomesMapping
<1>2. /\ file' = f /\ file' # NULL /\ (pc = "inflate" => stream' = StreamIn(mapped'))
      /\ whole' = whole \cup {Readable(f)}
  BY Docs DEF Becomes
<1>3. /\ DOMAIN mapped = 1 .. Len(mapped) /\ Len(mapped) \in Nat
      /\ \A i \in DOMAIN mapped : i \in Nat \ {0}
  BY <1>1, FileIs
<1>4. \A i \in DOMAIN mapped :
         i <= Consumed /\ i <= at /\ mapped[i] = e => UnitAt(file, i) = e
  BY DEF StoreInv, Mapped
<1>5. \A i \in DOMAIN mapped' : i > Consumed' => mapped'[i] = UnitAt(file', i)
  BY <1>1, <1>2, <1>3
<1>6. ASSUME NEW i \in DOMAIN mapped', i <= Consumed', i <= k, mapped'[i] = e
       PROVE  UnitAt(file', i) = e
  <2>1. i \in Nat \ {0} /\ mapped[i] = e /\ i <= Consumed
    BY <1>1, <1>3, <1>6
  <2>2. CASE i <= at
    BY <1>1, <1>2, <1>4, <2>1, <2>2
  <2>3. CASE i > at
    <3>1. i \in at + 1 .. k
      BY <1>6, <2>1, <2>3
    <3> QED
      BY <1>2, <2>1, <3>1
  <2> QED
    BY <2>1, <2>2, <2>3
<1>7. ASSUME NEW d \in Doc, Consumed' <= d + 1, \A i \in 1 .. Consumed' : mapped'[i] = d,
              \A i \in Consumed' + 1 .. d + 2 : UnitAt(file', i) = d
       PROVE  d \in whole'
  <2>1. d \in Nat
    BY Docs
  <2>2. PICK c \in Nat : c = Consumed /\ c <= d + 1
    BY <1>1, <1>7
  <2>3. /\ \A i \in 1 .. c : mapped'[i] = d
        /\ \A i \in c + 1 .. d + 2 : UnitAt(f, i) = d
    BY <1>1, <1>2, <1>7, <2>2
  <2>4. \A i \in 1 .. c : i \in DOMAIN mapped /\ mapped[i] = d
    <3>1. c <= Len(mapped)
      BY <1>1, <1>3, <2>2, ConsumedInside
    <3> QED
      BY <1>1, <1>3, <2>2, <2>3, <3>1
  <2>5. CASE \E i \in c + 1 .. d + 2 : i \in at + 1 .. k
    <3>1. PICK i \in c + 1 .. d + 2 : i \in at + 1 .. k
      BY <2>5
    <3>2. i \in Nat \ {0} /\ c < i /\ i <= k
      BY <2>1, <2>2, <3>1
    <3>3. e = d
      BY <2>3, <3>1, <3>2
    <3>4. ASSUME NEW j \in 1 .. d + 2 PROVE UnitAt(f, j) = d
      <4>1. CASE j > c
        BY <2>1, <2>2, <2>3, <4>1
      <4>2. CASE j <= c
        <5>1. j \in 1 .. c /\ j \in Nat \ {0} /\ j <= k
          BY <2>2, <3>2, <4>2
        <5>2. mapped[j] = e /\ j \in DOMAIN mapped
          BY <2>4, <3>3, <5>1
        <5>3. CASE j <= at
          <6>1. UnitAt(file, j) = e
            BY <1>4, <2>2, <4>2, <5>2, <5>3
          <6> QED
            BY <3>3, <5>1, <6>1
        <5>4. CASE j > at
          <6>1. j \in at + 1 .. k
            BY <5>1, <5>4
          <6> QED
            BY <3>3, <5>1, <6>1
        <5> QED
          BY <5>1, <5>3, <5>4
      <4> QED
        BY <2>2, <4>1, <4>2
    <3>5. Readable(f) = d
      BY <1>2, <3>4, ReadableIs
    <3> QED
      BY <1>2, <3>5
  <2>6. CASE \A i \in c + 1 .. d + 2 : i \notin at + 1 .. k
    <3>1. \A i \in c + 1 .. d + 2 : UnitAt(file, i) = d
      <4>1. \A i \in c + 1 .. d + 2 : i \in Nat \ {0}
        BY <2>1, <2>2
      <4> QED
        BY <2>3, <2>6, <4>1
    <3>2. d \in whole
      BY <2>2, <2>4, <3>1 DEF StoreInv, Mapped
    <3> QED
      BY <1>2, <3>2
  <2> QED
    BY <2>5, <2>6
<1> QED
  BY <1>1, <1>2, <1>5, <1>6, <1>7 DEF Mapped

-----------------------------------------------------------------------------
(* What each action keeps.                                                 *)

\* The types that the loops do not have, and no loop under way.
Rest ==
    /\ use \in {"buffer", "file", "region"}
    /\ nbt \in Doc \cup {NULL, Rootless}
    /\ call \in {"none", "save", "writing", "closing", "saved", "load", "loaded", "faulted"}
    /\ answer \in BOOLEAN
    /\ file = NULL \/ file \in Files
    /\ mapped \in Files
    /\ written \in 0 .. MaxLen + 2
    /\ fds \in 0 .. MaxFds
    /\ other # NULL => other.doc \in Doc /\ other.at \in 0 .. other.doc + 2
    /\ whole \subseteq Doc \cup {NULL} /\ unsaved \in Doc \cup {NULL}
    /\ spoilt \in BOOLEAN

\* They are the rest of the types.
LEMMA RestIs ==
  /\ StoreInv => Rest
  /\ CallTypeOK <=> TypeOK /\ Rest
  /\ CallTypeOK' <=> TypeOK' /\ Rest'
BY DEF StoreInv, CallTypeOK, Rest, Files

\* The region does not change.
LEMMA RegionStands ==
  ASSUME InRegion, UNCHANGED <<use, carrier, whole, unsaved>>
  PROVE  InRegion'
<1>1. UNCHANGED <<store, pending, mode>>
  BY DEF carrier
<1> QED
  BY <1>1 DEF InRegion

\* The caller's variables, one by one.
LEMMA Frame ==
  /\ UNCHANGED vars => UNCHANGED <<pc, stream, rawlen, made, out, ret>>
  /\ UNCHANGED caller => UNCHANGED <<use, nbt, call, answer, mapped, written, fds>>
  /\ UNCHANGED history => UNCHANGED <<whole, unsaved, spoilt, loads>>
  /\ Take => AtStart' /\ pc' = "idle"
BY DEF vars, caller, history, Take, AtStart

\* The invariant but for the loops, which follow from LoopInv.
LEMMA StoreInvIs ==
  ASSUME LoopInv', Rest', CallsInOrder', SavedSoFar', Mapped', Found', InRegion'
  PROVE  StoreInv'
BY RestIs DEF StoreInv, LoopInv

\* The stream that a save has in hand is that of its document.
LEMMA StreamInHand ==
  ASSUME StoreInv, call \in {"save", "writing", "closing"}, pc = "compressed", out # NULL
  PROVE  /\ out = StreamOf(nbt) /\ nbt \in Doc
         /\ Len(out) = nbt + 2 /\ nbt + 2 \in 0 .. MaxLen + 2 /\ nbt \in Nat
<1>1. nbt \in Doc /\ rawlen = nbt
  BY DEF StoreInv, CallsInOrder
<1>2. out = [i \in 1 .. rawlen + 2 |-> StreamUnit(i)]
  BY DEF StoreInv, LoopInv, CompressesWhole
<1>3. out = StreamOf(nbt)
  BY <1>1, <1>2 DEF StreamUnit, StreamOf
<1>4. nbt \in Nat /\ nbt + 2 \in 0 .. MaxLen + 2
  BY <1>1, Docs
<1>5. rawlen \in 0 .. MaxLen /\ out = Made(rawlen + 2) /\ rawlen + 2 \in 0 .. rawlen + 2
  BY <1>1, <1>2, <1>4, Docs DEF Made
<1>6. Len(out) = nbt + 2
  BY <1>1, <1>5, UnitsOf
<1> QED
  BY <1>1, <1>3, <1>4, <1>6

\* rs_nbt_new, rs_nbt_set_root, rs_nbt_free.
LEMMA KeepsHoldDocument ==
  ASSUME StoreInv, NEW d \in Doc \cup {NULL, Rootless}, HoldDocument(d)
  PROVE  StoreInv'
<1>1. /\ call = "none" /\ pc = "idle" /\ use # "buffer" /\ nbt' = d
      /\ UNCHANGED <<vars, use, call, answer, file, mapped, written, fds, other, carrier,
                     whole, unsaved, spoilt>>
  BY DEF HoldDocument, Idle, history
<1>2. LoopInv' /\ pc' = "idle"
  BY <1>1, LoopStands, Frame DEF StoreInv
<1>3. Rest'
  BY <1>1, RestIs DEF Rest
<1>4. CallsInOrder' /\ SavedSoFar' /\ Mapped' /\ Found'
  BY <1>1, <1>2
     DEF StoreInv, CallsInOrder, SavedSoFar, TrueIsWhole, Mapped, Found, LoadedWasSaved
<1>5. InRegion'
  BY <1>1, RegionStands DEF StoreInv
<1> QED
  BY <1>2, <1>3, <1>4, <1>5, StoreInvIs

\* rs_nbt_write begins.
LEMMA KeepsSaveStart ==
  ASSUME StoreInv, SaveStart
  PROVE  StoreInv'
<1>1. /\ call = "none" /\ pc = "idle" /\ nbt # NULL /\ answer' = FALSE
      /\ UNCHANGED <<use, nbt, file, mapped, written, fds, other, carrier,
                     whole, unsaved, spoilt>>
  BY DEF SaveStart, Idle, history
<1>2. use # "buffer" /\ nbt \in Doc \cup {NULL, Rootless}
  BY <1>1 DEF StoreInv, CallsInOrder, CallTypeOK
<1>3. InRegion'
  BY <1>1, RegionStands DEF StoreInv
<1>4. CASE nbt = Rootless
  <2>1. call' = "saved" /\ UNCHANGED vars
    BY <1>4 DEF SaveStart
  <2>2. LoopInv' /\ pc' = "idle"
    BY <1>1, <2>1, LoopStands, Frame DEF StoreInv
  <2>3. Rest'
    BY <1>1, <2>1, RestIs DEF Rest
  <2>4. CallsInOrder' /\ SavedSoFar' /\ Mapped' /\ Found'
    BY <1>1, <1>2, <2>1, <2>2
       DEF StoreInv, CallsInOrder, SavedSoFar, TrueIsWhole, Mapped, Found, LoadedWasSaved
  <2> QED
    BY <1>3, <2>2, <2>3, <2>4, StoreInvIs
<1>5. CASE nbt # Rootless
  <2>1. call' = "save" /\ Compress(IF use = "file" THEN "gzip" ELSE "zlib", nbt)
    BY <1>5 DEF SaveStart
  <2>2. nbt \in Doc /\ nbt \in 0 .. MaxLen
    BY <1>1, <1>2, <1>5, Docs
  <2>3. PICK e \in Encoding : Compress(e, nbt)
    <3>1. (IF use = "file" THEN "gzip" ELSE "zlib") \in Encoding
      BY DEF Encoding, Format, Known
    <3> QED
      BY <2>1, <3>1
  <2>4. LoopInv'
    BY <2>2, <2>3, LoopBegins DEF StoreInv
  <2>5. rawlen' = nbt /\ pc' \in {"copy", "compressed"}
    BY <2>3 DEF Compress
  <2>6. Rest'
    BY <1>1, <2>1, RestIs DEF Rest
  <2>7. CallsInOrder' /\ SavedSoFar' /\ Mapped' /\ Found'
    BY <1>1, <1>2, <2>1, <2>2, <2>5
       DEF StoreInv, CallsInOrder, SavedSoFar, TrueIsWhole, Mapped, Found, LoadedWasSaved
  <2> QED
    BY <1>3, <2>4, <2>6, <2>7, StoreInvIs
<1> QED
  BY <1>4, <1>5

\* rs_nbt_write, or fopen, fails.
LEMMA KeepsSaveFails ==
  ASSUME StoreInv, SaveFails
  PROVE  StoreInv'
<1>1. /\ call = "save" /\ call' = "saved" /\ Take
      /\ UNCHANGED <<use, nbt, answer, file, mapped, written, fds, other, carrier,
                     whole, unsaved, spoilt>>
  BY DEF SaveFails, history
<1>2. LoopInv' /\ pc' = "idle"
  BY <1>1, LoopStarts, Frame
<1>3. Rest'
  BY <1>1, RestIs DEF Rest
<1>4. ~answer' /\ use # "buffer"
  BY <1>1 DEF StoreInv, CallsInOrder
<1>5. CallsInOrder' /\ SavedSoFar' /\ Mapped' /\ Found'
  BY <1>1, <1>2, <1>4
     DEF StoreInv, CallsInOrder, SavedSoFar, TrueIsWhole, Mapped, Found, LoadedWasSaved
<1>6. InRegion'
  BY <1>1, RegionStands DEF StoreInv
<1> QED
  BY <1>2, <1>3, <1>5, <1>6, StoreInvIs

\* fopen.
LEMMA KeepsSaveOpen ==
  ASSUME StoreInv, SaveOpen
  PROVE  StoreInv'
<1>1. /\ call = "save" /\ pc = "compressed" /\ use = "file" /\ out # NULL
      /\ fds < MaxFds /\ fds' = fds + 1 /\ file' = <<>>
      /\ call' = "writing" /\ written' = 0 /\ spoilt' = FALSE
      /\ UNCHANGED <<vars, use, nbt, answer, mapped, other, carrier, whole, unsaved>>
  BY DEF SaveOpen
<1>2. LoopInv' /\ UNCHANGED <<pc, rawlen, out>>
  BY <1>1, LoopStands, Frame DEF StoreInv
<1>3. <<>> \in Files /\ <<>> # NULL
  <2>1. <<>> \in Files
    BY DEF Files
  <2> QED
    BY <2>1, Docs
<1>4. fds \in Nat /\ fds' \in 0 .. MaxFds /\ 0 \in 0 .. MaxLen + 2 /\ fds' > 0
  <2>1. fds \in 0 .. MaxFds
    BY RestIs DEF Rest
  <2> QED
    BY <1>1, <2>1, Docs
<1>5. Rest'
  BY <1>1, <1>3, <1>4, RestIs DEF Rest
<1>6. CallsInOrder' /\ SavedSoFar' /\ Mapped' /\ Found'
  BY <1>1, <1>2, <1>3, <1>4
     DEF StoreInv, CallsInOrder, SavedSoFar, TrueIsWhole, Mapped, Found, LoadedWasSaved
<1>7. InRegion'
  BY <1>1, RegionStands DEF StoreInv
<1> QED
  BY <1>2, <1>5, <1>6, <1>7, StoreInvIs

\* fwrite.
LEMMA KeepsSaveWrite ==
  ASSUME StoreInv, SaveWrite
  PROVE  StoreInv'
<1>1. PICK k \in 0 .. Len(out) :
        /\ file' = Overlay(file, 0, k, nbt)
        /\ \/ call' = "closing" /\ written' = k /\ UNCHANGED <<vars, fds>>
           \/ k < Len(out) /\ call' = "saved" /\ fds' = fds - 1 /\ UNCHANGED written /\ Take
  BY DEF SaveWrite
<1>2. /\ call = "writing"
      /\ UNCHANGED <<use, nbt, answer, mapped, other, carrier, whole, unsaved, spoilt>>
  BY DEF SaveWrite, history
<1>3. /\ use = "file" /\ pc = "compressed" /\ out # NULL /\ file # NULL /\ fds > 0
      /\ nbt \in Doc /\ ~answer /\ fds \in 0 .. MaxFds /\ file \in Files
  BY <1>2, RestIs DEF StoreInv, CallsInOrder, Rest
<1>4. /\ Len(out) = nbt + 2 /\ nbt + 2 \in 0 .. MaxLen + 2 /\ nbt \in Nat
  BY <1>2, <1>3, StreamInHand
<1>5. k \in Nat /\ k <= nbt + 2 /\ k \in 0 .. MaxLen + 2
  BY <1>1, <1>4, Docs
<1>6. file' \in Files /\ file' # NULL
  BY <1>1, <1>3, <1>5, OverlayIs, Docs
<1>7. fds - 1 \in 0 .. MaxFds
  BY <1>3, Docs
<1>8. ~spoilt => file' = [i \in 1 .. k |-> nbt]
  <2>1. [i \in 1 .. 0 |-> nbt] = <<>>
    OBVIOUS
  <2>2. Overlay([i \in 1 .. 0 |-> nbt], 0, k, nbt) = [i \in 1 .. k |-> nbt]
    <3>1. 0 \in Nat /\ k \in Nat /\ 0 <= k
      BY <1>5
    <3> QED
      BY <1>3, <3>1, OverlayAppends
  <2>3. ~spoilt => file = <<>>
    BY <1>2, <1>3 DEF StoreInv, SavedSoFar
  <2> QED
    BY <1>1, <2>1, <2>2, <2>3
<1>9. InRegion'
  BY <1>2, RegionStands DEF StoreInv
<1>10. CASE call' = "closing" /\ written' = k /\ UNCHANGED <<vars, fds>>
  <2>1. LoopInv' /\ UNCHANGED <<pc, rawlen, out>>
    BY <1>10, LoopStands, Frame DEF StoreInv
  <2>2. Rest'
    BY <1>2, <1>5, <1>6, <1>10, RestIs DEF Rest
  <2>3. CallsInOrder' /\ SavedSoFar' /\ Mapped' /\ Found'
    BY <1>2, <1>3, <1>5, <1>6, <1>8, <1>10, <2>1
       DEF StoreInv, CallsInOrder, SavedSoFar, TrueIsWhole, Mapped, Found, LoadedWasSaved
  <2> QED
    BY <1>9, <2>1, <2>2, <2>3, StoreInvIs
<1>11. CASE call' = "saved" /\ fds' = fds - 1 /\ UNCHANGED written /\ Take
  <2>1. LoopInv' /\ pc' = "idle"
    BY <1>11, LoopStarts, Frame
  <2>2. Rest'
    BY <1>2, <1>6, <1>7, <1>11, RestIs DEF Rest
  <2>3. CallsInOrder' /\ SavedSoFar' /\ Mapped' /\ Found'
    BY <1>2, <1>3, <1>6, <1>11, <2>1
       DEF StoreInv, CallsInOrder, SavedSoFar, TrueIsWhole, Mapped, Found, LoadedWasSaved
  <2> QED
    BY <1>9, <2>1, <2>2, <2>3, StoreInvIs
<1> QED
  BY <1>1, <1>10, <1>11

\* fclose.
LEMMA KeepsSaveClose ==
  ASSUME StoreInv, SaveClose
  PROVE  StoreInv'
<1>1. PICK k \in written .. Len(out) :
        file' = Overlay(file, written, k, nbt) /\ spoilt' = (spoilt \/ k < Len(out))
  BY DEF SaveClose
<1>2. /\ call = "closing" /\ answer' = TRUE /\ call' = "saved" /\ fds' = fds - 1 /\ Take
      /\ UNCHANGED <<use, nbt, mapped, written, other, carrier, whole, unsaved>>
  BY DEF SaveClose
<1>3. /\ use = "file" /\ pc = "compressed" /\ out # NULL /\ file # NULL /\ fds > 0
      /\ nbt \in Doc /\ fds \in 0 .. MaxFds /\ file \in Files
      /\ written \in 0 .. MaxLen + 2
  BY <1>2, RestIs DEF StoreInv, CallsInOrder, Rest
<1>4. /\ Len(out) = nbt + 2 /\ nbt + 2 \in 0 .. MaxLen + 2 /\ nbt \in Nat
  BY <1>2, <1>3, StreamInHand
<1>5. k \in Nat /\ written \in Nat /\ written <= k /\ k <= nbt + 2
  BY <1>1, <1>3, <1>4, Docs
<1>6. file' \in Files /\ file' # NULL
  BY <1>1, <1>3, <1>5, OverlayIs, Docs
<1>7. fds - 1 \in 0 .. MaxFds
  BY <1>3, Docs
<1>8. spoilt' \in BOOLEAN
  BY <1>1, RestIs DEF Rest
<1>9. ~spoilt' => Readable(file') = nbt
  <2> SUFFICES ASSUME ~spoilt' PROVE Readable(file') = nbt
    OBVIOUS
  <2>1. ~spoilt /\ k = nbt + 2
    <3>1. ~spoilt /\ ~(k < Len(out))
      BY <1>1
    <3> QED
      BY <1>4, <1>5, <3>1
  <2>2. file = [i \in 1 .. written |-> nbt]
    BY <1>2, <1>3, <2>1 DEF StoreInv, SavedSoFar
  <2>3. file' = [i \in 1 .. nbt + 2 |-> nbt]
    BY <1>1, <1>3, <1>5, <2>1, <2>2, OverlayAppends
  <2>4. \A i \in 1 .. nbt + 2 : UnitAt(file', i) = nbt
    BY <2>3 DEF UnitAt
  <2> QED
    BY <1>3, <1>6, <2>4, ReadableIs
<1>10. LoopInv' /\ pc' = "idle"
  BY <1>2, LoopStarts, Frame
<1>11. Rest'
  BY <1>2, <1>6, <1>7, <1>8, RestIs DEF Rest
<1>12. CallsInOrder' /\ Mapped' /\ Found'
  BY <1>2, <1>3, <1>6, <1>10
     DEF StoreInv, CallsInOrder, Mapped, Found, LoadedWasSaved
<1>13. SavedSoFar'
  BY <1>2, <1>9 DEF SavedSoFar, TrueIsWhole
<1>14. InRegion'
  BY <1>2, RegionStands DEF StoreInv
<1> QED
  BY <1>10, <1>11, <1>12, <1>13, <1>14, StoreInvIs

\* rs_nbt_write_to_region.
LEMMA KeepsSaveToRegion ==
  ASSUME StoreInv, SaveToRegion
  PROVE  StoreInv'
<1>1. /\ call = "save" /\ pc = "compressed" /\ use = "region" /\ out # NULL
      /\ answer' = TRUE /\ call' = "saved" /\ Take
      /\ UNCHANGED <<use, nbt, file, mapped, written, fds, other, whole, spoilt>>
  BY DEF SaveToRegion
<1>2. LoopInv' /\ pc' = "idle"
  BY <1>1, LoopStarts, Frame
<1>3. out = StreamOf(nbt) /\ nbt \in Doc
  BY <1>1, StreamInHand
<1>4. unsaved' \in Doc \cup {NULL}
  BY <1>3, RestIs DEF SaveToRegion, Rest
<1>5. Rest'
  BY <1>1, <1>4, RestIs DEF Rest
<1>6. CallsInOrder' /\ SavedSoFar' /\ Mapped' /\ Found'
  BY <1>1, <1>2
     DEF StoreInv, CallsInOrder, SavedSoFar, TrueIsWhole, Mapped, Found, LoadedWasSaved
<1>7. InRegion'
  <2>1. CASE R!Put(One, out) /\ unsaved' = nbt
    <3>1. UNCHANGED <<store, mode>> /\ pending' = [pending EXCEPT ![One] = out]
      BY <2>1 DEF R!Put
    <3>2. pending = [c \in {One} |-> IF unsaved = NULL THEN Nothing ELSE StreamOf(unsaved)]
      BY <1>1 DEF StoreInv, InRegion
    <3>3. pending' = [c \in {One} |-> StreamOf(nbt)]
      BY <1>3, <3>1, <3>2
    <3>4. unsaved' # NULL
      BY <1>3, <2>1, Docs
    <3> QED
      BY <1>1, <2>1, <3>1, <3>3, <3>4 DEF R!Put, StoreInv, InRegion
  <2>2. CASE UNCHANGED <<carrier, unsaved>>
    BY <1>1, <2>2, RegionStands DEF StoreInv
  <2> QED
    BY <2>1, <2>2 DEF SaveToRegion
<1> QED
  BY <1>2, <1>5, <1>6, <1>7, StoreInvIs

\* A load for which there is nothing.
LEMMA KeepsLoadNothing ==
  ASSUME StoreInv, LoadNothing
  PROVE  StoreInv'
<1>1. /\ call = "none" /\ pc = "idle" /\ use = "file" /\ nbt = NULL /\ call' = "loaded"
      /\ UNCHANGED <<vars, use, nbt, answer, file, mapped, written, fds, other, carrier,
                     whole, unsaved, spoilt>>
  BY DEF LoadNothing, Idle, history
<1>2. LoopInv' /\ pc' = "idle"
  BY <1>1, LoopStands, Frame DEF StoreInv
<1>3. Rest'
  BY <1>1, RestIs DEF Rest
<1>4. CallsInOrder' /\ SavedSoFar' /\ Mapped' /\ Found'
  BY <1>1, <1>2
     DEF StoreInv, CallsInOrder, SavedSoFar, TrueIsWhole, Mapped, Found, LoadedWasSaved
<1>5. InRegion'
  BY <1>1, RegionStands DEF StoreInv
<1> QED
  BY <1>2, <1>3, <1>4, <1>5, StoreInvIs

\* A file is mapped.
LEMMA KeepsLoadOpen ==
  ASSUME StoreInv, LoadOpen
  PROVE  StoreInv'
<1>1. /\ call = "none" /\ pc = "idle" /\ use = "file" /\ nbt = NULL
      /\ file # NULL /\ file # <<>> /\ fds < MaxFds /\ fds' = fds + 1
      /\ mapped' = file /\ whole' = {Readable(file)} /\ call' = "load"
      /\ UNCHANGED <<vars, use, nbt, answer, file, written, other, carrier, unsaved, spoilt>>
  BY DEF LoadOpen, Idle
<1>2. LoopInv' /\ pc' = "idle"
  BY <1>1, LoopStands, Frame DEF StoreInv
<1>3. file \in Files
  BY <1>1, RestIs DEF Rest
<1>4. fds' \in 0 .. MaxFds
  <2>1. fds \in 0 .. MaxFds
    BY RestIs DEF Rest
  <2> QED
    BY <1>1, <2>1, Docs
<1>5. Readable(file) \in Doc \cup {NULL}
  BY <1>3, ReadableIs
<1>6. Rest'
  BY <1>1, <1>3, <1>4, <1>5, RestIs DEF Rest
<1>7. CallsInOrder' /\ SavedSoFar' /\ Found'
  BY <1>1, <1>2
     DEF StoreInv, CallsInOrder, SavedSoFar, TrueIsWhole, Found, LoadedWasSaved
<1>8. Mapped'
  <2>1. Consumed' = 0
    BY <1>2 DEF Consumed
  <2>2. \A i \in DOMAIN file : file[i] = UnitAt(file, i) /\ ~(i <= 0)
    BY <1>3, FileIs
  <2>3. ASSUME NEW d \in Doc, \A i \in 1 .. d + 2 : UnitAt(file, i) = d
        PROVE  d \in whole'
    BY <1>1, <1>3, <2>3, ReadableIs
  <2> QED
    BY <1>1, <1>2, <2>1, <2>2, <2>3 DEF Mapped
<1>9. InRegion'
  BY <1>1 DEF InRegion
<1> QED
  BY <1>2, <1>6, <1>7, <1>8, <1>9, StoreInvIs

\* rs_decompress begins on a mapping.
LEMMA KeepsLoadStart ==
  ASSUME StoreInv, LoadStart
  PROVE  StoreInv'
<1>1. /\ call = "load" /\ use = "file" /\ pc = "idle"
      /\ Decompress(StreamIn(mapped).format, StreamIn(mapped))
      /\ UNCHANGED <<use, nbt, call, answer, mapped, written, fds, file, other, carrier,
                     whole, unsaved, spoilt>>
  BY Frame DEF LoadStart
<1>2. mapped \in Files /\ mapped # <<>> /\ nbt = NULL
  BY <1>1, RestIs DEF StoreInv, Mapped, CallsInOrder, Rest
<1>3. StreamIn(mapped) \in Stream /\ StreamIn(mapped).format \in Encoding
  <2>1. StreamIn(mapped) \in Stream
    BY <1>2, StreamInIs
  <2> QED
    BY <2>1 DEF Stream, Encoding
<1>4. LoopInv'
  BY <1>1, <1>3, LoopBegins DEF StoreInv
<1>5. /\ pc' \in {"inflate", "decompressed"} /\ stream' = StreamIn(mapped)
      /\ made' = 0 /\ ret' = "ok" /\ UNCHANGED rawlen
  BY <1>1 DEF Decompress, StoreInv, LoopInv, AtRest
<1>6. Rest'
  BY <1>1, RestIs DEF Rest
<1>7. CallsInOrder' /\ SavedSoFar' /\ Found'
  BY <1>1, <1>2, <1>5
     DEF StoreInv, CallsInOrder, SavedSoFar, TrueIsWhole, Found, LoadedWasSaved
<1>8. Mapped'
  <2> SUFFICES ASSUME pc' = "inflate" PROVE Mapped'
    BY <1>5 DEF Mapped
  <2>1. Consumed' = 1 /\ Consumed = 0
    BY <1>1, <1>5 DEF Consumed
  <2>2. /\ DOMAIN mapped = 1 .. Len(mapped) /\ Len(mapped) \in Nat /\ 1 \in DOMAIN mapped
    BY <1>2, FileIs
  <2>3. \A i \in DOMAIN mapped : mapped[i] = UnitAt(file, i)
    BY <1>1, <2>1, <2>2 DEF StoreInv, Mapped
  <2>4. ASSUME NEW d \in Doc, mapped[1] = d, \A i \in 1 + 1 .. d + 2 : UnitAt(file, i) = d
        PROVE  d \in whole
    <3>1. d \in Nat
      BY Docs
    <3>2. \A i \in 0 + 1 .. d + 2 : UnitAt(file, i) = d
      BY <2>2, <2>3, <2>4, <3>1
    <3> QED
      BY <1>1, <2>1, <3>1, <3>2 DEF StoreInv, Mapped
  <2>5. file # NULL
    BY <1>1 DEF StoreInv, Mapped
  <2> QED
    BY <1>1, <1>2, <1>5, <2>1, <2>2, <2>3, <2>4, <2>5 DEF Mapped
<1>9. InRegion'
  BY <1>1 DEF InRegion
<1> QED
  BY <1>4, <1>6, <1>7, <1>8, <1>9, StoreInvIs

\* A page is gone.
LEMMA KeepsLoadFault ==
  ASSUME StoreInv, LoadFault
  PROVE  StoreInv'
<1>1. /\ call = "load" /\ use = "file" /\ call' = "faulted"
      /\ UNCHANGED <<vars, use, nbt, answer, file, mapped, written, fds, other, carrier,
                     whole, unsaved, spoilt>>
  BY DEF LoadFault, history
<1>2. LoopInv' /\ UNCHANGED pc
  BY <1>1, LoopStands, Frame DEF StoreInv
<1>3. Rest'
  BY <1>1, RestIs DEF Rest
<1>4. CallsInOrder' /\ SavedSoFar' /\ Mapped' /\ Found'
  BY <1>1, <1>2
     DEF StoreInv, CallsInOrder, SavedSoFar, TrueIsWhole, Mapped, Found, LoadedWasSaved
<1>5. InRegion'
  BY <1>1, RegionStands DEF StoreInv
<1> QED
  BY <1>2, <1>3, <1>4, <1>5, StoreInvIs

\* Streams have a unit for each unit of data and two ends, and are no special value.
LEMMA StreamsOf ==
  ASSUME NEW d \in Doc
  PROVE  /\ Len(StreamOf(d)) = d + 2 /\ Len(StreamOf(d)) - 2 = d
         /\ StreamOf(d) \notin {Absent, Torn, Nothing}
<1>1. d \in Nat
  BY Docs
<1>2. StreamOf(d) \in [1 .. d + 2 -> Int] /\ d + 2 \in Nat
  BY <1>1 DEF StreamOf, First, Foot
<1>3. StreamOf(d) \in Seq(Int)
  BY <1>2
<1>4. Len(StreamOf(d)) = d + 2
  <2>1. DOMAIN StreamOf(d) = 1 .. d + 2
    BY <1>2
  <2> QED
    BY <1>2, <1>3, <2>1
<1> QED
  BY <1>1, <1>3, <1>4, DocAssumption

\* rs_decompress begins on a chunk.
LEMMA KeepsLoadFromRegion ==
  ASSUME StoreInv, LoadFromRegion
  PROVE  StoreInv'
<1>1. /\ call = "none" /\ pc = "idle" /\ use = "region" /\ nbt = NULL /\ mode # "closed"
      /\ UNCHANGED <<use, nbt, answer, file, mapped, written, fds, other, carrier,
                     whole, unsaved, spoilt>>
  BY DEF LoadFromRegion, Idle, history
<1>2. InRegion'
  BY <1>1, RegionStands DEF StoreInv
<1>3. CASE store[One] = Absent
  <2>1. call' = "loaded" /\ UNCHANGED vars
    BY <1>3 DEF LoadFromRegion
  <2>2. LoopInv' /\ pc' = "idle"
    BY <1>1, <2>1, LoopStands, Frame DEF StoreInv
  <2>3. Rest'
    BY <1>1, <2>1, RestIs DEF Rest
  <2>4. CallsInOrder' /\ SavedSoFar' /\ Mapped' /\ Found'
    BY <1>1, <2>1, <2>2
       DEF StoreInv, CallsInOrder, SavedSoFar, TrueIsWhole, Mapped, Found, LoadedWasSaved
  <2> QED
    BY <1>2, <2>2, <2>3, <2>4, StoreInvIs
<1>4. CASE store[One] # Absent
  <2>1. PICK s :
          /\ s = [format |-> "zlib", size |-> Len(store[One]) - 2,
                  then |-> IF store[One] = StreamOf(Len(store[One]) - 2) THEN "whole"
                           ELSE "faulty"]
          /\ call' = "load" /\ Decompress("zlib", s)
    BY <1>4 DEF LoadFromRegion
  <2>2. PICK d \in Doc : d \in whole /\ store[One] = StreamOf(d)
    <3>1. store = [c \in {One} |-> Absent]
             \/ \E d \in Doc : d \in whole /\ store = [c \in {One} |-> StreamOf(d)]
      BY <1>1 DEF StoreInv, InRegion
    <3> QED
      BY <1>4, <3>1
  <2>3. s.size = d /\ s \in Stream
    <3>1. Len(store[One]) - 2 = d /\ d \in 0 .. MaxLen
      BY <2>2, StreamsOf, Docs
    <3> QED
      BY <2>1, <3>1 DEF Stream, Format, Known
  <2>4. LoopInv'
    <3>1. "zlib" \in Encoding
      BY DEF Encoding, Format, Known
    <3> QED
      BY <2>1, <2>3, <3>1, LoopBegins DEF StoreInv
  <2>5. pc' \in {"inflate", "decompressed"} /\ stream' = s /\ ret' = "ok"
    BY <2>1 DEF Decompress, StoreInv, LoopInv, AtRest
  <2>6. Rest'
    BY <1>1, <2>1, RestIs DEF Rest
  <2>7. CallsInOrder' /\ SavedSoFar' /\ Mapped'
    BY <1>1, <2>1, <2>5
       DEF StoreInv, CallsInOrder, SavedSoFar, TrueIsWhole, Mapped
  <2>8. Found'
    BY <1>1, <2>1, <2>2, <2>3, <2>5 DEF Found, LoadedWasSaved
  <2> QED
    BY <1>2, <2>4, <2>6, <2>7, <2>8, StoreInvIs
<1> QED
  BY <1>3, <1>4

\* What a load makes of the data.
LEMMA KeepsLoadEnd ==
  ASSUME StoreInv, LoadEnd
  PROVE  StoreInv'
<1>1. /\ call = "load" /\ pc = "decompressed" /\ nbt' = Parsed(out) /\ mapped' = <<>>
      /\ call' = "loaded" /\ Take
      /\ UNCHANGED <<use, answer, file, written, fds, other, carrier,
                     whole, unsaved, spoilt>>
  BY DEF LoadEnd, history
<1>2. LoopInv' /\ pc' = "idle"
  BY <1>1, LoopStarts, Frame
<1>3. nbt' \in Doc \cup {NULL} /\ (nbt' # NULL => nbt' \in whole)
  <2> SUFFICES ASSUME out # NULL PROVE nbt' = NULL \/ (nbt' \in Doc /\ nbt' \in whole)
    BY <1>1 DEF Parsed
  <2>1. ret = "end" /\ out = Data(stream.size)
    BY <1>1 DEF StoreInv, LoopInv, DecompressesWhole, Data
  <2>2. stream.size \in whole /\ stream.size \in 0 .. MaxLen
    BY <1>1, <2>1 DEF StoreInv, Found, LoopInv, TypeOK, Stream
  <2>3. Len(out) = stream.size
    <3>1. rawlen \in 0 .. MaxLen
      BY DEF StoreInv, LoopInv, TypeOK
    <3> QED
      BY <2>1, <2>2, <3>1, UnitsOf
  <2> QED
    BY <1>1, <2>2, <2>3 DEF Parsed
<1>4. Rest'
  <2>1. <<>> \in Files
    BY DEF Files
  <2> QED
    BY <1>1, <1>3, <2>1, RestIs DEF Rest
<1>5. use # "buffer"
  BY <1>1 DEF StoreInv, CallsInOrder
<1>6. CallsInOrder' /\ SavedSoFar' /\ Mapped' /\ Found'
  BY <1>1, <1>2, <1>3, <1>5
     DEF StoreInv, CallsInOrder, SavedSoFar, TrueIsWhole, Mapped, Found, LoadedWasSaved
<1>7. InRegion'
  BY <1>1, RegionStands DEF StoreInv
<1> QED
  BY <1>2, <1>4, <1>6, <1>7, StoreInvIs

\* The caller has its answer.
LEMMA KeepsReturn ==
  ASSUME StoreInv, Return
  PROVE  StoreInv'
<1>1. /\ call \in {"saved", "loaded"} /\ call' = "none" /\ answer' = FALSE /\ written' = 0
      /\ spoilt' = FALSE /\ whole' = (IF use = "file" THEN {} ELSE whole)
      /\ UNCHANGED <<vars, use, nbt, file, mapped, fds, other, carrier, unsaved>>
  BY DEF Return
<1>2. use # "buffer" /\ pc = "idle"
  BY <1>1 DEF StoreInv, CallsInOrder
<1>3. LoopInv' /\ pc' = "idle"
  BY <1>1, <1>2, LoopStands, Frame DEF StoreInv
<1>4. Rest'
  <2>1. 0 \in 0 .. MaxLen + 2
    BY Docs
  <2>2. whole' \subseteq Doc \cup {NULL}
    BY <1>1, RestIs DEF Rest
  <2> QED
    BY <1>1, <2>1, <2>2, RestIs DEF Rest
<1>5. CallsInOrder' /\ SavedSoFar' /\ Mapped' /\ Found'
  BY <1>1, <1>2, <1>3
     DEF StoreInv, CallsInOrder, SavedSoFar, TrueIsWhole, Mapped, Found, LoadedWasSaved
<1>6. InRegion'
  <2>1. CASE use = "region"
    BY <1>1, <2>1, RegionStands DEF StoreInv
  <2>2. CASE use # "region"
    BY <1>1, <2>2 DEF InRegion
  <2> QED
    BY <2>1, <2>2
<1> QED
  BY <1>3, <1>4, <1>5, <1>6, StoreInvIs

\* Another process writes.
LEMMA KeepsOtherSaves ==
  ASSUME StoreInv, OtherSaves
  PROVE  StoreInv'
<1>1. /\ use = "file" /\ spoilt' = (call \in {"writing", "closing", "saved"})
      /\ UNCHANGED <<use, nbt, call, answer, written, fds, carrier, unsaved>>
  BY DEF OtherSaves
<1>2. Rest
  BY RestIs
<1>3. PICK f \in Files :
        /\ Becomes(f) /\ Mapped'
        /\ other' # NULL => /\ other' \in [doc : Doc, at : Nat]
                            /\ other'.doc \in Doc /\ other'.at \in 0 .. other'.doc + 2
  <2>1. CASE /\ other = NULL
             /\ \E d \in Doc : other' = [doc |-> d, at |-> 0]
             /\ Becomes(<<>>)
    <3>1. PICK d \in Doc : other' = [doc |-> d, at |-> 0]
      BY <2>1
    <3>2. <<>> \in Files /\ 0 \in 0 .. d + 2 /\ 0 \in Nat
      BY Docs DEF Files
    <3>3. /\ other' \in [doc : Doc, at : Nat] /\ other'.at = 0
          /\ other'.doc \in Doc /\ other'.at \in 0 .. other'.doc + 2
      BY <3>1, <3>2
    <3>4. Mapped'
      BY <1>1, <2>1, <3>3, MappedEmptied
    <3> QED
      BY <2>1, <3>2, <3>3, <3>4
  <2>2. CASE /\ other # NULL
             /\ \E k \in other.at + 1 .. other.doc + 2 :
                   /\ other' = [other EXCEPT !.at = k]
                   /\ Becomes(Overlay(file, other.at, k, other.doc))
    <3>1. other \in [doc : Doc, at : Nat] /\ file # NULL /\ file \in Files
      BY <1>2, <2>2 DEF StoreInv, CallsInOrder, Rest
    <3>2. PICK e \in Doc, at \in Nat : other = [doc |-> e, at |-> at]
      BY <3>1
    <3>3. other.doc = e /\ other.at = at /\ e \in Nat
      BY <3>2, Docs
    <3>4. PICK k \in at + 1 .. e + 2 :
            other' = [other EXCEPT !.at = k] /\ Becomes(Overlay(file, at, k, e))
      BY <2>2, <3>3
    <3>5. other' = [doc |-> e, at |-> k]
      BY <3>2, <3>4
    <3>6. k \in Nat /\ at < k /\ k \in 0 .. e + 2
      BY <3>3, <3>4
    <3>7. other'.doc = e /\ other'.at = k /\ other' \in [doc : Doc, at : Nat]
      BY <3>5, <3>6
    <3>8. PICK f \in Files :
            /\ Becomes(f)
            /\ \A i \in Nat \ {0} :
                  UnitAt(f, i) = IF i \in at + 1 .. k THEN e ELSE UnitAt(file, i)
      <4>1. Overlay(file, at, k, e) \in Files
            /\ \A i \in Nat \ {0} : UnitAt(Overlay(file, at, k, e), i) =
                  IF i \in at + 1 .. k THEN e ELSE UnitAt(file, i)
        BY <3>1, <3>6, OverlayWrites
      <4> QED
        BY <3>4, <4>1
    <3>9. Mapped'
      BY <1>1, <2>2, <3>3, <3>6, <3>7, <3>8, MappedWritten
    <3> QED
      BY <3>6, <3>7, <3>8, <3>9
  <2> QED
    BY <2>1, <2>2 DEF OtherSaves
<1>4. /\ LoopInv' /\ UNCHANGED <<pc, rawlen, out, ret>>
      /\ mapped' \in Files /\ whole' \in SUBSET (Doc \cup {NULL})
  BY <1>1, <1>3, BecomesLoop
<1>5. file' = f /\ file' # NULL
  BY <1>3, Docs DEF Becomes
<1>6. Rest'
  <2>1. spoilt' \in BOOLEAN
    BY <1>1
  <2> QED
    BY <1>1, <1>2, <1>3, <1>4, <1>5, <2>1 DEF Rest
<1>7. CallsInOrder'
  BY <1>1, <1>3, <1>4, <1>5 DEF StoreInv, CallsInOrder
<1>8. SavedSoFar'
  BY <1>1 DEF SavedSoFar, TrueIsWhole
<1>9. Found'
  <2>1. ~(call = "load" /\ pc \in {"idle", "inflate"}) => UNCHANGED <<stream, whole>>
    BY <1>3 DEF Becomes
  <2> QED
    BY <1>1, <1>4, <2>1 DEF StoreInv, Found, LoadedWasSaved
<1>10. InRegion'
  BY <1>1 DEF InRegion
<1> QED
  BY <1>3, <1>4, <1>6, <1>7, <1>8, <1>9, <1>10, StoreInvIs

\* It stops.
LEMMA KeepsOtherStops ==
  ASSUME StoreInv, OtherStops
  PROVE  StoreInv'
<1>1. /\ other' = NULL
      /\ UNCHANGED <<vars, use, nbt, call, answer, mapped, written, fds, file, carrier,
                     whole, unsaved, spoilt>>
  BY DEF OtherStops, caller, history
<1>2. LoopInv' /\ UNCHANGED <<pc, stream, rawlen, made, out, ret>>
  BY <1>1, LoopStands, Frame DEF StoreInv
<1>3. Rest'
  BY <1>1, RestIs DEF Rest
<1>4. CallsInOrder' /\ SavedSoFar' /\ Found'
  BY <1>1, <1>2
     DEF StoreInv, CallsInOrder, SavedSoFar, TrueIsWhole, Found, LoadedWasSaved
<1>5. Mapped'
  <2>1. Consumed' = Consumed
    BY <1>2 DEF Consumed
  <2> QED
    BY <1>1, <1>2, <2>1 DEF StoreInv, Mapped
<1>6. InRegion'
  BY <1>1, RegionStands DEF StoreInv
<1> QED
  BY <1>2, <1>3, <1>4, <1>5, <1>6, StoreInvIs

\* The region is opened, flushed or closed.
LEMMA KeepsRegionStep ==
  ASSUME StoreInv, RegionStep
  PROVE  StoreInv'
<1>1. /\ call = "none" /\ pc = "idle" /\ use = "region"
      /\ UNCHANGED <<vars, use, nbt, call, answer, mapped, written, fds, file, other, spoilt>>
  BY DEF RegionStep, Idle, caller
<1>2. LoopInv' /\ pc' = "idle"
  BY <1>1, LoopStands, Frame DEF StoreInv
<1>3. /\ pending = [c \in {One} |-> IF unsaved = NULL THEN Nothing ELSE StreamOf(unsaved)]
      /\ \/ store = [c \in {One} |-> Absent]
         \/ \E d \in Doc : d \in whole /\ store = [c \in {One} |-> StreamOf(d)]
         \/ store = [c \in {One} |-> Torn] /\ mode = "closed"
      /\ mode = "closed" => unsaved = NULL
      /\ unsaved \in Doc \cup {NULL} /\ whole \subseteq Doc \cup {NULL}
  BY <1>1, RestIs DEF StoreInv, InRegion, Rest
<1>4. whole' \subseteq Doc \cup {NULL} /\ unsaved' \in Doc \cup {NULL} /\ InRegion'
  <2>1. CASE \E m \in {"ro", "rw"} : R!OpenStore(m) /\ UNCHANGED <<whole, unsaved>>
    <3>1. /\ mode = "closed" /\ store[One] # Torn /\ mode' # "closed"
          /\ UNCHANGED <<store, pending, whole, unsaved>>
      BY <2>1 DEF R!OpenStore
    <3> QED
      BY <1>1, <1>3, <3>1 DEF InRegion
  <2>2. CASE (R!FlushStore \/ R!CloseStore) /\ whole' = Flushed /\ unsaved' = NULL
    <3>1. mode # "closed" /\ store' = R!Applied /\ pending' = [c \in {One} |-> Nothing]
      BY <2>2 DEF R!FlushStore, R!CloseStore, R!NonePending
    <3>2. CASE unsaved = NULL
      <4>1. store' = [c \in {One} |-> store[c]] /\ whole' = whole
        BY <1>3, <2>2, <3>1, <3>2 DEF R!Applied, Flushed
      <4>2. store' = store
        BY <1>3, <3>1, <4>1
      <4> QED
        BY <1>1, <1>3, <2>2, <3>1, <4>1, <4>2 DEF InRegion
    <3>3. CASE unsaved # NULL
      <4>1. unsaved \in Doc /\ pending[One] = StreamOf(unsaved) /\ whole' = {unsaved}
        BY <1>3, <2>2, <3>3 DEF Flushed
      <4>2. StreamOf(unsaved) # Nothing
        BY <4>1, StreamsOf
      <4>3. store' = [c \in {One} |-> StreamOf(unsaved)]
        BY <3>1, <4>1, <4>2 DEF R!Applied
      <4> QED
        BY <1>1, <2>2, <3>1, <4>1, <4>3 DEF InRegion
    <3> QED
      BY <3>2, <3>3
  <2> QED
    BY <2>1, <2>2 DEF RegionStep
<1>5. Rest'
  BY <1>1, <1>4, RestIs DEF Rest
<1>6. CallsInOrder' /\ SavedSoFar' /\ Mapped' /\ Found'
  BY <1>1, <1>2
     DEF StoreInv, CallsInOrder, SavedSoFar, TrueIsWhole, Mapped, Found, LoadedWasSaved
<1> QED
  BY <1>2, <1>4, <1>5, <1>6, StoreInvIs

\* The process dies.
LEMMA KeepsCrash ==
  ASSUME StoreInv, Crash
  PROVE  StoreInv'
<1>1. /\ use # "buffer" /\ nbt' = NULL /\ call' = "none" /\ answer' = FALSE
      /\ mapped' = <<>> /\ written' = 0 /\ fds' = 0
      /\ whole' = (IF use = "region" THEN whole \cup Flushed ELSE {})
      /\ unsaved' = NULL /\ spoilt' = FALSE
      /\ UNCHANGED <<use, file, other>>
  BY DEF Crash
<1>2. AtStart' /\ pc' = "idle"
  BY DEF Crash, AtStart
<1>3. LoopInv'
  BY <1>2, LoopStarts
<1>4. Rest
  BY RestIs
<1>5. Flushed \subseteq Doc \cup {NULL} /\ (unsaved = NULL => Flushed = whole)
      /\ (unsaved # NULL => unsaved \in Doc /\ Flushed = {unsaved})
  BY <1>4 DEF Rest, Flushed
<1>6. Rest'
  <2>1. <<>> \in Files /\ 0 \in 0 .. MaxLen + 2 /\ 0 \in 0 .. MaxFds
    BY Docs DEF Files
  <2>2. whole' \subseteq Doc \cup {NULL}
    BY <1>1, <1>4, <1>5 DEF Rest
  <2> QED
    BY <1>1, <1>4, <2>1, <2>2 DEF Rest
<1>7. CallsInOrder' /\ SavedSoFar' /\ Mapped' /\ Found'
  BY <1>1, <1>2
     DEF StoreInv, CallsInOrder, SavedSoFar, TrueIsWhole, Mapped, Found, LoadedWasSaved
<1>8. InRegion'
  <2> SUFFICES ASSUME use = "region" PROVE InRegion'
    BY <1>1 DEF InRegion
  <2>1. /\ pending = [c \in {One} |-> IF unsaved = NULL THEN Nothing ELSE StreamOf(unsaved)]
        /\ \/ store = [c \in {One} |-> Absent]
           \/ \E d \in Doc : d \in whole /\ store = [c \in {One} |-> StreamOf(d)]
           \/ store = [c \in {One} |-> Torn] /\ mode = "closed"
        /\ mode = "closed" => unsaved = NULL
    BY DEF StoreInv, InRegion
  <2>2. whole' = whole \cup Flushed
    BY <1>1
  <2>3. CASE mode = "closed" /\ UNCHANGED carrier
    <3>1. UNCHANGED <<store, pending, mode>> /\ unsaved = NULL
      BY <2>1, <2>3 DEF carrier
    <3> QED
      BY <1>1, <2>1, <2>2, <3>1 DEF InRegion
  <2>4. CASE R!CrashStore
    <3>1. mode # "closed" /\ mode' = "closed" /\ pending' = [c \in {One} |-> Nothing]
      BY <2>4 DEF R!CrashStore, R!NonePending
    <3>2. \/ store' = [c \in {One} |-> Absent]
          \/ \E d \in Doc : d \in whole' /\ store' = [c \in {One} |-> StreamOf(d)]
          \/ store' = [c \in {One} |-> Torn]
      <4>1. CASE store' = store
        BY <2>1, <2>2, <3>1, <4>1
      <4>2. CASE store' # store
        <5>1. PICK v : store' = [c \in {One} |-> v] /\ v \in {store[One], R!Applied[One], Torn}
          <6>1. /\ DOMAIN store' = {One} /\ store' = [c \in {One} |-> store'[c]]
                /\ store'[One] \in {store[One], R!Applied[One], Torn}
            <7>1. /\ store' \in [{One} -> Streams \cup {Absent, Torn}]
                  /\ store'[One] \in {store[One], R!Applied[One]} \cup R!Misread(One)
              BY <2>4, <4>2 DEF R!CrashStore
            <7>2. ASSUME NEW x \in R!Misread(One)
                  PROVE  x \in {store[One], R!Applied[One], Torn}
              <8>1. CASE x = Torn
                BY <8>1
              <8>2. CASE x # Torn
                <9>1. PICK v \in {store[One], R!Applied[One]} \cap Streams :
                        x \in Streams /\ [s \in Streams |-> s][x] = [s \in Streams |-> s][v]
                  BY <8>2 DEF R!Misread
                <9> QED
                  BY <9>1
              <8> QED
                BY <8>1, <8>2
            <7> QED
              BY <7>1, <7>2
          <6>2. store' = [c \in {One} |-> store'[One]]
            BY <6>1
          <6> QED
            BY <6>1, <6>2
        <5>2. CASE v = Torn
          BY <5>1, <5>2
        <5>3. CASE v = store[One]
          BY <2>1, <2>2, <3>1, <5>1, <5>3
        <5>4. CASE v = R!Applied[One]
          <6>1. R!Applied[One] = IF pending[One] = Nothing THEN store[One] ELSE pending[One]
            BY DEF R!Applied
          <6>2. CASE pending[One] = Nothing
            BY <2>1, <2>2, <3>1, <5>1, <5>4, <6>1, <6>2
          <6>3. CASE pending[One] # Nothing
            <7>1. unsaved # NULL /\ pending[One] = StreamOf(unsaved)
              BY <2>1, <6>3
            <7> QED
              BY <1>5, <2>2, <5>1, <5>4, <6>1, <6>3, <7>1
          <6> QED
            BY <6>2, <6>3
        <5> QED
          BY <5>1, <5>2, <5>3, <5>4
      <4> QED
        BY <4>1, <4>2
    <3> QED
      BY <1>1, <3>1, <3>2 DEF InRegion
  <2> QED
    BY <2>3, <2>4 DEF Crash
<1> QED
  BY <1>3, <1>6, <1>7, <1>8, StoreInvIs

\* A client of rs_compress and rs_decompress calls, or takes what it gets.
LEMMA KeepsBuffer ==
  ASSUME StoreInv, BufferCall \/ BufferReturn
  PROVE  StoreInv'
<1>1. use = "buffer" /\ UNCHANGED <<use, nbt, call, answer, mapped, written, fds, file, other,
                                    whole, unsaved, spoilt>>
  BY Frame DEF BufferCall, BufferReturn
<1>2. LoopInv'
  <2>1. CASE BufferCall
    BY <2>1, LoopBegins DEF BufferCall, StoreInv
  <2>2. CASE BufferReturn
    BY <2>2, LoopStarts, Frame DEF BufferReturn
  <2> QED
    BY <2>1, <2>2
<1>3. Rest'
  BY <1>1, RestIs DEF Rest
<1>4. CallsInOrder' /\ SavedSoFar' /\ Mapped' /\ Found' /\ InRegion'
  BY <1>1
     DEF StoreInv, CallsInOrder, SavedSoFar, TrueIsWhole, Mapped, Found, LoadedWasSaved,
         InRegion
<1> QED
  BY <1>2, <1>3, <1>4, StoreInvIs

-----------------------------------------------------------------------------
(* The loops within a load or a save.                                      *)

\* A round of rs_decompress reads on: what it has behind it now it found in the file.
\* When it has found the foot, what it has read makes a document.
LEMMA InflateMapped ==
  ASSUME StoreInv, Inflate, UNCHANGED <<use, call, file, mapped, other, whole>>,
         call = "load", use = "file"
  PROVE  Mapped' /\ (ret' = "end" => stream.size \in whole)
<1>1. /\ pc = "inflate" /\ pc' \in {"inflate", "inflated"} /\ UNCHANGED stream
      /\ {made, made', stream.size} \subseteq Nat /\ made <= made' /\ made' <= stream.size
      /\ ret' = "end" => stream.then = "whole" /\ made' = stream.size
  BY LoopInflate DEF StoreInv
<1>2. /\ mapped \in Files /\ mapped # <<>> /\ file # NULL /\ stream = StreamIn(mapped)
      /\ \A i \in DOMAIN mapped : i > Consumed => mapped[i] = UnitAt(file, i)
      /\ other # NULL =>
            \A i \in DOMAIN mapped :
               i <= Consumed /\ i <= other.at /\ mapped[i] = other.doc =>
                  UnitAt(file, i) = other.doc
      /\ \A d \in Doc :
            /\ Consumed <= d + 1
            /\ \A i \in 1 .. Consumed : mapped[i] = d
            /\ \A i \in Consumed + 1 .. d + 2 : UnitAt(file, i) = d
            => d \in whole
  BY <1>1, RestIs DEF StoreInv, Mapped, Rest
<1>3. DOMAIN mapped = 1 .. Len(mapped) /\ Len(mapped) \in Nat
  BY <1>2, FileIs
<1>4. PICK c \in Nat, m \in Nat :
        /\ Consumed = c /\ c = made + 1 /\ m = made' + 1 /\ c <= m
        /\ m <= stream.size + 1
  BY <1>1 DEF Consumed
<1>5. /\ stream.size + 1 \in DOMAIN mapped
      /\ stream.then = "whole" =>
            /\ mapped[1] \in Doc /\ stream.size = mapped[1] /\ mapped[1] + 2 <= Len(mapped)
            /\ \A j \in 1 .. mapped[1] + 2 : mapped[j] = mapped[1]
  BY <1>2, StreamInIs
<1>6. m \in DOMAIN mapped
  BY <1>1, <1>3, <1>4, <1>5
<1>7. ASSUME ret' = "end" PROVE stream.size \in whole
  <2>1. PICK d \in Doc : /\ d = mapped[1] /\ stream.size = d /\ d + 2 <= Len(mapped)
                         /\ \A j \in 1 .. d + 2 : mapped[j] = d
    BY <1>1, <1>5, <1>7
  <2>2. d \in Nat
    BY Docs
  <2>3. c <= d + 1
    BY <1>4, <2>1, <2>2
  <2>4. \A i \in 1 .. c : mapped[i] = d
    <3>1. \A i \in 1 .. c : i \in 1 .. d + 2
      BY <2>2, <2>3
    <3> QED
      BY <2>1, <3>1
  <2>5. \A i \in c + 1 .. d + 2 : UnitAt(file, i) = d
    <3>1. ASSUME NEW i \in c + 1 .. d + 2 PROVE UnitAt(file, i) = d
      <4>1. i \in 1 .. d + 2 /\ i \in DOMAIN mapped /\ i > c
        BY <1>3, <2>1, <2>2
      <4> QED
        BY <1>2, <1>4, <2>1, <4>1
    <3> QED
      BY <3>1
  <2> QED
    BY <1>2, <1>4, <2>1, <2>3, <2>4, <2>5
<1>8. Mapped'
  <2> SUFFICES ASSUME pc' = "inflate" PROVE Mapped'
    BY <1>1 DEF Mapped
  <2>1. Consumed' = m
    BY <1>4 DEF Consumed
  <2>2. \A i \in DOMAIN mapped : i > m => mapped[i] = UnitAt(file, i)
    <3>1. \A i \in DOMAIN mapped : i > m => i > Consumed
      BY <1>3, <1>4
    <3> QED
      BY <1>2, <3>1
  <2>3. ASSUME other # NULL, NEW i \in DOMAIN mapped, i <= other.at, mapped[i] = other.doc
        PROVE  UnitAt(file, i) = other.doc
    <3>1. i <= Consumed \/ i > Consumed
      BY <1>3, <1>4
    <3> QED
      BY <1>2, <2>3, <3>1
  <2>4. ASSUME NEW d \in Doc, m <= d + 1, \A i \in 1 .. m : mapped[i] = d,
               \A i \in m + 1 .. d + 2 : UnitAt(file, i) = d
        PROVE  d \in whole
    <3>1. d \in Nat
      BY Docs
    <3>2. c <= d + 1
      BY <1>4, <2>4, <3>1
    <3>3. \A i \in 1 .. c : mapped[i] = d
      BY <1>4, <2>4
    <3>4. ASSUME NEW i \in c + 1 .. d + 2 PROVE UnitAt(file, i) = d
      <4>1. CASE i <= m
        <5>1. i \in 1 .. m /\ i \in DOMAIN mapped /\ i > c
          BY <1>3, <1>4, <1>6, <4>1
        <5> QED
          BY <1>2, <1>4, <2>4, <5>1
      <4>2. CASE i > m
        <5>1. i \in m + 1 .. d + 2
          BY <1>4, <3>1, <4>2
        <5> QED
          BY <2>4, <5>1
      <4> QED
        BY <1>4, <3>1, <4>1, <4>2
    <3> QED
      BY <1>2, <1>4, <3>2, <3>3, <3>4
  <2> QED
    BY <1>1, <1>2, <2>1, <2>2, <2>3, <2>4 DEF Mapped
<1> QED
  BY <1>7, <1>8

\* The loops leave the rest as it is.
LEMMA KeepsLoop ==
  ASSUME StoreInv, Loop
  PROVE  StoreInv'
<1>1. /\ call # "faulted"
      /\ UNCHANGED <<use, nbt, call, answer, mapped, written, fds, file, other, carrier,
                     whole, unsaved, spoilt>>
  BY Frame DEF Loop
<1>2. Rest'
  BY <1>1, RestIs DEF Rest
<1>3. SavedSoFar' /\ LoadedWasSaved'
  BY <1>1 DEF StoreInv, SavedSoFar, TrueIsWhole, Found, LoadedWasSaved
<1>4. InRegion'
  BY <1>1, RegionStands DEF StoreInv
<1>5. CASE Inflate
  <2>1. /\ LoopInv' /\ UNCHANGED <<stream, rawlen>>
        /\ pc = "inflate" /\ pc' \in {"inflate", "inflated"}
    BY <1>5, LoopInflate DEF StoreInv
  <2>2. CallsInOrder'
    BY <1>1, <2>1 DEF StoreInv, CallsInOrder
  <2>3. Mapped'
    <3>1. CASE call = "load" /\ use = "file"
      BY <1>1, <1>5, <3>1, InflateMapped
    <3>2. CASE ~(call = "load" /\ use = "file")
      BY <1>1, <3>2 DEF Mapped
    <3> QED
      BY <3>1, <3>2
  <2>4. Found'
    <3>1. call = "load" => use \in {"file", "region"}
      BY <1>1, RestIs DEF StoreInv, CallsInOrder, Rest
    <3>2. call = "load" /\ use = "region" => stream.size \in whole
      BY DEF StoreInv, Found
    <3>3. call = "load" /\ use = "file" /\ ret' = "end" => stream.size \in whole
      BY <1>1, <1>5, InflateMapped
    <3> QED
      BY <1>1, <1>3, <2>1, <3>1, <3>2, <3>3 DEF Found
  <2> QED
    BY <1>2, <1>3, <1>4, <2>1, <2>2, <2>3, <2>4, StoreInvIs
<1>6. CASE InflateError \/ Inflated
  <2>1. /\ LoopInv' /\ pc' = "decompressed" /\ UNCHANGED <<rawlen, stream>>
    BY <1>6, LoopInflated DEF StoreInv
  <2>2. pc \in {"inflate", "inflated"} /\ (ret' = "end" => pc = "inflated" /\ ret = "end")
    BY <1>6 DEF InflateError, Inflated
  <2>3. CallsInOrder' /\ Mapped'
    BY <1>1, <2>1, <2>2 DEF StoreInv, CallsInOrder, Mapped
  <2>4. Found'
    BY <1>1, <1>3, <2>1, <2>2 DEF StoreInv, Found
  <2> QED
    BY <1>2, <1>3, <1>4, <2>1, <2>3, <2>4, StoreInvIs
<1>7. CASE CopyIn \/ Deflate
  <2>1. LoopInv'
    BY <1>7, LoopCopyIn, LoopDeflate DEF StoreInv
  <2>2. /\ pc \in {"copy", "deflate"} /\ pc' \in {"copy", "deflate", "compressed"}
        /\ UNCHANGED <<stream, rawlen>>
    BY <1>7, LoopDeflate DEF StoreInv, CopyIn, Deflate
  <2>3. call # "load"
    BY <2>2 DEF StoreInv, CallsInOrder
  <2>4. CallsInOrder' /\ Mapped' /\ Found'
    BY <1>1, <1>3, <2>2, <2>3 DEF StoreInv, CallsInOrder, Mapped, Found
  <2> QED
    BY <1>2, <1>3, <1>4, <2>1, <2>4, StoreInvIs
<1> QED
  BY <1>5, <1>6, <1>7 DEF Loop

-----------------------------------------------------------------------------
(* The invariant, and what it is for.                                      *)

\* It holds at the start.
LEMMA StoreInvInit ==
  StoreInit => StoreInv
<1> SUFFICES ASSUME StoreInit PROVE StoreInv
  OBVIOUS
<1>1. /\ pc = "idle" /\ AtStart /\ use \in {"buffer", "file", "region"}
      /\ nbt = NULL /\ call = "none" /\ answer = FALSE
      /\ file = NULL /\ mapped = <<>> /\ written = 0 /\ fds = 0 /\ other = NULL
      /\ store = [c \in {One} |-> Absent] /\ pending = [c \in {One} |-> Nothing]
      /\ mode = "closed" /\ whole = {} /\ unsaved = NULL /\ spoilt = FALSE
  BY DEF StoreInit, Init, AtStart, R!NonePending
<1>2. LoopInv
  BY <1>1, LoopStarts
<1>3. Rest
  <2>1. <<>> \in Files /\ 0 \in 0 .. MaxLen + 2 /\ 0 \in 0 .. MaxFds
    BY Docs DEF Files
  <2> QED
    BY <1>1, <2>1 DEF Rest
<1>4. CallsInOrder /\ SavedSoFar /\ Mapped /\ Found /\ InRegion
  BY <1>1 DEF CallsInOrder, SavedSoFar, TrueIsWhole, Mapped, Found, LoadedWasSaved, InRegion
<1> QED
  BY <1>2, <1>3, <1>4, RestIs DEF StoreInv, LoopInv

\* Where nothing happens it holds on.
LEMMA KeepsStutter ==
  ASSUME StoreInv, UNCHANGED svars
  PROVE  StoreInv'
<1>1. /\ UNCHANGED vars
      /\ UNCHANGED <<use, nbt, call, answer, mapped, written, fds, file, other, carrier,
                     whole, unsaved, spoilt>>
  BY Frame DEF svars
<1>2. LoopInv' /\ UNCHANGED <<pc, stream, rawlen, made, out, ret>>
  BY <1>1, LoopStands, Frame DEF StoreInv
<1>3. Rest'
  BY <1>1, RestIs DEF Rest
<1>4. CallsInOrder' /\ SavedSoFar' /\ Found'
  BY <1>1, <1>2
     DEF StoreInv, CallsInOrder, SavedSoFar, TrueIsWhole, Found, LoadedWasSaved
<1>5. Mapped'
  <2>1. Consumed' = Consumed
    BY <1>2 DEF Consumed
  <2> QED
    BY <1>1, <1>2, <2>1 DEF StoreInv, Mapped
<1>6. InRegion'
  BY <1>1, RegionStands DEF StoreInv
<1> QED
  BY <1>2, <1>3, <1>4, <1>5, <1>6, StoreInvIs

\* Every step keeps the invariant.
LEMMA StoreInvNext ==
  StoreInv /\ [StoreNext]_svars => StoreInv'
BY KeepsHoldDocument, KeepsSaveStart, KeepsSaveFails, KeepsSaveOpen, KeepsSaveWrite,
   KeepsSaveClose, KeepsSaveToRegion, KeepsLoadNothing, KeepsLoadOpen, KeepsLoadStart,
   KeepsLoadFault, KeepsLoadFromRegion, KeepsLoadEnd, KeepsReturn, KeepsOtherSaves,
   KeepsOtherStops, KeepsRegionStep, KeepsCrash, KeepsBuffer, KeepsLoop, KeepsStutter
   DEF StoreNext

\* So it always holds.
LEMMA StoreInvariant ==
  StoreSpec => []StoreInv
BY StoreInvInit, StoreInvNext, PTL DEF StoreSpec

\* The region and the descriptors are as they should at the start.
LEMMA CarriedInit ==
  StoreInit => RegionTypeOK /\ DescriptorsOK
BY DEF StoreInit, RegionTypeOK, DescriptorsOK, R!NonePending

\* Actions that neither open nor close a file, and leave the region alone.
LEMMA CarriedStands ==
  ASSUME RegionTypeOK, DescriptorsOK, UNCHANGED <<carrier, fds, loads>>,
         call' \in {"writing", "closing"} <=> call \in {"writing", "closing"}
  PROVE  RegionTypeOK' /\ DescriptorsOK'
BY DEF RegionTypeOK, DescriptorsOK, carrier

\* What a flush makes of a region that holds streams.
LEMMA AppliedType ==
  ASSUME RegionTypeOK
  PROVE  R!Applied \in [{One} -> Streams \cup {Absent, Torn}]
BY DEF RegionTypeOK, R!Applied

\* The files: a save has its descriptor from fopen to fclose.
LEMMA DescriptorsKept ==
  ASSUME StoreInv, RegionTypeOK, DescriptorsOK,
         SaveOpen \/ SaveWrite \/ SaveClose \/ LoadOpen
  PROVE  RegionTypeOK' /\ DescriptorsOK'
<1>1. UNCHANGED carrier
  BY DEF SaveOpen, SaveWrite, SaveClose, LoadOpen
<1>2. RegionTypeOK'
  BY <1>1 DEF RegionTypeOK, carrier
<1>3. loads \in Nat /\ fds = loads + (IF call \in {"writing", "closing"} THEN 1 ELSE 0)
  BY DEF DescriptorsOK
<1>4. CASE SaveOpen
  <2>1. call = "save" /\ call' = "writing" /\ fds' = fds + 1 /\ loads' = loads
    BY <1>4 DEF SaveOpen
  <2> QED
    BY <1>2, <1>3, <2>1 DEF DescriptorsOK
<1>5. CASE SaveWrite
  <2>1. /\ call = "writing" /\ loads' = loads
        /\ \/ call' = "closing" /\ fds' = fds
           \/ call' = "saved" /\ fds' = fds - 1
    BY <1>5 DEF SaveWrite, history
  <2> QED
    BY <1>2, <1>3, <2>1 DEF DescriptorsOK
<1>6. CASE SaveClose
  <2>1. call = "closing" /\ call' = "saved" /\ fds' = fds - 1 /\ loads' = loads
    BY <1>6 DEF SaveClose
  <2> QED
    BY <1>2, <1>3, <2>1 DEF DescriptorsOK
<1>7. CASE LoadOpen
  <2>1. call = "none" /\ call' = "load" /\ fds' = fds + 1 /\ loads' = loads + 1
    BY <1>7 DEF LoadOpen, Idle
  <2> QED
    BY <1>2, <1>3, <2>1 DEF DescriptorsOK
<1> QED
  BY <1>4, <1>5, <1>6, <1>7

\* The region: only the stream of a document is ever put into it.
LEMMA RegionKept ==
  ASSUME StoreInv, RegionTypeOK, DescriptorsOK, SaveToRegion \/ RegionStep
  PROVE  RegionTypeOK' /\ DescriptorsOK'
<1>1. /\ UNCHANGED <<fds, loads>>
      /\ call' \in {"writing", "closing"} <=> call \in {"writing", "closing"}
  BY DEF SaveToRegion, RegionStep, caller
<1>2. DescriptorsOK'
  BY <1>1 DEF DescriptorsOK
<1>3. CASE UNCHANGED carrier
  BY <1>1, <1>3, CarriedStands
<1>4. CASE SaveToRegion /\ R!Put(One, out)
  <2>1. out = StreamOf(nbt) /\ nbt \in Doc
    BY <1>4, StreamInHand DEF SaveToRegion
  <2>2. out \in Streams
    BY <2>1 DEF Streams
  <2>3. UNCHANGED <<store, mode>> /\ pending' = [pending EXCEPT ![One] = out]
    BY <1>4 DEF R!Put
  <2> QED
    BY <1>2, <2>2, <2>3 DEF RegionTypeOK
<1>5. CASE \E m \in {"ro", "rw"} : R!OpenStore(m)
  BY <1>2, <1>5 DEF R!OpenStore, RegionTypeOK
<1>6. CASE R!FlushStore \/ R!CloseStore
  <2>1. store' = R!Applied /\ pending' = [c \in {One} |-> Nothing] /\ mode' \in {"closed", "rw"}
    BY <1>6 DEF R!FlushStore, R!CloseStore, R!NonePending
  <2> QED
    BY <1>2, <2>1, AppliedType DEF RegionTypeOK
<1> QED
  BY <1>3, <1>4, <1>5, <1>6 DEF SaveToRegion, RegionStep

\* A new process has neither descriptors nor writes outstanding.
LEMMA CarriedCrash ==
  ASSUME RegionTypeOK, Crash
  PROVE  RegionTypeOK' /\ DescriptorsOK'
<1>1. fds' = 0 /\ loads' = 0 /\ call' = "none"
  BY DEF Crash
<1>2. DescriptorsOK'
  BY <1>1 DEF DescriptorsOK
<1>3. CASE UNCHANGED carrier
  BY <1>2, <1>3 DEF RegionTypeOK, carrier
<1>4. CASE R!CrashStore
  <2>1. pending' = [c \in {One} |-> Nothing] /\ mode' = "closed"
    BY <1>4 DEF R!CrashStore, R!NonePending
  <2>2. store' = store \/ store' \in [{One} -> Streams \cup {Absent, Torn}]
    BY <1>4 DEF R!CrashStore
  <2> QED
    BY <1>2, <2>1, <2>2 DEF RegionTypeOK
<1> QED
  BY <1>3, <1>4 DEF Crash

\* So every step keeps the region and the count of the descriptors.
LEMMA CarriedNext ==
  ASSUME StoreInv, RegionTypeOK, DescriptorsOK, [StoreNext]_svars
  PROVE  RegionTypeOK' /\ DescriptorsOK'
<1>1. CASE SaveOpen \/ SaveWrite \/ SaveClose \/ LoadOpen
  BY <1>1, DescriptorsKept
<1>2. CASE SaveToRegion \/ RegionStep
  BY <1>2, RegionKept
<1>3. CASE Crash
  BY <1>3, CarriedCrash
<1>4. CASE \/ \E d \in Doc \cup {NULL, Rootless} : HoldDocument(d)
           \/ SaveStart \/ SaveFails \/ LoadNothing \/ LoadStart \/ LoadFault
           \/ LoadFromRegion \/ LoadEnd \/ Return \/ OtherSaves \/ OtherStops
           \/ BufferCall \/ BufferReturn \/ Loop \/ UNCHANGED svars
  <2>1. /\ UNCHANGED <<carrier, fds, loads>>
        /\ call' \in {"writing", "closing"} <=> call \in {"writing", "closing"}
    BY <1>4, Frame
       DEF HoldDocument, SaveStart, SaveFails, LoadNothing, LoadStart, LoadFault,
           LoadFromRegion, LoadEnd, Return, OtherSaves, OtherStops, BufferCall,
           BufferReturn, Loop, Idle, svars
  <2> QED
    BY <2>1, CarriedStands
<1> QED
  BY <1>1, <1>2, <1>3, <1>4 DEF StoreNext

\* Every variable stays in its type, the region holds nothing but whole streams, and a
\* descriptor is in use for each file mapped since the process began and for the one
\* being written, on every way through a save; they are never more than there may be.
THEOREM StoreTypeCorrect ==
  StoreSpec => []StoreTypeOK
<1>1. StoreInit => RegionTypeOK /\ DescriptorsOK
  BY CarriedInit
<1>2. StoreInv /\ RegionTypeOK /\ DescriptorsOK /\ [StoreNext]_svars
         => RegionTypeOK' /\ DescriptorsOK'
  BY CarriedNext
<1>3. StoreInv /\ RegionTypeOK /\ DescriptorsOK => StoreTypeOK
  BY DEF StoreInv, StoreTypeOK
<1> QED
  BY <1>1, <1>2, <1>3, StoreInvariant, PTL DEF StoreSpec

\* Whatever the sizes of data and buffers, and whatever else the process is at,
\* rs_decompress gives all of the data in order, or NULL.
THEOREM DecompressionIsWhole ==
  StoreSpec => []DecompressesWhole
<1>1. StoreInv => DecompressesWhole
  BY DEF StoreInv, LoopInv
<1> QED
  BY <1>1, StoreInvariant, PTL

\* However zlib holds its output back, rs_compress gives the whole stream of its
\* input, or NULL, and has all of the input taken.
THEOREM CompressionIsWhole ==
  StoreSpec => []CompressesWhole
<1>1. StoreInv => CompressesWhole
  BY DEF StoreInv, LoopInv
<1> QED
  BY <1>1, StoreInvariant, PTL

\* Whatever another process does to the file while it is read, a load gives a document
\* that the file held at some time since the load began, or one that the region may
\* hold, or none.
THEOREM WhatIsLoadedWasSaved ==
  StoreSpec => []LoadedWasSaved
<1>1. StoreInv => LoadedWasSaved
  BY DEF StoreInv, Found
<1> QED
  BY <1>1, StoreInvariant, PTL

\* A save that returned true left its document in the file, wherever stdio cut it in
\* two, unless another process or a full disk interfered.
THEOREM SavedIsReadable ==
  StoreSpec => []TrueIsWhole
<1>1. StoreInv => TrueIsWhole
  BY DEF StoreInv, SavedSoFar, TrueIsWhole
<1> QED
  BY <1>1, StoreInvariant, PTL

\* This process changes the file only with the whole stream of its document in hand.
LEMMA TouchesLast ==
  StoreInv /\ [StoreNext]_svars =>
     [file' # file /\ other' = other => out = StreamOf(nbt)]_svars
<1> SUFFICES ASSUME StoreInv, StoreNext, file' # file, other' = other
             PROVE  out = StreamOf(nbt)
  BY DEF svars
<1>1. SaveOpen \/ SaveWrite \/ SaveClose \/ OtherSaves
  BY Frame DEF StoreNext, HoldDocument, SaveStart, SaveFails, SaveToRegion, LoadNothing,
        LoadOpen, LoadStart, LoadFault, LoadFromRegion, LoadEnd, Return, OtherStops,
        RegionStep, Crash, BufferCall, BufferReturn, Loop
<1>2. CASE SaveOpen
  BY <1>2, StreamInHand DEF SaveOpen
<1>3. CASE SaveWrite \/ SaveClose
  <2>1. call \in {"writing", "closing"}
    BY <1>3 DEF SaveWrite, SaveClose
  <2>2. pc = "compressed" /\ out # NULL
    BY <2>1 DEF StoreInv, CallsInOrder
  <2> QED
    BY <2>1, <2>2, StreamInHand
<1>4. CASE OtherSaves
  <2>1. CASE other = NULL /\ \E d \in Doc : other' = [doc |-> d, at |-> 0]
    <3>1. PICK d \in Doc : other' = [doc |-> d, at |-> 0]
      BY <2>1
    <3>2. d \in Int /\ 0 \in Int
      BY Docs
    <3> QED
      BY <2>1, <3>1, <3>2, Docs
  <2>2. CASE other # NULL /\ \E k \in other.at + 1 .. other.doc + 2 :
                other' = [other EXCEPT !.at = k]
    <3>1. other \in [doc : Doc, at : Nat]
      BY <2>2 DEF StoreInv, CallsInOrder
    <3>2. PICK e \in Doc, at \in Nat : other = [doc |-> e, at |-> at]
      BY <3>1
    <3>3. PICK k \in at + 1 .. e + 2 : other' = [doc |-> e, at |-> k]
      BY <2>2, <3>2
    <3>4. k # at
      BY <3>2, <3>3, Docs
    <3>5. other'.at = k /\ other.at = at
      BY <3>2, <3>3
    <3> QED
      BY <3>4, <3>5
  <2> QED
    BY <1>4, <2>1, <2>2 DEF OtherSaves
<1> QED
  BY <1>1, <1>2, <1>3, <1>4

\* A save that fails before it has the stream, or for want of a descriptor, leaves the
\* old document as it was.
THEOREM FileIsTouchedLast ==
  StoreSpec => FileTouchedLast
<1>1. StoreInv /\ [StoreNext]_svars =>
         [file' # file /\ other' = other => out = StreamOf(nbt)]_svars
  BY TouchesLast
<1> QED
  BY <1>1, StoreInvariant, PTL DEF StoreSpec, FileTouchedLast
=============================================================================
