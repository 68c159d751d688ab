---------------------------- MODULE RegionStore ----------------------------
(***************************************************************************)
(* What src/src/region.h promises of a region, without the file: a map     *)
(* from chunks to values, writes that are remembered until rs_region_flush *)
(* or rs_region_close applies them all at once, and a process that may die.*)
(* A process that dies with writes outstanding leaves of each chunk the    *)
(* old value, the new one, or one misread: its entry points to bytes that  *)
(* have not been moved there yet, and a reader finds there a torn chunk or *)
(* some other, dated as this one.  A torn region is not opened again.      *)
(***************************************************************************)
CONSTANTS
    Chunk,
    Value,    \* what a chunk may hold
    Date,     \* when each value was written, [Value -> times]
    Absent,   \* what a chunk holds that does not exist
    Torn,     \* what is read of a chunk whose bytes are not there
    Nothing   \* no write outstanding

VARIABLES
    store,    \* the chunks on disk
    pending,  \* the writes outstanding
    mode      \* "closed", "ro" or "rw"

svars == <<store, pending, mode>>

NonePending == [c \in Chunk |-> Nothing]

StoreInit ==
    /\ store \in [Chunk -> Value \cup {Absent}]
    /\ pending = NonePending
    /\ mode = "closed"

OpenStore(m) ==
    /\ mode = "closed"
    /\ \A c \in Chunk : store[c] # Torn
    /\ mode' = m
    /\ UNCHANGED <<store, pending>>

\* A later write of a chunk takes the place of an earlier one.
Put(c, v) ==
    /\ mode = "rw"
    /\ pending' = [pending EXCEPT ![c] = v]
    /\ UNCHANGED <<store, mode>>

Applied == [c \in Chunk |-> IF pending[c] = Nothing THEN store[c] ELSE pending[c]]

FlushStore ==
    /\ mode = "rw"
    /\ store' = Applied /\ pending' = NonePending
    /\ UNCHANGED mode

CloseStore ==
    /\ mode # "closed"
    /\ store' = Applied /\ pending' = NonePending
    /\ mode' = "closed"

\* What may be read of a chunk that there was or is to be, in the middle of a flush.
Misread(c) ==
    LET values == {store[c], Applied[c]} \cap Value
    IN  {x \in {Torn} : values # {}}
        \cup {x \in Value : \E v \in values : Date[x] = Date[v]}

CrashStore ==
    /\ mode # "closed"
    /\ \/ store' = store
       \/ /\ pending # NonePending
          /\ store' \in [Chunk -> Value \cup {Absent, Torn}]
          /\ \A c \in Chunk : store'[c] \in {store[c], Applied[c]} \cup Misread(c)
    /\ pending' = NonePending
    /\ mode' = "closed"

StoreNext ==
    \/ \E m \in {"ro", "rw"} : OpenStore(m)
    \/ \E c \in Chunk, v \in Value \cup {Absent} : Put(c, v)
    \/ FlushStore
    \/ CloseStore
    \/ CrashStore

StoreSpec == StoreInit /\ [][StoreNext]_svars
=============================================================================
