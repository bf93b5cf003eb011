--------------------------- MODULE MemoryStorage ----------------------------
(***************************************************************************)
(* MemoryStorage and its MemoryTransaction (arxia-storage/src/lib.rs).     *)
(* A transaction borrows the store: until it is committed or dropped no    *)
(* other call can be made.  It stages one operation per key and applies    *)
(* them one by one, in the order of a HashMap, which is any order.         *)
(***************************************************************************)
CONSTANTS
    Keys, Values,
    Nothing,    \* no value: a key that is absent, a Delete that is staged
    Unstaged    \* no operation is staged for the key

ASSUME StorageAssumption ==
    Nothing \notin Values /\ Unstaged \notin Values /\ Unstaged # Nothing

VARIABLES
    data,       \* MemoryStorage.data
    staged,     \* MemoryTransaction.staged
    phase,      \* whether a transaction borrows the store, or is being committed
    answer      \* what the last call that reads or deletes returned

memoryVars == <<data, staged, phase, answer>>

Batches == UNION {[K -> Values] : K \in SUBSET Keys}

MemoryTypeOK ==
    /\ data \in [Keys -> Values \cup {Nothing}]
    /\ staged \in [Keys -> Values \cup {Nothing, Unstaged}]
    /\ phase \in {"idle", "open", "committing"}
    /\ answer \in Values \cup {Nothing} \cup BOOLEAN

NoOps == [k \in Keys |-> Unstaged]

(* MemoryStorage::new *)
MemoryInit ==
    /\ data = [k \in Keys |-> Nothing]
    /\ staged = NoOps
    /\ phase = "idle"
    /\ answer = Nothing

-----------------------------------------------------------------------------
(* StorageBackend for MemoryStorage.  A put tells its caller nothing; that the key
   was there is noted in answer as for delete. *)

Put(k, v) ==
    /\ phase = "idle"
    /\ data' = [data EXCEPT ![k] = v]
    /\ answer' = (data[k] # Nothing)
    /\ UNCHANGED <<staged, phase>>

Get(k) ==
    /\ phase = "idle"
    /\ answer' = data[k]
    /\ UNCHANGED <<data, staged, phase>>

Delete(k) ==
    /\ phase = "idle"
    /\ answer' = (data[k] # Nothing)
    /\ data' = [data EXCEPT ![k] = Nothing]
    /\ UNCHANGED <<staged, phase>>

-----------------------------------------------------------------------------
(* MemoryTransaction *)

(* MemoryStorage::begin_transaction *)
BeginTransaction ==
    /\ phase = "idle"
    /\ phase' = "open"
    /\ UNCHANGED <<data, staged, answer>>

(* Mutant of View: what is staged as deleted is read from the store. *)
ViewOfPuts(k) == IF staged[k] \in Values THEN staged[k] ELSE data[k]

(* get and contains: what is staged, else what is stored *)
View(k) == IF staged[k] = Unstaged THEN data[k] ELSE staged[k]

TxnGet(k) ==
    /\ phase = "open"
    /\ answer' = View(k)
    /\ UNCHANGED <<data, staged, phase>>

TxnPut(k, v) ==
    /\ phase = "open"
    /\ staged' = [staged EXCEPT ![k] = v]
    /\ answer' = (View(k) # Nothing)
    /\ UNCHANGED <<data, phase>>

TxnDelete(k) ==
    /\ phase = "open"
    /\ answer' = (View(k) # Nothing)
    /\ staged' = [staged EXCEPT ![k] = Nothing]
    /\ UNCHANGED <<data, phase>>

(* commit takes the staged operations, ... *)
Commit ==
    /\ phase = "open"
    /\ phase' = "committing"
    /\ UNCHANGED <<data, staged, answer>>

(* ... applies them one by one, ... *)
ApplyStaged(k) ==
    /\ phase = "committing"
    /\ staged[k] # Unstaged
    /\ data' = [data EXCEPT ![k] = staged[k]]
    /\ staged' = [staged EXCEPT ![k] = Unstaged]
    /\ UNCHANGED <<phase, answer>>

(* ... and gives the store back. *)
EndCommit ==
    /\ phase = "committing"
    /\ staged = NoOps
    /\ phase' = "idle"
    /\ UNCHANGED <<data, staged, answer>>

(* rollback, or dropping the transaction *)
Rollback ==
    /\ phase = "open"
    /\ phase' = "idle"
    /\ staged' = NoOps
    /\ UNCHANGED <<data, answer>>

(* atomic_put_batch: begin, put every pair, commit.  The last pair for a key counts. *)
AtomicPutBatch(batch) ==
    /\ phase = "idle"
    /\ phase' = "committing"
    /\ staged' = [k \in Keys |-> IF k \in DOMAIN batch THEN batch[k] ELSE Unstaged]
    /\ UNCHANGED <<data, answer>>

MemoryNext ==
    \/ \E k \in Keys : \/ Get(k)
                       \/ Delete(k)
                       \/ TxnGet(k)
                       \/ TxnDelete(k)
                       \/ ApplyStaged(k)
                       \/ \E v \in Values : Put(k, v) \/ TxnPut(k, v)
    \/ \E batch \in Batches : AtomicPutBatch(batch)
    \/ BeginTransaction
    \/ Commit
    \/ EndCommit
    \/ Rollback
=============================================================================
