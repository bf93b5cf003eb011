------------------------------- MODULE Stores -------------------------------
(***************************************************************************)
(* The stores of arxia-storage: the one a single owner works on, with      *)
(* transactions, and the one that threads share.  A program picks one.     *)
(***************************************************************************)
EXTENDS MemoryStorage, ConcurrentStorage

CONSTANT NoCopy     \* no transaction is open

ASSUME NoCopyAssumption == NoCopy \notin [Keys -> Values \cup {Nothing}]

VARIABLE backend    \* the store the program has picked

vars == <<memoryVars, concurrentVars, backend>>

TypeOK ==
    /\ MemoryTypeOK
    /\ ConcurrentTypeOK
    /\ backend \in {"MemoryStorage", "ConcurrentMemoryStorage"}

Init ==
    /\ MemoryInit
    /\ ConcurrentInit
    /\ backend \in {"MemoryStorage", "ConcurrentMemoryStorage"}

Next ==
    \/ backend = "MemoryStorage" /\ MemoryNext /\ UNCHANGED <<concurrentVars, backend>>
    \/ backend = "ConcurrentMemoryStorage" /\ ConcurrentNext /\ UNCHANGED <<memoryVars, backend>>

Spec == Init /\ [][Next]_vars

(* Whatever was staged in whatever order it is applied, MemoryStorage behaves as
   if a transaction had worked on a copy of its own: it reads its own writes,
   leaves nothing behind when it is dropped, and lands as a whole. *)
Abstract == INSTANCE KeyValueStore WITH
    store <- IF phase = "committing" THEN [k \in Keys |-> View(k)] ELSE data,
    copy  <- IF phase = "open" THEN [k \in Keys |-> View(k)] ELSE NoCopy,
    reply <- answer

MeetsKeyValueStore == Abstract!StoreSpec

(* However the calls of the threads interleave and whatever becomes of the bytes,
   a call that does not fail answers as it would on an undamaged map without any
   concurrency: no two delete the same value, no get returns what nobody put. *)
AnswersAreSequential ==
    \A t \in Threads : result[t] # Error => result[t] = expected[t]
=============================================================================
