--------------------------- MODULE KeyValueStore ----------------------------
(***************************************************************************)
(* What a store with transactions promises: a transaction works on a copy  *)
(* of its own, which the store becomes when it commits, in one step.       *)
(***************************************************************************)
CONSTANTS Keys, Values, Nothing, NoCopy

VARIABLES
    store,  \* what the keys hold
    copy,   \* the copy of the open transaction, or NoCopy
    reply   \* what the last call returned

storeVars == <<store, copy, reply>>

Contents == [Keys -> Values \cup {Nothing}]

StoreInit ==
    /\ store = [k \in Keys |-> Nothing]
    /\ copy = NoCopy
    /\ reply = Nothing

(* What calls see: the open transaction's copy, or else the store. *)
Current == IF copy = NoCopy THEN store ELSE copy

Read(k) == reply' = Current[k] /\ UNCHANGED <<store, copy>>

(* A write tells whether the key was there. *)
Write(k, v) ==
    /\ reply' = (Current[k] # Nothing)
    /\ IF copy = NoCopy
       THEN store' = [store EXCEPT ![k] = v] /\ UNCHANGED copy
       ELSE copy' = [copy EXCEPT ![k] = v] /\ UNCHANGED store

Begin == copy = NoCopy /\ copy' = store /\ UNCHANGED <<store, reply>>

Install == copy # NoCopy /\ store' = copy /\ copy' = NoCopy /\ UNCHANGED reply

Discard == copy # NoCopy /\ copy' = NoCopy /\ UNCHANGED <<store, reply>>

(* Several keys at once, without a transaction of the caller's. *)
WriteAll(batch) ==
    /\ copy = NoCopy
    /\ store' = [k \in Keys |-> IF k \in DOMAIN batch THEN batch[k] ELSE store[k]]
    /\ UNCHANGED <<copy, reply>>

Batches == UNION {[K -> Values] : K \in SUBSET Keys}

StoreNext ==
    \/ \E k \in Keys : Read(k)
    \/ \E k \in Keys, v \in Values \cup {Nothing} : Write(k, v)
    \/ \E batch \in Batches : WriteAll(batch)
    \/ Begin
    \/ Install
    \/ Discard

StoreSpec == StoreInit /\ [][StoreNext]_storeVars
=============================================================================
