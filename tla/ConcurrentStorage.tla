------------------------- MODULE ConcurrentStorage --------------------------
(***************************************************************************)
(* ConcurrentMemoryStorage (arxia-storage/src/lib.rs): threads share a     *)
(* HashMap behind a Mutex, and keep their values in it with a checksum.    *)
(* A thread that panics while it holds the lock poisons it; from then on   *)
(* every call returns an error.  The memory the map is kept in may be      *)
(* damaged at any time.                                                    *)
(***************************************************************************)
CONSTANTS
    Threads,
    Slots,      \* the keys
    Payloads,   \* the values
    Absent,     \* no value
    Short,      \* bytes too few to hold a checksum
    Error,      \* the Err that a call returns
    NoCall      \* the thread is not in a call

ASSUME ConcurrentAssumption ==
    /\ Absent \notin Payloads \cup {Short} \cup [sum : Payloads, value : Payloads]
    /\ Short \notin [sum : Payloads, value : Payloads]

VARIABLES
    shared,     \* ConcurrentMemoryStorage.data, the bytes under each key
    inside,     \* the threads that hold the lock: at most one
    poisoned,   \* whether the lock is poisoned
    call,       \* the call a thread is in, [op, slot, value]
    found,      \* what a thread that holds the lock has found under its key
    result,     \* what its last call returned
    ideal,      \* history: what an undamaged map with indivisible calls would hold
    expected    \* history: what that map would have answered

concurrentVars == <<shared, inside, poisoned, call, found, result, ideal, expected>>

(* Blake3 has no collisions: a checksum stands for the value it was made of. *)
Bytes == [sum : Payloads, value : Payloads] \cup {Short}

Calls == [op : {"put"}, slot : Slots, value : Payloads]
         \cup [op : {"get", "contains", "delete"}, slot : Slots, value : {Absent}]

Answers == Payloads \cup {Absent, Error} \cup BOOLEAN

ConcurrentTypeOK ==
    /\ shared \in [Slots -> Bytes \cup {Absent}]
    /\ inside \subseteq Threads
    /\ poisoned \in BOOLEAN
    /\ call \in [Threads -> Calls \cup {NoCall}]
    /\ found \in [Threads -> Bytes \cup {Absent}]
    /\ result \in [Threads -> Answers]
    /\ ideal \in [Slots -> Payloads \cup {Absent}]
    /\ expected \in [Threads -> Answers]

(* ConcurrentMemoryStorage::new *)
ConcurrentInit ==
    /\ shared = [s \in Slots |-> Absent]
    /\ inside = {}
    /\ poisoned = FALSE
    /\ call = [t \in Threads |-> NoCall]
    /\ found = [t \in Threads |-> Absent]
    /\ result = [t \in Threads |-> Absent]
    /\ ideal = [s \in Slots |-> Absent]
    /\ expected = [t \in Threads |-> Absent]

(* wrap_with_checksum *)
Wrap(v) == [sum |-> v, value |-> v]

(* unwrap_with_checksum *)
Unwrap(b) == IF b = Short THEN Error ELSE IF b.sum # b.value THEN Error ELSE b.value

(* put, get, contains or delete is called ... *)
StartCall(t, c) ==
    /\ call[t] = NoCall
    /\ call' = [call EXCEPT ![t] = c]
    /\ result' = [result EXCEPT ![t] = Absent]
    /\ expected' = [expected EXCEPT ![t] = Absent]
    /\ UNCHANGED <<shared, inside, poisoned, found, ideal>>

(* Mutant of LockFree: the lock lets everybody in. *)
LockOpen == TRUE

LockFree == inside = {}

(* ... and takes the lock, ... *)
Enter(t) ==
    /\ call[t] # NoCall /\ t \notin inside
    /\ LockFree
    /\ ~poisoned
    /\ inside' = inside \cup {t}
    /\ found' = [found EXCEPT ![t] = shared[call[t].slot]]
    /\ UNCHANGED <<shared, poisoned, call, result, ideal, expected>>

(* The call is over, the lock is free. *)
Return(t, answer) ==
    /\ result' = [result EXCEPT ![t] = answer]
    /\ call' = [call EXCEPT ![t] = NoCall]
    /\ found' = [found EXCEPT ![t] = Absent]
    /\ inside' = inside \ {t}

(* ... or finds it poisoned; ... *)
EnterPoisoned(t) ==
    /\ call[t] # NoCall
    /\ LockFree
    /\ poisoned
    /\ Return(t, Error)
    /\ UNCHANGED <<shared, poisoned, ideal, expected>>

(* What the call answers, given what it has found. *)
AnswerTo(c, bytes) ==
    CASE c.op = "put" -> Absent
      [] c.op \in {"contains", "delete"} -> bytes # Absent
      [] c.op = "get" -> IF bytes = Absent THEN Absent ELSE Unwrap(bytes)

IdealAnswer(c) ==
    CASE c.op = "put" -> Absent
      [] c.op \in {"contains", "delete"} -> ideal[c.slot] # Absent
      [] c.op = "get" -> ideal[c.slot]

(* ... it changes the map, lets the lock go and returns. *)
Leave(t) ==
    LET c == call[t] IN
    /\ t \in inside
    /\ CASE c.op = "put"    -> /\ shared' = [shared EXCEPT ![c.slot] = Wrap(c.value)]
                               /\ ideal' = [ideal EXCEPT ![c.slot] = c.value]
         [] c.op = "delete" -> /\ shared' = [shared EXCEPT ![c.slot] = Absent]
                               /\ ideal' = [ideal EXCEPT ![c.slot] = Absent]
         [] OTHER           -> UNCHANGED <<shared, ideal>>
    /\ Return(t, AnswerTo(c, found[t]))
    /\ expected' = [expected EXCEPT ![t] = IdealAnswer(c)]
    /\ UNCHANGED poisoned

(* A thread panics inside the call, before the map is changed. *)
PanicInside(t) ==
    /\ t \in inside
    /\ poisoned' = TRUE
    /\ Return(t, Error)
    /\ UNCHANGED <<shared, ideal, expected>>

(* Stored bytes change, but not into the checksum and value of something else. *)
Damage(s) ==
    /\ LockFree
    /\ shared[s] # Absent
    /\ \E b \in {Short} \cup {x \in Bytes \ {Short} : x.sum # x.value} :
          shared' = [shared EXCEPT ![s] = b]
    /\ UNCHANGED <<inside, poisoned, call, found, result, ideal, expected>>

ConcurrentNext ==
    \/ \E t \in Threads :
          \/ \E c \in Calls : StartCall(t, c)
          \/ Enter(t)
          \/ EnterPoisoned(t)
          \/ Leave(t)
          \/ PanicInside(t)
    \/ \E s \in Slots : Damage(s)
=============================================================================
