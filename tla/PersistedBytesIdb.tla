------------------------- MODULE PersistedBytesIdb -------------------------
(***************************************************************************)
(* The IndexedDB byte store of the web build: apps/web/app/lib/            *)
(* persisted-bytes-idb.ts.  Each call opens the database, creates one      *)
(* transaction and sends its requests in it; IndexedDB runs transactions   *)
(* of overlapping scope one after the other in the order they were         *)
(* created, unless both only read.                                         *)
(***************************************************************************)
EXTENDS Integers

CONSTANTS
    Calls,         \* calls that may be under way at the same time
    Payloads,      \* the snapshots' bytes
    MaxVersion     \* bound: no write expects this version or a later one

ASSUME IdbAssumption == MaxVersion \in Nat

VARIABLES
    db,            \* the committed snapshot of the object store
    op,            \* the operation of each call
    tx,            \* where the call's transaction stands
    ahead,         \* the transactions that must finish before it starts
    reply          \* what the call's promise settled to, or NoAnswer

vars == <<db, op, tx, ahead, reply>>

(* What persisted-bytes-store.ts asks of an implementation. *)
Store == INSTANCE PersistedBytesStore
         WITH stored <- db, pending <- op, answer <- reply

(* Has the call a transaction that is neither finished nor aborted? *)
Unfinished(c) == tx[c] \in {"queued", "requested", "answered"}

(* The mode of the transaction is readwrite. *)
NeedsWrite(o) == o.kind \in {"write", "clear"}

Conflicts(c, d) == NeedsWrite(op[c]) \/ NeedsWrite(op[d])

(* The transaction ends: those behind it no longer wait for it. *)
EndTransaction(c) == ahead' = [d \in Calls |-> ahead[d] \ {c}]

-----------------------------------------------------------------------------
Init ==
    /\ db = Store!NothingStored
    /\ op = [c \in Calls |-> Store!NoCall]
    /\ tx = [c \in Calls |-> "none"]
    /\ ahead = [c \in Calls |-> {}]
    /\ reply = [c \in Calls |-> Store!NoAnswer]

(* read, write or clear is called and waits for openDatabase. *)
Call(c, o) ==
    /\ tx[c] = "none"
    /\ op' = [op EXCEPT ![c] = o]
    /\ tx' = [tx EXCEPT ![c] = "opening"]
    /\ UNCHANGED <<db, ahead, reply>>

(* The database does not open: the call rejects. *)
OpenFails(c) ==
    /\ tx[c] = "opening"
    /\ tx' = [tx EXCEPT ![c] = "over"]
    /\ reply' = [reply EXCEPT ![c] = Store!Rejected]
    /\ UNCHANGED <<db, op, ahead>>

(* The transaction is created, behind those it conflicts with. *)
CreateTransaction(c) ==
    /\ tx[c] = "opening"
    /\ tx' = [tx EXCEPT ![c] = "queued"]
    /\ ahead' = [ahead EXCEPT ![c] =
                    {d \in Calls \ {c} : Unfinished(d) /\ Conflicts(c, d)}]
    /\ UNCHANGED <<db, op, reply>>

(* The first request of the transaction runs when its turn has come. *)
MayRun(c) == tx[c] = "queued" /\ ahead[c] = {}

(* get succeeded in a read: the call resolves with what it found. *)
ReadSucceeds(c) ==
    /\ MayRun(c)
    /\ op[c].kind = "read"
    /\ reply' = [reply EXCEPT ![c] = Store!Reply("snapshot", db)]
    /\ tx' = [tx EXCEPT ![c] = "answered"]
    /\ UNCHANGED <<db, op, ahead>>

(* Mutated form of WriteConflicts: it returns without resolve(null). *)
WriteConflictsSilently(c) ==
    /\ MayRun(c)
    /\ op[c].kind = "write"
    /\ op[c].expected # db.version
    /\ tx' = [tx EXCEPT ![c] = "answered"]
    /\ UNCHANGED <<db, op, ahead, reply>>

(* get succeeded in a write and the versions differ: resolve(null). *)
WriteConflicts(c) ==
    /\ MayRun(c)
    /\ op[c].kind = "write"
    /\ op[c].expected # db.version
    /\ reply' = [reply EXCEPT ![c] = Store!Reply("conflict", Store!NothingStored)]
    /\ tx' = [tx EXCEPT ![c] = "answered"]
    /\ UNCHANGED <<db, op, ahead>>

(* Mutated form of WritePuts: resolves before the transaction completes. *)
WritePutsAndResolves(c) ==
    /\ MayRun(c)
    /\ op[c].kind = "write"
    /\ op[c].expected = db.version
    /\ reply' = [reply EXCEPT ![c] = Store!Reply("committed",
                    [version |-> db.version + 1, bytes |-> op[c].bytes])]
    /\ tx' = [tx EXCEPT ![c] = "requested"]
    /\ UNCHANGED <<db, op, ahead>>

(* get succeeded in a write and the versions agree: put. *)
WritePuts(c) ==
    /\ MayRun(c)
    /\ op[c].kind = "write"
    /\ op[c].expected = db.version
    /\ tx' = [tx EXCEPT ![c] = "requested"]
    /\ UNCHANGED <<db, op, ahead, reply>>

ClearDeletes(c) ==
    /\ MayRun(c)
    /\ op[c].kind = "clear"
    /\ tx' = [tx EXCEPT ![c] = "requested"]
    /\ UNCHANGED <<db, op, ahead, reply>>

(* Mutated form of Written: the version is not incremented. *)
WrittenInPlace(c) ==
    IF op[c].kind = "clear"
    THEN Store!NothingStored
    ELSE [version |-> op[c].expected, bytes |-> op[c].bytes]

(* What oncomplete makes of the object store, and the promise resolves to. *)
Written(c) ==
    IF op[c].kind = "clear"
    THEN Store!NothingStored
    ELSE [version |-> op[c].expected + 1, bytes |-> op[c].bytes]

Resolved(c) ==
    IF op[c].kind = "clear"
    THEN Store!Reply("cleared", Store!NothingStored)
    ELSE Store!Reply("committed", Written(c))

Completes(c) ==
    /\ tx[c] = "requested"
    /\ db' = Written(c)
    /\ reply' = [reply EXCEPT ![c] = Resolved(c)]
    /\ tx' = [tx EXCEPT ![c] = "over"]
    /\ EndTransaction(c)
    /\ UNCHANGED op

(* A request fails: its onerror rejects and the transaction aborts. *)
RequestFails(c) ==
    /\ MayRun(c) \/ tx[c] = "requested"
    /\ reply' = [reply EXCEPT ![c] = Store!Rejected]
    /\ tx' = [tx EXCEPT ![c] = "over"]
    /\ EndTransaction(c)
    /\ UNCHANGED <<db, op>>

(***************************************************************************)
(* Every request succeeded but the commit does not (the quota is used up): *)
(* the transaction aborts.  That fires abort, which nothing listens for,   *)
(* and neither error nor complete: the promise stays pending.              *)
(***************************************************************************)
CommitAborts(c) ==
    /\ tx[c] = "requested"
    /\ tx' = [tx EXCEPT ![c] = "hung"]
    /\ EndTransaction(c)
    /\ UNCHANGED <<db, op, reply>>

(* A transaction that only read finishes after its request was answered. *)
Finishes(c) ==
    /\ tx[c] = "answered"
    /\ tx' = [tx EXCEPT ![c] = "over"]
    /\ EndTransaction(c)
    /\ UNCHANGED <<db, op, reply>>

(***************************************************************************)
(* The caller goes on.  A page that goes on while a read transaction of    *)
(* its own is still unfinished makes its next call as another of Calls.    *)
(***************************************************************************)
Returns(c) ==
    /\ tx[c] = "over"
    /\ reply[c] # Store!NoAnswer
    /\ op' = [op EXCEPT ![c] = Store!NoCall]
    /\ tx' = [tx EXCEPT ![c] = "none"]
    /\ reply' = [reply EXCEPT ![c] = Store!NoAnswer]
    /\ UNCHANGED <<db, ahead>>

(* The page goes away.  Requests that were sent are committed or dropped. *)
PageCloses(c) ==
    /\ tx[c] # "none"
    /\ \/ UNCHANGED db
       \/ tx[c] = "requested" /\ db' = Written(c)
    /\ op' = [op EXCEPT ![c] = Store!NoCall]
    /\ tx' = [tx EXCEPT ![c] = "none"]
    /\ reply' = [reply EXCEPT ![c] = Store!NoAnswer]
    /\ EndTransaction(c)

-----------------------------------------------------------------------------
TransactionStep(c) ==
    \/ CreateTransaction(c) \/ ReadSucceeds(c) \/ WriteConflicts(c)
    \/ WritePuts(c) \/ ClearDeletes(c) \/ Completes(c) \/ Finishes(c)

Fault(c) == OpenFails(c) \/ RequestFails(c) \/ CommitAborts(c)

Next ==
    \E c \in Calls :
        \/ \E o \in Store!Op : Call(c, o)
        \/ TransactionStep(c) \/ Fault(c) \/ Returns(c) \/ PageCloses(c)

Spec == Init /\ [][Next]_vars

(* The browser runs the transactions and answers; the caller goes on. *)
FairSpec == Spec /\ \A c \in Calls : WF_vars(TransactionStep(c) \/ Returns(c))

-----------------------------------------------------------------------------
(* Properties *)

TypeOK ==
    /\ db \in Store!Snapshot
    /\ op \in [Calls -> Store!Op \cup {Store!NoCall}]
    /\ tx \in [Calls -> {"none", "opening", "queued", "requested", "answered",
                         "over", "hung"}]
    /\ ahead \in [Calls -> SUBSET Calls]
    /\ reply \in [Calls -> Store!Replies]
    /\ \A c \in Calls : (op[c] = Store!NoCall) <=> (tx[c] = "none")

(***************************************************************************)
(* "The compare-and-swap check runs inside one readwrite transaction so    *)
(* concurrent tabs cannot interleave a lost update"                        *)
(* (persisted-bytes-idb.ts): while a write has compared and not yet        *)
(* completed, what it compared with stays the stored version.              *)
(***************************************************************************)
ComparedStays ==
    \A c \in Calls :
        tx[c] = "requested" /\ op[c].kind = "write" => op[c].expected = db.version

(***************************************************************************)
(* The IndexedDB store implements the contract of                          *)
(* persisted-bytes-store.ts: each call takes effect at one instant, and    *)
(* resolves to what it found or did there.                                 *)
(***************************************************************************)
ImplementsStore == Store!Spec

(***************************************************************************)
(* No call waits forever behind other tabs' transactions: it is answered,  *)
(* or its own transaction aborted while it committed (the one abort that   *)
(* persisted-bytes-idb.ts does not hear of), or its page is gone.          *)
(***************************************************************************)
CallsSettle ==
    \A c \in Calls :
        tx[c] = "opening" ~> reply[c] # Store!NoAnswer \/ tx[c] \in {"none", "hung"}

=============================================================================
