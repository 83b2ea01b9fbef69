------------------------ MODULE PersistedBytesStore ------------------------
(***************************************************************************)
(* What a byte store promises its sessions: packages/db/src/               *)
(* persisted-bytes-store.ts.  Every call takes effect at one instant       *)
(* between its invocation and its answer, as it does in the in-memory      *)
(* store of that file; a call may be rejected instead and a page may go    *)
(* away with its calls.                                                    *)
(***************************************************************************)
EXTENDS Integers

CONSTANTS
    Calls,         \* calls that may be under way at the same time
    Payloads,      \* the snapshots' bytes
    MaxVersion     \* bound: no write expects this version or a later one

VARIABLES
    stored,        \* the snapshot; NothingStored when there is none
    pending,       \* the operation of each call, or NoCall
    answer         \* what the call resolved to, or NoAnswer

vars == <<stored, pending, answer>>

NothingStored == [version |-> 0, bytes |-> {}]

Snapshot ==
    {NothingStored} \cup [version : Nat \ {0}, bytes : {{p} : p \in Payloads}]

ReadOp == [kind |-> "read", bytes |-> {}, expected |-> 0]
ClearOp == [kind |-> "clear", bytes |-> {}, expected |-> 0]
WriteOps ==
    [kind : {"write"}, bytes : {{p} : p \in Payloads}, expected : 0..MaxVersion - 1]

Op == {ReadOp, ClearOp} \cup WriteOps

NoCall == [kind |-> "none", bytes |-> {}, expected |-> 0]

Replies ==
    [status : {"none", "rejected", "snapshot", "committed", "conflict", "cleared"},
     snapshot : Snapshot]

Reply(status, snapshot) == [status |-> status, snapshot |-> snapshot]
NoAnswer == Reply("none", NothingStored)
Rejected == Reply("rejected", NothingStored)

-----------------------------------------------------------------------------
(* The operations *)

(* A write is accepted when expectedVersion still is the stored version. *)
IsAccepted(op, snapshot) == op.kind = "write" /\ op.expected = snapshot.version

After(op, snapshot) ==
    IF IsAccepted(op, snapshot)
    THEN [version |-> snapshot.version + 1, bytes |-> op.bytes]
    ELSE IF op.kind = "clear" THEN NothingStored ELSE snapshot

(* What read, clear, an accepted and a refused write resolve to. *)
Result(op, snapshot) ==
    CASE op.kind = "read" -> Reply("snapshot", snapshot)
      [] op.kind = "clear" -> Reply("cleared", NothingStored)
      [] op.kind = "write" -> IF IsAccepted(op, snapshot)
                              THEN Reply("committed", After(op, snapshot))
                              ELSE Reply("conflict", NothingStored)

-----------------------------------------------------------------------------
Init ==
    /\ stored = NothingStored
    /\ pending = [c \in Calls |-> NoCall]
    /\ answer = [c \in Calls |-> NoAnswer]

Invoke(c, op) ==
    /\ pending[c] = NoCall
    /\ pending' = [pending EXCEPT ![c] = op]
    /\ UNCHANGED <<stored, answer>>

Perform(c) ==
    /\ pending[c] # NoCall
    /\ answer[c] = NoAnswer
    /\ stored' = After(pending[c], stored)
    /\ answer' = [answer EXCEPT ![c] = Result(pending[c], stored)]
    /\ UNCHANGED pending

Reject(c) ==
    /\ pending[c] # NoCall
    /\ answer[c] = NoAnswer
    /\ answer' = [answer EXCEPT ![c] = Rejected]
    /\ UNCHANGED <<stored, pending>>

(* The caller goes on with the answer. *)
Take(c) ==
    /\ answer[c] # NoAnswer
    /\ pending' = [pending EXCEPT ![c] = NoCall]
    /\ answer' = [answer EXCEPT ![c] = NoAnswer]
    /\ UNCHANGED stored

(* The page goes away; a call that was not answered took effect or not. *)
Vanish(c) ==
    /\ pending[c] # NoCall
    /\ stored' \in IF answer[c] = NoAnswer
                   THEN {stored, After(pending[c], stored)}
                   ELSE {stored}
    /\ pending' = [pending EXCEPT ![c] = NoCall]
    /\ answer' = [answer EXCEPT ![c] = NoAnswer]

Next ==
    \E c \in Calls :
        \/ \E op \in Op : Invoke(c, op)
        \/ Perform(c) \/ Reject(c) \/ Take(c) \/ Vanish(c)

Spec == Init /\ [][Next]_vars

=============================================================================
