----------------------- MODULE PersistedBytesIdbProofs -----------------------
(***************************************************************************)
(* The IndexedDB byte store implements the contract of                     *)
(* persisted-bytes-store.ts, for any number of calls, payloads, versions.  *)
(***************************************************************************)
EXTENDS PersistedBytesIdb, TLAPS

(* Two conflicting transactions never run together. *)
OneAfterTheOther ==
    \A c, d \in Calls :
        c # d /\ Unfinished(c) /\ Unfinished(d) /\ Conflicts(c, d)
            => c \in ahead[d] \/ d \in ahead[c]

(* A transaction whose first request ran waits for none. *)
RunningWaitsForNone ==
    \A c \in Calls : tx[c] \in {"requested", "answered"} => ahead[c] = {}

(* Only a transaction that writes stays open after its first request. *)
RequestedWrites == \A c \in Calls : tx[c] = "requested" => NeedsWrite(op[c])

(* A call is answered when its transaction is over, or only read. *)
AnsweredWhenDecided ==
    \A c \in Calls :
        reply[c] = Store!NoAnswer <=> tx[c] \notin {"answered", "over"}

IdbInv ==
    /\ TypeOK
    /\ OneAfterTheOther
    /\ RunningWaitsForNone
    /\ RequestedWrites
    /\ AnsweredWhenDecided
    /\ ComparedStays

LEMMA AnswersAreAnswers ==
    /\ Store!Rejected # Store!NoAnswer
    /\ \A s, status : status # "none" =>
            Store!Reply(status, s) # Store!NoAnswer
BY DEF Store!Rejected, Store!NoAnswer, Store!Reply

LEMMA OpsAreNotNoCall == Store!NoCall \notin Store!Op
BY DEF Store!NoCall, Store!Op, Store!ReadOp, Store!ClearOp, Store!WriteOps

LEMMA OpKinds ==
    \A o \in Store!Op : o.kind \in {"read", "write", "clear"}
BY DEF Store!Op, Store!ReadOp, Store!ClearOp, Store!WriteOps

LEMMA ReplyTypes ==
    /\ Store!NothingStored \in Store!Snapshot
    /\ Store!NoAnswer \in Store!Replies
    /\ Store!Rejected \in Store!Replies
    /\ \A snapshot \in Store!Snapshot :
         \A status \in {"snapshot", "committed", "conflict", "cleared"} :
            Store!Reply(status, snapshot) \in Store!Replies
<1>1. Store!NothingStored \in Store!Snapshot
    BY DEF Store!Snapshot
<1> QED
    BY <1>1 DEF Store!NoAnswer, Store!Rejected, Store!Reply, Store!Replies

LEMMA WrittenType ==
    ASSUME TypeOK, NEW c \in Calls, tx[c] = "requested", NeedsWrite(op[c])
    PROVE  Written(c) \in Store!Snapshot
<1>1. op[c] \in Store!Op
    BY DEF TypeOK
<1>2. CASE op[c].kind = "clear"
    BY <1>2 DEF Written, Store!Snapshot
<1>3. CASE op[c].kind # "clear"
    <2>1. op[c] \in Store!WriteOps
        BY <1>1, <1>3 DEF NeedsWrite, Store!Op, Store!ReadOp, Store!ClearOp
    <2>2. /\ op[c].bytes \in {{p} : p \in Payloads}
          /\ op[c].expected \in Nat
        BY <2>1, IdbAssumption DEF IdbAssumption, Store!WriteOps
    <2> QED
        BY <1>3, <2>2 DEF Written, Store!Snapshot
<1> QED
    BY <1>2, <1>3

LEMMA IdbTypeStep ==
    ASSUME TypeOK, RequestedWrites, [Next]_vars
    PROVE  TypeOK'
<1> USE DEF TypeOK, RequestedWrites
<1>a. CASE UNCHANGED vars
    BY <1>a, OpsAreNotNoCall, ReplyTypes DEF vars
<1>1. ASSUME NEW c \in Calls, NEW o \in Store!Op, Call(c, o)
      PROVE  TypeOK'
    BY <1>1, OpsAreNotNoCall, ReplyTypes DEF Call
<1>2. ASSUME NEW c \in Calls, OpenFails(c)
      PROVE  TypeOK'
    BY <1>2, OpsAreNotNoCall, ReplyTypes DEF OpenFails
<1>3. ASSUME NEW c \in Calls, CreateTransaction(c)
      PROVE  TypeOK'
    BY <1>3, OpsAreNotNoCall, ReplyTypes DEF CreateTransaction
<1>4. ASSUME NEW c \in Calls, ReadSucceeds(c)
      PROVE  TypeOK'
    BY <1>4, OpsAreNotNoCall, ReplyTypes DEF ReadSucceeds, MayRun
<1>5. ASSUME NEW c \in Calls, WriteConflicts(c)
      PROVE  TypeOK'
    BY <1>5, OpsAreNotNoCall, ReplyTypes DEF WriteConflicts, MayRun
<1>6. ASSUME NEW c \in Calls, WritePuts(c)
      PROVE  TypeOK'
    BY <1>6, OpsAreNotNoCall, ReplyTypes DEF WritePuts, MayRun
<1>7. ASSUME NEW c \in Calls, ClearDeletes(c)
      PROVE  TypeOK'
    BY <1>7, OpsAreNotNoCall, ReplyTypes DEF ClearDeletes, MayRun
<1>8. ASSUME NEW c \in Calls, Completes(c)
      PROVE  TypeOK'
    BY <1>8, OpsAreNotNoCall, ReplyTypes, WrittenType DEF Completes, EndTransaction, Resolved
<1>9. ASSUME NEW c \in Calls, RequestFails(c)
      PROVE  TypeOK'
    BY <1>9, OpsAreNotNoCall, ReplyTypes DEF RequestFails, MayRun, EndTransaction
<1>10. ASSUME NEW c \in Calls, CommitAborts(c)
      PROVE  TypeOK'
    BY <1>10, OpsAreNotNoCall, ReplyTypes DEF CommitAborts, EndTransaction
<1>11. ASSUME NEW c \in Calls, Finishes(c)
      PROVE  TypeOK'
    BY <1>11, OpsAreNotNoCall, ReplyTypes DEF Finishes, EndTransaction
<1>12. ASSUME NEW c \in Calls, Returns(c)
      PROVE  TypeOK'
    BY <1>12, OpsAreNotNoCall, ReplyTypes DEF Returns
<1>13. ASSUME NEW c \in Calls, PageCloses(c)
      PROVE  TypeOK'
    BY <1>13, OpsAreNotNoCall, ReplyTypes, WrittenType DEF PageCloses, EndTransaction
<1> QED
    BY <1>a, <1>1, <1>2, <1>3, <1>4, <1>5, <1>6, <1>7, <1>8, <1>9, <1>10,
       <1>11, <1>12, <1>13
    DEF Next, TransactionStep, Fault

LEMMA OrderStep ==
    ASSUME IdbInv, [Next]_vars
    PROVE  OneAfterTheOther' /\ RunningWaitsForNone'
<1> USE DEF IdbInv, TypeOK, OneAfterTheOther, RunningWaitsForNone, Unfinished,
            Conflicts
<1>a. CASE UNCHANGED vars
    BY <1>a DEF vars
<1>1. ASSUME NEW c \in Calls, NEW o \in Store!Op, Call(c, o)
      PROVE  OneAfterTheOther' /\ RunningWaitsForNone'
    BY <1>1 DEF Call
<1>2. ASSUME NEW c \in Calls, OpenFails(c)
      PROVE  OneAfterTheOther' /\ RunningWaitsForNone'
    BY <1>2 DEF OpenFails
<1>3. ASSUME NEW c \in Calls, CreateTransaction(c)
      PROVE  OneAfterTheOther' /\ RunningWaitsForNone'
    BY <1>3 DEF CreateTransaction
<1>4. ASSUME NEW c \in Calls, ReadSucceeds(c)
      PROVE  OneAfterTheOther' /\ RunningWaitsForNone'
    BY <1>4 DEF ReadSucceeds, MayRun
<1>5. ASSUME NEW c \in Calls, WriteConflicts(c)
      PROVE  OneAfterTheOther' /\ RunningWaitsForNone'
    BY <1>5 DEF WriteConflicts, MayRun
<1>6. ASSUME NEW c \in Calls, WritePuts(c)
      PROVE  OneAfterTheOther' /\ RunningWaitsForNone'
    BY <1>6 DEF WritePuts, MayRun
<1>7. ASSUME NEW c \in Calls, ClearDeletes(c)
      PROVE  OneAfterTheOther' /\ RunningWaitsForNone'
    BY <1>7 DEF ClearDeletes, MayRun
<1>8. ASSUME NEW c \in Calls, Completes(c)
      PROVE  OneAfterTheOther' /\ RunningWaitsForNone'
    BY <1>8 DEF Completes, EndTransaction
<1>9. ASSUME NEW c \in Calls, RequestFails(c)
      PROVE  OneAfterTheOther' /\ RunningWaitsForNone'
    BY <1>9 DEF RequestFails, MayRun, EndTransaction
<1>10. ASSUME NEW c \in Calls, CommitAborts(c)
      PROVE  OneAfterTheOther' /\ RunningWaitsForNone'
    BY <1>10 DEF CommitAborts, EndTransaction
<1>11. ASSUME NEW c \in Calls, Finishes(c)
      PROVE  OneAfterTheOther' /\ RunningWaitsForNone'
    BY <1>11 DEF Finishes, EndTransaction
<1>12. ASSUME NEW c \in Calls, Returns(c)
      PROVE  OneAfterTheOther' /\ RunningWaitsForNone'
    BY <1>12 DEF Returns
<1>13. ASSUME NEW c \in Calls, PageCloses(c)
      PROVE  OneAfterTheOther' /\ RunningWaitsForNone'
    BY <1>13 DEF PageCloses, EndTransaction
<1> QED
    BY <1>a, <1>1, <1>2, <1>3, <1>4, <1>5, <1>6, <1>7, <1>8, <1>9, <1>10,
       <1>11, <1>12, <1>13
    DEF Next, TransactionStep, Fault

LEMMA AnswerStep ==
    ASSUME IdbInv, [Next]_vars
    PROVE  RequestedWrites' /\ AnsweredWhenDecided'
<1> USE DEF IdbInv, TypeOK, RequestedWrites, AnsweredWhenDecided
<1>a. CASE UNCHANGED vars
    BY <1>a, AnswersAreAnswers DEF vars
<1>1. ASSUME NEW c \in Calls, NEW o \in Store!Op, Call(c, o)
      PROVE  RequestedWrites' /\ AnsweredWhenDecided'
    BY <1>1, AnswersAreAnswers DEF Call
<1>2. ASSUME NEW c \in Calls, OpenFails(c)
      PROVE  RequestedWrites' /\ AnsweredWhenDecided'
    BY <1>2, AnswersAreAnswers DEF OpenFails
<1>3. ASSUME NEW c \in Calls, CreateTransaction(c)
      PROVE  RequestedWrites' /\ AnsweredWhenDecided'
    BY <1>3, AnswersAreAnswers DEF CreateTransaction
<1>4. ASSUME NEW c \in Calls, ReadSucceeds(c)
      PROVE  RequestedWrites' /\ AnsweredWhenDecided'
    BY <1>4, AnswersAreAnswers DEF ReadSucceeds, MayRun
<1>5. ASSUME NEW c \in Calls, WriteConflicts(c)
      PROVE  RequestedWrites' /\ AnsweredWhenDecided'
    BY <1>5, AnswersAreAnswers DEF WriteConflicts, MayRun
<1>6. ASSUME NEW c \in Calls, WritePuts(c)
      PROVE  RequestedWrites' /\ AnsweredWhenDecided'
    BY <1>6, AnswersAreAnswers DEF WritePuts, MayRun, NeedsWrite
<1>7. ASSUME NEW c \in Calls, ClearDeletes(c)
      PROVE  RequestedWrites' /\ AnsweredWhenDecided'
    BY <1>7, AnswersAreAnswers DEF ClearDeletes, MayRun, NeedsWrite
<1>8. ASSUME NEW c \in Calls, Completes(c)
      PROVE  RequestedWrites' /\ AnsweredWhenDecided'
    BY <1>8, AnswersAreAnswers DEF Completes, Resolved
<1>9. ASSUME NEW c \in Calls, RequestFails(c)
      PROVE  RequestedWrites' /\ AnsweredWhenDecided'
    BY <1>9, AnswersAreAnswers DEF RequestFails, MayRun
<1>10. ASSUME NEW c \in Calls, CommitAborts(c)
      PROVE  RequestedWrites' /\ AnsweredWhenDecided'
    BY <1>10, AnswersAreAnswers DEF CommitAborts
<1>11. ASSUME NEW c \in Calls, Finishes(c)
      PROVE  RequestedWrites' /\ AnsweredWhenDecided'
    BY <1>11, AnswersAreAnswers DEF Finishes
<1>12. ASSUME NEW c \in Calls, Returns(c)
      PROVE  RequestedWrites' /\ AnsweredWhenDecided'
    BY <1>12, AnswersAreAnswers DEF Returns
<1>13. ASSUME NEW c \in Calls, PageCloses(c)
      PROVE  RequestedWrites' /\ AnsweredWhenDecided'
    BY <1>13, AnswersAreAnswers DEF PageCloses
<1> QED
    BY <1>a, <1>1, <1>2, <1>3, <1>4, <1>5, <1>6, <1>7, <1>8, <1>9, <1>10,
       <1>11, <1>12, <1>13
    DEF Next, TransactionStep, Fault

(* Of the requested transactions that write there is one at a time. *)
LEMMA OneRequested ==
    ASSUME IdbInv, NEW c \in Calls, NEW d \in Calls,
           tx[c] = "requested", tx[d] = "requested"
    PROVE  c = d
BY DEF IdbInv, OneAfterTheOther, RunningWaitsForNone, RequestedWrites,
       Unfinished, Conflicts

LEMMA ComparedStep ==
    ASSUME IdbInv, [Next]_vars
    PROVE  ComparedStays'
<1> USE DEF IdbInv, TypeOK, ComparedStays
<1>a. CASE UNCHANGED vars
    BY <1>a DEF vars
<1>1. ASSUME NEW c \in Calls, NEW o \in Store!Op, Call(c, o)
      PROVE  ComparedStays'
    BY <1>1 DEF Call
<1>2. ASSUME NEW c \in Calls, OpenFails(c)
      PROVE  ComparedStays'
    BY <1>2 DEF OpenFails
<1>3. ASSUME NEW c \in Calls, CreateTransaction(c)
      PROVE  ComparedStays'
    BY <1>3 DEF CreateTransaction
<1>4. ASSUME NEW c \in Calls, ReadSucceeds(c)
      PROVE  ComparedStays'
    BY <1>4 DEF ReadSucceeds, MayRun
<1>5. ASSUME NEW c \in Calls, WriteConflicts(c)
      PROVE  ComparedStays'
    BY <1>5 DEF WriteConflicts, MayRun
<1>6. ASSUME NEW c \in Calls, WritePuts(c)
      PROVE  ComparedStays'
    BY <1>6 DEF WritePuts, MayRun
<1>7. ASSUME NEW c \in Calls, ClearDeletes(c)
      PROVE  ComparedStays'
    BY <1>7 DEF ClearDeletes, MayRun
<1>8. ASSUME NEW c \in Calls, Completes(c)
      PROVE  ComparedStays'
    BY <1>8, OneRequested DEF Completes
<1>9. ASSUME NEW c \in Calls, RequestFails(c)
      PROVE  ComparedStays'
    BY <1>9 DEF RequestFails, MayRun
<1>10. ASSUME NEW c \in Calls, CommitAborts(c)
      PROVE  ComparedStays'
    BY <1>10 DEF CommitAborts
<1>11. ASSUME NEW c \in Calls, Finishes(c)
      PROVE  ComparedStays'
    BY <1>11 DEF Finishes
<1>12. ASSUME NEW c \in Calls, Returns(c)
      PROVE  ComparedStays'
    BY <1>12 DEF Returns
<1>13. ASSUME NEW c \in Calls, PageCloses(c)
      PROVE  ComparedStays'
    BY <1>13, OneRequested DEF PageCloses
<1> QED
    BY <1>a, <1>1, <1>2, <1>3, <1>4, <1>5, <1>6, <1>7, <1>8, <1>9, <1>10,
       <1>11, <1>12, <1>13
    DEF Next, TransactionStep, Fault

LEMMA IdbInvariant == Spec => []IdbInv
<1>1. Init => IdbInv
    <2> SUFFICES ASSUME Init
                 PROVE  IdbInv
        OBVIOUS
    <2>1. TypeOK
        BY OpsAreNotNoCall, ReplyTypes DEF Init, TypeOK
    <2>2. OneAfterTheOther /\ RunningWaitsForNone
        BY DEF Init, OneAfterTheOther, RunningWaitsForNone, Unfinished
    <2>3. RequestedWrites /\ AnsweredWhenDecided /\ ComparedStays
        BY DEF Init, RequestedWrites, AnsweredWhenDecided, ComparedStays
    <2> QED
        BY <2>1, <2>2, <2>3 DEF IdbInv
<1>2. IdbInv /\ [Next]_vars => IdbInv'
    BY IdbTypeStep, OrderStep, AnswerStep, ComparedStep DEF IdbInv
<1> QED
    BY <1>1, <1>2, PTL DEF Spec

(***************************************************************************)
(* Calls, transactions and answers keep their types: no call is answered   *)
(* before it was made, whichever tabs call (persisted-bytes-idb.ts).       *)
(***************************************************************************)
THEOREM IdbTypeSafe == Spec => []TypeOK
<1>1. IdbInv => TypeOK
    BY DEF IdbInv
<1> QED
    BY <1>1, IdbInvariant, PTL

(***************************************************************************)
(* What a write compared with stays the stored version until its           *)
(* transaction completes (persisted-bytes-idb.ts), for any number of tabs. *)
(***************************************************************************)
THEOREM ComparedSafe == Spec => []ComparedStays
<1>1. IdbInv => ComparedStays
    BY DEF IdbInv
<1> QED
    BY <1>1, IdbInvariant, PTL

(* The transaction of an accepted write, or of a clear, completes. *)
LEMMA CompletionPerforms ==
    ASSUME IdbInv, NEW c \in Calls, tx[c] = "requested"
    PROVE  /\ Written(c) = Store!After(op[c], db)
           /\ Resolved(c) = Store!Result(op[c], db)
           /\ reply[c] = Store!NoAnswer
           /\ op[c] # Store!NoCall
<1>1. /\ reply[c] = Store!NoAnswer
      /\ op[c] # Store!NoCall
    BY DEF IdbInv, TypeOK, AnsweredWhenDecided
<1>2. CASE op[c].kind = "clear"
    BY <1>1, <1>2
    DEF Written, Resolved, Store!After, Store!Result, Store!IsAccepted
<1>3. CASE op[c].kind = "write"
    <2>1. op[c].expected = db.version
        BY <1>3 DEF IdbInv, ComparedStays
    <2> QED
        BY <1>1, <1>3, <2>1
        DEF Written, Resolved, Store!After, Store!Result, Store!IsAccepted
<1> QED
    BY <1>1, <1>2, <1>3 DEF IdbInv, RequestedWrites, NeedsWrite

(* Every step of the IndexedDB store is a step of the contract or none. *)
LEMMA StepImplements ==
    ASSUME IdbInv, [Next]_vars
    PROVE  [Store!Next]_Store!vars
<1> USE DEF IdbInv, TypeOK, AnsweredWhenDecided
<1>a. CASE UNCHANGED vars
    BY <1>a DEF vars, Store!vars
<1>1. ASSUME NEW c \in Calls, NEW o \in Store!Op, Call(c, o)
      PROVE  Store!Invoke(c, o)
    BY <1>1 DEF Call, Store!Invoke
<1>2. ASSUME NEW c \in Calls, OpenFails(c)
      PROVE  Store!Reject(c)
    BY <1>2 DEF OpenFails, Store!Reject
<1>3. ASSUME NEW c \in Calls, CreateTransaction(c)
      PROVE  UNCHANGED Store!vars
    BY <1>3 DEF CreateTransaction, Store!vars
<1>4. ASSUME NEW c \in Calls, ReadSucceeds(c)
      PROVE  Store!Perform(c)
    BY <1>4 DEF ReadSucceeds, MayRun, Store!After, Store!Result, Store!IsAccepted, Store!Perform
<1>5. ASSUME NEW c \in Calls, WriteConflicts(c)
      PROVE  Store!Perform(c)
    BY <1>5 DEF WriteConflicts, MayRun, Store!After, Store!Result, Store!IsAccepted, Store!Perform
<1>6. ASSUME NEW c \in Calls, WritePuts(c)
      PROVE  UNCHANGED Store!vars
    BY <1>6 DEF WritePuts, Store!vars
<1>7. ASSUME NEW c \in Calls, ClearDeletes(c)
      PROVE  UNCHANGED Store!vars
    BY <1>7 DEF ClearDeletes, Store!vars
<1>8. ASSUME NEW c \in Calls, Completes(c)
      PROVE  Store!Perform(c)
    BY <1>8, CompletionPerforms DEF Completes, Store!Perform
<1>9. ASSUME NEW c \in Calls, RequestFails(c)
      PROVE  Store!Reject(c)
    BY <1>9 DEF RequestFails, MayRun, Store!Reject
<1>10. ASSUME NEW c \in Calls, CommitAborts(c)
      PROVE  UNCHANGED Store!vars
    BY <1>10 DEF CommitAborts, Store!vars
<1>11. ASSUME NEW c \in Calls, Finishes(c)
      PROVE  UNCHANGED Store!vars
    BY <1>11 DEF Finishes, Store!vars
<1>12. ASSUME NEW c \in Calls, Returns(c)
      PROVE  Store!Take(c)
    BY <1>12 DEF Returns, Store!Take
<1>13. ASSUME NEW c \in Calls, PageCloses(c)
      PROVE  Store!Vanish(c)
    BY <1>13, CompletionPerforms DEF PageCloses, Store!Vanish
<1> QED
    BY <1>a, <1>1, <1>2, <1>3, <1>4, <1>5, <1>6, <1>7, <1>8, <1>9, <1>10,
       <1>11, <1>12, <1>13
    DEF Next, TransactionStep, Fault, Store!Next

(***************************************************************************)
(* The IndexedDB store (persisted-bytes-idb.ts) implements the contract of *)
(* persisted-bytes-store.ts: whatever calls of whatever pages overlap,     *)
(* fail or lose their page, each takes effect at one instant.              *)
(***************************************************************************)
THEOREM IdbImplementsStore == Spec => ImplementsStore
<1>1. Init => Store!Init
    BY DEF Init, Store!Init
<1>2. IdbInv /\ [Next]_vars => [Store!Next]_Store!vars
    BY StepImplements
<1> QED
    BY <1>1, <1>2, IdbInvariant, PTL DEF Spec, ImplementsStore, Store!Spec

==============================================================================
