---------------------------- MODULE RequestGate ----------------------------
(***************************************************************************)
(* The request gate of one provider and the HTTP client that sends through *)
(* it: packages/extensions-sdk/src/request-gate.ts and request-client.ts.  *)
(* Every request of the app to the provider takes a slot of one sliding    *)
(* window first; a 429 parks the gate until the moment the source names.   *)
(*                                                                         *)
(* Granularity.  acquire runs without a break from the call, or from the   *)
(* end of one of its sleeps, to its next sleep: Look.  Time is the clock   *)
(* Tick advances; a timer fires at its moment or later, never before.      *)
(*                                                                         *)
(* A pace of zero or less is refused before anything is read and is left   *)
(* out.  So is the wall clock being set back.                              *)
(***************************************************************************)
EXTENDS Naturals, Sequences

CONSTANTS
    Callers,       \* requests that may be under way at the same time
    Paces,         \* requests per window a caller may ask for
    Window,        \* windowMs
    MaxAutoWait,   \* MAX_AUTO_WAIT_MS
    RetryAfters,   \* waits a 429 asks for
    None           \* no horizon

ASSUME GateAssumption ==
    /\ Paces \subseteq Nat \ {0}
    /\ {Window, MaxAutoWait} \subseteq Nat \ {0}
    /\ RetryAfters \subseteq Nat
    /\ None \notin Nat

VARIABLES
    clock,         \* Date.now()
    timestamps,    \* the grants the window still counts
    blockedUntil,  \* the horizon of the last 429s
    client,        \* where each caller's request stands
    aborted        \* the callers' signals

(***************************************************************************)
(* History variables.  granted: every grant so far, with the pace its      *)
(* caller asked for.  told: the latest moment a 429 has named.             *)
(***************************************************************************)
VARIABLES granted, told

gateVars == <<timestamps, blockedUntil>>
gateState == <<clock, gateVars, client, aborted, granted, told>>

Phase == {"idle", "sleeping", "sent", "body", "limited", "ok", "failed"}

Sleeper == [pc : {"sleeping"}, wakeAt : Nat, pace : Paces]

Client == Sleeper \cup [pc : Phase \ {"sleeping"}, wakeAt : Nat, pace : Paces \cup {0}]

Idle == [pc |-> "idle", wakeAt |-> 0, pace |-> 0]

Asleep == {c \in Callers : client[c].pc = "sleeping"}

(* Requests whose answer, or the rest of it, the network still owes. *)
OnTheWire == {c \in Callers : client[c].pc \in {"sent", "body", "limited"}}

GateInit ==
    /\ clock = 0
    /\ timestamps = <<>>
    /\ blockedUntil = None
    /\ client = [c \in Callers |-> Idle]
    /\ aborted = [c \in Callers |-> FALSE]
    /\ granted = <<>>
    /\ told = 0

-----------------------------------------------------------------------------
(* acquire *)

Expired(stamp, t) == t >= stamp + Window

(* Mutated form of Prunes: a grant leaves the window a tick early. *)
PrunesEarly(n) ==
    /\ \A i \in 1..n : Expired(timestamps[i], clock + 1)
    /\ n < Len(timestamps) => ~Expired(timestamps[n + 1], clock + 1)

(* prune: it shifts off n grants, up to the first that still counts. *)
Prunes(n) ==
    /\ \A i \in 1..n : Expired(timestamps[i], clock)
    /\ n < Len(timestamps) => ~Expired(timestamps[n + 1], clock)

Without(n) == SubSeq(timestamps, n + 1, Len(timestamps))

Later(a, b) == IF a >= b THEN a ELSE b

IsBlocked == blockedUntil # None /\ blockedUntil > clock

Sleep(c, pace, until) ==
    /\ client' = [client EXCEPT ![c] = [pc |-> "sleeping", wakeAt |-> until, pace |-> pace]]
    /\ UNCHANGED granted

Refuse(c) ==
    /\ client' = [client EXCEPT ![c] = [Idle EXCEPT !.pc = "failed"]]
    /\ UNCHANGED granted

Grant(c, pace) ==
    /\ client' = [client EXCEPT ![c] = [Idle EXCEPT !.pc = "sent", !.pace = pace]]
    /\ granted' = Append(granted, [at |-> clock, pace |-> pace])

(* The gate is parked: a wait too long to sleep through is refused, and the *)
(* horizon stays.                                                           *)
Parked(c, pace) ==
    /\ IsBlocked
    /\ IF blockedUntil - clock > MaxAutoWait
       THEN Refuse(c)
       ELSE Sleep(c, pace, blockedUntil)
    /\ UNCHANGED gateVars

(* The gate is open: there is a slot, or the oldest grant has to leave. *)
Open(c, pace) ==
    /\ ~IsBlocked
    /\ blockedUntil' = None
    /\ \E n \in 0..Len(timestamps) :
        /\ Prunes(n)
        /\ IF Len(Without(n)) < pace
           THEN /\ timestamps' = Append(Without(n), clock)
                /\ Grant(c, pace)
           ELSE /\ timestamps' = Without(n)
                /\ Sleep(c, pace, Later(clock + 1, Without(n)[1] + Window))

(* One turn of the loop of acquire. *)
Look(c, pace) ==
    /\ Parked(c, pace) \/ Open(c, pace)
    /\ UNCHANGED <<clock, aborted, told>>

(* request: a signal that is aborted already is noticed first. *)
Request(c, pace) ==
    /\ client[c].pc = "idle"
    /\ IF aborted[c]
       THEN Refuse(c) /\ UNCHANGED <<clock, gateVars, aborted, told>>
       ELSE Look(c, pace)

(* Mutated form of Wake: the slot waited for is taken without looking again. *)
WakeIntoSlot(c) ==
    /\ client[c].pc = "sleeping"
    /\ clock >= client[c].wakeAt
    /\ ~aborted[c]
    /\ timestamps' = Append(timestamps, clock)
    /\ Grant(c, client[c].pace)
    /\ UNCHANGED <<clock, blockedUntil, aborted, told>>

(* The sleep is over: acquire looks again. *)
Wake(c) ==
    /\ client[c].pc = "sleeping"
    /\ clock >= client[c].wakeAt
    /\ ~aborted[c]
    /\ Look(c, client[c].pace)

-----------------------------------------------------------------------------
(* The rest of request *)

(* noteResponse: a 429 never shortens the horizon. *)
NoteResponse(until) ==
    blockedUntil' = IF blockedUntil = None THEN until ELSE Later(blockedUntil, until)

(* The headers of a response: a 429 is noted before the body is read. *)
Respond(c) ==
    /\ client[c].pc = "sent"
    /\ ~aborted[c]
    /\ \/ /\ client' = [client EXCEPT ![c].pc = "body"]
          /\ UNCHANGED <<blockedUntil, told>>
       \/ \E wait \in RetryAfters :
            /\ client' = [client EXCEPT ![c].pc = "limited"]
            /\ NoteResponse(clock + wait)
            /\ told' = Later(told, clock + wait)
    /\ UNCHANGED <<clock, timestamps, aborted, granted>>

(* The body of a success; that of another status makes an error. *)
ReadBody(c) ==
    /\ client[c].pc \in {"body", "limited"}
    /\ ~aborted[c]
    /\ \E outcome \in IF client[c].pc = "body" THEN {"ok", "failed"} ELSE {"failed"} :
        client' = [client EXCEPT ![c] = [Idle EXCEPT !.pc = outcome]]
    /\ UNCHANGED <<clock, gateVars, aborted, granted, told>>

(* fetch rejects, or the timeout that began with the slot runs out. *)
RequestFails(c) ==
    /\ client[c].pc \in {"sent", "body", "limited"}
    /\ Refuse(c)
    /\ UNCHANGED <<clock, gateVars, aborted, told>>

(* The signal ends whatever the request is waiting for. *)
Aborts(c) ==
    /\ aborted[c]
    /\ client[c].pc \in {"sleeping", "sent", "body", "limited"}
    /\ Refuse(c)
    /\ UNCHANGED <<clock, gateVars, aborted, told>>

(* The caller takes the result. *)
Taken(c) ==
    /\ client[c].pc \in {"ok", "failed"}
    /\ client' = [client EXCEPT ![c] = Idle]

(* A step of the gate or the network for c. *)
Progress(c) ==
    Wake(c) \/ Respond(c) \/ ReadBody(c) \/ RequestFails(c) \/ Aborts(c)

-----------------------------------------------------------------------------
(* The gate by itself: callers may ask at any time and give up. *)

Ask(c) == \E pace \in Paces : Request(c, pace)

(* The next request of the caller may bring another signal. *)
Result(c) ==
    /\ Taken(c)
    /\ \E signal \in BOOLEAN : aborted' = [aborted EXCEPT ![c] = signal]
    /\ UNCHANGED <<clock, gateVars, granted, told>>

(* One signal may belong to several callers. *)
GiveUp(callers) ==
    /\ aborted' = [c \in Callers |-> aborted[c] \/ c \in callers]
    /\ UNCHANGED <<clock, gateVars, client, granted, told>>

Tick ==
    /\ clock' = clock + 1
    /\ UNCHANGED <<gateVars, client, aborted, granted, told>>

GateNext ==
    \/ Tick
    \/ \E c \in Callers : Ask(c) \/ Progress(c) \/ Result(c)
    \/ \E callers \in SUBSET Callers : GiveUp(callers)

GateSpec == GateInit /\ [][GateNext]_gateState

-----------------------------------------------------------------------------
(* Properties *)

Grants == [at : Nat, pace : Paces]

GateTypeOK ==
    /\ clock \in Nat
    /\ timestamps \in Seq(Nat)
    /\ blockedUntil \in Nat \cup {None}
    /\ client \in [Callers -> Client]
    /\ aborted \in [Callers -> BOOLEAN]
    /\ granted \in Seq(Grants)
    /\ told \in Nat

(***************************************************************************)
(* A window that ends with a request holds no more of them than the pace   *)
(* its caller asked for, however many sleepers woke together or were given *)
(* up on the way: the request granted that many places before it is a      *)
(* whole window older (acquire, prune).                                    *)
(***************************************************************************)
GrantsWithinPace ==
    \A i \in 1..Len(granted) :
        granted[i].pace < i =>
            Expired(granted[i - granted[i].pace].at, granted[i].at)

(***************************************************************************)
(* No request is sent before a moment that any 429 has asked to wait for,  *)
(* also when a later one asked for less or a sleeper woke for another      *)
(* reason (noteResponse, the first check of acquire).                      *)
(***************************************************************************)
HorizonIsKept ==
    [][\A c \in Callers :
        client[c].pc # "sent" /\ client'[c].pc = "sent" => told <= clock]_gateState

=============================================================================
