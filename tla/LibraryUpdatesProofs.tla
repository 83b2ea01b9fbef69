------------------------ MODULE LibraryUpdatesProofs ------------------------
(***************************************************************************)
(* Two parts.  The request gate keeps to the pace and to every horizon,    *)
(* for any number of callers, any pace, window and wait.  The update check *)
(* keeps to the request gate, for any library, any number of checks and of *)
(* workers: the refinement of GateSpec that TLC checks on a small          *)
(* instance, and the gate's theorems carried over to the checks.           *)
(***************************************************************************)
EXTENDS LibraryUpdates, SequenceTheorems, WellFoundedInduction, TLAPS

-----------------------------------------------------------------------------
(***************************************************************************)
(* The gate.  The pace does not follow from the grants alone: what the     *)
(* gate looks at is timestamps, from which expired grants have been        *)
(* shifted.  The invariant says how the two belong together: timestamps is *)
(* the tail of the grants, and whatever is missing from it has left the    *)
(* window.                                                                 *)
(***************************************************************************)

Dropped == Len(granted) - Len(timestamps)

(* timestamps holds the last grants, the others are older than a window. *)
TimestampsAreTheTail ==
    /\ Dropped \in Nat
    /\ \A k \in 1..Len(timestamps) : timestamps[k] = granted[Dropped + k].at
    /\ \A k \in 1..Dropped : Expired(granted[k].at, clock)

(* A horizon that is still ahead is the one the gate holds. *)
HorizonIsHeld ==
    told > clock => blockedUntil # None /\ blockedUntil >= told

GateInv ==
    /\ GateTypeOK
    /\ TimestampsAreTheTail
    /\ GrantsWithinPace
    /\ HorizonIsHeld

LEMMA LaterType == ASSUME NEW a \in Nat, NEW b \in Nat
                   PROVE  /\ Later(a, b) \in Nat
                          /\ Later(a, b) >= a
                          /\ Later(a, b) >= b
BY DEF Later

(* What is left after n expired grants were shifted off. *)
LEMMA WithoutIsTheTail ==
    ASSUME timestamps \in Seq(Nat), NEW n \in 0..Len(timestamps)
    PROVE  /\ Without(n) \in Seq(Nat)
           /\ Len(Without(n)) = Len(timestamps) - n
           /\ \A k \in 1..(Len(timestamps) - n) : Without(n)[k] = timestamps[n + k]
<1>1. Len(timestamps) \in Nat
    OBVIOUS
<1>2. \A i \in (n + 1)..Len(timestamps) : timestamps[i] \in Nat
    BY <1>1
<1>. QED
    BY <1>1, <1>2, SubSeqProperties DEF Without

LEMMA GateInitInv == ASSUME GateAssumption, GateInit PROVE GateInv
<1>1. GateTypeOK
    BY DEF GateTypeOK, GateInit, Client, Idle, Phase, GateAssumption
<1>. QED
    BY <1>1 DEF GateInv, GateInit, TimestampsAreTheTail, Dropped, GrantsWithinPace,
            HorizonIsHeld, Expired

-----------------------------------------------------------------------------
(* One turn of acquire *)

(* A caller moved to a legal state leaves the clients well typed. *)
LEMMA MovedClient ==
    ASSUME GateTypeOK, NEW c \in Callers, NEW state \in Client,
           client' = [client EXCEPT ![c] = state]
    PROVE  client' \in [Callers -> Client]
BY DEF GateTypeOK

(* The states acquire and the request move a caller to. *)
LEMMA LegalStates ==
    ASSUME GateAssumption, NEW pace \in Paces, NEW until \in Nat
    PROVE  /\ [pc |-> "sleeping", wakeAt |-> until, pace |-> pace] \in Client
           /\ [Idle EXCEPT !.pc = "sent", !.pace = pace] \in Client
           /\ [Idle EXCEPT !.pc = "failed"] \in Client
BY DEF GateAssumption, Client, Sleeper, Idle, Phase

LEMMA ParkedKeepsType ==
    ASSUME GateAssumption, GateTypeOK, NEW c \in Callers, NEW pace \in Paces,
           Parked(c, pace), UNCHANGED <<clock, aborted, told>>
    PROVE  GateTypeOK'
<1>1. blockedUntil \in Nat
    BY DEF Parked, IsBlocked, GateTypeOK
<1>2. client' \in [Callers -> Client]
    <2>1. CASE Refuse(c)
        BY <2>1, <1>1, LegalStates, MovedClient DEF Refuse
    <2>2. CASE Sleep(c, pace, blockedUntil)
        BY <2>2, <1>1, LegalStates, MovedClient DEF Sleep
    <2>. QED
        BY <2>1, <2>2 DEF Parked
<1>3. granted' = granted
    BY DEF Parked, Refuse, Sleep
<1>. QED
    BY <1>2, <1>3 DEF Parked, gateVars, GateTypeOK

LEMMA GrantIsLegal ==
    ASSUME GateAssumption, GateTypeOK, NEW pace \in Paces
    PROVE  [at |-> clock, pace |-> pace] \in Grants
BY DEF GateTypeOK, Grants

LEMMA OpenKeepsInv ==
    ASSUME GateAssumption, GateInv, NEW c \in Callers, NEW pace \in Paces,
           Open(c, pace), UNCHANGED <<clock, aborted, told>>
    PROVE  GateInv'
<1>. USE DEF GateInv
<1>1. PICK n \in 0..Len(timestamps) :
        /\ Prunes(n)
        /\ IF Len(Without(n)) < pace
           THEN /\ timestamps' = Append(Without(n), clock)
                /\ Grant(c, pace)
           ELSE /\ timestamps' = Without(n)
                /\ Sleep(c, pace, Later(clock + 1, Without(n)[1] + Window))
    BY DEF Open
<1>. DEFINE kept == Without(n)
<1>2. /\ kept \in Seq(Nat)
      /\ Len(kept) = Len(timestamps) - n
      /\ \A k \in 1..(Len(timestamps) - n) : kept[k] = timestamps[n + k]
    BY WithoutIsTheTail DEF GateTypeOK
<1>. HIDE DEF kept
<1>3. /\ pace \in Nat \ {0} /\ Window \in Nat /\ clock \in Nat /\ told \in Nat
      /\ Len(timestamps) \in Nat /\ Len(granted) \in Nat /\ Len(kept) \in Nat
      /\ n \in Nat /\ n <= Len(timestamps) /\ Dropped \in Nat
    BY <1>2 DEF GateAssumption, GateTypeOK, TimestampsAreTheTail
<1>4. blockedUntil' = None /\ told <= clock
    BY <1>3 DEF Open, IsBlocked, HorizonIsHeld, GateTypeOK
<1>5. HorizonIsHeld'
    BY <1>3, <1>4 DEF HorizonIsHeld
<1>6. \* whatever is not kept has left the window
      \A k \in 1..(Len(granted) - Len(kept)) : Expired(granted[k].at, clock)
    <2>1. SUFFICES ASSUME NEW k \in 1..(Len(granted) - Len(kept)), k > Dropped
                   PROVE  Expired(granted[k].at, clock)
        BY <1>2, <1>3 DEF TimestampsAreTheTail, Dropped
    <2>2. k - Dropped \in 1..n
        BY <2>1, <1>2, <1>3 DEF Dropped
    <2>3. timestamps[k - Dropped] = granted[k].at
        <3>1. k - Dropped \in 1..Len(timestamps) /\ Dropped + (k - Dropped) = k
            BY <2>2, <1>2, <1>3 DEF Dropped
        <3>. QED
            BY <3>1 DEF TimestampsAreTheTail
    <2>4. Expired(timestamps[k - Dropped], clock)
        BY <1>1, <2>2 DEF Prunes
    <2>. QED
        BY <2>3, <2>4
<1>7. \A k \in 1..Len(kept) : kept[k] = granted[Len(granted) - Len(kept) + k].at
    <2>1. SUFFICES ASSUME NEW k \in 1..Len(kept)
                   PROVE  kept[k] = granted[Len(granted) - Len(kept) + k].at
        OBVIOUS
    <2>2. n + k \in 1..Len(timestamps)
        BY <1>2, <1>3
    <2>3. timestamps[n + k] = granted[Dropped + (n + k)].at
        BY <2>2 DEF TimestampsAreTheTail
    <2>4. Dropped + (n + k) = Len(granted) - Len(kept) + k
        BY <1>2, <1>3 DEF Dropped
    <2>. QED
        BY <1>2, <1>3, <2>3, <2>4
<1>8. CASE Len(kept) < pace
    <2>. DEFINE new == [at |-> clock, pace |-> pace]
    <2>1. /\ timestamps' = Append(kept, clock)
          /\ granted' = Append(granted, new)
          /\ client' = [client EXCEPT ![c] = [Idle EXCEPT !.pc = "sent", !.pace = pace]]
        BY <1>1, <1>8 DEF Grant, kept
    <2>2. new \in Grants
        BY GrantIsLegal
    <2>3. client' \in [Callers -> Client]
        BY <2>1, LegalStates, MovedClient, <1>3
    <2>4. GateTypeOK'
        BY <1>2, <1>3, <1>4, <2>1, <2>2, <2>3 DEF GateTypeOK
    <2>5. /\ Len(timestamps') = Len(kept) + 1
          /\ Len(granted') = Len(granted) + 1
          /\ \A k \in 1..Len(kept) : timestamps'[k] = kept[k]
          /\ timestamps'[Len(kept) + 1] = clock
          /\ \A k \in 1..Len(granted) : granted'[k] = granted[k]
          /\ granted'[Len(granted) + 1] = new
        BY SMTT(30), <1>2, <1>3, <2>1, <2>2 DEF GateTypeOK
    <2>6. Dropped' = Len(granted) - Len(kept) /\ Dropped' \in Nat
        BY <1>2, <1>3, <2>5 DEF Dropped, TimestampsAreTheTail
    <2>7. TimestampsAreTheTail'
        <3>1. \A k \in 1..Len(timestamps') : timestamps'[k] = granted'[Dropped' + k].at
            <4>1. SUFFICES ASSUME NEW k \in 1..Len(timestamps')
                           PROVE  timestamps'[k] = granted'[Dropped' + k].at
                OBVIOUS
            <4>2. CASE k = Len(kept) + 1
                BY <4>2, <1>3, <2>5, <2>6
            <4>3. CASE k \in 1..Len(kept)
                <5>1. Dropped' + k \in 1..Len(granted)
                    BY <4>3, <1>3, <2>6
                <5>. QED
                    BY <4>3, <5>1, <1>7, <2>5, <2>6
            <4>. QED
                BY <4>2, <4>3, <1>3, <2>5
        <3>2. \A k \in 1..Dropped' : Expired(granted'[k].at, clock)
            <4>1. \A k \in 1..Dropped' : k \in 1..Len(granted)
                BY <1>3, <2>6
            <4>. QED
                BY <4>1, <1>6, <2>5, <2>6
        <3>. QED
            BY <2>6, <3>1, <3>2 DEF TimestampsAreTheTail
    <2>8. GrantsWithinPace'
        <3>1. SUFFICES ASSUME NEW i \in 1..Len(granted'), granted'[i].pace < i
                       PROVE  Expired(granted'[i - granted'[i].pace].at, granted'[i].at)
            BY DEF GrantsWithinPace
        <3>2. CASE i \in 1..Len(granted)
            <4>. HIDE DEF new
            <4>1. granted[i] \in Grants /\ granted[i].pace \in Nat \ {0}
                <5>1. granted[i] \in Grants
                    BY <3>2 DEF GateTypeOK
                <5>. QED
                    BY <5>1 DEF Grants, GateAssumption
            <4>2. i - granted[i].pace \in 1..Len(granted)
                BY <3>1, <3>2, <4>1, <1>3, <2>5
            <4>. QED
                BY <3>1, <3>2, <4>2, <2>5 DEF GrantsWithinPace
        <3>3. CASE i = Len(granted) + 1
            <4>1. granted'[i] = new
                BY <3>3, <2>5
            <4>2. i - pace \in 1..(Len(granted) - Len(kept))
                BY <3>1, <3>3, <4>1, <1>3, <1>8
            <4>3. i - pace \in 1..Len(granted)
                BY <4>2, <1>3
            <4>4. Expired(granted[i - pace].at, clock)
                BY <4>2, <1>6
            <4>5. granted'[i - pace] = granted[i - pace]
                BY <4>3, <2>5
            <4>. QED
                BY <4>1, <4>4, <4>5
        <3>. QED
            BY <3>2, <3>3, <1>3, <2>5
    <2>. QED
        BY <2>4, <2>7, <2>8, <1>5
<1>9. CASE ~(Len(kept) < pace)
    <2>1. /\ timestamps' = kept
          /\ granted' = granted
          /\ client' = [client EXCEPT ![c] =
                [pc |-> "sleeping", wakeAt |-> Later(clock + 1, kept[1] + Window),
                 pace |-> pace]]
        BY <1>1, <1>9 DEF Sleep, kept
    <2>2. kept[1] \in Nat
        BY <1>2, <1>3, <1>9
    <2>3. Later(clock + 1, kept[1] + Window) \in Nat
        <3>1. clock + 1 \in Nat /\ kept[1] + Window \in Nat
            BY <2>2, <1>3
        <3>. QED
            BY <3>1, LaterType
    <2>4. client' \in [Callers -> Client]
        BY <2>1, <2>3, LegalStates, MovedClient
    <2>5. GateTypeOK'
        BY <1>2, <1>4, <2>1, <2>4 DEF GateTypeOK
    <2>6. Dropped' = Len(granted) - Len(kept) /\ Dropped' \in Nat
        <3>1. Dropped' = Len(granted) - Len(kept)
            BY <2>1 DEF Dropped
        <3>. QED
            BY <3>1, <1>2, <1>3 DEF Dropped
    <2>7. TimestampsAreTheTail'
        BY <1>6, <1>7, <2>1, <2>6 DEF TimestampsAreTheTail
    <2>8. GrantsWithinPace'
        BY <2>1 DEF GrantsWithinPace
    <2>. QED
        BY <2>5, <2>7, <2>8, <1>5
<1>. QED
    BY <1>8, <1>9

LEMMA LookKeepsInv ==
    ASSUME GateAssumption, GateInv, NEW c \in Callers, NEW pace \in Paces, Look(c, pace)
    PROVE  GateInv'
<1>1. CASE Parked(c, pace)
    <2>1. GateTypeOK'
        BY <1>1, ParkedKeepsType DEF Look, GateInv
    <2>2. UNCHANGED <<clock, timestamps, blockedUntil, granted, told>>
        BY <1>1 DEF Look, Parked, Refuse, Sleep, gateVars
    <2>. QED
        BY <2>1, <2>2 DEF GateInv, TimestampsAreTheTail, Dropped, GrantsWithinPace, HorizonIsHeld
<1>2. CASE Open(c, pace)
    BY <1>2, OpenKeepsInv DEF Look
<1>. QED
    BY <1>1, <1>2 DEF Look

-----------------------------------------------------------------------------
(* The other steps *)

(* A step that only moves clients keeps what the gate remembers. *)
LEMMA OnlyClients ==
    ASSUME GateInv, client' \in [Callers -> Client], aborted' \in [Callers -> BOOLEAN],
           UNCHANGED <<clock, timestamps, blockedUntil, granted, told>>
    PROVE  GateInv'
BY DEF GateInv, GateTypeOK, TimestampsAreTheTail, Dropped, GrantsWithinPace, HorizonIsHeld

LEMMA RequestKeepsInv ==
    ASSUME GateAssumption, GateInv, NEW c \in Callers, NEW pace \in Paces, Request(c, pace)
    PROVE  GateInv'
<1>1. CASE aborted[c]
    <2>1. client' \in [Callers -> Client]
        BY <1>1 DEF Request, Refuse, GateInv, GateTypeOK, Client, Idle, Phase
    <2>. QED
        BY <1>1, <2>1, OnlyClients DEF Request, Refuse, gateVars, GateInv, GateTypeOK
<1>2. CASE ~aborted[c]
    BY <1>2, LookKeepsInv DEF Request
<1>. QED
    BY <1>1, <1>2

LEMMA WakeKeepsInv ==
    ASSUME GateAssumption, GateInv, NEW c \in Callers, Wake(c)
    PROVE  GateInv'
<1>1. client[c] \in Client /\ client[c].pc = "sleeping"
    BY DEF GateInv, GateTypeOK, Wake
<1>2. client[c].pace \in Paces
    BY <1>1 DEF Client, Sleeper
<1>. QED
    BY <1>2, LookKeepsInv DEF Wake

LEMMA RespondKeepsInv ==
    ASSUME GateAssumption, GateInv, NEW c \in Callers, Respond(c)
    PROVE  GateInv'
<1>1. client' \in [Callers -> Client]
    <2>1. client[c] \in Client /\ client[c].pc # "sleeping"
        BY DEF Respond, GateInv, GateTypeOK
    <2>2. \A p \in {"body", "limited"} : [client[c] EXCEPT !.pc = p] \in Client
        BY <2>1 DEF Client, Sleeper, Phase
    <2>3. PICK p \in {"body", "limited"} : client' = [client EXCEPT ![c].pc = p]
        BY DEF Respond
    <2>. QED
        BY <2>2, <2>3 DEF GateInv, GateTypeOK
<1>2. CASE UNCHANGED <<blockedUntil, told>>
    BY <1>1, <1>2, OnlyClients DEF Respond, GateInv, GateTypeOK
<1>3. ASSUME NEW wait \in RetryAfters, NoteResponse(clock + wait),
             told' = Later(told, clock + wait)
      PROVE  GateInv'
    <2>1. /\ clock \in Nat /\ told \in Nat /\ clock + wait \in Nat
          /\ blockedUntil \in Nat \cup {None} /\ None \notin Nat
        BY DEF GateAssumption, GateInv, GateTypeOK
    <2>2. told' \in Nat /\ (told' = told \/ told' = clock + wait)
        BY <1>3, <2>1 DEF Later
    <2>3. /\ blockedUntil' \in Nat
          /\ blockedUntil' >= clock + wait
          /\ blockedUntil # None => blockedUntil' >= blockedUntil
        BY <1>3, <2>1 DEF NoteResponse, Later
    <2>4. UNCHANGED <<clock, timestamps, aborted, granted>>
        BY DEF Respond
    <2>5. GateTypeOK'
        BY <1>1, <2>2, <2>3, <2>4 DEF GateInv, GateTypeOK
    <2>6. HorizonIsHeld'
        BY <2>1, <2>2, <2>3, <2>4 DEF GateInv, HorizonIsHeld
    <2>. QED
        BY <2>4, <2>5, <2>6 DEF GateInv, TimestampsAreTheTail, Dropped, GrantsWithinPace
<1>. QED
    BY <1>2, <1>3 DEF Respond

LEMMA MovesKeepInv ==
    ASSUME GateAssumption, GateInv, NEW c \in Callers,
           ReadBody(c) \/ RequestFails(c) \/ Aborts(c) \/ Result(c)
    PROVE  GateInv'
<1>1. client' \in [Callers -> Client]
    BY DEF ReadBody, RequestFails, Aborts, Result, Taken, Refuse, Idle,
           GateInv, GateTypeOK, Client, Sleeper, Phase
<1>2. aborted' \in [Callers -> BOOLEAN]
    BY DEF ReadBody, RequestFails, Aborts, Result, GateInv, GateTypeOK
<1>3. UNCHANGED <<clock, timestamps, blockedUntil, granted, told>>
    BY DEF ReadBody, RequestFails, Aborts, Result, Refuse, gateVars
<1>. QED
    BY <1>1, <1>2, <1>3, OnlyClients

LEMMA GiveUpKeepsInv ==
    ASSUME GateInv, NEW callers \in SUBSET Callers, GiveUp(callers)
    PROVE  GateInv'
<1>1. aborted' \in [Callers -> BOOLEAN]
    BY DEF GiveUp, GateInv, GateTypeOK
<1>. QED
    BY <1>1, OnlyClients DEF GiveUp, gateVars, GateInv, GateTypeOK

(* Time only takes grants out of the window and horizons into the past. *)
LEMMA TickKeepsInv ==
    ASSUME GateAssumption, GateInv, Tick
    PROVE  GateInv'
<1>1. /\ clock \in Nat /\ Window \in Nat /\ clock' = clock + 1 /\ told \in Nat
      /\ UNCHANGED <<timestamps, blockedUntil, client, aborted, granted, told>>
    BY DEF Tick, gateVars, GateAssumption, GateInv, GateTypeOK
<1>2. GateTypeOK'
    BY <1>1 DEF GateInv, GateTypeOK
<1>3. Dropped' = Dropped /\ Len(granted) \in Nat /\ Len(timestamps) \in Nat
    BY <1>1 DEF Dropped, GateInv, GateTypeOK
<1>4. \A k \in 1..Dropped : granted[k].at \in Nat
    <2>1. \A k \in 1..Dropped : k \in 1..Len(granted)
        BY <1>3 DEF Dropped
    <2>2. \A k \in 1..Len(granted) : granted[k] \in Grants
        BY DEF GateInv, GateTypeOK
    <2>. QED
        BY <2>1, <2>2 DEF Grants
<1>5. TimestampsAreTheTail'
    BY <1>1, <1>3, <1>4 DEF GateInv, TimestampsAreTheTail, Expired
<1>6. GrantsWithinPace'
    BY <1>1 DEF GateInv, GrantsWithinPace
<1>7. HorizonIsHeld'
    BY <1>1 DEF GateInv, HorizonIsHeld
<1>. QED
    BY <1>2, <1>5, <1>6, <1>7 DEF GateInv

LEMMA GateStepKeepsInv ==
    ASSUME GateAssumption, GateInv, [GateNext]_gateState
    PROVE  GateInv'
<1>1. CASE Tick
    BY <1>1, TickKeepsInv
<1>2. ASSUME NEW c \in Callers, Ask(c) PROVE GateInv'
    BY <1>2, RequestKeepsInv DEF Ask
<1>3. ASSUME NEW c \in Callers, Progress(c) PROVE GateInv'
    BY <1>3, WakeKeepsInv, RespondKeepsInv, MovesKeepInv DEF Progress
<1>4. ASSUME NEW c \in Callers, Result(c) PROVE GateInv'
    BY <1>4, MovesKeepInv
<1>5. ASSUME NEW callers \in SUBSET Callers, GiveUp(callers) PROVE GateInv'
    BY <1>5, GiveUpKeepsInv
<1>6. CASE UNCHANGED gateState
    BY <1>6 DEF gateState, gateVars, GateInv, GateTypeOK, TimestampsAreTheTail, Dropped,
                GrantsWithinPace, HorizonIsHeld
<1>. QED
    BY <1>1, <1>2, <1>3, <1>4, <1>5, <1>6 DEF GateNext

(* The invariant holds of everything that keeps to the gate. *)
THEOREM GateInvariant == GateSpec => []GateInv
<1>1. GateInit => GateInv
    BY GateInitInv, GateAssumption
<1>2. GateInv /\ [GateNext]_gateState => GateInv'
    BY GateStepKeepsInv, GateAssumption
<1>. QED
    BY <1>1, <1>2, PTL DEF GateSpec

(* Whoever keeps to the gate keeps the pace: a window that ends with a   *)
(* request holds no more of them than its caller asked for (acquire).    *)
THEOREM PaceTheorem == GateSpec => []GrantsWithinPace
<1>1. GateInv => GrantsWithinPace
    BY DEF GateInv
<1>. QED
    BY <1>1, GateInvariant, PTL

(* A step that sends a request took it through an open gate. *)
LEMMA SentByAnOpenGate ==
    ASSUME GateAssumption, GateInv, [GateNext]_gateState, NEW c \in Callers,
           client[c].pc # "sent", client'[c].pc = "sent"
    PROVE  ~IsBlocked
<1>1. client \in [Callers -> Client] /\ client[c].pc # client'[c].pc
    BY DEF GateInv, GateTypeOK
<1>2. \/ \E d \in Callers : Ask(d) \/ Progress(d) \/ Result(d)
      \/ client' = client
    BY DEF GateNext, Tick, GiveUp, gateState
<1>3. PICK d \in Callers : Ask(d) \/ Progress(d) \/ Result(d)
    BY <1>1, <1>2
<1>4. CASE \E pace \in Paces \cup {0} : Look(d, pace)
    <2>1. PICK pace \in Paces \cup {0} : Look(d, pace)
        BY <1>4
    <2>2. CASE Parked(d, pace)
        BY <1>1, <2>2 DEF Parked, Refuse, Sleep, Idle
    <2>. QED
        BY <2>1, <2>2 DEF Look, Open
<1>5. CASE ~\E pace \in Paces \cup {0} : Look(d, pace)
    <2>1. client[d].pace \in Paces \cup {0}
        BY <1>1 DEF Client, Sleeper
    <2>2. ~Wake(d)
        BY <1>5, <2>1 DEF Wake
    <2>3. CASE Ask(d)
        BY <1>1, <1>5, <2>3 DEF Ask, Request, Refuse, Idle
    <2>4. CASE Respond(d)
        BY <1>1, <2>4 DEF Respond
    <2>5. CASE ReadBody(d)
        BY <1>1, <2>5 DEF ReadBody, Idle
    <2>6. CASE RequestFails(d) \/ Aborts(d)
        BY <1>1, <2>6 DEF RequestFails, Aborts, Refuse, Idle
    <2>7. CASE Result(d)
        BY <1>1, <2>7 DEF Result, Taken, Idle
    <2>. QED
        BY <1>3, <2>2, <2>3, <2>4, <2>5, <2>6, <2>7 DEF Progress
<1>. QED
    BY <1>4, <1>5

(* No request is sent before a moment that a 429 has asked to wait for. *)
THEOREM HorizonTheorem == GateSpec => HorizonIsKept
<1>1. ASSUME GateInv, [GateNext]_gateState
      PROVE  [\A c \in Callers :
                client[c].pc # "sent" /\ client'[c].pc = "sent" => told <= clock]_gateState
    <2>1. SUFFICES ASSUME NEW c \in Callers, client[c].pc # "sent", client'[c].pc = "sent"
                   PROVE  told <= clock
        OBVIOUS
    <2>2. ~IsBlocked
        BY <1>1, <2>1, SentByAnOpenGate, GateAssumption
    <2>. QED
        BY <1>1, <2>2 DEF IsBlocked, GateInv, GateTypeOK, HorizonIsHeld
<1>. QED
    BY <1>1, GateInvariant, PTL DEF GateSpec, HorizonIsKept

-----------------------------------------------------------------------------
(* The update check *)

(* The user and the world touch the gate only through a signal. *)
LEMMA UserKeepsTheGate ==
    ASSUME UpdatesAssumption, User PROVE [GateNext]_gateState
<1>1. CASE Cancel
    <2>1. {w \in Worker : w[1] = held} \in SUBSET Callers
        BY DEF UpdatesAssumption
    <2>2. GiveUp({w \in Worker : w[1] = held})
        BY <1>1 DEF Cancel
    <2>. QED
        BY <2>1, <2>2 DEF GateNext
<1>2. CASE ~Cancel
    BY <1>2 DEF User, Start, Leave, Publish, Read
<1>. QED
    BY <1>1, <1>2

(* A caller that takes its result brings the signal it had. *)
LEMMA TakenIsAResult ==
    ASSUME NEW w \in Callers, aborted \in [Callers -> BOOLEAN], Taken(w),
           UNCHANGED <<clock, gateVars, aborted, granted, told>>
    PROVE  Result(w)
<1>1. aborted' = [aborted EXCEPT ![w] = aborted[w]] /\ aborted[w] \in BOOLEAN
    OBVIOUS
<1>. QED
    BY <1>1 DEF Result

(* A worker asks, takes the answer, or leaves the gate alone. *)
LEMMA JobKeepsTheGate ==
    ASSUME UpdatesAssumption, aborted \in [Callers -> BOOLEAN],
           NEW w \in Worker, Job(w)
    PROVE  [GateNext]_gateState
<1>1. w \in Callers
    BY DEF UpdatesAssumption
<1>2. CASE Depart(w)
    BY <1>1, <1>2 DEF Depart, GateNext, Ask
<1>3. CASE Network(w)
    BY <1>1, <1>3 DEF Network, GateNext
<1>4. CASE Listed(w)
    BY <1>1, <1>4, TakenIsAResult DEF Listed, GateNext
<1>5. CASE ListingFails(w)
    BY <1>1, <1>5, TakenIsAResult DEF ListingFails, GateNext
<1>6. CASE Take(w) \/ GivenUp(w) \/ Save(w) \/ SaveFails(w) \/ Recount(w)
    BY <1>6 DEF Take, GivenUp, Save, SaveFails, Recount
<1>. QED
    BY <1>2, <1>3, <1>4, <1>5, <1>6 DEF Job

LEMMA StepKeepsTheGate ==
    ASSUME UpdatesAssumption, GateInv, [Next]_vars PROVE [GateNext]_gateState
<1>1. CASE User
    BY <1>1, UserKeepsTheGate
<1>2. CASE Time
    BY <1>2 DEF Time, GateNext
<1>3. ASSUME NEW w \in Worker, Job(w) PROVE [GateNext]_gateState
    BY <1>3, JobKeepsTheGate DEF GateInv, GateTypeOK
<1>4. ASSUME NEW r \in Runs, Merge(r) \/ Persist(r) PROVE [GateNext]_gateState
    BY <1>4 DEF Merge, Persist
<1>5. CASE UNCHANGED vars
    BY <1>5 DEF vars
<1>. QED
    BY <1>1, <1>2, <1>3, <1>4, <1>5 DEF Next

(* The checks use the gate only as GateSpec allows (listChapters through *)
(* the provider's request client).                                       *)
THEOREM ChecksKeepToTheGate == Spec => KeepsToTheGate
<1>1. Init => GateInit
    BY DEF Init
<1>2. GateInit => GateInv
    BY GateInitInv, GateAssumption
<1>3. GateInv /\ [Next]_vars => [GateNext]_gateState
    BY StepKeepsTheGate, UpdatesAssumption
<1>4. GateInv /\ [GateNext]_gateState => GateInv'
    BY GateStepKeepsInv, GateAssumption
<1>. QED
    BY <1>1, <1>2, <1>3, <1>4, PTL DEF Spec, KeepsToTheGate, GateSpec

(* However many checks run, and however their workers are cancelled, they *)
(* stay within the pace of the provider.                                  *)
THEOREM ChecksKeepThePace == Spec => []GrantsWithinPace
BY ChecksKeepToTheGate, PaceTheorem, PTL DEF KeepsToTheGate

(* No listing of any check leaves before a moment a 429 asked to wait for. *)
THEOREM ChecksKeepTheHorizon == Spec => HorizonIsKept
BY ChecksKeepToTheGate, HorizonTheorem, PTL DEF KeepsToTheGate

-----------------------------------------------------------------------------
(* The spacing of the listings.  Inductive with: the last slot a check has *)
(* reserved is the latest start any of its workers waits for.              *)

SpacingInv ==
    /\ clock \in Nat
    /\ lastCallAt \in [Runs -> Nat \cup {None}]
    /\ worker = [w \in Worker |-> worker[w]]
    /\ \A w \in Worker : {"pc", "wakeAt"} \subseteq DOMAIN worker[w]
    /\ \A w \in Worker : worker[w].pc = "spacing" =>
            /\ worker[w].wakeAt \in Nat
            /\ lastCallAt[w[1]] \in Nat
            /\ worker[w].wakeAt <= lastCallAt[w[1]]
    /\ ListingsAreSpaced

(* A step that reserves no slot and sets nobody waiting keeps the spacing. *)
LEMMA NobodyElseWaits ==
    ASSUME SpacingInv, UNCHANGED lastCallAt, clock' \in Nat,
           worker' = [w \in Worker |-> worker'[w]],
           \A w \in Worker : {"pc", "wakeAt"} \subseteq DOMAIN worker'[w],
           \A w \in Worker : worker'[w] = worker[w] \/ worker'[w].pc # "spacing"
    PROVE  SpacingInv'
BY DEF SpacingInv, ListingsAreSpaced

LEMMA BecomingIdle ==
    ASSUME SpacingInv, NEW w \in Worker, NEW state, Became(w, state),
           {"pc", "wakeAt"} \subseteq DOMAIN state, state.pc # "spacing",
           UNCHANGED <<clock, lastCallAt>>
    PROVE  SpacingInv'
<1>1. worker' = [v \in Worker |-> worker'[v]]
    BY DEF SpacingInv, Became
<1>2. \A v \in Worker : worker'[v] = worker[v] \/ worker'[v].pc # "spacing"
    BY DEF SpacingInv, Became
<1>3. \A v \in Worker : {"pc", "wakeAt"} \subseteq DOMAIN worker'[v]
    BY DEF SpacingInv, Became
<1>. QED
    BY <1>1, <1>2, <1>3, NobodyElseWaits DEF SpacingInv

LEMMA TakeKeepsSpacing ==
    ASSUME UpdatesAssumption, GateAssumption, SpacingInv, NEW w \in Worker, Take(w)
    PROVE  SpacingInv'
<1>. DEFINE r == w[1]
            slot == NextSlot(r)
<1>1. r \in Runs /\ clock' = clock /\ Interval \in Nat
    BY DEF Take, Worker, gateState, UpdatesAssumption
<1>2. CASE UNCHANGED <<worker, lastCallAt>>
    BY <1>1, <1>2, NobodyElseWaits DEF SpacingInv
<1>3. CASE ~UNCHANGED <<worker, lastCallAt>>
    <2>1. PICK t : /\ Became(w, [AtRest EXCEPT !.pc = "spacing", !.title = t, !.wakeAt = slot])
                   /\ lastCallAt' = [lastCallAt EXCEPT ![r] = slot]
                   /\ worker[w].pc = "next"
        BY <1>3 DEF Take
    <2>2. /\ slot \in Nat
          /\ lastCallAt[r] # None => lastCallAt[r] \in Nat /\ slot >= lastCallAt[r] + Interval
        <3>1. lastCallAt[r] \in Nat \cup {None} /\ clock \in Nat
            BY <1>1 DEF SpacingInv
        <3>. QED
            BY SMTT(30), <3>1, <1>1 DEF NextSlot, Later
    <2>3. worker'[w].pc = "spacing" /\ worker'[w].wakeAt = slot
        BY <2>1 DEF SpacingInv, Became, AtRest
    <2>4. \A v \in Worker : v # w => worker'[v] = worker[v]
        BY <2>1 DEF SpacingInv, Became
    <2>5. /\ lastCallAt' \in [Runs -> Nat \cup {None}]
          /\ lastCallAt'[r] = slot
          /\ \A q \in Runs : q # r => lastCallAt'[q] = lastCallAt[q]
        BY <1>1, <2>1, <2>2 DEF SpacingInv
    <2>6. \A v \in Worker : v # w /\ v[1] = r /\ worker[v].pc = "spacing" =>
            /\ worker[v].wakeAt \in Nat
            /\ worker[v].wakeAt + Interval <= slot
        BY SMTT(30), <1>1, <2>2, GateAssumption DEF SpacingInv, GateAssumption
    <2>7. \A v \in Worker : worker'[v].pc = "spacing" =>
            /\ worker'[v].wakeAt \in Nat
            /\ lastCallAt'[v[1]] \in Nat
            /\ worker'[v].wakeAt <= lastCallAt'[v[1]]
        <3>1. SUFFICES ASSUME NEW v \in Worker, worker'[v].pc = "spacing", v # w
                       PROVE  /\ worker'[v].wakeAt \in Nat
                              /\ lastCallAt'[v[1]] \in Nat
                              /\ worker'[v].wakeAt <= lastCallAt'[v[1]]
            BY <2>2, <2>3, <2>5
        <3>2. worker'[v] = worker[v] /\ v[1] \in Runs
            BY <3>1, <2>4 DEF Worker
        <3>3. CASE v[1] = r
            BY <3>1, <3>2, <3>3, <2>2, <2>5, <2>6, <1>1
        <3>4. CASE v[1] # r
            BY <3>1, <3>2, <3>4, <2>5 DEF SpacingInv
        <3>. QED
            BY <3>3, <3>4
    <2>8. ListingsAreSpaced'
        <3>1. SUFFICES ASSUME NEW u \in Worker, NEW v \in Worker, u # v, u[1] = v[1],
                              worker'[u].pc = "spacing", worker'[v].pc = "spacing"
                       PROVE  \/ worker'[u].wakeAt + Interval <= worker'[v].wakeAt
                              \/ worker'[v].wakeAt + Interval <= worker'[u].wakeAt
            BY DEF ListingsAreSpaced
        <3>2. CASE u = w
            BY <3>1, <3>2, <2>3, <2>4, <2>6
        <3>3. CASE v = w
            BY <3>1, <3>3, <2>3, <2>4, <2>6
        <3>4. CASE u # w /\ v # w
            <4>1. worker'[u] = worker[u] /\ worker'[v] = worker[v]
                BY <3>4, <2>4
            <4>. QED
                BY <3>1, <4>1 DEF SpacingInv, ListingsAreSpaced
        <3>. QED
            BY <3>2, <3>3, <3>4
    <2>9. worker' = [v \in Worker |-> worker'[v]]
        BY <2>1 DEF SpacingInv, Became
    <2>. QED
        <3>1. \A v \in Worker : {"pc", "wakeAt"} \subseteq DOMAIN worker'[v]
            <4>1. {"pc", "wakeAt"} \subseteq DOMAIN worker'[w]
                BY <2>1 DEF SpacingInv, Became, AtRest
            <4>. QED
                BY <4>1, <2>4 DEF SpacingInv
        <3>. QED
            BY <3>1, <1>1, <2>5, <2>7, <2>8, <2>9 DEF SpacingInv
<1>. QED
    BY <1>2, <1>3

LEMMA StepKeepsSpacing ==
    ASSUME UpdatesAssumption, GateAssumption, SpacingInv, [Next]_vars
    PROVE  SpacingInv'
<1>1. CASE UNCHANGED <<clock, worker, lastCallAt>>
    BY <1>1, NobodyElseWaits DEF SpacingInv
<1>2. CASE User \/ \E r \in Runs : Merge(r) \/ Persist(r)
    BY <1>1, <1>2 DEF User, Start, Cancel, GiveUp, Leave, Publish, Read, Merge, Persist,
                      gateState
<1>3. CASE Time
    BY <1>3, NobodyElseWaits DEF Time, Tick, SpacingInv
<1>4. ASSUME NEW w \in Worker, Job(w) PROVE SpacingInv'
    <2>1. CASE Take(w)
        BY <2>1, TakeKeepsSpacing
    <2>2. CASE GivenUp(w) \/ SaveFails(w) \/ Recount(w)
        BY <2>2, BecomingIdle DEF GivenUp, SaveFails, Recount, EndJob, AtRest, gateState
    <2>3. CASE Depart(w)
        <3>1. UNCHANGED clock
            BY <2>3 DEF Depart, Request, Refuse, Look
        <3>. DEFINE state == [worker[w] EXCEPT !.pc = "listing", !.wakeAt = 0]
        <3>2. {"pc", "wakeAt"} \subseteq DOMAIN state /\ state.pc # "spacing"
            BY DEF SpacingInv
        <3>3. Became(w, state) /\ UNCHANGED lastCallAt
            BY <2>3 DEF Depart
        <3>. HIDE DEF state
        <3>. QED
            BY <3>1, <3>2, <3>3, BecomingIdle
    <2>4. CASE Network(w)
        <3>1. UNCHANGED clock
            BY <2>4 DEF Network, Progress, Wake, Look, Respond, ReadBody, RequestFails, Aborts
        <3>2. UNCHANGED <<worker, lastCallAt>>
            BY <2>4 DEF Network
        <3>. QED
            BY <3>1, <3>2, <1>1
    <2>5. CASE Listed(w)
        <3>. DEFINE state == [worker[w] EXCEPT !.pc = "saving",
                                               !.listed = remote[worker[w].title]]
        <3>1. {"pc", "wakeAt"} \subseteq DOMAIN state /\ state.pc # "spacing"
            BY DEF SpacingInv
        <3>2. Became(w, state) /\ UNCHANGED <<clock, lastCallAt>>
            BY <2>5 DEF Listed
        <3>. HIDE DEF state
        <3>. QED
            BY <3>1, <3>2, BecomingIdle
    <2>6. CASE ListingFails(w)
        BY <2>6, BecomingIdle DEF ListingFails, EndJob, AtRest
    <2>7. CASE Save(w)
        <3>. DEFINE state == [worker[w] EXCEPT !.saved = worker[w].saved + 1]
        <3>1. {"pc", "wakeAt"} \subseteq DOMAIN state /\ state.pc # "spacing"
            BY <2>7 DEF SpacingInv, Save
        <3>2. Became(w, state) /\ UNCHANGED <<clock, lastCallAt>>
            BY <2>7 DEF Save, gateState
        <3>. HIDE DEF state
        <3>. QED
            BY <3>1, <3>2, BecomingIdle
    <2>. QED
        BY <1>4, <2>1, <2>2, <2>3, <2>4, <2>5, <2>6, <2>7 DEF Job
<1>5. CASE UNCHANGED vars
    BY <1>1, <1>5 DEF vars, gateState
<1>. QED
    BY <1>2, <1>3, <1>4, <1>5 DEF Next

(* Two workers of one check never claim the same gap (scheduledDelay). *)
THEOREM SpacingTheorem == Spec => []ListingsAreSpaced
<1>1. Init => SpacingInv
    BY DEF Init, GateInit, AtRest, SpacingInv, ListingsAreSpaced
<1>2. SpacingInv /\ [Next]_vars => SpacingInv'
    BY StepKeepsSpacing, UpdatesAssumption, GateAssumption
<1>3. SpacingInv => ListingsAreSpaced
    BY DEF SpacingInv
<1>. QED
    BY <1>1, <1>2, <1>3, PTL DEF Spec

-----------------------------------------------------------------------------
(* The jobs of a check *)

(* A nonempty set of natural numbers has a least element. *)
LEMMA LeastPlace ==
    ASSUME NEW places \in SUBSET Nat, places # {}
    PROVE  \E i \in places : \A j \in places : i <= j
  <1>1. IsWellFoundedOn(OpToRel(<, Nat), Nat)
    BY NatLessThanWellFounded
  <1>3. PICK i \in places : \A j \in places : ~(<<j, i>> \in OpToRel(<, Nat))
    BY <1>1, WFMin
  <1>4. ASSUME NEW j \in places PROVE i <= j
    <2>1. ~(<<j, i>> \in OpToRel(<, Nat))
      BY <1>3
    <2>2. i \in Nat /\ j \in Nat
      BY <1>3
    <2>3. ~(j < i)
      BY <2>1, <2>2 DEF OpToRel
    <2> QED BY <2>2, <2>3
  <1> QED BY <1>3, <1>4

(* f is the list of jobs found among the first n titles, for each n. *)
UpTo(f, n, todo) ==
    f = [i \in 0..n |->
            IF i = 0 THEN <<>>
            ELSE IF Titles[i] \in todo THEN Append(f[i - 1], Titles[i]) ELSE f[i - 1]]

LEMMA UpToExists ==
    ASSUME NEW n \in Nat, NEW todo
    PROVE  \E f : UpTo(f, n, todo)
  <1>1. PICK bad : bad = {m \in Nat : ~\E f : UpTo(f, m, todo)}
    OBVIOUS
  <1>2. CASE bad = {}
    BY <1>1, <1>2
  <1>3. CASE bad # {}
    <2>1. PICK m \in bad : \A j \in bad : m <= j
      BY <1>1, <1>3, LeastPlace
    <2>2. m \in Nat /\ ~\E f : UpTo(f, m, todo)
      BY <1>1, <2>1
    <2>3. CASE m = 0
      <3>1. PICK f : f = [i \in 0..0 |-> <<>>]
        OBVIOUS
      <3>2. UpTo(f, 0, todo)
        BY <3>1 DEF UpTo
      <3> QED BY <2>2, <2>3, <3>2
    <2>4. CASE m # 0
      <3>1. m - 1 \in Nat /\ m - 1 \notin bad
        BY <2>1, <2>2, <2>4
      <3>2. PICK f : UpTo(f, m - 1, todo)
        BY <1>1, <3>1
      <3>3. PICK g : g = [i \in 0..m |->
              IF i < m THEN f[i]
              ELSE IF Titles[m] \in todo THEN Append(f[m - 1], Titles[m]) ELSE f[m - 1]]
        OBVIOUS
      <3>4. /\ g = [i \in 0..m |-> g[i]]
            /\ g[m] = IF Titles[m] \in todo THEN Append(f[m - 1], Titles[m]) ELSE f[m - 1]
            /\ \A i \in 0..(m - 1) : g[i] = f[i]
        BY <2>2, <2>4, <3>3
      <3>5. ASSUME NEW i \in 0..m
            PROVE  g[i] = IF i = 0 THEN <<>>
                          ELSE IF Titles[i] \in todo THEN Append(g[i - 1], Titles[i]) ELSE g[i - 1]
        <4>1. CASE i = m
          <5>1. m - 1 \in 0..(m - 1)
            BY <3>1
          <5>2. g[m - 1] = f[m - 1]
            BY <5>1, <3>4
          <5> QED BY <4>1, <3>4, <5>2, <2>4
        <4>2. CASE i # m
          <5>1. i \in 0..(m - 1) /\ (i # 0 => i - 1 \in 0..(m - 1))
            BY <2>2, <2>4, <4>2
          <5>2. f[i] = IF i = 0 THEN <<>>
                       ELSE IF Titles[i] \in todo THEN Append(f[i - 1], Titles[i]) ELSE f[i - 1]
            BY <5>1, <3>2, <3>1 DEF UpTo
          <5> QED BY <5>1, <5>2, <3>4
        <4> QED BY <4>1, <4>2
      <3>6. UpTo(g, m, todo)
        BY <3>4, <3>5 DEF UpTo
      <3> QED BY <2>2, <3>6
    <2> QED BY <2>3, <2>4
  <1> QED BY <1>2, <1>3

LEMMA JobListIs ==
    ASSUME NEW todo, Len(Titles) \in Nat
    PROVE  \E f : UpTo(f, Len(Titles), todo) /\ JobList(todo) = f[Len(Titles)]
  <1>1. PICK f : f = CHOOSE g : UpTo(g, Len(Titles), todo)
    OBVIOUS
  <1>2. UpTo(f, Len(Titles), todo)
    BY <1>1, UpToExists
  <1>3. JobList(todo) = f[Len(Titles)]
    BY <1>1 DEF JobList, UpTo
  <1> QED BY <1>2, <1>3

(* The jobs are titles, and they are the titles there is something to do for. *)
LEMMA JobListProperties ==
    ASSUME UpdatesAssumption, NEW todo
    PROVE  /\ JobList(todo) \in Seq(TitleSet)
           /\ \A t \in TitleSet \cap todo : \E i \in 1..Len(JobList(todo)) : JobList(todo)[i] = t
  <1>1. Titles \in Seq(TitleSet) /\ Len(Titles) \in Nat
    BY DEF UpdatesAssumption
  <1>2. PICK f : UpTo(f, Len(Titles), todo) /\ JobList(todo) = f[Len(Titles)]
    BY <1>1, JobListIs
  <1> DEFINE Right(i) ==
                /\ f[i] \in Seq(TitleSet)
                /\ \A k \in 1..i : Titles[k] \in todo => \E j \in 1..Len(f[i]) : f[i][j] = Titles[k]
  <1>3. PICK wrong : wrong = {i \in 0..Len(Titles) : ~Right(i)}
    OBVIOUS
  <1>4. ASSUME wrong # {} PROVE FALSE
    <2>1. PICK m \in wrong : \A j \in wrong : m <= j
      <3>1. wrong \in SUBSET Nat
        BY <1>1, <1>3
      <3> QED BY <1>4, <3>1, LeastPlace
    <2>2. m \in 0..Len(Titles) /\ ~Right(m)
      BY <1>3, <2>1
    <2>3. f[m] = IF m = 0 THEN <<>>
                 ELSE IF Titles[m] \in todo THEN Append(f[m - 1], Titles[m]) ELSE f[m - 1]
      BY <1>2, <2>2 DEF UpTo
    <2>4. m # 0
      BY <2>2, <2>3
    <2>5. m - 1 \in 0..Len(Titles) /\ m - 1 \notin wrong
      BY <1>1, <2>1, <2>2, <2>4
    <2>6. Right(m - 1)
      BY <1>3, <2>5
    <2>7. Titles[m] \in TitleSet
      BY <1>1, <2>2, <2>4 DEF TitleSet
    <2>8. CASE Titles[m] \in todo
      <3>1. f[m] = Append(f[m - 1], Titles[m])
        BY <2>3, <2>4, <2>8
      <3>2. PICK g \in Seq(TitleSet) : g = f[m - 1]
        BY <2>6
      <3>3. /\ f[m] \in Seq(TitleSet) /\ Len(f[m]) = Len(g) + 1 /\ f[m][Len(g) + 1] = Titles[m]
            /\ \A j \in 1..Len(g) : f[m][j] = g[j]
        BY <3>1, <3>2, <2>7
      <3>4. ASSUME NEW k \in 1..m, Titles[k] \in todo
            PROVE  \E j \in 1..Len(f[m]) : f[m][j] = Titles[k]
        <4>1. CASE k = m
          <5>1. Len(g) + 1 \in 1..Len(f[m])
            BY <3>2, <3>3
          <5> QED BY <4>1, <5>1, <3>3
        <4>2. CASE k # m
          <5>1. k \in 1..(m - 1)
            BY <1>1, <2>2, <4>2
          <5>2. PICK j \in 1..Len(g) : g[j] = Titles[k]
            BY <3>2, <3>4, <5>1, <2>6
          <5> QED BY <5>2, <3>2, <3>3
        <4> QED BY <4>1, <4>2
      <3> QED BY <2>2, <3>3, <3>4
    <2>9. CASE Titles[m] \notin todo
      <3>1. f[m] = f[m - 1]
        BY <2>3, <2>4, <2>9
      <3>2. \A k \in 1..m : Titles[k] \in todo => k \in 1..(m - 1)
        BY <1>1, <2>2, <2>9
      <3> QED BY <2>2, <2>6, <3>1, <3>2
    <2> QED BY <2>8, <2>9
  <1>5. Right(Len(Titles))
    BY <1>1, <1>3, <1>4
  <1> QED BY <1>1, <1>2, <1>5 DEF TitleSet

-----------------------------------------------------------------------------
(* What a check has still to do.  Every title it was asked for is done,    *)
(* among the jobs nobody has taken, or with a worker.                      *)

Types ==
    /\ remote \in [TitleSet -> Nat] /\ chapters \in [TitleSet -> Nat]
    /\ read \in [TitleSet -> Nat] /\ unread \in [TitleSet -> Nat]
    /\ report \in Report
    /\ run \in [Runs -> Run]
    /\ worker \in [Worker -> WorkerState]
    /\ held \in Runs \cup {None}
    /\ lastCallAt \in [Runs -> Nat \cup {None}]
    /\ events \in Nat /\ faults \in Nat

(* A chapter that was read is stored. *)
CountsOK == \A t \in TitleSet : read[t] <= chapters[t]

(* One signal for the whole check. *)
SignalsOK == \A v, w \in Worker : v[1] = w[1] => aborted[v] = aborted[w]

Busy(w) == worker[w].pc # "next"

(* A busy worker has a title, and its check is under way. *)
WorkersOK ==
    \A w \in Worker : Busy(w) => worker[w].title \in TitleSet /\ run[w[1]].phase = "working"

Settled(r, t) == run[r].items[t] \in {"done", "failed", "skipped"}

Waits(r, t) == \E i \in (run[r].cursor + 1)..Len(run[r].jobs) : run[r].jobs[i] = t

WithAWorker(r, t) == \E w \in Worker : w[1] = r /\ Busy(w) /\ worker[w].title = t

Accounted(r, t) == Settled(r, t) \/ Waits(r, t) \/ WithAWorker(r, t)

SharesOK ==
    \A r \in Runs : run[r].phase = "working" /\ ~IsAborted(r) =>
        \A t \in run[r].wanted : Accounted(r, t)

QueueInv == Types /\ CountsOK /\ SignalsOK /\ WorkersOK /\ SharesOK /\ NothingIsLeftOut

UpdatesInv == GateInv /\ QueueInv

LEMMA QueueInit == ASSUME UpdatesAssumption, GateAssumption, Init PROVE QueueInv
  <1>1. NoItems \in Items /\ AtRest \in WorkerState /\ AtRest.pc = "next"
    BY DEF NoItems, Items, ItemStatus, AtRest, WorkerState
  <1>2. NoRun \in Run /\ NoRun.phase = "idle"
    BY <1>1 DEF NoRun, Run
  <1>3. report \in Report
    BY DEF Init, Report, Items, ItemStatus
  <1>4. Types
    BY <1>1, <1>2, <1>3 DEF Init, Types
  <1>5. \A r \in Runs : run[r].phase = "idle"
    BY <1>2 DEF Init
  <1>6. CountsOK /\ SignalsOK /\ WorkersOK /\ SharesOK /\ NothingIsLeftOut
    BY <1>1, <1>5 DEF Init, GateInit, CountsOK, SignalsOK, WorkersOK, Busy, SharesOK,
                      NothingIsLeftOut, UpdatesAssumption
  <1> QED BY <1>4, <1>6 DEF QueueInv

(* Which titles are accounted for is the matter of the checks, the workers *)
(* and the signals, of which nobody takes one back.                        *)
LEMMA SameShares ==
    ASSUME QueueInv, run' = run, worker' = worker, Types', CountsOK', SignalsOK',
           \A w \in Worker : aborted[w] => aborted'[w]
    PROVE  QueueInv'
  <1>1. \A r \in Runs : ~(IsAborted(r))' => ~IsAborted(r)
    BY DEF IsAborted
  <1>2. WorkersOK'
    BY DEF QueueInv, WorkersOK, Busy
  <1>3. SharesOK'
    BY <1>1 DEF QueueInv, SharesOK, Accounted, Settled, Waits, WithAWorker, Busy
  <1>4. NothingIsLeftOut'
    BY <1>1 DEF QueueInv, NothingIsLeftOut
  <1> QED BY <1>2, <1>3, <1>4 DEF QueueInv

LEMMA CancelKeepsQueue == ASSUME UpdatesAssumption, GateTypeOK, QueueInv, Cancel PROVE QueueInv'
  <1>1. /\ aborted' = [w \in Worker |-> aborted[w] \/ w \in {v \in Worker : v[1] = held}]
        /\ UNCHANGED <<dbVars, runVars, worker, lastCallAt, boundVars>>
    BY DEF Cancel, GiveUp, UpdatesAssumption
  <1>2. \A w \in Worker : aborted'[w] = (aborted[w] \/ w[1] = held)
    BY <1>1, Zenon
  <1>3. SignalsOK'
    BY <1>2, Zenon DEF QueueInv, SignalsOK
  <1>4. Types' /\ CountsOK'
    BY <1>1 DEF dbVars, runVars, boundVars, QueueInv, Types, CountsOK
  <1> QED BY <1>1, <1>2, <1>3, <1>4, SameShares DEF runVars

LEMMA UserKeepsCounts ==
    ASSUME UpdatesAssumption, QueueInv,
           Leave \/ \E t \in TitleSet : Publish(t) \/ Read(t)
    PROVE  QueueInv'
  <1>1. run' = run /\ worker' = worker /\ aborted' = aborted
    BY DEF Leave, Publish, Read, runVars, gateState
  <1>2. SignalsOK'
    BY <1>1 DEF QueueInv, SignalsOK
  <1>3. CASE Leave
    <2>1. Types' /\ CountsOK'
      BY <1>3 DEF Leave, QueueInv, Types, CountsOK, dbVars, boundVars
    <2> QED BY <1>1, <1>2, <2>1, SameShares
  <1>4. ASSUME NEW t \in TitleSet, Publish(t) PROVE QueueInv'
    <2>1. Types' /\ CountsOK'
      BY SMTT(30), <1>4 DEF Publish, QueueInv, Types, CountsOK, runVars
    <2> QED BY <1>1, <1>2, <2>1, SameShares
  <1>5. ASSUME NEW t \in TitleSet, Read(t) PROVE QueueInv'
    <2>1. PICK left : left = chapters[t] - read'[t]
      OBVIOUS
    <2>2. /\ read' \in [TitleSet -> Nat] /\ read'[t] = read[t] + 1 /\ read'[t] <= chapters[t]
          /\ \A q \in TitleSet \ {t} : read'[q] = read[q]
      BY SMTT(30), <1>5 DEF Read, QueueInv, Types
    <2>3. left \in Nat
      BY SMTT(30), <2>1, <2>2 DEF QueueInv, Types
    <2>4. unread' \in [TitleSet -> Nat]
      BY <1>5, <2>1, <2>3 DEF Read, QueueInv, Types
    <2>5. /\ events' = events + 1 /\ remote' = remote /\ chapters' = chapters /\ run' = run
          /\ report' = report /\ held' = held /\ worker' = worker /\ lastCallAt' = lastCallAt
          /\ faults' = faults
      BY <1>5 DEF Read, runVars
    <2>6. Types'
      BY SMTT(30), <2>2, <2>4, <2>5 DEF QueueInv, Types
    <2>7. CountsOK'
      BY <2>2, <2>5 DEF QueueInv, CountsOK
    <2> QED BY <2>6, <2>7, <1>1, <1>2, SameShares
  <1> QED BY <1>3, <1>4, <1>5

(* A check begins: whatever is not skipped is among its jobs. *)
LEMMA StartKeeps ==
    ASSUME UpdatesAssumption, QueueInv, NEW r \in Runs, NEW retry \in BOOLEAN,
           NEW wanted \in SUBSET TitleSet, Start(r, retry, wanted)
    PROVE  QueueInv'
  <1>1. PICK jobs : jobs = JobList(wanted \ Skipped)
    OBVIOUS
  <1>2. PICK items : items = [t \in TitleSet |->
            IF t \notin wanted THEN "absent" ELSE IF t \in Skipped THEN "skipped" ELSE "queued"]
    OBVIOUS
  <1>3. PICK s : s = [phase |-> "working", retry |-> retry, wanted |-> wanted, known |-> unread,
                      jobs |-> jobs, cursor |-> 0, items |-> items]
    OBVIOUS
  <1>4. /\ run[r].phase = "idle" /\ run' = [run EXCEPT ![r] = s] /\ held' = r
        /\ UNCHANGED <<gateState, dbVars, report, worker, lastCallAt, boundVars>>
    BY <1>1, <1>2, <1>3 DEF Start
  <1>5. /\ jobs \in Seq(TitleSet)
        /\ \A t \in wanted \ Skipped : \E i \in 1..Len(jobs) : jobs[i] = t
    BY <1>1, JobListProperties
  <1>6. items \in Items /\ \A t \in wanted \cap Skipped : items[t] = "skipped"
    BY <1>2 DEF Items, ItemStatus
  <1>7. s \in Run
    BY <1>3, <1>5, <1>6 DEF Run, QueueInv, Types
  <1>8. run' \in [Runs -> Run] /\ run'[r] = s /\ \A q \in Runs \ {r} : run'[q] = run[q]
    BY <1>4, <1>7 DEF QueueInv, Types
  <1>9. aborted' = aborted /\ worker' = worker
    BY <1>4 DEF gateState
  <1>10. Types' /\ CountsOK' /\ SignalsOK'
    BY <1>4, <1>8, <1>9 DEF dbVars, boundVars, QueueInv, Types, CountsOK, SignalsOK
  <1>11. WorkersOK'
    BY <1>4, <1>8, <1>9 DEF QueueInv, WorkersOK, Busy
  <1>12. ASSUME NEW t \in wanted PROVE Accounted(r, t)'
    <2>1. CASE t \in Skipped
      BY <1>3, <1>6, <1>8, <2>1 DEF Accounted, Settled
    <2>2. CASE t \notin Skipped
      <3>1. PICK i \in 1..Len(jobs) : jobs[i] = t
        BY <1>5, <2>2
      <3>2. i \in (0 + 1)..Len(jobs)
        OBVIOUS
      <3> QED BY <1>3, <1>8, <3>1, <3>2 DEF Accounted, Waits
    <2> QED BY <2>1, <2>2
  <1>13. SharesOK'
    <2>1. ASSUME NEW q \in Runs \ {r}, NEW t, Accounted(q, t) PROVE Accounted(q, t)'
      BY <1>8, <1>9, <2>1 DEF Accounted, Settled, Waits, WithAWorker, Busy
    <2> QED BY <1>3, <1>8, <1>9, <1>12, <2>1 DEF QueueInv, SharesOK, IsAborted
  <1>14. NothingIsLeftOut'
    BY <1>3, <1>8, <1>9 DEF QueueInv, NothingIsLeftOut, IsAborted
  <1> QED BY <1>10, <1>11, <1>13, <1>14 DEF QueueInv

(* A busy worker goes on with its title. *)
LEMMA WorkerGoesOn ==
    ASSUME QueueInv, NEW w \in Worker, NEW s \in WorkerState, Became(w, s),
           Busy(w), s.pc # "next", s.title = worker[w].title,
           chapters' \in [TitleSet -> Nat], CountsOK',
           UNCHANGED <<remote, read, unread, runVars, lastCallAt, boundVars, aborted>>
    PROVE  QueueInv'
  <1>1. /\ worker' \in [Worker -> WorkerState] /\ worker'[w] = s
        /\ \A v \in Worker \ {w} : worker'[v] = worker[v]
    BY DEF QueueInv, Types, Became
  <1>2. run' = run /\ aborted' = aborted
    BY DEF runVars
  <1>3. Types' /\ SignalsOK'
    BY <1>1 DEF QueueInv, Types, SignalsOK, runVars, boundVars
  <1>4. \A v \in Worker : Busy(v)' = Busy(v) /\ worker'[v].title = worker[v].title
    BY <1>1, Zenon DEF Busy
  <1>5. WorkersOK'
    BY <1>2, <1>4 DEF QueueInv, WorkersOK
  <1>6. SharesOK' /\ NothingIsLeftOut'
    BY <1>2, <1>4 DEF QueueInv, SharesOK, IsAborted, Accounted, Settled, Waits, WithAWorker,
                      NothingIsLeftOut
  <1> QED BY <1>3, <1>5, <1>6 DEF QueueInv

(* A worker ends its job: unless the check was cancelled, its title is settled. *)
LEMMA EndJobKeeps ==
    ASSUME QueueInv, NEW w \in Worker, NEW status \in ItemStatus, EndJob(w, status), Busy(w),
           aborted[w] \in BOOLEAN, ~aborted[w] => status \in {"done", "failed"},
           unread' \in [TitleSet -> Nat], faults' \in Nat,
           UNCHANGED <<remote, chapters, read, report, held, lastCallAt, events, aborted>>
    PROVE  QueueInv'
  <1> DEFINE r == w[1]
             title == worker[w].title
  <1>1. r \in Runs /\ title \in TitleSet /\ run[r].phase = "working" /\ run[r] \in Run
    BY DEF QueueInv, WorkersOK, Types, Worker
  <1>2. PICK items : items = [run[r].items EXCEPT ![title] = status]
    OBVIOUS
  <1>3. PICK s : s = [run[r] EXCEPT !.items = items]
    OBVIOUS
  <1>4. items \in Items /\ items[title] = status
        /\ \A t \in TitleSet \ {title} : items[t] = run[r].items[t]
    BY <1>1, <1>2 DEF Run, Items
  <1>5. /\ s \in Run /\ s.phase = "working" /\ s.wanted = run[r].wanted /\ s.jobs = run[r].jobs
        /\ s.cursor = run[r].cursor /\ s.items = items
    BY <1>1, <1>3, <1>4 DEF Run
  <1>6. run' = [run EXCEPT ![r] = s]
    BY <1>1, <1>2, <1>3 DEF EndJob, Mark, QueueInv, Types, Run
  <1>7. run' \in [Runs -> Run] /\ run'[r] = s /\ \A q \in Runs \ {r} : run'[q] = run[q]
    BY <1>1, <1>5, <1>6 DEF QueueInv, Types
  <1>8. AtRest \in WorkerState /\ AtRest.pc = "next"
    BY DEF AtRest, WorkerState
  <1>9. /\ worker' \in [Worker -> WorkerState] /\ worker'[w].pc = "next"
        /\ \A v \in Worker \ {w} : worker'[v] = worker[v]
    BY <1>8 DEF EndJob, Became, QueueInv, Types
  <1>10. aborted' = aborted
    OBVIOUS
  <1>11. Types' /\ CountsOK' /\ SignalsOK'
    BY <1>7, <1>9 DEF QueueInv, Types, CountsOK, SignalsOK
  <1>12. WorkersOK'
    <2>1. \A q \in Runs : run'[q].phase = run[q].phase
      BY <1>1, <1>5, <1>7
    <2>2. \A v \in Worker : v[1] \in Runs
      BY DEF Worker
    <2>3. \A v \in Worker : Busy(v)' => Busy(v) /\ worker'[v].title = worker[v].title
      BY <1>9 DEF Busy
    <2> QED BY <2>1, <2>2, <2>3 DEF QueueInv, WorkersOK
  <1>13. ASSUME NEW t \in run[r].wanted, Accounted(r, t), ~aborted[w] PROVE Accounted(r, t)'
    <2>1. t \in TitleSet
      BY <1>1 DEF Run
    <2>2. CASE t = title
      BY <1>4, <1>5, <1>7, <1>13, <2>2 DEF Accounted, Settled
    <2>3. CASE t # title
      <3>1. CASE Settled(r, t)
        BY <1>4, <1>5, <1>7, <2>1, <2>3, <3>1 DEF Accounted, Settled
      <3>2. CASE Waits(r, t)
        BY <1>5, <1>7, <3>2 DEF Accounted, Waits
      <3>3. CASE WithAWorker(r, t)
        BY <1>9, <2>3, <3>3 DEF Accounted, WithAWorker, Busy
      <3> QED BY <1>13, <3>1, <3>2, <3>3 DEF Accounted
    <2> QED BY <2>2, <2>3
  <1>14. ~IsAborted(r) => ~aborted[w]
    BY DEF IsAborted, QueueInv, SignalsOK
  <1>15. ASSUME NEW q \in Runs \ {r}, NEW t, Accounted(q, t) PROVE Accounted(q, t)'
    BY <1>7, <1>9, <1>15 DEF Accounted, Settled, Waits, WithAWorker, Busy
  <1>16. SharesOK'
    BY <1>1, <1>5, <1>7, <1>10, <1>13, <1>14, <1>15 DEF QueueInv, SharesOK, IsAborted
  <1>17. NothingIsLeftOut'
    BY <1>5, <1>7, <1>10 DEF QueueInv, NothingIsLeftOut, IsAborted
  <1> QED BY <1>11, <1>12, <1>16, <1>17 DEF QueueInv

LEMMA TakeKeeps ==
    ASSUME UpdatesAssumption, GateAssumption, GateTypeOK, QueueInv, NEW w \in Worker, Take(w)
    PROVE  QueueInv'
  <1> DEFINE r == w[1]
             n == run[r].cursor + 1
             t == run[r].jobs[n]
  <1>1. /\ r \in Runs /\ run[r] \in Run /\ run[r].phase = "working" /\ ~Busy(w)
        /\ run[r].cursor < Len(run[r].jobs) /\ aborted' = aborted
        /\ UNCHANGED <<gateState, dbVars, report, held, boundVars>>
    BY DEF Take, Worker, QueueInv, Types, Busy, gateState
  <1>2. /\ run[r].jobs \in Seq(TitleSet) /\ run[r].cursor \in Nat /\ run[r].items \in Items
        /\ n \in 1..Len(run[r].jobs) /\ t \in TitleSet /\ n \in Nat
        /\ Len(run[r].jobs) \in Nat
    <2>1. PICK jobs, cursor : jobs = run[r].jobs /\ cursor = run[r].cursor
      OBVIOUS
    <2>2. jobs \in Seq(TitleSet) /\ cursor \in Nat /\ run[r].items \in Items
      BY <1>1, <2>1 DEF Run
    <2>3. Len(jobs) \in Nat
      BY <2>2
    <2>4. cursor + 1 \in 1..Len(jobs)
      <3>1. cursor < Len(jobs)
        BY <1>1, <2>1
      <3>2. PICK l \in Nat : l = Len(jobs)
        BY <2>3
      <3> QED BY <2>2, <3>1, <3>2
    <2>5. jobs[cursor + 1] \in TitleSet
      BY <2>2, <2>4
    <2> QED BY SMTT(30), <2>1, <2>2, <2>3, <2>4, <2>5
  <1>3. PICK status : /\ status \in {"cancelled", "running"}
                      /\ status = "running" => ~aborted[w]
                      /\ run' = [Mark(r, t, status) EXCEPT ![r].cursor = @ + 1]
                      /\ \/ status = "cancelled" /\ aborted[w] /\ worker' = worker
                            /\ lastCallAt' = lastCallAt
                         \/ /\ status = "running"
                            /\ Became(w, [AtRest EXCEPT !.pc = "spacing", !.title = t,
                                                        !.wakeAt = NextSlot(r)])
                            /\ lastCallAt' = [lastCallAt EXCEPT ![r] = NextSlot(r)]
    <2>1. CASE aborted[w]
      BY <2>1 DEF Take
    <2>2. CASE ~aborted[w]
      BY <2>2 DEF Take
    <2> QED BY <2>1, <2>2
  <1>4. PICK items : items = [run[r].items EXCEPT ![t] = status]
    OBVIOUS
  <1>5. PICK s : s = [run[r] EXCEPT !.items = items, !.cursor = n]
    OBVIOUS
  <1>6. items \in Items /\ \A q \in TitleSet \ {t} : items[q] = run[r].items[q]
    BY <1>2, <1>3, <1>4 DEF Items, ItemStatus
  <1>7. /\ s \in Run /\ s.phase = "working" /\ s.wanted = run[r].wanted /\ s.jobs = run[r].jobs
        /\ s.cursor = n /\ s.items = items
    BY <1>1, <1>2, <1>5, <1>6 DEF Run
  <1>8. run' = [run EXCEPT ![r] = s]
    BY <1>1, <1>3, <1>4, <1>5 DEF Mark, QueueInv, Types, Run
  <1>9. run' \in [Runs -> Run] /\ run'[r] = s /\ \A q \in Runs \ {r} : run'[q] = run[q]
    BY <1>1, <1>7, <1>8 DEF QueueInv, Types
  <1>10. NextSlot(r) \in Nat
    BY SMTT(30), <1>1 DEF NextSlot, Later, QueueInv, Types, GateTypeOK, UpdatesAssumption
  <1>11. PICK x : x = [AtRest EXCEPT !.pc = "spacing", !.title = t, !.wakeAt = NextSlot(r)]
    OBVIOUS
  <1>12. x \in WorkerState /\ x.title = t /\ x.pc = "spacing"
    BY <1>2, <1>10, <1>11 DEF AtRest, WorkerState
  <1>13. /\ worker' \in [Worker -> WorkerState] /\ lastCallAt' \in [Runs -> Nat \cup {None}]
         /\ worker'[w] = worker[w] \/ worker'[w] = x
         /\ status = "running" => worker'[w] = x
         /\ \A v \in Worker \ {w} : worker'[v] = worker[v]
    <2>1. CASE worker' = worker /\ lastCallAt' = lastCallAt /\ status = "cancelled"
      BY <2>1 DEF QueueInv, Types
    <2>2. CASE Became(w, x) /\ lastCallAt' = [lastCallAt EXCEPT ![r] = NextSlot(r)]
      BY <2>2, <1>10, <1>12 DEF QueueInv, Types, Became
    <2> QED BY <1>3, <1>11, <2>1, <2>2
  <1>14. Types' /\ CountsOK' /\ SignalsOK'
    BY <1>1, <1>9, <1>13 DEF QueueInv, Types, CountsOK, SignalsOK, dbVars, boundVars
  <1>15. WorkersOK'
    <2>1. \A q \in Runs : run'[q].phase = run[q].phase
      BY <1>1, <1>7, <1>9
    <2>2. \A v \in Worker : v[1] \in Runs
      BY DEF Worker
    <2>3. ASSUME NEW v \in Worker, Busy(v)'
          PROVE  worker'[v].title \in TitleSet /\ run[v[1]].phase = "working"
      <3>1. CASE v = w /\ worker'[w] = x
        BY <3>1, <1>1, <1>2, <1>12
      <3>2. CASE worker'[v] = worker[v]
        BY <2>3, <3>2 DEF QueueInv, WorkersOK, Busy
      <3> QED BY <3>1, <3>2, <1>13
    <2> QED BY <2>1, <2>2, <2>3 DEF WorkersOK
  <1>16. ASSUME NEW q \in run[r].wanted, Accounted(r, q), ~aborted[w] PROVE Accounted(r, q)'
    <2>1. status = "running" /\ worker'[w] = x
      BY <1>3, <1>13, <1>16
    <2>2. q \in TitleSet
      BY <1>1 DEF Run
    <2>3. CASE q = t
      BY <1>12, <2>1, <2>3 DEF Accounted, WithAWorker, Busy
    <2>4. CASE q # t
      <3>1. CASE Settled(r, q)
        BY <1>6, <1>7, <1>9, <2>2, <2>4, <3>1 DEF Accounted, Settled
      <3>2. CASE Waits(r, q)
        <4>1. PICK i \in n..Len(run[r].jobs) : run[r].jobs[i] = q
          BY <3>2 DEF Waits
        <4>2. PICK m \in Nat, l \in Nat : m = n /\ l = Len(run[r].jobs)
          BY <1>2
        <4>3. i \in m..l /\ i # m
          BY <2>4, <4>1, <4>2
        <4>4. i \in (m + 1)..l
          BY SMTT(30), <4>2, <4>3
        <4>5. i \in (s.cursor + 1)..Len(s.jobs) /\ s.jobs[i] = q
          BY <1>7, <4>1, <4>2, <4>4
        <4> QED BY <1>9, <4>5 DEF Accounted, Waits
      <3>3. CASE WithAWorker(r, q)
        <4>1. PICK v \in Worker : v[1] = r /\ Busy(v) /\ worker[v].title = q
          BY <3>3 DEF WithAWorker
        <4>2. v # w
          BY <1>1, <4>1
        <4> QED BY <1>13, <4>1, <4>2 DEF Accounted, WithAWorker, Busy
      <3> QED BY <1>16, <3>1, <3>2, <3>3 DEF Accounted
    <2> QED BY <2>3, <2>4
  <1>17. ~IsAborted(r) => ~aborted[w]
    <2>1. \A v \in Worker : aborted[v] \in BOOLEAN
      BY DEF GateTypeOK, UpdatesAssumption
    <2> QED BY <2>1, Zenon DEF IsAborted, QueueInv, SignalsOK
  <1>18. ASSUME NEW q \in Runs \ {r}, NEW title, Accounted(q, title)
         PROVE  Accounted(q, title)'
    <2>1. CASE WithAWorker(q, title)
      <3>1. PICK v \in Worker : v[1] = q /\ Busy(v) /\ worker[v].title = title
        BY <2>1 DEF WithAWorker
      <3>2. v # w
        BY <1>1, <3>1
      <3> QED BY <1>13, <3>1, <3>2 DEF Accounted, WithAWorker, Busy
    <2>2. CASE Settled(q, title) \/ Waits(q, title)
      BY <1>9, <2>2 DEF Accounted, Settled, Waits
    <2> QED BY <1>18, <2>1, <2>2 DEF Accounted
  <1>19. SharesOK'
    <2> SUFFICES ASSUME NEW q \in Runs, run'[q].phase = "working", ~(IsAborted(q))',
                        NEW title \in run'[q].wanted
                 PROVE  Accounted(q, title)'
      BY DEF SharesOK
    <2>1. ~IsAborted(q)
      BY <1>1 DEF IsAborted
    <2>2. run[q].phase = "working" /\ run'[q].wanted = run[q].wanted
      BY <1>1, <1>7, <1>9
    <2>3. Accounted(q, title)
      BY <2>1, <2>2 DEF QueueInv, SharesOK
    <2> QED BY <1>16, <1>17, <1>18, <2>1, <2>2, <2>3
  <1>20. NothingIsLeftOut'
    BY <1>1, <1>7, <1>9 DEF QueueInv, NothingIsLeftOut, IsAborted
  <1> QED BY <1>14, <1>15, <1>19, <1>20 DEF QueueInv

(* A job of the gate or the network leaves every signal alone. *)
LEMMA JobKeepsSignals == ASSUME NEW w \in Worker, Job(w) PROVE aborted' = aborted
  <1>1. CASE Depart(w)
    BY <1>1 DEF Depart, Request, Look, Refuse
  <1>2. CASE Network(w)
    BY <1>2 DEF Network, Progress, Wake, Look, Respond, ReadBody, RequestFails, Aborts
  <1>3. CASE ~Depart(w) /\ ~Network(w)
    BY <1>3 DEF Job, Take, GivenUp, Listed, ListingFails, Save, SaveFails, Recount, gateState
  <1> QED BY <1>1, <1>2, <1>3

LEMMA JobKeeps ==
    ASSUME UpdatesAssumption, GateAssumption, GateTypeOK, QueueInv, NEW w \in Worker, Job(w)
    PROVE  QueueInv'
  <1>1. /\ aborted' = aborted /\ worker[w] \in WorkerState /\ aborted[w] \in BOOLEAN
        /\ Busy(w) => worker[w].title \in TitleSet
        /\ w[1] \in Runs /\ run[w[1]] \in Run
    BY JobKeepsSignals DEF QueueInv, Types, WorkersOK, GateTypeOK, UpdatesAssumption, Worker
  <1>2. CASE Take(w)
    BY <1>2, TakeKeeps
  <1>3. CASE Depart(w)
    <2>1. PICK s : s = [worker[w] EXCEPT !.pc = "listing", !.wakeAt = 0]
      OBVIOUS
    <2>2. s \in WorkerState /\ s.pc = "listing" /\ s.title = worker[w].title
      BY <1>1, <2>1 DEF WorkerState
    <2>3. Became(w, s) /\ Busy(w) /\ UNCHANGED <<dbVars, runVars, lastCallAt, boundVars>>
      BY <1>3, <2>1 DEF Depart, Busy
    <2>4. chapters' \in [TitleSet -> Nat] /\ CountsOK'
      BY <2>3 DEF QueueInv, Types, CountsOK, dbVars
    <2> QED BY <1>1, <2>2, <2>3, <2>4, WorkerGoesOn DEF dbVars
  <1>4. CASE Network(w)
    <2>1. UNCHANGED <<dbVars, runVars, worker, lastCallAt, boundVars>>
      BY <1>4 DEF Network
    <2>2. Types' /\ CountsOK' /\ SignalsOK'
      BY <1>1, <2>1 DEF QueueInv, Types, CountsOK, SignalsOK, dbVars, runVars, boundVars
    <2> QED BY <1>1, <2>1, <2>2, SameShares DEF runVars
  <1>5. CASE Listed(w)
    <2>1. Busy(w) /\ worker[w].title \in TitleSet
      BY <1>1, <1>5 DEF Listed, Busy
    <2>2. remote[worker[w].title] \in Nat
      BY <2>1 DEF QueueInv, Types
    <2>3. PICK s : s = [worker[w] EXCEPT !.pc = "saving", !.listed = remote[worker[w].title]]
      OBVIOUS
    <2>4. s \in WorkerState /\ s.pc = "saving" /\ s.title = worker[w].title
      BY <1>1, <2>2, <2>3 DEF WorkerState
    <2>5. Became(w, s) /\ UNCHANGED <<dbVars, runVars, lastCallAt, boundVars>>
      BY <1>5, <2>3 DEF Listed
    <2>6. chapters' \in [TitleSet -> Nat] /\ CountsOK'
      BY <2>5 DEF QueueInv, Types, CountsOK, dbVars
    <2> QED BY <1>1, <2>1, <2>4, <2>5, <2>6, WorkerGoesOn DEF dbVars
  <1>6. CASE Save(w)
    <2>1. Busy(w) /\ worker[w].title \in TitleSet
      BY <1>1, <1>6 DEF Save, Busy
    <2>2. PICK n : n = worker[w].saved + 1
      OBVIOUS
    <2>3. n \in Nat
      BY SMTT(30), <1>1, <2>2 DEF WorkerState
    <2>4. PICK s : s = [worker[w] EXCEPT !.saved = n]
      OBVIOUS
    <2>5. s \in WorkerState /\ s.pc = "saving" /\ s.title = worker[w].title
      BY <1>1, <1>6, <2>3, <2>4 DEF WorkerState, Save
    <2>6. /\ Became(w, s) /\ UNCHANGED <<remote, read, unread, runVars, lastCallAt, boundVars>>
          /\ chapters' = [chapters EXCEPT ![worker[w].title] = Later(@, n)]
      BY <1>6, <2>2, <2>4 DEF Save
    <2>7. chapters' \in [TitleSet -> Nat] /\ \A t \in TitleSet : chapters'[t] >= chapters[t]
      BY SMTT(30), <2>1, <2>3, <2>6 DEF QueueInv, Types, Later
    <2>8. CountsOK'
      BY <2>6, <2>7 DEF QueueInv, Types, CountsOK
    <2> QED BY <1>1, <2>1, <2>5, <2>6, <2>7, <2>8, WorkerGoesOn
  <1>7. CASE GivenUp(w) \/ ListingFails(w) \/ SaveFails(w)
    <2>1. PICK status \in {"cancelled", "failed"} :
            EndJob(w, status) /\ (~aborted[w] => status = "failed")
      BY <1>7 DEF GivenUp, ListingFails, SaveFails, FailedOrCancelled
    <2>2. Busy(w) /\ UNCHANGED <<dbVars, report, held, lastCallAt, events>>
      BY <1>7 DEF GivenUp, ListingFails, SaveFails, Busy, boundVars
    <2>3. faults' \in Nat
      BY <1>7 DEF GivenUp, ListingFails, SaveFails, boundVars, QueueInv, Types
    <2>4. unread' \in [TitleSet -> Nat] /\ status \in ItemStatus
      BY <2>2 DEF QueueInv, Types, ItemStatus, dbVars
    <2> QED BY <1>1, <2>1, <2>2, <2>3, <2>4, EndJobKeeps DEF dbVars
  <1>8. CASE Recount(w)
    <2>1. Busy(w) /\ worker[w].title \in TitleSet
      BY <1>1, <1>8 DEF Recount, Busy
    <2>2. Unread(worker[w].title) \in Nat
      BY SMTT(30), <2>1 DEF Unread, QueueInv, Types, CountsOK
    <2>3. unread' \in [TitleSet -> Nat]
      BY <1>8, <2>1, <2>2 DEF Recount, QueueInv, Types
    <2>4. /\ EndJob(w, "done") /\ faults' \in Nat
          /\ UNCHANGED <<remote, chapters, read, report, held, lastCallAt, events>>
      BY <1>8 DEF Recount, boundVars, QueueInv, Types
    <2> QED BY <1>1, <2>1, <2>3, <2>4, EndJobKeeps DEF ItemStatus
  <1> QED BY <1>2, <1>3, <1>4, <1>5, <1>6, <1>7, <1>8 DEF Job

(* The workers are at rest, so every title is settled. *)
LEMMA MergeKeeps == ASSUME QueueInv, NEW r \in Runs, Merge(r) PROVE QueueInv'
  <1>1. run[r] \in Run /\ run[r].phase = "working" /\ report \in Report
    BY DEF Merge, QueueInv, Types
  <1>2. PICK own : own = [t \in TitleSet |->
                    IF run[r].items[t] \in {"queued", "running"} THEN "cancelled"
                    ELSE run[r].items[t]]
    OBVIOUS
  <1>3. PICK merged : merged = [t \in TitleSet |->
                    IF t \in run[r].wanted THEN own[t] ELSE report.items[t]]
    OBVIOUS
  <1>4. PICK items : items = IF run[r].retry THEN merged ELSE own
    OBVIOUS
  <1>5. own \in Items
    BY <1>1, <1>2 DEF Run, Items, ItemStatus
  <1>6. merged \in Items
    BY <1>1, <1>3, <1>5 DEF Report, Items
  <1>7. items \in Items /\ \A t \in TitleSet : t \in run[r].wanted => items[t] = own[t]
    BY <1>3, <1>4, <1>5, <1>6
  <1>8. PICK s : s = [run[r] EXCEPT !.phase = "reporting", !.items = items]
    OBVIOUS
  <1>9. s \in Run /\ s.phase = "reporting" /\ s.wanted = run[r].wanted /\ s.items = items
    BY <1>1, <1>7, <1>8 DEF Run
  <1>10. /\ run' = [run EXCEPT ![r] = s]
         /\ UNCHANGED <<gateState, dbVars, report, held, worker, lastCallAt, boundVars>>
    BY <1>2, <1>3, <1>4, <1>8 DEF Merge, QueueInv, Types
  <1>11. run' \in [Runs -> Run] /\ run'[r] = s /\ \A q \in Runs \ {r} : run'[q] = run[q]
    BY <1>9, <1>10 DEF QueueInv, Types
  <1>12. Types' /\ CountsOK' /\ SignalsOK'
    BY <1>10, <1>11 DEF QueueInv, Types, CountsOK, SignalsOK, dbVars, boundVars, gateState
  <1>13. \A w \in Worker : w[1] = r => ~Busy(w)
    BY DEF Merge, Busy
  <1>14. worker' = worker /\ aborted' = aborted
    BY <1>10 DEF gateState
  <1>15. WorkersOK'
    <2>1. \A v \in Worker : v[1] \in Runs
      BY DEF Worker
    <2> QED BY <1>11, <1>13, <1>14, <2>1 DEF QueueInv, WorkersOK, Busy
  <1>16. SharesOK'
    <2>1. ASSUME NEW q \in Runs \ {r}, NEW t, Accounted(q, t) PROVE Accounted(q, t)'
      BY <1>11, <1>14, <2>1 DEF Accounted, Settled, Waits, WithAWorker, Busy
    <2> QED BY <1>9, <1>11, <1>14, <2>1 DEF QueueInv, SharesOK, IsAborted
  <1>17. ASSUME ~IsAborted(r), NEW t \in run[r].wanted
         PROVE  items[t] \in {"done", "failed", "skipped"}
    <2>1. Accounted(r, t) /\ t \in TitleSet
      BY <1>1, <1>17 DEF QueueInv, SharesOK, Run
    <2>2. ~WithAWorker(r, t)
      BY <1>13 DEF WithAWorker
    <2>3. ~Waits(r, t)
      <3>1. PICK jobs, cursor : jobs = run[r].jobs /\ cursor = run[r].cursor
        OBVIOUS
      <3>2. jobs \in Seq(TitleSet) /\ cursor \in Nat
        BY <1>1, <3>1 DEF Run
      <3>3. Len(jobs) \in Nat /\ cursor >= Len(jobs)
        BY <3>1, <3>2 DEF Merge
      <3>4. (cursor + 1)..Len(jobs) = {}
        BY <3>2, <3>3
      <3> QED BY <3>1, <3>4 DEF Waits
    <2> QED BY <1>2, <1>7, <1>17, <2>1, <2>2, <2>3 DEF Accounted, Settled
  <1>18. NothingIsLeftOut'
    BY <1>9, <1>11, <1>14, <1>17 DEF QueueInv, NothingIsLeftOut, IsAborted
  <1> QED BY <1>12, <1>15, <1>16, <1>18 DEF QueueInv

LEMMA PersistKeeps ==
    ASSUME GateAssumption, UpdatesAssumption, QueueInv, NEW r \in Runs, Persist(r)
    PROVE  QueueInv'
  <1>1. run[r] \in Run /\ run[r].phase = "reporting"
    BY DEF Persist, QueueInv, Types
  <1>2. PICK s : s = [run[r] EXCEPT !.phase = "over"]
    OBVIOUS
  <1>3. s \in Run /\ s.phase = "over" /\ s.wanted = run[r].wanted /\ s.items = run[r].items
    BY <1>1, <1>2 DEF Run
  <1>4. /\ run' = [run EXCEPT ![r] = s]
        /\ UNCHANGED <<gateState, dbVars, worker, lastCallAt, events>>
    BY <1>2 DEF Persist, QueueInv, Types
  <1>5. run' \in [Runs -> Run] /\ run'[r] = s /\ \A q \in Runs \ {r} : run'[q] = run[q]
    BY <1>3, <1>4 DEF QueueInv, Types
  <1>6. held' \in Runs \cup {None}
    BY DEF Persist, QueueInv, Types
  <1>7. report' \in Report /\ faults' \in Nat
    <2>1. CASE report' = report
      BY <2>1 DEF Persist, QueueInv, Types
    <2>2. CASE /\ report' = [status |-> IF IsAborted(r) THEN "cancelled" ELSE "done",
                             items |-> run[r].items]
               /\ faults' = faults
      <3>1. run[r].items \in Items
        BY <1>1 DEF Run
      <3>2. (IF IsAborted(r) THEN "cancelled" ELSE "done") \in {"done", "cancelled"}
        OBVIOUS
      <3> QED BY <2>2, <3>1, <3>2 DEF Report, QueueInv, Types
    <2> QED BY <2>1, <2>2 DEF Persist
  <1>8. worker' = worker /\ aborted' = aborted
    BY <1>4 DEF gateState
  <1>9. Types' /\ CountsOK' /\ SignalsOK'
    BY <1>4, <1>5, <1>6, <1>7, <1>8 DEF QueueInv, Types, CountsOK, SignalsOK, dbVars
  <1>10. WorkersOK'
    <2>1. \A v \in Worker : v[1] \in Runs
      BY DEF Worker
    <2> QED BY <1>1, <1>5, <1>8, <2>1 DEF QueueInv, WorkersOK, Busy
  <1>11. SharesOK'
    <2>1. ASSUME NEW q \in Runs \ {r}, NEW t, Accounted(q, t) PROVE Accounted(q, t)'
      BY <1>5, <1>8, <2>1 DEF Accounted, Settled, Waits, WithAWorker, Busy
    <2> QED BY <1>3, <1>5, <1>8, <2>1 DEF QueueInv, SharesOK, IsAborted
  <1>12. NothingIsLeftOut'
    BY <1>1, <1>3, <1>5, <1>8 DEF QueueInv, NothingIsLeftOut, IsAborted
  <1> QED BY <1>9, <1>10, <1>11, <1>12 DEF QueueInv

LEMMA UpdatesStep ==
    ASSUME UpdatesAssumption, GateAssumption, UpdatesInv, [Next]_vars PROVE UpdatesInv'
  <1>1. GateInv' /\ GateTypeOK
    BY StepKeepsTheGate, GateStepKeepsInv DEF UpdatesInv, GateInv
  <1>2. QueueInv
    BY DEF UpdatesInv
  <1>3. CASE UNCHANGED vars
    <2>1. UNCHANGED <<dbVars, runVars, worker, lastCallAt, boundVars, aborted>>
      BY <1>3 DEF vars, gateState
    <2>2. Types' /\ CountsOK' /\ SignalsOK'
      BY <1>2, <2>1 DEF QueueInv, Types, CountsOK, SignalsOK, dbVars, runVars, boundVars
    <2> QED BY <1>1, <1>2, <2>1, <2>2, SameShares DEF UpdatesInv, runVars
  <1>4. CASE User
    <2>1. TitleSet \in SUBSET TitleSet /\ \A t \in TitleSet : {t} \in SUBSET TitleSet
      OBVIOUS
    <2>2. CASE \E r \in Runs : Start(r, FALSE, TitleSet) \/ \E t \in TitleSet : Start(r, TRUE, {t})
      BY <1>1, <1>2, <2>1, <2>2, StartKeeps DEF UpdatesInv
    <2> QED BY <1>1, <1>2, <1>4, <2>2, CancelKeepsQueue, UserKeepsCounts DEF User, UpdatesInv
  <1>5. CASE Time
    <2>1. UNCHANGED <<dbVars, runVars, worker, lastCallAt, boundVars, aborted>>
      BY <1>5 DEF Time, Tick
    <2>2. Types' /\ CountsOK' /\ SignalsOK'
      BY <1>2, <2>1 DEF QueueInv, Types, CountsOK, SignalsOK, dbVars, runVars, boundVars
    <2> QED BY <1>1, <1>2, <2>1, <2>2, SameShares DEF UpdatesInv, runVars
  <1>6. CASE \E w \in Worker : Job(w)
    BY <1>1, <1>2, <1>6, JobKeeps DEF UpdatesInv
  <1>7. CASE \E r \in Runs : Merge(r) \/ Persist(r)
    BY <1>1, <1>2, <1>7, MergeKeeps, PersistKeeps DEF UpdatesInv
  <1> QED BY <1>3, <1>4, <1>5, <1>6, <1>7 DEF Next

LEMMA UpdatesInvariant == Spec => []UpdatesInv
  <1>1. Init => UpdatesInv
    BY QueueInit, GateInitInv, UpdatesAssumption, GateAssumption DEF Init, UpdatesInv
  <1>2. UpdatesInv /\ [Next]_vars => UpdatesInv'
    BY UpdatesStep, UpdatesAssumption, GateAssumption
  <1> QED BY <1>1, <1>2, PTL DEF Spec

(* Type correctness of the checks and of the gate below them: no unread    *)
(* count is negative, whatever is read while a check saves and recounts    *)
(* (runLibraryUpdateQueue, recomputeLibraryUnreadCounts).                  *)
THEOREM UpdatesTypeSafe == Spec => []TypeOK
  <1>1. UpdatesInv => TypeOK
    BY DEF UpdatesInv, GateInv, QueueInv, Types, TypeOK
  <1> QED BY <1>1, UpdatesInvariant, PTL

(* A check nobody cancelled has dealt with every title it was asked for,   *)
(* for any library, number of workers and overlap of checks: the workers   *)
(* share one cursor and a title is with one of them until it is settled    *)
(* (runLibraryUpdateQueue).                                                *)
THEOREM NothingLeftOutTheorem == Spec => []NothingIsLeftOut
  <1>1. UpdatesInv => NothingIsLeftOut
    BY DEF UpdatesInv, QueueInv
  <1> QED BY <1>1, UpdatesInvariant, PTL

=============================================================================
