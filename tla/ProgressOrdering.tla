-------------------------- MODULE ProgressOrdering --------------------------
(***************************************************************************)
(* The ordering policy for reading progress: packages/db/src/              *)
(* progress-ordering.ts and the guards built on it in repositories/        *)
(* progress-ordering.ts and merge-uncommitted-progress.ts.                 *)
(*                                                                         *)
(* An ISO timestamp is a natural number and NoTime (0) stands for the      *)
(* null, undefined and empty strings the code treats alike; ISO strings of *)
(* one format compare as their instants do.  A percentage is a natural     *)
(* number; NoPercent is the -1 that stands for "no percent stored".        *)
(***************************************************************************)
EXTENDS Integers

NoTime == 0
NoPercent == -1

(* A chapter_read_state row, as far as the policy looks at it. *)
ProgressRecord ==
    [timestamp : Nat, pageIndex : Nat, readPercent : Nat, completed : BOOLEAN]

(* A progress event: its timestamp is never missing. *)
ProgressEvent == {r \in ProgressRecord : r.timestamp # NoTime}

(* The resume columns of a library_entries row. *)
ResumeRecord == [timestamp : Nat, readPercent : Nat \cup {NoPercent}]

(***************************************************************************)
(* A newer event wins; within one timestamp the furthest progress does.    *)
(***************************************************************************)
ProgressOrderingWins(incoming, existing) ==
    \/ incoming.timestamp > existing.timestamp
    \/ /\ incoming.timestamp = existing.timestamp
       /\ \/ incoming.pageIndex > existing.pageIndex
          \/ /\ incoming.pageIndex = existing.pageIndex
             /\ \/ incoming.readPercent > existing.readPercent
                \/ /\ incoming.readPercent = existing.readPercent
                   /\ incoming.completed
                   /\ ~existing.completed

LibraryResumeWins(incoming, existing) ==
    \/ existing.timestamp = NoTime
    \/ incoming.timestamp > existing.timestamp
    \/ /\ incoming.timestamp = existing.timestamp
       /\ incoming.readPercent > existing.readPercent

(* The accept guard of a progress write, and the setWhere of its upsert. *)
AcceptChapterReadState(existing, incoming) ==
    existing.timestamp = NoTime \/ ProgressOrderingWins(incoming, existing)

(* Whether a local row replaces the committed one in a snapshot merge. *)
MergeProgressWins(incoming, existing) ==
    \/ existing.timestamp = NoTime
    \/ incoming.timestamp # NoTime /\ ProgressOrderingWins(incoming, existing)

=============================================================================
