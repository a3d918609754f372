----------------------------- MODULE EventFile -----------------------------
(***************************************************************************)
(* What the stack of a persistent_file (bbdo, compression, file::splitter) *)
(* promises to the muxer: a queue of events that survives the process.     *)
(* The events that were read stay in the file until their part of it is    *)
(* unlinked, so an end of the process brings them back; the events that    *)
(* did not reach the disk yet are at risk.                                 *)
(***************************************************************************)
EXTENDS Naturals, Sequences, SequencesExt

VARIABLES
    up,         \* the persistent_file object exists
    queue,      \* events that were not read yet, oldest first
    again,      \* events that were read and are still in the file
    atRisk,     \* events that a crash may drop
    damaged     \* the file holds, or held, an incomplete record

fileVars == <<up, queue, again, atRisk, damaged>>

Without(s, d) == SelectSeq(s, LAMBDA e : e \notin d)

Init ==
    /\ up = FALSE /\ queue = <<>> /\ again = <<>> /\ atRisk = {}
    /\ damaged = FALSE

Open == ~up /\ up' = TRUE /\ UNCHANGED <<queue, again, atRisk, damaged>>

(* An event is added at the end; older ones may have reached the disk. *)
Write ==
    /\ up
    /\ Len(queue') = Len(queue) + 1
    /\ IsPrefix(queue, queue')
    /\ Last(queue') \notin ToSet(queue)
    /\ atRisk' \subseteq atRisk \union {Last(queue')}
    /\ UNCHANGED <<up, again, damaged>>

(* The oldest event, and no other, is given to the reader. *)
Read ==
    /\ up
    /\ queue # <<>>
    /\ queue' = Tail(queue)
    /\ again' \in {again, Append(again, Head(queue))}
    /\ atRisk' \subseteq atRisk
    /\ UNCHANGED <<up, damaged>>

(* A part is unlinked.  In a sound file nothing unread is in it. *)
Unlink ==
    /\ up
    /\ again' = <<>>
    /\ atRisk' \subseteq atRisk \union (IF damaged THEN ToSet(queue) ELSE {})
    /\ UNCHANGED <<up, queue, damaged>>

(* The end of the file is met only when every event was read. *)
End ==
    /\ up
    /\ queue = <<>>
    /\ up' = FALSE /\ again' = <<>> /\ atRisk' = {}
    /\ UNCHANGED <<queue, damaged>>

Settle == atRisk' \subseteq atRisk /\ UNCHANGED <<up, queue, again, damaged>>

(* The object is closed, or the process dies. *)
Stop ==
    /\ up
    /\ up' = FALSE
    /\ \E d \in SUBSET atRisk : queue' = Without(again \o queue, d)
    /\ again' = <<>> /\ atRisk' = {}
    /\ damaged => damaged'

(* A part of the file is removed by somebody else. *)
PartLost ==
    /\ \E d \in SUBSET ToSet(queue) : queue' = Without(queue, d)
    /\ atRisk' \subseteq atRisk
    /\ UNCHANGED <<up, again, damaged>>

Damage == damaged' = TRUE /\ atRisk' \subseteq atRisk /\ UNCHANGED <<up, queue, again>>

Next ==
    \/ Open \/ Write \/ Read \/ Unlink \/ End
    \/ Settle \/ Stop \/ PartLost \/ Damage

Spec == Init /\ [][Next]_fileVars

=============================================================================
