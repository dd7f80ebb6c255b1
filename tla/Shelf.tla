------------------------------- MODULE Shelf -------------------------------
(***************************************************************************)
(* What the drive promises of its files: one that is written by the host   *)
(* is not there until all of it is, what it replaces is dropped first, and *)
(* no other file changes, whenever the writing ends.                       *)
(***************************************************************************)
EXTENDS Functions

CONSTANTS
    Names,        \* what files are called
    Contents,     \* what they may hold
    Nothing       \* no file is being written

VARIABLES
    files,        \* what is on the drive, by name
    job           \* the file being written

Without(n) == Restrict(files, DOMAIN files \ {n})
With(n, c) == [m \in DOMAIN files \cup {n} |-> IF m = n THEN c ELSE files[m]]

Init == job = Nothing /\ files \in UNION {[N -> Contents] : N \in SUBSET Names}

Begin(n, c) == job = Nothing /\ job' = [name |-> n, content |-> c] /\ UNCHANGED files
Drop == job # Nothing /\ files' = Without(job.name) /\ UNCHANGED job
Put == job # Nothing /\ files' = With(job.name, job.content) /\ job' = Nothing
GiveUp == job # Nothing /\ job' = Nothing /\ files' \in {files, Without(job.name)}

(* The machine has the drive to itself. *)
GuestWrites(n, c) == job = Nothing /\ files' = With(n, c) /\ UNCHANGED job
GuestDeletes(n) == job = Nothing /\ files' = Without(n) /\ UNCHANGED job

Next ==
    \/ \E n \in Names, c \in Contents : Begin(n, c) \/ GuestWrites(n, c)
    \/ Drop \/ Put \/ GiveUp
    \/ \E n \in Names : GuestDeletes(n)

Spec == Init /\ [][Next]_<<files, job>>
=============================================================================
