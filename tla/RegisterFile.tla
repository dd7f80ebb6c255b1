---------------------------- MODULE RegisterFile ----------------------------
(***************************************************************************)
(* What the registers of the core promise: every physical register keeps   *)
(* what was last put in it, whatever modes the core goes through.  The     *)
(* mode says which physical registers its names stand for, and nothing     *)
(* changes one that is not seen from the mode, or from User's where an     *)
(* instruction says so.                                                    *)
(***************************************************************************)
CONSTANTS
    Low,         \* names of the registers all modes share
    Mid,         \* names FIQ has registers of its own for: r8 to r12
    Top,         \* names each bank has registers of its own for: r13, r14
    Link,        \* r14
    Values,
    Modes,
    NoMode       \* a status that was never saved

Names == Low \cup Mid \cup Top

(* User and System share a bank. *)
Bank(m) == IF m = "sys" THEN "usr" ELSE m

Banks == {"usr"} \cup {Bank(m) : m \in Modes}

(* Whose physical register a name stands for in a mode. *)
Owner(x, m) ==
    IF x \in Top THEN Bank(m) ELSE IF x \in Mid /\ m = "fiq" THEN "fiq" ELSE "usr"

Physical == {<<x, Owner(x, m)>> : x \in Names, m \in Modes}

HasSaved(m) == Bank(m) # "usr"

VARIABLES
    mode,        \* the mode in the status register
    file,        \* every physical register
    saved        \* the mode each bank has saved

Init ==
    /\ mode \in Modes
    /\ file \in [Physical -> Values]
    /\ saved = [b \in Banks |-> NoMode]

OnlyChange(changing) ==
    /\ file' \in [Physical -> Values]
    /\ \A p \in Physical \ changing : file'[p] = file[p]

Seen(m) == {<<x, Owner(x, m)>> : x \in Names}

Compute ==
    /\ OnlyChange(Seen(mode) \cup Seen("usr"))
    /\ UNCHANGED <<mode, saved>>

Move ==
    /\ mode' \in Modes
    /\ UNCHANGED <<file, saved>>

(* Back to the mode an exception came from, with registers loaded or not. *)
Return ==
    /\ HasSaved(mode)
    /\ mode' = saved[Bank(mode)]
    /\ OnlyChange(Seen(mode))
    /\ UNCHANGED saved

SavesInto(m) ==
    /\ HasSaved(m)
    /\ mode' = m
    /\ saved' = [saved EXCEPT ![Bank(m)] = mode]

(* Entering an exception changes the link of the bank it goes to. *)
Except ==
    /\ \E m \in Modes : SavesInto(m)
    /\ OnlyChange({<<Link, Bank(mode')>>})

(* A data abort comes after what its instruction had loaded. *)
Abort ==
    /\ SavesInto("abt")
    /\ OnlyChange(Seen(mode) \cup Seen("usr") \cup {<<Link, "abt">>})

SetSaved ==
    /\ HasSaved(mode)
    /\ \E m \in Modes : saved' = [saved EXCEPT ![Bank(mode)] = m]
    /\ UNCHANGED <<mode, file>>

Next == Compute \/ Move \/ Return \/ Except \/ Abort \/ SetSaved

Spec == Init /\ [][Next]_<<mode, file, saved>>
=============================================================================
