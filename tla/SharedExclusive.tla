--------------------------- MODULE SharedExclusive ---------------------------
(***************************************************************************)
(* What a readers/writer lock promises its users, with no word about how:  *)
(* any number of readers at a time, or one writer alone.  ReadWriteLock is *)
(* shown to implement this specification.                                  *)
(***************************************************************************)
CONSTANT Lockers        \* one member per lock .. unlock pair

VARIABLES readers,      \* the lockers that hold the lock for reading
          writers       \* the lockers that hold it for writing

absVars == <<readers, writers>>

AbsInit == readers = {} /\ writers = {}

Share(l) ==
    /\ l \notin readers \cup writers
    /\ writers = {}
    /\ readers' = readers \cup {l}
    /\ UNCHANGED writers

Exclude(l) ==
    /\ readers \cup writers = {}
    /\ writers' = {l}
    /\ UNCHANGED readers

Leave(l) ==
    /\ l \in readers \cup writers
    /\ readers' = readers \ {l}
    /\ writers' = writers \ {l}

AbsNext == \E l \in Lockers : Share(l) \/ Exclude(l) \/ Leave(l)

AbsSpec == AbsInit /\ [][AbsNext]_absVars
=============================================================================
