----------------------------- MODULE SessionSlot -----------------------------
(***************************************************************************)
(* What the upload endpoints promise about sessions, without handlers,     *)
(* locks or events: there is one slot; a session enters it once, waits for *)
(* the user, is accepted with a set of files or given up, loses its files  *)
(* one by one as each is settled, and is over exactly when the last one is *)
(* settled or when somebody ends it early.                                 *)
(***************************************************************************)
EXTENDS FiniteSets

CONSTANTS Session, File

VARIABLES
    phase,   \* "Free", "Pending" or "Active"
    holder,  \* the sessions in the slot: none or one
    todo,    \* the files of the active session that are not settled
    used     \* the session ids that can no longer enter

slotVars == <<phase, holder, todo, used>>

Init ==
    /\ phase = "Free"
    /\ holder = {}
    /\ todo = {}
    /\ used = {}

\* A request that never gets the slot uses up its id.
Refuse(s) ==
    /\ s \notin used
    /\ used' = used \cup {s}
    /\ UNCHANGED <<phase, holder, todo>>

Claim(s) ==
    /\ s \notin used
    /\ phase = "Free"
    /\ phase' = "Pending"
    /\ holder' = {s}
    /\ used' = used \cup {s}
    /\ UNCHANGED todo

Accept(files) ==
    /\ phase = "Pending"
    /\ files # {}
    /\ phase' = "Active"
    /\ todo' = files
    /\ UNCHANGED <<holder, used>>

\* The user declined, or the request is gone.
GiveUp ==
    /\ phase = "Pending"
    /\ phase' = "Free"
    /\ holder' = {}
    /\ UNCHANGED <<todo, used>>

\* A file is finished or has failed for good.
Settle(f) ==
    /\ phase = "Active"
    /\ f \in todo
    /\ todo' = todo \ {f}
    /\ IF todo = {f}
         THEN phase' = "Free" /\ holder' = {}
         ELSE UNCHANGED <<phase, holder>>
    /\ UNCHANGED used

EndEarly ==
    /\ phase = "Active"
    /\ phase' = "Free"
    /\ holder' = {}
    /\ todo' = {}
    /\ UNCHANGED used

Next ==
    \/ \E s \in Session : Refuse(s) \/ Claim(s)
    \/ \E files \in SUBSET File : Accept(files)
    \/ \E f \in File : Settle(f)
    \/ GiveUp \/ EndEarly

Spec == Init /\ [][Next]_slotVars
=============================================================================
