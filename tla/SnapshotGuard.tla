--------------------------- MODULE SnapshotGuard ---------------------------
(***************************************************************************)
(* What the program promises about the user's interface, without saying    *)
(* how: a snapshot is saved before the interface is touched, the interface *)
(* changes only while one is saved, and the snapshot is given up only when *)
(* the interface is back in the state it records.                          *)
(***************************************************************************)
CONSTANTS
    Items,      \* settings an interface may have: addresses, routes, DNS...
    Original,   \* the settings the user's interface has at the start
    NoSnapshot

VARIABLES
    nic,        \* the settings of the interface
    saved       \* the saved snapshot, or NoSnapshot

guardVars == <<nic, saved>>

GuardInit == nic = Original /\ saved = NoSnapshot

(* Take a snapshot of the interface as it is.                              *)
Save ==
    /\ saved = NoSnapshot
    /\ saved' = nic
    /\ UNCHANGED nic

(* Change the interface, in either direction.                              *)
Change ==
    /\ saved # NoSnapshot
    /\ nic' \in SUBSET Items
    /\ UNCHANGED saved

(* Give the snapshot up: there is nothing left to undo.                    *)
Forget ==
    /\ saved = nic
    /\ saved' = NoSnapshot
    /\ UNCHANGED nic

GuardNext == Save \/ Change \/ Forget

GuardSpec == GuardInit /\ [][GuardNext]_guardVars

(* The user's settings are never lost: they are on the interface or in the *)
(* saved snapshot.                                                         *)
NeverLost == nic = Original \/ saved = Original
=============================================================================
