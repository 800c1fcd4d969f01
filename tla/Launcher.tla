------------------------------ MODULE Launcher ------------------------------
(***************************************************************************)
(* The Windows launcher (windows_launcher.ps1) on a host without a Python: *)
(* several launchers remove what others have left in .temp and install the *)
(* runtime through a staging directory each. A directory is the set of     *)
(* what it holds, "dir" itself included.                                   *)
(***************************************************************************)
EXTENDS Naturals, FiniteSets

CONSTANTS
    Launchers,      \* launches; the staging directory of each has its own name
    MaxLive, MaxFaults, MaxKills    \* bounds: launchers at a time, failures, kills

ASSUME LauncherAssumption ==
    IsFiniteSet(Launchers) /\ {MaxLive, MaxFaults, MaxKills} \subseteq Nat

Parts == {"dir", "owner", "pid", "python", "scapy"}
Whole == {"dir", "python", "scapy"}

VARIABLES
    atOnce,         \* how many launchers the user runs at a time
    runtime,        \* the runtime directory; "nested" is a second one inside
    staging, old,   \* staging directories; those not changed for 24 hours
    pc, todo, target,   \* a launcher; directories it has listed; the one it is at
    faults, kills

vars == <<atOnce, runtime, staging, old, pc, todo, target, faults, kills>>

Over == {"ok", "failed", "dead"}
States == {"idle", "clean", "read", "delete", "find", "make", "own", "sign", "python",
           "scapy", "disown", "move", "tidy", "check"} \cup Over

TypeOK ==
    /\ atOnce \in 1..MaxLive
    /\ runtime \in SUBSET (Whole \cup {"nested"})
    /\ staging \in [Launchers -> SUBSET Parts] /\ old \in [Launchers -> BOOLEAN]
    /\ pc \in [Launchers -> States] /\ todo \in [Launchers -> SUBSET Launchers]
    /\ target \in [Launchers -> Launchers]
    /\ faults \in 0..MaxFaults /\ kills \in 0..MaxKills

Init ==
    /\ atOnce \in 1..MaxLive
    /\ runtime = {} /\ staging = [l \in Launchers |-> {}]
    /\ old = [l \in Launchers |-> FALSE]
    /\ pc = [l \in Launchers |-> "idle"] /\ todo = [l \in Launchers |-> {}]
    /\ target = [l \in Launchers |-> l]
    /\ faults = 0 /\ kills = 0

Live(l) == pc[l] \notin Over \cup {"idle"}
At(l, state) == pc[l] = state
Goto(l, state) == pc' = [pc EXCEPT ![l] = state]
bounds == <<faults, kills>>

-----------------------------------------------------------------------------
(* Remove-StaleTemporaryFiles                                              *)

Start(l) ==
    /\ At(l, "idle") /\ Cardinality({m \in Launchers : Live(m)}) < atOnce
    /\ Goto(l, "clean") /\ todo' = [todo EXCEPT ![l] = {m \in Launchers : staging[m] # {}}]
    /\ UNCHANGED <<runtime, staging, old, target, bounds>>

Done(l) == Goto(l, "clean") /\ todo' = [todo EXCEPT ![l] = @ \ {target'[l]}]

(* The next directory: an owner to read, or an age to look at.             *)
Clean(l) ==
    /\ At(l, "clean")
    /\ IF todo[l] = {}
       THEN Goto(l, "find") /\ target' = [target EXCEPT ![l] = l] /\ UNCHANGED todo
       ELSE \E d \in todo[l] :
            /\ target' = [target EXCEPT ![l] = d]
            /\ CASE "owner" \in staging[d] -> Goto(l, "read") /\ UNCHANGED todo
                 [] "owner" \notin staging[d] /\ old[d] -> Goto(l, "delete") /\ UNCHANGED todo
                 [] OTHER -> Done(l)
    /\ UNCHANGED <<runtime, staging, old, bounds>>

(* An owner that cannot be read counts as one that is gone. The number of  *)
(* a process that is gone may be another one's.                            *)
Read(l) ==
    /\ At(l, "read") /\ UNCHANGED target
    /\ LET d == target[l] IN
       \/ "pid" \in staging[d] /\ Done(l)
       \/ ~("pid" \in staging[d] /\ Live(d)) /\ Goto(l, "delete") /\ UNCHANGED todo
    /\ UNCHANGED <<runtime, staging, old, bounds>>

(* One file after the other, the directory last; an error is only logged.  *)
Delete(l) ==
    /\ At(l, "delete") /\ UNCHANGED <<runtime, old, target, kills>>
    /\ LET d == target[l] IN
       \/ \E part \in staging[d] :
            /\ part # "pid" /\ (part = "dir" => staging[d] = {"dir"})
            /\ staging' = [staging EXCEPT ![d] =
                    @ \ (IF part = "owner" THEN {"owner", "pid"} ELSE {part})]
            /\ UNCHANGED <<pc, todo, faults>>
       \/ staging[d] = {} /\ Done(l) /\ UNCHANGED <<staging, faults>>
       \/ faults < MaxFaults /\ faults' = faults + 1 /\ Done(l) /\ UNCHANGED staging

-----------------------------------------------------------------------------
(* Find-Python and Install-PythonRuntime                                   *)

Find(l) ==
    /\ At(l, "find")
    /\ Goto(l, IF "python" \in runtime THEN "ok" ELSE IF runtime # {} THEN "failed" ELSE "make")
    /\ UNCHANGED <<runtime, staging, old, todo, target, bounds>>

(* Each step adds to the staging directory, which unpacking creates anew.  *)
Add(l, from, parts, to) ==
    /\ At(l, from) /\ Goto(l, to)
    /\ staging' = [staging EXCEPT ![l] = @ \cup parts]
    /\ UNCHANGED <<runtime, old, todo, target, bounds>>

Make(l) == Add(l, "make", {"dir"}, "own")
Own(l) == "dir" \in staging[l] /\ Add(l, "own", {"owner"}, "sign")
Sign(l) == {"dir", "owner"} \subseteq staging[l] /\ Add(l, "sign", {"pid"}, "python")
Unpack(l) ==
    \/ Add(l, "python", {"dir", "python"}, "scapy")
    \/ "python" \in staging[l] /\ Add(l, "scapy", {"dir", "scapy"}, "disown")

(* Mutant of Disown: owner.json stays, and moves with the directory.       *)
DisownNothing(l) ==
    /\ At(l, "disown") /\ "owner" \in staging[l] /\ Goto(l, "move")
    /\ UNCHANGED <<runtime, staging, old, todo, target, bounds>>

Disown(l) ==
    /\ At(l, "disown") /\ "owner" \in staging[l] /\ Goto(l, "move")
    /\ staging' = [staging EXCEPT ![l] = @ \ {"owner", "pid"}]
    /\ UNCHANGED <<runtime, old, todo, target, bounds>>

(* Mutant of Move: the directory is copied file by file.                   *)
MoveInParts(l) ==
    /\ At(l, "move") /\ UNCHANGED <<staging, old, todo, target, bounds>>
    /\ \/ \E part \in staging[l] \ runtime : runtime' = runtime \cup {part} /\ UNCHANGED pc
       \/ staging[l] \subseteq runtime /\ Goto(l, "tidy") /\ UNCHANGED runtime

(* Move-Item renames; into a directory that exists, it moves inside.       *)
Move(l) ==
    /\ At(l, "move") /\ staging[l] # {} /\ Goto(l, "tidy")
    /\ runtime' = IF runtime = {} THEN staging[l] ELSE runtime \cup {"nested"}
    /\ staging' = [staging EXCEPT ![l] = {}]
    /\ UNCHANGED <<old, todo, target, bounds>>

(* The archives are removed, and the runtime is tried.                     *)
Tidy(l) ==
    /\ At(l, "tidy") /\ Goto(l, "check")
    /\ UNCHANGED <<runtime, staging, old, todo, target, bounds>>

(* Mutant of Check: what has been installed is not tried.                  *)
CheckNothing(l) ==
    /\ At(l, "check") /\ Goto(l, "ok")
    /\ UNCHANGED <<runtime, staging, old, todo, target, bounds>>

Check(l) ==
    /\ At(l, "check")
    /\ Goto(l, IF "python" \in runtime THEN "ok" ELSE "failed")
    /\ UNCHANGED <<runtime, staging, old, todo, target, bounds>>

(* What a step needs and another launcher has removed.                     *)
Missing(l) ==
    \/ At(l, "own") /\ "dir" \notin staging[l]
    \/ At(l, "sign") /\ "owner" \notin staging[l]
    \/ At(l, "scapy") /\ "python" \notin staging[l]
    \/ At(l, "disown") /\ "owner" \notin staging[l]
    \/ At(l, "move") /\ staging[l] = {}

Installing == {"python", "scapy", "disown", "move", "tidy"}

(* A step fails; from the first download on, the staging directory goes.   *)
Fail(l) ==
    /\ \/ Missing(l) /\ UNCHANGED faults
       \/ /\ pc[l] \in Installing \cup {"find", "make", "own", "sign", "check"}
          /\ faults < MaxFaults /\ faults' = faults + 1
    /\ Goto(l, "failed")
    /\ staging' = [staging EXCEPT ![l] = IF pc[l] \in Installing THEN {} ELSE @]
    /\ UNCHANGED <<runtime, old, todo, target, kills>>

Kill(l) ==
    /\ Live(l) /\ kills < MaxKills /\ kills' = kills + 1 /\ Goto(l, "dead")
    /\ todo' = [todo EXCEPT ![l] = {}] /\ target' = [target EXCEPT ![l] = l]
    /\ UNCHANGED <<runtime, staging, old, faults>>

(* A day passes; no installation takes that long.                          *)
Age(l) ==
    /\ pc[l] \in Over /\ staging[l] # {} /\ ~old[l]
    /\ old' = [old EXCEPT ![l] = TRUE]
    /\ UNCHANGED <<runtime, staging, pc, todo, target, bounds>>

Advance(l) ==
    \/ Clean(l) \/ Read(l) \/ Delete(l) \/ Find(l) \/ Make(l) \/ Own(l) \/ Sign(l)
    \/ Unpack(l) \/ Disown(l) \/ Move(l) \/ Tidy(l) \/ Check(l) \/ Fail(l)

Next ==
    /\ \E l \in Launchers : Start(l) \/ Advance(l) \/ Kill(l) \/ Age(l)
    /\ UNCHANGED atOnce

(* A launcher that has been started runs.                                  *)
Spec ==
    Init /\ [][Next]_vars /\ \A l \in Launchers : WF_vars(Advance(l) /\ UNCHANGED atOnce)

-----------------------------------------------------------------------------
(* Launchers one after the other: the runtime appears as a whole. Nothing  *)
(* repairs a runtime that lacks a part, for Find-Python looks only at one. *)
RuntimeComplete == atOnce = 1 /\ runtime # {} => Whole \subseteq runtime

(* A launcher goes on to the program only with a Python to run it.         *)
OkHonest == \A l \in Launchers : At(l, "ok") => "python" \in runtime

(* A launcher that nothing disturbs finds or installs a Python, whatever   *)
(* the launchers before it were doing when they failed or were killed.     *)
Undisturbed(l) ==
    At(l, "clean") /\ atOnce = 1 /\ faults = MaxFaults /\ kills = MaxKills
Installs == \A l \in Launchers : Undisturbed(l) ~> At(l, "ok")
=============================================================================
