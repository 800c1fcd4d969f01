---------------------------- MODULE Coordinator ----------------------------
(***************************************************************************)
(* The coordinator (coordinator.py) with the child process it runs         *)
(* (ipoedhcp.py, extract_params.py): the menu and the command line, the    *)
(* configuration file both write, the journal that gates them, and Ctrl+C, *)
(* which reaches both. What a dial or a restore does to the interface is   *)
(* NetworkTransaction's; here it ends with or without the journal.         *)
(***************************************************************************)
EXTENDS Naturals, Sequences

CONSTANTS
    MaxRuns,        \* bounds: children, signals, kills of a child and
    MaxSignals, MaxKills, MaxOthers     \* journals that other sessions leave

ASSUME CoordinatorAssumption == {MaxRuns, MaxSignals, MaxKills, MaxOthers} \subseteq Nat

(* Where the value of a configuration field comes from; device stands for  *)
(* what a menu item asks for and sets, the interface and the duration.     *)
Config == [ device : {"user", "chosen", "default"},
            params : {"user", "extracted", "edited", "default"},
            pcap : {"user", "captured", "source", "default"} ]
Default == [device |-> "default", params |-> "default", pcap |-> "default"]

Ops == {"capture", "extract", "dhcp", "restore"}

VARIABLES
    file, mem,      \* the configuration: on disk, and the coordinator's copy
    original,       \* do_capture's copy of it
    before,         \* history: what it was when the user last chose an item
    journal,        \* "none", or the one of this dial or of some "other" session
    mode, plan,     \* what the command line asks for
    pc, op, fresh,  \* the coordinator; the operation; a capture from the menu
    restricted,     \* how the menu saw the journal
    child,          \* the child: where it is, its configuration, its exit code
    stop, exit,     \* the coordinator has seen Ctrl+C; its exit code
    told,           \* the last success reported to the user
    runs, signals, kills, others

parent == <<mem, original, before, mode, plan, pc, op, fresh, restricted, stop, exit, told>>
vars == <<file, journal, child, parent, runs, signals, kills, others>>

Running == {"gate", "work", "bound", "closing"}
NoChild == [at |-> "none", hit |-> FALSE, cfg |-> Default, code |-> 0]

TypeOK ==
    /\ {file, mem, original, before} \subseteq Config
    /\ journal \in {"none", "own", "other"}
    /\ mode \in {"interactive", "restore", "reset", "cli"} /\ plan \in Seq(Ops)
    /\ pc \in {"start", "menu", "choose", "after", "plan", "spawned", "wait", "ended"}
    /\ op \in Ops /\ fresh \in BOOLEAN /\ restricted \in BOOLEAN
    /\ child \in [ at : Running \cup {"none", "exited"}, hit : BOOLEAN,
                   cfg : Config, code : {0, 1, 3, 4, 5} ]
    /\ stop \in BOOLEAN /\ exit \in {0, 1, 5, 6, 255}
    /\ told \in {"nothing", "captured", "extracted"}
    /\ runs \in 0..MaxRuns /\ signals \in 0..MaxSignals
    /\ kills \in 0..MaxKills /\ others \in 0..MaxOthers

Plans == {<<"capture">>, <<"extract">>, <<"dhcp">>, <<"capture", "extract", "dhcp">>}

Init ==
    /\ file \in {Default, [device |-> "user", params |-> "user", pcap |-> "user"]}
    /\ mem = Default /\ original = Default /\ before = Default
    /\ journal \in {"none", "other"}
    /\ \/ mode \in {"interactive", "restore", "reset"} /\ plan = <<>>
       \/ mode = "cli" /\ plan \in Plans
    /\ pc = "start" /\ op = "restore" /\ fresh = FALSE /\ restricted = FALSE
    /\ child = NoChild /\ stop = FALSE /\ exit = 255 /\ told = "nothing"
    /\ runs = 0 /\ signals = 0 /\ kills = 0 /\ others = 0

-----------------------------------------------------------------------------
(* The coordinator.                                                        *)
End(code) == pc' = "ended" /\ exit' = code /\ UNCHANGED <<child, op, fresh, original, runs>>
Goto(where) == pc' = where /\ UNCHANGED <<child, op, fresh, original, runs, exit>>

(* run_script: Popen. The file holds what the child is to load.            *)
Spawn(what, isFresh) ==
    /\ runs < MaxRuns /\ runs' = runs + 1
    /\ pc' = "spawned" /\ op' = what /\ fresh' = isFresh
    /\ child' = [NoChild EXCEPT !.at = "gate"]
    /\ original' = mem' /\ UNCHANGED exit

(* main: the command line; options replace what the file says.             *)
Begin ==
    /\ pc = "start"
    /\ \/ mode = "restore" /\ UNCHANGED <<file, mem>> /\ Spawn("restore", FALSE)
       \/ mode # "restore" /\ journal # "none" /\ End(5) /\ UNCHANGED <<file, mem>>
       \/ mode # "restore" /\ journal = "none" /\ file # Default /\ End(6)  \* ConfigError
          /\ UNCHANGED <<file, mem>>
       \/ /\ mode = "interactive" /\ journal = "none"
          /\ mem' \in {file, [file EXCEPT !.device = "chosen"]}
          /\ Goto("menu") /\ UNCHANGED file
       \/ mode = "reset" /\ journal = "none" /\ End(0) /\ mem' = Default /\ file' = mem'
       \/ /\ mode = "cli" /\ journal = "none"
          /\ mem' \in {file, [file EXCEPT !.device = "chosen"]}
          /\ file' = mem' /\ Goto("plan")
    /\ UNCHANGED <<before, journal, mode, plan, restricted, stop, told, signals, kills, others>>

(* Mistakes of the user's that do_capture and do_extract meet before they  *)
(* start a child: a duration that is no number, no file to extract from.   *)
Unusable(what) ==
    \/ what = "capture" /\ mem.device # "default"
    \/ what = "extract" /\ mem.pcap = "default"

(* main: the operations of the command line, one after the other.          *)
Step ==
    /\ pc = "plan" /\ UNCHANGED mem
    /\ \/ plan = <<>> /\ End(0) /\ UNCHANGED <<file, plan>>
       \/ plan # <<>> /\ Unusable(Head(plan)) /\ End(6) /\ UNCHANGED <<file, plan>>
       \/ /\ plan # <<>> /\ Spawn(Head(plan), FALSE) /\ plan' = Tail(plan)
          /\ file' = IF Head(plan) = "dhcp" THEN mem ELSE file
    /\ UNCHANGED <<before, journal, mode, restricted, stop, told, signals, kills, others>>

(* interactive: one look at the journal...                                 *)
Look ==
    /\ pc = "menu" /\ restricted' = (journal # "none") /\ Goto("choose")
    /\ UNCHANGED <<file, mem, before, journal, mode, plan, stop, told, signals, kills, others>>

(* select_interface, then do_capture or do_dhcp.                           *)
SelectAndRun(what) ==
    /\ mem' = [mem EXCEPT !.device = "chosen"] /\ file' = mem'
    /\ Spawn(what, what = "capture")

(* ...for the time the user takes to choose. Ctrl+C here ends the program. *)
Choose ==
    /\ pc = "choose" /\ told' = "nothing" /\ before' = mem
    /\ \/ End(0) /\ UNCHANGED <<file, mem>>
       \/ Goto("menu") /\ UNCHANGED <<file, mem>>     \* view, refused or cancelled
       \/ UNCHANGED <<file, mem>> /\ Spawn("restore", FALSE)
       \/ ~restricted /\ Goto("menu") /\ UNCHANGED file       \* no interface chosen
          /\ mem' = [mem EXCEPT !.device = "chosen"]
       \/ ~restricted /\ SelectAndRun("capture")
       \/ ~restricted /\ SelectAndRun("dhcp")
       \/ ~restricted /\ UNCHANGED <<file, mem>> /\ Spawn("extract", FALSE)
       \/ ~restricted /\ Goto("menu") /\ mem' = Default /\ file' = mem'   \* clear_config
       \/ ~restricted /\ Goto("menu")      \* edit_config
          /\ mem' = [mem EXCEPT !.params = "edited"] /\ file' = mem'
    /\ UNCHANGED <<journal, mode, plan, restricted, stop, signals, kills, others>>

(* after_extract                                                           *)
AfterExtract ==
    /\ pc = "after"
    /\ \/ SelectAndRun("dhcp")
       \/ Goto("menu") /\ UNCHANGED <<file, mem>>
       \/ End(0) /\ UNCHANGED <<file, mem>>
    /\ UNCHANGED <<before, journal, mode, plan, restricted, stop, told, signals, kills, others>>

(* process.wait                                                            *)
Wait ==
    /\ pc = "spawned" /\ stop' = FALSE /\ Goto("wait")
    /\ UNCHANGED <<file, mem, before, journal, mode, plan, restricted, told, signals, kills, others>>

(* Mutant of Failed: a failed operation of the command line is skipped.    *)
FailedGoesOn ==
    /\ child.code # 0
    /\ IF mode = "restore" THEN End(child.code)
       ELSE Goto(IF mode = "cli" THEN "plan" ELSE "menu")
    /\ UNCHANGED <<file, mem, told>>

(* Mutant of Failed: every child's code is passed on.                      *)
FailedPropagates ==
    /\ child.code # 0
    /\ IF mode = "interactive" THEN Goto("menu") ELSE End(child.code)
    /\ UNCHANGED <<file, mem, told>>

(* run_script raises CoordinatorError; only --restore passes the code on.  *)
Failed ==
    /\ child.code # 0
    /\ IF mode = "interactive" THEN Goto("menu")
       ELSE End(IF op = "restore" THEN child.code ELSE 6)
    /\ UNCHANGED <<file, mem, told>>

(* It raises CoordinatorStop.                                              *)
Stopped == child.code = 0 /\ stop /\ End(0) /\ UNCHANGED <<file, mem, told>>

Report ==
    /\ told' = CASE op = "capture" /\ fresh -> "captured" [] op = "extract" -> "extracted"
                 [] OTHER -> "nothing"
    /\ CASE mode = "restore" -> End(0)
         [] mode = "cli" -> Goto("plan")
         [] OTHER -> Goto(IF op = "extract" THEN "after" ELSE "menu")

PutsBack == op = "capture" /\ fresh

(* Mutant of Succeeded: do_extract keeps the coordinator's copy.           *)
SucceededStale ==
    /\ child.code = 0 /\ ~stop /\ Report
    /\ mem' = IF PutsBack THEN original ELSE IF op = "capture" THEN file ELSE mem
    /\ file' = IF PutsBack THEN original ELSE file

(* Mutant of Succeeded: the configuration is put back in memory only.      *)
SucceededUnsaved ==
    /\ child.code = 0 /\ ~stop /\ Report /\ UNCHANGED file
    /\ mem' = IF PutsBack THEN original
              ELSE IF op \in {"capture", "extract"} THEN file ELSE mem

(* It returns: do_capture and do_extract load what the child has saved;    *)
(* from the menu, do_capture puts the configuration back.                  *)
Succeeded ==
    /\ child.code = 0 /\ ~stop /\ Report
    /\ mem' = IF PutsBack THEN original
              ELSE IF op \in {"capture", "extract"} THEN file ELSE mem
    /\ file' = IF PutsBack THEN original ELSE file

Return ==
    /\ pc = "wait" /\ child.at = "exited"
    /\ Failed \/ Stopped \/ Succeeded
    /\ UNCHANGED <<before, journal, mode, plan, restricted, stop, signals, kills, others>>

-----------------------------------------------------------------------------
(* The child.                                                              *)
Exit(code) == child' = [child EXCEPT !.at = "exited", !.code = code]
At(where) == child' = [child EXCEPT !.at = where]

(* main of the child: the journal, then the configuration.                 *)
Gate ==
    /\ child.at = "gate" /\ UNCHANGED <<file, journal>>
    /\ IF op \in {"capture", "dhcp"} /\ journal # "none" THEN Exit(5)
       ELSE child' = [child EXCEPT !.at = "work", !.cfg = file]

(* Config.save in the child, which then returns 0. The sniffer has taken   *)
(* the interrupt that ended it.                                            *)
Save(cfg) ==
    /\ file' = cfg /\ UNCHANGED journal
    /\ child' = [child EXCEPT !.at = "closing", !.hit = @ /\ op # "capture"]

(* _run_capture; extract_profile and merge_extracted.                      *)
Collect ==
    /\ child.at = "work" /\ op \in {"capture", "extract"}
    /\ \/ op = "capture" /\ Save([child.cfg EXCEPT !.pcap = "captured"])
       \/ op = "extract" /\ Save([child.cfg EXCEPT !.params = "extracted", !.pcap = "source"])
       \/ Exit(3) /\ UNCHANGED <<file, journal>>

(* _run_dhcp up to begin, which restores a journal that has appeared; it   *)
(* may fail before and after, with a restore that works or does not.       *)
Dial ==
    /\ child.at = "work" /\ op = "dhcp" /\ file' = child.cfg
    /\ \/ journal' = "own" /\ At("bound")
       \/ Exit(5) /\ journal' \in {journal, "none", "own"}

(* The session ends: released or not, restored or not.                     *)
Hangup ==
    /\ child.at = "bound" /\ UNCHANGED file
    /\ \/ \E code \in {0, 4} : Exit(code) /\ journal' = "none"
       \/ Exit(5) /\ UNCHANGED journal

(* _run_restore                                                            *)
Restore ==
    /\ child.at = "work" /\ op = "restore" /\ UNCHANGED file
    /\ \/ Exit(0) /\ journal' = "none"
       \/ journal # "none" /\ Exit(5) /\ UNCHANGED journal

Close == child.at = "closing" /\ Exit(0) /\ UNCHANGED <<file, journal>>

(* An interrupt that is not handled: only the sniffer and, once begun, the *)
(* dial handle it.                                                         *)
Abort ==
    /\ child.hit /\ child.at \in {"gate", "work", "closing"}
    /\ ~(op = "capture" /\ child.at = "work")
    /\ Exit(1) /\ UNCHANGED <<file, journal>>

ChildStep ==
    /\ Gate \/ Collect \/ Dial \/ Hangup \/ Restore \/ Close \/ Abort
    /\ UNCHANGED <<parent, runs, signals, kills, others>>

-----------------------------------------------------------------------------
(* Ctrl+C reaches both processes.                                          *)
Hit == child' = [child EXCEPT !.hit = child.at \in Running]

(* Mutant of Interrupt: the menu takes Ctrl+C for an answer to its own     *)
(* question, and the child goes on.                                        *)
InterruptToMenu ==
    /\ signals < MaxSignals /\ signals' = signals + 1
    /\ \/ pc = "wait" /\ mode = "interactive" /\ pc' = "menu" /\ UNCHANGED <<stop, exit>>
       \/ /\ pc = "spawned" /\ pc' = "ended" /\ UNCHANGED stop
          /\ exit' = IF mode = "interactive" THEN 0 ELSE 1
    /\ Hit
    /\ UNCHANGED <<file, mem, original, before, journal, mode, plan, op, fresh,
                   restricted, told, runs, kills, others>>

Interrupt ==
    /\ signals < MaxSignals /\ signals' = signals + 1
    /\ \/ pc = "wait" /\ stop' = TRUE /\ UNCHANGED <<pc, exit>>
       \/ /\ pc = "spawned" /\ pc' = "ended" /\ UNCHANGED stop
          /\ exit' = IF mode = "interactive" THEN 0 ELSE 1
    /\ Hit
    /\ UNCHANGED <<file, mem, original, before, journal, mode, plan, op, fresh,
                   restricted, told, runs, kills, others>>

(* The child dies; its watchdog or a later restore deals with the journal. *)
KillChild ==
    /\ child.at \in Running /\ kills < MaxKills /\ kills' = kills + 1
    /\ Exit(1)
    /\ UNCHANGED <<file, journal, parent, runs, signals, others>>

(* Another session leaves a journal; a watchdog or a restore deletes one.  *)
Others ==
    /\ child.at \notin {"bound"}
    /\ \/ journal = "none" /\ journal' = "other" /\ others < MaxOthers /\ others' = others + 1
       \/ journal # "none" /\ journal' = "none" /\ UNCHANGED others
    /\ UNCHANGED <<file, child, parent, runs, signals, kills>>

ParentStep == Begin \/ Step \/ Look \/ Choose \/ AfterExtract \/ Wait \/ Return
Next == ParentStep \/ ChildStep \/ Interrupt \/ KillChild \/ Others

Spec == Init /\ [][Next]_vars

-----------------------------------------------------------------------------
(* While a child runs, the coordinator starts no other one and leaves the  *)
(* configuration alone, however often the user interrupts: both would save *)
(* the file, and the second child would meet the journal of the first.     *)
OneChild == [][child.at \in Running => runs' = runs /\ mem' = mem]_vars

(* After a capture from the menu the file holds what the coordinator had   *)
(* when the user chose it, but for the interface and the duration the user *)
(* has just named; after an extraction it holds the new parameters.        *)
ToldTrue ==
    /\ told = "captured" /\ pc \in {"menu", "choose"} =>
           file = [before EXCEPT !.device = "chosen"]
    /\ told = "extracted" /\ pc = "after" => file.params = "extracted"

(* A dial that follows an extraction uses what it has extracted.           *)
DialsExtracted ==
    told = "extracted" /\ op = "dhcp" /\ child.at \in {"work", "bound"} =>
        child.cfg.params = "extracted"

(* A command line that has waited for its child ends with 0 only after all *)
(* its operations, the last of which ended well, or when the user has      *)
(* stopped one that then ended well; --restore has its child's code.       *)
ExitHonest ==
    [][(pc = "wait" \/ pc = "plan") /\ pc' = "ended" =>
        /\ mode # "interactive" /\ exit' = 0 => child.code = 0 /\ (plan = <<>> \/ stop)
        /\ mode = "restore" => exit' = child.code]_vars
=============================================================================
