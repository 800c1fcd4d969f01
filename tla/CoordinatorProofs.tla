-------------------------- MODULE CoordinatorProofs --------------------------
(***************************************************************************)
(* What Coordinator promises, for any number of children, signals, kills   *)
(* and journals of other sessions.                                         *)
(***************************************************************************)
EXTENDS Coordinator, TLAPS

(* Where the coordinator may be while a child runs.                        *)
ChildHeld == child.at \in Running => pc \in {"spawned", "wait", "ended"}

(* What the command line allows.                                           *)
ModeInv ==
    /\ pc \in {"menu", "choose", "after"} => mode = "interactive"
    /\ mode = "restore" => op = "restore"
    /\ mode # "cli" => plan = <<>>
    /\ mode = "reset" => pc \in {"start", "ended"}
    /\ fresh => mode = "interactive"

(* The codes a restore ends with; on the command line an operation follows *)
(* only one that ended well.                                               *)
CodeInv ==
    /\ op = "restore" => child.code \in {0, 1, 5}
    /\ pc = "start" => child = NoChild /\ told = "nothing"
    /\ pc = "plan" => child.code = 0

(* What an extraction has saved, and where it is on its way to the dial.   *)
ExtractInv ==
    /\ child.at = "bound" => op = "dhcp"
    /\ pc \in {"spawned", "wait"} /\ op = "extract"
       /\ (child.at = "closing" \/ (child.at = "exited" /\ child.code = 0)) =>
           file.params = "extracted"
    /\ told = "extracted" /\ pc \in {"after", "plan"} => mem.params = "extracted"
    /\ told = "extracted" /\ pc = "after" => file.params = "extracted"
    /\ told = "extracted" /\ op = "dhcp" /\ child.at = "gate" => file.params = "extracted"

(* A capture from the menu is reported only there; do_capture's copy is    *)
(* what the coordinator had, but for what the menu item has set.           *)
CapturedInv ==
    /\ told = "captured" =>
           pc \in {"menu", "choose"} /\ file = [before EXCEPT !.device = "chosen"]
    /\ fresh /\ pc \in {"spawned", "wait"} => original = [before EXCEPT !.device = "chosen"]

IInv ==
    TypeOK /\ ChildHeld /\ ModeInv /\ CodeInv /\ ExtractInv /\ CapturedInv /\ DialsExtracted

-----------------------------------------------------------------------------
(* The type invariant in four parts.                                       *)
Children ==
    [ at : Running \cup {"none", "exited"}, hit : BOOLEAN, cfg : Config, code : {0, 1, 3, 4, 5} ]

DataTyped ==
    /\ file \in Config /\ mem \in Config
    /\ original \in Config /\ before \in Config
    /\ plan \in Seq(Ops) /\ child \in Children

ControlTyped ==
    /\ journal \in {"none", "own", "other"}
    /\ mode \in {"interactive", "restore", "reset", "cli"}
    /\ pc \in {"start", "menu", "choose", "after", "plan", "spawned", "wait", "ended"}
    /\ op \in Ops /\ exit \in {0, 1, 5, 6, 255}
    /\ told \in {"nothing", "captured", "extracted"}

FlagsTyped == fresh \in BOOLEAN /\ restricted \in BOOLEAN /\ stop \in BOOLEAN

BoundsTyped ==
    /\ runs \in 0..MaxRuns /\ signals \in 0..MaxSignals
    /\ kills \in 0..MaxKills /\ others \in 0..MaxOthers

LEMMA TypeParts == TypeOK <=> DataTyped /\ ControlTyped /\ FlagsTyped /\ BoundsTyped
BY DEF TypeOK, DataTyped, ControlTyped, FlagsTyped, BoundsTyped, Children

(* The same after a step.                                                  *)
LEMMA TypePartsPrime == TypeOK' <=> DataTyped' /\ ControlTyped' /\ FlagsTyped' /\ BoundsTyped'
BY DEF TypeOK, DataTyped, ControlTyped, FlagsTyped, BoundsTyped, Children

(* Configurations stay configurations, whatever field is written.          *)
LEMMA ConfigFacts ==
    /\ Default \in Config
    /\ [device |-> "user", params |-> "user", pcap |-> "user"] \in Config
    /\ \A c \in Config :
        /\ [c EXCEPT !.device = "chosen"] \in Config
        /\ [c EXCEPT !.params = "edited"] \in Config
        /\ [c EXCEPT !.pcap = "captured"] \in Config
        /\ [c EXCEPT !.params = "extracted", !.pcap = "source"] \in Config
BY DEF Default, Config

(* So do the records of a child.                                           *)
LEMMA ChildFacts ==
    /\ NoChild \in Children /\ NoChild.at = "none" /\ NoChild.code = 0
    /\ [NoChild EXCEPT !.at = "gate"] \in Children
    /\ [NoChild EXCEPT !.at = "gate"].at = "gate"
    /\ \A c \in Children :
        /\ \A h \in BOOLEAN : [c EXCEPT !.hit = h] \in Children
        /\ \A code \in {0, 1, 3, 4, 5} : [c EXCEPT !.at = "exited", !.code = code] \in Children
        /\ [c EXCEPT !.at = "bound"] \in Children
        /\ \A h \in BOOLEAN : [c EXCEPT !.at = "closing", !.hit = h] \in Children
        /\ \A f \in Config : [c EXCEPT !.at = "work", !.cfg = f] \in Children
        /\ c.cfg \in Config /\ c.hit \in BOOLEAN
BY ConfigFacts DEF NoChild, Children, Running

(* Plans are sequences of operations, and so are their rests.              *)
LEMMA PlanFacts ==
    /\ <<>> \in Seq(Ops) /\ \A s \in Plans : s \in Seq(Ops)
    /\ \A s \in Seq(Ops) : s # <<>> => Head(s) \in Ops /\ Tail(s) \in Seq(Ops)
<1>1. <<"capture">> \in Seq(Ops) /\ <<"extract">> \in Seq(Ops) /\ <<"dhcp">> \in Seq(Ops)
    BY DEF Ops
<1>2. <<"capture", "extract", "dhcp">> \in Seq(Ops)
    BY DEF Ops
<1> QED
    BY <1>1, <1>2 DEF Plans

(* The invariant holds at first.                                           *)
LEMMA InitInv == Init => IInv
<1> SUFFICES ASSUME Init PROVE IInv
    OBVIOUS
<1>1. DataTyped
    BY ConfigFacts, ChildFacts, PlanFacts DEF Init, DataTyped
<1>2. ControlTyped
    BY DEF Init, ControlTyped, Ops
<1>3. BoundsTyped
    BY CoordinatorAssumption DEF Init, BoundsTyped
<1>4. child.at = "none" /\ child.code = 0
    BY ChildFacts DEF Init
<1>5. FlagsTyped
    BY DEF Init, FlagsTyped
<1> QED
    BY <1>1, <1>2, <1>3, <1>4, <1>5, TypeParts DEF Init, IInv, ChildHeld, ModeInv, CodeInv,
        ExtractInv, CapturedInv, DialsExtracted, Running

(* A step of the coordinator keeps the types.                              *)
LEMMA ParentTyped ==
    ASSUME IInv, ParentStep PROVE TypeOK'
<1> USE DEF Goto, End, Spawn
<1>a. DataTyped /\ ControlTyped /\ FlagsTyped /\ BoundsTyped
    BY TypeParts DEF IInv
<1>b. /\ child.code \in {0, 1, 3, 4, 5}
      /\ {"capture", "extract", "dhcp", "restore"} = Ops
      /\ plan # <<>> => Head(plan) \in Ops
      /\ op = "restore" => child.code \in {0, 1, 5}
    BY <1>a, PlanFacts DEF DataTyped, Children, Ops, IInv, CodeInv
<1>1. CASE Begin
  <2>1. DataTyped'
    BY <1>a, <1>1, ConfigFacts, ChildFacts, PlanFacts DEF DataTyped, Begin
  <2>2. ControlTyped'
    BY <1>a, <1>b, <1>1 DEF ControlTyped, Begin
  <2>3. BoundsTyped'
    BY <1>a, <1>1, CoordinatorAssumption DEF BoundsTyped, Begin
  <2>4. FlagsTyped'
    BY <1>a, <1>1 DEF FlagsTyped, Begin
  <2> QED
    BY <2>1, <2>2, <2>3, <2>4, TypePartsPrime
<1>2. CASE Step
  <2>1. DataTyped'
    BY <1>a, <1>2, ConfigFacts, ChildFacts, PlanFacts DEF DataTyped, Step, Unusable
  <2>2. ControlTyped'
    BY <1>a, <1>b, <1>2 DEF ControlTyped, Step
  <2>3. BoundsTyped'
    BY <1>a, <1>2, CoordinatorAssumption DEF BoundsTyped, Step
  <2>4. FlagsTyped'
    BY <1>a, <1>2 DEF FlagsTyped, Step
  <2> QED
    BY <2>1, <2>2, <2>3, <2>4, TypePartsPrime
<1>3. CASE Look
  <2>1. DataTyped'
    BY <1>a, <1>3, ConfigFacts, ChildFacts, PlanFacts DEF DataTyped, Look
  <2>2. ControlTyped'
    BY <1>a, <1>b, <1>3 DEF ControlTyped, Look
  <2>3. BoundsTyped'
    BY <1>a, <1>3, CoordinatorAssumption DEF BoundsTyped, Look
  <2>4. FlagsTyped'
    BY <1>a, <1>3 DEF FlagsTyped, Look
  <2> QED
    BY <2>1, <2>2, <2>3, <2>4, TypePartsPrime
<1>4. CASE Choose
  <2>1. DataTyped'
    BY <1>a, <1>4, ConfigFacts, ChildFacts, PlanFacts DEF DataTyped, Choose, SelectAndRun
  <2>2. ControlTyped'
    BY <1>a, <1>b, <1>4 DEF ControlTyped, Choose, SelectAndRun
  <2>3. BoundsTyped'
    BY <1>a, <1>4, CoordinatorAssumption DEF BoundsTyped, Choose, SelectAndRun
  <2>4. FlagsTyped'
    BY <1>a, <1>4 DEF FlagsTyped, Choose, SelectAndRun
  <2> QED
    BY <2>1, <2>2, <2>3, <2>4, TypePartsPrime
<1>5. CASE AfterExtract
  <2>1. DataTyped'
    BY <1>a, <1>5, ConfigFacts, ChildFacts, PlanFacts DEF DataTyped, AfterExtract, SelectAndRun
  <2>2. ControlTyped'
    BY <1>a, <1>b, <1>5 DEF ControlTyped, AfterExtract, SelectAndRun
  <2>3. BoundsTyped'
    BY <1>a, <1>5, CoordinatorAssumption DEF BoundsTyped, AfterExtract, SelectAndRun
  <2>4. FlagsTyped'
    BY <1>a, <1>5 DEF FlagsTyped, AfterExtract, SelectAndRun
  <2> QED
    BY <2>1, <2>2, <2>3, <2>4, TypePartsPrime
<1>6. CASE Wait
  <2>1. DataTyped'
    BY <1>a, <1>6, ConfigFacts, ChildFacts, PlanFacts DEF DataTyped, Wait
  <2>2. ControlTyped'
    BY <1>a, <1>b, <1>6 DEF ControlTyped, Wait
  <2>3. BoundsTyped'
    BY <1>a, <1>6, CoordinatorAssumption DEF BoundsTyped, Wait
  <2>4. FlagsTyped'
    BY <1>a, <1>6 DEF FlagsTyped, Wait
  <2> QED
    BY <2>1, <2>2, <2>3, <2>4, TypePartsPrime
<1>7. CASE Return
  <2>1. DataTyped'
    BY <1>a, <1>7, ConfigFacts, ChildFacts, PlanFacts DEF DataTyped, Return, Failed, Stopped, Succeeded, Report, PutsBack
  <2>2. ControlTyped'
    BY <1>a, <1>b, <1>7 DEF ControlTyped, Return, Failed, Stopped, Succeeded, Report, PutsBack
  <2>3. BoundsTyped'
    BY <1>a, <1>7, CoordinatorAssumption DEF BoundsTyped, Return, Failed, Stopped, Succeeded, Report, PutsBack
  <2>4. FlagsTyped'
    BY <1>a, <1>7 DEF FlagsTyped, Return, Failed, Stopped, Succeeded, Report, PutsBack
  <2> QED
    BY <2>1, <2>2, <2>3, <2>4, TypePartsPrime
<1> QED
    BY <1>1, <1>2, <1>3, <1>4, <1>5, <1>6, <1>7 DEF ParentStep

(* So does every other step.                                               *)
LEMMA ChildTyped ==
    ASSUME IInv, ChildStep \/ Interrupt \/ KillChild \/ Others PROVE TypeOK'
<1>a. DataTyped /\ ControlTyped /\ FlagsTyped /\ BoundsTyped
    BY TypeParts DEF IInv
<1>b. child.cfg \in Config /\ child.hit \in BOOLEAN /\ (child.hit /\ op # "capture") \in BOOLEAN
    BY <1>a, ChildFacts DEF DataTyped
<1>1. CASE ChildStep
  <2>1. file' \in Config
    BY <1>a, <1>b, <1>1, ConfigFacts
        DEF DataTyped, ChildStep, Gate, Collect, Save, Dial, Hangup, Restore, Close, Abort
  <2>2. child' \in Children
    <3>a. ASSUME NEW code \in {0, 1, 3, 4, 5}, Exit(code) PROVE child' \in Children
      BY <1>a, <3>a, ChildFacts DEF DataTyped, Exit
    <3>1. CASE Gate \/ Dial \/ Hangup \/ Restore \/ Close \/ Abort
      <4>1. CASE Gate
        <5>1. Exit(5) \/ child' = [child EXCEPT !.at = "work", !.cfg = file]
          BY <4>1 DEF Gate
        <5>2. [child EXCEPT !.at = "work", !.cfg = file] \in Children
          BY <1>a, ChildFacts DEF DataTyped
        <5> QED
          BY <3>a, <5>1, <5>2
      <4>2. CASE Dial
        BY <1>a, <3>a, <4>2, ChildFacts DEF DataTyped, Dial, At
      <4>3. CASE Hangup
        BY <3>a, <4>3 DEF Hangup
      <4> QED
        BY <3>a, <3>1, <4>1, <4>2, <4>3 DEF Restore, Close, Abort
    <3>2. CASE Collect
      <4>1. ASSUME NEW cfg, Save(cfg) PROVE child' \in Children
        <5> DEFINE h == child.hit /\ op # "capture"
        <5>1. h \in BOOLEAN
          BY <1>b
        <5>2. child' = [child EXCEPT !.at = "closing", !.hit = h]
          BY <4>1, Zenon DEF Save
        <5> HIDE DEF h
        <5> QED
          BY <1>a, <5>1, <5>2, ChildFacts DEF DataTyped
      <4> QED
        BY <3>a, <3>2, <4>1 DEF Collect
    <3> QED
      BY <1>1, <3>1, <3>2 DEF ChildStep
  <2>3. journal' \in {"none", "own", "other"}
    BY <1>a, <1>1
        DEF ControlTyped, ChildStep, Gate, Collect, Save, Dial, Hangup, Restore, Close, Abort
  <2> QED
    BY <1>a, <1>1, <2>1, <2>2, <2>3, TypePartsPrime
        DEF ChildStep, parent, DataTyped, ControlTyped, FlagsTyped, BoundsTyped
<1>2. CASE Interrupt
  <2>1. child' \in Children
    <3> DEFINE h == child.at \in Running
    <3>1. h \in BOOLEAN
      OBVIOUS
    <3>2. child' = [child EXCEPT !.hit = h]
      BY <1>2, Zenon DEF Interrupt, Hit
    <3> HIDE DEF h
    <3> QED
      BY <1>a, <3>1, <3>2, ChildFacts DEF DataTyped
  <2>2. pc' \in {"wait", "ended"} /\ exit' \in {exit, 0, 1} /\ stop' \in {stop, TRUE}
    BY <1>2 DEF Interrupt
  <2>3. signals' \in 0..MaxSignals
    BY <1>a, <1>2, CoordinatorAssumption DEF BoundsTyped, Interrupt
  <2>4. DataTyped'
    BY <1>a, <1>2, <2>1 DEF Interrupt, DataTyped
  <2>5. ControlTyped'
    BY <1>a, <1>2, <2>2 DEF Interrupt, ControlTyped
  <2>6. FlagsTyped'
    BY <1>a, <1>2, <2>2 DEF Interrupt, FlagsTyped
  <2>7. BoundsTyped'
    BY <1>a, <1>2, <2>3 DEF Interrupt, BoundsTyped
  <2> QED
    BY <2>4, <2>5, <2>6, <2>7, TypePartsPrime
<1>3. CASE KillChild
  <2>1. child' \in Children
    BY <1>a, <1>3, ChildFacts DEF DataTyped, KillChild, Exit
  <2>2. kills' \in 0..MaxKills
    BY <1>a, <1>3, CoordinatorAssumption DEF BoundsTyped, KillChild
  <2> QED
    BY <1>a, <1>3, <2>1, <2>2, TypePartsPrime
        DEF KillChild, parent, DataTyped, ControlTyped, FlagsTyped, BoundsTyped
<1>4. CASE Others
  <2>1. journal' \in {"none", "other"} /\ others' \in 0..MaxOthers
    BY <1>a, <1>4, CoordinatorAssumption DEF BoundsTyped, Others
  <2> QED
    BY <1>a, <1>4, <2>1, TypePartsPrime
        DEF Others, parent, DataTyped, ControlTyped, FlagsTyped, BoundsTyped
<1> QED
    BY <1>1, <1>2, <1>3, <1>4

(* The fields of the records that the steps write.                         *)
LEMMA FieldFacts ==
    /\ NoChild.at = "none" /\ NoChild.code = 0
    /\ [NoChild EXCEPT !.at = "gate"].at = "gate" /\ [NoChild EXCEPT !.at = "gate"].code = 0
    /\ \A c \in Config :
        /\ [c EXCEPT !.device = "chosen"].params = c.params
        /\ [c EXCEPT !.params = "extracted", !.pcap = "source"].params = "extracted"
    /\ \A c \in Children :
        /\ \A h : LET d == [c EXCEPT !.hit = h]
                 IN  d.at = c.at /\ d.code = c.code /\ d.cfg = c.cfg
        /\ \A code : LET d == [c EXCEPT !.at = "exited", !.code = code]
                    IN  d.at = "exited" /\ d.code = code
        /\ LET d == [c EXCEPT !.at = "bound"]
           IN  d.at = "bound" /\ d.code = c.code /\ d.cfg = c.cfg
        /\ \A h : LET d == [c EXCEPT !.at = "closing", !.hit = h]
                 IN  d.at = "closing" /\ d.code = c.code
        /\ \A f : LET d == [c EXCEPT !.at = "work", !.cfg = f]
                 IN  d.at = "work" /\ d.code = c.code /\ d.cfg = f
BY DEF NoChild, Children, Config

Kept ==
    ChildHeld /\ ModeInv /\ CodeInv /\ ExtractInv /\ CapturedInv /\ DialsExtracted

(* A child that is started has done nothing yet; the command line and the  *)
(* configuration it is given are all that matters.                         *)
LEMMA SpawnKeeps ==
    ASSUME NEW what \in Ops, NEW isFresh, Spawn(what, isFresh),
           isFresh => mode' = "interactive",
           mode' = "restore" => what = "restore", mode' # "reset",
           mode' # "cli" => plan' = <<>>,
           told' # "captured",
           isFresh => original' = [before' EXCEPT !.device = "chosen"],
           told' = "extracted" /\ what = "dhcp" => file'.params = "extracted"
    PROVE  Kept'
<1>1. /\ child'.at = "gate" /\ child'.code = 0
      /\ pc' = "spawned" /\ op' = what /\ fresh' = isFresh
    BY FieldFacts DEF Spawn
<1> QED
    BY <1>1 DEF Kept, ChildHeld, ModeInv, CodeInv, ExtractInv, CapturedInv, DialsExtracted, Running

(* A step of the coordinator keeps the invariant.                          *)
LEMMA ParentKeeps ==
    ASSUME IInv, ParentStep PROVE Kept'
<1> USE DEF ChildHeld, ModeInv, CodeInv, ExtractInv, CapturedInv, DialsExtracted, Running, Ops
<1>a. Kept /\ DataTyped /\ ControlTyped
    BY TypeParts DEF IInv, Kept
<1>b. /\ [mem EXCEPT !.device = "chosen"].params = mem.params
      /\ plan # <<>> => Head(plan) \in Ops
    BY <1>a, FieldFacts, PlanFacts DEF DataTyped
<1>1. CASE Begin
  <2>1. CASE mode = "restore"
    <3>1. Spawn("restore", FALSE)
      BY <1>1, <2>1, Zenon DEF Begin
    <3>2. pc = "start" /\ told' = told /\ plan' = plan /\ mode' = mode
      BY <1>1 DEF Begin
    <3> QED
      BY <1>a, <2>1, <3>1, <3>2, SpawnKeeps DEF Kept
  <2>2. CASE mode # "restore"
    <3>1. /\ pc = "start" /\ UNCHANGED <<mode, plan, told>>
          /\ End(5) \/ End(6) \/ End(0) \/ (mode = "interactive" /\ Goto("menu")) \/ (mode = "cli" /\ Goto("plan"))
      BY <1>1, <2>2 DEF Begin
    <3>2. child' = child /\ op' = op /\ fresh' = fresh /\ child.at = "none" /\ child.code = 0
      BY <1>a, <3>1, FieldFacts DEF End, Goto, Kept
    <3>3. /\ pc' \in {"ended", "menu", "plan"}
          /\ pc' = "menu" => mode = "interactive"
          /\ pc' = "plan" => mode = "cli"
          /\ told = "nothing"
      BY <1>a, <3>1 DEF Kept, End, Goto
    <3> QED
      BY <1>a, <2>2, <3>1, <3>2, <3>3 DEF Kept
  <2> QED
    BY <2>1, <2>2
<1>2. CASE Step
  <2>1. CASE End(0) \/ End(6)
    <3>1. /\ pc = "plan" /\ pc' = "ended" /\ UNCHANGED <<mode, told>>
          /\ UNCHANGED <<child, op, fresh, plan>>
      BY <1>2, <2>1 DEF Step, End, Spawn
    <3>2. told # "captured"
      BY <1>a, <3>1 DEF Kept
    <3> QED
      BY <1>a, <3>1, <3>2 DEF Kept
  <2>2. CASE plan # <<>> /\ ~(End(0) \/ End(6))
    <3>1. Spawn(Head(plan), FALSE)
      BY <1>2, <2>2, Zenon DEF Step
    <3>2. /\ mode' = mode /\ told' = told /\ pc = "plan" /\ mode = "cli"
          /\ Head(plan) = "dhcp" => file' = mem
      BY <1>2, <1>a, <2>2 DEF Step, Kept
    <3> QED
      BY <1>a, <1>b, <2>2, <3>1, <3>2, SpawnKeeps DEF Kept
  <2> QED
    BY <1>2, <2>1, <2>2 DEF Step
<1>3. CASE Look
    BY <1>3, <1>a DEF Kept, Look, Goto
<1>4. CASE Choose
  <2>1. told' = "nothing" /\ mode' = mode /\ plan' = plan /\ pc = "choose"
    BY <1>4 DEF Choose
  <2>2. mode = "interactive"
    BY <1>a, <2>1 DEF Kept
  <2>3. CASE Goto("menu") \/ End(0)
    BY <1>a, <2>1, <2>2, <2>3 DEF Kept, Goto, End
  <2>4. CASE \E what \in Ops : Spawn(what, FALSE)
    BY <1>a, <2>1, <2>2, <2>4, SpawnKeeps DEF Kept
  <2>5. CASE SelectAndRun("capture")
    <3>1. Spawn("capture", TRUE) /\ mem' = [mem EXCEPT !.device = "chosen"]
      BY <2>5 DEF SelectAndRun
    <3>2. original' = [before' EXCEPT !.device = "chosen"]
      BY <1>4, <3>1 DEF Choose, Spawn
    <3> QED
      BY <1>a, <2>1, <2>2, <3>1, <3>2, SpawnKeeps DEF Kept
  <2>6. SelectAndRun("dhcp") => Spawn("dhcp", FALSE)
    BY DEF SelectAndRun
  <2> QED
    BY <1>4, <2>3, <2>4, <2>5, <2>6 DEF Choose
<1>5. CASE AfterExtract
  <2>1. told' = told /\ mode' = mode /\ plan' = plan /\ pc = "after"
    BY <1>5 DEF AfterExtract
  <2>2. mode = "interactive" /\ told # "captured"
    BY <1>a, <2>1 DEF Kept
  <2>3. CASE Goto("menu") \/ End(0)
    BY <1>a, <2>1, <2>2, <2>3 DEF Kept, Goto, End
  <2>4. CASE SelectAndRun("dhcp")
    <3>1. Spawn("dhcp", FALSE) /\ file' = [mem EXCEPT !.device = "chosen"]
      BY <2>4 DEF SelectAndRun
    <3> QED
      BY <1>a, <1>b, <2>1, <2>2, <3>1, SpawnKeeps DEF Kept
  <2> QED
    BY <1>5, <2>3, <2>4 DEF AfterExtract
<1>6. CASE Wait
    BY <1>6, <1>a DEF Kept, Wait, Goto
<1>7. CASE Return
  <2>1. pc = "wait" /\ child.at = "exited" /\ UNCHANGED <<mode, plan>>
    BY <1>7 DEF Return
  <2>2. UNCHANGED <<child, op, fresh, original, before>> /\ pc' \in {"ended", "menu", "plan", "after"}
    BY <1>7 DEF Return, Failed, Stopped, Succeeded, Report, End, Goto
  <2>3. ChildHeld' /\ DialsExtracted'
    BY <1>a, <2>1, <2>2 DEF Kept
  <2>4. CASE Failed
    <3>1. /\ told' = told /\ told # "captured"
          /\ pc' = IF mode = "interactive" THEN "menu" ELSE "ended"
      BY <1>a, <2>1, <2>4 DEF Failed, End, Goto, Kept
    <3> QED
      BY <1>a, <2>1, <2>2, <2>3, <3>1 DEF Kept
  <2>5. CASE Stopped
    <3>1. told' = told /\ told # "captured" /\ pc' = "ended"
      BY <1>a, <2>1, <2>5 DEF Stopped, End, Kept
    <3> QED
      BY <1>a, <2>1, <2>2, <2>3, <3>1 DEF Kept
  <2>6. CASE Succeeded
    <3>1. /\ child.code = 0
          /\ op = "extract" => mem' = file /\ file' = file
          /\ PutsBack => file' = original
      BY <2>6 DEF Succeeded, PutsBack
    <3>2. told' = IF PutsBack THEN "captured" ELSE IF op = "extract" THEN "extracted" ELSE "nothing"
      BY <2>6 DEF Succeeded, Report, PutsBack
    <3>3. /\ mode = "restore" => pc' = "ended"
          /\ mode = "cli" => pc' = "plan"
          /\ mode \notin {"restore", "cli"} => pc' = IF op = "extract" THEN "after" ELSE "menu"
      BY <2>6 DEF Succeeded, Report, End, Goto
    <3>4. op = "extract" => file.params = "extracted"
      BY <1>a, <2>1, <3>1 DEF Kept
    <3>5. mode # "reset"
      BY <1>a, <2>1 DEF Kept
    <3> QED
      BY <1>a, <2>1, <2>2, <2>3, <3>1, <3>2, <3>3, <3>4, <3>5 DEF Kept, PutsBack, ControlTyped
  <2> QED
    BY <1>7, <2>4, <2>5, <2>6 DEF Return
<1> QED
    BY <1>1, <1>2, <1>3, <1>4, <1>5, <1>6, <1>7 DEF ParentStep
(* A step of the child keeps the invariant.                                *)
LEMMA ChildKeeps ==
    ASSUME IInv, ChildStep PROVE Kept'
<1> USE DEF ChildHeld, ModeInv, CodeInv, ExtractInv, CapturedInv, DialsExtracted, Running, Ops
<1>a. Kept /\ child \in Children /\ file \in Config /\ ControlTyped
    BY TypeParts DEF IInv, Kept, DataTyped
<1>b. UNCHANGED <<mem, original, before, mode, plan, pc, op, fresh, told>>
    BY DEF ChildStep, parent
<1>c. child.at \in Running
    BY DEF ChildStep, Gate, Collect, Dial, Hangup, Restore, Close, Abort
<1>d. pc \in {"spawned", "wait", "ended"} /\ told # "captured"
    BY <1>a, <1>c DEF Kept
<1>e. ASSUME NEW code, Exit(code),
             op = "restore" => code \in {0, 1, 5}, op = "extract" /\ code = 0 => child.at = "closing",
             op = "extract" => file' = file
      PROVE  Kept'
  <2>1. child'.at = "exited" /\ child'.code = code
    BY <1>a, <1>e, FieldFacts DEF Exit
  <2> QED
    BY <1>a, <1>b, <1>d, <1>e, <2>1 DEF Kept
<1>1. CASE Gate
  <2>1. CASE Exit(5)
    BY <1>1, <1>e, <2>1 DEF Gate
  <2>2. CASE child' = [child EXCEPT !.at = "work", !.cfg = file]
    <3>1. child'.at = "work" /\ child'.code = child.code /\ child'.cfg = file
      BY <1>a, <2>2, FieldFacts
    <3>2. child.at = "gate" /\ file' = file
      BY <1>1 DEF Gate
    <3> QED
      BY <1>a, <1>b, <1>d, <3>1, <3>2 DEF Kept
  <2> QED
    BY <1>1, <2>1, <2>2 DEF Gate
<1>2. CASE Collect
  <2>1. CASE Exit(3) /\ file' = file
    BY <1>2, <1>e, <2>1 DEF Collect
  <2>2. ASSUME NEW cfg, Save(cfg), op = "extract" => cfg.params = "extracted", op # "restore"
        PROVE  Kept'
    <3>1. child'.at = "closing" /\ child'.code = child.code
      BY <1>a, <2>2, FieldFacts DEF Save
    <3>2. file' = cfg
      BY <2>2 DEF Save
    <3> QED
      BY <1>a, <1>b, <1>d, <2>2, <3>1, <3>2 DEF Kept
  <2>3. child.cfg \in Config
    BY <1>a, ChildFacts
  <2>4. CASE op = "capture" /\ Save([child.cfg EXCEPT !.pcap = "captured"])
    BY <2>2, <2>4
  <2>5. CASE op = "extract"
             /\ Save([child.cfg EXCEPT !.params = "extracted", !.pcap = "source"])
    BY <2>2, <2>3, <2>5, FieldFacts
  <2> QED
    BY <1>2, <2>1, <2>4, <2>5 DEF Collect
<1>3. CASE Dial
  <2>1. op = "dhcp" /\ child.at = "work"
    BY <1>3 DEF Dial
  <2>2. CASE Exit(5)
    BY <1>e, <2>1, <2>2
  <2>3. CASE At("bound")
    <3>1. child'.at = "bound" /\ child'.code = child.code /\ child'.cfg = child.cfg
      BY <1>a, <2>3, FieldFacts DEF At
    <3> QED
      BY <1>a, <1>b, <1>d, <2>1, <3>1 DEF Kept
  <2> QED
    BY <1>3, <2>2, <2>3 DEF Dial
<1>4. CASE Hangup
    BY <1>4, <1>a, <1>e DEF Hangup, Kept
<1>5. CASE Restore
    BY <1>5, <1>e DEF Restore
<1>6. CASE Close
    BY <1>6, <1>e DEF Close
<1>7. CASE Abort
    BY <1>7, <1>e DEF Abort
<1> QED
    BY <1>1, <1>2, <1>3, <1>4, <1>5, <1>6, <1>7 DEF ChildStep

(* So does every other step.                                               *)
LEMMA OthersKeep ==
    ASSUME IInv, Interrupt \/ KillChild \/ Others \/ UNCHANGED vars PROVE Kept'
<1> USE DEF ChildHeld, ModeInv, CodeInv, ExtractInv, CapturedInv, DialsExtracted, Running, Ops
<1>a. Kept /\ child \in Children /\ ControlTyped
    BY TypeParts DEF IInv, Kept, DataTyped
<1>1. CASE Interrupt
  <2>1. child'.at = child.at /\ child'.code = child.code /\ child'.cfg = child.cfg
    BY <1>a, <1>1, FieldFacts DEF Interrupt, Hit
  <2>2. /\ UNCHANGED <<file, mem, original, before, mode, plan, op, fresh, told>>
        /\ pc \in {"spawned", "wait"} /\ pc' \in {pc, "ended"}
    BY <1>1 DEF Interrupt
  <2> QED
    BY <1>a, <2>1, <2>2 DEF Kept
<1>2. CASE KillChild
  <2>1. child'.at = "exited" /\ child'.code = 1
    BY <1>a, <1>2, FieldFacts DEF KillChild, Exit
  <2>2. UNCHANGED <<file, mem, original, before, mode, plan, pc, op, fresh, told>> /\ child.at \in Running
    BY <1>2 DEF KillChild, parent
  <2> QED
    BY <1>a, <2>1, <2>2 DEF Kept
<1>3. CASE Others \/ UNCHANGED vars
  <2>1. UNCHANGED <<file, mem, original, before, mode, plan, pc, op, fresh, told, child>>
    BY <1>3 DEF Others, vars, parent
  <2> QED
    BY <1>a, <2>1 DEF Kept
<1> QED
    BY <1>1, <1>2, <1>3

(* The invariant is inductive.                                             *)
LEMMA StepInv == IInv /\ [Next]_vars => IInv'
<1> SUFFICES ASSUME IInv, [Next]_vars PROVE IInv'
    OBVIOUS
<1>1. TypeOK'
  <2>1. CASE UNCHANGED vars
    <3>1. TypeOK
      BY DEF IInv
    <3> QED
      BY <2>1, <3>1 DEF TypeOK, vars, parent
  <2> QED
    BY <2>1, ParentTyped, ChildTyped DEF Next
<1>2. Kept'
    BY ParentKeeps, ChildKeeps, OthersKeep DEF Next
<1> QED
    BY <1>1, <1>2 DEF IInv, Kept

(* Hence it always holds.                                                  *)
LEMMA Invariant == Spec => []IInv
    BY InitInv, StepInv, PTL DEF Spec

-----------------------------------------------------------------------------
(* The coordinator and its child stay in the states described: in          *)
(* particular the code of every child and the coordinator's own code are   *)
(* among those the programs return.                                        *)
THEOREM CoordinatorTypeCorrect == Spec => []TypeOK
<1>1. IInv => TypeOK
    BY DEF IInv
<1> QED
    BY <1>1, Invariant, PTL

(* Whatever the child, the user and other sessions do in between, a        *)
(* capture from the menu that is reported leaves in the file what the      *)
(* coordinator had when the user chose it, but for the interface and the   *)
(* duration the menu item has set; a reported extraction is in the file.   *)
THEOREM ToldIsTrue == Spec => []ToldTrue
<1>1. IInv => ToldTrue
    BY DEF IInv, CapturedInv, ExtractInv, ToldTrue
<1> QED
    BY <1>1, Invariant, PTL

(* A dial that follows an extraction uses what it has extracted.           *)
THEOREM ExtractedIsDialled == Spec => []DialsExtracted
<1>1. IInv => DialsExtracted
    BY DEF IInv
<1> QED
    BY <1>1, Invariant, PTL

(* While a child runs, run_script starts no other one and the coordinator  *)
(* leaves its configuration alone, for any number of interrupts.           *)
THEOREM OneChildAtATime == Spec => OneChild
<1>1. IInv /\ [Next]_vars => [child.at \in Running => runs' = runs /\ mem' = mem]_vars
  <2> SUFFICES ASSUME IInv, Next, child.at \in Running PROVE runs' = runs /\ mem' = mem
    OBVIOUS
  <2>1. pc \in {"spawned", "wait", "ended"} /\ child.at # "exited"
    BY DEF IInv, ChildHeld, Running
  <2>2. CASE ParentStep
    BY <2>1, <2>2
        DEF ParentStep, Begin, Step, Look, Choose, AfterExtract, Wait, Return, Goto
  <2>3. CASE ChildStep \/ Interrupt \/ KillChild \/ Others
    BY <2>3 DEF ChildStep, Interrupt, KillChild, Others, parent
  <2> QED
    BY <2>2, <2>3 DEF Next
<1> QED
    BY <1>1, Invariant, PTL DEF Spec, OneChild

(* What the command line returns to its caller is what its operations came *)
(* to: 0 only when the last of them ended well, and the code of a restore. *)
THEOREM TruthfulExit == Spec => ExitHonest
<1>1. IInv /\ [Next]_vars =>
        [(pc = "wait" \/ pc = "plan") /\ pc' = "ended" =>
            /\ mode # "interactive" /\ exit' = 0 => child.code = 0 /\ (plan = <<>> \/ stop)
            /\ mode = "restore" => exit' = child.code]_vars
  <2> SUFFICES ASSUME IInv, Next, pc = "wait" \/ pc = "plan", pc' = "ended"
               PROVE  /\ mode # "interactive" /\ exit' = 0 =>
                          child.code = 0 /\ (plan = <<>> \/ stop)
                      /\ mode = "restore" => exit' = child.code
    OBVIOUS
  <2>1. ModeInv /\ CodeInv
    BY DEF IInv
  <2>2. CASE Step
    BY <2>1, <2>2 DEF Step, End, Spawn, ModeInv, CodeInv
  <2>3. CASE Return
    <3>1. CASE Failed
      BY <2>1, <3>1 DEF Failed, End, Goto, ModeInv
    <3>2. CASE Stopped
      BY <2>1, <3>2 DEF Stopped, End
    <3>3. CASE Succeeded
      BY <2>1, <3>3 DEF Succeeded, Report, End, Goto, ModeInv
    <3> QED
      BY <2>3, <3>1, <3>2, <3>3 DEF Return
  <2>4. CASE ChildStep \/ KillChild \/ Others
    BY <2>4 DEF ChildStep, KillChild, Others, parent
  <2>5. CASE Interrupt
    BY <2>5 DEF Interrupt
  <2> QED
    BY <2>2, <2>3, <2>4, <2>5
        DEF Next, ParentStep, Begin, Look, Choose, AfterExtract, Wait, Goto
<1> QED
    BY <1>1, Invariant, PTL DEF Spec, ExitHonest
=============================================================================
