--------------------------- MODULE LauncherProofs ---------------------------
(***************************************************************************)
(* Launchers that run one after the other install the runtime as a whole,  *)
(* for any number of launches, failures and kills.                         *)
(***************************************************************************)
EXTENDS Launcher, FiniteSetTheorems, TLAPS

(* With one launcher at a time, nobody removes what a launcher has staged. *)
OneLive == atOnce = 1 => \A l, m \in Launchers : Live(l) /\ Live(m) => l = m

(* What the staging directory holds while it is filled.                    *)
Filled ==
    atOnce = 1 => \A l \in Launchers :
        /\ pc[l] = "scapy" => {"dir", "python"} \subseteq staging[l]
        /\ pc[l] \in {"disown", "move"} => Whole \subseteq staging[l]

(* Owner and process number are gone before the directory moves.           *)
Disowned == \A l \in Launchers : pc[l] = "move" => staging[l] \subseteq Whole

IInv == TypeOK /\ OneLive /\ Disowned /\ Filled /\ RuntimeComplete /\ OkHonest

(* The invariant holds at first: nothing is installed and nobody runs.     *)
LEMMA InitInv == Init => IInv
BY LauncherAssumption DEF Init, IInv, TypeOK, OneLive, Disowned, Filled, RuntimeComplete,
    OkHonest,    Live, Over, States, Parts, Whole, At

(* A launcher starts only where fewer run than the user runs at a time.    *)
LEMMA StartsAlone ==
    ASSUME TypeOK, atOnce = 1, NEW l \in Launchers, Start(l)
    PROVE  \A m \in Launchers : ~Live(m)
<1> DEFINE S == {m \in Launchers : Live(m)}
<1>1. IsFiniteSet(S)
    BY LauncherAssumption, FS_Subset
<1>2. Cardinality(S) \in Nat /\ Cardinality(S) < 1
    BY <1>1, FS_CardinalityType DEF Start
<1>3. Cardinality(S) = 0
    BY <1>2
<1>4. S = {}
    BY <1>1, <1>3, FS_EmptySet
<1> QED
    BY <1>4

(* Every step of a launcher keeps the types.                               *)
LEMMA TypesKept ==
    ASSUME TypeOK, Disowned, NEW l \in Launchers, Start(l) \/ Advance(l) \/ Kill(l) \/ Age(l),
           atOnce' = atOnce
    PROVE  TypeOK'
<1> USE DEF TypeOK, Goto, At, bounds
<1>1. CASE Start(l)
    BY <1>1 DEF Start, States
<1>2. CASE Clean(l)
    BY <1>2 DEF Clean, Done, States
<1>3. CASE Read(l)
    BY <1>3 DEF Read, Done, States
<1>4. CASE Delete(l)
    BY <1>4, LauncherAssumption DEF Delete, Done, States
<1>5. CASE Find(l) \/ Tidy(l) \/ Check(l)
    BY <1>5 DEF Find, Tidy, Check, States, Over
<1>6. CASE Make(l) \/ Own(l) \/ Sign(l) \/ Unpack(l)
    BY <1>6 DEF Make, Own, Sign, Unpack, Add, States, Parts
<1>7. CASE Disown(l)
    BY <1>7 DEF Disown, States
<1>11. CASE Move(l)
  <2>1. runtime' \in {staging[l], runtime \cup {"nested"}} /\ staging[l] \subseteq Whole
    BY <1>11 DEF Move, Disowned
  <2>2. runtime' \in SUBSET (Whole \cup {"nested"})
    BY <2>1
  <2> QED
    BY <1>11, <2>2 DEF Move, States
<1>8. CASE Fail(l)
    BY <1>8, LauncherAssumption DEF Fail, States, Over
<1>9. CASE Kill(l)
    BY <1>9, LauncherAssumption DEF Kill, States, Over
<1>10. CASE Age(l)
    BY <1>10 DEF Age
<1> QED
    BY <1>1, <1>2, <1>3, <1>4, <1>5, <1>6, <1>7, <1>8, <1>9, <1>10, <1>11 DEF Advance
(* Where the steps leave the launchers, their directories and the runtime. *)
LEMMA StepKeeps ==
    ASSUME IInv, NEW l \in Launchers, Start(l) \/ Advance(l) \/ Kill(l) \/ Age(l),
           atOnce' = atOnce
    PROVE  IInv'
<1> USE DEF Goto, At, bounds
<1>1. TypeOK'
    BY TypesKept DEF IInv
<1>a. TypeOK /\ OneLive /\ Disowned /\ Filled /\ RuntimeComplete /\ OkHonest
    BY DEF IInv
<1>2. OneLive'
  <2>1. CASE Start(l) /\ atOnce = 1
    <3>1. \A m \in Launchers : ~Live(m)
      BY <1>a, <2>1, StartsAlone
    <3>2. \A m \in Launchers \ {l} : ~Live(m)'
      BY <1>a, <2>1, <3>1 DEF Start, Live, TypeOK
    <3> QED
      BY <3>2 DEF OneLive
  <2>2. CASE Advance(l) \/ Kill(l) \/ Age(l)
    <3>1. (\A m \in Launchers : Live(m)' => Live(m)) /\ pc' = [pc EXCEPT ![l] = pc'[l]]
      BY <1>a, <2>2 DEF Advance, Clean, Read, Delete, Done, Find, Make, Own, Sign, Unpack, Add,
          Disown, Move, Tidy, Check, Fail, Kill, Age, Live, Over, TypeOK, Missing, Installing
    <3> QED
      BY <1>a, <3>1 DEF OneLive
  <2> QED
    BY <2>1, <2>2 DEF OneLive
<1>b. ASSUME Start(l) \/ Clean(l) \/ Read(l) \/ Find(l) \/ Kill(l) \/ Age(l)
      PROVE  /\ UNCHANGED <<runtime, staging>>
             /\ pc' = [pc EXCEPT ![l] = pc'[l]]
             /\ pc'[l] \notin {"scapy", "disown", "move"} \/ pc' = pc
             /\ pc'[l] = "ok" => "python" \in runtime \/ pc' = pc
    BY <1>a, <1>b DEF Start, Clean, Read, Done, Find, Kill, Age, Over, TypeOK
<1>3. Disowned'
  <2>1. CASE Start(l) \/ Clean(l) \/ Read(l) \/ Find(l) \/ Kill(l) \/ Age(l)
    BY <1>a, <1>b, <2>1 DEF Disowned, TypeOK
  <2>2. CASE Delete(l)
    BY <1>a, <2>2 DEF Disowned, TypeOK, Delete, Done
  <2>3. CASE Make(l) \/ Own(l) \/ Sign(l) \/ Unpack(l)
    BY <1>a, <2>3 DEF Disowned, TypeOK, Make, Own, Sign, Unpack, Add
  <2>4. CASE Disown(l) \/ Move(l) \/ Tidy(l) \/ Check(l) \/ Fail(l)
    BY <1>a, <2>4 DEF Disowned, TypeOK, Disown, Move, Tidy, Check, Fail, Parts, Whole
  <2> QED
    BY <2>1, <2>2, <2>3, <2>4 DEF Advance
<1>4. Filled'
  <2>1. CASE Start(l) \/ Clean(l) \/ Read(l) \/ Find(l) \/ Kill(l) \/ Age(l)
    BY <1>a, <1>b, <2>1 DEF Filled, TypeOK
  <2>2. CASE Delete(l)
    BY <1>a, <2>2 DEF Filled, OneLive, Live, Over, TypeOK, Delete, Done
  <2>3. CASE Make(l) \/ Own(l) \/ Sign(l) \/ Unpack(l)
    BY <1>a, <2>3 DEF Filled, TypeOK, Make, Own, Sign, Unpack, Add, Whole
  <2>4. CASE Disown(l) \/ Move(l) \/ Tidy(l) \/ Check(l) \/ Fail(l)
    BY <1>a, <2>4 DEF Filled, TypeOK, Disown, Move, Tidy, Check, Fail, Whole
  <2> QED
    BY <2>1, <2>2, <2>3, <2>4 DEF Advance
<1>5. RuntimeComplete' /\ OkHonest'
  <2>1. CASE Start(l) \/ Clean(l) \/ Read(l) \/ Find(l) \/ Kill(l) \/ Age(l)
    BY <1>a, <1>b, <2>1 DEF RuntimeComplete, OkHonest, TypeOK
  <2>2. CASE Move(l)
    BY <1>a, <2>2 DEF RuntimeComplete, OkHonest, Filled, TypeOK, Move
  <2>3. CASE ~Move(l) /\ Advance(l)
    <3>1. runtime' = runtime
      BY <2>3 DEF Advance, Clean, Read, Delete, Find, Make, Own, Sign, Unpack, Add,
          Disown, Tidy, Check, Fail
    <3>2. \A m \in Launchers : pc'[m] = "ok" => pc[m] = "ok" \/ "python" \in runtime
      BY <1>a, <2>3 DEF Advance, Clean, Read, Delete, Done, Find, Make, Own, Sign, Unpack, Add,
          Disown, Tidy, Check, Fail, TypeOK
    <3> QED
      BY <1>a, <3>1, <3>2 DEF RuntimeComplete, OkHonest
  <2> QED
    BY <2>1, <2>2, <2>3
<1> QED
    BY <1>1, <1>2, <1>3, <1>4, <1>5 DEF IInv

(* The invariant is inductive.                                             *)
LEMMA Inductive == IInv /\ [Next]_vars => IInv'
<1>1. CASE Next
    BY <1>1, StepKeeps DEF Next
<1>2. CASE UNCHANGED vars
    BY <1>2 DEF vars, IInv, TypeOK, OneLive, Disowned, Filled, RuntimeComplete, OkHonest, Live, At
<1> QED
    BY <1>1, <1>2

(* The launchers and their directories stay in the states described: what  *)
(* has been moved into place holds no owner of a staging directory.        *)
THEOREM LauncherTypeCorrect == Spec => []TypeOK
<1>1. IInv => TypeOK
    BY DEF IInv
<1> QED
    BY <1>1, InitInv, Inductive, PTL DEF Spec

(* Launchers one after the other install the runtime as a whole, for       *)
(* Move-Item renames the directory and nobody removes a part of it before: *)
(* any number of launches, failures and kills.                             *)
THEOREM RuntimeIsComplete == Spec => []RuntimeComplete
<1>1. IInv => RuntimeComplete
    BY DEF IInv
<1> QED
    BY <1>1, InitInv, Inductive, PTL DEF Spec

(* A launcher goes on only with a Python, for no launcher removes one that *)
(* has been found or installed.                                            *)
THEOREM OkIsHonest == Spec => []OkHonest
<1>1. IInv => OkHonest
    BY DEF IInv
<1> QED
    BY <1>1, InitInv, Inductive, PTL DEF Spec
=============================================================================
