--------------------------- MODULE SafeStartProofs ---------------------------
(***************************************************************************)
(* Proofs about SafeStart, for any set-ups and kinds: no controller is     *)
(* built twice, and a kind that was never there stops no gated provider.   *)
(***************************************************************************)
EXTENDS SafeStart, TLAPS

\* A controller is a row and a position in its set-up.
LEMMA ControllerParts ==
    \A c \in Controllers : /\ c[1] \in Rows
                           /\ c[2] \in DOMAIN Built(c[1])
                           /\ c = <<c[1], c[2]>>
  BY DEF Controllers

LEMMA PositionsAreNumbers ==
    \A r \in Rows : /\ DOMAIN Built(r) = 1..Len(Built(r))
                    /\ Len(Built(r)) \in Nat
  BY SafeStartAssumption DEF SafeStartAssumption

\* What the gate does keeps the jobs' type.
LEMMA ReleaseType ==
    ASSUME TypeOK, NEW kinds, NEW rows
    PROVE  /\ Release(kinds, rows) \in [Rows -> Nat]
           /\ \A r \in Rows : /\ Release(kinds, rows)[r] <= Len(Built(r)) + 1
                              /\ Release(kinds, rows)[r] >= job[r]
                              /\ job[r] = 0 /\ Release(kinds, rows)[r] > 0
                                    => Gates(r) \subseteq kinds
  BY PositionsAreNumbers DEF TypeOK, Release

LEMMA VerbCount == Len(Verbs) = 3
  BY DEF Verbs

\* What a new process begins with has its type.
LEMMA StartTypes ==
    /\ 1 \in 1..(Len(Setups) + 1)
    /\ 1 \in 1..Len(Verbs)
    /\ [r \in Rows |-> 0] \in [Rows -> Nat]
    /\ \A r \in Rows : [q \in Rows |-> 0][r] <= Len(Built(r)) + 1
  <1>1. Len(Setups) \in Nat
    BY SafeStartAssumption DEF SafeStartAssumption
  <1>2. 1 \in 1..(Len(Setups) + 1)
    BY <1>1
  <1>3. \A r \in Rows : [q \in Rows |-> 0][r] <= Len(Built(r)) + 1
    BY PositionsAreNumbers
  <1> QED BY <1>2, <1>3, VerbCount

LEMMA InitType == Init => TypeOK
  <1> SUFFICES ASSUME Init PROVE TypeOK
    OBVIOUS
  <1>1. crd \in [Kinds -> {"absent", "unready", "established"}]
    BY DEF Init
  <1>2. next \in 1..(Len(Setups) + 1) /\ verb \in 1..Len(Verbs)
    BY StartTypes DEF Init
  <1>3. job \in [Rows -> Nat] /\ \A r \in Rows : job[r] <= Len(Built(r)) + 1
    BY StartTypes DEF Init
  <1>4. faults \in 0..MaxFaults /\ edits \in 0..MaxEdits
    BY SafeStartAssumption DEF Init, SafeStartAssumption
  <1> QED BY <1>1, <1>2, <1>3, <1>4 DEF Init, TypeOK

\* The end of the process leaves every variable of it with its type.
LEMMA ExitType ==
    ASSUME TypeOK, Exit, UNCHANGED world, faults' \in 0..MaxFaults
    PROVE  TypeOK'
  <1>2. next' \in 1..(Len(Setups) + 1) /\ verb' \in 1..Len(Verbs)
    BY StartTypes DEF Exit
  <1>3. job' \in [Rows -> Nat] /\ \A r \in Rows : job'[r] <= Len(Built(r)) + 1
    BY StartTypes DEF Exit
  <1> QED BY <1>2, <1>3 DEF Exit, TypeOK, world

LEMMA NextType ==
    ASSUME TypeOK, [Next]_vars
    PROVE  TypeOK'
  <1> USE DEF TypeOK, world, main, gate, manager
  <1>1. CASE Boot
    BY <1>1 DEF Boot
  <1>2. CASE Check
    <2>1. verb' \in 1..Len(Verbs)
      BY <1>2, VerbCount DEF Check
    <2> QED BY <1>2, <2>1 DEF Check
  <1>3. CASE Register
    <2>1. next + 1 \in 1..(Len(Setups) + 1)
      BY <1>3, SafeStartAssumption DEF Register, Rows
    <2> QED BY <1>3, <2>1, ReleaseType DEF Register
  <1>4. CASE Call
    BY <1>4, PositionsAreNumbers DEF Call
  <1>5. CASE Return
    BY <1>5 DEF Return, Rows
  <1>6. CASE Start
    BY <1>6 DEF Start
  <1>7. ASSUME NEW r \in Rows, Build(r)
        PROVE  TypeOK'
    <2>1. <<r, job[r]>> \in Controllers
      BY <1>7 DEF Build, Building, Controllers
    <2>2. job[r] + 1 <= Len(Built(r)) + 1
      BY <1>7, PositionsAreNumbers DEF Build, Building
    <2>3. job' \in [Rows -> Nat] /\ \A q \in Rows : job'[q] <= Len(Built(q)) + 1
      BY <1>7, <2>2 DEF Build
    <2>4. added' \in SUBSET Controllers /\ synced' \in SUBSET added'
      BY <1>7, <2>1 DEF Build
    <2> QED BY <1>7, <2>3, <2>4 DEF Build
  <1>8. ASSUME NEW r \in Rows, BuildFails(r)
        PROVE  TypeOK'
    <2>1. faults' \in 0..MaxFaults
      BY <1>8, SafeStartAssumption DEF BuildFails, SafeStartAssumption
    <2>2. CASE gated
      <3>0. job' = [job EXCEPT ![r] = Len(Built(r)) + 1] /\ Len(Built(r)) + 1 \in Nat
        BY <1>8, <2>2, PositionsAreNumbers DEF BuildFails, Fails
      <3>1. job' \in [Rows -> Nat] /\ \A q \in Rows : job'[q] <= Len(Built(q)) + 1
        BY <3>0
      <3> QED BY <1>8, <2>1, <2>2, <3>1 DEF BuildFails, Fails
    <2>3. CASE ~gated
      BY <1>8, <2>1, <2>3, ExitType DEF BuildFails, Fails
    <2> QED BY <2>2, <2>3
  <1>9. ASSUME NEW c \in added, Sync(c)
        PROVE  TypeOK'
    BY <1>9 DEF Sync
  <1>10. ASSUME NEW c \in added, Timeout(c)
         PROVE  TypeOK'
    BY <1>10, ExitType DEF Timeout
  <1>11. CASE SyncWatcher
    BY <1>11 DEF SyncWatcher
  <1>12. CASE WatcherTimeout
    BY <1>12, ExitType DEF WatcherTimeout
  <1>13. ASSUME NEW k \in Kinds, WatchCRD(k)
         PROVE  TypeOK'
    BY <1>13, ReleaseType DEF WatchCRD
  <1>14. CASE Kill
    <2>1. faults' \in 0..MaxFaults
      BY <1>14, SafeStartAssumption DEF Kill, SafeStartAssumption
    <2> QED BY <1>14, <2>1, ExitType DEF Kill
  <1>15. ASSUME NEW k \in Kinds, NEW state \in {"absent", "unready", "established"},
                ChangeCRD(k, state)
         PROVE  TypeOK'
    BY <1>15, SafeStartAssumption DEF ChangeCRD, Edit, SafeStartAssumption
  <1>16. ASSUME NEW verbs \in Grants, Permit(verbs)
         PROVE  TypeOK'
    BY <1>16, SafeStartAssumption DEF Permit, Edit, SafeStartAssumption
  <1>17. CASE UNCHANGED vars
    BY <1>17 DEF vars
  <1> QED
    BY <1>1, <1>2, <1>3, <1>4, <1>5, <1>6, <1>7, <1>8, <1>9, <1>10, <1>11,
       <1>12, <1>13, <1>14, <1>15, <1>16, <1>17 DEF Next, Main

\* Every variable keeps its type, for any set-ups, kinds and bounds.
THEOREM TypeCorrect == Spec => []TypeOK
  BY InitType, NextType, PTL DEF Spec

-----------------------------------------------------------------------------
LEMMA InitGatekeeping == Init => Gatekeeping
  BY DEF Init, Gatekeeping

\* A process that has ended has begun nothing.
LEMMA ExitGatekeeping == Exit => Gatekeeping'
  BY DEF Exit, Gatekeeping

LEMMA NextGatekeeping ==
    ASSUME TypeOK, Gatekeeping, [Next]_vars
    PROVE  Gatekeeping'
  <1> USE DEF Gatekeeping, world, main, gate, manager
  <1>c. \A c \in added : c[1] \in Rows /\ c[2] \in Nat
    BY ControllerParts, PositionsAreNumbers DEF TypeOK
  <1>1. CASE Boot
    BY <1>1 DEF Boot
  <1>2. CASE Check
    BY <1>2 DEF Check
  <1>3. CASE Register
    <2>0. \A r \in Rows : /\ job'[r] \in Nat
                          /\ job'[r] >= job[r]
                          /\ job[r] = 0 /\ job'[r] > 0 => Gates(r) \subseteq satisfied
      BY <1>3, ReleaseType DEF Register
    <2>k. /\ added' = added /\ gated' = gated /\ seen' = seen
          /\ \A r \in Rows : job[r] \in Nat
      BY <1>3 DEF Register, TypeOK
    <2>1. \A r \in Rows : gated' /\ job'[r] > 0 => Gates(r) \subseteq seen'
      <3> SUFFICES ASSUME NEW r \in Rows, gated, job'[r] > 0
                   PROVE  Gates(r) \subseteq seen
        BY <2>k
      <3>1. CASE job[r] = 0
        BY <2>0, <3>1
      <3>2. CASE job[r] > 0
        BY <3>2
      <3> QED BY <2>k, <3>1, <3>2
    <2>2. \A c \in added' : c[2] < job'[c[1]]
      <3> SUFFICES ASSUME NEW c \in added PROVE c[2] < job'[c[1]]
        BY <2>k
      <3>1. c[1] \in Rows /\ c[2] \in Nat /\ c[2] < job[c[1]]
        BY <1>c
      <3> QED BY <2>0, <2>k, <3>1
    <2> QED BY <1>3, <2>1, <2>2 DEF Register
  <1>4. CASE Call
    BY <1>4, <1>c DEF Call, TypeOK
  <1>5. CASE Return
    BY <1>5 DEF Return
  <1>6. CASE Start
    BY <1>6 DEF Start
  <1>7. ASSUME NEW r \in Rows, Build(r)
        PROVE  Gatekeeping'
    <2>1. job[r] > 0 /\ proc \notin {"down", "check"}
      BY <1>7, PositionsAreNumbers DEF Build, Building, TypeOK
    <2>2. \A c \in added' : c[2] < job'[c[1]]
      BY <1>7, <1>c DEF Build, TypeOK
    <2> QED BY <1>7, <2>1, <2>2 DEF Build, TypeOK
  <1>8. ASSUME NEW r \in Rows, BuildFails(r)
        PROVE  Gatekeeping'
    <2>1. CASE ~gated
      BY <1>8, <2>1, ExitGatekeeping DEF BuildFails, Fails
    <2>2. CASE gated
      <3>1. job[r] > 0 /\ proc \notin {"down", "check"}
        BY <1>8, PositionsAreNumbers DEF BuildFails, Building, TypeOK
      <3>2. \A c \in added : c[1] = r => c[2] < Len(Built(r)) + 1
        BY ControllerParts, PositionsAreNumbers DEF TypeOK
      <3>3. \A c \in added' : c[2] < job'[c[1]]
        BY <1>8, <2>2, <3>2, <1>c DEF BuildFails, Fails, TypeOK
      <3> QED BY <1>8, <2>2, <3>1, <3>3 DEF BuildFails, Fails, TypeOK
    <2> QED BY <2>1, <2>2
  <1>9. ASSUME NEW c \in added, Sync(c)
        PROVE  Gatekeeping'
    BY <1>9 DEF Sync
  <1>10. ASSUME NEW c \in added, Timeout(c)
         PROVE  Gatekeeping'
    BY <1>10, ExitGatekeeping DEF Timeout
  <1>11. CASE SyncWatcher
    BY <1>11 DEF SyncWatcher, AwaitsCRDs
  <1>12. CASE WatcherTimeout
    BY <1>12, ExitGatekeeping DEF WatcherTimeout
  <1>13. ASSUME NEW k \in Kinds, WatchCRD(k)
         PROVE  Gatekeeping'
    <2>1. satisfied' \subseteq seen' /\ seen \subseteq seen'
      BY <1>13 DEF WatchCRD
    <2>2. proc = "run" /\ proc' = "run"
      BY <1>13 DEF WatchCRD
    <2>3. \A r \in Rows : gated' /\ job'[r] > 0 => Gates(r) \subseteq seen'
      BY <1>13, <2>1, ReleaseType DEF WatchCRD, TypeOK
    <2>4. \A c \in added' : c[2] < job'[c[1]]
      BY <1>13, <1>c, ReleaseType DEF WatchCRD, TypeOK
    <2> QED BY <2>1, <2>2, <2>3, <2>4
  <1>14. CASE Kill
    BY <1>14, ExitGatekeeping DEF Kill
  <1>15. ASSUME NEW k \in Kinds, NEW state \in {"absent", "unready", "established"},
                ChangeCRD(k, state)
         PROVE  Gatekeeping'
    BY <1>15 DEF ChangeCRD, Edit
  <1>16. ASSUME NEW verbs \in Grants, Permit(verbs)
         PROVE  Gatekeeping'
    BY <1>16 DEF Permit, Edit
  <1>17. CASE UNCHANGED vars
    BY <1>17 DEF vars
  <1> QED
    BY <1>1, <1>2, <1>3, <1>4, <1>5, <1>6, <1>7, <1>8, <1>9, <1>10, <1>11,
       <1>12, <1>13, <1>14, <1>15, <1>16, <1>17 DEF Next, Main

\* The inductive invariant of the gate, for any set-ups.
THEOREM GateIsKept == Spec => []Gatekeeping
  BY TypeCorrect, InitGatekeeping, NextGatekeeping, PTL DEF Spec

\* Where no two controllers share a name, no set-up is refused one: none is
\* run twice in a process, however kinds come and go.
THEOREM NamesStayFree == DistinctNames => (Spec => []NamesAreFree)
  <1> SUFFICES ASSUME DistinctNames PROVE Spec => []NamesAreFree
    OBVIOUS
  <1>1. ASSUME TypeOK, Gatekeeping
        PROVE  NamesAreFree
    <2> SUFFICES ASSUME NEW r \in Rows, Building(r), Taken(r)
                 PROVE  FALSE
      BY DEF NamesAreFree
    <2>1. <<r, job[r]>> \in Controllers
      BY DEF Building, Controllers
    <2>2. PICK c \in added : Name(c) = Name(<<r, job[r]>>)
      BY DEF Taken
    <2>3. c = <<r, job[r]>>
      BY <1>1, <2>1, <2>2 DEF DistinctNames, TypeOK
    <2>4. c[2] < job[c[1]]
      BY <1>1 DEF Gatekeeping
    <2> QED BY <1>1, <2>3, <2>4 DEF TypeOK
  <1> QED BY <1>1, TypeCorrect, GateIsKept, PTL

\* Where every gate names what its controllers watch, a gated provider stops
\* only for a kind it has seen established.
THEOREM LostKindsStop == GatesCover => (Spec => OnlyLostKindsStop)
  <1> SUFFICES ASSUME GatesCover PROVE Spec => OnlyLostKindsStop
    OBVIOUS
  <1>1. ASSUME TypeOK, Gatekeeping, NEW c \in added, Timeout(c), gated
        PROVE  \E k \in Watches(c) : k \in seen /\ ~Established(k)
    <2>1. c[1] \in Rows /\ c[2] \in Nat
      BY <1>1, ControllerParts, PositionsAreNumbers DEF TypeOK
    <2>2. job[c[1]] > 0
      BY <1>1, <2>1, ControllerParts, PositionsAreNumbers DEF Gatekeeping, TypeOK
    <2>3. Watches(c) \subseteq seen
      BY <1>1, <2>1, <2>2 DEF GatesCover, Gatekeeping, TypeOK
    <2>4. PICK k \in Watches(c) : ~Established(k)
      BY <1>1 DEF Timeout
    <2> QED BY <2>3, <2>4
  <1>2. TypeOK /\ Gatekeeping
          => [\A c \in added : Timeout(c) /\ gated
                 => \E k \in Watches(c) : k \in seen /\ ~Established(k)]_vars
    BY <1>1
  <1> QED BY <1>2, TypeCorrect, GateIsKept, PTL DEF OnlyLostKindsStop
=============================================================================
