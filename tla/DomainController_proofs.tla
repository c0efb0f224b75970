------------------------- MODULE DomainController_proofs -----------------------
(***************************************************************************)
(* For any number of concurrent queries and edits, wherever the edits      *)
(* fall: the next query serves the manifest on disk or reports its error,  *)
(* unless the registry goes by a later manifest's mtime.                   *)
(***************************************************************************)
EXTENDS DomainController, TLAPS

\* The initial states satisfy the invariant.
LEMMA ReloadInit == Init => ReloadInv
<1> SUFFICES ASSUME Init PROVE ReloadInv
  OBVIOUS
<1>1. TypeOK
  BY ControllerAssumption
     DEF Init, TypeOK, Manifest, Finding, Kind, NoDomains, NoError, ZeroTime
<1>2. /\ disk.ver = 1
      /\ \/ disk.kind = "good" /\ reg = disk /\ modTime = 1
         \/ disk.kind = "none" /\ reg = NoDomains /\ modTime = 0
  <2>1. CASE disk = [kind |-> "good", ver |-> 1]
    <3>1. disk.kind = "good" /\ disk.ver = 1
      BY <2>1
    <3>2. reg = disk /\ modTime = 1
      BY <3>1 DEF Init
    <3> QED
      BY <3>1, <3>2
  <2>2. CASE disk = [kind |-> "none", ver |-> 1]
    BY <2>2 DEF Init, ZeroTime
  <2> QED
    BY <2>1, <2>2 DEF Init
<1>3. reg.ver <= disk.ver /\ (reg.ver = disk.ver => reg = disk /\ disk.kind \in Valid)
  BY <1>2 DEF NoDomains, Valid
<1>4. \A p \in Proc : QueryOK(p)
  <2> SUFFICES ASSUME NEW p \in Proc PROVE QueryOK(p)
    OBVIOUS
  <2>1. pc[p] = "idle" /\ stamp[p] = 0 /\ fresh[p] = FALSE /\ alone[p] = FALSE
    BY DEF Init, ZeroTime
  <2>2. ~fresh[p] /\ ~alone[p]
    BY <2>1
  <2> QED
    BY <1>2, <2>1, <2>2 DEF QueryOK
<1>5. NextQueryServesCurrent /\ NextQueryReportsError
  BY DEF Init, NextQueryServesCurrent, NextQueryReportsError
<1> QED
  BY <1>1, <1>2, <1>3, <1>4, <1>5 DEF ReloadInv

\* Starting a query preserves the invariant.
LEMMA ReloadQuery ==
    ASSUME ReloadInv, NEW p \in Proc, Query(p)
    PROVE  ReloadInv'
<1> USE DEF ReloadInv
<1>1. TypeOK'
  BY ControllerAssumption DEF Query, Begins, Goto, cache, TypeOK, Manifest, Finding,
     Kind, Valid, NoDomains, NoError, ZeroTime, QueryOK
<1>2. /\ disk'.ver >= 1 /\ modTime' <= disk'.ver
      /\ reg'.ver <= disk'.ver
      /\ reg'.ver = disk'.ver => reg' = disk' /\ disk'.kind \in Valid
  BY DEF Query, cache, QueryOK, TypeOK, Manifest, Finding, Valid, NoDomains, ZeroTime
<1>3. \A q \in Proc : QueryOK(q)'
  BY DEF Query, Begins, Goto, cache, QueryOK, TypeOK, Valid, Kind, Manifest, Finding,
     ZeroTime
<1>4. NextQueryServesCurrent'
  BY DEF Query, Begins, Goto, cache, QueryOK, NextQueryServesCurrent, Current,
     Mislabelled, TypeOK, Valid, Kind, Manifest, Finding, NoDomains, ZeroTime
<1>5. NextQueryReportsError'
  BY DEF Query, Begins, Goto, cache, QueryOK, NextQueryReportsError, Mislabelled,
     TypeOK, Valid, Kind, Manifest, Finding, NoDomains, NoError, ZeroTime
<1> QED
  BY <1>1, <1>2, <1>3, <1>4, <1>5

\* Finding the mtime preserves the invariant.
LEMMA ReloadStat ==
    ASSUME ReloadInv, NEW p \in Proc, Stat(p)
    PROVE  ReloadInv'
<1> USE DEF ReloadInv
<1>1. TypeOK'
  BY ControllerAssumption DEF Stat, Undisturbed, Goto, cache, TypeOK, Manifest, Finding,
     Kind, Valid, NoDomains, NoError, ZeroTime, QueryOK
<1>2. /\ disk'.ver >= 1 /\ modTime' <= disk'.ver
      /\ reg'.ver <= disk'.ver
      /\ reg'.ver = disk'.ver => reg' = disk' /\ disk'.kind \in Valid
  BY DEF Stat, cache, QueryOK, TypeOK, Manifest, Finding, Valid, NoDomains, ZeroTime
<1>3. \A q \in Proc : QueryOK(q)'
  BY DEF Stat, Undisturbed, Goto, cache, QueryOK, TypeOK, Valid, Kind, Manifest,
     Finding, ZeroTime
<1>4. NextQueryServesCurrent'
  BY DEF Stat, Undisturbed, Goto, cache, QueryOK, NextQueryServesCurrent, Current,
     Mislabelled, TypeOK, Valid, Kind, Manifest, Finding, NoDomains, ZeroTime
<1>5. NextQueryReportsError'
  BY DEF Stat, Undisturbed, Goto, cache, QueryOK, NextQueryReportsError, Mislabelled,
     TypeOK, Valid, Kind, Manifest, Finding, NoDomains, NoError, ZeroTime
<1> QED
  BY <1>1, <1>2, <1>3, <1>4, <1>5

\* A failed stat preserves the invariant.
LEMMA ReloadStatFails ==
    ASSUME ReloadInv, NEW p \in Proc, StatFails(p)
    PROVE  ReloadInv'
<1> USE DEF ReloadInv
<1>1. TypeOK'
  BY ControllerAssumption DEF StatFails, Disturbs, Goto, cache, TypeOK, Manifest,
     Finding, Kind, Valid, NoDomains, NoError, ZeroTime, QueryOK
<1>2. /\ disk'.ver >= 1 /\ modTime' <= disk'.ver
      /\ reg'.ver <= disk'.ver
      /\ reg'.ver = disk'.ver => reg' = disk' /\ disk'.kind \in Valid
  BY DEF StatFails, cache, QueryOK, TypeOK, Manifest, Finding, Valid, NoDomains,
     ZeroTime
<1>3. \A q \in Proc : QueryOK(q)'
  BY DEF StatFails, Disturbs, Goto, cache, QueryOK, TypeOK, Valid, Kind, Manifest,
     Finding, ZeroTime
<1>4. NextQueryServesCurrent'
  BY DEF StatFails, Disturbs, Goto, cache, QueryOK, NextQueryServesCurrent, Current,
     Mislabelled, TypeOK, Valid, Kind, Manifest, Finding, NoDomains, ZeroTime
<1>5. NextQueryReportsError'
  BY DEF StatFails, Disturbs, Goto, cache, QueryOK, NextQueryReportsError, Mislabelled,
     TypeOK, Valid, Kind, Manifest, Finding, NoDomains, NoError, ZeroTime
<1> QED
  BY <1>1, <1>2, <1>3, <1>4, <1>5

\* Looking for an empty registry preserves the invariant.
LEMMA ReloadCheckEmpty ==
    ASSUME ReloadInv, NEW p \in Proc, CheckEmpty(p)
    PROVE  ReloadInv'
<1> USE DEF ReloadInv
<1>1. TypeOK'
  BY ControllerAssumption DEF CheckEmpty, Undisturbed, Goto, cache, TypeOK, Manifest,
     Finding, Kind, Valid, NoDomains, NoError, ZeroTime, QueryOK
<1>2. /\ disk'.ver >= 1 /\ modTime' <= disk'.ver
      /\ reg'.ver <= disk'.ver
      /\ reg'.ver = disk'.ver => reg' = disk' /\ disk'.kind \in Valid
  BY DEF CheckEmpty, cache, QueryOK, TypeOK, Manifest, Finding, Valid, NoDomains,
     ZeroTime
<1>3. \A q \in Proc : QueryOK(q)'
  BY DEF CheckEmpty, Undisturbed, Goto, cache, QueryOK, TypeOK, Valid, Kind, Manifest,
     Finding, ZeroTime
<1>4. NextQueryServesCurrent'
  BY DEF CheckEmpty, Undisturbed, Goto, cache, QueryOK, NextQueryServesCurrent, Current,
     Mislabelled, TypeOK, Valid, Kind, Manifest, Finding, NoDomains, ZeroTime
<1>5. NextQueryReportsError'
  BY DEF CheckEmpty, Undisturbed, Goto, cache, QueryOK, NextQueryReportsError,
     Mislabelled, TypeOK, Valid, Kind, Manifest, Finding, NoDomains, NoError, ZeroTime
<1> QED
  BY <1>1, <1>2, <1>3, <1>4, <1>5

\* Comparing the mtimes preserves the invariant.
LEMMA ReloadCompare ==
    ASSUME ReloadInv, NEW p \in Proc, Compare(p)
    PROVE  ReloadInv'
<1> USE DEF ReloadInv
<1>1. TypeOK'
  BY ControllerAssumption DEF Compare, Undisturbed, Goto, cache, TypeOK, Manifest,
     Finding, Kind, Valid, NoDomains, NoError, ZeroTime, QueryOK
<1>2. /\ disk'.ver >= 1 /\ modTime' <= disk'.ver
      /\ reg'.ver <= disk'.ver
      /\ reg'.ver = disk'.ver => reg' = disk' /\ disk'.kind \in Valid
  BY DEF Compare, cache, QueryOK, TypeOK, Manifest, Finding, Valid, NoDomains, ZeroTime
<1>3. \A q \in Proc : QueryOK(q)'
  BY DEF Compare, Undisturbed, Goto, cache, QueryOK, TypeOK, Valid, Kind, Manifest,
     Finding, ZeroTime
<1>4. NextQueryServesCurrent'
  BY DEF Compare, Undisturbed, Goto, cache, QueryOK, NextQueryServesCurrent, Current,
     Mislabelled, TypeOK, Valid, Kind, Manifest, Finding, NoDomains, ZeroTime
<1>5. NextQueryReportsError'
  BY DEF Compare, Undisturbed, Goto, cache, QueryOK, NextQueryReportsError, Mislabelled,
     TypeOK, Valid, Kind, Manifest, Finding, NoDomains, NoError, ZeroTime
<1> QED
  BY <1>1, <1>2, <1>3, <1>4, <1>5

\* Reading the manifest preserves the invariant.
LEMMA ReloadReadFile ==
    ASSUME ReloadInv, NEW p \in Proc, ReadFile(p)
    PROVE  ReloadInv'
<1> USE DEF ReloadInv
<1>1. TypeOK'
  BY ControllerAssumption DEF ReadFile, Undisturbed, Goto, cache, TypeOK, Manifest,
     Finding, Kind, Valid, NoDomains, NoError, ZeroTime, QueryOK
<1>2. /\ disk'.ver >= 1 /\ modTime' <= disk'.ver
      /\ reg'.ver <= disk'.ver
      /\ reg'.ver = disk'.ver => reg' = disk' /\ disk'.kind \in Valid
  BY DEF ReadFile, cache, QueryOK, TypeOK, Manifest, Finding, Valid, NoDomains, ZeroTime
<1>3. \A q \in Proc : QueryOK(q)'
  BY DEF ReadFile, Undisturbed, Goto, cache, QueryOK, TypeOK, Valid, Kind, Manifest,
     Finding, ZeroTime
<1>4. NextQueryServesCurrent'
  BY DEF ReadFile, Undisturbed, Goto, cache, QueryOK, NextQueryServesCurrent, Current,
     Mislabelled, TypeOK, Valid, Kind, Manifest, Finding, NoDomains, ZeroTime
<1>5. NextQueryReportsError'
  BY DEF ReadFile, Undisturbed, Goto, cache, QueryOK, NextQueryReportsError,
     Mislabelled, TypeOK, Valid, Kind, Manifest, Finding, NoDomains, NoError, ZeroTime
<1> QED
  BY <1>1, <1>2, <1>3, <1>4, <1>5

\* A failed read preserves the invariant.
LEMMA ReloadReadFails ==
    ASSUME ReloadInv, NEW p \in Proc, ReadFails(p)
    PROVE  ReloadInv'
<1> USE DEF ReloadInv
<1>1. TypeOK'
  BY ControllerAssumption DEF ReadFails, Disturbs, Goto, cache, TypeOK, Manifest,
     Finding, Kind, Valid, NoDomains, NoError, ZeroTime, QueryOK
<1>2. /\ disk'.ver >= 1 /\ modTime' <= disk'.ver
      /\ reg'.ver <= disk'.ver
      /\ reg'.ver = disk'.ver => reg' = disk' /\ disk'.kind \in Valid
  BY DEF ReadFails, cache, QueryOK, TypeOK, Manifest, Finding, Valid, NoDomains,
     ZeroTime
<1>3. \A q \in Proc : QueryOK(q)'
  <2> SUFFICES ASSUME NEW q \in Proc PROVE QueryOK(q)'
    OBVIOUS
  <2>0. QueryOK(q) /\ QueryOK(p)
    OBVIOUS
  <2>1. CASE q = p
    <3>1. ~fresh'[p] /\ ~alone'[p]
      BY DEF ReadFails, Disturbs
    <3>2. pc'[p] = "fail" /\ read'[p] = [kind |-> "io", ver |-> disk.ver]
      BY DEF ReadFails, Goto, TypeOK
    <3>3. stamp' = stamp /\ disk' = disk /\ disk.ver \in Nat
      BY DEF ReadFails, TypeOK, Manifest
    <3> QED
      BY <2>0, <2>1, <3>1, <3>2, <3>3 DEF QueryOK
  <2>2. CASE q # p
    <3>1. fresh'[q] = fresh[q] /\ alone'[q] = alone[q]
      BY <2>2 DEF ReadFails, Disturbs, TypeOK
    <3>2. pc'[q] = pc[q] /\ read'[q] = read[q]
      BY <2>2 DEF ReadFails, Goto, TypeOK
    <3>3. stamp' = stamp /\ disk' = disk /\ seen' = seen
      BY DEF ReadFails
    <3> QED
      BY <2>0, <3>1, <3>2, <3>3 DEF QueryOK
  <2> QED
    BY <2>1, <2>2
<1>4. NextQueryServesCurrent'
  BY DEF ReadFails, Disturbs, Goto, cache, QueryOK, NextQueryServesCurrent, Current,
     Mislabelled, TypeOK, Valid, Kind, Manifest, Finding, NoDomains, ZeroTime
<1>5. NextQueryReportsError'
  BY DEF ReadFails, Disturbs, Goto, cache, QueryOK, NextQueryReportsError, Mislabelled,
     TypeOK, Valid, Kind, Manifest, Finding, NoDomains, NoError, ZeroTime
<1> QED
  BY <1>1, <1>2, <1>3, <1>4, <1>5

\* The second stat preserves the invariant.
LEMMA ReloadRestat ==
    ASSUME ReloadInv, NEW p \in Proc, Restat(p)
    PROVE  ReloadInv'
<1> USE DEF ReloadInv
<1>1. TypeOK'
  BY ControllerAssumption DEF Restat, Undisturbed, Goto, cache, TypeOK, Manifest,
     Finding, Kind, Valid, NoDomains, NoError, ZeroTime, QueryOK
<1>2. /\ disk'.ver >= 1 /\ modTime' <= disk'.ver
      /\ reg'.ver <= disk'.ver
      /\ reg'.ver = disk'.ver => reg' = disk' /\ disk'.kind \in Valid
  BY DEF Restat, cache, QueryOK, TypeOK, Manifest, Finding, Valid, NoDomains, ZeroTime
<1>3. \A q \in Proc : QueryOK(q)'
  BY DEF Restat, Undisturbed, Goto, cache, QueryOK, TypeOK, Valid, Kind, Manifest,
     Finding, ZeroTime
<1>4. NextQueryServesCurrent'
  BY DEF Restat, Undisturbed, Goto, cache, QueryOK, NextQueryServesCurrent, Current,
     Mislabelled, TypeOK, Valid, Kind, Manifest, Finding, NoDomains, ZeroTime
<1>5. NextQueryReportsError'
  BY DEF Restat, Undisturbed, Goto, cache, QueryOK, NextQueryReportsError, Mislabelled,
     TypeOK, Valid, Kind, Manifest, Finding, NoDomains, NoError, ZeroTime
<1> QED
  BY <1>1, <1>2, <1>3, <1>4, <1>5

\* A failed second stat preserves the invariant.
LEMMA ReloadRestatFails ==
    ASSUME ReloadInv, NEW p \in Proc, RestatFails(p)
    PROVE  ReloadInv'
<1> USE DEF ReloadInv
<1>1. TypeOK'
  BY ControllerAssumption DEF RestatFails, Undisturbed, Goto, cache, TypeOK, Manifest,
     Finding, Kind, Valid, NoDomains, NoError, ZeroTime, QueryOK
<1>2. /\ disk'.ver >= 1 /\ modTime' <= disk'.ver
      /\ reg'.ver <= disk'.ver
      /\ reg'.ver = disk'.ver => reg' = disk' /\ disk'.kind \in Valid
  BY DEF RestatFails, cache, QueryOK, TypeOK, Manifest, Finding, Valid, NoDomains,
     ZeroTime
<1>3. \A q \in Proc : QueryOK(q)'
  BY DEF RestatFails, Undisturbed, Goto, cache, QueryOK, TypeOK, Valid, Kind, Manifest,
     Finding, ZeroTime
<1>4. NextQueryServesCurrent'
  BY DEF RestatFails, Undisturbed, Goto, cache, QueryOK, NextQueryServesCurrent,
     Current, Mislabelled, TypeOK, Valid, Kind, Manifest, Finding, NoDomains, ZeroTime
<1>5. NextQueryReportsError'
  BY DEF RestatFails, Undisturbed, Goto, cache, QueryOK, NextQueryReportsError,
     Mislabelled, TypeOK, Valid, Kind, Manifest, Finding, NoDomains, NoError, ZeroTime
<1> QED
  BY <1>1, <1>2, <1>3, <1>4, <1>5

\* Installing a registry, late or not, preserves the invariant.
LEMMA ReloadInstall ==
    ASSUME ReloadInv, NEW p \in Proc, Install(p)
    PROVE  ReloadInv'
<1> USE DEF ReloadInv
<1>1. TypeOK'
  BY ControllerAssumption DEF Install, Stores, Goto, cache, TypeOK, Manifest, Finding,
     Kind, Valid, NoDomains, NoError, ZeroTime, QueryOK
<1>2. /\ disk'.ver >= 1 /\ modTime' <= disk'.ver
      /\ reg'.ver <= disk'.ver
      /\ reg'.ver = disk'.ver => reg' = disk' /\ disk'.kind \in Valid
  BY DEF Install, cache, QueryOK, TypeOK, Manifest, Finding, Valid, NoDomains, ZeroTime
<1>3. \A q \in Proc : QueryOK(q)'
  BY DEF Install, Stores, Goto, cache, QueryOK, TypeOK, Valid, Kind, Manifest, Finding,
     ZeroTime
<1>4. NextQueryServesCurrent'
  BY DEF Install, Stores, Goto, cache, QueryOK, NextQueryServesCurrent, Current,
     Mislabelled, TypeOK, Valid, Kind, Manifest, Finding, NoDomains, ZeroTime
<1>5. NextQueryReportsError'
  BY DEF Install, Stores, Goto, cache, QueryOK, NextQueryReportsError, Mislabelled,
     TypeOK, Valid, Kind, Manifest, Finding, NoDomains, NoError, ZeroTime
<1> QED
  BY <1>1, <1>2, <1>3, <1>4, <1>5

\* Emptying the registry, late or not, preserves the invariant.
LEMMA ReloadClear ==
    ASSUME ReloadInv, NEW p \in Proc, Clear(p)
    PROVE  ReloadInv'
<1> USE DEF ReloadInv
<1>1. TypeOK'
  BY ControllerAssumption DEF Clear, Stores, Goto, cache, TypeOK, Manifest, Finding,
     Kind, Valid, NoDomains, NoError, ZeroTime, QueryOK
<1>2. /\ disk'.ver >= 1 /\ modTime' <= disk'.ver
      /\ reg'.ver <= disk'.ver
      /\ reg'.ver = disk'.ver => reg' = disk' /\ disk'.kind \in Valid
  BY DEF Clear, cache, QueryOK, TypeOK, Manifest, Finding, Valid, NoDomains, ZeroTime
<1>3. \A q \in Proc : QueryOK(q)'
  BY DEF Clear, Stores, Goto, cache, QueryOK, TypeOK, Valid, Kind, Manifest, Finding,
     ZeroTime
<1>4. NextQueryServesCurrent'
  BY DEF Clear, Stores, Goto, cache, QueryOK, NextQueryServesCurrent, Current,
     Mislabelled, TypeOK, Valid, Kind, Manifest, Finding, NoDomains, ZeroTime
<1>5. NextQueryReportsError'
  BY DEF Clear, Stores, Goto, cache, QueryOK, NextQueryReportsError, Mislabelled,
     TypeOK, Valid, Kind, Manifest, Finding, NoDomains, NoError, ZeroTime
<1> QED
  BY <1>1, <1>2, <1>3, <1>4, <1>5

\* Recording an error, late or not, preserves the invariant.
LEMMA ReloadFail ==
    ASSUME ReloadInv, NEW p \in Proc, Fail(p)
    PROVE  ReloadInv'
<1> USE DEF ReloadInv
<1>1. TypeOK'
  BY ControllerAssumption DEF Fail, Stores, Goto, cache, TypeOK, Manifest, Finding,
     Kind, Valid, NoDomains, NoError, ZeroTime, QueryOK
<1>2. /\ disk'.ver >= 1 /\ modTime' <= disk'.ver
      /\ reg'.ver <= disk'.ver
      /\ reg'.ver = disk'.ver => reg' = disk' /\ disk'.kind \in Valid
  BY DEF Fail, cache, QueryOK, TypeOK, Manifest, Finding, Valid, NoDomains, ZeroTime
<1>3. \A q \in Proc : QueryOK(q)'
  BY DEF Fail, Stores, Goto, cache, QueryOK, TypeOK, Valid, Kind, Manifest, Finding,
     ZeroTime
<1>4. NextQueryServesCurrent'
  BY DEF Fail, Stores, Goto, cache, QueryOK, NextQueryServesCurrent, Current,
     Mislabelled, TypeOK, Valid, Kind, Manifest, Finding, NoDomains, ZeroTime
<1>5. NextQueryReportsError'
  BY DEF Fail, Stores, Goto, cache, QueryOK, NextQueryReportsError, Mislabelled, TypeOK,
     Valid, Kind, Manifest, Finding, NoDomains, NoError, ZeroTime
<1> QED
  BY <1>1, <1>2, <1>3, <1>4, <1>5

\* Answering preserves the invariant.
LEMMA ReloadServe ==
    ASSUME ReloadInv, NEW p \in Proc, Serve(p)
    PROVE  ReloadInv'
<1> USE DEF ReloadInv
<1>1. TypeOK'
  BY ControllerAssumption DEF Serve, Disturbs, Goto, cache, TypeOK, Manifest, Finding,
     Kind, Valid, NoDomains, NoError, ZeroTime, QueryOK
<1>2. /\ disk'.ver >= 1 /\ modTime' <= disk'.ver
      /\ reg'.ver <= disk'.ver
      /\ reg'.ver = disk'.ver => reg' = disk' /\ disk'.kind \in Valid
  BY DEF Serve, cache, QueryOK, TypeOK, Manifest, Finding, Valid, NoDomains, ZeroTime
<1>3. \A q \in Proc : QueryOK(q)'
  BY DEF Serve, Disturbs, Goto, cache, QueryOK, TypeOK, Valid, Kind, Manifest, Finding,
     ZeroTime
<1>4. NextQueryServesCurrent'
  BY DEF Serve, Disturbs, Goto, cache, QueryOK, NextQueryServesCurrent, Current,
     Mislabelled, TypeOK, Valid, Kind, Manifest, Finding, NoDomains, ZeroTime
<1>5. NextQueryReportsError'
  BY DEF Serve, Disturbs, Goto, cache, QueryOK, NextQueryReportsError, Mislabelled,
     TypeOK, Valid, Kind, Manifest, Finding, NoDomains, NoError, ZeroTime
<1> QED
  BY <1>1, <1>2, <1>3, <1>4, <1>5

\* An edit, wherever it falls, preserves the invariant.
LEMMA ReloadEdit ==
    ASSUME ReloadInv, Edit
    PROVE  ReloadInv'
<1> USE DEF ReloadInv
<1>1. PICK k \in Kind : disk' = [kind |-> k, ver |-> disk.ver + 1]
  BY DEF Edit
<1>2. disk.ver \in 0 .. MaxEdits + 1 /\ disk.ver <= MaxEdits
  BY DEF Edit, TypeOK, Manifest
<1>3. TypeOK'
  BY <1>1, <1>2, ControllerAssumption DEF Edit, Disturbs, cache, TypeOK, Manifest
<1>4. disk'.ver >= 1 /\ modTime' <= disk'.ver /\ reg'.ver < disk'.ver
  BY <1>1, <1>2 DEF Edit, cache, TypeOK, Manifest
<1>5. \A p \in Proc : QueryOK(p)'
  <2> SUFFICES ASSUME NEW p \in Proc PROVE QueryOK(p)'
    OBVIOUS
  <2>1. ~fresh'[p] /\ ~alone'[p]
    BY DEF Edit, Disturbs
  <2>2. pc'[p] = pc[p] /\ read'[p] = read[p] /\ stamp'[p] = stamp[p]
    BY DEF Edit
  <2>3. disk'.ver = disk.ver + 1
    BY <1>1
  <2>4. read[p].ver \in Nat /\ stamp[p] \in Nat
    BY DEF TypeOK, Finding
  <2>5. QueryOK(p)
    OBVIOUS
  <2> QED
    BY <2>1, <2>2, <2>3, <2>4, <2>5, <1>2 DEF QueryOK
<1>6. NextQueryServesCurrent' /\ NextQueryReportsError'
  BY DEF Edit, Disturbs, NextQueryServesCurrent, NextQueryReportsError
<1> QED
  BY <1>3, <1>4, <1>5, <1>6 DEF TypeOK, Manifest

\* The invariant is inductive.
LEMMA ReloadNext == ReloadInv /\ [Next]_vars => ReloadInv'
<1> SUFFICES ASSUME ReloadInv, [Next]_vars PROVE ReloadInv'
  OBVIOUS
<1>1. CASE Edit
  BY <1>1, ReloadEdit
<1>2. ASSUME NEW p \in Proc, Query(p) \/ Step(p) PROVE ReloadInv'
  BY <1>2, ReloadQuery, ReloadStat, ReloadStatFails, ReloadCheckEmpty, ReloadCompare,
     ReloadReadFile, ReloadReadFails, ReloadRestat, ReloadRestatFails, ReloadInstall,
     ReloadClear, ReloadFail, ReloadServe DEF Step
<1>3. CASE UNCHANGED vars
  BY <1>3 DEF vars, cache, ReloadInv, TypeOK, QueryOK, NextQueryServesCurrent, Current,
     Mislabelled, NextQueryReportsError
<1> QED
  BY <1>1, <1>2, <1>3 DEF Next

\* The inductive invariant holds in every reachable state, wherever edits fall.
THEOREM ReloadInvariance == Spec => []ReloadInv
  BY ReloadInit, ReloadNext, PTL DEF Spec

\* Whatever reloads an edit has overtaken, and whichever of them stored last: the next
\* query answers from the manifest on disk, unless the registry goes by the mtime of a
\* later manifest than it is (maybeReload).
THEOREM NextQueryCurrent == Spec => []NextQueryServesCurrent
<1>1. ReloadInv => NextQueryServesCurrent
  BY DEF ReloadInv
<1> QED
  BY <1>1, ReloadInvariance, PTL

\* Whatever has cleared the error of a broken manifest: the next query puts it back,
\* with the same exception.
THEOREM NextQueryReports == Spec => []NextQueryReportsError
<1>1. ReloadInv => NextQueryReportsError
  BY DEF ReloadInv
<1> QED
  BY <1>1, ReloadInvariance, PTL
================================================================================
