--------------------------- MODULE AiBudgetProofs ---------------------------
(* Proofs about the budget reservations, for every set of jobs and models, *)
(* every price and limit, and any number of months and crashes.            *)
EXTENDS AiBudget, FiniteInduction, TLAPS

USE AiBudgetAssumption

LEMMA NewIdFree == ASSUME FreeIds # {} PROVE NewId \in Ids /\ \A r \in rows : r.id # NewId
<1>1. NewId \in FreeIds
  BY DEF NewId
<1> QED
  BY <1>1 DEF FreeIds

LEMMA HoldInit == Init => HoldIInv
BY DEF Init, HoldIInv, TypeOK, RowInv, HoldKept, Months, Places, Covers

\* What a coroutine leaves when it ends is well typed.
JobTypes ==
  /\ at \in [Jobs -> Places] /\ left \in [Jobs -> SUBSET Models]
  /\ model \in [Jobs -> Models \cup {None}] /\ hold \in [Jobs -> Ids \cup {None}]
  /\ used \in [Jobs -> Nat] /\ turn \in Jobs \cup {None}
  /\ \A j \in Jobs : at[j] \in {"reserved", "trying"} => model[j] \in Models

LEMMA EndTyped ==
  ASSUME TypeOK, NEW j \in Jobs, NEW place \in {"completed", "failed", "stopped"}, End(j, place)
  PROVE  JobTypes'
BY DEF TypeOK, JobTypes, End, Forget, Places

LEMMA TypeStep == TypeOK /\ [Next]_vars => TypeOK'
<1> SUFFICES ASSUME TypeOK, [Next]_vars PROVE TypeOK'
  OBVIOUS
<1> USE DEF dbVars, jobVars, Places, TypeOK
<1>1. ASSUME NEW j \in Jobs, RejectSource(j) \/ Route(j) PROVE TypeOK'
  <2>1. Affordable(j) \subseteq Models
    BY DEF Affordable
  <2>2. UNCHANGED dbVars
    BY <1>1 DEF RejectSource, Route
  <2>3. ASSUME NEW place \in {"stopped", "failed"}, End(j, place) PROVE TypeOK'
    BY <2>2, <2>3, EndTyped DEF JobTypes
  <2>4. CASE at' = [at EXCEPT ![j] = "choosing"] /\ left' = [left EXCEPT ![j] = Affordable(j)]
             /\ turn' = j /\ UNCHANGED <<model, hold, used>>
    BY <2>1, <2>2, <2>4
  <2>5. CASE RejectSource(j)
    BY <2>3, <2>5 DEF RejectSource
  <2>6. CASE Route(j)
    BY <2>3, <2>4, <2>6 DEF Route
  <2> QED
    BY <1>1, <2>5, <2>6
<1>2. ASSUME NEW j \in Jobs, NEW m \in Models, Reserve(j, m) PROVE TypeOK'
  <2>1. CASE NeedsHold(j, m)
    <3>1. NewId \in Ids
      BY <1>2, <2>1, NewIdFree DEF Reserve
    <3> QED
      BY <1>2, <2>1, <3>1 DEF Reserve
  <2>2. CASE ~NeedsHold(j, m)
    BY <1>2, <2>2 DEF Reserve
  <2> QED
    BY <2>1, <2>2
<1>3. ASSUME NEW j \in Jobs, NEW m \in Models, ReserveBlocked(j, m) PROVE TypeOK'
  <2>1. CASE left[j] = {m}
    BY <1>3, <2>1, EndTyped DEF ReserveBlocked, JobTypes
  <2>2. CASE left[j] # {m}
    BY <1>3, <2>2 DEF ReserveBlocked
  <2> QED
    BY <2>1, <2>2
<1>4. ASSUME NEW j \in Jobs, SeeCancelled(j) \/ Try(j) PROVE TypeOK'
  <2>1. CASE SeeCancelled(j)
    BY <2>1, EndTyped DEF SeeCancelled, Release, JobTypes
  <2>2. CASE Try(j)
    BY <2>2 DEF Try
  <2> QED
    BY <1>4, <2>1, <2>2
<1>5. ASSUME NEW j \in Jobs, Request(j) PROVE TypeOK'
  <2> PICK cost \in 0..(Cost[model[j]] - used[j]) :
             /\ used' = [used EXCEPT ![j] = @ + cost]
             /\ bill' = [bill EXCEPT ![Cover(j)][month] = @ + cost]
    BY <1>5 DEF Request
  <2>1. cost \in Nat
    <3>1. model[j] \in Models
      BY <1>5 DEF Request
    <3>2. Cost[model[j]] \in Nat /\ used[j] \in Nat
      BY <3>1
    <3> QED
      BY <3>2
  <2>2. used' \in [Jobs -> Nat]
    BY <2>1
  <2>3. bill' \in [Covers -> [Months -> Nat]]
    <3>1. Cover(j) \in Covers
      BY DEF Cover, Covers
    <3> QED
      BY <2>1, <3>1
  <2> QED
    BY <1>5, <2>2, <2>3 DEF Request
<1>6. ASSUME NEW j \in Jobs, Succeed(j) \/ Fail(j) \/ Interrupt(j) PROVE TypeOK'
  <2>1. JobTypes'
    BY <1>6, EndTyped DEF Succeed, Fail, Interrupt
  <2> QED
    BY <1>6, <2>1 DEF Succeed, Fail, Interrupt, Release, JobTypes
<1>7. ASSUME NEW j \in Jobs, FallBack(j) PROVE TypeOK'
  BY <1>7 DEF FallBack, Release, Forget
<1>8. ASSUME NEW j \in Jobs, CancelJob(j) PROVE TypeOK'
  BY <1>8 DEF CancelJob
<1>9. CASE MonthEnds
  BY <1>9 DEF MonthEnds, Months
<1>10. CASE Crash
  BY <1>10 DEF Crash
<1>11. CASE UNCHANGED vars
  BY <1>11 DEF vars
<1> QED
  BY <1>1, <1>2, <1>3, <1>4, <1>5, <1>6, <1>7, <1>8, <1>9, <1>10, <1>11 DEF Next

\* Releasing one job's reservation leaves every other job's row in place.
LEMMA ReleaseKeepsOthers ==
  ASSUME TypeOK, RowInv, NEW j \in Jobs, Release(j), Forget(j)
  PROVE  /\ RowInv'
         /\ \A i \in Jobs \ {j} : hold'[i] = hold[i] /\
              \A r \in rows : r.job = i /\ r.id = hold[i] => r \in rows'
<1>1. \A i \in Jobs \ {j} : hold'[i] = hold[i]
  BY DEF Forget, TypeOK
<1>2. ASSUME NEW i \in Jobs \ {j}, NEW r \in rows, r.job = i, r.id = hold[i]
      PROVE  r \in rows'
  <2>1. r.id \in Nat
    BY DEF TypeOK, Ids
  <2>2. r.id # hold[j]
    BY <1>2, <2>1 DEF RowInv
  <2> QED
    BY <2>2 DEF Release
<1>3. hold'[j] = None
  BY DEF Forget, TypeOK
<1>4. \A i \in Jobs : hold'[i] # None => \E r \in rows' : r.id = hold'[i] /\ r.job = i
  BY <1>1, <1>2, <1>3 DEF RowInv
<1>5. \A r, s \in rows' : r.id = s.id => r = s
  BY DEF Release, RowInv
<1> QED
  BY <1>1, <1>2, <1>4, <1>5 DEF RowInv

LEMMA HoldStep == HoldIInv /\ [Next]_vars => HoldIInv'
<1> SUFFICES ASSUME TypeOK, RowInv, HoldKept, [Next]_vars PROVE RowInv' /\ HoldKept'
  BY TypeStep DEF HoldIInv
<1> USE DEF dbVars, jobVars
\* Steps that leave the table alone, and the attempts under way after them.
<1>1. ASSUME rows' = rows,
             \A j \in Jobs : hold'[j] # None => hold'[j] = hold[j],
             \A j \in Jobs : at'[j] \in {"reserved", "trying"} =>
                /\ at[j] \in {"reserved", "trying"}
                /\ hold'[j] = hold[j] /\ model'[j] = model[j]
      PROVE  RowInv' /\ HoldKept'
  BY <1>1 DEF RowInv, HoldKept, NeedsHold, CanBypass
\* Steps by which j gives its reservation back and leaves that place.
<1>2. ASSUME NEW j \in Jobs, Release(j), Forget(j),
             at'[j] \notin {"reserved", "trying"}, \A i \in Jobs \ {j} : at'[i] = at[i]
      PROVE  RowInv' /\ HoldKept'
  <2> DEFINE kept(i) == model'[i] = model[i]
  <2>0. \A i \in Jobs \ {j} : kept(i)
    BY <1>2 DEF Forget, TypeOK
  <2>1. ASSUME NEW i \in Jobs, at'[i] \in {"reserved", "trying"}, NeedsHold(i, model[i])
        PROVE  \E r \in rows' : r.id = hold'[i] /\ r.job = i /\ r.amount = Estimate[model[i]]
    <3>1. i # j /\ at[i] \in {"reserved", "trying"}
      BY <1>2, <2>1
    <3>2. PICK r \in rows : r.id = hold[i] /\ r.job = i /\ r.amount = Estimate[model[i]]
      BY <2>1, <3>1 DEF HoldKept
    <3> QED
      BY <1>2, <3>1, <3>2, ReleaseKeepsOthers
  <2>2. RowInv'
    BY <1>2, ReleaseKeepsOthers
  <2>3. \A i \in Jobs : at'[i] \in {"reserved", "trying"} => i # j
    BY <1>2
  <2> QED
    BY <2>0, <2>1, <2>2, <2>3 DEF HoldKept, NeedsHold, CanBypass
<1>3. ASSUME NEW j \in Jobs, NEW m \in Models, Reserve(j, m) PROVE RowInv' /\ HoldKept'
  <2>1. /\ \A i \in Jobs \ {j} : hold'[i] = hold[i] /\ at'[i] = at[i] /\ model'[i] = model[i]
        /\ model'[j] = m
    BY <1>3 DEF Reserve, TypeOK
  <2>2. CASE NeedsHold(j, m)
    <3> DEFINE new == [id |-> NewId, job |-> j, month |-> month, amount |-> Estimate[m]]
    <3>1. rows' = rows \cup {new} /\ hold'[j] = NewId /\ NewId \in Ids
          /\ \A r \in rows : r.id # NewId
      BY <1>3, <2>2, NewIdFree DEF Reserve, TypeOK
    <3>2. new.id = NewId /\ new.job = j /\ new.amount = Estimate[m]
      OBVIOUS
    <3> HIDE DEF new
    <3>3. RowInv'
      BY <2>1, <3>1, <3>2 DEF RowInv
    <3>4. HoldKept'
      BY <2>1, <3>1, <3>2 DEF HoldKept, NeedsHold, CanBypass
    <3> QED
      BY <3>3, <3>4
  <2>3. CASE ~NeedsHold(j, m)
    <3>1. rows' = rows /\ hold'[j] = None
      BY <1>3, <2>3 DEF Reserve, TypeOK
    <3> QED
      BY <2>1, <2>3, <3>1 DEF RowInv, HoldKept, NeedsHold, CanBypass
  <2> QED
    BY <2>2, <2>3
<1>4. ASSUME NEW j \in Jobs, NEW m \in Models, ReserveBlocked(j, m) PROVE RowInv' /\ HoldKept'
  BY <1>1, <1>4 DEF ReserveBlocked, End, Forget, TypeOK
<1>5. ASSUME NEW j \in Jobs, SeeCancelled(j) PROVE RowInv' /\ HoldKept'
  <2>1. CASE at[j] = "reserved"
    BY <1>2, <1>5, <2>1 DEF SeeCancelled, End, TypeOK
  <2>2. CASE at[j] # "reserved"
    BY <1>1, <1>5, <2>2 DEF SeeCancelled, End, Forget, TypeOK
  <2> QED
    BY <2>1, <2>2
<1>6. ASSUME NEW j \in Jobs, Succeed(j) \/ FallBack(j) \/ Fail(j) PROVE RowInv' /\ HoldKept'
  BY <1>2, <1>6 DEF Succeed, FallBack, Fail, End, TypeOK
<1>7. ASSUME NEW j \in Jobs,
             RejectSource(j) \/ Route(j) \/ Try(j) \/ Request(j) \/ Interrupt(j) \/ CancelJob(j)
      PROVE  RowInv' /\ HoldKept'
  <2>1. CASE RejectSource(j) \/ Route(j)
    BY <1>1, <2>1 DEF RejectSource, Route, End, Forget, TypeOK
  <2>2. CASE Try(j) \/ Request(j) \/ Interrupt(j) \/ CancelJob(j)
    BY <1>1, <2>2 DEF Try, Request, Interrupt, CancelJob, End, Forget, TypeOK
  <2> QED
    BY <1>7, <2>1, <2>2
<1>8. CASE Crash
  <2>1. /\ rows' = rows /\ \A j \in Jobs : hold'[j] = None
        /\ \A j \in Jobs : at'[j] \notin {"reserved", "trying"}
    BY <1>8 DEF Crash
  <2> QED
    BY <2>1 DEF RowInv, HoldKept
<1>9. CASE MonthEnds \/ UNCHANGED vars
  BY <1>1, <1>9 DEF MonthEnds, vars
<1> QED
  BY <1>3, <1>4, <1>5, <1>6, <1>7, <1>8, <1>9 DEF Next
-----------------------------------------------------------------------------
(* The monthly limit: sums over the rows of a month.                        *)

LEMMA RowsFinite == ASSUME TypeOK, RowInv PROVE IsFiniteSet(rows)
<1> DEFINE id == [r \in rows |-> r.id]
<1>1. IsFiniteSet(Ids)
  BY FS_Interval DEF Ids
<1>2. id \in Injection(rows, Ids)
  BY DEF TypeOK, RowInv, Injection, IsInjective
<1> HIDE DEF id
<1> QED
  BY <1>1, <1>2, FS_Injection

LEMMA RowFacts ==
  ASSUME TypeOK, RowInv
  PROVE  /\ \A m : IsFiniteSet(RowsOf(m)) /\ RowsOf(m) \subseteq rows
         /\ \A r \in rows : r.amount \in Nat /\ Open(r) \in Nat /\ Open(r) <= r.amount
<1>1. \A m : RowsOf(m) \subseteq rows
  BY DEF RowsOf
<1>2. \A m : IsFiniteSet(RowsOf(m))
  BY <1>1, RowsFinite, FS_Subset
<1>3. ASSUME NEW r \in rows
      PROVE  r.amount \in Nat /\ Open(r) \in Nat /\ Open(r) <= r.amount
  <2>1. r.amount \in Nat /\ used[r.job] \in Nat
    BY DEF TypeOK
  <2> QED
    BY <2>1 DEF Open
<1> QED
  BY <1>1, <1>2, <1>3

LEMMA OpenSumNat == ASSUME TypeOK, RowInv, NEW m PROVE OpenSum(m) \in Nat
<1> DEFINE f == [r \in rows |-> Open(r)]
<1>1. \A r \in RowsOf(m) : f[r] \in Nat
  BY RowFacts
<1> HIDE DEF f
<1>2. SumFunctionOnSet(f, RowsOf(m)) \in Nat
  BY <1>1, RowFacts, SumNat
<1> QED
  BY <1>2 DEF OpenSum, f

\* A step that adds no row of a month, and opens none of its rows further.
LEMMA OpenSumShrinks ==
  ASSUME TypeOK, RowInv, TypeOK', RowInv', NEW m,
         RowsOf(m)' \subseteq RowsOf(m), \A r \in RowsOf(m)' : Open(r)' <= Open(r)
  PROVE  OpenSum(m)' \in Nat /\ OpenSum(m)' <= OpenSum(m)
<1> DEFINE f == [r \in rows |-> Open(r)]
           g == [r \in rows' |-> Open(r)']
           S == RowsOf(m)
           T == RowsOf(m)'
<1>0. ASSUME NEW r \in rows' PROVE Open(r)' \in Nat
  <2>1. r.amount \in Nat /\ used'[r.job] \in Nat
    BY DEF TypeOK
  <2> QED
    BY <2>1 DEF Open
<1>1. \A r \in T : g[r] \in Nat /\ f[r] \in Nat /\ g[r] <= f[r]
  <2>1. T \subseteq rows' /\ T \subseteq rows
    BY DEF RowsOf
  <2> QED
    BY <1>0, <2>1, RowFacts
<1>2. \A r \in S : f[r] \in Nat
  BY RowFacts
<1>3. IsFiniteSet(S) /\ T \subseteq S /\ IsFiniteSet(T)
  BY RowFacts, FS_Subset
<1>4. OpenSum(m) = SumFunctionOnSet(f, S) /\ OpenSum(m)' = SumFunctionOnSet(g, T)
  BY DEF OpenSum
<1> HIDE DEF f, g, S, T
<1>5. SumFunctionOnSet(g, T) <= SumFunctionOnSet(f, T)
  BY <1>1, <1>3, SumMono
<1>6. SumFunctionOnSet(f, T) <= SumFunctionOnSet(f, S)
  BY <1>2, <1>3, SumPart
<1>7. /\ SumFunctionOnSet(g, T) \in Nat /\ SumFunctionOnSet(f, T) \in Nat
      /\ SumFunctionOnSet(f, S) \in Nat
  <2>1. \A r \in T : g[r] \in Nat
    BY <1>1
  <2>2. \A r \in T : f[r] \in Nat
    BY <1>1
  <2> QED
    BY <1>2, <1>3, <2>1, <2>2, SumNat
<1> QED
  BY <1>4, <1>5, <1>6, <1>7

\* The bill of the months is a part of what is spent.
LEMMA HeldIsSpent ==
  ASSUME TypeOK, NEW m \in Months
  PROVE  bill["held"][m] \in Nat /\ Spent(m) \in Nat /\ bill["held"][m] <= Spent(m)
<1> DEFINE f == [c \in Covers |-> bill[c][m]]
<1>1. \A c \in Covers : f[c] \in Nat
  BY DEF TypeOK
<1>2. IsFiniteSet(Covers)
  <2>1. Covers = {"held"} \cup ({"carried"} \cup {"unheld"})
    BY DEF Covers
  <2> QED
    BY <2>1, FS_Singleton, FS_Union
<1>3. "held" \in Covers /\ IsFiniteSet(Covers \ {"held"}) /\ f["held"] = bill["held"][m]
  BY <1>2, FS_Subset DEF Covers
<1>4. Spent(m) = SumFunctionOnSet(f, Covers)
  BY DEF Spent
<1> HIDE DEF f
<1>5. SumFunctionOnSet(f, Covers) = f["held"] + SumFunctionOnSet(f, Covers \ {"held"})
  BY <1>1, <1>2, <1>3, SumSplit
<1>6. SumFunctionOnSet(f, Covers \ {"held"}) \in Nat
  BY <1>1, <1>3, SumNat
<1> QED
  BY <1>1, <1>3, <1>4, <1>5, <1>6

LEMMA OpenIsReserved ==
  ASSUME TypeOK, RowInv, NEW m
  PROVE  Reserved(m) \in Nat /\ OpenSum(m) <= Reserved(m)
<1> DEFINE f == [r \in rows |-> Open(r)]
           g == [r \in rows |-> r.amount]
<1>1. \A r \in RowsOf(m) : f[r] \in Nat /\ g[r] \in Nat /\ f[r] <= g[r]
  BY RowFacts
<1>2. OpenSum(m) = SumFunctionOnSet(f, RowsOf(m)) /\ Reserved(m) = SumFunctionOnSet(g, RowsOf(m))
  BY DEF OpenSum, Reserved
<1> HIDE DEF f, g
<1>3. IsFiniteSet(RowsOf(m))
  BY RowFacts
<1>4. SumFunctionOnSet(f, RowsOf(m)) <= SumFunctionOnSet(g, RowsOf(m))
  BY <1>1, <1>3, SumMono
<1>5. SumFunctionOnSet(g, RowsOf(m)) \in Nat
  BY <1>1, <1>3, SumNat
<1> QED
  BY <1>2, <1>4, <1>5

Fits == \A m \in Months : bill["held"][m] + OpenSum(m) <= Limit
AttemptsFit ==
  \A j \in Jobs : at[j] \in {"reserved", "trying"} =>
    /\ used[j] <= Cost[model[j]]
    /\ hold[j] # None <=> NeedsHold(j, model[j])

LEMMA BudgetInit == Init => BudgetIInv
<1> SUFFICES ASSUME Init PROVE FitsInv
  BY HoldInit DEF BudgetIInv
<1>1. ASSUME NEW m \in Months PROVE bill["held"][m] + OpenSum(m) <= Limit
  <2>1. RowsOf(m) = {} /\ bill["held"][m] = 0
    BY DEF Init, RowsOf, Covers
  <2>2. OpenSum(m) = 0
    BY <2>1, SumEmpty DEF OpenSum
  <2> QED
    BY <2>1, <2>2
<1>2. \A j \in Jobs : at[j] \notin {"reserved", "trying"}
  BY DEF Init
<1> QED
  BY <1>1, <1>2 DEF FitsInv

\* Steps that bill nothing under a reservation of the month, and reserve nothing.
LEMMA QuietFits ==
  ASSUME HoldIInv, HoldIInv', Fits,
         \A m \in Months : bill'["held"][m] = bill["held"][m],
         rows' \subseteq rows,
         \A j \in Jobs : hold'[j] = None \/ (hold'[j] = hold[j] /\ used[j] <= used'[j])
  PROVE  Fits'
<1> USE DEF HoldIInv
<1> SUFFICES ASSUME NEW m \in Months PROVE bill'["held"][m] + OpenSum(m)' <= Limit
  BY DEF Fits
<1>1. RowsOf(m)' \subseteq RowsOf(m)
  BY DEF RowsOf
<1>2. ASSUME NEW r \in RowsOf(m)' PROVE Open(r)' <= Open(r)
  <2>1. /\ r \in rows /\ r.job \in Jobs /\ r.id # None /\ r.amount \in Nat
        /\ used[r.job] \in Nat /\ used'[r.job] \in Nat
    BY <1>1, <1>2 DEF RowsOf, TypeOK, Ids
  <2>2. hold'[r.job] = None \/ (hold'[r.job] = hold[r.job] /\ used[r.job] <= used'[r.job])
    BY <2>1
  <2> QED
    BY <2>1, <2>2 DEF Open
<1>3. OpenSum(m)' \in Nat /\ OpenSum(m)' <= OpenSum(m)
  BY <1>1, <1>2, OpenSumShrinks
<1>4. OpenSum(m) \in Nat /\ bill["held"][m] \in Nat
  BY OpenSumNat, HeldIsSpent
<1> QED
  BY <1>3, <1>4 DEF Fits

\* Attempts that go on go on with the same model and hold; the others are over.
LEMMA QuietAttempts ==
  ASSUME HoldIInv, AttemptsFit,
         \A j \in Jobs : at'[j] \in {"reserved", "trying"} =>
           /\ at[j] \in {"reserved", "trying"}
           /\ hold'[j] = hold[j] /\ model'[j] = model[j] /\ used'[j] = used[j]
  PROVE  AttemptsFit'
BY DEF AttemptsFit, NeedsHold, CanBypass

\* An attempt is billed: under its own reservation it has that much less to come.
LEMMA RequestFits ==
  ASSUME EstimatesConservative, HoldIInv, HoldIInv', Fits, AttemptsFit,
         NEW j \in Jobs, Request(j)
  PROVE  Fits' /\ AttemptsFit'
<1> USE DEF HoldIInv
<1>0. PICK cost \in 0..(Cost[model[j]] - used[j]) :
             /\ used' = [used EXCEPT ![j] = @ + cost]
             /\ bill' = [bill EXCEPT ![Cover(j)][month] = @ + cost]
  BY DEF Request
<1>1. /\ model[j] \in Models /\ Cost[model[j]] \in Nat /\ used[j] \in Nat
      /\ cost \in Nat /\ used[j] + cost <= Cost[model[j]] /\ used'[j] = used[j] + cost
      /\ at[j] = "trying" /\ UNCHANGED <<rows, month, at, model, hold>>
  <2>1. model[j] \in Models
    BY DEF Request, TypeOK
  <2>2. Cost[model[j]] \in Nat /\ used[j] \in Nat
    BY <2>1 DEF TypeOK
  <2> QED
    BY <1>0, <2>1, <2>2 DEF Request, TypeOK
<1>2. \A i \in Jobs \ {j} : used'[i] = used[i]
  BY <1>0 DEF TypeOK
<1>3. AttemptsFit'
  BY <1>1, <1>2 DEF AttemptsFit, NeedsHold, CanBypass
<1>4. CASE Cover(j) # "held"
  <2>1. \A m \in Months : bill'["held"][m] = bill["held"][m]
    BY <1>0, <1>4 DEF TypeOK, Covers, Cover
  <2>2. \A i \in Jobs : hold'[i] = hold[i] /\ used[i] <= used'[i]
    <3> TAKE i \in Jobs
    <3>1. used[i] \in Nat
      BY DEF TypeOK
    <3> QED
      BY <1>1, <1>2, <3>1
  <2> QED
    BY <1>1, <1>3, <2>1, <2>2, QuietFits
<1>5. CASE Cover(j) = "held"
  <2> PICK now \in Months : now = month
    BY DEF TypeOK
  <2>1. NeedsHold(j, model[j]) /\ \E r \in rows : r.id = hold[j] /\ r.month = month
    BY <1>5 DEF Cover
  <2>2. PICK r \in rows : r.id = hold[j] /\ r.job = j /\ r.amount = Estimate[model[j]]
    BY <1>1, <2>1 DEF HoldKept
  <2>3. r.month = month /\ r \in RowsOf(now)
    BY <2>1, <2>2 DEF RowInv, RowsOf
  <2>4. Cost[model[j]] <= Estimate[model[j]] /\ Estimate[model[j]] \in Nat
    BY <1>1, <2>1 DEF EstimatesConservative, NeedsHold
  <2>5. Open(r) = r.amount - used[j] /\ Open(r)' = r.amount - used[j] - cost
    BY <1>1, <2>2, <2>4 DEF Open
  <2>6. ASSUME NEW s \in rows, s # r PROVE Open(s)' = Open(s) /\ Open(s) \in Nat
    <3>1. s.job = j => hold[j] # s.id
      BY <2>2, <2>6 DEF RowInv
    <3>2. s.job # j => used'[s.job] = used[s.job]
      BY <1>2 DEF TypeOK
    <3> QED
      BY <1>1, <3>1, <3>2, RowFacts DEF Open
  <2>7. OpenSum(now) = OpenSum(now)' + cost
    <3> DEFINE f == [s \in rows |-> Open(s)]
               g == [s \in rows |-> Open(s)']
               S == RowsOf(now)
               T == S \ {r}
    <3>1. OpenSum(now) = SumFunctionOnSet(f, S) /\ OpenSum(now)' = SumFunctionOnSet(g, S)
      BY <1>1 DEF OpenSum, RowsOf
    <3>2. \A s \in S : f[s] \in Nat /\ g[s] \in Nat
      <4> SUFFICES ASSUME NEW s \in S PROVE f[s] \in Nat /\ g[s] \in Nat
        OBVIOUS
      <4>1. s \in rows /\ Open(s) \in Nat
        BY RowFacts
      <4>2. Open(r)' \in Nat
        BY <1>1, <2>2, <2>4, <2>5
      <4> QED
        BY <2>6, <4>1, <4>2
    <3>3. \A s \in T : f[s] \in Nat /\ f[s] = g[s]
      BY <2>6, RowFacts
    <3>4. IsFiniteSet(S) /\ IsFiniteSet(T) /\ r \in S /\ T = S \ {r}
      BY <2>3, RowFacts, FS_Subset
    <3>5. f[r] = g[r] + cost /\ f[r] \in Nat /\ g[r] \in Nat
      BY <1>1, <2>2, <2>4, <2>5
    <3> HIDE DEF f, g, S, T
    <3>6. SumFunctionOnSet(f, S) = f[r] + SumFunctionOnSet(f, T)
      BY <3>2, <3>4, SumSplit
    <3>7. SumFunctionOnSet(g, S) = g[r] + SumFunctionOnSet(g, T)
      BY <3>2, <3>4, SumSplit
    <3>8. SumFunctionOnSet(f, T) = SumFunctionOnSet(g, T) /\ SumFunctionOnSet(f, T) \in Nat
      BY <3>3, <3>4, SumSame, SumNat
    <3> QED
      BY <1>1, <3>1, <3>5, <3>6, <3>7, <3>8
  <2>8. OpenSum(now)' \in Nat
    <3>1. RowsOf(now)' = RowsOf(now) /\ RowsOf(now) \subseteq rows
      BY <1>1 DEF RowsOf
    <3>2. Open(r)' <= Open(r)
      BY <1>1, <2>2, <2>4, <2>5
    <3>3. \A s \in RowsOf(now)' : Open(s)' <= Open(s)
      BY <2>6, <3>1, <3>2
    <3> QED
      BY <3>1, <3>3, OpenSumShrinks
  <2>9. ASSUME NEW m \in Months PROVE bill'["held"][m] + OpenSum(m)' <= Limit
    <3>1. CASE m = month
      <4>1. bill'["held"][m] = bill["held"][m] + cost /\ bill["held"][m] \in Nat
        BY <1>0, <1>1, <1>5, <3>1 DEF TypeOK, Covers
      <4> QED
        BY <1>1, <2>7, <2>8, <3>1, <4>1 DEF Fits
    <3>2. CASE m # month
      <4>1. bill'["held"][m] = bill["held"][m]
        BY <1>0, <1>1, <1>5, <3>2 DEF TypeOK, Covers
      <4>2. RowsOf(m)' = RowsOf(m) /\ \A s \in RowsOf(m) : Open(s)' = Open(s)
        BY <1>1, <2>3, <2>6, <3>2 DEF RowsOf
      <4>3. \A s \in RowsOf(m)' : Open(s)' <= Open(s)
        BY <4>2, RowFacts
      <4>4. OpenSum(m)' \in Nat /\ OpenSum(m)' <= OpenSum(m)
        BY <4>2, <4>3, OpenSumShrinks
      <4> QED
        BY <4>1, <4>4, OpenSumNat, HeldIsSpent DEF Fits
    <3> QED
      BY <3>1, <3>2
  <2> QED
    BY <1>3, <2>9 DEF Fits
<1> QED
  BY <1>4, <1>5

\* A reservation is made of what is left beside the bill and the other rows.
LEMMA ReserveFits ==
  ASSUME HoldIInv, HoldIInv', Fits, AttemptsFit, NEW j \in Jobs, NEW m \in Models, Reserve(j, m)
  PROVE  Fits' /\ AttemptsFit'
<1> USE DEF HoldIInv
<1>1. /\ \A i \in Jobs \ {j} : hold'[i] = hold[i] /\ at'[i] = at[i] /\ model'[i] = model[i]
                               /\ used'[i] = used[i]
      /\ model'[j] = m /\ used'[j] = 0 /\ UNCHANGED <<bill, month>>
  BY DEF Reserve, TypeOK
<1>2. Cost[m] \in Nat /\ Estimate[m] \in Nat
  OBVIOUS
<1>3. CASE ~NeedsHold(j, m)
  <2>1. rows' = rows /\ hold'[j] = None
    BY <1>3 DEF Reserve, TypeOK
  <2>2. \A i \in Jobs : hold'[i] = None \/ (hold'[i] = hold[i] /\ used[i] <= used'[i])
    <3> TAKE i \in Jobs
    <3>1. used[i] \in Nat
      BY DEF TypeOK
    <3> QED
      BY <1>1, <2>1, <3>1
  <2>3. Fits'
    BY <1>1, <2>1, <2>2, QuietFits
  <2>4. AttemptsFit'
    BY <1>1, <1>2, <1>3, <2>1 DEF AttemptsFit, NeedsHold, CanBypass
  <2> QED
    BY <2>3, <2>4
<1>4. CASE NeedsHold(j, m)
  <2> PICK now \in Months : now = month
    BY DEF TypeOK
  <2> PICK new : new = [id |-> NewId, job |-> j, month |-> now, amount |-> Estimate[m]]
    OBVIOUS
  <2>1. rows' = rows \cup {new} /\ hold'[j] = NewId /\ NewId \in Ids
        /\ \A r \in rows : r.id # NewId
    BY <1>4, NewIdFree DEF Reserve, TypeOK
  <2>2. new.id = NewId /\ new.job = j /\ new.amount = Estimate[m] /\ new.month = now
    OBVIOUS
  <2>3. AttemptsFit'
    <3>1. hold'[j] # None
      BY <2>1 DEF Ids
    <3> QED
      BY <1>1, <1>2, <1>4, <3>1 DEF AttemptsFit, NeedsHold, CanBypass
  <2>4. ASSUME NEW r \in rows PROVE Open(r)' <= Open(r) /\ Open(r)' \in Nat
    <3>1. r.job \in Jobs /\ Open(r) \in Nat
      BY RowFacts DEF TypeOK
    <3>2. CASE r.job = j
      BY <2>1, <3>1, <3>2 DEF Open
    <3>3. CASE r.job # j
      BY <1>1, <3>1, <3>3 DEF Open
    <3> QED
      BY <3>2, <3>3
  <2>5. new \notin rows /\ new \in rows'
    BY <2>1, <2>2
  <2>6. Estimate[m] <= Limit - Spent(now) - Reserved(now)
    BY <1>4 DEF Reserve, Remaining
  <2>7. ASSUME NEW n \in Months, n # now PROVE bill'["held"][n] + OpenSum(n)' <= Limit
    <3>1. RowsOf(n)' = RowsOf(n) /\ RowsOf(n) \subseteq rows
      BY <2>1, <2>2, <2>7 DEF RowsOf
    <3>2. OpenSum(n)' \in Nat /\ OpenSum(n)' <= OpenSum(n)
      BY <2>4, <3>1, OpenSumShrinks
    <3> QED
      BY <1>1, <3>2, OpenSumNat, HeldIsSpent DEF Fits
  <2>8. OpenSum(now)' \in Nat /\ OpenSum(now)' <= Reserved(now) + Estimate[m]
    <3> DEFINE f == [r \in rows |-> r.amount]
               g == [r \in rows' |-> Open(r)']
               S == RowsOf(now)
               T == RowsOf(now)'
    <3>1. T = S \cup {new} /\ new \notin S /\ S \subseteq rows /\ T \subseteq rows'
      BY <1>1, <2>1, <2>2, <2>5 DEF RowsOf
    <3>2. Open(new)' = Estimate[m] \/ Open(new)' = 0
      BY <1>1, <1>2, <2>1, <2>2 DEF Open
    <3>3. OpenSum(now)' = SumFunctionOnSet(g, T) /\ Reserved(now) = SumFunctionOnSet(f, S)
      BY <1>1 DEF OpenSum, Reserved
    <3>4. g[new] = Open(new)' /\ g[new] \in Nat /\ g[new] <= Estimate[m]
      BY <1>2, <2>5, <3>2
    <3>5. \A r \in S : f[r] \in Nat /\ g[r] \in Nat /\ g[r] <= f[r]
      <4> TAKE r \in S
      <4>1. r \in rows /\ r \in rows'
        BY <2>1, <3>1
      <4>2. r.amount \in Nat /\ Open(r) \in Nat /\ Open(r) <= r.amount
        BY <4>1, RowFacts
      <4> QED
        BY <2>4, <4>1, <4>2
    <3>6. IsFiniteSet(S) /\ IsFiniteSet(T) /\ T \ {new} = S
      <4>1. IsFiniteSet(S)
        BY RowFacts
      <4> QED
        BY <3>1, <4>1, FS_AddElement
    <3> HIDE DEF f, g, S, T
    <3>7. \A r \in T : g[r] \in Nat
      BY <3>1, <3>4, <3>5
    <3>8. SumFunctionOnSet(g, T) = g[new] + SumFunctionOnSet(g, S)
      BY <3>1, <3>6, <3>7, SumSplit
    <3>9. SumFunctionOnSet(g, S) <= SumFunctionOnSet(f, S)
      BY <3>5, <3>6, SumMono
    <3>10. SumFunctionOnSet(g, S) \in Nat /\ SumFunctionOnSet(f, S) \in Nat
      BY <3>5, <3>6, SumNat
    <3> QED
      BY <1>2, <3>3, <3>4, <3>8, <3>9, <3>10
  <2>9. bill'["held"][now] + OpenSum(now)' <= Limit
    <3>1. /\ now \in Months /\ bill["held"][now] \in Nat /\ Spent(now) \in Nat
          /\ bill["held"][now] <= Spent(now) /\ Reserved(now) \in Nat
      BY HeldIsSpent, OpenIsReserved DEF TypeOK
    <3> QED
      BY <1>1, <1>2, <2>6, <2>8, <3>1
  <2> QED
    BY <1>1, <2>3, <2>7, <2>9 DEF Fits
<1> QED
  BY <1>3, <1>4

LEMMA BudgetStep == EstimatesConservative /\ BudgetIInv /\ [Next]_vars => BudgetIInv'
<1> SUFFICES ASSUME EstimatesConservative, HoldIInv, HoldIInv', Fits, AttemptsFit, [Next]_vars
             PROVE  Fits' /\ AttemptsFit'
  BY HoldStep DEF BudgetIInv, FitsInv, Fits, AttemptsFit
<1> USE DEF HoldIInv, dbVars, jobVars
\* Steps that bill nothing, and end attempts or leave them as they are.
<1>1. ASSUME bill' = bill, rows' \subseteq rows,
             \A j \in Jobs : hold'[j] = None \/ (hold'[j] = hold[j] /\ used'[j] = used[j]),
             \A j \in Jobs : at'[j] \in {"reserved", "trying"} =>
               /\ at[j] \in {"reserved", "trying"}
               /\ hold'[j] = hold[j] /\ model'[j] = model[j] /\ used'[j] = used[j]
      PROVE  Fits' /\ AttemptsFit'
  <2>1. \A j \in Jobs : used[j] <= used[j]
    <3> TAKE j \in Jobs
    <3>1. used[j] \in Nat
      BY DEF TypeOK
    <3> QED
      BY <3>1
  <2> QED
    BY <1>1, <2>1, QuietFits, QuietAttempts
\* Steps by which j is at the end of an attempt, or at that of the job.
<1>2. ASSUME NEW j \in Jobs, Forget(j), bill' = bill, rows' \subseteq rows,
             at'[j] \notin {"reserved", "trying"}, \A i \in Jobs \ {j} : at'[i] = at[i]
      PROVE  Fits' /\ AttemptsFit'
  <2>1. hold'[j] = None /\ \A i \in Jobs \ {j} :
          hold'[i] = hold[i] /\ model'[i] = model[i] /\ used'[i] = used[i]
    BY <1>2 DEF Forget, TypeOK
  <2>2. \A i \in Jobs : hold'[i] = None \/ (hold'[i] = hold[i] /\ used'[i] = used[i])
    BY <2>1
  <2>3. \A i \in Jobs : at'[i] \in {"reserved", "trying"} =>
          /\ at[i] \in {"reserved", "trying"}
          /\ hold'[i] = hold[i] /\ model'[i] = model[i] /\ used'[i] = used[i]
    BY <1>2, <2>1
  <2> QED
    BY <1>1, <1>2, <2>2, <2>3
<1>3. ASSUME NEW j \in Jobs, NEW place, End(j, place), place \notin {"reserved", "trying"},
             bill' = bill, rows' \subseteq rows
      PROVE  Fits' /\ AttemptsFit'
  BY <1>2, <1>3 DEF End, TypeOK
<1>4. ASSUME NEW j \in Jobs, RejectSource(j) \/ Route(j) PROVE Fits' /\ AttemptsFit'
  <2>1. CASE \E place \in {"stopped", "failed"} : End(j, place)
    BY <1>3, <1>4, <2>1 DEF RejectSource, Route
  <2>2. CASE at' = [at EXCEPT ![j] = "choosing"] /\ UNCHANGED <<model, hold, used>>
    BY <1>1, <1>4, <2>2 DEF RejectSource, Route, TypeOK
  <2> QED
    BY <1>4, <2>1, <2>2 DEF RejectSource, Route
<1>5. ASSUME NEW j \in Jobs, NEW m \in Models, ReserveBlocked(j, m) PROVE Fits' /\ AttemptsFit'
  <2>1. CASE left[j] = {m}
    BY <1>3, <1>5, <2>1 DEF ReserveBlocked
  <2>2. CASE left[j] # {m}
    BY <1>1, <1>5, <2>2 DEF ReserveBlocked
  <2> QED
    BY <2>1, <2>2
<1>6. ASSUME NEW j \in Jobs, SeeCancelled(j) \/ Succeed(j) \/ Fail(j) \/ Interrupt(j)
      PROVE  Fits' /\ AttemptsFit'
  <2>1. bill' = bill /\ rows' \subseteq rows
    BY <1>6 DEF SeeCancelled, Succeed, Fail, Interrupt, Release
  <2>2. \E place \in {"stopped", "failed", "completed"} : End(j, place)
    BY <1>6 DEF SeeCancelled, Succeed, Fail, Interrupt
  <2> QED
    BY <1>3, <2>1, <2>2
<1>7. ASSUME NEW j \in Jobs, FallBack(j) PROVE Fits' /\ AttemptsFit'
  BY <1>2, <1>7 DEF FallBack, Release, TypeOK
<1>8. ASSUME NEW j \in Jobs, Try(j) \/ CancelJob(j) PROVE Fits' /\ AttemptsFit'
  BY <1>1, <1>8 DEF Try, CancelJob, TypeOK
<1>9. CASE MonthEnds \/ UNCHANGED vars
  BY <1>1, <1>9 DEF MonthEnds, vars
<1>10. CASE Crash
  <2>1. /\ bill' = bill /\ rows' = rows
        /\ \A j \in Jobs : hold'[j] = None
        /\ \A j \in Jobs : at'[j] \notin {"reserved", "trying"}
    BY <1>10 DEF Crash
  <2>2. /\ \A j \in Jobs : hold'[j] = None \/ (hold'[j] = hold[j] /\ used'[j] = used[j])
        /\ \A j \in Jobs : at'[j] \in {"reserved", "trying"} =>
             /\ at[j] \in {"reserved", "trying"}
             /\ hold'[j] = hold[j] /\ model'[j] = model[j] /\ used'[j] = used[j]
    BY <2>1
  <2>3. rows' \subseteq rows
    BY <2>1
  <2> QED
    BY <1>1, <2>1, <2>2, <2>3
<1> QED
  BY <1>4, <1>5, <1>6, <1>7, <1>8, <1>9, <1>10, RequestFits, ReserveFits DEF Next
-----------------------------------------------------------------------------
\* What a job has reserved stays reserved, as an active row of its own, for as
\* long as its attempt lasts: no release, crash or later reservation takes it.
THEOREM ReservationKept == Spec => []HoldKept
<1>1. HoldIInv => HoldKept
  BY DEF HoldIInv
<1> QED
  BY <1>1, HoldInit, HoldStep, PTL DEF Spec

\* An attempt that ends by itself, well or badly, has given its hold back.
THEOREM HoldReleased == Spec => NormalEndReleases
<1>1. HoldIInv /\ [Next]_vars =>
        [\A j \in Jobs :
           at[j] = "trying" /\ at'[j] \in {"choosing", "completed", "failed"}
             => \A r \in rows' : r.id # hold[j]]_vars
  <2> SUFFICES ASSUME HoldIInv, [Next]_vars, NEW j \in Jobs, at[j] = "trying",
                      at'[j] \in {"choosing", "completed", "failed"}
               PROVE  \A r \in rows' : r.id # hold[j]
    OBVIOUS
  <2> USE DEF dbVars, jobVars
  <2>1. Succeed(j) \/ FallBack(j) \/ Fail(j)
    BY DEF HoldIInv, TypeOK, Next, vars, RejectSource, Route, Reserve, ReserveBlocked, SeeCancelled,
       Try, Request, Succeed, FallBack, Fail, Interrupt, CancelJob, MonthEnds, Crash, End, Forget
  <2> QED
    BY <2>1 DEF Succeed, FallBack, Fail, Release
<1> QED
  BY <1>1, HoldInit, HoldStep, PTL DEF Spec, NormalEndReleases

\* What is billed under the reservations of a month stays within the limit, if no
\* attempt is billed more than the estimate it was let through with: for any number
\* of jobs at once, fallbacks, months, and crashes that leave holds behind.
THEOREM MonthWithinLimit == EstimatesConservative /\ Spec => []BudgetRespected
<1>1. BudgetIInv => BudgetRespected
  <2> SUFFICES ASSUME BudgetIInv, NEW m \in Months PROVE bill["held"][m] <= Limit
    BY DEF BudgetRespected
  <2>1. OpenSum(m) \in Nat /\ bill["held"][m] \in Nat
    BY OpenSumNat, HeldIsSpent DEF BudgetIInv, HoldIInv
  <2> QED
    BY <2>1 DEF BudgetIInv, FitsInv
<1>2. ASSUME EstimatesConservative PROVE Spec => []BudgetRespected
  <2>1. BudgetIInv /\ [Next]_vars => BudgetIInv'
    BY <1>2, BudgetStep
  <2> QED
    BY <1>1, <2>1, BudgetInit, PTL DEF Spec
<1> QED
  BY <1>2
=============================================================================
