--------------------------- MODULE BenchAllProofs ---------------------------
(* Theorems about BenchAll, for any units, estimates and windows, and      *)
(* wherever the threads of the timers are: the types, a night that was     *)
(* only cut is no failure, the judge's time is kept, and a SIGTERM holds.  *)
(*                                                                         *)
(* The rows that wait are a sum over a set of units.  A sum is the number  *)
(* of the cells of a table, which makes every fact about it one about the  *)
(* cardinality of a set.                                                   *)
EXTENDS BenchAll, FiniteSetTheorems, WellFoundedInduction, TLAPS

-----------------------------------------------------------------------------
(* Sums.                                                                   *)

SumOf(f, S) == MapThenSumSet(LAMBDA u : f[u], S)
Cells(f, S) == {c \in S \X Nat : 1 <= c[2] /\ c[2] <= f[c[1]]}

(* Induction over a finite set, for a property that is given as a set of    *)
(* sets: the least counterexample of the library's well-founded order.     *)
LEMMA SetInduction ==
  ASSUME NEW S, IsFiniteSet(S), NEW G,
         \A s \in SUBSET S : (\A x \in s : s \ {x} \in G) => s \in G
  PROVE  S \in G
<1> DEFINE B == (SUBSET S) \ G
<1>1. SUFFICES ASSUME B # {} PROVE FALSE
  OBVIOUS
<1>2. IsWellFoundedOn(StrictSubsetOrdering(S), SUBSET S)
  BY FS_StrictSubsetOrderingWellFounded, FS_FiniteSubsetsOfFinite
<1>3. PICK s \in B : \A t \in B : ~(<<t, s>> \in StrictSubsetOrdering(S))
  BY <1>1, <1>2, WFMin
<1>4. ASSUME NEW x \in s
      PROVE  s \ {x} \in G
  <2>1. /\ s \ {x} \in SUBSET S
        /\ s \ {x} \subseteq s /\ s \ {x} # s
    BY <1>3
  <2>2. <<s \ {x}, s>> \in StrictSubsetOrdering(S)
    BY <1>3, <2>1 DEF StrictSubsetOrdering
  <2>3. QED
    BY <1>3, <2>1, <2>2
<1>5. QED
  BY <1>3, <1>4

(* The cells of a function over a set: as many as its values' sum.         *)
LEMMA RowOfCells ==
  ASSUME NEW x, NEW n \in Nat
  PROVE  IsFiniteSet({x} \X (1..n)) /\ Cardinality({x} \X (1..n)) = n
<1> DEFINE g == [i \in 1..n |-> <<x, i>>]
<1>1. g \in Bijection(1..n, {x} \X (1..n))
  <2>1. \A i \in 1..n : g[i] = <<x, i>>
    OBVIOUS
  <2>2. \A c \in {x} \X (1..n) : c[2] \in 1..n /\ c = <<x, c[2]>>
    OBVIOUS
  <2>3. g \in [1..n -> {x} \X (1..n)]
    OBVIOUS
  <2> HIDE DEF g
  <2>4. g \in Injection(1..n, {x} \X (1..n))
    BY <2>1, <2>3 DEF Injection, IsInjective
  <2>5. g \in Surjection(1..n, {x} \X (1..n))
    BY <2>1, <2>2, <2>3 DEF Surjection
  <2>6. QED
    BY <2>4, <2>5 DEF Bijection
<1>2. ExistsBijection(1..n, {x} \X (1..n))
  BY <1>1 DEF ExistsBijection
<1>3. IsFiniteSet(1..n) /\ Cardinality(1..n) = n
  BY FS_Interval
<1>4. QED
  BY <1>2, <1>3, FS_Bijection

LEMMA CellsSplit ==
  ASSUME NEW U, NEW f \in [U -> Nat], NEW S \in SUBSET U, NEW x \in S
  PROVE  /\ Cells(f, S) = Cells(f, S \ {x}) \cup ({x} \X (1..f[x]))
         /\ Cells(f, S \ {x}) \cap ({x} \X (1..f[x])) = {}
BY DEF Cells

LEMMA CellsStep ==
  ASSUME NEW U, NEW f \in [U -> Nat], NEW S \in SUBSET U, NEW x \in S,
         IsFiniteSet(Cells(f, S \ {x}))
  PROVE  /\ IsFiniteSet(Cells(f, S))
         /\ Cardinality(Cells(f, S)) = f[x] + Cardinality(Cells(f, S \ {x}))
<1> DEFINE C == Cells(f, S \ {x})
           R == {x} \X (1..f[x])
<1>1. IsFiniteSet(R) /\ Cardinality(R) = f[x]
  BY RowOfCells
<1>2. Cells(f, S) = C \cup R /\ C \cap R = {}
  BY CellsSplit
<1>3. Cardinality(C \cap R) = 0 /\ Cardinality(C) \in Nat
  BY <1>2, FS_EmptySet, FS_CardinalityType, Zenon
<1>4. IsFiniteSet(C \cup R)
      /\ Cardinality(C \cup R) = Cardinality(C) + Cardinality(R) - Cardinality(C \cap R)
  BY <1>1, FS_Union
<1>5. f[x] \in Nat /\ C = Cells(f, S \ {x})
  OBVIOUS
<1> HIDE DEF C, R
<1>6. Cardinality(C \cup R) = f[x] + Cardinality(C)
  BY <1>1, <1>2, <1>3, <1>4, <1>5
<1>7. QED
  BY <1>2, <1>4, <1>5, <1>6

LEMMA CellsFinite ==
  ASSUME NEW U, IsFiniteSet(U), NEW f \in [U -> Nat], NEW S \in SUBSET U
  PROVE  IsFiniteSet(Cells(f, S)) /\ Cardinality(Cells(f, S)) \in Nat
<1> DEFINE G == {s \in SUBSET U : IsFiniteSet(Cells(f, s))}
<1>1. ASSUME NEW s \in SUBSET S, \A x \in s : s \ {x} \in G
      PROVE  s \in G
  <2>1. CASE s = {}
    BY <2>1, FS_EmptySet, Cells(f, {}) = {} DEF Cells
  <2>2. CASE s # {}
    BY <1>1, <2>2, CellsStep
  <2>3. QED
    BY <2>1, <2>2
<1>2. S \in G
  <2> HIDE DEF G
  <2> QED BY <1>1, SetInduction, FS_Subset
<1>3. QED
  BY <1>2, FS_CardinalityType

LEMMA SumIsCells ==
  ASSUME NEW U, IsFiniteSet(U), NEW f \in [U -> Nat], NEW S \in SUBSET U
  PROVE  SumOf(f, S) = Cardinality(Cells(f, S))
<1> DEFINE pick(s) == CHOOSE x \in s : TRUE
           F(g) == [s \in SUBSET S |-> IF s = {} THEN 0 ELSE f[pick(s)] + g[s \ {pick(s)}]]
           card == [s \in SUBSET S |-> Cardinality(Cells(f, s))]
<1>1. SumOf(f, S) = (CHOOSE g : g = F(g))[S]
  BY DEF SumOf, MapThenSumSet, MapThenFoldSet
<1>2. card = F(card)
  <2>1. ASSUME NEW s \in SUBSET S, s = {}
        PROVE  card[s] = 0
    BY <2>1, FS_EmptySet, Cells(f, {}) = {} DEF Cells
  <2>2. ASSUME NEW s \in SUBSET S, s # {}
        PROVE  card[s] = f[pick(s)] + card[s \ {pick(s)}]
    <3>1. pick(s) \in s
      BY <2>2
    <3> HIDE DEF pick
    <3>2. QED
      BY <3>1, CellsStep, CellsFinite
  <2> HIDE DEF card, pick
  <2>3. card = [s \in SUBSET S |-> card[s]]
    BY DEF card
  <2>4. QED
    BY <2>1, <2>2, <2>3
<1>3. ASSUME NEW g, g = F(g)
      PROVE  g[S] = card[S]
  <2> DEFINE G == {s \in SUBSET S : g[s] = card[s]}
  <2>1. ASSUME NEW s \in SUBSET S, \A x \in s : s \ {x} \in G
        PROVE  s \in G
    <3>1. g[s] = IF s = {} THEN 0 ELSE f[pick(s)] + g[s \ {pick(s)}]
      BY <1>3
    <3>2. card[s] = IF s = {} THEN 0 ELSE f[pick(s)] + card[s \ {pick(s)}]
      BY <1>2
    <3>3. s # {} => pick(s) \in s
      OBVIOUS
    <3> HIDE DEF pick, card
    <3>4. QED
      BY <2>1, <3>1, <3>2, <3>3
  <2>2. S \in G
    <3> HIDE DEF G
    <3> QED BY <2>1, SetInduction, FS_Subset
  <2>3. QED
    BY <2>2
<1>4. QED
  <2> HIDE DEF F, card
  <2>1. (CHOOSE g : g = F(g))[S] = card[S]
    BY <1>2, <1>3
  <2>2. QED
    BY <1>1, <2>1 DEF card

LEMMA SumNat ==
  ASSUME NEW U, IsFiniteSet(U), NEW f \in [U -> Nat], NEW S \in SUBSET U
  PROVE  SumOf(f, S) \in Nat
BY SumIsCells, CellsFinite

LEMMA SumSplit ==
  ASSUME NEW U, IsFiniteSet(U), NEW f \in [U -> Nat], NEW S \in SUBSET U, NEW x \in S
  PROVE  SumOf(f, S) = f[x] + SumOf(f, S \ {x})
<1>1. S \ {x} \in SUBSET U
  OBVIOUS
<1>2. Cardinality(Cells(f, S)) = f[x] + Cardinality(Cells(f, S \ {x}))
  BY <1>1, CellsFinite, CellsStep
<1>3. QED
  BY <1>1, <1>2, SumIsCells

(* Only the values in the set count.                                       *)
LEMMA SumAgrees ==
  ASSUME NEW U, IsFiniteSet(U), NEW f \in [U -> Nat], NEW g \in [U -> Nat],
         NEW S \in SUBSET U, NEW T \in SUBSET S,
         \A x \in S : (x \in T => f[x] = g[x]) /\ (x \notin T => g[x] = 0)
  PROVE  SumOf(f, T) = SumOf(g, S)
<1>1. Cells(f, T) = Cells(g, S)
  BY DEF Cells
<1>2. QED
  BY <1>1, SumIsCells

LEMMA SumChanges ==
  ASSUME NEW U, IsFiniteSet(U), NEW f \in [U -> Nat], NEW g \in [U -> Nat],
         NEW S \in SUBSET U, NEW x \in S, \A y \in S \ {x} : g[y] = f[y]
  PROVE  SumOf(g, S) = (SumOf(f, S) - f[x]) + g[x]
<1>1. S \ {x} \in SUBSET U
  OBVIOUS
<1>2. SumOf(g, S \ {x}) = SumOf(f, S \ {x})
  BY <1>1, SumAgrees
<1>3. SumOf(g, S) = g[x] + SumOf(f, S \ {x})
  BY <1>2, SumSplit
<1>4. SumOf(f, S) = f[x] + SumOf(f, S \ {x}) /\ SumOf(f, S \ {x}) \in Nat
      /\ f[x] \in Nat /\ g[x] \in Nat
  BY <1>1, SumSplit, SumNat
<1>5. QED
  BY <1>3, <1>4

-----------------------------------------------------------------------------
(* Types, and where the night is in its order of units.                    *)

Windowed == {"arm", "preamble", "run", "load", "warm", "rows"}

Place ==
  /\ pc \in Windowed \cup {"head", "ran", "disarm"}
       => unit \in Units /\ judges = IF unit <= Retry THEN 0 ELSE 1
  /\ pc = "close" => unit = Retry /\ judges = 0
  /\ pc = "judge" => \/ judges = 0 /\ unit = Retry + 1
                     \/ judges = 1 /\ unit = Retry + NumLadder + 1
  /\ pc \in {"judgeload", "verdicts", "judged"}
       => \/ judges = 1 /\ unit = Retry + 1
          \/ judges = 2

Typed == TypeOK /\ Place

LEMMA Numbers ==
  /\ NumBoard \in Nat /\ NumLadder \in Nat /\ Retry = NumBoard + 1
  /\ Units = 1..(Retry + NumLadder) /\ Board = 1..NumBoard
BY BenchAllAssumption DEF BenchAllAssumption, Units, Retry, Board

LEMMA Times ==
  /\ HardEnd \in Nat /\ Tail \in Nat /\ Lead \in Nat /\ Grace \in Nat /\ Grace > 0
  /\ Oversize \in Nat /\ MaxNow \in Nat /\ Never \in Nat /\ MaxNow < Never
  /\ JudgeCut \in Int /\ JudgeCut < Never
<1>1. /\ HardEnd \in Nat /\ Tail \in Nat /\ Lead \in Nat /\ Grace \in Nat
      /\ Oversize \in Nat /\ MaxNow \in Nat /\ Grace > 0 /\ HardEnd < MaxNow
  BY BenchAllAssumption DEF BenchAllAssumption
<1>2. QED
  BY <1>1 DEF JudgeCut, Never

LEMMA NeverInt == Never \in Int
BY Times

LEMMA Plan ==
  /\ Rows \in [Units -> Nat] /\ Planned \in [Units -> Nat] /\ Waits \in [Units -> Nat]
  /\ Estimate \in [Units -> Nat] /\ ToJudge \subseteq Units /\ IsFiniteSet(Units)
<1>1. IsFiniteSet(Units)
  BY Numbers, FS_Interval
<1>2. QED
  BY <1>1, BenchAllAssumption DEF BenchAllAssumption

LEMMA ReserveNat ==
  ASSUME NEW n \in Nat
  PROVE  Reserve(n) \in Nat /\ GenEnd(n) \in Int /\ GenEnd(n) + Grace <= JudgeCut
<1>1. PerRow \in Nat /\ Fixed \in Nat /\ Floor \in Nat
  BY BenchAllAssumption DEF BenchAllAssumption
<1>2. PerRow * n \in Nat
  BY <1>1
<1>3. QED
  BY <1>1, <1>2, Times DEF Reserve, Larger, GenEnd

LEMMA WaitingNat ==
  ASSUME pending \in [Units -> Nat], NEW m \in SUBSET Units
  PROVE  Waiting(m) \in Nat /\ Waiting(m) = SumOf(pending, m)
<1>1. Waiting(m) = SumOf(pending, m)
  BY DEF Waiting, SumOf
<1>2. QED
  BY <1>1, Plan, SumNat

LEMMA CountNat ==
  ASSUME pending \in [Units -> Nat], NEW u \in Units
  PROVE  ToBeJudged(u) \in Nat
<1>1. ToJudge \cup {u} \in SUBSET Units /\ Planned[u] \in Nat
  BY Plan
<1>2. QED
  BY <1>1, WaitingNat DEF ToBeJudged

LEMMA RowsNat ==
  ASSUME NEW u \in Units, ranOut \in Nat
  PROVE  RowsOf(u) \in Nat
BY Plan DEF RowsOf

LEMMA SiteAt ==
  ASSUME NEW u \in 1..(Retry + NumLadder + 1)
  PROVE  \/ u = Retry /\ Site(u) = "close"
         \/ u \in {Retry + 1, Retry + NumLadder + 1} /\ Site(u) = "judge"
         \/ /\ u \in Units \ {Retry, Retry + 1, Retry + NumLadder + 1}
            /\ Site(u) = "head"
BY Numbers DEF Site

(* To the unit after this one.                                             *)
LEMMA NextPlace ==
  ASSUME NEW u \in Units, judges = IF u <= Retry THEN 0 ELSE 1,
         unit' = u + 1 \/ (u <= Retry /\ u < unit' /\ unit' = Retry),
         pc' = Site(unit'), judges' = judges
  PROVE  unit' \in Units \cup {Retry + NumLadder + 1} /\ Place' /\ pc' \in Sites
<1>1. unit' \in 1..(Retry + NumLadder + 1)
  BY Numbers
<1>2. CASE unit' = Retry /\ pc' = "close"
  BY <1>2, Numbers DEF Place, Windowed, Sites
<1>3. CASE unit' \in {Retry + 1, Retry + NumLadder + 1} /\ pc' = "judge"
  BY <1>1, <1>3, Numbers DEF Place, Windowed, Sites
<1>4. CASE /\ unit' \in Units \ {Retry, Retry + 1, Retry + NumLadder + 1}
           /\ pc' = "head"
  BY <1>4, Numbers DEF Place, Windowed, Sites
<1>5. QED
  BY <1>1, <1>2, <1>3, <1>4, SiteAt

LEMMA TypedInit == Init => Typed
<1> SUFFICES ASSUME Init PROVE Typed
  OBVIOUS
<1>1. TypeOK
  <2>1. now \in 0..MaxNow /\ pc \in Sites /\ unit \in Units \cup {Retry + NumLadder + 1}
    BY Numbers, Times DEF Init, Sites
  <2>2. pending \in [Units -> Nat]
    BY Plan DEF Init
  <2>3. timer \in Int /\ deadline \in Int /\ end \in Int
    BY Times DEF Init
  <2>4. /\ firing = "no" /\ todo = 0 /\ ranOut = 0 /\ judges = 0
        /\ marked = {} /\ broke = {} /\ started = {}
        /\ windowStop = FALSE /\ stop = FALSE /\ stopping = FALSE /\ closed = FALSE
        /\ busy = FALSE /\ failed = FALSE /\ rc = FALSE
    BY DEF Init
  <2>5. /\ windowStop \in BOOLEAN /\ stop \in BOOLEAN /\ stopping \in BOOLEAN
        /\ closed \in BOOLEAN /\ busy \in BOOLEAN /\ failed \in BOOLEAN /\ rc \in BOOLEAN
    BY <2>4, Zenon
  <2>6. /\ firing \in {"no", "begun", "half"}
        /\ todo \in Nat /\ ranOut \in Nat /\ judges \in 0..2
        /\ marked \subseteq Units /\ broke \subseteq Units /\ started \subseteq Units
    BY DEF Init
  <2>7. QED
    BY <2>1, <2>2, <2>3, <2>5, <2>6 DEF TypeOK
<1>2. Place
  BY Numbers, Times, Plan DEF Init, Place, Windowed
<1>3. QED
  BY <1>1, <1>2 DEF Typed

(* The steps of a unit's admission and of the arming of its window.        *)
LEMMA TypedHead ==
  ASSUME Typed, Admit \/ Skip \/ HeadStops \/ Arm \/ Refused \/ ClearStop \/ Ran
  PROVE  Typed'
<1> USE DEF Typed, workVars, runVars, clockVars
<1>1. CASE Admit
  <2>1. GenEnd(ToBeJudged(unit)) \in Int /\ unit \in Units
    BY <1>1, CountNat, ReserveNat DEF Admit, TypeOK, Place
  <2>2. TypeOK'
    BY <1>1, <2>1, Times DEF Admit, DisarmReads, TypeOK, Sites
  <2>3. Place'
    BY <1>1 DEF Admit, Place, Windowed
  <2>4. QED
    BY <2>2, <2>3
<1>2. CASE Skip
  <2>1. unit' \in Units \cup {Retry + NumLadder + 1} /\ Place' /\ pc' \in Sites
    BY <1>2, NextPlace DEF Skip, Place
  <2>2. QED
    BY <1>2, <2>1 DEF Skip, TypeOK
<1>3. CASE HeadStops \/ Refused
  BY <1>3 DEF HeadStops, Refused, TypeOK, Place, Windowed, Sites
<1>4. CASE Arm
  <2>1. Deadline(end) \in Int
    BY Times DEF Deadline, GenCut, Smaller, TypeOK
  <2>2. QED
    BY <1>4, <2>1 DEF Arm, DisarmClears, TypeOK, Place, Windowed, Sites
<1>5. CASE ClearStop
  BY <1>5 DEF ClearStop, TypeOK, Place, Windowed, Sites
<1>6. CASE Ran
  <2>1. TypeOK'
    BY <1>6, Times DEF Ran, DisarmReads, TypeOK, Sites
  <2>2. Place'
    BY <1>6 DEF Ran, DisarmReads, Place, Windowed
  <2>3. QED
    BY <2>1, <2>2
<1>7. QED
  BY <1>1, <1>2, <1>3, <1>4, <1>5, <1>6

(* The steps of a unit's run.                                              *)
LEMMA TypedRun ==
  ASSUME Typed,
         \/ NotRun \/ Run \/ Load \/ WarmUp \/ WarmUpDropped \/ ModelFails \/ Aborted
         \/ RowStarts \/ RowDone \/ RunStopped \/ RunEnds
  PROVE  Typed'
<1> USE DEF Typed, workVars, runVars, clockVars
<1>1. CASE NotRun \/ WarmUpDropped \/ ModelFails \/ Aborted \/ RunStopped \/ RunEnds
  <2>1. /\ pc \in Windowed /\ pc' = "ran" /\ failed' \in BOOLEAN /\ busy' = FALSE
        /\ marked' \in {marked, marked \cup {unit}}
        /\ broke' \in {broke, broke \cup {unit}}
        /\ UNCHANGED <<clockVars, unit, end, todo, pending, ranOut, rc, started, judges>>
    BY <1>1
       DEF NotRun, WarmUpDropped, ModelFails, Aborted, RunStopped, RunEnds, Gives,
           Windowed
  <2>2. QED
    BY <2>1 DEF TypeOK, Place, Windowed, Sites
<1>2. CASE Run \/ WarmUp
  BY <1>2 DEF Run, WarmUp, Goes, TypeOK, Place, Windowed, Sites
<1>3. CASE Load
  <2>1. unit \in Units /\ ranOut \in Nat
    BY <1>3 DEF Load, TypeOK, Place, Windowed
  <2>2. RowsOf(unit) \in Nat
    BY <2>1, RowsNat
  <2>3. QED
    BY <1>3, <2>2 DEF Load, TypeOK, Place, Windowed, Sites
<1>4. CASE RowStarts
  BY <1>4 DEF RowStarts, RowsLeft, TypeOK, Place, Windowed, Sites
<1>5. CASE RowDone
  <2>1. TypeOK'
    <3>1. unit \in Units /\ pending' \in [Units -> Nat]
      BY <1>5 DEF RowDone, TypeOK, Place, Windowed
    <3>2. busy' = FALSE /\ UNCHANGED <<pc, clockVars, unit, end, todo, failed, rc, marked,
                                       broke, started, judges>>
      BY <1>5 DEF RowDone
    <3>3. ranOut' \in Nat
      BY <1>5 DEF RowDone, TypeOK
    <3>4. QED
      BY <3>1, <3>2, <3>3 DEF TypeOK
  <2>2. Place'
    BY <1>5 DEF RowDone, Place, Windowed
  <2>3. QED
    BY <2>1, <2>2
<1>6. QED
  BY <1>1, <1>2, <1>3, <1>4, <1>5

(* The end of a unit, the judge, the end of the night, the timer and time. *)
LEMMA TypedNight ==
  ASSUME Typed,
         \/ Disarm \/ Close \/ Judge \/ JudgeLoads \/ JudgeFails
         \/ VerdictStarts \/ VerdictDone \/ JudgeEnds \/ NightGoesOn \/ NightCloses
         \/ Report \/ Fire \/ Tick \/ Sigterm
  PROVE  Typed'
<1> USE DEF Typed, workVars, runVars, clockVars
<1>1. CASE Disarm
  <2>1. unit \in Units /\ judges = IF unit <= Retry THEN 0 ELSE 1
    BY <1>1 DEF Disarm, Place
  <2>2. unit' = unit + 1 \/ (unit <= Retry /\ unit < unit' /\ unit' = Retry)
    BY <1>1, <2>1, Numbers, Times, Plan DEF Disarm
  <2>3. unit' \in Units \cup {Retry + NumLadder + 1} /\ Place' /\ pc' \in Sites
    BY <1>1, <2>1, <2>2, NextPlace DEF Disarm
  <2>4. stop' \in {FALSE, stop} /\ windowStop' = FALSE /\ deadline' = Never
    BY <1>1 DEF Disarm, DisarmClears
  <2>5. rc' \in BOOLEAN
    BY <1>1 DEF Disarm
  <2>6. stop' \in BOOLEAN /\ windowStop' \in BOOLEAN
    BY <2>4 DEF TypeOK
  <2>7. stop' \in BOOLEAN /\ rc' \in BOOLEAN /\ windowStop' \in BOOLEAN /\ deadline' \in Int
    BY <2>4, <2>5, <2>6, NeverInt, Zenon
  <2>8. UNCHANGED <<now, timer, firing, stopping, closed, end, busy, todo, pending, ranOut,
                    failed, marked, broke, started, judges>>
    BY <1>1 DEF Disarm
  <2>9. QED
    BY <2>3, <2>7, <2>8 DEF TypeOK
<1>2. CASE Close
  <2>1. TypeOK'
    <3>1. stop' \in {FALSE, stop} /\ windowStop' = FALSE /\ deadline' = Never
          /\ timer' = Never
      BY <1>2 DEF Close, Disarmed
    <3>2. stop' \in BOOLEAN /\ windowStop' \in BOOLEAN
      BY <3>1 DEF TypeOK
    <3>3. stop' \in BOOLEAN /\ windowStop' \in BOOLEAN /\ deadline' \in Int
          /\ timer' \in Int
      BY <3>1, <3>2, NeverInt, Zenon
    <3>4. pc' \in Sites /\ UNCHANGED <<now, firing, stopping, closed, workVars>>
      BY <1>2 DEF Close, Sites
    <3>5. QED
      BY <3>3, <3>4 DEF TypeOK
  <2>2. Place'
    BY <1>2, Numbers DEF Close, Disarmed, Place, Windowed
  <2>3. QED
    BY <2>1, <2>2
<1>3. CASE Judge
  <2>1. judges' \in 1..2 /\ pc' \in {"stopped", "judgeload", "judged"}
    BY <1>3 DEF Judge, Place
  <2>2. QED
    BY <1>3, <2>1 DEF Judge, TypeOK, Place, Windowed, Sites
<1>4. CASE JudgeLoads \/ JudgeFails \/ Report
  BY <1>4 DEF JudgeLoads, JudgeFails, Report, Goes, TypeOK, Place, Windowed, Sites
<1>5. CASE NightGoesOn
  <2>1. judges = 1 /\ unit = Retry + 1 /\ NumLadder > 0
    BY <1>5 DEF NightGoesOn, ToLadder, Place
  <2>2. QED
    BY <1>5, <2>1, Numbers, Times, Plan DEF NightGoesOn, Goes, TypeOK, Place, Windowed, Sites
<1>6. CASE NightCloses
  <2>1. TypeOK'
    <3>1. stop' \in {FALSE, stop} /\ windowStop' = FALSE /\ deadline' = Never
          /\ timer' = Never
      BY <1>6 DEF NightCloses, Disarmed
    <3>2. stop' \in BOOLEAN /\ windowStop' \in BOOLEAN
      BY <3>1 DEF TypeOK
    <3>3. stop' \in BOOLEAN /\ windowStop' \in BOOLEAN /\ deadline' \in Int
          /\ timer' \in Int
      BY <3>1, <3>2, NeverInt, Zenon
    <3>4. pc' \in Sites /\ UNCHANGED <<now, firing, stopping, closed, workVars>>
      BY <1>6 DEF NightCloses, Sites
    <3>5. QED
      BY <3>3, <3>4 DEF TypeOK
  <2>2. Place'
    BY <1>6 DEF NightCloses, Disarmed, Place, Windowed
  <2>3. QED
    BY <2>1, <2>2
<1>7. CASE VerdictStarts \/ JudgeEnds
  BY <1>7 DEF VerdictStarts, JudgeEnds, TypeOK, Place, Windowed, Sites
<1>8. CASE VerdictDone
  <2>1. TypeOK'
    <3>1. PICK u \in Judged(judges) : pending[u] > 0
                                      /\ pending' = [pending EXCEPT ![u] = @ - 1]
      BY <1>8 DEF VerdictDone
    <3>2. pending' \in [Units -> Nat]
      <4>1. CASE u \in Units
        BY <3>1, <4>1 DEF TypeOK
      <4>2. CASE u \notin Units
        BY <3>1, <4>2 DEF TypeOK
      <4>3. QED
        BY <4>1, <4>2
    <3>3. busy' = FALSE /\ UNCHANGED <<pc, clockVars, unit, end, todo, ranOut, failed, rc,
                                       marked, broke, started, judges>>
      BY <1>8 DEF VerdictDone
    <3>4. QED
      BY <3>3, <3>2 DEF TypeOK
  <2>2. Place'
    BY <1>8 DEF VerdictDone, Place, Windowed
  <2>3. QED
    BY <2>1, <2>2
<1>9. CASE Fire \/ Sigterm
  <2>1. /\ firing' \in {firing, "no", "begun", "half"} /\ timer' \in {timer, Never}
        /\ windowStop' \in {windowStop, TRUE} /\ stop' \in {stop, TRUE}
        /\ stopping' \in {stopping, TRUE}
        /\ UNCHANGED <<now, pc, deadline, closed, workVars>>
    BY <1>9 DEF Fire, Sigterm
  <2>2. timer' \in Int
    BY <2>1, Times DEF TypeOK
  <2>3. TypeOK'
    BY <2>1, <2>2 DEF TypeOK
  <2>4. Place'
    BY <1>9 DEF Fire, Sigterm, Place, Windowed
  <2>5. QED
    BY <2>4, <2>3
<1>10. CASE Tick
  <2>1. TypeOK'
    BY <1>10, Times DEF Tick, TypeOK, Sites
  <2>2. Place'
    BY <1>10 DEF Tick, Place, Windowed
  <2>3. QED
    BY <2>1, <2>2
<1>11. QED
  BY <1>1, <1>2, <1>3, <1>4, <1>5, <1>6, <1>7, <1>8, <1>9, <1>10

LEMMA TypedStep == Typed /\ [Next]_vars => Typed'
<1>1. CASE UNCHANGED vars
  BY <1>1 DEF vars, clockVars, workVars, runVars, Typed, TypeOK, Place
<1>2. QED
  BY <1>1, TypedHead, TypedRun, TypedNight DEF Next, Steady

(* Every variable has its type and the units come in their order: a unit   *)
(* of the ladder only after the first judge, and two judge phases at most. *)
THEOREM TypeCorrect == Spec => []TypeOK
<1>1. Spec => []Typed
  BY TypedInit, TypedStep, PTL DEF Spec
<1>2. QED
  BY <1>1, PTL DEF Typed

-----------------------------------------------------------------------------
(* A window edge is no failure.                                            *)

Armed   == Windowed \ {"arm"}
Running == Armed \ {"preamble"}

(* What the timer of an armed window has done: it is due at the unit's end *)
(* or has gone off, and no minute passes after it without WINDOW_STOP.     *)
InWindow ==
  /\ pc = "arm" => now <= end
  /\ pc \in Windowed => end + Grace <= JudgeCut
  /\ pc \in Armed => /\ deadline = GenCut(end)
                     /\ timer \in {end, Never}
                     /\ timer = Never => firing = "begun" \/ windowStop
                     /\ now <= end \/ windowStop
  /\ pc \in Running => /\ stop => stopping \/ windowStop
                       /\ firing = "half" => windowStop

(* Until it is read, a run's exit code is the window's or has a cause.     *)
Excused ==
  /\ pc = "ran" /\ failed /\ unit \in Board => broke # {} \/ stopping \/ windowStop
  /\ pc = "disarm" /\ failed /\ unit \in Board => broke # {} \/ stopping \/ closed
  /\ CutIsNoFailure

Cut == Typed /\ InWindow /\ Excused

LEMMA PastDeadline ==
  ASSUME Typed, InWindow, pc \in Armed, now >= deadline
  PROVE  windowStop
<1>1. end < GenCut(end)
  <2>1. end + Grace <= JudgeCut /\ end \in Int
    BY DEF InWindow, Armed, Typed, TypeOK
  <2>2. QED
    BY <2>1, Times DEF GenCut, Smaller
<1>2. now > end
  BY <1>1 DEF InWindow, Typed, TypeOK
<1>3. QED
  BY <1>2 DEF InWindow, Typed, TypeOK

LEMMA AdmitInTime ==
  ASSUME Typed, Admit
  PROVE  now <= end' /\ end' + Grace <= JudgeCut /\ end' \in Int
<1>1. unit \in Units /\ now \in Nat /\ pending \in [Units -> Nat]
  BY DEF Admit, Typed, TypeOK, Place
<1>2. /\ ToBeJudged(unit) \in Nat /\ GenEnd(ToBeJudged(unit)) \in Int
      /\ GenEnd(ToBeJudged(unit)) + Grace <= JudgeCut
  BY <1>1, CountNat, ReserveNat
<1>3. Fits(Estimate[unit], ToBeJudged(unit)) \/ StartsOversize(unit)
  BY DEF Admit, Enters
<1>4. Estimate[unit] \in Nat /\ Oversize \in Nat
  BY <1>1, Plan, Times
<1>5. now <= GenEnd(ToBeJudged(unit))
  BY <1>1, <1>2, <1>3, <1>4 DEF Fits, StartsOversize
<1>6. QED
  BY <1>2, <1>5 DEF Admit

LEMMA CutInit == Init => Cut
<1> SUFFICES ASSUME Init PROVE Cut
  OBVIOUS
<1>1. InWindow
  BY DEF Init, InWindow, Windowed, Armed, Running
<1>2. Excused
  BY DEF Init, Excused, CutIsNoFailure
<1>3. QED
  BY <1>1, <1>2, TypedInit DEF Cut

LEMMA CutHead ==
  ASSUME Cut, Typed', Admit \/ Skip \/ HeadStops \/ Arm \/ Refused \/ ClearStop \/ Ran
  PROVE  InWindow' /\ Excused'
<1> USE DEF Cut, workVars, runVars, clockVars
<1>1. CASE Admit
  BY <1>1, AdmitInTime
     DEF Admit, InWindow, Windowed, Armed, Running, Excused, CutIsNoFailure
<1>2. CASE Skip
  <2>1. pc' \notin Windowed \cup {"ran", "disarm"}
    BY <1>2 DEF Skip, Site, Windowed
  <2>2. QED
    BY <1>2, <2>1 DEF Skip, InWindow, Armed, Running, Windowed, Excused, CutIsNoFailure
<1>3. CASE HeadStops \/ Refused
  BY <1>3 DEF HeadStops, Refused, InWindow, Windowed, Armed, Running, Excused,
              CutIsNoFailure
<1>4. CASE Arm
  <2>1. now <= end /\ end + Grace <= JudgeCut /\ end # Never
    BY <1>4, Times DEF Arm, InWindow, Windowed, Typed, TypeOK
  <2>2. InWindow'
    BY <1>4, <2>1 DEF Arm, Deadline, GenCut, InWindow, Windowed, Armed, Running
  <2>3. Excused'
    BY <1>4 DEF Arm, Excused, CutIsNoFailure
  <2>4. QED
    BY <2>2, <2>3
<1>5. CASE ClearStop
  BY <1>5 DEF ClearStop, InWindow, Windowed, Armed, Running, GenCut, Excused,
              CutIsNoFailure
<1>6. CASE Ran
  BY <1>6 DEF Ran, DisarmReads, InWindow, Windowed, Armed, Running, Excused,
              CutIsNoFailure
<1>7. QED
  BY <1>1, <1>2, <1>3, <1>4, <1>5, <1>6

LEMMA CutRun ==
  ASSUME Cut, Typed',
         \/ NotRun \/ Run \/ Load \/ WarmUp \/ WarmUpDropped \/ ModelFails \/ Aborted
         \/ RowStarts \/ RowDone \/ RunStopped \/ RunEnds
  PROVE  InWindow' /\ Excused'
<1> USE DEF Cut, workVars, runVars, clockVars
<1>1. CASE NotRun \/ WarmUpDropped \/ ModelFails \/ Aborted \/ RunStopped \/ RunEnds
  <2>1. pc' = "ran" /\ UNCHANGED <<clockVars, unit, rc>> /\ broke \subseteq broke'
    BY <1>1
       DEF NotRun, WarmUpDropped, ModelFails, Aborted, RunStopped, RunEnds, Gives
  <2>2. failed' => broke' # {} \/ stopping \/ windowStop
    <3>1. CASE NotRun
      BY <3>1 DEF NotRun, StopAsked, InWindow, Running, Armed, Windowed
    <3>2. CASE WarmUpDropped
      BY <3>2, PastDeadline DEF WarmUpDropped, Armed, Windowed
    <3>3. CASE ModelFails \/ Aborted
      BY <3>3 DEF ModelFails, Aborted
    <3>4. CASE RunStopped
      BY <3>4, PastDeadline DEF RunStopped, InWindow, Running, Armed, Windowed
    <3>5. CASE RunEnds
      BY <3>5 DEF RunEnds, Gives
    <3>6. QED
      BY <1>1, <3>1, <3>2, <3>3, <3>4, <3>5
  <2>3. QED
    BY <2>1, <2>2 DEF InWindow, Windowed, Armed, Running, Excused, CutIsNoFailure
<1>2. CASE Run \/ WarmUp \/ Load \/ RowStarts \/ RowDone
  <2>1. /\ pc \in Running /\ pc' \in Running
        /\ UNCHANGED <<clockVars, unit, end, failed, rc, broke>>
    BY <1>2 DEF Run, WarmUp, Load, RowStarts, RowDone, Goes, Running, Armed, Windowed
  <2>2. QED
    BY <2>1 DEF InWindow, Windowed, Armed, Running, GenCut, Excused, CutIsNoFailure
<1>3. QED
  BY <1>1, <1>2

LEMMA CutNight ==
  ASSUME Cut, Typed',
         \/ Disarm \/ Close \/ Judge \/ JudgeLoads \/ JudgeFails
         \/ VerdictStarts \/ VerdictDone \/ JudgeEnds \/ NightGoesOn \/ NightCloses
         \/ Report \/ Fire \/ Tick \/ Sigterm
  PROVE  InWindow' /\ Excused'
<1> USE DEF Cut, workVars, runVars, clockVars
<1>1. CASE Disarm
  <2>1. pc' \notin Windowed \cup {"ran", "disarm"}
    BY <1>1 DEF Disarm, Site, Windowed
  <2>2. rc' => rc \/ broke # {} \/ stopping
    BY <1>1 DEF Disarm, Failure, Excused
  <2>3. QED
    BY <1>1, <2>1, <2>2
       DEF Disarm, InWindow, Armed, Running, Windowed, Excused, CutIsNoFailure
<1>2. CASE Close \/ NightCloses
  <2>1. /\ pc' \notin Windowed \cup {"ran", "disarm"}
        /\ UNCHANGED <<rc, broke, stopping>>
    BY <1>2 DEF Close, NightCloses, Windowed
  <2>2. InWindow'
    BY <2>1 DEF InWindow, Armed, Running, Windowed
  <2>3. Excused'
    BY <2>1 DEF Excused, CutIsNoFailure
  <2>4. QED
    BY <2>2, <2>3
<1>3. CASE Judge \/ JudgeLoads \/ JudgeFails \/ NightGoesOn \/ Report
  BY <1>3 DEF Judge, JudgeLoads, JudgeFails, NightGoesOn, Report, Goes, InWindow,
              Windowed, Armed, Running, Excused, CutIsNoFailure
<1>4. CASE VerdictStarts \/ VerdictDone \/ JudgeEnds
  BY <1>4 DEF VerdictStarts, VerdictDone, JudgeEnds, InWindow, Windowed, Armed, Running,
              Excused, CutIsNoFailure
<1>5. CASE Fire
  <2>1. InWindow'
    BY <1>5 DEF Fire, InWindow, GenCut
  <2>2. Excused'
    BY <1>5 DEF Fire, Excused, CutIsNoFailure
  <2>3. QED
    BY <2>1, <2>2
<1>6. CASE Tick
  <2>1. now' <= end \/ windowStop \/ pc \notin Armed
    BY <1>6, Times DEF Tick, InWindow, Typed, TypeOK
  <2>2. pc # "arm"
    BY <1>6 DEF Tick, Takes
  <2>3. QED
    BY <1>6, <2>1, <2>2 DEF Tick, InWindow, GenCut, Excused, CutIsNoFailure
<1>7. CASE Sigterm
  BY <1>7 DEF Sigterm, InWindow, GenCut, Excused, CutIsNoFailure
<1>8. QED
  BY <1>1, <1>2, <1>3, <1>4, <1>5, <1>6, <1>7

LEMMA CutStep == Cut /\ [Next]_vars => Cut'
<1>1. CASE UNCHANGED vars
  BY <1>1 DEF vars, clockVars, workVars, runVars, Cut, Typed, TypeOK, Place, InWindow,
              GenCut, Excused, CutIsNoFailure
<1>2. CASE Cut /\ Next
  <2>1. Typed'
    BY <1>2, TypedStep DEF Cut
  <2>2. InWindow' /\ Excused'
    BY <1>2, <2>1, CutHead, CutRun, CutNight DEF Next, Steady
  <2>3. QED
    BY <2>1, <2>2 DEF Cut
<1>3. QED
  BY <1>1, <1>2

(* A night that was only cut by its window reports no failure, wherever    *)
(* the timer's thread was when its units ended.                            *)
THEOREM CutIsNeverAFailure == Spec => []CutIsNoFailure
<1>1. Spec => []Cut
  BY CutInit, CutStep, PTL DEF Spec
<1>2. Cut => CutIsNoFailure
  BY DEF Cut, Excused
<1>3. QED
  BY <1>1, <1>2, PTL

-----------------------------------------------------------------------------
(* The judge's time.                                                       *)

(* The units whose rows an admission looks at, the rows the unit's run may *)
(* still hand over, and the window's end: set for n rows, which all that   *)
(* can wait by then exceed only by what the unit has more than planned.    *)
CountedUnits == ToJudge \cup {unit}

Left == IF pc \in {"warm", "rows"}
        THEN todo + (IF busy THEN 1 ELSE 0) ELSE RowsOf(unit)

Holds(n) ==
  /\ end = GenEnd(n)
  /\ SumOf(pending, CountedUnits) + Left <= (n + RowsOf(unit)) - Planned[unit]

Roomy ==
  /\ busy => pc \in {"rows", "verdicts"}
  /\ pc = "rows" /\ busy => now <= deadline
  /\ pc \in Windowed => \E n \in Nat : Holds(n)

Kept == Cut /\ Roomy

LEMMA ReserveGrows ==
  ASSUME NEW m \in Int, NEW n \in Nat, m <= n
  PROVE  Reserve(m) \in Nat /\ Reserve(m) <= Reserve(n)
<1>1. PerRow \in Nat /\ Fixed \in Nat /\ Floor \in Nat
  BY BenchAllAssumption DEF BenchAllAssumption
<1>2. CASE m > 0
  <2>1. PerRow * m \in Nat /\ PerRow * n \in Nat /\ PerRow * m <= PerRow * n
    BY <1>1, <1>2
  <2>2. QED
    BY <1>1, <1>2, <2>1 DEF Reserve, Larger
<1>3. CASE m <= 0
  <2>1. PerRow * n \in Nat
    BY <1>1
  <2>2. QED
    BY <1>1, <1>3, <2>1 DEF Reserve, Larger
<1>4. QED
  BY <1>2, <1>3

LEMMA KeptMeansReserve == Kept => ReserveKept
<1> DEFINE rows == Waiting(CountedUnits) + 1 - Uncounted
<1> SUFFICES ASSUME Kept, pc = "rows", busy
             PROVE  now + Reserve(rows) <= JudgeCut
  BY DEF ReserveKept, CountedUnits
<1>1. PICK n \in Nat : Holds(n)
  BY DEF Kept, Roomy, Windowed
<1>2. /\ pending \in [Units -> Nat] /\ todo \in Nat /\ now \in Nat /\ ranOut \in Nat
      /\ deadline = GenCut(end) /\ now <= deadline
  BY DEF Kept, Cut, Typed, TypeOK, InWindow, Armed, Windowed, Roomy
<1>3. unit \in Units /\ CountedUnits \in SUBSET Units
  BY Plan DEF Kept, Cut, Typed, Place, Windowed, CountedUnits
<1>4. /\ Waiting(CountedUnits) \in Nat
      /\ Waiting(CountedUnits) = SumOf(pending, CountedUnits)
  BY <1>2, <1>3, WaitingNat
<1>5. RowsOf(unit) \in Nat /\ Planned[unit] \in Nat
  BY <1>2, <1>3, RowsNat, Plan
<1>6. Waiting(CountedUnits) + todo + 1 <= (n + RowsOf(unit)) - Planned[unit]
  BY <1>1, <1>2, <1>4 DEF Holds, Left
<1>7. rows \in Int /\ rows <= n
  BY <1>2, <1>4, <1>5, <1>6 DEF Uncounted, Larger
<1> HIDE DEF rows
<1>8. Reserve(rows) \in Nat /\ Reserve(rows) <= Reserve(n) /\ Reserve(n) \in Nat
  BY <1>7, ReserveGrows, ReserveNat
<1>9. now <= end + Grace /\ end = JudgeCut - (Reserve(n) + Grace)
  BY <1>1, <1>2, <1>8, Times DEF GenCut, Smaller, Holds, GenEnd
<1>10. QED
  BY <1>2, <1>8, <1>9, Times

LEMMA RowCounted ==
  ASSUME NEW f \in [Units -> Nat], NEW S \in SUBSET Units, NEW u \in S
  PROVE  SumOf([f EXCEPT ![u] = @ + 1], S) = SumOf(f, S) + 1
<1> DEFINE g == [f EXCEPT ![u] = @ + 1]
<1>1. /\ g \in [Units -> Nat] /\ g[u] = f[u] + 1 /\ f[u] \in Nat
      /\ \A y \in S \ {u} : g[y] = f[y]
  OBVIOUS
<1> HIDE DEF g
<1>2. SumOf(g, S) = (SumOf(f, S) - f[u]) + g[u]
  BY <1>1, Plan, SumChanges
<1>3. SumOf(f, S) \in Nat
  BY Plan, SumNat
<1>4. SumOf(g, S) = SumOf(f, S) + 1
  BY <1>1, <1>2, <1>3
<1>5. QED
  BY <1>4 DEF g

LEMMA KeptInit == Init => Kept
<1> SUFFICES ASSUME Init PROVE Kept
  OBVIOUS
<1>1. Roomy
  BY DEF Init, Roomy, Windowed
<1>2. QED
  BY <1>1, CutInit DEF Kept

(* A step of the unit after which as many rows may be left as before.      *)
LEMMA RoomySame ==
  ASSUME Kept, pc \in Windowed, UNCHANGED <<unit, end, pending, ranOut>>, Left' = Left,
         busy' => pc' = "rows" /\ now' <= deadline'
  PROVE  Roomy'
<1>1. UNCHANGED <<CountedUnits, RowsOf(unit)>>
  BY DEF CountedUnits, RowsOf
<1>2. QED
  BY <1>1 DEF Kept, Roomy, Holds, GenEnd

LEMMA RoomyHead ==
  ASSUME Kept, Admit \/ Skip \/ HeadStops \/ Arm \/ Refused \/ ClearStop \/ Ran
  PROVE  Roomy'
<1> USE DEF Kept, workVars, runVars, clockVars
<1>1. ~busy
  BY DEF Admit, Skip, HeadStops, Arm, Refused, ClearStop, Ran, Roomy
<1>2. CASE Admit
  <2>1. /\ end' = GenEnd(ToBeJudged(unit)) /\ pc' = "arm"
        /\ UNCHANGED <<unit, busy, pending, ranOut>>
    BY <1>2 DEF Admit
  <2>2. unit \in Units /\ pending \in [Units -> Nat] /\ ranOut \in Nat
    BY <1>2 DEF Admit, Cut, Typed, TypeOK, Place
  <2>3. /\ SumOf(pending, CountedUnits) \in Nat
        /\ ToBeJudged(unit) = SumOf(pending, CountedUnits) + Planned[unit]
    BY <2>2, Plan, WaitingNat DEF ToBeJudged, CountedUnits
  <2>4. RowsOf(unit) \in Nat /\ Planned[unit] \in Nat
    BY <2>2, RowsNat, Plan
  <2>5. PICK n \in Nat : n = ToBeJudged(unit)
    BY <2>2, CountNat
  <2>6. UNCHANGED <<CountedUnits, RowsOf(unit)>> /\ Left' = RowsOf(unit)
    BY <2>1 DEF CountedUnits, RowsOf, Left
  <2>7. Holds(n)'
    BY <2>1, <2>3, <2>4, <2>5, <2>6 DEF Holds, GenEnd
  <2>8. QED
    BY <1>1, <2>1, <2>7 DEF Roomy
<1>3. CASE Skip
  BY <1>1, <1>3 DEF Skip, Site, Windowed, Roomy
<1>4. CASE HeadStops \/ Refused \/ Ran
  BY <1>1, <1>4 DEF HeadStops, Refused, Ran, Windowed, Roomy
<1>5. CASE Arm
  BY <1>1, <1>5, RoomySame DEF Arm, Left, RowsOf, Windowed
<1>6. CASE ClearStop /\ pc' = "ran"
  BY <1>1, <1>6 DEF ClearStop, Windowed, Roomy
<1>7. CASE ClearStop /\ pc' = "run"
  BY <1>1, <1>7, RoomySame DEF ClearStop, Left, RowsOf, Windowed
<1>8. QED
  BY <1>2, <1>3, <1>4, <1>5, <1>6, <1>7 DEF ClearStop

LEMMA RoomyRun ==
  ASSUME Kept,
         \/ NotRun \/ Run \/ Load \/ WarmUp \/ WarmUpDropped \/ ModelFails \/ Aborted
         \/ RowStarts \/ RowDone \/ RunStopped \/ RunEnds
  PROVE  Roomy'
<1> USE DEF Kept, workVars, runVars, clockVars
<1>1. todo \in Nat /\ pending \in [Units -> Nat] /\ ranOut \in Nat
  BY DEF Cut, Typed, TypeOK
<1>2. pc \in Windowed
  BY DEF NotRun, Run, Load, WarmUp, WarmUpDropped, ModelFails, Aborted, RowStarts,
         RowDone, RunStopped, RunEnds, Windowed
<1>3. /\ unit \in Units /\ RowsOf(unit) \in Nat /\ Planned[unit] \in Nat
      /\ CountedUnits \in SUBSET Units /\ unit \in CountedUnits
  BY <1>1, <1>2, Plan, RowsNat DEF Cut, Typed, Place, CountedUnits
<1>4. CASE NotRun \/ WarmUpDropped \/ ModelFails \/ Aborted \/ RunStopped \/ RunEnds
  <2>1. pc' = "ran" /\ ~busy'
    BY <1>4
       DEF NotRun, WarmUpDropped, ModelFails, Aborted, RunStopped, RunEnds, Gives
  <2>2. QED
    BY <2>1 DEF Windowed, Roomy
<1>5. CASE Run \/ WarmUp
  <2>1. ~busy
    BY <1>5 DEF Run, WarmUp, Roomy
  <2>2. QED
    BY <1>5, <2>1, RoomySame DEF Run, WarmUp, Goes, Left, RowsOf, Windowed
<1>6. CASE Load
  <2>1. ~busy
    BY <1>6 DEF Load, Roomy
  <2>2. Left' = RowsOf(unit) /\ Left = RowsOf(unit)
    BY <1>3, <1>6, <2>1 DEF Load, Left, RowsOf
  <2>3. QED
    BY <1>6, <2>1, <2>2, RoomySame DEF Load, Windowed
<1>7. CASE RowStarts
  <2>1. Left' = Left
    BY <1>1, <1>7 DEF RowStarts, Left
  <2>2. now' <= deadline' /\ pc = "rows" /\ pc' = "rows"
    BY <1>7, Times DEF RowStarts, Cut, Typed, TypeOK
  <2>3. QED
    BY <1>7, <2>1, <2>2, RoomySame DEF RowStarts, Windowed
<1>8. CASE RowDone
  <2>1. /\ pc = "rows" /\ busy /\ pc' = "rows" /\ ~busy' /\ todo' = todo
        /\ pending' = [pending EXCEPT ![unit] = @ + 1] /\ UNCHANGED <<unit, end>>
    BY <1>8 DEF RowDone
  <2>2. PICK n \in Nat : Holds(n)
    BY <2>1 DEF Roomy, Windowed
  <2>3. SumOf(pending, CountedUnits) \in Nat
    BY <1>1, <1>3, Plan, SumNat
  <2>4. SumOf(pending', CountedUnits) = SumOf(pending, CountedUnits) + 1
    BY <1>1, <1>3, <2>1, RowCounted
  <2>5. Left = todo + 1 /\ Left' = todo
    BY <1>1, <2>1 DEF Left
  <2>6. CountedUnits' = CountedUnits
    BY <2>1 DEF CountedUnits
  <2>7. RowsOf(unit)' = RowsOf(unit)
    <3>1. unit = Retry => ranOut' = ranOut
      BY <1>8, Numbers DEF RowDone
    <3>2. QED
      BY <2>1, <3>1 DEF RowsOf
  <2>8. Holds(n)'
    BY <1>1, <1>3, <2>1, <2>2, <2>3, <2>4, <2>5, <2>6, <2>7 DEF Holds, GenEnd
  <2>9. QED
    BY <2>1, <2>8 DEF Roomy
<1>9. QED
  BY <1>4, <1>5, <1>6, <1>7, <1>8

LEMMA RoomyNight ==
  ASSUME Kept,
         \/ Disarm \/ Close \/ Judge \/ JudgeLoads \/ JudgeFails
         \/ VerdictStarts \/ VerdictDone \/ JudgeEnds \/ NightGoesOn \/ NightCloses
         \/ Report \/ Fire \/ Tick \/ Sigterm
  PROVE  Roomy'
<1> USE DEF Kept, workVars, runVars, clockVars
<1>1. CASE Disarm
  BY <1>1 DEF Disarm, Site, Windowed, Roomy
<1>2. CASE Close \/ Judge \/ JudgeLoads \/ JudgeFails \/ NightGoesOn \/ NightCloses
           \/ Report
  BY <1>2 DEF Close, Judge, JudgeLoads, JudgeFails, NightGoesOn, NightCloses, Report,
              Goes, Roomy, Windowed
<1>3. CASE JudgeEnds \/ VerdictStarts \/ VerdictDone
  BY <1>3 DEF JudgeEnds, VerdictStarts, VerdictDone, Roomy, Windowed
<1>4. CASE Fire \/ Sigterm
  <2>1. UNCHANGED <<now, pc, busy, todo, deadline, pending, end, unit, ranOut>>
    BY <1>4 DEF Fire, Sigterm
  <2>2. UNCHANGED <<Left, CountedUnits, RowsOf(unit)>>
    BY <2>1 DEF Left, CountedUnits, RowsOf
  <2>3. QED
    BY <2>1, <2>2 DEF Roomy, Holds, GenEnd
<1>5. CASE Tick
  <2>1. pc = "rows" /\ busy => now' <= deadline
    BY <1>5, Times DEF Tick, Takes, Cut, Typed, TypeOK
  <2>2. QED
    BY <1>5, <2>1 DEF Tick, Roomy, Holds, GenEnd, Left, RowsOf, CountedUnits
<1>6. QED
  BY <1>1, <1>2, <1>3, <1>4, <1>5

LEMMA KeptStep == Kept /\ [Next]_vars => Kept'
<1>1. CASE UNCHANGED vars
  BY <1>1, CutStep DEF vars, clockVars, workVars, runVars, Kept, Roomy, Holds, GenEnd,
                       Left, RowsOf, CountedUnits
<1>2. CASE Kept /\ Next
  <2>1. Cut'
    BY <1>2, CutStep DEF Kept
  <2>2. Roomy'
    BY <1>2, RoomyHead, RoomyRun, RoomyNight DEF Next, Steady
  <2>3. QED
    BY <2>1, <2>2 DEF Kept
<1>3. QED
  BY <1>1, <1>2

(* While a row of a unit is in flight the judge has the time left for all  *)
(* that the unit's admission counts, for any plan, any estimates and any   *)
(* rows, planned or not: through a lost STOP, a row that hangs and a model *)
(* that loads past its window.                                             *)
THEOREM ReserveIsKept == Spec => []ReserveKept
<1>1. Init => Kept
  BY KeptInit
<1>2. Kept /\ [Next]_vars => Kept'
  BY KeptStep
<1>3. Spec => []Kept
  BY <1>1, <1>2, PTL DEF Spec
<1>4. QED
  BY <1>3, KeptMeansReserve, PTL

-----------------------------------------------------------------------------
(* A SIGTERM holds.                                                        *)

Begins == \/ busy' /\ ~busy
          \/ pc' \in {"load", "judgeload", "report"} /\ pc' # pc

LEMMA MainBegins ==
  ASSUME stopping,
         \/ Admit \/ Skip \/ HeadStops \/ Arm \/ ClearStop \/ NotRun \/ Run \/ Load
         \/ WarmUp \/ WarmUpDropped \/ Aborted \/ RowStarts \/ RunStopped \/ RunEnds
         \/ Refused \/ ModelFails \/ RowDone
  PROVE  ~Begins
<1> USE DEF Begins, workVars, runVars
<1>1. CASE Admit \/ HeadStops \/ Arm \/ ClearStop \/ Refused
  BY <1>1 DEF Admit, HeadStops, Arm, ClearStop, Refused
<1>2. CASE Skip
  BY <1>2 DEF Skip
<1>3. CASE NotRun \/ WarmUpDropped \/ ModelFails \/ Aborted \/ RunStopped \/ RunEnds
  BY <1>3 DEF NotRun, WarmUpDropped, ModelFails, Aborted, RunStopped, RunEnds, Gives
<1>4. CASE Run \/ Load \/ WarmUp \/ RowStarts \/ RowDone
  BY <1>4 DEF Run, Load, WarmUp, RowStarts, RowDone, StopAsked
<1>5. QED
  BY <1>1, <1>2, <1>3, <1>4

LEMMA SiteBegins == \A u : Site(u) \notin {"load", "judgeload", "report"}
BY DEF Site

LEMMA NightBegins ==
  ASSUME stopping,
         \/ Ran \/ Disarm \/ Close \/ Judge \/ JudgeLoads \/ JudgeFails
         \/ VerdictStarts \/ VerdictDone \/ JudgeEnds \/ NightGoesOn \/ NightCloses
         \/ Report \/ Fire \/ Tick \/ Sigterm
  PROVE  ~Begins
<1> USE DEF Begins, workVars, runVars
<1>1. CASE Disarm
  BY <1>1, SiteBegins DEF Disarm
<1>2. CASE Ran \/ Close \/ Fire \/ Tick \/ Sigterm
  BY <1>2 DEF Ran, Close, Fire, Tick, Sigterm
<1>3. CASE Judge \/ NightCloses
  BY <1>3 DEF Judge, NightCloses
<1>4. CASE JudgeLoads \/ JudgeFails \/ NightGoesOn \/ Report
  BY <1>4 DEF JudgeLoads, JudgeFails, NightGoesOn, Report, Goes
<1>5. CASE VerdictStarts \/ VerdictDone \/ JudgeEnds
  BY <1>5 DEF VerdictStarts, VerdictDone, JudgeEnds, Halted
<1>6. QED
  BY <1>1, <1>2, <1>3, <1>4, <1>5

(* After a SIGTERM a night begins no model, no judge phase, no report and  *)
(* no request, although the next run of a unit clears STOP.                *)
THEOREM StopHoldsAlways == Spec => StopHolds
<1>1. ASSUME stopping, [Next]_vars
      PROVE  ~Begins
  <2>1. CASE Next
    BY <1>1, <2>1, MainBegins, NightBegins DEF Next, Steady
  <2>2. CASE UNCHANGED vars
    BY <2>2, SiteBegins DEF vars, workVars, runVars, Begins
  <2>3. QED
    BY <1>1, <2>1, <2>2
<1>2. [Next]_vars => [stopping => /\ busy' => busy
                                  /\ pc' \in {"load", "judgeload", "report"}
                                       => pc' = pc]_vars
  BY <1>1 DEF Begins
<1>3. QED
  BY <1>2, PTL DEF Spec, StopHolds
=============================================================================
