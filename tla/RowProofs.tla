------------------------------ MODULE RowProofs ------------------------------
(* Proofs about one row of a model run: which load round it is in, what    *)
(* window and budget it gets there (Rounds), and how it gets its           *)
(* completions (Completion).                                               *)
(*                                                                         *)
(* Rounds: every job is in one round, the budgets hold and the narrow rows *)
(* keep their window, for any cases, budgets and contexts.  The largest of *)
(* a set is the Max of the community modules; that a finite set has one is *)
(* proved first.                                                           *)
(*                                                                         *)
(* Completion: its types and its five safety properties, for every number  *)
(* of retries, hold budget, hint and number of turns.  The inductive       *)
(* invariant says of the row's record, at every layer, what the budgets    *)
(* have been spent on: on which failures the attempts, on which error a    *)
(* ceiling, a stop.                                                        *)
EXTENDS Rounds, Completion, FiniteSetTheorems, WellFoundedInduction, TLAPS

-----------------------------------------------------------------------------
(* Maxima.  That a finite set has one is an induction over the set, as the *)
(* least counterexample of the library's well-founded order on its parts.  *)

HasMax(s) == \E x \in s : \A y \in s : x >= y

LEMMA MaxExists ==
  ASSUME NEW S, IsFiniteSet(S), S \subseteq Nat, S # {}
  PROVE  HasMax(S)
<1> DEFINE B == {s \in SUBSET S : s # {} /\ ~HasMax(s)}
<1>1. SUFFICES ASSUME B # {} PROVE FALSE
  OBVIOUS
<1>2. IsWellFoundedOn(StrictSubsetOrdering(S), SUBSET S)
  BY FS_StrictSubsetOrderingWellFounded, FS_FiniteSubsetsOfFinite
<1>3. PICK s \in B : \A t \in B : ~(<<t, s>> \in StrictSubsetOrdering(S))
  <2>1. B \subseteq SUBSET S
    OBVIOUS
  <2> HIDE DEF B
  <2> QED
    BY <1>1, <1>2, <2>1, WFMin
<1>4. s \subseteq Nat /\ s \subseteq S /\ s # {} /\ ~HasMax(s)
  BY <1>3
<1>5. PICK x \in s : TRUE
  BY <1>4
<1>6. s \ {x} \notin B
  <2>1. /\ s \ {x} \in SUBSET S
        /\ s \ {x} \subseteq s /\ s \ {x} # s
    BY <1>4, <1>5
  <2>2. <<s \ {x}, s>> \in StrictSubsetOrdering(S)
    BY <1>4, <2>1 DEF StrictSubsetOrdering
  <2> QED
    BY <1>3, <2>2
<1>7. CASE s \ {x} = {}
  <2>1. \A y \in s : x >= y
    BY <1>4, <1>5, <1>7
  <2> QED
    BY <1>4, <1>5, <2>1 DEF HasMax
<1>8. CASE s \ {x} # {}
  <2>1. HasMax(s \ {x})
    BY <1>4, <1>6, <1>8
  <2>2. PICK z \in s \ {x} : \A y \in s \ {x} : z >= y
    BY <2>1 DEF HasMax
  <2>3. z \in s /\ z \in Nat /\ x \in Nat
    BY <1>4, <1>5, <2>2
  <2>4. (\A y \in s : z >= y) \/ (\A y \in s : x >= y)
    <3>1. CASE z >= x
      BY <2>2, <3>1
    <3>2. CASE ~(z >= x)
      BY <1>4, <2>2, <2>3, <3>2
    <3> QED
      BY <3>1, <3>2
  <2> QED
    BY <1>4, <1>5, <2>3, <2>4 DEF HasMax
<1> QED
  BY <1>7, <1>8

LEMMA MaxIs ==
  ASSUME NEW S, IsFiniteSet(S), S \subseteq Nat, S # {}
  PROVE  Max(S) \in S /\ \A y \in S : Max(S) >= y
BY MaxExists DEF Max, HasMax

LEMMA LargestIs ==
  ASSUME NEW S, IsFiniteSet(S), S \subseteq Nat
  PROVE  /\ Largest(S) \in Nat
         /\ \A y \in S : Largest(S) >= y
         /\ Largest(S) = 0 \/ Largest(S) \in S
<1>1. IsFiniteSet(S \cup {0}) /\ S \cup {0} \subseteq Nat /\ S \cup {0} # {}
  BY FS_AddElement
<1>2. Max(S \cup {0}) \in S \cup {0} /\ \A y \in S \cup {0} : Max(S \cup {0}) >= y
  BY <1>1, MaxIs
<1> QED
  BY <1>1, <1>2 DEF Largest

LEMMA LargerIs ==
  ASSUME NEW a \in Nat, NEW b \in Nat
  PROVE  Larger(a, b) = IF a >= b THEN a ELSE b
<1>1. IsFiniteSet({a, b}) /\ {a, b} \subseteq Nat /\ {a, b} # {}
  <2>1. IsFiniteSet({a} \cup {b}) /\ {a} \cup {b} = {a, b}
    BY FS_Singleton, FS_AddElement
  <2> QED
    BY <2>1
<1>2. Max({a, b}) \in {a, b} /\ \A y \in {a, b} : Max({a, b}) >= y
  BY <1>1, MaxIs
<1> QED
  BY <1>2 DEF Larger

(* The smaller of two, of which one may be below zero.                     *)
LEMMA MinIs ==
  ASSUME NEW a \in Int, NEW b \in Int
  PROVE  Min({a, b}) = IF a <= b THEN a ELSE b
<1>1. \E x \in {a, b} : \A y \in {a, b} : x <= y
  OBVIOUS
<1>2. Min({a, b}) \in {a, b} /\ \A y \in {a, b} : Min({a, b}) <= y
  BY <1>1 DEF Min
<1> QED
  BY <1>2

(* The maximum of a union.                                                 *)
LEMMA LargestUnion ==
  ASSUME NEW S, IsFiniteSet(S), S \subseteq Nat,
         NEW T, IsFiniteSet(T), T \subseteq Nat
  PROVE  Largest(S \cup T) = Larger(Largest(S), Largest(T))
<1>1. IsFiniteSet(S \cup T) /\ S \cup T \subseteq Nat
  BY FS_Union
<1> DEFINE a == Largest(S)
           b == Largest(T)
           c == Largest(S \cup T)
<1>2. a \in Nat /\ (\A y \in S : a >= y) /\ (a = 0 \/ a \in S)
  BY LargestIs
<1>3. b \in Nat /\ (\A y \in T : b >= y) /\ (b = 0 \/ b \in T)
  BY LargestIs
<1>4. c \in Nat /\ (\A y \in S \cup T : c >= y) /\ (c = 0 \/ c \in S \cup T)
  BY <1>1, LargestIs
<1> HIDE DEF a, b, c
<1>5. c >= a /\ c >= b
  BY <1>2, <1>3, <1>4
<1>6. c <= a \/ c <= b
  BY <1>2, <1>3, <1>4
<1>7. c = IF a >= b THEN a ELSE b
  BY <1>2, <1>3, <1>4, <1>5, <1>6
<1> QED
  BY <1>2, <1>3, <1>7, LargerIs DEF a, b, c

LEMMA ImageFinite ==
  ASSUME NEW S, IsFiniteSet(S), NEW f, f = [x \in S |-> f[x]]
  PROVE  IsFiniteSet({f[x] : x \in S})
<1>1. f \in Surjection(S, {f[x] : x \in S})
  BY DEF Surjection
<1> QED
  BY <1>1, FS_Surjection


-----------------------------------------------------------------------------
(* The contexts of the rounds.                                             *)

Room(S) == {FixedBudget(c) + Pad : c \in {d \in S : FixedBudget(d) > 0}}
             \cup {Needs[c] : c \in {d \in S : Kind[d] = "ladder"}}

LEMMA RunIs ==
  ASSUME run \in Run
  PROVE  /\ run.board \in BOOLEAN /\ run.chosen \subseteq Cases /\ run.chosen # {}
         /\ run.registry \in Nat /\ run.floor \in Nat /\ run.least \in Nat
         /\ run.rung \in Nat /\ run.bank \in Nat
         /\ run.loads \in BOOLEAN /\ run.split \in BOOLEAN
<1>1. Contexts \subseteq Nat /\ Floors \subseteq Nat /\ Tiers \subseteq Nat
      /\ Rungs \subseteq Nat /\ Bank \in Nat
  BY RoundsAssumption DEF RoundsAssumption
<1>2. /\ run.board \in BOOLEAN /\ run.chosen \in (SUBSET Cases) \ {{}}
      /\ run.registry \in Contexts /\ run.floor \in Floors /\ run.least \in Tiers
      /\ run.rung \in Rungs /\ run.bank \in {0, Bank}
      /\ run.loads \in BOOLEAN /\ run.split \in BOOLEAN
  BY DEF Run
<1>3. run.chosen \subseteq Cases /\ run.chosen # {}
  BY <1>2
<1>4. run.bank \in Nat
  BY <1>1, <1>2
<1> QED
  BY <1>1, <1>2, <1>3, <1>4

LEMMA FixedIs == ASSUME run \in Run, NEW c \in Cases PROVE FixedBudget(c) \in Nat
BY RunIs, RoundsAssumption DEF RoundsAssumption, FixedBudget

LEMMA RoomIs ==
  ASSUME run \in Run, NEW S \in SUBSET Cases
  PROVE  IsFiniteSet(Room(S)) /\ Room(S) \subseteq Nat
<1> DEFINE D == {d \in S : FixedBudget(d) > 0}
           E == {d \in S : Kind[d] = "ladder"}
           f == [c \in D |-> FixedBudget(c) + Pad]
           g == [c \in E |-> Needs[c]]
<1>1. IsFiniteSet(D) /\ IsFiniteSet(E)
  BY FS_Subset, RoundsAssumption DEF RoundsAssumption
<1>2. IsFiniteSet({f[c] : c \in D}) /\ IsFiniteSet({g[c] : c \in E})
  <2>1. f = [c \in D |-> f[c]] /\ g = [c \in E |-> g[c]]
    OBVIOUS
  <2> HIDE DEF D, E, f, g
  <2> QED
    BY <1>1, <2>1, ImageFinite
<1>3. Room(S) = {f[c] : c \in D} \cup {g[c] : c \in E}
  BY DEF Room
<1>4. Room(S) \subseteq Nat
  <2>1. Pad \in Nat /\ Needs \in [Cases -> Nat]
    BY RoundsAssumption DEF RoundsAssumption
  <2>2. \A c \in S : FixedBudget(c) \in Nat
    BY FixedIs
  <2> QED
    BY <2>1, <2>2 DEF Room
<1> QED
  <2> HIDE DEF D, E, f, g
  <2> QED
    BY <1>2, <1>3, <1>4, FS_Union

(* A round's wide context has room for each of its wide rows, and is 0     *)
(* when it has none.                                                       *)
LEMMA WideIs ==
  ASSUME run \in Run, NEW S \in SUBSET Cases
  PROVE  /\ WideContext(S) \in Nat
         /\ \A c \in S : FixedBudget(c) > 0 => WideContext(S) >= FixedBudget(c) + Pad
         /\ \A c \in S : Kind[c] = "ladder" => WideContext(S) >= Needs[c]
         /\ (\A c \in S : FixedBudget(c) = 0 /\ Kind[c] # "ladder")
              => WideContext(S) = 0
<1>1. WideContext(S) = Largest(Room(S))
  BY DEF WideContext, Room
<1>2. /\ Largest(Room(S)) \in Nat /\ \A y \in Room(S) : Largest(Room(S)) >= y
      /\ Largest(Room(S)) = 0 \/ Largest(Room(S)) \in Room(S)
  BY RoomIs, LargestIs
<1>3. \A c \in S : FixedBudget(c) > 0 => FixedBudget(c) + Pad \in Room(S)
  BY DEF Room
<1>4. \A c \in S : Kind[c] = "ladder" => Needs[c] \in Room(S)
  BY DEF Room
<1>5. ASSUME \A c \in S : FixedBudget(c) = 0 /\ Kind[c] # "ladder"
      PROVE  Room(S) = {}
  BY <1>5 DEF Room
<1> QED
  BY <1>1, <1>2, <1>3, <1>4, <1>5

LEMMA WideUnion ==
  ASSUME run \in Run, NEW S \in SUBSET Cases, NEW T \in SUBSET Cases
  PROVE  WideContext(S \cup T) = Larger(WideContext(S), WideContext(T))
<1>1. \A U : WideContext(U) = Largest(Room(U))
  BY DEF WideContext, Room
<1>2. Room(S \cup T) = Room(S) \cup Room(T)
  BY DEF Room
<1>3. /\ IsFiniteSet(Room(S)) /\ Room(S) \subseteq Nat
      /\ IsFiniteSet(Room(T)) /\ Room(T) \subseteq Nat
  BY RoomIs
<1> QED
  BY <1>1, <1>2, <1>3, LargestUnion

LEMMA BankIs ==
  ASSUME run \in Run, NEW S \in SUBSET Cases, NEW T \in SUBSET Cases
  PROVE  /\ BankContext(S) \in Nat
         /\ BankContext(S \cup T) \in {BankContext(S), BankContext(T)}
         /\ BankContext(S) <= BankContext(S \cup T)
         /\ BankContext(T) <= BankContext(S \cup T)
<1>1. run.bank \in Nat /\ Pad \in Nat
  BY RunIs, RoundsAssumption DEF RoundsAssumption
<1> QED
  BY <1>1 DEF BankContext

LEMMA MaxOfFive ==
  ASSUME NEW a \in Nat, NEW b \in Nat, NEW c \in Nat, NEW d \in Nat, NEW e \in Nat
  PROVE  /\ Max({a, b, c, d, e}) \in {a, b, c, d, e}
         /\ \A y \in {a, b, c, d, e} : Max({a, b, c, d, e}) >= y
<1>1. IsFiniteSet({a} \cup {b} \cup {c} \cup {d} \cup {e})
  <2>1. IsFiniteSet({a})
    BY FS_Singleton
  <2>2. IsFiniteSet({a} \cup {b})
    BY <2>1, FS_AddElement
  <2>3. IsFiniteSet({a} \cup {b} \cup {c})
    BY <2>2, FS_AddElement
  <2>4. IsFiniteSet({a} \cup {b} \cup {c} \cup {d})
    BY <2>3, FS_AddElement
  <2> QED
    BY <2>4, FS_AddElement
<1>2. {a, b, c, d, e} = {a} \cup {b} \cup {c} \cup {d} \cup {e}
  OBVIOUS
<1>3. {a, b, c, d, e} \subseteq Nat /\ {a, b, c, d, e} # {}
  OBVIOUS
<1> QED
  BY <1>1, <1>2, <1>3, MaxIs

Base(S) == IF run.registry = 0 THEN 0
           ELSE Max({run.registry, run.floor, run.least,
                     BankContext(S), WideContext(S)})

LEMMA BaseIs ==
  ASSUME run \in Run, NEW S \in SUBSET Cases
  PROVE  /\ Base(S) \in Nat
         /\ run.registry # 0 =>
              /\ Base(S) \in {run.registry, run.floor, run.least, BankContext(S),
                              WideContext(S)}
              /\ Base(S) >= run.registry /\ Base(S) >= run.floor
              /\ Base(S) >= run.least /\ Base(S) >= BankContext(S)
              /\ Base(S) >= WideContext(S)
<1>1. /\ run.registry \in Nat /\ run.floor \in Nat /\ run.least \in Nat
      /\ BankContext(S) \in Nat /\ WideContext(S) \in Nat
  BY RunIs, BankIs, WideIs
<1> DEFINE F == {run.registry, run.floor, run.least, BankContext(S), WideContext(S)}
<1>2. Max(F) \in F /\ \A y \in F : Max(F) >= y
  BY <1>1, MaxOfFive
<1>3. Base(S) = IF run.registry = 0 THEN 0 ELSE Max(F)
  BY DEF Base
<1>4. F \subseteq Nat
  BY <1>1
<1>5. /\ run.registry \in F /\ run.floor \in F /\ run.least \in F
      /\ BankContext(S) \in F /\ WideContext(S) \in F
  OBVIOUS
<1>6. Base(S) \in Nat
  <2> HIDE DEF F
  <2>1. Max(F) \in Nat
    BY <1>2, <1>4
  <2> QED
    BY <1>3, <2>1
<1>7. run.registry # 0 => Base(S) \in F /\ \A y \in F : Base(S) >= y
  <2> HIDE DEF F
  <2> QED
    BY <1>2, <1>3
<1> QED
  BY <1>5, <1>6, <1>7

(* What a round is loaded at has room for its wide rows, when the registry *)
(* names a context at all, and for an answer as long as the rung.          *)
LEMMA LoadIs ==
  ASSUME run \in Run, NEW S \in SUBSET Cases
  PROVE  /\ LoadContext(S) \in Nat
         /\ run.registry > 0 => LoadContext(S) >= WideContext(S)
         /\ run.rung > 0 => LoadContext(S) >= run.rung + Pad
<1>1. LoadContext(S) = IF run.rung > 0 THEN Larger(Base(S), run.rung + Pad) ELSE Base(S)
  BY DEF LoadContext, Base
<1>2. /\ run.rung \in Nat /\ Pad \in Nat /\ run.registry \in Nat
      /\ WideContext(S) \in Nat
  BY RunIs, WideIs, RoundsAssumption DEF RoundsAssumption
<1>3. Base(S) \in Nat /\ (run.registry # 0 => Base(S) >= WideContext(S))
  BY BaseIs
<1>4. Larger(Base(S), run.rung + Pad) =
        IF Base(S) >= run.rung + Pad THEN Base(S) ELSE run.rung + Pad
  BY <1>2, <1>3, LargerIs
<1> QED
  BY <1>1, <1>2, <1>3, <1>4

(* Where two shares of the cases load alike, all of them load so.          *)
LEMMA LoadUnion ==
  ASSUME run \in Run, run.rung = 0, NEW S \in SUBSET Cases, NEW T \in SUBSET Cases,
         LoadContext(S) = LoadContext(T)
  PROVE  LoadContext(S \cup T) = LoadContext(S)
<1>1. \A U : LoadContext(U) = Base(U)
  BY DEF LoadContext, Base
<1>2. S \cup T \in SUBSET Cases
  OBVIOUS
<1> DEFINE a == Base(S)
           b == Base(T)
           c == Base(S \cup T)
<1>3. CASE run.registry = 0
  BY <1>1, <1>3 DEF Base
<1>4. CASE run.registry # 0
  <2>1. /\ WideContext(S \cup T) \in {WideContext(S), WideContext(T)}
        /\ WideContext(S) <= WideContext(S \cup T)
        /\ WideContext(T) <= WideContext(S \cup T)
    <3>1. WideContext(S) \in Nat /\ WideContext(T) \in Nat
      BY WideIs
    <3> QED
      BY <3>1, WideUnion, LargerIs
  <2>2. /\ BankContext(S \cup T) \in {BankContext(S), BankContext(T)}
        /\ BankContext(S) <= BankContext(S \cup T)
        /\ BankContext(T) <= BankContext(S \cup T)
    <3>1. S \cup T = T \cup S
      OBVIOUS
    <3> QED
      BY <3>1, BankIs
  <2>3. a = b /\ a \in Nat /\ c \in Nat
    BY <1>1, <1>2, BaseIs
  <2>4. /\ a \in {run.registry, run.floor, run.least, BankContext(S), WideContext(S)}
        /\ a >= run.registry /\ a >= run.floor /\ a >= run.least
        /\ a >= BankContext(S) /\ a >= WideContext(S)
    BY <1>4, BaseIs
  <2>5. b >= BankContext(T) /\ b >= WideContext(T)
    BY <1>4, BaseIs
  <2>6. /\ c \in {run.registry, run.floor, run.least, BankContext(S \cup T),
                  WideContext(S \cup T)}
        /\ c >= run.registry /\ c >= run.floor /\ c >= run.least
        /\ c >= BankContext(S \cup T) /\ c >= WideContext(S \cup T)
    BY <1>2, <1>4, BaseIs
  <2>7. /\ run.registry \in Nat /\ run.floor \in Nat /\ run.least \in Nat
        /\ BankContext(S) \in Nat /\ BankContext(T) \in Nat
        /\ BankContext(S \cup T) \in Nat /\ WideContext(S \cup T) \in Nat
        /\ WideContext(S) \in Nat /\ WideContext(T) \in Nat
    BY <1>2, RunIs, BankIs, WideIs
  <2> HIDE DEF a, b, c
  <2>8. c <= a
    BY <2>1, <2>2, <2>3, <2>4, <2>5, <2>6, <2>7
  <2>9. a <= c
    BY <2>1, <2>2, <2>3, <2>4, <2>6, <2>7
  <2>10. a = c
    BY <2>3, <2>8, <2>9
  <2> QED
    BY <1>1, <2>10 DEF a, c
<1> QED
  BY <1>3, <1>4

(* Nothing but the run decides on these.                                   *)
LEMMA RunDecides ==
  ASSUME run' = run
  PROVE  /\ \A c : FixedBudget(c)' = FixedBudget(c)
         /\ \A S : WideContext(S)' = WideContext(S)
         /\ \A S : LoadContext(S)' = LoadContext(S)
<1>1. ASSUME NEW c PROVE FixedBudget(c)' = FixedBudget(c)
  BY DEF FixedBudget
<1>2. ASSUME NEW S PROVE WideContext(S)' = WideContext(S)
  <2>1. Room(S)' = Room(S)
    BY DEF Room, FixedBudget
  <2>2. WideContext(S)' = Largest(Room(S))' /\ WideContext(S) = Largest(Room(S))
    BY DEF WideContext, Room
  <2> QED
    BY <2>1, <2>2 DEF Largest
<1>3. ASSUME NEW S PROVE LoadContext(S)' = LoadContext(S)
  <2>1. WideContext(S)' = WideContext(S) /\ BankContext(S)' = BankContext(S)
    BY <1>2 DEF BankContext
  <2> QED
    BY <2>1 DEF LoadContext
<1> QED
  BY <1>1, <1>2, <1>3

-----------------------------------------------------------------------------
(* The shares and the rows.                                                *)

Shares(S) == IF OneRound(S) THEN <<S>> ELSE <<Narrow(S), Wide(S)>>
Selectable(c, i) == Kind[c] # "perf" \/ (run.board /\ i = 1)
Over(i) == i < at \/ (i = at /\ pc = "done")

Planned ==
  /\ run \in Run
  /\ pc \in {"plan", "load", "rows", "done", "failed"}
  /\ pc = "plan" => rows = {}
  /\ pc # "plan" => rounds = Shares(run.chosen) /\ at \in 1 .. Len(rounds)
  /\ pc = "rows" => asked = LoadContext(rounds[at]) /\ ctx \in Nat
  /\ pc = "done" => at = Len(rounds)

(* Every round that is over has one row of each of its jobs, and there is  *)
(* no other row.                                                           *)
Filed ==
  /\ \A r \in rows : /\ r.round \in 1 .. Len(rounds) /\ Over(r.round)
                     /\ r.case \in rounds[r.round]
                     /\ Selectable(r.case, r.round)
                     /\ r.asked = LoadContext(rounds[r.round])
  /\ pc # "plan" => \A i \in 1 .. Len(rounds) : Over(i) =>
       \A c \in rounds[i] : Selectable(c, i) => \E r \in rows : r.case = c
  /\ \A r, q \in rows : r.case = q.case => r = q

SharesInv == Planned /\ Filed

LEMMA SharesAre ==
  ASSUME run \in Run, rounds = Shares(run.chosen)
  PROVE  /\ Len(rounds) \in 1 .. 2
         /\ \A i \in 1 .. Len(rounds) : rounds[i] \in SUBSET Cases
         /\ \A i, k \in 1 .. Len(rounds) : i # k => rounds[i] \cap rounds[k] = {}
         /\ \A i \in 1 .. Len(rounds) : rounds[i] \subseteq run.chosen
         /\ \A c \in run.chosen : \E i \in 1 .. Len(rounds) : c \in rounds[i]
<1>1. run.chosen \subseteq Cases
  BY RunIs
<1> DEFINE C == run.chosen
<1>2. CASE OneRound(C)
  BY <1>1, <1>2 DEF Shares
<1>3. CASE ~OneRound(C)
  <2>1. rounds = <<Narrow(C), Wide(C)>>
    BY <1>3 DEF Shares
  <2>2. /\ Narrow(C) \subseteq C /\ Wide(C) \subseteq C /\ Narrow(C) \cap Wide(C) = {}
        /\ C \subseteq Narrow(C) \cup Wide(C)
    BY DEF Narrow, Wide
  <2> QED
    BY <1>1, <2>1, <2>2
<1> QED
  BY <1>2, <1>3

(* A perf row needs no wide window: it is in the first round.              *)
LEMMA PerfIsFirst ==
  ASSUME run \in Run, rounds = Shares(run.chosen), NEW c \in run.chosen,
         Kind[c] = "perf"
  PROVE  c \in rounds[1]
<1>1. c \in Cases /\ {c} \in SUBSET Cases
  BY RunIs
<1>2. FixedBudget(c) = 0
  BY <1>1, RoundsAssumption DEF RoundsAssumption, FixedBudget
<1>3. WideContext({c}) = 0
  BY <1>1, <1>2, WideIs
<1>4. c \in Narrow(run.chosen)
  BY <1>3 DEF Narrow, Wide
<1> QED
  BY <1>4 DEF Shares

LEMMA PlannedStep == Planned /\ [RoundsNext]_roundsVars => Planned'
<1> SUFFICES ASSUME Planned, [RoundsNext]_roundsVars PROVE Planned'
  OBVIOUS
<1>0. /\ run' = run
      /\ \A S : LoadContext(S)' = LoadContext(S) /\ WideContext(S)' = WideContext(S)
  <2>1. run' = run
    BY DEF RoundsNext, roundsVars, PlanRounds, Serve, RunRows
  <2> QED
    BY <2>1, RunDecides
<1>1. Shares(run.chosen)' = Shares(run.chosen)
  <2>1. \A S : Wide(S)' = Wide(S)
    BY <1>0 DEF Wide
  <2>2. \A S : Narrow(S)' = Narrow(S)
    BY <2>1 DEF Narrow
  <2>3. \A S : OneRound(S)' = OneRound(S)
    <3>1. ASSUME NEW S PROVE OneRound(S)' = OneRound(S)
      <4>1. /\ Wide(S)' = Wide(S) /\ Narrow(S)' = Narrow(S)
            /\ LoadContext(Narrow(S))' = LoadContext(Narrow(S))
            /\ LoadContext(Wide(S))' = LoadContext(Wide(S))
        BY <1>0, <2>1, <2>2 DEF LoadContext
      <4> QED
        BY <1>0, <4>1 DEF OneRound
    <3> QED
      BY <3>1
  <2> QED
    BY <1>0, <2>1, <2>2, <2>3 DEF Shares
<1>2. CASE PlanRounds
  <2>1. rounds' = Shares(run.chosen) /\ at' = 1 /\ pc' = "load"
    BY <1>2 DEF PlanRounds, Shares
  <2>2. Len(rounds') \in 1 .. 2
    BY <2>1 DEF Shares
  <2> QED
    BY <1>0, <1>1, <2>1, <2>2 DEF Planned
<1>3. CASE Serve
  <2>1. /\ pc = "load" /\ UNCHANGED <<run, rounds, at, rows>>
        /\ asked' = LoadContext(rounds[at]) /\ pc' \in {"failed", "rows"}
        /\ ctx' \in Contexts \cup {asked'}
    BY <1>3 DEF Serve
  <2>2. rounds[at] \in SUBSET Cases
    BY <2>1, SharesAre DEF Planned
  <2>3. LoadContext(rounds[at]) \in Nat
    BY <2>2, LoadIs DEF Planned
  <2>4. ctx' \in Nat
    BY <2>1, <2>3, RoundsAssumption DEF RoundsAssumption
  <2>5. LoadContext(rounds[at])' = LoadContext(rounds[at])
    BY <1>0, <2>1 DEF LoadContext
  <2> QED
    BY <1>0, <1>1, <2>1, <2>4, <2>5 DEF Planned
<1>4. CASE RunRows
  <2>1. /\ pc = "rows" /\ UNCHANGED <<run, rounds>>
        /\ \/ at < Len(rounds) /\ at' = at + 1 /\ pc' = "load"
           \/ ~(at < Len(rounds)) /\ at' = at /\ pc' = "done"
    BY <1>4 DEF RunRows
  <2>2. Len(rounds) \in 1 .. 2 /\ at \in 1 .. Len(rounds)
    BY <2>1, SharesAre DEF Planned
  <2> QED
    BY <1>0, <1>1, <2>1, <2>2 DEF Planned
<1>5. CASE UNCHANGED roundsVars
  <2>1. LoadContext(rounds[at])' = LoadContext(rounds[at])
    BY <1>0, <1>5 DEF roundsVars, LoadContext
  <2> QED
    BY <1>0, <1>1, <1>5, <2>1 DEF Planned, roundsVars
<1> QED
  BY <1>2, <1>3, <1>4, <1>5 DEF RoundsNext

(* What one round adds.                                                    *)
LEMMA RowIs ==
  ASSUME NEW c
  PROVE  /\ RowOf(c).case = c /\ RowOf(c).round = at /\ RowOf(c).asked = asked
         /\ RowOf(c).ctx = ctx /\ RowOf(c).skipped = Skipped(c)
         /\ RowOf(c).sent = IF Skipped(c) THEN 0 ELSE Sent(c)
BY DEF RowOf

LEMMA FiledStep == SharesInv /\ Planned' /\ [RoundsNext]_roundsVars => Filed'
<1> SUFFICES ASSUME Planned, Filed, Planned', [RoundsNext]_roundsVars PROVE Filed'
  BY DEF SharesInv
<1>0. run' = run /\ \A S : LoadContext(S)' = LoadContext(S)
  <2>1. run' = run
    BY DEF RoundsNext, roundsVars, PlanRounds, Serve, RunRows
  <2> QED
    BY <2>1, RunDecides
<1>1. CASE PlanRounds
  <2>1. rows' = {} /\ at' = 1 /\ pc' = "load"
    BY <1>1 DEF PlanRounds, Planned
  <2>2. \A i \in 1 .. Len(rounds') : ~(i < at')
    BY <2>1
  <2> QED
    BY <2>1, <2>2 DEF Filed, Over
<1>2. ASSUME UNCHANGED <<rounds, at, rows>>, pc # "plan", pc # "done", pc' # "done"
      PROVE  Filed'
  <2>1. \A i : Over(i)' = Over(i)
    BY <1>2 DEF Over
  <2>2. \A c, i : Selectable(c, i)' = Selectable(c, i)
    BY <1>0 DEF Selectable
  <2>3. ASSUME NEW r \in rows
        PROVE  r.asked = LoadContext(rounds[r.round])'
    <3>1. LoadContext(rounds[r.round])' = LoadContext(rounds[r.round])
      BY <1>0, <1>2 DEF LoadContext
    <3> QED
      BY <3>1 DEF Filed
  <2> QED
    BY <1>2, <2>1, <2>2, <2>3 DEF Filed
<1>3. CASE Serve
  <2>1. UNCHANGED <<rounds, at, rows>> /\ pc = "load" /\ pc' \in {"failed", "rows"}
    BY <1>3 DEF Serve
  <2> QED
    BY <1>2, <2>1
<1>4. CASE RunRows
  <2> DEFINE N == {RowOf(c) : c \in Jobs(rounds[at])}
  <2>1. /\ pc = "rows" /\ UNCHANGED <<run, rounds>> /\ rows' = rows \cup N
        /\ \/ at < Len(rounds) /\ at' = at + 1 /\ pc' = "load"
           \/ ~(at < Len(rounds)) /\ at' = at /\ pc' = "done"
    BY <1>4 DEF RunRows
  <2>2. /\ Len(rounds) \in 1 .. 2 /\ at \in 1 .. Len(rounds)
        /\ \A i, k \in 1 .. Len(rounds) : i # k => rounds[i] \cap rounds[k] = {}
    BY <2>1, SharesAre DEF Planned
  <2>3. \A i \in 1 .. Len(rounds) : Over(i)' <=> Over(i) \/ i = at
    <3>1. CASE at < Len(rounds) /\ at' = at + 1 /\ pc' = "load"
      BY <2>1, <2>2, <3>1 DEF Over
    <3>2. CASE ~(at < Len(rounds)) /\ at' = at /\ pc' = "done"
      BY <2>1, <2>2, <3>2 DEF Over
    <3> QED
      BY <2>1, <3>1, <3>2
  <2>4. ~Over(at)
    BY <2>1, <2>2 DEF Over
  <2>5. \A c, i : Selectable(c, i)' = Selectable(c, i)
    BY <1>0 DEF Selectable
  <2>6. \A c : c \in Jobs(rounds[at]) <=> c \in rounds[at] /\ Selectable(c, at)
    BY DEF Jobs, Selectable
  <2>7. \A r \in N : /\ r.round = at /\ r.case \in rounds[at]
                     /\ Selectable(r.case, at) /\ r.asked = asked
                     /\ r = RowOf(r.case)
    BY <2>6, RowIs
  <2>8. \A c \in Jobs(rounds[at]) : RowOf(c) \in N /\ RowOf(c).case = c
    BY RowIs
  <2> HIDE DEF N
  <2>9. ASSUME NEW r \in rows'
        PROVE  /\ r.round \in 1 .. Len(rounds) /\ Over(r.round)'
               /\ r.case \in rounds[r.round]
               /\ Selectable(r.case, r.round)
               /\ r.asked = LoadContext(rounds[r.round])
    <3>1. CASE r \in rows
      BY <2>3, <3>1 DEF Filed
    <3>2. CASE r \in N
      BY <2>1, <2>2, <2>3, <2>7, <3>2 DEF Planned
    <3> QED
      BY <2>1, <3>1, <3>2
  <2>10. ASSUME NEW i \in 1 .. Len(rounds), Over(i)', NEW c \in rounds[i],
                Selectable(c, i)
         PROVE  \E r \in rows' : r.case = c
    <3>1. CASE Over(i)
      <4>1. \E r \in rows : r.case = c
        BY <2>1, <2>10, <3>1 DEF Filed
      <4> QED
        BY <2>1, <4>1
    <3>2. CASE i = at
      BY <2>1, <2>6, <2>8, <2>10, <3>2
    <3> QED
      BY <2>3, <2>10, <3>1, <3>2
  <2>11. ASSUME NEW r \in rows', NEW q \in rows', r.case = q.case
         PROVE  r = q
    <3>1. CASE r \in rows /\ q \in rows
      BY <2>11, <3>1 DEF Filed
    <3>2. CASE r \in N /\ q \in N
      BY <2>7, <2>11, <3>2
    <3>3. ASSUME NEW s \in rows, NEW t \in N PROVE s.case # t.case
      <4>1. s.round \in 1 .. Len(rounds) /\ Over(s.round) /\ s.case \in rounds[s.round]
        BY DEF Filed
      <4>2. s.round # at
        BY <2>4, <4>1
      <4> QED
        BY <2>2, <2>7, <4>1, <4>2
    <3> QED
      BY <2>1, <2>11, <3>1, <3>2, <3>3
  <2>12. ASSUME NEW r \in rows'
         PROVE  r.asked = LoadContext(rounds[r.round])'
    <3>1. LoadContext(rounds[r.round])' = LoadContext(rounds[r.round])
      BY <1>0, <2>1 DEF LoadContext
    <3> QED
      BY <2>9, <3>1
  <2> QED
    BY <2>1, <2>5, <2>9, <2>10, <2>11, <2>12 DEF Filed
<1>5. CASE UNCHANGED roundsVars
  <2>1. UNCHANGED <<rounds, at, rows, pc>>
    BY <1>5 DEF roundsVars
  <2>2. \A i : Over(i)' = Over(i)
    BY <2>1 DEF Over
  <2>3. \A c, i : Selectable(c, i)' = Selectable(c, i)
    BY <1>0 DEF Selectable
  <2>4. ASSUME NEW r \in rows
        PROVE  r.asked = LoadContext(rounds[r.round])'
    <3>1. LoadContext(rounds[r.round])' = LoadContext(rounds[r.round])
      BY <1>0, <2>1 DEF LoadContext
    <3> QED
      BY <3>1 DEF Filed
  <2> QED
    BY <2>1, <2>2, <2>3, <2>4 DEF Filed
<1> QED
  BY <1>1, <1>3, <1>4, <1>5 DEF RoundsNext

LEMMA SharesAlways == RoundsSpec => []SharesInv
<1>1. RoundsInit => SharesInv
  BY DEF RoundsInit, SharesInv, Planned, Filed
<1>2. SharesInv /\ [RoundsNext]_roundsVars => SharesInv'
  BY PlannedStep, FiledStep DEF SharesInv
<1> QED
  BY <1>1, <1>2, PTL DEF RoundsSpec

(* Every job a run could select has one row when the run ends, and no      *)
(* other case has any: the load rounds share the jobs out.                 *)
THEOREM EveryJobOnceHolds == RoundsSpec => []EveryJobOnce
<1>1. SharesInv => EveryJobOnce
  <2> SUFFICES ASSUME SharesInv, pc = "done", NEW c \in Cases
               PROVE  Cardinality({r \in rows : r.case = c}) =
                        IF c \in run.chosen /\ (run.board \/ Kind[c] # "perf")
                        THEN 1 ELSE 0
    BY DEF EveryJobOnce
  <2>1. Planned /\ Filed
    BY DEF SharesInv
  <2>2. run \in Run /\ rounds = Shares(run.chosen) /\ at = Len(rounds)
    BY <2>1 DEF Planned
  <2>3. /\ Len(rounds) \in 1 .. 2
        /\ \A i \in 1 .. Len(rounds) : rounds[i] \subseteq run.chosen
        /\ \A d \in run.chosen : \E i \in 1 .. Len(rounds) : d \in rounds[i]
    BY <2>2, SharesAre
  <2>4. \A i \in 1 .. Len(rounds) : Over(i)
    BY <2>2, <2>3 DEF Over
  <2> DEFINE R == {r \in rows : r.case = c}
  <2>5. CASE c \in run.chosen /\ (run.board \/ Kind[c] # "perf")
    <3>1. \E i \in 1 .. Len(rounds) : c \in rounds[i] /\ Selectable(c, i)
      <4>1. CASE Kind[c] = "perf"
        BY <2>2, <2>3, <2>5, <4>1, PerfIsFirst DEF Selectable
      <4>2. CASE Kind[c] # "perf"
        BY <2>3, <2>5, <4>2 DEF Selectable
      <4> QED
        BY <4>1, <4>2
    <3>2. PICK r \in rows : r.case = c
      BY <2>1, <2>4, <3>1 DEF Filed
    <3>3. R = {r}
      BY <2>1, <3>2 DEF Filed
    <3> QED
      BY <2>5, <3>3, FS_Singleton
  <2>6. CASE ~(c \in run.chosen /\ (run.board \/ Kind[c] # "perf"))
    <3>1. R = {}
      BY <2>1, <2>3, <2>6 DEF Filed, Selectable
    <3> QED
      BY <2>6, <3>1, FS_EmptySet
  <2> QED
    BY <2>5, <2>6
<1> QED
  BY <1>1, SharesAlways, PTL

(* A run that is split is what ModelRun takes as given (its constants      *)
(* Wide, Jobs and Perf): no perf row is in the wide round, and the narrow  *)
(* round has more than perf rows.                                          *)
THEOREM SplitIsAsAssumed ==
  RoundsSpec => [](pc # "plan" /\ Len(rounds) = 2 =>
                     LET P == {c \in run.chosen : Kind[c] = "perf"}
                     IN  /\ rounds[2] \subseteq run.chosen \ P
                         /\ rounds[1] = run.chosen \ rounds[2]
                         /\ run.chosen \ (rounds[2] \cup P) # {})
<1> DEFINE P == {c \in run.chosen : Kind[c] = "perf"}
           Split == pc # "plan" /\ Len(rounds) = 2 =>
                      /\ rounds[2] \subseteq run.chosen \ P
                      /\ rounds[1] = run.chosen \ rounds[2]
                      /\ run.chosen \ (rounds[2] \cup P) # {}
<1>1. SharesInv => Split
  <2> SUFFICES ASSUME SharesInv, pc # "plan", Len(rounds) = 2
               PROVE  /\ rounds[2] \subseteq run.chosen \ P
                      /\ rounds[1] = run.chosen \ rounds[2]
                      /\ run.chosen \ (rounds[2] \cup P) # {}
    OBVIOUS
  <2>1. run \in Run /\ rounds = Shares(run.chosen)
    BY DEF SharesInv, Planned
  <2>2. /\ ~OneRound(run.chosen)
        /\ rounds[1] = Narrow(run.chosen) /\ rounds[2] = Wide(run.chosen)
    BY <2>1 DEF Shares
  <2>3. \E c \in Narrow(run.chosen) : Kind[c] # "perf"
    BY <2>2 DEF OneRound
  <2>4. rounds[1] \cap rounds[2] = {} /\ rounds[2] \subseteq run.chosen
    BY <2>2 DEF Narrow, Wide
  <2>5. P \subseteq rounds[1]
    BY <2>1, PerfIsFirst
  <2> QED
    BY <2>2, <2>3, <2>4, <2>5 DEF Narrow
<1> QED
  BY <1>1, SharesAlways, PTL

(* The narrow rows never pay for the wide ones, on a rig that splits.      *)
THEOREM NarrowStaysNarrowHolds == RoundsSpec => []NarrowStaysNarrow
<1>1. SharesInv => NarrowStaysNarrow
  <2> SUFFICES ASSUME SharesInv, run.loads, run.split, run.rung = 0, NEW r \in rows,
                      Kind[r.case] # "perf", WideContext({r.case}) = 0
               PROVE  r.asked = LoadContext(Narrow(run.chosen))
    BY DEF NarrowStaysNarrow
  <2> DEFINE C == run.chosen
  <2>1. /\ run \in Run /\ rounds = Shares(C) /\ C \in SUBSET Cases
        /\ r.round \in 1 .. Len(rounds) /\ r.case \in rounds[r.round]
        /\ r.asked = LoadContext(rounds[r.round])
    BY RunIs DEF SharesInv, Planned, Filed
  <2>2. ~(run.rung > 0)
    OBVIOUS
  <2>3. /\ Narrow(C) \cup Wide(C) = C
        /\ Narrow(C) \in SUBSET Cases /\ Wide(C) \in SUBSET Cases
    BY <2>1 DEF Narrow, Wide
  <2>4. CASE OneRound(C)
    <3>1. rounds = <<C>> /\ r.case \in C /\ r.asked = LoadContext(C)
      BY <2>1, <2>4 DEF Shares
    <3>2. r.case \in Narrow(C)
      BY <3>1 DEF Narrow, Wide
    <3>3. \/ Wide(C) = {}
          \/ LoadContext(Narrow(C)) = LoadContext(Wide(C))
      BY <2>2, <2>4, <3>2 DEF OneRound
    <3>4. CASE Wide(C) = {}
      BY <2>3, <3>1, <3>4
    <3>5. CASE LoadContext(Narrow(C)) = LoadContext(Wide(C))
      <4>1. LoadContext(Narrow(C) \cup Wide(C)) = LoadContext(Narrow(C))
        BY <2>1, <2>3, <3>5, LoadUnion
      <4> QED
        BY <2>3, <3>1, <4>1
    <3> QED
      BY <3>3, <3>4, <3>5
  <2>5. CASE ~OneRound(C)
    <3>1. rounds = <<Narrow(C), Wide(C)>>
      BY <2>1, <2>5 DEF Shares
    <3>2. r.case \notin Wide(C)
      BY DEF Wide
    <3>3. r.round = 1
      BY <2>1, <3>1, <3>2
    <3> QED
      BY <2>1, <3>1, <3>3
  <2> QED
    BY <2>4, <2>5
<1> QED
  BY <1>1, SharesAlways, PTL

-----------------------------------------------------------------------------
(* Budgets.                                                                *)

LEMMA ClampedIs ==
  ASSUME ctx \in Nat, NEW b \in Nat, NEW c \in Cases
  PROVE  /\ Clamped(b, c) \in Nat
         /\ Clamped(b, c) =
              LET m == IF ctx > 0 /\ ctx - Prompt[c] - Slack < b
                       THEN ctx - Prompt[c] - Slack ELSE b
              IN  IF Minimum >= m THEN Minimum ELSE m
<1>1. Prompt[c] \in Nat /\ Slack \in Nat /\ Minimum \in Nat
  BY RoundsAssumption DEF RoundsAssumption
<1> DEFINE w == ctx - Prompt[c] - Slack
           n == IF ctx > 0 THEN Min({b, w}) ELSE b
<1>2. w \in Int
  BY <1>1
<1>3. Min({b, w}) = IF b <= w THEN b ELSE w
  <2> HIDE DEF w
  <2> QED
    BY <1>2, MinIs
<1>4. n = (IF ctx > 0 /\ w < b THEN w ELSE b) /\ n \in Int
  <2> HIDE DEF w
  <2> QED
    BY <1>2, <1>3
<1>5. Clamped(b, c) = Max({Minimum, n})
  BY DEF Clamped, Larger
<1>6. Max({Minimum, n}) = IF Minimum >= n THEN Minimum ELSE n
  <2> HIDE DEF n
  <2>1. \E x \in {Minimum, n} : \A y \in {Minimum, n} : x >= y
    BY <1>1, <1>4
  <2>2. /\ Max({Minimum, n}) \in {Minimum, n}
        /\ \A y \in {Minimum, n} : Max({Minimum, n}) >= y
    BY <2>1 DEF Max
  <2> QED
    BY <1>1, <1>4, <2>2
<1>7. Clamped(b, c) \in Nat
  <2> HIDE DEF n
  <2> QED
    BY <1>1, <1>4, <1>5, <1>6
<1>8. Clamped(b, c) = LET m == IF ctx > 0 /\ w < b THEN w ELSE b
                      IN  IF Minimum >= m THEN Minimum ELSE m
  <2> HIDE DEF w
  <2> QED
    BY <1>4, <1>5, <1>6
<1> QED
  BY <1>7, <1>8

(* What a row with a fixed budget is sent, and what any other.             *)
LEMMA SentIs ==
  ASSUME run \in Run, ctx \in Nat, NEW c \in Cases
  PROVE  /\ FixedBudget(c) > 0 /\ (run.rung = 0 \/ Kind[c] = "bank")
              => Sent(c) = Clamped(FixedBudget(c), c)
         /\ run.rung > 0 => Sent(c) = run.rung \/ Sent(c) = Clamped(run.bank, c)
<1>1. /\ run.bank \in Nat /\ run.rung \in Nat /\ FixedBudget(c) \in Nat
      /\ Own[c] \in Nat /\ Minimum \in Nat \ {0}
  BY RunIs, FixedIs, RoundsAssumption DEF RoundsAssumption
<1>2. \A b \in Nat : Clamped(b, c) \in Nat /\ Clamped(b, c) > 0
  <2> SUFFICES ASSUME NEW b \in Nat PROVE Clamped(b, c) \in Nat /\ Clamped(b, c) > 0
    OBVIOUS
  <2> DEFINE w == ctx - Prompt[c] - Slack
             m == IF ctx > 0 /\ w < b THEN w ELSE b
  <2>1. Clamped(b, c) \in Nat /\ Clamped(b, c) = IF Minimum >= m THEN Minimum ELSE m
    BY ClampedIs
  <2>2. w \in Int
    BY RoundsAssumption DEF RoundsAssumption
  <2>3. m \in Int
    <3> HIDE DEF w
    <3> QED
      BY <2>2
  <2> HIDE DEF m
  <2> QED
    BY <1>1, <2>1, <2>3
<1>3. CASE Kind[c] = "bank"
  <2>1. FixedBudget(c) = run.bank
    BY <1>3 DEF FixedBudget
  <2>2. RowBudget(c) = IF run.bank = 0 THEN 0 ELSE Clamped(run.bank, c)
    BY <1>3 DEF RowBudget
  <2> QED
    BY <1>1, <1>2, <1>3, <2>1, <2>2 DEF Sent
<1>4. CASE Kind[c] # "bank"
  <2>1. FixedBudget(c) = Own[c]
    BY <1>4 DEF FixedBudget
  <2>2. RowBudget(c) = IF Own[c] = 0 \/ run.rung > 0 THEN 0 ELSE Clamped(Own[c], c)
    BY <1>4 DEF RowBudget
  <2> QED
    BY <1>1, <1>2, <1>4, <2>1, <2>2 DEF Sent
<1> QED
  BY <1>3, <1>4

(* A row that is served what its round was loaded for.                     *)
LEMMA NewRowIsWhole ==
  ASSUME Planned, pc = "rows", NEW c \in rounds[at]
  PROVE  BudgetIsWhole(RowOf(c))
<1> DEFINE r == RowOf(c)
<1>1. /\ run \in Run /\ asked = LoadContext(rounds[at]) /\ ctx \in Nat
      /\ rounds[at] \in SUBSET Cases /\ c \in Cases
  BY SharesAre DEF Planned
<1>2. /\ r.case = c /\ r.asked = asked /\ r.ctx = ctx /\ r.skipped = Skipped(c)
      /\ r.sent = IF Skipped(c) THEN 0 ELSE Sent(c)
  BY RowIs
<1>3. SUFFICES ASSUME ctx = asked, Prompt[c] + Slack <= Pad, run.registry > 0
               PROVE  /\ (FixedBudget(c) > 0 /\ (run.rung = 0 \/ Kind[c] = "bank")) =>
                           (Skipped(c) \/ Sent(c) = Larger(Minimum, FixedBudget(c)))
                      /\ Kind[c] = "ladder" => ~Skipped(c)
                      /\ (run.rung >= Minimum /\ ~Skipped(c)) =>
                           Prompt[c] + Sent(c) + Slack <= ctx
  BY <1>2 DEF BudgetIsWhole
<1>4. /\ Prompt[c] \in Nat /\ Slack \in Nat /\ Pad \in Nat /\ Minimum \in Nat \ {0}
      /\ FixedBudget(c) \in Nat /\ run.bank \in Nat /\ run.rung \in Nat
      /\ Needs[c] \in Nat
  BY <1>1, RunIs, FixedIs, RoundsAssumption DEF RoundsAssumption
<1>5. /\ WideContext(rounds[at]) \in Nat /\ ctx >= WideContext(rounds[at])
      /\ run.rung > 0 => ctx >= run.rung + Pad
  BY <1>1, <1>3, LoadIs, WideIs
<1>6. /\ FixedBudget(c) > 0 => ctx >= FixedBudget(c) + Pad
      /\ Kind[c] = "ladder" => ctx >= Needs[c]
  BY <1>1, <1>4, <1>5, WideIs
<1>7. ASSUME FixedBudget(c) > 0, run.rung = 0 \/ Kind[c] = "bank"
      PROVE  Sent(c) = Larger(Minimum, FixedBudget(c))
  <2>1. Sent(c) = Clamped(FixedBudget(c), c)
    BY <1>1, <1>7, SentIs
  <2>2. ~(ctx - Prompt[c] - Slack < FixedBudget(c))
    BY <1>1, <1>3, <1>4, <1>6, <1>7
  <2>3. Clamped(FixedBudget(c), c) =
          IF Minimum >= FixedBudget(c) THEN Minimum ELSE FixedBudget(c)
    BY <1>1, <1>4, <2>2, ClampedIs
  <2>4. Larger(Minimum, FixedBudget(c)) =
          IF Minimum >= FixedBudget(c) THEN Minimum ELSE FixedBudget(c)
    BY <1>4, LargerIs
  <2> QED
    BY <2>1, <2>3, <2>4
<1>8. Kind[c] = "ladder" => ~Skipped(c)
  BY <1>1, <1>4, <1>6 DEF Skipped
<1>9. ASSUME run.rung >= Minimum
      PROVE  Prompt[c] + Sent(c) + Slack <= ctx
  <2>1. run.rung > 0 /\ ctx >= run.rung + Pad
    BY <1>4, <1>5, <1>9
  <2>2. CASE Sent(c) = run.rung
    BY <1>1, <1>3, <1>4, <2>1, <2>2
  <2>3. CASE Sent(c) = Clamped(run.bank, c)
    <3> DEFINE w == ctx - Prompt[c] - Slack
               m == IF ctx > 0 /\ w < run.bank THEN w ELSE run.bank
    <3>1. Clamped(run.bank, c) = IF Minimum >= m THEN Minimum ELSE m
      BY <1>1, <1>4, ClampedIs
    <3>2. w \in Int /\ w >= run.rung /\ ctx > 0
      BY <1>1, <1>3, <1>4, <2>1
    <3>3. m \in Int /\ m <= w /\ Minimum <= w
      <4> HIDE DEF w
      <4> QED
        BY <1>4, <1>9, <3>2
    <3>4. Sent(c) \in Int /\ Sent(c) <= w
      <4> HIDE DEF w, m
      <4> QED
        BY <1>4, <2>3, <3>1, <3>2, <3>3
    <3> QED
      BY <1>1, <1>4, <3>4
  <2> QED
    BY <1>1, <2>1, <2>2, <2>3, SentIs
<1> QED
  BY <1>7, <1>8, <1>9

LEMMA NewRowFits ==
  ASSUME Planned, pc = "rows", NEW c \in rounds[at]
  PROVE  BudgetFits(RowOf(c))
<1> DEFINE r == RowOf(c)
<1>1. /\ run \in Run /\ ctx \in Nat /\ c \in Cases
  BY SharesAre DEF Planned
<1>2. /\ r.case = c /\ r.ctx = ctx
      /\ r.sent = IF Skipped(c) THEN 0 ELSE Sent(c)
  BY RowIs
<1>3. /\ Prompt[c] \in Nat /\ Slack \in Nat /\ Minimum \in Nat \ {0}
      /\ FixedBudget(c) \in Nat
  BY <1>1, FixedIs, RoundsAssumption DEF RoundsAssumption
<1>4. SUFFICES ASSUME FixedBudget(c) > 0, run.rung = 0, ctx > 0, r.sent > Minimum
               PROVE  Prompt[c] + r.sent + Slack <= ctx
  BY <1>2 DEF BudgetFits
<1>5. r.sent = Clamped(FixedBudget(c), c)
  <2>1. r.sent = Sent(c)
    <3> HIDE DEF r
    <3>1. r.sent # 0
      BY <1>3, <1>4
    <3> QED
      BY <1>2, <3>1
  <2>2. Sent(c) = Clamped(FixedBudget(c), c)
    BY <1>1, <1>4, SentIs
  <2> QED
    BY <2>1, <2>2
<1> DEFINE w == ctx - Prompt[c] - Slack
           m == IF ctx > 0 /\ w < FixedBudget(c) THEN w ELSE FixedBudget(c)
<1>6. Clamped(FixedBudget(c), c) = IF Minimum >= m THEN Minimum ELSE m
  BY <1>1, <1>3, ClampedIs
<1>7. w \in Int
  BY <1>1, <1>3
<1>8. m \in Int /\ m <= w
  <2> HIDE DEF w, r
  <2> QED
    BY <1>3, <1>4, <1>7
<1>9. r.sent \in Int /\ r.sent <= w
  <2> HIDE DEF w, r, m
  <2> QED
    BY <1>3, <1>4, <1>5, <1>6, <1>8
<1> QED
  <2> HIDE DEF r
  <2> QED
    BY <1>1, <1>3, <1>9

LEMMA BudgetsStep ==
  SharesInv /\ BudgetsHold /\ [RoundsNext]_roundsVars => BudgetsHold'
<1> SUFFICES ASSUME SharesInv, BudgetsHold, [RoundsNext]_roundsVars, NEW r \in rows'
             PROVE  BudgetIsWhole(r)' /\ BudgetFits(r)'
  BY DEF BudgetsHold
<1>1. run' = run /\ \A c : FixedBudget(c)' = FixedBudget(c)
  <2>1. run' = run
    BY DEF RoundsNext, roundsVars, PlanRounds, Serve, RunRows
  <2> QED
    BY <2>1, RunDecides
<1>2. SUFFICES BudgetIsWhole(r) /\ BudgetFits(r)
  BY <1>1 DEF BudgetIsWhole, BudgetFits
<1>3. CASE r \in rows
  BY <1>3 DEF BudgetsHold
<1>4. CASE RunRows /\ r \notin rows
  <2>1. pc = "rows" /\ \E c \in Jobs(rounds[at]) : r = RowOf(c)
    BY <1>4 DEF RunRows
  <2>2. PICK c \in rounds[at] : r = RowOf(c)
    BY <2>1 DEF Jobs
  <2> QED
    BY <2>1, <2>2, NewRowIsWhole, NewRowFits DEF SharesInv
<1> QED
  BY <1>3, <1>4 DEF RoundsNext, roundsVars, PlanRounds, Serve

(* Where the rig serves what a round was loaded for, a fixed budget is     *)
(* sent whole, a ladder row runs and a rung's answer fits; and whatever it *)
(* serves, no fixed budget asks for more than the window holds.            *)
THEOREM BudgetsAreKept == RoundsSpec => []BudgetsHold
<1>1. RoundsInit => BudgetsHold
  BY DEF RoundsInit, BudgetsHold
<1> QED
  BY <1>1, SharesAlways, BudgetsStep, PTL DEF RoundsSpec

-----------------------------------------------------------------------------
(* Completion: the parts of its invariant.                                 *)

(* An attempt is a failure, except the one under way and one that a hold   *)
(* has cut short.                                                          *)
Spent(j) ==
  /\ j.pc \in {"ask", "backoff"} => j.attempt < MaxRetries /\ j.failed = j.attempt
  /\ j.pc \in {"go", "flight", "held"} =>
       j.attempt >= 1 /\ j.failed = j.attempt - 1
  /\ j.pc = "held" => j.held + j.wait <= HoldBudget
  /\ j.pc # "end" => j.waited = j.held

Earned(j) ==
  /\ j.error = "transport" => j.failed = MaxRetries
  /\ j.error = "hold" => j.waited = HoldBudget

(* Where the record stands, and what it then holds.                        *)
Placed(j) ==
  /\ j.pc \in {"ask", "go", "flight", "backoff", "held", "replied"} =>
       j.error = "none"
  /\ j.pc = "raised" => j.error \in Errors
  /\ j.pc \in {"lost", "reload"} => j.error = "wrong"
  /\ j.pc # "end" => j.outcome = "none"
  /\ j.outcome = "transport" =>
       j.error \in {"stalled", "denied", "exhausted", "wrong", "transport", "hold"}

Ceiled(j) == j.ceilings = 0 \/ (j.ceilings = 1 /\ j.error \in Ceilings)

Dropped(j) ==
  j.cut => \/ j.pc = "raised" /\ j.error \in Cuts
           \/ j.pc = "end" /\ j.outcome \in {"stopped", "dropped"}

Free(j) == j.stage \in Recovery => j.outcome \notin {"case", "wall", "transport"}

Late(j) ==
  /\ j.late <= 1
  /\ ~ABORT \/ j.pc = "go" => j.late = 0

Sound(j) ==
  /\ j \in Job /\ Spent(j) /\ Earned(j) /\ Placed(j) /\ Ceiled(j)
  /\ Dropped(j) /\ Free(j) /\ Late(j)

IInv == TypeOK /\ Sound(job)

USE CompletionAssumption DEF CompletionAssumption

-----------------------------------------------------------------------------
(* The records that the layers hand to one another.                        *)

LEMMA NewSound == ~ABORT => Sound(NewJob)
  BY DEF Sound, NewJob, Job, Spent, Earned, Placed, Ceiled, Dropped, Free, Late,
         Errors, Recovery

LEMMA ErrorKinds ==
  /\ Cuts \subseteq Errors /\ Terminal \subseteq Errors
  /\ Ceilings \subseteq Errors
  /\ {"transport", "hold", "load"} \subseteq Errors
  /\ "none" \notin Errors
  BY DEF Errors, Terminal, Cuts, Ceilings, Rejects

(* A row that is raised out of a request, a wait or a reload.              *)
LEMMA RaiseSound ==
  ASSUME NEW j \in Job, NEW e \in Errors,
         j.pc # "end", j.waited = j.held, j.outcome = "none", ~j.cut,
         j.ceilings = 0, j.late <= 1, ~ABORT => j.late = 0,
         e = "transport" => j.failed = MaxRetries,
         e = "hold" => j.waited = HoldBudget
  PROVE  Sound(Raise(j, e))
<1> DEFINE k == Raise(j, e)
<1>1. /\ k.pc = "raised" /\ k.error = e /\ k.wait = 0
      /\ k.cut = (j.cut \/ e \in Cuts)
      /\ k.failed = j.failed /\ k.waited = j.waited /\ k.held = j.held
      /\ k.outcome = j.outcome /\ k.ceilings = j.ceilings /\ k.late = j.late
      /\ k.stage = j.stage
  BY DEF Raise, Job
<1>2. k \in Job
  <2>1. 0 \in 0..HoldBudget
    OBVIOUS
  <2>2. PICK b \in BOOLEAN : b = (j.cut \/ e \in Cuts)
    OBVIOUS
  <2>3. k = [j EXCEPT !.pc = "raised", !.error = e, !.wait = 0, !.cut = b]
    BY <2>2 DEF Raise, Job
  <2> QED BY <2>1, <2>3, ZenonT(60) DEF Job
<1> HIDE DEF k
<1>3. Spent(k) /\ Earned(k) /\ Placed(k) /\ Ceiled(k) /\ Late(k)
  BY <1>1 DEF Spent, Earned, Placed, Ceiled, Late
<1>4. Dropped(k) /\ Free(k)
  BY <1>1 DEF Dropped, Free
<1> QED BY <1>2, <1>3, <1>4 DEF Sound, k

(* A record that an error may be raised from.                              *)
Ready(j) ==
  /\ j \in Job /\ j.pc # "end" /\ j.waited = j.held /\ j.outcome = "none"
  /\ ~j.cut /\ j.ceilings = 0 /\ j.late <= 1 /\ (~ABORT => j.late = 0)

LEMMA ErrorSound ==
  ASSUME NEW j, Ready(j), NEW e \in Errors,
         e = "transport" => j.failed = MaxRetries,
         e = "hold" => j.waited = HoldBudget
  PROVE  Sound(Raise(j, e)) /\ Raise(j, e).error = e
         /\ Raise(j, e).ceilings = 0 /\ Raise(j, e).pc = "raised"
<1>1. Sound(Raise(j, e))
  BY RaiseSound DEF Ready
<1>2. /\ Raise(j, e).error = e /\ Raise(j, e).ceilings = 0
      /\ Raise(j, e).pc = "raised"
  BY DEF Ready, Raise, Job
<1> QED BY <1>1, <1>2

LEMMA CutSound ==
  ASSUME NEW j, Ready(j), NEW e \in Cuts
  PROVE  Sound(Raise(j, e))
<1>1. e \in Errors /\ e # "transport" /\ e # "hold"
  BY ErrorKinds DEF Cuts
<1> QED BY <1>1, ErrorSound

(* The start of a completion, at whatever stage.                           *)
LEMMA ChatSound ==
  ASSUME NEW j \in Job, NEW s \in {"first", "again"} \cup Recovery,
         j.outcome = "none", ~j.cut, j.ceilings = 0, Late(j), j.pc # "go"
  PROVE  /\ Sound(Chat(j, s))
         /\ Chat(j, s).calls = j.calls
<1> DEFINE k == Chat(j, s)
<1>1. /\ k.pc = "ask" /\ k.error = "none" /\ k.attempt = 0 /\ k.failed = 0
      /\ k.cut = j.cut /\ k.waited = 0 /\ k.held = 0 /\ k.calls = j.calls
      /\ k.outcome = j.outcome /\ k.ceilings = j.ceilings /\ k.late = j.late
  BY DEF Chat, Fresh, Job
<1>2. k \in Job
  <2>1. 0 \in 0..HoldBudget /\ 0 \in 0..MaxRetries
    OBVIOUS
  <2> QED BY <2>1, ZenonT(60) DEF Chat, Fresh, Job
<1> HIDE DEF k
<1>3. Spent(k) /\ Earned(k) /\ Placed(k) /\ Ceiled(k)
  BY <1>1 DEF Spent, Earned, Placed, Ceiled
<1>4. Dropped(k) /\ Free(k) /\ Late(k)
  BY <1>1 DEF Dropped, Free, Late
<1> QED BY <1>1, <1>2, <1>3, <1>4 DEF Sound, k

(* The end of the row.                                                     *)
LEMMA EndSound ==
  ASSUME NEW j \in Job, Sound(j), j.pc # "go",
         NEW o \in {"row", "dropped", "stopped", "case", "wall", "transport",
                    "model"},
         j.cut => o \in {"stopped", "dropped"},
         o \in {"case", "wall", "transport"} => j.stage \notin Recovery,
         o = "transport" => j.error \in
           {"stalled", "denied", "exhausted", "wrong", "transport", "hold"}
  PROVE  Sound(End(j, o))
<1> DEFINE k == End(j, o)
<1>1. /\ k.pc = "end" /\ k.outcome = o /\ k.error = j.error
      /\ k.failed = j.failed /\ k.waited = j.waited /\ k.cut = j.cut
      /\ k.ceilings = j.ceilings /\ k.late = j.late /\ k.stage = j.stage
  BY DEF End, Job
<1>2. k \in Job
  <2>1. 0 \in 0..HoldBudget /\ 0 \in 0..MaxRetries
    OBVIOUS
  <2> QED BY <2>1, ZenonT(60) DEF End, Job
<1> HIDE DEF k
<1>3. Spent(k) /\ Earned(k) /\ Placed(k) /\ Ceiled(k)
  BY <1>1 DEF Spent, Earned, Placed, Ceiled, Sound, Ready
<1>4. Dropped(k) /\ Free(k) /\ Late(k)
  BY <1>1 DEF Dropped, Free, Late, Sound, Ready
<1> QED BY <1>2, <1>3, <1>4 DEF Sound, k

LEMMA NextCallSound ==
  ASSUME NEW j \in Job, Sound(j), j.pc \in {"replied", "raised"}, ~j.cut,
         j.calls # Turns
  PROVE  Sound([Chat(j, "first") EXCEPT !.calls = @ + 1, !.first = "none",
                                        !.ceilings = 0])
<1> DEFINE k == [Chat(j, "first") EXCEPT !.calls = @ + 1, !.first = "none",
                                         !.ceilings = 0]
<1>1. /\ k.pc = "ask" /\ k.error = "none" /\ k.attempt = 0 /\ k.failed = 0
      /\ k.cut = j.cut /\ k.waited = 0 /\ k.held = 0 /\ k.stage = "first"
      /\ k.outcome = j.outcome /\ k.ceilings = 0 /\ k.late = j.late
  BY DEF Chat, Fresh, Job
<1>2. k \in Job
  <2>1. /\ 0 \in 0..HoldBudget /\ 0 \in 0..MaxRetries
        /\ j.calls + 1 \in 1..Turns /\ 0 \in Nat
    BY DEF Job
  <2> QED BY <2>1, ZenonT(60) DEF Chat, Fresh, Job
<1> HIDE DEF k
<1>3. j.outcome = "none" /\ Late(j) /\ j.pc # "go"
  BY DEF Sound, Placed
<1>4. Spent(k) /\ Earned(k) /\ Placed(k) /\ Ceiled(k)
  BY <1>1, <1>3 DEF Spent, Earned, Placed, Ceiled
<1>5. Dropped(k) /\ Free(k) /\ Late(k)
  BY <1>1, <1>3 DEF Dropped, Free, Late, Recovery
<1> QED BY <1>2, <1>4, <1>5 DEF Sound, k

LEMMA HandedSound ==
  ASSUME NEW j \in Job, Sound(j), j.pc \in {"replied", "raised"}, ~j.cut,
         NEW k \in Handed(j)
  PROVE  Sound(k)
<1>1. CASE k = End(j, IF ABORT THEN "dropped" ELSE "row")
  <2>1. PICK o \in {"dropped", "row"} : k = End(j, o)
    BY <1>1
  <2> QED BY <2>1, EndSound
<1>2. CASE k = End(j, "stopped")
  BY <1>2, EndSound
<1>3. CASE /\ j.calls # Turns
           /\ k = [Chat(j, "first") EXCEPT !.calls = @ + 1, !.first = "none",
                                           !.ceilings = 0]
  BY <1>3, NextCallSound
<1> QED BY <1>1, <1>2, <1>3 DEF Handed

LEMMA ContinueSound ==
  ASSUME NEW j \in Job, Sound(j), j.pc \in {"replied", "raised"}, ~j.cut,
         j.ceilings = 0, NEW k \in Continue(j)
  PROVE  Sound(k)
<1>1. j.outcome = "none" /\ Late(j)
  BY DEF Sound, Placed
<1>2. CASE j.first \in Reasoned
  BY <1>1, <1>2, ChatSound DEF Continue, Recovery
<1>3. CASE j.first \notin Reasoned
  BY <1>3, HandedSound DEF Continue
<1> QED BY <1>2, <1>3

LEMMA FirstSound ==
  ASSUME NEW j \in Job, Sound(j), j.pc = "replied", NEW k \in First(j)
  PROVE  Sound(k)
<1>1. j.outcome = "none" /\ Late(j) /\ j.ceilings = 0 /\ ~j.cut
  BY DEF Sound, Placed, Ceiled, Dropped, Ceilings
<1>2. CASE k \in Handed(j)
  BY <1>1, <1>2, HandedSound
<1>3. CASE k = Chat(j, "again")
  BY <1>1, <1>3, ChatSound
<1>4. CASE k \in Recover(j)
  <2>1. CASE k = Chat(j, "nothink")
    BY <1>1, <2>1, ChatSound DEF Recovery
  <2>2. CASE k \in Continue(j)
    BY <1>1, <2>2, ContinueSound
  <2> QED BY <1>4, <2>1, <2>2 DEF Recover
<1> QED BY <1>2, <1>3, <1>4 DEF First

LEMMA ReplySound ==
  ASSUME NEW j \in Job, Sound(j), NEW r \in Replies \cup {"none"}
  PROVE  [j EXCEPT !.first = r] \in Job /\ Sound([j EXCEPT !.first = r])
         /\ [j EXCEPT !.first = r].pc = j.pc
<1> DEFINE k == [j EXCEPT !.first = r]
<1>1. /\ k.pc = j.pc /\ k.error = j.error /\ k.attempt = j.attempt
      /\ k.failed = j.failed /\ k.cut = j.cut /\ k.waited = j.waited
      /\ k.held = j.held /\ k.wait = j.wait /\ k.stage = j.stage
      /\ k.outcome = j.outcome /\ k.ceilings = j.ceilings /\ k.late = j.late
  BY DEF Job
<1>2. k \in Job
  BY ZenonT(60) DEF Job
<1> HIDE DEF k
<1>3. Spent(k) /\ Earned(k) /\ Placed(k) /\ Ceiled(k)
  BY <1>1 DEF Spent, Earned, Placed, Ceiled, Sound, Ready
<1>4. Dropped(k) /\ Free(k) /\ Late(k)
  BY <1>1 DEF Dropped, Free, Late, Sound, Ready
<1> QED BY <1>1, <1>2, <1>3, <1>4 DEF Sound, k

-----------------------------------------------------------------------------
(* Every step of the row leaves a sound record.                            *)

(* The steps of stream_chat_retried that go on change few fields.          *)
LEMMA RequestSound ==
  ASSUME Sound(job), Request
  PROVE  Sound(job')
<1> USE DEF At
<1>1. /\ job \in Job
      /\ ~job.cut \/ job.pc = "raised" \/ job.pc = "end"
  BY DEF Sound, Dropped
<1>2. CASE Ask
  <2> DEFINE j == [job EXCEPT !.attempt = @ + 1]
  <2>1. job \in Job /\ job.pc = "ask" /\ job.attempt + 1 \in 0..MaxRetries
    BY <1>2 DEF Ask, Sound, Spent, Job
  <2>2. j \in Job
    BY <2>1, ZenonT(60) DEF Job
  <2>3. Ready(j)
    BY <2>1, <2>2 DEF Sound, Spent, Placed, Dropped, Ceiled, Late, Ceilings,
                      Job, Ready
  <2>4. CASE ABORT
    <3>1. job' = Raise(j, "aborted") /\ "aborted" \in Cuts
      BY <1>2, <2>4 DEF Ask, Heeds, Cuts
    <3> HIDE DEF j
    <3> QED BY <2>3, <3>1, CutSound
  <2>5. CASE ~ABORT
    <3> DEFINE k == [j EXCEPT !.pc = "go"]
    <3>1. job' = k
      BY <1>2, <2>5 DEF Ask, Heeds
    <3>2. k \in Job
      BY <2>2, ZenonT(60) DEF Job
    <3>3. /\ k.pc = "go" /\ k.error = job.error /\ k.attempt = job.attempt + 1
          /\ k.failed = job.failed /\ k.cut = job.cut /\ k.waited = job.waited
          /\ k.held = job.held /\ k.outcome = job.outcome
          /\ k.stage = job.stage /\ k.ceilings = job.ceilings
          /\ k.late = job.late
      BY <2>1 DEF Job
    <3> HIDE DEF k
    <3>4. Spent(k) /\ Earned(k) /\ Placed(k) /\ Ceiled(k)
      BY <2>1, <3>3 DEF Spent, Earned, Placed, Ceiled, Sound, Job
    <3>5. Dropped(k) /\ Free(k) /\ Late(k)
      BY <2>1, <2>5, <3>3 DEF Dropped, Free, Late, Sound, Ready
    <3> QED BY <3>1, <3>2, <3>4, <3>5 DEF Sound
  <2> QED BY <2>4, <2>5
<1>3. ASSUME job.pc \in {"go", "flight", "backoff", "held"}
      PROVE  Ready(job) /\ job \in Job /\ job.error = "none"
  BY <1>3 DEF Sound, Spent, Placed, Dropped, Ceiled, Late, Ceilings, Ready
<1>4. CASE Send
  <2>1. job.pc = "go" /\ Ready(job) /\ job \in Job /\ job.error = "none"
    BY <1>3, <1>4 DEF Send
  <2>2. CASE closed
    <3>1. job' = Raise(job, "closed") /\ "closed" \in Cuts
      BY <1>4, <2>2 DEF Send, Cuts
    <3> QED BY <2>1, <3>1, CutSound
  <2>3. CASE ~closed
    <3> DEFINE n == IF ABORT THEN job.late + 1 ELSE job.late
    <3>1. /\ n \in Nat /\ n <= 1 /\ (~ABORT => n = 0)
          /\ job' = [job EXCEPT !.pc = "flight", !.late = n]
      <4>1. job.late = 0
        BY <2>1 DEF Sound, Late
      <4>2. job' = [job EXCEPT !.pc = "flight", !.late = n]
        BY <1>4, <2>3 DEF Send
      <4> QED BY <4>1, <4>2
    <3> HIDE DEF n
    <3> DEFINE k == [job EXCEPT !.pc = "flight", !.late = n]
    <3>2. k \in Job
      <4>1. n \in Nat
        BY <3>1
      <4> QED BY <2>1, <4>1, ZenonT(60) DEF Job
    <3>3. /\ k.pc = "flight" /\ k.error = job.error /\ k.attempt = job.attempt
          /\ k.failed = job.failed /\ k.cut = job.cut /\ k.waited = job.waited
          /\ k.held = job.held /\ k.outcome = job.outcome
          /\ k.stage = job.stage /\ k.ceilings = job.ceilings /\ k.late = n
      BY <2>1 DEF Job
    <3> HIDE DEF k
    <3>4. Spent(k) /\ Earned(k) /\ Placed(k) /\ Ceiled(k)
      BY <2>1, <3>3 DEF Spent, Earned, Placed, Ceiled, Sound, Ready
    <3>5. Dropped(k) /\ Free(k) /\ Late(k)
      BY <2>1, <3>1, <3>3 DEF Dropped, Free, Late, Sound, Ready
    <3> QED BY <3>1, <3>2, <3>4, <3>5 DEF Sound, k
  <2> QED BY <2>2, <2>3
<1>5. CASE Complete
  <2>1. job.pc = "flight" /\ Ready(job) /\ job \in Job /\ job.error = "none"
    BY <1>3, <1>5 DEF Complete
  <2>2. PICK r \in Replies : job' = [job EXCEPT !.pc = "replied", !.reply = r]
    BY <1>5 DEF Complete
  <2> DEFINE k == [job EXCEPT !.pc = "replied", !.reply = r]
  <2>3. k \in Job
    BY <2>1, ZenonT(60) DEF Job
  <2>4. /\ k.pc = "replied" /\ k.error = job.error /\ k.failed = job.failed
        /\ k.cut = job.cut /\ k.waited = job.waited /\ k.held = job.held
        /\ k.outcome = job.outcome /\ k.stage = job.stage
        /\ k.ceilings = job.ceilings /\ k.late = job.late
    BY <2>1 DEF Job
  <2> HIDE DEF k
  <2>5. Spent(k) /\ Earned(k) /\ Placed(k) /\ Ceiled(k)
    BY <2>1, <2>4 DEF Spent, Earned, Placed, Ceiled, Sound, Ready
  <2>6. Dropped(k) /\ Free(k) /\ Late(k)
    BY <2>1, <2>4 DEF Dropped, Free, Late, Sound, Ready
  <2> QED BY <2>2, <2>3, <2>5, <2>6 DEF Sound, k
<1>6. CASE Drop
  <2>1. job.pc = "flight" /\ Ready(job) /\ job \in Job /\ job.error = "none"
    BY <1>3, <1>6 DEF Drop
  <2>2. PICK e \in Cuts : job' = Raise(job, e)
    BY <1>6 DEF Drop, Cuts
  <2> QED BY <2>1, <2>2, CutSound
<1>7. CASE Refuse
  <2>1. job.pc = "flight" /\ Ready(job) /\ job \in Job /\ job.error = "none"
    BY <1>3, <1>7 DEF Refuse
  <2>2. PICK e \in Terminal :
          job' = [Raise(job, e) EXCEPT
                    !.ceilings = IF e \in Ceilings THEN @ + 1 ELSE @]
    BY <1>7 DEF Refuse
  <2> DEFINE j == Raise(job, e)
             c == IF e \in Ceilings THEN 1 ELSE 0
             k == [j EXCEPT !.ceilings = c]
  <2>3. /\ j \in Job /\ Sound(j) /\ j.pc = "raised" /\ j.error = e
        /\ j.ceilings = 0
    <3>1. e \in Errors /\ e # "transport" /\ e # "hold"
      BY ErrorKinds DEF Terminal, Ceilings, Rejects
    <3>2. Sound(j) /\ j.error = e /\ j.ceilings = 0 /\ j.pc = "raised"
      BY <2>1, <3>1, ErrorSound
    <3> QED BY <3>2 DEF Sound
  <2> HIDE DEF j
  <2>4. job' = k
    BY <2>2, <2>3 DEF j, Job
  <2>5. k \in Job
    <3>1. c \in Nat
      OBVIOUS
    <3> QED BY <2>3, <3>1, ZenonT(60) DEF Job
  <2>6. /\ k.pc = j.pc /\ k.error = e /\ k.ceilings = c
        /\ k.failed = j.failed /\ k.cut = j.cut /\ k.waited = j.waited
        /\ k.held = j.held /\ k.outcome = j.outcome /\ k.stage = j.stage
        /\ k.late = j.late
    BY <2>3 DEF Job
  <2> HIDE DEF k
  <2>7. Spent(k) /\ Earned(k) /\ Placed(k) /\ Ceiled(k)
    BY <2>3, <2>6 DEF Spent, Earned, Placed, Ceiled, Sound, Ready
  <2>8. Dropped(k) /\ Free(k) /\ Late(k)
    BY <2>3, <2>6 DEF Dropped, Free, Late, Sound, Ready
  <2> QED BY <2>4, <2>5, <2>7, <2>8 DEF Sound
<1>8. CASE Break
  <2>1. job.pc = "flight" /\ Ready(job) /\ job \in Job /\ job.error = "none"
    BY <1>3, <1>8 DEF Break
  <2> DEFINE j == [job EXCEPT !.failed = @ + 1]
  <2>2. job.failed = job.attempt - 1 /\ job.failed + 1 \in 0..MaxRetries
    BY <2>1 DEF Sound, Spent, Job
  <2>3. j \in Job
    BY <2>1, <2>2, ZenonT(60) DEF Job
  <2>4. /\ j.pc = "flight" /\ j.error = job.error /\ j.attempt = job.attempt
        /\ j.failed = job.attempt /\ j.cut = job.cut /\ j.waited = job.waited
        /\ j.held = job.held /\ j.outcome = job.outcome
        /\ j.stage = job.stage /\ j.ceilings = job.ceilings
        /\ j.late = job.late
    BY <2>1, <2>2 DEF Job
  <2>5. CASE Retries(j)
    <3> DEFINE k == [j EXCEPT !.pc = "backoff"]
    <3>1. job' = k
      BY <1>8, <2>5 DEF Break
    <3>2. k \in Job
      BY <2>3, ZenonT(60) DEF Job
    <3>3. /\ k.pc = "backoff" /\ k.error = j.error /\ k.attempt = j.attempt
          /\ k.failed = j.failed /\ k.cut = j.cut /\ k.waited = j.waited
          /\ k.held = j.held /\ k.outcome = j.outcome
          /\ k.stage = j.stage /\ k.ceilings = j.ceilings
          /\ k.late = j.late
      BY <2>3 DEF Job
    <3> HIDE DEF k, j
    <3>4. Spent(k) /\ Earned(k) /\ Placed(k) /\ Ceiled(k)
      BY <2>1, <2>4, <2>5, <3>3 DEF Spent, Earned, Placed, Ceiled, Retries,
                                        Ready
    <3>5. Dropped(k) /\ Free(k) /\ Late(k)
      BY <2>1, <2>4, <3>3 DEF Dropped, Free, Late, Sound, Ready
    <3> QED BY <3>1, <3>2, <3>4, <3>5 DEF Sound
  <2>6. CASE ~Retries(j)
    <3>1. job' = Raise(j, "transport")
      BY <1>8, <2>6 DEF Break
    <3>2. j.failed = MaxRetries
      BY <2>3, <2>4, <2>6 DEF Retries, Job
    <3> HIDE DEF j
    <3>3. Ready(j)
      BY <2>1, <2>3, <2>4 DEF Ready
    <3> HIDE DEF j
    <3>4. "transport" \in Errors /\ "transport" # "hold"
      BY ErrorKinds
    <3> QED BY <3>1, <3>2, <3>3, <3>4, ErrorSound
  <2> QED BY <2>5, <2>6
<1>9. CASE Hold
  <2>1. job.pc = "flight" /\ Ready(job) /\ job \in Job /\ job.error = "none"
    BY <1>3, <1>9 DEF Hold
  <2>2. CASE job.held >= HoldBudget
    <3>1. job' = Raise(job, "hold") /\ job.waited = HoldBudget
      <4>1. job' = Raise(job, "hold")
        BY <1>9, <2>2 DEF Hold
      <4>2. job.waited = HoldBudget
        BY <2>1, <2>2 DEF Ready, Job
      <4> QED BY <4>1, <4>2
    <3>2. "hold" \in Errors /\ "hold" # "transport"
      BY ErrorKinds
    <3> QED BY <2>1, <3>1, <3>2, ErrorSound
  <2>3. CASE ~(job.held >= HoldBudget)
    <3>1. PICK w \in 0..HoldBudget :
            /\ job.held + w <= HoldBudget
            /\ job' = [job EXCEPT !.pc = "held", !.wait = w]
      <4>1. PICK hint \in 1..MaxHint :
              job' = [job EXCEPT !.pc = "held",
                                 !.wait = Least(hint, HoldBudget - job.held)]
        BY <1>9, <2>3 DEF Hold
      <4>2. /\ Least(hint, HoldBudget - job.held) \in 0..HoldBudget
            /\ job.held + Least(hint, HoldBudget - job.held) <= HoldBudget
        BY <2>1, <2>3 DEF Least, Job
      <4> QED BY <4>1, <4>2
    <3> DEFINE k == [job EXCEPT !.pc = "held", !.wait = w]
    <3>2. k \in Job
      BY <2>1, ZenonT(60) DEF Job
    <3>3. /\ k.pc = "held" /\ k.error = job.error /\ k.attempt = job.attempt
          /\ k.failed = job.failed /\ k.cut = job.cut /\ k.waited = job.waited
          /\ k.held = job.held /\ k.wait = w /\ k.outcome = job.outcome
          /\ k.stage = job.stage /\ k.ceilings = job.ceilings
          /\ k.late = job.late
      BY <2>1 DEF Job
    <3> HIDE DEF k
    <3>4. Spent(k) /\ Earned(k) /\ Placed(k) /\ Ceiled(k)
      BY <2>1, <3>1, <3>3 DEF Spent, Earned, Placed, Ceiled, Sound, Ready
    <3>5. Dropped(k) /\ Free(k) /\ Late(k)
      BY <2>1, <3>3 DEF Dropped, Free, Late, Sound, Ready
    <3> QED BY <3>1, <3>2, <3>4, <3>5 DEF Sound, k
  <2> QED BY <2>2, <2>3
<1>10. CASE Wake
  <2>1. /\ job.pc \in {"backoff", "held"} /\ Ready(job) /\ job \in Job
        /\ job.error = "none"
    BY <1>3, <1>10 DEF Wake
  <2>2. CASE ABORT
    <3>1. job' = Raise(job, "aborted") /\ "aborted" \in Cuts
      BY <1>10, <2>2 DEF Wake, Cuts
    <3> QED BY <2>1, <3>1, CutSound
  <2>3. CASE ~ABORT /\ job.pc = "backoff"
    <3> DEFINE k == [job EXCEPT !.pc = "ask"]
    <3>1. job' = k
      BY <1>10, <2>3 DEF Wake
    <3>2. k \in Job
      BY <2>1, ZenonT(60) DEF Job
    <3>3. /\ k.pc = "ask" /\ k.error = job.error /\ k.attempt = job.attempt
          /\ k.failed = job.failed /\ k.cut = job.cut /\ k.waited = job.waited
          /\ k.held = job.held /\ k.outcome = job.outcome
          /\ k.stage = job.stage /\ k.ceilings = job.ceilings
          /\ k.late = job.late
      BY <2>1 DEF Job
    <3> HIDE DEF k
    <3>4. Spent(k) /\ Earned(k) /\ Placed(k) /\ Ceiled(k)
      BY <2>1, <2>3, <3>3 DEF Spent, Earned, Placed, Ceiled, Sound, Ready
    <3>5. Dropped(k) /\ Free(k) /\ Late(k)
      BY <2>1, <2>3, <3>3 DEF Dropped, Free, Late, Sound, Ready
    <3> QED BY <3>1, <3>2, <3>4, <3>5 DEF Sound
  <2>4. CASE ~ABORT /\ job.pc = "held"
    <3> DEFINE h == job.held + job.wait
               a == job.attempt - 1
               k == [job EXCEPT !.pc = "ask", !.held = h, !.attempt = a,
                                !.wait = 0, !.waited = h]
    <3>1. job' = k
      <4>1. job' = [HeldOut(job) EXCEPT !.waited = @ + job.wait]
        BY <1>10, <2>4 DEF Wake
      <4>2. job.waited = job.held
        BY <2>1 DEF Ready
      <4> QED BY <2>1, <4>1, <4>2 DEF HeldOut, Job
    <3>2. /\ job.attempt >= 1 /\ job.failed = a /\ a < MaxRetries
          /\ a \in 0..MaxRetries /\ h \in 0..HoldBudget /\ 0 \in 0..HoldBudget
      BY <2>1, <2>4 DEF Sound, Spent, Job
    <3> HIDE DEF h, a
    <3>3. k \in Job
      BY <2>1, <3>2, ZenonT(60) DEF Job
    <3>4. /\ k.pc = "ask" /\ k.error = job.error /\ k.attempt = a
          /\ k.failed = job.failed /\ k.cut = job.cut /\ k.waited = h
          /\ k.held = h /\ k.outcome = job.outcome
          /\ k.stage = job.stage /\ k.ceilings = job.ceilings
          /\ k.late = job.late
      BY <2>1 DEF Job
    <3> HIDE DEF k
    <3>5. Spent(k) /\ Earned(k) /\ Placed(k) /\ Ceiled(k)
      BY <2>1, <3>2, <3>4 DEF Spent, Earned, Placed, Ceiled, Sound, Ready
    <3>6. Dropped(k) /\ Free(k) /\ Late(k)
      BY <2>1, <2>4, <3>4 DEF Dropped, Free, Late, Sound, Ready
    <3> QED BY <3>1, <3>3, <3>5, <3>6 DEF Sound
  <2> QED BY <2>1, <2>2, <2>3, <2>4
<1> QED BY <1>2, <1>4, <1>5, <1>6, <1>7, <1>8, <1>9, <1>10 DEF Request

-----------------------------------------------------------------------------
LEMMA ReloadSound ==
  ASSUME Sound(job), Lose \/ Reload \/ Loaded
  PROVE  Sound(job')
<1> USE DEF At
<1>1. CASE Lose
  <2>1. /\ job \in Job /\ job.pc = "raised" /\ job.error = "wrong"
        /\ Ready(job)
    BY <1>1 DEF Lose, Mendable, Sound, Spent, Placed, Ceiled, Dropped, Late,
                Cuts, Ceilings, Ready
  <2>2. CASE ABORT
    <3>1. job' = Raise(job, "aborted") /\ "aborted" \in Cuts
      BY <1>1, <2>2 DEF Lose, Cuts
    <3> QED BY <2>1, <3>1, CutSound
  <2>3. CASE ~ABORT
    <3> DEFINE k == [job EXCEPT !.pc = "lost"]
    <3>1. job' = k
      BY <1>1, <2>3 DEF Lose
    <3>2. k \in Job
      BY <2>1, ZenonT(60) DEF Job
    <3>3. /\ k.pc = "lost" /\ k.error = job.error /\ k.failed = job.failed
          /\ k.cut = job.cut /\ k.waited = job.waited /\ k.held = job.held
          /\ k.outcome = job.outcome /\ k.stage = job.stage
          /\ k.ceilings = job.ceilings /\ k.late = job.late
      BY <2>1 DEF Job
    <3> HIDE DEF k
    <3>4. Spent(k) /\ Earned(k) /\ Placed(k) /\ Ceiled(k)
      BY <2>1, <3>3 DEF Spent, Earned, Placed, Ceiled, Sound, Ready
    <3>5. Dropped(k) /\ Free(k) /\ Late(k)
      BY <2>1, <3>3 DEF Dropped, Free, Late, Sound, Ready
    <3> QED BY <3>1, <3>2, <3>4, <3>5 DEF Sound
  <2> QED BY <2>2, <2>3
<1>2. CASE Reload
  <2>1. job \in Job /\ job.pc = "lost" /\ ~job.cut /\ job.outcome = "none"
    BY <1>2 DEF Reload, Sound, Placed, Dropped
  <2> DEFINE k == [job EXCEPT !.pc = "reload"]
  <2>2. job' = k
    BY <1>2 DEF Reload
  <2>3. k \in Job
    BY <2>1, ZenonT(60) DEF Job
  <2>4. /\ k.pc = "reload" /\ k.error = job.error /\ k.failed = job.failed
        /\ k.cut = job.cut /\ k.waited = job.waited /\ k.held = job.held
        /\ k.outcome = job.outcome /\ k.stage = job.stage
        /\ k.ceilings = job.ceilings /\ k.late = job.late
    BY <2>1 DEF Job
  <2> HIDE DEF k
  <2>5. Spent(k) /\ Earned(k) /\ Placed(k) /\ Ceiled(k)
    BY <2>1, <2>4 DEF Spent, Earned, Placed, Ceiled, Sound
  <2>6. Dropped(k) /\ Free(k) /\ Late(k)
    BY <2>1, <2>4 DEF Dropped, Free, Late, Sound
  <2> QED BY <2>2, <2>3, <2>5, <2>6 DEF Sound
<1>3. CASE Loaded
  <2>1. /\ job \in Job /\ job.pc = "reload" /\ ~job.cut
        /\ job.outcome = "none" /\ Late(job)
    BY <1>3 DEF Loaded, Sound, Placed, Dropped
  <2>2. job.ceilings = 0
    BY <1>3 DEF Loaded, Sound, Placed, Ceiled, Ceilings
  <2>3. CASE job' = Raise(job, "load")
    <3>1. Ready(job)
      BY <2>1, <2>2 DEF Ready, Sound, Spent, Late
    <3>2. "load" \in Errors /\ "load" # "transport" /\ "load" # "hold"
      BY ErrorKinds
    <3> QED BY <2>3, <3>1, <3>2, ErrorSound
  <2>4. CASE job' = [Fresh(job) EXCEPT !.reloaded = TRUE]
    <3> DEFINE k == [Fresh(job) EXCEPT !.reloaded = TRUE]
    <3>1. k \in Job
      <4>1. 0 \in 0..HoldBudget /\ 0 \in 0..MaxRetries
        OBVIOUS
      <4> QED BY <2>1, <4>1, ZenonT(60) DEF Fresh, Job
    <3>2. /\ k.pc = "ask" /\ k.error = "none" /\ k.attempt = 0
          /\ k.failed = 0 /\ k.waited = 0 /\ k.held = 0 /\ k.cut = job.cut
          /\ k.outcome = job.outcome /\ k.stage = job.stage
          /\ k.ceilings = job.ceilings /\ k.late = job.late
      BY <2>1 DEF Fresh, Job
    <3> HIDE DEF k
    <3>3. Spent(k) /\ Earned(k) /\ Placed(k) /\ Ceiled(k)
      BY <2>1, <2>2, <3>2 DEF Spent, Earned, Placed, Ceiled
    <3>4. Dropped(k) /\ Free(k) /\ Late(k)
      BY <2>1, <3>2 DEF Dropped, Free, Late
    <3> QED BY <2>4, <3>1, <3>3, <3>4 DEF Sound, k
  <2> QED BY <1>3, <2>3, <2>4 DEF Loaded
<1> QED BY <1>1, <1>2, <1>3

LEMMA CallSound ==
  ASSUME Sound(job), Take \/ Refused \/ Absorb \/ Fail
  PROVE  Sound(job')
<1> USE DEF At
<1>1. CASE Take
  <2> DEFINE new == [job EXCEPT !.first = job.reply]
  <2>1. /\ job \in Job /\ job.pc = "replied" /\ ~job.cut /\ job.ceilings = 0
    BY <1>1 DEF Take, Sound, Placed, Dropped, Ceiled, Ceilings
  <2>2. new \in Job /\ Sound(new) /\ new.pc = "replied"
    <3>1. job.reply \in Replies \cup {"none"}
      BY <2>1 DEF Job
    <3> QED BY <2>1, <3>1, ReplySound
  <2>3. ~new.cut
    BY <2>2 DEF Sound, Dropped
  <2>4. \/ job' \in First(new) \/ job' \in Handed(new)
        \/ job' \in Handed(job) \/ job' \in Continue(job)
    <3> HIDE DEF new
    <3>1. job.stage \in {"first", "again", "continue", "nothink"}
      BY <2>1 DEF Job, Recovery
    <3> QED BY <1>1, <3>1 DEF Take, new
  <2> HIDE DEF new
  <2>5. CASE job' \in First(new)
    BY <2>2, <2>5, FirstSound
  <2>6. CASE job' \in Handed(new)
    BY <2>2, <2>3, <2>6, HandedSound
  <2>7. CASE job' \in Handed(job)
    BY <2>1, <2>7, HandedSound
  <2>8. CASE job' \in Continue(job)
    BY <2>1, <2>8, ContinueSound
  <2> QED BY <2>4, <2>5, <2>6, <2>7, <2>8
<1>2. CASE Refused
  <2>1. /\ job \in Job /\ job.pc = "raised" /\ ~job.cut /\ job.ceilings = 0
        /\ job' \in Continue(job)
    BY <1>2 DEF Refused, Sound, Placed, Dropped, Ceiled, Ceilings, Rejects,
                Cuts
  <2> QED BY <2>1, ContinueSound
<1>3. CASE Absorb
  <2>1. /\ job \in Job /\ job.pc = "raised" /\ ~job.cut
        /\ job' \in Handed(job)
    BY <1>3 DEF Absorb, Absorbed, Passing, Sound, Dropped, GiveUp
  <2> QED BY <2>1, HandedSound
<1>4. CASE Fail
  <2> DEFINE o == Outcome(job.error)
  <2>1. /\ job \in Job /\ job.pc = "raised" /\ job.error \in Errors
        /\ ~Absorbed(job) /\ job' = End(job, o)
    BY <1>4 DEF Fail, Sound, Placed
  <2>2. /\ o \in {"row", "dropped", "stopped", "case", "wall", "transport",
                  "model"}
        /\ job.error \in Cuts => o = "stopped"
        /\ job.error \in Passing => o \in {"stopped", "model"}
        /\ o = "transport" => job.error \in
             {"stalled", "denied", "exhausted", "wrong", "transport", "hold"}
    <3>1. CASE job.error \in Rejects \cup {"generation", "wall"}
      BY <3>1 DEF Outcome, Rejects, Cuts, Passing
    <3>2. CASE job.error \in Cuts \cup {"load"}
      BY <3>2 DEF Outcome, Cuts, Passing
    <3>3. CASE job.error \in {"stalled", "exhausted", "wrong", "transport",
                              "hold"}
      BY <3>3 DEF Outcome, Cuts, Passing
    <3> QED BY <2>1, <3>1, <3>2, <3>3
            DEF Errors, Terminal, Ceilings
  <2>3. job.cut => o \in {"stopped", "dropped"}
    BY <2>1, <2>2 DEF Sound, Dropped
  <2>4. o \in {"case", "wall", "transport"} => job.stage \notin Recovery
    BY <2>1, <2>2 DEF Absorbed
  <2> HIDE DEF o
  <2> QED BY <2>1, <2>2, <2>3, <2>4, EndSound
<1> QED BY <1>1, <1>2, <1>3, <1>4

-----------------------------------------------------------------------------
(* The inductive invariant.                                                *)

LEMMA InitIInv == Init => IInv
<1> SUFFICES ASSUME Init PROVE IInv
  OBVIOUS
<1>1. Sound(job)
  BY NewSound DEF Init
<1>2. TypeOK
  <2>1. job \in Job
    BY <1>1 DEF Sound
  <2>2. others \in 0..MaxOthers
    BY DEF Init
  <2> QED BY <2>1, <2>2, Zenon DEF Init, TypeOK
<1> QED BY <1>1, <1>2 DEF IInv

LEMMA NextIInv == IInv /\ [Next]_vars => IInv'
<1> SUFFICES ASSUME IInv, [Next]_vars PROVE IInv'
  OBVIOUS
<1>1. Sound(job) /\ TypeOK
  BY DEF IInv
<1>2. CASE Work
  <2>1. Sound(job')
    BY <1>1, <1>2, RequestSound, ReloadSound, CallSound DEF Work
  <2>2. /\ ABORT' = ABORT /\ closed' = closed /\ kind' = kind /\ mode' = mode
        /\ locked' = locked /\ others' = others
        /\ noThink' \in {noThink, FALSE}
    BY <1>2 DEF Work, Request, Ask, Send, Complete, Drop, Refuse, Break, Hold,
                Wake, Lose, Reload, Loaded, Take, Refused, Absorb, Fail, shared,
                given
  <2>3. Sound(job)'
    BY <2>1, <2>2 DEF Sound, Spent, Earned, Placed, Ceiled, Dropped, Free, Late
  <2>4. TypeOK'
    BY <1>1, <2>1, <2>2 DEF TypeOK, Sound
  <2> QED BY <2>3, <2>4 DEF IInv
<1>3. CASE Environment
  <2>1. job' = job /\ (ABORT' = ABORT \/ ABORT')
    BY <1>3 DEF Environment, OthersReload, OthersReloaded, OthersRefused, Stop,
                WindowCloses, given
  <2>2. Late(job)'
    BY <1>1, <2>1 DEF Sound, Late
  <2>3. Sound(job)'
    BY <1>1, <2>1, <2>2 DEF Sound, Spent, Earned, Placed, Ceiled, Dropped, Free
  <2>4. TypeOK'
    <3>1. job' \in Job /\ others' \in 0..MaxOthers
      BY <1>1, <1>3 DEF TypeOK, Environment, OthersReload, OthersReloaded,
                        OthersRefused, Stop, WindowCloses, given, shared
    <3> QED BY <3>1, <1>1, <1>3, Zenon
            DEF TypeOK, Environment, OthersReload, OthersReloaded,
                      OthersRefused, Stop, WindowCloses, given, shared
  <2> QED BY <2>3, <2>4 DEF IInv
<1>4. CASE UNCHANGED vars
  BY <1>4 DEF IInv, vars, shared, given, TypeOK, Sound, Spent, Earned, Placed,
              Ceiled, Dropped, Free, Late
<1> QED BY <1>2, <1>3, <1>4 DEF Next

LEMMA AlwaysIInv == Spec => []IInv
  BY InitIInv, NextIInv, PTL DEF Spec

(* The record and what it shares keep their types: no budget is overspent. *)
THEOREM TypeCorrect == Spec => []TypeOK
<1>1. IInv => TypeOK
  BY DEF IInv
<1> QED BY <1>1, AlwaysIInv, PTL

(* A row is a transport failure for all its retries, a whole hold, or an   *)
(* error that is never retried, whatever mixture of failures, holds,       *)
(* reloads and recovery requests came before.                              *)
THEOREM FailureEarnedHolds == Spec => []FailureEarned
<1>1. IInv => FailureEarned
  BY DEF IInv, Sound, Earned, Placed, FailureEarned
<1> QED BY <1>1, AlwaysIInv, PTL

(* A call meets one ceiling at most.                                       *)
THEOREM OneCeilingHolds == Spec => []OneCeiling
<1>1. IInv => OneCeiling
  BY DEF IInv, Sound, Ceiled, OneCeiling
<1> QED BY <1>1, AlwaysIInv, PTL

(* A row a stop cut short is never recorded.                               *)
THEOREM CutLeavesNoRowHolds == Spec => []CutLeavesNoRow
<1>1. IInv => CutLeavesNoRow
  BY DEF IInv, Sound, Dropped, Placed, CutLeavesNoRow
<1> QED BY <1>1, AlwaysIInv, PTL

(* One request at most is sent after a stop.                               *)
THEOREM StopIsHeededHolds == Spec => []StopIsHeeded
<1>1. IInv => StopIsHeeded
  BY DEF IInv, Sound, Late, StopIsHeeded
<1> QED BY <1>1, AlwaysIInv, PTL

(* A failed recovery request never makes the row an error.                 *)
THEOREM RecoveryIsFreeHolds == Spec => []RecoveryIsFree
<1>1. IInv => RecoveryIsFree
  BY DEF IInv, Sound, Free, RecoveryIsFree
<1> QED BY <1>1, AlwaysIInv, PTL

=============================================================================
