-------------------------- MODULE UsageQuotaProofs --------------------------
(***************************************************************************)
(* What requests reserve of the month's units, what they are refused and   *)
(* when the warning is asked for: for any number of requests, any costs    *)
(* and limit, any number of failures.                                      *)
(***************************************************************************)
EXTENDS UsageQuota, FiniteSetTheorems, TLAPS

-----------------------------------------------------------------------------
(* Sums.                                                                    *)
(* SumFunction is defined by recursion over the subsets of the domain.  What*)
(* it computes is shown from least counterexamples: among the subsets of a  *)
(* finite set for which a claim fails there is a smallest.                  *)
LEMMA SmallestSubset ==
  ASSUME NEW S, IsFiniteSet(S), NEW T \in SUBSET (SUBSET S), T # {}
  PROVE  \E x \in T : \A y \in T : y \subseteq x => y = x
<1>1. IsWellFoundedOn(StrictSubsetOrdering(S), SUBSET S)
  BY FS_StrictSubsetOrderingWellFounded, FS_FiniteSubsetsOfFinite
<1>2. PICK x \in T : \A y \in T : <<y, x>> \notin StrictSubsetOrdering(S)
  BY <1>1, WFMin
<1>3. ASSUME NEW y \in T, y \subseteq x, y # x PROVE FALSE
  <2>1. <<y, x>> \in (SUBSET S) \X (SUBSET S)
    OBVIOUS
  <2> QED
    BY <1>2, <1>3, <2>1 DEF StrictSubsetOrdering
<1> QED
  BY <1>3

(* A nonempty set of natural numbers has a smallest one.                    *)
LEMMA SmallestNumber ==
  ASSUME NEW T \in SUBSET Nat, T # {}
  PROVE  \E n \in T : \A m \in T : n <= m
<1>1. PICK k \in T : TRUE
  OBVIOUS
<1> DEFINE Below == {0 .. m : m \in {i \in T : i <= k}}
<1>2. IsFiniteSet(0 .. k)
  BY FS_Interval
<1>3. Below \in SUBSET (SUBSET (0 .. k)) /\ 0 .. k \in Below
  OBVIOUS
<1>4. PICK x \in Below : \A y \in Below : y \subseteq x => y = x
  <2> DEFINE I == 0 .. k
  <2>1. IsFiniteSet(I) /\ Below \in SUBSET (SUBSET I) /\ Below # {}
    BY <1>2, <1>3
  <2> HIDE DEF Below, I
  <2> QED
    BY <2>1, SmallestSubset
<1>5. PICK n \in T : n <= k /\ x = 0 .. n
  OBVIOUS
<1>6. ASSUME NEW m \in T, m < n PROVE FALSE
  <2>1. 0 .. m \in Below /\ 0 .. m \subseteq x
    BY <1>5, <1>6
  <2>2. n \in x /\ n \notin 0 .. m
    BY <1>5, <1>6
  <2> QED
    BY <1>4, <2>1, <2>2
<1> QED
  BY <1>6

One(s) == CHOOSE x \in s : TRUE
Step(f, g, s) == IF s = {} THEN 0 ELSE f[One(s)] + g[s \ {One(s)}]
Partial(f, S) == CHOOSE g : g = [s \in SUBSET S |-> Step(f, g, s)]

LEMMA SumIsPartial ==
  ASSUME NEW f
  PROVE  SumFunction(f) = Partial(f, DOMAIN f)[DOMAIN f]
  BY DEF SumFunction, SumFunctionOnSet, FoldFunctionOnSet, MapThenFoldSet, Partial, Step, One

(* The recursion has a solution: one for the subsets of up to n elements    *)
(* extends to those of n + 1.                                               *)
LEMMA SumsExist ==
  ASSUME NEW S, IsFiniteSet(S), NEW f
  PROVE  Partial(f, S) = [s \in SUBSET S |-> Step(f, Partial(f, S), s)]
<1> DEFINE Upto(n) == {s \in SUBSET S : Cardinality(s) <= n}
           Solves(g, n) == g = [s \in Upto(n) |-> Step(f, g, s)]
           Bad == {n \in Nat : ~ \E g : Solves(g, n)}
<1>a. \A s \in SUBSET S : IsFiniteSet(s) /\ Cardinality(s) \in Nat /\ Cardinality(s) <= Cardinality(S)
  BY FS_Subset, FS_CardinalityType
<1>b. \A s \in SUBSET S : s # {} =>
        /\ One(s) \in s /\ s \ {One(s)} \in SUBSET S
        /\ Cardinality(s \ {One(s)}) = Cardinality(s) - 1
  <2> SUFFICES ASSUME NEW s \in SUBSET S, s # {}
               PROVE  /\ One(s) \in s /\ s \ {One(s)} \in SUBSET S
                      /\ Cardinality(s \ {One(s)}) = Cardinality(s) - 1
    OBVIOUS
  <2>1. One(s) \in s
    BY DEF One
  <2> QED
    BY <1>a, <2>1, FS_RemoveElement
<1>1. Bad = {}
  <2> SUFFICES ASSUME Bad # {} PROVE FALSE
    OBVIOUS
  <2>1. PICK n \in Bad : \A m \in Bad : n <= m
    <3>1. Bad \in SUBSET Nat
      OBVIOUS
    <3> HIDE DEF Bad
    <3> QED
      BY <3>1, SmallestNumber
  <2>2. /\ n \in Nat /\ ~ \E g : Solves(g, n)
        /\ \A m \in Nat : m < n => \E g : Solves(g, m)
    <3>0. n \in Nat
      OBVIOUS
    <3>1. \A m \in Nat : m < n => m \notin Bad
      <4> HIDE DEF Bad
      <4> QED
        BY <2>1, <3>0
    <3> HIDE DEF Solves
    <3> QED
      BY <3>1
  <2>3. CASE n = 0
    <3> DEFINE g == [s \in Upto(0) |-> 0]
    <3>1. \A s \in Upto(0) : s = {}
      BY <1>a, FS_EmptySet
    <3>2. Solves(g, 0)
      BY <3>1 DEF Step
    <3> QED
      BY <2>2, <2>3, <3>2
  <2>4. CASE n # 0
    <3>1. n - 1 \in Nat /\ n - 1 < n
      BY <2>2, <2>4
    <3>2. PICK g : Solves(g, n - 1)
      <4> HIDE DEF Solves
      <4> QED
        BY <2>2, <3>1
    <3> DEFINE h == [s \in Upto(n) |-> IF Cardinality(s) <= n - 1 THEN g[s] ELSE Step(f, g, s)]
    <3>3. ASSUME NEW s \in Upto(n) PROVE h[s] = Step(f, h, s)
      <4>1. CASE s = {}
        <5>1. Cardinality(s) <= n - 1
          BY <3>1, <4>1, FS_EmptySet
        <5> QED
          BY <3>2, <4>1, <5>1 DEF Step
      <4>2. CASE s # {}
        <5>1. s \ {One(s)} \in Upto(n - 1) /\ s \ {One(s)} \in Upto(n)
          BY <1>a, <1>b, <2>2, <4>2
        <5>2. h[s \ {One(s)}] = g[s \ {One(s)}]
          BY <5>1
        <5>3. h[s] = Step(f, g, s)
          BY <3>2
        <5> QED
          BY <4>2, <5>2, <5>3 DEF Step
      <4> QED
        BY <4>1, <4>2
    <3>4. Solves(h, n)
      BY <3>3
    <3> QED
      BY <2>2, <3>4
  <2> QED
    BY <2>3, <2>4
<1>2. Cardinality(S) \in Nat
  BY <1>a
<1>3. \E g : Solves(g, Cardinality(S))
  BY <1>1, <1>2
<1>4. Upto(Cardinality(S)) = SUBSET S
  BY <1>a
<1>5. \E g : g = [s \in SUBSET S |-> Step(f, g, s)]
  BY <1>3, <1>4
<1> QED
  BY <1>5 DEF Partial

LEMMA SumStep ==
  ASSUME NEW S, IsFiniteSet(S), NEW f, NEW s \in SUBSET S
  PROVE  /\ s = {} => Partial(f, S)[s] = 0
         /\ s # {} => /\ One(s) \in s
                      /\ Partial(f, S)[s] = f[One(s)] + Partial(f, S)[s \ {One(s)}]
<1>0. Partial(f, S) = [u \in SUBSET S |-> Step(f, Partial(f, S), u)]
  BY SumsExist
<1>1. Partial(f, S)[s] = Step(f, Partial(f, S), s)
  BY <1>0
<1>2. s # {} => One(s) \in s
  BY DEF One
<1> QED
  BY <1>1, <1>2 DEF Step

(* A sum of natural numbers is one.                                         *)
LEMMA PartialInNat ==
  ASSUME NEW S, IsFiniteSet(S), NEW f \in [S -> Nat]
  PROVE  \A s \in SUBSET S : Partial(f, S)[s] \in Nat
<1> DEFINE P == Partial(f, S)
           Bad == {s \in SUBSET S : P[s] \notin Nat}
<1>a. \A s \in SUBSET S :
        /\ s = {} => P[s] = 0
        /\ s # {} => One(s) \in s /\ P[s] = f[One(s)] + P[s \ {One(s)}]
  BY SumStep
<1> HIDE DEF P
<1> SUFFICES ASSUME Bad # {} PROVE FALSE
  BY DEF P
<1>0. Bad \in SUBSET (SUBSET S)
  OBVIOUS
<1>1. PICK s \in Bad : \A y \in Bad : y \subseteq s => y = s
  <2> HIDE DEF Bad
  <2> QED
    BY <1>0, SmallestSubset
<1>2. s # {} /\ One(s) \in s /\ P[s] = f[One(s)] + P[s \ {One(s)}]
  <2>1. s \in SUBSET S /\ P[s] \notin Nat
    OBVIOUS
  <2>2. /\ s = {} => P[s] = 0
        /\ s # {} => One(s) \in s /\ P[s] = f[One(s)] + P[s \ {One(s)}]
    BY <1>a
  <2> QED
    BY <2>1, <2>2
<1>3. P[s \ {One(s)}] \in Nat
  BY <1>1, <1>2
<1> QED
  BY <1>2, <1>3

(* Any element can be added last.                                           *)
LEMMA PartialOf ==
  ASSUME NEW S, IsFiniteSet(S), NEW f \in [S -> Nat]
  PROVE  \A s \in SUBSET S : \A x \in s : Partial(f, S)[s] = f[x] + Partial(f, S)[s \ {x}]
<1> DEFINE P == Partial(f, S)
           Bad == {s \in SUBSET S : \E x \in s : P[s] # f[x] + P[s \ {x}]}
<1>a. \A s \in SUBSET S : P[s] \in Nat
  BY PartialInNat
<1>b. \A s \in SUBSET S : s # {} => One(s) \in s /\ P[s] = f[One(s)] + P[s \ {One(s)}]
  BY SumStep
<1> HIDE DEF P
<1> SUFFICES ASSUME Bad # {} PROVE FALSE
  BY DEF P
<1>0. Bad \in SUBSET (SUBSET S)
  OBVIOUS
<1>1. PICK s \in Bad : \A y \in Bad : y \subseteq s => y = s
  <2> HIDE DEF Bad
  <2> QED
    BY <1>0, SmallestSubset
<1>2. PICK x \in s : P[s] # f[x] + P[s \ {x}]
  OBVIOUS
<1> DEFINE c == One(s)
<1>3. c \in s /\ P[s] = f[c] + P[s \ {c}]
  BY <1>b
<1> HIDE DEF c
<1>4. c # x
  BY <1>2, <1>3
<1>5. P[s \ {c}] = f[x] + P[(s \ {c}) \ {x}]
  BY <1>1, <1>3, <1>4
<1>6. P[s \ {x}] = f[c] + P[(s \ {x}) \ {c}]
  BY <1>1, <1>3, <1>4
<1>7. (s \ {x}) \ {c} = (s \ {c}) \ {x}
  OBVIOUS
<1> DEFINE d == P[(s \ {c}) \ {x}]
<1>8. f[c] \in Nat /\ f[x] \in Nat /\ d \in Nat
  BY <1>a, <1>3
<1>9. P[s \ {c}] = f[x] + d /\ P[s \ {x}] = f[c] + d
  BY <1>5, <1>6, <1>7
<1> HIDE DEF d
<1>10. f[c] + (f[x] + d) = f[x] + (f[c] + d)
  BY <1>8
<1> QED
  BY <1>2, <1>3, <1>9, <1>10

(* A sum depends on the values summed only, and grows with them.            *)
LEMMA PartialGrows ==
  ASSUME NEW S, IsFiniteSet(S), NEW f \in [S -> Nat], NEW g \in [S -> Nat]
  PROVE  \A s \in SUBSET S : (\A x \in s : f[x] <= g[x]) => Partial(f, S)[s] <= Partial(g, S)[s]
<1> DEFINE P == Partial(f, S)
           Q == Partial(g, S)
           Bad == {s \in SUBSET S : (\A x \in s : f[x] <= g[x]) /\ ~(P[s] <= Q[s])}
<1>a. \A s \in SUBSET S : P[s] \in Nat /\ Q[s] \in Nat
  BY PartialInNat
<1>b. \A s \in SUBSET S :
        IF s = {} THEN P[s] = 0 /\ Q[s] = 0
        ELSE One(s) \in s /\ P[s] = f[One(s)] + P[s \ {One(s)}] /\ Q[s] = g[One(s)] + Q[s \ {One(s)}]
  <2>1. \A s \in SUBSET S :
          /\ s = {} => P[s] = 0
          /\ s # {} => One(s) \in s /\ P[s] = f[One(s)] + P[s \ {One(s)}]
    BY SumStep
  <2>2. \A s \in SUBSET S :
          /\ s = {} => Q[s] = 0
          /\ s # {} => One(s) \in s /\ Q[s] = g[One(s)] + Q[s \ {One(s)}]
    BY SumStep
  <2> HIDE DEF P, Q
  <2> QED
    BY <2>1, <2>2
<1> HIDE DEF P, Q
<1> SUFFICES ASSUME Bad # {} PROVE FALSE
  BY DEF P, Q
<1>0. Bad \in SUBSET (SUBSET S)
  OBVIOUS
<1>1. PICK s \in Bad : \A y \in Bad : y \subseteq s => y = s
  <2> HIDE DEF Bad
  <2> QED
    BY <1>0, SmallestSubset
<1> DEFINE c == One(s)
<1>2. c \in s /\ P[s] = f[c] + P[s \ {c}] /\ Q[s] = g[c] + Q[s \ {c}]
  BY <1>b
<1> HIDE DEF c
<1>3. P[s \ {c}] <= Q[s \ {c}]
  BY <1>1, <1>2
<1>4. f[c] \in Nat /\ g[c] \in Nat /\ f[c] <= g[c] /\ P[s \ {c}] \in Nat /\ Q[s \ {c}] \in Nat
  BY <1>a, <1>2
<1> QED
  BY <1>2, <1>3, <1>4

(* The three facts of sums that the rest needs.                             *)
LEMMA SumInNat ==
  ASSUME NEW S, IsFiniteSet(S), NEW f \in [S -> Nat]
  PROVE  SumFunction(f) \in Nat
  BY SumIsPartial, PartialInNat

LEMMA SumGrows ==
  ASSUME NEW S, IsFiniteSet(S), NEW f \in [S -> Nat], NEW g \in [S -> Nat],
         \A x \in S : f[x] <= g[x]
  PROVE  SumFunction(f) <= SumFunction(g)
  BY SumIsPartial, PartialGrows

LEMMA SumChanges ==
  ASSUME NEW S, IsFiniteSet(S), NEW f \in [S -> Nat], NEW g \in [S -> Nat], NEW r \in S,
         \A x \in S : x # r => f[x] = g[x]
  PROVE  SumFunction(g) = SumFunction(f) - f[r] + g[r]
<1> DEFINE P == Partial(f, S)
           Q == Partial(g, S)
           s == S \ {r}
<1>1. SumFunction(f) = f[r] + P[s] /\ SumFunction(g) = g[r] + Q[s]
  BY SumIsPartial, PartialOf
<1>2. P[s] <= Q[s] /\ Q[s] <= P[s]
  BY PartialGrows
<1>3. P[s] \in Nat /\ Q[s] \in Nat
  BY PartialInNat
<1> QED
  BY <1>1, <1>2, <1>3

LEMMA SumOfZeros ==
  ASSUME NEW S, IsFiniteSet(S), NEW f \in [S -> Nat], \A x \in S : f[x] = 0
  PROVE  SumFunction(f) = 0
<1> DEFINE P == Partial(f, S)
           Bad == {s \in SUBSET S : P[s] # 0}
<1>b. \A s \in SUBSET S :
        IF s = {} THEN P[s] = 0 ELSE One(s) \in s /\ P[s] = f[One(s)] + P[s \ {One(s)}]
  BY SumStep
<1> HIDE DEF P
<1>1. ASSUME Bad # {} PROVE FALSE
  <2>0. Bad \in SUBSET (SUBSET S)
    OBVIOUS
  <2>1. PICK s \in Bad : \A y \in Bad : y \subseteq s => y = s
    <3> HIDE DEF Bad
    <3> QED
      BY <1>1, <2>0, SmallestSubset
  <2> DEFINE c == One(s)
  <2>2. s # {} /\ P[s] # 0 /\ c \in s /\ P[s] = f[c] + P[s \ {c}]
    BY <1>b
  <2> HIDE DEF c
  <2>3. P[s \ {c}] = 0
    BY <2>1, <2>2
  <2>4. f[c] = 0
    BY <2>2
  <2> QED
    BY <2>2, <2>3, <2>4
<1>2. P[S] = 0
  BY <1>1
<1> QED
  BY <1>2, SumIsPartial DEF P

-----------------------------------------------------------------------------
(* Types.                                                                   *)
UsageTypes == UsageTypeOK /\ charge \in [Requests -> Nat]

(* What may happen to the account's month besides: the notices (see         *)
(* QuotaNotices) and the operator settle the warning, never its absence.    *)
UsageAside ==
  /\ UNCHANGED <<requestVars, counter, logVars>>
  /\ slips \subseteq slips' /\ faults' \in 0..MaxFaults
  /\ warning # "NONE" => warning' # "NONE"

UsageMove == UsageNext \/ UsageAside

(* Nothing goes wrong unnoticed.                                            *)
LEMMA SlipsRemain ==
  ASSUME UsageMove PROVE slips \subseteq slips'
<1>1. ASSUME NEW r \in Requests, RequestStep(r) PROVE slips \subseteq slips'
  BY <1>1 DEF RequestStep, ReadUsage, Reserve, Release, Warn, Serve, NoSlip
<1>2. ASSUME NEW r \in Requests, RequestFails(r) PROVE slips \subseteq slips'
  BY <1>2 DEF RequestFails, ReserveThrows, ReleaseThrows, WarnThrows, RequestCrash, Slip
<1>3. ASSUME LogStep PROVE slips \subseteq slips'
  BY <1>3 DEF LogStep, TakeEntry, TimerFires, Insert, InsertThrows, InsertAnswerLost, WorkerCrash,
              Slip, NoSlip
<1> QED
  BY <1>1, <1>2, <1>3 DEF UsageMove, UsageAside, UsageNext, RedisForgets, Slip

LEMMA DurableInNat ==
  ASSUME UsageTypes
  PROVE  Durable \in Nat
<1> DEFINE f == [r \in Requests |-> IF success[r] THEN stored[r] * charge[r] ELSE 0]
<1>1. \A r \in Requests : stored[r] \in Nat /\ charge[r] \in Nat
  BY DEF UsageTypes, UsageTypeOK
<1>2. \A a, b \in Nat : a * b \in Nat
  OBVIOUS
<1>3. f \in [Requests -> Nat]
  BY <1>1, <1>2
<1> HIDE DEF f
<1>4. SumFunction(f) \in Nat
  BY <1>3, SumInNat, UsageAssumption
<1> QED
  BY <1>4 DEF Durable, f

LEMMA UsageTypesInit == UsageInit => UsageTypes
<1> SUFFICES ASSUME UsageInit PROVE UsageTypes
  OBVIOUS
<1>1. \A r \in Requests : Cost[r] \in Nat
  BY UsageAssumption
<1>2. /\ pc \in [Requests -> Pc] /\ base \in [Requests -> Nat] /\ used \in [Requests -> Nat]
      /\ reserved \in [Requests -> BOOLEAN] /\ success \in [Requests -> BOOLEAN]
      /\ charge \in [Requests -> Nat] /\ stored \in [Requests -> Nat]
  BY DEF UsageInit, Pc
<1>3. \A r \in Requests : charge[r] \in 0..Cost[r]
  BY <1>1 DEF UsageInit
<1>4. counter \in Nat /\ faults \in 0..MaxFaults
  <2>1. counter = 0 /\ faults = 0 /\ MaxFaults \in Nat
    BY UsageAssumption DEF UsageInit
  <2> QED
    BY <2>1
<1>5. /\ queue \subseteq Requests /\ active \in Requests \cup {NoRequest}
      /\ batch \subseteq Requests /\ flushes \subseteq SUBSET Requests /\ flushTimer \in BOOLEAN
  BY DEF UsageInit
<1> QED
  BY <1>2, <1>3, <1>4, <1>5 DEF UsageTypes, UsageTypeOK

LEMMA UsageTypesStep ==
  ASSUME UsageTypes, UsageMove
  PROVE  UsageTypes'
<1> USE UsageAssumption DEF UsageTypes, UsageTypeOK
<1>a. /\ \A r \in Requests : Cost[r] \in Nat /\ Cost[r] > 0
      /\ \A r \in Requests : charge[r] \in 0..Cost[r] /\ base[r] \in Nat /\ counter \in Nat
  OBVIOUS
<1>c. \A r \in Requests : Leave(r) => used' \in [Requests -> Nat] /\ reserved' \in [Requests -> BOOLEAN]
  BY DEF Leave
<1>b. \A kind : Slip(kind) => faults' \in 0..MaxFaults
  BY DEF Slip
<1>1. ASSUME NEW r \in Requests, ReadUsage(r) PROVE UsageTypes'
  <2>1. Durable \in Nat
    BY DurableInNat
  <2> QED
    BY <1>1, <2>1 DEF ReadUsage, Goto, Pc, NoSlip, logVars
<1>2. ASSUME NEW r \in Requests, Reserve(r) PROVE UsageTypes'
  <2>1. Current(r) \in Nat /\ Current(r) + Cost[r] \in Nat /\ Fits(r, Current(r)) \in BOOLEAN
    BY <1>a DEF Current, Fits
  <2> QED
    BY <1>2, <2>1 DEF Reserve, Goto, Pc, NoSlip, logVars
<1>3. ASSUME NEW r \in Requests, NEW ran \in BOOLEAN, ReserveThrows(r, ran) PROVE UsageTypes'
  <2>1. /\ Current(r) \in Nat /\ Current(r) + Cost[r] \in Nat
        /\ Durable \in Nat
    BY <1>a, DurableInNat DEF Current
  <2> QED
    BY <1>3, <1>b, <2>1 DEF ReserveThrows, Goto, Pc, logVars
<1>4. ASSUME NEW r \in Requests, NEW ok \in BOOLEAN, NEW units \in 0..Cost[r], Serve(r, ok, units)
      PROVE  UsageTypes'
  BY <1>4 DEF Serve, Goto, Pc, NoSlip
<1>5. ASSUME NEW r \in Requests, Release(r) \/ ReleaseThrows(r) PROVE UsageTypes'
  <2>1. Unused(r) \in Nat /\ Lowered(Unused(r)) \in Nat
    BY <1>a DEF Unused, Lowered
  <2>2. counter' \in Nat
    BY <1>a, <1>5, <2>1 DEF Release, ReleaseThrows
  <2>6. used' \in [Requests -> Nat] /\ reserved' \in [Requests -> BOOLEAN]
    BY <1>c, <1>5 DEF Release, ReleaseThrows, AfterRelease
  <2>5. pc' \in [Requests -> Pc]
    <3>1. \E to \in {"warn", "done"} : Goto(r, to)
      BY <1>5 DEF Release, ReleaseThrows, AfterRelease
    <3> QED
      BY <3>1 DEF Goto, Pc
  <2>3. faults' \in 0..MaxFaults
    BY <1>5, <1>b DEF Release, ReleaseThrows, NoSlip
  <2>4. UNCHANGED <<base, success, charge, logVars>>
    BY <1>5 DEF Release, ReleaseThrows
  <2> QED
    BY <2>2, <2>3, <2>4, <2>5, <2>6 DEF logVars
<1>6. ASSUME NEW r \in Requests, Warn(r) \/ WarnThrows(r) \/ RequestCrash(r) PROVE UsageTypes'
  <2>1. pc' \in [Requests -> Pc]
    BY <1>6 DEF Warn, WarnThrows, RequestCrash, Goto, Pc
  <2>4. used' \in [Requests -> Nat] /\ reserved' \in [Requests -> BOOLEAN]
    <3>1. CASE Warn(r) \/ WarnThrows(r)
      BY <3>1 DEF Warn, WarnThrows
    <3> QED
      BY <1>c, <1>6, <3>1 DEF RequestCrash
  <2>2. faults' \in 0..MaxFaults
    BY <1>6, <1>b DEF Warn, WarnThrows, RequestCrash, NoSlip
  <2>3. UNCHANGED <<base, success, charge, counter, logVars>>
    BY <1>6 DEF Warn, WarnThrows, RequestCrash
  <2> QED
    BY <2>1, <2>2, <2>3, <2>4 DEF logVars
<1>7. ASSUME RedisForgets PROVE UsageTypes'
  BY <1>7, <1>b DEF RedisForgets, requestVars, logVars
(* The log: where the entries are, and how often they were stored. *)
<1>8. ASSUME UNCHANGED <<requestVars, counter>>, faults' \in 0..MaxFaults,
             stored' \in [Requests -> Nat], flushTimer' \in BOOLEAN,
             queue' \subseteq Requests, active' \in Requests \cup {NoRequest},
             batch' \subseteq Requests, flushes' \subseteq SUBSET Requests
      PROVE  UsageTypes'
  BY <1>8 DEF requestVars
<1>9. ASSUME NEW r \in Requests, TakeEntry(r) PROVE UsageTypes'
  <2>1. CASE Cardinality(batch) + 1 >= BATCH_SIZE
    <3>1. /\ flushes' = flushes \cup {batch \cup {r}} /\ batch' = {} /\ active' = r
          /\ UNCHANGED <<flushTimer, stored>> /\ queue' = queue \ {r}
      BY <1>9, <2>1 DEF TakeEntry
    <3> QED
      BY <1>8, <1>9, <3>1 DEF TakeEntry, NoSlip, logOnly
  <2>2. CASE ~(Cardinality(batch) + 1 >= BATCH_SIZE)
    <3>1. /\ batch' = batch \cup {r} /\ flushTimer'
          /\ UNCHANGED <<flushes, active, stored>> /\ queue' = queue \ {r} /\ flushTimer' \in BOOLEAN
      BY <1>9, <2>2 DEF TakeEntry
    <3> QED
      BY <1>8, <1>9, <3>1 DEF TakeEntry, NoSlip, logOnly
  <2> QED
    BY <2>1, <2>2
<1>10. ASSUME TimerFires PROVE UsageTypes'
  <2>1. flushes' \in {flushes, flushes \cup {batch}} /\ batch' = {} /\ flushTimer' = FALSE
    BY <1>10 DEF TimerFires
  <2>2. UNCHANGED <<requestVars, counter, faults, queue, active, stored>>
    BY <1>10 DEF TimerFires, NoSlip, logOnly
  <2> QED
    BY <1>8, <2>1, <2>2
<1>11. \A S : Inserted(S) => stored' \in [Requests -> Nat]
  BY DEF Inserted
<1>12. ASSUME NEW F \in flushes, Insert(F) \/ InsertThrows(F) \/ InsertAnswerLost(F)
       PROVE  UsageTypes'
  <2>1. FlushEnds(F) /\ stored' \in [Requests -> Nat] /\ batch' \subseteq Requests
          /\ faults' \in 0..MaxFaults
    BY <1>b, <1>11, <1>12 DEF Insert, InsertThrows, InsertAnswerLost, NoSlip
  <2> QED
    BY <1>8, <2>1 DEF FlushEnds, logOnly
<1>13. ASSUME NEW done \in SUBSET flushes, WorkerCrash(done) PROVE UsageTypes'
  <2>1. stored' \in [Requests -> Nat] /\ faults' \in 0..MaxFaults
    BY <1>b, <1>11, <1>13 DEF WorkerCrash
  <2> QED
    BY <1>8, <1>13, <2>1 DEF WorkerCrash, logOnly
<1>14. CASE UsageAside
  BY <1>14 DEF UsageAside, requestVars, logVars
<1> QED
  BY <1>1, <1>2, <1>3, <1>4, <1>5, <1>6, <1>7, <1>9, <1>10, <1>12, <1>13, <1>14
  DEF UsageMove, UsageNext, RequestStep, RequestFails, LogStep

-----------------------------------------------------------------------------
(* The units held and used.                                                 *)
HeldUnits == [r \in Requests |-> Holds(r)]
UsedUnits == [r \in Requests |-> Uses(r)]
TotalHeld == SumFunction(HeldUnits)
TotalUsed == SumFunction(UsedUnits)

LEMMA UnitsInNat ==
  ASSUME UsageTypes
  PROVE  /\ HeldUnits \in [Requests -> Nat] /\ UsedUnits \in [Requests -> Nat]
         /\ TotalHeld \in Nat /\ TotalUsed \in Nat
<1>1. \A r \in Requests : Cost[r] \in Nat /\ charge[r] \in Nat
  BY UsageAssumption DEF UsageTypes
<1>2. HeldUnits \in [Requests -> Nat] /\ UsedUnits \in [Requests -> Nat]
  BY <1>1 DEF HeldUnits, UsedUnits, Holds, Uses
<1>3. TotalHeld \in Nat /\ TotalUsed \in Nat
  BY <1>2, SumInNat, UsageAssumption DEF TotalHeld, TotalUsed
<1> QED
  BY <1>2, <1>3

(* One request at a time changes what is held and used.                     *)
LEMMA UnitsChange ==
  ASSUME UsageTypes, UsageTypes', NEW r \in Requests,
         \A q \in Requests : q # r => pc'[q] = pc[q] /\ charge'[q] = charge[q]
  PROVE  /\ TotalHeld' = TotalHeld - HeldUnits[r] + HeldUnits'[r]
         /\ TotalUsed' = TotalUsed - UsedUnits[r] + UsedUnits'[r]
<1> DEFINE h == HeldUnits'
           u == UsedUnits'
<1>1. h \in [Requests -> Nat] /\ u \in [Requests -> Nat]
  <2>1. \A q \in Requests : Cost[q] \in Nat /\ charge'[q] \in Nat
    BY UsageAssumption DEF UsageTypes
  <2> QED
    BY <2>1 DEF HeldUnits, UsedUnits, Holds, Uses
<1>2. HeldUnits \in [Requests -> Nat] /\ UsedUnits \in [Requests -> Nat]
  BY UnitsInNat
<1>3. \A q \in Requests : q # r => HeldUnits[q] = h[q] /\ UsedUnits[q] = u[q]
  BY DEF HeldUnits, UsedUnits, Holds, Uses
<1>4. TotalHeld' = SumFunction(h) /\ TotalUsed' = SumFunction(u)
  BY DEF TotalHeld, TotalUsed
<1> HIDE DEF h, u
<1>5. SumFunction(h) = SumFunction(HeldUnits) - HeldUnits[r] + h[r]
  BY <1>1, <1>2, <1>3, SumChanges, UsageAssumption
<1>6. SumFunction(u) = SumFunction(UsedUnits) - UsedUnits[r] + u[r]
  BY <1>1, <1>2, <1>3, SumChanges, UsageAssumption
<1> QED
  BY <1>4, <1>5, <1>6 DEF TotalHeld, TotalUsed, h, u

LEMMA UnitsStay ==
  ASSUME UNCHANGED <<pc, charge>>
  PROVE  TotalHeld' = TotalHeld /\ TotalUsed' = TotalUsed
  BY DEF TotalHeld, TotalUsed, HeldUnits, UsedUnits, Holds, Uses

(* The steps that leave the requests alone.                                 *)
LEMMA RequestsApart ==
  ASSUME UsageMove
  PROVE  \/ /\ UNCHANGED requestVars
            /\ counter' = counter \/ "redis" \in slips'
            /\ warning # "NONE" => warning' # "NONE"
         \/ \E r \in Requests : RequestStep(r) \/ RequestFails(r)
<1>1. CASE LogStep
  BY <1>1 DEF LogStep, TakeEntry, TimerFires, Insert, InsertThrows, InsertAnswerLost, FlushEnds,
              WorkerCrash, logOnly
<1>2. CASE RedisForgets
  BY <1>2 DEF RedisForgets, Slip
<1>3. CASE UsageAside
  BY <1>3 DEF UsageAside
<1> QED
  BY <1>1, <1>2, <1>3 DEF UsageMove, UsageNext

-----------------------------------------------------------------------------
(* Within the limit.                                                        *)
(* A request has used nothing before it is served.                          *)
Unserved ==
  \A r \in Requests : pc[r] \in {"new", "reserve", "serve"} => charge[r] = 0 /\ ~success[r]

(* Unless Redis failed, the counter holds what every request holds, and     *)
(* every request that is served has its reservation.                        *)
CounterHolds ==
  "redis" \notin slips =>
    /\ \A r \in Requests : pc[r] \in {"serve", "release"} => reserved[r]
    /\ TotalHeld <= counter
    /\ TotalUsed <= Limit

LimitInv == UsageTypes /\ Unserved /\ CounterHolds

LEMMA LimitInit == UsageInit => LimitInv
<1> SUFFICES ASSUME UsageInit PROVE LimitInv
  OBVIOUS
<1>1. UsageTypes
  BY UsageTypesInit
<1>2. \A r \in Requests : HeldUnits[r] = 0 /\ UsedUnits[r] = 0
  BY DEF UsageInit, HeldUnits, UsedUnits, Holds, Uses
<1>3. TotalHeld = 0 /\ TotalUsed = 0
  BY <1>1, <1>2, UnitsInNat, SumOfZeros, UsageAssumption DEF TotalHeld, TotalUsed
<1> QED
  BY <1>1, <1>3, UsageAssumption DEF LimitInv, Unserved, CounterHolds, UsageInit

LEMMA UnservedStep ==
  ASSUME UsageTypes, Unserved, UsageMove
  PROVE  Unserved'
<1> USE DEF UsageTypes, UsageTypeOK, Unserved
<1>1. CASE UNCHANGED requestVars
  BY <1>1 DEF requestVars
<1>2. ASSUME NEW r \in Requests, RequestFails(r) \/ ReadUsage(r) \/ Reserve(r) \/ Release(r) \/ Warn(r)
      PROVE  Unserved'
  <2>1. UNCHANGED <<charge, success>>
    BY <1>2 DEF RequestFails, ReserveThrows, ReleaseThrows, WarnThrows, RequestCrash, ReadUsage,
                Reserve, Release, Warn
  <2>2. /\ \A q \in Requests : q # r => pc'[q] = pc[q]
        /\ pc'[r] \in {"new", "reserve", "serve"} => pc[r] \in {"new", "reserve", "serve"}
    BY <1>2 DEF RequestFails, ReserveThrows, ReleaseThrows, WarnThrows, RequestCrash, ReadUsage,
                Reserve, Release, Warn, AfterRelease, Goto
  <2> QED
    BY <2>1, <2>2
<1>3. ASSUME NEW r \in Requests, NEW ok \in BOOLEAN, NEW units \in 0..Cost[r], Serve(r, ok, units)
      PROVE  Unserved'
  BY <1>3 DEF Serve, Goto
<1> QED
  BY <1>1, <1>2, <1>3, RequestsApart DEF RequestStep

LEMMA CounterStep ==
  ASSUME LimitInv, UsageTypes', UsageMove
  PROVE  CounterHolds'
<1> SUFFICES ASSUME "redis" \notin slips'
             PROVE  /\ \A r \in Requests : pc'[r] \in {"serve", "release"} => reserved'[r]
                    /\ TotalHeld' <= counter' /\ TotalUsed' <= Limit
  BY DEF CounterHolds
<1>a. "redis" \notin slips
  BY SlipsRemain
<1>b. /\ \A r \in Requests : pc[r] \in {"serve", "release"} => reserved[r]
      /\ TotalHeld <= counter /\ TotalUsed <= Limit
  BY <1>a DEF LimitInv, CounterHolds
<1>c. /\ UsageTypes /\ Unserved /\ pc \in [Requests -> Pc] /\ reserved \in [Requests -> BOOLEAN]
      /\ TotalHeld \in Nat /\ TotalUsed \in Nat /\ Limit \in Nat
      /\ \A r \in Requests : /\ HeldUnits[r] \in Nat /\ UsedUnits[r] \in Nat
                             /\ Cost[r] \in Nat /\ charge[r] \in 0..Cost[r] /\ charge[r] \in Nat
                             /\ base[r] \in Nat
      /\ counter \in Nat /\ charge \in [Requests -> Nat]
  BY UnitsInNat, UsageAssumption DEF LimitInv, UsageTypes, UsageTypeOK
<1>d. \A r \in Requests : HeldUnits[r] = Holds(r) /\ UsedUnits[r] = Uses(r)
  BY DEF HeldUnits, UsedUnits
<1>e. \A r \in Requests :
        /\ HeldUnits'[r] = IF pc'[r] \in {"serve", "release"} THEN Cost[r] ELSE charge'[r]
        /\ UsedUnits'[r] = IF pc'[r] = "serve" THEN Cost[r] ELSE charge'[r]
  BY DEF HeldUnits, UsedUnits, Holds, Uses
<1>f. /\ \A r \in Requests : HeldUnits'[r] \in Nat /\ UsedUnits'[r] \in Nat
      /\ counter' \in Nat
  <2>1. \A r \in Requests : Cost[r] \in Nat /\ charge'[r] \in Nat
    BY UsageAssumption DEF UsageTypes
  <2> QED
    BY <1>e, <2>1 DEF UsageTypes, UsageTypeOK
<1>1. CASE UNCHANGED requestVars /\ counter' = counter
  BY <1>1, <1>b, UnitsStay DEF requestVars
<1>2. ASSUME NEW r \in Requests, Reserve(r)
      PROVE  /\ \A q \in Requests : pc'[q] \in {"serve", "release"} => reserved'[q]
             /\ TotalHeld' <= counter' /\ TotalUsed' <= Limit
  <2>1. /\ TotalHeld' = TotalHeld - HeldUnits[r] + HeldUnits'[r]
        /\ TotalUsed' = TotalUsed - UsedUnits[r] + UsedUnits'[r]
    BY <1>2, <1>c, UnitsChange DEF Reserve, Goto
  <2>2. charge[r] = 0 /\ HeldUnits[r] = 0 /\ UsedUnits[r] = 0 /\ charge' = charge
    BY <1>2, <1>c, <1>d DEF Reserve, Unserved, Holds, Uses
  <2>3. Current(r) \in Nat /\ counter <= Current(r)
    BY <1>c DEF Current
  <2>4. TotalUsed <= TotalHeld
    <3>1. \A q \in Requests : UsedUnits[q] <= HeldUnits[q]
      BY <1>c, <1>d DEF Holds, Uses
    <3> QED
      BY <1>c, <3>1, UnitsInNat, SumGrows, UsageAssumption DEF TotalUsed, TotalHeld
  <2>5. CASE Fits(r, Current(r))
    <3>1. counter' = Current(r) + Cost[r] /\ pc'[r] = "serve" /\ Current(r) + Cost[r] <= Limit
      BY <1>2, <1>c, <2>5 DEF Reserve, Goto, Fits
    <3>2. \A q \in Requests : pc'[q] \in {"serve", "release"} => reserved'[q]
      BY <1>2, <1>b, <1>c, <2>5 DEF Reserve, Goto
    <3>3. HeldUnits'[r] = Cost[r] /\ UsedUnits'[r] = Cost[r]
      BY <1>e, <3>1
    <3> QED
      BY <1>b, <1>c, <2>1, <2>2, <2>3, <2>4, <3>1, <3>2, <3>3
  <2>6. CASE ~Fits(r, Current(r))
    <3>1. counter' = Current(r) /\ pc'[r] = "done"
      BY <1>2, <1>c, <2>6 DEF Reserve, Goto
    <3>2. \A q \in Requests : pc'[q] \in {"serve", "release"} => reserved'[q]
      BY <1>2, <1>b, <1>c, <2>6 DEF Reserve, Goto
    <3>3. HeldUnits'[r] = 0 /\ UsedUnits'[r] = 0
      BY <1>e, <2>2, <3>1
    <3> QED
      BY <1>b, <1>c, <2>1, <2>2, <2>3, <3>1, <3>2, <3>3
  <2> QED
    BY <2>5, <2>6
(* Any other step of a request only gives units back. *)
<1>3. ASSUME NEW r \in Requests,
             \A q \in Requests : q # r => /\ pc'[q] = pc[q] /\ charge'[q] = charge[q]
                                          /\ reserved'[q] = reserved[q],
             pc'[r] \in {"serve", "release"} => reserved'[r],
             HeldUnits'[r] <= HeldUnits[r], UsedUnits'[r] <= UsedUnits[r],
             counter - counter' <= HeldUnits[r] - HeldUnits'[r]
      PROVE  /\ \A q \in Requests : pc'[q] \in {"serve", "release"} => reserved'[q]
             /\ TotalHeld' <= counter' /\ TotalUsed' <= Limit
  <2>1. /\ TotalHeld' = TotalHeld - HeldUnits[r] + HeldUnits'[r]
        /\ TotalUsed' = TotalUsed - UsedUnits[r] + UsedUnits'[r]
    BY <1>3, <1>c, UnitsChange
  <2>2. HeldUnits'[r] \in Nat /\ UsedUnits'[r] \in Nat /\ counter' \in Nat
    BY <1>f
  <2>3. \A q \in Requests : pc'[q] \in {"serve", "release"} => reserved'[q]
    BY <1>3, <1>b
  <2> QED
    BY <1>3, <1>b, <1>c, <2>1, <2>2, <2>3
<1>4. ASSUME NEW r \in Requests, NEW ok \in BOOLEAN, NEW units \in 0..Cost[r], Serve(r, ok, units)
      PROVE  /\ \A q \in Requests : pc'[q] \in {"serve", "release"} => reserved'[q]
             /\ TotalHeld' <= counter' /\ TotalUsed' <= Limit
  <2>1. /\ pc[r] = "serve" /\ pc'[r] = "release" /\ charge'[r] = units /\ counter' = counter
        /\ reserved' = reserved
        /\ \A q \in Requests : q # r => pc'[q] = pc[q] /\ charge'[q] = charge[q]
    BY <1>4, <1>c DEF Serve, Goto
  <2>2. HeldUnits'[r] = HeldUnits[r] /\ UsedUnits'[r] <= UsedUnits[r] /\ reserved[r]
    BY <1>b, <1>c, <1>d, <1>e, <2>1 DEF Holds, Uses
  <2> QED
    BY <1>3, <1>c, <2>1, <2>2
<1>5. ASSUME NEW r \in Requests, Release(r) \/ ReleaseThrows(r)
      PROVE  /\ \A q \in Requests : pc'[q] \in {"serve", "release"} => reserved'[q]
             /\ TotalHeld' <= counter' /\ TotalUsed' <= Limit
  <2>1. /\ pc[r] = "release" /\ pc'[r] \in {"warn", "done"} /\ charge' = charge
        /\ \A q \in Requests : q # r => pc'[q] = pc[q] /\ reserved'[q] = reserved[q]
        /\ counter' \in {counter, Lowered(Unused(r))}
    BY <1>5, <1>c DEF Release, ReleaseThrows, AfterRelease, Goto, Leave
  <2>2. /\ HeldUnits[r] = Cost[r] /\ HeldUnits'[r] = charge[r]
        /\ UsedUnits[r] = charge[r] /\ UsedUnits'[r] = charge[r]
    BY <1>c, <1>d, <1>e, <2>1 DEF Holds, Uses
  <2>3. counter - counter' <= Cost[r] - charge[r]
    BY <1>c, <1>b, <2>1 DEF Lowered, Unused
  <2> QED
    BY <1>3, <1>c, <2>1, <2>2, <2>3
<1>6. ASSUME NEW r \in Requests, ReadUsage(r) \/ Warn(r) \/ WarnThrows(r) \/ RequestCrash(r)
      PROVE  /\ \A q \in Requests : pc'[q] \in {"serve", "release"} => reserved'[q]
             /\ TotalHeld' <= counter' /\ TotalUsed' <= Limit
  <2>1. /\ pc'[r] \in {"reserve", "done"} /\ charge' = charge /\ counter' = counter
        /\ \A q \in Requests : q # r => pc'[q] = pc[q] /\ reserved'[q] = reserved[q]
    BY <1>6, <1>c DEF ReadUsage, Warn, WarnThrows, RequestCrash, Goto, Leave
  <2>2. HeldUnits'[r] <= HeldUnits[r] /\ UsedUnits'[r] <= UsedUnits[r]
    BY <1>c, <1>d, <1>e, <2>1 DEF Holds, Uses
  <2>3. HeldUnits'[r] \in Nat
    BY <1>f
  <2> QED
    BY <1>3, <1>c, <2>1, <2>2, <2>3
<1>7. ASSUME NEW r \in Requests, NEW ran \in BOOLEAN, ReserveThrows(r, ran) PROVE FALSE
  BY <1>7 DEF ReserveThrows, Slip
<1> QED
  BY <1>1, <1>2, <1>4, <1>5, <1>6, <1>7, RequestsApart DEF RequestStep, RequestFails

LEMMA LimitStep ==
  ASSUME LimitInv, UsageMove
  PROVE  LimitInv'
<1>1. UsageTypes'
  BY UsageTypesStep DEF LimitInv
<1> QED
  BY <1>1, UnservedStep, CounterStep DEF LimitInv

LEMMA LimitHolds == LimitInv => WithinQuota
  BY DEF LimitInv, CounterHolds, WithinQuota, TotalUsed, UsedUnits

-----------------------------------------------------------------------------
(* The warning.                                                             *)
(* The requests whose reservation counts.                                   *)
Placed ==
  {r \in Requests : \/ pc[r] \in {"serve", "release", "warn"}
                    \/ pc[r] = "done" /\ charge[r] > 0}

(* What the requests that reserved before r hold.                           *)
Ahead(rank, r) == [q \in Requests |-> IF q \in Placed /\ rank[q] < rank[r] THEN Holds(q) ELSE 0]

(* The requests have reserved in an order; each found at least what those   *)
(* before it hold, and asked for the warning if that and its own is enough. *)
OrderedAs(rank, found, next) ==
  /\ rank \in [Requests -> Nat] /\ found \in [Requests -> Nat] /\ next \in Nat
  /\ \A r \in Placed : rank[r] < next
  /\ \A q, r \in Placed : rank[q] = rank[r] => q = r
  /\ \A r \in Placed : SumFunction(Ahead(rank, r)) <= found[r]
  /\ \A r \in Placed : pc[r] \in {"serve", "release"} => found[r] = used[r]
  /\ \A r \in Placed :
       pc[r] = "done" /\ success[r] => warning # "NONE" \/ Percent(found[r] + charge[r]) < 80

Ordered ==
  slips \cap {"redis", "crash", "warning"} = {} =>
    \E rank, found : \E next : OrderedAs(rank, found, next)

WarningInv == LimitInv /\ Ordered

(* The sums of an order are sums of natural numbers.                        *)
LEMMA AheadInNat ==
  ASSUME UsageTypes, NEW rank, NEW r
  PROVE  Ahead(rank, r) \in [Requests -> Nat] /\ SumFunction(Ahead(rank, r)) \in Nat
<1>1. \A q \in Requests : Cost[q] \in Nat /\ charge[q] \in Nat
  BY UsageAssumption DEF UsageTypes
<1>2. Ahead(rank, r) \in [Requests -> Nat]
  BY <1>1 DEF Ahead, Holds
<1> QED
  BY <1>2, SumInNat, UsageAssumption

(* The order is kept by steps that give units back.                         *)
LEMMA OrderKept ==
  ASSUME UsageTypes, UsageTypes', NEW rank, NEW found, NEW next, OrderedAs(rank, found, next),
         Placed' \subseteq Placed,
         \A q \in Placed' : HeldUnits'[q] <= HeldUnits[q],
         \A q \in Placed' :
           pc'[q] \in {"serve", "release"} => pc[q] \in {"serve", "release"} /\ used'[q] = used[q],
         \A q \in Placed' :
           pc'[q] = "done" /\ success'[q] =>
             warning' # "NONE" \/ Percent(found[q] + charge'[q]) < 80
  PROVE  OrderedAs(rank, found, next)'
<1>1. /\ rank \in [Requests -> Nat] /\ found \in [Requests -> Nat] /\ next \in Nat
      /\ \A r \in Placed : rank[r] < next
      /\ \A q, r \in Placed : rank[q] = rank[r] => q = r
      /\ \A r \in Placed : SumFunction(Ahead(rank, r)) <= found[r]
      /\ \A r \in Placed : pc[r] \in {"serve", "release"} => found[r] = used[r]
  BY DEF OrderedAs
<1>2. ASSUME NEW r \in Placed' PROVE SumFunction(Ahead(rank, r)') <= found[r]
  <2> DEFINE a == Ahead(rank, r)
             b == Ahead(rank, r)'
  <2>1. \A q \in Requests : Cost[q] \in Nat /\ charge[q] \in Nat /\ charge'[q] \in Nat
    BY UsageAssumption DEF UsageTypes
  <2>2. a \in [Requests -> Nat] /\ SumFunction(a) \in Nat
    BY AheadInNat
  <2>3. b \in [Requests -> Nat]
    BY <2>1 DEF Ahead, Holds
  <2>4. \A q \in Requests : b[q] <= a[q]
    <3>1. \A q \in Requests : /\ q \in Placed' => Holds(q)' <= Holds(q)
                              /\ Holds(q) \in Nat
      BY <2>1 DEF HeldUnits, Holds
    <3> QED
      BY <3>1 DEF Ahead
  <2> HIDE DEF a, b
  <2>5. SumFunction(b) <= SumFunction(a) /\ SumFunction(b) \in Nat
    BY <2>2, <2>3, <2>4, SumGrows, SumInNat, UsageAssumption
  <2>6. SumFunction(a) <= found[r] /\ found[r] \in Nat
    BY <1>1 DEF a, Placed
  <2>7. SumFunction(b) <= found[r]
    BY <2>2, <2>5, <2>6
  <2> QED
    BY <2>7 DEF b
<1>3. \A r \in Placed' : pc'[r] \in {"serve", "release"} => found[r] = used'[r]
  BY <1>1
<1> QED
  BY <1>1, <1>2, <1>3 DEF OrderedAs, Percent

(* A reservation comes after all those made before it.                      *)
LEMMA OrderGrows ==
  ASSUME LimitInv, UsageTypes', "redis" \notin slips, NEW r \in Requests, Reserve(r),
         Fits(r, Current(r)), NEW rank, NEW found, NEW next, OrderedAs(rank, found, next),
         NEW later, later = [rank EXCEPT ![r] = next],
         NEW seen, seen = [found EXCEPT ![r] = Current(r)]
  PROVE  OrderedAs(later, seen, next + 1)'
<1>1. /\ rank \in [Requests -> Nat] /\ found \in [Requests -> Nat] /\ next \in Nat
      /\ \A q \in Placed : rank[q] < next
      /\ \A p, q \in Placed : rank[p] = rank[q] => p = q
      /\ \A q \in Placed : SumFunction(Ahead(rank, q)) <= found[q]
      /\ \A q \in Placed : pc[q] \in {"serve", "release"} => found[q] = used[q]
      /\ \A q \in Placed : pc[q] = "done" /\ success[q] =>
           warning # "NONE" \/ Percent(found[q] + charge[q]) < 80
  BY DEF OrderedAs
<1>a. /\ UsageTypes /\ TotalHeld <= counter /\ TotalHeld \in Nat
      /\ pc \in [Requests -> Pc] /\ used \in [Requests -> Nat]
      /\ counter \in Nat /\ base[r] \in Nat
      /\ HeldUnits \in [Requests -> Nat]
      /\ \A q \in Requests : Cost[q] \in Nat /\ charge[q] \in Nat
  BY UnitsInNat, UsageAssumption DEF LimitInv, CounterHolds, UsageTypes, UsageTypeOK
<1>2. /\ pc[r] = "reserve" /\ pc'[r] = "serve" /\ used'[r] = Current(r)
      /\ \A q \in Requests : q # r => pc'[q] = pc[q] /\ used'[q] = used[q]
      /\ UNCHANGED <<charge, success, warning>>
  BY <1>a DEF Reserve, Goto
<1>3. r \notin Placed /\ Placed' = Placed \cup {r}
  BY <1>2 DEF Placed
<1>4. Current(r) \in Nat /\ counter <= Current(r)
  BY <1>a DEF Current
<1>5. later \in [Requests -> Nat] /\ seen \in [Requests -> Nat] /\ next + 1 \in Nat
  BY <1>1, <1>4
<1>6. /\ \A q \in Placed' : later[q] < next + 1
      /\ \A p, q \in Placed' : later[p] = later[q] => p = q
  <2>1. \A q \in Placed : q \in Requests /\ rank[q] \in Nat
    BY <1>1 DEF Placed
  <2>2. \A q \in Placed : later[q] = rank[q]
    BY <1>1, <1>3, <2>1
  <2>3. later[r] = next
    BY <1>1
  <2> QED
    BY <1>1, <1>3, <2>1, <2>2, <2>3
<1>7. \A q \in Requests : q # r => HeldUnits'[q] = HeldUnits[q]
  BY <1>2 DEF HeldUnits, Holds
<1>8. ASSUME NEW q \in Placed PROVE SumFunction(Ahead(later, q)') <= seen[q]
  <2>1. Ahead(later, q)' = Ahead(rank, q)
    <3>1. q \in Requests /\ q # r /\ later[q] = rank[q] /\ rank[q] < next /\ rank[q] \in Nat
      BY <1>1, <1>3 DEF Placed
    <3>2. ASSUME NEW p \in Requests
          PROVE  (IF p \in Placed' /\ later[p] < later[q] THEN Holds(p)' ELSE 0)
                   = (IF p \in Placed /\ rank[p] < rank[q] THEN Holds(p) ELSE 0)
      <4>1. CASE p = r
        <5>1. later[p] = next
          BY <1>1, <4>1
        <5>2. ~(next < rank[q])
          BY <1>1, <3>1
        <5> QED
          BY <1>3, <3>1, <4>1, <5>1, <5>2
      <4>2. CASE p # r
        <5>1. later[p] = rank[p] /\ (p \in Placed' <=> p \in Placed) /\ Holds(p)' = Holds(p)
          BY <1>1, <1>3, <1>2, <4>2 DEF Holds
        <5> QED
          BY <3>1, <5>1
      <4> QED
        BY <4>1, <4>2
    <3> QED
      BY <3>2 DEF Ahead
  <2>2. seen[q] = found[q]
    BY <1>1, <1>3 DEF Placed
  <2> QED
    BY <1>1, <2>1, <2>2
<1>9. SumFunction(Ahead(later, r)') <= seen[r]
  <2> DEFINE b == Ahead(later, r)'
  <2>1. ASSUME NEW p \in Requests PROVE b[p] \in Nat /\ b[p] <= HeldUnits[p]
    <3>1. CASE p = r
      <4>1. ~(later[r] < later[r])
        BY <1>1
      <4>2. b[p] = 0
        BY <3>1, <4>1 DEF Ahead
      <4> QED
        BY <1>a, <4>2
    <3>2. CASE p # r
      <4>1. Holds(p)' = HeldUnits[p] /\ HeldUnits[p] \in Nat
        BY <1>2, <1>a, <3>2 DEF HeldUnits, Holds
      <4>2. b[p] \in {0, Holds(p)'}
        BY DEF Ahead
      <4> QED
        BY <4>1, <4>2
    <3> QED
      BY <3>1, <3>2
  <2>2. b \in [Requests -> Nat]
    <3>1. b = [p \in Requests |-> b[p]]
      BY DEF Ahead
    <3> HIDE DEF b
    <3> QED
      BY <2>1, <3>1
  <2>3. seen[r] = Current(r)
    BY <1>1
  <2> HIDE DEF b
  <2>4. SumFunction(b) <= TotalHeld /\ SumFunction(b) \in Nat
    BY <1>a, <2>1, <2>2, SumGrows, SumInNat, UsageAssumption DEF TotalHeld
  <2>5. SumFunction(b) <= seen[r]
    BY <1>a, <1>4, <2>3, <2>4
  <2> QED
    BY <2>5 DEF b
<1>10. \A q \in Placed' : pc'[q] \in {"serve", "release"} => seen[q] = used'[q]
  BY <1>1, <1>2, <1>3 DEF Placed
<1>11. \A q \in Placed' : pc'[q] = "done" /\ success'[q] =>
         warning' # "NONE" \/ Percent(seen[q] + charge'[q]) < 80
  <2>1. \A q \in Placed : q \in Requests /\ q # r /\ seen[q] = found[q]
    BY <1>1, <1>3 DEF Placed
  <2> QED
    BY <1>1, <1>2, <1>3, <2>1
<1>12. \A q \in Placed' : SumFunction(Ahead(later, q)') <= seen[q]
  BY <1>3, <1>8, <1>9
<1> QED
  BY <1>5, <1>6, <1>10, <1>11, <1>12 DEF OrderedAs, Percent

LEMMA OrderedStep ==
  ASSUME LimitInv, Ordered, UsageTypes', UsageMove
  PROVE  Ordered'
<1> SUFFICES ASSUME slips' \cap {"redis", "crash", "warning"} = {}
             PROVE  (\E rank, found : \E next : OrderedAs(rank, found, next))'
  BY DEF Ordered
<1>a. slips \cap {"redis", "crash", "warning"} = {} /\ "redis" \notin slips
  BY SlipsRemain
<1>b. PICK rank, found : \E next : OrderedAs(rank, found, next)
  BY <1>a DEF Ordered
<1>c. PICK next : OrderedAs(rank, found, next)
  BY <1>b
<1>d. /\ UsageTypes /\ Unserved /\ pc \in [Requests -> Pc] /\ used \in [Requests -> Nat]
      /\ success \in [Requests -> BOOLEAN] /\ charge \in [Requests -> Nat]
      /\ \A r \in Requests : /\ Cost[r] \in Nat /\ charge[r] \in Nat /\ charge[r] <= Cost[r]
                             /\ charge'[r] <= Cost[r] /\ charge'[r] \in Nat
  BY UsageAssumption DEF LimitInv, UsageTypes, UsageTypeOK
<1>e. \A r \in Placed : pc[r] = "done" /\ success[r] =>
        warning # "NONE" \/ Percent(found[r] + charge[r]) < 80
  BY <1>c DEF OrderedAs
<1>f. \A r \in Requests :
        /\ HeldUnits[r] = IF pc[r] \in {"serve", "release"} THEN Cost[r] ELSE charge[r]
        /\ HeldUnits'[r] = IF pc'[r] \in {"serve", "release"} THEN Cost[r] ELSE charge'[r]
  BY DEF HeldUnits, Holds
<1>1. ASSUME NEW r \in Requests,
             \A q \in Requests : q # r => /\ pc'[q] = pc[q] /\ charge'[q] = charge[q]
                                          /\ used'[q] = used[q] /\ success'[q] = success[q],
             warning # "NONE" => warning' # "NONE",
             r \in Placed' =>
               /\ r \in Placed
               /\ HeldUnits'[r] <= HeldUnits[r]
               /\ pc'[r] \in {"serve", "release"} =>
                    pc[r] \in {"serve", "release"} /\ used'[r] = used[r]
               /\ pc'[r] = "done" /\ success'[r] =>
                    warning' # "NONE" \/ Percent(found[r] + charge'[r]) < 80
      PROVE  OrderedAs(rank, found, next)'
  <2>1. \A q \in Placed' : q # r => q \in Placed
    BY <1>1 DEF Placed
  <2>2. Placed' \subseteq Placed /\ Placed' \subseteq Requests
    BY <1>1, <2>1 DEF Placed
  <2>3. \A q \in Placed' : HeldUnits'[q] <= HeldUnits[q]
    <3>1. \A q \in Requests : q # r => HeldUnits'[q] = HeldUnits[q] /\ HeldUnits[q] \in Nat
      BY <1>1, <1>d, <1>f
    <3> QED
      BY <1>1, <2>2, <3>1
  <2>4. \A q \in Placed' :
          pc'[q] \in {"serve", "release"} => pc[q] \in {"serve", "release"} /\ used'[q] = used[q]
    BY <1>1, <2>2
  <2>5. \A q \in Placed' : pc'[q] = "done" /\ success'[q] =>
          warning' # "NONE" \/ Percent(found[q] + charge'[q]) < 80
    BY <1>1, <1>e, <2>2
  <2> QED
    BY <1>c, <1>d, <2>2, <2>3, <2>4, <2>5, OrderKept
<1>2. CASE UNCHANGED requestVars /\ (warning # "NONE" => warning' # "NONE")
  <2>1. Placed' = Placed /\ UNCHANGED <<pc, charge, used, success, HeldUnits>>
    BY <1>2 DEF requestVars, Placed, HeldUnits, Holds
  <2>2. \A q \in Placed : q \in Requests /\ HeldUnits[q] \in Nat
    BY <1>d, <1>f DEF Placed
  <2>3. OrderedAs(rank, found, next)'
    BY <1>2, <1>c, <1>d, <1>e, <2>1, <2>2, OrderKept
  <2> QED
    BY <2>3
<1>3. ASSUME NEW r \in Requests, Reserve(r)
      PROVE  (\E ra, fo : \E ne : OrderedAs(ra, fo, ne))'
  <2>1. CASE Fits(r, Current(r))
    <3>1. PICK later : later = [rank EXCEPT ![r] = next]
      OBVIOUS
    <3>2. PICK seen : seen = [found EXCEPT ![r] = Current(r)]
      OBVIOUS
    <3>3. OrderedAs(later, seen, next + 1)'
      BY <1>3, <1>a, <1>c, <2>1, <3>1, <3>2, OrderGrows
    <3> QED
      BY <3>3
  <2>2. CASE ~Fits(r, Current(r))
    <3>1. /\ pc[r] = "reserve" /\ pc'[r] = "done" /\ charge'[r] = 0
          /\ \A q \in Requests : q # r => /\ pc'[q] = pc[q] /\ charge'[q] = charge[q]
                                          /\ used'[q] = used[q] /\ success'[q] = success[q]
          /\ warning' = warning
      BY <1>3, <1>d, <2>2 DEF Reserve, Goto, Unserved
    <3>2. r \notin Placed'
      BY <3>1 DEF Placed
    <3>3. OrderedAs(rank, found, next)'
      BY <1>1, <3>1, <3>2
    <3> QED
      BY <3>3
  <2> QED
    BY <2>1, <2>2
<1>4. ASSUME NEW r \in Requests, NEW ok \in BOOLEAN, NEW units \in 0..Cost[r], Serve(r, ok, units)
      PROVE  OrderedAs(rank, found, next)'
  <2>1. /\ pc[r] = "serve" /\ pc'[r] = "release" /\ used' = used /\ warning' = warning
        /\ \A q \in Requests : q # r => /\ pc'[q] = pc[q] /\ charge'[q] = charge[q]
                                        /\ used'[q] = used[q] /\ success'[q] = success[q]
    BY <1>4, <1>d DEF Serve, Goto
  <2>2. r \in Placed /\ HeldUnits'[r] <= HeldUnits[r]
    BY <1>d, <1>f, <2>1 DEF Placed
  <2> QED
    BY <1>1, <2>1, <2>2
<1>5. ASSUME NEW r \in Requests, Release(r) \/ ReleaseThrows(r)
      PROVE  OrderedAs(rank, found, next)'
  <2>1. /\ pc[r] = "release" /\ pc'[r] = (IF WarningDue(r) THEN "warn" ELSE "done")
        /\ UNCHANGED <<charge, success, warning>>
        /\ \A q \in Requests : q # r => pc'[q] = pc[q] /\ used'[q] = used[q]
    BY <1>5, <1>d DEF Release, ReleaseThrows, AfterRelease, Goto, Leave
  <2>2. r \in Placed /\ HeldUnits'[r] <= HeldUnits[r]
    BY <1>d, <1>f, <2>1 DEF Placed
  <2>3. found[r] = used[r] /\ found[r] \in Nat
    BY <1>c, <2>1, <2>2 DEF OrderedAs
  <2>4. ASSUME r \in Placed', pc'[r] = "done", success'[r]
        PROVE  Percent(found[r] + charge'[r]) < 80
    <3>1. charge[r] > 0 /\ ~WarningDue(r) /\ success[r]
      BY <2>1, <2>4 DEF Placed
    <3>2. ~(Percent(used[r] + charge[r]) >= 80)
      BY <3>1 DEF WarningDue
    <3>3. Percent(used[r] + charge[r]) \in Int
      <4>1. used[r] + charge[r] \in Nat /\ Limit \in Nat \ {0}
        BY <1>d, UsageAssumption
      <4> QED
        BY <4>1 DEF Percent
    <3> QED
      BY <2>1, <2>3, <3>2, <3>3
  <2> QED
    BY <1>1, <2>1, <2>2, <2>4
<1>6. ASSUME NEW r \in Requests, Warn(r)
      PROVE  OrderedAs(rank, found, next)'
  <2>1. /\ pc[r] = "warn" /\ pc'[r] = "done" /\ warning' # "NONE"
        /\ UNCHANGED <<charge, success, used>>
        /\ \A q \in Requests : q # r => pc'[q] = pc[q]
    BY <1>6, <1>d DEF Warn, Goto
  <2>2. r \in Placed /\ HeldUnits'[r] <= HeldUnits[r]
    BY <1>d, <1>f, <2>1 DEF Placed
  <2> QED
    BY <1>1, <2>1, <2>2
<1>7. ASSUME NEW r \in Requests, ReadUsage(r)
      PROVE  OrderedAs(rank, found, next)'
  <2>1. /\ pc'[r] = "reserve" /\ warning' = warning
        /\ UNCHANGED <<charge, success, used>>
        /\ \A q \in Requests : q # r => pc'[q] = pc[q]
    BY <1>7, <1>d DEF ReadUsage, Goto
  <2>2. r \notin Placed'
    BY <2>1 DEF Placed
  <2> QED
    BY <1>1, <2>1, <2>2
<1>8. ASSUME NEW r \in Requests, RequestFails(r), ~ReleaseThrows(r) PROVE FALSE
  BY <1>8 DEF RequestFails, ReserveThrows, WarnThrows, RequestCrash, Slip
<1> QED
  <2>1. CASE \E r \in Requests : RequestStep(r) \/ RequestFails(r)
    <3>1. PICK r \in Requests : RequestStep(r) \/ RequestFails(r)
      BY <2>1
    <3>2. CASE Reserve(r)
      BY <1>3, <3>2
    <3>3. ASSUME ~Reserve(r) PROVE OrderedAs(rank, found, next)'
      BY <1>4, <1>5, <1>6, <1>7, <1>8, <3>1, <3>3 DEF RequestStep
    <3> QED
      BY <3>2, <3>3
  <2> QED
    BY <1>2, <1>a, <2>1, RequestsApart

(* Units that are 80 % of the limit round to no less.                       *)
LEMMA PercentReached ==
  ASSUME NEW u \in Nat, 100 * u >= 80 * Limit
  PROVE  ~(Percent(u) < 80)
<1> DEFINE n == 200 * u + Limit
           d == 2 * Limit
           q == n \div d
<1>1. Limit \in Nat /\ Limit > 0
  BY UsageAssumption
<1>2. n \in Nat /\ d \in Nat /\ d > 0 /\ n >= d * 80
  BY <1>1
<1>3. Percent(u) = IF q > 100 THEN 100 ELSE q
  BY DEF Percent
<1> HIDE DEF n, d
<1>4. q \in Int /\ n < d * (q + 1)
  BY <1>2
<1> HIDE DEF q
<1>5. ~(q + 1 <= 80)
  <2> SUFFICES ASSUME q + 1 <= 80 PROVE FALSE
    OBVIOUS
  <2>1. d * (q + 1) <= d * 80
    BY <1>2, <1>4
  <2> QED
    BY <1>2, <1>4, <2>1
<1> QED
  BY <1>3, <1>4, <1>5

(* What successes have used is what the last of them to reserve found, and  *)
(* its own units, at most.                                                  *)
LEMMA WarningHolds == WarningInv => WarningRequested
<1> DEFINE ended == [r \in Requests |-> IF pc[r] = "done" /\ success[r] THEN charge[r] ELSE 0]
           D == {r \in Requests : pc[r] = "done" /\ success[r] /\ charge[r] > 0}
<1> SUFFICES ASSUME WarningInv, slips \cap {"redis", "crash", "warning"} = {},
                    100 * SumFunction(ended) >= 80 * Limit, warning = "NONE"
             PROVE  FALSE
  BY DEF WarningRequested
<1>1. PICK rank, found : \E next : OrderedAs(rank, found, next)
  BY DEF WarningInv, Ordered
<1>2. PICK next : OrderedAs(rank, found, next)
  BY <1>1
<1>3. /\ rank \in [Requests -> Nat] /\ found \in [Requests -> Nat] /\ next \in Nat
      /\ \A r \in Placed : rank[r] < next
      /\ \A q, r \in Placed : rank[q] = rank[r] => q = r
      /\ \A r \in Placed : SumFunction(Ahead(rank, r)) <= found[r]
      /\ \A r \in Placed : pc[r] = "done" /\ success[r] => Percent(found[r] + charge[r]) < 80
  BY <1>2 DEF OrderedAs
<1>4. UsageTypes /\ (\A r \in Requests : charge[r] \in Nat) /\ Limit \in Nat /\ Limit > 0
  BY UsageAssumption DEF WarningInv, LimitInv, UsageTypes
<1>5. ended \in [Requests -> Nat]
  BY <1>4
<1>6. D # {}
  <2> SUFFICES ASSUME D = {} PROVE FALSE
    OBVIOUS
  <2>1. \A r \in Requests : ended[r] = 0
    BY <1>4
  <2> HIDE DEF ended
  <2>2. SumFunction(ended) = 0
    BY <1>5, <2>1, SumOfZeros, UsageAssumption
  <2>3. ~(100 * 0 >= 80 * Limit)
    BY <1>4
  <2> QED
    BY <2>2, <2>3
<1>7. D \subseteq Placed /\ Placed \subseteq Requests
  BY DEF Placed
<1>8. PICK r \in D : \A q \in D : rank[q] <= rank[r]
  <2> DEFINE T == {next - rank[q] : q \in D}
  <2>1. \A q \in D : next - rank[q] \in Nat
    BY <1>3, <1>7
  <2>2. T \in SUBSET Nat /\ T # {}
    BY <1>6, <2>1
  <2>3. PICK n \in T : \A m \in T : n <= m
    <3> HIDE DEF T
    <3> QED
      BY <2>2, SmallestNumber
  <2>4. PICK q \in D : n = next - rank[q]
    BY <2>3
  <2>5. ASSUME NEW p \in D PROVE rank[p] <= rank[q]
    <3>1. next - rank[q] <= next - rank[p]
      BY <2>3, <2>4
    <3>2. rank[q] \in Nat /\ rank[p] \in Nat
      BY <1>3, <1>7
    <3> QED
      BY <1>3, <3>1, <3>2
  <2> QED
    BY <2>5
<1> DEFINE others == [ended EXCEPT ![r] = 0]
           before == Ahead(rank, r)
<1>9. others \in [Requests -> Nat] /\ others[r] = 0 /\ \A q \in Requests : q # r => others[q] = ended[q]
  BY <1>5, <1>7
<1>10. before \in [Requests -> Nat] /\ SumFunction(before) \in Nat
  BY <1>4, AheadInNat
<1>11. ASSUME NEW q \in Requests PROVE others[q] <= before[q]
  <2>1. CASE q \in D /\ q # r
    <3>1. rank[q] < rank[r]
      <4>1. rank[q] # rank[r] /\ rank[q] <= rank[r]
        BY <1>3, <1>7, <1>8, <2>1
      <4>2. rank[q] \in Nat /\ rank[r] \in Nat
        BY <1>3, <1>7
      <4> QED
        BY <4>1, <4>2
    <3>2. q \in Placed /\ Holds(q) = charge[q] /\ others[q] = charge[q]
      BY <1>7, <1>9, <2>1 DEF Holds
    <3> QED
      BY <1>4, <3>1, <3>2 DEF Ahead
  <2>2. CASE ~(q \in D /\ q # r)
    <3>1. others[q] = 0
      BY <1>4, <1>9, <2>2
    <3>2. before[q] \in Nat
      BY <1>10
    <3> QED
      BY <3>1, <3>2
  <2> QED
    BY <2>1, <2>2
<1>12. ended[r] = charge[r] /\ charge[r] \in Nat /\ found[r] \in Nat
  BY <1>3, <1>4, <1>7
<1>13. SumFunction(before) <= found[r]
  BY <1>3, <1>7
<1>14. ~(Percent(found[r] + charge[r]) < 80)
  <2> HIDE DEF ended, others, before
  <2>1. SumFunction(others) <= SumFunction(before) /\ SumFunction(others) \in Nat
    BY <1>9, <1>10, <1>11, SumGrows, SumInNat, UsageAssumption
  <2>2. SumFunction(others) = SumFunction(ended) - ended[r] + others[r]
    BY <1>5, <1>7, <1>9, SumChanges, UsageAssumption
  <2>3. SumFunction(ended) \in Nat
    BY <1>5, SumInNat, UsageAssumption
  <2>4. SumFunction(ended) <= found[r] + charge[r]
    BY <1>9, <1>10, <1>12, <1>13, <2>1, <2>2, <2>3
  <2>5. 100 * (found[r] + charge[r]) >= 80 * Limit
    BY <1>4, <1>12, <2>3, <2>4
  <2> QED
    BY <1>12, <2>5, PercentReached
<1> QED
  BY <1>3, <1>7, <1>14

LEMMA WarningInit == UsageInit => WarningInv
<1> SUFFICES ASSUME UsageInit PROVE WarningInv
  OBVIOUS
<1>1. Placed = {}
  BY DEF UsageInit, Placed
<1> DEFINE zero == [r \in Requests |-> 0]
<1>2. OrderedAs(zero, zero, 0)
  BY <1>1 DEF OrderedAs
<1> QED
  BY <1>2, LimitInit DEF WarningInv, Ordered

LEMMA WarningStep ==
  ASSUME WarningInv, UsageMove
  PROVE  WarningInv'
<1>1. LimitInv'
  BY LimitStep DEF WarningInv
<1> QED
  BY <1>1, OrderedStep DEF WarningInv, LimitInv

-----------------------------------------------------------------------------
(* Refusals.                                                                *)
(* Unless an entry is delivered to the log again, it is in one place, and   *)
(* stored at most once, after all of them.                                  *)
OnePlace ==
  "repeat" \notin slips =>
    /\ \A r \in queue : r \notin batch /\ r \notin UNION flushes
    /\ \A r \in batch : r \notin UNION flushes
    /\ \A r \in queue \cup batch \cup UNION flushes : stored[r] = 0
    /\ \A r \in Requests : stored[r] <= 1
    /\ \A r \in Requests : pc[r] \in {"new", "reserve", "serve"} =>
         r \notin queue \cup batch \cup UNION flushes /\ stored[r] = 0
    /\ \A F, G \in flushes : F \cap G # {} => F = G
    /\ active # NoRequest => active \in UNION flushes

(* The counter holds no more than the requests do, nor did any of them read *)
(* more in the log than was charged.                                        *)
Counted ==
  slips \cap {"redis", "release", "crash", "repeat"} = {} =>
    /\ counter <= TotalHeld
    /\ \A r \in Requests : base[r] <= SumFunction(charge)

RefusalInv == LimitInv /\ OnePlace /\ Counted

LEMMA UnionAdd ==
  ASSUME NEW A, NEW B
  PROVE  UNION (A \cup {B}) = (UNION A) \cup B
<1>1. ASSUME NEW x \in UNION (A \cup {B}) PROVE x \in (UNION A) \cup B
  <2>1. PICK C \in A \cup {B} : x \in C
    OBVIOUS
  <2> QED
    BY <2>1
<1>2. ASSUME NEW x \in (UNION A) \cup B PROVE x \in UNION (A \cup {B})
  <2>1. CASE x \in B
    BY <2>1
  <2>2. CASE x \in UNION A
    BY <2>2
  <2> QED
    BY <2>1, <2>2
<1> QED
  BY <1>1, <1>2

LEMMA OnePlaceStep ==
  ASSUME UsageTypes, OnePlace, UsageMove
  PROVE  OnePlace'
<1> SUFFICES ASSUME "repeat" \notin slips' PROVE OnePlace'
  BY DEF OnePlace
<1>a. /\ \A r \in queue : r \notin batch /\ r \notin UNION flushes
      /\ \A r \in batch : r \notin UNION flushes
      /\ \A r \in queue \cup batch \cup UNION flushes : stored[r] = 0
      /\ \A r \in Requests : stored[r] <= 1
      /\ \A r \in Requests : pc[r] \in {"new", "reserve", "serve"} =>
           r \notin queue \cup batch \cup UNION flushes /\ stored[r] = 0
      /\ \A F, G \in flushes : F \cap G # {} => F = G
      /\ active # NoRequest => active \in UNION flushes
  BY SlipsRemain DEF OnePlace
<1>b. /\ pc \in [Requests -> Pc] /\ stored \in [Requests -> Nat]
      /\ queue \subseteq Requests /\ batch \subseteq Requests /\ flushes \subseteq SUBSET Requests
      /\ active \in Requests \cup {NoRequest} /\ NoRequest \notin Requests
  BY UsageAssumption DEF UsageTypes, UsageTypeOK
<1>1. CASE UNCHANGED <<pc, logVars>>
  BY <1>1, <1>a DEF OnePlace, logVars
<1>2. ASSUME NEW r \in Requests, UNCHANGED logVars,
             pc'[r] \in {"new", "reserve", "serve"} => pc[r] \in {"new", "reserve", "serve"},
             \A q \in Requests : q # r => pc'[q] = pc[q]
      PROVE  OnePlace'
  <2>1. \A q \in Requests :
          pc'[q] \in {"new", "reserve", "serve"} => pc[q] \in {"new", "reserve", "serve"}
    BY <1>2
  <2>2. UNCHANGED <<queue, batch, flushes, stored, active>>
    BY <1>2 DEF logVars
  <2> QED
    BY <1>a, <2>1, <2>2 DEF OnePlace
<1>3. ASSUME NEW r \in Requests, RequestFails(r) \/ ReadUsage(r) \/ Reserve(r) \/ Release(r) \/ Warn(r)
      PROVE  OnePlace'
  <2>1. UNCHANGED logVars
    BY <1>3 DEF RequestFails, ReserveThrows, ReleaseThrows, WarnThrows, RequestCrash, ReadUsage,
                Reserve, Release, Warn
  <2>2. /\ \A q \in Requests : q # r => pc'[q] = pc[q]
        /\ pc'[r] \in {"new", "reserve", "serve"} => pc[r] \in {"new", "reserve", "serve"}
    BY <1>3, <1>b DEF RequestFails, ReserveThrows, ReleaseThrows, WarnThrows, RequestCrash, ReadUsage,
                Reserve, Release, Warn, AfterRelease, Goto
  <2> QED
    BY <1>2, <2>1, <2>2
<1>4. ASSUME NEW r \in Requests, NEW ok \in BOOLEAN, NEW units \in 0..Cost[r], Serve(r, ok, units)
      PROVE  OnePlace'
  <2>1. /\ pc[r] = "serve" /\ pc'[r] = "release" /\ queue' = queue \cup {r}
        /\ UNCHANGED <<active, batch, flushes, stored>>
        /\ \A q \in Requests : q # r => pc'[q] = pc[q]
    BY <1>4, <1>b DEF Serve, Goto
  <2>2. r \notin queue \cup batch \cup UNION flushes /\ stored[r] = 0
    BY <1>a, <2>1
  <2> QED
    BY <1>a, <2>1, <2>2 DEF OnePlace
<1>5. ASSUME NEW r \in Requests, TakeEntry(r) PROVE OnePlace'
  <2>1. r \in queue /\ queue' = queue \ {r} /\ active = NoRequest /\ UNCHANGED <<pc, stored>>
    BY <1>5 DEF TakeEntry, logOnly, requestVars
  <2>2. CASE Cardinality(batch) + 1 >= BATCH_SIZE
    <3>1. flushes' = flushes \cup {batch \cup {r}} /\ batch' = {} /\ active' = r
      BY <1>5, <2>2 DEF TakeEntry
    <3>2. UNION flushes' = (UNION flushes) \cup (batch \cup {r})
      BY <3>1, UnionAdd
    <3>3. \A F \in flushes : F \cap (batch \cup {r}) = {}
      BY <1>a, <2>1
    <3>4. \A F, G \in flushes' : F \cap G # {} => F = G
      BY <1>a, <3>1, <3>3
    <3> DEFINE new == UNION flushes'
    <3>5. /\ new = (UNION flushes) \cup (batch \cup {r})
          /\ \A q \in new : q = r \/ q \in batch \/ q \in UNION flushes
      BY <3>2
    <3> HIDE DEF new
    <3>6. \A q \in queue' : q \notin batch' /\ q \notin new
      BY <1>a, <2>1, <3>1, <3>5
    <3>7. queue' \cup batch' \cup new \subseteq queue \cup batch \cup UNION flushes
      BY <2>1, <3>1, <3>5
    <3>8. /\ \A q \in queue' \cup batch' \cup new : stored'[q] = 0
          /\ \A q \in Requests : pc'[q] \in {"new", "reserve", "serve"} =>
               q \notin queue' \cup batch' \cup new /\ stored'[q] = 0
      BY <1>a, <2>1, <3>7
    <3>9. active' \in new
      BY <3>1, <3>5
    <3> QED
      BY <1>a, <2>1, <3>1, <3>4, <3>6, <3>8, <3>9 DEF OnePlace, new
  <2>3. CASE ~(Cardinality(batch) + 1 >= BATCH_SIZE)
    <3>1. batch' = batch \cup {r} /\ UNCHANGED <<flushes, active>>
      BY <1>5, <2>3 DEF TakeEntry
    <3> QED
      BY <1>a, <2>1, <3>1 DEF OnePlace
  <2> QED
    BY <2>2, <2>3
<1>6. ASSUME TimerFires PROVE OnePlace'
  <2>1. batch' = {} /\ UNCHANGED <<pc, queue, active, stored>>
    BY <1>6 DEF TimerFires, logOnly, requestVars
  <2>2. flushes' = flushes \/ flushes' = flushes \cup {batch}
    BY <1>6 DEF TimerFires
  <2> DEFINE new == UNION flushes'
  <2>3. new = UNION flushes \/ new = (UNION flushes) \cup batch
    BY <2>2, UnionAdd
  <2>4. \A F, G \in flushes' : F \cap G # {} => F = G
    <3>1. \A F \in flushes : F \cap batch = {}
      BY <1>a
    <3> QED
      BY <1>a, <2>2, <3>1
  <2> HIDE DEF new
  <2>5. queue' \cup batch' \cup new \subseteq queue \cup batch \cup UNION flushes
    BY <2>1, <2>3
  <2>6. \A q \in queue' : q \notin batch' /\ q \notin new
    BY <1>a, <2>1, <2>3
  <2>7. active' # NoRequest => active' \in new
    BY <1>a, <2>1, <2>3
  <2> QED
    BY <1>a, <2>1, <2>4, <2>5, <2>6, <2>7 DEF OnePlace, new
<1>7. ASSUME NEW F \in flushes, FlushEnds(F)
      PROVE  /\ UNION flushes' = (UNION flushes) \ F
             /\ \A G, H \in flushes' : G \cap H # {} => G = H
             /\ active' # NoRequest => active' \in UNION flushes'
             /\ F \subseteq UNION flushes /\ UNCHANGED <<pc, queue>>
  <2>1. /\ flushes' = flushes \ {F} /\ active' = (IF active \in F THEN NoRequest ELSE active)
        /\ UNCHANGED <<pc, queue>>
    BY <1>7 DEF FlushEnds, logOnly, requestVars
  <2>2. UNION flushes' = (UNION flushes) \ F
    <3>1. \A G \in flushes' : G \cap F = {}
      BY <1>a, <2>1
    <3> QED
      BY <2>1, <3>1
  <2> QED
    BY <1>a, <2>1, <2>2
<1>8. ASSUME NEW F \in flushes, Insert(F) PROVE OnePlace'
  <2>1. FlushEnds(F) /\ batch' = batch
    BY <1>8 DEF Insert
  <2>2. \A r \in Requests : stored'[r] = IF r \in F THEN stored[r] + 1 ELSE stored[r]
    BY <1>8 DEF Insert, Inserted
  <2>3. \A r \in F : r \in Requests /\ r \notin queue \cup batch /\ stored[r] = 0
    BY <1>7, <1>a, <1>b
  <2>4. \A r \in Requests : stored'[r] <= 1
    BY <1>a, <1>b, <2>2, <2>3
  <2>5. \A r \in queue' \cup batch' \cup UNION flushes' : r \notin F /\ r \in Requests
    BY <1>7, <1>b, <2>1, <2>3
  <2>6. \A r \in Requests : pc'[r] \in {"new", "reserve", "serve"} => r \notin F
    BY <1>7, <1>a, <2>1
  <2> QED
    BY <1>7, <1>a, <2>1, <2>2, <2>4, <2>5, <2>6 DEF OnePlace
<1>9. ASSUME NEW F \in flushes, InsertThrows(F) PROVE OnePlace'
  <2>1. FlushEnds(F) /\ batch' = batch \cup F /\ stored' = stored
    BY <1>9 DEF InsertThrows
  <2>2. queue' \cup batch' \cup UNION flushes' \subseteq queue \cup batch \cup UNION flushes
    BY <1>7, <2>1
  <2>3. /\ \A r \in queue' : r \notin batch' /\ r \notin UNION flushes'
        /\ \A r \in batch' : r \notin UNION flushes'
    BY <1>7, <1>a, <2>1
  <2> QED
    BY <1>7, <1>a, <2>1, <2>2, <2>3 DEF OnePlace
<1>10. ASSUME NEW F \in flushes, InsertAnswerLost(F) PROVE FALSE
  BY <1>10 DEF InsertAnswerLost, Slip
<1>11. ASSUME NEW done \in SUBSET flushes, WorkerCrash(done) PROVE OnePlace'
  <2>1. /\ queue' = (IF active = NoRequest THEN queue ELSE queue \cup {active})
        /\ active' = NoRequest /\ batch' = {} /\ flushes' = {} /\ pc' = pc
        /\ \A r \in Requests : stored'[r] = IF r \in UNION done THEN stored[r] + 1 ELSE stored[r]
    BY <1>11 DEF WorkerCrash, Inserted, logOnly, requestVars
  <2>2. active \notin UNION done
    BY <1>11 DEF WorkerCrash, Slip
  <2>3. \A r \in UNION done : r \in UNION flushes
    OBVIOUS
  <2>4. \A r \in Requests : stored'[r] <= 1
    BY <1>a, <1>b, <2>1, <2>3
  <2>5. \A r \in queue' : r \in Requests /\ r \notin UNION done /\ stored[r] = 0
    BY <1>a, <1>b, <2>1, <2>2, <2>3
  <2>6. \A r \in Requests : pc'[r] \in {"new", "reserve", "serve"} => r \notin queue' /\ stored'[r] = 0
    BY <1>a, <1>b, <2>1, <2>3
  <2> QED
    BY <1>a, <1>b, <2>1, <2>4, <2>5, <2>6 DEF OnePlace
<1> QED
  <2>1. CASE \E r \in Requests : RequestStep(r) \/ RequestFails(r)
    BY <1>3, <1>4, <2>1 DEF RequestStep
  <2>2. CASE RedisForgets \/ UsageAside
    BY <1>1, <2>2 DEF RedisForgets, UsageAside, requestVars
  <2>3. CASE LogStep
    BY <1>5, <1>6, <1>8, <1>9, <1>10, <1>11, <2>3 DEF LogStep
  <2> QED
    BY <2>1, <2>2, <2>3 DEF UsageMove, UsageNext

(* What the log counts for a request is at most its charge, and that is at  *)
(* most what it holds.                                                      *)
LEMMA DurableWithin ==
  ASSUME UsageTypes, OnePlace, "repeat" \notin slips
  PROVE  /\ Durable <= SumFunction(charge) /\ SumFunction(charge) <= TotalHeld
         /\ Durable \in Nat /\ SumFunction(charge) \in Nat /\ TotalHeld \in Nat
<1> DEFINE f == [r \in Requests |-> IF success[r] THEN stored[r] * charge[r] ELSE 0]
<1>a. /\ charge \in [Requests -> Nat] /\ HeldUnits \in [Requests -> Nat]
      /\ \A r \in Requests : /\ charge[r] \in Nat /\ charge[r] <= Cost[r]
                             /\ stored[r] \in Nat /\ stored[r] <= 1
  BY UnitsInNat, UsageAssumption DEF UsageTypes, UsageTypeOK, OnePlace
<1>1. ASSUME NEW r \in Requests PROVE f[r] \in Nat /\ f[r] <= charge[r]
  <2>1. stored[r] = 0 \/ stored[r] = 1
    BY <1>a
  <2>2. 0 * charge[r] = 0 /\ 1 * charge[r] = charge[r]
    BY <1>a
  <2>3. stored[r] * charge[r] \in {0, charge[r]}
    BY <2>1, <2>2
  <2> QED
    BY <1>a, <2>3
<1>2. f \in [Requests -> Nat]
  BY <1>1
<1>3. \A r \in Requests : charge[r] <= HeldUnits[r]
  BY <1>a DEF HeldUnits, Holds
<1> HIDE DEF f
<1>4. SumFunction(f) <= SumFunction(charge) /\ SumFunction(f) \in Nat
  BY <1>a, <1>1, <1>2, SumGrows, SumInNat, UsageAssumption
<1>5. SumFunction(charge) <= TotalHeld /\ SumFunction(charge) \in Nat /\ TotalHeld \in Nat
  BY <1>a, <1>3, SumGrows, SumInNat, UsageAssumption DEF TotalHeld
<1> QED
  BY <1>4, <1>5 DEF Durable, f

LEMMA CountedStep ==
  ASSUME RefusalInv, LimitInv', UsageMove
  PROVE  Counted'
<1> SUFFICES ASSUME slips' \cap {"redis", "release", "crash", "repeat"} = {}
             PROVE  /\ counter' <= TotalHeld'
                    /\ \A r \in Requests : base'[r] <= SumFunction(charge')
  BY DEF Counted
<1>a. /\ slips \cap {"redis", "release", "crash", "repeat"} = {} /\ UsageTypes /\ UsageTypes'
      /\ Unserved /\ OnePlace
  BY SlipsRemain DEF RefusalInv, LimitInv
<1>b. /\ counter <= TotalHeld
      /\ \A r \in Requests : base[r] <= SumFunction(charge)
      /\ \A r \in Requests : pc[r] \in {"serve", "release"} => reserved[r]
  BY <1>a DEF RefusalInv, LimitInv, Counted, CounterHolds
<1>c. /\ pc \in [Requests -> Pc] /\ reserved \in [Requests -> BOOLEAN]
      /\ base \in [Requests -> Nat] /\ counter \in Nat /\ counter' \in Nat
      /\ \A r \in Requests : /\ Cost[r] \in Nat /\ charge[r] \in Nat /\ charge[r] <= Cost[r]
                             /\ charge'[r] \in Nat /\ charge'[r] <= Cost[r] /\ base[r] \in Nat
      /\ charge \in [Requests -> Nat] /\ charge' \in [Requests -> Nat]
  BY <1>a, UsageAssumption DEF UsageTypes, UsageTypeOK
<1>d. /\ Durable <= SumFunction(charge) /\ SumFunction(charge) <= TotalHeld
      /\ Durable \in Nat /\ SumFunction(charge) \in Nat /\ TotalHeld \in Nat
  BY <1>a, DurableWithin
<1>e. \A r \in Requests :
        /\ HeldUnits[r] = IF pc[r] \in {"serve", "release"} THEN Cost[r] ELSE charge[r]
        /\ HeldUnits'[r] = IF pc'[r] \in {"serve", "release"} THEN Cost[r] ELSE charge'[r]
  BY DEF HeldUnits, Holds
<1>1. CASE UNCHANGED requestVars /\ counter' = counter
  BY <1>1, <1>b, UnitsStay DEF requestVars
<1>2. CASE UNCHANGED requestVars /\ "redis" \in slips'
  BY <1>2
(* A step of a request that moves the counter as much as its units. *)
<1>3. ASSUME NEW r \in Requests, UNCHANGED charge,
             \A q \in Requests : q # r => pc'[q] = pc[q] /\ base'[q] = base[q],
             base'[r] <= SumFunction(charge),
             counter' <= TotalHeld - HeldUnits[r] + HeldUnits'[r]
      PROVE  /\ counter' <= TotalHeld'
             /\ \A q \in Requests : base'[q] <= SumFunction(charge')
  <2>1. TotalHeld' = TotalHeld - HeldUnits[r] + HeldUnits'[r]
    BY <1>3, <1>a, UnitsChange
  <2> QED
    BY <1>3, <1>b, <2>1
<1>4. ASSUME NEW r \in Requests, ReadUsage(r)
      PROVE  /\ counter' <= TotalHeld'
             /\ \A q \in Requests : base'[q] <= SumFunction(charge')
  <2>1. /\ pc[r] = "new" /\ pc'[r] = "reserve" /\ base'[r] = Durable
        /\ UNCHANGED <<charge, counter>>
        /\ \A q \in Requests : q # r => pc'[q] = pc[q] /\ base'[q] = base[q]
    BY <1>4, <1>c DEF ReadUsage, Goto
  <2>2. HeldUnits'[r] = HeldUnits[r] /\ HeldUnits[r] \in Nat
    BY <1>c, <1>e, <2>1
  <2> QED
    BY <1>3, <1>b, <1>c, <1>d, <2>1, <2>2
<1>5. ASSUME NEW r \in Requests, Reserve(r)
      PROVE  /\ counter' <= TotalHeld'
             /\ \A q \in Requests : base'[q] <= SumFunction(charge')
  <2>1. /\ pc[r] = "reserve" /\ base'[r] = 0 /\ UNCHANGED charge
        /\ \A q \in Requests : q # r => pc'[q] = pc[q] /\ base'[q] = base[q]
        /\ charge[r] = 0
    BY <1>5, <1>a, <1>c DEF Reserve, Goto, Unserved
  <2>2. Current(r) <= TotalHeld /\ Current(r) \in Nat
    BY <1>b, <1>c, <1>d DEF Current
  <2>3. CASE Fits(r, Current(r))
    <3>1. counter' = Current(r) + Cost[r] /\ pc'[r] = "serve"
      BY <1>5, <1>c, <2>3 DEF Reserve, Goto
    <3>2. HeldUnits[r] = 0 /\ HeldUnits'[r] = Cost[r]
      BY <1>e, <2>1, <3>1
    <3>3. counter' <= TotalHeld - HeldUnits[r] + HeldUnits'[r]
      BY <1>c, <1>d, <2>2, <3>1, <3>2
    <3> QED
      BY <1>3, <1>d, <2>1, <3>3
  <2>4. CASE ~Fits(r, Current(r))
    <3>1. counter' = Current(r) /\ pc'[r] = "done"
      BY <1>5, <1>c, <2>4 DEF Reserve, Goto
    <3>2. HeldUnits[r] = 0 /\ HeldUnits'[r] = 0
      BY <1>e, <2>1, <3>1
    <3>3. counter' <= TotalHeld - HeldUnits[r] + HeldUnits'[r]
      BY <1>c, <1>d, <2>2, <3>1, <3>2
    <3> QED
      BY <1>3, <1>d, <2>1, <3>3
  <2> QED
    BY <2>3, <2>4
<1>6. ASSUME NEW r \in Requests, NEW ok \in BOOLEAN, NEW units \in 0..Cost[r], Serve(r, ok, units)
      PROVE  /\ counter' <= TotalHeld'
             /\ \A q \in Requests : base'[q] <= SumFunction(charge')
  <2>1. /\ pc[r] = "serve" /\ pc'[r] = "release" /\ UNCHANGED <<base, counter>>
        /\ \A q \in Requests : q # r => pc'[q] = pc[q] /\ charge'[q] = charge[q]
        /\ charge[r] = 0
    BY <1>6, <1>a, <1>c DEF Serve, Goto, Unserved
  <2>2. TotalHeld' = TotalHeld
    <3>1. HeldUnits'[r] = HeldUnits[r] /\ HeldUnits[r] \in Nat
      BY <1>c, <1>e, <2>1
    <3>2. TotalHeld' = TotalHeld - HeldUnits[r] + HeldUnits'[r]
      BY <1>a, <2>1, UnitsChange
    <3> QED
      BY <1>d, <3>1, <3>2
  <2>3. SumFunction(charge) <= SumFunction(charge')
    <3>1. \A q \in Requests : charge[q] <= charge'[q]
      BY <1>c, <2>1
    <3> QED
      BY <1>c, <3>1, SumGrows, UsageAssumption
  <2>4. SumFunction(charge') \in Nat
    BY <1>c, SumInNat, UsageAssumption
  <2> QED
    BY <1>b, <1>c, <1>d, <2>1, <2>2, <2>3, <2>4
<1>7. ASSUME NEW r \in Requests, Release(r)
      PROVE  /\ counter' <= TotalHeld'
             /\ \A q \in Requests : base'[q] <= SumFunction(charge')
  <2>1. /\ pc[r] = "release" /\ pc'[r] \in {"warn", "done"} /\ UNCHANGED <<charge, base>>
        /\ \A q \in Requests : q # r => pc'[q] = pc[q]
        /\ counter' = Lowered(Cost[r] - charge[r])
    BY <1>7, <1>b, <1>c DEF Release, AfterRelease, Goto, Unused
  <2>2. HeldUnits[r] = Cost[r] /\ HeldUnits'[r] = charge[r]
    BY <1>c, <1>e, <2>1
  <2>3. counter' <= TotalHeld - HeldUnits[r] + HeldUnits'[r]
    <3>1. HeldUnits[r] <= TotalHeld
      <4> DEFINE less == [HeldUnits EXCEPT ![r] = 0]
      <4>1. HeldUnits \in [Requests -> Nat] /\ less \in [Requests -> Nat] /\ less[r] = 0
        BY <1>a, UnitsInNat
      <4>2. \A q \in Requests : q # r => HeldUnits[q] = less[q]
        BY <4>1
      <4> HIDE DEF less
      <4>3. SumFunction(less) = SumFunction(HeldUnits) - HeldUnits[r] + less[r]
        BY <4>1, <4>2, SumChanges, UsageAssumption
      <4>4. SumFunction(less) \in Nat /\ SumFunction(HeldUnits) \in Nat
        BY <4>1, SumInNat, UsageAssumption
      <4> QED
        BY <4>1, <4>3, <4>4 DEF TotalHeld
    <3> QED
      BY <1>b, <1>c, <1>d, <2>1, <2>2, <3>1 DEF Lowered
  <2> QED
    BY <1>3, <1>b, <2>1, <2>3
<1>8. ASSUME NEW r \in Requests, Warn(r) \/ WarnThrows(r)
      PROVE  /\ counter' <= TotalHeld'
             /\ \A q \in Requests : base'[q] <= SumFunction(charge')
  <2>1. /\ pc[r] = "warn" /\ pc'[r] = "done" /\ UNCHANGED <<charge, base, counter>>
        /\ \A q \in Requests : q # r => pc'[q] = pc[q]
    BY <1>8, <1>c DEF Warn, WarnThrows, Goto
  <2>2. HeldUnits[r] = charge[r] /\ HeldUnits'[r] = charge[r]
    BY <1>e, <2>1
  <2> QED
    BY <1>3, <1>b, <1>c, <1>d, <2>1, <2>2
<1>9. ASSUME NEW r \in Requests, RequestFails(r), ~WarnThrows(r) PROVE FALSE
  BY <1>9 DEF RequestFails, ReserveThrows, ReleaseThrows, RequestCrash, Slip
<1> QED
  BY <1>1, <1>2, <1>4, <1>5, <1>6, <1>7, <1>8, <1>9, RequestsApart DEF RequestStep

LEMMA RefusalInit == UsageInit => RefusalInv
<1> SUFFICES ASSUME UsageInit PROVE RefusalInv
  OBVIOUS
<1>1. LimitInv
  BY LimitInit
<1>2. TotalHeld \in Nat /\ charge \in [Requests -> Nat]
  BY <1>1, UnitsInNat DEF LimitInv, UsageTypes
<1>3. SumFunction(charge) \in Nat
  BY <1>2, SumInNat, UsageAssumption
<1>4. UNION flushes = {}
  BY DEF UsageInit
<1> QED
  BY <1>1, <1>2, <1>3, <1>4 DEF RefusalInv, OnePlace, Counted, UsageInit

LEMMA RefusalStep ==
  ASSUME RefusalInv, UsageMove
  PROVE  RefusalInv'
<1>1. LimitInv'
  BY LimitStep DEF RefusalInv
<1>2. OnePlace'
  BY OnePlaceStep DEF RefusalInv, LimitInv
<1> QED
  BY <1>1, <1>2, CountedStep DEF RefusalInv

(* A refusal, by Redis or by the log alone.                                 *)
LEMMA RefusalHolds ==
  ASSUME RefusalInv, UsageMove, NEW r \in Requests, pc[r] = "reserve", pc'[r] = "done",
         slips \cap {"redis", "release", "crash", "repeat"} = {}
  PROVE  SumFunction([q \in Requests |-> IF q = r THEN Cost[r] ELSE Holds(q)]) > Limit
<1> DEFINE g == [q \in Requests |-> IF q = r THEN Cost[r] ELSE Holds(q)]
<1>a. /\ UsageTypes /\ Unserved /\ OnePlace /\ pc \in [Requests -> Pc]
      /\ counter <= TotalHeld /\ base[r] <= SumFunction(charge)
      /\ counter \in Nat /\ base[r] \in Nat /\ Limit \in Nat
      /\ \A q \in Requests : Cost[q] \in Nat /\ charge[q] \in Nat
  BY UsageAssumption DEF RefusalInv, LimitInv, Counted, UsageTypes, UsageTypeOK
<1>b. /\ Durable <= SumFunction(charge) /\ SumFunction(charge) <= TotalHeld
      /\ Durable \in Nat /\ SumFunction(charge) \in Nat /\ TotalHeld \in Nat
  BY <1>a, DurableWithin
<1>1. TotalHeld + Cost[r] > Limit
  <2>1. PICK q \in Requests : RequestStep(q) \/ RequestFails(q)
    BY RequestsApart DEF requestVars
  <2>2. q = r
    <3>1. pc'[r] # pc[r]
      OBVIOUS
    <3> QED
      BY <1>a, <2>1, <3>1 DEF RequestStep, RequestFails, ReadUsage, Reserve, Serve, Release, Warn,
           ReserveThrows, ReleaseThrows, WarnThrows, RequestCrash, AfterRelease, Goto
  <2>3. Reserve(r) \/ \E ran \in BOOLEAN : ReserveThrows(r, ran)
    BY <2>1, <2>2 DEF RequestStep, RequestFails, ReadUsage, Serve, Release, Warn,
           ReleaseThrows, WarnThrows, RequestCrash
  <2>4. CASE Reserve(r)
    <3>1. ~Fits(r, Current(r))
      BY <1>a, <2>4 DEF Reserve, Goto
    <3>2. Current(r) \in Nat /\ Current(r) <= TotalHeld
      BY <1>a, <1>b DEF Current
    <3> QED
      BY <1>a, <1>b, <3>1, <3>2 DEF Fits
  <2>5. CASE \E ran \in BOOLEAN : ReserveThrows(r, ran)
    <3>1. ~Fits(r, Durable)
      BY <1>a, <2>5 DEF ReserveThrows, Goto
    <3> QED
      BY <1>a, <1>b, <3>1 DEF Fits
  <2> QED
    BY <2>3, <2>4, <2>5
<1>2. g \in [Requests -> Nat] /\ g[r] = Cost[r] /\ HeldUnits \in [Requests -> Nat]
  BY <1>a, UnitsInNat DEF Holds
<1>3. \A q \in Requests : q # r => HeldUnits[q] = g[q]
  BY DEF HeldUnits
<1>4. HeldUnits[r] = 0
  BY <1>a DEF HeldUnits, Holds, Unserved
<1> HIDE DEF g
<1>5. SumFunction(g) = TotalHeld - HeldUnits[r] + g[r]
  BY <1>2, <1>3, SumChanges, UsageAssumption DEF TotalHeld
<1>6. SumFunction(g) > Limit
  BY <1>1, <1>2, <1>4, <1>5, <1>a, <1>b
<1> QED
  BY <1>6 DEF g

-----------------------------------------------------------------------------
(* Of the usage alone, whatever the notices and the operator do besides:    *)
(* while nothing goes wrong with Redis, the counter holds what requests do; *)
(* they have reserved in an order; and nothing inflates the counter but     *)
(* what RefusalIsJust names.                                                *)
THEOREM UsageInvariant == UsageInit /\ [][UsageMove]_usageVars => [](WarningInv /\ RefusalInv)
<1>1. UsageInit => WarningInv /\ RefusalInv
  BY WarningInit, RefusalInit
<1>2. ASSUME WarningInv, RefusalInv, [UsageMove]_usageVars
      PROVE  WarningInv' /\ RefusalInv'
  <2>1. CASE UsageMove
    BY <1>2, <2>1, WarningStep, RefusalStep
  <2>2. CASE UNCHANGED usageVars
    <3>1. faults \in 0..MaxFaults
      BY <1>2 DEF WarningInv, LimitInv, UsageTypes, UsageTypeOK
    <3>2. UsageAside
      BY <2>2, <3>1 DEF UsageAside, usageVars
    <3> QED
      BY <1>2, <3>2, WarningStep, RefusalStep DEF UsageMove
  <2> QED
    BY <1>2, <2>1, <2>2
<1> QED
  BY <1>1, <1>2, PTL
=============================================================================
