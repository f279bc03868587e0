---------------------------- MODULE Sizing_proofs ----------------------------
(***************************************************************************)
(* Proofs about Sizing for every model, every memory and every choice of   *)
(* the floor, the servable minimum and the block size.  The division in    *)
(* compute_sizing is characterised once (MaxCtxIsExact); everything else   *)
(* follows from that by comparing what fits.  Then proofs about            *)
(* RecordStore, the files in which the result is kept.                     *)
(***************************************************************************)
EXTENDS Sizing, RecordStore, SequenceTheorems, TLAPS

(* The facts about division and multiplication that are needed.            *)
LEMMA DivBound ==
    ASSUME NEW a \in Nat, NEW b \in Nat \ {0}
    PROVE  /\ a \div b \in Nat
           /\ (a \div b) * b <= a
           /\ a < ((a \div b) + 1) * b
BY Z3

LEMMA TimesMonotone ==
    ASSUME NEW a \in Nat, NEW b \in Nat, NEW c \in Nat, a <= b
    PROVE  a * c <= b * c
BY SMT

LEMMA TimesReflects ==
    ASSUME NEW q \in Nat, NEW n \in Nat, NEW c \in Nat, NEW a \in Nat,
           n * c <= a, a < (q + 1) * c
    PROVE  n <= q
BY SMT

LEMMA HalfTheCost ==
    ASSUME NEW n \in Nat, NEW w \in Nat, n >= 2
    PROVE  (n + 1) * (w * 45) <= n * (w * 85)
BY SMT

-----------------------------------------------------------------------------
LEMMA WidthType ==
    ASSUME NEW p \in Profile
    PROVE  Width(p) \in Nat
BY DEF Width, Profile

LEMMA CostType ==
    ASSUME NEW p \in Profile, NEW type \in CacheTypes
    PROVE  /\ TokenCost(p, type) \in Nat
           /\ Width(p) > 0 <=> TokenCost(p, type) > 0
<1>1. ElementCost(type) \in {160, 85, 45}
  BY DEF ElementCost, CacheTypes
<1>2. PICK w \in Nat : w = Width(p)
  BY WidthType
<1>3. ASSUME NEW e \in {160, 85, 45}
      PROVE  w * e \in Nat /\ (w > 0 <=> w * e > 0)
  BY <1>2, <1>3
<1> QED
  BY <1>1, <1>2, <1>3 DEF TokenCost

LEMMA BudgetType ==
    ASSUME NEW p \in Profile, Known(p)
    PROVE  Budget(p) \in Nat /\ Weights(p) \in Nat
BY DEF Profile, Known, Budget, Weights

(* max_ctx_for returns the largest context that fits, or nothing when the  *)
(* model keeps no KV cache.                                                *)
LEMMA MaxCtxIsExact ==
    ASSUME NEW p \in Profile, Known(p), NEW type \in CacheTypes
    PROVE  /\ MaxCtxFor(p, type) \in Nat
           /\ Width(p) = 0 => MaxCtxFor(p, type) = 0
           /\ \A n \in Nat \ {0} : n <= MaxCtxFor(p, type)
                                      <=> Width(p) > 0 /\ Fits(p, type, n)
<1> DEFINE c == TokenCost(p, type)
           kv == Budget(p) - Weights(p)
<1>1. c \in Nat /\ (Width(p) > 0 <=> c > 0) /\ Width(p) \in Nat
  BY CostType, WidthType
<1>2. kv \in Int /\ Budget(p) \in Nat /\ Weights(p) \in Nat
  BY BudgetType
<1>3. CASE c = 0
  <2>1. MaxCtxFor(p, type) = 0
    BY <1>1, <1>3 DEF MaxCtxFor
  <2> QED
    BY <1>1, <1>3, <2>1
<1>4. CASE c > 0 /\ kv <= 0
  <2>1. MaxCtxFor(p, type) = 0
    BY <1>1, <1>2, <1>4 DEF MaxCtxFor, KvBudget
  <2>2. ASSUME NEW n \in Nat \ {0} PROVE ~Fits(p, type, n)
    <3>1. n * c > 0
      BY <1>1, <1>4
    <3> QED
      BY <1>1, <1>2, <1>4, <3>1 DEF Fits
  <2> QED
    BY <2>1, <2>2
<1>5. CASE c > 0 /\ kv > 0
  <2> DEFINE q == kv \div c
  <2>1. MaxCtxFor(p, type) = q
    BY <1>1, <1>2, <1>5 DEF MaxCtxFor, KvBudget
  <2>2. q \in Nat /\ q * c <= kv /\ kv < (q + 1) * c
    BY <1>1, <1>2, <1>5, DivBound
  <2>3. ASSUME NEW n \in Nat \ {0} PROVE n <= q <=> Fits(p, type, n)
    <3> HIDE DEF c, kv, q
    <3>1. n * c \in Nat /\ q * c \in Nat
      BY <1>1, <2>2
    <3>2. n <= q => n * c <= q * c
      BY <1>1, <2>2, TimesMonotone
    <3>3. kv \in Nat
      BY <1>2, <1>5
    <3>4. n * c <= kv => n <= q
      BY <1>1, <2>2, <3>3, TimesReflects
    <3>5. Fits(p, type, n) <=> n * c <= kv
      BY <1>2, <3>1 DEF Fits, c, kv
    <3> QED
      BY <2>2, <3>1, <3>2, <3>3, <3>4, <3>5
  <2> QED
    BY <1>1, <1>5, <2>1, <2>2, <2>3
<1> QED
  BY <1>1, <1>2, <1>3, <1>4, <1>5

(* Where q8_0 fits, q4_0 fits.                                             *)
LEMMA Q4FitsToo ==
    ASSUME NEW p \in Profile, Known(p), NEW n \in Nat, Fits(p, "q8_0", n)
    PROVE  Fits(p, "q4_0", n)
<1>1. PICK w \in Nat : w = Width(p)
  BY WidthType
<1>2. Budget(p) \in Nat /\ Weights(p) \in Nat
  BY BudgetType
<1>3. n * (w * 45) <= n * (w * 85) /\ n * (w * 45) \in Nat /\ n * (w * 85) \in Nat
  BY <1>1
<1>4. TokenCost(p, "q4_0") = w * 45 /\ TokenCost(p, "q8_0") = w * 85
  BY <1>1 DEF TokenCost, ElementCost
<1> QED
  BY <1>2, <1>3, <1>4 DEF Fits

(* The last branch of compute_sizing (model_sizing.py:406-412) is never    *)
(* taken: q4_0 holds at least as many tokens as q8_0.                      *)
THEOREM Q4HoldsMore ==
    ASSUME NEW p \in Profile, Known(p)
    PROVE  MaxCtxFor(p, "q4_0") >= MaxCtxFor(p, "q8_0")
<1> DEFINE a == MaxCtxFor(p, "q8_0")
           b == MaxCtxFor(p, "q4_0")
<1>1. a \in Nat /\ b \in Nat
  BY MaxCtxIsExact DEF CacheTypes
<1>2. CASE a > 0
  <2>1. Width(p) > 0 /\ Fits(p, "q8_0", a)
    BY <1>1, <1>2, MaxCtxIsExact DEF CacheTypes
  <2>2. Fits(p, "q4_0", a)
    BY <1>1, <2>1, Q4FitsToo
  <2> QED
    BY <1>1, <1>2, <2>1, <2>2, MaxCtxIsExact DEF CacheTypes
<1> QED
  BY <1>1, <1>2

(* With two tokens or more, q4_0 holds strictly more than q8_0.            *)
LEMMA Q4HoldsStrictlyMore ==
    ASSUME NEW p \in Profile, Known(p), MaxCtxFor(p, "q4_0") >= 2
    PROVE  ~Fits(p, "q8_0", MaxCtxFor(p, "q4_0"))
<1> DEFINE b == MaxCtxFor(p, "q4_0")
<1>1. b \in Nat /\ Width(p) > 0 /\ ~Fits(p, "q4_0", b + 1)
  BY MaxCtxIsExact, WidthType DEF CacheTypes
<1>2. PICK w \in Nat \ {0} : w = Width(p)
  BY <1>1, WidthType
<1>3. TokenCost(p, "q4_0") = w * 45 /\ TokenCost(p, "q8_0") = w * 85
  BY <1>2 DEF TokenCost, ElementCost
<1>4. Budget(p) \in Nat /\ Weights(p) \in Nat
  BY BudgetType
<1> HIDE DEF b
<1>5. (b + 1) * (w * 45) <= b * (w * 85)
  BY <1>1, <1>2, HalfTheCost DEF b
<1>6. Weights(p) + (b + 1) * (w * 45) > Budget(p)
  BY <1>1, <1>3, <1>4 DEF Fits, b
<1>7. (b + 1) * (w * 45) \in Nat /\ b * (w * 85) \in Nat
  BY <1>1, <1>2
<1>8. Weights(p) + b * (w * 85) > Budget(p)
  BY <1>4, <1>5, <1>6, <1>7
<1> QED
  BY <1>3, <1>4, <1>7, <1>8 DEF Fits, b

-----------------------------------------------------------------------------
(* What the cache type and the fitted context are, for each kind of        *)
(* profile.                                                                *)
LEMMA FittedCases ==
    ASSUME NEW p \in Profile
    PROVE  /\ ~Known(p) => Fitted(p) = Fit("f16", p.trained)
           /\ Known(p) /\ ~Quantizable(p) =>
                  Fitted(p) = Fit("f16", AtMost(MaxCtxFor(p, "f16"), p.trained))
           /\ Known(p) /\ Quantizable(p) =>
                  Fitted(p) = IF MaxCtxFor(p, "q8_0") >= p.trained
                              THEN Fit("q8_0", p.trained)
                              ELSE IF MaxCtxFor(p, "q4_0") >= p.trained
                              THEN Fit("q4_0", p.trained)
                              ELSE Fit("q4_0", MaxCtxFor(p, "q4_0"))
<1>1. ~Known(p) => Fitted(p) = Fit("f16", p.trained)
  BY DEF Fitted
<1>2. Known(p) /\ ~Quantizable(p) =>
          Fitted(p) = Fit("f16", AtMost(MaxCtxFor(p, "f16"), p.trained))
  BY DEF Fitted
<1>3. ASSUME Known(p), Quantizable(p)
      PROVE  Fitted(p) = IF MaxCtxFor(p, "q8_0") >= p.trained
                         THEN Fit("q8_0", p.trained)
                         ELSE IF MaxCtxFor(p, "q4_0") >= p.trained
                         THEN Fit("q4_0", p.trained)
                         ELSE Fit("q4_0", MaxCtxFor(p, "q4_0"))
  BY <1>3, Q4HoldsMore DEF Fitted
<1> QED
  BY <1>1, <1>2, <1>3

(* In the two measured cases the fitted context is the best of the usable  *)
(* types, cut at the trained context.                                      *)
LEMMA FittedType ==
    ASSUME NEW p \in Profile
    PROVE  /\ Fitted(p).type \in CacheTypes
           /\ Fitted(p).ctx \in Nat
           /\ Fitted(p).ctx <= p.trained
<1>1. p.trained \in Nat
  BY DEF Profile
<1>2. Known(p) => \A type \in CacheTypes : MaxCtxFor(p, type) \in Nat
  BY MaxCtxIsExact
<1> QED
  BY <1>1, <1>2, FittedCases DEF Fit, AtMost, CacheTypes

LEMMA FittedIsBest ==
    ASSUME NEW p \in Profile, Known(p), NEW n \in Nat \ {0}
    PROVE  n <= Fitted(p).ctx
              <=> /\ n <= p.trained
                  /\ Width(p) > 0
                  /\ \E type \in TypesOf(p) : Fits(p, type, n)
<1>1. p.trained \in Nat
  BY DEF Profile
<1>2. \A type \in CacheTypes :
          /\ MaxCtxFor(p, type) \in Nat
          /\ n <= MaxCtxFor(p, type) <=> Width(p) > 0 /\ Fits(p, type, n)
  BY MaxCtxIsExact
<1>3. CASE ~Quantizable(p)
  <2>1. Fitted(p).ctx = AtMost(MaxCtxFor(p, "f16"), p.trained)
    BY <1>3, FittedCases DEF Fit
  <2>2. n <= Fitted(p).ctx <=> n <= p.trained /\ n <= MaxCtxFor(p, "f16")
    BY <1>1, <1>2, <2>1 DEF AtMost, CacheTypes
  <2> QED
    BY <1>2, <1>3, <2>2 DEF TypesOf, CacheTypes
<1>4. CASE Quantizable(p)
  <2>1. MaxCtxFor(p, "q4_0") >= MaxCtxFor(p, "q8_0")
    BY Q4HoldsMore
  <2>2. Fitted(p).ctx = AtMost(MaxCtxFor(p, "q4_0"), p.trained)
    <3>1. Fitted(p).ctx = IF MaxCtxFor(p, "q4_0") >= p.trained
                          THEN p.trained ELSE MaxCtxFor(p, "q4_0")
      BY <1>1, <1>2, <1>4, <2>1, FittedCases DEF Fit, CacheTypes
    <3> QED
      BY <1>1, <1>2, <3>1 DEF AtMost, CacheTypes
  <2>3. n <= Fitted(p).ctx <=> n <= p.trained /\ n <= MaxCtxFor(p, "q4_0")
    BY <1>1, <1>2, <2>2 DEF AtMost, CacheTypes
  <2>4. Fits(p, "q8_0", n) => Fits(p, "q4_0", n)
    BY Q4FitsToo
  <2> QED
    BY <1>2, <1>4, <2>3, <2>4 DEF TypesOf, CacheTypes
<1> QED
  BY <1>3, <1>4

-----------------------------------------------------------------------------
(* The invariant: the result of every sized model is that of               *)
(* compute_sizing, and only a model that is too large is stopped before.   *)
Judged ==
    /\ Sized => sizing = ComputeSizing(profile)
    /\ stage = "rejected" => sizing.ctx < MinServable
    /\ stage = "measure" => ~(sizing.ctx < MinServable)
    /\ stage = "stopped" => TooLarge(profile)

LEMMA SizingType ==
    ASSUME NEW p \in Profile
    PROVE  ComputeSizing(p) \in Result
<1>1. Fitted(p).type \in CacheTypes /\ Fitted(p).ctx \in Nat
  BY FittedType
<1>2. Floored(p, Fitted(p).ctx) \in Nat \ {0}
  <2>1. CASE ~Known(p)
    BY <2>1, FittedCases DEF Fit, Floored, Profile
  <2>2. CASE Known(p)
    BY <1>1, <2>2, SizingAssumption DEF Floored, SizingAssumption
  <2> QED
    BY <2>1, <2>2
<1>3. Verdict(p, Fitted(p).ctx) \in Rejections
  BY DEF Verdict, Rejections
<1> QED
  BY <1>1, <1>2, <1>3 DEF ComputeSizing, Result

(* Every variable has its type; in particular every context is positive.   *)
THEOREM TypeCorrect == Spec => []TypeOK
<1>1. Init => TypeOK
  BY DEF Init, TypeOK, NoSizing, Result, CacheTypes, Rejections
<1>2. TypeOK /\ [Next]_vars => TypeOK'
  <2> SUFFICES ASSUME TypeOK, [Next]_vars PROVE TypeOK'
    OBVIOUS
  <2>1. CASE Size
    BY <2>1, SizingType, SizingAssumption DEF Size, TypeOK, SizingAssumption
  <2>2. CASE PreflightPasses \/ PreflightRefuses \/ Screen \/ UNCHANGED vars
    BY <2>2 DEF PreflightPasses, PreflightRefuses, Screen, TypeOK, vars
  <2> QED
    BY <2>1, <2>2 DEF Next
<1> QED
  BY <1>1, <1>2, PTL DEF Spec

LEMMA JudgedInvariant == Spec => []Judged
<1>1. Init => Judged
  BY DEF Init, Judged, Sized
<1>2. Judged /\ [Next]_vars => Judged'
  <2> SUFFICES ASSUME Judged, [Next]_vars PROVE Judged'
    OBVIOUS
  <2> USE DEF Judged, Sized
  <2>1. CASE PreflightPasses
    BY <2>1 DEF PreflightPasses
  <2>2. CASE PreflightRefuses
    BY <2>2 DEF PreflightRefuses
  <2>3. CASE Size
    BY <2>3 DEF Size
  <2>4. CASE Screen
    BY <2>4 DEF Screen
  <2>5. CASE UNCHANGED vars
    BY <2>5 DEF vars
  <2> QED
    BY <2>1, <2>2, <2>3, <2>4, <2>5 DEF Next
<1> QED
  BY <1>1, <1>2, PTL DEF Spec

LEMMA ProfileOfModel == TypeOK => profile \in Profile
BY SizingAssumption DEF TypeOK, SizingAssumption

-----------------------------------------------------------------------------
(* The verdict of sizing is the one a search over all cache types would    *)
(* give.                                                                   *)
THEOREM VerdictIsCorrect == Spec => []VerdictIsRight
<1>1. TypeOK /\ Judged => VerdictIsRight
  <2> SUFFICES ASSUME TypeOK, Judged, Sized PROVE VerdictIsRight
    BY DEF VerdictIsRight
  <2> DEFINE p == profile
             ctx == Fitted(p).ctx
  <2>1. p \in Profile /\ p.trained \in Nat
    BY ProfileOfModel DEF Profile
  <2>2. sizing.rejection = Verdict(p, ctx)
    BY DEF Judged, ComputeSizing
  <2>3. ctx \in Nat /\ ctx <= p.trained
    BY <2>1, FittedType
  <2>4. ~Known(p) => ctx = p.trained
    BY <2>1, FittedCases DEF Fit
  <2>5. Known(p) => (MinServable <= ctx <=> Servable(p))
    BY <2>1, FittedIsBest, SizingAssumption DEF Servable, SizingAssumption
  <2>6. MinServable <= ctx <=> Servable(p)
    BY <2>1, <2>4, <2>5 DEF Servable
  <2> HIDE DEF p, ctx
  <2>7. Verdict(p, ctx) = "none" <=> MinServable <= ctx
    BY <2>3, SizingAssumption DEF Verdict, SizingAssumption
  <2>8. Verdict(p, ctx) = "context_too_small" <=> p.trained < MinServable
    BY <2>1, <2>3, SizingAssumption DEF Verdict, SizingAssumption
  <2> QED
    BY <2>2, <2>6, <2>7, <2>8 DEF VerdictIsRight, Viable, p
<1> QED
  BY <1>1, TypeCorrect, JudgedInvariant, PTL

(* What a viable sizing looks like.                                        *)
LEMMA ViableSizing ==
    ASSUME TypeOK, Judged, Sized, Viable
    PROVE  /\ profile \in Profile
           /\ sizing.ctx = Fitted(profile).ctx
           /\ sizing.type = Fitted(profile).type
           /\ sizing.ctx \in Nat
           /\ sizing.ctx >= MinServable
           /\ sizing.ctx <= profile.trained
<1> DEFINE ctx == Fitted(profile).ctx
<1>1. profile \in Profile
  BY ProfileOfModel
<1>2. ctx \in Nat /\ ctx <= profile.trained
  BY <1>1, FittedType
<1>3. /\ sizing.ctx = Floored(profile, ctx)
      /\ sizing.type = Fitted(profile).type
      /\ sizing.rejection = Verdict(profile, ctx)
  BY DEF Judged, ComputeSizing
<1> HIDE DEF ctx
<1>4. ctx >= MinServable
  BY <1>3 DEF Verdict, Viable
<1>5. Floored(profile, ctx) = ctx
  BY <1>2, <1>4, SizingAssumption DEF Floored, SizingAssumption
<1> QED
  BY <1>1, <1>2, <1>3, <1>4, <1>5 DEF ctx

(* A viable sizing stays within the memory budget and the training.        *)
THEOREM BudgetIsKept == Spec => []FitsBudget
<1>1. TypeOK /\ Judged => FitsBudget
  <2> SUFFICES ASSUME TypeOK, Judged, Sized, Viable, Known(profile)
               PROVE  Fits(profile, sizing.type, sizing.ctx)
    BY ViableSizing DEF FitsBudget
  <2> DEFINE p == profile
             n == sizing.ctx
             type == sizing.type
  <2>1. /\ p \in Profile /\ n \in Nat \ {0} /\ p.trained \in Nat
        /\ n = Fitted(p).ctx /\ type = Fitted(p).type
    BY ViableSizing, SizingAssumption DEF SizingAssumption, Profile
  <2>2. \A t \in CacheTypes : MaxCtxFor(p, t) \in Nat
    BY <2>1, MaxCtxIsExact
  <2>3. type \in CacheTypes /\ n <= MaxCtxFor(p, type)
    BY <2>1, <2>2, FittedCases DEF Fit, AtMost, CacheTypes
  <2> QED
    BY <2>1, <2>3, MaxCtxIsExact
<1> QED
  BY <1>1, TypeCorrect, JudgedInvariant, PTL

(* No cache type would hold one more token, and precision is given up only *)
(* where it buys context.                                                  *)
THEOREM SizingIsBest == Spec => []BestFit
<1>1. TypeOK /\ Judged => BestFit
  <2> SUFFICES ASSUME TypeOK, Judged, Sized, Viable, Known(profile)
               PROVE  /\ sizing.ctx < profile.trained =>
                             \A type \in TypesOf(profile) :
                                 ~Fits(profile, type, sizing.ctx + 1)
                      /\ sizing.type = "q4_0" => ~Fits(profile, "q8_0", sizing.ctx)
    BY DEF BestFit
  <2> DEFINE p == profile
             n == sizing.ctx
  <2>1. /\ p \in Profile /\ n \in Nat /\ n >= 2 /\ p.trained \in Nat
        /\ n = Fitted(p).ctx /\ sizing.type = Fitted(p).type
    BY ViableSizing, SizingAssumption DEF SizingAssumption, Profile
  <2>2. \A t \in CacheTypes : MaxCtxFor(p, t) \in Nat
    BY <2>1, MaxCtxIsExact
  <2>3. Width(p) > 0
    BY <2>1, FittedIsBest
  <2>4. ASSUME n < p.trained, NEW type \in TypesOf(p)
        PROVE  ~Fits(p, type, n + 1)
    <3>1. n + 1 \in Nat \ {0} /\ n + 1 <= p.trained /\ ~(n + 1 <= Fitted(p).ctx)
      BY <2>1, <2>4
    <3> QED
      BY <2>1, <2>3, <3>1, FittedIsBest
  <2>5. ASSUME sizing.type = "q4_0" PROVE ~Fits(p, "q8_0", n)
    <3>0. Fitted(p).type = "q4_0"
      BY <2>1, <2>5
    <3>1. Quantizable(p)
      <4>1. CASE ~Quantizable(p)
        <5>1. Fitted(p) = Fit("f16", AtMost(MaxCtxFor(p, "f16"), p.trained))
          BY <2>1, <4>1, FittedCases
        <5> QED
          BY <3>0, <5>1 DEF Fit
      <4> QED
        BY <4>1
    <3>2. MaxCtxFor(p, "q8_0") < p.trained
      <4>1. CASE MaxCtxFor(p, "q8_0") >= p.trained
        <5>1. Fitted(p) = Fit("q8_0", p.trained)
          BY <2>1, <3>1, <4>1, FittedCases
        <5> QED
          BY <3>0, <5>1 DEF Fit
      <4> QED
        BY <2>1, <2>2, <4>1 DEF CacheTypes
    <3>3. CASE n = p.trained
      BY <2>1, <2>2, <2>3, <3>2, <3>3, MaxCtxIsExact DEF CacheTypes
    <3>4. CASE n # p.trained
      <4>1. n = MaxCtxFor(p, "q4_0")
        BY <2>1, <2>2, <3>1, <3>2, <3>4, FittedCases DEF Fit, CacheTypes
      <4> QED
        BY <2>1, <4>1, Q4HoldsStrictlyMore
    <3> QED
      BY <3>3, <3>4
  <2> QED
    BY <2>4, <2>5
<1> QED
  BY <1>1, TypeCorrect, JudgedInvariant, PTL

(* A download refused by the preflight check would have been rejected.     *)
THEOREM RefusalIsCorrect == Spec => []RefusalIsRight
<1>1. TypeOK /\ Judged => RefusalIsRight
  <2> SUFFICES ASSUME TypeOK, Judged, stage = "stopped"
               PROVE  ~Servable(profile)
    BY DEF RefusalIsRight
  <2> DEFINE p == profile
  <2>1. p \in Profile /\ Known(p) /\ p.size > p.total
    BY ProfileOfModel DEF Judged, TooLarge
  <2>2. /\ Budget(p) \in Nat /\ Weights(p) \in Nat /\ Weights(p) > Budget(p)
    BY <2>1 DEF Profile, Known, Budget, Weights
  <2>3. ASSUME NEW type \in TypesOf(p) PROVE ~Fits(p, type, MinServable)
    <3>1. type \in CacheTypes
      BY <2>3 DEF TypesOf, CacheTypes
    <3>2. TokenCost(p, type) \in Nat
      BY <2>1, <3>1, CostType
    <3>3. MinServable * TokenCost(p, type) \in Nat
      BY <3>2, SizingAssumption DEF SizingAssumption
    <3> QED
      BY <2>2, <3>3 DEF Fits
  <2> QED
    BY <2>1, <2>3 DEF Servable
<1> QED
  BY <1>1, TypeCorrect, JudgedInvariant, PTL

(* The two layers that judge the context agree.                            *)
THEOREM LayersAgree == Spec => []ScreenAgrees
<1>1. TypeOK /\ Judged => ScreenAgrees
  <2> SUFFICES ASSUME TypeOK, Judged, stage \in {"rejected", "measure"}
               PROVE  Viable <=> ~(sizing.ctx < MinServable)
    BY DEF ScreenAgrees, Judged
  <2>1. Sized /\ sizing.ctx \in Nat
    BY DEF Sized, TypeOK, Result
  <2>2. Viable => ~(sizing.ctx < MinServable)
    BY <2>1, ViableSizing, SizingAssumption DEF SizingAssumption
  <2>3. ~Viable => sizing.ctx < MinServable
    <3> SUFFICES ASSUME ~Viable PROVE sizing.ctx < MinServable
      OBVIOUS
    <3>1. Fitted(profile).ctx \in Nat
      BY ProfileOfModel, FittedType
    <3>2. /\ sizing.ctx = Floored(profile, Fitted(profile).ctx)
          /\ sizing.rejection = Verdict(profile, Fitted(profile).ctx)
      BY <2>1 DEF Judged, ComputeSizing
    <3> QED
      BY <3>1, <3>2, SizingAssumption
         DEF Viable, Verdict, Floored, SizingAssumption
  <2> QED
    BY <2>2, <2>3
<1> QED
  BY <1>1, TypeCorrect, JudgedInvariant, PTL

(* Preflight, sizing and screen judge one model from different numbers, and *)
(* never contradict each other.                                             *)
THEOREM ThreeJudgesAgree == Spec => []NeighboursAgree
<1>1. RefusalIsRight /\ ScreenAgrees => NeighboursAgree
  BY DEF NeighboursAgree
<1> QED
  BY <1>1, RefusalIsCorrect, LayersAgree, PTL

-----------------------------------------------------------------------------
(***************************************************************************)
(* What is decided of a model is kept in files that several processes      *)
(* read, change and write whole: proofs about RecordStore for any files,   *)
(* models and writers and any number of operations, kills and slips.       *)
(***************************************************************************)
USE StoreAssumption DEF StoreAssumption

(* As long as the operations come one after the other: one writer at most  *)
(* is busy, and it never holds open a file that it could not parse.        *)
Touching(w) == pc[w] \in {"open", "write"}

SoloInv ==
    ~overlap => \A v, w \in Writers : pc[v] # "idle" /\ pc[w] # "idle" => v = w

HandInv ==
    ~overlap => \A w \in Writers :
        Touching(w) /\ File(w) \notin Tolerant => text[File(w)] # "half"

(* If all of them came to their end as well, a file is empty only between  *)
(* open() and the writing of the text, and "half" only after a slip.       *)
Clear == ~overlap /\ ~failed

TextInv ==
    Clear =>
      /\ \A f \in FileSet : text[f] = "empty" =>
            \E w \in Writers : pc[w] = "write" /\ File(w) = f
      /\ \A f \in FileSet : text[f] = "half" => torn > 0
      /\ \A w \in Writers : pc[w] = "write" => text[File(w)] = "empty"

(* And a file says what the completed writes say, and so does the copy of  *)
(* the writer that is about to replace it.                                 *)
Trusted(f) == f \in Tolerant => torn = 0

TruthInv ==
    Clear =>
      /\ \A f \in FileSet : Trusted(f) => rec[f] = truth[f]
      /\ \A w \in Writers : Touching(w) /\ Trusted(File(w)) => copy[w] = rec[File(w)]

(* All the files have the same records, but for the operation in progress: *)
(* it has reached the files in Done and none of the others.                *)
Done(w) == {Files[i] : i \in 1 .. at[w] - 1}
Changed(w, r) == [r EXCEPT ![model[w]] = NewRecord(w)]

ReasonInv ==
    Clear /\ torn = 0 =>
      /\ Busy = {} => \A f, g \in FileSet : rec[f] = rec[g]
      /\ \A w \in Busy : \E r \in Records : \A f \in FileSet :
            rec[f] = IF f \in Done(w) THEN Changed(w, r) ELSE r

(* An idle writer will begin with the first file.                          *)
StartInv == \A w \in Writers : pc[w] = "idle" => at[w] = 1

StoreInv == StartInv /\ SoloInv /\ HandInv /\ TextInv /\ TruthInv /\ ReasonInv

LEMMA SomeFiles == Len(Files) \in Nat \ {0}
<1>1. Files \in Seq(STRING) /\ Files # <<>>
  OBVIOUS
<1> QED
  BY <1>1, EmptySeq

LEMMA FileInSet == ASSUME StoreTypeOK, NEW w \in Writers PROVE File(w) \in FileSet
  BY DEF StoreTypeOK, File, FileSet

LEMMA PlaceTyped ==
    ASSUME StoreTypeOK, NEW w \in Writers,
           Advance(w) \/ at' = at \/ at' = [at EXCEPT ![w] = 1]
    PROVE  at' \in [Writers -> 1 .. Len(Files)]
<1>1. Len(Files) \in Nat \ {0} /\ at \in [Writers -> 1 .. Len(Files)]
  BY SomeFiles DEF StoreTypeOK
<1> QED
  BY <1>1 DEF Advance

LEMMA StoreTypeStep == StoreTypeOK /\ [StoreNext]_storeVars => StoreTypeOK'
<1> SUFFICES ASSUME StoreTypeOK, [StoreNext]_storeVars PROVE StoreTypeOK'
  BY DEF StoreTypeOK
<1>0. Len(Files) \in Nat \ {0} /\ MaxOps \in Nat /\ MaxTorn \in Nat /\ StoreTypeOK
  BY SomeFiles
<1> USE <1>0 DEF StoreTypeOK, Records, NoRecords, historyVars, writerVars
<1>1. ASSUME NEW w \in Writers, NEW o \in {"put", "drop"}, NEW m \in Models, Begin(w, o,
             m)
      PROVE  StoreTypeOK'
  BY <1>1 DEF Begin, Busy
<1>2. ASSUME NEW w \in Writers, Read(w) PROVE StoreTypeOK'
  <2>1. Seen(File(w)) \in Records
    BY FileInSet DEF Seen
  <2>2. copy' \in [Writers -> Records]
    BY <1>2, <2>1 DEF Read
  <2>3. /\ at' \in [Writers -> 1 .. Len(Files)]
        /\ pc' \in [Writers -> {"idle", "read", "open", "write"}]
    BY <1>2, PlaceTyped DEF Read, Advance
  <2>4. truth' \in [FileSet -> Records]
    <3>1. truth[File(w)] \in Records
      BY FileInSet
    <3> QED
      <4>1. [truth EXCEPT ![File(w)][model[w]] = 0] \in [FileSet -> Records]
        <5>1. [truth[File(w)] EXCEPT ![model[w]] = 0] \in Records
          BY <3>1
        <5> QED
          BY <5>1
      <4> QED
        BY <1>2, <4>1 DEF Read
  <2> QED
    BY <1>2, <2>2, <2>3, <2>4 DEF Read
<1>3. ASSUME NEW w \in Writers, ReadRaises(w) \/ Open(w) PROVE StoreTypeOK'
  <2>1. at' \in [Writers -> 1 .. Len(Files)]
    BY <1>3, PlaceTyped DEF ReadRaises, Open, GiveUp
  <2> QED
    BY <1>3, <2>1 DEF ReadRaises, Open, GiveUp
<1>4. ASSUME NEW w \in Writers, Write(w) PROVE StoreTypeOK'
  <2>1. NewRecord(w) \in 0 .. MaxOps
    BY DEF NewRecord
  <2>2. rec' \in [FileSet -> Records]
    BY <1>4, <2>1, FileInSet DEF Write
  <2>3. /\ at' \in [Writers -> 1 .. Len(Files)]
        /\ pc' \in [Writers -> {"idle", "read", "open", "write"}]
    BY <1>4, PlaceTyped DEF Write, Advance
  <2>4. truth' \in [FileSet -> Records]
    <3>1. truth[File(w)] \in Records
      BY FileInSet
    <3> QED
      BY <1>4, <2>1, <3>1, FileInSet DEF Write
  <2> QED
    BY <1>4, <2>2, <2>3, <2>4 DEF Write
<1>5. ASSUME NEW w \in Writers, WriteFails(w) \/ Killed(w) PROVE StoreTypeOK'
  <2>1. at' \in [Writers -> 1 .. Len(Files)]
    BY <1>5, PlaceTyped DEF WriteFails, Killed, GiveUp
  <2>2. torn' \in 0 .. MaxTorn
    BY <1>5 DEF WriteFails, Killed
  <2>3. rec' \in [FileSet -> Records] /\ text' \in [FileSet -> {"whole", "empty", "half"}]
    <3>1. CASE UNCHANGED rec /\ text' \in {text, [text EXCEPT ![File(w)] = "half"]}
      BY <3>1
    <3>2. ASSUME NEW r \in Records, rec' = [rec EXCEPT ![File(w)] = r],
                 text' = [text EXCEPT ![File(w)] = "whole"]
          PROVE  rec' \in [FileSet -> Records] /\ text' \in [FileSet -> {"whole", "empty", "half"}]
      BY <3>2
    <3>3. ASSUME NEW there \in SUBSET Models
          PROVE  [m \in Models |-> IF m \notin there THEN 0
                                   ELSE IF m = model[w] THEN NewRecord(w)
                                   ELSE copy[w][m]] \in Records
      BY DEF NewRecord
    <3> QED
      BY <1>5, <3>1, <3>2, <3>3 DEF WriteFails, Killed
  <2> QED
    BY <1>5, <2>1, <2>2, <2>3 DEF WriteFails, Killed, GiveUp
<1>6. ASSUME NEW f \in FileSet, EditByHand(f) PROVE StoreTypeOK'
  <2>1. torn' \in 0 .. MaxTorn
    BY <1>6 DEF EditByHand
  <2>2. \E t \in {"whole", "empty", "half"} : text' = [text EXCEPT ![f] = t]
    BY <1>6 DEF EditByHand
  <2>3. text' \in [FileSet -> {"whole", "empty", "half"}]
    BY <2>2
  <2> QED
    BY <1>6, <2>1, <2>3 DEF EditByHand
<1>7. CASE UNCHANGED storeVars
  BY <1>7 DEF storeVars
<1> QED
  BY <1>1, <1>2, <1>3, <1>4, <1>5, <1>6, <1>7 DEF StoreNext

(* Type correctness, for any files, models and writers.                    *)
THEOREM StoreTyped == StoreSpec => []StoreTypeOK
<1>1. StoreInit => StoreTypeOK
  <2> SUFFICES ASSUME StoreInit PROVE StoreTypeOK
    BY DEF StoreTypeOK
  <2>1. Len(Files) \in Nat \ {0} /\ MaxOps \in Nat /\ MaxTorn \in Nat
    BY SomeFiles
  <2>2. rec \in [FileSet -> Records] /\ copy \in [Writers -> Records]
    BY <2>1 DEF StoreInit, Records, NoRecords
  <2> QED
    <3>1. at \in [Writers -> 1 .. Len(Files)] /\ model \in [Writers -> Models]
      BY <2>1 DEF StoreInit
    <3>2. number \in [Writers -> 0 .. MaxOps] /\ ops \in 0 .. MaxOps /\ torn \in 0 .. MaxTorn
      BY <2>1 DEF StoreInit
    <3>3. truth \in [FileSet -> Records]
      BY <2>2 DEF StoreInit
    <3> QED
      BY <2>2, <3>1, <3>2, <3>3 DEF StoreInit, StoreTypeOK
<1> QED
  BY <1>1, StoreTypeStep, PTL DEF StoreSpec

-----------------------------------------------------------------------------
(* One lemma for each part of the invariant.                               *)

LEMMA SoloStep == StoreTypeOK /\ SoloInv /\ [StoreNext]_storeVars => SoloInv'
<1> SUFFICES ASSUME StoreTypeOK, SoloInv, [StoreNext]_storeVars PROVE SoloInv'
  OBVIOUS
<1> USE DEF StoreTypeOK, SoloInv, historyVars, writerVars
<1>1. ASSUME NEW w \in Writers, NEW o \in {"put", "drop"}, NEW m \in Models, Begin(w, o,
             m)
      PROVE  SoloInv'
  BY <1>1 DEF Begin, Busy
<1>2. ASSUME NEW w \in Writers,
             \/ Read(w) \/ ReadRaises(w) \/ Open(w) \/ Write(w)
             \/ WriteFails(w) \/ Killed(w)
      PROVE  SoloInv'
  <2>1. overlap' = overlap /\ \A v \in Writers : pc'[v] # "idle" => pc[v] # "idle"
    BY <1>2 DEF Read, ReadRaises, Open, Write, WriteFails, Killed, Advance, GiveUp
  <2> QED
    BY <2>1
<1>3. ASSUME NEW f \in FileSet, EditByHand(f) PROVE SoloInv'
  BY <1>3 DEF EditByHand
<1>4. CASE UNCHANGED storeVars
  BY <1>4 DEF storeVars
<1> QED
  BY <1>1, <1>2, <1>3, <1>4 DEF StoreNext

LEMMA HandStep == StoreTypeOK /\ SoloInv /\ HandInv /\ [StoreNext]_storeVars => HandInv'
<1> SUFFICES ASSUME StoreTypeOK, SoloInv, HandInv, [StoreNext]_storeVars, ~overlap',
                    NEW v \in Writers, Touching(v)', File(v)' \notin Tolerant
             PROVE  text'[File(v)'] # "half"
  BY DEF HandInv
<1> USE DEF StoreTypeOK, SoloInv, HandInv, Touching, File, historyVars, writerVars
<1>1. ASSUME NEW w \in Writers, NEW o \in {"put", "drop"}, NEW m \in Models, Begin(w, o,
             m)
      PROVE  text'[File(v)'] # "half"
  BY <1>1 DEF Begin, Busy
<1>2. ASSUME NEW w \in Writers, Read(w) PROVE text'[File(v)'] # "half"
  BY <1>2 DEF Read, Advance, Readable
<1>3. ASSUME NEW w \in Writers, ReadRaises(w) \/ Killed(w) PROVE text'[File(v)'] # "half"
  BY <1>3 DEF ReadRaises, Killed, GiveUp
<1>4. ASSUME NEW w \in Writers, Open(w) PROVE text'[File(v)'] # "half"
  BY <1>4, FileInSet DEF Open
<1>5. ASSUME NEW w \in Writers, Write(w) \/ WriteFails(w) PROVE text'[File(v)'] # "half"
  <2>1. pc'[w] \in {"read", "idle"} /\ \A u \in Writers \ {w} : pc'[u] = pc[u]
    BY <1>5 DEF Write, WriteFails, Advance, GiveUp
  <2>2. v # w /\ pc[v] # "idle" /\ pc[w] # "idle" /\ ~overlap
    BY <1>5, <2>1 DEF Write, WriteFails
  <2> QED
    BY <2>2
<1>6. ASSUME NEW f \in FileSet, EditByHand(f) PROVE text'[File(v)'] # "half"
  BY <1>6 DEF EditByHand, Busy
<1>7. CASE UNCHANGED storeVars
  BY <1>7 DEF storeVars
<1> QED
  BY <1>1, <1>2, <1>3, <1>4, <1>5, <1>6, <1>7 DEF StoreNext

LEMMA StartStep == StoreTypeOK /\ StartInv /\ [StoreNext]_storeVars => StartInv'
<1> SUFFICES ASSUME StoreTypeOK, StartInv, [StoreNext]_storeVars, NEW v \in Writers,
                    pc'[v] = "idle"
             PROVE  at'[v] = 1
  BY DEF StartInv
<1> USE DEF StoreTypeOK, StartInv, historyVars, writerVars
<1>1. ASSUME NEW w \in Writers, NEW o \in {"put", "drop"}, NEW m \in Models, Begin(w, o,
             m)
      PROVE  at'[v] = 1
  BY <1>1 DEF Begin
<1>2. ASSUME NEW w \in Writers,
             \/ Read(w) \/ ReadRaises(w) \/ Open(w) \/ Write(w)
             \/ WriteFails(w) \/ Killed(w)
      PROVE  at'[v] = 1
  BY <1>2 DEF Read, ReadRaises, Open, Write, WriteFails, Killed, Advance, GiveUp
<1>3. ASSUME NEW f \in FileSet, EditByHand(f) PROVE at'[v] = 1
  BY <1>3 DEF EditByHand
<1>4. CASE UNCHANGED storeVars
  BY <1>4 DEF storeVars
<1> QED
  BY <1>1, <1>2, <1>3, <1>4 DEF StoreNext

LEMMA TextStep == StoreTypeOK /\ SoloInv /\ TextInv /\ [StoreNext]_storeVars => TextInv'
<1> SUFFICES ASSUME StoreTypeOK, SoloInv, TextInv, [StoreNext]_storeVars, Clear'
             PROVE TextInv'
  BY DEF TextInv
<1>0. /\ \A w \in Writers : File(w) \in FileSet
      /\ text \in [FileSet -> {"whole", "empty", "half"}]
      /\ pc \in [Writers -> {"idle", "read", "open", "write"}]
      /\ torn \in Nat
  BY FileInSet DEF StoreTypeOK
<1> USE <1>0 DEF TextInv, SoloInv, Clear, historyVars, writerVars
<1>1. ASSUME NEW w \in Writers, NEW o \in {"put", "drop"}, NEW m \in Models, Begin(w, o,
             m)
      PROVE  TextInv'
  BY <1>1 DEF Begin, Busy, File
<1>2. ASSUME NEW w \in Writers, Read(w) PROVE TextInv'
  <2>1. Clear /\ \A v \in Writers : pc[v] # "write" /\ pc'[v] # "write"
    BY <1>2 DEF Read, Advance
  <2> QED
    BY <1>2, <2>1 DEF Read
<1>3. ASSUME NEW w \in Writers, Open(w) PROVE TextInv'
  <2>1. Clear /\ \A v \in Writers \ {w} : pc[v] = "idle" /\ pc'[v] = "idle"
    BY <1>3 DEF Open
  <2>2. pc'[w] = "write" /\ File(w)' = File(w) /\ text' = [text EXCEPT ![File(w)] = "empty"]
    BY <1>3 DEF Open, File
  <2>3. \A f \in FileSet : text[f] # "empty"
    BY <1>3, <2>1 DEF Open
  <2> QED
    BY <1>3, <2>1, <2>2, <2>3 DEF Open
<1>4. ASSUME NEW w \in Writers, Write(w) PROVE TextInv'
  <2>1. Clear /\ \A v \in Writers : pc[v] = "write" => v = w
    BY <1>4 DEF Write
  <2>2. \A v \in Writers : pc'[v] # "write"
    BY <1>4, <2>1 DEF Write, Advance
  <2> QED
    BY <1>4, <2>1, <2>2 DEF Write
<1>5. ASSUME NEW w \in Writers, ReadRaises(w) \/ WriteFails(w) \/ Killed(w) PROVE FALSE
  BY <1>5 DEF ReadRaises, WriteFails, Killed, GiveUp
<1>6. ASSUME NEW f \in FileSet, EditByHand(f) PROVE TextInv'
  BY <1>6 DEF EditByHand, Busy
<1>7. CASE UNCHANGED storeVars
  BY <1>7 DEF storeVars, File
<1> QED
  BY <1>1, <1>2, <1>3, <1>4, <1>5, <1>6, <1>7 DEF StoreNext

LEMMA TruthStep ==
    StoreTypeOK /\ SoloInv /\ TextInv /\ TruthInv /\ [StoreNext]_storeVars => TruthInv'
<1> SUFFICES ASSUME StoreTypeOK, SoloInv, TextInv, TruthInv, [StoreNext]_storeVars, Clear'
             PROVE TruthInv'
  BY DEF TruthInv
<1>0. /\ \A w \in Writers : File(w) \in FileSet
      /\ rec \in [FileSet -> Records] /\ truth \in [FileSet -> Records]
      /\ copy \in [Writers -> Records]
      /\ text \in [FileSet -> {"whole", "empty", "half"}]
      /\ pc \in [Writers -> {"idle", "read", "open", "write"}]
      /\ torn \in Nat
  BY FileInSet DEF StoreTypeOK
<1> USE <1>0 DEF TruthInv, SoloInv, Clear, Touching, Trusted, historyVars, writerVars
<1>1. ASSUME NEW w \in Writers, NEW o \in {"put", "drop"}, NEW m \in Models, Begin(w, o,
             m)
      PROVE  TruthInv'
  BY <1>1 DEF Begin, Busy, File
<1>2. ASSUME NEW w \in Writers, Read(w) PROVE TruthInv'
  <2>1. Clear /\ \A v \in Writers : pc[v] # "idle" => v = w
    BY <1>2 DEF Read
  <2>2. Trusted(File(w)) => Seen(File(w)) = rec[File(w)]
    BY <1>2, <2>1 DEF Read, Readable, Seen, TextInv
  <2>3. CASE op[w] = "drop" /\ Seen(File(w))[model[w]] = 0
    <3>1. Trusted(File(w)) => truth[File(w)][model[w]] = 0
      BY <2>1, <2>2, <2>3
    <3>2. truth' = [truth EXCEPT ![File(w)][model[w]] = 0]
      BY <1>2, <2>3 DEF Read
    <3>3. \A f \in FileSet : Trusted(f) => truth'[f] = truth[f]
      BY <3>1, <3>2 DEF Records
    <3>4. \A v \in Writers : ~Touching(v)'
      BY <1>2, <2>1, <2>3 DEF Read, Advance
    <3> QED
      BY <1>2, <2>1, <3>3, <3>4 DEF Read
  <2>4. CASE ~(op[w] = "drop" /\ Seen(File(w))[model[w]] = 0)
    <3>1. copy'[w] = Seen(File(w)) /\ truth' = truth /\ rec' = rec /\ torn' = torn
      BY <1>2, <2>4 DEF Read
    <3>2. \A v \in Writers : Touching(v)' => v = w
      BY <1>2, <2>1, <2>4 DEF Read
    <3>3. File(w)' = File(w)
      BY <1>2, <2>4 DEF Read, File
    <3> QED
      BY <2>1, <2>2, <3>1, <3>2, <3>3
  <2> QED
    BY <2>3, <2>4
<1>3. ASSUME NEW w \in Writers, Open(w) PROVE TruthInv'
  BY <1>3 DEF Open, File
<1>4. ASSUME NEW w \in Writers, Write(w) PROVE TruthInv'
  <2>1. Clear /\ \A v \in Writers : pc[v] # "idle" => v = w
    BY <1>4 DEF Write
  <2>2. \A v \in Writers : ~Touching(v)'
    BY <1>4, <2>1 DEF Write, Advance
  <2>3. Trusted(File(w)) => rec'[File(w)] = truth'[File(w)]
    BY <1>4, <2>1 DEF Write
  <2>4. \A f \in FileSet \ {File(w)} : rec'[f] = rec[f] /\ truth'[f] = truth[f]
    BY <1>4 DEF Write
  <2> QED
    BY <1>4, <2>1, <2>2, <2>3, <2>4 DEF Write
<1>5. ASSUME NEW w \in Writers, ReadRaises(w) \/ WriteFails(w) \/ Killed(w) PROVE FALSE
  BY <1>5 DEF ReadRaises, WriteFails, Killed, GiveUp
<1>6. ASSUME NEW f \in FileSet, EditByHand(f) PROVE TruthInv'
  BY <1>6 DEF EditByHand, Busy, File
<1>7. CASE UNCHANGED storeVars
  BY <1>7 DEF storeVars, File
<1> QED
  BY <1>1, <1>2, <1>3, <1>4, <1>5, <1>6, <1>7 DEF StoreNext

(* Putting a record a second time, or dropping one that is not there,      *)
(* changes nothing.                                                        *)
LEMMA PutOnTop ==
    ASSUME StoreTypeOK, NEW w \in Writers, NEW r \in Records
    PROVE  /\ Changed(w, r) \in [Models -> Int]
           /\ [Changed(w, r) EXCEPT ![model[w]] = NewRecord(w)] = Changed(w, r)
           /\ op[w] = "drop" /\ r[model[w]] = 0 => Changed(w, r) = r
<1>1. r \in [Models -> Int] /\ model[w] \in Models /\ NewRecord(w) \in Int
  BY DEF StoreTypeOK, Records, NewRecord
<1> QED
  BY <1>1 DEF Changed, NewRecord

(* The next file is added to what is done; the last one makes it all.      *)
LEMMA DoneGrows ==
    ASSUME StoreTypeOK, NEW w \in Writers, Advance(w)
    PROVE  \/ Done(w)' = Done(w) \cup {File(w)} /\ pc'[w] = "read"
           \/ FileSet = Done(w) \cup {File(w)} /\ pc'[w] = "idle"
<1>1. Len(Files) \in Nat \ {0} /\ at \in [Writers -> 1 .. Len(Files)]
      /\ pc \in [Writers -> {"idle", "read", "open", "write"}]
  BY SomeFiles DEF StoreTypeOK
<1>2. CASE at[w] < Len(Files)
  <2>1. at'[w] = at[w] + 1 /\ pc'[w] = "read"
    BY <1>1, <1>2 DEF Advance
  <2>2. 1 .. at[w] = (1 .. at[w] - 1) \cup {at[w]} /\ at'[w] - 1 = at[w]
    BY <1>1, <2>1
  <2> QED
    BY <2>1, <2>2 DEF Done, File
<1>3. CASE ~(at[w] < Len(Files))
  <2>1. 1 .. Len(Files) = (1 .. at[w] - 1) \cup {at[w]}
    BY <1>1, <1>3
  <2>2. pc'[w] = "idle"
    BY <1>1, <1>3 DEF Advance
  <2> QED
    BY <2>1, <2>2 DEF Done, File, FileSet
<1> QED
  BY <1>2, <1>3

LEMMA ReasonStep ==
    /\ StoreTypeOK /\ StartInv /\ SoloInv /\ TextInv /\ TruthInv /\ ReasonInv
    /\ [StoreNext]_storeVars
    => ReasonInv'
<1> SUFFICES ASSUME StoreTypeOK, StartInv, SoloInv, TextInv, TruthInv, ReasonInv,
                    [StoreNext]_storeVars,
                    Clear', torn' = 0
             PROVE  ReasonInv'
  BY DEF ReasonInv
<1>0. /\ \A w \in Writers : File(w) \in FileSet
      /\ rec \in [FileSet -> Records]
      /\ text \in [FileSet -> {"whole", "empty", "half"}]
      /\ pc \in [Writers -> {"idle", "read", "open", "write"}]
      /\ torn \in Nat
  BY FileInSet DEF StoreTypeOK
<1> USE <1>0 DEF Clear, Busy
<1>1. ASSUME NEW w \in Writers, NEW o \in {"put", "drop"}, NEW m \in Models, Begin(w, o,
             m)
      PROVE  ReasonInv'
  <2>1. Busy = {} /\ ~overlap /\ ~failed /\ torn = 0 /\ rec' = rec /\ at' = at
    BY <1>1 DEF Begin, historyVars
  <2>2. Busy' = {w} /\ Done(w)' = {}
    <3>1. at'[w] = 1
      BY <1>1, <2>1 DEF Begin, StartInv
    <3> QED
      BY <1>1, <2>1, <3>1 DEF Begin, Done
  <2>3. \A f, g \in FileSet : rec[f] = rec[g]
    BY <2>1 DEF ReasonInv
  <2>4. \E r \in Records : \A f \in FileSet : rec[f] = r
    BY <2>3
  <2> QED
    BY <2>1, <2>2, <2>4 DEF ReasonInv
<1>2. ASSUME NEW w \in Writers, Read(w) \/ Open(w) \/ Write(w) PROVE ReasonInv'
  <2>1. /\ Clear /\ torn = 0 /\ pc[w] # "idle"
        /\ \A v \in Writers \ {w} : pc[v] = "idle" /\ pc'[v] = "idle"
        /\ UNCHANGED <<op, model, number>>
    BY <1>2 DEF Read, Open, Write, Advance, SoloInv, historyVars
  <2>2. PICK r \in Records :
            \A f \in FileSet : rec[f] = IF f \in Done(w) THEN Changed(w, r) ELSE r
    BY <2>1 DEF ReasonInv
  <2>3. Changed(w, r)' = Changed(w, r)
    BY <2>1 DEF Changed, NewRecord
  <2>4. CASE /\ Advance(w)
             /\ rec' = [rec EXCEPT ![File(w)] = Changed(w, r)]
    <3>1. CASE Done(w)' = Done(w) \cup {File(w)} /\ pc'[w] = "read"
      <4>1. Busy' = {w}
        BY <2>1, <3>1
      <4>2. \A f \in FileSet : rec'[f] = IF f \in Done(w)' THEN Changed(w, r)' ELSE r
        BY <2>2, <2>3, <2>4, <3>1
      <4> QED
        BY <4>1, <4>2 DEF ReasonInv, Records
    <3>2. CASE FileSet = Done(w) \cup {File(w)} /\ pc'[w] = "idle"
      <4>1. Busy' = {}
        BY <2>1, <3>2
      <4>2. \A f \in FileSet : rec'[f] = Changed(w, r)
        BY <2>2, <2>4, <3>2
      <4> QED
        BY <4>1, <4>2 DEF ReasonInv
    <3> QED
      BY <2>4, <3>1, <3>2, DoneGrows
  <2>5. CASE Read(w) /\ op[w] = "drop" /\ Seen(File(w))[model[w]] = 0
    <3>1. Advance(w) /\ rec' = rec
      BY <2>5 DEF Read
    <3>2. Seen(File(w)) = rec[File(w)]
      BY <2>1, <2>5 DEF Read, Seen, TextInv
    <3>3. rec[File(w)] = Changed(w, r)
      <4>1. CASE File(w) \in Done(w)
        BY <2>2, <4>1
      <4>2. CASE File(w) \notin Done(w)
        BY <2>2, <2>5, <3>2, <4>2, PutOnTop
      <4> QED
        BY <4>1, <4>2
    <3> QED
      BY <2>4, <3>1, <3>3
  <2>6. CASE Write(w)
    <3>1. copy[w] = rec[File(w)]
      BY <2>1, <2>6 DEF Write, TruthInv, Touching, Trusted
    <3>2. [copy[w] EXCEPT ![model[w]] = NewRecord(w)] = Changed(w, r)
      BY <2>2, <3>1, PutOnTop DEF Changed
    <3> QED
      BY <2>4, <2>6, <3>2 DEF Write
  <2>7. CASE Open(w) \/ (Read(w) /\ ~(op[w] = "drop" /\ Seen(File(w))[model[w]] = 0))
    <3>1. rec' = rec /\ at' = at /\ pc'[w] # "idle"
      BY <2>7 DEF Open, Read, writerVars
    <3>2. Busy' = {w} /\ Done(w)' = Done(w)
      BY <2>1, <3>1 DEF Done
    <3>3. \A f \in FileSet : rec'[f] = IF f \in Done(w)' THEN Changed(w, r)' ELSE r
      BY <2>2, <2>3, <3>1, <3>2
    <3> QED
      BY <3>2, <3>3 DEF ReasonInv, Records
  <2> QED
    BY <1>2, <2>5, <2>6, <2>7
<1>3. ASSUME NEW w \in Writers, ReadRaises(w) \/ WriteFails(w) \/ Killed(w) PROVE FALSE
  BY <1>3 DEF ReadRaises, WriteFails, Killed, GiveUp
<1>4. ASSUME NEW f \in FileSet, EditByHand(f) PROVE ReasonInv'
  BY <1>4 DEF EditByHand, ReasonInv, historyVars, writerVars
<1>5. CASE UNCHANGED storeVars
  <2>1. /\ Clear' = Clear /\ torn' = torn /\ rec' = rec /\ Busy' = Busy
        /\ \A w \in Writers : Done(w)' = Done(w)
        /\ \A w \in Writers, r \in Records : Changed(w, r)' = Changed(w, r)
    BY <1>5 DEF storeVars, Clear, Busy, Done, Changed, NewRecord, historyVars, writerVars
  <2>2. Busy \subseteq Writers
    BY DEF Busy
  <2> HIDE DEF Clear, Busy
  <2> QED
    BY <2>1, <2>2 DEF ReasonInv
<1> QED
  BY <1>1, <1>2, <1>3, <1>4, <1>5 DEF StoreNext

LEMMA StoreInvariant == StoreSpec => [](StoreTypeOK /\ StoreInv)
<1>1. StoreInit /\ StoreTypeOK => StoreInv
  BY DEF StoreInit, StoreInv, StartInv, SoloInv, HandInv, TextInv, TruthInv, ReasonInv,
         Touching, Busy
<1>2. StoreTypeOK /\ StoreInv /\ [StoreNext]_storeVars => StoreInv'
  BY StartStep, SoloStep, HandStep, TextStep, TruthStep, ReasonStep DEF StoreInv
<1> QED
  BY <1>1, <1>2, StoreTyped, PTL DEF StoreSpec

(* A record is lost, kept or brought back only by writers that overlapped, *)
(* one that was cut short, or a slip in a file read as empty.              *)
THEOREM LossHasACause == StoreSpec => []LossIsExplained
<1>1. StoreInv => LossIsExplained
  BY DEF StoreInv, TruthInv, Clear, Trusted, LossIsExplained, Alone
<1> QED
  BY <1>1, StoreInvariant, PTL

(* The presets and their reasons change together (model_presets.py).       *)
THEOREM ReasonsGoWithPresets == StoreSpec => []PresetsHaveReasons
<1>1. StoreInv => PresetsHaveReasons
  BY DEF StoreInv, ReasonInv, Clear, PresetsHaveReasons, Alone
<1> QED
  BY <1>1, StoreInvariant, PTL

(* A file that cannot be parsed, and is not read as empty, is left alone   *)
(* until it is corrected (model_presets.py:14-17).                         *)
THEOREM HandEditsAreKept == StoreSpec => HandEditsSurvive
<1> DEFINE Kept ==
        \A f \in FileSet \ Tolerant :
            text[f] = "half" /\ ~overlap' => rec'[f] = rec[f] /\ text'[f] # "empty"
<1>1. StoreTypeOK /\ StoreInv /\ [StoreNext]_storeVars => [Kept]_storeVars
  <2> SUFFICES ASSUME StoreTypeOK, StoreInv, StoreNext, NEW f \in FileSet \ Tolerant,
                      text[f] = "half", ~overlap'
               PROVE  rec'[f] = rec[f] /\ text'[f] # "empty"
    OBVIOUS
  <2>0. /\ \A w \in Writers : File(w) \in FileSet
        /\ rec \in [FileSet -> Records]
        /\ text \in [FileSet -> {"whole", "empty", "half"}]
    BY FileInSet DEF StoreTypeOK
  <2> USE <2>0 DEF historyVars
  <2>1. ASSUME NEW w \in Writers, Open(w) \/ Write(w) \/ WriteFails(w)
        PROVE  rec'[f] = rec[f] /\ text'[f] # "empty"
    <3>1. f # File(w)
      BY <2>1 DEF Open, Write, WriteFails, StoreInv, HandInv, Touching
    <3> QED
      BY <2>1, <3>1 DEF Open, Write, WriteFails
  <2>2. ASSUME NEW w \in Writers,
               \/ \E o \in {"put", "drop"}, m \in Models : Begin(w, o, m)
               \/ Read(w) \/ ReadRaises(w) \/ Killed(w)
        PROVE  rec'[f] = rec[f] /\ text'[f] # "empty"
    BY <2>2 DEF Begin, Read, ReadRaises, Killed
  <2>3. ASSUME NEW g \in FileSet, EditByHand(g)
        PROVE  rec'[f] = rec[f] /\ text'[f] # "empty"
    BY <2>3 DEF EditByHand
  <2> QED
    BY <2>1, <2>2, <2>3 DEF StoreNext
<1> QED
  BY <1>1, StoreInvariant, PTL DEF StoreSpec, HandEditsSurvive
=============================================================================
