------------------------------- MODULE Sizing -------------------------------
(***************************************************************************)
(* The three places that judge whether a model can be served on a device,  *)
(* in the order a pull and a benchmark reach them: the preflight check of  *)
(* the file listing (installer/model_preflight.py), compute_sizing         *)
(* (installer/model_sizing.py), and the context gate of the screen         *)
(* (installer/model_screen.py).                                            *)
(*                                                                         *)
(* Memory is counted in eightieths of a byte, in which the 80% budget and  *)
(* the 2, 1.0625 and 0.5625 bytes of a KV element are integers.            *)
(***************************************************************************)
EXTENDS Integers

CONSTANTS
    Profiles,     \* the model and device profiles that are judged
    MinCtx,       \* _MIN_CTX_SIZE, 512 in the code
    MinServable,  \* MIN_SERVABLE_CTX_TOKENS, 2048 in the code
    Block         \* _KV_QUANT_BLOCK_SIZE, 32 in the code

Unknown == -1     \* the memory of the device could not be measured

Profile == [trained : Nat \ {0}, layers : Nat \ {0}, headK : Nat, k : Nat,
            v : Nat, size : Nat, total : Nat \cup {Unknown}]

ASSUME SizingAssumption ==
    /\ Profiles \subseteq Profile
    /\ MinCtx \in Nat \ {0}
    /\ MinServable \in Nat
    /\ MinCtx < MinServable
    /\ Block \in Nat \ {0}

VARIABLES
    profile,   \* the model, and the memory of the device
    listed,    \* can the size be read from the remote listing?
    stage,     \* how far the model has come
    sizing     \* the SizingResult

vars == <<profile, listed, stage, sizing>>

CacheTypes == {"f16", "q8_0", "q4_0"}
Rejections == {"none", "context_too_small", "no_room_for_context"}
Result == [type : CacheTypes, ctx : Nat \ {0}, rejection : Rejections]

NoSizing == [type |-> "f16", ctx |-> 1, rejection |-> "none"]

TypeOK ==
    /\ profile \in Profiles
    /\ listed \in BOOLEAN
    /\ stage \in {"new", "stopped", "sizing", "sized", "rejected", "measure"}
    /\ sizing \in Result

-----------------------------------------------------------------------------
(* compute_sizing                                                          *)

Known(p) == p.total # Unknown

ElementCost(type) ==
    CASE type = "f16" -> 160
      [] type = "q8_0" -> 85
      [] type = "q4_0" -> 45

Width(p) == p.layers * (p.k + p.v)

(* _kv_cache_bytes_per_token                                               *)
TokenCost(p, type) == Width(p) * ElementCost(type)

Budget(p) == 64 * p.total
Weights(p) == 80 * p.size

KvBudget(p) == Budget(p) - Weights(p)

MaxCtxFor(p, type) ==
    IF TokenCost(p, type) <= 0 \/ KvBudget(p) <= 0
    THEN 0
    ELSE KvBudget(p) \div TokenCost(p, type)

Quantizable(p) == p.headK > 0 /\ p.headK % Block = 0

Fit(type, ctx) == [type |-> type, ctx |-> ctx]

AtMost(a, b) == IF a < b THEN a ELSE b

(* Mutations: a context that is not the full one stays with q8_0; q4_0 is  *)
(* tried first.                                                            *)
FittedQ8Only(p) ==
    CASE ~Known(p) -> Fit("f16", p.trained)
      [] Known(p) /\ ~Quantizable(p) -> Fit("f16", AtMost(MaxCtxFor(p, "f16"), p.trained))
      [] Known(p) /\ Quantizable(p) -> Fit("q8_0", AtMost(MaxCtxFor(p, "q8_0"), p.trained))
FittedQ4First(p) ==
    CASE ~Known(p) -> Fit("f16", p.trained)
      [] Known(p) /\ ~Quantizable(p) -> Fit("f16", AtMost(MaxCtxFor(p, "f16"), p.trained))
      [] Known(p) /\ Quantizable(p) -> Fit("q4_0", AtMost(MaxCtxFor(p, "q4_0"), p.trained))

(* The cache type and the context the budget supports.  A cache type of    *)
(* None is llama-server's default, f16.                                    *)
Fitted(p) ==
    LET q8 == MaxCtxFor(p, "q8_0")
        q4 == MaxCtxFor(p, "q4_0")
    IN  CASE ~Known(p) -> Fit("f16", p.trained)
          [] Known(p) /\ ~Quantizable(p) ->
                 Fit("f16", AtMost(MaxCtxFor(p, "f16"), p.trained))
          [] Known(p) /\ Quantizable(p) ->
                 IF q8 >= p.trained THEN Fit("q8_0", p.trained)
                 ELSE IF q4 >= p.trained THEN Fit("q4_0", p.trained)
                 ELSE IF q4 >= q8 THEN Fit("q4_0", q4)
                 ELSE Fit("q8_0", q8)

(* The verdict is taken from the fitted context, before the floor.         *)
Verdict(p, ctx) ==
    IF ctx >= MinServable THEN "none"
    ELSE IF p.trained < MinServable THEN "context_too_small"
    ELSE "no_room_for_context"

(* Mutations: no floor; a floor at what can be served.                     *)
NoFloor(p, ctx) == ctx
FlooredToServable(p, ctx) == IF Known(p) /\ ctx < MinServable THEN MinServable ELSE ctx

Floored(p, ctx) == IF Known(p) /\ ctx < MinCtx THEN MinCtx ELSE ctx

ComputeSizing(p) ==
    [type |-> Fitted(p).type,
     ctx |-> Floored(p, Fitted(p).ctx),
     rejection |-> Verdict(p, Fitted(p).ctx)]

-----------------------------------------------------------------------------
(* The gates                                                               *)

Init ==
    /\ profile \in Profiles
    /\ listed \in BOOLEAN
    /\ stage = "new"
    /\ sizing = NoSizing

(* The weights alone exceed all installed memory.                          *)
TooLarge(p) == Known(p) /\ p.size > p.total

(* No verdict lets the pull proceed, and so does allow_oversized.          *)
PreflightPasses ==
    /\ stage = "new"
    /\ stage' = "sizing"
    /\ UNCHANGED <<profile, listed, sizing>>

PreflightRefuses ==
    /\ stage = "new"
    /\ listed
    /\ TooLarge(profile)
    /\ stage' = "stopped"
    /\ UNCHANGED <<profile, listed, sizing>>

Size ==
    /\ stage = "sizing"
    /\ stage' = "sized"
    /\ sizing' = ComputeSizing(profile)
    /\ UNCHANGED <<profile, listed>>

(* A benchmark screens what was kept against the sized context.            *)
Screen ==
    /\ stage = "sized"
    /\ stage' = IF sizing.ctx < MinServable THEN "rejected" ELSE "measure"
    /\ UNCHANGED <<profile, listed, sizing>>

Next == PreflightPasses \/ PreflightRefuses \/ Size \/ Screen

Spec == Init /\ [][Next]_vars

-----------------------------------------------------------------------------
(* Properties                                                              *)

Sized == stage \in {"sized", "rejected", "measure"}
Viable == sizing.rejection = "none"

(* The cache types the architecture can use.                               *)
TypesOf(p) == IF Quantizable(p) THEN {"q8_0", "q4_0"} ELSE {"f16"}

(* n tokens of context and the weights stay within the budget.             *)
Fits(p, type, n) == Weights(p) + n * TokenCost(p, type) <= Budget(p)

(* What "viable" means, said without the search: the model was trained for *)
(* one turn, and one turn fits with some cache type.  A model without a KV *)
(* cache has no room by definition (model_sizing.py:369-370).              *)
Servable(p) ==
    /\ p.trained >= MinServable
    /\ \/ ~Known(p)
       \/ Width(p) > 0 /\ \E type \in TypesOf(p) : Fits(p, type, MinServable)

(* A model is rejected exactly when no choice of cache type could give it  *)
(* the context of one turn, and the blame is on the model exactly when     *)
(* more memory would not help (model_sizing.py:421-431).                   *)
VerdictIsRight ==
    Sized => /\ Viable <=> Servable(profile)
             /\ sizing.rejection = "context_too_small" <=> profile.trained < MinServable

(* A viable sizing keeps its promise: weights and cache within 80% of the  *)
(* memory, and no more context than the model was trained for.             *)
FitsBudget ==
    Sized /\ Viable =>
        /\ sizing.ctx <= profile.trained
        /\ Known(profile) => Fits(profile, sizing.type, sizing.ctx)

(* A viable sizing could not be better: no usable cache type holds one     *)
(* more token, and q4_0 is chosen only where q8_0 would not do.            *)
BestFit ==
    Sized /\ Viable /\ Known(profile) =>
        /\ sizing.ctx < profile.trained =>
               \A type \in TypesOf(profile) : ~Fits(profile, type, sizing.ctx + 1)
        /\ sizing.type = "q4_0" => ~Fits(profile, "q8_0", sizing.ctx)

(* The preflight check never refuses what sizing would have accepted: "for *)
(* its false-positive rate rather than its coverage"                       *)
(* (model_preflight.py:9-14).                                              *)
RefusalIsRight == stage = "stopped" => ~Servable(profile)

(* The context gate of the screen and the verdict of sizing "can never     *)
(* disagree" (model_sizing.py:75-79), though one reads the floored context *)
(* of the preset and the other the fitted one.                             *)
ScreenAgrees ==
    /\ stage = "rejected" => ~Viable
    /\ stage = "measure" => Viable

(* Three judgements of one model, made in three places from three different*)
(* numbers, do not contradict each other.                                  *)
NeighboursAgree == RefusalIsRight /\ ScreenAgrees
=============================================================================
