----------------------------- MODULE RecordStore -----------------------------
(***************************************************************************)
(* The files of records, one per model: the presets INI and its tuning     *)
(* reasons (installer/model_presets.py), the scores (model_perf_store.py)  *)
(* and the verdicts (service/model_health.py).  The watcher, the job       *)
(* worker, an HTTP thread and the CLI change them, each by reading the     *)
(* file whole, changing its copy and writing it whole: open() truncates,   *)
(* the text arrives later, and there is no lock.                           *)
(***************************************************************************)
EXTENDS Integers, Sequences

CONSTANTS
    Models, Writers,
    Files,     \* the files an operation changes, in order
    Tolerant,  \* those read as empty when they cannot be parsed: the JSON files
    MaxOps,    \* bound: operations begun
    MaxTorn    \* bound: kills, failed writes and slips of a person's hand

ASSUME StoreAssumption ==
    /\ Files \in Seq(STRING) \ {<<>>}
    /\ MaxOps \in Nat
    /\ MaxTorn \in Nat

VARIABLES
    rec,     \* rec[f][m]: the number of the operation that wrote it, 0 if none
    text,    \* text[f]: "whole", "empty" (truncated) or "half"
    pc, op, model, number, \* of each writer, with the number of its operation
    at,      \* at[w]: the position in Files it has reached
    copy,    \* copy[w]: what it read
    ops, torn, \* counted for the bounds
    truth,   \* history: what the writes completed so far say
    overlap, \* history: were two writers at work at a time?
    failed   \* history: did a writer not come to the end of its operation?

writerVars == <<pc, op, model, number, at, copy>>
historyVars == <<truth, overlap, failed>>
storeVars == <<rec, text, writerVars, ops, torn, historyVars>>

FileSet == {Files[i] : i \in 1 .. Len(Files)}
Records == [Models -> 0 .. MaxOps]
NoRecords == [m \in Models |-> 0]
File(w) == Files[at[w]]

StoreTypeOK ==
    /\ rec \in [FileSet -> Records]
    /\ text \in [FileSet -> {"whole", "empty", "half"}]
    /\ pc \in [Writers -> {"idle", "read", "open", "write"}]
    /\ op \in [Writers -> {"put", "drop"}]
    /\ model \in [Writers -> Models]
    /\ number \in [Writers -> 0 .. MaxOps]
    /\ at \in [Writers -> 1 .. Len(Files)]
    /\ copy \in [Writers -> Records]
    /\ ops \in 0 .. MaxOps
    /\ torn \in 0 .. MaxTorn
    /\ truth \in [FileSet -> Records]
    /\ overlap \in BOOLEAN
    /\ failed \in BOOLEAN

StoreInit ==
    /\ rec = [f \in FileSet |-> NoRecords]
    /\ text = [f \in FileSet |-> "whole"]
    /\ pc = [w \in Writers |-> "idle"]
    /\ op = [w \in Writers |-> "put"]
    /\ model \in {[w \in Writers |-> m] : m \in Models}
    /\ number = [w \in Writers |-> 0]
    /\ at = [w \in Writers |-> 1]
    /\ copy = [w \in Writers |-> NoRecords]
    /\ ops = 0
    /\ torn = 0
    /\ truth = rec
    /\ overlap = FALSE
    /\ failed = FALSE

Busy == {w \in Writers : pc[w] # "idle"}

-----------------------------------------------------------------------------
(* ensure_preset, write_record, record_oom, quarantine; or the removal or  *)
(* re-pull of a model.                                                     *)
Begin(w, o, m) ==
    /\ pc[w] = "idle"
    /\ ops < MaxOps
    /\ ops' = ops + 1
    /\ pc' = [pc EXCEPT ![w] = "read"]
    /\ op' = [op EXCEPT ![w] = o]
    /\ model' = [model EXCEPT ![w] = m]
    /\ number' = [number EXCEPT ![w] = ops + 1]
    /\ overlap' = (overlap \/ Busy # {})
    /\ UNCHANGED <<rec, text, at, copy, torn, truth, failed>>

(* On to the next file, or the end.                                        *)
Advance(w) ==
    IF at[w] < Len(Files)
    THEN pc' = [pc EXCEPT ![w] = "read"] /\ at' = [at EXCEPT ![w] = @ + 1]
    ELSE pc' = [pc EXCEPT ![w] = "idle"] /\ at' = [at EXCEPT ![w] = 1]

GiveUp(w) ==
    /\ pc' = [pc EXCEPT ![w] = "idle"]
    /\ at' = [at EXCEPT ![w] = 1]
    /\ failed' = TRUE

(* Mutation: the file is made anew with every write.                       *)
SeenNothing(f) == NoRecords

(* An empty file has no records, nor has a file read_all cannot parse.     *)
Seen(f) == IF text[f] = "whole" THEN rec[f] ELSE NoRecords
Readable(f) == text[f] # "half" \/ f \in Tolerant

(* Mutation: a file that cannot be parsed is read as an empty one.         *)
ReadAnything(w) ==
    /\ pc[w] = "read"
    /\ copy' = [copy EXCEPT ![w] = Seen(File(w))]
    /\ pc' = [pc EXCEPT ![w] = "open"]
    /\ UNCHANGED <<rec, text, op, model, number, at, ops, torn, historyVars>>

(* Nothing is written when there is nothing to drop.                       *)
Read(w) ==
    /\ pc[w] = "read"
    /\ Readable(File(w))
    /\ copy' = [copy EXCEPT ![w] = Seen(File(w))]
    /\ IF op[w] = "drop" /\ Seen(File(w))[model[w]] = 0
       THEN /\ Advance(w)
            /\ truth' = [truth EXCEPT ![File(w)][model[w]] = 0]
       ELSE /\ pc' = [pc EXCEPT ![w] = "open"]
            /\ UNCHANGED <<at, truth>>
    /\ UNCHANGED <<rec, text, op, model, number, ops, torn, overlap, failed>>

(* The error of configparser goes to the caller; the file is not touched.  *)
ReadRaises(w) ==
    /\ pc[w] = "read"
    /\ ~Readable(File(w))
    /\ GiveUp(w)
    /\ UNCHANGED <<rec, text, op, model, number, copy, ops, torn, truth, overlap>>

(* open(..., "w"): from here on the old text is gone.                      *)
Open(w) ==
    /\ pc[w] = "open"
    /\ pc' = [pc EXCEPT ![w] = "write"]
    /\ text' = [text EXCEPT ![File(w)] = "empty"]
    /\ UNCHANGED <<rec, op, model, number, at, copy, ops, torn, historyVars>>

NewRecord(w) == IF op[w] = "put" THEN number[w] ELSE 0

(* Mutation: the tuning reasons of a model that is dropped are kept.       *)
WriteKeepsReasons(w) ==
    /\ pc[w] = "write"
    /\ rec' = [rec EXCEPT ![File(w)] = [copy[w] EXCEPT ![model[w]] =
                IF op[w] = "drop" /\ at[w] > 1 THEN @ ELSE NewRecord(w)]]
    /\ text' = [text EXCEPT ![File(w)] = "whole"]
    /\ truth' = [truth EXCEPT ![File(w)][model[w]] = rec'[File(w)][model[w]]]
    /\ Advance(w)
    /\ UNCHANGED <<op, model, number, copy, ops, torn, overlap, failed>>

Write(w) ==
    /\ pc[w] = "write"
    /\ rec' = [rec EXCEPT ![File(w)] = [copy[w] EXCEPT ![model[w]] = NewRecord(w)]]
    /\ text' = [text EXCEPT ![File(w)] = "whole"]
    /\ truth' = [truth EXCEPT ![File(w)][model[w]] = NewRecord(w)]
    /\ Advance(w)
    /\ UNCHANGED <<op, model, number, copy, ops, torn, overlap, failed>>

(* The disk is full.  What has been written cannot be parsed, or is an INI *)
(* that lacks some of the sections.                                        *)
WriteFails(w) ==
    /\ pc[w] = "write"
    /\ torn < MaxTorn
    /\ torn' = torn + 1
    /\ \/ text' = [text EXCEPT ![File(w)] = "half"] /\ UNCHANGED rec
       \/ /\ File(w) \notin Tolerant
          /\ text' = [text EXCEPT ![File(w)] = "whole"]
          /\ \E there \in SUBSET Models :
                rec' = [rec EXCEPT ![File(w)] =
                          [m \in Models |-> IF m \notin there THEN 0
                                        ELSE IF m = model[w] THEN NewRecord(w)
                                        ELSE copy[w][m]]]
    /\ GiveUp(w)
    /\ UNCHANGED <<op, model, number, copy, ops, truth, overlap>>

(* The process of the writer is killed, by the memory killer for one.      *)
Killed(w) ==
    /\ pc[w] # "idle"
    /\ torn < MaxTorn
    /\ torn' = torn + 1
    /\ GiveUp(w)
    /\ UNCHANGED <<rec, text, op, model, number, copy, ops, truth, overlap>>

(* A person edits a file nobody is changing: a slip, and its correction.   *)
EditByHand(f) ==
    /\ Busy = {}
    /\ \/ /\ text[f] = "whole"
          /\ torn < MaxTorn
          /\ torn' = torn + 1
          /\ text' = [text EXCEPT ![f] = "half"]
       \/ /\ text[f] = "half"
          /\ text' = [text EXCEPT ![f] = "whole"]
          /\ UNCHANGED torn
    /\ UNCHANGED <<rec, writerVars, ops, historyVars>>

StoreNext ==
    \/ \E w \in Writers :
        \/ \E o \in {"put", "drop"}, m \in Models : Begin(w, o, m)
        \/ Read(w) \/ ReadRaises(w) \/ Open(w) \/ Write(w) \/ WriteFails(w) \/ Killed(w)
    \/ \E f \in FileSet : EditByHand(f)

StoreSpec == StoreInit /\ [][StoreNext]_storeVars

-----------------------------------------------------------------------------
(* Properties                                                              *)

Alone == Busy = {} /\ ~overlap /\ ~failed

(* A record is lost, kept or brought back against what the completed       *)
(* writes say only when two writers overlapped or one of them did not      *)
(* come to its end; a slip in the INI costs nothing once it is corrected.  *)
LossIsExplained ==
    Alone => \A f \in FileSet :
        text[f] = "whole" /\ (f \in Tolerant => torn = 0) => rec[f] = truth[f]

(* A model has a preset exactly when it has the reasons for it.            *)
PresetsHaveReasons ==
    Alone /\ torn = 0 => \A f, g \in FileSet : rec[f] = rec[g]

(* A file of presets that cannot be parsed is never written over: what a   *)
(* person had put into it "is preserved" (model_presets.py:14-17).         *)
HandEditsSurvive ==
    [][\A f \in FileSet \ Tolerant :
        text[f] = "half" /\ ~overlap' => rec'[f] = rec[f] /\ text'[f] # "empty"]_storeVars

(* "Another model's tuning reasons are never touched by a write for this   *)
(* one" (model_presets.py:109-110; model_perf_store.py:110-111 and         *)
(* model_health.py:170-171 say the same of their files).                   *)
OthersUntouched ==
    [][\A w \in Writers : pc[w] = "write" /\ rec' # rec =>
        \A m \in Models \ {model[w]} : rec'[File(w)][m] = truth[File(w)][m]]_storeVars

(* "The OOM count has to survive a service restart" (model_health.py:119): *)
(* a writer that is killed leaves what was written before.                 *)
SurvivesKill ==
    [][\A w \in Writers : Killed(w) => \A f \in FileSet : Seen(f)' = truth[f]]_storeVars
=============================================================================
