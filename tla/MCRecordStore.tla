---------------------------- MODULE MCRecordStore ----------------------------
(***************************************************************************)
(* RecordStore over the presets with their reasons, and over the verdicts. *)
(***************************************************************************)
EXTENDS RecordStore

PresetFiles == <<"presets", "tuning">>
HealthFiles == <<"health">>
=============================================================================
