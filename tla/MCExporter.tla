----------------------------- MODULE MCExporter -----------------------------
(***************************************************************************)
(* Exporter with requests that take up to two units of time, an interval   *)
(* of three and cycles of two requests: a cycle may take longer than the   *)
(* interval, and two polls may be alive at once.                           *)
(***************************************************************************)
EXTENDS Exporter
=============================================================================
