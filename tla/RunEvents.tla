----------------------------- MODULE RunEvents ------------------------------
(***************************************************************************)
(* The events of a run as the client tells them apart.  "failure" stands   *)
(* for every terminal event that is not a successful result: a `result` of *)
(* another subtype, `error` and `cancelled`.  "delta" stands for every     *)
(* event the client only reports.                                          *)
(***************************************************************************)

Kinds == {"delta", "call", "success", "failure"}

IsTerminal(kind) == kind \in {"success", "failure"}

\* What a frame cut inside its lines parses to: no `seq`, no `toolUseId`, no
\* `subtype`; cut before the end of its event line it is some other event.
CutKinds(kind) == {"delta", IF kind = "success" THEN "failure" ELSE kind}
=============================================================================
