-------------------------- MODULE MCAlertPipeline --------------------------
(***************************************************************************)
(* Small instances of AlertPipeline for TLC: the configurations that take  *)
(* different paths through the code.                                       *)
(***************************************************************************)
EXTENDS AlertPipeline

Overnight ==
  [quietHours |-> TRUE, quietStart |-> 3, quietEnd |-> 1,
   minSeverity |-> Warning, correlation |-> FALSE, llm |-> TRUE,
   remediation |-> TRUE, auditMayFail |-> FALSE]

Daytime == [Overnight EXCEPT !.quietStart = 1, !.quietEnd = 3,
                             !.auditMayFail = TRUE]
AlwaysQuiet == [Overnight EXCEPT !.quietStart = 1, !.remediation = FALSE]
NoQuietHours == [Overnight EXCEPT !.quietHours = FALSE, !.minSeverity = Info]
Correlated == [Overnight EXCEPT !.correlation = TRUE]
CorrelatedNoLlm == [Correlated EXCEPT !.llm = FALSE, !.auditMayFail = TRUE]

DirectConfigurations == {Overnight, Daytime, AlwaysQuiet, NoQuietHours}
AllConfigurations == DirectConfigurations \cup {Correlated, CorrelatedNoLlm}
=============================================================================
