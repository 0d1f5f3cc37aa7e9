---------------------------- MODULE ImportLedger ----------------------------
(***************************************************************************)
(* What processing promises of one import, without requests, stages or     *)
(* stale reads: it is mapped, claimed, and each claim ends at most once,   *)
(* in a preview, in business rows written from the import's own mapping,   *)
(* or in failure, which is final.  ImportJob implements it when clients do *)
(* not confirm an import while another request for it is in flight.        *)
(***************************************************************************)
EXTENDS Naturals

CONSTANTS Mappings, Suggested

VARIABLES
  import,   \* status, mapping, result, business_persisted_at
  written,  \* times the business rows were written
  rows      \* the mapping they were last written from

ledger == <<import, written, rows>>
Import(status, mapping, result, stamped) ==
  [status |-> status, mapping |-> mapping, result |-> result, stamped |-> stamped]

\* A new import, or an old one whose result has no business rows.
Init ==
  /\ \/ import = Import("mapping_required", Suggested, "none", FALSE)
     \/ \E m \in Mappings : import = Import("completed", m, "final", FALSE)
  /\ written = 0 /\ rows = Suggested

Confirm(m) ==
  /\ import.status \in {"mapping_required", "confirmed"}
  /\ import' = Import("confirmed", m, import.result, import.stamped)
  /\ UNCHANGED <<written, rows>>

\* A completed import too is claimed by who saw it before it completed.
Claim ==
  /\ import.status \in {"confirmed", "completed"}
  /\ import' = Import("processing", import.mapping, import.result, import.stamped)
  /\ UNCHANGED <<written, rows>>

\* The ends of a claim.
Preview ==
  /\ import.status = "processing"
  /\ import' = Import("confirmed", import.mapping, "preview", import.stamped)
  /\ UNCHANGED <<written, rows>>

Complete ==
  /\ import.status = "processing"
  /\ import' = Import("completed", import.mapping, "final", TRUE)
  /\ written' = written + 1
  /\ rows' = import.mapping

Fail ==
  /\ import.status = "processing"
  /\ import' = Import("failed", import.mapping, import.result, import.stamped)
  /\ UNCHANGED <<written, rows>>

Next ==
  \/ \E m \in Mappings : Confirm(m)
  \/ Claim \/ Preview \/ Complete \/ Fail

Spec == Init /\ [][Next]_ledger
=============================================================================
