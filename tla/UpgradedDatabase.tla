--------------------------- MODULE UpgradedDatabase ---------------------------
(***************************************************************************)
(* What the set-up of the database promises to whoever starts the service: *)
(* its version and its index change together, an upgrade is never undone,  *)
(* and a start serves calls only on a database of the current version.     *)
(***************************************************************************)
CONSTANT Starts  \* the starts of the service

VARIABLES
  version,  \* what the database says of itself
  indexed,  \* it has the index of the current version
  serving   \* the starts that serve calls

vars == <<version, indexed, serving>>

Init ==
  /\ version \in {"none", "older"}
  /\ indexed = FALSE
  /\ serving = {}

Upgrade ==
  /\ version' = "current"
  /\ indexed' = TRUE
  /\ UNCHANGED serving

Serve(s) ==
  /\ version = "current" /\ indexed
  /\ serving' = serving \cup {s}
  /\ UNCHANGED <<version, indexed>>

Leave(s) ==
  /\ serving' = serving \ {s}
  /\ UNCHANGED <<version, indexed>>

Next == Upgrade \/ \E s \in Starts : Serve(s) \/ Leave(s)

Spec == Init /\ [][Next]_vars
=============================================================================
