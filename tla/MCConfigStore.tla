--------------------------- MODULE MCConfigStore ---------------------------
(* A board with two configuration bodies, the built-in one and one more,  *)
(* and an update_count that wraps after three values.                     *)
EXTENDS ConfigStore

CONSTANTS builtin, custom

MCBody == {builtin, custom}
=============================================================================
