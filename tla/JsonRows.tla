------------------------------ MODULE JsonRows ------------------------------
(***************************************************************************)
(* What the Gateway requires of a JSON object it is answered with          *)
(* (upstream/strict_json.go).  An object is a function on the members it   *)
(* has; Bad stands for a member, a row or a whole answer that fails its    *)
(* format, an object that names a consumed member twice or under another   *)
(* spelling included.                                                      *)
(***************************************************************************)
CONSTANTS
    Bad,   \* whatever is not of the required format
    Null   \* JSON null; also a field that the code keeps empty

\* decodeExtensibleJSONObject, and a look at each member that is consumed
Fits(row, required, optional) ==
    /\ row # Bad
    /\ required \subseteq DOMAIN row
    /\ \A f \in (required \cup optional) \cap DOMAIN row : row[f] # Bad

\* decodeExactJSONObject: no other member either
Exact(row, required, optional) ==
    Fits(row, required, optional) /\ DOMAIN row \subseteq required \cup optional

Member(row, f) == IF f \in DOMAIN row THEN row[f] ELSE Null

OneOf(row, f, g) == f \in DOMAIN row <=> g \notin DOMAIN row
=============================================================================
