----------------------------- MODULE IndexInit -----------------------------
(***************************************************************************)
(* What the __init__ of every class of indexsuper.py makes of an           *)
(* object that a factory creates without arguments: the fields that hold   *)
(* None or a text until build sets them, and those that are lists, which   *)
(* build appends to.  A field has the name of its element or attribute.    *)
(***************************************************************************)
EXTENDS XmlSchema

DoxygenType == Object({"version"}, {"compound"})

CompoundType == Object({"kind", "refid", "name"}, {"member"})

MemberType == Object({"kind", "refid", "name"}, {})

\* The objects by the name of their class.
IndexObjects == [DoxygenType |-> DoxygenType, CompoundType |-> CompoundType,
    MemberType |-> MemberType]
===============================================================================
