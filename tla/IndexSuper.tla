------------------------------ MODULE IndexSuper ------------------------------
(***************************************************************************)
(* The classes of docs/doxygen/doxyxml/generated/indexsuper.py, which read *)
(* index.xml, in the form of module XmlSchema.                             *)
(***************************************************************************)
EXTENDS XmlSchema

DoxygenType == Class({"version"}, {}, NoText, [compound |-> Many("CompoundType")])

CompoundType == Class({"kind", "refid"}, {}, NoText, [name |-> String,
    member |-> Many("MemberType")])

MemberType == Class({"kind", "refid"}, {}, NoText, [name |-> String])

IndexClasses == [DoxygenType |-> DoxygenType, CompoundType |-> CompoundType,
    MemberType |-> MemberType]
===============================================================================
