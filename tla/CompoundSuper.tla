----------------------------- MODULE CompoundSuper -----------------------------
(***************************************************************************)
(* The classes of docs/doxygen/doxyxml/generated/compoundsuper.py: what    *)
(* build, buildAttributes and buildChildren of each class take from an     *)
(* element of a file that Doxygen wrote.  A class is a row of a table; the *)
(* walk that all of them share is in module XmlBuild.                      *)
(***************************************************************************)
EXTENDS XmlSchema

DoxygenType == Class({"version"}, {}, NoText, [compounddef |-> One("compounddefType")])

compounddefType == Class({"kind", "prot", "id"}, {}, NoText, [compoundname |-> String,
    title |-> One("docTitleType"), basecompoundref |-> Many("compoundRefType"),
    derivedcompoundref |-> Many("compoundRefType"), includes |-> Many("incType"),
    includedby |-> Many("incType"), incdepgraph |-> One("graphType"),
    invincdepgraph |-> One("graphType"), innerdir |-> Many("refType"),
    innerfile |-> Many("refType"), innerclass |-> Many("refType"),
    innernamespace |-> Many("refType"), innerpage |-> Many("refType"),
    innergroup |-> Many("refType"), templateparamlist |-> One("templateparamlistType"),
    sectiondef |-> Many("sectiondefType"), briefdescription |-> One("descriptionType"),
    detaileddescription |-> One("descriptionType"), inheritancegraph |-> One("graphType"),
    collaborationgraph |-> One("graphType"), programlisting |-> One("listingType"),
    location |-> One("locationType"), listofallmembers |-> One("listofallmembersType")])

listofallmembersType == Class({}, {}, NoText, [member |-> Many("memberRefType")])

memberRefType == Class({"virt", "prot", "refid", "ambiguityscope"}, {}, NoText,
    [scope |-> String, name |-> String])

scope == Class({}, {}, Value, NoKids)

name == Class({}, {}, Value, NoKids)

compoundRefType == Class({"virt", "prot", "refid"}, {}, Both, NoKids)

reimplementType == Class({"refid"}, {}, Both, NoKids)

incType == Class({"local", "refid"}, {}, Both, NoKids)

refType == Class({"prot", "refid"}, {}, Both, NoKids)

refTextType == Class({"refid", "kindref", "external"}, {}, Both, NoKids)

\* Mutant: only the last member of a section is kept.
sectiondefType_LastMember == Class({"kind"}, {}, NoText, [header |-> String,
    description |-> One("descriptionType"), memberdef |-> One("memberdefType")])

sectiondefType == Class({"kind"}, {}, NoText, [header |-> String,
    description |-> One("descriptionType"), memberdef |-> Many("memberdefType")])

memberdefType == Class({"initonly", "kind", "volatile", "const", "raise", "virt",
    "readable", "prot", "explicit", "new", "final", "writable", "add", "static", "remove",
    "sealed", "mutable", "gettable", "inline", "settable", "id"}, {}, NoText,
    [templateparamlist |-> One("templateparamlistType"), type |-> One("linkedTextType"),
    definition |-> String, argsstring |-> String, name |-> String, read |-> String,
    write |-> String, bitfield |-> String, reimplements |-> Many("reimplementType"),
    reimplementedby |-> Many("reimplementType"), param |-> Many("paramType"),
    enumvalue |-> Many("enumvalueType"), initializer |-> One("linkedTextType"),
    exceptions |-> One("linkedTextType"), briefdescription |-> One("descriptionType"),
    detaileddescription |-> One("descriptionType"),
    inbodydescription |-> One("descriptionType"), location |-> One("locationType"),
    references |-> Many("referenceType"), referencedby |-> Many("referenceType")])

definition == Class({}, {}, Value, NoKids)

argsstring == Class({}, {}, Value, NoKids)

read == Class({}, {}, Value, NoKids)

write == Class({}, {}, Value, NoKids)

bitfield == Class({}, {}, Value, NoKids)

descriptionType == Class({}, {}, Content, [title |-> Mixed("docTitleType"),
    para |-> Mixed("docParaType"), sect1 |-> Mixed("docSect1Type"),
    internal |-> Mixed("docInternalType")])

enumvalueType == Class({"prot", "id"}, {}, Content, [name |-> MixedString,
    initializer |-> Mixed("linkedTextType"),
    briefdescription |-> Mixed("descriptionType"),
    detaileddescription |-> Mixed("descriptionType")])

templateparamlistType == Class({}, {}, NoText, [param |-> Many("paramType")])

paramType == Class({}, {}, NoText, [type |-> One("linkedTextType"), declname |-> String,
    defname |-> String, array |-> String, defval |-> One("linkedTextType"),
    briefdescription |-> One("descriptionType")])

declname == Class({}, {}, Value, NoKids)

defname == Class({}, {}, Value, NoKids)

array == Class({}, {}, Value, NoKids)

linkedTextType == Class({}, {}, Content, [ref |-> Mixed("docRefTextType")])

graphType == Class({}, {}, NoText, [node |-> Many("nodeType")])

nodeType == Class({"id"}, {}, NoText, [label |-> String, link |-> One("linkType"),
    childnode |-> Many("childnodeType")])

label == Class({}, {}, Value, NoKids)

childnodeType == Class({"relation", "refid"}, {}, NoText, [edgelabel |-> Strings])

edgelabel == Class({}, {}, Value, NoKids)

linkType == Class({"refid", "external"}, {}, Value, NoKids)

listingType == Class({}, {}, NoText, [codeline |-> Many("codelineType")])

codelineType == Class({"external", "refkind", "refid"}, {"lineno"}, NoText,
    [highlight |-> Many("highlightType")])

highlightType == Class({"class"}, {}, Content, [sp |-> MixedString,
    ref |-> Mixed("docRefTextType")])

sp == Class({}, {}, Value, NoKids)

referenceType == Class({"refid", "compoundref"}, {"endline", "startline"}, Both, NoKids)

locationType == Class({"bodyfile", "file"}, {"bodystart", "line", "bodyend"}, Value,
    NoKids)

docSect1Type == Class({"id"}, {}, Content, [title |-> Mixed("docTitleType"),
    para |-> Mixed("docParaType"), sect2 |-> Mixed("docSect2Type"),
    internal |-> Mixed("docInternalS1Type")])

docSect2Type == Class({"id"}, {}, Content, [title |-> Mixed("docTitleType"),
    para |-> Mixed("docParaType"), sect3 |-> Mixed("docSect3Type"),
    internal |-> Mixed("docInternalS2Type")])

docSect3Type == Class({"id"}, {}, Content, [title |-> Mixed("docTitleType"),
    para |-> Mixed("docParaType"), sect4 |-> Mixed("docSect4Type"),
    internal |-> Mixed("docInternalS3Type")])

docSect4Type == Class({"id"}, {}, Content, [title |-> Mixed("docTitleType"),
    para |-> Mixed("docParaType"), internal |-> Mixed("docInternalS4Type")])

docInternalType == Class({}, {}, Content, [para |-> Mixed("docParaType"),
    sect1 |-> Mixed("docSect1Type")])

docInternalS1Type == Class({}, {}, Content, [para |-> Mixed("docParaType"),
    sect2 |-> Mixed("docSect2Type")])

docInternalS2Type == Class({}, {}, Content, [para |-> Mixed("docParaType"),
    sect3 |-> Mixed("docSect3Type")])

docInternalS3Type == Class({}, {}, Content, [para |-> Mixed("docParaType"),
    sect3 |-> Mixed("docSect4Type")])

docInternalS4Type == Class({}, {}, Content, [para |-> Mixed("docParaType")])

docTitleType == Class({}, {}, Both, NoKids)

docParaType == Class({}, {}, Both, NoKids)

docMarkupType == Class({}, {}, Both, NoKids)

docURLLink == Class({"url"}, {}, Both, NoKids)

docAnchorType == Class({"id"}, {}, Both, NoKids)

docFormulaType == Class({"id"}, {}, Both, NoKids)

docIndexEntryType == Class({}, {}, NoText, [primaryie |-> String, secondaryie |-> String])

docListType == Class({}, {}, NoText, [listitem |-> Many("docListItemType")])

docListItemType == Class({}, {}, NoText, [para |-> Many("docParaType")])

docSimpleSectType == Class({"kind"}, {}, NoText, [title |-> One("docTitleType"),
    para |-> Many("docParaType")])

docVarListEntryType == Class({}, {}, NoText, [term |-> One("docTitleType")])

docVariableListType == Class({}, {}, Value, NoKids)

docRefTextType == Class({"refid", "kindref", "external"}, {}, Both, NoKids)

docTableType == Class({}, {"rows", "cols"}, NoText, [row |-> Many("docRowType"),
    caption |-> One("docCaptionType")])

docRowType == Class({}, {}, NoText, [entry |-> Many("docEntryType")])

docEntryType == Class({"thead"}, {}, NoText, [para |-> Many("docParaType")])

docCaptionType == Class({}, {}, Both, NoKids)

docHeadingType == Class({}, {"level"}, Both, NoKids)

docImageType == Class({"width", "type", "name", "height"}, {}, Both, NoKids)

docDotFileType == Class({"name"}, {}, Both, NoKids)

docTocItemType == Class({"id"}, {}, Both, NoKids)

docTocListType == Class({}, {}, NoText, [tocitem |-> Many("docTocItemType")])

docLanguageType == Class({"langid"}, {}, NoText, [para |-> Many("docParaType")])

docParamListType == Class({"kind"}, {}, NoText,
    [parameteritem |-> Many("docParamListItem")])

docParamListItem == Class({}, {}, NoText, [parameternamelist |-> Many("docParamNameList"),
    parameterdescription |-> One("descriptionType")])

docParamNameList == Class({}, {}, NoText, [parametername |-> Many("docParamName")])

docParamName == Class({"direction"}, {}, Content, [ref |-> Mixed("docRefTextType")])

docXRefSectType == Class({"id"}, {}, NoText, [xreftitle |-> Strings,
    xrefdescription |-> One("descriptionType")])

docCopyType == Class({"link"}, {}, NoText, [para |-> Many("docParaType"),
    sect1 |-> Many("docSect1Type"), internal |-> One("docInternalType")])

docCharType == Class({"char"}, {}, Value, NoKids)

docEmptyType == Class({}, {}, Value, NoKids)

\* The classes by name, as the factories and the supermod of compound.py see them.
CompoundClasses == [DoxygenType |-> DoxygenType, compounddefType |-> compounddefType,
    listofallmembersType |-> listofallmembersType, memberRefType |-> memberRefType,
    scope |-> scope, name |-> name, compoundRefType |-> compoundRefType,
    reimplementType |-> reimplementType, incType |-> incType, refType |-> refType,
    refTextType |-> refTextType, sectiondefType |-> sectiondefType,
    memberdefType |-> memberdefType, definition |-> definition, argsstring |-> argsstring,
    read |-> read, write |-> write, bitfield |-> bitfield,
    descriptionType |-> descriptionType, enumvalueType |-> enumvalueType,
    templateparamlistType |-> templateparamlistType, paramType |-> paramType,
    declname |-> declname, defname |-> defname, array |-> array,
    linkedTextType |-> linkedTextType, graphType |-> graphType, nodeType |-> nodeType,
    label |-> label, childnodeType |-> childnodeType, edgelabel |-> edgelabel,
    linkType |-> linkType, listingType |-> listingType, codelineType |-> codelineType,
    highlightType |-> highlightType, sp |-> sp, referenceType |-> referenceType,
    locationType |-> locationType, docSect1Type |-> docSect1Type,
    docSect2Type |-> docSect2Type, docSect3Type |-> docSect3Type,
    docSect4Type |-> docSect4Type, docInternalType |-> docInternalType,
    docInternalS1Type |-> docInternalS1Type, docInternalS2Type |-> docInternalS2Type,
    docInternalS3Type |-> docInternalS3Type, docInternalS4Type |-> docInternalS4Type,
    docTitleType |-> docTitleType, docParaType |-> docParaType,
    docMarkupType |-> docMarkupType, docURLLink |-> docURLLink,
    docAnchorType |-> docAnchorType, docFormulaType |-> docFormulaType,
    docIndexEntryType |-> docIndexEntryType, docListType |-> docListType,
    docListItemType |-> docListItemType, docSimpleSectType |-> docSimpleSectType,
    docVarListEntryType |-> docVarListEntryType,
    docVariableListType |-> docVariableListType, docRefTextType |-> docRefTextType,
    docTableType |-> docTableType, docRowType |-> docRowType,
    docEntryType |-> docEntryType, docCaptionType |-> docCaptionType,
    docHeadingType |-> docHeadingType, docImageType |-> docImageType,
    docDotFileType |-> docDotFileType, docTocItemType |-> docTocItemType,
    docTocListType |-> docTocListType, docLanguageType |-> docLanguageType,
    docParamListType |-> docParamListType, docParamListItem |-> docParamListItem,
    docParamNameList |-> docParamNameList, docParamName |-> docParamName,
    docXRefSectType |-> docXRefSectType, docCopyType |-> docCopyType,
    docCharType |-> docCharType, docEmptyType |-> docEmptyType]
===============================================================================
