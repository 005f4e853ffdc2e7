----------------------------- MODULE CompoundInit -----------------------------
(***************************************************************************)
(* What the __init__ of every class of compoundsuper.py makes of an        *)
(* object that a factory creates without arguments: the fields that hold   *)
(* None or a text until build sets them, and those that are lists, which   *)
(* build appends to.  A field has the name of its element or attribute.    *)
(***************************************************************************)
EXTENDS XmlSchema

DoxygenType == Object({"version", "compounddef"}, {})

compounddefType == Object({"kind", "prot", "id", "compoundname", "title", "incdepgraph",
    "invincdepgraph", "templateparamlist", "briefdescription", "detaileddescription",
    "inheritancegraph", "collaborationgraph", "programlisting", "location",
    "listofallmembers"}, {"basecompoundref", "derivedcompoundref", "includes",
    "includedby", "innerdir", "innerfile", "innerclass", "innernamespace", "innerpage",
    "innergroup", "sectiondef"})

listofallmembersType == Object({}, {"member"})

memberRefType == Object({"virt", "prot", "refid", "ambiguityscope", "scope", "name"}, {})

scope == Object({"valueOf_"}, {})

name == Object({"valueOf_"}, {})

compoundRefType == Object({"virt", "prot", "refid"}, {"content_"})

reimplementType == Object({"refid"}, {"content_"})

incType == Object({"local", "refid"}, {"content_"})

refType == Object({"prot", "refid"}, {"content_"})

refTextType == Object({"refid", "kindref", "external"}, {"content_"})

\* Mutant: a section has no list of members until it is given one.
sectiondefType_NoList == Object({"kind", "header", "description", "memberdef"}, {})

sectiondefType == Object({"kind", "header", "description"}, {"memberdef"})

memberdefType == Object({"initonly", "kind", "volatile", "const", "raise", "virt",
    "readable", "prot", "explicit", "new", "final", "writable", "add", "static", "remove",
    "sealed", "mutable", "gettable", "inline", "settable", "id", "templateparamlist",
    "type", "definition", "argsstring", "name", "read", "write", "bitfield",
    "initializer", "exceptions", "briefdescription", "detaileddescription",
    "inbodydescription", "location"}, {"reimplements", "reimplementedby", "param",
    "enumvalue", "references", "referencedby"})

definition == Object({"valueOf_"}, {})

argsstring == Object({"valueOf_"}, {})

read == Object({"valueOf_"}, {})

write == Object({"valueOf_"}, {})

bitfield == Object({"valueOf_"}, {})

descriptionType == Object({}, {"content_"})

enumvalueType == Object({"prot", "id"}, {"content_"})

templateparamlistType == Object({}, {"param"})

paramType == Object({"type", "declname", "defname", "array", "defval",
    "briefdescription"}, {})

declname == Object({"valueOf_"}, {})

defname == Object({"valueOf_"}, {})

array == Object({"valueOf_"}, {})

linkedTextType == Object({}, {"content_"})

graphType == Object({}, {"node"})

nodeType == Object({"id", "label", "link"}, {"childnode"})

label == Object({"valueOf_"}, {})

childnodeType == Object({"relation", "refid"}, {"edgelabel"})

edgelabel == Object({"valueOf_"}, {})

linkType == Object({"refid", "external", "valueOf_"}, {})

listingType == Object({}, {"codeline"})

codelineType == Object({"external", "lineno", "refkind", "refid"}, {"highlight"})

highlightType == Object({"class"}, {"content_"})

sp == Object({"valueOf_"}, {})

referenceType == Object({"endline", "startline", "refid", "compoundref"}, {"content_"})

locationType == Object({"bodystart", "line", "bodyend", "bodyfile", "file", "valueOf_"},
    {})

docSect1Type == Object({"id"}, {"content_"})

docSect2Type == Object({"id"}, {"content_"})

docSect3Type == Object({"id"}, {"content_"})

docSect4Type == Object({"id"}, {"content_"})

docInternalType == Object({}, {"content_"})

docInternalS1Type == Object({}, {"content_"})

docInternalS2Type == Object({}, {"content_"})

docInternalS3Type == Object({}, {"content_"})

docInternalS4Type == Object({}, {"content_"})

docTitleType == Object({}, {"content_"})

docParaType == Object({}, {"content_"})

docMarkupType == Object({}, {"content_"})

docURLLink == Object({"url"}, {"content_"})

docAnchorType == Object({"id"}, {"content_"})

docFormulaType == Object({"id"}, {"content_"})

docIndexEntryType == Object({"primaryie", "secondaryie"}, {})

docListType == Object({}, {"listitem"})

docListItemType == Object({}, {"para"})

docSimpleSectType == Object({"kind", "title"}, {"para"})

docVarListEntryType == Object({"term"}, {})

docVariableListType == Object({"valueOf_"}, {})

docRefTextType == Object({"refid", "kindref", "external"}, {"content_"})

docTableType == Object({"rows", "cols", "caption"}, {"row"})

docRowType == Object({}, {"entry"})

docEntryType == Object({"thead"}, {"para"})

docCaptionType == Object({}, {"content_"})

docHeadingType == Object({"level"}, {"content_"})

docImageType == Object({"width", "type", "name", "height"}, {"content_"})

docDotFileType == Object({"name"}, {"content_"})

docTocItemType == Object({"id"}, {"content_"})

docTocListType == Object({}, {"tocitem"})

docLanguageType == Object({"langid"}, {"para"})

docParamListType == Object({"kind"}, {"parameteritem"})

docParamListItem == Object({"parameterdescription"}, {"parameternamelist"})

docParamNameList == Object({}, {"parametername"})

docParamName == Object({"direction"}, {"content_"})

docXRefSectType == Object({"id", "xrefdescription"}, {"xreftitle"})

docCopyType == Object({"link", "internal"}, {"para", "sect1"})

docCharType == Object({"char", "valueOf_"}, {})

docEmptyType == Object({"valueOf_"}, {})

\* The objects by the name of their class.
CompoundObjects == [DoxygenType |-> DoxygenType, compounddefType |-> compounddefType,
    listofallmembersType |-> listofallmembersType, memberRefType |-> memberRefType,
    scope |-> scope, name |-> name, compoundRefType |-> compoundRefType,
    reimplementType |-> reimplementType, incType |-> incType, refType |-> refType,
    refTextType |-> refTextType, sectiondefType |-> sectiondefType,
    memberdefType |-> memberdefType, definition |-> definition, argsstring |-> argsstring,
    read |-> read, write |-> write, bitfield |-> bitfield,
    descriptionType |-> descriptionType, enumvalueType |-> enumvalueType,
    templateparamlistType |-> templateparamlistType, paramType |-> paramType,
    declname |-> declname, defname |-> defname, array |-> array,
    linkedTextType |-> linkedTextType, graphType |-> graphType, nodeType |-> nodeType,
    label |-> label, childnodeType |-> childnodeType, edgelabel |-> edgelabel,
    linkType |-> linkType, listingType |-> listingType, codelineType |-> codelineType,
    highlightType |-> highlightType, sp |-> sp, referenceType |-> referenceType,
    locationType |-> locationType, docSect1Type |-> docSect1Type,
    docSect2Type |-> docSect2Type, docSect3Type |-> docSect3Type,
    docSect4Type |-> docSect4Type, docInternalType |-> docInternalType,
    docInternalS1Type |-> docInternalS1Type, docInternalS2Type |-> docInternalS2Type,
    docInternalS3Type |-> docInternalS3Type, docInternalS4Type |-> docInternalS4Type,
    docTitleType |-> docTitleType, docParaType |-> docParaType,
    docMarkupType |-> docMarkupType, docURLLink |-> docURLLink,
    docAnchorType |-> docAnchorType, docFormulaType |-> docFormulaType,
    docIndexEntryType |-> docIndexEntryType, docListType |-> docListType,
    docListItemType |-> docListItemType, docSimpleSectType |-> docSimpleSectType,
    docVarListEntryType |-> docVarListEntryType,
    docVariableListType |-> docVariableListType, docRefTextType |-> docRefTextType,
    docTableType |-> docTableType, docRowType |-> docRowType,
    docEntryType |-> docEntryType, docCaptionType |-> docCaptionType,
    docHeadingType |-> docHeadingType, docImageType |-> docImageType,
    docDotFileType |-> docDotFileType, docTocItemType |-> docTocItemType,
    docTocListType |-> docTocListType, docLanguageType |-> docLanguageType,
    docParamListType |-> docParamListType, docParamListItem |-> docParamListItem,
    docParamNameList |-> docParamNameList, docParamName |-> docParamName,
    docXRefSectType |-> docXRefSectType, docCopyType |-> docCopyType,
    docCharType |-> docCharType, docEmptyType |-> docEmptyType]
===============================================================================
