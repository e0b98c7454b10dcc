----------------------------- MODULE Dictionaries -----------------------------
(***************************************************************************)
(* Dictionaries and what refers to them: contract types with their         *)
(* subtypes, the contracts that name both and one another, and tags.  The  *)
(* other dictionaries (types of items and files, states, departments) are  *)
(* changed by the same handlers in the same way as contract types, without *)
(* subtypes, and are not drawn again.                                      *)
(*                                                                         *)
(* A change of a dictionary and the save of a contract are a transaction   *)
(* each.  A tag is given to an item or a software by statements of their   *)
(* own, which look the tag up by its name, create it if there is none, and *)
(* link it.                                                                *)
(*                                                                         *)
(* Texts stand for what is left of them without case and outer blanks; a   *)
(* tag remembers whether it was stored with blanks.  Titles of contracts   *)
(* are left out: looking for another of the same title only refuses.  Ids  *)
(* are never drawn twice.                                                  *)
(***************************************************************************)
EXTENDS FiniteSets, Integers

CONSTANTS
    Type, Subtype, Contract, Tag, Thing,   \* ids; Thing: items and software
    Text,          \* texts of entries, with Blank
    Blank,
    Basic,         \* the id built in, and its text
    BasicText,
    Tagger,        \* handlers that tag at the same time
    NoRef,         \* the id 0, or none
    Unborn, Erased \* the row of an id is not there yet, or no more

SubtypeRow == [text : Text, type : Type]
ContractRow == [type : Type, subtype : Subtype \cup {NoRef}, parent : Contract \cup {NoRef}]
TagRow == [text : Text \ {Blank}, padded : BOOLEAN]
NoRow2 == {Unborn, Erased}

ASSUME DictionariesAssumption ==
    /\ {Blank, BasicText} \subseteq Text /\ Blank # BasicText
    /\ Basic \in Type
    \* ids know their table
    /\ Type \cap Subtype = {} /\ Type \cap Contract = {} /\ Subtype \cap Contract = {}
    /\ NoRef \notin Type \cup Subtype \cup Contract \cup Tag \cup Thing
    /\ NoRow2 \cap (Text \cup SubtypeRow \cup ContractRow \cup TagRow) = {}

VARIABLES
    type,       \* contracttypes: texts
    subtype,    \* contractsubtypes
    contract,   \* contracts
    missing,    \* per contract: what it was saved with that was not there: history
    tag,        \* tags
    thing,      \* items and software: "unborn", "there" or "erased"
    tagged,     \* tag2item and tag2software
    loose,      \* pairs of tagged written when one of both was not there: history
    doubled,    \* tags that were added next to one of their text: history
    tagging     \* where each tagging handler is

dictionaryVars ==
    <<type, subtype, contract, missing, tag, thing, tagged, loose, doubled, tagging>>
tagVars == <<tag, thing, tagged, loose, doubled, tagging>>
contractVars == <<type, subtype, contract, missing>>

Types == {t \in Type : type[t] \notin NoRow2}
Subtypes == {s \in Subtype : subtype[s] \notin NoRow2}
Contracts == {c \in Contract : contract[c] \notin NoRow2}
Tags == {g \in Tag : tag[g] \notin NoRow2}
Things == {i \in Thing : thing[i] = "there"}

IdleTagging ==
    [step |-> "idle", thing |-> NoRef, text |-> Blank, tag |-> NoRef, add |-> TRUE]
Tagging ==
    [step : {"idle", "creating", "linking"}, thing : Thing \cup {NoRef}, text : Text,
     tag : Tag \cup {NoRef}, add : BOOLEAN]

DictionariesInit ==
    /\ type = [t \in Type |-> IF t = Basic THEN BasicText ELSE Unborn]
    /\ subtype = [s \in Subtype |-> Unborn]
    /\ contract = [c \in Contract |-> Unborn]
    /\ missing = [c \in Contract |-> {}]
    /\ tag = [g \in Tag |-> Unborn]
    /\ thing = [i \in Thing |-> "unborn"]
    /\ tagged = {} /\ loose = {} /\ doubled = {}
    /\ tagging = [p \in Tagger |-> IdleTagging]

-----------------------------------------------------------------------------
\* Rules of a dictionary.

\* IsBuiltinDictionaryRow.
Protected(t) == t = Basic \/ type[t] = BasicText

\* EnforceDictionaryUniqueText: a blank text is as often there as one likes.
TypeTextFree(x, except) ==
    x = Blank \/ \A t \in Types \ except : type[t] # x
SubtypeTextFree(x, scope, except) ==
    x = Blank \/ \A s \in Subtypes \ except : subtype[s] # [text |-> x, type |-> scope]
TagTextFree(x, except) == \A g \in Tags \ except : tag[g].text # x

NamesType(t) == {c \in Contracts : contract[c].type = t}
NamesSubtype(s) == {c \in Contracts : contract[c].subtype = s}
SubtypesOf(t) == {s \in Subtypes : subtype[s].type = t}

-----------------------------------------------------------------------------
\* Contract types and subtypes: handleCreateDictionaryRow and its two fellows.

CreateType(t, x) ==
    /\ type[t] = Unborn /\ TypeTextFree(x, {})
    /\ type' = [type EXCEPT ![t] = x]
    /\ UNCHANGED <<subtype, contract, missing, tagVars>>

UpdateType(t, x) ==
    /\ t \in Types /\ ~Protected(t) /\ TypeTextFree(x, {t})
    /\ type' = [type EXCEPT ![t] = x]
    /\ UNCHANGED <<subtype, contract, missing, tagVars>>

\* Mutant: whether the type's subtypes are in use is not asked.
DeleteType_Cascades(t) ==
    /\ ~Protected(t) /\ NamesType(t) = {}
    /\ subtype' = [s \in Subtype |-> IF s \in SubtypesOf(t) THEN Erased ELSE subtype[s]]
    /\ type' = [type EXCEPT ![t] = IF t \in Types THEN Erased ELSE @]
    /\ UNCHANGED <<contract, missing, tagVars>>

\* The subtypes go with their type, and if there is no such type, just they.
DeleteType(t) ==
    /\ ~Protected(t) /\ NamesType(t) = {}
    /\ \A s \in SubtypesOf(t) : NamesSubtype(s) = {}
    /\ subtype' = [s \in Subtype |-> IF s \in SubtypesOf(t) THEN Erased ELSE subtype[s]]
    /\ type' = [type EXCEPT ![t] = IF t \in Types THEN Erased ELSE @]
    /\ UNCHANGED <<contract, missing, tagVars>>

\* Whether the type is there is not asked, here and below.
CreateSubtype(s, x, t) ==
    /\ subtype[s] = Unborn /\ SubtypeTextFree(x, t, {})
    /\ subtype' = [subtype EXCEPT ![s] = [text |-> x, type |-> t]]
    /\ UNCHANGED <<type, contract, missing, tagVars>>

\* Mutant: the text is looked for where the subtype comes from.
UpdateSubtype_OldScope(s, x, t) ==
    /\ s \in Subtypes /\ SubtypeTextFree(x, subtype[s].type, {s})
    /\ subtype' = [subtype EXCEPT ![s] = [text |-> x, type |-> t]]
    /\ UNCHANGED <<type, contract, missing, tagVars>>

UpdateSubtype(s, x, t) ==
    /\ s \in Subtypes /\ SubtypeTextFree(x, t, {s})
    /\ subtype' = [subtype EXCEPT ![s] = [text |-> x, type |-> t]]
    /\ UNCHANGED <<type, contract, missing, tagVars>>

DeleteSubtype(s) ==
    /\ s \in Subtypes /\ NamesSubtype(s) = {}
    /\ subtype' = [subtype EXCEPT ![s] = Erased]
    /\ UNCHANGED <<type, contract, missing, tagVars>>

-----------------------------------------------------------------------------
\* Contracts.

Referents(row) == {row.type, row.subtype, row.parent} \ {NoRef}

\* ContractWorkflow.Create and Update: whatever ids the form has are stored.
SaveContract(c, row) ==
    /\ contract[c] # Erased
    /\ contract' = [contract EXCEPT ![c] = row]
    /\ missing' = [missing EXCEPT ![c] =
                      Referents(row) \ (Types \cup Subtypes \cup Contracts \cup {c})]
    /\ UNCHANGED <<type, subtype, tagVars>>

\* Refused while a contract, itself perhaps, has it for a parent.
DeleteContract(c) ==
    /\ c \in Contracts /\ \A d \in Contracts : contract[d].parent # c
    /\ contract' = [contract EXCEPT ![c] = Erased]
    /\ missing' = [missing EXCEPT ![c] = {}]
    /\ UNCHANGED <<type, subtype, tagVars>>

-----------------------------------------------------------------------------
\* Tags.

CreateTag(g, x, padded) ==
    /\ tag[g] = Unborn /\ TagTextFree(x, {})
    /\ tag' = [tag EXCEPT ![g] = [text |-> x, padded |-> padded]]
    /\ UNCHANGED <<contractVars, thing, tagged, loose, doubled, tagging>>

RenameTag(g, x, padded) ==
    /\ g \in Tags /\ TagTextFree(x, {g})
    /\ tag' = [tag EXCEPT ![g] = [text |-> x, padded |-> padded]]
    /\ doubled' = doubled \ {g}
    /\ UNCHANGED <<contractVars, thing, tagged, loose, tagging>>

\* What links it to something that is not there stays behind.
DeleteTag(g) ==
    /\ g \in Tags /\ \A i \in Things : <<g, i>> \notin tagged
    /\ tag' = [tag EXCEPT ![g] = Erased]
    /\ UNCHANGED <<contractVars, thing, tagged, loose, doubled, tagging>>

\* EnsureTagLogged, its SELECT: a tag stored with blanks is not found.  To take a
\* tag away it is looked for, and created, no less.
LookTag(p, i, x, add) ==
    LET found == {g \in Tags : tag[g] = [text |-> x, padded |-> FALSE]}
        with(step, g) == tagging' = [tagging EXCEPT ![p] =
            [step |-> step, thing |-> i, text |-> x, tag |-> g, add |-> add]]
    IN  /\ tagging[p].step = "idle"
        /\ \/ found = {} /\ with("creating", NoRef)
           \/ \E g \in found : with("linking", g)
        /\ UNCHANGED <<contractVars, tag, thing, tagged, loose, doubled>>

\* Its INSERT.
AddTag(p, g) ==
    LET x == tagging[p].text IN
    /\ tagging[p].step = "creating" /\ tag[g] = Unborn
    /\ tag' = [tag EXCEPT ![g] = [text |-> x, padded |-> FALSE]]
    /\ doubled' = IF TagTextFree(x, {}) THEN doubled ELSE doubled \cup {g}
    /\ tagging' = [tagging EXCEPT ![p].step = "linking", ![p].tag = g]
    /\ UNCHANGED <<contractVars, thing, tagged, loose>>

\* Mutate of ItemTagWorkflow and SoftwareTagWorkflow, its last statement.
LinkTag(p) ==
    LET link == <<tagging[p].tag, tagging[p].thing>>
        there == link \in Tags \X Things
        add == tagging[p].add
    IN  /\ tagging[p].step = "linking"
        /\ tagged' = IF add THEN tagged \cup {link} ELSE tagged \ {link}
        /\ loose' = IF ~add THEN loose \ {link}
                    ELSE IF link \in tagged \/ there THEN loose ELSE loose \cup {link}
        /\ tagging' = [tagging EXCEPT ![p] = IdleTagging]
        /\ UNCHANGED <<contractVars, tag, thing, doubled>>

\* The request fails or is given up.
TaggingFails(p) ==
    /\ tagging[p].step # "idle"
    /\ tagging' = [tagging EXCEPT ![p] = IdleTagging]
    /\ UNCHANGED <<contractVars, tag, thing, tagged, loose, doubled>>

AddThing(i) ==
    /\ thing[i] = "unborn"
    /\ thing' = [thing EXCEPT ![i] = "there"]
    /\ UNCHANGED <<contractVars, tag, tagged, loose, doubled, tagging>>

\* Its tags go with an item or a software.
EraseThing(i) ==
    /\ thing[i] = "there"
    /\ thing' = [thing EXCEPT ![i] = "erased"]
    /\ tagged' = {link \in tagged : link[2] # i}
    /\ loose' = {link \in loose : link[2] # i}
    /\ UNCHANGED <<contractVars, tag, doubled, tagging>>

\* EnsureTagLinkOrphanCleanup of the next start.
CleanLinks ==
    /\ tagging' = [p \in Tagger |-> IdleTagging]
    /\ tagged' = {link \in tagged : link[2] \in Things}
    /\ loose' = {link \in loose : link[2] \in Things}
    /\ UNCHANGED <<contractVars, tag, thing, doubled>>

-----------------------------------------------------------------------------
ContractsNext ==
    \/ \E t \in Type : DeleteType(t)
    \/ \E t \in Type, x \in Text : CreateType(t, x) \/ UpdateType(t, x)
    \/ \E s \in Subtype : DeleteSubtype(s)
    \/ \E s \in Subtype, x \in Text, t \in Type :
          CreateSubtype(s, x, t) \/ UpdateSubtype(s, x, t)
    \/ \E c \in Contract : DeleteContract(c) \/ \E row \in ContractRow : SaveContract(c, row)

TagsNext ==
    \/ \E g \in Tag : DeleteTag(g)
    \/ \E g \in Tag, x \in Text \ {Blank}, padded \in BOOLEAN :
          CreateTag(g, x, padded) \/ RenameTag(g, x, padded)
    \/ \E p \in Tagger :
          \/ \E i \in Thing, x \in Text \ {Blank}, add \in BOOLEAN : LookTag(p, i, x, add)
          \/ \E g \in Tag : AddTag(p, g)
          \/ LinkTag(p) \/ TaggingFails(p)
    \/ \E i \in Thing : AddThing(i) \/ EraseThing(i)
    \/ CleanLinks

DictionariesNext == ContractsNext \/ TagsNext
DictionariesSpec == DictionariesInit /\ [][DictionariesNext]_dictionaryVars

-----------------------------------------------------------------------------
\* Every variable has its range, and a handler has what its next step needs.
DictionariesTypeOK ==
    /\ type \in [Type -> Text \cup NoRow2]
    /\ subtype \in [Subtype -> SubtypeRow \cup NoRow2]
    /\ contract \in [Contract -> ContractRow \cup NoRow2]
    /\ missing \in [Contract -> SUBSET (Type \cup Subtype \cup Contract)]
    /\ tag \in [Tag -> TagRow \cup NoRow2]
    /\ thing \in [Thing -> {"unborn", "there", "erased"}]
    /\ tagged \subseteq Tag \X Thing
    /\ loose \subseteq tagged
    /\ doubled \subseteq Tag
    /\ tagging \in [Tagger -> Tagging]
    /\ \A p \in Tagger :
          /\ tagging[p].step # "idle" => tagging[p].thing \in Thing /\ tagging[p].text # Blank
          /\ tagging[p].step = "linking" => tagging[p].tag \in Tag

\* No delete takes away what something still refers to: the type, the subtype and
\* the parent of a contract are there, as are the tags of what is there, unless
\* they were not when the reference was written, which nothing asks for.
ReferencesKept ==
    /\ \A c \in Contracts :
          Referents(contract[c]) \subseteq Types \cup Subtypes \cup Contracts \cup missing[c]
    /\ \A link \in tagged : link[2] \in Things => link[1] \in Tags \/ link \in loose

\* No two types have the same text, no two subtypes of a type, no two tags, however
\* they are created, renamed and moved; but for tags added by handlers that
\* overlapped, or that did not see one stored with blanks.
EntriesUnique ==
    /\ \A t, u \in Types : (type[t] = type[u] /\ t # u) => type[t] = Blank
    /\ \A s, u \in Subtypes : (subtype[s] = subtype[u] /\ s # u) => subtype[s].text = Blank
    /\ \A g, h \in Tags : (tag[g].text = tag[h].text /\ g # h) => {g, h} \cap doubled # {}
=============================================================================
