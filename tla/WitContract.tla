---------------------------- MODULE WitContract ----------------------------
(***************************************************************************)
(* The component descriptor of a plugin package and the WIT world that is  *)
(* rendered from it: plugin_runtime/host-contract/src/contract.rs.         *)
(*                                                                         *)
(* A name is a model value or a string; which names are identifiers, and   *)
(* which are paths of imports, is given.  The rendered text is modelled by *)
(* what it declares: the package, the interfaces in their order, each with *)
(* its records and functions, and the imports and exports of the world.    *)
(***************************************************************************)
EXTENDS Naturals, Sequences, FiniteSets, SequencesExt, Collections

CONSTANTS
  Identifiers,      \* the names validate_wit_identifier accepts
  ImportPaths,      \* the names validate_wit_import_path accepts
  Packages          \* the names validate_wit_package accepts: namespace:name

\* An Option that is None.
Absent == "absent"

Primitives == {"bool", "u8", "u16", "u32", "u64", "s8", "s16", "s32", "s64", "f32", "f64",
               "char", "string", "_"}

----------------------------------------------------------------------------
(* The descriptors.                                                        *)

Field(name, ty) == [name |-> name, ty |-> ty]
Result(ok, err) == [ok |-> ok, err |-> err]
\* A function has the set of its result, which may be none.
Function(name, params, result) == [name |-> name, params |-> params, result |-> result]
Record(name, fields) == [name |-> name, fields |-> fields]
Interface(name, external, records, functions) ==
  [name |-> name, external |-> external, records |-> records, functions |-> functions]
Component(package, world, imports, exports) ==
  [wit_package |-> package, world |-> world, imports |-> imports, exports |-> exports]

----------------------------------------------------------------------------
(* Their validation.                                                       *)

\* The names of a list are apart: `BTreeSet::insert' succeeds for each.
NamesApart(list) == \A i, j \in DOMAIN list : list[i].name = list[j].name => i = j

Identifier(name) == name \in Identifiers

ValidType(ty) == ty \in Primitives \/ Identifier(ty)

ValidField(field) == Identifier(field.name) /\ ValidType(field.ty)

ValidFields(fields) == (\A i \in DOMAIN fields : ValidField(fields[i])) /\ NamesApart(fields)

ValidResult(result) ==
  /\ result.ok # Absent \/ result.err # Absent
  /\ result.ok # Absent => ValidType(result.ok)
  /\ result.err # Absent => ValidType(result.err)

ValidFunction(function) ==
  /\ Identifier(function.name)
  /\ ValidFields(function.params)
  /\ \A result \in function.result : ValidResult(result)

ValidRecord(record) == Identifier(record.name) /\ ValidFields(record.fields)

\* An interface from elsewhere has no items here.
ExternalIsEmpty(interface) ==
  /\ interface.external \in ImportPaths
  /\ interface.records = <<>>
  /\ interface.functions = <<>>

ValidInterface(interface) ==
  /\ Identifier(interface.name)
  /\ interface.external # Absent => ExternalIsEmpty(interface)
  /\ \A i \in DOMAIN interface.records : ValidRecord(interface.records[i])
  /\ NamesApart(interface.records)
  /\ \A i \in DOMAIN interface.functions : ValidFunction(interface.functions[i])
  /\ NamesApart(interface.functions)

\* A slip: exports are validated as imports are.
ValidInterfacesAlike(kind, interfaces) ==
  /\ \A i \in DOMAIN interfaces : ValidInterface(interfaces[i])
  /\ NamesApart(interfaces)

ValidInterfaces(kind, interfaces) ==
  /\ \A i \in DOMAIN interfaces : ValidInterface(interfaces[i])
  /\ kind = "export" => \A i \in DOMAIN interfaces : interfaces[i].external = Absent
  /\ NamesApart(interfaces)

ValidComponent(component) ==
  /\ component.wit_package \in Packages
  /\ Identifier(component.world)
  /\ ValidInterfaces("import", component.imports)
  /\ ValidInterfaces("export", component.exports)

----------------------------------------------------------------------------
(* Rendering.                                                              *)

Refused == [ok |-> FALSE]

RenderResult(result) ==
  CASE result.ok # Absent /\ result.err # Absent -> <<"result", result.ok, result.err>>
    [] result.ok # Absent /\ result.err = Absent -> <<result.ok>>
    [] result.ok = Absent /\ result.err # Absent -> <<"result", "_", result.err>>
    [] OTHER -> <<"result">>

RenderFunction(function) ==
  [name |-> function.name, params |-> function.params,
   returns |-> {RenderResult(result) : result \in function.result}]

RenderInterface(interface) ==
  [name |-> interface.name, records |-> interface.records,
   functions |-> [i \in DOMAIN interface.functions |-> RenderFunction(interface.functions[i])]]

Local(interface) == interface.external = Absent

RenderImport(interface) == IF Local(interface) THEN interface.name ELSE interface.external

RenderWitWorld(component) ==
  IF ~ValidComponent(component) THEN Refused
  ELSE LET all == component.imports \o component.exports
           local == Picked(all, {i \in DOMAIN all : Local(all[i])})
       IN [ok |-> TRUE, package |-> component.wit_package, world |-> component.world,
           interfaces |-> [i \in DOMAIN local |-> RenderInterface(local[i])],
           imports |-> [i \in DOMAIN component.imports |-> RenderImport(component.imports[i])],
           exports |-> [i \in DOMAIN component.exports |-> component.exports[i].name]]

----------------------------------------------------------------------------
(* What a reader of the world relies on.                                   *)

DefinedNames(world) == {world.interfaces[i].name : i \in DOMAIN world.interfaces}

\* The interfaces that the world exports are defined in it, those it imports are, or
\* are paths, and it defines no others.  Of what an interface contains nothing is
\* said: its types are names that nobody looks up.
InterfacesDefined(world) ==
  /\ ToSet(world.exports) \subseteq DefinedNames(world)
  /\ ToSet(world.imports) \subseteq DefinedNames(world) \cup ImportPaths
  /\ DefinedNames(world) \subseteq ToSet(world.imports) \cup ToSet(world.exports)

\* No name is defined twice, unless an import and an export were given the same.
DefinedOnce(world) ==
  \A i, j \in DOMAIN world.interfaces :
     (i # j /\ world.interfaces[i].name = world.interfaces[j].name)
       => /\ world.interfaces[i].name \in ToSet(world.imports)
          /\ world.interfaces[i].name \in ToSet(world.exports)

\* The types that an interface names, and those that it may name: a built-in one, or
\* a record of its own.
TypesIn(interface) ==
  UNION {{fields[i].ty : i \in DOMAIN fields} :
         fields \in {interface.records[i].fields : i \in DOMAIN interface.records}
                    \cup {interface.functions[i].params : i \in DOMAIN interface.functions}}
  \cup UNION UNION {{ToSet(result) : result \in interface.functions[i].returns} :
                    i \in DOMAIN interface.functions}

TypesOf(interface) ==
  Primitives \cup {"result"}
  \cup {interface.records[i].name : i \in DOMAIN interface.records}

=============================================================================
