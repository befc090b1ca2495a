---------------------------- MODULE PascalNames ----------------------------
(***************************************************************************)
(* The two phases in which the compiler finds out what the names of a unit *)
(* mean: the type registry binds type names while the parser reads the     *)
(* unit, and the emitter looks all other names up when it writes C++.  A   *)
(* behaviour is one of the phases.                                         *)
(***************************************************************************)
EXTENDS NameLookup

CONSTANTS Uses, Exports, Lists, MaxLists, MaxDeclarations        \* of TypeScopes

ASSUME TypeScopesAssumption ==
  /\ DOMAIN Uses = {"interface", "implementation"}
  /\ MaxLists \in Nat /\ MaxDeclarations \in Nat
  /\ Main # Runtime /\ \A k \in DOMAIN Exports : Exports[k].unit # Main

VARIABLES phase, registry, chain, section, text

lookupState == <<world, members, scope, saved, opened>>
typeState == <<registry, chain, section, text>>

Types == INSTANCE TypeScopes WITH Unit <- Main

BothInit ==
  /\ phase \in {"parsing", "emitting"}
  /\ Init /\ Types!Init

BothNext ==
  \/ phase = "emitting" /\ Next /\ UNCHANGED <<phase, typeState>>
  \/ phase = "parsing" /\ Types!Next /\ UNCHANGED <<phase, lookupState>>

BothSpec == BothInit /\ [][BothNext]_<<phase, lookupState, typeState>>

\* What the texts are made of.
ASSUME ListsAssumption == \A list \in Lists : Types!IsUnitList(list)

-----------------------------------------------------------------------------
(* Every written type name is bound to the declaration Pascal means, while the
   tables of the unit fill up, or an error is reported.
   (TypeDescriptorResolver::resolve_named_type_symbol.) *)
TypesMeanTheirDeclarations == Types!TypesMeanTheirDeclarations

(* A name that is declared twice in a scope is reported, and nothing else is.
   (register_decl_list, index_decl_list_contexts.) *)
DuplicatesAreReported == Types!DuplicatesAreReported
=============================================================================
