----------------------------- MODULE Declarations -----------------------------
(***************************************************************************)
(* From announced constants to declarations: push_constant_to_results and  *)
(* find_self_types in lib/racer/collectors/rbs_collector.rb, upon what     *)
(* ConstantExplorer announces.  The collector gets the traces in order     *)
(* (Racer.tla), so that its @results and @existing_types are functions of  *)
(* the log; stop may follow any trace.                                     *)
(*                                                                         *)
(* Of the self types that a module can get only BasicObject is modelled:   *)
(* taking over those of a signature ends in a NameError.                   *)
(***************************************************************************)
EXTENDS ConstantExplorer

CONSTANTS
  Signed,        \* the constants RBS has a declaration for
  SelfTyped,     \* the modules whose declaration has self types
  SignedMixins   \* SignedMixins[k][role]: the modules it mixes in

ASSUME DeclarationsAssumption ==
  /\ IsFiniteSet(Constants)
  /\ SelfTyped \subseteq Signed \ Classes /\ Signed \subseteq Constants
  /\ SignedMixins \in [Signed -> [ModuleRoles -> SUBSET Constants]]

------------------------------------------------------------------------------
(* The collector's tables after the traces so far. *)

Announced == UNION {Range(log[n].updates) : n \in DOMAIN log}

(* push_constant_to_results.  A constant with a declaration does not repeat  *)
(* the mixins it has there.                                                  *)
CollectedUnsigned == Announced \ Signed   \* mutation: those with one are not stored
Collected == Announced

Result(n) == {k \in Collected : Name(k) = n}   \* @results[n]

Spelled(k) == [const |-> k, id |-> FALSE]

Mixins(k, role) ==
  {n \in Range(lists[k][role]) :
     k \in Signed => n \notin {Spelled(x) : x \in SignedMixins[k][role]}}

ModulesInObject ==   \* @modules_in_object_class
  IF Object \in Collected
    THEN Mixins(Object, "included") \union Mixins(Object, "prepended")
    ELSE {}

(* find_self_types: it visits the included modules of a module, theirs, and  *)
(* so on, and looks each up in @results.                                     *)
IncludedByOwner(k) == Mixins(k, "included")   \* mutation: it does not go on

AndTheirs(names) ==
  names \union UNION {UNION {Mixins(x, "included") : x \in Result(n)} : n \in names}

Rounds(k) ==   \* Rounds(k)[i]: up to depth i + 1; no chain of modules is longer
  LET round[i \in 0..Cardinality(Constants)] ==
        IF i = 0 THEN Mixins(k, "included") ELSE AndTheirs(round[i - 1])
  IN  round
Visited(k) == Rounds(k)[Cardinality(Constants)]

(* It fails at a name that is not in @results, and at a module whose self    *)
(* types it would take over from the declaration.                            *)
Raises(n) == Result(n) \intersect (Constants \ SelfTyped) = {}

BasicObjectSelf ==
  LET inObject == ModulesInObject
  IN  {k \in Collected \ Classes : ({Name(k)} \union Visited(k)) \intersect inObject # {}}

------------------------------------------------------------------------------
(* Properties *)

(* stop can declare every module it knows: the modules in its mixins have    *)
(* been collected, whatever fibers announced them in what order.  It fails   *)
(* only at a module with self types in its declaration, at a name that was   *)
(* copied before a late rename, and for a module that a fiber was exploring  *)
(* while another one announced what includes it.                             *)
OpenAtSomeTrace == UNION {log[n].open : n \in DOMAIN log}

StopFinishes ==
  \A k \in Collected \ Classes : \A n \in Visited(k) :
    Raises(n) => \/ n.const \in SelfTyped \union OpenAtSomeTrace
                 \/ RenamedLate(n.const)

(* The self types in the declarations fit: modules in Object's ancestors do  *)
(* not have Object for a self type, and neither does a module that includes  *)
(* one of them.  A module below another one of Object's is not listed in     *)
(* Object and goes without.                                                  *)
BelowOthers(k) == UNION {Chain[x] \union Extending[x] : x \in Chain[k]}

SelfTypesFit ==
  LET basic == BasicObjectSelf
  IN  /\ Object \in Collected =>
           (Chain[Object] \ BelowOthers(Object)) \intersect Collected \subseteq basic
      /\ \A k \in Collected \ Classes :
           (Chain[k] \ LostIncludes[k]) \intersect basic # {} => k \in basic
==============================================================================
