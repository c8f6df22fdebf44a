--------------------------- MODULE ConstantExplorer ---------------------------
(***************************************************************************)
(* explore_constant of ext/racer/racer.cc: what becomes known, and what is *)
(* announced with which trace, when a class or module is met for the first *)
(* time.  It is explored depth first: the namespaces in its name, then its *)
(* prepended and included modules and its superclass, then the modules its *)
(* singleton class includes.  Tracer.tla takes all this for one step; here *)
(* the recursion is a stack of tasks per fiber.                            *)
(*                                                                         *)
(* A fiber explores inside an event handler, under the VM lock.  Looking a *)
(* namespace up by its name may run Ruby code (autoload, const_missing, a  *)
(* warning about a deprecated constant), which may let other fibers run.   *)
(***************************************************************************)
EXTENDS Naturals, SequencesExt, FiniteSets

CONSTANTS
  Fibers,      \* fibers of the program, each on a thread of its own
  Constants,   \* the classes and modules of the program
  Classes,     \* those that are classes
  Object, Kernel,
  Ancestors,   \* rb_mod_ancestors of each
  Extenders,   \* the modules among the ancestors of each singleton class,
               \* up to those of Object's singleton class or Module
  Path,        \* the namespaces in each name: [finds, ruby], ruby: Ruby code may run
  Missing,     \* the lookup ends with a NameError
  None,        \* no fiber, no name
  MaxTraces    \* bound on the number of traces

ASSUME ExplorerAssumption ==
  /\ Classes \subseteq Constants
  /\ {Object, Kernel} \subseteq Constants /\ Object \in Classes /\ Kernel \notin Classes
  /\ Ancestors \in [Constants -> Seq(Constants)]
  /\ \A k \in Constants : Contains(Ancestors[k], k)
  /\ Extenders \in [Constants -> Seq(Constants \ Classes)]
  /\ Path \in [Constants -> Seq([finds : Constants \union {Missing}, ruby : BOOLEAN])]
  /\ Missing \notin Constants /\ None \notin Fibers
  /\ MaxTraces \in Nat

VARIABLES
  known,       \* constant_map: the constants in it
  renamed,     \* constants that got a name made of their object id
  lists,       \* what their Constant objects list, a sequence of names per role
  updates,     \* constant_updates
  tasks,       \* tasks[f]: the calls of explore_constant f is in, innermost last
  vm,          \* the fiber whose handler holds the VM lock
  uses,        \* uses[f]: the name in the trace that f has begun
  log,         \* history: the traces handed to the worker, in order
  warm         \* history: <<k, x>>: k met x when x was in constant_map already

vars == <<known, renamed, lists, updates, tasks, vm, uses, log, warm>>

ModuleRoles == {"prepended", "included", "extended"}
Roles == ModuleRoles \union {"superclass"}

Init ==
  /\ known = {} /\ renamed = {}
  /\ lists = [k \in Constants |-> [r \in Roles |-> <<>>]]
  /\ updates = <<>>
  /\ tasks = [f \in Fibers |-> <<>>]
  /\ vm = None
  /\ uses = [f \in Fibers |-> None]
  /\ log = <<>>
  /\ warm = {}

------------------------------------------------------------------------------
(* What an exploration visits, in order. *)

Item(role, k) == [role |-> role, const |-> k, ruby |-> FALSE]

Spaces(k) ==
  [i \in DOMAIN Path[k] |-> [role |-> "space", const |-> Path[k][i].finds, ruby |-> Path[k][i].ruby]]

(* The modules before k are prepended, those behind it included; the first   *)
(* class behind it is its superclass, unless that is Object, and then its    *)
(* own part of the chain is over.                                            *)
StopObject(k) == IF k = Object THEN Kernel ELSE Object

Modules(role, modules) == [i \in DOMAIN modules |-> Item(role, modules[i])]

OwnAncestors(k) ==
  LET chain == Ancestors[k]
      own == CHOOSE i \in DOMAIN chain : chain[i] = k
      Ends(i) == \/ chain[i] = StopObject(k)
                 \/ k \in Classes /\ chain[i] \in Classes /\ i > own
      end == CHOOSE n \in 1..(Len(chain) + 1) :
               /\ \A i \in 1..(n - 1) : ~Ends(i)
               /\ n <= Len(chain) => Ends(n)
      before == IF own < end THEN own ELSE end
      modules == Modules("prepended", SubSeq(chain, 1, before - 1))
                   \o Modules("included", SubSeq(chain, own + 1, end - 1))
  IN  IF end <= Len(chain) /\ chain[end] # StopObject(k)
        THEN Append(modules, Item("superclass", chain[end]))
        ELSE modules

Extends(k) == Modules("extended", Extenders[k])

ItemsMixinsFirst(k) == OwnAncestors(k) \o Extends(k) \o Spaces(k)   \* mutation
Items(k) == Spaces(k) \o OwnAncestors(k) \o Extends(k)

------------------------------------------------------------------------------
(* One fiber at a time explores. *)

Name(k) == [const |-> k, id |-> k \in renamed]

Top(f) == Last(tasks[f])
Item1(f) == Head(Top(f).todo)
NextItem(s) == [s EXCEPT ![Len(s)].todo = Tail(@)]

(* explore_constant begins: constant_map has k from now on.  up: the caller  *)
(* passes its inner_constants as visited_constants.                          *)
EnterUnknown(f, k, up) ==   \* mutation: constant_map does not get k
  /\ UNCHANGED known
  /\ tasks' = [tasks EXCEPT ![f] =
                 Append(@, [const |-> k, todo |-> Items(k), inner |-> {}, up |-> up])]

Enter(f, k, up) ==
  /\ known' = known \union {k}
  /\ tasks' = [tasks EXCEPT ![f] =
                 Append(@, [const |-> k, todo |-> Items(k), inner |-> {}, up |-> up])]

(* The caller's visited_constants get the modules in vs. *)
HandUp(s, vs) ==
  IF Last(s).up THEN [s EXCEPT ![Len(s) - 1].inner = @ \union vs] ELSE s

(* The innermost task of the stack s has explored its next item, x: it is    *)
(* listed by the name it has now.                                            *)
Listed(s, x) ==
  LET role == Head(Last(s).todo).role
  IN  NextItem(IF role \in ModuleRoles THEN HandUp(s, {x}) ELSE s)

ListsAfter(s, x) ==
  LET item == Head(Last(s).todo)
  IN  IF item.role \in Roles
        THEN [lists EXCEPT ![Last(s).const][item.role] = Append(@, Name(x))]
        ELSE lists

(* An event of f mentions constant k. *)
Begin(f, k) ==
  /\ vm = None /\ tasks[f] = <<>> /\ uses[f] = None
  /\ Len(log) + Cardinality({g \in Fibers : uses[g] # None \/ tasks[g] # <<>>}) < MaxTraces
  /\ IF k \in known
       THEN uses' = [uses EXCEPT ![f] = Name(k)] /\ UNCHANGED <<known, tasks, vm>>
       ELSE Enter(f, k, FALSE) /\ vm' = f /\ UNCHANGED uses
  /\ UNCHANGED <<renamed, lists, updates, log, warm>>

Exploring(f, roles) ==
  vm = f /\ Top(f).todo # <<>> /\ Item1(f).role \in roles

(* rb_const_get_at runs Ruby code, and others may run before it returns. *)
RunRuby(f) ==
  /\ Exploring(f, {"space"}) /\ Item1(f).ruby
  /\ tasks' = [tasks EXCEPT ![f][Len(tasks[f])].todo[1].ruby = FALSE]
  /\ vm' = None
  /\ UNCHANGED <<known, renamed, lists, updates, uses, log, warm>>

Resume(f) ==
  /\ vm = None /\ tasks[f] # <<>>
  /\ vm' = f
  /\ UNCHANGED <<known, renamed, lists, updates, tasks, uses, log, warm>>

(* The namespace includes an anonymous class, or is gone: the constant is    *)
(* named after its object id, and its other namespaces are not explored.     *)
Rename(f) ==
  /\ Exploring(f, {"space"}) /\ ~Item1(f).ruby /\ Item1(f).const = Missing
  /\ renamed' = renamed \union {Top(f).const}
  /\ tasks' = [tasks EXCEPT ![f][Len(tasks[f])].todo =
                 OwnAncestors(Top(f).const) \o Extends(Top(f).const)]
  /\ UNCHANGED <<known, lists, updates, vm, uses, log, warm>>

SkipKnown(f) ==   \* mutation: a module already in constant_map is skipped
  /\ Exploring(f, ModuleRoles) /\ Item1(f).const \in known
  /\ tasks' = [tasks EXCEPT ![f] = NextItem(@)]
  /\ UNCHANGED <<known, renamed, lists, updates, vm, uses, log, warm>>

(* A module that was met inside one explored just before is not listed. *)
SkipInner(f) ==
  /\ Exploring(f, ModuleRoles) /\ Item1(f).const \in Top(f).inner
  /\ tasks' = [tasks EXCEPT ![f] = NextItem(@)]
  /\ UNCHANGED <<known, renamed, lists, updates, vm, uses, log, warm>>

Visits(f) ==
  /\ Exploring(f, Roles \union {"space"})
  /\ ~Item1(f).ruby /\ Item1(f).const # Missing
  /\ Item1(f).role \in ModuleRoles => Item1(f).const \notin Top(f).inner

Known(f) ==
  LET x == Item1(f).const
  IN  /\ Visits(f) /\ x \in known
      /\ tasks' = [tasks EXCEPT ![f] = Listed(@, x)]
      /\ lists' = ListsAfter(tasks[f], x)
      /\ warm' = warm \union {<<Top(f).const, x>>}
      /\ UNCHANGED <<known, renamed, updates, vm, uses, log>>

Descend(f) ==
  LET x == Item1(f).const
  IN  /\ Visits(f) /\ x \notin known
      /\ Enter(f, x, Item1(f).role \in ModuleRoles)
      /\ UNCHANGED <<renamed, lists, updates, vm, uses, log, warm>>

(* explore_constant returns, and the caller lists what it has explored. *)
FinishWith(f, rest) ==
  LET k == Top(f).const
  IN  /\ vm = f /\ Top(f).todo = <<>>
      /\ updates' = Append(updates, k)
      /\ IF rest = <<>>
           THEN /\ uses' = [uses EXCEPT ![f] = Name(k)]
                /\ vm' = None
                /\ tasks' = [tasks EXCEPT ![f] = rest]
                /\ UNCHANGED lists
           ELSE /\ tasks' = [tasks EXCEPT ![f] = Listed(rest, k)]
                /\ lists' = ListsAfter(rest, k)
                /\ UNCHANGED <<uses, vm>>
      /\ UNCHANGED <<known, renamed, log, warm>>

Finish(f) == FinishWith(f, Front(HandUp(tasks[f], Top(f).inner)))

OnTasks == {k \in Constants : \E f \in Fibers : \E i \in DOMAIN tasks[f] : tasks[f][i].const = k}

(* Mutations: the constants are not cleared; they wait for the next trace.   *)
EmitKeepsUpdates(f) ==
  /\ vm = None /\ tasks[f] = <<>> /\ uses[f] # None
  /\ log' = Append(log, [uses |-> uses[f], updates |-> updates, open |-> OnTasks])
  /\ uses' = [uses EXCEPT ![f] = None]
  /\ UNCHANGED <<known, renamed, lists, updates, tasks, vm, warm>>

EmitWithoutUpdates(f) ==
  /\ vm = None /\ tasks[f] = <<>> /\ uses[f] # None
  /\ log' = Append(log, [uses |-> uses[f], updates |-> <<>>, open |-> OnTasks])
  /\ uses' = [uses EXCEPT ![f] = None]
  /\ UNCHANGED <<known, renamed, lists, updates, tasks, vm, warm>>

(* The return event takes all pending constants along with its trace. *)
Emit(f) ==
  /\ vm = None /\ tasks[f] = <<>> /\ uses[f] # None
  /\ log' = Append(log, [uses |-> uses[f], updates |-> updates, open |-> OnTasks])
  /\ updates' = <<>>
  /\ uses' = [uses EXCEPT ![f] = None]
  /\ UNCHANGED <<known, renamed, lists, tasks, vm, warm>>

(* The program ends. *)
Done ==
  /\ Len(log) = MaxTraces
  /\ UNCHANGED vars

Next ==
  \/ \E f \in Fibers :
       \/ \E k \in Constants : Begin(f, k)
       \/ RunRuby(f) \/ Resume(f) \/ Rename(f)
       \/ SkipInner(f) \/ Known(f) \/ Descend(f) \/ Finish(f)
       \/ Emit(f)
  \/ Done

Spec == Init /\ [][Next]_vars

------------------------------------------------------------------------------
(* Properties *)

Names(k) == UNION {Range(lists[k][r]) : r \in Roles}
Quiet == OnTasks = {}

TypeOK ==
  /\ known \subseteq Constants /\ renamed \subseteq known
  /\ vm \in Fibers \union {None}
  /\ vm # None => tasks[vm] # <<>>
  /\ \A f \in Fibers : tasks[f] # <<>> => ~Head(tasks[f]).up
  /\ \A k \in Constants : \A n \in Names(k) : n.const \in known

(* Every constant in constant_map is explored once, whatever cycles names    *)
(* and mixins form and however many fibers explore: it is being explored,    *)
(* or waits in constant_updates, or was announced - one of them, once.       *)
Places(k) ==
  {<<"updates", i>> : i \in {j \in DOMAIN updates : updates[j] = k}}
    \union (UNION {{<<"task", f, i>> : i \in {j \in DOMAIN tasks[f] : tasks[f][j].const = k}}
                   : f \in Fibers})
    \union (UNION {{<<"log", n, i>> : i \in {j \in DOMAIN log[n].updates : log[n].updates[j] = k}}
                   : n \in DOMAIN log})

ConstantsAccounted ==
  \A k \in Constants : Cardinality(Places(k)) = IF k \in known THEN 1 ELSE 0

(* The constant a trace mentions is announced with it or before, unless      *)
(* another fiber is still exploring it when the trace is handed over.        *)
AnnouncedUpTo(n) == UNION {Range(log[i].updates) : i \in 1..n}

AnnouncedInTime ==
  \A n \in DOMAIN log : log[n].uses.const \in AnnouncedUpTo(n) \union log[n].open

(* Once nothing is being explored, every name in a trace or in a list is the *)
(* name of a known constant - unless that one was renamed after Ruby code    *)
(* or another exploration had had a chance to pick up its first name.  One   *)
(* whose outermost namespace is anonymous is never known by a wrong name.    *)
RenamedAtOnce(k) == Path[k] # <<>> /\ Path[k][1] = [finds |-> Missing, ruby |-> FALSE]
RenamedLate(k) == ~RenamedAtOnce(k) /\ \E i \in DOMAIN Path[k] : Path[k][i].finds = Missing

Resolves(n) == n = Name(n.const) \/ RenamedLate(n.const)

NamesResolve ==
  Quiet => /\ \A k \in known : \A n \in Names(k) : Resolves(n)
           /\ \A i \in DOMAIN log : Resolves(log[i].uses)

(* What the lists of a constant say: the modules it and they mix in. *)
Listing(k, roles) == {n.const : n \in UNION {Range(lists[k][r]) : r \in roles}}
Mixed(k) == Listing(k, {"prepended", "included"})

Closure(S, Next1(_)) ==
  FoldLeft(LAMBDA reached, i : reached \union UNION {Next1(x) : x \in reached},
           S, [i \in 1..Cardinality(Constants) |-> i])

MixedIn(S) == Closure(S, Mixed)

(* What Ruby says. *)
Chain == [k \in Constants |->
            {item.const : item \in {i \in Range(OwnAncestors(k)) : i.role \in ModuleRoles}}]
Extending == [k \in Constants |-> Range(Extenders[k])]
Below(S) == Closure(S, LAMBDA x : Chain[x] \union Extending[x])

(* No mixin is lost: what is not listed is mixed in by what is listed, so    *)
(* that the RBS classes have the modules of the Ruby classes.  This fails    *)
(* for a module that another one among the mixins extends, and for one that  *)
(* extends the constant and is also below one of its included modules: the   *)
(* filter does not tell the two ways of mixing in apart.                     *)
LostIncludes ==
  [k \in Constants |-> UNION {Extending[x] : x \in Below(Chain[k])}]
LostExtends ==
  [k \in Constants |-> UNION {Chain[x] \union Extending[x] : x \in Below(Chain[k])}
                         \union UNION {Extending[x] : x \in Below(Extending[k])}]

NoMixinLost ==
  Quiet => \A k \in known :
    /\ Chain[k] \subseteq MixedIn(Mixed(k)) \union LostIncludes[k]
    /\ Extending[k] \subseteq MixedIn(Listing(k, {"extended"})) \union LostExtends[k]

(* A module that another included module includes is not listed again,       *)
(* unless that one was in constant_map already when the constant met it.  A  *)
(* module that is prepended to an included one comes before it among the     *)
(* ancestors, and is listed for both.                                        *)
Prepended ==
  [k \in Constants |->
     {item.const : item \in {i \in Range(OwnAncestors(k)) : i.role = "prepended"}}]

NoRedundantMixin ==
  \A k \in known : \A x \in Mixed(k) :
    <<k, x>> \notin warm /\ Quiet => \A y \in Mixed(k) \ {x} : y \notin Chain[x] \ Prepended[x]

(* The lists have the mixins they should have, and no more. *)
MixinsComplete == NoMixinLost /\ NoRedundantMixin
==============================================================================
