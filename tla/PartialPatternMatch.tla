------------------------ MODULE PartialPatternMatch -------------------------
(***************************************************************************)
(* The decorator UsePartialPatternMatch, applied while the classes of an   *)
(* application are defined, one after the other.  It writes an option on   *)
(* the methods of a class, those it inherits included; a method object is  *)
(* shared by every class that inherits it.                                 *)
(***************************************************************************)
CONSTANTS
  Class,     \* the controllers and their bases
  Method,    \* the methods with a message pattern
  Name,      \* the name of each method
  Owner,     \* the class that declares it
  Lineage    \* each class with its bases: the objects of its prototype chain

ASSUME OwnerAssumption == Owner \in [Method -> Class]
ASSUME LineageAssumption ==
  Lineage \in [Class -> SUBSET Class] /\ \A c \in Class : c \in Lineage[c]

Option == {"none", "partial", "full"}   \* no partialMatch, or true, or false

VARIABLES
  marked,   \* the classes with the decorator
  option,   \* the option that MessagePattern gives each method
  defined,  \* the classes that have been evaluated
  extras    \* the option a method has now

vars == <<marked, option, defined, extras>>

DecoratorTypeOK ==
  /\ marked \in SUBSET Class /\ defined \in SUBSET Class
  /\ option \in [Method -> Option]
  /\ extras \in [Method -> Option]

Init ==
  /\ marked \in SUBSET Class
  /\ option \in [Method -> Option]
  /\ defined = {}
  /\ extras = [m \in Method |-> "none"]

\* getClassMethods: all methods up the prototype chain, overridden ones too.
ClassMethods(c) == {m \in Method : Owner[m] \in Lineage[c]}

\* Mutant: the decorator overrides the method's own option.
WithPartialMatchFirst(o) == "partial"

\* Mutant: the metadata is true, not an object with that option.
WithPartialMatchBare(o) == IF o = "none" THEN "true" ELSE o

\* {partialMatch: true, ...extras}
WithPartialMatch(o) == IF o = "none" THEN "partial" ELSE o

\* Mutants: the decorator does its work without being there; only on the
\* methods that the class declares itself.
DecoratedAlways(c) == ClassMethods(c)

DecoratedOwn(c) == IF c \in marked THEN {m \in Method : Owner[m] = c} ELSE {}

\* The methods that the definition of c writes an option on, besides its own.
Decorated(c) == IF c \in marked THEN ClassMethods(c) ELSE {}

\* The class is evaluated after its bases; its method decorators run first.
Declared(c) == [m \in Method |-> IF Owner[m] = c THEN option[m] ELSE extras[m]]

DefineClass(c) ==
  /\ c \notin defined
  /\ Lineage[c] \ {c} \subseteq defined
  /\ defined' = defined \cup {c}
  /\ extras' = [m \in Method |->
       IF m \in Decorated(c) THEN WithPartialMatch(Declared(c)[m]) ELSE Declared(c)[m]]
  /\ UNCHANGED <<marked, option>>

Next == \E c \in Class : DefineClass(c)

Spec == Init /\ [][Next]_vars

-----------------------------------------------------------------------------
\* The handlers Nest registers for a class: a method overrides those of the
\* same name further up.
Overrides(m, n) == m # n /\ Name[m] = Name[n] /\ Owner[n] \in Lineage[Owner[m]]

Handlers(c) == {m \in ClassMethods(c) : \A n \in ClassMethods(c) : ~Overrides(n, m)}

\* The decorator makes each handler of its class partial that does not say
\* otherwise, inherited ones included, in whatever order the classes of the
\* application are loaded (README.md:215).
MarkedHandlersArePartial ==
  \A c \in marked \cap defined : \A m \in Handlers(c) :
    option[m] = "none" => extras[m] = "partial"

\* An option given to MessagePattern is what the handler has in the end,
\* however many of the classes that share it are decorated.
ExplicitOptionWins ==
  \A m \in Method : Owner[m] \in defined /\ option[m] # "none" => extras[m] = option[m]

\* The other handlers stay full matches, but for a method that their class
\* shares with a decorated one, by inheriting it or by handing it down.
OnlySharedMethodsChange ==
  \A c \in defined \ marked : \A m \in Handlers(c) :
    extras[m] = "partial" /\ option[m] # "partial" =>
      \E d \in marked \cap defined : d # c /\ m \in ClassMethods(d)
=============================================================================
