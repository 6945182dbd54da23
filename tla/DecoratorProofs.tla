-------------------------- MODULE DecoratorProofs ---------------------------
(***************************************************************************)
(* PartialPatternMatch, for any classes, inheritance and options: the      *)
(* outcome does not depend on the order in which classes are evaluated.    *)
(***************************************************************************)
EXTENDS PartialPatternMatch, TLAPS

\* Some decorated class that has been evaluated has the method.
Reached(m) == \E c \in marked \cap defined : m \in ClassMethods(c)

Outcome(m) ==
  IF Owner[m] \notin defined THEN "none"
  ELSE IF option[m] # "none" THEN option[m]
  ELSE IF Reached(m) THEN "partial" ELSE "none"

\* What decorators have written so far, in closed form; a class is evaluated
\* after those that it inherits from.
DecoratorInv ==
  /\ DecoratorTypeOK
  /\ \A c \in defined : Lineage[c] \subseteq defined
  /\ \A m \in Method : extras[m] = Outcome(m)

\* Before any class is evaluated no option is written.
LEMMA DecoratorInitially == Init => DecoratorInv
BY DEF Init, DecoratorInv, DecoratorTypeOK, Outcome, Option

\* Stuttering steps.
LEMMA DecoratorStutters == DecoratorInv /\ UNCHANGED vars => DecoratorInv'
BY DEF DecoratorInv, DecoratorTypeOK, Outcome, Reached, vars

\* What is declared for a method before the decorator of its class, or of one
\* that inherits it, runs.
LEMMA DefineClassKeepsOutcome ==
  ASSUME DecoratorInv, NEW c \in Class, DefineClass(c), NEW m \in Method
  PROVE  extras'[m] = Outcome(m)'
<1>1. /\ c \notin defined /\ defined' = defined \cup {c}
      /\ Lineage[c] \subseteq defined'
      /\ marked' = marked /\ option' = option
  BY DEF DefineClass
<1>2. extras'[m] = IF m \in Decorated(c) THEN WithPartialMatch(Declared(c)[m]) ELSE Declared(c)[m]
  BY DEF DefineClass
<1>3. \A d \in Class : c \in Lineage[d] => d \notin defined
  BY <1>1 DEF DecoratorInv, DecoratorTypeOK
<1>4. Reached(m)' <=> Reached(m) \/ m \in Decorated(c)
  BY <1>1 DEF Reached, Decorated, ClassMethods
<1>5. option[m] \in Option /\ Owner[m] \in Class
  BY OwnerAssumption DEF DecoratorInv, DecoratorTypeOK
<1>6. CASE Owner[m] = c
  <2>1. Declared(c)[m] = option[m]
    BY <1>6 DEF Declared
  <2>2. ~Reached(m)
    BY <1>3, <1>6 DEF Reached, ClassMethods, DecoratorInv, DecoratorTypeOK
  <2>3. Owner[m] \in defined'
    BY <1>1, <1>6
  <2> QED BY <1>1, <1>2, <1>4, <1>5, <2>1, <2>2, <2>3 DEF WithPartialMatch, Outcome, Option
<1>7. CASE Owner[m] # c
  <2>1. Declared(c)[m] = Outcome(m)
    BY <1>7 DEF Declared, DecoratorInv
  <2>2. m \in Decorated(c) => Owner[m] \in defined
    BY <1>1, <1>7 DEF Decorated, ClassMethods
  <2>3. Owner[m] \in defined' <=> Owner[m] \in defined
    BY <1>1, <1>7
  <2> QED BY <1>1, <1>2, <1>4, <1>5, <2>1, <2>2, <2>3 DEF WithPartialMatch, Outcome, Option
<1> QED BY <1>6, <1>7

\* The evaluation of one class, for all methods.
LEMMA DefineClassKeepsInv ==
  ASSUME DecoratorInv, NEW c \in Class, DefineClass(c)
  PROVE  DecoratorInv'
<1>1. \A m \in Method : extras'[m] = Outcome(m)'
  BY DefineClassKeepsOutcome
<1>2. \A m \in Method : Outcome(m)' \in Option
  BY DEF DecoratorInv, DecoratorTypeOK, DefineClass, Outcome, Option
<1>3. DecoratorTypeOK'
  BY <1>1, <1>2 DEF DecoratorInv, DecoratorTypeOK, DefineClass
<1>4. (\A d \in defined : Lineage[d] \subseteq defined)'
  BY DEF DecoratorInv, DefineClass
<1> QED BY <1>1, <1>3, <1>4 DEF DecoratorInv

\* The closed form holds throughout.
LEMMA DecoratorInvariant == Spec => []DecoratorInv
<1>1. DecoratorInv /\ [Next]_vars => DecoratorInv'
  BY DefineClassKeepsInv, DecoratorStutters DEF Next
<1> QED BY <1>1, DecoratorInitially, PTL DEF Spec

-----------------------------------------------------------------------------
\* A method has one of the three options at every time.
THEOREM DecoratorTypes == Spec => []DecoratorTypeOK
<1>1. DecoratorInv => DecoratorTypeOK
  BY DEF DecoratorInv
<1> QED BY <1>1, DecoratorInvariant, PTL

\* No order of evaluation and no other class takes the option back.
THEOREM MarkingReachesHandlers == Spec => []MarkedHandlersArePartial
<1>1. DecoratorInv => MarkedHandlersArePartial
  <2> SUFFICES ASSUME DecoratorInv, NEW c \in marked \cap defined, NEW m \in Handlers(c), option[m] = "none"
               PROVE  extras[m] = "partial"
    BY DEF MarkedHandlersArePartial
  <2>1. m \in ClassMethods(c) /\ m \in Method /\ Owner[m] \in Lineage[c]
    BY DEF Handlers, ClassMethods
  <2>2. Owner[m] \in defined /\ Reached(m)
    BY <2>1 DEF DecoratorInv, Reached
  <2> QED BY <2>1, <2>2 DEF DecoratorInv, Outcome
<1> QED BY <1>1, DecoratorInvariant, PTL

\* However many decorated classes share a method, its own option stays.
THEOREM ExplicitOptionsStay == Spec => []ExplicitOptionWins
<1>1. DecoratorInv => ExplicitOptionWins
  BY DEF DecoratorInv, ExplicitOptionWins, Outcome
<1> QED BY <1>1, DecoratorInvariant, PTL

\* A handler of an undecorated class changes only through a method that it
\* shares with a decorated one.
THEOREM OnlySharingSpreads == Spec => []OnlySharedMethodsChange
<1>1. DecoratorInv => OnlySharedMethodsChange
  <2> SUFFICES ASSUME DecoratorInv, NEW c \in defined \ marked, NEW m \in Handlers(c),
                      extras[m] = "partial", option[m] # "partial"
               PROVE  \E d \in marked \cap defined : d # c /\ m \in ClassMethods(d)
    BY DEF OnlySharedMethodsChange
  <2>1. m \in Method
    BY DEF Handlers, ClassMethods
  <2>2. Reached(m)
    BY <2>1 DEF DecoratorInv, Outcome
  <2> QED BY <2>2 DEF Reached
<1> QED BY <1>1, DecoratorInvariant, PTL
=============================================================================
