---------------------------- MODULE RoutingProofs ----------------------------
(***************************************************************************)
(* What the lookup of handlers guarantees.  The first theorems hold for    *)
(* any notion of route and of match.  The others are about                 *)
(* performPatternMatch and the routes of Nest, for any patterns and        *)
(* messages: that what is called is supported, that what is meant is       *)
(* called, and that without arrays the two are one.                        *)
(*                                                                         *)
(* They need the recursive functions to exist, and inductions over values: *)
(* both come from the depth of values, by the least number principle.      *)
(***************************************************************************)
EXTENDS MessageRouting, FiniteSetTheorems, FunctionTheorems, WellFoundedInduction, TLAPS

\* A nonempty set of positions has a first one.
LEMMA FirstIsLeast ==
  ASSUME NEW S \in SUBSET Nat, S # {}
  PROVE  First(S) \in S /\ \A j \in S : First(S) <= j
<1>1. IsWellFoundedOn(OpToRel(<, Nat), Nat)
  BY NatLessThanWellFounded
<1>2. PICK i \in S : \A j \in S : ~(<<j, i>> \in OpToRel(<, Nat))
  BY <1>1, WFMin
<1>3. ASSUME NEW j \in S, j < i PROVE <<j, i>> \in OpToRel(<, Nat)
  <2>1. <<j, i>> \in Nat \X Nat /\ <<j, i>>[1] < <<j, i>>[2]
    BY <1>3
  <2> QED BY <2>1, Zenon DEF OpToRel
<1>4. ASSUME NEW j \in S PROVE i <= j
  <2>1. i \in Nat /\ j \in Nat /\ ~(j < i)
    BY <1>2, <1>3
  <2> QED BY <2>1
<1> QED BY <1>4 DEF First

\* Induction on a rank: what holds of a value when it holds of all that rank
\* lower holds of all.
LEMMA RankInduction ==
  ASSUME NEW S, NEW rank \in [S -> Nat], NEW P \in SUBSET S,
         \A x \in S : (\A y \in S : rank[y] < rank[x] => y \in P) => x \in P
  PROVE  P = S
<1> SUFFICES ASSUME NEW z \in S, z \notin P PROVE FALSE
  OBVIOUS
<1> DEFINE ranks == {n \in Nat : \E x \in S : x \notin P /\ rank[x] = n}
<1>1. ranks \in SUBSET Nat /\ rank[z] \in ranks
  OBVIOUS
<1>2. First(ranks) \in ranks /\ \A n \in ranks : First(ranks) <= n
  BY <1>1, FirstIsLeast
<1>3. PICK x \in S : x \notin P /\ rank[x] = First(ranks)
  BY <1>2
<1>4. ASSUME NEW y \in S, rank[y] < rank[x] PROVE y \in P
  <2>1. rank[y] \in Nat /\ rank[x] \in Nat /\ ~(rank[x] <= rank[y])
    BY <1>4
  <2>2. rank[y] \notin ranks
    BY <1>2, <1>3, <2>1
  <2> QED BY <2>1, <2>2
<1> QED BY <1>3, <1>4

\* What F says of a member of S depends on those of lower rank only.
Recurses(F, S, T, rank) ==
  /\ T # {}
  /\ rank \in [S -> Nat]
  /\ F \in [[S -> T] -> [S -> T]]
  /\ \A f, g \in [S -> T] : \A x \in S :
       (\A y \in S : rank[y] < rank[x] => f[y] = g[y]) => F[f][x] = F[g][x]

\* If F recurses, there is the function that it defines.
LEMMA RecursiveFunction ==
  ASSUME NEW S, NEW T, NEW rank, NEW F, Recurses(F, S, T, rank)
  PROVE  \E f \in [S -> T] : f = F[f]
<1> USE DEF Recurses
<1> DEFINE Solves(f, n) == \A x \in S : rank[x] < n => f[x] = F[f][x]
<1>1. ASSUME NEW m \in Nat, NEW n \in Nat, NEW f \in [S -> T], NEW g \in [S -> T],
             Solves(f, m), Solves(g, n)
      PROVE  \A x \in S : rank[x] < m /\ rank[x] < n => f[x] = g[x]
  <2> DEFINE P == {x \in S : rank[x] < m /\ rank[x] < n => f[x] = g[x]}
  <2>1. ASSUME NEW x \in S, \A y \in S : rank[y] < rank[x] => y \in P PROVE x \in P
    <3> SUFFICES ASSUME rank[x] < m, rank[x] < n PROVE f[x] = g[x]
      OBVIOUS
    <3>1. ASSUME NEW y \in S, rank[y] < rank[x] PROVE f[y] = g[y]
      <4>1. rank[y] \in Nat /\ rank[x] \in Nat /\ rank[y] < m /\ rank[y] < n
        BY <3>1
      <4> QED BY <2>1, <3>1, <4>1
    <3>2. F[f][x] = F[g][x]
      BY <3>1
    <3> QED BY <1>1, <3>2
  <2>2. P = S
    <3>1. P \in SUBSET S
      OBVIOUS
    <3> HIDE DEF P
    <3> QED BY <2>1, <3>1, RankInduction
  <2> QED BY <2>2
<1>2. ASSUME NEW n \in Nat PROVE \E f \in [S -> T] : Solves(f, n)
  <2> SUFFICES ASSUME ~\E f \in [S -> T] : Solves(f, n) PROVE FALSE
    OBVIOUS
  <2> DEFINE unsolved == {i \in Nat : ~\E f \in [S -> T] : Solves(f, i)}
             i == First(unsolved)
  <2>1. i \in unsolved /\ \A j \in unsolved : i <= j
    <3>1. unsolved \in SUBSET Nat /\ unsolved # {}
      OBVIOUS
    <3> HIDE DEF unsolved
    <3> QED BY <3>1, FirstIsLeast
  <2> HIDE DEF i
  <2>2. i # 0
    <3>1. PICK t \in T : TRUE
      OBVIOUS
    <3>2. [x \in S |-> t] \in [S -> T] /\ Solves([x \in S |-> t], 0)
      OBVIOUS
    <3> QED BY <2>1, <3>2
  <2>3. i - 1 \in Nat /\ ~(i <= i - 1)
    BY <2>1, <2>2
  <2>4. PICK f \in [S -> T] : Solves(f, i - 1)
    BY <2>1, <2>3
  <2>5. F[f] \in [S -> T]
    OBVIOUS
  <2>6. ASSUME NEW x \in S, rank[x] < i PROVE F[f][x] = F[F[f]][x]
    <3>1. ASSUME NEW y \in S, rank[y] < rank[x] PROVE f[y] = F[f][y]
      <4>1. rank[y] \in Nat /\ rank[x] \in Nat /\ i \in Nat
        BY <2>1
      <4>2. rank[y] < i - 1
        BY <2>6, <3>1, <4>1
      <4> QED BY <2>4, <4>2
    <3> QED BY <2>5, <3>1
  <2>7. Solves(F[f], i)
    BY <2>6
  <2> QED BY <2>1, <2>5, <2>7
<1> DEFINE level == [n \in Nat |-> CHOOSE f \in [S -> T] : Solves(f, n)]
<1>3. ASSUME NEW n \in Nat PROVE level[n] \in [S -> T] /\ Solves(level[n], n)
  <2> HIDE DEF Solves
  <2>1. \E f \in [S -> T] : Solves(f, n)
    BY <1>2
  <2>2. (CHOOSE f \in [S -> T] : Solves(f, n)) \in [S -> T]
        /\ Solves(CHOOSE f \in [S -> T] : Solves(f, n), n)
    BY <2>1, Zenon
  <2>3. level[n] = CHOOSE f \in [S -> T] : Solves(f, n)
    BY Zenon
  <2> QED BY <2>2, <2>3, Zenon
<1> DEFINE f == [x \in S |-> level[rank[x] + 1][x]]
<1> HIDE DEF level
<1>4. f \in [S -> T]
  <2>1. \A x \in S : rank[x] + 1 \in Nat
    OBVIOUS
  <2> QED BY <1>3, <2>1
<1>5. ASSUME NEW x \in S PROVE f[x] = F[f][x]
  <2> DEFINE n == rank[x] + 1
  <2>1. n \in Nat /\ rank[x] < n
    OBVIOUS
  <2>2. ASSUME NEW y \in S, rank[y] < rank[x] PROVE f[y] = level[n][y]
    <3>1. /\ rank[y] + 1 \in Nat
          /\ rank[y] < rank[y] + 1
          /\ rank[y] < n
      BY <2>2
    <3>2. level[rank[y] + 1][y] = level[n][y]
      <4> HIDE DEF Solves, n
      <4> QED BY <1>1, <1>3, <2>1, <3>1
    <3> QED BY <3>2
  <2>3. level[n] \in [S -> T] /\ level[n][x] = F[level[n]][x]
    BY <1>3, <2>1
  <2>4. F[f][x] = F[level[n]][x]
    <3> HIDE DEF f, n
    <3> QED BY <1>4, <2>2, <2>3
  <2> QED BY <2>3, <2>4
<1>6. f = F[f]
  <2>1. F[f] \in [S -> T]
    BY <1>4
  <2> HIDE DEF f
  <2> QED BY <1>4, <1>5, <2>1
<1> QED BY <1>4, <1>6

\* Positions added after all of S leave its first one first.
LEMMA FirstStays ==
  ASSUME NEW n \in Nat, NEW S \in SUBSET (1..n), S # {}, NEW T \in SUBSET Nat,
         S \subseteq T, \A i \in T : i \in S \/ i > n
  PROVE  First(T) = First(S) /\ First(S) \in 1..n
<1>1. First(S) \in S /\ \A j \in S : First(S) <= j
  BY FirstIsLeast
<1>2. First(T) \in T /\ \A j \in T : First(T) <= j
  BY FirstIsLeast
<1>3. First(T) <= First(S)
  BY <1>1, <1>2
<1>4. First(T) \in S
  <2>1. First(T) \in Nat /\ First(S) \in 1..n
    BY <1>1, <1>2
  <2>2. ~(First(T) > n)
    BY <1>3, <2>1
  <2> QED BY <1>2, <2>2
<1>5. First(S) <= First(T)
  BY <1>1, <1>4
<1>6. First(S) \in 1..n /\ First(T) \in 1..n
  BY <1>1, <1>4
<1> QED BY <1>3, <1>5, <1>6

-----------------------------------------------------------------------------
\* No handler is registered at first.
LEMMA InitTypes == Init => LookupTypeOK
<1>1. <<>> \in Seq(Handler)
  OBVIOUS
<1> QED BY <1>1 DEF Init, LookupTypeOK

\* A registration keeps the list well typed.
LEMMA NextTypes == LookupTypeOK /\ [Next]_vars => LookupTypeOK'
<1> SUFFICES ASSUME LookupTypeOK, [Next]_vars PROVE LookupTypeOK'
  OBVIOUS
<1>1. ASSUME NEW p \in Pattern, NEW b \in BOOLEAN, AddHandler(p, b) PROVE LookupTypeOK'
  <2>1. [pattern |-> p, partial |-> b] \in Handler
    BY DEF Handler
  <2> QED BY <1>1, <2>1 DEF AddHandler, LookupTypeOK
<1>2. ASSUME NEW p \in Pattern, RefuseHandler(p) PROVE LookupTypeOK'
  BY <1>2 DEF RefuseHandler, LookupTypeOK
<1>3. CASE UNCHANGED vars
  BY <1>3 DEF vars, LookupTypeOK
<1> QED BY <1>1, <1>2, <1>3 DEF Next

\* The registered handlers are always a list of patterns with their option.
THEOREM LookupTypes == Spec => []LookupTypeOK
  BY InitTypes, NextTypes, PTL DEF Spec

-----------------------------------------------------------------------------
\* What AddingKeepsRoutes says of one message.
KeepsRoute(m) ==
  \/ GetHandlerByPattern(m)' = GetHandlerByPattern(m)
  \/ GetHandlerByPattern(m) = NoHandler
  \/ Normalized[GetHandlerByPattern(m).pattern] = Normalized[CatchAll]
  \/ Normalized[GetHandlerByPattern(m)'.pattern] = Route[m]

\* One more handler is registered.  If a handler had the message's route it
\* still is the first such, and so with a match as long as none has the route.
LEMMA AddHandlerKeepsRoutes ==
  ASSUME LookupTypeOK, NEW p \in Pattern, NEW b \in BOOLEAN, AddHandler(p, b),
         NEW m \in Message
  PROVE  KeepsRoute(m)
<1> DEFINE n == Len(messageHandlers)
<1>1. /\ n \in Nat
      /\ Len(messageHandlers') = n + 1
      /\ \A i \in 1..n : messageHandlers'[i] = messageHandlers[i]
  BY DEF LookupTypeOK, AddHandler
<1>2. \A r : /\ Under(r) \subseteq 1..n
             /\ Under(r)' \in SUBSET Nat
             /\ Under(r) \subseteq Under(r)'
             /\ \A i \in Under(r)' : i \in Under(r) \/ i > n
  BY <1>1 DEF Under
<1>3. /\ Matching(m) \subseteq 1..n
      /\ Matching(m)' \in SUBSET Nat
      /\ Matching(m) \subseteq Matching(m)'
      /\ \A i \in Matching(m)' : i \in Matching(m) \/ i > n
  <2>1. /\ Matching(m) = {i \in 1..n : Matches(messageHandlers[i], m)}
        /\ Matching(m)' = {i \in 1..(n + 1) : Matches(messageHandlers'[i], m)}
    BY <1>1 DEF Matching
  <2>2. Matching(m)' \in SUBSET Nat
    BY <1>1, <2>1
  <2>3. \A i \in 1..n : i \in Matching(m) <=> i \in Matching(m)'
    BY <1>1, <2>1
  <2>4. \A i \in Matching(m)' : i \in 1..n \/ i > n
    BY <1>1, <2>1
  <2> QED BY <2>1, <2>2, <2>3, <2>4
<1>4. CASE Under(Route[m]) # {}
  <2>1. /\ First(Under(Route[m])') = First(Under(Route[m]))
        /\ First(Under(Route[m])) \in 1..n
    BY <1>1, <1>2, <1>4, FirstStays
  <2>2. FirstOf(Under(Route[m]))' = FirstOf(Under(Route[m]))
    BY <1>1, <2>1 DEF FirstOf
  <2>3. Under(Route[m])' # {}
    BY <1>2, <1>4
  <2> QED BY <1>4, <2>2, <2>3 DEF KeepsRoute, GetHandlerByPattern
<1>5. CASE Under(Route[m]) = {} /\ Under(Route[m])' # {}
  <2>1. First(Under(Route[m])') \in Under(Route[m])'
    BY <1>2, <1>5, FirstIsLeast
  <2>2. Normalized[messageHandlers'[First(Under(Route[m])')].pattern] = Route[m]
    BY <2>1 DEF Under
  <2>3. GetHandlerByPattern(m)' = messageHandlers'[First(Under(Route[m])')]
    BY <1>5 DEF GetHandlerByPattern, FirstOf
  <2> QED BY <2>2, <2>3 DEF KeepsRoute
<1>6. CASE Under(Route[m])' = {} /\ Under(Route[m]) = {} /\ Matching(m) # {}
  <2>1. /\ First(Matching(m)') = First(Matching(m))
        /\ First(Matching(m)) \in 1..n
    BY <1>1, <1>3, <1>6, FirstStays
  <2>2. FirstOf(Matching(m))' = FirstOf(Matching(m))
    BY <1>1, <2>1 DEF FirstOf
  <2>3. Matching(m)' # {}
    BY <1>3, <1>6
  <2> QED BY <1>6, <2>2, <2>3 DEF KeepsRoute, GetHandlerByPattern
<1>7. CASE Under(Route[m]) = {} /\ Matching(m) = {}
  <2>1. CASE Under(Normalized[CatchAll]) = {}
    BY <1>7, <2>1 DEF KeepsRoute, GetHandlerByPattern
  <2>2. CASE Under(Normalized[CatchAll]) # {}
    <3>1. First(Under(Normalized[CatchAll])) \in Under(Normalized[CatchAll])
      <4>1. Under(Normalized[CatchAll]) \in SUBSET Nat
        BY <1>1, <1>2
      <4> QED BY <2>2, <4>1, FirstIsLeast
    <3>2. Normalized[messageHandlers[First(Under(Normalized[CatchAll]))].pattern] = Normalized[CatchAll]
      BY <3>1 DEF Under
    <3> QED BY <1>7, <2>2, <3>2 DEF KeepsRoute, GetHandlerByPattern, FirstOf
  <2> QED BY <2>1, <2>2
<1> QED BY <1>4, <1>5, <1>6, <1>7

\* What one registration does to the lookup of each message.
LEMMA NextKeepsRoutes ==
  ASSUME LookupTypeOK, [Next]_vars, NEW m \in Message
  PROVE  KeepsRoute(m)
<1>1. ASSUME NEW p \in Pattern, NEW b \in BOOLEAN, AddHandler(p, b) PROVE KeepsRoute(m)
  BY <1>1, AddHandlerKeepsRoutes
<1>2. CASE UNCHANGED messageHandlers
  BY <1>2 DEF KeepsRoute, GetHandlerByPattern, FirstOf, Under, Matching
<1> QED BY <1>1, <1>2 DEF Next, RefuseHandler, vars

\* However patterns are matched, registering a handler does not take over the
\* messages of another one, except from the catch-all handler, and except for
\* messages that have the new handler's own route.
THEOREM FirstRegisteredWins == Spec => AddingKeepsRoutes
<1>1. LookupTypeOK /\ [Next]_vars =>
        [\A m \in Message :
           \/ GetHandlerByPattern(m)' = GetHandlerByPattern(m)
           \/ GetHandlerByPattern(m) = NoHandler
           \/ Normalized[GetHandlerByPattern(m).pattern] = Normalized[CatchAll]
           \/ Normalized[GetHandlerByPattern(m)'.pattern] = Route[m]]_vars
  BY NextKeepsRoutes DEF KeepsRoute
<1> QED BY <1>1, LookupTypes, PTL DEF Spec, AddingKeepsRoutes

-----------------------------------------------------------------------------
\* A handler qualifies for a message by its route or by its pattern.
Qualifies(h, m) == Normalized[h.pattern] = Route[m] \/ Matches(h, m)

\* The handler at position k is the one for m: it has the message's route, or
\* none has it and this is the first that matches.
IsChosen(k, m) ==
  /\ Qualifies(messageHandlers[k], m)
  /\ Normalized[messageHandlers[k].pattern] # Route[m] =>
       /\ Under(Route[m]) = {}
       /\ \A i \in 1..(k - 1) : ~Qualifies(messageHandlers[i], m)

\* Is m answered by a handler that qualifies, if any does, else by the catch-all?
WellAnswered(m) ==
  IF \E i \in 1..Len(messageHandlers) : Qualifies(messageHandlers[i], m)
  THEN \E k \in 1..Len(messageHandlers) : IsChosen(k, m) /\ GetHandlerByPattern(m) = messageHandlers[k]
  ELSE IF Under(Normalized[CatchAll]) # {}
  THEN \E k \in Under(Normalized[CatchAll]) : GetHandlerByPattern(m) = messageHandlers[k]
  ELSE GetHandlerByPattern(m) = NoHandler

\* The lookup never prefers the catch-all handler, or a later match, to a
\* handler that qualifies, and calls none that does not.
LEMMA LookupAnswers ==
  ASSUME LookupTypeOK, NEW m \in Message
  PROVE  WellAnswered(m)
<1> DEFINE n == Len(messageHandlers)
<1>1. n \in Nat /\ \A r : Under(r) \in SUBSET (1..n)
  BY DEF LookupTypeOK, Under
<1>2. Matching(m) \in SUBSET (1..n)
  BY DEF Matching
<1>3. \A i \in 1..n : Qualifies(messageHandlers[i], m) <=> i \in Under(Route[m]) \/ i \in Matching(m)
  BY DEF Qualifies, Under, Matching
<1>4. ASSUME NEW S \in SUBSET (1..n), S # {}
      PROVE  First(S) \in S /\ FirstOf(S) = messageHandlers[First(S)] /\ \A j \in S : First(S) <= j
  BY <1>1, <1>4, FirstIsLeast DEF FirstOf
<1>5. CASE Under(Route[m]) # {}
  <2> DEFINE k == First(Under(Route[m]))
  <2>1. k \in Under(Route[m]) /\ GetHandlerByPattern(m) = messageHandlers[k]
    BY <1>1, <1>4, <1>5 DEF GetHandlerByPattern
  <2>2. k \in 1..n /\ IsChosen(k, m)
    BY <1>3, <2>1 DEF IsChosen, Under
  <2> QED BY <2>1, <2>2 DEF WellAnswered, IsChosen
<1>6. CASE Under(Route[m]) = {} /\ Matching(m) # {}
  <2> DEFINE k == First(Matching(m))
  <2>1. /\ k \in Matching(m) /\ GetHandlerByPattern(m) = messageHandlers[k]
        /\ \A j \in Matching(m) : k <= j
    BY <1>2, <1>4, <1>6 DEF GetHandlerByPattern
  <2>2. k \in 1..n /\ Qualifies(messageHandlers[k], m)
    BY <1>2, <1>3, <2>1
  <2>3. \A i \in 1..(k - 1) : ~Qualifies(messageHandlers[i], m)
    <3> SUFFICES ASSUME NEW i \in 1..(k - 1), Qualifies(messageHandlers[i], m) PROVE FALSE
      OBVIOUS
    <3>1. i \in 1..n /\ ~(k <= i)
      BY <1>1, <2>2
    <3> QED BY <1>3, <1>6, <2>1, <3>1
  <2>4. IsChosen(k, m)
    BY <1>6, <2>2, <2>3 DEF IsChosen
  <2> QED BY <2>1, <2>2, <2>4 DEF WellAnswered
<1>7. CASE Under(Route[m]) = {} /\ Matching(m) = {}
  <2>1. ~\E i \in 1..n : Qualifies(messageHandlers[i], m)
    BY <1>3, <1>7
  <2>2. CASE Under(Normalized[CatchAll]) # {}
    BY <1>1, <1>4, <1>7, <2>1, <2>2 DEF GetHandlerByPattern, WellAnswered
  <2>3. CASE Under(Normalized[CatchAll]) = {}
    BY <1>7, <2>1, <2>3 DEF GetHandlerByPattern, WellAnswered
  <2> QED BY <2>2, <2>3
<1> QED BY <1>5, <1>6, <1>7

\* Every message goes to the handler with its route, else to the first that
\* matches it, and only else to the catch-all handler or to nobody.
THEOREM QualifiedComeFirst == Spec => [](\A m \in Message : WellAnswered(m))
<1>1. LookupTypeOK => \A m \in Message : WellAnswered(m)
  BY LookupAnswers
<1> QED BY <1>1, LookupTypes, PTL

-----------------------------------------------------------------------------
\* The elements of an array are its properties.
LEMMA ArrayParts ==
  ASSUME NEW v \in JsonValue, IsArray(v)
  PROVE  /\ \A i \in DOMAIN v.elements :
              /\ Index(i) \in Keys(v) /\ Property(v, Index(i)) = v.elements[i]
              /\ v.elements[i] \in JsonValue /\ Depth[v.elements[i]] < Depth[v]
         /\ \A k \in Keys(v) : \E i \in DOMAIN v.elements : Property(v, k) = v.elements[i]
<1>1. IsObject(v) /\ Keys(v) = {Index(i) : i \in DOMAIN v.elements}
  BY Zenon DEF IsObject, Keys
<1>2. \A i, j \in DOMAIN v.elements : Index(i) = Index(j) => i = j
  BY ValueAssumption, Zenon
<1>3. ASSUME NEW k \in Keys(v)
      PROVE  /\ (CHOOSE i \in DOMAIN v.elements : Index(i) = k) \in DOMAIN v.elements
             /\ Index(CHOOSE i \in DOMAIN v.elements : Index(i) = k) = k
             /\ Property(v, k) = v.elements[CHOOSE i \in DOMAIN v.elements : Index(i) = k]
  <2>1. \E i \in DOMAIN v.elements : Index(i) = k
    BY <1>1, Zenon
  <2>2. /\ (CHOOSE i \in DOMAIN v.elements : Index(i) = k) \in DOMAIN v.elements
        /\ Index(CHOOSE i \in DOMAIN v.elements : Index(i) = k) = k
    BY <2>1, Zenon
  <2>3. Property(v, k) = v.elements[CHOOSE i \in DOMAIN v.elements : Index(i) = k]
    BY <1>3, Zenon DEF Property
  <2> QED BY <2>2, <2>3, Zenon
<1>4. \A k \in Keys(v) : \E i \in DOMAIN v.elements : Property(v, k) = v.elements[i]
  BY <1>3, Zenon
<1>5. ASSUME NEW i \in DOMAIN v.elements
      PROVE  /\ Index(i) \in Keys(v) /\ Property(v, Index(i)) = v.elements[i]
             /\ v.elements[i] \in JsonValue /\ Depth[v.elements[i]] < Depth[v]
  <2>1. Index(i) \in Keys(v)
    BY <1>1, Zenon
  <2>2. Property(v, Index(i)) = v.elements[i]
    BY <1>2, <1>3, <2>1, Zenon
  <2>3. v.elements[i] \in Parts(v)
    BY <2>1, <2>2, Zenon DEF Parts
  <2> QED BY <1>1, <2>1, <2>2, <2>3, ValueAssumption, Zenon
<1> QED BY <1>4, <1>5

\* The parts of an object are values of less depth, and so is undefined.
LEMMA ObjectParts ==
  ASSUME NEW v \in JsonValue, IsObject(v)
  PROVE  /\ IsFiniteSet(Keys(v))
         /\ \A k : Property(v, k) \in JsonValue /\ Depth[Property(v, k)] < Depth[v]
         /\ \A k : k \notin Keys(v) => Property(v, k) = Undefined
<1>1. \A k : k \notin Keys(v) => Property(v, k) = Undefined
  BY Zenon DEF Property
<1>2. \A k : Property(v, k) \in Parts(v) \cup {Undefined}
  BY <1>1, Zenon DEF Parts
<1> QED BY <1>1, <1>2, ValueAssumption, Zenon

\* A finite set can be put in any strict order of its members: each goes to
\* the place that is one more than the number of those before it.
LEMMA OrderingExists ==
  ASSUME NEW S, IsFiniteSet(S), NEW R,
         \A i \in S : <<i, i>> \notin R,
         \A i, j \in S : i # j => <<i, j>> \in R \/ <<j, i>> \in R,
         \A i, j, k \in S : <<i, j>> \in R /\ <<j, k>> \in R => <<i, k>> \in R
  PROVE  \E p \in Bijection(1..Cardinality(S), S) :
           \A i, j \in 1..Cardinality(S) : i < j => <<p[i], p[j]>> \in R
<1> DEFINE n == Cardinality(S)
           Below(i) == {j \in S : <<j, i>> \in R}
           place == [i \in S |-> Cardinality(Below(i)) + 1]
<1>1. n \in Nat
  BY FS_CardinalityType
<1>2. \A i \in S : IsFiniteSet(Below(i)) /\ Cardinality(Below(i)) \in Nat
  BY FS_Subset, FS_CardinalityType
<1>3. ASSUME NEW i \in S PROVE place[i] \in 1..n
  <2>1. /\ IsFiniteSet(S \ {i}) /\ Cardinality(S \ {i}) = n - 1
    BY FS_RemoveElement
  <2>2. Below(i) \in SUBSET (S \ {i})
    OBVIOUS
  <2> HIDE DEF Below
  <2>3. Cardinality(Below(i)) <= n - 1
    BY <2>1, <2>2, FS_Subset
  <2> QED BY <1>1, <1>2, <2>3
<1>4. ASSUME NEW i \in S, NEW k \in S, <<i, k>> \in R PROVE place[i] < place[k]
  <2>1. /\ IsFiniteSet(Below(i) \cup {i})
        /\ Cardinality(Below(i) \cup {i}) = Cardinality(Below(i)) + 1
    <3>1. i \notin Below(i)
      OBVIOUS
    <3> QED BY <1>2, <3>1, FS_AddElement
  <2>2. Below(i) \cup {i} \in SUBSET Below(k)
    BY <1>4
  <2> HIDE DEF Below
  <2>3. Cardinality(Below(i)) + 1 <= Cardinality(Below(k))
    BY <1>2, <2>1, <2>2, FS_Subset
  <2> QED BY <1>2, <2>3
<1>5. place \in Bijection(S, 1..n)
  <2>1. place \in [S -> 1..n]
    BY <1>3
  <2>2. \A i, k \in S : place[i] = place[k] => i = k
    <3> SUFFICES ASSUME NEW i \in S, NEW k \in S, i # k PROVE place[i] # place[k]
      OBVIOUS
    <3>1. place[i] \in Nat /\ place[k] \in Nat
      BY <1>2
    <3>2. place[i] < place[k] \/ place[k] < place[i]
      <4> HIDE DEF place
      <4> QED BY <1>4
    <3> HIDE DEF place
    <3> QED BY <3>1, <3>2
  <2> HIDE DEF place
  <2>3. place \in Injection(S, 1..n)
    BY <2>1, <2>2, Fun_IsInj
  <2>4. IsFiniteSet(1..n) /\ Cardinality(1..n) = n
    BY <1>1, FS_Interval
  <2>5. place \in Surjection(S, 1..n)
    BY <2>3, <2>4, FS_Injection
  <2> QED BY <2>3, <2>5, Zenon DEF Bijection
<1> HIDE DEF place
<1> DEFINE p == Inverse(place, S, 1..n)
<1>6. p \in Bijection(1..n, S) /\ \A i \in S : p[place[i]] = i
  BY <1>5, Fun_BijInverse
<1> HIDE DEF p, Below
<1>7. \A k \in 1..n : p[k] \in S /\ place[p[k]] = k
  <2> SUFFICES ASSUME NEW k \in 1..n PROVE p[k] \in S /\ place[p[k]] = k
    OBVIOUS
  <2>1. PICK i \in S : place[i] = k
    <3> HIDE DEF n
    <3> QED BY <1>5 DEF Bijection, Surjection
  <2> QED BY <1>6, <2>1
<1>8. ASSUME NEW i \in 1..n, NEW j \in 1..n, i < j PROVE <<p[i], p[j]>> \in R
  <2>1. p[i] \in S /\ p[j] \in S /\ place[p[i]] = i /\ place[p[j]] = j
    BY <1>7
  <2>2. i \in Nat /\ j \in Nat /\ ~(j < i)
    BY <1>1, <1>8
  <2>3. <<p[j], p[i]>> \notin R
    BY <1>4, <2>1, <2>2
  <2>4. p[i] # p[j]
    BY <1>8, <2>1, <2>2
  <2> QED BY <2>1, <2>3, <2>4
<1> QED BY <1>6, <1>8

\* The positions of an array are strictly ordered by what sort() puts first.
LEMMA ComesFirstIsAnOrder ==
  ASSUME NEW s \in Seq(JsonValue)
  PROVE  /\ \A i \in DOMAIN s : ~ComesFirst(s, i, i)
         /\ \A i, j \in DOMAIN s : i # j => ComesFirst(s, i, j) \/ ComesFirst(s, j, i)
         /\ \A i, j, k \in DOMAIN s : ComesFirst(s, i, j) /\ ComesFirst(s, j, k) => ComesFirst(s, i, k)
<1>1. \A i \in DOMAIN s : i \in Nat /\ s[i] \in JsonValue
  OBVIOUS
<1>2. ASSUME NEW i \in DOMAIN s PROVE ~ComesFirst(s, i, i)
  BY <1>1, OrderAssumption DEF ComesFirst
<1>3. ASSUME NEW i \in DOMAIN s, NEW j \in DOMAIN s, i # j
      PROVE  ComesFirst(s, i, j) \/ ComesFirst(s, j, i)
  BY <1>1, <1>3 DEF ComesFirst
<1>4. ASSUME NEW i \in DOMAIN s, NEW j \in DOMAIN s, NEW k \in DOMAIN s,
             ComesFirst(s, i, j), ComesFirst(s, j, k)
      PROVE  ComesFirst(s, i, k)
  <2> DEFINE a == s[i]
             b == s[j]
             c == s[k]
  <2>1. /\ a \in JsonValue /\ b \in JsonValue /\ c \in JsonValue
        /\ i \in Nat /\ j \in Nat /\ k \in Nat
    BY <1>1
  <2>2. /\ <<a, b>> \in SortedBefore \/ (<<b, a>> \notin SortedBefore /\ i < j)
        /\ <<b, c>> \in SortedBefore \/ (<<c, b>> \notin SortedBefore /\ j < k)
    BY <1>4 DEF ComesFirst
  <2> HIDE DEF a, b, c
  <2>3. <<a, c>> \in SortedBefore \/ (<<c, a>> \notin SortedBefore /\ i < k)
    <3>1. /\ <<a, b>> \in SortedBefore => <<a, c>> \in SortedBefore \/ <<c, b>> \in SortedBefore
          /\ <<b, c>> \in SortedBefore => <<b, a>> \in SortedBefore \/ <<a, c>> \in SortedBefore
          /\ <<c, a>> \in SortedBefore => <<c, b>> \in SortedBefore \/ <<b, a>> \in SortedBefore
          /\ <<a, b>> \in SortedBefore /\ <<b, c>> \in SortedBefore => <<a, c>> \in SortedBefore
      BY <2>1, OrderAssumption, Zenon
    <3>2. i < j /\ j < k => i < k
      BY <2>1
    <3> QED BY <2>2, <3>1, <3>2, Zenon
  <2> USE DEF a, b, c
  <2> QED BY <2>3 DEF ComesFirst
<1> QED BY <1>2, <1>3, <1>4

\* sort() puts the elements of an array in order.
LEMMA SortingIsAnOrder ==
  ASSUME NEW s \in Seq(JsonValue)
  PROVE  /\ Sorting(s) \in Bijection(DOMAIN s, DOMAIN s)
         /\ \A i, j \in DOMAIN s : i < j => ComesFirst(s, Sorting(s)[i], Sorting(s)[j])
<1> DEFINE S == DOMAIN s
           R == {t \in S \X S : ComesFirst(s, t[1], t[2])}
           Sorts(q) == \A i, j \in DOMAIN s : i < j => ComesFirst(s, q[i], q[j])
<1>1. S = 1..Len(s) /\ Len(s) \in Nat
  OBVIOUS
<1>2. IsFiniteSet(S) /\ S = 1..Cardinality(S)
  <2>1. ASSUME NEW n \in Nat PROVE IsFiniteSet(1..n) /\ Cardinality(1..n) = n
    BY FS_Interval
  <2> QED BY <1>1, <2>1, Zenon
<1>3. \A i, j \in S : <<i, j>> \in R <=> ComesFirst(s, i, j)
  OBVIOUS
<1>4. PICK p \in Bijection(S, S) : \A i, j \in S : i < j => <<p[i], p[j]>> \in R
  <2>1. /\ \A i \in S : <<i, i>> \notin R
        /\ \A i, j \in S : i # j => <<i, j>> \in R \/ <<j, i>> \in R
        /\ \A i, j, k \in S : <<i, j>> \in R /\ <<j, k>> \in R => <<i, k>> \in R
    <3> HIDE DEF R, S
    <3> QED BY <1>3, ComesFirstIsAnOrder DEF S
  <2> HIDE DEF R, S
  <2>2. \E p \in Bijection(1..Cardinality(S), S) :
          \A i, j \in 1..Cardinality(S) : i < j => <<p[i], p[j]>> \in R
    BY <1>2, <2>1, OrderingExists
  <2> QED BY <1>2, <2>2, Zenon
<1>5. \A i \in S : p[i] \in S
  BY <1>4, Fun_BijectionProperties
<1>6. Sorts(p)
  BY <1>3, <1>4, <1>5
<1>7. Sorting(s) = CHOOSE q \in Bijection(DOMAIN s, DOMAIN s) : Sorts(q)
  BY Zenon DEF Sorting
<1> HIDE DEF Sorts
<1>8. Sorting(s) \in Bijection(DOMAIN s, DOMAIN s) /\ Sorts(Sorting(s))
  BY <1>4, <1>6, <1>7, Zenon
<1> USE DEF Sorts
<1> QED BY <1>8, Zenon

\* What a sorted array is: the elements of the array, each at its place.
LEMMA SortedIsAPermutation ==
  ASSUME NEW s \in Seq(JsonValue)
  PROVE  /\ DOMAIN Sorted(s) = DOMAIN s
         /\ \A i \in DOMAIN s : Sorting(s)[i] \in DOMAIN s /\ Sorted(s)[i] = s[Sorting(s)[i]]
         /\ \A j \in DOMAIN s : \E i \in DOMAIN s : Sorted(s)[i] = s[j]
<1>1. /\ \A i \in DOMAIN s : Sorting(s)[i] \in DOMAIN s
      /\ \A j \in DOMAIN s : \E i \in DOMAIN s : Sorting(s)[i] = j
  BY SortingIsAnOrder, Fun_BijectionProperties
<1>2. /\ DOMAIN Sorted(s) = DOMAIN s
      /\ \A i \in DOMAIN s : Sorted(s)[i] = s[Sorting(s)[i]]
  BY Zenon DEF Sorted
<1>3. ASSUME NEW j \in DOMAIN s PROVE \E i \in DOMAIN s : Sorted(s)[i] = s[j]
  <2>1. PICK i \in DOMAIN s : Sorting(s)[i] = j
    BY <1>1
  <2>2. Sorted(s)[i] = s[j]
    BY <1>2, <2>1, Zenon
  <2> QED BY <2>2
<1> QED BY <1>1, <1>2, <1>3, Zenon

\* What the sorted elements of an array are: its properties, in some order.
LEMMA SortedElements ==
  ASSUME NEW v \in JsonValue, IsArray(v), NEW vs, vs = Sorted(v.elements)
  PROVE  /\ \A i \in DOMAIN vs : \E k \in Keys(v) : vs[i] = Property(v, k)
         /\ \A k \in Keys(v) : \E i \in DOMAIN vs : vs[i] = Property(v, k)
         /\ \A i \in DOMAIN vs : vs[i] \in JsonValue /\ Depth[vs[i]] < Depth[v]
         /\ \A i : Element(vs, i) \in JsonValue /\ Depth[Element(vs, i)] < Depth[v]
<1>1. v.elements \in Seq(JsonValue) /\ IsObject(v)
  BY ValueAssumption, Zenon DEF IsObject
<1>2. /\ DOMAIN vs = DOMAIN v.elements
      /\ \A i \in DOMAIN vs : Sorting(v.elements)[i] \in DOMAIN v.elements
      /\ \A i \in DOMAIN vs : vs[i] = v.elements[Sorting(v.elements)[i]]
      /\ \A j \in DOMAIN v.elements : \E i \in DOMAIN vs : vs[i] = v.elements[j]
  <2> DEFINE s == v.elements
  <2>1. s \in Seq(JsonValue) /\ vs = Sorted(s)
    BY <1>1
  <2> HIDE DEF s
  <2>2. /\ DOMAIN Sorted(s) = DOMAIN s
        /\ \A i \in DOMAIN s : Sorting(s)[i] \in DOMAIN s /\ Sorted(s)[i] = s[Sorting(s)[i]]
        /\ \A j \in DOMAIN s : \E i \in DOMAIN s : Sorted(s)[i] = s[j]
    BY <2>1, SortedIsAPermutation
  <2>3. /\ DOMAIN vs = DOMAIN s
        /\ \A i \in DOMAIN vs : Sorting(s)[i] \in DOMAIN s
        /\ \A i \in DOMAIN vs : vs[i] = s[Sorting(s)[i]]
        /\ \A j \in DOMAIN s : \E i \in DOMAIN vs : vs[i] = s[j]
    BY <2>1, <2>2
  <2> QED BY <2>3 DEF s
<1>3. /\ \A j \in DOMAIN v.elements :
           /\ Index(j) \in Keys(v) /\ Property(v, Index(j)) = v.elements[j]
           /\ v.elements[j] \in JsonValue /\ Depth[v.elements[j]] < Depth[v]
      /\ \A k \in Keys(v) : \E j \in DOMAIN v.elements : Property(v, k) = v.elements[j]
  BY ArrayParts, Zenon
<1>4. ASSUME NEW i \in DOMAIN vs PROVE \E k \in Keys(v) : vs[i] = Property(v, k)
  <2> DEFINE j == Sorting(v.elements)[i]
  <2>1. j \in DOMAIN v.elements /\ vs[i] = v.elements[j]
    BY <1>2
  <2>2. Index(j) \in Keys(v) /\ vs[i] = Property(v, Index(j))
    BY <1>3, <2>1
  <2> QED BY <2>2, Zenon
<1>5. \A k \in Keys(v) : \E i \in DOMAIN vs : vs[i] = Property(v, k)
  BY <1>2, <1>3
<1>6. \A i \in DOMAIN vs : vs[i] \in JsonValue /\ Depth[vs[i]] < Depth[v]
  BY <1>2, <1>3, Zenon
<1>7. Undefined \in JsonValue /\ Depth[Undefined] < Depth[v]
  BY <1>1, ValueAssumption, Zenon
<1>8. \A i : Element(vs, i) \in JsonValue /\ Depth[Element(vs, i)] < Depth[v]
  BY <1>6, <1>7, Zenon DEF Element
<1> QED BY <1>4, <1>5, <1>6, <1>8, Zenon

\* One call of performPatternMatch depends on what is answered for the parts
\* of the handler's value only.
LEMMA MatchCallIsLocal ==
  ASSUME NEW f, NEW g, NEW h \in JsonValue, NEW m \in JsonValue, NEW b \in BOOLEAN,
         \A x, y \in JsonValue : Depth[x] < Depth[h] => f[<<x, y, b>>] = g[<<x, y, b>>]
  PROVE  MatchCall(f, h, m, b) = MatchCall(g, h, m, b)
<1>1. ASSUME IsArray(h), IsArray(m) PROVE ArraysMatch(f, h, m, b) = ArraysMatch(g, h, m, b)
  <2> DEFINE hs == Sorted(h.elements)
             ms == Sorted(m.elements)
  <2>1. /\ \A i \in DOMAIN hs : hs[i] \in JsonValue /\ Depth[hs[i]] < Depth[h]
        /\ \A i : Element(hs, i) \in JsonValue /\ Depth[Element(hs, i)] < Depth[h]
    BY <1>1, SortedElements, Zenon
  <2>2. \A i \in DOMAIN ms : ms[i] \in JsonValue
    BY <1>1, SortedElements, Zenon
  <2>3. \A i, j \in DOMAIN hs : f[<<hs[j], hs[i], b>>] = g[<<hs[j], hs[i], b>>]
    BY <2>1, Zenon
  <2>4. \A i \in DOMAIN ms : f[<<Element(hs, i), ms[i], b>>] = g[<<Element(hs, i), ms[i], b>>]
    BY <2>1, <2>2, Zenon
  <2> HIDE DEF hs, ms
  <2>5. (\A i \in DOMAIN hs :
           IF IsPrimitive(hs[i]) THEN \E j \in DOMAIN ms : ms[j] = hs[i]
           ELSE \E j \in DOMAIN hs : f[<<hs[j], hs[i], b>>])
        = (\A i \in DOMAIN hs :
             IF IsPrimitive(hs[i]) THEN \E j \in DOMAIN ms : ms[j] = hs[i]
             ELSE \E j \in DOMAIN hs : g[<<hs[j], hs[i], b>>])
    BY <2>3
  <2>6. (\A i \in DOMAIN ms : f[<<Element(hs, i), ms[i], b>>])
        = (\A i \in DOMAIN ms : g[<<Element(hs, i), ms[i], b>>])
    BY <2>4
  <2> USE DEF hs, ms
  <2> QED BY <2>5, <2>6, Zenon DEF ArraysMatch
<1>2. ASSUME IsObject(h), IsObject(m) PROVE ObjectsMatch(f, h, m, b) = ObjectsMatch(g, h, m, b)
  <2>1. \A k : f[<<Property(h, k), Property(m, k), b>>] = g[<<Property(h, k), Property(m, k), b>>]
    BY <1>2, ObjectParts, Zenon
  <2> QED BY <2>1 DEF ObjectsMatch
<1> QED BY <1>1, <1>2 DEF MatchCall

\* performPatternMatch answers, and as it is written.
LEMMA PatternMatchAnswers ==
  /\ PatternMatch \in [JsonValue \X JsonValue \X BOOLEAN -> BOOLEAN]
  /\ \A h, m \in JsonValue : \A b \in BOOLEAN :
       PatternMatch[<<h, m, b>>] = MatchCall(PatternMatch, h, m, b)
<1> DEFINE S == JsonValue \X JsonValue \X BOOLEAN
           rank == [a \in S |-> Depth[a[1]]]
           F == [f \in [S -> BOOLEAN] |-> [a \in S |-> MatchCall(f, a[1], a[2], a[3])]]
<1>1. rank \in [S -> Nat]
  BY DepthAssumption
<1>2. \A f, h, m, b : MatchCall(f, h, m, b) \in BOOLEAN
  BY DEF MatchCall
<1>3. F \in [[S -> BOOLEAN] -> [S -> BOOLEAN]]
  BY <1>2
<1>4. ASSUME NEW f \in [S -> BOOLEAN], NEW g \in [S -> BOOLEAN], NEW a \in S,
             \A y \in S : rank[y] < rank[a] => f[y] = g[y]
      PROVE  F[f][a] = F[g][a]
  <2>1. a[1] \in JsonValue /\ a[2] \in JsonValue /\ a[3] \in BOOLEAN
    OBVIOUS
  <2>2. \A x, y \in JsonValue : Depth[x] < Depth[a[1]] => f[<<x, y, a[3]>>] = g[<<x, y, a[3]>>]
    BY <1>4, <2>1
  <2>3. MatchCall(f, a[1], a[2], a[3]) = MatchCall(g, a[1], a[2], a[3])
    BY <2>1, <2>2, MatchCallIsLocal
  <2> QED BY <2>3, Zenon
<1>5. \E f \in [S -> BOOLEAN] : f = F[f]
  <2>1. \A f, g \in [S -> BOOLEAN] : \A a \in S :
          (\A y \in S : rank[y] < rank[a] => f[y] = g[y]) => F[f][a] = F[g][a]
    BY <1>4, Zenon
  <2>2. Recurses(F, S, BOOLEAN, rank)
    <3>1. BOOLEAN # {}
      OBVIOUS
    <3> HIDE DEF S, rank, F
    <3> QED BY <1>1, <1>3, <2>1, <3>1, Zenon DEF Recurses
  <2> HIDE DEF S, rank, F
  <2> QED BY <2>2, RecursiveFunction
<1>6. PICK f \in [S -> BOOLEAN] : f = [a \in S |-> MatchCall(f, a[1], a[2], a[3])]
  BY <1>5, Zenon
<1>7. PatternMatch = [a \in S |-> MatchCall(PatternMatch, a[1], a[2], a[3])]
  BY <1>6, Zenon DEF PatternMatch
<1>8. \A a \in S : PatternMatch[a] = MatchCall(PatternMatch, a[1], a[2], a[3])
  BY <1>7, Zenon
<1>9. PatternMatch \in [S -> BOOLEAN]
  <2> DEFINE M(a) == MatchCall(PatternMatch, a[1], a[2], a[3])
  <2>1. \A a \in S : M(a) \in BOOLEAN
    BY <1>2, Zenon
  <2>2. PatternMatch = [a \in S |-> M(a)]
    BY <1>7, Zenon
  <2> HIDE DEF M, S
  <2> QED BY <2>1, <2>2
<1>10. ASSUME NEW h \in JsonValue, NEW m \in JsonValue, NEW b \in BOOLEAN
       PROVE  PatternMatch[<<h, m, b>>] = MatchCall(PatternMatch, h, m, b)
  <2>1. /\ <<h, m, b>> \in S
        /\ <<h, m, b>>[1] = h /\ <<h, m, b>>[2] = m /\ <<h, m, b>>[3] = b
    OBVIOUS
  <2> QED BY <1>8, <2>1, Zenon
<1> QED BY <1>9, <1>10, Zenon

-----------------------------------------------------------------------------
\* One call of transformPatternToRoute depends on the routes of the parts only.
LEMMA RouteCallIsLocal ==
  ASSUME NEW f, NEW g, NEW v \in JsonValue,
         \A w \in JsonValue : Depth[w] < Depth[v] => f[w] = g[w]
  PROVE  RouteCall(f, v) = RouteCall(g, v)
<1>1. CASE IsObject(v)
  <2>1. \A k \in Keys(v) : f[Property(v, k)] = g[Property(v, k)]
    BY <1>1, ObjectParts, Zenon
  <2>2. \A k \in Keys(v) : PartText(f, Property(v, k)) = PartText(g, Property(v, k))
    BY <2>1, Zenon DEF PartText
  <2>3. PartTexts(f, v) = PartTexts(g, v)
    BY <2>2 DEF PartTexts
  <2>4. ~IsText(v) /\ ~IsNumber(v)
    BY <1>1, ValueAssumption DEF IsText, IsNumber
  <2> QED BY <1>1, <2>3, <2>4, Zenon DEF RouteCall
<1>2. CASE ~IsObject(v)
  BY <1>2, Zenon DEF RouteCall
<1> QED BY <1>1, <1>2

\* f answers as transformPatternToRoute for the values nested less deep than n.
RoutesBelow(f, n) == \A v \in JsonValue : Depth[v] < n => f[v] = RouteCall(f, v)

\* Two such functions agree where both answer.
LEMMA RoutesAgree ==
  ASSUME NEW m \in Nat, NEW n \in Nat, NEW f, NEW g, RoutesBelow(f, m), RoutesBelow(g, n)
  PROVE  \A v \in JsonValue : Depth[v] < m /\ Depth[v] < n => f[v] = g[v]
<1> DEFINE P == {v \in JsonValue : Depth[v] < m /\ Depth[v] < n => f[v] = g[v]}
<1>1. ASSUME NEW v \in JsonValue, \A w \in JsonValue : Depth[w] < Depth[v] => w \in P
      PROVE  v \in P
  <2> SUFFICES ASSUME Depth[v] < m, Depth[v] < n PROVE f[v] = g[v]
    OBVIOUS
  <2>1. ASSUME NEW w \in JsonValue, Depth[w] < Depth[v] PROVE f[w] = g[w]
    <3>1. Depth[w] \in Nat /\ Depth[v] \in Nat
      BY DepthAssumption
    <3>2. Depth[w] < m /\ Depth[w] < n
      BY <2>1, <3>1
    <3> QED BY <1>1, <2>1, <3>2
  <2>2. RouteCall(f, v) = RouteCall(g, v)
    BY <2>1, RouteCallIsLocal
  <2> QED BY <2>2 DEF RoutesBelow
<1>2. P = JsonValue
  <2>1. P \in SUBSET JsonValue
    OBVIOUS
  <2> HIDE DEF P
  <2> QED BY <1>1, <2>1, DepthAssumption, RankInduction
<1> QED BY <1>2

\* There is such a function for every depth.
LEMMA RoutesExistBelow ==
  ASSUME NEW n \in Nat
  PROVE  \E f : RoutesBelow(f, n)
<1> SUFFICES ASSUME ~\E f : RoutesBelow(f, n) PROVE FALSE
  OBVIOUS
<1> DEFINE unsolved == {i \in Nat : ~\E f : RoutesBelow(f, i)}
           i == First(unsolved)
<1>1. i \in unsolved /\ \A j \in unsolved : i <= j
  <2>1. unsolved \in SUBSET Nat /\ unsolved # {}
    OBVIOUS
  <2> HIDE DEF unsolved
  <2> QED BY <2>1, FirstIsLeast
<1> HIDE DEF i
<1>2. i # 0
  <2>1. ASSUME NEW v \in JsonValue PROVE ~(Depth[v] < 0)
    BY DepthAssumption
  <2>2. RoutesBelow(<<>>, 0)
    BY <2>1, Zenon DEF RoutesBelow
  <2> QED BY <1>1, <2>2
<1>3. i \in Nat /\ i - 1 \in Nat /\ ~(i <= i - 1)
  BY <1>1, <1>2
<1>4. PICK f : RoutesBelow(f, i - 1)
  BY <1>1, <1>3
<1> DEFINE g == [v \in JsonValue |-> RouteCall(f, v)]
<1>5. ASSUME NEW v \in JsonValue, Depth[v] < i PROVE g[v] = RouteCall(g, v)
  <2>1. ASSUME NEW w \in JsonValue, Depth[w] < Depth[v] PROVE f[w] = g[w]
    <3>1. Depth[w] \in Nat /\ Depth[v] \in Nat
      BY DepthAssumption
    <3>2. Depth[w] < i - 1
      BY <1>3, <1>5, <2>1, <3>1
    <3> QED BY <1>4, <3>2 DEF RoutesBelow
  <2>2. RouteCall(f, v) = RouteCall(g, v)
    <3> HIDE DEF g
    <3> QED BY <2>1, RouteCallIsLocal
  <2> QED BY <2>2
<1>6. RoutesBelow(g, i)
  <2> HIDE DEF g
  <2> QED BY <1>5 DEF RoutesBelow
<1> QED BY <1>1, <1>6

\* Nest's transformPatternToRoute answers, and as it is written.
LEMMA RouteAnswers ==
  \A v \in JsonValue : RouteOfPattern[v] = RouteCall(RouteOfPattern, v)
<1> DEFINE level == [n \in Nat |-> CHOOSE f : RoutesBelow(f, n)]
           answer == [v \in JsonValue |-> level[Depth[v] + 1][v]]
<1>1. ASSUME NEW n \in Nat PROVE RoutesBelow(level[n], n)
  <2>1. RoutesBelow(CHOOSE f : RoutesBelow(f, n), n)
    BY RoutesExistBelow, Zenon
  <2>2. level[n] = CHOOSE f : RoutesBelow(f, n)
    BY Zenon
  <2> QED BY <2>1, <2>2, Zenon
<1> HIDE DEF level
<1>2. ASSUME NEW v \in JsonValue PROVE answer[v] = RouteCall(answer, v)
  <2> DEFINE n == Depth[v] + 1
  <2>1. Depth[v] \in Nat /\ n \in Nat /\ Depth[v] < n
    BY DepthAssumption
  <2>2. ASSUME NEW w \in JsonValue, Depth[w] < Depth[v] PROVE answer[w] = level[n][w]
    <3>1. Depth[w] \in Nat
      BY DepthAssumption
    <3>2. Depth[w] + 1 \in Nat /\ Depth[w] < Depth[w] + 1 /\ Depth[w] < n
      BY <2>1, <2>2, <3>1
    <3>3. level[Depth[w] + 1][w] = level[n][w]
      <4> HIDE DEF n
      <4> QED BY <1>1, <2>1, <3>2, RoutesAgree
    <3> QED BY <3>3
  <2>3. answer[v] = RouteCall(level[n], v)
    BY <1>1, <2>1 DEF RoutesBelow
  <2>4. RouteCall(answer, v) = RouteCall(level[n], v)
    <3> HIDE DEF answer, n
    <3> QED BY <2>2, RouteCallIsLocal
  <2> QED BY <2>3, <2>4, Zenon
<1>3. answer = [v \in JsonValue |-> RouteCall(answer, v)]
  <2>1. answer = [v \in JsonValue |-> answer[v]]
    OBVIOUS
  <2> HIDE DEF answer
  <2>2. [v \in JsonValue |-> answer[v]] = [v \in JsonValue |-> RouteCall(answer, v)]
    BY <1>2
  <2> QED BY <2>1, <2>2, Zenon
<1>4. \E g : g = [v \in JsonValue |-> RouteCall(g, v)]
  BY <1>3, Zenon
<1>5. RouteOfPattern = [v \in JsonValue |-> RouteCall(RouteOfPattern, v)]
  BY <1>4, Zenon DEF RouteOfPattern
<1> QED BY <1>5, Zenon

-----------------------------------------------------------------------------
\* One call depends on the leaves of the parts only.
LEMMA LeavesCallIsLocal ==
  ASSUME NEW f, NEW g, NEW v \in JsonValue,
         \A w \in JsonValue : Depth[w] < Depth[v] => f[w] = g[w]
  PROVE  LeavesCall(f, v) = LeavesCall(g, v)
<1>1. CASE IsObject(v)
  <2> DEFINE Longer(k, ls) == {<< <<PathStep(k)>> \o l[1], l[2] >> : l \in ls}
  <2>1. \A k \in Keys(v) : Longer(k, f[Property(v, k)]) = Longer(k, g[Property(v, k)])
    BY <1>1, ObjectParts, Zenon
  <2>2. /\ LeavesCall(f, v) = UNION {Longer(k, f[Property(v, k)]) : k \in Keys(v)}
        /\ LeavesCall(g, v) = UNION {Longer(k, g[Property(v, k)]) : k \in Keys(v)}
    BY <1>1, Zenon DEF LeavesCall
  <2> HIDE DEF Longer
  <2> QED BY <2>1, <2>2
<1>2. CASE ~IsObject(v)
  BY <1>2, Zenon DEF LeavesCall
<1> QED BY <1>1, <1>2

\* A leaf of a value is a leaf of a part, a step further away.
LeafThrough(v, k, l) ==
  \E r \in Leaves[Property(v, k)] : l = << <<PathStep(k)>> \o r[1], r[2] >>

\* The steps of paths.
PathSteps == {PathStep(k) : k \in UNION {Keys(v) : v \in {w \in JsonValue : IsObject(w)}}}

\* Every value has leaves, as they are written, each with a path to it.
LEMMA LeavesAnswer ==
  /\ Leaves \in [JsonValue -> SUBSET (Seq(PathSteps) \X JsonValue)]
  /\ \A v \in JsonValue : Leaves[v] = LeavesCall(Leaves, v)
<1> DEFINE S == JsonValue
           T == SUBSET (Seq(PathSteps) \X JsonValue)
           F == [f \in [S -> T] |-> [v \in S |-> LeavesCall(f, v)]]
<1>1. ASSUME NEW f \in [S -> T], NEW v \in S PROVE LeavesCall(f, v) \in T
  <2>1. CASE IsObject(v)
    <3>1. ASSUME NEW k \in Keys(v), NEW l \in f[Property(v, k)]
          PROVE  << <<PathStep(k)>> \o l[1], l[2] >> \in Seq(PathSteps) \X JsonValue
      <4>1. PathStep(k) \in PathSteps
        BY <2>1, Zenon DEF PathSteps
      <4>2. Property(v, k) \in S
        BY <2>1, ObjectParts
      <4>3. l \in Seq(PathSteps) \X JsonValue
        BY <4>2
      <4>4. l[1] \in Seq(PathSteps) /\ l[2] \in JsonValue
        BY <4>3
      <4>5. <<PathStep(k)>> \o l[1] \in Seq(PathSteps)
        BY <4>1, <4>4
      <4> QED BY <4>4, <4>5
    <3>2. LeavesCall(f, v) =
            UNION {{<< <<PathStep(k)>> \o l[1], l[2] >> : l \in f[Property(v, k)]} : k \in Keys(v)}
      BY <2>1, Zenon DEF LeavesCall
    <3>3. ASSUME NEW x \in LeavesCall(f, v) PROVE x \in Seq(PathSteps) \X JsonValue
      <4>1. PICK k \in Keys(v) :
              x \in {<< <<PathStep(k)>> \o l[1], l[2] >> : l \in f[Property(v, k)]}
        BY <3>2, <3>3, Zenon
      <4>2. PICK l \in f[Property(v, k)] : x = << <<PathStep(k)>> \o l[1], l[2] >>
        BY <4>1, Zenon
      <4> QED BY <3>1, <4>2, Zenon
    <3> QED BY <3>3, Zenon
  <2>2. CASE ~IsObject(v)
    <3>1. LeavesCall(f, v) = {<< <<>>, v >>}
      BY <2>2, Zenon DEF LeavesCall
    <3>2. <<>> \in Seq(PathSteps)
      OBVIOUS
    <3>3. << <<>>, v >> \in Seq(PathSteps) \X JsonValue
      BY <3>2
    <3> HIDE DEF T
    <3>4. LeavesCall(f, v) \subseteq Seq(PathSteps) \X JsonValue
      BY <3>1, <3>3, Zenon
    <3> QED BY <3>4 DEF T
  <2> QED BY <2>1, <2>2
<1>2. F \in [[S -> T] -> [S -> T]]
  <2> HIDE DEF S, T
  <2> QED BY <1>1
<1>3. Recurses(F, S, T, Depth)
  <2>1. T # {}
    OBVIOUS
  <2>2. \A f, g \in [S -> T] : \A x \in S :
          (\A y \in S : Depth[y] < Depth[x] => f[y] = g[y]) => F[f][x] = F[g][x]
    <3> HIDE DEF T
    <3> QED BY LeavesCallIsLocal
  <2>3. Depth \in [S -> Nat]
    BY DepthAssumption
  <2> HIDE DEF F, S, T
  <2> QED BY <1>2, <2>1, <2>2, <2>3, Zenon DEF Recurses
<1>4. \E f \in [S -> T] : f = F[f]
  <2> HIDE DEF F, S, T
  <2> QED BY <1>3, RecursiveFunction
<1>5. PICK f \in [S -> T] : f = [v \in S |-> LeavesCall(f, v)]
  BY <1>4, Zenon
<1>6. Leaves = [v \in S |-> LeavesCall(Leaves, v)]
  BY <1>5, Zenon DEF Leaves
<1>7. \A v \in S : Leaves[v] = LeavesCall(Leaves, v)
  BY <1>6, Zenon
<1>8. Leaves \in [S -> T]
  <2>1. Leaves = f
    <3>1. ASSUME NEW g, g = [v \in S |-> LeavesCall(g, v)] PROVE g = f
      <4> DEFINE P == {v \in S : g[v] = f[v]}
      <4>1. ASSUME NEW v \in S, \A w \in S : Depth[w] < Depth[v] => w \in P PROVE v \in P
        <5>1. LeavesCall(g, v) = LeavesCall(f, v)
          BY <4>1, LeavesCallIsLocal
        <5>2. g[v] = LeavesCall(g, v) /\ f[v] = LeavesCall(f, v)
          BY <1>5, <3>1, Zenon
        <5> QED BY <5>1, <5>2
      <4>2. P = S
        <5>1. P \in SUBSET S
          OBVIOUS
        <5> HIDE DEF P, T
        <5> QED BY <4>1, <5>1, DepthAssumption, RankInduction
      <4>3. DOMAIN g = S /\ DOMAIN f = S
        BY <1>5, <3>1, Zenon
      <4> QED BY <1>5, <3>1, <4>2, <4>3
    <3> QED BY <1>6, <3>1
  <2> QED BY <2>1, <1>5
<1> QED BY <1>7, <1>8

-----------------------------------------------------------------------------
\* The leaves of an object are those of its parts, a step further away.
LEMMA LeavesOfObject ==
  ASSUME NEW v \in JsonValue, IsObject(v)
  PROVE  \A l : l \in Leaves[v] <=> \E k \in Keys(v) : LeafThrough(v, k, l)
<1>1. Leaves[v] =
        UNION {{<< <<PathStep(k)>> \o r[1], r[2] >> : r \in Leaves[Property(v, k)]} : k \in Keys(v)}
  BY LeavesAnswer, Zenon DEF LeavesCall
<1>2. ASSUME NEW l, l \in Leaves[v] PROVE \E k \in Keys(v) : LeafThrough(v, k, l)
  <2>1. PICK k \in Keys(v) :
          l \in {<< <<PathStep(k)>> \o r[1], r[2] >> : r \in Leaves[Property(v, k)]}
    BY <1>1, <1>2, Zenon
  <2> QED BY <2>1, Zenon DEF LeafThrough
<1>3. ASSUME NEW l, NEW k \in Keys(v), LeafThrough(v, k, l) PROVE l \in Leaves[v]
  <2> DEFINE Longer(j) == {<< <<PathStep(j)>> \o r[1], r[2] >> : r \in Leaves[Property(v, j)]}
  <2>1. l \in Longer(k)
    BY <1>3, Zenon DEF LeafThrough
  <2>2. Leaves[v] = UNION {Longer(j) : j \in Keys(v)}
    BY <1>1, Zenon
  <2> HIDE DEF Longer
  <2> QED BY <2>1, <2>2
<1> QED BY <1>2, <1>3, Zenon

\* Any other value is its own leaf.
LEMMA LeavesOfOther ==
  ASSUME NEW v \in JsonValue, ~IsObject(v)
  PROVE  Leaves[v] = {<< <<>>, v >>}
  BY LeavesAnswer, Zenon DEF LeavesCall

\* The paths of the leaves of an object, and of those of its part.
LEMMA LeafPaths ==
  ASSUME NEW v \in JsonValue, IsObject(v), NEW k \in Keys(v), NEW r \in Leaves[Property(v, k)]
  PROVE  LET path == <<PathStep(k)>> \o r[1]
         IN  /\ Len(r[1]) \in Nat /\ Len(path) = Len(r[1]) + 1
             /\ path[1] = PathStep(k)
             /\ \A i \in 1..Len(r[1]) : path[i + 1] = r[1][i]
<1>1. Property(v, k) \in JsonValue
  BY ObjectParts
<1>2. r \in Seq(PathSteps) \X JsonValue
  BY <1>1, LeavesAnswer
<1>3. r[1] \in Seq(PathSteps)
  BY <1>2
<1> DEFINE s == r[1]
<1>4. /\ s \in Seq(PathSteps) /\ PathStep(k) \in PathSteps
  BY <1>3, Zenon DEF PathSteps
<1> HIDE DEF s
<1>5. /\ Len(s) \in Nat /\ Len(<<PathStep(k)>> \o s) = Len(s) + 1
      /\ (<<PathStep(k)>> \o s)[1] = PathStep(k)
      /\ \A i \in 1..Len(s) : (<<PathStep(k)>> \o s)[i + 1] = s[i]
  BY <1>4
<1> QED BY <1>5 DEF s

\* A leaf outside arrays is no step away from an index, and is such a leaf of
\* a part.
LEMMA FieldLeavesOfObject ==
  ASSUME NEW v \in JsonValue, IsObject(v), NEW l \in FieldLeaves(v)
  PROVE  \E k \in Keys(v) :
           /\ k \notin Indices
           /\ \E r \in FieldLeaves(Property(v, k)) : l = << <<PathStep(k)>> \o r[1], r[2] >>
<1>1. l \in Leaves[v] /\ \A i \in 1..Len(l[1]) : l[1][i] # "[]"
  BY Zenon DEF FieldLeaves
<1>2. PICK k \in Keys(v) : LeafThrough(v, k, l)
  BY <1>1, LeavesOfObject, Zenon
<1>3. PICK r \in Leaves[Property(v, k)] : l = << <<PathStep(k)>> \o r[1], r[2] >>
  BY <1>2, Zenon DEF LeafThrough
<1> DEFINE path == <<PathStep(k)>> \o r[1]
<1>4. /\ Len(r[1]) \in Nat /\ Len(path) = Len(r[1]) + 1
      /\ path[1] = PathStep(k)
      /\ \A i \in 1..Len(r[1]) : path[i + 1] = r[1][i]
  BY LeafPaths
<1>5. l[1] = path
  BY <1>3
<1> HIDE DEF path
<1>6. k \notin Indices
  <2>1. 1 \in 1..Len(path)
    BY <1>4
  <2> QED BY <1>1, <1>4, <1>5, <2>1, Zenon DEF PathStep
<1>7. r \in FieldLeaves(Property(v, k))
  <2>1. ASSUME NEW i \in 1..Len(r[1]) PROVE r[1][i] # "[]"
    <3>1. i + 1 \in 1..Len(path)
      BY <1>4
    <3> QED BY <1>1, <1>4, <1>5, <3>1
  <2> QED BY <2>1, Zenon DEF FieldLeaves
<1> QED BY <1>3, <1>6, <1>7, Zenon

\* A leaf that is at most an element of an array is such a leaf of a part, and
\* is the part when a step away from an index.
LEMMA PlainLeavesOfObject ==
  ASSUME NEW v \in JsonValue, IsObject(v), NEW l \in PlainLeaves(v)
  PROVE  \E k \in Keys(v) : \E r \in PlainLeaves(Property(v, k)) :
           /\ l = << <<PathStep(k)>> \o r[1], r[2] >>
           /\ k \in Indices => ~IsObject(Property(v, k))
<1>1. /\ l \in Leaves[v]
      /\ \A i \in 1..Len(l[1]) : l[1][i] = "[]" => i = Len(l[1])
  BY Zenon DEF PlainLeaves
<1>2. PICK k \in Keys(v) : LeafThrough(v, k, l)
  BY <1>1, LeavesOfObject, Zenon
<1>3. PICK r \in Leaves[Property(v, k)] : l = << <<PathStep(k)>> \o r[1], r[2] >>
  BY <1>2, Zenon DEF LeafThrough
<1> DEFINE path == <<PathStep(k)>> \o r[1]
<1>4. /\ Len(r[1]) \in Nat /\ Len(path) = Len(r[1]) + 1
      /\ path[1] = PathStep(k)
      /\ \A i \in 1..Len(r[1]) : path[i + 1] = r[1][i]
  BY LeafPaths
<1>5. l[1] = path
  BY <1>3
<1> HIDE DEF path
<1>6. ASSUME k \in Indices, IsObject(Property(v, k)) PROVE FALSE
  <2>1. Property(v, k) \in JsonValue
    BY ObjectParts
  <2>2. PICK j \in Keys(Property(v, k)) : LeafThrough(Property(v, k), j, r)
    BY <1>6, <2>1, LeavesOfObject, Zenon
  <2>3. PICK q \in Leaves[Property(Property(v, k), j)] : r = << <<PathStep(j)>> \o q[1], q[2] >>
    BY <2>2, Zenon DEF LeafThrough
  <2>4. Len(r[1]) = Len(q[1]) + 1 /\ Len(q[1]) \in Nat
    <3>1. Len(<<PathStep(j)>> \o q[1]) = Len(q[1]) + 1 /\ Len(q[1]) \in Nat
      BY <1>6, <2>1, LeafPaths
    <3>2. r[1] = <<PathStep(j)>> \o q[1]
      BY <2>3
    <3> QED BY <3>1, <3>2, Zenon
  <2>5. 1 \in 1..Len(path) /\ 1 # Len(path)
    BY <1>4, <2>4
  <2>6. PathStep(k) = "[]"
    BY <1>6, Zenon DEF PathStep
  <2> QED BY <1>1, <1>4, <1>5, <2>5, <2>6, Zenon
<1>7. r \in PlainLeaves(Property(v, k))
  <2>1. ASSUME NEW i \in 1..Len(r[1]), r[1][i] = "[]" PROVE i = Len(r[1])
    <3>1. i + 1 \in 1..Len(path)
      BY <1>4
    <3>2. i + 1 = Len(path)
      BY <1>1, <1>4, <1>5, <2>1, <3>1
    <3> QED BY <1>4, <3>2
  <2> QED BY <2>1, Zenon DEF PlainLeaves
<1> QED BY <1>3, <1>6, <1>7, Zenon

\* The keys of an array are indices.
LEMMA ArrayKeys ==
  ASSUME NEW v \in JsonValue, IsArray(v), NEW k \in Keys(v)
  PROVE  k \in Indices /\ PathStep(k) = "[]"
<1>1. k \in Indices
  BY Zenon DEF Indices
<1> QED BY <1>1, Zenon DEF PathStep

\* What is neither a primitive nor an object, as null and undefined, matches
\* nothing, and nothing matches it.
LEMMA NothingMatchesNothing ==
  ASSUME NEW v \in JsonValue, ~IsPrimitive(v), ~IsObject(v), NEW w \in JsonValue, NEW b \in BOOLEAN
  PROVE  ~PatternMatch[<<v, w, b>>] /\ ~PatternMatch[<<w, v, b>>]
<1>1. ~IsArray(v)
  BY DEF IsObject
<1>2. ~MatchCall(PatternMatch, v, w, b)
  BY <1>1 DEF MatchCall
<1>3. ~MatchCall(PatternMatch, w, v, b)
  BY <1>1 DEF MatchCall
<1> QED BY <1>2, <1>3, PatternMatchAnswers

\* undefined is such a value.
LEMMA UndefinedIsNothing == ~IsPrimitive(Undefined) /\ ~IsObject(Undefined)
  BY DEF IsPrimitive, IsObject, IsArray, Undefined

\* A full match: no leaf of the message is foreign to the pattern, and none of
\* the pattern's outside arrays is missing from the message.
LEMMA FullMatchAgrees ==
  ASSUME NEW h \in JsonValue, NEW m \in JsonValue, PatternMatch[<<h, m, FALSE>>]
  PROVE  Leaves[m] \subseteq Leaves[h] /\ FieldLeaves(h) \subseteq Leaves[m]
<1> DEFINE Agree(v, w) == Leaves[w] \subseteq Leaves[v] /\ FieldLeaves(v) \subseteq Leaves[w]
           P == {v \in JsonValue : \A w \in JsonValue : PatternMatch[<<v, w, FALSE>>] => Agree(v, w)}
<1>1. ASSUME NEW v \in JsonValue, \A u \in JsonValue : Depth[u] < Depth[v] => u \in P
      PROVE  v \in P
  <2> SUFFICES ASSUME NEW w \in JsonValue, PatternMatch[<<v, w, FALSE>>] PROVE Agree(v, w)
    OBVIOUS
  <2>1. \A u, x \in JsonValue : Depth[u] < Depth[v] /\ PatternMatch[<<u, x, FALSE>>] => Agree(u, x)
    BY <1>1
  <2> HIDE DEF Agree
  <2>2. MatchCall(PatternMatch, v, w, FALSE)
    BY PatternMatchAnswers
  <2>3. CASE v = w
    BY <2>3, Zenon DEF Agree, FieldLeaves
  <2>4. CASE IsArray(v) /\ IsArray(w) /\ ArraysMatch(PatternMatch, v, w, FALSE)
    <3> DEFINE hs == Sorted(v.elements)
               ms == Sorted(w.elements)
    <3>1. IsObject(v) /\ IsObject(w)
      BY <2>4 DEF IsObject
    <3>2. \A i \in DOMAIN ms : PatternMatch[<<Element(hs, i), ms[i], FALSE>>]
      BY <2>4, Zenon DEF ArraysMatch
    <3>3. /\ \A i \in DOMAIN hs : \E k \in Keys(v) : hs[i] = Property(v, k)
          /\ \A i : Element(hs, i) \in JsonValue /\ Depth[Element(hs, i)] < Depth[v]
      BY <2>4, SortedElements, Zenon
    <3>4. /\ \A k \in Keys(w) : \E i \in DOMAIN ms : ms[i] = Property(w, k)
          /\ \A i \in DOMAIN ms : ms[i] \in JsonValue
      <4>1. ms = Sorted(w.elements)
        OBVIOUS
      <4> HIDE DEF ms
      <4> QED BY <2>4, <4>1, SortedElements
    <3> HIDE DEF hs, ms
    <3>5. ASSUME NEW l \in Leaves[w] PROVE l \in Leaves[v]
      <4>1. PICK k \in Keys(w) : LeafThrough(w, k, l)
        BY <3>1, LeavesOfObject, Zenon
      <4>2. PICK r \in Leaves[Property(w, k)] : l = << <<PathStep(k)>> \o r[1], r[2] >>
        BY <4>1, Zenon DEF LeafThrough
      <4>3. PICK i \in DOMAIN ms : ms[i] = Property(w, k)
        BY <3>4
      <4>4. PatternMatch[<<Element(hs, i), ms[i], FALSE>>]
        BY <3>2
      <4>5. Element(hs, i) # Undefined
        BY <3>3, <3>4, <4>3, <4>4, NothingMatchesNothing, UndefinedIsNothing
      <4>6. i \in DOMAIN hs /\ Element(hs, i) = hs[i]
        BY <4>5, Zenon DEF Element
      <4>7. Agree(Element(hs, i), ms[i])
        BY <2>1, <3>3, <3>4, <4>3, <4>4
      <4>8. PICK j \in Keys(v) : hs[i] = Property(v, j)
        BY <3>3, <4>6
      <4>9. r \in Leaves[Property(v, j)]
        BY <4>3, <4>6, <4>7, <4>8 DEF Agree
      <4>10. PathStep(j) = PathStep(k)
        BY <2>4, ArrayKeys
      <4>11. LeafThrough(v, j, l)
        BY <4>2, <4>9, <4>10, Zenon DEF LeafThrough
      <4> QED BY <3>1, <4>11, LeavesOfObject, Zenon
    <3>6. ASSUME NEW l \in FieldLeaves(v) PROVE FALSE
      BY <2>4, <3>1, FieldLeavesOfObject, ArrayKeys, Zenon
    <3> QED BY <3>5, <3>6 DEF Agree
  <2>5. CASE IsObject(v) /\ IsObject(w) /\ ObjectsMatch(PatternMatch, v, w, FALSE)
    <3>1. /\ Cardinality(Keys(v)) = Cardinality(Keys(w))
          /\ \A k \in Keys(w) : PatternMatch[<<Property(v, k), Property(w, k), FALSE>>]
      BY <2>5, Zenon DEF ObjectsMatch, SameShape, ComparedKeys
    <3>2. /\ \A k : Property(v, k) \in JsonValue /\ Depth[Property(v, k)] < Depth[v]
          /\ \A k : k \notin Keys(v) => Property(v, k) = Undefined
          /\ \A k : Property(w, k) \in JsonValue
          /\ IsFiniteSet(Keys(v))
      BY <2>5, ObjectParts, Zenon
    <3>3. \A k \in Keys(w) : Property(v, k) # Undefined
      BY <3>1, <3>2, NothingMatchesNothing, UndefinedIsNothing
    <3>4. Keys(w) = Keys(v)
      <4>1. Keys(w) \in SUBSET Keys(v)
        BY <3>2, <3>3, Zenon
      <4> QED BY <3>1, <3>2, <4>1, FS_Subset
    <3>5. \A k \in Keys(w) : Agree(Property(v, k), Property(w, k))
      BY <2>1, <3>1, <3>2, Zenon
    <3>6. ASSUME NEW l \in Leaves[w] PROVE l \in Leaves[v]
      <4>1. PICK k \in Keys(w) : LeafThrough(w, k, l)
        BY <2>5, LeavesOfObject, Zenon
      <4>2. PICK r \in Leaves[Property(w, k)] : l = << <<PathStep(k)>> \o r[1], r[2] >>
        BY <4>1, Zenon DEF LeafThrough
      <4>3. r \in Leaves[Property(v, k)]
        BY <3>5 DEF Agree
      <4>4. LeafThrough(v, k, l)
        BY <4>2, <4>3, Zenon DEF LeafThrough
      <4> QED BY <2>5, <3>4, <4>4, LeavesOfObject, Zenon
    <3>7. ASSUME NEW l \in FieldLeaves(v) PROVE l \in Leaves[w]
      <4>1. PICK k \in Keys(v) :
              /\ k \notin Indices
              /\ \E r \in FieldLeaves(Property(v, k)) : l = << <<PathStep(k)>> \o r[1], r[2] >>
        BY <2>5, FieldLeavesOfObject
      <4>2. PICK r \in FieldLeaves(Property(v, k)) : l = << <<PathStep(k)>> \o r[1], r[2] >>
        BY <4>1
      <4>3. r \in Leaves[Property(w, k)]
        BY <3>4, <3>5 DEF Agree
      <4>4. LeafThrough(w, k, l)
        BY <4>2, <4>3, Zenon DEF LeafThrough
      <4> QED BY <2>5, <3>4, <4>4, LeavesOfObject, Zenon
    <3> QED BY <3>6, <3>7 DEF Agree
  <2> QED BY <2>2, <2>3, <2>4, <2>5 DEF MatchCall
<1>2. P = JsonValue
  <2>1. P \in SUBSET JsonValue
    OBVIOUS
  <2> HIDE DEF P
  <2> QED BY <1>1, <2>1, DepthAssumption, RankInduction
<1> QED BY <1>2

\* A partial match: what the pattern states plainly is in the message.
LEMMA PartialMatchAgrees ==
  ASSUME NEW h \in JsonValue, NEW m \in JsonValue, PatternMatch[<<h, m, TRUE>>]
  PROVE  PlainLeaves(h) \subseteq Leaves[m]
<1> DEFINE P == {v \in JsonValue : \A w \in JsonValue :
                   PatternMatch[<<v, w, TRUE>>] => PlainLeaves(v) \subseteq Leaves[w]}
<1>1. ASSUME NEW v \in JsonValue, \A u \in JsonValue : Depth[u] < Depth[v] => u \in P
      PROVE  v \in P
  <2> SUFFICES ASSUME NEW w \in JsonValue, PatternMatch[<<v, w, TRUE>>], NEW l \in PlainLeaves(v)
               PROVE  l \in Leaves[w]
    OBVIOUS
  <2>1. \A u, x \in JsonValue :
          Depth[u] < Depth[v] /\ PatternMatch[<<u, x, TRUE>>] => PlainLeaves(u) \subseteq Leaves[x]
    BY <1>1
  <2>2. MatchCall(PatternMatch, v, w, TRUE)
    BY PatternMatchAnswers
  <2>3. CASE v = w
    BY <2>3, Zenon DEF PlainLeaves
  <2>4. ASSUME IsObject(v)
        PROVE  \E k \in Keys(v) : \E r \in PlainLeaves(Property(v, k)) :
                 /\ l = << <<PathStep(k)>> \o r[1], r[2] >>
                 /\ k \in Indices => ~IsObject(Property(v, k))
    BY <2>4, PlainLeavesOfObject
  <2>5. CASE IsArray(v) /\ IsArray(w) /\ ArraysMatch(PatternMatch, v, w, TRUE)
    <3> DEFINE hs == Sorted(v.elements)
               ms == Sorted(w.elements)
    <3>1. IsObject(v) /\ IsObject(w)
      BY <2>5 DEF IsObject
    <3>2. \A i \in DOMAIN hs :
            IF IsPrimitive(hs[i]) THEN \E j \in DOMAIN ms : ms[j] = hs[i]
            ELSE \E j \in DOMAIN hs : PatternMatch[<<hs[j], hs[i], TRUE>>]
      BY <2>5, Zenon DEF ArraysMatch
    <3>3. /\ \A k \in Keys(v) : \E i \in DOMAIN hs : hs[i] = Property(v, k)
          /\ \A i \in DOMAIN hs : hs[i] \in JsonValue
      <4>1. hs = Sorted(v.elements)
        OBVIOUS
      <4> HIDE DEF hs
      <4> QED BY <2>5, <4>1, SortedElements
    <3>4. \A i \in DOMAIN ms : \E k \in Keys(w) : ms[i] = Property(w, k)
      BY <2>5, SortedElements, Zenon
    <3> HIDE DEF hs, ms
    <3>5. PICK k \in Keys(v) : \E r \in PlainLeaves(Property(v, k)) :
            /\ l = << <<PathStep(k)>> \o r[1], r[2] >>
            /\ k \in Indices => ~IsObject(Property(v, k))
      BY <2>4, <3>1
    <3>6. PICK r \in PlainLeaves(Property(v, k)) : l = << <<PathStep(k)>> \o r[1], r[2] >>
      BY <3>5
    <3>7. PathStep(k) = "[]" /\ ~IsObject(Property(v, k))
      BY <2>5, <3>5, ArrayKeys
    <3>8. PICK i \in DOMAIN hs : hs[i] = Property(v, k)
      BY <3>3
    <3>9. IsPrimitive(hs[i])
      <4> SUFFICES ASSUME ~IsPrimitive(hs[i]) PROVE FALSE
        OBVIOUS
      <4>1. PICK j \in DOMAIN hs : PatternMatch[<<hs[j], hs[i], TRUE>>]
        BY <3>2
      <4>2. hs[i] \in JsonValue /\ hs[j] \in JsonValue /\ ~IsObject(hs[i])
        BY <3>3, <3>7, <3>8
      <4> QED BY <4>1, <4>2, NothingMatchesNothing
    <3>10. PICK j \in Keys(w) : Property(w, j) = Property(v, k)
      BY <3>2, <3>4, <3>8, <3>9
    <3>11. r \in Leaves[Property(w, j)]
      BY <3>6, <3>10, Zenon DEF PlainLeaves
    <3>12. PathStep(j) = PathStep(k)
      BY <2>5, <3>7, ArrayKeys
    <3>13. LeafThrough(w, j, l)
      BY <3>6, <3>11, <3>12, Zenon DEF LeafThrough
    <3> QED BY <3>1, <3>13, LeavesOfObject, Zenon
  <2>6. CASE IsObject(v) /\ IsObject(w) /\ ObjectsMatch(PatternMatch, v, w, TRUE)
    <3>1. \A k \in Keys(v) : PatternMatch[<<Property(v, k), Property(w, k), TRUE>>]
      BY <2>6, Zenon DEF ObjectsMatch, ComparedKeys
    <3>2. /\ \A k : Property(v, k) \in JsonValue /\ Depth[Property(v, k)] < Depth[v]
          /\ \A k : Property(w, k) \in JsonValue
          /\ \A k : k \notin Keys(w) => Property(w, k) = Undefined
      BY <2>6, ObjectParts, Zenon
    <3>3. PICK k \in Keys(v) : \E r \in PlainLeaves(Property(v, k)) : l = << <<PathStep(k)>> \o r[1], r[2] >>
      BY <2>4, <2>6
    <3>4. PICK r \in PlainLeaves(Property(v, k)) : l = << <<PathStep(k)>> \o r[1], r[2] >>
      BY <3>3
    <3>5. Property(w, k) # Undefined
      BY <3>1, <3>2, NothingMatchesNothing, UndefinedIsNothing
    <3>6. k \in Keys(w)
      BY <3>2, <3>5
    <3>7. r \in Leaves[Property(w, k)]
      BY <2>1, <3>1, <3>2
    <3>8. LeafThrough(w, k, l)
      BY <3>4, <3>7, Zenon DEF LeafThrough
    <3> QED BY <2>6, <3>6, <3>8, LeavesOfObject, Zenon
  <2> QED BY <2>2, <2>3, <2>5, <2>6 DEF MatchCall
<1>2. P = JsonValue
  <2>1. P \in SUBSET JsonValue
    OBVIOUS
  <2> HIDE DEF P
  <2> QED BY <1>1, <2>1, DepthAssumption, RankInduction
<1> QED BY <1>2

\* One value, or two objects of one route.
SameRoute(x, y) ==
  x = y \/ (IsObject(x) /\ IsObject(y) /\ RouteOfPattern[x] = RouteOfPattern[y])

\* Objects of one route have the same keys, and under them parts of one route.
LEMMA RoutesOfObjects ==
  ASSUME PlainTexts, NEW x \in JsonValue, NEW y \in JsonValue,
         IsObject(x), IsObject(y), RouteOfPattern[x] = RouteOfPattern[y]
  PROVE  /\ Keys(x) = Keys(y)
         /\ \A k \in Keys(x) : SameRoute(Property(x, k), Property(y, k))
<1>1. PartTexts(RouteOfPattern, x) = PartTexts(RouteOfPattern, y)
  BY DEF PlainTexts, RoutesTell
<1>2. /\ Keys(x) = Keys(y)
      /\ \A k \in Keys(x) :
           PartText(RouteOfPattern, Property(x, k)) = PartText(RouteOfPattern, Property(y, k))
  BY <1>1 DEF PartTexts
<1>3. ASSUME NEW k \in Keys(x) PROVE SameRoute(Property(x, k), Property(y, k))
  <2> DEFINE u == Property(x, k)
             w == Property(y, k)
  <2>1. u \in JsonValue /\ w \in JsonValue
    BY ObjectParts
  <2>2. PartText(RouteOfPattern, u) = PartText(RouteOfPattern, w)
    BY <1>2
  <2> HIDE DEF u, w
  <2>3. u = w \/ (IsObject(u) /\ IsObject(w))
    BY <2>1, <2>2, Zenon DEF PlainTexts, TextsTell
  <2>4. ASSUME NEW z \in JsonValue, IsObject(z) PROVE PartText(RouteOfPattern, z) = RouteOfPattern[z]
    <3>1. ~IsPrimitive(z) /\ ~IsText(z)
      BY <2>4, ValueAssumption DEF IsText
    <3>2. z # Null
      BY <2>4 DEF IsObject, IsArray, Null
    <3> QED BY <2>4, <3>1, <3>2 DEF PartText
  <2> QED BY <2>1, <2>2, <2>3, <2>4, Zenon DEF SameRoute, u, w
<1> QED BY <1>2, <1>3

\* Objects of one route have the same leaves: an array has the route of the
\* object with its indices as keys, but nothing else is confused.
LEMMA RoutesAreLeaves ==
  ASSUME PlainTexts, NEW v \in JsonValue, NEW w \in JsonValue, SameRoute(v, w)
  PROVE  Leaves[v] = Leaves[w]
<1> DEFINE P == {x \in JsonValue : \A y \in JsonValue : SameRoute(x, y) => Leaves[x] = Leaves[y]}
<1>1. ASSUME NEW x \in JsonValue, \A u \in JsonValue : Depth[u] < Depth[x] => u \in P
      PROVE  x \in P
  <2> SUFFICES ASSUME NEW y \in JsonValue, SameRoute(x, y), x # y
               PROVE  Leaves[x] = Leaves[y]
    OBVIOUS
  <2>1. \A u, z \in JsonValue :
          Depth[u] < Depth[x] /\ SameRoute(u, z) => Leaves[u] = Leaves[z]
    BY <1>1
  <2>2. /\ IsObject(x) /\ IsObject(y) /\ Keys(x) = Keys(y)
        /\ \A k \in Keys(x) : SameRoute(Property(x, k), Property(y, k))
    BY RoutesOfObjects, Zenon DEF SameRoute
  <2>3. \A k \in Keys(x) : Leaves[Property(x, k)] = Leaves[Property(y, k)]
    BY <2>1, <2>2, ObjectParts, Zenon
  <2>4. \A l : (\E k \in Keys(x) : LeafThrough(x, k, l)) <=> (\E k \in Keys(y) : LeafThrough(y, k, l))
    BY <2>2, <2>3, Zenon DEF LeafThrough
  <2>5. \A l : l \in Leaves[x] <=> l \in Leaves[y]
    BY <2>2, <2>4, LeavesOfObject, Zenon
  <2> QED BY <2>5
<1>2. P = JsonValue
  <2>1. P \in SUBSET JsonValue
    OBVIOUS
  <2> HIDE DEF P
  <2> QED BY <1>1, <2>1, DepthAssumption, RankInduction
<1> QED BY <1>2

\* The route of an object is written from its parts; that of a text or of a
\* number is its text.
LEMMA RoutesOfTexts ==
  ASSUME NEW v \in JsonValue, IsText(v) \/ IsNumber(v)
  PROVE  RouteOfPattern[v] = v.prim /\ ~IsObject(v) /\ v = [prim |-> v.prim, type |-> v.type]
<1>1. IsPrimitive(v)
  BY DEF IsText, IsNumber
<1>2. ~IsObject(v) /\ v = [prim |-> v.prim, type |-> v.type]
  BY <1>1, ValueAssumption
<1>3. RouteCall(RouteOfPattern, v) = v.prim
  BY <1>2, Zenon DEF RouteCall
<1> QED BY <1>2, <1>3, RouteAnswers

\* A handler and a message of one route: one of the two may have to be read as
\* JSON, and then they are one value or objects of one route.
LEMMA RoutesRead ==
  ASSUME PlainTexts, NEW p \in Pattern, NEW m \in Message, Normalized[p] = Route[m]
  PROVE  \E q \in Readings(p), r \in Readings(m) : SameRoute(q, r)
<1> DEFINE r == FromJson[m]
<1>1. p \in JsonValue /\ m \in JsonValue /\ FromJson[p] \in JsonValue /\ r \in JsonValue
  BY ServerAssumption, JsonAssumption
<1>2. RouteOfPattern[p] = RouteOfPattern[r]
  BY ServerAssumption DEF ServerNormalized, ServerRoute
<1>3. p \in Readings(p) /\ FromJson[p] \in Readings(p) /\ r \in Readings(m)
  BY DEF Readings
<1>4. \A v \in JsonValue : IsText(v) => v.type = "string"
  BY DEF IsText
<1>5. \A v \in JsonValue : IsNumber(v) => v.type = "number"
  BY DEF IsNumber
<1>6. IsText(p) \/ IsNumber(p) \/ IsObject(p)
  BY PatternAssumption
<1>7. IsObject(r) \/ IsNumber(r) \/ (IsText(r) /\ r = m)
  BY Zenon DEF PlainTexts, MessagesAreParsed
<1> HIDE DEF r
<1>8. CASE IsObject(p) /\ IsObject(r)
  BY <1>2, <1>3, <1>8, Zenon DEF SameRoute
<1>9. CASE IsText(p) /\ (IsObject(r) \/ IsNumber(r))
  <2>1. p.prim = RouteOfPattern[r]
    BY <1>1, <1>2, <1>9, RoutesOfTexts
  <2>2. IF IsNumber(r) THEN FromJson[p] = r
        ELSE IsObject(FromJson[p]) /\ RouteOfPattern[FromJson[p]] = RouteOfPattern[r]
    BY <1>1, <1>9, <2>1, Zenon DEF PlainTexts, ParsingUndoes
  <2>3. SameRoute(FromJson[p], r)
    BY <1>9, <2>2, Zenon DEF SameRoute
  <2> QED BY <1>3, <2>3, Zenon
<1>10. CASE (IsText(p) /\ IsText(r)) \/ (IsNumber(p) /\ IsNumber(r))
  <2>1. p = r
    BY <1>1, <1>2, <1>4, <1>5, <1>10, RoutesOfTexts
  <2> QED BY <1>3, <2>1, Zenon DEF SameRoute
<1>11. CASE (IsNumber(p) /\ IsObject(r)) \/ (IsObject(p) /\ IsNumber(r))
  <2>1. \/ IsNumber(p) /\ IsObject(r) /\ p.prim = RouteOfPattern[r]
        \/ IsObject(p) /\ IsNumber(r) /\ r.prim = RouteOfPattern[p]
    BY <1>1, <1>2, <1>11, RoutesOfTexts
  <2> QED BY <1>1, <2>1, Zenon DEF PlainTexts, NumbersAreNoObjects
<1>12. CASE IsText(r) /\ r = m /\ (IsNumber(p) \/ IsObject(p))
  <2>1. r.prim = RouteOfPattern[p] /\ FromJson[r] = r
    BY <1>1, <1>2, <1>12, RoutesOfTexts DEF r
  <2>2. IF IsNumber(p) THEN FromJson[r] = p
        ELSE IsObject(FromJson[r]) /\ RouteOfPattern[FromJson[r]] = RouteOfPattern[p]
    BY <1>1, <1>12, <2>1, Zenon DEF PlainTexts, ParsingUndoes
  <2>3. SameRoute(p, r)
    BY <1>12, <2>1, <2>2, Zenon DEF SameRoute
  <2> QED BY <1>3, <2>3, Zenon
<1> QED BY <1>6, <1>7, <1>8, <1>9, <1>10, <1>11, <1>12, Zenon

-----------------------------------------------------------------------------
\* A handler that qualifies for a message by its route or by a match is
\* supported by it.
LEMMA QualifiedIsSupported ==
  ASSUME PlainTexts, NEW h \in Handler, NEW m \in Message, Qualifies(h, m)
  PROVE  Means(Supported, h, m)
<1> DEFINE p == h.pattern
           b == h.partial
<1>1. /\ p \in Pattern /\ b \in BOOLEAN /\ p \in JsonValue /\ m \in JsonValue
      /\ FromJson[p] \in JsonValue /\ FromJson[m] \in JsonValue
  BY ServerAssumption, JsonAssumption DEF Handler
<1>2. \A q, r \in JsonValue :
        Supported[<<q, r, b>>] =
          (IF b THEN PlainLeaves(q) \subseteq Leaves[r]
           ELSE Leaves[r] \subseteq Leaves[q] /\ FieldLeaves(q) \subseteq Leaves[r])
  BY <1>1 DEF Supported
<1>3. \A q : FieldLeaves(q) \subseteq Leaves[q] /\ PlainLeaves(q) \subseteq Leaves[q]
  BY DEF FieldLeaves, PlainLeaves
<1>4. p \in Readings(p) /\ m \in Readings(m) /\ Readings(p) \cup Readings(m) \subseteq JsonValue
  BY <1>1 DEF Readings
<1> HIDE DEF p, b
<1>5. CASE Normalized[p] = Route[m]
  <2>1. PICK q \in Readings(p), r \in Readings(m) : SameRoute(q, r)
    BY <1>1, <1>5, RoutesRead, Zenon
  <2>2. Leaves[q] = Leaves[r] /\ q \in JsonValue /\ r \in JsonValue
    BY <1>4, <2>1, RoutesAreLeaves
  <2>3. Supported[<<q, r, b>>]
    BY <1>2, <1>3, <2>2
  <2> QED BY <2>1, <2>3, Zenon DEF Means, p, b
<1>6. CASE Match[<<p, m, b>>]
  <2>1. PatternMatch[<<p, m, b>>]
    BY <1>1, <1>6, ServerAssumption DEF ServerMatch
  <2>2. ASSUME b = TRUE PROVE Supported[<<p, m, b>>]
    BY <1>1, <1>2, <2>1, <2>2, PartialMatchAgrees
  <2>3. ASSUME b = FALSE PROVE Supported[<<p, m, b>>]
    BY <1>1, <1>2, <2>1, <2>3, FullMatchAgrees
  <2>4. Supported[<<p, m, b>>]
    BY <1>1, <2>2, <2>3
  <2> QED BY <1>4, <2>4, Zenon DEF Means, p, b
<1> QED BY <1>5, <1>6, Zenon DEF Qualifies, Matches, p, b

\* The handler under the route of the catch-all is the catch-all.
LEMMA CatchAllRoute ==
  ASSUME NEW p \in Pattern, Normalized[p] = Normalized[CatchAll]
  PROVE  p = CatchAll
BY CatchAllIsAlone

\* In any list of handlers, whoever is called for a message has a pattern that
\* speaks of it, or is the catch-all handler.
LEMMA LookupIsSupported ==
  ASSUME PlainTexts, LookupTypeOK
  PROVE  NothingForeignQualifies
<1> SUFFICES ASSUME NEW m \in Message
             PROVE  LET h == GetHandlerByPattern(m)
                    IN  h = NoHandler \/ h.pattern = CatchAll \/ Means(Supported, h, m)
  BY DEF NothingForeignQualifies
<1> DEFINE h == GetHandlerByPattern(m)
<1>1. \A k \in 1..Len(messageHandlers) : messageHandlers[k] \in Handler
  BY DEF LookupTypeOK
<1>2. WellAnswered(m)
  BY LookupAnswers
<1> HIDE DEF h
<1>3. CASE \E k \in 1..Len(messageHandlers) : IsChosen(k, m) /\ h = messageHandlers[k]
  <2>1. h \in Handler /\ Qualifies(h, m)
    BY <1>1, <1>3 DEF IsChosen
  <2> QED BY <2>1, QualifiedIsSupported DEF h
<1>4. CASE \E k \in Under(Normalized[CatchAll]) : h = messageHandlers[k]
  <2>1. h \in Handler /\ Normalized[h.pattern] = Normalized[CatchAll]
    BY <1>1, <1>4 DEF Under
  <2>2. h.pattern = CatchAll
    BY <2>1, CatchAllRoute DEF Handler
  <2> QED BY <2>2 DEF h
<1>5. CASE h = NoHandler
  BY <1>5 DEF h
<1> QED BY <1>2, <1>3, <1>4, <1>5 DEF WellAnswered, h

\* Whatever patterns and messages there are, as long as their texts do not hold
\* what routes are written with, a handler is only called for a message that
\* its pattern speaks of: none of the message's leaves is foreign to a full
\* match and none of the pattern's is missing, but for those in arrays, and
\* none that the pattern of a partial match states plainly.
THEOREM NothingForeign ==
  ASSUME PlainTexts
  PROVE  Spec => []NothingForeignQualifies
<1>1. LookupTypeOK => NothingForeignQualifies
  BY LookupIsSupported
<1> QED BY <1>1, LookupTypes, PTL

-----------------------------------------------------------------------------
\* The reference definitions, too, depend on the parts of the first value only.
LEMMA ReferencesAreLocal ==
  ASSUME NEW f, NEW g, NEW v \in JsonValue, NEW w \in JsonValue,
         \A x, y \in JsonValue : Depth[x] < Depth[v] => f[<<x, y>>] = g[<<x, y>>]
  PROVE  SameCall(f, v, w) = SameCall(g, v, w) /\ ContainedCall(f, v, w) = ContainedCall(g, v, w)
<1>1. CASE IsArray(v) /\ IsArray(w)
  <2> DEFINE s == v.elements
             t == w.elements
  <2>1. \A i \in DOMAIN s : \A j \in DOMAIN t : f[<<s[i], t[j]>>] = g[<<s[i], t[j]>>]
    BY <1>1, ArrayParts, Zenon
  <2>2. /\ SameCall(f, v, w) = \E q \in Bijection(DOMAIN s, DOMAIN t) :
             /\ \A i \in DOMAIN s : f[<<s[i], t[q[i]]>>]
             /\ \A i, j \in DOMAIN s : i < j /\ Alike(s[i], s[j]) => q[i] < q[j]
        /\ SameCall(g, v, w) = \E q \in Bijection(DOMAIN s, DOMAIN t) :
             /\ \A i \in DOMAIN s : g[<<s[i], t[q[i]]>>]
             /\ \A i, j \in DOMAIN s : i < j /\ Alike(s[i], s[j]) => q[i] < q[j]
    BY <1>1 DEF SameCall
  <2>3. ContainedCall(f, v, w) = ContainedCall(g, v, w)
    <3>1. /\ ContainedCall(f, v, w) = \A i \in DOMAIN s : \E j \in DOMAIN t : f[<<s[i], t[j]>>]
          /\ ContainedCall(g, v, w) = \A i \in DOMAIN s : \E j \in DOMAIN t : g[<<s[i], t[j]>>]
      BY <1>1 DEF ContainedCall
    <3> HIDE DEF s, t
    <3> QED BY <2>1, <3>1
  <2>4. ASSUME NEW q \in Bijection(DOMAIN s, DOMAIN t), NEW i \in DOMAIN s
        PROVE  f[<<s[i], t[q[i]]>>] = g[<<s[i], t[q[i]]>>]
    <3>1. q[i] \in DOMAIN t
      BY Fun_BijectionProperties
    <3> HIDE DEF s, t
    <3> QED BY <2>1, <3>1
  <2> HIDE DEF s, t
  <2> QED BY <2>2, <2>3, <2>4
<1>2. CASE IsObject(v) /\ IsObject(w) /\ ~IsArray(v) /\ ~IsArray(w)
  <2>1. \A k : f[<<Property(v, k), Property(w, k)>>] = g[<<Property(v, k), Property(w, k)>>]
    BY <1>2, ObjectParts, Zenon
  <2> QED BY <1>2, <2>1 DEF SameCall, ContainedCall
<1>3. CASE /\ ~(IsArray(v) /\ IsArray(w))
           /\ ~(IsObject(v) /\ IsObject(w) /\ ~IsArray(v) /\ ~IsArray(w))
  BY <1>3 DEF SameCall, ContainedCall
<1> QED BY <1>1, <1>2, <1>3

\* Both are defined for all pairs of values, and as they are written.
LEMMA ReferencesAnswer ==
  \A v, w \in JsonValue :
    /\ Same[<<v, w>>] = SameCall(Same, v, w)
    /\ Contained[<<v, w>>] = ContainedCall(Contained, v, w)
<1> DEFINE S == JsonValue \X JsonValue
           rank == [a \in S |-> Depth[a[1]]]
           F == [f \in [S -> BOOLEAN] |-> [a \in S |-> SameCall(f, a[1], a[2])]]
           G == [f \in [S -> BOOLEAN] |-> [a \in S |-> ContainedCall(f, a[1], a[2])]]
<1>1. rank \in [S -> Nat]
  BY DepthAssumption
<1>2. \A f, v, w : SameCall(f, v, w) \in BOOLEAN /\ ContainedCall(f, v, w) \in BOOLEAN
  <2> SUFFICES ASSUME NEW f, NEW v, NEW w
               PROVE  SameCall(f, v, w) \in BOOLEAN /\ ContainedCall(f, v, w) \in BOOLEAN
    BY Zenon
  <2>1. CASE IsArray(v) /\ IsArray(w)
    BY <2>1 DEF SameCall, ContainedCall
  <2>2. CASE IsObject(v) /\ IsObject(w) /\ ~IsArray(v) /\ ~IsArray(w)
    BY <2>2 DEF SameCall, ContainedCall
  <2>3. CASE /\ ~(IsArray(v) /\ IsArray(w))
             /\ ~(IsObject(v) /\ IsObject(w) /\ ~IsArray(v) /\ ~IsArray(w))
    BY <2>3 DEF SameCall, ContainedCall
  <2> QED BY <2>1, <2>2, <2>3
<1>3. F \in [[S -> BOOLEAN] -> [S -> BOOLEAN]] /\ G \in [[S -> BOOLEAN] -> [S -> BOOLEAN]]
  BY <1>2
<1>4. ASSUME NEW f \in [S -> BOOLEAN], NEW g \in [S -> BOOLEAN], NEW a \in S,
             \A y \in S : rank[y] < rank[a] => f[y] = g[y]
      PROVE  F[f][a] = F[g][a] /\ G[f][a] = G[g][a]
  <2>1. a[1] \in JsonValue /\ a[2] \in JsonValue
    OBVIOUS
  <2>2. \A x, y \in JsonValue : Depth[x] < Depth[a[1]] => f[<<x, y>>] = g[<<x, y>>]
    BY <1>4, <2>1
  <2>3. /\ SameCall(f, a[1], a[2]) = SameCall(g, a[1], a[2])
        /\ ContainedCall(f, a[1], a[2]) = ContainedCall(g, a[1], a[2])
    BY <2>1, <2>2, ReferencesAreLocal
  <2> QED BY <2>3, Zenon
<1>5. (\E f \in [S -> BOOLEAN] : f = F[f]) /\ (\E f \in [S -> BOOLEAN] : f = G[f])
  <2> HIDE DEF S, rank, F, G
  <2>1. \A f, g \in [S -> BOOLEAN] : \A a \in S :
          (\A y \in S : rank[y] < rank[a] => f[y] = g[y]) => F[f][a] = F[g][a]
    BY <1>4, Zenon
  <2>2. \A f, g \in [S -> BOOLEAN] : \A a \in S :
          (\A y \in S : rank[y] < rank[a] => f[y] = g[y]) => G[f][a] = G[g][a]
    BY <1>4, Zenon
  <2>3. BOOLEAN # {}
    OBVIOUS
  <2>4. Recurses(F, S, BOOLEAN, rank)
    BY <1>1, <1>3, <2>1, <2>3, Zenon DEF Recurses
  <2>5. Recurses(G, S, BOOLEAN, rank)
    BY <1>1, <1>3, <2>2, <2>3, Zenon DEF Recurses
  <2> QED BY <2>4, <2>5, RecursiveFunction
<1>6. /\ \E f : f = [a \in S |-> SameCall(f, a[1], a[2])]
      /\ \E f : f = [a \in S |-> ContainedCall(f, a[1], a[2])]
  BY <1>5, Zenon
<1>7. /\ Same = [a \in S |-> SameCall(Same, a[1], a[2])]
      /\ Contained = [a \in S |-> ContainedCall(Contained, a[1], a[2])]
  BY <1>6, Zenon DEF Same, Contained
<1>8. ASSUME NEW v \in JsonValue, NEW w \in JsonValue
      PROVE  /\ Same[<<v, w>>] = SameCall(Same, v, w)
             /\ Contained[<<v, w>>] = ContainedCall(Contained, v, w)
  <2>1. <<v, w>> \in S /\ <<v, w>>[1] = v /\ <<v, w>>[2] = w
    OBVIOUS
  <2> QED BY <1>7, <2>1, Zenon
<1> QED BY <1>8

\* There is one way to put the positions of an array in order.
LEMMA OneSorting ==
  ASSUME NEW s \in Seq(JsonValue),
         NEW p \in Bijection(DOMAIN s, DOMAIN s), NEW q \in Bijection(DOMAIN s, DOMAIN s),
         \A i, j \in DOMAIN s : i < j => ComesFirst(s, p[i], p[j]),
         \A i, j \in DOMAIN s : i < j => ComesFirst(s, q[i], q[j])
  PROVE  \A i \in DOMAIN s : p[i] = q[i]
<1> SUFFICES ASSUME NEW z \in DOMAIN s, p[z] # q[z] PROVE FALSE
  OBVIOUS
<1> DEFINE D == DOMAIN s
           differ == {i \in D : p[i] # q[i]}
           i == First(differ)
<1>1. \A j \in D : j \in Nat
  OBVIOUS
<1>2. i \in differ /\ \A j \in differ : i <= j
  <2>1. differ \in SUBSET Nat /\ differ # {}
    BY <1>1
  <2> HIDE DEF differ
  <2> QED BY <2>1, FirstIsLeast
<1> HIDE DEF i
<1>3. /\ \A j \in D : p[j] \in D /\ q[j] \in D
      /\ \A j \in D : (\E k \in D : p[k] = j) /\ (\E k \in D : q[k] = j)
      /\ \A j, k \in D : (p[j] = p[k] => j = k) /\ (q[j] = q[k] => j = k)
  <2> HIDE DEF D
  <2>1. p \in Bijection(D, D) /\ q \in Bijection(D, D)
    BY DEF D
  <2>2. ASSUME NEW r \in Bijection(D, D)
        PROVE  /\ \A j \in D : r[j] \in D
               /\ \A j \in D : \E k \in D : r[k] = j
               /\ \A j, k \in D : r[j] = r[k] => j = k
    <3>1. r \in [D -> D]
      BY Fun_BijectionProperties
    <3>2. \A j, k \in D : r[j] = r[k] => j = k
      BY <3>1 DEF Bijection, Injection, IsInjective
    <3>3. \A j \in D : \E k \in D : r[k] = j
      BY Fun_BijectionProperties
    <3> QED BY <3>1, <3>2, <3>3
  <2> QED BY <2>1, <2>2
<1> HIDE DEF D
<1>4. \A j \in D : j < i => p[j] = q[j]
  <2>1. ASSUME NEW j \in D, j < i PROVE j \notin differ
    BY <1>1, <1>2, <2>1
  <2> QED BY <2>1
<1>5. PICK k \in D : q[k] = p[i]
  BY <1>2, <1>3
<1>6. PICK l \in D : p[l] = q[i]
  BY <1>2, <1>3
<1>7. i \in D /\ i < k /\ i < l
  <2>1. i \in D /\ p[i] # q[i] /\ i \in Nat /\ k \in Nat /\ l \in Nat
    BY <1>1, <1>2
  <2>2. ~(k < i)
    BY <1>3, <1>4, <1>5, <2>1
  <2>3. ~(l < i)
    BY <1>3, <1>4, <1>6, <2>1
  <2>4. k # i /\ l # i
    BY <1>5, <1>6, <2>1
  <2> QED BY <2>1, <2>2, <2>3, <2>4
<1>8. ComesFirst(s, q[i], p[i]) /\ ComesFirst(s, p[i], q[i])
  BY <1>5, <1>6, <1>7 DEF D
<1>9. p[i] \in DOMAIN s /\ q[i] \in DOMAIN s
  BY <1>3, <1>7 DEF D
<1> QED BY <1>8, <1>9, ComesFirstIsAnOrder

-----------------------------------------------------------------------------
\* If nothing in an object is null or undefined, nothing in its parts is; and
\* what is no object is then a primitive.
LEMMA StatedParts ==
  ASSUME NEW v \in JsonValue, Stated(v)
  PROVE  /\ IsObject(v) => \A k \in Keys(v) : Stated(Property(v, k))
         /\ ~IsObject(v) => IsPrimitive(v)
<1>1. ASSUME IsObject(v), NEW k \in Keys(v), NEW r \in Leaves[Property(v, k)] PROVE IsPrimitive(r[2])
  <2> DEFINE l == << <<PathStep(k)>> \o r[1], r[2] >>
  <2>1. l \in Leaves[v]
    <3>1. LeafThrough(v, k, l)
      BY Zenon DEF LeafThrough
    <3> HIDE DEF l
    <3> QED BY <1>1, <3>1, LeavesOfObject
  <2>2. l[2] = r[2]
    OBVIOUS
  <2> HIDE DEF l
  <2> QED BY <2>1, <2>2, Zenon DEF Stated
<1>2. ASSUME ~IsObject(v) PROVE IsPrimitive(v)
  <2>1. << <<>>, v >> \in Leaves[v] /\ << <<>>, v >>[2] = v
    BY <1>2, LeavesOfOther
  <2> QED BY <2>1, Zenon DEF Stated
<1> QED BY <1>1, <1>2, Zenon DEF Stated

\* Such a value is a partial match of itself.
LEMMA MatchesItself ==
  ASSUME NEW h \in JsonValue, Stated(h)
  PROVE  PatternMatch[<<h, h, TRUE>>]
<1> DEFINE P == {v \in JsonValue : Stated(v) => PatternMatch[<<v, v, TRUE>>]}
<1>1. ASSUME NEW v \in JsonValue, \A u \in JsonValue : Depth[u] < Depth[v] => u \in P
      PROVE  v \in P
  <2> SUFFICES ASSUME Stated(v) PROVE MatchCall(PatternMatch, v, v, TRUE)
    BY PatternMatchAnswers
  <2>1. \A u \in JsonValue : Depth[u] < Depth[v] /\ Stated(u) => PatternMatch[<<u, u, TRUE>>]
    BY <1>1
  <2>2. CASE ~IsObject(v)
    BY <2>2, StatedParts, Zenon DEF MatchCall
  <2>3. CASE IsArray(v)
    <3>1. PICK hs : hs = Sorted(v.elements)
      OBVIOUS
    <3>2. /\ \A i \in DOMAIN hs : \E k \in Keys(v) : hs[i] = Property(v, k)
          /\ \A i \in DOMAIN hs : hs[i] \in JsonValue /\ Depth[hs[i]] < Depth[v]
      BY <2>3, <3>1, SortedElements
    <3>3. \A i \in DOMAIN hs : Stated(hs[i])
      BY <2>3, <3>2, StatedParts DEF IsObject
    <3>4. \A i \in DOMAIN hs : PatternMatch[<<hs[i], hs[i], TRUE>>]
      BY <2>1, <3>2, <3>3
    <3>5. ArraysMatch(PatternMatch, v, v, TRUE)
      BY <3>1, <3>4, Zenon DEF ArraysMatch
    <3> QED BY <2>3, <3>5 DEF MatchCall
  <2>4. CASE IsObject(v) /\ ~IsArray(v)
    <3>1. \A k \in Keys(v) : PatternMatch[<<Property(v, k), Property(v, k), TRUE>>]
      BY <2>1, <2>4, ObjectParts, StatedParts
    <3>2. ObjectsMatch(PatternMatch, v, v, TRUE)
      BY <3>1, Zenon DEF ObjectsMatch, SameShape, ComparedKeys
    <3> QED BY <2>4, <3>2 DEF MatchCall
  <2> QED BY <2>2, <2>3, <2>4
<1>2. P = JsonValue
  <2>1. P \in SUBSET JsonValue
    OBVIOUS
  <2> HIDE DEF P
  <2> QED BY <1>1, <2>1, DepthAssumption, RankInduction
<1> QED BY <1>2

\* A message that contains a pattern is a partial match for it.
LEMMA ContainedMatches ==
  ASSUME NEW h \in JsonValue, NEW m \in JsonValue, Stated(h), Contained[<<h, m>>]
  PROVE  PatternMatch[<<h, m, TRUE>>]
<1> DEFINE P == {v \in JsonValue : \A w \in JsonValue :
                   Stated(v) /\ Contained[<<v, w>>] => PatternMatch[<<v, w, TRUE>>]}
<1>1. ASSUME NEW v \in JsonValue, \A u \in JsonValue : Depth[u] < Depth[v] => u \in P
      PROVE  v \in P
  <2> SUFFICES ASSUME NEW w \in JsonValue, Stated(v), Contained[<<v, w>>]
               PROVE  MatchCall(PatternMatch, v, w, TRUE)
    BY PatternMatchAnswers
  <2>1. \A u, x \in JsonValue :
          Depth[u] < Depth[v] /\ Stated(u) /\ Contained[<<u, x>>] => PatternMatch[<<u, x, TRUE>>]
    BY <1>1
  <2>2. ContainedCall(Contained, v, w)
    BY ReferencesAnswer
  <2>3. CASE IsArray(v) /\ IsArray(w)
    <3> DEFINE s == v.elements
               t == w.elements
    <3>1. PICK hs, ms : hs = Sorted(v.elements) /\ ms = Sorted(w.elements)
      OBVIOUS
    <3>2. \A i \in DOMAIN s : \E j \in DOMAIN t : Contained[<<s[i], t[j]>>]
      BY <2>2, <2>3 DEF ContainedCall
    <3>3. /\ \A i \in DOMAIN hs : \E k \in Keys(v) : hs[i] = Property(v, k)
          /\ \A i \in DOMAIN hs : hs[i] \in JsonValue
      BY <2>3, <3>1, SortedElements
    <3>4. \A k \in Keys(w) : \E i \in DOMAIN ms : ms[i] = Property(w, k)
      BY <2>3, <3>1, SortedElements
    <3>5. \A k \in Keys(v) : \E i \in DOMAIN s : Property(v, k) = s[i]
      BY <2>3, ArrayParts, Zenon
    <3>6. \A j \in DOMAIN t : t[j] \in JsonValue /\ \E k \in Keys(w) : Property(w, k) = t[j]
      BY <2>3, ArrayParts, Zenon
    <3> HIDE DEF s, t
    <3>7. ASSUME NEW i \in DOMAIN hs, IsPrimitive(hs[i]) PROVE \E j \in DOMAIN ms : ms[j] = hs[i]
      <4>1. PICK k \in Keys(v) : hs[i] = Property(v, k)
        BY <3>3
      <4>2. PICK a \in DOMAIN s : hs[i] = s[a]
        BY <3>5, <4>1
      <4>3. PICK b \in DOMAIN t : Contained[<<s[a], t[b]>>]
        BY <3>2
      <4>4. ~IsObject(hs[i]) /\ hs[i] \in JsonValue
        BY <3>3, <3>7, ValueAssumption
      <4>5. ~IsArray(hs[i])
        BY <4>4 DEF IsObject
      <4>6. ContainedCall(Contained, hs[i], t[b])
        BY <3>6, <4>2, <4>3, <4>4, ReferencesAnswer
      <4>7. hs[i] = t[b]
        BY <4>4, <4>5, <4>6 DEF ContainedCall
      <4> QED BY <3>4, <3>6, <4>7
    <3>8. ASSUME NEW i \in DOMAIN hs PROVE PatternMatch[<<hs[i], hs[i], TRUE>>]
      <4>1. Stated(hs[i])
        BY <2>3, <3>3, StatedParts DEF IsObject
      <4> QED BY <3>3, <4>1, MatchesItself
    <3>9. ArraysMatch(PatternMatch, v, w, TRUE)
      BY <3>1, <3>7, <3>8, Zenon DEF ArraysMatch
    <3> QED BY <2>3, <3>9 DEF MatchCall
  <2>4. CASE IsObject(v) /\ IsObject(w) /\ ~IsArray(v) /\ ~IsArray(w)
    <3>1. \A k \in Keys(v) : Contained[<<Property(v, k), Property(w, k)>>]
      BY <2>2, <2>4 DEF ContainedCall
    <3>2. \A k \in Keys(v) : Stated(Property(v, k))
      BY <2>4, StatedParts
    <3>3. /\ \A k : Property(v, k) \in JsonValue /\ Depth[Property(v, k)] < Depth[v]
          /\ \A k : Property(w, k) \in JsonValue
      BY <2>4, ObjectParts
    <3>4. \A k \in Keys(v) : PatternMatch[<<Property(v, k), Property(w, k), TRUE>>]
      BY <2>1, <3>1, <3>2, <3>3
    <3>5. ObjectsMatch(PatternMatch, v, w, TRUE)
      BY <3>4, Zenon DEF ObjectsMatch, SameShape, ComparedKeys
    <3> QED BY <2>4, <3>5 DEF MatchCall
  <2>5. CASE v = w
    BY <2>5, MatchesItself, PatternMatchAnswers
  <2> QED BY <2>2, <2>3, <2>4, <2>5 DEF ContainedCall
<1>2. P = JsonValue
  <2>1. P \in SUBSET JsonValue
    OBVIOUS
  <2> HIDE DEF P
  <2> QED BY <1>1, <2>1, DepthAssumption, RankInduction
<1> QED BY <1>2

\* Elements that say the same are sorted the same.
LEMMA SameTexts ==
  ASSUME SortedByMeaning, NEW a \in JsonValue, NEW b \in JsonValue,
         a \in ArrayElements, b \in ArrayElements, Same[<<a, b>>]
  PROVE  \A c \in ArrayElements :
           /\ <<a, c>> \in SortedBefore <=> <<b, c>> \in SortedBefore
           /\ <<c, a>> \in SortedBefore <=> <<c, b>> \in SortedBefore
<1>1. ~IsArray(a) /\ ~IsArray(b)
  BY Zenon DEF SortedByMeaning
<1>2. a = b \/ (IsObject(a) /\ IsObject(b))
  BY <1>1, ReferencesAnswer DEF SameCall
<1> QED BY <1>2, Zenon DEF SortedByMeaning

\* Elements that sort() leaves in their order are alike.
LEMMA TiesAreAlike ==
  ASSUME SortedByMeaning, NEW a \in JsonValue, NEW b \in JsonValue,
         a \in ArrayElements, b \in ArrayElements,
         <<a, b>> \notin SortedBefore, <<b, a>> \notin SortedBefore
  PROVE  Alike(a, b)
<1>1. a = b \/ (IsObject(a) /\ IsObject(b))
  BY Zenon DEF SortedByMeaning
<1> QED BY <1>1, ValueAssumption DEF Alike

\* The elements of an array are elements of arrays, and values.
LEMMA ElementsOfArrays ==
  ASSUME NEW v \in JsonValue, IsArray(v)
  PROVE  /\ v.elements \in Seq(JsonValue)
         /\ \A i \in DOMAIN v.elements : v.elements[i] \in ArrayElements
<1>1. v.elements \in Seq(JsonValue)
  BY ValueAssumption
<1>2. ASSUME NEW i \in DOMAIN v.elements PROVE v.elements[i] \in ArrayElements
  <2>1. v.elements[i] \in Range(v.elements)
    BY Zenon DEF Range
  <2>2. Range(v.elements) \in {Range(u.elements) : u \in {w \in JsonValue : IsArray(w)}}
    OBVIOUS
  <2> QED BY <2>1, <2>2, Zenon DEF ArrayElements
<1> QED BY <1>1, <1>2

\* The elements of two arrays that say the same say so pairwise when sorted.
LEMMA SameSorted ==
  ASSUME SortedByMeaning, NEW s \in Seq(JsonValue), NEW t \in Seq(JsonValue),
         \A i \in DOMAIN s : s[i] \in ArrayElements,
         \A i \in DOMAIN t : t[i] \in ArrayElements,
         NEW q \in Bijection(DOMAIN s, DOMAIN t),
         \A i \in DOMAIN s : Same[<<s[i], t[q[i]]>>],
         \A i, j \in DOMAIN s : i < j /\ Alike(s[i], s[j]) => q[i] < q[j]
  PROVE  /\ DOMAIN t = DOMAIN s
         /\ \A i \in DOMAIN s : Same[<<Sorted(s)[i], Sorted(t)[i]>>]
<1> DEFINE D == DOMAIN s
           p == Sorting(s)
           r == [i \in D |-> q[p[i]]]
<1>1. DOMAIN t = D
  <2>1. /\ Len(s) \in Nat /\ DOMAIN s = 1..Len(s)
        /\ Len(t) \in Nat /\ DOMAIN t = 1..Len(t)
    OBVIOUS
  <2>2. ASSUME NEW n \in Nat PROVE IsFiniteSet(1..n) /\ Cardinality(1..n) = n
    BY FS_Interval
  <2>3. /\ IsFiniteSet(DOMAIN s) /\ Cardinality(DOMAIN s) = Len(s)
        /\ Cardinality(DOMAIN t) = Len(t)
    BY <2>1, <2>2, Zenon
  <2>4. ExistsBijection(DOMAIN s, DOMAIN t)
    BY Zenon DEF ExistsBijection
  <2>5. Cardinality(DOMAIN t) = Cardinality(DOMAIN s)
    BY <2>3, <2>4, FS_Bijection
  <2> QED BY <2>1, <2>3, <2>5
<1>2. \A i \in D : i \in Nat /\ s[i] \in JsonValue /\ t[i] \in JsonValue
  BY <1>1
<1>3. p \in Bijection(D, D) /\ \A i, j \in D : i < j => ComesFirst(s, p[i], p[j])
  BY SortingIsAnOrder
<1>4. q \in Bijection(D, D)
  BY <1>1
<1>5. r \in Bijection(D, D)
  <2> HIDE DEF p, D
  <2> QED BY <1>3, <1>4, Fun_BijTransitive
<1>6. \A i \in D : p[i] \in D /\ q[i] \in D
  <2> HIDE DEF p, D
  <2>1. p \in [D -> D] /\ q \in [D -> D]
    BY <1>3, <1>4, Fun_BijectionProperties
  <2> QED BY <2>1
<1>7. ASSUME NEW i \in D, NEW j \in D, ComesFirst(s, i, j) PROVE ComesFirst(t, q[i], q[j])
  <2> DEFINE a == s[i]
             b == s[j]
             c == t[q[i]]
             d == t[q[j]]
  <2>1. /\ a \in JsonValue /\ b \in JsonValue /\ c \in JsonValue /\ d \in JsonValue
        /\ a \in ArrayElements /\ b \in ArrayElements /\ c \in ArrayElements /\ d \in ArrayElements
        /\ Same[<<a, c>>] /\ Same[<<b, d>>]
    BY <1>1, <1>2, <1>6
  <2>2. /\ <<a, b>> \in SortedBefore \/ (<<b, a>> \notin SortedBefore /\ i < j)
        /\ Alike(a, b) /\ i < j => q[i] < q[j]
    BY <1>7 DEF ComesFirst
  <2> HIDE DEF a, b, c, d
  <2>3. <<a, b>> \in SortedBefore <=> <<c, d>> \in SortedBefore
    BY <2>1, SameTexts
  <2>4. <<b, a>> \in SortedBefore <=> <<d, c>> \in SortedBefore
    BY <2>1, SameTexts
  <2>5. <<c, d>> \in SortedBefore \/ (<<d, c>> \notin SortedBefore /\ q[i] < q[j])
    BY <2>1, <2>2, <2>3, <2>4, TiesAreAlike
  <2> USE DEF c, d
  <2> QED BY <2>5 DEF ComesFirst
<1>8. \A i, j \in D : i < j => ComesFirst(t, r[i], r[j])
  <2> HIDE DEF p
  <2> QED BY <1>3, <1>6, <1>7
<1>9. /\ Sorting(t) \in Bijection(D, D)
      /\ \A i, j \in D : i < j => ComesFirst(t, Sorting(t)[i], Sorting(t)[j])
  BY <1>1, SortingIsAnOrder
<1>10. \A i \in D : r[i] = Sorting(t)[i]
  <2>1. D = DOMAIN t
    BY <1>1
  <2> HIDE DEF r, D
  <2> QED BY <1>5, <1>8, <1>9, <2>1, OneSorting
<1>11. ASSUME NEW i \in D PROVE Same[<<Sorted(s)[i], Sorted(t)[i]>>]
  <2>1. Sorted(s)[i] = s[p[i]]
    BY SortedIsAPermutation
  <2>2. Sorted(t)[i] = t[Sorting(t)[i]]
    BY <1>1, SortedIsAPermutation
  <2>3. Sorting(t)[i] = q[p[i]]
    BY <1>10, Zenon
  <2> HIDE DEF p
  <2> QED BY <1>6, <2>1, <2>2, <2>3
<1> QED BY <1>1, <1>11

\* A message that says the same as a pattern is a full match for it.
LEMMA SameMatches ==
  ASSUME SortedByMeaning, NEW h \in JsonValue, NEW m \in JsonValue, Stated(h), Same[<<h, m>>]
  PROVE  PatternMatch[<<h, m, FALSE>>]
<1> DEFINE P == {v \in JsonValue : \A w \in JsonValue :
                   Stated(v) /\ Same[<<v, w>>] => PatternMatch[<<v, w, FALSE>>]}
<1>1. ASSUME NEW v \in JsonValue, \A u \in JsonValue : Depth[u] < Depth[v] => u \in P
      PROVE  v \in P
  <2> SUFFICES ASSUME NEW w \in JsonValue, Stated(v), Same[<<v, w>>]
               PROVE  MatchCall(PatternMatch, v, w, FALSE)
    BY PatternMatchAnswers
  <2>1. \A u, x \in JsonValue :
          Depth[u] < Depth[v] /\ Stated(u) /\ Same[<<u, x>>] => PatternMatch[<<u, x, FALSE>>]
    BY <1>1
  <2>2. SameCall(Same, v, w)
    BY ReferencesAnswer
  <2>3. CASE IsArray(v) /\ IsArray(w)
    <3>1. PICK s, t : s = v.elements /\ t = w.elements
      OBVIOUS
    <3>2. PICK hs, ms : hs = Sorted(v.elements) /\ ms = Sorted(w.elements)
      OBVIOUS
    <3>3. PICK q \in Bijection(DOMAIN s, DOMAIN t) :
            /\ \A i \in DOMAIN s : Same[<<s[i], t[q[i]]>>]
            /\ \A i, j \in DOMAIN s : i < j /\ Alike(s[i], s[j]) => q[i] < q[j]
      BY <2>2, <2>3, <3>1 DEF SameCall
    <3>4. /\ s \in Seq(JsonValue) /\ t \in Seq(JsonValue)
          /\ \A i \in DOMAIN s : s[i] \in ArrayElements
          /\ \A i \in DOMAIN t : t[i] \in ArrayElements
      BY <2>3, <3>1, ElementsOfArrays
    <3>5. /\ DOMAIN t = DOMAIN s
          /\ \A i \in DOMAIN s : Same[<<Sorted(s)[i], Sorted(t)[i]>>]
      BY <3>3, <3>4, SameSorted
    <3>6. DOMAIN hs = DOMAIN s /\ DOMAIN ms = DOMAIN t
      BY <3>1, <3>2, Zenon DEF Sorted
    <3>7. /\ \A i \in DOMAIN hs : \E k \in Keys(v) : hs[i] = Property(v, k)
          /\ \A i \in DOMAIN hs : hs[i] \in JsonValue /\ Depth[hs[i]] < Depth[v]
      <4>1. hs = Sorted(v.elements)
        BY <3>2
      <4> QED BY <2>3, <4>1, SortedElements
    <3>8. \A i \in DOMAIN ms : ms[i] \in JsonValue
      BY <2>3, <3>2, SortedElements
    <3>9. \A i \in DOMAIN hs : Stated(hs[i])
      BY <2>3, <3>7, StatedParts DEF IsObject
    <3>10. \A i \in DOMAIN ms : PatternMatch[<<hs[i], ms[i], FALSE>>]
      BY <2>1, <3>1, <3>2, <3>5, <3>6, <3>7, <3>8, <3>9
    <3>11. \A i \in DOMAIN ms : Element(hs, i) = hs[i]
      BY <3>5, <3>6 DEF Element
    <3>12. ArraysMatch(PatternMatch, v, w, FALSE)
      BY <3>2, <3>10, <3>11, Zenon DEF ArraysMatch
    <3> QED BY <2>3, <3>12 DEF MatchCall
  <2>4. CASE IsObject(v) /\ IsObject(w) /\ ~IsArray(v) /\ ~IsArray(w)
    <3>1. Keys(v) = Keys(w) /\ \A k \in Keys(v) : Same[<<Property(v, k), Property(w, k)>>]
      BY <2>2, <2>4 DEF SameCall
    <3>2. \A k \in Keys(v) : Stated(Property(v, k))
      BY <2>4, StatedParts
    <3>3. /\ \A k : Property(v, k) \in JsonValue /\ Depth[Property(v, k)] < Depth[v]
          /\ \A k : Property(w, k) \in JsonValue
      BY <2>4, ObjectParts
    <3>4. \A k \in Keys(v) : PatternMatch[<<Property(v, k), Property(w, k), FALSE>>]
      BY <2>1, <3>1, <3>2, <3>3
    <3>5. ObjectsMatch(PatternMatch, v, w, FALSE)
      BY <3>1, <3>4, Zenon DEF ObjectsMatch, SameShape, ComparedKeys
    <3> QED BY <2>4, <3>5 DEF MatchCall
  <2>5. CASE /\ ~(IsArray(v) /\ IsArray(w))
             /\ ~(IsObject(v) /\ IsObject(w) /\ ~IsArray(v) /\ ~IsArray(w))
    <3>1. v = w
      BY <2>2, <2>5 DEF SameCall
    <3>2. ~IsObject(v)
      BY <2>5, <3>1
    <3> QED BY <3>1, <3>2, StatedParts DEF MatchCall
  <2> QED BY <2>3, <2>4, <2>5
<1>2. P = JsonValue
  <2>1. P \in SUBSET JsonValue
    OBVIOUS
  <2> HIDE DEF P
  <2> QED BY <1>1, <2>1, DepthAssumption, RankInduction
<1> QED BY <1>2

\* A handler whose pattern means a message qualifies for it.
LEMMA MeantQualify ==
  ASSUME PlainlyMeant, NEW h \in Handler, NEW m \in Message, Meaning[<<h.pattern, m, h.partial>>]
  PROVE  Qualifies(h, m)
<1> DEFINE p == h.pattern
           b == h.partial
<1>1. p \in Pattern /\ b \in BOOLEAN /\ p \in JsonValue /\ m \in JsonValue /\ Stated(p)
  BY ServerAssumption DEF Handler, PlainlyMeant
<1>2. IF b THEN Contained[<<p, m>>] ELSE Same[<<p, m>>]
  BY <1>1 DEF Meaning
<1> HIDE DEF p, b
<1>3. PatternMatch[<<p, m, b>>]
  <2>1. CASE b = TRUE
    BY <1>1, <1>2, <2>1, ContainedMatches
  <2>2. CASE b = FALSE
    BY <1>1, <1>2, <2>2, SameMatches DEF PlainlyMeant
  <2> QED BY <1>1, <2>1, <2>2
<1>4. Match[<<p, m, b>>]
  BY <1>1, <1>3, ServerAssumption DEF ServerMatch
<1> QED BY <1>4, Zenon DEF Qualifies, Matches, p, b

\* No message but '*' and its JSON qualifies the catch-all handler.
LEMMA CatchAllQualifiesForNone ==
  ASSUME NEW h \in Handler, NEW m \in Message, h.pattern = CatchAll,
         m # CatchAll, Route[m] # Normalized[CatchAll]
  PROVE  ~Qualifies(h, m)
<1>1. CatchAll \in JsonValue /\ m \in JsonValue /\ ~IsObject(CatchAll) /\ h.partial \in BOOLEAN
  <2>1. CatchAll \in JsonValue /\ m \in JsonValue /\ h.partial \in BOOLEAN
    BY CatchAllAssumption, ServerAssumption DEF Handler
  <2>2. IsText(CatchAll)
    BY CatchAllIsAlone DEF Str, IsText, IsPrimitive
  <2> QED BY <2>1, <2>2, RoutesOfTexts
<1>2. Normalized[CatchAll] # Route[m]
  OBVIOUS
<1>3. ~PatternMatch[<<CatchAll, m, h.partial>>]
  <2>1. ~MatchCall(PatternMatch, CatchAll, m, h.partial)
    BY <1>1 DEF MatchCall, IsObject
  <2> QED BY <1>1, <2>1, PatternMatchAnswers
<1>4. ~Match[<<CatchAll, m, h.partial>>]
  BY <1>1, <1>3, CatchAllAssumption, ServerAssumption DEF ServerMatch
<1> QED BY <1>2, <1>4, Zenon DEF Qualifies, Matches

\* In any list of handlers, whoever is meant by a message comes before the
\* catch-all handler.
LEMMA LookupMissesNone ==
  ASSUME PlainlyMeant, LookupTypeOK
  PROVE  CatchAllIsLast
<1> SUFFICES ASSUME NEW m \in Message, NEW i \in 1..Len(messageHandlers),
                    Meaning[<<messageHandlers[i].pattern, m, messageHandlers[i].partial>>]
             PROVE  /\ GetHandlerByPattern(m) # NoHandler
                    /\ GetHandlerByPattern(m).pattern # CatchAll
  BY DEF CatchAllIsLast
<1>1. \A k \in 1..Len(messageHandlers) : messageHandlers[k] \in Handler
  BY DEF LookupTypeOK
<1>2. Qualifies(messageHandlers[i], m)
  BY <1>1, MeantQualify
<1>3. PICK k \in 1..Len(messageHandlers) :
        IsChosen(k, m) /\ GetHandlerByPattern(m) = messageHandlers[k]
  BY <1>2, LookupAnswers DEF WellAnswered
<1>4. messageHandlers[k] \in Handler /\ Qualifies(messageHandlers[k], m)
  BY <1>1, <1>3 DEF IsChosen
<1>5. messageHandlers[k].pattern # CatchAll
  BY <1>4, CatchAllQualifiesForNone DEF PlainlyMeant
<1> QED BY <1>3, <1>4, <1>5, NoHandlerAssumption

\* A message that some registered pattern means never goes to the catch-all
\* handler or to nobody: for patterns without null and undefined, messages
\* other than '*' and its JSON, and arrays that sort() orders by what is meant.
THEOREM NoneMeantIsMissed ==
  ASSUME PlainlyMeant
  PROVE  Spec => []CatchAllIsLast
<1>1. LookupTypeOK => CatchAllIsLast
  BY LookupMissesNone
<1> QED BY <1>1, LookupTypes, PTL

-----------------------------------------------------------------------------
\* Objects and primitives only.
WithoutArrays == \A v \in JsonValue : ~IsArray(v)

\* Without arrays objects of one route say the same, and contain each other.
LEMMA RoutesAreExact ==
  ASSUME WithoutArrays, PlainTexts, NEW v \in JsonValue, NEW w \in JsonValue, SameRoute(v, w)
  PROVE  Same[<<v, w>>] /\ Contained[<<v, w>>]
<1> DEFINE Agree(x, y) == Same[<<x, y>>] /\ Contained[<<x, y>>]
           P == {x \in JsonValue : \A y \in JsonValue : SameRoute(x, y) => Agree(x, y)}
<1>1. ASSUME NEW x \in JsonValue, \A u \in JsonValue : Depth[u] < Depth[x] => u \in P
      PROVE  x \in P
  <2> SUFFICES ASSUME NEW y \in JsonValue, SameRoute(x, y) PROVE Agree(x, y)
    OBVIOUS
  <2>1. \A u, z \in JsonValue : Depth[u] < Depth[x] /\ SameRoute(u, z) => Agree(u, z)
    BY <1>1
  <2> SUFFICES SameCall(Same, x, y) /\ ContainedCall(Contained, x, y)
    BY ReferencesAnswer
  <2>2. ~IsArray(x) /\ ~IsArray(y)
    BY Zenon DEF WithoutArrays
  <2>3. CASE x = y /\ ~IsObject(x)
    BY <2>2, <2>3 DEF SameCall, ContainedCall
  <2>4. CASE IsObject(x) \/ x # y
    <3>1. IsObject(x) /\ IsObject(y) /\ RouteOfPattern[x] = RouteOfPattern[y]
      BY <2>4, Zenon DEF SameRoute
    <3>2. Keys(x) = Keys(y) /\ \A k \in Keys(x) : SameRoute(Property(x, k), Property(y, k))
      BY <3>1, RoutesOfObjects
    <3>3. \A k \in Keys(x) : Agree(Property(x, k), Property(y, k))
      BY <2>1, <3>1, <3>2, ObjectParts, Zenon
    <3> QED BY <2>2, <3>1, <3>2, <3>3 DEF SameCall, ContainedCall
  <2> QED BY <2>3, <2>4
<1>2. P = JsonValue
  <2>1. P \in SUBSET JsonValue
    OBVIOUS
  <2> HIDE DEF P
  <2> QED BY <1>1, <2>1, DepthAssumption, RankInduction
<1> QED BY <1>2

\* Without arrays a match is what it is meant to be.
LEMMA MatchesAreExact ==
  ASSUME WithoutArrays, NEW h \in JsonValue, NEW m \in JsonValue
  PROVE  /\ PatternMatch[<<h, m, FALSE>>] => Same[<<h, m>>]
         /\ PatternMatch[<<h, m, TRUE>>] => Contained[<<h, m>>]
<1> DEFINE Agree(v, w) == /\ PatternMatch[<<v, w, FALSE>>] => Same[<<v, w>>]
                          /\ PatternMatch[<<v, w, TRUE>>] => Contained[<<v, w>>]
           P == {v \in JsonValue : \A w \in JsonValue : Agree(v, w)}
<1>1. ASSUME NEW v \in JsonValue, \A u \in JsonValue : Depth[u] < Depth[v] => u \in P
      PROVE  v \in P
  <2> SUFFICES ASSUME NEW w \in JsonValue PROVE Agree(v, w)
    OBVIOUS
  <2>1. \A u, x \in JsonValue : Depth[u] < Depth[v] => Agree(u, x)
    BY <1>1
  <2>2. ~IsArray(v) /\ ~IsArray(w)
    BY Zenon DEF WithoutArrays
  <2>3. CASE IsObject(v) /\ IsObject(w)
    <3>1. ~IsPrimitive(w)
      BY <2>3, ValueAssumption
    <3>2. /\ \A k : Property(v, k) \in JsonValue /\ Depth[Property(v, k)] < Depth[v]
          /\ \A k : k \notin Keys(v) => Property(v, k) = Undefined
          /\ \A k : Property(w, k) \in JsonValue
          /\ \A k : k \notin Keys(w) => Property(w, k) = Undefined
          /\ IsFiniteSet(Keys(v))
      BY <2>3, ObjectParts, Zenon
    <3>3. ASSUME PatternMatch[<<v, w, FALSE>>] PROVE Same[<<v, w>>]
      <4>1. ObjectsMatch(PatternMatch, v, w, FALSE)
        BY <2>2, <3>1, <3>3, PatternMatchAnswers DEF MatchCall
      <4>2. /\ Cardinality(Keys(v)) = Cardinality(Keys(w))
            /\ \A k \in Keys(w) : PatternMatch[<<Property(v, k), Property(w, k), FALSE>>]
        BY <4>1, Zenon DEF ObjectsMatch, SameShape, ComparedKeys
      <4>3. \A k \in Keys(w) : Property(v, k) # Undefined
        BY <3>2, <4>2, NothingMatchesNothing, UndefinedIsNothing
      <4>4. Keys(w) \in SUBSET Keys(v)
        BY <3>2, <4>3, Zenon
      <4>5. Keys(w) = Keys(v)
        BY <3>2, <4>2, <4>4, FS_Subset
      <4>6. \A k \in Keys(v) : Same[<<Property(v, k), Property(w, k)>>]
        BY <2>1, <3>2, <4>2, <4>5
      <4>7. SameCall(Same, v, w)
        BY <2>2, <2>3, <4>5, <4>6 DEF SameCall
      <4> QED BY <4>7, ReferencesAnswer
    <3>4. ASSUME PatternMatch[<<v, w, TRUE>>] PROVE Contained[<<v, w>>]
      <4>1. ObjectsMatch(PatternMatch, v, w, TRUE)
        BY <2>2, <3>1, <3>4, PatternMatchAnswers DEF MatchCall
      <4>2. \A k \in Keys(v) : PatternMatch[<<Property(v, k), Property(w, k), TRUE>>]
        BY <4>1, Zenon DEF ObjectsMatch, ComparedKeys
      <4>3. \A k \in Keys(v) : Property(w, k) # Undefined
        BY <3>2, <4>2, NothingMatchesNothing, UndefinedIsNothing
      <4>4. \A k \in Keys(v) : k \in Keys(w) /\ Contained[<<Property(v, k), Property(w, k)>>]
        BY <2>1, <3>2, <4>2, <4>3
      <4>5. ContainedCall(Contained, v, w)
        BY <2>2, <2>3, <4>4 DEF ContainedCall
      <4> QED BY <4>5, ReferencesAnswer
    <3> QED BY <3>3, <3>4
  <2>4. CASE ~(IsObject(v) /\ IsObject(w))
    <3>1. ASSUME NEW b \in BOOLEAN, PatternMatch[<<v, w, b>>] PROVE v = w
      BY <2>2, <2>4, <3>1, PatternMatchAnswers DEF MatchCall
    <3>2. v = w => SameCall(Same, v, w) /\ ContainedCall(Contained, v, w)
      BY <2>2, <2>4 DEF SameCall, ContainedCall
    <3> QED BY <3>1, <3>2, ReferencesAnswer
  <2> QED BY <2>3, <2>4
<1>2. P = JsonValue
  <2>1. P \in SUBSET JsonValue
    OBVIOUS
  <2> HIDE DEF P
  <2> QED BY <1>1, <2>1, DepthAssumption, RankInduction
<1> QED BY <1>2

\* Without arrays whoever is called by its pattern is meant.
LEMMA LookupIsExact ==
  ASSUME WithoutArrays, PlainTexts, LookupTypeOK
  PROVE  FullMatchIsExact /\ PartialMatchIsContained
<1> SUFFICES ASSUME NEW m \in Message, NEW h, h = GetHandlerByPattern(m), ByPattern(h, m)
             PROVE  h.partial \in BOOLEAN /\ Means(Meaning, h, m)
  BY DEF FullMatchIsExact, PartialMatchIsContained
<1>1. \A k \in 1..Len(messageHandlers) : messageHandlers[k] \in Handler
  BY DEF LookupTypeOK
<1>2. WellAnswered(m) /\ h # NoHandler /\ h.pattern # CatchAll
  BY LookupAnswers DEF ByPattern
<1>3. ASSUME NEW k \in Under(Normalized[CatchAll]), h = messageHandlers[k] PROVE FALSE
  <2>1. h \in Handler /\ Normalized[h.pattern] = Normalized[CatchAll]
    BY <1>1, <1>3 DEF Under
  <2> QED BY <1>2, <2>1, CatchAllRoute DEF Handler
<1>4. h \in Handler /\ Qualifies(h, m)
  BY <1>1, <1>2, <1>3 DEF WellAnswered, IsChosen
<1> DEFINE p == h.pattern
           b == h.partial
<1>5. /\ p \in Pattern /\ b \in BOOLEAN /\ p \in JsonValue /\ m \in JsonValue
      /\ FromJson[p] \in JsonValue /\ FromJson[m] \in JsonValue
  BY <1>4, ServerAssumption, JsonAssumption DEF Handler
<1>6. p \in Readings(p) /\ m \in Readings(m) /\ Readings(p) \cup Readings(m) \subseteq JsonValue
  BY <1>5 DEF Readings
<1>7. \A q, r \in JsonValue :
        Meaning[<<q, r, b>>] = (IF b THEN Contained[<<q, r>>] ELSE Same[<<q, r>>])
  BY <1>5 DEF Meaning
<1> HIDE DEF p, b
<1>8. CASE Normalized[p] = Route[m]
  <2>1. PICK q \in Readings(p), r \in Readings(m) : SameRoute(q, r)
    BY <1>5, <1>8, RoutesRead, Zenon
  <2>2. Same[<<q, r>>] /\ Contained[<<q, r>>]
    BY <1>6, <2>1, RoutesAreExact
  <2>3. Meaning[<<q, r, b>>]
    BY <1>6, <1>7, <2>1, <2>2
  <2> QED BY <1>5, <2>1, <2>3, Zenon DEF Means, p, b
<1>9. CASE Match[<<p, m, b>>]
  <2>1. PatternMatch[<<p, m, b>>]
    BY <1>5, <1>9, ServerAssumption DEF ServerMatch
  <2>2. Meaning[<<p, m, b>>]
    BY <1>5, <1>7, <2>1, MatchesAreExact
  <2> QED BY <1>5, <1>6, <2>2, Zenon DEF Means, p, b
<1> QED BY <1>4, <1>8, <1>9, Zenon DEF Qualifies, Matches, p, b

\* What the documents say of full and of partial matches, which arrays can
\* break, holds of all patterns and messages without arrays, as long as their
\* texts do not hold what routes are written with.
THEOREM ExactWithoutArrays ==
  ASSUME WithoutArrays, PlainTexts
  PROVE  Spec => [](FullMatchIsExact /\ PartialMatchIsContained)
<1>1. LookupTypeOK => FullMatchIsExact /\ PartialMatchIsContained
  BY LookupIsExact
<1> QED BY <1>1, LookupTypes, PTL
=============================================================================
