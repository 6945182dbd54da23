---------------------------- MODULE BooksProofs -----------------------------
(***************************************************************************)
(* Theorems about the example applications, for any events of their        *)
(* services and any notion of route and of match: nothing here depends on  *)
(* which handler a message finds.                                          *)
(***************************************************************************)
EXTENDS Books, FiniteSetTheorems, NaturalsInduction, WellFoundedInduction, TLAPS

-----------------------------------------------------------------------------
\* What the controllers say of their handlers.  A method that creates a book
\* takes a title that has been validated, or the key of an S3 object.
SavesTexts(a, h) ==
  h.op = "createBook" =>
    \/ h.dto = CreateBookBody /\ h.reads = "title"
    \/ a = "s3" /\ h.payload = "s3" /\ h.reads = "key"

\* But for the switch of the custom application, a method is one operation.
IsMethod(a, h) == a # "custom" => h.op \in Operations /\ SavesTexts(a, h)

\* A list of methods.
AreMethods(a, L) ==
  L \in Seq({L[k] : k \in DOMAIN L}) /\ \A k \in 1..Len(L) : IsMethod(a, L[k])

\* Lists of up to three are lists of methods if their elements are methods.
LEMMA ListsOfMethods ==
  ASSUME NEW a, NEW x, NEW y, NEW z, IsMethod(a, x), IsMethod(a, y), IsMethod(a, z),
         NEW L \in {<<x>>, <<x, y>>, <<x, y, z>>}
  PROVE  AreMethods(a, L)
<1>1. CASE L = <<x>>
  <2>1. L \in Seq({L[k] : k \in DOMAIN L}) /\ \A k \in 1..Len(L) : L[k] \in {x}
    BY <1>1
  <2> QED BY <2>1 DEF AreMethods
<1>2. CASE L = <<x, y>>
  <2>1. L \in Seq({L[k] : k \in DOMAIN L}) /\ \A k \in 1..Len(L) : L[k] \in {x, y}
    BY <1>2
  <2> QED BY <2>1 DEF AreMethods
<1>3. CASE L = <<x, y, z>>
  <2>1. L \in Seq({L[k] : k \in DOMAIN L}) /\ \A k \in 1..Len(L) : L[k] \in {x, y, z}
    BY <1>3
  <2> QED BY <2>1 DEF AreMethods
<1> QED BY <1>1, <1>2, <1>3

\* A method that does not create a book, ...
LEMMA OtherMethod ==
  ASSUME NEW a, NEW fields, NEW op \in Operations \ {"createBook"}, NEW payload, NEW dto, NEW reads
  PROVE  IsMethod(a, On(fields, op, payload, dto, reads))
  BY DEF IsMethod, SavesTexts, On

\* ... and one that does, with a validated title.
LEMMA CreatingMethod ==
  ASSUME NEW a, NEW fields, NEW payload
  PROVE  IsMethod(a, On(fields, "createBook", payload, CreateBookBody, "title"))
  BY DEF IsMethod, SavesTexts, On, Operations

\* The handlers of each application are methods.
LEMMA HandlersAreMethods ==
  ASSUME NEW a \in Source
  PROVE  AreMethods(a, HandlersOf(a))
<1>0. {"listBooks", "getBook", "deleteBook", "removeBook"} \subseteq Operations \ {"createBook"}
  BY DEF Operations
<1>1. CASE a = "apigw"
  <2>1. HandlersOf(a) = ApiGatewayHandlers
    BY <1>1 DEF HandlersOf
  <2> QED BY <1>0, <2>1, CreatingMethod, OtherMethod, ListsOfMethods DEF ApiGatewayHandlers
<1>2. CASE a = "eventbridge"
  <2>1. HandlersOf(a) = EventBridgeHandlers
    BY <1>2 DEF HandlersOf
  <2> QED BY <1>0, <2>1, CreatingMethod, OtherMethod, ListsOfMethods DEF EventBridgeHandlers
<1>3. CASE a = "s3"
  <2>1. HandlersOf(a) = S3Handlers
    BY <1>3 DEF HandlersOf
  <2>2. ASSUME NEW fields PROVE IsMethod(a, On(fields, "createBook", "s3", Unchecked, "key"))
    BY <1>3 DEF IsMethod, SavesTexts, On, Operations
  <2> QED BY <1>0, <2>1, <2>2, OtherMethod, ListsOfMethods DEF S3Handlers
<1>4. CASE a = "sns"
  <2>1. HandlersOf(a) = SnsHandlers
    BY <1>4 DEF HandlersOf
  <2> QED BY <1>0, <2>1, CreatingMethod, OtherMethod, ListsOfMethods DEF SnsHandlers
<1>5. CASE a = "sqs"
  <2>1. HandlersOf(a) = SqsHandlers
    BY <1>5 DEF HandlersOf
  <2> QED BY <1>0, <2>1, CreatingMethod, OtherMethod, ListsOfMethods DEF SqsHandlers
<1>6. CASE a = "custom"
  <2>1. HandlersOf(a) = CustomHandlers
    BY <1>6 DEF HandlersOf
  <2>2. ASSUME NEW h PROVE IsMethod(a, h)
    BY <1>6 DEF IsMethod
  <2> QED BY <2>1, <2>2, ListsOfMethods DEF CustomHandlers
<1> QED BY <1>1, <1>2, <1>3, <1>4, <1>5, <1>6 DEF Source

-----------------------------------------------------------------------------
\* The lookup takes one of the positions it has found.
LEMMA FirstIsFound ==
  ASSUME NEW S \in SUBSET Nat, S # {}
  PROVE  Lookup!First(S) \in S
<1>1. IsWellFoundedOn(OpToRel(<, Nat), Nat)
  BY NatLessThanWellFounded
<1>2. PICK i \in S : \A j \in S : ~(<<j, i>> \in OpToRel(<, Nat))
  BY <1>1, WFMin
<1>3. ASSUME NEW j \in S PROVE i <= j
  <2>1. CASE j < i
    <3>1. <<j, i>> \in Nat \X Nat /\ <<j, i>>[1] < <<j, i>>[2]
      BY <2>1
    <3>2. <<j, i>> \in OpToRel(<, Nat)
      BY <3>1, Zenon DEF OpToRel
    <3> QED BY <1>2, <3>2
  <2> QED BY <2>1
<1> QED BY <1>3 DEF Lookup!First

\* Whatever the message, the handler is one of the application's, or none.
LEMMA HandlerIsOfTheApp ==
  ASSUME app \in Source, NEW i
  PROVE  HandlerOf(i) = NoHandler \/ IsMethod(app, HandlerOf(i))
<1> DEFINE L == HandlersOf(app)
           m == RequestsFor(event)[i].pattern
<1>1. PICK n \in Nat : n = Len(L) /\ \A k \in 1..n : IsMethod(app, L[k])
  <2>1. L \in Seq({L[k] : k \in DOMAIN L}) /\ \A k \in 1..Len(L) : IsMethod(app, L[k])
    BY HandlersAreMethods DEF AreMethods
  <2> HIDE DEF L
  <2>2. Len(L) \in Nat
    BY <2>1
  <2> QED BY <2>1, <2>2
<1>2. Len(L) = n
  BY <1>1
<1>3. ASSUME NEW S \in SUBSET (1..n), S # {}
      PROVE  IsMethod(app, Lookup!FirstOf(S))
  <2>1. Lookup!First(S) \in S
    BY <1>3, FirstIsFound
  <2> QED BY <1>1, <1>3, <2>1 DEF Lookup!FirstOf
<1>4. \A r : Lookup!Under(r) \subseteq 1..n
  BY <1>2 DEF Lookup!Under
<1>5. Lookup!Matching(m) \subseteq 1..n
  BY <1>2 DEF Lookup!Matching
<1>6. HandlerOf(i) = Lookup!GetHandlerByPattern(m)
  BY DEF HandlerOf
<1> HIDE DEF L, m
<1>7. Lookup!GetHandlerByPattern(m) = NoHandler
        \/ IsMethod(app, Lookup!GetHandlerByPattern(m))
  BY <1>3, <1>4, <1>5 DEF Lookup!GetHandlerByPattern
<1> QED BY <1>6, <1>7

-----------------------------------------------------------------------------
\* The calls are those of the event that the application's own service sent,
\* and there are none of an event that was refused.
EventInv ==
  /\ app \in Source
  /\ event # NoEvent =>
       /\ event \in Event /\ event.sender = app
       /\ Refused(event) => calls = <<>>
       /\ ~Refused(event) => DOMAIN calls = DOMAIN RequestsFor(event)
  /\ event = NoEvent => DOMAIN calls = {}

\* Each call has a result when it is done, and no handler of the API Gateway
\* application is done without a response.
ResultsInv ==
  \A i \in DOMAIN calls :
    /\ calls[i].step \in {"sent", "listed", "done"}
    /\ calls[i].step # "done" => calls[i].result = "none"
    /\ calls[i].step = "done" =>
         \/ calls[i].result \in {"value", "error"}
         \/ calls[i].result = "void" /\ app # "apigw"

\* The books have ids that were drawn.
IdsInv == saved \in Nat /\ invoked \in 0..MaxEvents /\ \A b \in books : \E n \in 1..saved : b.id = BookId(n)

\* A removal that has listed its books knows all with its title that were saved
\* until then: those it does not know have come since.
ListedInv ==
  \A i \in DOMAIN calls :
    calls[i].step = "listed" =>
      /\ calls[i].since \in 0..saved
      /\ \A b \in books :
           b.title = Argument(i) =>
             b.id \in calls[i].found \/ \E n \in (calls[i].since + 1)..saved : b.id = BookId(n)

\* A removal is complete because ids are told apart by when they were drawn, and
\* titles are texts because the calls are those of the application's events.
BooksInv == EventInv /\ ResultsInv /\ IdsInv /\ TitlesAreTexts /\ ListedInv

\* At first there is no book and no call.
LEMMA BooksStart == Init => BooksInv
<1> SUFFICES ASSUME Init PROVE BooksInv
  OBVIOUS
<1>1. DOMAIN calls = {}
  BY DEF Init
<1>2. EventInv /\ ResultsInv /\ ListedInv
  BY <1>1 DEF Init, EventInv, ResultsInv, ListedInv
<1>3. IdsInv /\ TitlesAreTexts
  BY MaxEventsAssumption DEF Init, IdsInv, TitlesAreTexts
<1> QED BY <1>2, <1>3 DEF BooksInv

\* A title that reaches the service is a text, outside the custom application.
LEMMA SavedTitleIsText ==
  ASSUME BooksInv, app # "custom", NEW i \in DOMAIN calls, Starts(i, "createBook")
  PROVE  IsText(Argument(i))
<1> DEFINE h == HandlerOf(i)
<1>1. HandlerOf(i) # NoHandler /\ IsMethod(app, h)
  BY HandlerIsOfTheApp DEF BooksInv, EventInv, Starts, OperationOf
<1>2. h.op = "createBook"
  BY <1>1 DEF IsMethod, Operations, Starts, OperationOf
<1>3. CASE h.dto = CreateBookBody /\ h.reads = "title"
  BY <1>3 DEF Starts, IsValid, ValidationPipe, Argument, CreateBookBody, Dto
<1>4. CASE app = "s3" /\ h.payload = "s3" /\ h.reads = "key"
  <2>1. event \in Event /\ event.sender = "s3" /\ DOMAIN calls = DOMAIN RequestsFor(event)
    <3>1. event # NoEvent /\ calls # <<>>
      BY DEF BooksInv, EventInv
    <3> QED BY <1>4, <3>1 DEF BooksInv, EventInv
  <2>2. KindOf(event) = "s3"
    BY <2>1, EventAssumption
  <2>3. DOMAIN RequestsFor(event) = DOMAIN event.records
    BY <2>2 DEF RequestsFor
  <2>4. IsText(Field(TransformPipe(event.data[i]["s3"]), "key"))
    BY <2>1, <2>3, EventAssumption
  <2> QED BY <1>4, <2>4 DEF Argument, Value
<1> QED BY <1>1, <1>2, <1>3, <1>4 DEF IsMethod, SavesTexts

-----------------------------------------------------------------------------
\* An invocation starts with calls that have done nothing, or with none.
LEMMA InvokeKeeps ==
  ASSUME BooksInv, NEW e \in Event, Invoke(e),
         Refused(e) => calls' = <<>>,
         ~Refused(e) => calls' = [i \in DOMAIN RequestsFor(e) |-> Sent]
  PROVE  BooksInv'
<1>1. /\ event' = e /\ app' = app /\ books' = books /\ saved' = saved /\ invoked' = invoked + 1
      /\ e.sender = app /\ invoked < MaxEvents
  BY DEF Invoke
<1>2. \A i \in DOMAIN calls' : calls'[i].step = "sent" /\ calls'[i].result = "none"
  <2>1. Sent.step = "sent" /\ Sent.result = "none"
    BY DEF Sent, Call
  <2>2. CASE Refused(e)
    BY <2>2
  <2>3. CASE ~Refused(e)
    BY <2>1, <2>3
  <2> QED BY <2>2, <2>3
<1>3. event' # NoEvent
  <2>1. e.sender # "nobody"
    BY <1>1 DEF BooksInv, EventInv, Source
  <2> QED BY <1>1, <2>1 DEF NoEvent
<1>4. EventInv'
  <2>1. Refused(event)' = Refused(e) /\ RequestsFor(event)' = RequestsFor(e) /\ NoEvent' = NoEvent
    BY <1>1
  <2>2. ~Refused(e) => DOMAIN calls' = DOMAIN RequestsFor(e)
    OBVIOUS
  <2> QED BY <1>1, <1>3, <2>1, <2>2 DEF BooksInv, EventInv
<1>5. ResultsInv' /\ ListedInv'
  BY <1>2 DEF ResultsInv, ListedInv
<1>6. IdsInv'
  <2>1. invoked' \in 0..MaxEvents
    BY <1>1, MaxEventsAssumption DEF BooksInv, IdsInv
  <2> QED BY <1>1, <2>1 DEF BooksInv, IdsInv
<1>7. TitlesAreTexts'
  BY <1>1 DEF BooksInv, TitlesAreTexts
<1> QED BY <1>4, <1>5, <1>6, <1>7 DEF BooksInv

\* As long as application and event stay, so do the handlers and what they read.
LEMMA ArgumentsStay ==
  ASSUME app' = app, event' = event, NEW i
  PROVE  HandlerOf(i)' = HandlerOf(i) /\ Argument(i)' = Argument(i)
<1>1. HandlersOf(app)' = HandlersOf(app) /\ RequestsFor(event)' = RequestsFor(event)
  OBVIOUS
<1>2. HandlerOf(i)' = HandlerOf(i)
  BY <1>1 DEF HandlerOf, Lookup!GetHandlerByPattern, Lookup!Under, Lookup!Matching,
              Lookup!Matches, Lookup!FirstOf, Lookup!First
<1>3. Argument(i)' = Argument(i)
  BY <1>2 DEF Argument, Value
<1> QED BY <1>2, <1>3

\* One call changes.
Changes(i, c) == calls' = [calls EXCEPT ![i] = c] /\ UNCHANGED <<app, event, invoked>>

\* A result that a call may have.
IsResult(result) == result \in {"value", "error"} \/ (result = "void" /\ app # "apigw")

\* What is left of the books after a step that draws at most one id, with the
\* book that is new.
Keeps(more) ==
  /\ books' \subseteq books \cup {NewBook(t) : t \in more}
  /\ more # {} => saved' = saved + 1
  /\ more = {} => saved' = saved

\* A step of one call keeps the invariant if its call ends, or lists the books.
LEMMA CallKeeps ==
  ASSUME BooksInv, NEW i \in DOMAIN calls, NEW c, Changes(i, c),
         NEW more, Keeps(more),
         app # "custom" => \A t \in more : IsText(t),
         \/ c.step = "done" /\ IsResult(c.result)
         \/ /\ c.step = "listed" /\ c.result = "none" /\ c.since = saved
            /\ \A b \in books : b.title = Argument(i) => b.id \in c.found
            /\ more = {}
  PROVE  BooksInv'
<1>1. /\ DOMAIN calls' = DOMAIN calls /\ calls'[i] = c
      /\ \A j \in DOMAIN calls : j # i => calls'[j] = calls[j]
      /\ app' = app /\ event' = event /\ invoked' = invoked
  BY DEF Changes
<1>2. saved \in Nat /\ saved' \in {saved, saved + 1}
  BY DEF Keeps, BooksInv, IdsInv
<1>3. ASSUME NEW b \in books', b \notin books
      PROVE  /\ saved' = saved + 1 /\ more # {} /\ b.id = BookId(saved + 1) /\ b.title \in more
  BY <1>3 DEF Keeps, NewBook
<1>4. EventInv'
  BY <1>1 DEF BooksInv, EventInv
<1>5. ResultsInv'
  BY <1>1 DEF BooksInv, ResultsInv, IsResult
<1>6. IdsInv'
  <2>1. ASSUME NEW b \in books' PROVE \E n \in 1..saved' : b.id = BookId(n)
    <3>1. CASE b \in books
      BY <1>2, <3>1 DEF BooksInv, IdsInv
    <3>2. CASE b \notin books
      <4>1. saved + 1 \in 1..saved' /\ b.id = BookId(saved + 1)
        BY <1>2, <1>3, <3>2
      <4> QED BY <4>1
    <3> QED BY <3>1, <3>2
  <2> QED BY <1>1, <1>2, <2>1 DEF BooksInv, IdsInv
<1>7. TitlesAreTexts'
  BY <1>1, <1>3 DEF BooksInv, TitlesAreTexts
<1>8. ASSUME NEW j \in DOMAIN calls, calls'[j].step = "listed"
      PROVE  /\ calls'[j].since \in 0..saved'
             /\ \A b \in books' :
                  b.title = Argument(j)' =>
                    b.id \in calls'[j].found \/ \E n \in (calls'[j].since + 1)..saved' : b.id = BookId(n)
  <2>1. /\ calls'[j].since \in 0..saved
        /\ \A b \in books :
             b.title = Argument(j) =>
               b.id \in calls'[j].found \/ \E n \in (calls'[j].since + 1)..saved : b.id = BookId(n)
    BY <1>1, <1>2, <1>8 DEF BooksInv, ListedInv
  <2>2. Argument(j)' = Argument(j)
    BY <1>1, ArgumentsStay
  <2>3. ASSUME NEW b \in books', b.title = Argument(j)
        PROVE  b.id \in calls'[j].found \/ \E n \in (calls'[j].since + 1)..saved' : b.id = BookId(n)
    <3>1. CASE b \in books
      BY <1>2, <2>1, <2>3, <3>1
    <3>2. CASE b \notin books
      <4>1. saved + 1 \in (calls'[j].since + 1)..saved' /\ b.id = BookId(saved + 1)
        BY <1>2, <1>3, <2>1, <3>2
      <4> QED BY <4>1
    <3> QED BY <3>1, <3>2
  <2> QED BY <1>2, <2>1, <2>2, <2>3
<1>9. ListedInv'
  BY <1>1, <1>8 DEF ListedInv
<1> QED BY <1>4, <1>5, <1>6, <1>7, <1>9 DEF BooksInv

\* Calls that end without a new book.
LEMMA EndingKeeps ==
  ASSUME BooksInv, NEW i \in DOMAIN calls, NEW result, IsResult(result), Finish(i, result),
         books' \subseteq books, saved' = saved
  PROVE  BooksInv'
<1> DEFINE c == Call("done", result, {}, 0)
<1>1. Changes(i, c)
  BY DEF Changes, Finish
<1>2. Keeps({})
  BY DEF Keeps
<1>3. c.step = "done" /\ c.result = result
  BY DEF Call
<1> HIDE DEF c
<1> QED BY <1>1, <1>2, <1>3, CallKeeps

\* The result that an application returns.
LEMMA ReturnEnds ==
  ASSUME NEW i, Return(i)
  PROVE  \E result : IsResult(result) /\ Finish(i, result)
  BY DEF Return, IsResult

\* Every step keeps the invariant.
LEMMA NextKeeps == BooksInv /\ [Next]_vars => BooksInv'
<1> SUFFICES ASSUME BooksInv, [Next]_vars PROVE BooksInv'
  OBVIOUS
<1>1. ASSUME NEW e \in Event, Refuse(e) \/ Receive(e) PROVE BooksInv'
  BY <1>1, InvokeKeeps DEF Refuse, Receive
<1>2. ASSUME NEW i \in DOMAIN calls, Fail(i) PROVE BooksInv'
  <2>1. Finish(i, "error") /\ IsResult("error") /\ books' \subseteq books /\ saved' = saved
    BY <1>2 DEF Fail, IsResult
  <2> QED BY <2>1, EndingKeeps
<1>3. ASSUME NEW i \in DOMAIN calls, Return(i), books' \subseteq books, saved' = saved
      PROVE  BooksInv'
  BY <1>3, ReturnEnds, EndingKeeps
<1>4. ASSUME NEW i \in DOMAIN calls, Ignore(i) PROVE BooksInv'
  <2>1. app # "apigw"
    BY <1>4, HandlerIsOfTheApp DEF BooksInv, EventInv, Ignore, Starts, OperationOf, IsMethod, Operations
  <2>2. Finish(i, "void") /\ IsResult("void") /\ books' \subseteq books /\ saved' = saved
    BY <1>4, <2>1 DEF Ignore, IsResult
  <2> QED BY <2>2, EndingKeeps
<1>5. ASSUME NEW i \in DOMAIN calls, CreateBook(i) PROVE BooksInv'
  <2> DEFINE result == IF app \in {"apigw", "custom"} THEN "value" ELSE "void"
             c == Call("done", result, {}, 0)
  <2>1. Changes(i, c) /\ Keeps({Argument(i)})
    BY <1>5 DEF CreateBook, Return, Finish, Changes, Keeps
  <2>2. c.step = "done" /\ IsResult(c.result)
    BY DEF Call, IsResult
  <2>3. app # "custom" => IsText(Argument(i))
    BY <1>5, SavedTitleIsText DEF CreateBook
  <2> HIDE DEF c
  <2> QED BY <2>1, <2>2, <2>3, CallKeeps
<1>6. ASSUME NEW i \in DOMAIN calls, ListForRemoval(i) PROVE BooksInv'
  <2> DEFINE found == {b.id : b \in {d \in books : d.title = Argument(i)}}
             c == Call("listed", "none", found, saved)
  <2>1. Changes(i, c) /\ Keeps({})
    BY <1>6 DEF ListForRemoval, Changes, Keeps
  <2>2. c.step = "listed" /\ c.result = "none" /\ c.since = saved /\ c.found = found
    BY DEF Call
  <2>3. \A b \in books : b.title = Argument(i) => b.id \in c.found
    BY <2>2
  <2> HIDE DEF c
  <2> QED BY <2>1, <2>2, <2>3, CallKeeps
<1>7. ASSUME NEW i \in DOMAIN calls, Unqualified(i) \/ Invalid(i) PROVE BooksInv'
  BY <1>2, <1>7 DEF Unqualified, Invalid
<1>8. ASSUME NEW i \in DOMAIN calls, ListBooks(i) \/ GetBook(i) \/ DeleteBook(i) \/ RemoveListed(i)
      PROVE  BooksInv'
  BY <1>2, <1>3, <1>8 DEF ListBooks, GetBook, DeleteBook, RemoveListed
<1>9. CASE UNCHANGED vars
  <2>1. app' = app /\ event' = event /\ calls' = calls /\ books' = books /\ saved' = saved /\ invoked' = invoked
    BY <1>9 DEF vars
  <2>2. \A i : Argument(i)' = Argument(i)
    BY <2>1, ArgumentsStay
  <2>3. ListedInv'
    BY <2>1, <2>2 DEF BooksInv, ListedInv
  <2> QED BY <2>1, <2>3 DEF BooksInv, EventInv, ResultsInv, IdsInv, TitlesAreTexts
<1> QED BY <1>1, <1>4, <1>5, <1>6, <1>7, <1>8, <1>9 DEF Next

\* The invariant of the applications.
LEMMA BooksInvariance == Spec => []BooksInv
  BY BooksStart, NextKeeps, PTL DEF Spec

-----------------------------------------------------------------------------
\* No two of the ids that v4 draws are the same.
UuidsDiffer == \A m, n \in Nat : BookId(m) = BookId(n) => m = n

\* A new book never takes the place of another: ids tell books apart, through
\* creations and removals of any number of invocations.
THEOREM BooksTypes ==
  ASSUME UuidsDiffer
  PROVE  Spec => []BooksTypeOK
<1> DEFINE Apart == \A b, d \in books : b.id = d.id => b = d
<1>1. Init => Apart
  BY DEF Init
<1>2. ASSUME BooksInv, Apart, [Next]_vars PROVE Apart'
  <2>1. CASE \E i \in DOMAIN calls : CreateBook(i)
    <3>1. PICK new : books' = books \cup {new} /\ new.id = BookId(saved + 1)
      <4>1. PICK i \in DOMAIN calls : CreateBook(i)
        BY <2>1
      <4>2. NewBook(Argument(i)).id = BookId(saved + 1)
        BY DEF NewBook
      <4>3. books' = books \cup {NewBook(Argument(i))}
        BY <4>1 DEF CreateBook
      <4> HIDE DEF NewBook
      <4> QED BY <4>2, <4>3
    <3>2. ASSUME NEW b \in books PROVE b.id # new.id
      <4>1. PICK n \in 1..saved : b.id = BookId(n)
        BY <1>2 DEF BooksInv, IdsInv
      <4>2. saved \in Nat /\ n \in Nat /\ saved + 1 \in Nat /\ n # saved + 1
        BY <1>2, <4>1 DEF BooksInv, IdsInv
      <4> QED BY <3>1, <4>1, <4>2 DEF UuidsDiffer
    <3> QED BY <1>2, <3>1, <3>2
  <2>2. CASE ~\E i \in DOMAIN calls : CreateBook(i)
    <3>1. books' \subseteq books
      BY <1>2, <2>2 DEF Next, vars, Refuse, Receive, Invoke, Unqualified, Invalid, Ignore, Fail, ListBooks, GetBook,
                        DeleteBook, ListForRemoval, RemoveListed
    <3> QED BY <1>2, <3>1
  <2> QED BY <2>1, <2>2
<1>3. BooksInv /\ Apart => BooksTypeOK
  BY DEF BooksTypeOK, BooksInv, EventInv, ResultsInv, IdsInv
<1> HIDE DEF Apart
<1> QED BY <1>1, <1>2, <1>3, BooksInvariance, PTL DEF Spec

\* What the service stores as a title is a string, whatever a client sends and
\* whichever handler it finds.
THEOREM TitlesStayTexts == Spec => []TitlesAreTexts
<1>1. BooksInv => TitlesAreTexts
  BY DEF BooksInv
<1> QED BY <1>1, BooksInvariance, PTL

\* A removal deletes every book with the title that was saved before it began.
THEOREM RemovalsAreComplete == Spec => RemovedTitlesAreGone
<1>1. ASSUME BooksInv, [Next]_vars, NEW i \in DOMAIN calls,
             calls[i].step = "listed", calls'[i].step = "done",
             NEW b \in books', b.title = Argument(i)
      PROVE  \E n \in (calls[i].since + 1)..saved : b.id = BookId(n)
  <2>1. RemoveListed(i)
    <3>1. ~IsDone
      BY <1>1 DEF IsDone
    <3>2. ASSUME NEW j \in DOMAIN calls, NEW c, calls' = [calls EXCEPT ![j] = c] PROVE j = i
      BY <1>1, <3>2
    <3>3. \A op : ~Starts(i, op)
      BY <1>1 DEF Starts
    <3>4. CASE UNCHANGED vars
      BY <1>1, <3>4 DEF vars
    <3>5. PICK j \in DOMAIN calls :
            \/ Unqualified(j) \/ Invalid(j) \/ Ignore(j)
            \/ CreateBook(j) \/ ListBooks(j) \/ GetBook(j) \/ DeleteBook(j)
            \/ ListForRemoval(j) \/ RemoveListed(j)
      BY <1>1, <3>1, <3>4 DEF Next, Refuse, Receive, Invoke
    <3>6. \E c : calls' = [calls EXCEPT ![j] = c]
      BY <3>5 DEF Unqualified, Invalid, Ignore, CreateBook, ListBooks, GetBook, DeleteBook,
                  ListForRemoval, RemoveListed, Fail, Return, Finish
    <3>7. j = i
      BY <3>2, <3>6
    <3> QED BY <1>1, <3>3, <3>5, <3>7 DEF Unqualified, Invalid, Ignore, CreateBook, ListBooks, GetBook,
                                          DeleteBook, ListForRemoval
  <2>2. b \in books /\ b.id \notin calls[i].found
    BY <1>1, <2>1 DEF RemoveListed
  <2> QED BY <1>1, <2>2 DEF BooksInv, ListedInv
<1>2. BooksInv /\ [Next]_vars =>
        [\A i \in DOMAIN calls :
           calls[i].step = "listed" /\ calls'[i].step = "done" =>
             \A b \in books' : b.title = Argument(i) =>
               \E n \in (calls[i].since + 1)..saved : b.id = BookId(n)]_vars
  BY <1>1
<1> QED BY <1>2, BooksInvariance, PTL DEF Spec, RemovedTitlesAreGone

\* An application whose event can be mapped and whose requests have not failed
\* always has a response, and of an event that cannot nothing is done.
THEOREM ApplicationsRespond == Spec => []OnlyErrorsReject
<1>1. ASSUME BooksInv PROVE OnlyErrorsReject
  <2> DEFINE answered == {i \in DOMAIN calls : calls[i].result # "void"}
             made == {[req |-> i, kind |-> calls[i].result] : i \in answered}
  <2> SUFFICES ASSUME event # NoEvent, IsDone, NEW ts \in TuplesOf(answered),
                      ~Refused(event), \A i \in DOMAIN calls : calls[i].result # "error"
               PROVE  Resolves(KindOf(event), ts)
    BY <1>1 DEF OnlyErrorsReject, Rejects, BooksInv, EventInv
  <2>1. /\ ts \in [1..Cardinality(made) -> made]
        /\ \A t \in made : \E k \in DOMAIN ts : ts[k] = t
    BY DEF TuplesOf
  <2>2. event \in Event /\ KindOf(event) = app /\ DOMAIN calls = DOMAIN RequestsFor(event)
    BY <1>1, EventAssumption DEF BooksInv, EventInv
  <2>3. Cardinality(made) \in Nat
    <3>1. IsFiniteSet(DOMAIN calls)
      <4>1. CASE KindOf(event) \in {"s3", "sns", "sqs"}
        <5>1. DOMAIN calls = DOMAIN event.records
          BY <2>2, <4>1 DEF RequestsFor
        <5>2. event.records \in Seq({event.records[i] : i \in DOMAIN event.records})
          BY <2>2, EventAssumption
        <5>3. Len(event.records) \in Nat /\ DOMAIN event.records = 1..Len(event.records)
          BY <5>2
        <5> QED BY <5>1, <5>3, FS_Interval
      <4>2. CASE KindOf(event) \notin {"s3", "sns", "sqs"}
        <5>1. DOMAIN calls = {1}
          BY <2>2, <4>2 DEF RequestsFor
        <5> QED BY <5>1, FS_Singleton
      <4> QED BY <4>1, <4>2
    <3>2. IsFiniteSet(answered)
      BY <3>1, FS_Subset
    <3>3. IsFiniteSet(made)
      <4> DEFINE f == [i \in answered |-> [req |-> i, kind |-> calls[i].result]]
      <4>1. f \in Surjection(answered, made)
        BY DEF Surjection
      <4> HIDE DEF answered, made, f
      <4> QED BY <3>2, <4>1, FS_Surjection
    <3> QED BY <3>3, FS_CardinalityType
  <2>4. Len(ts) = Cardinality(made)
    <3> HIDE DEF made
    <3> QED BY <2>1, <2>3
  <2>5. \A t \in made : t.kind # "error"
    OBVIOUS
  <2>6. Errors(ts) = {}
    <3> HIDE DEF made
    <3> QED BY <2>1, <2>4, <2>5 DEF Errors, IsError
  <2>7. ASSUME app = "apigw" PROVE ts # <<>>
    <3>1. KindOf(event) = "apigw"
      BY <2>2, <2>7
    <3>2. DOMAIN calls = 1..1
      BY <2>2, <3>1 DEF RequestsFor
    <3>3. calls[1].result # "void"
      BY <1>1, <2>7, <3>2 DEF BooksInv, ResultsInv, IsDone
    <3>4. 1 \in answered
      BY <3>2, <3>3
    <3>5. PICK k \in DOMAIN ts : TRUE
      BY <2>1, <3>4
    <3> QED BY <3>5
  <2> QED BY <2>2, <2>6, <2>7 DEF Resolves
<1> QED BY <1>1, BooksInvariance, PTL
=============================================================================
