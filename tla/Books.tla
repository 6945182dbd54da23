------------------------------- MODULE Books --------------------------------
(***************************************************************************)
(* The applications in examples/, one per event source: which handler of a *)
(* BooksController an event reaches through mapping and lookup, what the   *)
(* pipes make of its payload, what BooksService does, and whether the      *)
(* invocation resolves.                                                    *)
(*                                                                         *)
(* An event is one of EventMapping.  Its data is, for each record, the     *)
(* parts of the payload by name, and texts are written out: nothing here   *)
(* sorts them.  "asks" and "fits" are not read: they say which operation   *)
(* each record is a request for, and whether its payload is one for it.    *)
(***************************************************************************)
EXTENDS EventMapping, FiniteSets

CONSTANTS
  Event,      \* the events of all sources
  BookId(_),  \* the ids that v4 draws, in the order it draws them
  Normalized, \* normalizePattern
  Route,      \* getRouteFromPattern
  Match,      \* performPatternMatch
  NoHandler,
  MaxEvents   \* bound on the invocations

ASSUME MaxEventsAssumption == MaxEvents \in Nat

VARIABLES
  app,       \* the application, named after its source
  event,     \* the event of the active or the last invocation
  calls,     \* what became of each of its requests
  books,     \* the map of BooksService
  saved,     \* how many ids it has drawn
  invoked    \* how many events were received

vars == <<app, event, calls, books, saved, invoked>>

-----------------------------------------------------------------------------
\* The classes of dto/: which properties must be strings, and which may be.
Dto(required, optional) == [required |-> required, optional |-> optional]

\* Mutant: the title has no @IsString().
CreateBookBodyLoose == Dto({}, {})

CreateBookBody == Dto({"title"}, {})
ListBooksQuery == Dto({}, {"startsWith"})
GetBookByIdParams == Dto({"id"}, {})
DeleteBookByIdParams == Dto({"id"}, {})
CustomEventBody == Dto({"operation"}, {})
Unchecked == Dto({}, {})   \* an interface: nothing to validate

\* Mutant: a controller without @UsePartialPatternMatch().
OnExactly(fields, op, payload, dto, reads) ==
  [pattern |-> Obj(fields), partial |-> FALSE, op |-> op, payload |-> payload, dto |-> dto, reads |-> reads]

\* A method with its pattern, the part of the payload that it takes, and the
\* property of it that it passes on.
On(fields, op, payload, dto, reads) ==
  [pattern |-> Obj(fields), partial |-> TRUE, op |-> op, payload |-> payload, dto |-> dto, reads |-> reads]

HttpRoute(httpMethod, resource) == [httpMethod |-> Str(httpMethod), resource |-> Str(resource)]

ApiGatewayHandlers ==
  <<On(HttpRoute("POST", "/books"), "createBook", "body", CreateBookBody, "title"),
    On(HttpRoute("GET", "/books"), "listBooks", "queryStringParameters", ListBooksQuery, "startsWith"),
    On(HttpRoute("GET", "/books/{id}"), "getBook", "pathParameters", GetBookByIdParams, "id")>>

EventBridgeHandlers ==
  <<On([detailType |-> Str("CreateBook")], "createBook", "detail", CreateBookBody, "title"),
    On([detailType |-> Str("ListBooks")], "listBooks", "detail", ListBooksQuery, "startsWith"),
    On([detailType |-> Str("DeleteBook")], "deleteBook", "detail", DeleteBookByIdParams, "id")>>

S3Handlers ==
  <<On([eventName |-> Str("ObjectCreated:Post"), bucketName |-> Str("books")],
       "createBook", "s3", Unchecked, "key"),
    On([eventName |-> Str("ObjectRemoved:Delete"), bucketName |-> Str("books")],
       "removeBook", "s3", Unchecked, "key")>>

SnsHandlers ==
  <<On([Operation |-> Str("CreateBook")], "createBook", "Message", CreateBookBody, "title"),
    On([Operation |-> Str("ListBooks")], "listBooks", "Message", ListBooksQuery, "startsWith"),
    On([Operation |-> Str("DeleteBook")], "deleteBook", "Message", DeleteBookByIdParams, "id")>>

SqsHandlers ==
  <<On([Operation |-> Str("CreateBook")], "createBook", "body", CreateBookBody, "title"),
    On([Operation |-> Str("ListBooks")], "listBooks", "body", ListBooksQuery, "startsWith"),
    On([Operation |-> Str("DeleteBook")], "deleteBook", "body", DeleteBookByIdParams, "id")>>

\* The one handler of the custom application switches on the operation.
CustomHandlers ==
  <<[pattern |-> Star, partial |-> TRUE, op |-> "switch", payload |-> "event",
     dto |-> CustomEventBody, reads |-> "body"]>>

HandlersOf(a) ==
  CASE a = "apigw" -> ApiGatewayHandlers
    [] a = "eventbridge" -> EventBridgeHandlers
    [] a = "s3" -> S3Handlers
    [] a = "sns" -> SnsHandlers
    [] a = "sqs" -> SqsHandlers
    [] a = "custom" -> CustomHandlers

-----------------------------------------------------------------------------
\* The lookup of the server, with its routes and matches.
Patterns == UNION {{HandlersOf(a)[i].pattern : i \in DOMAIN HandlersOf(a)} : a \in Source}
Messages ==
  UNION {{RequestsFor(e)[i].pattern : i \in DOMAIN RequestsFor(e)} : e \in Event} \ {Thrown}

Lookup == INSTANCE HandlerLookup WITH
  Pattern <- Patterns, Message <- Messages, CatchAll <- Star,
  MaxHandlers <- 3, messageHandlers <- HandlersOf(app), aborted <- FALSE

HandlerOf(i) == Lookup!GetHandlerByPattern(RequestsFor(event)[i].pattern)

-----------------------------------------------------------------------------
\* A text is the JSON of a value, or words.
TransformPipe(v) ==
  IF "json" \in DOMAIN v THEN v.json ELSE IF "words" \in DOMAIN v THEN v.words ELSE v

Field(v, k) == IF IsObject(v) THEN Property(v, k) ELSE Undefined

ValidationPipe(v, dto) ==
  /\ \A k \in dto.required : IsText(Field(v, k))
  /\ \A k \in dto.optional : IsText(Field(v, k)) \/ Field(v, k) \in {Null, Undefined}

\* The events are those of the services that the applications are for, which
\* the mapper recognises, and the key of an S3 object is a string.
ASSUME EventAssumption ==
  \A e \in Event :
    /\ KindOf(e) = e.sender
    /\ e.records \in Seq({e.records[i] : i \in DOMAIN e.records})
    /\ e.sender = "s3" =>
         \A i \in DOMAIN e.records : IsText(Field(TransformPipe(e.data[i]["s3"]), "key"))

\* The pipes in the order of the module.
Value(i) == TransformPipe(event.data[i][HandlerOf(i).payload])

\* Mutant: the pipes in the other order.
IsValidUnparsed(i) == ValidationPipe(event.data[i][HandlerOf(i).payload], HandlerOf(i).dto)

IsValid(i) == ValidationPipe(Value(i), HandlerOf(i).dto)
Argument(i) == Field(Value(i), HandlerOf(i).reads)

Operations == {"createBook", "listBooks", "getBook", "deleteBook", "removeBook"}

\* The operation that the handler of request i performs, if any.
OperationOf(i) ==
  IF HandlerOf(i) = NoHandler THEN "nothing"
  ELSE IF HandlerOf(i).op # "switch" THEN HandlerOf(i).op
  ELSE LET known == {op \in {"createBook", "listBooks", "deleteBook"} : Field(Value(i), "operation") = Str(op)}
       IN  IF known = {} THEN "nothing" ELSE CHOOSE op \in known : TRUE

-----------------------------------------------------------------------------
\* A call has listed the books it removes; since is how many had been saved.
Call(step, result, found, since) ==
  [step |-> step, result |-> result, found |-> found, since |-> since]
Sent == Call("sent", "none", {}, 0)

NoEvent == [sender |-> "nobody"]

BooksTypeOK ==
  /\ app \in Source
  /\ event \in Event \cup {NoEvent}
  /\ \A i \in DOMAIN calls :
       /\ calls[i].step \in {"sent", "listed", "done"}
       /\ calls[i].result = "none" <=> calls[i].step # "done"
  /\ \A b \in books : \E n \in 1..saved : b.id = BookId(n)
  /\ \A b, c \in books : b.id = c.id => b = c
  /\ invoked \in 0..MaxEvents

Init ==
  /\ app \in Source
  /\ event = NoEvent /\ calls = <<>>
  /\ books = {} /\ saved = 0
  /\ invoked = 0

IsDone == \A i \in DOMAIN calls : calls[i].step = "done"

\* processEvent rejects such an event before it publishes anything.
Refused(e) == MappingThrows(e) \/ ~PayloadsAreObjects(e)

\* An application is invoked by its own source, with one event at a time.
Invoke(e) ==
  /\ IsDone /\ invoked < MaxEvents
  /\ e.sender = app
  /\ event' = e
  /\ invoked' = invoked + 1
  /\ UNCHANGED <<app, books, saved>>

Refuse(e) == Invoke(e) /\ Refused(e) /\ calls' = <<>>

Receive(e) ==
  /\ Invoke(e) /\ ~Refused(e)
  /\ calls' = [i \in DOMAIN RequestsFor(e) |-> Sent]

Finish(i, result) ==
  /\ calls' = [calls EXCEPT ![i] = Call("done", result, {}, 0)]
  /\ UNCHANGED <<app, event, invoked>>

\* ExceptionFilter: whatever is thrown becomes the error of an observable.
Fail(i) == Finish(i, "error") /\ UNCHANGED <<books, saved>>

\* Handlers of two applications return what the service does.
Return(i) == Finish(i, IF app \in {"apigw", "custom"} THEN "value" ELSE "void")

Starts(i, op) == calls[i].step = "sent" /\ OperationOf(i) = op /\ IsValid(i)

Unqualified(i) == calls[i].step = "sent" /\ HandlerOf(i) = NoHandler /\ Fail(i)

Invalid(i) == calls[i].step = "sent" /\ HandlerOf(i) # NoHandler /\ ~IsValid(i) /\ Fail(i)

\* Mutant: the id is not a new one.
NewBookSameId(title) == [id |-> BookId(1), title |-> title]

NewBook(title) == [id |-> BookId(saved + 1), title |-> title]

CreateBook(i) ==
  /\ Starts(i, "createBook")
  /\ books' = books \cup {NewBook(Argument(i))}
  /\ saved' = saved + 1
  /\ Return(i)

\* The filter calls startsWith on every title.
ListBooks(i) ==
  /\ Starts(i, "listBooks")
  /\ IF \A b \in books : IsText(b.title)
     THEN Return(i) /\ UNCHANGED <<books, saved>>
     ELSE Fail(i)

\* Mutant: a book that is not there is no response.
GetBookOrVoid(i) ==
  /\ Starts(i, "getBook")
  /\ IF \E b \in books : b.id = Argument(i) THEN Return(i) ELSE Finish(i, "void")
  /\ UNCHANGED <<books, saved>>

\* A book, or a response that there is none.
GetBook(i) ==
  /\ Starts(i, "getBook")
  /\ Return(i)
  /\ UNCHANGED <<books, saved>>

DeleteBook(i) ==
  /\ Starts(i, "deleteBook")
  /\ books' = {b \in books : b.id # Argument(i)}
  /\ Return(i)
  /\ UNCHANGED saved

\* deleteBookByTitle: the books with the title are listed, and deleted after
\* an await, in which the other records of the batch go on.
ListForRemoval(i) ==
  /\ Starts(i, "removeBook")
  /\ calls' = [calls EXCEPT ![i] =
       Call("listed", "none", {b.id : b \in {c \in books : c.title = Argument(i)}}, saved)]
  /\ UNCHANGED <<app, event, books, saved, invoked>>

\* Mutant: the first book with the title is enough.
RemoveFirstListed(i) ==
  /\ calls[i].step = "listed"
  /\ books' = {b \in books : calls[i].found = {} \/ b.id # CHOOSE id \in calls[i].found : TRUE}
  /\ Return(i)
  /\ UNCHANGED saved

RemoveListed(i) ==
  /\ calls[i].step = "listed"
  /\ books' = {b \in books : b.id \notin calls[i].found}
  /\ Return(i)
  /\ UNCHANGED saved

\* The custom handler falls through its switch.
Ignore(i) ==
  /\ HandlerOf(i) # NoHandler
  /\ Starts(i, "nothing")
  /\ Finish(i, "void")
  /\ UNCHANGED <<books, saved>>

Next ==
  \/ \E e \in Event : Refuse(e) \/ Receive(e)
  \/ \E i \in DOMAIN calls :
       \/ Unqualified(i) \/ Invalid(i) \/ Ignore(i)
       \/ CreateBook(i) \/ ListBooks(i) \/ GetBook(i) \/ DeleteBook(i)
       \/ ListForRemoval(i) \/ RemoveListed(i)

Spec == Init /\ [][Next]_vars

-----------------------------------------------------------------------------
\* Whichever source and event version, every record reaches the method that it
\* is meant for, as text or as a value, and gets an error when it is meant for
\* none or its payload is not one for it, and only then.  A listing of the
\* custom application may fail over a title that is not a string.
RequestsAreServed ==
  \A i \in DOMAIN calls :
    /\ OperationOf(i) = event.asks[i]
    /\ calls[i].step = "done" =>
         \/ calls[i].result = "error" <=> ~event.fits[i]
         \/ app = "custom" /\ event.asks[i] = "listBooks"

\* What a client sends, as text or as a value, a book's title is a string
\* (examples/sqs/app/providers/books.service.ts:6).  In the custom
\* application it is not: its handler saves the body as it is.
TitlesAreTexts == app # "custom" => \A b \in books : IsText(b.title)

\* When an object has been removed no book with its name is left that was
\* saved before the removal began, whatever other records create meanwhile.
RemovedTitlesAreGone ==
  [][\A i \in DOMAIN calls :
       calls[i].step = "listed" /\ calls'[i].step = "done" =>
         \A b \in books' : b.title = Argument(i) =>
           \E n \in (calls[i].since + 1)..saved : b.id = BookId(n)]_vars

\* The tuples of the calls that gave a response, in any order of their answers.
TuplesOf(answered) ==
  LET tuples == {[req |-> i, kind |-> calls[i].result] : i \in answered}
  IN  {ts \in [1..Cardinality(tuples) -> tuples] : \A t \in tuples : \E k \in DOMAIN ts : ts[k] = t}

Rejects(ts) == Refused(event) \/ ~Resolves(KindOf(event), ts)

\* An invocation is rejected only if its event is refused, and then nothing of
\* it was done, or if a request failed, whatever the order of the answers: no
\* handler of the applications leaves a response builder without the response
\* it needs.
OnlyErrorsReject ==
  LET answered == {i \in DOMAIN calls : calls[i].result # "void"}
  IN  event # NoEvent /\ IsDone =>
        \A ts \in TuplesOf(answered) :
          Rejects(ts) =>
            \/ Refused(event) /\ calls = <<>>
            \/ \E i \in DOMAIN calls : calls[i].result = "error"
=============================================================================
