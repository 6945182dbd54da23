# Formal model of nest-lambda-microservice

This directory holds a TLA+ development of the library in `src/`: what its parts do, what they
promise together, model-checking runs on small instances, and proofs for all instances.

## The system

`src/README.md` describes a client, a broker and a server in one Node.js process. Everything happens
on one event loop; what makes it hard is the order of its jobs, and state that is keyed by message
ids the library does not control.

| component | state | operations | talks to |
|---|---|---|---|
| **Broker** (`server/lambda-microservice.broker.ts`) | listeners of two events; one `ReplaySubject` per request | `listen`, `close`, `sendRequest`, the response listener | synchronous `emit` to client and server |
| **Client** (`client/lambda-microservice.client.ts`) | `requestMap` (payload to request), `routingMap` (id to callback), one promise and accumulator per `processEvent` | `processEvent`, `publish`, `assignPacketId`, response callback, teardown | broker; event mapper; Nest's `ClientProxy.send` |
| **Server** (`server/lambda-microservice.server.ts`) | registered handlers and their patterns; one running `handleMessage` and one `send` queue per request | `listen`, `close`, `addHandler`, `handleMessage`, `getHandlerByPattern`, `performPatternMatch` | broker; application handlers; Nest's `Server.send` |
| **Event mapper, request and response builders** (`lambda/`, `record-builders/`) | none | classify an event, one request per record, tuples to a Lambda response | called by the client |
| **Decorator** (`decorators/use-partial-pattern-match.ts`) | an option on each method of a controller | applied once per decorated class, while the application's classes are evaluated | read by the server's lookup |
| **Lambda handler** (`test/handler.ts`, `examples/*/service.ts`, `examples/*/index.ts`) | the lazily created microservice, a module variable of the process | create, listen, resolve the client, `processEvent` | Lambda and its event source; Nest |
| **Example applications** (`examples/*/app`) | the map of `BooksService` | create, list, get, delete, remove by title; the pipes before them | handlers of the server |

Hard behaviours: answers arrive after two asynchronous gaps (`connect()` before `publish`, the
deserializer before routing) and the server sends on the next tick; requests of a batch run
concurrently; ids can repeat (redelivery); error replies for unqualified messages do not end their
stream; errors can end up uncaught and take the process down; Lambda may end a process at any time,
and the queue then delivers its batch again.

What makes each part correct:

* broker: routed by id; a disposed packet is the end of its stream, for good;
* client and server together: a record's answers reach that record's tuple, all of them and in
  order; failures are reported exactly; an invocation settles once, after all its handlers are done,
  and eventually;
* pattern lookup: a handler qualifies exactly when its pattern matches the documented way;
* event mapping: one request per record, one verdict per event kind;
* decorator: it makes the handlers of its class partial, and nothing else but what they share;
* Lambda handler, behind a queue: no message is lost, none is repeated for nothing, each is handled
  in the end;
* example applications: an event reaches the method that is meant for it, and is refused for a
  reason only.

## Modules

| module | models |
|---|---|
| `Broker` | the broker's operations, each one atomic step (its `emit` is synchronous) |
| `OpenBroker`, `MCBroker` | the broker in an arbitrary environment, and its instance |
| `ResponseBuilders` | whether an invocation resolves, and the SQS records reported |
| `Client` | the client, over the broker's variables: `outbox` is the gap before `publish`, `inbox` the gap before routing |
| `Server` | the server, over the broker's variables: `work` is where each `handleMessage` is, `dataQueue` is `Server.send`'s queue |
| `Transport` | client, broker and server in one process: joint actions, crash on an uncaught error, fairness, properties |
| `EventProcessing` | the promise of `processEvent`: verdicts per record, one settlement per event |
| `Refinement` | the mapping under which `Transport` implements `EventProcessing` |
| `MCRedelivery`, `MCOverlap`, `MCDuplicate` | instances of `Transport` |
| `EventMapping` | the event mapper's predicates in their order, message attributes, embedded SNS messages, a pattern per record |
| `Invocation`, `MCInvocation` | one `processEvent` from the event to the response: refused or sent, answered in any order, responded to |
| `JsonValues` | what events and patterns are made of |
| `PatternMatching` | `performPatternMatch` and the routes, and independent definitions of equality and containment |
| `NestedValues` | the parts, depths and sort texts of the values of an instance |
| `HandlerLookup` | `addHandler` and `getHandlerByPattern` for any routes of patterns and of messages and any match |
| `MessageRouting`, `MCRouting` | the lookup with the routes and matches of `PatternMatching`, and its instances |
| `PartialPatternMatch`, `MCDecorator` | the decorator, over the evaluation of an application's classes in any order in which bases come first |
| `Deployment`, `MCDeployment` | an SQS queue, the process with its microservice, which may reject a batch, and Lambda, which invokes, times out, replaces and redelivers |
| `Books`, `MCBooks` | the six example applications over `EventMapping` and `HandlerLookup`: refusal, handlers, pipes, service, outcome; its instance adds `PatternMatching` |
| `BrokerProofs` | theorems about `OpenBroker` |
| `TransportProofs` | theorems about `Transport`: types, isolation, settlement, redelivery |
| `ReportProofs` | on top of `TransportProofs`: the order of responses, the reports, the refinement of `EventProcessing` |
| `RoutingProofs` | theorems about `HandlerLookup`, `PatternMatching` and `MessageRouting` |
| `InvocationProofs`, `DecoratorProofs`, `DeploymentProofs`, `BooksProofs` | theorems about the module each is named after |

`Client` and `Server` EXTEND `Broker`, so they share its variables; an action of theirs leaves the
broker's variables to `Transport`, which conjoins the two sides of a call. For example
`PublishRequest` is `Publish` (client) with `SendToConsumer` (broker) and `Receive` (server): in the
code one synchronous call of `sendRequest`.

A request object stands for itself, for the closure of its response listener and for its
`ReplaySubject`. A packet carries its id, its disposed flag, its kind (`value`, `void` for an
undefined response, `error`) and, in place of the payload, the request it was produced for
(`origin`) and the ordinal of the response (`n`). Definitions called a mutant in a comment are not
part of any specification: each is a plausible slip in the definition below it, kept to show that a
property notices it.

`Transport` takes the results of two pure computations as constants: which requests an event becomes
(`RequestsOf`, `SourceOf`, `IdOf`, `Unmappable`), and whether a handler is found (`RouteOf`).
`EventMapping` and `HandlerLookup` model what computes them, so that the interleavings are explored
for every result and the computations for every input, and not for their product.

`Deployment` takes one step back: what `processEvent` does with a batch is one step per answer
there, and `Undeleted` is what `ResponseBuilders` makes of the answers. A batch with a message of
`Poison`, one that the event mapper throws at, is rejected as a whole before any request of it is
published (`RejectBatch`), and returns to the queue. That this is what a batch
comes to is the refinement of `EventProcessing`. Its other half is the life of a process: the first
invocation creates the microservice and remembers it *before* it listens, so a failed start leaves a
microservice without a server; the next invocation publishes to nobody, which is an uncaught error,
and it takes that crash to start afresh.

`Books` goes the other way and composes most of what the other modules leave to constants. Each
application is its list of handlers (a pattern, the part of the payload it reads, its DTO), which go
through the lookup by `INSTANCE HandlerLookup`. An event whose mapping throws, or whose payload is
no object, is refused (`Refuse`) and nothing of it is done. `MCBooks` gives the module the routes
and matches of `PatternMatching`, as tables that TLC computes once (`Tabulated`), and the ids that
`v4` draws. A removal by title is two steps, as the code awaits
between listing the books and deleting them.

The event mapper reads an event as its sender, the keys it has, those of its values that are texts,
and its records. The model keeps the sender apart from the shape, so that `MappedBySender` can
compare the mapper's verdict with the truth. In `JsonValues` a value is a tagged record (`Str`,
`Num`, `Spelled`, `Arr`, `Obj`, `Null`, `Undefined`). A text is a sequence of words, none of which
begins another: most have one word, and `Spelled` is for a string that holds what JSON is written
with, such as `{"p":"x"}`.

A route is such a text too, written as Nest's `transformPatternToRoute` writes it: an object by its
keys in order (`SortedKeys`), strings in quotes but *not escaped* (`PartText`), numbers bare, an
array like an object. So a string pattern `{"p":"x"}` has the route of the object, as
`server.spec.ts` wants it, and an object with quotes in a text can have the route of another one. A
handler is registered under the route of its pattern (`Normalized`); of a message, the server first
tries `JSON.parse` (`FromJson`) and takes the route of the result (`Route`). These are two constants
of `HandlerLookup`, because only one of the two sides is parsed.

`performPatternMatch` recurses over values. In `PatternMatching` that is a recursive function
(`PatternMatch`) on all the values there are, `JsonValue`, over an operator that is one call of it
(`MatchCall`); so are the routes and the reference definitions. `Depth`, a constant, says how deep a
value is nested, and is what proofs induct over; `SortedBefore` is the order of `sort()`. Only
`NestedValues`, which computes these constants for TLC, has RECURSIVE operators. `HandlerLookup` and
`Books` receive `Normalized`, `Route` and `Match` as constants.

Because a string may be the JSON of a pattern or of a message, `NothingForeignQualifies` and the
statements on exactness speak of what a value can be read as (`Readings`): itself, or what it is the
JSON of.

The parts of Nest that decide the order of things are modelled from how the code uses them:
`ClientProxy.send` (publish after `connect()`, how a packet becomes next, complete or error),
`Server.send` (queue, next-tick drain, completion merged into the last queued packet) and the
exception filters (a handler's error is a failing observable unless the filter itself throws).

## Runs

| run | instance | shows |
|---|---|---|
| `broker` | 2 requests, 2 ids, 2 packets a stream | routing, disposal and finality for every order of sends and of arbitrary packets |
| `redelivery` | SQS batch of 2, then the same 2 ids again; 2 responses per handler | leftover listeners and late packets of the first batch do not touch the second; all safety properties, the refinement, and liveness |
| `overlap` | SQS batch of 2, API Gateway request, unmappable batch, empty event, at the same time; 1 response per handler | no crosstalk, and the refinement, under interleaving |
| `duplicate` (violated) | a batch with one id twice | the batch never settles |
| `invocation` | events of all senders (the unused streams too) in every shape, batches up to 3, 10 forms of attributes, look-alike custom events, a primitive | the right requests, with a pattern that does not depend on the delivery path; no answer or failure lost, whatever the order of answers |
| `poison_record` (violated) | an SQS batch with one unsupported attribute | the good record is not published either |
| `routing` | every list of 3 handlers, 8 patterns, 13 messages, of both some strings that are JSON | no foreign handler, catch-all last, registration order harmless |
| `short_array` (violated) | lists of one and two values | a full match accepts a shorter list |
| `object_array` (violated) | lists of one object | a partial match accepts any list |
| `decorator` | a base class and two that inherit, 4 methods with an overridden one, every choice of decorated classes and of options | partial where the decorator is, explicit options kept, no spread but by shared methods |
| `deployment` | 3 messages, one of them not mappable, in batches of any size, 2 microservices, up to 2 lost processes | no message lost, no repetition without a loss, one server, and under fairness every message handled that does not keep arriving with one that cannot be mapped |
| `books` | the six applications, each operation with good and bad payloads, events that are refused, up to 4 invocations | events reach their methods and fail only when they should, titles are strings, removals are complete, only a refusal or an error rejects |

**Bounds.** Two requests are enough for routing conflicts in the broker and the client, because they
arise between a pair; a batch of two has first, last and partial failure; two responses make order
and merging visible (merged into a queued one, sent alone after a drain), one keeps `overlap` small,
whose question is crosstalk; two invocations make leftovers meet a successor. The server may be
closed, and a handler may reject, at any time in each of them. Three SQS records make sorting and
repeated ids visible. Three handlers are a first match, a later match and a newcomer, which is all
that the lookup tells apart; patterns go two levels deep, because each level is matched by the same
function. The instances of the `routing` run leave out the inputs of findings 3 and 4 and null
patterns (see below): `MCRouting` assumes `PlainlyMeant` and `PlainTexts`, under which
`CatchAllIsLast` and `NothingForeignQualifies` are proved. Its strings that are JSON are a number,
the route of an object, and an object whose keys are in another order than the route has them.

In `deployment`, three messages are a batch that fails in part, and one that cannot be mapped, which
stays in the queue and may arrive with either of the others or with both.
`MaxLosses` bounds only the ends of a process that could have handled something, so starts may fail
without bound; two losses let a message be repeated, and repeated again. Two microservices would be
enough for two servers on one broker. In `decorator`, one base and two heirs have every way to share
a method: inherited, overridden, handed down to a decorated and to an undecorated class. In `books`,
three S3 batches of two suffice for two books of one title and a removal that races with a creation;
the fourth invocation comes after them.

Deadlock checking is off for every module but the broker's: when all events are settled, the
response is given, every class is evaluated, no message is left or the bound on handlers,
invocations or losses is reached, or after a crash or a close, the system stops.

**Fairness.** Weak fairness for each job of the event loop (publishing, callbacks, the drain loop, a
refused message, the crash): the loop runs every ready job. For an application handler: that it
settles, and that its observable ends. Nothing is assumed of Lambda's invocations, of `listen`, of
`close` or of how many values an observable emits.

In `Deployment`, strong fairness where something may fail again and again but not always: the event
source delivers each message time after time, and each message's handler succeeds. Weak fairness for
what the process runs (`CreateMicroservice`, `ListenSucceeds`, `RejectBatch`, `ProcessEvent`,
`Respond`, `Crash`). And `<>[][~StartFails]_vars`: from some time on no start fails or times out.
That is more than strong fairness of starting would say, and it is needed: if starts may fail for
ever, they may do so whenever a good message arrives alone, and succeed when it comes with one that
cannot be mapped. Nothing is assumed of timeouts after the start, of the replacement of idle
processes, nor of which messages arrive together, and therefore `EveryMessageIsHandled` exempts a
message that keeps arriving with one that cannot be mapped (finding 2). An application that never
starts (two handlers with one pattern, or a hook that always throws) is outside it.

**Abstractions.** The model lets jobs of different requests run in any order, a superset of the
event loop's FIFO order of microtasks. An uncaught error crashes the process at some later step;
other jobs may run before it. Serial invocations (`Overlapping = FALSE`) are what Lambda does;
overlapping ones are what other callers of the client may do.

## Findings

1. `duplicate`: two requests in flight under one id. `routingMap.set` (client, line 87) replaces the
   first callback; answers of both go to the second request and the first never completes.
2. `poison_record`: the request builder throws on an attribute type it does not know (line 46), and
   the whole SQS batch is rejected, where a failing handler would have failed one record.
3. `short_array`: the full match of arrays (server, line 181) iterates over the message and never
   compares lengths.
4. `object_array`: the partial match of arrays of objects (server, line 175) looks the handler's
   elements up in the handler's own array.

Met while modelling, and in the models as the code has them, but contradicted by no document:

* `ApiGatewayResponseBuilder.build` reads `tuple[1]` of an empty list when the handler returned
  `undefined`, so the invocation is rejected; the other single-request builders check for it. It is
  part of the promise in `EventProcessing`.
* A primitive payload cannot be a key of the `WeakMap` in the client (line 50): a Lambda invoked by
  hand with a string or a number is rejected before any handler is looked for.
* Null falls through every branch of `performPatternMatch`, so a partial pattern with a null
  parameter qualifies for nothing.
* The handler of the custom example saves the whole body as the title. Listing the books throws from
  then on when the body is not a string, and deleting by an object with an id deletes nothing.
* Routes are written without escaping, so texts with quotes can give two different objects one route.
  A handler is then called for a message of the other, or refused as a duplicate.
* The status code that the exception filter of the API Gateway example puts into its error never
  becomes a response: the builder throws the error's cause, and the invocation is rejected.

## Proofs

All theorems hold for every value of the constants their module declares, under the named ASSUMEs
there; none rests on a bound (`MaxPackets`, `MaxValues`, `MaxHandlers`, `MaxLosses`, `MaxEvents`).

`BrokerProofs`: `BrokerInv` is inductive for any sets of requests and ids. `StreamIsolation` alone
is not: giving a request its id could disagree with packets its stream already has
(`UnsentIsFresh`), and appending to a complete stream would break `DisposedEndsStream`
(`ListenersAreOpen`). From it follow the five properties of run `broker`.

`TransportProofs`: `TransportTypes` strengthens the type invariant to `TypeInv`: only a request that
was sent is served (`ServedIsSent`) and only a mapped one waits to be published (`OutboxIsMapped`),
else an answer or a publication could lack an id. `TransportIsolates` proves `NoCrosstalk` from
`IsolationInv`: both maps of the client, the id a request was sent under and every packet on its way
agree about the request. It assumes `DistinctRequests`, that no two requests share an id or a
payload. With shared ids the client does mix answers up when requests overlap (finding 1).

Settlement (in `TransportProofs`) needs no such assumption. `RoutingStaysLive` and
`SettlementIsFinal` follow from `CallsInv`: a route leads to an open observable of the id
(`RoutingIsLive`), whatever waits to be published belongs to an invocation that has not settled
(`OutboxIsQueued`), and the phases of a request follow that of its invocation (`CallsFollowPhase`).

Redelivery (in `TransportProofs`) replaces `DistinctRequests` by `RequestsDiffer`: the records of
one event have ids of their own, and what may *overlap* differs in id and payload. It is weaker, and
covers redelivery. The invariant `HandlingInv` adds to `CallsInv` that the two maps know each live
call (`MapsInv`), that a server's queue ends with its final packet (`QueuesInv`), that what waits in
the inbox is for an open call and nothing follows the final packet (`InboxInv`), and that the
handling of an ended call is over (`EndedInv`). None of them is inductive alone: a packet after the
final one would find its call ended, and then, under a reused id, the call of another request.
`NoCrosstalk`, `SettledMeansDone` and `OnlyUnqualifiedLeak` follow. `EmitOnce` is the heart of it:
of all the listeners under an id, left over ones included, exactly one belongs to an open call.

Order, the first part of `ReportProofs`, is `ResponsesKeepOrder`: `ResponsesInOrder` under
`RequestsDiffer`, for any number of responses. `OrderInv` says where the responses of a request are
(`InOrder`): the first `got` are its tuples, the next, up to `come`, wait in the inbox, and those
after `gone` in the server's queue, each stretch in order; what lies between `come` and `gone` was
emitted to a broker that is closed, and can only exist while nothing can end the call any more.
`FitsInv` tells the packets that carry a response from errors and merged completions. When the call
has ended regularly, all has been taken but a last response of `void`.

Reports, the second part, add what the answers amount to. A request is *out* when one of its packets
waits in the inbox or has become a tuple. `StreamingInv` relates what an observable has emitted to
what is queued and what is out; it is needed at the completion, which decides between "empty" and
"completed" by the queue; `AnsweredInv` carries that decision until the queue is drained,
`Concludes` through the inbox, and `TakenInv` to the tuples. From it follow `FailuresAreReported`
and the refinement, `TransportKeepsPromise`: an invocation is `Start`; the end of an observable or a
refusal is `Decide`; the callback that ends the last call is `Settle`; a crash is `Stop`; all else
stutters.

`DeploymentProofs`: `DeploymentInv` holds for any messages and without the bound on losses. The
property `RepeatsNeedLosses` allows one more handling than losses; the invariant (`CountInv`) says
for whom the one more is not yet used up (what is queued, unanswered or failed), and that what was
answered without failing was handled, from which `DeletedMeansHandled` follows when the response is
given. `EnvironmentInv` (one microservice is made per process) gives `OneServerListens` and makes
one answer one handling.

`DecoratorProofs`: `DecoratorInv` states in closed form what is written on a method when some
classes are evaluated: its own option, or partial if a decorated class that has it is among them.
That the order of evaluation does not matter, and the three properties, follow; the induction step
needs that a class comes after its bases.

`RoutingProofs` has two layers. The first is the lookup, for any notion of route and of match:
`FirstRegisteredWins`. The lookup takes the least index that matches; that there is one
(`FirstIsLeast`) comes from the well-foundedness of the naturals, and that appending a handler keeps
it from `FirstStays`. `QualifiedComeFirst` says which handler it is: the one with the message's
route, else the first that matches, else the catch-all, else none.

The second layer is the match, for any patterns and messages nested to any depth. Its foundations:

* `RankInduction`: what holds of a value when it holds of all values nested less deep holds of all;
* `RecursiveFunction` (and `RoutesExistBelow`, where the results are in no set known beforehand):
  a function that depends on values nested less deep exists. So `PatternMatch`, `RouteOfPattern`,
  `Leaves`, `Same` and `Contained` are what their definitions say (`PatternMatchAnswers`,
  `RouteAnswers`, `LeavesAnswer`, `ReferencesAnswer`), which is no matter of course: TLA+ takes a
  recursive function by CHOOSE;
* `SortingIsAnOrder` and `OneSorting`: the stable sort exists and there is one.

From these follow, each by induction over the depth of the handler's pattern:

* `NothingForeign` (`NothingForeignQualifies`): a full match has no leaf in the message that is not
  in the pattern (`FullMatchAgrees`), because as many keys, each with a partner, are the same keys; a
  partial match finds what the pattern states plainly (`PartialMatchAgrees`); and equal routes mean
  equal leaves of what the two sides can be read as (`RoutesAreLeaves`, `RoutesRead`). What is said
  of arrays is weak, as findings 3 and 4 demand. Its hypothesis is `PlainTexts`, on the texts of
  routes: the route of an object tells the texts of its properties (`RoutesTell`), and such a text
  what it was written for (`TextsTell`); a string that is a route parses to something with that
  route (`ParsingUndoes`); no number is written like an object; and what a message parses to is an
  object, a number, or the string itself (not `true` or `null`). It holds where no text and no
  key contains quotes, braces, colons or commas, but for strings that are JSON as a whole. Without it the theorem
  is false of the code: `{a: 'x","b":"y'}` and `{a: 'x', b: 'y'}` share a route;
* `NoneMeantIsMissed` (`CatchAllIsLast`): what is meant is matched (`SameMatches`,
  `ContainedMatches`). It has the hypothesis `PlainlyMeant`, and each part of it is needed. A partial
  pattern with a null matches nothing. A message `'*'` goes to the catch-all and means it. And a full
  match of arrays sorts by *text*, so that arrays which are the same up to the order of their
  primitives match only if sorting goes by what is meant: `[1, '1']` and `['1', 1]` are sorted
  stably, to different lists, and two arrays in an array may change places when one of them is
  permuted. `SameSorted` is the proof for the others: the permutation that relates two arrays,
  after the sorting of the one, is a sorting of the other, and there is only one;
* `ExactWithoutArrays`: the statements of the README on full and on partial matches, which findings 3
  and 4 refute, hold where no value is an array (`MatchesAreExact`, `RoutesAreExact`), under
  `PlainTexts` and for what a value can be read as. So arrays and unescaped texts are all that is
  wrong with them.

Besides the constants' types the assumptions are that values are finite trees (`ValueAssumption`),
that `sort()` compares by an order of texts (`OrderAssumption`) and `localeCompare` orders the keys
of an object (`KeyAssumption`), that the text of an object is no JSON (`JsonAssumption`; that of an
array may be, `[1]` reads as 1), that patterns are strings, numbers or objects, as their type says,
and that nothing else has the route of `'*'` (`CatchAllIsAlone`). A step
away from an array's index is written `"[]"` in a leaf, whatever has that key, so `{0: x}` is not told
from `[x]`; they have the same route in the code.

`InvocationProofs`: `InvocationInv` follows one event from the mapper to the response, for batches
of any size and any order of answers. `StagesInv` ties the requests to the event and to the
outcomes, `TuplesInv` has each answer with a response in exactly one tuple of its kind, and
`ResponseInv` says that the response is what the builder makes of the tuples. `SendersAreRecognised`
says that of the predicates only the sender's holds, and that what is sent is one request for each
record, as the sender's builder makes it (`BuiltFor`), whatever has become of the event since.
`DeliveryPathDoesNotMatter` is about patterns only: a message through SNS and one through SQS find
the same handlers, which are given different payloads, the SNS message or the SQS record.
`NothingIsLostInInvocation` counts: the tuples of a kind are in bijection with the requests of that
outcome. `FailedRecordsAreReported` needs in addition that the ids can be sorted: `SortedIds`
chooses an ordered enumeration of the failed positions, and `SortingExists` proves that there is
one: each position at the place one after the number of those before it. The assumptions are those
of the module: what the services of AWS send, as far as the predicates can see it
(`SenderAssumption`), and that records are a list (`RecordsAssumption`).

`BooksProofs`: `BooksInv` holds for any events of the applications' services and any notion of route
and match. A handler that the lookup returns is one of the application's own (`HandlerIsOfTheApp`),
and each of these, but for the custom one, is one operation; one that creates books has a validated
title or the key of an S3 object (`HandlersAreMethods`). From this follow `TitlesStayTexts` and
`ApplicationsRespond`: a rejected invocation was refused, with nothing done, or one of its requests
failed. `RemovalsAreComplete` needs `ListedInv`: a book with the title that a removal
has not listed came after the listing, so interleaved creations are told apart by the ids drawn
since. `BooksTypes` says in addition that ids tell books apart, if no two of the ids that `v4` draws
are the same (`UuidsDiffer`); the others do not need that.

Only model-checked:

* liveness (`InvocationsSettle`, `EveryMessageIsHandled`), which the prover cannot treat;
* `RequestsAreServed`: what operation an event asks for, and whether its payload fits, are labels on
  each event of the instance. For any events at all there would be nothing to say it but the lookup
  and the pipes themselves.

## Not modelled, and the plan

Every part of the system in the table above has its module. What could still be added:

1. `Deployment` on top of `EventProcessing` itself, with redelivered messages as new requests.
2. The lookup of `Books` as an instance of `RoutingProofs`, with the operation an event asks for
   defined by the containment of patterns, which would move half of `RequestsAreServed` to the
   theorems.

Left out: logging; the wording of errors and the bodies of error responses; what a listing of the
examples returns (whether it throws is modelled); Nest's dependency injection; `LambdaContext`,
which hands its arguments through; `connect` and `close` of the client, which set a flag that only
`unwrap` reads; build and lint configuration; what values inherit (no key of a value is taken to be
`length`). Outside the runs: texts with quotes and the other marks of JSON that are not JSON as a
whole, whose routes the code confuses; messages that are `true`, `false` or `null`, or the JSON of
one; arrays that mix a number and a string of one text, and arrays in arrays; events with empty
`Records`, which the first predicate over records (S3) claims and Lambda does not send; applications
that can never start.
