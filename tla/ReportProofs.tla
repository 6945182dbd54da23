---------------------------- MODULE ReportProofs ----------------------------
(***************************************************************************)
(* What Lambda is told agrees with what the handlers did, redelivered      *)
(* messages included: the tuples of a request are its responses, in order; *)
(* an SQS batch reports the records that failed and no other; any other    *)
(* event is rejected exactly when something failed (or there is nothing to *)
(* return); and all of it keeps the promise of EventProcessing.            *)
(***************************************************************************)
EXTENDS TransportProofs, Refinement

-----------------------------------------------------------------------------
(***************************************************************************)
(* Order: responses reach the tuples as they were emitted, for any number  *)
(* of responses.                                                           *)
(***************************************************************************)
\* Where the responses of r are among packets or tuples: those numbered 0 have
\* none.
Carrying(s, r) == {k \in 1..Len(s) : s[k].origin = r /\ s[k].n # 0}

\* The responses of r in s are those of made after the first lo, up to hi, in
\* their order.
Numbered(s, r, lo, hi, made) ==
  /\ \A k \in Carrying(s, r) : s[k].n \in (lo + 1)..hi /\ s[k].kind = made[s[k].n]
  /\ \A n \in (lo + 1)..hi : \E k \in Carrying(s, r) : s[k].n = n
  /\ \A j, k \in Carrying(s, r) : j < k => s[j].n < s[k].n

\* No responses are none.
LEMMA NumberedNone ==
  ASSUME NEW s, NEW r, NEW lo \in Nat, NEW hi \in Nat, NEW made, lo <= hi,
         Numbered(s, r, lo, hi, made), Carrying(s, r) = {}
  PROVE  lo = hi
<1>1. (lo + 1)..hi = {}
  BY DEF Numbered
<1> QED BY <1>1

\* Another element than a response of r changes nothing; a response of r is
\* the next one.
LEMMA NumberedAppend ==
  ASSUME NEW S, NEW s \in Seq(S), NEW x \in S, NEW r, NEW lo \in Nat, NEW hi \in Nat, NEW made,
         Numbered(s, r, lo, hi, made), lo <= hi
  PROVE  /\ x.origin # r \/ x.n = 0 => Numbered(Append(s, x), r, lo, hi, made)
         /\ x.origin = r /\ x.n = hi + 1 /\ x.kind = made[hi + 1] =>
              Numbered(Append(s, x), r, lo, hi + 1, made)
<1> DEFINE t == Append(s, x)
           m == Len(s)
<1>1. m \in Nat /\ Len(t) = m + 1 /\ t[m + 1] = x /\ \A k \in 1..m : t[k] = s[k]
  OBVIOUS
<1>2. \A k : k \in 1..Len(t) <=> k \in 1..m \/ k = m + 1
  BY <1>1
<1>3. \A k : k \in Carrying(s, r) => k \in 1..m /\ k < m + 1 /\ t[k] = s[k]
  BY <1>1 DEF Carrying
<1> HIDE DEF t, m
<1>4. \A k : k \in Carrying(t, r) <=>
              k \in Carrying(s, r) \/ (k = m + 1 /\ x.origin = r /\ x.n # 0)
  BY <1>1, <1>2 DEF Carrying, m
<1>5. ASSUME x.origin # r \/ x.n = 0 PROVE Numbered(t, r, lo, hi, made)
  <2>1. Carrying(t, r) = Carrying(s, r)
    BY <1>4, <1>5
  <2> QED BY <1>3, <2>1 DEF Numbered
<1>6. ASSUME x.origin = r, x.n = hi + 1, x.kind = made[hi + 1]
      PROVE  Numbered(t, r, lo, hi + 1, made)
  <2>1. \A k : k \in Carrying(t, r) <=> k \in Carrying(s, r) \/ k = m + 1
    BY <1>4, <1>6
  <2>2. \A k \in Carrying(s, r) : s[k].n \in (lo + 1)..hi /\ s[k].kind = made[s[k].n] /\ t[k] = s[k]
    BY <1>3 DEF Numbered
  <2>3. \A k \in Carrying(t, r) : t[k].n \in (lo + 1)..(hi + 1) /\ t[k].kind = made[t[k].n]
    <3>1. \A n \in (lo + 1)..hi : n \in (lo + 1)..(hi + 1)
      OBVIOUS
    <3>2. hi + 1 \in (lo + 1)..(hi + 1)
      OBVIOUS
    <3> QED BY <1>1, <1>6, <2>1, <2>2, <3>1, <3>2
  <2>4. \A n \in (lo + 1)..(hi + 1) : \E k \in Carrying(t, r) : t[k].n = n
    <3> SUFFICES ASSUME NEW n \in (lo + 1)..(hi + 1) PROVE \E k \in Carrying(t, r) : t[k].n = n
      OBVIOUS
    <3>1. CASE n = hi + 1
      BY <1>1, <1>6, <2>1, <3>1
    <3>2. CASE n # hi + 1
      <4>1. n \in (lo + 1)..hi
        BY <3>2
      <4> QED BY <2>1, <2>2, <4>1 DEF Numbered
    <3> QED BY <3>1, <3>2
  <2>5. \A j, k \in Carrying(t, r) : j < k => t[j].n < t[k].n
    <3> SUFFICES ASSUME NEW j \in Carrying(t, r), NEW k \in Carrying(t, r), j < k
                 PROVE  t[j].n < t[k].n
      OBVIOUS
    <3>1. j \in Carrying(s, r)
      <4>1. j # m + 1
        BY <1>1, <1>3, <2>1
      <4> QED BY <2>1, <4>1
    <3>2. CASE k \in Carrying(s, r)
      BY <2>2, <3>1, <3>2 DEF Numbered
    <3>3. CASE k = m + 1
      <4>1. t[k].n = hi + 1 /\ t[j].n = s[j].n /\ s[j].n \in (lo + 1)..hi
        BY <1>1, <1>6, <2>2, <3>1, <3>3
      <4> QED BY <4>1
    <3> QED BY <2>1, <3>2, <3>3
  <2> QED BY <2>3, <2>4, <2>5 DEF Numbered
<1> QED BY <1>5, <1>6 DEF t

\* So it is when an element is taken from the front.
LEMMA NumberedTail ==
  ASSUME NEW S, NEW s \in Seq(S), s # <<>>, NEW r, NEW lo \in Nat, NEW hi \in Nat, NEW made,
         Numbered(s, r, lo, hi, made)
  PROVE  /\ s[1].origin # r \/ s[1].n = 0 => Numbered(Tail(s), r, lo, hi, made)
         /\ s[1].origin = r /\ s[1].n # 0 =>
              /\ s[1].n = lo + 1 /\ lo < hi /\ s[1].kind = made[lo + 1]
              /\ Numbered(Tail(s), r, lo + 1, hi, made)
<1> DEFINE t == Tail(s)
           m == Len(s)
<1>1. m \in Nat /\ m >= 1 /\ Len(t) = m - 1
  BY EmptySeq, HeadTailProperties
<1>2. \A k \in 1..(m - 1) : t[k] = s[k + 1]
  BY <1>1, HeadTailProperties
<1>3. \A k \in Nat : k \in 1..Len(t) <=> k + 1 \in 1..m /\ k # 0
  <2> HIDE DEF t, m
  <2> QED BY <1>1
<1>4. \A k \in Nat : k # 0 => (k \in Carrying(t, r) <=> k + 1 \in Carrying(s, r))
  <2> HIDE DEF t
  <2> QED BY <1>1, <1>2, <1>3 DEF Carrying
<1>5. /\ \A k \in Carrying(t, r) : k \in Nat /\ k # 0 /\ k + 1 \in Carrying(s, r) /\ t[k] = s[k + 1]
      /\ \A k \in Carrying(s, r) : k \in Nat /\ k >= 1
      /\ \A k \in Carrying(s, r) : k # 1 => k - 1 \in Carrying(t, r) /\ t[k - 1] = s[k] /\ k > 1
      /\ 1 \in Carrying(s, r) <=> s[1].origin = r /\ s[1].n # 0
  <2>1. \A k \in Carrying(t, r) : k \in 1..(m - 1)
    BY <1>1 DEF Carrying
  <2>2. \A k \in Carrying(s, r) : k \in 1..m
    BY DEF Carrying
  <2>3. ASSUME NEW k \in Carrying(t, r)
        PROVE  k \in Nat /\ k # 0 /\ k + 1 \in Carrying(s, r) /\ t[k] = s[k + 1]
    <3> HIDE DEF t, m
    <3>1. k \in 1..(m - 1) /\ k \in Nat /\ k # 0
      BY <1>1, <2>1
    <3> QED BY <1>2, <1>4, <3>1
  <2>4. \A k \in Carrying(s, r) : k \in Nat /\ k >= 1
    <3> HIDE DEF t, m
    <3> QED BY <1>1, <2>2
  <2>5. ASSUME NEW k \in Carrying(s, r), k # 1
        PROVE  k - 1 \in Carrying(t, r) /\ t[k - 1] = s[k] /\ k > 1
    <3> HIDE DEF t, m
    <3>1. k - 1 \in Nat /\ k - 1 # 0 /\ (k - 1) + 1 = k /\ k > 1 /\ k - 1 \in 1..(m - 1)
      BY <1>1, <2>2, <2>5
    <3>2. k - 1 \in Carrying(t, r)
      BY <1>4, <3>1
    <3> QED BY <1>2, <3>1, <3>2
  <2>6. 1 \in Carrying(s, r) <=> s[1].origin = r /\ s[1].n # 0
    BY <1>1 DEF Carrying
  <2> QED BY <2>3, <2>4, <2>5, <2>6
<1> HIDE DEF t, m
<1>6. ASSUME s[1].origin # r \/ s[1].n = 0 PROVE Numbered(t, r, lo, hi, made)
  <2>1. \A k \in Carrying(s, r) : k # 1
    BY <1>5, <1>6
  <2>2. ASSUME NEW n \in (lo + 1)..hi PROVE \E k \in Carrying(t, r) : t[k].n = n
    <3>1. PICK k \in Carrying(s, r) : s[k].n = n
      BY DEF Numbered
    <3>2. k - 1 \in Carrying(t, r) /\ t[k - 1] = s[k]
      BY <1>5, <2>1
    <3> QED BY <3>1, <3>2
  <2>3. \A k \in Carrying(t, r) : t[k].n \in (lo + 1)..hi /\ t[k].kind = made[t[k].n]
    BY <1>5 DEF Numbered
  <2>4. ASSUME NEW j \in Carrying(t, r), NEW k \in Carrying(t, r), j < k
        PROVE  t[j].n < t[k].n
    <3>1. /\ j \in Nat /\ j + 1 \in Carrying(s, r) /\ t[j] = s[j + 1]
          /\ k \in Nat /\ k + 1 \in Carrying(s, r) /\ t[k] = s[k + 1]
      BY <1>5
    <3>2. j + 1 < k + 1
      BY <3>1, <2>4
    <3>3. s[j + 1].n < s[k + 1].n
      BY <3>1, <3>2 DEF Numbered
    <3> QED BY <3>1, <3>3
  <2> QED BY <2>2, <2>3, <2>4 DEF Numbered
<1>7. ASSUME s[1].origin = r, s[1].n # 0
      PROVE  /\ s[1].n = lo + 1 /\ lo < hi /\ s[1].kind = made[lo + 1]
             /\ Numbered(t, r, lo + 1, hi, made)
  <2>1. 1 \in Carrying(s, r)
    BY <1>5, <1>7
  <2>2. s[1].n \in (lo + 1)..hi /\ s[1].kind = made[s[1].n]
    BY <2>1 DEF Numbered
  <2>3. \A k \in Carrying(s, r) : k # 1 => s[1].n < s[k].n
    BY <1>5, <2>1 DEF Numbered
  <2>4. s[1].n = lo + 1
    <3>1. lo + 1 \in (lo + 1)..hi
      BY <2>2
    <3>2. PICK k \in Carrying(s, r) : s[k].n = lo + 1
      BY <3>1 DEF Numbered
    <3> QED BY <2>2, <2>3, <3>2
  <2>5. ASSUME NEW k \in Carrying(t, r)
        PROVE  t[k].n \in (lo + 1 + 1)..hi /\ t[k].kind = made[t[k].n]
    <3>1. k + 1 \in Carrying(s, r) /\ k + 1 # 1 /\ t[k] = s[k + 1]
      BY <1>5
    <3>2. s[k + 1].n \in (lo + 1)..hi /\ s[k + 1].kind = made[s[k + 1].n] /\ lo + 1 < s[k + 1].n
      BY <2>3, <2>4, <3>1 DEF Numbered
    <3> QED BY <3>1, <3>2
  <2>6. ASSUME NEW n \in (lo + 1 + 1)..hi
        PROVE  \E k \in Carrying(t, r) : t[k].n = n
    <3>1. n \in (lo + 1)..hi /\ n # lo + 1
      OBVIOUS
    <3>2. PICK k \in Carrying(s, r) : s[k].n = n
      BY <3>1 DEF Numbered
    <3>3. k # 1
      BY <2>4, <3>1, <3>2
    <3> QED BY <1>5, <3>2, <3>3
  <2>7. ASSUME NEW j \in Carrying(t, r), NEW k \in Carrying(t, r), j < k
        PROVE  t[j].n < t[k].n
    <3>1. /\ j \in Nat /\ j + 1 \in Carrying(s, r) /\ t[j] = s[j + 1]
          /\ k \in Nat /\ k + 1 \in Carrying(s, r) /\ t[k] = s[k + 1]
      BY <1>5
    <3>2. j + 1 < k + 1
      BY <3>1, <2>7
    <3>3. s[j + 1].n < s[k + 1].n
      BY <3>1, <3>2 DEF Numbered
    <3> QED BY <3>1, <3>3
  <2> QED BY <2>2, <2>4, <2>5, <2>6, <2>7 DEF Numbered
<1> QED BY <1>6, <1>7 DEF t

\* What is emitted later does not change what was numbered before.
LEMMA NumberedMore ==
  ASSUME NEW s, NEW r, NEW lo \in Nat, NEW hi \in Nat, NEW S, NEW made \in Seq(S), NEW x,
         hi <= Len(made), Numbered(s, r, lo, hi, made)
  PROVE  Numbered(s, r, lo, hi, Append(made, x))
<1>1. \A n \in (lo + 1)..hi : n \in 1..Len(made)
  OBVIOUS
<1>2. \A n \in 1..Len(made) : Append(made, x)[n] = made[n]
  OBVIOUS
<1> QED BY <1>1, <1>2 DEF Numbered

\* Nothing else of a packet matters to its number.
LEMMA NumberedSame ==
  ASSUME NEW s, NEW t, NEW r, NEW lo, NEW hi, NEW made, Len(t) = Len(s),
         \A k \in 1..Len(s) : t[k].origin = s[k].origin /\ t[k].n = s[k].n /\ t[k].kind = s[k].kind,
         Numbered(s, r, lo, hi, made)
  PROVE  Numbered(t, r, lo, hi, made)
<1>1. Carrying(t, r) = Carrying(s, r)
  BY DEF Carrying
<1>2. \A k \in Carrying(s, r) : t[k].n = s[k].n /\ t[k].kind = s[k].kind
  BY DEF Carrying
<1> HIDE DEF Carrying
<1>3. \A k \in Carrying(t, r) : t[k].n \in (lo + 1)..hi /\ t[k].kind = made[t[k].n]
  BY <1>1, <1>2 DEF Numbered
<1>4. \A n \in (lo + 1)..hi : \E k \in Carrying(t, r) : t[k].n = n
  BY <1>1, <1>2 DEF Numbered
<1>5. \A j, k \in Carrying(t, r) : j < k => t[j].n < t[k].n
  BY <1>1, <1>2 DEF Numbered
<1> QED BY <1>3, <1>4, <1>5 DEF Numbered

-----------------------------------------------------------------------------
FailedOnes == {r \in Request : work[r] \in {"errored", "unqualified"}}

\* A packet without a number is the error of a failed request, or an end that
\* was merged with no response; no other packet is an error.
Fits(p, failed) ==
  /\ p.n # 0 => p.kind # "error"
  /\ p.n = 0 => (p.kind = "error" /\ p.origin \in failed) \/ (p.kind = "void" /\ p.disposed)

FitsInv ==
  /\ \A k \in 1..Len(inbox) : Fits(inbox[k], FailedOnes)
  /\ \A r \in Request : \A i \in 1..Len(dataQueue[r]) : Fits(dataQueue[r][i], FailedOnes)
  /\ \A e \in Event : \A i \in 1..Len(tuples[e]) : tuples[e][i].n = 0 <=> tuples[e][i].kind = "error"

\* The last packet of r has reached the client.
Ending(r) == \E k \in 1..Len(inbox) : inbox[k].origin = r /\ Final(inbox[k])

\* The responses after got are in the inbox up to come, and in the queue after
\* gone; what is between was emitted to a closed broker.
OnTheWay(r, got, come, gone) ==
  /\ Numbered(inbox, r, got, come, produced[r])
  /\ Numbered(dataQueue[r], r, gone, Len(produced[r]), produced[r])
  /\ call[r] # "open" \/ r \in listeners \/ Ending(r) => come = gone

InOrder(e, r) ==
  LET last == Len(produced[r])
  IN  \E got \in 0..last :
        /\ Numbered(tuples[e], r, 0, got, produced[r])
        /\ call[r] # "ended" =>
             \E come \in got..last : \E gone \in come..last : OnTheWay(r, got, come, gone)
        /\ call[r] = "ended" /\ work[r] \in {"completed", "empty"} =>
             got = last \/ (got + 1 = last /\ produced[r][last] = "void")

OrderInv == HandlingInv /\ FitsInv /\ \A e \in Event : \A r \in Members(e) : InOrder(e, r)

\* The initial state: nothing is emitted.
LEMMA InitOrder == Init => OrderInv
<1> SUFFICES ASSUME Init PROVE OrderInv
  OBVIOUS
<1>1. HandlingInv
  BY InitHandling
<1>2. /\ inbox = <<>> /\ \A e \in Event : tuples[e] = <<>>
      /\ \A r \in Request : produced[r] = <<>> /\ dataQueue[r] = <<>> /\ call[r] = "unsent"
  BY DEF Init, ClientInit, ServerInit
<1>3. FitsInv
  BY <1>2 DEF FitsInv
<1>4. \A r, made : Numbered(<<>>, r, 0, 0, made)
  BY DEF Numbered, Carrying
<1>5. ASSUME NEW e \in Event, NEW r \in Members(e) PROVE InOrder(e, r)
  <2>1. r \in Request
    BY MembersAreRequests
  <2>2. Len(produced[r]) = 0 /\ 0 \in 0..Len(produced[r])
    BY <1>2, <2>1
  <2>3. OnTheWay(r, 0, 0, 0)
    BY <1>2, <1>4, <2>1, <2>2 DEF OnTheWay
  <2> QED BY <1>2, <1>4, <2>1, <2>2, <2>3 DEF InOrder
<1> QED BY <1>1, <1>3, <1>5 DEF OrderInv

\* A request whose responses stay where they are, or whose callback takes one
\* of another, stays in order.
LEMMA StaysInOrder ==
  ASSUME NEW e \in Event, NEW r \in Members(e), InOrder(e, r),
         produced'[r] = produced[r], dataQueue'[r] = dataQueue[r],
         produced[r] \in Seq({"value", "void"}),
         \A hi \in Nat : Numbered(tuples[e], r, 0, hi, produced[r]) =>
                         Numbered(tuples'[e], r, 0, hi, produced[r]),
         \A lo, hi \in Nat : lo <= hi /\ Numbered(inbox, r, lo, hi, produced[r]) =>
                             Numbered(inbox', r, lo, hi, produced[r]),
         call'[r] = "ended" <=> call[r] = "ended",
         call'[r] = "ended" /\ work'[r] \in {"completed", "empty"} => work'[r] = work[r],
         call'[r] # "open" \/ r \in listeners' \/ Ending(r)' =>
           call[r] # "open" \/ r \in listeners \/ Ending(r)
  PROVE  InOrder(e, r)'
<1> DEFINE last == Len(produced[r])
<1>1. last \in Nat /\ Len(produced'[r]) = last
  OBVIOUS
<1>2. PICK got \in 0..last :
        /\ Numbered(tuples[e], r, 0, got, produced[r])
        /\ call[r] # "ended" =>
             \E come \in got..last : \E gone \in come..last : OnTheWay(r, got, come, gone)
        /\ call[r] = "ended" /\ work[r] \in {"completed", "empty"} =>
             got = last \/ (got + 1 = last /\ produced[r][last] = "void")
  BY DEF InOrder
<1>3. got \in Nat /\ Numbered(tuples'[e], r, 0, got, produced'[r])
  BY <1>1, <1>2
<1>4. ASSUME call'[r] # "ended"
      PROVE  \E come \in got..last : \E gone \in come..last : OnTheWay(r, got, come, gone)'
  <2>1. PICK come \in got..last : \E gone \in come..last : OnTheWay(r, got, come, gone)
    BY <1>2, <1>4
  <2>2. PICK gone \in come..last : OnTheWay(r, got, come, gone)
    BY <2>1
  <2>3. come \in Nat /\ got <= come
    BY <1>1, <1>3
  <2>4. OnTheWay(r, got, come, gone)'
    BY <1>1, <1>3, <2>2, <2>3 DEF OnTheWay
  <2> QED BY <2>4
<1> QED BY <1>1, <1>2, <1>3, <1>4 DEF InOrder

\* Steps that leave every packet and tuple where it is.
LEMMA QuietOrder ==
  ASSUME OrderInv, UNCHANGED <<inbox, tuples, produced, dataQueue>>,
         \A q \in Request :
           /\ call'[q] = "ended" <=> call[q] = "ended"
           /\ work'[q] \in {"completed", "empty"} => work'[q] = work[q]
           /\ work[q] \in {"errored", "unqualified"} => work'[q] = work[q]
           /\ call'[q] # "open" \/ q \in listeners' => call[q] # "open" \/ q \in listeners
  PROVE  FitsInv' /\ \A e \in Event : \A r \in Members(e) : InOrder(e, r)'
<1>1. FitsInv'
  <2>1. FailedOnes \subseteq FailedOnes'
    BY DEF FailedOnes
  <2> QED BY <2>1 DEF OrderInv, FitsInv, Fits
<1>2. ASSUME NEW e \in Event, NEW r \in Members(e) PROVE InOrder(e, r)'
  <2>1. r \in Request /\ InOrder(e, r)
    BY MembersAreRequests DEF OrderInv
  <2>2. produced[r] \in Seq({"value", "void"})
    BY <2>1 DEF OrderInv, HandlingInv, CallsInv, TypeInv, TransportTypeOK, ServerTypeOK
  <2>3. Ending(r)' <=> Ending(r)
    BY DEF Ending
  <2> QED BY <2>1, <2>2, <2>3, StaysInOrder
<1> QED BY <1>1, <1>2

\* They are the steps of Lambda, of the lifecycle, of publishing, and of the
\* handlers before they answer.
LEMMA OtherOrder ==
  ASSUME OrderInv,
         \/ \E e \in Event : Invoke(e)
         \/ \E r \in Request : \/ PublishRequest(r) \/ PublishToNobody(r)
                               \/ ServeRequest(r) \/ RejectRequest(r)
         \/ StartServer \/ CloseServer \/ Crash \/ UNCHANGED vars
  PROVE  FitsInv' /\ \A e \in Event : \A r \in Members(e) : InOrder(e, r)'
<1>0. /\ work \in [Request -> {"none", "received", "running", "streaming", "rejected"} \cup Answered]
      /\ call \in [Request -> {"unsent", "queued", "open", "ended"}]
  BY DEF OrderInv, HandlingInv, CallsInv, TypeInv, TransportTypeOK, ServerTypeOK, ClientTypeOK
<1>1. ASSUME NEW e \in Event, Invoke(e)
      PROVE  FitsInv' /\ \A f \in Event : \A r \in Members(f) : InOrder(f, r)'
  <2>1. UNCHANGED <<inbox, tuples, produced, dataQueue, work, listeners>>
    BY <1>1 DEF Invoke, RejectEvent, ProcessEvent, brokerVars, serverVars
  <2>2. \A q \in Request : call'[q] = call[q] \/ (call[q] = "unsent" /\ call'[q] = "queued")
    <3>1. CASE RejectEvent(e)
      BY <3>1 DEF RejectEvent
    <3>2. CASE ProcessEvent(e)
      <4>1. \A q \in Members(e) : call[q] = "unsent"
        BY <3>2 DEF ProcessEvent, OrderInv, HandlingInv, CallsInv, CallsFollowPhase
      <4> QED BY <3>2, <4>1 DEF ProcessEvent
    <3> QED BY <1>1, <3>1, <3>2 DEF Invoke
  <2> QED BY <2>1, <2>2, QuietOrder
<1>2. ASSUME NEW r \in Request, PublishRequest(r) \/ PublishToNobody(r)
      PROVE  FitsInv' /\ \A f \in Event : \A q \in Members(f) : InOrder(f, q)'
  <2>1. Publish(r)
    BY <1>2 DEF PublishRequest, PublishToNobody
  <2>2. call[r] = "queued" /\ work[r] = "none"
    <3>1. outbox \in Seq(Request) /\ outbox # <<>> /\ r = outbox[1]
      BY <2>1 DEF Publish, OrderInv, HandlingInv, CallsInv, TypeInv, TransportTypeOK, ClientTypeOK
    <3> QED BY <3>1 DEF OrderInv, HandlingInv, CallsInv, OutboxIsQueued, QueuesInv
  <2>3. /\ UNCHANGED <<inbox, tuples, produced, dataQueue>>
        /\ call' = [call EXCEPT ![r] = "open"]
        /\ work' \in {work, [work EXCEPT ![r] = "received"]}
        /\ listeners' \subseteq listeners \cup {r}
    BY <1>2, <2>1 DEF PublishRequest, PublishToNobody, Publish, SendToConsumer, SendToNobody,
       Receive, serverVars
  <2>4. \A q \in Request \ {r} : /\ call'[q] = call[q] /\ work'[q] = work[q]
                                 /\ q \in listeners' => q \in listeners
    <3>1. \A q \in Request \ {r} : call'[q] = call[q]
      BY <1>0, <2>3
    <3>2. \A q \in Request \ {r} : work'[q] = work[q]
      BY <1>0, <2>3
    <3> QED BY <2>3, <3>1, <3>2
  <2>5. call'[r] = "open" /\ work'[r] \in {"none", "received"}
    BY <1>0, <2>2, <2>3
  <2> QED BY <2>2, <2>3, <2>4, <2>5, QuietOrder
<1>3. ASSUME NEW r \in Request, ServeRequest(r) \/ RejectRequest(r)
      PROVE  FitsInv' /\ \A f \in Event : \A q \in Members(f) : InOrder(f, q)'
  <2>1. /\ work[r] \in {"received", "running"} /\ work'[r] \in {"running", "streaming", "rejected"}
        /\ \A q \in Request \ {r} : work'[q] = work[q]
        /\ UNCHANGED <<dataQueue, produced, listeners, tuples, call, inbox>>
    BY <1>0, <1>3 DEF ServeRequest, RejectRequest, CallHandler, SubscribeResponse, HandlerRejects,
       brokerVars, clientVars
  <2> QED BY <2>1, QuietOrder
<1>4. ASSUME StartServer \/ CloseServer \/ Crash \/ UNCHANGED vars
      PROVE  FitsInv' /\ \A f \in Event : \A q \in Members(f) : InOrder(f, q)'
  <2>1. /\ UNCHANGED <<inbox, tuples, produced, dataQueue, call, work>>
        /\ listeners' \subseteq listeners
    BY <1>4 DEF StartServer, CloseServer, Crash, Listen, Close, AddConsumer, CloseBroker,
       vars, brokerVars, clientVars, serverVars
  <2> QED BY <2>1, QuietOrder
<1> QED BY <1>1, <1>2, <1>3, <1>4

-----------------------------------------------------------------------------
\* When the final packet of a request has come, its handling is over.
LEMMA EndingIsOver ==
  ASSUME HandlingInv, NEW r \in Request, Ending(r)
  PROVE  Over(r)
  BY DEF Ending, HandlingInv, InboxInv, Awaited

\* finalize changes no number.
LEMMA DisposeFits ==
  ASSUME NEW r \in Request, sent[r] \in Id, NEW q \in Seq(Packet), NEW failed,
         \A i \in 1..Len(q) : Fits(q[i], failed)
  PROVE  /\ \A i \in 1..Len(Dispose(q, r)) : Fits(Dispose(q, r)[i], failed)
         /\ \A lo, hi \in Nat : \A made :
              lo <= hi /\ Numbered(q, r, lo, hi, made) => Numbered(Dispose(q, r), r, lo, hi, made)
<1>1. CASE q = <<>>
  <2> DEFINE a == Answer(r, "void", 0, TRUE)
  <2>1. /\ Dispose(q, r) = Append(q, a) /\ Dispose(q, r) = <<a>>
        /\ a \in Packet /\ a.n = 0 /\ a.kind = "void" /\ a.disposed
    BY <1>1 DEF Dispose, Answer, Packet, Kind
  <2>2. Fits(a, failed)
    BY <2>1 DEF Fits
  <2> HIDE DEF a
  <2>3. \A i \in 1..Len(Dispose(q, r)) : Fits(Dispose(q, r)[i], failed)
    BY <2>1, <2>2
  <2>4. ASSUME NEW lo \in Nat, NEW hi \in Nat, NEW made, lo <= hi, Numbered(q, r, lo, hi, made)
        PROVE  Numbered(Append(q, a), r, lo, hi, made)
    BY <2>1, <2>4, NumberedAppend
  <2> QED BY <2>1, <2>3, <2>4
<1>2. CASE q # <<>>
  <2> DEFINE z == [q[Len(q)] EXCEPT !.disposed = TRUE]
             d == Dispose(q, r)
  <2>1. Len(q) \in 1..Len(q) /\ q[Len(q)] \in Packet
    BY <1>2
  <2>2. /\ z.disposed /\ z.origin = q[Len(q)].origin /\ z.n = q[Len(q)].n
        /\ z.kind = q[Len(q)].kind
    BY <2>1 DEF Packet
  <2>3. d = [q EXCEPT ![Len(q)] = z]
    BY <1>2, <2>1 DEF Dispose
  <2> HIDE DEF z, d
  <2>4. /\ Len(d) = Len(q) /\ d[Len(q)] = z
        /\ \A i \in 1..Len(q) : i # Len(q) => d[i] = q[i]
    BY <2>1, <2>3
  <2>5. \A i \in 1..Len(q) : d[i].origin = q[i].origin /\ d[i].n = q[i].n /\ d[i].kind = q[i].kind
                             /\ (d[i].disposed \/ d[i] = q[i])
    BY <2>1, <2>2, <2>4
  <2>6. \A i \in 1..Len(d) : Fits(d[i], failed)
    BY <2>4, <2>5 DEF Fits
  <2>7. \A lo, hi \in Nat : \A made : Numbered(q, r, lo, hi, made) => Numbered(d, r, lo, hi, made)
    BY <2>4, <2>5, NumberedSame
  <2> QED BY <2>6, <2>7 DEF d
<1> QED BY <1>1, <1>2

\* The end of an observable, and each of its responses, join the queue.
LEMMA StreamOrder ==
  ASSUME OrderInv, NEW r \in Request, StreamValue(r) \/ EndStream(r)
  PROVE  FitsInv' /\ \A e \in Event : \A q \in Members(e) : InOrder(e, q)'
<1>0. /\ work \in [Request -> {"none", "received", "running", "streaming", "rejected"} \cup Answered]
      /\ dataQueue \in [Request -> Seq(Packet)]
      /\ produced \in [Request -> Seq({"value", "void"})]
  BY DEF OrderInv, HandlingInv, CallsInv, TypeInv, TransportTypeOK, ServerTypeOK
<1>1. /\ work[r] = "streaming"
      /\ UNCHANGED <<inbox, tuples, call, listeners, sent>>
      /\ \A q \in Request \ {r} : /\ work'[q] = work[q] /\ produced'[q] = produced[q]
                                  /\ dataQueue'[q] = dataQueue[q]
  BY <1>0 DEF StreamValue, EndStream, EmitValue, Complete, Fail, brokerVars, clientVars
<1>2. /\ ~Over(r) /\ call[r] = "open" /\ sent[r] \in Id /\ ~Ending(r)
      /\ FailedOnes \subseteq FailedOnes'
  <2>1. ~Over(r)
    BY <1>1 DEF Over, Answered
  <2>2. FailedOnes \subseteq FailedOnes'
    BY <1>1 DEF FailedOnes
  <2> QED BY <1>1, <2>1, <2>2, ServedIsOpen, EndingIsOver DEF OrderInv
<1>3. ASSUME NEW e \in Event, NEW q \in Members(e), q # r
      PROVE  InOrder(e, q)'
  <2>1. q \in Request /\ InOrder(e, q) /\ (Ending(q)' <=> Ending(q))
    BY <1>1, MembersAreRequests DEF OrderInv, Ending
  <2> QED BY <1>0, <1>1, <1>3, <2>1, StaysInOrder
<1> DEFINE s == dataQueue[r]
           made == produced[r]
           last == Len(made)
<1>4. /\ s \in Seq(Packet) /\ made \in Seq({"value", "void"}) /\ last \in Nat
      /\ \A i \in 1..Len(s) : s[i].origin = r /\ ~Final(s[i]) /\ Fits(s[i], FailedOnes)
  <2>1. \A i \in 1..Len(s) : s[i].origin = r /\ (Final(s[i]) => work[r] \in Answered)
    BY DEF OrderInv, HandlingInv, QueuesInv
  <2>2. \A i \in 1..Len(s) : Fits(s[i], FailedOnes)
    BY DEF OrderInv, FitsInv
  <2>3. work[r] \notin Answered
    BY <1>1 DEF Answered
  <2> QED BY <1>0, <2>1, <2>2, <2>3
<1>5. ASSUME \A i \in 1..Len(dataQueue'[r]) : Fits(dataQueue'[r][i], FailedOnes')
      PROVE  FitsInv'
  <2>1. \A p : Fits(p, FailedOnes) => Fits(p, FailedOnes')
    BY <1>2 DEF Fits
  <2>2. \A k \in 1..Len(inbox') : Fits(inbox'[k], FailedOnes')
    BY <1>1, <2>1 DEF OrderInv, FitsInv
  <2>3. \A q \in Request : \A i \in 1..Len(dataQueue'[q]) : Fits(dataQueue'[q][i], FailedOnes')
    BY <1>1, <1>5, <2>1 DEF OrderInv, FitsInv
  <2>4. \A e \in Event : \A i \in 1..Len(tuples'[e]) :
          tuples'[e][i].n = 0 <=> tuples'[e][i].kind = "error"
    BY <1>1 DEF OrderInv, FitsInv
  <2> QED BY <2>2, <2>3, <2>4 DEF FitsInv
<1>6. ASSUME NEW e \in Event, r \in Members(e), produced'[r] \in Seq({"value", "void"}),
             Len(produced'[r]) \in Nat, last <= Len(produced'[r]),
             \A t : \A hi \in Nat, lo \in Nat : hi <= last /\ Numbered(t, r, lo, hi, made) =>
                                            Numbered(t, r, lo, hi, produced'[r]),
             \A lo \in Nat : lo <= last /\ Numbered(s, r, lo, last, made) =>
               Numbered(dataQueue'[r], r, lo, Len(produced'[r]), produced'[r])
      PROVE  InOrder(e, r)'
  <2>1. PICK got \in 0..last :
          /\ Numbered(tuples[e], r, 0, got, made)
          /\ \E come \in got..last : \E gone \in come..last : OnTheWay(r, got, come, gone)
    BY <1>2, <1>6 DEF OrderInv, InOrder
  <2>2. PICK come \in got..last : \E gone \in come..last : OnTheWay(r, got, come, gone)
    BY <2>1
  <2>3. PICK gone \in come..last : OnTheWay(r, got, come, gone)
    BY <2>2
  <2> DEFINE more == Len(produced'[r])
  <2>4. /\ got \in 0..more /\ come \in got..more /\ gone \in come..more
        /\ got \in Nat /\ come \in Nat /\ gone \in Nat
        /\ got <= last /\ come <= last /\ gone <= last
    <3> HIDE DEF last, more
    <3> QED BY <1>4, <1>6, <2>1, <2>2, <2>3 DEF more
  <2>5. OnTheWay(r, got, come, gone)'
    BY <1>1, <1>6, <2>3, <2>4 DEF OnTheWay, Ending
  <2>6. Numbered(tuples'[e], r, 0, got, produced'[r]) /\ call'[r] # "ended"
    BY <1>1, <1>2, <1>6, <2>1, <2>4
  <2> HIDE DEF more
  <2> QED BY <2>4, <2>5, <2>6 DEF InOrder, more
<1>7. CASE StreamValue(r)
  <2>1. PICK k \in {"value", "void"} : EmitValue(r, k)
    BY <1>7 DEF StreamValue
  <2> DEFINE a == Answer(r, k, last + 1, FALSE)
  <2>2. /\ dataQueue'[r] = Append(s, a) /\ produced'[r] = Append(made, k)
        /\ a \in Packet /\ a.origin = r /\ a.n = last + 1 /\ a.kind = k
    BY <1>0, <1>2, <1>4, <2>1 DEF EmitValue, Answer, Packet, Kind
  <2>3. /\ produced'[r] \in Seq({"value", "void"}) /\ Len(produced'[r]) = last + 1
        /\ produced'[r][last + 1] = k
    BY <1>4, <2>2
  <2> HIDE DEF a, s, made, last
  <2>4. Fits(a, FailedOnes')
    <3>1. a.n # 0 /\ a.kind # "error"
      BY <1>4, <2>1, <2>2
    <3> QED BY <3>1 DEF Fits
  <2>5. \A i \in 1..Len(dataQueue'[r]) : Fits(dataQueue'[r][i], FailedOnes')
    <3>1. \A i \in 1..Len(Append(s, a)) :
            Append(s, a)[i] = a \/ (i \in 1..Len(s) /\ Append(s, a)[i] = s[i])
      BY <1>4, <2>2, AppendElements
    <3>2. \A i \in 1..Len(s) : Fits(s[i], FailedOnes')
      BY <1>2, <1>4 DEF Fits
    <3> QED BY <2>2, <2>4, <3>1, <3>2
  <2>6. ASSUME NEW t, NEW hi \in Nat, NEW lo \in Nat, hi <= last, Numbered(t, r, lo, hi, made)
        PROVE  Numbered(t, r, lo, hi, produced'[r])
    BY <1>4, <2>2, <2>6, NumberedMore DEF last
  <2>7. ASSUME NEW lo \in Nat, lo <= last, Numbered(s, r, lo, last, made)
        PROVE  Numbered(dataQueue'[r], r, lo, Len(produced'[r]), produced'[r])
    <3>1. Numbered(s, r, lo, last, produced'[r])
      BY <1>4, <2>6, <2>7
    <3> QED BY <1>4, <2>2, <2>3, <2>7, <3>1, NumberedAppend
  <2>8. FitsInv'
    BY <1>5, <2>5
  <2>9. ASSUME NEW e \in Event, r \in Members(e) PROVE InOrder(e, r)'
    BY <1>4, <1>6, <2>3, <2>6, <2>7, <2>9 DEF s, made, last
  <2> QED BY <1>3, <2>8, <2>9
<1>8. CASE EndStream(r)
  <2> DEFINE a == Answer(r, "error", 0, FALSE)
             d == dataQueue'[r]
  <2>1. a \in Packet /\ a.n = 0 /\ a.kind = "error" /\ a.origin = r /\ produced'[r] = made
    BY <1>0, <1>2, <1>8 DEF EndStream, Complete, Fail, Answer, Packet, Kind
  <2> HIDE DEF a, made, s, last
  <2>2. \/ d = Dispose(s, r)
        \/ d = Dispose(Append(s, a), r) /\ work'[r] = "errored"
    BY <1>0, <1>8 DEF EndStream, Complete, Fail, a, s
  <2>3. \A i \in 1..Len(s) : Fits(s[i], FailedOnes')
    BY <1>2, <1>4 DEF Fits
  <2>4. /\ \A i \in 1..Len(d) : Fits(d[i], FailedOnes')
        /\ \A lo, hi \in Nat : \A x :
             lo <= hi /\ Numbered(s, r, lo, hi, x) => Numbered(d, r, lo, hi, x)
    <3>1. CASE d = Dispose(s, r)
      <4>1. /\ \A i \in 1..Len(d) : Fits(d[i], FailedOnes')
            /\ \A lo, hi \in Nat : \A x :
                 lo <= hi /\ Numbered(s, r, lo, hi, x) => Numbered(d, r, lo, hi, x)
        BY <1>2, <1>4, <2>3, <3>1, DisposeFits
      <4> QED BY <4>1
    <3>2. CASE d = Dispose(Append(s, a), r) /\ work'[r] = "errored"
      <4> DEFINE t == Append(s, a)
      <4>1. Fits(a, FailedOnes')
        BY <2>1, <3>2 DEF Fits, FailedOnes
      <4>2. t \in Seq(Packet) /\ \A i \in 1..Len(t) : Fits(t[i], FailedOnes')
        <5>1. \A i \in 1..Len(t) : t[i] = a \/ (i \in 1..Len(s) /\ t[i] = s[i])
          BY <1>4, <2>1, AppendElements
        <5> QED BY <1>4, <2>1, <2>3, <4>1, <5>1
      <4>3. \A lo, hi \in Nat : \A x : lo <= hi /\ Numbered(s, r, lo, hi, x) => Numbered(t, r, lo, hi, x)
        BY <1>4, <2>1, NumberedAppend
      <4> HIDE DEF t
      <4>4. d = Dispose(t, r)
        BY <3>2 DEF t
      <4>5. /\ \A i \in 1..Len(d) : Fits(d[i], FailedOnes')
            /\ \A lo, hi \in Nat : \A x :
                 lo <= hi /\ Numbered(t, r, lo, hi, x) => Numbered(d, r, lo, hi, x)
        BY <1>2, <4>2, <4>4, DisposeFits
      <4> QED BY <4>3, <4>5
    <3> QED BY <2>2, <3>1, <3>2
  <2>5. ASSUME NEW e \in Event, r \in Members(e) PROVE InOrder(e, r)'
    BY <1>4, <1>6, <2>1, <2>4, <2>5 DEF s, made, last
  <2> QED BY <1>3, <1>5, <2>4, <2>5
<1> QED BY <1>7, <1>8

\* What an emission does to the inbox, and so to the other requests.
LEMMA EmitOrder ==
  ASSUME OrderInv, NEW r \in Request, NEW p \in Packet, p.origin = r, p.id = sent[r],
         call[r] = "open", Emit(p), produced' = produced, Fits(p, FailedOnes'),
         FailedOnes \subseteq FailedOnes',
         \A q \in Request \ {r} : work'[q] = work[q] /\ dataQueue'[q] = dataQueue[q]
  PROVE  /\ inbox' = IF r \in listeners THEN Append(inbox, p) ELSE inbox
         /\ \A k \in 1..Len(inbox') : Fits(inbox'[k], FailedOnes')
         /\ Ending(r)' => Ending(r) \/ r \in listeners
         /\ \A e \in Event : \A q \in Members(e) : q # r => InOrder(e, q)'
         /\ UNCHANGED <<tuples, call>> /\ listeners' \subseteq listeners
<1>1. /\ inbox' = IF r \in listeners THEN Append(inbox, p) ELSE inbox
      /\ listeners' \subseteq listeners
      /\ UNCHANGED <<tuples, call>>
  BY EmitOnce DEF OrderInv
<1>2. inbox \in Seq(Packet) /\ produced \in [Request -> Seq({"value", "void"})]
  BY DEF OrderInv, HandlingInv, CallsInv, TypeInv, TransportTypeOK, ClientTypeOK, ServerTypeOK
<1>3. \A k \in 1..Len(inbox) : Fits(inbox[k], FailedOnes')
  BY DEF OrderInv, FitsInv, Fits
<1>4. CASE r \notin listeners
  <2>1. inbox' = inbox
    BY <1>1, <1>4
  <2>2. \A q : Ending(q)' <=> Ending(q)
    BY <2>1 DEF Ending
  <2>3. ASSUME NEW e \in Event, NEW q \in Members(e), q # r PROVE InOrder(e, q)'
    <3>1. q \in Request /\ InOrder(e, q)
      BY MembersAreRequests DEF OrderInv
    <3>2. produced[q] \in Seq({"value", "void"})
      BY <1>2, <3>1
    <3> QED BY <1>1, <2>1, <2>2, <2>3, <3>1, <3>2, StaysInOrder
  <2> QED BY <1>1, <1>3, <2>1, <2>2, <2>3
<1>5. CASE r \in listeners
  <2>1. inbox' = Append(inbox, p)
    BY <1>1, <1>5
  <2>2. /\ \A k \in 1..Len(inbox') : inbox'[k] = p \/ (k \in 1..Len(inbox) /\ inbox'[k] = inbox[k])
        /\ \A k \in 1..Len(inbox) : k \in 1..Len(inbox') /\ inbox'[k] = inbox[k]
    <3>1. \A k \in 1..Len(Append(inbox, p)) :
            Append(inbox, p)[k] = p \/ (k \in 1..Len(inbox) /\ Append(inbox, p)[k] = inbox[k])
      BY <1>2, AppendElements
    <3>2. \A k \in 1..Len(inbox) :
            k \in 1..Len(Append(inbox, p)) /\ Append(inbox, p)[k] = inbox[k]
      BY <1>2
    <3> QED BY <2>1, <3>1, <3>2
  <2>3. \A q : q # r => (Ending(q)' <=> Ending(q))
    BY <2>2 DEF Ending, Final
  <2>4. ASSUME NEW e \in Event, NEW q \in Members(e), q # r PROVE InOrder(e, q)'
    <3>1. q \in Request /\ InOrder(e, q)
      BY MembersAreRequests DEF OrderInv
    <3>2. produced[q] \in Seq({"value", "void"})
      BY <1>2, <3>1
    <3>3. \A lo, hi \in Nat : lo <= hi /\ Numbered(inbox, q, lo, hi, produced[q]) =>
                              Numbered(inbox', q, lo, hi, produced[q])
      BY <1>2, <2>1, <2>4, NumberedAppend
    <3> QED BY <1>1, <2>3, <2>4, <3>1, <3>2, <3>3, StaysInOrder
  <2> QED BY <1>1, <1>3, <1>5, <2>2, <2>4
<1> QED BY <1>4, <1>5

\* A refusal, and one turn of the drain loop: the first response that waits is
\* the next one for the inbox.
LEMMA SendOrder ==
  ASSUME OrderInv, NEW r \in Request, RefuseRequest(r) \/ DrainQueue(r)
  PROVE  FitsInv' /\ \A e \in Event : \A q \in Members(e) : InOrder(e, q)'
<1>0. /\ work \in [Request -> {"none", "received", "running", "streaming", "rejected"} \cup Answered]
      /\ dataQueue \in [Request -> Seq(Packet)]
      /\ produced \in [Request -> Seq({"value", "void"})]
      /\ inbox \in Seq(Packet)
  BY DEF OrderInv, HandlingInv, CallsInv, TypeInv, TransportTypeOK, ServerTypeOK, ClientTypeOK
<1>1. ASSUME RefuseRequest(r)
      PROVE  FitsInv' /\ \A e \in Event : \A q \in Members(e) : InOrder(e, q)'
  <2> DEFINE p == Unqualified(r)
  <2>1. /\ work[r] = "received" /\ work'[r] = "unqualified" /\ UNCHANGED <<dataQueue, produced>>
        /\ \A q \in Request \ {r} : work'[q] = work[q]
        /\ Emit(p)
    BY <1>0, <1>1 DEF RefuseRequest, RefuseMessage
  <2>2. call[r] = "open" /\ sent[r] \in Id
    BY <2>1, ServedIsOpen DEF OrderInv, Over, Answered
  <2>3. /\ p \in Packet /\ p.origin = r /\ p.id = sent[r] /\ ~p.disposed
        /\ p.n = 0 /\ p.kind = "error"
    BY <2>2 DEF Unqualified, Answer, Packet, Kind
  <2> HIDE DEF p
  <2>4. FailedOnes \subseteq FailedOnes' /\ Fits(p, FailedOnes')
    BY <2>1, <2>3 DEF FailedOnes, Fits
  <2>5. /\ inbox' = IF r \in listeners THEN Append(inbox, p) ELSE inbox
        /\ \A k \in 1..Len(inbox') : Fits(inbox'[k], FailedOnes')
        /\ Ending(r)' => Ending(r) \/ r \in listeners
        /\ \A e \in Event : \A q \in Members(e) : q # r => InOrder(e, q)'
        /\ UNCHANGED <<tuples, call>> /\ listeners' \subseteq listeners
    BY <2>1, <2>2, <2>3, <2>4, EmitOrder
  <2>6. FitsInv'
    <3>1. \A q \in Request : \A i \in 1..Len(dataQueue[q]) : Fits(dataQueue[q][i], FailedOnes')
      BY <2>4 DEF OrderInv, FitsInv, Fits
    <3>2. \A e \in Event : \A i \in 1..Len(tuples[e]) : tuples[e][i].n = 0 <=> tuples[e][i].kind = "error"
      BY DEF OrderInv, FitsInv
    <3> QED BY <2>1, <2>5, <3>1, <3>2 DEF FitsInv
  <2>7. ASSUME NEW e \in Event, r \in Members(e) PROVE InOrder(e, r)'
    <3>1. InOrder(e, r) /\ produced[r] \in Seq({"value", "void"})
      BY <1>0, <2>7 DEF OrderInv
    <3>2. \A lo, hi \in Nat : lo <= hi /\ Numbered(inbox, r, lo, hi, produced[r]) =>
                              Numbered(inbox', r, lo, hi, produced[r])
      BY <1>0, <2>3, <2>5, NumberedAppend
    <3> QED BY <2>1, <2>5, <2>7, <3>1, <3>2, StaysInOrder
  <2> QED BY <2>5, <2>6, <2>7
<1>2. ASSUME DrainQueue(r)
      PROVE  FitsInv' /\ \A e \in Event : \A q \in Members(e) : InOrder(e, q)'
  <2> DEFINE s == dataQueue[r]
             p == Head(s)
             made == produced[r]
             last == Len(made)
  <2>1. /\ s # <<>> /\ dataQueue'[r] = Tail(s) /\ UNCHANGED <<work, produced>> /\ Emit(p)
        /\ \A q \in Request \ {r} : dataQueue'[q] = dataQueue[q]
    BY <1>0, <1>2 DEF DrainQueue, Respond
  <2>2. call[r] = "open" /\ ~Ending(r)
    <3>1. ~Over(r) /\ work[r] # "none"
      BY <2>1 DEF OrderInv, HandlingInv, QueuesInv, Over
    <3> QED BY <3>1, ServedIsOpen, EndingIsOver DEF OrderInv
  <2>3. s \in Seq(Packet) /\ 1 \in 1..Len(s) /\ p = s[1] /\ p \in Packet
    <3>1. s \in Seq(Packet) /\ s[1] = p
      BY <1>0, <2>1, TailElements
    <3> QED BY <2>1, <3>1
  <2>4. /\ p.origin = r /\ p.id = sent[r] /\ Fits(p, FailedOnes)
        /\ FailedOnes' = FailedOnes
    <3>1. \A i \in 1..Len(s) : s[i].origin = r /\ s[i].id = sent[r]
      BY DEF OrderInv, HandlingInv, QueuesInv
    <3>2. \A i \in 1..Len(s) : Fits(s[i], FailedOnes)
      BY DEF OrderInv, FitsInv
    <3>3. FailedOnes' = FailedOnes
      BY <2>1 DEF FailedOnes
    <3> QED BY <2>3, <3>1, <3>2, <3>3
  <2>5. made \in Seq({"value", "void"}) /\ last \in Nat /\ produced'[r] = made
    BY <1>0, <2>1
  <2> HIDE DEF p, s, made, last
  <2>6. /\ inbox' = IF r \in listeners THEN Append(inbox, p) ELSE inbox
        /\ \A k \in 1..Len(inbox') : Fits(inbox'[k], FailedOnes')
        /\ \A e \in Event : \A q \in Members(e) : q # r => InOrder(e, q)'
        /\ UNCHANGED <<tuples, call>> /\ listeners' \subseteq listeners
        /\ Ending(r)' => r \in listeners
    <3>1. FailedOnes \subseteq FailedOnes' /\ Fits(p, FailedOnes')
      BY <2>4
    <3> QED BY <2>1, <2>2, <2>3, <2>4, <3>1, EmitOrder
  <2>7. FitsInv'
    <3>1. \A i \in 1..Len(Tail(s)) : Fits(Tail(s)[i], FailedOnes')
      <4>1. \A i \in 1..Len(Tail(s)) : i + 1 \in 1..Len(s) /\ Tail(s)[i] = s[i + 1]
        BY <2>1, <2>3, TailElements
      <4>2. \A i \in 1..Len(s) : Fits(s[i], FailedOnes)
        BY DEF OrderInv, FitsInv, s
      <4> QED BY <2>4, <4>1, <4>2
    <3>2. \A q \in Request : \A i \in 1..Len(dataQueue'[q]) : Fits(dataQueue'[q][i], FailedOnes')
      BY <2>1, <2>4, <3>1 DEF OrderInv, FitsInv
    <3>3. \A e \in Event : \A i \in 1..Len(tuples'[e]) :
            tuples'[e][i].n = 0 <=> tuples'[e][i].kind = "error"
      BY <2>6 DEF OrderInv, FitsInv
    <3> QED BY <2>6, <3>2, <3>3 DEF FitsInv
  <2>8. ASSUME NEW e \in Event, r \in Members(e) PROVE InOrder(e, r)'
    <3>1. PICK got \in 0..last :
            /\ Numbered(tuples[e], r, 0, got, made)
            /\ \E come \in got..last : \E gone \in come..last : OnTheWay(r, got, come, gone)
      BY <2>2, <2>8 DEF OrderInv, InOrder, made, last
    <3>2. PICK come \in got..last : \E gone \in come..last : OnTheWay(r, got, come, gone)
      BY <3>1
    <3>3. PICK gone \in come..last : OnTheWay(r, got, come, gone)
      BY <3>2
    <3>4. got \in Nat /\ come \in Nat /\ gone \in Nat /\ got <= come /\ come <= gone
      BY <2>5, <3>1, <3>2, <3>3
    <3>5. /\ Numbered(inbox, r, got, come, made) /\ Numbered(s, r, gone, last, made)
          /\ r \in listeners => come = gone
      BY <3>3 DEF OnTheWay, made, last, s
    <3>6. /\ p.n = 0 => Numbered(Tail(s), r, gone, last, made)
          /\ p.n # 0 => /\ p.n = gone + 1 /\ gone < last /\ p.kind = made[gone + 1]
                        /\ Numbered(Tail(s), r, gone + 1, last, made)
      BY <2>1, <2>3, <2>4, <2>5, <3>4, <3>5, NumberedTail
    <3>7. /\ p.n = 0 => Numbered(Append(inbox, p), r, got, come, made)
          /\ p.n = come + 1 /\ p.kind = made[come + 1] =>
               Numbered(Append(inbox, p), r, got, come + 1, made)
      BY <1>0, <2>3, <2>4, <3>4, <3>5, NumberedAppend
    <3>8. \E come2 \in got..last : \E gone2 \in come2..last : OnTheWay(r, got, come2, gone2)'
      <4>1. ASSUME NEW come2 \in got..last, NEW gone2 \in come2..last,
                   Numbered(inbox', r, got, come2, made), Numbered(Tail(s), r, gone2, last, made),
                   r \in listeners => come2 = gone2
            PROVE  OnTheWay(r, got, come2, gone2)'
        BY <2>1, <2>2, <2>5, <2>6, <4>1 DEF OnTheWay, last
      <4>2. CASE p.n = 0
        <5>1. Numbered(inbox', r, got, come, made)
          BY <2>6, <3>5, <3>7, <4>2
        <5> QED BY <3>2, <3>3, <3>5, <3>6, <4>1, <4>2, <5>1
      <4>3. CASE p.n # 0 /\ r \in listeners
        <5>1. come = gone /\ Numbered(inbox', r, got, come + 1, made)
          BY <2>6, <3>5, <3>6, <3>7, <4>3
        <5>2. come + 1 \in got..last /\ gone + 1 \in (come + 1)..last
          BY <2>5, <3>4, <3>6, <4>3, <5>1
        <5> QED BY <3>6, <4>1, <4>3, <5>1, <5>2
      <4>4. CASE p.n # 0 /\ r \notin listeners
        <5>1. gone + 1 \in come..last
          BY <2>5, <3>4, <3>6, <4>4
        <5> QED BY <2>6, <3>2, <3>5, <3>6, <4>1, <4>4, <5>1
      <4> QED BY <4>2, <4>3, <4>4
    <3>9. call'[r] # "ended" /\ Numbered(tuples'[e], r, 0, got, made)
      BY <2>2, <2>6, <3>1
    <3> QED BY <2>5, <3>1, <3>8, <3>9 DEF InOrder, last
  <2> QED BY <2>6, <2>7, <2>8
<1> QED BY <1>1, <1>2

\* A callback takes the first response in the inbox, which is the next one of
\* its call; with the final packet the last one is taken, or was undefined.
LEMMA CallbackOrder ==
  ASSUME OrderInv, RunCallback
  PROVE  FitsInv' /\ \A e \in Event : \A q \in Members(e) : InOrder(e, q)'
<1>0. /\ produced \in [Request -> Seq({"value", "void"})]
      /\ inbox \in Seq(Packet) /\ tuples \in [Event -> Seq(Tuple)]
      /\ call \in [Request -> {"unsent", "queued", "open", "ended"}]
  BY DEF OrderInv, HandlingInv, CallsInv, TypeInv, TransportTypeOK, ServerTypeOK, ClientTypeOK
<1>1. /\ UNCHANGED <<work, dataQueue, produced, listeners>>
      /\ inbox # <<>> /\ inbox' = Tail(inbox)
  BY DEF RunCallback, brokerVars, serverVars, DropResponse, DeliverResponse
<1>first. PICK p : p = inbox[1]
  OBVIOUS
<1>2. /\ 1 \in 1..Len(inbox) /\ Head(inbox) = p
      /\ \A i \in 1..Len(inbox') : i + 1 \in 1..Len(inbox) /\ inbox'[i] = inbox[i + 1]
  BY <1>0, <1>1, <1>first, TailElements
<1>3. /\ Awaited(1) /\ p \in Packet /\ p.origin \in Request /\ Fits(p, FailedOnes)
      /\ routingMap[p.id] = p.origin
  <2>1. Awaited(1) /\ p \in Packet /\ p.origin \in Request
    BY <1>first, <1>2, InboxHoldsPackets DEF OrderInv, HandlingInv, InboxInv
  <2>2. Fits(p, FailedOnes)
    BY <1>first, <1>2 DEF OrderInv, FitsInv
  <2> QED BY <1>first, <2>1, <2>2 DEF Awaited, OrderInv, HandlingInv, MapsInv
<1>owner. PICK r \in Request : r = p.origin
  BY <1>3
<1>4. PICK e \in Event : r \in Members(e) /\ DeliverResponse(e, r)
  <2>1. ~DropResponse
    BY <1>2, <1>3, EventAssumption DEF DropResponse
  <2>2. PICK e \in Event : \E q \in Members(e) : DeliverResponse(e, q)
    BY <2>1 DEF RunCallback
  <2>3. PICK q \in Members(e) : DeliverResponse(e, q)
    BY <2>2
  <2>4. q = r
    BY <1>2, <1>3, <1>owner, <2>3 DEF DeliverResponse
  <2> QED BY <2>3, <2>4
<1> DEFINE t == [req |-> r, origin |-> r, kind |-> p.kind, n |-> p.n]
           gives == ~(p.kind = "void" /\ p.disposed)
           s == tuples[e]
           made == produced[r]
           last == Len(made)
<1>5. /\ s \in Seq(Tuple) /\ t \in Tuple /\ t.origin = r /\ t.n = p.n /\ t.kind = p.kind
      /\ made \in Seq({"value", "void"}) /\ last \in Nat
  <2>1. p.n \in Nat /\ p.kind \in Kind
    BY <1>3 DEF Packet
  <2>2. t \in Tuple
    BY <2>1 DEF Tuple
  <2> QED BY <1>0, <2>2
<1>6. /\ tuples'[e] = IF gives THEN Append(s, t) ELSE s
      /\ \A f \in Event \ {e} : tuples'[f] = tuples[f]
  <2>1. tuples' = [tuples EXCEPT ![e] = s \o Delivery(r, p)]
    BY <1>2, <1>4 DEF DeliverResponse
  <2>2. Delivery(r, p) = IF gives THEN <<t>> ELSE <<>>
    BY <1>owner DEF Delivery
  <2> HIDE DEF t, gives
  <2>3. s \o <<t>> = Append(s, t) /\ s \o <<>> = s
    BY <1>5
  <2> QED BY <1>0, <2>1, <2>2, <2>3
<1>7. /\ \A q \in Request : q # r => call'[q] = call[q]
      /\ call[r] = "open" /\ call'[r] = IF Final(p) THEN "ended" ELSE "open"
  <2>1. call[r] = "open"
    BY <1>first, <1>3, <1>owner DEF Awaited
  <2>2. call' = IF Final(p) THEN [call EXCEPT ![r] = "ended"] ELSE call
    BY <1>2, <1>4 DEF DeliverResponse, EndCall, Final
  <2> QED BY <1>0, <1>3, <2>1, <2>2
<1>8. \A q : Ending(q)' => Ending(q)
  BY <1>2 DEF Ending, Final
<1>9. FitsInv'
  <2>1. FailedOnes' = FailedOnes
    BY <1>1 DEF FailedOnes
  <2>2. \A k \in 1..Len(inbox') : Fits(inbox'[k], FailedOnes')
    BY <1>2, <2>1 DEF OrderInv, FitsInv
  <2>3. \A q \in Request : \A i \in 1..Len(dataQueue'[q]) : Fits(dataQueue'[q][i], FailedOnes')
    BY <1>1, <2>1 DEF OrderInv, FitsInv
  <2>4. ASSUME NEW f \in Event, NEW i \in 1..Len(tuples'[f])
        PROVE  tuples'[f][i].n = 0 <=> tuples'[f][i].kind = "error"
    <3>1. \A j \in 1..Len(tuples[f]) : tuples[f][j].n = 0 <=> tuples[f][j].kind = "error"
      BY DEF OrderInv, FitsInv
    <3>2. CASE f # e \/ ~gives
      BY <1>6, <2>4, <3>1, <3>2
    <3>3. CASE f = e /\ gives
      <4>1. t.n = 0 <=> t.kind = "error"
        BY <1>3, <1>5, <3>3 DEF Fits
      <4> HIDE DEF t, gives, s
      <4>2. tuples'[f] = Append(s, t)
        BY <1>6, <3>3
      <4>3. Append(s, t)[i] = t \/ (i \in 1..Len(s) /\ Append(s, t)[i] = s[i])
        BY <1>5, <2>4, <4>2, AppendElements
      <4> QED BY <3>1, <3>3, <4>1, <4>2, <4>3 DEF s
    <3> QED BY <3>2, <3>3
  <2> QED BY <2>2, <2>3, <2>4 DEF FitsInv
<1>10. ASSUME NEW f \in Event, NEW q \in Members(f), q # r PROVE InOrder(f, q)'
  <2>1. q \in Request /\ InOrder(f, q)
    BY MembersAreRequests DEF OrderInv
  <2>2. produced[q] \in Seq({"value", "void"})
    BY <1>0, <2>1
  <2>3. \A hi \in Nat : Numbered(tuples[f], q, 0, hi, produced[q]) =>
                        Numbered(tuples'[f], q, 0, hi, produced[q])
    <3> HIDE DEF t, gives
    <3>1. \A hi \in Nat : Numbered(s, q, 0, hi, produced[q]) =>
                          Numbered(Append(s, t), q, 0, hi, produced[q])
      BY <1>5, <1>10, NumberedAppend
    <3> QED BY <1>6, <3>1
  <2>4. \A lo, hi \in Nat : lo <= hi /\ Numbered(inbox, q, lo, hi, produced[q]) =>
                            Numbered(inbox', q, lo, hi, produced[q])
    BY <1>0, <1>1, <1>first, <1>owner, <1>10, NumberedTail
  <2> HIDE DEF t, gives
  <2> QED BY <1>1, <1>7, <1>8, <1>10, <2>1, <2>2, <2>3, <2>4, StaysInOrder
<1>11. InOrder(e, r)'
  <2>1. PICK got \in 0..last :
          /\ Numbered(s, r, 0, got, made)
          /\ \E come \in got..last : \E gone \in come..last : OnTheWay(r, got, come, gone)
    BY <1>4, <1>7 DEF OrderInv, InOrder
  <2>2. PICK come \in got..last : \E gone \in come..last : OnTheWay(r, got, come, gone)
    BY <2>1
  <2>3. PICK gone \in come..last : OnTheWay(r, got, come, gone)
    BY <2>2
  <2>4. /\ Numbered(inbox, r, got, come, made) /\ Numbered(dataQueue[r], r, gone, last, made)
        /\ r \in listeners \/ Ending(r) => come = gone
    BY <2>3 DEF OnTheWay
  <2>5. Final(p) => /\ Ending(r) /\ dataQueue[r] = <<>>
                    /\ work[r] = "errored" \/ work[r] = "unqualified" \/ p.kind # "error"
                    /\ Carrying(inbox', r) = {}
    <3>1. Final(p) => Over(r) /\ \A j \in 2..Len(inbox) : inbox[j].origin # r
      BY <1>first, <1>3, <1>owner DEF Awaited
    <3>2. Final(p) => Ending(r)
      BY <1>first, <1>2, <1>owner DEF Ending
    <3>3. \A i \in 1..Len(inbox') : i + 1 \in 2..Len(inbox)
      BY <1>2
    <3>4. Final(p) => Carrying(inbox', r) = {}
      BY <1>2, <3>1, <3>3 DEF Carrying
    <3>5. p.kind = "error" => work[r] \in {"errored", "unqualified"}
      BY <1>3, <1>owner DEF Fits, FailedOnes
    <3> QED BY <3>1, <3>2, <3>4, <3>5 DEF Over
  <2>6. p.n = 0 => Final(p) /\ (p.kind = "error" \/ ~gives)
    BY <1>3 DEF Fits, Final
  <2>7. p.n # 0 => p.kind # "error" /\ (Final(p) <=> p.disposed)
    BY <1>3 DEF Fits, Final
  <2>gives. p.origin = r /\ (gives <=> ~(p.kind = "void" /\ p.disposed))
    BY <1>owner
  <2> HIDE DEF t, gives, s, made, last
  <2>8. got \in Nat /\ come \in Nat /\ gone \in Nat /\ got <= come /\ come <= gone /\ gone <= last
    BY <1>5, <2>1, <2>2, <2>3
  <2>9. /\ p.n = 0 => Numbered(inbox', r, got, come, made)
        /\ p.n # 0 => /\ p.n = got + 1 /\ got < come /\ p.kind = made[got + 1]
                      /\ Numbered(inbox', r, got + 1, come, made)
    BY <1>0, <1>1, <2>4, <2>8, <2>gives, NumberedTail, <1>first
  <2>10. /\ t.n = 0 => Numbered(Append(s, t), r, 0, got, made)
         /\ t.n = got + 1 /\ t.kind = made[got + 1] => Numbered(Append(s, t), r, 0, got + 1, made)
    BY <1>5, <2>1, <2>8, NumberedAppend
  <2>11. ASSUME ~Final(p)
         PROVE  InOrder(e, r)'
    <3>1. p.n # 0 /\ gives
      BY <2>6, <2>7, <2>gives, <2>11
    <3>2. Numbered(tuples'[e], r, 0, got + 1, made)
      BY <1>5, <1>6, <2>9, <2>10, <3>1
    <3>3. OnTheWay(r, got + 1, come, gone)'
      BY <1>1, <1>7, <1>8, <2>4, <2>9, <2>11, <3>1 DEF OnTheWay, made, last
    <3>4. got + 1 \in 0..last /\ come \in (got + 1)..last /\ gone \in come..last
      BY <1>5, <2>8, <2>9, <3>1
    <3> QED BY <1>1, <1>7, <2>11, <3>2, <3>3, <3>4 DEF InOrder, made, last
  <2>12. ASSUME Final(p)
         PROVE  InOrder(e, r)'
    <3>1. gone = last
      <4>1. Carrying(<<>>, r) = {}
        BY DEF Carrying
      <4> QED BY <1>5, <2>4, <2>5, <2>8, <2>12, <4>1, NumberedNone
    <3>2. come = gone
      BY <2>4, <2>5, <2>12
    <3>3. CASE p.n = 0
      <4>1. got = last
        BY <2>5, <2>8, <2>9, <2>12, <3>1, <3>2, <3>3, NumberedNone
      <4>2. Numbered(tuples'[e], r, 0, got, made)
        BY <1>5, <1>6, <2>1, <2>10, <3>3
      <4>3. got \in 0..last
        BY <2>1
      <4> QED BY <1>1, <1>7, <2>12, <4>1, <4>2, <4>3 DEF InOrder, made, last
    <3>4. CASE p.n # 0
      <4>1. got + 1 = last /\ got + 1 \in 0..last
        <5>1. got + 1 \in Nat /\ got + 1 <= come /\ Numbered(inbox', r, got + 1, come, made)
          BY <2>8, <2>9, <3>4
        <5>2. got + 1 = come
          BY <2>5, <2>8, <2>12, <5>1, NumberedNone
        <5> QED BY <1>5, <2>8, <3>1, <3>2, <5>2
      <4>2. CASE gives
        <5>1. Numbered(tuples'[e], r, 0, got + 1, made)
          BY <1>5, <1>6, <2>9, <2>10, <3>4, <4>2
        <5> QED BY <1>1, <1>7, <2>12, <4>1, <5>1 DEF InOrder, made, last
      <4>3. CASE ~gives
        <5>1. Numbered(tuples'[e], r, 0, got, made)
          BY <1>6, <2>1, <4>3
        <5>2. made[last] = "void"
          BY <2>9, <2>gives, <3>4, <4>1, <4>3
        <5>3. got \in 0..last
          BY <2>1
        <5> QED BY <1>1, <1>7, <2>12, <4>1, <5>1, <5>2, <5>3 DEF InOrder, made, last
      <4> QED BY <4>2, <4>3
    <3> QED BY <3>3, <3>4
  <2> QED BY <2>11, <2>12
<1>12. ASSUME NEW f \in Event, r \in Members(f) PROVE f = e
  BY <1>4, <1>12, MembersAreDisjoint
<1> QED BY <1>9, <1>10, <1>11, <1>12

\* Every step keeps the order.
LEMMA StepOrder ==
  ASSUME RequestsDiffer, OrderInv, [Next]_vars
  PROVE  OrderInv'
<1>1. HandlingInv'
  BY StepHandling DEF OrderInv
<1>2. FitsInv' /\ \A e \in Event : \A r \in Members(e) : InOrder(e, r)'
  BY OtherOrder, StreamOrder, SendOrder, CallbackOrder DEF Next
<1> QED BY <1>1, <1>2 DEF OrderInv

\* The invariant of the order.
LEMMA OrderInvariance ==
  ASSUME RequestsDiffer
  PROVE  Spec => []OrderInv
<1>1. OrderInv /\ [Next]_vars => OrderInv'
  BY StepOrder
<1> QED BY <1>1, InitOrder, PTL DEF Spec

\* Nothing is lost, repeated or reordered between an observable and the result
\* of its call, whatever is emitted, queued, merged and delivered when.
THEOREM ResponsesKeepOrder ==
  ASSUME RequestsDiffer
  PROVE  Spec => []ResponsesInOrder
<1>1. ASSUME OrderInv PROVE ResponsesInOrder
  <2> SUFFICES ASSUME NEW e \in Event, NEW r \in Members(e)
               PROVE  LET taken == Taken(e, r)
                          ordinals == {tuples[e][i].n : i \in taken}
                          last == Len(produced[r])
                      IN  /\ \E k \in 0..last : ordinals = 1..k
                          /\ \A i, j \in taken : i < j => tuples[e][i].n < tuples[e][j].n
                          /\ \A i \in taken : tuples[e][i].kind = produced[r][tuples[e][i].n]
                          /\ call[r] = "ended" /\ work[r] \in {"completed", "empty"} =>
                               \/ ordinals = 1..last
                               \/ ordinals = 1..(last - 1) /\ produced[r][last] = "void"
    BY DEF ResponsesInOrder
  <2> DEFINE taken == Taken(e, r)
             ordinals == {tuples[e][i].n : i \in taken}
             last == Len(produced[r])
  <2>1. last \in Nat
    BY <1>1, MembersAreRequests
       DEF OrderInv, HandlingInv, CallsInv, TypeInv, TransportTypeOK, ServerTypeOK
  <2>2. Carrying(tuples[e], r) = taken
    BY <1>1 DEF Carrying, Taken, OrderInv, FitsInv, HandlingInv, NoCrosstalk
  <2>3. PICK got \in 0..last :
          /\ Numbered(tuples[e], r, 0, got, produced[r])
          /\ call[r] = "ended" /\ work[r] \in {"completed", "empty"} =>
               got = last \/ (got + 1 = last /\ produced[r][last] = "void")
    BY <1>1 DEF OrderInv, InOrder
  <2> HIDE DEF taken, last
  <2>4. ordinals = 1..got
    <3>1. \A i \in taken : tuples[e][i].n \in 1..got
      BY <2>2, <2>3 DEF Numbered
    <3>2. \A n \in 1..got : \E i \in taken : tuples[e][i].n = n
      BY <2>2, <2>3 DEF Numbered
    <3> QED BY <3>1, <3>2
  <2>5. /\ \A i, j \in taken : i < j => tuples[e][i].n < tuples[e][j].n
        /\ \A i \in taken : tuples[e][i].kind = produced[r][tuples[e][i].n]
    BY <2>2, <2>3 DEF Numbered
  <2>6. got + 1 = last => got = last - 1
    BY <2>1, <2>3
  <2> QED BY <2>3, <2>4, <2>5, <2>6 DEF taken, last
<1> QED BY <1>1, OrderInvariance, PTL

-----------------------------------------------------------------------------
(***************************************************************************)
(* Reports: the tuples, and what they amount to, against the handlings.    *)
(***************************************************************************)
Failed(r) == work[r] \in {"errored", "unqualified"}

\* The packets that become a tuple.
Gives(p) == ~(p.kind = "void" /\ p.disposed)

HasTuple(r) == \E e \in Event : \E i \in 1..Len(tuples[e]) : tuples[e][i].req = r

HasError(r) ==
  \E e \in Event : \E i \in 1..Len(tuples[e]) : tuples[e][i].req = r /\ IsError(tuples[e][i])

\* A tuple of r has been taken, or its packet is in the inbox.
Out(r) == HasTuple(r) \/ \E k \in 1..Len(inbox) : inbox[k].origin = r /\ Gives(inbox[k])

\* The tuples of an event are of its requests, those with errors of failed
\* ones, and a settled event has the outcome they give.
TuplesInv ==
  \A e \in Event :
    /\ \A i \in 1..Len(tuples[e]) :
         /\ tuples[e][i].req \in Members(e)
         /\ IsError(tuples[e][i]) => Failed(tuples[e][i].req)
    /\ Settled(e) /\ e \notin Unmappable => phase[e] = Outcome(e, tuples[e])

\* A final packet is an error of a failed request, or the end of answers
\* that have reached the client before.
Concludes(k) ==
  Final(inbox[k]) =>
    /\ IsError(inbox[k]) <=> Failed(inbox[k].origin)
    /\ work[inbox[k].origin] = "completed" => Out(inbox[k].origin)

\* While an observable runs, what it has emitted is queued or out.
StreamingInv(r) ==
  /\ work[r] \in {"none", "received", "running"} => produced[r] = <<>> /\ ~Out(r)
  /\ work[r] = "streaming" =>
       /\ Len(dataQueue[r]) <= Len(produced[r])
       /\ dataQueue[r] # <<>> =>
            dataQueue[r][Len(dataQueue[r])].kind = produced[r][Len(produced[r])]
       /\ Len(dataQueue[r]) < Len(produced[r]) /\ r \in listeners => Out(r)
       /\ Len(dataQueue[r]) = Len(produced[r]) => ~Out(r)

\* When it has ended, there is something to return exactly if it is not
\* called "empty" (a listener that is gone gets nothing).
AnsweredInv(r) ==
  /\ work[r] = "empty" => ~Out(r) /\ \A i \in 1..Len(dataQueue[r]) : ~Gives(dataQueue[r][i])
  /\ work[r] = "completed" /\ r \in listeners =>
       Out(r) \/ \E i \in 1..Len(dataQueue[r]) : Gives(dataQueue[r][i])
  /\ \A i \in 1..Len(dataQueue[r]) :
       Final(dataQueue[r][i]) => (IsError(dataQueue[r][i]) <=> Failed(r))

\* An ended call has left its tuples.
TakenInv(r) ==
  call[r] = "ended" => (Failed(r) => HasError(r)) /\ (work[r] = "empty" \/ HasTuple(r))

ReportInv ==
  /\ HandlingInv
  /\ TuplesInv
  /\ \A k \in 1..Len(inbox) : Concludes(k)
  /\ \A r \in Request : StreamingInv(r) /\ AnsweredInv(r) /\ TakenInv(r)

\* The initial state: nothing is queued, out or taken.
LEMMA InitReport == Init => ReportInv
<1> SUFFICES ASSUME Init PROVE ReportInv
  OBVIOUS
<1>1. HandlingInv
  BY InitHandling
<1>2. /\ inbox = <<>> /\ \A e \in Event : tuples[e] = <<>> /\ ~Settled(e)
      /\ \A r \in Request : /\ work[r] = "none" /\ produced[r] = <<>> /\ dataQueue[r] = <<>>
                            /\ call[r] = "unsent"
  BY DEF Init, ClientInit, ServerInit, Settled
<1>3. \A r \in Request : ~Out(r)
  <2>1. Len(inbox) = 0 /\ \A e \in Event : Len(tuples[e]) = 0
    BY <1>2
  <2> QED BY <2>1 DEF Out, HasTuple
<1> QED BY <1>1, <1>2, <1>3 DEF ReportInv, TuplesInv, StreamingInv, AnsweredInv, TakenInv

\* The tuples of a request are in one place: its own event.
LEMMA TuplesOfMember ==
  ASSUME TuplesInv, NEW e \in Event, NEW r \in Members(e)
  PROVE  /\ HasTuple(r) <=> \E i \in 1..Len(tuples[e]) : tuples[e][i].req = r
         /\ HasError(r) <=> \E i \in 1..Len(tuples[e]) :
                              tuples[e][i].req = r /\ IsError(tuples[e][i])
  BY MembersAreDisjoint DEF TuplesInv, HasTuple, HasError

\* The invariant implies the property.
LEMMA ReportsFollow == ReportInv => FailuresAreReported
<1> SUFFICES ASSUME ReportInv, NEW e \in Event, e \notin Unmappable, Settled(e)
             PROVE  LET failed == {r \in Members(e) : work[r] \in {"errored", "unqualified"}}
                        nothing == \A r \in Members(e) : work[r] = "empty"
                    IN  /\ BatchItemFailures(tuples[e]) = failed
                        /\ phase[e] = "rejected" <=>
                             SourceOf[e] # "sqs" /\ (failed # {} \/ (SourceOf[e] = "apigw" /\ nothing))
  BY DEF FailuresAreReported
<1> DEFINE failed == {r \in Members(e) : Failed(r)}
           nothing == \A r \in Members(e) : work[r] = "empty"
           ts == tuples[e]
<1>1. \A r \in Members(e) : /\ Failed(r) => HasError(r)
                            /\ work[r] = "empty" \/ HasTuple(r)
                            /\ work[r] = "empty" => ~HasTuple(r)
  BY MembersAreRequests
     DEF ReportInv, HandlingInv, CallsInv, CallsFollowPhase, TakenInv, AnsweredInv, Out
<1>2. \A i \in 1..Len(ts) : /\ ts[i].req \in Members(e)
                            /\ IsError(ts[i]) => Failed(ts[i].req)
  BY DEF ReportInv, TuplesInv
<1>3. \A r \in Members(e) :
        /\ HasTuple(r) <=> \E i \in 1..Len(ts) : ts[i].req = r
        /\ HasError(r) <=> \E i \in 1..Len(ts) : ts[i].req = r /\ IsError(ts[i])
  BY TuplesOfMember DEF ReportInv
<1>4. BatchItemFailures(ts) = failed
  BY <1>1, <1>2, <1>3 DEF BatchItemFailures, Errors
<1>5. Errors(ts) = {} <=> failed = {}
  BY <1>1, <1>2, <1>3 DEF Errors
<1>6. ts = <<>> <=> nothing
  <2>1. ts \in Seq(Tuple)
    BY DEF ReportInv, HandlingInv, CallsInv, TypeInv, TransportTypeOK, ClientTypeOK
  <2>2. ts # <<>> => 1 \in 1..Len(ts)
    BY <2>1, TailElements
  <2>3. ts = <<>> => Len(ts) = 0
    BY <2>1
  <2>4. CASE ts = <<>>
    BY <1>1, <1>3, <2>3, <2>4
  <2>5. CASE ts # <<>>
    BY <1>1, <1>2, <1>3, <2>2, <2>5
  <2> QED BY <2>4, <2>5
<1>7. phase[e] = IF Resolves(SourceOf[e], ts) THEN "resolved" ELSE "rejected"
  BY DEF ReportInv, TuplesInv, Outcome
<1>8. phase[e] = "rejected" <=>
        SourceOf[e] # "sqs" /\ (failed # {} \/ (SourceOf[e] = "apigw" /\ nothing))
  BY <1>5, <1>6, <1>7 DEF Resolves
<1> QED BY <1>4, <1>8 DEF Failed

\* The invocation of an event, which no call has ended for.
LEMMA InvokeReports ==
  ASSUME ReportInv, HandlingInv', NEW e \in Event, Invoke(e)
  PROVE  ReportInv'
<1>1. UNCHANGED <<tuples, inbox, listeners, work, produced, dataQueue>>
  BY DEF Invoke, RejectEvent, ProcessEvent, brokerVars, serverVars
<1>2. \A r \in Request : call'[r] = "ended" => call[r] = "ended"
  <2>1. call \in [Request -> {"unsent", "queued", "open", "ended"}]
    BY DEF ReportInv, HandlingInv, CallsInv, TypeInv, TransportTypeOK, ClientTypeOK
  <2> QED BY <2>1 DEF Invoke, RejectEvent, ProcessEvent
<1>3. TuplesInv'
  <2>1. phase \in [Event -> {"idle", "active", "resolved", "rejected"}]
        /\ tuples \in [Event -> Seq(Tuple)]
    BY DEF ReportInv, HandlingInv, CallsInv, TypeInv, TransportTypeOK, ClientTypeOK
  <2>2. \A f \in Event \ {e} : phase'[f] = phase[f]
    BY <2>1 DEF Invoke, RejectEvent, ProcessEvent
  <2>3. e \notin Unmappable => phase'[e] = "active" \/ phase'[e] = Outcome(e, tuples[e])
    <3>1. CASE e \notin Unmappable /\ RequestsOf[e] = <<>>
      <4>1. Members(e) = {}
        BY <3>1 DEF Members
      <4>2. tuples[e] = <<>>
        <5>1. tuples[e] # <<>> => 1 \in 1..Len(tuples[e])
          BY <2>1, TailElements
        <5> QED BY <4>1, <5>1 DEF ReportInv, TuplesInv
      <4> QED BY <2>1, <3>1, <4>2 DEF Invoke, RejectEvent, ProcessEvent
    <3>2. CASE e \notin Unmappable /\ RequestsOf[e] # <<>>
      BY <2>1, <3>2 DEF Invoke, RejectEvent, ProcessEvent
    <3> QED BY <3>1, <3>2
  <2> QED BY <1>1, <2>2, <2>3 DEF ReportInv, TuplesInv, Failed, Settled, Outcome
<1>4. \A r \in Request : Out(r)' <=> Out(r)
  BY <1>1 DEF Out, HasTuple
<1>5. \A k \in 1..Len(inbox)' : Concludes(k)'
  BY <1>1 DEF ReportInv, Concludes, Failed, Out, HasTuple
<1>6. \A r \in Request : StreamingInv(r)' /\ AnsweredInv(r)'
  BY <1>1, <1>4 DEF ReportInv, StreamingInv, AnsweredInv, Failed
<1>7. \A r \in Request : TakenInv(r)'
  BY <1>1, <1>2 DEF ReportInv, TakenInv, Failed, HasError, HasTuple
<1> QED BY <1>3, <1>5, <1>6, <1>7 DEF ReportInv

\* Steps that leave the client alone, but for opening a call, and change how
\* far the handling of one request is.
LEMMA ServerReports ==
  ASSUME ReportInv, HandlingInv', NEW r \in Request,
         work[r] \in {"none", "received", "running", "streaming"},
         UNCHANGED <<phase, tuples, inbox>>,
         \A q \in Request : call'[q] = "ended" => call[q] = "ended",
         \A q \in Request \ {r} :
           /\ work'[q] = work[q] /\ produced'[q] = produced[q] /\ dataQueue'[q] = dataQueue[q]
           /\ q \in listeners' => q \in listeners,
         StreamingInv(r)' /\ AnsweredInv(r)'
  PROVE  ReportInv'
<1>1. \A q \in Request : (Out(q)' <=> Out(q)) /\ (HasTuple(q)' <=> HasTuple(q))
                         /\ (HasError(q)' <=> HasError(q))
  BY DEF Out, HasTuple, HasError
<1>2. call[r] # "ended" /\ ~Over(r) /\ ~Failed(r)
  BY DEF ReportInv, HandlingInv, EndedInv, Over, Answered, Failed
<1>3. TuplesInv'
  <2>1. \A e \in Event : \A i \in 1..Len(tuples[e]) :
          IsError(tuples[e][i]) => tuples[e][i].req # r /\ tuples[e][i].req \in Request
    BY <1>2, MembersAreRequests DEF ReportInv, TuplesInv
  <2> QED BY <2>1 DEF ReportInv, TuplesInv, Failed, Settled
<1>4. \A k \in 1..Len(inbox)' : Concludes(k)'
  <2> SUFFICES ASSUME NEW k \in 1..Len(inbox), Final(inbox[k])
               PROVE  /\ IsError(inbox[k]) <=> Failed(inbox[k].origin)'
                      /\ work'[inbox[k].origin] = "completed" => Out(inbox[k].origin)
    BY <1>1, InboxHoldsPackets DEF ReportInv, HandlingInv, Concludes, Failed, Out, HasTuple
  <2>1. inbox[k].origin \in Request
    BY InboxHoldsPackets DEF ReportInv, HandlingInv
  <2>2. inbox[k].origin # r
    BY <1>2 DEF ReportInv, HandlingInv, InboxInv, Awaited
  <2> QED BY <2>1, <2>2 DEF ReportInv, Concludes, Failed
<1>5. \A q \in Request : StreamingInv(q)' /\ AnsweredInv(q)' /\ TakenInv(q)'
  <2> SUFFICES ASSUME NEW q \in Request
               PROVE  StreamingInv(q)' /\ AnsweredInv(q)' /\ TakenInv(q)'
    OBVIOUS
  <2>1. CASE q = r
    BY <1>2, <2>1 DEF TakenInv
  <2>2. CASE q # r
    <3>1. StreamingInv(q)'
      BY <1>1, <2>2 DEF ReportInv, StreamingInv
    <3>2. AnsweredInv(q)'
      BY <1>1, <2>2 DEF ReportInv, AnsweredInv, Failed
    <3>3. TakenInv(q)'
      BY <1>1, <2>2 DEF ReportInv, TakenInv, Failed
    <3> QED BY <3>1, <3>2, <3>3
  <2> QED BY <2>1, <2>2
<1> QED BY <1>3, <1>4, <1>5 DEF ReportInv

\* Publication, and the steps of the server that emit nothing.
LEMMA QuietReports ==
  ASSUME ReportInv, HandlingInv', NEW r \in Request,
         \/ PublishRequest(r) \/ PublishToNobody(r) \/ ServeRequest(r) \/ RejectRequest(r)
         \/ StreamValue(r) \/ EndStream(r)
  PROVE  ReportInv'
<1>0. /\ work \in [Request -> {"none", "received", "running", "streaming", "rejected"} \cup Answered]
      /\ dataQueue \in [Request -> Seq(Packet)]
      /\ produced \in [Request -> Seq({"value", "void"})]
      /\ call \in [Request -> {"unsent", "queued", "open", "ended"}]
  BY DEF ReportInv, HandlingInv, CallsInv, TypeInv, TransportTypeOK, ServerTypeOK, ClientTypeOK
<1>1. /\ StreamingInv(r) /\ AnsweredInv(r)
      /\ dataQueue[r] # <<>> => work[r] \in {"streaming", "completed", "empty", "errored"}
  BY DEF ReportInv, HandlingInv, QueuesInv
<1>2. CASE PublishRequest(r) \/ PublishToNobody(r)
  <2>1. /\ outbox \in Seq(Request) /\ outbox # <<>> /\ r = outbox[1]
        /\ call' = [call EXCEPT ![r] = "open"]
        /\ UNCHANGED <<phase, tuples, inbox>>
    BY <1>2 DEF PublishRequest, PublishToNobody, Publish, ReportInv, HandlingInv, CallsInv,
       TypeInv, TransportTypeOK, ClientTypeOK
  <2>2. call[r] = "queued" /\ work[r] = "none"
    BY <2>1 DEF ReportInv, HandlingInv, CallsInv, OutboxIsQueued, QueuesInv
  <2>3. /\ work' \in {work, [work EXCEPT ![r] = "received"]} /\ UNCHANGED <<produced, dataQueue>>
        /\ listeners' \subseteq listeners \cup {r}
    BY <1>2 DEF PublishRequest, PublishToNobody, SendToConsumer, SendToNobody, Receive, serverVars
  <2>4. /\ \A q \in Request : call'[q] = "ended" => call[q] = "ended"
        /\ \A q \in Request \ {r} :
             /\ work'[q] = work[q] /\ produced'[q] = produced[q] /\ dataQueue'[q] = dataQueue[q]
             /\ q \in listeners' => q \in listeners
    BY <1>0, <2>1, <2>2, <2>3
  <2>5. work'[r] \in {"none", "received"} /\ dataQueue'[r] = <<>>
    BY <1>0, <1>1, <2>2, <2>3
  <2>6. StreamingInv(r)' /\ AnsweredInv(r)'
    BY <1>1, <2>1, <2>2, <2>3, <2>5 DEF StreamingInv, AnsweredInv, Out, HasTuple
  <2> QED BY <2>1, <2>2, <2>4, <2>6, ServerReports
<1>3. CASE ServeRequest(r) \/ RejectRequest(r)
  <2>1. /\ work[r] \in {"received", "running"} /\ work'[r] \in {"running", "streaming", "rejected"}
        /\ \A q \in Request \ {r} : work'[q] = work[q]
        /\ UNCHANGED <<dataQueue, produced, listeners, phase, tuples, call, inbox>>
    BY <1>0, <1>3 DEF ServeRequest, RejectRequest, CallHandler, SubscribeResponse, HandlerRejects,
       brokerVars, clientVars
  <2>2. dataQueue[r] = <<>> /\ produced[r] = <<>> /\ ~Out(r)
    BY <1>1, <2>1 DEF StreamingInv
  <2>3. StreamingInv(r)' /\ AnsweredInv(r)'
    BY <2>1, <2>2 DEF StreamingInv, AnsweredInv, Out, HasTuple
  <2> QED BY <2>1, <2>3, ServerReports
<1>4. CASE StreamValue(r)
  <2>1. PICK kind \in {"value", "void"} : EmitValue(r, kind)
    BY <1>4 DEF StreamValue
  <2> DEFINE a == Answer(r, kind, Len(produced[r]) + 1, FALSE)
             s == dataQueue[r]
             m == produced[r]
  <2>2. /\ work[r] = "streaming" /\ work' = work
        /\ dataQueue'[r] = Append(s, a) /\ produced'[r] = Append(m, kind)
        /\ \A q \in Request \ {r} : dataQueue'[q] = dataQueue[q] /\ produced'[q] = produced[q]
        /\ UNCHANGED <<listeners, phase, tuples, call, inbox>>
    BY <1>0, <1>4, <2>1 DEF StreamValue, EmitValue, brokerVars, clientVars
  <2>3. s \in Seq(Packet) /\ m \in Seq({"value", "void"}) /\ a.kind = kind
    BY <1>0 DEF Answer
  <2>4. /\ Len(s) <= Len(m)
        /\ Len(s) < Len(m) /\ r \in listeners => Out(r)
        /\ Len(s) = Len(m) => ~Out(r)
    BY <1>1, <2>2 DEF StreamingInv
  <2>5. Out(r)' <=> Out(r)
    BY <2>2 DEF Out, HasTuple
  <2> HIDE DEF a, s, m
  <2>6. /\ Len(Append(s, a)) = Len(s) + 1 /\ Append(s, a)[Len(s) + 1] = a
        /\ Len(Append(m, kind)) = Len(m) + 1 /\ Append(m, kind)[Len(m) + 1] = kind
        /\ Len(s) \in Nat /\ Len(m) \in Nat
    BY <2>3
  <2>7. StreamingInv(r)'
    BY <2>2, <2>3, <2>4, <2>5, <2>6 DEF StreamingInv
  <2>8. AnsweredInv(r)'
    <3>1. \A i \in 1..Len(dataQueue'[r]) : ~Final(dataQueue'[r][i])
      BY <2>2 DEF HandlingInv, QueuesInv, Answered, Final
    <3> QED BY <2>2, <3>1 DEF AnsweredInv, Final
  <2> QED BY <2>2, <2>7, <2>8, ServerReports
<1>5. CASE EndStream(r)
  <2> DEFINE s == dataQueue[r]
             m == produced[r]
             a == Answer(r, "error", 0, FALSE)
  <2>1. /\ work[r] = "streaming" /\ work'[r] \in {"completed", "empty", "errored"}
        /\ \A q \in Request \ {r} : work'[q] = work[q] /\ dataQueue'[q] = dataQueue[q]
        /\ UNCHANGED <<produced, listeners, phase, tuples, call, inbox>>
    BY <1>0, <1>5 DEF EndStream, Complete, Fail, brokerVars, clientVars
  <2>2. StreamingInv(r)'
    BY <2>1 DEF StreamingInv
  <2>3. Out(r)' <=> Out(r)
    BY <2>1 DEF Out, HasTuple
  <2>4. s \in Seq(Packet) /\ m \in Seq({"value", "void"}) /\ Len(s) \in Nat /\ Len(m) \in Nat
    BY <1>0
  <2>5. \A i \in 1..Len(s) : ~Final(s[i])
    BY <2>1 DEF ReportInv, HandlingInv, QueuesInv, Answered
  <2>6. /\ Len(s) <= Len(m)
        /\ s # <<>> => s[Len(s)].kind = m[Len(m)]
        /\ Len(s) < Len(m) /\ r \in listeners => Out(r)
        /\ Len(s) = Len(m) => ~Out(r)
    BY <1>1, <2>1 DEF StreamingInv
  <2>7. CASE Fail(r)
    <3>1. work'[r] = "errored" /\ dataQueue'[r] = Dispose(Append(s, a), r)
      BY <1>0, <2>7 DEF Fail
    <3>2. Failed(r)' /\ a.kind = "error"
      BY <3>1 DEF Failed, Answer
    <3> HIDE DEF s, a
    <3>3. \A i \in 1..Len(dataQueue'[r]) : Final(dataQueue'[r][i]) => IsError(dataQueue'[r][i])
      <4> DEFINE z == [a EXCEPT !.disposed = TRUE]
                 t == Append(s, a)
      <4>0. a \in Packet
        <5>1. sent[r] \in Id
          BY <2>1, ServedIsOpen DEF ReportInv, Over, Answered
        <5> QED BY <5>1 DEF a, Answer, Packet, Kind
      <4>1. /\ Len(t) = Len(s) + 1 /\ t[Len(t)] = a /\ t # <<>> /\ t \in Seq(Packet)
            /\ \A i \in 1..Len(s) : t[i] = s[i]
        BY <2>4, <4>0
      <4>2. dataQueue'[r] = [t EXCEPT ![Len(t)] = z]
        BY <3>1, <4>1 DEF Dispose
      <4>3. z.kind = "error"
        BY DEF Answer, a
      <4> HIDE DEF z
      <4> HIDE DEF t
      <4>4. /\ Len(dataQueue'[r]) = Len(s) + 1
            /\ \A i \in 1..Len(t) : dataQueue'[r][i] = IF i = Len(t) THEN z ELSE t[i]
        BY <4>1, <4>2
      <4>5. \A i \in 1..Len(dataQueue'[r]) :
              dataQueue'[r][i] = z \/ (i \in 1..Len(s) /\ dataQueue'[r][i] = s[i])
        BY <2>4, <4>1, <4>4
      <4> QED BY <2>5, <4>3, <4>5 DEF IsError
    <3> QED BY <2>1, <2>2, <3>1, <3>2, <3>3, ServerReports DEF AnsweredInv
  <2>8. CASE Complete(r)
    <3>1. /\ dataQueue'[r] = Dispose(s, r)
          /\ work'[r] = IF m = <<>> \/ (m = <<"void">> /\ s # <<>>) THEN "empty" ELSE "completed"
          /\ ~Failed(r)'
      BY <1>0, <2>8 DEF Complete, Failed
    <3>2. CASE s = <<>>
      <4>1. dataQueue'[r] = <<Answer(r, "void", 0, TRUE)>>
        BY <3>1, <3>2 DEF Dispose
      <4>2. \A i \in 1..Len(dataQueue'[r]) :
              ~Gives(dataQueue'[r][i]) /\ ~IsError(dataQueue'[r][i])
        BY <4>1 DEF Answer, Gives, IsError
      <4>3. Len(s) = 0 /\ (m # <<>> => Len(m) > 0)
        BY <2>4, <3>2, EmptySeq
      <4>4. AnsweredInv(r)'
        BY <2>1, <2>3, <2>6, <3>1, <3>2, <4>2, <4>3 DEF AnsweredInv
      <4> QED BY <2>1, <2>2, <4>4, ServerReports
    <3>3. CASE s # <<>>
      <4> DEFINE k == Len(s)
                 z == [s[k] EXCEPT !.disposed = TRUE]
      <4>1. k \in 1..k /\ s[k] \in Packet /\ k \in Nat
        BY <2>4, <3>3, EmptySeq
      <4>2. z.kind = s[k].kind /\ z.disposed /\ s[k].kind # "error"
        BY <2>5, <4>1 DEF Packet, Final
      <4>3. dataQueue'[r] = [s EXCEPT ![k] = z]
        BY <3>1, <3>3, <4>1 DEF Dispose
      <4> HIDE DEF z
      <4>4. /\ Len(dataQueue'[r]) = k /\ dataQueue'[r][k] = z
            /\ \A i \in 1..k : i # k => dataQueue'[r][i] = s[i]
        BY <2>4, <4>1, <4>3
      <4>5. \A i \in 1..k : ~IsError(dataQueue'[r][i])
        BY <2>5, <4>2, <4>4 DEF IsError, Final
      <4>6. ASSUME m = <<"void">>
            PROVE  ~Out(r) /\ \A i \in 1..k : ~Gives(dataQueue'[r][i])
        <5>1. Len(m) = 1 /\ m[1] = "void"
          BY <4>6
        <5>2. k = 1
          <6> DEFINE j == Len(m)
          <6>1. k <= j /\ j = 1 /\ k \in Nat /\ k >= 1
            <7>1. k <= Len(m)
              BY <2>6
            <7>2. k >= 1
              BY <4>1
            <7> QED BY <4>1, <5>1, <7>1, <7>2
          <6> HIDE DEF k, j
          <6> QED BY <6>1
        <5> QED BY <2>6, <3>3, <4>2, <4>4, <5>1, <5>2 DEF Gives
      <4>7. ASSUME m # <<"void">>, r \in listeners
            PROVE  Out(r) \/ \E i \in 1..k : Gives(dataQueue'[r][i])
        <5>1. CASE k < Len(m)
          BY <2>6, <4>7, <5>1
        <5>2. CASE k = Len(m) /\ k = 1
          <6>1. m[1] \in {"value", "void"} /\ (m[1] = "void" => m = <<"void">>)
            <7> DEFINE w == <<"void">>
            <7>1. w \in Seq({"value", "void"}) /\ Len(w) = 1 /\ w[1] = "void"
              OBVIOUS
            <7> HIDE DEF m, s, w
            <7>2. Len(m) = 1 /\ m \in Seq({"value", "void"})
              BY <2>4, <5>2
            <7>3. m[1] = "void" => m = w
              BY <7>1, <7>2, SeqEqual
            <7> QED BY <7>2, <7>3 DEF w
          <6>2. z.kind = "value"
            BY <2>6, <3>3, <4>2, <4>7, <5>2, <6>1
          <6> QED BY <4>4, <5>2, <6>2 DEF Gives
        <5>3. CASE k = Len(m) /\ k # 1
          <6>1. 1 \in 1..k /\ dataQueue'[r][1] = s[1] /\ ~s[1].disposed
            <7>1. 1 \in 1..k /\ 1 # k
              <8> HIDE DEF k
              <8> QED BY <4>1, <5>3
            <7>2. ~Final(s[1])
              BY <2>5, <7>1
            <7> QED BY <4>4, <7>1, <7>2 DEF Final
          <6> QED BY <6>1 DEF Gives
        <5> QED BY <2>4, <2>6, <5>1, <5>2, <5>3
      <4>8. m # <<>>
        BY <2>6, <2>4, <4>1
      <4>9. AnsweredInv(r)'
        <5> HIDE DEF k, m, s
        <5>1. work'[r] = "empty" => m = <<"void">>
          BY <3>1, <4>8
        <5>2. work'[r] = "completed" => m # <<"void">>
          BY <3>1, <3>3
        <5> QED BY <2>1, <2>3, <3>1, <4>4, <4>5, <4>6, <4>7, <5>1, <5>2 DEF AnsweredInv
      <4> QED BY <2>1, <2>2, <4>9, ServerReports
    <3> QED BY <3>2, <3>3
  <2> QED BY <1>5, <2>7, <2>8 DEF EndStream
<1> QED BY <1>2, <1>3, <1>4, <1>5

\* What an emission adds to what is out.
LEMMA EmitOut ==
  ASSUME ReportInv, NEW r \in Request, NEW p \in Packet, p.origin = r, p.id = sent[r],
         call[r] = "open", Emit(p)
  PROVE  \A q \in Request :
           Out(q)' <=> Out(q) \/ (q = r /\ r \in listeners /\ Gives(p))
<1>1. /\ inbox' = IF r \in listeners THEN Append(inbox, p) ELSE inbox
      /\ tuples' = tuples
  BY EmitOnce DEF ReportInv
<1>2. inbox \in Seq(Packet)
  BY DEF ReportInv, HandlingInv, CallsInv, TypeInv, TransportTypeOK, ClientTypeOK
<1>3. CASE r \in listeners
  <2>1. /\ Len(inbox') = Len(inbox) + 1 /\ Len(inbox) \in Nat
        /\ inbox'[Len(inbox) + 1] = p
        /\ \A k \in 1..Len(inbox) : inbox'[k] = inbox[k]
    BY <1>1, <1>2, <1>3
  <2>2. \A k \in 1..Len(inbox') :
          (k = Len(inbox) + 1 /\ inbox'[k] = p) \/ (k \in 1..Len(inbox) /\ inbox'[k] = inbox[k])
    BY <2>1
  <2>3. /\ Len(inbox) + 1 \in 1..Len(inbox')
        /\ \A k \in 1..Len(inbox) : k \in 1..Len(inbox')
    BY <2>1
  <2> QED BY <1>1, <1>3, <2>1, <2>2, <2>3 DEF Out, HasTuple
<1>4. CASE r \notin listeners
  BY <1>1, <1>4 DEF Out, HasTuple
<1> QED BY <1>3, <1>4

\* An emission concludes a call rightly when its packet does.
LEMMA EmitReports ==
  ASSUME ReportInv, HandlingInv', NEW r \in Request, NEW p \in Packet, p.origin = r,
         p.id = sent[r], call[r] = "open", Emit(p), ~Over(r), produced' = produced,
         \A q \in Request \ {r} : work'[q] = work[q] /\ dataQueue'[q] = dataQueue[q],
         Failed(r) => Failed(r)',
         Final(p) => /\ IsError(p) <=> Failed(r)'
                     /\ work'[r] = "completed" /\ r \in listeners => Out(r) \/ Gives(p),
         StreamingInv(r)' /\ AnsweredInv(r)'
  PROVE  ReportInv'
<1>1. /\ inbox' = IF r \in listeners THEN Append(inbox, p) ELSE inbox
      /\ listeners' \subseteq listeners
      /\ UNCHANGED <<tuples, call, phase>>
  BY EmitOnce DEF ReportInv
<1>2. \A q \in Request : /\ Out(q)' <=> Out(q) \/ (q = r /\ r \in listeners /\ Gives(p))
                         /\ HasTuple(q)' <=> HasTuple(q)
                         /\ HasError(q)' <=> HasError(q)
  BY <1>1, EmitOut DEF HasTuple, HasError
<1>3. \A q \in Request : Failed(q) => Failed(q)'
  BY DEF Failed
<1>4. TuplesInv'
  <2>1. \A e \in Event : \A i \in 1..Len(tuples[e]) :
          tuples[e][i].req \in Request
          /\ (IsError(tuples[e][i]) => work'[tuples[e][i].req] \in {"errored", "unqualified"})
    BY <1>3, MembersAreRequests DEF ReportInv, TuplesInv, Failed
  <2> QED BY <1>1, <2>1 DEF ReportInv, TuplesInv, Settled, Failed
<1>5. \A k \in 1..Len(inbox)' : Concludes(k)'
  <2>1. ASSUME NEW k \in 1..Len(inbox'), k \in 1..Len(inbox), inbox'[k] = inbox[k]
        PROVE  Concludes(k)'
    <3>1. PICK o \in Request : o = inbox[k].origin /\ Awaited(k) /\ Concludes(k)
      BY <2>1, InboxHoldsPackets DEF ReportInv, HandlingInv, InboxInv
    <3>2. Final(inbox[k]) => o # r
      BY <3>1 DEF Awaited
    <3>3. Final(inbox[k]) => /\ IsError(inbox[k]) <=> work'[o] \in {"errored", "unqualified"}
                             /\ work'[o] = "completed" => Out(o)'
      BY <1>2, <3>1, <3>2 DEF Concludes, Failed
    <3>4. inbox'[k] = inbox[k] /\ inbox'[k].origin = o
      BY <2>1, <3>1
    <3> QED BY <3>3, <3>4 DEF Concludes, Failed, Final, IsError, Out, HasTuple
  <2>2. CASE r \in listeners
    <3>1. inbox \in Seq(Packet)
      BY DEF ReportInv, HandlingInv, CallsInv, TypeInv, TransportTypeOK, ClientTypeOK
    <3>2. inbox' = Append(inbox, p)
      BY <1>1, <2>2
    <3>3. \A k \in 1..Len(inbox') :
            (k = Len(inbox) + 1 /\ inbox'[k] = p) \/ (k \in 1..Len(inbox) /\ inbox'[k] = inbox[k])
      BY <3>1, <3>2, AppendElements
    <3>4. ASSUME NEW k \in 1..Len(inbox'), inbox'[k] = p
          PROVE  Concludes(k)'
      <4>1. Final(p) => /\ IsError(p) <=> work'[r] \in {"errored", "unqualified"}
                        /\ work'[r] = "completed" => Out(r)'
        BY <1>2, <2>2 DEF Failed
      <4> QED BY <3>4, <4>1 DEF Concludes, Failed, Final, IsError, Out, HasTuple
    <3> QED BY <2>1, <3>3, <3>4
  <2>3. CASE r \notin listeners
    BY <1>1, <2>1, <2>3
  <2> QED BY <2>2, <2>3
<1>6. \A q \in Request : StreamingInv(q)' /\ AnsweredInv(q)' /\ TakenInv(q)'
  <2> SUFFICES ASSUME NEW q \in Request
               PROVE  StreamingInv(q)' /\ AnsweredInv(q)' /\ TakenInv(q)'
    OBVIOUS
  <2>1. CASE q = r
    BY <1>1, <2>1 DEF TakenInv
  <2>2. CASE q # r
    <3>1. /\ work'[q] = work[q] /\ dataQueue'[q] = dataQueue[q] /\ produced'[q] = produced[q]
          /\ call'[q] = call[q] /\ (Out(q)' <=> Out(q))
          /\ StreamingInv(q) /\ AnsweredInv(q) /\ TakenInv(q)
      BY <1>1, <1>2, <2>2 DEF ReportInv
    <3>2. StreamingInv(q)'
      BY <1>1, <3>1 DEF StreamingInv
    <3>3. AnsweredInv(q)'
      BY <1>1, <3>1 DEF AnsweredInv, Failed
    <3>4. TakenInv(q)'
      BY <1>2, <3>1 DEF TakenInv, Failed
    <3> QED BY <3>2, <3>3, <3>4
  <2> QED BY <2>1, <2>2
<1> QED BY <1>4, <1>5, <1>6 DEF ReportInv

\* The refusal of a request, and one turn of the drain loop.
LEMMA SendReports ==
  ASSUME ReportInv, HandlingInv', NEW r \in Request, RefuseRequest(r) \/ DrainQueue(r)
  PROVE  ReportInv'
<1>0. /\ work \in [Request -> {"none", "received", "running", "streaming", "rejected"} \cup Answered]
      /\ dataQueue \in [Request -> Seq(Packet)]
      /\ produced \in [Request -> Seq({"value", "void"})]
  BY DEF ReportInv, HandlingInv, CallsInv, TypeInv, TransportTypeOK, ServerTypeOK
<1>1. /\ StreamingInv(r) /\ AnsweredInv(r)
      /\ dataQueue[r] # <<>> => work[r] \in {"streaming", "completed", "empty", "errored"}
      /\ \A i \in 1..Len(dataQueue[r]) :
           /\ dataQueue[r][i].origin = r /\ dataQueue[r][i].id = sent[r]
           /\ Final(dataQueue[r][i]) => i = Len(dataQueue[r]) /\ dataQueue[r][i].disposed
  BY DEF ReportInv, HandlingInv, QueuesInv
<1>2. CASE RefuseRequest(r)
  <2> DEFINE p == Unqualified(r)
  <2>1. /\ work[r] = "received" /\ work'[r] = "unqualified"
        /\ UNCHANGED <<dataQueue, produced>>
        /\ \A q \in Request \ {r} : work'[q] = work[q]
        /\ Emit(p)
    BY <1>0, <1>2 DEF RefuseRequest, RefuseMessage
  <2>2. ~Over(r) /\ dataQueue[r] = <<>> /\ ~Failed(r) /\ Failed(r)'
    BY <1>1, <2>1 DEF Over, Answered, Failed
  <2>3. call[r] = "open" /\ sent[r] \in Id
    BY <2>1, <2>2, ServedIsOpen DEF ReportInv
  <2>4. p \in Packet /\ p.origin = r /\ p.id = sent[r] /\ p.kind = "error"
    BY <2>3 DEF Unqualified, Answer, Packet, Kind
  <2>5. StreamingInv(r)' /\ AnsweredInv(r)'
    BY <2>1, <2>2 DEF StreamingInv, AnsweredInv
  <2>6. IsError(p) /\ work'[r] # "completed"
    BY <2>1, <2>4 DEF IsError
  <2> HIDE DEF p
  <2> QED BY <2>1, <2>2, <2>3, <2>4, <2>5, <2>6, EmitReports
<1>3. CASE DrainQueue(r)
  <2> DEFINE s == dataQueue[r]
             p == Head(s)
             m == Len(produced[r])
  <2>1. /\ s # <<>> /\ dataQueue'[r] = Tail(s) /\ UNCHANGED <<work, produced>> /\ Emit(p)
        /\ \A q \in Request \ {r} : dataQueue'[q] = dataQueue[q]
    BY <1>0, <1>3 DEF DrainQueue, Respond
  <2>2. ~Over(r) /\ work[r] # "none" /\ call[r] = "open"
    <3>1. ~Over(r) /\ work[r] # "none"
      BY <1>1, <2>1 DEF Over
    <3> QED BY <3>1, ServedIsOpen DEF ReportInv
  <2>3. /\ s \in Seq(Packet) /\ 1 \in 1..Len(s) /\ p = s[1] /\ p \in Packet
        /\ Tail(s) \in Seq(Packet) /\ Len(Tail(s)) = Len(s) - 1
    <3>1. s \in Seq(Packet) /\ s[1] = p /\ 1 \in 1..Len(s)
      BY <1>0, <2>1, TailElements
    <3>2. Tail(s) \in Seq(Packet) /\ Len(Tail(s)) = Len(s) - 1
      BY <2>1, <3>1, HeadTailProperties
    <3> QED BY <3>1, <3>2
  <2>4. /\ p.origin = r /\ p.id = sent[r]
        /\ Final(p) => Len(s) = 1 /\ p.disposed /\ (IsError(p) <=> Failed(r))
    BY <1>1, <2>3 DEF AnsweredInv
  <2>5. listeners' \subseteq listeners /\ (p.disposed => r \notin listeners')
    BY <2>1, <2>2, <2>3, <2>4, EmitOnce DEF ReportInv
  <2>6. Out(r)' <=> Out(r) \/ (r \in listeners /\ Gives(p))
    BY <2>1, <2>2, <2>3, <2>4, EmitOut
  <2>7. /\ \A i \in 1..Len(Tail(s)) : i + 1 \in 1..Len(s) /\ Tail(s)[i] = s[i + 1]
        /\ \A i \in 1..Len(s) : i # 1 => i - 1 \in 1..Len(Tail(s)) /\ Tail(s)[i - 1] = s[i]
    <3> DEFINE k == Len(s)
               n == Len(Tail(s))
    <3>1. /\ k \in Nat /\ n = k - 1
          /\ \A i \in 1..n : Tail(s)[i] = s[i + 1]
      BY <2>1, <2>3, HeadTailProperties
    <3> HIDE DEF k, n, s
    <3>2. /\ \A i \in 1..n : i + 1 \in 1..k
          /\ \A i \in 1..k : i # 1 => i - 1 \in 1..n /\ (i - 1) + 1 = i
      BY <3>1
    <3>3. \A i \in 1..k : i # 1 => i - 1 \in 1..n /\ Tail(s)[i - 1] = s[i]
      <4> TAKE i \in 1..k
      <4> HAVE i # 1
      <4>1. i - 1 \in 1..n /\ Tail(s)[i - 1] = s[(i - 1) + 1]
        BY <3>1, <3>2
      <4> QED BY <3>2, <4>1
    <3> QED BY <3>1, <3>2, <3>3 DEF k, n
  <2>8. Final(p) /\ work'[r] = "completed" /\ r \in listeners => Out(r) \/ Gives(p)
    <3> SUFFICES ASSUME Final(p), work[r] = "completed", r \in listeners, ~Out(r)
                 PROVE  Gives(p)
      BY <2>1
    <3>1. PICK i \in 1..Len(s) : Gives(s[i])
      BY <1>1 DEF AnsweredInv
    <3>2. i = 1
      <4>1. Len(s) = 1
        BY <2>4
      <4> QED BY <4>1
    <3> QED BY <2>3, <3>1, <3>2
  <2>9. StreamingInv(r)'
    <3>1. CASE work[r] # "streaming"
      <4>1. work[r] \notin {"none", "received", "running", "streaming"}
        BY <1>1, <2>1, <3>1
      <4> QED BY <2>1, <4>1 DEF StreamingInv
    <3>2. CASE work[r] = "streaming"
      <4>1. /\ Len(s) <= m /\ m \in Nat /\ Len(s) \in Nat
            /\ s[Len(s)].kind = produced[r][m]
        <5>1. m \in Nat /\ Len(s) \in Nat
          BY <1>0, <2>3
        <5>2. Len(s) <= m /\ s[Len(s)].kind = produced[r][m]
          BY <1>1, <2>1, <3>2 DEF StreamingInv
        <5> QED BY <5>1, <5>2
      <4>2. ~Final(p) 
        <5>1. \A i \in 1..Len(s) : ~Final(s[i])
          BY <3>2 DEF ReportInv, HandlingInv, QueuesInv, Answered
        <5> QED BY <2>3, <5>1
      <4>3. Gives(p)
        BY <4>2 DEF Gives, Final
      <4>4. r \in listeners' => Out(r)'
        BY <2>5, <2>6, <4>3
      <4>5. Len(dataQueue'[r]) < m /\ Len(dataQueue'[r]) <= m /\ Len(dataQueue'[r]) # m
        <5> DEFINE k == Len(s)
                   n == Len(dataQueue'[r])
        <5>1. n = k - 1 /\ k <= m /\ k \in Nat /\ m \in Nat
          BY <2>1, <2>3, <4>1
        <5> HIDE DEF k, n, m
        <5>2. n < m /\ n <= m /\ n # m
          BY <5>1
        <5> QED BY <5>2 DEF n
      <4>6. dataQueue'[r] # <<>> => dataQueue'[r][Len(dataQueue'[r])].kind = produced[r][m]
        <5> SUFFICES ASSUME Tail(s) # <<>>
                     PROVE  Tail(s)[Len(Tail(s))].kind = produced[r][m]
          BY <2>1
        <5>1. Len(Tail(s)) \in 1..Len(Tail(s))
          BY <2>3, EmptySeq
        <5>2. Len(Tail(s)) + 1 = Len(s)
          BY <2>3, <4>1
        <5>3. Tail(s)[Len(Tail(s))] = s[Len(Tail(s)) + 1]
          BY <2>7, <5>1
        <5> QED BY <4>1, <5>2, <5>3
      <4>7. /\ work'[r] = "streaming" /\ produced'[r] = produced[r]
        BY <2>1, <3>2
      <4> QED BY <4>4, <4>5, <4>6, <4>7 DEF StreamingInv
    <3> QED BY <3>1, <3>2
  <2>10. AnsweredInv(r)'
    <3>1. work[r] = "empty" =>
            ~Out(r)' /\ \A i \in 1..Len(dataQueue'[r]) : ~Gives(dataQueue'[r][i])
      BY <1>1, <2>1, <2>3, <2>6, <2>7 DEF AnsweredInv
    <3>2. ASSUME work[r] = "completed", r \in listeners', ~Out(r)'
          PROVE  \E i \in 1..Len(dataQueue'[r]) : Gives(dataQueue'[r][i])
      <4>1. r \in listeners /\ ~Out(r) /\ ~Gives(p)
        BY <2>5, <2>6, <3>2
      <4>2. PICK i \in 1..Len(s) : Gives(s[i])
        BY <1>1, <3>2, <4>1 DEF AnsweredInv
      <4>3. i # 1
        BY <2>3, <4>1, <4>2
      <4> QED BY <2>1, <2>7, <4>2, <4>3
    <3>3. \A i \in 1..Len(dataQueue'[r]) :
            Final(dataQueue'[r][i]) => (IsError(dataQueue'[r][i]) <=> Failed(r))
      BY <1>1, <2>1, <2>7 DEF AnsweredInv
    <3> QED BY <2>1, <3>1, <3>2, <3>3 DEF AnsweredInv, Failed
  <2>11. \A q \in Request : Failed(q)' <=> Failed(q)
    BY <2>1 DEF Failed
  <2> HIDE DEF p, s
  <2> QED BY <2>1, <2>2, <2>3, <2>4, <2>8, <2>9, <2>10, <2>11, EmitReports
<1> QED BY <1>2, <1>3

\* A callback turns a packet that was out into the tuple that is out, and the
\* last one settles the event by its tuples.
LEMMA CallbackReports ==
  ASSUME ReportInv, HandlingInv', RunCallback
  PROVE  ReportInv'
<1>0. UNCHANGED <<sent, listeners, work, produced, dataQueue>>
  BY DEF RunCallback, brokerVars, serverVars
<1>1. inbox \in Seq(Packet) /\ inbox # <<>> /\ inbox' = Tail(inbox)
  BY DEF RunCallback, DropResponse, DeliverResponse, ReportInv, HandlingInv, CallsInv, TypeInv,
     TransportTypeOK, ClientTypeOK
<1>2. /\ 1 \in 1..Len(inbox) /\ Head(inbox) = inbox[1]
      /\ \A i \in 1..Len(inbox') : i + 1 \in 1..Len(inbox) /\ inbox'[i] = inbox[i + 1]
  BY <1>1, TailElements
<1>3. \A k \in 1..Len(inbox) : k # 1 => k - 1 \in 1..Len(inbox') /\ inbox'[k - 1] = inbox[k]
  <2> DEFINE m == Len(inbox)
             t == Len(inbox')
  <2>1. m \in Nat /\ t = m - 1 /\ \A i \in 1..t : inbox'[i] = inbox[i + 1]
    BY <1>1, HeadTailProperties
  <2> HIDE DEF m, t
  <2> SUFFICES ASSUME NEW k \in 1..m, k # 1
               PROVE  k - 1 \in 1..t /\ inbox'[k - 1] = inbox[k]
    BY DEF m, t
  <2>2. k - 1 \in 1..t /\ (k - 1) + 1 = k
    BY <2>1
  <2>3. inbox'[k - 1] = inbox[(k - 1) + 1]
    BY <2>1, <2>2
  <2> QED BY <2>2, <2>3
<1> DEFINE p == Head(inbox)
           o == p.origin
<1>4. /\ p = inbox[1] /\ p \in Packet /\ o \in Request /\ Awaited(1) /\ Concludes(1)
      /\ call[o] = "open" /\ p.id = IdOf[o] /\ routingMap[p.id] = o
  <2>1. p = inbox[1] /\ p \in Packet /\ o \in Request /\ Awaited(1) /\ Concludes(1)
    BY <1>2, InboxHoldsPackets DEF ReportInv, HandlingInv, InboxInv
  <2>2. call[o] = "open" /\ p.id = IdOf[o]
    BY <2>1 DEF Awaited
  <2> QED BY <2>1, <2>2 DEF ReportInv, HandlingInv, MapsInv
<1>5. PICK e \in Event : o \in Members(e) /\ DeliverResponse(e, o)
  <2>1. ~DropResponse
    BY <1>4, EventAssumption DEF DropResponse
  <2> QED BY <1>4, <2>1 DEF RunCallback, DeliverResponse
<1>6. ~Settled(e)
  BY <1>0, <1>5, DeliverCalls DEF ReportInv, HandlingInv
<1> DEFINE t == [req |-> o, origin |-> p.origin, kind |-> p.kind, n |-> p.n]
           ts == tuples[e]
           us == tuples'[e]
<1>7. /\ t \in Tuple /\ t.req = o /\ (IsError(t) <=> IsError(p))
      /\ IsError(p) => Gives(p) /\ Final(p)
  BY <1>4 DEF Tuple, Packet, IsError, Gives, Final
<1>8. /\ ts \in Seq(Tuple)
      /\ us = IF Gives(p) THEN Append(ts, t) ELSE ts
      /\ \A f \in Event \ {e} : tuples'[f] = tuples[f]
  <2>1. tuples \in [Event -> Seq(Tuple)]
    BY DEF ReportInv, HandlingInv, CallsInv, TypeInv, TransportTypeOK, ClientTypeOK
  <2>2. Delivery(o, p) = IF Gives(p) THEN <<t>> ELSE <<>>
    BY DEF Delivery, Gives
  <2>3. tuples' = [tuples EXCEPT ![e] = ts \o Delivery(o, p)]
    BY <1>5 DEF DeliverResponse
  <2> HIDE DEF t, p
  <2>4. ts \o <<t>> = Append(ts, t) /\ ts \o <<>> = ts
    BY <1>7, <2>1
  <2> QED BY <2>1, <2>2, <2>3, <2>4
<1> HIDE DEF t
<1>9. /\ \A i \in 1..Len(us) : \/ i \in 1..Len(ts) /\ us[i] = ts[i]
                               \/ Gives(p) /\ us[i] = t
      /\ \A i \in 1..Len(ts) : i \in 1..Len(us) /\ us[i] = ts[i]
      /\ Gives(p) => Len(us) \in 1..Len(us) /\ us[Len(us)] = t
  <2> HIDE DEF p, ts, us
  <2>1. CASE Gives(p)
    <3>1. /\ us = Append(ts, t) /\ Len(us) = Len(ts) + 1 /\ Len(ts) \in Nat /\ us[Len(us)] = t
          /\ \A i \in 1..Len(ts) : us[i] = ts[i]
      BY <1>7, <1>8, <2>1
    <3>2. \A i \in 1..Len(us) : i \in 1..Len(ts) \/ i = Len(us)
      BY <3>1
    <3>3. Len(us) \in 1..Len(us) /\ \A i \in 1..Len(ts) : i \in 1..Len(us)
      BY <3>1
    <3> QED BY <2>1, <3>1, <3>2, <3>3
  <2>2. CASE ~Gives(p)
    BY <1>8, <2>2
  <2> QED BY <2>1, <2>2
<1>10. \A q \in Request : /\ HasTuple(q)' <=> HasTuple(q) \/ (q = o /\ Gives(p))
                          /\ HasError(q)' <=> HasError(q) \/ (q = o /\ IsError(p))
  <2> SUFFICES ASSUME NEW q \in Request
               PROVE  /\ HasTuple(q)' <=> HasTuple(q) \/ (q = o /\ Gives(p))
                      /\ HasError(q)' <=> HasError(q) \/ (q = o /\ IsError(p))
    OBVIOUS
  <2> HIDE DEF p, o
  <2>1. ASSUME NEW f \in Event
        PROVE  /\ \A i \in 1..Len(tuples'[f]) :
                    \/ \E j \in 1..Len(tuples[f]) : tuples'[f][i] = tuples[f][j]
                    \/ Gives(p) /\ tuples'[f][i] = t
               /\ \A j \in 1..Len(tuples[f]) :
                    \E i \in 1..Len(tuples'[f]) : tuples'[f][i] = tuples[f][j]
    <3>1. CASE f = e
      BY <1>9, <3>1
    <3>2. CASE f # e
      BY <1>8, <3>2
    <3> QED BY <3>1, <3>2
  <2>2. ASSUME NEW f \in Event, NEW i \in 1..Len(tuples'[f]), tuples'[f][i].req = q
        PROVE  /\ HasTuple(q) \/ (q = o /\ Gives(p))
               /\ IsError(tuples'[f][i]) => HasError(q) \/ (q = o /\ IsError(p))
    <3>1. CASE Gives(p) /\ tuples'[f][i] = t
      BY <1>7, <2>2, <3>1
    <3>2. ASSUME NEW j \in 1..Len(tuples[f]), tuples'[f][i] = tuples[f][j]
          PROVE  HasTuple(q) /\ (IsError(tuples'[f][i]) => HasError(q))
      BY <2>2, <3>2 DEF HasTuple, HasError
    <3> QED BY <2>1, <3>1, <3>2
  <2>3. /\ HasTuple(q)' => HasTuple(q) \/ (q = o /\ Gives(p))
        /\ HasError(q)' => HasError(q) \/ (q = o /\ IsError(p))
    <3>1. /\ HasTuple(q)' <=> \E f \in Event : \E i \in 1..Len(tuples'[f]) :
                                tuples'[f][i].req = q
          /\ HasError(q)' <=> \E f \in Event : \E i \in 1..Len(tuples'[f]) :
                                tuples'[f][i].req = q /\ IsError(tuples'[f][i])
      BY DEF HasTuple, HasError, IsError
    <3> QED BY <2>2, <3>1
  <2>4. (HasTuple(q) => HasTuple(q)') /\ (HasError(q) => HasError(q)')
    <3>1. ASSUME NEW f \in Event, NEW j \in 1..Len(tuples[f]), tuples[f][j].req = q
          PROVE  HasTuple(q)' /\ (IsError(tuples[f][j]) => HasError(q)')
      <4>1. PICK i \in 1..Len(tuples'[f]) : tuples'[f][i] = tuples[f][j]
        BY <2>1
      <4> QED BY <3>1, <4>1 DEF HasTuple, HasError, IsError
    <3> QED BY <3>1 DEF HasTuple, HasError
  <2>5. (q = o /\ Gives(p) => HasTuple(q)') /\ (q = o /\ IsError(p) => HasError(q)')
    <3>1. Gives(p) => \E i \in 1..Len(tuples'[e]) : tuples'[e][i] = t
      BY <1>9
    <3> QED BY <1>7, <3>1 DEF HasTuple, HasError, IsError
  <2> QED BY <1>7, <2>3, <2>4, <2>5
<1>11. \A q \in Request : Out(q)' <=> Out(q)
  <2> DEFINE In(q) == \E k \in 1..Len(inbox) : inbox[k].origin = q /\ Gives(inbox[k])
  <2>1. \A q \in Request : In(q)' => In(q)
    BY <1>2
  <2>2. \A q \in Request : In(q) => In(q)' \/ (q = o /\ Gives(p))
    BY <1>3, <1>4
  <2>3. Gives(p) => In(o)
    BY <1>2
  <2> HIDE DEF In, p, o
  <2>4. \A q \in Request : (HasTuple(q)' \/ In(q)') <=> (HasTuple(q) \/ In(q))
    BY <1>10, <2>1, <2>2, <2>3
  <2> QED BY <2>4 DEF Out, In
<1>12. \A i \in 1..Len(us) :
         /\ us[i].req \in Members(e)
         /\ IsError(us[i]) => work'[us[i].req] \in {"errored", "unqualified"}
  <2>1. IsError(p) => work'[o] \in {"errored", "unqualified"}
    BY <1>0, <1>4, <1>7 DEF Concludes, Failed
  <2> HIDE DEF p, o, ts, us
  <2>2. \A i \in 1..Len(ts) :
          /\ ts[i].req \in Members(e)
          /\ IsError(ts[i]) => work'[ts[i].req] \in {"errored", "unqualified"}
    BY <1>0 DEF ReportInv, TuplesInv, Failed, ts
  <2> QED BY <1>5, <1>7, <1>9, <2>1, <2>2
<1>13. ASSUME phase'[e] = phase[e] \/ phase'[e] = Outcome(e, us),
              \A f \in Event \ {e} : phase'[f] = phase[f]
       PROVE  TuplesInv'
  <2> SUFFICES ASSUME NEW f \in Event
               PROVE  /\ \A i \in 1..Len(tuples'[f]) :
                           /\ tuples'[f][i].req \in Members(f)
                           /\ IsError(tuples'[f][i]) =>
                                work'[tuples'[f][i].req] \in {"errored", "unqualified"}
                      /\ phase'[f] \in {"resolved", "rejected"} /\ f \notin Unmappable =>
                           phase'[f] = Outcome(f, tuples'[f])
    BY DEF TuplesInv, Failed, Settled, IsError, Outcome
  <2>1. CASE f = e
    BY <1>6, <1>12, <1>13, <2>1 DEF Settled
  <2>2. CASE f # e
    BY <1>0, <1>8, <1>13, <2>2 DEF ReportInv, TuplesInv, Failed, Settled
  <2> QED BY <2>1, <2>2
<1>14. \A k \in 1..Len(inbox)' : Concludes(k)'
  <2> SUFFICES ASSUME NEW k \in 1..Len(inbox') PROVE Concludes(k)'
    OBVIOUS
  <2>1. k + 1 \in 1..Len(inbox) /\ inbox'[k] = inbox[k + 1]
    BY <1>2
  <2>2. PICK q \in Request : q = inbox[k + 1].origin /\ Concludes(k + 1)
    BY <2>1, InboxHoldsPackets DEF ReportInv, HandlingInv
  <2>3. Out(q)' <=> Out(q)
    BY <1>11
  <2>4. Final(inbox[k + 1]) => /\ IsError(inbox[k + 1]) <=> Failed(q)
                               /\ work[q] = "completed" => Out(q)'
    BY <2>2, <2>3 DEF Concludes
  <2>5. inbox'[k].origin = q
    BY <2>1, <2>2
  <2> QED BY <1>0, <2>1, <2>4, <2>5 DEF Concludes, Failed, Out, HasTuple
<1>15. \A q \in Request : StreamingInv(q)' /\ AnsweredInv(q)'
  BY <1>0, <1>11 DEF ReportInv, StreamingInv, AnsweredInv, Failed
<1>16. CASE UNCHANGED <<call, phase>>
  <2>1. \A q \in Request : TakenInv(q)'
    BY <1>0, <1>10, <1>16 DEF ReportInv, TakenInv, Failed
  <2> QED BY <1>13, <1>14, <1>15, <1>16, <2>1 DEF ReportInv
<1>17. CASE Final(p) /\ EndCall(e, o)
  <2>1. /\ \A q \in Request \ {o} : call'[q] = call[q]
        /\ phase'[e] = phase[e] \/ phase'[e] = Outcome(e, us)
        /\ \A f \in Event \ {e} : phase'[f] = phase[f]
    BY <1>17 DEF EndCall, ReportInv, HandlingInv, CallsInv, TypeInv, TransportTypeOK,
       ClientTypeOK
  <2>2. /\ Failed(o) <=> IsError(p)
        /\ work[o] \in Answered /\ \A j \in 2..Len(inbox) : inbox[j].origin # o
    BY <1>4, <1>17 DEF Concludes, Awaited, Over
  <2>3. work[o] = "completed" => HasTuple(o) \/ Gives(p)
    <3> SUFFICES ASSUME work[o] = "completed", ~HasTuple(o) PROVE Gives(p)
      OBVIOUS
    <3>1. PICK k \in 1..Len(inbox) : inbox[k].origin = o /\ Gives(inbox[k])
      BY <1>4, <1>17 DEF Concludes, Out
    <3>2. k \in 2..Len(inbox) \/ k = 1
      OBVIOUS
    <3> QED BY <1>4, <2>2, <3>1, <3>2
  <2>4. PICK r \in Request : r = o
    BY <1>4
  <2>5. TakenInv(r)'
    <3>1. (Failed(r) => HasError(r)') /\ (work[r] = "empty" \/ HasTuple(r)')
      BY <1>7, <1>10, <2>2, <2>3, <2>4 DEF Answered, Failed
    <3> QED BY <1>0, <3>1 DEF TakenInv, Failed
  <2>6. \A q \in Request \ {r} : TakenInv(q)'
    BY <1>0, <1>10, <2>1, <2>4 DEF ReportInv, TakenInv, Failed
  <2> QED BY <1>13, <1>14, <1>15, <2>1, <2>5, <2>6 DEF ReportInv
<1> QED BY <1>5, <1>16, <1>17 DEF DeliverResponse, Final, IsError

\* Every step keeps the invariant.
LEMMA StepReport ==
  ASSUME RequestsDiffer, ReportInv, [Next]_vars
  PROVE  ReportInv'
<1>1. HandlingInv'
  BY StepHandling DEF ReportInv
<1>2. CASE StartServer \/ CloseServer \/ Crash \/ UNCHANGED vars
  <2>1. /\ UNCHANGED <<phase, tuples, call, inbox, work, produced, dataQueue>>
        /\ listeners' \subseteq listeners
    BY <1>2 DEF StartServer, CloseServer, Crash, Listen, Close, AddConsumer, CloseBroker,
       vars, brokerVars, clientVars, serverVars
  <2>2. TuplesInv' /\ \A q \in Request : TakenInv(q)'
    BY <2>1 DEF ReportInv, TuplesInv, TakenInv, HasTuple, HasError, Failed, Settled
  <2>3. \A q \in Request : Out(q)' <=> Out(q)
    BY <2>1 DEF Out, HasTuple
  <2>4. \A q \in Request : StreamingInv(q)' /\ AnsweredInv(q)'
    BY <2>1, <2>3 DEF ReportInv, StreamingInv, AnsweredInv, Failed
  <2>5. \A k \in 1..Len(inbox)' : Concludes(k)'
    BY <2>1 DEF ReportInv, Concludes, Failed, Out, HasTuple
  <2> QED BY <1>1, <2>2, <2>4, <2>5 DEF ReportInv
<1>3. CASE \E e \in Event : Invoke(e)
  BY <1>1, <1>3, InvokeReports
<1>4. CASE \E r \in Request :
             \/ PublishRequest(r) \/ PublishToNobody(r) \/ ServeRequest(r) \/ RejectRequest(r)
             \/ StreamValue(r) \/ EndStream(r)
  BY <1>1, <1>4, QuietReports
<1>5. CASE \E r \in Request : RefuseRequest(r) \/ DrainQueue(r)
  BY <1>1, <1>5, SendReports
<1>6. CASE RunCallback
  BY <1>1, <1>6, CallbackReports
<1> QED BY <1>2, <1>3, <1>4, <1>5, <1>6 DEF Next

\* What Lambda is told is exact: an SQS batch lists the failed records and no
\* other, and any other event is rejected exactly when a request of it failed
\* (or there is nothing to return to API Gateway).
THEOREM ReportsAreExact ==
  ASSUME RequestsDiffer
  PROVE  Spec => []FailuresAreReported
<1>1. ReportInv /\ [Next]_vars => ReportInv'
  BY StepReport
<1> QED BY <1>1, InitReport, ReportsFollow, PTL DEF Spec

-----------------------------------------------------------------------------
\* The refinement.  Its mapped state, by name:
verdicts == [r \in Request |-> Verdict(r)]

reported == [e \in Event |-> IF Settled(e) THEN BatchItemFailures(tuples[e]) ELSE {}]

\* Nothing is reported before the end, nor for what was never sent.
LEMMA NothingReported ==
  ASSUME ReportInv, NEW e \in Event, phase[e] = "idle"
  PROVE  tuples[e] = <<>>
<1>0. CallsFollowPhase /\ QueuesInv /\ \A r \in Request : StreamingInv(r)
  BY DEF ReportInv, HandlingInv, CallsInv
<1>1. \A r \in Members(e) : r \in Request /\ call[r] = "unsent"
  BY <1>0, MembersAreRequests, Zenon DEF CallsFollowPhase
<1>2. \A r \in Members(e) : ~HasTuple(r)
  <2>1. \A r \in Members(e) : work[r] = "none"
    BY <1>0, <1>1, Zenon DEF QueuesInv
  <2> QED BY <1>0, <1>1, <2>1, Zenon DEF StreamingInv, Out
<1>3. tuples[e] # <<>> => 1 \in 1..Len(tuples[e])
  BY TailElements DEF ReportInv, HandlingInv, CallsInv, TypeInv, TransportTypeOK, ClientTypeOK
<1>4. tuples[e] # <<>> => tuples[e][1].req \in Members(e) /\ HasTuple(tuples[e][1].req)
  BY <1>3 DEF ReportInv, TuplesInv, HasTuple
<1> QED BY <1>2, <1>4

\* The initial states are initial states of the promise.
LEMMA InitPromises == Init => Promise!AbsInit
  BY DEF Init, ClientInit, ServerInit, Promise!AbsInit, Verdict, Settled

\* An invocation is the start of an event.
LEMMA InvokePromises ==
  ASSUME ReportInv, NEW e \in Event, Invoke(e)
  PROVE  Promise!Start(e)
<1>1. /\ process = "running" /\ phase[e] = "idle" /\ UNCHANGED <<process, work, tuples>>
      /\ Overlapping \/ \A f \in Event : phase[f] # "active"
  BY DEF Invoke, Alive, RejectEvent, ProcessEvent, serverVars
<1>2. tuples[e] = <<>> /\ BatchItemFailures(tuples[e]) = {}
  BY <1>1, NothingReported DEF BatchItemFailures, Errors
<1>3. RequestsOf[e] = <<>> <=> Members(e) = {}
  <2>1. RequestsOf[e] \in Seq(Request)
    BY EventAssumption
  <2>2. RequestsOf[e] # <<>> => RequestsOf[e][1] \in Members(e)
    <3>1. RequestsOf[e] # <<>> => 1 \in 1..Len(RequestsOf[e])
      BY <2>1, TailElements
    <3> QED BY <3>1 DEF Members
  <2>3. RequestsOf[e] = <<>> => Members(e) = {}
    <3>1. Len(<<>>) = 0
      OBVIOUS
    <3> QED BY <3>1 DEF Members
  <2> QED BY <2>2, <2>3
<1>4. Outcome(e, <<>>) = IF SourceOf[e] = "apigw" THEN "rejected" ELSE "resolved"
  BY DEF Outcome, Resolves, Errors
<1>5. ~\E r \in Members(e) : verdicts[r] = "failed"
  <2>1. \A r \in Members(e) : r \in Request /\ work[r] = "none"
    BY <1>1, MembersAreRequests
       DEF ReportInv, HandlingInv, CallsInv, CallsFollowPhase, QueuesInv
  <2>2. \A r \in Request : work[r] = "none" => verdicts[r] = "pending"
    BY DEF verdicts, Verdict
  <2> QED BY <2>1, <2>2
<1>6. verdicts' = verdicts
  BY <1>1 DEF verdicts, Verdict
<1>7. phase' = [phase EXCEPT ![e] =
        IF e \in Unmappable \/ Members(e) = {}
        THEN IF e \in Unmappable \/ SourceOf[e] = "apigw" THEN "rejected" ELSE "resolved"
        ELSE "active"]
  BY <1>3, <1>4 DEF Invoke, RejectEvent, ProcessEvent
<1>8. reported' = reported
  <2>1. \A f \in Event : f # e => (Settled(f)' <=> Settled(f))
    BY <1>7 DEF Settled
  <2>2. ~Settled(e)
    BY <1>1 DEF Settled
  <2>3. \A f \in Event : reported'[f] = reported[f]
    <3> TAKE f \in Event
    <3>1. reported'[f] = IF Settled(f)' THEN BatchItemFailures(tuples[f]) ELSE {}
      BY <1>1 DEF reported, BatchItemFailures, Errors
    <3>2. reported[f] = IF Settled(f) THEN BatchItemFailures(tuples[f]) ELSE {}
      BY DEF reported
    <3> QED BY <1>2, <2>1, <2>2, <3>1, <3>2
  <2> QED BY <2>3 DEF reported
<1> QED BY <1>1, <1>5, <1>6, <1>7, <1>8
     DEF Promise!Start, Promise!Result, Promise!FailedIn, verdicts, reported

\* A step that shows nothing to Lambda stutters.
LEMMA StutterPromises ==
  ASSUME UNCHANGED <<phase, process>>, reported' = reported,
         \A q \in Request : Verdict(q)' = Verdict(q)
  PROVE  UNCHANGED Promise!absVars
<1>1. verdicts' = verdicts
  BY DEF verdicts
<1> QED BY <1>1 DEF Promise!absVars, verdicts, reported

\* The verdict on a request is the end of its handling.
LEMMA HandlingPromises ==
  ASSUME ReportInv, NEW r \in Request,
         \/ PublishRequest(r) \/ PublishToNobody(r) \/ ServeRequest(r) \/ RefuseRequest(r)
         \/ RejectRequest(r) \/ StreamValue(r) \/ EndStream(r) \/ DrainQueue(r)
  PROVE  (\E e \in Event : Promise!Decide(e, r)) \/ UNCHANGED Promise!absVars
<1>0. /\ work \in [Request -> {"none", "received", "running", "streaming", "rejected"} \cup Answered]
      /\ process = "running"
      /\ UNCHANGED <<phase, tuples, process>>
  <2>1. UNCHANGED <<phase, tuples>>
    BY ServerLeavesCalls DEF PublishRequest, PublishToNobody, Publish
  <2> QED BY <2>1 DEF ReportInv, HandlingInv, CallsInv, TypeInv, TransportTypeOK, ServerTypeOK, Alive,
       PublishRequest, PublishToNobody, ServeRequest, RefuseRequest, RejectRequest, StreamValue,
       EndStream, DrainQueue
<1>1. reported' = reported
  BY <1>0 DEF reported, Settled, BatchItemFailures, Errors
<1>2. CASE RefuseRequest(r) \/ EndStream(r)
  <2>1. /\ work[r] \in {"received", "streaming"}
        /\ work'[r] \in {"completed", "empty", "errored", "unqualified"}
        /\ work' = [work EXCEPT ![r] = work'[r]]
    BY <1>0, <1>2 DEF RefuseRequest, RefuseMessage, EndStream, Complete, Fail
  <2>2. call[r] = "open"
    <3>1. work[r] # "none" /\ ~Over(r)
      BY <2>1 DEF Over, Answered
    <3> QED BY <3>1, ServedIsOpen DEF ReportInv
  <2>3. PICK e \in Event : r \in Members(e)
    BY <2>2 DEF ReportInv, HandlingInv, MapsInv
  <2>4. phase[e] = "active"
    BY <2>2, <2>3, LiveIsActive DEF ReportInv, HandlingInv, Live
  <2>5. /\ verdicts[r] = "pending"
        /\ Verdict(r)' \in {"answered", "empty", "failed"}
        /\ \A q \in Request : q # r => Verdict(q)' = Verdict(q)
    BY <2>1, <1>0 DEF verdicts, Verdict
  <2>6. verdicts' = [verdicts EXCEPT ![r] = Verdict(r)']
    BY <2>5 DEF verdicts
  <2> HIDE DEF verdicts, reported
  <2>7. /\ process = "running" /\ phase[e] = "active" /\ r \in Members(e)
        /\ verdicts[r] = "pending"
        /\ \E v \in {"answered", "empty", "failed"} : verdicts' = [verdicts EXCEPT ![r] = v]
        /\ UNCHANGED <<phase, process>> /\ reported' = reported
    BY <1>0, <1>1, <2>3, <2>4, <2>5, <2>6
  <2> QED BY <2>7 DEF Promise!Decide, verdicts, reported
<1>3. CASE \/ PublishRequest(r) \/ PublishToNobody(r) \/ ServeRequest(r)
           \/ RejectRequest(r) \/ StreamValue(r) \/ DrainQueue(r)
  <2>1. \/ work' = work
        \/ /\ work[r] \in {"none", "received", "running"}
           /\ work' = [work EXCEPT ![r] = work'[r]]
           /\ work'[r] \in {"received", "running", "streaming", "rejected"}
    <3>1. CASE PublishRequest(r) \/ PublishToNobody(r)
      <4>1. outbox \in Seq(Request) /\ outbox # <<>> /\ r = outbox[1]
        BY <3>1 DEF PublishRequest, PublishToNobody, Publish, ReportInv, HandlingInv, CallsInv,
           TypeInv, TransportTypeOK, ClientTypeOK
      <4>2. work[r] = "none"
        BY <4>1 DEF ReportInv, HandlingInv, CallsInv, OutboxIsQueued, QueuesInv
      <4> QED BY <1>0, <3>1, <4>2 DEF PublishRequest, PublishToNobody, Receive, serverVars
    <3>2. CASE ServeRequest(r) \/ RejectRequest(r)
      BY <1>0, <3>2 DEF ServeRequest, RejectRequest, CallHandler, SubscribeResponse,
         HandlerRejects
    <3>3. CASE StreamValue(r) \/ DrainQueue(r)
      BY <3>3 DEF StreamValue, EmitValue, DrainQueue, Respond
    <3> QED BY <1>3, <3>1, <3>2, <3>3
  <2>2. \A q \in Request : Verdict(q)' = Verdict(q)
    <3>1. CASE work' = work
      BY <3>1 DEF Verdict
    <3>2. CASE work[r] \in {"none", "received", "running"}
               /\ work' = [work EXCEPT ![r] = work'[r]]
               /\ work'[r] \in {"received", "running", "streaming", "rejected"}
      BY <1>0, <3>2 DEF Verdict
    <3> QED BY <2>1, <3>1, <3>2
  <2> QED BY <1>0, <1>1, <2>2, StutterPromises
<1> QED BY <1>2, <1>3

\* A callback is silent, unless it settles its event.
LEMMA CallbackPromises ==
  ASSUME ReportInv, ReportInv', RunCallback
  PROVE  (\E e \in Event : Promise!Settle(e)) \/ UNCHANGED Promise!absVars
<1>0. /\ process = "running" /\ UNCHANGED <<process, work, sent>>
      /\ \A q \in Request : Verdict(q)' = Verdict(q)
  BY DEF RunCallback, Alive, brokerVars, serverVars, Verdict
<1>1. CASE DropResponse
  <2>1. UNCHANGED <<phase, tuples>>
    BY <1>1 DEF DropResponse
  <2>2. reported' = reported
    BY <2>1 DEF reported, Settled, BatchItemFailures, Errors
  <2> QED BY <1>0, <2>1, <2>2, StutterPromises
<1>2. ASSUME NEW e \in Event, NEW r \in Members(e), DeliverResponse(e, r)
      PROVE  Promise!Settle(e) \/ UNCHANGED Promise!absVars
  <2>0. /\ phase \in [Event -> {"idle", "active", "resolved", "rejected"}]
        /\ tuples \in [Event -> Seq(Tuple)]
        /\ r \in Request /\ CallsInv /\ CallsFollowPhase
    BY MembersAreRequests DEF ReportInv, HandlingInv, CallsInv, TypeInv, TransportTypeOK,
       ClientTypeOK
  <2>1. phase[e] = "active" /\ e \notin Unmappable /\ ~Settled(e)
    <3>1. ~Settled(e)
      BY <1>0, <1>2, <2>0, DeliverCalls
    <3>2. call[r] # "unsent"
      <4>1. inbox \in Seq(Packet) /\ inbox # <<>> /\ routingMap[Head(inbox).id] = r
        BY <1>2 DEF DeliverResponse, ReportInv, HandlingInv, CallsInv, TypeInv, TransportTypeOK,
           ClientTypeOK
      <4>2. Head(inbox).id \in Id
        <5>1. Head(inbox) = inbox[1] /\ inbox[1] \in Packet
          BY <4>1, TailElements
        <5> QED BY <5>1 DEF Packet
      <4>3. r # NoRequest
        BY <2>0, EventAssumption
      <4> QED BY <4>1, <4>2, <4>3 DEF ReportInv, HandlingInv, CallsInv, RoutingIsLive
    <3> QED BY <2>0, <3>1, <3>2 DEF CallsFollowPhase, Settled
  <2>2. /\ phase' = [phase EXCEPT ![e] = phase'[e]]
        /\ phase'[e] \in {"active", "resolved", "rejected"}
        /\ \A f \in Event \ {e} : tuples'[f] = tuples[f]
    BY <1>2, <2>0, <2>1 DEF DeliverResponse, EndCall, Outcome
  <2>3. \A f \in Event \ {e} : reported'[f] = reported[f]
    <3> TAKE f \in Event \ {e}
    <3>1. reported'[f] = IF phase'[f] \in {"resolved", "rejected"}
                         THEN BatchItemFailures(tuples'[f]) ELSE {}
      BY DEF reported, Settled, BatchItemFailures, Errors, IsError
    <3>2. reported[f] = IF phase[f] \in {"resolved", "rejected"}
                        THEN BatchItemFailures(tuples[f]) ELSE {}
      BY DEF reported, Settled
    <3>3. phase'[f] = phase[f] /\ tuples'[f] = tuples[f]
      BY <2>0, <2>2
    <3> QED BY <3>1, <3>2, <3>3
  <2>4. CASE ~Settled(e)'
    <3>1. phase' = phase
      BY <2>0, <2>1, <2>2, <2>4 DEF Settled
    <3>2. reported'[e] = reported[e]
      BY <2>1, <2>4 DEF reported
    <3>3. reported' = reported
      <4>1. \A f \in Event : reported'[f] = reported[f]
        BY <2>3, <3>2
      <4> QED BY <4>1 DEF reported
    <3> QED BY <1>0, <3>1, <3>3, StutterPromises
  <2>5. CASE Settled(e)'
    <3> DEFINE failed == {q \in Members(e) : verdicts[q] = "failed"}
               result == IF \/ SourceOf[e] # "sqs" /\ failed # {}
                            \/ SourceOf[e] = "apigw" /\ \A q \in Members(e) : verdicts[q] = "empty"
                         THEN "rejected" ELSE "resolved"
    <3>1. \A q \in Request : /\ verdicts[q] = "failed" <=> work'[q] \in {"errored", "unqualified"}
                             /\ verdicts[q] = "empty" <=> work'[q] = "empty"
                             /\ work'[q] \in Answered => verdicts[q] # "pending"
      BY <1>0 DEF verdicts, Verdict, Answered
    <3>2. FailuresAreReported'
      <4>1. (ReportInv => FailuresAreReported)'
        BY ReportsFollow, PTL
      <4> QED BY <4>1
    <3> DEFINE failing == {q \in Members(e) : work'[q] \in {"errored", "unqualified"}}
               nothing == \A q \in Members(e) : work'[q] = "empty"
    <3>3. /\ reported'[e] = failed
          /\ phase'[e] = "rejected" <=>
               SourceOf[e] # "sqs" /\ (failed # {} \/
                 (SourceOf[e] = "apigw" /\ \A q \in Members(e) : verdicts[q] = "empty"))
      <4>1. /\ BatchItemFailures(tuples'[e]) = failing
            /\ phase'[e] = "rejected" <=>
                 SourceOf[e] # "sqs" /\ (failing # {} \/ (SourceOf[e] = "apigw" /\ nothing))
        BY <2>1, <2>5, <3>2 DEF FailuresAreReported, BatchItemFailures, Errors, IsError
      <4>2. failing = failed
        BY <3>1, MembersAreRequests
      <4>3. nothing <=> \A q \in Members(e) : verdicts[q] = "empty"
        BY <3>1, MembersAreRequests
      <4>4. reported'[e] = BatchItemFailures(tuples'[e])
        BY <2>5 DEF reported, BatchItemFailures, Errors, IsError
      <4> HIDE DEF failing, failed, nothing
      <4> QED BY <4>1, <4>2, <4>3, <4>4
    <3>4. phase'[e] = result
      BY <2>2, <2>5, <3>3 DEF Settled
    <3>5. \A q \in Members(e) : verdicts[q] # "pending"
      <4>1. CallsFollowPhase' /\ EndedInv'
        BY DEF ReportInv, HandlingInv, CallsInv
      <4>2. \A q \in Members(e) : q \in Request /\ call'[q] = "ended"
        BY <2>1, <2>5, <4>1, MembersAreRequests DEF CallsFollowPhase
      <4> QED BY <3>1, <4>1, <4>2 DEF EndedInv, Over
    <3>6. reported' = [reported EXCEPT ![e] = failed]
      BY <2>3, <3>3 DEF reported
    <3>7. verdicts' = verdicts
      BY <1>0 DEF verdicts
    <3>8. phase' = [phase EXCEPT ![e] = result]
      BY <2>2, <3>4
    <3> HIDE DEF result
    <3>9. /\ process = "running" /\ phase[e] = "active"
          /\ \A q \in Members(e) : verdicts[q] # "pending"
          /\ UNCHANGED <<process, verdicts>>
      BY <1>0, <2>1, <3>5, <3>7
    <3>10. Promise!Result(e) = result
      BY <2>1 DEF Promise!Result, Promise!FailedIn, verdicts, result
    <3>11. Promise!FailedIn(e) = failed
      BY DEF Promise!FailedIn, verdicts
    <3> QED BY <3>6, <3>8, <3>9, <3>10, <3>11 DEF Promise!Settle, verdicts, reported
  <2> QED BY <2>4, <2>5
<1> QED BY <1>1, <1>2 DEF RunCallback

\* Every step of client, broker and server is a step of the promise or silent.
LEMMA StepPromises ==
  ASSUME ReportInv, ReportInv', [Next]_vars
  PROVE  [Promise!AbsNext]_(Promise!absVars)
<1>1. CASE \E e \in Event : Invoke(e)
  BY <1>1, InvokePromises DEF Promise!AbsNext
<1>2. CASE \E r \in Request :
             \/ PublishRequest(r) \/ PublishToNobody(r) \/ ServeRequest(r) \/ RefuseRequest(r)
             \/ RejectRequest(r) \/ StreamValue(r) \/ EndStream(r) \/ DrainQueue(r)
  BY <1>2, HandlingPromises DEF Promise!AbsNext
<1>3. CASE RunCallback
  BY <1>3, CallbackPromises DEF Promise!AbsNext
<1>4. CASE Crash
  BY <1>4 DEF Crash, Alive, brokerVars, clientVars, serverVars, Promise!AbsNext, Promise!Stop,
     Verdict, Settled
<1>5. CASE StartServer \/ CloseServer \/ UNCHANGED vars
  <2>1. UNCHANGED <<phase, process, tuples, work>>
    BY <1>5 DEF StartServer, CloseServer, Listen, Close, vars, clientVars, serverVars
  <2>2. reported' = reported /\ \A q \in Request : Verdict(q)' = Verdict(q)
    BY <2>1 DEF reported, Settled, BatchItemFailures, Errors, Verdict
  <2> QED BY <2>1, <2>2, StutterPromises
<1> QED BY <1>1, <1>2, <1>3, <1>4, <1>5 DEF Next

\* Client, broker and server together implement the promise of processEvent:
\* whatever is late, left over or interleaved, each event settles once, after
\* the verdicts on all its own records and in accordance with them.
THEOREM TransportKeepsPromise ==
  ASSUME RequestsDiffer
  PROVE  Spec => ImplementsPromise
<1>1. ReportInv /\ [Next]_vars => ReportInv'
  BY StepReport
<1>2. Init => ReportInv /\ Promise!AbsInit
  BY InitReport, InitPromises
<1>3. ReportInv /\ ReportInv' /\ [Next]_vars => [Promise!AbsNext]_(Promise!absVars)
  BY StepPromises
<1> QED BY <1>1, <1>2, <1>3, PTL DEF Spec, ImplementsPromise, Promise!AbsSpec
=============================================================================
