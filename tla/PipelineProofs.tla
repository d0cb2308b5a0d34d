---------------------------- MODULE PipelineProofs ----------------------------
(***************************************************************************)
(* The interceptors, for any number of calls and any limits: slots, rate,  *)
(* deadlines, effects and counters.                                        *)
(***************************************************************************)
EXTENDS Pipeline, FiniteSetTheorems, TLAPS

\* First-order steps; those that need arithmetic, records or functions name SMT.
USE Zenon

Before == {"idle", "sent", "acquire", "auth", "bucket", "handler"}
Allowed(r) == ~ Secured \/ MayCall(call[r].method, call[r].cred)
NoWrite == Refusals \cup {"InvalidArgument"}

\* A call and what its client was told.  A late result is one that the
\* deadline check, or the client's own deadline, will turn down.
CallOK(r) ==
  /\ call[r].clock <= now
  /\ call[r].stage # "done" => seen[r] \in {None, "Canceled"}
  /\ call[r].stage \in {"idle", "sent"} => ~ call[r].audited
  /\ call[r].stage \in Counted => call[r].audited
  /\ call[r].stage \in Before => ~ call[r].effect /\ ~ call[r].late
  /\ call[r].stage \in {"acquire", "auth", "bucket", "handler"} =>
       call[r].guarded \/ (call[r].until # None /\ call[r].dl = call[r].until)
  /\ call[r].stage \in {"bucket", "handler"} => Allowed(r)
  /\ call[r].effect => Allowed(r)
  /\ call[r].stage \in {"leave", "check", "replied"} =>
       /\ call[r].code \in NoWrite => ~ call[r].effect
       /\ call[r].code = "OK" /\ call[r].method = "Insert" => call[r].effect
  /\ call[r].stage \in {"leave", "check"} /\ call[r].late =>
       (call[r].guarded /\ now >= call[r].dl) \/ Expired(r)
  /\ call[r].stage = "replied" /\ call[r].late /\ call[r].code = "OK" => Expired(r)
  /\ call[r].stage = "done" =>
       /\ seen[r] = "OK" => ~ call[r].late
       /\ seen[r] \in NoWrite => ~ call[r].effect
       /\ seen[r] = "OK" /\ call[r].method = "Insert" => call[r].effect

\* Tokens are only ever paid out of the burst and of the time up to the last
\* refill, whatever the order of the clocks.
RateInv ==
  Rate > 0 => /\ bucket.tokens + admitted <= Burst + Rate * bucket.refreshed
              /\ admitted <= Burst + Rate * now

\* The inductive invariant.
PInv == TypeOK /\ (\A r \in Calls : CallOK(r)) /\ RateInv /\ SlotsMatch /\ MetricsAgree

-------------------------------------------------------------------------------
\* What is assumed of the constants, as the provers use it.
LEMMA Constants ==
  /\ Rate \in Nat /\ Burst \in Nat /\ MaxInFlight \in Nat /\ MaxDuration \in Nat
  /\ IsFiniteSet(Calls) /\ None \notin Int /\ None \notin Codes
  BY FlagAssumption, RequestAssumption DEF FlagsAccepted

\* A call that no step touches stays right as time goes on.
LEMMA OthersKept ==
  ASSUME TypeOK, NEW q \in Calls, CallOK(q), now' \in Nat, now' >= now,
         call'[q] = call[q], seen'[q] = seen[q]
  PROVE  CallOK(q)'
  BY Constants, SMT DEF TypeOK, CallRecord, CallOK, Expired, Allowed, MayCall

\* One call moves.
LEMMA OneMoves ==
  ASSUME TypeOK, \A q \in Calls : CallOK(q), NEW r \in Calls, NEW c,
         Go(r, c), CallOK(r)', now' = now, \A q \in Calls \ {r} : seen'[q] = seen[q]
  PROVE  \A q \in Calls : CallOK(q)'
  <1> SUFFICES ASSUME NEW q \in Calls, q # r  PROVE CallOK(q)'
    OBVIOUS
  <1>1. call'[q] = call[q]
    BY DEF Go, TypeOK
  <1>2. QED
    BY <1>1, OthersKept, SMT DEF TypeOK

-------------------------------------------------------------------------------
\* The steps of one call keep CallOK of that call.
LEMMA CallSteps ==
  ASSUME PInv, NEW r \in Calls, Send(r) \/ GiveUp(r) \/ Step(r)
  PROVE  \A q \in Calls : CallOK(q)'
  <1> USE Constants
  <1>0. call[r] \in CallRecord /\ CallOK(r) /\ TypeOK
    BY DEF PInv, TypeOK
  <1>1. CASE Send(r)
    <2>1. PICK q \in Requests[r] :
            Go(r, [Idle EXCEPT !.stage = "sent", !.method = q.method, !.cred = q.cred,
                               !.until = IF q.window = None THEN None ELSE now + q.window])
      BY <1>1 DEF Send
    <2>2. call'[r].stage = "sent" /\ call'[r].clock = 0 /\ ~ call'[r].audited
          /\ ~ call'[r].effect /\ ~ call'[r].late
      BY <1>0, <2>1 DEF Go, Idle, TypeOK
    <2>4. seen'[r] \in {None, "Canceled"} /\ now' \in Nat
      BY <1>0, <1>1 DEF Send, CallOK, TypeOK
    <2>5. CallOK(r)'
      BY <2>2, <2>4, SMT DEF CallOK, Counted, Holding, Before
    <2>3. QED
      BY <2>1, <2>5, <1>0, <1>1, OneMoves DEF Send, PInv
  <1>2. CASE decodeFails(r)
    <2>1. CallOK(r)'
      BY <1>0, <1>2 DEF decodeFails, At, Answer, Go, CallRecord, CallOK, TypeOK, Counted, Holding,
                        Before, NoWrite, Refusals, Allowed, Expired
    <2>2. QED
      BY <2>1, <1>0, <1>2, OneMoves DEF decodeFails, Answer, PInv
  <1>3. CASE Enter(r)
    <2>1. CallOK(r)'
      BY <1>0, <1>3, SMT DEF Enter, Deadline, ClientSooner, At, Go, CallRecord, CallOK, TypeOK, Counted,
                        Holding, Before, NoWrite, Refusals, Allowed, Expired
    <2>2. QED
      BY <2>1, <1>0, <1>3, OneMoves DEF Enter, PInv
  <1>4. CASE Acquire(r)
    <2>1. CallOK(r)'
      <3>1. CASE Go(r, [call[r] EXCEPT !.stage = "auth"])
        BY <1>0, <1>4, <3>1 DEF Acquire, Go, At, Answer, CallRecord, CallOK, TypeOK, Counted,
                          Holding, Before, NoWrite, Refusals, Allowed, Expired
      <3>2. CASE Answer(r, "check", "ResourceExhausted")
        BY <1>0, <1>4, <3>2 DEF Acquire, Go, At, Answer, CallRecord, CallOK, TypeOK, Counted,
                          Holding, Before, NoWrite, Refusals, Allowed, Expired
      <3>3. QED
        BY <1>4, <3>1, <3>2 DEF Acquire
    <2>2. QED
      BY <2>1, <1>0, <1>4, OneMoves DEF Acquire, Answer, PInv
  <1>5. CASE Authorize(r)
    <2>1. CallOK(r)'
      <3>1. CASE Allowed(r)
        <4>1. Go(r, [call[r] EXCEPT !.stage = "bucket", !.clock = now])
          BY <1>5, <3>1 DEF Authorize, Allowed
        <4>2. QED
          BY <1>0, <1>5, <3>1, <4>1, SMT DEF Authorize, Go, At, Answer, CallRecord, CallOK, TypeOK, Counted,
                          Holding, Before, NoWrite, Refusals, Allowed, Expired
      <3>2. CASE ~ Allowed(r)
        <4>1. PICK code \in Refusals : Answer(r, "leave", code)
          BY <1>5, <3>2 DEF Authorize, Allowed, Refusals
        <4>2. QED
          BY <1>0, <1>5, <4>1 DEF Authorize, Go, At, Answer, CallRecord, CallOK, TypeOK, Counted,
                          Holding, Before, NoWrite, Refusals, Allowed, Expired
      <3>3. QED
        BY <3>1, <3>2
    <2>2. QED
      BY <2>1, <1>0, <1>5, OneMoves DEF Authorize, Answer, PInv
  <1>6. CASE allow(r)
    <2>1. CallOK(r)'
      <3>1. CASE Go(r, [call[r] EXCEPT !.stage = "handler", !.clock = 0])
        BY <1>0, <1>6, <3>1, SMT DEF allow, Go, At, Answer, CallRecord, CallOK, TypeOK, Counted,
                          Holding, Before, NoWrite, Refusals, Allowed, Expired
      <3>2. CASE Answer(r, "leave", "ResourceExhausted")
        BY <1>0, <1>6, <3>2 DEF allow, Go, At, Answer, CallRecord, CallOK, TypeOK, Counted,
                          Holding, Before, NoWrite, Refusals, Allowed, Expired
      <3>3. QED
        BY <1>6, <3>1, <3>2 DEF allow
    <2>2. QED
      BY <2>1, <1>0, <1>6, OneMoves DEF allow, Answer, PInv
  <1>7. CASE Handle(r)
    <2>1. PICK code \in {"OK", "InvalidArgument", "DeadlineExceeded"} :
            Go(r, [call[r] EXCEPT !.stage = "leave", !.late = now >= call[r].dl, !.code = code,
                                  !.effect = code = "OK" /\ call[r].method = "Insert"])
      BY <1>7 DEF Handle
    <2>2. CallOK(r)'
      BY <1>0, <1>7, <2>1, SMT DEF Handle, At, Go, CallRecord, CallOK, TypeOK, Counted,
                        Holding, Before, NoWrite, Refusals, Allowed, Expired
    <2>3. QED
      BY <2>1, <2>2, <1>0, <1>7, OneMoves DEF Handle, PInv
  <1>8. CASE Leave(r)
    <2>1. CallOK(r)'
      BY <1>0, <1>8, SMT DEF Leave, At, Go, CallRecord, CallOK, TypeOK, Counted,
                        Holding, Before, NoWrite, Refusals, Allowed, Expired
    <2>2. QED
      BY <2>1, <1>0, <1>8, OneMoves DEF Leave, PInv
  <1>9. CASE record(r)
    <2>1. CallOK(r)'
      BY <1>0, <1>9, SMT DEF record, checked, Ended, At, Go, CallRecord, CallOK, TypeOK, Counted,
                        Holding, Before, NoWrite, Refusals, Allowed, Expired
    <2>2. QED
      BY <2>1, <1>0, <1>9, OneMoves DEF record, PInv
  <1>10. CASE Receive(r)
    <2>1. CallOK(r)'
      BY <1>0, <1>10, SMT DEF Receive, At, Go, CallRecord, CallOK, TypeOK, Counted,
                        Holding, Before, NoWrite, Refusals, Allowed, Expired
    <2>2. QED
      BY <2>1, <1>0, <1>10, OneMoves DEF Receive, PInv, TypeOK
  <1>11. CASE GiveUp(r)
    <2>1. CallOK(r)'
      BY <1>0, <1>11 DEF GiveUp, Active, CallRecord, CallOK, TypeOK, Counted,
                        Holding, Before, NoWrite, Refusals, Allowed, Expired
    <2>2. QED
      BY <2>1, <1>0, <1>11, OthersKept, SMT DEF GiveUp, PInv, TypeOK
  <1>12. QED
    BY <1>1, <1>2, <1>3, <1>4, <1>5, <1>6, <1>7, <1>8, <1>9, <1>10, <1>11 DEF Step

-------------------------------------------------------------------------------
\* Two sets of calls that differ in one call at most.
LEMMA CountByOne ==
  ASSUME NEW A \in SUBSET Calls, NEW B \in SUBSET Calls, NEW r \in Calls,
         \A q \in Calls \ {r} : q \in A <=> q \in B
  PROVE  /\ Cardinality(A) \in Nat
         /\ (r \in A <=> r \in B) => Cardinality(B) = Cardinality(A)
         /\ r \notin A /\ r \in B => Cardinality(B) = Cardinality(A) + 1
         /\ r \in A /\ r \notin B => /\ Cardinality(A) > 0
                                     /\ Cardinality(B) = Cardinality(A) - 1
  <1>1. IsFiniteSet(A) /\ IsFiniteSet(B)
    BY Constants, FS_Subset
  <1>2. Cardinality(A) \in Nat /\ Cardinality(B) \in Nat
    BY <1>1, FS_CardinalityType
  <1>3. (r \in A <=> r \in B) => A = B
    BY SMT
  <1>4. ASSUME r \notin A, r \in B  PROVE Cardinality(B) = Cardinality(A) + 1
    <2>1. B = A \cup {r}
      BY <1>4
    <2>2. QED
      BY <1>1, <1>4, <2>1, FS_AddElement
  <1>5. ASSUME r \in A, r \notin B  PROVE Cardinality(A) = Cardinality(B) + 1
    <2>1. A = B \cup {r}
      BY <1>5
    <2>2. QED
      BY <1>1, <1>5, <2>1, FS_AddElement
  <1>6. QED
    BY <1>2, <1>3, <1>4, <1>5, SMT

Tally(k) == {q \in Calls : Recorded(q) /\ call[q].code = k}

\* How one call's step moves the counts.
LEMMA CountMoves ==
  ASSUME TypeOK, NEW r \in Calls, NEW c \in CallRecord, Go(r, c)
  PROVE  /\ \A S \in {Holding, Counted} :
              /\ Cardinality(In(S)) \in Nat
              /\ (call[r].stage \in S <=> c.stage \in S) =>
                   Cardinality(In(S))' = Cardinality(In(S))
              /\ call[r].stage \notin S /\ c.stage \in S =>
                   Cardinality(In(S))' = Cardinality(In(S)) + 1
              /\ call[r].stage \in S /\ c.stage \notin S =>
                   /\ Cardinality(In(S)) > 0
                   /\ Cardinality(In(S))' = Cardinality(In(S)) - 1
         /\ \A k \in Codes :
              /\ Cardinality(Tally(k)) \in Nat
              /\ ((Recorded(r) /\ call[r].code = k) <=>
                   (c.stage \in {"replied", "done"} /\ c.audited /\ c.code = k)) =>
                   Cardinality(Tally(k))' = Cardinality(Tally(k))
              /\ ~ Recorded(r) /\ c.stage = "replied" /\ c.audited /\ c.code = k =>
                   Cardinality(Tally(k))' = Cardinality(Tally(k)) + 1
  <1>0. call'[r] = c /\ \A q \in Calls \ {r} : call'[q] = call[q]
    BY DEF Go, TypeOK
  <1>1. ASSUME NEW S \in {Holding, Counted}
        PROVE  /\ Cardinality(In(S)) \in Nat
               /\ (call[r].stage \in S <=> c.stage \in S) =>
                    Cardinality(In(S))' = Cardinality(In(S))
               /\ call[r].stage \notin S /\ c.stage \in S =>
                    Cardinality(In(S))' = Cardinality(In(S)) + 1
               /\ call[r].stage \in S /\ c.stage \notin S =>
                    /\ Cardinality(In(S)) > 0
                    /\ Cardinality(In(S))' = Cardinality(In(S)) - 1
    <2> DEFINE A == {q \in Calls : call[q].stage \in S}
               B == {q \in Calls : call'[q].stage \in S}
    <2>1. A \in SUBSET Calls /\ B \in SUBSET Calls /\ \A q \in Calls \ {r} : q \in A <=> q \in B
      BY <1>0
    <2>2. (r \in A <=> call[r].stage \in S) /\ (r \in B <=> c.stage \in S)
      BY <1>0
    <2>3. In(S) = A /\ In(S)' = B /\ Cardinality(In(S))' = Cardinality(B)
      BY DEF In, Holding, Counted
    <2> HIDE DEF A, B
    <2>4. QED
      BY <2>1, <2>2, <2>3, CountByOne
  <1>2. ASSUME NEW k \in Codes
        PROVE  /\ Cardinality(Tally(k)) \in Nat
               /\ ((Recorded(r) /\ call[r].code = k) <=>
                    (c.stage \in {"replied", "done"} /\ c.audited /\ c.code = k)) =>
                    Cardinality(Tally(k))' = Cardinality(Tally(k))
               /\ ~ Recorded(r) /\ c.stage = "replied" /\ c.audited /\ c.code = k =>
                    Cardinality(Tally(k))' = Cardinality(Tally(k)) + 1
    <2> DEFINE A == Tally(k)
               B == {q \in Calls : /\ call'[q].stage \in {"replied", "done"}
                                   /\ call'[q].audited /\ call'[q].code = k}
    <2>1. A \in SUBSET Calls /\ B \in SUBSET Calls /\ \A q \in Calls \ {r} : q \in A <=> q \in B
      BY <1>0 DEF Tally, Recorded
    <2>2. /\ r \in A <=> Recorded(r) /\ call[r].code = k
          /\ r \in B <=> c.stage \in {"replied", "done"} /\ c.audited /\ c.code = k
      BY <1>0 DEF Tally
    <2>3. Cardinality(Tally(k))' = Cardinality(B) /\ Tally(k) = A
      BY DEF Tally, Recorded
    <2> HIDE DEF A, B
    <2>4. QED
      BY <2>1, <2>2, <2>3, CountByOne, SMT
  <1>3. QED
    BY <1>1, <1>2

\* A step that neither takes nor gives back a slot, and one that neither
\* begins nor records a call.
LEMMA SlotsKept ==
  ASSUME PInv, NEW r \in Calls, NEW c \in CallRecord, Go(r, c), sem' = sem,
         call[r].stage \in Holding <=> c.stage \in Holding
  PROVE  SlotsMatch'
  BY CountMoves DEF PInv, SlotsMatch

LEMMA MetricsKept ==
  ASSUME PInv, NEW r \in Calls, NEW c \in CallRecord, Go(r, c),
         inFlight' = inFlight, outcomes' = outcomes,
         call[r].stage \in Counted <=> c.stage \in Counted,
         Recorded(r) <=> (c.stage \in {"replied", "done"} /\ c.audited),
         Recorded(r) => c.code = call[r].code
  PROVE  MetricsAgree'
  <1>1. \A k \in Codes : Cardinality(Tally(k))' = Cardinality(Tally(k))
    BY CountMoves DEF PInv
  <1>2. inFlight' = Cardinality(In(Counted))'
    BY CountMoves DEF PInv, MetricsAgree
  <1>3. \A k \in Codes : outcomes'[k] = Cardinality(Tally(k))'
    BY <1>1 DEF PInv, MetricsAgree, Tally
  <1>4. QED
    BY <1>2, <1>3 DEF MetricsAgree, Tally

\* The bound on what the bucket lets through: with the distributive law, as
\* the provers cannot multiply.
LEMMA Distributes ==
  ASSUME NEW a \in Nat, NEW x \in Int, NEW y \in Int
  PROVE  (x - y) * a = a * x - a * y
  BY Z3

LEMMA Grows ==
  ASSUME NEW a \in Nat, NEW x \in Nat, NEW y \in Nat, x <= y
  PROVE  a * x <= a * y /\ a * x \in Nat /\ a * y \in Nat /\ a * 0 = 0
  BY Z3

LEMMA AllowsInRate ==
  ASSUME PInv, NEW r \in Calls, allow(r)
  PROVE  RateInv' /\ bucket' \in [tokens : Int, refreshed : Nat] /\ admitted' \in Nat
  <1> DEFINE t == call[r].clock
             b == refill(t)
  <1>0. /\ t \in Nat /\ t <= now /\ now \in Nat /\ admitted \in Nat /\ Rate \in Nat /\ Burst \in Nat
        /\ bucket \in [tokens : Int, refreshed : Nat]
    BY Constants DEF PInv, TypeOK, CallRecord, CallOK
  <1>1. (t - bucket.refreshed) * Rate = Rate * t - Rate * bucket.refreshed
        /\ Rate * t <= Rate * now /\ Rate * t \in Nat /\ Rate * bucket.refreshed \in Nat
        /\ Rate * now \in Nat
    BY <1>0, Distributes, Grows, SMT
  <1>2. b = [tokens |-> b.tokens, refreshed |-> t] /\ b.tokens \in Int
        /\ b.tokens <= bucket.tokens + (Rate * t - Rate * bucket.refreshed)
    BY <1>0, <1>1, SMT DEF refill, minFloat
  <1>3. \/ /\ bucket' = IF Rate = 0 THEN bucket ELSE [b EXCEPT !.tokens = @ - 1]
           /\ Rate = 0 \/ b.tokens >= 1
           /\ admitted' = admitted + 1
        \/ bucket' = b /\ admitted' = admitted /\ Rate # 0
    BY DEF allow
  <1>4. now' = now
    BY DEF allow
  <1>5. Rate > 0 => /\ bucket.tokens + admitted <= Burst + Rate * bucket.refreshed
                    /\ admitted <= Burst + Rate * now
    BY DEF PInv, RateInv
  <1> HIDE DEF b, t
  <1>6. CASE Rate = 0
    BY <1>0, <1>3, <1>6, SMT DEF RateInv
  <1>7. CASE bucket' = [b EXCEPT !.tokens = @ - 1] /\ b.tokens >= 1 /\ admitted' = admitted + 1
             /\ Rate # 0
    <2>1. bucket' = [tokens |-> b.tokens - 1, refreshed |-> t]
      BY <1>2, <1>7, SMT
    <2>2. bucket'.tokens + admitted' <= Burst + Rate * t
      BY <1>0, <1>1, <1>2, <1>5, <1>7, <2>1, SMT
    <2>3. admitted' <= Burst + Rate * now
      BY <1>0, <1>1, <1>2, <1>5, <1>7, SMT
    <2>4. QED
      BY <1>0, <1>2, <1>4, <1>7, <2>1, <2>2, <2>3, SMT DEF RateInv
  <1>8. CASE bucket' = b /\ admitted' = admitted /\ Rate # 0
    BY <1>0, <1>1, <1>2, <1>4, <1>5, <1>8, SMT DEF RateInv
  <1>9. QED
    BY <1>3, <1>6, <1>7, <1>8

-------------------------------------------------------------------------------
\* The steps of one call keep types, bounds and counts.
LEMMA CallCounts ==
  ASSUME PInv, NEW r \in Calls, Send(r) \/ GiveUp(r) \/ Step(r)
  PROVE  TypeOK' /\ RateInv' /\ SlotsMatch' /\ MetricsAgree'
  <1> USE Constants
  <1>0. call[r] \in CallRecord /\ CallOK(r) /\ TypeOK /\ RateInv
    BY DEF PInv, TypeOK
  <1>q. ASSUME NEW c \in CallRecord, Go(r, c),
               UNCHANGED <<now, server, sem, bucket, admitted, inFlight, outcomes>>,
               seen' \in [Calls -> Codes \cup {"Unavailable", None}],
               call[r].stage \in Holding <=> c.stage \in Holding,
               call[r].stage \in Counted <=> c.stage \in Counted,
               Recorded(r) <=> (c.stage \in {"replied", "done"} /\ c.audited),
               Recorded(r) => c.code = call[r].code
        PROVE  TypeOK' /\ RateInv' /\ SlotsMatch' /\ MetricsAgree'
    <2>1. TypeOK'
      BY <1>0, <1>q DEF TypeOK, Go
    <2>2. RateInv'
      BY <1>0, <1>q DEF RateInv
    <2>3. QED
      BY <1>q, <2>1, <2>2, SlotsKept, MetricsKept
  <1>1. CASE Send(r)
    <2>1. PICK q \in Requests[r] :
            Go(r, [Idle EXCEPT !.stage = "sent", !.method = q.method, !.cred = q.cred,
                               !.until = IF q.window = None THEN None ELSE now + q.window])
      BY <1>1 DEF Send
    <2>2. q \in [method : Methods, cred : Creds, window : Nat \cup {None}]
      BY RequestAssumption
    <2> DEFINE u == IF q.window = None THEN None ELSE now + q.window
               c == [Idle EXCEPT !.stage = "sent", !.method = q.method, !.cred = q.cred,
                                 !.until = u]
    <2>3. Go(r, c)
      BY <2>1
    <2>4. u \in Nat \cup {None}
      <3>1. CASE q.window = None
        BY <3>1
      <3>2. CASE q.window # None
        <4>1. q.window \in Nat /\ now \in Nat
          BY <1>0, <2>2, <3>2 DEF TypeOK
        <4>2. QED
          BY <3>2, <4>1, SMT
      <3>3. QED
        BY <3>1, <3>2
    <2> HIDE DEF u
    <2>5. c \in CallRecord /\ c.stage = "sent"
      BY <2>2, <2>4 DEF Idle, CallRecord, Stages, Codes
    <2> HIDE DEF c
    <2>6. QED
      BY <1>0, <1>1, <2>3, <2>5, <1>q DEF Send, Recorded, Holding, Counted, TypeOK
  <1>2. CASE decodeFails(r)
    <2> DEFINE c == [call[r] EXCEPT !.stage = "replied", !.code = "Internal"]
    <2>1. c \in CallRecord /\ c.stage = "replied" /\ c.audited = call[r].audited
      BY <1>0 DEF CallRecord, Stages, Codes
    <2>2. Go(r, c)
      BY <1>2 DEF decodeFails, Answer
    <2> HIDE DEF c
    <2>3. QED
      BY <1>0, <1>2, <2>1, <2>2, <1>q DEF decodeFails, At, CallOK, Recorded, Holding, Counted, TypeOK
  <1>5. CASE Authorize(r)
    <2>1. CASE Go(r, [call[r] EXCEPT !.stage = "bucket", !.clock = now])
      <3> DEFINE c == [call[r] EXCEPT !.stage = "bucket", !.clock = now]
      <3>1. c \in CallRecord /\ c.stage = "bucket"
        BY <1>0 DEF CallRecord, Stages, TypeOK
      <3>2. Go(r, c)
        BY <2>1
      <3> HIDE DEF c
      <3>3. QED
        BY <1>0, <1>5, <3>1, <3>2, <1>q DEF Authorize, At, Recorded, Holding, Counted, TypeOK
    <2>2. ASSUME NEW code \in Refusals, Answer(r, "leave", code)
          PROVE  TypeOK' /\ RateInv' /\ SlotsMatch' /\ MetricsAgree'
      <3> DEFINE c == [call[r] EXCEPT !.stage = "leave", !.code = code]
      <3>1. c \in CallRecord /\ c.stage = "leave"
        BY <1>0 DEF CallRecord, Stages, Codes
      <3>2. Go(r, c)
        BY <2>2 DEF Answer
      <3> HIDE DEF c
      <3>3. QED
        BY <1>0, <1>5, <3>1, <3>2, <1>q DEF Authorize, At, Recorded, Holding, Counted, TypeOK
    <2>3. QED
      BY <1>5, <2>1, <2>2 DEF Authorize, Refusals
  <1>7. CASE Handle(r)
    <2>1. PICK code \in {"OK", "InvalidArgument", "DeadlineExceeded"} :
            Go(r, [call[r] EXCEPT !.stage = "leave", !.late = now >= call[r].dl, !.code = code,
                                  !.effect = code = "OK" /\ call[r].method = "Insert"])
      BY <1>7 DEF Handle
    <2> DEFINE c == [call[r] EXCEPT !.stage = "leave", !.late = now >= call[r].dl, !.code = code,
                                    !.effect = code = "OK" /\ call[r].method = "Insert"]
    <2>2. c \in CallRecord /\ c.stage = "leave"
      <3>1. ASSUME NEW l \in BOOLEAN, NEW e \in BOOLEAN
            PROVE  LET d == [call[r] EXCEPT !.stage = "leave", !.late = l, !.code = code,
                                            !.effect = e]
                   IN  d \in CallRecord /\ d.stage = "leave"
        BY <1>0 DEF CallRecord, Stages, Codes
      <3>2. (now >= call[r].dl) \in BOOLEAN
            /\ (code = "OK" /\ call[r].method = "Insert") \in BOOLEAN
        BY <1>0, SMT DEF CallRecord, TypeOK
      <3>3. QED
        BY <3>1, <3>2, Zenon
    <2>3. Go(r, c)
      BY <2>1
    <2> HIDE DEF c
    <2>4. QED
      BY <1>0, <1>7, <2>2, <2>3, <1>q DEF Handle, At, Recorded, Holding, Counted, TypeOK
  <1>10. CASE Receive(r)
    <2> DEFINE c == [call[r] EXCEPT !.stage = "done", !.until = None]
    <2>1. c \in CallRecord /\ c.stage = "done" /\ c.audited = call[r].audited
          /\ c.code = call[r].code /\ call[r].code \in Codes
      BY <1>0 DEF CallRecord, Stages
    <2>2. Go(r, c)
      BY <1>10 DEF Receive
    <2>3. seen' \in [Calls -> Codes \cup {"Unavailable", None}]
      BY <1>0, <1>10, <2>1 DEF Receive, TypeOK, Codes
    <2> HIDE DEF c
    <2>4. QED
      BY <1>0, <1>10, <2>1, <2>2, <2>3, <1>q DEF Receive, At, Recorded, Holding, Counted, TypeOK
  <1>11. CASE GiveUp(r)
    <2>1. TypeOK'
      BY <1>0, <1>11 DEF GiveUp, TypeOK, Codes
    <2>2. QED
      BY <1>11, <2>1 DEF GiveUp, PInv, RateInv, SlotsMatch, MetricsAgree, In, Recorded
  <1>3. CASE Enter(r)
    <2> DEFINE c == Deadline(r)
    <2>1. c \in CallRecord /\ c.stage \in {"acquire", "check"} /\ c.audited
      <3> DEFINE d == [call[r] EXCEPT !.audited = TRUE]
      <3>1. d \in CallRecord /\ d.audited /\ d.until = call[r].until
        BY <1>0 DEF CallRecord
      <3>2. \/ c = [d EXCEPT !.stage = "check", !.code = "DeadlineExceeded"]
            \/ c = [d EXCEPT !.stage = "check", !.code = "Canceled"]
            \/ call[r].until # None /\ c = [d EXCEPT !.stage = "acquire", !.dl = d.until]
            \/ c = [d EXCEPT !.stage = "acquire", !.dl = now + MaxDuration, !.guarded = TRUE]
        BY Zenon DEF Deadline, ClientSooner
      <3> HIDE DEF c, d
      <3>3. now + MaxDuration \in Nat /\ (call[r].until # None => d.until \in Nat)
        BY <1>0, <3>1, SMT DEF TypeOK, CallRecord
      <3>4. CASE c = [d EXCEPT !.stage = "check", !.code = "DeadlineExceeded"]
        BY <3>1, <3>4 DEF CallRecord, Stages, Codes
      <3>5. CASE c = [d EXCEPT !.stage = "check", !.code = "Canceled"]
        BY <3>1, <3>5 DEF CallRecord, Stages, Codes
      <3>6. CASE call[r].until # None /\ c = [d EXCEPT !.stage = "acquire", !.dl = d.until]
        BY <3>1, <3>3, <3>6 DEF CallRecord, Stages
      <3>7. CASE c = [d EXCEPT !.stage = "acquire", !.dl = now + MaxDuration, !.guarded = TRUE]
        BY <3>1, <3>3, <3>7 DEF CallRecord, Stages
      <3>8. QED
        BY <3>2, <3>4, <3>5, <3>6, <3>7
    <2>2. Go(r, c)
      BY <1>3 DEF Enter
    <2> HIDE DEF c
    <2>3. call[r].stage = "sent" /\ inFlight' = inFlight + 1
          /\ UNCHANGED <<now, server, seen, sem, bucket, admitted, outcomes>>
      BY <1>3 DEF Enter, At, begin
    <2>4. TypeOK' /\ RateInv'
      BY <1>0, <2>1, <2>2, <2>3, SMT DEF TypeOK, Go, RateInv
    <2>5. SlotsMatch'
      BY <2>1, <2>2, <2>3, SlotsKept DEF Holding
    <2>6. Cardinality(In(Counted))' = Cardinality(In(Counted)) + 1
      BY <1>0, <2>1, <2>2, <2>3, CountMoves DEF Counted, Holding
    <2>7. \A k \in Codes : Cardinality(Tally(k))' = Cardinality(Tally(k))
      BY <1>0, <2>1, <2>2, <2>3, CountMoves DEF Recorded
    <2>8. MetricsAgree'
      BY <2>3, <2>6, <2>7 DEF PInv, MetricsAgree, Tally
    <2>9. QED
      BY <2>4, <2>5, <2>8
  <1>4. CASE Acquire(r)
    <2>1. CASE sem < MaxInFlight /\ sem' = sem + 1 /\ Go(r, [call[r] EXCEPT !.stage = "auth"])
      <3> DEFINE c == [call[r] EXCEPT !.stage = "auth"]
      <3>1. c \in CallRecord /\ c.stage = "auth"
        BY <1>0 DEF CallRecord, Stages
      <3>2. Go(r, c)
        BY <2>1
      <3> HIDE DEF c
      <3>3. call[r].stage = "acquire"
            /\ UNCHANGED <<now, server, seen, bucket, admitted, inFlight, outcomes>>
        BY <1>4 DEF Acquire, At
      <3>4. TypeOK' /\ RateInv'
        BY <1>0, <2>1, <3>1, <3>2, <3>3, SMT DEF TypeOK, Go, RateInv
      <3>5. Cardinality(In(Holding))' = Cardinality(In(Holding)) + 1
        BY <1>0, <3>1, <3>2, <3>3, CountMoves DEF Holding
      <3>6. SlotsMatch'
        BY <1>0, <2>1, <3>5, SMT DEF PInv, SlotsMatch, TypeOK
      <3>7. MetricsAgree'
        BY <3>1, <3>2, <3>3, MetricsKept DEF Counted, Holding, Recorded
      <3>8. QED
        BY <3>4, <3>6, <3>7
    <2>2. CASE Answer(r, "check", "ResourceExhausted") /\ sem' = sem
      <3> DEFINE c == [call[r] EXCEPT !.stage = "check", !.code = "ResourceExhausted"]
      <3>1. c \in CallRecord /\ c.stage = "check"
        BY <1>0 DEF CallRecord, Stages, Codes, Refusals
      <3>2. Go(r, c)
        BY <2>2 DEF Answer
      <3> HIDE DEF c
      <3>3. QED
        BY <1>0, <1>4, <2>2, <3>1, <3>2, <1>q DEF Acquire, At, Recorded, Holding, Counted, TypeOK
    <2>3. QED
      BY <1>4, <2>1, <2>2 DEF Acquire
  <1>6. CASE allow(r)
    <2>1. call[r].stage = "bucket" /\ UNCHANGED <<now, server, seen, sem, inFlight, outcomes>>
      BY <1>6 DEF allow, At
    <2>2. PICK c \in CallRecord : Go(r, c) /\ c.stage \in {"handler", "leave"}
      <3>1. CASE Go(r, [call[r] EXCEPT !.stage = "handler", !.clock = 0])
        <4> DEFINE c == [call[r] EXCEPT !.stage = "handler", !.clock = 0]
        <4>1. c \in CallRecord /\ c.stage = "handler"
          BY <1>0 DEF CallRecord, Stages
        <4>2. Go(r, c)
          BY <3>1
        <4> HIDE DEF c
        <4>3. QED
          BY <4>1, <4>2
      <3>2. CASE Answer(r, "leave", "ResourceExhausted")
        <4> DEFINE c == [call[r] EXCEPT !.stage = "leave", !.code = "ResourceExhausted"]
        <4>1. c \in CallRecord /\ c.stage = "leave"
          BY <1>0 DEF CallRecord, Stages, Codes, Refusals
        <4>2. Go(r, c)
          BY <3>2 DEF Answer
        <4> HIDE DEF c
        <4>3. QED
          BY <4>1, <4>2
      <3>3. QED
        BY <1>6, <3>1, <3>2 DEF allow
    <2>3. TypeOK' /\ RateInv'
      BY <1>0, <1>6, <2>1, <2>2, AllowsInRate DEF TypeOK, Go
    <2>4. SlotsMatch' /\ MetricsAgree'
      BY <2>1, <2>2, SlotsKept, MetricsKept DEF Holding, Counted, Recorded
    <2>5. QED
      BY <2>3, <2>4
  <1>8. CASE Leave(r)
    <2> DEFINE c == [call[r] EXCEPT !.stage = "check"]
    <2>1. c \in CallRecord /\ c.stage = "check"
      BY <1>0 DEF CallRecord, Stages
    <2>2. Go(r, c)
      BY <1>8 DEF Leave
    <2> HIDE DEF c
    <2>3. call[r].stage = "leave" /\ sem' = sem - 1
          /\ UNCHANGED <<now, server, seen, bucket, admitted, inFlight, outcomes>>
      BY <1>8 DEF Leave, At
    <2>4. Cardinality(In(Holding)) > 0
          /\ Cardinality(In(Holding))' = Cardinality(In(Holding)) - 1
      BY <1>0, <2>1, <2>2, <2>3, CountMoves DEF Holding
    <2>5. SlotsMatch' /\ sem' \in Nat
      BY <1>0, <2>3, <2>4, SMT DEF PInv, SlotsMatch, TypeOK
    <2>6. TypeOK' /\ RateInv'
      BY <1>0, <2>1, <2>2, <2>3, <2>5 DEF TypeOK, Go, RateInv
    <2>7. MetricsAgree'
      BY <2>1, <2>2, <2>3, MetricsKept DEF Counted, Holding, Recorded
    <2>8. QED
      BY <2>5, <2>6, <2>7
  <1>9. CASE record(r)
    <2> DEFINE c == [call[r] EXCEPT !.stage = "replied", !.code = checked(r), !.dl = 0,
                                    !.guarded = FALSE]
    <2>0. checked(r) \in Codes
      BY <1>0 DEF checked, CallRecord, Codes
    <2>1. c \in CallRecord /\ c.stage = "replied" /\ c.audited = call[r].audited
          /\ c.code = checked(r)
      BY <1>0, <2>0 DEF CallRecord, Stages
    <2>2. Go(r, c)
      BY <1>9 DEF record
    <2> HIDE DEF c
    <2>3. call[r].stage = "check" /\ inFlight' = inFlight - 1 /\ call[r].audited
          /\ outcomes' = [outcomes EXCEPT ![checked(r)] = @ + 1]
          /\ UNCHANGED <<now, server, seen, sem, bucket, admitted>>
      BY <1>0, <1>9 DEF record, At, CallOK, Counted
    <2>4. Cardinality(In(Counted)) > 0 /\ Cardinality(In(Counted)) \in Nat
          /\ Cardinality(In(Counted))' = Cardinality(In(Counted)) - 1
      BY <1>0, <2>1, <2>2, <2>3, CountMoves DEF Holding, Counted
    <2>5. ~ Recorded(r)
      BY <2>3 DEF Recorded
    <2>6. \A k \in Codes \ {checked(r)} : Cardinality(Tally(k))' = Cardinality(Tally(k))
      BY <1>0, <2>1, <2>2, <2>5, CountMoves
    <2> DEFINE k0 == checked(r)
    <2>z. k0 \in Codes /\ k0 = checked(r)
      BY <2>0
    <2> HIDE DEF k0
    <2>7. \A k \in Codes : k = k0 =>
            Cardinality(Tally(k))' = Cardinality(Tally(k)) + 1 /\ Cardinality(Tally(k)) \in Nat
      BY <1>0, <2>1, <2>2, <2>3, <2>5, <2>z, CountMoves
    <2>8. inFlight' = Cardinality(In(Counted))' /\ inFlight' \in Nat
      BY <2>3, <2>4, SMT DEF PInv, MetricsAgree
    <2>9. \A k \in Codes : outcomes'[k] = Cardinality(Tally(k))'
      <3>1. outcomes \in [Codes -> Nat] /\ \A k \in Codes : outcomes[k] = Cardinality(Tally(k))
        BY <1>0 DEF PInv, MetricsAgree, Tally, TypeOK
      <3>2. QED
        BY <2>3, <2>6, <2>7, <2>z, <3>1, SMT
    <2>10. TypeOK' /\ RateInv'
      BY <1>0, <2>0, <2>1, <2>2, <2>3, <2>8, SMT DEF TypeOK, Go, RateInv
    <2>11. SlotsMatch'
      BY <2>1, <2>2, <2>3, SlotsKept DEF Holding
    <2>12. QED
      BY <2>8, <2>9, <2>10, <2>11 DEF MetricsAgree, Tally
  <1>12. QED
    BY <1>1, <1>2, <1>3, <1>4, <1>5, <1>6, <1>7, <1>8, <1>9, <1>10, <1>11 DEF Step

-------------------------------------------------------------------------------
\* The process ends.
LEMMA GoneKeeps ==
  ASSUME PInv, Gone, now' = now, seen' = seen \/ Cut
  PROVE  PInv'
  <1> USE Constants
  <1>0. \A r \in Calls : /\ call[r] \in CallRecord /\ CallOK(r)
                         /\ call'[r].stage = "done" /\ ~ call'[r].audited /\ call'[r].clock = 0
                         /\ call'[r].effect = call[r].effect /\ call'[r].late = call[r].late
                         /\ call'[r].method = call[r].method /\ call'[r].cred = call[r].cred
    BY DEF PInv, TypeOK, Gone, Idle
  <1>1. call' \in [Calls -> CallRecord]
    <2>1. ASSUME NEW m \in Methods, NEW k \in Creds, NEW e \in BOOLEAN, NEW l \in BOOLEAN
          PROVE  [Idle EXCEPT !.stage = "done", !.method = m, !.cred = k, !.effect = e,
                              !.late = l] \in CallRecord
      BY DEF Idle, CallRecord, Stages, Codes
    <2>2. \A r \in Calls : /\ call[r].method \in Methods /\ call[r].cred \in Creds
                           /\ call[r].effect \in BOOLEAN /\ call[r].late \in BOOLEAN
      BY <1>0 DEF CallRecord
    <2>3. QED
      BY <2>1, <2>2, Zenon DEF Gone
  <1>2. seen' \in [Calls -> Codes \cup {"Unavailable", None}]
    BY DEF PInv, TypeOK, Cut
  <1>3. TypeOK'
    <2>1. bucket' \in [tokens : Int, refreshed : Nat] /\ outcomes' \in [Codes -> Nat]
      <3>1. bucket' = [tokens |-> Burst, refreshed |-> 0] /\ outcomes' = [c \in Codes |-> 0]
        BY DEF Gone, newTokenBucket
      <3>2. QED
        BY <3>1, SMT
    <2>2. sem' = 0 /\ inFlight' = 0 /\ admitted' = 0 /\ server' = "down" /\ now' \in Nat
      BY DEF Gone, PInv, TypeOK
    <2>3. QED
      BY <1>1, <1>2, <2>1, <2>2 DEF TypeOK
  <1>4. ASSUME NEW r \in Calls  PROVE CallOK(r)'
    <2>1. seen'[r] = seen[r] \/ seen'[r] = "Unavailable"
      BY DEF Cut, PInv, TypeOK
    <2>2. seen'[r] \in {"OK"} \cup NoWrite =>
            call[r].stage = "done" /\ seen[r] = seen'[r]
      BY <1>0, <2>1 DEF CallOK, NoWrite, Refusals, Codes
    <2>3. Allowed(r)' = Allowed(r) /\ call'[r].clock <= now'
      BY <1>0, <1>3, SMT DEF Allowed, TypeOK
    <2>4. QED
      BY <1>0, <2>2, <2>3 DEF CallOK, Counted, Holding, Before
  <1>5. RateInv'
    <2>1. now \in Nat /\ admitted' = 0 /\ bucket' = [tokens |-> Burst, refreshed |-> 0]
      BY DEF Gone, newTokenBucket, PInv, TypeOK
    <2>2. Rate * now \in Nat /\ Rate * 0 = 0
      BY <2>1, Grows, SMT
    <2>3. QED
      BY <2>1, <2>2, SMT DEF RateInv
  <1>6. Cardinality(In(Holding))' = 0 /\ Cardinality(In(Counted))' = 0
    <2>1. {r \in Calls : call'[r].stage \in Holding} = {}
          /\ {r \in Calls : call'[r].stage \in Counted} = {}
      BY <1>0 DEF Holding, Counted
    <2>2. QED
      BY <2>1, FS_EmptySet DEF In, Holding, Counted
  <1>7. SlotsMatch'
    <2>1. sem' = 0
      BY DEF Gone
    <2>2. QED
      BY <1>6, <2>1, SMT DEF SlotsMatch
  <1>8. \A k \in Codes : {r \in Calls : Recorded(r) /\ call[r].code = k}' = {}
    BY <1>0 DEF Recorded
  <1>9. MetricsAgree'
    BY <1>6, <1>8, FS_EmptySet DEF MetricsAgree, Gone
  <1>10. QED
    BY <1>3, <1>4, <1>5, <1>7, <1>9 DEF PInv

\* PInv is inductive.
LEMMA PInvInductive == PInv /\ [Next]_vars => PInv'
  <1> SUFFICES ASSUME PInv, [Next]_vars  PROVE PInv'
    OBVIOUS
  <1> USE Constants
  <1>1. ASSUME NEW r \in Calls, Send(r) \/ GiveUp(r) \/ Step(r)  PROVE PInv'
    BY <1>1, CallSteps, CallCounts DEF PInv
  <1>2. CASE Signal
    BY <1>2, SMT DEF Signal, PInv, TypeOK, CallOK, Allowed, Expired, RateInv, SlotsMatch, MetricsAgree,
                In, Recorded
  <1>3. CASE Drained
    BY <1>3, GoneKeeps DEF Drained
  <1>4. CASE Exit
    BY <1>4, GoneKeeps DEF Exit
  <1>5. CASE Tick
    <2>1. TypeOK' /\ now' >= now /\ now' \in Nat /\ now \in Nat
      BY <1>5, SMT DEF Tick, PInv, TypeOK
    <2>2. \A q \in Calls : CallOK(q)'
      BY <1>5, <2>1, OthersKept DEF Tick, PInv
    <2>3. Rate * now <= Rate * now' /\ Rate * now \in Nat /\ Rate * now' \in Nat
      BY <2>1, Grows
    <2>4. RateInv'
      BY <1>5, <2>3, SMT DEF Tick, PInv, RateInv, TypeOK
    <2>5. SlotsMatch' /\ MetricsAgree'
      BY <1>5 DEF Tick, PInv, SlotsMatch, MetricsAgree, In, Recorded
    <2>6. QED
      BY <2>1, <2>2, <2>4, <2>5 DEF PInv
  <1>6. CASE UNCHANGED vars
    BY <1>6, SMT DEF vars, PInv, TypeOK, CallOK, Allowed, Expired, RateInv, SlotsMatch, MetricsAgree,
                In, Recorded
  <1>7. QED
    BY <1>1, <1>2, <1>3, <1>4, <1>5, <1>6 DEF Next

LEMMA PInvInit == Init => PInv
  <1> SUFFICES ASSUME Init  PROVE PInv
    OBVIOUS
  <1> USE Constants
  <1>0. /\ now = 0 /\ seen = [r \in Calls |-> None] /\ bucket = newTokenBucket /\ admitted = 0
        /\ \A r \in Calls : call[r] = Idle
    BY DEF Init
  <1>1. TypeOK
    <2>1. Idle \in CallRecord
      BY DEF Idle, CallRecord, Stages, Methods, Creds, Codes
    <2>2. QED
      BY <2>1, SMT DEF Init, TypeOK, newTokenBucket
  <1>2. \A r \in Calls : CallOK(r)
    BY <1>0, SMT DEF CallOK, Idle, Before, Counted, Holding
  <1>3. RateInv
    BY <1>0, SMT DEF RateInv, newTokenBucket
  <1>4. In(Holding) = {} /\ In(Counted) = {}
        /\ \A k \in Codes : {r \in Calls : Recorded(r) /\ call[r].code = k} = {}
    BY <1>0, SMT DEF In, Recorded, Idle, Holding, Counted
  <1>5. SlotsMatch /\ MetricsAgree
    BY <1>4, FS_EmptySet, SMT DEF Init, SlotsMatch, MetricsAgree
  <1>6. QED
    BY <1>1, <1>2, <1>3, <1>5 DEF PInv

\* PInv holds in every reachable state.
THEOREM PipelineSafe == Spec => []PInv
  BY PInvInit, PInvInductive, PTL DEF Spec

\* ConcurrencyInterceptor: a slot is held exactly between its acquisition and
\* its release, and never more than the limit are taken.
THEOREM SlotsNeverLeak == Spec => []SlotsMatch
  BY PipelineSafe, PTL DEF PInv

\* RateLimitInterceptor: no interleaving of clock readings lets more calls
\* through than the burst and the rate allow.
THEOREM RateNeverExceeded == Spec => []RateBound
  <1>1. PInv => RateBound
    BY DEF PInv, RateInv, RateBound
  <1>2. QED
    BY <1>1, PipelineSafe, PTL

\* DeadlineInterceptor: no client is told of success for late work.
THEOREM SuccessIsInTime == Spec => []NeverLate
  <1>1. PInv => NeverLate
    BY Constants DEF PInv, NeverLate, CallOK, Codes
  <1>2. QED
    BY <1>1, PipelineSafe, PTL

\* AuthInterceptor and the refusals: writes are those of keys that may write,
\* and refused calls have written nothing.
THEOREM EffectsAreAdmitted == Spec => []EffectsAdmitted
  <1>1. PInv => EffectsAdmitted
    BY Constants DEF PInv, EffectsAdmitted, CallOK, Allowed, NoWrite, Refusals, Codes
  <1>2. QED
    BY <1>1, PipelineSafe, PTL

\* Metrics: gauge and counters agree with the calls and their replies.
THEOREM MetricsAreExact == Spec => []MetricsAgree
  BY PipelineSafe, PTL DEF PInv
===============================================================================
