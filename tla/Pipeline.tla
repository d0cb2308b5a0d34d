------------------------------- MODULE Pipeline -------------------------------
(***************************************************************************)
(* The way of unary calls through the server: the generated method handler *)
(* decodes the message, then the interceptors run in the order runServe    *)
(* chains them (audit and metrics, deadline, concurrency limit, auth, rate *)
(* limit), then the service method, and the interceptors return in the     *)
(* opposite order.  Each call is a goroutine; they share the semaphore,    *)
(* the token bucket and the counters.  Clients have deadlines of their     *)
(* own and may give up.  The server is shut down by a signal, or dies.     *)
(* Keys do not change meanwhile, which is the subject of AuthKeys.         *)
(***************************************************************************)
EXTENDS Integers, FiniteSets

CONSTANTS
  Calls,        \* calls made by clients, each made once
  Requests,     \* for each, what may be called, with which key, in how much time (or None)
  MaxDuration,  \* --max-request-duration
  MaxInFlight,  \* --max-concurrent-requests
  Rate, Burst,  \* --max-requests-per-second, --request-rate-burst
  MaxTime,      \* bound on the clock
  Secured,      \* not --insecure
  None

\* runServe refuses other flags.
FlagsAccepted ==
  /\ MaxDuration \in Nat \ {0} /\ MaxInFlight \in Nat \ {0}
  /\ Rate \in Nat /\ Burst \in Nat \ {0}

ASSUME FlagAssumption ==
  FlagsAccepted /\ MaxTime \in Nat /\ IsFiniteSet(Calls) /\ Secured \in BOOLEAN

\* A method that writes, one that reads under its context, the health check.
Methods == {"Insert", "Query", "Check"}
\* What the key presented may do; "none" is no key or a dead one.
Creds == {"none", "readonly", "readwrite"}

Refusals == {"Unauthenticated", "PermissionDenied", "ResourceExhausted"}
Codes == Refusals \cup {"OK", "InvalidArgument", "DeadlineExceeded", "Canceled", "Internal"}

ASSUME RequestAssumption ==
  /\ None \notin Int \cup Codes \cup {"Unavailable"}
  /\ Requests \in [Calls -> SUBSET [method : Methods, cred : Creds, window : Nat \cup {None}]]

MayCall(m, c) == \/ m = "Check"
                 \/ m = "Query"  /\ c # "none"
                 \/ m = "Insert" /\ c = "readwrite"

VARIABLES
  now,
  server,     \* "up", "draining" or "down"
  call,       \* the goroutine of each call
  seen,       \* what the client was told
  sem,        \* slots of the semaphore that are taken
  bucket,     \* the token bucket
  admitted,   \* requests the bucket let through (history)
  inFlight,   \* Metrics.inFlight
  outcomes    \* Metrics.outcomes

vars == <<now, server, call, seen, sem, bucket, admitted, inFlight, outcomes>>

Stages == {"idle", "sent", "acquire", "auth", "bucket", "handler", "leave", "check", "replied",
           "done"}
Holding == {"auth", "bucket", "handler", "leave"}
Counted == Holding \cup {"acquire", "check"}
Recorded(r) == call[r].stage \in {"replied", "done"} /\ call[r].audited

Idle == [stage |-> "idle", method |-> "Check", cred |-> "none", until |-> None, dl |-> 0,
         guarded |-> FALSE, clock |-> 0, code |-> "OK", late |-> FALSE, effect |-> FALSE,
         audited |-> FALSE]

newTokenBucket == [tokens |-> Burst, refreshed |-> 0]

Init ==
  /\ now = 0
  /\ server = "up"
  /\ call = [r \in Calls |-> Idle]
  /\ seen = [r \in Calls |-> None]
  /\ sem = 0
  /\ bucket = newTokenBucket
  /\ admitted = 0
  /\ inFlight = 0
  /\ outcomes = [c \in Codes |-> 0]

Alive == server # "down"

\* Call r is at stage s and goes on with the fields given.
At(r, s) == Alive /\ call[r].stage = s
Go(r, c) == call' = [call EXCEPT ![r] = c]
Answer(r, s, code) == Go(r, [call[r] EXCEPT !.stage = s, !.code = code])

-------------------------------------------------------------------------------
\* The client: remoteBackend and the generated stubs.  remoteBackend always
\* sets a deadline; other clients may have none.
Send(r) ==
  /\ call[r].stage = "idle"
  /\ server = "up"
  /\ \E q \in Requests[r] :
       Go(r, [Idle EXCEPT !.stage = "sent", !.method = q.method, !.cred = q.cred,
                          !.until = IF q.window = None THEN None ELSE now + q.window])
  /\ UNCHANGED <<now, server, seen, sem, bucket, admitted, inFlight, outcomes>>

Active(r) == call[r].stage \notin {"idle", "done"}

Expired(r) == call[r].until # None /\ now >= call[r].until

\* The reply reaches the client, unless its own deadline has passed.
Receive(r) ==
  /\ At(r, "replied")
  /\ seen[r] = None
  /\ seen' = [seen EXCEPT ![r] = IF Expired(r) THEN "DeadlineExceeded" ELSE call[r].code]
  /\ Go(r, [call[r] EXCEPT !.stage = "done", !.until = None])
  /\ UNCHANGED <<now, server, sem, bucket, admitted, inFlight, outcomes>>

\* It gives up, when its deadline passes or because it is interrupted.  (A
\* client without a deadline waits.)
GiveUp(r) ==
  /\ Alive
  /\ Active(r)
  /\ seen[r] = None /\ call[r].until # None
  /\ seen' = [seen EXCEPT ![r] = "Canceled"]
  /\ UNCHANGED <<now, server, call, sem, bucket, admitted, inFlight, outcomes>>

-------------------------------------------------------------------------------
\* The generated handler: a message that does not decode is answered before
\* any interceptor runs.  AuditInterceptor counts the call, then
\* DeadlineInterceptor fixes the deadline of the context.
decodeFails(r) ==
  /\ At(r, "sent")
  /\ Answer(r, "replied", "Internal")
  /\ UNCHANGED <<now, server, seen, sem, bucket, admitted, inFlight, outcomes>>

begin == inFlight' = inFlight + 1

ClientSooner(r) == call[r].until # None /\ call[r].until - now <= MaxDuration

Deadline(r) ==
  LET c == [call[r] EXCEPT !.audited = TRUE]
  IN  IF ClientSooner(r)
      THEN IF now >= c.until \/ seen[r] # None
           THEN [c EXCEPT !.stage = "check",
                          !.code = IF now >= c.until THEN "DeadlineExceeded" ELSE "Canceled"]
           ELSE [c EXCEPT !.stage = "acquire", !.dl = c.until]
      ELSE [c EXCEPT !.stage = "acquire", !.dl = now + MaxDuration, !.guarded = TRUE]

Enter(r) ==
  /\ At(r, "sent")
  /\ begin
  /\ Go(r, Deadline(r))
  /\ UNCHANGED <<now, server, seen, sem, bucket, admitted, outcomes>>

\* A plausible bug: the limit is off by one.
AcquireOneMore(r) ==
  /\ At(r, "acquire")
  /\ \/ /\ sem <= MaxInFlight
        /\ sem' = sem + 1
        /\ Go(r, [call[r] EXCEPT !.stage = "auth"])
     \/ /\ sem > MaxInFlight
        /\ Answer(r, "check", "ResourceExhausted")
        /\ UNCHANGED sem
  /\ UNCHANGED <<now, server, seen, bucket, admitted, inFlight, outcomes>>

\* ConcurrencyInterceptor: a slot if there is one, else a refusal at once.
Acquire(r) ==
  /\ At(r, "acquire")
  /\ \/ /\ sem < MaxInFlight
        /\ sem' = sem + 1
        /\ Go(r, [call[r] EXCEPT !.stage = "auth"])
     \/ /\ sem >= MaxInFlight
        /\ Answer(r, "check", "ResourceExhausted")
        /\ UNCHANGED sem
  /\ UNCHANGED <<now, server, seen, bucket, admitted, inFlight, outcomes>>

\* AuthInterceptor, which an insecure server does without; then
\* RateLimitInterceptor reads the clock, before it has the bucket's lock.
Authorize(r) ==
  /\ At(r, "auth")
  /\ IF ~ Secured \/ MayCall(call[r].method, call[r].cred)
     THEN Go(r, [call[r] EXCEPT !.stage = "bucket", !.clock = now])
     ELSE Answer(r, "leave", IF call[r].cred = "none" THEN "Unauthenticated"
                                                      ELSE "PermissionDenied")
  /\ UNCHANGED <<now, server, seen, sem, bucket, admitted, inFlight, outcomes>>

minFloat(a, b) == IF a < b THEN a ELSE b

\* tokenBucket.allow: the elapsed time is negative when another call with a
\* later clock came first.
refill(t) ==
  [tokens |-> minFloat(Burst, bucket.tokens + (t - bucket.refreshed) * Rate), refreshed |-> t]

\* A plausible bug: a call waits until the bucket has a token.
allowWaits(r) ==
  LET b == refill(call[r].clock)
  IN  /\ At(r, "bucket")
      /\ Rate = 0 \/ b.tokens >= 1
      /\ bucket' = IF Rate = 0 THEN bucket ELSE [b EXCEPT !.tokens = @ - 1]
      /\ admitted' = admitted + 1
      /\ Go(r, [call[r] EXCEPT !.stage = "handler", !.clock = 0])
      /\ UNCHANGED <<now, server, seen, sem, inFlight, outcomes>>

\* A plausible bug: the last token is handed out twice.
allowOneMore(r) ==
  LET b == refill(call[r].clock)
  IN  /\ At(r, "bucket")
      /\ IF Rate = 0 \/ b.tokens >= 0
         THEN /\ bucket' = IF Rate = 0 THEN bucket ELSE [b EXCEPT !.tokens = @ - 1]
              /\ admitted' = admitted + 1
              /\ Go(r, [call[r] EXCEPT !.stage = "handler", !.clock = 0])
         ELSE /\ bucket' = b
              /\ UNCHANGED admitted
              /\ Answer(r, "leave", "ResourceExhausted")
      /\ UNCHANGED <<now, server, seen, sem, inFlight, outcomes>>

allow(r) ==
  LET b == refill(call[r].clock)
  IN  /\ At(r, "bucket")
      /\ IF Rate = 0 \/ b.tokens >= 1
         THEN /\ bucket' = IF Rate = 0 THEN bucket ELSE [b EXCEPT !.tokens = @ - 1]
              /\ admitted' = admitted + 1
              /\ Go(r, [call[r] EXCEPT !.stage = "handler", !.clock = 0])
         ELSE /\ bucket' = b
              /\ UNCHANGED admitted
              /\ Answer(r, "leave", "ResourceExhausted")
      /\ UNCHANGED <<now, server, seen, sem, inFlight, outcomes>>

\* The service methods, and toStatus.  Insert does not look at its context
\* and commits in the engine; Query looks at it between documents, so that it
\* may or may not notice the end of its deadline.
Ended(r) == now >= call[r].dl \/ seen[r] # None

\* A plausible bug: an error of the engine is not turned into a status.
HandleErrorsLost(r) ==
  /\ At(r, "handler")
  /\ \E ok \in BOOLEAN :
       Go(r, [call[r] EXCEPT !.stage = "leave", !.late = now >= call[r].dl, !.code = "OK",
                             !.effect = ok /\ call[r].method = "Insert"])
  /\ UNCHANGED <<now, server, seen, sem, bucket, admitted, inFlight, outcomes>>

Handle(r) ==
  /\ At(r, "handler")
  /\ \E code \in {"OK", "InvalidArgument", "DeadlineExceeded"} :
       /\ call[r].method = "Check" => code = "OK"
       /\ code = "DeadlineExceeded" => call[r].method = "Query" /\ Ended(r)
       /\ Go(r, [call[r] EXCEPT !.stage = "leave", !.late = now >= call[r].dl, !.code = code,
                                !.effect = code = "OK" /\ call[r].method = "Insert"])
  /\ UNCHANGED <<now, server, seen, sem, bucket, admitted, inFlight, outcomes>>

\* The deferred release of the slot.
Leave(r) ==
  /\ At(r, "leave")
  /\ sem' = sem - 1
  /\ Go(r, [call[r] EXCEPT !.stage = "check"])
  /\ UNCHANGED <<now, server, seen, bucket, admitted, inFlight, outcomes>>

\* A plausible bug: what the handler returned goes out whatever the time.
checkedNothing(r) == call[r].code

\* DeadlineInterceptor rejects what ended after the deadline it set itself; it
\* leaves a sooner deadline of the client to the client.
checked(r) ==
  IF ~ (call[r].guarded /\ Ended(r)) THEN call[r].code
  ELSE IF now >= call[r].dl THEN "DeadlineExceeded" ELSE "Canceled"

\* A plausible bug: the outcome counted is the one from before the deadline
\* was checked.
recordUnchecked(r) ==
  /\ At(r, "check")
  /\ inFlight' = inFlight - 1
  /\ outcomes' = [outcomes EXCEPT ![call[r].code] = @ + 1]
  /\ Go(r, [call[r] EXCEPT !.stage = "replied", !.code = checked(r), !.dl = 0, !.guarded = FALSE])
  /\ UNCHANGED <<now, server, seen, sem, bucket, admitted>>

\* Back in AuditInterceptor: Metrics.record, and the reply goes out.
record(r) ==
  /\ At(r, "check")
  /\ inFlight' = inFlight - 1
  /\ outcomes' = [outcomes EXCEPT ![checked(r)] = @ + 1]
  /\ Go(r, [call[r] EXCEPT !.stage = "replied", !.code = checked(r), !.dl = 0, !.guarded = FALSE])
  /\ UNCHANGED <<now, server, seen, sem, bucket, admitted>>

-------------------------------------------------------------------------------
\* gracefulShutdown: no new calls, wait for those under way, and cut the
\* connections when that takes too long.  runServe then closes the database.
Signal ==
  /\ server = "up"
  /\ server' = "draining"
  /\ UNCHANGED <<now, call, seen, sem, bucket, admitted, inFlight, outcomes>>

\* The process is gone, and with it its goroutines and counters.
Gone ==
  /\ server' = "down"
  /\ call' = [r \in Calls |-> [Idle EXCEPT !.stage = "done", !.method = call[r].method,
                                           !.cred = call[r].cred, !.effect = call[r].effect,
                                           !.late = call[r].late]]
  /\ sem' = 0 /\ inFlight' = 0 /\ admitted' = 0
  /\ bucket' = newTokenBucket
  /\ outcomes' = [c \in Codes |-> 0]

\* A plausible bug: it also waits for calls that were never made.
DrainedIdle ==
  /\ server = "draining"
  /\ \A r \in Calls : call[r].stage = "done"
  /\ Gone
  /\ UNCHANGED <<now, seen>>

Drained ==
  /\ server = "draining"
  /\ \A r \in Calls : Active(r) => seen[r] # None /\ call[r].stage = "replied"
  /\ Gone
  /\ UNCHANGED <<now, seen>>

\* Clients that wait are told the server is unavailable.
Cut == seen' = [r \in Calls |-> IF Active(r) /\ seen[r] = None THEN "Unavailable" ELSE seen[r]]

\* The process ends at once: waiting took too long, or it is killed or panics.
\* A write under way may have been committed before, and is not answered.
Exit ==
  /\ Alive
  /\ Gone /\ Cut
  /\ UNCHANGED now

Tick ==
  /\ Alive
  /\ now < MaxTime
  /\ now' = now + 1
  /\ UNCHANGED <<server, call, seen, sem, bucket, admitted, inFlight, outcomes>>

Step(r) ==
  \/ decodeFails(r) \/ Enter(r) \/ Acquire(r) \/ Authorize(r) \/ allow(r) \/ Handle(r)
  \/ Leave(r) \/ record(r) \/ Receive(r)

Next ==
  \/ \E r \in Calls : Send(r) \/ GiveUp(r) \/ Step(r)
  \/ Signal \/ Drained \/ Exit \/ Tick

\* A goroutine that can run does, a reply that was sent arrives, and a drained
\* server ends.
Spec ==
  /\ Init /\ [][Next]_vars
  /\ \A r \in Calls : WF_vars(Step(r))
  /\ WF_vars(Drained)

-------------------------------------------------------------------------------
CallRecord ==
  [stage : Stages, method : Methods, cred : Creds, until : Nat \cup {None}, dl : Nat,
   guarded : BOOLEAN, clock : Nat, code : Codes, late : BOOLEAN,
   effect : BOOLEAN, audited : BOOLEAN]

\* The variables have their types: what the server answers is a status code
\* of interceptors.go or of toStatus.
TypeOK ==
  /\ now \in Nat
  /\ server \in {"up", "draining", "down"}
  /\ call \in [Calls -> CallRecord]
  /\ seen \in [Calls -> Codes \cup {"Unavailable", None}]
  /\ sem \in Nat /\ inFlight \in Nat /\ admitted \in Nat
  /\ bucket \in [tokens : Int, refreshed : Nat]
  /\ outcomes \in [Codes -> Nat]

In(S) == {r \in Calls : call[r].stage \in S}

\* ConcurrencyInterceptor: the slots taken are those of the calls between the
\* acquisition and the deferred release, on every path, and no more service
\* methods run at once than the limit allows.
SlotsMatch == sem = Cardinality(In(Holding)) /\ sem <= MaxInFlight

\* tokenBucket.allow: although clocks reach the bucket out of order, the calls
\* let through never exceed the burst plus the rate times the time passed.
RateBound == Rate > 0 => admitted <= Burst + Rate * now

\* DeadlineInterceptor: a client is never told of success for work that ended
\* after the window of its request, be it the server's or its own.
NeverLate == \A r \in Calls : seen[r] = "OK" => ~ call[r].late

\* Writes happen only for keys that may write, a call that was refused has
\* written nothing, and one reported as successful has.  (One reported late or
\* cut off may have written.)
EffectsAdmitted ==
  \A r \in Calls :
    /\ call[r].effect => ~ Secured \/ MayCall(call[r].method, call[r].cred)
    /\ seen[r] \in Refusals \cup {"InvalidArgument"} => ~ call[r].effect
    /\ seen[r] = "OK" /\ call[r].method = "Insert" => call[r].effect

\* Metrics: the gauge is the number of calls between begin and record, and the
\* outcomes count each recorded call once, under the code that was sent.
MetricsAgree ==
  /\ inFlight = Cardinality(In(Counted))
  /\ \A c \in Codes : outcomes[c] = Cardinality({r \in Calls : Recorded(r) /\ call[r].code = c})

\* Every client that made a call is told an outcome: no limit, deadline or
\* shutdown leaves it waiting.
Answered == \A r \in Calls : call[r].stage = "sent" ~> seen[r] # None

\* A server told to stop stops.
Stops == server = "draining" ~> server = "down"
===============================================================================
