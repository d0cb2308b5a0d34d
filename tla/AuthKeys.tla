------------------------------- MODULE AuthKeys -------------------------------
(***************************************************************************)
(* API keys (internal/auth) and the server that uses them: bootstrap while *)
(* the server is stopped, the start-up check, authentication and           *)
(* authorization of each request (AuthInterceptor), and the key-management *)
(* handlers, each a bbolt transaction of its own.  A token is named by its *)
(* key id; ids and secrets come from a random source and are never drawn   *)
(* twice.  Time is counted in the seconds of the stored expiry.            *)
(***************************************************************************)
EXTENDS Integers, FiniteSets

CONSTANTS
  KeyIds,
  Callers,
  Grants,     \* the records callers ask for
  MaxTime,    \* bound on the clock
  None

\* Role, in its order.
RoleReadOnly  == 1
RoleReadWrite == 2
RoleAdmin     == 3
Role == RoleReadOnly .. RoleAdmin

\* ExpiresUnix is 0 for a key without expiry.
Bootstrapped == [role |-> RoleAdmin, expires |-> 0]
KeyRecord == Grants \cup {Bootstrapped}

ASSUME KeyAssumption ==
  /\ Grants \subseteq [role : Role, expires : Nat]
  /\ IsFiniteSet(KeyIds)
  /\ MaxTime \in Nat \ {0}
  /\ \A x \in KeyIds \cup KeyRecord : x # None

Methods == {"Get", "Insert", "CreateKey", "RevokeKey"}
methodMinRole == [Get |-> RoleReadOnly, Insert |-> RoleReadWrite,
                  CreateKey |-> RoleAdmin, RevokeKey |-> RoleAdmin]

VARIABLES
  keys,     \* the keys bucket
  issued,   \* key ids ever drawn
  now,
  server,   \* "down", "secure" or "insecure"
  req       \* each caller's request in the server

vars == <<keys, issued, now, server, req>>

\* What each method is called with: a record to store, a key to revoke.
Args(m) == CASE m = "CreateKey" -> Grants [] m = "RevokeKey" -> KeyIds [] OTHER -> {None}

\* A request waits for its authentication with its token and the time it
\* arrived, then runs.  It remembers whether the token was dead on arrival.
Idle    == [stage |-> "idle"]
AnyArg  == Grants \cup KeyIds \cup {None}
Waiting == {r \in [stage : {"auth"}, method : Methods, arg : AnyArg, token : KeyIds,
                   at : 1 .. MaxTime, dead : BOOLEAN] : r.arg \in Args(r.method)}
Running == {r \in [stage : {"run", "put"}, method : Methods, arg : AnyArg, dead : BOOLEAN] :
              r.arg \in Args(r.method) /\ (r.stage = "put" => r.method = "CreateKey")}

Init ==
  /\ keys = [i \in KeyIds |-> None]
  /\ issued = {}
  /\ now = 1
  /\ server = "down"
  /\ req = [c \in Callers |-> Idle]

Stored == {i \in KeyIds : keys[i] # None}
Admins == {i \in Stored : keys[i].role = RoleAdmin}

Expired(rec, t) == rec.expires # 0 /\ t >= rec.expires

-------------------------------------------------------------------------------
(* Keys.                                                                   *)

Put(i, rec) ==
  /\ keys' = [keys EXCEPT ![i] = rec]
  /\ issued' = issued \cup {i}

\* Mutant: the last key is kept, whatever its role.
RevokeCountsKeys(i) ==
  /\ keys' = IF i \in Admins /\ Cardinality(Stored) <= 1 THEN keys
             ELSE [keys EXCEPT ![i] = None]
  /\ UNCHANGED issued

\* Revoke: an unknown key is no error, the last admin record stays.
Revoke(i) ==
  /\ keys' = IF i \in Admins /\ Cardinality(Admins) <= 1 THEN keys
             ELSE [keys EXCEPT ![i] = None]
  /\ UNCHANGED issued

\* runBootstrap: the file lock keeps it out while a server runs.
Bootstrap(i) ==
  /\ server = "down"
  /\ i \notin issued
  /\ Put(i, Bootstrapped)
  /\ UNCHANGED <<now, server, req>>

-------------------------------------------------------------------------------
(* The server.                                                             *)

\* runServe: without --insecure it needs an admin record.
Serve(mode) ==
  /\ server = "down"
  /\ mode = "secure" => Admins # {}
  /\ server' = mode
  /\ UNCHANGED <<keys, issued, now, req>>

\* Shutdown or crash; what the callers had in progress is gone.
Stop ==
  /\ server # "down"
  /\ server' = "down"
  /\ req' = [c \in Callers |-> Idle]
  /\ UNCHANGED <<keys, issued, now>>

Arrive(c, m, arg, token) ==
  /\ server # "down"
  /\ req[c].stage = "idle"
  /\ token \in issued
  /\ req' = [req EXCEPT ![c] =
               [stage |-> "auth", method |-> m, arg |-> arg, token |-> token, at |-> now,
                dead |-> IF keys[token] = None THEN TRUE ELSE Expired(keys[token], now)]]
  /\ UNCHANGED <<keys, issued, now, server>>

\* Mutant: the expiry is not looked at.
AuthenticatedForEver(r) == keys[r.token] # None

\* authenticateAt on the record as it is now, with the time read on arrival.
Authenticated(r) == keys[r.token] # None /\ ~Expired(keys[r.token], r.at)

\* Can: the principal's role against the method's.
Can(r) == keys[r.token].role >= methodMinRole[r.method]

AuthInterceptor(c) ==
  LET r == req[c]
  IN  /\ r.stage = "auth"
      /\ req' = [req EXCEPT ![c] =
                   IF server = "insecure" \/ (Authenticated(r) /\ Can(r))
                   THEN [stage |-> "run", method |-> r.method, arg |-> r.arg,
                         dead |-> r.dead]
                   ELSE Idle]
      /\ UNCHANGED <<keys, issued, now, server>>

\* CreateKeyWithExpiry draws the id and checks the expiry, then stores the key.
CreateKey(c) ==
  LET r == req[c]
  IN  /\ r.stage = "run" /\ r.method = "CreateKey"
      /\ req' = [req EXCEPT ![c] =
                   IF Expired(r.arg, now) THEN Idle ELSE [r EXCEPT !.stage = "put"]]
      /\ UNCHANGED <<keys, issued, now, server>>

StoreKey(c, i) ==
  /\ req[c].stage = "put"
  /\ i \notin issued
  /\ Put(i, req[c].arg)
  /\ req' = [req EXCEPT ![c] = Idle]
  /\ UNCHANGED <<now, server>>

RevokeKey(c) ==
  /\ req[c].stage = "run" /\ req[c].method = "RevokeKey"
  /\ Revoke(req[c].arg)
  /\ req' = [req EXCEPT ![c] = Idle]
  /\ UNCHANGED <<now, server>>

\* The document handlers leave the keys alone.
Handle(c) ==
  /\ req[c].stage = "run" /\ req[c].method \in {"Get", "Insert"}
  /\ req' = [req EXCEPT ![c] = Idle]
  /\ UNCHANGED <<keys, issued, now, server>>

\* A handler gives up: the store fails, or no id is left in the model.
Abandon(c) ==
  /\ req[c].stage = "put"
  /\ req' = [req EXCEPT ![c] = Idle]
  /\ UNCHANGED <<keys, issued, now, server>>

Tick ==
  /\ now < MaxTime
  /\ now' = now + 1
  /\ UNCHANGED <<keys, issued, server, req>>

Next ==
  \/ \E i \in KeyIds : Bootstrap(i)
  \/ \E mode \in {"secure", "insecure"} : Serve(mode)
  \/ Stop
  \/ \E c \in Callers :
       \/ \E m \in Methods : \E arg \in Args(m), token \in KeyIds : Arrive(c, m, arg, token)
       \/ AuthInterceptor(c) \/ CreateKey(c) \/ RevokeKey(c) \/ Handle(c) \/ Abandon(c)
       \/ \E i \in KeyIds : StoreKey(c, i)
  \/ Tick

Spec == Init /\ [][Next]_vars

-------------------------------------------------------------------------------
(* Properties.                                                             *)

\* Every variable keeps its type (KeyRecord, the server's mode and requests).
TypeOK ==
  /\ keys \in [KeyIds -> KeyRecord \cup {None}]
  /\ Stored \subseteq issued /\ issued \subseteq KeyIds
  /\ now \in 1 .. MaxTime
  /\ server \in {"down", "secure", "insecure"}
  /\ req \in [Callers -> {Idle} \cup Waiting \cup Running]

\* A secured server always has an administrator's record, however revocations
\* overlap: two administrators cannot revoke each other (Revoke counts and
\* deletes in one transaction).
AdminRemains == server = "secure" => Admins # {}

\* Once there is an administrator's record there is one for ever, so a secured
\* server can always be started again (HasAdminKey in runServe).
AdminsNeverVanish == [][Admins # {} => Admins' # {}]_vars

\* A token that was revoked or expired when its request arrived never reaches a
\* handler of a secured server, and no later key brings it back.
DeadTokensStayOut ==
  \A c \in Callers : (server = "secure" /\ req[c].stage \in {"run", "put"}) => ~req[c].dead

ActiveAdmins == {i \in Admins : ~Expired(keys[i], now)}

\* What makes DeadTokensStayOut inductive: a token dead on arrival is still dead
\* when the request is authenticated.
DeadStaysDead ==
  \A c \in Callers : (req[c].stage = "auth" /\ req[c].dead) =>
    /\ req[c].token \in issued
    /\ keys[req[c].token] # None => Expired(keys[req[c].token], req[c].at)

\* Requests live in a running server.
DownIdle == server = "down" => \A c \in Callers : req[c] = Idle

\* The invariant the proofs carry.
IInv == TypeOK /\ AdminRemains /\ DeadTokensStayOut /\ DeadStaysDead /\ DownIdle

\* Revocation never removes the final active administrator (auth.go:40).
ActiveAdminSurvivesRevoke ==
  [][now' = now /\ ActiveAdmins # {} => ActiveAdmins' # {}]_vars
===============================================================================
