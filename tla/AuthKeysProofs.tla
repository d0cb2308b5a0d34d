---------------------------- MODULE AuthKeysProofs ----------------------------
(***************************************************************************)
(* For any number of keys and callers, and any interleaving of             *)
(* revocations, a secured server keeps an administrator's record.          *)
(***************************************************************************)
EXTENDS AuthKeys, FiniteSetTheorems, TLAPS

\* First-order steps; those that need arithmetic, records or functions name SMT.
USE Zenon

\* Revoke leaves an administrator when there was one.
LEMMA RevokeKeepsAdmin ==
  ASSUME keys \in [KeyIds -> KeyRecord \cup {None}], NEW i \in KeyIds, Revoke(i),
         Admins # {}
  PROVE  Admins' # {}
  <1>1. CASE i \in Admins /\ Cardinality(Admins) <= 1
    BY <1>1 DEF Revoke, Admins, Stored
  <1>2. CASE ~(i \in Admins /\ Cardinality(Admins) <= 1)
    <2>1. PICK j \in Admins : j # i
      <3>1. CASE i \notin Admins
        BY <3>1
      <3>2. CASE i \in Admins
        <4>1. Admins \subseteq KeyIds /\ IsFiniteSet(KeyIds)
          BY KeyAssumption DEF Admins, Stored
        <4>2. IsFiniteSet(Admins)
          BY <4>1, FS_Subset
        <4>3. Cardinality({i}) = 1
          BY FS_Singleton
        <4>4. Admins # {i}
          BY <1>2, <3>2, <4>3, SMT
        <4>5. QED
          BY <3>2, <4>4
      <3>3. QED
        BY <3>1, <3>2
    <2>2. keys' = [keys EXCEPT ![i] = None]
      BY <1>2 DEF Revoke
    <2>3. j \in Admins'
      BY <2>1, <2>2 DEF Admins, Stored
    <2>4. QED
      BY <2>3
  <1>3. QED
    BY <1>1, <1>2

\* Storing a key removes no administrator when its id is new.
LEMMA PutKeepsAdmins ==
  ASSUME keys \in [KeyIds -> KeyRecord \cup {None}], NEW i \in KeyIds, NEW rec \in KeyRecord,
         i \notin Stored, Put(i, rec)
  PROVE  Admins \subseteq Admins'
  BY DEF Put, Admins, Stored

\* Every method's arguments are among the arguments.
LEMMA ArgsAreArgs == \A m \in Methods : Args(m) \subseteq AnyArg
  BY DEF Methods, Args, AnyArg

\* A request's argument is a record or a key, as its method wants.
LEMMA RequestShape ==
  ASSUME NEW r \in {Idle} \cup Waiting \cup Running
  PROVE  /\ r.stage \in {"idle", "auth", "run", "put"}
         /\ r.stage = "idle" => r = Idle
         /\ r.stage # "idle" => r.method \in Methods /\ r.arg \in Args(r.method) /\ r.dead \in BOOLEAN
         /\ r.stage = "auth" => r.token \in KeyIds /\ r.at \in 1 .. MaxTime
         /\ r.stage = "put" => r.arg \in Grants
  <1>1. CASE r = Idle
    BY <1>1 DEF Idle
  <1>2. CASE r \in Waiting
    BY <1>2 DEF Waiting
  <1>3. CASE r \in Running
    BY <1>3 DEF Running, Args, Methods
  <1>4. QED
    BY <1>1, <1>2, <1>3

LEMMA InitOK == Init => IInv
  BY KeyAssumption, SMT DEF Init, IInv, TypeOK, AdminRemains, DeadTokensStayOut, DeadStaysDead,
                       DownIdle, Stored, Idle

\* A request that is not idle has a running server.
LEMMA Served == ASSUME IInv, NEW c \in Callers, req[c].stage # "idle" PROVE server # "down"
  BY SMT DEF IInv, DownIdle, Idle

\* A step that touches only c's request, and neither the keys nor the server.
LEMMA RequestStepOK ==
  ASSUME IInv, NEW c \in Callers, NEW r \in {Idle} \cup Waiting \cup Running,
         req' = [req EXCEPT ![c] = r], UNCHANGED <<keys, issued, now, server>>,
         server # "down" \/ r = Idle,
         server = "secure" /\ r.stage \in {"run", "put"} => ~r.dead,
         r.stage = "auth" /\ r.dead =>
           /\ r.token \in issued
           /\ keys[r.token] # None => Expired(keys[r.token], r.at)
  PROVE  IInv'
  <1>1. TypeOK'
    BY DEF IInv, TypeOK, Stored
  <1>2. AdminRemains'
    BY DEF IInv, AdminRemains, Admins, Stored
  <1>3. DeadTokensStayOut'
    BY DEF IInv, TypeOK, DeadTokensStayOut
  <1>4. DeadStaysDead'
    BY DEF IInv, TypeOK, DeadStaysDead
  <1>5. DownIdle'
    BY DEF IInv, TypeOK, DownIdle
  <1>6. QED
    BY <1>1, <1>2, <1>3, <1>4, <1>5 DEF IInv

LEMMA ArriveOK ==
  ASSUME IInv, NEW c \in Callers, NEW m \in Methods, NEW arg \in Args(m), NEW token \in KeyIds,
         Arrive(c, m, arg, token)
  PROVE  IInv'
  <1> DEFINE r == [stage |-> "auth", method |-> m, arg |-> arg, token |-> token, at |-> now,
                   dead |-> IF keys[token] = None THEN TRUE ELSE Expired(keys[token], now)]
  <1>1. req' = [req EXCEPT ![c] = r] /\ UNCHANGED <<keys, issued, now, server>> /\ token \in issued
    BY DEF Arrive
  <1>2. now \in 1 .. MaxTime /\ r.dead \in BOOLEAN
    BY DEF IInv, TypeOK, Expired
  <1>3. r \in Waiting
    BY <1>2, ArgsAreArgs DEF Waiting
  <1>4. r.dead => (keys[r.token] # None => Expired(keys[r.token], r.at))
    OBVIOUS
  <1>5. r.stage = "auth" /\ r.token = token
    OBVIOUS
  <1> HIDE DEF r
  <1>6. server # "down"
    BY DEF Arrive
  <1>7. QED
    BY <1>1, <1>3, <1>4, <1>5, <1>6, RequestStepOK

LEMMA AuthInterceptorOK == ASSUME IInv, NEW c \in Callers, AuthInterceptor(c) PROVE IInv'
  <1> DEFINE q == req[c]
             granted == server = "insecure" \/ (Authenticated(q) /\ Can(q))
             r == IF granted THEN [stage |-> "run", method |-> q.method, arg |-> q.arg,
                                   dead |-> q.dead]
                  ELSE Idle
  <1>1. /\ q.stage = "auth" /\ req' = [req EXCEPT ![c] = r]
        /\ UNCHANGED <<keys, issued, now, server>>
    BY DEF AuthInterceptor
  <1>2. q \in {Idle} \cup Waiting \cup Running
    BY DEF IInv, TypeOK
  <1>3. q.method \in Methods /\ q.arg \in Args(q.method) /\ q.dead \in BOOLEAN
    BY <1>1, <1>2, RequestShape
  <1>4. server = "secure" /\ granted => ~q.dead
    BY <1>1 DEF IInv, DeadStaysDead, Authenticated
  <1> HIDE DEF granted
  <1>5. r \in {Idle} \cup Running
    BY <1>3, ArgsAreArgs DEF Running
  <1>6. r.stage # "auth" /\ (server = "secure" /\ r.stage \in {"run", "put"} => ~r.dead)
    BY <1>4 DEF Idle
  <1> HIDE DEF r
  <1>7. QED
    BY <1>1, <1>5, <1>6, Served, RequestStepOK

LEMMA CreateKeyOK == ASSUME IInv, NEW c \in Callers, CreateKey(c) PROVE IInv'
  <1> DEFINE q == req[c]
             r == IF Expired(q.arg, now) THEN Idle ELSE [q EXCEPT !.stage = "put"]
  <1>1. /\ q.stage = "run" /\ q.method = "CreateKey" /\ req' = [req EXCEPT ![c] = r]
        /\ UNCHANGED <<keys, issued, now, server>>
    BY DEF CreateKey
  <1>2. q \in {Idle} \cup Waiting \cup Running
    BY DEF IInv, TypeOK
  <1>3. q \in Running
    BY <1>1, <1>2, SMT DEF Idle, Waiting
  <1>4. server = "secure" => ~q.dead
    BY <1>1 DEF IInv, DeadTokensStayOut
  <1>5. r \in {Idle} \cup Running
    BY <1>1, <1>3 DEF Running
  <1>6. r.stage # "auth" /\ (server = "secure" /\ r.stage \in {"run", "put"} => ~r.dead)
    BY <1>3, <1>4 DEF Idle, Running
  <1> HIDE DEF r
  <1>7. QED
    BY <1>1, <1>5, <1>6, Served, RequestStepOK

\* The other ends of a request.
LEMMA EndOK == ASSUME IInv, NEW c \in Callers, Handle(c) \/ Abandon(c) PROVE IInv'
  <1>1. req' = [req EXCEPT ![c] = Idle] /\ UNCHANGED <<keys, issued, now, server>>
    BY DEF Handle, Abandon
  <1>2. Idle.stage = "idle"
    BY DEF Idle
  <1>3. QED
    BY <1>1, <1>2, RequestStepOK

\* A new key: the other requests' tokens keep their records.
LEMMA PutOK ==
  ASSUME IInv, NEW i \in KeyIds, NEW rec \in KeyRecord, i \notin issued, Put(i, rec),
         UNCHANGED <<now, server>>, req' \in [Callers -> {Idle} \cup Waiting \cup Running],
         \A c \in Callers : req'[c] = req[c] \/ req'[c] = Idle
  PROVE  IInv'
  <1>1. /\ keys' = [keys EXCEPT ![i] = rec] /\ issued' = issued \cup {i}
    BY DEF Put
  <1>2. keys \in [KeyIds -> KeyRecord \cup {None}] /\ i \notin Stored /\ issued \subseteq KeyIds
    BY DEF IInv, TypeOK
  <1>3. keys' \in [KeyIds -> KeyRecord \cup {None}] /\ Stored' \subseteq issued'
    BY <1>1, <1>2 DEF IInv, TypeOK, Stored
  <1>4. TypeOK'
    BY <1>1, <1>2, <1>3 DEF IInv, TypeOK
  <1>5. AdminRemains'
    BY <1>2, PutKeepsAdmins DEF IInv, AdminRemains
  <1>6. Idle.stage = "idle"
    BY DEF Idle
  <1>7. DeadTokensStayOut'
    BY <1>6 DEF IInv, DeadTokensStayOut
  <1>8. DeadStaysDead'
    BY <1>1, <1>2, <1>6 DEF IInv, DeadStaysDead
  <1>9. DownIdle'
    BY DEF IInv, DownIdle
  <1>10. QED
    BY <1>4, <1>5, <1>7, <1>8, <1>9 DEF IInv

LEMMA RevokeOK == ASSUME IInv, NEW c \in Callers, RevokeKey(c) PROVE IInv'
  <1> DEFINE i == req[c].arg
  <1>1. /\ req[c].stage = "run" /\ req[c].method = "RevokeKey" /\ Revoke(i)
        /\ req' = [req EXCEPT ![c] = Idle] /\ UNCHANGED <<now, server>>
    BY DEF RevokeKey
  <1>2. i \in KeyIds
    <2>1. req[c] \in {Idle} \cup Waiting \cup Running
      BY DEF IInv, TypeOK
    <2>2. i \in Args("RevokeKey")
      BY <1>1, <2>1, RequestShape
    <2>3. QED
      BY <2>2 DEF Args
  <1> HIDE DEF i
  <1>3. keys \in [KeyIds -> KeyRecord \cup {None}]
    BY DEF IInv, TypeOK
  <1>4. /\ keys' \in [KeyIds -> KeyRecord \cup {None}] /\ issued' = issued
        /\ \A k \in KeyIds : keys'[k] = keys[k] \/ keys'[k] = None
    BY <1>1, <1>2, <1>3 DEF Revoke
  <1>5. Stored' \subseteq issued'
    BY <1>4 DEF IInv, TypeOK, Stored
  <1>6. TypeOK'
    BY <1>1, <1>4, <1>5 DEF IInv, TypeOK
  <1>7. AdminRemains'
    BY <1>1, <1>2, <1>3, RevokeKeepsAdmin DEF IInv, AdminRemains
  <1>8. Idle.stage = "idle"
    BY DEF Idle
  <1>9. DeadTokensStayOut'
    BY <1>1, <1>8 DEF IInv, TypeOK, DeadTokensStayOut
  <1>10. DeadStaysDead'
    <2> SUFFICES ASSUME NEW d \in Callers, req'[d].stage = "auth", req'[d].dead
                 PROVE  /\ req'[d].token \in issued'
                        /\ keys'[req'[d].token] # None =>
                             Expired(keys'[req'[d].token], req'[d].at)
      BY DEF DeadStaysDead, Expired
    <2>1. req'[d] = req[d] /\ req[d] \in {Idle} \cup Waiting \cup Running
      BY <1>1, <1>8 DEF IInv, TypeOK
    <2>2. req[d].token \in KeyIds
      BY <2>1, RequestShape
    <2>3. QED
      BY <1>4, <2>1, <2>2 DEF IInv, DeadStaysDead
  <1>11. DownIdle'
    BY <1>1, Served DEF DownIdle
  <1>12. QED
    BY <1>6, <1>7, <1>9, <1>10, <1>11 DEF IInv

\* The server starts and stops; time passes.
LEMMA LifecycleOK ==
  ASSUME IInv, Stop \/ Tick \/ \E mode \in {"secure", "insecure"} : Serve(mode)
  PROVE  IInv'
  <1>1. CASE Stop
    <2>1. /\ server' = "down" /\ req' = [c \in Callers |-> Idle]
          /\ UNCHANGED <<keys, issued, now>>
      BY <1>1 DEF Stop
    <2>2. Idle.stage = "idle"
      BY DEF Idle
    <2>3. TypeOK'
      BY <2>1 DEF IInv, TypeOK, Stored
    <2>4. QED
      BY <2>1, <2>2, <2>3 DEF IInv, AdminRemains, DeadTokensStayOut, DeadStaysDead, DownIdle
  <1>2. CASE Tick
    <2>1. now' = now + 1 /\ now < MaxTime /\ UNCHANGED <<keys, issued, server, req>>
      BY <1>2 DEF Tick
    <2>2. now' \in 1 .. MaxTime
      BY <2>1, KeyAssumption, SMT DEF IInv, TypeOK
    <2>3. TypeOK'
      BY <2>1, <2>2 DEF IInv, TypeOK, Stored
    <2>4. QED
      BY <2>1, <2>3 DEF IInv, Admins, Stored, AdminRemains, DeadTokensStayOut, DeadStaysDead,
                        DownIdle
  <1>3. ASSUME NEW mode \in {"secure", "insecure"}, Serve(mode) PROVE IInv'
    <2>1. server = "down" /\ (mode = "secure" => Admins # {}) /\ server' = mode
          /\ UNCHANGED <<keys, issued, now, req>>
      BY <1>3 DEF Serve
    <2>2. \A c \in Callers : req[c] = Idle
      BY <2>1 DEF IInv, DownIdle
    <2>3. QED
      BY <2>1, <2>2, SMT DEF IInv, DownIdle, TypeOK, Stored, Admins, AdminRemains,
                        DeadTokensStayOut, DeadStaysDead, Idle
  <1>4. QED
    BY <1>1, <1>2, <1>3

\* Every step of the server, its callers and the clock preserves IInv: the key
\* table, the admin kept by Revoke and the requests admitted by AuthInterceptor.
THEOREM Inductive == IInv /\ [Next]_vars => IInv'
  <1> SUFFICES ASSUME IInv, [Next]_vars PROVE IInv'
    OBVIOUS
  <1>1. ASSUME NEW i \in KeyIds, Bootstrap(i) PROVE IInv'
    <2>1. i \notin issued /\ Put(i, Bootstrapped) /\ UNCHANGED <<now, server, req>>
      BY <1>1 DEF Bootstrap
    <2>2. Bootstrapped \in KeyRecord /\ req \in [Callers -> {Idle} \cup Waiting \cup Running]
      BY DEF KeyRecord, IInv, TypeOK
    <2>3. QED
      BY <2>1, <2>2, PutOK
  <1>2. ASSUME NEW c \in Callers, NEW i \in KeyIds, StoreKey(c, i) PROVE IInv'
    <2>1. /\ req[c].stage = "put" /\ i \notin issued /\ Put(i, req[c].arg)
          /\ req' = [req EXCEPT ![c] = Idle] /\ UNCHANGED <<now, server>>
      BY <1>2 DEF StoreKey
    <2>2. req \in [Callers -> {Idle} \cup Waiting \cup Running]
      BY DEF IInv, TypeOK
    <2>3. req[c].arg \in KeyRecord
      BY <2>1, <2>2, RequestShape DEF KeyRecord
    <2>4. /\ req' \in [Callers -> {Idle} \cup Waiting \cup Running]
          /\ \A d \in Callers : req'[d] = req[d] \/ req'[d] = Idle
      BY <2>1, <2>2
    <2>5. QED
      BY <2>1, <2>3, <2>4, PutOK
  <1>3. ASSUME NEW c \in Callers,
               AuthInterceptor(c) \/ CreateKey(c) \/ RevokeKey(c) \/ Handle(c) \/ Abandon(c)
        PROVE  IInv'
    BY <1>3, AuthInterceptorOK, CreateKeyOK, RevokeOK, EndOK
  <1>4. ASSUME NEW c \in Callers, NEW m \in Methods, NEW arg \in Args(m), NEW token \in KeyIds,
               Arrive(c, m, arg, token)
        PROVE  IInv'
    BY <1>4, ArriveOK
  <1>5. CASE Stop \/ Tick \/ \E mode \in {"secure", "insecure"} : Serve(mode)
    BY <1>5, LifecycleOK
  <1>6. CASE UNCHANGED vars
    BY <1>6 DEF vars, IInv, TypeOK, Stored, Admins, AdminRemains, DeadTokensStayOut,
                DeadStaysDead, DownIdle
  <1>7. QED
    BY <1>1, <1>2, <1>3, <1>4, <1>5, <1>6 DEF Next

\* Every reachable state satisfies the invariant.
THEOREM AuthSafe == Spec => []IInv
  BY InitOK, Inductive, PTL DEF Spec

\* Revocations, however they overlap, leave a secured server an administrator.
THEOREM AdminAlwaysRemains == Spec => []AdminRemains
  <1>1. IInv => AdminRemains
    BY DEF IInv
  <1>2. QED
    BY <1>1, AuthSafe, PTL

\* No token that was dead on arrival reaches a handler of a secured server.
THEOREM DeadTokensExcluded == Spec => []DeadTokensStayOut
  <1>1. IInv => DeadTokensStayOut
    BY DEF IInv
  <1>2. QED
    BY <1>1, AuthSafe, PTL

\* An administrator's record, once there, is never the last one to go.
THEOREM AdminsPersist == Spec => AdminsNeverVanish
  <1>1. IInv /\ [Next]_vars => [Admins # {} => Admins' # {}]_vars
    <2> SUFFICES ASSUME IInv, Next, Admins # {} PROVE Admins' # {}
      BY DEF vars
    <2>1. keys \in [KeyIds -> KeyRecord \cup {None}] /\ Stored \subseteq issued
      BY DEF IInv, TypeOK
    <2>2. CASE keys' = keys
      BY <2>2 DEF Admins, Stored
    <2>3. ASSUME NEW i \in KeyIds, Bootstrap(i) PROVE Admins' # {}
      BY <2>1, <2>3, PutKeepsAdmins DEF Bootstrap, KeyRecord
    <2>4. ASSUME NEW c \in Callers, NEW i \in KeyIds, StoreKey(c, i) PROVE Admins' # {}
      <3>1. req[c] \in {Idle} \cup Waiting \cup Running /\ req[c].stage = "put"
        BY <2>4 DEF StoreKey, IInv, TypeOK
      <3>2. req[c].arg \in KeyRecord
        BY <3>1, RequestShape DEF KeyRecord
      <3>3. QED
        BY <2>1, <2>4, <3>2, PutKeepsAdmins DEF StoreKey
    <2>5. ASSUME NEW c \in Callers, RevokeKey(c) PROVE Admins' # {}
      <3>1. /\ req[c] \in {Idle} \cup Waiting \cup Running
            /\ req[c].stage = "run" /\ req[c].method = "RevokeKey"
        BY <2>5 DEF RevokeKey, IInv, TypeOK
      <3>2. req[c].arg \in KeyIds
        BY <3>1, RequestShape DEF Args
      <3>3. QED
        BY <2>1, <2>5, <3>2, RevokeKeepsAdmin DEF RevokeKey
    <2>6. QED
      BY <2>2, <2>3, <2>4, <2>5 DEF Next, Serve, Stop, Arrive, AuthInterceptor, CreateKey,
                                     Handle, Abandon, Tick
  <1>2. QED
    BY <1>1, AuthSafe, PTL DEF Spec, AdminsNeverVanish
===============================================================================
