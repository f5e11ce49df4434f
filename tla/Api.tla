--------------------------------- MODULE Api ---------------------------------
(***************************************************************************)
(* The authenticated routes of safenestt/api/app.py: requests, each in a   *)
(* thread of its own, go through get_api_context, _enforce_rate_limit and  *)
(* the handler.  Creating and starting an investigation are POST routes;   *)
(* the others ("read") are not limited.                                    *)
(*                                                                         *)
(* A check of the limiter is one atomic step here (PgRateLimiter implements *)
(* that) and every worker process shares the counters.  get_api_context    *)
(* returns (tenant_id, key_fingerprint), which the handlers unpack as      *)
(* (api_key_hash, tenant_id): the buckets are those of the TENANT.         *)
(*                                                                         *)
(*   valid    keys that validate_key accepts                               *)
(*   bucket   per tenant and rule, the window and the requests it counted  *)
(*   stage    per thread, where its request is, or the status it answered  *)
(*   request  per thread, key, route and tenant of its request             *)
(*   sent     requests of each key so far, bounded by MaxRequests          *)
(***************************************************************************)
EXTENDS Clock, FiniteSets

CONSTANTS Thread, Key, Tenant,
          TenantOf,     \* the tenant each key was created for
          Asserting,    \* keys of the client service, which signs other tenants
          CreateLimit,  \* RATE_LIMIT_INVESTIGATIONS_PER_MINUTE
          StartLimit,   \* RATE_LIMIT_START_PER_MINUTE
          MaxRequests   \* bound on the requests of a key

ASSUME ThreadAssumption == IsFiniteSet(Thread)
ASSUME KeysAssumption == Key # {} /\ TenantOf \in [Key -> Tenant] /\ Asserting \subseteq Key
ASSUME LimitsAssumption == /\ CreateLimit \in Nat /\ StartLimit \in Nat
                           /\ MaxRequests \in Nat

VARIABLES valid, bucket, stage, request, sent

apiVars == <<clock, valid, bucket, stage, request, sent>>

Route    == {"create", "start", "read"}
Rule     == {"create", "start"}
Pending  == {"validate", "create", "start", "handle"}
Response == {"idle", "401", "429", "500"}
Bucket   == [start : Time \cup {NoWindow}, used : Nat]
Request  == [key : Key, route : Route, tenant : Tenant]

RuleLimit == [rule \in Rule |-> IF rule = "create" THEN CreateLimit ELSE StartLimit]

(* A signed assertion of another tenant replaces the tenant of the key; an  *)
(* assertion that is not signed well is answered 403 and changes nothing.   *)
SpeaksFor(key) == IF key \in Asserting THEN Tenant ELSE {TenantOf[key]}

ApiTypeOK ==
  /\ clock \in Time
  /\ valid \subseteq Key
  /\ bucket \in [Tenant -> [Rule -> Bucket]]
  /\ \A t \in Tenant, rule \in Rule : bucket[t][rule].used =< RuleLimit[rule]
  /\ stage \in [Thread -> Pending \cup Response]
  /\ request \in [Thread -> Request]
  /\ sent \in [Key -> Nat]

ApiInit ==
  /\ clock = 0
  /\ valid = Key
  /\ bucket = [t \in Tenant |-> [rule \in Rule |-> [start |-> NoWindow, used |-> 0]]]
  /\ stage = [w \in Thread |-> "idle"]
  /\ request = [w \in Thread |-> CHOOSE r \in Request : TRUE]
  /\ sent = [key \in Key |-> 0]

-----------------------------------------------------------------------------
(* One check of the limiter, see RateWindow *)

BucketExpired(b) == b.start = NoWindow \/ b.start + Window < clock

CurrentBucket(b) == IF BucketExpired(b) THEN [start |-> clock, used |-> 0] ELSE b
Admits(t, rule) == CurrentBucket(bucket[t][rule]).used < RuleLimit[rule]

Counted(b, limit) ==
  [CurrentBucket(b) EXCEPT !.used = IF @ < limit THEN @ + 1 ELSE @]
ChargedBuckets(t, rule) ==
  [bucket EXCEPT ![t][rule] = Counted(bucket[t][rule], RuleLimit[rule])]

-----------------------------------------------------------------------------
(* A request *)

ApiTick ==
  /\ Passes
  /\ UNCHANGED <<valid, bucket, stage, request, sent>>

(* A key is revoked, deactivated or expires; see ApiKeys.                   *)
Invalidate(key) ==
  /\ key \in valid
  /\ valid' = valid \ {key}
  /\ UNCHANGED <<clock, bucket, stage, request, sent>>

Arrive(w) ==
  /\ stage[w] \in Response
  /\ stage' = [stage EXCEPT ![w] = "validate"]
  /\ \E key \in Key, route \in Route : \E tenant \in SpeaksFor(key) :
        /\ sent[key] < MaxRequests
        /\ sent' = [sent EXCEPT ![key] = @ + 1]
        /\ request' = [request EXCEPT ![w] = [key |-> key, route |-> route, tenant |-> tenant]]
  /\ UNCHANGED <<clock, valid, bucket>>

(* get_api_context                                                          *)
Validate(w) ==
  /\ stage[w] = "validate"
  /\ stage' = [stage EXCEPT ![w] = IF request[w].key \notin valid THEN "401"
                             ELSE IF request[w].route = "read" THEN "handle" ELSE "create"]
  /\ UNCHANGED <<clock, valid, bucket, request, sent>>

(* A mutant: a start does not count as a creation.                          *)
LimitCreateExactly(w) ==
  LET t == request[w].tenant
      counts == request[w].route = "create"
  IN
  /\ stage[w] = "create"
  /\ bucket' = IF counts THEN ChargedBuckets(t, "create") ELSE bucket
  /\ stage' = [stage EXCEPT ![w] = IF counts /\ ~Admits(t, "create") THEN "429"
                             ELSE IF counts THEN "handle" ELSE "start"]
  /\ UNCHANGED <<clock, valid, request, sent>>

(* The rule for POST paths with "/investigations", which every POST has.    *)
LimitCreate(w) ==
  LET t     == request[w].tenant
      other == IF request[w].route = "start" THEN "start" ELSE "handle"
  IN
  /\ stage[w] = "create"
  /\ bucket' = ChargedBuckets(t, "create")
  /\ stage' = [stage EXCEPT ![w] = IF Admits(t, "create") THEN other ELSE "429"]
  /\ UNCHANGED <<clock, valid, request, sent>>

(* The rule for POST paths with "/start", with a bucket of its own.         *)
LimitStart(w) ==
  LET t == request[w].tenant IN
  /\ stage[w] = "start"
  /\ bucket' = ChargedBuckets(t, "start")
  /\ stage' = [stage EXCEPT ![w] = IF Admits(t, "start") THEN "handle" ELSE "429"]
  /\ UNCHANGED <<clock, valid, request, sent>>

(* Each handler then constructs PersistentInvestigationStore(api_key_hash=) *)
(* whose constructor has no such parameter: TypeError, status 500.          *)
Handle(w) ==
  /\ stage[w] = "handle"
  /\ stage' = [stage EXCEPT ![w] = "500"]
  /\ UNCHANGED <<clock, valid, bucket, request, sent>>

-----------------------------------------------------------------------------
ApiStep(w) == Validate(w) \/ LimitCreate(w) \/ LimitStart(w) \/ Handle(w)

ApiNext == \/ ApiTick
           \/ \E key \in Key : Invalidate(key)
           \/ \E w \in Thread : Arrive(w) \/ ApiStep(w)

ApiSpec == ApiInit /\ [][ApiNext]_apiVars

-----------------------------------------------------------------------------
(* Properties *)

(* Every start has passed the rule for creations before, so the bucket of   *)
(* starts cannot run out when it holds two windows of creations and a       *)
(* request in flight per thread: the tenant is limited by the other rule.   *)
StartBucketNeverBinds ==
  StartLimit >= 2 * CreateLimit + Cardinality(Thread)
    => \A w \in Thread : stage[w] = "start" => Admits(request[w].tenant, "start")

(* What _enforce_rate_limit says it does, "per-API-key rate limiting": a    *)
(* key whose request is refused has itself sent more requests than a rule   *)
(* allows.  Not so, since the bucket is the tenant's.                       *)
LimitsAreThoseOfKeys ==
  \A w \in Thread : stage[w] = "429" =>
    \E rule \in Rule : sent[request[w].key] > RuleLimit[rule]
=============================================================================
