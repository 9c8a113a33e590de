----------------------------- MODULE JwksCache -----------------------------
(***************************************************************************)
(* One lambda container verifying JWTs against a client's JWKS endpoint,   *)
(* of which it keeps the last response in the module variable cachedJWKS.  *)
(* A container serves one request at a time; the client publishes and      *)
(* retires signing keys, and time passes, between any two of its steps.    *)
(***************************************************************************)
EXTENDS Integers

CONSTANTS Key,          \* signing keys of the client, by their kid
          None,
          MaxAge,       \* bound: the longest max-age the endpoint names
          ReadTime,     \* bound: how long a response may take to read
          MaxClock, MaxMisses

ASSUME JwksAssumption ==
    /\ None \notin Int
    /\ MaxAge \in Nat /\ ReadTime \in Nat /\ MaxClock \in Nat /\ MaxMisses \in Nat

\* parseCacheControlHeader without a max-age: over before it is stored.
NoMaxAge == -1

VARIABLES
    clock,
    published,  \* the keys the endpoint serves now
    retiredAt,  \* when a key was taken off it, None before
    cached,     \* cachedJWKS[jwksEndpoint]
    job,        \* the verification in progress, or the last one
    misses      \* refusals, since a key was last published, of sound JWTs
                \* whose key was published all along

vars == <<clock, published, retiredAt, cached, job, misses>>

Response == [keys : SUBSET Key, maxAge : NoMaxAge .. MaxAge,
             expiry : NoMaxAge .. MaxClock + MaxAge]

TypeOK ==
    /\ clock \in 0 .. MaxClock
    /\ published \in SUBSET Key
    /\ retiredAt \in [Key -> 0 .. MaxClock \cup {None}]
    /\ cached \in Response \cup {None}
    /\ job \in [pc : {"fetch", "read", "check", "verified", "failed"},
                key : Key, sound : BOOLEAN, steady : BOOLEAN,
                began : 0 .. MaxClock, served : 0 .. MaxClock,
                keys : SUBSET Key, maxAge : NoMaxAge .. MaxAge]
    /\ misses \in 0 .. MaxMisses

\* A container starts without a cached response and without a request.
ColdJob(k) == [pc |-> "failed", key |-> k, sound |-> FALSE, steady |-> FALSE,
               began |-> 0, served |-> 0, keys |-> {}, maxAge |-> NoMaxAge]

Init ==
    /\ clock = 0
    /\ published \in SUBSET Key
    /\ retiredAt = [k \in Key |-> None]
    /\ cached = None
    /\ \E k \in Key : job = ColdJob(k)
    /\ misses = 0

-----------------------------------------------------------------------------
(* The verifier.                                                           *)

\* A slip: a response kept for good.
UsableAtAnyAge(response) == response # None

Usable(response) == response # None /\ response.expiry >= clock

\* verify() is called with a JWT signed by key k, sound but for perhaps its
\* signature, and looks at the cache.
Verify(k, sound) ==
    /\ job.pc \in {"verified", "failed"}
    /\ \E pc \in {"fetch", "check"} :
         /\ (pc = "check") <=> Usable(cached)
         /\ job' = [job EXCEPT
                !.pc = pc, !.key = k, !.sound = sound,
                !.steady = k \in published, !.began = clock,
                !.keys = IF pc = "check" THEN cached.keys ELSE {},
                !.maxAge = IF pc = "check" THEN cached.maxAge ELSE NoMaxAge]
    /\ UNCHANGED <<clock, published, retiredAt, cached, misses>>

\* fetch(): the endpoint answers with the keys it serves at this moment.
Fetch(maxAge) ==
    /\ job.pc = "fetch"
    /\ job' = [job EXCEPT !.pc = "read", !.keys = published,
                          !.served = clock, !.maxAge = maxAge]
    /\ UNCHANGED <<clock, published, retiredAt, cached, misses>>

\* A slip: a default where no max-age was named.
ExpiryByDefault(maxAge) == clock + IF maxAge = NoMaxAge THEN MaxAge ELSE maxAge

\* parseCacheControlHeader
Expiry(maxAge) == clock + maxAge

\* json(): it is only when the body has been read that its age starts.
Store ==
    /\ job.pc = "read"
    /\ cached' = [keys |-> job.keys, maxAge |-> job.maxAge,
                  expiry |-> Expiry(job.maxAge)]
    /\ job' = [job EXCEPT !.pc = "check"]
    /\ UNCHANGED <<clock, published, retiredAt, misses>>

\* A slip: the catch block leaves the cache alone.
FailAndKeep ==
    /\ cached' = cached
    /\ job' = [job EXCEPT !.pc = "failed"]

\* The catch block of verify() drops the cached response, whatever failed.
Fail ==
    /\ cached' = None
    /\ job' = [job EXCEPT !.pc = "failed"]

\* fetch() or json() throws, or the endpoint's status is not ok.
FetchFails ==
    /\ job.pc \in {"fetch", "read"}
    /\ Fail
    /\ UNCHANGED <<clock, published, retiredAt, misses>>

\* jwtVerify and verifyMandatoryClaims.
Acceptable == job.sound /\ job.key \in job.keys

CheckPasses ==
    /\ job.pc = "check" /\ Acceptable
    /\ job' = [job EXCEPT !.pc = "verified"]
    /\ UNCHANGED <<clock, published, retiredAt, cached, misses>>

CheckFails ==
    /\ job.pc = "check" /\ ~Acceptable
    /\ misses < MaxMisses
    /\ Fail
    /\ misses' = IF job.sound /\ job.steady THEN misses + 1 ELSE misses
    /\ UNCHANGED <<clock, published, retiredAt>>

-----------------------------------------------------------------------------
(* The client, the clock, and a new container in the place of this one.    *)

\* A key is published once, and never comes back after it was retired.
Publish(k) ==
    /\ k \notin published /\ retiredAt[k] = None
    /\ published' = published \cup {k}
    /\ misses' = 0
    /\ UNCHANGED <<clock, retiredAt, cached, job>>

Retire(k) ==
    /\ k \in published
    /\ published' = published \ {k}
    /\ retiredAt' = [retiredAt EXCEPT ![k] = clock]
    /\ job' = [job EXCEPT !.steady = @ /\ job.key # k]
    /\ UNCHANGED <<clock, cached, misses>>

\* A response that is not read in time is cut off by the lambda's timeout.
Tick ==
    /\ clock < MaxClock
    /\ job.pc = "read" => clock < job.served + ReadTime
    /\ clock' = clock + 1
    /\ UNCHANGED <<published, retiredAt, cached, job, misses>>

ColdStart ==
    /\ cached' = None
    /\ job' = ColdJob(job.key)
    /\ UNCHANGED <<clock, published, retiredAt, misses>>

Next ==
    \/ \E k \in Key : \/ \E sound \in BOOLEAN : Verify(k, sound)
                      \/ Publish(k)
                      \/ Retire(k)
    \/ \E maxAge \in NoMaxAge .. MaxAge : Fetch(maxAge)
    \/ Store \/ FetchFails \/ CheckPasses \/ CheckFails
    \/ Tick
    \/ ColdStart

Spec == Init /\ [][Next]_vars

-----------------------------------------------------------------------------
(* Properties.                                                             *)
Retired(k) == retiredAt[k] # None

\* How long a response is kept.
Kept(maxAge) == IF maxAge = NoMaxAge THEN 0 ELSE maxAge

\* A key the client has retired stops being trusted: no JWT is accepted with
\* it in a verification begun later than the max-age the endpoint named (none
\* counts as zero: such a response is not kept), plus the time the response
\* took to read, after the key was retired.
RetiredKeysExpire ==
    job.pc = "verified" /\ Retired(job.key) =>
        job.began <= retiredAt[job.key] + ReadTime + Kept(job.maxAge)

\* A key rotation costs at most one refusal: a cached response that is too old
\* to know a newly published key is dropped by the first JWT it refuses, even
\* though its max-age is not over.
OneMissPerRotation == misses <= 1

-----------------------------------------------------------------------------
(* The invariant these rest on.                                            *)
EndpointInv == \A k \in published : ~Retired(k)

\* A cached response runs out in time for every key in it, since it was read
\* within ReadTime of being served, with the keys of that moment.
CacheInv ==
    cached # None =>
        /\ cached.expiry <= clock + cached.maxAge
        /\ \A k \in cached.keys : Retired(k) =>
               cached.expiry <= retiredAt[k] + ReadTime + cached.maxAge

\* What a verification knows of its keys, at each of its steps.
JobInv ==
    /\ job.began <= clock
    /\ job.steady => job.key \in published
    /\ job.pc = "read" =>
          /\ job.began <= job.served /\ job.served <= clock
          /\ clock <= job.served + ReadTime
          /\ \A k \in job.keys : Retired(k) => job.served <= retiredAt[k]
    /\ job.pc \in {"check", "verified"} =>
          \A k \in job.keys : Retired(k) =>
              job.began <= retiredAt[k] + ReadTime + Kept(job.maxAge)
    /\ job.pc = "verified" => job.key \in job.keys

\* After a first miss there is no response left that lacks a published key.
MissInv ==
    /\ misses <= 1
    /\ misses = 1 => /\ cached # None => published \subseteq cached.keys
                     /\ job.pc \in {"read", "check"} => published \subseteq job.keys

\* Inductive.
JwksInv == TypeOK /\ EndpointInv /\ CacheInv /\ JobInv /\ MissInv
=============================================================================
