-------------------------------- MODULE Access --------------------------------
(***************************************************************************)
(* A request's way through the API's checks (api/security.py): the failure *)
(* limit of its address, the auth adapter (adapters/access.py, auth.py and *)
(* jwt.py), the caller's rate limit (api/ratelimit.py) and the policy       *)
(* adapter (adapters/access.py, opa.py).  FastAPI runs the checks in a     *)
(* thread pool, so requests interleave between any two of them; the key    *)
(* set cache and the buckets have locks of their own.  The token issuer    *)
(* rotates its keys whenever it likes.  The clock is one tick per unit; a  *)
(* bucket is kept in fractions of a token.                                 *)
(***************************************************************************)
EXTENDS Integers, Sequences, FiniteSets, SequencesExt

CONSTANTS AcKeys,        \* signing keys the issuer may publish
          AcForged,      \* a key it never publishes
          AcPeers,       \* client addresses
          AcProxies,     \* AUTH_TRUSTED_PROXIES
          AcThreads,     \* requests served at once
          AcTtl,         \* AUTH_JWKS_CACHE_TTL_S
          AcMinRefetch,  \* AUTH_JWKS_MIN_REFETCH_S
          AcWhole,       \* fractions in a token: one is refilled per tick
          AcCapacity,    \* tokens a bucket holds
          AcMaxKeys,     \* API_RATE_LIMIT_MAX_KEYS
          AcMaxTime,     \* bound: clock ticks
          AcMaxChanges   \* bound: key rotations

ASSUME AcAssumption ==
    /\ AcForged \notin AcKeys /\ AcProxies \subseteq AcPeers
    /\ {AcThreads, AcTtl, AcMinRefetch, AcWhole, AcCapacity, AcMaxKeys} \subseteq Nat \ {0}

VARIABLES acNow,       \* the clock
          acBackend,   \* AUTH_BACKEND
          acPublished, \* the keys the issuer publishes now
          acLast,      \* key -> when it was last published
          acCached,    \* JwksCache._keys
          acFetched,   \* JwksCache._fetched_at
          acLock,      \* the thread in JwksCache.keys, or 0
          acFailures,  \* app.state.auth_failures
          acRates,     \* app.state.rate_limits
          acThread,    \* thread -> the request it serves and where it is
          acFailed,    \* address -> failed authentications since its bucket was new
          acSince,     \* address -> when that was
          acChanges

acVars == <<acNow, acBackend, acPublished, acLast, acCached, acFetched, acLock, acFailures,
            acRates, acThread, acFailed, acSince, acChanges>>

acCacheVars == <<acCached, acFetched, acLock>>
acWorld == <<acNow, acBackend, acPublished, acLast, acChanges>>
acGhosts == <<acFailed, acSince>>

AcNever == -1
AcTokens == {"oidc", "gateway"}
AcPeer0 == CHOOSE p \in AcPeers : TRUE
AcIdle == [step |-> "idle", peer |-> AcPeer0, key |-> AcForged, named |-> TRUE,
           at |-> 0]

\* Buckets are made when a key first spends; none is there at the start.
AcNoBuckets == [level |-> <<>>, lru |-> <<>>]

AcInit ==
    /\ acNow = 0 /\ acBackend \in AcTokens \cup {"api-key", "mtls"}
    /\ acPublished = AcKeys /\ acLast = [k \in AcKeys |-> 0]
    /\ acCached = {} /\ acFetched = AcNever /\ acLock = 0
    /\ acFailures = AcNoBuckets /\ acRates = AcNoBuckets
    /\ acThread = [t \in 1..AcThreads |-> AcIdle]
    /\ acFailed = [p \in AcPeers |-> 0] /\ acSince = [p \in AcPeers |-> 0]
    /\ acChanges = 0

AcTypeOK ==
    /\ acNow \in 0..AcMaxTime /\ acFetched \in AcNever..AcMaxTime /\ acCached \subseteq AcKeys
    /\ acLock \in 0..AcThreads
    /\ \A b \in {acFailures, acRates} :
          /\ Len(b.lru) <= AcMaxKeys /\ DOMAIN b.level = ToSet(b.lru)
          /\ \A k \in DOMAIN b.level : b.level[k].tokens \in 0..AcCapacity * AcWhole

-----------------------------------------------------------------------------
(* Token buckets                                                           *)

AcLevel(b, k) ==
    IF k \in DOMAIN b.level
    THEN Min({AcCapacity * AcWhole, b.level[k].tokens + (acNow - b.level[k].at)})
    ELSE AcCapacity * AcWhole

AcWaits(b, k) == AcLevel(b, k) < AcWhole

\* move_to_end: k becomes the most recent key.
AcMoved(lru, k) ==
    Append(IF k \in ToSet(lru) THEN RemoveAt(lru, CHOOSE i \in 1..Len(lru) : lru[i] = k)
           ELSE lru, k)

\* The bucket map after k spends a token it has, or is seen to have none: the
\* least recent keys are forgotten.
AcTake(b, k) ==
    LET spent == IF AcWaits(b, k) THEN 0 ELSE AcWhole
        lru   == AcMoved(b.lru, k)
        kept  == IF spent = 0 \/ Len(lru) <= AcMaxKeys THEN lru
                 ELSE SubSeq(lru, Len(lru) - AcMaxKeys + 1, Len(lru))
    IN  [level |-> [x \in ToSet(kept) |->
             IF x = k THEN [tokens |-> AcLevel(b, k) - spent, at |-> acNow] ELSE b.level[x]],
         lru |-> kept]

-----------------------------------------------------------------------------
(* authenticate                                                            *)

AcAt(t, step) == acThread[t].step = step
AcBecomes(t, r) == acThread' = [acThread EXCEPT ![t] = r]
AcFails(r) == [AcIdle EXCEPT !.peer = r.peer, !.step = "refused"]

\* A forwarded credential is accepted from the configured proxies only.
AcProxied(r) == r.peer \in AcProxies

\* The adapters, up to the lookup of a token's keys.  `sound`: the credential
\* is there and well-formed; for an API key its digest is a configured one, for
\* a certificate it is in its period, issued by a configured CA and has a
\* configured identity; for a gateway's token its unverified issuer is accepted.
AcApiKey(r, sound) == IF sound THEN [r EXCEPT !.step = "limit"] ELSE AcFails(r)
AcOidc(r, sound) == IF sound THEN [r EXCEPT !.step = "keys"] ELSE AcFails(r)
AcGateway(r, sound) ==
    IF sound /\ AcProxied(r) THEN [r EXCEPT !.step = "keys"] ELSE AcFails(r)
AcMtls(r, sound) ==
    IF sound /\ AcProxied(r) THEN [r EXCEPT !.step = "limit"] ELSE AcFails(r)

AcCredential(r, sound) ==
    CASE acBackend = "api-key" -> AcApiKey(r, sound)
      [] acBackend = "oidc" -> AcOidc(r, sound)
      [] acBackend = "gateway" -> AcGateway(r, sound)
      [] acBackend = "mtls" -> AcMtls(r, sound)

\* A request from an address within its failure limit.  A token has the key
\* that signed it, which its header may name; an API key or a certificate has
\* neither.
AcArrive(t) ==
    /\ AcAt(t, "idle")
    /\ \E p \in AcPeers, k \in AcKeys \cup {AcForged}, named, sound \in BOOLEAN :
          /\ acBackend \in AcTokens \/ (k = AcForged /\ named)
          /\ ~AcWaits(acFailures, p)
          /\ AcBecomes(t, AcCredential([AcIdle EXCEPT !.peer = p, !.key = k, !.named = named],
                                       sound))
    /\ UNCHANGED <<acWorld, acCacheVars, acFailures, acRates, acGhosts>>

AcMatching(r, keys) == {k \in keys : r.named => k = r.key}

\* ClaimsMapper.principal: a token that grants no role is refused as a caller
\* without permission, which is not a failed authentication.
AcPrincipal(r) == {AcIdle, [r EXCEPT !.step = "limit", !.named = TRUE]}

\* verify: the signature is tried against every key found, then the claims are
\* checked.
AcVerify(r, found) ==
    IF r.key \notin found THEN {AcFails(r)} ELSE {AcFails(r)} \cup AcPrincipal(r)

\* JwksCache.keys takes the lock and reads the clock.  It fetches when the
\* cache is empty or older than its lifetime.
AcStaleNever == acFetched = AcNever

AcStale == acFetched = AcNever \/ acNow - acFetched > AcTtl

\* A key the cache does not know is fetched for once more when the last fetch
\* is old enough.
AcOldEnough(r, fetched) == r.at - fetched >= AcMinRefetch

\* What the lookup in these keys comes to, and who then has the lock.
AcLookup(t, r, keys, fetched) ==
    IF AcMatching(r, keys) = {} /\ r.named /\ AcOldEnough(r, fetched)
    THEN AcBecomes(t, [r EXCEPT !.step = "refetch"]) /\ acLock' = t
    ELSE /\ \E next \in AcVerify(r, AcMatching(r, keys)) : AcBecomes(t, next)
         /\ acLock' = 0

AcKeysStart(t) ==
    /\ AcAt(t, "keys") /\ acLock = 0
    /\ LET r == [acThread[t] EXCEPT !.at = acNow]
       IN  IF AcStale THEN AcBecomes(t, [r EXCEPT !.step = "fetch"]) /\ acLock' = t
           ELSE AcLookup(t, r, acCached, acFetched)
    /\ UNCHANGED <<acWorld, acCached, acFetched, acFailures, acRates, acGhosts>>

\* The issuer's answer: the keys it publishes at that moment.  The code writes
\* the time down once it has parsed the answer: times here are without the
\* latency of that one request, which a withdrawn key gains.
AcFetch(t) ==
    /\ acCached' = acPublished /\ acFetched' = acNow
    /\ \/ AcAt(t, "fetch") /\ AcLookup(t, acThread[t], acPublished, acNow)
       \/ /\ AcAt(t, "refetch") /\ acLock' = 0
          /\ \E next \in AcVerify(acThread[t], AcMatching(acThread[t], acPublished)) :
                AcBecomes(t, next)
    /\ UNCHANGED <<acWorld, acFailures, acRates, acGhosts>>

\* A failed fetch leaves the cache and its time as they were.
AcFetchFails(t) ==
    /\ acThread[t].step \in {"fetch", "refetch"}
    /\ AcBecomes(t, AcFails(acThread[t])) /\ acLock' = 0
    /\ UNCHANGED <<acWorld, acCached, acFetched, acFailures, acRates, acGhosts>>

\* AuthenticationError: the address is charged, whether or not it has a token
\* left.  An address whose bucket is forgotten starts anew.
AcCharge(p) == AcTake(acFailures, p)

AcRefused(t) ==
    /\ AcAt(t, "refused")
    /\ LET p == acThread[t].peer
           gone == DOMAIN acFailures.level \ DOMAIN acFailures'.level
       IN  /\ acFailures' = AcCharge(p)
           /\ acFailed' = [q \in AcPeers |-> IF q \in gone THEN 0
                                             ELSE acFailed[q] + (IF q = p THEN 1 ELSE 0)]
           /\ acSince' = [q \in AcPeers |->
                 IF q \in gone \/ (q = p /\ p \notin DOMAIN acFailures.level)
                 THEN acNow ELSE acSince[q]]
    /\ acThread' = [acThread EXCEPT ![t] = AcIdle]
    /\ UNCHANGED <<acWorld, acCacheVars, acRates>>

\* rate_limits.take: one caller name.
AcLimit(t) ==
    /\ AcAt(t, "limit")
    /\ acRates' = AcTake(acRates, "caller")
    /\ acThread' = [acThread EXCEPT ![t] =
           IF AcWaits(acRates, "caller") THEN AcIdle ELSE [@ EXCEPT !.step = "authorize"]]
    /\ UNCHANGED <<acWorld, acCacheVars, acFailures, acGhosts>>

\* The policy is asked for every request: static-rbac refuses a role that is
\* not in the action's entry, OPA whatever its rule, which may change any time,
\* does not allow, and everything when it cannot be asked.
AcAuthorize(t) ==
    /\ AcAt(t, "authorize")
    /\ \E allowed \in BOOLEAN : acThread' = [acThread EXCEPT ![t] =
           IF allowed THEN [@ EXCEPT !.step = "granted"] ELSE AcIdle]
    /\ UNCHANGED <<acWorld, acCacheVars, acFailures, acRates, acGhosts>>

AcServed(t) ==
    /\ AcAt(t, "granted") /\ acThread' = [acThread EXCEPT ![t] = AcIdle]
    /\ UNCHANGED <<acWorld, acCacheVars, acFailures, acRates, acGhosts>>

-----------------------------------------------------------------------------
(* The world                                                               *)

AcTick ==
    /\ acNow < AcMaxTime /\ acNow' = acNow + 1
    /\ acLast' = [k \in AcKeys |-> IF k \in acPublished THEN acNow + 1 ELSE acLast[k]]
    /\ UNCHANGED <<acBackend, acPublished, acCacheVars, acFailures, acRates,
                   acThread, acGhosts, acChanges>>

AcRotate ==
    /\ acChanges < AcMaxChanges /\ acChanges' = acChanges + 1
    /\ acBackend \in AcTokens
    /\ acPublished' \in SUBSET AcKeys
    /\ acLast' = [k \in AcKeys |-> IF k \in acPublished' THEN acNow ELSE acLast[k]]
    /\ UNCHANGED <<acNow, acBackend, acCacheVars, acFailures, acRates, acThread, acGhosts>>

AcNext ==
    \/ \E t \in 1..AcThreads :
          \/ AcArrive(t) \/ AcKeysStart(t) \/ AcFetch(t) \/ AcFetchFails(t) \/ AcRefused(t)
          \/ AcLimit(t) \/ AcAuthorize(t) \/ AcServed(t)
    \/ AcTick \/ AcRotate

AcSpec == AcInit /\ [][AcNext]_acVars

-----------------------------------------------------------------------------
(* Properties                                                              *)

\* A token is let through only if its key was still published at most the
\* cache's lifetime before its keys were looked up: a withdrawn key stops
\* working within AUTH_JWKS_CACHE_TTL_S, whatever is being refetched meanwhile
\* for other tokens (JwksCache.keys).
AcWithdrawnKeyExpires ==
    acBackend \in AcTokens =>
        \A t \in 1..AcThreads : acThread[t].step \in {"limit", "authorize", "granted"} =>
            /\ acThread[t].key \in AcKeys
            /\ acLast[acThread[t].key] >= acThread[t].at - AcTtl

\* Guessing is slowed down although the limit is checked before the attempt
\* and charged after it: as long as the address's bucket is remembered, its
\* failed attempts are at most the tokens it has had, once for each request
\* that can be in flight (authenticate, TokenBuckets.take).
AcGuessingBounded ==
    \A p \in AcPeers :
        acFailed[p] * AcWhole <= AcThreads * (AcCapacity * AcWhole + (acNow - acSince[p]))

\* Withdrawn and guessed credentials are both bounded (jwt.py, ratelimit.py).
AcBounded == AcWithdrawnKeyExpires /\ AcGuessingBounded
===============================================================================
