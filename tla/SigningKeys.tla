---------------------------- MODULE SigningKeys ----------------------------
(***************************************************************************)
(* The cache of the provider's metadata and signing keys (OIDCDiscoveryCache), *)
(* while the provider rotates its keys and is sometimes unreachable.  Each *)
(* lookup runs under the cache's lock and is one step.                     *)
(***************************************************************************)
EXTENDS Integers, FiniteSets

CONSTANTS
    Keys,         \* key ids
    JwksTTL,      \* oidc_jwks_ttl_seconds
    MetadataTTL,  \* oidc_discovery_ttl_seconds
    UnknownTTL,   \* min(30, oidc_jwks_ttl_seconds)
    EndOfTime     \* bound: clock

ASSUME SigningKeysAssumption ==
    /\ JwksTTL \in Nat \ {0} /\ MetadataTTL \in Nat \ {0} /\ EndOfTime \in Nat
    /\ UnknownTTL \in Nat \ {0} /\ UnknownTTL <= JwksTTL
    /\ "none" \notin Keys

VARIABLES
    tick,
    published,  \* keys the provider publishes
    withdrawn,  \* when each key was last withdrawn
    reachable,  \* the provider answers
    metadata,   \* when the metadata was loaded, or None
    jwks,       \* the cached key set and when it was loaded, or None
    unknown,    \* key ids that were not found, and when
    verdict     \* the last lookup: key id, answer, and whether the provider was asked

keyVars == <<tick, published, withdrawn, reachable, metadata, jwks, unknown, verdict>>

None == [loaded |-> -1, keys |-> {}]
NoVerdict == [key |-> "none", answer |-> "none"]

InitKeys ==
    /\ tick = 0
    /\ published \in (SUBSET Keys) \ {{}}
    /\ withdrawn = [k \in Keys |-> -1]
    /\ reachable = TRUE
    /\ metadata = None /\ jwks = None
    /\ unknown = [k \in Keys |-> -1]
    /\ verdict = NoVerdict

Fresh(cached, ttl) == cached # None /\ tick - cached.loaded < ttl

\* get_metadata: the cached document while it is fresh, else a download; there
\* is nothing to fall back to when the download fails.
MetadataAfter ==
    IF Fresh(metadata, MetadataTTL) THEN metadata
    ELSE IF reachable THEN [loaded |-> tick, keys |-> {}]
    ELSE None

\* get_jwks(force): a download needs the metadata too.
JwksAvailable(force) ==
    \/ ~force /\ Fresh(jwks, JwksTTL)
    \/ reachable

\* Variant of JwksAfter: the cached keys are used as long as there are any.
JwksAfterForever(force) ==
    IF ~force /\ jwks # None THEN jwks ELSE [loaded |-> tick, keys |-> published]

JwksAfter(force) ==
    IF ~force /\ Fresh(jwks, JwksTTL) THEN jwks ELSE [loaded |-> tick, keys |-> published]

RecentlyUnknown(k) == unknown[k] >= 0 /\ tick - unknown[k] < UnknownTTL

Answer(k, answer) == verdict' = [key |-> k, answer |-> answer]

Fetched == metadata' = MetadataAfter

\* signing_key(k): a fresh negative answer, the cached keys, then a forced
\* download, then a negative answer that is remembered.
Lookup(k) ==
    \/ /\ RecentlyUnknown(k)
       /\ Answer(k, "unknown")
       /\ UNCHANGED <<metadata, jwks, unknown>>
    \/ /\ ~RecentlyUnknown(k)
       /\ ~JwksAvailable(FALSE)
       /\ Answer(k, "unavailable")
       /\ UNCHANGED <<metadata, jwks, unknown>>
    \/ /\ ~RecentlyUnknown(k)
       /\ JwksAvailable(FALSE) /\ k \in JwksAfter(FALSE).keys
       /\ jwks' = JwksAfter(FALSE)
       /\ unknown' = [unknown EXCEPT ![k] = -1]
       /\ IF jwks' = jwks THEN metadata' = metadata ELSE Fetched
       /\ Answer(k, "accepted")
    \/ /\ ~RecentlyUnknown(k)
       /\ JwksAvailable(FALSE) /\ k \notin JwksAfter(FALSE).keys
       /\ ~reachable
       /\ jwks' = JwksAfter(FALSE)
       /\ Answer(k, "unavailable")
       /\ UNCHANGED <<metadata, unknown>>
    \/ /\ ~RecentlyUnknown(k)
       /\ k \notin JwksAfter(FALSE).keys /\ reachable
       /\ jwks' = JwksAfter(TRUE)
       /\ Fetched
       /\ unknown' = [unknown EXCEPT ![k] = IF k \in published THEN -1 ELSE tick]
       /\ Answer(k, IF k \in published THEN "accepted" ELSE "unknown")

Use(k) == Lookup(k) /\ UNCHANGED <<tick, published, withdrawn, reachable>>

----------------------------------------------------------------------------
(* The provider, external *)

Publish(k) ==
    /\ k \notin published
    /\ published' = published \cup {k}
    /\ UNCHANGED <<tick, withdrawn, reachable, metadata, jwks, unknown, verdict>>

Withdraw(k) ==
    /\ k \in published /\ published # {k}
    /\ published' = published \ {k}
    /\ withdrawn' = [withdrawn EXCEPT ![k] = tick]
    /\ UNCHANGED <<tick, reachable, metadata, jwks, unknown, verdict>>

Outage ==
    /\ reachable' = ~reachable
    /\ UNCHANGED <<tick, published, withdrawn, metadata, jwks, unknown, verdict>>

Second ==
    /\ tick < EndOfTime
    /\ tick' = tick + 1
    /\ verdict' = NoVerdict
    /\ UNCHANGED <<published, withdrawn, reachable, metadata, jwks, unknown>>

NextKeys ==
    \/ \E k \in Keys : Use(k) \/ Publish(k) \/ Withdraw(k)
    \/ Outage \/ Second

KeysSpec == InitKeys /\ [][NextKeys]_keyVars

----------------------------------------------------------------------------
(* Properties *)

KeysTypeOK ==
    /\ tick \in 0..EndOfTime
    /\ published \in (SUBSET Keys) \ {{}}
    /\ jwks.keys \subseteq Keys /\ jwks.loaded \in -1..tick
    /\ unknown \in [Keys -> -1..EndOfTime]

\* What a lookup answers, whatever was looked up, rotated or unreachable before
\* it (oidc.py:249-306): a key the provider has withdrawn is accepted for less
\* than the TTL of the key set; a key it publishes is refused as unknown only
\* while an earlier negative answer is remembered, never because the cache is
\* stale; and a key in the fresh cache needs no provider.
AnswersSound ==
    [][KeysTypeOK' /\ \A k \in Keys :
        verdict' # verdict /\ verdict'.key = k =>
            CASE verdict'.answer = "accepted" ->
                    k \in published \/ tick - withdrawn[k] < JwksTTL
              [] verdict'.answer = "unknown" ->
                    k \in published => tick - unknown[k] < UnknownTTL
              [] verdict'.answer = "unavailable" ->
                    ~reachable /\ ~(Fresh(jwks, JwksTTL) /\ k \in jwks.keys)
      ]_keyVars
=============================================================================
