----------------------------- MODULE RateWindows -----------------------------
(***************************************************************************)
(* The limits on an organization's model calls: requests and tokens per    *)
(* fixed window and concurrent calls by lease, kept by                     *)
(* RedisModelRateLimiter for all processes or by MemoryModelRateLimiter    *)
(* for each of them (services/model_governance.py).                        *)
(*                                                                         *)
(* A process reads its own clock before it asks; Redis expires by its own. *)
(***************************************************************************)
EXTENDS Integers, Sequences, FiniteSets, FiniteSetsExt, Functions

CONSTANTS
    Servers,      \* processes that ask
    Members,      \* principals of the organization
    Sizes,        \* token units of a call
    Offsets,      \* how far the clocks of the processes may be ahead of Redis
    Patience,     \* longest time from the clock read to the answer
    WindowLength, Grace, LeaseLength,
    PerWindow, PerMember, PerTokens, Places,  \* the limits of the policy
    MaxTries,     \* bound: calls that ask
    LastTick      \* bound: time

\* Keys outlive their window by Grace: 5 seconds, with a socket timeout of 2.
ASSUME RateAssumption ==
    /\ {Patience, Grace, MaxTries, LastTick} \cup Offsets \subseteq Nat
    /\ {WindowLength, LeaseLength, PerWindow, PerMember, PerTokens, Places} \cup Sizes \subseteq Nat \ {0}
    /\ \A a, b \in Offsets : a - b + Patience <= Grace
    /\ {"org", "tokens"} \cap Members = {}

VARIABLES
    keeper,  \* the limiter: "redis" or "memory"
    ahead,   \* [Servers -> Offsets]
    tick,    \* time, by the clock of Redis
    counters,\* [key -> count and expiry], of the windows
    places,  \* leases: the call and when it lapses
    vacated, \* [store -> when Redis drops its leases altogether]
    tries    \* the calls, in the order they asked

rateVars == <<keeper, ahead, tick, counters, places, vacated, tries>>

Never == LastTick + WindowLength + Grace + LeaseLength
Stores == {"shared"} \cup Servers
Empty == [k \in {} |-> 0]

InitRates ==
    /\ keeper \in {"redis", "memory"} /\ ahead \in [Servers -> Offsets]
    /\ tick = 0 /\ counters = Empty /\ places = {}
    /\ vacated = [s \in Stores |-> Never] /\ tries = <<>>

----------------------------------------------------------------------------
Clock(s) == tick + ahead[s]
Store(s) == IF keeper = "redis" THEN "shared" ELSE s
InWindow(try) == try.seen \div WindowLength

Key(try, what) == <<Store(try.by), what, InWindow(try)>>
Count(key) == IF key \in DOMAIN counters THEN counters[key].n ELSE 0

\* acquire begins: the window is that of the clock now.
Asks(s, m, size) ==
    /\ Len(tries) < MaxTries
    /\ tries' = Append(tries, [by |-> s, who |-> m, size |-> size, at |-> "asked",
                               seen |-> Clock(s), since |-> tick, busy |-> 0])
    /\ UNCHANGED <<keeper, ahead, tick, counters, places, vacated>>

\* Redis lets a lease lapse by the clock read before, the memory by its clock.
Lapsed(try) == {lease \in places : lease.store = Store(try.by) /\
    lease.until <= IF keeper = "redis" THEN try.seen ELSE Clock(try.by)}

\* The first limit that is reached.
Refusal(try, taken) ==
    CASE Count(Key(try, "org")) >= PerWindow -> "organization"
      [] Count(Key(try, "org")) < PerWindow /\ Count(Key(try, try.who)) >= PerMember -> "principal"
      [] /\ Count(Key(try, "org")) < PerWindow /\ Count(Key(try, try.who)) < PerMember
         /\ Count(Key(try, "tokens")) + try.size > PerTokens -> "tokens"
      [] /\ Count(Key(try, "org")) < PerWindow /\ Count(Key(try, try.who)) < PerMember
         /\ Count(Key(try, "tokens")) + try.size <= PerTokens
         /\ Cardinality(taken) >= Places -> "concurrency"
      [] OTHER -> "none"

\* Variant of Expiry: a counter lives for as long as a window.
ExpiryAtOnce == tick + WindowLength

\* The first count of a key sets its expiry; the memory keeps them all.
Expiry == IF keeper = "redis" THEN tick + WindowLength + Grace ELSE Never

Added(try) == [key \in {Key(try, "org"), Key(try, try.who), Key(try, "tokens")} |->
                  IF key[2] = "tokens" THEN try.size ELSE 1]
Counted(try) ==
    [key \in DOMAIN counters \cup DOMAIN Added(try) |->
        IF key \notin DOMAIN Added(try) THEN counters[key]
        ELSE [n |-> Count(key) + Added(try)[key],
              until |-> IF key \in DOMAIN counters THEN counters[key].until ELSE Expiry]]

OfStore(store) == {lease \in places : lease.store = store}
Holding == {i \in DOMAIN tries : tries[i].at = "held"}

Acquires(i) ==
    LET try == tries[i]
        taken == OfStore(Store(try.by)) \ Lapsed(try)
        refusal == Refusal(try, taken) IN
    /\ try.at = "asked"
    /\ IF refusal = "none"
       THEN /\ counters' = Counted(try)
            /\ places' = (places \ Lapsed(try)) \cup
                 {[store |-> Store(try.by), try |-> i, until |-> LeaseLength +
                     IF keeper = "redis" THEN try.seen ELSE Clock(try.by)]}
            /\ vacated' = IF keeper = "redis" THEN [vacated EXCEPT !["shared"] = tick + LeaseLength]
                          ELSE vacated
            /\ tries' = [tries EXCEPT ![i].at = "held", ![i].since = tick]
       ELSE /\ places' = places \ Lapsed(try)
            /\ tries' = [tries EXCEPT ![i].at = refusal, ![i].since = 0, ![i].busy =
                   Cardinality({j \in Holding : Store(tries[j].by) = Store(try.by)})]
            /\ UNCHANGED <<counters, vacated>>
    /\ UNCHANGED <<keeper, ahead, tick>>

\* The call is over; a process that is lost leaves its lease to lapse.
Releases(i) ==
    /\ tries[i].at = "held"
    /\ places' = {lease \in places : lease.try # i}
    /\ tries' = [tries EXCEPT ![i].at = "over", ![i].since = 0]
    /\ UNCHANGED <<keeper, ahead, tick, counters, vacated>>

\* Time passes; Redis drops what has expired.  A call that waits any longer has
\* timed out.
Passes ==
    /\ tick < LastTick /\ tick' = tick + 1
    /\ \A i \in DOMAIN tries : tries[i].at = "asked" => tick' <= tries[i].since + Patience
    /\ counters' = [k \in {k \in DOMAIN counters : counters[k].until > tick'} |-> counters[k]]
    /\ places' = {lease \in places : vacated[lease.store] > tick'}
    /\ UNCHANGED <<keeper, ahead, vacated, tries>>

NextRates ==
    \/ \E s \in Servers, m \in Members, size \in Sizes : Asks(s, m, size)
    \/ \E i \in DOMAIN tries : Acquires(i) \/ Releases(i)
    \/ Passes

RatesSpec == InitRates /\ [][NextRates]_rateVars

----------------------------------------------------------------------------
(* Properties *)

CallsOf(store, w) ==
    {i \in DOMAIN tries : /\ tries[i].at \in {"held", "over"}
                          /\ Store(tries[i].by) = store /\ InWindow(tries[i]) = w}
Tokens(calls) == MapThenSumSet(LAMBDA i : tries[i].size, calls)
Windows == {InWindow(tries[i]) : i \in DOMAIN tries}

\* acquire: no window admits more requests, of all or of one principal, or more
\* tokens than the policy grants, though processes whose clocks differ ask late
\* for a window that is over.
RatesKept == \A store \in Stores, w \in Windows :
    LET calls == CallsOf(store, w) IN
    /\ Cardinality(calls) <= PerWindow
    /\ Tokens(calls) <= PerTokens
    /\ \A m \in Members : Cardinality({i \in calls : tries[i].who = m}) <= PerMember

Spread == Max(Offsets) - Min(Offsets) + Patience

\* acquire, release: calls that are running and younger than a lease, less what
\* clocks differ by, are no more than the policy grants.
PlacesKept == \A store \in Stores :
    Cardinality({i \in Holding : /\ Store(tries[i].by) = store
                                 /\ tick < tries[i].since + LeaseLength - Spread}) <= Places

\* A refusal is due: a call is refused by a window only when what the window
\* admitted left no room, and for concurrency only while so many calls ran.
RefusedDuly == \A i \in DOMAIN tries :
    LET calls == CallsOf(Store(tries[i].by), InWindow(tries[i])) IN
    CASE tries[i].at = "organization" -> Cardinality(calls) >= PerWindow
      [] tries[i].at = "principal"    ->
            Cardinality({j \in calls : tries[j].who = tries[i].who}) >= PerMember
      [] tries[i].at = "tokens"       -> Tokens(calls) + tries[i].size > PerTokens
      [] tries[i].at = "concurrency"  -> tries[i].busy >= Places
      [] OTHER                        -> TRUE

\* The limits are kept, and nothing else is refused.
LimitsKept == RatesKept /\ PlacesKept /\ RefusedDuly
=============================================================================
