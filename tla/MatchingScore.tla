----------------------------- MODULE MatchingScore -----------------------------
(***************************************************************************)
(* How the matching ranks providers (booking-matching.service.ts): the     *)
(* configuration that operators edit (smart-matching.service.ts), its cache*)
(* of one minute, the weights made of it, and the score and the order of   *)
(* the candidates.  Who is a candidate at all is in module Matching.       *)
(*                                                                         *)
(* The code computes with floats.  Here a component is a whole number of   *)
(* hundredths and a distance one of kilometres, both rounded down; weights *)
(* are shares of a common denominator, so that scores are compared by      *)
(* their numerators: exactly, once the components are rounded.             *)
(***************************************************************************)
EXTENDS Integers, FiniteSets, FiniteSetsExt, Functions, TLC

CONSTANTS
    Candidates,     \* the candidates of a request
    Facts,          \* candidate |-> what the database says of them
    History,        \* the assignments in the database
    Order,          \* candidate |-> its place in the order of ids
    Configs,        \* the configurations an operator may send
    Workers,
    None

Components == {"distance", "rating", "reliability", "experience", "eco",
               "availability", "loyalty"}

ScoreAssumption ==
    /\ Order \in [Candidates -> Nat] /\ IsInjective(Order)
    /\ \A c \in Configs : /\ \A k \in DOMAIN c.weights : c.weights[k] \in Nat
                          /\ c.distanceMaxKm \in Nat \ {0}
                          /\ {c.two, c.threePlus} \subseteq Nat
    /\ None \notin Configs
    /\ IsFiniteSet(History)

VARIABLES
    rows,       \* the MatchingConfig rows, in the order of their creation
    latest,     \* the number of the row that was written last, 0 without rows
    cache,      \* the configuration in memory, or None
    req         \* worker |-> the load or update it carries out

vars == <<rows, latest, cache, req>>

DEFAULT_WEIGHTS == [distance |-> 20, rating |-> 20, reliability |-> 15,
                    experience |-> 10, eco |-> 15, availability |-> 15, loyalty |-> 5]
\* What is used without a row, in hundredths where the code has fractions.
Default == [weights |-> DEFAULT_WEIGHTS, distanceMaxKm |-> 20, two |-> 2, threePlus |-> 5]

Idle == [pc |-> "idle", row |-> 0, value |-> Default]

Init ==
    /\ rows = << >> /\ latest = 0
    /\ cache = None
    /\ req = [w \in Workers |-> Idle]

-----------------------------------------------------------------------------
(***************************************************************************)
(* Weights.                                                                *)
(***************************************************************************)

Total(w, keys) == MapThenSumSet(LAMBDA k : w[k], keys)

\* Slip: the share of the eco weight is not handed on to the others.
resolveWeightsLosesEco(weights, includeEco) ==
    LET merged == weights @@ DEFAULT_WEIGHTS
        all == Total(merged, DOMAIN merged)
    IN [share |-> [k \in Components |-> IF k = "eco" /\ ~includeEco THEN 0 ELSE merged[k]],
        of |-> IF all > 0 THEN all ELSE 1]

\* Without the eco preference its weight is spread over the others in proportion;
\* then all are divided by their sum.  share[k] / of is the weight of k.
resolveWeights(weights, includeEco) ==
    LET merged == weights @@ DEFAULT_WEIGHTS
        others == Total(merged, DOMAIN merged \ {"eco"})
        spread == ~includeEco /\ others > 0 /\ merged["eco"] > 0
        scaled == [k \in DOMAIN merged |->
                     CASE k = "eco" /\ ~includeEco -> 0
                       [] spread -> merged[k] * (others + merged["eco"])
                       [] OTHER -> merged[k]]
        total == Total(scaled, DOMAIN scaled)
    IN [share |-> [k \in Components |-> scaled[k]],
        of |-> IF total > 0 THEN total ELSE 1]

-----------------------------------------------------------------------------
(***************************************************************************)
(* Score and order.                                                        *)
(***************************************************************************)

AtMost(x, bound) == IF x <= bound THEN x ELSE bound
AtLeast(x, bound) == IF x >= bound THEN x ELSE bound

\* Kilometres: none if a zone names the city, half of the maximum if an area does.
computeDistanceKm(f, maxKm) ==
    CASE f.near = "zone" -> 0
      [] f.near = "area" -> maxKm \div 2
      [] OTHER -> maxKm

\* The assignments of a candidate: those of bookings that start after thirty days
\* ago, those of bookings cancelled since then, all, and those of the client.
fetchProviderMetrics(c) ==
    LET mine == {h \in History : h.provider = c} IN
    [recent |-> Cardinality({h \in mine : h.startsRecently}),
     cancelled |-> Cardinality({h \in mine : h.cancelledRecently}),
     total |-> Cardinality(mine),
     ofClient |-> Cardinality({h \in mine : h.ofClient})]

\* Slip: more cancellations than assignments make the reliability negative.
reliabilityUnclamped(m) ==
    IF m.recent = 0 THEN 100 ELSE 100 - (100 * m.cancelled) \div m.recent

reliability(m) ==
    IF m.recent = 0 THEN 100 ELSE AtLeast(100 - (100 * m.cancelled) \div m.recent, 0)

components(c, bio, maxKm) ==
    LET f == Facts[c]
        m == fetchProviderMetrics(c)
    IN [distance |-> 100 - AtMost((100 * computeDistanceKm(f, maxKm)) \div maxKm, 100),
        rating |-> AtMost(20 * f.rating, 100),
        reliability |-> reliability(m),
        experience |-> AtMost(m.total \div 2, 100),
        eco |-> IF bio /\ ~f.offersEco THEN 0 ELSE 100,
        availability |-> f.availability,
        loyalty |-> IF m.ofClient > 0 THEN 50 ELSE 0]

\* An estimate and what is left of the ceiling, in hundredths of the ceiling.
priceScore(f, hours, ceiling) ==
    IF ceiling = 0 \/ f.rate = 0 THEN 0
    ELSE AtLeast(AtMost((100 * (ceiling - f.rate * hours)) \div ceiling, 100), 0)

\* The bonus of companies for teams, in hundredths.
teamBonus(f, config, required) ==
    CASE ~f.company -> 0
      [] required >= 3 -> config.threePlus
      [] required = 2 -> config.two
      [] OTHER -> 0

\* A request: whether it asks for eco, how many providers, hours, price ceiling.
Scored(c, config, q) ==
    LET w == resolveWeights(config.weights, q.bio)
        parts == components(c, q.bio, config.distanceMaxKm)
    IN [parts |-> parts,
        score |-> Total([k \in Components |-> w.share[k] * parts[k]], Components)
                    + teamBonus(Facts[c], config, q.required) * w.of,
        distanceKm |-> computeDistanceKm(Facts[c], config.distanceMaxKm),
        price |-> priceScore(Facts[c], q.hours, q.ceiling)]

\* The keys of the comparison, each with more before less.
Keys(s) == <<s.score, s.parts.availability, s.parts.rating, s.parts.reliability,
             -s.distanceKm, s.price>>

\* Slip: ascending order.
BeforeAscending(a, b, config, q) ==
    LET ka == Keys(Scored(a, config, q))
        kb == Keys(Scored(b, config, q))
        differ == {i \in 1..6 : ka[i] # kb[i]}
    IN IF differ = {} THEN Order[a] < Order[b]
       ELSE ka[Min(differ)] < kb[Min(differ)]

Before(a, b, config, q) ==
    LET ka == Keys(Scored(a, config, q))
        kb == Keys(Scored(b, config, q))
        differ == {i \in 1..6 : ka[i] # kb[i]}
    IN IF differ = {} THEN Order[a] < Order[b]
       ELSE ka[Min(differ)] > kb[Min(differ)]

Ranked(q) ==
    {c \in Candidates : Facts[c].availability > 0 /\ (q.bio => Facts[c].offersEco)}

rank(c, config, q) == 1 + Cardinality({d \in Ranked(q) : Before(d, c, config, q)})

\* What matchProviders, previewScores and simulate return, best first.
scoreProviders(config, q, limit) ==
    {<<rank(c, config, q), c>> : c \in {d \in Ranked(q) : rank(d, config, q) <= limit}}

-----------------------------------------------------------------------------
(***************************************************************************)
(* The configuration: loads fill the cache, updates write the row that was *)
(* created last and drop the cache.                                        *)
(***************************************************************************)

Current == IF latest = 0 THEN Default ELSE rows[latest]

\* A load that finds nothing in the cache reads the row written last ...
LoadRead(w) ==
    /\ req[w].pc = "idle" /\ cache = None
    /\ req' = [req EXCEPT ![w] = [pc |-> "loading", row |-> 0, value |-> Current]]
    /\ UNCHANGED <<rows, latest, cache>>

\* ... and keeps it for a minute.
LoadStore(w) ==
    /\ req[w].pc = "loading"
    /\ cache' = req[w].value
    /\ req' = [req EXCEPT ![w] = Idle]
    /\ UNCHANGED <<rows, latest>>

\* Slip: the age of the cache is not looked at.
CacheStays == cache # None /\ UNCHANGED vars

CacheExpires ==
    /\ cache # None /\ cache' = None
    /\ UNCHANGED <<rows, latest, req>>

\* What an operator leaves out stays as the row created last has it.
UpdateRead(w, config, sent) ==
    LET n == Cardinality(DOMAIN rows)
        existing == IF n = 0 THEN Default ELSE rows[n]
    IN /\ req[w].pc = "idle"
       /\ req' = [req EXCEPT ![w] =
                    [pc |-> "updating", row |-> n,
                     value |-> [k \in DOMAIN config |->
                                  IF k \in sent THEN config[k] ELSE existing[k]]]]
       /\ UNCHANGED <<rows, latest, cache>>

\* Slip: the row is not dated, so that loads do not find it.
UpdateWriteUndated(w) ==
    /\ req[w].pc = "updating"
    /\ LET n == IF req[w].row = 0 THEN Cardinality(DOMAIN rows) + 1 ELSE req[w].row IN
         rows' = [i \in 1..AtLeast(n, Cardinality(DOMAIN rows)) |->
                    IF i = n THEN req[w].value ELSE rows[i]]
    /\ req' = [req EXCEPT ![w].pc = "written"]
    /\ UNCHANGED <<latest, cache>>

UpdateWrite(w) ==
    /\ req[w].pc = "updating"
    /\ LET n == IF req[w].row = 0 THEN Cardinality(DOMAIN rows) + 1 ELSE req[w].row IN
         /\ rows' = [i \in 1..AtLeast(n, Cardinality(DOMAIN rows)) |->
                       IF i = n THEN req[w].value ELSE rows[i]]
         /\ latest' = n
    /\ req' = [req EXCEPT ![w].pc = "written"]
    /\ UNCHANGED cache

\* Slip: the cache is left to expire.
InvalidateLater(w) ==
    /\ req[w].pc = "written"
    /\ req' = [req EXCEPT ![w] = Idle]
    /\ UNCHANGED <<rows, latest, cache>>

invalidateCache(w) ==
    /\ req[w].pc = "written"
    /\ cache' = None
    /\ req' = [req EXCEPT ![w] = Idle]
    /\ UNCHANGED <<rows, latest>>

Next ==
    \/ \E w \in Workers :
         \/ LoadRead(w) \/ LoadStore(w)
         \/ \E c \in Configs, sent \in {{"weights"}, {"distanceMaxKm", "two", "threePlus"}} :
              UpdateRead(w, c, sent)
         \/ UpdateWrite(w) \/ invalidateCache(w)
    \/ CacheExpires

Spec == Init /\ [][Next]_vars

-----------------------------------------------------------------------------
Requests == [bio : BOOLEAN, required : 1..3, hours : {2}, ceiling : {0, 100}]

Config == [weights : {c.weights : c \in Configs \cup {Default}},
           distanceMaxKm : Nat \ {0}, two : Nat, threePlus : Nat]

TypeOK ==
    /\ \A i \in DOMAIN rows : rows[i] \in Config
    /\ latest \in 0..Cardinality(DOMAIN rows) /\ (latest = 0 <=> rows = << >>)
    /\ cache = None \/ cache \in Config
    /\ req \in [Workers -> [pc : {"idle", "loading", "updating", "written"},
                            row : 0..Cardinality(DOMAIN rows), value : Config]]

\* Whatever an operator configures, the seven weights are shares of one: they add
\* up to it, unless all are zero or a name was configured that no component has,
\* which takes its share away from them.
WeightsAreShares ==
    \A bio \in BOOLEAN :
        LET w == resolveWeights(Current.weights, bio)
            sum == Total(w.share, Components)
        IN /\ sum <= w.of
           /\ sum # 0 /\ DOMAIN Current.weights \subseteq Components => sum = w.of

\* A candidate that is as good as another in every component and in price, and
\* better in a component that counts, comes first, unless the other is a company.
DominanceKept ==
    \A q \in Requests : \A a, b \in Ranked(q) :
        LET x == Scored(a, Current, q)
            y == Scored(b, Current, q)
            w == resolveWeights(Current.weights, q.bio)
        IN (/\ \A k \in Components : x.parts[k] >= y.parts[k]
            /\ \E k \in Components : x.parts[k] > y.parts[k] /\ w.share[k] > 0
            /\ ~Facts[b].company)
           => rank(a, Current, q) < rank(b, Current, q)

\* The ranks are 1, 2, ... without gaps or ties, and every share of a score is
\* between nothing and the weight, however many cancellations there were.
RanksAreDense ==
    \A q \in Requests :
        /\ {rank(c, Current, q) : c \in Ranked(q)} = 1..Cardinality(Ranked(q))
        /\ \A c \in Ranked(q) : \A k \in Components :
             Scored(c, Current, q).parts[k] \in 0..100

\* One request at a time, the cache holds what was saved last once an update is done.
CacheIsCurrent ==
    (cache # None /\ \A w \in Workers : req[w].pc # "written") => cache = Current

=============================================================================
